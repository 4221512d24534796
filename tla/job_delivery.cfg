SPECIFICATION FairSpec
CONSTANTS
  j1 = j1 j2 = j2 w1 = w1 w2 = w2
  Jobs = {j1, j2}
  Workers = {w1, w2}
  Backends = {"memory", "persistent"}
  PoisonAt = 3
  AttemptLimits = {1, 3}
  FailureLimit = 2
  PanicLimit = 1
  CrashLimit = 1
  MaxCycles = 2
  MaxCrashes = 2
CHECK_DEADLOCK FALSE
INVARIANTS TypeOK OnePlace FailureBudget DegradedOnlyAfterCrash
PROPERTIES DeadStaysDead JobsSettle
