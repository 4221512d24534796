SPECIFICATION Spec
CONSTANTS
  N = 3
  Plans <- MCEitherPlan
  Workers = {w1, w2}
  Callers <- MCBoth
  PoolAtStart <- MCWarmOrCold
  MayFail <- MCAnyJob
  MayTimeOut = TRUE
CHECK_DEADLOCK FALSE
INVARIANTS
  TypeOK
  CompletedMeansAllOutputs
  ContinuationSeesAllOutputs
  MergeIsWhole
PROPERTIES
  NoChildRunsTwice
  HandleSettlesOnce
  OutcomesAreKept
  KeepsPromise
