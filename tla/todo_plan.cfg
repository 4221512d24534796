SPECIFICATION FairSpec
CONSTANTS
  goal = goal early = early late = late extra = extra
  Items = {goal, early, late, extra}
  Planned = {goal, early, late}
  Goals = {goal}
  Plans <- MCPlans
  Retries = 2
  MaxIterations = 2
  Tools = {"create", "depend", "done", "failed", "blocked"}
  MaxEdits = 2
  MaxCrashes = 1
CHECK_DEADLOCK FALSE
INVARIANTS TypeOK DependenciesDone AttemptsBounded StuckOnlyByFailure
PROPERTIES DoneIsFinal RunEndsOrSticks
