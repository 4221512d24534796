SPECIFICATION FairSpec
CONSTANTS
  N = 3
  Plans <- MCIndependent
  Workers = {w1, w2}
  Callers <- MCDecompose
  PoolAtStart <- MCCold
  MayFail <- MCAnyJob
  MayTimeOut = FALSE
CHECK_DEADLOCK FALSE
PROPERTIES
  SuccessIsReported
  FailureIsReported
  ContinuationRuns
