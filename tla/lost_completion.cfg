SPECIFICATION FairSpec
CONSTANTS
  N = 2
  Plans <- MCIndependent
  Workers = {w1, w2}
  Callers <- MCParallelize
  PoolAtStart <- MCWarm
  MayFail <- MCNoJob
  MayTimeOut = FALSE
CHECK_DEADLOCK FALSE
PROPERTIES
  SuccessIsReported
