SPECIFICATION FairSpec
CONSTANTS
  w1 = w1 w2 = w2 w3 = w3 s1 = s1 s2 = s2 s3 = s3
  init = init made = made sent = sent lost = lost
  Workflows = {w1, w2, w3}
  Steps = {s1, s2, s3}
  Events = {init, made, sent, lost}
  StartEvents = {init, made, sent}
  First = init
  Registries <- MCRegistries
  MaxIterations = 4
  End = End None = None
CHECK_DEADLOCK FALSE
INVARIANTS TypeOK InOrder NoneForgotten StoredAsReported
PROPERTY PipelineEnds
