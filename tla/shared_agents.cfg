SPECIFICATION FairSpec
CONSTANTS
  person = person pool = pool a1 = a1 a2 = a2
  w1 = w1 w2 = w2 w3 = w3 s1 = s1 s2 = s2 s3 = s3
  Agents = {a1, a2}
  Callers = {person, pool}
  Human = person
  Reach <- MCShared
  Workflows = {w1, w2, w3}
  Steps = {s1, s2, s3}
  Registries <- MCRegistries
  OwnWorkflow <- MCOwn
  Named <- MCNobody
  MaxIterations = 3
  Operations = {}
  MaxIngests = 2
CHECK_DEADLOCK FALSE
INVARIANTS TypeOK WaitIsCoherent ParkedIsCurrent OneOwner RequestForEveryWait AnswersMatchPrompt
PROPERTIES CallsReturn
