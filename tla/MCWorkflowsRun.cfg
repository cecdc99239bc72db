SPECIFICATION FairSpec
CONSTANTS
  a = a
  b = b
  c = c
  d = d
  e = e
  w1 = w1
  w2 = w2
  p1 = p1
  Workflow = {w1}
  Task = {a, b, c, d, e}
  In <- JoinIn
  TaskOrder <- JoinOrder
  Edge <- Join
  Plain = {p1}
  Limit = 2
  IgnoreBeyond = {TRUE}
  Fate = {"killed", "rejected"}
INVARIANTS
  WorkflowTypeOK
  OnceAfterParents
  CallbacksFindTheirTarget
  ByeMeansAllRun
  DepthIsLongestPath
PROPERTY StopsForAReason
CHECK_DEADLOCK FALSE
