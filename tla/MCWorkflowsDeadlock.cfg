SPECIFICATION FairSpec
CONSTANTS
  a = a
  b = b
  c = c
  d = d
  e = e
  w1 = w1
  w2 = w2
  p1 = p1
  Workflow = {w1}
  Task = {a, b, c, d}
  In <- ChainsIn
  TaskOrder <- ChainsOrder
  Edge <- Chains
  Plain = {}
  Limit = 0
  IgnoreBeyond = {FALSE}
  Fate = {}
CHECK_DEADLOCK FALSE
PROPERTY WorkflowsEnd
