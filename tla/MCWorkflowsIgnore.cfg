SPECIFICATION FairSpec
CONSTANTS
  a = a
  b = b
  c = c
  d = d
  e = e
  w1 = w1
  w2 = w2
  p1 = p1
  Workflow = {w1, w2}
  Task = {a, b, e}
  In <- PairIn
  TaskOrder <- PairOrder
  Edge <- Pair
  Plain = {}
  Limit = 1
  IgnoreBeyond = {TRUE}
  Fate = {}
CHECK_DEADLOCK FALSE
INVARIANT IgnoredBeyondLastOnly
