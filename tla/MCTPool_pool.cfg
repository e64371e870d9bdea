SPECIFICATION FairSpec
CONSTANTS
  p1 = p1  p2 = p2  a = a  b = b  c = c  d = d
  Workers = {w1, w2}
  Tasks = {p1, p2, a, b, c, d}
  Roots = {p1, p2, d}
  Children <- Nested
  Throws = {a}
  NoTask = NoTask
INVARIANTS OldestFirst Accounted NormalReturnMeansAllRan AtMostOneLateTask
PROPERTIES FuturesBecomeReady DestructionReturns
CHECK_DEADLOCK FALSE
