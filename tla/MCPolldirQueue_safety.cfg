SPECIFICATION Spec
CONSTANTS
  q1 = q1  q2 = q2  t1 = t1  t2 = t2  t3 = t3
  Queues = {q1, q2}
  Threads = {t1, t2, t3}
  ObjOf <- TwoObjects
  Calls <- MixedCalls
  Items = {a, b, c}
  NoItem = NoItem
  NoThread = NoThread
  MaxSize = 2
  Removers = {}
  MaxClock = 1
  MaxLocks = 1
SYMMETRY ItemSymmetry
INVARIANTS NoPartialRead Conservation NoLostWakeup CapacityHeld
PROPERTY OldestSecondFirst
CHECK_DEADLOCK FALSE
