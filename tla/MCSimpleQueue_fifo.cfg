SPECIFICATION FairSpec
CONSTANTS
  t1 = t1  t2 = t2  t3 = t3
  Threads = {t1, t2, t3}
  Items = {a, b}
  NoItem = NoItem
  MaxSizes = {0, 1, 2}
  SizeMod = 16
  Calls <- MixedCalls
INVARIANTS TypeOK NoLostWakeup Delivery
PROPERTIES RespectsSettings ImplementsFifo
