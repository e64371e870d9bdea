SPECIFICATION Spec
CONSTANTS
  Senders = {s}
  Listeners = {l}
  Controllers = {ctl}
  main = main
  SyncOps = {}
  AsyncOps <- Traffic
  Policies = {"any_time"}
  MaxSizes = {1}
  NoItem = NoItem
  NoObject = NoObject
  MaxOps = 2
INVARIANT NoSelfJoin
CHECK_DEADLOCK FALSE
