SPECIFICATION Spec
CONSTANTS
  Senders = {s}
  Listeners = {l}
  Controllers = {ctl}
  main = main
  SyncOps = {}
  AsyncOps <- Traffic
  Policies = {"after_run", "any_time"}
  MaxSizes = {1}
  NoItem = NoItem
  NoObject = NoObject
  MaxOps = 2
INVARIANTS HandlersInOrder NoItemLost RunAnswersAll NoSelfJoinAfterRun
CHECK_DEADLOCK FALSE
