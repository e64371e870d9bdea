SPECIFICATION FairSpec
CONSTANTS
  Senders = {s}
  Listeners = {l}
  Controllers = {ctl}
  main = main
  SyncOps <- TakesItem
  AsyncOps <- Blocking
  Policies = {"after_run", "any_time"}
  MaxSizes = {1}
  NoItem = NoItem
  NoObject = NoObject
  MaxOps = 1
PROPERTIES DestructionReturns RunReturns
CHECK_DEADLOCK FALSE
