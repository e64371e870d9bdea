SPECIFICATION FairSpec
CONSTANTS
  c1 = c1  c2 = c2  t1 = t1  t2 = t2  a = a  b = b  x = x
  Consumers = {t1, t2}
  Calls <- Uses
  server = server
  Clients = {c1, c2}
  Sends <- Traffic
  NoMsg = NoMsg
  Unreadable = {x}
  maxclients_ = 1
  BufSize = 1
INVARIANTS WholeMessagesInOrder DescriptorsTracked NoLostWakeup
PROPERTIES DestructionReturns MessageReachesQueue
CHECK_DEADLOCK FALSE
