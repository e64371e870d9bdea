SPECIFICATION FairSpec
CONSTANTS
  MaxMsgs = 2
  Ops <- Uses
  Modes = {{"deq"}, {"enq"}}
  BufSize = 1
  Errnos = {"other", "wouldblock"}
INVARIANT WholeMessagesInOrder
PROPERTIES NothingAfterDisable PeerGoneReleases TimedCallsEnd
CHECK_DEADLOCK FALSE
