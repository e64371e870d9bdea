SPECIFICATION FairSpec
CONSTANTS
  a = a  b = b  x = x  y = y
  NoMsg = NoMsg
  Msgs <- Traffic
  Ops <- Uses
  MaxRuns <- Runs
  Unserialisable = {y}
  Unreadable = {x}
  BufSize = 2
  Errnos = {"other", "wouldblock"}
INVARIANTS WholeMessagesInOrder StuckOnlyAfterThrow OneClientPerServer
PROPERTIES PeerGoneReleases TimedDeqEnds
CHECK_DEADLOCK FALSE
