SPECIFICATION CollectiveFairSpec
CONSTANTS
  Channels = {c1, c2}
  MaxWrId = 1
  MinCqEntries = 3
  MaxSendWr = 2
  MaxRecvWr = 1
  PollFails = TRUE
  NoPeer = NoPeer
  MaxPeers = 2
INVARIANT CallTypeOK
INVARIANT OkMeansAll
INVARIANT NoUnpolledPanic
INVARIANT ReturnsQuiet
INVARIANT BuffersHeld
PROPERTY CallReturns
