SPECIFICATION Spec
CONSTANTS
  Channels = {c1}
  MaxWrId = 1
  MinCqEntries = 3
  MaxSendWr = 2
  MaxRecvWr = 1
  PollFails = TRUE
INVARIANT BuffersAlwaysHeld
