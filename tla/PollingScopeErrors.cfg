SPECIFICATION FairSpec
CONSTANTS
  Channels = {c1}
  MaxWrId = 2
  MinCqEntries = 3
  MaxSendWr = 2
  MaxRecvWr = 1
  PollFails = TRUE
INVARIANT BuffersHeld
INVARIANT ScopeOutcome
PROPERTY ScopeTerminates
PROPERTY SpinTerminates
