SPECIFICATION Spec
CONSTANTS
  Channels = {c1}
  MaxWrId = 3
  MinCqEntries = 1
  MaxSendWr = 1
  MaxRecvWr = 1
  PollFails = FALSE
INVARIANT TypeOK
INVARIANT CompletionConserved
INVARIANT ResultIsOwn
INVARIANT CacheDrained
