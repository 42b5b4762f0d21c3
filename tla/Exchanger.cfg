SPECIFICATION FairSpec
CONSTANTS
  WorldSize = 4
  Clash = {1, 3}
  MaxTries = 2
  Unsteady = {1, 2, 3}
INVARIANT Agreement
INVARIANT ServeNeverPanics
INVARIANT ConnectNeverPanics
INVARIANT StreamsHeld
PROPERTY AllExchanged
CHECK_DEADLOCK FALSE
