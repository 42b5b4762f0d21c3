SPECIFICATION Spec
CONSTANTS
  Usize = 16
  U32 = 4
  AckQuantum = 4096
  AckCodes = 6
  MaxSteps = 2
  MaxRefused = 8
  Scenarios <- DocScenarios
INVARIANT WaitsAsDocumented
