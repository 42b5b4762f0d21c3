SPECIFICATION Spec
CONSTANTS
  Nodes = {0, 1, 2, 3}
  Scenarios <- SafetyScenarios
INVARIANT BarrierSafety
INVARIANT NoLateWrite
PROPERTY SourceStable
PROPERTY KeepsPromise
