SPECIFICATION FairSpec
CONSTANTS
  Nodes = {0, 1, 2}
  Scenarios <- LiveScenarios
PROPERTY AllPass
PROPERTY CallReturns
