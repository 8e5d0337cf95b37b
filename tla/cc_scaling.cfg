SPECIFICATION Spec
CONSTANTS
  None = None
  MaxNodes = 3
  AZs = {"east"}
  TagKeys = {"k"}
  TagValues = {"x"}
  InitSpecs <- Started
  Editable = {"num", "azs", "tags"}
  MaxEdits = 2
  FaultKinds = {}
  MaxFaults = 0
CHECK_DEADLOCK FALSE
INVARIANT TypeOK
INVARIANT RemovesTheLastNodes
INVARIANT RefusalMeansNewZones
INVARIANT SyncedTellsTheTruth
PROPERTY EditsSurvivePatch
