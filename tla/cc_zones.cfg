SPECIFICATION Spec
CONSTANTS
  None = None
  MaxNodes = 2
  AZs = {"east", "west"}
  TagKeys = {"k"}
  TagValues = {"x"}
  InitSpecs <- Named
  Editable = {"num", "azs"}
  MaxEdits = 1
  FaultKinds = {}
  MaxFaults = 0
CHECK_DEADLOCK FALSE
INVARIANT ZonesHonoured
