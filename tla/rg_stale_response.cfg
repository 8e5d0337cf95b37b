SPECIFICATION Spec
CONSTANTS
  None = None
  NodeTypes = {1, 2}
  ShardCounts = {1, 2}
  ReplicaCounts = {1, 2}
  Descs = {"d1", "d2"}
  Versions <- SomeVersions
  UserGroups = {"g1"}
  TagKeys = {"k"}
  TagValues = {"x"}
  InitSpecs <- Small
  Editable = {"replicas", "cnt"}
  Unsettable = {}
  MaxEdits = 1
  FaultKinds = {}
  MaxFaults = 0
CHECK_DEADLOCK FALSE
PROPERTY EditsSurvivePatch
