SPECIFICATION FairSpec
CONSTANTS
  None = None
  NodeTypes = {1, 2}
  ShardCounts = {1, 2}
  ReplicaCounts = {1, 2}
  Descs = {"d1", "d2"}
  Versions <- SomeVersions
  UserGroups = {"g1"}
  TagKeys = {"a", "b"}
  TagValues = {"x", "y"}
  InitSpecs <- Tagged
  Editable = {"tags"}
  Unsettable = {}
  MaxEdits = 2
  FaultKinds = {"lost", "crash"}
  MaxFaults = 1
CHECK_DEADLOCK FALSE
PROPERTY KeptTagsStay
PROPERTY Converges
