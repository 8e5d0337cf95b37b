SPECIFICATION Spec
CONSTANTS
  None = None
  NodeTypes = {1, 2, 3}
  ShardCounts = {1, 2}
  ReplicaCounts = {1, 2}
  Descs = {"d1", "d2"}
  Versions <- SomeVersions
  UserGroups = {"g1"}
  TagKeys = {"k"}
  TagValues = {"x"}
  InitSpecs <- Small
  Editable = {"cnt", "shards"}
  Unsettable = {"shards"}
  MaxEdits = 2
  FaultKinds = {"rollback"}
  MaxFaults = 1
CHECK_DEADLOCK FALSE
INVARIANT TypeOK
INVARIANT AnnotationsHonest
INVARIANT RefusalMeansRollback
INVARIANT SyncedTellsTheTruth
INVARIANT NeverAbandoned
