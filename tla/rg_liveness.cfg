SPECIFICATION FairSpec
CONSTANTS
  None = None
  NodeTypes = {1, 2}
  ShardCounts = {1, 2}
  ReplicaCounts = {1, 2}
  Descs = {"d1", "d2"}
  Versions <- SomeVersions
  UserGroups = {"g1"}
  TagKeys = {"k"}
  TagValues = {"x"}
  InitSpecs <- Small
  Editable = {"replicas", "cnt"}
  Unsettable = {}
  MaxEdits = 2
  FaultKinds = {"reject", "lost", "crash", "rollback", "snapshot", "unsettled", "read", "describeCacheCluster", "createFailed"}
  MaxFaults = 1
CHECK_DEADLOCK FALSE
INVARIANT AnnotationsHonest
PROPERTY DeletionCompletes
PROPERTY Converges
