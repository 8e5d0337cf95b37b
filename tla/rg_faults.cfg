SPECIFICATION Spec
CONSTANTS
  None = None
  NodeTypes = {1, 2}
  ShardCounts = {1, 2}
  ReplicaCounts = {1, 2}
  Descs = {"d1", "d2"}
  Versions <- SomeVersions
  UserGroups = {"g1"}
  TagKeys = {"k"}
  TagValues = {"x"}
  InitSpecs <- Small
  Editable = {"replicas", "desc", "af", "ev"}
  Unsettable = {}
  MaxEdits = 1
  FaultKinds = {"reject", "lost", "crash", "rollback", "snapshot", "unsettled", "read", "describeCacheCluster", "createFailed"}
  MaxFaults = 2
CHECK_DEADLOCK FALSE
INVARIANT NoOrphan
INVARIANT NeverAbandoned
INVARIANT SyncedTellsTheTruth
PROPERTY ImplementsLifecycle
PROPERTY OtherEditsSurvivePatch
