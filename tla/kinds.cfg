SPECIFICATION FairSpec
CONSTANTS
  None = None
  KindsChecked = {"User", "UserGroup", "CacheSubnetGroup", "CacheParameterGroup", "Snapshot", "ServerlessCacheSnapshot", "ServerlessCache"}
  Texts = {"a", "b"}
  UserIDs = {"default", "ann", "bob"}
  DefaultUser = "default"
  Subnets = {"s1", "s2"}
  Descriptions = {"d1", "d2"}
  Names = {"p", "q", "r"}
  Values = {"x", "y"}
  ParameterLists <- Lists
  BatchSize = 2
  Clusters = {"c1", "c2"}
  Snapshots = {"s"}
  Keys = {"k"}
  TagKeys = {"t"}
  TagValues = {"x"}
  SubnetSets = {"s1"}
  Descs = {"d"}
  Limits = {1, 9}
  Width = 8
  Editable = {"access", "type", "users", "description", "subnets", "params", "cluster", "source", "tags", "desc", "limit"}
  MaxEdits = 1
  FaultKinds = {"reject", "lost", "read", "crash", "busy", "createFailed"}
  MaxFaults = 1
CHECK_DEADLOCK FALSE
INVARIANT TypeOK
INVARIANT NeverAbandoned
INVARIANT SyncedTellsTheTruth
INVARIANT FailedIsTerminal
PROPERTY ImplementsLifecycle
PROPERTY DeletionCompletes
PROPERTY Converges
PROPERTY EditsSurvivePatch
PROPERTY KeptParametersStay
