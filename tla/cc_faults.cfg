SPECIFICATION FairSpec
CONSTANTS
  None = None
  MaxNodes = 2
  AZs = {"east"}
  TagKeys = {"k"}
  TagValues = {"x"}
  InitSpecs <- Started
  Editable = {"num", "azs", "auto"}
  MaxEdits = 1
  FaultKinds = {"reject", "lost", "crash", "rollback", "reboot", "read"}
  MaxFaults = 2
CHECK_DEADLOCK FALSE
INVARIANT NeverAbandoned
PROPERTY ImplementsLifecycle
PROPERTY DeletionCompletes
PROPERTY Converges
