SPECIFICATION FairSpec
CONSTANTS
  Objects = {"a", "b", "c"}
  Worlds <- Small
  MaxEdits = 1
  FaultKinds = {"reject", "crash"}
  MaxFaults = 1
CHECK_DEADLOCK FALSE
INVARIANT TypeOK
INVARIANT StoredIDsAreTheUsers
PROPERTY TargetsMadeFirst
PROPERTY WaitingEnds
