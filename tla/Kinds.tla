------------------------------- MODULE Kinds -------------------------------
(***************************************************************************)
(* One resource of any of the smaller kinds, under the common promises of  *)
(* the resource managers: what holds of every kind is stated once.         *)
(***************************************************************************)
EXTENDS Manager, Sequences

CONSTANTS
  KindsChecked,
  Texts,                              \* User
  UserIDs, DefaultUser,               \* UserGroup
  Subnets,                            \* CacheSubnetGroup
  Descriptions, Names, Values, ParameterLists, BatchSize,
  Clusters, Snapshots,                \* Snapshot
  Keys, TagKeys, TagValues,           \* ServerlessCacheSnapshot
  Descs, SubnetSets, Limits, Width    \* ServerlessCache

VARIABLE kind      \* the kind of the resource; it never changes

U   == INSTANCE User
UG  == INSTANCE UserGroup
CSG == INSTANCE CacheSubnetGroup
CPG == INSTANCE CacheParameterGroup
S   == INSTANCE Snapshot
SCS == INSTANCE ServerlessCacheSnapshot
SC  == INSTANCE ServerlessCache

(***************************************************************************)
(* A nil pointer is no access string; a parameter that is left empty has   *)
(* none of the values of the service, which knows finitely many names; a   *)
(* 64-bit limit narrowed to 32 bits is a 64-bit value again.               *)
(***************************************************************************)
ASSUME KindsAssumption ==
  /\ None \notin U!AccessStrings
  /\ IsFiniteSet(Names) /\ "" \notin Values /\ ParameterLists \subseteq Seq(CPG!Parameters)
  /\ Width \in Nat \ {0} /\ Width % 2 = 0
  /\ Limits \subseteq Int /\ \A n \in Limits : SC!int32(n) \in Limits

Init ==
  /\ kind \in KindsChecked
  /\ \/ kind = "User" /\ U!Init
     \/ kind = "UserGroup" /\ UG!Init
     \/ kind = "CacheSubnetGroup" /\ CSG!Init
     \/ kind = "CacheParameterGroup" /\ CPG!Init
     \/ kind = "Snapshot" /\ S!Init
     \/ kind = "ServerlessCacheSnapshot" /\ SCS!Init
     \/ kind = "ServerlessCache" /\ SC!Init

Next ==
  /\ \/ kind = "User" /\ U!Next
     \/ kind = "UserGroup" /\ UG!Next
     \/ kind = "CacheSubnetGroup" /\ CSG!Next
     \/ kind = "CacheParameterGroup" /\ CPG!Next
     \/ kind = "Snapshot" /\ S!Next
     \/ kind = "ServerlessCacheSnapshot" /\ SCS!Next
     \/ kind = "ServerlessCache" /\ SC!Next
  /\ UNCHANGED kind

Spec == Init /\ [][Next]_<<vars, kind>>

(* The controller takes up what is queued, and the service gets on with what *)
(* it has accepted.                                                          *)
Controller ==
  /\ \/ kind = "User" /\ U!Controller
     \/ kind = "UserGroup" /\ UG!Controller
     \/ kind = "CacheSubnetGroup" /\ CSG!Controller
     \/ kind = "CacheParameterGroup" /\ CPG!Controller
     \/ kind = "Snapshot" /\ S!Controller
     \/ kind = "ServerlessCacheSnapshot" /\ SCS!Controller
     \/ kind = "ServerlessCache" /\ SC!Controller
  /\ UNCHANGED kind

AwsProgress ==
  /\ \/ kind = "User" /\ U!AwsProgress
     \/ kind = "UserGroup" /\ UG!AwsProgress
     \/ kind = "Snapshot" /\ S!AwsProgress
     \/ kind = "ServerlessCacheSnapshot" /\ SCS!AwsProgress
     \/ kind = "ServerlessCache" /\ SC!AwsProgress
  /\ UNCHANGED kind

Fairness == WF_<<vars, kind>>(Controller) /\ WF_<<vars, kind>>(AwsProgress)

FairSpec == Spec /\ Fairness

-----------------------------------------------------------------------------
TypeOK ==
  /\ pc \in Running \cup {"idle", "lateInit", "patchSpec", "patchStatus"}
  /\ err \in Errors
  /\ queued \in BOOLEAN
  /\ edits \in 0..MaxEdits /\ faults \in 0..MaxFaults
  /\ CASE kind = "User" -> U!TypeOK
       [] kind = "UserGroup" -> UG!TypeOK
       [] kind = "CacheSubnetGroup" -> CSG!TypeOK
       [] kind = "CacheParameterGroup" -> CPG!TypeOK
       [] kind = "Snapshot" -> S!TypeOK
       [] kind = "ServerlessCacheSnapshot" -> SCS!TypeOK
       [] kind = "ServerlessCache" -> SC!TypeOK

(***************************************************************************)
(* A pass that ends without error and reports Synced=True tells the truth  *)
(* about the AWS resource, as far as the manager of the kind reads it: the *)
(* values a creation or a modification answers, and what is compared by    *)
(* way of the status, hide no difference (sdkFind, newResourceDelta).  For *)
(* users it rests on RequestedIsInForce, below, which two edits and a lost *)
(* modification refute.                                                    *)
(***************************************************************************)
SyncedTellsTheTruth ==
  CASE kind = "User" -> U!SyncedTellsTheTruth
    [] kind = "UserGroup" -> UG!SyncedTellsTheTruth
    [] kind = "CacheSubnetGroup" -> CSG!SyncedTellsTheTruth
    [] kind = "CacheParameterGroup" -> CPG!SyncedTellsTheTruth
    [] kind = "Snapshot" -> S!SyncedTellsTheTruth
    [] kind = "ServerlessCacheSnapshot" -> SCS!SyncedTellsTheTruth
    [] kind = "ServerlessCache" -> SC!SyncedTellsTheTruth

AsSpecified(spec) ==
  CASE kind = "User" -> U!AsSpecified(spec)
    [] kind = "UserGroup" -> UG!AsSpecified(spec)
    [] kind = "CacheSubnetGroup" -> CSG!AsSpecified(spec)
    [] kind = "CacheParameterGroup" -> CPG!AsSpecified(spec)
    [] kind = "Snapshot" -> S!AsSpecified(spec)
    [] kind = "ServerlessCacheSnapshot" -> SCS!AsSpecified(spec)
    [] kind = "ServerlessCache" -> SC!AsSpecified(spec)

(***************************************************************************)
(* Whatever was lost, refused or interrupted, a resource that is not       *)
(* deleted comes to what its spec asks for, or stays with a Terminal       *)
(* condition, or is one of those AsSpecified names as beyond the manager.  *)
(***************************************************************************)
Converges ==
  <>[](~cr.exists \/ cr.del \/ AsSpecified(cr.spec) \/ cr.cond.terminal = "True")

(***************************************************************************)
(* A deleted resource is eventually gone, and its AWS resource with it,    *)
(* unless the deletion was tried and the service refused it for good       *)
(* (sdkDelete, onError).  A failed snapshot is given up with any error: its*)
(* Terminal condition stands, and makes the error of a call that could     *)
(* succeed later, or did succeed, a terminal one (CustomUpdateConditions). *)
(***************************************************************************)
FailedSnapshotGivenUp ==
  /\ kind = "Snapshot" /\ cr.status = "failed"
  /\ pc = "idle" /\ ~queued

DeletionCompletes ==
  cr.del ~> \/ ~cr.exists /\ aws.status = "none"
            \/ DeletionRefused
            \/ FailedSnapshotGivenUp

(***************************************************************************)
(* What a call answers is patched into the spec and takes back no edit of  *)
(* the user made since the pass began, pending users included.  (The other *)
(* kinds take edits back on purpose.)                                      *)
(***************************************************************************)
EditsSurvivePatch ==
  [][PatchSpec /\ ~desired.del /\ kind \in {"UserGroup", "CacheSubnetGroup"}
     => cr'.spec = cr.spec]_vars

(***************************************************************************)
(* A failed snapshot is Terminal between any two passes: no read and no    *)
(* success clears the condition (Snapshot!FailedIsTerminal).               *)
(***************************************************************************)
FailedIsTerminal == kind = "Snapshot" => S!FailedIsTerminal

(***************************************************************************)
(* No call of an update of parameters disturbs one the service already has *)
(* as the spec wants it (CacheParameterGroup!KeepsParameters).             *)
(***************************************************************************)
KeptParametersStay == [][kind = "CacheParameterGroup" => CPG!KeepsParameters]_vars

(***************************************************************************)
(* What a user is compared by, the access string last requested, is what   *)
(* the service has (User!RequestedIsInForce, filterDelta).                 *)
(***************************************************************************)
RequestedIsInForce == kind = "User" => U!RequestedIsInForce
=============================================================================
