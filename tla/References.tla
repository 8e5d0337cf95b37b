---------------------------- MODULE References ----------------------------
(***************************************************************************)
(* References between custom resources (pkg/resource/*/references.go).  A  *)
(* field with an identifier may name another custom resource instead.  A   *)
(* pass begins with the resolution of all references, one field after the  *)
(* other: the resource that is referred to has to exist, not be Terminal   *)
(* and be Synced, and its identifier goes into the working copy.  What is  *)
(* stored has the references only.                                         *)
(*                                                                         *)
(* Every object is reconciled by a worker of its own.  What a pass does    *)
(* after the resolution is reduced to the creation of an AWS resource that *)
(* becomes available later.                                                *)
(***************************************************************************)
EXTENDS Naturals, Sequences, FiniteSets

CONSTANTS
  Objects,        \* custom resources
  Worlds,         \* functions from Objects to their kinds
  MaxEdits,       \* how often users edit or delete
  FaultKinds,     \* "reject", "crash"
  MaxFaults

-----------------------------------------------------------------------------
(* A field that may be a reference: the kind it refers to, where the       *)
(* identifier of that kind is found, if it is a list, if it must be given. *)
Reference(target, from, many, required) ==
  [target |-> target, from |-> from, many |-> many, required |-> required]

One(target, from) == Reference(target, from, FALSE, FALSE)
Many(target, from) == Reference(target, from, TRUE, FALSE)

CacheCluster_CacheParameterGroupName == One("CacheParameterGroup", "spec")
CacheCluster_CacheSubnetGroupName    == One("CacheSubnetGroup", "spec")
CacheCluster_NotificationTopicARN    == One("Topic", "status")
CacheCluster_ReplicationGroupID      == One("ReplicationGroup", "spec")
CacheCluster_SecurityGroupIDs        == Many("SecurityGroup", "status")
CacheCluster_SnapshotName            == One("Snapshot", "spec")

CacheSubnetGroup_SubnetIDs == Reference("Subnet", "status", TRUE, TRUE)

ReplicationGroup_CacheParameterGroupName == One("CacheParameterGroup", "spec")
ReplicationGroup_CacheSubnetGroupName    == One("CacheSubnetGroup", "spec")
ReplicationGroup_KMSKeyID                == One("Key", "status")
ReplicationGroup_NotificationTopicARN    == One("Topic", "status")
ReplicationGroup_SecurityGroupIDs        == Many("SecurityGroup", "status")
ReplicationGroup_SnapshotName            == One("Snapshot", "spec")
ReplicationGroup_UserGroupIDs            == Many("UserGroup", "spec")

ServerlessCache_KMSKeyID         == One("Key", "status")
ServerlessCache_SecurityGroupIDs == Many("SecurityGroup", "status")
ServerlessCache_SubnetIDs        == Many("Subnet", "status")
ServerlessCache_UserGroupID      == One("UserGroup", "spec")

ServerlessCacheSnapshot_KMSKeyID            == One("Key", "status")
ServerlessCacheSnapshot_ServerlessCacheName ==
  Reference("ServerlessCache", "spec", FALSE, TRUE)

Snapshot_CacheClusterID     == One("CacheCluster", "spec")
Snapshot_KMSKeyID           == One("Key", "status")
Snapshot_ReplicationGroupID == One("ReplicationGroup", "spec")
Snapshot_SourceSnapshotName == One("Snapshot", "spec")

UserGroup_UserIDs == Many("User", "spec")

(* The fields of a kind in the order ResolveReferences takes them. *)
CacheClusterFields ==
  <<CacheCluster_CacheParameterGroupName, CacheCluster_CacheSubnetGroupName,
    CacheCluster_NotificationTopicARN, CacheCluster_ReplicationGroupID,
    CacheCluster_SecurityGroupIDs, CacheCluster_SnapshotName>>
CacheSubnetGroupFields == <<CacheSubnetGroup_SubnetIDs>>
ReplicationGroupFields ==
  <<ReplicationGroup_CacheParameterGroupName, ReplicationGroup_CacheSubnetGroupName,
    ReplicationGroup_KMSKeyID, ReplicationGroup_NotificationTopicARN,
    ReplicationGroup_SecurityGroupIDs, ReplicationGroup_SnapshotName,
    ReplicationGroup_UserGroupIDs>>
ServerlessCacheFields ==
  <<ServerlessCache_KMSKeyID, ServerlessCache_SecurityGroupIDs,
    ServerlessCache_SubnetIDs, ServerlessCache_UserGroupID>>
ServerlessCacheSnapshotFields ==
  <<ServerlessCacheSnapshot_KMSKeyID, ServerlessCacheSnapshot_ServerlessCacheName>>
SnapshotFields ==
  <<Snapshot_CacheClusterID, Snapshot_KMSKeyID, Snapshot_ReplicationGroupID,
    Snapshot_SourceSnapshotName>>
UserGroupFields == <<UserGroup_UserIDs>>

FieldsOf(kind) ==
  CASE kind = "CacheCluster"            -> CacheClusterFields
    [] kind = "CacheSubnetGroup"        -> CacheSubnetGroupFields
    [] kind = "ReplicationGroup"        -> ReplicationGroupFields
    [] kind = "ServerlessCache"         -> ServerlessCacheFields
    [] kind = "ServerlessCacheSnapshot" -> ServerlessCacheSnapshotFields
    [] kind = "Snapshot"                -> SnapshotFields
    [] kind = "UserGroup"               -> UserGroupFields
    [] OTHER                            -> <<>>

-----------------------------------------------------------------------------
VARIABLES
  kind,           \* of each object; it never changes
  object,         \* each object in the Kubernetes API
  aws,            \* the AWS resource of each
  ever,           \* the objects that ever had an AWS resource
  pass,           \* the pass over each object
  queued,         \* the objects in the work queue
  edits, faults

vars == <<kind, object, aws, ever, pass, queued, edits, faults>>

(* An identifier: one the user gives, or that of an object. *)
IDs == Objects \cup {"own"}

Fields(o) == FieldsOf(kind[o])

(* What users make a field refer to: another object of its kind, all of    *)
(* them in the case of a list.                                             *)
RefsFor(o, f) ==
  LET targets == {t \in Objects \ {o} : kind[t] = f.target}
  IN  {{}} \cup (IF f.many THEN {targets} ELSE {{t} : t \in targets})

(* What a user writes into it: a reference, or an identifier, or both. *)
Written(o, f) == [refs : RefsFor(o, f), ids : {{}, {"own"}}]

(* The fields of o that can refer to an object here. *)
Referring(o) == {i \in DOMAIN Fields(o) : RefsFor(o, Fields(o)[i]) # {{}}}

(* A new o refers to as much as it can, or to nothing; one that has to be  *)
(* given is.                                                               *)
Plain(o) ==
  {[i \in DOMAIN Fields(o) |->
      LET f == Fields(o)[i]
          refs == IF full THEN UNION RefsFor(o, f) ELSE {}
      IN  [refs |-> refs, ids |-> IF f.required /\ refs = {} THEN {"own"} ELSE {}]] :
     full \in BOOLEAN}

New(spec) == [exists |-> TRUE, del |-> FALSE, spec |-> spec, synced |-> FALSE,
              terminal |-> FALSE]

NoPass == [at |-> "idle", from |-> <<>>, ko |-> <<>>, done |-> {}]

Init ==
  /\ kind \in Worlds
  /\ object \in {f \in [Objects -> {New(s) : s \in UNION {Plain(o) : o \in Objects}}] :
                   \A o \in Objects : f[o].spec \in Plain(o)}
  /\ aws = [o \in Objects |-> "none"]
  /\ ever = {}
  /\ pass = [o \in Objects |-> NoPass]
  /\ queued = Objects
  /\ edits = 0
  /\ faults = 0

Fault(f) == f \in FaultKinds /\ faults < MaxFaults /\ faults' = faults + 1

-----------------------------------------------------------------------------
(* Users. *)

UserEdit(o) ==
  /\ object[o].exists /\ ~object[o].del
  /\ edits < MaxEdits
  /\ \E i \in Referring(o) : \E v \in Written(o, Fields(o)[i]) :
       /\ v # object[o].spec[i]
       /\ object' = [object EXCEPT ![o].spec[i] = v]
  /\ edits' = edits + 1
  /\ queued' = queued \cup {o}
  /\ UNCHANGED <<kind, aws, ever, pass, faults>>

UserDelete(o) ==
  /\ object[o].exists /\ ~object[o].del
  /\ edits < MaxEdits
  /\ object' = [object EXCEPT ![o].del = TRUE]
  /\ edits' = edits + 1
  /\ queued' = queued \cup {o}
  /\ UNCHANGED <<kind, aws, ever, pass, faults>>

(* The service. *)
AwsSettles(o) ==
  /\ aws[o] = "busy"
  /\ aws' = [aws EXCEPT ![o] = "available"]
  /\ UNCHANGED <<kind, object, ever, pass, queued, edits, faults>>

-----------------------------------------------------------------------------
(* A pass over o. *)

Fetch(o) ==
  /\ pass[o].at = "idle" /\ o \in queued
  /\ object[o].exists /\ ~object[o].del
  /\ queued' = queued \ {o}
  /\ pass' = [pass EXCEPT ![o] = [at |-> "resolve", from |-> object[o].spec,
                                   ko |-> object[o].spec, done |-> {}]]
  /\ UNCHANGED <<kind, object, aws, ever, edits, faults>>

(* Of the resource as it was stored; the error waits for the resolution. *)
validateReferenceFields(o, spec) ==
  ~\E i \in DOMAIN spec :
     \/ spec[i].refs # {} /\ spec[i].ids # {}
     \/ Fields(o)[i].required /\ spec[i].refs = {} /\ spec[i].ids = {}

(* Mutant: a resource that is Synced will do. *)
getReferencedResourceStateSynced(o, f) ==
  /\ object[o].exists /\ object[o].synced
  /\ f.from = "status" => o \in ever

(* getReferencedResourceState: a Terminal resource is Synced as well. *)
getReferencedResourceState(o, f) ==
  /\ object[o].exists /\ ~object[o].terminal /\ object[o].synced
  /\ f.from = "status" => o \in ever

(* What is left to resolve: references by field. *)
Unresolved(o) ==
  (UNION {{<<i, t>> : t \in pass[o].ko[i].refs} : i \in DOMAIN pass[o].ko}) \ pass[o].done

(* ResolveReferences takes the fields in their order. *)
NextReferences(o) ==
  LET open == Unresolved(o)
  IN  {x \in open : \A y \in open : x[1] <= y[1]}

(* Mutant: the identifier is added to what a single field has. *)
AddedAlways(f, ids, t) == ids \cup {t}

(* What becomes of a field: a list grows, a single identifier is set. *)
Added(f, ids, t) == IF f.many THEN ids \cup {t} ELSE {t}

Resolve(o) ==
  /\ pass[o].at = "resolve"
  /\ \E x \in NextReferences(o) :
       LET f == Fields(o)[x[1]]
       IN  /\ getReferencedResourceState(x[2], f)
           /\ pass' = [pass EXCEPT ![o].ko[x[1]].ids = Added(f, @, x[2]),
                                   ![o].done = @ \cup {x}]
  /\ UNCHANGED <<kind, object, aws, ever, queued, edits, faults>>

(* Mutant: only a pass that went well comes back. *)
EndsQuietly(o, spec, synced) ==
  /\ object' = [object EXCEPT ![o].spec = spec, ![o].synced = synced, ![o].terminal = FALSE]
  /\ pass' = [pass EXCEPT ![o] = NoPass]
  /\ queued' = IF synced THEN queued \cup {o} ELSE queued
  /\ UNCHANGED <<kind, edits>>

(* The end of a pass.  Every end but a Terminal one brings it back. *)
Ends(o, spec, synced) ==
  /\ object' = [object EXCEPT ![o].spec = spec, ![o].synced = synced, ![o].terminal = FALSE]
  /\ pass' = [pass EXCEPT ![o] = NoPass]
  /\ queued' = queued \cup {o}
  /\ UNCHANGED <<kind, edits>>

(* A reference that is not ready, or a field that is not valid. *)
ResolveFails(o) ==
  /\ pass[o].at = "resolve"
  /\ \/ \E x \in NextReferences(o) : ~getReferencedResourceState(x[2], Fields(o)[x[1]])
     \/ Unresolved(o) = {} /\ ~validateReferenceFields(o, pass[o].from)
  /\ Ends(o, object[o].spec, FALSE)
  /\ UNCHANGED <<aws, ever, faults>>

Resolved(o) == /\ pass[o].at = "resolve" /\ Unresolved(o) = {}
               /\ validateReferenceFields(o, pass[o].from)

Create(o) ==
  /\ Resolved(o) /\ aws[o] = "none"
  /\ aws' = [aws EXCEPT ![o] = "busy"]
  /\ ever' = ever \cup {o}
  /\ pass' = [pass EXCEPT ![o].at = "patch"]
  /\ UNCHANGED <<kind, object, queued, edits, faults>>

(* A creation refused for good: Terminal, and what the runtime makes of a *)
(* terminal error is Synced=True.                                         *)
CreateRefused(o) ==
  /\ Resolved(o) /\ aws[o] = "none"
  /\ Fault("reject")
  /\ object' = [object EXCEPT ![o].synced = TRUE, ![o].terminal = TRUE]
  /\ pass' = [pass EXCEPT ![o] = NoPass]
  /\ UNCHANGED <<kind, aws, ever, queued, edits>>

ReadOne(o) ==
  /\ Resolved(o) /\ aws[o] # "none"
  /\ pass' = [pass EXCEPT ![o].at = "patch"]
  /\ UNCHANGED <<kind, object, aws, ever, queued, edits, faults>>

(* Mutant: the identifiers of a list stay. *)
ClearResolvedReferencesButLists(o, spec) ==
  [i \in DOMAIN spec |-> IF spec[i].refs # {} /\ ~Fields(o)[i].many
                         THEN [spec[i] EXCEPT !.ids = {}] ELSE spec[i]]

ClearResolvedReferences(o, spec) ==
  [i \in DOMAIN spec |-> IF spec[i].refs # {} THEN [spec[i] EXCEPT !.ids = {}] ELSE spec[i]]

(* The fields that differ from what the pass began with are stored. *)
Patch(o) ==
  /\ pass[o].at = "patch"
  /\ LET from == pass[o].from
         to == ClearResolvedReferences(o, pass[o].ko)
     IN  Ends(o, [i \in DOMAIN from |-> IF from[i] # to[i] THEN to[i] ELSE object[o].spec[i]],
              aws[o] = "available")
  /\ UNCHANGED <<aws, ever, faults>>

(* The resolution is tried for a deletion, but its errors are ignored. *)
Release(o) ==
  /\ pass[o].at = "idle" /\ o \in queued
  /\ object[o].exists /\ object[o].del
  /\ aws' = [aws EXCEPT ![o] = "none"]
  /\ object' = [object EXCEPT ![o].exists = FALSE, ![o].synced = FALSE, ![o].terminal = FALSE]
  /\ queued' = queued \ {o}
  /\ UNCHANGED <<kind, ever, pass, edits, faults>>

Crash(o) ==
  /\ pass[o].at # "idle"
  /\ Fault("crash")
  /\ pass' = [pass EXCEPT ![o] = NoPass]
  /\ queued' = queued \cup {o}
  /\ UNCHANGED <<kind, object, aws, ever, edits>>

-----------------------------------------------------------------------------
Reconcile(o) ==
  \/ Fetch(o) \/ Resolve(o) \/ ResolveFails(o) \/ Create(o) \/ CreateRefused(o)
  \/ ReadOne(o) \/ Patch(o) \/ Release(o)

Next ==
  \E o \in Objects :
    \/ UserEdit(o) \/ UserDelete(o) \/ AwsSettles(o)
    \/ Reconcile(o) \/ Crash(o)

Spec == Init /\ [][Next]_vars

(* Every kind has workers of its own, and the service finishes what it began. *)
Fairness ==
  /\ \A o \in Objects : WF_vars(Reconcile(o))
  /\ WF_vars(\E o \in Objects : AwsSettles(o))

FairSpec == Spec /\ Fairness

-----------------------------------------------------------------------------
(* What a spec of o may hold: of a single field at most one identifier. *)
SpecsOf(o) ==
  {s \in [DOMAIN Fields(o) -> [refs : SUBSET Objects, ids : SUBSET IDs]] :
     \A i \in DOMAIN Fields(o) : ~Fields(o)[i].many => \E x \in IDs : s[i].ids \subseteq {x}}

CRs(o) == [exists : BOOLEAN, del : BOOLEAN, spec : SpecsOf(o), synced : BOOLEAN,
           terminal : BOOLEAN]

Passes(o) == [at : {"resolve", "patch"}, from : SpecsOf(o), ko : SpecsOf(o),
              done : SUBSET ((DOMAIN Fields(o)) \X Objects)]

TypeOK ==
  /\ object = [o \in Objects |-> object[o]] /\ \A o \in Objects : object[o] \in CRs(o)
  /\ pass = [o \in Objects |-> pass[o]]
  /\ \A o \in Objects : pass[o] = NoPass \/ pass[o] \in Passes(o)
  /\ aws \in [Objects -> {"none", "busy", "available"}]
  /\ ever \subseteq Objects /\ queued \subseteq Objects

(***************************************************************************)
(* No identifier that was resolved is ever stored: with the reference it   *)
(* stands for it would be refused by every later pass                      *)
(* (ClearResolvedReferences, validateReferenceFields).                     *)
(***************************************************************************)
StoredIDsAreTheUsers ==
  \A o \in Objects : \A i \in DOMAIN object[o].spec : object[o].spec[i].ids \subseteq {"own"}

(***************************************************************************)
(* An AWS resource is created only when every resource it refers to has    *)
(* been: in whatever order objects come, in a cycle never, and never on the*)
(* word of a Terminal resource, which is Synced as well                    *)
(* (getReferencedResourceState).                                           *)
(***************************************************************************)
TargetsMadeFirst ==
  [][\A o \in Objects : o \in ever' \ ever =>
       \A i \in DOMAIN pass[o].from : pass[o].from[i].refs \subseteq ever]_vars

(* The resources whose references can be worked off: those without any,    *)
(* and then those that refer to such; not what waits for itself.           *)
Grounded ==
  LET Fine == {o \in Objects : /\ object[o].exists /\ ~object[o].del /\ ~object[o].terminal
                               /\ validateReferenceFields(o, object[o].spec)}
      within[n \in 0..Cardinality(Objects)] ==
        IF n = 0 THEN {}
        ELSE {o \in Fine : \A i \in DOMAIN object[o].spec : object[o].spec[i].refs \subseteq within[n - 1]}
  IN  within[Cardinality(Objects)]

(***************************************************************************)
(* The error of a resolution is never the last word: once users and the    *)
(* service are done, every resource whose chains of references end is      *)
(* Synced with its AWS resource available, and stays so, whatever order    *)
(* the objects came in (resolveReferenceFor..., the requeue of an error).  *)
(***************************************************************************)
WaitingEnds ==
  <>[](\A o \in Grounded : object[o].synced /\ aws[o] = "available")
=============================================================================
