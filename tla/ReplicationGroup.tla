-------------------------- MODULE ReplicationGroup --------------------------
(***************************************************************************)
(* The ReplicationGroup controller (pkg/resource/replication_group): one   *)
(* custom resource, the resource manager that reconciles it, and the AWS   *)
(* replication group behind it.                                            *)
(*                                                                         *)
(* A reconciliation is a sequence of steps, one per call that leaves the   *)
(* process: the user, the service and a crash may act between any two.     *)
(* Actions of the user, of the service and of the ACK runtime are external *)
(* to the repository; those of the resource manager translate its source.  *)
(*                                                                         *)
(* Spec.NodeGroupConfiguration and Spec.SecurityGroupIDs are nil here;     *)
(* "desc" stands for every field that ModifyReplicationGroup applies at    *)
(* once and returns (Description, SnapshotRetentionLimit, SnapshotWindow), *)
(* "af" for AutomaticFailoverEnabled and MultiAZEnabled, which are treated *)
(* alike.                                                                  *)
(***************************************************************************)
EXTENDS Conditions, EngineVersion, FiniteSets

CONSTANTS
  NodeTypes,        \* cache node types, larger is a scale up
  ShardCounts,      \* values of Spec.NumNodeGroups
  ReplicaCounts,    \* values of Spec.ReplicasPerNodeGroup
  Descs,            \* values of a field that is modified at once
  UserGroups,       \* values of Spec.UserGroupIDs
  TagKeys, TagValues,
  None,             \* a nil pointer, or an annotation that is absent or "null"
  InitSpecs,        \* the specs a user may create the resource with
  Editable,         \* the spec fields the user edits
  Unsettable,       \* the optional fields the user may remove
  MaxEdits,         \* how often the user edits
  FaultKinds,       \* the failures the environment may inject
  MaxFaults         \* how many of them

T == INSTANCE Tags

Specs == [cnt : NodeTypes, shards : ShardCounts \cup {None},
          replicas : ReplicaCounts \cup {None}, desc : Descs,
          ev : Versions \cup {None}, af : BOOLEAN, ugs : UserGroups, tags : T!TagMaps]

(* What the service holds: every field has a value. *)
Configs == [cnt : NodeTypes, shards : ShardCounts, replicas : ReplicaCounts,
            desc : Descs, ev : Releases, af : BOOLEAN, ugs : UserGroups,
            tags : T!TagMaps]

(* AnnotationLastRequestedCNT and AnnotationLastRequestedNNG. *)
Annotations == [cnt : NodeTypes \cup {None}, nng : ShardCounts \cup {None}]

RGStatus == {"creating", "available", "modifying", "snapshotting", "deleting",
             "create-failed"}

ASSUME RGAssumption ==
  /\ NodeTypes \subseteq Int
  /\ ShardCounts \subseteq Int
  /\ ReplicaCounts \subseteq Int
  /\ None \notin NodeTypes /\ None \notin ShardCounts
  /\ None \notin ReplicaCounts /\ None \notin Versions /\ None \notin UserGroups
  /\ InitSpecs \subseteq Specs
  /\ MaxEdits \in Nat
  /\ MaxFaults \in Nat

VARIABLES
  cr,         \* the custom resource in the Kubernetes API
  rg,         \* the replication group in AWS, status "none" when there is none
  pc,         \* the step the reconciliation is at
  desired,    \* the copy of the custom resource the reconciliation works on
  latest,     \* the resource the manager last returned
  err,        \* the error it returned with it
  queued,     \* the resource is in the work queue
  requested,  \* history: node types and shard counts ever sent to AWS
  rolledBack, \* history: node types AWS gave up applying
  edits, faults

crVars == <<cr, queued>>
ctlVars == <<pc, desired, latest, err>>
histVars == <<requested, rolledBack>>
vars == <<cr, rg, pc, desired, latest, err, queued, requested, rolledBack,
          edits, faults>>

Fault(kind) == /\ kind \in FaultKinds
               /\ faults < MaxFaults
               /\ faults' = faults + 1

(* A configuration the service may make of a spec. *)
Fits(c, s) ==
  /\ \A f \in DOMAIN s \ {"ev"} : s[f] # None => c[f] = s[f]
  /\ s.ev # None => c.ev \in Installs(s.ev)

Init ==
  \E s \in InitSpecs, c \in Configs :
    /\ cr = [exists |-> TRUE, del |-> FALSE, fin |-> FALSE, spec |-> s,
             ann |-> [cnt |-> None, nng |-> None], status |-> "none",
             up |-> {}, groups |-> 0, cond |-> NoConds]
    /\ rg = [status |-> "none", cfg |-> c, target |-> c, settled |-> TRUE]
    /\ Fits(c, s)
    /\ pc = "idle"
    /\ desired = cr
    /\ latest = [spec |-> s, ann |-> cr.ann, status |-> "none", up |-> {},
                 groups |-> 0, cond |-> NoConds, settled |-> TRUE, af |-> s.af]
    /\ err = "none"
    /\ queued = TRUE
    /\ requested = [cnt |-> {}, nng |-> {}]
    /\ rolledBack = {}
    /\ edits = 0
    /\ faults = 0

-----------------------------------------------------------------------------
(* The user.  A change of the spec or a deletion queues the resource.      *)

UserEdit ==
  /\ cr.exists /\ ~cr.del
  /\ edits < MaxEdits
  /\ \E s \in Specs :
       /\ s # cr.spec
       /\ \A f \in DOMAIN s :
            \/ s[f] = cr.spec[f]
            \/ f \in Editable /\ (s[f] # None \/ f \in Unsettable)
       /\ cr' = [cr EXCEPT !.spec = s]
  /\ edits' = edits + 1
  /\ queued' = TRUE
  /\ UNCHANGED <<rg, ctlVars, histVars, faults>>

(* Without a finalizer the object goes at once. *)
UserDelete ==
  /\ cr.exists /\ ~cr.del
  /\ cr' = [cr EXCEPT !.del = TRUE, !.exists = cr.fin]
  /\ queued' = TRUE
  /\ UNCHANGED <<rg, ctlVars, histVars, edits, faults>>

-----------------------------------------------------------------------------
(* The service.  What a call starts ends later, or is given up.            *)

AwsCreated ==
  /\ rg.status = "creating"
  /\ rg' = [rg EXCEPT !.status = "available"]
  /\ UNCHANGED <<crVars, ctlVars, histVars, edits, faults>>

AwsCreateFailed ==
  /\ rg.status = "creating"
  /\ Fault("createFailed")
  /\ rg' = [rg EXCEPT !.status = "create-failed"]
  /\ UNCHANGED <<crVars, ctlVars, histVars, edits>>

AwsApplied ==
  /\ rg.status = "modifying"
  /\ rg' = [rg EXCEPT !.status = "available", !.cfg = rg.target]
  /\ UNCHANGED <<crVars, ctlVars, histVars, edits, faults>>

(* "available" again while a node group or a member cluster still is not. *)
AwsAppliedUnsettled ==
  /\ rg.status = "modifying"
  /\ Fault("unsettled")
  /\ rg' = [rg EXCEPT !.status = "available", !.cfg = rg.target, !.settled = FALSE]
  /\ UNCHANGED <<crVars, ctlVars, histVars, edits>>

AwsSettled ==
  /\ ~rg.settled
  /\ rg' = [rg EXCEPT !.settled = TRUE]
  /\ UNCHANGED <<crVars, ctlVars, histVars, edits, faults>>

(* The asynchronous rollback of a scaling or of a resharding. *)
AwsRolledBack ==
  /\ rg.status = "modifying"
  /\ rg.target # rg.cfg
  /\ Fault("rollback")
  /\ rg' = [rg EXCEPT !.status = "available", !.target = rg.cfg]
  /\ rolledBack' = IF rg.target.cnt # rg.cfg.cnt
                   THEN rolledBack \cup {rg.target.cnt} ELSE rolledBack
  /\ UNCHANGED <<crVars, ctlVars, requested, edits>>

AwsSnapshotStarts ==
  /\ rg.status = "available"
  /\ Fault("snapshot")
  /\ rg' = [rg EXCEPT !.status = "snapshotting"]
  /\ UNCHANGED <<crVars, ctlVars, histVars, edits>>

AwsSnapshotEnds ==
  /\ rg.status = "snapshotting"
  /\ rg' = [rg EXCEPT !.status = "available"]
  /\ UNCHANGED <<crVars, ctlVars, histVars, edits, faults>>

AwsDeleted ==
  /\ rg.status = "deleting"
  /\ rg' = [rg EXCEPT !.status = "none"]
  /\ UNCHANGED <<crVars, ctlVars, histVars, edits, faults>>

-----------------------------------------------------------------------------
(* Reading (sdkFind).                                                      *)

isDeleting(r) == r.status = "deleting"
isModifying(r) == r.status = "modifying"
isCreating(r) == r.status = "creating"
isCreateFailed(r) == r.status = "create-failed"

(* The Synced condition customSetOutput derives from a response. *)
syncedFromStatus(g) ==
  IF \/ g.status = "available" /\ g.settled
     \/ g.status = "create-failed"
  THEN "True" ELSE "False"

(* Status.AllowedScaleUpModifications after customSetOutput. *)
allowedScaleUp(g) ==
  IF g.status \in {"available", "snapshotting"}
  THEN {t \in NodeTypes : t > g.cfg.cnt} ELSE {}

(* The length of Status.NodeGroups: a response may come without any. *)
hasGroups(g) == g.status \notin {"creating", "deleting"}

groupsOf(g) == IF hasGroups(g) THEN g.cfg.shards ELSE 0

(***************************************************************************)
(* sdkFind returns a copy of r with what the service reports, but judges   *)
(* by the status r CAME WITH, the one stored by the pass before, whether   *)
(* the group is in flight; if so it returns before the tags are read.      *)
(***************************************************************************)
ReturnsEarly(r) ==
  isDeleting(r) \/ isModifying(r) \/ isCreating(r) \/ isCreateFailed(r)

foundConds(r) ==
  LET set == [r.cond EXCEPT !.synced = syncedFromStatus(rg)]
  IN  IF isDeleting(r) \/ isModifying(r) \/ isCreating(r)
      THEN [set EXCEPT !.synced = "False"]
      ELSE IF isCreateFailed(r) THEN [set EXCEPT !.terminal = "True"]
      ELSE set

(* Mutant: setReplicasPerNodeGroup is not called. *)
updateSpecFieldsNoReplicas(spec, ccFound) ==
  [spec EXCEPT !.shards = IF spec.shards # None /\ hasGroups(rg)
                          THEN rg.cfg.shards ELSE @,
               !.ev = IF spec.ev # None /\ ccFound THEN rg.cfg.ev ELSE @]

(***************************************************************************)
(* updateSpecFields overwrites a field only if the user gave it and the    *)
(* service has node groups to tell it from, the engine version only if     *)
(* describeCacheCluster succeeded (ccFound): its error is dropped.         *)
(***************************************************************************)
updateSpecFields(spec, ccFound) ==
  LET seen(given, actual) == IF given # None /\ hasGroups(rg) THEN actual ELSE given
  IN  [spec EXCEPT !.shards = seen(@, rg.cfg.shards),
                   !.replicas = seen(@, rg.cfg.replicas),
                   !.ev = IF ccFound THEN seen(@, rg.cfg.ev) ELSE @]

sdkFind(r, ccFound) ==
  [spec    |-> [updateSpecFields(r.spec, ccFound) EXCEPT
                  !.cnt = rg.cfg.cnt, !.desc = rg.cfg.desc, !.ugs = rg.cfg.ugs,
                  !.tags = IF ReturnsEarly(r) THEN @ ELSE rg.cfg.tags],
   ann     |-> r.ann,
   status  |-> rg.status,
   up      |-> allowedScaleUp(rg),
   groups  |-> groupsOf(rg),
   cond    |-> onSuccess(foundConds(r)),
   settled |-> rg.settled,
   af      |-> rg.cfg.af]

(* The copy of the resource a failing operation returns through onError. *)
asLatest(r) ==
  [spec |-> r.spec, ann |-> r.ann, status |-> r.status, up |-> r.up,
   groups |-> r.groups, cond |-> r.cond, settled |-> TRUE, af |-> r.spec.af]

FailWith(r, e) ==
  /\ latest' = [r EXCEPT !.cond = onErrorConds(@, e)]
  /\ err' = onErrorResult(r.cond, e)
  /\ pc' = "patchStatus"
  /\ UNCHANGED desired

(* modifyDelta removes the difference of versions that match. *)
versionsDiffer(d, l) ==
  /\ d.spec.ev # l.spec.ev
  /\ d.spec.ev # None /\ l.spec.ev # None => ~EngineVersionsMatch(d.spec.ev, l.spec.ev)

(* Mutant: the shards are not compared. *)
newResourceDeltaNoShards(d, l) ==
  {f \in {"cnt", "replicas", "desc", "ugs", "tags"} : d.spec[f] # l.spec[f]}
  \cup (IF versionsDiffer(d, l) THEN {"ev"} ELSE {})
  \cup (IF d.spec.af # l.af THEN {"af"} ELSE {})

(* newResourceDelta and modifyDelta: the fields that differ. *)
newResourceDelta(d, l) ==
  {f \in {"cnt", "shards", "replicas", "desc", "ugs", "tags"} : d.spec[f] # l.spec[f]}
  \cup (IF versionsDiffer(d, l) THEN {"ev"} ELSE {})
  \cup (IF d.spec.af # l.af THEN {"af"} ELSE {})

-----------------------------------------------------------------------------
(* One pass: Fetch, then either the deletion or Sync.                      *)

(* The conditions are reset at the start of Sync, not of a deletion. *)
Fetch ==
  /\ pc = "idle" /\ queued /\ cr.exists
  /\ queued' = FALSE
  /\ err' = "none"
  /\ desired' = [cr EXCEPT !.cond = IF cr.del THEN @ ELSE NoConds]
  /\ pc' = IF ~cr.del THEN "read" ELSE "readDelete"
  /\ UNCHANGED <<cr, rg, latest, histVars, edits, faults>>

FetchGone ==
  /\ pc = "idle" /\ queued /\ ~cr.exists
  /\ queued' = FALSE
  /\ UNCHANGED <<cr, rg, ctlVars, histVars, edits, faults>>

ReadOne ==
  /\ pc = "read" /\ rg.status # "none"
  /\ \E ccFound \in BOOLEAN :
       /\ IF ccFound THEN UNCHANGED faults ELSE Fault("describeCacheCluster")
       /\ latest' = sdkFind(desired, ccFound)
  /\ pc' = IF newResourceDelta(desired, latest') # {} THEN "update" ELSE "lateInit"
  /\ UNCHANGED <<crVars, rg, desired, err, histVars, edits>>

ReadOneNotFound ==
  /\ pc = "read" /\ rg.status = "none"
  /\ pc' = "manage"
  /\ UNCHANGED <<crVars, rg, desired, latest, err, histVars, edits, faults>>

ReadOneFails ==
  /\ pc = "read"
  /\ Fault("read")
  /\ FailWith(asLatest(desired), "awsOther")
  /\ UNCHANGED <<crVars, rg, histVars, edits>>

-----------------------------------------------------------------------------
(* Creation.                                                               *)

(* Mutant: the group is created without the finalizer. *)
ManageNoFinalizer ==
  /\ pc = "manage"
  /\ pc' = "create"
  /\ UNCHANGED <<crVars, desired, rg, latest, err, histVars, edits, faults>>

(* setResourceManaged: the finalizer is on before the group is created. *)
Manage ==
  /\ pc = "manage"
  /\ IF cr.exists
     THEN /\ cr' = [cr EXCEPT !.fin = TRUE]
          /\ desired' = [desired EXCEPT !.fin = TRUE]
          /\ pc' = "create"
          /\ UNCHANGED queued
     ELSE /\ pc' = "idle"
          /\ queued' = TRUE
          /\ UNCHANGED <<cr, desired>>
  /\ UNCHANGED <<rg, latest, err, histVars, edits, faults>>

(* Mutant: customSetOutput is not called. *)
setReplicationGroupOutputKeepsSynced(d, g) ==
  [spec |-> [d.spec EXCEPT !.cnt = g.cfg.cnt, !.desc = g.cfg.desc, !.ugs = g.cfg.ugs],
   ann |-> d.ann, status |-> g.status, up |-> d.up, groups |-> groupsOf(g),
   cond |-> d.cond, settled |-> g.settled, af |-> g.cfg.af]

(* Mutant: a field the response lacks is cleared in the spec. *)
setReplicationGroupOutputClears(d, g) ==
  [spec |-> [d.spec EXCEPT !.cnt = None, !.desc = g.cfg.desc], ann |-> d.ann,
   status |-> g.status, up |-> allowedScaleUp(g), groups |-> groupsOf(g),
   cond |-> [d.cond EXCEPT !.synced = syncedFromStatus(g)],
   settled |-> g.settled, af |-> g.cfg.af]

(* Mutant: the response's replica count is merged as well. *)
setReplicationGroupOutputReplicas(d, g) ==
  [spec |-> [d.spec EXCEPT !.cnt = g.cfg.cnt, !.desc = g.cfg.desc, !.ugs = g.cfg.ugs,
                           !.replicas = g.cfg.replicas],
   ann |-> d.ann, status |-> g.status, up |-> allowedScaleUp(g), groups |-> groupsOf(g),
   cond |-> [d.cond EXCEPT !.synced = syncedFromStatus(g)],
   settled |-> g.settled, af |-> g.cfg.af]

(***************************************************************************)
(* What setReplicationGroupOutput makes of a response: the desired resource*)
(* with every field the response carries, the spec's included, and then    *)
(* what customSetOutput derives from the response: Synced, and the node    *)
(* types the group may be scaled up to.                                    *)
(***************************************************************************)
setReplicationGroupOutput(d, g) ==
  [spec    |-> [d.spec EXCEPT !.cnt = g.cfg.cnt, !.desc = g.cfg.desc, !.ugs = g.cfg.ugs],
   ann     |-> d.ann,
   status  |-> g.status,
   up      |-> allowedScaleUp(g),
   groups  |-> groupsOf(g),
   cond    |-> [d.cond EXCEPT !.synced = syncedFromStatus(g)],
   settled |-> g.settled,
   af      |-> g.cfg.af]

(* Mutant: the annotation is taken from the object as it is by now. *)
createOutputRereads(d, g) ==
  [setReplicationGroupOutput(d, g) EXCEPT
     !.ann = [cnt |-> cr.spec.cnt, nng |-> d.spec.shards],
     !.cond = onSuccess(@)]

(* The annotations of the first request (CustomCreateReplicationGroupSetOutput); *)
(* the manager hands the result on through onSuccess.                            *)
createOutput(d, g) ==
  [setReplicationGroupOutput(d, g) EXCEPT
     !.ann = [cnt |-> d.spec.cnt, nng |-> d.spec.shards],
     !.cond = onSuccess(@)]

(* External: what CreateReplicationGroup starts. *)
Creating(s) ==
  {[status |-> "creating", cfg |-> c, target |-> c, settled |-> TRUE] :
     c \in {x \in Configs : Fits(x, s)}}

RequestCreate ==
  requested' = [cnt |-> requested.cnt \cup {desired.spec.cnt},
                nng |-> requested.nng \cup ({desired.spec.shards} \ {None})]

Create ==
  /\ pc = "create" /\ rg.status = "none"
  /\ rg' \in Creating(desired.spec)
  /\ RequestCreate
  /\ \/ /\ latest' = createOutput(desired, rg')
        /\ pc' = "readBack"
        /\ UNCHANGED <<desired, err, faults>>
     \/ /\ Fault("lost")
        /\ FailWith(asLatest(desired), "awsOther")
  /\ UNCHANGED <<crVars, rolledBack, edits>>

CreateFails ==
  /\ pc = "create"
  /\ Fault("reject")
  /\ RequestCreate
  /\ \E e \in {"awsOther", "awsTerminal"} : FailWith(asLatest(desired), e)
  /\ UNCHANGED <<crVars, rg, rolledBack, edits>>

(* The runtime reads the new group back and keeps its status only. *)
ReadBack ==
  /\ pc = "readBack" /\ rg.status # "none"
  /\ LET r == sdkFind(latest, TRUE)
     IN  latest' = [latest EXCEPT !.status = r.status, !.up = r.up,
                                  !.groups = r.groups, !.cond = r.cond,
                                  !.settled = r.settled, !.af = r.af]
  /\ pc' = "patchSpec"
  /\ UNCHANGED <<crVars, rg, desired, err, histVars, edits, faults>>

(* The runtime keeps the created resource, but patches only its status: the *)
(* annotations createOutput set are lost.                                   *)
ReadBackFails ==
  /\ pc = "readBack"
  /\ Fault("read")
  /\ err' = "awsOther"
  /\ pc' = "patchStatus"
  /\ UNCHANGED <<crVars, rg, desired, latest, histVars, edits>>

-----------------------------------------------------------------------------
(* Update (sdkUpdate and CustomModifyReplicationGroup).                    *)

delta == newResourceDelta(desired, latest)

(* Mutant: any annotation counts as a request that failed. *)
cacheNodeTypeRequiresUpdateAny(d) == d.ann.cnt = None

(* The annotation says this node type is the last one requested. *)
cacheNodeTypeRequiresUpdate(d) == d.ann.cnt = None \/ d.ann.cnt # d.spec.cnt

(* Spec.NumNodeGroups is dereferenced without a test for nil. *)
nodeGroupDereferencesNil(d) == d.ann.nng # None /\ d.spec.shards = None

nodeGroupRequiresUpdate(d) == d.ann.nng = None \/ d.ann.nng # d.spec.shards

shardConfigurationsDiffer(d, l) ==
  d.spec.shards # None /\ d.spec.shards # l.spec.shards

(***************************************************************************)
(* The groups to retain are the first ones of the status THAT WAS STORED,  *)
(* which may be shorter than what the service reports by now: the index is *)
(* then out of range (newUpdateShardConfigurationRequestPayload).          *)
(***************************************************************************)
retainsUnknownGroups(d, l) == d.spec.shards < l.groups /\ d.groups < d.spec.shards

(* Mutant: replicas are never taken away. *)
replicaCountDifferenceIncreases(d, l) ==
  IF d.spec.replicas # None /\ d.spec.replicas > l.spec.replicas
  THEN d.spec.replicas - l.spec.replicas ELSE 0

replicaCountDifference(d, l) ==
  IF d.spec.replicas = None THEN 0 ELSE d.spec.replicas - l.spec.replicas

(* Turning failover off is left to the modify calls, before the replicas. *)
failoverTurnedOff(d, l) == ~d.spec.af /\ l.af

scalesUp(d) == "cnt" \in delta /\ d.spec.cnt \in d.up

(* modifyReplicationGroup calls ModifyReplicationGroup for the version *)
(* alone; otherwise the generated sdkUpdate goes on.                   *)
modifyReplicationGroup(d) ==
  IF d.spec.ev # None /\ "ev" \in delta THEN "version" ELSE "generic"

(***************************************************************************)
(* What one call of sdkUpdate does: it is the first of these that applies. *)
(***************************************************************************)
CustomModifyReplicationGroup(d, l) ==
  IF l.status # "available" \/ ~l.settled THEN "wait"
  ELSE IF ~cacheNodeTypeRequiresUpdate(d) /\ "cnt" \in delta THEN "refuseNodeType"
  ELSE IF nodeGroupDereferencesNil(d) THEN "panic"
  ELSE IF ~nodeGroupRequiresUpdate(d) /\ shardConfigurationsDiffer(d, l)
       THEN "refuseShards"
  ELSE IF failoverTurnedOff(d, l) THEN modifyReplicationGroup(d)
  ELSE IF replicaCountDifference(d, l) > 0 THEN "increase"
  ELSE IF replicaCountDifference(d, l) < 0 THEN "decrease"
  ELSE IF scalesUp(d) THEN "generic"
  ELSE IF shardConfigurationsDiffer(d, l)
       THEN IF retainsUnknownGroups(d, l) THEN "panic" ELSE "shards"
  ELSE modifyReplicationGroup(d)

updateStep(d, l) ==
  IF "tags" \in delta THEN "tags" ELSE CustomModifyReplicationGroup(d, l)

Updating(step) == pc = "update" /\ updateStep(desired, latest) = step

(* External: the service takes a modification while "available" only, and *)
(* is "modifying" until it has applied what it does not apply at once.    *)
Modified(atOnce, target) ==
  [rg EXCEPT !.cfg = atOnce, !.target = target,
             !.status = IF target # atOnce THEN "modifying" ELSE "available"]

(***************************************************************************)
(* A call that modifies the group to g: it is refused in the wrong state;  *)
(* or it is done, and its answer out(g) comes back or is lost; or it fails.*)
(***************************************************************************)
ModifyCall(g, out(_)) ==
  \/ /\ rg.status # "available"
     /\ FailWith(latest, "awsOther")
     /\ UNCHANGED <<rg, faults>>
  \/ /\ rg.status = "available"
     /\ rg' = g
     /\ \/ /\ latest' = out(g)
           /\ pc' = "patchSpec"
           /\ UNCHANGED <<desired, err, faults>>
        \/ /\ Fault("lost")
           /\ FailWith(latest, "awsOther")
  \/ /\ Fault("reject")
     /\ \E e \in {"awsOther", "awsTerminal"} : FailWith(latest, e)
     /\ UNCHANGED rg

(* SyncTags ends in a requeue error whether or not it called the service; *)
(* the service is "modifying" for a while after the call.                 *)
SyncTags ==
  /\ Updating("tags")
  /\ \/ /\ rg.status = "available"
        /\ LET tags == T!SyncTags(desired.spec.tags, latest.spec.tags, rg.cfg.tags)
           IN  rg' = [rg EXCEPT !.status = "modifying",
                                !.cfg.tags = tags, !.target.tags = tags]
        /\ FailWith(latest, "requeue")
        /\ UNCHANGED faults
     \/ /\ rg.status # "available"
        /\ FailWith(latest, "awsOther")
        /\ UNCHANGED <<rg, faults>>
     \/ /\ Fault("reject")
        /\ \E e \in {"awsOther", "awsTerminal"} : FailWith(latest, e)
        /\ UNCHANGED rg
  /\ UNCHANGED <<crVars, histVars, edits>>

WaitAvailable ==
  /\ Updating("wait")
  /\ FailWith(latest, "requeue")
  /\ UNCHANGED <<crVars, rg, histVars, edits, faults>>

(* The asynchronous rollback cases. *)
RefuseNodeType ==
  /\ Updating("refuseNodeType")
  /\ FailWith(latest, "v1Combination")
  /\ UNCHANGED <<crVars, rg, histVars, edits, faults>>

RefuseShards ==
  /\ Updating("refuseShards")
  /\ FailWith(latest, "v1Combination")
  /\ UNCHANGED <<crVars, rg, histVars, edits, faults>>

(* Mutant: the resource is not put back on the queue. *)
PanicDropsResource ==
  /\ Updating("panic")
  /\ pc' = "idle"
  /\ UNCHANGED <<crVars, rg, desired, latest, err, histVars, edits, faults>>

(* The reconciliation ends in a nil dereference or an index out of range; *)
(* the resource is retried.                                               *)
Panic ==
  /\ Updating("panic")
  /\ pc' = "idle"
  /\ queued' = TRUE
  /\ UNCHANGED <<cr, rg, desired, latest, err, histVars, edits, faults>>

(* The answer of an update call, as the manager hands it on. *)
setOutput(g) == [setReplicationGroupOutput(desired, g) EXCEPT !.cond = onSuccess(@)]

IncreaseReplicaCount ==
  /\ Updating("increase")
  /\ ModifyCall(Modified(rg.cfg, [rg.cfg EXCEPT !.replicas = desired.spec.replicas]),
                setOutput)
  /\ UNCHANGED <<crVars, histVars, edits>>

DecreaseReplicaCount ==
  /\ Updating("decrease")
  /\ ModifyCall(Modified(rg.cfg, [rg.cfg EXCEPT !.replicas = desired.spec.replicas]),
                setOutput)
  /\ UNCHANGED <<crVars, histVars, edits>>

shardsOutput(g) == [setOutput(g) EXCEPT !.ann.nng = desired.spec.shards]

UpdateShardConfiguration ==
  /\ Updating("shards")
  /\ requested' = [requested EXCEPT !.nng = @ \cup {desired.spec.shards}]
  /\ ModifyCall(Modified(rg.cfg, [rg.cfg EXCEPT !.shards = desired.spec.shards]),
                shardsOutput)
  /\ UNCHANGED <<crVars, rolledBack, edits>>

ModifyVersion ==
  /\ Updating("version")
  /\ \E v \in Installs(desired.spec.ev) :
       ModifyCall(Modified(rg.cfg, [rg.cfg EXCEPT !.ev = v]), setOutput)
  /\ UNCHANGED <<crVars, histVars, edits>>

(* Mutant: the annotation is taken from the object as it is by now. *)
modifyOutputRereads(g) ==
  [setOutput(g) EXCEPT !.spec.cnt = desired.spec.cnt, !.ann.cnt = cr.spec.cnt]

(* CustomModifyReplicationGroupSetOutput keeps the node type of the desired *)
(* resource and writes the annotation.                                      *)
modifyOutput(g) ==
  [setOutput(g) EXCEPT
     !.spec.cnt = desired.spec.cnt,
     !.ann.cnt = desired.spec.cnt]

(***************************************************************************)
(* newUpdateRequestPayload has neither the version nor the group counts,   *)
(* and no user groups either: sdkUpdate adds them if the delta differs at  *)
(* "UserGroupIDs", but every path of a delta begins with "Spec".           *)
(***************************************************************************)
ModifyReplicationGroup ==
  /\ Updating("generic")
  /\ requested' = [requested EXCEPT !.cnt = @ \cup {desired.spec.cnt}]
  /\ LET atOnce == [rg.cfg EXCEPT !.desc = desired.spec.desc]
     IN  ModifyCall(Modified(atOnce, [atOnce EXCEPT !.cnt = desired.spec.cnt,
                                                    !.af = desired.spec.af]),
                    modifyOutput)
  /\ UNCHANGED <<crVars, rolledBack, edits>>

-----------------------------------------------------------------------------
(* The end of a pass (external: the ACK runtime).                          *)

(* A merge patch writes what differs between the copy and the result. *)
Patched(current, from, to) == IF from # to THEN to ELSE current

PatchedSpec(s, from, to) ==
  [cnt |-> Patched(s.cnt, from.cnt, to.cnt),
   shards |-> Patched(s.shards, from.shards, to.shards),
   replicas |-> Patched(s.replicas, from.replicas, to.replicas),
   desc |-> Patched(s.desc, from.desc, to.desc),
   ev |-> Patched(s.ev, from.ev, to.ev),
   af |-> Patched(s.af, from.af, to.af),
   ugs |-> Patched(s.ugs, from.ugs, to.ugs),
   tags |-> Patched(s.tags, from.tags, to.tags)]

PatchedAnnotations(a, from, to) ==
  [cnt |-> Patched(a.cnt, from.cnt, to.cnt),
   nng |-> Patched(a.nng, from.nng, to.nng)]

PatchSpec ==
  /\ pc = "patchSpec"
  /\ IF cr.exists
     THEN cr' = [cr EXCEPT !.spec = PatchedSpec(@, desired.spec, latest.spec),
                           !.ann = PatchedAnnotations(@, desired.ann, latest.ann)]
     ELSE UNCHANGED cr
  /\ queued' = (queued \/ cr'.spec # cr.spec)
  /\ pc' = IF desired.del THEN "patchStatus" ELSE "lateInit"
  /\ UNCHANGED <<rg, desired, latest, err, histVars, edits, faults>>

(* LateInitialize touches no field of this model, but it may fail. *)
LateInitialize ==
  /\ pc = "lateInit"
  /\ \/ UNCHANGED <<latest, err, faults>>
     \/ /\ Fault("read")
        /\ latest' = [latest EXCEPT !.cond.synced = "False"]
        /\ err' = "awsOther"
  /\ pc' = "patchStatus"
  /\ UNCHANGED <<crVars, rg, desired, histVars, edits>>

PatchStatus ==
  /\ pc = "patchStatus"
  /\ IF cr.exists
     THEN cr' = [cr EXCEPT !.status = latest.status, !.up = latest.up,
                           !.groups = latest.groups,
                           !.cond = IF desired.del THEN latest.cond
                                    ELSE ensureConditions(latest.cond, err)]
     ELSE UNCHANGED cr
  /\ queued' = (queued \/ Requeues(err))
  /\ pc' = "idle"
  /\ UNCHANGED <<rg, desired, latest, err, histVars, edits, faults>>

-----------------------------------------------------------------------------
(* Deletion (sdkDelete).                                                   *)

ReadDelete ==
  /\ pc = "readDelete" /\ rg.status # "none"
  /\ latest' = sdkFind(desired, TRUE)
  /\ pc' = "delete"
  /\ UNCHANGED <<crVars, rg, desired, err, histVars, edits, faults>>

(* Mutant: a group that is gone ends the pass, and the finalizer stays. *)
ReadDeleteNotFoundIsDone ==
  /\ pc = "readDelete" /\ rg.status = "none"
  /\ pc' = "idle"
  /\ UNCHANGED <<crVars, rg, desired, latest, err, histVars, edits, faults>>

ReadDeleteNotFound ==
  /\ pc = "readDelete" /\ rg.status = "none"
  /\ pc' = "unmanage"
  /\ UNCHANGED <<crVars, rg, desired, latest, err, histVars, edits, faults>>

(* The runtime hands back its own copy, conditions unchanged. *)
ReadDeleteFails ==
  /\ pc = "readDelete"
  /\ Fault("read")
  /\ latest' = asLatest(desired)
  /\ err' = "awsOther"
  /\ pc' = "patchStatus"
  /\ UNCHANGED <<crVars, rg, desired, histVars, edits>>

(* Mutant: the finalizer goes with the call that starts the deletion. *)
DeleteReturnsDone(r, e) ==
  /\ latest' = [r EXCEPT !.cond = onErrorConds(@, e)]
  /\ err' = onErrorResult(r.cond, e)
  /\ pc' = IF e = "requeue" THEN "unmanage" ELSE "patchSpec"
  /\ UNCHANGED desired

(* Whatever a deletion returns is patched, spec and metadata included. *)
DeleteReturns(r, e) ==
  /\ latest' = [r EXCEPT !.cond = onErrorConds(@, e)]
  /\ err' = onErrorResult(r.cond, e)
  /\ pc' = "patchSpec"
  /\ UNCHANGED desired

DeleteWaits ==
  /\ pc = "delete"
  /\ isDeleting(latest) \/ isModifying(latest)
  /\ DeleteReturns([latest EXCEPT !.cond.synced = "False"], "requeue")
  /\ UNCHANGED <<crVars, rg, histVars, edits, faults>>

deleteOutput(r, g) ==
  [setReplicationGroupOutput(r, g) EXCEPT !.cond.synced = "False"]

Deletable == rg.status \in {"available", "create-failed"}

(* An error of the call is judged like any other: it may be terminal. *)
Delete ==
  /\ pc = "delete"
  /\ ~isDeleting(latest) /\ ~isModifying(latest)
  /\ \/ /\ Deletable
        /\ rg' = [rg EXCEPT !.status = "deleting", !.target = rg.cfg]
        /\ \/ /\ DeleteReturns(deleteOutput(latest, rg'), "requeue")
              /\ UNCHANGED faults
           \/ /\ Fault("lost")
              /\ DeleteReturns(latest, "awsOther")
     \/ /\ ~Deletable
        /\ DeleteReturns(latest, "awsOther")
        /\ UNCHANGED <<rg, faults>>
     \/ /\ Fault("reject")
        /\ \E e \in {"awsOther", "awsTerminal"} : DeleteReturns(latest, e)
        /\ UNCHANGED rg
  /\ UNCHANGED <<crVars, histVars, edits>>

(* setResourceUnmanaged: the last finalizer goes, and the object with it. *)
Unmanage ==
  /\ pc = "unmanage"
  /\ cr' = [cr EXCEPT !.fin = FALSE, !.exists = FALSE]
  /\ pc' = "idle"
  /\ UNCHANGED <<rg, desired, latest, err, queued, histVars, edits, faults>>

-----------------------------------------------------------------------------
(* The controller stops between two steps and starts again. *)
Crash ==
  /\ pc # "idle"
  /\ Fault("crash")
  /\ pc' = "idle"
  /\ queued' = TRUE
  /\ UNCHANGED <<cr, rg, desired, latest, err, histVars, edits>>

-----------------------------------------------------------------------------
User == UserEdit \/ UserDelete

(* What the service ends by itself ... *)
AwsProgress == AwsCreated \/ AwsApplied \/ AwsSettled \/ AwsSnapshotEnds \/ AwsDeleted

(* ... and what it may or may not do. *)
AwsMay == AwsCreateFailed \/ AwsAppliedUnsettled \/ AwsRolledBack \/ AwsSnapshotStarts

Update ==
  \/ SyncTags \/ WaitAvailable \/ RefuseNodeType \/ RefuseShards \/ Panic
  \/ IncreaseReplicaCount \/ DecreaseReplicaCount \/ UpdateShardConfiguration
  \/ ModifyVersion \/ ModifyReplicationGroup

(* The steps of the one worker that reconciles this resource. *)
Controller ==
  \/ Fetch \/ FetchGone
  \/ ReadOne \/ ReadOneNotFound \/ ReadOneFails
  \/ Manage \/ Create \/ CreateFails \/ ReadBack \/ ReadBackFails
  \/ Update \/ PatchSpec \/ LateInitialize \/ PatchStatus
  \/ ReadDelete \/ ReadDeleteNotFound \/ ReadDeleteFails
  \/ DeleteWaits \/ Delete \/ Unmanage

Next == User \/ AwsProgress \/ AwsMay \/ Controller \/ Crash

Spec == Init /\ [][Next]_vars

(* The work queue serves every queued resource; the service finishes what it *)
(* started.  Nothing obliges the user, a failure or a crash to happen.       *)
Fairness == WF_vars(Controller) /\ WF_vars(AwsProgress)

FairSpec == Spec /\ Fairness

-----------------------------------------------------------------------------
CRs == [exists : BOOLEAN, del : BOOLEAN, fin : BOOLEAN, spec : Specs,
        ann : Annotations, status : RGStatus \cup {"none"},
        up : SUBSET NodeTypes, groups : ShardCounts \cup {0}, cond : Conds]

Groups == [status : RGStatus \cup {"none"}, cfg : Configs, target : Configs,
           settled : BOOLEAN]

Observations == [spec : Specs, ann : Annotations,
                 status : RGStatus \cup {"none"}, up : SUBSET NodeTypes,
                 groups : ShardCounts \cup {0}, cond : Conds, settled : BOOLEAN, af : BOOLEAN]

Steps == {"idle", "read", "manage", "create", "readBack", "update", "patchSpec",
          "lateInit", "patchStatus", "readDelete", "delete", "unmanage"}

(* Every variable keeps its type. *)
TypeOK ==
  /\ cr \in CRs
  /\ rg \in Groups
  /\ pc \in Steps
  /\ desired \in CRs
  /\ latest \in Observations
  /\ err \in Errors
  /\ queued \in BOOLEAN
  /\ requested \in [cnt : SUBSET NodeTypes, nng : SUBSET ShardCounts]
  /\ rolledBack \in SUBSET NodeTypes
  /\ edits \in Nat
  /\ faults \in Nat

(***************************************************************************)
(* A replication group never outlives its custom resource, and while it is *)
(* there the finalizer holds the resource back: whatever crash, failed or  *)
(* lost call, the group can still be found and deleted (createResource     *)
(* puts the finalizer on before sdkCreate, sdkDelete answers with a requeue*)
(* error until sdkFind says NotFound).                                     *)
(***************************************************************************)
NoOrphan == rg.status # "none" => cr.exists /\ cr.fin

(***************************************************************************)
(* An annotation of the last request never claims a request that was not   *)
(* made: a node type or shard count stored in it was sent to AWS, even when*)
(* the user edited the spec or the controller crashed in between           *)
(* (setLastRequestedCacheNodeType, setLastRequestedNumNodeGroups).         *)
(***************************************************************************)
AnnotationsHonest ==
  /\ cr.ann.cnt \in requested.cnt \cup {None}
  /\ cr.ann.nng \in requested.nng \cup {None}

(***************************************************************************)
(* A node type is refused only if AWS really rolled it back: what the      *)
(* comment on the guard says it means (CustomModifyReplicationGroup).      *)
(***************************************************************************)
RefusalMeansRollback == Updating("refuseNodeType") => desired.spec.cnt \in rolledBack

(* The fields that hold when the resource is at rest; the tags and the     *)
(* version are read by calls of their own and may be missing from a pass.  *)
Matches(s, c) ==
  /\ s.cnt = c.cnt /\ s.desc = c.desc /\ s.af = c.af /\ s.ugs = c.ugs
  /\ s.shards \in {None, c.shards}
  /\ s.replicas \in {None, c.replicas}

(***************************************************************************)
(* A pass that ends without error and reports Synced=True tells the truth: *)
(* the group has the configuration the pass was asked for, its tags        *)
(* included if the pass read them, its version unless the read of it       *)
(* failed.  Only a group that could not be created is Synced without       *)
(* (customSetOutput, for what is read and for what is answered, and        *)
(* CustomModifyReplicationGroupSetOutput).                                 *)
(***************************************************************************)
VersionTold ==
  /\ desired.spec.ev # None
  /\ "describeCacheCluster" \notin FaultKinds \/ desired.spec.ev # latest.spec.ev

SyncedTellsTheTruth ==
  /\ pc = "patchStatus" /\ err = "none" /\ ~desired.del
  /\ ensureConditions(latest.cond, err).synced = "True"
  /\ latest.status # "create-failed"
  => /\ Matches(desired.spec, rg.cfg)
     /\ ~ReturnsEarly(desired) => rg.cfg.tags = desired.spec.tags
     /\ VersionTold => rg.cfg.ev \in Installs(desired.spec.ev)

(***************************************************************************)
(* A resource leaves the work queue only with a Terminal condition: every  *)
(* other ending of a pass, a crash and a lost call included, brings it back*)
(***************************************************************************)
NeverAbandoned ==
  pc = "idle" /\ ~queued /\ cr.exists => cr.cond.terminal = "True"

(***************************************************************************)
(* Only the user changes the intent: a patch may fill or restore a field   *)
(* but never takes back an edit the group has not got yet (the comments in *)
(* CustomModifyReplicationGroupSetOutput say stale data must not be merged *)
(* back into the spec).                                                    *)
(***************************************************************************)
EditsSurvivePatch ==
  [][PatchSpec /\ ~desired.del => cr'.spec = cr.spec]_vars

(* The fields of the spec that no response of a modification is merged into. *)
NotMerged == {"shards", "replicas", "ev", "af", "tags"}

Kept(s, t) == \A f \in NotMerged : s[f] = t[f]

(***************************************************************************)
(* What is left of EditsSurvivePatch, which the code breaks: the patch may *)
(* take back an edit of the node type, of a field applied at once or of the*)
(* user groups, and no other (setReplicationGroupOutput and the sdk calls  *)
(* for replicas, shards and versions leave the rest as desired).           *)
(***************************************************************************)
OtherEditsSurvivePatch ==
  [][PatchSpec /\ ~desired.del => Kept(cr'.spec, cr.spec)]_vars

(***************************************************************************)
(* A reduction of the shards copes with a status that has fewer of them:   *)
(* newUpdateShardConfigurationRequestPayload tests Status.NodeGroups[i] for*)
(* nil before it uses it.                                                  *)
(***************************************************************************)
NoPanic == ~Updating("panic")

(***************************************************************************)
(* AWS is asked to delete a group only after the user deleted the resource.*)
(***************************************************************************)
DeletedOnRequest == rg.status = "deleting" => cr.del

(***************************************************************************)
(* What the steps of a pass rely on between them, and why no step loses    *)
(* the group: NoOrphan and DeletedOnRequest hold because of it.            *)
(***************************************************************************)
FinalizerHolds == /\ cr.fin => cr.exists
                  /\ cr.exists /\ cr.del => cr.fin

CreatesBehindFinalizer ==
  /\ pc \in {"manage", "create"} => rg.status = "none"
  /\ pc = "create" => cr.fin

DeletesOnRequest ==
  /\ desired.del => cr.del
  /\ pc \in {"readDelete", "delete", "unmanage"} => desired.del /\ cr.fin
  /\ pc = "unmanage" => rg.status = "none"

LifecycleInv == /\ FinalizerHolds /\ CreatesBehindFinalizer /\ DeletesOnRequest
                /\ NoOrphan /\ DeletedOnRequest

(* Every copy of the annotations is honest, and the history only grows. *)
Honest(a) == /\ a.cnt \in requested.cnt \cup {None}
             /\ a.nng \in requested.nng \cup {None}

HonestInv == Honest(cr.ann) /\ Honest(desired.ann) /\ Honest(latest.ann)

(* An error is there only once a pass is about to end, and a terminal one  *)
(* only with the condition that says so.                                   *)
QueueInv ==
  /\ pc \in {"read", "manage", "create", "readBack", "update", "readDelete",
              "delete", "unmanage"} => err = "none"
  /\ pc # "idle" /\ err = "ackTerminal" => latest.cond.terminal = "True"
  /\ NeverAbandoned

(* A tag both the old and the new intent have is never taken off the group. *)
KeptTagsStay ==
  [][SyncTags => \A k \in DOMAIN rg.cfg.tags \cap DOMAIN desired.spec.tags :
                   k \in DOMAIN rg'.cfg.tags]_vars

(* The deletion was tried and answered with a terminal code: the resource is *)
(* off the queue, Terminal and not Recoverable.  (A Terminal condition from  *)
(* before is no answer, for UserDelete queues the resource.)                 *)
DeletionRefused ==
  /\ pc = "idle" /\ ~queued
  /\ cr.cond.terminal = "True" /\ cr.cond.recoverable # "True"

(* A deleted resource is eventually gone, and its group with it, unless the *)
(* service refuses the deletion for good (sdkDelete, onError).              *)
DeletionCompletes == cr.del ~> (~cr.exists /\ rg.status = "none") \/ DeletionRefused

(* The intent is applied, or the code has given it up: a refused scaling or *)
(* resharding, a terminal error, or a group that was not created.           *)
GivenUp ==
  \/ cr.cond.terminal = "True"
  \/ rg.status = "create-failed"
  \/ cr.ann.cnt = cr.spec.cnt /\ rg.cfg.cnt # cr.spec.cnt
  \/ cr.ann.nng = cr.spec.shards /\ rg.cfg.shards # cr.spec.shards
  \/ cr.ann.nng # None /\ cr.spec.shards = None

Realised ==
  /\ rg.status = "available"
  /\ Matches(cr.spec, rg.cfg)
  /\ rg.cfg.tags = cr.spec.tags
  /\ cr.spec.ev # None => rg.cfg.ev \in Installs(cr.spec.ev)

(* Once the user stops editing, the group gets what the spec says. *)
Converges == <>[](~cr.exists \/ cr.del \/ Realised \/ GivenUp)

-----------------------------------------------------------------------------
(* The life of the resource and of the group, without the rest. *)
Lifecycle == INSTANCE ResourceLifecycle WITH
  AwaitsDestruction <- TRUE,
  present <- cr.exists,
  finalizer <- cr.fin,
  requested <- cr.del,
  external <- IF rg.status = "none" THEN "none"
              ELSE IF rg.status = "deleting" THEN "dying" ELSE "live"

(* Every step of the controller, of the service and of the user is a step  *)
(* of the lifecycle or leaves it unchanged.                                *)
ImplementsLifecycle == Lifecycle!Spec
=============================================================================
