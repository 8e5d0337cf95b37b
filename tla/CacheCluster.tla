---------------------------- MODULE CacheCluster ----------------------------
(***************************************************************************)
(* The CacheCluster controller (pkg/resource/cache_cluster): a Memcached   *)
(* cluster whose nodes are added and removed at its end, in availability   *)
(* zones the user may name.  The steps of a pass are those of Runtime; this*)
(* module is the resource manager and the service.                         *)
(*                                                                         *)
(* "num" is Spec.NumCacheNodes, "azs" Spec.PreferredAvailabilityZones, nil *)
(* or a list; "auto" stands for every field that ModifyCacheCluster applies*)
(* at once (AutoMinorVersionUpgrade, SnapshotRetentionLimit, ...).  The    *)
(* late-initialised PreferredAvailabilityZone is only known to be there or *)
(* not ("zoned").                                                          *)
(***************************************************************************)
EXTENDS Runtime, Sequences, FiniteSets

CONSTANTS
  MaxNodes,          \* the most nodes a user asks for
  AZs,               \* availability zones
  TagKeys, TagValues,
  InitSpecs          \* the specs a user may create the resource with

T == INSTANCE Tags

Placements(n) == [1..n -> AZs]

ZoneLists == {None} \cup UNION {Placements(n) : n \in 1..MaxNodes}

Specs == [num : 1..MaxNodes, azs : ZoneLists, auto : BOOLEAN, tags : T!TagMaps]

(* A nil pointer is not a count. *)
ASSUME CCAssumption == MaxNodes \in Nat /\ InitSpecs \subseteq Specs /\ None \notin Nat

(* AnnotationLastRequestedPAZs. *)
Annotations == [azs : ZoneLists]

CCStatus == {"creating", "available", "modifying", "deleting", "rebooting"}

Max2(a, b) == IF a > b THEN a ELSE b

ZonesOf(azs) == IF azs = None THEN 0 ELSE Len(azs)

(***************************************************************************)
(* The cluster: nodes[i] is the zone of the node with id i, target the     *)
(* nodes it is moving to.  "asked" is history: the zones the spec had when *)
(* the service last accepted a creation or a modification.                 *)
(***************************************************************************)
Cluster(status, nodes, auto, tags, asked) ==
  [status |-> status, nodes |-> nodes, target |-> nodes, auto |-> auto,
   tags |-> tags, asked |-> asked]

Init ==
  \E s \in InitSpecs :
    /\ cr = NewResource(s, [azs |-> None])
    /\ aws = Cluster("none", <<>>, s.auto, s.tags, None)
    /\ latest = [spec |-> s, ann |-> cr.ann, status |-> "none", cond |-> NoConds,
                 pending |-> None, zoned |-> FALSE]
    /\ StartsIdle

-----------------------------------------------------------------------------
(* The service. *)

AwsCreated ==
  /\ aws.status = "creating"
  /\ aws' = [aws EXCEPT !.status = "available"]
  /\ UNCHANGED <<crVars, ctlVars, edits, faults>>

AwsApplied ==
  /\ aws.status = "modifying"
  /\ aws' = [aws EXCEPT !.status = "available", !.nodes = aws.target]
  /\ UNCHANGED <<crVars, ctlVars, edits, faults>>

(* Nodes that were to be added or removed are not. *)
AwsRolledBack ==
  /\ aws.status = "modifying" /\ aws.target # aws.nodes
  /\ Fault("rollback")
  /\ aws' = [aws EXCEPT !.status = "available", !.target = aws.nodes]
  /\ UNCHANGED <<crVars, ctlVars, edits>>

AwsReboots ==
  /\ aws.status = "available"
  /\ Fault("reboot")
  /\ aws' = [aws EXCEPT !.status = "rebooting"]
  /\ UNCHANGED <<crVars, ctlVars, edits>>

AwsRebooted ==
  /\ aws.status = "rebooting"
  /\ aws' = [aws EXCEPT !.status = "available"]
  /\ UNCHANGED <<crVars, ctlVars, edits, faults>>

AwsDeleted ==
  /\ aws.status = "deleting"
  /\ aws' = [aws EXCEPT !.status = "none"]
  /\ UNCHANGED <<crVars, ctlVars, edits, faults>>

-----------------------------------------------------------------------------
(* Reading (sdkFind). *)

isCreating(r) == r.status = "creating"
isAvailable(r) == r.status = "available"
isDeleting(r) == r.status = "deleting"
isModifying(r) == r.status = "modifying"

(* Mutant: a missing count becomes zero, as in Int64OrNil. *)
pendingNodesOrZero(c) == IF c.target # c.nodes THEN Len(c.target) ELSE 0

(* PendingModifiedValues.NumCacheNodes of a response. *)
pendingNodes(c) == IF c.target # c.nodes THEN Len(c.target) ELSE None

(* Mutant: the pending count is not taken over. *)
numCacheNodesNow(c) == Len(c.nodes)

numCacheNodes(c) == IF pendingNodes(c) # None THEN pendingNodes(c) ELSE Len(c.nodes)

(* Mutant: Synced by the status just read. *)
foundSyncedNow(r) == IF aws.status = "available" THEN "True" ELSE "False"

(* Synced is judged by the status r came with, the one the pass before     *)
(* stored; and so is whether the tags are read.                            *)
foundSynced(r) == IF isAvailable(r) THEN "True" ELSE "False"

sdkFind(r) ==
  [spec    |-> [r.spec EXCEPT !.num = numCacheNodes(aws), !.auto = aws.auto,
                              !.tags = IF isAvailable(r) THEN aws.tags ELSE @],
   ann     |-> r.ann,
   status  |-> aws.status,
   cond    |-> onSuccess([r.cond EXCEPT !.synced = foundSynced(r)]),
   pending |-> pendingNodes(aws),
   zoned   |-> aws.status # "creating"]

asLatest(r) ==
  [spec |-> r.spec, ann |-> r.ann, status |-> r.status, cond |-> r.cond,
   pending |-> None, zoned |-> FALSE]

(* Mutant: a field is not compared. *)
newResourceDeltaNoAuto(d, l) ==
  {f \in {"num", "tags"} : d.spec[f] # l.spec[f]}
  \cup (IF d.spec.azs # d.ann.azs THEN {"azs"} ELSE {})

(***************************************************************************)
(* newResourceDelta ignores the zones; modifyDelta compares them with the  *)
(* annotation of the last request instead.                                 *)
(***************************************************************************)
newResourceDelta(d, l) ==
  {f \in {"num", "auto", "tags"} : d.spec[f] # l.spec[f]}
  \cup (IF d.spec.azs # d.ann.azs THEN {"azs"} ELSE {})

ReadOne ==
  /\ pc = "read" /\ aws.status # "none"
  /\ latest' = sdkFind(desired)
  /\ pc' = IF newResourceDelta(desired, latest') # {} THEN "update" ELSE "lateInit"
  /\ UNCHANGED <<crVars, aws, desired, err, edits, faults>>

ReadOneFails ==
  /\ pc = "read"
  /\ Fault("read")
  /\ FailWith(asLatest(desired), "awsOther")
  /\ UNCHANGED <<crVars, aws, edits>>

-----------------------------------------------------------------------------
(* Creation (sdkCreate). *)

(* Mutant: the annotation is not written. *)
callOutputKeepsAnnotation(d, c, synced) ==
  [spec    |-> [d.spec EXCEPT !.num = numCacheNodes(c), !.auto = c.auto],
   ann     |-> d.ann,
   status  |-> c.status,
   cond    |-> onSuccess([d.cond EXCEPT !.synced = synced]),
   pending |-> pendingNodes(c),
   zoned   |-> c.status # "creating"]

(* The result of a call: the desired resource with what the response has, *)
(* and the zones of this request in the annotation (setAnnotationsFields). *)
callOutput(d, c, synced) ==
  [spec    |-> [d.spec EXCEPT !.num = numCacheNodes(c), !.auto = c.auto],
   ann     |-> [azs |-> d.spec.azs],
   status  |-> c.status,
   cond    |-> onSuccess([d.cond EXCEPT !.synced = synced]),
   pending |-> pendingNodes(c),
   zoned   |-> c.status # "creating"]

(* External: a creation names a zone for every node, or none. *)
CreateValid(s) == ZonesOf(s.azs) \in {0, s.num}

Create ==
  /\ pc = "create" /\ aws.status = "none"
  /\ CreateValid(desired.spec)
  /\ \E zones \in Placements(desired.spec.num) :
       /\ desired.spec.azs \in {None, zones}
       /\ aws' = Cluster("creating", zones, desired.spec.auto, desired.spec.tags,
                         desired.spec.azs)
  /\ \/ /\ latest' = callOutput(desired, aws', "False")
        /\ pc' = "readBack"
        /\ UNCHANGED <<desired, err, faults>>
     \/ /\ Fault("lost")
        /\ FailWith(asLatest(desired), "awsOther")
  /\ UNCHANGED <<crVars, edits>>

CreateInvalid ==
  /\ pc = "create"
  /\ ~CreateValid(desired.spec)
  /\ FailWith(asLatest(desired), "awsTerminal")
  /\ UNCHANGED <<crVars, aws, edits, faults>>

CreateFails ==
  /\ pc = "create"
  /\ Fault("reject")
  /\ \E e \in {"awsOther", "awsTerminal"} : FailWith(asLatest(desired), e)
  /\ UNCHANGED <<crVars, aws, edits>>

(* The runtime reads the new cluster back and keeps its status only. *)
ReadBack ==
  /\ pc = "readBack" /\ aws.status # "none"
  /\ LET r == sdkFind(latest)
     IN  latest' = [latest EXCEPT !.status = r.status, !.cond = r.cond,
                                  !.pending = r.pending]
  /\ pc' = "patchSpec"
  /\ UNCHANGED <<crVars, aws, desired, err, edits, faults>>

-----------------------------------------------------------------------------
(* Update (sdkUpdate). *)

delta == newResourceDelta(desired, latest)

(* The count the nodes to remove are numbered down from. *)
numNodes(l) == IF l.pending = None THEN l.spec.num ELSE Max2(l.spec.num, l.pending)

nodesDelta(d, l) == IF d.spec.num # l.spec.num THEN numNodes(l) - d.spec.num ELSE 0

(* Mutant: the node after the last is named, the first to go is not. *)
CacheNodeIdsToRemoveShifted(d, l) ==
  {i + 1 : i \in {n \in 1..numNodes(l) : n > numNodes(l) - nodesDelta(d, l)}}

CacheNodeIdsToRemove(d, l) ==
  {n \in 1..numNodes(l) : n > numNodes(l) - nodesDelta(d, l)}

(***************************************************************************)
(* The loop runs over the suffix of the list that is new, but its variable *)
(* is the position in the suffix and indexes the whole list.               *)
(***************************************************************************)
NewAvailabilityZones(d) ==
  IF d.spec.azs \in {None, d.ann.azs} THEN <<>>
  ELSE [i \in 1..(Len(d.spec.azs) - ZonesOf(d.ann.azs)) |-> d.spec.azs[i]]

(* The two errors of updateCacheClusterPayload. *)
zonesRefused(d, l) ==
  /\ d.spec.azs \notin {None, d.ann.azs}
  /\ nodesDelta(d, l) >= 0 \/ Len(d.spec.azs) <= ZonesOf(d.ann.azs)

updateStep(d, l) ==
  IF "tags" \in delta THEN "tags"
  ELSE IF zonesRefused(d, l) THEN "refuseZones"
  ELSE "modify"

Updating(step) == pc = "update" /\ updateStep(desired, latest) = step

(* SyncTags always ends in an error: a failed call, or the requeue. *)
SyncTags ==
  /\ Updating("tags")
  /\ \/ /\ aws.status = "available"
        /\ aws' = [aws EXCEPT !.status = "modifying",
                     !.tags = T!SyncTags(desired.spec.tags, latest.spec.tags, @)]
        /\ FailWith(latest, "requeue")
        /\ UNCHANGED faults
     \/ /\ aws.status # "available"
        /\ FailWith(latest, "awsOther")
        /\ UNCHANGED <<aws, faults>>
     \/ /\ Fault("reject")
        /\ \E e \in {"awsOther", "awsTerminal"} : FailWith(latest, e)
        /\ UNCHANGED aws
  /\ UNCHANGED <<crVars, edits>>

RefuseZones ==
  /\ Updating("refuseZones")
  /\ FailWith(latest, "terminalError")
  /\ UNCHANGED <<crVars, aws, edits, faults>>

(***************************************************************************)
(* External: the cluster after a modification to "num" nodes.  A removal   *)
(* must name exactly the nodes there are too many of, and zones may be     *)
(* given for all the nodes that are added, or for none of them.            *)
(***************************************************************************)
ModifyValid(num, remove, zones) ==
  /\ Cardinality(remove) = Max2(0, Len(aws.nodes) - num)
  /\ remove \subseteq 1..Len(aws.nodes)
  /\ Len(zones) \in {0, Max2(0, num - Len(aws.nodes))}

(* External: new nodes go to the zones given, or where the service likes; *)
(* the ids of removed nodes are used again.                               *)
Placed(num, remove, zones) ==
  LET n == Len(aws.nodes)
      kept == SelectSeq([i \in 1..n |-> IF i \in remove THEN None ELSE aws.nodes[i]],
                        LAMBDA z : z # None)
  IN  {p \in Placements(num) :
         IF num <= n THEN p = kept
         ELSE /\ \A i \in 1..n : p[i] = aws.nodes[i]
              /\ \A i \in 1..Len(zones) : p[n + i] = zones[i]}

Modified(target) ==
  [aws EXCEPT !.target = target, !.auto = desired.spec.auto, !.asked = desired.spec.azs,
              !.status = IF target # aws.nodes THEN "modifying" ELSE "available"]

remove == CacheNodeIdsToRemove(desired, latest)
newZones == NewAvailabilityZones(desired)

ModifyCacheCluster ==
  /\ Updating("modify")
  /\ aws.status = "available"
  /\ ModifyValid(desired.spec.num, remove, newZones)
  /\ \E target \in Placed(desired.spec.num, remove, newZones) : aws' = Modified(target)
  /\ \/ /\ latest' = callOutput(desired, aws', "False")
        /\ pc' = "patchSpec"
        /\ UNCHANGED <<desired, err, faults>>
     \/ /\ Fault("lost")
        /\ FailWith(latest, "awsOther")
  /\ UNCHANGED <<crVars, edits>>

(* The manager does not look at the status before it calls. *)
ModifyCacheClusterFails ==
  /\ Updating("modify")
  /\ \/ /\ aws.status # "available"
        /\ FailWith(latest, "awsOther")
        /\ UNCHANGED faults
     \/ /\ aws.status = "available"
        /\ ~ModifyValid(desired.spec.num, remove, newZones)
        /\ FailWith(latest, "awsTerminal")
        /\ UNCHANGED faults
     \/ /\ Fault("reject")
        /\ \E e \in {"awsOther", "awsTerminal"} : FailWith(latest, e)
  /\ UNCHANGED <<crVars, aws, edits>>

-----------------------------------------------------------------------------
(***************************************************************************)
(* LateInitialize reads again and waits for PreferredAvailabilityZone, the *)
(* zone a cluster reports once it is created; what it finds is patched into*)
(* the spec.                                                               *)
(***************************************************************************)
LateInitialize ==
  /\ pc = "lateInit"
  /\ aws.status # "creating" \/ latest.zoned
  /\ latest' = [latest EXCEPT !.zoned = TRUE]
  /\ queued' = (queued \/ ~latest.zoned)
  /\ pc' = "patchStatus"
  /\ UNCHANGED <<cr, aws, desired, err, edits, faults>>

LateInitializeIncomplete ==
  /\ pc = "lateInit"
  /\ aws.status = "creating" /\ ~latest.zoned
  /\ latest' = [latest EXCEPT !.cond.synced = "False"]
  /\ err' = "requeue"
  /\ pc' = "patchStatus"
  /\ UNCHANGED <<crVars, aws, desired, edits, faults>>

LateInitializeFails ==
  /\ pc = "lateInit"
  /\ Fault("read")
  /\ latest' = [latest EXCEPT !.cond.synced = "False"]
  /\ err' = "awsOther"
  /\ pc' = "patchStatus"
  /\ UNCHANGED <<crVars, aws, desired, edits>>

-----------------------------------------------------------------------------
(* Deletion (sdkDelete). *)

ReadDelete ==
  /\ pc = "readDelete" /\ aws.status # "none"
  /\ latest' = sdkFind(desired)
  /\ pc' = "delete"
  /\ UNCHANGED <<crVars, aws, desired, err, edits, faults>>

ReadDeleteFails ==
  /\ pc = "readDelete"
  /\ Fault("read")
  /\ latest' = asLatest(desired)
  /\ err' = "awsOther"
  /\ pc' = "patchStatus"
  /\ UNCHANGED <<crVars, aws, desired, edits>>

DeleteWaits ==
  /\ pc = "delete"
  /\ isDeleting(latest) \/ isModifying(latest)
  /\ DeleteReturns([latest EXCEPT !.cond.synced = "False"], "requeue")
  /\ UNCHANGED <<crVars, aws, edits, faults>>

(* Mutant: a failed call counts as a deletion. *)
DeleteFailsDone ==
  /\ pc = "delete"
  /\ ~isDeleting(latest) /\ ~isModifying(latest)
  /\ IF aws.status = "available" THEN Fault("reject") ELSE UNCHANGED faults
  /\ DeleteDone
  /\ UNCHANGED <<crVars, aws, edits>>

(* An error of the call is judged like any other: it may be terminal. *)
DeleteFails ==
  /\ pc = "delete"
  /\ ~isDeleting(latest) /\ ~isModifying(latest)
  /\ \/ /\ aws.status # "available"
        /\ DeleteReturns(latest, "awsOther")
        /\ UNCHANGED faults
     \/ /\ Fault("reject")
        /\ \E e \in {"awsOther", "awsTerminal"} : DeleteReturns(latest, e)
  /\ UNCHANGED <<crVars, aws, edits>>

(* A call that succeeds ends the deletion: the resource is released while *)
(* the cluster is still "deleting".                                       *)
Delete ==
  /\ pc = "delete" /\ aws.status = "available"
  /\ ~isDeleting(latest) /\ ~isModifying(latest)
  /\ aws' = [aws EXCEPT !.status = "deleting", !.target = aws.nodes]
  /\ \/ /\ DeleteDone
        /\ UNCHANGED faults
     \/ /\ Fault("lost")
        /\ DeleteReturns(latest, "awsOther")
  /\ UNCHANGED <<crVars, edits>>

-----------------------------------------------------------------------------
User == UserEdit(Specs) \/ UserDelete

AwsProgress == AwsCreated \/ AwsApplied \/ AwsRebooted \/ AwsDeleted

AwsMay == AwsRolledBack \/ AwsReboots

Update == SyncTags \/ RefuseZones \/ ModifyCacheCluster \/ ModifyCacheClusterFails

Controller ==
  \/ Fetch \/ FetchGone
  \/ ReadOne \/ ReadOneNotFound \/ ReadOneFails
  \/ Manage \/ Create \/ CreateInvalid \/ CreateFails \/ ReadBack \/ ReadBackFails
  \/ Update \/ PatchSpec
  \/ LateInitialize \/ LateInitializeIncomplete \/ LateInitializeFails \/ PatchStatus
  \/ ReadDelete \/ ReadDeleteNotFound \/ ReadDeleteFails
  \/ DeleteWaits \/ Delete \/ DeleteFails \/ Unmanage

Next == User \/ AwsProgress \/ AwsMay \/ Controller \/ Crash

Spec == Init /\ [][Next]_vars

(* The work queue serves every queued resource; the service finishes what it *)
(* started.                                                                  *)
Fairness == WF_vars(Controller) /\ WF_vars(AwsProgress)

FairSpec == Spec /\ Fairness

-----------------------------------------------------------------------------
CRs == [exists : BOOLEAN, del : BOOLEAN, fin : BOOLEAN, spec : Specs,
        ann : Annotations, status : CCStatus \cup {"none"}, cond : Conds]

NodeLists == UNION {Placements(n) : n \in 0..MaxNodes}

Clusters == [status : CCStatus \cup {"none"}, nodes : NodeLists, target : NodeLists,
             auto : BOOLEAN, tags : T!TagMaps, asked : ZoneLists]

Observations == [spec : Specs, ann : Annotations, status : CCStatus \cup {"none"},
                 cond : Conds, pending : {None} \cup 1..MaxNodes, zoned : BOOLEAN]

Steps == {"idle", "read", "manage", "create", "readBack", "update", "patchSpec",
          "lateInit", "patchStatus", "readDelete", "delete", "unmanage"}

(* Every variable keeps its type. *)
TypeOK ==
  /\ cr \in CRs /\ desired \in CRs
  /\ aws \in Clusters
  /\ latest \in Observations
  /\ pc \in Steps
  /\ err \in Errors
  /\ queued \in BOOLEAN
  /\ edits \in Nat /\ faults \in Nat

(* The service knows the nodes of every cluster there is. *)
HasNodes == aws.status # "none" => aws.nodes # <<>> /\ aws.target # <<>>

(* TypeOK is not inductive alone: what is read from the service is a count. *)
TypeInv == TypeOK /\ HasNodes

(***************************************************************************)
(* The nodes a modification names for removal are the last nodes the       *)
(* cluster has by then, however many additions and removals were pending   *)
(* when the count was read (updateCacheClusterPayload).                    *)
(***************************************************************************)
RemovesTheLastNodes ==
  Updating("modify") /\ aws.status = "available" /\ desired.spec.num < Len(aws.nodes)
  => remove = desired.spec.num + 1 .. Len(aws.nodes)

(***************************************************************************)
(* The zones of a spec are refused only if the service has not accepted    *)
(* them already: the error says that they "can only be changed" with new   *)
(* nodes (updateCacheClusterPayload, setAnnotationsFields).                *)
(***************************************************************************)
RefusalMeansNewZones == Updating("refuseZones") => desired.spec.azs # aws.asked

(***************************************************************************)
(* Only the user changes the intent: what a call answers, with its pending *)
(* values taken over, is patched into the spec and takes back no edit made *)
(* meanwhile (the end of sdkUpdate).                                       *)
(***************************************************************************)
EditsSurvivePatch == [][PatchSpec /\ ~desired.del => cr'.spec = cr.spec]_vars

(***************************************************************************)
(* A pass that ends without error and reports Synced=True of an available  *)
(* cluster tells the truth, tags included (sdkFind).                       *)
(***************************************************************************)
SyncedTellsTheTruth ==
  /\ pc = "patchStatus" /\ err = "none" /\ ~desired.del
  /\ latest.status = "available"
  /\ ensureConditions(latest.cond, err).synced = "True"
  => /\ Len(aws.nodes) = desired.spec.num
     /\ aws.auto = desired.spec.auto
     /\ aws.tags = desired.spec.tags

InZone(s, z) == Cardinality({i \in DOMAIN s : s[i] = z})

(***************************************************************************)
(* A resource that is Synced and not refused, and whose spec names a zone  *)
(* for each node, has its nodes in those zones: the zones "newly specified *)
(* [...] must match the number of cache nodes being added" and go to those *)
(* nodes (updateCacheClusterPayload).                                      *)
(***************************************************************************)
ZonesHonoured ==
  /\ pc = "idle" /\ cr.spec = desired.spec
  /\ cr.cond.synced = "True" /\ cr.cond.terminal # "True"
  /\ aws.status = "available"
  /\ ZonesOf(cr.spec.azs) = Len(aws.nodes)
  => \A z \in AZs : InZone(aws.nodes, z) = InZone(cr.spec.azs, z)

Realised ==
  /\ aws.status = "available"
  /\ Len(aws.nodes) = cr.spec.num
  /\ aws.auto = cr.spec.auto
  /\ aws.tags = cr.spec.tags
  /\ cr.spec.azs = cr.ann.azs

(* Once the user stops editing, the cluster gets what the spec says, or the *)
(* resource is Terminal.                                                    *)
Converges == <>[](~cr.exists \/ cr.del \/ Realised \/ cr.cond.terminal = "True")

(* A deleted resource is eventually gone, and its cluster with it, unless   *)
(* the service refuses the deletion for good (sdkDelete, onError).          *)
DeletionCompletes == cr.del ~> (~cr.exists /\ aws.status = "none") \/ DeletionRefused

-----------------------------------------------------------------------------
(* The life of the resource and of the cluster, without the rest. *)
Lifecycle == INSTANCE ResourceLifecycle WITH
  AwaitsDestruction <- FALSE,
  present <- cr.exists,
  finalizer <- cr.fin,
  requested <- cr.del,
  external <- IF aws.status = "none" THEN "none"
              ELSE IF aws.status = "deleting" THEN "dying" ELSE "live"

(* Every step of the controller, of the service and of the user is a step  *)
(* of the lifecycle or leaves it unchanged.                                *)
ImplementsLifecycle == Lifecycle!Spec
=============================================================================
