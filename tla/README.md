# A verification of the ElastiCache controller

The ElastiCache controller is a Kubernetes operator. A user describes an
ElastiCache resource as a custom resource; the controller creates, changes and
deletes the AWS resource until the two agree. This directory holds TLA+
specifications of the controller, TLC configurations that check them on small
instances, and proofs that TLAPS checks for every instance.

Contents:

1. [The system](#1-the-system)
2. [Components](#2-components)
3. [What is hard](#3-what-is-hard)
4. [Modules](#4-modules)
5. [How the model corresponds to the code](#5-how-the-model-corresponds-to-the-code)
6. [Runs](#6-runs)
7. [Fairness](#7-fairness)
8. [Proofs](#8-proofs)
9. [What disagrees with its comments](#9-what-disagrees-with-its-comments)
10. [What is not modelled](#10-what-is-not-modelled)
11. [Plan](#11-plan)

To check a module: `tlc -config rg_scaling.cfg MCReplicationGroup`; to check the
proofs: `tlapm KindsProofs.tla` and so on.

## 1. The system

Four parties act on one resource, each at its own pace.

- **The user** edits the `spec` of the custom resource or deletes it.
- **The resource manager** of the kind (`pkg/resource/<kind>`), the code of this
  repository, answers `ReadOne`, `Create`, `Update`, `Delete`, `LateInitialize`
  and `IsSynced`. It keeps nothing in memory between calls: what it must remember
  it stores in the custom resource, in its status and in annotations.
- **The ACK runtime** (a library, `github.com/aws-controllers-k8s/runtime`) drives
  the manager. A *pass* takes the resource from the work queue, resets its
  conditions, reads the AWS resource, then creates it, updates it or leaves it
  alone, patches spec and metadata, late-initialises, patches the status, and
  decides by the error whether the resource goes back on the queue.
- **The service** applies what it accepts some time later, and may roll it back.

A pass is not atomic. Between any two of its calls the user may edit, the service
may change the status, and the process may stop. Everything the pass decides with
after that is a copy.

## 2. Components

| Component | State it keeps | Operations | What makes it correct |
|---|---|---|---|
| replication_group | status, `AllowedScaleUpModifications`, node groups, annotations of the last requested node type and shards | sdkFind, sdkCreate, sdkUpdate (tags, replicas, shards, version, the rest), sdkDelete | no orphan; no edit lost; Synced is true only when the group has the spec; annotations name real requests; convergence |
| cache_cluster | status, pending node count, annotation of the last requested zones | sdkFind, sdkCreate, sdkUpdate (tags; everything else in one call, with nodes to remove and zones to add), late initialisation, sdkDelete | the removed nodes are the last ones; zones are refused only if new and go to new nodes; a pending count takes no edit back; convergence |
| cache_parameter_group | none: parameters are compared as maps, events are informative | create, then reset or save in batches of 20, delete | after a failure in the middle the next pass completes the difference; no call disturbs a parameter that is as wanted |
| cache_subnet_group | none | create, modify (everything in one call), delete | an answer takes no edit back; Synced tells the truth; convergence |
| user | status, access string last requested | create, modify and delete while active only | an access string the service expands does not loop; the string last requested is the one in force |
| user_group | status | create, add and remove user ids while active only, delete | pending users are not asked for twice and take no edit back |
| snapshot | status | create or copy, no modification, delete | a failed snapshot is and stays Terminal; an edit is taken back |
| serverless_cache | status | create, one modified field per pass in a fixed order, delete | all differences a modification can remove are removed; never Synced over one |
| serverless_cache_snapshot | status | create, tags only and when available, delete | tags converge; Synced only after the tags were read |
| references | the references in the spec; a resolved identifier lives for one pass | resolve field by field, validate, clear | nothing is created before what it refers to; nothing resolved is stored; waiting ends unless in a cycle |
| conditions (`updateConditions`, `onError`, `onSuccess`, in every manager) | condition list | classify an error | a resource leaves the queue only when Terminal says so |
| util/tags | none | difference; add, requeue, remove, requeue | no tag that stays is taken off |
| util/engine_version | none | compare a wanted version with a reported one | equal exactly when the service may install the one for the other |
| common/delta | none | remove a difference from a delta | by its effect only |
| ACK runtime, Kubernetes, AWS | external | see section 5 | modelled from how the code relies on it |

Interaction: the runtime calls a manager; the manager calls AWS and the helpers of
`pkg/util`; the manager of one pass speaks to the manager of the next only
through the custom resource (status and annotations), which the runtime patches
after the manager returns. That last hop is where most hazards sit: what a call
did at AWS and what the resource says about it are stored at two moments. Two
custom resources meet only where one refers to the other: a pass over the first reads
the conditions and the identifier that some pass over the second has stored.

## 3. What is hard

`PROJECT.json` lists each hazard at its line. In groups:

- **Stale copies.** `sdkFind` judges "creating", "modifying" or "deleting" by the
  status the pass *before* stored, not by what it just read. `isScaleUpPossible` and
  the shards to retain use lists stored earlier. Responses are merged over the
  user's spec. A user's access string is compared with a record of the last request.
- **Crash between a call and its record.** The annotation of the last request, or
  the access string last requested, is stored after the call was answered; later
  refusals and comparisons are decided by it.
- **Long sequences.** Edit, asynchronous rollback, edit back, edit again: whether
  a request is applied or refused depends on the whole history.
- **Order of partial updates.** One call per pass (replication groups, serverless
  caches); which comes first depends on the direction of each difference.
- **Partial failure.** A read after a create fails; `describeCacheCluster` fails
  and the error is dropped; a batch of parameters fails in the middle.
- **Waiting for others.** A resource waits for those it refers to, which other
  workers reconcile, fail, delete and make again.
- **Liveness.** Every ending of a pass but a terminal one must bring the resource
  back; a deletion must wait for a modification and still end.

## 4. Modules

| Module | What it is |
|---|---|
| `Conditions` | the condition list and the error classes: `updateConditions`, `terminalAWSError`, `onError`, `onSuccess`; external: `ensureConditions`, the requeue rule |
| `Tags` | the difference of two tag collections and what one pass of `SyncTags` does with it |
| `EngineVersion` | versions and their comparison |
| `ResourceLifecycle` | abstract specification: the object, its finalizer, the user's request, the AWS resource; `AwaitsDestruction` says whether the object stays until the AWS resource is gone |
| `ReplicationGroup` | the reconciliation of a replication group, one action per call; EXTENDS `Conditions` and `EngineVersion`, INSTANCEs `Tags` and `ResourceLifecycle` (with a refinement mapping) |
| `Runtime` | one pass of the ACK runtime, whatever the kind: the user, the queue, fetch, finalizer, patches, release, restart; EXTENDS `Conditions` |
| `CacheCluster` | the resource manager and the service of a cache cluster; EXTENDS `Runtime`, INSTANCEs `Tags` and `ResourceLifecycle` |
| `Manager` | what generated code, alike in the smaller kinds, does with the result of a read or a call; EXTENDS `Runtime`, INSTANCEs `ResourceLifecycle` |
| `User`, `UserGroup`, `CacheSubnetGroup`, `CacheParameterGroup`, `Snapshot`, `ServerlessCache`, `ServerlessCacheSnapshot` | each the manager and the service of one kind; all EXTEND `Manager` |
| `Kinds` | one resource of any of these seven kinds: their common promises, stated once; INSTANCEs the seven |
| `References` | several custom resources of any kinds that refer to each other, each with a worker of its own; a pass is reduced to resolution, creation and patch |
| `MCReplicationGroup`, `MCCacheCluster`, `MCKinds`, `MCReferences` | instances for TLC |
| `ResourceLifecycleProofs` | the abstract lifecycle is safe |
| `ReplicationGroupProofs` | type correctness, the lemmas about operators, no orphan, refinement, honest annotations, never abandoned, tags, what a pass reports, what is refused, edits that survive, panics |
| `RuntimeProofs` | what the steps of `Runtime` preserve for every kind |
| `CacheClusterProofs` | type correctness, refinement, never abandoned, what a pass reports, edits that survive, the nodes removed, the zones refused |
| `KindsProofs` | refinement and never abandoned for all seven kinds, from one contract; failed snapshots; parameters that stay |
| `KindsTruthProofs` | the same seven kinds: type correctness, what a pass reports, the access string requested, edits that survive |
| `ReferencesProofs` | type correctness, nothing resolved is stored, targets first |
| `EngineVersionProofs` | the comparison of versions is exact |

`ReplicationGroup` was written before the pass was factored out and carries history
that the pass records, so it has its own copy of the steps of `Runtime`; the plan
unites them.

## 5. How the model corresponds to the code

**Variables.** `cr` is the custom resource in Kubernetes: existence, deletion
timestamp, finalizer, spec, the two annotations, and of the status the group's
status, the scale-up list (`up`) and the conditions. `rg` is the group in AWS: its
status, the configuration in force (`cfg`), the one it is moving to (`target`)
and whether all node groups and member clusters are available (`settled`). `pc`,
`desired`, `latest` and `err` are the local variables of the pass: the copy it
started with, what the manager last returned. `queued` is membership in the
work queue. `requested` and `rolledBack` are history, read by properties only.

**A pass** is the steps `read → (manage → create → readBack | update) → patchSpec →
lateInit → patchStatus`, or `readDelete → delete → patchSpec → patchStatus`, or
`readDelete → unmanage`. A step ends at a call that leaves the process, because
that is where another party may act. What lies between two calls is one action.

| Code | Definition |
|---|---|
| `sdkFind`, `updateSpecFields`, `customSetOutput` | `sdkFind`, `updateSpecFields`, `syncedFromStatus`, `allowedScaleUp`, `foundConds` |
| `newResourceDelta`, `modifyDelta` | `newResourceDelta` |
| `sdkCreate` | `Create`, `CreateFails`, `createOutput` |
| `sdkUpdate`, `CustomModifyReplicationGroup` | `updateStep` decides; `SyncTags`, `WaitAvailable`, `RefuseNodeType`, `RefuseShards`, `Panic`, `IncreaseReplicaCount`, `DecreaseReplicaCount`, `UpdateShardConfiguration`, `ModifyVersion`, `ModifyReplicationGroup` act |
| `CustomModifyReplicationGroupSetOutput` and the other outputs | `modifyOutput`, `shardsOutput`, `setReplicationGroupOutput` |
| `sdkDelete` | `DeleteWaits`, `Delete`, `deleteOutput` |
| `updateConditions`, `onError`, `onSuccess` | `updateConditions`, `onErrorConds`, `onErrorResult`, `onSuccess` |
| `SyncTags` of `pkg/util` | `Tags!SyncTags` |

**The spec** keeps one field per way a field is handled: `cnt` (CacheNodeType),
`shards`, `replicas`, `ev` (EngineVersion), `ugs` (UserGroupIDs), `tags`, `af`
(AutomaticFailoverEnabled and MultiAZEnabled, treated alike) and `desc`, which
stands for every field that is sent as it is and holds at once. `shards`,
`replicas` and `ev` may be nil. `NodeGroupConfiguration` and `SecurityGroupIDs`
are nil in the model.

**Failures** are counted by one bound, `MaxFaults`, and enabled by kind:
`reject` (a call answers with an error, of a code that counts as terminal or not, and
changes nothing), `lost` (it is done
and its answer is lost), `read` (a read fails), `describeCacheCluster`, `crash`
(between any two steps), `rollback`, `createFailed`, `unsettled` (available while a
member is not) and `snapshot` (the group is busy by itself).

### Cache clusters

`CacheCluster` uses the pass of `Runtime`; its variables are the same, with `aws` for
the cluster. `aws.nodes[i]` is the zone of the node with id *i*, `aws.target` the nodes it
is moving to, so that `PendingModifiedValues.NumCacheNodes` is the length of `target`
when the two differ. `aws.asked` is history: the zones of the last accepted request.

| Code | Definition |
|---|---|
| `sdkFind` with `PendingModifiedValues` | `sdkFind`, `pendingNodes`, `numCacheNodes`, `foundSynced` |
| `newResourceDelta`, `modifyDelta`, `updatePAZsDelta` | `newResourceDelta` |
| `sdkCreate` | `Create`, `CreateInvalid`, `CreateFails`, `callOutput` |
| `sdkUpdate`, `updateCacheClusterPayload` | `updateStep` decides; `SyncTags`, `RefuseZones`, `ModifyCacheCluster`, `ModifyCacheClusterFails` act; `numNodes`, `nodesDelta`, `CacheNodeIdsToRemove`, `NewAvailabilityZones`, `zonesRefused` |
| `LateInitialize` | `LateInitialize`, `LateInitializeIncomplete`, `LateInitializeFails` |
| `sdkDelete` | `DeleteWaits`, `Delete`, `DeleteFails` |

The spec keeps `num` (NumCacheNodes), `azs` (PreferredAvailabilityZones, nil or a list),
`tags`, and `auto` for every field that holds as soon as the call is accepted. The
late-initialised zone is only present or not. An accepted deletion ends the pass
without an error, so the finalizer goes while the cluster is still being deleted:
cache clusters implement `ResourceLifecycle` with `AwaitsDestruction` false,
replication groups with true.

### The smaller kinds

The seven kinds use the pass of `Runtime` too. `Manager` has the forms their generated
code shares: `Observes` (a read and the comparison with the desired resource),
`ReadsBack` (the read after a creation, of which the runtime keeps the status),
`Answers` (an accepted call, whose answer may be lost), `Refused`, `GivesUp` (no call,
an error), `Deletes`. Each names what `onSuccess` and `onError` do to the conditions
with it. `aws.status` is "none" when the service has no resource. A module for a
kind has `sdkFind`, `newResourceDelta` (with the custom comparisons of its
`delta_pre_compare` hooks), the result of each call and the branches of its update.

| Kind | What its module keeps of the data | Its own definitions |
|---|---|---|
| User | the access string as a text, expanded or not; the authentication type asked for and answered | `newResourceDelta` with `filterDelta`, `callOutput` with `Status.LastRequestedAccessString`, `ModifyWaits`, `ModifyUser` |
| UserGroup | the users, those being added and removed | `patchUserGroupPendingChanges`, `userIdsToAdd`, `userIdsToRemove`, `requeueWaitUntilCanModify` |
| CacheSubnetGroup | description, subnets | `callOutput`, `ModifyCacheSubnetGroup` |
| CacheParameterGroup | a list of parameters in the spec, a map at the service, listed in an order of its own; `latest.done` is what the running update has dealt with | `wanted`, `present`, the three differences of `provideDelta`, `resetAllParameters`, `resetParameters`, `saveModified`, `saveAdded`, `UpdateDone` |
| Snapshot | the cluster it is of, the snapshot it is copied from | `CustomUpdateConditions`, `RefuseSources`, `CopySnapshot`, `CreateSnapshot`, `customUpdateSnapshot` |
| ServerlessCache | one field for each way a field is handled: a text, tags, a limit narrowed to 32 bits, subnets nobody modifies | `int32` (with `Width` values), `Fits`, `Turn` (the order of the fields), one action per field |
| ServerlessCacheSnapshot | the key, the tags | `createOutput`, `syncTags`, `TakeBack` |

### References

`object` are the custom resources, `aws` their AWS resources (reduced to none, busy and
available), `ever` those that ever had one, `pass` the pass of each worker with its copy
`ko` and the references `done` in it, `queued` the work queue. `FieldsOf` lists, per kind,
the fields in the order `ResolveReferences` takes them. The world a run starts in
assigns kinds to objects.

| Code | Definition |
|---|---|
| `ResolveReferences`, `resolveReferenceFor...` | `NextReferences`, `Resolve`, `ResolveFails`, `Added` |
| `getReferencedResourceState_...` | `getReferencedResourceState` |
| `validateReferenceFields` | `validateReferenceFields`, after the resolution as in the code |
| `ClearResolvedReferences` | `ClearResolvedReferences`, at the patch |

A reference names an object, and namespaces are left out. The references of one list
are resolved in any order.

### Engine versions

A version is a sequence of one to three numbers, with -1 for "x"; `minorNumber` and
`EngineVersionsMatch` are the functions of `pkg/util/engine_version.go` on these.

### External parts

They are marked as such in `PROJECT.json`: the order of calls, the
merge patches, `ensureConditions` and the requeue rule of the runtime; the service
(a modification is accepted only while available or active; it takes effect later; a
resource can be deleted while it is stable, or failed).

## 6. Runs

`CHECK_DEADLOCK FALSE` in every run: the system may really stop, when the resource
is gone, or Terminal, and the user has no edit left.

| Run | Question | Instance | Result |
|---|---|---|---|
| `rg_scaling` | two edits of node type or shards, removal of the shard count, one rollback: are the annotations honest, is a refusal due to a rollback, does Synced tell the truth? | 3 node types, 2 shard counts | holds, 69,946 states |
| `rg_faults` | one edit and any two failures of any kind: is a group ever without its resource, a resource dropped; is every step one of the lifecycle; how far does a stale response reach? | 9 kinds of failure | holds, 509,849 states |
| `rg_tags` | two edits of two tags, a lost answer or a restart: are kept tags kept, do tags converge? | 2 keys, 2 values | holds, 185,401 states |
| `rg_liveness` | under fairness and one failure of any kind: does a deletion complete, does the group get the spec, do the annotations stay honest over a restart? | 2 edits, of replicas and node type | holds, 81,599 states |
| `cc_scaling` | two edits of node count, zones or tags at any step: do removals name the last nodes, are only new zones refused, does Synced tell the truth, does every edit survive? | 3 nodes, 1 zone, 1 tag | holds, 302,855 states |
| `cc_faults` | one edit and any two failures: is a cluster ever without its resource, a resource dropped; under fairness, does it get its spec, does a deletion complete? | 6 kinds of failure, 2 nodes | holds, 230,974 states |
| `kinds` | any of the seven smaller kinds, one edit of any field, one failure: does each keep the common promises, and its own? | 7 kinds, 6 kinds of failure | holds, 314,957 states |
| `references` | three resources made in any order, one edited or deleted, one creation refused or pass interrupted: does everything wait for what it needs, and no longer? | 2 worlds: a cycle with a list, a required list | holds, 144,502 states |
| the 4 runs of section 9 | does the code do what its comment says? | the smallest that can tell | violated |

**Why the bounds are enough.** Three node types are the least with which "scale up",
"scale down", "rolled back to" and "a third one" are distinct. Two shard counts and
two replica counts give both directions. Two edits are the least for "edit while a
pass is in flight, then take it back"; two failures the least for "a failure while
recovering from one". Two keys with two values give a key added, removed, changed
and kept in one difference. In `rg_scaling` the shard count may also be nil, so
that the branch that dereferences it is reached and its passes are part of every
invariant. Three nodes are the least for a pending addition and a new removal that
leaves a node; one zone is enough where only the lengths of lists count (the refusal
and the count), two where it matters which zone a node is in (`cc_zones`).
`cc_scaling` has no rollback: when the service gives up an addition between the read and
the call, the ids to remove are counted from nodes that never came, the service
rejects the call, and the resource may become Terminal; `cc_faults` includes it, where
`Converges` counts Terminal as an answer.

In `kinds`, three parameters with batches of two are the least with a full batch, a rest
and a failure between them; the lists of `MCKinds` have a parameter added, changed,
removed, reordered and left empty. A width of 8 stands for 32 bits, with one limit that
fits and one that does not. One edit takes a resource from any of its specs to any other
one; a second only lengthens the histories, with one exception that is a finding:
for users, two edits and a lost modification refute `SyncedTellsTheTruth` by way of
`RequestedIsInForce` (section 9). In `references`, three objects are the least for a chain with a
middle, and for a list of two; the worlds are chosen so that chains, a list, a cycle, and
references by the target's spec and by its status occur.

**What the properties say.** `NoOrphan`: a group never exists without an object that
carries the finalizer. `AnnotationsHonest`: an annotation names only a value that
was sent. `RefusalMeansRollback`: with no restart and no lost answer, a node type
is refused only if AWS rolled it back. `SyncedTellsTheTruth`: a pass that ends without
error and with Synced=True leaves the group with the configuration the pass was asked for, with its
tags if the pass read them, and with its version unless the read of that failed. It
makes no difference whether the pass ended with a read or with the answer of a call: both
derive Synced from the status in what they received (`syncedFromStatus`). The one
exception is a group that could not be created, which the code calls synced
(`hooks.go:231`). `NeverAbandoned`: off the queue only with
Terminal. `KeptTagsStay`: a tag of both the old and the new intent never leaves the
group. `OtherEditsSurvivePatch`: of the edits made during a pass, the patch of the
spec never takes back one of shards, replicas, version, failover or tags (it may one of the
node type, section 9). `Converges`: once the user stops, the spec is realised or the code has
given it up, for one of the five reasons `GivenUp` names. `DeletionCompletes`: a deleted
resource goes, and its AWS resource with it, unless the deletion was tried and its error is
one of those `terminalAWSError` lists. Then the resource keeps its finalizer, is Terminal
and is not tried again (`DeletionRefused`); a Terminal condition from before the
deletion does not count, for the request to delete puts the resource on the queue.
`ImplementsLifecycle`: refinement.

Of a cache cluster: `RemovesTheLastNodes`: while no addition is rolled back, the ids a
removal sends are exactly the last nodes the cluster has when the call arrives, whatever
was pending when the count was read. `RefusalMeansNewZones`: zones are refused as a
change only if they differ from those of the last accepted request, as long as no answer
or pass is lost.
`EditsSurvivePatch`: an answer, with the pending count merged in, never replaces what
the user wrote meanwhile. The hazard is that `sdkUpdate` returns a copy of `desired`
with fields of the response, and the runtime patches the difference into the spec.

Of the smaller kinds: `SyncedTellsTheTruth` says for each kind what a pass that ends
with Synced=True may claim about the service, which is less for some kinds than for
others: a snapshot that has ended; tags that were read, unless the snapshot
failed. Of a serverless cache it says: description and limit are those asked for, and so are
the tags unless a read of them failed and the error was dropped; the subnets are those asked
for, or the user asked for none and those the service chose have reached the stored spec,
so that the next pass does not find them different. `DeletionCompletes` is as above with
one more exception, of the code's own making: a failed snapshot is Terminal by its
status, and any error of its deletion, also one that would pass, ends the attempts
(`FailedSnapshotGivenUp`). `Converges` allows Terminal and what the module of the kind names as beyond the
manager (`OutOfReach` of a serverless cache; a conflict of snapshot sources).
`FailedIsTerminal`: no success of any pass clears the condition of a failed snapshot, as
it does for other kinds. `KeptParametersStay`: a reset or a batch, late or repeated, never
disturbs a parameter that is as wanted. `EditsSurvivePatch`: what a user or subnet group
answers, pending users included, replaces no edit.

Of references: `StoredIDsAreTheUsers`: a resolved identifier is never stored, whatever the
user edits during the pass; it would make `validateReferenceFields` refuse the
resource for good. `TargetsMadeFirst`: a resource is created only after every resource its
spec refers to, whatever the order of the workers. `WaitingEnds`: whatever can be worked
off is, and a target that was not ready is asked again.

## 7. Fairness

`FairSpec` assumes two weak fairness conditions, on the whole controller and on the
whole progress of the service.

- `WF(Controller)`: a worker takes every queued resource sooner or later and a pass
  does not stop between two steps. controller-runtime guarantees the first; the
  second is that a call answers or fails. The fairness is on the disjunction: it does
  not say that any particular outcome of a call is ever chosen.
- `WF(AwsProgress)`: the service ends what it has begun (creating, modifying,
  snapshotting, deleting). `sdkUpdate` and `sdkDelete` requeue until it does; without
  it nothing converges whatever the controller does.

`Kinds` assumes the same two of the kind at hand. In `References` every object has a
worker of its own, hence one condition `WF(Reconcile(o))` per object: a resource that fails
to resolve again and again does not starve the one it waits for. Kinds do have
separate controllers; two resources of one kind share a queue that serves in
turn.

Nothing is assumed of the user, of failures or of restarts: they may or may not
happen. They are bounded, which is why `Converges` is of the form `<>[]`.

## 8. Proofs

The theorems about replication groups hold for every set of node types, shard counts, replica counts,
versions, tags and specs that satisfies `RGAssumption` (the numbers are integers, the
nil value is none of them, initial specs are specs), and for any number of edits
and failures: `MaxEdits` and `MaxFaults` are only known to be naturals.

- `TypeCorrect`: `Spec => []TypeOK`. `TypeOK` is inductive. The lemmas before it say
  what each operator returns (`updateConditionsType`, `SyncTagsType`, `sdkFindType`,
  `setReplicationGroupOutputType`...); then one lemma per group of actions.
- `NoOrphanTheorem`, `DeletedOnRequestTheorem`: neither is inductive. A group is
  created at the end of a chain (read says NotFound, finalizer is put on, call), and
  the object goes at the end of another. `LifecycleInv` adds what each step of the
  chain knows: the finalizer holds the object (`FinalizerHolds`), at "create" the
  finalizer is on and there is no group (`CreatesBehindFinalizer`), and a deletion
  pass was asked for and is still held by the finalizer, with nothing left at
  "unmanage" (`DeletesOnRequest`). All but seven kinds of steps leave the mapped
  state alone (`QuietStep`) or are a `Milestone`; `QuietOrMilestone` proves the
  split once, and both the invariant and the refinement use it.
- `Refinement`: `Spec => Lifecycle!Spec`. Every milestone is one step of the
  lifecycle or none.
- `AnnotationsHonestTheorem`: strengthened to `HonestInv`, the same about all three
  copies of the annotations. Steps either copy annotations (`AnnotationsCopied`)
  or make a request and record it (`RequestsHonest`).
- `NeverAbandonedTheorem`: strengthened to `QueueInv`: no error is pending before the
  end of a pass, and a terminal one always comes with its condition.
- `SyncedTellsTheTruthTheorem`: while a group is at rest (available, with nothing to move
  to), what a read told about it stays true, whoever acts (`FoundInv`); each call of an
  update then either claims nothing, because the group it answers with is not at rest and
  Synced is recomputed from it, or leaves the pass with what was asked for (`ClaimsInv`).
  It holds for any failures, but two hypotheses
  are needed. Nobody edits the user groups: they are compared but never sent
  (`sdk.go:1181`, section 9), so the report of an edited one is false; without edits they are
  the same in every copy (`SameUserGroups`). And every wanted version says enough
  (`SaysEnough`): before version 6 it is given in full or ends in "x". "5.0" matches no
  release, not even 5.0.6, so it is asked for again with every update. The service has it and
  answers that it is available, and the pass reports Synced while a difference of another
  field, which comes after the version, has not been sent. (Give `MCReplicationGroup`
  the versions 5.0 and 5.0.6 and edits of `ev` and `cnt`: the invariant fails.)
- `RefusalMeansRollbackTheorem`: a node type is refused only after the service gave it up.
  `RecordInv` says where the annotations are at each step of a pass, in the resource
  or in the result that is to be patched, and that the node type in them is the one
  the group is getting, or was rolled back (`InForce`). It supposes that no answer is lost and
  no pass interrupted: either leaves an older annotation in force (section 9).
- `OtherEditsSurvivePatchTheorem`: no response of any call changes the five fields
  (`KeptInv`), whatever the failures.
- `NoPanicTheorem`: an update does not panic if nobody edits the number of shards.
  `rg_stale_shards` shows what an edit does. The number is then the same in every copy and
  in the group (`SameShards`), and so is the one recorded (`RecordedShards`).
- `KeptTagsStayTheorem` needs only `TypeOK`: by the differences alone, no call that
  `SyncTags` makes takes away a tag that is wanted. `SyncTagsConverges`: from any tags,
  two calls of it reach the wanted ones, and a third changes nothing.
- Cache clusters (`CacheClusterProofs`), for every bound on the nodes, every set of
  zones and tags, and any number of edits and failures (`CCAssumption`,
  `RuntimeAssumption`): `TypeCorrect`, `Refinement` and `NeverAbandonedTheorem`.
  `TypeOK` is not inductive here: a read puts the length of the service's list of nodes
  into the spec, where zero is no count, so `TypeInv` adds that a cluster that is there
  has nodes and moves to some. The steps of the runtime are handled once, in
  `RuntimeProofs`, for any type of spec, annotation and status: `QuietInductive`,
  `RuntimeQuiet` and `RuntimeMilestones` for the lifecycle, `OthersQueue` and
  `RuntimeQueue` for the work queue. A module for a kind proves only what its own calls
  do: that they are quiet, or one of four milestones, and that each ends with an error
  its conditions show (`ManagerGoesOn`).
- `SyncedTellsTheTruthTheorem` and `EditsSurvivePatchTheorem` of cache clusters hold for
  any failures. What they rest on is `ReportInv`: a cluster that is available has all
  it was asked to have (`StaysPut`); what a call answers has the count the pass asked for
  (`AnswersAsAsked`) and says that it is not synced (`NotSyncedYet`); and a pass that has
  come to its end without an error knows count, tags and upgrades of the service
  (`SyncedIsTrue`). Two hypotheses are needed elsewhere, and TLC has a counterexample
  without each: `RemovesTheLastNodesTheorem` supposes that no addition is rolled back
  (`"rollback" \notin FaultKinds`), `RefusalMeansNewZonesTheorem` that no answer, read or
  pass is lost (`NothingLost`), because its invariant `OnRecord` says that the annotation
  in force records the last request.
- The smaller kinds (`KindsProofs`), for all values of the constants: what the
  service or the manager of a kind may do is one contract, `Step`, of calls
  (`Call`: what a result, its conditions and its error have to be), steps of the runtime
  (`RuntimeStep`) and of the service. `KindsInv` is inductive under the contract alone;
  it joins the shape of the records, the chain behind a creation and a deletion
  (`LifecycleInv`, `Live`) and the queue (`QueueInv`). Per kind there remain four
  lemmas: `<Kind>Inherits` and `<Kind>Runtime`, that what the instance took over from
  `Manager` and `Runtime` is what this module knows under that name (an instance's
  operators are definitions of their own to a prover), `<Kind>Results`, the conditions
  of its results, and `<Kind>Contract`, that its next-state relation keeps to the
  contract. `NeverAbandonedTheorem` and `ImplementsLifecycleTheorem` follow for all seven
  at once. `FailedIsTerminalTheorem` needs `FailedInv` besides: the stored resource, the
  latest one of a pass and the desired one of a deletion are Terminal where their status
  is failed, and the service's status agrees until the deletion.
  `KeptParametersTheorem` is by the differences alone: each call sends names of one of
  three disjoint sets.
- What the smaller kinds report (`KindsTruthProofs`). The constants have to be what they
  stand for (`KindsAssumption`): nil is no access string, there are finitely many names of
  parameters, the empty string is none of their values, a limit narrowed to 32 bits is a
  limit. `TypeCorrect` needs a type per kind (`<Kind>Type`), and of parameter groups
  that a service's listing is a list that sets what it lists (`ListedParameters`, from the
  bijection behind `SetToSeq`). `SyncedTellsTheTruthTheorem` needs what a pass knows of the
  service between its read and its report, `<Kind>Truth`: from the read to the update the
  latest resource is what the service has; at the end of a pass without an error
  (`Concluding`) the service has, or is about to have, what the desired resource asks for.
  For a parameter group the state between two calls of an update matters: the service
  agrees with what is wanted on the names dealt with, and with what was read on the others
  (`CacheParameterGroupTruth`, `UpdatesAgree`). The steps of the runtime preserve all of them
  by one lemma, `RuntimeTruth`; a call that fails concludes nothing (`FailuresConclude`).
  A user's access string is compared with the one last requested, so for users the
  theorem supposes that no answer is lost and no pass interrupted (`NothingLost`), and so
  does `RequestedIsInForceTheorem`: `UserRecords` follows the record from the call through
  the patch to the next pass. `user_lost_request` (section 9) shows that it is needed.
  `EditsSurvivePatchTheorem` follows from the same invariants.
- References (`ReferencesProofs`), for any objects, any assignment of kinds, edits and
  failures: `TypeCorrect`; `ResolvedIsNotStored` and `TargetsFirst` from `SafetyInv`,
  which adds to `StoredIDsAreTheUsers` that what is Synced without being Terminal has
  been made (`MadeInv`), and what the copy of a pass may differ in from the spec it
  began with (`PassInv`). Neither theorem needs that references form no cycle.
- `EngineVersionsMatchIsExact` (`EngineVersionProofs`): for every version of one to three
  numbers and every release, `EngineVersionsMatch` says yes exactly when the version says
  enough (`SaysEnough`, above) and the service may install the release for it. So a change
  of the user is never taken for a choice of the service. The converse fails for the
  versions that do not say enough: "5.0" matches no release, not even the one that was
  installed for it, and the update to it is asked for again and again.
- `LifecycleSafe` (`ResourceLifecycleProofs`): the abstract specification never
  orphans, and destroys on request only.

**Only model-checked:** liveness (`Converges`, `DeletionCompletes`, `WaitingEnds`). The
provers have no rule for fairness. Every invariant and every action property of a
passing run is the subject of a theorem. The theorems that need a hypothesis about
failures or edits say so in their statement. Where the hypothesis excludes what the code
gets wrong, the run or the entry of section 9 that shows it is named above. The runs
are complementary: some include the failures that a theorem excludes.

## 9. What disagrees with its comments

Each is a run of its own, with a counterexample, and a finding in `PROJECT.json`
that quotes the line.

| Run | Comment | What the code does |
|---|---|---|
| `rg_stale_response` | stale data of a response must not be merged into desired | the replica and shard calls return the response's node type; the patch overwrites the user's edit |
| `rg_stale_shards` | on a decrease, provide the node groups to retain, guarded by a test for nil | they are indexed in the list the pass before stored; a count edited down during the creation indexes past its end, and every later pass panics again |
| `cc_zones` | new zones "must match the number of cache nodes being added" | the loop over the new suffix indexes the whole list: added nodes get the first zones of the list |
| `user_lost_request` | a difference is dropped "as long as the last requested AccessString matches the currently desired one" | the record is patched after the call: with the result lost, it names the string before, and an edit back to that is never sent |

Other disagreements are visible in the model and have no run of their own.

Replication groups:

- create-failed "is a terminal state" and will not be requeued (`sdk.go:497`), but
  `onSuccess` clears the Terminal condition in the same pass, and the group is requeued.
- "no value in annotation or in Spec" (`hooks.go:1224`, `1238`): nil is dereferenced when
  the annotation has a value and the spec does not. `rg_scaling` runs through it: each
  pass panics, and the resource stays on the queue.
- "User groups to add", "to remove" (`sdk.go:1181`, `1187`, `1210`): the block asks the
  delta for `UserGroupIDs`, which has `Spec.UserGroupIDs`; user groups are never changed.
- "We have already attempted to apply the CacheNodeType once and were not successful"
  (`hooks.go:519`): after a restart or a lost answer between `ModifyReplicationGroup` and the
  patch, the annotation names the node type before, and an edit back to that one is
  refused, although nothing was rolled back. (Give `rg_scaling` the `FaultKinds` "lost" and
  "crash": `RefusalMeansRollback` fails.)
- The error of a refused node type or shard count is of the version 1 SDK, is not
  recognised as terminal and is requeued, where the comment says "we will set a terminal
  condition" (`hooks.go:520`).
- With a stored status of "modifying" the tags are not read (`sdk.go:463`), so another
  update goes before them.
- "Update ko.Spec with the latest observed value": `setNodeGroupConfiguration`
  (`hooks.go:1270`) appends nothing to the list it stores (not modelled).
- The test for "x" in a version is case-sensitive where equality is not; an empty
  engineVersion panics (`engine_version.go:36`).

Cache clusters:

- Zones "can only be changed when new nodes are being added", by the annotation of the
  last request (`hooks.go:120`). After a restart or a lost answer between call and patch
  the accepted zones are refused as a change, and the resource is Terminal. (Give
  `cc_scaling` the `FaultKinds` "crash" and "lost" with `MaxFaults` 1:
  `RefusalMeansNewZones` fails.)
- The version in an answer replaces the one in the spec (`sdk.go:1113`), and `sdkUpdate`
  merges only the pending count, node type and transit encryption back (`sdk.go:1243`): an
  edit of the version can be taken back (not modelled).

The smaller kinds:

- ServerlessCache: a lost answer of the creation leaves the subnets different for ever,
  and the resource is requeued for ever. A description that is cleared blocks every
  later field. A creation checks that a limit fits 32 bits, a modification does
  not. Errors of modifications are wrapped and never terminal. When tags cannot be read
  the error is dropped, and Synced may be reported although tags differ.
- User: the service answers "no-password" for "no-password-required"; it is patched into
  the spec and refused with the next modification. A deletion while the user is being
  created or modified is answered with InvalidUserState, which counts as terminal
  (`user/sdk.go:674`): it is given up, although it would succeed a moment later.
- CacheParameterGroup, CacheSubnetGroup, User, UserGroup, Snapshot: an edit of tags does
  nothing. An edit of a parameter group's description is taken back.
- Snapshot: the conflict of sources is of the version 1 SDK and is retried for ever. A
  failed snapshot whose deletion fails once, with any error, is Terminal and is not tried
  again.
- UserGroup: `requeueWaitUntilCanModify` (`sdk.go:314`) returns a typed nil, which is not
  a nil error, when the status is nil.

References: resources in a cycle wait for ever, without a Terminal condition. A Terminal
resource is also Synced, so only the test of Terminal keeps it from being used. A
resource that fails its own resolution, or is deleted, makes those that refer to it
unsynced, although their AWS resources are untouched.

## 10. What is not modelled

- Node group configuration (`setNodeGroupConfiguration`), log delivery configuration,
  security groups, auth tokens and secrets of a replication group. Part of the plan.
- `ListAllowedNodeTypeModifications` fails (`hooks.go:262`): the list of node types is then
  the one stored before.
- Of a cache cluster: EngineVersion, CacheNodeType and TransitEncryptionEnabled as pending values, auth
  tokens, security groups, log delivery, the snapshot it is restored from.
- Of a serverless cache: the fields that are handled like one that is modelled.
- Events of parameter and subnet groups, which nothing depends on.
- Concurrency of two passes over one resource: controller-runtime's work queue excludes
  it. Two resources meet only in `References`, whose passes are reduced: it has
  no modification of an AWS resource and no failing deletion, and no answer that writes an
  identifier the service chose into a field that may hold a reference (the subnets
  of a serverless cache).
- Namespaces of references; the fields that hold references to secrets.
- `common/delta` by its effect only; the nesting of paths, which no caller has.
- Wording of messages, events, metrics, logging.
- Generated converters that copy field by field: they are one record update. The deep
  copies of `apis` have no counterpart: values of TLA+ are immutable.
- `cmd/controller` (flags and wiring), Helm and OLM files, end-to-end tests.

## 11. Plan

Modelled so far: all nine kinds, the references between them, and the helpers. In order
of importance there remain:

1. `ReplicationGroup` on `Runtime`, with node group configuration, so that its annotations
   and those of `CacheCluster` are handled by one set of lemmas.
2. `CacheCluster`: node type and transit encryption as pending values.
3. Log delivery configurations and security groups, which both kinds compare with
   pending or expanded values.
4. `References` with deletion refused by the service while a target is in use.

Theorems to add, as the model grows: the same promises for the fields of items 1 to 3; and
with item 1, the truth of reports and the honesty of annotations of replication groups and
cache clusters from one set of lemmas. Convergence stays with TLC.
