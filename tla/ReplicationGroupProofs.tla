----------------------- MODULE ReplicationGroupProofs -----------------------
(***************************************************************************)
(* Theorems about ReplicationGroup, for every value of its constants.      *)
(***************************************************************************)
EXTENDS ReplicationGroup, EngineVersionProofs, TLAPS

-----------------------------------------------------------------------------
(* What the operators return. *)

(* updateConditions keeps a condition record one. *)
LEMMA updateConditionsType ==
  ASSUME NEW c \in Conds, NEW e \in Errors
  PROVE  /\ updateConditions(c, e) \in Conds
         /\ onErrorConds(c, e) \in Conds
         /\ onSuccess(c) \in Conds
         /\ onErrorResult(c, e) \in Errors
         /\ ensureConditions(c, e) \in Conds
  BY DEF Conds, CondStatus, Errors, updateConditions, onErrorConds, onSuccess,
         onErrorResult, ensureConditions, ensureConditionsBy, terminalAWSError, Cleared

(* SyncTags turns a tag collection into a tag collection. *)
LEMMA SyncTagsType ==
  ASSUME NEW d \in T!TagMaps, NEW l \in T!TagMaps, NEW a \in T!TagMaps
  PROVE  T!SyncTags(d, l, a) \in T!TagMaps
<1>1. PICK D \in SUBSET TagKeys : d \in [D -> TagValues]
  BY DEF T!TagMaps
<1>2. PICK A \in SUBSET TagKeys : a \in [A -> TagValues]
  BY DEF T!TagMaps
<1>3. T!ToAdd(d, l) \subseteq D
  BY <1>1 DEF T!ToAdd, T!DifferenceAdded
<1>4. T!AddTagsToResource(a, T!ToAdd(d, l), d)
        \in [A \cup T!ToAdd(d, l) -> TagValues]
  <2>1. DOMAIN a = A
    BY <1>2
  <2>2. \A k \in A \cup T!ToAdd(d, l) :
          (IF k \in T!ToAdd(d, l) THEN d[k] ELSE a[k]) \in TagValues
    BY <1>1, <1>2, <1>3
  <2> QED
    BY <2>1, <2>2 DEF T!AddTagsToResource
<1>5. A \cup T!ToAdd(d, l) \in SUBSET TagKeys
  BY <1>3
<1>6. T!RemoveTagsFromResource(a, T!ToRemove(d, l))
        \in [A \ T!ToRemove(d, l) -> TagValues]
  BY <1>2 DEF T!RemoveTagsFromResource
<1>7. A \ T!ToRemove(d, l) \in SUBSET TagKeys
  OBVIOUS
<1> QED
  BY <1>4, <1>5, <1>6, <1>7 DEF T!SyncTags, T!TagMaps

(* What a custom resource and a resource the manager returned have alike. *)
Described(r) == /\ r.spec \in Specs /\ r.ann \in Annotations
                /\ r.status \in RGStatus \cup {"none"}
                /\ r.up \in SUBSET NodeTypes /\ r.cond \in Conds

LEMMA RecordsDescribed ==
  /\ \A r \in CRs : Described(r)
  /\ \A r \in Observations : Described(r)
  BY DEF CRs, Observations, Described

LEMMA allowedScaleUpType ==
  ASSUME NEW g PROVE allowedScaleUp(g) \in SUBSET NodeTypes
  BY DEF allowedScaleUp

LEMMA groupsOfType ==
  ASSUME NEW g \in Groups PROVE groupsOf(g) \in ShardCounts \cup {0}
  BY DEF groupsOf, hasGroups, Groups, Configs

(* sdkFind returns a well-formed resource. *)
LEMMA sdkFindType ==
  ASSUME TypeOK, NEW r, Described(r), NEW ccFound \in BOOLEAN
  PROVE  sdkFind(r, ccFound) \in Observations
<1>1. rg.cfg \in Configs /\ rg.status \in RGStatus \cup {"none"} /\ rg.settled \in BOOLEAN
  BY DEF TypeOK, Groups
<1>2. updateSpecFields(r.spec, ccFound) \in Specs
  BY <1>1 DEF updateSpecFields, Described, Specs, Configs, Releases
<1>3. [updateSpecFields(r.spec, ccFound) EXCEPT
         !.cnt = rg.cfg.cnt, !.desc = rg.cfg.desc, !.ugs = rg.cfg.ugs,
         !.tags = IF ReturnsEarly(r) THEN @ ELSE rg.cfg.tags] \in Specs
  BY <1>1, <1>2 DEF Specs, Configs
<1>4. foundConds(r) \in Conds
  BY DEF foundConds, syncedFromStatus, Described, Conds, CondStatus
<1>5. onSuccess(foundConds(r)) \in Conds
  BY <1>4, updateConditionsType DEF Errors
<1>6. rg.cfg.af \in BOOLEAN
  BY <1>1 DEF Configs
<1>7. groupsOf(rg) \in ShardCounts \cup {0}
  BY groupsOfType DEF TypeOK
<1> QED
  BY <1>1, <1>3, <1>5, <1>6, <1>7, allowedScaleUpType DEF sdkFind, Observations, Described

LEMMA asLatestType ==
  ASSUME NEW r \in CRs PROVE asLatest(r) \in Observations
  BY DEF asLatest, CRs, Observations, Specs

(* A failing operation leaves a well-formed result behind. *)
LEMMA FailWithType ==
  ASSUME TypeOK, NEW r \in Observations, NEW e \in Errors, FailWith(r, e)
  PROVE  /\ latest' \in Observations /\ err' \in Errors
         /\ pc' \in Steps /\ desired' \in CRs
<1>1. r.cond \in Conds
  BY DEF Observations
<1>2. onErrorConds(r.cond, e) \in Conds /\ onErrorResult(r.cond, e) \in Errors
  BY <1>1, updateConditionsType
<1> QED
  BY <1>2 DEF FailWith, Observations, Steps, TypeOK

LEMMA setReplicationGroupOutputType ==
  ASSUME NEW d, Described(d), NEW g \in Groups
  PROVE  setReplicationGroupOutput(d, g) \in Observations
<1>1. g.cfg \in Configs /\ g.cfg.af \in BOOLEAN
  BY DEF Groups, Configs
<1>2. [d.spec EXCEPT !.cnt = g.cfg.cnt, !.desc = g.cfg.desc, !.ugs = g.cfg.ugs] \in Specs
  BY <1>1 DEF Specs, Configs, Described
<1>3. groupsOf(g) \in ShardCounts \cup {0}
  BY groupsOfType
<1>4. [d.cond EXCEPT !.synced = syncedFromStatus(g)] \in Conds
  BY DEF Described, Conds, CondStatus, syncedFromStatus
<1> QED
  BY <1>1, <1>2, <1>3, <1>4, allowedScaleUpType
  DEF setReplicationGroupOutput, Groups, Observations, Described

(* onSuccess keeps a result well-formed. *)
LEMMA SucceededType ==
  ASSUME NEW r \in Observations
  PROVE  [r EXCEPT !.cond = onSuccess(@)] \in Observations
<1>1. onSuccess(r.cond) \in Conds
  BY updateConditionsType DEF Observations, Errors
<1> QED
  BY <1>1 DEF Observations

LEMMA setOutputType ==
  ASSUME TypeOK, NEW g \in Groups
  PROVE  setOutput(g) \in Observations
<1>1. setReplicationGroupOutput(desired, g) \in Observations
  BY RecordsDescribed, setReplicationGroupOutputType DEF TypeOK
<1> QED
  BY <1>1, SucceededType DEF setOutput

-----------------------------------------------------------------------------
(* Type correctness. *)

LEMMA InitType == Init => TypeOK
<1>1. NoConds \in Conds
  BY DEF NoConds, Conds, CondStatus
<1> QED
  BY <1>1, RGAssumption DEF Init, TypeOK, CRs, Groups, Observations, Steps, Errors,
     Annotations, RGStatus, Specs

LEMMA UserType == TypeOK /\ User => TypeOK'
<1> SUFFICES ASSUME TypeOK, User PROVE TypeOK'
  OBVIOUS
<1>1. CASE UserEdit
  BY <1>1 DEF UserEdit, TypeOK, CRs, ctlVars, histVars
<1>2. CASE UserDelete
  BY <1>2 DEF UserDelete, TypeOK, CRs, ctlVars, histVars
<1> QED
  BY <1>1, <1>2 DEF User

LEMMA AwsType == TypeOK /\ (AwsProgress \/ AwsMay) => TypeOK'
<1> SUFFICES ASSUME TypeOK, AwsProgress \/ AwsMay PROVE TypeOK'
  OBVIOUS
<1> USE DEF TypeOK, Groups, RGStatus, crVars, ctlVars, histVars, Fault
<1>1. CASE AwsCreated           BY <1>1 DEF AwsCreated
<1>2. CASE AwsCreateFailed      BY <1>2 DEF AwsCreateFailed
<1>3. CASE AwsApplied           BY <1>3 DEF AwsApplied
<1>4. CASE AwsAppliedUnsettled
  <2>1. rg' \in Groups
    BY <1>4 DEF AwsAppliedUnsettled
  <2> QED
    BY <1>4, <2>1 DEF AwsAppliedUnsettled
<1>5. CASE AwsSettled           BY <1>5 DEF AwsSettled
<1>6. CASE AwsRolledBack
  <2>1. rg.target.cnt \in NodeTypes
    BY DEF Configs
  <2>2. rg' \in Groups
    BY <1>6 DEF AwsRolledBack
  <2>3. rolledBack' \in SUBSET NodeTypes
    BY <1>6, <2>1 DEF AwsRolledBack
  <2> QED
    BY <1>6, <2>2, <2>3 DEF AwsRolledBack
<1>7. CASE AwsSnapshotStarts    BY <1>7 DEF AwsSnapshotStarts
<1>8. CASE AwsSnapshotEnds      BY <1>8 DEF AwsSnapshotEnds
<1>9. CASE AwsDeleted           BY <1>9 DEF AwsDeleted
<1> QED
  BY <1>1, <1>2, <1>3, <1>4, <1>5, <1>6, <1>7, <1>8, <1>9 DEF AwsProgress, AwsMay

(* The steps of a pass up to the update. *)
LEMMA PassType ==
  ASSUME TypeOK,
         \/ Fetch \/ FetchGone \/ ReadOne \/ ReadOneNotFound \/ ReadOneFails
         \/ Manage \/ Create \/ CreateFails \/ ReadBack \/ ReadBackFails
  PROVE  TypeOK'
<1> USE DEF crVars, ctlVars, histVars, Fault
<1>1. CASE Fetch
  <2>1. NoConds \in Conds
    BY DEF NoConds, Conds, CondStatus
  <2> QED
    BY <1>1, <2>1 DEF Fetch, TypeOK, CRs, Steps, Errors
<1>2. CASE FetchGone
  BY <1>2 DEF FetchGone, TypeOK
<1>3. CASE ReadOne
  <2>1. \A b \in BOOLEAN : sdkFind(desired, b) \in Observations
    BY sdkFindType, RecordsDescribed DEF TypeOK
  <2> QED
    BY <1>3, <2>1 DEF ReadOne, TypeOK, Steps
<1>4. CASE ReadOneNotFound
  BY <1>4 DEF ReadOneNotFound, TypeOK, Steps
<1>5. CASE ReadOneFails
  <2>1. asLatest(desired) \in Observations
    BY asLatestType DEF TypeOK
  <2>2. "awsOther" \in Errors
    BY DEF Errors
  <2> QED
    BY <1>5, <2>1, <2>2, FailWithType DEF ReadOneFails, TypeOK
<1>6. CASE Manage
  <2>1. [cr EXCEPT !.fin = TRUE] \in CRs /\ [desired EXCEPT !.fin = TRUE] \in CRs
    BY DEF TypeOK, CRs
  <2>2. CASE cr.exists
    BY <1>6, <2>1, <2>2 DEF Manage, TypeOK, Steps
  <2>3. CASE ~cr.exists
    BY <1>6, <2>3 DEF Manage, TypeOK, Steps
  <2> QED
    BY <2>2, <2>3
<1>7. RequestCreate => requested' \in [cnt : SUBSET NodeTypes, nng : SUBSET ShardCounts]
  BY DEF RequestCreate, TypeOK, CRs, Specs
<1>8. CASE Create
  <2>1. rg' \in Groups
    <3>1. PICK c \in Configs : rg' = [status |-> "creating", cfg |-> c, target |-> c,
                                     settled |-> TRUE]
      BY <1>8 DEF Create, Creating
    <3> QED
      BY <3>1 DEF Groups, RGStatus
  <2>2. createOutput(desired, rg') \in Observations
    <3>1. setReplicationGroupOutput(desired, rg') \in Observations
      BY <2>1, RecordsDescribed, setReplicationGroupOutputType DEF TypeOK
    <3>2. onSuccess(setReplicationGroupOutput(desired, rg').cond) \in Conds
      BY <3>1, updateConditionsType DEF Observations, Errors
    <3>3. [cnt |-> desired.spec.cnt, nng |-> desired.spec.shards] \in Annotations
      BY DEF TypeOK, CRs, Specs, Annotations
    <3> QED
      BY <3>1, <3>2, <3>3 DEF createOutput, Observations
  <2>3. asLatest(desired) \in Observations /\ "awsOther" \in Errors
    BY asLatestType DEF TypeOK, Errors
  <2>4. latest' \in Observations /\ err' \in Errors /\ pc' \in Steps /\ desired' \in CRs
    BY <1>8, <2>2, <2>3, FailWithType DEF Create, TypeOK, Steps
  <2> QED
    BY <1>7, <1>8, <2>1, <2>4 DEF Create, TypeOK
<1>9. CASE CreateFails
  <2>1. asLatest(desired) \in Observations /\ {"awsOther", "awsTerminal"} \subseteq Errors
    BY asLatestType DEF TypeOK, Errors
  <2>2. latest' \in Observations /\ err' \in Errors /\ pc' \in Steps /\ desired' \in CRs
    BY <1>9, <2>1, FailWithType DEF CreateFails
  <2> QED
    BY <1>7, <1>9, <2>2 DEF CreateFails, TypeOK
<1>10. CASE ReadBack
  <2>1. sdkFind(latest, TRUE) \in Observations
    BY sdkFindType, RecordsDescribed DEF TypeOK
  <2>2. latest' \in Observations
    BY <1>10, <2>1 DEF ReadBack, TypeOK, Observations
  <2> QED
    BY <1>10, <2>2 DEF ReadBack, TypeOK, Steps
<1>11. CASE ReadBackFails
  BY <1>11 DEF ReadBackFails, TypeOK, Steps, Errors
<1> QED
  BY <1>1, <1>2, <1>3, <1>4, <1>5, <1>6, <1>8, <1>9, <1>10, <1>11

(* What the specification gives a call that modifies the group: a group,   *)
(* and the result of the call that succeeds; FailWithType does the rest.   *)
LEMMA ModifiedType ==
  ASSUME TypeOK, NEW a \in Configs, NEW t \in Configs
  PROVE  Modified(a, t) \in Groups
<1>1. rg \in Groups
  BY DEF TypeOK
<1> QED
  BY <1>1 DEF Modified, Groups, RGStatus

(* ModifyCall makes a well-formed group and a well-formed result. *)
LEMMA ReplicaCallsType ==
  ASSUME TypeOK, IncreaseReplicaCount \/ DecreaseReplicaCount
  PROVE  TypeOK'
<1> DEFINE g == Modified(rg.cfg, [rg.cfg EXCEPT !.replicas = desired.spec.replicas])
<1>1. desired.spec.replicas \in ReplicaCounts
  <2>1. replicaCountDifference(desired, latest) # 0
    BY RGAssumption DEF IncreaseReplicaCount, DecreaseReplicaCount, Updating, updateStep,
       CustomModifyReplicationGroup, modifyReplicationGroup
  <2>2. desired.spec.replicas # None
    BY <2>1 DEF replicaCountDifference
  <2> QED
    BY <2>2 DEF TypeOK, CRs, Specs
<1>2. g \in Groups
  BY <1>1, ModifiedType DEF TypeOK, Groups, Configs
<1>3. \A x \in Groups : setOutput(x) \in Observations
  BY setOutputType
<1>4. {"awsOther", "awsTerminal"} \subseteq Errors
  BY DEF Errors
<1>5. ModifyCall(g, setOutput) /\ UNCHANGED <<crVars, histVars, edits>>
  BY DEF IncreaseReplicaCount, DecreaseReplicaCount
<1> HIDE DEF g
<1>6. rg' \in Groups /\ faults' \in Nat
  BY <1>2, <1>5 DEF ModifyCall, TypeOK, Fault
<1>7. latest' \in Observations /\ err' \in Errors /\ pc' \in Steps /\ desired' \in CRs
  BY <1>2, <1>3, <1>4, <1>5, FailWithType DEF ModifyCall, TypeOK, Steps
<1> QED
  BY <1>5, <1>6, <1>7 DEF TypeOK, crVars, histVars

LEMMA UpdateShardConfigurationType ==
  ASSUME TypeOK, UpdateShardConfiguration PROVE TypeOK'
<1> DEFINE g == Modified(rg.cfg, [rg.cfg EXCEPT !.shards = desired.spec.shards])
<1>1. desired.spec.shards \in ShardCounts
  <2>1. desired.spec.shards # None
    BY DEF UpdateShardConfiguration, Updating, updateStep,
       CustomModifyReplicationGroup, modifyReplicationGroup, shardConfigurationsDiffer
  <2> QED
    BY <2>1 DEF TypeOK, CRs, Specs
<1>2. g \in Groups
  BY <1>1, ModifiedType DEF TypeOK, Groups, Configs
<1>3. \A x \in Groups : shardsOutput(x) \in Observations
  <2> TAKE x \in Groups
  <2>1. setOutput(x) \in Observations
    BY setOutputType
  <2> QED
    BY <1>1, <2>1 DEF shardsOutput, Observations, Annotations
<1>4. {"awsOther", "awsTerminal"} \subseteq Errors
  BY DEF Errors
<1>5. /\ ModifyCall(g, shardsOutput) /\ UNCHANGED <<crVars, rolledBack, edits>>
      /\ requested' = [requested EXCEPT !.nng = @ \cup {desired.spec.shards}]
  BY DEF UpdateShardConfiguration
<1> HIDE DEF g
<1>6. rg' \in Groups /\ faults' \in Nat
  BY <1>2, <1>5 DEF ModifyCall, TypeOK, Fault
<1>7. latest' \in Observations /\ err' \in Errors /\ pc' \in Steps /\ desired' \in CRs
  BY <1>2, <1>3, <1>4, <1>5, FailWithType DEF ModifyCall, TypeOK, Steps
<1>8. requested' \in [cnt : SUBSET NodeTypes, nng : SUBSET ShardCounts]
  BY <1>1, <1>5 DEF TypeOK
<1> QED
  BY <1>5, <1>6, <1>7, <1>8 DEF TypeOK, crVars

LEMMA ModifyVersionType ==
  ASSUME TypeOK, ModifyVersion PROVE TypeOK'
<1>1. PICK v \in Installs(desired.spec.ev) :
        ModifyCall(Modified(rg.cfg, [rg.cfg EXCEPT !.ev = v]), setOutput)
  BY DEF ModifyVersion
<1> DEFINE g == Modified(rg.cfg, [rg.cfg EXCEPT !.ev = v])
<1>2. g \in Groups
  BY ModifiedType DEF TypeOK, Groups, Configs, Installs, Releases
<1>3. \A x \in Groups : setOutput(x) \in Observations
  BY setOutputType
<1>4. {"awsOther", "awsTerminal"} \subseteq Errors
  BY DEF Errors
<1>5. ModifyCall(g, setOutput) /\ UNCHANGED <<crVars, histVars, edits>>
  BY <1>1 DEF ModifyVersion
<1> HIDE DEF g
<1>6. rg' \in Groups /\ faults' \in Nat
  BY <1>2, <1>5 DEF ModifyCall, TypeOK, Fault
<1>7. latest' \in Observations /\ err' \in Errors /\ pc' \in Steps /\ desired' \in CRs
  BY <1>2, <1>3, <1>4, <1>5, FailWithType DEF ModifyCall, TypeOK, Steps
<1> QED
  BY <1>5, <1>6, <1>7 DEF TypeOK, crVars, histVars

LEMMA ModifyReplicationGroupType ==
  ASSUME TypeOK, ModifyReplicationGroup PROVE TypeOK'
<1> DEFINE a == [rg.cfg EXCEPT !.desc = desired.spec.desc]
           g == Modified(a, [a EXCEPT !.cnt = desired.spec.cnt, !.af = desired.spec.af])
<1>1. desired.spec \in Specs
  BY DEF TypeOK, CRs
<1>2. g \in Groups
  <2>1. a \in Configs
    BY <1>1 DEF TypeOK, Groups, Configs, Specs
  <2>2. [a EXCEPT !.cnt = desired.spec.cnt, !.af = desired.spec.af] \in Configs
    BY <1>1, <2>1 DEF Configs, Specs
  <2> QED
    BY <2>1, <2>2, ModifiedType
<1>3. \A x \in Groups : modifyOutput(x) \in Observations
  <2> TAKE x \in Groups
  <2>1. setOutput(x) \in Observations
    BY setOutputType
  <2>4. [setOutput(x).spec EXCEPT !.cnt = desired.spec.cnt] \in Specs
    BY <1>1, <2>1 DEF Observations, Specs
  <2>5. [setOutput(x).ann EXCEPT !.cnt = desired.spec.cnt] \in Annotations
    BY <1>1, <2>1 DEF Observations, Specs, Annotations
  <2> QED
    BY <2>1, <2>4, <2>5 DEF modifyOutput, Observations
<1>4. {"awsOther", "awsTerminal"} \subseteq Errors
  BY DEF Errors
<1>5. /\ ModifyCall(g, modifyOutput) /\ UNCHANGED <<crVars, rolledBack, edits>>
      /\ requested' = [requested EXCEPT !.cnt = @ \cup {desired.spec.cnt}]
  BY DEF ModifyReplicationGroup
<1> HIDE DEF g
<1>6. rg' \in Groups /\ faults' \in Nat
  BY <1>2, <1>5 DEF ModifyCall, TypeOK, Fault
<1>7. latest' \in Observations /\ err' \in Errors /\ pc' \in Steps /\ desired' \in CRs
  BY <1>2, <1>3, <1>4, <1>5, FailWithType DEF ModifyCall, TypeOK, Steps
<1>8. requested' \in [cnt : SUBSET NodeTypes, nng : SUBSET ShardCounts]
  BY <1>1, <1>5 DEF TypeOK, Specs
<1> QED
  BY <1>5, <1>6, <1>7, <1>8 DEF TypeOK, crVars

LEMMA SyncTagsStepType ==
  ASSUME TypeOK, SyncTags PROVE TypeOK'
<1> DEFINE tags == T!SyncTags(desired.spec.tags, latest.spec.tags, rg.cfg.tags)
           g == [rg EXCEPT !.status = "modifying", !.cfg.tags = tags, !.target.tags = tags]
<1>1. tags \in T!TagMaps
  BY SyncTagsType DEF TypeOK, CRs, Observations, Groups, Specs, Configs
<1> HIDE DEF tags
<1>2. [rg.cfg EXCEPT !.tags = tags] \in Configs /\ [rg.target EXCEPT !.tags = tags] \in Configs
  BY <1>1 DEF TypeOK, Groups, Configs
<1>3. g \in Groups
  BY <1>2 DEF TypeOK, Groups, RGStatus
<1>4. {"awsOther", "awsTerminal", "requeue"} \subseteq Errors
  BY DEF Errors
<1>5. /\ rg' = g \/ UNCHANGED rg
      /\ faults' \in Nat
      /\ \E e \in {"awsOther", "awsTerminal", "requeue"} : FailWith(latest, e)
      /\ UNCHANGED <<crVars, histVars, edits>>
  BY DEF SyncTags, TypeOK, Fault, tags
<1> HIDE DEF g
<1>6. latest' \in Observations /\ err' \in Errors /\ pc' \in Steps /\ desired' \in CRs
  BY <1>4, <1>5, FailWithType DEF TypeOK
<1> QED
  BY <1>3, <1>5, <1>6 DEF TypeOK, crVars, histVars

LEMMA UpdateType == TypeOK /\ Update => TypeOK'
<1> SUFFICES ASSUME TypeOK, Update PROVE TypeOK'
  OBVIOUS
<1>1. CASE WaitAvailable \/ RefuseNodeType \/ RefuseShards
  <2>1. PICK e \in {"requeue", "v1Combination"} :
          FailWith(latest, e) /\ UNCHANGED <<crVars, rg, histVars, edits, faults>>
    BY <1>1 DEF WaitAvailable, RefuseNodeType, RefuseShards
  <2>2. e \in Errors
    BY DEF Errors
  <2>3. latest' \in Observations /\ err' \in Errors /\ pc' \in Steps /\ desired' \in CRs
    BY <2>1, <2>2, FailWithType DEF TypeOK
  <2> QED
    BY <2>1, <2>3 DEF TypeOK, crVars, histVars
<1>2. CASE Panic
  BY <1>2 DEF Panic, TypeOK, Steps, histVars
<1> QED
  BY <1>1, <1>2, SyncTagsStepType, ReplicaCallsType, UpdateShardConfigurationType,
     ModifyVersionType, ModifyReplicationGroupType DEF Update

(* The steps that end a pass: the patches of the runtime. *)
LEMMA EndOfPassType ==
  ASSUME TypeOK, PatchSpec \/ LateInitialize \/ PatchStatus \/ Crash
  PROVE  TypeOK'
<1> USE DEF crVars, ctlVars, histVars, Fault
<1>1. CASE PatchSpec
  <2>1. PatchedSpec(cr.spec, desired.spec, latest.spec) \in Specs
    BY DEF TypeOK, CRs, Observations, Specs, PatchedSpec, Patched
  <2>2. PatchedAnnotations(cr.ann, desired.ann, latest.ann) \in Annotations
    BY DEF TypeOK, CRs, Observations, Annotations, PatchedAnnotations, Patched
  <2>3. cr' \in CRs
    BY <1>1, <2>1, <2>2 DEF PatchSpec, TypeOK, CRs
  <2>4. queued' \in BOOLEAN
    BY <1>1 DEF PatchSpec, TypeOK
  <2>5. pc' \in Steps
    BY <1>1 DEF PatchSpec, Steps
  <2> QED
    BY <1>1, <2>3, <2>4, <2>5 DEF PatchSpec, TypeOK
<1>2. CASE LateInitialize
  <2>1. [latest EXCEPT !.cond.synced = "False"] \in Observations
    BY DEF TypeOK, Observations, Conds, CondStatus
  <2>2. "awsOther" \in Errors
    BY DEF Errors
  <2> QED
    BY <1>2, <2>1, <2>2 DEF LateInitialize, TypeOK, Steps
<1>3. CASE PatchStatus
  <2>1. latest.cond \in Conds /\ ensureConditions(latest.cond, err) \in Conds
    BY updateConditionsType DEF TypeOK, Observations
  <2>2. (IF desired.del THEN latest.cond ELSE ensureConditions(latest.cond, err)) \in Conds
    BY <2>1
  <2>3. cr' \in CRs
    BY <1>3, <2>2 DEF PatchStatus, TypeOK, CRs, Observations
  <2>4. queued' \in BOOLEAN
    BY <1>3 DEF PatchStatus, TypeOK
  <2> QED
    BY <1>3, <2>3, <2>4 DEF PatchStatus, TypeOK, Steps
<1>4. CASE Crash
  BY <1>4 DEF Crash, TypeOK, Steps
<1> QED
  BY <1>1, <1>2, <1>3, <1>4

(* What DeleteReturns leaves behind. *)
LEMMA DeleteReturnsType ==
  ASSUME TypeOK, NEW r \in Observations, NEW e \in Errors, DeleteReturns(r, e)
  PROVE  /\ latest' \in Observations /\ err' \in Errors
         /\ pc' \in Steps /\ desired' \in CRs
<1>1. r.cond \in Conds
  BY DEF Observations
<1>2. onErrorConds(r.cond, e) \in Conds /\ onErrorResult(r.cond, e) \in Errors
  BY <1>1, updateConditionsType
<1> QED
  BY <1>2 DEF DeleteReturns, Observations, Steps, TypeOK

(* The steps of a deletion. *)
LEMMA DeletionType ==
  ASSUME TypeOK,
         \/ ReadDelete \/ ReadDeleteNotFound \/ ReadDeleteFails
         \/ DeleteWaits \/ Delete \/ Unmanage
  PROVE  TypeOK'
<1> USE DEF crVars, ctlVars, histVars, Fault
<1>0. {"awsOther", "requeue"} \subseteq Errors
  BY DEF Errors
<1>1. CASE ReadDelete
  <2>1. sdkFind(desired, TRUE) \in Observations
    BY sdkFindType, RecordsDescribed DEF TypeOK
  <2> QED
    BY <1>1, <2>1 DEF ReadDelete, TypeOK, Steps
<1>2. CASE ReadDeleteNotFound
  BY <1>2 DEF ReadDeleteNotFound, TypeOK, Steps
<1>3. CASE ReadDeleteFails
  <2>1. asLatest(desired) \in Observations
    BY asLatestType DEF TypeOK
  <2> QED
    BY <1>0, <1>3, <2>1 DEF ReadDeleteFails, TypeOK, Steps
<1>4. CASE DeleteWaits
  <2>1. [latest EXCEPT !.cond.synced = "False"] \in Observations
    BY DEF TypeOK, Observations, Conds, CondStatus
  <2>2. latest' \in Observations /\ err' \in Errors /\ pc' \in Steps /\ desired' \in CRs
    BY <1>0, <1>4, <2>1, DeleteReturnsType DEF DeleteWaits
  <2> QED
    BY <1>4, <2>2 DEF DeleteWaits, TypeOK
<1>5. CASE Delete
  <2>1. [rg EXCEPT !.status = "deleting", !.target = rg.cfg] \in Groups
    BY DEF TypeOK, Groups, RGStatus
  <2>2. rg' \in Groups
    BY <1>5, <2>1 DEF Delete, TypeOK
  <2>3. faults' \in Nat
    BY <1>5 DEF Delete, TypeOK
  <2>4. deleteOutput(latest, rg') \in Observations
    <3>1. setReplicationGroupOutput(latest, rg') \in Observations
      BY <2>2, RecordsDescribed, setReplicationGroupOutputType DEF TypeOK
    <3> QED
      BY <3>1 DEF deleteOutput, Observations, Conds, CondStatus
  <2>5. \/ DeleteReturns(deleteOutput(latest, rg'), "requeue")
        \/ \E e \in {"awsOther", "awsTerminal"} : DeleteReturns(latest, e)
    BY <1>5 DEF Delete
  <2>6. latest' \in Observations /\ err' \in Errors /\ pc' \in Steps /\ desired' \in CRs
    <3>1. ASSUME NEW r \in Observations, NEW e \in Errors, DeleteReturns(r, e)
          PROVE  /\ latest' \in Observations /\ err' \in Errors
                 /\ pc' \in Steps /\ desired' \in CRs
      BY <3>1, DeleteReturnsType
    <3>2. {"awsOther", "awsTerminal", "requeue"} \subseteq Errors /\ latest \in Observations
      BY DEF Errors, TypeOK
    <3>3. CASE DeleteReturns(deleteOutput(latest, rg'), "requeue")
      BY <2>4, <3>1, <3>2, <3>3
    <3>4. CASE \E e \in {"awsOther", "awsTerminal"} : DeleteReturns(latest, e)
      BY <3>1, <3>2, <3>4
    <3> QED
      BY <2>5, <3>3, <3>4
  <2> QED
    BY <1>5, <2>2, <2>3, <2>6 DEF Delete, TypeOK
<1>6. CASE Unmanage
  BY <1>6 DEF Unmanage, TypeOK, CRs, Steps
<1> QED
  BY <1>1, <1>2, <1>3, <1>4, <1>5, <1>6

LEMMA NextType == TypeOK /\ [Next]_vars => TypeOK'
<1> SUFFICES ASSUME TypeOK, [Next]_vars PROVE TypeOK'
  OBVIOUS
<1>1. CASE UNCHANGED vars
  BY <1>1 DEF vars, TypeOK
<1>2. CASE User
  BY <1>2, UserType
<1>3. CASE AwsProgress \/ AwsMay
  BY <1>3, AwsType
<1>4. CASE Update
  BY <1>4, UpdateType
<1>5. CASE Controller \/ Crash
  BY <1>4, <1>5, PassType, EndOfPassType, DeletionType DEF Controller
<1> QED
  BY <1>1, <1>2, <1>3, <1>5 DEF Next

(* Every variable keeps its type, whatever the user, the service and the    *)
(* failures do.                                                             *)
THEOREM TypeCorrect == Spec => []TypeOK
  BY InitType, NextType, PTL DEF Spec

-----------------------------------------------------------------------------
(* The life of the resource and of the group.                              *)

External(g) == IF g.status = "none" THEN "none"
               ELSE IF g.status = "deleting" THEN "dying" ELSE "live"

(* Most steps leave alone what the lifecycle is about. *)
QuietStep ==
  /\ cr'.exists = cr.exists /\ cr'.del = cr.del /\ cr'.fin = cr.fin
  /\ External(rg') = External(rg)
  /\ desired'.del = desired.del
  /\ pc' \in {pc, "idle", "update", "lateInit", "patchSpec", "patchStatus", "readBack"}

(* The user's edits and what the service does on its own are quiet, but for *)
(* the end of a deletion.                                                   *)
LEMMA EnvironmentQuiet ==
  ASSUME TypeOK, UserEdit \/ (AwsProgress /\ ~AwsDeleted) \/ AwsMay
  PROVE  QuietStep
<1> USE DEF TypeOK, CRs, Groups, QuietStep, External, crVars, ctlVars
<1>1. CASE UserEdit               BY <1>1 DEF UserEdit
<1>2. CASE AwsCreated             BY <1>2 DEF AwsCreated
<1>3. CASE AwsApplied             BY <1>3 DEF AwsApplied
<1>4. CASE AwsSettled             BY <1>4 DEF AwsSettled
<1>5. CASE AwsSnapshotEnds        BY <1>5 DEF AwsSnapshotEnds
<1>6. CASE AwsCreateFailed        BY <1>6 DEF AwsCreateFailed
<1>7. CASE AwsAppliedUnsettled    BY <1>7 DEF AwsAppliedUnsettled
<1>8. CASE AwsRolledBack          BY <1>8 DEF AwsRolledBack
<1>9. CASE AwsSnapshotStarts      BY <1>9 DEF AwsSnapshotStarts
<1> QED
  BY <1>1, <1>2, <1>3, <1>4, <1>5, <1>6, <1>7, <1>8, <1>9 DEF AwsProgress, AwsMay

(* So is every update: the group it modifies is there, and stays.           *)
LEMMA UpdateQuiet ==
  ASSUME TypeOK, Update
  PROVE  QuietStep
<1> USE DEF TypeOK, CRs, Groups, External, crVars
<1> SUFFICES /\ UNCHANGED cr /\ External(rg') = External(rg) /\ UNCHANGED desired
             /\ pc' \in {"idle", "patchSpec", "patchStatus"}
  BY DEF QuietStep
<1>1. CASE SyncTags
  BY <1>1 DEF SyncTags, FailWith
<1>2. CASE WaitAvailable \/ RefuseNodeType \/ RefuseShards \/ Panic
  BY <1>2 DEF WaitAvailable, RefuseNodeType, RefuseShards, Panic, FailWith
<1> USE DEF ModifyCall, Modified, FailWith
<1>3. CASE IncreaseReplicaCount   BY <1>3 DEF IncreaseReplicaCount
<1>4. CASE DecreaseReplicaCount   BY <1>4 DEF DecreaseReplicaCount
<1>5. CASE UpdateShardConfiguration
  BY <1>5 DEF UpdateShardConfiguration
<1>6. CASE ModifyVersion          BY <1>6 DEF ModifyVersion
<1>7. CASE ModifyReplicationGroup BY <1>7 DEF ModifyReplicationGroup
<1> QED
  BY <1>1, <1>2, <1>3, <1>4, <1>5, <1>6, <1>7 DEF Update

(* So are the failures of a read or of a creation, and the end of a pass.   *)
LEMMA PassQuiet ==
  ASSUME TypeOK,
         \/ FetchGone \/ ReadOne \/ ReadOneFails \/ CreateFails \/ ReadBack
         \/ ReadBackFails \/ PatchSpec \/ LateInitialize \/ PatchStatus
         \/ ReadDeleteFails \/ DeleteWaits \/ Crash
  PROVE  QuietStep
<1> USE DEF TypeOK, CRs, QuietStep, crVars, ctlVars, FailWith, DeleteReturns
<1>1. CASE FetchGone              BY <1>1 DEF FetchGone
<1>2. CASE ReadOne                BY <1>2 DEF ReadOne
<1>3. CASE ReadOneFails           BY <1>3 DEF ReadOneFails
<1>4. CASE CreateFails            BY <1>4 DEF CreateFails
<1>5. CASE ReadBack               BY <1>5 DEF ReadBack
<1>6. CASE ReadBackFails          BY <1>6 DEF ReadBackFails
<1>7. CASE PatchSpec              BY <1>7 DEF PatchSpec
<1>8. CASE LateInitialize         BY <1>8 DEF LateInitialize
<1>9. CASE PatchStatus            BY <1>9 DEF PatchStatus
<1>10. CASE ReadDeleteFails       BY <1>10 DEF ReadDeleteFails
<1>11. CASE DeleteWaits           BY <1>11 DEF DeleteWaits
<1>12. CASE Crash                 BY <1>12 DEF Crash
<1> QED
  BY <1>1, <1>2, <1>3, <1>4, <1>5, <1>6, <1>7, <1>8, <1>9, <1>10, <1>11, <1>12

(* The steps that are not quiet. *)
Milestone ==
  \/ UserDelete \/ AwsDeleted
  \/ Fetch \/ ReadOneNotFound \/ Manage \/ Create
  \/ ReadDelete \/ ReadDeleteNotFound \/ Delete \/ Unmanage

LEMMA QuietOrMilestone ==
  ASSUME TypeOK, [Next]_vars
  PROVE  QuietStep \/ Milestone
<1>1. CASE UNCHANGED vars
  BY <1>1 DEF vars, QuietStep
<1> QED
  BY <1>1, EnvironmentQuiet, UpdateQuiet, PassQuiet
  DEF Next, User, Controller, AwsProgress, Milestone

LEMMA LifecycleInit == Init => LifecycleInv
  BY DEF Init, LifecycleInv, FinalizerHolds, CreatesBehindFinalizer, DeletesOnRequest,
         NoOrphan, DeletedOnRequest

(* A quiet step preserves the invariant. *)
LEMMA QuietInductive == LifecycleInv /\ QuietStep => LifecycleInv'
  BY DEF QuietStep, External, LifecycleInv, FinalizerHolds, CreatesBehindFinalizer,
         DeletesOnRequest, NoOrphan, DeletedOnRequest

(* The milestones: what each relies on is a conjunct of the invariant. *)
LEMMA MilestoneInductive ==
  ASSUME TypeOK, LifecycleInv, Milestone
  PROVE  LifecycleInv'
<1> USE DEF TypeOK, CRs, Groups, LifecycleInv, FinalizerHolds, CreatesBehindFinalizer,
            DeletesOnRequest, NoOrphan, DeletedOnRequest, crVars, ctlVars
<1>1. CASE UserDelete             BY <1>1 DEF UserDelete
<1>2. CASE AwsDeleted             BY <1>2 DEF AwsDeleted
<1>3. CASE Fetch                  BY <1>3 DEF Fetch
<1>4. CASE ReadOneNotFound        BY <1>4 DEF ReadOneNotFound
<1>5. CASE Manage                 BY <1>5 DEF Manage
<1>6. CASE Create
  <2>1. rg'.status = "creating"
    BY <1>6 DEF Create, Creating
  <2> QED
    BY <1>6, <2>1 DEF Create, FailWith
<1>7. CASE ReadDelete             BY <1>7 DEF ReadDelete
<1>8. CASE ReadDeleteNotFound     BY <1>8 DEF ReadDeleteNotFound
<1>9. CASE Delete
  <2>1. UNCHANGED <<cr, desired>> /\ pc' = "patchSpec"
    BY <1>9 DEF Delete, DeleteReturns
  <2>2. UNCHANGED rg \/ rg.status # "none"
    BY <1>9 DEF Delete, Deletable
  <2>3. cr.del
    BY <1>9 DEF Delete
  <2> QED
    BY <2>1, <2>2, <2>3
<1>10. CASE Unmanage              BY <1>10 DEF Unmanage
<1> QED
  BY <1>1, <1>2, <1>3, <1>4, <1>5, <1>6, <1>7, <1>8, <1>9, <1>10 DEF Milestone

(* The inductive invariant of the lifecycle. *)
THEOREM LifecycleCorrect == Spec => []LifecycleInv
<1>1. TypeOK /\ LifecycleInv /\ [Next]_vars => LifecycleInv'
  BY QuietOrMilestone, QuietInductive, MilestoneInductive
<1> QED
  BY <1>1, LifecycleInit, TypeCorrect, PTL DEF Spec

(* A replication group never outlives its custom resource and its finalizer, *)
(* whatever crashes, failed calls and deletions come between the steps.      *)
THEOREM NoOrphanTheorem == Spec => []NoOrphan
<1>1. LifecycleInv => NoOrphan
  BY DEF LifecycleInv
<1> QED
  BY <1>1, LifecycleCorrect, PTL

(* AWS is never asked to delete a group the user did not delete. *)
THEOREM DeletedOnRequestTheorem == Spec => []DeletedOnRequest
<1>1. LifecycleInv => DeletedOnRequest
  BY DEF LifecycleInv
<1> QED
  BY <1>1, LifecycleCorrect, PTL

-----------------------------------------------------------------------------
(* The refinement. *)

LEMMA LifecycleStart == Init => Lifecycle!Init
  BY DEF Init, Lifecycle!Init

LEMMA QuietStutters == QuietStep => UNCHANGED Lifecycle!vars
  BY DEF QuietStep, External, Lifecycle!vars

(* Each milestone is one step of the lifecycle, or none. *)
LEMMA MilestoneSteps ==
  ASSUME TypeOK, LifecycleInv, Milestone
  PROVE  [Lifecycle!Next]_(Lifecycle!vars)
<1> USE DEF TypeOK, CRs, Groups, LifecycleInv, Lifecycle!Next, Lifecycle!vars
<1>1. CASE UserDelete
  BY <1>1 DEF UserDelete, Lifecycle!RequestDeletion
<1>2. CASE AwsDeleted
  BY <1>2 DEF AwsDeleted, crVars, Lifecycle!Vanish
<1>3. CASE Fetch \/ ReadOneNotFound \/ ReadDelete \/ ReadDeleteNotFound
  BY <1>3 DEF Fetch, ReadOneNotFound, ReadDelete, ReadDeleteNotFound, crVars
<1>4. CASE Manage
  BY <1>4 DEF Manage, Lifecycle!Hold
<1>5. CASE Create
  <2>1. rg.status = "none" /\ rg'.status = "creating" /\ UNCHANGED cr
    BY <1>5 DEF Create, Creating, crVars
  <2>2. cr.fin /\ cr.exists
    BY <1>5 DEF Create, CreatesBehindFinalizer, FinalizerHolds
  <2> QED
    BY <2>1, <2>2 DEF Lifecycle!Create
<1>6. CASE Delete
  <2>1. UNCHANGED cr /\ cr.del
    BY <1>6 DEF Delete, crVars, DeletesOnRequest
  <2>2. \/ UNCHANGED rg
        \/ rg.status \in {"available", "create-failed"} /\ rg'.status = "deleting"
    BY <1>6 DEF Delete, Deletable
  <2> QED
    BY <2>1, <2>2 DEF Lifecycle!Destroy
<1>7. CASE Unmanage
  <2>1. cr.del /\ cr.fin /\ rg.status = "none"
    BY <1>7 DEF Unmanage, DeletesOnRequest
  <2> QED
    BY <1>7, <2>1 DEF Unmanage, Lifecycle!Release
<1> QED
  BY <1>1, <1>2, <1>3, <1>4, <1>5, <1>6, <1>7 DEF Milestone

(* The controller, with all its failures, implements the lifecycle: an AWS *)
(* resource is created behind a finalizer only, destroyed on request only, *)
(* and the object is released only when it is gone.                        *)
THEOREM Refinement == Spec => ImplementsLifecycle
<1>1. TypeOK /\ LifecycleInv /\ [Next]_vars => [Lifecycle!Next]_(Lifecycle!vars)
  BY QuietOrMilestone, QuietStutters, MilestoneSteps
<1> QED
  BY <1>1, LifecycleStart, TypeCorrect, LifecycleCorrect, PTL
  DEF Spec, ImplementsLifecycle, Lifecycle!Spec

-----------------------------------------------------------------------------
(* The annotations.                                                        *)

(* Most steps copy the annotations from one of the copies to another. *)
AnnotationsCopied ==
  /\ UNCHANGED requested
  /\ cr'.ann = cr.ann
  /\ desired'.ann \in {cr.ann, desired.ann}
  /\ latest'.ann \in {desired.ann, latest.ann}

(* A failing operation returns the annotations it was given. *)
LEMMA FailuresKeepAnnotations ==
  ASSUME NEW r \in Observations, NEW e, FailWith(r, e) \/ DeleteReturns(r, e)
  PROVE  latest'.ann = r.ann /\ UNCHANGED desired
  BY DEF FailWith, DeleteReturns, Observations

(* So do a read and a response. *)
LEMMA OutputsKeepAnnotations ==
  /\ \A r, ccFound : sdkFind(r, ccFound).ann = r.ann
  /\ \A d, g : setReplicationGroupOutput(d, g).ann = d.ann
  /\ \A r : asLatest(r).ann = r.ann
  BY DEF sdkFind, setReplicationGroupOutput, asLatest

LEMMA EnvironmentCopies ==
  ASSUME TypeOK, User \/ AwsProgress \/ AwsMay \/ Crash
  PROVE  AnnotationsCopied
<1> USE DEF TypeOK, CRs, AnnotationsCopied, crVars, ctlVars, histVars
<1>1. CASE User
  BY <1>1 DEF User, UserEdit, UserDelete
<1>2. CASE AwsProgress
  BY <1>2 DEF AwsProgress, AwsCreated, AwsApplied, AwsSettled, AwsSnapshotEnds, AwsDeleted
<1>3. CASE AwsMay
  BY <1>3 DEF AwsMay, AwsCreateFailed, AwsAppliedUnsettled, AwsRolledBack, AwsSnapshotStarts
<1>4. CASE Crash
  BY <1>4 DEF Crash
<1> QED
  BY <1>1, <1>2, <1>3, <1>4

LEMMA PassCopies ==
  ASSUME TypeOK,
         \/ Fetch \/ FetchGone \/ ReadOne \/ ReadOneNotFound \/ ReadOneFails
         \/ Manage \/ ReadBack \/ ReadBackFails
         \/ LateInitialize \/ PatchStatus
         \/ ReadDelete \/ ReadDeleteNotFound \/ ReadDeleteFails
         \/ DeleteWaits \/ Delete \/ Unmanage
  PROVE  AnnotationsCopied
<1> USE DEF TypeOK, CRs, AnnotationsCopied, crVars, ctlVars, histVars
<1>0. asLatest(desired) \in Observations
  BY asLatestType
<1>1. CASE Fetch                  BY <1>1 DEF Fetch
<1>2. CASE FetchGone              BY <1>2 DEF FetchGone
<1>3. CASE ReadOne                BY <1>3, OutputsKeepAnnotations DEF ReadOne
<1>4. CASE ReadOneNotFound        BY <1>4 DEF ReadOneNotFound
<1>5. CASE ReadOneFails
  BY <1>0, <1>5, FailuresKeepAnnotations, OutputsKeepAnnotations DEF ReadOneFails
<1>6. CASE Manage                 BY <1>6 DEF Manage
<1>7. CASE ReadBack               BY <1>7 DEF ReadBack, Observations
<1>8. CASE ReadBackFails          BY <1>8 DEF ReadBackFails
<1>9. CASE LateInitialize         BY <1>9 DEF LateInitialize, Observations
<1>10. CASE PatchStatus           BY <1>10 DEF PatchStatus
<1>11. CASE ReadDelete            BY <1>11, OutputsKeepAnnotations DEF ReadDelete
<1>12. CASE ReadDeleteNotFound    BY <1>12 DEF ReadDeleteNotFound
<1>13. CASE ReadDeleteFails
  BY <1>13, OutputsKeepAnnotations DEF ReadDeleteFails
<1>14. CASE DeleteWaits
  <2>1. [latest EXCEPT !.cond.synced = "False"] \in Observations
    BY DEF Observations, Conds, CondStatus
  <2>2. latest'.ann = latest.ann /\ UNCHANGED desired
    BY <1>14, <2>1, FailuresKeepAnnotations DEF DeleteWaits, Observations
  <2> QED
    BY <1>14, <2>2 DEF DeleteWaits
<1>15. CASE Delete
  <2>1. deleteOutput(latest, rg').ann = latest.ann
    BY OutputsKeepAnnotations DEF deleteOutput, setReplicationGroupOutput
  <2>2. PICK r \in {latest, deleteOutput(latest, rg')}, e \in {"requeue", "awsOther", "awsTerminal"} :
             DeleteReturns(r, e)
    BY <1>15 DEF Delete
  <2>3. r.ann = latest.ann /\ [r EXCEPT !.cond = onErrorConds(@, e)].ann = r.ann
    <3>1. CASE r = latest
      BY <3>1 DEF Observations
    <3>2. CASE r = deleteOutput(latest, rg')
      BY <3>2, <2>1 DEF deleteOutput, setReplicationGroupOutput
    <3> QED
      BY <3>1, <3>2
  <2>4. UNCHANGED desired /\ latest'.ann = latest.ann
    BY <2>2, <2>3 DEF DeleteReturns
  <2> QED
    BY <1>15, <2>4 DEF Delete
<1>16. CASE Unmanage              BY <1>16 DEF Unmanage
<1> QED
  BY <1>1, <1>2, <1>3, <1>4, <1>5, <1>6, <1>7, <1>8, <1>9, <1>10, <1>11, <1>12,
     <1>13, <1>14, <1>15, <1>16

LEMMA CopiesAreHonest == HonestInv /\ AnnotationsCopied => HonestInv'
  BY DEF HonestInv, Honest, AnnotationsCopied

(* The updates that send neither a node type nor a shard count. *)
LEMMA UpdateCopies ==
  ASSUME TypeOK,
         \/ SyncTags \/ WaitAvailable \/ RefuseNodeType \/ RefuseShards \/ Panic
         \/ IncreaseReplicaCount \/ DecreaseReplicaCount \/ ModifyVersion
  PROVE  AnnotationsCopied
<1> USE DEF AnnotationsCopied, crVars, ctlVars, histVars
<1>1. \A e : FailWith(latest, e) => latest'.ann = latest.ann /\ UNCHANGED desired
  BY FailuresKeepAnnotations DEF TypeOK
<1>2. \A g : setOutput(g).ann = desired.ann
  BY OutputsKeepAnnotations DEF setOutput
<1>3. CASE SyncTags               BY <1>1, <1>3 DEF SyncTags
<1>4. CASE WaitAvailable          BY <1>1, <1>4 DEF WaitAvailable
<1>5. CASE RefuseNodeType         BY <1>1, <1>5 DEF RefuseNodeType
<1>6. CASE RefuseShards           BY <1>1, <1>6 DEF RefuseShards
<1>7. CASE Panic                  BY <1>7 DEF Panic
<1>8. CASE IncreaseReplicaCount
  BY <1>1, <1>2, <1>8 DEF IncreaseReplicaCount, ModifyCall
<1>9. CASE DecreaseReplicaCount
  BY <1>1, <1>2, <1>9 DEF DecreaseReplicaCount, ModifyCall
<1>10. CASE ModifyVersion
  BY <1>1, <1>2, <1>10 DEF ModifyVersion, ModifyCall
<1> QED
  BY <1>3, <1>4, <1>5, <1>6, <1>7, <1>8, <1>9, <1>10

(* The steps that send one record what they send, and patch only what was. *)
LEMMA RequestsHonest ==
  ASSUME TypeOK, HonestInv,
         \/ Create \/ CreateFails \/ UpdateShardConfiguration
         \/ ModifyReplicationGroup \/ PatchSpec
  PROVE  HonestInv'
<1> USE DEF crVars, ctlVars, histVars
<1>1. \A r \in Observations : \A e :
        FailWith(r, e) => latest'.ann = r.ann /\ UNCHANGED desired
  BY FailuresKeepAnnotations
<1>2. asLatest(desired) \in Observations /\ asLatest(desired).ann = desired.ann
  BY asLatestType, OutputsKeepAnnotations DEF TypeOK
<1>3. \A g : setOutput(g).ann = desired.ann
  BY OutputsKeepAnnotations DEF setOutput
<1>4. RequestCreate =>
        /\ requested.cnt \subseteq requested'.cnt /\ requested.nng \subseteq requested'.nng
        /\ desired.spec.cnt \in requested'.cnt
        /\ desired.spec.shards \in requested'.nng \cup {None}
  BY DEF RequestCreate
<1>5. CASE Create
  <2>1. createOutput(desired, rg').ann = [cnt |-> desired.spec.cnt,
                                          nng |-> desired.spec.shards]
    BY DEF createOutput, setReplicationGroupOutput
  <2>2. latest'.ann \in {desired.ann, createOutput(desired, rg').ann}
    BY <1>1, <1>2, <1>5 DEF Create
  <2>3. UNCHANGED <<cr, desired>>
    BY <1>1, <1>2, <1>5 DEF Create
  <2> QED
    BY <1>4, <1>5, <2>1, <2>2, <2>3 DEF Create, HonestInv, Honest
<1>6. CASE CreateFails
  <2>1. latest'.ann = desired.ann /\ UNCHANGED <<cr, desired>>
    BY <1>1, <1>2, <1>6 DEF CreateFails
  <2> QED
    BY <1>4, <1>6, <2>1 DEF CreateFails, HonestInv, Honest
<1>7. CASE UpdateShardConfiguration
  <2>1. \A g : shardsOutput(g).ann = [desired.ann EXCEPT !.nng = desired.spec.shards]
    BY <1>3 DEF shardsOutput, setOutput, setReplicationGroupOutput
  <2>2. \/ latest'.ann = latest.ann
        \/ latest'.ann = [desired.ann EXCEPT !.nng = desired.spec.shards]
    BY <1>1, <1>7, <2>1 DEF UpdateShardConfiguration, ModifyCall, TypeOK
  <2>3. UNCHANGED <<cr, desired>>
    BY <1>1, <1>7 DEF UpdateShardConfiguration, ModifyCall, TypeOK
  <2>4. /\ requested'.cnt = requested.cnt
        /\ requested'.nng = requested.nng \cup {desired.spec.shards}
    BY <1>7 DEF UpdateShardConfiguration, TypeOK
  <2>5. desired.ann \in Annotations
    BY DEF TypeOK, CRs
  <2> QED
    BY <2>2, <2>3, <2>4, <2>5 DEF HonestInv, Honest, Annotations
<1>8. CASE ModifyReplicationGroup
  <2>1. \A g : modifyOutput(g).ann = [desired.ann EXCEPT !.cnt = desired.spec.cnt]
    BY <1>3 DEF modifyOutput, setOutput, setReplicationGroupOutput
  <2>2. \/ latest'.ann = latest.ann
        \/ latest'.ann = [desired.ann EXCEPT !.cnt = desired.spec.cnt]
    BY <1>1, <1>8, <2>1 DEF ModifyReplicationGroup, ModifyCall, TypeOK
  <2>3. UNCHANGED <<cr, desired>>
    BY <1>1, <1>8 DEF ModifyReplicationGroup, ModifyCall, TypeOK
  <2>4. /\ requested'.nng = requested.nng
        /\ requested'.cnt = requested.cnt \cup {desired.spec.cnt}
    BY <1>8 DEF ModifyReplicationGroup, TypeOK
  <2>5. desired.ann \in Annotations
    BY DEF TypeOK, CRs
  <2> QED
    BY <2>2, <2>3, <2>4, <2>5 DEF HonestInv, Honest, Annotations
<1>9. CASE PatchSpec
  <2>1. Honest(PatchedAnnotations(cr.ann, desired.ann, latest.ann))
    BY DEF PatchedAnnotations, Patched, HonestInv, Honest
  <2>2. /\ cr'.ann \in {cr.ann, PatchedAnnotations(cr.ann, desired.ann, latest.ann)}
        /\ UNCHANGED <<desired, latest, requested>>
    BY <1>9 DEF PatchSpec, TypeOK, CRs
  <2> QED
    BY <2>1, <2>2 DEF HonestInv, Honest
<1> QED
  BY <1>5, <1>6, <1>7, <1>8, <1>9

(* An annotation of the last request never claims a request that was not   *)
(* made, however the user's edits and the crashes fall between the steps.  *)
THEOREM AnnotationsHonestTheorem == Spec => []AnnotationsHonest
<1>1. Init => HonestInv
  BY DEF Init, HonestInv, Honest
<1>2. TypeOK /\ HonestInv /\ [Next]_vars => HonestInv'
  <2>1. UNCHANGED vars => AnnotationsCopied
    BY DEF vars, AnnotationsCopied
  <2> QED
    BY <2>1, EnvironmentCopies, PassCopies, UpdateCopies, RequestsHonest, CopiesAreHonest
    DEF Next, Controller, Update
<1>3. HonestInv => AnnotationsHonest
  BY DEF HonestInv, Honest, AnnotationsHonest
<1> QED
  BY <1>1, <1>2, <1>3, TypeCorrect, PTL DEF Spec

-----------------------------------------------------------------------------
(* The work queue.                                                         *)

(* An operation that fails reports a terminal error only with the condition *)
(* that goes with it; nothing the operations hand to onError is terminal.   *)
LEMMA FailuresShowTerminal ==
  ASSUME NEW r \in Observations, NEW e \in Errors \ {"ackTerminal"},
         FailWith(r, e) \/ DeleteReturns(r, e)
  PROVE  /\ err' = "ackTerminal" => latest'.cond.terminal = "True"
         /\ pc' \in {"patchSpec", "patchStatus"}
<1>1. latest'.cond = updateConditions(r.cond, e)
  BY DEF FailWith, DeleteReturns, onErrorConds, Observations
<1> QED
  BY <1>1 DEF FailWith, DeleteReturns, onErrorResult

Running == {"read", "manage", "create", "readBack", "update", "readDelete",
            "delete", "unmanage"}

(* A pass goes on: without an error, or with the one it has. *)
PassGoesOn ==
  /\ pc # "idle" /\ pc' # "idle"
  /\ \/ err' = "none"
     \/ pc' \notin Running /\ (err' = "ackTerminal" => latest'.cond.terminal = "True")

(* The steps of others: they leave the pass alone, and the queue at least. *)
PassUntouched ==
  /\ UNCHANGED <<pc, err, latest>>
  /\ (queued => queued') /\ (cr'.exists => cr.exists) /\ UNCHANGED cr.cond

LEMMA OthersLeavePass ==
  ASSUME TypeOK, User \/ AwsProgress \/ AwsMay \/ UNCHANGED vars
  PROVE  PassUntouched
<1> USE DEF TypeOK, CRs, PassUntouched, crVars, ctlVars
<1>1. CASE User
  BY <1>1 DEF User, UserEdit, UserDelete
<1>2. CASE AwsProgress
  BY <1>2 DEF AwsProgress, AwsCreated, AwsApplied, AwsSettled, AwsSnapshotEnds, AwsDeleted
<1>3. CASE AwsMay
  BY <1>3 DEF AwsMay, AwsCreateFailed, AwsAppliedUnsettled, AwsRolledBack, AwsSnapshotStarts
<1>4. CASE UNCHANGED vars
  BY <1>4 DEF vars
<1> QED
  BY <1>1, <1>2, <1>3, <1>4

LEMMA ReadingGoesOn ==
  ASSUME TypeOK, QueueInv,
         \/ ReadOne \/ ReadOneNotFound \/ ReadOneFails
         \/ Create \/ CreateFails \/ ReadBack \/ ReadBackFails
         \/ ReadDelete \/ ReadDeleteNotFound \/ ReadDeleteFails
         \/ DeleteWaits \/ Delete
  PROVE  PassGoesOn
<1> USE DEF QueueInv, PassGoesOn, Running, crVars, ctlVars
<1>0. /\ asLatest(desired) \in Observations
      /\ {"awsOther", "awsTerminal", "requeue"} \subseteq Errors \ {"ackTerminal"}
  BY asLatestType DEF TypeOK, Errors
<1>1. CASE ReadOne                BY <1>1 DEF ReadOne
<1>2. CASE ReadOneNotFound        BY <1>2 DEF ReadOneNotFound
<1>3. CASE ReadOneFails
  BY <1>0, <1>3, FailuresShowTerminal DEF ReadOneFails
<1>4. CASE Create                 BY <1>0, <1>4, FailuresShowTerminal DEF Create
<1>5. CASE CreateFails            BY <1>0, <1>5, FailuresShowTerminal DEF CreateFails
<1>6. CASE ReadBack               BY <1>6 DEF ReadBack
<1>7. CASE ReadBackFails          BY <1>7 DEF ReadBackFails
<1>8. CASE ReadDelete             BY <1>8 DEF ReadDelete
<1>9. CASE ReadDeleteNotFound     BY <1>9 DEF ReadDeleteNotFound
<1>10. CASE ReadDeleteFails       BY <1>10 DEF ReadDeleteFails
<1>11. CASE DeleteWaits
  <2>1. [latest EXCEPT !.cond.synced = "False"] \in Observations
    BY DEF TypeOK, Observations, Conds, CondStatus
  <2> QED
    BY <1>0, <1>11, <2>1, FailuresShowTerminal DEF DeleteWaits
<1>12. CASE Delete
  <2>1. CASE \E e \in {"awsOther", "awsTerminal"} : DeleteReturns(latest, e)
    BY <1>0, <1>12, <2>1, FailuresShowTerminal DEF Delete, TypeOK
  <2>2. CASE DeleteReturns(deleteOutput(latest, rg'), "requeue")
    <3>1. rg' \in Groups
      BY <1>12, DeletionType DEF TypeOK
    <3>2. setReplicationGroupOutput(latest, rg') \in Observations
      BY <3>1, RecordsDescribed, setReplicationGroupOutputType DEF TypeOK
    <3>3. deleteOutput(latest, rg') \in Observations
      BY <3>2 DEF deleteOutput, Observations, Conds, CondStatus
    <3> QED
      BY <1>0, <1>12, <2>2, <3>3, FailuresShowTerminal DEF Delete
  <2> QED
    BY <1>12, <2>1, <2>2 DEF Delete
<1> QED
  BY <1>1, <1>2, <1>3, <1>4, <1>5, <1>6, <1>7, <1>8, <1>9, <1>10, <1>11, <1>12

LEMMA UpdateGoesOn ==
  ASSUME TypeOK, QueueInv, Update, ~Panic
  PROVE  PassGoesOn
<1>1. err = "none" /\ pc = "update"
  BY DEF QueueInv, Update, Updating, SyncTags, WaitAvailable, RefuseNodeType, RefuseShards,
     IncreaseReplicaCount, DecreaseReplicaCount, UpdateShardConfiguration, ModifyVersion,
     ModifyReplicationGroup
<1>2. {"awsOther", "awsTerminal", "requeue", "v1Combination"}
        \subseteq Errors \ {"ackTerminal"}
  BY DEF Errors
<1>3. \/ \E e \in {"awsOther", "awsTerminal", "requeue", "v1Combination"} : FailWith(latest, e)
      \/ pc' = "patchSpec" /\ UNCHANGED err
  BY DEF Update, SyncTags, WaitAvailable, RefuseNodeType, RefuseShards, ModifyCall,
     IncreaseReplicaCount, DecreaseReplicaCount, UpdateShardConfiguration, ModifyVersion,
     ModifyReplicationGroup
<1> QED
  BY <1>1, <1>2, <1>3, FailuresShowTerminal DEF PassGoesOn, Running, TypeOK

(* Every step keeps the invariant of the work queue. *)
LEMMA QueueInductive ==
  ASSUME TypeOK, QueueInv, [Next]_vars
  PROVE  QueueInv'
<1> USE DEF QueueInv, NeverAbandoned, Running
<1>1. CASE PassUntouched
  BY <1>1 DEF PassUntouched
<1>2. CASE PassGoesOn
  BY <1>2 DEF PassGoesOn
<1>3. CASE Fetch
  BY <1>3 DEF Fetch
<1>4. CASE FetchGone
  BY <1>4 DEF FetchGone, ctlVars
<1>5. CASE Manage
  BY <1>5 DEF Manage
<1>6. CASE Panic \/ Crash
  BY <1>6 DEF Panic, Crash
<1>7. CASE PatchSpec \/ LateInitialize
  BY <1>7 DEF PatchSpec, LateInitialize, crVars
<1>8. CASE PatchStatus
  <2>1. err = "ackTerminal" => latest.cond.terminal = "True"
    BY <1>8 DEF PatchStatus
  <2>2. ensureConditions(latest.cond, err).terminal = latest.cond.terminal
    BY DEF ensureConditions, ensureConditionsBy, TypeOK, Observations, Conds
  <2>3. cr.exists => cr'.cond.terminal = latest.cond.terminal
    BY <1>8, <2>2 DEF PatchStatus, TypeOK, CRs
  <2>4. cr'.exists = cr.exists
    BY <1>8 DEF PatchStatus, TypeOK, CRs
  <2> QED
    BY <1>8, <2>1, <2>3, <2>4 DEF PatchStatus, Requeues
<1>9. CASE Unmanage
  BY <1>9 DEF Unmanage, TypeOK, CRs
<1> QED
  BY <1>1, <1>2, <1>3, <1>4, <1>5, <1>6, <1>7, <1>8, <1>9,
     OthersLeavePass, ReadingGoesOn, UpdateGoesOn DEF Next, Controller

(* No resource drops out of the work queue unless it shows a Terminal       *)
(* condition, whatever fails on the way.                                    *)
THEOREM NeverAbandonedTheorem == Spec => []NeverAbandoned
<1>1. Init => QueueInv
  BY DEF Init, QueueInv, NeverAbandoned
<1>2. QueueInv => NeverAbandoned
  BY DEF QueueInv
<1> QED
  BY <1>1, <1>2, QueueInductive, TypeCorrect, PTL DEF Spec

-----------------------------------------------------------------------------
(* The tags.                                                               *)

(* A key of the wanted tags stays, whatever the tags were read to be and   *)
(* whatever they are when the call arrives: what a removal takes away is   *)
(* not among them, for a wanted key that differs is added and not removed. *)
LEMMA SyncTagsKeeps ==
  ASSUME NEW d \in T!TagMaps, NEW l \in T!TagMaps, NEW a \in T!TagMaps,
         NEW k \in DOMAIN a \cap DOMAIN d
  PROVE  k \in DOMAIN T!SyncTags(d, l, a)
<1>1. k \notin T!ToRemove(d, l)
  BY DEF T!ToRemove, T!ToAdd, T!DifferenceAdded, T!DifferenceRemoved
<1>2. k \in DOMAIN T!RemoveTagsFromResource(a, T!ToRemove(d, l))
  BY <1>1 DEF T!RemoveTagsFromResource
<1>3. k \in DOMAIN T!AddTagsToResource(a, T!ToAdd(d, l), d)
  BY DEF T!AddTagsToResource
<1> QED
  BY <1>2, <1>3 DEF T!SyncTags

(* A tag the group has and the intent wants is never taken off, not even   *)
(* between the two calls that change its value.                            *)
THEOREM KeptTagsStayTheorem == Spec => KeptTagsStay
<1>1. TypeOK /\ SyncTags =>
        \A k \in DOMAIN rg.cfg.tags \cap DOMAIN desired.spec.tags : k \in DOMAIN rg'.cfg.tags
  <2> SUFFICES ASSUME TypeOK, SyncTags,
                      NEW k \in DOMAIN rg.cfg.tags \cap DOMAIN desired.spec.tags
               PROVE  k \in DOMAIN rg'.cfg.tags
    OBVIOUS
  <2> DEFINE tags == T!SyncTags(desired.spec.tags, latest.spec.tags, rg.cfg.tags)
  <2>1. k \in DOMAIN tags
    BY SyncTagsKeeps DEF TypeOK, CRs, Observations, Groups, Specs, Configs
  <2> HIDE DEF tags
  <2>2. \/ UNCHANGED rg
        \/ rg' = [rg EXCEPT !.status = "modifying", !.cfg.tags = tags, !.target.tags = tags]
    BY DEF SyncTags, tags
  <2>3. CASE rg' = [rg EXCEPT !.status = "modifying", !.cfg.tags = tags, !.target.tags = tags]
    <3>1. rg'.cfg = [rg.cfg EXCEPT !.tags = tags]
      BY <2>3 DEF TypeOK, Groups
    <3>2. rg'.cfg.tags = tags
      BY <3>1 DEF TypeOK, Groups, Configs
    <3> QED
      BY <2>1, <3>2
  <2> QED
    BY <2>2, <2>3
<1> QED
  BY <1>1, TypeCorrect, PTL DEF Spec, KeptTagsStay

(* Two functions of the same domain and values are the same tags. *)
LEMMA SameTags ==
  ASSUME NEW a \in T!TagMaps, NEW b \in T!TagMaps, DOMAIN a = DOMAIN b,
         \A k \in DOMAIN a : a[k] = b[k]
  PROVE  a = b
<1>1. PICK A \in SUBSET TagKeys : a \in [A -> TagValues]
  BY DEF T!TagMaps
<1>2. PICK B \in SUBSET TagKeys : b \in [B -> TagValues]
  BY DEF T!TagMaps
<1>3. A = B
  BY <1>1, <1>2
<1> QED
  BY <1>1, <1>2, <1>3

(* What one call leaves: the wanted value of every wanted key, and no other *)
(* key if there was nothing to add.                                         *)
LEMMA OneCall ==
  ASSUME NEW d \in T!TagMaps, NEW a \in T!TagMaps
  PROVE  /\ \A k \in DOMAIN d : /\ k \in DOMAIN T!SyncTags(d, a, a)
                              /\ T!SyncTags(d, a, a)[k] = d[k]
         /\ T!ToAdd(d, a) = {} => T!SyncTags(d, a, a) = d
<1>1. CASE T!ToAdd(d, a) # {}
  BY <1>1 DEF T!SyncTags, T!AddTagsToResource, T!ToAdd, T!DifferenceAdded
<1>2. CASE T!ToAdd(d, a) = {}
  <2>1. \A k \in DOMAIN d : k \in DOMAIN a /\ a[k] = d[k]
    BY <1>2 DEF T!ToAdd, T!DifferenceAdded
  <2>2. T!ToRemove(d, a) = DOMAIN a \ DOMAIN d
    BY <1>2, <2>1 DEF T!ToRemove, T!DifferenceRemoved
  <2>3. T!SyncTags(d, a, a) = [k \in DOMAIN a \ (DOMAIN a \ DOMAIN d) |-> a[k]]
    BY <1>2, <2>2 DEF T!SyncTags, T!RemoveTagsFromResource
  <2>4. DOMAIN a \ (DOMAIN a \ DOMAIN d) = DOMAIN d
    BY <2>1
  <2>5. /\ DOMAIN T!SyncTags(d, a, a) = DOMAIN d
        /\ \A k \in DOMAIN d : T!SyncTags(d, a, a)[k] = d[k]
    BY <2>1, <2>3, <2>4
  <2>6. T!SyncTags(d, a, a) = d
    BY <2>5, SyncTagsType, SameTags
  <2> QED
    BY <2>5, <2>6
<1> QED
  BY <1>1, <1>2

(* Left alone, the tags are the wanted ones after two calls at most, and    *)
(* stay: one call adds, the next removes, as util.SyncTags requeues for.    *)
THEOREM SyncTagsConverges ==
  \A d, a \in T!TagMaps :
    LET once  == T!SyncTags(d, a, a)
        twice == T!SyncTags(d, once, once)
    IN  twice = d /\ T!SyncTags(d, d, d) = d
<1> SUFFICES ASSUME NEW d \in T!TagMaps, NEW a \in T!TagMaps
             PROVE  LET once  == T!SyncTags(d, a, a)
                        twice == T!SyncTags(d, once, once)
                    IN  twice = d /\ T!SyncTags(d, d, d) = d
  OBVIOUS
<1> DEFINE once == T!SyncTags(d, a, a)
<1>1. once \in T!TagMaps
  BY SyncTagsType
<1>2. \A k \in DOMAIN d : k \in DOMAIN once /\ once[k] = d[k]
  BY OneCall
<1> HIDE DEF once
<1>3. T!ToAdd(d, once) = {} /\ T!ToAdd(d, d) = {}
  BY <1>2 DEF T!ToAdd, T!DifferenceAdded
<1>4. T!SyncTags(d, once, once) = d /\ T!SyncTags(d, d, d) = d
  BY <1>1, <1>3, OneCall
<1> QED
  BY <1>4 DEF once

-----------------------------------------------------------------------------
(* What a pass reports.                                                    *)

(* User groups are compared but never sent (ModifyReplicationGroup), so the *)
(* report can be true only of a resource whose user groups nobody edits:    *)
(* they are then the same in every copy.                                    *)
SameUserGroups ==
  /\ rg.cfg.ugs = cr.spec.ugs /\ rg.target.ugs = cr.spec.ugs
  /\ desired.spec.ugs = cr.spec.ugs /\ latest.spec.ugs = cr.spec.ugs

(* What a step does to them. *)
UserGroupsCopied ==
  /\ cr'.spec.ugs \in {cr.spec.ugs, latest.spec.ugs}
  /\ rg'.cfg.ugs \in {rg.cfg.ugs, rg.target.ugs, desired.spec.ugs}
  /\ rg'.target.ugs \in {rg.cfg.ugs, rg.target.ugs, desired.spec.ugs}
  /\ desired'.spec.ugs \in {cr.spec.ugs, desired.spec.ugs}
  /\ latest'.spec.ugs \in {desired.spec.ugs, latest.spec.ugs, rg.cfg.ugs, rg'.cfg.ugs}

LEMMA CopiesAreTheSame == SameUserGroups /\ UserGroupsCopied => SameUserGroups'
  BY DEF SameUserGroups, UserGroupsCopied

(* The specs of what operations return. *)
LEMMA FailuresKeepSpec ==
  ASSUME NEW r \in Observations, NEW e, FailWith(r, e) \/ DeleteReturns(r, e)
  PROVE  latest'.spec = r.spec /\ UNCHANGED desired
  BY DEF FailWith, DeleteReturns, Observations

LEMMA OutputsHaveUserGroups ==
  /\ \A r : Described(r) => \A b : sdkFind(r, b).spec.ugs = rg.cfg.ugs
  /\ \A d : Described(d) => \A g : setReplicationGroupOutput(d, g).spec.ugs = g.cfg.ugs
  /\ \A r : asLatest(r).spec = r.spec
<1>1. ASSUME NEW r, Described(r), NEW b PROVE sdkFind(r, b).spec.ugs = rg.cfg.ugs
  BY <1>1 DEF sdkFind, updateSpecFields, Described, Specs
<1>2. ASSUME NEW d, Described(d), NEW g
      PROVE  setReplicationGroupOutput(d, g).spec.ugs = g.cfg.ugs
  BY <1>2 DEF setReplicationGroupOutput, Described, Specs
<1> QED
  BY <1>1, <1>2 DEF asLatest

LEMMA EnvironmentKeepsUserGroups ==
  ASSUME TypeOK, User \/ AwsProgress \/ AwsMay \/ Crash \/ UNCHANGED vars,
         "ugs" \notin Editable
  PROVE  UserGroupsCopied
<1> USE DEF UserGroupsCopied, crVars, ctlVars, vars
<1>1. CASE UserEdit
  <2>1. PICK s \in Specs : /\ s.ugs = cr.spec.ugs
                           /\ cr' = [cr EXCEPT !.spec = s]
    BY <1>1 DEF UserEdit, Specs
  <2> QED
    BY <1>1, <2>1 DEF UserEdit, TypeOK, CRs
<1>2. CASE UserDelete
  BY <1>2 DEF UserDelete, TypeOK, CRs
<1>3. CASE AwsProgress
  BY <1>3 DEF TypeOK, Groups, AwsProgress, AwsCreated, AwsApplied, AwsSettled, AwsSnapshotEnds,
              AwsDeleted
<1>4. CASE AwsMay
  BY <1>4 DEF TypeOK, Groups, AwsMay, AwsCreateFailed, AwsAppliedUnsettled, AwsRolledBack,
              AwsSnapshotStarts
<1>5. CASE Crash \/ UNCHANGED vars
  BY <1>5 DEF Crash
<1> QED
  BY <1>1, <1>2, <1>3, <1>4, <1>5 DEF User

LEMMA PassKeepsUserGroups ==
  ASSUME TypeOK,
         \/ Fetch \/ FetchGone \/ ReadOne \/ ReadOneNotFound \/ ReadOneFails
         \/ Manage \/ Create \/ CreateFails \/ ReadBack \/ ReadBackFails
         \/ PatchSpec \/ LateInitialize \/ PatchStatus
  PROVE  UserGroupsCopied
<1> USE DEF UserGroupsCopied, crVars, ctlVars, histVars
<1>0. /\ asLatest(desired) \in Observations /\ asLatest(desired).spec = desired.spec
      /\ Described(desired)
  BY asLatestType, OutputsHaveUserGroups, RecordsDescribed DEF TypeOK
<1>1. CASE Fetch                  BY <1>1 DEF Fetch, TypeOK, CRs
<1>2. CASE FetchGone              BY <1>2 DEF FetchGone
<1>3. CASE ReadOne
  BY <1>0, <1>3, OutputsHaveUserGroups DEF ReadOne
<1>4. CASE ReadOneNotFound        BY <1>4 DEF ReadOneNotFound
<1>5. CASE ReadOneFails
  BY <1>0, <1>5, FailuresKeepSpec DEF ReadOneFails
<1>6. CASE Manage                 BY <1>6 DEF Manage, TypeOK, CRs
<1>7. CASE Create
  <2>1. PICK c \in Configs : /\ Fits(c, desired.spec)
                             /\ rg' = [status |-> "creating", cfg |-> c, target |-> c,
                                       settled |-> TRUE]
    BY <1>7 DEF Create, Creating
  <2>2. desired.spec \in Specs /\ desired.spec.ugs # None
    BY RGAssumption DEF TypeOK, CRs, Specs
  <2>3. c.ugs = desired.spec.ugs
    BY <2>1, <2>2 DEF Fits, Specs
  <2>4. createOutput(desired, rg').spec.ugs = rg'.cfg.ugs
    BY <1>0, OutputsHaveUserGroups DEF createOutput, setReplicationGroupOutput
  <2>5. /\ latest'.spec \in {createOutput(desired, rg').spec, desired.spec}
        /\ UNCHANGED <<cr, desired>>
    BY <1>0, <1>7, FailuresKeepSpec DEF Create
  <2>6. rg'.cfg.ugs = desired.spec.ugs /\ rg'.target.ugs = desired.spec.ugs
    BY <2>1, <2>3
  <2>7. latest'.spec.ugs \in {rg'.cfg.ugs, desired.spec.ugs}
    BY <2>4, <2>5
  <2> QED
    BY <2>5, <2>6, <2>7
<1>8. CASE CreateFails
  BY <1>0, <1>8, FailuresKeepSpec DEF CreateFails
<1>9. CASE ReadBack               BY <1>9 DEF ReadBack, TypeOK, Observations
<1>10. CASE ReadBackFails         BY <1>10 DEF ReadBackFails
<1>11. CASE PatchSpec
  <2>1. PatchedSpec(cr.spec, desired.spec, latest.spec).ugs \in {cr.spec.ugs, latest.spec.ugs}
    BY DEF PatchedSpec, Patched
  <2>2. cr'.spec \in {cr.spec, PatchedSpec(cr.spec, desired.spec, latest.spec)}
    BY <1>11 DEF PatchSpec, TypeOK, CRs
  <2> QED
    BY <1>11, <2>1, <2>2 DEF PatchSpec
<1>12. CASE LateInitialize        BY <1>12 DEF LateInitialize, TypeOK, Observations
<1>13. CASE PatchStatus           BY <1>13 DEF PatchStatus, TypeOK, CRs
<1> QED
  BY <1>1, <1>2, <1>3, <1>4, <1>5, <1>6, <1>7, <1>8, <1>9, <1>10, <1>11, <1>12, <1>13

LEMMA DeletionKeepsUserGroups ==
  ASSUME TypeOK,
         \/ ReadDelete \/ ReadDeleteNotFound \/ ReadDeleteFails
         \/ DeleteWaits \/ Delete \/ Unmanage
  PROVE  UserGroupsCopied
<1> USE DEF UserGroupsCopied, crVars, ctlVars, histVars
<1>1. CASE ReadDelete
  BY <1>1, OutputsHaveUserGroups, RecordsDescribed DEF ReadDelete, TypeOK
<1>2. CASE ReadDeleteNotFound     BY <1>2 DEF ReadDeleteNotFound
<1>3. CASE ReadDeleteFails
  BY <1>3, OutputsHaveUserGroups DEF ReadDeleteFails
<1>4. CASE DeleteWaits
  <2>1. [latest EXCEPT !.cond.synced = "False"] \in Observations
    BY DEF TypeOK, Observations, Conds, CondStatus
  <2>2. latest'.spec = latest.spec /\ UNCHANGED desired
    BY <1>4, <2>1, FailuresKeepSpec DEF DeleteWaits, TypeOK, Observations
  <2> QED
    BY <1>4, <2>2 DEF DeleteWaits
<1>5. CASE Delete
  <2>1. rg' \in Groups /\ rg'.cfg = rg.cfg /\ rg'.target \in {rg.cfg, rg.target}
    BY <1>5, DeletionType DEF Delete, TypeOK, Groups
  <2>2. /\ setReplicationGroupOutput(latest, rg') \in Observations
        /\ setReplicationGroupOutput(latest, rg').spec.ugs = rg'.cfg.ugs
    BY <2>1, RecordsDescribed, setReplicationGroupOutputType, OutputsHaveUserGroups DEF TypeOK
  <2>3. /\ deleteOutput(latest, rg') \in Observations
        /\ deleteOutput(latest, rg').spec.ugs = rg'.cfg.ugs
    BY <2>2 DEF deleteOutput, Observations, Conds, CondStatus
  <2>4. \/ DeleteReturns(deleteOutput(latest, rg'), "requeue")
        \/ \E e \in {"awsOther", "awsTerminal"} : DeleteReturns(latest, e)
    BY <1>5 DEF Delete
  <2>5. latest'.spec.ugs \in {rg'.cfg.ugs, latest.spec.ugs} /\ UNCHANGED desired
    BY <2>3, <2>4, FailuresKeepSpec DEF TypeOK
  <2> QED
    BY <1>5, <2>1, <2>5 DEF Delete
<1>6. CASE Unmanage               BY <1>6 DEF Unmanage, TypeOK, CRs
<1> QED
  BY <1>1, <1>2, <1>3, <1>4, <1>5, <1>6

(* A call that modifies the group to g ends in one of two ways: it answers  *)
(* what was made of g, or it fails, having made g or nothing of the group.  *)
AnsweredOrFailed(g, answer) ==
  \/ /\ rg.status = "available" /\ rg' = g
     /\ latest' = answer /\ pc' = "patchSpec" /\ UNCHANGED <<desired, err>>
  \/ /\ UNCHANGED rg \/ (rg.status = "available" /\ rg' = g)
     /\ \E e \in {"awsOther", "awsTerminal"} : FailWith(latest, e)

(* The group the calls make. *)
replicasCall == Modified(rg.cfg, [rg.cfg EXCEPT !.replicas = desired.spec.replicas])
shardsCall == Modified(rg.cfg, [rg.cfg EXCEPT !.shards = desired.spec.shards])
versionCall(v) == Modified(rg.cfg, [rg.cfg EXCEPT !.ev = v])
atOnceConfig == [rg.cfg EXCEPT !.desc = desired.spec.desc]
genericCall == Modified(atOnceConfig, [atOnceConfig EXCEPT !.cnt = desired.spec.cnt,
                                                           !.af = desired.spec.af])

(* The modifying calls are such calls, and leave the custom resource alone. *)
LEMMA ModifyingCalls ==
  /\ IncreaseReplicaCount \/ DecreaseReplicaCount =>
       AnsweredOrFailed(replicasCall, setOutput(replicasCall)) /\ UNCHANGED crVars
  /\ UpdateShardConfiguration =>
       AnsweredOrFailed(shardsCall, shardsOutput(shardsCall)) /\ UNCHANGED crVars
  /\ ModifyVersion =>
       \E v \in Installs(desired.spec.ev) :
         AnsweredOrFailed(versionCall(v), setOutput(versionCall(v))) /\ UNCHANGED crVars
  /\ ModifyReplicationGroup =>
       AnsweredOrFailed(genericCall, modifyOutput(genericCall)) /\ UNCHANGED crVars
<1> USE DEF AnsweredOrFailed, ModifyCall
<1>1. IncreaseReplicaCount \/ DecreaseReplicaCount =>
        AnsweredOrFailed(replicasCall, setOutput(replicasCall)) /\ UNCHANGED crVars
  BY DEF IncreaseReplicaCount, DecreaseReplicaCount, replicasCall
<1>2. UpdateShardConfiguration =>
        AnsweredOrFailed(shardsCall, shardsOutput(shardsCall)) /\ UNCHANGED crVars
  BY DEF UpdateShardConfiguration, shardsCall
<1>3. ModifyVersion =>
        \E v \in Installs(desired.spec.ev) :
          AnsweredOrFailed(versionCall(v), setOutput(versionCall(v))) /\ UNCHANGED crVars
  BY DEF ModifyVersion, versionCall
<1>4. ModifyReplicationGroup =>
        AnsweredOrFailed(genericCall, modifyOutput(genericCall)) /\ UNCHANGED crVars
  BY DEF ModifyReplicationGroup, genericCall, atOnceConfig
<1> QED
  BY <1>1, <1>2, <1>3, <1>4

(* What Modified makes of the group. *)
LEMMA ModifiedIs ==
  ASSUME TypeOK, NEW a, NEW t
  PROVE  /\ Modified(a, t).cfg = a /\ Modified(a, t).target = t
         /\ Modified(a, t).settled = rg.settled
         /\ Modified(a, t).status = IF t # a THEN "modifying" ELSE "available"
  BY DEF TypeOK, Groups, Modified

LEMMA ModifyCallKeepsUserGroups ==
  ASSUME TypeOK, UNCHANGED crVars,
         NEW g, g.cfg.ugs = rg.cfg.ugs, g.target.ugs = rg.cfg.ugs,
         NEW r, r.spec.ugs \in {g.cfg.ugs, desired.spec.ugs}, AnsweredOrFailed(g, r)
  PROVE  UserGroupsCopied
<1>1. (\E e : FailWith(latest, e)) => latest'.spec = latest.spec /\ UNCHANGED desired
  BY FailuresKeepSpec DEF TypeOK
<1> QED
  BY <1>1 DEF UserGroupsCopied, AnsweredOrFailed, crVars

LEMMA UpdateKeepsUserGroups ==
  ASSUME TypeOK, Update
  PROVE  UserGroupsCopied
<1> USE DEF crVars, ctlVars, histVars
<1>0. /\ rg.cfg \in Configs /\ desired.spec \in Specs /\ Described(desired)
      /\ \A g : setOutput(g).spec.ugs = g.cfg.ugs
  BY RecordsDescribed, OutputsHaveUserGroups DEF TypeOK, Groups, CRs, setOutput
<1>1. CASE WaitAvailable \/ RefuseNodeType \/ RefuseShards
  <2>1. /\ \E e : FailWith(latest, e)
        /\ UNCHANGED <<cr, rg>>
    BY <1>1 DEF WaitAvailable, RefuseNodeType, RefuseShards
  <2>2. latest'.spec = latest.spec /\ UNCHANGED desired
    BY <2>1, FailuresKeepSpec DEF TypeOK
  <2> QED
    BY <2>1, <2>2 DEF UserGroupsCopied
<1>2. CASE Panic
  BY <1>2 DEF Panic, UserGroupsCopied
<1>3. CASE SyncTags
  <2> DEFINE tags == T!SyncTags(desired.spec.tags, latest.spec.tags, rg.cfg.tags)
             g == [rg EXCEPT !.status = "modifying", !.cfg.tags = tags, !.target.tags = tags]
  <2>1. /\ \E e : FailWith(latest, e)
        /\ rg' \in {rg, g} /\ UNCHANGED cr
    BY <1>3 DEF SyncTags
  <2> HIDE DEF tags
  <2>2. g.cfg = [rg.cfg EXCEPT !.tags = tags] /\ g.target = [rg.target EXCEPT !.tags = tags]
    BY DEF TypeOK, Groups
  <2>3. g.cfg.ugs = rg.cfg.ugs /\ g.target.ugs = rg.target.ugs
    BY <2>2 DEF TypeOK, Groups, Configs
  <2> HIDE DEF g
  <2>4. latest'.spec = latest.spec /\ UNCHANGED desired
    BY <2>1, FailuresKeepSpec DEF TypeOK
  <2> QED
    BY <2>1, <2>3, <2>4 DEF UserGroupsCopied
<1>4. CASE IncreaseReplicaCount \/ DecreaseReplicaCount
  <2>1. replicasCall.cfg.ugs = rg.cfg.ugs /\ replicasCall.target.ugs = rg.cfg.ugs
    BY <1>0, ModifiedIs DEF replicasCall, Configs
  <2>2. AnsweredOrFailed(replicasCall, setOutput(replicasCall)) /\ UNCHANGED crVars
    BY <1>4, ModifyingCalls
  <2>3. setOutput(replicasCall).spec.ugs = replicasCall.cfg.ugs
    BY <1>0
  <2> HIDE DEF crVars
  <2> QED
    BY <2>1, <2>2, <2>3, ModifyCallKeepsUserGroups
<1>5. CASE UpdateShardConfiguration
  <2>1. shardsCall.cfg.ugs = rg.cfg.ugs /\ shardsCall.target.ugs = rg.cfg.ugs
    BY <1>0, ModifiedIs DEF shardsCall, Configs
  <2>2. shardsOutput(shardsCall).spec = setOutput(shardsCall).spec
    BY DEF shardsOutput, setOutput, setReplicationGroupOutput
  <2>3. AnsweredOrFailed(shardsCall, shardsOutput(shardsCall)) /\ UNCHANGED crVars
    BY <1>5, ModifyingCalls
  <2>4. shardsOutput(shardsCall).spec.ugs = shardsCall.cfg.ugs
    BY <1>0, <2>2
  <2> HIDE DEF crVars
  <2> QED
    BY <2>1, <2>3, <2>4, ModifyCallKeepsUserGroups
<1>6. CASE ModifyVersion
  <2>1. PICK v : /\ AnsweredOrFailed(versionCall(v), setOutput(versionCall(v)))
                 /\ UNCHANGED crVars
    BY <1>6, ModifyingCalls
  <2>2. versionCall(v).cfg.ugs = rg.cfg.ugs /\ versionCall(v).target.ugs = rg.cfg.ugs
    BY <1>0, ModifiedIs DEF versionCall, Configs
  <2>3. setOutput(versionCall(v)).spec.ugs = versionCall(v).cfg.ugs
    BY <1>0
  <2> HIDE DEF crVars
  <2> QED
    BY <2>1, <2>2, <2>3, ModifyCallKeepsUserGroups
<1>7. CASE ModifyReplicationGroup
  <2>1. atOnceConfig.ugs = rg.cfg.ugs
    BY <1>0 DEF atOnceConfig, Configs
  <2>2. [atOnceConfig EXCEPT !.cnt = desired.spec.cnt, !.af = desired.spec.af].ugs
          = rg.cfg.ugs
    BY <1>0 DEF atOnceConfig, Configs
  <2> DEFINE t == [atOnceConfig EXCEPT !.cnt = desired.spec.cnt, !.af = desired.spec.af]
  <2>3. genericCall.cfg = atOnceConfig /\ genericCall.target = t
    BY ModifiedIs DEF genericCall
  <2>4. genericCall.cfg.ugs = rg.cfg.ugs /\ genericCall.target.ugs = rg.cfg.ugs
    BY <2>1, <2>2, <2>3
  <2>5. modifyOutput(genericCall).spec.ugs = setOutput(genericCall).spec.ugs
    BY <1>0 DEF modifyOutput, setOutput, setReplicationGroupOutput, Specs
  <2>6. AnsweredOrFailed(genericCall, modifyOutput(genericCall)) /\ UNCHANGED crVars
    BY <1>7, ModifyingCalls
  <2>7. modifyOutput(genericCall).spec.ugs = genericCall.cfg.ugs
    BY <1>0, <2>5
  <2> HIDE DEF crVars
  <2> QED
    BY <2>4, <2>6, <2>7, ModifyCallKeepsUserGroups
<1> QED
  BY <1>1, <1>2, <1>3, <1>4, <1>5, <1>6, <1>7 DEF Update

LEMMA SameUserGroupsInductive ==
  ASSUME TypeOK, SameUserGroups, [Next]_vars, "ugs" \notin Editable
  PROVE  SameUserGroups'
  BY EnvironmentKeepsUserGroups, PassKeepsUserGroups, DeletionKeepsUserGroups,
     UpdateKeepsUserGroups, CopiesAreTheSame DEF Next, Controller

LEMMA SameUserGroupsInit == Init => SameUserGroups
<1> SUFFICES ASSUME Init PROVE SameUserGroups
  OBVIOUS
<1>1. PICK s \in InitSpecs, c \in Configs :
        /\ Fits(c, s) /\ cr.spec = s /\ desired = cr /\ latest.spec = s
        /\ rg.cfg = c /\ rg.target = c
  BY DEF Init
<1>2. s.ugs \in UserGroups /\ "ugs" \in DOMAIN s \ {"ev"}
  BY RGAssumption DEF Specs
<1>3. c.ugs = s.ugs
  BY <1>1, <1>2, RGAssumption DEF Fits
<1> QED
  BY <1>1, <1>3 DEF SameUserGroups

(* The group is not about to change. *)
AtRest == rg.status \in {"available", "snapshotting"}

(* What a read told of the group, as long as it stays at rest. *)
Found ==
  /\ AtRest
  /\ latest.spec.cnt = rg.cfg.cnt /\ latest.spec.desc = rg.cfg.desc
  /\ latest.af = rg.cfg.af
  /\ desired.spec.shards # None => latest.spec.shards = rg.cfg.shards
  /\ desired.spec.replicas # None => latest.spec.replicas = rg.cfg.replicas
  /\ ~ReturnsEarly(desired) => latest.spec.tags = rg.cfg.tags
  /\ latest.spec.ev \in {desired.spec.ev, rg.cfg.ev}
  /\ desired.spec.ev # None /\ "describeCacheCluster" \notin FaultKinds =>
       latest.spec.ev = rg.cfg.ev

(* What is claimed of it with a resource that is synced. *)
Told ==
  /\ AtRest
  /\ Matches(desired.spec, rg.cfg)
  /\ ~ReturnsEarly(desired) => rg.cfg.tags = desired.spec.tags
  /\ VersionTold => rg.cfg.ev \in Installs(desired.spec.ev)

Concluding == pc \in {"patchSpec", "lateInit", "patchStatus"} /\ err = "none" /\ ~desired.del

(* A pass that goes into an update has found the group as it is. *)
FoundInv == pc = "update" /\ latest.status = "available" => Found

(* And one that ends well and synced saw it available, and tells the truth. *)
(* A group read back was in creation when the response was made: it is not  *)
(* synced.                                                                  *)
ClaimsInv ==
  /\ FoundInv
  /\ pc = "readBack" => latest.status = "creating"
  /\ Concluding /\ latest.cond.synced # "False" /\ latest.status # "create-failed" => Told

(* Nothing is claimed by a pass that has not read, has failed, or deletes. *)
ClaimsNothing == pc \notin {"readBack", "update"} /\ ~Concluding

LEMMA NothingClaimed == ClaimsNothing => ClaimsInv
  BY DEF ClaimsNothing, ClaimsInv, FoundInv

(* The group at rest stays as it is. *)
Rests == AtRest => AtRest' /\ rg'.cfg = rg.cfg

(* What was claimed of a group that rests may still be. *)
LEMMA ClaimsStand ==
  ASSUME ClaimsInv, Rests, UNCHANGED <<pc, desired, latest, err>>
  PROVE  ClaimsInv'
  BY DEF ClaimsInv, FoundInv, Rests, Found, Told, VersionTold, Concluding, Matches

LEMMA OthersLetRest ==
  ASSUME TypeOK, User \/ AwsProgress \/ AwsMay \/ UNCHANGED vars
  PROVE  Rests /\ UNCHANGED <<pc, desired, latest, err>>
<1> USE DEF Rests, AtRest, TypeOK, Groups, ctlVars, vars
<1>1. CASE User
  BY <1>1 DEF User, UserEdit, UserDelete
<1>2. CASE AwsProgress
  BY <1>2 DEF AwsProgress, AwsCreated, AwsApplied, AwsSettled, AwsSnapshotEnds, AwsDeleted
<1>3. CASE AwsMay
  BY <1>3 DEF AwsMay, AwsCreateFailed, AwsAppliedUnsettled, AwsRolledBack, AwsSnapshotStarts
<1>4. CASE UNCHANGED vars
  BY <1>4
<1> QED
  BY <1>1, <1>2, <1>3, <1>4

(* A failure ends the pass with an error. *)
LEMMA FailuresClaimNothing ==
  ASSUME NEW r, NEW e \in Errors \ {"none"}, FailWith(r, e)
  PROVE  ClaimsNothing'
  BY DEF FailWith, onErrorResult, ClaimsNothing, Concluding

LEMMA StepsThatClaimNothing ==
  ASSUME TypeOK, LifecycleInv,
         \/ Fetch \/ FetchGone \/ ReadOneNotFound \/ ReadOneFails \/ Manage
         \/ CreateFails \/ ReadBackFails \/ PatchStatus
         \/ ReadDelete \/ ReadDeleteNotFound \/ ReadDeleteFails
         \/ DeleteWaits \/ Delete \/ Unmanage \/ Crash
         \/ SyncTags \/ WaitAvailable \/ RefuseNodeType \/ RefuseShards \/ Panic
  PROVE  ClaimsNothing'
<1> USE DEF ClaimsNothing, Concluding, crVars, ctlVars, histVars
<1>0. {"awsOther", "awsTerminal", "requeue", "v1Combination"} \subseteq Errors \ {"none"}
  BY DEF Errors
<1>1. CASE Fetch                  BY <1>1 DEF Fetch
<1>2. CASE FetchGone              BY <1>2 DEF FetchGone
<1>3. CASE ReadOneNotFound        BY <1>3 DEF ReadOneNotFound
<1>4. CASE Manage                 BY <1>4 DEF Manage
<1>5. CASE ReadOneFails \/ CreateFails
  <2>1. \E r : \E e \in {"awsOther", "awsTerminal"} : FailWith(r, e)
    BY <1>5 DEF ReadOneFails, CreateFails
  <2> QED
    BY <1>0, <2>1, FailuresClaimNothing
<1>6. CASE ReadBackFails          BY <1>6 DEF ReadBackFails
<1>7. CASE PatchStatus            BY <1>7 DEF PatchStatus
<1>8. CASE ReadDelete             BY <1>8 DEF ReadDelete
<1>9. CASE ReadDeleteNotFound     BY <1>9 DEF ReadDeleteNotFound
<1>10. CASE ReadDeleteFails       BY <1>10 DEF ReadDeleteFails
<1>11. CASE DeleteWaits \/ Delete
  <2>1. desired.del /\ UNCHANGED desired
    BY <1>11 DEF DeleteWaits, Delete, DeleteReturns, LifecycleInv, DeletesOnRequest
  <2>2. pc' = "patchSpec"
    BY <1>11 DEF DeleteWaits, Delete, DeleteReturns
  <2> QED
    BY <2>1, <2>2
<1>12. CASE Unmanage              BY <1>12 DEF Unmanage
<1>13. CASE Crash                 BY <1>13 DEF Crash
<1>14. CASE SyncTags \/ WaitAvailable \/ RefuseNodeType \/ RefuseShards
  <2>1. \E e \in {"awsOther", "awsTerminal", "requeue", "v1Combination"} :
          FailWith(latest, e)
    BY <1>14 DEF SyncTags, WaitAvailable, RefuseNodeType, RefuseShards
  <2> QED
    BY <1>0, <2>1, FailuresClaimNothing
<1>15. CASE Panic                 BY <1>15 DEF Panic
<1> QED
  BY <1>1, <1>2, <1>3, <1>4, <1>5, <1>6, <1>7, <1>8, <1>9, <1>10, <1>11, <1>12,
     <1>13, <1>14, <1>15

(* A read that saw the group available. *)
LEMMA sdkFindTells ==
  ASSUME TypeOK, NEW b \in BOOLEAN, rg.status = "available"
  PROVE  LET l == sdkFind(desired, b)
         IN  /\ l.spec.cnt = rg.cfg.cnt /\ l.spec.desc = rg.cfg.desc /\ l.af = rg.cfg.af
             /\ l.spec.ugs = rg.cfg.ugs
             /\ desired.spec.shards # None => l.spec.shards = rg.cfg.shards
             /\ desired.spec.replicas # None => l.spec.replicas = rg.cfg.replicas
             /\ ~ReturnsEarly(desired) => l.spec.tags = rg.cfg.tags
             /\ l.spec.ev \in {desired.spec.ev, rg.cfg.ev}
             /\ b /\ desired.spec.ev # None => l.spec.ev = rg.cfg.ev
<1>1. desired.spec \in Specs
  BY DEF TypeOK, CRs
<1>2. hasGroups(rg)
  BY DEF hasGroups
<1> DEFINE u == updateSpecFields(desired.spec, b)
<1>3. /\ desired.spec.shards # None => u.shards = rg.cfg.shards
      /\ desired.spec.replicas # None => u.replicas = rg.cfg.replicas
      /\ u.ev \in {desired.spec.ev, rg.cfg.ev}
      /\ b /\ desired.spec.ev # None => u.ev = rg.cfg.ev
  BY <1>1, <1>2 DEF updateSpecFields, Specs
<1>4. rg.cfg \in Configs
  BY DEF TypeOK, Groups
<1>5. u \in Specs
  BY <1>1, <1>4 DEF updateSpecFields, Specs, Configs, Releases
<1> HIDE DEF u
<1>6. sdkFind(desired, b).spec =
        [u EXCEPT !.cnt = rg.cfg.cnt, !.desc = rg.cfg.desc, !.ugs = rg.cfg.ugs,
                  !.tags = IF ReturnsEarly(desired) THEN @ ELSE rg.cfg.tags]
  BY DEF sdkFind, u
<1>7. sdkFind(desired, b).af = rg.cfg.af
  BY DEF sdkFind
<1> QED
  BY <1>3, <1>5, <1>6, <1>7 DEF Specs

(* Without a difference, what was read is what is wanted. *)
LEMMA NoDifference ==
  ASSUME NEW d, NEW l, newResourceDelta(d, l) = {}
  PROVE  /\ d.spec.cnt = l.spec.cnt /\ d.spec.shards = l.spec.shards
         /\ d.spec.replicas = l.spec.replicas /\ d.spec.desc = l.spec.desc
         /\ d.spec.ugs = l.spec.ugs /\ d.spec.af = l.af /\ d.spec.tags = l.spec.tags
         /\ ~versionsDiffer(d, l)
<1>1. \A f \in {"cnt", "shards", "replicas", "desc", "ugs", "tags"} : d.spec[f] = l.spec[f]
  BY DEF newResourceDelta
<1> QED
  BY <1>1 DEF newResourceDelta

(* A version that does not differ from the release read is one it may be.  *)
LEMMA VersionFound ==
  ASSUME TypeOK, NEW l, ~versionsDiffer(desired, l), l.spec.ev = rg.cfg.ev,
         desired.spec.ev # None
  PROVE  rg.cfg.ev \in Installs(desired.spec.ev)
<1>1. rg.cfg.ev \in Releases /\ rg.cfg.ev # None /\ desired.spec.ev \in Versions
  BY RGAssumption DEF TypeOK, CRs, Specs, Groups, Configs, Releases
<1>2. EngineVersionsMatch(desired.spec.ev, rg.cfg.ev)
  BY <1>1 DEF versionsDiffer, EngineVersionsMatch
<1> QED
  BY <1>1, <1>2, MatchingIsInstalled

(* A result of a read or of a call is synced as the response says. *)
LEMMA SuccessKeepsSynced ==
  ASSUME NEW c \in Conds
  PROVE  onSuccess(c).synced = c.synced
  BY DEF onSuccess, updateConditions, terminalAWSError, Conds

LEMMA ReadOneClaims ==
  ASSUME TypeOK, ReadOne
  PROVE  ClaimsInv'
<1>1. PICK b \in BOOLEAN : /\ latest' = sdkFind(desired, b)
                           /\ b \/ "describeCacheCluster" \in FaultKinds
  BY DEF ReadOne, Fault
<1>2. /\ UNCHANGED <<rg, desired, err>> /\ rg.status # "none"
      /\ pc' = IF newResourceDelta(desired, latest') # {} THEN "update" ELSE "lateInit"
  BY DEF ReadOne
<1>3. latest'.status = rg.status
  BY <1>1 DEF sdkFind
<1>4. ASSUME rg.status = "available" PROVE Found'
  BY <1>1, <1>2, <1>4, sdkFindTells DEF Found, AtRest
<1>5. ASSUME rg.status = "available", newResourceDelta(desired, latest') = {} PROVE Told'
  <2>1. Found' /\ latest'.spec.ugs = rg.cfg.ugs
    BY <1>1, <1>4, <1>5, sdkFindTells
  <2>2. Matches(desired.spec, rg.cfg)
    BY <1>2, <1>5, <2>1, NoDifference DEF Found, Matches
  <2>3. ~ReturnsEarly(desired) => rg.cfg.tags = desired.spec.tags
    BY <1>2, <1>5, <2>1, NoDifference DEF Found
  <2>4. ASSUME VersionTold'
        PROVE  rg.cfg.ev \in Installs(desired.spec.ev)
    <3>1. latest'.spec.ev = rg.cfg.ev /\ desired.spec.ev # None
      BY <1>2, <2>1, <2>4 DEF Found, VersionTold
    <3> QED
      BY <1>5, <3>1, NoDifference, VersionFound
  <2> QED
    BY <1>2, <1>5, <2>2, <2>3, <2>4 DEF Told, AtRest
<1>6. latest'.cond.synced # "False" => rg.status \in {"available", "create-failed"}
  <2>1. foundConds(desired) \in Conds
    BY RecordsDescribed DEF foundConds, syncedFromStatus, Described, Conds, CondStatus, TypeOK
  <2>2. latest'.cond.synced = foundConds(desired).synced
    BY <1>1, <2>1, SuccessKeepsSynced DEF sdkFind
  <2> QED
    BY <2>2 DEF foundConds, syncedFromStatus, TypeOK, CRs, Conds
<1> QED
  BY <1>2, <1>3, <1>4, <1>5, <1>6 DEF ClaimsInv, FoundInv, Concluding

(* A group just created is not synced, and what is read back of it is not   *)
(* either: sdkFind judges it by the status the creation returned.           *)
LEMMA CreationClaims ==
  ASSUME TypeOK, ClaimsInv, Create \/ ReadBack
  PROVE  ClaimsInv'
<1>1. CASE Create
  <2>1. rg'.status = "creating"
    BY <1>1 DEF Create, Creating
  <2>2. createOutput(desired, rg').status = "creating"
    BY <2>1 DEF createOutput, setReplicationGroupOutput
  <2>3. CASE FailWith(asLatest(desired), "awsOther")
    BY <2>3, FailuresClaimNothing, NothingClaimed
    DEF Errors, ClaimsNothing, ClaimsInv, FoundInv, Concluding
  <2>4. CASE latest' = createOutput(desired, rg') /\ pc' = "readBack"
    BY <2>2, <2>4 DEF ClaimsInv, FoundInv, Concluding
  <2> QED
    BY <1>1, <2>3, <2>4 DEF Create
<1>2. CASE ReadBack
  <2>1. latest.status = "creating" /\ latest.cond \in Conds
    BY <1>2 DEF ReadBack, ClaimsInv, FoundInv, TypeOK, Observations
  <2>2. onSuccess(foundConds(latest)).synced = "False"
    BY <2>1 DEF foundConds, isDeleting, isModifying, isCreating, onSuccess, updateConditions,
                terminalAWSError, Conds, syncedFromStatus
  <2>3. sdkFind(latest, TRUE).cond.synced = "False"
    BY <2>2 DEF sdkFind
  <2>4. latest'.cond.synced = "False" /\ pc' = "patchSpec"
    BY <1>2, <2>3 DEF ReadBack, TypeOK, Observations
  <2> QED
    BY <2>4 DEF ClaimsInv, FoundInv, Concluding
<1> QED
  BY <1>1, <1>2

(* The patch and the late initialization take over what was claimed. *)
LEMMA PatchClaims ==
  ASSUME TypeOK, ClaimsInv, PatchSpec \/ LateInitialize
  PROVE  ClaimsInv'
<1>1. CASE PatchSpec
  <2>1. UNCHANGED <<rg, desired, latest, err>> /\ pc = "patchSpec"
        /\ pc' \in {"patchStatus", "lateInit"}
    BY <1>1 DEF PatchSpec
  <2> QED
    BY <2>1 DEF ClaimsInv, FoundInv, Concluding, Told, VersionTold, AtRest, Matches
<1>2. CASE LateInitialize
  <2>1. UNCHANGED <<rg, desired>> /\ pc = "lateInit" /\ pc' = "patchStatus"
    BY <1>2 DEF LateInitialize
  <2>2. UNCHANGED <<latest, err>> \/ err' = "awsOther"
    BY <1>2 DEF LateInitialize
  <2> QED
    BY <2>1, <2>2 DEF ClaimsInv, FoundInv, Concluding, Told, VersionTold, AtRest, Matches
<1> QED
  BY <1>1, <1>2

-----------------------------------------------------------------------------
(* The updates.                                                            *)

(* The calls that modify the group are made of one found available. *)
LEMMA UpdatesAreOfFound ==
  ASSUME ClaimsInv, NEW step, Updating(step),
         step \in {"increase", "decrease", "shards", "version", "generic"}
  PROVE  Found /\ latest.status = "available"
<1>1. pc = "update" /\ updateStep(desired, latest) = step
  BY DEF Updating
<1>2. CustomModifyReplicationGroup(desired, latest) = step
  BY <1>1 DEF updateStep
<1>3. latest.status = "available"
  BY <1>2 DEF CustomModifyReplicationGroup
<1> QED
  BY <1>1, <1>3 DEF ClaimsInv, FoundInv

(* An answer claims something only if it comes with an available group, for *)
(* the response makes any other not synced; a failed call claims nothing.   *)
LEMMA AnswerClaims ==
  ASSUME NEW g, NEW r, AnsweredOrFailed(g, r), UNCHANGED crVars,
         g.status \in {"available", "modifying"}, r.cond.synced = syncedFromStatus(g),
         g.status = "available" /\ rg' = g /\ latest' = r /\ UNCHANGED desired => Told'
  PROVE  ClaimsInv'
<1>1. CASE \E e \in {"awsOther", "awsTerminal"} : FailWith(latest, e)
  <2>1. ClaimsNothing'
    BY <1>1, FailuresClaimNothing DEF Errors
  <2> QED
    BY <2>1 DEF ClaimsNothing, ClaimsInv, FoundInv, Concluding
<1>2. CASE rg' = g /\ latest' = r /\ pc' = "patchSpec" /\ UNCHANGED <<desired, err>>
  BY <1>2 DEF ClaimsInv, FoundInv, Concluding, syncedFromStatus
<1> QED
  BY <1>1, <1>2 DEF AnsweredOrFailed

LEMMA OutputSynced ==
  ASSUME TypeOK, NEW g
  PROVE  /\ setOutput(g).cond.synced = syncedFromStatus(g)
         /\ shardsOutput(g).cond.synced = syncedFromStatus(g)
         /\ modifyOutput(g).cond.synced = syncedFromStatus(g)
<1>1. /\ [desired.cond EXCEPT !.synced = syncedFromStatus(g)] \in Conds
      /\ [desired.cond EXCEPT !.synced = syncedFromStatus(g)].synced = syncedFromStatus(g)
  BY DEF TypeOK, CRs, Conds, CondStatus, syncedFromStatus
<1>2. setOutput(g).cond = onSuccess([desired.cond EXCEPT !.synced = syncedFromStatus(g)])
  BY DEF setOutput, setReplicationGroupOutput
<1>3. setOutput(g).cond.synced = syncedFromStatus(g)
  BY <1>1, <1>2, SuccessKeepsSynced
<1>4. shardsOutput(g).cond = setOutput(g).cond /\ modifyOutput(g).cond = setOutput(g).cond
  BY DEF shardsOutput, modifyOutput, setOutput, setReplicationGroupOutput
<1> QED
  BY <1>3, <1>4

(* Replicas are changed only if the number differs from the group's: the    *)
(* group is then modifying, and nothing is claimed.                         *)
LEMMA ReplicaCallsClaim ==
  ASSUME TypeOK, ClaimsInv, IncreaseReplicaCount \/ DecreaseReplicaCount
  PROVE  ClaimsInv'
<1>1. Found /\ latest.status = "available"
  BY UpdatesAreOfFound DEF IncreaseReplicaCount, DecreaseReplicaCount
<1>2. replicaCountDifference(desired, latest) # 0
  BY RGAssumption DEF IncreaseReplicaCount, DecreaseReplicaCount, Updating, updateStep,
     CustomModifyReplicationGroup, modifyReplicationGroup
<1>3. desired.spec.replicas # None /\ desired.spec.replicas # latest.spec.replicas
  <2>1. desired.spec.replicas # None
    BY <1>2 DEF replicaCountDifference
  <2>2. desired.spec.replicas \in Int
    BY <2>1, RGAssumption DEF TypeOK, CRs, Specs
  <2> QED
    BY <1>2, <2>1, <2>2 DEF replicaCountDifference
<1>4. [rg.cfg EXCEPT !.replicas = desired.spec.replicas] # rg.cfg
  <2>1. desired.spec.replicas # rg.cfg.replicas
    BY <1>1, <1>3 DEF Found
  <2> QED
    BY <2>1 DEF TypeOK, Groups, Configs
<1>5. replicasCall.status = "modifying"
  BY <1>4, ModifiedIs DEF replicasCall
<1> QED
  BY <1>5, ModifyingCalls, OutputSynced, AnswerClaims

LEMMA ShardsCallClaims ==
  ASSUME TypeOK, ClaimsInv, UpdateShardConfiguration
  PROVE  ClaimsInv'
<1>1. Found /\ latest.status = "available"
  BY UpdatesAreOfFound DEF UpdateShardConfiguration
<1>2. shardConfigurationsDiffer(desired, latest)
  BY DEF UpdateShardConfiguration, Updating, updateStep, CustomModifyReplicationGroup,
     modifyReplicationGroup
<1>3. desired.spec.shards # rg.cfg.shards
  BY <1>1, <1>2 DEF Found, shardConfigurationsDiffer
<1>4. [rg.cfg EXCEPT !.shards = desired.spec.shards] # rg.cfg
  BY <1>3 DEF TypeOK, Groups, Configs
<1>5. shardsCall.status = "modifying"
  BY <1>4, ModifiedIs DEF shardsCall
<1> QED
  BY <1>5, ModifyingCalls, OutputSynced, AnswerClaims

(* A version is changed only if the group's does not match it, so that no   *)
(* release the service may take for it is the one in force.                 *)
LEMMA VersionCallClaims ==
  ASSUME TypeOK, ClaimsInv, ModifyVersion, \A v \in Versions : SaysEnough(v)
  PROVE  ClaimsInv'
<1>1. Found /\ latest.status = "available"
  BY UpdatesAreOfFound DEF ModifyVersion
<1>2. desired.spec.ev # None /\ "ev" \in delta
  BY DEF ModifyVersion, Updating, updateStep, CustomModifyReplicationGroup,
     modifyReplicationGroup
<1>3. versionsDiffer(desired, latest)
  BY <1>2 DEF delta, newResourceDelta
<1>4. desired.spec.ev \in Versions /\ rg.cfg.ev \in Releases /\ rg.cfg.ev # None
  BY <1>2, RGAssumption DEF TypeOK, CRs, Specs, Groups, Configs, Releases
<1>5. latest.spec.ev = rg.cfg.ev /\ ~EngineVersionsMatch(desired.spec.ev, rg.cfg.ev)
  BY <1>1, <1>2, <1>3, <1>4 DEF versionsDiffer, Found
<1>6. rg.cfg.ev \notin Installs(desired.spec.ev)
  BY <1>4, <1>5, InstalledMatches
<1>7. PICK v \in Installs(desired.spec.ev) :
        AnsweredOrFailed(versionCall(v), setOutput(versionCall(v))) /\ UNCHANGED crVars
  BY ModifyingCalls
<1>8. [rg.cfg EXCEPT !.ev = v] # rg.cfg
  BY <1>6 DEF TypeOK, Groups, Configs
<1>9. versionCall(v).status = "modifying"
  BY <1>8, ModifiedIs DEF versionCall
<1> QED
  BY <1>7, <1>9, OutputSynced, AnswerClaims

(* The generic call leaves a group available only if node type and failover *)
(* were the wanted ones; then neither the shards nor the replicas differ,   *)
(* for the calls that change them come first.                               *)
LEMMA GenericCallTells ==
  ASSUME TypeOK, ClaimsInv, SameUserGroups, ModifyReplicationGroup,
         genericCall.status = "available", rg' = genericCall,
         latest' = modifyOutput(genericCall), UNCHANGED desired
  PROVE  Told'
<1>1. Found /\ latest.status = "available"
  BY UpdatesAreOfFound DEF ModifyReplicationGroup
<1>2. rg.cfg \in Configs /\ desired.spec \in Specs /\ latest.spec \in Specs
  BY DEF TypeOK, Groups, CRs, Observations
<1> DEFINE t == [atOnceConfig EXCEPT !.cnt = desired.spec.cnt, !.af = desired.spec.af]
<1>3. t = atOnceConfig /\ genericCall.cfg = atOnceConfig
  BY ModifiedIs DEF genericCall
<1>4. desired.spec.cnt = rg.cfg.cnt /\ desired.spec.af = rg.cfg.af
  <2>1. t.cnt = desired.spec.cnt /\ t.af = desired.spec.af
    BY <1>2 DEF atOnceConfig, Configs
  <2>2. atOnceConfig.cnt = rg.cfg.cnt /\ atOnceConfig.af = rg.cfg.af
    BY <1>2 DEF atOnceConfig, Configs
  <2> QED
    BY <1>3, <2>1, <2>2
<1>5. CustomModifyReplicationGroup(desired, latest) = "generic"
  BY DEF ModifyReplicationGroup, Updating, updateStep
<1>6. ~failoverTurnedOff(desired, latest)
  BY <1>1, <1>4 DEF failoverTurnedOff, Found
<1>7. ~scalesUp(desired)
  <2>1. desired.spec.cnt = latest.spec.cnt
    BY <1>1, <1>4 DEF Found
  <2>2. "cnt" \notin delta
    BY <2>1 DEF delta, newResourceDelta
  <2> QED
    BY <2>2 DEF scalesUp
<1>8. /\ ~(replicaCountDifference(desired, latest) > 0)
      /\ ~(replicaCountDifference(desired, latest) < 0)
      /\ ~shardConfigurationsDiffer(desired, latest)
  BY <1>5, <1>6, <1>7 DEF CustomModifyReplicationGroup
<1>9. desired.spec.shards \in {None, rg.cfg.shards}
  BY <1>1, <1>8 DEF shardConfigurationsDiffer, Found
<1>10. desired.spec.replicas \in {None, rg.cfg.replicas}
  <2> SUFFICES ASSUME desired.spec.replicas # None
               PROVE  desired.spec.replicas = rg.cfg.replicas
    OBVIOUS
  <2>1. latest.spec.replicas = rg.cfg.replicas
    BY <1>1 DEF Found
  <2>2. desired.spec.replicas \in Int /\ latest.spec.replicas \in Int
    BY <1>2, <2>1, RGAssumption DEF Specs, Configs
  <2> QED
    BY <1>8, <2>1, <2>2 DEF replicaCountDifference
<1>11. Matches(desired.spec, atOnceConfig)
  <2>1. /\ atOnceConfig.cnt = rg.cfg.cnt /\ atOnceConfig.af = rg.cfg.af
        /\ atOnceConfig.shards = rg.cfg.shards /\ atOnceConfig.replicas = rg.cfg.replicas
        /\ atOnceConfig.ugs = rg.cfg.ugs /\ atOnceConfig.desc = desired.spec.desc
    BY <1>2 DEF atOnceConfig, Configs
  <2> QED
    BY <1>4, <1>9, <1>10, <2>1 DEF Matches, SameUserGroups
<1>12. latest'.spec.ev = desired.spec.ev
  BY <1>2 DEF modifyOutput, setOutput, setReplicationGroupOutput, Specs
<1>13. ~ReturnsEarly(desired) => genericCall.cfg.tags = desired.spec.tags
  <2>1. "tags" \notin delta
    BY DEF ModifyReplicationGroup, Updating, updateStep
  <2>2. desired.spec.tags = latest.spec.tags
    BY <2>1 DEF delta, newResourceDelta
  <2>3. genericCall.cfg.tags = rg.cfg.tags
    BY <1>2, <1>3 DEF atOnceConfig, Configs
  <2> QED
    BY <1>1, <2>2, <2>3 DEF Found
<1>14. ASSUME desired.spec.ev # None, "describeCacheCluster" \notin FaultKinds
       PROVE  genericCall.cfg.ev \in Installs(desired.spec.ev)
  <2>1. "ev" \notin delta
    BY <1>5, <1>6, <1>7, <1>8, <1>14
    DEF CustomModifyReplicationGroup, modifyReplicationGroup
  <2>2. ~versionsDiffer(desired, latest)
    BY <2>1 DEF delta, newResourceDelta
  <2>3. genericCall.cfg.ev = rg.cfg.ev
    BY <1>2, <1>3 DEF atOnceConfig, Configs
  <2> QED
    BY <1>1, <1>14, <2>2, <2>3, VersionFound DEF Found
<1> QED
  BY <1>3, <1>11, <1>12, <1>13, <1>14 DEF Told, VersionTold, AtRest

LEMMA GenericCallClaims ==
  ASSUME TypeOK, ClaimsInv, SameUserGroups, ModifyReplicationGroup
  PROVE  ClaimsInv'
<1>1. AnsweredOrFailed(genericCall, modifyOutput(genericCall)) /\ UNCHANGED crVars
  BY ModifyingCalls
<1>2. genericCall.status \in {"available", "modifying"}
  BY ModifiedIs DEF genericCall
<1> QED
  BY <1>1, <1>2, GenericCallTells, OutputSynced, AnswerClaims

(* Only a read finds something, and it does on its own. *)
LEMMA FoundInductive ==
  ASSUME TypeOK, LifecycleInv, FoundInv, [Next]_vars
  PROVE  FoundInv'
<1>1. CASE ClaimsNothing'
  BY <1>1 DEF ClaimsNothing, FoundInv
<1>2. CASE User \/ AwsProgress \/ AwsMay \/ UNCHANGED vars
  BY <1>2, OthersLetRest DEF FoundInv, Found, Rests
<1>3. CASE ReadOne
  BY <1>3, ReadOneClaims DEF ClaimsInv
<1>4. CASE \/ Create \/ ReadBack \/ PatchSpec \/ LateInitialize
           \/ IncreaseReplicaCount \/ DecreaseReplicaCount \/ UpdateShardConfiguration
           \/ ModifyVersion \/ ModifyReplicationGroup
  <2>1. pc' # "update"
    <3>1. CASE Create \/ ReadBack \/ PatchSpec \/ LateInitialize
      BY <3>1 DEF Create, ReadBack, PatchSpec, LateInitialize, FailWith
    <3>2. CASE \/ IncreaseReplicaCount \/ DecreaseReplicaCount \/ UpdateShardConfiguration
               \/ ModifyVersion \/ ModifyReplicationGroup
      BY <3>2, ModifyingCalls DEF AnsweredOrFailed, FailWith
    <3> QED
      BY <1>4, <3>1, <3>2
  <2> QED
    BY <2>1 DEF FoundInv
<1> QED
  BY <1>1, <1>2, <1>3, <1>4, StepsThatClaimNothing DEF Next, Controller, Update

LEMMA ClaimsInductive ==
  ASSUME TypeOK, LifecycleInv, SameUserGroups, ClaimsInv, [Next]_vars,
         \A v \in Versions : SaysEnough(v)
  PROVE  ClaimsInv'
<1>1. CASE ClaimsNothing'
  BY <1>1 DEF ClaimsNothing, ClaimsInv, FoundInv, Concluding
<1>2. CASE User \/ AwsProgress \/ AwsMay \/ UNCHANGED vars
  BY <1>2, OthersLetRest, ClaimsStand
<1>3. CASE ReadOne
  BY <1>3, ReadOneClaims
<1>4. CASE Create \/ ReadBack
  BY <1>4, CreationClaims
<1>5. CASE PatchSpec \/ LateInitialize
  BY <1>5, PatchClaims
<1>6. CASE IncreaseReplicaCount \/ DecreaseReplicaCount
  BY <1>6, ReplicaCallsClaim
<1>7. CASE UpdateShardConfiguration
  BY <1>7, ShardsCallClaims
<1>8. CASE ModifyVersion
  BY <1>8, VersionCallClaims
<1>9. CASE ModifyReplicationGroup
  BY <1>9, GenericCallClaims
<1> QED
  BY <1>1, <1>2, <1>3, <1>4, <1>5, <1>6, <1>7, <1>8, <1>9, StepsThatClaimNothing
  DEF Next, Controller, Update

(* A pass that ends without error and reports Synced=True tells the truth   *)
(* about a group that could be created: configuration, tags that were read  *)
(* and version, whatever fails, is lost or is rolled back on the way.  It is *)
(* provided that nobody edits the user groups, which are compared but never *)
(* sent, and that the versions say enough to be told apart.                 *)
THEOREM SyncedTellsTheTruthTheorem ==
  ASSUME "ugs" \notin Editable, \A v \in Versions : SaysEnough(v)
  PROVE  Spec => []SyncedTellsTheTruth
<1>1. Init => ClaimsInv
  BY DEF Init, ClaimsInv, FoundInv, Concluding
<1>2. TypeOK /\ SameUserGroups /\ [Next]_vars => SameUserGroups'
  BY SameUserGroupsInductive
<1>3. TypeOK /\ LifecycleInv /\ SameUserGroups /\ ClaimsInv /\ [Next]_vars => ClaimsInv'
  BY ClaimsInductive
<1>4. ClaimsInv => SyncedTellsTheTruth
  <2> SUFFICES ASSUME ClaimsInv, pc = "patchStatus", err = "none", ~desired.del,
                      latest.status # "create-failed",
                      ensureConditions(latest.cond, err).synced = "True"
               PROVE  Told
    BY DEF SyncedTellsTheTruth, Told
  <2>1. latest.cond.synced # "False"
    BY DEF ensureConditions, ensureConditionsBy
  <2> QED
    BY <2>1 DEF ClaimsInv, FoundInv, Concluding
<1> QED
  BY <1>1, <1>2, <1>3, <1>4, SameUserGroupsInit, TypeCorrect, LifecycleCorrect, PTL DEF Spec

-----------------------------------------------------------------------------
(* The refusal of a node type.                                             *)

(* A node type a copy of the annotations records is the one the group has  *)
(* or is getting, or the service gave it up.                               *)
InForce(a) ==
  rg.status # "none" /\ a.cnt # None => a.cnt = rg.target.cnt \/ a.cnt \in rolledBack

(* Where the annotations of a pass are, step by step: in the resource until *)
(* a response puts them into the result, from there into the resource.      *)
RecordInv ==
  /\ rg.status # "modifying" => rg.target = rg.cfg
  /\ pc \notin {"idle", "lateInit", "patchStatus"} => cr.ann = desired.ann
  /\ pc \in {"update", "delete"} \/ (pc = "patchSpec" /\ desired.del) =>
       latest.ann = desired.ann
  /\ IF pc \in {"readBack", "patchSpec"} THEN InForce(latest.ann) ELSE InForce(cr.ann)
  /\ rg.status = "none" /\ ~desired.del => cr.ann.cnt = None
  /\ rg.status = "deleting" => desired.del
  /\ pc \in {"update", "readBack", "patchSpec"} /\ ~desired.del => rg.status # "none"
  /\ pc \in {"read", "manage", "create", "readBack", "update"} => ~desired.del
  /\ pc = "readBack" => cr.ann.cnt = None

LEMMA RecordUser ==
  ASSUME TypeOK, RecordInv, User \/ UNCHANGED vars
  PROVE  RecordInv'
<1>1. UNCHANGED <<rg, pc, desired, latest, rolledBack>> /\ cr'.ann = cr.ann
  BY DEF TypeOK, CRs, User, UserEdit, UserDelete, ctlVars, histVars, vars
<1> QED
  BY <1>1 DEF RecordInv, InForce

LEMMA RecordAws ==
  ASSUME TypeOK, RecordInv, AwsProgress \/ AwsMay
  PROVE  RecordInv'
<1> USE DEF TypeOK, Groups, RecordInv, InForce, crVars, ctlVars, histVars
<1>1. CASE AwsCreated             BY <1>1 DEF AwsCreated
<1>2. CASE AwsCreateFailed        BY <1>2 DEF AwsCreateFailed
<1>3. CASE AwsApplied             BY <1>3 DEF AwsApplied
<1>4. CASE AwsAppliedUnsettled    BY <1>4 DEF AwsAppliedUnsettled
<1>5. CASE AwsSettled             BY <1>5 DEF AwsSettled
<1>6. CASE AwsRolledBack          BY <1>6 DEF AwsRolledBack
<1>7. CASE AwsSnapshotStarts      BY <1>7 DEF AwsSnapshotStarts
<1>8. CASE AwsSnapshotEnds        BY <1>8 DEF AwsSnapshotEnds
<1>9. CASE AwsDeleted             BY <1>9 DEF AwsDeleted
<1> QED
  BY <1>1, <1>2, <1>3, <1>4, <1>5, <1>6, <1>7, <1>8, <1>9 DEF AwsProgress, AwsMay

(* The steps of a pass that leave the group and the annotations alone. *)
LEMMA RecordPass ==
  ASSUME TypeOK, LifecycleInv, RecordInv,
         \/ Fetch \/ FetchGone \/ ReadOne \/ ReadOneNotFound \/ ReadOneFails
         \/ Manage \/ CreateFails \/ ReadBack \/ ReadBackFails
         \/ LateInitialize \/ PatchStatus
         \/ ReadDelete \/ ReadDeleteNotFound \/ ReadDeleteFails
         \/ DeleteWaits \/ Unmanage
         \/ WaitAvailable \/ RefuseNodeType \/ RefuseShards \/ Panic
  PROVE  RecordInv'
<1> USE DEF RecordInv, InForce, crVars, ctlVars, histVars
<1>0. /\ asLatest(desired) \in Observations /\ asLatest(desired).ann = desired.ann
      /\ desired.del => cr.del
      /\ pc \in {"readDelete", "delete", "unmanage"} => desired.del
  BY asLatestType, OutputsKeepAnnotations DEF TypeOK, LifecycleInv, DeletesOnRequest
<1>1. CASE Fetch                  BY <1>0, <1>1 DEF Fetch, TypeOK, CRs
<1>2. CASE FetchGone              BY <1>2 DEF FetchGone
<1>3. CASE ReadOne                BY <1>3, OutputsKeepAnnotations DEF ReadOne
<1>4. CASE ReadOneNotFound        BY <1>4 DEF ReadOneNotFound
<1>5. CASE ReadOneFails \/ CreateFails
  <2>1. /\ pc \in {"read", "create"} /\ pc' = "patchStatus"
        /\ UNCHANGED <<cr, rg, desired, rolledBack>>
    BY <1>5 DEF ReadOneFails, CreateFails, FailWith
  <2> QED
    BY <2>1
<1>6. CASE Manage
  <2>1. cr'.ann = cr.ann /\ desired'.ann = desired.ann /\ desired'.del = desired.del
    BY <1>6 DEF Manage, TypeOK, CRs
  <2>2. pc = "manage" /\ pc' \in {"create", "idle"} /\ UNCHANGED <<rg, latest, rolledBack>>
    BY <1>6 DEF Manage
  <2> QED
    BY <2>1, <2>2
<1>7. CASE ReadBack
  <2>1. latest'.ann = latest.ann
    BY <1>7 DEF ReadBack, TypeOK, Observations
  <2> QED
    BY <1>7, <2>1 DEF ReadBack
<1>8. CASE ReadBackFails          BY <1>8 DEF ReadBackFails
<1>9. CASE LateInitialize         BY <1>9 DEF LateInitialize
<1>10. CASE PatchStatus
  <2>1. cr'.ann = cr.ann
    BY <1>10 DEF PatchStatus, TypeOK, CRs
  <2> QED
    BY <1>10, <2>1 DEF PatchStatus
<1>11. CASE ReadDelete            BY <1>0, <1>11, OutputsKeepAnnotations DEF ReadDelete
<1>12. CASE ReadDeleteNotFound    BY <1>12 DEF ReadDeleteNotFound
<1>13. CASE ReadDeleteFails       BY <1>13 DEF ReadDeleteFails
<1>14. CASE DeleteWaits
  <2>1. [latest EXCEPT !.cond.synced = "False"] \in Observations
    BY DEF TypeOK, Observations, Conds, CondStatus
  <2>2. latest'.ann = latest.ann /\ UNCHANGED desired
    BY <1>14, <2>1, FailuresKeepAnnotations DEF DeleteWaits, TypeOK, Observations
  <2> QED
    BY <1>0, <1>14, <2>2 DEF DeleteWaits, DeleteReturns
<1>15. CASE Unmanage
  <2>1. cr'.ann = cr.ann
    BY <1>15 DEF Unmanage, TypeOK, CRs
  <2> QED
    BY <1>15, <2>1 DEF Unmanage
<1>16. CASE WaitAvailable \/ RefuseNodeType \/ RefuseShards
  <2>1. /\ pc = "update" /\ pc' = "patchStatus"
        /\ UNCHANGED <<cr, rg, desired, rolledBack>>
    BY <1>16 DEF WaitAvailable, RefuseNodeType, RefuseShards, FailWith, Updating
  <2> QED
    BY <2>1
<1>17. CASE Panic                 BY <1>17 DEF Panic, Updating
<1> QED
  BY <1>1, <1>2, <1>3, <1>4, <1>5, <1>6, <1>7, <1>8, <1>9, <1>10, <1>11, <1>12,
     <1>13, <1>14, <1>15, <1>16, <1>17

(* The group created has the node type the annotation records. *)
LEMMA RecordCreate ==
  ASSUME TypeOK, LifecycleInv, RecordInv, Create, "lost" \notin FaultKinds
  PROVE  RecordInv'
<1>1. PICK c \in Configs : /\ Fits(c, desired.spec)
                           /\ rg' = [status |-> "creating", cfg |-> c, target |-> c,
                                     settled |-> TRUE]
  BY DEF Create, Creating
<1>2. desired.spec \in Specs /\ desired.spec.cnt # None
  BY RGAssumption DEF TypeOK, CRs, Specs
<1>3. c.cnt = desired.spec.cnt
  BY <1>1, <1>2 DEF Fits, Specs
<1>4. /\ latest' = createOutput(desired, rg') /\ pc = "create" /\ pc' = "readBack"
      /\ UNCHANGED <<cr, desired, rolledBack>> /\ rg.status = "none"
  BY DEF Create, Fault, crVars
<1>5. latest'.ann.cnt = desired.spec.cnt
  BY <1>4 DEF createOutput, setReplicationGroupOutput
<1>6. /\ rg'.status = "creating" /\ rg'.target = rg'.cfg
      /\ rg'.target.cnt = desired.spec.cnt
  BY <1>1, <1>3
<1>7. InForce(latest.ann)'
  BY <1>5, <1>6 DEF InForce
<1> QED
  BY <1>4, <1>6, <1>7 DEF RecordInv

(* The patch writes the annotations of the result into the resource. *)
LEMMA RecordPatch ==
  ASSUME TypeOK, LifecycleInv, RecordInv, PatchSpec
  PROVE  RecordInv'
<1>1. /\ pc = "patchSpec" /\ UNCHANGED <<rg, desired, latest, rolledBack>>
      /\ pc' = IF desired.del THEN "patchStatus" ELSE "lateInit"
  BY DEF PatchSpec, histVars
<1>2. CASE cr.exists
  <2>1. cr'.ann = PatchedAnnotations(cr.ann, desired.ann, latest.ann)
    BY <1>2 DEF PatchSpec, TypeOK, CRs
  <2>2. cr.ann = desired.ann
    BY <1>1 DEF RecordInv
  <2>3. cr'.ann.cnt = latest.ann.cnt
    BY <2>1, <2>2 DEF PatchedAnnotations, Patched
  <2>4. InForce(cr.ann)'
    BY <1>1, <2>3 DEF RecordInv, InForce
  <2> QED
    BY <1>1, <2>4 DEF RecordInv
<1>3. CASE ~cr.exists
  <2>1. rg.status = "none"
    BY <1>3 DEF LifecycleInv, NoOrphan
  <2> QED
    BY <1>1, <2>1 DEF RecordInv, InForce
<1> QED
  BY <1>2, <1>3

(* An update that does not change the node type asked for. *)
LEMMA RecordUpdateKeeps ==
  ASSUME TypeOK, RecordInv, UNCHANGED <<cr, desired, rolledBack>>,
         pc = "update", rg'.target.cnt = rg.target.cnt,
         rg'.status \in {rg.status, "modifying", "available"},
         rg'.status # "modifying" => rg'.target = rg'.cfg,
         \/ pc' = "patchStatus"
         \/ pc' = "patchSpec" /\ latest'.ann.cnt = desired.ann.cnt
  PROVE  RecordInv'
<1>1. /\ cr.ann = desired.ann /\ InForce(cr.ann) /\ ~desired.del /\ rg.status # "none"
      /\ rg.status # "deleting"
  BY DEF RecordInv
<1>2. InForce(cr.ann)'
  BY <1>1 DEF InForce
<1>3. pc' = "patchSpec" => InForce(latest.ann)'
  BY <1>1 DEF InForce
<1> QED
  BY <1>1, <1>2, <1>3 DEF RecordInv

LEMMA RecordAnswer ==
  ASSUME TypeOK, RecordInv, pc = "update", UNCHANGED rolledBack,
         NEW a, NEW t, NEW r, AnsweredOrFailed(Modified(a, t), r), UNCHANGED crVars,
         t.cnt = rg.cfg.cnt, r.ann.cnt = desired.ann.cnt
  PROVE  RecordInv'
<1>1. /\ Modified(a, t).target = t /\ Modified(a, t).cfg = a
      /\ Modified(a, t).status = IF t # a THEN "modifying" ELSE "available"
  BY ModifiedIs
<1>2. rg.status = "available" => rg.target = rg.cfg
  BY DEF RecordInv
<1>3. /\ UNCHANGED rg \/ (rg.status = "available" /\ rg' = Modified(a, t))
      /\ UNCHANGED <<cr, desired>>
      /\ \/ pc' = "patchStatus"
         \/ pc' = "patchSpec" /\ latest'.ann.cnt = desired.ann.cnt
  BY DEF AnsweredOrFailed, FailWith, crVars
<1>4. /\ rg'.target.cnt = rg.target.cnt
      /\ rg'.status \in {rg.status, "modifying", "available"}
      /\ rg'.status # "modifying" => rg'.target = rg'.cfg
  BY <1>1, <1>2, <1>3 DEF RecordInv
<1> QED
  BY <1>3, <1>4, RecordUpdateKeeps

LEMMA RecordUpdate ==
  ASSUME TypeOK, RecordInv,
         \/ SyncTags \/ IncreaseReplicaCount \/ DecreaseReplicaCount
         \/ UpdateShardConfiguration \/ ModifyVersion
  PROVE  RecordInv'
<1>0. rg.cfg \in Configs /\ rg.target \in Configs
  BY DEF TypeOK, Groups
<1>1. pc = "update" /\ UNCHANGED rolledBack
  BY DEF SyncTags, IncreaseReplicaCount, DecreaseReplicaCount, UpdateShardConfiguration,
         ModifyVersion, Updating, histVars
<1>2. CASE SyncTags
  <2> DEFINE tags == T!SyncTags(desired.spec.tags, latest.spec.tags, rg.cfg.tags)
             g == [rg EXCEPT !.status = "modifying", !.cfg.tags = tags, !.target.tags = tags]
  <2>1. /\ rg' \in {rg, g} /\ pc' = "patchStatus" /\ UNCHANGED <<cr, desired>>
    BY <1>2 DEF SyncTags, FailWith, crVars
  <2> HIDE DEF tags
  <2>2. g.target = [rg.target EXCEPT !.tags = tags] /\ g.status = "modifying"
    BY DEF TypeOK, Groups
  <2>3. g.target.cnt = rg.target.cnt
    BY <1>0, <2>2 DEF Configs
  <2> HIDE DEF g
  <2>4. /\ rg'.target.cnt = rg.target.cnt
        /\ rg'.status \in {rg.status, "modifying", "available"}
        /\ rg'.status # "modifying" => rg'.target = rg'.cfg
    BY <2>1, <2>2, <2>3 DEF RecordInv
  <2> QED
    BY <1>1, <2>1, <2>4, RecordUpdateKeeps
<1>3. \A g : setOutput(g).ann = desired.ann
  BY OutputsKeepAnnotations DEF setOutput
<1>4. CASE IncreaseReplicaCount \/ DecreaseReplicaCount
  <2> DEFINE t == [rg.cfg EXCEPT !.replicas = desired.spec.replicas]
  <2>1. t.cnt = rg.cfg.cnt
    BY <1>0 DEF Configs
  <2>2. /\ AnsweredOrFailed(Modified(rg.cfg, t), setOutput(replicasCall))
        /\ UNCHANGED crVars
    BY <1>4, ModifyingCalls DEF replicasCall
  <2> HIDE DEF t
  <2>3. setOutput(replicasCall).ann.cnt = desired.ann.cnt
    BY <1>3
  <2> QED
    BY <1>1, <2>1, <2>2, <2>3, RecordAnswer
<1>5. CASE UpdateShardConfiguration
  <2> DEFINE t == [rg.cfg EXCEPT !.shards = desired.spec.shards]
  <2>1. t.cnt = rg.cfg.cnt
    BY <1>0 DEF Configs
  <2>2. /\ AnsweredOrFailed(Modified(rg.cfg, t), shardsOutput(shardsCall))
        /\ UNCHANGED crVars
    BY <1>5, ModifyingCalls DEF shardsCall
  <2> HIDE DEF t
  <2>3. shardsOutput(shardsCall).ann.cnt = desired.ann.cnt
    <3>1. shardsOutput(shardsCall).ann = [desired.ann EXCEPT !.nng = desired.spec.shards]
      BY <1>3 DEF shardsOutput, setOutput, setReplicationGroupOutput
    <3> QED
      BY <3>1 DEF TypeOK, CRs, Annotations
  <2> QED
    BY <1>1, <2>1, <2>2, <2>3, RecordAnswer
<1>6. CASE ModifyVersion
  <2>1. PICK v : /\ AnsweredOrFailed(versionCall(v), setOutput(versionCall(v)))
                 /\ UNCHANGED crVars
    BY <1>6, ModifyingCalls
  <2> DEFINE t == [rg.cfg EXCEPT !.ev = v]
  <2>2. t.cnt = rg.cfg.cnt
    BY <1>0 DEF Configs
  <2>3. AnsweredOrFailed(Modified(rg.cfg, t), setOutput(versionCall(v)))
    BY <2>1 DEF versionCall
  <2> HIDE DEF t
  <2>4. setOutput(versionCall(v)).ann.cnt = desired.ann.cnt
    BY <1>3
  <2> QED
    BY <1>1, <2>1, <2>2, <2>3, <2>4, RecordAnswer
<1> QED
  BY <1>2, <1>4, <1>5, <1>6

(* The call that asks for a node type records it, unless its answer is lost. *)
LEMMA RecordModify ==
  ASSUME TypeOK, RecordInv, ModifyReplicationGroup, "lost" \notin FaultKinds
  PROVE  RecordInv'
<1>0. rg.cfg \in Configs /\ desired.spec \in Specs /\ desired.ann \in Annotations
  BY DEF TypeOK, Groups, CRs
<1>1. /\ pc = "update" /\ UNCHANGED <<cr, rolledBack>>
      /\ \/ /\ rg' = genericCall /\ latest' = modifyOutput(genericCall)
            /\ pc' = "patchSpec" /\ UNCHANGED desired
         \/ UNCHANGED rg /\ pc' = "patchStatus" /\ UNCHANGED desired
  BY DEF ModifyReplicationGroup, ModifyCall, Fault, FailWith, genericCall, atOnceConfig,
         Updating, crVars
<1>2. CASE UNCHANGED rg /\ pc' = "patchStatus" /\ UNCHANGED desired
  BY <1>1, <1>2 DEF RecordInv, InForce
<1>3. CASE /\ rg' = genericCall /\ latest' = modifyOutput(genericCall)
           /\ pc' = "patchSpec" /\ UNCHANGED desired
  <2> DEFINE t == [atOnceConfig EXCEPT !.cnt = desired.spec.cnt, !.af = desired.spec.af]
  <2>1. rg'.target = t /\ rg'.cfg = atOnceConfig
        /\ rg'.status = IF t # atOnceConfig THEN "modifying" ELSE "available"
    BY <1>3, ModifiedIs DEF genericCall
  <2>2. t.cnt = desired.spec.cnt
    BY <1>0 DEF atOnceConfig, Configs
  <2>3. latest'.ann.cnt = desired.spec.cnt
    BY <1>0, <1>3 DEF modifyOutput, setOutput, setReplicationGroupOutput, Annotations
  <2> HIDE DEF t
  <2>4. InForce(latest.ann)'
    BY <2>1, <2>2, <2>3 DEF InForce
  <2>5. ~desired.del /\ cr.ann = desired.ann
    BY <1>1 DEF RecordInv
  <2> QED
    BY <1>1, <1>3, <2>1, <2>4, <2>5 DEF RecordInv
<1> QED
  BY <1>1, <1>2, <1>3

LEMMA RecordDelete ==
  ASSUME TypeOK, LifecycleInv, RecordInv, Delete
  PROVE  RecordInv'
<1>1. desired.del /\ pc = "delete"
  BY DEF Delete, LifecycleInv, DeletesOnRequest
<1>2. rg' \in Groups
  BY DeletionType DEF TypeOK
<1>3. deleteOutput(latest, rg') \in Observations
  <2>1. setReplicationGroupOutput(latest, rg') \in Observations
    BY <1>2, RecordsDescribed, setReplicationGroupOutputType DEF TypeOK
  <2> QED
    BY <2>1 DEF deleteOutput, Observations, Conds, CondStatus
<1>4. deleteOutput(latest, rg').ann = latest.ann
  BY DEF deleteOutput, setReplicationGroupOutput
<1>5. \/ DeleteReturns(deleteOutput(latest, rg'), "requeue")
      \/ \E e \in {"awsOther", "awsTerminal"} : DeleteReturns(latest, e)
  BY DEF Delete
<1>6. latest'.ann = latest.ann /\ UNCHANGED desired /\ pc' = "patchSpec"
  BY <1>3, <1>4, <1>5, FailuresKeepAnnotations DEF TypeOK, DeleteReturns
<1>7. \/ UNCHANGED rg
      \/ /\ rg.status \in {"available", "create-failed"}
         /\ rg'.status = "deleting" /\ rg'.cfg = rg.cfg /\ rg'.target = rg.cfg
  <2>1. \/ UNCHANGED rg
        \/ /\ rg.status \in {"available", "create-failed"}
           /\ rg' = [rg EXCEPT !.status = "deleting", !.target = rg.cfg]
    BY DEF Delete, Deletable
  <2> DEFINE g == [rg EXCEPT !.status = "deleting", !.target = rg.cfg]
  <2>2. g.status = "deleting" /\ g.cfg = rg.cfg /\ g.target = rg.cfg
    BY DEF TypeOK, Groups
  <2> HIDE DEF g
  <2>3. UNCHANGED rg \/ (rg.status \in {"available", "create-failed"} /\ rg' = g)
    BY <2>1 DEF g
  <2> QED
    BY <2>2, <2>3
<1>8. UNCHANGED <<cr, rolledBack>>
  BY DEF Delete, crVars, histVars
<1> QED
  BY <1>1, <1>6, <1>7, <1>8 DEF RecordInv, InForce

LEMMA RecordInductive ==
  ASSUME TypeOK, LifecycleInv, RecordInv, [Next]_vars,
         "lost" \notin FaultKinds, "crash" \notin FaultKinds
  PROVE  RecordInv'
<1>1. ~Crash
  BY DEF Crash, Fault
<1> QED
  BY <1>1, RecordUser, RecordAws, RecordPass, RecordCreate, RecordPatch, RecordUpdate,
     RecordModify, RecordDelete DEF Next, Controller, Update

(* A node type is refused only if the service really gave it up, as long as *)
(* no answer is lost and no pass interrupted: either leaves an annotation   *)
(* behind that is older than the last request.                              *)
THEOREM RefusalMeansRollbackTheorem ==
  ASSUME "lost" \notin FaultKinds, "crash" \notin FaultKinds
  PROVE  Spec => []RefusalMeansRollback
<1>1. Init => RecordInv /\ FoundInv
  BY DEF Init, RecordInv, InForce, FoundInv
<1>2. TypeOK /\ LifecycleInv /\ RecordInv /\ [Next]_vars => RecordInv'
  BY RecordInductive
<1>3. TypeOK /\ RecordInv /\ FoundInv => RefusalMeansRollback
  <2> SUFFICES ASSUME TypeOK, RecordInv, FoundInv, Updating("refuseNodeType")
               PROVE  desired.spec.cnt \in rolledBack
    BY DEF RefusalMeansRollback
  <2>1. /\ pc = "update" /\ latest.status = "available"
        /\ ~cacheNodeTypeRequiresUpdate(desired) /\ "cnt" \in delta
    BY DEF Updating, updateStep, CustomModifyReplicationGroup, modifyReplicationGroup
  <2>2. Found /\ desired.spec.cnt # latest.spec.cnt
    BY <2>1 DEF FoundInv, delta, newResourceDelta
  <2>3. desired.spec.cnt # rg.target.cnt /\ rg.status # "none"
    BY <2>2 DEF Found, AtRest, RecordInv
  <2>4. cr.ann = desired.ann /\ desired.ann.cnt # None /\ desired.ann.cnt = desired.spec.cnt
    BY <2>1 DEF RecordInv, cacheNodeTypeRequiresUpdate
  <2> QED
    BY <2>1, <2>3, <2>4 DEF RecordInv, InForce
<1>4. TypeOK /\ LifecycleInv /\ FoundInv /\ [Next]_vars => FoundInv'
  BY FoundInductive
<1> QED
  BY <1>1, <1>2, <1>3, <1>4, TypeCorrect, LifecycleCorrect, PTL DEF Spec

-----------------------------------------------------------------------------
(* How far a stale response reaches.                                       *)

(* What an operation returns to be patched keeps them. *)
KeptInv ==
  pc \in {"readBack", "patchSpec"} /\ ~desired.del => Kept(latest.spec, desired.spec)

LEMMA OutputsKeep ==
  ASSUME NEW d, Described(d), NEW g
  PROVE  /\ Kept(setReplicationGroupOutput(d, g).spec, d.spec)
         /\ Kept(createOutput(d, g).spec, d.spec)
<1>1. Kept(setReplicationGroupOutput(d, g).spec, d.spec)
  BY DEF setReplicationGroupOutput, Kept, NotMerged, Described, Specs
<1>2. createOutput(d, g).spec = setReplicationGroupOutput(d, g).spec
  BY DEF createOutput, setReplicationGroupOutput
<1> QED
  BY <1>1, <1>2

LEMMA UpdateOutputsKeep ==
  ASSUME TypeOK, NEW g
  PROVE  /\ Kept(setOutput(g).spec, desired.spec)
         /\ Kept(shardsOutput(g).spec, desired.spec)
         /\ Kept(modifyOutput(g).spec, desired.spec)
<1>1. Kept(setOutput(g).spec, desired.spec)
  BY OutputsKeep, RecordsDescribed DEF setOutput, TypeOK
<1>2. shardsOutput(g).spec = setOutput(g).spec
  BY DEF shardsOutput, setOutput, setReplicationGroupOutput
<1>3. modifyOutput(g).spec = [setOutput(g).spec EXCEPT !.cnt = desired.spec.cnt]
  BY DEF modifyOutput, setOutput, setReplicationGroupOutput
<1>4. setOutput(g).spec = [desired.spec EXCEPT !.cnt = g.cfg.cnt, !.desc = g.cfg.desc,
                                               !.ugs = g.cfg.ugs]
  BY DEF setOutput, setReplicationGroupOutput
<1>5. desired.spec \in Specs
  BY DEF TypeOK, CRs
<1>6. Kept(modifyOutput(g).spec, desired.spec)
  BY <1>3, <1>4, <1>5 DEF Kept, NotMerged, Specs
<1> QED
  BY <1>1, <1>2, <1>6

LEMMA UpdateKeeps ==
  ASSUME TypeOK, Update
  PROVE  KeptInv'
<1>1. CASE SyncTags \/ WaitAvailable \/ RefuseNodeType \/ RefuseShards \/ Panic
  <2>1. pc' \in {"idle", "patchStatus"}
    BY <1>1 DEF SyncTags, WaitAvailable, RefuseNodeType, RefuseShards, Panic, FailWith
  <2> QED
    BY <2>1 DEF KeptInv
<1>2. ASSUME NEW g, NEW r, AnsweredOrFailed(g, r), Kept(r.spec, desired.spec)
      PROVE  KeptInv'
  BY <1>2 DEF AnsweredOrFailed, FailWith, KeptInv
<1> QED
  BY <1>1, <1>2, ModifyingCalls, UpdateOutputsKeep DEF Update

LEMMA KeptInductive ==
  ASSUME TypeOK, LifecycleInv, KeptInv, [Next]_vars
  PROVE  KeptInv'
<1> USE DEF crVars, ctlVars, histVars
<1>1. CASE User \/ AwsProgress \/ AwsMay \/ UNCHANGED vars
  BY <1>1, OthersLetRest DEF KeptInv
<1>2. CASE Create
  <2>1. CASE latest' = createOutput(desired, rg') /\ UNCHANGED desired
    BY <2>1, OutputsKeep, RecordsDescribed DEF KeptInv, TypeOK
  <2>2. CASE FailWith(asLatest(desired), "awsOther")
    BY <2>2 DEF FailWith, KeptInv
  <2> QED
    BY <1>2, <2>1, <2>2 DEF Create
<1>3. CASE ReadBack
  BY <1>3 DEF ReadBack, KeptInv, TypeOK, Observations
<1>4. CASE Update
  BY <1>4, UpdateKeeps
<1>5. CASE DeleteWaits \/ Delete
  BY <1>5 DEF DeleteWaits, Delete, DeleteReturns, LifecycleInv, DeletesOnRequest, KeptInv
<1>6. CASE \/ Fetch \/ FetchGone \/ ReadOne \/ ReadOneNotFound \/ ReadOneFails
           \/ Manage \/ CreateFails \/ ReadBackFails \/ PatchSpec \/ LateInitialize
           \/ PatchStatus \/ ReadDelete \/ ReadDeleteNotFound \/ ReadDeleteFails
           \/ Unmanage \/ Crash
  <2>1. pc' \notin {"readBack", "patchSpec"}
    BY <1>6 DEF Fetch, FetchGone, ReadOne, ReadOneNotFound, ReadOneFails, Manage,
         CreateFails, ReadBackFails, PatchSpec, LateInitialize, PatchStatus, ReadDelete,
         ReadDeleteNotFound, ReadDeleteFails, Unmanage, Crash, FailWith
  <2> QED
    BY <2>1 DEF KeptInv
<1> QED
  BY <1>1, <1>2, <1>3, <1>4, <1>5, <1>6 DEF Next, Controller

(* The patch of the spec never takes back the shards, the replicas, the     *)
(* version, failover or the tags: a stale response reaches no further than  *)
(* the node type, the fields applied at once and the user groups.           *)
THEOREM OtherEditsSurvivePatchTheorem == Spec => OtherEditsSurvivePatch
<1>1. Init => KeptInv
  BY DEF Init, KeptInv
<1>2. TypeOK /\ KeptInv /\ PatchSpec /\ ~desired.del => Kept(cr'.spec, cr.spec)
  <2> SUFFICES ASSUME TypeOK, KeptInv, PatchSpec, ~desired.del
               PROVE  Kept(cr'.spec, cr.spec)
    OBVIOUS
  <2>1. Kept(latest.spec, desired.spec)
    BY DEF PatchSpec, KeptInv
  <2>2. Kept(PatchedSpec(cr.spec, desired.spec, latest.spec), cr.spec)
    BY <2>1 DEF Kept, NotMerged, PatchedSpec, Patched
  <2>3. cr'.spec \in {cr.spec, PatchedSpec(cr.spec, desired.spec, latest.spec)}
    BY DEF PatchSpec, TypeOK, CRs
  <2> QED
    BY <2>2, <2>3 DEF Kept
<1>3. TypeOK /\ LifecycleInv /\ KeptInv /\ [Next]_vars => KeptInv'
  BY KeptInductive
<1> QED
  BY <1>1, <1>2, <1>3, TypeCorrect, LifecycleCorrect, PTL DEF Spec, OtherEditsSurvivePatch

-----------------------------------------------------------------------------
(* What a panic takes.                                                     *)

(* As long as nobody edits the number of shards, it is the same in every    *)
(* copy and in the group, if it was given, and so is what was recorded.     *)
SameShards ==
  /\ desired.spec.shards = cr.spec.shards /\ latest.spec.shards = cr.spec.shards
  /\ cr.spec.shards # None =>
       rg.cfg.shards = cr.spec.shards /\ rg.target.shards = cr.spec.shards

RecordedShards ==
  {cr.ann.nng, desired.ann.nng, latest.ann.nng} \subseteq {None, cr.spec.shards}

(* What most steps do to them. *)
ShardsCopied ==
  /\ cr'.spec.shards \in {cr.spec.shards, latest.spec.shards}
  /\ desired'.spec.shards \in {cr.spec.shards, desired.spec.shards}
  /\ latest'.spec.shards \in {desired.spec.shards, latest.spec.shards}
  /\ {rg'.cfg.shards, rg'.target.shards} \subseteq {rg.cfg.shards, rg.target.shards}

LEMMA ShardsCopiedAreTheSame == SameShards /\ ShardsCopied => SameShards'
  BY DEF SameShards, ShardsCopied

LEMMA OutputsHaveShards ==
  ASSUME NEW d, Described(d)
  PROVE  /\ asLatest(d).spec.shards = d.spec.shards
         /\ \A g : /\ setReplicationGroupOutput(d, g).spec.shards = d.spec.shards
                   /\ createOutput(d, g).spec.shards = d.spec.shards
         /\ d.spec.shards \in {None, rg.cfg.shards} =>
              \A b \in BOOLEAN : sdkFind(d, b).spec.shards = d.spec.shards
<1>1. \A g : /\ setReplicationGroupOutput(d, g).spec.shards = d.spec.shards
             /\ createOutput(d, g).spec.shards = d.spec.shards
  BY OutputsKeep DEF Kept, NotMerged
<1>2. ASSUME d.spec.shards \in {None, rg.cfg.shards}, NEW b \in BOOLEAN
      PROVE  sdkFind(d, b).spec.shards = d.spec.shards
  BY <1>2 DEF sdkFind, updateSpecFields, Described, Specs
<1> QED
  BY <1>1, <1>2 DEF asLatest

LEMMA EnvironmentKeepsShards ==
  ASSUME TypeOK, User \/ AwsProgress \/ AwsMay \/ Crash \/ UNCHANGED vars,
         "shards" \notin Editable
  PROVE  ShardsCopied
<1> USE DEF ShardsCopied, crVars, ctlVars, vars
<1>1. CASE UserEdit
  <2>1. PICK s \in Specs : /\ s.shards = cr.spec.shards
                           /\ cr' = [cr EXCEPT !.spec = s]
    BY <1>1 DEF UserEdit, Specs
  <2> QED
    BY <1>1, <2>1 DEF UserEdit, TypeOK, CRs
<1>2. CASE UserDelete
  BY <1>2 DEF UserDelete, TypeOK, CRs
<1>3. CASE AwsProgress
  BY <1>3 DEF TypeOK, Groups, AwsProgress, AwsCreated, AwsApplied, AwsSettled, AwsSnapshotEnds,
              AwsDeleted
<1>4. CASE AwsMay
  BY <1>4 DEF TypeOK, Groups, AwsMay, AwsCreateFailed, AwsAppliedUnsettled, AwsRolledBack,
              AwsSnapshotStarts
<1>5. CASE Crash \/ UNCHANGED vars
  BY <1>5 DEF Crash
<1> QED
  BY <1>1, <1>2, <1>3, <1>4, <1>5 DEF User

LEMMA PassKeepsShards ==
  ASSUME TypeOK, SameShards,
         \/ Fetch \/ FetchGone \/ ReadOne \/ ReadOneNotFound \/ ReadOneFails
         \/ Manage \/ CreateFails \/ ReadBack \/ ReadBackFails
         \/ PatchSpec \/ LateInitialize \/ PatchStatus
  PROVE  ShardsCopied
<1> USE DEF ShardsCopied, crVars, ctlVars, histVars
<1>0. /\ asLatest(desired) \in Observations
      /\ asLatest(desired).spec.shards = desired.spec.shards
      /\ Described(desired)
  BY asLatestType, OutputsHaveShards, RecordsDescribed DEF TypeOK
<1>1. CASE Fetch                  BY <1>1 DEF Fetch, TypeOK, CRs
<1>2. CASE FetchGone              BY <1>2 DEF FetchGone
<1>3. CASE ReadOne
  <2>1. desired.spec.shards \in {None, rg.cfg.shards}
    BY DEF SameShards
  <2> QED
    BY <1>0, <1>3, <2>1, OutputsHaveShards DEF ReadOne
<1>4. CASE ReadOneNotFound        BY <1>4 DEF ReadOneNotFound
<1>5. CASE ReadOneFails \/ CreateFails
  <2>1. /\ \E e : FailWith(asLatest(desired), e)
        /\ UNCHANGED <<cr, rg>>
    BY <1>5 DEF ReadOneFails, CreateFails
  <2> QED
    BY <1>0, <2>1, FailuresKeepSpec
<1>6. CASE Manage                 BY <1>6 DEF Manage, TypeOK, CRs
<1>7. CASE ReadBack               BY <1>7 DEF ReadBack, TypeOK, Observations
<1>8. CASE ReadBackFails          BY <1>8 DEF ReadBackFails
<1>9. CASE PatchSpec
  <2>1. PatchedSpec(cr.spec, desired.spec, latest.spec).shards
          \in {cr.spec.shards, latest.spec.shards}
    BY DEF PatchedSpec, Patched
  <2>2. cr'.spec \in {cr.spec, PatchedSpec(cr.spec, desired.spec, latest.spec)}
    BY <1>9 DEF PatchSpec, TypeOK, CRs
  <2> QED
    BY <1>9, <2>1, <2>2 DEF PatchSpec
<1>10. CASE LateInitialize        BY <1>10 DEF LateInitialize, TypeOK, Observations
<1>11. CASE PatchStatus           BY <1>11 DEF PatchStatus, TypeOK, CRs
<1> QED
  BY <1>1, <1>2, <1>3, <1>4, <1>5, <1>6, <1>7, <1>8, <1>9, <1>10, <1>11

LEMMA DeletionKeepsShards ==
  ASSUME TypeOK, SameShards,
         \/ ReadDelete \/ ReadDeleteNotFound \/ ReadDeleteFails
         \/ DeleteWaits \/ Delete \/ Unmanage
  PROVE  ShardsCopied
<1> USE DEF ShardsCopied, crVars, ctlVars, histVars
<1>0. Described(desired) /\ Described(latest)
  BY RecordsDescribed DEF TypeOK
<1>1. CASE ReadDelete
  <2>1. desired.spec.shards \in {None, rg.cfg.shards}
    BY DEF SameShards
  <2> QED
    BY <1>0, <1>1, <2>1, OutputsHaveShards DEF ReadDelete
<1>2. CASE ReadDeleteNotFound     BY <1>2 DEF ReadDeleteNotFound
<1>3. CASE ReadDeleteFails
  BY <1>0, <1>3, OutputsHaveShards DEF ReadDeleteFails
<1>4. CASE DeleteWaits
  <2>1. [latest EXCEPT !.cond.synced = "False"] \in Observations
    BY DEF TypeOK, Observations, Conds, CondStatus
  <2>2. latest'.spec = latest.spec /\ UNCHANGED desired
    BY <1>4, <2>1, FailuresKeepSpec DEF DeleteWaits, TypeOK, Observations
  <2> QED
    BY <1>4, <2>2 DEF DeleteWaits
<1>5. CASE Delete
  <2>1. rg' \in Groups /\ rg'.cfg = rg.cfg /\ rg'.target \in {rg.cfg, rg.target}
    BY <1>5, DeletionType DEF Delete, TypeOK, Groups
  <2>2. /\ setReplicationGroupOutput(latest, rg') \in Observations
        /\ setReplicationGroupOutput(latest, rg').spec.shards = latest.spec.shards
    BY <1>0, <2>1, setReplicationGroupOutputType, OutputsHaveShards
  <2>3. /\ deleteOutput(latest, rg') \in Observations
        /\ deleteOutput(latest, rg').spec.shards = latest.spec.shards
    BY <2>2 DEF deleteOutput, Observations, Conds, CondStatus
  <2>4. \/ DeleteReturns(deleteOutput(latest, rg'), "requeue")
        \/ \E e \in {"awsOther", "awsTerminal"} : DeleteReturns(latest, e)
    BY <1>5 DEF Delete
  <2>5. latest'.spec.shards = latest.spec.shards /\ UNCHANGED desired
    BY <2>3, <2>4, FailuresKeepSpec DEF TypeOK
  <2> QED
    BY <1>5, <2>1, <2>5 DEF Delete
<1>6. CASE Unmanage               BY <1>6 DEF Unmanage, TypeOK, CRs
<1> QED
  BY <1>1, <1>2, <1>3, <1>4, <1>5, <1>6

(* No update changes the number, for none differs from what was read. *)
LEMMA NoShardsCall == SameShards => ~UpdateShardConfiguration
<1> SUFFICES ASSUME SameShards, UpdateShardConfiguration PROVE FALSE
  OBVIOUS
<1>1. shardConfigurationsDiffer(desired, latest)
  BY DEF UpdateShardConfiguration, Updating, updateStep, CustomModifyReplicationGroup,
     modifyReplicationGroup
<1> QED
  BY <1>1 DEF shardConfigurationsDiffer, SameShards

LEMMA UpdateKeepsShards ==
  ASSUME TypeOK, SameShards, Update
  PROVE  ShardsCopied
<1> USE DEF crVars, ctlVars, histVars
<1>0. /\ rg.cfg \in Configs /\ rg.target \in Configs
      /\ \A g : /\ setOutput(g).spec.shards = desired.spec.shards
                /\ modifyOutput(g).spec.shards = desired.spec.shards
  BY UpdateOutputsKeep DEF TypeOK, Groups, Kept, NotMerged
<1>1. CASE WaitAvailable \/ RefuseNodeType \/ RefuseShards
  <2>1. /\ \E e : FailWith(latest, e)
        /\ UNCHANGED <<cr, rg>>
    BY <1>1 DEF WaitAvailable, RefuseNodeType, RefuseShards
  <2> QED
    BY <2>1, FailuresKeepSpec DEF TypeOK, ShardsCopied
<1>2. CASE Panic
  BY <1>2 DEF Panic, ShardsCopied
<1>3. CASE SyncTags
  <2> DEFINE tags == T!SyncTags(desired.spec.tags, latest.spec.tags, rg.cfg.tags)
             g == [rg EXCEPT !.status = "modifying", !.cfg.tags = tags, !.target.tags = tags]
  <2>1. /\ \E e : FailWith(latest, e)
        /\ rg' \in {rg, g} /\ UNCHANGED cr
    BY <1>3 DEF SyncTags
  <2> HIDE DEF tags
  <2>2. g.cfg = [rg.cfg EXCEPT !.tags = tags] /\ g.target = [rg.target EXCEPT !.tags = tags]
    BY DEF TypeOK, Groups
  <2>3. g.cfg.shards = rg.cfg.shards /\ g.target.shards = rg.target.shards
    BY <1>0, <2>2 DEF Configs
  <2> HIDE DEF g
  <2>4. latest'.spec = latest.spec /\ UNCHANGED desired
    BY <2>1, FailuresKeepSpec DEF TypeOK
  <2> QED
    BY <2>1, <2>3, <2>4 DEF ShardsCopied
<1>4. ASSUME NEW g, g.cfg.shards = rg.cfg.shards, g.target.shards = rg.cfg.shards,
             NEW r, r.spec.shards = desired.spec.shards, AnsweredOrFailed(g, r),
             UNCHANGED crVars
      PROVE  ShardsCopied
  <2>1. (\E e : FailWith(latest, e)) => latest'.spec = latest.spec /\ UNCHANGED desired
    BY FailuresKeepSpec DEF TypeOK
  <2> QED
    BY <1>4, <2>1 DEF ShardsCopied, AnsweredOrFailed
<1>5. CASE IncreaseReplicaCount \/ DecreaseReplicaCount
  <2>1. replicasCall.cfg.shards = rg.cfg.shards /\ replicasCall.target.shards = rg.cfg.shards
    BY <1>0, ModifiedIs DEF replicasCall, Configs
  <2>2. AnsweredOrFailed(replicasCall, setOutput(replicasCall)) /\ UNCHANGED crVars
    BY <1>5, ModifyingCalls
  <2> HIDE DEF crVars
  <2> QED
    BY <1>0, <1>4, <2>1, <2>2
<1>6. CASE ModifyVersion
  <2>1. PICK v : /\ AnsweredOrFailed(versionCall(v), setOutput(versionCall(v)))
                 /\ UNCHANGED crVars
    BY <1>6, ModifyingCalls
  <2>2. /\ versionCall(v).cfg.shards = rg.cfg.shards
        /\ versionCall(v).target.shards = rg.cfg.shards
    BY <1>0, ModifiedIs DEF versionCall, Configs
  <2> HIDE DEF crVars
  <2> QED
    BY <1>0, <1>4, <2>1, <2>2
<1>7. CASE ModifyReplicationGroup
  <2> DEFINE t == [atOnceConfig EXCEPT !.cnt = desired.spec.cnt, !.af = desired.spec.af]
  <2>1. atOnceConfig.shards = rg.cfg.shards /\ t.shards = rg.cfg.shards
    BY <1>0 DEF atOnceConfig, Configs
  <2>2. genericCall.cfg = atOnceConfig /\ genericCall.target = t
    BY ModifiedIs DEF genericCall
  <2>3. genericCall.cfg.shards = rg.cfg.shards /\ genericCall.target.shards = rg.cfg.shards
    BY <2>1, <2>2
  <2>4. AnsweredOrFailed(genericCall, modifyOutput(genericCall)) /\ UNCHANGED crVars
    BY <1>7, ModifyingCalls
  <2> HIDE DEF crVars
  <2> QED
    BY <1>0, <1>4, <2>3, <2>4
<1> QED
  BY <1>1, <1>2, <1>3, <1>5, <1>6, <1>7, NoShardsCall DEF Update

LEMMA CreateShards ==
  ASSUME TypeOK, SameShards, RecordedShards, Create
  PROVE  SameShards' /\ RecordedShards'
<1>1. PICK c \in Configs : /\ Fits(c, desired.spec)
                           /\ rg' = [status |-> "creating", cfg |-> c, target |-> c,
                                     settled |-> TRUE]
  BY DEF Create, Creating
<1>2. "shards" \in DOMAIN desired.spec \ {"ev"}
  BY DEF TypeOK, CRs, Specs
<1>3. desired.spec.shards # None => c.shards = desired.spec.shards
  BY <1>1, <1>2 DEF Fits
<1>4. rg'.cfg.shards = c.shards /\ rg'.target.shards = c.shards
  BY <1>1
<1>5. /\ asLatest(desired) \in Observations
      /\ asLatest(desired).spec.shards = desired.spec.shards
      /\ asLatest(desired).ann = desired.ann
      /\ createOutput(desired, rg').spec.shards = desired.spec.shards
      /\ createOutput(desired, rg').ann.nng = desired.spec.shards
  <2>1. createOutput(desired, rg').ann.nng = desired.spec.shards
    BY DEF createOutput, setReplicationGroupOutput
  <2> QED
    BY <2>1, asLatestType, OutputsHaveShards, OutputsKeepAnnotations, RecordsDescribed
    DEF TypeOK
<1>6. /\ UNCHANGED <<cr, desired>> /\ latest'.spec.shards = desired.spec.shards
      /\ latest'.ann.nng \in {desired.spec.shards, desired.ann.nng}
  BY <1>5, FailuresKeepSpec, FailuresKeepAnnotations DEF Create, crVars
<1> QED
  BY <1>3, <1>4, <1>6 DEF SameShards, RecordedShards

LEMMA SameShardsInductive ==
  ASSUME TypeOK, SameShards, RecordedShards, [Next]_vars, "shards" \notin Editable
  PROVE  SameShards'
  BY EnvironmentKeepsShards, PassKeepsShards, DeletionKeepsShards, UpdateKeepsShards,
     CreateShards, ShardsCopiedAreTheSame DEF Next, Controller

LEMMA RecordedShardsInductive ==
  ASSUME TypeOK, SameShards, RecordedShards, SameShards', [Next]_vars,
         cr'.spec.shards = cr.spec.shards
  PROVE  RecordedShards'
<1> USE DEF RecordedShards
<1>1. CASE AnnotationsCopied
  BY <1>1 DEF AnnotationsCopied
<1>2. CASE UNCHANGED vars
  BY <1>2 DEF vars
<1>3. CASE Create
  BY <1>3, CreateShards
<1>4. CASE CreateFails
  <2>1. \E e : FailWith(asLatest(desired), e)
    BY <1>4 DEF CreateFails
  <2>2. asLatest(desired) \in Observations /\ asLatest(desired).ann = desired.ann
    BY asLatestType, OutputsKeepAnnotations DEF TypeOK
  <2>3. latest'.ann = desired.ann /\ UNCHANGED <<cr, desired>>
    BY <1>4, <2>1, <2>2, FailuresKeepAnnotations DEF CreateFails, crVars
  <2> QED
    BY <2>3
<1>5. CASE ModifyReplicationGroup
  <2>1. modifyOutput(genericCall).ann.nng = desired.ann.nng
    BY DEF modifyOutput, setOutput, setReplicationGroupOutput, TypeOK, CRs, Annotations
  <2>2. latest'.ann.nng \in {latest.ann.nng, desired.ann.nng} /\ UNCHANGED <<cr, desired>>
    BY <1>5, <2>1, ModifyingCalls, FailuresKeepAnnotations
    DEF AnsweredOrFailed, TypeOK, crVars
  <2> QED
    BY <2>2
<1>6. CASE PatchSpec
  <2>1. /\ cr'.ann \in {cr.ann, PatchedAnnotations(cr.ann, desired.ann, latest.ann)}
        /\ UNCHANGED <<desired, latest>>
    BY <1>6 DEF PatchSpec, TypeOK, CRs
  <2>2. PatchedAnnotations(cr.ann, desired.ann, latest.ann).nng
          \in {cr.ann.nng, latest.ann.nng}
    BY DEF PatchedAnnotations, Patched
  <2> QED
    BY <2>1, <2>2
<1> QED
  BY <1>1, <1>2, <1>3, <1>4, <1>5, <1>6, NoShardsCall, EnvironmentCopies, PassCopies,
     UpdateCopies DEF Next, Controller, Update

(* Neither of the two panics of an update happens as long as nobody edits   *)
(* the number of shards: the index out of range takes a count edited down   *)
(* before the groups were seen, the nil dereference one that was removed.   *)
THEOREM NoPanicTheorem == "shards" \notin Editable => (Spec => []NoPanic)
<1> SUFFICES ASSUME "shards" \notin Editable PROVE Spec => []NoPanic
  OBVIOUS
<1>1. Init => SameShards /\ RecordedShards
  <2> SUFFICES ASSUME Init PROVE SameShards /\ RecordedShards
    OBVIOUS
  <2>1. PICK s \in InitSpecs, c \in Configs :
          /\ Fits(c, s) /\ cr.spec = s /\ desired = cr /\ latest.spec = s
          /\ rg.cfg = c /\ rg.target = c /\ cr.ann.nng = None /\ latest.ann.nng = None
    BY DEF Init
  <2>2. "shards" \in DOMAIN s \ {"ev"}
    BY RGAssumption DEF Specs
  <2>3. s.shards # None => c.shards = s.shards
    BY <2>1, <2>2 DEF Fits
  <2> QED
    BY <2>1, <2>3 DEF SameShards, RecordedShards
<1>2. TypeOK /\ SameShards /\ RecordedShards /\ [Next]_vars => SameShards'
  BY SameShardsInductive
<1>3. TypeOK /\ SameShards /\ RecordedShards /\ [Next]_vars => cr'.spec.shards = cr.spec.shards
  <2>1. TypeOK /\ SameShards /\ Create => UNCHANGED cr
    BY DEF Create, crVars
  <2>2. SameShards /\ ShardsCopied => cr'.spec.shards = cr.spec.shards
    BY DEF SameShards, ShardsCopied
  <2> QED
    BY <2>1, <2>2, EnvironmentKeepsShards, PassKeepsShards, DeletionKeepsShards,
       UpdateKeepsShards DEF Next, Controller
<1>4. TypeOK /\ SameShards /\ RecordedShards /\ [Next]_vars => RecordedShards'
  BY <1>2, <1>3, RecordedShardsInductive
<1>5. SameShards /\ RecordedShards => NoPanic
  <2> SUFFICES ASSUME SameShards, RecordedShards, Updating("panic") PROVE FALSE
    BY DEF NoPanic
  <2>1. \/ nodeGroupDereferencesNil(desired)
        \/ shardConfigurationsDiffer(desired, latest)
    BY DEF Updating, updateStep, CustomModifyReplicationGroup, modifyReplicationGroup
  <2> QED
    BY <2>1 DEF nodeGroupDereferencesNil, shardConfigurationsDiffer, SameShards, RecordedShards
<1> QED
  BY <1>1, <1>2, <1>4, <1>5, TypeCorrect, PTL DEF Spec
=============================================================================
