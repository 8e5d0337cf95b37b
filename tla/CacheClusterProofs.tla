------------------------- MODULE CacheClusterProofs -------------------------
(***************************************************************************)
(* Theorems about CacheCluster, for every value of its constants.          *)
(***************************************************************************)
EXTENDS CacheCluster, RuntimeProofs

-----------------------------------------------------------------------------
(* What the operators return. *)

(* SyncTags turns a tag collection into a tag collection. *)
LEMMA SyncTagsType ==
  ASSUME NEW d \in T!TagMaps, NEW l \in T!TagMaps, NEW a \in T!TagMaps
  PROVE  T!SyncTags(d, l, a) \in T!TagMaps
<1>1. PICK D \in SUBSET TagKeys : d \in [D -> TagValues]
  BY DEF T!TagMaps
<1>2. PICK A \in SUBSET TagKeys : a \in [A -> TagValues]
  BY DEF T!TagMaps
<1>3. T!ToAdd(d, l) \subseteq D
  BY <1>1 DEF T!ToAdd, T!DifferenceAdded
<1>4. T!AddTagsToResource(a, T!ToAdd(d, l), d)
        \in [A \cup T!ToAdd(d, l) -> TagValues]
  <2>1. DOMAIN a = A
    BY <1>2
  <2>2. \A k \in A \cup T!ToAdd(d, l) :
          (IF k \in T!ToAdd(d, l) THEN d[k] ELSE a[k]) \in TagValues
    BY <1>1, <1>2, <1>3
  <2> QED
    BY <2>1, <2>2 DEF T!AddTagsToResource
<1>5. A \cup T!ToAdd(d, l) \in SUBSET TagKeys
  BY <1>3
<1>6. T!RemoveTagsFromResource(a, T!ToRemove(d, l))
        \in [A \ T!ToRemove(d, l) -> TagValues]
  BY <1>2 DEF T!RemoveTagsFromResource
<1>7. A \ T!ToRemove(d, l) \in SUBSET TagKeys
  OBVIOUS
<1> QED
  BY <1>4, <1>5, <1>6, <1>7 DEF T!SyncTags, T!TagMaps

(* A list of nodes has at most MaxNodes of them, and at least one if it is *)
(* not empty.                                                              *)
LEMMA NodeListLength ==
  ASSUME NEW p \in NodeLists
  PROVE  Len(p) \in 0..MaxNodes /\ (p # <<>> => Len(p) \in 1..MaxNodes)
<1>1. PICK n \in 0..MaxNodes : p \in [1..n -> AZs]
  BY DEF NodeLists, Placements
<1>2. n \in Nat
  BY CCAssumption
<1>3. p \in Seq(AZs) /\ Len(p) = n
  BY <1>1, <1>2
<1> QED
  BY <1>2, <1>3

(* So has the list of a cluster some zones were given to. *)
LEMMA PlacementsAreLists ==
  ASSUME NEW n \in 1..MaxNodes, NEW p \in Placements(n)
  PROVE  p \in NodeLists /\ p # <<>>
<1>1. n \in Nat /\ n > 0 /\ n \in 0..MaxNodes
  BY CCAssumption
<1>2. p \in Seq(AZs) /\ Len(p) = n
  BY <1>1 DEF Placements
<1> QED
  BY <1>1, <1>2 DEF NodeLists

(* What a custom resource and a resource the manager returned have alike. *)
Described(r) == /\ r.spec \in Specs /\ r.ann \in Annotations
                /\ r.status \in CCStatus \cup {"none"} /\ r.cond \in Conds

LEMMA RecordsDescribed ==
  /\ \A r \in CRs : Described(r)
  /\ \A r \in Observations : Described(r)
  BY DEF CRs, Observations, Described

(* The counts of a cluster there is: never zero. *)
LEMMA CountsType ==
  ASSUME NEW c \in Clusters, c.nodes # <<>>, c.target # <<>>
  PROVE  /\ numCacheNodes(c) \in 1..MaxNodes
         /\ pendingNodes(c) \in {None} \cup 1..MaxNodes
  BY NodeListLength DEF Clusters, numCacheNodes, pendingNodes

(* sdkFind returns a well-formed resource. *)
LEMMA sdkFindType ==
  ASSUME TypeInv, aws.status # "none", NEW r, Described(r)
  PROVE  sdkFind(r) \in Observations
<1>1. aws \in Clusters /\ aws.auto \in BOOLEAN /\ aws.tags \in T!TagMaps
      /\ aws.status \in CCStatus \cup {"none"}
  BY DEF TypeInv, TypeOK, Clusters
<1>2. /\ numCacheNodes(aws) \in 1..MaxNodes
      /\ pendingNodes(aws) \in {None} \cup 1..MaxNodes
  BY <1>1, CountsType DEF TypeInv, HasNodes
<1>3. [r.spec EXCEPT !.num = numCacheNodes(aws), !.auto = aws.auto,
         !.tags = IF isAvailable(r) THEN aws.tags ELSE @] \in Specs
  BY <1>1, <1>2 DEF Described, Specs
<1>4. [r.cond EXCEPT !.synced = foundSynced(r)] \in Conds
  BY DEF Described, Conds, CondStatus, foundSynced
<1>5. onSuccess([r.cond EXCEPT !.synced = foundSynced(r)]) \in Conds
  BY <1>4, ConditionsType DEF Errors
<1> QED
  BY <1>1, <1>2, <1>3, <1>5 DEF sdkFind, Observations, Described

(* So does the answer of a call that was accepted. *)
LEMMA callOutputType ==
  ASSUME NEW d, Described(d), NEW c \in Clusters, c.nodes # <<>>, c.target # <<>>,
         NEW s \in CondStatus
  PROVE  callOutput(d, c, s) \in Observations
<1>1. c.auto \in BOOLEAN /\ c.status \in CCStatus \cup {"none"}
  BY DEF Clusters
<1>2. [d.spec EXCEPT !.num = numCacheNodes(c), !.auto = c.auto] \in Specs
  BY <1>1, CountsType DEF Described, Specs
<1>3. [azs |-> d.spec.azs] \in Annotations
  BY DEF Described, Specs, Annotations
<1>4. [d.cond EXCEPT !.synced = s] \in Conds
  BY DEF Described, Conds
<1>5. onSuccess([d.cond EXCEPT !.synced = s]) \in Conds
  BY <1>4, ConditionsType DEF Errors
<1> QED
  BY <1>1, <1>2, <1>3, <1>5, CountsType DEF callOutput, Observations

LEMMA asLatestType ==
  ASSUME NEW r \in CRs PROVE asLatest(r) \in Observations
  BY DEF asLatest, CRs, Observations

(* A failing operation leaves a well-formed result behind. *)
LEMMA FailWithType ==
  ASSUME TypeOK, NEW r \in Observations, NEW e \in Errors,
         FailWith(r, e) \/ DeleteReturns(r, e)
  PROVE  /\ latest' \in Observations /\ err' \in Errors
         /\ pc' \in Steps /\ desired' \in CRs
<1>1. r.cond \in Conds
  BY DEF Observations
<1>2. onErrorConds(r.cond, e) \in Conds /\ onErrorResult(r.cond, e) \in Errors
  BY <1>1, ConditionsType
<1> QED
  BY <1>2 DEF FailWith, DeleteReturns, Observations, Steps, TypeOK

-----------------------------------------------------------------------------
(* Type correctness: TypeInv is inductive. *)

LEMMA InitType == Init => TypeInv
<1>1. NoConds \in Conds
  BY DEF NoConds, Conds, CondStatus
<1>2. <<>> \in NodeLists
  <2>1. <<>> \in [1..0 -> AZs] /\ 0 \in 0..MaxNodes
    BY CCAssumption
  <2> QED
    BY <2>1 DEF NodeLists, Placements
<1> QED
  BY <1>1, <1>2, CCAssumption DEF Init, NewResource, StartsIdle, Cluster, TypeInv, TypeOK,
     HasNodes, CRs, Clusters, Observations, Steps, Errors, Annotations, ZoneLists, CCStatus,
     Specs

(* The user and the service on its own. *)
LEMMA EnvironmentType == TypeInv /\ (User \/ AwsProgress \/ AwsMay) => TypeInv'
<1> SUFFICES ASSUME TypeInv, User \/ AwsProgress \/ AwsMay PROVE TypeInv'
  OBVIOUS
<1> USE DEF TypeInv, TypeOK, HasNodes, Clusters, CCStatus, crVars, ctlVars, Fault
<1>1. CASE UserEdit(Specs)      BY <1>1 DEF UserEdit, CRs
<1>2. CASE UserDelete           BY <1>2 DEF UserDelete, CRs
<1>3. CASE AwsCreated           BY <1>3 DEF AwsCreated
<1>4. CASE AwsApplied           BY <1>4 DEF AwsApplied
<1>5. CASE AwsRolledBack
  <2>1. [aws EXCEPT !.status = "available", !.target = aws.nodes] \in Clusters
    OBVIOUS
  <2>2. aws' \in Clusters /\ aws'.nodes # <<>> /\ aws'.target # <<>>
    BY <1>5, <2>1 DEF AwsRolledBack
  <2>3. UNCHANGED <<cr, queued, pc, desired, latest, err, edits>> /\ faults' \in Nat
    BY <1>5 DEF AwsRolledBack
  <2> QED
    BY <2>2, <2>3
<1>6. CASE AwsReboots           BY <1>6 DEF AwsReboots
<1>7. CASE AwsRebooted          BY <1>7 DEF AwsRebooted
<1>8. CASE AwsDeleted           BY <1>8 DEF AwsDeleted
<1> QED
  BY <1>1, <1>2, <1>3, <1>4, <1>5, <1>6, <1>7, <1>8 DEF User, AwsProgress, AwsMay

(* The steps of a pass up to the update, a creation apart. *)
LEMMA PassType ==
  ASSUME TypeInv,
         \/ Fetch \/ FetchGone \/ ReadOne \/ ReadOneNotFound \/ ReadOneFails
         \/ Manage \/ CreateInvalid \/ CreateFails \/ ReadBack \/ ReadBackFails
  PROVE  TypeInv'
<1> USE DEF crVars, ctlVars, Fault, HasNodes
<1>0. /\ TypeOK
      /\ asLatest(desired) \in Observations
      /\ {"awsOther", "awsTerminal"} \subseteq Errors
  BY asLatestType DEF TypeInv, TypeOK, Errors
<1>1. CASE Fetch
  <2>1. NoConds \in Conds
    BY DEF NoConds, Conds, CondStatus
  <2> QED
    BY <1>1, <2>1 DEF Fetch, TypeInv, TypeOK, CRs, Steps, Errors
<1>2. CASE FetchGone
  BY <1>2 DEF FetchGone, TypeInv, TypeOK
<1>3. CASE ReadOne
  <2>1. sdkFind(desired) \in Observations
    BY <1>3, sdkFindType, RecordsDescribed DEF ReadOne, TypeInv, TypeOK
  <2> QED
    BY <1>3, <2>1 DEF ReadOne, TypeInv, TypeOK, Steps
<1>4. CASE ReadOneNotFound
  BY <1>4 DEF ReadOneNotFound, TypeInv, TypeOK, Steps
<1>5. CASE ReadOneFails \/ CreateInvalid \/ CreateFails
  <2>1. /\ \E e \in {"awsOther", "awsTerminal"} : FailWith(asLatest(desired), e)
        /\ UNCHANGED <<cr, queued, aws, edits>> /\ faults' \in Nat
    BY <1>5 DEF ReadOneFails, CreateInvalid, CreateFails, TypeInv, TypeOK
  <2>2. latest' \in Observations /\ err' \in Errors /\ pc' \in Steps /\ desired' \in CRs
    BY <1>0, <2>1, FailWithType
  <2> QED
    BY <2>1, <2>2 DEF TypeInv, TypeOK
<1>6. CASE Manage
  <2>1. [cr EXCEPT !.fin = TRUE] \in CRs /\ [desired EXCEPT !.fin = TRUE] \in CRs
    BY DEF TypeInv, TypeOK, CRs
  <2>2. CASE cr.exists
    BY <1>6, <2>1, <2>2 DEF Manage, TypeInv, TypeOK, Steps
  <2>3. CASE ~cr.exists
    BY <1>6, <2>3 DEF Manage, TypeInv, TypeOK, Steps
  <2> QED
    BY <2>2, <2>3
<1>7. CASE ReadBack
  <2>1. sdkFind(latest) \in Observations
    BY <1>7, sdkFindType, RecordsDescribed DEF ReadBack, TypeInv, TypeOK
  <2>2. latest' \in Observations
    BY <1>7, <2>1 DEF ReadBack, TypeInv, TypeOK, Observations
  <2> QED
    BY <1>7, <2>2 DEF ReadBack, TypeInv, TypeOK, Steps
<1>8. CASE ReadBackFails
  BY <1>8 DEF ReadBackFails, TypeInv, TypeOK, Steps, Errors
<1> QED
  BY <1>1, <1>2, <1>3, <1>4, <1>5, <1>6, <1>7, <1>8

(* A creation makes a cluster with the nodes it was asked for. *)
LEMMA CreateType ==
  ASSUME TypeInv, Create
  PROVE  TypeInv'
<1>1. desired \in CRs /\ desired.spec \in Specs /\ desired.spec.num \in 1..MaxNodes
  BY DEF TypeInv, TypeOK, CRs, Specs
<1>2. PICK z \in Placements(desired.spec.num) :
        aws' = Cluster("creating", z, desired.spec.auto, desired.spec.tags,
                       desired.spec.azs)
  BY DEF Create
<1>3. aws' \in Clusters /\ aws'.nodes # <<>> /\ aws'.target # <<>>
  BY <1>1, <1>2, PlacementsAreLists DEF Cluster, Clusters, CCStatus, Specs
<1>4. callOutput(desired, aws', "False") \in Observations
  BY <1>1, <1>3, callOutputType, RecordsDescribed DEF CondStatus
<1>5. asLatest(desired) \in Observations /\ "awsOther" \in Errors
  BY <1>1, asLatestType DEF Errors
<1>6. /\ latest' \in Observations /\ err' \in Errors /\ pc' \in Steps /\ desired' \in CRs
      /\ UNCHANGED <<cr, queued, edits>> /\ faults' \in Nat
  BY <1>4, <1>5, FailWithType DEF Create, TypeInv, TypeOK, Steps, Fault, crVars
<1> QED
  BY <1>3, <1>6 DEF TypeInv, TypeOK, HasNodes

(* The updates that send no count: they fail, or requeue after the tags. *)
LEMMA RefusedUpdateType ==
  ASSUME TypeInv, SyncTags \/ RefuseZones \/ ModifyCacheClusterFails
  PROVE  TypeInv'
<1>1. T!SyncTags(desired.spec.tags, latest.spec.tags, aws.tags) \in T!TagMaps
  BY SyncTagsType DEF TypeInv, TypeOK, CRs, Observations, Clusters, Specs
<1>2. aws' \in Clusters /\ (aws'.status # "none" => aws'.nodes # <<>> /\ aws'.target # <<>>)
  BY <1>1 DEF SyncTags, RefuseZones, ModifyCacheClusterFails, TypeInv, TypeOK, HasNodes,
              Clusters, CCStatus
<1>3. /\ \E e \in {"awsOther", "awsTerminal", "terminalError", "requeue"} :
           FailWith(latest, e)
      /\ UNCHANGED <<cr, queued, edits>> /\ faults' \in Nat
  BY DEF SyncTags, RefuseZones, ModifyCacheClusterFails, TypeInv, TypeOK, Fault, crVars
<1>4. latest' \in Observations /\ err' \in Errors /\ pc' \in Steps /\ desired' \in CRs
  <2>1. {"awsOther", "awsTerminal", "terminalError", "requeue"} \subseteq Errors
    BY DEF Errors
  <2> QED
    BY <1>3, <2>1, FailWithType DEF TypeInv, TypeOK
<1> QED
  BY <1>2, <1>3, <1>4 DEF TypeInv, TypeOK, HasNodes

(* A modification moves the cluster to the count it was asked for. *)
LEMMA ModifyCacheClusterType ==
  ASSUME TypeInv, ModifyCacheCluster
  PROVE  TypeInv'
<1>1. desired \in CRs /\ desired.spec \in Specs /\ desired.spec.num \in 1..MaxNodes
  BY DEF TypeInv, TypeOK, CRs, Specs
<1>2. PICK t \in Placed(desired.spec.num, remove, newZones) : aws' = Modified(t)
  BY DEF ModifyCacheCluster
<1>3. t \in NodeLists /\ t # <<>>
  BY <1>1, PlacementsAreLists DEF Placed
<1>4. aws' \in Clusters /\ aws'.nodes # <<>> /\ aws'.target # <<>>
  <2>1. aws \in Clusters /\ aws.nodes # <<>>
    BY DEF TypeInv, TypeOK, HasNodes, ModifyCacheCluster
  <2> QED
    BY <1>1, <1>2, <1>3, <2>1 DEF Modified, Clusters, CCStatus, Specs
<1>5. callOutput(desired, aws', "False") \in Observations
  BY <1>1, <1>4, callOutputType, RecordsDescribed DEF CondStatus
<1>6. latest \in Observations /\ "awsOther" \in Errors
  BY DEF TypeInv, TypeOK, Errors
<1>7. /\ latest' \in Observations /\ err' \in Errors /\ pc' \in Steps /\ desired' \in CRs
      /\ UNCHANGED <<cr, queued, edits>> /\ faults' \in Nat
  BY <1>5, <1>6, FailWithType DEF ModifyCacheCluster, TypeInv, TypeOK, Steps, Fault, crVars
<1> QED
  BY <1>4, <1>7 DEF TypeInv, TypeOK, HasNodes

(* The steps that end a pass, and what may end it between any two steps. *)
LEMMA EndOfPassType ==
  ASSUME TypeInv,
         \/ PatchSpec \/ LateInitialize \/ LateInitializeIncomplete
         \/ LateInitializeFails \/ PatchStatus \/ Crash
  PROVE  TypeInv'
<1> USE DEF crVars, ctlVars, Fault, HasNodes, TypeInv, TypeOK
<1>1. CASE PatchSpec
  <2>1. Patch(cr.spec, desired.spec, latest.spec) \in Specs
    BY DEF CRs, Observations, Specs, Patch
  <2>2. Patch(cr.ann, desired.ann, latest.ann) \in Annotations
    BY DEF CRs, Observations, Annotations, Patch
  <2>3. cr' \in CRs
    BY <1>1, <2>1, <2>2 DEF PatchSpec, CRs
  <2>4. queued' \in BOOLEAN
    BY <1>1 DEF PatchSpec
  <2>5. pc' \in Steps
    BY <1>1 DEF PatchSpec, Steps
  <2> QED
    BY <1>1, <2>3, <2>4, <2>5 DEF PatchSpec
<1>2. CASE LateInitialize
  <2>1. [latest EXCEPT !.zoned = TRUE] \in Observations
    BY DEF Observations
  <2>2. queued' \in BOOLEAN
    BY <1>2 DEF LateInitialize
  <2> QED
    BY <1>2, <2>1, <2>2 DEF LateInitialize, Steps
<1>3. CASE LateInitializeIncomplete \/ LateInitializeFails
  <2>1. [latest EXCEPT !.cond.synced = "False"] \in Observations
    BY DEF Observations, Conds, CondStatus
  <2>2. {"awsOther", "requeue"} \subseteq Errors
    BY DEF Errors
  <2> QED
    BY <1>3, <2>1, <2>2 DEF LateInitializeIncomplete, LateInitializeFails, Steps
<1>4. CASE PatchStatus
  <2>1. latest.cond \in Conds /\ ensureConditionsBy(latest.cond, err, TRUE) \in Conds
    BY ConditionsType DEF Observations
  <2>2. (IF desired.del THEN latest.cond ELSE ensureConditionsBy(latest.cond, err, TRUE))
          \in Conds
    BY <2>1
  <2>3. cr' \in CRs
    BY <1>4, <2>2 DEF PatchStatus, PatchStatusBy, CRs, Observations
  <2>4. queued' \in BOOLEAN
    BY <1>4 DEF PatchStatus, PatchStatusBy
  <2> QED
    BY <1>4, <2>3, <2>4 DEF PatchStatus, PatchStatusBy, Steps
<1>5. CASE Crash
  BY <1>5 DEF Crash, Steps
<1> QED
  BY <1>1, <1>2, <1>3, <1>4, <1>5

(* The steps of a deletion. *)
LEMMA DeletionType ==
  ASSUME TypeInv,
         \/ ReadDelete \/ ReadDeleteNotFound \/ ReadDeleteFails
         \/ DeleteWaits \/ Delete \/ DeleteFails \/ Unmanage
  PROVE  TypeInv'
<1> USE DEF crVars, ctlVars, Fault, HasNodes
<1>0. TypeOK /\ {"awsOther", "requeue"} \subseteq Errors
  BY DEF TypeInv, Errors
<1>1. CASE ReadDelete
  <2>1. sdkFind(desired) \in Observations
    BY <1>1, sdkFindType, RecordsDescribed DEF ReadDelete, TypeInv, TypeOK
  <2> QED
    BY <1>1, <2>1 DEF ReadDelete, TypeInv, TypeOK, Steps
<1>2. CASE ReadDeleteNotFound
  BY <1>2 DEF ReadDeleteNotFound, TypeInv, TypeOK, Steps
<1>3. CASE ReadDeleteFails
  BY <1>0, <1>3, asLatestType DEF ReadDeleteFails, TypeInv, TypeOK, Steps
<1>4. CASE DeleteWaits \/ DeleteFails
  <2>1. [latest EXCEPT !.cond.synced = "False"] \in Observations /\ latest \in Observations
    BY <1>0 DEF TypeOK, Observations, Conds, CondStatus
  <2>2. /\ \/ DeleteReturns([latest EXCEPT !.cond.synced = "False"], "requeue")
           \/ \E e \in {"awsOther", "awsTerminal"} : DeleteReturns(latest, e)
        /\ UNCHANGED <<cr, queued, aws, edits>> /\ faults' \in Nat
    BY <1>0, <1>4 DEF DeleteWaits, DeleteFails, Fault, crVars, TypeOK
  <2>3. latest' \in Observations /\ err' \in Errors /\ pc' \in Steps /\ desired' \in CRs
    <3>1. ASSUME NEW r \in Observations, NEW e \in Errors, DeleteReturns(r, e)
          PROVE  /\ latest' \in Observations /\ err' \in Errors
                 /\ pc' \in Steps /\ desired' \in CRs
      BY <1>0, <3>1, FailWithType
    <3> QED
      BY <2>1, <2>2, <3>1 DEF Errors
  <2> QED
    BY <2>2, <2>3 DEF TypeInv, TypeOK
<1>5. CASE Delete
  <2>1. [aws EXCEPT !.status = "deleting", !.target = aws.nodes] \in Clusters
    BY <1>0 DEF TypeOK, Clusters, CCStatus
  <2>2. aws' \in Clusters /\ aws'.nodes # <<>> /\ aws'.target # <<>>
    BY <1>0, <1>5, <2>1 DEF Delete, TypeInv, TypeOK, Clusters
  <2>3. latest' \in Observations /\ err' \in Errors /\ pc' \in Steps /\ desired' \in CRs
    <3>1. CASE DeleteDone
      BY <1>0, <3>1 DEF DeleteDone, TypeOK, Steps
    <3>2. CASE DeleteReturns(latest, "awsOther")
      BY <1>0, <3>2, FailWithType DEF TypeOK
    <3> QED
      BY <1>5, <3>1, <3>2 DEF Delete
  <2>4. UNCHANGED <<cr, queued, edits>> /\ faults' \in Nat
    BY <1>0, <1>5 DEF Delete, TypeOK
  <2> QED
    BY <2>2, <2>3, <2>4 DEF TypeInv, TypeOK
<1>6. CASE Unmanage
  BY <1>6 DEF Unmanage, TypeInv, TypeOK, CRs, Steps
<1> QED
  BY <1>1, <1>2, <1>3, <1>4, <1>5, <1>6

LEMMA NextType == TypeInv /\ [Next]_vars => TypeInv'
<1> SUFFICES ASSUME TypeInv, [Next]_vars PROVE TypeInv'
  OBVIOUS
<1>1. CASE UNCHANGED vars
  BY <1>1 DEF vars, TypeInv, TypeOK, HasNodes
<1>2. CASE User \/ AwsProgress \/ AwsMay
  BY <1>2, EnvironmentType
<1>3. CASE Controller \/ Crash
  BY <1>3, PassType, CreateType, RefusedUpdateType, ModifyCacheClusterType, EndOfPassType,
     DeletionType DEF Controller, Update
<1> QED
  BY <1>1, <1>2, <1>3 DEF Next

(* TypeOK with what makes it inductive: the counts of a cluster that is     *)
(* there are never zero.                                                    *)
THEOREM TypeInvariant == Spec => []TypeInv
  BY InitType, NextType, PTL DEF Spec

(* Every variable keeps its type: no read and no answer of a pending count  *)
(* puts into the spec a count of nodes the user could not have asked for.   *)
THEOREM TypeCorrect == Spec => []TypeOK
<1>1. TypeInv => TypeOK
  BY DEF TypeInv
<1> QED
  BY <1>1, TypeInvariant, PTL

-----------------------------------------------------------------------------
(* The life of the resource and of the cluster.                            *)

LEMMA RecordsAreCRs ==
  TypeInv => /\ IsCR(cr, Specs, Annotations, CCStatus \cup {"none"})
             /\ IsCR(desired, Specs, Annotations, CCStatus \cup {"none"})
  BY DEF TypeInv, TypeOK, CRs, IsCR

(* What the service does on its own is quiet, but for the end of a deletion. *)
LEMMA ServiceQuiet ==
  ASSUME TypeInv, (AwsProgress /\ ~AwsDeleted) \/ AwsMay
  PROVE  QuietStep
<1> USE DEF TypeInv, TypeOK, Clusters, QuietStep, External, crVars, ctlVars
<1>1. CASE AwsCreated     BY <1>1 DEF AwsCreated
<1>2. CASE AwsApplied     BY <1>2 DEF AwsApplied
<1>3. CASE AwsRolledBack  BY <1>3 DEF AwsRolledBack
<1>4. CASE AwsReboots     BY <1>4 DEF AwsReboots
<1>5. CASE AwsRebooted    BY <1>5 DEF AwsRebooted
<1> QED
  BY <1>1, <1>2, <1>3, <1>4, <1>5 DEF AwsProgress, AwsMay

(* So is every update: the cluster it modifies is there, and stays. *)
LEMMA UpdateQuiet ==
  ASSUME TypeInv, Update
  PROVE  QuietStep
<1> USE DEF TypeInv, TypeOK, Clusters, External, crVars, FailWith
<1> SUFFICES /\ UNCHANGED cr /\ External' = External /\ UNCHANGED desired
             /\ pc' \in {"patchSpec", "patchStatus"}
  BY DEF QuietStep
<1>1. CASE SyncTags                 BY <1>1 DEF SyncTags
<1>2. CASE RefuseZones              BY <1>2 DEF RefuseZones
<1>3. CASE ModifyCacheClusterFails  BY <1>3 DEF ModifyCacheClusterFails
<1>4. CASE ModifyCacheCluster       BY <1>4 DEF ModifyCacheCluster, Modified
<1> QED
  BY <1>1, <1>2, <1>3, <1>4 DEF Update

(* So are reads, failures and the waiting of a deletion. *)
LEMMA PassQuiet ==
  ASSUME TypeInv,
         \/ ReadOne \/ ReadOneFails \/ CreateInvalid \/ CreateFails \/ ReadBack
         \/ LateInitialize \/ LateInitializeIncomplete \/ LateInitializeFails
         \/ ReadDeleteFails \/ DeleteWaits \/ DeleteFails
  PROVE  QuietStep
<1> USE DEF QuietStep, External, crVars, FailWith, DeleteReturns
<1>1. CASE ReadOne                   BY <1>1 DEF ReadOne
<1>2. CASE ReadOneFails              BY <1>2 DEF ReadOneFails
<1>3. CASE CreateInvalid             BY <1>3 DEF CreateInvalid
<1>4. CASE CreateFails               BY <1>4 DEF CreateFails
<1>5. CASE ReadBack                  BY <1>5 DEF ReadBack
<1>6. CASE LateInitialize            BY <1>6 DEF LateInitialize
<1>7. CASE LateInitializeIncomplete  BY <1>7 DEF LateInitializeIncomplete
<1>8. CASE LateInitializeFails       BY <1>8 DEF LateInitializeFails
<1>9. CASE ReadDeleteFails           BY <1>9 DEF ReadDeleteFails
<1>10. CASE DeleteWaits              BY <1>10 DEF DeleteWaits
<1>11. CASE DeleteFails              BY <1>11 DEF DeleteFails
<1> QED
  BY <1>1, <1>2, <1>3, <1>4, <1>5, <1>6, <1>7, <1>8, <1>9, <1>10, <1>11

(* The steps that are not quiet: those of the runtime, and the manager's. *)
RuntimeMilestone ==
  UserDelete \/ Fetch \/ ReadOneNotFound \/ Manage \/ ReadDeleteNotFound \/ Unmanage

Milestone == RuntimeMilestone \/ AwsDeleted \/ Create \/ ReadDelete \/ Delete

LEMMA QuietOrMilestone ==
  ASSUME TypeInv, [Next]_vars
  PROVE  QuietStep \/ Milestone
<1>1. CASE UNCHANGED vars
  BY <1>1 DEF vars, QuietStep, External
<1>2. \/ UserEdit(Specs) \/ FetchGone \/ ReadBackFails \/ PatchSpec \/ PatchStatus
      \/ Crash
      => QuietStep
  BY RecordsAreCRs, RuntimeQuiet DEF PatchStatus
<1> QED
  BY <1>1, <1>2, ServiceQuiet, UpdateQuiet, PassQuiet
  DEF Next, User, Controller, AwsProgress, Milestone, RuntimeMilestone

LEMMA MilestoneInductive ==
  ASSUME TypeInv, LifecycleInv, Milestone
  PROVE  LifecycleInv'
<1> USE DEF TypeInv, TypeOK, LifecycleInv, FinalizerHolds, CreatesBehindFinalizer,
            DeletesOnRequest, crVars, ctlVars
<1>1. CASE RuntimeMilestone
  BY <1>1, RecordsAreCRs, RuntimeMilestones DEF RuntimeMilestone
<1>2. CASE AwsDeleted   BY <1>2 DEF AwsDeleted, Clusters
<1>3. CASE Create
  <2>1. aws'.status = "creating"
    BY <1>3 DEF Create, Cluster
  <2> QED
    BY <1>3, <2>1 DEF Create, FailWith
<1>4. CASE ReadDelete   BY <1>4 DEF ReadDelete
<1>5. CASE Delete
  <2>1. aws'.status = "deleting" /\ UNCHANGED <<cr, desired>>
    BY <1>5 DEF Delete, DeleteDone, DeleteReturns, Clusters
  <2>2. pc' \in {"unmanage", "patchSpec"} /\ pc = "delete"
    BY <1>5 DEF Delete, DeleteDone, DeleteReturns
  <2> QED
    BY <2>1, <2>2
<1> QED
  BY <1>1, <1>2, <1>3, <1>4, <1>5 DEF Milestone

(* The inductive invariant of the lifecycle. *)
THEOREM LifecycleCorrect == Spec => []LifecycleInv
<1>1. Init => LifecycleInv
  BY DEF Init, NewResource, StartsIdle, Cluster, LifecycleInv, FinalizerHolds,
         CreatesBehindFinalizer, DeletesOnRequest
<1>2. TypeInv /\ LifecycleInv /\ [Next]_vars => LifecycleInv'
  BY QuietOrMilestone, QuietInductive, MilestoneInductive
<1> QED
  BY <1>1, <1>2, TypeInvariant, PTL DEF Spec

(* Each milestone is one step of the lifecycle, or none. *)
LEMMA MilestoneSteps ==
  ASSUME TypeInv, LifecycleInv, Milestone
  PROVE  [Lifecycle!Next]_(Lifecycle!vars)
<1> USE DEF TypeInv, TypeOK, CRs, Clusters, LifecycleInv, Lifecycle!Next, Lifecycle!vars
<1>1. CASE UserDelete
  BY <1>1 DEF UserDelete, Lifecycle!RequestDeletion
<1>2. CASE AwsDeleted
  BY <1>2 DEF AwsDeleted, crVars, Lifecycle!Vanish
<1>3. CASE Fetch \/ ReadOneNotFound \/ ReadDelete \/ ReadDeleteNotFound
  BY <1>3 DEF Fetch, ReadOneNotFound, ReadDelete, ReadDeleteNotFound, crVars
<1>4. CASE Manage
  BY <1>4 DEF Manage, Lifecycle!Hold
<1>5. CASE Create
  <2>1. aws.status = "none" /\ aws'.status = "creating" /\ UNCHANGED cr
    BY <1>5 DEF Create, Cluster, crVars
  <2>2. cr.fin /\ cr.exists
    BY <1>5 DEF Create, CreatesBehindFinalizer, FinalizerHolds
  <2> QED
    BY <2>1, <2>2 DEF Lifecycle!Create
<1>6. CASE Delete
  <2>1. UNCHANGED cr /\ cr.del
    BY <1>6 DEF Delete, crVars, DeletesOnRequest
  <2>2. aws.status = "available" /\ aws'.status = "deleting"
    BY <1>6 DEF Delete
  <2> QED
    BY <2>1, <2>2 DEF Lifecycle!Destroy
<1>7. CASE Unmanage
  <2>1. cr.del /\ cr.fin /\ aws.status \in {"none", "deleting"}
    BY <1>7 DEF Unmanage, DeletesOnRequest
  <2> QED
    BY <1>7, <2>1 DEF Unmanage, Lifecycle!Release
<1> QED
  BY <1>1, <1>2, <1>3, <1>4, <1>5, <1>6, <1>7 DEF Milestone, RuntimeMilestone

(* The controller, with all its failures, implements the lifecycle: a cache *)
(* cluster is created behind a finalizer only, deleted on request only, and *)
(* the object is released no sooner than the cluster is dying.              *)
THEOREM Refinement == Spec => ImplementsLifecycle
<1>1. Init => Lifecycle!Init
  BY DEF Init, NewResource, Cluster, Lifecycle!Init
<1>2. QuietStep => UNCHANGED Lifecycle!vars
  BY DEF QuietStep, External, Lifecycle!vars
<1>3. TypeInv /\ LifecycleInv /\ [Next]_vars => [Lifecycle!Next]_(Lifecycle!vars)
  BY <1>2, QuietOrMilestone, MilestoneSteps
<1> QED
  BY <1>1, <1>3, TypeInvariant, LifecycleCorrect, PTL
  DEF Spec, ImplementsLifecycle, Lifecycle!Spec

-----------------------------------------------------------------------------
(* The work queue.                                                         *)

LEMMA ServiceLeavesPass ==
  ASSUME AwsProgress \/ AwsMay \/ UNCHANGED vars
  PROVE  PassUntouched
  BY DEF PassUntouched, AwsProgress, AwsMay, AwsCreated, AwsApplied, AwsRolledBack,
         AwsReboots, AwsRebooted, AwsDeleted, crVars, ctlVars, vars

(* Every call of the manager ends the pass with an error its conditions     *)
(* show, or lets the pass go on without one.                                *)
LEMMA ManagerGoesOn ==
  ASSUME TypeInv, QueueInv,
         \/ ReadOne \/ ReadOneFails \/ Create \/ CreateInvalid \/ CreateFails
         \/ ReadBack \/ Update
         \/ ReadDelete \/ ReadDeleteFails \/ DeleteWaits \/ Delete \/ DeleteFails
  PROVE  PassGoesOn
<1> USE DEF QueueInv, Running, PassGoesOn
<1> DEFINE E == {"awsOther", "awsTerminal", "terminalError", "requeue"}
<1>0. E \subseteq Errors \ {"ackTerminal"}
  BY DEF Errors
<1>1. \A r \in Observations : \A e \in E :
        FailWith(r, e) \/ DeleteReturns(r, e)
        => /\ err' = "ackTerminal" => latest'.cond.terminal = "True"
           /\ pc' \in {"patchSpec", "patchStatus"}
  BY <1>0, FailuresShowTerminal DEF Observations
<1>2. /\ asLatest(desired) \in Observations /\ latest \in Observations
      /\ [latest EXCEPT !.cond.synced = "False"] \in Observations
  BY asLatestType DEF TypeInv, TypeOK, Observations, Conds, CondStatus
<1>3. CASE ReadOne \/ ReadBack \/ ReadDelete
  BY <1>3 DEF ReadOne, ReadBack, ReadDelete
<1>4. CASE ReadOneFails \/ Create \/ CreateInvalid \/ CreateFails
  BY <1>1, <1>2, <1>4 DEF ReadOneFails, Create, CreateInvalid, CreateFails
<1>5. CASE Update
  BY <1>1, <1>2, <1>5 DEF Update, Updating, SyncTags, RefuseZones, ModifyCacheCluster,
                          ModifyCacheClusterFails
<1>6. CASE ReadDeleteFails
  BY <1>6 DEF ReadDeleteFails
<1>7. CASE DeleteWaits \/ Delete \/ DeleteFails
  BY <1>1, <1>2, <1>7 DEF DeleteWaits, Delete, DeleteFails, DeleteDone
<1> QED
  BY <1>3, <1>4, <1>5, <1>6, <1>7

(* LateInitialize replaces the result of a pass that has no terminal error. *)
LEMMA LateInitializeQueue ==
  ASSUME TypeInv, QueueInv,
         LateInitialize \/ LateInitializeIncomplete \/ LateInitializeFails
  PROVE  QueueInv'
  BY DEF QueueInv, NeverAbandoned, Running, TypeInv, TypeOK, Observations, LateInitialize,
         LateInitializeIncomplete, LateInitializeFails, crVars

(* No cache cluster drops out of the work queue unless it shows a Terminal  *)
(* condition, whatever fails on the way.                                    *)
THEOREM NeverAbandonedTheorem == Spec => []NeverAbandoned
<1>1. Init => QueueInv
  BY DEF Init, StartsIdle, QueueInv, NeverAbandoned, Running
<1>2. TypeInv /\ QueueInv /\ [Next]_vars => QueueInv'
  <2> SUFFICES ASSUME TypeInv, QueueInv, [Next]_vars PROVE QueueInv'
    OBVIOUS
  <2>1. UserEdit(Specs) \/ UserDelete => PassUntouched
    BY RecordsAreCRs, UserLeavesPass
  <2>2. latest.cond \in Conds
    BY DEF TypeInv, TypeOK, Observations
  <2>3. \/ Fetch \/ FetchGone \/ ReadOneNotFound \/ Manage \/ ReadBackFails
        \/ PatchSpec \/ PatchStatus \/ ReadDeleteNotFound \/ Unmanage \/ Crash
        => QueueInv'
    BY <2>2, RecordsAreCRs, RuntimeQueue DEF PatchStatus
  <2> QED
    BY <2>1, <2>3, ServiceLeavesPass, ManagerGoesOn, LateInitializeQueue, OthersQueue
    DEF Next, User, Controller
<1>3. QueueInv => NeverAbandoned
  BY DEF QueueInv
<1> QED
  BY <1>1, <1>2, <1>3, TypeInvariant, PTL DEF Spec

-----------------------------------------------------------------------------
(* What a pass answers and reports.                                        *)

(* The pass has an answer of the service and no error. *)
Concluding ==
  pc \in {"readBack", "patchSpec", "lateInit", "patchStatus"} /\ err = "none" /\ ~desired.del

(* Nodes are on the move only while the cluster is being modified. *)
StaysPut == aws.status # "modifying" => aws.target = aws.nodes

(* What a creation or a modification answers is what was asked for. *)
AnswersAsAsked ==
  pc \in {"readBack", "patchSpec"} /\ ~desired.del => latest.spec = desired.spec

(* After a call the resource is not Synced ... *)
NotSyncedYet ==
  /\ pc = "readBack" => latest.status = "creating"
  /\ pc \in {"readBack", "patchSpec"} /\ ~desired.del => latest.cond.synced = "False"

(* ... and if it is, the cluster, rebooting or not, is as it was asked for. *)
SyncedIsTrue ==
  Concluding =>
    /\ latest.cond.synced \in {"True", "False"}
    /\ latest.status = "available" /\ latest.cond.synced = "True"
       => /\ aws.status \in {"available", "rebooting"}
          /\ Len(aws.nodes) = desired.spec.num
          /\ aws.auto = desired.spec.auto
          /\ aws.tags = desired.spec.tags

ReportInv == StaysPut /\ AnswersAsAsked /\ NotSyncedYet /\ SyncedIsTrue

(* The count a response gives of nodes that stay where they are. *)
LEMMA CountOfTarget ==
  ASSUME NEW c \in Clusters
  PROVE  /\ numCacheNodes(c) = Len(c.target)
         /\ pendingNodes(c) \in {None, Len(c.target)}
<1>1. Len(c.target) \in Nat
  BY NodeListLength, CCAssumption DEF Clusters
<1> QED
  BY <1>1, CCAssumption DEF numCacheNodes, pendingNodes

LEMMA CondsOfResults ==
  ASSUME NEW c \in Conds, NEW s \in CondStatus
  PROVE  onSuccess([c EXCEPT !.synced = s]).synced = s
  BY DEF onSuccess, updateConditions, terminalAWSError, Conds

(* A failure is no conclusion. *)
LEMMA FailuresConcludeNothing ==
  ASSUME NEW r, NEW e \in {"awsOther", "awsTerminal", "terminalError", "requeue"},
         FailWith(r, e) \/ DeleteReturns(r, e)
  PROVE  err' # "none" /\ UNCHANGED desired /\ pc' \in {"patchSpec", "patchStatus"}
  BY DEF FailWith, DeleteReturns, onErrorResult

(* What others do to a cluster that is available, or to the resource. *)
LEMMA OthersReport ==
  ASSUME TypeInv, ReportInv, User \/ AwsProgress \/ AwsMay
  PROVE  ReportInv'
<1>1. UNCHANGED <<pc, desired, latest, err>>
  BY DEF User, UserEdit, UserDelete, AwsProgress, AwsMay, AwsCreated, AwsApplied,
         AwsRolledBack, AwsReboots, AwsRebooted, AwsDeleted, ctlVars
<1>2. StaysPut'
  BY DEF ReportInv, StaysPut, TypeInv, TypeOK, Clusters, User, UserEdit, UserDelete,
         AwsProgress, AwsMay, AwsCreated, AwsApplied, AwsRolledBack, AwsReboots,
         AwsRebooted, AwsDeleted
<1>3. aws.status \in {"available", "rebooting"}
      => /\ aws'.status \in {"available", "rebooting"}
         /\ aws'.nodes = aws.nodes /\ aws'.auto = aws.auto /\ aws'.tags = aws.tags
  BY DEF TypeInv, TypeOK, Clusters, User, UserEdit, UserDelete, AwsProgress, AwsMay,
         AwsCreated, AwsApplied, AwsRolledBack, AwsReboots, AwsRebooted, AwsDeleted
<1> QED
  BY <1>1, <1>2, <1>3 DEF ReportInv, AnswersAsAsked, NotSyncedYet, SyncedIsTrue, Concluding

(* The steps of the runtime. *)
LEMMA RuntimeReports ==
  ASSUME TypeInv, ReportInv,
         \/ Fetch \/ FetchGone \/ ReadOneNotFound \/ Manage \/ ReadBackFails \/ PatchSpec
         \/ PatchStatus \/ ReadDeleteNotFound \/ Unmanage \/ Crash
  PROVE  ReportInv'
<1> USE DEF ReportInv, StaysPut, AnswersAsAsked, NotSyncedYet, SyncedIsTrue, Concluding,
            crVars, ctlVars
<1>1. CASE Fetch \/ FetchGone       BY <1>1 DEF Fetch, FetchGone
<1>2. CASE ReadOneNotFound          BY <1>2 DEF ReadOneNotFound
<1>3. CASE Manage                   BY <1>3 DEF Manage
<1>4. CASE ReadBackFails            BY <1>4 DEF ReadBackFails
<1>5. CASE PatchSpec                BY <1>5 DEF PatchSpec
<1>6. CASE PatchStatus              BY <1>6 DEF PatchStatus, PatchStatusBy
<1>7. CASE ReadDeleteNotFound       BY <1>7 DEF ReadDeleteNotFound
<1>8. CASE Unmanage                 BY <1>8 DEF Unmanage
<1>9. CASE Crash                    BY <1>9 DEF Crash
<1> QED
  BY <1>1, <1>2, <1>3, <1>4, <1>5, <1>6, <1>7, <1>8, <1>9

(* A read that shows no difference, and Synced, shows the cluster as it is. *)
LEMMA ReadOneReports ==
  ASSUME TypeInv, LifecycleInv, ReportInv, ReadOne
  PROVE  ReportInv'
<1>1. /\ UNCHANGED <<aws, desired, err>> /\ pc' \in {"update", "lateInit"}
      /\ latest' = sdkFind(desired)
      /\ pc' = "lateInit" => newResourceDelta(desired, sdkFind(desired)) = {}
  BY DEF ReadOne
<1>2. desired.cond \in Conds /\ aws \in Clusters
  BY DEF TypeInv, TypeOK, CRs
<1>3. /\ latest'.cond.synced = foundSynced(desired)
      /\ latest'.status = aws.status
      /\ latest'.spec.num = Len(aws.target) /\ latest'.spec.auto = aws.auto
      /\ isAvailable(desired) => latest'.spec.tags = aws.tags
  <2>1. desired.spec \in Specs
    BY DEF TypeInv, TypeOK, CRs
  <2> QED
    BY <1>1, <1>2, <2>1, CondsOfResults, CountOfTarget
    DEF sdkFind, foundSynced, CondStatus, Specs
<1>4. pc' = "lateInit" => /\ latest'.spec.num = desired.spec.num
                          /\ latest'.spec.auto = desired.spec.auto
                          /\ latest'.spec.tags = desired.spec.tags
  BY <1>1 DEF newResourceDelta
<1>5. SyncedIsTrue'
  BY <1>1, <1>3, <1>4 DEF SyncedIsTrue, Concluding, foundSynced, ReportInv, StaysPut
<1> QED
  BY <1>1, <1>5 DEF ReportInv, StaysPut, AnswersAsAsked, NotSyncedYet

(* What a call answers about a cluster that goes to what was asked for. *)
LEMMA CallOutputAnswers ==
  ASSUME NEW c \in Clusters, desired \in CRs,
         Len(c.target) = desired.spec.num, c.auto = desired.spec.auto
  PROVE  /\ callOutput(desired, c, "False").spec = desired.spec
         /\ callOutput(desired, c, "False").status = c.status
         /\ callOutput(desired, c, "False").cond.synced = "False"
<1>1. desired.spec \in Specs /\ desired.cond \in Conds
  BY DEF CRs
<1>2. [desired.spec EXCEPT !.num = numCacheNodes(c), !.auto = c.auto] = desired.spec
  BY <1>1, CountOfTarget DEF Specs
<1> QED
  BY <1>1, <1>2, CondsOfResults DEF callOutput, CondStatus

LEMMA CreateReports ==
  ASSUME TypeInv, ReportInv, Create
  PROVE  ReportInv'
<1>1. desired \in CRs /\ desired.spec \in Specs /\ desired.spec.num \in 1..MaxNodes
  BY DEF TypeInv, TypeOK, CRs, Specs
<1>2. PICK z \in Placements(desired.spec.num) :
        aws' = Cluster("creating", z, desired.spec.auto, desired.spec.tags,
                       desired.spec.azs)
  BY DEF Create
<1>3. /\ aws' \in Clusters /\ aws'.target = aws'.nodes /\ aws'.status = "creating"
      /\ Len(aws'.target) = desired.spec.num /\ aws'.auto = desired.spec.auto
  <2>1. Len(z) = desired.spec.num
    BY <1>1, <1>2, CCAssumption DEF Placements
  <2>2. aws' \in Clusters
    BY <1>1, <1>2, PlacementsAreLists DEF Cluster, Clusters, CCStatus, Specs
  <2> QED
    BY <1>2, <2>1, <2>2 DEF Cluster
<1>4. CASE /\ latest' = callOutput(desired, aws', "False") /\ pc' = "readBack"
           /\ UNCHANGED <<desired, err>>
  BY <1>1, <1>3, <1>4, CallOutputAnswers
  DEF ReportInv, StaysPut, AnswersAsAsked, NotSyncedYet, SyncedIsTrue
<1>5. CASE FailWith(asLatest(desired), "awsOther")
  <2>1. err' # "none" /\ pc' = "patchStatus"
    BY <1>5, FailuresConcludeNothing DEF FailWith
  <2> QED
    BY <1>3, <2>1
    DEF ReportInv, StaysPut, AnswersAsAsked, NotSyncedYet, SyncedIsTrue, Concluding
<1> QED
  BY <1>4, <1>5 DEF Create

(* A new cluster is read back with the conditions of its creation. *)
LEMMA ReadBackReports ==
  ASSUME TypeInv, ReportInv, ReadBack
  PROVE  ReportInv'
<1>1. /\ UNCHANGED <<aws, desired, err>> /\ pc = "readBack" /\ pc' = "patchSpec"
      /\ latest' = [latest EXCEPT !.status = sdkFind(latest).status,
                                  !.cond = sdkFind(latest).cond,
                                  !.pending = sdkFind(latest).pending]
  BY DEF ReadBack
<1>2. latest \in Observations
  BY DEF TypeInv, TypeOK
<1>3. sdkFind(latest).cond.synced = "False"
  <2>1. latest.status = "creating" /\ latest.cond \in Conds
    BY <1>1, <1>2 DEF ReportInv, NotSyncedYet, Observations
  <2> QED
    BY <2>1, CondsOfResults DEF sdkFind, foundSynced, isAvailable, CondStatus
<1>4. latest'.spec = latest.spec /\ latest'.cond.synced = "False"
  BY <1>1, <1>2, <1>3 DEF Observations
<1> QED
  BY <1>1, <1>4 DEF ReportInv, StaysPut, AnswersAsAsked, NotSyncedYet, SyncedIsTrue, Concluding

(* A modification answers with the count it was asked for, pending or not. *)
LEMMA ModifyCacheClusterReports ==
  ASSUME TypeInv, ReportInv, ModifyCacheCluster
  PROVE  ReportInv'
<1>1. desired \in CRs /\ desired.spec \in Specs /\ desired.spec.num \in 1..MaxNodes
  BY DEF TypeInv, TypeOK, CRs, Specs
<1>2. PICK t \in Placed(desired.spec.num, remove, newZones) : aws' = Modified(t)
  BY DEF ModifyCacheCluster
<1>3. /\ aws' \in Clusters
      /\ Len(aws'.target) = desired.spec.num /\ aws'.auto = desired.spec.auto
      /\ aws'.status # "modifying" => aws'.target = aws'.nodes
  <2>1. t \in Placements(desired.spec.num)
    BY <1>2 DEF Placed
  <2>2. Len(t) = desired.spec.num /\ t \in NodeLists
    BY <1>1, <2>1, CCAssumption, PlacementsAreLists DEF Placements
  <2>3. aws \in Clusters
    BY DEF TypeInv, TypeOK
  <2> QED
    BY <1>1, <1>2, <2>2, <2>3 DEF Modified, Clusters, CCStatus, Specs
<1>4. CASE /\ latest' = callOutput(desired, aws', "False") /\ pc' = "patchSpec"
           /\ UNCHANGED <<desired, err>>
  BY <1>1, <1>3, <1>4, CallOutputAnswers
  DEF ReportInv, StaysPut, AnswersAsAsked, NotSyncedYet, SyncedIsTrue
<1>5. CASE FailWith(latest, "awsOther")
  <2>1. err' # "none" /\ pc' = "patchStatus"
    BY <1>5, FailuresConcludeNothing DEF FailWith
  <2> QED
    BY <1>3, <2>1
    DEF ReportInv, StaysPut, AnswersAsAsked, NotSyncedYet, SyncedIsTrue, Concluding
<1> QED
  BY <1>4, <1>5 DEF ModifyCacheCluster

(* What fails, or is not finished, is not reported as Synced. *)
LEMMA FailuresReport ==
  ASSUME TypeInv, ReportInv,
         \/ ReadOneFails \/ CreateInvalid \/ CreateFails
         \/ SyncTags \/ RefuseZones \/ ModifyCacheClusterFails
  PROVE  ReportInv'
<1>1. /\ pc' = "patchStatus" /\ err' # "none"
  BY FailuresConcludeNothing
  DEF ReadOneFails, CreateInvalid, CreateFails, SyncTags, RefuseZones,
      ModifyCacheClusterFails, FailWith
<1>2. StaysPut'
  BY DEF ReportInv, StaysPut, TypeInv, TypeOK, Clusters, ReadOneFails, CreateInvalid,
         CreateFails, SyncTags, RefuseZones, ModifyCacheClusterFails
<1> QED
  BY <1>1, <1>2 DEF ReportInv, AnswersAsAsked, NotSyncedYet, SyncedIsTrue, Concluding

LEMMA LateInitializeReports ==
  ASSUME TypeInv, ReportInv,
         LateInitialize \/ LateInitializeIncomplete \/ LateInitializeFails
  PROVE  ReportInv'
<1>1. /\ latest'.cond.synced = latest.cond.synced /\ latest'.status = latest.status
         /\ pc = "lateInit" /\ UNCHANGED err
      \/ err' # "none"
  BY DEF TypeInv, TypeOK, Observations, LateInitialize, LateInitializeIncomplete,
         LateInitializeFails
<1>2. pc' = "patchStatus" /\ UNCHANGED <<aws, desired>>
  BY DEF LateInitialize, LateInitializeIncomplete, LateInitializeFails
<1> QED
  BY <1>1, <1>2 DEF ReportInv, StaysPut, AnswersAsAsked, NotSyncedYet, SyncedIsTrue, Concluding

LEMMA DeletionReports ==
  ASSUME TypeInv, LifecycleInv, ReportInv,
         ReadDelete \/ ReadDeleteFails \/ DeleteWaits \/ Delete \/ DeleteFails
  PROVE  ReportInv'
<1>1. desired.del /\ UNCHANGED desired /\ pc' # "readBack"
  BY DEF LifecycleInv, DeletesOnRequest, ReadDelete, ReadDeleteFails, DeleteWaits, Delete,
         DeleteFails, DeleteReturns, DeleteDone
<1>2. StaysPut'
  BY DEF ReportInv, StaysPut, TypeInv, TypeOK, Clusters, ReadDelete, ReadDeleteFails,
         DeleteWaits, Delete, DeleteFails
<1> QED
  BY <1>1, <1>2 DEF ReportInv, AnswersAsAsked, NotSyncedYet, SyncedIsTrue, Concluding

(* Every answer is as asked, and every report of Synced true. *)
LEMMA ReportsCorrect == Spec => []ReportInv
<1>1. Init => ReportInv
  BY DEF Init, StartsIdle, Cluster, ReportInv, StaysPut, AnswersAsAsked, NotSyncedYet,
         SyncedIsTrue, Concluding
<1>2. TypeInv /\ LifecycleInv /\ ReportInv /\ [Next]_vars => ReportInv'
  <2> SUFFICES ASSUME TypeInv, LifecycleInv, ReportInv, [Next]_vars PROVE ReportInv'
    OBVIOUS
  <2>1. CASE UNCHANGED vars
    BY <2>1 DEF vars, ReportInv, StaysPut, AnswersAsAsked, NotSyncedYet, SyncedIsTrue,
                Concluding
  <2> QED
    BY <2>1, OthersReport, RuntimeReports, ReadOneReports, CreateReports, ReadBackReports,
       ModifyCacheClusterReports, FailuresReport, LateInitializeReports, DeletionReports
    DEF Next, Controller, Update
<1> QED
  BY <1>1, <1>2, TypeInvariant, LifecycleCorrect, PTL DEF Spec

(***************************************************************************)
(* Synced=True of an available cluster is the truth, whatever was lost,    *)
(* refused, rolled back or interrupted before and whatever was edited      *)
(* meanwhile, although Synced is judged by the status of the pass before   *)
(* (sdkFind).                                                              *)
(***************************************************************************)
THEOREM SyncedTellsTheTruthTheorem == Spec => []SyncedTellsTheTruth
<1>1. ReportInv => SyncedTellsTheTruth
  BY DEF ReportInv, SyncedIsTrue, Concluding, SyncedTellsTheTruth, ensureConditions,
         ensureConditionsBy
<1> QED
  BY <1>1, ReportsCorrect, PTL

(***************************************************************************)
(* No answer of a call takes back an edit the user made meanwhile: pending *)
(* values come back as the count that was asked for (sdkUpdate).           *)
(***************************************************************************)
THEOREM EditsSurvivePatchTheorem == Spec => EditsSurvivePatch
<1>1. TypeInv /\ ReportInv /\ [Next]_vars
      => [PatchSpec /\ ~desired.del => cr'.spec = cr.spec]_vars
  <2> SUFFICES ASSUME TypeInv, ReportInv, PatchSpec, ~desired.del
               PROVE  cr'.spec = cr.spec
    OBVIOUS
  <2>1. latest.spec = desired.spec
    BY DEF ReportInv, AnswersAsAsked, PatchSpec
  <2>2. Patch(cr.spec, desired.spec, latest.spec) = cr.spec
    BY <2>1 DEF Patch, TypeInv, TypeOK, CRs, Specs
  <2> QED
    BY <2>2 DEF PatchSpec, TypeInv, TypeOK, CRs
<1> QED
  BY <1>1, TypeInvariant, ReportsCorrect, PTL DEF Spec, EditsSurvivePatch

-----------------------------------------------------------------------------
(* What an update may rely on of the read before it.                       *)

(* The count that was read is that of the nodes the cluster goes to, unless *)
(* the service takes a modification back.                                   *)
CountsTheTarget ==
  pc = "update" => /\ latest.spec.num = Len(aws.target)
                   /\ latest.pending \in {None, Len(aws.target)}

(* A step after which no update is about to be made, or the same one of a  *)
(* cluster that goes to the same nodes.                                    *)
LEMMA CountsStand ==
  ASSUME CountsTheTarget,
         \/ pc' # "update"
         \/ UNCHANGED <<pc, latest>> /\ aws'.target = aws.target
  PROVE  CountsTheTarget'
  BY DEF CountsTheTarget

LEMMA CountsInductive ==
  ASSUME TypeInv, CountsTheTarget, [Next]_vars, ~AwsRolledBack
  PROVE  CountsTheTarget'
<1>1. CASE User \/ AwsProgress \/ AwsMay \/ UNCHANGED vars
  <2>1. UNCHANGED <<pc, latest>> /\ aws'.target = aws.target
    BY <1>1 DEF User, UserEdit, UserDelete, AwsProgress, AwsMay, AwsCreated, AwsApplied,
                AwsReboots, AwsRebooted, AwsDeleted, ctlVars, vars, TypeInv, TypeOK,
                Clusters
  <2> QED
    BY <2>1, CountsStand
<1>2. CASE ReadOne
  <2>1. latest' = sdkFind(desired) /\ UNCHANGED aws /\ aws \in Clusters
    BY <1>2 DEF ReadOne, TypeInv, TypeOK
  <2>2. /\ latest'.spec.num = Len(aws.target)
        /\ latest'.pending \in {None, Len(aws.target)}
    BY <2>1, CountOfTarget DEF sdkFind, TypeInv, TypeOK, CRs, Specs
  <2> QED
    BY <2>1, <2>2 DEF CountsTheTarget
<1>3. CASE FetchGone
  BY <1>3, CountsStand DEF FetchGone, ctlVars
<1>4. CASE (Controller \/ Crash) /\ ~ReadOne /\ ~FetchGone
  <2>1. pc' # "update"
    BY <1>4 DEF Controller, Crash, Fetch, ReadOneNotFound, ReadOneFails, Manage, Create,
                CreateInvalid, CreateFails, ReadBack, ReadBackFails, Update, SyncTags,
                RefuseZones, ModifyCacheCluster, ModifyCacheClusterFails, PatchSpec,
                LateInitialize, LateInitializeIncomplete, LateInitializeFails, PatchStatus,
                PatchStatusBy, ReadDelete, ReadDeleteNotFound, ReadDeleteFails, DeleteWaits,
                Delete, DeleteFails, Unmanage, FailWith, DeleteReturns, DeleteDone
  <2> QED
    BY <2>1, CountsStand
<1> QED
  BY <1>1, <1>2, <1>3, <1>4 DEF Next

(* The nodes above the wanted count are those above it of the last ones. *)
LEMMA NodesToRemove ==
  ASSUME TypeInv, StaysPut, CountsTheTarget, pc = "update", aws.status = "available",
         desired.spec.num < Len(aws.nodes)
  PROVE  remove = desired.spec.num + 1 .. Len(aws.nodes)
<1>1. /\ latest.spec.num = Len(aws.nodes)
      /\ latest.pending \in {None, Len(aws.nodes)}
  BY DEF StaysPut, CountsTheTarget
<1>2. desired.spec.num \in Nat /\ Len(aws.nodes) \in Nat
  BY NodeListLength, CCAssumption DEF TypeInv, TypeOK, Clusters, CRs, Specs
<1>3. numNodes(latest) = Len(aws.nodes)
  BY <1>1, <1>2, CCAssumption DEF numNodes, Max2
<1>4. nodesDelta(desired, latest) = Len(aws.nodes) - desired.spec.num
  BY <1>1, <1>2, <1>3 DEF nodesDelta
<1>5. remove = {n \in 1..Len(aws.nodes) : n > desired.spec.num}
  BY <1>2, <1>3, <1>4 DEF remove, CacheNodeIdsToRemove
<1> QED
  BY <1>2, <1>5

(***************************************************************************)
(* As long as the service rolls no modification back, the nodes that are   *)
(* named for removal are the last ones the cluster has by then, although   *)
(* they are numbered from a count that was read before                     *)
(* (updateCacheClusterPayload).                                            *)
(***************************************************************************)
THEOREM RemovesTheLastNodesTheorem ==
  "rollback" \notin FaultKinds => (Spec => []RemovesTheLastNodes)
<1> SUFFICES ASSUME "rollback" \notin FaultKinds
             PROVE  Spec => []RemovesTheLastNodes
  OBVIOUS
<1>1. Init => CountsTheTarget
  BY DEF Init, StartsIdle, CountsTheTarget
<1>2. TypeInv /\ CountsTheTarget /\ [Next]_vars => CountsTheTarget'
  BY CountsInductive DEF AwsRolledBack, Fault
<1>3. TypeInv /\ ReportInv /\ CountsTheTarget => RemovesTheLastNodes
  BY NodesToRemove DEF ReportInv, RemovesTheLastNodes, Updating
<1> QED
  BY <1>1, <1>2, <1>3, TypeInvariant, ReportsCorrect, PTL DEF Spec

(* The zones the service accepted last are on record: in the annotation of *)
(* the resource or, until that is patched, in the answer of the call.      *)
OnRecord ==
  /\ pc \notin {"idle", "lateInit", "patchStatus"} => cr.ann = desired.ann
  /\ pc \in {"update", "delete"} => latest.ann = desired.ann
  /\ IF pc \in {"readBack", "patchSpec"} THEN latest.ann.azs = aws.asked /\ cr.fin
     ELSE cr.ann.azs = aws.asked

(* Nothing comes between a call and the record of it. *)
NothingLost == {"lost", "crash", "read"} \cap FaultKinds = {}

LEMMA RecordInductive ==
  ASSUME NothingLost, TypeInv, LifecycleInv, OnRecord, [Next]_vars
  PROVE  OnRecord'
<1> USE DEF OnRecord, TypeInv, TypeOK, crVars, ctlVars
<1>0. "lost" \notin FaultKinds /\ "crash" \notin FaultKinds /\ "read" \notin FaultKinds
  BY DEF NothingLost
<1>1. CASE User \/ AwsProgress \/ AwsMay \/ UNCHANGED vars
  <2>1. /\ UNCHANGED <<pc, latest, desired>> /\ aws'.asked = aws.asked
        /\ cr'.ann = cr.ann /\ cr'.fin = cr.fin
    BY <1>1 DEF User, UserEdit, UserDelete, AwsProgress, AwsMay, AwsCreated, AwsApplied,
                AwsRolledBack, AwsReboots, AwsRebooted, AwsDeleted, vars, Clusters, CRs
  <2> QED
    BY <2>1
<1>2. CASE Fetch
  BY <1>2 DEF Fetch, CRs
<1>3. CASE FetchGone \/ ReadOneNotFound \/ ReadDeleteNotFound
  BY <1>3 DEF FetchGone, ReadOneNotFound, ReadDeleteNotFound
<1>4. CASE Manage \/ Unmanage
  BY <1>4 DEF Manage, Unmanage, CRs
<1>5. CASE ReadOne \/ ReadDelete
  BY <1>5 DEF ReadOne, ReadDelete, sdkFind
<1>6. CASE Create \/ ModifyCacheCluster
  <2>1. /\ latest' = callOutput(desired, aws', "False") /\ pc' \in {"readBack", "patchSpec"}
        /\ UNCHANGED <<desired, cr>> /\ pc \in {"create", "update"}
    BY <1>0, <1>6 DEF Create, ModifyCacheCluster, Updating, Fault
  <2>2. aws'.asked = desired.spec.azs
    <3>1. CASE Create
      BY <3>1 DEF Create, Cluster
    <3>2. CASE ModifyCacheCluster
      <4>1. \A t : Modified(t).asked = desired.spec.azs
        BY DEF Modified, Clusters
      <4> QED
        BY <3>2, <4>1 DEF ModifyCacheCluster
    <3> QED
      BY <1>6, <3>1, <3>2
  <2>3. cr.fin
    BY <1>6 DEF Create, ModifyCacheCluster, LifecycleInv, CreatesBehindFinalizer
  <2> QED
    BY <2>1, <2>2, <2>3 DEF callOutput
<1>7. CASE ReadBack
  BY <1>7 DEF ReadBack, Observations
<1>8. CASE \/ CreateInvalid \/ CreateFails \/ SyncTags \/ RefuseZones
           \/ ModifyCacheClusterFails
  <2>1. /\ pc' = "patchStatus" /\ UNCHANGED cr /\ aws'.asked = aws.asked
        /\ pc \in {"create", "update"}
    BY <1>8 DEF CreateInvalid, CreateFails, SyncTags, RefuseZones, ModifyCacheClusterFails,
                Updating, FailWith, Clusters
  <2> QED
    BY <2>1
<1>9. CASE PatchSpec
  <2>1. Patch(cr.ann, desired.ann, latest.ann) = latest.ann
    BY <1>9 DEF PatchSpec, Patch, CRs, Observations, Annotations
  <2>2. cr.exists
    BY <1>9 DEF PatchSpec, LifecycleInv, FinalizerHolds
  <2> QED
    BY <1>9, <2>1, <2>2 DEF PatchSpec, CRs
<1>10. CASE \/ LateInitialize \/ LateInitializeIncomplete \/ PatchStatus
  BY <1>10 DEF LateInitialize, LateInitializeIncomplete, PatchStatus, PatchStatusBy, CRs
<1>11. CASE DeleteWaits \/ Delete \/ DeleteFails
  <2>1. /\ pc = "delete" /\ pc' \in {"patchSpec", "unmanage"} /\ UNCHANGED <<cr, desired>>
        /\ latest'.ann = latest.ann /\ aws'.asked = aws.asked
    BY <1>11 DEF DeleteWaits, Delete, DeleteFails, DeleteReturns, DeleteDone, Clusters,
                 Observations
  <2>2. cr.fin
    BY <2>1 DEF LifecycleInv, DeletesOnRequest
  <2> QED
    BY <2>1, <2>2
<1>12. ~ReadOneFails /\ ~ReadBackFails /\ ~LateInitializeFails /\ ~ReadDeleteFails /\ ~Crash
  BY <1>0 DEF ReadOneFails, ReadBackFails, LateInitializeFails, ReadDeleteFails, Crash, Fault
<1> QED
  BY <1>1, <1>2, <1>3, <1>4, <1>5, <1>6, <1>7, <1>8, <1>9, <1>10, <1>11, <1>12
  DEF Next, Controller, Update

(***************************************************************************)
(* As long as no answer is lost and no pass interrupted, zones are refused *)
(* only if the service has not accepted them already: the annotation that  *)
(* they are compared with is the record of the last request                *)
(* (setAnnotationsFields, updateCacheClusterPayload).                      *)
(***************************************************************************)
THEOREM RefusalMeansNewZonesTheorem == NothingLost => (Spec => []RefusalMeansNewZones)
<1> SUFFICES ASSUME NothingLost PROVE Spec => []RefusalMeansNewZones
  OBVIOUS
<1>1. Init => OnRecord
  BY DEF Init, NewResource, StartsIdle, Cluster, OnRecord
<1>2. TypeInv /\ LifecycleInv /\ OnRecord /\ [Next]_vars => OnRecord'
  BY RecordInductive
<1>3. OnRecord => RefusalMeansNewZones
  <2> SUFFICES ASSUME OnRecord, Updating("refuseZones")
               PROVE  desired.spec.azs # aws.asked
    BY DEF RefusalMeansNewZones
  <2>1. desired.spec.azs # desired.ann.azs
    BY DEF Updating, updateStep, zonesRefused
  <2> QED
    BY <2>1 DEF OnRecord, Updating
<1> QED
  BY <1>1, <1>2, <1>3, TypeInvariant, LifecycleCorrect, PTL DEF Spec
=============================================================================
