-------------------------- MODULE KindsTruthProofs --------------------------
(***************************************************************************)
(* What the smaller kinds report, for every value of the constants: every  *)
(* variable keeps its type, and a resource that is reported as synced is   *)
(* as its spec asks.                                                       *)
(***************************************************************************)
EXTENDS KindsProofs, FiniteSetTheorems

-----------------------------------------------------------------------------
(* Types: what is common to the kinds.                                     *)

PCs == Running \cup {"idle", "lateInit", "patchSpec", "patchStatus"}

CommonType ==
  /\ pc \in PCs /\ err \in Errors /\ queued \in BOOLEAN
  /\ edits \in 0..MaxEdits /\ faults \in 0..MaxFaults

(* A resource as a manager returns it. *)
IsResult(r, Specs, States) ==
  r \in [spec : Specs, ann : {NoAnnotations}, status : States, cond : Conds]

(* The resources of a pass: what a manager returns may have any spec of Found. *)
PassType(Wanted, Found, States) ==
  /\ IsCR(cr, Wanted, {NoAnnotations}, States)
  /\ IsCR(desired, Wanted, {NoAnnotations}, States)
  /\ IsResult(latest, Found, States)

(* A step counts what the user edits and what fails. *)
Counts ==
  /\ UNCHANGED edits \/ (edits < MaxEdits /\ edits' = edits + 1)
  /\ UNCHANGED faults \/ (faults < MaxFaults /\ faults' = faults + 1)

(* A step of the manager, or of the service. *)
ReturnsResult(Found, States) ==
  /\ UNCHANGED <<cr, desired>>
  /\ IsResult(latest', Found, States)
  /\ Counts

(* A step of the user, of the runtime, or a restart. *)
LEMMA RuntimeCounts ==
  ASSUME RuntimeStep
  PROVE  Counts /\ UNCHANGED <<aws, latest>>
<1> USE DEF Counts, Fault, crVars, ctlVars
<1>1. CASE (\E specs : UserEdit(specs)) \/ UserDelete
  BY <1>1 DEF UserEdit, UserDelete
<1>2. CASE KindlessStep
  BY <1>2 DEF KindlessStep, Fetch, FetchGone, ReadOneNotFound, Manage, ReadBackFails,
              PatchSpec, LateInitialize, ReadDeleteNotFound, Unmanage
<1>3. CASE (\E isSynced : PatchStatusBy(isSynced)) \/ Crash
  BY <1>3 DEF PatchStatusBy, Crash
<1> QED
  BY <1>1, <1>2, <1>3 DEF RuntimeStep

(* The resource and the copy of the pass keep their type, if what is patched *)
(* into them has it.                                                        *)
LEMMA RuntimeCRs ==
  ASSUME NEW Wanted, NEW States, err \in Errors, NEW specs, specs \subseteq Wanted,
         IsCR(cr, Wanted, {NoAnnotations}, States),
         IsCR(desired, Wanted, {NoAnnotations}, States),
         latest.status \in States, latest.cond \in Conds,
         \/ UserEdit(specs) \/ UserDelete \/ KindlessStep
         \/ (\E isSynced : PatchStatusBy(isSynced)) \/ Crash,
         pc = "patchSpec" => /\ Patch(cr.spec, desired.spec, latest.spec) \in Wanted
                             /\ latest.ann = desired.ann
  PROVE  /\ IsCR(cr, Wanted, {NoAnnotations}, States)'
         /\ IsCR(desired, Wanted, {NoAnnotations}, States)'
<1> USE DEF IsCR, crVars, ctlVars
<1>1. CASE UserEdit(specs) \/ UserDelete
  BY <1>1 DEF UserEdit, UserDelete
<1>2. CASE Fetch
  <2>1. NoConds \in Conds
    BY DEF NoConds, Conds, CondStatus
  <2> QED
    BY <1>2, <2>1 DEF Fetch
<1>3. CASE Manage
  BY <1>3 DEF Manage
<1>4. CASE PatchSpec
  <2>1. Patch(cr.ann, desired.ann, latest.ann) = NoAnnotations
    BY <1>4 DEF PatchSpec, Patch, NoAnnotations
  <2> QED
    BY <1>4, <2>1 DEF PatchSpec
<1>5. CASE \E isSynced : PatchStatusBy(isSynced)
  <2>1. PICK isSynced : PatchStatusBy(isSynced)
    BY <1>5
  <2>2. ensureConditionsBy(latest.cond, err, isSynced) \in Conds
    BY ConditionsType
  <2> QED
    BY <2>1, <2>2 DEF PatchStatusBy
<1>6. CASE \/ FetchGone \/ ReadOneNotFound \/ ReadBackFails \/ LateInitialize
           \/ ReadDeleteNotFound \/ Unmanage \/ Crash
  BY <1>6 DEF FetchGone, ReadOneNotFound, ReadBackFails, LateInitialize, ReadDeleteNotFound,
              Unmanage, Crash
<1> QED
  BY <1>1, <1>2, <1>3, <1>4, <1>5, <1>6 DEF KindlessStep

LEMMA RuntimeType ==
  ASSUME NEW Wanted, NEW Found, NEW States, PassType(Wanted, Found, States),
         err \in Errors, NEW specs, specs \subseteq Wanted,
         \/ UserEdit(specs) \/ UserDelete \/ KindlessStep
         \/ (\E isSynced : PatchStatusBy(isSynced)) \/ Crash,
         pc = "patchSpec" => /\ Patch(cr.spec, desired.spec, latest.spec) \in Wanted
                             /\ latest.ann = desired.ann
  PROVE  PassType(Wanted, Found, States)'
<1>1. latest.status \in States /\ latest.cond \in Conds
  BY DEF PassType, IsResult
<1>2. UNCHANGED latest
  BY RuntimeCounts DEF RuntimeStep
<1> QED
  BY <1>1, <1>2, RuntimeCRs DEF PassType

(* A failure returns the resource it was given, with other conditions. *)
LEMMA FailWithType ==
  ASSUME NEW r, NEW Found, NEW States, IsResult(r, Found, States), NEW e \in HandedToOnError,
         FailWith(r, e) \/ DeleteReturns(r, e)
  PROVE  IsResult(latest', Found, States)
<1>1. onErrorConds(r.cond, e) \in Conds
  BY ConditionsType DEF IsResult, HandedToOnError, Errors
<1> QED
  BY <1>1 DEF FailWith, DeleteReturns, IsResult

LEMMA AsLatestType ==
  ASSUME NEW r, NEW Wanted, NEW States, IsCR(r, Wanted, {NoAnnotations}, States)
  PROVE  IsResult(AsLatest(r), Wanted, States)
  BY DEF IsCR, IsResult, AsLatest

(* What the operators of Manager return, if what they are given is typed. *)
LEMMA ManagerType ==
  ASSUME NEW Found, NEW States, IsResult(latest, Found, States), UNCHANGED edits
  PROVE  /\ \A r : IsResult(r, Found, States) =>
              /\ \A d : Observes(r, d) => ReturnsResult(Found, States)
              /\ ReadsBack(r) => ReturnsResult(Found, States)
              /\ ObservesDoomed(r) => ReturnsResult(Found, States)
              /\ \A e \in HandedToOnError :
                   /\ GivesUp(r, e) => ReturnsResult(Found, States)
                   /\ \A valid : Refused(valid, e, r) => ReturnsResult(Found, States)
              /\ \A was, next : /\ IsResult(was, Found, States)
                                /\ Answers(r, was, next) /\ UNCHANGED cr
                                => ReturnsResult(Found, States)
         /\ \A d, after : Deletes(d, after) => ReturnsResult(Found, States)
         /\ \A d : \A e \in HandedToOnError :
              DeleteRefused(d, e) => ReturnsResult(Found, States)
<1> USE DEF ReturnsResult, Counts, Fault, crVars
<1>1. ASSUME NEW r, IsResult(r, Found, States)
      PROVE  /\ \A d : Observes(r, d) => ReturnsResult(Found, States)
             /\ ReadsBack(r) => ReturnsResult(Found, States)
             /\ ObservesDoomed(r) => ReturnsResult(Found, States)
  BY <1>1 DEF Observes, ReadsBack, ObservesDoomed, IsResult
<1>2. ASSUME NEW r, IsResult(r, Found, States), NEW e \in HandedToOnError, GivesUp(r, e)
      PROVE  ReturnsResult(Found, States)
  BY <1>2, FailWithType DEF GivesUp, FailWith
<1>3. ASSUME NEW r, IsResult(r, Found, States), NEW e \in HandedToOnError, NEW valid,
             Refused(valid, e, r)
      PROVE  ReturnsResult(Found, States)
  <2>1. PICK any \in HandedToOnError : FailWith(r, any)
    BY <1>3 DEF Refused, HandedToOnError
  <2> QED
    BY <1>3, <2>1, FailWithType DEF Refused, FailWith
<1>4. ASSUME NEW r, IsResult(r, Found, States), NEW was, IsResult(was, Found, States),
             NEW next, Answers(r, was, next), UNCHANGED cr
      PROVE  ReturnsResult(Found, States)
  BY <1>4, FailWithType DEF Answers, FailWith, HandedToOnError
<1>5. ASSUME NEW d, NEW after, Deletes(d, after)
      PROVE  ReturnsResult(Found, States)
  BY <1>5, FailWithType DEF Deletes, DeleteReturns, DeleteDone, HandedToOnError
<1>6. ASSUME NEW d, NEW e \in HandedToOnError, DeleteRefused(d, e)
      PROVE  ReturnsResult(Found, States)
  <2>1. PICK any \in HandedToOnError : DeleteReturns(latest, any)
    BY <1>6 DEF DeleteRefused, HandedToOnError
  <2> QED
    BY <1>6, <2>1, FailWithType DEF DeleteRefused, DeleteReturns
<1> QED
  BY <1>1, <1>2, <1>3, <1>4, <1>5, <1>6

LEMMA ReadsFailType ==
  ASSUME NEW Wanted, NEW Found, NEW States, PassType(Wanted, Found, States), Wanted \subseteq Found, ReadOneFails \/ ReadDeleteFails
  PROVE  ReturnsResult(Found, States)
<1>1. IsResult(AsLatest(desired), Found, States)
  BY DEF PassType, IsCR, IsResult, AsLatest
<1> QED
  BY <1>1, FailWithType
  DEF ReadOneFails, ReadDeleteFails, FailWith, ReturnsResult, Counts, Fault, HandedToOnError, crVars

(* What a call returns keeps the type of a pass. *)
LEMMA ReturnsType ==
  ASSUME NEW Wanted, NEW Found, NEW States, PassType(Wanted, Found, States), ReturnsResult(Found, States)
  PROVE  PassType(Wanted, Found, States)'
  BY DEF PassType, ReturnsResult, IsCR, IsResult

(* SyncTags makes tag maps of tag maps. *)
LEMMA SyncTagsType ==
  ASSUME NEW d \in SCS!T!TagMaps, NEW l \in SCS!T!TagMaps, NEW a \in SCS!T!TagMaps
  PROVE  /\ SCS!T!SyncTags(d, l, a) \in SCS!T!TagMaps
         /\ SC!T!SyncTags(d, l, a) = SCS!T!SyncTags(d, l, a)
         /\ SC!T!TagMaps = SCS!T!TagMaps
<1>1. PICK D \in SUBSET TagKeys : d \in [D -> TagValues]
  BY DEF SCS!T!TagMaps
<1>2. PICK A \in SUBSET TagKeys : a \in [A -> TagValues]
  BY DEF SCS!T!TagMaps
<1>3. SCS!T!ToAdd(d, l) \subseteq D
  BY <1>1 DEF SCS!T!ToAdd, SCS!T!DifferenceAdded
<1>4. SCS!T!AddTagsToResource(a, SCS!T!ToAdd(d, l), d)
        \in [A \cup SCS!T!ToAdd(d, l) -> TagValues]
  <2>1. DOMAIN a = A
    BY <1>2
  <2>2. \A k \in A \cup SCS!T!ToAdd(d, l) :
          (IF k \in SCS!T!ToAdd(d, l) THEN d[k] ELSE a[k]) \in TagValues
    BY <1>1, <1>2, <1>3
  <2> QED
    BY <2>1, <2>2 DEF SCS!T!AddTagsToResource
<1>5. A \cup SCS!T!ToAdd(d, l) \in SUBSET TagKeys
  BY <1>3
<1>6. SCS!T!RemoveTagsFromResource(a, SCS!T!ToRemove(d, l))
        \in [A \ SCS!T!ToRemove(d, l) -> TagValues]
  BY <1>2 DEF SCS!T!RemoveTagsFromResource
<1>7. A \ SCS!T!ToRemove(d, l) \in SUBSET TagKeys
  OBVIOUS
<1>8. SCS!T!SyncTags(d, l, a) \in SCS!T!TagMaps
  BY <1>4, <1>5, <1>6, <1>7 DEF SCS!T!SyncTags, SCS!T!TagMaps
<1>9. SC!T!SyncTags(d, l, a) = SCS!T!SyncTags(d, l, a)
  BY DEF SC!T!SyncTags, SCS!T!SyncTags, SC!T!AddTagsToResource, SCS!T!AddTagsToResource,
         SC!T!RemoveTagsFromResource, SCS!T!RemoveTagsFromResource, SC!T!ToAdd, SCS!T!ToAdd,
         SC!T!ToRemove, SCS!T!ToRemove, SC!T!DifferenceAdded, SCS!T!DifferenceAdded,
         SC!T!DifferenceRemoved, SCS!T!DifferenceRemoved
<1>10. SC!T!TagMaps = SCS!T!TagMaps
  BY DEF SC!T!TagMaps, SCS!T!TagMaps
<1> QED
  BY <1>8, <1>9, <1>10

-----------------------------------------------------------------------------
(* User. *)

UserType ==
  /\ PassType(U!Specs, U!Specs, U!Statuses)
  /\ aws \in [status : U!UserStates \cup {"none"}, access : U!AccessStrings, type : U!Types]

LEMMA UserTypeOK == UserType <=> U!TypeOK
  BY DEF UserType, PassType, IsCR, IsResult, U!TypeOK, U!CRs, U!Conds, Conds, U!CondStatus,
         CondStatus, U!NoAnnotations, NoAnnotations

LEMMA UserStep ==
  ASSUME UserType, Shape, U!Next
  PROVE  UserType' /\ Counts
<1> DEFINE AwsTyped == aws \in [status : U!UserStates \cup {"none"}, access : U!AccessStrings,
                               type : U!Types]
           Typed(r) == IsResult(r, U!Specs, U!Statuses)
           Returned == ReturnsResult(U!Specs, U!Statuses) /\ AwsTyped'
<1> USE UserInherits
<1>1. Typed(latest) /\ Typed(AsLatest(desired)) /\ AwsTyped
  BY AsLatestType DEF UserType, PassType
<1>2. Typed(U!sdkFind(desired)) /\ Typed(U!sdkFind(latest))
  BY UserResults DEF UserType, PassType, IsCR, IsResult, U!sdkFind, U!Specs, U!Statuses, Shape
<1>3. CASE U!UserEdit(U!Edited) \/ U!UserDelete \/ U!KindlessStep
           \/ U!PatchStatus \/ U!Crash
  <2>1. \/ UserEdit(U!Edited) \/ UserDelete \/ KindlessStep
        \/ (\E isSynced : PatchStatusBy(isSynced)) \/ Crash
    BY <1>3, UserRuntime DEF U!PatchStatus
  <2>2. U!Edited \subseteq U!Specs
    BY DEF U!Edited
  <2>3. Patch(cr.spec, desired.spec, latest.spec) \in U!Specs /\ latest.ann = desired.ann
    BY DEF UserType, PassType, IsCR, IsResult, Patch, U!Specs
  <2>4. RuntimeStep /\ err \in Errors
    BY <2>1 DEF RuntimeStep, Shape
  <2>5. PassType(U!Specs, U!Specs, U!Statuses)'
    BY <2>1, <2>2, <2>3, <2>4, RuntimeType DEF UserType
  <2> QED
    BY <2>4, <2>5, RuntimeCounts DEF UserType
<1>4. ASSUME U!AwsProgress
      PROVE  Returned
  BY <1>1, <1>4 DEF U!AwsProgress, U!AwsSettles, U!AwsDeleted, U!ServiceStep, U!crVars, U!ctlVars,
                    ReturnsResult, Counts, U!UserStates
<1>5. ASSUME U!Create \/ U!ModifyUser
      PROVE  Returned
  <2>1. PICK status \in {"creating", "active", "modifying"}, access \in U!AccessStrings :
          aws' = [status |-> status, access |-> access,
                  type |-> U!answeredType(desired.spec.type)]
    BY <1>1, <1>5 DEF U!Create, U!ModifyUser, UserType, PassType, IsCR, U!Specs, U!expanded, U!AccessStrings
  <2>2. AwsTyped'
    BY <2>1 DEF UserType, PassType, IsCR, U!Specs, U!answeredType, U!Types, U!UserStates
  <2>3. Typed(U!callOutput(desired, aws'))
    BY <2>2, UserResults DEF UserType, PassType, IsCR, IsResult, U!callOutput, U!Specs, U!Statuses
  <2>4. \E next, was : /\ Typed(was) /\ Answers(U!callOutput(desired, aws'), was, next)
                       /\ UNCHANGED <<cr, edits>>
    BY <1>1, <1>5 DEF U!Create, U!ModifyUser, U!crVars
  <2> QED
    BY <1>1, <2>2, <2>3, <2>4, ManagerType
<1>6. ASSUME U!ReadOneFails \/ U!ReadDeleteFails
      PROVE  Returned
  BY <1>1, <1>6, ReadsFailType DEF UserType, ReadOneFails, ReadDeleteFails
<1>7. ASSUME U!ReadOne \/ U!ReadBack \/ U!ReadDelete
      PROVE  Returned
  BY <1>1, <1>2, <1>7, ManagerType DEF U!ReadOne, U!ReadBack, U!ReadDelete, Observes, ReadsBack, ObservesDoomed
<1>8. ASSUME U!CreateFails \/ U!ModifyWaits \/ U!ModifyUserFails
      PROVE  Returned
  BY <1>1, <1>8, ManagerType DEF U!CreateFails, U!ModifyWaits, U!ModifyUserFails, GivesUp, Refused, HandedToOnError
<1>9. ASSUME U!Delete \/ U!DeleteFails
      PROVE  Returned
  BY <1>1, <1>9, ManagerType DEF U!Delete, U!DeleteFails, Deletes, DeleteRefused, HandedToOnError, U!UserStates
<1>10. Returned => UserType' /\ Counts
  BY ReturnsType DEF UserType, ReturnsResult
<1> QED
  BY <1>3, <1>4, <1>5, <1>6, <1>7, <1>8, <1>9, <1>10 DEF U!Next, U!Controller

-----------------------------------------------------------------------------
(* UserGroup. *)

UserGroupType ==
  /\ PassType(UG!Specs, UG!Specs, UG!GroupStates \cup {"none"})
  /\ aws \in UG!Groups

LEMMA UserGroupTypeOK == UserGroupType <=> UG!TypeOK
  BY DEF UserGroupType, PassType, IsCR, IsResult, UG!TypeOK, UG!CRs, UG!Conds, Conds,
         UG!CondStatus, CondStatus, UG!NoAnnotations, NoAnnotations

LEMMA UserGroupStep ==
  ASSUME UserGroupType, Shape, UG!Next
  PROVE  UserGroupType' /\ Counts
<1> DEFINE AwsTyped == aws \in UG!Groups
           Typed(r) == IsResult(r, UG!Specs, UG!GroupStates \cup {"none"})
           Returned == ReturnsResult(UG!Specs, UG!GroupStates \cup {"none"}) /\ AwsTyped'
<1> USE UserGroupInherits
<1>1. Typed(latest) /\ Typed(AsLatest(desired)) /\ AwsTyped
  BY AsLatestType DEF UserGroupType, PassType
<1>2. Typed(UG!sdkFind(desired)) /\ Typed(UG!sdkFind(latest))
  BY UserGroupResults DEF UserGroupType, PassType, IsCR, IsResult, UG!sdkFind, UG!Specs, UG!Groups, UG!patchUserGroupPendingChanges, UG!patched,
             Shape
<1>3. CASE UG!UserEdit(UG!Specs) \/ UG!UserDelete \/ UG!KindlessStep
           \/ UG!PatchStatusBy(UG!IsSynced) \/ UG!Crash
  <2>1. \/ UserEdit(UG!Specs) \/ UserDelete \/ KindlessStep
        \/ (\E isSynced : PatchStatusBy(isSynced)) \/ Crash
    BY <1>3, UserGroupRuntime DEF UG!PatchStatus
  <2>2. Patch(cr.spec, desired.spec, latest.spec) \in UG!Specs /\ latest.ann = desired.ann
    BY DEF UserGroupType, PassType, IsCR, IsResult, Patch, UG!Specs
  <2>3. RuntimeStep /\ err \in Errors
    BY <2>1 DEF RuntimeStep, Shape
  <2>4. PassType(UG!Specs, UG!Specs, UG!GroupStates \cup {"none"})'
    BY <2>1, <2>2, <2>3, RuntimeType DEF UserGroupType
  <2> QED
    BY <2>3, <2>4, RuntimeCounts DEF UserGroupType
<1>4. ASSUME UG!AwsProgress \/ UG!AwsAttaches
      PROVE  Returned
  BY <1>1, <1>4 DEF UG!AwsProgress, UG!AwsSettles, UG!AwsDeleted, UG!AwsAttaches, UG!Group,
                    UG!patched, UG!GroupStates, UG!ServiceStep, UG!Fault,
                    UG!crVars, UG!ctlVars, ReturnsResult, Counts, UG!Groups
<1>5. ASSUME UG!Create \/ UG!ModifyUserGroup
      PROVE  Returned
  <2>1. AwsTyped'
    <3>1. desired.spec.users \in SUBSET UserIDs /\ latest.spec.users \in SUBSET UserIDs
      BY DEF UserGroupType, PassType, IsCR, IsResult, UG!Specs
    <3>2. CASE UG!Create
      BY <3>1, <3>2 DEF UG!Create, UG!Group, UG!Groups, UG!GroupStates
    <3>3. CASE UG!ModifyUserGroup
      <4>1. UG!userIdsToAdd \in SUBSET UserIDs /\ UG!userIdsToRemove \in SUBSET UserIDs
        BY <3>1 DEF UG!userIdsToAdd, UG!userIdsToRemove
      <4> QED
        BY <1>1, <3>3, <4>1 DEF UG!ModifyUserGroup, UG!Groups, UG!GroupStates
    <3> QED
      BY <1>5, <3>2, <3>3
  <2>2. Typed(UG!createOutput(desired, aws')) /\ Typed(UG!modifyOutput(desired, aws'))
    BY <2>1, UserGroupResults
    DEF UserGroupType, PassType, IsCR, IsResult, UG!createOutput, UG!modifyOutput, UG!Specs,
        UG!Groups, UG!patchUserGroupPendingChanges, UG!patched
  <2>3. CASE UG!Create
    <3>1. /\ Answers(UG!createOutput(desired, aws'), AsLatest(desired), "readBack")
          /\ UNCHANGED <<cr, edits>>
      BY <2>3 DEF UG!Create, UG!crVars
    <3> QED
      BY <1>1, <2>1, <2>2, <3>1, ManagerType
  <2>4. CASE UG!ModifyUserGroup
    <3>1. /\ Answers(UG!modifyOutput(desired, aws'), latest, "patchSpec")
          /\ UNCHANGED <<cr, edits>>
      BY <2>4 DEF UG!ModifyUserGroup, UG!crVars
    <3> QED
      BY <1>1, <2>1, <2>2, <3>1, ManagerType
  <2> QED
    BY <1>5, <2>3, <2>4
<1>6. ASSUME UG!ReadOneFails \/ UG!ReadDeleteFails
      PROVE  Returned
  BY <1>1, <1>6, ReadsFailType DEF UserGroupType, ReadOneFails, ReadDeleteFails
<1>7. ASSUME UG!ReadOne \/ UG!ReadBack \/ UG!ReadDelete
      PROVE  Returned
  BY <1>1, <1>2, <1>7, ManagerType
  DEF UG!ReadOne, UG!ReadBack, UG!ReadDelete, Observes, ReadsBack, ObservesDoomed
<1>8. ASSUME UG!CreateFails \/ UG!requeueWaitUntilCanModify \/ UG!ModifyUserGroupFails
      PROVE  Returned
  BY <1>1, <1>8, ManagerType
  DEF UG!CreateFails, UG!requeueWaitUntilCanModify, UG!ModifyUserGroupFails, GivesUp, Refused,
      HandedToOnError
<1>9. ASSUME UG!Delete \/ UG!DeleteFails
      PROVE  Returned
  BY <1>1, <1>9, ManagerType
  DEF UG!Delete, UG!DeleteFails, Deletes, DeleteRefused, HandedToOnError, UG!Groups,
      UG!GroupStates
<1>10. Returned => UserGroupType' /\ Counts
  BY ReturnsType DEF UserGroupType, ReturnsResult
<1> QED
  BY <1>3, <1>4, <1>5, <1>6, <1>7, <1>8, <1>9, <1>10 DEF UG!Next, UG!Controller

-----------------------------------------------------------------------------
(* CacheSubnetGroup. *)

CacheSubnetGroupType ==
  /\ PassType(CSG!Specs, CSG!Specs, {"none"})
  /\ aws \in [status : {"none", "live"}, description : Descriptions,
                          subnets : SUBSET Subnets]

LEMMA CacheSubnetGroupTypeOK == CacheSubnetGroupType <=> CSG!TypeOK
  BY DEF CacheSubnetGroupType, PassType, IsCR, IsResult, CSG!TypeOK, CSG!CRs, CSG!Conds, Conds,
         CSG!CondStatus, CondStatus, CSG!NoAnnotations, NoAnnotations

LEMMA CacheSubnetGroupStep ==
  ASSUME CacheSubnetGroupType, Shape, CSG!Next
  PROVE  CacheSubnetGroupType' /\ Counts
<1> DEFINE AwsTyped == aws \in [status : {"none", "live"}, description : Descriptions,
                          subnets : SUBSET Subnets]
           Typed(r) == IsResult(r, CSG!Specs, {"none"})
           Returned == ReturnsResult(CSG!Specs, {"none"}) /\ AwsTyped'
<1> USE CacheSubnetGroupInherits
<1>1. Typed(latest) /\ Typed(AsLatest(desired)) /\ AwsTyped
  BY AsLatestType DEF CacheSubnetGroupType, PassType
<1>2. Typed(CSG!sdkFind(desired)) /\ Typed(CSG!sdkFind(latest))
  BY CacheSubnetGroupResults DEF CacheSubnetGroupType, PassType, IsCR, IsResult, CSG!sdkFind, CSG!Specs, Shape
<1>3. CASE CSG!UserEdit(CSG!Specs) \/ CSG!UserDelete \/ CSG!KindlessStep
           \/ CSG!PatchStatus \/ CSG!Crash
  <2>1. \/ UserEdit(CSG!Specs) \/ UserDelete \/ KindlessStep
        \/ (\E isSynced : PatchStatusBy(isSynced)) \/ Crash
    BY <1>3, CacheSubnetGroupRuntime DEF CSG!PatchStatus
  <2>2. Patch(cr.spec, desired.spec, latest.spec) \in CSG!Specs /\ latest.ann = desired.ann
    BY DEF CacheSubnetGroupType, PassType, IsCR, IsResult, Patch, CSG!Specs
  <2>3. RuntimeStep /\ err \in Errors
    BY <2>1 DEF RuntimeStep, Shape
  <2>4. PassType(CSG!Specs, CSG!Specs, {"none"})'
    BY <2>1, <2>2, <2>3, RuntimeType DEF CacheSubnetGroupType
  <2> QED
    BY <2>3, <2>4, RuntimeCounts DEF CacheSubnetGroupType
<1>5. ASSUME CSG!Create \/ CSG!ModifyCacheSubnetGroup
      PROVE  Returned
  <2>1. AwsTyped'
    <3>1. desired.spec.description \in Descriptions /\ desired.spec.subnets \in SUBSET Subnets
      BY DEF CacheSubnetGroupType, PassType, IsCR, CSG!Specs
    <3>2. CASE CSG!Create
      BY <3>1, <3>2 DEF CSG!Create
    <3>3. CASE CSG!ModifyCacheSubnetGroup
      BY <1>1, <3>1, <3>3 DEF CSG!ModifyCacheSubnetGroup
    <3> QED
      BY <1>5, <3>2, <3>3
  <2>2. Typed(CSG!callOutput(desired, aws'))
    BY <2>1, CacheSubnetGroupResults
    DEF CacheSubnetGroupType, PassType, IsCR, IsResult, CSG!callOutput, CSG!Specs
  <2>3. \E was, next : /\ Typed(was) /\ Answers(CSG!callOutput(desired, aws'), was, next)
                       /\ UNCHANGED <<cr, edits>>
    BY <1>1, <1>5 DEF CSG!Create, CSG!ModifyCacheSubnetGroup, CSG!crVars
  <2> QED
    BY <1>1, <2>1, <2>2, <2>3, ManagerType
<1>6. ASSUME CSG!ReadOneFails \/ CSG!ReadDeleteFails
      PROVE  Returned
  BY <1>1, <1>6, ReadsFailType DEF CacheSubnetGroupType, ReadOneFails, ReadDeleteFails
<1>7. ASSUME CSG!ReadOne \/ CSG!ReadBack \/ CSG!ReadDelete
      PROVE  Returned
  BY <1>1, <1>2, <1>7, ManagerType
  DEF CSG!ReadOne, CSG!ReadBack, CSG!ReadDelete, Observes, ReadsBack, ObservesDoomed
<1>8. ASSUME CSG!CreateFails \/ CSG!ModifyCacheSubnetGroupFails
      PROVE  Returned
  BY <1>1, <1>8, ManagerType
  DEF CSG!CreateFails, CSG!ModifyCacheSubnetGroupFails, Refused, HandedToOnError
<1>9. ASSUME CSG!Delete \/ CSG!DeleteFails
      PROVE  Returned
  BY <1>1, <1>9, ManagerType
  DEF CSG!Delete, CSG!DeleteFails, Deletes, DeleteRefused, HandedToOnError
<1>10. Returned => CacheSubnetGroupType' /\ Counts
  BY ReturnsType DEF CacheSubnetGroupType, ReturnsResult
<1> QED
  BY <1>3, <1>5, <1>6, <1>7, <1>8, <1>9, <1>10 DEF CSG!Next, CSG!Controller

-----------------------------------------------------------------------------
(* Snapshot. *)

SnapshotType ==
  /\ PassType(S!Specs, S!Specs, S!SnapshotStates \cup {"none"})
  /\ aws \in [status : S!SnapshotStates \cup {"none"}, cluster : Clusters \cup {None}]

LEMMA SnapshotTypeOK == SnapshotType <=> S!TypeOK
  BY DEF SnapshotType, PassType, IsCR, IsResult, S!TypeOK, S!CRs, S!Conds, Conds,
         S!CondStatus, CondStatus, S!NoAnnotations, NoAnnotations

LEMMA SnapshotStep ==
  ASSUME SnapshotType, Shape, S!Next
  PROVE  SnapshotType' /\ Counts
<1> DEFINE AwsTyped == aws \in [status : S!SnapshotStates \cup {"none"},
                               cluster : Clusters \cup {None}]
           Typed(r) == IsResult(r, S!Specs, S!SnapshotStates \cup {"none"})
           Returned == ReturnsResult(S!Specs, S!SnapshotStates \cup {"none"}) /\ AwsTyped'
<1> USE SnapshotInherits
<1>1. Typed(latest) /\ Typed(AsLatest(desired)) /\ AwsTyped
  BY AsLatestType DEF SnapshotType, PassType
<1>2. Typed(S!customSetOutput(desired)) /\ Typed(S!customSetOutput(latest))
  <2>1. ASSUME NEW r \in {desired, latest}
        PROVE  Typed(S!customSetOutput(r))
    <3>1. PICK c : S!customSetOutput(r) =
                     [spec |-> [r.spec EXCEPT !.cluster = aws.cluster], ann |-> r.ann,
                      status |-> aws.status, cond |-> c]
      BY DEF S!customSetOutput
    <3>2. c \in Conds
      BY <3>1, SnapshotResults
    <3>3. [r.spec EXCEPT !.cluster = aws.cluster] \in S!Specs /\ r.ann = NoAnnotations
      BY DEF SnapshotType, PassType, IsCR, IsResult, S!Specs
    <3> QED
      BY <1>1, <3>1, <3>2, <3>3 DEF IsResult
  <2> QED
    BY <2>1
<1>3. CASE S!UserEdit(S!Specs) \/ S!UserDelete \/ S!KindlessStep
           \/ S!PatchStatus \/ S!Crash
  <2>1. \/ UserEdit(S!Specs) \/ UserDelete \/ KindlessStep
        \/ (\E isSynced : PatchStatusBy(isSynced)) \/ Crash
    BY <1>3, SnapshotRuntime DEF S!PatchStatus
  <2>2. Patch(cr.spec, desired.spec, latest.spec) \in S!Specs /\ latest.ann = desired.ann
    BY DEF SnapshotType, PassType, IsCR, IsResult, Patch, S!Specs
  <2>3. RuntimeStep /\ err \in Errors
    BY <2>1 DEF RuntimeStep, Shape
  <2>4. PassType(S!Specs, S!Specs, S!SnapshotStates \cup {"none"})'
    BY <2>1, <2>2, <2>3, RuntimeType DEF SnapshotType
  <2> QED
    BY <2>3, <2>4, RuntimeCounts DEF SnapshotType
<1>4. ASSUME S!AwsProgress \/ S!AwsCreateFails
      PROVE  Returned
  BY <1>1, <1>4 DEF S!AwsProgress, S!AwsSettles, S!AwsDeleted, S!AwsCreateFails, S!SnapshotStates, S!ServiceStep, S!Fault,
                    S!crVars, S!ctlVars, ReturnsResult, Counts
<1>5. ASSUME S!CopySnapshot \/ S!CreateSnapshot
      PROVE  Returned
  <2>1. PICK cluster \in Clusters \cup {None} : S!Created(cluster)
    BY <1>5 DEF S!CopySnapshot, S!CreateSnapshot, SnapshotType, PassType, IsCR, S!Specs
  <2>2. PICK c \in Conds :
          Answers([spec |-> [desired.spec EXCEPT !.cluster = cluster], ann |-> desired.ann,
                   status |-> "creating", cond |-> c], AsLatest(desired), "readBack")
    BY <2>1, ResultConds, AsLatestConds DEF S!Created, S!customSetSynced
  <2>3. Typed([spec |-> [desired.spec EXCEPT !.cluster = cluster], ann |-> desired.ann,
               status |-> "creating", cond |-> c])
    BY DEF SnapshotType, PassType, IsCR, IsResult, S!Specs, S!SnapshotStates
  <2>4. AwsTyped' /\ UNCHANGED <<cr, edits>>
    BY <2>1 DEF S!Created, S!SnapshotStates, S!crVars
  <2> QED
    BY <1>1, <2>2, <2>3, <2>4, ManagerType
<1>6. ASSUME S!FindFails \/ S!FindDoomedFails
      PROVE  Returned
  <2>1. S!conditions(desired, "awsOther") \in Conds
    BY SnapshotConds, AsLatestConds
  <2> QED
    BY <1>1, <1>6, <2>1
    DEF S!FindFails, S!FindDoomedFails, S!Fault, S!crVars, ReturnsResult, Counts, IsResult
<1>7. ASSUME S!ReadOne \/ S!ReadBack \/ S!ReadDelete
      PROVE  Returned
  BY <1>1, <1>2, <1>7, ManagerType
  DEF S!ReadOne, S!ReadBack, S!ReadDelete, Observes, ReadsBack, ObservesDoomed
<1>8. ASSUME S!RefuseSources \/ S!CreateFails
      PROVE  Returned
  BY <1>1, <1>8, ManagerType
  DEF S!RefuseSources, S!CreateFails, GivesUp, Refused, HandedToOnError
<1>9. ASSUME S!customUpdateSnapshot \/ S!Delete \/ S!DeleteFails
      PROVE  Returned
  <2>1. \A e \in {"none", "awsOther", "awsTerminal"} : S!conditions(latest, e) \in Conds
    BY SnapshotConds, AsLatestConds
  <2>2. AwsTyped'
    BY <1>1, <1>9 DEF S!customUpdateSnapshot, S!Delete, S!DeleteFails, S!SnapshotStates
  <2> QED
    BY <1>1, <1>9, <2>1, <2>2
    DEF S!customUpdateSnapshot, S!Delete, S!DeleteFails, S!DeleteReturnsLatest, S!DeleteDone,
        S!Fault, S!crVars, ReturnsResult, Counts, IsResult
<1>10. Returned => SnapshotType' /\ Counts
  BY ReturnsType DEF SnapshotType, ReturnsResult
<1> QED
  BY <1>3, <1>4, <1>5, <1>6, <1>7, <1>8, <1>9, <1>10 DEF S!Next, S!Controller

-----------------------------------------------------------------------------
(* ServerlessCacheSnapshot. *)

ServerlessCacheSnapshotType ==
  /\ PassType(SCS!Specs, SCS!Specs, SCS!SnapshotStates \cup {"none"})
  /\ aws \in [status : SCS!SnapshotStates \cup {"none"}, kms : Keys \cup {None},
                          tags : SCS!T!TagMaps]

LEMMA ServerlessCacheSnapshotTypeOK == ServerlessCacheSnapshotType <=> SCS!TypeOK
  BY DEF ServerlessCacheSnapshotType, PassType, IsCR, IsResult, SCS!TypeOK, SCS!CRs, SCS!Conds, Conds,
         SCS!CondStatus, CondStatus, SCS!NoAnnotations, NoAnnotations

LEMMA ServerlessCacheSnapshotStep ==
  ASSUME ServerlessCacheSnapshotType, Shape, SCS!Next
  PROVE  ServerlessCacheSnapshotType' /\ Counts
<1> DEFINE AwsTyped == aws \in [status : SCS!SnapshotStates \cup {"none"}, kms : Keys \cup {None},
                          tags : SCS!T!TagMaps]
           Typed(r) == IsResult(r, SCS!Specs, SCS!SnapshotStates \cup {"none"})
           Returned == ReturnsResult(SCS!Specs, SCS!SnapshotStates \cup {"none"}) /\ AwsTyped'
<1> USE ServerlessCacheSnapshotInherits
<1>1. Typed(latest) /\ Typed(AsLatest(desired)) /\ AwsTyped
  BY AsLatestType DEF ServerlessCacheSnapshotType, PassType
<1>2. Typed(SCS!sdkFind(desired)) /\ Typed(SCS!sdkFind(latest))
  BY ServerlessCacheSnapshotResults DEF ServerlessCacheSnapshotType, PassType, IsCR, IsResult, SCS!sdkFind, SCS!Specs, Shape
<1>3. CASE SCS!UserEdit(SCS!Specs) \/ SCS!UserDelete \/ SCS!KindlessStep
           \/ SCS!PatchStatusBy(SCS!IsSynced) \/ SCS!Crash
  <2>1. \/ UserEdit(SCS!Specs) \/ UserDelete \/ KindlessStep
        \/ (\E isSynced : PatchStatusBy(isSynced)) \/ Crash
    BY <1>3, ServerlessCacheSnapshotRuntime DEF SCS!PatchStatus
  <2>2. Patch(cr.spec, desired.spec, latest.spec) \in SCS!Specs /\ latest.ann = desired.ann
    BY DEF ServerlessCacheSnapshotType, PassType, IsCR, IsResult, Patch, SCS!Specs
  <2>3. RuntimeStep /\ err \in Errors
    BY <2>1 DEF RuntimeStep, Shape
  <2>4. PassType(SCS!Specs, SCS!Specs, SCS!SnapshotStates \cup {"none"})'
    BY <2>1, <2>2, <2>3, RuntimeType DEF ServerlessCacheSnapshotType
  <2> QED
    BY <2>3, <2>4, RuntimeCounts DEF ServerlessCacheSnapshotType
<1>4. ASSUME SCS!AwsProgress \/ SCS!AwsCreateFails
      PROVE  Returned
  BY <1>1, <1>4 DEF SCS!AwsProgress, SCS!AwsSettles, SCS!AwsDeleted, SCS!AwsCreateFails,
                    SCS!SnapshotStates, SCS!ServiceStep, SCS!Fault,
                    SCS!crVars, SCS!ctlVars, ReturnsResult, Counts
<1>5. ASSUME SCS!Create
      PROVE  Returned
  <2>1. desired.spec.kms \in Keys \cup {None} /\ desired.spec.tags \in SCS!T!TagMaps
    BY DEF ServerlessCacheSnapshotType, PassType, IsCR, SCS!Specs
  <2>2. PICK key \in Keys : aws' = [status |-> "creating", kms |-> key, tags |-> desired.spec.tags]
    BY <1>5, <2>1 DEF SCS!Create
  <2>3. AwsTyped'
    BY <2>1, <2>2 DEF SCS!SnapshotStates
  <2>4. Typed(SCS!createOutput(desired))
    BY <2>3, ServerlessCacheSnapshotResults
    DEF ServerlessCacheSnapshotType, PassType, IsCR, IsResult, SCS!createOutput, SCS!Specs
  <2>5. /\ Answers(SCS!createOutput(desired), AsLatest(desired), "readBack")
        /\ UNCHANGED <<cr, edits>>
    BY <1>5 DEF SCS!Create, SCS!crVars
  <2> QED
    BY <1>1, <2>3, <2>4, <2>5, ManagerType
<1>6. ASSUME SCS!ReadOneFails \/ SCS!ReadDeleteFails
      PROVE  Returned
  BY <1>1, <1>6, ReadsFailType DEF ServerlessCacheSnapshotType, ReadOneFails, ReadDeleteFails
<1>7. ASSUME SCS!ReadOne \/ SCS!ReadBack \/ SCS!ReadDelete
      PROVE  Returned
  BY <1>1, <1>2, <1>7, ManagerType
  DEF SCS!ReadOne, SCS!ReadBack, SCS!ReadDelete, Observes, ReadsBack, ObservesDoomed
<1>8. ASSUME SCS!CreateFails \/ SCS!WaitUntilCanModify \/ SCS!syncTagsFails
      PROVE  Returned
  <2>1. \/ GivesUp(AsLatest(desired), "requeue")
        \/ \E valid : Refused(valid, "awsOther", AsLatest(desired))
    BY <1>8 DEF SCS!CreateFails, SCS!WaitUntilCanModify, SCS!syncTagsFails
  <2> QED
    BY <1>1, <2>1, ManagerType DEF GivesUp, Refused, HandedToOnError
<1>9. ASSUME SCS!syncTags \/ SCS!TakeBack
      PROVE  Returned
  <2>1. SCS!T!SyncTags(desired.spec.tags, latest.spec.tags, aws.tags) \in SCS!T!TagMaps
    BY <1>1, SyncTagsType
    DEF ServerlessCacheSnapshotType, PassType, IsCR, IsResult, SCS!Specs
  <2>2. CASE SCS!syncTags
    <3>1. AwsTyped'
      BY <1>1, <2>1, <2>2 DEF SCS!syncTags, SCS!SnapshotStates
    <3>2. PICK e \in HandedToOnError : FailWith(AsLatest(desired), e)
      BY <2>2 DEF SCS!syncTags, HandedToOnError
    <3> QED
      BY <1>1, <2>2, <3>1, <3>2, FailWithType
      DEF SCS!syncTags, SCS!Fault, SCS!crVars, FailWith, ReturnsResult, Counts
  <2>3. CASE SCS!TakeBack
    BY <1>1, <2>3, ResultConds, AsLatestConds
    DEF SCS!TakeBack, SCS!crVars, ReturnsResult, Counts, IsResult
  <2> QED
    BY <1>9, <2>2, <2>3
<1>11. ASSUME SCS!Delete \/ SCS!DeleteFails
      PROVE  Returned
  BY <1>1, <1>11, ManagerType
  DEF SCS!Delete, SCS!DeleteFails, Deletes, DeleteRefused, HandedToOnError, SCS!SnapshotStates
<1>10. Returned => ServerlessCacheSnapshotType' /\ Counts
  BY ReturnsType DEF ServerlessCacheSnapshotType, ReturnsResult
<1> QED
  BY <1>3, <1>4, <1>5, <1>6, <1>7, <1>8, <1>9, <1>11, <1>10 DEF SCS!Next, SCS!Controller

-----------------------------------------------------------------------------
(* ServerlessCache. *)

ServerlessCacheType ==
  /\ PassType(SC!Specs, SC!Specs, SC!CacheStates \cup {"none"})
  /\ aws \in [status : SC!CacheStates \cup {"none"}, desc : Descs \cup {None},
           tags : SCS!T!TagMaps, limit : SC!Narrow, subnets : SubnetSets \cup {None}]
  /\ aws.status # "none" => aws.limit \in Limits

(* The low bits of a limit are a number of 32 bits. *)
LEMMA NarrowType ==
  ASSUME NEW n \in Int
  PROVE  SC!int32(n) \in SC!Narrow
<1>1. Width \in Nat \ {0} /\ Width % 2 = 0
  BY KindsAssumption
<1> QED
  BY <1>1 DEF SC!int32, SC!Narrow

LEMMA ServerlessCacheTypeOK == ServerlessCacheType => SC!TypeOK
<1>1. SC!T!TagMaps = SCS!T!TagMaps
  BY DEF SC!T!TagMaps, SCS!T!TagMaps
<1> QED
  BY <1>1 DEF ServerlessCacheType, PassType, IsCR, IsResult, SC!TypeOK, SC!CRs, SC!Conds, Conds,
         SC!CondStatus, CondStatus, SC!NoAnnotations, NoAnnotations, SC!Specs

LEMMA ServerlessCacheStep ==
  ASSUME ServerlessCacheType, Shape, SC!Next
  PROVE  ServerlessCacheType' /\ Counts
<1> DEFINE Typed(r) == IsResult(r, SC!Specs, SC!CacheStates \cup {"none"})
           AwsTyped == /\ aws \in [status : SC!CacheStates \cup {"none"}, desc : Descs \cup {None},
                                  tags : SCS!T!TagMaps, limit : SC!Narrow,
                                  subnets : SubnetSets \cup {None}]
                       /\ aws.status # "none" => aws.limit \in Limits
           Returned == ReturnsResult(SC!Specs, SC!CacheStates \cup {"none"}) /\ AwsTyped'
<1> USE ServerlessCacheInherits
<1>1. Typed(latest) /\ Typed(AsLatest(desired)) /\ AwsTyped
  BY AsLatestType DEF ServerlessCacheType, PassType
<1>2. SC!T!TagMaps = SCS!T!TagMaps
  BY DEF SC!T!TagMaps, SCS!T!TagMaps
<1>3. /\ desired.spec.desc \in Descs \cup {None} /\ desired.spec.tags \in SCS!T!TagMaps
       /\ desired.spec.limit \in Limits /\ desired.spec.subnets \in SubnetSets \cup {None}
       /\ desired.ann = NoAnnotations /\ latest.spec.tags \in SCS!T!TagMaps
  BY <1>2 DEF ServerlessCacheType, PassType, IsCR, IsResult, SC!Specs
<1>4. aws.status # "none" => /\ Typed(SC!sdkFind(desired)) /\ Typed(SC!sdkFind(latest))
                             /\ Typed(SC!sdkFindTagsUnread(desired))
  <2>1. /\ SC!sdkFind(desired).cond \in Conds /\ SC!sdkFind(latest).cond \in Conds
        /\ SC!sdkFindTagsUnread(desired).cond \in Conds
    BY ServerlessCacheResults
  <2>2. latest.ann = NoAnnotations
    BY <1>1 DEF IsResult
  <2> QED
    BY <1>1, <1>2, <1>3, <2>1, <2>2
    DEF IsResult, SC!sdkFind, SC!sdkFindTagsUnread, SC!found, SC!Specs
<1>5. CASE SC!UserEdit(SC!Specs) \/ SC!UserDelete \/ SC!KindlessStep
           \/ SC!PatchStatusBy(SC!IsSynced) \/ SC!Crash
  <2>1. \/ UserEdit(SC!Specs) \/ UserDelete \/ KindlessStep
        \/ (\E isSynced : PatchStatusBy(isSynced)) \/ Crash
    BY <1>5, ServerlessCacheRuntime DEF SC!PatchStatus
  <2>2. Patch(cr.spec, desired.spec, latest.spec) \in SC!Specs /\ latest.ann = desired.ann
    BY DEF ServerlessCacheType, PassType, IsCR, IsResult, Patch, SC!Specs
  <2>3. RuntimeStep /\ err \in Errors
    BY <2>1 DEF RuntimeStep, Shape
  <2>4. PassType(SC!Specs, SC!Specs, SC!CacheStates \cup {"none"})'
    BY <2>1, <2>2, <2>3, RuntimeType DEF ServerlessCacheType
  <2> QED
    BY <2>3, <2>4, RuntimeCounts DEF ServerlessCacheType
<1>6. ASSUME SC!AwsProgress \/ SC!AwsCreateFails
      PROVE  Returned
  BY <1>1, <1>6 DEF SC!AwsProgress, SC!AwsSettles, SC!AwsDeleted, SC!AwsCreateFails,
                    SC!CacheStates, SC!ServiceStep, SC!Fault,
                    SC!crVars, SC!ctlVars, ReturnsResult, Counts
<1>7. ASSUME SC!Create
      PROVE  Returned
  <2>1. PICK sns \in SubnetSets \cup {None} :
          aws' = [status |-> "creating", desc |-> desired.spec.desc, tags |-> desired.spec.tags,
                  limit |-> desired.spec.limit, subnets |-> sns]
    BY <1>3, <1>7 DEF SC!Create
  <2>2. SC!Fits(desired.spec)
    BY <1>7 DEF SC!Create
  <2>3. desired.spec.limit \in SC!Narrow
    BY <1>3, <2>2, KindsAssumption, NarrowType DEF SC!Fits
  <2>4. AwsTyped'
    BY <1>3, <2>1, <2>3 DEF SC!CacheStates
  <2>5. SC!createOutput(desired).cond \in Conds
    BY ServerlessCacheResults
  <2>6. Typed(SC!createOutput(desired))
    BY <1>2, <1>3, <2>1, <2>5 DEF IsResult, SC!createOutput, SC!Specs, SC!CacheStates
  <2>7. /\ Answers(SC!createOutput(desired), AsLatest(desired), "readBack")
        /\ UNCHANGED <<cr, edits>>
    BY <1>7 DEF SC!Create, SC!crVars
  <2> QED
    BY <1>1, <2>4, <2>6, <2>7, ManagerType
<1>8. ASSUME SC!ReadOneFails \/ SC!ReadDeleteFails
      PROVE  Returned
  BY <1>1, <1>8, ReadsFailType DEF ServerlessCacheType, ReadOneFails, ReadDeleteFails
<1>9. ASSUME SC!ReadOne \/ SC!ReadOneTagsUnread \/ SC!ReadBack \/ SC!ReadDelete
      PROVE  Returned
  <2>1. CASE SC!ReadOne \/ SC!ReadBack \/ SC!ReadDelete
    <3>1. aws.status # "none"
      BY <2>1 DEF SC!ReadOne, SC!ReadBack, SC!ReadDelete, Observes, ReadsBack, ObservesDoomed
    <3> QED
      BY <1>1, <1>4, <2>1, <3>1, ManagerType
      DEF SC!ReadOne, SC!ReadBack, SC!ReadDelete, Observes, ReadsBack, ObservesDoomed
  <2>2. CASE SC!ReadOneTagsUnread
    <3>1. Typed(SC!sdkFindTagsUnread(desired))
      BY <1>4, <2>2 DEF SC!ReadOneTagsUnread
    <3> QED
      BY <1>1, <2>2, <3>1 DEF SC!ReadOneTagsUnread, SC!Fault, SC!crVars, ReturnsResult, Counts
  <2> QED
    BY <1>9, <2>1, <2>2
<1>10. ASSUME \/ SC!RefuseLimit \/ SC!CreateFails \/ SC!WaitWhileUnsettled \/ SC!syncTagsFails
             \/ SC!NothingToSend
      PROVE  Returned
  <2>1. Typed([AsLatest(desired) EXCEPT !.cond.synced = "False"])
    BY <1>1 DEF IsResult, Conds, CondStatus
  <2>2. CASE SC!RefuseLimit \/ SC!NothingToSend
    <3>1. \E e \in HandedToOnError : GivesUp(AsLatest(desired), e)
      BY <2>2 DEF SC!RefuseLimit, SC!NothingToSend, HandedToOnError
    <3> QED
      BY <1>1, <3>1, ManagerType DEF GivesUp
  <2>3. CASE SC!WaitWhileUnsettled
    <3>1. GivesUp([AsLatest(desired) EXCEPT !.cond.synced = "False"], "requeue")
      BY <2>3 DEF SC!WaitWhileUnsettled
    <3> QED
      BY <1>1, <2>1, <3>1, ManagerType DEF GivesUp, HandedToOnError
  <2>4. CASE SC!CreateFails \/ SC!syncTagsFails
    <3>1. \E valid : Refused(valid, "awsOther", AsLatest(desired))
      BY <2>4 DEF SC!CreateFails, SC!syncTagsFails
    <3> QED
      BY <1>1, <3>1, ManagerType DEF Refused, HandedToOnError
  <2> QED
    BY <1>10, <2>2, <2>3, <2>4
<1>11. ASSUME SC!syncDescription \/ SC!syncSnapshotRetentionLimit \/ SC!syncTags
      PROVE  Returned
  <2>1. SC!T!SyncTags(desired.spec.tags, latest.spec.tags, aws.tags) \in SCS!T!TagMaps
    BY <1>1, <1>3, SyncTagsType
  <2>2. /\ SC!int32(desired.spec.limit) \in SC!Narrow
        /\ SC!int32(desired.spec.limit) \in Limits
    BY <1>3, KindsAssumption, NarrowType
  <2>3. aws.status = "available"
    BY <1>11 DEF SC!syncDescription, SC!syncSnapshotRetentionLimit, SC!syncTags, SC!Modifies,
                SC!Modified
  <2>4. AwsTyped'
    <3>1. CASE SC!syncDescription
      BY <1>1, <1>3, <2>3, <3>1 DEF SC!syncDescription, SC!Modifies, SC!Modified, SC!CacheStates
    <3>2. CASE SC!syncSnapshotRetentionLimit
      BY <1>1, <2>2, <3>2
      DEF SC!syncSnapshotRetentionLimit, SC!Modifies, SC!Modified, SC!CacheStates
    <3>3. CASE SC!syncTags
      BY <1>1, <2>1, <2>3, <3>3 DEF SC!syncTags, SC!CacheStates
    <3> QED
      BY <1>11, <3>1, <3>2, <3>3
  <2>5. PICK r \in {latest, AsLatest(desired)}, e \in HandedToOnError : FailWith(r, e)
    BY <1>11 DEF SC!syncDescription, SC!syncSnapshotRetentionLimit, SC!syncTags, SC!Modifies,
                HandedToOnError
  <2>6. /\ UNCHANGED <<cr, edits>>
        /\ UNCHANGED faults \/ (faults < MaxFaults /\ faults' = faults + 1)
    BY <1>11 DEF SC!syncDescription, SC!syncSnapshotRetentionLimit, SC!syncTags, SC!Modifies,
                SC!crVars, SC!Fault
  <2>7. Typed(latest')
    BY <1>1, <2>5, FailWithType
  <2> QED
    BY <2>4, <2>5, <2>6, <2>7 DEF FailWith, ReturnsResult, Counts
<1>12. ASSUME SC!RefusedByService \/ SC!Delete \/ SC!DeleteFails
      PROVE  Returned
  <2>1. CASE SC!RefusedByService
    BY <1>1, <2>1, FailWithType
    DEF SC!RefusedByService, SC!ModificationFails, SC!Fault, SC!crVars, HandedToOnError,
        FailWith, ReturnsResult, Counts
  <2>2. CASE SC!Delete
    <3>1. aws' = [aws EXCEPT !.status = "deleting"] /\ aws.status # "none"
      BY <2>2 DEF SC!Delete, SC!Deletable, SC!Deletes
    <3>2. AwsTyped'
      BY <1>1, <3>1 DEF SC!CacheStates
    <3> QED
      BY <1>1, <2>2, <3>2, ManagerType DEF SC!Delete, Deletes
  <2>3. CASE SC!DeleteFails
    BY <1>1, <2>3, ManagerType DEF SC!DeleteFails, DeleteRefused, HandedToOnError
  <2> QED
    BY <1>12, <2>1, <2>2, <2>3
<1>13. Returned => ServerlessCacheType' /\ Counts
  BY ReturnsType DEF ServerlessCacheType, ReturnsResult
<1> QED
  BY <1>5, <1>6, <1>7, <1>8, <1>9, <1>10, <1>11, <1>12, <1>13
  DEF SC!Next, SC!Controller

-----------------------------------------------------------------------------
(* CacheParameterGroup. *)

(* What a manager returns, with the parameters an update has dealt with. *)
Reads == [spec : CPG!AllSpecs, ann : {NoAnnotations}, status : {"none"}, cond : Conds,
          done : SUBSET Names]

CacheParameterGroupType ==
  /\ IsCR(cr, CPG!AllSpecs, {NoAnnotations}, {"none"})
  /\ IsCR(desired, CPG!AllSpecs, {NoAnnotations}, {"none"})
  /\ IsResult(latest, CPG!AllSpecs, {"none"}) \/ latest \in Reads
  /\ pc = "update" => latest \in Reads
  /\ aws \in [status : {"none", "live"}, description : Descriptions,
              params : CPG!ParameterMaps]

LEMMA CacheParameterGroupTypeOK == CacheParameterGroupType => CPG!TypeOK
<1> SUFFICES ASSUME CacheParameterGroupType PROVE CPG!TypeOK
  OBVIOUS
<1>1. CPG!Conds = Conds /\ CPG!NoAnnotations = NoAnnotations
  BY DEF CPG!Conds, Conds, CPG!CondStatus, CondStatus, CPG!NoAnnotations, NoAnnotations
<1>2. cr \in CPG!CRs /\ desired \in CPG!CRs
  BY <1>1 DEF CacheParameterGroupType, IsCR, CPG!CRs
<1>3. [f \in DOMAIN latest \ {"done"} |-> latest[f]] \in CPG!Observed
  BY <1>1 DEF CacheParameterGroupType, IsResult, Reads, CPG!Observed
<1>4. "done" \in DOMAIN latest => latest.done \subseteq Names
  BY DEF CacheParameterGroupType, IsResult, Reads
<1> QED
  BY <1>2, <1>3, <1>4 DEF CacheParameterGroupType, CPG!TypeOK

(* The service lists every name once. *)
LEMMA SetToSeqLists ==
  ASSUME NEW names, IsFiniteSet(names)
  PROVE  /\ Cardinality(names) \in Nat
         /\ CPG!SetToSeq(names) \in [1..Cardinality(names) -> names]
         /\ \A n \in names : \E i \in 1..Cardinality(names) : CPG!SetToSeq(names)[i] = n
         /\ \A i, j \in 1..Cardinality(names) :
              CPG!SetToSeq(names)[i] = CPG!SetToSeq(names)[j] => i = j
<1> DEFINE size == Cardinality(names)
           Lists(f) == \A i, j \in DOMAIN f : f[i] = f[j] => i = j
           list == CPG!SetToSeq(names)
<1>1. size \in Nat /\ ExistsBijection(1..size, names)
  BY FS_CardinalityType
<1>2. \E f \in [1..size -> names] : Lists(f)
  BY <1>1 DEF ExistsBijection, Bijection, Injection, IsInjective
<1>3. CPG!Cardinality(names) = Cardinality(names)
  BY DEF CPG!Cardinality, Cardinality
<1>4. list = CHOOSE f \in [1..size -> names] : Lists(f)
  BY <1>3 DEF CPG!SetToSeq, CPG!IsInjective
<1>5. list \in [1..size -> names] /\ Lists(list)
  BY <1>2, <1>4
<1>6. list \in Injection(1..size, names)
  BY <1>5 DEF Injection, IsInjective
<1>7. Cardinality(1..size) = size
  BY <1>1, FS_Interval
<1>8. list \in Surjection(1..size, names)
  BY <1>6, <1>7, FS_Injection
<1> QED
  BY <1>1, <1>5, <1>8 DEF Surjection

(* What is listed of a map of parameters sets that map. *)
LEMMA ListedParameters ==
  ASSUME aws.params \in CPG!ParameterMaps
  PROVE  /\ CPG!describeCacheParameters \in Seq(CPG!Parameters)
         /\ CPG!AsMap(CPG!describeCacheParameters) = aws.params
<1> DEFINE names == DOMAIN aws.params
           order == CPG!SetToSeq(names)
           size == Cardinality(names)
           list == CPG!describeCacheParameters
<1>1. names \subseteq Names /\ aws.params \in [names -> Values]
  BY DEF CPG!ParameterMaps
<1>2. IsFiniteSet(names)
  BY <1>1, KindsAssumption, FS_Subset
<1>3. /\ size \in Nat /\ order \in [1..size -> names]
      /\ \A n \in names : \E i \in 1..size : order[i] = n
  BY <1>2, SetToSeqLists
<1>4. list = [i \in 1..size |-> [name |-> order[i], value |-> aws.params[order[i]]]]
  BY <1>3 DEF CPG!describeCacheParameters
<1>5. list \in [1..size -> CPG!Parameters]
  BY <1>1, <1>3, <1>4 DEF CPG!Parameters
<1>6. CPG!NamesOf(list) = names
  BY <1>3, <1>4 DEF CPG!NamesOf
<1>7. ASSUME NEW n \in names
      PROVE  CPG!ValueIn(list, n) = aws.params[n]
  <2> DEFINE at == CHOOSE i \in DOMAIN list : list[i].name = n
  <2>1. at \in DOMAIN list /\ list[at].name = n
    BY <1>3, <1>4
  <2> QED
    BY <1>4, <2>1 DEF CPG!ValueIn
<1>8. {m \in CPG!NamesOf(list) : CPG!ValueIn(list, m) # ""} = names
  BY <1>1, <1>6, <1>7, KindsAssumption
<1>9. CPG!AsMap(list) = [n \in names |-> CPG!ValueIn(list, n)]
  BY <1>8 DEF CPG!AsMap
<1> QED
  BY <1>1, <1>3, <1>5, <1>7, <1>9

(* A list of parameters is read as a map of those that have a value. *)
LEMMA AsMapType ==
  ASSUME NEW list \in Seq(CPG!Parameters)
  PROVE  CPG!AsMap(list) \in CPG!ParameterMaps
<1> DEFINE named == {m \in CPG!NamesOf(list) : CPG!ValueIn(list, m) # ""}
<1>1. \A i \in DOMAIN list : list[i] \in CPG!Parameters
  OBVIOUS
<1>2. ASSUME NEW m \in CPG!NamesOf(list)
      PROVE  m \in Names /\ CPG!ValueIn(list, m) \in Values \cup {""}
  <2> DEFINE at == CHOOSE i \in DOMAIN list : list[i].name = m
  <2>1. at \in DOMAIN list /\ list[at].name = m
    BY DEF CPG!NamesOf
  <2> QED
    BY <1>1, <2>1 DEF CPG!ValueIn, CPG!Parameters
<1>3. named \in SUBSET Names /\ CPG!AsMap(list) \in [named -> Values]
  BY <1>2 DEF CPG!AsMap
<1> QED
  BY <1>3 DEF CPG!ParameterMaps

LEMMA NoParametersType == CPG!NoParameters \in CPG!ParameterMaps
<1>1. CPG!NoParameters \in [{} -> Values]
  BY DEF CPG!NoParameters
<1>2. {} \in SUBSET Names
  OBVIOUS
<1> QED
  BY <1>1, <1>2 DEF CPG!ParameterMaps

LEMMA FailWithReads ==
  ASSUME NEW r \in Reads, NEW e \in HandedToOnError, FailWith(r, e) \/ DeleteReturns(r, e)
  PROVE  latest' \in Reads
<1>1. onErrorConds(r.cond, e) \in Conds
  BY ConditionsType DEF Reads, HandedToOnError, Errors
<1> QED
  BY <1>1 DEF FailWith, DeleteReturns, Reads

(* The calls of an update send maps of parameters. *)
LEMMA UpdatesType ==
  ASSUME CacheParameterGroupType,
         CPG!resetAllParameters \/ CPG!resetParameters \/ CPG!saveModified \/ CPG!saveAdded
  PROVE  \E params \in CPG!ParameterMaps, done \in SUBSET Names : CPG!Updates(params, done)
<1>1. pc = "update" /\ latest \in Reads
  BY DEF CPG!resetAllParameters, CPG!resetParameters, CPG!saveModified, CPG!saveAdded,
         CacheParameterGroupType
<1>2. CPG!wanted \in CPG!ParameterMaps /\ CPG!present \in CPG!ParameterMaps
  <2>1. desired.spec.params \in Seq(CPG!Parameters) /\ latest.spec.params \in Seq(CPG!Parameters)
    BY <1>1 DEF CacheParameterGroupType, IsCR, Reads, CPG!AllSpecs
  <2> QED
    BY <2>1, AsMapType DEF CPG!wanted, CPG!present
<1>3. PICK had \in SUBSET Names : aws.params \in [had -> Values]
  BY DEF CacheParameterGroupType, CPG!ParameterMaps
<1>4. PICK wants \in SUBSET Names : CPG!wanted \in [wants -> Values]
  BY <1>2 DEF CPG!ParameterMaps
<1>5. CPG!removedParameters \in SUBSET Names
  BY <1>2 DEF CPG!removedParameters, CPG!ParameterMaps
<1>6. CASE CPG!resetAllParameters
  <2> QED
    BY <1>5, <1>6, NoParametersType DEF CPG!resetAllParameters
<1>7. CASE CPG!resetParameters
  <2> DEFINE kept == had \ CPG!removedParameters
  <2>1. [n \in kept |-> aws.params[n]] \in [kept -> Values] /\ kept \in SUBSET Names
    BY <1>3
  <2>2. DOMAIN aws.params \ CPG!removedParameters = kept
    BY <1>3
  <2>3. [n \in kept |-> aws.params[n]] \in CPG!ParameterMaps
    BY <2>1 DEF CPG!ParameterMaps
  <2> QED
    BY <1>5, <1>7, <2>2, <2>3 DEF CPG!resetParameters
<1>8. CASE CPG!saveModified \/ CPG!saveAdded
  <2>1. PICK names \in SUBSET wants : CPG!saveParameters(names)
    <3>1. CPG!modifiedParameters \in SUBSET wants /\ CPG!addedParameters \in SUBSET wants
      BY <1>4 DEF CPG!modifiedParameters, CPG!addedParameters
    <3> QED
      BY <1>8, <3>1 DEF CPG!saveModified, CPG!saveAdded
  <2>2. PICK batch \in CPG!Batches(CPG!Left(names)) :
          CPG!Updates([n \in DOMAIN aws.params \cup batch |->
                        IF n \in batch THEN CPG!wanted[n] ELSE aws.params[n]],
                      batch)
    BY <2>1 DEF CPG!saveParameters
  <2>3. batch \subseteq wants
    BY <2>2 DEF CPG!Batches, CPG!Left
  <2> DEFINE saved == [n \in had \cup batch |->
                        IF n \in batch THEN CPG!wanted[n] ELSE aws.params[n]]
  <2>4. saved \in [had \cup batch -> Values] /\ had \cup batch \in SUBSET Names
    BY <1>3, <1>4, <2>3
  <2>5. saved \in CPG!ParameterMaps
    BY <2>4 DEF CPG!ParameterMaps
  <2>6. DOMAIN aws.params = had
    BY <1>3
  <2> QED
    BY <1>4, <2>2, <2>3, <2>5, <2>6
<1> QED
  BY <1>6, <1>7, <1>8

LEMMA CacheParameterGroupStep ==
  ASSUME CacheParameterGroupType, Shape, CPG!Next
  PROVE  CacheParameterGroupType' /\ Counts
<1> DEFINE Typed(r) == IsResult(r, CPG!AllSpecs, {"none"}) \/ r \in Reads
           AwsTyped == aws \in [status : {"none", "live"}, description : Descriptions,
                                params : CPG!ParameterMaps]
           Returned == /\ UNCHANGED <<cr, desired>>
                       /\ Typed(latest') /\ (pc' = "update" => latest' \in Reads)
                       /\ Counts /\ AwsTyped'
<1> USE CacheParameterGroupInherits
<1>1. Typed(latest) /\ IsResult(AsLatest(desired), CPG!AllSpecs, {"none"}) /\ AwsTyped
  BY AsLatestType DEF CacheParameterGroupType
<1>2. CPG!sdkFind(desired) \in Reads /\ CPG!sdkFind(latest) \in Reads
  <2>1. CPG!sdkFind(desired).cond \in Conds /\ CPG!sdkFind(latest).cond \in Conds
    BY CacheParameterGroupResults
  <2>2. CPG!describeCacheParameters \in Seq(CPG!Parameters)
    BY <1>1, ListedParameters
  <2>3. latest.ann = NoAnnotations /\ desired.ann = NoAnnotations
    BY <1>1 DEF CacheParameterGroupType, IsCR, IsResult, Reads
  <2> QED
    BY <1>1, <2>1, <2>2, <2>3 DEF CPG!sdkFind, CPG!AllSpecs, Reads
<1>3. CASE CPG!UserEdit(CPG!Specs) \/ CPG!UserDelete \/ CPG!KindlessStep
           \/ CPG!PatchStatus \/ CPG!Crash
  <2>1. \/ UserEdit(CPG!Specs) \/ UserDelete \/ KindlessStep
        \/ (\E isSynced : PatchStatusBy(isSynced)) \/ Crash
    BY <1>3, CacheParameterGroupRuntime DEF CPG!PatchStatus
  <2>2. CPG!Specs \subseteq CPG!AllSpecs
    BY KindsAssumption DEF CPG!Specs, CPG!AllSpecs
  <2>3. /\ latest.status \in {"none"} /\ latest.cond \in Conds
        /\ latest.spec \in CPG!AllSpecs /\ latest.ann = NoAnnotations
    BY <1>1 DEF IsResult, Reads
  <2>4. Patch(cr.spec, desired.spec, latest.spec) \in CPG!AllSpecs /\ latest.ann = desired.ann
    BY <2>3 DEF CacheParameterGroupType, IsCR, Patch, CPG!AllSpecs
  <2>5. RuntimeStep /\ err \in Errors
    BY <2>1 DEF RuntimeStep, Shape
  <2>6. UNCHANGED <<aws, latest>> /\ Counts
    BY <2>5, RuntimeCounts
  <2>7. pc' = "update" => pc = "update"
    BY <2>1 DEF UserEdit, UserDelete, KindlessStep, Fetch, FetchGone, ReadOneNotFound, Manage,
                ReadBackFails, PatchSpec, LateInitialize, ReadDeleteNotFound, Unmanage,
                PatchStatusBy, Crash, ctlVars
  <2>8. /\ IsCR(cr, CPG!AllSpecs, {NoAnnotations}, {"none"})'
        /\ IsCR(desired, CPG!AllSpecs, {NoAnnotations}, {"none"})'
    BY <2>1, <2>2, <2>3, <2>4, <2>5, RuntimeCRs DEF CacheParameterGroupType
  <2> QED
    BY <2>6, <2>7, <2>8 DEF CacheParameterGroupType
<1>4. ASSUME CPG!Create
      PROVE  Returned
  <2>1. desired.spec \in CPG!AllSpecs /\ desired.ann = NoAnnotations
    BY DEF CacheParameterGroupType, IsCR
  <2>2. AwsTyped'
    BY <1>4, <2>1, NoParametersType DEF CPG!Create, CPG!AllSpecs
  <2>3. IsResult(CPG!createOutput(desired), CPG!AllSpecs, {"none"})
    <3>1. CPG!createOutput(desired).cond \in Conds
      BY CacheParameterGroupResults
    <3> QED
      BY <2>1, <3>1 DEF IsResult, CPG!createOutput
  <2>4. /\ Answers(CPG!createOutput(desired), AsLatest(desired), "readBack")
        /\ UNCHANGED <<cr, edits>>
    BY <1>4 DEF CPG!Create, CPG!crVars
  <2>5. UNCHANGED <<cr, edits, desired>> /\ pc' # "update"
    BY <2>4 DEF Answers, FailWith
  <2>6. Counts
    BY <2>4, <2>5 DEF Answers, Counts, Fault
  <2>7. IsResult(latest', CPG!AllSpecs, {"none"})
    BY <1>1, <2>3, <2>4, FailWithType DEF Answers, HandedToOnError
  <2> QED
    BY <2>2, <2>5, <2>6, <2>7
<1>5. ASSUME CPG!ReadOne \/ CPG!ReadDelete
      PROVE  Returned
  BY <1>1, <1>2, <1>5
  DEF CPG!ReadOne, CPG!ReadDelete, Observes, ObservesDoomed, Counts, crVars
<1>6. ASSUME CPG!ReadBack
      PROVE  Returned
  <2>1. CPG!sdkFind(latest).status = "none" /\ CPG!sdkFind(latest).cond \in Conds
    BY <1>2 DEF Reads
  <2>2. latest' = [latest EXCEPT !.status = CPG!sdkFind(latest).status,
                                 !.cond = CPG!sdkFind(latest).cond]
    BY <1>6 DEF CPG!ReadBack, ReadsBack
  <2>3. Typed(latest')
    BY <1>1, <2>1, <2>2 DEF IsResult, Reads
  <2> QED
    BY <1>1, <1>6, <2>3 DEF CPG!ReadBack, ReadsBack, Counts, crVars
<1>7. ASSUME CPG!ReadOneFails \/ CPG!ReadDeleteFails
      PROVE  Returned
  <2>1. ReadOneFails \/ ReadDeleteFails
    BY <1>7
  <2>2. IsResult(latest', CPG!AllSpecs, {"none"})
    BY <1>1, <2>1, FailWithType DEF ReadOneFails, ReadDeleteFails, HandedToOnError
  <2> QED
    BY <1>1, <2>1, <2>2 DEF ReadOneFails, ReadDeleteFails, FailWith, Counts, Fault, crVars
<1>8. ASSUME CPG!CreateFails
      PROVE  Returned
  <2>1. Refused(TRUE, "awsOther", AsLatest(desired))
    BY <1>8 DEF CPG!CreateFails
  <2>2. PICK any \in HandedToOnError : FailWith(AsLatest(desired), any)
    BY <2>1 DEF Refused, HandedToOnError
  <2>3. IsResult(latest', CPG!AllSpecs, {"none"})
    BY <1>1, <2>2, FailWithType
  <2> QED
    BY <1>1, <2>1, <2>2, <2>3 DEF Refused, FailWith, Counts, Fault, crVars
<1>9. ASSUME CPG!resetAllParameters \/ CPG!resetParameters \/ CPG!saveModified \/ CPG!saveAdded
      PROVE  Returned
  <2>1. PICK params \in CPG!ParameterMaps, done \in SUBSET Names : CPG!Updates(params, done)
    BY <1>9, UpdatesType
  <2>2. latest \in Reads
    BY <1>9 DEF CPG!resetAllParameters, CPG!resetParameters, CPG!saveModified, CPG!saveAdded,
                CacheParameterGroupType
  <2>3. AwsTyped' /\ UNCHANGED <<cr, edits>>
    BY <1>1, <2>1 DEF CPG!Updates, CPG!crVars
  <2>4. CASE /\ latest' = [latest EXCEPT !.done = @ \cup done]
             /\ UNCHANGED <<pc, desired, err, faults>>
    BY <2>2, <2>3, <2>4 DEF Reads, Counts
  <2>5. CASE CPG!Fault("lost") /\ CPG!FailWith(latest, "awsOther")
    <3>1. FailWith(latest, "awsOther")
      BY <2>5
    <3>2. latest' \in Reads
      BY <2>2, <3>1, FailWithReads DEF HandedToOnError
    <3> QED
      BY <2>3, <2>5, <3>1, <3>2 DEF FailWith, CPG!Fault, Counts
  <2> QED
    BY <2>1, <2>4, <2>5 DEF CPG!Updates
<1>10. ASSUME CPG!UpdateFails \/ CPG!RereadFails
      PROVE  Returned
  <2>1. latest \in Reads
    BY <1>10 DEF CPG!UpdateFails, CPG!RereadFails, CacheParameterGroupType
  <2>2. PICK any \in HandedToOnError : FailWith(latest, any)
    BY <1>10 DEF CPG!UpdateFails, CPG!RereadFails, Refused, HandedToOnError
  <2>3. latest' \in Reads
    BY <2>1, <2>2, FailWithReads
  <2>4. UNCHANGED <<cr, aws, edits>>
        /\ (UNCHANGED faults \/ (faults < MaxFaults /\ faults' = faults + 1))
    BY <1>10 DEF CPG!UpdateFails, CPG!RereadFails, CPG!crVars, CPG!Fault, Refused, crVars, Fault
  <2> QED
    BY <1>1, <2>2, <2>3, <2>4 DEF FailWith, Counts
<1>11. ASSUME CPG!UpdateDone
      PROVE  Returned
  <2>1. latest \in Reads /\ CPG!onSuccess(latest.cond) \in Conds
    BY <1>11, ResultConds DEF CPG!UpdateDone, CacheParameterGroupType, Reads
  <2>2. CPG!describeCacheParameters \in Seq(CPG!Parameters)
    BY <1>1, ListedParameters
  <2>3. latest' \in Reads
    BY <1>11, <2>1, <2>2 DEF CPG!UpdateDone, CPG!AllSpecs, Reads
  <2> QED
    BY <1>1, <1>11, <2>3 DEF CPG!UpdateDone, CPG!crVars, Counts
<1>12. ASSUME CPG!Delete
      PROVE  Returned
  <2>1. Deletes(aws.status = "live", "none")
    BY <1>12 DEF CPG!Delete
  <2>2. AwsTyped' /\ UNCHANGED <<cr, edits>>
    BY <1>1, <2>1 DEF Deletes, crVars
  <2>3. Typed(latest') /\ UNCHANGED desired /\ pc' # "update"
    BY <1>1, <2>1, FailWithType, FailWithReads DEF Deletes, DeleteReturns, DeleteDone, HandedToOnError
  <2> QED
    BY <2>1, <2>2, <2>3 DEF Deletes, Counts, Fault
<1>13. ASSUME CPG!DeleteFails
      PROVE  Returned
  <2>1. DeleteRefused(aws.status = "live", "awsOther")
    BY <1>13 DEF CPG!DeleteFails
  <2>2. Typed(latest') /\ UNCHANGED <<cr, aws, edits, desired>> /\ pc' # "update"
    BY <1>1, <2>1, FailWithType, FailWithReads DEF DeleteRefused, DeleteReturns, HandedToOnError, crVars
  <2> QED
    BY <1>1, <2>1, <2>2 DEF DeleteRefused, Counts, Fault
<1>14. Returned => CacheParameterGroupType' /\ Counts
  BY DEF CacheParameterGroupType, IsCR
<1> QED
  BY <1>3, <1>4, <1>5, <1>6, <1>7, <1>8, <1>9, <1>10, <1>11, <1>12, <1>13, <1>14
  DEF CPG!Next, CPG!Controller

-----------------------------------------------------------------------------
(* All kinds together. *)

KindType ==
  /\ kind \in {"User", "UserGroup", "CacheSubnetGroup", "CacheParameterGroup", "Snapshot",
               "ServerlessCacheSnapshot", "ServerlessCache"}
  /\ kind = "User" => UserType
  /\ kind = "UserGroup" => UserGroupType
  /\ kind = "CacheSubnetGroup" => CacheSubnetGroupType
  /\ kind = "CacheParameterGroup" => CacheParameterGroupType
  /\ kind = "Snapshot" => SnapshotType
  /\ kind = "ServerlessCacheSnapshot" => ServerlessCacheSnapshotType
  /\ kind = "ServerlessCache" => ServerlessCacheType

LEMMA StartsType ==
  ASSUME NEW Wanted, NEW States, NEW spec \in Wanted, NEW status \in States,
         StartsWith(spec, status)
  PROVE  PassType(Wanted, Wanted, States) /\ CommonType
<1>1. NoConds \in Conds
  BY DEF NoConds, Conds, CondStatus
<1>2. /\ cr = [exists |-> TRUE, del |-> FALSE, fin |-> FALSE, spec |-> spec,
               ann |-> NoAnnotations, status |-> status, cond |-> NoConds]
      /\ desired = cr /\ latest = AsLatest(cr)
      /\ pc = "idle" /\ err = "none" /\ queued = TRUE /\ edits = 0 /\ faults = 0
  BY DEF StartsWith, NewResource, StartsIdle
<1>3. PassType(Wanted, Wanted, States)
  BY <1>1, <1>2 DEF PassType, IsCR, IsResult, AsLatest
<1>4. CommonType
  BY <1>2, RuntimeAssumption DEF CommonType, PCs, Errors
<1> QED
  BY <1>3, <1>4

LEMMA KindsStartType ==
  ASSUME Init
  PROVE  CommonType /\ KindType
<1> USE DEF KindType
<1>1. CASE kind = "User" /\ U!Init
  <2>1. PICK s \in U!Specs : /\ StartsWith(s, [state |-> "none", last |-> None])
                             /\ aws = [status |-> "none", access |-> s.access, type |-> s.type]
    BY <1>1, UserRuntime DEF U!Init, U!Entered
  <2>2. [state |-> "none", last |-> None] \in U!Statuses
    BY DEF U!Statuses
  <2> QED
    BY <1>1, <2>1, <2>2, StartsType DEF UserType, U!Specs
<1>2. CASE kind = "UserGroup" /\ UG!Init
  <2>1. PICK s \in UG!Specs : StartsWith(s, "none") /\ aws = UG!Group("none", s.users)
    BY <1>2, UserGroupRuntime DEF UG!Init, UG!Entered
  <2> QED
    BY <1>2, <2>1, StartsType DEF UserGroupType, UG!Specs, UG!Group, UG!Groups
<1>3. CASE kind = "CacheSubnetGroup" /\ CSG!Init
  <2>1. PICK s \in CSG!Specs :
          /\ StartsWith(s, "none")
          /\ aws = [status |-> "none", description |-> s.description, subnets |-> s.subnets]
    BY <1>3, CacheSubnetGroupRuntime DEF CSG!Init
  <2> QED
    BY <1>3, <2>1, StartsType DEF CacheSubnetGroupType, CSG!Specs
<1>4. CASE kind = "CacheParameterGroup" /\ CPG!Init
  <2>1. PICK s \in CPG!Specs :
          /\ StartsWith(s, "none")
          /\ aws = [status |-> "none", description |-> s.description,
                    params |-> CPG!NoParameters]
    BY <1>4, CacheParameterGroupRuntime DEF CPG!Init
  <2>2. s \in CPG!AllSpecs
    BY KindsAssumption DEF CPG!Specs, CPG!AllSpecs
  <2>3. PassType(CPG!AllSpecs, CPG!AllSpecs, {"none"}) /\ CommonType /\ pc = "idle"
    BY <2>1, <2>2, StartsType DEF StartsWith, StartsIdle
  <2> QED
    BY <1>4, <2>1, <2>3, NoParametersType DEF CacheParameterGroupType, PassType, CPG!Specs
<1>5. CASE kind = "Snapshot" /\ S!Init
  <2>1. PICK s \in S!Specs : /\ StartsWith(s, "none")
                             /\ aws = [status |-> "none", cluster |-> s.cluster]
    BY <1>5, SnapshotRuntime DEF S!Init
  <2> QED
    BY <1>5, <2>1, StartsType DEF SnapshotType, S!Specs
<1>6. CASE kind = "ServerlessCacheSnapshot" /\ SCS!Init
  <2>1. PICK s \in SCS!Specs : /\ StartsWith(s, "none")
                               /\ aws = [status |-> "none", kms |-> s.kms, tags |-> s.tags]
    BY <1>6, ServerlessCacheSnapshotRuntime DEF SCS!Init
  <2> QED
    BY <1>6, <2>1, StartsType DEF ServerlessCacheSnapshotType, SCS!Specs
<1>7. CASE kind = "ServerlessCache" /\ SC!Init
  <2>1. PICK s \in SC!Specs :
          /\ StartsWith(s, "none")
          /\ aws = [status |-> "none", desc |-> s.desc, tags |-> s.tags, limit |-> 0,
                    subnets |-> s.subnets]
    BY <1>7, ServerlessCacheRuntime DEF SC!Init
  <2>2. 0 \in SC!Narrow
    <3>1. Width \in Nat \ {0} /\ Width % 2 = 0
      BY KindsAssumption
    <3> QED
      BY <3>1 DEF SC!Narrow
  <2>3. SC!T!TagMaps = SCS!T!TagMaps
    BY DEF SC!T!TagMaps, SCS!T!TagMaps
  <2>4. PassType(SC!Specs, SC!Specs, SC!CacheStates \cup {"none"}) /\ CommonType
    BY <2>1, StartsType
  <2>5. /\ aws \in [status : SC!CacheStates \cup {"none"}, desc : Descs \cup {None},
                    tags : SCS!T!TagMaps, limit : SC!Narrow, subnets : SubnetSets \cup {None}]
        /\ aws.status = "none"
    BY <2>1, <2>2, <2>3 DEF SC!Specs
  <2> QED
    BY <1>7, <2>4, <2>5 DEF ServerlessCacheType
<1> QED
  BY <1>1, <1>2, <1>3, <1>4, <1>5, <1>6, <1>7 DEF Init

(* What a step does to the position of a pass, to the error and to the queue *)
(* follows from the contract.                                               *)
LEMMA CommonTypeInductive ==
  ASSUME KindsInv, CommonType, Step, Counts
  PROVE  CommonType'
<1> USE DEF CommonType, PCs, Running, Errors
<1>1. edits' \in 0..MaxEdits /\ faults' \in 0..MaxFaults
  BY RuntimeAssumption DEF Counts
<1>2. CASE RuntimeStep
  BY <1>1, <1>2
  DEF RuntimeStep, UserEdit, UserDelete, KindlessStep, Fetch, FetchGone, ReadOneNotFound, Manage,
      ReadBackFails, PatchSpec, LateInitialize, ReadDeleteNotFound, Unmanage, PatchStatusBy,
      Crash, crVars, ctlVars
<1>3. CASE Service
  BY <1>1, <1>3 DEF Service
<1>4. CASE Call
  BY <1>1, <1>4 DEF Call, Returns, Fails, Keeps, Creates, Destroys
<1> QED
  BY <1>2, <1>3, <1>4 DEF Step

LEMMA KindsTypeInductive ==
  ASSUME KindsInv, CommonType, KindType, [Next]_<<vars, kind>>
  PROVE  (CommonType /\ KindType)'
<1>1. ASSUME Next
      PROVE  KindType' /\ Counts
  BY <1>1, UserStep, UserGroupStep, CacheSubnetGroupStep, CacheParameterGroupStep, SnapshotStep,
     ServerlessCacheSnapshotStep, ServerlessCacheStep
  DEF Next, KindType, KindsInv
<1>2. CASE Next
  BY <1>1, <1>2, KindsContract, CommonTypeInductive
<1>3. CASE UNCHANGED <<vars, kind>>
  BY <1>3 DEF vars, CommonType, KindType, UserType, UserGroupType, CacheSubnetGroupType,
              CacheParameterGroupType, SnapshotType, ServerlessCacheSnapshotType,
              ServerlessCacheType, PassType, IsCR, IsResult
<1> QED
  BY <1>2, <1>3

(***************************************************************************)
(* Every variable keeps its type, for each of the kinds: what sdkFind and  *)
(* the answers of the calls put into a resource is a spec, a status and    *)
(* conditions of that kind.                                                *)
(***************************************************************************)
THEOREM TypeCorrect == Spec => []TypeOK
<1>1. Init => KindsInv /\ CommonType /\ KindType
  BY KindsStart, KindsStartType
<1>2. KindsInv /\ CommonType /\ KindType /\ [Next]_<<vars, kind>>
        => (KindsInv /\ CommonType /\ KindType)'
  BY KindsInductive, KindsTypeInductive
<1>3. CommonType /\ KindType => TypeOK
  BY UserTypeOK, UserGroupTypeOK, CacheSubnetGroupTypeOK, CacheParameterGroupTypeOK,
     SnapshotTypeOK, ServerlessCacheSnapshotTypeOK, ServerlessCacheTypeOK
  DEF CommonType, PCs, KindType, TypeOK
<1> QED
  BY <1>1, <1>2, <1>3, PTL DEF Spec

-----------------------------------------------------------------------------
(* What a pass knows of the AWS resource: common to the kinds. *)

(* A pass that has not failed has come to where its result is reported. *)
Ending == pc \in {"readBack", "patchSpec", "lateInit", "patchStatus"}

Concluding == Ending /\ err = "none" /\ ~desired.del

(* The conditions are reset when a pass begins, and set by its calls only. *)
Fresh == pc \in {"read", "manage", "create"} => desired.cond = NoConds

(* Neither the answer of a call nor a pass is lost. *)
NothingLost == {"lost", "crash"} \cap FaultKinds = {}

(* A call that leaves nothing to report but an error, or a deletion. *)
ConcludesNothing ==
  /\ UNCHANGED desired
  /\ pc' \notin {"read", "manage", "create", "update", "readBack", "lateInit"}
  /\ pc' = "patchSpec" => desired.del
  /\ pc' = "patchStatus" => err' # "none" \/ desired.del

LEMMA NothingConcluded ==
  ASSUME ConcludesNothing
  PROVE  ~Concluding'
  BY DEF ConcludesNothing, Concluding, Ending

(* The runtime carries the result of the calls through the pass. *)
LEMMA RuntimeTruth ==
  ASSUME Shape, Live, RuntimeStep
  PROVE  /\ UNCHANGED <<aws, latest>>
         /\ Concluding' => Concluding /\ UNCHANGED desired
         /\ Ending' /\ ~desired'.del => Ending /\ UNCHANGED desired
         /\ pc' = "update" => pc = "update" /\ UNCHANGED desired
         /\ pc' = "patchSpec" => pc = "patchSpec" /\ UNCHANGED desired
         /\ pc' = "readBack" => pc = "readBack" /\ UNCHANGED desired
         /\ pc' = "read" => /\ ~desired'.del
                            /\ \/ pc = "read" /\ UNCHANGED desired
                               \/ /\ pc = "idle" /\ cr.exists /\ ~cr.del
                                  /\ desired' = [cr EXCEPT !.cond = NoConds]
         /\ pc' = "manage" => pc \in {"read", "manage"} /\ UNCHANGED desired
         /\ pc' = "create" => \/ pc = "create" /\ UNCHANGED desired
                              \/ pc = "manage" /\ desired' = [desired EXCEPT !.fin = TRUE]
<1> USE DEF Concluding, Ending, Shape, IsCR, Live, crVars, ctlVars
<1>1. CASE (\E specs : UserEdit(specs)) \/ UserDelete
  BY <1>1 DEF UserEdit, UserDelete
<1>2. CASE Fetch
  BY <1>2 DEF Fetch
<1>3. CASE Manage
  BY <1>3 DEF Manage
<1>4. CASE \/ FetchGone \/ ReadOneNotFound \/ ReadBackFails \/ PatchSpec \/ LateInitialize
           \/ ReadDeleteNotFound \/ Unmanage
  BY <1>4 DEF FetchGone, ReadOneNotFound, ReadBackFails, PatchSpec, LateInitialize,
              ReadDeleteNotFound, Unmanage
<1>5. CASE (\E isSynced : PatchStatusBy(isSynced)) \/ Crash
  BY <1>5 DEF PatchStatusBy, Crash
<1> QED
  BY <1>1, <1>2, <1>3, <1>4, <1>5 DEF RuntimeStep, KindlessStep

LEMMA FreshInductive ==
  ASSUME Shape, Live, Fresh, Step
  PROVE  Fresh'
<1>1. CASE RuntimeStep
  <2>1. pc' = "read" => desired'.cond = NoConds
    BY <1>1, RuntimeTruth DEF Fresh, Shape, IsCR
  <2>2. pc' = "manage" => desired'.cond = NoConds
    BY <1>1, RuntimeTruth DEF Fresh
  <2>3. pc' = "create" => desired'.cond = NoConds
    BY <1>1, RuntimeTruth DEF Fresh, Shape, IsCR
  <2> QED
    BY <2>1, <2>2, <2>3 DEF Fresh
<1>2. CASE Service
  BY <1>2 DEF Service, Fresh
<1>3. CASE Call
  BY <1>3 DEF Call, Returns, Keeps, Creates, Destroys, Fresh
<1> QED
  BY <1>1, <1>2, <1>3 DEF Step

LEMMA FailWithConcludes ==
  ASSUME NEW r, NEW e \in HandedToOnError, FailWith(r, e)
  PROVE  ConcludesNothing
<1>1. onErrorResult(r.cond, e) # "none"
  BY DEF onErrorResult, HandedToOnError
<1> QED
  BY <1>1 DEF FailWith, ConcludesNothing

LEMMA FailuresConclude ==
  ASSUME LifecycleInv
  PROVE  /\ \A r : \A e \in HandedToOnError :
              /\ GivesUp(r, e) => ConcludesNothing /\ UNCHANGED aws
              /\ \A valid : Refused(valid, e, r) => ConcludesNothing /\ UNCHANGED aws
              /\ \A d : DeleteRefused(d, e) => ConcludesNothing /\ UNCHANGED aws
         /\ ReadOneFails \/ ReadDeleteFails => ConcludesNothing /\ UNCHANGED aws
         /\ \A r : ObservesDoomed(r) => ConcludesNothing /\ UNCHANGED aws
         /\ \A d, after : Deletes(d, after) => /\ ConcludesNothing
                                               /\ aws' = [aws EXCEPT !.status = after]
<1>1. ASSUME NEW r, NEW e \in HandedToOnError, GivesUp(r, e)
      PROVE  ConcludesNothing /\ UNCHANGED aws
  BY <1>1, FailWithConcludes DEF GivesUp
<1>2. ASSUME NEW r, NEW e \in HandedToOnError, NEW valid, Refused(valid, e, r)
      PROVE  ConcludesNothing /\ UNCHANGED aws
  BY <1>2, FailWithConcludes DEF Refused, HandedToOnError
<1>3. ASSUME NEW e \in HandedToOnError, NEW d, DeleteRefused(d, e)
      PROVE  ConcludesNothing /\ UNCHANGED aws
  BY <1>3 DEF DeleteRefused, DeleteReturns, ConcludesNothing, LifecycleInv, DeletesOnRequest
<1>4. ASSUME ReadOneFails \/ ReadDeleteFails
      PROVE  ConcludesNothing /\ UNCHANGED aws
  BY <1>4, FailWithConcludes
  DEF ReadOneFails, ReadDeleteFails, HandedToOnError, ConcludesNothing
<1>5. ASSUME NEW r, ObservesDoomed(r)
      PROVE  ConcludesNothing /\ UNCHANGED aws
  BY <1>5 DEF ObservesDoomed, ConcludesNothing
<1>6. ASSUME NEW d, NEW after, Deletes(d, after)
      PROVE  ConcludesNothing /\ aws' = [aws EXCEPT !.status = after]
  BY <1>6 DEF Deletes, DeleteDone, DeleteReturns, ConcludesNothing, LifecycleInv, DeletesOnRequest
<1> QED
  BY <1>1, <1>2, <1>3, <1>4, <1>5, <1>6

(* An accepted call answers with r, or it concludes nothing. *)
LEMMA AnswersConclude ==
  ASSUME NEW r, NEW was, NEW next, Answers(r, was, next)
  PROVE  \/ latest' = r /\ pc' = next /\ UNCHANGED <<desired, err>>
         \/ "lost" \in FaultKinds /\ ConcludesNothing /\ FailWith(was, "awsOther")
  BY FailWithConcludes DEF Answers, Fault, HandedToOnError

-----------------------------------------------------------------------------
(* UserGroup: the users a group has once the pending changes are through are *)
(* those a pass has read, asked for, or found as they were wanted.           *)

UserGroupTruth ==
  /\ aws.status = "active" => aws.adding = {} /\ aws.removing = {}
  /\ pc = "update" => latest.spec.users = UG!patched(aws)
  /\ Concluding => UG!patched(aws) = desired.spec.users
  /\ pc \in {"readBack", "patchSpec"} /\ ~desired.del => latest.spec = desired.spec

LEMMA UserGroupTruthStep ==
  ASSUME UserGroupType, Shape, Live, LifecycleInv, UserGroupTruth, UG!Next
  PROVE  UserGroupTruth'
<1>1. CASE UG!UserEdit(UG!Specs) \/ UG!UserDelete \/ UG!KindlessStep
           \/ UG!PatchStatusBy(UG!IsSynced) \/ UG!Crash
  <2>1. RuntimeStep
    BY <1>1, UserGroupRuntime DEF RuntimeStep
  <2> QED
    BY <2>1, RuntimeTruth DEF UserGroupTruth, UG!patched
<1>2. CASE UG!AwsProgress \/ UG!AwsAttaches
  <2>1. UNCHANGED <<pc, desired, latest, err>>
    BY <1>2 DEF UG!AwsProgress, UG!AwsSettles, UG!AwsDeleted, UG!ServiceStep, UG!AwsAttaches,
                UG!ctlVars
  <2>2. CASE UG!AwsSettles
    <3>1. UG!patched(aws') = UG!patched(aws) /\ aws'.adding = {} /\ aws'.removing = {}
      BY <2>2 DEF UG!AwsSettles, UG!Group, UG!patched
    <3> QED
      BY <2>1, <3>1 DEF UserGroupTruth, Concluding, Ending
  <2>3. CASE UG!AwsDeleted
    <3>1. desired.del /\ pc # "update" /\ aws'.status = "none"
      BY <2>3 DEF UG!AwsDeleted, UG!ServiceStep, Live, UserGroupType, UG!Groups
    <3> QED
      BY <2>1, <3>1 DEF UserGroupTruth, Concluding
  <2>4. CASE UG!AwsAttaches
    <3>1. UG!patched(aws') = UG!patched(aws) /\ aws'.status = "modifying"
      BY <2>4 DEF UG!AwsAttaches, UG!patched, UserGroupType, UG!Groups
    <3> QED
      BY <2>1, <3>1 DEF UserGroupTruth, Concluding, Ending
  <2> QED
    BY <1>2, <2>2, <2>3, <2>4 DEF UG!AwsProgress
<1>3. ASSUME ConcludesNothing, UNCHANGED aws \/ aws'.status = "deleting"
      PROVE  UserGroupTruth'
  BY <1>3, NothingConcluded DEF ConcludesNothing, UserGroupTruth
<1>4. CASE UG!CreateFails \/ UG!requeueWaitUntilCanModify \/ UG!ModifyUserGroupFails
           \/ UG!ReadOneFails \/ UG!ReadDeleteFails \/ UG!ReadDelete
  <2>1. ConcludesNothing /\ UNCHANGED aws
    BY <1>4, UserGroupInherits, FailuresConclude
    DEF UG!CreateFails, UG!requeueWaitUntilCanModify, UG!ModifyUserGroupFails, UG!ReadDelete,
        HandedToOnError
  <2> QED
    BY <1>3, <2>1
<1>5. CASE UG!Delete
  <2>1. Deletes(aws.status = "active", "deleting")
    BY <1>5, UserGroupInherits DEF UG!Delete
  <2> QED
    BY <1>3, <2>1, FailuresConclude DEF UserGroupType, UG!Groups
<1>6. CASE UG!DeleteFails
  <2>1. DeleteRefused(aws.status = "active", "awsOther")
    BY <1>6, UserGroupInherits DEF UG!DeleteFails
  <2> QED
    BY <1>3, <2>1, FailuresConclude DEF HandedToOnError
<1>7. CASE UG!ReadOne
  <2>1. Observes(UG!sdkFind(desired), UG!newResourceDelta(desired, UG!sdkFind(desired)))
    BY <1>7, UserGroupInherits DEF UG!ReadOne
  <2>2. UG!sdkFind(desired).spec.users = UG!patched(aws)
    BY DEF UG!sdkFind, UG!patchUserGroupPendingChanges
  <2> QED
    BY <2>1, <2>2
    DEF Observes, UG!newResourceDelta, UserGroupTruth, Concluding, Ending, UG!patched
<1>8. CASE UG!ReadBack
  <2>1. ReadsBack(UG!sdkFind(latest))
    BY <1>8, UserGroupInherits DEF UG!ReadBack
  <2>2. latest'.spec = latest.spec /\ pc' = "patchSpec" /\ UNCHANGED <<aws, desired, err>>
    BY <2>1 DEF ReadsBack, UserGroupType, PassType, IsResult
  <2> QED
    BY <2>1, <2>2 DEF ReadsBack, UserGroupTruth, Concluding, Ending
<1>9. CASE UG!Create
  <2>1. desired.spec = [users |-> desired.spec.users]
    BY DEF UserGroupType, PassType, IsCR, UG!Specs
  <2>2. /\ aws' = UG!Group("creating", desired.spec.users)
        /\ Answers(UG!createOutput(desired, aws'), AsLatest(desired), "readBack")
    BY <1>9, UserGroupInherits DEF UG!Create
  <2>3. UG!patched(aws') = desired.spec.users /\ aws'.status = "creating"
        /\ UG!createOutput(desired, aws').spec = desired.spec
    BY <2>1, <2>2 DEF UG!Group, UG!patched, UG!createOutput
  <2> QED
    BY <2>2, <2>3, AnswersConclude, NothingConcluded
    DEF ConcludesNothing, UserGroupTruth, Concluding
<1>10. CASE UG!ModifyUserGroup
  <2>1. desired.spec = [users |-> desired.spec.users]
    BY DEF UserGroupType, PassType, IsCR, UG!Specs
  <2>2. /\ pc = "update" /\ aws.status = "active"
        /\ aws' = [aws EXCEPT !.status = "modifying", !.adding = UG!userIdsToAdd,
                              !.removing = UG!userIdsToRemove]
        /\ Answers(UG!modifyOutput(desired, aws'), latest, "patchSpec")
    BY <1>10, UserGroupInherits DEF UG!ModifyUserGroup
  <2>3. latest.spec.users = aws.users
    BY <2>2 DEF UserGroupTruth, UG!patched
  <2>4. UG!patched(aws') = desired.spec.users /\ aws'.status = "modifying"
    BY <2>2, <2>3
    DEF UserGroupType, UG!Groups, UG!patched, UG!userIdsToAdd, UG!userIdsToRemove
  <2>5. UG!modifyOutput(desired, aws').spec = desired.spec
    BY <2>1, <2>4 DEF UG!modifyOutput, UG!patchUserGroupPendingChanges
  <2> QED
    BY <2>2, <2>4, <2>5, AnswersConclude, NothingConcluded
    DEF ConcludesNothing, UserGroupTruth, Concluding
<1> QED
  BY <1>1, <1>2, <1>4, <1>5, <1>6, <1>7, <1>8, <1>9, <1>10 DEF UG!Next, UG!Controller

-----------------------------------------------------------------------------
(* CacheSubnetGroup: what a pass found as it was wanted, or sent, is there. *)

CacheSubnetGroupTruth ==
  /\ Concluding => CSG!AsSpecified(desired.spec)
  /\ pc \in {"readBack", "patchSpec"} /\ ~desired.del => latest.spec = desired.spec

LEMMA CacheSubnetGroupTruthStep ==
  ASSUME CacheSubnetGroupType, Shape, Live, LifecycleInv, CacheSubnetGroupTruth, CSG!Next
  PROVE  CacheSubnetGroupTruth'
<1>1. CASE CSG!UserEdit(CSG!Specs) \/ CSG!UserDelete \/ CSG!KindlessStep
           \/ CSG!PatchStatus \/ CSG!Crash
  <2>1. RuntimeStep
    BY <1>1, CacheSubnetGroupRuntime DEF RuntimeStep, CSG!PatchStatus
  <2> QED
    BY <2>1, RuntimeTruth DEF CacheSubnetGroupTruth, CSG!AsSpecified
<1>2. ASSUME ConcludesNothing
      PROVE  CacheSubnetGroupTruth'
  BY <1>2, NothingConcluded DEF ConcludesNothing, CacheSubnetGroupTruth
<1>3. CASE CSG!CreateFails \/ CSG!ModifyCacheSubnetGroupFails
           \/ CSG!ReadOneFails \/ CSG!ReadDeleteFails \/ CSG!ReadDelete
  <2>1. ConcludesNothing
    BY <1>3, CacheSubnetGroupInherits, FailuresConclude
    DEF CSG!CreateFails, CSG!ModifyCacheSubnetGroupFails, CSG!ReadDelete, HandedToOnError
  <2> QED
    BY <1>2, <2>1
<1>4. CASE CSG!Delete
  <2>1. Deletes(aws.status = "live", "none")
    BY <1>4, CacheSubnetGroupInherits DEF CSG!Delete
  <2> QED
    BY <1>2, <2>1, FailuresConclude
<1>5. CASE CSG!DeleteFails
  <2>1. DeleteRefused(aws.status = "live", "awsOther")
    BY <1>5, CacheSubnetGroupInherits DEF CSG!DeleteFails
  <2> QED
    BY <1>2, <2>1, FailuresConclude DEF HandedToOnError
<1>6. CASE CSG!ReadOne
  <2>1. Observes(CSG!sdkFind(desired), CSG!newResourceDelta(desired, CSG!sdkFind(desired)))
    BY <1>6, CacheSubnetGroupInherits DEF CSG!ReadOne
  <2>2. aws.status = "live"
    BY <2>1 DEF Observes, CacheSubnetGroupType
  <2>3. CSG!sdkFind(desired).spec = [description |-> aws.description, subnets |-> aws.subnets]
    BY DEF CSG!sdkFind
  <2> QED
    BY <2>1, <2>2, <2>3
    DEF Observes, CSG!newResourceDelta, CSG!AsSpecified, CacheSubnetGroupTruth, Concluding, Ending
<1>7. CASE CSG!ReadBack
  <2>1. ReadsBack(CSG!sdkFind(latest))
    BY <1>7, CacheSubnetGroupInherits DEF CSG!ReadBack
  <2>2. latest'.spec = latest.spec /\ pc' = "patchSpec" /\ UNCHANGED <<aws, desired, err>>
    BY <2>1 DEF ReadsBack, CacheSubnetGroupType, PassType, IsResult
  <2> QED
    BY <2>1, <2>2 DEF ReadsBack, CacheSubnetGroupTruth, Concluding, Ending, CSG!AsSpecified
<1>8. CASE CSG!Create \/ CSG!ModifyCacheSubnetGroup
  <2>1. desired.spec \in [description : Descriptions, subnets : SUBSET Subnets]
    BY DEF CacheSubnetGroupType, PassType, IsCR, CSG!Specs
  <2>2. /\ \E was : \/ Answers(CSG!callOutput(desired, aws'), was, "readBack")
                    \/ Answers(CSG!callOutput(desired, aws'), was, "patchSpec")
        /\ aws'.status = "live" /\ aws'.description = desired.spec.description
        /\ (aws'.subnets = desired.spec.subnets \/ desired.spec.subnets = {})
    <3>1. CASE CSG!Create
      BY <3>1, CacheSubnetGroupInherits DEF CSG!Create
    <3>2. CASE CSG!ModifyCacheSubnetGroup
      <4>1. Answers(CSG!callOutput(desired, aws'), latest, "patchSpec")
        BY <3>2, CacheSubnetGroupInherits DEF CSG!ModifyCacheSubnetGroup
      <4>2. /\ pc = "update"
            /\ aws' = [aws EXCEPT !.description = desired.spec.description,
                                  !.subnets = IF desired.spec.subnets = {} THEN @
                                              ELSE desired.spec.subnets]
        BY <3>2 DEF CSG!ModifyCacheSubnetGroup
      <4>3. aws.status = "live"
        BY <4>2 DEF CacheSubnetGroupType, Live
      <4> QED
        BY <4>1, <4>2, <4>3 DEF CacheSubnetGroupType
    <3> QED
      BY <1>8, <3>1, <3>2
  <2>3. CSG!callOutput(desired, aws').spec = desired.spec
    BY <2>1, <2>2 DEF CSG!callOutput
  <2> QED
    BY <1>2, <2>2, <2>3, AnswersConclude DEF CacheSubnetGroupTruth, CSG!AsSpecified
<1> QED
  BY <1>1, <1>3, <1>4, <1>5, <1>6, <1>7, <1>8 DEF CSG!Next, CSG!Controller

-----------------------------------------------------------------------------
(* Snapshot: Synced is as the state was when it was read. *)

SnapshotTruth ==
  Concluding \/ pc = "update" =>
    /\ latest.cond.synced \in {"True", "False"}
    /\ latest.cond.synced = "True" => aws.status # "creating"

(* The success of a call does not touch Synced. *)
LEMMA SyncedStays ==
  ASSUME NEW c \in Conds
  PROVE  onSuccess(c).synced = c.synced
  BY DEF onSuccess, updateConditions, terminalAWSError, Conds

LEMMA SnapshotSynced ==
  ASSUME NEW r, r.cond \in Conds
  PROVE  /\ S!conditions(r, "none").synced = r.cond.synced
         /\ S!customSetOutput(r).cond.synced = S!customSetSynced(aws.status)
  BY DEF S!conditions, S!CustomUpdateConditions, S!updateConditions, S!terminalAWSError,
         S!customSetOutput, Conds

LEMMA SnapshotTruthStep ==
  ASSUME SnapshotType, Shape, Live, LifecycleInv, SnapshotTruth, S!Next
  PROVE  SnapshotTruth'
<1>1. CASE S!UserEdit(S!Specs) \/ S!UserDelete \/ S!KindlessStep \/ S!PatchStatus \/ S!Crash
  <2>1. RuntimeStep
    BY <1>1, SnapshotRuntime DEF RuntimeStep, S!PatchStatus
  <2> QED
    BY <2>1, RuntimeTruth DEF SnapshotTruth
<1>2. CASE S!AwsProgress \/ S!AwsCreateFails
  <2>1. UNCHANGED <<pc, desired, latest, err>> /\ aws'.status # "creating"
    BY <1>2
    DEF S!AwsProgress, S!AwsSettles, S!AwsDeleted, S!AwsCreateFails, S!ServiceStep, S!ctlVars,
        SnapshotType
  <2> QED
    BY <2>1 DEF SnapshotTruth, Concluding, Ending
<1>3. ASSUME ConcludesNothing
      PROVE  SnapshotTruth'
  BY <1>3, NothingConcluded DEF ConcludesNothing, SnapshotTruth
<1>4. CASE S!RefuseSources \/ S!CreateFails
  BY <1>3, <1>4, SnapshotInherits, FailuresConclude
  DEF S!RefuseSources, S!CreateFails, HandedToOnError
<1>5. CASE S!FindFails \/ S!FindDoomedFails
  <2>1. S!onErrorErr(desired, "awsOther") # "none"
    BY DEF S!onErrorErr
  <2>2. ConcludesNothing
    BY <1>5, <2>1 DEF S!FindFails, S!FindDoomedFails, ConcludesNothing
  <2> QED
    BY <1>3, <2>2
<1>6. CASE S!Delete \/ S!DeleteFails
  <2>1. ConcludesNothing
    BY <1>6 DEF S!Delete, S!DeleteFails, S!DeleteDone, S!DeleteReturnsLatest, ConcludesNothing,
                LifecycleInv, DeletesOnRequest
  <2> QED
    BY <1>3, <2>1
<1>7. CASE S!ReadDelete
  BY <1>3, <1>7, SnapshotInherits, FailuresConclude DEF S!ReadDelete
<1>8. CASE S!ReadOne
  <2>1. PICK differs : Observes(S!customSetOutput(desired), differs)
    BY <1>8, SnapshotInherits DEF S!ReadOne
  <2>2. S!customSetOutput(desired).cond.synced = S!customSetSynced(aws.status)
    BY SnapshotSynced DEF Shape, IsCR
  <2> QED
    BY <2>1, <2>2 DEF Observes, S!customSetSynced, SnapshotTruth
<1>9. CASE S!ReadBack
  <2>1. ReadsBack(S!customSetOutput(latest))
    BY <1>9, SnapshotInherits DEF S!ReadBack
  <2>2. S!customSetOutput(latest).cond.synced = S!customSetSynced(aws.status)
    BY SnapshotSynced DEF Shape
  <2>3. latest'.cond = S!customSetOutput(latest).cond /\ UNCHANGED aws
    BY <2>1 DEF ReadsBack, SnapshotType, PassType, IsResult
  <2> QED
    BY <2>2, <2>3 DEF S!customSetSynced, SnapshotTruth
<1>10. CASE S!CopySnapshot \/ S!CreateSnapshot
  <2>1. PICK cluster : S!Created(cluster)
    BY <1>10 DEF S!CopySnapshot, S!CreateSnapshot
  <2> DEFINE cond == S!onSuccess([desired.cond EXCEPT !.synced = S!customSetSynced("creating")])
             r == [spec |-> [desired.spec EXCEPT !.cluster = cluster], ann |-> desired.ann,
                   status |-> "creating", cond |-> cond]
  <2>2. cond.synced = "False"
    BY DEF S!onSuccess, S!updateConditions, S!terminalAWSError, S!customSetSynced, Conds,
           Shape, IsCR
  <2>3. Answers(r, AsLatest(desired), "readBack")
    BY <2>1, SnapshotInherits DEF S!Created
  <2> QED
    BY <1>3, <2>2, <2>3, AnswersConclude DEF SnapshotTruth
<1>11. CASE S!customUpdateSnapshot
  <2>1. /\ pc = "update" /\ UNCHANGED aws
        /\ latest' = [latest EXCEPT !.cond = S!conditions(latest, "none")]
    BY <1>11 DEF S!customUpdateSnapshot
  <2>2. latest'.cond.synced = latest.cond.synced
    BY <2>1, SnapshotSynced DEF Shape
  <2> QED
    BY <2>1, <2>2 DEF SnapshotTruth
<1> QED
  BY <1>1, <1>2, <1>4, <1>5, <1>6, <1>7, <1>8, <1>9, <1>10, <1>11 DEF S!Next, S!Controller

-----------------------------------------------------------------------------
(* ServerlessCacheSnapshot: the tags a pass ends with are those wanted, or   *)
(* they were not read of a snapshot that is not available.                   *)

ServerlessCacheSnapshotTruth ==
  /\ Concluding \/ pc = "update" => latest.cond.synced # "True"
  /\ pc = "update" /\ latest.status = "available" => latest.spec.tags = aws.tags
  /\ pc = "readBack" => aws.tags = desired.spec.tags
  /\ Concluding => \/ aws.tags = desired.spec.tags
                   \/ latest.status \notin {"available", "create_failed"}
                   \/ aws.status = "create_failed"

LEMMA ServerlessCacheSnapshotTruthStep ==
  ASSUME ServerlessCacheSnapshotType, Shape, Live, LifecycleInv, Fresh,
         ServerlessCacheSnapshotTruth, SCS!Next
  PROVE  ServerlessCacheSnapshotTruth'
<1>1. CASE SCS!UserEdit(SCS!Specs) \/ SCS!UserDelete \/ SCS!KindlessStep
           \/ SCS!PatchStatusBy(SCS!IsSynced) \/ SCS!Crash
  <2>1. RuntimeStep
    BY <1>1, ServerlessCacheSnapshotRuntime DEF RuntimeStep
  <2> QED
    BY <2>1, RuntimeTruth DEF ServerlessCacheSnapshotTruth
<1>2. CASE SCS!AwsProgress \/ SCS!AwsCreateFails
  <2>1. /\ UNCHANGED <<pc, desired, latest, err>> /\ aws'.tags = aws.tags
        /\ aws.status = "create_failed" => FALSE
    BY <1>2
    DEF SCS!AwsProgress, SCS!AwsSettles, SCS!AwsDeleted, SCS!AwsCreateFails, SCS!ServiceStep,
        SCS!ctlVars, ServerlessCacheSnapshotType
  <2> QED
    BY <2>1 DEF ServerlessCacheSnapshotTruth, Concluding, Ending
<1>3. ASSUME ConcludesNothing
      PROVE  ServerlessCacheSnapshotTruth'
  BY <1>3, NothingConcluded DEF ConcludesNothing, ServerlessCacheSnapshotTruth
<1>4. CASE SCS!CreateFails \/ SCS!WaitUntilCanModify \/ SCS!syncTagsFails
           \/ SCS!ReadOneFails \/ SCS!ReadDeleteFails \/ SCS!ReadDelete
  BY <1>3, <1>4, ServerlessCacheSnapshotInherits, FailuresConclude
  DEF SCS!CreateFails, SCS!WaitUntilCanModify, SCS!syncTagsFails, SCS!ReadDelete,
      HandedToOnError
<1>5. CASE SCS!Delete
  <2>1. Deletes(SCS!Deletable, "deleting")
    BY <1>5, ServerlessCacheSnapshotInherits DEF SCS!Delete
  <2> QED
    BY <1>3, <2>1, FailuresConclude
<1>6. CASE SCS!DeleteFails
  <2>1. DeleteRefused(SCS!Deletable, "awsOther")
    BY <1>6, ServerlessCacheSnapshotInherits DEF SCS!DeleteFails
  <2> QED
    BY <1>3, <2>1, FailuresConclude DEF HandedToOnError
<1>7. CASE SCS!syncTags
  <2>1. \E e \in HandedToOnError : FailWith(AsLatest(desired), e)
    BY <1>7, ServerlessCacheSnapshotInherits DEF SCS!syncTags, HandedToOnError
  <2> QED
    BY <1>3, <2>1, FailWithConcludes
<1>8. CASE SCS!ReadOne
  <2>1. /\ pc = "read" /\ UNCHANGED <<aws, desired>> /\ latest' = SCS!sdkFind(desired)
        /\ pc' = IF desired.spec # latest'.spec THEN "update" ELSE "lateInit"
    <3>1. Observes(SCS!sdkFind(desired), SCS!newResourceDelta(desired, SCS!sdkFind(desired)))
      BY <1>8, ServerlessCacheSnapshotInherits DEF SCS!ReadOne
    <3> QED
      BY <3>1 DEF Observes, SCS!newResourceDelta
  <2>2. /\ latest'.status = aws.status /\ latest'.cond = onSuccess(desired.cond)
        /\ latest'.spec.tags = IF aws.status = "available" THEN aws.tags ELSE desired.spec.tags
    BY <2>1, ServerlessCacheSnapshotInherits DEF SCS!sdkFind
  <2>3. latest'.cond.synced # "True"
    BY <2>1, <2>2 DEF Fresh, NoConds, onSuccess, updateConditions, terminalAWSError
  <2> QED
    BY <2>1, <2>2, <2>3 DEF ServerlessCacheSnapshotTruth, Concluding, Ending
<1>9. CASE SCS!ReadBack
  <2>1. ReadsBack(SCS!sdkFind(latest))
    BY <1>9, ServerlessCacheSnapshotInherits DEF SCS!ReadBack
  <2>2. /\ pc = "readBack" /\ pc' = "patchSpec" /\ UNCHANGED <<aws, desired, err>>
        /\ latest'.cond = onSuccess(latest.cond)
    BY <2>1, ServerlessCacheSnapshotInherits
    DEF ReadsBack, SCS!sdkFind, ServerlessCacheSnapshotType, PassType, IsResult
  <2>3. latest'.cond.synced = latest.cond.synced
    BY <2>2, SyncedStays DEF Shape
  <2> QED
    BY <2>2, <2>3 DEF ServerlessCacheSnapshotTruth, Concluding, Ending
<1>10. CASE SCS!Create
  <2>1. /\ aws'.tags = desired.spec.tags
        /\ Answers(SCS!createOutput(desired), AsLatest(desired), "readBack")
        /\ pc = "create"
    BY <1>10, ServerlessCacheSnapshotInherits DEF SCS!Create
  <2>2. SCS!createOutput(desired).cond.synced # "True"
    <3>1. desired.cond = NoConds
      BY <2>1 DEF Fresh
    <3> DEFINE c == IF DOMAIN desired.spec.tags # {} THEN [desired.cond EXCEPT !.synced = "False"]
                    ELSE desired.cond
    <3>2. c \in Conds /\ c.synced # "True"
      BY <3>1 DEF NoConds, Conds, CondStatus
    <3>3. SCS!createOutput(desired).cond = onSuccess(c)
      BY ServerlessCacheSnapshotInherits DEF SCS!createOutput
    <3> QED
      BY <3>2, <3>3, SyncedStays
  <2> QED
    BY <1>3, <2>1, <2>2, AnswersConclude DEF ServerlessCacheSnapshotTruth
<1>11. CASE SCS!TakeBack
  <2>1. /\ pc = "update" /\ latest.status = "available" /\ UNCHANGED <<aws, desired, err>>
        /\ desired.spec.tags = latest.spec.tags /\ pc' = "patchSpec"
        /\ latest' = [latest EXCEPT !.cond = onSuccess(@)]
    BY <1>11, ServerlessCacheSnapshotInherits
    DEF SCS!TakeBack, SCS!isServerlessCacheSnapshotAvailable, SCS!TagsDiffer
  <2>2. latest'.cond.synced = latest.cond.synced
    BY <2>1, SyncedStays DEF Shape
  <2> QED
    BY <2>1, <2>2 DEF ServerlessCacheSnapshotTruth
<1> QED
  BY <1>1, <1>2, <1>4, <1>5, <1>6, <1>7, <1>8, <1>9, <1>10, <1>11
  DEF SCS!Next, SCS!Controller

-----------------------------------------------------------------------------
(* ServerlessCache: a pass that changes something ends with an error, and one *)
(* that does not has found what it wants, the tags as far as it has read them.*)
(* A choice of the service is on its way to the spec while nobody edits it.   *)

TagsWereRead == faults = 0 \/ "read" \notin FaultKinds

FoundAsWanted ==
  Concluding => /\ aws.desc = desired.spec.desc
                /\ aws.limit = desired.spec.limit
                /\ TagsWereRead => aws.tags = desired.spec.tags
                /\ desired.spec.subnets \in {None, aws.subnets}

ChoiceStored ==
  edits = 0 =>
    /\ pc \in {"read", "manage", "create"} => cr.spec.subnets = desired.spec.subnets
    /\ pc \in {"readBack", "patchSpec"} /\ ~desired.del =>
         /\ cr.fin
         /\ cr.spec.subnets = desired.spec.subnets /\ latest.spec.subnets = aws.subnets
    /\ pc \in {"lateInit", "patchStatus"} /\ err = "none" /\ ~desired.del =>
         cr.spec.subnets = aws.subnets

ServerlessCacheTruth == FoundAsWanted /\ ChoiceStored

(* The steps of the user and of the runtime: an edit ends what is promised, *)
(* and a patch stores what latest has of the subnets.                       *)
LEMMA ChoiceStoredStep ==
  ASSUME CommonType, ServerlessCacheType, Shape, Live, LifecycleInv, ChoiceStored, RuntimeStep
  PROVE  ChoiceStored'
<1> USE DEF ChoiceStored, Shape, IsCR
<1>1. edits \in Nat
  BY DEF CommonType
<1>2. CASE \E specs : UserEdit(specs)
  BY <1>1, <1>2 DEF UserEdit
<1>3. CASE UserDelete
  BY <1>3 DEF UserDelete, ctlVars
<1>4. CASE Fetch
  BY <1>4 DEF Fetch
<1>5. CASE Manage
  BY <1>5 DEF Manage
<1>6. CASE PatchSpec
  <2>1. "subnets" \in DOMAIN cr.spec
    BY DEF ServerlessCacheType, PassType, SC!Specs
  <2>2. CASE cr.exists
    <3>1. cr'.spec = Patch(cr.spec, desired.spec, latest.spec)
      BY <1>6, <2>2 DEF PatchSpec
    <3>2. cr'.spec.subnets = IF desired.spec.subnets # latest.spec.subnets
                             THEN latest.spec.subnets ELSE cr.spec.subnets
      BY <2>1, <3>1 DEF Patch
    <3> QED
      BY <1>6, <3>2 DEF PatchSpec
  <2>3. CASE ~cr.exists
    BY <1>6, <2>3 DEF PatchSpec, LifecycleInv, FinalizerHolds
  <2> QED
    BY <2>2, <2>3
<1>7. CASE \/ FetchGone \/ ReadOneNotFound \/ ReadBackFails \/ LateInitialize
           \/ ReadDeleteNotFound \/ Unmanage
  BY <1>7 DEF FetchGone, ReadOneNotFound, ReadBackFails, LateInitialize, ReadDeleteNotFound,
              Unmanage, crVars, ctlVars
<1>8. CASE (\E isSynced : PatchStatusBy(isSynced)) \/ Crash
  BY <1>8 DEF PatchStatusBy, Crash
<1> QED
  BY <1>2, <1>3, <1>4, <1>5, <1>6, <1>7, <1>8 DEF RuntimeStep, KindlessStep

LEMMA ServerlessCacheTruthStep ==
  ASSUME CommonType, ServerlessCacheType, Shape, Live, LifecycleInv, ServerlessCacheTruth, SC!Next
  PROVE  ServerlessCacheTruth'
<1> USE DEF ServerlessCacheTruth
<1>0. /\ edits' = 0 => edits = 0
      /\ TagsWereRead' => TagsWereRead
  BY ServerlessCacheStep DEF CommonType, Counts, TagsWereRead
<1>1. CASE SC!UserEdit(SC!Specs) \/ SC!UserDelete \/ SC!KindlessStep
           \/ SC!PatchStatusBy(SC!IsSynced) \/ SC!Crash
  <2>1. RuntimeStep
    BY <1>1, ServerlessCacheRuntime DEF RuntimeStep
  <2>2. FoundAsWanted'
    BY <1>0, <2>1, RuntimeTruth DEF FoundAsWanted
  <2> QED
    BY <2>1, <2>2, ChoiceStoredStep
<1>2. CASE SC!AwsProgress \/ SC!AwsCreateFails
  <2>1. /\ UNCHANGED <<cr, pc, desired, latest, err>>
        /\ aws'.desc = aws.desc /\ aws'.limit = aws.limit /\ aws'.subnets = aws.subnets
        /\ aws'.tags = aws.tags
    BY <1>2
    DEF SC!AwsProgress, SC!AwsSettles, SC!AwsDeleted, SC!AwsCreateFails, SC!ServiceStep,
        SC!ctlVars, SC!crVars, ServerlessCacheType
  <2>2. FoundAsWanted'
    BY <1>0, <2>1 DEF FoundAsWanted, Concluding, Ending
  <2> QED
    BY <1>0, <2>1, <2>2 DEF ChoiceStored
<1>3. ASSUME ConcludesNothing
      PROVE  ServerlessCacheTruth'
  BY <1>3, NothingConcluded DEF ConcludesNothing, FoundAsWanted, ChoiceStored
<1>4. CASE SC!RefuseLimit \/ SC!CreateFails \/ SC!WaitWhileUnsettled \/ SC!syncTagsFails
           \/ SC!NothingToSend \/ SC!ReadOneFails \/ SC!ReadDeleteFails \/ SC!ReadDelete
  <2>1. \/ \E r : \E e \in HandedToOnError : \/ GivesUp(r, e)
                                           \/ \E valid : Refused(valid, e, r)
        \/ ReadOneFails \/ ReadDeleteFails \/ \E r : ObservesDoomed(r)
    <3>1. CASE SC!RefuseLimit
      BY <3>1, ServerlessCacheInherits DEF SC!RefuseLimit, HandedToOnError
    <3>2. CASE SC!WaitWhileUnsettled
      BY <3>2, ServerlessCacheInherits DEF SC!WaitWhileUnsettled, HandedToOnError
    <3>3. CASE SC!NothingToSend
      BY <3>3, ServerlessCacheInherits DEF SC!NothingToSend, HandedToOnError
    <3>4. CASE SC!CreateFails
      <4>1. Refused(TRUE, "awsOther", AsLatest(desired))
        BY <3>4, ServerlessCacheInherits DEF SC!CreateFails
      <4> QED
        BY <4>1 DEF HandedToOnError
    <3>5. CASE SC!syncTagsFails
      <4>1. Refused(aws.status = "available", "awsOther", AsLatest(desired))
        BY <3>5, ServerlessCacheInherits DEF SC!syncTagsFails
      <4> QED
        BY <4>1 DEF HandedToOnError
    <3>6. CASE SC!ReadOneFails \/ SC!ReadDeleteFails \/ SC!ReadDelete
      BY <3>6, ServerlessCacheInherits DEF SC!ReadDelete
    <3> QED
      BY <1>4, <3>1, <3>2, <3>3, <3>4, <3>5, <3>6
  <2> QED
    BY <1>3, <2>1, FailuresConclude
<1>5. CASE SC!Delete
  <2>1. Deletes(SC!Deletable, "deleting")
    BY <1>5, ServerlessCacheInherits DEF SC!Delete
  <2> QED
    BY <1>3, <2>1, FailuresConclude
<1>6. CASE SC!DeleteFails
  <2>1. DeleteRefused(SC!Deletable, "awsOther")
    BY <1>6, ServerlessCacheInherits DEF SC!DeleteFails
  <2> QED
    BY <1>3, <2>1, FailuresConclude DEF HandedToOnError
<1>7. CASE \/ SC!syncDescription \/ SC!syncSnapshotRetentionLimit \/ SC!syncTags
           \/ SC!RefusedByService
  <2>1. \E r : \E e \in HandedToOnError : FailWith(r, e)
    BY <1>7, ServerlessCacheInherits
    DEF SC!syncDescription, SC!syncSnapshotRetentionLimit, SC!syncTags, SC!Modifies,
        SC!RefusedByService, SC!ModificationFails, HandedToOnError
  <2> QED
    BY <1>3, <2>1, FailWithConcludes
<1>8. CASE SC!ReadOne \/ SC!ReadOneTagsUnread
  <2>1. PICK tags : /\ latest' = SC!found(desired, tags) /\ UNCHANGED <<cr, aws, desired>>
                    /\ pc = "read"
                    /\ pc' = IF SC!newResourceDelta(desired, latest') # {} THEN "update"
                             ELSE "lateInit"
                    /\ TagsWereRead' => tags = aws.tags
    <3>1. CASE SC!ReadOne
      <4>1. Observes(SC!sdkFind(desired), SC!newResourceDelta(desired, SC!sdkFind(desired)) # {})
        BY <3>1, ServerlessCacheInherits DEF SC!ReadOne
      <4> QED
        BY <4>1 DEF Observes, SC!sdkFind, crVars
    <3>2. CASE SC!ReadOneTagsUnread
      <4>1. "read" \in FaultKinds /\ faults' # 0
        BY <3>2 DEF SC!ReadOneTagsUnread, SC!Fault, CommonType
      <4> QED
        BY <3>2, <4>1 DEF SC!ReadOneTagsUnread, SC!sdkFindTagsUnread, SC!crVars, TagsWereRead
    <3> QED
      BY <1>8, <3>1, <3>2
  <2>2. /\ latest'.spec.desc = aws.desc /\ latest'.spec.limit = aws.limit
        /\ latest'.spec.subnets = aws.subnets /\ latest'.spec.tags = tags
    BY <2>1 DEF SC!found
  <2>3. pc' = "lateInit" => /\ aws.desc = desired.spec.desc /\ aws.limit = desired.spec.limit
                            /\ aws.subnets = desired.spec.subnets /\ tags = desired.spec.tags
    BY <2>1, <2>2 DEF SC!newResourceDelta
  <2>4. FoundAsWanted'
    BY <2>1, <2>3 DEF FoundAsWanted, Concluding, Ending
  <2> QED
    BY <1>0, <2>1, <2>3, <2>4 DEF ChoiceStored
<1>9. CASE SC!ReadBack
  <2>1. ReadsBack(SC!sdkFind(latest))
    BY <1>9, ServerlessCacheInherits DEF SC!ReadBack
  <2>2. /\ pc = "readBack" /\ pc' = "patchSpec" /\ UNCHANGED <<cr, aws, desired, err>>
        /\ latest'.spec = latest.spec
    BY <2>1 DEF ReadsBack, ServerlessCacheType, PassType, IsResult, crVars
  <2>3. FoundAsWanted'
    BY <1>0, <2>2 DEF FoundAsWanted, Concluding, Ending
  <2> QED
    BY <1>0, <2>2, <2>3 DEF ChoiceStored
<1>10. CASE SC!Create
  <2>1. /\ aws'.desc = desired.spec.desc /\ aws'.limit = desired.spec.limit
        /\ aws'.tags = desired.spec.tags /\ desired.spec.subnets \in {None, aws'.subnets}
        /\ Answers(SC!createOutput(desired), AsLatest(desired), "readBack")
        /\ pc = "create" /\ UNCHANGED cr
    BY <1>10, ServerlessCacheInherits DEF SC!Create, SC!crVars
  <2>2. SC!createOutput(desired).spec.subnets = aws'.subnets
    BY DEF SC!createOutput
  <2>3. CASE /\ latest' = SC!createOutput(desired) /\ pc' = "readBack"
             /\ UNCHANGED <<desired, err>>
    <3>1. FoundAsWanted'
      BY <2>1, <2>3 DEF FoundAsWanted
    <3>2. ChoiceStored'
      BY <1>0, <2>1, <2>2, <2>3
      DEF ChoiceStored, LifecycleInv, CreatesBehindFinalizer
    <3> QED
      BY <3>1, <3>2
  <2> QED
    BY <1>3, <2>1, <2>3, AnswersConclude
<1> QED
  BY <1>1, <1>2, <1>4, <1>5, <1>6, <1>7, <1>8, <1>9, <1>10 DEF SC!Next, SC!Controller

-----------------------------------------------------------------------------
(* User: what a pass ends with is of the type asked for, and Synced only if *)
(* the service said it was active.                                          *)

UserTruth ==
  /\ aws.status # "none" => aws.access.expanded /\ aws.type # "no-password-required"
  /\ pc = "update" => latest.spec = [access |-> aws.access, type |-> aws.type]
  /\ Concluding => /\ aws.type = U!answeredType(desired.spec.type)
                   /\ latest.cond.synced \in {"True", "False"}
                   /\ latest.cond.synced = "True" => aws.status = "active"

(* Synced says whether the user was active when it was answered or read. *)
LEMMA UserSynced ==
  ASSUME Shape
  PROVE  /\ U!sdkFind(desired).cond.synced = U!setSyncedCondition(aws.status)
         /\ U!sdkFind(latest).cond.synced = U!setSyncedCondition(aws.status)
         /\ \A user : U!callOutput(desired, user).cond.synced = U!setSyncedCondition(user.status)
<1>1. \A c \in Conds : \A state :
        onSuccess([c EXCEPT !.synced = U!setSyncedCondition(state)]).synced
          = U!setSyncedCondition(state)
  BY SyncedStays DEF Conds, CondStatus, U!setSyncedCondition
<1> QED
  BY <1>1, UserInherits DEF Shape, IsCR, U!sdkFind, U!callOutput

LEMMA UserTruthStep ==
  ASSUME UserType, Shape, Live, LifecycleInv, UserTruth, U!Next
  PROVE  UserTruth'
<1>1. CASE U!UserEdit(U!Edited) \/ U!UserDelete \/ U!KindlessStep \/ U!PatchStatus \/ U!Crash
  <2>1. RuntimeStep
    BY <1>1, UserRuntime DEF RuntimeStep, U!PatchStatus
  <2> QED
    BY <2>1, RuntimeTruth DEF UserTruth
<1>2. CASE U!AwsProgress
  <2>1. /\ UNCHANGED <<pc, desired, latest, err>>
        /\ aws'.access = aws.access /\ aws'.type = aws.type
        /\ aws'.status # "none" => aws.status # "none"
        /\ aws.status = "active" => aws'.status = "active"
    BY <1>2 DEF U!AwsProgress, U!AwsSettles, U!AwsDeleted, U!ServiceStep, U!ctlVars, UserType
  <2> QED
    BY <2>1 DEF UserTruth, Concluding, Ending
<1>3. ASSUME ConcludesNothing, UNCHANGED aws \/ aws' = [aws EXCEPT !.status = "deleting"],
             aws'.status # "none" => aws.status # "none"
      PROVE  UserTruth'
  BY <1>3, NothingConcluded DEF ConcludesNothing, UserTruth, UserType
<1>4. CASE U!CreateFails \/ U!ModifyWaits \/ U!ModifyUserFails
           \/ U!ReadOneFails \/ U!ReadDeleteFails \/ U!ReadDelete
  <2>1. ConcludesNothing /\ UNCHANGED aws
    BY <1>4, UserInherits, FailuresConclude
    DEF U!CreateFails, U!ModifyWaits, U!ModifyUserFails, U!ReadDelete, HandedToOnError
  <2> QED
    BY <1>3, <2>1
<1>5. CASE U!Delete
  <2>1. Deletes(aws.status = "active", "deleting")
    BY <1>5, UserInherits DEF U!Delete
  <2> QED
    BY <1>3, <2>1, FailuresConclude DEF Deletes
<1>6. CASE U!DeleteFails
  <2>1. DeleteRefused(aws.status = "active", "awsTerminal")
    BY <1>6, UserInherits DEF U!DeleteFails
  <2> QED
    BY <1>3, <2>1, FailuresConclude DEF HandedToOnError
<1>7. CASE U!ReadOne
  <2>1. Observes(U!sdkFind(desired), U!newResourceDelta(desired, U!sdkFind(desired)) # {})
    BY <1>7, UserInherits DEF U!ReadOne
  <2>2. U!sdkFind(desired).spec = [access |-> aws.access, type |-> aws.type]
    BY DEF U!sdkFind
  <2>3. CASE pc' = "update"
    BY <2>1, <2>2, <2>3 DEF Observes, UserTruth, Concluding, Ending
  <2>4. CASE U!newResourceDelta(desired, U!sdkFind(desired)) = {}
    <3>1. desired.spec.type = aws.type
      BY <2>2, <2>4 DEF U!newResourceDelta
    <3>2. aws.type = U!answeredType(desired.spec.type)
      BY <2>1, <3>1 DEF Observes, UserTruth, U!answeredType
    <3> QED
      BY <2>1, <2>4, <3>2, UserSynced DEF Observes, U!setSyncedCondition, UserTruth
  <2> QED
    BY <2>1, <2>3, <2>4 DEF Observes
<1>8. CASE U!ReadBack
  <2>1. ReadsBack(U!sdkFind(latest))
    BY <1>8, UserInherits DEF U!ReadBack
  <2>2. /\ latest'.cond = U!sdkFind(latest).cond
        /\ pc = "readBack" /\ pc' = "patchSpec" /\ UNCHANGED <<aws, desired, err>>
    BY <2>1 DEF ReadsBack, UserType, PassType, IsResult
  <2> QED
    BY <2>2, UserSynced DEF U!setSyncedCondition, UserTruth, Concluding, Ending
<1>9. CASE U!Create \/ U!ModifyUser
  <2>1. \E was : \/ Answers(U!callOutput(desired, aws'), was, "readBack")
                 \/ Answers(U!callOutput(desired, aws'), was, "patchSpec")
    BY <1>9, UserInherits DEF U!Create, U!ModifyUser
  <2>2. /\ aws'.type = U!answeredType(desired.spec.type)
        /\ aws'.access.expanded
    <3>1. CASE U!Create
      BY <3>1 DEF U!Create, U!expanded, UserType, PassType, IsCR, U!Specs, U!AccessStrings
    <3>2. CASE U!ModifyUser
      BY <3>2 DEF U!ModifyUser, U!expanded, UserTruth, Live, UserType, PassType, IsCR,
                  U!Specs, U!AccessStrings
    <3> QED
      BY <1>9, <3>1, <3>2
  <2>3. aws'.type # "no-password-required"
    BY <2>2 DEF U!answeredType
  <2>4. U!callOutput(desired, aws').cond.synced = U!setSyncedCondition(aws'.status)
    BY UserSynced
  <2> QED
    BY <2>1, <2>2, <2>3, <2>4, AnswersConclude, NothingConcluded
    DEF ConcludesNothing, UserTruth, U!setSyncedCondition
<1> QED
  BY <1>1, <1>2, <1>4, <1>5, <1>6, <1>7, <1>8, <1>9 DEF U!Next, U!Controller

(* The access string a status records as last requested is the one in force. *)
Recorded(last) == aws.status # "none" /\ last # None => aws.access = U!expanded(last)

UserRecords ==
  /\ pc = "idle" /\ cr.exists /\ ~cr.del => Recorded(cr.status.last)
  /\ pc \in {"read", "update"} => Recorded(desired.status.last)
  /\ (pc = "update" \/ Ending) /\ ~desired.del => Recorded(latest.status.last)
  /\ Concluding => aws.access = U!expanded(desired.spec.access)

(* Where filterDelta finds no difference, the string wanted is in force. *)
LEMMA NoDifferenceInAccess ==
  ASSUME UserType, aws.status # "none", UserTruth, Recorded(desired.status.last), NEW l,
         l.spec = [access |-> aws.access, type |-> aws.type],
         "access" \notin U!newResourceDelta(desired, l)
  PROVE  aws.access = U!expanded(desired.spec.access)
<1>1. desired.spec.access \in U!AccessStrings
  BY DEF UserType, PassType, IsCR, U!Specs
<1>2. desired.spec.access # None
  BY <1>1, KindsAssumption
<1>3. desired.spec.access = aws.access \/ desired.spec.access = desired.status.last
  BY DEF U!newResourceDelta
<1>4. U!expanded(aws.access) = aws.access
  BY DEF UserTruth, UserType, U!AccessStrings, U!expanded
<1> QED
  BY <1>2, <1>3, <1>4 DEF Recorded

LEMMA UserRecordsStep ==
  ASSUME NothingLost, UserType, Shape, Live, LifecycleInv, UserTruth, UserRecords, U!Next
  PROVE  UserRecords'
<1>1. CASE U!UserEdit(U!Edited) \/ U!UserDelete \/ U!KindlessStep \/ U!PatchStatus \/ U!Crash
  <2>1. RuntimeStep
    BY <1>1, UserRuntime DEF RuntimeStep, U!PatchStatus
  <2>2. ASSUME pc' = "idle", cr'.exists, ~cr'.del
        PROVE  Recorded(cr'.status.last)
    <3>1. CASE U!UserEdit(U!Edited) \/ U!UserDelete
      BY <2>2, <3>1, UserRuntime DEF UserEdit, UserDelete, Shape, IsCR, ctlVars, UserRecords
    <3>2. CASE U!PatchStatus
      <4>1. PICK b : PatchStatusBy(b)
        BY <3>2, UserRuntime DEF U!PatchStatus
      <4>2. pc = "patchStatus" /\ cr.exists /\ cr'.status = latest.status /\ ~cr.del
        BY <2>2, <4>1 DEF PatchStatusBy, Shape, IsCR
      <4> QED
        BY <4>2 DEF UserRecords, Ending, LifecycleInv, DeletesOnRequest
    <3>3. CASE U!KindlessStep \/ U!Crash
      BY <2>2, <3>3, UserRuntime
      DEF KindlessStep, Fetch, FetchGone, ReadOneNotFound, Manage, ReadBackFails, PatchSpec,
          LateInitialize, ReadDeleteNotFound, Unmanage, Crash, Fault, NothingLost, crVars,
          ctlVars, Shape, IsCR, UserRecords
    <3> QED
      BY <1>1, <3>1, <3>2, <3>3
  <2>3. pc' = "read" => Recorded(desired'.status.last)
    BY <2>1, RuntimeTruth DEF UserRecords, Shape, IsCR
  <2> QED
    BY <2>1, <2>2, <2>3, RuntimeTruth DEF UserRecords, Recorded
<1>2. CASE U!AwsProgress
  <2>1. /\ UNCHANGED <<cr, pc, desired, latest, err>>
        /\ aws'.access = aws.access
        /\ aws'.status # "none" => aws.status # "none"
    BY <1>2 DEF U!AwsProgress, U!AwsSettles, U!AwsDeleted, U!ServiceStep, U!ctlVars, U!crVars,
                UserType
  <2> QED
    BY <2>1 DEF UserRecords, Recorded, Concluding, Ending
<1>3. ASSUME ConcludesNothing, pc' \notin {"idle", "update"},
             pc' = "patchStatus" /\ ~desired.del => (Recorded(latest.status.last))'
      PROVE  UserRecords'
  BY <1>3, NothingConcluded DEF ConcludesNothing, UserRecords, Ending
<1>4. CASE U!ModifyWaits \/ U!ModifyUserFails \/ U!CreateFails \/ U!ReadOneFails
  <2>1. ConcludesNothing /\ UNCHANGED aws
    BY <1>4, UserInherits, FailuresConclude
    DEF U!CreateFails, U!ModifyWaits, U!ModifyUserFails, HandedToOnError
  <2>2. /\ pc' = "patchStatus"
        /\ \/ pc = "update" /\ latest'.status = latest.status
           \/ pc \in {"read", "create"} /\ latest'.status = desired.status
    <3>1. PICK r : /\ \E e : FailWith(r, e)
                   /\ \/ pc = "update" /\ r = latest
                      \/ pc \in {"read", "create"} /\ r = AsLatest(desired)
      <4>1. CASE U!ModifyWaits
        BY <4>1, UserInherits DEF U!ModifyWaits, GivesUp
      <4>2. CASE U!ModifyUserFails
        <5>1. Refused(U!ValidType(desired.spec), "awsTerminal", latest)
          BY <4>2, UserInherits DEF U!ModifyUserFails
        <5> QED
          BY <4>2, <5>1 DEF U!ModifyUserFails, Refused
      <4>3. CASE U!CreateFails
        <5>1. Refused(U!ValidType(desired.spec), "awsTerminal", AsLatest(desired))
          BY <4>3, UserInherits DEF U!CreateFails
        <5> QED
          BY <4>3, <5>1 DEF U!CreateFails, Refused
      <4>4. CASE U!ReadOneFails
        BY <4>4, UserInherits DEF ReadOneFails
      <4> QED
        BY <1>4, <4>1, <4>2, <4>3, <4>4
    <3> QED
      BY <3>1 DEF FailWith, AsLatest, UserType, PassType, IsResult
  <2>3. pc = "create" => aws.status = "none"
    BY DEF LifecycleInv, CreatesBehindFinalizer
  <2> QED
    BY <1>3, <2>1, <2>2, <2>3 DEF UserRecords, Recorded
<1>5. CASE U!ReadDeleteFails \/ U!ReadDelete
  <2>1. ConcludesNothing
    BY <1>5, UserInherits, FailuresConclude DEF U!ReadDelete
  <2>2. pc = "readDelete" /\ pc' \in {"delete", "patchStatus"}
    BY <1>5, UserInherits DEF U!ReadDelete, ObservesDoomed, ReadDeleteFails
  <2> QED
    BY <1>3, <2>1, <2>2 DEF LifecycleInv, DeletesOnRequest
<1>6. CASE U!Delete \/ U!DeleteFails
  <2>1. \/ Deletes(aws.status = "active", "deleting")
        \/ DeleteRefused(aws.status = "active", "awsTerminal")
    BY <1>6, UserInherits DEF U!Delete, U!DeleteFails
  <2>2. ConcludesNothing
    BY <2>1, FailuresConclude DEF HandedToOnError
  <2>3. pc = "delete" /\ pc' \in {"unmanage", "patchSpec"}
    BY <2>1 DEF Deletes, DeleteRefused, DeleteDone, DeleteReturns
  <2> QED
    BY <1>3, <2>2, <2>3 DEF LifecycleInv, DeletesOnRequest
<1>7. CASE U!ReadOne
  <2>1. Observes(U!sdkFind(desired), U!newResourceDelta(desired, U!sdkFind(desired)) # {})
    BY <1>7, UserInherits DEF U!ReadOne
  <2>2. /\ U!sdkFind(desired).spec = [access |-> aws.access, type |-> aws.type]
        /\ U!sdkFind(desired).status.last = desired.status.last
    BY DEF U!sdkFind, UserType, PassType, IsCR, U!Statuses
  <2>3. pc = "read" /\ Recorded(desired.status.last) /\ aws.status # "none"
    BY <2>1 DEF Observes, UserRecords
  <2>4. Concluding' => aws.access = U!expanded(desired.spec.access)
    <3>1. Concluding' => U!newResourceDelta(desired, U!sdkFind(desired)) = {}
      BY <2>1 DEF Observes, Concluding, Ending
    <3> QED
      BY <2>2, <2>3, <3>1, NoDifferenceInAccess
  <2> QED
    BY <2>1, <2>2, <2>3, <2>4 DEF Observes, UserRecords, Recorded
<1>8. CASE U!ReadBack
  <2>1. ReadsBack(U!sdkFind(latest))
    BY <1>8, UserInherits DEF U!ReadBack
  <2>2. U!sdkFind(latest).status.last = latest.status.last
    BY DEF U!sdkFind, UserType, PassType, IsResult, U!Statuses
  <2>3. /\ latest'.status.last = latest.status.last
        /\ pc = "readBack" /\ pc' = "patchSpec" /\ UNCHANGED <<aws, cr, desired, err>>
    BY <2>1, <2>2 DEF ReadsBack, UserType, PassType, IsResult, crVars
  <2> QED
    BY <2>3 DEF UserRecords, Recorded, Concluding, Ending
<1>9. CASE U!Create \/ U!ModifyUser
  <2>1. \E was : \/ Answers(U!callOutput(desired, aws'), was, "readBack")
                 \/ Answers(U!callOutput(desired, aws'), was, "patchSpec")
    BY <1>9, UserInherits DEF U!Create, U!ModifyUser
  <2>2. /\ latest' = U!callOutput(desired, aws') /\ UNCHANGED desired
        /\ pc' \in {"readBack", "patchSpec"}
    BY <2>1, AnswersConclude DEF NothingLost
  <2>3. latest'.status.last = desired.spec.access
    BY <2>2 DEF U!callOutput
  <2>4. aws'.access = U!expanded(desired.spec.access)
    <3>1. CASE U!Create
      BY <3>1 DEF U!Create
    <3>2. CASE U!ModifyUser
      <4>1. /\ pc = "update" /\ aws.status # "none"
            /\ latest.spec = [access |-> aws.access, type |-> aws.type]
        BY <3>2 DEF U!ModifyUser, Live, UserTruth
      <4>2. aws'.access = IF "access" \in U!newResourceDelta(desired, latest)
                          THEN U!expanded(desired.spec.access) ELSE aws.access
        BY <3>2 DEF U!ModifyUser
      <4> QED
        BY <4>1, <4>2, NoDifferenceInAccess DEF UserRecords
    <3> QED
      BY <1>9, <3>1, <3>2
  <2> QED
    BY <2>2, <2>3, <2>4 DEF UserRecords, Recorded
<1> QED
  BY <1>1, <1>2, <1>4, <1>5, <1>6, <1>7, <1>8, <1>9 DEF U!Next, U!Controller

-----------------------------------------------------------------------------
(* CacheParameterGroup: what an update has dealt with is as it is wanted, *)
(* and the rest is as it was read.                                        *)

Agree(f, g, names) ==
  \A n \in names : /\ n \in DOMAIN f <=> n \in DOMAIN g
                   /\ n \in DOMAIN f => f[n] = g[n]

CacheParameterGroupTruth ==
  /\ pc = "update" => /\ Agree(aws.params, CPG!wanted, latest.done)
                      /\ Agree(aws.params, CPG!present, Names \ latest.done)
  /\ Concluding => /\ aws.status = "live"
                   /\ \/ latest.cond.synced = "False"
                      \/ aws.params = CPG!AsMap(desired.spec.params)

LEMMA AgreeingMaps ==
  ASSUME NEW f \in CPG!ParameterMaps, NEW g \in CPG!ParameterMaps, Agree(f, g, Names)
  PROVE  f = g
<1>1. PICK F \in SUBSET Names : f \in [F -> Values]
  BY DEF CPG!ParameterMaps
<1>2. PICK G \in SUBSET Names : g \in [G -> Values]
  BY DEF CPG!ParameterMaps
<1>3. DOMAIN f = DOMAIN g
  BY <1>1, <1>2 DEF Agree
<1>4. \A n \in DOMAIN f : f[n] = g[n]
  BY <1>1 DEF Agree
<1> QED
  BY <1>1, <1>2, <1>3, <1>4

(* An empty list sets no parameter. *)
LEMMA EmptyListSetsNothing == CPG!AsMap(<<>>) = CPG!NoParameters
<1>1. CPG!NamesOf(<<>>) = {}
  BY DEF CPG!NamesOf
<1> QED
  BY <1>1 DEF CPG!AsMap, CPG!NoParameters

LEMMA ComparedParameters ==
  ASSUME CacheParameterGroupType, pc = "update"
  PROVE  CPG!wanted \in CPG!ParameterMaps /\ CPG!present \in CPG!ParameterMaps
<1>1. desired.spec.params \in Seq(CPG!Parameters) /\ latest.spec.params \in Seq(CPG!Parameters)
  BY DEF CacheParameterGroupType, IsCR, Reads, CPG!AllSpecs
<1> QED
  BY <1>1, AsMapType DEF CPG!wanted, CPG!present

(* Every call of an update brings the parameters it deals with to what is *)
(* wanted, and leaves the others as they are.                             *)
LEMMA UpdatesAgree ==
  ASSUME CacheParameterGroupType, CacheParameterGroupTruth,
         CPG!resetAllParameters \/ CPG!resetParameters \/ CPG!saveModified \/ CPG!saveAdded
  PROVE  \E params, done :
           /\ CPG!Updates(params, done)
           /\ Agree(params, CPG!wanted, latest.done \cup done)
           /\ Agree(params, CPG!present, Names \ (latest.done \cup done))
<1>1. pc = "update"
  BY DEF CPG!resetAllParameters, CPG!resetParameters, CPG!saveModified, CPG!saveAdded
<1>2. /\ Agree(aws.params, CPG!wanted, latest.done)
      /\ Agree(aws.params, CPG!present, Names \ latest.done)
  BY <1>1 DEF CacheParameterGroupTruth
<1>3. CASE CPG!resetAllParameters
  <2>1. CPG!wanted = CPG!NoParameters
    BY <1>3, EmptyListSetsNothing DEF CPG!resetAllParameters, CPG!ResetsAll, CPG!wanted
  <2>2. DOMAIN CPG!NoParameters = {}
    BY DEF CPG!NoParameters
  <2>3. Agree(CPG!NoParameters, CPG!wanted, latest.done \cup CPG!removedParameters)
    BY <2>1 DEF Agree
  <2>4. Agree(CPG!NoParameters, CPG!present,
              Names \ (latest.done \cup CPG!removedParameters))
    BY <2>1, <2>2 DEF Agree, CPG!removedParameters
  <2> QED
    BY <1>3, <2>3, <2>4 DEF CPG!resetAllParameters
<1>4. CASE CPG!resetParameters
  <2> DEFINE kept == [n \in DOMAIN aws.params \ CPG!removedParameters |-> aws.params[n]]
  <2>1. Agree(kept, CPG!wanted, latest.done \cup CPG!removedParameters)
    BY <1>2 DEF Agree, CPG!removedParameters
  <2>2. Agree(kept, CPG!present, Names \ (latest.done \cup CPG!removedParameters))
    BY <1>2 DEF Agree, CPG!removedParameters
  <2> QED
    BY <1>4, <2>1, <2>2 DEF CPG!resetParameters
<1>5. CASE CPG!saveModified \/ CPG!saveAdded
  <2>1. PICK names \in SUBSET DOMAIN CPG!wanted : CPG!saveParameters(names)
    BY <1>5 DEF CPG!saveModified, CPG!saveAdded, CPG!modifiedParameters, CPG!addedParameters
  <2>2. PICK batch \in CPG!Batches(CPG!Left(names)) :
          CPG!Updates([n \in DOMAIN aws.params \cup batch |->
                        IF n \in batch THEN CPG!wanted[n] ELSE aws.params[n]],
                      batch)
    BY <2>1 DEF CPG!saveParameters
  <2>3. batch \subseteq DOMAIN CPG!wanted
    BY <2>1, <2>2 DEF CPG!Batches, CPG!Left
  <2> DEFINE saved == [n \in DOMAIN aws.params \cup batch |->
                        IF n \in batch THEN CPG!wanted[n] ELSE aws.params[n]]
  <2>4. Agree(saved, CPG!wanted, latest.done \cup batch)
    BY <1>2, <2>3 DEF Agree
  <2>5. Agree(saved, CPG!present, Names \ (latest.done \cup batch))
    BY <1>2 DEF Agree
  <2> QED
    BY <2>2, <2>4, <2>5
<1> QED
  BY <1>3, <1>4, <1>5

LEMMA CacheParameterGroupTruthStep ==
  ASSUME CacheParameterGroupType, Shape, Live, LifecycleInv, CacheParameterGroupTruth, CPG!Next
  PROVE  CacheParameterGroupTruth'
<1>1. CASE CPG!UserEdit(CPG!Specs) \/ CPG!UserDelete \/ CPG!KindlessStep
           \/ CPG!PatchStatus \/ CPG!Crash
  <2>1. RuntimeStep
    BY <1>1, CacheParameterGroupRuntime DEF RuntimeStep, CPG!PatchStatus
  <2> QED
    BY <2>1, RuntimeTruth DEF CacheParameterGroupTruth, CPG!wanted, CPG!present
<1>2. ASSUME ConcludesNothing
      PROVE  CacheParameterGroupTruth'
  BY <1>2, NothingConcluded DEF ConcludesNothing, CacheParameterGroupTruth
<1>3. CASE CPG!CreateFails \/ CPG!UpdateFails
           \/ CPG!ReadOneFails \/ CPG!ReadDeleteFails \/ CPG!ReadDelete
  <2>1. ConcludesNothing
    BY <1>3, CacheParameterGroupInherits, FailuresConclude
    DEF CPG!CreateFails, CPG!UpdateFails, CPG!ReadDelete, HandedToOnError
  <2> QED
    BY <1>2, <2>1
<1>4. CASE CPG!RereadFails
  <2>1. FailWith(latest, "awsOther")
    BY <1>4, CacheParameterGroupInherits DEF CPG!RereadFails
  <2> QED
    BY <1>2, <2>1, FailWithConcludes DEF HandedToOnError
<1>5. CASE CPG!Delete
  <2>1. Deletes(aws.status = "live", "none")
    BY <1>5, CacheParameterGroupInherits DEF CPG!Delete
  <2> QED
    BY <1>2, <2>1, FailuresConclude
<1>6. CASE CPG!DeleteFails
  <2>1. DeleteRefused(aws.status = "live", "awsOther")
    BY <1>6, CacheParameterGroupInherits DEF CPG!DeleteFails
  <2> QED
    BY <1>2, <2>1, FailuresConclude DEF HandedToOnError
<1>7. CASE CPG!ReadOne
  <2> DEFINE found == CPG!sdkFind(desired)
  <2>1. Observes(found, CPG!newResourceDelta(desired, found))
    BY <1>7, CacheParameterGroupInherits DEF CPG!ReadOne
  <2>2. CPG!AsMap(found.spec.params) = aws.params /\ found.done = {}
    BY ListedParameters DEF CPG!sdkFind, CacheParameterGroupType
  <2>3. aws.status = "live"
    BY <2>1 DEF Observes, CacheParameterGroupType
  <2>4. CASE pc' = "update"
    <3>1. latest' = found /\ UNCHANGED <<aws, desired>> /\ ~Concluding'
      BY <2>1, <2>4 DEF Observes, Concluding, Ending
    <3>2. Agree(aws'.params, CPG!present', Names \ latest'.done)
      BY <2>2, <3>1 DEF CPG!present, Agree
    <3>3. Agree(aws'.params, CPG!wanted', latest'.done)
      BY <2>2, <3>1 DEF Agree
    <3> QED
      BY <3>1, <3>2, <3>3 DEF CacheParameterGroupTruth
  <2>5. CASE ~CPG!newResourceDelta(desired, found)
    <3>1. /\ pc' = "lateInit" /\ UNCHANGED <<aws, desired>>
          /\ desired.spec = found.spec
      BY <2>1, <2>5 DEF Observes, CPG!newResourceDelta
    <3> QED
      BY <2>2, <2>3, <3>1 DEF CacheParameterGroupTruth
  <2> QED
    BY <2>1, <2>4, <2>5 DEF Observes
<1>8. CASE CPG!ReadBack
  <2>1. ReadsBack(CPG!sdkFind(latest))
    BY <1>8, CacheParameterGroupInherits DEF CPG!ReadBack
  <2>2. CPG!sdkFind(latest).cond.synced = latest.cond.synced
    BY CacheParameterGroupInherits, SyncedStays DEF CPG!sdkFind, Shape
  <2>3. /\ latest'.cond.synced = latest.cond.synced
        /\ pc = "readBack" /\ pc' = "patchSpec" /\ UNCHANGED <<aws, desired, err>>
    BY <2>1, <2>2 DEF ReadsBack, CacheParameterGroupType, IsResult, Reads
  <2> QED
    BY <2>3 DEF CacheParameterGroupTruth, Concluding, Ending
<1>9. CASE CPG!Create
  <2>1. /\ aws'.status = "live" /\ aws'.params = CPG!NoParameters
        /\ Answers(CPG!createOutput(desired), AsLatest(desired), "readBack")
    BY <1>9, CacheParameterGroupInherits DEF CPG!Create
  <2>2. desired.spec.params # <<>> => CPG!createOutput(desired).cond.synced = "False"
    <3>1. \A c \in Conds : onSuccess([c EXCEPT !.synced = "False"]).synced = "False"
      BY SyncedStays DEF Conds, CondStatus
    <3> QED
      BY <3>1, CacheParameterGroupInherits
      DEF CPG!createOutput, CPG!CustomCreateCacheParameterGroupSetOutput, Shape, IsCR
  <2>3. desired.spec.params = <<>> => CPG!AsMap(desired.spec.params) = CPG!NoParameters
    BY EmptyListSetsNothing
  <2> QED
    BY <1>2, <2>1, <2>2, <2>3, AnswersConclude DEF CacheParameterGroupTruth
<1>10. CASE CPG!resetAllParameters \/ CPG!resetParameters \/ CPG!saveModified \/ CPG!saveAdded
  <2>1. PICK params, done :
          /\ CPG!Updates(params, done)
          /\ Agree(params, CPG!wanted, latest.done \cup done)
          /\ Agree(params, CPG!present, Names \ (latest.done \cup done))
    BY <1>10, UpdatesAgree
  <2>2. pc = "update" /\ latest \in Reads /\ aws'.params = params
    BY <1>10, <2>1
    DEF CPG!resetAllParameters, CPG!resetParameters, CPG!saveModified, CPG!saveAdded,
        CPG!Updates, CacheParameterGroupType
  <2>3. CASE FailWith(latest, "awsOther")
    BY <1>2, <2>3, FailWithConcludes DEF HandedToOnError
  <2>4. CASE /\ latest' = [latest EXCEPT !.done = @ \cup done]
             /\ UNCHANGED <<pc, desired>>
    <3>1. latest'.done = latest.done \cup done /\ latest'.spec = latest.spec
      BY <2>2, <2>4 DEF Reads
    <3>2. CPG!wanted' = CPG!wanted /\ CPG!present' = CPG!present
      BY <2>4, <3>1 DEF CPG!wanted, CPG!present
    <3>3. ~Concluding'
      BY <2>2, <2>4 DEF Concluding, Ending
    <3> QED
      BY <2>1, <2>2, <3>1, <3>2, <3>3 DEF CacheParameterGroupTruth
  <2> QED
    BY <2>1, <2>3, <2>4, CacheParameterGroupInherits DEF CPG!Updates
<1>11. CASE CPG!UpdateDone
  <2>1. /\ pc = "update" /\ pc' = "patchSpec" /\ UNCHANGED <<aws, desired>>
        /\ CPG!Left(CPG!removedParameters \cup CPG!modifiedParameters
                    \cup CPG!addedParameters) = {}
    BY <1>11 DEF CPG!UpdateDone
  <2>2. CPG!wanted \in CPG!ParameterMaps /\ aws.params \in CPG!ParameterMaps
    BY <2>1, ComparedParameters DEF CacheParameterGroupType
  <2>3. Agree(aws.params, CPG!wanted, Names)
    <3>1. ASSUME NEW n \in Names \ latest.done
          PROVE  /\ n \in DOMAIN CPG!present <=> n \in DOMAIN CPG!wanted
                 /\ n \in DOMAIN CPG!present => CPG!present[n] = CPG!wanted[n]
      BY <2>1 DEF CPG!Left, CPG!removedParameters, CPG!modifiedParameters, CPG!addedParameters
    <3> QED
      BY <2>1, <3>1 DEF CacheParameterGroupTruth, Agree
  <2>4. aws.params = CPG!wanted /\ aws.status = "live"
    BY <2>1, <2>2, <2>3, AgreeingMaps DEF CacheParameterGroupType, Live
  <2> QED
    BY <2>1, <2>4 DEF CacheParameterGroupTruth, CPG!wanted
<1> QED
  BY <1>1, <1>3, <1>4, <1>5, <1>6, <1>7, <1>8, <1>9, <1>10, <1>11 DEF CPG!Next, CPG!Controller

-----------------------------------------------------------------------------
(* What holds of a pass, for all kinds together. *)

TruthInv ==
  /\ Fresh
  /\ kind = "User" => UserTruth /\ (NothingLost => UserRecords)
  /\ kind = "UserGroup" => UserGroupTruth
  /\ kind = "CacheSubnetGroup" => CacheSubnetGroupTruth
  /\ kind = "CacheParameterGroup" => CacheParameterGroupTruth
  /\ kind = "Snapshot" => SnapshotTruth
  /\ kind = "ServerlessCacheSnapshot" => ServerlessCacheSnapshotTruth
  /\ kind = "ServerlessCache" => ServerlessCacheTruth

KindsTruthInv == KindsInv /\ CommonType /\ KindType /\ TruthInv

LEMMA TruthStarts ==
  ASSUME Init
  PROVE  KindsTruthInv
<1>1. KindsInv /\ CommonType /\ KindType
  BY KindsStart, KindsStartType
<1>2. pc = "idle" /\ (kind = "User" \/ kind = "UserGroup" => aws.status = "none")
  <2>1. CASE kind = "User" /\ U!Init
    BY <2>1 DEF U!Init, U!StartsWith, U!StartsIdle
  <2>2. CASE kind = "UserGroup" /\ UG!Init
    BY <2>2 DEF UG!Init, UG!StartsWith, UG!StartsIdle, UG!Group
  <2>3. CASE kind = "CacheSubnetGroup" /\ CSG!Init
    BY <2>3 DEF CSG!Init, CSG!StartsWith, CSG!StartsIdle
  <2>4. CASE kind = "CacheParameterGroup" /\ CPG!Init
    BY <2>4 DEF CPG!Init, CPG!StartsWith, CPG!StartsIdle
  <2>5. CASE kind = "Snapshot" /\ S!Init
    BY <2>5 DEF S!Init, S!StartsWith, S!StartsIdle
  <2>6. CASE kind = "ServerlessCacheSnapshot" /\ SCS!Init
    BY <2>6 DEF SCS!Init, SCS!StartsWith, SCS!StartsIdle
  <2>7. CASE kind = "ServerlessCache" /\ SC!Init
    BY <2>7 DEF SC!Init, SC!StartsWith, SC!StartsIdle
  <2> QED
    BY <2>1, <2>2, <2>3, <2>4, <2>5, <2>6, <2>7 DEF Init
<1>3. TruthInv
  BY <1>2
  DEF TruthInv, Fresh, Concluding, Ending, Recorded, UserTruth, UserRecords, UserGroupTruth,
      CacheSubnetGroupTruth, CacheParameterGroupTruth, SnapshotTruth,
      ServerlessCacheSnapshotTruth, ServerlessCacheTruth, FoundAsWanted, ChoiceStored
<1> QED
  BY <1>1, <1>3 DEF KindsTruthInv

LEMMA TruthInductive ==
  ASSUME KindsTruthInv, [Next]_<<vars, kind>>
  PROVE  KindsTruthInv'
<1>1. (KindsInv /\ CommonType /\ KindType)'
  BY KindsInductive, KindsTypeInductive DEF KindsTruthInv
<1>2. CASE Next
  <2>1. Shape /\ Live /\ LifecycleInv /\ KindType /\ TruthInv
    BY DEF KindsTruthInv, KindsInv
  <2>2. Fresh'
    BY <1>2, <2>1, KindsContract, FreshInductive DEF TruthInv, KindsTruthInv
  <2>3. kind' = kind
    BY <1>2 DEF Next
  <2>4. ASSUME kind = "User"
        PROVE  TruthInv'
    BY <1>2, <2>1, <2>2, <2>3, <2>4, UserTruthStep, UserRecordsStep
    DEF Next, KindType, TruthInv
  <2>5. ASSUME kind = "UserGroup"
        PROVE  TruthInv'
    BY <1>2, <2>1, <2>2, <2>3, <2>5, UserGroupTruthStep DEF Next, KindType, TruthInv
  <2>6. ASSUME kind = "CacheSubnetGroup"
        PROVE  TruthInv'
    BY <1>2, <2>1, <2>2, <2>3, <2>6, CacheSubnetGroupTruthStep DEF Next, KindType, TruthInv
  <2>7. ASSUME kind = "CacheParameterGroup"
        PROVE  TruthInv'
    BY <1>2, <2>1, <2>2, <2>3, <2>7, CacheParameterGroupTruthStep DEF Next, KindType, TruthInv
  <2>8. ASSUME kind = "Snapshot"
        PROVE  TruthInv'
    BY <1>2, <2>1, <2>2, <2>3, <2>8, SnapshotTruthStep DEF Next, KindType, TruthInv
  <2>9. ASSUME kind = "ServerlessCacheSnapshot"
        PROVE  TruthInv'
    BY <1>2, <2>1, <2>2, <2>3, <2>9, ServerlessCacheSnapshotTruthStep
    DEF Next, KindType, TruthInv
  <2>10. ASSUME kind = "ServerlessCache"
        PROVE  TruthInv'
    BY <1>2, <2>1, <2>2, <2>3, <2>10, ServerlessCacheTruthStep
    DEF Next, KindType, TruthInv, KindsTruthInv
  <2>11. TruthInv'
    BY <2>1, <2>4, <2>5, <2>6, <2>7, <2>8, <2>9, <2>10 DEF KindType
  <2> QED
    BY <1>1, <2>11 DEF KindsTruthInv
<1>3. CASE UNCHANGED <<vars, kind>>
  <2>1. TruthInv'
    BY <1>3
    DEF KindsTruthInv, vars, TruthInv, Fresh, Concluding, Ending, Recorded, UserTruth,
        UserRecords, UserGroupTruth, CacheSubnetGroupTruth, CSG!AsSpecified,
        CacheParameterGroupTruth, CPG!wanted, CPG!present, SnapshotTruth,
        ServerlessCacheSnapshotTruth, ServerlessCacheTruth, FoundAsWanted, TagsWereRead,
        ChoiceStored, UG!patched
  <2> QED
    BY <1>1, <2>1 DEF KindsTruthInv
<1> QED
  BY <1>2, <1>3

LEMMA KindsTruth == Spec => []KindsTruthInv
<1>1. Init => KindsTruthInv
  BY TruthStarts
<1>2. KindsTruthInv /\ [Next]_<<vars, kind>> => KindsTruthInv'
  BY TruthInductive
<1> QED
  BY <1>1, <1>2, PTL DEF Spec

(* What the invariant says where a pass without error reports. *)
LEMMA ReportsTruth ==
  ASSUME KindsTruthInv, kind = "User" => NothingLost
  PROVE  SyncedTellsTheTruth
<1>1. TruthInv /\ KindType /\ latest.cond \in Conds
  BY DEF KindsTruthInv, KindsInv, Shape
<1>2. pc = "patchStatus" /\ err = "none" /\ ~desired.del => Concluding
  BY DEF Concluding, Ending
<1>3. CASE kind = "User"
  <2>1. U!SyncedTellsTheTruth
    <3> SUFFICES ASSUME Concluding, U!ensureConditions(latest.cond, err).synced = "True"
                 PROVE  U!AsSpecified(desired.spec)
      BY <1>2 DEF U!SyncedTellsTheTruth
    <3>1. UserTruth /\ UserRecords
      BY <1>1, <1>3 DEF TruthInv
    <3>2. latest.cond.synced = "True"
      BY <3>1 DEF UserTruth, U!ensureConditions, U!ensureConditionsBy
    <3> QED
      BY <3>1, <3>2 DEF UserTruth, UserRecords, U!AsSpecified
  <2> QED
    BY <1>3, <2>1 DEF SyncedTellsTheTruth
<1>4. CASE kind = "UserGroup"
  <2>1. UG!SyncedTellsTheTruth
    BY <1>1, <1>2, <1>4 DEF TruthInv, UserGroupTruth, UG!SyncedTellsTheTruth
  <2> QED
    BY <1>4, <2>1 DEF SyncedTellsTheTruth
<1>5. CASE kind = "CacheSubnetGroup"
  <2>1. CSG!SyncedTellsTheTruth
    BY <1>1, <1>2, <1>5 DEF TruthInv, CacheSubnetGroupTruth, CSG!SyncedTellsTheTruth
  <2> QED
    BY <1>5, <2>1 DEF SyncedTellsTheTruth
<1>6. CASE kind = "CacheParameterGroup"
  <2>1. CPG!SyncedTellsTheTruth
    <3> SUFFICES ASSUME Concluding, CPG!ensureConditions(latest.cond, err).synced = "True"
                 PROVE  CPG!AsSpecified(desired.spec)
      BY <1>2 DEF CPG!SyncedTellsTheTruth
    <3>1. latest.cond.synced # "False"
      BY DEF CPG!ensureConditions, CPG!ensureConditionsBy
    <3> QED
      BY <1>1, <1>6, <3>1 DEF TruthInv, CacheParameterGroupTruth, CPG!AsSpecified
  <2> QED
    BY <1>6, <2>1 DEF SyncedTellsTheTruth
<1>7. CASE kind = "Snapshot"
  <2>1. S!SyncedTellsTheTruth
    <3> SUFFICES ASSUME Concluding, S!ensureConditions(latest.cond, err).synced = "True"
                 PROVE  aws.status # "creating"
      BY <1>2 DEF S!SyncedTellsTheTruth
    <3>1. SnapshotTruth
      BY <1>1, <1>7 DEF TruthInv
    <3>2. latest.cond.synced = "True"
      BY <3>1 DEF SnapshotTruth, S!ensureConditions, S!ensureConditionsBy
    <3> QED
      BY <3>1, <3>2 DEF SnapshotTruth
  <2> QED
    BY <1>7, <2>1 DEF SyncedTellsTheTruth
<1>8. CASE kind = "ServerlessCacheSnapshot"
  <2>1. SCS!SyncedTellsTheTruth
    <3> SUFFICES ASSUME Concluding, err = "none",
                        SCS!ensureConditionsBy(latest.cond, err, SCS!IsSynced).synced = "True"
                 PROVE  aws.status = "create_failed" \/ aws.tags = desired.spec.tags
      BY <1>2 DEF SCS!SyncedTellsTheTruth
    <3>1. ServerlessCacheSnapshotTruth
      BY <1>1, <1>8 DEF TruthInv
    <3>2. latest.cond.synced = "unset"
      BY <3>1 DEF ServerlessCacheSnapshotTruth, SCS!ensureConditionsBy
    <3>3. SCS!IsSynced
      BY <1>1, <3>2 DEF SCS!ensureConditionsBy, Conds
    <3> QED
      BY <3>1, <3>3 DEF ServerlessCacheSnapshotTruth, SCS!IsSynced
  <2> QED
    BY <1>8, <2>1 DEF SyncedTellsTheTruth
<1>9. CASE kind = "ServerlessCache"
  <2>1. SC!SyncedTellsTheTruth
    BY <1>1, <1>2, <1>9
    DEF TruthInv, ServerlessCacheTruth, FoundAsWanted, TagsWereRead, ChoiceStored,
        SC!SyncedTellsTheTruth
  <2> QED
    BY <1>9, <2>1 DEF SyncedTellsTheTruth
<1> QED
  BY <1>1, <1>3, <1>4, <1>5, <1>6, <1>7, <1>8, <1>9 DEF KindType

(***************************************************************************)
(* A pass of any kind that ends without error and reports Synced=True tells*)
(* the truth about what its manager compares, whatever was edited, refused,*)
(* lost or interrupted before; of a user, whose access string is compared  *)
(* by way of the status, as long as nothing is lost (sdkFind, sdkCreate,   *)
(* sdkUpdate, newResourceDelta and the custom hooks of the seven kinds).   *)
(***************************************************************************)
THEOREM SyncedTellsTheTruthTheorem ==
  Spec => []((kind = "User" => NothingLost) => SyncedTellsTheTruth)
<1>1. KindsTruthInv => ((kind = "User" => NothingLost) => SyncedTellsTheTruth)
  BY ReportsTruth
<1> QED
  BY <1>1, KindsTruth, PTL

(***************************************************************************)
(* As long as no answer is lost and no pass interrupted, the access string *)
(* that filterDelta takes for the one in force is: the status records it   *)
(* with the call that sends it, and nothing else changes it.               *)
(***************************************************************************)
THEOREM RequestedIsInForceTheorem == NothingLost => (Spec => []RequestedIsInForce)
<1> SUFFICES ASSUME NothingLost PROVE Spec => []RequestedIsInForce
  OBVIOUS
<1>1. KindsTruthInv => RequestedIsInForce
  <2> SUFFICES ASSUME KindsTruthInv, kind = "User" PROVE U!RequestedIsInForce
    BY DEF RequestedIsInForce
  <2>1. UserRecords /\ desired.spec.access \in U!AccessStrings
    BY DEF KindsTruthInv, TruthInv, KindType, UserType, PassType, IsCR, U!Specs
  <2> QED
    BY <2>1, KindsAssumption DEF UserRecords, Recorded, U!RequestedIsInForce
<1> QED
  BY <1>1, KindsTruth, PTL

(***************************************************************************)
(* The users a group answers, pending ones included, and the subnets and   *)
(* the description of a subnet group are patched into the spec only where  *)
(* the pass asked for them: an edit the user made meanwhile stays          *)
(* (patchUserGroupPendingChanges, sdkUpdate).                              *)
(***************************************************************************)
THEOREM EditsSurvivePatchTheorem == Spec => EditsSurvivePatch
<1> DEFINE Patched == PatchSpec /\ ~desired.del /\ kind \in {"UserGroup", "CacheSubnetGroup"}
                        => cr'.spec = cr.spec
<1>1. KindsTruthInv => Patched
  <2> SUFFICES ASSUME KindsTruthInv, PatchSpec, ~desired.del,
                      kind \in {"UserGroup", "CacheSubnetGroup"}
               PROVE  cr'.spec = cr.spec
    OBVIOUS
  <2>1. latest.spec = desired.spec
    BY DEF KindsTruthInv, TruthInv, UserGroupTruth, CacheSubnetGroupTruth, PatchSpec
  <2>2. /\ cr.spec = [f \in DOMAIN cr.spec |-> cr.spec[f]]
        /\ cr \in [exists : BOOLEAN, del : BOOLEAN, fin : BOOLEAN, spec : {cr.spec},
                   ann : {cr.ann}, status : {cr.status}, cond : Conds]
    BY DEF KindsTruthInv, KindsInv, Shape, IsCR, KindType, UserGroupType, CacheSubnetGroupType,
           PassType, UG!Specs, CSG!Specs
  <2>3. Patch(cr.spec, desired.spec, latest.spec) = cr.spec
    BY <2>1, <2>2 DEF Patch
  <2> QED
    BY <2>2, <2>3 DEF PatchSpec
<1>2. KindsTruthInv /\ [Next]_<<vars, kind>> => [Patched]_vars
  BY <1>1
<1> QED
  BY <1>2, KindsTruth, PTL DEF Spec, EditsSurvivePatch
=============================================================================
