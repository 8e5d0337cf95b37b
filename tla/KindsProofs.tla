---------------------------- MODULE KindsProofs ----------------------------
(***************************************************************************)
(* What holds of all the smaller kinds, for every value of the constants:  *)
(* none drops out of the work queue, and all implement the lifecycle.      *)
(*                                                                         *)
(* The argument is one contract.  Call says what a step of any manager may *)
(* do to a pass, RuntimeStep and Service what the others do.  Every kind   *)
(* is shown to keep to it, action by action; what follows from it is shown *)
(* once.                                                                   *)
(*                                                                         *)
(* The operators an instance has of Manager and of Runtime are definitions *)
(* of their own to the prover: the lemmas named Inherits and Runtime of a  *)
(* kind say that they are those of this module.                            *)
(***************************************************************************)
EXTENDS Kinds, RuntimeProofs

(* The records of a pass have the fields every kind relies on. *)
Shape ==
  /\ IsCR(cr, {cr.spec}, {cr.ann}, {cr.status})
  /\ IsCR(desired, {desired.spec}, {desired.ann}, {desired.status})
  /\ "cond" \in DOMAIN latest /\ latest.cond \in Conds
  /\ "status" \in DOMAIN aws
  /\ err \in Errors

(* Only a pass that deletes sees the AWS resource dying, and what a pass is *)
(* about to update is there.                                                *)
Live ==
  /\ aws.status = "deleting" => desired.del
  /\ pc \in {"read", "manage", "create", "readBack", "update"} => ~desired.del
  /\ pc = "update" => aws.status # "none"

-----------------------------------------------------------------------------
(* The contract of a manager. *)

(* A call that fails ends the pass, with a terminal error only if it shows. *)
Fails == /\ err' \in Errors
         /\ err' = "ackTerminal" => latest'.cond.terminal = "True"
         /\ pc' \in {"patchSpec", "patchStatus"}

(* A call that neither creates nor deletes. *)
Keeps == /\ External' = External
         /\ \/ pc' \in {"lateInit", "patchSpec", "patchStatus"}
            \/ pc = "create" /\ pc' = "readBack"
            \/ pc \in {"read", "update"} /\ External = "live" /\ pc' = "update"
            \/ pc = "readDelete" /\ pc' = "delete"

Creates == /\ pc = "create" /\ aws.status = "none"
           /\ External' = "live"
           /\ pc' \in {"readBack", "patchStatus"}

Destroys == /\ pc = "delete" /\ External = "live"
            /\ External' \in {"dying", "none"}
            /\ pc' \in {"unmanage", "patchSpec"}

(* What a call leaves behind is a resource again, and it touches no other. *)
Returns ==
  /\ UNCHANGED <<cr, queued, desired>>
  /\ "cond" \in DOMAIN latest' /\ latest'.cond \in Conds
  /\ "status" \in DOMAIN aws'

Call ==
  /\ pc \in Running
  /\ Returns
  /\ UNCHANGED err \/ Fails
  /\ Keeps \/ Creates \/ Destroys

(* The service on its own ends a deletion, at most. *)
Service ==
  /\ UNCHANGED <<cr, queued, pc, desired, latest, err>>
  /\ "status" \in DOMAIN aws'
  /\ \/ External' = External
     \/ External = "dying" /\ External' = "none"

RuntimeStep ==
  \/ \E specs : UserEdit(specs)
  \/ UserDelete
  \/ KindlessStep
  \/ \E isSynced : PatchStatusBy(isSynced)
  \/ Crash

Step == RuntimeStep \/ Service \/ Call

-----------------------------------------------------------------------------
(* What the operators of Manager come to under the contract.               *)

HandedToOnError == {"awsOther", "awsTerminal", "v1Combination", "requeue"}

LEMMA ResultConds ==
  ASSUME NEW c \in Conds
  PROVE  /\ onSuccess(c) \in Conds
         /\ \A s \in {"True", "False"} : /\ [c EXCEPT !.synced = s] \in Conds
                                         /\ onSuccess([c EXCEPT !.synced = s]) \in Conds
<1>1. \A d \in Conds : onSuccess(d) \in Conds
  BY ConditionsType DEF Errors
<1>2. \A s \in {"True", "False"} : [c EXCEPT !.synced = s] \in Conds
  BY DEF Conds, CondStatus
<1> QED
  BY <1>1, <1>2

(* Of a resource that has conditions, a failure is as the contract wants. *)
LEMMA FailWithFails ==
  ASSUME NEW r, "cond" \in DOMAIN r, r.cond \in Conds, NEW e \in HandedToOnError,
         FailWith(r, e) \/ DeleteReturns(r, e)
  PROVE  /\ Fails /\ UNCHANGED desired
         /\ "cond" \in DOMAIN latest' /\ latest'.cond \in Conds
         /\ FailWith(r, e) => pc' = "patchStatus"
         /\ DeleteReturns(r, e) => pc' = "patchSpec"
<1>1. e \in Errors \ {"ackTerminal"}
  BY DEF HandedToOnError, Errors
<1>2. err' \in Errors /\ latest' = [r EXCEPT !.cond = onErrorConds(@, e)]
  BY <1>1, ConditionsType DEF FailWith, DeleteReturns
<1>3. "cond" \in DOMAIN latest' /\ latest'.cond \in Conds
  BY <1>1, <1>2, ConditionsType
<1> QED
  BY <1>1, <1>2, <1>3, FailuresShowTerminal DEF Fails, FailWith, DeleteReturns

LEMMA AsLatestConds ==
  ASSUME Shape
  PROVE  /\ "cond" \in DOMAIN AsLatest(desired) /\ AsLatest(desired).cond \in Conds
         /\ "cond" \in DOMAIN latest /\ latest.cond \in Conds
         /\ desired.cond \in Conds
  BY DEF Shape, IsCR, AsLatest

LEMMA ObservesCall ==
  ASSUME Shape, Live, NEW r, "cond" \in DOMAIN r, r.cond \in Conds, NEW differs,
         Observes(r, differs)
  PROVE  Call
  BY DEF Observes, Call, Returns, Shape, Live, Running, Keeps, External, crVars

LEMMA ReadsBackCall ==
  ASSUME Shape, NEW r, r.cond \in Conds, ReadsBack(r)
  PROVE  Call
  BY DEF ReadsBack, Call, Returns, Shape, Running, Keeps, External, crVars

LEMMA ObservesDoomedCall ==
  ASSUME Shape, NEW r, "cond" \in DOMAIN r, r.cond \in Conds, ObservesDoomed(r)
  PROVE  Call
  BY DEF ObservesDoomed, Call, Returns, Shape, Running, Keeps, External, crVars

LEMMA ReadsFailCall ==
  ASSUME Shape, ReadOneFails \/ ReadDeleteFails
  PROVE  Call
<1>1. CASE ReadOneFails
  <2>1. FailWith(AsLatest(desired), "awsOther") /\ UNCHANGED <<cr, queued, aws>> /\ pc = "read"
    BY <1>1 DEF ReadOneFails, crVars
  <2> QED
    BY <2>1, AsLatestConds, FailWithFails
    DEF HandedToOnError, Call, Returns, Shape, Running, Keeps, External
<1>2. CASE ReadDeleteFails
  BY <1>2, AsLatestConds
  DEF ReadDeleteFails, Call, Returns, Fails, Errors, Shape, Running, Keeps, External, crVars
<1> QED
  BY <1>1, <1>2

(* A call that did not reach the service, or that the service refused. *)
LEMMA GivesUpCall ==
  ASSUME Shape, pc \in Running, NEW r, "cond" \in DOMAIN r, r.cond \in Conds,
         NEW e \in HandedToOnError, FailWith(r, e), UNCHANGED <<crVars, aws>>
  PROVE  Call
  BY FailWithFails DEF Call, Returns, Shape, Keeps, External, crVars

LEMMA RefusedCall ==
  ASSUME Shape, pc \in Running, NEW was, "cond" \in DOMAIN was, was.cond \in Conds,
         NEW valid, NEW e \in HandedToOnError, Refused(valid, e, was)
  PROVE  Call
<1>1. \E any \in HandedToOnError : FailWith(was, any)
  BY DEF Refused, HandedToOnError
<1>2. UNCHANGED <<crVars, aws>>
  BY DEF Refused
<1> QED
  BY <1>1, <1>2, GivesUpCall

(* What an accepted call does to the pass, its answer lost or not. *)
LEMMA AnswersReturn ==
  ASSUME NEW r, "cond" \in DOMAIN r, r.cond \in Conds,
         NEW was, "cond" \in DOMAIN was, was.cond \in Conds,
         NEW next, Answers(r, was, next)
  PROVE  /\ UNCHANGED desired
         /\ "cond" \in DOMAIN latest' /\ latest'.cond \in Conds
         /\ \/ UNCHANGED err /\ pc' = next
            \/ Fails /\ pc' = "patchStatus"
<1>1. CASE FailWith(was, "awsOther")
  BY <1>1, FailWithFails DEF HandedToOnError
<1> QED
  BY <1>1 DEF Answers

(* A creation, and a modification, that the service accepts. *)
LEMMA CreatesCall ==
  ASSUME pc = "create", aws.status = "none",
         "status" \in DOMAIN aws', aws'.status \notin {"none", "deleting"},
         UNCHANGED crVars,
         NEW r, "cond" \in DOMAIN r, r.cond \in Conds,
         NEW was, "cond" \in DOMAIN was, was.cond \in Conds,
         Answers(r, was, "readBack")
  PROVE  Call
  BY AnswersReturn DEF Call, Returns, Running, Creates, External, crVars

LEMMA ModifiesCall ==
  ASSUME Live, pc = "update",
         "status" \in DOMAIN aws', aws'.status \notin {"none", "deleting"},
         UNCHANGED crVars,
         NEW r, "cond" \in DOMAIN r, r.cond \in Conds,
         NEW was, "cond" \in DOMAIN was, was.cond \in Conds,
         Answers(r, was, "patchSpec")
  PROVE  Call
  BY AnswersReturn DEF Call, Returns, Running, Keeps, Live, External, crVars

(* A modification that ends the pass with an error in any case. *)
LEMMA ModifiesAndFailsCall ==
  ASSUME Live, pc = "update",
         "status" \in DOMAIN aws', aws'.status \notin {"none", "deleting"},
         UNCHANGED crVars,
         NEW r, "cond" \in DOMAIN r, r.cond \in Conds, NEW e \in HandedToOnError,
         FailWith(r, e)
  PROVE  Call
  BY FailWithFails DEF Call, Returns, Running, Keeps, Live, External, crVars

LEMMA DeletesCall ==
  ASSUME Shape, NEW deletable, NEW after \in {"deleting", "none"},
         deletable => aws.status \notin {"none", "deleting"},
         Deletes(deletable, after)
  PROVE  Call
<1>1. /\ pc = "delete" /\ External = "live" /\ UNCHANGED <<cr, queued>>
      /\ aws' = [aws EXCEPT !.status = after]
      /\ DeleteDone \/ DeleteReturns(latest, "awsOther")
  BY DEF Deletes, External, crVars
<1>2. "status" \in DOMAIN aws' /\ External' \in {"dying", "none"}
  BY <1>1 DEF Shape, External
<1>3. CASE DeleteDone
  BY <1>1, <1>2, <1>3 DEF DeleteDone, Call, Returns, Running, Destroys, Shape
<1>4. CASE DeleteReturns(latest, "awsOther")
  BY <1>1, <1>2, <1>4, FailWithFails
  DEF HandedToOnError, Call, Returns, Running, Destroys, Shape
<1> QED
  BY <1>1, <1>3, <1>4

LEMMA DeleteRefusedCall ==
  ASSUME Shape, NEW deletable, NEW e \in HandedToOnError, DeleteRefused(deletable, e)
  PROVE  Call
<1>1. PICK any \in HandedToOnError :
        pc = "delete" /\ UNCHANGED <<cr, queued, aws>> /\ DeleteReturns(latest, any)
  BY DEF DeleteRefused, crVars, HandedToOnError
<1> QED
  BY <1>1, FailWithFails DEF Call, Returns, Running, Keeps, External, Shape

-----------------------------------------------------------------------------
(* What follows from the contract.                                         *)

LEMMA ShapeInductive ==
  ASSUME Shape, Step
  PROVE  Shape'
<1> USE DEF Shape, IsCR
<1>1. CASE \E specs : UserEdit(specs)
  BY <1>1 DEF UserEdit, ctlVars
<1>2. CASE UserDelete
  BY <1>2 DEF UserDelete, ctlVars
<1>3. CASE Fetch
  <2>1. desired' = [cr EXCEPT !.cond = IF cr.del THEN @ ELSE NoConds] /\ NoConds \in Conds
    BY <1>3 DEF Fetch, NoConds, Conds, CondStatus
  <2> QED
    BY <1>3, <2>1 DEF Fetch, Errors
<1>4. CASE Manage
  BY <1>4 DEF Manage
<1>5. CASE PatchSpec
  BY <1>5 DEF PatchSpec
<1>6. CASE \E isSynced : PatchStatusBy(isSynced)
  <2>1. PICK isSynced : PatchStatusBy(isSynced)
    BY <1>6
  <2>2. ensureConditionsBy(latest.cond, err, isSynced) \in Conds
    BY ConditionsType
  <2> QED
    BY <2>1, <2>2 DEF PatchStatusBy
<1>7. CASE FetchGone \/ ReadOneNotFound \/ ReadBackFails \/ LateInitialize
           \/ ReadDeleteNotFound \/ Unmanage \/ Crash
  BY <1>7 DEF FetchGone, ReadOneNotFound, ReadBackFails, LateInitialize, ReadDeleteNotFound,
              Unmanage, Crash, crVars, ctlVars, Errors
<1>8. CASE Service
  BY <1>8 DEF Service
<1>9. CASE Call
  BY <1>9 DEF Call, Returns, Fails
<1> QED
  BY <1>1, <1>2, <1>3, <1>4, <1>5, <1>6, <1>7, <1>8, <1>9 DEF Step, RuntimeStep, KindlessStep

(* The runtime's part in the lifecycle is that of every kind. *)
LEMMA RuntimeLife ==
  ASSUME Shape, Live, LifecycleInv, RuntimeStep
  PROVE  LifecycleInv'
<1> DEFINE CR(r) == IsCR(r, {cr.spec, desired.spec}, {cr.ann, desired.ann},
                         {cr.status, desired.status})
<1>1. CR(cr) /\ CR(desired)
  BY DEF Shape, IsCR
<1>2. CASE \/ UserDelete \/ Fetch \/ ReadOneNotFound \/ Manage
           \/ ReadDeleteNotFound \/ Unmanage
  BY <1>1, <1>2, RuntimeMilestones
<1>3. CASE LateInitialize
  <2>1. QuietStep
    BY <1>3 DEF LateInitialize, QuietStep, External, crVars
  <2> QED
    BY <2>1, QuietInductive
<1>4. ASSUME \/ \E specs : UserEdit(specs)
             \/ FetchGone \/ ReadBackFails \/ PatchSpec
             \/ \E isSynced : PatchStatusBy(isSynced)
             \/ Crash
      PROVE  QuietStep
  BY <1>1, <1>4, RuntimeQuiet
<1> QED
  BY <1>2, <1>3, <1>4, QuietInductive DEF RuntimeStep, KindlessStep

LEMMA LifeInductive ==
  ASSUME Shape, Live, LifecycleInv, Step
  PROVE  LifecycleInv'
<1> USE DEF LifecycleInv, FinalizerHolds, CreatesBehindFinalizer, DeletesOnRequest
<1>1. CASE RuntimeStep
  BY <1>1, RuntimeLife
<1>2. CASE Service
  BY <1>2 DEF Service, External
<1>3. CASE Call /\ Keeps
  BY <1>3 DEF Call, Returns, Keeps, Running, External
<1>4. CASE Call /\ Creates
  BY <1>4 DEF Call, Returns, Creates, External
<1>5. CASE Call /\ Destroys
  BY <1>5 DEF Call, Returns, Destroys, External
<1> QED
  BY <1>1, <1>2, <1>3, <1>4, <1>5 DEF Step, Call

LEMMA LiveInductive ==
  ASSUME Shape, Live, LifecycleInv, Step
  PROVE  Live'
<1> USE DEF Live, Shape, IsCR, crVars, ctlVars
<1>1. CASE (\E specs : UserEdit(specs)) \/ UserDelete
  BY <1>1 DEF UserEdit, UserDelete
<1>2. CASE Fetch
  BY <1>2 DEF Fetch, LifecycleInv
<1>3. CASE Manage
  BY <1>3 DEF Manage
<1>4. CASE FetchGone \/ ReadOneNotFound \/ ReadBackFails \/ LateInitialize
           \/ ReadDeleteNotFound \/ Unmanage \/ PatchSpec \/ Crash
  BY <1>4 DEF FetchGone, ReadOneNotFound, ReadBackFails, LateInitialize, ReadDeleteNotFound,
              Unmanage, PatchSpec, Crash
<1>5. CASE \E isSynced : PatchStatusBy(isSynced)
  BY <1>5 DEF PatchStatusBy
<1>6. CASE Service
  BY <1>6 DEF Service, External
<1>7. CASE Call
  <2>1. CASE Keeps
    BY <1>7, <2>1 DEF Call, Returns, Keeps, Running, External
  <2>2. CASE Creates
    BY <1>7, <2>2 DEF Call, Returns, Creates, External
  <2>3. CASE Destroys
    BY <1>7, <2>3 DEF Call, Returns, Destroys, External, LifecycleInv, DeletesOnRequest
  <2> QED
    BY <1>7, <2>1, <2>2, <2>3 DEF Call
<1> QED
  BY <1>1, <1>2, <1>3, <1>4, <1>5, <1>6, <1>7 DEF Step, RuntimeStep, KindlessStep

LEMMA QueueInductive ==
  ASSUME Shape, QueueInv, Step
  PROVE  QueueInv'
<1>1. IsCR(cr, {cr.spec}, {cr.ann}, {cr.status}) /\ latest.cond \in Conds
  BY DEF Shape
<1>2. CASE (\E specs : UserEdit(specs)) \/ UserDelete
  BY <1>1, <1>2, UserLeavesPass, OthersQueue
<1>3. CASE \/ Fetch \/ FetchGone \/ ReadOneNotFound \/ Manage \/ ReadBackFails
           \/ PatchSpec \/ (\E isSynced : PatchStatusBy(isSynced))
           \/ ReadDeleteNotFound \/ Unmanage \/ Crash
  BY <1>1, <1>3, RuntimeQueue
<1>4. CASE LateInitialize
  BY <1>4 DEF LateInitialize, QueueInv, NeverAbandoned, Running, crVars
<1>5. CASE Service
  BY <1>5 DEF Service, QueueInv, NeverAbandoned, Running
<1>6. CASE Call
  <2>1. pc' # "idle"
    BY <1>6 DEF Call, Keeps, Creates, Destroys
  <2>2. PassGoesOn
    BY <1>6, <2>1 DEF PassGoesOn, Call, Fails, QueueInv, Running
  <2> QED
    BY <2>2, OthersQueue
<1> QED
  BY <1>2, <1>3, <1>4, <1>5, <1>6 DEF Step, RuntimeStep, KindlessStep

(* Under the invariants every step is one of the lifecycle, or none. *)
LEMMA LifecycleStep ==
  ASSUME Shape, Live, LifecycleInv, Step
  PROVE  [Lifecycle!Next]_(Lifecycle!vars)
<1> USE DEF Shape, IsCR, Lifecycle!Next, Lifecycle!vars, crVars, ctlVars
<1>1. CASE \E specs : UserEdit(specs)
  BY <1>1 DEF UserEdit
<1>2. CASE UserDelete
  BY <1>2 DEF UserDelete, Lifecycle!RequestDeletion
<1>3. CASE Manage
  BY <1>3 DEF Manage, Lifecycle!Hold
<1>4. CASE Unmanage
  <2>1. cr.del /\ cr.fin /\ aws.status \in {"none", "deleting"}
    BY <1>4 DEF Unmanage, LifecycleInv, DeletesOnRequest
  <2> QED
    BY <1>4, <2>1 DEF Unmanage, Lifecycle!Release
<1>5. CASE Fetch \/ FetchGone \/ ReadOneNotFound \/ ReadBackFails \/ LateInitialize
           \/ ReadDeleteNotFound \/ PatchSpec \/ Crash
  BY <1>5 DEF Fetch, FetchGone, ReadOneNotFound, ReadBackFails, LateInitialize,
              ReadDeleteNotFound, PatchSpec, Crash
<1>6. CASE \E isSynced : PatchStatusBy(isSynced)
  BY <1>6 DEF PatchStatusBy
<1>7. CASE Service
  BY <1>7 DEF Service, External, Lifecycle!Vanish
<1>8. CASE Call
  <2>1. CASE Keeps
    BY <1>8, <2>1 DEF Call, Returns, Keeps, External
  <2>2. CASE Creates
    <3>1. cr.fin /\ cr.exists
      BY <2>2 DEF Creates, LifecycleInv, CreatesBehindFinalizer, FinalizerHolds
    <3> QED
      BY <1>8, <2>2, <3>1 DEF Call, Returns, Creates, External, Lifecycle!Create
  <2>3. CASE Destroys
    <3>1. cr.del
      BY <2>3 DEF Destroys, LifecycleInv, DeletesOnRequest
    <3> QED
      BY <1>8, <2>3, <3>1 DEF Call, Returns, Destroys, External, Lifecycle!Destroy
  <2> QED
    BY <1>8, <2>1, <2>2, <2>3 DEF Call
<1> QED
  BY <1>1, <1>2, <1>3, <1>4, <1>5, <1>6, <1>7, <1>8 DEF Step, RuntimeStep, KindlessStep

-----------------------------------------------------------------------------
(* User. *)

(* What User has of Manager and of Runtime is theirs. *)
LEMMA UserInherits ==
  /\ \A c : U!onSuccess(c) = onSuccess(c)
  /\ \A r : U!AsLatest(r) = AsLatest(r)
  /\ \A r, e : U!FailWith(r, e) => FailWith(r, e)
  /\ \A r, e : U!DeleteReturns(r, e) => DeleteReturns(r, e)
  /\ \A r, d : U!Observes(r, d) => Observes(r, d)
  /\ \A r : U!ReadsBack(r) => ReadsBack(r)
  /\ \A r : U!ObservesDoomed(r) => ObservesDoomed(r)
  /\ \A r, w, n : U!Answers(r, w, n) => Answers(r, w, n)
  /\ \A v, e, w : U!Refused(v, e, w) => Refused(v, e, w)
  /\ \A r, e : U!GivesUp(r, e) => GivesUp(r, e)
  /\ \A d, a : U!Deletes(d, a) => Deletes(d, a)
  /\ \A d, e : U!DeleteRefused(d, e) => DeleteRefused(d, e)
  /\ U!ReadOneFails => ReadOneFails
  /\ U!ReadDeleteFails => ReadDeleteFails
<1> USE DEF U!crVars, crVars, U!ctlVars, ctlVars, U!Fault, Fault
<1>1. \A c : U!onSuccess(c) = onSuccess(c)
  BY DEF U!onSuccess, onSuccess, U!updateConditions, updateConditions, U!terminalAWSError,
         terminalAWSError, U!Cleared, Cleared
<1>2. \A r : U!AsLatest(r) = AsLatest(r)
  BY DEF U!AsLatest, AsLatest
<1>3. \A r, e : U!FailWith(r, e) => FailWith(r, e)
  BY DEF U!FailWith, FailWith, U!onErrorConds, onErrorConds, U!onErrorResult, onErrorResult,
         U!updateConditions, updateConditions, U!terminalAWSError, terminalAWSError,
         U!Cleared, Cleared
<1>4. \A r, e : U!DeleteReturns(r, e) => DeleteReturns(r, e)
  BY DEF U!DeleteReturns, DeleteReturns, U!onErrorConds, onErrorConds, U!onErrorResult,
         onErrorResult, U!updateConditions, updateConditions, U!terminalAWSError,
         terminalAWSError, U!Cleared, Cleared
<1>5. \A r, d : U!Observes(r, d) => Observes(r, d)
  BY DEF U!Observes, Observes
<1>6. \A r : U!ReadsBack(r) => ReadsBack(r)
  BY DEF U!ReadsBack, ReadsBack
<1>7. \A r : U!ObservesDoomed(r) => ObservesDoomed(r)
  BY DEF U!ObservesDoomed, ObservesDoomed
<1>8. \A r, w, n : U!Answers(r, w, n) => Answers(r, w, n)
  BY <1>3 DEF U!Answers, Answers
<1>9. \A v, e, w : U!Refused(v, e, w) => Refused(v, e, w)
  BY <1>3 DEF U!Refused, Refused
<1>10. \A r, e : U!GivesUp(r, e) => GivesUp(r, e)
  BY <1>3 DEF U!GivesUp, GivesUp
<1>11. \A d, a : U!Deletes(d, a) => Deletes(d, a)
  BY <1>4 DEF U!Deletes, Deletes, U!DeleteDone, DeleteDone
<1>12. \A d, e : U!DeleteRefused(d, e) => DeleteRefused(d, e)
  BY <1>4 DEF U!DeleteRefused, DeleteRefused
<1>13. U!ReadOneFails => ReadOneFails
  BY <1>3, <1>2 DEF U!ReadOneFails, ReadOneFails
<1>14. U!ReadDeleteFails => ReadDeleteFails
  BY <1>2 DEF U!ReadDeleteFails, ReadDeleteFails
<1> QED
  BY <1>1, <1>2, <1>3, <1>4, <1>5, <1>6, <1>7, <1>8, <1>9, <1>10, <1>11, <1>12, <1>13, <1>14

LEMMA UserRuntime ==
  /\ \A specs : U!UserEdit(specs) => UserEdit(specs)
  /\ U!UserDelete => UserDelete
  /\ U!KindlessStep => KindlessStep
  /\ \A b : U!PatchStatusBy(b) => PatchStatusBy(b)
  /\ U!Crash => Crash
  /\ \A spec, status : U!StartsWith(spec, status) => StartsWith(spec, status)
<1> USE DEF U!crVars, crVars, U!ctlVars, ctlVars, U!Fault, Fault
<1>1. \A specs : U!UserEdit(specs) => UserEdit(specs)
  BY DEF U!UserEdit, UserEdit
<1>2. U!UserDelete => UserDelete
  BY DEF U!UserDelete, UserDelete
<1>3. U!KindlessStep => KindlessStep
  BY DEF U!KindlessStep, KindlessStep, U!Fetch, Fetch, U!FetchGone, FetchGone,
         U!ReadOneNotFound, ReadOneNotFound, U!Manage, Manage, U!ReadBackFails,
         ReadBackFails, U!PatchSpec, PatchSpec, U!LateInitialize, LateInitialize,
         U!ReadDeleteNotFound, ReadDeleteNotFound, U!Unmanage, Unmanage, U!NoConds, NoConds,
         U!Patch, Patch
<1>4. \A b : U!PatchStatusBy(b) => PatchStatusBy(b)
  BY DEF U!PatchStatusBy, PatchStatusBy, U!ensureConditionsBy, ensureConditionsBy,
         U!Requeues, Requeues
<1>5. U!Crash => Crash
  BY DEF U!Crash, Crash
<1>6. \A spec, status : U!StartsWith(spec, status) => StartsWith(spec, status)
  BY DEF U!StartsWith, StartsWith, U!NewResource, NewResource, U!NoConds, NoConds,
         U!NoAnnotations, NoAnnotations, U!AsLatest, AsLatest, U!StartsIdle, StartsIdle
<1> QED
  BY <1>1, <1>2, <1>3, <1>4, <1>5, <1>6

LEMMA UserResults ==
  ASSUME Shape
  PROVE  /\ "cond" \in DOMAIN U!sdkFind(desired) /\ U!sdkFind(desired).cond \in Conds
         /\ U!sdkFind(latest).cond \in Conds
         /\ \A user : /\ "cond" \in DOMAIN U!callOutput(desired, user)
                      /\ U!callOutput(desired, user).cond \in Conds
<1>1. \A state : U!setSyncedCondition(state) \in {"True", "False"}
  BY DEF U!setSyncedCondition
<1>2. \A c \in Conds : \A state :
        onSuccess([c EXCEPT !.synced = U!setSyncedCondition(state)]) \in Conds
  BY <1>1, ResultConds
<1> QED
  BY <1>2, AsLatestConds, UserInherits DEF U!sdkFind, U!callOutput

LEMMA UserContract ==
  ASSUME Shape, Live, U!Next
  PROVE  Step
<1> USE AsLatestConds, UserResults, UserInherits
<1>1. CASE U!UserEdit(U!Edited) \/ U!UserDelete \/ U!KindlessStep
           \/ U!PatchStatus \/ U!Crash
  BY <1>1, UserRuntime DEF U!PatchStatus, Step, RuntimeStep
<1>2. CASE U!AwsProgress
  BY <1>2 DEF U!AwsProgress, U!AwsSettles, U!AwsDeleted, U!ServiceStep, U!crVars, U!ctlVars,
               Step, Service, External, Shape
<1>3. CASE U!ReadOne
  <2>1. PICK differs : Observes(U!sdkFind(desired), differs)
    BY <1>3 DEF U!ReadOne
  <2> QED
    BY <2>1, ObservesCall DEF Step
<1>4. CASE U!ReadOneFails \/ U!ReadDeleteFails
  BY <1>4, ReadsFailCall DEF Step
<1>5. CASE U!Create
  <2>1. /\ pc = "create" /\ aws.status = "none" /\ UNCHANGED crVars
        /\ "status" \in DOMAIN aws' /\ aws'.status \notin {"none", "deleting"}
        /\ Answers(U!callOutput(desired, aws'), AsLatest(desired), "readBack")
    BY <1>5 DEF U!Create, U!crVars, crVars
  <2> QED
    BY <2>1, CreatesCall DEF Step
<1>6. CASE U!CreateFails
  <2>1. pc = "create" /\ Refused(U!ValidType(desired.spec), "awsTerminal", AsLatest(desired))
    BY <1>6 DEF U!CreateFails
  <2> QED
    BY <2>1, RefusedCall DEF Step, Running, HandedToOnError
<1>7. CASE U!ReadBack
  BY <1>7, ReadsBackCall DEF U!ReadBack, Step
<1>8. CASE U!ModifyWaits
  <2>1. pc = "update" /\ GivesUp(latest, "requeue")
    BY <1>8 DEF U!ModifyWaits
  <2> QED
    BY <2>1, GivesUpCall DEF GivesUp, Step, Running, HandedToOnError
<1>9. CASE U!ModifyUser
  <2>1. /\ pc = "update" /\ UNCHANGED crVars
        /\ "status" \in DOMAIN aws' /\ aws'.status \notin {"none", "deleting"}
        /\ Answers(U!callOutput(desired, aws'), latest, "patchSpec")
    BY <1>9 DEF U!ModifyUser, U!crVars, crVars, Shape, Live
  <2> QED
    BY <2>1, ModifiesCall DEF Step
<1>10. CASE U!ModifyUserFails
  <2>1. pc = "update" /\ Refused(U!ValidType(desired.spec), "awsTerminal", latest)
    BY <1>10 DEF U!ModifyUserFails
  <2> QED
    BY <2>1, RefusedCall DEF Step, Running, HandedToOnError
<1>11. CASE U!ReadDelete
  BY <1>11, ObservesDoomedCall DEF U!ReadDelete, Step
<1>12. CASE U!Delete
  <2>1. Deletes(aws.status = "active", "deleting")
    BY <1>12 DEF U!Delete
  <2> QED
    BY <2>1, DeletesCall DEF Step
<1>13. CASE U!DeleteFails
  <2>1. DeleteRefused(aws.status = "active", "awsTerminal")
    BY <1>13 DEF U!DeleteFails
  <2> QED
    BY <2>1, DeleteRefusedCall DEF Step, HandedToOnError
<1> QED
  BY <1>1, <1>2, <1>3, <1>4, <1>5, <1>6, <1>7, <1>8, <1>9, <1>10, <1>11, <1>12, <1>13
  DEF U!Next, U!Controller

-----------------------------------------------------------------------------
(* UserGroup. *)

(* What UserGroup has of Manager and of Runtime is theirs. *)
LEMMA UserGroupInherits ==
  /\ \A c : UG!onSuccess(c) = onSuccess(c)
  /\ \A r : UG!AsLatest(r) = AsLatest(r)
  /\ \A r, e : UG!FailWith(r, e) => FailWith(r, e)
  /\ \A r, e : UG!DeleteReturns(r, e) => DeleteReturns(r, e)
  /\ \A r, d : UG!Observes(r, d) => Observes(r, d)
  /\ \A r : UG!ReadsBack(r) => ReadsBack(r)
  /\ \A r : UG!ObservesDoomed(r) => ObservesDoomed(r)
  /\ \A r, w, n : UG!Answers(r, w, n) => Answers(r, w, n)
  /\ \A v, e, w : UG!Refused(v, e, w) => Refused(v, e, w)
  /\ \A r, e : UG!GivesUp(r, e) => GivesUp(r, e)
  /\ \A d, a : UG!Deletes(d, a) => Deletes(d, a)
  /\ \A d, e : UG!DeleteRefused(d, e) => DeleteRefused(d, e)
  /\ UG!ReadOneFails => ReadOneFails
  /\ UG!ReadDeleteFails => ReadDeleteFails
<1> USE DEF UG!crVars, crVars, UG!ctlVars, ctlVars, UG!Fault, Fault
<1>1. \A c : UG!onSuccess(c) = onSuccess(c)
  BY DEF UG!onSuccess, onSuccess, UG!updateConditions, updateConditions,
         UG!terminalAWSError, terminalAWSError, UG!Cleared, Cleared
<1>2. \A r : UG!AsLatest(r) = AsLatest(r)
  BY DEF UG!AsLatest, AsLatest
<1>3. \A r, e : UG!FailWith(r, e) => FailWith(r, e)
  BY DEF UG!FailWith, FailWith, UG!onErrorConds, onErrorConds, UG!onErrorResult,
         onErrorResult, UG!updateConditions, updateConditions, UG!terminalAWSError,
         terminalAWSError, UG!Cleared, Cleared
<1>4. \A r, e : UG!DeleteReturns(r, e) => DeleteReturns(r, e)
  BY DEF UG!DeleteReturns, DeleteReturns, UG!onErrorConds, onErrorConds, UG!onErrorResult,
         onErrorResult, UG!updateConditions, updateConditions, UG!terminalAWSError,
         terminalAWSError, UG!Cleared, Cleared
<1>5. \A r, d : UG!Observes(r, d) => Observes(r, d)
  BY DEF UG!Observes, Observes
<1>6. \A r : UG!ReadsBack(r) => ReadsBack(r)
  BY DEF UG!ReadsBack, ReadsBack
<1>7. \A r : UG!ObservesDoomed(r) => ObservesDoomed(r)
  BY DEF UG!ObservesDoomed, ObservesDoomed
<1>8. \A r, w, n : UG!Answers(r, w, n) => Answers(r, w, n)
  BY <1>3 DEF UG!Answers, Answers
<1>9. \A v, e, w : UG!Refused(v, e, w) => Refused(v, e, w)
  BY <1>3 DEF UG!Refused, Refused
<1>10. \A r, e : UG!GivesUp(r, e) => GivesUp(r, e)
  BY <1>3 DEF UG!GivesUp, GivesUp
<1>11. \A d, a : UG!Deletes(d, a) => Deletes(d, a)
  BY <1>4 DEF UG!Deletes, Deletes, UG!DeleteDone, DeleteDone
<1>12. \A d, e : UG!DeleteRefused(d, e) => DeleteRefused(d, e)
  BY <1>4 DEF UG!DeleteRefused, DeleteRefused
<1>13. UG!ReadOneFails => ReadOneFails
  BY <1>3, <1>2 DEF UG!ReadOneFails, ReadOneFails
<1>14. UG!ReadDeleteFails => ReadDeleteFails
  BY <1>2 DEF UG!ReadDeleteFails, ReadDeleteFails
<1> QED
  BY <1>1, <1>2, <1>3, <1>4, <1>5, <1>6, <1>7, <1>8, <1>9, <1>10, <1>11, <1>12, <1>13, <1>14

LEMMA UserGroupRuntime ==
  /\ \A specs : UG!UserEdit(specs) => UserEdit(specs)
  /\ UG!UserDelete => UserDelete
  /\ UG!KindlessStep => KindlessStep
  /\ \A b : UG!PatchStatusBy(b) => PatchStatusBy(b)
  /\ UG!Crash => Crash
  /\ \A spec, status : UG!StartsWith(spec, status) => StartsWith(spec, status)
<1> USE DEF UG!crVars, crVars, UG!ctlVars, ctlVars, UG!Fault, Fault
<1>1. \A specs : UG!UserEdit(specs) => UserEdit(specs)
  BY DEF UG!UserEdit, UserEdit
<1>2. UG!UserDelete => UserDelete
  BY DEF UG!UserDelete, UserDelete
<1>3. UG!KindlessStep => KindlessStep
  BY DEF UG!KindlessStep, KindlessStep, UG!Fetch, Fetch, UG!FetchGone, FetchGone,
         UG!ReadOneNotFound, ReadOneNotFound, UG!Manage, Manage, UG!ReadBackFails,
         ReadBackFails, UG!PatchSpec, PatchSpec, UG!LateInitialize, LateInitialize,
         UG!ReadDeleteNotFound, ReadDeleteNotFound, UG!Unmanage, Unmanage, UG!NoConds,
         NoConds, UG!Patch, Patch
<1>4. \A b : UG!PatchStatusBy(b) => PatchStatusBy(b)
  BY DEF UG!PatchStatusBy, PatchStatusBy, UG!ensureConditionsBy, ensureConditionsBy,
         UG!Requeues, Requeues
<1>5. UG!Crash => Crash
  BY DEF UG!Crash, Crash
<1>6. \A spec, status : UG!StartsWith(spec, status) => StartsWith(spec, status)
  BY DEF UG!StartsWith, StartsWith, UG!NewResource, NewResource, UG!NoConds, NoConds,
         UG!NoAnnotations, NoAnnotations, UG!AsLatest, AsLatest, UG!StartsIdle, StartsIdle
<1> QED
  BY <1>1, <1>2, <1>3, <1>4, <1>5, <1>6

LEMMA UserGroupResults ==
  ASSUME Shape
  PROVE  /\ "cond" \in DOMAIN UG!sdkFind(desired) /\ UG!sdkFind(desired).cond \in Conds
         /\ UG!sdkFind(latest).cond \in Conds
         /\ \A group : /\ "cond" \in DOMAIN UG!createOutput(desired, group)
                       /\ UG!createOutput(desired, group).cond \in Conds
                       /\ "cond" \in DOMAIN UG!modifyOutput(desired, group)
                       /\ UG!modifyOutput(desired, group).cond \in Conds
  BY ResultConds, AsLatestConds, UserGroupInherits
  DEF UG!sdkFind, UG!createOutput, UG!modifyOutput

LEMMA UserGroupContract ==
  ASSUME Shape, Live, UG!Next
  PROVE  Step
<1> USE AsLatestConds, UserGroupResults, UserGroupInherits
<1>1. CASE UG!UserEdit(UG!Specs) \/ UG!UserDelete \/ UG!KindlessStep
           \/ UG!PatchStatusBy(UG!IsSynced) \/ UG!Crash
  BY <1>1, UserGroupRuntime DEF Step, RuntimeStep
<1>2. CASE UG!AwsProgress \/ UG!AwsAttaches
  BY <1>2 DEF UG!AwsProgress, UG!AwsSettles, UG!AwsAttaches, UG!AwsDeleted, UG!ServiceStep,
               UG!Group, UG!crVars, UG!ctlVars, Step, Service, External, Shape
<1>3. CASE UG!ReadOne
  <2>1. PICK differs : Observes(UG!sdkFind(desired), differs)
    BY <1>3 DEF UG!ReadOne
  <2> QED
    BY <2>1, ObservesCall DEF Step
<1>4. CASE UG!ReadOneFails \/ UG!ReadDeleteFails
  BY <1>4, ReadsFailCall DEF Step
<1>5. CASE UG!Create
  <2>1. /\ pc = "create" /\ aws.status = "none" /\ UNCHANGED crVars
        /\ "status" \in DOMAIN aws' /\ aws'.status \notin {"none", "deleting"}
        /\ Answers(UG!createOutput(desired, aws'), AsLatest(desired), "readBack")
    BY <1>5 DEF UG!Create, UG!Group, UG!crVars, crVars
  <2> QED
    BY <2>1, CreatesCall DEF Step
<1>6. CASE UG!CreateFails
  <2>1. /\ pc = "create"
        /\ Refused(DefaultUser \in desired.spec.users, "awsTerminal", AsLatest(desired))
    BY <1>6 DEF UG!CreateFails
  <2> QED
    BY <2>1, RefusedCall DEF Step, Running, HandedToOnError
<1>7. CASE UG!ReadBack
  BY <1>7, ReadsBackCall DEF UG!ReadBack, Step
<1>8. CASE UG!requeueWaitUntilCanModify
  <2>1. pc = "update" /\ GivesUp(latest, "requeue")
    BY <1>8 DEF UG!requeueWaitUntilCanModify
  <2> QED
    BY <2>1, GivesUpCall DEF GivesUp, Step, Running, HandedToOnError
<1>9. CASE UG!ModifyUserGroup
  <2>1. /\ pc = "update" /\ UNCHANGED crVars
        /\ "status" \in DOMAIN aws' /\ aws'.status \notin {"none", "deleting"}
        /\ Answers(UG!modifyOutput(desired, aws'), latest, "patchSpec")
    BY <1>9 DEF UG!ModifyUserGroup, UG!crVars, crVars, Shape, Live
  <2> QED
    BY <2>1, ModifiesCall DEF Step
<1>10. CASE UG!ModifyUserGroupFails
  <2>1. CASE pc = "update" /\ Refused(aws.status = "active", "awsOther", latest)
    BY <2>1, RefusedCall DEF Step, Running, HandedToOnError
  <2>2. CASE /\ pc = "update"
             /\ Refused(aws.status # "active" \/ UG!ModifyValid, "awsTerminal", latest)
    BY <2>2, RefusedCall DEF Step, Running, HandedToOnError
  <2> QED
    BY <1>10, <2>1, <2>2 DEF UG!ModifyUserGroupFails
<1>11. CASE UG!ReadDelete
  BY <1>11, ObservesDoomedCall DEF UG!ReadDelete, Step
<1>12. CASE UG!Delete
  <2>1. Deletes(aws.status = "active", "deleting")
    BY <1>12 DEF UG!Delete
  <2> QED
    BY <2>1, DeletesCall DEF Step
<1>13. CASE UG!DeleteFails
  <2>1. DeleteRefused(aws.status = "active", "awsOther")
    BY <1>13 DEF UG!DeleteFails
  <2> QED
    BY <2>1, DeleteRefusedCall DEF Step, HandedToOnError
<1> QED
  BY <1>1, <1>2, <1>3, <1>4, <1>5, <1>6, <1>7, <1>8, <1>9, <1>10, <1>11, <1>12, <1>13
  DEF UG!Next, UG!Controller

-----------------------------------------------------------------------------
(* CacheSubnetGroup. *)

(* What CacheSubnetGroup has of Manager and of Runtime is theirs. *)
LEMMA CacheSubnetGroupInherits ==
  /\ \A c : CSG!onSuccess(c) = onSuccess(c)
  /\ \A r : CSG!AsLatest(r) = AsLatest(r)
  /\ \A r, e : CSG!FailWith(r, e) => FailWith(r, e)
  /\ \A r, e : CSG!DeleteReturns(r, e) => DeleteReturns(r, e)
  /\ \A r, d : CSG!Observes(r, d) => Observes(r, d)
  /\ \A r : CSG!ReadsBack(r) => ReadsBack(r)
  /\ \A r : CSG!ObservesDoomed(r) => ObservesDoomed(r)
  /\ \A r, w, n : CSG!Answers(r, w, n) => Answers(r, w, n)
  /\ \A v, e, w : CSG!Refused(v, e, w) => Refused(v, e, w)
  /\ \A r, e : CSG!GivesUp(r, e) => GivesUp(r, e)
  /\ \A d, a : CSG!Deletes(d, a) => Deletes(d, a)
  /\ \A d, e : CSG!DeleteRefused(d, e) => DeleteRefused(d, e)
  /\ CSG!ReadOneFails => ReadOneFails
  /\ CSG!ReadDeleteFails => ReadDeleteFails
<1> USE DEF CSG!crVars, crVars, CSG!ctlVars, ctlVars, CSG!Fault, Fault
<1>1. \A c : CSG!onSuccess(c) = onSuccess(c)
  BY DEF CSG!onSuccess, onSuccess, CSG!updateConditions, updateConditions,
         CSG!terminalAWSError, terminalAWSError, CSG!Cleared, Cleared
<1>2. \A r : CSG!AsLatest(r) = AsLatest(r)
  BY DEF CSG!AsLatest, AsLatest
<1>3. \A r, e : CSG!FailWith(r, e) => FailWith(r, e)
  BY DEF CSG!FailWith, FailWith, CSG!onErrorConds, onErrorConds, CSG!onErrorResult,
         onErrorResult, CSG!updateConditions, updateConditions, CSG!terminalAWSError,
         terminalAWSError, CSG!Cleared, Cleared
<1>4. \A r, e : CSG!DeleteReturns(r, e) => DeleteReturns(r, e)
  BY DEF CSG!DeleteReturns, DeleteReturns, CSG!onErrorConds, onErrorConds,
         CSG!onErrorResult, onErrorResult, CSG!updateConditions, updateConditions,
         CSG!terminalAWSError, terminalAWSError, CSG!Cleared, Cleared
<1>5. \A r, d : CSG!Observes(r, d) => Observes(r, d)
  BY DEF CSG!Observes, Observes
<1>6. \A r : CSG!ReadsBack(r) => ReadsBack(r)
  BY DEF CSG!ReadsBack, ReadsBack
<1>7. \A r : CSG!ObservesDoomed(r) => ObservesDoomed(r)
  BY DEF CSG!ObservesDoomed, ObservesDoomed
<1>8. \A r, w, n : CSG!Answers(r, w, n) => Answers(r, w, n)
  BY <1>3 DEF CSG!Answers, Answers
<1>9. \A v, e, w : CSG!Refused(v, e, w) => Refused(v, e, w)
  BY <1>3 DEF CSG!Refused, Refused
<1>10. \A r, e : CSG!GivesUp(r, e) => GivesUp(r, e)
  BY <1>3 DEF CSG!GivesUp, GivesUp
<1>11. \A d, a : CSG!Deletes(d, a) => Deletes(d, a)
  BY <1>4 DEF CSG!Deletes, Deletes, CSG!DeleteDone, DeleteDone
<1>12. \A d, e : CSG!DeleteRefused(d, e) => DeleteRefused(d, e)
  BY <1>4 DEF CSG!DeleteRefused, DeleteRefused
<1>13. CSG!ReadOneFails => ReadOneFails
  BY <1>3, <1>2 DEF CSG!ReadOneFails, ReadOneFails
<1>14. CSG!ReadDeleteFails => ReadDeleteFails
  BY <1>2 DEF CSG!ReadDeleteFails, ReadDeleteFails
<1> QED
  BY <1>1, <1>2, <1>3, <1>4, <1>5, <1>6, <1>7, <1>8, <1>9, <1>10, <1>11, <1>12, <1>13, <1>14

LEMMA CacheSubnetGroupRuntime ==
  /\ \A specs : CSG!UserEdit(specs) => UserEdit(specs)
  /\ CSG!UserDelete => UserDelete
  /\ CSG!KindlessStep => KindlessStep
  /\ \A b : CSG!PatchStatusBy(b) => PatchStatusBy(b)
  /\ CSG!Crash => Crash
  /\ \A spec, status : CSG!StartsWith(spec, status) => StartsWith(spec, status)
<1> USE DEF CSG!crVars, crVars, CSG!ctlVars, ctlVars, CSG!Fault, Fault
<1>1. \A specs : CSG!UserEdit(specs) => UserEdit(specs)
  BY DEF CSG!UserEdit, UserEdit
<1>2. CSG!UserDelete => UserDelete
  BY DEF CSG!UserDelete, UserDelete
<1>3. CSG!KindlessStep => KindlessStep
  BY DEF CSG!KindlessStep, KindlessStep, CSG!Fetch, Fetch, CSG!FetchGone, FetchGone,
         CSG!ReadOneNotFound, ReadOneNotFound, CSG!Manage, Manage, CSG!ReadBackFails,
         ReadBackFails, CSG!PatchSpec, PatchSpec, CSG!LateInitialize, LateInitialize,
         CSG!ReadDeleteNotFound, ReadDeleteNotFound, CSG!Unmanage, Unmanage, CSG!NoConds,
         NoConds, CSG!Patch, Patch
<1>4. \A b : CSG!PatchStatusBy(b) => PatchStatusBy(b)
  BY DEF CSG!PatchStatusBy, PatchStatusBy, CSG!ensureConditionsBy, ensureConditionsBy,
         CSG!Requeues, Requeues
<1>5. CSG!Crash => Crash
  BY DEF CSG!Crash, Crash
<1>6. \A spec, status : CSG!StartsWith(spec, status) => StartsWith(spec, status)
  BY DEF CSG!StartsWith, StartsWith, CSG!NewResource, NewResource, CSG!NoConds, NoConds,
         CSG!NoAnnotations, NoAnnotations, CSG!AsLatest, AsLatest, CSG!StartsIdle,
         StartsIdle
<1> QED
  BY <1>1, <1>2, <1>3, <1>4, <1>5, <1>6

LEMMA CacheSubnetGroupResults ==
  ASSUME Shape
  PROVE  /\ "cond" \in DOMAIN CSG!sdkFind(desired) /\ CSG!sdkFind(desired).cond \in Conds
         /\ CSG!sdkFind(latest).cond \in Conds
         /\ \A group : /\ "cond" \in DOMAIN CSG!callOutput(desired, group)
                       /\ CSG!callOutput(desired, group).cond \in Conds
  BY ResultConds, AsLatestConds, CacheSubnetGroupInherits DEF CSG!sdkFind, CSG!callOutput

LEMMA CacheSubnetGroupContract ==
  ASSUME Shape, Live, CSG!Next
  PROVE  Step
<1> USE AsLatestConds, CacheSubnetGroupResults, CacheSubnetGroupInherits
<1>1. CASE CSG!UserEdit(CSG!Specs) \/ CSG!UserDelete \/ CSG!KindlessStep
           \/ CSG!PatchStatus \/ CSG!Crash
  BY <1>1, CacheSubnetGroupRuntime DEF CSG!PatchStatus, Step, RuntimeStep
<1>2. CASE CSG!ReadOne
  <2>1. PICK differs : Observes(CSG!sdkFind(desired), differs)
    BY <1>2 DEF CSG!ReadOne
  <2> QED
    BY <2>1, ObservesCall DEF Step
<1>3. CASE CSG!ReadOneFails \/ CSG!ReadDeleteFails
  BY <1>3, ReadsFailCall DEF Step
<1>4. CASE CSG!Create
  <2>1. /\ pc = "create" /\ aws.status = "none" /\ UNCHANGED crVars
        /\ "status" \in DOMAIN aws' /\ aws'.status \notin {"none", "deleting"}
        /\ Answers(CSG!callOutput(desired, aws'), AsLatest(desired), "readBack")
    BY <1>4 DEF CSG!Create, CSG!crVars, crVars
  <2> QED
    BY <2>1, CreatesCall DEF Step
<1>5. CASE CSG!CreateFails
  <2>1. pc = "create" /\ Refused(CSG!CreateValid(desired.spec), "awsTerminal", AsLatest(desired))
    BY <1>5 DEF CSG!CreateFails
  <2> QED
    BY <2>1, RefusedCall DEF Step, Running, HandedToOnError
<1>6. CASE CSG!ReadBack
  BY <1>6, ReadsBackCall DEF CSG!ReadBack, Step
<1>7. CASE CSG!ModifyCacheSubnetGroup
  <2>1. /\ pc = "update" /\ UNCHANGED crVars
        /\ "status" \in DOMAIN aws' /\ aws'.status \notin {"none", "deleting"}
        /\ Answers(CSG!callOutput(desired, aws'), latest, "patchSpec")
    BY <1>7 DEF CSG!ModifyCacheSubnetGroup, CSG!crVars, crVars, Shape, Live
  <2> QED
    BY <2>1, ModifiesCall DEF Step
<1>8. CASE CSG!ModifyCacheSubnetGroupFails
  <2>1. pc = "update" /\ Refused(TRUE, "awsOther", latest)
    BY <1>8 DEF CSG!ModifyCacheSubnetGroupFails
  <2> QED
    BY <2>1, RefusedCall DEF Step, Running, HandedToOnError
<1>9. CASE CSG!ReadDelete
  BY <1>9, ObservesDoomedCall DEF CSG!ReadDelete, Step
<1>10. CASE CSG!Delete
  <2>1. Deletes(aws.status = "live", "none")
    BY <1>10 DEF CSG!Delete
  <2> QED
    BY <2>1, DeletesCall DEF Step
<1>11. CASE CSG!DeleteFails
  <2>1. DeleteRefused(aws.status = "live", "awsOther")
    BY <1>11 DEF CSG!DeleteFails
  <2> QED
    BY <2>1, DeleteRefusedCall DEF Step, HandedToOnError
<1> QED
  BY <1>1, <1>2, <1>3, <1>4, <1>5, <1>6, <1>7, <1>8, <1>9, <1>10, <1>11
  DEF CSG!Next, CSG!Controller

-----------------------------------------------------------------------------
(* CacheParameterGroup. *)

(* What CacheParameterGroup has of Manager and of Runtime is theirs. *)
LEMMA CacheParameterGroupInherits ==
  /\ \A c : CPG!onSuccess(c) = onSuccess(c)
  /\ \A r : CPG!AsLatest(r) = AsLatest(r)
  /\ \A r, e : CPG!FailWith(r, e) => FailWith(r, e)
  /\ \A r, e : CPG!DeleteReturns(r, e) => DeleteReturns(r, e)
  /\ \A r, d : CPG!Observes(r, d) => Observes(r, d)
  /\ \A r : CPG!ReadsBack(r) => ReadsBack(r)
  /\ \A r : CPG!ObservesDoomed(r) => ObservesDoomed(r)
  /\ \A r, w, n : CPG!Answers(r, w, n) => Answers(r, w, n)
  /\ \A v, e, w : CPG!Refused(v, e, w) => Refused(v, e, w)
  /\ \A r, e : CPG!GivesUp(r, e) => GivesUp(r, e)
  /\ \A d, a : CPG!Deletes(d, a) => Deletes(d, a)
  /\ \A d, e : CPG!DeleteRefused(d, e) => DeleteRefused(d, e)
  /\ CPG!ReadOneFails => ReadOneFails
  /\ CPG!ReadDeleteFails => ReadDeleteFails
<1> USE DEF CPG!crVars, crVars, CPG!ctlVars, ctlVars, CPG!Fault, Fault
<1>1. \A c : CPG!onSuccess(c) = onSuccess(c)
  BY DEF CPG!onSuccess, onSuccess, CPG!updateConditions, updateConditions,
         CPG!terminalAWSError, terminalAWSError, CPG!Cleared, Cleared
<1>2. \A r : CPG!AsLatest(r) = AsLatest(r)
  BY DEF CPG!AsLatest, AsLatest
<1>3. \A r, e : CPG!FailWith(r, e) => FailWith(r, e)
  BY DEF CPG!FailWith, FailWith, CPG!onErrorConds, onErrorConds, CPG!onErrorResult,
         onErrorResult, CPG!updateConditions, updateConditions, CPG!terminalAWSError,
         terminalAWSError, CPG!Cleared, Cleared
<1>4. \A r, e : CPG!DeleteReturns(r, e) => DeleteReturns(r, e)
  BY DEF CPG!DeleteReturns, DeleteReturns, CPG!onErrorConds, onErrorConds,
         CPG!onErrorResult, onErrorResult, CPG!updateConditions, updateConditions,
         CPG!terminalAWSError, terminalAWSError, CPG!Cleared, Cleared
<1>5. \A r, d : CPG!Observes(r, d) => Observes(r, d)
  BY DEF CPG!Observes, Observes
<1>6. \A r : CPG!ReadsBack(r) => ReadsBack(r)
  BY DEF CPG!ReadsBack, ReadsBack
<1>7. \A r : CPG!ObservesDoomed(r) => ObservesDoomed(r)
  BY DEF CPG!ObservesDoomed, ObservesDoomed
<1>8. \A r, w, n : CPG!Answers(r, w, n) => Answers(r, w, n)
  BY <1>3 DEF CPG!Answers, Answers
<1>9. \A v, e, w : CPG!Refused(v, e, w) => Refused(v, e, w)
  BY <1>3 DEF CPG!Refused, Refused
<1>10. \A r, e : CPG!GivesUp(r, e) => GivesUp(r, e)
  BY <1>3 DEF CPG!GivesUp, GivesUp
<1>11. \A d, a : CPG!Deletes(d, a) => Deletes(d, a)
  BY <1>4 DEF CPG!Deletes, Deletes, CPG!DeleteDone, DeleteDone
<1>12. \A d, e : CPG!DeleteRefused(d, e) => DeleteRefused(d, e)
  BY <1>4 DEF CPG!DeleteRefused, DeleteRefused
<1>13. CPG!ReadOneFails => ReadOneFails
  BY <1>3, <1>2 DEF CPG!ReadOneFails, ReadOneFails
<1>14. CPG!ReadDeleteFails => ReadDeleteFails
  BY <1>2 DEF CPG!ReadDeleteFails, ReadDeleteFails
<1> QED
  BY <1>1, <1>2, <1>3, <1>4, <1>5, <1>6, <1>7, <1>8, <1>9, <1>10, <1>11, <1>12, <1>13, <1>14

LEMMA CacheParameterGroupRuntime ==
  /\ \A specs : CPG!UserEdit(specs) => UserEdit(specs)
  /\ CPG!UserDelete => UserDelete
  /\ CPG!KindlessStep => KindlessStep
  /\ \A b : CPG!PatchStatusBy(b) => PatchStatusBy(b)
  /\ CPG!Crash => Crash
  /\ \A spec, status : CPG!StartsWith(spec, status) => StartsWith(spec, status)
<1> USE DEF CPG!crVars, crVars, CPG!ctlVars, ctlVars, CPG!Fault, Fault
<1>1. \A specs : CPG!UserEdit(specs) => UserEdit(specs)
  BY DEF CPG!UserEdit, UserEdit
<1>2. CPG!UserDelete => UserDelete
  BY DEF CPG!UserDelete, UserDelete
<1>3. CPG!KindlessStep => KindlessStep
  BY DEF CPG!KindlessStep, KindlessStep, CPG!Fetch, Fetch, CPG!FetchGone, FetchGone,
         CPG!ReadOneNotFound, ReadOneNotFound, CPG!Manage, Manage, CPG!ReadBackFails,
         ReadBackFails, CPG!PatchSpec, PatchSpec, CPG!LateInitialize, LateInitialize,
         CPG!ReadDeleteNotFound, ReadDeleteNotFound, CPG!Unmanage, Unmanage, CPG!NoConds,
         NoConds, CPG!Patch, Patch
<1>4. \A b : CPG!PatchStatusBy(b) => PatchStatusBy(b)
  BY DEF CPG!PatchStatusBy, PatchStatusBy, CPG!ensureConditionsBy, ensureConditionsBy,
         CPG!Requeues, Requeues
<1>5. CPG!Crash => Crash
  BY DEF CPG!Crash, Crash
<1>6. \A spec, status : CPG!StartsWith(spec, status) => StartsWith(spec, status)
  BY DEF CPG!StartsWith, StartsWith, CPG!NewResource, NewResource, CPG!NoConds, NoConds,
         CPG!NoAnnotations, NoAnnotations, CPG!AsLatest, AsLatest, CPG!StartsIdle,
         StartsIdle
<1> QED
  BY <1>1, <1>2, <1>3, <1>4, <1>5, <1>6

LEMMA CacheParameterGroupResults ==
  ASSUME Shape
  PROVE  /\ "cond" \in DOMAIN CPG!sdkFind(desired) /\ CPG!sdkFind(desired).cond \in Conds
         /\ CPG!sdkFind(latest).cond \in Conds
         /\ "cond" \in DOMAIN CPG!createOutput(desired)
         /\ CPG!createOutput(desired).cond \in Conds
<1>1. \A c \in Conds : \A spec :
        onSuccess(CPG!CustomCreateCacheParameterGroupSetOutput(c, spec)) \in Conds
  BY ResultConds DEF CPG!CustomCreateCacheParameterGroupSetOutput
<1> QED
  BY <1>1, ResultConds, AsLatestConds, CacheParameterGroupInherits
  DEF CPG!sdkFind, CPG!createOutput

(* A call of an update changes parameters only, and the pass goes on or ends. *)
LEMMA UpdatesCall ==
  ASSUME Shape, Live, pc = "update", NEW params, NEW done, CPG!Updates(params, done)
  PROVE  Call
<1>1. /\ UNCHANGED <<cr, queued>> /\ "status" \in DOMAIN aws' /\ External' = External
      /\ External = "live"
  BY DEF CPG!Updates, CPG!crVars, Shape, Live, External
<1>2. CASE /\ latest' = [latest EXCEPT !.done = @ \cup done]
           /\ UNCHANGED <<pc, desired, err, faults>>
  <2>1. "cond" \in DOMAIN latest' /\ latest'.cond = latest.cond
    BY <1>2 DEF Shape
  <2> QED
    BY <1>1, <1>2, <2>1 DEF Call, Returns, Keeps, Running, Shape
<1>3. CASE CPG!FailWith(latest, "awsOther")
  <2>1. FailWith(latest, "awsOther")
    BY <1>3, CacheParameterGroupInherits
  <2> QED
    BY <1>1, <2>1, FailWithFails, AsLatestConds
    DEF HandedToOnError, Call, Returns, Keeps, Running
<1> QED
  BY <1>2, <1>3 DEF CPG!Updates

LEMMA CacheParameterGroupContract ==
  ASSUME Shape, Live, CPG!Next
  PROVE  Step
<1> USE AsLatestConds, CacheParameterGroupResults, CacheParameterGroupInherits
<1>1. CASE CPG!UserEdit(CPG!Specs) \/ CPG!UserDelete \/ CPG!KindlessStep
           \/ CPG!PatchStatus \/ CPG!Crash
  BY <1>1, CacheParameterGroupRuntime DEF CPG!PatchStatus, Step, RuntimeStep
<1>2. CASE CPG!ReadOne
  <2>1. PICK differs : Observes(CPG!sdkFind(desired), differs)
    BY <1>2 DEF CPG!ReadOne
  <2> QED
    BY <2>1, ObservesCall DEF Step
<1>3. CASE CPG!ReadOneFails \/ CPG!ReadDeleteFails
  BY <1>3, ReadsFailCall DEF Step
<1>4. CASE CPG!Create
  <2>1. /\ pc = "create" /\ aws.status = "none" /\ UNCHANGED crVars
        /\ "status" \in DOMAIN aws' /\ aws'.status \notin {"none", "deleting"}
        /\ Answers(CPG!createOutput(desired), AsLatest(desired), "readBack")
    BY <1>4 DEF CPG!Create, CPG!crVars, crVars
  <2> QED
    BY <2>1, CreatesCall DEF Step
<1>5. CASE CPG!CreateFails
  <2>1. pc = "create" /\ Refused(TRUE, "awsOther", AsLatest(desired))
    BY <1>5 DEF CPG!CreateFails
  <2> QED
    BY <2>1, RefusedCall DEF Step, Running, HandedToOnError
<1>6. CASE CPG!ReadBack
  BY <1>6, ReadsBackCall DEF CPG!ReadBack, Step
<1>7. CASE CPG!resetAllParameters \/ CPG!resetParameters \/ CPG!saveModified \/ CPG!saveAdded
  <2>1. PICK params, done : pc = "update" /\ CPG!Updates(params, done)
    BY <1>7 DEF CPG!resetAllParameters, CPG!resetParameters, CPG!saveModified, CPG!saveAdded,
                CPG!saveParameters
  <2> QED
    BY <2>1, UpdatesCall DEF Step
<1>8. CASE CPG!UpdateFails
  <2>1. pc = "update" /\ Refused(TRUE, "awsOther", latest)
    BY <1>8 DEF CPG!UpdateFails
  <2> QED
    BY <2>1, RefusedCall DEF Step, Running, HandedToOnError
<1>9. CASE CPG!UpdateDone
  <2>1. /\ pc = "update" /\ UNCHANGED <<cr, queued, aws, desired, err>> /\ pc' = "patchSpec"
        /\ "cond" \in DOMAIN latest' /\ latest'.cond = onSuccess(latest.cond)
    BY <1>9 DEF CPG!UpdateDone, CPG!crVars, crVars
  <2> QED
    BY <2>1, ResultConds DEF Step, Call, Returns, Keeps, Running, External, Shape
<1>10. CASE CPG!RereadFails
  <2>1. pc = "update" /\ FailWith(latest, "awsOther") /\ UNCHANGED <<crVars, aws>>
    BY <1>10 DEF CPG!RereadFails, CPG!crVars, crVars
  <2> QED
    BY <2>1, GivesUpCall DEF Step, Running, HandedToOnError
<1>11. CASE CPG!ReadDelete
  BY <1>11, ObservesDoomedCall DEF CPG!ReadDelete, Step
<1>12. CASE CPG!Delete
  <2>1. Deletes(aws.status = "live", "none")
    BY <1>12 DEF CPG!Delete
  <2> QED
    BY <2>1, DeletesCall DEF Step
<1>13. CASE CPG!DeleteFails
  <2>1. DeleteRefused(aws.status = "live", "awsOther")
    BY <1>13 DEF CPG!DeleteFails
  <2> QED
    BY <2>1, DeleteRefusedCall DEF Step, HandedToOnError
<1> QED
  BY <1>1, <1>2, <1>3, <1>4, <1>5, <1>6, <1>7, <1>8, <1>9, <1>10, <1>11, <1>12, <1>13
  DEF CPG!Next, CPG!Controller

-----------------------------------------------------------------------------
(* ServerlessCacheSnapshot. *)

(* What ServerlessCacheSnapshot has of Manager and of Runtime is theirs. *)
LEMMA ServerlessCacheSnapshotInherits ==
  /\ \A c : SCS!onSuccess(c) = onSuccess(c)
  /\ \A r : SCS!AsLatest(r) = AsLatest(r)
  /\ \A r, e : SCS!FailWith(r, e) => FailWith(r, e)
  /\ \A r, e : SCS!DeleteReturns(r, e) => DeleteReturns(r, e)
  /\ \A r, d : SCS!Observes(r, d) => Observes(r, d)
  /\ \A r : SCS!ReadsBack(r) => ReadsBack(r)
  /\ \A r : SCS!ObservesDoomed(r) => ObservesDoomed(r)
  /\ \A r, w, n : SCS!Answers(r, w, n) => Answers(r, w, n)
  /\ \A v, e, w : SCS!Refused(v, e, w) => Refused(v, e, w)
  /\ \A r, e : SCS!GivesUp(r, e) => GivesUp(r, e)
  /\ \A d, a : SCS!Deletes(d, a) => Deletes(d, a)
  /\ \A d, e : SCS!DeleteRefused(d, e) => DeleteRefused(d, e)
  /\ SCS!ReadOneFails => ReadOneFails
  /\ SCS!ReadDeleteFails => ReadDeleteFails
<1> USE DEF SCS!crVars, crVars, SCS!ctlVars, ctlVars, SCS!Fault, Fault
<1>1. \A c : SCS!onSuccess(c) = onSuccess(c)
  BY DEF SCS!onSuccess, onSuccess, SCS!updateConditions, updateConditions,
         SCS!terminalAWSError, terminalAWSError, SCS!Cleared, Cleared
<1>2. \A r : SCS!AsLatest(r) = AsLatest(r)
  BY DEF SCS!AsLatest, AsLatest
<1>3. \A r, e : SCS!FailWith(r, e) => FailWith(r, e)
  BY DEF SCS!FailWith, FailWith, SCS!onErrorConds, onErrorConds, SCS!onErrorResult,
         onErrorResult, SCS!updateConditions, updateConditions, SCS!terminalAWSError,
         terminalAWSError, SCS!Cleared, Cleared
<1>4. \A r, e : SCS!DeleteReturns(r, e) => DeleteReturns(r, e)
  BY DEF SCS!DeleteReturns, DeleteReturns, SCS!onErrorConds, onErrorConds,
         SCS!onErrorResult, onErrorResult, SCS!updateConditions, updateConditions,
         SCS!terminalAWSError, terminalAWSError, SCS!Cleared, Cleared
<1>5. \A r, d : SCS!Observes(r, d) => Observes(r, d)
  BY DEF SCS!Observes, Observes
<1>6. \A r : SCS!ReadsBack(r) => ReadsBack(r)
  BY DEF SCS!ReadsBack, ReadsBack
<1>7. \A r : SCS!ObservesDoomed(r) => ObservesDoomed(r)
  BY DEF SCS!ObservesDoomed, ObservesDoomed
<1>8. \A r, w, n : SCS!Answers(r, w, n) => Answers(r, w, n)
  BY <1>3 DEF SCS!Answers, Answers
<1>9. \A v, e, w : SCS!Refused(v, e, w) => Refused(v, e, w)
  BY <1>3 DEF SCS!Refused, Refused
<1>10. \A r, e : SCS!GivesUp(r, e) => GivesUp(r, e)
  BY <1>3 DEF SCS!GivesUp, GivesUp
<1>11. \A d, a : SCS!Deletes(d, a) => Deletes(d, a)
  BY <1>4 DEF SCS!Deletes, Deletes, SCS!DeleteDone, DeleteDone
<1>12. \A d, e : SCS!DeleteRefused(d, e) => DeleteRefused(d, e)
  BY <1>4 DEF SCS!DeleteRefused, DeleteRefused
<1>13. SCS!ReadOneFails => ReadOneFails
  BY <1>3, <1>2 DEF SCS!ReadOneFails, ReadOneFails
<1>14. SCS!ReadDeleteFails => ReadDeleteFails
  BY <1>2 DEF SCS!ReadDeleteFails, ReadDeleteFails
<1> QED
  BY <1>1, <1>2, <1>3, <1>4, <1>5, <1>6, <1>7, <1>8, <1>9, <1>10, <1>11, <1>12, <1>13, <1>14

LEMMA ServerlessCacheSnapshotRuntime ==
  /\ \A specs : SCS!UserEdit(specs) => UserEdit(specs)
  /\ SCS!UserDelete => UserDelete
  /\ SCS!KindlessStep => KindlessStep
  /\ \A b : SCS!PatchStatusBy(b) => PatchStatusBy(b)
  /\ SCS!Crash => Crash
  /\ \A spec, status : SCS!StartsWith(spec, status) => StartsWith(spec, status)
<1> USE DEF SCS!crVars, crVars, SCS!ctlVars, ctlVars, SCS!Fault, Fault
<1>1. \A specs : SCS!UserEdit(specs) => UserEdit(specs)
  BY DEF SCS!UserEdit, UserEdit
<1>2. SCS!UserDelete => UserDelete
  BY DEF SCS!UserDelete, UserDelete
<1>3. SCS!KindlessStep => KindlessStep
  BY DEF SCS!KindlessStep, KindlessStep, SCS!Fetch, Fetch, SCS!FetchGone, FetchGone,
         SCS!ReadOneNotFound, ReadOneNotFound, SCS!Manage, Manage, SCS!ReadBackFails,
         ReadBackFails, SCS!PatchSpec, PatchSpec, SCS!LateInitialize, LateInitialize,
         SCS!ReadDeleteNotFound, ReadDeleteNotFound, SCS!Unmanage, Unmanage, SCS!NoConds,
         NoConds, SCS!Patch, Patch
<1>4. \A b : SCS!PatchStatusBy(b) => PatchStatusBy(b)
  BY DEF SCS!PatchStatusBy, PatchStatusBy, SCS!ensureConditionsBy, ensureConditionsBy,
         SCS!Requeues, Requeues
<1>5. SCS!Crash => Crash
  BY DEF SCS!Crash, Crash
<1>6. \A spec, status : SCS!StartsWith(spec, status) => StartsWith(spec, status)
  BY DEF SCS!StartsWith, StartsWith, SCS!NewResource, NewResource, SCS!NoConds, NoConds,
         SCS!NoAnnotations, NoAnnotations, SCS!AsLatest, AsLatest, SCS!StartsIdle,
         StartsIdle
<1> QED
  BY <1>1, <1>2, <1>3, <1>4, <1>5, <1>6

LEMMA ServerlessCacheSnapshotResults ==
  ASSUME Shape
  PROVE  /\ "cond" \in DOMAIN SCS!sdkFind(desired) /\ SCS!sdkFind(desired).cond \in Conds
         /\ SCS!sdkFind(latest).cond \in Conds
         /\ "cond" \in DOMAIN SCS!createOutput(desired)
         /\ SCS!createOutput(desired).cond \in Conds
  BY ResultConds, AsLatestConds, ServerlessCacheSnapshotInherits
  DEF SCS!sdkFind, SCS!createOutput

LEMMA ServerlessCacheSnapshotContract ==
  ASSUME Shape, Live, SCS!Next
  PROVE  Step
<1> USE AsLatestConds, ServerlessCacheSnapshotResults, ServerlessCacheSnapshotInherits
<1>1. CASE SCS!UserEdit(SCS!Specs) \/ SCS!UserDelete \/ SCS!KindlessStep
           \/ SCS!PatchStatusBy(SCS!IsSynced) \/ SCS!Crash
  BY <1>1, ServerlessCacheSnapshotRuntime DEF Step, RuntimeStep
<1>2. CASE SCS!AwsProgress \/ SCS!AwsCreateFails
  BY <1>2 DEF SCS!AwsProgress, SCS!AwsSettles, SCS!AwsCreateFails, SCS!AwsDeleted,
               SCS!ServiceStep, SCS!crVars, SCS!ctlVars, Step, Service, External, Shape
<1>3. CASE SCS!ReadOne
  <2>1. PICK differs : Observes(SCS!sdkFind(desired), differs)
    BY <1>3 DEF SCS!ReadOne
  <2> QED
    BY <2>1, ObservesCall DEF Step
<1>4. CASE SCS!ReadOneFails \/ SCS!ReadDeleteFails
  BY <1>4, ReadsFailCall DEF Step
<1>5. CASE SCS!Create
  <2>1. /\ pc = "create" /\ aws.status = "none" /\ UNCHANGED crVars
        /\ "status" \in DOMAIN aws' /\ aws'.status \notin {"none", "deleting"}
        /\ Answers(SCS!createOutput(desired), AsLatest(desired), "readBack")
    BY <1>5 DEF SCS!Create, SCS!crVars, crVars
  <2> QED
    BY <2>1, CreatesCall DEF Step
<1>6. CASE SCS!CreateFails
  <2>1. pc = "create" /\ Refused(TRUE, "awsOther", AsLatest(desired))
    BY <1>6 DEF SCS!CreateFails
  <2> QED
    BY <2>1, RefusedCall DEF Step, Running, HandedToOnError
<1>7. CASE SCS!ReadBack
  BY <1>7, ReadsBackCall DEF SCS!ReadBack, Step
<1>8. CASE SCS!WaitUntilCanModify
  <2>1. pc = "update" /\ GivesUp(AsLatest(desired), "requeue")
    BY <1>8 DEF SCS!WaitUntilCanModify
  <2> QED
    BY <2>1, GivesUpCall DEF GivesUp, Step, Running, HandedToOnError
<1>9. CASE SCS!syncTags
  <2>1. /\ pc = "update" /\ UNCHANGED crVars
        /\ "status" \in DOMAIN aws' /\ aws'.status \notin {"none", "deleting"}
        /\ \E e \in HandedToOnError : FailWith(AsLatest(desired), e)
    BY <1>9 DEF SCS!syncTags, HandedToOnError, SCS!crVars, crVars, Shape, Live
  <2> QED
    BY <2>1, ModifiesAndFailsCall DEF Step
<1>10. CASE SCS!syncTagsFails
  <2>1. pc = "update" /\ Refused(aws.status = "available", "awsOther", AsLatest(desired))
    BY <1>10 DEF SCS!syncTagsFails
  <2> QED
    BY <2>1, RefusedCall DEF Step, Running, HandedToOnError
<1>11. CASE SCS!TakeBack
  <2>1. /\ pc = "update" /\ UNCHANGED <<cr, queued, aws, desired, err>> /\ pc' = "patchSpec"
        /\ "cond" \in DOMAIN latest' /\ latest'.cond = onSuccess(latest.cond)
    BY <1>11 DEF SCS!TakeBack, SCS!crVars, crVars
  <2> QED
    BY <2>1, ResultConds DEF Step, Call, Returns, Keeps, Running, External, Shape
<1>12. CASE SCS!ReadDelete
  BY <1>12, ObservesDoomedCall DEF SCS!ReadDelete, Step
<1>13. CASE SCS!Delete
  <2>1. Deletes(SCS!Deletable, "deleting")
    BY <1>13 DEF SCS!Delete
  <2> QED
    BY <2>1, DeletesCall DEF Step, SCS!Deletable
<1>14. CASE SCS!DeleteFails
  <2>1. DeleteRefused(SCS!Deletable, "awsOther")
    BY <1>14 DEF SCS!DeleteFails
  <2> QED
    BY <2>1, DeleteRefusedCall DEF Step, HandedToOnError
<1> QED
  BY <1>1, <1>2, <1>3, <1>4, <1>5, <1>6, <1>7, <1>8, <1>9, <1>10, <1>11, <1>12, <1>13, <1>14
  DEF SCS!Next, SCS!Controller

-----------------------------------------------------------------------------
(* ServerlessCache. *)

(* What ServerlessCache has of Manager and of Runtime is theirs. *)
LEMMA ServerlessCacheInherits ==
  /\ \A c : SC!onSuccess(c) = onSuccess(c)
  /\ \A r : SC!AsLatest(r) = AsLatest(r)
  /\ \A r, e : SC!FailWith(r, e) => FailWith(r, e)
  /\ \A r, e : SC!DeleteReturns(r, e) => DeleteReturns(r, e)
  /\ \A r, d : SC!Observes(r, d) => Observes(r, d)
  /\ \A r : SC!ReadsBack(r) => ReadsBack(r)
  /\ \A r : SC!ObservesDoomed(r) => ObservesDoomed(r)
  /\ \A r, w, n : SC!Answers(r, w, n) => Answers(r, w, n)
  /\ \A v, e, w : SC!Refused(v, e, w) => Refused(v, e, w)
  /\ \A r, e : SC!GivesUp(r, e) => GivesUp(r, e)
  /\ \A d, a : SC!Deletes(d, a) => Deletes(d, a)
  /\ \A d, e : SC!DeleteRefused(d, e) => DeleteRefused(d, e)
  /\ SC!ReadOneFails => ReadOneFails
  /\ SC!ReadDeleteFails => ReadDeleteFails
<1> USE DEF SC!crVars, crVars, SC!ctlVars, ctlVars, SC!Fault, Fault
<1>1. \A c : SC!onSuccess(c) = onSuccess(c)
  BY DEF SC!onSuccess, onSuccess, SC!updateConditions, updateConditions,
         SC!terminalAWSError, terminalAWSError, SC!Cleared, Cleared
<1>2. \A r : SC!AsLatest(r) = AsLatest(r)
  BY DEF SC!AsLatest, AsLatest
<1>3. \A r, e : SC!FailWith(r, e) => FailWith(r, e)
  BY DEF SC!FailWith, FailWith, SC!onErrorConds, onErrorConds, SC!onErrorResult,
         onErrorResult, SC!updateConditions, updateConditions, SC!terminalAWSError,
         terminalAWSError, SC!Cleared, Cleared
<1>4. \A r, e : SC!DeleteReturns(r, e) => DeleteReturns(r, e)
  BY DEF SC!DeleteReturns, DeleteReturns, SC!onErrorConds, onErrorConds, SC!onErrorResult,
         onErrorResult, SC!updateConditions, updateConditions, SC!terminalAWSError,
         terminalAWSError, SC!Cleared, Cleared
<1>5. \A r, d : SC!Observes(r, d) => Observes(r, d)
  BY DEF SC!Observes, Observes
<1>6. \A r : SC!ReadsBack(r) => ReadsBack(r)
  BY DEF SC!ReadsBack, ReadsBack
<1>7. \A r : SC!ObservesDoomed(r) => ObservesDoomed(r)
  BY DEF SC!ObservesDoomed, ObservesDoomed
<1>8. \A r, w, n : SC!Answers(r, w, n) => Answers(r, w, n)
  BY <1>3 DEF SC!Answers, Answers
<1>9. \A v, e, w : SC!Refused(v, e, w) => Refused(v, e, w)
  BY <1>3 DEF SC!Refused, Refused
<1>10. \A r, e : SC!GivesUp(r, e) => GivesUp(r, e)
  BY <1>3 DEF SC!GivesUp, GivesUp
<1>11. \A d, a : SC!Deletes(d, a) => Deletes(d, a)
  BY <1>4 DEF SC!Deletes, Deletes, SC!DeleteDone, DeleteDone
<1>12. \A d, e : SC!DeleteRefused(d, e) => DeleteRefused(d, e)
  BY <1>4 DEF SC!DeleteRefused, DeleteRefused
<1>13. SC!ReadOneFails => ReadOneFails
  BY <1>3, <1>2 DEF SC!ReadOneFails, ReadOneFails
<1>14. SC!ReadDeleteFails => ReadDeleteFails
  BY <1>2 DEF SC!ReadDeleteFails, ReadDeleteFails
<1> QED
  BY <1>1, <1>2, <1>3, <1>4, <1>5, <1>6, <1>7, <1>8, <1>9, <1>10, <1>11, <1>12, <1>13, <1>14

LEMMA ServerlessCacheRuntime ==
  /\ \A specs : SC!UserEdit(specs) => UserEdit(specs)
  /\ SC!UserDelete => UserDelete
  /\ SC!KindlessStep => KindlessStep
  /\ \A b : SC!PatchStatusBy(b) => PatchStatusBy(b)
  /\ SC!Crash => Crash
  /\ \A spec, status : SC!StartsWith(spec, status) => StartsWith(spec, status)
<1> USE DEF SC!crVars, crVars, SC!ctlVars, ctlVars, SC!Fault, Fault
<1>1. \A specs : SC!UserEdit(specs) => UserEdit(specs)
  BY DEF SC!UserEdit, UserEdit
<1>2. SC!UserDelete => UserDelete
  BY DEF SC!UserDelete, UserDelete
<1>3. SC!KindlessStep => KindlessStep
  BY DEF SC!KindlessStep, KindlessStep, SC!Fetch, Fetch, SC!FetchGone, FetchGone,
         SC!ReadOneNotFound, ReadOneNotFound, SC!Manage, Manage, SC!ReadBackFails,
         ReadBackFails, SC!PatchSpec, PatchSpec, SC!LateInitialize, LateInitialize,
         SC!ReadDeleteNotFound, ReadDeleteNotFound, SC!Unmanage, Unmanage, SC!NoConds,
         NoConds, SC!Patch, Patch
<1>4. \A b : SC!PatchStatusBy(b) => PatchStatusBy(b)
  BY DEF SC!PatchStatusBy, PatchStatusBy, SC!ensureConditionsBy, ensureConditionsBy,
         SC!Requeues, Requeues
<1>5. SC!Crash => Crash
  BY DEF SC!Crash, Crash
<1>6. \A spec, status : SC!StartsWith(spec, status) => StartsWith(spec, status)
  BY DEF SC!StartsWith, StartsWith, SC!NewResource, NewResource, SC!NoConds, NoConds,
         SC!NoAnnotations, NoAnnotations, SC!AsLatest, AsLatest, SC!StartsIdle, StartsIdle
<1> QED
  BY <1>1, <1>2, <1>3, <1>4, <1>5, <1>6

LEMMA ServerlessCacheResults ==
  ASSUME Shape
  PROVE  /\ "cond" \in DOMAIN SC!sdkFind(desired) /\ SC!sdkFind(desired).cond \in Conds
         /\ SC!sdkFind(latest).cond \in Conds
         /\ "cond" \in DOMAIN SC!sdkFindTagsUnread(desired)
         /\ SC!sdkFindTagsUnread(desired).cond \in Conds
         /\ "cond" \in DOMAIN SC!createOutput(desired)
         /\ SC!createOutput(desired).cond \in Conds
  BY ResultConds, AsLatestConds, ServerlessCacheInherits
  DEF SC!sdkFind, SC!sdkFindTagsUnread, SC!found, SC!createOutput

LEMMA ServerlessCacheContract ==
  ASSUME Shape, Live, SC!Next
  PROVE  Step
<1> USE AsLatestConds, ServerlessCacheResults, ServerlessCacheInherits
<1>1. CASE SC!UserEdit(SC!Specs) \/ SC!UserDelete \/ SC!KindlessStep
           \/ SC!PatchStatusBy(SC!IsSynced) \/ SC!Crash
  BY <1>1, ServerlessCacheRuntime DEF Step, RuntimeStep
<1>2. CASE SC!AwsProgress \/ SC!AwsCreateFails
  BY <1>2 DEF SC!AwsProgress, SC!AwsSettles, SC!AwsCreateFails, SC!AwsDeleted,
               SC!ServiceStep, SC!crVars, SC!ctlVars, Step, Service, External, Shape
<1>3. CASE SC!ReadOne
  <2>1. PICK differs : Observes(SC!sdkFind(desired), differs)
    BY <1>3 DEF SC!ReadOne
  <2> QED
    BY <2>1, ObservesCall DEF Step
<1>4. CASE SC!ReadOneTagsUnread
  <2>1. /\ pc = "read" /\ aws.status # "none" /\ UNCHANGED <<cr, queued, aws, desired, err>>
        /\ pc' \in {"update", "lateInit"} /\ latest' = SC!sdkFindTagsUnread(desired)
    BY <1>4 DEF SC!ReadOneTagsUnread, SC!crVars
  <2> QED
    BY <2>1 DEF Step, Call, Returns, Keeps, Running, External, Shape, Live
<1>5. CASE SC!ReadOneFails \/ SC!ReadDeleteFails
  BY <1>5, ReadsFailCall DEF Step
<1>6. CASE SC!RefuseLimit
  <2>1. pc = "create" /\ GivesUp(AsLatest(desired), "awsOther")
    BY <1>6 DEF SC!RefuseLimit
  <2> QED
    BY <2>1, GivesUpCall DEF GivesUp, Step, Running, HandedToOnError
<1>7. CASE SC!Create
  <2>1. /\ pc = "create" /\ aws.status = "none" /\ UNCHANGED crVars
        /\ "status" \in DOMAIN aws' /\ aws'.status \notin {"none", "deleting"}
        /\ Answers(SC!createOutput(desired), AsLatest(desired), "readBack")
    BY <1>7 DEF SC!Create, SC!crVars, crVars
  <2> QED
    BY <2>1, CreatesCall DEF Step
<1>8. CASE SC!CreateFails
  <2>1. pc = "create" /\ Refused(TRUE, "awsOther", AsLatest(desired))
    BY <1>8 DEF SC!CreateFails
  <2> QED
    BY <2>1, RefusedCall DEF Step, Running, HandedToOnError
<1>9. CASE SC!ReadBack
  BY <1>9, ReadsBackCall DEF SC!ReadBack, Step
<1>10. CASE SC!WaitWhileUnsettled
  <2> DEFINE r == [AsLatest(desired) EXCEPT !.cond.synced = "False"]
  <2>1. "cond" \in DOMAIN r /\ r.cond = [desired.cond EXCEPT !.synced = "False"]
    BY DEF AsLatest
  <2>2. "cond" \in DOMAIN r /\ r.cond \in Conds
    BY <2>1, ResultConds
  <2>3. pc = "update" /\ GivesUp(r, "requeue")
    BY <1>10 DEF SC!WaitWhileUnsettled
  <2> QED
    BY <2>2, <2>3, GivesUpCall DEF GivesUp, Step, Running, HandedToOnError
<1>11. CASE SC!syncDescription \/ SC!syncSnapshotRetentionLimit \/ SC!syncTags
  <2>1. /\ pc = "update" /\ UNCHANGED crVars
        /\ "status" \in DOMAIN aws' /\ aws'.status \notin {"none", "deleting"}
    BY <1>11 DEF SC!syncDescription, SC!syncSnapshotRetentionLimit, SC!syncTags, SC!Updating,
                SC!Modifies, SC!Modified, SC!crVars, crVars, Shape
  <2>2. \E r \in {latest, AsLatest(desired)}, e \in HandedToOnError : FailWith(r, e)
    BY <1>11 DEF SC!syncDescription, SC!syncSnapshotRetentionLimit, SC!syncTags,
                SC!Modifies, HandedToOnError
  <2> QED
    BY <2>1, <2>2, ModifiesAndFailsCall DEF Step
<1>12. CASE SC!RefusedByService
  <2>1. pc = "update" /\ FailWith(latest, "awsOther") /\ UNCHANGED <<crVars, aws>>
    BY <1>12 DEF SC!RefusedByService, SC!ModificationFails, SC!Updating, SC!crVars, crVars
  <2> QED
    BY <2>1, GivesUpCall DEF Step, Running, HandedToOnError
<1>13. CASE SC!syncTagsFails
  <2>1. pc = "update" /\ Refused(aws.status = "available", "awsOther", AsLatest(desired))
    BY <1>13 DEF SC!syncTagsFails, SC!Updating
  <2> QED
    BY <2>1, RefusedCall DEF Step, Running, HandedToOnError
<1>14. CASE SC!NothingToSend
  <2>1. pc = "update" /\ GivesUp(AsLatest(desired), "requeue")
    BY <1>14 DEF SC!NothingToSend, SC!Updating
  <2> QED
    BY <2>1, GivesUpCall DEF GivesUp, Step, Running, HandedToOnError
<1>15. CASE SC!ReadDelete
  BY <1>15, ObservesDoomedCall DEF SC!ReadDelete, Step
<1>16. CASE SC!Delete
  <2>1. Deletes(SC!Deletable, "deleting")
    BY <1>16 DEF SC!Delete
  <2> QED
    BY <2>1, DeletesCall DEF Step, SC!Deletable
<1>17. CASE SC!DeleteFails
  <2>1. DeleteRefused(SC!Deletable, "awsOther")
    BY <1>17 DEF SC!DeleteFails
  <2> QED
    BY <2>1, DeleteRefusedCall DEF Step, HandedToOnError
<1> QED
  BY <1>1, <1>2, <1>3, <1>4, <1>5, <1>6, <1>7, <1>8, <1>9, <1>10, <1>11, <1>12, <1>13,
     <1>14, <1>15, <1>16, <1>17
  DEF SC!Next, SC!Controller

-----------------------------------------------------------------------------
(* Snapshot: the status "failed" makes conditions and errors terminal. *)

(* What Snapshot has of Manager and of Runtime is theirs. *)
LEMMA SnapshotInherits ==
  /\ \A c : S!onSuccess(c) = onSuccess(c)
  /\ \A r : S!AsLatest(r) = AsLatest(r)
  /\ \A r, e : S!FailWith(r, e) => FailWith(r, e)
  /\ \A r, e : S!DeleteReturns(r, e) => DeleteReturns(r, e)
  /\ \A r, d : S!Observes(r, d) => Observes(r, d)
  /\ \A r : S!ReadsBack(r) => ReadsBack(r)
  /\ \A r : S!ObservesDoomed(r) => ObservesDoomed(r)
  /\ \A r, w, n : S!Answers(r, w, n) => Answers(r, w, n)
  /\ \A v, e, w : S!Refused(v, e, w) => Refused(v, e, w)
  /\ \A r, e : S!GivesUp(r, e) => GivesUp(r, e)
<1> USE DEF S!crVars, crVars, S!ctlVars, ctlVars, S!Fault, Fault
<1>1. \A c : S!onSuccess(c) = onSuccess(c)
  BY DEF S!onSuccess, onSuccess, S!updateConditions, updateConditions, S!terminalAWSError,
         terminalAWSError, S!Cleared, Cleared
<1>2. \A r : S!AsLatest(r) = AsLatest(r)
  BY DEF S!AsLatest, AsLatest
<1>3. \A r, e : S!FailWith(r, e) => FailWith(r, e)
  BY DEF S!FailWith, FailWith, S!onErrorConds, onErrorConds, S!onErrorResult, onErrorResult,
         S!updateConditions, updateConditions, S!terminalAWSError, terminalAWSError,
         S!Cleared, Cleared
<1>4. \A r, e : S!DeleteReturns(r, e) => DeleteReturns(r, e)
  BY DEF S!DeleteReturns, DeleteReturns, S!onErrorConds, onErrorConds, S!onErrorResult,
         onErrorResult, S!updateConditions, updateConditions, S!terminalAWSError,
         terminalAWSError, S!Cleared, Cleared
<1>5. \A r, d : S!Observes(r, d) => Observes(r, d)
  BY DEF S!Observes, Observes
<1>6. \A r : S!ReadsBack(r) => ReadsBack(r)
  BY DEF S!ReadsBack, ReadsBack
<1>7. \A r : S!ObservesDoomed(r) => ObservesDoomed(r)
  BY DEF S!ObservesDoomed, ObservesDoomed
<1>8. \A r, w, n : S!Answers(r, w, n) => Answers(r, w, n)
  BY <1>3 DEF S!Answers, Answers
<1>9. \A v, e, w : S!Refused(v, e, w) => Refused(v, e, w)
  BY <1>3 DEF S!Refused, Refused
<1>10. \A r, e : S!GivesUp(r, e) => GivesUp(r, e)
  BY <1>3 DEF S!GivesUp, GivesUp
<1> QED
  BY <1>1, <1>2, <1>3, <1>4, <1>5, <1>6, <1>7, <1>8, <1>9, <1>10

LEMMA SnapshotRuntime ==
  /\ \A specs : S!UserEdit(specs) => UserEdit(specs)
  /\ S!UserDelete => UserDelete
  /\ S!KindlessStep => KindlessStep
  /\ \A b : S!PatchStatusBy(b) => PatchStatusBy(b)
  /\ S!Crash => Crash
  /\ \A spec, status : S!StartsWith(spec, status) => StartsWith(spec, status)
<1> USE DEF S!crVars, crVars, S!ctlVars, ctlVars, S!Fault, Fault
<1>1. \A specs : S!UserEdit(specs) => UserEdit(specs)
  BY DEF S!UserEdit, UserEdit
<1>2. S!UserDelete => UserDelete
  BY DEF S!UserDelete, UserDelete
<1>3. S!KindlessStep => KindlessStep
  BY DEF S!KindlessStep, KindlessStep, S!Fetch, Fetch, S!FetchGone, FetchGone,
         S!ReadOneNotFound, ReadOneNotFound, S!Manage, Manage, S!ReadBackFails,
         ReadBackFails, S!PatchSpec, PatchSpec, S!LateInitialize, LateInitialize,
         S!ReadDeleteNotFound, ReadDeleteNotFound, S!Unmanage, Unmanage, S!NoConds, NoConds,
         S!Patch, Patch
<1>4. \A b : S!PatchStatusBy(b) => PatchStatusBy(b)
  BY DEF S!PatchStatusBy, PatchStatusBy, S!ensureConditionsBy, ensureConditionsBy,
         S!Requeues, Requeues
<1>5. S!Crash => Crash
  BY DEF S!Crash, Crash
<1>6. \A spec, status : S!StartsWith(spec, status) => StartsWith(spec, status)
  BY DEF S!StartsWith, StartsWith, S!NewResource, NewResource, S!NoConds, NoConds,
         S!NoAnnotations, NoAnnotations, S!AsLatest, AsLatest, S!StartsIdle, StartsIdle
<1> QED
  BY <1>1, <1>2, <1>3, <1>4, <1>5, <1>6

(* What a failed snapshot makes of conditions, whatever is reported of it. *)
LEMMA SnapshotConds ==
  ASSUME NEW r, r.cond \in Conds, NEW e \in {"none", "awsOther", "awsTerminal"}
  PROVE  /\ S!conditions(r, e) \in Conds
         /\ r.status = "failed" => S!conditions(r, e).terminal = "True"
         /\ r.status # "failed" /\ e # "awsTerminal" => S!conditions(r, e).terminal # "True"
         /\ S!onErrorErr(r, e) \in {e, "ackTerminal"}
         /\ S!onErrorErr(r, e) = "ackTerminal" <=> S!conditions(r, e).terminal = "True"
  BY DEF S!conditions, S!CustomUpdateConditions, S!updateConditions, S!terminalAWSError,
         S!Cleared, S!onErrorErr, Conds, CondStatus

LEMMA SnapshotResults ==
  ASSUME Shape
  PROVE  /\ "cond" \in DOMAIN S!customSetOutput(desired)
         /\ S!customSetOutput(desired).cond \in Conds
         /\ S!customSetOutput(latest).cond \in Conds
         /\ \A r \in {desired, latest} :
              /\ {"status", "cond"} \subseteq DOMAIN S!customSetOutput(r)
              /\ S!customSetOutput(r).status = aws.status
              /\ aws.status = "failed" => S!customSetOutput(r).cond.terminal = "True"
<1>1. ASSUME NEW r, r.cond \in Conds
      PROVE  /\ {"status", "cond"} \subseteq DOMAIN S!customSetOutput(r)
             /\ S!customSetOutput(r).cond \in Conds
             /\ S!customSetOutput(r).status = aws.status
             /\ aws.status = "failed" => S!customSetOutput(r).cond.terminal = "True"
  <2> DEFINE found == [spec   |-> [r.spec EXCEPT !.cluster = aws.cluster],
                       ann    |-> r.ann,
                       status |-> aws.status,
                       cond   |-> [r.cond EXCEPT !.synced = S!customSetSynced(aws.status)]]
  <2>1. found.cond \in Conds
    BY <1>1, ResultConds DEF S!customSetSynced
  <2>2. /\ S!conditions(found, "none") \in Conds
        /\ aws.status = "failed" => S!conditions(found, "none").terminal = "True"
    BY <2>1, SnapshotConds
  <2>3. S!customSetOutput(r) = [found EXCEPT !.cond = S!conditions(found, "none")]
    BY DEF S!customSetOutput
  <2> QED
    BY <2>2, <2>3
<1> QED
  BY <1>1, AsLatestConds

LEMMA SnapshotReturnsLatest ==
  ASSUME Shape, NEW e \in {"awsOther", "awsTerminal"}, S!DeleteReturnsLatest(e)
  PROVE  /\ Fails /\ UNCHANGED desired /\ pc' = "patchSpec"
         /\ "cond" \in DOMAIN latest' /\ latest'.cond \in Conds
<1>1. "cond" \in DOMAIN latest' /\ latest'.cond = S!conditions(latest, e)
  BY DEF S!DeleteReturnsLatest, Shape
<1>2. latest'.cond \in Conds /\ err' \in {"awsOther", "awsTerminal", "ackTerminal"}
  BY <1>1, SnapshotConds DEF S!DeleteReturnsLatest, Shape
<1>3. err' = "ackTerminal" => latest'.cond.terminal = "True"
  BY <1>1, SnapshotConds DEF S!DeleteReturnsLatest, Shape
<1> QED
  BY <1>1, <1>2, <1>3 DEF S!DeleteReturnsLatest, Fails, Errors

(* A status "failed" comes with the condition wherever it is kept, and only *)
(* from a snapshot that has failed.                                        *)
FailedInv ==
  /\ {"status", "cond"} \subseteq DOMAIN latest
  /\ cr.status = "failed" => /\ cr.cond.terminal = "True"
                             /\ aws.status = "failed" \/ cr.del
  /\ desired.status = "failed" => /\ desired.del => desired.cond.terminal = "True"
                                  /\ aws.status = "failed" \/ desired.del \/ pc = "idle"
  /\ latest.status = "failed" => /\ latest.cond.terminal = "True"
                                 /\ aws.status = "failed" \/ cr.del

LEMMA SnapshotContract ==
  ASSUME Shape, Live, LifecycleInv, FailedInv, S!Next
  PROVE  Step
<1> USE AsLatestConds, SnapshotResults, SnapshotInherits
<1>1. CASE S!UserEdit(S!Specs) \/ S!UserDelete \/ S!KindlessStep
           \/ S!PatchStatus \/ S!Crash
  BY <1>1, SnapshotRuntime DEF S!PatchStatus, Step, RuntimeStep
<1>2. CASE S!AwsProgress \/ S!AwsCreateFails
  BY <1>2 DEF S!AwsProgress, S!AwsSettles, S!AwsCreateFails, S!AwsDeleted, S!ServiceStep,
               S!crVars, S!ctlVars, Step, Service, External, Shape
<1>3. CASE S!ReadOne
  <2>1. PICK differs : Observes(S!customSetOutput(desired), differs)
    BY <1>3 DEF S!ReadOne
  <2> QED
    BY <2>1, ObservesCall DEF Step
<1>4. CASE S!FindFails
  <2>1. "cond" \in DOMAIN latest' /\ latest'.cond = S!conditions(desired, "awsOther")
    BY <1>4 DEF S!FindFails
  <2>2. Fails /\ latest'.cond \in Conds
    BY <1>4, <2>1, SnapshotConds DEF S!FindFails, Fails, Errors
  <2> QED
    BY <1>4, <2>1, <2>2
    DEF S!FindFails, S!crVars, Step, Call, Returns, Keeps, Running, External, Shape
<1>5. CASE S!RefuseSources
  <2>1. pc = "create" /\ GivesUp(AsLatest(desired), "v1Combination")
    BY <1>5 DEF S!RefuseSources
  <2> QED
    BY <2>1, GivesUpCall DEF GivesUp, Step, Running, HandedToOnError
<1>6. CASE S!CopySnapshot \/ S!CreateSnapshot
  <2>1. PICK cluster : /\ pc = "create" /\ aws.status = "none"
                      /\ S!Created(cluster)
    BY <1>6 DEF S!CopySnapshot, S!CreateSnapshot
  <2>2. PICK r : /\ "cond" \in DOMAIN r /\ r.cond \in Conds
                /\ Answers(r, AsLatest(desired), "readBack")
    BY <2>1, ResultConds DEF S!Created, S!customSetSynced
  <2>3. /\ UNCHANGED crVars
        /\ "status" \in DOMAIN aws' /\ aws'.status \notin {"none", "deleting"}
    BY <2>1 DEF S!Created, S!crVars, crVars
  <2> QED
    BY <2>1, <2>2, <2>3, CreatesCall DEF Step
<1>7. CASE S!CreateFails
  <2>1. /\ pc = "create"
        /\ Refused(desired.spec.source # None \/ desired.spec.cluster # None, "awsTerminal",
                   AsLatest(desired))
    BY <1>7 DEF S!CreateFails
  <2> QED
    BY <2>1, RefusedCall DEF Step, Running, HandedToOnError
<1>8. CASE S!ReadBack
  BY <1>8, ReadsBackCall DEF S!ReadBack, Step
<1>9. CASE S!customUpdateSnapshot
  <2>1. /\ pc = "update" /\ UNCHANGED <<cr, queued, aws, desired, err>> /\ pc' = "patchSpec"
        /\ "cond" \in DOMAIN latest' /\ latest'.cond = S!conditions(latest, "none")
    BY <1>9 DEF S!customUpdateSnapshot, S!crVars
  <2> QED
    BY <2>1, SnapshotConds DEF Step, Call, Returns, Keeps, Running, External, Shape, Errors
<1>10. CASE S!ReadDelete
  BY <1>10, ObservesDoomedCall DEF S!ReadDelete, Step
<1>11. CASE S!FindDoomedFails
  <2>1. err' = "ackTerminal" => desired.cond.terminal = "True"
    BY <1>11, SnapshotConds
    DEF S!FindDoomedFails, LifecycleInv, DeletesOnRequest, FailedInv
  <2>2. Fails /\ latest' = AsLatest(desired)
    BY <1>11, <2>1, SnapshotConds DEF S!FindDoomedFails, Fails, AsLatest, Errors
  <2> QED
    BY <1>11, <2>2
    DEF S!FindDoomedFails, S!crVars, Step, Call, Returns, Keeps, Running, External, Shape
<1>12. CASE S!Delete
  <2>1. /\ pc = "delete" /\ External = "live" /\ UNCHANGED <<cr, queued>>
        /\ aws' = [aws EXCEPT !.status = "deleting"]
        /\ DeleteDone \/ S!DeleteReturnsLatest("awsOther")
    BY <1>12 DEF S!Delete, S!Deletable, S!crVars, S!DeleteDone, DeleteDone, External
  <2>2. "status" \in DOMAIN aws' /\ External' = "dying"
    BY <2>1 DEF External, Shape
  <2>3. CASE DeleteDone
    BY <2>1, <2>2, <2>3 DEF DeleteDone, Step, Call, Returns, Running, Destroys, Shape
  <2>4. CASE S!DeleteReturnsLatest("awsOther")
    BY <2>1, <2>2, <2>4, SnapshotReturnsLatest DEF Step, Call, Returns, Running, Destroys
  <2> QED
    BY <2>1, <2>3, <2>4
<1>13. CASE S!DeleteFails
  <2>1. /\ pc = "delete" /\ UNCHANGED <<cr, queued, aws>>
        /\ \E e \in {"awsOther", "awsTerminal"} : S!DeleteReturnsLatest(e)
    BY <1>13 DEF S!DeleteFails, S!crVars
  <2> QED
    BY <2>1, SnapshotReturnsLatest DEF Step, Call, Returns, Running, Keeps, External, Shape
<1> QED
  BY <1>1, <1>2, <1>3, <1>4, <1>5, <1>6, <1>7, <1>8, <1>9, <1>10, <1>11, <1>12, <1>13
  DEF S!Next, S!Controller

LEMMA FailedInductive ==
  ASSUME Shape, Live, LifecycleInv, FailedInv, S!Next
  PROVE  FailedInv'
<1> USE AsLatestConds, SnapshotResults, SnapshotInherits DEF Shape, IsCR, crVars, ctlVars
<1>1. CASE S!UserEdit(S!Specs) \/ S!UserDelete
  <2>1. UserEdit(S!Specs) \/ UserDelete
    BY <1>1, SnapshotRuntime
  <2> QED
    BY <2>1 DEF UserEdit, UserDelete, FailedInv
<1>2. CASE S!KindlessStep
  <2>1. KindlessStep
    BY <1>2, SnapshotRuntime
  <2>2. CASE Fetch
    BY <2>2 DEF Fetch, FailedInv
  <2>3. CASE Manage
    BY <2>3 DEF Manage, FailedInv
  <2>4. CASE PatchSpec
    BY <2>4 DEF PatchSpec, FailedInv
  <2>5. CASE FetchGone \/ ReadOneNotFound \/ ReadBackFails \/ LateInitialize
             \/ ReadDeleteNotFound \/ Unmanage
    BY <2>5 DEF FetchGone, ReadOneNotFound, ReadBackFails, LateInitialize,
                ReadDeleteNotFound, Unmanage, FailedInv
  <2> QED
    BY <2>1, <2>2, <2>3, <2>4, <2>5 DEF KindlessStep
<1>3. CASE S!PatchStatus
  <2>1. PatchStatusBy(TRUE)
    BY <1>3, SnapshotRuntime DEF S!PatchStatus
  <2>2. ensureConditionsBy(latest.cond, err, TRUE).terminal = latest.cond.terminal
    BY DEF ensureConditionsBy, Conds
  <2> QED
    BY <2>1, <2>2 DEF PatchStatusBy, FailedInv
<1>4. CASE S!Crash
  BY <1>4, SnapshotRuntime DEF Crash, FailedInv
<1>5. CASE S!AwsProgress \/ S!AwsCreateFails
  BY <1>5 DEF S!AwsProgress, S!AwsSettles, S!AwsCreateFails, S!AwsDeleted, S!ServiceStep,
              S!crVars, S!ctlVars, FailedInv
<1>6. CASE S!ReadOne
  <2>1. PICK differs : Observes(S!customSetOutput(desired), differs)
    BY <1>6 DEF S!ReadOne
  <2> QED
    BY <2>1 DEF Observes, FailedInv
<1>7. CASE S!FindFails
  <2>1. /\ {"status", "cond"} \subseteq DOMAIN latest'
        /\ latest'.status = desired.status
        /\ latest'.cond = S!conditions(desired, "awsOther")
    BY <1>7 DEF S!FindFails, AsLatest
  <2>2. desired.status = "failed" => latest'.cond.terminal = "True"
    BY <2>1, SnapshotConds
  <2> QED
    BY <1>7, <2>1, <2>2 DEF S!FindFails, S!crVars, FailedInv, Live
<1>8. CASE S!RefuseSources \/ S!CreateFails
  <2>1. pc = "create" /\ UNCHANGED <<cr, queued, aws>>
        /\ \E e : FailWith(AsLatest(desired), e)
    BY <1>8 DEF S!RefuseSources, S!CreateFails, GivesUp, Refused
  <2>2. desired.status # "failed"
    BY <2>1 DEF LifecycleInv, CreatesBehindFinalizer, Live, FailedInv
  <2>3. {"status", "cond"} \subseteq DOMAIN latest' /\ latest'.status = desired.status
    BY <2>1 DEF FailWith, AsLatest
  <2> QED
    BY <2>1, <2>2, <2>3 DEF FailWith, FailedInv
<1>9. CASE S!CopySnapshot \/ S!CreateSnapshot
  <2>1. PICK cluster : pc = "create" /\ aws.status = "none" /\ S!Created(cluster)
    BY <1>9 DEF S!CopySnapshot, S!CreateSnapshot
  <2>2. desired.status # "failed"
    BY <2>1 DEF Live, FailedInv
  <2>3. PICK r : /\ {"status", "cond"} \subseteq DOMAIN r /\ r.status = "creating"
                 /\ Answers(r, AsLatest(desired), "readBack")
    BY <2>1 DEF S!Created
  <2>4. /\ {"status", "cond"} \subseteq DOMAIN latest' /\ latest'.status # "failed"
        /\ UNCHANGED desired /\ pc' # "idle"
    BY <2>2, <2>3 DEF Answers, FailWith, AsLatest
  <2> QED
    BY <2>1, <2>2, <2>4 DEF S!Created, S!crVars, FailedInv
<1>10. CASE S!ReadBack
  <2>1. ReadsBack(S!customSetOutput(latest))
    BY <1>10 DEF S!ReadBack
  <2> QED
    BY <2>1 DEF ReadsBack, FailedInv
<1>11. CASE S!customUpdateSnapshot
  BY <1>11, SnapshotConds DEF S!customUpdateSnapshot, S!crVars, FailedInv
<1>12. CASE S!ReadDelete
  <2>1. ObservesDoomed(S!customSetOutput(desired))
    BY <1>12 DEF S!ReadDelete
  <2> QED
    BY <2>1 DEF ObservesDoomed, FailedInv
<1>13. CASE S!FindDoomedFails
  <2>1. desired.del /\ cr.del
    BY <1>13 DEF S!FindDoomedFails, LifecycleInv, DeletesOnRequest
  <2> QED
    BY <1>13, <2>1 DEF S!FindDoomedFails, S!crVars, AsLatest, FailedInv
<1>14. CASE S!Delete \/ S!DeleteFails
  <2>1. desired.del /\ cr.del
    BY <1>14 DEF S!Delete, S!DeleteFails, LifecycleInv, DeletesOnRequest
  <2>2. CASE \E e \in {"awsOther", "awsTerminal"} : S!DeleteReturnsLatest(e)
    BY <1>14, <2>1, <2>2, SnapshotConds
    DEF S!Delete, S!DeleteFails, S!DeleteReturnsLatest, S!crVars, FailedInv
  <2>3. CASE S!DeleteDone
    BY <1>14, <2>1, <2>3 DEF S!Delete, S!DeleteFails, S!DeleteDone, S!crVars, FailedInv
  <2> QED
    BY <1>14, <2>2, <2>3 DEF S!Delete, S!DeleteFails
<1> QED
  BY <1>1, <1>2, <1>3, <1>4, <1>5, <1>6, <1>7, <1>8, <1>9, <1>10, <1>11, <1>12, <1>13,
     <1>14
  DEF S!Next, S!Controller

-----------------------------------------------------------------------------
(* All kinds together.                                                     *)

KindsInv == /\ Shape /\ Live /\ LifecycleInv /\ QueueInv
            /\ kind = "Snapshot" => FailedInv

LEMMA StartsInv ==
  ASSUME NEW spec, NEW status, StartsWith(spec, status),
         kind = "Snapshot" => status # "failed",
         "status" \in DOMAIN aws, aws.status = "none"
  PROVE  KindsInv
<1>1. NoConds \in Conds
  BY DEF NoConds, Conds, CondStatus
<1>2. /\ cr = [exists |-> TRUE, del |-> FALSE, fin |-> FALSE, spec |-> spec,
               ann |-> NoAnnotations, status |-> status, cond |-> NoConds]
      /\ desired = cr /\ latest = AsLatest(cr) /\ pc = "idle" /\ err = "none" /\ queued
  BY DEF StartsWith, NewResource, StartsIdle
<1>3. Shape
  BY <1>1, <1>2 DEF Shape, IsCR, AsLatest, Errors
<1>4. Live /\ LifecycleInv /\ QueueInv /\ (kind = "Snapshot" => FailedInv)
  BY <1>2 DEF Live, LifecycleInv, FinalizerHolds, CreatesBehindFinalizer, DeletesOnRequest,
              QueueInv, NeverAbandoned, Running, FailedInv, AsLatest
<1> QED
  BY <1>3, <1>4 DEF KindsInv

LEMMA KindsStart ==
  ASSUME Init
  PROVE  KindsInv
<1>1. CASE kind = "User" /\ U!Init
  <2>1. PICK spec, status : U!StartsWith(spec, status)
    BY <1>1 DEF U!Init
  <2>2. "status" \in DOMAIN aws /\ aws.status = "none"
    BY <1>1 DEF U!Init
  <2> QED
    BY <1>1, <2>1, <2>2, UserRuntime, StartsInv
<1>2. CASE kind = "UserGroup" /\ UG!Init
  <2>1. PICK spec : UG!StartsWith(spec, "none")
    BY <1>2 DEF UG!Init
  <2>2. "status" \in DOMAIN aws /\ aws.status = "none"
    BY <1>2 DEF UG!Init, UG!Group
  <2> QED
    BY <1>2, <2>1, <2>2, UserGroupRuntime, StartsInv
<1>3. CASE kind = "CacheSubnetGroup" /\ CSG!Init
  <2>1. PICK spec : CSG!StartsWith(spec, "none")
    BY <1>3 DEF CSG!Init
  <2>2. "status" \in DOMAIN aws /\ aws.status = "none"
    BY <1>3 DEF CSG!Init
  <2> QED
    BY <1>3, <2>1, <2>2, CacheSubnetGroupRuntime, StartsInv
<1>4. CASE kind = "CacheParameterGroup" /\ CPG!Init
  <2>1. PICK spec : CPG!StartsWith(spec, "none")
    BY <1>4 DEF CPG!Init
  <2>2. "status" \in DOMAIN aws /\ aws.status = "none"
    BY <1>4 DEF CPG!Init, CPG!NoParameters
  <2> QED
    BY <1>4, <2>1, <2>2, CacheParameterGroupRuntime, StartsInv
<1>5. CASE kind = "Snapshot" /\ S!Init
  <2>1. PICK spec : S!StartsWith(spec, "none")
    BY <1>5 DEF S!Init
  <2>2. "status" \in DOMAIN aws /\ aws.status = "none"
    BY <1>5 DEF S!Init
  <2> QED
    BY <1>5, <2>1, <2>2, SnapshotRuntime, StartsInv
<1>6. CASE kind = "ServerlessCacheSnapshot" /\ SCS!Init
  <2>1. PICK spec : SCS!StartsWith(spec, "none")
    BY <1>6 DEF SCS!Init
  <2>2. "status" \in DOMAIN aws /\ aws.status = "none"
    BY <1>6 DEF SCS!Init
  <2> QED
    BY <1>6, <2>1, <2>2, ServerlessCacheSnapshotRuntime, StartsInv
<1>7. CASE kind = "ServerlessCache" /\ SC!Init
  <2>1. PICK spec : SC!StartsWith(spec, "none")
    BY <1>7 DEF SC!Init
  <2>2. "status" \in DOMAIN aws /\ aws.status = "none"
    BY <1>7 DEF SC!Init
  <2> QED
    BY <1>7, <2>1, <2>2, ServerlessCacheRuntime, StartsInv
<1> QED
  BY <1>1, <1>2, <1>3, <1>4, <1>5, <1>6, <1>7 DEF Init

(* Every kind keeps to the contract. *)
LEMMA KindsContract ==
  ASSUME KindsInv, Next
  PROVE  Step
  BY UserContract, UserGroupContract, CacheSubnetGroupContract, CacheParameterGroupContract,
     SnapshotContract, ServerlessCacheSnapshotContract, ServerlessCacheContract
  DEF KindsInv, Next

LEMMA KindsInductive ==
  ASSUME KindsInv, [Next]_<<vars, kind>>
  PROVE  KindsInv'
<1>1. CASE Next
  <2>1. Shape' /\ Live' /\ LifecycleInv' /\ QueueInv'
    BY <1>1, KindsContract, ShapeInductive, LiveInductive, LifeInductive, QueueInductive
    DEF KindsInv
  <2>2. kind' = "Snapshot" => FailedInv'
    BY <1>1, FailedInductive DEF KindsInv, Next
  <2> QED
    BY <2>1, <2>2 DEF KindsInv
<1>2. CASE UNCHANGED <<vars, kind>>
  BY <1>2 DEF vars, KindsInv, Shape, IsCR, Live, LifecycleInv, FinalizerHolds,
              CreatesBehindFinalizer, DeletesOnRequest, QueueInv, NeverAbandoned, FailedInv
<1> QED
  BY <1>1, <1>2

(* The contract keeps what it needs: the invariant holds of every kind. *)
THEOREM KindsCorrect == Spec => []KindsInv
  BY KindsStart, KindsInductive, PTL DEF Spec

(***************************************************************************)
(* No resource of any of the smaller kinds drops out of the work queue     *)
(* without a Terminal condition, whatever fails, is lost or is interrupted *)
(* (onError, onSuccess, sdkFind, sdkCreate, sdkUpdate, sdkDelete).         *)
(***************************************************************************)
THEOREM NeverAbandonedTheorem == Spec => []NeverAbandoned
<1>1. KindsInv => NeverAbandoned
  BY DEF KindsInv, QueueInv
<1> QED
  BY <1>1, KindsCorrect, PTL

(***************************************************************************)
(* The manager of every smaller kind, with the runtime and the service,    *)
(* implements the lifecycle: an AWS resource is created only behind the    *)
(* finalizer, deleted only on request, and the object goes only when the   *)
(* AWS resource is gone or going.                                          *)
(***************************************************************************)
THEOREM ImplementsLifecycleTheorem == Spec => ImplementsLifecycle
<1>1. Init => Lifecycle!Init
  <2> SUFFICES ASSUME Init PROVE Lifecycle!Init
    OBVIOUS
  <2>1. CASE U!Init
    <3>1. (\E spec, status : StartsWith(spec, status)) /\ aws.status = "none"
      BY <2>1, UserRuntime DEF U!Init
    <3> QED
      BY <3>1 DEF StartsWith, NewResource, StartsIdle, Lifecycle!Init
  <2>2. CASE UG!Init
    <3>1. (\E spec, status : StartsWith(spec, status)) /\ aws.status = "none"
      BY <2>2, UserGroupRuntime DEF UG!Init, UG!Group
    <3> QED
      BY <3>1 DEF StartsWith, NewResource, StartsIdle, Lifecycle!Init
  <2>3. CASE CSG!Init
    <3>1. (\E spec, status : StartsWith(spec, status)) /\ aws.status = "none"
      BY <2>3, CacheSubnetGroupRuntime DEF CSG!Init
    <3> QED
      BY <3>1 DEF StartsWith, NewResource, StartsIdle, Lifecycle!Init
  <2>4. CASE CPG!Init
    <3>1. (\E spec, status : StartsWith(spec, status)) /\ aws.status = "none"
      BY <2>4, CacheParameterGroupRuntime DEF CPG!Init, CPG!NoParameters
    <3> QED
      BY <3>1 DEF StartsWith, NewResource, StartsIdle, Lifecycle!Init
  <2>5. CASE S!Init
    <3>1. (\E spec, status : StartsWith(spec, status)) /\ aws.status = "none"
      BY <2>5, SnapshotRuntime DEF S!Init
    <3> QED
      BY <3>1 DEF StartsWith, NewResource, StartsIdle, Lifecycle!Init
  <2>6. CASE SCS!Init
    <3>1. (\E spec, status : StartsWith(spec, status)) /\ aws.status = "none"
      BY <2>6, ServerlessCacheSnapshotRuntime DEF SCS!Init
    <3> QED
      BY <3>1 DEF StartsWith, NewResource, StartsIdle, Lifecycle!Init
  <2>7. CASE SC!Init
    <3>1. (\E spec, status : StartsWith(spec, status)) /\ aws.status = "none"
      BY <2>7, ServerlessCacheRuntime DEF SC!Init
    <3> QED
      BY <3>1 DEF StartsWith, NewResource, StartsIdle, Lifecycle!Init
  <2> QED
    BY <2>1, <2>2, <2>3, <2>4, <2>5, <2>6, <2>7 DEF Init
<1>2. KindsInv /\ [Next]_<<vars, kind>> => [Lifecycle!Next]_(Lifecycle!vars)
  <2>1. CASE Next
    BY <2>1, KindsContract, LifecycleStep DEF KindsInv
  <2>2. CASE UNCHANGED <<vars, kind>>
    BY <2>2 DEF vars, Lifecycle!vars
  <2> QED
    BY <2>1, <2>2
<1> QED
  BY <1>1, <1>2, KindsCorrect, PTL DEF Spec, ImplementsLifecycle, Lifecycle!Spec

(***************************************************************************)
(* A failed snapshot is Terminal between any two passes                    *)
(* (CustomUpdateConditions of snapshot).                                   *)
(***************************************************************************)
THEOREM FailedIsTerminalTheorem == Spec => []FailedIsTerminal
<1>1. KindsInv => FailedIsTerminal
  BY DEF KindsInv, FailedInv, FailedIsTerminal, S!FailedIsTerminal
<1> QED
  BY <1>1, KindsCorrect, PTL

-----------------------------------------------------------------------------
(* The parameters of a group.                                              *)

HasParameters == kind = "CacheParameterGroup" => "params" \in DOMAIN aws

LEMMA WantsNothing ==
  ASSUME desired.spec.params = <<>>
  PROVE  DOMAIN CPG!wanted = {}
  BY DEF CPG!wanted, CPG!AsMap, CPG!NamesOf

(* One call of an update, whichever it is. *)
LEMMA UpdateKeepsParameters ==
  ASSUME "params" \in DOMAIN aws,
         \/ CPG!resetAllParameters \/ CPG!resetParameters
         \/ CPG!saveModified \/ CPG!saveAdded
  PROVE  "params" \in DOMAIN aws' /\ CPG!KeepsParameters
<1> USE DEF CPG!KeepsParameters, CPG!Updates
<1>1. CASE CPG!resetAllParameters
  BY <1>1, WantsNothing DEF CPG!resetAllParameters, CPG!ResetsAll
<1>2. CASE CPG!resetParameters
  BY <1>2 DEF CPG!resetParameters, CPG!removedParameters
<1>3. CASE CPG!saveModified \/ CPG!saveAdded
  <2>1. PICK names : CPG!saveParameters(names)
    BY <1>3 DEF CPG!saveModified, CPG!saveAdded
  <2>2. PICK batch : aws' = [aws EXCEPT !.params =
                               [n \in DOMAIN aws.params \cup batch |->
                                 IF n \in batch THEN CPG!wanted[n] ELSE aws.params[n]]]
    BY <2>1 DEF CPG!saveParameters
  <2> QED
    BY <2>2
<1> QED
  BY <1>1, <1>2, <1>3

LEMMA ParametersStep ==
  ASSUME HasParameters, Next
  PROVE  HasParameters' /\ (kind = "CacheParameterGroup" => CPG!KeepsParameters)
<1> SUFFICES ASSUME kind = "CacheParameterGroup", CPG!Next
             PROVE  "params" \in DOMAIN aws' /\ CPG!KeepsParameters
  BY DEF Next, HasParameters
<1>1. "params" \in DOMAIN aws
  BY DEF HasParameters
<1>2. CASE \/ CPG!resetAllParameters \/ CPG!resetParameters
           \/ CPG!saveModified \/ CPG!saveAdded
  BY <1>1, <1>2, UpdateKeepsParameters
<1>3. CASE CPG!Create \/ CPG!Delete
  BY <1>1, <1>3 DEF CPG!Create, CPG!Delete, CPG!Deletes, CPG!KeepsParameters
<1>4. CASE CPG!KindlessStep
  BY <1>1, <1>4, CacheParameterGroupRuntime
  DEF KindlessStep, Fetch, FetchGone, ReadOneNotFound, Manage, ReadBackFails, PatchSpec,
      LateInitialize, ReadDeleteNotFound, Unmanage, CPG!KeepsParameters
<1>5. CASE CPG!UserEdit(CPG!Specs) \/ CPG!UserDelete \/ CPG!PatchStatus \/ CPG!Crash
  BY <1>1, <1>5
  DEF CPG!UserEdit, CPG!UserDelete, CPG!PatchStatus, CPG!PatchStatusBy, CPG!Crash,
      CPG!KeepsParameters
<1>6. CASE CPG!ReadOne \/ CPG!ReadOneFails \/ CPG!ReadBack \/ CPG!ReadDelete \/ CPG!ReadDeleteFails
  BY <1>1, <1>6
  DEF CPG!ReadOne, CPG!Observes, CPG!ReadOneFails, CPG!ReadBack, CPG!ReadsBack,
      CPG!ReadDelete, CPG!ObservesDoomed, CPG!ReadDeleteFails, CPG!KeepsParameters
<1>7. CASE \/ CPG!CreateFails \/ CPG!UpdateFails \/ CPG!UpdateDone \/ CPG!RereadFails
           \/ CPG!DeleteFails
  BY <1>1, <1>7
  DEF CPG!CreateFails, CPG!UpdateFails, CPG!Refused, CPG!UpdateDone, CPG!RereadFails,
      CPG!DeleteFails, CPG!DeleteRefused, CPG!KeepsParameters
<1> QED
  BY <1>2, <1>3, <1>4, <1>5, <1>6, <1>7 DEF CPG!Next, CPG!Controller

(***************************************************************************)
(* Whatever batches an update is sent in, and wherever it breaks off, no   *)
(* call of it disturbs a parameter the service already has as the spec     *)
(* wants it (provideDelta, resetParameters, saveParameters).               *)
(***************************************************************************)
THEOREM KeptParametersTheorem == Spec => KeptParametersStay
<1>1. Init => HasParameters
  BY DEF Init, HasParameters, CPG!Init
<1>2. HasParameters /\ [Next]_<<vars, kind>>
      => HasParameters' /\ [kind = "CacheParameterGroup" => CPG!KeepsParameters]_vars
  <2>1. CASE Next
    BY <2>1, ParametersStep
  <2>2. CASE UNCHANGED <<vars, kind>>
    BY <2>2 DEF HasParameters, vars
  <2> QED
    BY <2>1, <2>2
<1> QED
  BY <1>1, <1>2, PTL DEF Spec, KeptParametersStay
=============================================================================
