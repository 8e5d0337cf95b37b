---------------------------- MODULE RuntimeProofs ----------------------------
(***************************************************************************)
(* What the steps of a pass preserve whatever the kind of the resource:    *)
(* lemmas for the modules that prove theorems about a kind.                *)
(***************************************************************************)
EXTENDS Runtime, TLAPS

(* updateConditions keeps a condition record one. *)
LEMMA ConditionsType ==
  ASSUME NEW c \in Conds, NEW e \in Errors, NEW b
  PROVE  /\ updateConditions(c, e) \in Conds
         /\ onErrorConds(c, e) \in Conds
         /\ onSuccess(c) \in Conds
         /\ onErrorResult(c, e) \in Errors
         /\ ensureConditionsBy(c, e, b) \in Conds
  BY DEF Conds, CondStatus, Errors, updateConditions, onErrorConds, onSuccess,
         onErrorResult, ensureConditionsBy, terminalAWSError, Cleared

(* The custom resource, whatever its spec, annotations and status are. *)
IsCR(r, S, A, U) == r \in [exists : BOOLEAN, del : BOOLEAN, fin : BOOLEAN, spec : S,
                           ann : A, status : U, cond : Conds]

-----------------------------------------------------------------------------
(* The life of the resource.                                               *)

External == IF aws.status = "none" THEN "none"
            ELSE IF aws.status = "deleting" THEN "dying" ELSE "live"

(* Most steps leave alone what the lifecycle is about. *)
QuietStep ==
  /\ cr'.exists = cr.exists /\ cr'.del = cr.del /\ cr'.fin = cr.fin
  /\ External' = External
  /\ desired'.del = desired.del
  /\ pc' \in {pc, "idle", "update", "lateInit", "patchSpec", "patchStatus", "readBack"}

(* A quiet step preserves the invariant of the lifecycle. *)
LEMMA QuietInductive == LifecycleInv /\ QuietStep => LifecycleInv'
  BY DEF QuietStep, External, LifecycleInv, FinalizerHolds, CreatesBehindFinalizer,
         DeletesOnRequest

(* The steps of the runtime that are quiet. *)
LEMMA RuntimeQuiet ==
  ASSUME NEW S, NEW A, NEW U, NEW Q, NEW b, IsCR(cr, S, A, U),
         \/ UserEdit(Q) \/ FetchGone \/ ReadBackFails \/ PatchSpec
         \/ PatchStatusBy(b) \/ Crash
  PROVE  QuietStep
<1> USE DEF IsCR, QuietStep, External, crVars, ctlVars
<1>1. CASE UserEdit(Q)       BY <1>1 DEF UserEdit
<1>2. CASE FetchGone         BY <1>2 DEF FetchGone
<1>3. CASE ReadBackFails     BY <1>3 DEF ReadBackFails
<1>4. CASE PatchSpec         BY <1>4 DEF PatchSpec
<1>5. CASE PatchStatusBy(b)  BY <1>5 DEF PatchStatusBy
<1>6. CASE Crash             BY <1>6 DEF Crash
<1> QED
  BY <1>1, <1>2, <1>3, <1>4, <1>5, <1>6

(* The others preserve the invariant, each for a conjunct of it. *)
LEMMA RuntimeMilestones ==
  ASSUME NEW S, NEW A, NEW U, IsCR(cr, S, A, U), IsCR(desired, S, A, U), LifecycleInv,
         \/ UserDelete \/ Fetch \/ ReadOneNotFound \/ Manage
         \/ ReadDeleteNotFound \/ Unmanage
  PROVE  LifecycleInv'
<1> USE DEF IsCR, LifecycleInv, FinalizerHolds, CreatesBehindFinalizer, DeletesOnRequest,
            crVars, ctlVars
<1>1. CASE UserDelete           BY <1>1 DEF UserDelete
<1>2. CASE Fetch                BY <1>2 DEF Fetch
<1>3. CASE ReadOneNotFound      BY <1>3 DEF ReadOneNotFound
<1>4. CASE Manage               BY <1>4 DEF Manage
<1>5. CASE ReadDeleteNotFound   BY <1>5 DEF ReadDeleteNotFound
<1>6. CASE Unmanage             BY <1>6 DEF Unmanage
<1> QED
  BY <1>1, <1>2, <1>3, <1>4, <1>5, <1>6

-----------------------------------------------------------------------------
(* The work queue.                                                         *)

(* An operation that fails reports a terminal error only with the condition *)
(* that goes with it; nothing the operations hand to onError is terminal.   *)
LEMMA FailuresShowTerminal ==
  ASSUME NEW r, "cond" \in DOMAIN r, r.cond \in Conds,
         NEW e \in Errors \ {"ackTerminal"},
         FailWith(r, e) \/ DeleteReturns(r, e)
  PROVE  /\ err' = "ackTerminal" => latest'.cond.terminal = "True"
         /\ pc' \in {"patchSpec", "patchStatus"}
<1>1. latest'.cond = updateConditions(r.cond, e)
  BY DEF FailWith, DeleteReturns, onErrorConds
<1> QED
  BY <1>1 DEF FailWith, DeleteReturns, onErrorResult

(* A pass goes on: without an error, or with the one it has. *)
PassGoesOn ==
  /\ pc # "idle" /\ pc' # "idle"
  /\ \/ err' = "none"
     \/ pc' \notin Running /\ (err' = "ackTerminal" => latest'.cond.terminal = "True")

(* The steps of others: they leave the pass alone, and the queue at least. *)
PassUntouched ==
  /\ UNCHANGED <<pc, err, latest>>
  /\ (queued => queued') /\ (cr'.exists => cr.exists) /\ UNCHANGED cr.cond

LEMMA OthersQueue == QueueInv /\ (PassGoesOn \/ PassUntouched) => QueueInv'
  BY DEF QueueInv, NeverAbandoned, Running, PassGoesOn, PassUntouched

LEMMA UserLeavesPass ==
  ASSUME NEW S, NEW A, NEW U, NEW Q, IsCR(cr, S, A, U), UserEdit(Q) \/ UserDelete
  PROVE  PassUntouched
  BY DEF IsCR, UserEdit, UserDelete, PassUntouched, ctlVars

(* The steps of the runtime keep the invariant of the work queue. *)
LEMMA RuntimeQueue ==
  ASSUME NEW S, NEW A, NEW U, NEW b, IsCR(cr, S, A, U), latest.cond \in Conds, QueueInv,
         \/ Fetch \/ FetchGone \/ ReadOneNotFound \/ Manage \/ ReadBackFails
         \/ PatchSpec \/ PatchStatusBy(b) \/ ReadDeleteNotFound \/ Unmanage
         \/ Crash
  PROVE  QueueInv'
<1> USE DEF QueueInv, NeverAbandoned, Running, crVars, ctlVars, IsCR
<1>1. CASE Fetch                BY <1>1 DEF Fetch
<1>2. CASE FetchGone            BY <1>2 DEF FetchGone
<1>3. CASE ReadOneNotFound      BY <1>3 DEF ReadOneNotFound
<1>4. CASE Manage               BY <1>4 DEF Manage
<1>5. CASE ReadBackFails        BY <1>5 DEF ReadBackFails
<1>6. CASE PatchSpec            BY <1>6 DEF PatchSpec
<1>7. CASE PatchStatusBy(b)
  <2>1. err = "ackTerminal" => latest.cond.terminal = "True"
    BY <1>7 DEF PatchStatusBy
  <2>2. ensureConditionsBy(latest.cond, err, b).terminal = latest.cond.terminal
    BY DEF ensureConditionsBy, Conds
  <2>3. cr.exists => cr'.cond.terminal = latest.cond.terminal
    BY <1>7, <2>2 DEF PatchStatusBy
  <2>4. cr'.exists = cr.exists
    BY <1>7 DEF PatchStatusBy
  <2> QED
    BY <1>7, <2>1, <2>3, <2>4 DEF PatchStatusBy, Requeues
<1>8. CASE ReadDeleteNotFound   BY <1>8 DEF ReadDeleteNotFound
<1>9. CASE Unmanage             BY <1>9 DEF Unmanage
<1>10. CASE Crash               BY <1>10 DEF Crash
<1> QED
  BY <1>1, <1>2, <1>3, <1>4, <1>5, <1>6, <1>7, <1>8, <1>9, <1>10
=============================================================================
