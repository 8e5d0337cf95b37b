------------------------------- MODULE Runtime -------------------------------
(***************************************************************************)
(* A pass of the ACK runtime over one custom resource: what the runtime and*)
(* Kubernetes do around the calls of a resource manager, whatever the kind.*)
(* The runtime is a library; its steps are external to the repository.  A  *)
(* module for a kind EXTENDS this one and adds the resource manager and    *)
(* the service.                                                            *)
(*                                                                         *)
(* The records "cr" and "desired" have the fields exists, del (deletion    *)
(* timestamp), fin (finalizer), spec, ann (annotations), status and cond;  *)
(* "latest" has spec, ann, status and cond, and what else the kind reads.  *)
(* "aws" has at least a status, "none" when there is no AWS resource.      *)
(***************************************************************************)
EXTENDS Conditions, Integers

CONSTANTS
  None,             \* a nil pointer, or an annotation that is absent or "null"
  Editable,         \* the spec fields the user edits
  MaxEdits,         \* how often the user edits
  FaultKinds,       \* the failures the environment may inject
  MaxFaults         \* how many of them

ASSUME RuntimeAssumption == MaxEdits \in Nat /\ MaxFaults \in Nat

VARIABLES
  cr,         \* the custom resource in the Kubernetes API
  aws,        \* the AWS resource
  pc,         \* the step the reconciliation is at
  desired,    \* the copy of the custom resource the reconciliation works on
  latest,     \* the resource the manager last returned
  err,        \* the error it returned with it
  queued,     \* the resource is in the work queue
  edits, faults

crVars == <<cr, queued>>
ctlVars == <<pc, desired, latest, err>>
vars == <<cr, aws, pc, desired, latest, err, queued, edits, faults>>

Fault(kind) == /\ kind \in FaultKinds
               /\ faults < MaxFaults
               /\ faults' = faults + 1

(* A custom resource just created: no finalizer, no status, no condition. *)
NewResource(spec, ann) ==
  [exists |-> TRUE, del |-> FALSE, fin |-> FALSE, spec |-> spec, ann |-> ann,
   status |-> "none", cond |-> NoConds]

StartsIdle ==
  /\ pc = "idle"
  /\ desired = cr
  /\ err = "none"
  /\ queued = TRUE
  /\ edits = 0
  /\ faults = 0

-----------------------------------------------------------------------------
(* The user.  A change of the spec or a deletion queues the resource. *)

UserEdit(specs) ==
  /\ cr.exists /\ ~cr.del
  /\ edits < MaxEdits
  /\ \E s \in specs :
       /\ s # cr.spec
       /\ \A f \in DOMAIN s \ Editable : s[f] = cr.spec[f]
       /\ cr' = [cr EXCEPT !.spec = s]
  /\ edits' = edits + 1
  /\ queued' = TRUE
  /\ UNCHANGED <<aws, ctlVars, faults>>

(* Without a finalizer the object goes at once. *)
UserDelete ==
  /\ cr.exists /\ ~cr.del
  /\ cr' = [cr EXCEPT !.del = TRUE, !.exists = cr.fin]
  /\ queued' = TRUE
  /\ UNCHANGED <<aws, ctlVars, edits, faults>>

-----------------------------------------------------------------------------
(* The beginning of a pass. *)

(* The conditions are reset at the start of Sync, not of a deletion. *)
Fetch ==
  /\ pc = "idle" /\ queued /\ cr.exists
  /\ queued' = FALSE
  /\ err' = "none"
  /\ desired' = [cr EXCEPT !.cond = IF cr.del THEN @ ELSE NoConds]
  /\ pc' = IF ~cr.del THEN "read" ELSE "readDelete"
  /\ UNCHANGED <<cr, aws, latest, edits, faults>>

FetchGone ==
  /\ pc = "idle" /\ queued /\ ~cr.exists
  /\ queued' = FALSE
  /\ UNCHANGED <<cr, aws, ctlVars, edits, faults>>

ReadOneNotFound ==
  /\ pc = "read" /\ aws.status = "none"
  /\ pc' = "manage"
  /\ UNCHANGED <<crVars, aws, desired, latest, err, edits, faults>>

(* setResourceManaged: the finalizer is on before the creation. *)
Manage ==
  /\ pc = "manage"
  /\ IF cr.exists
     THEN /\ cr' = [cr EXCEPT !.fin = TRUE]
          /\ desired' = [desired EXCEPT !.fin = TRUE]
          /\ pc' = "create"
          /\ UNCHANGED queued
     ELSE /\ pc' = "idle"
          /\ queued' = TRUE
          /\ UNCHANGED <<cr, desired>>
  /\ UNCHANGED <<aws, latest, err, edits, faults>>

(* What the manager returned with an error; only its status is patched. *)
FailWith(r, e) ==
  /\ latest' = [r EXCEPT !.cond = onErrorConds(@, e)]
  /\ err' = onErrorResult(r.cond, e)
  /\ pc' = "patchStatus"
  /\ UNCHANGED desired

(* A created resource that cannot be read back keeps what Create returned, *)
(* but its spec and its annotations are not patched.                       *)
ReadBackFails ==
  /\ pc = "readBack"
  /\ Fault("read")
  /\ err' = "awsOther"
  /\ pc' = "patchStatus"
  /\ UNCHANGED <<crVars, aws, desired, latest, edits>>

-----------------------------------------------------------------------------
(* The end of a pass. *)

(* A merge patch writes the fields that differ between the copy the pass *)
(* began with and the result; a list is one field.                       *)
Patch(current, from, to) ==
  [f \in DOMAIN current |-> IF from[f] # to[f] THEN to[f] ELSE current[f]]

PatchSpec ==
  /\ pc = "patchSpec"
  /\ IF cr.exists
     THEN cr' = [cr EXCEPT !.spec = Patch(@, desired.spec, latest.spec),
                           !.ann = Patch(@, desired.ann, latest.ann)]
     ELSE UNCHANGED cr
  /\ queued' = (queued \/ cr'.spec # cr.spec)
  /\ pc' = IF desired.del THEN "patchStatus" ELSE "lateInit"
  /\ UNCHANGED <<aws, desired, latest, err, edits, faults>>

PatchStatusBy(isSynced) ==
  /\ pc = "patchStatus"
  /\ IF cr.exists
     THEN cr' = [cr EXCEPT !.status = latest.status,
                           !.cond = IF desired.del THEN latest.cond
                                    ELSE ensureConditionsBy(latest.cond, err, isSynced)]
     ELSE UNCHANGED cr
  /\ queued' = (queued \/ Requeues(err))
  /\ pc' = "idle"
  /\ UNCHANGED <<aws, desired, latest, err, edits, faults>>

PatchStatus == PatchStatusBy(TRUE)

-----------------------------------------------------------------------------
(* A deletion. *)

(* Mutant: an AWS resource that is gone ends the pass, and the finalizer *)
(* stays.                                                                *)
ReadDeleteNotFoundIsDone ==
  /\ pc = "readDelete" /\ aws.status = "none"
  /\ pc' = "idle"
  /\ UNCHANGED <<crVars, aws, desired, latest, err, edits, faults>>

ReadDeleteNotFound ==
  /\ pc = "readDelete" /\ aws.status = "none"
  /\ pc' = "unmanage"
  /\ UNCHANGED <<crVars, aws, desired, latest, err, edits, faults>>

(* Whatever a deletion returns with an error is patched, spec included. *)
DeleteReturns(r, e) ==
  /\ latest' = [r EXCEPT !.cond = onErrorConds(@, e)]
  /\ err' = onErrorResult(r.cond, e)
  /\ pc' = "patchSpec"
  /\ UNCHANGED desired

(* A deletion without an error: the resource is released. *)
DeleteDone ==
  /\ pc' = "unmanage"
  /\ UNCHANGED <<desired, latest, err>>

(* setResourceUnmanaged: the last finalizer goes, and the object with it. *)
Unmanage ==
  /\ pc = "unmanage"
  /\ cr' = [cr EXCEPT !.fin = FALSE, !.exists = FALSE]
  /\ pc' = "idle"
  /\ UNCHANGED <<aws, desired, latest, err, queued, edits, faults>>

-----------------------------------------------------------------------------
(* The controller stops between two steps and starts again. *)
Crash ==
  /\ pc # "idle"
  /\ Fault("crash")
  /\ pc' = "idle"
  /\ queued' = TRUE
  /\ UNCHANGED <<cr, aws, desired, latest, err, edits>>

(***************************************************************************)
(* A resource leaves the work queue only with a Terminal condition: every  *)
(* other ending of a pass, a crash and a lost call included, brings it back*)
(***************************************************************************)
NeverAbandoned ==
  pc = "idle" /\ ~queued /\ cr.exists => cr.cond.terminal = "True"

(* A deletion that was tried and answered with a terminal code: the resource *)
(* is off the queue, Terminal and not Recoverable.  (A Terminal condition    *)
(* from before is no answer, for UserDelete queues the resource.)            *)
DeletionRefused ==
  /\ pc = "idle" /\ ~queued
  /\ cr.cond.terminal = "True" /\ cr.cond.recoverable # "True"

-----------------------------------------------------------------------------
(***************************************************************************)
(* What the steps of a pass rely on between them, whatever the kind.       *)
(***************************************************************************)
Running == {"read", "manage", "create", "readBack", "update", "readDelete", "delete",
            "unmanage"}

(* An error is there only once a pass is about to end, and a terminal one  *)
(* only with the condition that says so.                                   *)
QueueInv ==
  /\ pc \in Running => err = "none"
  /\ pc # "idle" /\ err = "ackTerminal" => latest.cond.terminal = "True"
  /\ NeverAbandoned

FinalizerHolds == /\ cr.fin => cr.exists
                  /\ cr.exists /\ cr.del => cr.fin

CreatesBehindFinalizer ==
  /\ pc \in {"manage", "create"} => aws.status = "none"
  /\ pc = "create" => cr.fin

DeletesOnRequest ==
  /\ desired.del => cr.del
  /\ pc \in {"readDelete", "delete", "unmanage"} => desired.del /\ cr.fin
  /\ pc = "unmanage" => aws.status \in {"none", "deleting"}

(* No AWS resource but a dying one without an object that a finalizer holds, *)
(* and no dying one unasked.                                                 *)
LifecycleInv ==
  /\ FinalizerHolds /\ CreatesBehindFinalizer /\ DeletesOnRequest
  /\ aws.status \notin {"none", "deleting"} => cr.exists /\ cr.fin
  /\ aws.status = "deleting" => cr.del
=============================================================================
