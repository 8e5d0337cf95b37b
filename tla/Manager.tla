------------------------------ MODULE Manager ------------------------------
(***************************************************************************)
(* What the resource managers of the smaller kinds have in common: what    *)
(* generated code, alike in every pkg/resource/<kind>, does with the       *)
(* result of a read or of a call.  A module for a kind EXTENDS this one and*)
(* adds its spec, its service, its sdk.go and its hooks.  The line numbers *)
(* in PROJECT.json are those of user.                                      *)
(*                                                                         *)
(* An AWS resource is deleted in one call that is not waited for, and      *)
(* nothing is late-initialised.                                            *)
(***************************************************************************)
EXTENDS Runtime, FiniteSets

(* A resource as onError gets it when the call returned none. *)
AsLatest(r) == [spec |-> r.spec, ann |-> r.ann, status |-> r.status, cond |-> r.cond]

(* These kinds keep nothing in annotations. *)
NoAnnotations == [a \in {} |-> None]

(* The user creates a resource; the service has none yet, "none" apart. *)
StartsWith(spec, status) ==
  /\ cr = [NewResource(spec, NoAnnotations) EXCEPT !.status = status]
  /\ latest = AsLatest(cr)
  /\ StartsIdle

(* A step of the service alone. *)
ServiceStep(status) ==
  /\ aws' = [aws EXCEPT !.status = status]
  /\ UNCHANGED <<crVars, ctlVars, edits, faults>>

AwsDeleted == aws.status = "deleting" /\ ServiceStep("none")

-----------------------------------------------------------------------------
(* Reading. *)

(* ReadOne returns r, and the runtime compares it with the desired resource. *)
Observes(r, differs) ==
  /\ pc = "read" /\ aws.status # "none"
  /\ latest' = r
  /\ pc' = IF differs THEN "update" ELSE "lateInit"
  /\ UNCHANGED <<crVars, aws, desired, err, edits, faults>>

ReadOneFails ==
  /\ pc = "read"
  /\ Fault("read")
  /\ FailWith(AsLatest(desired), "awsOther")
  /\ UNCHANGED <<crVars, aws, edits>>

(* A creation is read back; the runtime keeps the status of what it reads. *)
ReadsBack(r) ==
  /\ pc = "readBack" /\ aws.status # "none"
  /\ latest' = [latest EXCEPT !.status = r.status, !.cond = r.cond]
  /\ pc' = "patchSpec"
  /\ UNCHANGED <<crVars, aws, desired, err, edits, faults>>

-----------------------------------------------------------------------------
(* Creating and updating. *)

(* A call the service accepts: the manager goes on with r, or the answer is *)
(* lost and "was" is what it had before.                                    *)
Answers(r, was, next) ==
  \/ /\ latest' = r
     /\ pc' = next
     /\ UNCHANGED <<desired, err, faults>>
  \/ /\ Fault("lost")
     /\ FailWith(was, "awsOther")

(* A call the service refuses: with error e if it is not valid, or with any. *)
Refused(valid, e, was) ==
  /\ \/ /\ ~valid
        /\ FailWith(was, e)
        /\ UNCHANGED faults
     \/ /\ Fault("reject")
        /\ \E any \in {"awsOther", "awsTerminal"} : FailWith(was, any)
  /\ UNCHANGED <<crVars, aws, edits>>

(* Nothing is done, and the pass ends with error e. *)
GivesUp(r, e) ==
  /\ FailWith(r, e)
  /\ UNCHANGED <<crVars, aws, edits, faults>>

(* LateInitialize has no fields to initialize. *)
LateInitialize ==
  /\ pc = "lateInit"
  /\ pc' = "patchStatus"
  /\ UNCHANGED <<crVars, aws, desired, latest, err, edits, faults>>

-----------------------------------------------------------------------------
(* Deleting. *)

(* ReadOne returns r, which Delete is called with. *)
ObservesDoomed(r) ==
  /\ pc = "readDelete" /\ aws.status # "none"
  /\ latest' = r
  /\ pc' = "delete"
  /\ UNCHANGED <<crVars, aws, desired, err, edits, faults>>

ReadDeleteFails ==
  /\ pc = "readDelete"
  /\ Fault("read")
  /\ latest' = AsLatest(desired)
  /\ err' = "awsOther"
  /\ pc' = "patchStatus"
  /\ UNCHANGED <<crVars, aws, desired, edits>>

(* The service accepts the deletion: the resource is released at once. *)
Deletes(deletable, after) ==
  /\ pc = "delete" /\ deletable
  /\ aws' = [aws EXCEPT !.status = after]
  /\ \/ /\ DeleteDone
        /\ UNCHANGED faults
     \/ /\ Fault("lost")
        /\ DeleteReturns(latest, "awsOther")
  /\ UNCHANGED <<crVars, edits>>

(* Mutant: a deletion that is refused releases the resource as well. *)
DeleteRefusedDone(deletable, e) ==
  /\ pc = "delete"
  /\ IF deletable THEN Fault("reject") ELSE UNCHANGED faults
  /\ DeleteDone
  /\ UNCHANGED <<crVars, aws, edits>>

(* A deletion the service refuses: with error e in the wrong state, or with *)
(* any, which may be terminal.                                              *)
DeleteRefused(deletable, e) ==
  /\ pc = "delete"
  /\ \/ /\ ~deletable
        /\ DeleteReturns(latest, e)
        /\ UNCHANGED faults
     \/ /\ Fault("reject")
        /\ \E any \in {"awsOther", "awsTerminal"} : DeleteReturns(latest, any)
  /\ UNCHANGED <<crVars, aws, edits>>

-----------------------------------------------------------------------------
(* The steps of a pass that do not depend on the kind. *)
KindlessStep ==
  \/ Fetch \/ FetchGone
  \/ ReadOneNotFound \/ Manage \/ ReadBackFails
  \/ PatchSpec \/ LateInitialize
  \/ ReadDeleteNotFound \/ Unmanage

(* The life of the resource and of the AWS resource, without the rest. *)
Lifecycle == INSTANCE ResourceLifecycle WITH
  AwaitsDestruction <- FALSE,
  present <- cr.exists,
  finalizer <- cr.fin,
  requested <- cr.del,
  external <- IF aws.status = "none" THEN "none"
              ELSE IF aws.status = "deleting" THEN "dying" ELSE "live"

(* Every step of the controller, of the service and of the user is a step  *)
(* of the lifecycle or leaves it unchanged.                                *)
ImplementsLifecycle == Lifecycle!Spec
=============================================================================
