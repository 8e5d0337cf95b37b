------------------------- MODULE ResourceLifecycle -------------------------
(***************************************************************************)
(* What every resource of the controller promises about the life of the    *)
(* custom resource and of the AWS resource behind it, whatever its kind:   *)
(* the AWS resource is created only for an object that a finalizer holds,  *)
(* it is destroyed only on the user's request, and the object is released  *)
(* only when the AWS resource is gone or, for the kinds that do not wait   *)
(* for that, at least dying.  Failures, retries and conditions are below   *)
(* this level.                                                             *)
(***************************************************************************)

CONSTANT AwaitsDestruction   \* the object stays until the AWS resource is gone

VARIABLES
  present,     \* the custom resource exists
  finalizer,   \* it carries the finalizer of the controller
  requested,   \* the user has deleted it
  external     \* the AWS resource: "none", "live" or "dying"

vars == <<present, finalizer, requested, external>>

TypeOK == /\ present \in BOOLEAN /\ finalizer \in BOOLEAN
          /\ requested \in BOOLEAN
          /\ external \in {"none", "live", "dying"}

Init == /\ present = TRUE /\ finalizer = FALSE
        /\ requested = FALSE /\ external = "none"

(* The user deletes the object: it goes at once if nothing holds it. *)
RequestDeletion == /\ present /\ ~requested
                   /\ requested' = TRUE
                   /\ present' = finalizer
                   /\ UNCHANGED <<finalizer, external>>

Hold == /\ present /\ ~finalizer
        /\ finalizer' = TRUE
        /\ UNCHANGED <<present, requested, external>>

Create == /\ present /\ finalizer /\ external = "none"
          /\ external' = "live"
          /\ UNCHANGED <<present, finalizer, requested>>

Destroy == /\ requested /\ external = "live"
           /\ external' \in {"dying", "none"}
           /\ UNCHANGED <<present, finalizer, requested>>

Vanish == /\ external = "dying"
          /\ external' = "none"
          /\ UNCHANGED <<present, finalizer, requested>>

Release == /\ requested /\ finalizer
           /\ \/ external = "none"
              \/ external = "dying" /\ ~AwaitsDestruction
           /\ finalizer' = FALSE
           /\ present' = FALSE
           /\ UNCHANGED <<requested, external>>

Next == RequestDeletion \/ Hold \/ Create \/ Destroy \/ Vanish \/ Release

Spec == Init /\ [][Next]_vars

(* No AWS resource without an object that can lead the controller to it, *)
(* unless it is dying already.                                           *)
NoOrphan == \/ external = "live"
            \/ external = "dying" /\ AwaitsDestruction
            => present /\ finalizer

(* The AWS resource never dies of anything but the user's request. *)
DestroyedOnRequest == external = "dying" => requested
=============================================================================
