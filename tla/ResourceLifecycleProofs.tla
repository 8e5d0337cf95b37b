----------------------- MODULE ResourceLifecycleProofs -----------------------
(***************************************************************************)
(* What the abstract lifecycle promises, and so everything that implements *)
(* it: no orphan, and no death of the AWS resource but on request.         *)
(***************************************************************************)
EXTENDS ResourceLifecycle, TLAPS

(* The finalizer goes only with the object, and an object that is on its   *)
(* way out is still there because of it.                                   *)
Inv == /\ TypeOK
       /\ NoOrphan
       /\ DestroyedOnRequest
       /\ finalizer => present
       /\ present /\ requested => finalizer

(* Whatever implements the lifecycle leaves no orphan and destroys nothing *)
(* unasked: NoOrphan and DestroyedOnRequest hold for every implementation. *)
THEOREM LifecycleSafe == Spec => [](NoOrphan /\ DestroyedOnRequest)
<1>1. Init => Inv
  BY DEF Init, Inv, TypeOK, NoOrphan, DestroyedOnRequest
<1>2. Inv /\ [Next]_vars => Inv'
  <2> SUFFICES ASSUME Inv, [Next]_vars PROVE Inv'
    OBVIOUS
  <2> USE DEF Inv, TypeOK, NoOrphan, DestroyedOnRequest
  <2>1. CASE RequestDeletion  BY <2>1 DEF RequestDeletion
  <2>2. CASE Hold             BY <2>2 DEF Hold
  <2>3. CASE Create           BY <2>3 DEF Create
  <2>4. CASE Destroy          BY <2>4 DEF Destroy
  <2>5. CASE Vanish           BY <2>5 DEF Vanish
  <2>6. CASE Release          BY <2>6 DEF Release
  <2>7. CASE UNCHANGED vars   BY <2>7 DEF vars
  <2> QED
    BY <2>1, <2>2, <2>3, <2>4, <2>5, <2>6, <2>7 DEF Next
<1>3. Inv => NoOrphan /\ DestroyedOnRequest
  BY DEF Inv
<1> QED
  BY <1>1, <1>2, <1>3, PTL DEF Spec
=============================================================================
