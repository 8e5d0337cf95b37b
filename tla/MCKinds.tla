------------------------------ MODULE MCKinds ------------------------------
(* The instance of Kinds that TLC checks. *)
EXTENDS Kinds

P(name, value) == [name |-> name, value |-> value]

(* No parameter, a batch and a rest, the same in another order with changes, *)
(* and one that is left empty.                                               *)
Lists == {<<>>,
          <<P("p", "x"), P("q", "x"), P("r", "x")>>,
          <<P("r", "y"), P("q", "x")>>,
          <<P("q", "x"), P("p", "")>>}
=============================================================================
