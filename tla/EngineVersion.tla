--------------------------- MODULE EngineVersion ---------------------------
(***************************************************************************)
(* Engine versions as users ask for them and as the service reports them   *)
(* (pkg/util/engine_version.go): a sequence of up to three numbers, "x" in *)
(* the place of one is -1.                                                 *)
(***************************************************************************)
EXTENDS Integers, Sequences

CONSTANT Versions        \* values of Spec.EngineVersion, and the releases

AnyNumber == -1

ASSUME VersionsAssumption ==
  \A v \in Versions : /\ v \in Seq(Int) /\ Len(v) \in 1..3
                      /\ v[1] \in Nat
                      /\ \A i \in 2..Len(v) : v[i] \in Nat \cup {AnyNumber}

(* What the service has: a version in full. *)
Releases == {v \in Versions : Len(v) = 3 /\ v[2] # AnyNumber /\ v[3] # AnyNumber}

(* External: the releases the service may take for v; from version 6 on it *)
(* chooses the patch itself.                                               *)
Installs(v) ==
  {w \in Releases : /\ w[1] = v[1]
                    /\ Len(v) > 1 => v[2] \in {AnyNumber, w[2]}
                    /\ Len(v) > 2 /\ v[1] <= 5 => v[3] \in {AnyNumber, w[3]}}

(* The minor number, if there is one. *)
minorNumber(v) == IF Len(v) > 1 THEN v[2] ELSE AnyNumber

(* Mutant: the major version is enough. *)
EngineVersionsMatchMajor(d, l) == d = l \/ d[1] = l[1]

EngineVersionsMatch(d, l) ==
  \/ d = l
  \/ /\ d[1] > 5 \/ d[Len(d)] = AnyNumber
     /\ d[1] = l[1]
     /\ minorNumber(d) < 0 \/ minorNumber(d) = minorNumber(l)
=============================================================================
