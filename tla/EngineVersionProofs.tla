------------------------ MODULE EngineVersionProofs ------------------------
(***************************************************************************)
(* What the comparison of engine versions decides, for every set of        *)
(* versions: which of them it can match at all, and which releases then.   *)
(***************************************************************************)
EXTENDS EngineVersion, TLAPS

(* A version that says enough: before version 6 it is given in full, or it *)
(* ends in "x".                                                            *)
SaysEnough(v) ==
  v[1] > 5 \/ v[Len(v)] = AnyNumber \/ (Len(v) = 3 /\ v[2] # AnyNumber)

LEMMA VersionParts ==
  ASSUME NEW v \in Versions
  PROVE  /\ Len(v) \in 1..3 /\ v[1] \in Nat /\ v \in Seq(Int)
         /\ Len(v) > 1 => v[2] \in Nat \cup {AnyNumber}
         /\ Len(v) > 2 => v[3] \in Nat \cup {AnyNumber}
  BY VersionsAssumption

(* Two versions in full with the same numbers are the same. *)
LEMMA SameParts ==
  ASSUME NEW v \in Versions, NEW w \in Versions, Len(v) = 3, Len(w) = 3,
         v[1] = w[1], v[2] = w[2], v[3] = w[3]
  PROVE  v = w
<1>1. v \in Seq(Int) /\ w \in Seq(Int)
  BY VersionParts
<1>2. \A i \in 1..3 : v[i] = w[i]
  OBVIOUS
<1> QED
  BY <1>1, <1>2

(* A release that was installed for a version is no difference to it. *)
LEMMA InstalledMatches ==
  ASSUME NEW v \in Versions, NEW w \in Installs(v), SaysEnough(v)
  PROVE  EngineVersionsMatch(v, w)
<1>1. w \in Versions /\ Len(w) = 3 /\ w[1] = v[1]
  BY DEF Installs, Releases
<1>2. minorNumber(v) < 0 \/ minorNumber(v) = minorNumber(w)
  BY <1>1, VersionParts DEF Installs, minorNumber, AnyNumber
<1>3. CASE v[1] > 5 \/ v[Len(v)] = AnyNumber
  BY <1>1, <1>2, <1>3 DEF EngineVersionsMatch
<1>4. CASE ~(v[1] > 5) /\ v[Len(v)] # AnyNumber
  <2>1. Len(v) = 3 /\ v[1] <= 5 /\ v[2] # AnyNumber /\ v[3] # AnyNumber
    BY <1>4, VersionParts DEF SaysEnough
  <2>2. v[2] = w[2] /\ v[3] = w[3]
    BY <2>1 DEF Installs
  <2> QED
    BY <1>1, <2>1, <2>2, SameParts DEF EngineVersionsMatch
<1> QED
  BY <1>3, <1>4

(* Only a version that says enough is ever matched. *)
LEMMA MatchingSaysEnough ==
  ASSUME NEW v \in Versions, NEW w \in Releases, EngineVersionsMatch(v, w)
  PROVE  SaysEnough(v)
<1>1. CASE v = w
  BY <1>1 DEF Releases, SaysEnough
<1>2. CASE v # w
  BY <1>2 DEF EngineVersionsMatch, SaysEnough
<1> QED
  BY <1>1, <1>2

(* A release that is no difference is one the service takes. *)
LEMMA MatchingIsInstalled ==
  ASSUME NEW v \in Versions, NEW w \in Releases, EngineVersionsMatch(v, w)
  PROVE  w \in Installs(v)
<1>1. w \in Versions /\ Len(w) = 3 /\ w[2] # AnyNumber /\ w[3] # AnyNumber
  BY DEF Releases
<1>2. CASE v = w
  BY <1>1, <1>2 DEF Installs
<1>3. CASE v # w
  <2>1. /\ v[1] > 5 \/ v[Len(v)] = AnyNumber
        /\ v[1] = w[1]
        /\ minorNumber(v) < 0 \/ minorNumber(v) = minorNumber(w)
    BY <1>3 DEF EngineVersionsMatch
  <2>2. Len(v) > 1 => v[2] \in {AnyNumber, w[2]}
    BY <1>1, <2>1, VersionParts DEF minorNumber, AnyNumber
  <2>3. Len(v) > 2 /\ v[1] <= 5 => v[3] \in {AnyNumber, w[3]}
    BY <2>1, VersionParts
  <2> QED
    BY <2>1, <2>2, <2>3 DEF Installs
<1> QED
  BY <1>2, <1>3

(***************************************************************************)
(* EngineVersionsMatch never takes a change of the user for a choice of the*)
(* service, and a choice for a change exactly where the version does not   *)
(* say enough: "5.0" matches no release at all, those the service may take *)
(* for it included, so that the manager sees a difference in every pass;   *)
(* any other version matches exactly the releases that may be installed.   *)
(***************************************************************************)
THEOREM EngineVersionsMatchIsExact ==
  \A v \in Versions, w \in Releases :
    EngineVersionsMatch(v, w) <=> SaysEnough(v) /\ w \in Installs(v)
  BY InstalledMatches, MatchingIsInstalled, MatchingSaysEnough
=============================================================================
