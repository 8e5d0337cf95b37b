------------------------- MODULE ReferencesProofs -------------------------
(***************************************************************************)
(* Resources and their references, for every set of objects, every graph   *)
(* of references between them and any number of edits and failures.        *)
(***************************************************************************)
EXTENDS References, TLAPS

(* The kinds of the objects, and so their fields, do not change. *)
LEMMA FieldsStay ==
  ASSUME UNCHANGED kind, NEW o
  PROVE  Fields(o)' = Fields(o) /\ CRs(o)' = CRs(o) /\ Passes(o)' = Passes(o)
  BY DEF Fields, CRs, Passes, SpecsOf

LEMMA KindStays ==
  ASSUME Next PROVE UNCHANGED kind
  BY DEF Next, Reconcile, UserEdit, UserDelete, AwsSettles, Fetch, Resolve, ResolveFails,
         Ends, Create, CreateRefused, ReadOne, Patch, Release, Crash

(* One object is changed at most, the others are not. *)
LEMMA OneObject ==
  ASSUME TypeOK, NEW o \in Objects, NEW c \in CRs(o),
         object' = [object EXCEPT ![o] = c] \/ UNCHANGED object
  PROVE  /\ object' = [x \in Objects |-> object'[x]]
         /\ \A x \in Objects : object'[x] \in CRs(x)
  BY DEF TypeOK

LEMMA OnePass ==
  ASSUME TypeOK, NEW o \in Objects, NEW p, p = NoPass \/ p \in Passes(o),
         pass' = [pass EXCEPT ![o] = p] \/ UNCHANGED pass
  PROVE  /\ pass' = [x \in Objects |-> pass'[x]]
         /\ \A x \in Objects : pass'[x] = NoPass \/ pass'[x] \in Passes(x)
  BY DEF TypeOK

(* A step that changes one object and one pass keeps the types. *)
LEMMA StepType ==
  ASSUME TypeOK, UNCHANGED kind,
         NEW o \in Objects, NEW c \in CRs(o), NEW p, p = NoPass \/ p \in Passes(o),
         object' = [object EXCEPT ![o] = c] \/ UNCHANGED object,
         pass' = [pass EXCEPT ![o] = p] \/ UNCHANGED pass,
         aws' \in [Objects -> {"none", "busy", "available"}],
         ever' \subseteq Objects, queued' \subseteq Objects
  PROVE  TypeOK'
<1>1. /\ object' = [x \in Objects |-> object'[x]]
      /\ \A x \in Objects : object'[x] \in CRs(x)'
  BY OneObject, FieldsStay
<1>2. /\ pass' = [x \in Objects |-> pass'[x]]
      /\ \A x \in Objects : pass'[x] = NoPass \/ pass'[x] \in Passes(x)'
  BY OnePass, FieldsStay
<1> QED
  BY <1>1, <1>2 DEF TypeOK, NoPass

(* What a user writes is well-formed. *)
LEMMA WrittenType ==
  ASSUME NEW o, NEW f, NEW v \in Written(o, f)
  PROVE  /\ v \in [refs : SUBSET Objects, ids : SUBSET IDs]
         /\ \E x \in IDs : v.ids \subseteq {x}
<1>1. RefsFor(o, f) \subseteq SUBSET Objects
  BY DEF RefsFor
<1>2. "own" \in IDs
  BY DEF IDs
<1>3. v.refs \in SUBSET Objects /\ v.ids \in {{}, {"own"}}
  BY <1>1 DEF Written
<1> QED
  BY <1>1, <1>2, <1>3 DEF Written

(* One field of a spec is changed. *)
LEMMA SpecUpdated ==
  ASSUME NEW o, NEW s \in SpecsOf(o), NEW i \in DOMAIN Fields(o),
         NEW v \in [refs : SUBSET Objects, ids : SUBSET IDs],
         ~Fields(o)[i].many => \E x \in IDs : v.ids \subseteq {x}
  PROVE  [s EXCEPT ![i] = v] \in SpecsOf(o)
  BY DEF SpecsOf

LEMMA ClearedType ==
  ASSUME NEW o, NEW s \in SpecsOf(o)
  PROVE  ClearResolvedReferences(o, s) \in SpecsOf(o)
<1>1. \A i \in DOMAIN Fields(o) :
        s[i] \in [refs : SUBSET Objects, ids : SUBSET IDs] /\ [s[i] EXCEPT !.ids = {}]
          \in [refs : SUBSET Objects, ids : SUBSET IDs]
  BY DEF SpecsOf
<1>2. IDs # {}
  BY DEF IDs
<1> QED
  BY <1>1, <1>2 DEF SpecsOf, ClearResolvedReferences

-----------------------------------------------------------------------------
(* Every action keeps the types. *)
LEMMA UsersType ==
  ASSUME TypeOK, NEW o \in Objects, UserEdit(o) \/ UserDelete(o) PROVE TypeOK'
<1>0. UNCHANGED kind
  BY DEF UserEdit, UserDelete
<1>1. object[o] \in CRs(o)
  BY DEF TypeOK
<1>2. CASE UserEdit(o)
  <2>0. PICK i \in Referring(o) : \E v \in Written(o, Fields(o)[i]) :
          object' = [object EXCEPT ![o].spec[i] = v]
    BY <1>2 DEF UserEdit
  <2>1. PICK v \in Written(o, Fields(o)[i]) : object' = [object EXCEPT ![o].spec[i] = v]
    BY <2>0
  <2>2. [object[o].spec EXCEPT ![i] = v] \in SpecsOf(o)
    BY <1>1, WrittenType, SpecUpdated DEF CRs, Referring
  <2> DEFINE c == [object[o] EXCEPT !.spec = [@ EXCEPT ![i] = v]]
  <2>3. c \in CRs(o)
    BY <1>1, <2>2 DEF CRs
  <2>4. object' = [object EXCEPT ![o] = c]
    BY <2>1
  <2> HIDE DEF c
  <2>5. UNCHANGED <<aws, ever, pass>> /\ queued' = queued \cup {o}
    BY <1>2 DEF UserEdit
  <2> QED
    BY <1>0, <2>3, <2>4, <2>5, StepType DEF TypeOK
<1>3. CASE UserDelete(o)
  <2> DEFINE c == [object[o] EXCEPT !.del = TRUE]
  <2>1. c \in CRs(o)
    BY <1>1 DEF CRs
  <2>2. object' = [object EXCEPT ![o] = c]
    BY <1>3 DEF UserDelete
  <2> HIDE DEF c
  <2>3. UNCHANGED <<aws, ever, pass>> /\ queued' = queued \cup {o}
    BY <1>3 DEF UserDelete
  <2> QED
    BY <1>0, <2>1, <2>2, <2>3, StepType DEF TypeOK
<1> QED
  BY <1>2, <1>3

LEMMA FetchType ==
  ASSUME TypeOK, NEW o \in Objects, Fetch(o) PROVE TypeOK'
<1> DEFINE p == [at |-> "resolve", from |-> object[o].spec, ko |-> object[o].spec,
                 done |-> {}]
<1>1. p \in Passes(o)
  BY DEF TypeOK, CRs, Passes
<1>2. /\ pass' = [pass EXCEPT ![o] = p] /\ UNCHANGED <<kind, object, aws, ever>>
      /\ queued' = queued \ {o}
  BY DEF Fetch
<1> HIDE DEF p
<1> QED
  BY <1>1, <1>2, StepType DEF TypeOK

(* A pass that is not idle has the form of one. *)
LEMMA PassUnderWay ==
  ASSUME TypeOK, NEW o \in Objects, pass[o].at # "idle"
  PROVE  pass[o] \in Passes(o)
  BY DEF TypeOK, NoPass

LEMMA UnresolvedType ==
  ASSUME TypeOK, NEW o \in Objects, pass[o].at # "idle", NEW x \in Unresolved(o)
  PROVE  /\ x[1] \in DOMAIN Fields(o) /\ x[2] \in Objects
         /\ x = <<x[1], x[2]>> /\ x[2] \in pass[o].ko[x[1]].refs
<1>1. pass[o].ko \in SpecsOf(o)
  BY PassUnderWay DEF Passes
<1>2. PICK i \in DOMAIN pass[o].ko : \E t \in pass[o].ko[i].refs : x = <<i, t>>
  BY DEF Unresolved
<1> QED
  BY <1>1, <1>2 DEF SpecsOf

LEMMA ResolveType ==
  ASSUME TypeOK, NEW o \in Objects, Resolve(o) PROVE TypeOK'
<1>0. pass[o].at # "idle" /\ pass[o] \in Passes(o)
  BY PassUnderWay DEF Resolve
<1>1. PICK x \in NextReferences(o) :
        pass' = [pass EXCEPT ![o].ko[x[1]].ids = Added(Fields(o)[x[1]], @, x[2]),
                             ![o].done = @ \cup {x}]
  BY DEF Resolve
<1>2. /\ x[1] \in DOMAIN Fields(o) /\ x[2] \in Objects
      /\ x \in (DOMAIN Fields(o)) \X Objects
  BY <1>0, UnresolvedType DEF NextReferences
<1> DEFINE f == Fields(o)[x[1]]
           old == pass[o].ko[x[1]]
           new == [old EXCEPT !.ids = Added(f, @, x[2])]
           p == [pass[o] EXCEPT !.ko = [@ EXCEPT ![x[1]] = new], !.done = @ \cup {x}]
<1>3. old \in [refs : SUBSET Objects, ids : SUBSET IDs]
  BY <1>0, <1>2 DEF Passes, SpecsOf
<1>4. /\ new \in [refs : SUBSET Objects, ids : SUBSET IDs]
      /\ ~f.many => \E y \in IDs : new.ids \subseteq {y}
  BY <1>2, <1>3 DEF Added, IDs
<1>5. [pass[o].ko EXCEPT ![x[1]] = new] \in SpecsOf(o)
  <2> HIDE DEF new
  <2> QED
    BY <1>0, <1>2, <1>4, SpecUpdated DEF Passes
<1>6. p \in Passes(o)
  <2> HIDE DEF new
  <2> QED
    BY <1>0, <1>2, <1>5 DEF Passes
<1>7. pass' = [pass EXCEPT ![o] = p]
  BY <1>1
<1>8. UNCHANGED <<kind, object, aws, ever, queued>>
  BY DEF Resolve
<1> HIDE DEF p
<1> QED
  BY <1>6, <1>7, <1>8, StepType DEF TypeOK

LEMMA EndsType ==
  ASSUME TypeOK, NEW o \in Objects, NEW spec \in SpecsOf(o), NEW synced \in BOOLEAN,
         Ends(o, spec, synced), UNCHANGED <<aws, ever>>
  PROVE  TypeOK'
<1> DEFINE c == [object[o] EXCEPT !.spec = spec, !.synced = synced, !.terminal = FALSE]
<1>1. c \in CRs(o)
  BY DEF TypeOK, CRs
<1>2. /\ object' = [object EXCEPT ![o] = c] /\ pass' = [pass EXCEPT ![o] = NoPass]
      /\ queued' = queued \cup {o} /\ UNCHANGED kind
  BY DEF Ends
<1> HIDE DEF c
<1> QED
  BY <1>1, <1>2, StepType DEF TypeOK

LEMMA CallsType ==
  ASSUME TypeOK, NEW o \in Objects, Create(o) \/ ReadOne(o) PROVE TypeOK'
<1> DEFINE p == [pass[o] EXCEPT !.at = "patch"]
<1>1. pass[o] \in Passes(o)
  BY PassUnderWay DEF Create, ReadOne, Resolved
<1>2. p \in Passes(o)
  BY <1>1 DEF Passes
<1>3. /\ pass' = [pass EXCEPT ![o] = p] /\ UNCHANGED <<kind, object, queued>>
      /\ aws' \in [Objects -> {"none", "busy", "available"}] /\ ever' \subseteq Objects
  BY DEF Create, ReadOne, TypeOK
<1> HIDE DEF p
<1> QED
  BY <1>2, <1>3, StepType DEF TypeOK

LEMMA CreateRefusedType ==
  ASSUME TypeOK, NEW o \in Objects, CreateRefused(o) PROVE TypeOK'
<1> DEFINE c == [object[o] EXCEPT !.synced = TRUE, !.terminal = TRUE]
<1>1. c \in CRs(o)
  BY DEF TypeOK, CRs
<1>2. /\ object' = [object EXCEPT ![o] = c] /\ pass' = [pass EXCEPT ![o] = NoPass]
      /\ UNCHANGED <<kind, aws, ever, queued>>
  BY DEF CreateRefused
<1> HIDE DEF c
<1> QED
  BY <1>1, <1>2, StepType DEF TypeOK

LEMMA PatchType ==
  ASSUME TypeOK, NEW o \in Objects, Patch(o) PROVE TypeOK'
<1> DEFINE from == pass[o].from
           to == ClearResolvedReferences(o, pass[o].ko)
           spec == [i \in DOMAIN from |-> IF from[i] # to[i] THEN to[i] ELSE object[o].spec[i]]
<1>1. pass[o] \in Passes(o)
  BY PassUnderWay DEF Patch
<1>2. from \in SpecsOf(o) /\ to \in SpecsOf(o) /\ object[o].spec \in SpecsOf(o)
  BY <1>1, ClearedType DEF Passes, TypeOK, CRs
<1>3. spec \in SpecsOf(o)
  <2> HIDE DEF to, from
  <2> QED
    BY <1>2 DEF SpecsOf
<1>4. Ends(o, spec, aws[o] = "available") /\ UNCHANGED <<aws, ever>>
  BY DEF Patch
<1> HIDE DEF spec
<1> QED
  BY <1>3, <1>4, EndsType

LEMMA ReleaseType ==
  ASSUME TypeOK, NEW o \in Objects, Release(o) PROVE TypeOK'
<1> DEFINE c == [object[o] EXCEPT !.exists = FALSE, !.synced = FALSE, !.terminal = FALSE]
<1>1. c \in CRs(o)
  BY DEF TypeOK, CRs
<1>2. /\ object' = [object EXCEPT ![o] = c] /\ UNCHANGED <<kind, ever, pass>>
      /\ aws' = [aws EXCEPT ![o] = "none"] /\ queued' = queued \ {o}
  BY DEF Release
<1> HIDE DEF c
<1> QED
  BY <1>1, <1>2, StepType DEF TypeOK

LEMMA OthersType ==
  ASSUME TypeOK, NEW o \in Objects, AwsSettles(o) \/ Crash(o) \/ ResolveFails(o)
  PROVE  TypeOK'
<1>1. CASE AwsSettles(o)
  <2>1. /\ aws' = [aws EXCEPT ![o] = "available"]
        /\ UNCHANGED <<kind, object, ever, pass, queued>>
    BY <1>1 DEF AwsSettles
  <2> QED
    BY <2>1, StepType DEF TypeOK
<1>2. CASE Crash(o)
  <2>1. /\ pass' = [pass EXCEPT ![o] = NoPass] /\ queued' = queued \cup {o}
        /\ UNCHANGED <<kind, object, aws, ever>>
    BY <1>2 DEF Crash
  <2> QED
    BY <2>1, StepType DEF TypeOK
<1>3. CASE ResolveFails(o)
  <2>1. Ends(o, object[o].spec, FALSE) /\ UNCHANGED <<aws, ever>>
    BY <1>3 DEF ResolveFails
  <2> QED
    BY <2>1, EndsType DEF TypeOK, CRs
<1> QED
  BY <1>1, <1>2, <1>3

LEMMA TypeKept ==
  ASSUME TypeOK, [Next]_vars PROVE TypeOK'
<1>1. CASE Next
  <2>1. PICK o \in Objects :
          \/ UserEdit(o) \/ UserDelete(o) \/ AwsSettles(o) \/ Reconcile(o) \/ Crash(o)
    BY <1>1 DEF Next
  <2> QED
    BY <2>1, UsersType, FetchType, ResolveType, CallsType, CreateRefusedType, PatchType,
       ReleaseType, OthersType DEF Reconcile
<1>2. CASE UNCHANGED vars
  BY <1>2, FieldsStay DEF vars, TypeOK, NoPass
<1> QED
  BY <1>1, <1>2

LEMMA PlainType ==
  ASSUME NEW o, NEW s \in Plain(o) PROVE s \in SpecsOf(o)
<1>1. PICK full \in BOOLEAN :
        s = [i \in DOMAIN Fields(o) |->
               LET f == Fields(o)[i]
                   refs == IF full THEN UNION RefsFor(o, f) ELSE {}
               IN  [refs |-> refs,
                    ids |-> IF f.required /\ refs = {} THEN {"own"} ELSE {}]]
  BY DEF Plain
<1>2. \A f : UNION RefsFor(o, f) \subseteq Objects
  BY DEF RefsFor
<1>3. "own" \in IDs
  BY DEF IDs
<1>4. \A i \in DOMAIN Fields(o) :
        /\ s[i] \in [refs : SUBSET Objects, ids : SUBSET IDs]
        /\ s[i].ids \subseteq {"own"}
  BY <1>1, <1>2, <1>3
<1>5. s = [i \in DOMAIN Fields(o) |-> s[i]]
  BY <1>1
<1> QED
  BY <1>3, <1>4, <1>5 DEF SpecsOf

LEMMA InitType ==
  ASSUME Init PROVE TypeOK
<1>1. /\ object = [o \in Objects |-> object[o]]
      /\ \A o \in Objects : object[o].spec \in Plain(o)
      /\ \A o \in Objects : \E s : object[o] = New(s)
  BY DEF Init
<1>2. ASSUME NEW o \in Objects PROVE object[o] \in CRs(o)
  <2>1. PICK s : object[o] = New(s)
    BY <1>1
  <2>2. s \in SpecsOf(o)
    BY <1>1, <2>1, PlainType DEF New
  <2> QED
    BY <2>1, <2>2 DEF New, CRs
<1>3. /\ pass = [o \in Objects |-> NoPass] /\ aws = [o \in Objects |-> "none"]
      /\ ever = {} /\ queued = Objects
  BY DEF Init
<1> QED
  BY <1>1, <1>2, <1>3 DEF TypeOK

(* Objects and passes are well-formed whatever happens to any of them. *)
THEOREM TypeCorrect == Spec => []TypeOK
<1>1. Init => TypeOK
  BY InitType
<1>2. TypeOK /\ [Next]_vars => TypeOK'
  BY TypeKept
<1> QED
  BY <1>1, <1>2, PTL DEF Spec

-----------------------------------------------------------------------------
(***************************************************************************)
(* Why targets are made first: what is there has been made, what is Synced *)
(* without being Terminal has been made, and so has what a pass resolved;  *)
(* and a pass refers to what it began with.                                *)
(***************************************************************************)
MadeInv ==
  \A o \in Objects :
    /\ aws[o] # "none" => o \in ever
    /\ object[o].synced /\ ~object[o].terminal => o \in ever
    /\ pass[o].at # "idle" => \A x \in pass[o].done : x[2] \in ever

Faithful(p) ==
  \A i \in DOMAIN p.ko : /\ p.ko[i].refs = p.from[i].refs
                         /\ p.ko[i].refs = {} => p.ko[i].ids \subseteq {"own"}

PassInv == \A o \in Objects : pass[o].at # "idle" => Faithful(pass[o])

SafetyInv == TypeOK /\ MadeInv /\ PassInv /\ StoredIDsAreTheUsers

LEMMA UsersSafe ==
  ASSUME SafetyInv, TypeOK', NEW o \in Objects, UserEdit(o) \/ UserDelete(o)
  PROVE  SafetyInv'
<1>1. UNCHANGED <<aws, ever, pass>>
  BY DEF UserEdit, UserDelete
<1>2. \A x \in Objects : /\ object'[x].synced = object[x].synced
                         /\ object'[x].terminal = object[x].terminal
  BY DEF UserEdit, UserDelete, SafetyInv, TypeOK, CRs
<1>3. StoredIDsAreTheUsers'
  <2>1. CASE UserEdit(o)
    <3>0. PICK i \in Referring(o) : \E v \in Written(o, Fields(o)[i]) :
            object' = [object EXCEPT ![o].spec[i] = v]
      BY <2>1 DEF UserEdit
    <3>1. PICK v \in Written(o, Fields(o)[i]) : object' = [object EXCEPT ![o].spec[i] = v]
      BY <3>0
    <3>2. v.ids \subseteq {"own"}
      BY DEF Written
    <3> QED
      BY <3>1, <3>2 DEF SafetyInv, StoredIDsAreTheUsers, TypeOK, CRs, SpecsOf
  <2>2. CASE UserDelete(o)
    <3>1. \A x \in Objects : object'[x].spec = object[x].spec
      BY <2>2 DEF UserDelete, SafetyInv, TypeOK, CRs
    <3> QED
      BY <3>1 DEF SafetyInv, StoredIDsAreTheUsers
  <2> QED
    BY <2>1, <2>2
<1> QED
  BY <1>1, <1>2, <1>3 DEF SafetyInv, MadeInv, PassInv, Faithful

LEMMA FetchSafe ==
  ASSUME SafetyInv, TypeOK', NEW o \in Objects, Fetch(o) PROVE SafetyInv'
<1>1. UNCHANGED <<aws, ever, object>>
  BY DEF Fetch
<1>2. /\ pass'[o] = [at |-> "resolve", from |-> object[o].spec, ko |-> object[o].spec,
                      done |-> {}]
      /\ \A x \in Objects \ {o} : pass'[x] = pass[x]
  BY DEF Fetch, SafetyInv, TypeOK
<1>3. Faithful(pass'[o])
  BY <1>2 DEF Faithful, SafetyInv, StoredIDsAreTheUsers
<1>4. PassInv'
  BY <1>2, <1>3 DEF SafetyInv, PassInv, Faithful
<1> QED
  BY <1>1, <1>2, <1>4 DEF SafetyInv, MadeInv, StoredIDsAreTheUsers

LEMMA ResolveSafe ==
  ASSUME SafetyInv, TypeOK', NEW o \in Objects, Resolve(o) PROVE SafetyInv'
<1>0. TypeOK /\ pass[o].at # "idle" /\ pass[o] \in Passes(o)
  BY PassUnderWay DEF Resolve, SafetyInv
<1>1. PICK x \in NextReferences(o) :
        /\ getReferencedResourceState(x[2], Fields(o)[x[1]])
        /\ pass' = [pass EXCEPT ![o].ko[x[1]].ids = Added(Fields(o)[x[1]], @, x[2]),
                                ![o].done = @ \cup {x}]
  BY DEF Resolve
<1>2. /\ x[1] \in DOMAIN Fields(o) /\ x[2] \in Objects
      /\ x[2] \in pass[o].ko[x[1]].refs
  BY <1>0, UnresolvedType DEF NextReferences
<1>3. x[2] \in ever
  BY <1>1, <1>2 DEF getReferencedResourceState, SafetyInv, MadeInv
<1>4. UNCHANGED <<aws, ever, object>>
  BY DEF Resolve
<1> DEFINE ids == Added(Fields(o)[x[1]], pass[o].ko[x[1]].ids, x[2])
           ko == [pass[o].ko EXCEPT ![x[1]] = [@ EXCEPT !.ids = ids]]
           p == [pass[o] EXCEPT !.ko = ko, !.done = @ \cup {x}]
<1>5. pass' = [pass EXCEPT ![o] = p]
  BY <1>1
<1>6. /\ p.done = pass[o].done \cup {x} /\ p.from = pass[o].from /\ p.ko = ko
  <2> HIDE DEF ko
  <2> QED
    BY <1>0 DEF Passes
<1>7. \A i \in DOMAIN Fields(o) :
        /\ ko[i].refs = pass[o].ko[i].refs
        /\ i # x[1] => ko[i] = pass[o].ko[i]
  <2> HIDE DEF ids
  <2> QED
    BY <1>0, <1>2 DEF Passes, SpecsOf
<1>8. DOMAIN pass[o].ko = DOMAIN Fields(o) /\ DOMAIN ko = DOMAIN Fields(o)
  BY <1>0 DEF Passes, SpecsOf
<1>9. pass'[o] = p /\ \A y \in Objects \ {o} : pass'[y] = pass[y]
  <2> HIDE DEF p
  <2> QED
    BY <1>5 DEF SafetyInv, TypeOK
<1> HIDE DEF p, ko
<1>10. Faithful(pass[o])
  BY <1>0 DEF SafetyInv, PassInv
<1>11. Faithful(pass'[o])
  BY <1>2, <1>6, <1>7, <1>8, <1>9, <1>10 DEF Faithful
<1>12. PassInv'
  BY <1>9, <1>11 DEF SafetyInv, PassInv, Faithful
<1>13. MadeInv'
  BY <1>0, <1>3, <1>4, <1>6, <1>9 DEF SafetyInv, MadeInv
<1> QED
  BY <1>4, <1>12, <1>13 DEF SafetyInv, StoredIDsAreTheUsers

(* The end of a pass: what it stores, and Synced only if the resource is there. *)
LEMMA EndsSafe ==
  ASSUME SafetyInv, TypeOK', NEW o \in Objects, NEW spec \in SpecsOf(o), NEW synced \in BOOLEAN,
         Ends(o, spec, synced), UNCHANGED <<aws, ever>>,
         synced => aws[o] # "none",
         \A i \in DOMAIN Fields(o) : spec[i].ids \subseteq {"own"}
  PROVE  SafetyInv'
<1>1. /\ pass'[o] = NoPass /\ \A x \in Objects \ {o} : pass'[x] = pass[x]
  BY DEF Ends, SafetyInv, TypeOK
<1>2. /\ object'[o].spec = spec /\ object'[o].synced = synced
      /\ \A x \in Objects \ {o} : object'[x] = object[x]
  BY DEF Ends, SafetyInv, TypeOK, CRs
<1>3. PassInv'
  <2> SUFFICES ASSUME NEW x \in Objects, pass'[x].at # "idle"
               PROVE  Faithful(pass'[x])
    BY DEF PassInv, Faithful
  <2>1. x # o /\ pass'[x] = pass[x]
    BY <1>1 DEF NoPass
  <2> QED
    BY <2>1 DEF SafetyInv, PassInv
<1>4. MadeInv'
  <2> SUFFICES ASSUME NEW x \in Objects
               PROVE  /\ aws[x] # "none" => x \in ever
                      /\ object'[x].synced /\ ~object'[x].terminal => x \in ever
                      /\ pass'[x].at # "idle" => \A y \in pass'[x].done : y[2] \in ever
    BY DEF MadeInv
  <2>1. CASE x = o
    BY <1>1, <1>2, <2>1 DEF SafetyInv, MadeInv, NoPass
  <2>2. CASE x # o
    BY <1>1, <1>2, <2>2 DEF SafetyInv, MadeInv
  <2> QED
    BY <2>1, <2>2
<1>5. StoredIDsAreTheUsers'
  BY <1>2 DEF SafetyInv, StoredIDsAreTheUsers, SpecsOf
<1> QED
  BY <1>3, <1>4, <1>5 DEF SafetyInv

LEMMA FaithfulSame ==
  ASSUME NEW p, NEW q, Faithful(p), q.from = p.from, q.ko = p.ko PROVE Faithful(q)
  BY DEF Faithful

LEMMA CallsSafe ==
  ASSUME SafetyInv, TypeOK', NEW o \in Objects, Create(o) \/ ReadOne(o) PROVE SafetyInv'
<1>0. pass[o].at # "idle" /\ pass[o] \in Passes(o)
  BY PassUnderWay DEF Create, ReadOne, Resolved, SafetyInv
<1>1. /\ pass'[o] = [pass[o] EXCEPT !.at = "patch"]
      /\ \A x \in Objects \ {o} : pass'[x] = pass[x]
  BY DEF Create, ReadOne, SafetyInv, TypeOK
<1>2. /\ pass'[o].from = pass[o].from /\ pass'[o].ko = pass[o].ko
      /\ pass'[o].done = pass[o].done
  BY <1>0, <1>1 DEF Passes
<1>3. /\ UNCHANGED object /\ ever \subseteq ever'
      /\ \A x \in Objects : aws'[x] # aws[x] => x \in ever'
  BY DEF Create, ReadOne, SafetyInv, TypeOK
<1>4. PassInv'
  <2> SUFFICES ASSUME NEW x \in Objects, pass'[x].at # "idle"
               PROVE  Faithful(pass'[x])
    BY DEF PassInv, Faithful
  <2> QED
    BY <1>0, <1>1, <1>2, FaithfulSame DEF SafetyInv, PassInv
<1>5. MadeInv'
  <2> SUFFICES ASSUME NEW x \in Objects
               PROVE  /\ aws'[x] # "none" => x \in ever'
                      /\ object[x].synced /\ ~object[x].terminal => x \in ever'
                      /\ pass'[x].at # "idle" => \A y \in pass'[x].done : y[2] \in ever'
    BY <1>3 DEF MadeInv
  <2> QED
    BY <1>0, <1>1, <1>2, <1>3 DEF SafetyInv, MadeInv
<1> QED
  BY <1>3, <1>4, <1>5 DEF SafetyInv, StoredIDsAreTheUsers

(* What a pass stores has none of the identifiers it resolved. *)
LEMMA PatchSafe ==
  ASSUME SafetyInv, TypeOK', NEW o \in Objects, Patch(o) PROVE SafetyInv'
<1> DEFINE from == pass[o].from
           ko == pass[o].ko
           to == ClearResolvedReferences(o, ko)
           spec == [i \in DOMAIN from |-> IF from[i] # to[i] THEN to[i] ELSE object[o].spec[i]]
<1>1. TypeOK /\ pass[o] \in Passes(o) /\ Faithful(pass[o])
  BY PassUnderWay DEF Patch, SafetyInv, PassInv
<1>2. from \in SpecsOf(o) /\ ko \in SpecsOf(o) /\ to \in SpecsOf(o) /\ object[o].spec \in SpecsOf(o)
  BY <1>1, ClearedType DEF Passes, TypeOK, CRs
<1>3. \A i \in DOMAIN Fields(o) : to[i].ids \subseteq {"own"}
  <2> SUFFICES ASSUME NEW i \in DOMAIN Fields(o) PROVE to[i].ids \subseteq {"own"}
    OBVIOUS
  <2>0. i \in DOMAIN ko /\ ko[i] \in [refs : SUBSET Objects, ids : SUBSET IDs]
    BY <1>2 DEF SpecsOf
  <2>1. ko[i].refs = {} => ko[i].ids \subseteq {"own"}
    BY <1>1, <2>0 DEF Faithful
  <2>2. to[i] = IF ko[i].refs # {} THEN [ko[i] EXCEPT !.ids = {}] ELSE ko[i]
    BY <2>0 DEF ClearResolvedReferences
  <2> QED
    BY <2>0, <2>1, <2>2
<1>4. \A i \in DOMAIN Fields(o) : object[o].spec[i].ids \subseteq {"own"}
  BY <1>2 DEF SafetyInv, StoredIDsAreTheUsers, SpecsOf
<1>5. spec \in SpecsOf(o) /\ \A i \in DOMAIN Fields(o) : spec[i].ids \subseteq {"own"}
  <2> HIDE DEF to, from
  <2> QED
    BY <1>2, <1>3, <1>4 DEF SpecsOf
<1>6. Ends(o, spec, aws[o] = "available") /\ UNCHANGED <<aws, ever>>
  BY DEF Patch
<1>7. aws[o] = "available" => aws[o] # "none"
  OBVIOUS
<1> HIDE DEF spec
<1> QED
  BY <1>5, <1>6, <1>7, EndsSafe

LEMMA DropsSafe ==
  ASSUME SafetyInv, TypeOK', NEW o \in Objects, CreateRefused(o) \/ Crash(o)
  PROVE  SafetyInv'
<1>1. /\ pass'[o] = NoPass /\ UNCHANGED <<aws, ever>>
      /\ \A x \in Objects \ {o} : pass'[x] = pass[x] /\ object'[x] = object[x]
  BY DEF CreateRefused, Crash, SafetyInv, TypeOK
<1>2. /\ object'[o].spec = object[o].spec
      /\ object'[o].terminal \/ object'[o] = object[o]
  <2>1. CASE CreateRefused(o)
    <3>1. object[o] \in CRs(o) /\ object'[o] = [object[o] EXCEPT !.synced = TRUE, !.terminal = TRUE]
      BY <2>1 DEF CreateRefused, SafetyInv, TypeOK
    <3> QED
      BY <3>1 DEF CRs
  <2>2. CASE Crash(o)
    BY <2>2 DEF Crash
  <2> QED
    BY <2>1, <2>2
<1>3. PassInv'
  <2> SUFFICES ASSUME NEW x \in Objects, pass'[x].at # "idle"
               PROVE  Faithful(pass'[x])
    BY DEF PassInv, Faithful
  <2> QED
    BY <1>1 DEF SafetyInv, PassInv, NoPass
<1>4. MadeInv'
  <2> SUFFICES ASSUME NEW x \in Objects
               PROVE  /\ aws[x] # "none" => x \in ever
                      /\ object'[x].synced /\ ~object'[x].terminal => x \in ever
                      /\ pass'[x].at # "idle" => \A y \in pass'[x].done : y[2] \in ever
    BY <1>1 DEF MadeInv
  <2>1. CASE x = o
    BY <1>1, <1>2, <2>1 DEF SafetyInv, MadeInv, NoPass
  <2>2. CASE x # o
    BY <1>1, <2>2 DEF SafetyInv, MadeInv
  <2> QED
    BY <2>1, <2>2
<1>5. \A x \in Objects : object'[x].spec = object[x].spec
  BY <1>1, <1>2
<1> QED
  BY <1>3, <1>4, <1>5 DEF SafetyInv, StoredIDsAreTheUsers

LEMMA OutsideSafe ==
  ASSUME SafetyInv, TypeOK', NEW o \in Objects, AwsSettles(o) \/ Release(o)
  PROVE  SafetyInv'
<1>1. /\ UNCHANGED <<ever, pass>>
      /\ \A x \in Objects : aws'[x] # "none" => aws[x] # "none"
      /\ \A x \in Objects : /\ object'[x].spec = object[x].spec
                            /\ object'[x].synced => object'[x] = object[x]
  <2>1. CASE AwsSettles(o)
    BY <2>1 DEF AwsSettles, SafetyInv, TypeOK
  <2>2. CASE Release(o)
    <3>1. /\ aws' = [aws EXCEPT ![o] = "none"] /\ UNCHANGED <<ever, pass>>
          /\ object' = [object EXCEPT ![o] = [@ EXCEPT !.exists = FALSE, !.synced = FALSE,
                                                      !.terminal = FALSE]]
      BY <2>2 DEF Release
    <3>2. \A x \in Objects : aws'[x] # "none" => aws[x] # "none"
      BY <3>1 DEF SafetyInv, TypeOK
    <3>3. object[o] \in CRs(o) /\ \A x \in Objects \ {o} : object'[x] = object[x]
      BY <3>1 DEF SafetyInv, TypeOK
    <3>4. object'[o] = [object[o] EXCEPT !.exists = FALSE, !.synced = FALSE, !.terminal = FALSE]
      BY <3>1 DEF SafetyInv, TypeOK
    <3>5. object'[o].spec = object[o].spec /\ ~object'[o].synced
      BY <3>3, <3>4 DEF CRs
    <3> QED
      BY <3>1, <3>2, <3>3, <3>5
  <2> QED
    BY <2>1, <2>2
<1>2. MadeInv'
  BY <1>1 DEF SafetyInv, MadeInv
<1> QED
  BY <1>1, <1>2 DEF SafetyInv, PassInv, Faithful, StoredIDsAreTheUsers

LEMMA ResolveFailsSafe ==
  ASSUME SafetyInv, TypeOK', NEW o \in Objects, ResolveFails(o) PROVE SafetyInv'
<1>1. object[o].spec \in SpecsOf(o)
  BY DEF SafetyInv, TypeOK, CRs
<1>2. \A i \in DOMAIN Fields(o) : object[o].spec[i].ids \subseteq {"own"}
  BY <1>1 DEF SafetyInv, StoredIDsAreTheUsers, SpecsOf
<1>3. Ends(o, object[o].spec, FALSE) /\ UNCHANGED <<aws, ever>>
  BY DEF ResolveFails
<1> QED
  BY <1>1, <1>2, <1>3, EndsSafe

LEMMA SafetyKept ==
  ASSUME SafetyInv, [Next]_vars PROVE SafetyInv'
<1>0. TypeOK'
  BY TypeKept DEF SafetyInv
<1>1. CASE Next
  <2>1. PICK o \in Objects :
          \/ UserEdit(o) \/ UserDelete(o) \/ AwsSettles(o) \/ Reconcile(o) \/ Crash(o)
    BY <1>1 DEF Next
  <2> QED
    BY <1>0, <2>1, UsersSafe, FetchSafe, ResolveSafe, ResolveFailsSafe, CallsSafe, PatchSafe,
       DropsSafe, OutsideSafe DEF Reconcile
<1>2. CASE UNCHANGED vars
  BY <1>0, <1>2 DEF vars, SafetyInv, MadeInv, PassInv, Faithful, StoredIDsAreTheUsers
<1> QED
  BY <1>1, <1>2

LEMMA InitSafe ==
  ASSUME Init PROVE SafetyInv
<1>1. /\ \A o \in Objects : object[o].spec \in Plain(o) /\ \E s : object[o] = New(s)
      /\ pass = [o \in Objects |-> NoPass] /\ aws = [o \in Objects |-> "none"]
  BY DEF Init
<1>2. \A o \in Objects : aws[o] = "none" /\ pass[o].at = "idle"
  BY <1>1 DEF NoPass
<1>3. ASSUME NEW o \in Objects PROVE object[o].synced = FALSE
  <2>1. PICK s : object[o] = New(s)
    BY <1>1
  <2> QED
    BY <2>1 DEF New
<1>4. MadeInv /\ PassInv
  BY <1>2, <1>3 DEF MadeInv, PassInv
<1>5. ASSUME NEW o, NEW s \in Plain(o), NEW i \in DOMAIN s
      PROVE  s[i].ids \subseteq {"own"}
  BY DEF Plain
<1>6. StoredIDsAreTheUsers
  BY <1>1, <1>5 DEF StoredIDsAreTheUsers
<1> QED
  BY <1>4, <1>6, InitType DEF SafetyInv

(* What was resolved is never stored, whoever edits while a pass runs. *)
THEOREM ResolvedIsNotStored == Spec => []StoredIDsAreTheUsers
<1>1. Init => SafetyInv
  BY InitSafe
<1>2. SafetyInv /\ [Next]_vars => SafetyInv'
  BY SafetyKept
<1>3. SafetyInv => StoredIDsAreTheUsers
  BY DEF SafetyInv
<1> QED
  BY <1>1, <1>2, <1>3, PTL DEF Spec

-----------------------------------------------------------------------------
(* With nothing left to resolve, all it refers to has been resolved. *)
LEMMA AllMade ==
  ASSUME SafetyInv, NEW o \in Objects, pass[o].at # "idle", Unresolved(o) = {},
         NEW i \in DOMAIN pass[o].from, NEW t \in pass[o].from[i].refs
  PROVE  t \in ever
<1>1. pass[o] \in Passes(o) /\ Faithful(pass[o])
  BY PassUnderWay DEF SafetyInv, PassInv
<1>2. i \in DOMAIN pass[o].ko /\ t \in pass[o].ko[i].refs
  <2>1. i \in DOMAIN pass[o].ko
    BY <1>1 DEF Passes, SpecsOf
  <2> QED
    BY <1>1, <2>1 DEF Faithful
<1>3. <<i, t>> \in pass[o].done
  BY <1>2 DEF Unresolved
<1> QED
  BY <1>3 DEF SafetyInv, MadeInv

(* Whatever the graph of references is, nothing is made before all that it *)
(* refers to.                                                              *)
THEOREM TargetsFirst == Spec => TargetsMadeFirst
<1> DEFINE Made == \A o \in Objects : o \in ever' \ ever =>
                     \A i \in DOMAIN pass[o].from : pass[o].from[i].refs \subseteq ever
<1>1. Init => SafetyInv
  BY InitSafe
<1>2. SafetyInv /\ [Next]_vars => SafetyInv'
  BY SafetyKept
<1>3. SafetyInv /\ [Next]_vars => [Made]_vars
  <2> SUFFICES ASSUME SafetyInv, Next PROVE Made
    BY DEF vars
  <2> SUFFICES ASSUME NEW o \in Objects, o \in ever' \ ever,
                      NEW i \in DOMAIN pass[o].from, NEW t \in pass[o].from[i].refs
               PROVE  t \in ever
    OBVIOUS
  <2>1. Create(o)
    BY DEF Next, Reconcile, UserEdit, UserDelete, AwsSettles, Fetch, Resolve, ResolveFails,
           Create, CreateRefused, ReadOne, Patch, Release, Crash
  <2>2. pass[o].at # "idle" /\ Unresolved(o) = {}
    BY <2>1 DEF Create, Resolved
  <2> QED
    BY <2>2, AllMade
<1> QED
  BY <1>1, <1>2, <1>3, PTL DEF Spec, TargetsMadeFirst
=============================================================================
