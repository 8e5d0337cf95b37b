-------------------------------- MODULE User --------------------------------
(***************************************************************************)
(* The User controller (pkg/resource/user).  The service expands the access*)
(* string it is given, and what it answers goes into the spec: the manager *)
(* keeps the string it last sent in Status.LastRequestedAccessString and   *)
(* compares the spec with that one as well.  The authentication types that *)
(* are asked for are not quite those that are answered.                    *)
(*                                                                         *)
(* An access string is the text the user means, expanded or not.           *)
(***************************************************************************)
EXTENDS Manager

CONSTANT Texts

AccessStrings == [text : Texts, expanded : BOOLEAN]

Types == {"password", "no-password-required", "no-password"}

Specs == [access : AccessStrings, type : Types]

(* What the user may begin with. *)
Entered == {s \in Specs : ~s.access.expanded /\ s.type # "no-password"}

UserStates == {"creating", "active", "modifying", "deleting"}

Statuses == [state : UserStates \cup {"none"}, last : AccessStrings \cup {None}]

Init ==
  \E s \in Entered :
    /\ StartsWith(s, [state |-> "none", last |-> None])
    /\ aws = [status |-> "none", access |-> s.access, type |-> s.type]

-----------------------------------------------------------------------------
(* The service. *)

AwsSettles == aws.status \in {"creating", "modifying"} /\ ServiceStep("active")

AwsProgress == AwsSettles \/ AwsDeleted

expanded(access) == [access EXCEPT !.expanded = TRUE]

(* AuthenticationType of a response, for the InputAuthenticationType asked for. *)
answeredType(type) == IF type = "no-password-required" THEN "no-password" ELSE type

(* "no-password" is none of the types that may be asked for. *)
ValidType(spec) == spec.type # "no-password"

-----------------------------------------------------------------------------
setSyncedCondition(state) == IF state = "active" THEN "True" ELSE "False"

sdkFind(r) ==
  [spec   |-> [access |-> aws.access, type |-> aws.type],
   ann    |-> r.ann,
   status |-> [r.status EXCEPT !.state = aws.status],
   cond   |-> onSuccess([r.cond EXCEPT !.synced = setSyncedCondition(aws.status)])]

(* Mutant: the difference is dropped unless the string was requested last. *)
newResourceDeltaOfLast(d, l) ==
  {f \in {"access", "type"} : d.spec[f] # l.spec[f]}
  \ (IF d.spec.access # d.status.last THEN {"access"} ELSE {})

(* filterDelta: an access string that was requested last is no difference. *)
newResourceDelta(d, l) ==
  {f \in {"access", "type"} : d.spec[f] # l.spec[f]}
  \ (IF d.spec.access = d.status.last THEN {"access"} ELSE {})

ReadOne == LET r == sdkFind(desired) IN Observes(r, newResourceDelta(desired, r) # {})

(* The result of a call, CustomSetOutput included. *)
callOutput(d, user) ==
  [spec   |-> [access |-> user.access, type |-> user.type],
   ann    |-> d.ann,
   status |-> [state |-> user.status, last |-> d.spec.access],
   cond   |-> onSuccess([d.cond EXCEPT !.synced = setSyncedCondition(user.status)])]

Create ==
  /\ pc = "create" /\ aws.status = "none"
  /\ ValidType(desired.spec)
  /\ \E state \in {"creating", "active"} :
       aws' = [status |-> state, access |-> expanded(desired.spec.access),
               type |-> answeredType(desired.spec.type)]
  /\ Answers(callOutput(desired, aws'), AsLatest(desired), "readBack")
  /\ UNCHANGED <<crVars, edits>>

CreateFails ==
  pc = "create" /\ Refused(ValidType(desired.spec), "awsTerminal", AsLatest(desired))

ReadBack == ReadsBack(sdkFind(latest))

(* CustomModifyUser. *)
ModifyWaits ==
  /\ pc = "update" /\ latest.status.state # "active"
  /\ GivesUp(latest, "requeue")

(* The access string is sent only if it differs, the type always. *)
ModifyUser ==
  /\ pc = "update" /\ latest.status.state = "active"
  /\ ValidType(desired.spec)
  /\ aws' = [status |-> "modifying",
             access |-> IF "access" \in newResourceDelta(desired, latest)
                        THEN expanded(desired.spec.access) ELSE aws.access,
             type   |-> answeredType(desired.spec.type)]
  /\ Answers(callOutput(desired, aws'), latest, "patchSpec")
  /\ UNCHANGED <<crVars, edits>>

ModifyUserFails ==
  /\ pc = "update" /\ latest.status.state = "active"
  /\ Refused(ValidType(desired.spec), "awsTerminal", latest)

ReadDelete == ObservesDoomed(sdkFind(desired))

Delete == Deletes(aws.status = "active", "deleting")

(* InvalidUserState is one of the terminal codes. *)
DeleteFails == DeleteRefused(aws.status = "active", "awsTerminal")

-----------------------------------------------------------------------------
Controller ==
  \/ KindlessStep \/ PatchStatus
  \/ ReadOne \/ ReadOneFails \/ Create \/ CreateFails \/ ReadBack
  \/ ModifyWaits \/ ModifyUser \/ ModifyUserFails
  \/ ReadDelete \/ ReadDeleteFails \/ Delete \/ DeleteFails

(* The user writes what may be entered, over what the manager left there. *)
Edited == {s \in Specs : /\ s.access = cr.spec.access \/ ~s.access.expanded
                         /\ s.type = cr.spec.type \/ s.type # "no-password"}

Next == UserEdit(Edited) \/ UserDelete \/ AwsProgress \/ Controller \/ Crash

-----------------------------------------------------------------------------
CRs == [exists : BOOLEAN, del : BOOLEAN, fin : BOOLEAN, spec : Specs, ann : {NoAnnotations},
        status : Statuses, cond : Conds]

TypeOK ==
  /\ cr \in CRs /\ desired \in CRs
  /\ latest \in [spec : Specs, ann : {NoAnnotations}, status : Statuses, cond : Conds]
  /\ aws \in [status : UserStates \cup {"none"}, access : AccessStrings, type : Types]

AsSpecified(spec) ==
  /\ aws.status = "active"
  /\ aws.access = expanded(spec.access)
  /\ aws.type = answeredType(spec.type)

SyncedTellsTheTruth ==
  /\ pc = "patchStatus" /\ err = "none" /\ ~desired.del
  /\ ensureConditions(latest.cond, err).synced = "True"
  => AsSpecified(desired.spec)

(***************************************************************************)
(* The string last requested is in force wherever filterDelta relies on it:*)
(* "the returned AccessString can be different than the specified one; as  *)
(* long as the last requested AccessString matches the currently desired   *)
(* one, remove this difference".  A modification whose result was not      *)
(* patched refutes it.                                                     *)
(***************************************************************************)
RequestedIsInForce ==
  pc = "read" /\ aws.status = "active" /\ desired.spec.access = desired.status.last
  => aws.access = expanded(desired.spec.access)
=============================================================================
