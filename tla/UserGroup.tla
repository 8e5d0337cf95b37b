------------------------------ MODULE UserGroup ------------------------------
(***************************************************************************)
(* The UserGroup controller (pkg/resource/user_group).  The service applies*)
(* a change of the users later and reports it as pending until then: what  *)
(* the manager reads, and what a modification answers, is completed with   *)
(* the pending changes before it is compared with, or patched into, the    *)
(* spec.                                                                   *)
(***************************************************************************)
EXTENDS Manager

CONSTANTS
  UserIDs,
  DefaultUser       \* the user a group must have

Specs == [users : SUBSET UserIDs]

Entered == {s \in Specs : DefaultUser \in s.users}

GroupStates == {"creating", "active", "modifying", "deleting"}

(* The users of a group, and the changes of them that are pending. *)
Groups == [status : GroupStates \cup {"none"}, users : SUBSET UserIDs,
           adding : SUBSET UserIDs, removing : SUBSET UserIDs]

Group(status, users) == [status |-> status, users |-> users, adding |-> {}, removing |-> {}]

Init == \E s \in Entered : StartsWith(s, "none") /\ aws = Group("none", s.users)

-----------------------------------------------------------------------------
(* The service. *)

patched(group) == (group.users \cup group.adding) \ group.removing

AwsSettles ==
  /\ aws.status \in {"creating", "modifying"}
  /\ aws' = Group("active", patched(aws))
  /\ UNCHANGED <<crVars, ctlVars, edits, faults>>

(* A group is also modified when a replication group begins to use it. *)
AwsAttaches ==
  /\ aws.status = "active"
  /\ Fault("busy")
  /\ aws' = [aws EXCEPT !.status = "modifying"]
  /\ UNCHANGED <<crVars, ctlVars, edits>>

AwsProgress == AwsSettles \/ AwsDeleted

-----------------------------------------------------------------------------
(* Mutant: what is pending is left out. *)
patchUserGroupPendingChangesNot(group) == group.users

(* Spec.UserIDs of a response. *)
patchUserGroupPendingChanges(group) == patched(group)

sdkFind(r) ==
  [spec   |-> [users |-> patchUserGroupPendingChanges(aws)],
   ann    |-> r.ann,
   status |-> aws.status,
   cond   |-> onSuccess(r.cond)]

newResourceDelta(d, l) == d.spec.users # l.spec.users

ReadOne == LET r == sdkFind(desired) IN Observes(r, newResourceDelta(desired, r))

(* sdkCreate takes the users of the response as they are. *)
createOutput(d, group) ==
  [spec |-> [users |-> group.users], ann |-> d.ann, status |-> group.status,
   cond |-> onSuccess(d.cond)]

(* DefaultUserRequired is one of the terminal codes. *)
Create ==
  /\ pc = "create" /\ aws.status = "none"
  /\ DefaultUser \in desired.spec.users
  /\ aws' = Group("creating", desired.spec.users)
  /\ Answers(createOutput(desired, aws'), AsLatest(desired), "readBack")
  /\ UNCHANGED <<crVars, edits>>

CreateFails ==
  pc = "create"
  /\ Refused(DefaultUser \in desired.spec.users, "awsTerminal", AsLatest(desired))

ReadBack == ReadsBack(sdkFind(latest))

isActive(r) == r.status = "active"

requeueWaitUntilCanModify ==
  /\ pc = "update" /\ ~isActive(latest)
  /\ GivesUp(latest, "requeue")

(* getUserIdsDifferences(desired, latest). *)
userIdsToAdd == desired.spec.users \ latest.spec.users
userIdsToRemove == latest.spec.users \ desired.spec.users

modifyOutput(d, group) ==
  [spec |-> [users |-> patchUserGroupPendingChanges(group)], ann |-> d.ann,
   status |-> group.status, cond |-> onSuccess(d.cond)]

(* External: users are added that the group has not, removed that it has. *)
ModifyValid ==
  /\ userIdsToAdd \cap aws.users = {}
  /\ userIdsToRemove \subseteq aws.users
  /\ DefaultUser \notin userIdsToRemove

ModifyUserGroup ==
  /\ pc = "update" /\ isActive(latest)
  /\ aws.status = "active" /\ ModifyValid
  /\ aws' = [aws EXCEPT !.status = "modifying", !.adding = userIdsToAdd,
                        !.removing = userIdsToRemove]
  /\ Answers(modifyOutput(desired, aws'), latest, "patchSpec")
  /\ UNCHANGED <<crVars, edits>>

ModifyUserGroupFails ==
  /\ pc = "update" /\ isActive(latest)
  /\ \/ Refused(aws.status = "active", "awsOther", latest)
     \/ Refused(aws.status # "active" \/ ModifyValid, "awsTerminal", latest)

ReadDelete == ObservesDoomed(sdkFind(desired))

Delete == Deletes(aws.status = "active", "deleting")

(* InvalidUserGroupState is not one of the terminal codes. *)
DeleteFails == DeleteRefused(aws.status = "active", "awsOther")

(* IsSynced, of what is about to be patched. *)
IsSynced == latest.status \in {"active"}

-----------------------------------------------------------------------------
Controller ==
  \/ KindlessStep \/ PatchStatusBy(IsSynced)
  \/ ReadOne \/ ReadOneFails \/ Create \/ CreateFails \/ ReadBack
  \/ requeueWaitUntilCanModify \/ ModifyUserGroup \/ ModifyUserGroupFails
  \/ ReadDelete \/ ReadDeleteFails \/ Delete \/ DeleteFails

Next ==
  \/ UserEdit(Specs) \/ UserDelete \/ AwsProgress \/ AwsAttaches \/ Controller \/ Crash

-----------------------------------------------------------------------------
CRs == [exists : BOOLEAN, del : BOOLEAN, fin : BOOLEAN, spec : Specs,
        ann : {NoAnnotations}, status : GroupStates \cup {"none"}, cond : Conds]

TypeOK ==
  /\ cr \in CRs /\ desired \in CRs
  /\ latest \in [spec : Specs, ann : {NoAnnotations}, status : GroupStates \cup {"none"},
                 cond : Conds]
  /\ aws \in Groups

AsSpecified(spec) == aws.status = "active" /\ aws.users = spec.users

SyncedTellsTheTruth ==
  /\ pc = "patchStatus" /\ err = "none" /\ ~desired.del
  /\ ensureConditionsBy(latest.cond, err, IsSynced).synced = "True"
  => patched(aws) = desired.spec.users
=============================================================================
