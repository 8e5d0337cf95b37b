------------------------------ MODULE Snapshot ------------------------------
(***************************************************************************)
(* The Snapshot controller (pkg/resource/snapshot).  A snapshot is taken of*)
(* a cluster or copied from another snapshot; there is no modification, an *)
(* edit of the spec is taken back.  A snapshot that failed stays, and its  *)
(* resource is Terminal for as long.                                       *)
(*                                                                         *)
(* "cluster" is Spec.CacheClusterID; Spec.ReplicationGroupID is handled    *)
(* like it.  "source" is Spec.SourceSnapshotName.                          *)
(***************************************************************************)
EXTENDS Manager

CONSTANTS Clusters, Snapshots

Specs == [cluster : Clusters \cup {None}, source : Snapshots \cup {None}]

SnapshotStates == {"creating", "available", "failed", "deleting"}

Init ==
  \E s \in Specs :
    /\ StartsWith(s, "none")
    /\ aws = [status |-> "none", cluster |-> s.cluster]

-----------------------------------------------------------------------------
(* The service. *)

AwsSettles == aws.status = "creating" /\ ServiceStep("available")

AwsCreateFails ==
  /\ aws.status = "creating"
  /\ Fault("createFailed")
  /\ aws' = [aws EXCEPT !.status = "failed"]
  /\ UNCHANGED <<crVars, ctlVars, edits>>

AwsProgress == AwsSettles \/ AwsDeleted

-----------------------------------------------------------------------------
(* Mutant: only an error brings the condition about. *)
CustomUpdateConditionsOnError(c, status, e) ==
  IF status = "failed" /\ e # "none" THEN [c EXCEPT !.terminal = "True"] ELSE c

(* CustomUpdateConditions: a failed snapshot is Terminal, with or without error. *)
CustomUpdateConditions(c, status, e) ==
  IF status = "failed" THEN [c EXCEPT !.terminal = "True"] ELSE c

(* updateConditions calls it at its end. *)
conditions(r, e) == CustomUpdateConditions(updateConditions(r.cond, e), r.status, e)

onErrorErr(r, e) == IF conditions(r, e).terminal = "True" THEN "ackTerminal" ELSE e

(* The end of customSetOutput: what the status says of Synced. *)
customSetSynced(status) == IF status \in {"available", "failed"} THEN "True" ELSE "False"

(* The result of a read or of a call. *)
customSetOutput(r) ==
  LET found == [spec   |-> [r.spec EXCEPT !.cluster = aws.cluster],
                ann    |-> r.ann,
                status |-> aws.status,
                cond   |-> [r.cond EXCEPT !.synced = customSetSynced(aws.status)]]
  IN  [found EXCEPT !.cond = conditions(found, "none")]

newResourceDelta(d, l) == d.spec # l.spec

ReadOne ==
  LET r == customSetOutput(desired) IN Observes(r, newResourceDelta(desired, r))

FindFails ==
  /\ pc = "read"
  /\ Fault("read")
  /\ latest' = [AsLatest(desired) EXCEPT !.cond = conditions(desired, "awsOther")]
  /\ err' = onErrorErr(desired, "awsOther")
  /\ pc' = "patchStatus"
  /\ UNCHANGED <<crVars, aws, desired, edits>>

-----------------------------------------------------------------------------
(* CustomCreateSnapshot: a source excludes a cluster.  The error is of the *)
(* version 1 SDK.                                                          *)
Conflict(spec) == spec.source # None /\ spec.cluster # None

RefuseSources ==
  /\ pc = "create" /\ Conflict(desired.spec)
  /\ GivesUp(AsLatest(desired), "v1Combination")

Created(cluster) ==
  /\ aws' = [status |-> "creating", cluster |-> cluster]
  /\ LET r == [spec   |-> [desired.spec EXCEPT !.cluster = cluster],
               ann    |-> desired.ann,
               status |-> "creating",
               cond   |-> onSuccess([desired.cond EXCEPT
                                       !.synced = customSetSynced("creating")])]
     IN  Answers(r, AsLatest(desired), "readBack")
  /\ UNCHANGED <<crVars, edits>>

(* The answer to a copy names the cluster the source was taken of. *)
CopySnapshot ==
  /\ pc = "create" /\ aws.status = "none"
  /\ ~Conflict(desired.spec) /\ desired.spec.source # None
  /\ \E cluster \in Clusters : Created(cluster)

CreateSnapshot ==
  /\ pc = "create" /\ aws.status = "none"
  /\ desired.spec.source = None /\ desired.spec.cluster # None
  /\ Created(desired.spec.cluster)

(* External: a snapshot is of something; InvalidParameterCombination is a *)
(* terminal code.                                                         *)
CreateFails ==
  /\ pc = "create" /\ ~Conflict(desired.spec)
  /\ Refused(desired.spec.source # None \/ desired.spec.cluster # None, "awsTerminal",
             AsLatest(desired))

ReadBack == ReadsBack(customSetOutput(latest))

(* customUpdateSnapshot returns what was read, which is patched into the spec. *)
customUpdateSnapshot ==
  /\ pc = "update"
  /\ latest' = [latest EXCEPT !.cond = conditions(latest, "none")]
  /\ pc' = "patchSpec"
  /\ UNCHANGED <<crVars, aws, desired, err, edits, faults>>

-----------------------------------------------------------------------------
ReadDelete == ObservesDoomed(customSetOutput(desired))

(* The object as it was goes with the error. *)
FindDoomedFails ==
  /\ pc = "readDelete"
  /\ Fault("read")
  /\ latest' = AsLatest(desired)
  /\ err' = onErrorErr(desired, "awsOther")
  /\ pc' = "patchStatus"
  /\ UNCHANGED <<crVars, aws, desired, edits>>

Deletable == aws.status \in {"available", "failed"}

(* Any error of the deletion of a failed snapshot is reported as terminal. *)
DeleteReturnsLatest(e) ==
  /\ latest' = [latest EXCEPT !.cond = conditions(latest, e)]
  /\ err' = onErrorErr(latest, e)
  /\ pc' = "patchSpec"
  /\ UNCHANGED desired

Delete ==
  /\ pc = "delete" /\ Deletable
  /\ aws' = [aws EXCEPT !.status = "deleting"]
  /\ \/ /\ DeleteDone
        /\ UNCHANGED faults
     \/ /\ Fault("lost")
        /\ DeleteReturnsLatest("awsOther")
  /\ UNCHANGED <<crVars, edits>>

DeleteFails ==
  /\ pc = "delete"
  /\ \/ /\ ~Deletable
        /\ DeleteReturnsLatest("awsOther")
        /\ UNCHANGED faults
     \/ /\ Fault("reject")
        /\ \E e \in {"awsOther", "awsTerminal"} : DeleteReturnsLatest(e)
  /\ UNCHANGED <<crVars, aws, edits>>

-----------------------------------------------------------------------------
Controller ==
  \/ KindlessStep \/ PatchStatus
  \/ ReadOne \/ FindFails
  \/ RefuseSources \/ CopySnapshot \/ CreateSnapshot \/ CreateFails \/ ReadBack
  \/ customUpdateSnapshot
  \/ ReadDelete \/ FindDoomedFails \/ Delete \/ DeleteFails

Next ==
  \/ UserEdit(Specs) \/ UserDelete \/ AwsProgress \/ AwsCreateFails \/ Controller
  \/ Crash

-----------------------------------------------------------------------------
CRs == [exists : BOOLEAN, del : BOOLEAN, fin : BOOLEAN, spec : Specs,
        ann : {NoAnnotations}, status : SnapshotStates \cup {"none"}, cond : Conds]

TypeOK ==
  /\ cr \in CRs /\ desired \in CRs
  /\ latest \in [spec : Specs, ann : {NoAnnotations},
                 status : SnapshotStates \cup {"none"}, cond : Conds]
  /\ aws \in [status : SnapshotStates \cup {"none"}, cluster : Clusters \cup {None}]

(***************************************************************************)
(* A failed snapshot is Terminal between any two passes, whatever the      *)
(* passes were: no read or success clears the condition as it does for     *)
(* other kinds (CustomUpdateConditions).                                   *)
(***************************************************************************)
FailedIsTerminal == pc = "idle" /\ cr.status = "failed" => cr.cond.terminal = "True"

(* An edit is taken back; conflicting sources are refused again and again. *)
AsSpecified(spec) ==
  \/ aws.status = "available" /\ aws.cluster = spec.cluster
  \/ aws.status = "none" /\ Conflict(spec)

(* Synced is reported of a snapshot that has come to its end. *)
SyncedTellsTheTruth ==
  /\ pc = "patchStatus" /\ err = "none" /\ ~desired.del
  /\ ensureConditions(latest.cond, err).synced = "True"
  => aws.status # "creating"
=============================================================================
