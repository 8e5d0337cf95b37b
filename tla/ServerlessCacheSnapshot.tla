---------------------- MODULE ServerlessCacheSnapshot ----------------------
(***************************************************************************)
(* The ServerlessCacheSnapshot controller                                  *)
(* (pkg/resource/serverless_cache_snapshot): only the tags of a snapshot   *)
(* are ever modified, and they are read once the snapshot is available.    *)
(***************************************************************************)
EXTENDS Manager

CONSTANTS Keys, TagKeys, TagValues

T == INSTANCE Tags

Specs == [kms : Keys \cup {None}, tags : T!TagMaps]

SnapshotStates == {"creating", "available", "create_failed", "deleting"}

Init ==
  \E s \in Specs :
    /\ StartsWith(s, "none")
    /\ aws = [status |-> "none", kms |-> s.kms, tags |-> s.tags]

-----------------------------------------------------------------------------
(* The service. *)

AwsSettles == aws.status = "creating" /\ ServiceStep("available")

AwsCreateFails ==
  /\ aws.status = "creating"
  /\ Fault("createFailed")
  /\ aws' = [aws EXCEPT !.status = "create_failed"]
  /\ UNCHANGED <<crVars, ctlVars, edits>>

AwsProgress == AwsSettles \/ AwsDeleted

-----------------------------------------------------------------------------
(* The tags are read of a snapshot that is available; a failure of that *)
(* fails the read.                                                      *)
sdkFind(r) ==
  [spec   |-> [kms  |-> aws.kms,
               tags |-> IF aws.status = "available" THEN aws.tags ELSE r.spec.tags],
   ann    |-> r.ann,
   status |-> aws.status,
   cond   |-> onSuccess(r.cond)]

newResourceDelta(d, l) == d.spec # l.spec

ReadOne == LET r == sdkFind(desired) IN Observes(r, newResourceDelta(desired, r))

(* With tags the new resource needs another pass. *)
createOutput(d) ==
  [spec   |-> [d.spec EXCEPT !.kms = aws'.kms],
   ann    |-> d.ann,
   status |-> aws'.status,
   cond   |-> onSuccess(IF DOMAIN d.spec.tags # {}
                        THEN [d.cond EXCEPT !.synced = "False"] ELSE d.cond)]

(* External: the service chooses a key where none is asked for. *)
Create ==
  /\ pc = "create" /\ aws.status = "none"
  /\ \E key \in IF desired.spec.kms = None THEN Keys ELSE {desired.spec.kms} :
       aws' = [status |-> "creating", kms |-> key, tags |-> desired.spec.tags]
  /\ Answers(createOutput(desired), AsLatest(desired), "readBack")
  /\ UNCHANGED <<crVars, edits>>

CreateFails == pc = "create" /\ Refused(TRUE, "awsOther", AsLatest(desired))

ReadBack == ReadsBack(sdkFind(latest))

isServerlessCacheSnapshotAvailable(r) == r.status = "available"

(* customUpdateServerlessCacheSnapshot: the desired resource goes back. *)
WaitUntilCanModify ==
  /\ pc = "update" /\ ~isServerlessCacheSnapshotAvailable(latest)
  /\ GivesUp(AsLatest(desired), "requeue")

TagsDiffer == desired.spec.tags # latest.spec.tags

(* One call for tags, and an error either way. *)
syncTags ==
  /\ pc = "update" /\ isServerlessCacheSnapshotAvailable(latest) /\ TagsDiffer
  /\ aws.status = "available"
  /\ aws' = [aws EXCEPT !.tags = T!SyncTags(desired.spec.tags, latest.spec.tags, @)]
  /\ \/ FailWith(AsLatest(desired), "requeue") /\ UNCHANGED faults
     \/ FailWith(AsLatest(desired), "awsOther") /\ Fault("lost")
  /\ UNCHANGED <<crVars, edits>>

syncTagsFails ==
  /\ pc = "update" /\ isServerlessCacheSnapshotAvailable(latest) /\ TagsDiffer
  /\ Refused(aws.status = "available", "awsOther", AsLatest(desired))

(* The key differs: what was read is patched into the spec. *)
TakeBack ==
  /\ pc = "update" /\ isServerlessCacheSnapshotAvailable(latest) /\ ~TagsDiffer
  /\ latest' = [latest EXCEPT !.cond = onSuccess(@)]
  /\ pc' = "patchSpec"
  /\ UNCHANGED <<crVars, aws, desired, err, edits, faults>>

ReadDelete == ObservesDoomed(sdkFind(desired))

Deletable == aws.status \in {"available", "create_failed"}

Delete == Deletes(Deletable, "deleting")

DeleteFails == DeleteRefused(Deletable, "awsOther")

IsSynced == latest.status \in {"available", "create_failed"}

-----------------------------------------------------------------------------
Controller ==
  \/ KindlessStep \/ PatchStatusBy(IsSynced)
  \/ ReadOne \/ ReadOneFails \/ Create \/ CreateFails \/ ReadBack
  \/ WaitUntilCanModify \/ syncTags \/ syncTagsFails \/ TakeBack
  \/ ReadDelete \/ ReadDeleteFails \/ Delete \/ DeleteFails

Next ==
  \/ UserEdit(Specs) \/ UserDelete \/ AwsProgress \/ AwsCreateFails \/ Controller
  \/ Crash

-----------------------------------------------------------------------------
CRs == [exists : BOOLEAN, del : BOOLEAN, fin : BOOLEAN, spec : Specs,
        ann : {NoAnnotations}, status : SnapshotStates \cup {"none"}, cond : Conds]

TypeOK ==
  /\ cr \in CRs /\ desired \in CRs
  /\ latest \in [spec : Specs, ann : {NoAnnotations},
                 status : SnapshotStates \cup {"none"}, cond : Conds]
  /\ aws \in [status : SnapshotStates \cup {"none"}, kms : Keys \cup {None},
              tags : T!TagMaps]

(* The tags of a snapshot that failed are never looked at. *)
AsSpecified(spec) ==
  \/ aws.status = "available" /\ aws.kms = spec.kms /\ aws.tags = spec.tags
  \/ aws.status = "create_failed"

(* Synced is reported only of tags that were read, or of a failed snapshot. *)
SyncedTellsTheTruth ==
  /\ pc = "patchStatus" /\ err = "none" /\ ~desired.del
  /\ ensureConditionsBy(latest.cond, err, IsSynced).synced = "True"
  => aws.status = "create_failed" \/ aws.tags = desired.spec.tags
=============================================================================
