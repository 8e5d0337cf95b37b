-------------------------- MODULE ServerlessCache --------------------------
(***************************************************************************)
(* The ServerlessCache controller (pkg/resource/serverless_cache).  A pass *)
(* modifies one field, the first that differs in a fixed order, and ends   *)
(* with an error that brings it back.  The errors of modifications are     *)
(* wrapped, so that none is terminal; some differences no modification     *)
(* removes, and every pass ends with the same error then.                  *)
(*                                                                         *)
(* Of the fields, "desc" is what a nil value leaves as it is, "limit" what *)
(* is narrowed to 32 bits, "subnets" what is compared but never modified;  *)
(* the others are handled like one of these.                               *)
(***************************************************************************)
EXTENDS Manager

CONSTANTS
  Descs, SubnetSets, TagKeys, TagValues,
  Limits,       \* values of 64 bits
  Width         \* how many values 32 bits can hold

T == INSTANCE Tags

Specs == [desc : Descs \cup {None}, tags : T!TagMaps, limit : Limits,
          subnets : SubnetSets \cup {None}]

CacheStates == {"creating", "available", "modifying", "create_failed", "deleting"}

Init ==
  \E s \in Specs :
    /\ StartsWith(s, "none")
    /\ aws = [status |-> "none", desc |-> s.desc, tags |-> s.tags, limit |-> 0,
              subnets |-> s.subnets]

-----------------------------------------------------------------------------
(* The service. *)

AwsSettles == aws.status \in {"creating", "modifying"} /\ ServiceStep("available")

AwsCreateFails ==
  /\ aws.status = "creating"
  /\ Fault("createFailed")
  /\ aws' = [aws EXCEPT !.status = "create_failed"]
  /\ UNCHANGED <<crVars, ctlVars, edits>>

AwsProgress == AwsSettles \/ AwsDeleted

Narrow == -(Width \div 2)..(Width \div 2 - 1)

(* int32(n): the low bits of n, in two's complement. *)
int32(n) == ((n + Width \div 2) % Width) - Width \div 2

-----------------------------------------------------------------------------
(* The result of a read in which the tags were read as "tags". *)
found(r, tags) ==
  [spec   |-> [desc |-> aws.desc, tags |-> tags, limit |-> aws.limit,
               subnets |-> aws.subnets],
   ann    |-> r.ann,
   status |-> aws.status,
   cond   |-> onSuccess(r.cond)]

(* The tags are read next.  An error of that is ignored: the tags stay those *)
(* of the resource that was asked for.                                       *)
sdkFind(r) == found(r, aws.tags)
sdkFindTagsUnread(r) == found(r, r.spec.tags)

newResourceDelta(d, l) == {f \in {"desc", "tags", "limit", "subnets"} : d.spec[f] # l.spec[f]}

ReadOne == LET r == sdkFind(desired) IN Observes(r, newResourceDelta(desired, r) # {})

ReadOneTagsUnread ==
  /\ pc = "read" /\ aws.status # "none"
  /\ Fault("read")
  /\ latest' = sdkFindTagsUnread(desired)
  /\ pc' = IF newResourceDelta(desired, latest') # {} THEN "update" ELSE "lateInit"
  /\ UNCHANGED <<crVars, aws, desired, err, edits>>

(* Mutant: no limit is refused. *)
FitsUnchecked(spec) == TRUE

(* newCreateRequestPayload refuses what 32 bits do not hold. *)
Fits(spec) == int32(spec.limit) = spec.limit

RefuseLimit ==
  /\ pc = "create" /\ ~Fits(desired.spec)
  /\ GivesUp(AsLatest(desired), "awsOther")

(* Mutant: the subnets stay those that were asked for. *)
createOutputAsAsked(d) ==
  [spec   |-> [desc |-> aws'.desc, tags |-> d.spec.tags, limit |-> aws'.limit,
               subnets |-> d.spec.subnets],
   ann    |-> d.ann,
   status |-> aws'.status,
   cond   |-> onSuccess(d.cond)]

createOutput(d) ==
  [spec   |-> [desc |-> aws'.desc, tags |-> d.spec.tags, limit |-> aws'.limit,
               subnets |-> aws'.subnets],
   ann    |-> d.ann,
   status |-> aws'.status,
   cond   |-> onSuccess(d.cond)]

(* External: the service chooses the subnets where none are asked for. *)
Create ==
  /\ pc = "create" /\ aws.status = "none" /\ Fits(desired.spec)
  /\ \E sns \in IF desired.spec.subnets = None THEN SubnetSets ELSE {desired.spec.subnets} :
       aws' = [status |-> "creating", desc |-> desired.spec.desc, tags |-> desired.spec.tags,
               limit |-> desired.spec.limit, subnets |-> sns]
  /\ Answers(createOutput(desired), AsLatest(desired), "readBack")
  /\ UNCHANGED <<crVars, edits>>

CreateFails ==
  pc = "create" /\ Fits(desired.spec) /\ Refused(TRUE, "awsOther", AsLatest(desired))

ReadBack == ReadsBack(sdkFind(latest))

-----------------------------------------------------------------------------
(* customUpdateServerlessCache *)

Settled(r) == r.status \notin {"deleting", "creating", "modifying"}

WaitWhileUnsettled ==
  /\ pc = "update" /\ ~Settled(latest)
  /\ GivesUp([AsLatest(desired) EXCEPT !.cond.synced = "False"], "requeue")

Differs(f) == f \in newResourceDelta(desired, latest)

(* The order of the fields. *)
Turn(f) ==
  CASE f = "desc"  -> Differs("desc")
    [] f = "tags"  -> ~Differs("desc") /\ Differs("tags")
    [] f = "limit" -> ~Differs("desc") /\ ~Differs("tags") /\ Differs("limit")
    [] f = "none"  -> ~Differs("desc") /\ ~Differs("tags") /\ ~Differs("limit")

Updating(f) == pc = "update" /\ Settled(latest) /\ Turn(f)

(* External: a cache is modified when it is available, and that takes a while. *)
Modified(change) == /\ aws.status = "available"
                    /\ aws' = [change EXCEPT !.status = "modifying"]

(* A modification that is accepted; an error of it is wrapped, with no result. *)
Modifies(change) ==
  /\ Modified(change)
  /\ \/ FailWith(AsLatest(desired), "requeue") /\ UNCHANGED faults
     \/ FailWith(latest, "awsOther") /\ Fault("lost")
  /\ UNCHANGED <<crVars, edits>>

ModificationFails ==
  /\ IF aws.status = "available" THEN Fault("reject") ELSE UNCHANGED faults
  /\ FailWith(latest, "awsOther")
  /\ UNCHANGED <<crVars, aws, edits>>

(* A nil description is no change. *)
syncDescription ==
  /\ Updating("desc")
  /\ Modifies([aws EXCEPT !.desc = IF desired.spec.desc = None THEN @
                                   ELSE desired.spec.desc])

(* The limit is narrowed without a check. *)
syncSnapshotRetentionLimit ==
  /\ Updating("limit")
  /\ Modifies([aws EXCEPT !.limit = int32(desired.spec.limit)])

RefusedByService == (Updating("desc") \/ Updating("limit")) /\ ModificationFails

syncTags ==
  /\ Updating("tags")
  /\ aws.status = "available"
  /\ aws' = [aws EXCEPT !.tags = T!SyncTags(desired.spec.tags, latest.spec.tags, @)]
  /\ \/ FailWith(AsLatest(desired), "requeue") /\ UNCHANGED faults
     \/ FailWith(AsLatest(desired), "awsOther") /\ Fault("lost")
  /\ UNCHANGED <<crVars, edits>>

syncTagsFails ==
  Updating("tags") /\ Refused(aws.status = "available", "awsOther", AsLatest(desired))

(* The subnets differ: nothing is sent, and the pass ends with the error. *)
NothingToSend == Updating("none") /\ GivesUp(AsLatest(desired), "requeue")

-----------------------------------------------------------------------------
ReadDelete == ObservesDoomed(sdkFind(desired))

Deletable == aws.status \in {"available", "create_failed"}

Delete == Deletes(Deletable, "deleting")

DeleteFails == DeleteRefused(Deletable, "awsOther")

IsSynced == latest.status \in {"available", "create_failed"}

-----------------------------------------------------------------------------
Controller ==
  \/ KindlessStep \/ PatchStatusBy(IsSynced)
  \/ ReadOne \/ ReadOneTagsUnread \/ ReadOneFails
  \/ RefuseLimit \/ Create \/ CreateFails \/ ReadBack
  \/ WaitWhileUnsettled \/ syncDescription \/ syncTags \/ syncTagsFails
  \/ syncSnapshotRetentionLimit \/ RefusedByService \/ NothingToSend
  \/ ReadDelete \/ ReadDeleteFails \/ Delete \/ DeleteFails

Next ==
  \/ UserEdit(Specs) \/ UserDelete \/ AwsProgress \/ AwsCreateFails \/ Controller
  \/ Crash

-----------------------------------------------------------------------------
CRs == [exists : BOOLEAN, del : BOOLEAN, fin : BOOLEAN, spec : Specs,
        ann : {NoAnnotations}, status : CacheStates \cup {"none"}, cond : Conds]

TypeOK ==
  /\ cr \in CRs /\ desired \in CRs
  /\ latest \in [spec : [desc : Descs \cup {None}, tags : T!TagMaps, limit : Limits \cup Narrow,
                         subnets : SubnetSets \cup {None}],
                 ann : {NoAnnotations}, status : CacheStates \cup {"none"}, cond : Conds]
  /\ aws \in [status : CacheStates \cup {"none"}, desc : Descs \cup {None},
              tags : T!TagMaps, limit : Narrow, subnets : SubnetSets \cup {None}]

Realised(spec) ==
  /\ aws.status = "available"
  /\ aws.desc = spec.desc /\ aws.tags = spec.tags
  /\ aws.limit = spec.limit /\ aws.subnets = spec.subnets

(* What no pass brings about: a value that is taken away, a limit of more  *)
(* than 32 bits, other subnets, anything of a cache that could not be made.*)
OutOfReach(spec) ==
  \/ spec.desc = None /\ aws.desc # None
  \/ ~Fits(spec)
  \/ spec.subnets # aws.subnets
  \/ aws.status = "create_failed"

AsSpecified(spec) == Realised(spec) \/ OutOfReach(spec)

(***************************************************************************)
(* A cache is Synced only as it was asked for: no difference is left that a*)
(* modification removes, the tags included unless a read of them failed and*)
(* was ignored, nor one that none removes: the subnets are those asked for,*)
(* or the choice of the service has reached the stored spec, so that the   *)
(* next pass finds no difference (newResourceDelta, sdkCreate).            *)
(***************************************************************************)
SyncedTellsTheTruth ==
  /\ pc = "patchStatus" /\ err = "none" /\ ~desired.del
  /\ ensureConditionsBy(latest.cond, err, IsSynced).synced = "True"
  => /\ aws.desc = desired.spec.desc
     /\ aws.limit = desired.spec.limit
     /\ faults = 0 \/ "read" \notin FaultKinds => aws.tags = desired.spec.tags
     /\ desired.spec.subnets \in {None, aws.subnets}
     /\ edits = 0 => cr.spec.subnets = aws.subnets
=============================================================================
