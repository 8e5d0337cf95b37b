-------------------------- MODULE CacheSubnetGroup --------------------------
(***************************************************************************)
(* The CacheSubnetGroup controller (pkg/resource/cache_subnet_group): what *)
(* the generator makes of a resource without a status, whose creation,     *)
(* modification and deletion are done when the call returns.  The subnets  *)
(* of the spec are read from Status.Subnets.                               *)
(***************************************************************************)
EXTENDS Manager

CONSTANTS Subnets, Descriptions

Specs == [description : Descriptions, subnets : SUBSET Subnets]

Init ==
  \E s \in Specs :
    /\ StartsWith(s, "none")
    /\ aws = [status |-> "none", description |-> s.description, subnets |-> s.subnets]

-----------------------------------------------------------------------------
(* The events are read next; a failure of that fails the read. *)
sdkFind(r) ==
  [spec   |-> [description |-> aws.description, subnets |-> aws.subnets],
   ann    |-> r.ann,
   status |-> "none",
   cond   |-> onSuccess(r.cond)]

newResourceDelta(d, l) == d.spec # l.spec

ReadOne == LET r == sdkFind(desired) IN Observes(r, newResourceDelta(desired, r))

(* The result of a call: the subnets of the response go into the status only. *)
callOutput(d, group) ==
  [spec   |-> [d.spec EXCEPT !.description = group.description],
   ann    |-> d.ann,
   status |-> "none",
   cond   |-> onSuccess(d.cond)]

(* External: a group has subnets; InvalidParameterValue is a terminal code. *)
CreateValid(spec) == spec.subnets # {}

Create ==
  /\ pc = "create" /\ aws.status = "none"
  /\ CreateValid(desired.spec)
  /\ aws' = [status |-> "live", description |-> desired.spec.description,
             subnets |-> desired.spec.subnets]
  /\ Answers(callOutput(desired, aws'), AsLatest(desired), "readBack")
  /\ UNCHANGED <<crVars, edits>>

CreateFails ==
  /\ pc = "create"
  /\ Refused(CreateValid(desired.spec), "awsTerminal", AsLatest(desired))

ReadBack == ReadsBack(sdkFind(latest))

(* Everything is sent; an empty list of subnets changes none. *)
ModifyCacheSubnetGroup ==
  /\ pc = "update"
  /\ aws' = [aws EXCEPT !.description = desired.spec.description,
                        !.subnets = IF desired.spec.subnets = {} THEN @
                                    ELSE desired.spec.subnets]
  /\ Answers(callOutput(desired, aws'), latest, "patchSpec")
  /\ UNCHANGED <<crVars, edits>>

ModifyCacheSubnetGroupFails == pc = "update" /\ Refused(TRUE, "awsOther", latest)

ReadDelete == ObservesDoomed(sdkFind(desired))

Delete == Deletes(aws.status = "live", "none")

DeleteFails == DeleteRefused(aws.status = "live", "awsOther")

-----------------------------------------------------------------------------
Controller ==
  \/ KindlessStep \/ PatchStatus
  \/ ReadOne \/ ReadOneFails \/ Create \/ CreateFails \/ ReadBack
  \/ ModifyCacheSubnetGroup \/ ModifyCacheSubnetGroupFails
  \/ ReadDelete \/ ReadDeleteFails \/ Delete \/ DeleteFails

Next == UserEdit(Specs) \/ UserDelete \/ Controller \/ Crash

-----------------------------------------------------------------------------
CRs == [exists : BOOLEAN, del : BOOLEAN, fin : BOOLEAN, spec : Specs,
        ann : {NoAnnotations}, status : {"none"}, cond : Conds]

TypeOK ==
  /\ cr \in CRs /\ desired \in CRs
  /\ latest \in [spec : Specs, ann : {NoAnnotations}, status : {"none"}, cond : Conds]
  /\ aws \in [status : {"none", "live"}, description : Descriptions,
              subnets : SUBSET Subnets]

AsSpecified(spec) ==
  /\ aws.status = "live"
  /\ aws.description = spec.description
  /\ aws.subnets = spec.subnets \/ spec.subnets = {}

SyncedTellsTheTruth ==
  /\ pc = "patchStatus" /\ err = "none" /\ ~desired.del
  /\ ensureConditions(latest.cond, err).synced = "True"
  => AsSpecified(desired.spec)
=============================================================================
