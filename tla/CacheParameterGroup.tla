------------------------ MODULE CacheParameterGroup ------------------------
(***************************************************************************)
(* The CacheParameterGroup controller (pkg/resource/cache_parameter_group).*)
(* The parameters of the spec are a list, those of the service a map that  *)
(* is listed in an order of its own.  An update takes several calls: the   *)
(* parameters that are gone are reset, those that differ or are new are    *)
(* saved in batches, in the random order of Go's maps.                     *)
(*                                                                         *)
(* "latest.done" are the parameters the update has dealt with so far.      *)
(***************************************************************************)
EXTENDS Manager, SequencesExt

CONSTANTS
  Descriptions,
  Names, Values,     \* of parameters
  ParameterLists,    \* the lists users write, with "" for a value left empty
  BatchSize          \* modifyApiBatchSize

Parameters == [name : Names, value : Values \cup {""}]

Specs == [description : Descriptions, params : ParameterLists]

(* What a service lists is a list as well. *)
AllSpecs == [description : Descriptions, params : Seq(Parameters)]

ParameterMaps == UNION {[N -> Values] : N \in SUBSET Names}

NoParameters == [n \in {} |-> ""]

Init ==
  \E s \in Specs :
    /\ StartsWith(s, "none")
    /\ aws = [status |-> "none", description |-> s.description, params |-> NoParameters]

-----------------------------------------------------------------------------
NamesOf(list) == {list[i].name : i \in DOMAIN list}

ValueIn(list, n) == list[CHOOSE i \in DOMAIN list : list[i].name = n].value

(* The parameters a list sets: those without a value are not set. *)
AsMap(list) ==
  [n \in {m \in NamesOf(list) : ValueIn(list, m) # ""} |-> ValueIn(list, n)]

(* describeCacheParameters of source "user", page by page. *)
describeCacheParameters ==
  LET order == SetToSeq(DOMAIN aws.params)
  IN  [i \in DOMAIN order |-> [name |-> order[i], value |-> aws.params[order[i]]]]

(* customSetOutputDescribeCacheParameters: the tags are not read. *)
sdkFind(r) ==
  [spec   |-> [description |-> aws.description, params |-> describeCacheParameters],
   ann    |-> r.ann,
   status |-> "none",
   cond   |-> onSuccess(r.cond),
   done   |-> {}]

newResourceDelta(d, l) == d.spec # l.spec

ReadOne == LET r == sdkFind(desired) IN Observes(r, newResourceDelta(desired, r))

(* Parameters are saved by an update only: Synced is False until then. *)
CustomCreateCacheParameterGroupSetOutput(c, spec) ==
  IF spec.params # <<>> THEN [c EXCEPT !.synced = "False"] ELSE c

createOutput(d) ==
  [spec   |-> d.spec,
   ann    |-> d.ann,
   status |-> "none",
   cond   |-> onSuccess(CustomCreateCacheParameterGroupSetOutput(d.cond, d.spec))]

Create ==
  /\ pc = "create" /\ aws.status = "none"
  /\ aws' = [status |-> "live", description |-> desired.spec.description,
             params |-> NoParameters]
  /\ Answers(createOutput(desired), AsLatest(desired), "readBack")
  /\ UNCHANGED <<crVars, edits>>

CreateFails == pc = "create" /\ Refused(TRUE, "awsOther", AsLatest(desired))

ReadBack == ReadsBack(sdkFind(latest))

-----------------------------------------------------------------------------
(* provideDelta *)

wanted == AsMap(desired.spec.params)
present == AsMap(latest.spec.params)

removedParameters == DOMAIN present \ DOMAIN wanted
modifiedParameters == {n \in DOMAIN present \cap DOMAIN wanted : wanted[n] # present[n]}
addedParameters == DOMAIN wanted \ DOMAIN present

ResetsAll == desired.spec.params = <<>> /\ latest.spec.params # <<>>

Left(names) == names \ latest.done

(* A call of the update that the service accepts: the next one follows, or *)
(* its answer is lost and the pass ends with what was read.                *)
Updates(params, done) ==
  /\ aws' = [aws EXCEPT !.params = params]
  /\ \/ /\ latest' = [latest EXCEPT !.done = @ \cup done]
        /\ UNCHANGED <<pc, desired, err, faults>>
     \/ /\ Fault("lost")
        /\ FailWith(latest, "awsOther")
  /\ UNCHANGED <<crVars, edits>>

resetAllParameters ==
  /\ pc = "update" /\ ResetsAll /\ Left(removedParameters) # {}
  /\ Updates(NoParameters, removedParameters)

(* Mutant: the reset takes all parameters. *)
resetParametersAll ==
  /\ pc = "update" /\ ~ResetsAll /\ Left(removedParameters) # {}
  /\ Updates(NoParameters, removedParameters)

resetParameters ==
  /\ pc = "update" /\ ~ResetsAll /\ Left(removedParameters) # {}
  /\ Updates([n \in DOMAIN aws.params \ removedParameters |-> aws.params[n]],
             removedParameters)

(* A batch: as many as one call takes, or the rest. *)
Batches(names) ==
  {b \in SUBSET names : Cardinality(b) = IF Cardinality(names) < BatchSize
                                         THEN Cardinality(names) ELSE BatchSize}

(* Mutant: what does not fill a batch is not sent. *)
saveParametersFullBatches(names) ==
  /\ Left(names) # {}
  /\ IF Cardinality(Left(names)) < BatchSize
     THEN Updates(aws.params, names)
     ELSE \E batch \in Batches(Left(names)) :
            Updates([n \in DOMAIN aws.params \cup batch |->
                       IF n \in batch THEN wanted[n] ELSE aws.params[n]],
                    batch)

saveParameters(names) ==
  /\ Left(names) # {}
  /\ \E batch \in Batches(Left(names)) :
       Updates([n \in DOMAIN aws.params \cup batch |->
                  IF n \in batch THEN wanted[n] ELSE aws.params[n]],
               batch)

saveModified ==
  /\ pc = "update" /\ Left(removedParameters) = {}
  /\ saveParameters(modifiedParameters)

saveAdded ==
  /\ pc = "update" /\ Left(removedParameters \cup modifiedParameters) = {}
  /\ saveParameters(addedParameters)

(* Any of the calls may be refused; what earlier ones did stays done. *)
UpdateFails ==
  /\ pc = "update"
  /\ Left(removedParameters \cup modifiedParameters \cup addedParameters) # {}
  /\ Refused(TRUE, "awsOther", latest)

(* After the last call the parameters are read again, if there was a call; *)
(* what was read is patched into the spec, whatever else differed there.   *)
UpdateDone ==
  /\ pc = "update"
  /\ Left(removedParameters \cup modifiedParameters \cup addedParameters) = {}
  /\ latest' = [latest EXCEPT !.spec.params = IF latest.done = {} THEN @
                                              ELSE describeCacheParameters,
                              !.cond = onSuccess(@)]
  /\ pc' = "patchSpec"
  /\ UNCHANGED <<crVars, aws, desired, err, edits, faults>>

RereadFails ==
  /\ pc = "update" /\ latest.done # {}
  /\ Left(removedParameters \cup modifiedParameters \cup addedParameters) = {}
  /\ Fault("read")
  /\ FailWith(latest, "awsOther")
  /\ UNCHANGED <<crVars, aws, edits>>

-----------------------------------------------------------------------------
ReadDelete == ObservesDoomed(sdkFind(desired))

Delete == Deletes(aws.status = "live", "none")

DeleteFails == DeleteRefused(aws.status = "live", "awsOther")

-----------------------------------------------------------------------------
Controller ==
  \/ KindlessStep \/ PatchStatus
  \/ ReadOne \/ ReadOneFails \/ Create \/ CreateFails \/ ReadBack
  \/ resetAllParameters \/ resetParameters \/ saveModified \/ saveAdded
  \/ UpdateFails \/ UpdateDone \/ RereadFails
  \/ ReadDelete \/ ReadDeleteFails \/ Delete \/ DeleteFails

Next == UserEdit(Specs) \/ UserDelete \/ Controller \/ Crash

-----------------------------------------------------------------------------
CRs == [exists : BOOLEAN, del : BOOLEAN, fin : BOOLEAN, spec : AllSpecs,
        ann : {NoAnnotations}, status : {"none"}, cond : Conds]

Observed == [spec : AllSpecs, ann : {NoAnnotations}, status : {"none"}, cond : Conds]

TypeOK ==
  /\ cr \in CRs /\ desired \in CRs
  /\ [f \in DOMAIN latest \ {"done"} |-> latest[f]] \in Observed
  /\ "done" \in DOMAIN latest => latest.done \subseteq Names
  /\ aws \in [status : {"none", "live"}, description : Descriptions,
              params : ParameterMaps]

(* The description of a group cannot change, and is taken back. *)
AsSpecified(spec) == aws.status = "live" /\ aws.params = AsMap(spec.params)

SyncedTellsTheTruth ==
  /\ pc = "patchStatus" /\ err = "none" /\ ~desired.del
  /\ ensureConditions(latest.cond, err).synced = "True"
  => AsSpecified(desired.spec)

(***************************************************************************)
(* No call of an update takes away, or sets to another value, a parameter  *)
(* that the service has as the spec wants it: resets name what is removed, *)
(* and a repeated update sends no stale value (provideDelta).              *)
(***************************************************************************)
KeepsParameters ==
  pc = "update" => \A n \in DOMAIN aws.params \cap DOMAIN wanted :
    aws.params[n] = wanted[n] => n \in DOMAIN aws'.params /\ aws'.params[n] = wanted[n]
=============================================================================
