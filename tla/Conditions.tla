----------------------------- MODULE Conditions -----------------------------
(***************************************************************************)
(* The status conditions of a custom resource and the way the resource     *)
(* managers compute them: updateConditions, terminalAWSError, onError and  *)
(* onSuccess are generated identically into every pkg/resource/<kind>; the *)
(* line numbers in PROJECT.json are those of replication_group.            *)
(*                                                                         *)
(* The condition list is a record with one field per condition type the    *)
(* controller acts upon.  "unset" is a type that is not in the list.       *)
(***************************************************************************)

CondStatus == {"unset", "True", "False", "Unknown"}

Conds == [synced : CondStatus, terminal : CondStatus, recoverable : CondStatus]

NoConds == [synced |-> "unset", terminal |-> "unset", recoverable |-> "unset"]

(***************************************************************************)
(* The errors of a reconciliation, by what the code tells apart:           *)
(*   awsTerminal   a smithy.APIError whose code is one of terminal_codes   *)
(*   awsOther      any other error of an API call                          *)
(*   v1Combination awserr.New("InvalidParameterCombination", ...), an error*)
(*                 of the version 1 SDK, built by the hooks themselves     *)
(*   terminalError ackerr.NewTerminalError(...), made by the hooks         *)
(*   requeue       requeue.NeededAfter(...)                                *)
(*   notFound      ackerr.NotFound                                         *)
(*   ackTerminal   ackerr.Terminal                                         *)
(***************************************************************************)
Errors == {"none", "awsTerminal", "awsOther", "v1Combination", "terminalError",
           "requeue", "notFound", "ackTerminal"}

(***************************************************************************)
(* terminalAWSError looks for a smithy.APIError in the error chain.  An    *)
(* error of the version 1 SDK has Code() where smithy.APIError asks for    *)
(* ErrorCode(): it is not one, whatever its code.                          *)
(***************************************************************************)
terminalAWSError(err) == err = "awsTerminal"

Cleared(status) == IF status = "unset" THEN "unset" ELSE "False"

updateConditions(c, err) ==
  IF terminalAWSError(err) \/ err = "terminalError"
  THEN [c EXCEPT !.terminal = "True"]
  ELSE [c EXCEPT !.terminal = Cleared(@),
                 !.recoverable = IF err = "none" THEN Cleared(@) ELSE "True"]

onSuccess(c) == updateConditions(c, "none")

(* The conditions of the resource onError returns ... *)
onErrorConds(c, err) == updateConditions(c, err)

(* Mutant: every error is made terminal. *)
onErrorResultEveryTerminal(c, err) == IF err # "none" THEN "ackTerminal" ELSE err

(* ... and the error it returns with it. *)
onErrorResult(c, err) ==
  IF updateConditions(c, err).terminal = "True" THEN "ackTerminal" ELSE err

(***************************************************************************)
(* External: ensureConditions of the ACK runtime runs when Sync returns.   *)
(* It fills in a missing Synced condition from rm.IsSynced; with an error  *)
(* the resource is Synced only if the error is terminal.                   *)
(***************************************************************************)
ensureConditionsBy(c, err, isSynced) ==
  IF c.synced # "unset" THEN c
  ELSE [c EXCEPT !.synced = IF err = "ackTerminal" \/ (err = "none" /\ isSynced) THEN "True"
                            ELSE IF err = "none" THEN "False" ELSE "Unknown"]

(* Most managers answer IsSynced with true. *)
ensureConditions(c, err) == ensureConditionsBy(c, err, TRUE)

(***************************************************************************)
(* External: HandleReconcileError and handleRequeues of the runtime put    *)
(* every outcome back on the work queue but a terminal one.                *)
(***************************************************************************)
Requeues(err) == err # "ackTerminal"
=============================================================================
