--------------------------- MODULE EvaluationPage ---------------------------
(***************************************************************************)
(* The page that submits an answer sheet and waits for its evaluation       *)
(* (answer-evaluation/page.tsx, use-evaluation.ts).  Evaluations are stored *)
(* by the grading jobs (module Evaluation) at any time, more than one of a  *)
(* sheet when a job is repeated; of a sheet whose request failed there may  *)
(* be one or none.  The result is asked for every four seconds, also when   *)
(* it is not there yet, which the server answers with an error.             *)
(***************************************************************************)
EXTENDS Pages

CONSTANTS
  MaxSheets,     \* bound: sheets stored while the page is mounted
  MaxVersions    \* bound: evaluations of a sheet

ASSUME SheetsAssumption == MaxSheets \in Nat /\ MaxVersions \in Nat

VARIABLES
  graded,      \* of every sheet stored since the page was mounted: its evaluations' newest version
  request,     \* the submit request: "none", "sent", "stored"
  evalState,
  active,      \* activeSubmissionId, 0 for none
  asking,      \* the result query: whether it is in flight, and what it got
  result       \* the newest version it has shown, 0 for none

sheets == <<graded, request, evalState, active, asking, result>>

Requests   == {"none", "sent", "stored"}
EvalStates == {"idle", "uploading", "evaluating", "failed"}

Unread   == -1
Asked    == [on |-> TRUE, got |-> Unread]
NotAsked == [on |-> FALSE, got |-> 0]

EvaluationInit ==
  /\ graded = <<>>
  /\ request = "none"
  /\ evalState = "idle" /\ active = 0 /\ asking = NotAsked /\ result = 0

(* A request that was sent goes on when the page is left, and so do the     *)
(* gradings, but no page shows them: the model forgets those sheets.        *)
EvaluationReset ==
  /\ graded' = <<>>
  /\ request' = "none"
  /\ evalState' = "idle" /\ active' = 0 /\ asking' = NotAsked /\ result' = 0

ShowsResult == result # 0

(* The card takes a sheet when it is idle or failed; a result replaces it.  *)
MayStart == at = "evaluation" /\ evalState \in {"idle", "failed"} /\ ~ShowsResult

handleSubmit ==
  /\ MayStart /\ Len(graded) < MaxSheets
  /\ evalState' = "uploading"
  /\ request' = "sent"
  /\ UNCHANGED <<graded, active, asking, result>>

StoreSheet ==
  /\ request = "sent"
  /\ graded' = Append(graded, 0)
  /\ request' = "stored"
  /\ UNCHANGED <<evalState, active, asking, result>>

SheetAccepted ==
  /\ request = "stored"
  /\ request' = "none"
  /\ evalState' = "evaluating"
  /\ active' = Len(graded)
  /\ asking' = Asked
  /\ UNCHANGED <<graded, result>>

(* Refused, lost, stored but not queued, or only the answer was lost.       *)
SheetFails ==
  /\ request \in {"sent", "stored"}
  /\ request' = "none"
  /\ evalState' = "failed"
  /\ UNCHANGED <<graded, active, asking, result>>

Grade(n) ==
  /\ graded[n] < MaxVersions
  /\ graded' = [graded EXCEPT ![n] = @ + 1]
  /\ UNCHANGED <<request, evalState, active, asking, result>>

(* Variant: the result is not asked for again after an error. *)
AskResult_Once ==
  /\ active # 0 /\ ~asking.on /\ result # 0
  /\ asking' = Asked
  /\ UNCHANGED <<graded, request, evalState, active, result>>

AskResult ==
  /\ active # 0 /\ ~asking.on
  /\ asking' = Asked
  /\ UNCHANGED <<graded, request, evalState, active, result>>

(* The newest evaluation; 0 stands for the error that there is none.        *)
getResult ==
  /\ asking.on /\ asking.got = Unread
  /\ asking' = [asking EXCEPT !.got = graded[active]]
  /\ UNCHANGED <<graded, request, evalState, active, result>>

(* The data of the query stay when a later read fails.                      *)
ResultArrives ==
  /\ asking.on /\ asking.got # Unread
  /\ result' = IF asking.got = 0 THEN result ELSE asking.got
  /\ asking' = NotAsked
  /\ UNCHANGED <<graded, request, evalState, active>>

ResultStep == AskResult \/ getResult \/ ResultArrives

EvaluationNext ==
  \/ handleSubmit \/ StoreSheet \/ SheetAccepted \/ SheetFails
  \/ \E n \in DOMAIN graded : Grade(n)
  \/ AskResult \/ getResult \/ ResultArrives

-----------------------------------------------------------------------------
EvaluationTypeOK ==
  /\ graded \in Seq(0..MaxVersions) /\ Len(graded) <= MaxSheets
  /\ request \in Requests
  /\ evalState \in EvalStates
  /\ active \in 0..Len(graded)
  /\ asking \in [on : BOOLEAN, got : Unread..MaxVersions]
  /\ result \in 0..MaxVersions

(* What is shown is an evaluation of the sheet that was submitted while the *)
(* page was mounted, the page waits for one exactly when the server took a  *)
(* sheet, and it takes another only when that one was not accepted.         *)
ResultIsOfSheet ==
  /\ evalState = "evaluating" <=> active # 0
  /\ evalState = "uploading" <=> request # "none"
  /\ active # 0 => result <= graded[active] /\ asking.got <= graded[active]
  /\ active = 0 => result = 0 /\ ~asking.on
  /\ request = "sent" => Len(graded) < MaxSheets
  /\ request = "stored" => graded # <<>>
=============================================================================
