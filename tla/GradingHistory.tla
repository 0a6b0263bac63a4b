--------------------------- MODULE GradingHistory ---------------------------
(***************************************************************************)
(* What the evaluation promises to a reader of `evaluation_results`: the    *)
(* gradings of an answer sheet are versions 1, 2, 3, ... that appear one    *)
(* after the other, and a page that asks is shown the one that is the       *)
(* newest then.  Queue, attempts, handlers, crashes and what overlapping    *)
(* handlers do to each other are not visible: a second result of the same   *)
(* version is not a newer one.  This is the grading that EvaluationPage     *)
(* takes for granted.                                                       *)
(***************************************************************************)
EXTENDS Naturals

CONSTANT Sheets

VARIABLES
  newest,   \* the newest version of a sheet's gradings, 0 while there is none
  seen      \* the version its page shows, 0 for none

hvars == <<newest, seen>>

HInit ==
  /\ newest = [s \in Sheets |-> 0]
  /\ seen = [s \in Sheets |-> 0]

Grade(s) ==
  /\ newest' = [newest EXCEPT ![s] = @ + 1]
  /\ UNCHANGED seen

Show(s) ==
  /\ newest[s] > 0
  /\ seen' = [seen EXCEPT ![s] = newest[s]]
  /\ UNCHANGED newest

HNext == \E s \in Sheets : Grade(s) \/ Show(s)

HSpec == HInit /\ [][HNext]_hvars
=============================================================================
