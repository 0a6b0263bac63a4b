----------------------------- MODULE StudyPages -----------------------------
(***************************************************************************)
(* The dashboard's pages about the user's PDFs and answer sheets in one     *)
(* session: the list and its uploads (PdfLibrary), the questions (AskPdf),  *)
(* the downloads (Downloads) and the evaluations (EvaluationPage).  The     *)
(* user moves between them while uploads, reads and questions are under way *)
(* and PDFs are processed.                                                  *)
(***************************************************************************)
EXTENDS AskPdf, Downloads, EvaluationPage

vars == <<at, library, chat, center, sheets>>

Init ==
  /\ at = "pdfs"
  /\ LibraryInit /\ AskInit /\ DownloadsInit /\ EvaluationInit

Library  == LibraryNext /\ UNCHANGED <<at, chat, center, sheets>>
Ask      == AskNext /\ UNCHANGED <<at, library, center, sheets>>
Download == DownloadsNext /\ UNCHANGED <<at, library, chat, sheets>>
Evaluate == EvaluationNext /\ UNCHANGED <<at, library, chat, center>>

(* A link of the sidebar: the page is unmounted and another is mounted.     *)
Navigate(page) ==
  /\ page # at
  /\ at' = page
  /\ MountList(page)
  /\ AskReset
  /\ DownloadsReset
  /\ EvaluationReset

Next == Library \/ Ask \/ Download \/ Evaluate \/ \E page \in Page : Navigate(page)

Spec == Init /\ [][Next]_vars

(* The list is polled, requests are answered and intervals run while the    *)
(* browser runs; no user and no processing job is promised to do anything.  *)
Fairness ==
  /\ WF_vars(ListStep /\ UNCHANGED <<at, chat, center, sheets>>)
  /\ WF_vars(AnswerStep /\ UNCHANGED <<at, library, center, sheets>>)
  /\ WF_vars(ResultStep /\ UNCHANGED <<at, library, chat, center>>)

FairSpec == Spec /\ Fairness

-----------------------------------------------------------------------------
TypeOK ==
  /\ at \in Page
  /\ LibraryTypeOK /\ AskTypeOK /\ DownloadsTypeOK /\ EvaluationTypeOK

(* What a page holds of its own is gone when it is left.                    *)
OnlyMounted ==
  /\ at # "pdfs" => dropzone = "idle" /\ watched = {}
  /\ at # "ask" => bubbles = <<>> /\ call = NoCall
  /\ at # "downloads" => download = NoDownload
  /\ at # "evaluation" => evalState = "idle"

(* The inductive invariant.                                                 *)
IInv ==
  /\ TypeOK
  /\ OnlyMounted
  /\ ListIsPast
  /\ StoredIsShown
  /\ AnsweredIsNotMissed
  /\ SelectedOnce
  /\ OwnAnswer
  /\ OpensWhatWasAsked
  /\ ResultIsOfSheet

(* A mounted list catches up with the server: an upload that was answered   *)
(* while it was shown is listed, and a PDF listed as waiting or in process  *)
(* does not stay so once it is settled.                                     *)
Behind(p) == Listed(p) /\ list[p] \in {"uploaded", "processing"} /\ shown[p] \in {"ready", "failed"}

ListCatchesUp ==
  \A p \in Pdfs \ Owned :
    /\ p \in promised /\ at \in ListPages ~> Listed(p) \/ at \notin ListPages
    /\ Behind(p) /\ at \in ListPages ~> ~Behind(p) \/ at \notin ListPages

(* While the page stays, every question is answered in full or apologised   *)
(* for, and a sheet's newest evaluation is shown.                           *)
AllSettled == \A i \in DOMAIN bubbles : bubbles[i].sorry \/ bubbles[i].typed = AnswerLength

AnswersArrive ==
  /\ ~AllSettled ~> AllSettled
  /\ active # 0 /\ graded[active] > 0 ~> active = 0 \/ result = graded[active]
=============================================================================
