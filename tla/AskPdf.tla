------------------------------- MODULE AskPdf -------------------------------
(***************************************************************************)
(* The page that asks questions about a PDF (ask-pdf/page.tsx).  A question *)
(* opens a bubble, its answer is typed into that bubble while the next      *)
(* question may already be asked.  The indicator that an answer is being    *)
(* prepared is left out.                                                    *)
(*                                                                          *)
(* The server answers from the first chunks of the PDF, whatever its status *)
(* is by then; whether it finds any and the AI answers is left open.        *)
(***************************************************************************)
EXTENDS PdfLibrary

CONSTANTS
  NoAnswer,
  NoCall,
  AnswerLength,   \* in steps of the typing interval
  MaxQuestions    \* bound: questions while the page is mounted

ASSUME QuestionsAssumption == MaxQuestions \in Nat /\ AnswerLength \in Nat
ASSUME NoAnswerAssumption == NoAnswer \notin [question : Nat, pdf : Pdfs]
ASSUME NoCallAssumption ==
  NoCall \notin [bubble : Nat, pdf : Pdfs, reply : {"none", "answer", "error"}]

VARIABLES
  selected,   \* selectedPdfIds
  bubbles,    \* the assistant's messages, one for every question
  call        \* the question that is pending

chat == <<selected, bubbles, call>>

AskReset ==
  /\ selected' = <<>> /\ bubbles' = <<>> /\ call' = NoCall

AskInit ==
  /\ selected = <<>> /\ bubbles = <<>> /\ call = NoCall

IsSelected(p) == \E i \in DOMAIN selected : selected[i] = p

(* The filter takes out one, as no PDF is selected twice.                   *)
Without(p) ==
  LET i == CHOOSE k \in DOMAIN selected : selected[k] = p
  IN SubSeq(selected, 1, i - 1) \o SubSeq(selected, i + 1, Len(selected))

togglePdf(p) ==
  /\ at = "ask" /\ p \in readyPdfs
  /\ selected' = IF IsSelected(p) THEN Without(p) ELSE Append(selected, p)
  /\ UNCHANGED <<bubbles, call>>

(* A PDF that was selected and is no longer READY is not shown: it cannot   *)
(* be removed, and the first that is selected is the one asked about.       *)
selectedPdfs == {p \in readyPdfs : IsSelected(p)}

removePdf(p) ==
  /\ at = "ask" /\ p \in selectedPdfs
  /\ selected' = Without(p)
  /\ UNCHANGED <<bubbles, call>>

canAsk == at = "ask" /\ selected # <<>> /\ call = NoCall

submitQuestion ==
  /\ canAsk /\ Len(bubbles) < MaxQuestions
  /\ bubbles' = Append(bubbles, [pdf |-> Head(selected), answer |-> NoAnswer, typed |-> 0, sorry |-> FALSE])
  /\ call' = [bubble |-> Len(bubbles) + 1, pdf |-> Head(selected), reply |-> "none"]
  /\ UNCHANGED selected

answerFromPdf ==
  /\ call # NoCall /\ call.reply = "none"
  /\ \E reply \in {"answer", "error"} : call' = [call EXCEPT !.reply = reply]
  /\ UNCHANGED <<selected, bubbles>>

AnswerArrives ==
  /\ call # NoCall /\ call.reply = "answer"
  /\ bubbles' = [bubbles EXCEPT ![call.bubble].answer = [question |-> call.bubble, pdf |-> call.pdf]]
  /\ call' = NoCall
  /\ UNCHANGED selected

ErrorArrives ==
  /\ call # NoCall /\ call.reply = "error"
  /\ bubbles' = [bubbles EXCEPT ![call.bubble].sorry = TRUE]
  /\ call' = NoCall
  /\ UNCHANGED selected

Typing(i) == bubbles[i].answer # NoAnswer /\ bubbles[i].typed < AnswerLength

(* Variant: the answer is typed into the newest message. *)
typeAssistantResponse_Newest(i) ==
  /\ Typing(i)
  /\ bubbles' = [bubbles EXCEPT ![i].typed = @ + 1, ![Len(bubbles)].answer = bubbles[i].answer]
  /\ UNCHANGED <<selected, call>>

(* The interval of a bubble writes the next part of its answer.             *)
typeAssistantResponse(i) ==
  /\ Typing(i)
  /\ bubbles' = [bubbles EXCEPT ![i].typed = @ + 1]
  /\ UNCHANGED <<selected, call>>

AnswerStep ==
  answerFromPdf \/ AnswerArrives \/ ErrorArrives \/ \E i \in DOMAIN bubbles : typeAssistantResponse(i)

AskNext ==
  \/ \E p \in Pdfs : togglePdf(p) \/ removePdf(p)
  \/ submitQuestion \/ answerFromPdf \/ AnswerArrives \/ ErrorArrives
  \/ \E i \in DOMAIN bubbles : typeAssistantResponse(i)

-----------------------------------------------------------------------------
Bubble ==
  [pdf : Pdfs, answer : [question : 1..MaxQuestions, pdf : Pdfs] \cup {NoAnswer},
   typed : 0..AnswerLength, sorry : BOOLEAN]

AskCall == [bubble : 1..MaxQuestions, pdf : Pdfs, reply : {"none", "answer", "error"}]

AskTypeOK ==
  /\ selected \in Seq(Pdfs)
  /\ bubbles \in Seq(Bubble) /\ Len(bubbles) <= MaxQuestions
  /\ call \in AskCall \cup {NoCall}

SelectedOnce == \A i, j \in DOMAIN selected : selected[i] = selected[j] => i = j

(* A bubble holds the answer to its own question, about the PDF that was    *)
(* selected when it was asked, or an apology, never both; only the newest   *)
(* waits, while its call is pending.                                        *)
OwnAnswer ==
  /\ \A i \in DOMAIN bubbles :
       LET b == bubbles[i] IN
       /\ b.answer # NoAnswer => b.answer = [question |-> i, pdf |-> b.pdf] /\ ~b.sorry
       /\ b.answer = NoAnswer /\ ~b.sorry => i = Len(bubbles) /\ call # NoCall
  /\ call # NoCall =>
       /\ call.bubble = Len(bubbles) /\ call.pdf = bubbles[call.bubble].pdf
       /\ bubbles[call.bubble].answer = NoAnswer /\ ~bubbles[call.bubble].sorry
=============================================================================
