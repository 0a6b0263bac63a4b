---------------------------- MODULE PracticePage ----------------------------
(***************************************************************************)
(* The MCQ practice page (mock-tests/mcq/page.tsx): it finds or generates a *)
(* test of the PDF and the number of questions asked for, runs a timed      *)
(* session of it, submits the answers and shows the score the server gives. *)
(*                                                                          *)
(* The list of tests is polled and holds the newest ones only.  Tests are   *)
(* stored by generation jobs of this page or of another, whenever they end  *)
(* (module McqGeneration), with as many questions as the AI's reply had     *)
(* well-formed ones.  Of the selected PDFs the model keeps the first, the    *)
(* only one a test is asked of.  An effect of the page is an action of its  *)
(* own, and a handler sees what the last render saw: a submit is not        *)
(* rendered before the mutation's observers are told.                       *)
(*                                                                          *)
(* A definition named Action_Word is Action with a plausible mistake; no    *)
(* specification uses it, it shows that a property notices the mistake.     *)
(***************************************************************************)
EXTENDS McqGrading

CONSTANTS
  Pdfs,
  Counts,        \* numbers of questions the slider offers
  Picks,         \* options the user picks from
  Replies,       \* what the AI may reply
  Limit,         \* tests in a list, 20 in the code
  MaxQuestions,  \* bound: items in a reply, which may be more than were asked for
  MaxTests,      \* bound: tests stored
  MaxFailures,   \* bound: submissions that fail
  NoPdf,         \* no PDF is selected
  NoOrder,
  NoTest,
  NoRequest

VARIABLES
  stored,      \* the user's tests on the server, oldest first
  polled,      \* how many of them were stored when the list was last read
  chosen,      \* the first selected PDF, selectedPdfIds[0], and the question count
  awaiting,    \* awaitingGeneratedTest
  request,     \* generationRequest
  patience,    \* whether the three minutes of the wait are still running
  generating,  \* generateMutation.isPending
  active,      \* activeTestId
  started,     \* testStarted
  index,       \* currentQuestionIndex
  answers,     \* selectedAnswers, Skip where there is none
  timer,       \* timerSecondsLeft, in units of two minutes
  submission,  \* what submitMutation observes
  seen,        \* isSubmitting as last rendered
  asked,       \* history: what the user last started a test of
  failures     \* history: failed submissions

page == <<chosen, awaiting, request, patience, generating, asked>>
session == <<active, started, index, answers, timer>>
vars == <<stored, polled, page, session, submission, seen, failures>>

Orders == [pdf : Pdfs, count : Counts]

ASSUME NoOrderAssumption == NoPdf \notin Pdfs /\ NoOrder \notin Orders

ASSUME NoRequestAssumption == NoRequest \notin [order : Orders, existing : SUBSET Nat]

ASSUME RepliesAssumption ==
  \A reply \in Replies \ {Garbled} :
    /\ IsList(reply) /\ Len(reply) <= MaxQuestions
    /\ \A i \in DOMAIN reply : IsList(reply[i].options)

ASSUME BoundsAssumption ==
  MaxQuestions \in Nat \ {0} /\ Limit \in Nat /\ MaxTests \in Nat /\ MaxFailures \in Nat

ASSUME NoTestAssumption == NoTest \notin Nat

Blankly == [q \in 0..(MaxQuestions - 1) |-> Skip]

NoGrade == [correct |-> 0, incorrect |-> 0, score |-> 0, results |-> <<>>]
NotSubmitted == [status |-> "idle", test |-> NoTest, sent |-> Blankly, graded |-> NoGrade]

Init ==
  /\ stored = <<>>
  /\ polled = 0
  /\ chosen \in [pdf : {NoPdf}, count : Counts]
  /\ asked = NoOrder
  /\ awaiting = FALSE /\ request = NoRequest /\ patience = FALSE /\ generating = FALSE
  /\ active = NoTest /\ started = FALSE /\ index = 0 /\ answers = Blankly /\ timer = 0
  /\ submission = NotSubmitted
  /\ seen = FALSE
  /\ failures = 0

(* The newest tests as last read, by their place in stored.                 *)
List == {t \in 1..polled : t > polled - Limit}

Total(t) == Len(stored[t].questions)
Fits(t, o) == stored[t].pdf = o.pdf /\ Total(t) = o.count

(* find takes the first that fits of a list sorted newest first.            *)
Newest(T) == CHOOSE t \in T : \A k \in T : k <= t

activeTest == IF active \in List THEN active ELSE NoTest

isSubmitting == submission.status = "pending"
isSuccess    == submission.status = "ok"
isBusy       == awaiting \/ generating \/ seen

(* What the panel, the option cards and the buttons below them allow.       *)
MayChoose == ~started /\ ~isBusy
MayStart  == ~isBusy /\ chosen.pdf # NoPdf
MayPick   == ~isSuccess
MayMove   == ~seen

Render == seen' = (submission'.status = "pending")

-----------------------------------------------------------------------------
(* A generation job stores what it made of a reply, if that is anything.    *)
StoreTest(p, reply) ==
  /\ Len(stored) < MaxTests
  /\ tryParseQuestions(reply) # <<>>
  /\ stored' = Append(stored, [pdf |-> p, questions |-> tryParseQuestions(reply)])
  /\ UNCHANGED <<polled, page, session, submission, seen, failures>>

(* Variant: every refresh of the list starts the three minutes again. *)
Poll_RestartsWait ==
  /\ polled' = Len(stored)
  /\ patience' = awaiting
  /\ UNCHANGED <<stored, chosen, awaiting, request, generating, asked, session, submission, failures>>
  /\ Render

(* The list is read every three seconds and after a generation was accepted. *)
Poll ==
  /\ polled' = Len(stored)
  /\ UNCHANGED <<stored, page, session, submission, failures>>
  /\ Render

Choose(pdf, count) ==
  /\ chosen' = [pdf |-> pdf, count |-> count]
  /\ UNCHANGED <<stored, polled, awaiting, request, patience, generating, asked, session, submission,
                 failures>>
  /\ Render

(* The panel is locked while a test runs or is prepared.  Another PDF comes  *)
(* first when the first is deselected, or one is selected and none was.     *)
handleTogglePdf(p) == MayChoose /\ p # chosen.pdf /\ Choose(p, chosen.count)
setQuestionCount(n) == MayChoose /\ Choose(chosen.pdf, n)

(* The effect on the list of READY PDFs, which may be read at any time, also *)
(* while a test runs or is prepared: it deselects the PDFs that are no      *)
(* longer in the list, and selects one when none is left, if it can.        *)
SelectReady(p) == Choose(p, chosen.count)

(* A session of test t begins; a submission made before is of another one.  *)
initializeTestSession(t) ==
  /\ active' = t
  /\ started' = TRUE
  /\ index' = 0
  /\ answers' = Blankly
  /\ timer' = Total(t)
  /\ submission' = NotSubmitted   \* reset(): one in flight goes on unobserved
  /\ Render

StopWaiting == awaiting' = FALSE /\ request' = NoRequest /\ patience' = FALSE

(* What was asked for is given up, unless a session of it runs.             *)
GiveUp == StopWaiting /\ asked' = IF awaiting THEN NoOrder ELSE asked

-----------------------------------------------------------------------------
(* handleStartOrRestart: restart the test that is there, or take one of the *)
(* list, or have one generated and wait for a test that was not there yet.  *)
Fitting(o) == {t \in List : Fits(t, o)}

Restart ==
  /\ MayStart /\ started /\ activeTest # NoTest
  /\ initializeTestSession(active)
  /\ UNCHANGED <<stored, polled, page, failures>>

StartExisting ==
  /\ MayStart /\ ~(started /\ activeTest # NoTest) /\ Fitting(chosen) # {}
  /\ initializeTestSession(Newest(Fitting(chosen)))
  /\ asked' = chosen
  /\ UNCHANGED <<stored, polled, chosen, awaiting, request, patience, generating, failures>>

StartGenerating ==
  /\ MayStart /\ ~(started /\ activeTest # NoTest) /\ Fitting(chosen) = {}
  /\ awaiting' = TRUE /\ patience' = TRUE /\ generating' = TRUE
  /\ asked' = chosen
  /\ request' = [order |-> chosen, existing |-> List]
  /\ UNCHANGED <<stored, polled, chosen, session, submission, failures>>
  /\ Render

GenerateAccepted ==
  /\ generating
  /\ generating' = FALSE
  /\ UNCHANGED <<stored, polled, chosen, awaiting, request, patience, asked, session, submission, failures>>
  /\ Render

(* Refused (too many questions, no such PDF) or lost.                       *)
GenerateRefused ==
  /\ generating
  /\ generating' = FALSE
  /\ GiveUp
  /\ UNCHANGED <<stored, polled, chosen, session, submission, failures>>
  /\ Render

-----------------------------------------------------------------------------
(* Variant: the test that is started fits the panel, not the request. *)
MatchEffect_BySelection ==
  /\ awaiting
  /\ LET found == Fitting(chosen) \ request.existing IN
       /\ found # {}
       /\ initializeTestSession(Newest(found))
  /\ StopWaiting
  /\ UNCHANGED <<stored, polled, chosen, generating, asked, failures>>

(* The effect on the list: the newest test that fits and is new is started. *)
MatchEffect ==
  /\ awaiting
  /\ LET found == Fitting(request.order) \ request.existing IN
       /\ found # {}
       /\ initializeTestSession(Newest(found))
  /\ StopWaiting
  /\ UNCHANGED <<stored, polled, chosen, generating, asked, failures>>

WaitRunsOut ==
  /\ awaiting /\ patience
  /\ patience' = FALSE
  /\ UNCHANGED <<stored, polled, chosen, awaiting, request, generating, asked, session, submission,
                 seen, failures>>

TimeoutEffect ==
  /\ awaiting /\ ~patience
  /\ GiveUp
  /\ UNCHANGED <<stored, polled, chosen, generating, session, submission, failures>>
  /\ Render

-----------------------------------------------------------------------------
(* A session is shown when its test is in the list and none is prepared.    *)
Shown == started /\ activeTest # NoTest /\ ~awaiting

SelectOption(o) ==
  /\ Shown /\ MayPick
  /\ answers' = [answers EXCEPT ![index] = o]
  /\ UNCHANGED <<stored, polled, page, active, started, index, timer, submission, failures>>
  /\ Render

Move(i) ==
  /\ index' = i
  /\ UNCHANGED <<stored, polled, page, active, started, answers, timer, submission, failures>>
  /\ Render

PreviousQuestion == Shown /\ MayMove /\ index > 0 /\ Move(index - 1)
NextQuestion == Shown /\ MayMove /\ index < Total(active) - 1 /\ Move(index + 1)

Tick ==
  /\ started /\ activeTest # NoTest /\ ~isSuccess /\ timer > 0
  /\ timer' = timer - 1
  /\ UNCHANGED <<stored, polled, page, active, started, index, answers, submission, failures>>
  /\ Render

(* A new mutation takes the place of the one observed before.               *)
handleSubmit ==
  /\ submission' = [status |-> "pending", test |-> active, sent |-> answers, graded |-> NoGrade]
  /\ UNCHANGED <<stored, polled, page, session, seen, failures>>

(* The last question's button; it works also once a score is shown.         *)
SubmitLast == Shown /\ MayMove /\ index = Total(active) - 1 /\ handleSubmit

(* Variant: the effect does not look again when a submission has failed. *)
SubmitExpired_Once ==
  /\ started /\ activeTest # NoTest /\ timer = 0 /\ submission.status = "idle"
  /\ handleSubmit

(* The effect on the timer: it runs after a render, which has seen whether  *)
(* a submission is pending, and again after one that failed.                *)
SubmitExpired ==
  /\ started /\ activeTest # NoTest /\ timer = 0 /\ ~isSuccess /\ ~isSubmitting
  /\ handleSubmit

(* The observers are told of the mutation.                                  *)
RenderSubmission ==
  /\ seen # isSubmitting
  /\ seen' = isSubmitting
  /\ UNCHANGED <<stored, polled, page, session, submission, failures>>

(* The page sends one entry per question of the test, answered or not.      *)
Entries(s) ==
  [i \in 1..Total(s.test) |-> [questionIndex |-> i - 1, selectedOption |-> s.sent[i - 1]]]

Graded ==
  /\ isSubmitting
  /\ submission' = [submission EXCEPT !.status = "ok",
                      !.graded = submit(stored[submission.test].questions, Entries(submission))]
  /\ UNCHANGED <<stored, polled, page, session, failures>>
  /\ Render

(* The submission, or its answer, is lost.                                  *)
SubmitFails ==
  /\ isSubmitting /\ failures < MaxFailures
  /\ submission' = [submission EXCEPT !.status = "failed"]
  /\ failures' = failures + 1
  /\ UNCHANGED <<stored, polled, page, session>>
  /\ Render

-----------------------------------------------------------------------------
Generate == GenerateAccepted \/ GenerateRefused
Answered == SubmitFails \/ Graded

Next ==
  \/ \E p \in Pdfs, reply \in Replies : StoreTest(p, reply)
  \/ Poll
  \/ \E p \in Pdfs \cup {NoPdf} : handleTogglePdf(p) \/ SelectReady(p)
  \/ \E n \in Counts : setQuestionCount(n)
  \/ Restart \/ StartExisting \/ StartGenerating \/ GenerateAccepted \/ GenerateRefused
  \/ MatchEffect \/ WaitRunsOut \/ TimeoutEffect
  \/ \E o \in Picks : SelectOption(o)
  \/ PreviousQuestion \/ NextQuestion \/ Tick \/ SubmitLast \/ SubmitExpired \/ RenderSubmission
  \/ Graded \/ SubmitFails

Spec == Init /\ [][Next]_vars

(* Effects run, timers run on, requests are answered, and the list is read  *)
(* every three seconds; no click and no stored test is promised.            *)
Fairness ==
  /\ WF_vars(Poll) /\ WF_vars(Generate) /\ WF_vars(MatchEffect)
  /\ WF_vars(WaitRunsOut) /\ WF_vars(TimeoutEffect)
  /\ WF_vars(Tick) /\ WF_vars(SubmitExpired) /\ WF_vars(RenderSubmission) /\ WF_vars(Answered)

FairSpec == Spec /\ Fairness

-----------------------------------------------------------------------------
Submission ==
  [status : {"idle", "pending", "ok", "failed"}, test : 1..MaxTests \cup {NoTest},
   sent : [0..(MaxQuestions - 1) -> Picks \cup {Skip}],
   graded : [correct : Nat, incorrect : Nat, score : Nat, results : Seq(Nat)]]

TypeOK ==
  /\ Len(stored) \in 0..MaxTests
  /\ \A t \in DOMAIN stored : stored[t].pdf \in Pdfs /\ Total(t) \in 1..MaxQuestions
  /\ polled \in 0..Len(stored)
  /\ chosen \in [pdf : Pdfs \cup {NoPdf}, count : Counts]
  /\ asked \in Orders \cup {NoOrder}
  /\ request # NoRequest => request.order \in Orders /\ request.existing \subseteq 1..MaxTests
  /\ awaiting \in BOOLEAN /\ patience \in BOOLEAN /\ generating \in BOOLEAN
  /\ active \in DOMAIN stored \cup {NoTest}
  /\ started \in BOOLEAN
  /\ index \in 0..(MaxQuestions - 1)
  /\ answers \in [0..(MaxQuestions - 1) -> Picks \cup {Skip}]
  /\ timer \in 0..MaxQuestions
  /\ submission \in Submission
  /\ seen \in BOOLEAN
  /\ failures \in 0..MaxFailures

(* Every stored question has four options and names one of them as correct, *)
(* whatever the AI replied.                                                 *)
QuestionsWellFormed ==
  \A t \in DOMAIN stored : \A q \in DOMAIN stored[t].questions :
    LET question == stored[t].questions[q] IN
    Len(question.options) = OptionCount /\ question.correctAnswer \in 0..(OptionCount - 1)

(* The session that is shown is of a test of the PDF and the number of      *)
(* questions the user last started one of, however long it was waited for,  *)
(* whatever was stored in the meantime, and whatever the panel selects by   *)
(* now: the list of PDFs may have changed the selection since.              *)
SessionIsAsAsked ==
  /\ awaiting => request # NoRequest /\ request.order = asked
  /\ Shown => asked # NoOrder /\ Fits(active, asked)

(* The submission the page follows, and so the score it shows, belongs to   *)
(* the session that runs: no answer to a submission of an earlier session,  *)
(* or of another test, is shown in it.                                      *)
ResultIsOfSession ==
  submission.status # "idle" => submission.test = active /\ started

(* The score of what the page submitted is the share of questions answered  *)
(* right, to a tenth of a percent and never above 100; every question is    *)
(* counted once, and the i-th result is that of the i-th question.          *)
ScoreIsShare ==
  isSuccess =>
    LET questions == stored[submission.test].questions
        n         == Len(questions)
        right     == {q \in 0..(n - 1) : submission.sent[q] = questions[q + 1].correctAnswer}
        skipped   == {q \in 0..(n - 1) : submission.sent[q] = Skip}
        graded    == submission.graded
    IN
    /\ graded.correct = Cardinality(right)
    /\ graded.correct + graded.incorrect + Cardinality(skipped) = n
    /\ 2 * (graded.score * n - 1000 * graded.correct) \in -n..n
    /\ graded.score \in 0..1000
    /\ \A q \in 0..(n - 1) : graded.results[q + 1] = q

(* A wait for a generated test comes to an end, whether a test that fits is *)
(* stored or not.                                                           *)
WaitEnds == awaiting ~> ~awaiting

(* A session whose time is up is graded, through failed submissions, unless *)
(* it is restarted or its test drops out of the list of newest tests.       *)
ExpiredIsGraded ==
  started /\ activeTest # NoTest /\ timer = 0 ~> isSuccess \/ timer > 0 \/ activeTest = NoTest

IInv ==
  /\ TypeOK
  /\ QuestionsWellFormed
  /\ SessionIsAsAsked
  /\ ResultIsOfSession
=============================================================================
