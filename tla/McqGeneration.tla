--------------------------- MODULE McqGeneration ---------------------------
(***************************************************************************)
(* MCQ generation: the generate request (McqService.generate), the          *)
(* mcq-generation queue and its worker (McqGenerationWorker), with the      *)
(* passes over ever smaller contexts, the retry loop of the AI client       *)
(* (AiService.generateCompletion) and the repair call.                      *)
(*                                                                          *)
(* The worker reads the chunks another queue writes.  That side is          *)
(* PdfLifecycle, which PdfPipeline implements: the text of a READY PDF is   *)
(* whole, a hidden one may be found in any state, and the worker looks at   *)
(* no status.  Of a text the model keeps whether it is the whole text, of a *)
(* stored test the text it was made from and to how many of its leading     *)
(* characters the pass that was answered had cut it.                        *)
(*                                                                          *)
(* A definition named Action_Word is Action with a plausible mistake; no    *)
(* specification uses it, it shows that a property notices the mistake.     *)
(***************************************************************************)
EXTENDS JobQueue, PdfLifecycle, Sequences

CONSTANTS
  Source,        \* Source[g]: the PDF of a request
  Retries,       \* Retries[i]: maxRetries of the i-th pass
  MaxChars,      \* MaxChars[i]: the characters of the text that pass asks about
  CallsFrom      \* CallsFrom[i]: calls that the i-th pass and those after it can make

Generations == Jobs
Passes == 1..Len(Retries)

ASSUME GenerationAssumption ==
  /\ Source \in [Generations -> Pdfs]
  /\ Retries \in Seq(Nat) /\ Retries # <<>>
  /\ MaxChars \in [1..Len(Retries) -> Nat]
  /\ CallsFrom \in [1..(Len(Retries) + 1) -> Nat]
  /\ \A i \in Passes : CallsFrom[i] = Retries[i] + 1 + CallsFrom[i + 1]

(* All passes and the repair call; a call is one request of AiService to    *)
(* the provider's client.                                                   *)
CallsPerStart == CallsFrom[1] + 1

VARIABLES
  request,  \* how far a generate request has come
  pc,       \* the next call of the handler in a slot
  got,      \* the text that handler has read
  pass,     \* the pass it is in, later the one that was answered
  try,      \* the retries it has used in the pass it is in
  spent,    \* the calls it has made to the AI provider
  tests,    \* tests[g]: the mcq_tests stored for a request, each the text it is made from
  calm      \* history: requests made of a READY PDF whose own job was settled

vars == <<qvars, lvars, request, pc, got, pass, try, spent, tests, calm>>

Requests == {"new", "found", "accepted", "rejected"}
Steps    == {"idle", "read", "complete", "parse", "repair", "save", "return", "rethrow"}
Found    == {"none", "whole", "mixed"}
Tests    == [of : Found, upTo : Nat]

Init ==
  /\ QInit
  /\ LInit
  /\ request = [g \in Generations |-> "new"]
  /\ pc = [w \in Slots |-> "idle"]
  /\ got = [w \in Slots |-> "none"]
  /\ pass = [w \in Slots |-> 1]
  /\ try = [w \in Slots |-> 0]
  /\ spent = [w \in Slots |-> 0]
  /\ tests = [g \in Generations |-> <<>>]
  /\ calm = {}

(* Variant: the chunks are read with the page limit of the other finders. *)
MayFind_Paged(p) ==
  CASE text[p] = "full"    -> {"none", "whole", "mixed"}
    [] text[p] = "partial" -> {"none", "mixed"}
    [] text[p] = "hidden"  -> Found

(* What findByPdfId may find: all chunks of the PDF whatever its status. A *)
(* blank text has no chunk at all.                                          *)
MayFind(p) ==
  CASE text[p] = "full"    -> {"none", "whole"}
    [] text[p] = "partial" -> {"none", "mixed"}
    [] text[p] = "hidden"  -> Found

-----------------------------------------------------------------------------
(* The generate request looks for the PDF, not at its status. *)
FindPdf(g) ==
  /\ request[g] = "new"
  /\ shown[Source[g]] # "none"
  /\ request' = [request EXCEPT ![g] = "found"]
  /\ calm' = IF shown[Source[g]] = "ready" /\ Source[g] \in final THEN calm \cup {g} ELSE calm
  /\ UNCHANGED <<qvars, lvars, pc, got, pass, try, spent, tests>>

Enqueue(g) ==
  /\ request[g] = "found"
  /\ QAdd(g)
  /\ request' \in {[request EXCEPT ![g] = a] : a \in {"accepted", "rejected"}}
  /\ UNCHANGED <<lvars, pc, got, pass, try, spent, tests, calm>>

RequestFails(g) ==
  /\ request[g] \in {"new", "found"}
  /\ request' = [request EXCEPT ![g] = "rejected"]
  /\ UNCHANGED <<qvars, lvars, pc, got, pass, try, spent, tests, calm>>

-----------------------------------------------------------------------------
(* The handler, processJob. *)
At(w, step) == running[w] # NoJob /\ pc[w] = step
Goto(w, S)  == \E s \in S : pc' = [pc EXCEPT ![w] = s]

(* The handler is gone, and its local state with it. *)
HandlerEnds(w) ==
  /\ pc' = [pc EXCEPT ![w] = "idle"]
  /\ got' = [got EXCEPT ![w] = "none"]
  /\ pass' = [pass EXCEPT ![w] = 1]
  /\ try' = [try EXCEPT ![w] = 0]
  /\ spent' = [spent EXCEPT ![w] = 0]

Claim(w, g) ==
  /\ QClaim(w, g)
  /\ pc' = [pc EXCEPT ![w] = "read"]
  /\ UNCHANGED <<lvars, request, got, pass, try, spent, tests, calm>>

(* Without chunks the handler throws, and the queue tries again later. *)
ReadChunks(w) ==
  /\ At(w, "read")
  /\ \E t \in MayFind(Source[running[w]]) :
       /\ got' = [got EXCEPT ![w] = t]
       /\ Goto(w, IF t = "none" THEN {"rethrow"} ELSE {"complete"})
  /\ UNCHANGED <<qvars, lvars, request, pass, try, spent, tests, calm>>

Call(w) == spent' = [spent EXCEPT ![w] = @ + 1]

(* buildBoundedContext: the AI sees the chunks joined in reading order, and  *)
(* of them no more than the leading characters the pass allows.  How much   *)
(* of a mixed text it sees is not kept.                                     *)
Context(w) == [of |-> got[w], upTo |-> IF got[w] = "whole" THEN MaxChars[pass[w]] ELSE 0]

(* A call is answered, with questions or with something else: the loop over *)
(* the passes ends in this one.                                             *)
Answered(w) ==
  /\ At(w, "complete")
  /\ Call(w)
  /\ try' = [try EXCEPT ![w] = 0]
  /\ Goto(w, {"parse"})
  /\ UNCHANGED <<qvars, lvars, request, got, pass, tests, calm>>

(* Variant: the retries already used are not counted against the pass. *)
Retried_Uncounted(w) ==
  /\ At(w, "complete")
  /\ try[w] < Retries[pass[w]]
  /\ spent[w] < 20
  /\ Call(w)
  /\ UNCHANGED <<qvars, lvars, request, pc, got, pass, try, tests, calm>>

(* A call timed out or the provider is unavailable: try again in this pass. *)
Retried(w) ==
  /\ At(w, "complete")
  /\ try[w] < Retries[pass[w]]
  /\ Call(w)
  /\ try' = [try EXCEPT ![w] = @ + 1]
  /\ UNCHANGED <<qvars, lvars, request, pc, got, pass, tests, calm>>

(* The pass is over, for lack of retries or with an error that is not       *)
(* retried; whatever the error was, the next pass follows.                  *)
PassFails(w) ==
  /\ At(w, "complete")
  /\ Call(w)
  /\ \/ /\ pass[w] + 1 \in Passes
        /\ pass' = [pass EXCEPT ![w] = @ + 1]
        /\ UNCHANGED pc
     \/ /\ pass[w] + 1 \notin Passes
        /\ Goto(w, {"rethrow"})
        /\ UNCHANGED pass
  /\ try' = [try EXCEPT ![w] = 0]
  /\ UNCHANGED <<qvars, lvars, request, got, tests, calm>>

(* The answer holds well-formed questions, or it has to be repaired. *)
ParseQuestions(w) ==
  /\ At(w, "parse")
  /\ Goto(w, {"save", "repair"})
  /\ UNCHANGED <<qvars, lvars, request, got, pass, try, spent, tests, calm>>

(* Variant: an answer that cannot be parsed is asked for again from the first pass. *)
Repair_StartsOver(w) ==
  /\ At(w, "repair")
  /\ Goto(w, {"save", "complete"})
  /\ Call(w)
  /\ spent[w] < 20
  /\ pass' = [pass EXCEPT ![w] = 1]
  /\ try' = [try EXCEPT ![w] = 0]
  /\ UNCHANGED <<qvars, lvars, request, got, tests, calm>>

Repair(w) ==
  /\ At(w, "repair")
  /\ Call(w)
  /\ Goto(w, {"save", "rethrow"})
  /\ UNCHANGED <<qvars, lvars, request, got, pass, try, tests, calm>>

(* Variant: a test that could not be stored is dropped and the job acknowledged. *)
SaveTest_Dropped(w) ==
  /\ At(w, "save")
  /\ tests' \in {tests, [tests EXCEPT ![running[w]] = Append(@, Context(w))]}
  /\ Goto(w, {"return"})
  /\ UNCHANGED <<qvars, lvars, request, got, pass, try, spent, calm>>

(* Variant: a rejected insert is repeated on the spot. *)
SaveTest_Again(w) ==
  /\ At(w, "save")
  /\ Len(tests[running[w]]) < 5
  /\ tests' = [tests EXCEPT ![running[w]] = Append(@, Context(w))]
  /\ Goto(w, {"return", "save"})
  /\ UNCHANGED <<qvars, lvars, request, got, pass, try, spent, calm>>

SaveTest(w) ==
  /\ At(w, "save")
  /\ tests' = [tests EXCEPT ![running[w]] = Append(@, Context(w))]
  /\ Goto(w, {"return", "rethrow"})
  /\ UNCHANGED <<qvars, lvars, request, got, pass, try, spent, calm>>

Return(w) ==
  /\ At(w, "return")
  /\ QReturn(w)
  /\ HandlerEnds(w)
  /\ UNCHANGED <<lvars, request, tests, calm>>

(* The database rejects a call without effect. *)
Throw(w) ==
  /\ running[w] # NoJob
  /\ pc[w] \in {"read", "save"}
  /\ Goto(w, {"rethrow"})
  /\ UNCHANGED <<qvars, lvars, request, got, pass, try, spent, tests, calm>>

(* Variant: the handler restarts itself when there is no text yet. *)
Rethrow_Polls(w) ==
  /\ At(w, "rethrow")
  /\ Goto(w, {"read"})
  /\ UNCHANGED <<qvars, lvars, request, got, pass, try, spent, tests, calm>>

Rethrow(w) ==
  /\ At(w, "rethrow")
  /\ QThrow(w)
  /\ HandlerEnds(w)
  /\ UNCHANGED <<lvars, request, tests, calm>>

-----------------------------------------------------------------------------
Crash(w) ==
  /\ QCrash(w)
  /\ HandlerEnds(w)
  /\ UNCHANGED <<lvars, request, tests, calm>>

LockExpires(g) ==
  /\ QLockExpires(g)
  /\ UNCHANGED <<lvars, request, pc, got, pass, try, spent, tests, calm>>

StalledCheck(g) ==
  /\ QStalledCheck(g)
  /\ UNCHANGED <<lvars, request, pc, got, pass, try, spent, tests, calm>>

Backoff(g) ==
  /\ QBackoff(g)
  /\ UNCHANGED <<lvars, request, pc, got, pass, try, spent, tests, calm>>

RequestStep(g) == FindPdf(g) \/ Enqueue(g) \/ RequestFails(g)

HandlerStep(w) ==
  \/ ReadChunks(w) \/ Answered(w) \/ Retried(w) \/ PassFails(w) \/ ParseQuestions(w)
  \/ Repair(w) \/ SaveTest(w) \/ Return(w) \/ Throw(w) \/ Rethrow(w)

(* The PDF pipeline, as a reader of its collections sees it. *)
PdfStep ==
  /\ LNext
  /\ UNCHANGED <<qvars, request, pc, got, pass, try, spent, tests, calm>>

Next ==
  \/ PdfStep
  \/ \E g \in Generations :
       RequestStep(g) \/ LockExpires(g) \/ StalledCheck(g) \/ Backoff(g)
  \/ \E w \in Slots : HandlerStep(w) \/ Crash(w)
  \/ \E w \in Slots, g \in Generations : Claim(w, g)

Fairness ==
  /\ \A w \in Slots : WF_vars(HandlerStep(w))
  /\ WF_vars(\E w \in Slots, g \in Generations : Claim(w, g))
  /\ \A g \in Generations : WF_vars(StalledCheck(g)) /\ WF_vars(Backoff(g))

Spec == Init /\ [][Next]_vars

FairSpec == Spec /\ Fairness

-----------------------------------------------------------------------------
TypeOK ==
  /\ QTypeOK
  /\ shown \in [Pdfs -> Shown] /\ text \in [Pdfs -> Texts]
  /\ final \subseteq Pdfs /\ void \subseteq Pdfs
  /\ request \in [Generations -> Requests]
  /\ pc \in [Slots -> Steps]
  /\ got \in [Slots -> Found]
  /\ pass \in [Slots -> Passes]
  /\ try \in [Slots -> Nat]
  /\ spent \in [Slots -> Nat]
  /\ tests \in [Generations -> Seq(Tests)]
  /\ calm \subseteq Generations

(* One start of the handler makes no more than CallsPerStart calls, through  *)
(* passes, retries and repair, and a request starts it no more often than   *)
(* its attempts and stalls allow: what one request can cost is bounded.     *)
CallsBounded ==
  /\ \A w \in Slots : spent[w] <= CallsPerStart
  /\ RunBudget

(* A test of a request that was made when the PDF's job was settled and the *)
(* PDF read READY is about the PDF's own text, from its first character up  *)
(* to the budget of one of the passes: no worker, late or retried, takes    *)
(* chunks away or doubles them under it.  READY alone is not enough: until  *)
(* its job is settled a redelivery may empty a READY PDF again.             *)
CalmTestsAreOfTheText ==
  \A g \in calm : Source[g] \notin void =>
    \A i \in DOMAIN tests[g] :
      \E k \in Passes : tests[g][i] = [of |-> "whole", upTo |-> MaxChars[k]]

(* A generation job that was acknowledged has stored a test. *)
GeneratedHasTest ==
  \A g \in Generations : jobState[g] = "completed" => tests[g] # <<>>

(* One request stores no more tests than its job has starts. *)
TestsBounded ==
  \A g \in Generations : Len(tests[g]) <= attemptsStarted[g]

(* Every accepted request is settled: a test, or a job that failed. *)
GenerationSettles ==
  \A g \in Generations : request[g] = "accepted" ~>
    [](tests[g] # <<>> \/ jobState[g] = "failed")

-----------------------------------------------------------------------------
(* The inductive invariant behind them.  Where a handler stands bounds what  *)
(* it has spent; a text read for a calm request is the whole text.          *)
HandlerInStep ==
  \A w \in Slots :
    /\ running[w] = NoJob <=> pc[w] = "idle"
    /\ IF pc[w] = "complete" THEN try[w] <= Retries[pass[w]] ELSE try[w] = 0
    /\ pc[w] \in {"idle", "read"} => pass[w] = 1
    /\ pc[w] = "return" => tests[running[w]] # <<>>

SpentSoFar ==
  \A w \in Slots :
    /\ spent[w] <= CallsPerStart
    /\ pc[w] \in {"idle", "read"} => spent[w] = 0
    /\ pc[w] = "complete" => spent[w] + CallsFrom[pass[w]] <= CallsFrom[1] + try[w]
    /\ pc[w] \in {"parse", "repair"} => spent[w] < CallsPerStart

AskedOnce ==
  \A g \in Generations :
    /\ request[g] \in {"new", "found"} => jobState[g] = "none"
    /\ request[g] = "new" => g \notin calm
    /\ jobState[g] = "none" => tests[g] = <<>>

ReadyIsWhole ==
  \A p \in Pdfs \ void : shown[p] = "ready" => text[p] = "full"

CalmStays ==
  \A g \in calm : Source[g] \notin void =>
    /\ Source[g] \in final /\ shown[Source[g]] = "ready"
    /\ \A w \in Slots :
         running[w] = g /\ pc[w] \in {"complete", "parse", "repair", "save"} =>
           got[w] = "whole"

IInv ==
  /\ TypeOK
  /\ QInv
  /\ HandlerInStep
  /\ SpentSoFar
  /\ AskedOnce
  /\ ReadyIsWhole
  /\ CalmStays
  /\ CalmTestsAreOfTheText
  /\ GeneratedHasTest

=============================================================================
