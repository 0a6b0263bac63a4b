------------------------- MODULE McqGenerationProofs -------------------------
(***************************************************************************)
(* Proofs about McqGeneration, for any number of requests, PDFs, slots,     *)
(* attempts, forgiven stalls, passes and retries per pass.                  *)
(***************************************************************************)
EXTENDS McqGeneration, JobQueueProofs, FiniteSetTheorems

(* Request, worker and recovery use the queue through its actions only. *)
LEMMA QueueStep == [Next]_vars => [QNext]_qvars
<1> SUFFICES ASSUME [Next]_vars PROVE [QNext]_qvars
  OBVIOUS
<1> USE DEF QNext, Generations
<1>1. CASE PdfStep
  BY <1>1 DEF PdfStep
<1>2. ASSUME NEW g \in Generations,
             RequestStep(g) \/ LockExpires(g) \/ StalledCheck(g) \/ Backoff(g)
      PROVE  [QNext]_qvars
  BY <1>2 DEF RequestStep, FindPdf, Enqueue, RequestFails, LockExpires, StalledCheck, Backoff
<1>3. ASSUME NEW w \in Slots, HandlerStep(w) \/ Crash(w) PROVE [QNext]_qvars
  <2>1. CASE Return(w) \/ Rethrow(w) \/ Crash(w)
    BY <2>1 DEF Return, Rethrow, Crash
  <2>2. CASE ~(Return(w) \/ Rethrow(w) \/ Crash(w))
    BY <1>3, <2>2 DEF HandlerStep, ReadChunks, Answered, Retried, PassFails, ParseQuestions,
       Repair, SaveTest, Throw
  <2>3. QED BY <2>1, <2>2
<1>4. ASSUME NEW w \in Slots, NEW g \in Generations, Claim(w, g) PROVE [QNext]_qvars
  BY <1>4 DEF Claim
<1>5. CASE UNCHANGED vars
  BY <1>5 DEF vars, qvars
<1>6. QED
  BY <1>1, <1>2, <1>3, <1>4, <1>5 DEF Next

(* The passes are numbered from 1, and a pass makes one call more than it    *)
(* has retries.                                                             *)
LEMMA PassFacts ==
  /\ 1 \in Passes
  /\ \A i \in Passes : /\ i \in Nat /\ Retries[i] \in Nat /\ MaxChars[i] \in Nat
                       /\ CallsFrom[i] \in Nat /\ CallsFrom[i + 1] \in Nat
                       /\ CallsFrom[i] = Retries[i] + 1 + CallsFrom[i + 1]
  /\ CallsPerStart \in Nat
<1>1. Len(Retries) \in Nat /\ Len(Retries) >= 1 /\ \A i \in Passes : Retries[i] \in Nat
  BY GenerationAssumption DEF Passes
<1>2. 1 \in Passes
  BY <1>1 DEF Passes
<1>3. \A i \in Passes : i \in Nat /\ i \in 1..(Len(Retries) + 1) /\ i + 1 \in 1..(Len(Retries) + 1)
  BY <1>1 DEF Passes
<1>4. \A i \in Passes : CallsFrom[i] \in Nat /\ CallsFrom[i + 1] \in Nat /\ MaxChars[i] \in Nat
  BY <1>3, GenerationAssumption DEF Passes
<1>5. CallsPerStart \in Nat
  BY <1>2, <1>4 DEF CallsPerStart
<1>6. QED BY <1>1, <1>2, <1>3, <1>4, <1>5, GenerationAssumption

(* The initial state satisfies the inductive invariant. *)
LEMMA InitInv == Init => IInv
<1> SUFFICES ASSUME Init PROVE IInv
  OBVIOUS
<1>1. QInv
  BY QInitInv DEF Init
<1>2. TypeOK
  BY <1>1, PassFacts DEF Init, LInit, Shown, Texts, TypeOK, QInv, Requests, Steps, Found
<1>3. HandlerInStep /\ AskedOnce /\ CalmStays /\ CalmTestsAreOfTheText /\ GeneratedHasTest
  BY DEF Init, QInit, HandlerInStep, AskedOnce, CalmStays, CalmTestsAreOfTheText,
     GeneratedHasTest, Generations
<1>4. SpentSoFar
  BY PassFacts DEF Init, SpentSoFar, CallsPerStart
<1>5. ReadyIsWhole
  BY DEF Init, LInit, ReadyIsWhole
<1>6. QED BY <1>1, <1>2, <1>3, <1>4, <1>5 DEF IInv

(* The PDF pipeline never changes the PDF of a settled job unless it is void. *)
LEMMA PdfStepKeeps ==
  ASSUME TypeOK, ReadyIsWhole, PdfStep
  PROVE  /\ shown' \in [Pdfs -> Shown] /\ text' \in [Pdfs -> Texts]
         /\ final' \subseteq Pdfs /\ void' \subseteq Pdfs
         /\ ReadyIsWhole'
         /\ final \subseteq final' /\ void \subseteq void'
         /\ \A p \in final \ void' : shown'[p] = shown[p] /\ text'[p] = text[p]
<1> USE DEF TypeOK, ReadyIsWhole, Shown, Texts
<1>1. PICK p \in Pdfs : \/ Register(p) \/ Attempt(p) \/ Publish(p) \/ GiveUp(p)
                        \/ Close(p) \/ Void(p) \/ Stray(p)
  BY DEF PdfStep, LNext
<1>2. CASE Register(p) \/ Attempt(p) \/ Publish(p) \/ GiveUp(p)
  BY <1>2 DEF Register, Attempt, Publish, GiveUp, Show
<1>3. CASE Close(p)
  BY <1>3 DEF Close
<1>4. CASE Void(p)
  BY <1>4 DEF Void
<1>5. CASE Stray(p)
  BY <1>5 DEF Stray
<1>6. QED BY <1>1, <1>2, <1>3, <1>4, <1>5

(* A step of the PDF pipeline keeps the invariant. *)
LEMMA PdfStepInv == ASSUME IInv, QInv', PdfStep PROVE IInv'
<1> USE DEF IInv
<1>1. UNCHANGED <<qvars, request, pc, got, pass, try, spent, tests, calm>>
  BY DEF PdfStep
<1>2. TypeOK'
  BY <1>1, PdfStepKeeps DEF TypeOK, QInv
<1>3. HandlerInStep' /\ SpentSoFar' /\ AskedOnce' /\ GeneratedHasTest'
  BY <1>1 DEF qvars, HandlerInStep, SpentSoFar, AskedOnce, GeneratedHasTest
<1>4. CalmStays' /\ CalmTestsAreOfTheText'
  BY <1>1, PdfStepKeeps DEF qvars, CalmStays, CalmTestsAreOfTheText
<1>5. QED BY <1>2, <1>3, <1>4, PdfStepKeeps

(* The steps of the generate request keep the invariant. *)
LEMMA RequestInv ==
  ASSUME IInv, QInv', NEW g \in Generations, RequestStep(g) PROVE IInv'
<1> USE DEF IInv, RequestStep, FindPdf, Enqueue, RequestFails
<1>1. /\ UNCHANGED <<lvars, pc, got, pass, try, spent, tests, running>>
      /\ \A h \in Generations : jobState'[h] = "completed" => jobState[h] = "completed"
  BY DEF qvars, QAdd, TypeOK, QTypeOK, Generations
<1>2. TypeOK'
  BY <1>1 DEF lvars, TypeOK, QInv, Requests
<1>3. HandlerInStep' /\ SpentSoFar' /\ GeneratedHasTest' /\ ReadyIsWhole'
  BY <1>1 DEF lvars, HandlerInStep, SpentSoFar, GeneratedHasTest, ReadyIsWhole
<1>4. AskedOnce'
  BY DEF AskedOnce, TypeOK, QTypeOK, qvars, QAdd, Generations
<1>5. \A h \in calm' \ calm :
        /\ tests[h] = <<>> /\ \A w \in Slots : running[w] # h
        /\ shown[Source[h]] = "ready" /\ Source[h] \in final
  BY QueueAssumption DEF AskedOnce, QInv, RunningWasAdded, Generations
<1>6. CalmStays'
  BY <1>1, <1>5 DEF lvars, CalmStays
<1>7. CalmTestsAreOfTheText'
  BY <1>1, <1>5 DEF lvars, CalmTestsAreOfTheText
<1>8. QED BY <1>2, <1>3, <1>4, <1>6, <1>7

(* The steps of the queue outside the handler keep the invariant. *)
LEMMA RecoveryInv ==
  ASSUME IInv, QInv', NEW g \in Generations, LockExpires(g) \/ StalledCheck(g) \/ Backoff(g)
  PROVE  IInv'
<1> USE DEF IInv
<1>1. /\ UNCHANGED <<lvars, request, pc, got, pass, try, spent, tests, calm, running>>
      /\ \A h \in Generations : /\ jobState'[h] = "completed" => jobState[h] = "completed"
                                /\ jobState'[h] = "none" <=> jobState[h] = "none"
  BY DEF LockExpires, StalledCheck, Backoff, QLockExpires, QStalledCheck, QBackoff, TypeOK,
     QTypeOK, QInv, LockHolderRuns, Generations
<1>2. TypeOK'
  BY <1>1 DEF lvars, TypeOK, QInv
<1>3. HandlerInStep' /\ SpentSoFar' /\ ReadyIsWhole'
  BY <1>1 DEF lvars, HandlerInStep, SpentSoFar, ReadyIsWhole
<1>4. AskedOnce' /\ GeneratedHasTest'
  BY <1>1 DEF AskedOnce, GeneratedHasTest
<1>5. CalmStays' /\ CalmTestsAreOfTheText'
  BY <1>1 DEF lvars, CalmStays, CalmTestsAreOfTheText
<1>6. QED BY <1>2, <1>3, <1>4, <1>5

(* A claim keeps the invariant: the handler has read nothing yet. *)
LEMMA ClaimInv ==
  ASSUME IInv, QInv', NEW w \in Slots, NEW g \in Generations, Claim(w, g) PROVE IInv'
<1> USE DEF IInv, Claim, QClaim
<1>1. TypeOK'
  BY DEF lvars, TypeOK, QInv, Steps
<1>2. HandlerInStep' /\ SpentSoFar'
  BY QueueAssumption DEF HandlerInStep, SpentSoFar, TypeOK, QTypeOK, Generations
<1>3. AskedOnce' /\ GeneratedHasTest' /\ ReadyIsWhole'
  BY DEF AskedOnce, GeneratedHasTest, ReadyIsWhole, TypeOK, QTypeOK, lvars, Generations
<1>4. CalmStays' /\ CalmTestsAreOfTheText'
  BY DEF lvars, CalmStays, CalmTestsAreOfTheText, TypeOK, QTypeOK
<1>5. QED BY <1>1, <1>2, <1>3, <1>4

(* A handler that ends, by itself or with its process, leaves nothing behind *)
(* but its tests.                                                           *)
LEMMA EndInv ==
  ASSUME IInv, QInv', NEW w \in Slots, Return(w) \/ Rethrow(w) \/ Crash(w) PROVE IInv'
<1> USE DEF IInv
<1>1. /\ HandlerEnds(w)
      /\ UNCHANGED <<lvars, request, tests, calm>>
      /\ running' = [running EXCEPT ![w] = NoJob]
  BY DEF Return, Rethrow, Crash, QReturn, QThrow, QCrash
<1>2. TypeOK'
  BY <1>1, PassFacts DEF HandlerEnds, lvars, TypeOK, QInv, Steps, Found
<1>3. HandlerInStep'
  BY <1>1 DEF HandlerEnds, HandlerInStep, TypeOK, QTypeOK
<1>4. SpentSoFar'
  BY <1>1, PassFacts DEF HandlerEnds, SpentSoFar, TypeOK
<1>5. \A h \in Generations :
        /\ jobState'[h] = "none" <=> jobState[h] = "none"
        /\ jobState'[h] = "completed" => jobState[h] = "completed" \/ tests[h] # <<>>
  BY DEF Return, Rethrow, Crash, QReturn, QThrow, QCrash, At, HandlerInStep, TypeOK, QTypeOK,
     QInv, RunningWasAdded, Generations
<1>6. AskedOnce' /\ GeneratedHasTest'
  BY <1>1, <1>5 DEF AskedOnce, GeneratedHasTest
<1>7. ReadyIsWhole' /\ CalmTestsAreOfTheText'
  BY <1>1 DEF lvars, ReadyIsWhole, CalmTestsAreOfTheText
<1>8. CalmStays'
  BY <1>1, QueueAssumption DEF HandlerEnds, lvars, CalmStays, TypeOK, QTypeOK, Generations
<1>9. QED BY <1>2, <1>3, <1>4, <1>6, <1>7, <1>8

(* The steps inside the handler touch neither queue nor PDFs nor requests. *)
Inside(w) ==
  \/ ReadChunks(w) \/ Answered(w) \/ Retried(w) \/ PassFails(w) \/ ParseQuestions(w)
  \/ Repair(w) \/ SaveTest(w) \/ Throw(w)

LEMMA InsideFrame ==
  ASSUME IInv, NEW w \in Slots, Inside(w)
  PROVE  /\ UNCHANGED <<qvars, lvars, request, calm>>
         /\ running[w] \in Generations /\ running[w] # NoJob
         /\ \E s \in Steps \ {"idle"} : pc' = [pc EXCEPT ![w] = s]
<1>1. UNCHANGED <<qvars, lvars, request, calm>> /\ running[w] # NoJob
  BY DEF Inside, ReadChunks, Answered, Retried, PassFails, ParseQuestions, Repair, SaveTest,
     Throw, At
<1>2. running[w] \in Generations
  BY <1>1 DEF IInv, TypeOK, QTypeOK, Generations
<1>3. CASE Retried(w) \/ PassFails(w)
  <2>1. pc[w] = "complete" /\ pc \in [Slots -> Steps]
    BY <1>3 DEF Retried, PassFails, At, IInv, TypeOK
  <2>2. pc' = pc \/ pc' = [pc EXCEPT ![w] = "rethrow"]
    BY <1>3 DEF Retried, PassFails, Goto
  <2>3. pc = [pc EXCEPT ![w] = "complete"]
    BY <2>1
  <2>4. QED BY <1>1, <1>2, <2>2, <2>3 DEF Steps
<1>4. CASE ~(Retried(w) \/ PassFails(w))
  BY <1>1, <1>2, <1>4 DEF Inside, ReadChunks, Answered, ParseQuestions, Repair, SaveTest, Throw,
     Goto, Steps
<1>5. QED BY <1>3, <1>4

(* What the handler reads is one of the texts, and the whole one of a READY  *)
(* PDF that is not void unless it has none.                                 *)
LEMMA ReadFacts ==
  ASSUME IInv, NEW g \in Generations
  PROVE  /\ Source[g] \in Pdfs
         /\ MayFind(Source[g]) \subseteq Found
         /\ shown[Source[g]] = "ready" /\ Source[g] \notin void =>
              MayFind(Source[g]) = {"none", "whole"}
<1>1. Source[g] \in Pdfs
  BY GenerationAssumption
<1>2. text[Source[g]] \in Texts
  BY <1>1 DEF IInv, TypeOK
<1>3. QED
  BY <1>1, <1>2 DEF MayFind, Found, Texts, IInv, ReadyIsWhole

(* What the AI was asked about is a text, and of a whole one the cut is a    *)
(* pass's.                                                                  *)
LEMMA ContextFacts ==
  ASSUME IInv, NEW w \in Slots
  PROVE  /\ Context(w) \in Tests
         /\ got[w] = "whole" =>
              \E k \in Passes : Context(w) = [of |-> "whole", upTo |-> MaxChars[k]]
<1>1. got[w] \in Found /\ pass[w] \in Passes /\ MaxChars[pass[w]] \in Nat
  BY PassFacts DEF IInv, TypeOK
<1>2. QED BY <1>1 DEF Context, Tests

(* They keep the types, *)
LEMMA InsideTypeOK ==
  ASSUME IInv, QInv', NEW w \in Slots, Inside(w) PROVE TypeOK'
<1>1. /\ QTypeOK' /\ UNCHANGED <<lvars, request, calm>> /\ pc' \in [Slots -> Steps]
  BY InsideFrame DEF QInv, IInv, TypeOK
<1>2. got' \in [Slots -> Found]
  <2>1. CASE ReadChunks(w)
    BY <2>1, InsideFrame, ReadFacts DEF ReadChunks, IInv, TypeOK
  <2>2. CASE ~ReadChunks(w)
    BY <2>2 DEF Inside, Answered, Retried, PassFails, ParseQuestions, Repair, SaveTest, Throw,
       IInv, TypeOK
  <2>3. QED BY <2>1, <2>2
<1>3. pass' \in [Slots -> Passes] /\ try' \in [Slots -> Nat]
  <2>1. CASE Answered(w)
    BY <2>1 DEF Answered, IInv, TypeOK
  <2>2. CASE Retried(w)
    BY <2>2 DEF Retried, IInv, TypeOK
  <2>3. CASE PassFails(w)
    <3>1. /\ try' = [try EXCEPT ![w] = 0]
          /\ pass' = pass \/ \E i \in Passes : pass' = [pass EXCEPT ![w] = i]
      BY <2>3 DEF PassFails
    <3>2. QED BY <3>1 DEF IInv, TypeOK
  <2>4. CASE ~(Answered(w) \/ Retried(w) \/ PassFails(w))
    BY <2>4 DEF Inside, ReadChunks, ParseQuestions, Repair, SaveTest, Throw, IInv, TypeOK
  <2>5. QED BY <2>1, <2>2, <2>3, <2>4
<1>4. spent' \in [Slots -> Nat]
  BY DEF Inside, ReadChunks, Answered, Retried, PassFails, ParseQuestions, Repair,
     SaveTest, Throw, Call, IInv, TypeOK
<1>5. tests' \in [Generations -> Seq(Tests)]
  <2>1. CASE SaveTest(w)
    BY <2>1, InsideFrame, ContextFacts DEF SaveTest, IInv, TypeOK
  <2>2. CASE ~SaveTest(w)
    BY <2>2 DEF Inside, ReadChunks, Answered, Retried, PassFails, ParseQuestions, Repair, Throw,
       IInv, TypeOK
  <2>3. QED BY <2>1, <2>2
<1>6. QED BY <1>1, <1>2, <1>3, <1>4, <1>5 DEF IInv, TypeOK, lvars

(* a test is added to those of its request and no other, *)
LEMMA SaveFacts ==
  ASSUME IInv, NEW w \in Slots, SaveTest(w)
  PROVE  /\ pc[w] = "save" /\ tests[running[w]] \in Seq(Tests)
         /\ tests'[running[w]] # <<>>
         /\ \A i \in DOMAIN tests'[running[w]] :
              \/ tests'[running[w]][i] = Context(w)
              \/ i \in DOMAIN tests[running[w]] /\ tests'[running[w]][i] = tests[running[w]][i]
         /\ \A h \in Generations \ {running[w]} : tests'[h] = tests[h]
<1> DEFINE c == Context(w)
<1>1. tests' = [tests EXCEPT ![running[w]] = Append(@, c)] /\ pc[w] = "save"
  BY DEF SaveTest, At
<1>2. running[w] \in Generations /\ tests[running[w]] \in Seq(Tests) /\ c \in Tests
  BY InsideFrame, ContextFacts DEF Inside, IInv, TypeOK
<1> HIDE DEF c
<1>3. tests'[running[w]] = Append(tests[running[w]], c)
  BY <1>1, <1>2 DEF IInv, TypeOK
<1>4. tests'[running[w]] # <<>>
  BY <1>2, <1>3
<1>5. \A i \in DOMAIN tests'[running[w]] :
        \/ tests'[running[w]][i] = c
        \/ i \in DOMAIN tests[running[w]] /\ tests'[running[w]][i] = tests[running[w]][i]
  BY <1>2, <1>3
<1>6. QED BY <1>1, <1>2, <1>4, <1>5 DEF c, IInv, TypeOK

(* and a pass starts with all its retries, *)
LEMMA InsideHandlerInStep ==
  ASSUME IInv, QInv', NEW w \in Slots, Inside(w) PROVE HandlerInStep'
<1> USE DEF IInv
<1>1. \A v \in Slots : running'[v] = NoJob <=> pc'[v] = "idle"
  BY InsideFrame DEF HandlerInStep, qvars, TypeOK
<1>2. \A v \in Slots :
        /\ IF pc'[v] = "complete" THEN try'[v] <= Retries[pass'[v]] ELSE try'[v] = 0
        /\ pc'[v] \in {"idle", "read"} => pass'[v] = 1
  <2> USE DEF HandlerInStep, TypeOK, At, Goto
  <2>1. CASE ReadChunks(w)
    BY <2>1, PassFacts DEF ReadChunks
  <2>2. CASE Answered(w)
    BY <2>2 DEF Answered
  <2>3. CASE Retried(w)
    BY <2>3, PassFacts DEF Retried
  <2>4. CASE PassFails(w)
    <3>1. CASE pass[w] + 1 \in Passes
      <4>1. \E i \in Passes : pass' = [pass EXCEPT ![w] = i] /\ try' = [try EXCEPT ![w] = 0]
        BY <2>4, <3>1 DEF PassFails
      <4>2. pc' = pc /\ pc[w] = "complete"
        BY <2>4, <3>1 DEF PassFails
      <4>3. QED BY <4>1, <4>2, PassFacts
    <3>2. CASE pass[w] + 1 \notin Passes
      BY <2>4, <3>2 DEF PassFails
    <3>3. QED BY <3>1, <3>2
  <2>5. CASE ParseQuestions(w) \/ Repair(w) \/ SaveTest(w) \/ Throw(w)
    BY <2>5 DEF ParseQuestions, Repair, SaveTest, Throw
  <2>6. QED BY <2>1, <2>2, <2>3, <2>4, <2>5 DEF Inside
<1>3. \A v \in Slots : pc'[v] = "return" => tests'[running'[v]] # <<>>
  <2> USE DEF HandlerInStep, TypeOK, At, Goto
  <2>1. CASE SaveTest(w)
    <3>1. UNCHANGED qvars
      BY <2>1, InsideFrame
    <3>2. \A v \in Slots : v # w => pc'[v] = pc[v]
      BY <2>1 DEF SaveTest
    <3>3. \A v \in Slots : pc'[v] = "return" => running[v] \in Generations
      BY <1>1, <3>1 DEF QTypeOK, Generations, qvars
    <3>4. QED BY <2>1, <3>1, <3>2, <3>3, SaveFacts DEF qvars
  <2>2. CASE ~SaveTest(w)
    BY <2>2, InsideFrame DEF Inside, ReadChunks, Answered, Retried, PassFails, ParseQuestions,
       Repair, Throw, qvars
  <2>3. QED BY <2>1, <2>2
<1>4. QED BY <1>1, <1>2, <1>3 DEF HandlerInStep

(* What a slot may have spent, where it stands in pass i after n retries. *)
Spent(step, i, n, k) ==
  /\ k <= CallsPerStart
  /\ step \in {"idle", "read"} => k = 0
  /\ step = "complete" => k + CallsFrom[i] <= CallsFrom[1] + n
  /\ step \in {"parse", "repair"} => k < CallsPerStart

(* Every call the handler makes is one its pass still had. *)
LEMMA InsideSpentSoFar ==
  ASSUME IInv, QInv', NEW w \in Slots, Inside(w) PROVE SpentSoFar'
<1> DEFINE i == pass[w]
           n == try[w]
           k == spent[w]
<1>1. /\ i \in Passes /\ n \in Nat /\ k \in Nat /\ Spent(pc[w], i, n, k)
      /\ IF pc[w] = "complete" THEN n <= Retries[i] ELSE n = 0
      /\ pc[w] = "read" => i = 1
  BY DEF IInv, TypeOK, SpentSoFar, Spent, HandlerInStep
<1>2. Spent(pc'[w], pass'[w], try'[w], spent'[w])
  <2> USE DEF Spent, At, Goto, CallsPerStart
  <2>1. CASE ReadChunks(w)
    <3>1. pc[w] = "read" /\ pc'[w] \in {"rethrow", "complete"} /\ UNCHANGED <<pass, try, spent>>
      BY <2>1 DEF ReadChunks, IInv, TypeOK
    <3>2. QED BY <1>1, <3>1, PassFacts
  <2>2. CASE Answered(w)
    <3>1. pc[w] = "complete" /\ pc'[w] = "parse" /\ spent'[w] = k + 1
      BY <2>2 DEF Answered, Call, IInv, TypeOK
    <3>2. QED BY <1>1, <3>1, PassFacts
  <2>3. CASE Retried(w)
    <3>1. /\ pc[w] = "complete" /\ pc'[w] = "complete" /\ n < Retries[i]
          /\ pass'[w] = i /\ try'[w] = n + 1 /\ spent'[w] = k + 1
      BY <2>3 DEF Retried, Call, IInv, TypeOK
    <3>2. QED BY <1>1, <3>1, PassFacts
  <2>4. CASE PassFails(w)
    <3>1. pc[w] = "complete" /\ spent'[w] = k + 1
      BY <2>4 DEF PassFails, Call, IInv, TypeOK
    <3>2. \/ pc'[w] = "complete" /\ pass'[w] = i + 1 /\ try'[w] = 0
          \/ pc'[w] = "rethrow"
      BY <2>4 DEF PassFails, IInv, TypeOK
    <3>3. QED BY <1>1, <3>1, <3>2, PassFacts
  <2>5. CASE ParseQuestions(w) \/ SaveTest(w) \/ Throw(w)
    <3>1. /\ pc[w] = "parse" \/ pc'[w] \in {"return", "rethrow"}
          /\ pc'[w] \in {"save", "repair", "return", "rethrow"}
          /\ spent' = spent
      BY <2>5 DEF ParseQuestions, SaveTest, Throw, IInv, TypeOK
    <3>2. QED BY <1>1, <3>1
  <2>6. CASE Repair(w)
    <3>1. pc[w] = "repair" /\ pc'[w] \in {"save", "rethrow"} /\ spent'[w] = k + 1
      BY <2>6 DEF Repair, Call, IInv, TypeOK
    <3>2. QED BY <1>1, <3>1, PassFacts
  <2>7. QED BY <2>1, <2>2, <2>3, <2>4, <2>5, <2>6 DEF Inside
<1>3. \A v \in Slots \ {w} :
        /\ pc'[v] = pc[v] /\ pass'[v] = pass[v] /\ try'[v] = try[v] /\ spent'[v] = spent[v]
  BY DEF Inside, ReadChunks, Answered, Retried, PassFails, ParseQuestions, Repair, SaveTest,
     Throw, Goto, Call, IInv, TypeOK
<1>4. QED BY <1>2, <1>3 DEF IInv, SpentSoFar, Spent

(* A handler of a calm request reads the whole text and stores a test of it. *)
LEMMA InsideCalm ==
  ASSUME IInv, QInv', NEW w \in Slots, Inside(w)
  PROVE  CalmStays' /\ CalmTestsAreOfTheText' /\ AskedOnce' /\ GeneratedHasTest'
<1>1. UNCHANGED <<qvars, lvars, request, calm>> /\ running[w] \in Generations
  BY InsideFrame
<1>2. \A v \in Slots \ {w} : pc'[v] = pc[v] /\ got'[v] = got[v]
  BY DEF Inside, ReadChunks, Answered, Retried, PassFails, ParseQuestions, Repair, SaveTest,
     Throw, Goto, IInv, TypeOK
<1>3. ASSUME running[w] \in calm, Source[running[w]] \notin void,
             pc'[w] \in {"complete", "parse", "repair", "save"}
      PROVE  got'[w] = "whole"
  <2>1. CASE ReadChunks(w)
    <3>1. MayFind(Source[running[w]]) = {"none", "whole"}
      BY <1>1, <1>3, ReadFacts DEF IInv, CalmStays
    <3>2. QED BY <1>3, <2>1, <3>1 DEF ReadChunks, Goto, IInv, TypeOK
  <2>2. CASE ~ReadChunks(w)
    <3>1. got' = got /\ pc[w] \in {"complete", "parse", "repair", "save"}
      BY <1>3, <2>2 DEF Inside, Answered, Retried, PassFails, ParseQuestions, Repair, SaveTest,
         Throw, At, Goto, IInv, TypeOK
    <3>2. QED BY <1>1, <1>3, <3>1 DEF IInv, CalmStays
  <2>3. QED BY <2>1, <2>2
<1>4. CalmStays'
  BY <1>1, <1>2, <1>3 DEF qvars, lvars, IInv, CalmStays
<1>5. CASE SaveTest(w)
  <2>1. running[w] \in calm /\ Source[running[w]] \notin void => got[w] = "whole"
    BY <1>1, <1>5, SaveFacts DEF IInv, CalmStays
  <2>2. ASSUME running[w] \in calm, Source[running[w]] \notin void,
               NEW i \in DOMAIN tests'[running[w]]
        PROVE  \E k \in Passes : tests'[running[w]][i] = [of |-> "whole", upTo |-> MaxChars[k]]
    <3>1. CASE tests'[running[w]][i] = Context(w)
      BY <2>1, <2>2, <3>1, ContextFacts
    <3>2. CASE i \in DOMAIN tests[running[w]] /\ tests'[running[w]][i] = tests[running[w]][i]
      BY <2>2, <3>2 DEF IInv, CalmTestsAreOfTheText
    <3>3. QED BY <1>5, <3>1, <3>2, SaveFacts
  <2>3. CalmTestsAreOfTheText'
    <3>1. \A h \in Generations \ {running[w]} : tests'[h] = tests[h]
      BY <1>5, SaveFacts
    <3>2. calm' = calm /\ void' = void /\ calm \subseteq Generations
      BY <1>1 DEF lvars, IInv, TypeOK
    <3>3. QED BY <2>2, <3>1, <3>2 DEF IInv, CalmTestsAreOfTheText
  <2>4. jobState[running[w]] # "none"
    BY InsideFrame DEF IInv, QInv, RunningWasAdded
  <2>5. AskedOnce' /\ GeneratedHasTest'
    BY <1>1, <1>5, <2>4, SaveFacts DEF qvars, IInv, AskedOnce, GeneratedHasTest
  <2>6. QED BY <1>4, <2>3, <2>5
<1>6. CASE ~SaveTest(w)
  <2>1. UNCHANGED tests
    BY <1>6 DEF Inside, ReadChunks, Answered, Retried, PassFails, ParseQuestions, Repair, Throw
  <2>2. QED
    BY <1>1, <1>4, <2>1 DEF qvars, lvars, IInv, AskedOnce, GeneratedHasTest,
       CalmTestsAreOfTheText
<1>7. QED BY <1>5, <1>6

(* The steps of the handler keep the invariant. *)
LEMMA HandlerInv ==
  ASSUME IInv, QInv', NEW w \in Slots, HandlerStep(w) PROVE IInv'
<1>1. CASE Return(w) \/ Rethrow(w)
  BY <1>1, EndInv
<1>2. CASE Inside(w)
  <2>1. ReadyIsWhole'
    BY <1>2, InsideFrame DEF lvars, IInv, ReadyIsWhole
  <2>2. QED
    BY <1>2, <2>1, InsideTypeOK, InsideHandlerInStep, InsideSpentSoFar, InsideCalm DEF IInv
<1>3. QED BY <1>1, <1>2 DEF HandlerStep, Inside

LEMMA NextInv == IInv /\ [Next]_vars => IInv'
<1> SUFFICES ASSUME IInv, [Next]_vars PROVE IInv'
  OBVIOUS
<1>1. QInv'
  BY QueueStep, QNextInv DEF IInv
<1>2. CASE PdfStep
  BY <1>1, <1>2, PdfStepInv
<1>3. ASSUME NEW g \in Generations,
             RequestStep(g) \/ LockExpires(g) \/ StalledCheck(g) \/ Backoff(g)
      PROVE  IInv'
  BY <1>1, <1>3, RequestInv, RecoveryInv
<1>4. ASSUME NEW w \in Slots, HandlerStep(w) \/ Crash(w) PROVE IInv'
  BY <1>1, <1>4, HandlerInv, EndInv
<1>5. ASSUME NEW w \in Slots, NEW g \in Generations, Claim(w, g) PROVE IInv'
  BY <1>1, <1>5, ClaimInv
<1>6. CASE UNCHANGED vars
  BY <1>6, <1>1 DEF vars, qvars, lvars, IInv, TypeOK, QInv, HandlerInStep, SpentSoFar, AskedOnce,
     ReadyIsWhole, CalmStays, CalmTestsAreOfTheText, GeneratedHasTest
<1>7. QED BY <1>2, <1>3, <1>4, <1>5, <1>6 DEF Next

-----------------------------------------------------------------------------
(* The inductive invariant holds in every reachable state of the generation, *)
(* whatever the PDF pipeline does meanwhile.                                *)
THEOREM Safety == Spec => []IInv
<1>1. QED BY InitInv, NextInv, PTL DEF Spec

(* One request causes a bounded number of calls to the AI provider: at most *)
(* CallsPerStart in a start of the handler, at most MaxAttempts plus        *)
(* MaxStalled starts.                                                       *)
THEOREM CallsAreBounded == Spec => []CallsBounded
<1>1. IInv => CallsBounded
  BY RunBudgetHolds DEF IInv, SpentSoFar, CallsBounded
<1>2. QED BY <1>1, Safety, PTL

(* A test of a request made in calm is about the leading characters of the   *)
(* PDF's own text, as many as one of the passes takes.                      *)
THEOREM CalmTestsKeepToTheText == Spec => []CalmTestsAreOfTheText
<1>1. QED BY Safety, PTL DEF IInv

(* An acknowledged generation has stored a test. *)
THEOREM AcknowledgedHasTest == Spec => []GeneratedHasTest
<1>1. QED BY Safety, PTL DEF IInv

-----------------------------------------------------------------------------
(* The handlers of a request that may still store a test. *)
Undone(g) ==
  {w \in Slots : running[w] = g /\ pc[w] \in {"read", "complete", "parse", "repair", "save"}}

(* Every start of the job has stored a test, may still store one, or        *)
(* neither: no start stores two.                                            *)
StoresOnce ==
  \A g \in Generations : Len(tests[g]) + Cardinality(Undone(g)) <= attemptsStarted[g]

(* A set of handlers is finite, as the slots are. *)
LEMMA UndoneFinite == \A g : IsFiniteSet(Undone(g)) /\ Cardinality(Undone(g)) \in Nat
<1>1. \A g : Undone(g) \subseteq Slots
  BY DEF Undone
<1>2. QED
  BY <1>1, SlotsAssumption, FS_Subset, FS_CardinalityType

(* At the start nothing is stored and nothing runs. *)
LEMMA StoresOnceInit == ASSUME Init PROVE StoresOnce
<1>1. \A g : Undone(g) = {}
  BY DEF Init, Undone
<1>2. \A g \in Generations : tests[g] = <<>> /\ attemptsStarted[g] = 0
  BY DEF Init, QInit, Generations
<1>3. QED
  BY <1>1, <1>2, FS_EmptySet DEF StoresOnce

(* A step that stores nothing and starts no handler keeps the count. *)
LEMMA StoresOnceStill ==
  ASSUME IInv, StoresOnce, UNCHANGED <<tests, attemptsStarted>>,
         \A g \in Generations : Undone(g)' \subseteq Undone(g)
  PROVE  StoresOnce'
<1>1. SUFFICES ASSUME NEW g \in Generations
               PROVE  Len(tests[g]) + Cardinality(Undone(g)') <= attemptsStarted[g]
  BY DEF StoresOnce
<1>2. Cardinality(Undone(g)') \in Nat /\ Cardinality(Undone(g)') <= Cardinality(Undone(g))
  BY UndoneFinite, FS_Subset, FS_CardinalityType
<1>3. Len(tests[g]) \in Nat /\ attemptsStarted[g] \in Nat /\ Cardinality(Undone(g)) \in Nat
  BY UndoneFinite DEF IInv, TypeOK, QTypeOK, Generations
<1>4. QED
  BY <1>2, <1>3 DEF StoresOnce

(* Every step keeps the count: a claim adds a start and a handler, a stored *)
(* test takes its handler out of the count. *)
LEMMA StoresOnceNext == ASSUME IInv, StoresOnce, [Next]_vars PROVE StoresOnce'
<1>1. ASSUME NEW w \in Slots, NEW g \in Generations, Claim(w, g) PROVE StoresOnce'
  <2>1. /\ running[w] = NoJob /\ running' = [running EXCEPT ![w] = g]
        /\ attemptsStarted' = [attemptsStarted EXCEPT ![g] = @ + 1]
        /\ pc' = [pc EXCEPT ![w] = "read"] /\ UNCHANGED tests
    BY <1>1 DEF Claim, QClaim
  <2>2. g # NoJob
    BY QueueAssumption DEF Generations
  <2>3. w \notin Undone(g) /\ Undone(g)' = Undone(g) \cup {w}
    BY <2>1, <2>2 DEF Undone, IInv, TypeOK, QTypeOK
  <2>4. Cardinality(Undone(g)') = Cardinality(Undone(g)) + 1
    BY <2>3, UndoneFinite, FS_AddElement
  <2>5. \A h \in Generations : h # g => Undone(h)' = Undone(h)
    <3>1. \A v \in Slots : v # w => running'[v] = running[v] /\ pc'[v] = pc[v]
      BY <2>1
    <3>2. running'[w] = g
      BY <2>1 DEF IInv, TypeOK, QTypeOK
    <3>3. \A h \in Generations : h # NoJob
      BY QueueAssumption DEF Generations
    <3>4. QED BY <2>1, <3>1, <3>2, <3>3 DEF Undone
  <2>6. ASSUME NEW h \in Generations
        PROVE  Len(tests[h]) + Cardinality(Undone(h)') <= attemptsStarted'[h]
    <3>1. Len(tests[h]) \in Nat /\ attemptsStarted[h] \in Nat /\ Cardinality(Undone(h)) \in Nat
      BY UndoneFinite DEF IInv, TypeOK, QTypeOK, Generations
    <3>2. Len(tests[h]) + Cardinality(Undone(h)) <= attemptsStarted[h]
      BY DEF StoresOnce
    <3>3. attemptsStarted'[h] = IF h = g THEN attemptsStarted[h] + 1 ELSE attemptsStarted[h]
      BY <2>1 DEF IInv, TypeOK, QTypeOK, Generations
    <3>4. CASE h = g
      BY <2>4, <3>1, <3>2, <3>3, <3>4
    <3>5. CASE h # g
      BY <2>5, <3>1, <3>2, <3>3, <3>5
    <3>6. QED BY <3>4, <3>5
  <2>7. QED BY <2>1, <2>6 DEF StoresOnce
<1>2. ASSUME NEW w \in Slots, SaveTest(w) PROVE StoresOnce'
  <2>1. PICK g \in Generations : running[w] = g
    BY <1>2 DEF SaveTest, At, IInv, TypeOK, QTypeOK, Generations
  <2>2. /\ pc[w] = "save" /\ UNCHANGED <<running, attemptsStarted>>
        /\ tests' = [tests EXCEPT ![g] = Append(@, Context(w))]
        /\ \E step \in {"return", "rethrow"} : pc' = [pc EXCEPT ![w] = step]
    BY <1>2, <2>1 DEF SaveTest, At, Goto, qvars
  <2>3. w \in Undone(g) /\ Undone(g)' = Undone(g) \ {w}
    BY <2>1, <2>2 DEF Undone, IInv, TypeOK
  <2>4. Cardinality(Undone(g)') = Cardinality(Undone(g)) - 1
    BY <2>3, UndoneFinite, FS_RemoveElement
  <2>5. \A h \in Generations : h # g => Undone(h)' = Undone(h)
    BY <2>1, <2>2 DEF Undone, IInv, TypeOK
  <2>6. Len(tests'[g]) = Len(tests[g]) + 1
    <3>1. tests[g] \in Seq(Tests) /\ Context(w) \in Tests
      BY ContextFacts DEF IInv, TypeOK
    <3>2. tests'[g] = Append(tests[g], Context(w))
      BY <2>2 DEF IInv, TypeOK
    <3>3. QED BY <3>1, <3>2
  <2>7. Len(tests'[g]) + Cardinality(Undone(g)') <= attemptsStarted[g]
    <3>1. Len(tests[g]) \in Nat /\ attemptsStarted[g] \in Nat /\ Cardinality(Undone(g)) \in Nat
      BY UndoneFinite DEF IInv, TypeOK, QTypeOK, Generations
    <3>2. Len(tests[g]) + Cardinality(Undone(g)) <= attemptsStarted[g]
      BY DEF StoresOnce
    <3>3. QED BY <2>4, <2>6, <3>1, <3>2
  <2>8. \A h \in Generations : h # g =>
          Len(tests'[h]) + Cardinality(Undone(h)') <= attemptsStarted[h]
    <3>1. \A h \in Generations : h # g => tests'[h] = tests[h]
      BY <2>2 DEF IInv, TypeOK
    <3>2. QED BY <2>5, <3>1 DEF StoresOnce
  <2>9. \A h \in Generations : Len(tests'[h]) + Cardinality(Undone(h)') <= attemptsStarted'[h]
    BY <2>2, <2>7, <2>8
  <2>10. QED BY <2>9 DEF StoresOnce
<1>3. ASSUME \/ PdfStep
             \/ \E g \in Generations :
                  RequestStep(g) \/ LockExpires(g) \/ StalledCheck(g) \/ Backoff(g)
      PROVE StoresOnce'
  <2>1. UNCHANGED <<tests, attemptsStarted, running, pc>>
    BY <1>3 DEF PdfStep, RequestStep, FindPdf, Enqueue, RequestFails, LockExpires,
       StalledCheck, Backoff, qvars, QAdd, QLockExpires, QStalledCheck, QBackoff
  <2>2. QED BY <2>1, StoresOnceStill DEF Undone
<1>4. ASSUME NEW w \in Slots, Inside(w), ~SaveTest(w) PROVE StoresOnce'
  <2>1. UNCHANGED <<tests, attemptsStarted, running>>
    BY <1>4 DEF Inside, ReadChunks, Answered, Retried, PassFails, ParseQuestions, Repair, Throw,
       qvars
  <2>2. pc[w] \in {"read", "complete", "parse", "repair", "save"}
    BY <1>4 DEF Inside, ReadChunks, Answered, Retried, PassFails, ParseQuestions, Repair, Throw,
       At
  <2>3. \E s \in Steps : pc' = [pc EXCEPT ![w] = s]
    BY <1>4, InsideFrame
  <2>4. \A h \in Generations : Undone(h)' \subseteq Undone(h)
    BY <2>1, <2>2, <2>3 DEF Undone, IInv, TypeOK
  <2>5. QED BY <2>1, <2>4, StoresOnceStill
<1>5. ASSUME NEW w \in Slots, Return(w) \/ Rethrow(w) \/ Crash(w) PROVE StoresOnce'
  <2>1. /\ UNCHANGED <<tests, attemptsStarted>>
        /\ running' = [running EXCEPT ![w] = NoJob] /\ pc' = [pc EXCEPT ![w] = "idle"]
    BY <1>5 DEF Return, Rethrow, Crash, QReturn, QThrow, QCrash, HandlerEnds
  <2>2. \A h \in Generations : Undone(h)' \subseteq Undone(h)
    BY <2>1, QueueAssumption DEF Undone, IInv, TypeOK, QTypeOK, Generations
  <2>3. QED BY <2>1, <2>2, StoresOnceStill
<1>6. CASE UNCHANGED vars
  <2>1. UNCHANGED <<tests, attemptsStarted, running, pc>>
    BY <1>6 DEF vars, qvars
  <2>2. QED BY <2>1, StoresOnceStill DEF Undone
<1>7. QED
  BY <1>1, <1>2, <1>3, <1>4, <1>5, <1>6 DEF Next, HandlerStep, Inside

(* One request stores no more tests than its job has starts: a retry, a      *)
(* stall or a zombie costs a start before it can store another.             *)
THEOREM TestsAreBounded == Spec => []TestsBounded
<1>1. Init => IInv /\ StoresOnce
  BY InitInv, StoresOnceInit
<1>2. IInv /\ StoresOnce /\ [Next]_vars => (IInv /\ StoresOnce)'
  BY NextInv, StoresOnceNext
<1>3. ASSUME IInv, StoresOnce PROVE TestsBounded
  <2>1. ASSUME NEW g \in Generations PROVE Len(tests[g]) <= attemptsStarted[g]
    <3>1. Len(tests[g]) + Cardinality(Undone(g)) <= attemptsStarted[g]
      BY <1>3 DEF StoresOnce
    <3>2. Len(tests[g]) \in Nat /\ attemptsStarted[g] \in Nat /\ Cardinality(Undone(g)) \in Nat
      BY <1>3, UndoneFinite DEF IInv, TypeOK, QTypeOK, Generations
    <3>3. QED BY <3>1, <3>2
  <2>2. QED BY <2>1 DEF TestsBounded
<1>4. IInv /\ StoresOnce => TestsBounded
  BY <1>3
<1>5. QED BY <1>1, <1>2, <1>4, PTL DEF Spec

-----------------------------------------------------------------------------
(* A generation job is given up only after all its attempts, or after more  *)
(* stalls than BullMQ forgives.                                             *)
THEOREM FailureIsExhausted == Spec => []FailedIsExhausted
<1>1. Init => FailedIsExhausted
  BY ExhaustedInit DEF Init
<1>2. IInv /\ FailedIsExhausted /\ [Next]_vars => FailedIsExhausted'
  BY QueueStep, ExhaustedNext DEF IInv
<1>3. QED BY <1>1, <1>2, Safety, PTL DEF Spec

(* What becomes of the tests of a request at rest: they stay, and it stays  *)
(* at rest.                                                                 *)
RestIsFinal == \A g \in Generations : AtRest(g) => AtRest(g)' /\ tests'[g] = tests[g]

(* Only a handler of the request stores a test of it. *)
LEMMA OwnTests ==
  ASSUME IInv, [Next]_vars, NEW g \in Generations, \A w \in Slots : running[w] # g
  PROVE  tests'[g] = tests[g]
<1>1. CASE PdfStep
  BY <1>1 DEF PdfStep
<1>2. ASSUME NEW h \in Generations,
             RequestStep(h) \/ LockExpires(h) \/ StalledCheck(h) \/ Backoff(h)
      PROVE  UNCHANGED tests
  BY <1>2 DEF RequestStep, FindPdf, Enqueue, RequestFails, LockExpires, StalledCheck, Backoff
<1>3. ASSUME NEW w \in Slots, SaveTest(w) PROVE tests'[g] = tests[g]
  BY <1>3 DEF SaveTest, IInv, TypeOK
<1>4. ASSUME NEW w \in Slots, HandlerStep(w), ~SaveTest(w) PROVE UNCHANGED tests
  BY <1>4 DEF HandlerStep, ReadChunks, Answered, Retried, PassFails, ParseQuestions, Repair,
     Return, Throw, Rethrow
<1>5. ASSUME NEW w \in Slots, Crash(w) PROVE UNCHANGED tests
  BY <1>5 DEF Crash
<1>6. ASSUME NEW w \in Slots, NEW h \in Generations, Claim(w, h) PROVE UNCHANGED tests
  BY <1>6 DEF Claim
<1>7. CASE UNCHANGED vars
  BY <1>7 DEF vars
<1>8. QED BY <1>1, <1>2, <1>3, <1>4, <1>5, <1>6, <1>7 DEF Next

(* A request at rest stores no more tests: no late retry, redelivery or     *)
(* handler that was cut off comes after it.                                 *)
THEOREM TestsAreFinal == Spec => [][RestIsFinal]_vars
<1>1. IInv /\ [Next]_vars => RestIsFinal
  <2> SUFFICES ASSUME IInv, [Next]_vars, NEW g \in Generations, AtRest(g)
               PROVE  AtRest(g)' /\ tests'[g] = tests[g]
    BY DEF RestIsFinal
  <2>1. AtRest(g)'
    BY QueueStep, RestStays DEF IInv, Generations
  <2>2. \A w \in Slots : running[w] # g
    BY DEF AtRest, Handlers
  <2>3. QED BY <2>1, <2>2, OwnTests
<1>2. QED BY <1>1, Safety, PTL DEF Spec
=============================================================================
