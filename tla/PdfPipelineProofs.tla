-------------------------- MODULE PdfPipelineProofs --------------------------
(***************************************************************************)
(* Proofs about PdfPipeline, for any number of PDFs, slots, attempts,       *)
(* forgiven stalls and chunks per text.                                     *)
(***************************************************************************)
EXTENDS PdfPipeline, JobQueueProofs

(* Upload, worker and recovery use the queue through its actions only. *)
LEMMA QueueStep == [Next]_vars => [QNext]_qvars
<1> SUFFICES ASSUME [Next]_vars PROVE [QNext]_qvars
  OBVIOUS
<1> USE DEF QNext
<1>1. ASSUME NEW p \in Pdfs, RequestStep(p) PROVE [QNext]_qvars
  BY <1>1 DEF RequestStep, UploadFile, CreateRecord, Enqueue, RequestFails, Pdfs
<1>2. ASSUME NEW p \in Pdfs, LockExpires(p) \/ StalledCheck(p) \/ Backoff(p)
      PROVE [QNext]_qvars
  BY <1>2 DEF LockExpires, StalledCheck, Backoff, Pdfs
<1>3. ASSUME NEW w \in Slots, HandlerStep(w) PROVE [QNext]_qvars
  <2>1. CASE Return(w) \/ Rethrow(w)
    BY <2>1 DEF Return, Rethrow
  <2>2. CASE ~(Return(w) \/ Rethrow(w))
    BY <1>3, <2>2 DEF HandlerStep, FindRecord, MarkProcessing, FetchAndParse, downloadBuffer, DeleteChunks,
       InsertChunk, MarkReady, Throw, MarkFailed
  <2>3. QED BY <2>1, <2>2
<1>4. ASSUME NEW w \in Slots, Crash(w) PROVE [QNext]_qvars
  BY <1>4 DEF Crash
<1>5. ASSUME NEW w \in Slots, NEW p \in Pdfs, Claim(w, p) PROVE [QNext]_qvars
  BY <1>5 DEF Claim, Pdfs
<1>6. CASE UNCHANGED vars
  BY <1>6 DEF vars, qvars
<1>7. QED
  BY <1>1, <1>2, <1>3, <1>4, <1>5, <1>6 DEF Next

(* The initial state satisfies the inductive invariant. *)
LEMMA InitInv == Init => IInv
<1> SUFFICES ASSUME Init PROVE IInv
  OBVIOUS
<1>1. QInv
  BY QInitInv DEF Init
<1>2. TypeOK
  BY <1>1, QueueAssumption, NumChunksAssumption
  DEF Init, TypeOK, QInv, Statuses, Requests, Steps
<1>3. /\ RequestOrder /\ QueuedIsStored /\ HandlerInStep /\ SoleHandler
      /\ Progress /\ ReadyIsExact /\ CompletedIsReady
  BY QueueAssumption DEF Init, QInit, RequestOrder, QueuedIsStored, HandlerInStep,
     SoleHandler, Progress, ReadyIsExact, CompletedIsReady, Pdfs
<1>4. QED BY <1>1, <1>2, <1>3 DEF IInv

(* Two slots that run a PDF that is not overrun are one slot. *)
LEMMA OneHandler ==
  ASSUME SoleHandler, NEW v \in Slots, NEW w \in Slots,
         running[v] = running[w], running[w] # NoJob, running[w] \notin overrun
  PROVE  v = w
  BY DEF SoleHandler

(* The steps of the upload request keep the invariant. *)
LEMMA RequestInv ==
  ASSUME IInv, QInv', NEW p \in Pdfs, RequestStep(p) PROVE IInv'
<1> USE DEF IInv
<1>1. TypeOK'
  BY DEF QInv, TypeOK, RequestStep, UploadFile, CreateRecord, Enqueue, RequestFails, docs,
     Requests, Statuses, Pdfs
<1>2. CASE UploadFile(p)
  BY <1>1, <1>2 DEF UploadFile, qvars, TypeOK, RequestOrder, QueuedIsStored, HandlerInStep,
     SoleHandler, Progress, ReadyIsExact, CompletedIsReady, Exact, Pdfs
<1>3. CASE CreateRecord(p)
  BY <1>1, <1>3 DEF CreateRecord, qvars, TypeOK, RequestOrder, QueuedIsStored, HandlerInStep,
     SoleHandler, Progress, ReadyIsExact, CompletedIsReady, Exact, QInv, RunningWasAdded, Pdfs
<1>4. CASE Enqueue(p)
  BY <1>1, <1>4 DEF Enqueue, QAdd, docs, TypeOK, QInv, QTypeOK, JobStates, RequestOrder,
     QueuedIsStored, HandlerInStep, SoleHandler, Progress, ReadyIsExact, CompletedIsReady, Exact,
     Pdfs
<1>5. CASE RequestFails(p)
  BY <1>1, <1>5 DEF RequestFails, qvars, docs, TypeOK, RequestOrder, QueuedIsStored,
     HandlerInStep, SoleHandler, Progress, ReadyIsExact, CompletedIsReady, Exact, Pdfs
<1>6. QED
  BY <1>2, <1>3, <1>4, <1>5 DEF RequestStep

(* The steps of the queue around the handler keep the invariant. *)
LEMMA RecoveryInv ==
  ASSUME IInv, QInv', NEW p \in Pdfs, LockExpires(p) \/ StalledCheck(p) \/ Backoff(p)
  PROVE  IInv'
<1> USE DEF IInv
<1>1. TypeOK'
  BY DEF QInv, TypeOK, LockExpires, StalledCheck, Backoff, docs, Pdfs
<1>2. CASE LockExpires(p)
  BY <1>1, <1>2 DEF LockExpires, QLockExpires, docs, TypeOK, QTypeOK, RequestOrder,
     QueuedIsStored, HandlerInStep, SoleHandler, Progress, ReadyIsExact, CompletedIsReady, Exact,
     Pdfs
<1>3. CASE StalledCheck(p)
  BY <1>1, <1>3 DEF StalledCheck, QStalledCheck, docs, TypeOK, QTypeOK, RequestOrder,
     QueuedIsStored, HandlerInStep, SoleHandler, Progress, ReadyIsExact, CompletedIsReady, Exact,
     Pdfs
<1>4. CASE Backoff(p)
  BY <1>1, <1>4 DEF Backoff, QBackoff, docs, TypeOK, QTypeOK, RequestOrder, QueuedIsStored,
     HandlerInStep, SoleHandler, Progress, ReadyIsExact, CompletedIsReady, Exact, Pdfs
<1>5. QED
  BY <1>2, <1>3, <1>4

(* A claim keeps the invariant: the slot starts the handler from its top,   *)
(* and no other slot still runs a PDF that is not overrun.                  *)
LEMMA ClaimInv ==
  ASSUME IInv, QInv', NEW w \in Slots, NEW p \in Pdfs, Claim(w, p) PROVE IInv'
<1> USE DEF IInv
<1>1. TypeOK'
  BY DEF QInv, TypeOK, Claim, docs, Steps, Pdfs
<1>2. \A v \in Slots : running[v] = p => p \in overrun
  BY QueueAssumption DEF Claim, QClaim, SoleHandler, QInv, LockHolderRuns, Pdfs
<1>3. QED
  BY <1>1, <1>2, QueueAssumption DEF Claim, QClaim, docs, TypeOK, QTypeOK, RequestOrder,
     QueuedIsStored, HandlerInStep, SoleHandler, Progress, ReadyIsExact, CompletedIsReady, Exact,
     Pdfs

(* A crash keeps the invariant. *)
LEMMA CrashInv ==
  ASSUME IInv, QInv', NEW w \in Slots, Crash(w) PROVE IInv'
<1> USE DEF IInv
<1>1. TypeOK'
  BY DEF QInv, TypeOK, Crash, Goto, docs, Steps, Pdfs
<1>2. QED
  BY <1>1, QueueAssumption DEF Crash, Goto, QCrash, docs, TypeOK, QTypeOK, RequestOrder,
     QueuedIsStored, HandlerInStep, SoleHandler, Progress, ReadyIsExact, CompletedIsReady, Exact,
     Pdfs

(* The steps of the handler keep the invariant. *)
LEMMA HandlerInv ==
  ASSUME IInv, QInv', NEW w \in Slots, HandlerStep(w) PROVE IInv'
<1> DEFINE p == running[w]
<1> USE DEF IInv
<1>1. /\ p \in Pdfs /\ jobState[p] # "none" /\ status[p] # "none" /\ p \in blobs
      /\ request[p] \notin {"new", "stored", "recorded"}
      /\ NumChunks[p] \in Nat /\ p # NoJob
  BY NumChunksAssumption DEF HandlerStep, FindRecord, MarkProcessing, FetchAndParse, downloadBuffer,
     DeleteChunks, InsertChunk, MarkReady, Throw, MarkFailed, At, Return, Rethrow,
     QReturn, QThrow, TypeOK, QTypeOK, QInv, RunningWasAdded, QueuedIsStored, RequestOrder, Pdfs
<1>2. \A v \in Slots : running[v] = p /\ p \notin overrun => v = w
  BY <1>1, OneHandler
<1>3. p \notin overrun => ~Settled(p)
  BY <1>1, QueueAssumption DEF SoleHandler, QInv, LockHolderRuns, Settled, Pdfs
<1>. USE NumChunksAssumption DEF Pdfs
<1>4. CASE FindRecord(w)
  <2>1. TypeOK'
    BY <1>1, <1>4 DEF FindRecord, At, Goto, qvars, docs, Steps, Statuses, TypeOK, QTypeOK, QInv
  <2>2. RequestOrder' /\ QueuedIsStored'
    BY <1>1, <1>4, QueueAssumption DEF FindRecord, At, Goto, qvars, docs, HasLock, TypeOK,
       QTypeOK, RequestOrder, QueuedIsStored
  <2>3. HandlerInStep' /\ SoleHandler'
    BY <1>1, <1>2, <1>4, QueueAssumption DEF FindRecord, At, Goto, qvars, docs, HasLock,
       TypeOK, QTypeOK, HandlerInStep, SoleHandler
  <2>4. Progress'
    BY <1>1, <1>2, <1>4 DEF FindRecord, At, Goto, qvars, docs, TypeOK, QTypeOK,
       HandlerInStep, Progress, Exact
  <2>5. ReadyIsExact' /\ CompletedIsReady'
    BY <1>1, <1>2, <1>3, <1>4 DEF FindRecord, At, Goto, qvars, docs, HasLock, TypeOK,
       QTypeOK, SoleHandler, Progress, ReadyIsExact,
       CompletedIsReady, Exact, Settled
  <2>6. QED BY <2>1, <2>2, <2>3, <2>4, <2>5
<1>5. CASE MarkProcessing(w)
  <2>1. TypeOK'
    BY <1>1, <1>5 DEF MarkProcessing, At, Goto, qvars, Steps, Statuses, TypeOK, QTypeOK, QInv
  <2>2. RequestOrder' /\ QueuedIsStored'
    BY <1>1, <1>5, QueueAssumption DEF MarkProcessing, At, Goto, qvars, HasLock, TypeOK,
       QTypeOK, RequestOrder, QueuedIsStored
  <2>3. HandlerInStep' /\ SoleHandler'
    BY <1>1, <1>2, <1>5, QueueAssumption DEF MarkProcessing, At, Goto, qvars, HasLock,
       TypeOK, QTypeOK, HandlerInStep, SoleHandler
  <2>4. Progress'
    BY <1>1, <1>2, <1>5 DEF MarkProcessing, At, Goto, qvars, TypeOK, QTypeOK,
       HandlerInStep, Progress, Exact
  <2>5. ReadyIsExact' /\ CompletedIsReady'
    BY <1>1, <1>2, <1>3, <1>5 DEF MarkProcessing, At, Goto, qvars, HasLock, TypeOK,
       QTypeOK, SoleHandler, Progress, ReadyIsExact,
       CompletedIsReady, Exact, Settled
  <2>6. QED BY <2>1, <2>2, <2>3, <2>4, <2>5
<1>6. CASE FetchAndParse(w)
  <2>1. TypeOK'
    BY <1>1, <1>6 DEF FetchAndParse, downloadBuffer, At, Goto, qvars, docs, Steps, Statuses, TypeOK,
       QTypeOK, QInv
  <2>2. RequestOrder' /\ QueuedIsStored'
    BY <1>1, <1>6, QueueAssumption DEF FetchAndParse, downloadBuffer, At, Goto, qvars, docs, HasLock,
       TypeOK, QTypeOK, RequestOrder, QueuedIsStored
  <2>3. HandlerInStep' /\ SoleHandler'
    BY <1>1, <1>2, <1>6, QueueAssumption DEF FetchAndParse, downloadBuffer, At, Goto, qvars, docs,
       HasLock, TypeOK, QTypeOK, HandlerInStep, SoleHandler
  <2>4. Progress'
    BY <1>1, <1>2, <1>6 DEF FetchAndParse, downloadBuffer, At, Goto, qvars, docs, TypeOK, QTypeOK,
       HandlerInStep, Progress, Exact
  <2>5. ReadyIsExact' /\ CompletedIsReady'
    BY <1>1, <1>2, <1>3, <1>6 DEF FetchAndParse, downloadBuffer, At, Goto, qvars, docs, HasLock, TypeOK,
       QTypeOK, SoleHandler, Progress, ReadyIsExact,
       CompletedIsReady, Exact, Settled
  <2>6. QED BY <2>1, <2>2, <2>3, <2>4, <2>5
<1>7. CASE DeleteChunks(w)
  <2>1. TypeOK'
    BY <1>1, <1>7 DEF DeleteChunks, At, Goto, qvars, Steps, Statuses, TypeOK, QTypeOK, QInv
  <2>2. RequestOrder' /\ QueuedIsStored'
    BY <1>1, <1>7, QueueAssumption DEF DeleteChunks, At, Goto, qvars, HasLock, TypeOK,
       QTypeOK, RequestOrder, QueuedIsStored
  <2>3. HandlerInStep' /\ SoleHandler'
    BY <1>1, <1>2, <1>7, QueueAssumption DEF DeleteChunks, At, Goto, qvars, HasLock,
       TypeOK, QTypeOK, HandlerInStep, SoleHandler
  <2>4. Progress'
    BY <1>1, <1>2, <1>7 DEF DeleteChunks, At, Goto, qvars, TypeOK, QTypeOK, HandlerInStep,
       Progress, Exact
  <2>5. ReadyIsExact' /\ CompletedIsReady'
    BY <1>1, <1>2, <1>3, <1>7 DEF DeleteChunks, At, Goto, qvars, HasLock, TypeOK, QTypeOK,
       SoleHandler, Progress, ReadyIsExact,
       CompletedIsReady, Exact, Settled
  <2>6. QED BY <2>1, <2>2, <2>3, <2>4, <2>5
<1>8. CASE InsertChunk(w)
  <2>1. TypeOK'
    <3>1. /\ UNCHANGED <<qvars, request, blobs, status, counted, overrun>>
          /\ \E step \in Steps : pc' = [pc EXCEPT ![w] = step]
          /\ stored' = [stored EXCEPT ![w] = @ + 1]
          /\ chunks' = [chunks EXCEPT ![p][stored[w] + 1] = @ + 1]
      BY <1>1, <1>8 DEF InsertChunk, Goto, Steps
    <3>2. chunks[p] \in [1..NumChunks[p] -> Nat] /\ stored[w] + 1 \in 1..NumChunks[p]
      BY <1>1, <1>8 DEF InsertChunk, At, HandlerInStep, TypeOK, QTypeOK
    <3>3. DOMAIN chunks' = Pdfs /\ \A q \in Pdfs : chunks'[q] \in [1..NumChunks[q] -> Nat]
      BY <1>1, <3>1, <3>2 DEF TypeOK
    <3>4. QED BY <3>1, <3>3 DEF qvars, TypeOK, QTypeOK
  <2>2. RequestOrder' /\ QueuedIsStored'
    BY <1>1, <1>8, QueueAssumption DEF InsertChunk, At, Goto, qvars, HasLock, TypeOK,
       QTypeOK, RequestOrder, QueuedIsStored
  <2>3. HandlerInStep' /\ SoleHandler'
    BY <1>1, <1>2, <1>8, QueueAssumption DEF InsertChunk, At, Goto, qvars, HasLock,
       TypeOK, QTypeOK, HandlerInStep, SoleHandler
  <2>4. Progress'
    BY <1>1, <1>2, <1>8 DEF InsertChunk, At, Goto, qvars, TypeOK, QTypeOK, HandlerInStep,
       Progress, Exact
  <2>5. ReadyIsExact' /\ CompletedIsReady'
    BY <1>1, <1>2, <1>3, <1>8 DEF InsertChunk, At, Goto, qvars, HasLock, TypeOK, QTypeOK,
       SoleHandler, Progress, ReadyIsExact,
       CompletedIsReady, Exact, Settled
  <2>6. QED BY <2>1, <2>2, <2>3, <2>4, <2>5
<1>9. CASE MarkReady(w)
  <2>1. TypeOK'
    BY <1>1, <1>9 DEF MarkReady, At, Goto, qvars, Steps, Statuses, TypeOK, QTypeOK, QInv
  <2>2. RequestOrder' /\ QueuedIsStored'
    BY <1>1, <1>9, QueueAssumption DEF MarkReady, At, Goto, qvars, HasLock, TypeOK,
       QTypeOK, RequestOrder, QueuedIsStored
  <2>3. HandlerInStep' /\ SoleHandler'
    BY <1>1, <1>2, <1>9, QueueAssumption DEF MarkReady, At, Goto, qvars, HasLock, TypeOK,
       QTypeOK, HandlerInStep, SoleHandler
  <2>4. Progress'
    BY <1>1, <1>2, <1>9 DEF MarkReady, At, Goto, qvars, TypeOK, QTypeOK, HandlerInStep,
       Progress, Exact
  <2>5. ReadyIsExact' /\ CompletedIsReady'
    BY <1>1, <1>2, <1>3, <1>9 DEF MarkReady, At, Goto, qvars, HasLock, TypeOK, QTypeOK,
       SoleHandler, Progress, ReadyIsExact,
       CompletedIsReady, Exact, Settled
  <2>6. QED BY <2>1, <2>2, <2>3, <2>4, <2>5
<1>10. CASE Return(w)
  <2>1. TypeOK'
    BY <1>1, <1>10 DEF Return, QReturn, At, Goto, docs, Steps, Statuses, TypeOK, QTypeOK, QInv
  <2>2. RequestOrder' /\ QueuedIsStored'
    BY <1>1, <1>10, QueueAssumption DEF Return, QReturn, At, Goto, docs, HasLock, TypeOK,
       QTypeOK, RequestOrder, QueuedIsStored
  <2>3. HandlerInStep' /\ SoleHandler'
    BY <1>1, <1>2, <1>10, QueueAssumption DEF Return, QReturn, At, Goto, docs, HasLock,
       TypeOK, QTypeOK, HandlerInStep, SoleHandler
  <2>4. Progress'
    <3>1. /\ UNCHANGED <<docs, stored, overrun>>
          /\ pc' = [pc EXCEPT ![w] = "idle"] /\ running' = [running EXCEPT ![w] = NoJob]
      BY <1>10 DEF Return, QReturn, Goto
    <3>2. QED BY <3>1 DEF docs, TypeOK, QTypeOK, Progress, Exact
  <2>5. ReadyIsExact' /\ CompletedIsReady'
    BY <1>1, <1>2, <1>3, <1>10 DEF Return, QReturn, At, Goto, docs, HasLock, TypeOK,
       QTypeOK, SoleHandler, Progress, ReadyIsExact,
       CompletedIsReady, Exact, Settled
  <2>6. QED BY <2>1, <2>2, <2>3, <2>4, <2>5
<1>11. CASE Throw(w)
  <2>1. TypeOK'
    BY <1>1, <1>11 DEF Throw, Goto, qvars, docs, Steps, Statuses, TypeOK, QTypeOK, QInv
  <2>2. RequestOrder' /\ QueuedIsStored'
    BY <1>1, <1>11, QueueAssumption DEF Throw, Goto, qvars, docs, HasLock, TypeOK,
       QTypeOK, RequestOrder, QueuedIsStored
  <2>3. HandlerInStep' /\ SoleHandler'
    BY <1>1, <1>2, <1>11, QueueAssumption DEF Throw, Goto, qvars, docs, HasLock, TypeOK,
       QTypeOK, HandlerInStep, SoleHandler
  <2>4. Progress'
    BY <1>1, <1>2, <1>11 DEF Throw, Goto, qvars, docs, TypeOK, QTypeOK, HandlerInStep,
       Progress, Exact
  <2>5. ReadyIsExact' /\ CompletedIsReady'
    BY <1>1, <1>2, <1>3, <1>11 DEF Throw, Goto, qvars, docs, HasLock, TypeOK, QTypeOK,
       SoleHandler, Progress, ReadyIsExact,
       CompletedIsReady, Exact, Settled
  <2>6. QED BY <2>1, <2>2, <2>3, <2>4, <2>5
<1>12. CASE MarkFailed(w)
  <2>1. /\ status' \in [Pdfs -> Statuses]
        /\ status'[p] \in {status[p], "failed"}
        /\ \A q \in Pdfs : q # p => status'[q] = status[q]
    BY <1>1, <1>12 DEF MarkFailed, Statuses, TypeOK
  <2>2. pc[w] = "catch" /\ pc' = [pc EXCEPT ![w] = "rethrow"]
    BY <1>12 DEF MarkFailed, At, Goto
  <2>3. UNCHANGED <<qvars, request, blobs, counted, chunks, stored, overrun>>
    BY <1>12 DEF MarkFailed
  <2>4. TypeOK'
    BY <2>1, <2>2, <2>3 DEF qvars, Steps, TypeOK, QTypeOK
  <2>5. RequestOrder' /\ QueuedIsStored'
    BY <1>1, <2>1, <2>3 DEF qvars, RequestOrder, QueuedIsStored
  <2>6. HandlerInStep' /\ SoleHandler'
    BY <1>1, <2>2, <2>3 DEF qvars, TypeOK, QTypeOK, HandlerInStep, SoleHandler
  <2>7. Progress'
    BY <1>1, <1>2, <2>1, <2>2, <2>3 DEF qvars, TypeOK, QTypeOK, Progress, Exact
  <2>8. ReadyIsExact' /\ CompletedIsReady'
    BY <1>1, <1>3, <2>1, <2>3 DEF qvars, ReadyIsExact, CompletedIsReady, Exact, Settled
  <2>9. QED BY <2>4, <2>5, <2>6, <2>7, <2>8
<1>13. CASE Rethrow(w)
  <2>1. TypeOK'
    BY <1>1, <1>13 DEF Rethrow, QThrow, At, Goto, docs, Steps, Statuses, TypeOK, QTypeOK, QInv
  <2>2. RequestOrder' /\ QueuedIsStored'
    BY <1>1, <1>13, QueueAssumption DEF Rethrow, QThrow, At, Goto, docs, HasLock, TypeOK,
       QTypeOK, RequestOrder, QueuedIsStored
  <2>3. HandlerInStep' /\ SoleHandler'
    BY <1>1, <1>2, <1>13, QueueAssumption DEF Rethrow, QThrow, At, Goto, docs, HasLock,
       TypeOK, QTypeOK, HandlerInStep, SoleHandler
  <2>4. Progress'
    <3>1. /\ UNCHANGED <<docs, stored, overrun>>
          /\ pc' = [pc EXCEPT ![w] = "idle"] /\ running' = [running EXCEPT ![w] = NoJob]
      BY <1>13 DEF Rethrow, QThrow, Goto
    <3>2. QED BY <3>1 DEF docs, TypeOK, QTypeOK, Progress, Exact
  <2>5. ReadyIsExact' /\ CompletedIsReady'
    BY <1>1, <1>2, <1>3, <1>13 DEF Rethrow, QThrow, At, Goto, docs, HasLock, TypeOK,
       QTypeOK, SoleHandler, Progress, ReadyIsExact,
       CompletedIsReady, Exact, Settled
  <2>6. QED BY <2>1, <2>2, <2>3, <2>4, <2>5
<1>14. QED
  BY <1>4, <1>5, <1>6, <1>7, <1>8, <1>9, <1>10, <1>11, <1>12, <1>13 DEF HandlerStep

(* Every step keeps the invariant. *)
LEMMA NextInv == IInv /\ [Next]_vars => IInv'
<1> SUFFICES ASSUME IInv, [Next]_vars PROVE IInv'
  OBVIOUS
<1>1. QInv'
  BY QueueStep, QNextInv DEF IInv
<1>2. CASE UNCHANGED vars
  <2>1. TypeOK' /\ RequestOrder' /\ QueuedIsStored'
    BY <1>2 DEF vars, qvars, IInv, TypeOK, QTypeOK, RequestOrder, QueuedIsStored
  <2>2. HandlerInStep' /\ SoleHandler' /\ Progress'
    BY <1>2 DEF vars, qvars, IInv, HandlerInStep, SoleHandler, Progress, Exact
  <2>3. ReadyIsExact' /\ CompletedIsReady'
    BY <1>2 DEF vars, qvars, IInv, ReadyIsExact, CompletedIsReady, Exact
  <2>4. QED BY <1>1, <2>1, <2>2, <2>3 DEF IInv
<1>3. CASE Next
  BY <1>1, <1>3, RequestInv, RecoveryInv, ClaimInv, CrashInv, HandlerInv DEF Next
<1>4. QED BY <1>2, <1>3

(* The inductive invariant holds in every reachable state. *)
THEOREM Safety == Spec => []IInv
<1>1. Init => IInv
  BY InitInv
<1>2. IInv /\ [Next]_vars => IInv'
  BY NextInv
<1>3. QED BY <1>1, <1>2, PTL DEF Spec

(* Every variable keeps its type. *)
THEOREM TypeCorrect == Spec => []TypeOK
<1>1. IInv => TypeOK
  BY DEF IInv
<1>2. QED BY <1>1, Safety, PTL

(* A PDF that reads READY, and was never processed by two handlers at once, *)
(* has every chunk of its text exactly once, for any number of retries,     *)
(* crashes, redeliveries, slots and PDFs.                                   *)
THEOREM ReadyTextIsExact == Spec => []ReadyIsExact
<1>1. IInv => ReadyIsExact
  BY DEF IInv
<1>2. QED BY <1>1, Safety, PTL

(* The worker finds the record and the file of every job it is given. *)
THEOREM QueuedPdfIsStored == Spec => []QueuedIsStored
<1>1. IInv => QueuedIsStored
  BY DEF IInv
<1>2. QED BY <1>1, Safety, PTL

(* A job acknowledged as completed has a PDF that reads READY, for good.    *)
THEOREM CompletedPdfIsReady == Spec => []CompletedIsReady
<1>1. IInv => CompletedIsReady
  BY DEF IInv
<1>2. QED BY <1>1, Safety, PTL

(* No PDF is processed more often than its attempts and forgiven stalls.    *)
THEOREM RunsAreBounded == Spec => []RunBudget
<1>1. IInv => RunBudget
  BY RunBudgetHolds DEF IInv
<1>2. QED BY <1>1, Safety, PTL

-----------------------------------------------------------------------------
(* A running PDF that is not overrun is not settled. *)
LEMMA RunningIsOpen ==
  ASSUME IInv, NEW w \in Slots, running[w] # NoJob, running[w] \notin overrun
  PROVE  ~Settled(running[w])
  BY QueueAssumption DEF IInv, SoleHandler, QInv, QTypeOK, LockHolderRuns, Settled

(* A handler step writes the status and the chunks of its own PDF only. *)
LEMMA HandlerFrame ==
  ASSUME IInv, NEW w \in Slots, HandlerStep(w)
  PROVE  /\ running[w] \in Pdfs /\ running[w] # NoJob
         /\ \A q \in Pdfs : q # running[w] => status'[q] = status[q] /\ chunks'[q] = chunks[q]
         /\ UNCHANGED overrun
<1>1. running[w] \in Pdfs /\ running[w] # NoJob
  BY DEF HandlerStep, FindRecord, MarkProcessing, FetchAndParse, downloadBuffer, DeleteChunks, InsertChunk,
     MarkReady, Throw, MarkFailed, Return, Rethrow, QReturn, QThrow, At, IInv, QInv, QTypeOK, Pdfs
<1>2. CASE FindRecord(w) \/ FetchAndParse(w) \/ Throw(w) \/ Return(w) \/ Rethrow(w)
  BY <1>1, <1>2 DEF FindRecord, FetchAndParse, downloadBuffer, Throw, Return, Rethrow, docs
<1>3. CASE MarkProcessing(w) \/ MarkReady(w)
  BY <1>1, <1>3 DEF MarkProcessing, MarkReady, IInv, TypeOK
<1>4. CASE MarkFailed(w)
  BY <1>1, <1>4 DEF MarkFailed, IInv, TypeOK
<1>5. CASE DeleteChunks(w) \/ InsertChunk(w)
  BY <1>1, <1>5 DEF DeleteChunks, InsertChunk, IInv, TypeOK
<1>6. QED
  BY <1>1, <1>2, <1>3, <1>4, <1>5 DEF HandlerStep

(* A step leaves the status and the chunks of a settled PDF alone. *)
LEMMA SettledStep ==
  ASSUME IInv, [Next]_vars, NEW p \in Pdfs, Settled(p), p \notin overrun
  PROVE  status'[p] = status[p] /\ chunks'[p] = chunks[p]
<1>1. ASSUME NEW q \in Pdfs, RequestStep(q) PROVE UNCHANGED chunks /\ status'[p] = status[p]
  BY <1>1 DEF RequestStep, UploadFile, CreateRecord, Enqueue, RequestFails, docs, IInv,
     RequestOrder, TypeOK, Settled
<1>2. ASSUME NEW w \in Slots, HandlerStep(w)
      PROVE  status'[p] = status[p] /\ chunks'[p] = chunks[p]
  BY <1>2, HandlerFrame, RunningIsOpen
<1>3. QED
  BY <1>1, <1>2 DEF Next, vars, LockExpires, StalledCheck, Backoff, Crash, Claim, docs

(* Once the queue is through with a job, the status and the chunks of its   *)
(* PDF never change again.                                                  *)
THEOREM SettledStays == Spec => SettledIsFinal
<1>1. IInv /\ [Next]_vars =>
        [\A p \in Pdfs : Settled(p) /\ p \notin overrun =>
            /\ status'[p] = status[p]
            /\ chunks'[p] = chunks[p]]_vars
  BY SettledStep
<1>2. QED BY <1>1, Safety, PTL DEF Spec, SettledIsFinal

-----------------------------------------------------------------------------
(* The reader's view has its type. *)
LEMMA VisibleType == Visible \in [Pdfs -> Lifecycle!Texts]
  BY DEF Visible, Lifecycle!Texts

(* The reader's view of a PDF depends on its status and its chunks only. *)
LEMMA VisibleFrame ==
  ASSUME NEW q \in Pdfs, status'[q] = status[q], chunks'[q] = chunks[q]
  PROVE  Visible'[q] = Visible[q]
  BY DEF Visible, Exact

(* The pipeline starts where the reader's view starts. *)
LEMMA LifecycleInit == Init => Lifecycle!LInit
  BY DEF Init, QInit, Lifecycle!LInit, Visible, Settled, Pdfs

(* A step that changes neither status, chunks, verdicts nor overruns does   *)
(* not show.                                                                *)
LEMMA Hidden ==
  ASSUME UNCHANGED <<status, chunks, jobState, overrun>>
  PROVE  UNCHANGED Lifecycle!lvars
  BY DEF Lifecycle!lvars, Visible, Exact, Settled

(* A step that only moves the queue settles at most one PDF. *)
LEMMA Closing ==
  ASSUME IInv, NEW p \in Pdfs, NEW s \in JobStates,
         jobState' = [jobState EXCEPT ![p] = s], ~Settled(p),
         UNCHANGED <<status, chunks, overrun>>
  PROVE  [Lifecycle!LNext]_Lifecycle!lvars
<1>1. UNCHANGED <<status, Visible, overrun>>
  BY DEF Visible, Exact
<1>2. CASE s \in {"completed", "failed"}
  <2>1. {q \in Pdfs : Settled(q)}' = {q \in Pdfs : Settled(q)} \cup {p}
    BY <1>2 DEF Settled, IInv, TypeOK, QTypeOK, Pdfs
  <2>2. Lifecycle!Close(p)
    BY <1>1, <2>1 DEF Lifecycle!Close
  <2>3. QED BY <2>2 DEF Lifecycle!LNext
<1>3. CASE s \notin {"completed", "failed"}
  <2>1. {q \in Pdfs : Settled(q)}' = {q \in Pdfs : Settled(q)}
    BY <1>3 DEF Settled, IInv, TypeOK, QTypeOK, Pdfs
  <2>2. QED BY <1>1, <2>1 DEF Lifecycle!lvars
<1>4. QED BY <1>2, <1>3

(* A handler step that does not move the queue is a step of its PDF in the  *)
(* reader's view: an Attempt, a Publish, a GiveUp, or nothing; on an        *)
(* overrun PDF it is a Stray step.                                          *)
LEMMA HandlerShows ==
  ASSUME IInv, IInv', NEW w \in Slots, HandlerStep(w), UNCHANGED qvars
  PROVE  [Lifecycle!LNext]_Lifecycle!lvars
<1> DEFINE p == running[w]
<1>1. /\ p \in Pdfs /\ p # NoJob
      /\ \A q \in Pdfs : q # p => status'[q] = status[q] /\ chunks'[q] = chunks[q]
      /\ UNCHANGED overrun
  BY HandlerFrame
<1>2. \A q \in Pdfs : q # p => Visible'[q] = Visible[q]
  BY <1>1, VisibleFrame
<1>3. /\ status \in [Pdfs -> Statuses] /\ status' \in [Pdfs -> Statuses]
      /\ Visible \in [Pdfs -> Lifecycle!Texts] /\ Visible' \in [Pdfs -> Lifecycle!Texts]
  BY VisibleType DEF IInv, TypeOK, Visible, Lifecycle!Texts
<1>4. {q \in Pdfs : Settled(q)}' = {q \in Pdfs : Settled(q)}
  BY DEF Settled, qvars
<1>5. CASE p \in overrun
  <2>1. Lifecycle!Stray(p)
    BY <1>1, <1>2, <1>3, <1>4, <1>5 DEF Lifecycle!Stray, Lifecycle!Shown, Statuses
  <2>2. QED BY <1>1, <2>1 DEF Lifecycle!LNext
<1>6. CASE p \notin overrun
  <2>1. p \notin {q \in Pdfs : Settled(q)}
    BY <1>1, <1>6, RunningIsOpen
  <2>2. status[p] # "none"
    BY <1>1 DEF IInv, QInv, RunningWasAdded, QueuedIsStored, Pdfs
  <2>3. ASSUME status'[p] = status[p], Visible'[p] = Visible[p]
        PROVE  UNCHANGED Lifecycle!lvars
    <3>1. status' = status /\ Visible' = Visible
      BY <1>1, <1>2, <1>3, <2>3
    <3>2. QED BY <1>1, <1>4, <3>1 DEF Lifecycle!lvars
  <2>4. ASSUME NEW s, NEW t, status'[p] = s, Visible'[p] = t PROVE Lifecycle!Show(p, s, t)
    <3>1. status' = [status EXCEPT ![p] = s] /\ Visible' = [Visible EXCEPT ![p] = t]
      BY <1>1, <1>2, <1>3, <2>4
    <3>2. QED BY <1>1, <1>4, <2>1, <3>1 DEF Lifecycle!Show
  <2>5. CASE FindRecord(w) \/ FetchAndParse(w) \/ Throw(w) \/ Return(w) \/ Rethrow(w)
    BY <2>3, <2>5, VisibleFrame, <1>1
    DEF FindRecord, FetchAndParse, downloadBuffer, Throw, Return, Rethrow, docs
  <2>6. CASE DeleteChunks(w) \/ InsertChunk(w)
    <3>1. status' = status /\ status[p] # "ready"
      BY <1>1, <1>6, <2>6 DEF DeleteChunks, InsertChunk, At, IInv, Progress
    <3>2. Visible'[p] = Visible[p]
      BY <1>1, <3>1 DEF Visible
    <3>3. QED BY <2>3, <3>1, <3>2
  <2>7. CASE MarkProcessing(w)
    <3>1. status'[p] = "processing" /\ Visible'[p] = "hidden"
      BY <1>1, <1>3, <2>7 DEF MarkProcessing, Visible
    <3>2. Lifecycle!Attempt(p)
      BY <2>2, <2>4, <3>1 DEF Lifecycle!Attempt
    <3>3. QED BY <1>1, <3>2 DEF Lifecycle!LNext
  <2>8. CASE MarkReady(w)
    <3>1. status[p] = "processing" /\ status'[p] = "ready"
      BY <1>1, <1>3, <1>6, <2>8 DEF MarkReady, At, IInv, Progress
    <3>2. \A k \in 1..NumChunks[p] : chunks'[p][k] = 1
      BY <1>1, <1>6, <3>1 DEF IInv, ReadyIsExact, Exact
    <3>3. Visible'[p] = "full"
      BY <1>1, <3>1, <3>2 DEF Visible, Exact
    <3>4. Lifecycle!Publish(p)
      BY <2>4, <3>1, <3>3 DEF Lifecycle!Publish
    <3>5. QED BY <1>1, <3>4 DEF Lifecycle!LNext
  <2>9. CASE MarkFailed(w)
    <3>1. CASE status' = [status EXCEPT ![p] = "failed"]
      <4>1. status'[p] = "failed" /\ Visible'[p] = "hidden"
        BY <1>1, <1>3, <3>1 DEF Visible
      <4>2. Lifecycle!GiveUp(p)
        BY <2>2, <2>4, <4>1 DEF Lifecycle!GiveUp
      <4>3. QED BY <1>1, <4>2 DEF Lifecycle!LNext
    <3>2. CASE UNCHANGED status
      BY <1>1, <2>3, <2>9, <3>2, VisibleFrame DEF MarkFailed
    <3>3. QED BY <2>9, <3>1, <3>2 DEF MarkFailed
  <2>10. QED
    BY <2>5, <2>6, <2>7, <2>8, <2>9 DEF HandlerStep
<1>7. QED BY <1>5, <1>6

(* Every step of the pipeline is a step of the reader's view, or hidden.    *)
LEMMA LifecycleStep ==
  ASSUME IInv, IInv', [Next]_vars PROVE [Lifecycle!LNext]_Lifecycle!lvars
<1>1. ASSUME NEW p \in Pdfs, RequestStep(p) PROVE [Lifecycle!LNext]_Lifecycle!lvars
  <2>1. CASE UploadFile(p) \/ RequestFails(p)
    BY <2>1, Hidden DEF UploadFile, RequestFails, docs, qvars
  <2>2. CASE CreateRecord(p)
    <3>1. /\ status[p] = "none" /\ p \notin {q \in Pdfs : Settled(q)}
          /\ {q \in Pdfs : Settled(q)}' = {q \in Pdfs : Settled(q)}
      BY <2>2 DEF CreateRecord, qvars, Settled, IInv, RequestOrder
    <3>2. Visible' = Visible
      BY <2>2, <3>1 DEF CreateRecord, Visible, Exact, IInv, TypeOK
    <3>3. Visible = [Visible EXCEPT ![p] = "hidden"]
      BY <3>1 DEF Visible
    <3>4. Lifecycle!Register(p)
      BY <2>2, <3>1, <3>2, <3>3 DEF CreateRecord, Lifecycle!Register, Lifecycle!Show
    <3>5. QED BY <3>4 DEF Lifecycle!LNext
  <2>3. CASE Enqueue(p)
    BY <2>3, Closing DEF Enqueue, QAdd, docs, Settled, JobStates
  <2>4. QED BY <1>1, <2>1, <2>2, <2>3 DEF RequestStep
<1>2. ASSUME NEW p \in Pdfs, LockExpires(p) PROVE [Lifecycle!LNext]_Lifecycle!lvars
  <2>1. /\ {q \in Pdfs : Settled(q)}' = {q \in Pdfs : Settled(q)}
        /\ UNCHANGED <<status, Visible>>
    BY <1>2 DEF LockExpires, QLockExpires, docs, Settled, Visible, Exact
  <2>2. CASE p \in overrun
    BY <1>2, <2>1, <2>2 DEF LockExpires, Lifecycle!lvars
  <2>3. CASE p \notin overrun
    BY <1>2, <2>1, <2>3 DEF LockExpires, Lifecycle!Void, Lifecycle!LNext
  <2>4. QED BY <2>2, <2>3
<1>3. ASSUME NEW p \in Pdfs, StalledCheck(p) PROVE [Lifecycle!LNext]_Lifecycle!lvars
  BY <1>3, Closing DEF StalledCheck, QStalledCheck, docs, Settled, JobStates
<1>4. ASSUME NEW p \in Pdfs, Backoff(p) PROVE [Lifecycle!LNext]_Lifecycle!lvars
  BY <1>4, Closing DEF Backoff, QBackoff, docs, Settled, JobStates
<1>5. ASSUME NEW w \in Slots, HandlerStep(w) PROVE [Lifecycle!LNext]_Lifecycle!lvars
  <2>1. CASE UNCHANGED qvars
    BY <1>5, <2>1, HandlerShows
  <2>2. CASE Return(w) \/ Rethrow(w)
    <3>1. running[w] \in Pdfs /\ UNCHANGED <<status, chunks, overrun>>
      BY <2>2, HandlerFrame, <1>5 DEF Return, Rethrow, docs
    <3>2. CASE HasLock(w)
      <4>1. ~Settled(running[w])
        BY <3>1, <3>2, QueueAssumption DEF HasLock, IInv, QInv, LockHolderRuns, Settled, Pdfs
      <4>2. CASE Return(w)
        BY <3>1, <3>2, <4>1, <4>2, Closing DEF Return, QReturn, JobStates
      <4>3. CASE Rethrow(w)
        <5> DEFINE s == IF attemptsMade[running[w]] + 1 < MaxAttempts THEN "delayed" ELSE "failed"
        <5>1. s \in JobStates /\ jobState' = [jobState EXCEPT ![running[w]] = s]
          BY <3>2, <4>3 DEF Rethrow, QThrow, JobStates
        <5>2. QED BY <3>1, <4>1, <5>1, Closing
      <4>4. QED BY <2>2, <4>2, <4>3
    <3>3. CASE ~HasLock(w)
      BY <2>2, <3>1, <3>3, Hidden DEF Return, QReturn, Rethrow, QThrow
    <3>4. QED BY <3>2, <3>3
  <2>3. QED
    BY <1>5, <2>1, <2>2 DEF HandlerStep, FindRecord, MarkProcessing, FetchAndParse, downloadBuffer,
       DeleteChunks, InsertChunk, MarkReady, Throw, MarkFailed
<1>6. ASSUME NEW w \in Slots, Crash(w) PROVE [Lifecycle!LNext]_Lifecycle!lvars
  BY <1>6, Hidden DEF Crash, QCrash, docs
<1>7. ASSUME NEW w \in Slots, NEW p \in Pdfs, Claim(w, p)
      PROVE  [Lifecycle!LNext]_Lifecycle!lvars
  BY <1>7, Closing DEF Claim, QClaim, docs, Settled, JobStates
<1>8. CASE UNCHANGED vars
  BY <1>8, Hidden DEF vars, qvars
<1>9. QED
  BY <1>1, <1>2, <1>3, <1>4, <1>5, <1>6, <1>7, <1>8 DEF Next

(* The pipeline implements PdfLifecycle: to a reader who trusts the chunks  *)
(* of a PDF only while it reads READY, the text appears as a whole and a    *)
(* settled PDF never changes.                                               *)
THEOREM ImplementsLifecycle == Spec => KeepsPromise
<1>1. Init => Lifecycle!LInit
  BY LifecycleInit
<1>2. IInv /\ IInv' /\ [Next]_vars => [Lifecycle!LNext]_Lifecycle!lvars
  BY LifecycleStep
<1>3. QED BY <1>1, <1>2, Safety, PTL DEF Spec, KeepsPromise, Lifecycle!LSpec

-----------------------------------------------------------------------------
(* The handlers of a PDF that are past the delete and may still insert its   *)
(* k-th chunk.                                                              *)
Inserters(p, k) == {w \in Handlers(p) : pc[w] = "insert" /\ stored[w] < k}

(* The copies of a chunk that are stored or may still be inserted: a delete  *)
(* takes the stored ones away, and no more handlers than there were stalls, *)
(* and one, are left to insert it again.                                    *)
CopiesAccountedFor ==
  \A p \in Pdfs : \A k \in 1..NumChunks[p] :
    chunks[p][k] + Cardinality(Inserters(p, k)) <= 1 + stalledCount[p]

(* The inserters of a chunk are some of the handlers of its PDF. *)
LEMMA InsertersFinite ==
  \A p, k : /\ IsFiniteSet(Inserters(p, k)) /\ Cardinality(Inserters(p, k)) \in Nat
            /\ Cardinality(Inserters(p, k)) <= Cardinality(Handlers(p))
<1>1. \A p, k : Inserters(p, k) \subseteq Handlers(p)
  BY DEF Inserters
<1>2. QED BY <1>1, HandlersFinite, FS_Subset, FS_CardinalityType

(* At the start nothing is stored and nothing runs. *)
LEMMA CopiesInit == ASSUME Init PROVE CopiesAccountedFor
<1>1. \A p \in Pdfs : stalledCount[p] = 0
  BY DEF Init, QInit, Pdfs
<1>2. \A p, k : Inserters(p, k) = {}
  BY DEF Init, Inserters, Handlers
<1>3. \A p \in Pdfs : \A k \in 1..NumChunks[p] : chunks[p][k] = 0
  BY DEF Init
<1>4. QED BY <1>1, <1>2, <1>3, FS_EmptySet DEF CopiesAccountedFor

(* The counts are numbers. *)
LEMMA CopyTypes ==
  ASSUME IInv, NEW p \in Pdfs
  PROVE  /\ stalledCount[p] \in Nat
         /\ \A k \in 1..NumChunks[p] : chunks[p][k] \in Nat
<1>1. stalledCount[p] \in 0..(MaxStalled + 1)
  BY DEF IInv, TypeOK, QTypeOK, Pdfs
<1>2. chunks[p] \in [1..NumChunks[p] -> Nat]
  BY DEF IInv, TypeOK
<1>3. stalledCount[p] \in Nat
  BY <1>1, QueueAssumption
<1>4. \A k \in 1..NumChunks[p] : chunks[p][k] \in Nat
  BY <1>2
<1>5. QED BY <1>3, <1>4

(* A step that inserts nothing, adds no inserter and forgets no stall keeps  *)
(* the count.                                                               *)
LEMMA CopiesStill ==
  ASSUME IInv, CopiesAccountedFor, UNCHANGED chunks,
         \A p \in Pdfs : stalledCount'[p] \in Nat /\ stalledCount[p] <= stalledCount'[p],
         \A p \in Pdfs : \A k \in 1..NumChunks[p] : Inserters(p, k)' \subseteq Inserters(p, k)
  PROVE  CopiesAccountedFor'
<1>1. SUFFICES ASSUME NEW p \in Pdfs, NEW k \in 1..NumChunks[p]
               PROVE  chunks[p][k] + Cardinality(Inserters(p, k)') <= 1 + stalledCount'[p]
  BY DEF CopiesAccountedFor
<1>2. /\ Cardinality(Inserters(p, k)') \in Nat /\ Cardinality(Inserters(p, k)) \in Nat
      /\ Cardinality(Inserters(p, k)') <= Cardinality(Inserters(p, k))
  BY InsertersFinite, FS_Subset, FS_CardinalityType
<1>3. chunks[p][k] + Cardinality(Inserters(p, k)) <= 1 + stalledCount[p]
  BY DEF CopiesAccountedFor
<1>4. QED BY <1>2, <1>3, CopyTypes

(* The delete: what is stored is gone, and every handler may insert it again. *)
LEMMA CopiesDeleted ==
  ASSUME IInv, HandlersAccountedFor, CopiesAccountedFor, NEW w \in Slots, DeleteChunks(w)
  PROVE  CopiesAccountedFor'
<1>1. PICK p \in Pdfs : running[w] = p
  BY DEF DeleteChunks, At, IInv, TypeOK, QTypeOK, Pdfs
<1>2. /\ chunks' = [chunks EXCEPT ![p] = [k \in 1..NumChunks[p] |-> 0]]
      /\ UNCHANGED <<running, stalledCount, jobState, stored>>
      /\ \E step \in {"insert", "catch"} : pc' = [pc EXCEPT ![w] = step]
  BY <1>1 DEF DeleteChunks, Goto, qvars
<1>3. ASSUME NEW k \in 1..NumChunks[p]
      PROVE  chunks'[p][k] + Cardinality(Inserters(p, k)') <= 1 + stalledCount'[p]
  <2>1. chunks'[p][k] = 0
    BY <1>2 DEF IInv, TypeOK
  <2>2. Inserters(p, k)' \subseteq Handlers(p)
    BY <1>2 DEF Inserters, Handlers
  <2>3. /\ Cardinality(Inserters(p, k)') \in Nat /\ Cardinality(Handlers(p)) \in Nat
        /\ Cardinality(Inserters(p, k)') <= Cardinality(Handlers(p))
    BY <2>2, HandlersFinite, FS_Subset, FS_CardinalityType
  <2>4. Cardinality(Handlers(p)) <= stalledCount[p] + OpenRun(p) /\ OpenRun(p) \in {0, 1}
    BY DEF HandlersAccountedFor, OpenRun, Pdfs
  <2>5. QED BY <1>2, <2>1, <2>3, <2>4, CopyTypes
<1>4. ASSUME NEW q \in Pdfs, q # p, NEW k \in 1..NumChunks[q]
      PROVE  chunks'[q][k] + Cardinality(Inserters(q, k)') <= 1 + stalledCount'[q]
  <2>1. chunks'[q] = chunks[q]
    BY <1>2, <1>4 DEF IInv, TypeOK
  <2>2. Inserters(q, k)' = Inserters(q, k)
    BY <1>1, <1>2, <1>4 DEF Inserters, Handlers, IInv, TypeOK
  <2>3. QED BY <1>2, <2>1, <2>2 DEF CopiesAccountedFor
<1>5. QED BY <1>3, <1>4 DEF CopiesAccountedFor

(* An insert: one more copy is stored, and one handler less may store it. *)
LEMMA CopiesInserted ==
  ASSUME IInv, CopiesAccountedFor, NEW w \in Slots, InsertChunk(w)
  PROVE  CopiesAccountedFor'
<1>1. PICK p \in Pdfs : running[w] = p
  BY DEF InsertChunk, At, IInv, TypeOK, QTypeOK, Pdfs
<1>2. PICK i \in 1..NumChunks[p] : i = stored[w] + 1
  <2>1. stored[w] \in Nat /\ NumChunks[p] \in Nat
    BY NumChunksAssumption DEF IInv, TypeOK
  <2>2. stored[w] < NumChunks[p]
    BY <1>1 DEF InsertChunk, At, IInv, HandlerInStep
  <2>3. QED BY <2>1, <2>2
<1>3. /\ pc[w] = "insert" /\ UNCHANGED <<running, stalledCount>>
      /\ chunks' = [chunks EXCEPT ![p][i] = @ + 1]
      /\ stored' = [stored EXCEPT ![w] = i]
      /\ \E step \in Steps : pc' = [pc EXCEPT ![w] = step]
  BY <1>1, <1>2 DEF InsertChunk, At, Goto, qvars, Steps
<1>4. \A q \in Pdfs : \A k \in 1..NumChunks[q] : Inserters(q, k)' \subseteq Inserters(q, k)
  BY <1>1, <1>2, <1>3, NumChunksAssumption DEF Inserters, Handlers, IInv, TypeOK
<1>5. w \in Inserters(p, i) /\ w \notin Inserters(p, i)'
  BY <1>1, <1>2, <1>3 DEF Inserters, Handlers, IInv, TypeOK
<1>6. chunks'[p][i] + Cardinality(Inserters(p, i)') <= 1 + stalledCount'[p]
  <2>1. chunks'[p][i] = chunks[p][i] + 1
    BY <1>3 DEF IInv, TypeOK
  <2>2. Inserters(p, i)' \subseteq Inserters(p, i) \ {w}
    BY <1>4, <1>5
  <2>3. /\ Cardinality(Inserters(p, i) \ {w}) = Cardinality(Inserters(p, i)) - 1
        /\ IsFiniteSet(Inserters(p, i) \ {w})
    BY <1>5, InsertersFinite, FS_RemoveElement
  <2>4. /\ Cardinality(Inserters(p, i)') \in Nat
        /\ Cardinality(Inserters(p, i)') <= Cardinality(Inserters(p, i) \ {w})
    BY <2>2, <2>3, FS_Subset, FS_CardinalityType
  <2>5. chunks[p][i] + Cardinality(Inserters(p, i)) <= 1 + stalledCount[p]
    BY DEF CopiesAccountedFor
  <2>6. Cardinality(Inserters(p, i)) \in Nat
    BY InsertersFinite
  <2>7. QED BY <1>3, <2>1, <2>3, <2>4, <2>5, <2>6, CopyTypes
<1>7. ASSUME NEW q \in Pdfs, NEW k \in 1..NumChunks[q], ~(q = p /\ k = i)
      PROVE  chunks'[q][k] + Cardinality(Inserters(q, k)') <= 1 + stalledCount'[q]
  <2>1. chunks'[q][k] = chunks[q][k]
    BY <1>3, <1>7 DEF IInv, TypeOK
  <2>2. /\ Cardinality(Inserters(q, k)') \in Nat /\ Cardinality(Inserters(q, k)) \in Nat
        /\ Cardinality(Inserters(q, k)') <= Cardinality(Inserters(q, k))
    BY <1>4, InsertersFinite, FS_Subset, FS_CardinalityType
  <2>3. chunks[q][k] + Cardinality(Inserters(q, k)) <= 1 + stalledCount[q]
    BY DEF CopiesAccountedFor
  <2>4. QED BY <1>3, <2>1, <2>2, <2>3, CopyTypes
<1>8. QED BY <1>6, <1>7 DEF CopiesAccountedFor

(* Every step keeps the count. *)
LEMMA CopiesNext ==
  ASSUME IInv, IInv', HandlersAccountedFor, CopiesAccountedFor, [Next]_vars
  PROVE  CopiesAccountedFor'
<1>1. ASSUME NEW p \in Pdfs, RequestStep(p) \/ LockExpires(p) \/ StalledCheck(p) \/ Backoff(p)
      PROVE  CopiesAccountedFor'
  <2>1. UNCHANGED <<chunks, running, pc, stored>>
    BY <1>1 DEF RequestStep, UploadFile, CreateRecord, Enqueue, RequestFails, LockExpires,
       StalledCheck, Backoff, qvars, docs, QAdd, QLockExpires, QStalledCheck, QBackoff
  <2>2. \A q \in Pdfs : stalledCount'[q] = stalledCount[q] \/ stalledCount'[q] = stalledCount[q] + 1
    BY <1>1 DEF RequestStep, UploadFile, CreateRecord, Enqueue, RequestFails, LockExpires,
       StalledCheck, Backoff, qvars, QAdd, QLockExpires, QStalledCheck, QBackoff, IInv, TypeOK,
       QTypeOK, Pdfs
  <2>3. \A q \in Pdfs : stalledCount'[q] \in Nat /\ stalledCount[q] <= stalledCount'[q]
    BY <2>2, CopyTypes
  <2>4. QED BY <2>1, <2>3, CopiesStill DEF Inserters, Handlers
<1>2. ASSUME NEW w \in Slots,
             \/ FindRecord(w) \/ MarkProcessing(w) \/ FetchAndParse(w) \/ MarkReady(w)
             \/ Throw(w) \/ MarkFailed(w)
      PROVE  CopiesAccountedFor'
  <2>1. /\ UNCHANGED <<chunks, running, stored, stalledCount>>
        /\ \E step \in Steps \ {"insert"} : pc' = [pc EXCEPT ![w] = step]
    BY <1>2 DEF FindRecord, MarkProcessing, FetchAndParse, downloadBuffer, MarkReady, Throw, MarkFailed, Goto,
       qvars, docs, Steps
  <2>2. \A q \in Pdfs : \A k \in 1..NumChunks[q] : Inserters(q, k)' \subseteq Inserters(q, k)
    BY <2>1 DEF Inserters, Handlers, IInv, TypeOK
  <2>3. QED BY <2>1, <2>2, CopyTypes, CopiesStill
<1>3. ASSUME NEW w \in Slots, Return(w) \/ Rethrow(w) \/ Crash(w) PROVE CopiesAccountedFor'
  <2>1. /\ UNCHANGED <<chunks, stored, stalledCount>>
        /\ running' = [running EXCEPT ![w] = NoJob] /\ pc' = [pc EXCEPT ![w] = "idle"]
    BY <1>3 DEF Return, Rethrow, Crash, QReturn, QThrow, QCrash, Goto, docs
  <2>2. \A q \in Pdfs : \A k \in 1..NumChunks[q] : Inserters(q, k)' \subseteq Inserters(q, k)
    BY <2>1, QueueAssumption DEF Inserters, Handlers, IInv, TypeOK, QTypeOK, Pdfs
  <2>3. QED BY <2>1, <2>2, CopyTypes, CopiesStill
<1>4. ASSUME NEW w \in Slots, NEW p \in Pdfs, Claim(w, p) PROVE CopiesAccountedFor'
  <2>1. /\ UNCHANGED <<chunks, stalledCount>>
        /\ running' = [running EXCEPT ![w] = p] /\ pc' = [pc EXCEPT ![w] = "find"]
        /\ stored' = [stored EXCEPT ![w] = 0]
    BY <1>4 DEF Claim, QClaim, docs
  <2>2. \A q \in Pdfs : \A k \in 1..NumChunks[q] : Inserters(q, k)' \subseteq Inserters(q, k)
    BY <2>1 DEF Inserters, Handlers, IInv, TypeOK, QTypeOK
  <2>3. QED BY <2>1, <2>2, CopyTypes, CopiesStill
<1>5. CASE UNCHANGED vars
  <2>1. UNCHANGED <<chunks, stalledCount, running, pc, stored>>
    BY <1>5 DEF vars, qvars
  <2>2. QED BY <2>1, CopyTypes, CopiesStill DEF Inserters, Handlers
<1>6. QED
  BY <1>1, <1>2, <1>3, <1>4, <1>5, CopiesDeleted, CopiesInserted DEF Next, HandlerStep

(* A chunk is stored at most once more than the stalled check took the job   *)
(* of its PDF away from a slot.                                             *)
THEOREM CopiesAreBounded == Spec => []DuplicationBound
<1> DEFINE Counts == IInv /\ HandlersAccountedFor /\ CopiesAccountedFor
<1>1. Init => Counts
  BY InitInv, HandlersInit, CopiesInit DEF Init
<1>2. Counts /\ [Next]_vars => Counts'
  BY NextInv, QueueStep, HandlersNext, CopiesNext DEF IInv
<1>3. Counts => DuplicationBound
  <2>1. SUFFICES ASSUME Counts, NEW p \in Pdfs, NEW k \in 1..NumChunks[p]
                 PROVE  chunks[p][k] <= 1 + stalledCount[p]
    BY DEF DuplicationBound
  <2>2. chunks[p][k] + Cardinality(Inserters(p, k)) <= 1 + stalledCount[p]
    BY <2>1 DEF CopiesAccountedFor
  <2>3. Cardinality(Inserters(p, k)) \in Nat
    BY InsertersFinite
  <2>4. QED BY <2>1, <2>2, <2>3, CopyTypes
<1>4. QED BY <1>1, <1>2, <1>3, PTL DEF Spec

-----------------------------------------------------------------------------
(* A processing job is given up only after all its attempts, or after more  *)
(* stalls than BullMQ forgives.                                             *)
THEOREM FailureIsExhausted == Spec => []FailedIsExhausted
<1>1. Init => FailedIsExhausted
  BY ExhaustedInit DEF Init
<1>2. IInv /\ FailedIsExhausted /\ [Next]_vars => FailedIsExhausted'
  BY QueueStep, ExhaustedNext DEF IInv
<1>3. QED BY <1>1, <1>2, Safety, PTL DEF Spec
=============================================================================
