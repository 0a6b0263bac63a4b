---------------------------- MODULE PdfPipeline ----------------------------
(***************************************************************************)
(* The life of an uploaded PDF: the upload request (PdfService), the        *)
(* pdf-processing queue and the worker that turns the stored file into the  *)
(* text chunks every other feature reads (PdfProcessingWorker), over the    *)
(* `pdfs` and `pdf_chunks` collections.                                     *)
(*                                                                          *)
(* One action per awaited call: two slots, the request and the stalled      *)
(* check interleave between any two of them, and a process may die there.   *)
(* A write that is rejected may have been applied (the reply was lost).     *)
(* Uploading PDF p enqueues exactly one job, so job p is the job of PDF p.  *)
(*                                                                          *)
(* A definition named Action_Word is Action with a plausible mistake; no    *)
(* specification uses it, it shows that a property notices the mistake.     *)
(***************************************************************************)
EXTENDS JobQueue

CONSTANT NumChunks  \* NumChunks[p]: chunks chunkText cuts from p's text; 0 when it is blank

Pdfs == Jobs

ASSUME NumChunksAssumption == NumChunks \in [Pdfs -> Nat]

VARIABLES
  request,    \* how far the upload request of a PDF has come
  blobs,      \* PDFs whose bytes are in blob storage
  status,     \* pdfs.status, "none" while there is no record
  counted,    \* PDFs whose pageCount is set
  chunks,     \* chunks[p][k]: copies of p's k-th chunk in pdf_chunks
  pc,         \* the next call of the handler in a slot
  stored,     \* chunks that handler has inserted
  overrun     \* history: PDFs whose handler outlived its job lock

vars == <<qvars, request, blobs, status, counted, chunks, pc, stored, overrun>>
docs == <<blobs, status, counted, chunks>>

Statuses == {"none", "uploaded", "processing", "ready", "failed"}
Requests == {"new", "stored", "recorded", "accepted", "rejected"}
Steps    == {"idle", "find", "mark", "fetch", "hung", "delete", "insert", "ready",
             "return", "catch", "rethrow"}

Init ==
  /\ QInit
  /\ request = [p \in Pdfs |-> "new"]
  /\ blobs = {}
  /\ status = [p \in Pdfs |-> "none"]
  /\ counted = {}
  /\ chunks = [p \in Pdfs |-> [k \in 1..NumChunks[p] |-> 0]]
  /\ pc = [w \in Slots |-> "idle"]
  /\ stored = [w \in Slots |-> 0]
  /\ overrun = {}

Exact(p) == \A k \in 1..NumChunks[p] : chunks[p][k] = 1

-----------------------------------------------------------------------------
(* The upload request.  Nothing it has done is undone when a later step     *)
(* fails: a rejected request may leave a blob, a record, even a job behind. *)
UploadFile(p) ==
  /\ request[p] = "new"
  /\ blobs' = blobs \cup {p}
  /\ request' \in {[request EXCEPT ![p] = r] : r \in {"stored", "rejected"}}
  /\ UNCHANGED <<qvars, status, counted, chunks, pc, stored, overrun>>

(* Variant: the insert is not awaited before the job is added. *)
CreateRecord_Unawaited(p) ==
  /\ request[p] = "stored"
  /\ request' = [request EXCEPT ![p] = "recorded"]
  /\ UNCHANGED <<qvars, docs, pc, stored, overrun>>

CreateRecord(p) ==
  /\ request[p] = "stored"
  /\ status' = [status EXCEPT ![p] = "uploaded"]
  /\ request' \in {[request EXCEPT ![p] = r] : r \in {"recorded", "rejected"}}
  /\ UNCHANGED <<qvars, blobs, counted, chunks, pc, stored, overrun>>

Enqueue(p) ==
  /\ request[p] = "recorded"
  /\ QAdd(p)
  /\ request' \in {[request EXCEPT ![p] = r] : r \in {"accepted", "rejected"}}
  /\ UNCHANGED <<docs, pc, stored, overrun>>

(* A call is rejected without effect, the queue is disabled, or the process *)
(* dies under the request.                                                  *)
RequestFails(p) ==
  /\ request[p] \in {"new", "stored", "recorded"}
  /\ request' = [request EXCEPT ![p] = "rejected"]
  /\ UNCHANGED <<qvars, docs, pc, stored, overrun>>

-----------------------------------------------------------------------------
(* The handler, processJob. *)
At(w, step)  == running[w] # NoJob /\ pc[w] = step
Goto(w, S)   == \E s \in S : pc' = [pc EXCEPT ![w] = s]

Claim(w, p) ==
  /\ QClaim(w, p)
  /\ pc' = [pc EXCEPT ![w] = "find"]
  /\ stored' = [stored EXCEPT ![w] = 0]
  /\ UNCHANGED <<request, docs, overrun>>

(* Variant: the handler does not mark the PDF before it works on it. *)
FindRecord_NoMark(w) ==
  /\ At(w, "find")
  /\ Goto(w, {"fetch"})
  /\ UNCHANGED <<qvars, request, docs, stored, overrun>>

FindRecord(w) ==
  /\ At(w, "find")
  /\ Goto(w, IF status[running[w]] = "none" THEN {"catch"} ELSE {"mark"})
  /\ UNCHANGED <<qvars, request, docs, stored, overrun>>

MarkProcessing(w) ==
  /\ At(w, "mark")
  /\ status' = [status EXCEPT ![running[w]] = "processing"]
  /\ Goto(w, {"fetch", "catch"})
  /\ UNCHANGED <<qvars, request, blobs, counted, chunks, stored, overrun>>

(* The promise of a download resolves, or it never settles: there is no     *)
(* timeout, and no error is heard of once the response has begun, so when   *)
(* that stalls or is cut off the handler hangs, while BullMQ goes on        *)
(* renewing its lock.  (That it rejects is in Throw.)                       *)
downloadBuffer(next) == {next, "hung"}

(* Sign, download, parse and chunk: nothing shared is written, and a text   *)
(* without chunks skips the chunk collection altogether.                    *)
FetchAndParse(w) ==
  /\ At(w, "fetch")
  /\ running[w] \in blobs
  /\ Goto(w, downloadBuffer(IF NumChunks[running[w]] > 0 THEN "delete" ELSE "ready"))
  /\ UNCHANGED <<qvars, request, docs, stored, overrun>>

(* Variant: a retry does not clear what the last attempt inserted. *)
DeleteChunks_Forgotten(w) ==
  /\ At(w, "delete")
  /\ Goto(w, {"insert"})
  /\ UNCHANGED <<qvars, request, docs, stored, overrun>>

DeleteChunks(w) ==
  /\ At(w, "delete")
  /\ chunks' = [chunks EXCEPT ![running[w]] = [k \in 1..NumChunks[running[w]] |-> 0]]
  /\ Goto(w, {"insert", "catch"})
  /\ UNCHANGED <<qvars, request, blobs, status, counted, stored, overrun>>

(* insertMany is not atomic: the documents go in one after the other, in order. *)
InsertChunk(w) ==
  /\ At(w, "insert")
  /\ LET p == running[w]
         k == stored[w] + 1
     IN  /\ chunks' = [chunks EXCEPT ![p][k] = @ + 1]
         /\ stored' = [stored EXCEPT ![w] = k]
         /\ Goto(w, {IF k = NumChunks[p] THEN "ready" ELSE "insert", "catch"})
  /\ UNCHANGED <<qvars, request, blobs, status, counted, overrun>>

(* Variant: the job is acknowledged before the status is written. *)
MarkReady_AfterAck(w) ==
  /\ At(w, "ready")
  /\ \/ /\ HasLock(w)
        /\ jobState' = [jobState EXCEPT ![running[w]] = "completed"]
        /\ lock' = [lock EXCEPT ![running[w]] = NoSlot]
        /\ UNCHANGED <<status, counted, pc, running>>
     \/ /\ ~HasLock(w)
        /\ status' = [status EXCEPT ![running[w]] = "ready"]
        /\ counted' = counted \cup {running[w]}
        /\ running' = [running EXCEPT ![w] = NoJob]
        /\ Goto(w, {"idle"})
        /\ UNCHANGED <<jobState, lock>>
  /\ UNCHANGED <<attemptsMade, attemptsStarted, stalledCount, request, blobs, chunks,
                 stored, overrun>>

MarkReady(w) ==
  /\ At(w, "ready")
  /\ status' = [status EXCEPT ![running[w]] = "ready"]
  /\ counted' = counted \cup {running[w]}
  /\ Goto(w, {"return", "catch"})
  /\ UNCHANGED <<qvars, request, blobs, chunks, stored, overrun>>

Return(w) ==
  /\ At(w, "return")
  /\ QReturn(w)
  /\ Goto(w, {"idle"})
  /\ UNCHANGED <<request, docs, stored, overrun>>

(* A call of the try block rejects without effect: download, parse, storage, database. *)
Throw(w) ==
  /\ running[w] # NoJob
  /\ pc[w] \in {"find", "mark", "fetch", "delete", "insert", "ready"}
  /\ Goto(w, {"catch"})
  /\ UNCHANGED <<qvars, request, docs, stored, overrun>>

(* Variant: the handler retries by itself instead of rethrowing. *)
MarkFailed_RetriesInPlace(w) ==
  /\ At(w, "catch")
  /\ Goto(w, {"mark"})
  /\ stored' = [stored EXCEPT ![w] = 0]
  /\ UNCHANGED <<qvars, request, docs, overrun>>

(* The catch block marks the PDF failed; an error of that write is logged and dropped. *)
MarkFailed(w) ==
  /\ At(w, "catch")
  /\ \/ /\ status[running[w]] # "none"
        /\ status' = [status EXCEPT ![running[w]] = "failed"]
     \/ UNCHANGED status
  /\ Goto(w, {"rethrow"})
  /\ UNCHANGED <<qvars, request, blobs, counted, chunks, stored, overrun>>

(* Variant: the error is swallowed, so the queue takes the job as done. *)
Rethrow_Swallowed(w) ==
  /\ At(w, "rethrow")
  /\ QReturn(w)
  /\ Goto(w, {"idle"})
  /\ UNCHANGED <<request, docs, stored, overrun>>

Rethrow(w) ==
  /\ At(w, "rethrow")
  /\ QThrow(w)
  /\ Goto(w, {"idle"})
  /\ UNCHANGED <<request, docs, stored, overrun>>

-----------------------------------------------------------------------------
(* What happens around the handler. *)
Crash(w) ==
  /\ QCrash(w)
  /\ Goto(w, {"idle"})
  /\ UNCHANGED <<request, docs, stored, overrun>>

LockExpires(p) ==
  /\ QLockExpires(p)
  /\ overrun' = overrun \cup {p}
  /\ UNCHANGED <<request, docs, pc, stored>>

StalledCheck(p) ==
  /\ QStalledCheck(p)
  /\ UNCHANGED <<request, docs, pc, stored, overrun>>

Backoff(p) ==
  /\ QBackoff(p)
  /\ UNCHANGED <<request, docs, pc, stored, overrun>>

RequestStep(p) == UploadFile(p) \/ CreateRecord(p) \/ Enqueue(p) \/ RequestFails(p)

HandlerStep(w) ==
  \/ FindRecord(w) \/ MarkProcessing(w) \/ FetchAndParse(w) \/ DeleteChunks(w)
  \/ InsertChunk(w) \/ MarkReady(w) \/ Return(w) \/ Throw(w) \/ MarkFailed(w)
  \/ Rethrow(w)

Next ==
  \/ \E p \in Pdfs : RequestStep(p) \/ LockExpires(p) \/ StalledCheck(p) \/ Backoff(p)
  \/ \E w \in Slots : HandlerStep(w) \/ Crash(w)
  \/ \E w \in Slots, p \in Pdfs : Claim(w, p)

(* The event loop runs every handler on whose call has ended, which all do  *)
(* but a download that hangs; BullMQ polls its queue, promotes delayed jobs *)
(* and checks for stalled ones on timers.  Requests, crashes and lost locks *)
(* are owed nothing.                                                        *)
Fairness ==
  /\ \A w \in Slots : WF_vars(HandlerStep(w))
  /\ WF_vars(\E w \in Slots, p \in Pdfs : Claim(w, p))
  /\ \A p \in Pdfs : WF_vars(StalledCheck(p)) /\ WF_vars(Backoff(p))

Spec == Init /\ [][Next]_vars

FairSpec == Spec /\ Fairness

-----------------------------------------------------------------------------
TypeOK ==
  /\ QTypeOK
  /\ request \in [Pdfs -> Requests]
  /\ blobs \subseteq Pdfs
  /\ status \in [Pdfs -> Statuses]
  /\ counted \subseteq Pdfs
  /\ DOMAIN chunks = Pdfs
  /\ \A p \in Pdfs : chunks[p] \in [1..NumChunks[p] -> Nat]
  /\ pc \in [Slots -> Steps]
  /\ stored \in [Slots -> Nat]
  /\ overrun \subseteq Pdfs

(* A queued PDF has its record and its file: the worker can look up every  *)
(* job it is given, however the upload request ended.                       *)
QueuedIsStored ==
  \A p \in Pdfs : jobState[p] # "none" => status[p] # "none" /\ p \in blobs

(* A PDF that reads READY has every chunk of its text exactly once and its  *)
(* page count, through retries, crashes and redeliveries, as long as no     *)
(* handler of it outlived its lock: what MCQ generation and question        *)
(* answering read is never a prefix, never doubled.                         *)
ReadyIsExact ==
  \A p \in Pdfs : status[p] = "ready" /\ p \notin overrun => Exact(p) /\ p \in counted

(* A job that BullMQ has removed as completed left a PDF that reads READY:  *)
(* the acknowledgement never outruns the work it acknowledges, and no late  *)
(* failure of the same job overwrites it.                                   *)
CompletedIsReady ==
  \A p \in Pdfs : jobState[p] = "completed" /\ p \notin overrun => status[p] = "ready"

(* Even with zombie handlers, a chunk is stored at most once more than the  *)
(* stalled check took the job away from a slot: the copies a reader may     *)
(* meet are bounded by BullMQ's stall limit, not by the number of retries.  *)
DuplicationBound ==
  \A p \in Pdfs : \A k \in 1..NumChunks[p] : chunks[p][k] <= 1 + stalledCount[p]

(* When the queue is through with a job, nothing touches its PDF any more:  *)
(* what a reader saw of a settled PDF stays true.                           *)
SettledIsFinal ==
  [][\A p \in Pdfs : Settled(p) /\ p \notin overrun =>
        /\ status'[p] = status[p]
        /\ chunks'[p] = chunks[p]]_vars

(* Every job that reached the queue is settled in the end and its slots are *)
(* free again, whatever fails, crashes or stalls on the way, unless a slot  *)
(* is lost for good to a download that hangs.  Nothing else may keep a job. *)
SettlesUnlessHung ==
  \A p \in Pdfs : jobState[p] # "none" ~>
    \/ [](Settled(p) /\ \A w \in Slots : running[w] # p)
    \/ \E w \in Slots : [](pc[w] = "hung")

-----------------------------------------------------------------------------
(* The inductive invariant behind ReadyIsExact, CompletedIsReady and        *)
(* SettledIsFinal.  A PDF that is not overrun has one handler at most, the  *)
(* lock holder, so what that handler has done so far is what the            *)
(* collections hold.                                                        *)
RequestOrder ==
  \A p \in Pdfs :
    /\ request[p] \in {"new", "stored"} => status[p] = "none"
    /\ request[p] = "stored" => p \in blobs
    /\ request[p] = "recorded" => status[p] # "none" /\ p \in blobs
    /\ request[p] \in {"new", "stored", "recorded"} => jobState[p] = "none"

HandlerInStep ==
  \A w \in Slots :
    /\ running[w] = NoJob <=> pc[w] = "idle"
    /\ pc[w] \in {"find", "mark", "fetch", "hung", "delete"} => stored[w] = 0
    /\ pc[w] = "delete" => NumChunks[running[w]] > 0
    /\ pc[w] = "insert" => stored[w] < NumChunks[running[w]]

SoleHandler ==
  \A w \in Slots : running[w] # NoJob /\ running[w] \notin overrun => lock[running[w]] = w

Progress ==
  \A w \in Slots : running[w] # NoJob /\ running[w] \notin overrun =>
    LET p == running[w]
    IN  /\ pc[w] \in {"fetch", "hung", "delete", "insert", "ready"} => status[p] = "processing"
        /\ pc[w] = "insert" =>
             \A k \in 1..NumChunks[p] : chunks[p][k] = IF k <= stored[w] THEN 1 ELSE 0
        /\ pc[w] = "ready" => Exact(p)
        /\ pc[w] = "return" => status[p] = "ready"

IInv ==
  /\ TypeOK
  /\ QInv
  /\ RequestOrder
  /\ QueuedIsStored
  /\ HandlerInStep
  /\ SoleHandler
  /\ Progress
  /\ ReadyIsExact
  /\ CompletedIsReady

-----------------------------------------------------------------------------
(* The pipeline keeps the promise of PdfLifecycle: the reader's view. *)
Visible ==
  [p \in Pdfs |-> IF status[p] # "ready" THEN "hidden"
                  ELSE IF Exact(p) THEN "full" ELSE "partial"]

Lifecycle == INSTANCE PdfLifecycle WITH
  shown <- status,
  text  <- Visible,
  final <- {p \in Pdfs : Settled(p)},
  void  <- overrun

(* Every step of upload, queue and worker is a step of the reader's view or *)
(* does not show in it.                                                     *)
KeepsPromise == Lifecycle!LSpec

-----------------------------------------------------------------------------
(* What a comment of pdf.schema.ts says, and the code does not keep.        *)

(* pdf.schema.ts:10, "processing -> BullMQ worker is actively parsing       *)
(* pages": a PDF that reads PROCESSING has a handler, or a job that will    *)
(* get one.                                                                 *)
ProcessingIsWorkedOn ==
  \A p \in Pdfs : status[p] = "processing" =>
    ~Settled(p) \/ \E w \in Slots : running[w] = p
=============================================================================
