----------------------------- MODULE Evaluation -----------------------------
(***************************************************************************)
(* Answer evaluation: the submit request (EvaluationService.submit), the    *)
(* answer-evaluation queue, the worker that grades a submission with the    *)
(* AI and appends a versioned result (EvaluationWorker), and the page that  *)
(* polls for the newest result (useEvaluationResult, getResult).            *)
(*                                                                          *)
(* Results are append-only.  Of a result the model keeps its version and    *)
(* its place in insertion order, which stands for its scores and remarks:   *)
(* every grading is a new AI call and may judge differently.  Submitting s  *)
(* enqueues exactly one job, so job s is the job of submission s.           *)
(*                                                                          *)
(* A definition named Action_Word is Action with a plausible mistake; no    *)
(* specification uses it, it shows that a property notices the mistake.     *)
(***************************************************************************)
EXTENDS JobQueue, Sequences

CONSTANT WithFile   \* submissions that come with a PDF or an image

Submissions == Jobs

ASSUME WithFileAssumption == WithFile \subseteq Submissions

VARIABLES
  request,      \* how far the submit request of a submission has come
  submissions,  \* submissions that have a record in answer_submissions
  results,      \* results[s]: versions of s's evaluation_results, as inserted
  pc,           \* the next call of the handler in a slot
  latest,       \* the version the handler in a slot has read, 0 for none
  shown,        \* place of the result the page shows, 0 for none
  overrun       \* history: submissions whose handler outlived its job lock

vars == <<qvars, request, submissions, results, pc, latest, shown, overrun>>

Requests == {"new", "uploaded", "created", "accepted", "rejected"}
Steps    == {"idle", "find", "grade", "latest", "create", "return", "rethrow"}

Init ==
  /\ QInit
  /\ request = [s \in Submissions |-> IF s \in WithFile THEN "new" ELSE "uploaded"]
  /\ submissions = {}
  /\ results = [s \in Submissions |-> <<>>]
  /\ pc = [w \in Slots |-> "idle"]
  /\ latest = [w \in Slots |-> 0]
  /\ shown = [s \in Submissions |-> 0]
  /\ overrun = {}

(* findLatestBySubmissionId sorts by version and takes one document: among  *)
(* equal versions, any.                                                     *)
Newest(s) ==
  {i \in DOMAIN results[s] : \A k \in DOMAIN results[s] : results[s][k] <= results[s][i]}

-----------------------------------------------------------------------------
(* The submit request: a file is uploaded first, a text answer is not.      *)
UploadFile(s) ==
  /\ request[s] = "new"
  /\ request' = [request EXCEPT ![s] = "uploaded"]
  /\ UNCHANGED <<qvars, submissions, results, pc, latest, shown, overrun>>

(* Variant: the record is not awaited before the job is added. *)
CreateSubmission_Unawaited(s) ==
  /\ request[s] = "uploaded"
  /\ request' = [request EXCEPT ![s] = "created"]
  /\ UNCHANGED <<qvars, submissions, results, pc, latest, shown, overrun>>

CreateSubmission(s) ==
  /\ request[s] = "uploaded"
  /\ submissions' = submissions \cup {s}
  /\ request' \in {[request EXCEPT ![s] = r] : r \in {"created", "rejected"}}
  /\ UNCHANGED <<qvars, results, pc, latest, shown, overrun>>

Enqueue(s) ==
  /\ request[s] = "created"
  /\ QAdd(s)
  /\ request' \in {[request EXCEPT ![s] = r] : r \in {"accepted", "rejected"}}
  /\ UNCHANGED <<submissions, results, pc, latest, shown, overrun>>

(* The file type is not supported, a call rejects, the queue is disabled or *)
(* the process dies: what was stored stays stored.                          *)
RequestFails(s) ==
  /\ request[s] \in {"new", "uploaded", "created"}
  /\ request' = [request EXCEPT ![s] = "rejected"]
  /\ UNCHANGED <<qvars, submissions, results, pc, latest, shown, overrun>>

-----------------------------------------------------------------------------
(* The handler, processJob. *)
At(w, step) == running[w] # NoJob /\ pc[w] = step
Goto(w, S)  == \E s \in S : pc' = [pc EXCEPT ![w] = s]

Claim(w, s) ==
  /\ QClaim(w, s)
  /\ pc' = [pc EXCEPT ![w] = "find"]
  /\ latest' = [latest EXCEPT ![w] = 0]
  /\ UNCHANGED <<request, submissions, results, shown, overrun>>

FindSubmission(w) ==
  /\ At(w, "find")
  /\ Goto(w, IF running[w] \in submissions THEN {"grade"} ELSE {"rethrow"})
  /\ UNCHANGED <<qvars, request, submissions, results, latest, shown, overrun>>

(* Extract the text, ask the AI and parse its JSON; the text extractors are *)
(* stubs with a constant text, so an empty text does not occur.             *)
Grade(w) ==
  /\ At(w, "grade")
  /\ Goto(w, {"latest"})
  /\ UNCHANGED <<qvars, request, submissions, results, latest, shown, overrun>>

ReadLatest(w) ==
  /\ At(w, "latest")
  /\ \/ /\ results[running[w]] = <<>>
        /\ latest' = [latest EXCEPT ![w] = 0]
     \/ \E i \in Newest(running[w]) :
          latest' = [latest EXCEPT ![w] = results[running[w]][i]]
  /\ Goto(w, {"create"})
  /\ UNCHANGED <<qvars, request, submissions, results, shown, overrun>>

(* Variant: the new result is stored under the version that was read. *)
CreateResult_SameVersion(w) ==
  /\ At(w, "create")
  /\ results' = [results EXCEPT ![running[w]] = Append(@, latest[w])]
  /\ Goto(w, {"return", "rethrow"})
  /\ UNCHANGED <<qvars, request, submissions, latest, shown, overrun>>

(* Variant: version numbers count the starts of the job. *)
CreateResult_CountsStarts(w) ==
  /\ At(w, "create")
  /\ results' = [results EXCEPT ![running[w]] = Append(@, attemptsStarted[running[w]])]
  /\ Goto(w, {"return", "rethrow"})
  /\ UNCHANGED <<qvars, request, submissions, latest, shown, overrun>>

(* Variant: the job is acknowledged although the insert was rejected. *)
CreateResult_NotAwaited(w) ==
  /\ At(w, "create")
  /\ results' \in {results, [results EXCEPT ![running[w]] = Append(@, latest[w] + 1)]}
  /\ Goto(w, {"return"})
  /\ UNCHANGED <<qvars, request, submissions, latest, shown, overrun>>

(* Variant: a rejected insert is tried again at once, in the handler. *)
CreateResult_InsertsAgain(w) ==
  /\ At(w, "create")
  /\ Len(results[running[w]]) < 8
  /\ results' = [results EXCEPT ![running[w]] = Append(@, latest[w] + 1)]
  /\ latest' = [latest EXCEPT ![w] = @ + 1]
  /\ Goto(w, {"return", "create"})
  /\ UNCHANGED <<qvars, request, submissions, shown, overrun>>

CreateResult(w) ==
  /\ At(w, "create")
  /\ results' = [results EXCEPT ![running[w]] = Append(@, latest[w] + 1)]
  /\ Goto(w, {"return", "rethrow"})
  /\ UNCHANGED <<qvars, request, submissions, latest, shown, overrun>>

Return(w) ==
  /\ At(w, "return")
  /\ QReturn(w)
  /\ Goto(w, {"idle"})
  /\ UNCHANGED <<request, submissions, results, latest, shown, overrun>>

(* A call rejects without effect, or the AI's answer is not the JSON asked for. *)
Throw(w) ==
  /\ running[w] # NoJob
  /\ pc[w] \in {"find", "grade", "latest", "create"}
  /\ Goto(w, {"rethrow"})
  /\ UNCHANGED <<qvars, request, submissions, results, latest, shown, overrun>>

(* Variant: a failing grading is tried again without end. *)
Rethrow_Restarts(w) ==
  /\ At(w, "rethrow")
  /\ Goto(w, {"find"})
  /\ UNCHANGED <<qvars, request, submissions, results, latest, shown, overrun>>

Rethrow(w) ==
  /\ At(w, "rethrow")
  /\ QThrow(w)
  /\ Goto(w, {"idle"})
  /\ UNCHANGED <<request, submissions, results, latest, shown, overrun>>

-----------------------------------------------------------------------------
Crash(w) ==
  /\ QCrash(w)
  /\ Goto(w, {"idle"})
  /\ UNCHANGED <<request, submissions, results, latest, shown, overrun>>

LockExpires(s) ==
  /\ QLockExpires(s)
  /\ overrun' = overrun \cup {s}
  /\ UNCHANGED <<request, submissions, results, pc, latest, shown>>

StalledCheck(s) ==
  /\ QStalledCheck(s)
  /\ UNCHANGED <<request, submissions, results, pc, latest, shown, overrun>>

Backoff(s) ==
  /\ QBackoff(s)
  /\ UNCHANGED <<request, submissions, results, pc, latest, shown, overrun>>

(* Variant: the page takes any result of the submission. *)
Poll_AnyResult(s) ==
  /\ request[s] = "accepted"
  /\ \E i \in DOMAIN results[s] : shown' = [shown EXCEPT ![s] = i]
  /\ UNCHANGED <<qvars, request, submissions, results, pc, latest, overrun>>

(* The page asks for the newest result every four seconds, for as long as   *)
(* it is open; while there is none it gets an error and asks again.         *)
Poll(s) ==
  /\ request[s] = "accepted"
  /\ \E i \in Newest(s) : shown' = [shown EXCEPT ![s] = i]
  /\ UNCHANGED <<qvars, request, submissions, results, pc, latest, overrun>>

RequestStep(s) == UploadFile(s) \/ CreateSubmission(s) \/ Enqueue(s) \/ RequestFails(s)

HandlerStep(w) ==
  \/ FindSubmission(w) \/ Grade(w) \/ ReadLatest(w) \/ CreateResult(w)
  \/ Return(w) \/ Throw(w) \/ Rethrow(w)

Next ==
  \/ \E s \in Submissions :
       RequestStep(s) \/ LockExpires(s) \/ StalledCheck(s) \/ Backoff(s) \/ Poll(s)
  \/ \E w \in Slots : HandlerStep(w) \/ Crash(w)
  \/ \E w \in Slots, s \in Submissions : Claim(w, s)

(* The event loop runs every handler on, BullMQ's timers keep firing and an *)
(* open page keeps polling; requests, crashes and lost locks are owed       *)
(* nothing.                                                                 *)
Fairness ==
  /\ \A w \in Slots : WF_vars(HandlerStep(w))
  /\ WF_vars(\E w \in Slots, s \in Submissions : Claim(w, s))
  /\ \A s \in Submissions : WF_vars(StalledCheck(s)) /\ WF_vars(Backoff(s)) /\ WF_vars(Poll(s))

Spec == Init /\ [][Next]_vars

FairSpec == Spec /\ Fairness

-----------------------------------------------------------------------------
TypeOK ==
  /\ QTypeOK
  /\ request \in [Submissions -> Requests]
  /\ submissions \subseteq Submissions
  /\ results \in [Submissions -> Seq(Nat \ {0})]
  /\ pc \in [Slots -> Steps]
  /\ latest \in [Slots -> Nat]
  /\ shown \in [Submissions -> Nat]
  /\ overrun \subseteq Submissions

(* The results of a submission are numbered 1, 2, 3, ... in the order they  *)
(* were stored, through retries and redeliveries, as long as no handler of  *)
(* it outlived its lock: the read of the newest version and the insert are  *)
(* two calls, and nothing in the database makes a version unique.           *)
VersionsInOrder ==
  \A s \in Submissions : s \notin overrun =>
    \A i \in 1..Len(results[s]) : results[s][i] = i

(* Whatever overlaps, no version is skipped: below every stored version all *)
(* versions are stored, so the history a reader walks down has no hole.     *)
NoVersionSkipped ==
  \A s \in Submissions : \A i \in DOMAIN results[s] :
    results[s][i] > 1 => \E k \in DOMAIN results[s] : results[s][k] = results[s][i] - 1

(* A submission is not graded and stored more often than its job may start. *)
GradingsBounded ==
  \A s \in Submissions : Len(results[s]) <= MaxAttempts + MaxStalled

(* A job that was acknowledged has left a result. *)
CompletedHasResult ==
  \A s \in Submissions : jobState[s] = "completed" => results[s] # <<>>

(* What the page shows changes only to a result with a higher version,      *)
(* never back and never between two results of the same version.            *)
ShownMovesForward ==
  [][\A s \in Submissions : shown'[s] # shown[s] /\ shown[s] # 0 /\ s \notin overrun =>
        results'[s][shown'[s]] > results[s][shown[s]]]_vars

(* The version of the newest result, and of the one that is shown.          *)
NewestVersion ==
  [s \in Submissions |-> IF results[s] = <<>> THEN 0 ELSE results[s][CHOOSE i \in Newest(s) : TRUE]]

ShownVersion == [s \in Submissions |-> IF shown[s] = 0 THEN 0 ELSE results[s][shown[s]]]

History == INSTANCE GradingHistory WITH
  Sheets <- Submissions, newest <- NewestVersion, seen <- ShownVersion

(* Through retries, redeliveries, crashes and handlers that overlap, a      *)
(* reader sees one grading after the other and is shown the newest one.     *)
GradedOneByOne == History!HSpec

(* An open page gets to show a result, unless the job failed for good: the  *)
(* queue never loses an accepted submission.                                *)
AcceptedIsAnswered ==
  \A s \in Submissions : request[s] = "accepted" ~> shown[s] # 0 \/ jobState[s] = "failed"

-----------------------------------------------------------------------------
(* The inductive invariant behind VersionsInOrder, NoVersionSkipped and     *)
(* CompletedHasResult: what a handler has read is still the newest version  *)
(* while it is the only handler, and is a stored version in any case.       *)
HandlerInStep == \A w \in Slots : running[w] = NoJob <=> pc[w] = "idle"

SoleHandler ==
  \A w \in Slots : running[w] # NoJob /\ running[w] \notin overrun => lock[running[w]] = w

ReadIsNewest ==
  \A w \in Slots : pc[w] = "create" /\ running[w] \notin overrun =>
    latest[w] = Len(results[running[w]])

ReadIsStored ==
  \A w \in Slots : pc[w] = "create" /\ latest[w] # 0 =>
    \E k \in DOMAIN results[running[w]] : results[running[w]][k] = latest[w]

ReturnHasResult ==
  \A w \in Slots : pc[w] = "return" => results[running[w]] # <<>>

IInv ==
  /\ TypeOK
  /\ QInv
  /\ HandlerInStep
  /\ SoleHandler
  /\ ReadIsNewest
  /\ ReadIsStored
  /\ ReturnHasResult
  /\ VersionsInOrder
  /\ NoVersionSkipped
  /\ CompletedHasResult

-----------------------------------------------------------------------------
(* evaluation-result.schema.ts:9, "Re-evaluation creates a new document     *)
(* with version+1": no two results of a submission have the same version.   *)
VersionsUnique ==
  \A s \in Submissions : \A i, k \in DOMAIN results[s] : results[s][i] = results[s][k] => i = k
=============================================================================
