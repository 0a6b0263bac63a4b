------------------------------ MODULE JobQueue ------------------------------
(***************************************************************************)
(* A BullMQ queue and the worker slots that serve it, as the three queues   *)
(* of the backend use it: one job per accepted request, a fixed number of   *)
(* attempts, exponential backoff, removal on completion (queue.service.ts). *)
(* BullMQ itself is not in the repository; the actions below say what the   *)
(* code relies on:                                                          *)
(*                                                                          *)
(*  - a worker slot claims a waiting job and holds the job's lock;          *)
(*  - a handler that returns completes the job, one that throws costs an    *)
(*    attempt, and both count only while the slot still holds the lock;     *)
(*  - a lock is lost when its process dies, or when the process is alive    *)
(*    but its event loop was blocked past the lock's duration;              *)
(*  - the stalled check puts an active job without a lock back in the queue *)
(*    MaxStalled times and then fails it, without running the handler.      *)
(*                                                                          *)
(* A slot is one unit of a worker's `concurrency`, over all the containers  *)
(* that run the backend; a slot whose lock expired keeps running its        *)
(* handler (a zombie) until the handler ends.                               *)
(***************************************************************************)
EXTENDS Integers, FiniteSets

CONSTANTS
  Jobs,         \* the jobs that may be enqueued
  Slots,        \* worker slots (concurrency x containers)
  NoJob,        \* the job of an idle slot
  NoSlot,       \* the lock of a job that nobody holds
  MaxAttempts,  \* `attempts` of the job options
  MaxStalled    \* BullMQ's maxStalledCount (default 1; no worker sets it)

ASSUME QueueAssumption ==
  /\ NoJob \notin Jobs
  /\ NoSlot \notin Slots
  /\ MaxAttempts \in Nat \ {0}
  /\ MaxStalled \in Nat

ASSUME SlotsAssumption == IsFiniteSet(Slots)

VARIABLES
  jobState,         \* where the job is in Redis
  attemptsMade,     \* attempts that ended in a throw
  attemptsStarted,  \* times a slot claimed the job
  stalledCount,     \* times the stalled check found the job
  lock,             \* the slot that holds the job's lock
  running           \* the job whose handler a slot is running

qvars == <<jobState, attemptsMade, attemptsStarted, stalledCount, lock, running>>

JobStates == {"none", "wait", "active", "delayed", "completed", "failed"}

QInit ==
  /\ jobState        = [j \in Jobs |-> "none"]
  /\ attemptsMade    = [j \in Jobs |-> 0]
  /\ attemptsStarted = [j \in Jobs |-> 0]
  /\ stalledCount    = [j \in Jobs |-> 0]
  /\ lock            = [j \in Jobs |-> NoSlot]
  /\ running         = [w \in Slots |-> NoJob]

Settled(j) == jobState[j] \in {"completed", "failed"}

HasLock(w) == lock[running[w]] = w

-----------------------------------------------------------------------------
(* Queue.add: the job waits for a slot. *)
QAdd(j) ==
  /\ jobState[j] = "none"
  /\ jobState' = [jobState EXCEPT ![j] = "wait"]
  /\ UNCHANGED <<attemptsMade, attemptsStarted, stalledCount, lock, running>>

(* An idle slot takes a waiting job and its lock. *)
QClaim(w, j) ==
  /\ running[w] = NoJob
  /\ jobState[j] = "wait"
  /\ jobState' = [jobState EXCEPT ![j] = "active"]
  /\ attemptsStarted' = [attemptsStarted EXCEPT ![j] = @ + 1]
  /\ lock' = [lock EXCEPT ![j] = w]
  /\ running' = [running EXCEPT ![w] = j]
  /\ UNCHANGED <<attemptsMade, stalledCount>>

(* The handler returned: without the lock the acknowledgement is refused. *)
QReturn(w) ==
  /\ running[w] # NoJob
  /\ running' = [running EXCEPT ![w] = NoJob]
  /\ \/ /\ HasLock(w)
        /\ jobState' = [jobState EXCEPT ![running[w]] = "completed"]
        /\ lock' = [lock EXCEPT ![running[w]] = NoSlot]
     \/ /\ ~HasLock(w)
        /\ UNCHANGED <<jobState, lock>>
  /\ UNCHANGED <<attemptsMade, attemptsStarted, stalledCount>>

(* Variant: one retry too many. *)
QThrow_OffByOne(w) ==
  /\ running[w] # NoJob
  /\ HasLock(w)
  /\ running' = [running EXCEPT ![w] = NoJob]
  /\ attemptsMade' = [attemptsMade EXCEPT ![running[w]] = @ + 1]
  /\ jobState' = [jobState EXCEPT ![running[w]] =
       IF attemptsMade[running[w]] < MaxAttempts THEN "delayed" ELSE "failed"]
  /\ lock' = [lock EXCEPT ![running[w]] = NoSlot]
  /\ UNCHANGED <<attemptsStarted, stalledCount>>

(* The handler threw: retry after a delay while attempts are left. *)
QThrow(w) ==
  /\ running[w] # NoJob
  /\ running' = [running EXCEPT ![w] = NoJob]
  /\ \/ /\ HasLock(w)
        /\ attemptsMade' = [attemptsMade EXCEPT ![running[w]] = @ + 1]
        /\ jobState' = [jobState EXCEPT ![running[w]] =
             IF attemptsMade[running[w]] + 1 < MaxAttempts THEN "delayed" ELSE "failed"]
        /\ lock' = [lock EXCEPT ![running[w]] = NoSlot]
     \/ /\ ~HasLock(w)
        /\ UNCHANGED <<attemptsMade, jobState, lock>>
  /\ UNCHANGED <<attemptsStarted, stalledCount>>

(* The backoff delay has passed. *)
QBackoff(j) ==
  /\ jobState[j] = "delayed"
  /\ jobState' = [jobState EXCEPT ![j] = "wait"]
  /\ UNCHANGED <<attemptsMade, attemptsStarted, stalledCount, lock, running>>

(* The process of slot w dies: its handler is gone and its lock expires. *)
QCrash(w) ==
  /\ running[w] # NoJob
  /\ running' = [running EXCEPT ![w] = NoJob]
  /\ lock' = [j \in Jobs |-> IF lock[j] = w THEN NoSlot ELSE lock[j]]
  /\ UNCHANGED <<jobState, attemptsMade, attemptsStarted, stalledCount>>

(* The lock expires while its holder's event loop is blocked; the handler *)
(* goes on when the loop is free again.                                    *)
QLockExpires(j) ==
  /\ lock[j] # NoSlot
  /\ lock' = [lock EXCEPT ![j] = NoSlot]
  /\ UNCHANGED <<jobState, attemptsMade, attemptsStarted, stalledCount, running>>

(* The stalled check finds an active job that nobody has locked. *)
QStalledCheck(j) ==
  /\ jobState[j] = "active"
  /\ lock[j] = NoSlot
  /\ stalledCount' = [stalledCount EXCEPT ![j] = @ + 1]
  /\ jobState' = [jobState EXCEPT ![j] =
       IF stalledCount[j] + 1 > MaxStalled THEN "failed" ELSE "wait"]
  /\ UNCHANGED <<attemptsMade, attemptsStarted, lock, running>>

QNext ==
  \/ \E j \in Jobs : QAdd(j) \/ QBackoff(j) \/ QLockExpires(j) \/ QStalledCheck(j)
  \/ \E w \in Slots : QReturn(w) \/ QThrow(w) \/ QCrash(w)
  \/ \E w \in Slots, j \in Jobs : QClaim(w, j)

-----------------------------------------------------------------------------
QTypeOK ==
  /\ jobState        \in [Jobs -> JobStates]
  /\ attemptsMade    \in [Jobs -> 0..MaxAttempts]
  /\ attemptsStarted \in [Jobs -> Nat]
  /\ stalledCount    \in [Jobs -> 0..(MaxStalled + 1)]
  /\ lock            \in [Jobs -> Slots \cup {NoSlot}]
  /\ running         \in [Slots -> Jobs \cup {NoJob}]

(* A lock is held by a slot that is running that very job, and only while  *)
(* the job is active.                                                       *)
LockHolderRuns ==
  \A j \in Jobs : lock[j] # NoSlot => jobState[j] = "active" /\ running[lock[j]] = j

(* A handler, zombie or not, runs a job that was enqueued. *)
RunningWasAdded ==
  \A w \in Slots : running[w] # NoJob => jobState[running[w]] # "none"

(* Every start of a job is accounted for by a throw, by a stall, or by the  *)
(* one start that is under way or that completed.                           *)
OpenStart(j) == IF jobState[j] \in {"active", "completed"} THEN 1 ELSE 0

StartsAccountedFor ==
  \A j \in Jobs :
    /\ attemptsStarted[j] = attemptsMade[j] + stalledCount[j] + OpenStart(j)
    /\ jobState[j] # "failed" => attemptsMade[j] < MaxAttempts /\ stalledCount[j] <= MaxStalled
    /\ jobState[j] = "failed" => attemptsMade[j] < MaxAttempts \/ stalledCount[j] <= MaxStalled

QInv == QTypeOK /\ LockHolderRuns /\ RunningWasAdded /\ StartsAccountedFor

(* No job's handler is started more often than its attempts plus the stalls *)
(* BullMQ forgives: what bounds the storage downloads, the chunk rewrites   *)
(* and the paid AI calls one request can cause.                             *)
RunBudget == \A j \in Jobs : attemptsStarted[j] <= MaxAttempts + MaxStalled
=============================================================================
