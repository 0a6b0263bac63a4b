--------------------------- MODULE JobQueueProofs ---------------------------
(***************************************************************************)
(* The queue's invariant, proved of its actions alone, so that every        *)
(* pipeline built on JobQueue can cite it.                                  *)
(***************************************************************************)
EXTENDS JobQueue, FiniteSetTheorems, TLAPS

(* The empty queue satisfies the queue invariant. *)
LEMMA QInitInv == QInit => QInv
  BY QueueAssumption
  DEF QInit, QInv, QTypeOK, LockHolderRuns, RunningWasAdded, StartsAccountedFor, OpenStart,
      JobStates

(* No queue action, taken by any handler, breaks the queue invariant: the   *)
(* type, that a lock is held by the slot that runs the job, and that every  *)
(* start is accounted for.                                                  *)
LEMMA QNextInv == QInv /\ [QNext]_qvars => QInv'
<1> SUFFICES ASSUME QInv, [QNext]_qvars PROVE QInv'
  OBVIOUS
<1> USE QueueAssumption
        DEF QInv, QTypeOK, LockHolderRuns, RunningWasAdded, StartsAccountedFor, OpenStart,
            JobStates, HasLock
<1>1. ASSUME NEW j \in Jobs, QAdd(j) PROVE QInv'
  BY <1>1 DEF QAdd
<1>2. ASSUME NEW j \in Jobs, QBackoff(j) PROVE QInv'
  BY <1>2 DEF QBackoff
<1>3. ASSUME NEW j \in Jobs, QLockExpires(j) PROVE QInv'
  BY <1>3 DEF QLockExpires
<1>4. ASSUME NEW j \in Jobs, QStalledCheck(j) PROVE QInv'
  BY <1>4 DEF QStalledCheck
<1>5. ASSUME NEW w \in Slots, QReturn(w) PROVE QInv'
  <2>1. CASE HasLock(w)
    BY <1>5, <2>1 DEF QReturn
  <2>2. CASE ~HasLock(w)
    BY <1>5, <2>2 DEF QReturn
  <2>. QED BY <2>1, <2>2
<1>6. ASSUME NEW w \in Slots, QThrow(w) PROVE QInv'
  <2>1. CASE HasLock(w)
    <3>1. /\ running[w] \in Jobs /\ jobState[running[w]] = "active"
          /\ attemptsMade[running[w]] < MaxAttempts
      BY <1>6, <2>1 DEF QThrow
    <3>2. QTypeOK'
      BY <1>6, <2>1, <3>1 DEF QThrow
    <3>3. LockHolderRuns' /\ RunningWasAdded'
      BY <1>6, <2>1, <3>1 DEF QThrow
    <3>4. StartsAccountedFor'
      BY <1>6, <2>1, <3>1 DEF QThrow
    <3>5. QED BY <3>2, <3>3, <3>4
  <2>2. CASE ~HasLock(w)
    BY <1>6, <2>2 DEF QThrow
  <2>. QED BY <2>1, <2>2
<1>7. ASSUME NEW w \in Slots, QCrash(w) PROVE QInv'
  BY <1>7 DEF QCrash
<1>8. ASSUME NEW w \in Slots, NEW j \in Jobs, QClaim(w, j) PROVE QInv'
  BY <1>8 DEF QClaim
<1>9. CASE UNCHANGED qvars
  BY <1>9 DEF qvars
<1>10. QED
  BY <1>1, <1>2, <1>3, <1>4, <1>5, <1>6, <1>7, <1>8, <1>9 DEF QNext

(* The run budget of a job follows from the queue invariant. *)
LEMMA RunBudgetHolds == QInv => RunBudget
<1> SUFFICES ASSUME QInv, NEW j \in Jobs
             PROVE  attemptsStarted[j] <= MaxAttempts + MaxStalled
  BY DEF RunBudget
<1>1. /\ attemptsMade[j] \in Nat /\ attemptsMade[j] <= MaxAttempts
      /\ stalledCount[j] \in Nat /\ stalledCount[j] <= MaxStalled + 1
      /\ MaxAttempts \in Nat /\ MaxStalled \in Nat
  BY QueueAssumption DEF QInv, QTypeOK
<1>2. attemptsStarted[j] = attemptsMade[j] + stalledCount[j] + OpenStart(j)
  BY DEF QInv, StartsAccountedFor
<1>3. CASE jobState[j] = "failed"
  <2>1. attemptsMade[j] < MaxAttempts \/ stalledCount[j] <= MaxStalled
    BY <1>3 DEF QInv, StartsAccountedFor
  <2>2. OpenStart(j) = 0
    BY <1>3 DEF OpenStart
  <2>3. QED BY <1>1, <1>2, <2>1, <2>2
<1>4. CASE jobState[j] # "failed"
  <2>1. attemptsMade[j] < MaxAttempts /\ stalledCount[j] <= MaxStalled
    BY <1>4 DEF QInv, StartsAccountedFor
  <2>2. OpenStart(j) \in {0, 1}
    BY DEF OpenStart
  <2>3. QED BY <1>1, <1>2, <2>1, <2>2
<1>5. QED BY <1>3, <1>4

-----------------------------------------------------------------------------
(* The handlers of a job, the lock holder and those that outlived their lock. *)
Handlers(j) == {w \in Slots : running[w] = j}

OpenRun(j) == IF jobState[j] = "active" THEN 1 ELSE 0

(* A job has no more handlers than the stalled check took it away from a    *)
(* slot, plus the one that is under way.                                    *)
HandlersAccountedFor ==
  \A j \in Jobs : Cardinality(Handlers(j)) <= stalledCount[j] + OpenRun(j)

(* A set of handlers is finite, as the slots are. *)
LEMMA HandlersFinite == \A j : IsFiniteSet(Handlers(j)) /\ Cardinality(Handlers(j)) \in Nat
<1>1. \A j : Handlers(j) \subseteq Slots
  BY DEF Handlers
<1>2. QED BY <1>1, SlotsAssumption, FS_Subset, FS_CardinalityType

(* The empty queue runs no handler. *)
LEMMA HandlersInit == QInit => HandlersAccountedFor
<1> SUFFICES ASSUME QInit PROVE HandlersAccountedFor
  OBVIOUS
<1>1. \A j \in Jobs : Handlers(j) = {}
  BY QueueAssumption DEF QInit, Handlers
<1>2. \A j \in Jobs : stalledCount[j] = 0 /\ OpenRun(j) = 0
  BY DEF QInit, OpenRun
<1>3. QED BY <1>1, <1>2, FS_EmptySet DEF HandlersAccountedFor

(* A handler that ends leaves one handler less and closes at most its own run. *)
LEMMA HandlerGone ==
  ASSUME QInv, HandlersAccountedFor, NEW w \in Slots, NEW i \in Jobs, running[w] = i,
         running' = [running EXCEPT ![w] = NoJob], UNCHANGED stalledCount,
         \A j \in Jobs : j # i => jobState'[j] = jobState[j]
  PROVE  HandlersAccountedFor'
<1>1. Handlers(i)' = Handlers(i) \ {w} /\ w \in Handlers(i)
  BY QueueAssumption DEF Handlers, QInv, QTypeOK
<1>2. Cardinality(Handlers(i)') = Cardinality(Handlers(i)) - 1
  BY <1>1, HandlersFinite, FS_RemoveElement
<1>3. \A j \in Jobs : j # i => Handlers(j)' = Handlers(j)
  BY QueueAssumption DEF Handlers, QInv, QTypeOK
<1>4. Cardinality(Handlers(i)') <= stalledCount[i] + OpenRun(i)'
  <2>1. Cardinality(Handlers(i)) <= stalledCount[i] + OpenRun(i)
    BY DEF HandlersAccountedFor
  <2>2. OpenRun(i) \in {0, 1} /\ OpenRun(i)' \in {0, 1}
    BY DEF OpenRun
  <2>3. Cardinality(Handlers(i)) \in Nat /\ stalledCount[i] \in Nat
    BY HandlersFinite, QueueAssumption DEF QInv, QTypeOK
  <2>4. QED BY <1>2, <2>1, <2>2, <2>3
<1>5. \A j \in Jobs : j # i => Cardinality(Handlers(j)') <= stalledCount[j] + OpenRun(j)'
  BY <1>3 DEF HandlersAccountedFor, OpenRun
<1>6. QED BY <1>4, <1>5 DEF HandlersAccountedFor

(* No queue action, taken by any handler, makes more handlers of a job than  *)
(* its stalls account for.                                                  *)
LEMMA HandlersNext ==
  ASSUME QInv, HandlersAccountedFor, [QNext]_qvars PROVE HandlersAccountedFor'
<1>1. ASSUME NEW i \in Jobs, QAdd(i) \/ QBackoff(i) \/ QLockExpires(i)
      PROVE  HandlersAccountedFor'
  <2>1. \A j \in Jobs : Handlers(j)' = Handlers(j) /\ stalledCount'[j] = stalledCount[j]
    BY <1>1 DEF QAdd, QBackoff, QLockExpires, Handlers
  <2>2. \A j \in Jobs : OpenRun(j)' = OpenRun(j)
    BY <1>1 DEF QAdd, QBackoff, QLockExpires, OpenRun, QInv, QTypeOK
  <2>3. QED BY <2>1, <2>2 DEF HandlersAccountedFor
<1>2. ASSUME NEW i \in Jobs, QStalledCheck(i) PROVE HandlersAccountedFor'
  <2>1. \A j \in Jobs : Handlers(j)' = Handlers(j)
    BY <1>2 DEF QStalledCheck, Handlers
  <2>2. /\ OpenRun(i) = 1 /\ OpenRun(i)' = 0 /\ stalledCount'[i] = stalledCount[i] + 1
        /\ stalledCount[i] \in Nat
    BY <1>2, QueueAssumption DEF QStalledCheck, OpenRun, QInv, QTypeOK
  <2>3. \A j \in Jobs : j # i => OpenRun(j)' = OpenRun(j) /\ stalledCount'[j] = stalledCount[j]
    BY <1>2 DEF QStalledCheck, OpenRun, QInv, QTypeOK
  <2>4. \A j \in Jobs : stalledCount'[j] + OpenRun(j)' = stalledCount[j] + OpenRun(j)
    BY <2>2, <2>3
  <2>5. QED BY <2>1, <2>4 DEF HandlersAccountedFor
<1>3. ASSUME NEW w \in Slots, QReturn(w) \/ QThrow(w) \/ QCrash(w) PROVE HandlersAccountedFor'
  <2>1. PICK i \in Jobs : running[w] = i
    BY <1>3 DEF QReturn, QThrow, QCrash, QInv, QTypeOK
  <2>2. /\ running' = [running EXCEPT ![w] = NoJob] /\ UNCHANGED stalledCount
        /\ \A j \in Jobs : j # i => jobState'[j] = jobState[j]
    BY <1>3, <2>1 DEF QReturn, QThrow, QCrash, QInv, QTypeOK
  <2>3. QED BY <2>1, <2>2, HandlerGone
<1>4. ASSUME NEW w \in Slots, NEW i \in Jobs, QClaim(w, i) PROVE HandlersAccountedFor'
  <2>1. w \notin Handlers(i) /\ Handlers(i)' = Handlers(i) \cup {w}
    BY <1>4, QueueAssumption DEF QClaim, Handlers, QInv, QTypeOK
  <2>2. Cardinality(Handlers(i)') = Cardinality(Handlers(i)) + 1
    BY <2>1, HandlersFinite, FS_AddElement
  <2>3. OpenRun(i) = 0 /\ OpenRun(i)' = 1 /\ stalledCount[i] \in Nat /\ UNCHANGED stalledCount
    BY <1>4, QueueAssumption DEF QClaim, OpenRun, QInv, QTypeOK
  <2>4. \A j \in Jobs : j # i => Handlers(j)' = Handlers(j) /\ OpenRun(j)' = OpenRun(j)
    BY <1>4, QueueAssumption DEF QClaim, Handlers, OpenRun, QInv, QTypeOK
  <2>5. Cardinality(Handlers(i)') <= stalledCount'[i] + OpenRun(i)'
    <3>1. Cardinality(Handlers(i)) <= stalledCount[i] + OpenRun(i)
      BY DEF HandlersAccountedFor
    <3>2. Cardinality(Handlers(i)) \in Nat
      BY HandlersFinite
    <3>3. QED BY <2>2, <2>3, <3>1, <3>2
  <2>6. \A j \in Jobs : j # i => Cardinality(Handlers(j)') <= stalledCount'[j] + OpenRun(j)'
    BY <2>3, <2>4 DEF HandlersAccountedFor
  <2>7. QED BY <2>5, <2>6 DEF HandlersAccountedFor
<1>5. CASE UNCHANGED qvars
  BY <1>5 DEF qvars, HandlersAccountedFor, Handlers, OpenRun
<1>6. QED
  BY <1>1, <1>2, <1>3, <1>4, <1>5 DEF QNext

-----------------------------------------------------------------------------
(* A job is given up only when its attempts are used or BullMQ forgives no  *)
(* more stalls.                                                             *)
FailedIsExhausted ==
  \A j \in Jobs : jobState[j] = "failed" =>
    attemptsMade[j] = MaxAttempts \/ stalledCount[j] = MaxStalled + 1

(* No job of the empty queue was given up. *)
LEMMA ExhaustedInit == QInit => FailedIsExhausted
  BY DEF QInit, FailedIsExhausted

(* No queue action gives a job up before. *)
LEMMA ExhaustedNext == QInv /\ FailedIsExhausted /\ [QNext]_qvars => FailedIsExhausted'
<1> SUFFICES ASSUME QInv, FailedIsExhausted, [QNext]_qvars PROVE FailedIsExhausted'
  OBVIOUS
<1> USE QueueAssumption DEF QInv, QTypeOK, FailedIsExhausted
<1>1. ASSUME NEW j \in Jobs, QAdd(j) \/ QBackoff(j) \/ QLockExpires(j)
      PROVE  FailedIsExhausted'
  BY <1>1 DEF QAdd, QBackoff, QLockExpires
<1>2. ASSUME NEW j \in Jobs, QStalledCheck(j) PROVE FailedIsExhausted'
  <2>1. stalledCount[j] \in Nat /\ stalledCount[j] <= MaxStalled /\ jobState[j] = "active"
    BY <1>2 DEF QStalledCheck, StartsAccountedFor
  <2>2. /\ stalledCount'[j] = stalledCount[j] + 1
        /\ jobState'[j] = "failed" => stalledCount[j] + 1 > MaxStalled
    BY <1>2 DEF QStalledCheck
  <2>3. jobState'[j] = "failed" => stalledCount'[j] = MaxStalled + 1
    BY <2>1, <2>2
  <2>4. \A i \in Jobs : i # j => /\ jobState'[i] = jobState[i]
                                /\ stalledCount'[i] = stalledCount[i]
    BY <1>2 DEF QStalledCheck
  <2>5. UNCHANGED attemptsMade
    BY <1>2 DEF QStalledCheck
  <2>6. QED BY <2>3, <2>4, <2>5
<1>3. ASSUME NEW w \in Slots, QReturn(w) \/ QCrash(w) PROVE FailedIsExhausted'
  BY <1>3 DEF QReturn, QCrash
<1>4. ASSUME NEW w \in Slots, QThrow(w) PROVE FailedIsExhausted'
  <2>1. CASE HasLock(w)
    <3>1. running[w] \in Jobs /\ jobState[running[w]] = "active"
      BY <1>4, <2>1 DEF QThrow, HasLock, LockHolderRuns
    <3>2. attemptsMade[running[w]] + 1 <= MaxAttempts
      BY <3>1 DEF StartsAccountedFor
    <3>3. QED BY <1>4, <2>1, <3>1, <3>2 DEF QThrow
  <2>2. CASE ~HasLock(w)
    BY <1>4, <2>2 DEF QThrow
  <2>3. QED BY <2>1, <2>2
<1>5. ASSUME NEW w \in Slots, NEW j \in Jobs, QClaim(w, j) PROVE FailedIsExhausted'
  BY <1>5 DEF QClaim
<1>6. CASE UNCHANGED qvars
  BY <1>6 DEF qvars
<1>7. QED BY <1>1, <1>2, <1>3, <1>4, <1>5, <1>6 DEF QNext

(* A job is at rest when the queue is through with it and the last handler, *)
(* zombies included, has ended.                                             *)
AtRest(j) == Settled(j) /\ Handlers(j) = {}

(* No queue action wakes a job that is at rest. *)
LEMMA RestStays == ASSUME QInv, [QNext]_qvars, NEW j \in Jobs, AtRest(j) PROVE AtRest(j)'
<1>1. /\ jobState[j] \in {"completed", "failed"}
      /\ \A w \in Slots : running[w] # j
      /\ lock[j] = NoSlot
  BY QueueAssumption DEF AtRest, Settled, Handlers, QInv, QTypeOK, LockHolderRuns
<1>2. SUFFICES jobState'[j] = jobState[j] /\ \A w \in Slots : running'[w] # j
  BY <1>1 DEF AtRest, Settled, Handlers
<1> USE QueueAssumption DEF QInv, QTypeOK
<1>3. ASSUME NEW i \in Jobs, QAdd(i) \/ QBackoff(i) \/ QLockExpires(i) \/ QStalledCheck(i)
      PROVE  jobState'[j] = jobState[j] /\ \A w \in Slots : running'[w] # j
  BY <1>1, <1>3 DEF QAdd, QBackoff, QLockExpires, QStalledCheck
<1>4. ASSUME NEW w \in Slots, QReturn(w) \/ QThrow(w) \/ QCrash(w)
      PROVE  jobState'[j] = jobState[j] /\ \A v \in Slots : running'[v] # j
  <2>1. running[w] # j /\ running[w] \in Jobs /\ running' = [running EXCEPT ![w] = NoJob]
    BY <1>1, <1>4 DEF QReturn, QThrow, QCrash
  <2>2. jobState'[j] = jobState[j]
    BY <1>4, <2>1 DEF QReturn, QThrow, QCrash
  <2>3. QED BY <1>1, <2>1, <2>2
<1>5. ASSUME NEW w \in Slots, NEW i \in Jobs, QClaim(w, i)
      PROVE  jobState'[j] = jobState[j] /\ \A v \in Slots : running'[v] # j
  BY <1>1, <1>5 DEF QClaim
<1>6. CASE UNCHANGED qvars
  BY <1>1, <1>6 DEF qvars
<1>7. QED BY <1>3, <1>4, <1>5, <1>6 DEF QNext
=============================================================================
