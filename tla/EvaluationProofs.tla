-------------------------- MODULE EvaluationProofs --------------------------
(***************************************************************************)
(* Proofs about Evaluation, for any number of submissions, slots, attempts  *)
(* and forgiven stalls.                                                     *)
(***************************************************************************)
EXTENDS Evaluation, JobQueueProofs, FiniteSetTheorems

(* Submit, worker, recovery and page use the queue through its actions only. *)
LEMMA QueueStep == [Next]_vars => [QNext]_qvars
<1> SUFFICES ASSUME [Next]_vars PROVE [QNext]_qvars
  OBVIOUS
<1> USE DEF QNext, Submissions
<1>1. ASSUME NEW s \in Submissions, RequestStep(s) PROVE [QNext]_qvars
  BY <1>1 DEF RequestStep, UploadFile, CreateSubmission, Enqueue, RequestFails
<1>2. ASSUME NEW s \in Submissions, LockExpires(s) \/ StalledCheck(s) \/ Backoff(s) \/ Poll(s)
      PROVE [QNext]_qvars
  BY <1>2 DEF LockExpires, StalledCheck, Backoff, Poll
<1>3. ASSUME NEW w \in Slots, HandlerStep(w) PROVE [QNext]_qvars
  <2>1. CASE Return(w) \/ Rethrow(w)
    BY <2>1 DEF Return, Rethrow
  <2>2. CASE ~(Return(w) \/ Rethrow(w))
    BY <1>3, <2>2 DEF HandlerStep, FindSubmission, Grade, ReadLatest, CreateResult, Throw
  <2>3. QED BY <2>1, <2>2
<1>4. ASSUME NEW w \in Slots, Crash(w) PROVE [QNext]_qvars
  BY <1>4 DEF Crash
<1>5. ASSUME NEW w \in Slots, NEW s \in Submissions, Claim(w, s) PROVE [QNext]_qvars
  BY <1>5 DEF Claim
<1>6. CASE UNCHANGED vars
  BY <1>6 DEF vars, qvars
<1>7. QED
  BY <1>1, <1>2, <1>3, <1>4, <1>5, <1>6 DEF Next

(* The initial state satisfies the inductive invariant. *)
LEMMA InitInv == Init => IInv
<1> SUFFICES ASSUME Init PROVE IInv
  OBVIOUS
<1>1. QInv
  BY QInitInv DEF Init
<1>2. TypeOK
  BY <1>1 DEF Init, TypeOK, QInv, Requests, Steps
<1>3. /\ HandlerInStep /\ SoleHandler /\ ReadIsNewest /\ ReadIsStored /\ ReturnHasResult
      /\ VersionsInOrder /\ NoVersionSkipped /\ CompletedHasResult
  BY DEF Init, QInit, HandlerInStep, SoleHandler, ReadIsNewest, ReadIsStored, ReturnHasResult,
     VersionsInOrder, NoVersionSkipped, CompletedHasResult, Submissions
<1>4. QED BY <1>1, <1>2, <1>3 DEF IInv

(* Steps that leave the stored results alone keep what is known of them. *)
LEMMA ResultsStill ==
  ASSUME IInv, UNCHANGED results, overrun \subseteq overrun'
  PROVE  VersionsInOrder' /\ NoVersionSkipped'
  BY DEF IInv, VersionsInOrder, NoVersionSkipped

(* Steps of the request and of the page keep the invariant. *)
LEMMA OutsideInv ==
  ASSUME IInv, QInv', NEW s \in Submissions, RequestStep(s) \/ Poll(s) PROVE IInv'
<1>1. /\ UNCHANGED <<results, pc, latest, overrun, running, lock>>
      /\ \A t \in Submissions : jobState'[t] = "completed" => jobState[t] = "completed"
  BY DEF RequestStep, UploadFile, CreateSubmission, Enqueue, RequestFails, Poll, qvars, QAdd,
     IInv, TypeOK, QTypeOK, Submissions
<1>2. TypeOK'
  <2>1. QTypeOK' BY DEF QInv
  <2>2. CASE RequestStep(s)
    BY <2>1, <2>2 DEF RequestStep, UploadFile, CreateSubmission, Enqueue, RequestFails, IInv,
       TypeOK, Requests
  <2>3. CASE Poll(s)
    BY <2>1, <2>3 DEF Poll, Newest, IInv, TypeOK
  <2>4. QED BY <2>2, <2>3
<1>3. VersionsInOrder' /\ NoVersionSkipped'
  BY <1>1, ResultsStill
<1>4. HandlerInStep' /\ SoleHandler' /\ ReadIsNewest' /\ ReadIsStored' /\ ReturnHasResult'
  BY <1>1 DEF IInv, HandlerInStep, SoleHandler, ReadIsNewest, ReadIsStored, ReturnHasResult
<1>5. CompletedHasResult'
  BY <1>1 DEF IInv, CompletedHasResult
<1>6. QED BY <1>2, <1>3, <1>4, <1>5 DEF IInv

(* The steps of the queue around the handler keep the invariant. *)
LEMMA RecoveryInv ==
  ASSUME IInv, QInv', NEW s \in Submissions, LockExpires(s) \/ StalledCheck(s) \/ Backoff(s)
  PROVE  IInv'
<1>1. /\ UNCHANGED <<results, pc, latest, running>> /\ overrun \subseteq overrun'
      /\ \A t \in Submissions : jobState'[t] = "completed" => jobState[t] = "completed"
      /\ \A t \in Submissions : t \notin overrun' => lock'[t] = lock[t]
  BY DEF LockExpires, StalledCheck, Backoff, QLockExpires, QStalledCheck, QBackoff, IInv, TypeOK,
     QTypeOK, Submissions
<1>2. TypeOK'
  BY DEF QInv, LockExpires, StalledCheck, Backoff, IInv, TypeOK
<1>3. VersionsInOrder' /\ NoVersionSkipped'
  BY <1>1, ResultsStill
<1>4. HandlerInStep' /\ ReadIsNewest' /\ ReadIsStored' /\ ReturnHasResult'
  BY <1>1 DEF IInv, HandlerInStep, ReadIsNewest, ReadIsStored, ReturnHasResult
<1>5. SoleHandler'
  BY <1>1 DEF IInv, SoleHandler, TypeOK, QTypeOK, Submissions
<1>6. CompletedHasResult'
  BY <1>1 DEF IInv, CompletedHasResult
<1>7. QED BY <1>2, <1>3, <1>4, <1>5, <1>6 DEF IInv

(* A claim keeps the invariant: the handler has read nothing yet. *)
LEMMA ClaimInv ==
  ASSUME IInv, QInv', NEW w \in Slots, NEW s \in Submissions, Claim(w, s) PROVE IInv'
<1>1. TypeOK'
  BY DEF QInv, TypeOK, Claim, Steps, IInv
<1>2. \A v \in Slots : running[v] = s => s \in overrun
  BY QueueAssumption DEF Claim, QClaim, SoleHandler, QInv, LockHolderRuns, IInv, Submissions
<1>3. VersionsInOrder' /\ NoVersionSkipped'
  BY ResultsStill DEF Claim
<1>4. HandlerInStep' /\ SoleHandler'
  BY <1>2, QueueAssumption DEF Claim, QClaim, IInv, TypeOK, QTypeOK, HandlerInStep, SoleHandler,
     Submissions
<1>5. ReadIsNewest' /\ ReadIsStored' /\ ReturnHasResult' /\ CompletedHasResult'
  BY <1>2 DEF Claim, QClaim, IInv, TypeOK, QTypeOK, ReadIsNewest, ReadIsStored, ReturnHasResult,
     CompletedHasResult, Submissions
<1>6. QED BY <1>1, <1>3, <1>4, <1>5 DEF IInv

(* A crash keeps the invariant. *)
LEMMA CrashInv ==
  ASSUME IInv, QInv', NEW w \in Slots, Crash(w) PROVE IInv'
<1>1. TypeOK'
  BY DEF QInv, TypeOK, Crash, Goto, Steps, IInv
<1>2. VersionsInOrder' /\ NoVersionSkipped'
  BY ResultsStill DEF Crash
<1>3. HandlerInStep' /\ SoleHandler'
  BY QueueAssumption DEF Crash, Goto, QCrash, IInv, TypeOK, QTypeOK, HandlerInStep, SoleHandler
<1>4. ReadIsNewest' /\ ReadIsStored' /\ ReturnHasResult' /\ CompletedHasResult'
  BY DEF Crash, Goto, QCrash, IInv, TypeOK, QTypeOK, ReadIsNewest, ReadIsStored,
     ReturnHasResult, CompletedHasResult
<1>5. QED BY <1>1, <1>2, <1>3, <1>4 DEF IInv

(* The steps of the handler keep the invariant. *)
LEMMA HandlerInv ==
  ASSUME IInv, QInv', NEW w \in Slots, HandlerStep(w) PROVE IInv'
<1> DEFINE s == running[w]
<1>1. s \in Submissions /\ s # NoJob
  BY DEF HandlerStep, FindSubmission, Grade, ReadLatest, CreateResult, Return, Throw, Rethrow,
     QReturn, QThrow, At, IInv, TypeOK, QTypeOK, Submissions
<1>2. \A v \in Slots : running[v] = s /\ s \notin overrun => v = w
  BY <1>1 DEF IInv, SoleHandler
<1>3. CASE FindSubmission(w) \/ Grade(w) \/ Throw(w)
  <2>1. /\ UNCHANGED <<qvars, request, submissions, results, latest, shown, overrun>>
        /\ \E step \in Steps \ {"idle", "create", "return"} : pc' = [pc EXCEPT ![w] = step]
    BY <1>3 DEF FindSubmission, Grade, Throw, Goto, Steps
  <2>2. TypeOK'
    BY <2>1 DEF IInv, TypeOK, QTypeOK, qvars
  <2>3. VersionsInOrder' /\ NoVersionSkipped'
    BY <2>1, ResultsStill
  <2>4. HandlerInStep' /\ SoleHandler' /\ ReadIsNewest' /\ ReadIsStored' /\ ReturnHasResult'
    BY <1>1, <2>1 DEF IInv, TypeOK, qvars, HandlerInStep, SoleHandler, ReadIsNewest,
       ReadIsStored, ReturnHasResult
  <2>5. CompletedHasResult'
    BY <2>1 DEF IInv, CompletedHasResult, qvars
  <2>6. QED BY <2>2, <2>3, <2>4, <2>5 DEF IInv
<1>4. CASE ReadLatest(w)
  <2>1. /\ UNCHANGED <<qvars, request, submissions, results, shown, overrun>>
        /\ pc' = [pc EXCEPT ![w] = "create"]
        /\ results[s] \in Seq(Nat \ {0})
    BY <1>1, <1>4 DEF ReadLatest, Goto, IInv, TypeOK
  <2>2. /\ latest' \in [Slots -> Nat]
        /\ \A v \in Slots : v # w => latest'[v] = latest[v]
        /\ latest'[w] # 0 => \E k \in DOMAIN results[s] : results[s][k] = latest'[w]
    BY <1>4, <2>1 DEF ReadLatest, Newest, IInv, TypeOK
  <2>3. s \notin overrun => latest'[w] = Len(results[s])
    <3>1. SUFFICES ASSUME s \notin overrun PROVE latest'[w] = Len(results[s])
      OBVIOUS
    <3>2. \A i \in 1..Len(results[s]) : results[s][i] = i
      BY <1>1, <3>1 DEF IInv, VersionsInOrder
    <3>3. CASE results[s] = <<>>
      <4>1. Newest(s) = {}
        BY <3>3 DEF Newest
      <4>2. latest'[w] = 0
        BY <1>4, <4>1 DEF ReadLatest, IInv, TypeOK
      <4>3. QED BY <3>3, <4>2
    <3>4. CASE results[s] # <<>>
      <4>1. PICK i \in Newest(s) : latest' = [latest EXCEPT ![w] = results[s][i]]
        BY <1>4, <3>4 DEF ReadLatest
      <4>2. Len(results[s]) \in DOMAIN results[s] /\ i \in DOMAIN results[s]
        BY <2>1, <3>4, <4>1 DEF Newest
      <4>3. results[s][Len(results[s])] <= results[s][i]
        BY <4>1, <4>2 DEF Newest
      <4>4. i = Len(results[s])
        BY <2>1, <3>2, <4>2, <4>3
      <4>5. QED BY <2>1, <3>2, <4>1, <4>2, <4>4 DEF IInv, TypeOK
    <3>5. QED BY <3>3, <3>4
  <2>4. TypeOK'
    BY <2>1, <2>2 DEF IInv, TypeOK, QTypeOK, qvars, Steps
  <2>5. VersionsInOrder' /\ NoVersionSkipped'
    BY <2>1, ResultsStill
  <2>6. HandlerInStep' /\ SoleHandler' /\ ReturnHasResult' /\ CompletedHasResult'
    BY <1>1, <2>1 DEF IInv, TypeOK, qvars, HandlerInStep, SoleHandler, ReturnHasResult,
       CompletedHasResult
  <2>7. ReadIsNewest' /\ ReadIsStored'
    BY <2>1, <2>2, <2>3 DEF IInv, TypeOK, qvars, ReadIsNewest, ReadIsStored
  <2>8. QED BY <2>4, <2>5, <2>6, <2>7 DEF IInv
<1>5. CASE CreateResult(w)
  <2> DEFINE n == Len(results[s])
  <2>1. /\ UNCHANGED <<qvars, request, submissions, latest, shown, overrun>>
        /\ pc[w] = "create"
        /\ \E step \in {"return", "rethrow"} : pc' = [pc EXCEPT ![w] = step]
        /\ results[s] \in Seq(Nat \ {0}) /\ latest[w] \in Nat
        /\ results' = [results EXCEPT ![s] = Append(@, latest[w] + 1)]
    BY <1>1, <1>5 DEF CreateResult, At, Goto, IInv, TypeOK
  <2>2. /\ results'[s] = Append(results[s], latest[w] + 1)
        /\ \A t \in Submissions : t # s => results'[t] = results[t]
        /\ results' \in [Submissions -> Seq(Nat \ {0})]
    BY <1>1, <2>1 DEF IInv, TypeOK
  <2>3. /\ n \in Nat /\ Len(results'[s]) = n + 1 /\ results'[s][n + 1] = latest[w] + 1
        /\ \A i \in 1..n : results'[s][i] = results[s][i]
        /\ DOMAIN results[s] = 1..n /\ DOMAIN results'[s] = 1..(n + 1)
    BY <2>1, <2>2
  <2>4. TypeOK'
    BY <2>1, <2>2 DEF IInv, TypeOK, QTypeOK, qvars, Steps
  <2>5. HandlerInStep' /\ SoleHandler'
    BY <1>1, <2>1 DEF IInv, TypeOK, qvars, HandlerInStep, SoleHandler
  <2>6. ReturnHasResult' /\ CompletedHasResult'
    <3>1. results'[s] # <<>>
      BY <2>1, <2>2
    <3>2. \A t \in Submissions : results[t] # <<>> => results'[t] # <<>>
      BY <2>2, <3>1
    <3>3. \A v \in Slots : pc'[v] = "return" => v = w \/ pc[v] = "return"
      BY <1>1, <2>1 DEF IInv, TypeOK
    <3>4. \A v \in Slots : pc[v] = "return" => running[v] \in Submissions
      BY DEF IInv, TypeOK, QTypeOK, HandlerInStep, Submissions
    <3>5. ReturnHasResult'
      BY <1>1, <2>1, <3>1, <3>2, <3>3, <3>4 DEF IInv, qvars, ReturnHasResult
    <3>6. CompletedHasResult'
      BY <2>1, <3>2 DEF IInv, qvars, CompletedHasResult
    <3>7. QED BY <3>5, <3>6
  <2>7. ReadIsNewest'
    BY <1>1, <1>2, <2>1, <2>2 DEF IInv, TypeOK, QTypeOK, qvars, ReadIsNewest
  <2>8. ReadIsStored'
    <3>1. SUFFICES ASSUME NEW v \in Slots, pc'[v] = "create", latest[v] # 0
                   PROVE  \E k \in DOMAIN results'[running[v]] :
                             results'[running[v]][k] = latest[v]
      BY <2>1 DEF ReadIsStored, qvars
    <3>2. pc[v] = "create" /\ running[v] \in Submissions
      BY <1>1, <2>1, <3>1 DEF IInv, TypeOK, QTypeOK, HandlerInStep, Submissions
    <3>3. PICK k \in DOMAIN results[running[v]] : results[running[v]][k] = latest[v]
      BY <3>1, <3>2 DEF IInv, ReadIsStored
    <3>4. CASE running[v] = s
      BY <2>3, <3>3, <3>4
    <3>5. CASE running[v] # s
      BY <2>2, <3>2, <3>3, <3>5
    <3>6. QED BY <3>4, <3>5
  <2>9. VersionsInOrder'
    <3>1. s \notin overrun => latest[w] = n
      BY <1>1, <2>1 DEF IInv, ReadIsNewest
    <3>2. s \notin overrun => \A i \in 1..n : results[s][i] = i
      BY <1>1 DEF IInv, VersionsInOrder
    <3>3. ASSUME s \notin overrun, NEW i \in 1..(n + 1) PROVE results'[s][i] = i
      <4>1. CASE i = n + 1
        BY <2>3, <3>1, <3>3, <4>1
      <4>2. CASE i # n + 1
        <5>1. i \in 1..n
          BY <2>3, <4>2
        <5>2. QED BY <2>3, <3>2, <3>3, <5>1
      <4>3. QED BY <4>1, <4>2
    <3>4. QED BY <1>1, <2>1, <2>2, <2>3, <3>3 DEF IInv, VersionsInOrder
  <2>10. NoVersionSkipped'
    <3>1. latest[w] # 0 => \E k \in 1..n : results[s][k] = latest[w]
      BY <2>1, <2>3 DEF IInv, ReadIsStored
    <3>2. \A i \in 1..n : results[s][i] > 1 => \E k \in 1..n : results[s][k] = results[s][i] - 1
      BY <1>1, <2>3 DEF IInv, NoVersionSkipped
    <3>3. ASSUME NEW i \in 1..(n + 1), results'[s][i] > 1
          PROVE  \E k \in 1..(n + 1) : results'[s][k] = results'[s][i] - 1
      <4>1. CASE i = n + 1
        <5>1. latest[w] # 0 /\ results'[s][i] - 1 = latest[w]
          BY <2>1, <2>3, <3>3, <4>1
        <5>2. PICK k \in 1..n : results[s][k] = latest[w]
          BY <3>1, <5>1
        <5>3. k \in 1..(n + 1) /\ results'[s][k] = latest[w]
          BY <2>3, <5>2
        <5>4. QED BY <5>1, <5>3
      <4>2. CASE i # n + 1
        <5>1. i \in 1..n /\ results'[s][i] = results[s][i]
          BY <2>3, <4>2
        <5>2. PICK k \in 1..n : results[s][k] = results[s][i] - 1
          BY <3>2, <3>3, <5>1
        <5>3. k \in 1..(n + 1) /\ results'[s][k] = results[s][k]
          BY <2>3, <5>2
        <5>4. QED BY <5>1, <5>2, <5>3
      <4>3. QED BY <4>1, <4>2
    <3>4. SUFFICES ASSUME NEW t \in Submissions, NEW i \in DOMAIN results'[t],
                          results'[t][i] > 1
                   PROVE  \E k \in DOMAIN results'[t] : results'[t][k] = results'[t][i] - 1
      BY DEF NoVersionSkipped
    <3>5. CASE t = s
      BY <2>3, <3>3, <3>4, <3>5
    <3>6. CASE t # s
      BY <2>2, <3>4, <3>6 DEF IInv, NoVersionSkipped
    <3>7. QED BY <3>5, <3>6
  <2>11. QED BY <2>1, <2>4, <2>5, <2>6, <2>7, <2>8, <2>9, <2>10 DEF IInv
<1>6. CASE Return(w) \/ Rethrow(w)
  <2>1. /\ UNCHANGED <<request, submissions, results, latest, shown, overrun>>
        /\ pc' = [pc EXCEPT ![w] = "idle"] /\ running' = [running EXCEPT ![w] = NoJob]
    BY <1>6 DEF Return, Rethrow, QReturn, QThrow, Goto
  <2>2. TypeOK'
    BY <2>1 DEF QInv, IInv, TypeOK, Steps
  <2>3. VersionsInOrder' /\ NoVersionSkipped'
    BY <2>1, ResultsStill
  <2>4. \A v \in Slots : v # w /\ running[v] # NoJob /\ running[v] \notin overrun =>
          lock'[running[v]] = lock[running[v]]
    BY <1>1, <1>2, <1>6 DEF Return, Rethrow, QReturn, QThrow, IInv, TypeOK, QTypeOK
  <2>5. HandlerInStep' /\ SoleHandler'
    BY <2>1, <2>4 DEF IInv, TypeOK, QTypeOK, HandlerInStep, SoleHandler
  <2>6. ReadIsNewest' /\ ReadIsStored' /\ ReturnHasResult'
    BY <2>1 DEF IInv, TypeOK, QTypeOK, ReadIsNewest, ReadIsStored, ReturnHasResult
  <2>7. CompletedHasResult'
    <3>1. CASE Return(w)
      BY <1>1, <2>1, <3>1 DEF Return, QReturn, At, IInv, TypeOK, QTypeOK, ReturnHasResult,
         CompletedHasResult, Submissions
    <3>2. CASE Rethrow(w)
      BY <1>1, <2>1, <3>2 DEF Rethrow, QThrow, IInv, TypeOK, QTypeOK, CompletedHasResult,
         Submissions
    <3>3. QED BY <1>6, <3>1, <3>2
  <2>8. QED BY <2>2, <2>3, <2>5, <2>6, <2>7 DEF IInv
<1>7. QED
  BY <1>3, <1>4, <1>5, <1>6 DEF HandlerStep

(* Every step keeps the invariant. *)
LEMMA NextInv == IInv /\ [Next]_vars => IInv'
<1> SUFFICES ASSUME IInv, [Next]_vars PROVE IInv'
  OBVIOUS
<1>1. QInv'
  BY QueueStep, QNextInv DEF IInv
<1>2. CASE UNCHANGED vars
  BY <1>1, <1>2 DEF vars, qvars, IInv, TypeOK, QTypeOK, HandlerInStep, SoleHandler,
     ReadIsNewest, ReadIsStored, ReturnHasResult, VersionsInOrder, NoVersionSkipped,
     CompletedHasResult
<1>3. CASE Next
  BY <1>1, <1>3, OutsideInv, RecoveryInv, ClaimInv, CrashInv, HandlerInv DEF Next
<1>4. QED BY <1>2, <1>3

(* The inductive invariant holds in every reachable state. *)
THEOREM Safety == Spec => []IInv
<1>1. Init => IInv
  BY InitInv
<1>2. IInv /\ [Next]_vars => IInv'
  BY NextInv
<1>3. QED BY <1>1, <1>2, PTL DEF Spec

(* The results of a submission without overlapping handlers are numbered    *)
(* 1, 2, 3, ... in the order they were stored.                              *)
THEOREM ResultsAreNumbered == Spec => []VersionsInOrder
<1>1. IInv => VersionsInOrder
  BY DEF IInv
<1>2. QED BY <1>1, Safety, PTL

(* Whatever overlaps, crashes or is retried, no version is skipped. *)
THEOREM HistoryHasNoHole == Spec => []NoVersionSkipped
<1>1. IInv => NoVersionSkipped
  BY DEF IInv
<1>2. QED BY <1>1, Safety, PTL

(* An acknowledged evaluation has left a result, zombies or not. *)
THEOREM AcknowledgedHasResult == Spec => []CompletedHasResult
<1>1. IInv => CompletedHasResult
  BY DEF IInv
<1>2. QED BY <1>1, Safety, PTL

-----------------------------------------------------------------------------
(* The handlers of a submission that may still store a result. *)
Undone(s) == {w \in Slots : running[w] = s /\ pc[w] \in {"find", "grade", "latest", "create"}}

(* Every start of the job has stored a result, may still store one, or      *)
(* neither: no start stores two.                                            *)
StoresOnce ==
  \A s \in Submissions : Len(results[s]) + Cardinality(Undone(s)) <= attemptsStarted[s]

(* A set of handlers is finite, as the slots are. *)
LEMMA UndoneFinite == \A s : IsFiniteSet(Undone(s)) /\ Cardinality(Undone(s)) \in Nat
<1>1. \A s : Undone(s) \subseteq Slots
  BY DEF Undone
<1>2. QED
  BY <1>1, SlotsAssumption, FS_Subset, FS_CardinalityType

(* At the start nothing is stored and nothing runs. *)
LEMMA StoresOnceInit == ASSUME Init PROVE StoresOnce
<1>1. \A s : Undone(s) = {}
  BY DEF Init, Undone
<1>2. \A s \in Submissions : results[s] = <<>> /\ attemptsStarted[s] = 0
  BY DEF Init, QInit, Submissions
<1>3. QED
  BY <1>1, <1>2, FS_EmptySet DEF StoresOnce

(* A step that stores nothing and starts no handler keeps the count. *)
LEMMA StoresOnceStill ==
  ASSUME IInv, StoresOnce, UNCHANGED <<results, attemptsStarted>>,
         \A s \in Submissions : Undone(s)' \subseteq Undone(s)
  PROVE  StoresOnce'
<1>1. SUFFICES ASSUME NEW s \in Submissions
               PROVE  Len(results[s]) + Cardinality(Undone(s)') <= attemptsStarted[s]
  BY DEF StoresOnce
<1>2. Cardinality(Undone(s)') \in Nat /\ Cardinality(Undone(s)') <= Cardinality(Undone(s))
  BY UndoneFinite, FS_Subset, FS_CardinalityType
<1>3. Len(results[s]) \in Nat /\ attemptsStarted[s] \in Nat /\ Cardinality(Undone(s)) \in Nat
  BY UndoneFinite DEF IInv, TypeOK, QTypeOK, Submissions
<1>4. QED
  BY <1>2, <1>3 DEF StoresOnce

(* Every step keeps the count: a claim adds a start and a handler, a stored *)
(* result takes its handler out of the count. *)
LEMMA StoresOnceNext == ASSUME IInv, StoresOnce, [Next]_vars PROVE StoresOnce'
<1>1. ASSUME NEW w \in Slots, NEW s \in Submissions, Claim(w, s) PROVE StoresOnce'
  <2>1. /\ running[w] = NoJob /\ running' = [running EXCEPT ![w] = s]
        /\ attemptsStarted' = [attemptsStarted EXCEPT ![s] = @ + 1]
        /\ pc' = [pc EXCEPT ![w] = "find"] /\ UNCHANGED results
    BY <1>1 DEF Claim, QClaim
  <2>2. s # NoJob
    BY QueueAssumption DEF Submissions
  <2>3. w \notin Undone(s) /\ Undone(s)' = Undone(s) \cup {w}
    BY <2>1, <2>2 DEF Undone, IInv, TypeOK, QTypeOK
  <2>4. Cardinality(Undone(s)') = Cardinality(Undone(s)) + 1
    BY <2>3, UndoneFinite, FS_AddElement
  <2>5. \A t \in Submissions : t # s => Undone(t)' = Undone(t)
    <3>1. \A v \in Slots : v # w => running'[v] = running[v] /\ pc'[v] = pc[v]
      BY <2>1
    <3>2. running'[w] = s
      BY <2>1 DEF IInv, TypeOK, QTypeOK
    <3>3. \A t \in Submissions : t # NoJob
      BY QueueAssumption DEF Submissions
    <3>4. QED BY <2>1, <3>1, <3>2, <3>3 DEF Undone
  <2>6. ASSUME NEW t \in Submissions
        PROVE  Len(results[t]) + Cardinality(Undone(t)') <= attemptsStarted'[t]
    <3>1. Len(results[t]) \in Nat /\ attemptsStarted[t] \in Nat /\ Cardinality(Undone(t)) \in Nat
      BY UndoneFinite DEF IInv, TypeOK, QTypeOK, Submissions
    <3>2. Len(results[t]) + Cardinality(Undone(t)) <= attemptsStarted[t]
      BY DEF StoresOnce
    <3>3. attemptsStarted'[t] = IF t = s THEN attemptsStarted[t] + 1 ELSE attemptsStarted[t]
      BY <2>1 DEF IInv, TypeOK, QTypeOK, Submissions
    <3>4. CASE t = s
      BY <2>4, <3>1, <3>2, <3>3, <3>4
    <3>5. CASE t # s
      BY <2>5, <3>1, <3>2, <3>3, <3>5
    <3>6. QED BY <3>4, <3>5
  <2>7. QED BY <2>1, <2>6 DEF StoresOnce
<1>2. ASSUME NEW w \in Slots, CreateResult(w) PROVE StoresOnce'
  <2>1. PICK s \in Submissions : running[w] = s
    BY <1>2 DEF CreateResult, At, IInv, TypeOK, QTypeOK, Submissions
  <2>2. /\ pc[w] = "create" /\ UNCHANGED <<running, attemptsStarted>>
        /\ results' = [results EXCEPT ![s] = Append(@, latest[w] + 1)]
        /\ \E step \in {"return", "rethrow"} : pc' = [pc EXCEPT ![w] = step]
    BY <1>2, <2>1 DEF CreateResult, At, Goto, qvars
  <2>3. w \in Undone(s) /\ Undone(s)' = Undone(s) \ {w}
    BY <2>1, <2>2 DEF Undone, IInv, TypeOK
  <2>4. Cardinality(Undone(s)') = Cardinality(Undone(s)) - 1
    BY <2>3, UndoneFinite, FS_RemoveElement
  <2>5. \A t \in Submissions : t # s => Undone(t)' = Undone(t)
    BY <2>1, <2>2 DEF Undone, IInv, TypeOK
  <2>6. Len(results'[s]) = Len(results[s]) + 1
    <3>1. results[s] \in Seq(Nat \ {0}) /\ latest[w] \in Nat
      BY DEF IInv, TypeOK
    <3>2. results'[s] = Append(results[s], latest[w] + 1)
      BY <2>2 DEF IInv, TypeOK
    <3>3. QED BY <3>1, <3>2
  <2>7. Len(results'[s]) + Cardinality(Undone(s)') <= attemptsStarted[s]
    <3>1. Len(results[s]) \in Nat /\ attemptsStarted[s] \in Nat /\ Cardinality(Undone(s)) \in Nat
      BY UndoneFinite DEF IInv, TypeOK, QTypeOK, Submissions
    <3>2. Len(results[s]) + Cardinality(Undone(s)) <= attemptsStarted[s]
      BY DEF StoresOnce
    <3>3. QED BY <2>4, <2>6, <3>1, <3>2
  <2>8. \A t \in Submissions : t # s =>
          Len(results'[t]) + Cardinality(Undone(t)') <= attemptsStarted[t]
    <3>1. \A t \in Submissions : t # s => results'[t] = results[t]
      BY <2>2 DEF IInv, TypeOK
    <3>2. QED BY <2>5, <3>1 DEF StoresOnce
  <2>9. \A t \in Submissions : Len(results'[t]) + Cardinality(Undone(t)') <= attemptsStarted'[t]
    BY <2>2, <2>7, <2>8
  <2>10. QED BY <2>9 DEF StoresOnce
<1>3. ASSUME NEW s \in Submissions, RequestStep(s) \/ LockExpires(s) \/ StalledCheck(s)
                                    \/ Backoff(s) \/ Poll(s)
      PROVE StoresOnce'
  <2>1. UNCHANGED <<results, attemptsStarted, running, pc>>
    BY <1>3 DEF RequestStep, UploadFile, CreateSubmission, Enqueue, RequestFails, LockExpires,
       StalledCheck, Backoff, Poll, qvars, QAdd, QLockExpires, QStalledCheck, QBackoff
  <2>2. QED BY <2>1, StoresOnceStill DEF Undone
<1>4. ASSUME NEW w \in Slots, FindSubmission(w) \/ Grade(w) \/ ReadLatest(w) \/ Throw(w)
      PROVE StoresOnce'
  <2>1. /\ UNCHANGED <<results, attemptsStarted, running>>
        /\ pc[w] \in {"find", "grade", "latest", "create"}
        /\ \E step \in Steps : pc' = [pc EXCEPT ![w] = step]
    BY <1>4 DEF FindSubmission, Grade, ReadLatest, Throw, At, Goto, qvars, Steps
  <2>2. \A t \in Submissions : Undone(t)' \subseteq Undone(t)
    BY <2>1 DEF Undone, IInv, TypeOK
  <2>3. QED BY <2>1, <2>2, StoresOnceStill
<1>5. ASSUME NEW w \in Slots, Return(w) \/ Rethrow(w) \/ Crash(w) PROVE StoresOnce'
  <2>1. /\ UNCHANGED <<results, attemptsStarted>>
        /\ running' = [running EXCEPT ![w] = NoJob] /\ pc' = [pc EXCEPT ![w] = "idle"]
    BY <1>5 DEF Return, Rethrow, Crash, QReturn, QThrow, QCrash, Goto
  <2>2. \A t \in Submissions : Undone(t)' \subseteq Undone(t)
    BY <2>1, QueueAssumption DEF Undone, IInv, TypeOK, QTypeOK, Submissions
  <2>3. QED BY <2>1, <2>2, StoresOnceStill
<1>6. CASE UNCHANGED vars
  <2>1. UNCHANGED <<results, attemptsStarted, running, pc>>
    BY <1>6 DEF vars, qvars
  <2>2. QED BY <2>1, StoresOnceStill DEF Undone
<1>7. QED
  BY <1>1, <1>2, <1>3, <1>4, <1>5, <1>6 DEF Next, HandlerStep

(* A submission is not graded and stored more often than its job may start,  *)
(* retries, stalls and zombies together.                                    *)
THEOREM GradingsAreBounded == Spec => []GradingsBounded
<1>1. Init => IInv /\ StoresOnce
  BY InitInv, StoresOnceInit
<1>2. IInv /\ StoresOnce /\ [Next]_vars => (IInv /\ StoresOnce)'
  BY NextInv, StoresOnceNext
<1>3. ASSUME IInv, StoresOnce PROVE GradingsBounded
  <2>1. ASSUME NEW s \in Submissions PROVE Len(results[s]) <= MaxAttempts + MaxStalled
    <3>1. attemptsStarted[s] <= MaxAttempts + MaxStalled
      BY <1>3, RunBudgetHolds DEF IInv, RunBudget, Submissions
    <3>2. Len(results[s]) + Cardinality(Undone(s)) <= attemptsStarted[s]
      BY <1>3 DEF StoresOnce
    <3>3. /\ Len(results[s]) \in Nat /\ attemptsStarted[s] \in Nat /\ Cardinality(Undone(s)) \in Nat
          /\ MaxAttempts \in Nat /\ MaxStalled \in Nat
      BY <1>3, UndoneFinite, QueueAssumption DEF IInv, TypeOK, QTypeOK, Submissions
    <3>4. QED BY <3>1, <3>2, <3>3
  <2>2. QED BY <2>1 DEF GradingsBounded
<1>4. IInv /\ StoresOnce => GradingsBounded
  BY <1>3
<1>5. QED BY <1>1, <1>2, <1>4, PTL DEF Spec

-----------------------------------------------------------------------------
(* Of versions that are 1, 2, ..., n, in whatever order and however often,  *)
(* n is the highest.                                                        *)
LEMMA HighestOfFilled ==
  ASSUME NEW r \in Seq(Nat \ {0}), NEW n \in Nat, {r[i] : i \in DOMAIN r} = 1..n,
         NEW T, T = {i \in DOMAIN r : \A k \in DOMAIN r : r[k] <= r[i]}
  PROVE  /\ \A i \in T : r[i] = n
         /\ n = 0 <=> r = <<>>
         /\ r # <<>> => (CHOOSE i \in T : TRUE) \in T
<1>1. ASSUME NEW i \in DOMAIN r PROVE r[i] \in 1..n
  OBVIOUS
<1>2. n # 0 => \E k \in DOMAIN r : r[k] = n
  <2>1. n # 0 => n \in 1..n
    OBVIOUS
  <2>2. QED BY <2>1
<1>3. n = 0 <=> r = <<>>
  <2>1. r # <<>> => 1 \in DOMAIN r
    OBVIOUS
  <2>2. r = <<>> => DOMAIN r = {}
    OBVIOUS
  <2>3. QED BY <1>1, <1>2, <2>1, <2>2
<1>4. ASSUME NEW i \in T PROVE r[i] = n
  <2>1. i \in DOMAIN r /\ r[i] \in 1..n
    BY <1>1
  <2>2. PICK k \in DOMAIN r : r[k] = n
    BY <1>2, <2>1
  <2>3. r[k] <= r[i]
    OBVIOUS
  <2>4. QED BY <2>1, <2>2, <2>3
<1>5. ASSUME r # <<>> PROVE \E i \in T : TRUE
  <2>1. PICK k \in DOMAIN r : r[k] = n
    BY <1>2, <1>3, <1>5
  <2>2. \A i \in DOMAIN r : r[i] <= r[k]
    BY <1>1, <2>1
  <2>3. QED BY <2>2
<1>6. QED BY <1>3, <1>4, <1>5

(* The versions of a submission's results are 1, 2, ..., n. *)
Versions(s) == {results[s][i] : i \in DOMAIN results[s]}

(* With versions 1, ..., n stored, n is the newest one. *)
LEMMA NewestIsHighest ==
  ASSUME NEW s \in Submissions, results[s] \in Seq(Nat \ {0}), NEW n \in Nat, Versions(s) = 1..n
  PROVE  /\ NewestVersion[s] = n
         /\ \A i \in Newest(s) : results[s][i] = n
         /\ n = 0 <=> results[s] = <<>>
<1>1. PICK r \in Seq(Nat \ {0}) : r = results[s]
  OBVIOUS
<1>2. PICK T : T = {i \in DOMAIN r : \A k \in DOMAIN r : r[k] <= r[i]}
  OBVIOUS
<1>3. {r[i] : i \in DOMAIN r} = 1..n
  BY <1>1 DEF Versions
<1>4. /\ \A i \in T : r[i] = n
      /\ n = 0 <=> r = <<>>
      /\ r # <<>> => (CHOOSE i \in T : TRUE) \in T
  BY <1>2, <1>3, HighestOfFilled
<1>5. T = Newest(s)
  BY <1>1, <1>2 DEF Newest
<1>6. NewestVersion[s] = IF r = <<>> THEN 0 ELSE r[CHOOSE i \in T : TRUE]
  BY <1>1, <1>5 DEF NewestVersion
<1>7. QED BY <1>1, <1>4, <1>5, <1>6

VersionsFill == \A s \in Submissions : \E n \in Nat : Versions(s) = 1..n

(* What is shown is a stored result. *)
ShownIsStored == \A s \in Submissions : shown[s] \in 0..Len(results[s])

RInv == IInv /\ ShownIsStored /\ VersionsFill

(* At the start there is no result. *)
LEMMA RInit == Init => RInv /\ History!HInit
<1> SUFFICES ASSUME Init PROVE RInv /\ History!HInit
  OBVIOUS
<1>1. \A s \in Submissions : results[s] = <<>> /\ shown[s] = 0
  BY DEF Init
<1>2. \A s \in Submissions : Versions(s) = 1..0
  BY <1>1 DEF Versions
<1>3. VersionsFill /\ ShownIsStored
  <2>1. VersionsFill
    BY <1>2, 0 \in Nat DEF VersionsFill
  <2>2. ShownIsStored
    BY <1>1 DEF ShownIsStored
  <2>3. QED BY <2>1, <2>2
<1>4. History!HInit
  BY <1>1 DEF History!HInit, NewestVersion, ShownVersion
<1>5. QED BY <1>3, <1>4, InitInv DEF RInv

(* A step that stores nothing and shows nothing changes nothing. *)
LEMMA ReaderStill ==
  ASSUME RInv, IInv', UNCHANGED <<results, shown>>
  PROVE  RInv' /\ UNCHANGED History!hvars
<1>1. VersionsFill' /\ ShownIsStored'
  BY DEF RInv, VersionsFill, ShownIsStored, Versions
<1>2. NewestVersion' = NewestVersion /\ ShownVersion' = ShownVersion
  BY DEF NewestVersion, ShownVersion, Newest
<1>3. QED BY <1>1, <1>2 DEF RInv, History!hvars

(* A poll shows the version that is the newest. *)
LEMMA ReaderPolls ==
  ASSUME RInv, IInv', NEW s \in Submissions, Poll(s)
  PROVE  RInv' /\ History!Show(s)
<1>1. PICK i \in Newest(s) : shown' = [shown EXCEPT ![s] = i]
  BY DEF Poll
<1>2. UNCHANGED results /\ results[s] \in Seq(Nat \ {0}) /\ shown \in [Submissions -> Nat]
  BY DEF Poll, RInv, IInv, TypeOK
<1>3. PICK n \in Nat : Versions(s) = 1..n
  BY DEF RInv, VersionsFill
<1>4. NewestVersion[s] = n /\ results[s][i] = n /\ results[s] # <<>> /\ n # 0
  <2>1. results[s] # <<>>
    BY <1>1 DEF Newest
  <2>2. QED BY <1>1, <1>2, <1>3, <2>1, NewestIsHighest
<1>5. i \in 1..Len(results[s])
  BY <1>1, <1>2 DEF Newest
<1>6. VersionsFill' /\ ShownIsStored'
  <2>1. VersionsFill'
    <3>1. \A t \in Submissions : Versions(t)' = Versions(t)
      BY <1>2 DEF Versions
    <3>2. QED BY <3>1 DEF RInv, VersionsFill
  <2>2. \A t \in Submissions : shown'[t] \in 0..Len(results[t])
    BY <1>1, <1>2, <1>5 DEF RInv, ShownIsStored
  <2>3. QED BY <1>2, <2>1, <2>2 DEF ShownIsStored
<1>7. NewestVersion' = NewestVersion
  BY <1>2 DEF NewestVersion, Newest
<1>8. ShownVersion' = [ShownVersion EXCEPT ![s] = n]
  <2>1. ShownVersion'[s] = n
    BY <1>1, <1>2, <1>4, <1>5 DEF ShownVersion
  <2>2. \A t \in Submissions : t # s => ShownVersion'[t] = ShownVersion[t]
    BY <1>1, <1>2 DEF ShownVersion
  <2>3. QED BY <2>1, <2>2 DEF ShownVersion
<1>9. QED BY <1>3, <1>4, <1>6, <1>7, <1>8 DEF RInv, History!Show

(* A result that is stored is the next version, or one that there is: what  *)
(* its handler has read was a stored version, however old.                  *)
LEMMA ReaderGrades ==
  ASSUME RInv, IInv', NEW w \in Slots, CreateResult(w)
  PROVE  RInv' /\ (History!Grade(running[w]) \/ UNCHANGED History!hvars)
<1>1. PICK s \in Submissions : s = running[w]
  BY DEF CreateResult, At, RInv, IInv, TypeOK, QTypeOK, Submissions
<1>2. PICK v \in Nat \ {0} : v = latest[w] + 1
  BY DEF RInv, IInv, TypeOK
<1>3. PICK r \in Seq(Nat \ {0}) : r = results[s]
  BY DEF RInv, IInv, TypeOK
<1>4. /\ results' = [results EXCEPT ![s] = Append(r, v)]
      /\ UNCHANGED shown /\ pc[w] = "create" /\ latest[w] = v - 1
      /\ shown \in [Submissions -> Nat]
  <2>1. results' = [results EXCEPT ![s] = Append(results[s], v)]
    BY <1>1, <1>2 DEF CreateResult
  <2>2. latest[w] = v - 1
    BY <1>2 DEF RInv, IInv, TypeOK
  <2>3. QED BY <1>3, <2>1, <2>2 DEF CreateResult, At, RInv, IInv, TypeOK
<1>5. /\ results'[s] = Append(r, v)
      /\ \A t \in Submissions : t # s => results'[t] = results[t]
  BY <1>4 DEF RInv, IInv, TypeOK
<1>6. /\ Len(r) \in Nat /\ Append(r, v) \in Seq(Nat \ {0}) /\ Len(Append(r, v)) = Len(r) + 1
      /\ Append(r, v)[Len(r) + 1] = v /\ \A i \in 1..Len(r) : Append(r, v)[i] = r[i]
      /\ DOMAIN r = 1..Len(r) /\ DOMAIN Append(r, v) = 1..(Len(r) + 1) /\ Append(r, v) # <<>>
  OBVIOUS
<1>7. PICK n \in Nat : {r[i] : i \in DOMAIN r} = 1..n
  BY <1>3 DEF RInv, VersionsFill, Versions
<1>8. v \in 1..(n + 1)
  <2>1. CASE latest[w] = 0
    BY <1>2, <2>1
  <2>2. CASE latest[w] # 0
    <3>1. \E k \in DOMAIN r : r[k] = latest[w]
      BY <1>1, <1>3, <1>4, <2>2 DEF RInv, IInv, ReadIsStored
    <3>2. latest[w] \in 1..n
      BY <1>7, <3>1
    <3>3. QED BY <1>2, <3>2
  <2>3. QED BY <2>1, <2>2
<1>9. PICK m \in {n, n + 1} : 1..m = (1..n) \cup {v}
  <2>1. CASE v = n + 1
    <3>1. 1..(n + 1) = (1..n) \cup {v}
      BY <2>1
    <3>2. QED BY <3>1
  <2>2. CASE v # n + 1
    <3>1. 1..n = (1..n) \cup {v}
      BY <1>8, <2>2
    <3>2. QED BY <3>1
  <2>3. QED BY <2>1, <2>2
<1>10. {Append(r, v)[i] : i \in DOMAIN Append(r, v)} = 1..m
  <2>1. ASSUME NEW x \in {Append(r, v)[i] : i \in DOMAIN Append(r, v)} PROVE x \in 1..m
    <3>1. PICK i \in 1..(Len(r) + 1) : x = Append(r, v)[i]
      BY <1>6
    <3>2. i \in 1..Len(r) \/ i = Len(r) + 1
      BY <1>6
    <3>3. QED BY <1>6, <1>7, <1>9, <3>1, <3>2
  <2>2. ASSUME NEW x \in 1..m PROVE x \in {Append(r, v)[i] : i \in DOMAIN Append(r, v)}
    <3>1. x = v \/ x \in {r[i] : i \in DOMAIN r}
      BY <1>7, <1>9
    <3>2. CASE x = v
      <4>1. Len(r) + 1 \in DOMAIN Append(r, v)
        BY <1>6
      <4>2. QED BY <1>6, <3>2, <4>1
    <3>3. CASE x # v
      <4>1. PICK i \in DOMAIN r : x = r[i]
        BY <3>1, <3>3
      <4>2. i \in DOMAIN Append(r, v) /\ Append(r, v)[i] = x
        BY <1>6, <4>1
      <4>3. QED BY <4>2
    <3>4. QED BY <3>2, <3>3
  <2>3. QED BY <2>1, <2>2
<1>11. VersionsFill' /\ ShownIsStored'
  <2>1. m \in Nat
    OBVIOUS
  <2>2. VersionsFill'
    <3>1. ASSUME NEW t \in Submissions
          PROVE  \E k \in Nat : {results'[t][i] : i \in DOMAIN results'[t]} = 1..k
      <4>1. CASE t = s
        BY <1>5, <1>10, <2>1, <4>1
      <4>2. CASE t # s
        <5>1. results'[t] = results[t] /\ \E k \in Nat : Versions(t) = 1..k
          BY <1>5, <4>2 DEF RInv, VersionsFill
        <5>2. QED BY <5>1 DEF Versions
      <4>3. QED BY <4>1, <4>2
    <3>2. QED BY <3>1 DEF VersionsFill, Versions
  <2>3. ShownIsStored'
    BY <1>3, <1>4, <1>5, <1>6 DEF RInv, ShownIsStored
  <2>4. QED BY <2>2, <2>3
<1>12. ShownVersion' = ShownVersion
  <2>1. ASSUME NEW t \in Submissions, shown[t] # 0
        PROVE  results'[t][shown[t]] = results[t][shown[t]]
    <3>1. shown[t] \in 1..Len(results[t])
      BY <1>4, <2>1 DEF RInv, ShownIsStored
    <3>2. QED BY <1>3, <1>5, <1>6, <3>1
  <2>2. QED BY <1>4, <2>1 DEF ShownVersion
<1> DEFINE T(q) == {i \in DOMAIN q : \A k \in DOMAIN q : q[k] <= q[i]}
           N(q) == IF q = <<>> THEN 0 ELSE q[CHOOSE i \in T(q) : TRUE]
<1>13. /\ NewestVersion = [t \in Submissions |-> N(results[t])]
       /\ NewestVersion' = [t \in Submissions |-> N(results'[t])]
  BY DEF NewestVersion, Newest
<1>14. ASSUME NEW q \in Seq(Nat \ {0}), NEW k \in Nat, {q[i] : i \in DOMAIN q} = 1..k
       PROVE  N(q) = k
  <2>1. /\ \A i \in T(q) : q[i] = k
        /\ k = 0 <=> q = <<>>
        /\ q # <<>> => (CHOOSE i \in T(q) : TRUE) \in T(q)
    <3> HIDE DEF T
    <3>1. T(q) = {i \in DOMAIN q : \A j \in DOMAIN q : q[j] <= q[i]}
      BY DEF T
    <3>2. QED BY <1>14, <3>1, HighestOfFilled
  <2> HIDE DEF T
  <2>2. QED BY <2>1
<1> HIDE DEF N
<1>15. N(results[s]) = n /\ N(results'[s]) = m
  <2>1. m \in Nat
    OBVIOUS
  <2>2. N(results[s]) = n
    BY <1>3, <1>7, <1>14
  <2>3. N(results'[s]) = m
    BY <1>5, <1>6, <1>10, <1>14, <2>1
  <2>4. QED BY <2>2, <2>3
<1>16. NewestVersion[s] = n /\ NewestVersion' = [NewestVersion EXCEPT ![s] = m]
  <2>1. \A t \in Submissions : t # s => N(results'[t]) = N(results[t])
    BY <1>5
  <2>2. QED BY <1>13, <1>15, <2>1
<1>17. CASE m = n
  BY <1>11, <1>12, <1>13, <1>16, <1>17 DEF RInv, History!hvars
<1>18. CASE m = n + 1
  BY <1>1, <1>11, <1>12, <1>16, <1>18 DEF RInv, History!Grade
<1>19. QED BY <1>17, <1>18

(* Every step is a grading, a poll, or nothing to the reader. *)
LEMMA ReaderNext == RInv /\ [Next]_vars => RInv' /\ [History!HNext]_History!hvars
<1> SUFFICES ASSUME RInv, [Next]_vars PROVE RInv' /\ [History!HNext]_History!hvars
  OBVIOUS
<1>1. IInv'
  BY NextInv DEF RInv
<1>2. ASSUME NEW s \in Submissions, Poll(s) PROVE RInv' /\ [History!HNext]_History!hvars
  BY <1>1, <1>2, ReaderPolls DEF History!HNext
<1>3. ASSUME NEW w \in Slots, CreateResult(w) PROVE RInv' /\ [History!HNext]_History!hvars
  <2>1. running[w] \in Submissions
    BY <1>3 DEF CreateResult, At, RInv, IInv, TypeOK, QTypeOK, Submissions
  <2>2. QED BY <1>1, <1>3, <2>1, ReaderGrades DEF History!HNext
<1>4. ASSUME UNCHANGED <<results, shown>> PROVE RInv' /\ [History!HNext]_History!hvars
  BY <1>1, <1>4, ReaderStill
<1>5. ASSUME NEW s \in Submissions, RequestStep(s) \/ LockExpires(s) \/ StalledCheck(s) \/ Backoff(s)
      PROVE  UNCHANGED <<results, shown>>
  BY <1>5 DEF RequestStep, UploadFile, CreateSubmission, Enqueue, RequestFails, LockExpires,
     StalledCheck, Backoff
<1>6. ASSUME NEW w \in Slots, HandlerStep(w) \/ Crash(w), ~CreateResult(w)
      PROVE  UNCHANGED <<results, shown>>
  BY <1>6 DEF HandlerStep, FindSubmission, Grade, ReadLatest, Return, Throw, Rethrow, Crash
<1>7. ASSUME NEW w \in Slots, NEW s \in Submissions, Claim(w, s) PROVE UNCHANGED <<results, shown>>
  BY <1>7 DEF Claim
<1>8. CASE UNCHANGED vars
  BY <1>4, <1>8 DEF vars
<1>9. QED
  BY <1>2, <1>3, <1>4, <1>5, <1>6, <1>7, <1>8 DEF Next

(* What a reader sees through retries, redeliveries, crashes and handlers   *)
(* that overlap is one grading after the other: Evaluation implements       *)
(* GradingHistory.                                                          *)
THEOREM ReaderSeesHistory == Spec => GradedOneByOne
<1>1. QED BY RInit, ReaderNext, PTL DEF Spec, GradedOneByOne, History!HSpec

(* What the page shows is only replaced by a result of a higher version, as *)
(* long as no handler of the submission outlived its lock.                  *)
THEOREM ShownNeverGoesBack == Spec => ShownMovesForward
<1> DEFINE Step == \A s \in Submissions :
                     shown'[s] # shown[s] /\ shown[s] # 0 /\ s \notin overrun =>
                       results'[s][shown'[s]] > results[s][shown[s]]
<1>1. ASSUME RInv, [Next]_vars, NEW s \in Submissions,
             shown'[s] # shown[s], shown[s] # 0, s \notin overrun
      PROVE  results'[s][shown'[s]] > results[s][shown[s]]
  <2>1. Poll(s)
    BY <1>1 DEF RInv, IInv, TypeOK, Next, vars, RequestStep, UploadFile, CreateSubmission,
       Enqueue, RequestFails, LockExpires, StalledCheck, Backoff, Poll, HandlerStep,
       FindSubmission, Grade, ReadLatest, CreateResult, Return, Throw, Rethrow, Crash, Claim
  <2>2. /\ UNCHANGED results /\ shown'[s] \in Newest(s)
        /\ results[s] \in Seq(Nat \ {0}) /\ shown[s] \in 1..Len(results[s])
    BY <1>1, <2>1 DEF Poll, RInv, IInv, TypeOK, ShownIsStored
  <2>3. \A i \in 1..Len(results[s]) : results[s][i] = i
    BY <1>1 DEF RInv, IInv, VersionsInOrder
  <2>4. /\ shown'[s] \in 1..Len(results[s])
        /\ results[s][shown[s]] <= results[s][shown'[s]]
    BY <2>2 DEF Newest
  <2>5. QED BY <1>1, <2>2, <2>3, <2>4
<1>2. RInv /\ [Next]_vars => RInv' /\ Step
  BY <1>1, ReaderNext
<1>3. Init => RInv
  BY RInit
<1>4. QED
  <2>1. Step => [Step]_vars
    OBVIOUS
  <2>2. QED BY <1>2, <1>3, <2>1, PTL DEF Spec, ShownMovesForward


(* What is shown is not above the newest version. *)
LEMMA ShownIsBounded ==
  ASSUME RInv, NEW s \in Submissions
  PROVE  ShownVersion[s] \in Nat /\ NewestVersion[s] \in Nat /\ ShownVersion[s] <= NewestVersion[s]
<1>1. results[s] \in Seq(Nat \ {0}) /\ shown[s] \in 0..Len(results[s])
  BY DEF RInv, IInv, TypeOK, ShownIsStored
<1>2. PICK n \in Nat : Versions(s) = 1..n
  BY DEF RInv, VersionsFill
<1>3. NewestVersion[s] = n
  BY <1>1, <1>2, NewestIsHighest
<1>4. ShownVersion[s] \in 0..n
  <2>1. shown[s] # 0 => results[s][shown[s]] \in 1..n
    BY <1>1, <1>2 DEF Versions
  <2>2. QED BY <2>1 DEF ShownVersion
<1>5. QED BY <1>3, <1>4

(* The version that is shown never becomes a lower one, whatever overlaps.  *)
THEOREM ShownIsNoOlder ==
  Spec => [][\A s \in Submissions : ShownVersion'[s] >= ShownVersion[s]]_vars
<1> DEFINE Step == \A s \in Submissions : ShownVersion'[s] >= ShownVersion[s]
<1>1. ASSUME RInv, [History!HNext]_History!hvars PROVE Step
  <2>1. SUFFICES ASSUME NEW s \in Submissions PROVE ShownVersion'[s] >= ShownVersion[s]
    OBVIOUS
  <2>2. ShownVersion'[s] \in {ShownVersion[s], NewestVersion[s]}
    BY <1>1 DEF History!HNext, History!hvars, History!Grade, History!Show, ShownVersion
  <2>3. QED BY <1>1, <2>2, ShownIsBounded
<1>2. RInv /\ [Next]_vars => RInv' /\ Step
  BY <1>1, ReaderNext
<1>3. Init => RInv
  BY RInit
<1>4. QED
  <2>1. Step => [Step]_vars
    OBVIOUS
  <2>2. QED BY <1>2, <1>3, <2>1, PTL DEF Spec

-----------------------------------------------------------------------------
(* A grading job is given up only after all its attempts, or after more     *)
(* stalls than BullMQ forgives.                                             *)
THEOREM FailureIsExhausted == Spec => []FailedIsExhausted
<1>1. Init => FailedIsExhausted
  BY ExhaustedInit DEF Init
<1>2. IInv /\ FailedIsExhausted /\ [Next]_vars => FailedIsExhausted'
  BY QueueStep, ExhaustedNext DEF IInv
<1>3. QED BY <1>1, <1>2, Safety, PTL DEF Spec

(* A submission whose job is settled and that had no second handler is at   *)
(* rest: nobody is grading it any more.                                     *)
SettledIsAtRest == \A s \in Submissions : Settled(s) /\ s \notin overrun => AtRest(s)

(* What the results of a submission at rest do: they stay, and it stays at  *)
(* rest.                                                                    *)
RestIsFinal == \A s \in Submissions : AtRest(s) => AtRest(s)' /\ results'[s] = results[s]

(* Only a handler of the submission stores a result of it. *)
LEMMA OwnResults ==
  ASSUME IInv, [Next]_vars, NEW s \in Submissions, \A w \in Slots : running[w] # s
  PROVE  results'[s] = results[s]
<1>1. ASSUME NEW t \in Submissions,
             RequestStep(t) \/ LockExpires(t) \/ StalledCheck(t) \/ Backoff(t) \/ Poll(t)
      PROVE  UNCHANGED results
  BY <1>1 DEF RequestStep, UploadFile, CreateSubmission, Enqueue, RequestFails, LockExpires,
     StalledCheck, Backoff, Poll
<1>2. ASSUME NEW w \in Slots, CreateResult(w) PROVE results'[s] = results[s]
  BY <1>2 DEF CreateResult, IInv, TypeOK
<1>3. ASSUME NEW w \in Slots, HandlerStep(w), ~CreateResult(w) PROVE UNCHANGED results
  BY <1>3 DEF HandlerStep, FindSubmission, Grade, ReadLatest, Throw, Return, Rethrow
<1>4. ASSUME NEW w \in Slots, NEW t \in Submissions, Claim(w, t) PROVE UNCHANGED results
  BY <1>4 DEF Claim
<1>5. ASSUME NEW w \in Slots, Crash(w) PROVE UNCHANGED results
  BY <1>5 DEF Crash
<1>6. CASE UNCHANGED vars
  BY <1>6 DEF vars
<1>7. QED BY <1>1, <1>2, <1>3, <1>4, <1>5, <1>6 DEF Next

(* When the queue is through with a grading job that kept its lock, it is   *)
(* over.                                                                    *)
THEOREM SettledRests == Spec => []SettledIsAtRest
<1>1. IInv => SettledIsAtRest
  BY QueueAssumption DEF IInv, SettledIsAtRest, SoleHandler, QInv, QTypeOK, LockHolderRuns, Settled,
     AtRest, Handlers, Submissions
<1>2. QED BY <1>1, Safety, PTL

(* The history of a submission at rest is complete: no result is added, by  *)
(* a late retry, a redelivery or a handler that was cut off.                *)
THEOREM HistoryIsFinal == Spec => [][RestIsFinal]_vars
<1>1. IInv /\ [Next]_vars => RestIsFinal
  <2> SUFFICES ASSUME IInv, [Next]_vars, NEW s \in Submissions, AtRest(s)
               PROVE  AtRest(s)' /\ results'[s] = results[s]
    BY DEF RestIsFinal
  <2>1. AtRest(s)'
    BY QueueStep, RestStays DEF IInv, Submissions
  <2>2. \A w \in Slots : running[w] # s
    BY DEF AtRest, Handlers
  <2>3. QED BY <2>1, <2>2, OwnResults
<1>2. QED BY <1>1, Safety, PTL DEF Spec
=============================================================================
