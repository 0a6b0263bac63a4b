-------------------------- MODULE WebSessionProofs --------------------------
(***************************************************************************)
(* Proofs about WebSession and AuthSession, for any number of tabs, calls   *)
(* and token pairs, and whatever the calls ask for.                         *)
(***************************************************************************)
EXTENDS WebSession, FiniteSetTheorems, TLAPS

(* An answer ends an exchange and touches no other. *)
LEMMA AnswerEnds ==
  ASSUME http \in [Exchanges -> Exchange], NEW x \in Exchanges,
         NEW s \in Statuses, NEW p \in Pairs \cup {NoPair}, Answer(x, s, p)
  PROVE  /\ http' = [http EXCEPT ![x] = http'[x]]
         /\ http'[x] \in Exchange
         /\ http'[x].at = "done" /\ http'[x].route = http[x].route
  BY DEF Answer, Reply, NoExchange, Exchange, Stages

(* A handler that goes on keeps what its exchange carries. *)
LEMMA AdvanceKeeps ==
  ASSUME http \in [Exchanges -> Exchange], NEW x \in Exchanges,
         NEW stage \in Stages, Advance(x, stage)
  PROVE  /\ http' = [http EXCEPT ![x] = http'[x]]
         /\ http'[x] \in Exchange
         /\ http'[x].at = stage
         /\ http'[x].route = http[x].route /\ http'[x].pair = http[x].pair
         /\ http'[x].status = http[x].status
  BY DEF Advance, Exchange

(* What a step of a handler, or its failure, may do. *)
Handled(x) ==
  /\ http[x].at # "none"
  /\ http' = [http EXCEPT ![x] = http'[x]]
  /\ http'[x] \in Exchange
  /\ http'[x].route = http[x].route
  /\ http'[x].at \in {"read", "created", "done"}
  /\ http'[x].at # "done" => http'[x].pair = http[x].pair /\ http'[x].status = http[x].status
  /\ http'[x].at # "done" => http[x].at # "done"
  /\ http'[x].at = "created" => http[x].route = "register" /\ accounts' = {x[1]}
  /\ accounts' = accounts \/ (accounts = {} /\ accounts' = {x[1]})
  /\ hash' \in Pairs \cup {NoHash}

LEMMA HandlerStep ==
  ASSUME IInv, NEW x \in Exchanges, Handle(x) \/ RefuseBody(x) \/ Fail(x)
  PROVE  Handled(x)
<1>0. http \in [Exchanges -> Exchange] /\ http[x] \in Exchange /\ hash \in Pairs \cup {NoHash}
  BY DEF IInv, TypeOK, STypeOK
<1>1. {"ok", "unauthorised", "error"} \subseteq Statuses /\ {"read", "created"} \subseteq Stages
  BY DEF Statuses, Stages
<1>2. ASSUME NEW s \in Statuses, NEW p \in Pairs \cup {NoPair}, Answer(x, s, p),
             http[x].at # "none", accounts' = accounts, hash' \in Pairs \cup {NoHash}
      PROVE Handled(x)
  BY <1>0, <1>2, AnswerEnds DEF Handled, At
<1>3. ASSUME IssueTokens(x), http[x].at # "none" PROVE Handled(x)
  BY <1>1, <1>2, <1>3 DEF IssueTokens
<1>4. ASSUME Advance(x, "read"), At(x, "sent", "logout") \/ At(x, "sent", "register") \/ At(x, "sent", "login"),
             UNCHANGED <<accounts, hash>>
      PROVE Handled(x)
  BY <1>0, <1>1, <1>4, AdvanceKeeps DEF Handled, At
<1>5. CASE GuardRejects(x) \/ GuardPasses(x) \/ LoginRejects(x) \/ RefreshRejects(x)
          \/ RefuseBody(x) \/ Fail(x)
  BY <1>0, <1>1, <1>2, <1>5 DEF GuardRejects, GuardPasses, LoginRejects,
     RefreshRejects, RefuseBody, Fail, At
<1>6. CASE LogoutFind(x) \/ RegisterFind(x) \/ LoginFind(x)
  BY <1>0, <1>1, <1>2, <1>4, <1>6 DEF LogoutFind, RegisterFind, LoginFind, At
<1>7. CASE LogoutClear(x)
  BY <1>1, <1>2, <1>7 DEF LogoutClear, At
<1>8. CASE RegisterCreate(x)
  <2>1. CASE accounts = {}
    BY <1>0, <1>1, <1>8, <2>1, AdvanceKeeps DEF RegisterCreate, Handled, At
  <2>2. CASE accounts # {}
    BY <1>0, <1>1, <1>2, <1>8, <2>2 DEF RegisterCreate, At
  <2>3. QED BY <2>1, <2>2
<1>9. CASE IssueToRegistered(x) \/ IssueToLoggedIn(x)
  BY <1>3, <1>9 DEF IssueToRegistered, IssueToLoggedIn, At
<1>10. CASE RefreshRead(x)
  BY <1>0, <1>10 DEF RefreshRead, Handled, At, Exchange, Stages
<1>11. CASE RefreshFinish(x)
  BY <1>1, <1>2, <1>3, <1>11 DEF RefreshFinish, At
<1>12. QED
  BY <1>5, <1>6, <1>7, <1>8, <1>9, <1>10, <1>11 DEF Handle

(* The exchanges of a call are its own. *)
LEMMA Names ==
  /\ \A c \in Calls : TheCall(c) \in Exchanges /\ TheRefresh(c) \in Exchanges
  /\ \A c, d \in Calls : TheCall(c) # TheRefresh(d)
  /\ \A c, d \in Calls : TheCall(c) = TheCall(d) => c = d
  /\ \A c, d \in Calls : TheRefresh(c) = TheRefresh(d) => c = d
  /\ \A x \in Exchanges : x[1] \in Calls /\ (x = TheCall(x[1]) \/ x = TheRefresh(x[1]))
  /\ \A c \in Calls : TheCall(c)[1] = c /\ TheCall(c)[2] = "call" /\ TheRefresh(c)[2] = "refresh"
  BY DEF Exchanges, TheCall, TheRefresh

(* What the server does keeps the inductive invariant. *)
LEMMA ServerInv ==
  ASSUME IInv, NEW x \in Exchanges, Handled(x), UNCHANGED cvars
  PROVE  IInv'
<1>0. http \in [Exchanges -> Exchange] /\ http' \in [Exchanges -> Exchange]
  BY DEF IInv, TypeOK, STypeOK, Handled
<1>1. /\ \A y \in Exchanges : y # x => http'[y] = http[y]
      /\ \A y \in Exchanges : http'[y].at # "none" <=> http[y].at # "none"
      /\ \A y \in Exchanges : http'[y].route = http[y].route
  BY <1>0 DEF Handled
<1>2. TypeOK'
  BY <1>0, Names DEF IInv, TypeOK, STypeOK, Handled, cvars
<1>3. AnsweredIsDone'
  BY <1>0, <1>1 DEF IInv, AnsweredIsDone, Handled, Exchange, Stages
<1>4. SentIsExchanged'
  BY <1>1, Names DEF IInv, SentIsExchanged, cvars
<1>5. RefreshIsAwaited'
  <2>1. SUFFICES ASSUME NEW c \in Calls
                 PROVE  /\ http'[TheRefresh(c)].at # "none" => refreshing'[Tab[c]] = c
                        /\ http'[TheRefresh(c)].at \in {"sent", "read"} =>
                             http'[TheRefresh(c)].route = "refresh" /\ http'[TheRefresh(c)].pair # NoPair
                        /\ http'[TheRefresh(c)].at # "created"
    BY DEF RefreshIsAwaited
  <2>2. CASE TheRefresh(c) # x
    BY <1>1, <2>2, Names DEF IInv, RefreshIsAwaited, cvars
  <2>3. CASE TheRefresh(c) = x
    <3>1. http[x].at # "created" /\ http[x].at \in Stages
      BY <1>0, <2>3 DEF IInv, RefreshIsAwaited, Exchange
    <3>2. http'[x].at # "done" => http[x].at \in {"sent", "read"}
      BY <3>1 DEF Handled, Stages
    <3>3. QED
      BY <1>1, <2>3, <3>2, Names DEF IInv, RefreshIsAwaited, cvars, Handled
  <2>4. QED BY <2>2, <2>3
<1>6. AwaitedIsInFlight'
  <2>1. \A t \in Tabs : refreshing[t] # NoCall => refreshing[t] \in Calls
    BY DEF IInv, TypeOK
  <2>2. QED
    BY <1>1, <2>1, Names DEF IInv, AwaitedIsInFlight, cvars, Waiting, InTab
<1>8. OneAccountPerEmail'
  <2>1. Cardinality(accounts') <= 1
    <3>1. Cardinality({x[1]}) = 1
      BY FS_Singleton
    <3>2. Cardinality(accounts) <= 1 /\ (accounts' = accounts \/ accounts' = {x[1]})
      BY DEF IInv, OneAccountPerEmail, Handled
    <3>3. QED BY <3>1, <3>2
  <2>2. ASSUME NEW c \in Calls, http'[TheCall(c)].at = "created" PROVE accounts' = {c}
    <3>1. CASE TheCall(c) = x
      BY <2>2, <3>1, Names DEF Handled
    <3>2. CASE TheCall(c) # x
      BY <1>1, <2>2, <3>2, Names DEF IInv, OneAccountPerEmail, Handled
    <3>3. QED BY <3>1, <3>2
  <2>3. QED BY <2>1, <2>2 DEF OneAccountPerEmail
<1>9. WaitersShareOneRefresh'
  BY <1>1, Names DEF IInv, WaitersShareOneRefresh, cvars, Waiting, InTab
<1>10. QED
  BY <1>2, <1>3, <1>4, <1>5, <1>6, <1>8, <1>9 DEF IInv

(* A page sends a request. *)
LEMMA SendInv ==
  ASSUME IInv, NEW c \in Calls, NEW r, Send(c, r)
  PROVE  IInv'
<1>0. /\ http \in [Exchanges -> Exchange] /\ calls \in [Calls -> Call]
      /\ store \in Pairs \cup {NoPair} /\ r \in Routes \ {"refresh"}
      /\ calls[c] = Idle
  BY AsksAssumption DEF IInv, TypeOK, STypeOK, Send
<1>1. Request(r, store) \in Exchange /\ Request(r, store).at = "sent"
      /\ Request(r, store).route = r /\ Request(r, store).status = "none"
  BY <1>0 DEF Request, NoExchange, Exchange, Stages, Routes, Statuses
<1>2. /\ http' \in [Exchanges -> Exchange]
      /\ http'[TheCall(c)] = Request(r, store)
      /\ \A y \in Exchanges : y # TheCall(c) => http'[y] = http[y]
  BY <1>0, <1>1, Names DEF Send
<1>3. /\ calls' \in [Calls -> Call]
      /\ calls'[c] = [at |-> "sent", asks |-> r, retry |-> FALSE]
      /\ \A d \in Calls : d # c => calls'[d] = calls[d]
  BY <1>0 DEF Send, Call
<1>4. \A t \in Tabs : Waiting(t)' = Waiting(t)
  BY <1>0, <1>3 DEF Waiting, InTab, Idle
<1>5. \A d \in Calls : http'[TheRefresh(d)] = http[TheRefresh(d)]
  BY <1>2, Names
<1>6. UNCHANGED <<accounts, hash, store, refreshing>>
  BY DEF Send
<1>7. TypeOK'
  BY <1>2, <1>3, <1>6 DEF IInv, TypeOK, STypeOK
<1>8. AnsweredIsDone'
  BY <1>1, <1>2 DEF IInv, AnsweredIsDone
<1>9. SentIsExchanged'
  <2>1. r \in Asks[c]
    BY DEF Send
  <2>2. ASSUME NEW d \in Calls, d # c PROVE http'[TheCall(d)] = http[TheCall(d)]
    BY <1>2, <2>2, Names
  <2>3. QED
    BY <1>1, <1>2, <1>3, <2>1, <2>2 DEF IInv, SentIsExchanged
<1>10. RefreshIsAwaited'
  BY <1>5, <1>6 DEF IInv, RefreshIsAwaited
<1>11. AwaitedIsInFlight'
  <2>1. \A t \in Tabs : refreshing[t] # NoCall => refreshing[t] \in Calls
    BY DEF IInv, TypeOK
  <2>2. QED
    BY <1>4, <1>5, <1>6, <2>1 DEF IInv, AwaitedIsInFlight
<1>12. OneAccountPerEmail'
  <2>1. \A d \in Calls : http'[TheCall(d)].at = "created" => http[TheCall(d)].at = "created"
    BY <1>1, <1>2, Names
  <2>2. QED BY <1>6, <2>1 DEF IInv, OneAccountPerEmail
<1>13. WaitersShareOneRefresh'
  BY <1>4, <1>5, <1>6 DEF IInv, WaitersShareOneRefresh, InTab
<1>14. QED
  BY <1>7, <1>8, <1>9, <1>10, <1>11, <1>12, <1>13 DEF IInv

(* A call that was answered comes to its end. *)
LEMMA SettleInv ==
  ASSUME IInv, NEW c \in Calls, calls[c].at = "sent",
         NEW tokens \in Pairs \cup {NoPair}, Settle(c, tokens)
  PROVE  IInv'
<1>0. http \in [Exchanges -> Exchange] /\ calls \in [Calls -> Call]
  BY DEF IInv, TypeOK, STypeOK
<1>1. NoExchange \in Exchange /\ NoExchange.at = "none" /\ NoExchange.status = "none"
  BY DEF NoExchange, Exchange, Stages, Routes, Statuses
<1>2. /\ http' \in [Exchanges -> Exchange]
      /\ http'[TheCall(c)] = NoExchange
      /\ \A y \in Exchanges : y # TheCall(c) => http'[y] = http[y]
  BY <1>0, <1>1, Names DEF Settle, setTokens, clearTokens
<1>3. /\ calls' \in [Calls -> Call] /\ calls'[c] = Idle
      /\ \A d \in Calls : d # c => calls'[d] = calls[d]
  BY <1>0 DEF Settle, Call, Idle, Routes
<1>4. \A t \in Tabs : Waiting(t)' = Waiting(t)
  BY <1>0, <1>3 DEF Waiting, InTab, Idle
<1>5. \A d \in Calls : http'[TheRefresh(d)] = http[TheRefresh(d)]
  BY <1>2, Names
<1>6. UNCHANGED <<accounts, hash, refreshing>> /\ store' \in Pairs \cup {NoPair}
  BY DEF Settle, setTokens, clearTokens
<1>7. TypeOK'
  BY <1>2, <1>3, <1>6 DEF IInv, TypeOK, STypeOK
<1>8. AnsweredIsDone'
  BY <1>1, <1>2 DEF IInv, AnsweredIsDone
<1>9. SentIsExchanged'
  <2>1. ASSUME NEW d \in Calls, d # c PROVE http'[TheCall(d)] = http[TheCall(d)]
    BY <1>2, <2>1, Names
  <2>2. QED
    BY <1>1, <1>2, <1>3, <2>1 DEF IInv, SentIsExchanged, Idle
<1>10. RefreshIsAwaited'
  BY <1>5, <1>6 DEF IInv, RefreshIsAwaited
<1>11. AwaitedIsInFlight'
  <2>1. \A t \in Tabs : refreshing[t] # NoCall => refreshing[t] \in Calls
    BY DEF IInv, TypeOK
  <2>2. QED
    BY <1>4, <1>5, <1>6, <2>1 DEF IInv, AwaitedIsInFlight
<1>12. OneAccountPerEmail'
  <2>1. \A d \in Calls : http'[TheCall(d)].at = "created" => http[TheCall(d)].at = "created"
    BY <1>1, <1>2, Names
  <2>2. QED BY <1>6, <2>1 DEF IInv, OneAccountPerEmail
<1>13. WaitersShareOneRefresh'
  BY <1>4, <1>5, <1>6 DEF IInv, WaitersShareOneRefresh, InTab
<1>14. QED
  BY <1>7, <1>8, <1>9, <1>10, <1>11, <1>12, <1>13 DEF IInv

(* An unauthorised call that has not been retried awaits a refresh. *)
LEMMA ExpiredInv ==
  ASSUME IInv, NEW c \in Calls, ReceiveExpired(c)
  PROVE  IInv'
<1>0. /\ http \in [Exchanges -> Exchange] /\ calls \in [Calls -> Call]
      /\ refreshing \in [Tabs -> Calls \cup {NoCall}]
      /\ store \in Pairs \cup {NoPair} /\ store # NoPair
      /\ calls[c].at = "sent"
      /\ Tab[c] \in Tabs
  BY TabAssumption DEF IInv, TypeOK, STypeOK, ReceiveExpired, Got
<1> DEFINE req == Request("refresh", store)
           back == [calls[c] EXCEPT !.at = "waiting", !.retry = TRUE]
<1>1. /\ NoExchange \in Exchange /\ NoExchange.at = "none" /\ NoExchange.status = "none"
      /\ req \in Exchange /\ req.at = "sent" /\ req.route = "refresh"
      /\ req.pair = store /\ req.status = "none"
  BY <1>0 DEF Request, NoExchange, Exchange, Stages, Routes, Statuses
<1>2. /\ calls' \in [Calls -> Call] /\ calls'[c].at = "waiting"
      /\ calls'[c].asks = calls[c].asks
      /\ \A d \in Calls : d # c => calls'[d] = calls[d]
  BY <1>0 DEF ReceiveExpired, Call
<1>3. /\ Waiting(Tab[c])' = Waiting(Tab[c]) \cup {c}
      /\ \A t \in Tabs : t # Tab[c] => Waiting(t)' = Waiting(t)
  BY <1>0, <1>2 DEF Waiting, InTab
<1>4. UNCHANGED <<accounts, hash, store>>
  BY DEF ReceiveExpired
<1>5. /\ http' \in [Exchanges -> Exchange] /\ http'[TheCall(c)] = NoExchange
      /\ \A d \in Calls : d # c => http'[TheCall(d)] = http[TheCall(d)]
                                   /\ http'[TheRefresh(d)] = http[TheRefresh(d)]
  <2>1. CASE Starts(c)
    <3>1. http' = [http EXCEPT ![TheCall(c)] = NoExchange, ![TheRefresh(c)] = req]
      BY <2>1 DEF ReceiveExpired
    <3>2. QED
      <4>. HIDE DEF req
      <4>. QED BY <1>0, <1>1, <3>1, Names
  <2>2. CASE ~Starts(c)
    BY <1>0, <1>1, <2>2, Names DEF ReceiveExpired
  <2>3. QED BY <2>1, <2>2
<1>6. CASE Starts(c)
  <2>1. /\ http' = [http EXCEPT ![TheCall(c)] = NoExchange, ![TheRefresh(c)] = req]
        /\ refreshing' = [refreshing EXCEPT ![Tab[c]] = c]
    BY <1>6 DEF ReceiveExpired
  <2> HIDE DEF req
  <2>2. /\ http'[TheRefresh(c)] = req
        /\ refreshing' \in [Tabs -> Calls \cup {NoCall}]
        /\ refreshing'[Tab[c]] = c
        /\ \A t \in Tabs : t # Tab[c] => refreshing'[t] = refreshing[t]
    BY <1>0, <2>1, Names
  <2>3. \A d \in InTab(Tab[c]) : http[TheRefresh(d)].at = "none"
    BY <1>0, <1>6, NoCallAssumption DEF Starts, IInv, RefreshIsAwaited, InTab
  <2>4. TypeOK'
    BY <1>2, <1>4, <1>5, <2>2 DEF IInv, TypeOK, STypeOK
  <2>5. AnsweredIsDone'
    <3>1. ASSUME NEW y \in Exchanges, http'[y].status # "none" PROVE http'[y].at = "done"
      <4>1. y # TheCall(c) /\ y # TheRefresh(c)
        BY <1>1, <1>5, <2>2, <3>1
      <4>2. http'[y] = http[y]
        BY <1>0, <2>1, <4>1
      <4>3. QED BY <3>1, <4>2 DEF IInv, AnsweredIsDone
    <3>2. QED BY <3>1 DEF AnsweredIsDone
  <2>6. SentIsExchanged'
    BY <1>1, <1>2, <1>5 DEF IInv, SentIsExchanged
  <2>7. RefreshIsAwaited'
    <3>1. ASSUME NEW d \in Calls, d # c, http'[TheRefresh(d)].at # "none"
          PROVE  refreshing'[Tab[d]] = d
      <4>1. http[TheRefresh(d)].at # "none"
        BY <1>5, <3>1
      <4>2. Tab[d] # Tab[c] /\ Tab[d] \in Tabs
        BY <2>3, <3>1, <4>1, TabAssumption DEF InTab
      <4>3. QED
        BY <2>2, <3>1, <4>1, <4>2 DEF IInv, RefreshIsAwaited
    <3>2. QED
      BY <1>0, <1>1, <1>5, <2>2, <3>1 DEF IInv, RefreshIsAwaited
  <2>9. AwaitedIsInFlight'
    <3>1. ASSUME NEW t \in Tabs, refreshing'[t] # NoCall, t # Tab[c]
          PROVE  refreshing'[t] \in Waiting(t)' /\ http'[TheRefresh(refreshing'[t])].at # "none"
      <4>1. refreshing'[t] = refreshing[t] /\ refreshing[t] \in Calls
        BY <1>0, <2>2, <3>1
      <4>2. refreshing[t] \in Waiting(t) /\ http[TheRefresh(refreshing[t])].at # "none"
        BY <3>1, <4>1 DEF IInv, AwaitedIsInFlight
      <4>3. refreshing[t] # c
        BY <3>1, <4>2 DEF Waiting, InTab
      <4>4. QED
        BY <1>3, <1>5, <3>1, <4>1, <4>2, <4>3
    <3>2. refreshing'[Tab[c]] \in Waiting(Tab[c])' /\ http'[TheRefresh(refreshing'[Tab[c]])].at # "none"
      BY <1>1, <1>3, <2>2
    <3>3. QED BY <3>1, <3>2 DEF AwaitedIsInFlight
  <2>10. OneAccountPerEmail'
    BY <1>1, <1>4, <1>5 DEF IInv, OneAccountPerEmail
  <2>11. WaitersShareOneRefresh'
    <3>1. ASSUME NEW t \in Tabs, t # Tab[c]
          PROVE  /\ Waiting(t)' # {} => refreshing'[t] \in Waiting(t)'
                 /\ {d \in InTab(t) : http'[TheRefresh(d)].at # "none"} = {refreshing'[t]} \ {NoCall}
      <4>1. {d \in InTab(t) : http'[TheRefresh(d)].at # "none"}
              = {d \in InTab(t) : http[TheRefresh(d)].at # "none"}
        BY <1>5, <3>1 DEF InTab
      <4>2. QED
        BY <1>3, <2>2, <3>1, <4>1 DEF IInv, WaitersShareOneRefresh
    <3>2. refreshing'[Tab[c]] \in Waiting(Tab[c])'
      BY <1>3, <2>2
    <3>3. {d \in InTab(Tab[c]) : http'[TheRefresh(d)].at # "none"} = {refreshing'[Tab[c]]} \ {NoCall}
      <4>1. \A d \in InTab(Tab[c]) : http'[TheRefresh(d)].at # "none" <=> d = c
        BY <1>1, <1>5, <2>2, <2>3 DEF InTab
      <4>2. c \in InTab(Tab[c]) /\ c # NoCall
        BY NoCallAssumption DEF InTab
      <4>3. QED BY <2>2, <4>1, <4>2
    <3>4. QED BY <3>1, <3>2, <3>3 DEF WaitersShareOneRefresh, InTab
  <2>12. QED
    BY <2>4, <2>5, <2>6, <2>7, <2>9, <2>10, <2>11 DEF IInv
<1>7. CASE ~Starts(c)
  <2>1. http' = [http EXCEPT ![TheCall(c)] = NoExchange] /\ UNCHANGED refreshing
    BY <1>7 DEF ReceiveExpired
  <2>2. \A d \in Calls : http'[TheRefresh(d)] = http[TheRefresh(d)]
    BY <1>0, <2>1, Names
  <2>3. TypeOK'
    BY <1>2, <1>4, <1>5, <2>1 DEF IInv, TypeOK, STypeOK
  <2>4. AnsweredIsDone'
    BY <1>0, <1>1, <2>1 DEF IInv, AnsweredIsDone
  <2>5. SentIsExchanged'
    BY <1>1, <1>2, <1>5 DEF IInv, SentIsExchanged
  <2>6. RefreshIsAwaited'
    BY <2>1, <2>2 DEF IInv, RefreshIsAwaited
  <2>7. \A t \in Tabs : Waiting(t) \subseteq Waiting(t)'
    BY <1>3
  <2>8. AwaitedIsInFlight'
    <3>1. \A t \in Tabs : refreshing[t] # NoCall => refreshing[t] \in Calls
      BY <1>0
    <3>2. QED
      BY <2>1, <2>2, <2>7, <3>1 DEF IInv, AwaitedIsInFlight
  <2>9. OneAccountPerEmail'
    BY <1>1, <1>4, <1>5 DEF IInv, OneAccountPerEmail
  <2>10. WaitersShareOneRefresh'
    <3>1. ASSUME NEW t \in Tabs, Waiting(t)' # {} PROVE refreshing'[t] \in Waiting(t)'
      <4>1. CASE refreshing[t] # NoCall
        BY <2>1, <2>7, <4>1 DEF IInv, AwaitedIsInFlight
      <4>2. CASE refreshing[t] = NoCall
        <5>1. t # Tab[c]
          BY <1>7, <4>2 DEF Starts
        <5>2. QED
          BY <1>3, <2>1, <3>1, <5>1 DEF IInv, WaitersShareOneRefresh
      <4>3. QED BY <4>1, <4>2
    <3>2. ASSUME NEW t \in Tabs
          PROVE  {d \in InTab(t) : http'[TheRefresh(d)].at # "none"} = {refreshing'[t]} \ {NoCall}
      <4>1. {d \in InTab(t) : http'[TheRefresh(d)].at # "none"}
              = {d \in InTab(t) : http[TheRefresh(d)].at # "none"}
        BY <2>2 DEF InTab
      <4>2. QED BY <2>1, <4>1 DEF IInv, WaitersShareOneRefresh
    <3>3. QED BY <3>1, <3>2 DEF WaitersShareOneRefresh, InTab
  <2>11. QED
    BY <2>3, <2>4, <2>5, <2>6, <2>8, <2>9, <2>10 DEF IInv
<1>8. QED BY <1>6, <1>7

(* The calls that waited for a refresh are none of them at the server. *)
LEMMA WaitersAreNotSent ==
  ASSUME IInv, NEW c \in Calls, calls[c].at # "sent"
  PROVE  http[TheCall(c)].at = "none" /\ http[TheCall(c)].status = "none"
<1>1. TheCall(c) \in Exchanges
  BY Names
<1>2. http[TheCall(c)].at = "none"
  BY DEF IInv, SentIsExchanged
<1>3. QED
  BY <1>1, <1>2 DEF IInv, AnsweredIsDone

(* A refresh that is over, however it ended, leaves no call waiting for it. *)
LEMMA RefreshOverInv ==
  ASSUME IInv, NEW c \in Calls, http[TheRefresh(c)].status # "none",
         http' \in [Exchanges -> Exchange], calls' \in [Calls -> Call],
         store' \in Pairs \cup {NoPair}, UNCHANGED <<accounts, hash>>,
         refreshing' = [refreshing EXCEPT ![Tab[c]] = NoCall],
         http'[TheRefresh(c)] = NoExchange,
         \A d \in Calls : d # c => http'[TheRefresh(d)] = http[TheRefresh(d)],
         \A d \in Calls \ Waiting(Tab[c]) :
           calls'[d] = calls[d] /\ http'[TheCall(d)] = http[TheCall(d)],
         \A d \in Waiting(Tab[c]) :
           /\ http'[TheCall(d)].status = "none" /\ http'[TheCall(d)].at # "created"
           /\ calls'[d].at # "waiting"
           /\ calls'[d].at = "sent" <=> http'[TheCall(d)].at # "none"
           /\ calls'[d].at = "sent" => http'[TheCall(d)].route = calls'[d].asks
           /\ calls'[d].asks \in Asks[d] \cup {"page"}
  PROVE  IInv'
<1>0. /\ http \in [Exchanges -> Exchange] /\ calls \in [Calls -> Call]
      /\ refreshing \in [Tabs -> Calls \cup {NoCall}]
      /\ Tab[c] \in Tabs
  BY TabAssumption DEF IInv, TypeOK, STypeOK
<1>1. NoExchange.at = "none" /\ NoExchange.status = "none"
  BY DEF NoExchange
<1>2. refreshing[Tab[c]] = c
  <2>1. http[TheRefresh(c)].at = "done"
    BY Names DEF IInv, AnsweredIsDone
  <2>2. QED BY <2>1 DEF IInv, RefreshIsAwaited
<1>3. /\ refreshing' \in [Tabs -> Calls \cup {NoCall}]
      /\ refreshing'[Tab[c]] = NoCall
      /\ \A t \in Tabs : t # Tab[c] => refreshing'[t] = refreshing[t]
  BY <1>0
<1>4. Waiting(Tab[c])' = {}
  <2>1. ASSUME NEW d \in InTab(Tab[c]) PROVE calls'[d].at # "waiting"
    BY DEF Waiting, InTab
  <2>2. QED BY <2>1 DEF Waiting, InTab
<1>5. \A t \in Tabs : t # Tab[c] => Waiting(t)' = Waiting(t)
  <2>1. ASSUME NEW t \in Tabs, t # Tab[c], NEW d \in InTab(t) PROVE calls'[d] = calls[d]
    BY <2>1 DEF Waiting, InTab
  <2>2. QED BY <2>1 DEF Waiting, InTab
<1>6. TypeOK'
  BY <1>3 DEF IInv, TypeOK, STypeOK
<1>7. AnsweredIsDone'
  <2>1. ASSUME NEW d \in Calls, http'[TheCall(d)].status # "none" PROVE http'[TheCall(d)].at = "done"
    BY <2>1, Names DEF IInv, AnsweredIsDone
  <2>2. ASSUME NEW d \in Calls, http'[TheRefresh(d)].status # "none" PROVE http'[TheRefresh(d)].at = "done"
    BY <1>1, <2>2, Names DEF IInv, AnsweredIsDone
  <2>3. QED BY <2>1, <2>2, Names DEF AnsweredIsDone
<1>8. SentIsExchanged'
  BY DEF IInv, SentIsExchanged
<1>9. RefreshIsAwaited'
  <2>1. ASSUME NEW d \in Calls, d # c, http'[TheRefresh(d)].at # "none"
        PROVE  refreshing'[Tab[d]] = d
    <3>1. refreshing[Tab[d]] = d /\ Tab[d] \in Tabs
      BY <2>1, TabAssumption DEF IInv, RefreshIsAwaited
    <3>2. QED BY <1>2, <1>3, <2>1, <3>1
  <2>2. QED
    BY <1>1, <2>1 DEF IInv, RefreshIsAwaited
<1>11. AwaitedIsInFlight'
  <2>1. ASSUME NEW t \in Tabs, refreshing'[t] # NoCall
        PROVE  refreshing'[t] \in Waiting(t)' /\ http'[TheRefresh(refreshing'[t])].at # "none"
    <3>1. t # Tab[c] /\ refreshing'[t] = refreshing[t] /\ refreshing[t] \in Calls
      BY <1>0, <1>3, <2>1
    <3>2. refreshing[t] \in Waiting(t) /\ http[TheRefresh(refreshing[t])].at # "none"
      BY <2>1, <3>1 DEF IInv, AwaitedIsInFlight
    <3>3. refreshing[t] # c
      BY <3>1, <3>2 DEF Waiting, InTab
    <3>4. QED BY <1>5, <3>1, <3>2, <3>3
  <2>2. QED BY <2>1 DEF AwaitedIsInFlight
<1>12. OneAccountPerEmail'
  BY DEF IInv, OneAccountPerEmail
<1>13. WaitersShareOneRefresh'
  <2>1. ASSUME NEW t \in Tabs, t # Tab[c]
        PROVE  /\ Waiting(t)' # {} => refreshing'[t] \in Waiting(t)'
               /\ {d \in InTab(t) : http'[TheRefresh(d)].at # "none"} = {refreshing'[t]} \ {NoCall}
    <3>1. {d \in InTab(t) : http'[TheRefresh(d)].at # "none"}
            = {d \in InTab(t) : http[TheRefresh(d)].at # "none"}
      BY <2>1 DEF InTab
    <3>2. QED
      BY <1>3, <1>5, <2>1, <3>1 DEF IInv, WaitersShareOneRefresh
  <2>2. {d \in InTab(Tab[c]) : http'[TheRefresh(d)].at # "none"} = {}
    <3>1. {d \in InTab(Tab[c]) : http[TheRefresh(d)].at # "none"} = {c} \ {NoCall}
      BY <1>0, <1>2 DEF IInv, WaitersShareOneRefresh
    <3>2. ASSUME NEW d \in InTab(Tab[c]) PROVE http'[TheRefresh(d)].at = "none"
      BY <1>1, <3>1 DEF InTab
    <3>3. QED BY <3>2
  <2>3. QED BY <1>3, <1>4, <2>1, <2>2 DEF WaitersShareOneRefresh, InTab
<1>14. QED
  BY <1>6, <1>7, <1>8, <1>9, <1>11, <1>12, <1>13 DEF IInv

LEMMA SucceededInv ==
  ASSUME IInv, NEW c \in Calls, RefreshSucceeded(c)
  PROVE  IInv'
<1> DEFINE p == http[TheRefresh(c)].pair
           W == Waiting(Tab[c])
<1>0. /\ http \in [Exchanges -> Exchange] /\ calls \in [Calls -> Call]
      /\ http[TheRefresh(c)].status = "ok" /\ p \in Pairs \cup {NoPair}
  BY Names DEF IInv, TypeOK, STypeOK, RefreshSucceeded, Exchange
<1>1. /\ store' = p
      /\ refreshing' = [refreshing EXCEPT ![Tab[c]] = NoCall]
      /\ calls' = [d \in Calls |-> IF d \in W THEN [calls[d] EXCEPT !.at = "sent"] ELSE calls[d]]
      /\ http' = [x \in Exchanges |->
                    IF x = TheRefresh(c) THEN NoExchange
                    ELSE IF x[1] \in W /\ x[2] = "call" THEN Request(calls[x[1]].asks, p)
                    ELSE http[x]]
      /\ UNCHANGED <<accounts, hash>>
  BY DEF RefreshSucceeded, setTokens
<1>2. ASSUME NEW d \in Calls
      PROVE  /\ Request(calls[d].asks, p) \in Exchange
             /\ Request(calls[d].asks, p).at = "sent" /\ Request(calls[d].asks, p).status = "none"
             /\ Request(calls[d].asks, p).route = calls[d].asks
  BY <1>0 DEF Request, NoExchange, Exchange, Stages, Routes, Statuses, Call
<1>3. NoExchange \in Exchange
  BY DEF NoExchange, Exchange, Stages, Routes, Statuses
<1>4. W \subseteq Calls
  BY DEF Waiting, InTab
<1>5. ASSUME NEW d \in W
      PROVE  /\ calls'[d] \in Call /\ calls'[d].at = "sent" /\ calls'[d].asks = calls[d].asks
             /\ http'[TheCall(d)] = Request(calls[d].asks, p)
  <2>1. calls'[d] = [calls[d] EXCEPT !.at = "sent"]
    BY <1>1, <1>4
  <2>2. http'[TheCall(d)] = Request(calls[d].asks, p)
    BY <1>1, <1>4, Names
  <2>3. QED BY <1>0, <1>4, <2>1, <2>2 DEF Call
<1>6. \A d \in Calls \ W : calls'[d] = calls[d] /\ http'[TheCall(d)] = http[TheCall(d)]
  BY <1>1, Names
<1>7. calls' \in [Calls -> Call]
  BY <1>0, <1>1, <1>5, <1>6
<1>8. http' \in [Exchanges -> Exchange]
  <2>1. ASSUME NEW x \in Exchanges PROVE http'[x] \in Exchange
    BY <1>0, <1>1, <1>2, <1>3, <1>4, <2>1
  <2>2. QED BY <1>1, <2>1
<1>9. /\ http'[TheRefresh(c)] = NoExchange
      /\ \A d \in Calls : d # c => http'[TheRefresh(d)] = http[TheRefresh(d)]
  BY <1>1, Names
<1>10. ASSUME NEW d \in W
       PROVE  /\ http'[TheCall(d)].status = "none" /\ http'[TheCall(d)].at # "created"
              /\ calls'[d].at # "waiting"
              /\ calls'[d].at = "sent" <=> http'[TheCall(d)].at # "none"
              /\ calls'[d].at = "sent" => http'[TheCall(d)].route = calls'[d].asks
              /\ calls'[d].asks \in Asks[d] \cup {"page"}
  BY <1>2, <1>4, <1>5, <1>10 DEF IInv, SentIsExchanged
<1>11. QED
  <2> HIDE DEF p
  <2>. QED BY <1>0, <1>1, <1>6, <1>7, <1>8, <1>9, <1>10, RefreshOverInv

LEMMA FailedInv ==
  ASSUME IInv, NEW c \in Calls, RefreshFailed(c)
  PROVE  IInv'
<1> DEFINE W == Waiting(Tab[c])
<1>0. /\ http \in [Exchanges -> Exchange] /\ calls \in [Calls -> Call]
      /\ http[TheRefresh(c)].status # "none"
  BY DEF IInv, TypeOK, STypeOK, RefreshFailed
<1>1. /\ store' = NoPair
      /\ refreshing' = [refreshing EXCEPT ![Tab[c]] = NoCall]
      /\ calls' = [d \in Calls |-> IF d \in W THEN Idle ELSE calls[d]]
      /\ http' = [http EXCEPT ![TheRefresh(c)] = NoExchange]
      /\ UNCHANGED <<accounts, hash>>
  BY DEF RefreshFailed, AfterFailure, clearTokens
<1>2. NoExchange \in Exchange /\ Idle \in Call /\ Idle.at = "idle" /\ Idle.asks = "page"
  BY DEF NoExchange, Exchange, Stages, Routes, Statuses, Idle, Call
<1>3. calls' \in [Calls -> Call] /\ http' \in [Exchanges -> Exchange]
  BY <1>0, <1>1, <1>2
<1>4. /\ http'[TheRefresh(c)] = NoExchange
      /\ \A d \in Calls : d # c => http'[TheRefresh(d)] = http[TheRefresh(d)]
      /\ \A d \in Calls : http'[TheCall(d)] = http[TheCall(d)]
  BY <1>0, <1>1, Names
<1>5. \A d \in Calls \ W : calls'[d] = calls[d]
  BY <1>1
<1>6. ASSUME NEW d \in W
      PROVE  /\ http'[TheCall(d)].status = "none" /\ http'[TheCall(d)].at = "none"
             /\ calls'[d] = Idle
  <2>1. d \in Calls /\ calls[d].at = "waiting"
    BY DEF Waiting, InTab
  <2>2. QED BY <1>1, <1>4, <2>1, WaitersAreNotSent
<1>7. QED
  BY <1>0, <1>1, <1>2, <1>3, <1>4, <1>5, <1>6, RefreshOverInv

(* Every step keeps the inductive invariant. *)
LEMMA NextInv ==
  ASSUME IInv, [Next]_vars
  PROVE  IInv'
<1>1. ASSUME NEW c \in Calls, User(c) PROVE IInv'
  BY <1>1, SendInv DEF User, SendPage, SubmitRegister, SubmitLogin, SubmitForm, ClickLogout
<1>2. ASSUME NEW c \in Calls, Receive(c) PROVE IInv'
  <2>0. store \in Pairs \cup {NoPair} /\ http[TheCall(c)].pair \in Pairs \cup {NoPair}
    BY Names DEF IInv, TypeOK, STypeOK, Exchange
  <2>1. CASE ReceiveOk(c)
    <3>1. PICK tokens \in Pairs \cup {NoPair} : Settle(c, tokens)
      BY <2>0, <2>1 DEF ReceiveOk
    <3>2. QED BY <2>1, <3>1, SettleInv DEF ReceiveOk, Got
  <2>2. CASE ReceiveError(c) \/ ReceiveSignedOut(c)
    BY <2>0, <2>2, SettleInv DEF ReceiveError, ReceiveSignedOut, Got
  <2>3. QED BY <1>2, <2>1, <2>2, ExpiredInv DEF Receive
<1>3. ASSUME NEW c \in Calls, ReceiveRefresh(c) PROVE IInv'
  BY <1>3, SucceededInv, FailedInv DEF ReceiveRefresh
<1>4. ASSUME NEW x \in Exchanges, Server(x) \/ Fault(x) PROVE IInv'
  BY <1>4, HandlerStep, ServerInv DEF Server, Fault
<1>5. CASE UNCHANGED vars
  BY <1>5 DEF vars, svars, cvars, IInv, TypeOK, STypeOK, AnsweredIsDone, SentIsExchanged,
       RefreshIsAwaited, AwaitedIsInFlight, OneAccountPerEmail,
       WaitersShareOneRefresh, Waiting, InTab
<1>6. QED
  BY <1>1, <1>2, <1>3, <1>4, <1>5 DEF Next

(* No call is open, no account exists and no token is stored at first. *)
LEMMA InitInv == ASSUME Init PROVE IInv
<1>0. /\ accounts = {} /\ hash = NoHash /\ store = NoPair
      /\ http = [x \in Exchanges |-> NoExchange]
      /\ calls = [c \in Calls |-> Idle]
      /\ refreshing = [t \in Tabs |-> NoCall]
  BY DEF Init, SInit
<1>1. /\ NoExchange \in Exchange /\ NoExchange.at = "none" /\ NoExchange.status = "none"
      /\ Idle \in Call /\ Idle.at = "idle" /\ Idle.asks = "page"
  BY DEF NoExchange, Exchange, Stages, Routes, Statuses, Idle, Call
<1>2. /\ \A c \in Calls : http[TheCall(c)] = NoExchange /\ http[TheRefresh(c)] = NoExchange
      /\ \A c \in Calls : calls[c] = Idle
      /\ \A t \in Tabs : refreshing[t] = NoCall /\ Waiting(t) = {}
  BY <1>0, <1>1, Names DEF Waiting, InTab
<1>3. TypeOK
  BY <1>0, <1>1 DEF TypeOK, STypeOK
<1>4. AnsweredIsDone
  BY <1>0, <1>1 DEF AnsweredIsDone
<1>5. SentIsExchanged /\ RefreshIsAwaited /\ AwaitedIsInFlight
  BY <1>1, <1>2 DEF SentIsExchanged, RefreshIsAwaited, AwaitedIsInFlight
<1>6. OneAccountPerEmail
  BY <1>0, <1>1, <1>2, FS_EmptySet DEF OneAccountPerEmail
<1>7. WaitersShareOneRefresh
  BY <1>1, <1>2 DEF WaitersShareOneRefresh, InTab
<1>8. QED
  BY <1>3, <1>4, <1>5, <1>6, <1>7 DEF IInv

(* The inductive invariant holds in every reachable state: what a call, its  *)
(* exchange and the refresh of its tab know of each other always agrees.     *)
THEOREM Safety == Spec => []IInv
<1>1. Init => IInv
  BY InitInv
<1>2. IInv /\ [Next]_vars => IInv'
  BY NextInv
<1>3. QED BY <1>1, <1>2, PTL DEF Spec

(* However many registrations of one address run at once, one account is     *)
(* left and its creator alone is given tokens.                               *)
THEOREM RegistersOnce == Spec => []OneAccountPerEmail
<1>1. IInv => OneAccountPerEmail
  BY DEF IInv
<1>2. QED BY <1>1, Safety, PTL

(* The calls of a tab that found their token expired share one refresh.      *)
THEOREM RefreshesOnce == Spec => []WaitersShareOneRefresh
<1>1. IInv => WaitersShareOneRefresh
  BY DEF IInv
<1>2. QED BY <1>1, Safety, PTL
=============================================================================
