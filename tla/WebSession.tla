----------------------------- MODULE WebSession -----------------------------
(***************************************************************************)
(* The browser side of the session, over AuthSession: the token store, the  *)
(* axios instance with its two interceptors and the refresh that all calls  *)
(* of a tab share (client.ts), and the hooks that log in, register and log  *)
(* out (useAuth.ts).                                                        *)
(*                                                                          *)
(* The tabs of a browser share the token store (localStorage) and nothing   *)
(* else.  What a tab does on an answer runs to its end before its next      *)
(* event, promise continuations included, and is one action.                *)
(***************************************************************************)
EXTENDS AuthSession

CONSTANTS
  Tabs,
  Tab,       \* the tab of a call
  Asks,      \* what a call may ask for
  NoCall

ASSUME TabAssumption == Tab \in [Calls -> Tabs]
ASSUME AsksAssumption == Asks \in [Calls -> SUBSET (Routes \ {"refresh"})]
ASSUME NoCallAssumption == NoCall \notin Calls

VARIABLES
  store,       \* the tokens in localStorage
  calls,       \* the calls of the pages
  refreshing   \* refreshPromise of a tab: the call that started it

cvars == <<store, calls, refreshing>>
vars  == <<svars, cvars>>

Idle == [at |-> "idle", asks |-> "page", retry |-> FALSE]

Init ==
  /\ SInit
  /\ store = NoPair
  /\ calls = [c \in Calls |-> Idle]
  /\ refreshing = [t \in Tabs |-> NoCall]

setTokens(p) == store' = p
clearTokens  == store' = NoPair

InTab(t) == {c \in Calls : Tab[c] = t}
Waiting(t) == {c \in InTab(t) : calls[c].at = "waiting"}
Holds(c) == calls[c].at # "idle"

(* The request interceptor attaches the access token stored at that moment. *)
Send(c, r) ==
  /\ calls[c] = Idle /\ r \in Asks[c]
  /\ calls' = [calls EXCEPT ![c] = [at |-> "sent", asks |-> r, retry |-> FALSE]]
  /\ http' = [http EXCEPT ![TheCall(c)] = Request(r, store)]
  /\ UNCHANGED <<accounts, hash, store, refreshing>>

SendPage(c) == Send(c, "page")

(* A form's button is disabled while its own mutation is pending.           *)
SubmitForm(c, r) ==
  /\ \A d \in InTab(Tab[c]) : Holds(d) => calls[d].asks # r
  /\ Send(c, r)

SubmitRegister(c) == SubmitForm(c, "register")
SubmitLogin(c)    == SubmitForm(c, "login")

(* The menu entry can be clicked again while a logout is pending.           *)
ClickLogout(c) == Send(c, "logout")

-----------------------------------------------------------------------------
Got(c, s) == calls[c].at = "sent" /\ http[TheCall(c)].at = "done" /\ http[TheCall(c)].status = s

(* The promise of a call settles: logout clears the tokens either way.      *)
Settle(c, tokens) ==
  /\ calls' = [calls EXCEPT ![c] = Idle]
  /\ http' = [http EXCEPT ![TheCall(c)] = NoExchange]
  /\ IF calls[c].asks = "logout" THEN clearTokens ELSE setTokens(tokens)
  /\ UNCHANGED <<accounts, hash, refreshing>>

(* login and register store the pair they are given.                        *)
ReceiveOk(c) ==
  /\ Got(c, "ok")
  /\ Settle(c, IF calls[c].asks \in {"login", "register"} THEN http[TheCall(c)].pair ELSE store)

(* Variant: the mark of a retried request is not looked at. *)
FirstTry_Unmarked(c) == calls[c].at = "sent"
FirstTry(c) == ~calls[c].retry

(* Not a 401, or the second one of this request.                            *)
ReceiveError(c) ==
  /\ Got(c, "error") \/ (Got(c, "unauthorised") /\ ~FirstTry(c))
  /\ Settle(c, store)

(* A 401 with no refresh token to try.                                      *)
ReceiveSignedOut(c) ==
  /\ Got(c, "unauthorised") /\ FirstTry(c) /\ store = NoPair
  /\ Settle(c, NoPair)

(* Variant: the refresh in flight is not looked at. *)
Starts_Always(c) == calls[c].at = "sent"

Starts(c) == refreshing[Tab[c]] = NoCall

(* A 401 otherwise: the request is marked, a refresh is started unless the  *)
(* tab has one in flight, and the request awaits it.                        *)
ReceiveExpired(c) ==
  /\ Got(c, "unauthorised") /\ FirstTry(c) /\ store # NoPair
  /\ calls' = [calls EXCEPT ![c].at = "waiting", ![c].retry = TRUE]
  /\ IF Starts(c)
     THEN /\ refreshing' = [refreshing EXCEPT ![Tab[c]] = c]
          /\ http' = [http EXCEPT ![TheCall(c)] = NoExchange,
                                  ![TheRefresh(c)] = Request("refresh", store)]
     ELSE /\ http' = [http EXCEPT ![TheCall(c)] = NoExchange]
          /\ UNCHANGED refreshing
  /\ UNCHANGED <<accounts, hash, store>>

-----------------------------------------------------------------------------
(* The refresh succeeds: its pair is stored and every request that waited   *)
(* is sent once more, with the token stored by then.                        *)
RefreshSucceeded(c) ==
  LET p == http[TheRefresh(c)].pair
      W == Waiting(Tab[c])
  IN
  /\ http[TheRefresh(c)].status = "ok"
  /\ setTokens(p)
  /\ refreshing' = [refreshing EXCEPT ![Tab[c]] = NoCall]
  /\ calls' = [d \in Calls |-> IF d \in W THEN [calls[d] EXCEPT !.at = "sent"] ELSE calls[d]]
  /\ http' = [x \in Exchanges |->
                IF x = TheRefresh(c) THEN NoExchange
                ELSE IF x[1] \in W /\ x[2] = "call" THEN Request(calls[x[1]].asks, p)
                ELSE http[x]]
  /\ UNCHANGED <<accounts, hash>>

(* Variant: the tokens are kept. *)
AfterFailure_Kept == UNCHANGED store

AfterFailure == clearTokens

(* It fails, for whatever reason: the tokens are cleared and the requests   *)
(* that waited are rejected.                                                *)
RefreshFailed(c) ==
  LET W == Waiting(Tab[c]) IN
  /\ http[TheRefresh(c)].status \in {"unauthorised", "error"}
  /\ AfterFailure
  /\ refreshing' = [refreshing EXCEPT ![Tab[c]] = NoCall]
  /\ calls' = [d \in Calls |-> IF d \in W THEN Idle ELSE calls[d]]
  /\ http' = [http EXCEPT ![TheRefresh(c)] = NoExchange]
  /\ UNCHANGED <<accounts, hash>>

-----------------------------------------------------------------------------
User(c) == SendPage(c) \/ SubmitRegister(c) \/ SubmitLogin(c) \/ ClickLogout(c)

Receive(c) == ReceiveOk(c) \/ ReceiveError(c) \/ ReceiveSignedOut(c) \/ ReceiveExpired(c)

ReceiveRefresh(c) == RefreshSucceeded(c) \/ RefreshFailed(c)

Server(x) == Handle(x) /\ UNCHANGED cvars
Fault(x)  == (RefuseBody(x) \/ Fail(x)) /\ UNCHANGED cvars

Next ==
  \/ \E c \in Calls : User(c) \/ Receive(c) \/ ReceiveRefresh(c)
  \/ \E x \in Exchanges : Server(x) \/ Fault(x)

Spec == Init /\ [][Next]_vars

(* A call is with its handler or with its page, never with both, and either *)
(* runs on.  Access tokens that are used again and again come to their      *)
(* expiry.  No user sends anything again, and nothing fails, unless it does. *)
Progress(c) ==
  \/ Receive(c) \/ ReceiveRefresh(c)
  \/ Server(TheCall(c)) \/ Server(TheRefresh(c))

Expiry == \E c \in Calls : GuardRejects(TheCall(c)) /\ UNCHANGED cvars

Fairness == SF_vars(Expiry) /\ \A c \in Calls : WF_vars(Progress(c))

FairSpec == Spec /\ Fairness

-----------------------------------------------------------------------------
Call == [at : {"idle", "sent", "waiting"}, asks : Routes \ {"refresh"}, retry : BOOLEAN]

TypeOK ==
  /\ STypeOK
  /\ store \in Pairs \cup {NoPair}
  /\ calls \in [Calls -> Call]
  /\ refreshing \in [Tabs -> Calls \cup {NoCall}]

(* Two registrations of one e-mail address that both find it free leave one *)
(* account, and only the one that created it is answered with tokens: the   *)
(* read in register decides nothing, the unique index does.                 *)
OneAccountPerEmail ==
  /\ Cardinality(accounts) <= 1
  /\ \A c \in Calls : http[TheCall(c)].at = "created" => accounts = {c}

(* The calls of a tab that wait for new tokens wait for one refresh that is *)
(* in flight, however many of them found their token expired and whichever  *)
(* came first: none waits for a refresh that is over, and no tab has two.   *)
WaitersShareOneRefresh ==
  \A t \in Tabs :
    LET inFlight == {c \in InTab(t) : http[TheRefresh(c)].at # "none"} IN
    /\ Waiting(t) # {} => refreshing[t] \in Waiting(t)
    /\ inFlight = {refreshing[t]} \ {NoCall}

(* A refresh token that a newer one has replaced is refused: refresh gives  *)
(* tokens only for the one whose hash it has read, as its comments have it  *)
(* (auth.service.ts:119-120, 145).  The code breaks this.                   *)
ReplacedTokenIsRefused ==
  [][\A x \in Exchanges :
       At(x, "read", "refresh") /\ http'[x].status = "ok" => http[x].pair = http[x].seen]_vars

(* Every call of a page comes to its end, through a refresh, a retry and    *)
(* any failure: a request that keeps being refused is not sent for ever.    *)
CallsSettle == \A c \in Calls : Holds(c) ~> ~Holds(c)

(* Tokens whose session has ended, like those of a refresh or a login that  *)
(* is answered after a logout, do not stay in the browser while its pages   *)
(* keep sending requests.                                                   *)
DeadTokensAreDropped ==
  []<>(\E c \in Calls : calls[c].at = "sent" /\ calls[c].asks = "page") =>
    (store # NoPair /\ hash = NoHash ~> store = NoPair \/ hash # NoHash)
-----------------------------------------------------------------------------
(* The inductive invariant: a call that is sent is the request its exchange *)
(* carries, a refresh belongs to the tab that awaits it, and only what is   *)
(* done has a status.                                                       *)
SentIsExchanged ==
  \A c \in Calls :
    /\ calls[c].at = "sent" <=> http[TheCall(c)].at # "none"
    /\ calls[c].at = "sent" => http[TheCall(c)].route = calls[c].asks
    /\ calls[c].asks \in Asks[c] \cup {"page"}

RefreshIsAwaited ==
  \A c \in Calls :
    /\ http[TheRefresh(c)].at # "none" => refreshing[Tab[c]] = c
    /\ http[TheRefresh(c)].at \in {"sent", "read"} =>
         http[TheRefresh(c)].route = "refresh" /\ http[TheRefresh(c)].pair # NoPair
    /\ http[TheRefresh(c)].at # "created"

AwaitedIsInFlight ==
  \A t \in Tabs : refreshing[t] # NoCall =>
    /\ refreshing[t] \in Waiting(t)
    /\ http[TheRefresh(refreshing[t])].at # "none"

AnsweredIsDone == \A x \in Exchanges : http[x].status # "none" => http[x].at = "done"

IInv ==
  /\ TypeOK
  /\ AnsweredIsDone
  /\ SentIsExchanged
  /\ RefreshIsAwaited
  /\ AwaitedIsInFlight
  /\ OneAccountPerEmail
  /\ WaitersShareOneRefresh
=============================================================================
