---------------------------- MODULE AuthSession ----------------------------
(***************************************************************************)
(* The server side of one account's session: AuthService (register, login,  *)
(* refresh, logout), the guard in front of the protected routes, and the    *)
(* user record with the hash of its refresh token.                          *)
(*                                                                          *)
(* An exchange is one HTTP request with its handler and its answer.  Every  *)
(* handler awaits between a read and a write of the user record, so its     *)
(* steps interleave with those of the other exchanges.  Time is not         *)
(* modelled: a token may be found expired whenever it is verified.          *)
(*                                                                          *)
(* A definition named Action_Word is Action with a plausible mistake; no    *)
(* specification uses it, it shows that a property notices the mistake.     *)
(***************************************************************************)
EXTENDS Naturals, FiniteSets

CONSTANTS
  Calls,     \* calls a page can have open
  Pairs,     \* token pairs (access and refresh), told apart by when they were signed
  NoPair,    \* no tokens are carried or stored
  NoHash,    \* refreshTokenHash is null
  Prefix     \* the leading 72 bytes of every refresh token of the account

ASSUME NoPairAssumption == NoPair \notin Pairs
ASSUME NoHashAssumption == NoHash \notin Pairs

VARIABLES
  accounts,  \* user records of the e-mail address, named by the call that created them
  hash,      \* refreshTokenHash of the account: the pair whose refresh token it was made of
  http       \* the exchanges

svars == <<accounts, hash, http>>

(* Every call of a page is an exchange, and so is the refresh it may start. *)
Exchanges == Calls \X {"call", "refresh"}
TheCall(c)    == <<c, "call">>
TheRefresh(c) == <<c, "refresh">>

Routes   == {"page", "register", "login", "logout", "refresh"}
Public   == {"register", "login", "refresh"}
Stages   == {"none", "sent", "read", "created", "done"}
Statuses == {"none", "ok", "unauthorised", "error"}

(* bcrypt reads at most 72 bytes of its input, when it hashes and when it   *)
(* compares.  A JWT of this server has a 37 byte header before a payload    *)
(* that starts with the user's id, so what is read of a refresh token is    *)
(* the same for all tokens of an account.                                   *)
HashedPart(p) == Prefix
Matches(p, h) == HashedPart(p) = HashedPart(h)

NoExchange == [at |-> "none", route |-> "page", pair |-> NoPair, seen |-> NoHash, status |-> "none"]
Request(r, p) == [NoExchange EXCEPT !.at = "sent", !.route = r, !.pair = p]
Reply(s, p)   == [NoExchange EXCEPT !.at = "done", !.status = s, !.pair = p]

SInit ==
  /\ accounts = {}
  /\ hash = NoHash
  /\ http = [x \in Exchanges |-> NoExchange]

At(x, stage, route) == http[x].at = stage /\ http[x].route = route

(* The reply keeps the route, by which the page knows what it had asked.    *)
Answer(x, s, p) == http' = [http EXCEPT ![x] = [Reply(s, p) EXCEPT !.route = http[x].route]]
Advance(x, stage) == http' = [http EXCEPT ![x].at = stage]

-----------------------------------------------------------------------------
(* Protected routes want an access token that verifies; there is none, or   *)
(* it has expired.                                                          *)
GuardRejects(x) ==
  /\ http[x].at = "sent" /\ http[x].route \notin Public
  /\ Answer(x, "unauthorised", NoPair)
  /\ UNCHANGED <<accounts, hash>>

(* A request of a page other than logout: what it reads is not modelled.    *)
GuardPasses(x) ==
  /\ At(x, "sent", "page") /\ http[x].pair # NoPair
  /\ Answer(x, "ok", NoPair)
  /\ UNCHANGED <<accounts, hash>>

LogoutFind(x) ==
  /\ At(x, "sent", "logout") /\ http[x].pair # NoPair
  /\ IF accounts = {} THEN Answer(x, "error", NoPair) ELSE Advance(x, "read")
  /\ UNCHANGED <<accounts, hash>>

LogoutClear(x) ==
  /\ At(x, "read", "logout")
  /\ hash' = NoHash
  /\ Answer(x, "ok", NoPair)
  /\ UNCHANGED accounts

-----------------------------------------------------------------------------
(* A taken e-mail address is a 409; otherwise the password is hashed.       *)
RegisterFind(x) ==
  /\ At(x, "sent", "register")
  /\ IF accounts = {} THEN Advance(x, "read") ELSE Answer(x, "error", NoPair)
  /\ UNCHANGED <<accounts, hash>>

(* Variant: the schema does not make the e-mail address unique. *)
RegisterCreate_NotUnique(x) ==
  /\ At(x, "read", "register")
  /\ accounts' = accounts \cup {x[1]}
  /\ Advance(x, "created")
  /\ UNCHANGED hash

(* The unique index lets one of two concurrent registrations through.       *)
RegisterCreate(x) ==
  /\ At(x, "read", "register")
  /\ IF accounts = {}
     THEN accounts' = {x[1]} /\ Advance(x, "created")
     ELSE accounts' = accounts /\ Answer(x, "error", NoPair)
  /\ UNCHANGED hash

(* An unknown address and a wrong password are the same 401.                *)
LoginRejects(x) ==
  /\ At(x, "sent", "login")
  /\ Answer(x, "unauthorised", NoPair)
  /\ UNCHANGED <<accounts, hash>>

LoginFind(x) ==
  /\ At(x, "sent", "login") /\ accounts # {}
  /\ Advance(x, "read")
  /\ UNCHANGED <<accounts, hash>>

(* generateAndPersistTokens: sign a pair (the same one again, when both are *)
(* signed within a second), hash its refresh token, write the hash.         *)
IssueTokens(x) ==
  \E p \in Pairs :
    /\ hash' = p
    /\ Answer(x, "ok", p)
    /\ UNCHANGED accounts

IssueToRegistered(x) == At(x, "created", "register") /\ IssueTokens(x)
IssueToLoggedIn(x)   == At(x, "read", "login") /\ IssueTokens(x)

-----------------------------------------------------------------------------
(* The refresh token has expired, or the session is found to have ended.    *)
RefreshRejects(x) ==
  /\ At(x, "sent", "refresh")
  /\ Answer(x, "unauthorised", NoPair)
  /\ UNCHANGED <<accounts, hash>>

RefreshRead(x) ==
  /\ At(x, "sent", "refresh") /\ accounts # {} /\ hash # NoHash
  /\ http' = [http EXCEPT ![x].at = "read", ![x].seen = hash]
  /\ UNCHANGED <<accounts, hash>>

(* The comparison is with the hash that was read; a token that does not     *)
(* match it ends the session, one that does is replaced by a new pair.      *)
RefreshFinish(x) ==
  /\ At(x, "read", "refresh")
  /\ IF Matches(http[x].pair, http[x].seen)
     THEN IssueTokens(x)
     ELSE /\ hash' = NoHash
          /\ Answer(x, "unauthorised", NoPair)
          /\ UNCHANGED accounts

(* The ValidationPipe refuses the body (400), before any handler runs.      *)
RefuseBody(x) ==
  /\ http[x].at = "sent" /\ http[x].route \in Public
  /\ Answer(x, "error", NoPair)
  /\ UNCHANGED <<accounts, hash>>

(* A handler fails in one of its awaits, or the request or its answer is    *)
(* lost: what was written before stays written.                             *)
Fail(x) ==
  /\ http[x].at # "none" /\ http[x].status \notin {"unauthorised", "error"}
  /\ Answer(x, "error", NoPair)
  /\ UNCHANGED <<accounts, hash>>

Handle(x) ==
  \/ GuardRejects(x) \/ GuardPasses(x) \/ LogoutFind(x) \/ LogoutClear(x)
  \/ RegisterFind(x) \/ RegisterCreate(x) \/ IssueToRegistered(x)
  \/ LoginRejects(x) \/ LoginFind(x) \/ IssueToLoggedIn(x)
  \/ RefreshRejects(x) \/ RefreshRead(x) \/ RefreshFinish(x)

-----------------------------------------------------------------------------
Exchange == [at : Stages, route : Routes, pair : Pairs \cup {NoPair},
             seen : Pairs \cup {NoHash}, status : Statuses]

STypeOK ==
  /\ accounts \subseteq Calls
  /\ hash \in Pairs \cup {NoHash}
  /\ http \in [Exchanges -> Exchange]
=============================================================================
