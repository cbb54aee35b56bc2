---------------------------- MODULE Authenticate -----------------------------
(***************************************************************************)
(* Server.authenticate (pkg/api/server.go): requests in several containers *)
(* validate their X-S21-Token through two cache layers in front of S21.    *)
(* Every call that leaves the process is a step of its own; between two    *)
(* steps of a request the clock, S21 and the other requests move on.       *)
(***************************************************************************)
EXTENDS TokenCacheOps

CONSTANTS
  Containers, Requests,
  Tokens,       \* header values of the form login:password
  Logins, LoginOf,
  BadTokens,    \* header values authenticate refuses to parse, "" among them
  OutageErrors, \* how S21 may fail: "plain", "worded_invalid", "no_login"
  ReqTime,      \* execution_timeout: no request lives longer
  MaxNow        \* bound: the clock stops here

ASSUME LoginOfAssumption == LoginOf \in [Tokens -> Logins]
ASSUME BadTokensAssumption == EmptyToken \in BadTokens /\ BadTokens \cap Tokens = {}
ASSUME OutageAssumption == OutageErrors \subseteq {"plain", "worded_invalid", "no_login"}
ASSUME ReqTimeAssumption == ReqTime \in Nat
ASSUME AnswerAssumption == Logins \cap {"pending", "rejected", "failed"} = {}

VARIABLES
  now,        \* the one clock behind s.Now, time.Now and the containers
  valid,      \* the tokens S21 accepts at this moment
  goodUntil,  \* history: when S21 last ceased to accept each token
  mem,        \* S21Tokens of each container
  durable,    \* the table s21_token_cache
  req         \* each request's program counter, token, container, local row

vars == <<now, valid, goodUntil, mem, durable, req>>

\* The longest a token outlives its rotation: the durable row's TTL, the full
\* TTL its promotion grants again, and the life of the request that wrote it.
Window == 2 * TTL + ReqTime

\* The clock starts late enough for goodUntil = 0 to mean "long forgotten".
Start == Window

NoRow == [login |-> "none", expiresAt |-> 0]

\* A request that is over keeps nothing but its answer.
Over(a) == [pc |-> "idle", at |-> "nowhere", token |-> EmptyToken, start |-> 0,
            row |-> NoRow, answer |-> a]

Init ==
  /\ now = Start
  /\ valid \in SUBSET Tokens
  /\ goodUntil = [t \in Tokens |-> 0]
  /\ mem = [c \in Containers |-> EmptyCache]
  /\ durable = << >>
  /\ req = [r \in Requests |-> Over("failed")]

Active(r) == req[r].pc # "idle"

Goto(r, l) == req' = [req EXCEPT ![r].pc = l]

Answer(r, a) == req' = [req EXCEPT ![r] = Over(a)]

Arrive(r, c, t) ==
  /\ ~Active(r)
  /\ req' = [req EXCEPT ![r] = [pc |-> "mem", at |-> c, token |-> t,
                                start |-> now, row |-> NoRow, answer |-> "pending"]]
  /\ UNCHANGED <<now, valid, goodUntil, mem, durable>>

\* errMissingToken, errMalformedToken.
RefuseMalformed(r) ==
  /\ req[r].pc = "mem"
  /\ req[r].token \in BadTokens
  /\ Answer(r, "rejected")
  /\ UNCHANGED <<now, valid, goodUntil, mem, durable>>

\* The fast path: S21Tokens.Get, which promotes the entry or clears it.
MemGet(r) ==
  LET t == req[r].token
      cache == mem[req[r].at]
  IN  /\ req[r].pc = "mem"
      /\ t \in Tokens
      /\ mem' = [mem EXCEPT ![req[r].at] = AfterGet(cache, t, now)]
      /\ IF CacheHit(cache, t, now) /\ cache.entries[t].login = LoginOf[t]
         THEN Answer(r, cache.entries[t].login)
         ELSE Goto(r, "durable")
      /\ UNCHANGED <<now, valid, goodUntil, durable>>

\* The warm path: the row is read in one transaction ...
DurableFound(r) ==
  /\ req[r].pc = "durable"
  /\ req[r].token \in DOMAIN durable
  /\ req' = [req EXCEPT ![r].pc = "check", ![r].row = durable[req[r].token]]
  /\ UNCHANGED <<now, valid, goodUntil, mem, durable>>

\* A faulty DurableMissing: the lookup starts over instead of asking S21.
DurableMissingRetried(r) ==
  /\ req[r].pc = "durable"
  /\ Goto(r, "mem")
  /\ UNCHANGED <<now, valid, goodUntil, mem, durable>>

\* ... or there is none, or the read fails: both fall through to S21.
DurableMissing(r) ==
  /\ req[r].pc = "durable"
  /\ Goto(r, "s21")
  /\ UNCHANGED <<now, valid, goodUntil, mem, durable>>

\* A faulty RowUsable: the expiry of the durable row is not looked at.
RowUsableForever(row, t, at) == row.login = LoginOf[t]

RowUsable(row, t, at) == at < row.expiresAt /\ row.login = LoginOf[t]

\* A usable row is promoted with Put, which grants the token a whole TTL.
Promote(r) ==
  LET t == req[r].token
      row == req[r].row
  IN  /\ req[r].pc = "check"
      /\ RowUsable(row, t, now)
      /\ mem' = [mem EXCEPT ![req[r].at] = AfterPut(mem[req[r].at], t, row.login, now)]
      /\ Answer(r, row.login)
      /\ UNCHANGED <<now, valid, goodUntil, durable>>

RowStale(r) ==
  /\ req[r].pc = "check"
  /\ ~RowUsable(req[r].row, req[r].token, now)
  /\ Goto(r, "s21")
  /\ UNCHANGED <<now, valid, goodUntil, mem, durable>>

\* S21.Authenticate reaches S21, which accepts or refuses the pair as it is
\* at that moment.  An outage is told from a refusal by its wording
\* (mapAuthError): one whose text says "invalid" reads as a refusal, and so
\* does an answer without an error that names no login.
S21Accepts(r) ==
  /\ req[r].pc = "s21"
  /\ req[r].token \in valid
  /\ Goto(r, "remember")
  /\ UNCHANGED <<now, valid, goodUntil, mem, durable>>

S21Refuses(r) ==
  /\ req[r].pc = "s21"
  /\ req[r].token \notin valid
  /\ Answer(r, "rejected")
  /\ UNCHANGED <<now, valid, goodUntil, mem, durable>>

\* A faulty MapAuthError: every failure reads as bad credentials.
MapAuthErrorBlindly(e) == "rejected"

\* A faulty S21Outage: authentication fails open.
S21OutageAccepted(r) ==
  /\ req[r].pc = "s21"
  /\ Goto(r, "remember")
  /\ UNCHANGED <<now, valid, goodUntil, mem, durable>>

MapAuthError(e) == IF e = "worded_invalid" THEN "rejected" ELSE "failed"

S21Outage(r) ==
  /\ req[r].pc = "s21"
  /\ \E e \in OutageErrors :
       Answer(r, IF e = "no_login" THEN "rejected" ELSE MapAuthError(e))
  /\ UNCHANGED <<now, valid, goodUntil, mem, durable>>

\* The expiry of the durable row is stamped, the in-memory entry put.
Remember(r) ==
  LET t == req[r].token
  IN  /\ req[r].pc = "remember"
      /\ mem' = [mem EXCEPT ![req[r].at] = AfterPut(mem[req[r].at], t, LoginOf[t], now)]
      /\ req' = [req EXCEPT ![r].pc = "write", ![r].row = NewEntry(LoginOf[t], now)]
      /\ UNCHANGED <<now, valid, goodUntil, durable>>

\* S21TokenCache().Upsert of the row a request stamped.
Upserted(r) ==
  [t \in DOMAIN durable \cup {req[r].token} |->
     IF t = req[r].token THEN req[r].row ELSE durable[t]]

\* The write-through is best effort: the answer is the same if it fails.
DurableWrite(r) ==
  /\ req[r].pc = "write"
  /\ durable' \in {Upserted(r), durable}
  /\ Answer(r, LoginOf[req[r].token])
  /\ UNCHANGED <<now, valid, goodUntil, mem>>

\* The platform ends a request that reached its time limit; a write under way
\* may still be committed.
Timeout(r) ==
  /\ Active(r)
  /\ now - req[r].start >= ReqTime
  /\ Answer(r, "failed")
  /\ durable' \in {durable} \cup (IF req[r].pc = "write" THEN {Upserted(r)} ELSE {})
  /\ UNCHANGED <<now, valid, goodUntil, mem>>

\* A container goes: its cache and its requests with it.
Recycle(c) ==
  /\ mem' = [mem EXCEPT ![c] = EmptyCache]
  /\ req' = [r \in Requests |->
               IF Active(r) /\ req[r].at = c THEN Over("failed") ELSE req[r]]
  /\ UNCHANGED <<now, valid, goodUntil, durable>>

\* S21 ceases to accept a token, or begins to: a password was changed.
Rotate(t) ==
  /\ IF t \in valid
     THEN valid' = valid \ {t} /\ goodUntil' = [goodUntil EXCEPT ![t] = now]
     ELSE valid' = valid \cup {t} /\ UNCHANGED goodUntil
  /\ UNCHANGED <<now, mem, durable, req>>

\* No request outlives its time limit.
Tick ==
  /\ now < MaxNow
  /\ \A r \in Requests : Active(r) => now - req[r].start < ReqTime
  /\ now' = now + 1
  /\ UNCHANGED <<valid, goodUntil, mem, durable, req>>

Step(r) ==
  \/ RefuseMalformed(r) \/ MemGet(r)
  \/ DurableFound(r) \/ DurableMissing(r) \/ Promote(r) \/ RowStale(r)
  \/ S21Accepts(r) \/ S21Refuses(r) \/ S21Outage(r)
  \/ Remember(r) \/ DurableWrite(r)

Next ==
  \/ \E r \in Requests :
       Step(r) \/ Timeout(r)
       \/ \E c \in Containers, t \in Tokens \cup BadTokens : Arrive(r, c, t)
  \/ \E c \in Containers : Recycle(c)
  \/ \E t \in Tokens : Rotate(t)
  \/ Tick

\* A request that can take a step takes one: the goroutine runs, and every
\* call it makes returns or the platform ends the request.
Fairness == \A r \in Requests : WF_vars(Step(r) \/ Timeout(r))

Spec == Init /\ [][Next]_vars /\ Fairness
-----------------------------------------------------------------------------
Locations == {"idle", "mem", "durable", "check", "s21", "remember", "write"}

RowType == [login : Logins \cup {"none"}, expiresAt : Nat]

RequestType ==
  [pc : Locations, at : Containers \cup {"nowhere"}, token : Tokens \cup BadTokens, start : Nat,
   row : RowType, answer : Logins \cup {"pending", "rejected", "failed"}]

\* The type of one container's cache; its list is the subject of S21TokenCache.
CacheOK(c) ==
  /\ c = [entries |-> c.entries, lru |-> c.lru]
  /\ DOMAIN c.entries \subseteq Tokens
  /\ \A t \in DOMAIN c.entries : c.entries[t] \in [login : Logins, expiresAt : Nat]

\* The types of the clock, both cache layers and the requests.
TypeOK ==
  /\ now \in Nat
  /\ valid \in SUBSET Tokens
  /\ goodUntil \in [Tokens -> Nat]
  /\ mem = [c \in Containers |-> mem[c]]
  /\ \A c \in Containers : CacheOK(mem[c])
  /\ DOMAIN durable \subseteq Tokens
  /\ \A t \in DOMAIN durable : durable[t] \in [login : Logins, expiresAt : Nat]
  /\ req \in [Requests -> RequestType]
  /\ \A r \in Requests :
       IF Active(r) THEN req[r].answer = "pending" /\ req[r].at \in Containers
       ELSE \E a \in Logins \cup {"rejected", "failed"} : req[r] = Over(a)

\* A cache layer would accept the token without asking S21.
Remembered(t) ==
  \/ \E c \in Containers : CacheHit(mem[c], t, now)
  \/ t \in DOMAIN durable /\ RowUsable(durable[t], t, now)

ForgottenAfter(w) ==
  \A t \in Tokens \ valid : now >= goodUntil[t] + w => ~Remembered(t)

\* A rotated password stops working: once S21 has refused a token for
\* 2 * TTL + ReqTime, no layer of any container accepts it (the write-through
\* at server.go:245-258 and the promotion at server.go:225-231 each grant TTL).
RotatedTokenForgotten == ForgottenAfter(Window)

\* What server.go:22-26 says: s21TokenCacheTTL, with the durable layer behind
\* the in-memory one, bounds how long a rotated password keeps working (the
\* life of the request that validated it is allowed on top).
RotatedTokenForgottenWithinTTL == ForgottenAfter(TTL + ReqTime)

\* The last moment S21 accepted the token.
LastGood(t) == IF t \in valid THEN now ELSE goodUntil[t]

ClockInv ==
  /\ now >= Start
  /\ \A t \in Tokens : goodUntil[t] <= now
  /\ \A r \in Requests : Active(r) =>
       req[r].start <= now /\ now <= req[r].start + ReqTime

MemInv ==
  \A c \in Containers : \A t \in DOMAIN mem[c].entries :
    /\ mem[c].entries[t].login = LoginOf[t]
    /\ mem[c].entries[t].expiresAt < LastGood(t) + Window

DurableInv ==
  \A t \in DOMAIN durable :
    /\ durable[t].login = LoginOf[t]
    /\ durable[t].expiresAt <= LastGood(t) + TTL + ReqTime

RequestInv ==
  \A r \in Requests :
    /\ req[r].pc \notin {"idle", "mem"} => req[r].token \in Tokens
    /\ req[r].pc \in {"check", "write"} =>
         req[r].row.login = LoginOf[req[r].token]
         /\ req[r].row.expiresAt <= LastGood(req[r].token) + TTL + ReqTime
    /\ req[r].pc \in {"remember", "write"} => req[r].start <= LastGood(req[r].token)

\* Why RotatedTokenForgotten holds: what every layer and every request in
\* flight holds was stamped within its grant of the last time S21 accepted
\* the token, so each hop of server.go:198-260 adds at most its own share.
TrustInv ==
  TypeOK /\ ClockInv /\ MemInv /\ DurableInv /\ RequestInv

Trust == INSTANCE TokenTrust WITH
  Pending <- "pending", Rejected <- "rejected", Failed <- "failed",
  asked  <- [r \in Requests |-> req[r].token],
  answer <- [r \in Requests |-> req[r].answer]

\* Every answer of authenticate is one TokenTrust allows: accepted only with
\* the token's own login and within Window of S21's own acceptance, rejected
\* only while S21 refuses the token (failures are never cached).
ImplementsTrust == Trust!Spec

\* The failures of S21 that read as a refusal.
ReadAsRefusal == OutageErrors \cap {"worded_invalid", "no_login"}

\* However S21 fails, an outage that reads as a refusal included, a request is
\* accepted only with its token's own login and within Window of the last time
\* S21 accepted the token; a token S21 accepts is rejected by such an outage
\* only (server.go:198-260, mapAuthError).
AnswersTrusted ==
  [][\A r \in Requests : Active(r) /\ req'[r].answer # "pending" =>
       \/ req'[r].answer = "failed"
       \/ /\ req[r].token \in Tokens /\ req'[r].answer = LoginOf[req[r].token]
          /\ now < LastGood(req[r].token) + Window
       \/ /\ req'[r].answer = "rejected"
          /\ req[r].token \in valid => req[r].pc = "s21" /\ ReadAsRefusal # {}]_vars

\* authenticate always comes back: whatever the layers and S21 answer, no
\* path of server.go:198-260 waits for another request or tries again.
AlwaysAnswered == \A r \in Requests : Active(r) ~> ~Active(r)
=============================================================================
