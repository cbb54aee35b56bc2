------------------------- MODULE Authenticate_proofs --------------------------
(***************************************************************************)
(* Proofs about module Authenticate: its inductive invariant TrustInv, the *)
(* bound on how long a rotated password keeps working, and that every      *)
(* answer is one module TokenTrust allows.                                 *)
(***************************************************************************)
EXTENDS Authenticate, TLAPS

\* What the facts below need of the constants.
LEMMA Constants ==
  /\ TTL \in Nat /\ TTL >= 1 /\ ReqTime \in Nat
  /\ Window = 2 * TTL + ReqTime /\ Window \in Nat /\ Start = Window
  /\ LoginOf \in [Tokens -> Logins]
  /\ EmptyToken \in BadTokens /\ EmptyToken \notin Tokens
  /\ \A t \in Tokens : t \notin BadTokens
  /\ \A l \in Logins : l \notin {"pending", "rejected", "failed"}
<1>1. TTL \in Nat /\ TTL >= 1
  BY TTLAssumption
<1>2. LoginOf \in [Tokens -> Logins]
  BY LoginOfAssumption
<1>3. /\ EmptyToken \in BadTokens /\ EmptyToken \notin Tokens
      /\ \A t \in Tokens : t \notin BadTokens
  BY BadTokensAssumption
<1>4. \A l \in Logins : l \notin {"pending", "rejected", "failed"}
  BY AnswerAssumption
<1> QED
  BY <1>1, <1>2, <1>3, <1>4, ReqTimeAssumption DEF Window, Start

\* Get leaves only entries that were there, unchanged (s21_token_cache.go:91-111).
LEMMA AfterGetEntries ==
  ASSUME NEW c, CacheOK(c), NEW t, NEW n
  PROVE  LET d == AfterGet(c, t, n)
         IN  /\ CacheOK(d)
             /\ \A x \in DOMAIN d.entries : x \in DOMAIN c.entries /\ d.entries[x] = c.entries[x]
<1> DEFINE d == AfterGet(c, t, n)
<1>1. CASE t = EmptyToken \/ t \notin DOMAIN c.entries
  BY <1>1 DEF AfterGet, CacheOK
<1>2. CASE ~(t = EmptyToken \/ t \notin DOMAIN c.entries) /\ CacheHit(c, t, n)
  <2>1. d = [c EXCEPT !.lru = MovedToFront(c, t)]
    BY <1>2 DEF AfterGet
  <2>2. d = [entries |-> c.entries, lru |-> MovedToFront(c, t)]
    BY <2>1 DEF CacheOK
  <2> QED
    BY <2>2 DEF CacheOK
<1>3. CASE ~(t = EmptyToken \/ t \notin DOMAIN c.entries) /\ ~CacheHit(c, t, n)
  <2>1. d = [entries |-> Restrict(c.entries, DOMAIN c.entries \ {t}), lru |-> Unlinked(c, t)]
    BY <1>3 DEF AfterGet, Dropped
  <2> QED
    BY <2>1 DEF CacheOK, Restrict
<1> QED
  BY <1>1, <1>2, <1>3

\* Put leaves entries that were there, unchanged, and the one it grants, good
\* for TTL from now (s21_token_cache.go:121-143, evictLocked included).
LEMMA AfterPutEntries ==
  ASSUME NEW c, CacheOK(c), NEW t \in Tokens, NEW l \in Logins, NEW n \in Nat
  PROVE  LET d == AfterPut(c, t, l, n)
         IN  /\ CacheOK(d)
             /\ \A x \in DOMAIN d.entries :
                  IF x = t THEN d.entries[x] = NewEntry(l, n)
                  ELSE x \in DOMAIN c.entries /\ d.entries[x] = c.entries[x]
<1> DEFINE d == AfterPut(c, t, l, n)
<1>0. t # EmptyToken /\ NewEntry(l, n) \in [login : Logins, expiresAt : Nat]
  BY Constants DEF NewEntry
<1>1. CASE t \in DOMAIN c.entries
  <2>1. d = [entries |-> [c.entries EXCEPT ![t] = NewEntry(l, n)], lru |-> MovedToFront(c, t)]
    BY <1>0, <1>1 DEF AfterPut
  <2> DEFINE e == [c.entries EXCEPT ![t] = NewEntry(l, n)]
  <2>2. DOMAIN e = DOMAIN c.entries
    OBVIOUS
  <2>3. \A x \in DOMAIN e : e[x] = IF x = t THEN NewEntry(l, n) ELSE c.entries[x]
    OBVIOUS
  <2>4. d.entries = e /\ d = [entries |-> d.entries, lru |-> d.lru]
    BY <2>1
  <2> HIDE DEF d, e
  <2> QED
    BY <1>0, <2>2, <2>3, <2>4 DEF CacheOK, d
<1>2. CASE t \notin DOMAIN c.entries
  <2> DEFINE all == [x \in DOMAIN c.entries \cup {t} |->
                       IF x = t THEN NewEntry(l, n) ELSE c.entries[x]]
             big == [entries |-> all, lru |-> <<t>> \o c.lru]
  <2>1. d = Evicted(big)
    BY <1>0, <1>2 DEF AfterPut
  <2>2. PICK S, s : S \in SUBSET DOMAIN all /\ d = [entries |-> Restrict(all, S), lru |-> s]
    <3> HIDE DEF all
    <3>1. \E gone, s : d = [entries |-> Restrict(all, DOMAIN all \ gone), lru |-> s]
      BY <2>1 DEF Evicted
    <3> QED
      BY <3>1
  <2>3. d.entries = [x \in S |-> all[x]] /\ d = [entries |-> d.entries, lru |-> d.lru]
    BY <2>2 DEF Restrict
  <2>4. S \subseteq DOMAIN c.entries \cup {t}
    BY <2>2
  <2>5. \A x \in S : all[x] = IF x = t THEN NewEntry(l, n) ELSE c.entries[x]
    BY <2>4
  <2> HIDE DEF d, all
  <2> QED
    BY <1>0, <2>3, <2>4, <2>5 DEF CacheOK, d
<1> QED
  BY <1>1, <1>2

-----------------------------------------------------------------------------
(* TrustInv, regrouped by the piece of state it constrains. *)

EnvOK ==
  /\ now \in Nat /\ now >= Start
  /\ valid \in SUBSET Tokens
  /\ goodUntil \in [Tokens -> Nat]
  /\ \A t \in Tokens : goodUntil[t] <= now

MemOK(c) ==
  /\ CacheOK(c)
  /\ \A t \in DOMAIN c.entries :
       c.entries[t].login = LoginOf[t] /\ c.entries[t].expiresAt < LastGood(t) + Window

DurableOK(d) ==
  /\ DOMAIN d \subseteq Tokens
  /\ \A t \in DOMAIN d : /\ d[t] \in [login : Logins, expiresAt : Nat]
                         /\ d[t].login = LoginOf[t]
                         /\ d[t].expiresAt <= LastGood(t) + TTL + ReqTime

RequestOK(q) ==
  /\ q \in RequestType
  /\ q.pc = "idle" => \E a \in Logins \cup {"rejected", "failed"} : q = Over(a)
  /\ q.pc # "idle" =>
       /\ q.answer = "pending" /\ q.at \in Containers
       /\ q.start <= now /\ now <= q.start + ReqTime
  /\ q.pc \notin {"idle", "mem"} => q.token \in Tokens
  /\ q.pc \in {"check", "write"} =>
       /\ q.row.login = LoginOf[q.token]
       /\ q.row.expiresAt <= LastGood(q.token) + TTL + ReqTime
  /\ q.pc \in {"remember", "write"} => q.start <= LastGood(q.token)

Grouped ==
  /\ EnvOK
  /\ mem = [c \in Containers |-> mem[c]] /\ \A c \in Containers : MemOK(mem[c])
  /\ DurableOK(durable)
  /\ req = [r \in Requests |-> req[r]] /\ \A r \in Requests : RequestOK(req[r])

\* The regrouped parts are the invariant.
LEMMA Regrouped == TrustInv <=> Grouped
<1> USE DEF Grouped, TrustInv, TypeOK, ClockInv, MemInv, DurableInv, RequestInv,
            EnvOK, MemOK, DurableOK, RequestOK, Active
<1>1. TrustInv => EnvOK /\ mem = [c \in Containers |-> mem[c]]
  OBVIOUS
<1>2. TrustInv => \A c \in Containers : MemOK(mem[c])
  OBVIOUS
<1>3. TrustInv => DurableOK(durable)
  OBVIOUS
<1>4. TrustInv => req = [r \in Requests |-> req[r]] /\ \A r \in Requests : RequestOK(req[r])
  OBVIOUS
<1>5. ASSUME EnvOK, mem = [c \in Containers |-> mem[c]],
             \A c \in Containers : MemOK(mem[c]), DurableOK(durable),
             req = [r \in Requests |-> req[r]], \A r \in Requests : RequestOK(req[r])
      PROVE  TrustInv
  <2>1. req \in [Requests -> RequestType]
    BY <1>5
  <2> QED
    BY <1>5, <2>1
<1> QED
  BY <1>1, <1>2, <1>3, <1>4, <1>5

LEMMA InitInv == Init => TrustInv
<1> SUFFICES ASSUME Init PROVE TrustInv
  OBVIOUS
<1>1. EnvOK
  BY Constants DEF Init, EnvOK
<1>2. \A c \in Containers : MemOK(mem[c])
  BY DEF Init, MemOK, CacheOK, EmptyCache
<1>3. DurableOK(durable)
  BY DEF Init, DurableOK
<1>4. \A r \in Requests : RequestOK(req[r])
  <2> SUFFICES ASSUME NEW r \in Requests PROVE RequestOK(req[r])
    OBVIOUS
  <2>1. req[r] = Over("failed")
    BY DEF Init
  <2>2. Over("failed") \in RequestType /\ Over("failed").pc = "idle"
    BY Constants DEF Over, RequestType, Locations, RowType, NoRow
  <2> QED
    BY <2>1, <2>2 DEF RequestOK
<1> QED
  BY <1>1, <1>2, <1>3, <1>4, Regrouped DEF Init, Grouped

\* An over request meets its part of the invariant, whatever it answered.
LEMMA OverOK ==
  ASSUME NEW a \in Logins \cup {"rejected", "failed"}
  PROVE  RequestOK(Over(a))
<1>1. Over(a) \in RequestType /\ Over(a).pc = "idle"
  BY Constants DEF Over, RequestType, Locations, RowType, NoRow
<1> QED
  BY <1>1 DEF RequestOK

\* While the clock and S21 stand still, a step of one request needs to be
\* checked only on that request, on the caches and on the table it leaves.
LEMMA RequestStep ==
  ASSUME Grouped, UNCHANGED <<now, valid, goodUntil>>,
         NEW r \in Requests, NEW q, RequestOK(q), req' = [req EXCEPT ![r] = q],
         mem' = [c \in Containers |-> mem'[c]], \A c \in Containers : MemOK(mem'[c]),
         DurableOK(durable')
  PROVE  Grouped'
<1>1. EnvOK'
  BY DEF EnvOK, Grouped
<1>2. \A t : LastGood(t)' = LastGood(t)
  BY DEF LastGood
<1>3. \A x : MemOK(x) => MemOK(x)'
  BY <1>2 DEF MemOK, CacheOK
<1>4. DurableOK(durable)'
  BY <1>2 DEF DurableOK
<1>5. \A x : RequestOK(x) => RequestOK(x)'
  BY <1>2 DEF RequestOK
<1>6. \A x \in Requests : req'[x] = IF x = r THEN q ELSE req[x]
  BY DEF Grouped
<1>7. \A c \in Containers : MemOK(mem[c])'
  BY <1>3
<1>8. \A x \in Requests : RequestOK(req[x])'
  BY <1>5, <1>6 DEF Grouped
<1>9. (req = [x \in Requests |-> req[x]])'
  BY DEF Grouped
<1> QED
  BY <1>1, <1>4, <1>7, <1>8, <1>9 DEF Grouped

\* A step that leaves the caches and the table alone as well.
LEMMA LocalStep ==
  ASSUME Grouped, UNCHANGED <<now, valid, goodUntil, mem, durable>>,
         NEW r \in Requests, NEW q, RequestOK(q), req' = [req EXCEPT ![r] = q]
  PROVE  Grouped'
<1>1. mem' = [c \in Containers |-> mem'[c]] /\ \A c \in Containers : MemOK(mem'[c])
  BY DEF Grouped
<1>2. DurableOK(durable')
  BY DEF Grouped
<1> QED
  BY <1>1, <1>2, RequestStep

\* A step that changes the cache of one container.
LEMMA CacheStep ==
  ASSUME Grouped, UNCHANGED <<now, valid, goodUntil, durable>>,
         NEW r \in Requests, NEW q, RequestOK(q), req' = [req EXCEPT ![r] = q],
         NEW c \in Containers, NEW m, MemOK(m), mem' = [mem EXCEPT ![c] = m]
  PROVE  Grouped'
<1>1. mem' = [x \in Containers |-> mem'[x]]
  BY DEF Grouped
<1>2. \A x \in Containers : mem'[x] = IF x = c THEN m ELSE mem[x]
  BY DEF Grouped
<1>3. \A x \in Containers : MemOK(mem'[x])
  BY <1>2 DEF Grouped
<1>4. DurableOK(durable')
  BY DEF Grouped
<1> QED
  BY <1>1, <1>3, <1>4, RequestStep

\* Putting a token that is good for long enough keeps the cache within bounds.
LEMMA PutOK ==
  ASSUME Grouped, NEW m, MemOK(m), NEW t \in Tokens, now + TTL < LastGood(t) + Window
  PROVE  MemOK(AfterPut(m, t, LoginOf[t], now))
<1> DEFINE d == AfterPut(m, t, LoginOf[t], now)
<1>1. CacheOK(m) /\ LoginOf[t] \in Logins /\ now \in Nat
  BY Constants DEF MemOK, Grouped, EnvOK
<1>2. /\ CacheOK(d)
      /\ \A x \in DOMAIN d.entries :
           IF x = t THEN d.entries[x] = NewEntry(LoginOf[t], now)
           ELSE x \in DOMAIN m.entries /\ d.entries[x] = m.entries[x]
  BY <1>1, AfterPutEntries
<1>3. NewEntry(LoginOf[t], now).login = LoginOf[t] /\ NewEntry(LoginOf[t], now).expiresAt = now + TTL
  BY DEF NewEntry
<1> HIDE DEF d
<1> QED
  BY <1>2, <1>3 DEF MemOK, d

-----------------------------------------------------------------------------
(* One lemma per action that changes a request. *)

\* Every answer leaves the request over.
LEMMA AnswerStep ==
  ASSUME Grouped, UNCHANGED <<now, valid, goodUntil, mem, durable>>,
         NEW r \in Requests, NEW a \in Logins \cup {"rejected", "failed"}, Answer(r, a)
  PROVE  Grouped'
BY OverOK, LocalStep DEF Answer

\* What an active request is known to be.
LEMMA ActiveRequest ==
  ASSUME Grouped, NEW r \in Requests, Active(r)
  PROVE  /\ RequestOK(req[r]) /\ req[r] \in RequestType
         /\ req[r].at \in Containers /\ MemOK(mem[req[r].at])
         /\ req[r].pc # "mem" => req[r].token \in Tokens
BY DEF Grouped, RequestOK, Active

LEMMA ArriveStep ==
  ASSUME Grouped, NEW r \in Requests, NEW c \in Containers,
         NEW t \in Tokens \cup BadTokens, Arrive(r, c, t)
  PROVE  Grouped'
<1> DEFINE q == [pc |-> "mem", at |-> c, token |-> t, start |-> now, row |-> NoRow,
                 answer |-> "pending"]
<1>1. now \in Nat
  BY DEF Grouped, EnvOK
<1>2. q \in RequestType
  BY <1>1 DEF RequestType, Locations, RowType, NoRow
<1>3. RequestOK(q)
  BY <1>1, <1>2, Constants DEF RequestOK
<1> HIDE DEF q
<1>4. req' = [req EXCEPT ![r] = q]
  BY DEF Arrive, q
<1> QED
  BY <1>3, <1>4, LocalStep DEF Arrive

LEMMA MemGetStep ==
  ASSUME Grouped, NEW r \in Requests, MemGet(r)
  PROVE  Grouped'
<1> DEFINE t == req[r].token
           c == req[r].at
           m == AfterGet(mem[c], t, now)
<1>1. Active(r) /\ t \in Tokens /\ c \in Containers /\ MemOK(mem[c])
  BY ActiveRequest DEF MemGet, Active
<1>2. MemOK(m)
  <2>1. CacheOK(m) /\ \A x \in DOMAIN m.entries : x \in DOMAIN mem[c].entries
                                                  /\ m.entries[x] = mem[c].entries[x]
    BY <1>1, AfterGetEntries DEF MemOK
  <2> HIDE DEF m
  <2> QED
    BY <1>1, <2>1 DEF MemOK
<1> HIDE DEF m
<1>3. mem' = [mem EXCEPT ![c] = m] /\ UNCHANGED <<now, valid, goodUntil, durable>>
  BY DEF MemGet, m
<1>4. CASE CacheHit(mem[c], t, now) /\ mem[c].entries[t].login = LoginOf[t]
  <2>1. Answer(r, LoginOf[t])
    BY <1>4 DEF MemGet
  <2>2. RequestOK(Over(LoginOf[t]))
    BY <1>1, Constants, OverOK
  <2> QED
    BY <1>1, <1>2, <1>3, <2>1, <2>2, CacheStep DEF Answer
<1>5. CASE ~(CacheHit(mem[c], t, now) /\ mem[c].entries[t].login = LoginOf[t])
  <2> DEFINE q == [req[r] EXCEPT !.pc = "durable"]
  <2>1. Goto(r, "durable")
    BY <1>5 DEF MemGet
  <2>2. req' = [req EXCEPT ![r] = q]
    BY <2>1 DEF Goto
  <2>3. RequestOK(q)
    BY <1>1, ActiveRequest DEF RequestOK, RequestType, Locations, Active
  <2> HIDE DEF q
  <2> QED
    BY <1>1, <1>2, <1>3, <2>2, <2>3, CacheStep
<1> QED
  BY <1>4, <1>5

\* An active request that only moves on, to location l.
LEMMA GotoStep ==
  ASSUME Grouped, UNCHANGED <<now, valid, goodUntil, mem, durable>>,
         NEW r \in Requests, Active(r), req[r].token \in Tokens,
         NEW l \in {"durable", "s21", "remember"}, Goto(r, l),
         l = "remember" => req[r].start <= LastGood(req[r].token)
  PROVE  Grouped'
<1> DEFINE q == [req[r] EXCEPT !.pc = l]
<1>1. req' = [req EXCEPT ![r] = q]
  BY DEF Goto
<1>2. RequestOK(q)
  BY ActiveRequest DEF RequestOK, RequestType, Locations, Active
<1> HIDE DEF q
<1> QED
  BY <1>1, <1>2, LocalStep

LEMMA DurableFoundStep ==
  ASSUME Grouped, NEW r \in Requests, DurableFound(r)
  PROVE  Grouped'
<1> DEFINE row == durable[req[r].token]
           q == [req[r] EXCEPT !.pc = "check", !.row = row]
<1>1. Active(r) /\ req[r].token \in Tokens
  BY ActiveRequest DEF DurableFound, Active
<1>2. /\ row \in RowType /\ row.login = LoginOf[req[r].token]
      /\ row.expiresAt <= LastGood(req[r].token) + TTL + ReqTime
  BY DEF DurableFound, Grouped, DurableOK, RowType
<1>3. req' = [req EXCEPT ![r] = q]
  BY DEF DurableFound
<1> HIDE DEF row
<1>4. RequestOK(q)
  BY <1>1, <1>2, ActiveRequest DEF RequestOK, RequestType, Locations, Active
<1> HIDE DEF q
<1> QED
  BY <1>3, <1>4, LocalStep DEF DurableFound

LEMMA PromoteStep ==
  ASSUME Grouped, NEW r \in Requests, Promote(r)
  PROVE  Grouped'
<1> DEFINE t == req[r].token
           c == req[r].at
           m == AfterPut(mem[c], t, LoginOf[t], now)
<1>1. Active(r) /\ t \in Tokens /\ c \in Containers /\ MemOK(mem[c])
  BY ActiveRequest DEF Promote, Active
<1>2. /\ now < req[r].row.expiresAt /\ req[r].row.login = LoginOf[t]
      /\ req[r].row.expiresAt <= LastGood(t) + TTL + ReqTime
      /\ req[r].row.expiresAt \in Nat
  BY <1>1, ActiveRequest DEF Promote, RowUsable, RequestOK, RequestType, RowType
<1>3. LastGood(t) \in Nat /\ now \in Nat
  BY <1>1 DEF Grouped, EnvOK, LastGood
<1>4. now + TTL < LastGood(t) + Window
  BY <1>2, <1>3, Constants
<1>5. MemOK(m)
  BY <1>1, <1>4, PutOK
<1>6. mem' = [mem EXCEPT ![c] = m] /\ Answer(r, LoginOf[t])
  BY <1>2 DEF Promote
<1>7. RequestOK(Over(LoginOf[t]))
  BY <1>1, Constants, OverOK
<1> HIDE DEF m
<1> QED
  BY <1>1, <1>5, <1>6, <1>7, CacheStep DEF Answer, Promote

LEMMA RememberStep ==
  ASSUME Grouped, NEW r \in Requests, Remember(r)
  PROVE  Grouped'
<1> DEFINE t == req[r].token
           c == req[r].at
           m == AfterPut(mem[c], t, LoginOf[t], now)
           row == NewEntry(LoginOf[t], now)
           q == [req[r] EXCEPT !.pc = "write", !.row = row]
<1>1. Active(r) /\ t \in Tokens /\ c \in Containers /\ MemOK(mem[c])
  BY ActiveRequest DEF Remember, Active
<1>2. /\ req[r].start <= LastGood(t) /\ now <= req[r].start + ReqTime
      /\ req[r].start \in Nat
  BY <1>1, ActiveRequest DEF Remember, RequestOK, RequestType, Active
<1>3. LastGood(t) \in Nat /\ now \in Nat
  BY <1>1 DEF Grouped, EnvOK, LastGood
<1>4. now + TTL < LastGood(t) + Window /\ now + TTL <= LastGood(t) + TTL + ReqTime
  BY <1>2, <1>3, Constants
<1>5. MemOK(m)
  BY <1>1, <1>4, PutOK
<1>6. mem' = [mem EXCEPT ![c] = m] /\ req' = [req EXCEPT ![r] = q]
  BY DEF Remember
<1>7. row \in RowType /\ row.login = LoginOf[t] /\ row.expiresAt = now + TTL
  BY <1>1, <1>3, Constants DEF NewEntry, RowType
<1> HIDE DEF m, row
<1>8. RequestOK(q)
  BY <1>1, <1>2, <1>4, <1>7, ActiveRequest DEF RequestOK, RequestType, Locations, Active
<1> HIDE DEF q
<1> QED
  BY <1>1, <1>5, <1>6, <1>8, CacheStep DEF Remember

\* The table after a write that may or may not have been committed.
LEMMA WriteStep ==
  ASSUME Grouped, UNCHANGED <<now, valid, goodUntil, mem>>,
         NEW r \in Requests, NEW a \in Logins \cup {"rejected", "failed"}, Answer(r, a),
         durable' = durable \/ (req[r].pc = "write" /\ durable' = Upserted(r))
  PROVE  Grouped'
<1>1. mem' = [c \in Containers |-> mem'[c]] /\ \A c \in Containers : MemOK(mem'[c])
  BY DEF Grouped
<1>2. DurableOK(durable')
  <2>1. CASE durable' = durable
    BY <2>1 DEF Grouped
  <2>2. CASE req[r].pc = "write" /\ durable' = Upserted(r)
    <3> DEFINE t == req[r].token
               d == Upserted(r)
    <3>1. /\ t \in Tokens /\ req[r].row.login = LoginOf[t]
          /\ req[r].row.expiresAt <= LastGood(t) + TTL + ReqTime
          /\ req[r].row \in RowType
      BY <2>2, ActiveRequest DEF RequestOK, RequestType, Active
    <3>2. req[r].row \in [login : Logins, expiresAt : Nat]
      BY <3>1, Constants DEF RowType
    <3>3. DOMAIN d = DOMAIN durable \cup {t}
      BY DEF Upserted
    <3>4. \A x \in DOMAIN d : d[x] = IF x = t THEN req[r].row ELSE durable[x]
      BY DEF Upserted
    <3>5. DurableOK(durable)
      BY DEF Grouped
    <3> HIDE DEF d
    <3>6. DurableOK(d)
      BY <3>1, <3>2, <3>3, <3>4, <3>5 DEF DurableOK
    <3> QED
      BY <2>2, <3>6 DEF d
  <2> QED
    BY <2>1, <2>2
<1> QED
  BY <1>1, <1>2, OverOK, RequestStep DEF Answer

\* A step of a request preserves the invariant.
LEMMA StepStep ==
  ASSUME Grouped, NEW r \in Requests, Step(r) \/ Timeout(r)
  PROVE  Grouped'
<1> DEFINE t == req[r].token
<1>1. Active(r)
  BY DEF Step, Timeout, Active, RefuseMalformed, MemGet, DurableFound, DurableMissing,
         Promote, RowStale, S21Accepts, S21Refuses, S21Outage, Remember, DurableWrite
<1>2. CASE RefuseMalformed(r)
  BY <1>2, AnswerStep DEF RefuseMalformed
<1>3. CASE MemGet(r)
  BY <1>3, MemGetStep
<1>4. CASE DurableFound(r)
  BY <1>4, DurableFoundStep
<1>5. CASE DurableMissing(r)
  BY <1>1, <1>5, GotoStep, ActiveRequest DEF DurableMissing
<1>6. CASE Promote(r)
  BY <1>6, PromoteStep
<1>7. CASE RowStale(r)
  BY <1>1, <1>7, GotoStep, ActiveRequest DEF RowStale
<1>8. CASE S21Accepts(r)
  <2>1. t \in Tokens /\ req[r].start <= now
    BY <1>1, <1>8, ActiveRequest DEF S21Accepts, RequestOK, Active
  <2>2. req[r].start <= LastGood(t)
    BY <1>8, <2>1 DEF S21Accepts, LastGood
  <2> QED
    BY <1>1, <1>8, <2>1, <2>2, GotoStep DEF S21Accepts
<1>9. CASE S21Refuses(r)
  BY <1>9, AnswerStep DEF S21Refuses
<1>10. CASE S21Outage(r)
  <2>1. Answer(r, "rejected") \/ Answer(r, "failed")
    BY <1>10 DEF S21Outage, MapAuthError
  <2> QED
    BY <1>10, <2>1, AnswerStep DEF S21Outage
<1>11. CASE Remember(r)
  BY <1>11, RememberStep
<1>12. CASE DurableWrite(r)
  <2>1. t \in Tokens
    BY <1>1, <1>12, ActiveRequest DEF DurableWrite
  <2>2. LoginOf[t] \in Logins
    BY <2>1, Constants
  <2> QED
    BY <1>12, <2>2, WriteStep DEF DurableWrite
<1>13. CASE Timeout(r)
  <2>1. durable' = durable \/ (req[r].pc = "write" /\ durable' = Upserted(r))
    BY <1>13 DEF Timeout
  <2> QED
    BY <1>13, <2>1, WriteStep DEF Timeout
<1> QED
  BY <1>2, <1>3, <1>4, <1>5, <1>6, <1>7, <1>8, <1>9, <1>10, <1>11, <1>12, <1>13 DEF Step

-----------------------------------------------------------------------------
(* The steps of the platform, of S21 and of the clock. *)

LEMMA RecycleStep ==
  ASSUME Grouped, NEW c \in Containers, Recycle(c)
  PROVE  Grouped'
<1>1. EnvOK'
  BY DEF Recycle, Grouped, EnvOK
<1>2. \A t : LastGood(t)' = LastGood(t)
  BY DEF Recycle, LastGood
<1>3. \A x : MemOK(x) => MemOK(x)'
  BY <1>2 DEF MemOK, CacheOK
<1>4. DurableOK(durable)'
  BY <1>2 DEF DurableOK, Recycle, Grouped
<1>5. \A x : RequestOK(x) => RequestOK(x)'
  BY <1>2 DEF RequestOK, Recycle
<1>6. \A x \in Containers : mem'[x] = IF x = c THEN EmptyCache ELSE mem[x]
  BY DEF Recycle, Grouped
<1>7. MemOK(EmptyCache)
  BY DEF MemOK, CacheOK, EmptyCache
<1>8. \A x \in Containers : MemOK(mem[x])'
  BY <1>3, <1>6, <1>7 DEF Grouped
<1>9. RequestOK(Over("failed"))
  BY OverOK
<1>10. \A r \in Requests : req'[r] = Over("failed") \/ req'[r] = req[r]
  BY DEF Recycle
<1>11. \A r \in Requests : RequestOK(req[r])'
  BY <1>5, <1>9, <1>10 DEF Grouped
<1>12. (mem = [x \in Containers |-> mem[x]])' /\ (req = [x \in Requests |-> req[x]])'
  BY DEF Recycle, Grouped
<1> QED
  BY <1>1, <1>4, <1>8, <1>11, <1>12 DEF Grouped

\* What was stamped in time stays so while S21's acceptance only moves later.
LEMMA EnvironmentStep ==
  ASSUME Grouped, EnvOK', UNCHANGED <<mem, durable, req>>,
         \A t \in Tokens : LastGood(t) <= LastGood(t)',
         \A r \in Requests : Active(r) =>
           req[r].start <= now' /\ now' <= req[r].start + ReqTime
  PROVE  Grouped'
<1>1. \A t \in Tokens : LastGood(t) \in Nat /\ LastGood(t)' \in Nat
  BY DEF Grouped, EnvOK, LastGood
<1>2. \A c \in Containers : MemOK(mem[c])'
  <2> SUFFICES ASSUME NEW c \in Containers PROVE MemOK(mem[c])'
    OBVIOUS
  <2>1. CacheOK(mem[c])'
    BY DEF Grouped, MemOK, CacheOK
  <2>2. ASSUME NEW t \in DOMAIN mem[c].entries
        PROVE  mem[c].entries[t].login = LoginOf[t] /\ mem[c].entries[t].expiresAt < LastGood(t)' + Window
    <3>1. /\ t \in Tokens /\ mem[c].entries[t].expiresAt \in Nat
          /\ mem[c].entries[t].login = LoginOf[t]
          /\ mem[c].entries[t].expiresAt < LastGood(t) + Window
      BY <2>2 DEF Grouped, MemOK, CacheOK
    <3> QED
      BY <1>1, <3>1, Constants
  <2> QED
    BY <2>1, <2>2 DEF MemOK
<1>3. DurableOK(durable)'
  <2>1. ASSUME NEW t \in DOMAIN durable
        PROVE  durable[t].expiresAt <= LastGood(t)' + TTL + ReqTime
    <3>1. /\ t \in Tokens /\ durable[t].expiresAt \in Nat
          /\ durable[t].expiresAt <= LastGood(t) + TTL + ReqTime
      BY <2>1 DEF Grouped, DurableOK
    <3> QED
      BY <1>1, <3>1, Constants
  <2> QED
    BY <2>1 DEF DurableOK, Grouped
<1>4. \A r \in Requests : RequestOK(req[r])'
  <2> SUFFICES ASSUME NEW r \in Requests PROVE RequestOK(req[r])'
    OBVIOUS
  <2>1. RequestOK(req[r]) /\ req[r] \in RequestType
    BY DEF Grouped, RequestOK
  <2>2. req[r].pc \in {"check", "write"} =>
          req[r].row.expiresAt <= LastGood(req[r].token)' + TTL + ReqTime
    BY <1>1, <2>1, Constants DEF RequestOK, RequestType, RowType
  <2>3. req[r].pc \in {"remember", "write"} => req[r].start <= LastGood(req[r].token)'
    BY <1>1, <2>1 DEF RequestOK, RequestType
  <2> QED
    BY <2>1, <2>2, <2>3 DEF RequestOK, Active
<1> QED
  BY <1>2, <1>3, <1>4 DEF Grouped

LEMMA RotateStep ==
  ASSUME Grouped, NEW t \in Tokens, Rotate(t)
  PROVE  Grouped'
<1>1. EnvOK'
  BY DEF Rotate, Grouped, EnvOK
<1>2. \A x \in Tokens : LastGood(x) <= LastGood(x)'
  BY DEF Rotate, LastGood, Grouped, EnvOK
<1>3. \A r \in Requests : Active(r) => req[r].start <= now' /\ now' <= req[r].start + ReqTime
  BY DEF Rotate, Grouped, RequestOK, Active
<1> QED
  BY <1>1, <1>2, <1>3, EnvironmentStep DEF Rotate

LEMMA TickStep ==
  ASSUME Grouped, Tick
  PROVE  Grouped'
<1>1. EnvOK'
  BY Constants DEF Tick, Grouped, EnvOK
<1>2. \A x \in Tokens : LastGood(x) <= LastGood(x)'
  BY DEF Tick, LastGood, Grouped, EnvOK
<1>3. ASSUME NEW r \in Requests, Active(r)
      PROVE  req[r].start <= now' /\ now' <= req[r].start + ReqTime
  <2>1. req[r].start \in Nat /\ req[r].start <= now /\ now \in Nat
    BY <1>3, ActiveRequest DEF RequestOK, RequestType, Active, Grouped, EnvOK
  <2>2. now - req[r].start < ReqTime /\ now' = now + 1
    BY <1>3 DEF Tick
  <2> QED
    BY <2>1, <2>2, Constants
<1> QED
  BY <1>1, <1>2, <1>3, EnvironmentStep DEF Tick

LEMMA NextInv == Grouped /\ [Next]_vars => Grouped'
<1> SUFFICES ASSUME Grouped, [Next]_vars PROVE Grouped'
  OBVIOUS
<1>1. CASE \E r \in Requests : Step(r) \/ Timeout(r)
  BY <1>1, StepStep
<1>2. CASE \E r \in Requests, c \in Containers, t \in Tokens \cup BadTokens : Arrive(r, c, t)
  BY <1>2, ArriveStep
<1>3. CASE \E c \in Containers : Recycle(c)
  BY <1>3, RecycleStep
<1>4. CASE \E t \in Tokens : Rotate(t)
  BY <1>4, RotateStep
<1>5. CASE Tick
  BY <1>5, TickStep
<1>6. CASE UNCHANGED vars
  <2>1. EnvOK' /\ \A x \in Tokens : LastGood(x) <= LastGood(x)'
    BY <1>6 DEF vars, LastGood, Grouped, EnvOK
  <2>2. \A r \in Requests : Active(r) => req[r].start <= now' /\ now' <= req[r].start + ReqTime
    BY <1>6 DEF vars, Grouped, RequestOK, Active
  <2> QED
    BY <1>6, <2>1, <2>2, EnvironmentStep DEF vars
<1> QED
  BY <1>1, <1>2, <1>3, <1>4, <1>5, <1>6 DEF Next

\* Every layer of every container, and every request in flight, holds only
\* what was stamped within its grant of the last time S21 accepted the token
\* (server.go:198-260).
THEOREM TrustInvariant == Spec => []TrustInv
<1>1. Init => Grouped
  BY InitInv, Regrouped
<1>2. Grouped => TrustInv
  BY Regrouped
<1> QED
  BY <1>1, <1>2, NextInv, PTL DEF Spec

\* The types of the clock, the two cache layers and the requests.
THEOREM TypeCorrect == Spec => []TypeOK
<1>1. TrustInv => TypeOK
  BY DEF TrustInv
<1> QED
  BY <1>1, TrustInvariant, PTL

\* A rotated password stops working 2 * TTL + ReqTime after S21 refused it,
\* in whatever order the requests, containers and writes come.
THEOREM RotatedForgotten == Spec => []RotatedTokenForgotten
<1>1. Grouped => RotatedTokenForgotten
  <2> SUFFICES ASSUME Grouped, NEW t \in Tokens \ valid, now >= goodUntil[t] + Window
               PROVE  ~Remembered(t)
    BY DEF RotatedTokenForgotten, ForgottenAfter
  <2>1. LastGood(t) = goodUntil[t] /\ LastGood(t) \in Nat /\ now \in Nat
    BY DEF LastGood, Grouped, EnvOK
  <2>2. ASSUME NEW c \in Containers, CacheHit(mem[c], t, now) PROVE FALSE
    <3>1. t \in DOMAIN mem[c].entries /\ now <= mem[c].entries[t].expiresAt
      BY <2>2 DEF CacheHit
    <3>2. /\ mem[c].entries[t].expiresAt < LastGood(t) + Window
          /\ mem[c].entries[t].expiresAt \in Nat
      BY <3>1 DEF Grouped, MemOK, CacheOK
    <3> QED
      BY <2>1, <3>1, <3>2, Constants
  <2>3. ASSUME t \in DOMAIN durable, RowUsable(durable[t], t, now) PROVE FALSE
    <3>1. /\ now < durable[t].expiresAt /\ durable[t].expiresAt \in Nat
          /\ durable[t].expiresAt <= LastGood(t) + TTL + ReqTime
      BY <2>3 DEF RowUsable, Grouped, DurableOK
    <3> QED
      BY <2>1, <3>1, Constants
  <2> QED
    BY <2>2, <2>3 DEF Remembered
<1>2. TrustInv => RotatedTokenForgotten
  BY <1>1, Regrouped
<1> QED
  BY <1>2, TrustInvariant, PTL

-----------------------------------------------------------------------------
(* Every step is a step of TokenTrust or changes nothing it can see. *)

Asked == [r \in Requests |-> req[r].token]
Answers == [r \in Requests |-> req[r].answer]

LEMMA Pending ==
  ASSUME Grouped, NEW r \in Requests
  PROVE  /\ Active(r) => Answers[r] = "pending"
         /\ ~Active(r) => Answers[r] # "pending"
BY Constants DEF Grouped, RequestOK, Active, Answers, Over

\* What an answer of one request looks like to TokenTrust.
LEMMA AnswerSeen ==
  ASSUME Grouped, NEW r \in Requests, Active(r), UNCHANGED <<now, valid, goodUntil>>,
         NEW a, Answer(r, a)
  PROVE  Trust!Answered(r, a)
<1>1. req' = [req EXCEPT ![r] = Over(a)] /\ req = [x \in Requests |-> req[x]]
  BY DEF Answer, Grouped
<1>2. Answers' = [Answers EXCEPT ![r] = a] /\ Asked' = [Asked EXCEPT ![r] = EmptyToken]
  BY <1>1 DEF Answers, Asked, Over
<1> QED
  BY <1>2, Pending DEF Trust!Answered, Answers, Asked

LEMMA AcceptSeen ==
  ASSUME Grouped, NEW r \in Requests, Active(r), UNCHANGED <<now, valid, goodUntil>>,
         req[r].token \in Tokens, now < LastGood(req[r].token) + Window,
         Answer(r, LoginOf[req[r].token])
  PROVE  Trust!Accept(r)
<1>1. Trust!Answered(r, LoginOf[req[r].token])
  BY AnswerSeen DEF Trust!Answered
<1>2. Trust!Trusted(req[r].token)
  BY DEF Trust!Trusted, LastGood
<1> QED
  BY <1>1, <1>2 DEF Trust!Accept, Trust!Answered, Trust!Trusted

LEMMA RejectSeen ==
  ASSUME Grouped, NEW r \in Requests, Active(r), UNCHANGED <<now, valid, goodUntil>>,
         req[r].token \notin valid, Answer(r, "rejected")
  PROVE  Trust!Reject(r)
BY AnswerSeen DEF Trust!Reject

LEMMA FailSeen ==
  ASSUME Grouped, NEW r \in Requests, Active(r), UNCHANGED <<now, valid, goodUntil>>,
         Answer(r, "failed")
  PROVE  Trust!Fail({r})
<1>1. req' = [req EXCEPT ![r] = Over("failed")] /\ req = [x \in Requests |-> req[x]]
  BY DEF Answer, Grouped
<1> QED
  BY <1>1, Pending DEF Trust!Fail, Answers, Over

\* A request that moves on shows nothing.
LEMMA MoveHidden ==
  ASSUME Grouped, NEW r \in Requests, UNCHANGED <<now, valid, goodUntil>>,
         NEW q, q.token = req[r].token, q.answer = req[r].answer, req' = [req EXCEPT ![r] = q]
  PROVE  UNCHANGED Trust!vars
<1>1. Asked' = Asked /\ Answers' = Answers
  BY DEF Asked, Answers, Grouped
<1> QED
  BY <1>1 DEF Trust!vars, Asked, Answers

LEMMA GotoHidden ==
  ASSUME Grouped, NEW r \in Requests, UNCHANGED <<now, valid, goodUntil>>,
         NEW l, Goto(r, l)
  PROVE  UNCHANGED Trust!vars
<1> DEFINE q == [req[r] EXCEPT !.pc = l]
<1>1. q.token = req[r].token /\ q.answer = req[r].answer /\ req' = [req EXCEPT ![r] = q]
  BY DEF Goto, Grouped, RequestOK, RequestType
<1> HIDE DEF q
<1> QED
  BY <1>1, MoveHidden

\* The three ways a request is accepted, each within Window of S21's word.
LEMMA MemGetSeen ==
  ASSUME Grouped, NEW r \in Requests, MemGet(r)
  PROVE  Trust!Accept(r) \/ UNCHANGED Trust!vars
<1> DEFINE t == req[r].token
           c == req[r].at
<1>1. /\ Active(r) /\ t \in Tokens /\ c \in Containers /\ MemOK(mem[c])
      /\ now \in Nat /\ LastGood(t) \in Nat
  BY ActiveRequest DEF MemGet, Active, Grouped, EnvOK, LastGood
<1>2. CASE CacheHit(mem[c], t, now) /\ mem[c].entries[t].login = LoginOf[t]
  <2>1. /\ now <= mem[c].entries[t].expiresAt /\ mem[c].entries[t].expiresAt \in Nat
        /\ mem[c].entries[t].expiresAt < LastGood(t) + Window
    BY <1>1, <1>2 DEF CacheHit, MemOK, CacheOK
  <2>2. now < LastGood(t) + Window
    BY <1>1, <2>1, Constants
  <2>3. Answer(r, LoginOf[t]) /\ UNCHANGED <<now, valid, goodUntil>>
    BY <1>2 DEF MemGet
  <2> QED
    BY <1>1, <2>2, <2>3, AcceptSeen
<1>3. CASE ~(CacheHit(mem[c], t, now) /\ mem[c].entries[t].login = LoginOf[t])
  <2>1. Goto(r, "durable") /\ UNCHANGED <<now, valid, goodUntil>>
    BY <1>3 DEF MemGet
  <2> QED
    BY <2>1, GotoHidden
<1> QED
  BY <1>2, <1>3

LEMMA PromoteSeen ==
  ASSUME Grouped, NEW r \in Requests, Promote(r)
  PROVE  Trust!Accept(r)
<1> DEFINE t == req[r].token
<1>1. Active(r) /\ t \in Tokens /\ now \in Nat /\ LastGood(t) \in Nat
  BY ActiveRequest DEF Promote, Active, Grouped, EnvOK, LastGood
<1>2. /\ now < req[r].row.expiresAt /\ req[r].row.login = LoginOf[t]
      /\ req[r].row.expiresAt <= LastGood(t) + TTL + ReqTime
      /\ req[r].row.expiresAt \in Nat
  BY <1>1, ActiveRequest DEF Promote, RowUsable, RequestOK, RequestType, RowType
<1>3. now < LastGood(t) + Window
  BY <1>1, <1>2, Constants
<1> QED
  BY <1>1, <1>2, <1>3, AcceptSeen DEF Promote

LEMMA DurableWriteSeen ==
  ASSUME Grouped, NEW r \in Requests, DurableWrite(r)
  PROVE  Trust!Accept(r)
<1> DEFINE t == req[r].token
<1>1. Active(r) /\ t \in Tokens /\ now \in Nat /\ LastGood(t) \in Nat
  BY ActiveRequest DEF DurableWrite, Active, Grouped, EnvOK, LastGood
<1>2. /\ req[r].start <= LastGood(t) /\ now <= req[r].start + ReqTime
      /\ req[r].start \in Nat
  BY <1>1, ActiveRequest DEF DurableWrite, RequestOK, RequestType, Active
<1>3. now < LastGood(t) + Window
  BY <1>1, <1>2, Constants
<1> QED
  BY <1>1, <1>3, AcceptSeen DEF DurableWrite

\* With outages told from refusals, a step of a request is an answer or hidden.
LEMMA StepSeen ==
  ASSUME Grouped, ReadAsRefusal = {},
         NEW r \in Requests, Step(r) \/ Timeout(r)
  PROVE  Trust!Accept(r) \/ Trust!Reject(r) \/ Trust!Fail({r}) \/ UNCHANGED Trust!vars
<1>1. Active(r)
  BY DEF Step, Timeout, Active, RefuseMalformed, MemGet, DurableFound, DurableMissing,
         Promote, RowStale, S21Accepts, S21Refuses, S21Outage, Remember, DurableWrite
<1>2. CASE RefuseMalformed(r)
  <2>1. req[r].token \notin valid
    BY <1>2, Constants DEF RefuseMalformed, Grouped, EnvOK
  <2> QED
    BY <1>1, <1>2, <2>1, RejectSeen DEF RefuseMalformed
<1>3. CASE MemGet(r)
  BY <1>3, MemGetSeen
<1>4. CASE DurableFound(r)
  <2> DEFINE q == [req[r] EXCEPT !.pc = "check", !.row = durable[req[r].token]]
  <2>1. q.token = req[r].token /\ q.answer = req[r].answer /\ req' = [req EXCEPT ![r] = q]
    BY <1>4 DEF DurableFound, Grouped, RequestOK, RequestType
  <2> HIDE DEF q
  <2> QED
    BY <1>4, <2>1, MoveHidden DEF DurableFound
<1>5. CASE DurableMissing(r) \/ RowStale(r) \/ S21Accepts(r)
  BY <1>5, GotoHidden DEF DurableMissing, RowStale, S21Accepts
<1>6. CASE Promote(r)
  BY <1>6, PromoteSeen
<1>7. CASE S21Refuses(r)
  BY <1>1, <1>7, RejectSeen DEF S21Refuses
<1>8. CASE S21Outage(r)
  <2>1. Answer(r, "failed")
    BY <1>8 DEF S21Outage, MapAuthError, ReadAsRefusal
  <2> QED
    BY <1>1, <1>8, <2>1, FailSeen DEF S21Outage
<1>9. CASE Remember(r)
  <2> DEFINE q == [req[r] EXCEPT !.pc = "write", !.row = NewEntry(LoginOf[req[r].token], now)]
  <2>1. q.token = req[r].token /\ q.answer = req[r].answer /\ req' = [req EXCEPT ![r] = q]
    BY <1>9 DEF Remember, Grouped, RequestOK, RequestType
  <2> HIDE DEF q
  <2> QED
    BY <1>9, <2>1, MoveHidden DEF Remember
<1>10. CASE DurableWrite(r)
  BY <1>10, DurableWriteSeen
<1>11. CASE Timeout(r)
  BY <1>1, <1>11, FailSeen DEF Timeout
<1> QED
  BY <1>2, <1>3, <1>4, <1>5, <1>6, <1>7, <1>8, <1>9, <1>10, <1>11 DEF Step

LEMMA ArriveSeen ==
  ASSUME Grouped, NEW r \in Requests, NEW c \in Containers,
         NEW t \in Tokens \cup BadTokens, Arrive(r, c, t)
  PROVE  Trust!Ask(r, t)
<1>1. ~Active(r) /\ UNCHANGED <<now, valid, goodUntil>>
  BY DEF Arrive
<1>2. Asked' = [Asked EXCEPT ![r] = t] /\ Answers' = [Answers EXCEPT ![r] = "pending"]
  BY DEF Arrive, Asked, Answers, Grouped
<1> QED
  BY <1>1, <1>2, Pending DEF Trust!Ask, Asked, Answers

LEMMA RecycleSeen ==
  ASSUME Grouped, NEW c \in Containers, Recycle(c)
  PROVE  \E S \in SUBSET Requests : Trust!Fail(S)
<1> DEFINE S == {r \in Requests : Active(r) /\ req[r].at = c}
<1>1. \A r \in S : Answers[r] = "pending"
  BY Pending
<1>2. /\ Answers' = [r \in Requests |-> IF r \in S THEN "failed" ELSE Answers[r]]
      /\ Asked' = [r \in Requests |-> IF r \in S THEN EmptyToken ELSE Asked[r]]
  BY DEF Recycle, Answers, Asked, Over
<1>3. S \in SUBSET Requests
  OBVIOUS
<1> HIDE DEF S
<1>4. Trust!Fail(S)
  BY <1>1, <1>2 DEF Trust!Fail, Answers, Asked, Recycle
<1> QED
  BY <1>3, <1>4 DEF Trust!Fail

LEMMA NextSeen ==
  ASSUME ReadAsRefusal = {}, Grouped, [Next]_vars
  PROVE  [Trust!Next]_(Trust!vars)
<1>1. CASE \E r \in Requests : Step(r) \/ Timeout(r)
  <2>1. PICK r \in Requests : Step(r) \/ Timeout(r)
    BY <1>1
  <2>2. {r} \in SUBSET Requests
    BY <2>1
  <2> QED
    BY <2>1, <2>2, StepSeen DEF Trust!Next
<1>2. CASE \E r \in Requests, c \in Containers, t \in Tokens \cup BadTokens : Arrive(r, c, t)
  BY <1>2, ArriveSeen DEF Trust!Next
<1>3. CASE \E c \in Containers : Recycle(c)
  BY <1>3, RecycleSeen DEF Trust!Next
<1>4. CASE \E t \in Tokens : Rotate(t)
  BY <1>4 DEF Trust!Next, Trust!Rotate, Rotate
<1>5. CASE Tick
  BY <1>5 DEF Trust!Next, Trust!Tick, Tick
<1>6. CASE UNCHANGED vars
  BY <1>6 DEF vars, Trust!vars
<1> QED
  BY <1>1, <1>2, <1>3, <1>4, <1>5, <1>6 DEF Next

\* Where outages are told from refusals, authenticate answers only what
\* TokenTrust allows: it accepts a token with its own login and within Window
\* of S21's acceptance, and rejects only what S21 refuses at that moment.
THEOREM TrustRefinement == ReadAsRefusal = {} => (Spec => ImplementsTrust)
<1> SUFFICES ASSUME ReadAsRefusal = {} PROVE Spec => ImplementsTrust
  OBVIOUS
<1>1. Init => Trust!Init
  BY DEF Init, Trust!Init, Over
<1>2. Grouped /\ [Next]_vars => [Trust!Next]_(Trust!vars)
  BY NextSeen
<1>3. TrustInv <=> Grouped
  BY Regrouped
<1> QED
  BY <1>1, <1>2, <1>3, TrustInvariant, PTL DEF Spec, ImplementsTrust, Trust!Spec

-----------------------------------------------------------------------------
(* What an answer means whatever an outage looks like. *)

TrustedAnswer(r) ==
  \/ req'[r].answer \in {"pending", "failed"}
  \/ /\ req[r].token \in Tokens /\ req'[r].answer = LoginOf[req[r].token]
     /\ now < LastGood(req[r].token) + Window
  \/ /\ req'[r].answer = "rejected"
     /\ req[r].token \in valid => req[r].pc = "s21" /\ ReadAsRefusal # {}

\* A request is accepted as TokenTrust accepts one.
LEMMA AcceptTrusted ==
  ASSUME Grouped, NEW r \in Requests, Trust!Accept(r)
  PROVE  TrustedAnswer(r)
<1>1. Answers' = [Answers EXCEPT ![r] = LoginOf[req[r].token]] /\ Trust!Trusted(req[r].token)
      /\ req[r].token \in Tokens
  BY DEF Trust!Accept, Trust!Answered, Trust!Trusted, Answers
<1>2. req'[r].answer = LoginOf[req[r].token]
  BY <1>1 DEF Answers
<1>3. now < LastGood(req[r].token) + Window
  BY <1>1, Constants DEF Trust!Trusted, LastGood, Grouped, EnvOK
<1> QED
  BY <1>1, <1>2, <1>3 DEF TrustedAnswer

\* The request that takes a step: accepted, moving on, rejected or failed.
LEMMA StepTrusted ==
  ASSUME Grouped, NEW r \in Requests, Step(r) \/ Timeout(r)
  PROVE  TrustedAnswer(r)
<1>1. req = [x \in Requests |-> req[x]] /\ RequestOK(req[r])
  BY DEF Grouped
<1>2. Active(r) /\ req[r].answer = "pending"
  BY <1>1 DEF RequestOK, Step, Timeout, Active, RefuseMalformed, MemGet, DurableFound,
     DurableMissing, Promote, RowStale, S21Accepts, S21Refuses, S21Outage, Remember, DurableWrite
<1>3. ASSUME UNCHANGED Trust!vars
      PROVE  TrustedAnswer(r)
  <2>1. Answers' = Answers
    BY <1>3 DEF Trust!vars, Answers
  <2> QED
    BY <1>2, <2>1 DEF Answers, TrustedAnswer
<1>4. ASSUME NEW a, Answer(r, a)
      PROVE  req'[r].answer = a
  BY <1>1, <1>4 DEF Answer, Over
<1>5. CASE RefuseMalformed(r)
  <2>1. req[r].token \notin valid
    BY <1>5, Constants DEF RefuseMalformed, Grouped, EnvOK
  <2> QED
    BY <1>4, <1>5, <2>1 DEF RefuseMalformed, TrustedAnswer
<1>6. CASE MemGet(r) \/ Promote(r) \/ DurableWrite(r)
  BY <1>3, <1>6, MemGetSeen, PromoteSeen, DurableWriteSeen, AcceptTrusted
<1>7. CASE S21Refuses(r)
  BY <1>4, <1>7 DEF S21Refuses, TrustedAnswer
<1>8. CASE S21Outage(r)
  BY <1>4, <1>8 DEF S21Outage, MapAuthError, ReadAsRefusal, TrustedAnswer
<1>9. CASE DurableFound(r) \/ DurableMissing(r) \/ RowStale(r) \/ S21Accepts(r) \/ Remember(r)
  <2>1. req'[r].answer = req[r].answer
    BY <1>1, <1>9 DEF DurableFound, DurableMissing, RowStale, S21Accepts, Remember, Goto,
       RequestOK, RequestType
  <2> QED
    BY <1>2, <2>1 DEF TrustedAnswer
<1>10. CASE Timeout(r)
  BY <1>4, <1>10 DEF Timeout, TrustedAnswer
<1> QED
  BY <1>5, <1>6, <1>7, <1>8, <1>9, <1>10 DEF Step

\* Another request stays as it was, or goes with its container.
LEMMA NextTrusted ==
  ASSUME Grouped, [Next]_vars, NEW r \in Requests, Active(r)
  PROVE  TrustedAnswer(r)
<1>1. req = [x \in Requests |-> req[x]] /\ req[r].answer = "pending"
  BY DEF Grouped, RequestOK, Active
<1>2. ASSUME req'[r] = req[r]
      PROVE  TrustedAnswer(r)
  BY <1>1, <1>2 DEF TrustedAnswer
<1>3. CASE \E s \in Requests : Step(s) \/ Timeout(s)
  <2>1. PICK s \in Requests : Step(s) \/ Timeout(s)
    BY <1>3
  <2>2. CASE s = r
    BY <2>1, <2>2, StepTrusted
  <2>3. CASE s # r
    <3>1. req'[r] = req[r]
      BY <1>1, <2>1, <2>3 DEF Step, Timeout, RefuseMalformed, MemGet, DurableFound, DurableMissing,
         Promote, RowStale, S21Accepts, S21Refuses, S21Outage, Remember, DurableWrite, Goto, Answer
    <3> QED
      BY <1>2, <3>1
  <2> QED
    BY <2>2, <2>3
<1>4. CASE \E s \in Requests, c \in Containers, t \in Tokens \cup BadTokens : Arrive(s, c, t)
  <2>1. req'[r] = req[r]
    BY <1>1, <1>4 DEF Arrive
  <2> QED
    BY <1>2, <2>1
<1>5. CASE \E c \in Containers : Recycle(c)
  <2>1. req'[r].answer = "failed" \/ req'[r] = req[r]
    BY <1>5 DEF Recycle, Over
  <2> QED
    BY <1>2, <2>1 DEF TrustedAnswer
<1>6. CASE (\E t \in Tokens : Rotate(t)) \/ Tick \/ UNCHANGED vars
  BY <1>2, <1>6 DEF Rotate, Tick, vars
<1> QED
  BY <1>3, <1>4, <1>5, <1>6 DEF Next

\* However S21 fails, an answer can be trusted: a login is the token's own and
\* within Window of S21's acceptance, and a token S21 accepts is rejected only
\* by an outage that reads as a refusal (server.go:198-260, s21.go:109-119).
THEOREM AnswersToTrust == Spec => AnswersTrusted
<1>1. Grouped /\ [Next]_vars =>
        [\A r \in Requests : Active(r) /\ req'[r].answer # "pending" =>
           \/ req'[r].answer = "failed"
           \/ /\ req[r].token \in Tokens /\ req'[r].answer = LoginOf[req[r].token]
              /\ now < LastGood(req[r].token) + Window
           \/ /\ req'[r].answer = "rejected"
              /\ req[r].token \in valid => req[r].pc = "s21" /\ ReadAsRefusal # {}]_vars
  BY NextTrusted DEF TrustedAnswer
<1>2. TrustInv <=> Grouped
  BY Regrouped
<1> QED
  BY <1>1, <1>2, TrustInvariant, PTL DEF Spec, AnswersTrusted

-----------------------------------------------------------------------------
(* What can be proved of AlwaysAnswered: no request ever turns back. *)

\* The calls a request may still make, its answer included.
Left(l) ==
  CASE l = "mem" -> 6
    [] l = "durable" -> 5
    [] l = "check" -> 4
    [] l = "s21" -> 3
    [] l = "remember" -> 2
    [] l = "write" -> 1
    [] l = "idle" -> 0

Nearer(r) == Left(req'[r].pc) < Left(req[r].pc)

\* A step of its own brings a request nearer to its end.
LEMMA StepNearer ==
  ASSUME Grouped, NEW r \in Requests, Step(r) \/ Timeout(r)
  PROVE  Nearer(r)
<1>1. req = [x \in Requests |-> req[x]] /\ req[r] \in RequestType
  BY DEF Grouped, RequestOK
<1>2. ASSUME NEW l, Goto(r, l)
      PROVE  req'[r].pc = l
  BY <1>1, <1>2 DEF Goto, RequestType
<1>3. ASSUME NEW a, Answer(r, a)
      PROVE  req'[r].pc = "idle"
  BY <1>1, <1>3 DEF Answer, Over
<1>4. CASE RefuseMalformed(r) \/ S21Refuses(r) \/ S21Outage(r) \/ Promote(r) \/ DurableWrite(r)
  BY <1>3, <1>4 DEF RefuseMalformed, S21Refuses, S21Outage, Promote, DurableWrite, Nearer, Left
<1>5. CASE MemGet(r)
  BY <1>2, <1>3, <1>5 DEF MemGet, Nearer, Left
<1>6. CASE DurableMissing(r) \/ RowStale(r) \/ S21Accepts(r)
  BY <1>2, <1>6 DEF DurableMissing, RowStale, S21Accepts, Nearer, Left
<1>7. CASE DurableFound(r)
  <2>1. req'[r].pc = "check" /\ req[r].pc = "durable"
    BY <1>1, <1>7 DEF DurableFound, RequestType
  <2> QED
    BY <2>1 DEF Nearer, Left
<1>8. CASE Remember(r)
  <2>1. req'[r].pc = "write" /\ req[r].pc = "remember"
    BY <1>1, <1>8 DEF Remember, RequestType
  <2> QED
    BY <2>1 DEF Nearer, Left
<1>9. CASE Timeout(r)
  <2>1. req'[r].pc = "idle" /\ req[r].pc \in Locations \ {"idle"}
    BY <1>1, <1>3, <1>9 DEF Timeout, Active, RequestType
  <2> QED
    BY <2>1 DEF Locations, Nearer, Left
<1> QED
  BY <1>4, <1>5, <1>6, <1>7, <1>8, <1>9 DEF Step

\* Any other step leaves it where it is, or ends it with its container.
LEMMA NextNearer ==
  ASSUME Grouped, [Next]_vars, NEW r \in Requests, Active(r)
  PROVE  req'[r] = req[r] \/ Nearer(r)
<1>1. req = [x \in Requests |-> req[x]] /\ req[r].pc \in Locations \ {"idle"}
  BY DEF Grouped, RequestOK, RequestType, Active
<1>2. CASE \E s \in Requests : Step(s) \/ Timeout(s)
  <2>1. PICK s \in Requests : Step(s) \/ Timeout(s)
    BY <1>2
  <2>2. CASE s = r
    BY <2>1, <2>2, StepNearer
  <2>3. CASE s # r
    BY <1>1, <2>1, <2>3 DEF Step, Timeout, RefuseMalformed, MemGet, DurableFound, DurableMissing,
       Promote, RowStale, S21Accepts, S21Refuses, S21Outage, Remember, DurableWrite, Goto, Answer
  <2> QED
    BY <2>2, <2>3
<1>3. CASE \E s \in Requests, c \in Containers, t \in Tokens \cup BadTokens : Arrive(s, c, t)
  BY <1>1, <1>3 DEF Arrive
<1>4. CASE \E c \in Containers : Recycle(c)
  <2>1. req'[r] = req[r] \/ req'[r].pc = "idle"
    BY <1>4 DEF Recycle, Over
  <2> QED
    BY <1>1, <2>1 DEF Locations, Nearer, Left
<1>5. CASE (\E t \in Tokens : Rotate(t)) \/ Tick \/ UNCHANGED vars
  BY <1>5 DEF Rotate, Tick, vars
<1> QED
  BY <1>2, <1>3, <1>4, <1>5 DEF Next

\* authenticate never tries a layer again (server.go:198-260): a step of its own
\* brings a request nearer to its end, and no other step takes it back, so it
\* is over after at most six steps of its own.
THEOREM NeverBack ==
  Spec => [][\A r \in Requests : /\ Step(r) \/ Timeout(r) => Nearer(r)
                                 /\ Active(r) => req'[r] = req[r] \/ Nearer(r)]_vars
<1>1. Grouped /\ [Next]_vars =>
        [\A r \in Requests : /\ Step(r) \/ Timeout(r) => Nearer(r)
                             /\ Active(r) => req'[r] = req[r] \/ Nearer(r)]_vars
  BY StepNearer, NextNearer
<1>2. TrustInv <=> Grouped
  BY Regrouped
<1> QED
  BY <1>1, <1>2, TrustInvariant, PTL DEF Spec
=============================================================================
