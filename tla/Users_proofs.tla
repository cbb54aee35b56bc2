----------------------------- MODULE Users_proofs -----------------------------
(***************************************************************************)
(* Proofs about module Users: every property its run checks, for any       *)
(* number of requests, ids and logins, on both stores.                     *)
(***************************************************************************)
EXTENDS Users, TLAPS

\* Nickname n is what a client that typed another spelling of it gets: the
\* same login, and in the database lower case for lower case.
Agrees(n, typed) ==
  /\ n \in Nicknames /\ typed \in Nicknames /\ n.login = typed.login
  /\ backend = "ydb" /\ typed.form = "lower" => n.form = "lower"

GoodRow(row) ==
  /\ row \in RowType
  /\ Agrees(row.nick, row.typed)
  /\ row.nick.login \in confirmed
  /\ row.createdAt <= now /\ row.updatedAt <= now
  /\ row.createdAt <= row.updatedAt + ReqTime

\* A cache entry n under key l.
GoodEntry(l, n) ==
  /\ l \in confirmed /\ n \in Nicknames /\ n.login = l
  /\ backend = "ydb" => n.form = "lower"

GoodCache ==
  /\ DOMAIN nicknames \subseteq Logins
  /\ \A l \in DOMAIN nicknames : GoodEntry(l, nicknames[l])

\* The creation time a PUT is about to write.
Kept(q) == IF q.created # Null THEN q.created ELSE q.at

GoodRequest(q) ==
  /\ q \in RequestType
  /\ q.pc # "idle" => q.tid \in Tids
  /\ q.pc \in {"resolve", "lookup", "fill"} => q.nick \in Nicknames /\ q.typed = q.nick
  /\ q.pc = "fill" => q.nick.login \in confirmed
  /\ q.pc \in {"upsert", "read", "write"} =>
       /\ Agrees(q.nick, q.typed) /\ q.nick.login \in confirmed
       /\ q.at <= now /\ now <= q.at + ReqTime
  /\ q.pc = "upsert" => backend = "mem"
  /\ q.pc \in {"read", "write", "delete"} => backend = "ydb"
  /\ q.pc = "write" =>
       /\ q.created # Null => q.created <= now
       /\ q.raced \/ (q.tid \in DOMAIN users => users[q.tid].createdAt = Kept(q))
  /\ q.pc = "delete" => q.did \/ q.raced \/ q.tid \in DOMAIN users

\* The inductive invariant: the checked invariants, and what they rest on.
IInv ==
  /\ backend \in Backends /\ now \in Nat /\ confirmed \subseteq Logins
  /\ DOMAIN users \subseteq Tids /\ \A t \in DOMAIN users : GoodRow(users[t])
  /\ GoodCache
  /\ req \in [Requests -> RequestType] /\ \A r \in Requests : GoodRequest(req[r])
  /\ DeletedByThisRequest /\ ListedAsRegistered

LEMMA Constants ==
  /\ Backends \subseteq {"mem", "ydb"} /\ Null \notin Nat
  /\ ReqTime \in Nat /\ MaxNow \in Nat
BY BackendAssumption, NullAssumption, BoundsAssumption

LEMMA IdleOK == GoodRequest(Idle) /\ Idle.pc = "idle"
BY DEF GoodRequest, RequestType, Idle

\* A step that says nothing of a removal or a listing keeps the invariants
\* about what is said.
LEMMA ModestOK ==
  ASSUME said'.op \notin {"deleted", "listed"}
  PROVE  DeletedByThisRequest' /\ ListedAsRegistered'
BY DEF DeletedByThisRequest, ListedAsRegistered

LEMMA SilentOK ==
  ASSUME said' = Silent
  PROVE  DeletedByThisRequest' /\ ListedAsRegistered'
BY ModestOK DEF Silent

\* The answers: what they are, and whom they are about.
LEMMA Answers ==
  /\ \A q : Put(q).op = "put" /\ Put(q).tid = q.tid /\ Put(q).nick = q.nick
  /\ \A op, t : About(op, t).op = op /\ About(op, t).tid = t
BY DEF Put, About, Silent

LEMMA InitInv == Init => IInv
<1> SUFFICES ASSUME Init PROVE IInv
  OBVIOUS
<1>1. DOMAIN users = {} /\ DOMAIN nicknames = {}
  BY DEF Init
<1>2. req \in [Requests -> RequestType] /\ \A r \in Requests : GoodRequest(req[r])
  <2>1. Idle \in RequestType
    BY IdleOK DEF GoodRequest
  <2> QED
    BY <2>1, IdleOK DEF Init
<1>3. DeletedByThisRequest /\ ListedAsRegistered
  BY DEF Init, DeletedByThisRequest, ListedAsRegistered, Silent
<1> QED
  BY <1>1, <1>2, <1>3 DEF Init, IInv, GoodCache

LEMMA CacheStays ==
  ASSUME IInv, UNCHANGED <<backend, nicknames, confirmed>>
  PROVE  GoodCache'
BY DEF IInv, GoodCache, GoodEntry

\* Request r goes to state q; the bindings stay as they are.
LEMMA RequestOnly ==
  ASSUME IInv, NEW r \in Requests, NEW q, GoodRequest(q),
         req' = [req EXCEPT ![r] = q], said' = Silent,
         UNCHANGED <<backend, now, users, confirmed>>, GoodCache'
  PROVE  IInv'
<1>1. /\ req' \in [Requests -> RequestType]
      /\ \A x \in Requests : req'[x] = IF x = r THEN q ELSE req[x]
  BY DEF IInv, GoodRequest
<1>2. \A x \in Requests : GoodRequest(req'[x])
  BY <1>1 DEF IInv
<1>3. (\A x \in Requests : GoodRequest(req[x]))'
  BY <1>2 DEF GoodRequest, Agrees, Kept
<1>4. (\A t \in DOMAIN users : GoodRow(users[t]))'
  BY DEF IInv, GoodRow, Agrees
<1> QED
  BY <1>1, <1>3, <1>4, SilentOK DEF IInv

LEMMA AnswerOnly ==
  ASSUME IInv, NEW r \in Requests, Answer(r),
         UNCHANGED <<backend, now, users, nicknames, confirmed>>
  PROVE  IInv'
BY IdleOK, RequestOnly, CacheStays DEF Answer

LEMMA RequestOK ==
  ASSUME IInv, NEW r \in Requests
  PROVE  GoodRequest(req[r]) /\ req[r] \in RequestType
BY DEF IInv

LEMMA ArrivePutStep ==
  ASSUME IInv, NEW r \in Requests, NEW t \in Tids, NEW n \in Nicknames, ArrivePut(r, t, n)
  PROVE  IInv'
<1> DEFINE q == [Idle EXCEPT !.pc = "resolve", !.tid = t, !.typed = n, !.nick = n]
<1>1. q \in RequestType /\ q.pc = "resolve" /\ q.tid = t /\ q.typed = n /\ q.nick = n
  BY DEF RequestType, Idle
<1>2. req' = [req EXCEPT ![r] = q] /\ said' = Silent
      /\ UNCHANGED <<backend, now, users, nicknames, confirmed>>
  BY DEF ArrivePut
<1> HIDE DEF q
<1>3. GoodRequest(q)
  BY <1>1 DEF GoodRequest
<1> QED
  BY <1>2, <1>3, RequestOnly, CacheStays

\* Request r, resolved to nickname n, is stamped and goes to the store.
LEMMA ToUpsertOK ==
  ASSUME IInv, NEW r \in Requests, NEW n, ToUpsert(r, n), req[r].pc # "idle",
         Agrees(n, req[r].typed), n.login \in confirmed,
         UNCHANGED <<backend, now, users, confirmed>>, GoodCache'
  PROVE  IInv'
<1> DEFINE q == [req[r] EXCEPT !.pc = IF backend = "ydb" THEN "read" ELSE "upsert",
                               !.nick = n, !.at = now]
<1>1. GoodRequest(req[r]) /\ req[r] \in RequestType /\ now \in Nat /\ backend \in {"mem", "ydb"}
  BY RequestOK, Constants DEF IInv
<1>2. n \in Nicknames
  BY DEF Agrees
<1>3. /\ q \in RequestType /\ q.pc = IF backend = "ydb" THEN "read" ELSE "upsert"
      /\ q.tid = req[r].tid /\ q.typed = req[r].typed /\ q.nick = n /\ q.at = now
  BY <1>1, <1>2 DEF RequestType
<1>4. req' = [req EXCEPT ![r] = q] /\ said' = Silent
  BY DEF ToUpsert
<1> HIDE DEF q
<1>5. req[r].tid \in Tids
  BY <1>1 DEF GoodRequest
<1>6. GoodRequest(q)
  BY <1>1, <1>3, <1>5, Constants DEF GoodRequest
<1> QED
  BY <1>4, <1>6, RequestOnly

LEMMA ResolveCachedStep ==
  ASSUME IInv, NEW r \in Requests, ResolveCached(r)
  PROVE  IInv'
<1> DEFINE l == req[r].nick.login
<1>1. req[r].nick \in Nicknames /\ req[r].typed = req[r].nick
  BY RequestOK DEF ResolveCached, GoodRequest
<1>2. GoodEntry(l, nicknames[l])
  BY DEF ResolveCached, IInv, GoodCache
<1>3. Agrees(nicknames[l], req[r].typed) /\ nicknames[l].login \in confirmed
  BY <1>1, <1>2 DEF Agrees, GoodEntry
<1> QED
  BY <1>3, ToUpsertOK, CacheStays DEF ResolveCached

LEMMA ResolveMissStep ==
  ASSUME IInv, NEW r \in Requests, ResolveMiss(r)
  PROVE  IInv'
<1> DEFINE q == [req[r] EXCEPT !.pc = "lookup"]
<1>1. GoodRequest(req[r]) /\ req[r] \in RequestType /\ req[r].pc = "resolve"
  BY RequestOK DEF ResolveMiss
<1>2. /\ q \in RequestType /\ q.pc = "lookup"
      /\ q.tid = req[r].tid /\ q.typed = req[r].typed /\ q.nick = req[r].nick
  BY <1>1 DEF RequestType
<1>3. /\ req' = [req EXCEPT ![r] = q] /\ said' = Silent
      /\ UNCHANGED <<backend, now, users, nicknames, confirmed>>
  BY DEF ResolveMiss, Goto
<1> HIDE DEF q
<1>4. GoodRequest(q)
  BY <1>1, <1>2 DEF GoodRequest
<1> QED
  BY <1>3, <1>4, RequestOnly, CacheStays

LEMMA LookupFoundStep ==
  ASSUME IInv, NEW r \in Requests, LookupFound(r)
  PROVE  IInv'
<1> DEFINE q == [req[r] EXCEPT !.pc = "fill"]
<1>1. /\ GoodRequest(req[r]) /\ req[r] \in RequestType /\ req[r].pc = "lookup"
      /\ req[r].nick \in Nicknames /\ req[r].typed = req[r].nick /\ req[r].tid \in Tids
  BY RequestOK DEF LookupFound, GoodRequest
<1>2. /\ q \in RequestType /\ q.pc = "fill"
      /\ q.tid = req[r].tid /\ q.typed = req[r].typed /\ q.nick = req[r].nick
  BY <1>1 DEF RequestType
<1>3. /\ req' = [req EXCEPT ![r] = q] /\ said' = Silent
      /\ confirmed' = confirmed \cup {req[r].nick.login}
      /\ UNCHANGED <<backend, now, users, nicknames>>
  BY DEF LookupFound, Goto
<1> HIDE DEF q
<1>4. req' \in [Requests -> RequestType] /\ \A x \in Requests : req'[x] = IF x = r THEN q ELSE req[x]
  BY <1>2, <1>3 DEF IInv
<1>5. \A x \in Requests : GoodRequest(req[x])
  BY DEF IInv
<1>6. (\A x \in Requests : GoodRequest(req[x]))'
  <2> SUFFICES ASSUME NEW x \in Requests PROVE GoodRequest(req[x])'
    OBVIOUS
  <2>1. CASE x = r
    <3>1. req'[x] = q
      BY <1>4, <2>1
    <3>2. q.nick.login \in confirmed'
      BY <1>2, <1>3
    <3> QED
      BY <1>1, <1>2, <3>1, <3>2 DEF GoodRequest
  <2>2. CASE x # r
    <3>1. req'[x] = req[x] /\ confirmed \subseteq confirmed'
      BY <1>3, <1>4, <2>2
    <3> QED
      BY <1>3, <1>5, <3>1 DEF GoodRequest, Agrees, Kept
  <2> QED
    BY <2>1, <2>2
<1>7. (\A t \in DOMAIN users : GoodRow(users[t]))' /\ GoodCache'
  BY <1>3 DEF IInv, GoodRow, Agrees, GoodCache, GoodEntry
<1>8. confirmed' \subseteq Logins
  BY <1>1, <1>3 DEF IInv, Nicknames
<1> QED
  BY <1>3, <1>4, <1>6, <1>7, <1>8, SilentOK DEF IInv

LEMMA FillStep ==
  ASSUME IInv, NEW r \in Requests, Fill(r)
  PROVE  IInv'
<1> DEFINE n == req[r].nick
<1>1. /\ n \in Nicknames /\ req[r].typed = n /\ n.login \in confirmed
      /\ n.login \in Logins
  BY RequestOK DEF Fill, GoodRequest, Nicknames
<1>2. /\ CachedForm(n) \in Nicknames /\ CachedForm(n).login = n.login
      /\ backend = "ydb" => CachedForm(n).form = "lower"
  BY <1>1 DEF CachedForm, ToLower, Nicknames
<1>3. GoodCache'
  <2>1. CASE nicknames' = [l \in DOMAIN nicknames \cup {n.login} |->
                             IF l = n.login THEN CachedForm(n) ELSE nicknames[l]]
    BY <1>1, <1>2, <2>1 DEF Fill, IInv, GoodCache, GoodEntry
  <2>2. CASE UNCHANGED nicknames
    BY <2>2, CacheStays DEF Fill
  <2> QED
    BY <2>1, <2>2 DEF Fill
<1>4. Agrees(n, req[r].typed)
  BY <1>1 DEF Agrees
<1> QED
  BY <1>1, <1>3, <1>4, ToUpsertOK DEF Fill
\* The row a PUT writes is a good one, whichever creation time it takes.
LEMMA RowOK ==
  ASSUME IInv, NEW r \in Requests, req[r].pc \in {"upsert", "write"},
         NEW c \in Nat, c <= now
  PROVE  GoodRow(RowOf(req[r], c)) /\ RowOf(req[r], c).createdAt = c
<1>1. GoodRequest(req[r]) /\ req[r] \in RequestType /\ req[r].at \in Nat
  BY RequestOK DEF RequestType
<1>2. c <= req[r].at + ReqTime
  BY <1>1, Constants DEF GoodRequest, IInv
<1> QED
  BY <1>1, <1>2 DEF GoodRequest, GoodRow, RowOf, RowType, Agrees

\* What the two stores' Upserts do to the bindings.
LEMMA WithRowOK ==
  ASSUME IInv, NEW t \in Tids, NEW row, GoodRow(row), users' = WithRow(t, row),
         UNCHANGED <<backend, now, confirmed>>
  PROVE  /\ DOMAIN users' = DOMAIN users \cup {t} /\ users'[t] = row
         /\ \A x \in DOMAIN users : x # t => users'[x] = users[x]
         /\ DOMAIN users' \subseteq Tids /\ \A x \in DOMAIN users' : GoodRow(users'[x])
BY DEF WithRow, IInv

\* ... and the two Deletes.
LEMMA RestrictOK ==
  ASSUME IInv, NEW t, users' = Restrict(users, DOMAIN users \ {t})
  PROVE  /\ DOMAIN users' = DOMAIN users \ {t}
         /\ \A x \in DOMAIN users' : users'[x] = users[x]
         /\ DOMAIN users' \subseteq Tids /\ \A x \in DOMAIN users' : GoodRow(users'[x])
BY DEF Restrict, IInv

LEMMA MemUpsertStep ==
  ASSUME IInv, NEW r \in Requests, MemUpsert(r)
  PROVE  IInv'
<1> DEFINE q == req[r]
           c == IF q.tid \in DOMAIN users THEN users[q.tid].createdAt ELSE q.at
<1>1. /\ GoodRequest(q) /\ q.pc = "upsert" /\ backend = "mem" /\ q.tid \in Tids
      /\ q.at \in Nat /\ q.at <= now
  BY RequestOK DEF MemUpsert, GoodRequest, RequestType
<1>2. c \in Nat /\ c <= now
  BY <1>1 DEF IInv, GoodRow, RowType
<1>3. /\ users' = WithRow(q.tid, RowOf(q, c)) /\ req' = [req EXCEPT ![r] = Idle]
      /\ said'.op = "put" /\ UNCHANGED <<backend, now, nicknames, confirmed>>
  BY Answers DEF MemUpsert
<1>4. GoodRow(RowOf(q, c))
  BY <1>1, <1>2, RowOK
<1> HIDE DEF c
<1>5. DOMAIN users' \subseteq Tids /\ \A x \in DOMAIN users' : GoodRow(users'[x])
  BY <1>1, <1>3, <1>4, WithRowOK
<1>6. (\A t \in DOMAIN users : GoodRow(users[t]))'
  BY <1>3, <1>5 DEF GoodRow, Agrees
<1>7. req' \in [Requests -> RequestType] /\ \A x \in Requests : req'[x] = IF x = r THEN Idle ELSE req[x]
  BY <1>3, IdleOK DEF IInv, GoodRequest
<1>8. (\A x \in Requests : GoodRequest(req[x]))'
  <2>1. \A x \in Requests : GoodRequest(req'[x])
    BY <1>7, IdleOK DEF IInv
  <2> QED
    BY <1>1, <1>3, <2>1 DEF GoodRequest, Agrees
<1> QED
  BY <1>3, <1>5, <1>6, <1>7, <1>8, ModestOK, CacheStays DEF IInv

LEMMA MemDeleteStep ==
  ASSUME IInv, NEW r \in Requests, NEW t \in Tids, MemDelete(r, t)
  PROVE  IInv'
<1>1. /\ users' = Restrict(users, DOMAIN users \ {t}) /\ backend = "mem"
      /\ UNCHANGED <<backend, now, nicknames, req, confirmed>>
  BY DEF MemDelete
<1>2. DOMAIN users' \subseteq Tids /\ \A x \in DOMAIN users' : GoodRow(users'[x])
  BY <1>1, RestrictOK
<1>3. (\A x \in DOMAIN users : GoodRow(users[x]))'
  BY <1>1, <1>2 DEF GoodRow, Agrees
<1>4. (\A x \in Requests : GoodRequest(req[x]))'
  BY <1>1 DEF IInv, GoodRequest, Agrees
<1>5. DeletedByThisRequest' /\ ListedAsRegistered'
  BY DEF MemDelete, DeletedByThisRequest, ListedAsRegistered, About, Silent
<1> QED
  BY <1>1, <1>2, <1>3, <1>4, <1>5, CacheStays DEF IInv

\* The requests r overtook: those that had read the binding r changed are
\* marked, the others find theirs as it was.
LEMMA OvertakingOK ==
  ASSUME IInv, NEW r \in Requests, NEW q \in RequestType, Overtaking(r, q),
         UNCHANGED <<backend, now, confirmed>>,
         \A t \in Tids : t # req[r].tid =>
           /\ t \in DOMAIN users' <=> t \in DOMAIN users
           /\ t \in DOMAIN users => users'[t] = users[t]
  PROVE  /\ req' \in [Requests -> RequestType] /\ req'[r] = q
         /\ (\A x \in Requests : x # r => GoodRequest(req[x]))'
<1> DEFINE Marked(x) == [req[x] EXCEPT !.raced =
             @ \/ (req[x].pc \in {"write", "delete"} /\ req[x].tid = req[r].tid)]
<1>1. \A x \in Requests : GoodRequest(req[x]) /\ req[x] \in RequestType
  BY RequestOK
<1>2. \A x \in Requests :
        /\ Marked(x) \in RequestType
        /\ Marked(x).pc = req[x].pc /\ Marked(x).tid = req[x].tid
        /\ Marked(x).typed = req[x].typed /\ Marked(x).nick = req[x].nick
        /\ Marked(x).at = req[x].at /\ Marked(x).created = req[x].created
        /\ Marked(x).did = req[x].did
        /\ Marked(x).raced = (req[x].raced \/ (req[x].pc \in {"write", "delete"}
                                               /\ req[x].tid = req[r].tid))
  BY <1>1 DEF RequestType
<1>3. req' = [x \in Requests |-> IF x = r THEN q ELSE Marked(x)]
  BY DEF Overtaking
<1> HIDE DEF Marked
<1>4. req' \in [Requests -> RequestType] /\ req'[r] = q
  BY <1>2, <1>3
<1>5. ASSUME NEW x \in Requests, x # r PROVE GoodRequest(req[x])'
  <2>1. req'[x] = Marked(x)
    BY <1>3, <1>5
  <2>2. CASE req[x].pc \notin {"write", "delete"}
    BY <1>1, <1>2, <2>1, <2>2 DEF GoodRequest, Agrees
  <2>3. CASE req[x].pc \in {"write", "delete"} /\ req[x].tid = req[r].tid
    <3>1. Marked(x).raced = TRUE
      BY <1>2, <2>3
    <3> QED
      BY <1>1, <1>2, <2>1, <2>3, <3>1 DEF GoodRequest, Agrees
  <2>4. CASE req[x].pc \in {"write", "delete"} /\ req[x].tid # req[r].tid
    <3>1. req[x].tid \in Tids
      BY <1>1, <2>4 DEF GoodRequest
    <3>2. /\ req[x].tid \in DOMAIN users' <=> req[x].tid \in DOMAIN users
          /\ req[x].tid \in DOMAIN users => users'[req[x].tid] = users[req[x].tid]
      BY <2>4, <3>1
    <3>3. Kept(Marked(x)) = Kept(req[x])
      BY <1>2 DEF Kept
    <3>0. Marked(x).raced = req[x].raced
      BY <1>1, <1>2, <2>4 DEF RequestType
    <3>4. Kept(req[x])' = Kept(req[x])
      BY <2>1, <3>3 DEF Kept
    <3>5. CASE req[x].pc = "write"
      <4>1. (req[x].tid \in DOMAIN users => users[req[x].tid].createdAt = Kept(req[x]))
              => (req[x].tid \in DOMAIN users => users[req[x].tid].createdAt = Kept(req[x]))'
        BY <1>2, <2>1, <3>2, <3>4
      <4> HIDE DEF Kept
      <4> QED
        BY <1>1, <1>2, <2>1, <3>0, <3>5, <4>1 DEF GoodRequest, Agrees
    <3>6. CASE req[x].pc = "delete"
      BY <1>1, <1>2, <2>1, <3>0, <3>2, <3>6 DEF GoodRequest, Agrees
    <3> QED
      BY <2>4, <3>5, <3>6
  <2> QED
    BY <2>2, <2>3, <2>4
<1> QED
  BY <1>4, <1>5
LEMMA YdbReadRowStep ==
  ASSUME IInv, NEW r \in Requests, YdbReadRow(r)
  PROVE  IInv'
<1> DEFINE c == IF req[r].tid \in DOMAIN users THEN users[req[r].tid].createdAt ELSE Null
           q == [req[r] EXCEPT !.pc = "write", !.created = c]
<1>1. /\ GoodRequest(req[r]) /\ req[r] \in RequestType /\ req[r].pc = "read"
      /\ req[r].tid \in Tids /\ req[r].at \in Nat
  BY RequestOK DEF YdbReadRow, GoodRequest, RequestType
<1>2. /\ c \in Nat \cup {Null} /\ (c # Null => c <= now)
      /\ req[r].tid \in DOMAIN users => c = users[req[r].tid].createdAt /\ c # Null
  BY <1>1, Constants DEF IInv, GoodRow, RowType
<1>3. req' = [req EXCEPT ![r] = q] /\ said' = Silent
      /\ UNCHANGED <<backend, now, users, nicknames, confirmed>>
  BY DEF YdbReadRow
<1> HIDE DEF c
<1>4. /\ q \in RequestType /\ q.pc = "write" /\ q.created = c
      /\ q.tid = req[r].tid /\ q.typed = req[r].typed /\ q.nick = req[r].nick
      /\ q.at = req[r].at
  BY <1>1, <1>2 DEF RequestType
<1> HIDE DEF q
<1>5. GoodRequest(q)
  BY <1>1, <1>2, <1>4 DEF GoodRequest, Kept
<1> QED
  BY <1>3, <1>5, RequestOnly, CacheStays

LEMMA YdbWriteRowStep ==
  ASSUME IInv, NEW r \in Requests, YdbWriteRow(r)
  PROVE  IInv'
<1> DEFINE q == req[r]
<1>1. /\ GoodRequest(q) /\ q \in RequestType /\ q.pc = "write" /\ q.tid \in Tids
      /\ q.at \in Nat /\ q.at <= now /\ Kept(q) \in Nat /\ Kept(q) <= now
  BY RequestOK DEF YdbWriteRow, GoodRequest, RequestType, Kept
<1>2. /\ users' = WithRow(q.tid, RowOf(q, Kept(q)))
      /\ said'.op \notin {"deleted", "listed"} /\ UNCHANGED <<backend, now, nicknames, confirmed>>
  BY Answers DEF YdbWriteRow, Kept, Silent
<1>3. GoodRow(RowOf(q, Kept(q))) /\ RowOf(q, Kept(q)).createdAt = Kept(q)
  BY <1>1, RowOK
<1>4. /\ DOMAIN users' = DOMAIN users \cup {q.tid} /\ users'[q.tid] = RowOf(q, Kept(q))
      /\ \A x \in DOMAIN users : x # q.tid => users'[x] = users[x]
      /\ DOMAIN users' \subseteq Tids /\ \A x \in DOMAIN users' : GoodRow(users'[x])
  BY <1>1, <1>2, <1>3, WithRowOK
<1>5. (\A t \in DOMAIN users : GoodRow(users[t]))'
  BY <1>2, <1>4 DEF GoodRow, Agrees
<1>6. /\ req' \in [Requests -> RequestType] /\ req'[r] \in {Idle, q}
      /\ (\A x \in Requests : x # r => GoodRequest(req[x]))'
  <2>1. CASE Overtaking(r, Idle)
    BY <1>2, <1>4, <2>1, IdleOK, OvertakingOK DEF GoodRequest
  <2>2. CASE Overtaking(r, q)
    BY <1>1, <1>2, <1>4, <2>2, OvertakingOK
  <2> QED
    BY <2>1, <2>2 DEF YdbWriteRow
<1>7. GoodRequest(req[r])'
  <2>1. CASE req'[r] = Idle
    BY <2>1, IdleOK DEF GoodRequest
  <2>2. CASE req'[r] = q
    <3>1. Kept(req[r])' = Kept(q)
      BY <2>2 DEF Kept
    <3>2. users'[q.tid].createdAt = Kept(q)
      BY <1>3, <1>4
    <3> QED
      BY <1>1, <1>2, <2>2, <3>1, <3>2 DEF GoodRequest, Agrees
  <2> QED
    BY <1>6, <2>1, <2>2
<1>8. (\A x \in Requests : GoodRequest(req[x]))'
  BY <1>6, <1>7
<1> QED
  BY <1>2, <1>4, <1>5, <1>6, <1>8, ModestOK, CacheStays DEF IInv

LEMMA YdbDeleteCheckStep ==
  ASSUME IInv, NEW r \in Requests, NEW t \in Tids, YdbDeleteCheck(r, t)
  PROVE  IInv'
<1>1. CASE t \in DOMAIN users
  <2> DEFINE q == [Idle EXCEPT !.pc = "delete", !.tid = t]
  <2>1. q \in RequestType /\ q.pc = "delete" /\ q.tid = t
    BY DEF RequestType, Idle
  <2>2. req' = [req EXCEPT ![r] = q] /\ said' = Silent /\ backend = "ydb"
        /\ UNCHANGED <<backend, now, users, nicknames, confirmed>>
    BY <1>1 DEF YdbDeleteCheck
  <2> HIDE DEF q
  <2>3. GoodRequest(q)
    BY <1>1, <2>1, <2>2 DEF GoodRequest
  <2> QED
    BY <2>2, <2>3, RequestOnly, CacheStays
<1>2. CASE t \notin DOMAIN users
  <2>1. /\ said'.op = "not_found"
        /\ UNCHANGED <<backend, now, users, nicknames, req, confirmed>>
    BY <1>2, Answers DEF YdbDeleteCheck
  <2>2. (\A x \in DOMAIN users : GoodRow(users[x]))' /\ (\A x \in Requests : GoodRequest(req[x]))'
    BY <2>1 DEF IInv, GoodRow, GoodRequest, Agrees, Kept
  <2> QED
    BY <2>1, <2>2, ModestOK, CacheStays DEF IInv
<1> QED
  BY <1>1, <1>2

LEMMA YdbDeleteStep ==
  ASSUME IInv, NEW r \in Requests, YdbDelete(r)
  PROVE  IInv'
<1> DEFINE q == req[r]
           did == q.did \/ q.tid \in DOMAIN users
           again == [q EXCEPT !.did = did]
<1>1. /\ GoodRequest(q) /\ q \in RequestType /\ q.pc = "delete" /\ q.tid \in Tids
      /\ q.raced \in BOOLEAN /\ q.did \in BOOLEAN /\ backend = "ydb"
      /\ did \/ q.raced
  BY RequestOK DEF YdbDelete, GoodRequest, RequestType
<1>2. /\ users' = Restrict(users, DOMAIN users \ {q.tid})
      /\ UNCHANGED <<backend, now, nicknames, confirmed>>
  BY DEF YdbDelete
<1>3. /\ DOMAIN users' = DOMAIN users \ {q.tid}
      /\ \A x \in DOMAIN users' : users'[x] = users[x]
      /\ DOMAIN users' \subseteq Tids /\ \A x \in DOMAIN users' : GoodRow(users'[x])
  BY <1>2, RestrictOK
<1>4. (\A t \in DOMAIN users : GoodRow(users[t]))'
  BY <1>2, <1>3 DEF GoodRow, Agrees
<1>5. \/ Overtaking(r, Idle) /\ said' = [About("deleted", q.tid) EXCEPT !.did = did, !.raced = q.raced]
      \/ Overtaking(r, again) /\ said' = Silent
  BY DEF YdbDelete
<1>6. again \in RequestType /\ again.pc = "delete" /\ again.tid = q.tid
      /\ again.did = did /\ again.raced = q.raced
  BY <1>1 DEF RequestType
<1> HIDE DEF did, again
<1>7. /\ req' \in [Requests -> RequestType] /\ req'[r] \in {Idle, again}
      /\ (\A x \in Requests : x # r => GoodRequest(req[x]))'
  <2>1. CASE Overtaking(r, Idle)
    BY <1>2, <1>3, <2>1, IdleOK, OvertakingOK DEF GoodRequest
  <2>2. CASE Overtaking(r, again)
    BY <1>2, <1>3, <1>6, <2>2, OvertakingOK
  <2> QED
    BY <1>5, <2>1, <2>2
<1>8. GoodRequest(req[r])'
  <2>1. CASE req'[r] = Idle
    BY <2>1, IdleOK DEF GoodRequest
  <2>2. CASE req'[r] = again
    BY <1>1, <1>2, <1>6, <2>2 DEF GoodRequest
  <2> QED
    BY <1>7, <2>1, <2>2
<1>9. (\A x \in Requests : GoodRequest(req[x]))'
  BY <1>7, <1>8
<1>10. DeletedByThisRequest' /\ ListedAsRegistered'
  BY <1>1, <1>5, SilentOK DEF DeletedByThisRequest, ListedAsRegistered, About, Silent
<1> QED
  BY <1>2, <1>3, <1>4, <1>7, <1>9, <1>10, CacheStays DEF IInv

\* GET /users/by_nickname: rows and requests stay, and the rows listed are
\* those registered.
LEMMA ListByNicknameStep ==
  ASSUME IInv, NEW n \in Nicknames, ListByNickname(n)
  PROVE  IInv'
<1> DEFINE rows == {t \in DOMAIN users : IF backend = "ydb" THEN users[t].nick = n
                                         ELSE EqualFold(users[t].nick, n)}
<1>1. /\ said' = [Silent EXCEPT !.op = "listed", !.nick = n, !.rows = rows]
      /\ UNCHANGED <<backend, now, users, nicknames, req, confirmed>>
  BY DEF ListByNickname, Listed
<1>2. said'.op = "listed" /\ said'.nick = n /\ said'.rows = rows
  BY <1>1 DEF Silent
<1>3. \A t \in DOMAIN users : Agrees(users[t].nick, users[t].typed)
  BY DEF IInv, GoodRow
<1>4. \A t \in rows : EqualFold(users[t].nick, n)
  BY DEF EqualFold
<1>5. ASSUME backend = "ydb" => n.form = "lower", NEW t \in DOMAIN users, users[t].typed = n
      PROVE  t \in rows
  <2>1. /\ users[t].nick \in Nicknames /\ users[t].nick.login = n.login
        /\ backend = "ydb" => users[t].nick.form = n.form
    BY <1>3, <1>5 DEF Agrees
  <2>2. backend = "ydb" => users[t].nick = n
    BY <2>1 DEF Nicknames
  <2> QED
    BY <2>1, <2>2 DEF EqualFold
<1> HIDE DEF rows
<1>6. DeletedByThisRequest' /\ ListedAsRegistered'
  BY <1>1, <1>2, <1>4, <1>5 DEF DeletedByThisRequest, ListedAsRegistered
<1>7. (\A x \in DOMAIN users : GoodRow(users[x]))' /\ (\A x \in Requests : GoodRequest(req[x]))'
  BY <1>1 DEF IInv, GoodRow, GoodRequest, Agrees, Kept
<1> QED
  BY <1>1, <1>6, <1>7, CacheStays DEF IInv

LEMMA TickStep ==
  ASSUME IInv, Tick
  PROVE  IInv'
<1>1. /\ now' = now + 1 /\ now \in Nat /\ said' = Silent
      /\ UNCHANGED <<backend, users, nicknames, req, confirmed>>
      /\ \A r \in Requests : Stamped(r) => now < req[r].at + ReqTime
  BY DEF Tick, IInv
<1>2. (\A t \in DOMAIN users : GoodRow(users[t]))'
  <2>1. \A t \in DOMAIN users : users[t].createdAt \in Nat /\ users[t].updatedAt \in Nat
    BY DEF IInv, GoodRow, RowType
  <2> QED
    BY <1>1, <2>1 DEF IInv, GoodRow, Agrees
<1>3. ASSUME NEW x \in Requests PROVE GoodRequest(req[x])'
  <2>1. /\ GoodRequest(req[x]) /\ req[x].at \in Nat /\ req[x].created \in Nat \cup {Null}
    BY RequestOK DEF RequestType
  <2>2. Stamped(x) => now' <= req[x].at + ReqTime
    BY <1>1, <2>1, Constants
  <2>3. Stamped(x) => req[x].at <= now'
    BY <1>1, <2>1 DEF Stamped, GoodRequest
  <2>4. req[x].pc = "write" /\ req[x].created # Null => req[x].created <= now'
    BY <1>1, <2>1 DEF GoodRequest
  <2> QED
    BY <1>1, <2>1, <2>2, <2>3, <2>4 DEF GoodRequest, Stamped, Agrees, Kept
<1> QED
  BY <1>1, <1>2, <1>3, SilentOK, CacheStays DEF IInv
LEMMA Invariant == IInv /\ [Next]_vars => IInv'
<1> SUFFICES ASSUME IInv, [Next]_vars PROVE IInv'
  OBVIOUS
<1>1. CASE \E r \in Requests, t \in Tids :
             MemDelete(r, t) \/ YdbDeleteCheck(r, t) \/ \E n \in Nicknames : ArrivePut(r, t, n)
  BY <1>1, MemDeleteStep, YdbDeleteCheckStep, ArrivePutStep
<1>2. ASSUME NEW r \in Requests, Step(r) PROVE IInv'
  <2>1. CASE ResolveCached(r) \/ ResolveMiss(r)
    BY <2>1, ResolveCachedStep, ResolveMissStep
  <2>2. CASE LookupFound(r) \/ Fill(r)
    BY <2>2, LookupFoundStep, FillStep
  <2>3. CASE LookupFails(r) \/ StoreError(r) \/ Kill(r)
    BY <2>3, AnswerOnly DEF LookupFails, StoreError, Kill
  <2>4. CASE MemUpsert(r)
    BY <2>4, MemUpsertStep
  <2>5. CASE YdbReadRow(r) \/ YdbWriteRow(r)
    BY <2>5, YdbReadRowStep, YdbWriteRowStep
  <2>6. CASE YdbDelete(r)
    BY <2>6, YdbDeleteStep
  <2> QED
    BY <1>2, <2>1, <2>2, <2>3, <2>4, <2>5, <2>6 DEF Step
<1>3. CASE \E n \in Nicknames : ListByNickname(n)
  BY <1>3, ListByNicknameStep
<1>4. CASE Tick
  BY <1>4, TickStep
<1>5. CASE UNCHANGED vars
  BY <1>5 DEF vars, IInv, GoodRow, GoodCache, GoodEntry, GoodRequest, Agrees, Kept,
              DeletedByThisRequest, ListedAsRegistered
<1> QED
  BY <1>1, <1>2, <1>3, <1>4, <1>5 DEF Next

THEOREM Inductive == Spec => []IInv
<1> QED
  BY InitInv, Invariant, PTL DEF Spec

\* The stores, the requests and the cache always hold values of their types.
THEOREM Types == Spec => []TypeOK
<1>1. IInv => TypeOK
  BY DEF IInv, TypeOK, GoodRow, GoodCache, GoodEntry
<1> QED
  BY <1>1, Inductive, PTL

\* Nobody is bound to a nickname S21 never confirmed.
THEOREM Confirmed == Spec => []BoundNicksConfirmed
<1>1. IInv => BoundNicksConfirmed
  BY DEF IInv, BoundNicksConfirmed, GoodRow, GoodCache, GoodEntry
<1> QED
  BY <1>1, Inductive, PTL

\* A DELETE that answers 204 removed the binding, unless it was raced.
THEOREM Deleted == Spec => []DeletedByThisRequest
<1>1. IInv => DeletedByThisRequest
  BY DEF IInv
<1> QED
  BY <1>1, Inductive, PTL

\* A listing by nickname has whoever registered with it, and nobody else.
THEOREM Listing == Spec => []ListedAsRegistered
<1>1. IInv => ListedAsRegistered
  BY DEF IInv
<1> QED
  BY <1>1, Inductive, PTL

\* How a step that changes bindings changes them: a PUT of request r writes
\* one row, a DELETE removes one.
LEMMA UsersStep ==
  ASSUME IInv, [Next]_vars
  PROVE  \/ \A t \in DOMAIN users' : t \in DOMAIN users /\ users'[t] = users[t]
         \/ \E r \in Requests : \E c \in Nat :
              /\ req[r].pc \in {"upsert", "write"} /\ c <= now
              /\ users' = WithRow(req[r].tid, RowOf(req[r], c))
              /\ \/ /\ req[r].pc = "upsert"
                    /\ req[r].tid \in DOMAIN users => c = users[req[r].tid].createdAt
                 \/ req[r].pc = "write" /\ c = Kept(req[r])
<1> DEFINE Same == \A t \in DOMAIN users' : t \in DOMAIN users /\ users'[t] = users[t]
<1>1. CASE UNCHANGED users
  BY <1>1
<1>2. ASSUME NEW t, users' = Restrict(users, DOMAIN users \ {t}) PROVE Same
  BY <1>2, RestrictOK
<1>3. CASE \E r \in Requests, t \in Tids : MemDelete(r, t)
  BY <1>2, <1>3 DEF MemDelete
<1>4. CASE \E r \in Requests : YdbDelete(r)
  BY <1>2, <1>4 DEF YdbDelete
<1>5. ASSUME NEW r \in Requests, MemUpsert(r)
      PROVE  \E c \in Nat :
               /\ req[r].pc = "upsert" /\ c <= now
               /\ users' = WithRow(req[r].tid, RowOf(req[r], c))
               /\ req[r].tid \in DOMAIN users => c = users[req[r].tid].createdAt
  <2> DEFINE c == IF req[r].tid \in DOMAIN users THEN users[req[r].tid].createdAt ELSE req[r].at
  <2>1. c \in Nat /\ c <= now
    BY <1>5, RequestOK DEF MemUpsert, GoodRequest, RequestType, IInv, GoodRow, RowType
  <2>2. req[r].pc = "upsert" /\ users' = WithRow(req[r].tid, RowOf(req[r], c))
    BY <1>5 DEF MemUpsert
  <2> QED
    BY <2>1, <2>2
<1>6. ASSUME NEW r \in Requests, YdbWriteRow(r)
      PROVE  /\ req[r].pc = "write" /\ Kept(req[r]) \in Nat /\ Kept(req[r]) <= now
             /\ users' = WithRow(req[r].tid, RowOf(req[r], Kept(req[r])))
  BY <1>6, RequestOK DEF YdbWriteRow, GoodRequest, RequestType, Kept
<1>7. \/ UNCHANGED users \/ (\E r \in Requests, t \in Tids : MemDelete(r, t))
      \/ \E r \in Requests : YdbDelete(r) \/ MemUpsert(r) \/ YdbWriteRow(r)
  BY DEF Next, Step, vars, YdbDeleteCheck, ArrivePut, ResolveCached, ResolveMiss, LookupFound,
         LookupFails, Fill, YdbReadRow, StoreError, Kill, ListByNickname, Listed, Tick
<1> QED
  BY <1>1, <1>3, <1>4, <1>5, <1>6, <1>7

\* A PUT keeps the creation time of the binding it finds, unless on the
\* database another request overtook it between its two transactions.
THEOREM CreationKept == Spec => CreatedAtPreserved
<1> DEFINE A == \A t \in DOMAIN users \cap DOMAIN users' :
                  \/ users'[t].createdAt = users[t].createdAt
                  \/ \E r \in Requests : req[r].pc = "write" /\ req[r].tid = t /\ req[r].raced
<1>1. IInv /\ [Next]_vars => A
  <2> SUFFICES ASSUME IInv, [Next]_vars, NEW t \in DOMAIN users \cap DOMAIN users',
                      users'[t].createdAt # users[t].createdAt
               PROVE  \E r \in Requests : req[r].pc = "write" /\ req[r].tid = t /\ req[r].raced
    OBVIOUS
  <2>1. PICK r \in Requests : \E c \in Nat :
              /\ req[r].pc \in {"upsert", "write"} /\ c <= now
              /\ users' = WithRow(req[r].tid, RowOf(req[r], c))
              /\ \/ /\ req[r].pc = "upsert"
                    /\ req[r].tid \in DOMAIN users => c = users[req[r].tid].createdAt
                 \/ req[r].pc = "write" /\ c = Kept(req[r])
    BY UsersStep
  <2>2. t = req[r].tid /\ req[r].pc = "write" /\ Kept(req[r]) # users[t].createdAt
    BY <2>1 DEF WithRow, RowOf
  <2> QED
    BY <2>2, RequestOK DEF GoodRequest
<1> QED
  BY <1>1, Inductive, PTL DEF Spec, CreatedAtPreserved

\* UpdatedAt never goes back by more than a request lives.
THEOREM Stamps == Spec => StampsAgree
<1> DEFINE A == \A t \in DOMAIN users' :
                  /\ users'[t].createdAt <= users'[t].updatedAt + ReqTime
                  /\ t \in DOMAIN users => users[t].updatedAt <= users'[t].updatedAt + ReqTime
<1>1. IInv /\ [Next]_vars => A
  <2> SUFFICES ASSUME IInv, [Next]_vars, NEW t \in DOMAIN users'
               PROVE  /\ users'[t].createdAt <= users'[t].updatedAt + ReqTime
                      /\ t \in DOMAIN users => users[t].updatedAt <= users'[t].updatedAt + ReqTime
    OBVIOUS
  <2>1. now \in Nat /\ ReqTime \in Nat
    BY Constants DEF IInv
  <2>2. \A x \in DOMAIN users : /\ users[x].createdAt \in Nat /\ users[x].updatedAt \in Nat
                                /\ users[x].createdAt <= now /\ users[x].updatedAt <= now
    BY DEF IInv, GoodRow, RowType
  <2>3. CASE t \in DOMAIN users /\ users'[t] = users[t]
    <3>1. users[t].createdAt <= users[t].updatedAt + ReqTime
      BY <2>3 DEF IInv, GoodRow
    <3> QED
      BY <2>1, <2>2, <2>3, <3>1
  <2>4. ASSUME NEW r \in Requests, NEW c \in Nat, c <= now, req[r].pc \in {"upsert", "write"},
               users' = WithRow(req[r].tid, RowOf(req[r], c)), t = req[r].tid
        PROVE  /\ users'[t].createdAt <= users'[t].updatedAt + ReqTime
               /\ t \in DOMAIN users => users[t].updatedAt <= users'[t].updatedAt + ReqTime
    <3>1. users'[t].createdAt = c /\ users'[t].updatedAt = req[r].at
      BY <2>4 DEF WithRow, RowOf
    <3>2. req[r].at \in Nat /\ now <= req[r].at + ReqTime
      BY <2>4, RequestOK DEF GoodRequest, RequestType
    <3> QED
      BY <2>1, <2>2, <2>4, <3>1, <3>2
  <2>5. \/ t \in DOMAIN users /\ users'[t] = users[t]
        \/ \E r \in Requests : \E c \in Nat :
             /\ c <= now /\ req[r].pc \in {"upsert", "write"} /\ t = req[r].tid
             /\ users' = WithRow(req[r].tid, RowOf(req[r], c))
    BY UsersStep DEF WithRow
  <2> QED
    BY <2>3, <2>4, <2>5
<1> QED
  BY <1>1, Inductive, PTL DEF Spec, StampsAgree

\* The bindings as clients see them, after a PUT and after a DELETE.
LEMMA BindingsWithRow ==
  ASSUME IInv, NEW t \in Tids, NEW row, users' = WithRow(t, row), UNCHANGED backend
  PROVE  Bindings' = [x \in DOMAIN Bindings \cup {t} |-> IF x = t THEN Bar(row.nick) ELSE Bindings[x]]
BY DEF Bindings, Bar, WithRow

LEMMA BindingsWithout ==
  ASSUME IInv, NEW t, users' = Restrict(users, DOMAIN users \ {t}), UNCHANGED backend
  PROVE  Bindings' = Restrict(Bindings, DOMAIN Bindings \ {t})
<1>1. DOMAIN users' = DOMAIN users \ {t} /\ \A x \in DOMAIN users' : users'[x] = users[x]
  BY RestrictOK
<1> QED
  BY <1>1 DEF Bindings, Bar, Restrict

LEMMA BindingsStay ==
  ASSUME UNCHANGED <<backend, users>>
  PROVE  Bindings' = Bindings
BY DEF Bindings, Bar

LEMMA BarOK == \A n \in Nicknames : Bar(n) \in Nicknames
BY DEF Bar, ToLower, Nicknames

\* How SharedMapping sees the replies.
LEMMA MappingReplies ==
  /\ said' = Silent => MappingReply' = Silent
  /\ said'.op = "put" =>
       MappingReply' = [op |-> "put", asked |-> {said'.tid},
                        rows |-> [t \in {said'.tid} |-> Bar(said.nick)']]
  /\ said'.op \in {"deleted", "not_found"} =>
       MappingReply' = [op |-> said'.op, asked |-> {said'.tid}, rows |-> << >>]
  /\ said'.op = "listed" =>
       MappingReply' = [op |-> "holders", asked |-> {Bar(said.nick)'},
                        rows |-> Restrict(Bindings', said'.rows)]
BY DEF MappingReply, Silent

LEMMA MappingInit == Init => Mapping!Init
<1> SUFFICES ASSUME Init PROVE Mapping!Init
  OBVIOUS
<1>1. Bindings = << >>
  BY DEF Init, Bindings
<1>2. MappingReply = Silent
  BY DEF Init, MappingReply, Silent
<1> QED
  BY <1>1, <1>2 DEF Mapping!Init

LEMMA MappingOther ==
  ASSUME UNCHANGED <<backend, users>>, said' = Silent
  PROVE  Mapping!Next
BY BindingsStay, MappingReplies DEF Mapping!Next, Mapping!Other

\* A PUT writes: the id is bound to the nickname it is answered with.
LEMMA MappingPut ==
  ASSUME IInv, NEW r \in Requests, NEW c, req[r].pc \in {"upsert", "write"},
         users' = WithRow(req[r].tid, RowOf(req[r], c)), UNCHANGED backend,
         said' \in {Silent, Put(req[r])}
  PROVE  Mapping!Next
<1> DEFINE t == req[r].tid
           n == Bar(req[r].nick)
<1>1. t \in Tids /\ req[r].nick \in Nicknames
  BY RequestOK DEF GoodRequest, Agrees
<1>2. n \in Nicknames
  BY <1>1, BarOK
<1>3. Bindings' = [x \in DOMAIN Bindings \cup {t} |-> IF x = t THEN n ELSE Bindings[x]]
  BY <1>1, BindingsWithRow DEF RowOf
<1>4. MappingReply' \in {Silent, [op |-> "put", asked |-> {t}, rows |-> [x \in {t} |-> n]]}
  <2>1. CASE said' = Put(req[r])
    <3>1. said'.op = "put" /\ said'.tid = t /\ said'.nick = req[r].nick
      BY <2>1, Answers
    <3>2. Bar(said.nick)' = n
      BY <3>1 DEF Bar
    <3> QED
      BY <3>1, <3>2, MappingReplies
  <2> QED
    BY <2>1, MappingReplies
<1>5. Mapping!Bind(t, n)
  BY <1>3, <1>4 DEF Mapping!Bind
<1> QED
  BY <1>1, <1>2, <1>5 DEF Mapping!Next

\* A DELETE removes, and may be answered.
LEMMA MappingDelete ==
  ASSUME IInv, NEW t \in Tids, users' = Restrict(users, DOMAIN users \ {t}), UNCHANGED backend,
         said' = Silent \/ (said'.op = "deleted" /\ said'.tid = t)
  PROVE  Mapping!Next
<1>1. Bindings' = Restrict(Bindings, DOMAIN Bindings \ {t})
  BY BindingsWithout
<1>2. MappingReply' \in {Silent, [op |-> "deleted", asked |-> {t}, rows |-> << >>]}
  BY MappingReplies
<1>3. Mapping!Unbind(t)
  BY <1>1, <1>2 DEF Mapping!Unbind, Mapping!Restrict, Restrict
<1> QED
  BY <1>3 DEF Mapping!Next

LEMMA MappingMissing ==
  ASSUME NEW t \in Tids, t \notin DOMAIN users, Bindings' = Bindings,
         said' = About("not_found", t)
  PROVE  Mapping!Next
<1>1. MappingReply' = [op |-> "not_found", asked |-> {t}, rows |-> << >>]
  BY Answers, MappingReplies
<1>2. t \notin DOMAIN Bindings
  BY DEF Bindings
<1>3. Mapping!Missing(t)
  BY <1>1, <1>2 DEF Mapping!Missing
<1> QED
  BY <1>3 DEF Mapping!Next

\* A listing answers all bindings to the nickname, as its store compares them.
LEMMA MappingListing ==
  ASSUME IInv, NEW n \in Nicknames, ListByNickname(n)
  PROVE  Mapping!Next
<1> DEFINE rows == {t \in DOMAIN users : IF backend = "ydb" THEN users[t].nick = n
                                         ELSE EqualFold(users[t].nick, n)}
<1>1. /\ said' = [Silent EXCEPT !.op = "listed", !.nick = n, !.rows = rows]
      /\ UNCHANGED <<backend, users>>
  BY DEF ListByNickname, Listed
<1>2. said'.op = "listed" /\ said'.nick = n /\ said'.rows = rows
  BY <1>1 DEF Silent
<1>3. Bar(said.nick)' = Bar(n) /\ Bindings' = Bindings
  BY <1>1, <1>2, BindingsStay DEF Bar
<1>4. MappingReply' = [op |-> "holders", asked |-> {Bar(n)}, rows |-> Restrict(Bindings, rows)]
  BY <1>2, <1>3, MappingReplies
<1>5. \A t \in DOMAIN users : users[t].nick \in Nicknames
  BY DEF IInv, GoodRow, Agrees
<1>6. \A t \in DOMAIN users : t \in rows <=> Bar(users[t].nick) = Bar(n)
  BY <1>5 DEF Bar, ToLower, EqualFold, Nicknames
<1>7. rows = {t \in DOMAIN Bindings : Bindings[t] = Bar(n)}
  BY <1>6 DEF Bindings
<1> HIDE DEF rows
<1>8. Mapping!Holders(Bar(n))
  BY <1>3, <1>4, <1>7 DEF Mapping!Holders, Mapping!HeldBy, Mapping!Restrict, Restrict
<1> QED
  BY <1>8, BarOK DEF Mapping!Next

LEMMA MappingStep == IInv /\ [Next]_vars => [Mapping!Next]_<<Bindings, MappingReply>>
<1> SUFFICES ASSUME IInv, [Next]_vars PROVE [Mapping!Next]_<<Bindings, MappingReply>>
  OBVIOUS
<1>1. ASSUME NEW r \in Requests, NEW t \in Tids, MemDelete(r, t) \/ YdbDeleteCheck(r, t)
      PROVE  Mapping!Next
  <2>1. CASE MemDelete(r, t) /\ t \in DOMAIN users
    BY <2>1, MappingDelete DEF MemDelete, About, Silent
  <2>2. CASE MemDelete(r, t) /\ t \notin DOMAIN users
    <3>1. Bindings' = Restrict(Bindings, DOMAIN Bindings \ {t})
      BY <2>2, BindingsWithout DEF MemDelete
    <3>2. Bindings' = Bindings
      BY <2>2, <3>1 DEF Bindings, Restrict
    <3> QED
      BY <2>2, <3>2, MappingMissing DEF MemDelete
  <2>3. CASE YdbDeleteCheck(r, t)
    BY <2>3, BindingsStay, MappingMissing, MappingOther DEF YdbDeleteCheck
  <2> QED
    BY <1>1, <2>1, <2>2, <2>3
<1>2. ASSUME NEW r \in Requests, MemUpsert(r) \/ YdbWriteRow(r) PROVE Mapping!Next
  BY <1>2, MappingPut DEF MemUpsert, YdbWriteRow
<1>3. ASSUME NEW r \in Requests, YdbDelete(r) PROVE Mapping!Next
  <2>1. req[r].tid \in Tids
    BY <1>3, RequestOK DEF YdbDelete, GoodRequest
  <2>2. UNCHANGED backend /\ users' = Restrict(users, DOMAIN users \ {req[r].tid})
    BY <1>3 DEF YdbDelete
  <2>3. said' = Silent \/ (said'.op = "deleted" /\ said'.tid = req[r].tid)
    BY <1>3 DEF YdbDelete, About, Silent
  <2> QED
    BY <2>1, <2>2, <2>3, MappingDelete
<1>4. CASE \E n \in Nicknames : ListByNickname(n)
  BY <1>4, MappingListing
<1>5. CASE UNCHANGED vars
  BY <1>5, BindingsStay DEF vars, MappingReply, Bar
<1>6. \/ \E r \in Requests, t \in Tids : MemDelete(r, t) \/ YdbDeleteCheck(r, t)
      \/ \E r \in Requests : MemUpsert(r) \/ YdbWriteRow(r) \/ YdbDelete(r)
      \/ \E n \in Nicknames : ListByNickname(n)
      \/ UNCHANGED vars
      \/ UNCHANGED <<backend, users>> /\ said' = Silent
  BY DEF Next, Step, ArrivePut, ResolveCached, ResolveMiss, LookupFound, LookupFails, Fill,
         YdbReadRow, StoreError, Kill, Tick, Goto, Answer, ToUpsert
<1> QED
  BY <1>1, <1>2, <1>3, <1>4, <1>5, <1>6, MappingOther

\* Whatever the two stores' handlers interleave, rerun or leave undone, their
\* clients see the one mapping that module Service takes a store to be.
THEOREM MappingKept == Spec => ImplementsMapping
<1> QED
  BY MappingInit, MappingStep, Inductive, PTL DEF Spec, ImplementsMapping, Mapping!Spec
=============================================================================
