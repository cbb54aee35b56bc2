-------------------------------- MODULE Users --------------------------------
(***************************************************************************)
(* The (telegram_id, nickname) bindings: PUT, DELETE and the lookups of    *)
(* pkg/api/server.go over the two stores.  memstore does each repository   *)
(* call under its mutex; ydbstore reads and writes in separate             *)
(* transactions.  Authorization is done (module Authenticate).             *)
(***************************************************************************)
EXTENDS Integers, FiniteSets, Functions

CONSTANTS
  Backends,   \* the stores a container may have found: "mem", "ydb"
  Requests,
  Tids,       \* telegram ids
  Logins,     \* S21 logins
  Forms,      \* how a login may be spelt: "lower", "mixed"
  Null,       \* no CreatedAt: the zero time
  ReqTime,    \* execution_timeout: no request lives longer
  MaxNow      \* bound: the clock stops here

ASSUME BackendAssumption == Backends \subseteq {"mem", "ydb"}
ASSUME FormsAssumption == Forms \subseteq {"lower", "mixed"}
ASSUME NullAssumption == Null \notin Nat
ASSUME BoundsAssumption == ReqTime \in Nat /\ MaxNow \in Nat

VARIABLES
  backend,    \* the store, chosen at bootstrap
  now,
  users,      \* identity_users: telegram id -> row
  nicknames,  \* s21_nickname_cache: login (the key is lower-cased) -> nickname kept
  req,
  said,       \* the reply the last step gave, if it gave one
  confirmed   \* history: the logins S21 ever resolved for a PUT

vars == <<backend, now, users, nicknames, req, said, confirmed>>

Nicknames == [login : Logins, form : Forms \cup {"lower"}]

ToLower(n) == [n EXCEPT !.form = "lower"]
EqualFold(m, n) == m.login = n.login

NoNick == [login |-> "none", form |-> "lower"]
Silent == [op |-> "none", tid |-> 0, nick |-> NoNick, rows |-> {},
           did |-> FALSE, raced |-> FALSE]
Idle == [pc |-> "idle", tid |-> 0, typed |-> NoNick, nick |-> NoNick, at |-> 0,
         created |-> Null, did |-> FALSE, raced |-> FALSE]

Init ==
  /\ backend \in Backends
  /\ now = 1
  /\ users = << >>
  /\ nicknames = << >>
  /\ req = [r \in Requests |-> Idle]
  /\ said = Silent
  /\ confirmed = {}

Goto(r, l) == req' = [req EXCEPT ![r].pc = l] /\ said' = Silent

\* r is answered with an error, or not at all.
Answer(r) == req' = [req EXCEPT ![r] = Idle] /\ said' = Silent

\* Request q is answered with the binding it wrote.
Put(q) == [Silent EXCEPT !.op = "put", !.tid = q.tid, !.nick = q.nick]

\* 204 or 404 to a DELETE of t.
About(op, t) == [Silent EXCEPT !.op = op, !.tid = t]

\* Request r goes to state q having changed its binding in the database; the
\* others that have read that binding and not yet written it are marked as
\* raced (history).
Overtaking(r, q) ==
  req' = [x \in Requests |->
            IF x = r THEN q
            ELSE [req[x] EXCEPT !.raced =
                    @ \/ (req[x].pc \in {"write", "delete"} /\ req[x].tid = req[r].tid)]]

\* NicknameCache().Upsert: ydbstore lower-cases the row, memstore its key only.
CachedForm(n) == IF backend = "ydb" THEN ToLower(n) ELSE n

ArrivePut(r, t, n) ==
  /\ req[r].pc = "idle"
  /\ req' = [req EXCEPT ![r] = [Idle EXCEPT !.pc = "resolve", !.tid = t, !.typed = n, !.nick = n]]
  /\ said' = Silent
  /\ UNCHANGED <<backend, now, users, nicknames, confirmed>>

\* The profile is there: the row is stamped with s.Now() and Upsert called.
ToUpsert(r, n) ==
  /\ req' = [req EXCEPT ![r].pc = IF backend = "ydb" THEN "read" ELSE "upsert",
                        ![r].nick = n, ![r].at = now]
  /\ said' = Silent

\* resolveNickname, cache hit: the profile is the one cached.
ResolveCached(r) ==
  /\ req[r].pc = "resolve"
  /\ req[r].nick.login \in DOMAIN nicknames
  /\ ToUpsert(r, nicknames[req[r].nick.login])
  /\ UNCHANGED <<backend, now, users, nicknames, confirmed>>

\* No entry, or the cache cannot be read.
ResolveMiss(r) ==
  /\ req[r].pc = "resolve"
  /\ (backend = "mem" => req[r].nick.login \notin DOMAIN nicknames)
  /\ Goto(r, "lookup")
  /\ UNCHANGED <<backend, now, users, nicknames, confirmed>>

\* S21.LookupByLogin: the profile carries the login as it was typed ...
LookupFound(r) ==
  /\ req[r].pc = "lookup"
  /\ confirmed' = confirmed \cup {req[r].nick.login}
  /\ Goto(r, "fill")
  /\ UNCHANGED <<backend, now, users, nicknames>>

\* A faulty LookupFails: a PUT goes through when S21 cannot be asked.
LookupFailsOpen(r) ==
  /\ req[r].pc = "lookup"
  /\ ToUpsert(r, req[r].nick)
  /\ UNCHANGED <<backend, now, users, nicknames, confirmed>>

\* ... or there is no such login (400), the caller's credentials are refused
\* (401) or S21 is down (500).
LookupFails(r) ==
  /\ req[r].pc = "lookup"
  /\ Answer(r)
  /\ UNCHANGED <<backend, now, users, nicknames, confirmed>>

\* The cache entry is written; a failed write is ignored.
Fill(r) ==
  LET n == req[r].nick
  IN  /\ req[r].pc = "fill"
      /\ \/ nicknames' = [l \in DOMAIN nicknames \cup {n.login} |->
                            IF l = n.login THEN CachedForm(n) ELSE nicknames[l]]
         \/ backend = "ydb" /\ UNCHANGED nicknames
      /\ ToUpsert(r, n)
      /\ UNCHANGED <<backend, now, users, confirmed>>

\* A faulty RowOf: the creation time the request read is stored as it is.
RowOfUnstamped(q, created) ==
  [nick |-> q.nick, typed |-> q.typed, createdAt |-> q.created, updatedAt |-> q.at]

\* The row of a PUT, with the nickname its client typed (history).
RowOf(q, created) == [nick |-> q.nick, typed |-> q.typed, createdAt |-> created, updatedAt |-> q.at]

WithRow(t, row) == [x \in DOMAIN users \cup {t} |-> IF x = t THEN row ELSE users[x]]

\* memstore Upsert: CreatedAt of the existing row is kept.
MemUpsert(r) ==
  LET q == req[r]
  IN  /\ q.pc = "upsert"
      /\ users' = WithRow(q.tid, RowOf(q, IF q.tid \in DOMAIN users
                                          THEN users[q.tid].createdAt ELSE q.at))
      /\ req' = [req EXCEPT ![r] = Idle]
      /\ said' = Put(q)
      /\ UNCHANGED <<backend, now, nicknames, confirmed>>

\* A faulty YdbReadRow: what is there is not looked at.
YdbReadNothing(r) ==
  /\ req[r].pc = "read"
  /\ Goto(r, "write")
  /\ UNCHANGED <<backend, now, users, nicknames, confirmed>>

\* ydbstore Upsert: the existing row is read in a transaction of its own ...
YdbReadRow(r) ==
  /\ req[r].pc = "read"
  /\ req' = [req EXCEPT ![r].pc = "write",
                        ![r].created = IF req[r].tid \in DOMAIN users
                                       THEN users[req[r].tid].createdAt ELSE Null]
  /\ said' = Silent
  /\ UNCHANGED <<backend, now, users, nicknames, confirmed>>

\* A faulty YdbWriteRow: INSERT, which leaves a row that is there as it is.
YdbInsertRow(r) ==
  LET q == req[r]
  IN  /\ q.pc = "write"
      /\ users' = IF q.tid \in DOMAIN users THEN users ELSE WithRow(q.tid, RowOf(q, q.at))
      /\ Overtaking(r, Idle) /\ said' = Put(q)
      /\ UNCHANGED <<backend, now, nicknames, confirmed>>

\* ... and the row is written in another, which the driver may run again when
\* the acknowledgement of its commit is lost.
YdbWriteRow(r) ==
  LET q == req[r]
  IN  /\ q.pc = "write"
      /\ users' = WithRow(q.tid, RowOf(q, IF q.created # Null THEN q.created ELSE q.at))
      /\ \/ Overtaking(r, Idle) /\ said' = Put(q)
         \/ Overtaking(r, q) /\ said' = Silent
      /\ UNCHANGED <<backend, now, nicknames, confirmed>>

\* A faulty YdbDeleteCheck: deleting what is not there is reported as done.
YdbDeleteUnchecked(r, t) ==
  /\ backend = "ydb" /\ req[r].pc = "idle"
  /\ req' = [req EXCEPT ![r] = [Idle EXCEPT !.pc = "delete", !.tid = t]] /\ said' = Silent
  /\ UNCHANGED <<backend, now, users, nicknames, confirmed>>

\* DELETE begins: ydbstore checks that the row exists, memstore deletes it.
MemDelete(r, t) ==
  /\ backend = "mem" /\ req[r].pc = "idle"
  /\ users' = Restrict(users, DOMAIN users \ {t})
  /\ said' = IF t \in DOMAIN users THEN [About("deleted", t) EXCEPT !.did = TRUE]
                                    ELSE About("not_found", t)
  /\ UNCHANGED <<backend, now, nicknames, req, confirmed>>

YdbDeleteCheck(r, t) ==
  /\ backend = "ydb" /\ req[r].pc = "idle"
  /\ IF t \in DOMAIN users
     THEN req' = [req EXCEPT ![r] = [Idle EXCEPT !.pc = "delete", !.tid = t]] /\ said' = Silent
     ELSE UNCHANGED req /\ said' = About("not_found", t)
  /\ UNCHANGED <<backend, now, users, nicknames, confirmed>>

YdbDelete(r) ==
  LET q == req[r]
      did == q.did \/ q.tid \in DOMAIN users
  IN  /\ q.pc = "delete"
      /\ users' = Restrict(users, DOMAIN users \ {q.tid})
      /\ \/ /\ Overtaking(r, Idle)
            /\ said' = [About("deleted", q.tid) EXCEPT !.did = did, !.raced = q.raced]
         \/ Overtaking(r, [q EXCEPT !.did = did]) /\ said' = Silent
      /\ UNCHANGED <<backend, now, nicknames, confirmed>>

\* A database call fails: nothing is written, 500.
StoreError(r) ==
  /\ backend = "ydb" /\ req[r].pc \in {"read", "write", "delete"}
  /\ Answer(r)
  /\ UNCHANGED <<backend, now, users, nicknames, confirmed>>

\* The request is cut off.
Kill(r) ==
  /\ req[r].pc # "idle"
  /\ Answer(r)
  /\ UNCHANGED <<backend, now, users, nicknames, confirmed>>

Listed(n, rows) ==
  /\ said' = [Silent EXCEPT !.op = "listed", !.nick = n, !.rows = rows]
  /\ UNCHANGED <<backend, now, users, nicknames, req, confirmed>>

\* A faulty ListByNickname: memstore compares nicknames exactly.
ListByNicknameExactly(n) ==
  Listed(n, {t \in DOMAIN users : users[t].nick = n})

\* GET /users/by_nickname/<nick>: memstore folds case, ydbstore compares.  The
\* read may be rerun, but only if it failed before it read a row: the errors of
\* the loop over the rows are type mismatches, which the driver does not retry.
ListByNickname(n) ==
  Listed(n,
        {t \in DOMAIN users : IF backend = "ydb" THEN users[t].nick = n
                              ELSE EqualFold(users[t].nick, n)})

\* A faulty Tick: no request is ever cut off.
TickUnlimited ==
  /\ now < MaxNow
  /\ now' = now + 1
  /\ said' = Silent
  /\ UNCHANGED <<backend, users, nicknames, req, confirmed>>

\* Request r holds the time it was stamped with.
Stamped(r) == req[r].pc \in {"upsert", "read", "write"}

\* Time passes; no request lives beyond its limit, counted here from the stamp.
Tick ==
  /\ now < MaxNow
  /\ \A r \in Requests : Stamped(r) => now < req[r].at + ReqTime
  /\ now' = now + 1
  /\ said' = Silent
  /\ UNCHANGED <<backend, users, nicknames, req, confirmed>>

Step(r) ==
  \/ ResolveCached(r) \/ ResolveMiss(r) \/ LookupFound(r) \/ LookupFails(r) \/ Fill(r)
  \/ MemUpsert(r) \/ YdbReadRow(r) \/ YdbWriteRow(r) \/ YdbDelete(r) \/ StoreError(r)
  \/ Kill(r)

Next ==
  \/ \E r \in Requests, t \in Tids :
       MemDelete(r, t) \/ YdbDeleteCheck(r, t) \/ \E n \in Nicknames : ArrivePut(r, t, n)
  \/ \E r \in Requests : Step(r)
  \/ \E n \in Nicknames : ListByNickname(n)
  \/ Tick

Spec == Init /\ [][Next]_vars
-----------------------------------------------------------------------------
RowType == [nick : Nicknames, typed : Nicknames, createdAt : Nat, updatedAt : Nat]

RequestType ==
  [pc : {"idle", "resolve", "lookup", "fill", "upsert", "read", "write", "delete"},
   tid : Tids \cup {0}, typed : Nicknames \cup {NoNick}, nick : Nicknames \cup {NoNick},
   at : Nat, created : Nat \cup {Null}, did : BOOLEAN, raced : BOOLEAN]

\* The types of the stores and the requests.
TypeOK ==
  /\ backend \in Backends
  /\ now \in Nat
  /\ confirmed \subseteq Logins
  /\ DOMAIN users \subseteq Tids /\ \A t \in DOMAIN users : users[t] \in RowType
  /\ DOMAIN nicknames \subseteq Logins
  /\ \A l \in DOMAIN nicknames : nicknames[l] \in Nicknames
  /\ req \in [Requests -> RequestType]

\* "Preserve CreatedAt on update" (ydbstore.go:179, memstore.go:91,
\* server.go:459): a PUT on a binding that exists keeps its creation time.
\* memstore keeps it always; ydbstore reads the row in one transaction and
\* writes it in another, and loses it only to a request whose reading another
\* request overtook.
CreatedAtPreserved ==
  [][\A t \in DOMAIN users \cap DOMAIN users' :
       \/ users'[t].createdAt = users[t].createdAt
       \/ \E r \in Requests : req[r].pc = "write" /\ req[r].tid = t /\ req[r].raced]_vars

\* "Pre-check existence to honour ErrNotFound semantics" (ydbstore.go:218): a
\* DELETE answers 204 only if it removed the binding itself, or if another
\* request changed the binding after the check found it.
DeletedByThisRequest == said.op = "deleted" => said.did \/ said.raced

\* ListByNickname returns "every row whose nickname matches" (store.go:157-159):
\* whoever registered with the nickname as asked for is listed
\* (server_test.go:231-256), and nobody of another login is.
ListedAsRegistered ==
  said.op = "listed" =>
    /\ (backend = "ydb" => said.nick.form = "lower")
         => {t \in DOMAIN users : users[t].typed = said.nick} \subseteq said.rows
    /\ \A t \in said.rows : EqualFold(users[t].nick, said.nick)

\* Nobody is bound to a nickname S21 never confirmed, whatever the cache, its
\* failures and the requests between lookup and write do (server.go:437-461).
BoundNicksConfirmed ==
  /\ \A t \in DOMAIN users : users[t].nick.login \in confirmed
  /\ DOMAIN nicknames \subseteq confirmed
  /\ \A l \in DOMAIN nicknames : nicknames[l].login = l

\* The bindings as their clients see them: the database tells spellings apart,
\* memory only logins.
Bar(n) == IF backend = "ydb" THEN n ELSE ToLower(n)
Bindings == [t \in DOMAIN users |-> Bar(users[t].nick)]

MappingReply ==
  CASE said.op = "none" -> Silent
    [] said.op = "listed" -> [op |-> "holders", asked |-> {Bar(said.nick)},
                              rows |-> Restrict(Bindings, said.rows)]
    [] said.op = "put" -> [op |-> "put", asked |-> {said.tid},
                           rows |-> [t \in {said.tid} |-> Bar(said.nick)]]
    [] OTHER -> [op |-> said.op, asked |-> {said.tid}, rows |-> << >>]

Mapping == INSTANCE SharedMapping
             WITH mapping <- Bindings, reply <- MappingReply, Quiet <- Silent, Nicks <- Nicknames

\* Each store keeps the mapping that module Service takes it to keep, one step
\* per handler: the requests' separate transactions, their reruns and their
\* ends between two of them show as nothing but binds and unbinds.
ImplementsMapping == Mapping!Spec

\* UpdatedAt is stamped before the write (server.go:452), so of two PUTs the
\* one stamped first may be written last, and a row created in between may be
\* older than its update; but never by more than a request lives.
StampsAgree ==
  [][\A t \in DOMAIN users' :
       /\ users'[t].createdAt <= users'[t].updatedAt + ReqTime
       /\ t \in DOMAIN users => users[t].updatedAt <= users'[t].updatedAt + ReqTime]_vars
=============================================================================
