---------------------------- MODULE Service_proofs ----------------------------
(***************************************************************************)
(* Proofs about module Service, for any number of containers, requests and *)
(* keys: types always hold, an active key is found by its name and, when   *)
(* minted over HTTP, has a name the DELETE route takes, and, when the API  *)
(* key check is enforced, every effect is earned and the containers        *)
(* together keep the one mapping of SharedMapping.                         *)
(***************************************************************************)
EXTENDS Service, KeyTable_proofs

KeysOK(tb) == DOMAIN tb \subseteq Keys /\ \A k \in DOMAIN tb : tb[k] \in RowType

UsersOK(f) == DOMAIN f \subseteq Tids /\ \A t \in DOMAIN f : f[t] \in Nicks

TablesOK ==
  /\ DOMAIN keys = Places /\ DOMAIN users = Places
  /\ \A p \in Places : KeysOK(keys[p]) /\ DistinctNames(keys[p]) /\ UsersOK(users[p])

\* The key of request q has the scope of its route, and was active when the
\* request had begun.
Earned(q) ==
  /\ q.key \in DOMAIN keys["ydb"]
  /\ Required(q.op) \in keys["ydb"][q.key].scopes
  /\ IsActive(keys["ydb"][q.key]) \/ q.at <= ended[q.key]

\* Past the gate of an enforcing service a request is on a container that uses
\* the database: the others have no keys.
Admitted(q) ==
  q.pc \in {"handle", "rerun"} /\ q.c # "cli" => store[q.c] = "ydb" /\ Earned(q)

Routed(q) ==
  /\ q.op \in Effects
  /\ q.op \in {"put", "deleted"} => q.arg \in Tids
  /\ q.op = "revoked" => q.arg \in Names
  /\ q.c # "cli" => store[q.c] # "none"

\* A write that runs again ran before, on the database: the row of a creation
\* is there, with the same scopes.
RunsAgain(q) ==
  /\ q.c # "cli" => store[q.c] = "ydb"
  /\ q.op = "created" =>
       /\ q.in.new \in DOMAIN keys["ydb"] /\ keys["ydb"][q.in.new].scopes = q.in.scopes
       /\ q.in.name \in Names /\ (q.c # "cli" => ValidKeyName(q.in.name))
  /\ q.op = "put" => q.in.nick \in Nicks

GoodRequest(q) ==
  /\ q \in RequestType
  /\ q.pc # "idle" => q.c # "none"
  /\ q.pc # "idle" /\ q.c # "cli" => q.at <= now /\ now <= q.at + ReqTime
  /\ q.pc \in {"handle", "rerun"} => Routed(q)
  /\ q.pc = "rerun" => RunsAgain(q)
  /\ Enforce => Admitted(q)

MemoryEmpty == \A c \in Containers : DOMAIN keys[c] = {}

Replies == Effects \cup {"none", "not_found"}

IInv ==
  /\ now \in Nat /\ store \in [Containers -> {"none", "ydb", "mem"}]
  /\ TablesOK
  /\ ended \in [Keys -> Nat]
  /\ req \in [Requests -> RequestType] /\ \A r \in Requests : GoodRequest(req[r])
  /\ Enforce => MemoryEmpty
  /\ reply.op \in Replies

LEMMA Constants ==
  /\ FirstName \in Names /\ NoOwner \notin Owners
  /\ "ydb" \notin Containers /\ "cli" \notin Containers /\ "none" \notin Containers
  /\ ReqTime \in Nat /\ MaxKeys \in Nat /\ MaxKeys >= 1 /\ Never \notin Nat
  /\ ScopeSets \subseteq Scopes
  /\ "ydb" \in Places /\ Containers \subseteq Places
<1>1. ScopeSets \subseteq Scopes
  <2>1. /\ {"read"} \in Scopes /\ {"read", "write"} \in Scopes
        /\ {"read", "write", "admin"} \in Scopes
    BY DEF Scopes
  <2> QED
    BY <2>1, ScopesAssumption
<1>2. /\ ReqTime \in Nat /\ MaxKeys \in Nat /\ MaxKeys >= 1
  BY BoundsAssumption
<1>3. "ydb" \notin Containers /\ "cli" \notin Containers /\ "none" \notin Containers
  BY PlacesAssumption
<1>4. "ydb" \in Places /\ Containers \subseteq Places
  BY DEF Places
<1> QED
  BY <1>1, <1>2, <1>3, <1>4, NamesAssumption, IdsAssumption, NeverAssumption

LEMMA EffectsAre ==
  Effects = {"found", "holders", "put", "deleted", "created", "listed", "revoked"}
<1>1. \A h \in Handlers : h[3] \in {"found", "holders", "put", "deleted", "created", "listed", "revoked"}
  BY DEF Handlers
<1>2. \A e \in {"found", "holders", "put", "deleted", "created", "listed", "revoked"} :
        \E h \in Handlers : h[3] = e
  <2>1. /\ <<"batch", "POST", "found">> \in Handlers
        /\ <<"by_nickname", "GET", "holders">> \in Handlers
        /\ <<"by_telegram", "PUT", "put">> \in Handlers
        /\ <<"by_telegram", "DELETE", "deleted">> \in Handlers
        /\ <<"keys", "POST", "created">> \in Handlers
        /\ <<"keys", "GET", "listed">> \in Handlers
        /\ <<"key", "DELETE", "revoked">> \in Handlers
    BY DEF Handlers
  <2> QED
    BY <2>1
<1> QED
  BY <1>1, <1>2 DEF Effects

LEMMA IdleOK == GoodRequest(Idle) /\ Idle.pc = "idle"
<1>1. NoInput \in InputType
  BY DEF NoInput, InputType, NoKey, Scopes
<1> QED
  BY <1>1 DEF GoodRequest, RequestType, Idle, Admitted, NoKey

LEMMA QuietOK == Quiet.op \in Replies /\ Quiet.op = "none"
BY DEF Quiet, Replies

LEMMA RequestOK ==
  ASSUME IInv, NEW r \in Requests
  PROVE  GoodRequest(req[r]) /\ req[r] \in RequestType
BY DEF IInv

LEMMA InitInv == Init => IInv
<1> SUFFICES ASSUME Init PROVE IInv
  OBVIOUS
<1> DEFINE first == Row(FirstName, {"read", "write", "admin"}, NoOwner)
<1>1. first \in RowType
  BY Constants DEF Row, RowType, Scopes
<1>2. \A p \in Places : keys[p] = IF p = "ydb" THEN [k \in {1} |-> first] ELSE << >>
  BY DEF Init
<1>3. \A p \in Places : users[p] = << >>
  BY DEF Init
<1> HIDE DEF first
<1>4. KeysOK([k \in {1} |-> first]) /\ DistinctNames([k \in {1} |-> first])
  BY <1>1, Constants DEF KeysOK, Keys, DistinctNames, ActiveKeys
<1>5. TablesOK
  BY <1>2, <1>3, <1>4 DEF TablesOK, Init, KeysOK, UsersOK, DistinctNames, ActiveKeys
<1>6. MemoryEmpty
  BY <1>2, Constants DEF MemoryEmpty
<1>7. req \in [Requests -> RequestType] /\ \A r \in Requests : GoodRequest(req[r])
  BY IdleOK DEF Init, GoodRequest
<1> QED
  BY <1>5, <1>6, <1>7, QuietOK DEF Init, IInv

\* Request r goes to state q, with reply a; the tables stay.
LEMMA RequestOnly ==
  ASSUME IInv, NEW r \in Requests, NEW q, GoodRequest(q),
         req' = [req EXCEPT ![r] = q], reply'.op \in Replies,
         UNCHANGED <<now, store, keys, users, ended>>
  PROVE  IInv'
<1>1. /\ req' \in [Requests -> RequestType]
      /\ \A x \in Requests : req'[x] = IF x = r THEN q ELSE req[x]
  BY DEF IInv, GoodRequest
<1>2. \A x \in Requests : GoodRequest(req'[x])
  BY <1>1 DEF IInv
<1>3. (\A x \in Requests : GoodRequest(req[x]))'
  BY <1>2 DEF GoodRequest, Routed, RunsAgain, Admitted, Earned
<1> QED
  BY <1>1, <1>3 DEF IInv, TablesOK, MemoryEmpty

LEMMA AnswerOnly ==
  ASSUME IInv, NEW r \in Requests, NEW a, a.op \in Replies, Answer(r, a),
         UNCHANGED <<now, store, keys, users, ended>>
  PROVE  IInv'
BY IdleOK, RequestOnly DEF Answer

LEMMA ArriveStep ==
  ASSUME IInv, NEW r \in Requests, NEW c \in Containers, Arrive(r, c)
  PROVE  IInv'
<1> DEFINE q == [Idle EXCEPT !.pc = "boot", !.c = c, !.at = now]
<1>1. now \in Nat /\ ReqTime \in Nat
  BY Constants DEF IInv
<1>2. q \in RequestType /\ q.pc = "boot" /\ q.c = c /\ q.at = now
  BY <1>1, IdleOK DEF RequestType, Idle, GoodRequest
<1>3. req' = [req EXCEPT ![r] = q] /\ reply' = Quiet /\ UNCHANGED <<now, store, keys, users, ended>>
  BY DEF Arrive
<1> HIDE DEF q
<1>4. GoodRequest(q)
  BY <1>1, <1>2, Constants DEF GoodRequest, Admitted
<1> QED
  BY <1>3, <1>4, RequestOnly, QuietOK

\* A container's store changes only where no request is past its bootstrap.
LEMMA StoreChange ==
  ASSUME IInv, NEW c \in Containers, NEW s \in {"none", "ydb", "mem"},
         store' = [store EXCEPT ![c] = s], UNCHANGED <<now, req, ended>>,
         \A r \in Requests : req[r].pc \in {"handle", "rerun"} => req[r].c # c,
         keys'["ydb"] = keys["ydb"]
  PROVE  /\ store' \in [Containers -> {"none", "ydb", "mem"}]
         /\ (\A r \in Requests : GoodRequest(req[r]))'
<1>1. /\ store' \in [Containers -> {"none", "ydb", "mem"}]
      /\ \A d \in Containers : d # c => store'[d] = store[d]
  BY DEF IInv
<1>2. ASSUME NEW r \in Requests PROVE GoodRequest(req[r])'
  <2>1. /\ GoodRequest(req[r])
        /\ req[r].pc # "idle" /\ req[r].c # "cli" => req[r].c \in Containers
    BY RequestOK DEF GoodRequest, RequestType
  <2>2. req[r].pc \in {"handle", "rerun"} /\ req[r].c # "cli" => store'[req[r].c] = store[req[r].c]
    BY <1>1, <2>1
  <2> QED
    BY <2>1, <2>2 DEF GoodRequest, Routed, RunsAgain, Admitted, Earned
<1> QED
  BY <1>1, <1>2

LEMMA BootstrapStep ==
  ASSUME IInv, NEW c \in Containers, Bootstrap(c)
  PROVE  IInv'
<1>1. PICK s \in {"ydb", "mem"} : store' = [store EXCEPT ![c] = s]
  BY DEF Bootstrap
<1>2. store[c] = "none" /\ reply' = Quiet /\ UNCHANGED <<now, keys, users, ended, req>>
  BY DEF Bootstrap
<1>3. \A r \in Requests : req[r].pc \in {"handle", "rerun"} => req[r].c # c
  BY <1>2, Constants, RequestOK DEF GoodRequest, Routed
<1>4. /\ store' \in [Containers -> {"none", "ydb", "mem"}]
      /\ (\A r \in Requests : GoodRequest(req[r]))'
  BY <1>1, <1>2, <1>3, StoreChange
<1> QED
  BY <1>2, <1>4, QuietOK DEF IInv, TablesOK, MemoryEmpty

LEMMA RecycleStep ==
  ASSUME IInv, NEW c \in Containers, Recycle(c)
  PROVE  IInv'
<1>1. /\ store' = [store EXCEPT ![c] = "none"] /\ reply' = Quiet /\ UNCHANGED <<now, req, ended>>
      /\ keys' = [keys EXCEPT ![c] = << >>] /\ users' = [users EXCEPT ![c] = << >>]
      /\ \A r \in Requests : req[r].pc # "idle" => req[r].c # c
  BY DEF Recycle, Active
<1>2. keys'["ydb"] = keys["ydb"]
  BY <1>1, Constants DEF IInv, TablesOK
<1>3. /\ store' \in [Containers -> {"none", "ydb", "mem"}]
      /\ (\A r \in Requests : GoodRequest(req[r]))'
  BY <1>1, <1>2, StoreChange
<1>4. TablesOK'
  BY <1>1 DEF IInv, TablesOK, KeysOK, UsersOK, DistinctNames, ActiveKeys
<1>5. Enforce => MemoryEmpty'
  BY <1>1, Constants DEF IInv, MemoryEmpty, TablesOK
<1> QED
  BY <1>1, <1>3, <1>4, <1>5, QuietOK DEF IInv

\* A request is routed to a handler with an argument of the handler's type.
LEMMA TargetOK ==
  ASSUME NEW t \in Targets
  PROVE  /\ t.op \in Effects /\ t.arg \in Tids \cup Names \cup {"none"}
         /\ t.op \in {"put", "deleted"} => t.arg \in Tids
         /\ t.op = "revoked" => t.arg \in Names
<1>1. PICK p \in Paths, m \in Methods : t.arg = p.arg /\ Routes(p, m, t.op)
  BY DEF Targets
<1>2. t.op \in Effects /\ <<p.kind, m, t.op>> \in Handlers
  BY <1>1 DEF Targets, Routes
<1>3. /\ p.kind \in {"batch", "keys", "by_nickname"} => p.arg = "none"
      /\ p.kind = "by_telegram" => p.arg \in Tids
      /\ p.kind = "key" => p.arg \in Names
  BY <1>1 DEF Paths, Routes, MatchByTelegram, MatchByNickname, MatchAdminKey
<1>4. p.kind \in {"batch", "keys", "by_nickname", "by_telegram", "key"}
      /\ (t.op \in {"put", "deleted"} => p.kind = "by_telegram")
      /\ (t.op = "revoked" => p.kind = "key")
  BY <1>2 DEF Handlers
<1> QED
  BY <1>1, <1>2, <1>3, <1>4

LEMMA GateStep ==
  ASSUME IInv, NEW r \in Requests, NEW t \in Targets, Gate(r, t), req[r].pc = "boot",
         store[req[r].c] # "none", UNCHANGED <<now, store, keys, users, ended>>
  PROVE  IInv'
<1> DEFINE tb == keys[At(r)]
           Good(k) == k \in DOMAIN tb /\ KeyGood(tb[k], Required(t.op))
<1>1. /\ GoodRequest(req[r]) /\ req[r] \in RequestType
      /\ req[r].c # "cli" => req[r].c \in Containers
  BY RequestOK DEF GoodRequest, RequestType
<1>2. PICK k \in Keys \cup {NoKey} :
        /\ Good(k) \/ ~Enforce
        /\ req' = [req EXCEPT ![r].pc = "handle", ![r].op = t.op, ![r].arg = t.arg,
                              ![r].key = IF Good(k) THEN k ELSE NoKey]
        /\ reply' = Quiet
  BY DEF Gate
<1> DEFINE q == [req[r] EXCEPT !.pc = "handle", !.op = t.op, !.arg = t.arg,
                               !.key = IF Good(k) THEN k ELSE NoKey]
<1>3. /\ q \in RequestType /\ q.pc = "handle" /\ q.c = req[r].c /\ q.at = req[r].at
      /\ q.op = t.op /\ q.arg = t.arg /\ q.key = IF Good(k) THEN k ELSE NoKey
  BY <1>1, TargetOK DEF RequestType
<1>4. req' = [req EXCEPT ![r] = q]
  BY <1>2
<1>5. Enforce /\ req[r].c # "cli" => Good(k) /\ store[req[r].c] = "ydb" /\ At(r) = "ydb"
  BY <1>1, <1>2 DEF IInv, MemoryEmpty, At
<1> HIDE DEF q
<1>6. Enforce /\ q.c # "cli" => Earned(q)
  BY <1>3, <1>5 DEF Earned, KeyGood
<1>7. GoodRequest(q)
  BY <1>1, <1>3, <1>5, <1>6, TargetOK DEF GoodRequest, Routed, Admitted
<1> QED
  BY <1>2, <1>4, <1>7, RequestOnly, QuietOK

LEMMA ServeHTTPStep ==
  ASSUME IInv, NEW r \in Requests, ServeHTTP(r)
  PROVE  IInv'
<1>1. CASE Answer(r, Quiet)
  BY <1>1, AnswerOnly, QuietOK DEF ServeHTTP
<1>2. CASE \E t \in Targets : Gate(r, t)
  BY <1>2, GateStep DEF ServeHTTP
<1> QED
  BY <1>1, <1>2 DEF ServeHTTP

\* A command of the operator starts.
LEMMA CliStep ==
  ASSUME IInv, NEW r \in Requests, RunCreate(r) \/ RunRevoke(r)
  PROVE  IInv'
<1>1. /\ now \in Nat /\ UNCHANGED <<now, store, keys, users, ended>> /\ reply' = Quiet
      /\ {"created", "revoked"} \subseteq Effects
  BY EffectsAre DEF RunCreate, RunRevoke, IInv
<1>2. CASE RunCreate(r)
  <2> DEFINE q == [Idle EXCEPT !.pc = "handle", !.c = "cli", !.op = "created"]
  <2>1. q \in RequestType /\ q.pc = "handle" /\ q.c = "cli" /\ q.op = "created"
    BY <1>1, IdleOK DEF RequestType, Idle, GoodRequest
  <2>2. req' = [req EXCEPT ![r] = q]
    BY <1>2 DEF RunCreate
  <2> HIDE DEF q
  <2>3. GoodRequest(q)
    BY <1>1, <2>1 DEF GoodRequest, Routed, Admitted
  <2> QED
    BY <1>1, <2>2, <2>3, RequestOnly, QuietOK
<1>3. CASE RunRevoke(r)
  <2>1. PICK n \in Names :
          req' = [req EXCEPT ![r] = [Idle EXCEPT !.pc = "handle", !.c = "cli", !.at = now,
                                                 !.op = "revoked", !.arg = n]]
    BY <1>3 DEF RunRevoke
  <2> DEFINE q == [Idle EXCEPT !.pc = "handle", !.c = "cli", !.at = now, !.op = "revoked", !.arg = n]
  <2>2. q \in RequestType /\ q.pc = "handle" /\ q.c = "cli" /\ q.op = "revoked" /\ q.arg = n
    BY <1>1, IdleOK DEF RequestType, Idle, GoodRequest
  <2>3. req' = [req EXCEPT ![r] = q]
    BY <2>1
  <2> HIDE DEF q
  <2>4. GoodRequest(q)
    BY <1>1, <2>2 DEF GoodRequest, Routed, Admitted
  <2> QED
    BY <1>1, <2>3, <2>4, RequestOnly, QuietOK
<1> QED
  BY <1>2, <1>3

\* What a change of the database's keys may do to a key that is there: end it
\* now, or make it active.
KeysKept ==
  \A k \in DOMAIN keys["ydb"] :
    /\ k \in DOMAIN keys'["ydb"] /\ keys'["ydb"][k].scopes = keys["ydb"][k].scopes
    /\ \/ ended'[k] = now
       \/ IsActive(keys'["ydb"][k])
       \/ ended'[k] = ended[k] /\ keys'["ydb"][k].revokedAt = keys["ydb"][k].revokedAt

LEMMA GoodRequestKept ==
  ASSUME IInv, KeysKept, UNCHANGED <<now, store>>, NEW r \in Requests, req'[r] = req[r]
  PROVE  GoodRequest(req[r])'
<1>1. GoodRequest(req[r])
  BY RequestOK
<1>2. Earned(req[r]) /\ req[r].at <= now => Earned(req[r])'
  BY DEF KeysKept, Earned, IsActive
<1>3. RunsAgain(req[r]) => RunsAgain(req[r])'
  BY DEF KeysKept, RunsAgain
<1> QED
  BY <1>1, <1>2, <1>3 DEF GoodRequest, Routed, Admitted

\* A row is added under a fresh key, or written again under its own.
LEMMA InsertedOK ==
  ASSUME IInv, NEW p \in Places, NEW k \in Keys, NEW n \in Names, NEW s \in Scopes,
         NEW o \in Owners \cup {NoOwner},
         InsertResult(keys[p], Row(n, s, o)) = "created",
         k \notin DOMAIN keys[p] \/ keys[p][k].scopes = s,
         keys' = [keys EXCEPT ![p] = Inserted(keys[p], k, Row(n, s, o))],
         UNCHANGED <<now, users, ended>>
  PROVE  TablesOK' /\ KeysKept
<1> DEFINE row == Row(n, s, o)
<1>1. row \in RowType /\ [row EXCEPT !.revokedAt = Never] = row /\ IsActive(row) /\ row.scopes = s
  BY Constants DEF Row, RowType, IsActive
<1>2. keys' = [keys EXCEPT ![p] = Inserted(keys[p], k, row)]
  BY DEF row
<1>3. KeysOK(keys[p]) /\ DistinctNames(keys[p]) /\ InsertResult(keys[p], row) = "created"
  BY DEF IInv, TablesOK, row
<1> HIDE DEF row
<1>4. Inserted(keys[p], k, row) = [x \in DOMAIN keys[p] \cup {k} |-> IF x = k THEN row ELSE keys[p][x]]
  BY <1>1 DEF Inserted
<1>5. KeysOK(Inserted(keys[p], k, row))
  BY <1>1, <1>3, <1>4 DEF KeysOK
<1>6. DistinctNames(Inserted(keys[p], k, row))
  BY <1>1, <1>3, InsertedDistinct
<1>7. \A x \in Places : keys'[x] = IF x = p THEN Inserted(keys[p], k, row) ELSE keys[x]
  BY <1>2 DEF IInv, TablesOK
<1>8. DOMAIN keys' = Places
  BY <1>2 DEF IInv, TablesOK
<1>9. TablesOK'
  <2>1. \A x \in Places : KeysOK(keys'[x]) /\ DistinctNames(keys'[x])
    BY <1>5, <1>6, <1>7 DEF IInv, TablesOK
  <2> QED
    BY <1>8, <2>1 DEF IInv, TablesOK, KeysOK, DistinctNames, ActiveKeys, UsersOK
<1>10. KeysKept
  <2>1. \A x \in DOMAIN keys["ydb"] :
          /\ x \in DOMAIN keys'["ydb"]
          /\ \/ keys'["ydb"][x] = keys["ydb"][x]
             \/ keys'["ydb"][x] = row /\ keys["ydb"][x].scopes = s
    BY <1>4, <1>7, Constants
  <2> QED
    BY <1>1, <2>1 DEF KeysKept
<1> QED
  BY <1>9, <1>10

\* A row is marked revoked, at some date.
LEMMA RevokedOK ==
  ASSUME IInv, NEW p \in Places, NEW k \in DOMAIN keys[p], NEW at \in Nat,
         keys' = [keys EXCEPT ![p] = Revoked(keys[p], k, at)],
         ended' = IF p = "ydb" THEN [ended EXCEPT ![k] = now] ELSE ended, UNCHANGED <<now, users>>
  PROVE  TablesOK' /\ KeysKept /\ ended' \in [Keys -> Nat]
<1> DEFINE row == [keys[p][k] EXCEPT !.revokedAt = at]
<1>1. /\ KeysOK(keys[p]) /\ DistinctNames(keys[p]) /\ now \in Nat /\ k \in Keys
      /\ keys[p][k] \in RowType /\ ended \in [Keys -> Nat]
  BY DEF IInv, TablesOK, KeysOK
<1>2. row \in RowType /\ row.scopes = keys[p][k].scopes /\ row.revokedAt = at
  BY <1>1 DEF RowType
<1>3. DistinctNames(Revoked(keys[p], k, at))
  BY <1>1, <1>2, Constants, RevokedDistinct
<1>4. Revoked(keys[p], k, at) = [x \in DOMAIN keys[p] |-> IF x = k THEN row ELSE keys[p][x]]
  BY DEF Revoked
<1> HIDE DEF row
<1>5. KeysOK(Revoked(keys[p], k, at))
  BY <1>1, <1>2, <1>4 DEF KeysOK
<1>6. \A x \in Places : keys'[x] = IF x = p THEN Revoked(keys[p], k, at) ELSE keys[x]
  BY DEF IInv, TablesOK
<1>7. DOMAIN keys' = Places
  BY DEF IInv, TablesOK
<1>8. TablesOK'
  <2>1. \A x \in Places : KeysOK(keys'[x]) /\ DistinctNames(keys'[x])
    BY <1>3, <1>5, <1>6 DEF IInv, TablesOK
  <2> QED
    BY <1>7, <2>1 DEF IInv, TablesOK, KeysOK, DistinctNames, ActiveKeys, UsersOK
<1>9. KeysKept
  <2>1. DOMAIN keys["ydb"] \subseteq Keys
    BY Constants DEF IInv, TablesOK, KeysOK
  <2> QED
    BY <1>1, <1>2, <1>4, <1>6, <2>1, Constants DEF KeysKept
<1> QED
  BY <1>1, <1>8, <1>9

LEMMA AtOK ==
  ASSUME IInv, NEW r \in Requests, req[r].pc \in {"handle", "rerun"}
  PROVE  /\ At(r) \in Places /\ KeysOK(keys[At(r)]) /\ UsersOK(users[At(r)])
         /\ Enforce \/ req[r].pc = "rerun" => At(r) = "ydb"
<1>1. GoodRequest(req[r]) /\ req[r] \in RequestType
  BY RequestOK
<1>2. req[r].c # "cli" => req[r].c \in Containers
  BY <1>1 DEF GoodRequest, RequestType
<1>3. Enforce \/ req[r].pc = "rerun" => At(r) = "ydb"
  BY <1>1 DEF At, GoodRequest, Admitted, RunsAgain
<1>4. At(r) \in Places
  BY <1>2, Constants DEF At
<1> QED
  BY <1>3, <1>4 DEF IInv, TablesOK

\* What a write is given: an input of its kind, and for a creation a key that
\* is fresh or its own.
LEMMA InputOK ==
  ASSUME IInv, NEW r \in Requests, req[r].pc \in {"handle", "rerun"}, NEW in \in Inputs(req[r])
  PROVE  /\ in \in InputType
         /\ req[r].op = "put" => in.nick \in Nicks
         /\ req[r].op = "created" =>
              /\ in.name \in Names /\ in.new \in Keys
              /\ in.new \notin DOMAIN keys[At(r)] \/ keys[At(r)][in.new].scopes = in.scopes
              /\ req[r].c # "cli" => ValidKeyName(in.name)
<1> DEFINE q == req[r]
<1>1. /\ GoodRequest(q) /\ q \in RequestType /\ At(r) \in Places /\ now \in Nat
      /\ q.pc = "rerun" => At(r) = "ydb"
  BY RequestOK, AtOK DEF IInv
<1>2. NoInput \in InputType
  BY DEF NoInput, InputType, NoKey, Scopes
<1>3. CASE q.pc = "rerun"
  <2>1. in = q.in /\ in \in InputType /\ RunsAgain(q)
    BY <1>1, <1>3 DEF Inputs, GoodRequest, RequestType
  <2>2. in.new \in DOMAIN keys["ydb"] => in.new \in Keys
    BY Constants DEF IInv, TablesOK, KeysOK
  <2> QED
    BY <1>1, <1>3, <2>1, <2>2 DEF RunsAgain
<1>4. CASE q.pc # "rerun" /\ q.op = "put"
  <2>1. PICK n \in Nicks : in = [NoInput EXCEPT !.nick = n]
    BY <1>4 DEF Inputs, Bindings
  <2> QED
    BY <1>2, <1>4, <2>1 DEF InputType
<1>5. CASE q.pc # "rerun" /\ q.op = "created"
  <2>1. in \in Creations(q)
    BY <1>5 DEF Inputs
  <2>2. /\ in.name \in Names /\ (q.c = "cli" \/ ValidKeyName(in.name))
        /\ in.new \in Keys /\ in.new \notin DOMAIN keys[At(r)]
    BY <1>1, <2>1 DEF Creations, FreshKeys
  <2>3. in \in InputType
    <3>1. in.scopes \in Scopes /\ in.owner \in Owners \cup {NoOwner}
      BY <2>1, Constants DEF Creations
    <3> QED
      BY <2>1, <2>2, <3>1 DEF Creations, InputType
  <2> QED
    BY <1>5, <2>2, <2>3
<1>6. CASE q.pc # "rerun" /\ q.op = "revoked"
  <2>1. in \in Revocations(q)
    BY <1>6 DEF Inputs
  <2>2. q.arg \in Names /\ q.at \in Nat
    BY <1>1, <1>6 DEF GoodRequest, Routed, RequestType
  <2>3. in \in InputType
    BY <1>1, <2>1, <2>2 DEF Revocations, InputType, Scopes, NoKey
  <2> QED
    BY <1>6, <2>3
<1>7. CASE q.pc # "rerun" /\ q.op \notin {"put", "created", "revoked"}
  <2>1. Inputs(q) = {NoInput}
    BY <1>7 DEF Inputs
  <2> QED
    BY <1>2, <1>7, <2>1
<1> QED
  BY <1>3, <1>4, <1>5, <1>6, <1>7

\* Every write keeps the tables' types, and keys in the table; a creation's row
\* is there.
LEMMA WriteOK ==
  ASSUME IInv, NEW r \in Requests, req[r].pc \in {"handle", "rerun"}, NEW in \in Inputs(req[r]),
         WriteOf(r, in), UNCHANGED now
  PROVE  /\ TablesOK' /\ KeysKept /\ ended' \in [Keys -> Nat]
         /\ Enforce => MemoryEmpty'
         /\ req[r].op = "created" =>
              in.new \in DOMAIN keys'[At(r)] /\ keys'[At(r)][in.new].scopes = in.scopes
<1> DEFINE f == users[At(r)]
           t == req[r].arg
<1>1. /\ At(r) \in Places /\ KeysOK(keys[At(r)]) /\ UsersOK(f) /\ (Enforce => At(r) = "ydb")
      /\ req[r].op \in {"put", "deleted"} => t \in Tids
  BY AtOK, RequestOK DEF GoodRequest, Routed
<1>2. ASSUME NEW g, UsersOK(g), users' = [users EXCEPT ![At(r)] = g], UNCHANGED <<keys, ended>>,
             req[r].op # "created"
      PROVE  /\ TablesOK' /\ KeysKept /\ ended' \in [Keys -> Nat] /\ (Enforce => MemoryEmpty')
  <2>1. /\ \A p \in Places : users'[p] = IF p = At(r) THEN g ELSE users[p]
        /\ DOMAIN users' = Places
    BY <1>2 DEF IInv, TablesOK
  <2>2. \A p \in Places : UsersOK(users'[p])
    BY <1>2, <2>1 DEF IInv, TablesOK
  <2>3. TablesOK'
    BY <1>2, <2>1, <2>2 DEF IInv, TablesOK, UsersOK, KeysOK, DistinctNames, ActiveKeys
  <2> QED
    BY <1>2, <2>3 DEF KeysKept, IInv, MemoryEmpty
<1>3. ASSUME NEW g, keys' = [keys EXCEPT ![At(r)] = g] PROVE Enforce => MemoryEmpty'
  BY <1>1, <1>3, Constants DEF IInv, MemoryEmpty, TablesOK
<1>4. CASE Bound(r, in)
  <2>1. /\ users' = [users EXCEPT ![At(r)] = [x \in DOMAIN f \cup {t} |-> IF x = t THEN in.nick ELSE f[x]]]
        /\ UNCHANGED <<keys, ended>> /\ req[r].op = "put"
    BY <1>4 DEF Bound, WriteUsers
  <2>2. UsersOK([x \in DOMAIN f \cup {t} |-> IF x = t THEN in.nick ELSE f[x]])
    BY <1>1, <2>1, InputOK DEF UsersOK
  <2> QED
    BY <1>2, <2>1, <2>2
<1>5. CASE Unbound(r, in)
  <2>1. /\ users' = [users EXCEPT ![At(r)] = Restrict(f, DOMAIN f \ {t})]
        /\ UNCHANGED <<keys, ended>> /\ req[r].op = "deleted"
    BY <1>5 DEF Unbound, WriteUsers
  <2>2. UsersOK(Restrict(f, DOMAIN f \ {t}))
    BY <1>1 DEF UsersOK, Restrict
  <2> QED
    BY <1>2, <2>1, <2>2
<1>6. CASE Created(r, in)
  <2> DEFINE row == Row(in.name, in.scopes, in.owner)
  <2>1. /\ keys' = [keys EXCEPT ![At(r)] = Inserted(keys[At(r)], in.new, row)]
        /\ InsertResult(keys[At(r)], row) = "created" /\ UNCHANGED <<users, ended>>
        /\ req[r].op = "created"
    BY <1>6 DEF Created, WriteKeys
  <2>2. /\ in.name \in Names /\ in.new \in Keys /\ in.scopes \in Scopes
        /\ in.owner \in Owners \cup {NoOwner}
        /\ in.new \notin DOMAIN keys[At(r)] \/ keys[At(r)][in.new].scopes = in.scopes
    BY <2>1, InputOK DEF InputType
  <2>3. TablesOK' /\ KeysKept
    BY <1>1, <2>1, <2>2, InsertedOK
  <2>4. keys'[At(r)] = Inserted(keys[At(r)], in.new, row)
    BY <1>1, <2>1 DEF IInv, TablesOK
  <2>5. in.new \in DOMAIN keys'[At(r)] /\ keys'[At(r)][in.new].scopes = in.scopes
    BY <2>4 DEF Inserted, Row
  <2> QED
    BY <1>3, <2>1, <2>3, <2>5 DEF IInv
<1>7. CASE RevokedBy(r, in)
  <2>1. PICK k \in DOMAIN keys[At(r)] :
          /\ keys' = [keys EXCEPT ![At(r)] = Revoked(keys[At(r)], k, in.stamp)] /\ UNCHANGED users
          /\ ended' = IF At(r) = "ydb" THEN [ended EXCEPT ![k] = now] ELSE ended
          /\ req[r].op = "revoked"
    BY <1>7 DEF RevokedBy, WriteKeys, Revocable, ActiveKeys
  <2>2. in.stamp \in Nat
    BY InputOK DEF InputType
  <2>3. TablesOK' /\ KeysKept /\ ended' \in [Keys -> Nat]
    BY <1>1, <2>1, <2>2, RevokedOK
  <2> QED
    BY <1>3, <2>1, <2>3
<1> QED
  BY <1>4, <1>5, <1>6, <1>7 DEF WriteOf

\* A write is done, or done and to be run again: r goes to q.
LEMMA WriteStep ==
  ASSUME IInv, NEW r \in Requests, req[r].pc \in {"handle", "rerun"}, NEW in \in Inputs(req[r]),
         WriteOf(r, in), NEW q, q \in RequestType, GoodRequest(q)', req' = [req EXCEPT ![r] = q],
         reply'.op \in Replies, UNCHANGED <<now, store>>
  PROVE  IInv'
<1>1. TablesOK' /\ KeysKept /\ ended' \in [Keys -> Nat] /\ (Enforce => MemoryEmpty')
  BY WriteOK
<1>2. /\ req' \in [Requests -> RequestType]
      /\ \A x \in Requests : req'[x] = IF x = r THEN q ELSE req[x]
  BY DEF IInv
<1>3. ASSUME NEW x \in Requests PROVE GoodRequest(req[x])'
  <2>1. CASE x = r
    BY <1>2, <2>1 DEF GoodRequest, Routed, RunsAgain, Admitted, Earned
  <2>2. CASE x # r
    BY <1>1, <1>2, <2>2, GoodRequestKept
  <2> QED
    BY <2>1, <2>2
<1> QED
  BY <1>1, <1>2, <1>3 DEF IInv

LEMMA CommitStep ==
  ASSUME IInv, NEW r \in Requests, Write(r), NEW a, a.op \in Replies, Answer(r, a),
         UNCHANGED <<now, store>>
  PROVE  IInv'
<1>1. PICK in \in Inputs(req[r]) : WriteOf(r, in)
  BY DEF Write
<1>2. /\ Idle \in RequestType /\ req' = [req EXCEPT ![r] = Idle] /\ reply'.op \in Replies
      /\ req[r].pc \in {"handle", "rerun"}
  BY IdleOK DEF GoodRequest, Answer, Write
<1>3. GoodRequest(Idle)'
  BY <1>2, IdleOK DEF GoodRequest, Admitted
<1> QED
  BY <1>1, <1>2, <1>3, WriteStep

LEMMA UnackedStep ==
  ASSUME IInv, NEW r \in Requests, Unacked(r)
  PROVE  IInv'
<1>1. /\ req[r].pc \in {"handle", "rerun"} /\ At(r) = "ydb" /\ reply' = Quiet
      /\ UNCHANGED <<now, store>> /\ GoodRequest(req[r]) /\ req[r] \in RequestType
  BY RequestOK DEF Unacked
<1>2. PICK in \in Inputs(req[r]) :
        WriteOf(r, in) /\ req' = [req EXCEPT ![r].pc = "rerun", ![r].in = in]
  BY DEF Unacked
<1> PICK q : q = [req[r] EXCEPT !.pc = "rerun", !.in = in]
  OBVIOUS
<1>3. in \in InputType
  BY <1>1, InputOK
<1>4. /\ q \in RequestType /\ q.pc = "rerun" /\ q.in = in /\ q.c = req[r].c /\ q.at = req[r].at
      /\ q.op = req[r].op /\ q.arg = req[r].arg /\ q.key = req[r].key
  BY <1>1, <1>3 DEF RequestType
<1>5. req' = [req EXCEPT ![r] = q]
  BY <1>2
<1>6. /\ KeysKept
      /\ q.op = "created" =>
           in.new \in DOMAIN keys'["ydb"] /\ keys'["ydb"][in.new].scopes = in.scopes
  BY <1>1, <1>2, <1>4, WriteOK
<1>7. \/ q.c = "cli"
      \/ q.c \in Containers /\ store[q.c] = "ydb"
  <2>1. q.c = "cli" \/ q.c \in Containers
    BY <1>1, <1>4 DEF GoodRequest, RequestType
  <2>2. q.c = "cli" \/ store[q.c] = "ydb"
    BY <1>1, <1>4, <2>1, Constants DEF At
  <2> QED
    BY <2>1, <2>2
<1>8. RunsAgain(q)'
  BY <1>1, <1>2, <1>4, <1>6, <1>7, InputOK DEF RunsAgain
<1>9. (Enforce => Admitted(q))'
  <2>1. Earned(req[r]) /\ req[r].at <= now => Earned(q)'
    BY <1>1, <1>4, <1>6 DEF KeysKept, Earned, IsActive
  <2> QED
    BY <1>1, <1>4, <1>7, <2>1 DEF Admitted, GoodRequest
<1>10. GoodRequest(q)'
  BY <1>1, <1>4, <1>8, <1>9 DEF GoodRequest, Routed
<1> QED
  BY <1>1, <1>2, <1>4, <1>5, <1>10, QuietOK, WriteStep

LEMMA TickStep ==
  ASSUME IInv, Tick
  PROVE  IInv'
<1>1. /\ now' = now + 1 /\ now \in Nat /\ reply' = Quiet
      /\ UNCHANGED <<store, keys, users, ended, req>>
      /\ \A r \in Requests : Active(r) /\ req[r].c # "cli" => now < req[r].at + ReqTime
  BY DEF Tick, IInv
<1>2. ASSUME NEW r \in Requests PROVE GoodRequest(req[r])'
  <2>1. GoodRequest(req[r]) /\ req[r].at \in Nat
    BY RequestOK DEF RequestType
  <2>2. req[r].pc # "idle" /\ req[r].c # "cli" => req[r].at <= now' /\ now' <= req[r].at + ReqTime
    BY <1>1, <2>1, Constants DEF Active, GoodRequest
  <2> QED
    BY <1>1, <2>1, <2>2 DEF GoodRequest, Routed, RunsAgain, Admitted, Earned
<1> QED
  BY <1>1, <1>2, QuietOK
     DEF IInv, TablesOK, KeysOK, DistinctNames, ActiveKeys, UsersOK, MemoryEmpty

LEMMA ReplyOK ==
  ASSUME NEW op \in Replies, NEW asked, NEW rows
  PROVE  Reply(op, asked, rows).op \in Replies /\ Reply(op, asked, rows).op = op
BY DEF Reply

LEMMA StepInv ==
  ASSUME IInv, NEW r \in Requests, Step(r)
  PROVE  IInv'
<1>1. {"found", "holders", "listed", "not_found"} \subseteq Replies
  BY EffectsAre DEF Replies
<1>2. CASE ServeHTTP(r)
  BY <1>2, ServeHTTPStep
<1>3. CASE Deny(r)
  BY <1>3, AnswerOnly, QuietOK DEF Deny
<1>4. CASE Lookup(r)
  BY <1>1, <1>4, AnswerOnly, ReplyOK DEF Lookup
<1>5. CASE ListByNickname(r)
  BY <1>1, <1>5, AnswerOnly, ReplyOK DEF ListByNickname
<1>6. CASE DeleteMissing(r) \/ ListKeys(r)
  BY <1>1, <1>6, AnswerOnly, ReplyOK DEF DeleteMissing, ListKeys
<1>7. CASE Commit(r)
  <2>1. req[r].op \in Replies
    BY <1>7, RequestOK DEF Commit, Write, GoodRequest, Routed, Replies
  <2> QED
    BY <1>7, <2>1, CommitStep, ReplyOK DEF Commit
<1>8. CASE Kill(r)
  BY <1>8, AnswerOnly, CommitStep, QuietOK DEF Kill
<1>9. CASE Unacked(r)
  BY <1>9, UnackedStep
<1> QED
  BY <1>2, <1>3, <1>4, <1>5, <1>6, <1>7, <1>8, <1>9 DEF Step

LEMMA Invariant == IInv /\ [Next]_vars => IInv'
<1> SUFFICES ASSUME IInv, [Next]_vars PROVE IInv'
  OBVIOUS
<1>1. CASE \E r \in Requests : Step(r) \/ \E c \in Containers : Arrive(r, c)
  BY <1>1, StepInv, ArriveStep
<1>2. CASE \E r \in Requests : RunCreate(r) \/ RunRevoke(r)
  BY <1>2, CliStep
<1>3. CASE \E c \in Containers : Bootstrap(c) \/ Recycle(c)
  BY <1>3, BootstrapStep, RecycleStep
<1>4. CASE Tick
  BY <1>4, TickStep
<1>5. CASE UNCHANGED vars
  BY <1>5 DEF vars, IInv, TablesOK, KeysOK, DistinctNames, ActiveKeys, UsersOK, MemoryEmpty,
              GoodRequest, Routed, RunsAgain, Admitted, Earned
<1> QED
  BY <1>1, <1>2, <1>3, <1>4, <1>5 DEF Next

THEOREM Inductive == Spec => []IInv
<1> QED
  BY InitInv, Invariant, PTL DEF Spec

\* Types, and that path arguments reach their handlers typed.
THEOREM Types == Spec => []TypeOK
<1>1. IInv => TypeOK
  BY DEF IInv, TypeOK, TablesOK, KeysOK, UsersOK, GoodRequest, Routed, Active, Replies
<1> QED
  BY <1>1, Inductive, PTL

\* A request with an effect has reached its handler.
LEMMA EffectiveHandled ==
  ASSUME IInv, [Next]_vars, NEW r \in Requests, Effective(r)
  PROVE  req[r].pc \in {"handle", "rerun"}
<1>1. CASE Write(r)
  BY <1>1 DEF Write
<1>2. CASE req'[r] = Idle /\ reply' # Quiet
  <2>1. req[r] # Idle
    BY IdleOK DEF Effective, Active
  <2>2. PICK x \in Requests : Step(x)
    BY <1>2, <2>1 DEF Next, vars, Arrive, Bootstrap, Recycle, RunCreate, RunRevoke, Tick
  <2>3. /\ req[x].pc \in {"handle", "rerun"} /\ req' = [req EXCEPT ![x] = Idle]
    BY <1>2, <2>2 DEF Step, ServeHTTP, Gate, Deny, Lookup, ListByNickname, Commit, Unacked,
                      DeleteMissing, ListKeys, Kill, Answer, Write
  <2>4. x = r
    BY <1>2, <2>1, <2>3 DEF IInv
  <2> QED
    BY <2>3, <2>4
<1> QED
  BY <1>1, <1>2 DEF Effective

\* Whatever an enforcing service reads or writes for a request, the request has
\* earned with a key of the database.
THEOREM Earning == ASSUME Enforce PROVE Spec => EffectsEarned
<1> DEFINE A == \A r \in Requests : Effective(r) =>
                  LET k == req[r].key IN
                  /\ k \in DOMAIN keys["ydb"]
                  /\ Required(req[r].op) \in keys["ydb"][k].scopes
                  /\ IsActive(keys["ydb"][k]) \/ now <= ended[k] + ReqTime
<1>1. IInv /\ [Next]_vars => A
  <2> SUFFICES ASSUME IInv, [Next]_vars, NEW r \in Requests, Effective(r)
               PROVE  /\ req[r].key \in DOMAIN keys["ydb"]
                      /\ Required(req[r].op) \in keys["ydb"][req[r].key].scopes
                      /\ IsActive(keys["ydb"][req[r].key]) \/ now <= ended[req[r].key] + ReqTime
    OBVIOUS
  <2>1. req[r].pc \in {"handle", "rerun"} /\ req[r].c # "cli"
    BY EffectiveHandled DEF Effective
  <2>2. /\ Earned(req[r]) /\ req[r].at \in Nat /\ now \in Nat /\ now <= req[r].at + ReqTime
    BY <2>1, RequestOK DEF GoodRequest, Admitted, RequestType, IInv
  <2>3. ended[req[r].key] \in Nat
    <3>1. req[r].key \in Keys
      BY <2>2, Constants DEF Earned, IInv, TablesOK, KeysOK
    <3> QED
      BY <3>1 DEF IInv
  <2> QED
    BY <2>2, <2>3, Constants DEF Earned
<1> QED
  BY <1>1, Inductive, PTL DEF Spec, EffectsEarned

\* The DELETE route takes every name validKeyName does.
LEMMA ValidRouted ==
  ASSUME NEW n \in Names, ValidKeyName(n)
  PROVE  Routes([kind |-> "key", arg |-> n], "DELETE", "revoked")
<1>1. Shape[n].len >= 1
  <2>1. \A m \in 1..64 : m >= 1
    OBVIOUS
  <2> QED
    BY <2>1 DEF ValidKeyName
<1>2. MatchAdminKey([kind |-> "key", arg |-> n])
  BY <1>1 DEF ValidKeyName, MatchAdminKey
<1> QED
  BY <1>2 DEF Routes, Handlers

\* A key that a request over HTTP adds has a name the DELETE route takes.
LEMMA MintedRouted ==
  ASSUME IInv, NEW r \in Requests, Write(r), req[r].c # "cli",
         NEW p \in Places, NEW k \in DOMAIN keys'[p], k \notin DOMAIN keys[p]
  PROVE  Routes([kind |-> "key", arg |-> keys'[p][k].name], "DELETE", "revoked")
<1>1. PICK in \in Inputs(req[r]) : WriteOf(r, in)
  BY DEF Write
<1>2. DOMAIN keys = Places
  BY DEF IInv, TablesOK
<1>3. CASE Created(r, in)
  <2> DEFINE row == Row(in.name, in.scopes, in.owner)
  <2>1. keys' = [keys EXCEPT ![At(r)] = Inserted(keys[At(r)], in.new, row)] /\ req[r].op = "created"
    BY <1>3 DEF Created, WriteKeys
  <2>2. p = At(r) /\ keys'[p] = Inserted(keys[p], in.new, row)
    BY <1>2, <2>1
  <2>3. keys'[p][k].name = in.name
    BY <2>2 DEF Inserted, Row
  <2>4. in.name \in Names /\ ValidKeyName(in.name)
    BY <1>1, <2>1, InputOK DEF Write
  <2> QED
    BY <2>3, <2>4, ValidRouted
<1>4. CASE RevokedBy(r, in)
  <2>1. \E j : keys' = [keys EXCEPT ![At(r)] = Revoked(keys[At(r)], j, in.stamp)]
    BY <1>4 DEF RevokedBy, WriteKeys
  <2> QED
    BY <1>2, <2>1 DEF Revoked
<1>5. CASE Bound(r, in) \/ Unbound(r, in)
  BY <1>5 DEF Bound, Unbound, WriteUsers
<1> QED
  BY <1>1, <1>3, <1>4, <1>5 DEF WriteOf

\* An active key is the one its name finds, and has a name the DELETE route
\* takes when it was minted over HTTP.
THEOREM Minting == Spec => MintedOverHttpRevocable
<1> DEFINE A == \A p \in Places : \A k \in ActiveKeys(keys'[p]) :
                  /\ Revocable(keys'[p], keys'[p][k].name, NoOwner) = {k}
                  /\ (\E r \in Requests : Write(r) /\ req[r].c # "cli") /\ k \notin DOMAIN keys[p] =>
                       Routes([kind |-> "key", arg |-> keys'[p][k].name], "DELETE", "revoked")
<1>1. IInv /\ IInv' => A
  <2> SUFFICES ASSUME IInv, IInv', NEW p \in Places, NEW k \in ActiveKeys(keys'[p])
               PROVE  /\ Revocable(keys'[p], keys'[p][k].name, NoOwner) = {k}
                      /\ (\E r \in Requests : Write(r) /\ req[r].c # "cli") /\ k \notin DOMAIN keys[p] =>
                           Routes([kind |-> "key", arg |-> keys'[p][k].name], "DELETE", "revoked")
    OBVIOUS
  <2>1. DistinctNames(keys'[p])
    BY DEF IInv, TablesOK, DistinctNames, ActiveKeys
  <2>2. Revocable(keys'[p], keys'[p][k].name, NoOwner) = {k}
    BY <2>1 DEF Revocable, DistinctNames
  <2>3. k \in DOMAIN keys'[p]
    BY DEF ActiveKeys
  <2> QED
    BY <2>2, <2>3, MintedRouted
<1> QED
  BY <1>1, Inductive, PTL DEF Spec, MintedOverHttpRevocable

\* How SharedMapping sees the replies.
LEMMA MappingReplies ==
  /\ reply' = Quiet => MappingReply' = Quiet
  /\ reply'.op \in {"created", "listed", "revoked"} => MappingReply' = Quiet
  /\ reply'.op \notin {"created", "listed", "revoked"} => MappingReply' = reply'
BY DEF MappingReply, Quiet

LEMMA MappingInit == Init => Mapping!Init
<1> SUFFICES ASSUME Init PROVE Mapping!Init
  OBVIOUS
<1>1. users["ydb"] = << >> /\ reply = Quiet
  BY Constants DEF Init
<1>2. MappingReply = Quiet
  BY <1>1 DEF MappingReply, Quiet
<1> QED
  BY <1>1, <1>2 DEF Mapping!Init

\* A step that says nothing and leaves the database's bindings alone.
LEMMA MappingOther ==
  ASSUME users'["ydb"] = users["ydb"], MappingReply' = Quiet
  PROVE  Mapping!Next
BY DEF Mapping!Next, Mapping!Other

\* The two writes of bindings, answered or not.
LEMMA MappingWrite ==
  ASSUME IInv, Enforce, NEW r \in Requests, req[r].pc \in {"handle", "rerun"},
         NEW in \in Inputs(req[r]), Bound(r, in) \/ Unbound(r, in),
         \/ reply' = Quiet
         \/ reply' = Reply(req[r].op, {req[r].arg}, IF req[r].op = "put"
                             THEN [x \in {req[r].arg} |-> users'[At(r)][x]] ELSE << >>)
  PROVE  Mapping!Next
<1> DEFINE t == req[r].arg
           f == users["ydb"]
<1>1. At(r) = "ydb" /\ t \in Tids /\ DOMAIN users = Places
  BY AtOK, RequestOK DEF Bound, Unbound, GoodRequest, Routed, IInv, TablesOK
<1>2. CASE Bound(r, in)
  <2>1. users' = [users EXCEPT !["ydb"] = [x \in DOMAIN f \cup {t} |-> IF x = t THEN in.nick ELSE f[x]]]
    BY <1>1, <1>2 DEF Bound, WriteUsers
  <2>2. users'["ydb"] = [x \in DOMAIN f \cup {t} |-> IF x = t THEN in.nick ELSE f[x]]
    BY <1>1, <2>1, Constants
  <2>3. req[r].op = "put" /\ in.nick \in Nicks
    BY <1>2, InputOK DEF Bound
  <2>4. MappingReply' \in {Quiet, [op |-> "put", asked |-> {t}, rows |-> [x \in {t} |-> in.nick]]}
    <3>1. [x \in {t} |-> users'[At(r)][x]] = [x \in {t} |-> in.nick]
      BY <1>1, <2>2
    <3> QED
      BY <3>1, <2>3, MappingReplies DEF Reply
  <2>5. Mapping!Bind(t, in.nick)
    BY <2>2, <2>4 DEF Mapping!Bind
  <2> QED
    BY <1>1, <2>3, <2>5 DEF Mapping!Next
<1>3. CASE Unbound(r, in)
  <2>1. users'["ydb"] = Restrict(f, DOMAIN f \ {t})
    BY <1>1, <1>3, Constants DEF Unbound, WriteUsers
  <2>2. MappingReply' \in {Quiet, [op |-> "deleted", asked |-> {t}, rows |-> << >>]}
    BY <1>3, MappingReplies DEF Unbound, Reply
  <2>3. Mapping!Unbind(t)
    BY <2>1, <2>2 DEF Mapping!Unbind, Mapping!Restrict, Restrict
  <2> QED
    BY <1>1, <2>3 DEF Mapping!Next
<1> QED
  BY <1>2, <1>3

\* The writes of keys leave the bindings alone.
LEMMA MappingKeys ==
  ASSUME NEW r \in Requests, NEW in, Created(r, in) \/ RevokedBy(r, in),
         reply' = Quiet \/ reply'.op = req[r].op
  PROVE  Mapping!Next
<1>1. users' = users
  BY DEF Created, RevokedBy, WriteKeys
<1>2. MappingReply' = Quiet
  BY MappingReplies DEF Created, RevokedBy
<1> QED
  BY <1>1, <1>2, MappingOther

LEMMA MappingStep == Enforce /\ IInv /\ [Next]_vars => [Mapping!Next]_<<users["ydb"], MappingReply>>
<1> SUFFICES ASSUME Enforce, IInv, [Next]_vars
             PROVE  [Mapping!Next]_<<users["ydb"], MappingReply>>
  OBVIOUS
<1>1. ASSUME users'["ydb"] = users["ydb"], reply' = Quiet PROVE Mapping!Next
  BY <1>1, MappingOther, MappingReplies
<1>2. ASSUME NEW r \in Requests, Step(r) PROVE Mapping!Next
  <2>1. CASE ServeHTTP(r) \/ Deny(r)
    BY <1>1, <2>1 DEF ServeHTTP, Gate, Deny, Answer
  <2>2. CASE Lookup(r)
    <3>1. At(r) = "ydb" /\ users'["ydb"] = users["ydb"]
      BY <2>2, AtOK DEF Lookup
    <3>2. PICK ids \in SUBSET Tids :
            reply' = Reply("found", ids, Restrict(users["ydb"], ids \cap DOMAIN users["ydb"]))
      BY <2>2, <3>1 DEF Lookup, Answer
    <3>3. MappingReply' = [op |-> "found", asked |-> ids,
                           rows |-> Restrict(users["ydb"], ids \cap DOMAIN users["ydb"])]
      BY <3>2, MappingReplies DEF Reply
    <3>4. Mapping!Read(ids)
      BY <3>1, <3>3 DEF Mapping!Read, Mapping!Restrict, Restrict
    <3> QED
      BY <3>4 DEF Mapping!Next
  <2>3. CASE ListByNickname(r)
    <3> DEFINE f == users["ydb"]
    <3>1. At(r) = "ydb" /\ users'["ydb"] = users["ydb"]
      BY <2>3, AtOK DEF ListByNickname
    <3>2. PICK n \in Nicks : reply' = Reply("holders", {n}, Restrict(f, {t \in DOMAIN f : f[t] = n}))
      BY <2>3, <3>1 DEF ListByNickname, Answer
    <3>3. MappingReply' = [op |-> "holders", asked |-> {n},
                           rows |-> Restrict(f, {t \in DOMAIN f : f[t] = n})]
      BY <3>2, MappingReplies DEF Reply
    <3>4. Mapping!Holders(n)
      BY <3>1, <3>3 DEF Mapping!Holders, Mapping!HeldBy, Mapping!Restrict, Restrict
    <3> QED
      BY <3>4 DEF Mapping!Next
  <2>4. CASE DeleteMissing(r)
    <3>1. /\ At(r) = "ydb" /\ users'["ydb"] = users["ydb"]
          /\ req[r].arg \in Tids /\ req[r].arg \notin DOMAIN users["ydb"]
          /\ reply' = Reply("not_found", {req[r].arg}, << >>)
      BY <2>4, AtOK, RequestOK DEF DeleteMissing, Answer, GoodRequest, Routed
    <3>2. MappingReply' = [op |-> "not_found", asked |-> {req[r].arg}, rows |-> << >>]
      BY <3>1, MappingReplies DEF Reply
    <3>3. Mapping!Missing(req[r].arg)
      BY <3>1, <3>2 DEF Mapping!Missing
    <3> QED
      BY <3>1, <3>3 DEF Mapping!Next
  <2>5. CASE ListKeys(r)
    <3>1. reply'.op = "listed" /\ users'["ydb"] = users["ydb"]
      BY <2>5 DEF ListKeys, Answer, Reply
    <3> QED
      BY <3>1, MappingOther, MappingReplies
  <2>6. CASE Commit(r)
    <3>1. PICK in \in Inputs(req[r]) : WriteOf(r, in) /\ req[r].pc \in {"handle", "rerun"}
      BY <2>6 DEF Commit, Write
    <3>2. CASE Bound(r, in) \/ Unbound(r, in)
      <4>1. reply' = Reply(req[r].op, {req[r].arg}, IF req[r].op = "put"
                             THEN [x \in {req[r].arg} |-> users'[At(r)][x]] ELSE << >>)
        BY <2>6, <3>2 DEF Commit, Answer, Bound, Unbound
      <4> QED
        BY <3>1, <3>2, <4>1, MappingWrite
    <3>3. CASE Created(r, in) \/ RevokedBy(r, in)
      <4>1. reply'.op = req[r].op
        BY <2>6 DEF Commit, Answer, Reply
      <4> QED
        BY <3>3, <4>1, MappingKeys
    <3> QED
      BY <3>1, <3>2, <3>3 DEF WriteOf
  <2>7. ASSUME NEW in \in Inputs(req[r]), WriteOf(r, in), req[r].pc \in {"handle", "rerun"},
               reply' = Quiet
        PROVE  Mapping!Next
    BY <2>7, MappingWrite, MappingKeys DEF WriteOf
  <2>8. CASE Unacked(r)
    BY <2>7, <2>8 DEF Unacked
  <2>9. CASE Kill(r)
    <3>1. reply' = Quiet
      BY <2>9 DEF Kill, Answer
    <3>2. CASE Write(r)
      BY <2>7, <3>1, <3>2 DEF Write
    <3>3. CASE UNCHANGED users
      BY <1>1, <3>1, <3>3
    <3> QED
      BY <2>9, <3>2, <3>3 DEF Kill
  <2> QED
    BY <1>2, <2>1, <2>2, <2>3, <2>4, <2>5, <2>6, <2>8, <2>9 DEF Step
<1>3. CASE \E r \in Requests, c \in Containers : Arrive(r, c)
  BY <1>1, <1>3 DEF Arrive
<1>4. CASE \E c \in Containers : Bootstrap(c)
  BY <1>1, <1>4 DEF Bootstrap
<1>5. CASE \E c \in Containers : Recycle(c)
  <2>1. users'["ydb"] = users["ydb"] /\ reply' = Quiet
    BY <1>5, Constants DEF Recycle, IInv, TablesOK
  <2> QED
    BY <1>1, <2>1
<1>6. CASE (\E r \in Requests : RunCreate(r) \/ RunRevoke(r)) \/ Tick
  BY <1>1, <1>6 DEF RunCreate, RunRevoke, Tick
<1>7. CASE UNCHANGED vars
  BY <1>7 DEF vars, MappingReply
<1> QED
  BY <1>2, <1>3, <1>4, <1>5, <1>6, <1>7 DEF Next

\* With the API key check enforced, the containers together keep one mapping:
\* one that fell back to its own memory lets no request in.
THEOREM MappingShared == ASSUME Enforce PROVE Spec => ImplementsMapping
<1> QED
  BY MappingInit, MappingStep, Inductive, PTL DEF Spec, ImplementsMapping, Mapping!Spec
=============================================================================
