------------------------------- MODULE Service -------------------------------
(***************************************************************************)
(* The deployed function as a whole (terraform/function/handler.go and     *)
(* Server.ServeHTTP): containers that come and go, each choosing its store *)
(* once, the HTTPS gate, the routes, the API key gate with the scope each  *)
(* route requires, and the operator's CLI beside them.  What a handler     *)
(* does after the gate is one step here, and one more for each rerun of    *)
(* its write by the driver; Users and KeyAdmin take handlers apart,        *)
(* Authenticate the S21 token.  A nickname stands for its lower case,      *)
(* which both stores compare.                                              *)
(***************************************************************************)
EXTENDS KeyTable, Functions

CONSTANTS
  Containers,
  Requests,    \* HTTP requests and CLI commands
  Names,       \* names of keys, in a request's path or body or at the CLI
  Shape,       \* the characters (by kind) and the length of each name
  FirstName,   \* the name of the key minted first, at the CLI
  Owners,      \* telegram ids that own keys
  ScopeSets,   \* the scope sets keys are minted with
  Tids,        \* telegram ids, all within 63 bits
  HugeTid,     \* a number beyond them
  Nicks,
  Enforce,     \* API_KEY_ENFORCE: FALSE is dry-run mode
  ReqTime,     \* execution_timeout
  MaxKeys,     \* bound: keys minted, the first included
  MaxNow       \* bound: the clock stops here

ASSUME NamesAssumption ==
  /\ FirstName \in Names
  /\ Shape \in [Names -> [chars : SUBSET {"A-Z", "a-z", "0-9", "_", ".", "-", "other"}, len : Nat]]
ASSUME ScopesAssumption ==
  ScopeSets \subseteq {{"read"}, {"read", "write"}, {"read", "write", "admin"}}
ASSUME IdsAssumption == HugeTid \notin Tids /\ NoOwner \notin Owners
ASSUME PlacesAssumption == Containers \cap {"ydb", "cli", "none"} = {}
ASSUME EnforceAssumption == Enforce \in BOOLEAN
ASSUME BoundsAssumption == ReqTime \in Nat /\ MaxKeys \in Nat \ {0} /\ MaxNow \in Nat

VARIABLES
  now,
  store,   \* each container's store: "none" before bootstrap, "ydb" or "mem"
  keys,    \* api_keys of the database and of each container's memory
  users,   \* the bindings of the database and of each container's memory
  ended,   \* history: when a revocation of each key of the database last committed
  req,     \* each request or command under way
  reply    \* what the last step answered

vars == <<now, store, keys, users, ended, req, reply>>

Places == {"ydb"} \cup Containers

NoKey == 0
Keys == 1..MaxKeys

Row(n, s, o) == [name |-> n, scopes |-> s, owner |-> o, revokedAt |-> Never]

\* The answer of a request that is refused or fails, and of other steps.
Quiet == [op |-> "none", asked |-> {}, rows |-> << >>]

\* What a write is given: the nickname of a PUT; the name, scopes, owner and
\* key of a creation; the name, owner and time of a revocation.
NoInput == [nick |-> "none", name |-> "none", scopes |-> {}, owner |-> NoOwner,
            new |-> NoKey, stamp |-> 0]

Idle == [pc |-> "idle", c |-> "none", at |-> 0, op |-> "none", arg |-> "none",
         key |-> NoKey, in |-> NoInput]

Init ==
  /\ now = 0
  /\ store = [c \in Containers |-> "none"]
  /\ keys = [p \in Places |->
               IF p = "ydb"
               THEN [k \in {1} |-> Row(FirstName, {"read", "write", "admin"}, NoOwner)]
               ELSE << >>]
  /\ users = [p \in Places |-> << >>]
  /\ ended = [k \in Keys |-> 0]
  /\ req = [r \in Requests |-> Idle]
  /\ reply = Quiet

Active(r) == req[r].pc # "idle"

\* Where the container that serves r keeps its data; a command works on the
\* database itself.
At(r) == IF req[r].c = "cli" \/ store[req[r].c] = "ydb" THEN "ydb" ELSE req[r].c

Answer(r, a) == req' = [req EXCEPT ![r] = Idle] /\ reply' = a

Reply(op, asked, rows) == [op |-> op, asked |-> asked, rows |-> rows]

\* API Gateway hands an event to some container.
Arrive(r, c) ==
  /\ ~Active(r)
  /\ req' = [req EXCEPT ![r] = [Idle EXCEPT !.pc = "boot", !.c = c, !.at = now]]
  /\ reply' = Quiet
  /\ UNCHANGED <<now, store, keys, users, ended>>

\* A faulty Bootstrap, without initOnce: a request that waited while another
\* one bootstrapped does it again.
BootstrapAgain(c) ==
  /\ \E r \in Requests : req[r].pc = "boot" /\ req[r].c = c
  /\ store' \in {[store EXCEPT ![c] = s] : s \in {"ydb", "mem"}}
  /\ reply' = Quiet
  /\ UNCHANGED <<now, keys, users, ended, req>>

\* initOnce.Do(bootstrap): the database if it is configured and reachable,
\* else the container's own memory, which is empty.
Bootstrap(c) ==
  /\ store[c] = "none"
  /\ \E r \in Requests : req[r].pc = "boot" /\ req[r].c = c
  /\ store' \in {[store EXCEPT ![c] = s] : s \in {"ydb", "mem"}}
  /\ reply' = Quiet
  /\ UNCHANGED <<now, keys, users, ended, req>>

\* The paths and their variable part.
Paths ==
  [kind : {"health", "batch", "keys", "by_nickname", "other"}, arg : {"none"}]
    \cup [kind : {"by_telegram"}, arg : Tids \cup {HugeTid}]
    \cup [kind : {"key"}, arg : Names]

Methods == {"GET", "POST", "PUT", "DELETE"}

\* A faulty MatchByTelegram: the error of ParseInt is not looked at.
MatchByTelegramAny(p) == p.kind = "by_telegram"

\* ParseInt fails on a number beyond 63 bits.
MatchByTelegram(p) == p.kind = "by_telegram" /\ p.arg \in Tids

MatchByNickname(p) == p.kind = "by_nickname"

\* reAdminKey: ^/admin/keys/([A-Za-z0-9_.-]+)$
MatchAdminKey(p) ==
  /\ p.kind = "key"
  /\ Shape[p.arg].chars \subseteq {"A-Z", "a-z", "0-9", "_", ".", "-"}
  /\ Shape[p.arg].len >= 1

\* The handlers: kind of path, method, and what a success answers.
Handlers ==
  {<<"batch", "POST", "found">>, <<"by_telegram", "GET", "found">>, <<"by_nickname", "GET", "holders">>,
   <<"by_telegram", "PUT", "put">>, <<"by_telegram", "DELETE", "deleted">>,
   <<"keys", "POST", "created">>, <<"keys", "GET", "listed">>, <<"key", "DELETE", "revoked">>}

Effects == {h[3] : h \in Handlers}

Routes(p, m, op) ==
  /\ p.kind \in {"batch", "keys"} \/ MatchByTelegram(p) \/ MatchByNickname(p) \/ MatchAdminKey(p)
  /\ <<p.kind, m, op>> \in Handlers

\* Where ServeHTTP can take a request: the handler and its argument.
Targets ==
  {t \in [op : Effects, arg : {p.arg : p \in Paths}] :
     \E p \in Paths, m \in Methods : t.arg = p.arg /\ Routes(p, m, t.op)}

Required(op) == IF op \in {"found", "holders"} THEN "read" ELSE "write"

\* A faulty KeyGood: the scope of the key is not looked at.
KeyGoodUnscoped(row, scope) == IsActive(row)

KeyGood(row, scope) == IsActive(row) /\ scope \in row.scopes

\* authenticateAPIKey lets r through to its handler, with the row of the key
\* it presents, read from the container's own store; in dry-run mode, where a
\* refusal lets it through as well, without a row.
Gate(r, t) ==
  \E k \in Keys \cup {NoKey} :
    LET tb == keys[At(r)]
        good == k \in DOMAIN tb /\ KeyGood(tb[k], Required(t.op))
    IN  /\ good \/ ~Enforce
        /\ req' = [req EXCEPT ![r].pc = "handle", ![r].op = t.op, ![r].arg = t.arg,
                              ![r].key = IF good THEN k ELSE NoKey]
        /\ reply' = Quiet

\* ServeHTTP.  The first disjunct: no HTTPS, /health, a path or a method
\* nothing handles, a refusal at the gate, or no answer from the database.
ServeHTTP(r) ==
  /\ req[r].pc = "boot"
  /\ store[req[r].c] # "none"
  /\ \/ Answer(r, Quiet)
     \/ \E t \in Targets : Gate(r, t)
  /\ UNCHANGED <<now, store, keys, users, ended>>

\* The operator's commands, with no gate before them and no time limit.
RunCreate(r) ==
  /\ ~Active(r)
  /\ req' = [req EXCEPT ![r] = [Idle EXCEPT !.pc = "handle", !.c = "cli", !.op = "created"]]
  /\ reply' = Quiet
  /\ UNCHANGED <<now, store, keys, users, ended>>

RunRevoke(r) ==
  /\ ~Active(r)
  /\ \E n \in Names :
       req' = [req EXCEPT ![r] = [Idle EXCEPT !.pc = "handle", !.c = "cli", !.at = now,
                                              !.op = "revoked", !.arg = n]]
  /\ reply' = Quiet
  /\ UNCHANGED <<now, store, keys, users, ended>>

\* authenticate refuses or fails, the body or the query does not parse, the
\* nickname is not S21's, the name or the scopes of a key are not valid, the
\* rate limit is hit, the key is taken or not there, the admin scope is
\* missing (without a row that check panics), or a database call fails.
Deny(r) ==
  /\ req[r].pc \in {"handle", "rerun"}
  /\ Answer(r, Quiet)
  /\ UNCHANGED <<now, store, keys, users, ended>>

\* GET /users/by_telegram/<tid>, and POST /users/lookup_telegram_batch, whose
\* body names the ids.
Lookup(r) ==
  /\ req[r].pc = "handle" /\ req[r].op = "found"
  /\ \E ids \in IF req[r].arg \in Tids THEN {{req[r].arg}} ELSE SUBSET Tids :
       Answer(r, Reply("found", ids, Restrict(users[At(r)], ids \cap DOMAIN users[At(r)])))
  /\ UNCHANGED <<now, store, keys, users, ended>>

\* GET /users/by_nickname/<nick>.
ListByNickname(r) ==
  /\ req[r].pc = "handle" /\ req[r].op = "holders"
  /\ \E n \in Nicks :
       LET f == users[At(r)]
       IN  Answer(r, Reply("holders", {n}, Restrict(f, {t \in DOMAIN f : f[t] = n})))
  /\ UNCHANGED <<now, store, keys, users, ended>>

WriteUsers(r, f) == users' = [users EXCEPT ![At(r)] = f] /\ UNCHANGED <<keys, ended>>
WriteKeys(r, f) == keys' = [keys EXCEPT ![At(r)] = f] /\ UNCHANGED users

\* A faulty ValidKeyName: only the length is looked at.
ValidKeyNameAny(n) == Shape[n].len \in 1..64

\* validKeyName: ^[A-Za-z0-9_.-]{1,64}$
ValidKeyName(n) ==
  /\ Shape[n].chars \subseteq {"A-Z", "a-z", "0-9", "_", ".", "-"}
  /\ Shape[n].len \in 1..64

\* 32 random bytes nobody has.
FreshKeys == {k \in Keys : \A p \in Places : k \notin DOMAIN keys[p]}

Bindings == {[NoInput EXCEPT !.nick = n] : n \in Nicks}

\* A name is checked over HTTP, not at the CLI.
Creations(q) ==
  [nick : {"none"}, name : {n \in Names : q.c = "cli" \/ ValidKeyName(n)}, scopes : ScopeSets,
   owner : Owners \cup {NoOwner}, new : FreshKeys, stamp : {0}]

\* A revocation is dated before its transaction: at some moment since q began.
\* Without created_by the admin scope is asked for, but created_by=0 filters
\* nothing either and asks for no scope, so that any owner may be given over
\* HTTP; the CLI gives none.
Revocations(q) ==
  [nick : {"none"}, name : {q.arg}, scopes : {{}},
   owner : {NoOwner} \cup (IF q.c = "cli" THEN {} ELSE Owners), new : {NoKey}, stamp : q.at..now]

\* What q may give its write; a rerun gives the same again.
Inputs(q) ==
  CASE q.pc = "rerun" -> {q.in}
    [] q.pc # "rerun" /\ q.op = "put" -> Bindings
    [] q.pc # "rerun" /\ q.op = "created" -> Creations(q)
    [] q.pc # "rerun" /\ q.op = "revoked" -> Revocations(q)
    [] OTHER -> {NoInput}

\* The write of PUT /users/by_telegram/<tid>.
Bound(r, in) ==
  LET t == req[r].arg
      f == users[At(r)]
  IN  /\ req[r].op = "put"
      /\ WriteUsers(r, [x \in DOMAIN f \cup {t} |-> IF x = t THEN in.nick ELSE f[x]])

\* The write of DELETE /users/by_telegram/<tid>; a rerun does not look again
\* whether there is a row.
Unbound(r, in) ==
  LET t == req[r].arg
      f == users[At(r)]
  IN  /\ req[r].op = "deleted"
      /\ t \in DOMAIN f \/ req[r].pc = "rerun"
      /\ WriteUsers(r, Restrict(f, DOMAIN f \ {t}))

\* The write of POST /admin/keys and of create-key.
Created(r, in) ==
  LET row == Row(in.name, in.scopes, in.owner)
  IN  /\ req[r].op = "created"
      /\ InsertResult(keys[At(r)], row) = "created"
      /\ WriteKeys(r, Inserted(keys[At(r)], in.new, row))
      /\ UNCHANGED ended

\* The write of DELETE /admin/keys/<name> and of revoke-key.
RevokedBy(r, in) ==
  /\ req[r].op = "revoked"
  /\ \E k \in Revocable(keys[At(r)], in.name, in.owner) :
       /\ WriteKeys(r, Revoked(keys[At(r)], k, in.stamp))
       /\ ended' = IF At(r) = "ydb" THEN [ended EXCEPT ![k] = now] ELSE ended

WriteOf(r, in) == Bound(r, in) \/ Unbound(r, in) \/ Created(r, in) \/ RevokedBy(r, in)

Write(r) == req[r].pc \in {"handle", "rerun"} /\ \E in \in Inputs(req[r]) : WriteOf(r, in)

\* The transaction commits, its acknowledgement is lost, and the driver runs
\* the closure again (doTx, WithIdempotent): any number of times.
Unacked(r) ==
  /\ req[r].pc \in {"handle", "rerun"}
  /\ At(r) = "ydb"
  /\ \E in \in Inputs(req[r]) :
       WriteOf(r, in) /\ req' = [req EXCEPT ![r].pc = "rerun", ![r].in = in]
  /\ reply' = Quiet
  /\ UNCHANGED <<now, store>>

\* A write is done and answered.
Commit(r) ==
  /\ Write(r)
  /\ Answer(r, Reply(req[r].op, IF req[r].op \in {"put", "deleted"} THEN {req[r].arg} ELSE {},
                     IF req[r].op = "put" THEN [x \in {req[r].arg} |-> users'[At(r)][x]] ELSE << >>))
  /\ UNCHANGED <<now, store>>

DeleteMissing(r) ==
  /\ req[r].pc = "handle" /\ req[r].op = "deleted"
  /\ req[r].arg \notin DOMAIN users[At(r)]
  /\ Answer(r, Reply("not_found", {req[r].arg}, << >>))
  /\ UNCHANGED <<now, store, keys, users, ended>>

\* GET /admin/keys: all rows with the admin scope, else those of created_by.
ListKeys(r) ==
  /\ req[r].pc = "handle" /\ req[r].op = "listed"
  /\ Answer(r, Reply("listed", {}, << >>))
  /\ UNCHANGED <<now, store, keys, users, ended>>

\* The request is cut off; a write under way may be done all the same.
Kill(r) ==
  /\ Active(r)
  /\ Answer(r, Quiet)
  /\ Write(r) \/ UNCHANGED <<keys, users, ended>>
  /\ UNCHANGED <<now, store>>

\* The platform recycles an idle container: its memory is gone.
Recycle(c) ==
  /\ store[c] # "none"
  /\ \A r \in Requests : Active(r) => req[r].c # c
  /\ store' = [store EXCEPT ![c] = "none"]
  /\ keys' = [keys EXCEPT ![c] = << >>]
  /\ users' = [users EXCEPT ![c] = << >>]
  /\ reply' = Quiet
  /\ UNCHANGED <<now, ended, req>>

\* A faulty Tick: no request is ever cut off.
TickUnlimited ==
  /\ now < MaxNow
  /\ now' = now + 1
  /\ reply' = Quiet
  /\ UNCHANGED <<store, keys, users, ended, req>>

\* Time passes, but not past a request's limit.
Tick ==
  /\ now < MaxNow
  /\ \A r \in Requests : Active(r) /\ req[r].c # "cli" => now < req[r].at + ReqTime
  /\ now' = now + 1
  /\ reply' = Quiet
  /\ UNCHANGED <<store, keys, users, ended, req>>

Step(r) ==
  \/ ServeHTTP(r) \/ Deny(r) \/ Lookup(r) \/ ListByNickname(r)
  \/ Commit(r) \/ Unacked(r) \/ DeleteMissing(r) \/ ListKeys(r) \/ Kill(r)

Next ==
  \/ \E r \in Requests :
       Step(r) \/ RunCreate(r) \/ RunRevoke(r) \/ \E c \in Containers : Arrive(r, c)
  \/ \E c \in Containers : Bootstrap(c) \/ Recycle(c)
  \/ Tick

Spec == Init /\ [][Next]_vars
-----------------------------------------------------------------------------
Scopes == SUBSET {"read", "write", "admin"}

RowType ==
  [name : Names, scopes : Scopes, owner : Owners \cup {NoOwner}, revokedAt : Nat \cup {Never}]

InputType ==
  [nick : Nicks \cup {"none"}, name : Names \cup {"none"}, scopes : Scopes,
   owner : Owners \cup {NoOwner}, new : Keys \cup {NoKey}, stamp : Nat]

RequestType ==
  [pc : {"idle", "boot", "handle", "rerun"}, c : Containers \cup {"none", "cli"}, at : Nat,
   op : Effects \cup {"none"}, arg : Tids \cup Names \cup {"none"},
   key : Keys \cup {NoKey}, in : InputType]

\* Types, and that a path argument reaches its handler with the type of that
\* handler: an id beyond 63 bits never does.
TypeOK ==
  /\ now \in Nat
  /\ store \in [Containers -> {"none", "ydb", "mem"}]
  /\ DOMAIN keys = Places /\ DOMAIN users = Places
  /\ \A p \in Places :
       /\ DOMAIN keys[p] \subseteq Keys
       /\ \A k \in DOMAIN keys[p] : keys[p][k] \in RowType
       /\ DOMAIN users[p] \subseteq Tids
       /\ \A t \in DOMAIN users[p] : users[p][t] \in Nicks
  /\ ended \in [Keys -> Nat]
  /\ req \in [Requests -> RequestType]
  /\ \A r \in Requests :
       /\ Active(r) => req[r].c # "none"
       /\ req[r].pc \in {"handle", "rerun"} =>
            /\ req[r].op \in Effects
            /\ req[r].op \in {"put", "deleted"} => req[r].arg \in Tids
  /\ reply.op \in Effects \cup {"none", "not_found"}

\* What the step answers about bindings.
MappingReply == IF reply.op \in {"created", "listed", "revoked"} THEN Quiet ELSE reply

Mapping == INSTANCE SharedMapping WITH mapping <- users["ydb"], reply <- MappingReply

\* "Owns the canonical (telegram_id, nickname) mapping shared across all
\* S21-related Telegram bots": whatever container serves a request, and
\* whatever it found at bootstrap, clients see one mapping.  With Enforce it
\* holds because a container on its own memory has no key to let anybody in.
ImplementsMapping == Mapping!Spec

\* A request of a client has an effect in this step: a write, or an answer that
\* tells something.
Effective(r) ==
  /\ Active(r) /\ req[r].c # "cli"
  /\ \/ req'[r] = Idle /\ reply' # Quiet
     \/ Write(r)

\* What a request reads or writes it has earned with a key of the database
\* that has the scope of its route.  The row was read before the rest of the
\* request, so the key may be revoked by now, but for no longer than a request
\* lives, counted from the commit of the revocation: the date in its row is
\* older (server.go:736), at the CLI by any time (main.go:181).
EffectsEarned ==
  [][\A r \in Requests : Effective(r) =>
       LET k == req[r].key IN
       /\ k \in DOMAIN keys["ydb"]
       /\ Required(req[r].op) \in keys["ydb"][k].scopes
       /\ IsActive(keys["ydb"][k]) \/ now <= ended[k] + ReqTime]_vars

\* validKeyName (server.go:596) "enforces the same character set as the URL
\* regex so a freshly-minted key can be revoked through DELETE": the DELETE
\* route takes the name of every key minted over HTTP, and the name finds that
\* key and no other as long as it is active, whatever is minted, rerun and
\* revoked beside it.
MintedOverHttpRevocable ==
  [][\A p \in Places : \A k \in ActiveKeys(keys'[p]) :
       /\ Revocable(keys'[p], keys'[p][k].name, NoOwner) = {k}
       /\ (\E r \in Requests : Write(r) /\ req[r].c # "cli") /\ k \notin DOMAIN keys[p] =>
            Routes([kind |-> "key", arg |-> keys'[p][k].name], "DELETE", "revoked")]_vars
=============================================================================
