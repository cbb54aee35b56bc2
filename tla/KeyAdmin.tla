------------------------------ MODULE KeyAdmin -------------------------------
(***************************************************************************)
(* Issuing, listing and revoking API keys: POST, GET and DELETE on         *)
(* /admin/keys (pkg/api/server.go) and the create-key and revoke-key       *)
(* commands (cmd/admin), run concurrently over one api_keys table.  Each   *)
(* database call is a step; the driver reruns a transaction whose commit   *)
(* went through unacknowledged (ydbstore.doTx, WithIdempotent).            *)
(***************************************************************************)
EXTENDS KeyTable

CONSTANTS
  Requests,
  Names,        \* names that match validKeyName and the revoke URL
  FirstName,    \* the name of the key minted first, by the operator
  OddNames,     \* other names an operator may type at the CLI
  Owners,       \* telegram ids of users
  CliOwners,    \* values of --created-by
  Enforce,      \* API_KEY_ENFORCE: FALSE is dry-run mode
  MintScopes,   \* the canonical scope sets requests ask for
  RateMax,      \* keyCreateRateLimitMax
  RateWindow,   \* keyCreateRateLimitWindow
  LostAcks,     \* bound: commits whose acknowledgement is lost
  MaxKeys,      \* bound: keys minted, the first included
  MaxNow        \* bound: the clock stops here

ASSUME NamesAssumption == Names \cap OddNames = {} /\ FirstName \in Names
ASSUME OwnersAssumption ==
  NoOwner \notin Owners /\ CliOwners \subseteq Owners \cup {NoOwner}
ASSUME EnforceAssumption == Enforce \in BOOLEAN
ASSUME RateAssumption == RateMax \in Nat \ {0} /\ RateWindow \in Nat
ASSUME BoundsAssumption == LostAcks \in Nat /\ MaxKeys \in Nat \ {0} /\ MaxNow \in Nat

VARIABLES
  now,
  table,    \* api_keys
  minted,   \* how many keys were generated: they are 1..minted
  lost,     \* acknowledgements lost so far
  req,      \* each request or command under way
  said      \* the answer the last step gave, if it gave one, and the keys changed

vars == <<now, table, minted, lost, req, said>>

NoKey == 0
Keys == 1..MaxKeys

\* The canonical scope sets a key may hold (allowedScopes, canonicaliseScopes).
ReadScopes == {"read"}
WriteScopes == {"read", "write"}
AdminScopes == {"read", "write", "admin"}
AllowedScopes == {ReadScopes, WriteScopes, AdminScopes}

ASSUME MintScopesAssumption == MintScopes \subseteq AllowedScopes

\* A request under way: the key row its gate returned, if any (held); the key
\* name and scopes and the creator it was given; the key it mints and the time
\* it stamps; last, the history: the keys whose row it changed.
Blank == [pc |-> "idle", op |-> "none", held |-> {}, name |-> "none",
          scopes |-> ReadScopes, owner |-> NoOwner, new |-> NoKey, at |-> 0, did |-> {}]

\* What a step that answers nothing says.
Silent == [answer |-> "none", did |-> {}]

\* The operator's first key, minted at the CLI, is in the table.
FirstRow == [name |-> FirstName, scopes |-> AdminScopes, owner |-> NoOwner,
                createdAt |-> 0, revokedAt |-> Never]

Init ==
  /\ now = 0
  /\ minted = 1
  /\ table = [k \in {1} |-> FirstRow]
  /\ lost = 0
  /\ req = [r \in Requests |-> Blank]
  /\ said = Silent

Active(r) == req[r].pc # "idle"

Goto(r, l) == req' = [req EXCEPT ![r].pc = l] /\ said' = Silent

\* The request answers a, having changed the rows of the keys in did.
AnswerDone(r, a, did) ==
  /\ req' = [req EXCEPT ![r] = Blank]
  /\ said' = [answer |-> a, did |-> did]

Answer(r, a) == AnswerDone(r, a, req[r].did)

\* authenticateAPIKey with required scope "write", on whatever X-Api-Key the
\* request presents: the row it returns, or the refusal it answers (500 if the
\* row cannot be read); in dry-run mode every refusal is no row and no error.
KeyUsable(k) == k \in DOMAIN table /\ IsActive(table[k]) /\ "write" \in table[k].scopes

\* A faulty Gate: a refusal lets the request through without a row, as in
\* dry-run mode.
GateNeverRefuses(r, op) ==
  /\ ~Active(r)
  /\ \E k \in Keys \cup {NoKey} :
       req' = [req EXCEPT ![r] =
                 [Blank EXCEPT !.pc = "s21", !.op = op,
                               !.held = IF KeyUsable(k) THEN {table[k].scopes} ELSE {}]]
  /\ said' = Silent
  /\ UNCHANGED <<now, table, minted, lost>>

Gate(r, op) ==
  /\ ~Active(r)
  /\ \/ Answer(r, "internal_error")
     \/ \E k \in Keys \cup {NoKey} :
          IF ~KeyUsable(k) /\ Enforce
          THEN Answer(r, "unauthorized")
          ELSE /\ req' = [req EXCEPT ![r] =
                    [Blank EXCEPT !.pc = "s21", !.op = op,
                                  !.held = IF KeyUsable(k) THEN {table[k].scopes} ELSE {}]]
               /\ said' = Silent
  /\ UNCHANGED <<now, table, minted, lost>>

\* authenticate (module Authenticate) refuses or fails.
S21Denies(r) ==
  /\ req[r].pc = "s21"
  /\ \E a \in {"unauthorized", "internal_error"} : Answer(r, a)
  /\ UNCHANGED <<now, table, minted, lost>>

\* A faulty ReadCreate: an empty name passes validation.
ReadCreateUnnamed(r) ==
  /\ req[r].pc = "s21" /\ req[r].op = "create"
  /\ \E n \in Names \cup {"none"}, s \in MintScopes, o \in Owners \cup {NoOwner} :
       req' = [req EXCEPT ![r] =
                 [Blank EXCEPT !.pc = IF o = NoOwner THEN "mint" ELSE "count",
                               !.op = "create", !.name = n, !.scopes = s, !.owner = o]]
  /\ said' = Silent
  /\ UNCHANGED <<now, table, minted, lost>>

\* authenticate succeeds and the body of POST /admin/keys is decoded: it fails
\* validation, or gives the name, the scopes and the creator; created_by = 0
\* skips the rate limit.
ReadCreate(r) ==
  /\ req[r].pc = "s21" /\ req[r].op = "create"
  /\ \/ Answer(r, "bad_request")
     \/ \E n \in Names, s \in MintScopes, o \in Owners \cup {NoOwner} :
          /\ req' = [req EXCEPT ![r] =
               [Blank EXCEPT !.pc = IF o = NoOwner THEN "mint" ELSE "count",
                             !.op = "create", !.name = n, !.scopes = s, !.owner = o]]
          /\ said' = Silent
  /\ UNCHANGED <<now, table, minted, lost>>

\* handleRevokeKey and handleListKeys ask the row for the admin scope when
\* created_by is absent; without a row the method call has no receiver.
AdminCheck(held) ==
  IF held = {} THEN "panic"
  ELSE IF \A s \in held : "admin" \in s THEN "ok" ELSE "forbidden"

\* DELETE /admin/keys/<name>, then GET /admin/keys: created_by absent, no
\* integer, or one (0 filters nothing).
ReadQuery(r) ==
  /\ req[r].pc = "s21" /\ req[r].op \in {"revoke", "list"}
  /\ \/ Answer(r, "bad_request")
     \/ AdminCheck(req[r].held) # "ok" /\ Answer(r, AdminCheck(req[r].held))
     \/ \E n \in Names, o \in Owners \cup {NoOwner}, absent \in BOOLEAN :
          /\ absent => o = NoOwner /\ AdminCheck(req[r].held) = "ok"
          /\ req' = [req EXCEPT ![r] =
               [Blank EXCEPT !.pc = req[r].op, !.op = req[r].op, !.name = n,
                             !.owner = o, !.at = now]]
          /\ said' = Silent
  /\ UNCHANGED <<now, table, minted, lost>>

\* The operator's commands go straight to the table: no gate, no rate limit,
\* no check of the name against validKeyName.
RunCreate(r) ==
  /\ ~Active(r)
  /\ \E n \in Names \cup OddNames, s \in MintScopes, o \in CliOwners :
       req' = [req EXCEPT ![r] = [Blank EXCEPT !.pc = "mint", !.op = "create",
                                               !.name = n, !.scopes = s, !.owner = o]]
  /\ said' = Silent /\ UNCHANGED <<now, table, minted, lost>>

RunRevoke(r) ==
  /\ ~Active(r)
  /\ \E n \in Names \cup OddNames :
       req' = [req EXCEPT ![r] = [Blank EXCEPT !.pc = "revoke", !.op = "revoke",
                                               !.name = n, !.at = now]]
  /\ said' = Silent /\ UNCHANGED <<now, table, minted, lost>>

\* A faulty Count: one creation too many passes.
CountOffByOne(r) ==
  /\ req[r].pc = "count"
  /\ IF CountByCreatorSince(table, req[r].owner, now - RateWindow) > RateMax
     THEN Answer(r, "rate_limited")
     ELSE Goto(r, "mint")
  /\ UNCHANGED <<now, table, minted, lost>>

\* The rate limit: rows of this creator in the window that ends now.
Count(r) ==
  /\ req[r].pc = "count"
  /\ IF CountByCreatorSince(table, req[r].owner, now - RateWindow) >= RateMax
     THEN Answer(r, "rate_limited")
     ELSE Goto(r, "mint")
  /\ UNCHANGED <<now, table, minted, lost>>

\* A faulty Mint: the key handed out is the last one again.
MintRepeated(r) ==
  /\ req[r].pc = "mint"
  /\ minted < MaxKeys
  /\ minted' = minted + 1
  /\ req' = [req EXCEPT ![r].pc = "insert", ![r].new = minted, ![r].at = now]
  /\ said' = Silent /\ UNCHANGED <<now, table, lost>>

\* generateAPIKey, and the row with CreatedAt = s.Now().
Mint(r) ==
  /\ req[r].pc = "mint"
  /\ minted < MaxKeys
  /\ minted' = minted + 1
  /\ req' = [req EXCEPT ![r].pc = "insert", ![r].new = minted + 1, ![r].at = now]
  /\ said' = Silent /\ UNCHANGED <<now, table, lost>>

RowOf(q) == [name |-> q.name, scopes |-> q.scopes, owner |-> q.owner,
             createdAt |-> q.at, revokedAt |-> Never]

CanInsert(r) == req[r].pc = "insert" /\ InsertResult(table, RowOf(req[r])) = "created"

InsertRow(r) == table' = Inserted(table, req[r].new, RowOf(req[r]))

\* The transaction commits and the plaintext is shown.
Insert(r) ==
  /\ CanInsert(r)
  /\ InsertRow(r)
  /\ AnswerDone(r, "created", req[r].did \cup {req[r].new})
  /\ UNCHANGED <<now, minted, lost>>

InsertConflict(r) ==
  /\ req[r].pc = "insert"
  /\ InsertResult(table, RowOf(req[r])) # "created"
  /\ Answer(r, InsertResult(table, RowOf(req[r])))
  /\ UNCHANGED <<now, table, minted, lost>>

\* The transaction commits, the acknowledgement is lost, the driver runs the
\* closure again.
InsertUnacked(r) ==
  /\ CanInsert(r)
  /\ lost < LostAcks
  /\ lost' = lost + 1
  /\ InsertRow(r)
  /\ req' = [req EXCEPT ![r].did = @ \cup {req[r].new}]
  /\ said' = Silent /\ UNCHANGED <<now, minted>>

RevokeTargets(r) == Revocable(table, req[r].name, req[r].owner)

Revoke(r) ==
  /\ req[r].pc = "revoke"
  /\ \E k \in RevokeTargets(r) :
       /\ table' = Revoked(table, k, req[r].at)
       /\ AnswerDone(r, "revoked", req[r].did \cup {k})
  /\ UNCHANGED <<now, minted, lost>>

\* A faulty RevokeNotFound: revoking nothing is reported as done.
RevokeNothingDone(r) ==
  /\ req[r].pc = "revoke"
  /\ RevokeTargets(r) = {}
  /\ Answer(r, "revoked")
  /\ UNCHANGED <<now, table, minted, lost>>

RevokeNotFound(r) ==
  /\ req[r].pc = "revoke"
  /\ RevokeTargets(r) = {}
  /\ Answer(r, "not_found")
  /\ UNCHANGED <<now, table, minted, lost>>

RevokeUnacked(r) ==
  /\ req[r].pc = "revoke"
  /\ lost < LostAcks
  /\ lost' = lost + 1
  /\ \E k \in RevokeTargets(r) :
       /\ table' = Revoked(table, k, req[r].at)
       /\ req' = [req EXCEPT ![r].did = @ \cup {k}]
  /\ said' = Silent /\ UNCHANGED <<now, minted>>

List(r) ==
  /\ req[r].pc = "list"
  /\ Answer(r, "listed")
  /\ UNCHANGED <<now, table, minted, lost>>

\* A database call or the key generator fails, nothing is written: 500.
StoreError(r) ==
  /\ req[r].pc \in {"count", "mint", "insert", "revoke", "list"}
  /\ Answer(r, "internal_error")
  /\ UNCHANGED <<now, table, minted, lost>>

\* The request is cut off (time limit, container recycled, command killed);
\* a transaction under way may still commit.
Kill(r) ==
  /\ Active(r)
  /\ Answer(r, "killed")
  /\ \/ UNCHANGED table
     \/ CanInsert(r) /\ InsertRow(r)
     \/ req[r].pc = "revoke" /\ \E k \in RevokeTargets(r) : table' = Revoked(table, k, req[r].at)
  /\ UNCHANGED <<now, minted, lost>>

Tick ==
  /\ now < MaxNow
  /\ now' = now + 1
  /\ said' = Silent
  /\ UNCHANGED <<table, minted, lost, req>>

Step(r) ==
  \/ S21Denies(r) \/ ReadCreate(r) \/ ReadQuery(r) \/ Count(r) \/ Mint(r)
  \/ Insert(r) \/ InsertConflict(r) \/ InsertUnacked(r)
  \/ Revoke(r) \/ RevokeNotFound(r) \/ RevokeUnacked(r)
  \/ List(r) \/ StoreError(r)

Start(r) ==
  (\E op \in {"create", "revoke", "list"} : Gate(r, op)) \/ RunCreate(r) \/ RunRevoke(r)

Next == (\E r \in Requests : Start(r) \/ Step(r) \/ Kill(r)) \/ Tick

Spec == Init /\ [][Next]_vars
-----------------------------------------------------------------------------
RowType ==
  [name : Names \cup OddNames, scopes : AllowedScopes, owner : Owners \cup {NoOwner},
   createdAt : Nat, revokedAt : Nat \cup {Never}]

Locations == {"idle", "s21", "count", "mint", "insert", "revoke", "list"}

RequestType ==
  [pc : Locations, op : {"none", "create", "revoke", "list"}, held : SUBSET AllowedScopes,
   name : Names \cup OddNames \cup {"none"}, scopes : AllowedScopes,
   owner : Owners \cup {NoOwner}, new : Nat, at : Nat, did : SUBSET Nat]

Answers == {"none", "unauthorized", "forbidden", "panic", "bad_request", "rate_limited",
            "created", "name_in_use", "creator_has_key", "revoked", "not_found",
            "listed", "internal_error", "killed"}

\* The types of the table, the counters and the requests.
TypeOK ==
  /\ now \in Nat /\ minted \in Nat /\ lost \in Nat
  /\ DOMAIN table \subseteq Nat
  /\ \A k \in DOMAIN table : table[k] \in RowType
  /\ req \in [Requests -> RequestType]
  /\ \A r \in Requests :
       req[r].pc \in {"count", "mint", "insert"} => req[r].name \in Names \cup OddNames
  /\ said \in [answer : Answers, did : SUBSET Nat]

\* "Names are unique among non-revoked rows" and "one non-revoked key per
\* created_by_telegram_id (when non-zero)", whatever creates and revokes
\* interleave and whichever transactions are rerun (Insert).
ActiveKeysDistinct ==
  \A j, k \in ActiveKeys(table) : j # k =>
    /\ table[j].name # table[k].name
    /\ table[j].owner = table[k].owner => table[j].owner = NoOwner

CreatedWithin(by, from, to) ==
  {k \in DOMAIN table : table[k].owner = by /\ from <= table[k].createdAt
                                           /\ table[k].createdAt <= to}

CreationsAtMost(n) ==
  \A by \in Owners : \A k \in DOMAIN table :
    Cardinality(CreatedWithin(by, table[k].createdAt - RateWindow, table[k].createdAt)) <= n

\* "10 creations per rolling hour" (server.go:626-631).
RateLimit == CreationsAtMost(RateMax)

\* What count-then-insert in two transactions does give (server.go:658-684):
\* requests counted before any of them inserted may all insert, so a creator
\* exceeds the limit by at most the other requests in flight.
RateBound == CreationsAtMost(RateMax - 1 + Cardinality(Requests))

\* "Revoke is a soft delete; the row stays in the table for the audit trail":
\* no step takes a row away or changes when it was revoked.
RevokedStaysRevoked ==
  [][\A k \in DOMAIN table :
       /\ k \in DOMAIN table'
       /\ ~IsActive(table[k]) => table'[k] = table[k]]_vars

\* Every answer tells what happened: a 201 stands for one new key, a 204 for
\* one key revoked, every other answer for a table this request left alone
\* (the error switch at server.go:684-694 and server.go:736-745); a request
\* that is cut off answers nothing.
HonestAnswers ==
  IF said.answer \in {"created", "revoked"}
  THEN \E k \in DOMAIN table : said.did = {k} /\ (said.answer = "revoked" => ~IsActive(table[k]))
  ELSE said.did = {}

\* What a lost acknowledgement can do to the table: nothing but give a key back
\* to the creation that is issuing it.  No step takes a row away or changes its
\* name, scopes, creator or date, and a revoked row changes only when the
\* creation that already wrote it runs again (Insert, ydbstore.go:380-402).
TermsKept ==
  [][\A k \in DOMAIN table :
       /\ k \in DOMAIN table'
       /\ table'[k] = [table[k] EXCEPT !.revokedAt = table'[k].revokedAt]
       /\ ~IsActive(table[k]) /\ table'[k] # table[k] =>
            \E r \in Requests : req[r].pc = "insert" /\ req[r].new = k /\ k \in req[r].did]_vars

\* What lost acknowledgements can do to the answers (ydbstore.doTx): a 201
\* still stands for one key, which is in the table; a 204 for one key revoked
\* and at most one more for each lost acknowledgement; any other answer for at
\* most one change per lost acknowledgement.
AnswersAccounted ==
  LET done == IF said.answer \in {"created", "revoked"} THEN 1 ELSE 0 IN
  /\ done <= Cardinality(said.did) /\ Cardinality(said.did) <= lost + done
  /\ said.answer = "created" => \E k \in DOMAIN table : said.did = {k}

\* No request ends in a nil dereference: handleRevokeKey and handleListKeys
\* call HasScope on the row authorize returned (server.go:731, 773).
NoPanic == said.answer # "panic"

Registry == INSTANCE KeyRegistry WITH
  AllNames <- Names \cup OddNames, issued <- Records(table)

\* As long as no acknowledgement is lost, the handlers and the CLI together
\* issue and revoke keys as KeyRegistry says, one at a time and for good.
ImplementsRegistry == Registry!Spec
=============================================================================
