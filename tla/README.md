# Verification of the S21 identity service

TLA+ models of `s21-identity-service`, the model-checking runs over them, and
machine-checked proofs. Paths below are relative to the repository; `TLC` is the
model checker, `TLAPS` the proof system.

The service binds Telegram ids to School-21 nicknames. It runs as a cloud function:
any number of containers, each a Go process that may serve several requests at a
time, over one shared YDB database, with S21 as the authority on passwords and logins.

## 1. Inventory

| component | state it keeps | operations | talks to |
|---|---|---|---|
| `S21TokenCache` (`pkg/api/s21_token_cache.go`) | map token → (login, expiry) and a recency list, one mutex, per container | Get, Put, Invalidate, eviction | the clock |
| authenticate (`server.go:198-260`) | the cache above, the table `s21_token_cache` | validate one X-S21-Token | both layers, S21 |
| API key gate (`server.go:295-360`) | none (reads `api_keys`) | authenticateAPIKey, authorize | api_keys, authenticate |
| key administration (`server.go:637-797`) | none of its own | POST, DELETE, GET on /admin/keys | gate, api_keys |
| admin CLI (`cmd/admin`) | none | create-key, revoke-key, list-keys | api_keys directly |
| api_keys store (`memstore`, `ydbstore`) | the table `api_keys` | Insert, RevokeByName, List, GetByHash, CountByCreatorSince | YDB, reruns by its driver |
| users and nickname cache (both stores, `server.go:364-514`) | `identity_users`, `s21_nickname_cache` | PUT, DELETE, three lookups, resolveNickname | gate, S21 |
| S21 client (`pkg/s21`) | none | Authenticate, LookupByLogin | S21 |
| routing, HTTPS gate (`server.go:67-177`) | none | dispatch | handlers |
| function entrypoint (`terraform/function`) | the chosen store, once per container | bootstrap, Handler | server |

What is hard here, and what correctness means:

* **Token trust.** Three layers, several containers, password rotation at S21, writes
  that arrive late, containers that vanish. A rotated password must stop working in
  bounded time; a request may be accepted only on credentials S21 vouches for, or
  vouched for recently; failures must never be remembered; every request is answered.
* **The LRU cache.** A map and a list that four methods edit separately; they must
  agree, stay within the cap, and evict only the least recently used token.
* **API keys.** Transactions are serializable but are *rerun* by the driver when the
  acknowledgement of a commit is lost, and handlers use several transactions. Active
  keys must have distinct names and owners; a revoked key must stay revoked; the
  answer must tell what happened; the creation limit must hold.
* **Bindings.** `ydbstore` reads in one transaction and writes in another where
  `memstore` does both under one mutex. Creation times must survive updates, a delete
  must be reported by who did it, nobody may be bound to an unconfirmed nickname,
  listings must find what was registered, and a row must not step back in time.
* **The deployment.** Containers come and go, several requests race to bootstrap one,
  and a container that cannot open the database keeps an empty memory store for life.
  Clients must see one mapping all the same; what a request reads or writes must be
  earned with a key of the scope its route requires, though keys are revoked while
  requests are under way; what is minted over HTTP must be revocable over HTTP.

The full list of hazards, each with its line and the properties aimed at it, is in
`PROJECT.json` ("hazards").

## 2. Modules

| module | what it is | code |
|---|---|---|
| `TokenCacheOps` | the cache's methods as operators on a cache value | `s21_token_cache.go` |
| `S21TokenCache` | one cache as a state machine | the same |
| `ExpiringLru` | abstract: who was put when, in what order used | what the cache promises |
| `S21TokenCache_proofs` | theorems about `S21TokenCache` | |
| `Authenticate` | requests in containers, both cache layers, S21, the clock | `server.go:198-260`, `ydbstore.go:508-548`, `s21.go:49-56,90-119` |
| `TokenTrust` | abstract: requests asked and answered, no caches | what authenticate promises |
| `MCAuthenticate` | constants and symmetry for TLC | |
| `Authenticate_proofs` | theorems about `Authenticate` | |
| `KeyTable` | the repository's methods as operators on the table | `ydbstore.go:339-502` |
| `KeyTable_proofs` | lemmas on what a write does to the names of active rows, and shows of itself to `KeyRegistry` | |
| `KeyAdmin` | handlers and CLI commands over the table | `server.go:295-360,637-797`, `cmd/admin/main.go` |
| `KeyRegistry` | abstract: keys issued and revoked, once and for good | what key administration promises |
| `MCKeyAdmin` | scope sets and symmetry for TLC | |
| `KeyAdmin_proofs` | theorems about `KeyAdmin` | |
| `KeyRate_proofs` | theorems about its creation limit | |
| `KeyRerun_proofs` | theorems about lost acknowledgements | |
| `Users` | PUT, DELETE and the listing, call by call, over both stores | `server.go:435-514`, `memstore.go`, `ydbstore.go` (users and nickname cache) |
| `MCUsers` | symmetry for TLC | |
| `Users_proofs` | theorems about `Users` | |
| `Service` | containers, bootstrap, routes, gate, all handlers over all stores, CLI | `terraform/function/handler.go`, `server.go:67-177,295-797`, `cmd/admin/main.go` |
| `SharedMapping` | abstract: one mapping, the same for every client | what the service promises of bindings |
| `MCService` | symmetry for TLC | |
| `Service_proofs` | theorems about `Service` | |

`Authenticate` and `S21TokenCache` share `TokenCacheOps`: what is checked of the cache
alone is the cache authenticate uses. `KeyAdmin` and `Service` share `KeyTable`.
Both `Users` and `Service` implement `SharedMapping`: step by step inside one handler,
and over all containers.
`Service` composes the parts: every request of every container, from the gateway's
event to the answer, over the database and the containers' own memories. It makes one
step of what a handler does after the gate, and one more of each rerun of its write;
`Users`, `KeyAdmin` and `Authenticate` take the handlers apart, one step per call, for
the questions that live between the calls.

### How state and actions correspond to the code

*One action per call that leaves the process.* Between two such calls a handler only
touches its own variables, so the calls are where other requests, other containers,
S21 and the clock get in. A request's local variables are the fields of `req[r]`; a
finished request keeps nothing, or its answer (`Over`).

`Authenticate`. `Arrive` is `authorize` calling `authenticate`; `RefuseMalformed` the
header checks; `MemGet` the fast path (`S21Tokens.Get`, promotion or clearing of an
expired entry included); `DurableFound`/`DurableMissing` the read of the row (a failed
read falls through like a missing one); `Promote`/`RowStale` the freshness and login
test, with the row read *before* and the clock read *after*; `S21Accepts`,
`S21Refuses`, `S21Outage` the live call, an outage going through `MapAuthError`
(`OutageErrors` says which outages there are, `"no_login"` being an answer of S21 without
a login, which `s21.go:92-94` takes for a refusal);
`Remember` stamps the durable expiry and puts the in-memory entry; `DurableWrite` is the
best-effort upsert. `Timeout` is the platform's execution limit, `Recycle` the loss of a
container, `Rotate` a password change. Tokens are model values that stand for the
header and for its hash; `LoginOf` is the part before the colon.

The history variable `goodUntil` records when S21 last ceased to accept each token. It
is read by properties only.

`KeyAdmin`. `Gate` is `authenticateAPIKey` with scope `write`; `S21Denies` a failing
`authenticate`; `ReadCreate` and `ReadQuery` the decoding and validation of a request;
`RunCreate`/`RunRevoke` the CLI; `Count`, `Mint`, `Insert...`, `Revoke...`, `List` the
calls that follow; `StoreError` a failing call, `Kill` a request cut off with its
transaction committed or not. `InsertUnacked`/`RevokeUnacked` commit, lose the
acknowledgement and leave the request where it was, so that the closure runs again:
that is what `WithIdempotent` (`ydbstore.go:55-58`) asks of the driver. `said` holds the
answer given by the last step, with the keys whose rows the request changed (`did`).

`Users`. `backend` is the store the container found, any of `Backends`. Over `"mem"` each
repository call is one action; over `"ydb"`, `Upsert` is `YdbReadRow` then `YdbWriteRow`
and `Delete` is `YdbDeleteCheck` then `YdbDelete`, the second of each possibly rerun.
`ResolveCached`, `ResolveMiss`, `LookupFound`, `LookupFails` and `Fill` are
`resolveNickname`; `ToUpsert` is the stamping of the row with `s.Now()`, and `Tick` never
lets a stamped request outlive `ReqTime`. A nickname is a login and a spelling (`lower`,
`mixed`); `ToLower` and `EqualFold` are what the stores do to spellings. Three histories
are read by properties only: `raced` marks a request whose binding another one changed
between its two transactions, `typed` is the nickname the client of a row sent,
`confirmed` the logins S21 ever resolved.

`Service`. `Arrive` is an event given to a container; `Bootstrap` is
`initOnce.Do(bootstrap)`, with `ydbstore.Open` succeeding or not. `ServeHTTP` answers at
once, or takes the request where `Targets` says some path and method lead (`Routes`, from
the patterns in `MatchByTelegram`, `MatchByNickname`, `MatchAdminKey`), through `Gate`:
`authorize` with the scope of the route (`Required`) on the container's *own* `api_keys`.
There a refusal answers, or, without `Enforce`, lets the request through without a row.
`Lookup` (one id or a batch), `ListByNickname`, `ListKeys`, `DeleteMissing` and `Commit`
are the handlers that succeed, `Commit` doing what `Bound`, `Unbound`, `Created` or
`RevokedBy` says of an input that `Inputs` allows; `Deny` is every refusal and failure
past the gate. `Unacked` is `doTx` over the database as in `KeyAdmin`: the write commits,
its acknowledgement is lost, and the request is left at `"rerun"` with the same input, to
write again (any number of times), be refused or be cut off. A revocation is stamped at
any moment since its request began (`Revocations`), before its transaction, as the code
does. `Kill` cuts a request off, its write done or not; `Recycle` takes an idle container
and its memory away. `RunCreate`/`RunRevoke` start a command of the CLI, which occupies a
request slot, works on the database, and knows neither gate nor time limit. A name of a
key is described by the kinds of its characters and its length (`Shape`): each of the two
patterns, `validKeyName` and `reAdminKey`, is translated by what it takes of these. `reply`
holds the answer of the last step. The history `ended`, which no action reads, says when a
revocation of each key of the database last committed. A nickname stands for its lower
case, which both stores compare here.

## 3. Runs

Passing runs (expect: no error):

| run | checks | instance and why it is enough |
|---|---|---|
| `token_cache` | types, map/list agreement and cap, refinement of `ExpiringLru` | 3 tokens on a cap of 2: eviction of each position; TTL 2, clock to 5: renewals, expiry at and after the boundary |
| `authenticate` | the inductive invariant, the rotation bound, refinement of `TokenTrust` | 2 containers, 2 requests, 1 token, TTL 2, ReqTime 1, clock to the bound after the start: a slow validator, a promotion elsewhere and a rotation in any order |
| `authenticate_live` | every request is answered; what an answer means when outages read as refusals | 1 container, 2 requests, TTL 1, outages of both wordings and answers without a login, no symmetry |
| `keys_retry` | types, active keys distinct, what the creation limit really gives, what reruns do to rows and answers | 2 requests, 2 names, 1 user, limit 1, 1 lost acknowledgement, 4 keys: three by one user in one window (frozen clock) |
| `keys_sequential` | the exact limit for one request at a time | limit 1, window 1, clock to 3, 4 keys: windows that slide over a creation and its boundary |
| `keys_registry` | honest answers, no nil row, revoked keys stay revoked, refinement of `KeyRegistry` | 2 requests, CLI keys for users and under odd names too, no lost acknowledgement, frozen clock |
| `users` | types, confirmed nicknames, listings, deletes, creation times, stamps, refinement of `SharedMapping` | 2 requests on the id they race for, 2 logins in 2 spellings, either store with its failures, reruns and cut-offs, ReqTime 1, clock from 1 to 3: one request stamped before and written after another |
| `service` | types, refinement of `SharedMapping`, effects earned, active keys found by their names and routed if minted over HTTP | 2 containers, 2 requests or commands, 1 id, 2 nicknames, 2 keys (the first, and one more of the scope that opens nothing but lookups), a name both patterns take and one neither does, reruns without a bound, ReqTime 1, clock to 2: bootstraps with and without the database, recycling, a revocation while a request is under way |

Runs in which TLC finds a documented statement violated by what the code does (each is
a finding in `PROJECT.json`, with the quoted line):

| run | statement | what happens |
|---|---|---|
| `authenticate_ttl` | the TTL bounds a rotated password | promotion from the durable row grants a second full TTL (`server.go:228`) |
| `keys_resurrect` | revoke is a soft delete, the row stays | a rerun Insert upserts `revoked_at = NULL` over a revoked row |
| `keys_dry_run` | dry-run accepts requests without a key | the nil row is dereferenced |
| `service_fallback` | one mapping shared across all bots | in dry-run mode a container that could not open the database acknowledges a PUT into its own memory (`handler.go:56`) |

Each property of a passing run also has a deliberate fault, an operator named for it
next to the definition it would replace ("A faulty ..."), which breaks that property:
the property says something about the code.

### Where the properties make an exception

Some statements hold only with a restriction, and the restriction is the interesting part.

* `ImplementsTrust` needs outages told from refusals. `mapAuthError` (`s21.go:109-119`)
  goes by words in the text, and an answer without a login is taken for a refusal
  (`s21.go:92-94`), so with `"worded_invalid"` or `"no_login"` in `OutageErrors` credentials
  S21 accepts are rejected. `AnswersTrusted` has no such condition: those rejections
  (`ReadAsRefusal`) are the only ones of their kind, and no failure ever lets a request in.
* `RateLimit` needs one request at a time: count and insert are two transactions, and
  `RateBound` says what is left when requests overlap.
* `HonestAnswers` and `ImplementsRegistry` need every acknowledgement to arrive. With
  `LostAcks = 1` a rerun Insert meets its own row and answers 409 for a key that is now
  active and was never shown; a rerun RevokeByName answers 404 for the key it revoked
  itself, or revokes a second key minted under the name in between. What is left then
  is checked in `keys_retry`: `AnswersAccounted` (a 201 stands for exactly one key; any
  other answer is off by at most one change per lost acknowledgement) and `TermsKept` (rows
  never go or change their terms; a revoked one is revived only by the rerun of the very
  creation that wrote it).
* `CreatedAtPreserved` and `DeletedByThisRequest` over ydbstore except a request that
  another one overtook between its two transactions (`raced`): two first PUTs of one id
  replace the creation time, two deletes both answer 204.
* `ImplementsMapping` of `Users` compares what clients can tell apart (`Bar`): spellings
  over ydbstore, which compares them exactly, logins over memstore, which folds case. In
  `Service` both are lower case.
* `ListedAsRegistered` over ydbstore needs lower-case spellings: the cache keeps the
  lower-cased login, the next PUT stores that form, and ListByNickname compares exactly,
  so in mixed case the listing depends on the state of the cache.
* `StampsAgree` allows what concurrent PUTs do: `UpdatedAt` is stamped before the write
  (`server.go:452`), so a row may step back in time, or be created after its update, but
  by less than a request lives.
* `EffectsEarned` allows a request that passed the gate to go on after its key is
  revoked, until `execution_timeout`: that long after it *committed* a revocation is
  complete. It is not counted from the row's `revoked_at`, which is taken before the retried
  transaction: over HTTP (`server.go:736`) that is older by up to a request's life, at the
  CLI (`main.go:181`), which nothing cuts off, by any time. A rerun creation may also revive
  a revoked key (`keys_resurrect`); its effects are then earned until it is revoked again.
  Like `StampsAgree` the property takes one wall clock for all containers.
* `ImplementsMapping` of `Service` and `EffectsEarned` need `Enforce`. A container on its own memory is
  harmless then only because that memory holds no key: `service_fallback` is the same
  system with the gate in dry-run mode.
* `MintedOverHttpRevocable` asks for the route of names minted over HTTP only. `runCreate`
  checks no more than that a name is not blank (though the help of its flag, `main.go:85`,
  names the characters of the pattern), and a name outside the pattern of
  DELETE /admin/keys/<name> can be revoked by the CLI only.
* A write-scope caller who sends `created_by=0` revokes without a filter and without the
  admin scope (`ReadQuery`, `Revocations`): the comment at `server.go:707-713` does not speak
  of 0. No property takes a side on who may do so.

### Bounds

`MaxNow` stops the clock, `MaxKeys` the keys minted, `LostAcks` the acknowledgements
lost; TTL, window, limit and `ReqTime` are scaled to 1 or 2. `MCMaxNow` lets the clock run
`Window` past its start, so that a token valid at the start can be rotated, outlive its
rotation in every layer and be forgotten. `users` and `service` need the clock to move
while one request is under way and again after it, hence the 2 ticks of each. Reruns in
`service` need no bound: a request between two of them keeps its input only. Symmetry is
used for request slots and containers, for logins (`users`) and for nicknames (`service`),
which no constant or initial value tells apart, and in no run with a liveness property.

### Fairness

`Authenticate` assumes weak fairness of each request's own steps: the goroutine runs, and
every call it makes returns or the platform ends it (`execution_timeout`,
`terraform/main.tf:54`). Nothing is assumed of arrivals, of S21's passwords, of containers
or of the clock. `authenticate_live` is the one liveness run; the other specifications are
safety specifications and state no fairness.

## 4. Proofs

`Authenticate_proofs` proves, for any sets of containers, requests, tokens and logins,
any TTL and cap of at least 1, and any time limit:

* `TypeCorrect`: `Spec => []TypeOK`;
* `TrustInvariant`: `Spec => []TrustInv`;
* `RotatedForgotten`: `Spec => []RotatedTokenForgotten`;
* `TrustRefinement`: if no outage reads as a refusal (`ReadAsRefusal = {}`),
  `Spec => ImplementsTrust`;
* `AnswersToTrust`: `Spec => AnswersTrusted`, whatever outages look like;
* `NeverBack`: every step of a request's own brings it nearer to its end, no other step
  takes it back.

Assumptions are the named ones of the modules: TTL and cap positive, `LoginOf` a
function, the empty token among the malformed ones, logins distinct from the outcomes.

The argument. `RotatedTokenForgotten` is not inductive: it speaks only of tokens long
rotated, and says nothing of what a request in flight is about to write. Let
`LastGood(t)` be the last moment S21 accepted `t`. `TrustInv` bounds everything that
could ever become trust: a request between S21's answer and its writes began at most at
`LastGood` and is younger than `ReqTime`, so what it stamps ends by
`LastGood + ReqTime + TTL`; hence so does every durable row, and every row a request has
read; a promotion happens while such a row is unexpired, so an in-memory entry ends
before `LastGood + ReqTime + 2 * TTL = LastGood + Window`. `LastGood` never moves back
(`EnvironmentStep`), and eviction, expiry, recycling and lost writes only remove.
`Regrouped` sorts the invariant by the piece of state it constrains, so that each
action's lemma (`MemGetStep`, `PromoteStep`, ...) deals with one request, one cache and
the table, and `NextInv` puts them together. The refinement uses the same invariant:
each answer of `Authenticate` is an `Accept`, `Reject` or `Fail` of `TokenTrust`
(`StepSeen`), every other step of a request is hidden from it. `AnswersToTrust` reuses the
three lemmas on acceptance (`MemGetSeen`, `PromoteSeen`, `DurableWriteSeen`), which need
nothing of outages, and deals with the refusals one by one (`StepTrusted`).

`KeyAdmin_proofs` proves, for any sets of requests, names, users and CLI owners, any
limit, window and numbers of keys and of lost acknowledgements:

* `TypeCorrect`: `Spec => []TypeOK`;
* `ActiveDistinct`: `Spec => []ActiveKeysDistinct`;

and, if no acknowledgement is lost (`LostAcks = 0`; the run `keys_resurrect` shows that
the hypothesis is needed):

* `RevokedForGood`: `Spec => RevokedStaysRevoked`;
* `RegistryRefinement`: `Spec => ImplementsRegistry`;
* `AnswersHonest`: `Spec => []HonestAnswers`.

Assumptions: the creator 0 is no user, `Never` is no time, the minted scopes are
canonical ones, the first key has a regular name.

The argument. The invariant is `IInv == TypeOK /\ ActiveKeysDistinct /\ KeysFresh`, where
`KeysFresh`, defined beside the proofs, is what they need of `rand.Read`.
Every action does one of three things to the table, so there are three lemmas:
`RequestOnly` (nothing), `InsertStep` (a row that met no active row of its name or
owner) and `RevokeStep` (one active row becomes revoked). `ActiveKeysDistinct` alone is
inductive given the types; `KeysFresh` is what makes the UPSERT of `Insert` a plain
insertion: two requests never hold the same key, and as long as no acknowledgement at all
was lost such a key is not in the table. While none is lost every change of the
table is therefore an `Issue` of a new key or a `Revoke` of a live one (`InsertSeen`,
`RevokeSeen`), which gives the refinement and `RevokedForGood`; and no request that is
still under way has changed a row (`Unspent`), which gives `AnswersHonest`.

* `RowAtHand`: with the gate enforcing, `Spec => []NoPanic`. A request past the gate
  holds a row (`Gated`), so `HasScope` has something to look at; in dry-run mode it may not,
  which is what `keys_dry_run` shows.

`KeyRerun_proofs` proves what remains when acknowledgements are lost, however many:

* `TermsForGood`: `Spec => TermsKept`;
* `EveryAnswerAccounted`: `Spec => []AnswersAccounted`.

The argument. Each request keeps an account (`Accounted`): it has changed at most as many
rows as acknowledgements were lost; before its first write, none; and a creation has changed at
most the row of its own key, which is then in the table with the terms it wrote. Others
cannot disturb an account: an insertion by another request is of another key (`KeysFresh`),
and a revocation keeps the terms (`AccountedOthers`, `AccountedInsert`,
`AccountedRevoke`). So the UPSERT of a rerun meets only its own row (`TermsForGood`), and the
step that answers adds at most one change to the account.

`KeyRate_proofs` proves, for finitely many requests at a time and an operator who mints
no keys for users (`Counted`: the CLI does not count):

* `Overlapping`: `Spec => []RateBound`;
* `OneAtATime`: `Spec => []RateLimit` if there is a single request slot.

The argument. The number of keys in a window is not inductive: what matters is also who
may still add one. `Within` bounds, for every user and every window that ends now or ended before,
the keys created in it *plus* the requests that passed the limit and may still insert a key
stamped in it (`Pending`). Passing the limit establishes the bound for the window that ends
now, since at most `RateMax - 1` keys were counted and at most every request is pending
(`RateCount`); minting changes nothing; an insertion exchanges a request for a key
(`Exchanged`), and a rerun replaces a row by itself (`OwnRows`), so a lost acknowledgement
does not count twice; the clock only takes keys and requests out of the window that ends
now. With one slot the bound is the limit.

`S21TokenCache_proofs` proves, for any tokens and logins, any TTL and any cap of at least 1:

* `Types`: `Spec => []TypeOK`;
* `Agreement`: `Spec => []ListMapAgree`;
* `LruRefinement`: `Spec => ImplementsLru`.

The argument. `CacheOK` says that the list holds the tokens of the map, each once, and no
more than the cap (`Lists`). The methods are compositions of three edits of the list, with
a lemma each: an element unlinked (`UnlinkedElements`, `UnlinkedLists`), one pushed to the
front (`PushedLists`), the last one dropped (`ShortenedLists`). Each lemma also says what
happens to the *order* of the others (`ToFront`, `Gone`), and the order is all
`ExpiringLru` knows of the list (`NewerIsOrder`); so a hit, a removal, a renewal and an
addition with its eviction each map to the abstract step of the same name
(`HitRefined`, `ForgottenRefined`, `RenewRefined`, `AddRefined`). Both overflow together,
because the list is as long as the map is large, and the last of the list, which
`evictLocked` takes, is the token all others were used after (`AddedOK`).

`Users_proofs` proves every property of the run `users`, for any requests, ids, logins and
time limit and over either store: `Types`, `Confirmed` (`BoundNicksConfirmed`), `Deleted`
(`DeletedByThisRequest`), `Listing` (`ListedAsRegistered`), `CreationKept`
(`CreatedAtPreserved`) and `Stamps` (`StampsAgree`). The invariant adds to the checked ones
what a request between two calls may rely on: past the lookup its nickname is confirmed and
spelt like the one typed (`Agrees`); its stamp is at most `ReqTime` old; before its write
the creation time it read is still the row's, unless it was overtaken; before its delete
the row is still there, unless it was overtaken or has already deleted it. `OvertakingOK`
is the one lemma about other requests: whoever changes a row marks those who have read it.

* `MappingKept`: `Spec => ImplementsMapping`. The same invariant gives the refinement of
  `SharedMapping`: a PUT shows as a `Bind` in the step that writes the row, and its answer
  is what the row then says (`MappingPut`); a DELETE as an `Unbind` in its second
  transaction (`MappingDelete`) or a `Missing` in its first (`MappingMissing`), even if
  another request deleted the row in between; a listing reads the whole mapping in one
  step (`MappingListing`); all else is hidden. Taking a handler's work on a binding for one
  step, as `Service` does, therefore hides nothing that clients of one store could see.

`Service_proofs` proves, for any containers, requests, names, ids, nicknames and keys:

* `Types`: `Spec => []TypeOK`, and `Minting`: `Spec => MintedOverHttpRevocable`, with the
  gate enforcing or not;

and, with the gate enforcing (`Enforce`):

* `Earning`: `Spec => EffectsEarned`;
* `MappingShared`: `Spec => ImplementsMapping`.

The argument. With `Enforce` no container's memory ever holds a key (`MemoryEmpty`): only
a request past the gate could write one there, and the gate read that same memory. Hence
every request past the gate is on the database (`Admitted`), with a key that had the scope
of its route and is active, or whose last revocation committed no earlier than the request
began (`Earned`). Others keep that true: a revocation that commits is recorded *now*, a
creation writes a key that is either new or, if it is a rerun, its own, which is in the
table with the scopes the rerun writes again (`RunsAgain`, which a revocation in between does
not disturb). `Earning` then follows from the time limit. Names stay distinct
(`DistinctNames`) because a write inserts only after it met no active row of its name, a
rerun over its own revoked row included (`InsertedDistinct`, `RevokedDistinct`); with
`ValidRouted`, that a name of the first pattern is one of the second, this gives `Minting`.
Every read and write of bindings is one of `users["ydb"]`, which is the whole mapping, and
the rerun of a PUT or a DELETE is one more `Bind` or `Unbind` of the same
(`MappingWrite`, `MappingKeys`, `MappingOther`).

Assumptions: the named ones of the modules, on constants only.

Every property of a passing run is a theorem but one. Only model-checked: liveness
(`AlwaysAnswered`), since a proof needs the enabledness of `Step(r) \/ Timeout(r)`, which
is beyond the prover. `NeverBack` proves the rest of that argument: a measure bounded by six
that each step under the fairness assumption lowers and no step raises while the request
is active.

## 5. Not modelled, and why

* Campus, coalition and response bodies: carried, never decided on.
* Copying headers and bodies between the gateway's JSON and `net/http`
  (`handler.go:90-160`, `decodeB64` included), wire models, log redaction: functions
  without state; a body that does not parse is among the refusals of `Deny`.
* The order of listings, and the rows of `list-keys`: they change nothing.
* The statements inside one YDB transaction: serializable isolation is taken as given.
* `mock.go`: a test double.
* Infrastructure: only `execution_timeout` enters the models.
* Constant-time comparisons and hashing: a token or key stands for its hash.
* Reruns of reads (`doRO`): the closure of `ListByNickname` appends to a slice outside it
  (`ydbstore.go:154-171`), but what the driver retries fails before the first row is read:
  inside the loop only `scanUser` fails, on a type mismatch, which is not retried.

## 6. Plan

Done: the token caches and authenticate with their abstract specifications; key
administration; bindings; the deployed service over containers. All with proofs.

What could follow:

1. `YdbTx`: `Insert` and `RevokeByName` statement by statement under optimistic
   concurrency, shown to implement the atomic operators of `KeyTable`.
2. Scope spellings of the server against those of the CLI (`allowedScopes`,
   `canonicaliseScopes`).
3. The lemmas on cache values moved from `S21TokenCache_proofs` to a module over
   `TokenCacheOps`, so that the caches of `Authenticate`'s containers inherit
   `ListMapAgree`.
4. The creation limit where the operator mints keys for users too: a history of which
   rows came over HTTP, and `RateBound` for those.
