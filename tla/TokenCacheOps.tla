---------------------------- MODULE TokenCacheOps ----------------------------
(***************************************************************************)
(* The methods of S21TokenCache (pkg/api/s21_token_cache.go) as operators  *)
(* on a cache value: a record with the map `entries' (token to login and   *)
(* expiry) and the recency list `lru', front = most recently used.  Every  *)
(* method runs under c.mu, so each is one operator.  The sha256 that keys  *)
(* the map is injective for the purpose: a token stands for its hash.      *)
(***************************************************************************)
EXTENDS Integers, Sequences, FiniteSets, Functions

CONSTANTS
  TTL,          \* the ttl a Put grants
  MaxEntries,   \* the cap; the constructor replaces a cap below 1
  EmptyToken    \* the token "", which every method ignores

ASSUME TTLAssumption == TTL \in Nat \ {0}
ASSUME MaxEntriesAssumption == MaxEntries \in Nat \ {0}

EmptyCache == [entries |-> << >>, lru |-> << >>]

\* The element of the recency list an entry points to.
ElementOf(c, t) == CHOOSE i \in DOMAIN c.lru : c.lru[i] = t

\* list.Remove: the list without the element of token t.
Unlinked(c, t) ==
  LET i == ElementOf(c, t)
  IN  SubSeq(c.lru, 1, i - 1) \o SubSeq(c.lru, i + 1, Len(c.lru))

\* list.MoveToFront.
MovedToFront(c, t) == <<t>> \o Unlinked(c, t)

\* A faulty Dropped: the list element outlives its map entry.
DroppedFromMapOnly(c, t) ==
  [c EXCEPT !.entries = Restrict(c.entries, DOMAIN c.entries \ {t})]

\* lru.Remove and delete: the token leaves the list and the map.
Dropped(c, t) ==
  [entries |-> Restrict(c.entries, DOMAIN c.entries \ {t}), lru |-> Unlinked(c, t)]

\* An entry is usable up to and including the instant it expires at
\* (the code tests now.After(expiresAt)).
CacheHit(c, t, now) ==
  t # EmptyToken /\ t \in DOMAIN c.entries /\ now <= c.entries[t].expiresAt

\* A faulty AfterGet: a hit does not make the token the most recently used.
AfterGetUnpromoted(c, t, now) ==
  IF t = EmptyToken \/ t \notin DOMAIN c.entries \/ CacheHit(c, t, now) THEN c ELSE Dropped(c, t)

\* The cache a Get leaves: a hit is promoted, an expired entry is cleared.
AfterGet(c, t, now) ==
  IF t = EmptyToken \/ t \notin DOMAIN c.entries THEN c
  ELSE IF CacheHit(c, t, now) THEN [c EXCEPT !.lru = MovedToFront(c, t)]
  ELSE Dropped(c, t)

\* evictLocked: entries leave from the back of the list until the map is
\* within the cap or the list is empty.
Evicted(c) ==
  LET size == Cardinality(DOMAIN c.entries)
      kept == IF size <= MaxEntries THEN Len(c.lru)
              ELSE IF size - MaxEntries >= Len(c.lru) THEN 0
              ELSE Len(c.lru) - (size - MaxEntries)
      gone == {c.lru[i] : i \in (kept + 1)..Len(c.lru)}
  IN  [entries |-> Restrict(c.entries, DOMAIN c.entries \ gone),
       lru     |-> SubSeq(c.lru, 1, kept)]

NewEntry(l, now) == [login |-> l, expiresAt |-> now + TTL]

\* A faulty AfterPut: the empty token is remembered too.
AfterPutEvenEmpty(c, t, l, now) ==
  IF t \in DOMAIN c.entries
  THEN [entries |-> [c.entries EXCEPT ![t] = NewEntry(l, now)], lru |-> MovedToFront(c, t)]
  ELSE Evicted([entries |-> [x \in DOMAIN c.entries \cup {t} |->
                               IF x = t THEN NewEntry(l, now) ELSE c.entries[x]],
                lru     |-> <<t>> \o c.lru])

\* The cache a Put leaves: an entry already there is renewed in place, a new
\* one is linked at the front and the cap is enforced.
AfterPut(c, t, l, now) ==
  IF t = EmptyToken THEN c
  ELSE IF t \in DOMAIN c.entries
       THEN [entries |-> [c.entries EXCEPT ![t] = NewEntry(l, now)],
             lru     |-> MovedToFront(c, t)]
       ELSE Evicted([entries |-> [x \in DOMAIN c.entries \cup {t} |->
                                    IF x = t THEN NewEntry(l, now) ELSE c.entries[x]],
                     lru     |-> <<t>> \o c.lru])

\* The cache an Invalidate leaves.
AfterInvalidate(c, t) ==
  IF t = EmptyToken \/ t \notin DOMAIN c.entries THEN c ELSE Dropped(c, t)
=============================================================================
