---------------------------- MODULE S21TokenCache ----------------------------
(***************************************************************************)
(* The in-memory token cache of one container as a state machine: Get, Put *)
(* and Invalidate in any order while the clock advances.                   *)
(***************************************************************************)
EXTENDS TokenCacheOps

CONSTANTS
  Tokens,   \* the non-empty X-S21-Token values
  Logins,
  Miss,     \* the answer of a Get that finds nothing usable
  MaxNow    \* bound: the clock stops here

ASSUME EmptyTokenAssumption == EmptyToken \notin Tokens

VARIABLES
  cache,    \* entries and lru
  now,      \* c.now()
  answer    \* what the last method returned; Miss for those that return nothing

vars == <<cache, now, answer>>

Init ==
  /\ cache = EmptyCache
  /\ now = 0
  /\ answer = Miss

Get(t) ==
  /\ cache' = AfterGet(cache, t, now)
  /\ answer' = IF CacheHit(cache, t, now) THEN cache.entries[t].login ELSE Miss
  /\ UNCHANGED now

Put(t, l) ==
  /\ cache' = AfterPut(cache, t, l, now)
  /\ answer' = Miss
  /\ UNCHANGED now

Invalidate(t) ==
  /\ cache' = AfterInvalidate(cache, t)
  /\ answer' = Miss
  /\ UNCHANGED now

Tick == now < MaxNow /\ now' = now + 1 /\ UNCHANGED <<cache, answer>>

Next ==
  \/ \E t \in Tokens \cup {EmptyToken} :
       Get(t) \/ Invalidate(t) \/ \E l \in Logins : Put(t, l)
  \/ Tick

Spec == Init /\ [][Next]_vars
-----------------------------------------------------------------------------
EntryType == [login : Logins, expiresAt : Nat]

\* The types of the cache, the clock and the answer.
TypeOK ==
  /\ DOMAIN cache = {"entries", "lru"}
  /\ DOMAIN cache.entries \subseteq Tokens
  /\ \A t \in DOMAIN cache.entries : cache.entries[t] \in EntryType
  /\ cache.lru \in Seq(Tokens)
  /\ now \in Nat
  /\ answer \in Logins \cup {Miss}

\* The map and the recency list hold the same tokens, each once, and never
\* more than the cap: a list element without its map entry would make
\* evictLocked free nothing, a map entry without its element could never be
\* evicted (Get, Put, Invalidate and evictLocked each edit both).
ListMapAgree ==
  /\ Range(cache.lru) = DOMAIN cache.entries
  /\ Len(cache.lru) = Cardinality(DOMAIN cache.entries)
  /\ Cardinality(DOMAIN cache.entries) <= MaxEntries

Promise == INSTANCE ExpiringLru WITH
  put   <- [t \in DOMAIN cache.entries |->
              [login |-> cache.entries[t].login, at |-> cache.entries[t].expiresAt - TTL]],
  newer <- {<<cache.lru[p[1]], cache.lru[p[2]]>> :
              p \in {q \in (1..Len(cache.lru)) \X (1..Len(cache.lru)) : q[1] < q[2]}}

\* The map and list of Get, Put, Invalidate and evictLocked behave as the
\* expiring least-recently-used memory of ExpiringLru: a fresh token is only
\* lost to MaxEntries others used since, and an answer is the login last put
\* at most TTL ago.
ImplementsLru == Promise!Spec
=============================================================================
