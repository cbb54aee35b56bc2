----------------------------- MODULE ExpiringLru -----------------------------
(***************************************************************************)
(* What S21TokenCache promises, without its map and its linked list: it    *)
(* remembers who was put last and when, a memory older than TTL is of no   *)
(* use, and only the least recently used token is ever forgotten to make   *)
(* room.                                                                   *)
(***************************************************************************)
EXTENDS Integers, FiniteSets, Functions

CONSTANTS Tokens, Logins, Miss, TTL, MaxEntries, MaxNow

VARIABLES
  now,
  put,      \* token -> [login, at]: the last Put of a token still remembered
  newer,    \* <<a, b>> \in newer: a was used more recently than b
  answer    \* what the last operation returned

vars == <<now, put, newer, answer>>

Live == DOMAIN put

\* The recency order once t is used, among the tokens of S.
Used(t, S) ==
  {p \in newer : t \notin {p[1], p[2]}} \cup ({t} \X (S \ {t}))

Without(t) == {p \in newer : t \notin {p[1], p[2]}}

Init ==
  /\ now = 0
  /\ put = << >>
  /\ newer = {}
  /\ answer = Miss

Hit(t) ==
  /\ t \in Live
  /\ now - put[t].at <= TTL
  /\ answer' = put[t].login
  /\ newer' = Used(t, Live)
  /\ UNCHANGED <<now, put>>

\* A lookup fails on a token not remembered, or remembered too long ago: the
\* second kind is forgotten.
NoHit(t) ==
  /\ t \in Live => now - put[t].at > TTL
  /\ answer' = Miss
  /\ put' = Restrict(put, Live \ {t})
  /\ newer' = Without(t)
  /\ UNCHANGED now

PutToken(t, l) ==
  /\ answer' = Miss
  /\ LET S == Live \cup {t}
         order == Used(t, S)
         all == [x \in S |-> IF x = t THEN [login |-> l, at |-> now] ELSE put[x]]
     IN  IF Cardinality(S) <= MaxEntries
         THEN put' = all /\ newer' = order
         ELSE \E oldest \in S :
                /\ \A x \in S \ {oldest} : <<x, oldest>> \in order
                /\ put' = Restrict(all, S \ {oldest})
                /\ newer' = {p \in order : p[2] # oldest}
  /\ UNCHANGED now

Forget(t) ==
  /\ answer' = Miss
  /\ put' = Restrict(put, Live \ {t})
  /\ newer' = Without(t)
  /\ UNCHANGED now

Nothing == answer' = Miss /\ UNCHANGED <<now, put, newer>>

Tick == now < MaxNow /\ now' = now + 1 /\ UNCHANGED <<put, newer, answer>>

Next ==
  \/ \E t \in Tokens : Hit(t) \/ NoHit(t) \/ Forget(t)
  \/ \E t \in Tokens, l \in Logins : PutToken(t, l)
  \/ Nothing
  \/ Tick

Spec == Init /\ [][Next]_vars
=============================================================================
