---------------------------- MODULE SharedMapping ----------------------------
(***************************************************************************)
(* What the service promises of the (telegram_id, nickname) bindings: one  *)
(* mapping, the same for every client.  A PUT that is answered has bound   *)
(* the id as its answer says, a DELETE has unbound it, and every lookup is *)
(* answered from the mapping as it is.                                     *)
(***************************************************************************)
EXTENDS Functions, FiniteSets

CONSTANTS Tids, Nicks, Quiet   \* Quiet: the step answers nothing about bindings

VARIABLES
  mapping,   \* telegram id -> nickname
  reply      \* what the last step answered, if it answered

\* The rows of f that bind to nickname n.
HeldBy(f, n) == Restrict(f, {t \in DOMAIN f : f[t] = n})

Init == mapping = << >> /\ reply = Quiet

\* The binding changes; the request that asked for it may be cut off first.
Bind(t, n) ==
  /\ reply' \in {Quiet, [op |-> "put", asked |-> {t}, rows |-> [x \in {t} |-> n]]}
  /\ mapping' = [x \in DOMAIN mapping \cup {t} |-> IF x = t THEN n ELSE mapping[x]]

Unbind(t) ==
  /\ reply' \in {Quiet, [op |-> "deleted", asked |-> {t}, rows |-> << >>]}
  /\ mapping' = Restrict(mapping, DOMAIN mapping \ {t})

\* DELETE of an id that is not bound.
Missing(t) ==
  /\ t \notin DOMAIN mapping
  /\ reply' = [op |-> "not_found", asked |-> {t}, rows |-> << >>]
  /\ UNCHANGED mapping

\* The bindings of some ids, one or a batch.
Read(ids) ==
  /\ reply' = [op |-> "found", asked |-> ids, rows |-> Restrict(mapping, ids \cap DOMAIN mapping)]
  /\ UNCHANGED mapping

\* The bindings to a nickname, all of them.
Holders(n) ==
  /\ reply' = [op |-> "holders", asked |-> {n}, rows |-> HeldBy(mapping, n)]
  /\ UNCHANGED mapping

\* A request fails, or has nothing to do with bindings.
Other == reply' = Quiet /\ UNCHANGED mapping

Next ==
  \/ Other
  \/ \E n \in Nicks : Holders(n)
  \/ \E ids \in SUBSET Tids : Read(ids)
  \/ \E t \in Tids : Unbind(t) \/ Missing(t) \/ \E n \in Nicks : Bind(t, n)

Spec == Init /\ [][Next]_<<mapping, reply>>
=============================================================================
