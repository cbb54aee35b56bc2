----------------------------- MODULE KeyRegistry -----------------------------
(***************************************************************************)
(* What the service promises of API keys: a key is issued once, is active  *)
(* until it is revoked, and is then revoked for good, its record kept; no  *)
(* two active keys share a name or a user.                                 *)
(***************************************************************************)
CONSTANTS Keys, AllNames, Owners, NoOwner

VARIABLE issued   \* key -> [name, owner, active]

Live == {k \in DOMAIN issued : issued[k].active}

Init ==
  \E k \in Keys, n \in AllNames :
    issued = [x \in {k} |-> [name |-> n, owner |-> NoOwner, active |-> TRUE]]

Issue(k, n, o) ==
  /\ k \notin DOMAIN issued
  /\ \A x \in Live : issued[x].name # n /\ (o # NoOwner => issued[x].owner # o)
  /\ issued' = [x \in DOMAIN issued \cup {k} |->
                  IF x = k THEN [name |-> n, owner |-> o, active |-> TRUE] ELSE issued[x]]

Revoke(k) ==
  /\ k \in Live
  /\ issued' = [issued EXCEPT ![k].active = FALSE]

Next ==
  \E k \in Keys :
    Revoke(k) \/ \E n \in AllNames, o \in Owners \cup {NoOwner} : Issue(k, n, o)

Spec == Init /\ [][Next]_issued
=============================================================================
