------------------------------ MODULE MCService ------------------------------
(* A name both patterns take and one neither does; interchangeable requests, *)
(* containers and nicknames.                                                 *)
EXTENDS Service, TLC

MCShape ==
  [n \in {"root", "odd"} |-> [chars |-> IF n = "root" THEN {"a-z", "-"} ELSE {"a-z", "other"},
                              len |-> 64]]

Symmetry == Permutations(Requests) \cup Permutations(Containers) \cup Permutations(Nicks)
=============================================================================
