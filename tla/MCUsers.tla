------------------------------- MODULE MCUsers -------------------------------
(* The bindings with interchangeable request slots and logins. *)
EXTENDS Users, TLC

Symmetry == Permutations(Requests) \cup Permutations(Logins)
=============================================================================
