--------------------------- MODULE MCAuthenticate ----------------------------
(* Two containers, two requests, one or two tokens; LoginOf as a function. *)
EXTENDS Authenticate, TLC

MCLoginOf == [t \in Tokens |-> "alice"]
MCMaxNow == Start + Window

Symmetry == Permutations(Containers) \cup Permutations(Requests)
=============================================================================
