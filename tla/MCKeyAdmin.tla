----------------------------- MODULE MCKeyAdmin ------------------------------
(* One user, one or two names, two requests at a time; scope sets by name. *)
EXTENDS KeyAdmin, TLC

MCWrite == {WriteScopes}

Symmetry == Permutations(Requests)
=============================================================================
