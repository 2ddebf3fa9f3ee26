----------------------------- MODULE MCSession ------------------------------
(* Small instances of Session and of its refinement. *)
EXTENDS SessionRefinement, TLC

Symmetry == Permutations(Accounts)
=============================================================================
