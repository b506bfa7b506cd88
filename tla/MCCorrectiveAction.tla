------------------------- MODULE MCCorrectiveAction -------------------------
(* Symmetry for checking CorrectiveAction. *)
EXTENDS CorrectiveAction, TLC

Symmetric == Permutations(Approvers) \union Permutations(Actors \ Approvers)
=============================================================================
