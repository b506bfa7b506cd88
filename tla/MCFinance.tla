------------------------------ MODULE MCFinance ------------------------------
(* Model values and symmetry for checking Finance. *)
EXTENDS Finance, TLC

Symmetric == Permutations(Callers) \union Permutations(Payments)
MCAmounts == {-1, 1, 2}
=============================================================================
