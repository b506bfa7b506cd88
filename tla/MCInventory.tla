----------------------------- MODULE MCInventory -----------------------------
(* Model values and symmetry for checking Inventory. *)
EXTENDS Inventory, TLC

Symmetric == Permutations(Clerks)
=============================================================================
