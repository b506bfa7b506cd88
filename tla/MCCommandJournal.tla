-------------------------- MODULE MCCommandJournal --------------------------
(* Model values and symmetry for checking CommandJournal. *)
EXTENDS CommandJournal, TLC

Symmetric == Permutations(Executors) \union Permutations(Tokens)
=============================================================================
