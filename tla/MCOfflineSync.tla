---------------------------- MODULE MCOfflineSync ----------------------------
(* Model values and symmetry for checking OfflineSync. *)
EXTENDS OfflineSync, TLC

Symmetric == Permutations(Replays)
=============================================================================
