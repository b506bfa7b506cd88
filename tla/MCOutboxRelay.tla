---------------------------- MODULE MCOutboxRelay ----------------------------
(* Model values and symmetry for checking OutboxRelay. *)
EXTENDS OutboxRelay, TLC

Symmetric == Permutations(Relays) \union Permutations(Events)
=============================================================================
