---------------------------- MODULE MCFederation ----------------------------
(* Model values and symmetry for checking FederationReplication. *)
EXTENDS FederationReplication, TLC

Symmetric == Permutations(Sites) \union Permutations(Publishers)
=============================================================================
