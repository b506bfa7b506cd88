---------------------------- MODULE MCIdempotency ----------------------------
(* The instance for checking Idempotency; it checks progress, so without
   symmetry. *)
EXTENDS Idempotency
=============================================================================
