--------------------------- MODULE MCEntityStore ---------------------------
(* Two writes, by two replicas or by one; it checks progress, so without
   symmetry. *)
EXTENDS EntityStore, TLC

CONSTANTS r1, r2, w1, w2

\* Builds that agree; r1 is older than the rows that were there and w2's.
TwoSkews == {r1 :> {} @@ r2 :> {}, r1 :> {{}, {w2}, {w1, w2}} @@ r2 :> {}}

TwoPlacements == {w1 :> r1 @@ w2 :> r2, w1 :> r1 @@ w2 :> r1}
=============================================================================
