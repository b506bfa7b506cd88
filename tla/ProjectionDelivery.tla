------------------------- MODULE ProjectionDelivery -------------------------
(***************************************************************************)
(* What federation promises about the projections of one source tenant to  *)
(* the sites of one target tenant: a queued projection is applied at most  *)
(* once and stays applied, the target's store mirrors an event exactly     *)
(* once, with the first of its projections, and the source believes in an  *)
(* application only after it happened.  The belief may be withdrawn (a     *)
(* holder of the claim may still fail the row); the application may not.   *)
(***************************************************************************)
EXTENDS Naturals

CONSTANTS Events, Sites

VARIABLES queued, applied, believed, copies

vars == <<queued, applied, believed, copies>>

Init ==
    /\ queued = {} /\ applied = {} /\ believed = {}
    /\ copies = [e \in Events |-> 0]

\* A publish queues the projection of one event for some sites.
Queue(e) ==
    /\ \E to \in SUBSET Sites : queued' = queued \union ({e} \X to)
    /\ UNCHANGED <<applied, believed, copies>>

Apply(e, s) ==
    /\ <<e, s>> \in queued \ applied
    /\ applied' = applied \union {<<e, s>>}
    /\ copies' = [copies EXCEPT ![e] = 1]
    /\ UNCHANGED <<queued, believed>>

Believe(e, s) ==
    /\ <<e, s>> \in applied
    /\ believed' = believed \union {<<e, s>>}
    /\ UNCHANGED <<queued, applied, copies>>

Withdraw(e, s) ==
    /\ believed' = believed \ {<<e, s>>}
    /\ UNCHANGED <<queued, applied, copies>>

Next ==
    \E e \in Events :
        \/ Queue(e)
        \/ \E s \in Sites : Apply(e, s) \/ Believe(e, s) \/ Withdraw(e, s)

Spec == Init /\ [][Next]_vars
=============================================================================
