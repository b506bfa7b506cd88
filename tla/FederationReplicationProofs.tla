-------------------- MODULE FederationReplicationProofs --------------------
(***************************************************************************)
(* Proofs about FederationReplication for every set of events, sites and   *)
(* publishers and any number of claims and changes of governance:          *)
(* FederationInv is inductive, and every step of the queue, the inbox and  *)
(* the receipts is a step of ProjectionDelivery.                           *)
(***************************************************************************)
EXTENDS FederationReplication, TLAPS

LEMMA InitInv == Init => FederationInv
<1> SUFFICES ASSUME Init PROVE FederationInv
  OBVIOUS
<1> USE FederationAssumption DEF Init
<1>1. /\ edge \in [Sites -> Edges] /\ RevisionsFit
      /\ seen \in [Publishers -> [Sites -> Edges]]
  BY DEF Edges, RevisionsFit, FirstEdges
<1>2. TypeOK
  BY <1>1 DEF TypeOK, Statuses
<1>3. ReceiptIsEarned /\ MirroredOnce /\ ConfirmedIsApplied
  BY DEF ReceiptIsEarned, MirroredOnce, ConfirmedIsApplied
<1>4. EntriesFit /\ FanoutsFit
  BY DEF EntriesFit, FanoutsFit
<1> QED  BY <1>1, <1>2, <1>3, <1>4 DEF FederationInv

(* What a fan-out has inserted is a row. *)
LEMMA FreshIsRow ==
  ASSUME FederationInv, NEW p \in Publishers, NEW s \in fresh[p]
  PROVE  <<event[p], s>> \in Rows
<1>1. pc[p] = "fanout"  BY DEF FederationInv, FanoutsFit
<1>2. event[p] # NoEvent  BY <1>1 DEF FederationInv, FanoutsFit
<1>3. event[p] \in Events /\ s \in Sites  BY <1>2 DEF FederationInv, TypeOK
<1> QED  BY <1>3 DEF Rows

(* Memberships and policies change under the fan-outs. *)
LEMMA GovernanceInv ==
  ASSUME FederationInv, NEW s \in Sites, GovernanceChanges(s)
  PROVE  FederationInv'
<1> USE FederationAssumption DEF FederationInv, publishing, queue, target
<1>1. changes' = changes + 1 /\ changes' \in 0..MaxChanges
  BY DEF GovernanceChanges, TypeOK
<1>2. edge' \in [Sites -> Edges] /\ RevisionsFit'
  <2>1. \A x \in Sites : /\ edge[x].member \in {"none", "excludes", "allows"}
                         /\ edge[x].revision \in 0..changes
    BY DEF TypeOK, Edges, RevisionsFit
  <2>2. CASE \E m \in {"none", "excludes", "allows"} : edge' = [edge EXCEPT ![s].member = m]
    <3>1. PICK m \in {"none", "excludes", "allows"} : edge' = [edge EXCEPT ![s].member = m]
      BY <2>2
    <3>2. \A x \in Sites : /\ edge'[x].member \in {edge[x].member, m}
                           /\ edge'[x].revision = edge[x].revision
      BY <3>1 DEF TypeOK, Edges
    <3>3. edge' \in [Sites -> Edges]
      BY <3>1 DEF TypeOK, Edges
    <3> QED  BY <1>1, <2>1, <3>2, <3>3 DEF RevisionsFit, TypeOK
  <2>3. CASE edge' = [edge EXCEPT ![s].revision = @ + 1]
    <3>1. \A x \in Sites : /\ edge'[x].member = edge[x].member
                           /\ edge'[x].revision \in {edge[x].revision, edge[x].revision + 1}
      BY <2>3 DEF TypeOK, Edges
    <3>2. \A x \in Sites : edge'[x].revision \in 0..changes'
      <4>1. changes \in Nat  BY DEF TypeOK
      <4>2. TAKE x \in Sites
      <4>3. edge[x].revision \in 0..changes  BY <2>1
      <4>4. edge'[x].revision \in {edge[x].revision, edge[x].revision + 1}  BY <3>1
      <4> QED  BY <1>1, <4>1, <4>3, <4>4
    <3>3. \A x \in Sites : edge'[x].revision \in 0..MaxChanges
      BY <1>1, <3>2 DEF TypeOK
    <3>4. edge' \in [Sites -> Edges]
      BY <2>1, <2>3, <3>1, <3>3 DEF TypeOK, Edges
    <3> QED  BY <3>2, <3>4 DEF RevisionsFit
  <2> QED  BY <2>2, <2>3 DEF GovernanceChanges
<1>3. TypeOK'
  BY <1>1, <1>2 DEF GovernanceChanges, TypeOK
<1> QED
  BY <1>2, <1>3
     DEF GovernanceChanges, ReceiptIsEarned, MirroredOnce, ConfirmedIsApplied,
         EntriesFit, FanoutsFit, KeyLocked

(* A step of a publisher that writes no queue row yet. *)
LEMMA PublishInv ==
  ASSUME FederationInv, NEW p \in Publishers,
         (\E e \in Events : LoadEdges(p, e)) \/ BeginFanout(p)
                                             \/ (\E s \in Sites : WaitForKey(p, s))
  PROVE  FederationInv'
<1> USE FederationAssumption DEF FederationInv, publishing, queue, target
<1>1. CASE \E e \in Events : LoadEdges(p, e)
  <2>1. TypeOK'  BY <1>1 DEF LoadEdges, TypeOK
  <2>2. FanoutsFit'
    <3>1. \A q \in Publishers \ {p} : seen'[q] = seen[q] /\ event'[q] = event[q]
      BY <1>1 DEF LoadEdges, TypeOK
    <3> QED  BY <1>1, <3>1 DEF LoadEdges, TypeOK, FanoutsFit, KeyLocked
  <2> QED
    BY <1>1, <2>1, <2>2
       DEF LoadEdges, TypeOK, RevisionsFit, ReceiptIsEarned, MirroredOnce,
           ConfirmedIsApplied, EntriesFit
<1>2. CASE BeginFanout(p)
  <2>1. TypeOK'  BY <1>2 DEF BeginFanout, Revalidated, TypeOK
  <2> QED
    BY <1>2, <2>1
       DEF BeginFanout, TypeOK, RevisionsFit, ReceiptIsEarned, MirroredOnce,
           ConfirmedIsApplied, EntriesFit, FanoutsFit, KeyLocked
<1>3. ASSUME NEW s \in Sites, WaitForKey(p, s) PROVE FederationInv'
  <2>1. blocked' = [blocked EXCEPT ![p] = {[site |-> s, saw |-> edge[s]]}]
    BY <1>3 DEF WaitForKey
  <2>2. [site |-> s, saw |-> edge[s]] \in Inserts  BY DEF Inserts, TypeOK
  <2>3. TypeOK'  BY <1>3, <2>1, <2>2 DEF WaitForKey, TypeOK
  <2>4. FanoutsFit'
    <3>1. \A q \in Publishers \ {p} : blocked'[q] = blocked[q]
      BY <2>1 DEF TypeOK
    <3>2. \A i \in blocked'[p] :
             i.site = s /\ i.saw.member # "none" /\ i.saw.revision = seen[p][s].revision
      BY <1>3, <2>1 DEF WaitForKey, Admits, TypeOK
    <3> QED  BY <1>3, <3>1, <3>2 DEF WaitForKey, FanoutsFit, KeyLocked
  <2> QED
    BY <1>3, <2>3, <2>4
       DEF WaitForKey, TypeOK, RevisionsFit, ReceiptIsEarned, MirroredOnce,
           ConfirmedIsApplied, EntriesFit
<1> QED  BY <1>1, <1>2, <1>3

(* An INSERT ends: it writes a row that is not there under a key that no other
   fan-out holds, or nothing. *)
LEMMA EndInsertInv ==
  ASSUME FederationInv, NEW p \in Publishers, NEW s \in todo[p], NEW w \in BOOLEAN,
         pc[p] = "fanout", EndInsert(p, s, w),
         w => status[<<event[p], s>>] = "absent" /\ ~ KeyLocked(p, s)
  PROVE  FederationInv'
<1> USE FederationAssumption DEF FederationInv, publishing, queue, target
<1>0. s \in Sites  BY DEF TypeOK
<1>1. TypeOK'
  <2>1. seen[p][s].revision \in 0..MaxChanges  BY <1>0 DEF TypeOK, Edges
  <2>2. pinned' \in [Rows -> {None} \union 0..MaxChanges]
    BY <2>1 DEF EndInsert, TypeOK
  <2>3. todo' \in [Publishers -> SUBSET Sites]  BY DEF EndInsert, TypeOK
  <2>4. fresh' = fresh \/ fresh' = [fresh EXCEPT ![p] = @ \union {s}]
    BY DEF EndInsert
  <2>5. fresh' \in [Publishers -> SUBSET Sites]
    <3>1. fresh \in [Publishers -> SUBSET Sites]  BY DEF TypeOK
    <3>2. fresh[p] \union {s} \in SUBSET Sites  BY <1>0, <3>1
    <3> HIDE DEF FederationInv
    <3> QED  BY <2>4, <3>1, <3>2
  <2>6. blocked' \in [Publishers -> SUBSET Inserts]  BY DEF EndInsert, TypeOK
  <2> QED  BY <2>2, <2>3, <2>5, <2>6 DEF EndInsert, TypeOK
<1>2. FanoutsFit'
  <2>1. /\ todo' = [todo EXCEPT ![p] = @ \ {s}]
        /\ blocked' = [blocked EXCEPT ![p] = {}]
        /\ UNCHANGED <<pc, event, seen, status>>
        /\ \/ fresh' = fresh
           \/ /\ fresh' = [fresh EXCEPT ![p] = @ \union {s}]
              /\ status[<<event[p], s>>] = "absent" /\ ~ KeyLocked(p, s)
    BY DEF EndInsert
  <2>2. \A q \in Publishers :
           /\ fresh'[q] \subseteq fresh[q] \union {s}
           /\ q # p => fresh'[q] = fresh[q] /\ todo'[q] = todo[q] /\ blocked'[q] = blocked[q]
           /\ todo'[q] \subseteq todo[q] /\ s \notin todo'[p] /\ blocked'[p] = {}
           /\ s \in fresh'[p] /\ s \notin fresh[p] =>
                 (status[<<event[p], s>>] = "absent" /\ ~ KeyLocked(p, s))
    BY <2>1 DEF TypeOK
  <2>3. ASSUME NEW q \in Publishers, NEW x \in fresh'[q]
        PROVE  status[<<event[q], x>>] = "absent" /\ ~ KeyLocked(q, x)'
    <3>1. CASE x \in fresh[q]
      <4>1. status[<<event[q], x>>] = "absent" /\ ~ KeyLocked(q, x)
        BY <3>1 DEF FanoutsFit
      <4>2. ASSUME NEW o \in Publishers \ {q}, event[o] = event[q], x \in fresh'[o]
            PROVE  FALSE
        <5>1. x \notin fresh[o]  BY <4>1, <4>2 DEF KeyLocked
        <5>2. o = p /\ x = s /\ ~ KeyLocked(p, s)  BY <2>1, <2>2, <4>2, <5>1
        <5> QED  BY <3>1, <4>2, <5>2 DEF KeyLocked
      <4> QED  BY <2>1, <4>1, <4>2 DEF KeyLocked
    <3>2. CASE x \notin fresh[q]
      <4>1. q = p /\ x = s /\ status[<<event[p], s>>] = "absent" /\ ~ KeyLocked(p, s)
        BY <2>1, <2>2, <3>2
      <4> QED  BY <2>1, <2>2, <4>1 DEF KeyLocked
    <3> QED  BY <3>1, <3>2
  <2>4. \A q \in Publishers : todo'[q] \intersect fresh'[q] = {}
    BY <2>2 DEF FanoutsFit
  <2>5. \A q \in Publishers : pc[q] # "fanout" => fresh'[q] = {} /\ todo'[q] = {}
    BY <2>1, <2>2 DEF FanoutsFit
  <2>6. \A q \in Publishers : \A i \in blocked'[q] :
           i.site \in todo'[q] /\ i.saw.member # "none"
              /\ i.saw.revision = seen[q][i.site].revision
    BY <2>2 DEF FanoutsFit
  <2> QED  BY <2>1, <2>3, <2>4, <2>5, <2>6 DEF FanoutsFit
<1> QED
  BY <1>1, <1>2
     DEF EndInsert, RevisionsFit, ReceiptIsEarned, MirroredOnce, ConfirmedIsApplied, EntriesFit

(* The two ways to come there: at once, or after the wait. *)
LEMMA InsertInv ==
  ASSUME FederationInv, NEW p \in Publishers, NEW s \in Sites,
         InsertRow(p, s) \/ KeyFreed(p, s)
  PROVE  FederationInv'
<1>1. CASE InsertRow(p, s)
  <2> DEFINE w == Admits(p, s) /\ status[<<event[p], s>>] = "absent"
  <2>1. /\ s \in todo[p] /\ pc[p] = "fanout" /\ EndInsert(p, s, w)
        /\ w => status[<<event[p], s>>] = "absent" /\ ~ KeyLocked(p, s)
    BY <1>1 DEF InsertRow
  <2>2. w \in BOOLEAN  OBVIOUS
  <2> QED  BY <2>1, <2>2, EndInsertInv
<1>2. CASE KeyFreed(p, s)
  <2> DEFINE w == status[<<event[p], s>>] = "absent"
  <2>1. s \in todo[p] /\ pc[p] = "fanout"
    BY <1>2 DEF KeyFreed, FederationInv, FanoutsFit
  <2>2. /\ EndInsert(p, s, w)
        /\ w => status[<<event[p], s>>] = "absent" /\ ~ KeyLocked(p, s)
    BY <1>2 DEF KeyFreed
  <2>3. w \in BOOLEAN  OBVIOUS
  <2> QED  BY <2>1, <2>2, <2>3, EndInsertInv
<1> QED  BY <1>1, <1>2

(* The commit shows the rows that the fan-out inserted, which were absent. *)
LEMMA EndFanoutInv ==
  ASSUME FederationInv, NEW p \in Publishers, EndFanout(p)
  PROVE  FederationInv'
<1> USE FederationAssumption DEF FederationInv, publishing, queue, target
<1>0. /\ pc' = [pc EXCEPT ![p] = "idle"] /\ event' = [event EXCEPT ![p] = NoEvent]
      /\ todo' = [todo EXCEPT ![p] = {}] /\ fresh' = [fresh EXCEPT ![p] = {}]
      /\ seen' = [seen EXCEPT ![p] = FirstEdges] /\ blocked' = [blocked EXCEPT ![p] = {}]
      /\ UNCHANGED <<edge, changes, token, attempts, due, target>>
      /\ \/ /\ status' = [r \in Rows |-> IF r[1] = event[p] /\ r[2] \in fresh[p]
                                         THEN "pending" ELSE status[r]]
            /\ UNCHANGED pinned
         \/ /\ pinned' = [r \in Rows |-> IF r[1] = event[p] /\ r[2] \in fresh[p]
                                         THEN None ELSE pinned[r]]
            /\ UNCHANGED status
  BY DEF EndFanout
<1>1. TypeOK'
  <2>1. FirstEdges \in [Sites -> Edges]  BY DEF FirstEdges, Edges
  <2>2. seen' \in [Publishers -> [Sites -> Edges]]  BY <1>0, <2>1 DEF TypeOK
  <2>3. blocked' \in [Publishers -> SUBSET Inserts]  BY <1>0 DEF TypeOK
  <2> QED  BY <1>0, <2>2, <2>3 DEF TypeOK, Statuses
<1>2. \A r \in Rows : /\ r = <<r[1], r[2]>>
                      /\ r[1] = event[p] /\ r[2] \in fresh[p] => status[r] = "absent"
  BY DEF FanoutsFit, Rows
<1>3. \A r \in Rows : \/ status'[r] = status[r]
                      \/ status'[r] = "pending" /\ status[r] = "absent"
                            /\ r[1] = event[p] /\ r[2] \in fresh[p]
  BY <1>0, <1>2
<1>4. ConfirmedIsApplied' /\ EntriesFit' /\ ReceiptIsEarned' /\ MirroredOnce' /\ RevisionsFit'
  BY <1>0, <1>3
     DEF ConfirmedIsApplied, EntriesFit, ReceiptIsEarned, MirroredOnce, RevisionsFit, TypeOK
<1>5. FanoutsFit'
  <2>1. ASSUME NEW q \in Publishers \ {p}, NEW s \in fresh[q]
        PROVE  status'[<<event[q], s>>] = "absent"
    <3>1. <<event[q], s>> \in Rows  BY FreshIsRow
    <3>2. ~ (event[q] = event[p] /\ s \in fresh[p])
      BY DEF FanoutsFit, KeyLocked, TypeOK
    <3> QED  BY <1>3, <3>1, <3>2 DEF FanoutsFit
  <2> QED  BY <1>0, <2>1 DEF FanoutsFit, KeyLocked, TypeOK
<1> QED  BY <1>1, <1>4, <1>5

(* A step on the rows of the queue alone. *)
LEMMA QueueStep ==
  ASSUME FederationInv, TypeOK', UNCHANGED <<edge, changes, publishing, target>>,
         \A r \in Rows :
            /\ status[r] = "absent" <=> status'[r] = "absent"
            /\ status[r] = "absent" => attempts'[r] = attempts[r]
            /\ status'[r] = "application_confirmed" =>
                  inbox[r] = "applied"
            /\ status'[r] = "pending" => token'[r] = 0
            /\ token'[r] \in {0, attempts'[r]}
  PROVE  FederationInv'
<1> USE DEF FederationInv, publishing, target
<1>1. FanoutsFit'
  <2>1. ASSUME NEW p \in Publishers, NEW s \in fresh[p]
        PROVE  status'[<<event[p], s>>] = "absent"
    <3>1. <<event[p], s>> \in Rows  BY FreshIsRow
    <3> QED  BY <3>1 DEF FanoutsFit
  <2> QED  BY <2>1 DEF FanoutsFit, KeyLocked
<1> QED
  BY <1>1
     DEF RevisionsFit, ReceiptIsEarned, MirroredOnce, ConfirmedIsApplied, EntriesFit

(* release_expired() and claim_batch(). *)
LEMMA ClaimInv ==
  ASSUME FederationInv, Release \/ \E r \in Rows : Claim(r)
  PROVE  FederationInv'
<1> USE FederationAssumption DEF FederationInv, publishing, queue, target
<1>1. CASE Release
  <2>1. TypeOK'  BY <1>1 DEF Release, TokenAfterRelease, TypeOK, Statuses
  <2> QED
    BY <1>1, <2>1, QueueStep
       DEF Release, TokenAfterRelease, Lapsed, TypeOK, EntriesFit, ConfirmedIsApplied
<1>2. ASSUME NEW r \in Rows, Claim(r) PROVE FederationInv'
  <2>1. attempts[r] + 1 \in 0..MaxAttempts  BY <1>2 DEF Claim, TypeOK
  <2>2. TypeOK'  BY <1>2, <2>1 DEF Claim, TokenAfterRelease, TypeOK, Statuses
  <2> QED
    BY <1>2, <2>1, <2>2, QueueStep
       DEF Claim, Waits, TokenAfterRelease, Lapsed, TypeOK, EntriesFit, ConfirmedIsApplied
<1> QED  BY <1>1, <1>2

(* Time, acknowledgements and failures under the token, and confirmations. *)
LEMMA RowInv ==
  ASSUME FederationInv, NEW r \in Rows,
         TimePasses(r) \/ Confirm(r) \/ \E n \in 1..MaxAttempts : Ack(r, n) \/ Fail(r, n)
  PROVE  FederationInv'
<1> USE FederationAssumption DEF FederationInv, publishing, queue, target
<1>1. CASE TimePasses(r)
  <2>1. TypeOK'  BY <1>1 DEF TimePasses, TypeOK
  <2> QED
    BY <1>1, <2>1, QueueStep DEF TimePasses, TypeOK, EntriesFit, ConfirmedIsApplied
<1>2. CASE Confirm(r)
  <2>1. TypeOK'  BY <1>2 DEF Confirm, TypeOK, Statuses
  <2>2. inbox[r] = "applied"  BY <1>2 DEF Confirm, Evidence, ReceiptIsEarned
  <2> QED
    BY <1>2, <2>1, <2>2, QueueStep DEF Confirm, TypeOK, EntriesFit, ConfirmedIsApplied
<1>3. ASSUME NEW n \in 1..MaxAttempts, NEW s \in {"acked", "failed"}, Answer(r, n, s)
      PROVE  FederationInv'
  <2>1. TypeOK'  BY <1>3 DEF Answer, TypeOK, Statuses
  <2>2. status[r] # "absent"
    BY <1>3 DEF Answer, EntriesFit, TypeOK
  <2> QED
    BY <1>3, <2>1, <2>2, QueueStep DEF Answer, TypeOK, EntriesFit, ConfirmedIsApplied
<1> QED  BY <1>1, <1>2, <1>3 DEF Ack, Fail

(* The inbox takes a delivery once, applies it once and mirrors it once. *)
LEMMA TargetInv ==
  ASSUME FederationInv, NEW r \in Rows, Deliver(r) \/ Reserve(r) \/ Apply(r) \/ RefuseHash(r)
  PROVE  FederationInv'
<1> USE FederationAssumption DEF FederationInv, publishing, queue, target
<1>1. ASSUME NEW b \in {"exact", "other_hash", "other_queue"}, Receive(r, b),
             status[r] = "absent" => b = "other_queue"
      PROVE  FederationInv'
  <2>1. TypeOK'  BY <1>1 DEF Receive, TypeOK
  <2> QED
    BY <1>1, <2>1
       DEF Receive, InboxTakes, TypeOK, RevisionsFit, ReceiptIsEarned, MirroredOnce,
           ConfirmedIsApplied, EntriesFit, FanoutsFit, KeyLocked
<1>2. Handed(r) => status[r] # "absent"  BY DEF Handed, EntriesFit, TypeOK
<1>3. CASE Deliver(r)  BY <1>1, <1>2, <1>3 DEF Deliver
<1>4. CASE Reserve(r)  BY <1>1, <1>4 DEF Reserve
<1>5. CASE Apply(r)
  <2>1. r[1] \in Events  BY DEF Rows
  <2>2. /\ mirror' \in [Events -> Nat] /\ mirror'[r[1]] = 1
        /\ \A e \in Events : mirror'[e] = mirror[e] \/ e = r[1]
    <3>1. mirror \in [Events -> Nat] /\ mirror[r[1]] \in {0, 1}
      <4>1. mirror \in [Events -> Nat] /\ mirror[r[1]] \in Nat  BY <2>1 DEF TypeOK
      <4>2. mirror[r[1]] <= 1  BY <2>1 DEF MirroredOnce
      <4> QED  BY <4>1, <4>2
    <3>2. mirror' = [mirror EXCEPT ![r[1]] =
                        IF mirror[r[1]] = 0 THEN mirror[r[1]] + 1 ELSE mirror[r[1]]]
      BY <1>5 DEF Apply, MirrorMissing
    <3> QED  BY <2>1, <3>1, <3>2
  <2>3. TypeOK'  BY <1>5, <2>2 DEF Apply, TypeOK
  <2>4. MirroredOnce'  BY <2>2 DEF MirroredOnce
  <2>5. ReceiptIsEarned'
    <3>1. \A q \in Rows : mirror[q[1]] > 0 => mirror'[q[1]] > 0
      BY <2>2 DEF Rows
    <3> QED  BY <1>5, <2>2, <3>1 DEF Apply, Applies, ReceiptIsEarned, TypeOK
  <2> QED
    BY <1>2, <1>5, <2>3, <2>4, <2>5
       DEF Apply, TypeOK, RevisionsFit, ConfirmedIsApplied, EntriesFit, FanoutsFit, KeyLocked
<1>6. CASE RefuseHash(r)
  <2>1. TypeOK'  BY <1>6 DEF RefuseHash, TypeOK
  <2> QED
    BY <1>2, <1>6, <2>1
       DEF RefuseHash, TypeOK, RevisionsFit, ReceiptIsEarned, MirroredOnce,
           ConfirmedIsApplied, EntriesFit, FanoutsFit, KeyLocked
<1> QED  BY <1>3, <1>4, <1>5, <1>6

LEMMA StepInv == FederationInv /\ [Next]_vars => FederationInv'
<1> SUFFICES ASSUME FederationInv, [Next]_vars PROVE FederationInv'
  OBVIOUS
<1>1. CASE \E s \in Sites : GovernanceChanges(s)  BY <1>1, GovernanceInv
<1>2. CASE \E p \in Publishers : Publish(p)
  BY <1>2, PublishInv, InsertInv, EndFanoutInv DEF Publish
<1>3. CASE Release  BY <1>3, ClaimInv
<1>4. CASE \E r \in Rows : RowStep(r)
  BY <1>4, ClaimInv, RowInv, TargetInv DEF RowStep
<1>5. CASE UNCHANGED vars
  BY <1>5 DEF vars, publishing, queue, target, FederationInv, TypeOK, RevisionsFit,
              ReceiptIsEarned, MirroredOnce, ConfirmedIsApplied, EntriesFit,
              FanoutsFit, KeyLocked
<1> QED  BY <1>1, <1>2, <1>3, <1>4, <1>5 DEF Next

(* FederationInv holds in every reachable state. *)
THEOREM FederationInvHolds == Spec => []FederationInv
  BY InitInv, StepInv, PTL DEF Spec

(* The source believes only in what the target applied: the queue confirms a row
   on the receipt, and nothing takes an application back. *)
THEOREM ConfirmedIsAppliedHolds == Spec => []ConfirmedIsApplied
<1>1. FederationInv => ConfirmedIsApplied  BY DEF FederationInv
<1> QED  BY <1>1, FederationInvHolds, PTL

(* A receipt stands for an application of what was delivered. *)
THEOREM ReceiptIsEarnedHolds == Spec => []ReceiptIsEarned
<1>1. FederationInv => ReceiptIsEarned  BY DEF FederationInv
<1> QED  BY <1>1, FederationInvHolds, PTL

(* However many sites and deliveries, one mirror per event. *)
THEOREM MirroredOnceHolds == Spec => []MirroredOnce
<1>1. FederationInv => MirroredOnce  BY DEF FederationInv
<1> QED  BY <1>1, FederationInvHolds, PTL

(* ack() and fail() need a token, which a row that waits does not have. *)
LEMMA PendingStep ==
  ASSUME FederationInv, [Next]_vars, NEW r \in Rows, status[r] = "pending"
  PROVE  status'[r] \in {"pending", "claimed"}
<1> USE DEF FederationInv, publishing, queue, target
<1>1. CASE \E p \in Publishers : Publish(p)
  <2>1. ASSUME NEW p \in Publishers, EndFanout(p) PROVE status'[r] \in {"pending", "claimed"}
    BY <2>1 DEF EndFanout
  <2> QED
    BY <1>1, <2>1
       DEF Publish, LoadEdges, BeginFanout, InsertRow, WaitForKey, KeyFreed, EndInsert
<1>2. CASE Release  BY <1>2 DEF Release, Lapsed
<1>3. ASSUME NEW q \in Rows, RowStep(q) PROVE status'[r] \in {"pending", "claimed"}
  <2>1. CASE Claim(q)  BY <2>1 DEF Claim, Lapsed
  <2>2. CASE Confirm(q)  BY <2>2 DEF Confirm, TypeOK
  <2>3. ASSUME NEW n \in 1..MaxAttempts, Ack(q, n) \/ Fail(q, n)
        PROVE  status'[r] \in {"pending", "claimed"}
    BY <2>3 DEF Ack, Fail, Answer, EntriesFit, TypeOK
  <2> QED
    BY <1>3, <2>1, <2>2, <2>3
       DEF RowStep, TimePasses, Deliver, Reserve, Receive, Apply, RefuseHash
<1> QED  BY <1>1, <1>2, <1>3 DEF Next, GovernanceChanges, vars

THEOREM LapsedClaimHasNoSayHolds == Spec => LapsedClaimHasNoSay
<1>1. FederationInv /\ [Next]_vars
        => [\A r \in Rows :
              status[r] = "pending" => status'[r] \in {"pending", "claimed"}]_vars
  BY PendingStep
<1> QED  BY <1>1, FederationInvHolds, PTL DEF Spec, LapsedClaimHasNoSay

(* A row is pinned at the end of its INSERT, to the revision of the edges that the
   publisher loaded, which the statement compared with those of its snapshot; and
   unpinned by a rollback. *)
LEMMA PinStep ==
  ASSUME FederationInv, [Next]_vars, NEW r \in Rows, pinned'[r] # pinned[r], pinned'[r] # None
  PROVE  \E p \in Publishers : \E e \in Sees(p, r[2]) :
            event[p] = r[1] /\ e.member # "none" /\ pinned'[r] = e.revision
<1> DEFINE Goal == \E p \in Publishers : \E e \in Sees(p, r[2]) :
                      event[p] = r[1] /\ e.member # "none" /\ pinned'[r] = e.revision
<1> USE DEF queue, target, publishing
<1>1. ASSUME NEW p \in Publishers, NEW s \in Sites, NEW w \in BOOLEAN, EndInsert(p, s, w)
      PROVE  w /\ r = <<event[p], s>> /\ pinned'[r] = seen[p][s].revision
  <2>1. /\ w
        /\ pinned' = [pinned EXCEPT ![<<event[p], s>>] = seen[p][s].revision]
    BY <1>1 DEF EndInsert
  <2> QED  BY <2>1 DEF FederationInv, TypeOK
<1>2. ASSUME NEW p \in Publishers, NEW s \in Sites, InsertRow(p, s)
      PROVE  Goal
  <2> DEFINE w == Admits(p, s) /\ status[<<event[p], s>>] = "absent"
  <2>1. w \in BOOLEAN /\ EndInsert(p, s, w) /\ blocked[p] = {}  BY <1>2 DEF InsertRow
  <2>2. w /\ r = <<event[p], s>> /\ pinned'[r] = seen[p][s].revision  BY <1>1, <2>1
  <2>3. edge[s] \in Sees(p, s)  BY <2>1 DEF Sees
  <2> QED  BY <2>2, <2>3 DEF Admits
<1>3. ASSUME NEW p \in Publishers, NEW s \in Sites, KeyFreed(p, s)
      PROVE  Goal
  <2> DEFINE w == status[<<event[p], s>>] = "absent"
  <2>1. w \in BOOLEAN /\ EndInsert(p, s, w)  BY <1>3 DEF KeyFreed
  <2>2. r = <<event[p], s>> /\ pinned'[r] = seen[p][s].revision  BY <1>1, <2>1
  <2>3. PICK i \in blocked[p] : i.site = s  BY <1>3 DEF KeyFreed
  <2>4. i.saw \in Sees(p, s)  BY <2>3 DEF Sees
  <2>5. i.saw.member # "none" /\ i.saw.revision = seen[p][s].revision
    BY <2>3 DEF FederationInv, FanoutsFit
  <2> QED  BY <2>2, <2>4, <2>5
<1>4. ASSUME NEW p \in Publishers, EndFanout(p) PROVE FALSE
  BY <1>4 DEF EndFanout
<1>5. CASE \E p \in Publishers : Publish(p)
  BY <1>2, <1>3, <1>4, <1>5 DEF Publish, LoadEdges, BeginFanout, WaitForKey
<1> QED
  BY <1>5 DEF Next, vars, GovernanceChanges, Release, RowStep, Claim, TimePasses, Confirm,
              Ack, Fail, Answer, Deliver, Reserve, Receive, Apply, RefuseHash

(* No row is written under a revision that its INSERT did not see in force. *)
THEOREM AuthorizedByItsInsertHolds == Spec => AuthorizedByItsInsert
<1>1. FederationInv /\ [Next]_vars
        => [\A r \in Rows :
              pinned'[r] # pinned[r] /\ pinned'[r] # None =>
                  \E p \in Publishers : \E e \in Sees(p, r[2]) :
                     event[p] = r[1] /\ e.member # "none" /\ pinned'[r] = e.revision]_vars
  BY PinStep
<1> QED  BY <1>1, FederationInvHolds, PTL DEF Spec, AuthorizedByItsInsert

-----------------------------------------------------------------------------
(* The refinement of ProjectionDelivery. *)

Queued == {r \in Rows : status[r] # "absent"}
Applied == {r \in Rows : inbox[r] = "applied"}
Believed == {r \in Rows : status[r] = "application_confirmed"}

LEMMA InitRefines == Init => Federation!Init
  BY DEF Init, Federation!Init

\* A step that leaves what the mapping reads alone is a stutter.
LEMMA StutterRefines ==
  ASSUME UNCHANGED <<Queued, Applied, Believed, mirror>>
  PROVE  [Federation!Next]_(Federation!vars)
  BY DEF Queued, Applied, Believed, Federation!vars

\* A publish queues rows of one event.
LEMMA EndFanoutRefines ==
  ASSUME FederationInv, NEW p \in Publishers, EndFanout(p)
  PROVE  [Federation!Next]_(Federation!vars)
<1> USE DEF target
<1>1. UNCHANGED <<inbox, mirror>>  BY DEF EndFanout
<1>2. CASE status' = status
  BY <1>1, <1>2, StutterRefines DEF Queued, Applied, Believed
<1>3. CASE status' = [r \in Rows |-> IF r[1] = event[p] /\ r[2] \in fresh[p]
                                     THEN "pending" ELSE status[r]]
  <2>1. CASE fresh[p] = {}
    <3>1. \A r \in Rows : status'[r] = status[r]  BY <1>3, <2>1
    <3> QED  BY <1>1, <3>1, StutterRefines DEF Queued, Applied, Believed
  <2>2. CASE fresh[p] # {}
    <3>1. event[p] \in Events /\ fresh[p] \in SUBSET Sites
      <4>1. PICK s \in fresh[p] : TRUE  BY <2>2
      <4>2. <<event[p], s>> \in Rows  BY <4>1, FreshIsRow
      <4> QED  BY <4>2 DEF Rows, FederationInv, TypeOK
    <3>2. Queued' = Queued \union ({event[p]} \X fresh[p])
      <4>1. \A r \in Rows : r \in {event[p]} \X fresh[p] <=> r[1] = event[p] /\ r[2] \in fresh[p]
        BY DEF Rows
      <4>2. {event[p]} \X fresh[p] \subseteq Rows  BY <3>1 DEF Rows
      <4>3. \A r \in Rows : status'[r] # "absent" <=>
               status[r] # "absent" \/ r \in {event[p]} \X fresh[p]
        BY <1>3, <4>1
      <4> QED  BY <4>2, <4>3 DEF Queued
    <3>3. \A r \in Rows : status'[r] = "application_confirmed" <=>
                              status[r] = "application_confirmed"
      <4>1. ASSUME NEW r \in Rows, r[1] = event[p], r[2] \in fresh[p]
            PROVE  status[r] = "absent"
        BY <4>1 DEF FederationInv, FanoutsFit, Rows
      <4> QED  BY <1>3, <4>1
    <3>4. Believed' = Believed /\ Applied' = Applied
      BY <1>1, <3>3 DEF Believed, Applied
    <3>5. PICK e \in Events, to \in SUBSET Sites : e = event[p] /\ to = fresh[p]
      BY <3>1
    <3>6. Federation!Queue(e)
      BY <1>1, <3>2, <3>4, <3>5 DEF Queued, Applied, Believed, Federation!Queue
    <3> QED  BY <3>6 DEF Federation!Next
  <2> QED  BY <2>1, <2>2
<1> QED  BY <1>2, <1>3 DEF EndFanout

\* Claims and the lapse of claims change no belief.
LEMMA ClaimRefines ==
  ASSUME FederationInv, Release \/ \E r \in Rows : Claim(r)
  PROVE  [Federation!Next]_(Federation!vars)
<1> USE DEF target
<1>1. UNCHANGED <<inbox, mirror>>  BY DEF Release, Claim
<1>2. ASSUME NEW q \in Rows
      PROVE  /\ status'[q] # "absent" <=> status[q] # "absent"
             /\ status'[q] = "application_confirmed" <=> status[q] = "application_confirmed"
  <2>1. CASE Release  BY <2>1 DEF Release, Lapsed
  <2>2. ASSUME NEW r \in Rows, Claim(r)
        PROVE  \/ status'[q] = status[q]
               \/ /\ status'[q] \in {"claimed", "pending"}
                  /\ status[q] \in {"claimed", "pending", "failed"}
    BY <2>2 DEF Claim, Waits, Lapsed
  <2> QED  BY <2>1, <2>2
<1>3. Queued' = Queued /\ Believed' = Believed
  BY <1>2 DEF Queued, Believed
<1> QED  BY <1>1, <1>3, StutterRefines DEF Applied

\* A confirmation is a belief; an answer may withdraw one.
LEMMA RowRefines ==
  ASSUME FederationInv, NEW r \in Rows,
         TimePasses(r) \/ Confirm(r) \/ \E n \in 1..MaxAttempts : Ack(r, n) \/ Fail(r, n)
  PROVE  [Federation!Next]_(Federation!vars)
<1> USE DEF target
<1>0. PICK e \in Events, s \in Sites : r = <<e, s>>  BY DEF Rows
<1>1. CASE TimePasses(r)
  BY <1>1, StutterRefines DEF TimePasses, Queued, Applied, Believed
<1>2. CASE Confirm(r)
  <2>1. r \in Applied
    BY <1>2 DEF Confirm, Evidence, Applied, FederationInv, ReceiptIsEarned
  <2>2. UNCHANGED <<inbox, mirror>> /\ status[r] = "acked"
        /\ status' = [status EXCEPT ![r] = "application_confirmed"]
    BY <1>2 DEF Confirm
  <2>3. Believed' = Believed \union {r} /\ Queued' = Queued /\ Applied' = Applied
    BY <2>2 DEF Believed, Queued, Applied, FederationInv, TypeOK
  <2>4. Federation!Believe(e, s)
    BY <1>0, <2>1, <2>2, <2>3 DEF Federation!Believe, Queued, Applied, Believed
  <2> QED  BY <2>4 DEF Federation!Next
<1>3. ASSUME NEW n \in 1..MaxAttempts, NEW a \in {"acked", "failed"}, Answer(r, n, a)
      PROVE  [Federation!Next]_(Federation!vars)
  <2>1. UNCHANGED <<inbox, mirror>> /\ status' = [status EXCEPT ![r] = a]
    BY <1>3 DEF Answer
  <2>2. status[r] # "absent"
    BY <1>3 DEF Answer, FederationInv, EntriesFit, TypeOK
  <2>3. Believed' = Believed \ {r} /\ Queued' = Queued /\ Applied' = Applied
    BY <2>1, <2>2 DEF Believed, Queued, Applied, FederationInv, TypeOK
  <2>4. Federation!Withdraw(e, s)
    BY <1>0, <2>1, <2>3 DEF Federation!Withdraw, Queued, Applied, Believed
  <2> QED  BY <2>4 DEF Federation!Next
<1> QED  BY <1>1, <1>2, <1>3 DEF Ack, Fail

\* The target applies once; all else it does is invisible.
LEMMA TargetRefines ==
  ASSUME FederationInv, NEW r \in Rows, Deliver(r) \/ Reserve(r) \/ Apply(r) \/ RefuseHash(r)
  PROVE  [Federation!Next]_(Federation!vars)
<1> USE DEF queue
<1>0. PICK e \in Events, s \in Sites : r = <<e, s>>  BY DEF Rows
<1>1. CASE Deliver(r) \/ Reserve(r) \/ RefuseHash(r)
  <2>1. PICK i \in {"received", "reconcile_required"} :
           /\ inbox' = [inbox EXCEPT ![r] = i] /\ inbox[r] \in {"absent", "received"}
           /\ UNCHANGED <<status, mirror>>
    BY <1>1 DEF Deliver, Reserve, RefuseHash, Receive, InboxTakes
  <2>2. Applied' = Applied
    BY <2>1 DEF Applied, FederationInv, TypeOK
  <2> QED  BY <2>1, <2>2, StutterRefines DEF Queued, Believed
<1>2. CASE Apply(r)
  <2>1. /\ inbox' = [inbox EXCEPT ![r] = "applied"] /\ inbox[r] = "received"
        /\ UNCHANGED status /\ attempts[r] > 0
    BY <1>2 DEF Apply, Applies, Handed
  <2>2. r \in Queued \ Applied
    BY <2>1 DEF Queued, Applied, FederationInv, EntriesFit, TypeOK
  <2>3. Applied' = Applied \union {r} /\ Queued' = Queued /\ Believed' = Believed
    BY <2>1 DEF Queued, Applied, Believed, FederationInv, TypeOK
  <2>4. mirror' = [mirror EXCEPT ![e] = 1]
    <3>1. mirror \in [Events -> Nat] /\ mirror[e] \in Nat  BY DEF FederationInv, TypeOK
    <3>2. mirror[e] <= 1  BY DEF FederationInv, MirroredOnce
    <3>3. mirror' = [mirror EXCEPT ![e] = IF mirror[e] = 0 THEN mirror[e] + 1 ELSE mirror[e]]
      BY <1>0, <1>2 DEF Apply, MirrorMissing
    <3>4. (IF mirror[e] = 0 THEN mirror[e] + 1 ELSE mirror[e]) = 1
      BY <3>1, <3>2
    <3> QED  BY <3>3, <3>4
  <2>5. Federation!Apply(e, s)
    BY <1>0, <2>2, <2>3, <2>4 DEF Federation!Apply, Queued, Applied, Believed
  <2> QED  BY <2>5 DEF Federation!Next
<1> QED  BY <1>1, <1>2

LEMMA StepRefines ==
  FederationInv /\ [Next]_vars => [Federation!Next]_(Federation!vars)
<1> SUFFICES ASSUME FederationInv, [Next]_vars PROVE [Federation!Next]_(Federation!vars)
  OBVIOUS
<1>1. CASE UNCHANGED <<status, inbox, mirror>>
  BY <1>1, StutterRefines DEF Queued, Applied, Believed
<1>2. CASE \E s \in Sites : GovernanceChanges(s)
  BY <1>1, <1>2 DEF GovernanceChanges, queue, target
<1>3. CASE \E p \in Publishers : Publish(p)
  BY <1>1, <1>3, EndFanoutRefines
     DEF Publish, LoadEdges, BeginFanout, InsertRow, WaitForKey, KeyFreed, EndInsert, queue, target
<1>4. CASE Release  BY <1>4, ClaimRefines
<1>5. CASE \E r \in Rows : RowStep(r)
  BY <1>5, ClaimRefines, RowRefines, TargetRefines DEF RowStep
<1>6. CASE UNCHANGED vars  BY <1>1, <1>6 DEF vars, queue, target
<1> QED  BY <1>2, <1>3, <1>4, <1>5, <1>6 DEF Next

(* The queue, the inbox and the receipts implement the promise of federation. *)
THEOREM PromisedHolds == Spec => Promised
  BY InitRefines, StepRefines, FederationInvHolds, PTL DEF Spec, Promised, Federation!Spec
=============================================================================
