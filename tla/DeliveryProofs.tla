--------------------------- MODULE DeliveryProofs ---------------------------
(***************************************************************************)
(* Proofs about the two queues that keep what is to be sent until it was:  *)
(* OutboxRelay, for every set of relays and events and every attempt       *)
(* limit, batch size and number of crashes, and OfflineSync, for every     *)
(* number of overlapping replays, requests and reloads.                    *)
(*                                                                         *)
(* RelayInv is inductive, and an event is marked only by the relay that    *)
(* holds its claim.  SyncInv is inductive: it ties the attempts of the     *)
(* entry in memory to those that the replays at hand may still add, and    *)
(* the requests that were served to the key at the server.                 *)
(***************************************************************************)
EXTENDS OutboxRelay, OfflineSync, FiniteSetTheorems, TLAPS

-----------------------------------------------------------------------------
(* The transactional outbox: OutboxRelay. *)

(* The relays that hold an event are finitely many, at most all of them. *)
LEMMA HoldersCount ==
  ASSUME NEW H \in SUBSET Relays
  PROVE  /\ Cardinality(Relays) \in Nat
         /\ Cardinality(H) \in 0..Cardinality(Relays)
  BY RelayAssumption, FS_Subset, FS_CardinalityType

(* A relay that is not among the holders leaves room for one more attempt. *)
LEMMA HoldersButOne ==
  ASSUME NEW r \in Relays, NEW H \in SUBSET (Relays \ {r})
  PROVE  Cardinality(H) <= Cardinality(Relays) - 1
<1>1. /\ IsFiniteSet(Relays \ {r})
      /\ Cardinality(Relays \ {r}) = Cardinality(Relays) - 1
  BY RelayAssumption, FS_RemoveElement
<1> QED  BY <1>1, FS_Subset

(* Letting go of an event lowers the number of its holders. *)
LEMMA HoldersLoseOne ==
  ASSUME NEW H \in SUBSET Relays, NEW r \in H
  PROVE  Cardinality(H \ {r}) = Cardinality(H) - 1
  BY RelayAssumption, FS_Subset, FS_RemoveElement

(* The bound of attempt_count in TypeOK follows from AttemptsLeft. *)
LEMMA AttemptsFit ==
  ASSUME NEW e \in Events, attempts[e] \in Nat, AttemptsLeft(e)
  PROVE  attempts[e] \in 0..MaxAttempts + Cardinality(Relays) - 1
<1>1. Holders(e) \in SUBSET Relays  BY DEF Holders
<1> QED  BY <1>1, HoldersCount, RelayAssumption DEF AttemptsLeft

(* Nothing is written, claimed or counted at the start. *)
LEMMA InitInv == Init => RelayInv
<1> SUFFICES ASSUME Init PROVE RelayInv  OBVIOUS
<1>1. Cardinality(Relays) \in Nat  BY HoldersCount
<1> QED
  BY <1>1, RelayAssumption
     DEF Init, RelayInv, TypeOK, MarkedIsDurable, PublishedIsReleased,
         HandFits, AttemptsLeft, Places

(* A step that takes no event in hand and counts nothing keeps the bound. *)
LEMMA AttemptsKept ==
  ASSUME RelayInv, UNCHANGED attempts, NEW e \in Events,
         Holders(e)' \subseteq Holders(e) \/ attempts[e] < MaxAttempts
  PROVE  AttemptsLeft(e)'
<1>1. CASE attempts[e] < MaxAttempts  BY <1>1 DEF AttemptsLeft
<1>2. CASE attempts[e] >= MaxAttempts /\ Holders(e)' \subseteq Holders(e)
  <2>1. Holders(e) \in SUBSET Relays  BY DEF Holders
  <2>2. IsFiniteSet(Holders(e))  BY <2>1, RelayAssumption, FS_Subset
  <2>3. Cardinality(Holders(e)') <= Cardinality(Holders(e))
    BY <1>2, <2>2, FS_Subset
  <2>4. /\ Cardinality(Holders(e)) \in Nat /\ Cardinality(Holders(e)') \in Nat
        /\ Cardinality(Relays) \in Nat
    BY <1>2, <2>1, HoldersCount
  <2>5. attempts[e] + Cardinality(Holders(e)) <= MaxAttempts + Cardinality(Relays) - 1
    BY <1>2, RelayAssumption DEF RelayInv, TypeOK, AttemptsLeft
  <2>6. attempts[e] \in Nat  BY <2>4, RelayAssumption DEF RelayInv, TypeOK
  <2>7. attempts'[e] + Cardinality(Holders(e)') <= MaxAttempts + Cardinality(Relays) - 1
    BY <2>3, <2>4, <2>5, <2>6, RelayAssumption
  <2> QED  BY <2>7 DEF AttemptsLeft
<1>3. attempts[e] \in Nat /\ MaxAttempts \in Nat
  BY HoldersCount, RelayAssumption DEF RelayInv, TypeOK
<1> QED  BY <1>1, <1>2, <1>3

(* The steps that neither claim nor count: the rest of the invariant speaks
   of rows, the stream and what the relays have in hand. *)
LEMMA EnqueueInv == ASSUME RelayInv, NEW e \in Events, Enqueue(e) PROVE RelayInv'
<1> USE DEF Enqueue, relay
<1>1. TypeOK'  BY DEF RelayInv, TypeOK
<1>2. MarkedIsDurable' /\ PublishedIsReleased'
  BY DEF RelayInv, MarkedIsDurable, PublishedIsReleased
<1>3. \A r \in Relays : HandFits(r)'  BY DEF RelayInv, HandFits
<1>4. \A f \in Events : AttemptsLeft(f)'  BY AttemptsKept DEF Holders
<1> QED  BY <1>1, <1>2, <1>3, <1>4 DEF RelayInv

(* A lease that runs out was live, so its row is not published. *)
LEMMA LeaseExpiresInv ==
  ASSUME RelayInv, NEW e \in Events, LeaseExpires(e) PROVE RelayInv'
<1> USE DEF LeaseExpires, relay
<1>1. TypeOK'  BY DEF RelayInv, TypeOK
<1>2. MarkedIsDurable' /\ PublishedIsReleased'
  BY DEF RelayInv, TypeOK, MarkedIsDurable, PublishedIsReleased
<1>3. \A r \in Relays : HandFits(r)'  BY DEF RelayInv, HandFits
<1>4. \A f \in Events : AttemptsLeft(f)'  BY AttemptsKept DEF Holders
<1> QED  BY <1>1, <1>2, <1>3, <1>4 DEF RelayInv

(* Only rows with attempts left and not yet published are claimed. *)
LEMMA ClaimBatchInv ==
  ASSUME RelayInv, NEW r \in Relays, ClaimBatch(r) PROVE RelayInv'
<1> USE DEF ClaimBatch
<1>0. PICK sel \in SUBSET {e \in Events : Claimable(e)} :
         /\ claimedBy' = [e \in Events |-> IF e \in sel THEN r ELSE claimedBy[e]]
         /\ lease' = [e \in Events |-> IF e \in sel THEN "live" ELSE lease[e]]
         /\ batch' = [batch EXCEPT ![r] = sel]
  OBVIOUS
<1>1. TypeOK'  BY <1>0 DEF RelayInv, TypeOK, Places
<1>2. MarkedIsDurable' /\ PublishedIsReleased'
  BY <1>0 DEF RelayInv, TypeOK, MarkedIsDurable, PublishedIsReleased, Claimable
<1>3. \A s \in Relays : HandFits(s)'
  BY <1>0 DEF RelayInv, TypeOK, HandFits, Claimable
<1>4. ASSUME NEW f \in Events PROVE AttemptsLeft(f)'
  <2>1. CASE f \in sel  BY <1>0, <2>1, AttemptsKept DEF Claimable
  <2>2. CASE f \notin sel
    <3>1. Holders(f)' \subseteq Holders(f)
      BY <1>0, <2>2 DEF Holders, RelayInv, TypeOK
    <3> QED  BY <3>1, AttemptsKept
  <2> QED  BY <2>1, <2>2
<1> QED  BY <1>1, <1>2, <1>3, <1>4 DEF RelayInv

(* An event moves from the batch to the hand: its holders stay the same. *)
LEMMA NextEventInv ==
  ASSUME RelayInv, NEW r \in Relays, NextEvent(r) PROVE RelayInv'
<1> USE RelayAssumption DEF NextEvent, rows
<1>1. TypeOK'  BY DEF RelayInv, TypeOK, Places
<1>2. MarkedIsDurable' /\ PublishedIsReleased'
  BY DEF RelayInv, MarkedIsDurable, PublishedIsReleased
<1>3. \A s \in Relays : HandFits(s)'  BY DEF RelayInv, TypeOK, HandFits
<1>4. ASSUME NEW f \in Events PROVE AttemptsLeft(f)'
  <2>1. Holders(f)' \subseteq Holders(f)
    BY DEF Holders, RelayInv, TypeOK, HandFits
  <2> QED  BY <2>1, AttemptsKept
<1> QED  BY <1>1, <1>2, <1>3, <1>4 DEF RelayInv

(* The renewed row is claimed by the relay that renews, and unpublished. *)
LEMMA RenewClaimInv ==
  ASSUME RelayInv, NEW r \in Relays, RenewClaim(r) PROVE RelayInv'
<1> USE DEF RenewClaim, relay
<1>1. TypeOK'  BY DEF RelayInv, TypeOK
<1>2. MarkedIsDurable' /\ PublishedIsReleased'
  BY DEF RelayInv, TypeOK, MarkedIsDurable, PublishedIsReleased
<1>3. \A s \in Relays : HandFits(s)'  BY DEF RelayInv, HandFits
<1>4. \A f \in Events : AttemptsLeft(f)'  BY AttemptsKept DEF Holders
<1> QED  BY <1>1, <1>2, <1>3, <1>4 DEF RelayInv

(* The broker's answer: a copy may reach the stream, the row is untouched. *)
LEMMA PublishInv ==
  ASSUME RelayInv, NEW r \in Relays, PublishAcked(r) \/ PublishFails(r)
  PROVE  RelayInv'
<1> USE DEF PublishAcked, PublishFails, AfterPublish, rows
<1>0. current[r] \in written  BY DEF RelayInv, HandFits
<1>1. TypeOK'  BY <1>0 DEF RelayInv, TypeOK, Places
<1>2. MarkedIsDurable' /\ PublishedIsReleased'
  BY <1>0 DEF RelayInv, MarkedIsDurable, PublishedIsReleased
<1>3. \A s \in Relays : HandFits(s)'  BY <1>0 DEF RelayInv, TypeOK, HandFits
<1>4. \A f \in Events : AttemptsLeft(f)'  BY AttemptsKept DEF Holders
<1> QED  BY <1>1, <1>2, <1>3, <1>4 DEF RelayInv

(* The mark: the row's copy was acknowledged, and the mark releases it. *)
LEMMA MarkPublishedInv ==
  ASSUME RelayInv, NEW r \in Relays, MarkPublished(r) PROVE RelayInv'
<1> USE DEF MarkPublished, MayMark, Proceed
<1>0. current[r] \in Events /\ current[r] \in stream
  BY DEF RelayInv, TypeOK, HandFits
<1>1. TypeOK'  BY <1>0 DEF RelayInv, TypeOK, Places
<1>2. MarkedIsDurable' /\ PublishedIsReleased'
  <2>1. CASE MayMark(r, current[r])
    <3>1. /\ published' = published \union {current[r]}
          /\ deduped' = deduped \union {current[r]}
          /\ claimedBy' = [claimedBy EXCEPT ![current[r]] = NoRelay]
          /\ lease' = [lease EXCEPT ![current[r]] = "none"]
          /\ UNCHANGED <<stream, written>>
      BY <2>1
    <3>2. MarkedIsDurable'
      BY <1>0, <3>1 DEF RelayInv, MarkedIsDurable
    <3>3. PublishedIsReleased'
      BY <1>0, <3>1 DEF RelayInv, TypeOK, PublishedIsReleased
    <3> QED  BY <3>2, <3>3
  <2>2. CASE ~MayMark(r, current[r])
    <3>1. UNCHANGED <<published, deduped, claimedBy, lease, stream, written>>
      BY <2>2
    <3> QED  BY <3>1 DEF RelayInv, MarkedIsDurable, PublishedIsReleased
  <2> QED  BY <2>1, <2>2
<1>3. \A s \in Relays : HandFits(s)'  BY DEF RelayInv, TypeOK, HandFits
<1>4. ASSUME NEW f \in Events PROVE AttemptsLeft(f)'
  <2>1. Holders(f)' \subseteq Holders(f)
    BY RelayAssumption DEF Holders, RelayInv, TypeOK
  <2> QED  BY <2>1, AttemptsKept
<1> QED  BY <1>1, <1>2, <1>3, <1>4 DEF RelayInv

(* The bookkeeping is lost: the relay lets go of the event and moves on. *)
LEMMA BookkeepingLostInv ==
  ASSUME RelayInv, NEW r \in Relays, BookkeepingLost(r) PROVE RelayInv'
<1> USE DEF BookkeepingLost, Proceed
<1>1. TypeOK'  BY DEF RelayInv, TypeOK, Places
<1>2. MarkedIsDurable' /\ PublishedIsReleased'
  BY DEF RelayInv, MarkedIsDurable, PublishedIsReleased
<1>3. \A s \in Relays : HandFits(s)'  BY DEF RelayInv, TypeOK, HandFits
<1>4. ASSUME NEW f \in Events PROVE AttemptsLeft(f)'
  <2>1. Holders(f)' \subseteq Holders(f)
    BY RelayAssumption DEF Holders, RelayInv, TypeOK
  <2> QED  BY <2>1, AttemptsKept
<1> QED  BY <1>1, <1>2, <1>3, <1>4 DEF RelayInv

(* A crash empties the relay's hands; the rows and leases stay. *)
LEMMA CrashInv == ASSUME RelayInv, NEW r \in Relays, Crash(r) PROVE RelayInv'
<1> USE DEF Crash, rows
<1>0. pc[r] = "publishing" => current[r] \in written
  BY DEF RelayInv, HandFits
<1>1. TypeOK'  BY <1>0, RelayAssumption DEF RelayInv, TypeOK, Places
<1>2. MarkedIsDurable' /\ PublishedIsReleased'
  BY <1>0 DEF RelayInv, MarkedIsDurable, PublishedIsReleased
<1>3. \A s \in Relays : HandFits(s)'  BY DEF RelayInv, TypeOK, HandFits
<1>4. ASSUME NEW f \in Events PROVE AttemptsLeft(f)'
  <2>1. Holders(f)' \subseteq Holders(f)
    BY RelayAssumption DEF Holders, RelayInv, TypeOK
  <2> QED  BY <2>1, AttemptsKept
<1> QED  BY <1>1, <1>2, <1>3, <1>4 DEF RelayInv

(* A recorded failure counts one attempt and drops one holder. *)
LEMMA RecordFailureInv ==
  ASSUME RelayInv, NEW r \in Relays, RecordFailure(r) PROVE RelayInv'
<1>b. PICK e \in Events : e = current[r] /\ pc[r] = "failed" /\ e \notin batch[r]
  BY DEF RelayInv, TypeOK, HandFits, RecordFailure
<1>a. /\ attempts' = [attempts EXCEPT ![e] = @ + 1]
      /\ claimedBy' = [claimedBy EXCEPT ![e] = NoRelay]
      /\ lease' = [lease EXCEPT ![e] = "none"]
      /\ pc[r] = "failed" /\ pc' = [pc EXCEPT ![r] = "next"]
      /\ current' = [current EXCEPT ![r] = NoEvent]
      /\ UNCHANGED <<written, stream, batch, crashes, published, deduped>>
  BY <1>b DEF RecordFailure, Proceed
<1>0. /\ e \in Events /\ e = current[r] /\ e \notin batch[r]
      /\ attempts[e] \in Nat /\ Cardinality(Relays) \in Nat
  <2>1. e \in Events /\ e = current[r] /\ e \notin batch[r]
    BY <1>b
  <2> QED  BY <2>1, HoldersCount, RelayAssumption DEF RelayInv, TypeOK
<1>1. ASSUME NEW f \in Events PROVE AttemptsLeft(f)' /\ attempts'[f] \in Nat
  <2>1. CASE f # e
    <3>1. Holders(f)' \subseteq Holders(f)
      BY <1>a, RelayAssumption DEF Holders, RelayInv, TypeOK
    <3>2. attempts'[f] = attempts[f] /\ attempts[f] \in Nat
      BY <1>a, <2>1, <1>0, HoldersCount, RelayAssumption DEF RelayInv, TypeOK
    <3>3. Holders(f) \in SUBSET Relays /\ Holders(f)' \in SUBSET Relays
      BY DEF Holders
    <3>4. Cardinality(Holders(f)') <= Cardinality(Holders(f))
      BY <3>1, <3>3, RelayAssumption, FS_Subset
    <3>5. Cardinality(Holders(f)') \in Nat /\ Cardinality(Holders(f)) \in Nat
      BY <3>3, HoldersCount
    <3>6. AttemptsLeft(f)  BY DEF RelayInv
    <3> QED  BY <1>0, <3>2, <3>4, <3>5, <3>6, RelayAssumption DEF AttemptsLeft
  <2>2. CASE f = e
    <3>1. attempts'[e] = attempts[e] + 1  BY <1>0, <1>a DEF RelayInv, TypeOK
    <3>2. Holders(e) \in SUBSET Relays /\ r \in Holders(e)  BY <1>0 DEF Holders
    <3>3. Holders(e)' = Holders(e) \ {r}
      <4>1. r \notin Holders(e)'
        BY <1>0, <1>a, RelayAssumption DEF Holders, RelayInv, TypeOK
      <4>2. \A s \in Relays \ {r} : s \in Holders(e)' <=> s \in Holders(e)
        BY <1>a DEF Holders, RelayInv, TypeOK
      <4>3. Holders(e)' \subseteq Relays /\ Holders(e) \subseteq Relays
        BY DEF Holders
      <4> QED  BY <4>1, <4>2, <4>3
    <3>4. /\ Cardinality(Holders(e)') = Cardinality(Holders(e)) - 1
          /\ Cardinality(Holders(e)') <= Cardinality(Relays) - 1
          /\ Cardinality(Holders(e)) \in Nat
      <4>1. Holders(e)' \in SUBSET (Relays \ {r})  BY <3>2, <3>3
      <4>2. Cardinality(Holders(e)') <= Cardinality(Relays) - 1
        BY <4>1, HoldersButOne
      <4>3. Cardinality(Holders(e) \ {r}) = Cardinality(Holders(e)) - 1
        BY <3>2, HoldersLoseOne
      <4> QED  BY <3>2, <3>3, <4>2, <4>3, HoldersCount
    <3>5. AttemptsLeft(e)  BY <1>0 DEF RelayInv
    <3> QED
      BY <1>0, <2>2, <3>1, <3>4, <3>5, RelayAssumption DEF AttemptsLeft
  <2> QED  BY <2>1, <2>2
<1>2. TypeOK'
  <2>1. attempts' \in [Events -> 0..MaxAttempts + Cardinality(Relays) - 1]
    <3>1. \A f \in Events : attempts'[f] \in 0..MaxAttempts + Cardinality(Relays) - 1
      <4> TAKE f \in Events
      <4>1. Holders(f)' \in SUBSET Relays  BY DEF Holders
      <4>2. Cardinality(Holders(f)') \in Nat  BY <4>1, HoldersCount
      <4> QED  BY <1>1, <1>0, <4>2, RelayAssumption DEF AttemptsLeft
    <3> QED  BY <1>a, <3>1 DEF RelayInv, TypeOK
  <2> QED  BY <1>0, <1>a, <2>1 DEF RelayInv, TypeOK, Places
<1>3. MarkedIsDurable' /\ PublishedIsReleased'
  BY <1>0, <1>a DEF RelayInv, TypeOK, MarkedIsDurable, PublishedIsReleased
<1>4. \A s \in Relays : HandFits(s)'  BY <1>0, <1>a DEF RelayInv, TypeOK, HandFits
<1> QED  BY <1>1, <1>2, <1>3, <1>4 DEF RelayInv

(* A stuttering step changes nothing the invariant reads. *)
LEMMA StutterInv == ASSUME RelayInv, UNCHANGED vars PROVE RelayInv'
  BY DEF RelayInv, vars, TypeOK, MarkedIsDurable, PublishedIsReleased,
         HandFits, AttemptsLeft, Holders

(* RelayInv is inductive. *)
LEMMA StepInv == RelayInv /\ [Next]_vars => RelayInv'
  BY EnqueueInv, LeaseExpiresInv, ClaimBatchInv, NextEventInv, RenewClaimInv,
     PublishInv, MarkPublishedInv, RecordFailureInv, BookkeepingLostInv,
     CrashInv, StutterInv DEF Next, RelayStep

(* RelayInv holds in every reachable state of the outbox. *)
THEOREM RelayInvHolds == Spec => []RelayInv
  BY InitInv, StepInv, PTL DEF Spec

(* attempt_count passes MAX_ATTEMPTS by at most one per other relay, and every
   variable keeps its type. *)
THEOREM TypeCorrect == Spec => []TypeOK
<1>1. RelayInv => TypeOK  BY DEF RelayInv
<1> QED  BY <1>1, RelayInvHolds, PTL

(* A row is marked published only when the stream holds its event, and it is
   marked together with its deduplication record: mark_published(). *)
THEOREM MarkedIsDurableHolds == Spec => []MarkedIsDurable
<1>1. RelayInv => MarkedIsDurable  BY DEF RelayInv
<1> QED  BY <1>1, RelayInvHolds, PTL

(* A published row is claimed by nobody and under no lease. *)
THEOREM PublishedIsReleasedHolds == Spec => []PublishedIsReleased
<1>1. RelayInv => PublishedIsReleased  BY DEF RelayInv
<1> QED  BY <1>1, RelayInvHolds, PTL

(* No step but the owner's mark_published() sets published_at. *)
LEMMA OwnerStep ==
  ASSUME RelayInv, [Next]_vars, NEW e \in Events, e \in published' \ published
  PROVE  \E r \in Relays : pc[r] = "acked" /\ current[r] = e /\ claimedBy[e] = r
<1>1. PICK r \in Relays : MarkPublished(r)
  BY DEF Next, RelayStep, vars, rows, relay, Enqueue, LeaseExpires, ClaimBatch,
         NextEvent, RenewClaim, PublishAcked, PublishFails, RecordFailure,
         BookkeepingLost, Crash
<1>2. pc[r] = "acked" /\ current[r] = e /\ claimedBy[e] = r
  BY <1>1 DEF MarkPublished, MayMark
<1> QED  BY <1>2

(* Only the relay that holds the claim marks an event published. *)
THEOREM OnlyOwnerMarksHolds == Spec => OnlyOwnerMarks
<1>1. RelayInv /\ [Next]_vars
        => [\A e \in Events : e \in published' \ published =>
              \E r \in Relays : pc[r] = "acked" /\ current[r] = e /\ claimedBy[e] = r]_vars
  BY OwnerStep
<1> QED  BY <1>1, RelayInvHolds, PTL DEF Spec, OnlyOwnerMarks

-----------------------------------------------------------------------------
(* The offline queue: OfflineSync. *)

(* What the tab's variables hold. *)

ReplayPlaces == {"idle", "snapped", "waiting", "persisting"}

TabTypes ==
    /\ op \in Operations
    /\ mem \in Entry \union {Absent}
    /\ queued \in BOOLEAN
    /\ place \in [Replays -> ReplayPlaces]
    /\ snap \in [Replays -> Nat] /\ req \in [Replays -> 0..MaxSends]
    /\ sends \in 0..MaxSends

\* What a replay may make of the entry.
Given(s) == [mem EXCEPT !.status = s]

LEMMA EntryIs ==
    /\ \A e \in Entry : e.retries \in Nat /\ e.status # "absent"
    /\ Absent.status = "absent" /\ Absent.retries = 0
    /\ Fresh \in Entry /\ Fresh.status = "pending" /\ Fresh.retries = 0
BY DEF Entry, Absent, Fresh

LEMMA GivenIs ==
    ASSUME mem \in Entry, NEW s \in {"pending", "completed", "failed", "abandoned", "conflict"}
    PROVE  Given(s) \in Entry /\ Given(s).status = s /\ Given(s).retries = mem.retries
BY DEF Given, Entry

LEMMA RetriedIs ==
    ASSUME mem \in Entry
    PROVE  Retried \in Entry /\ Retried.status = "pending" /\ Retried.retries = mem.retries + 1
<1> DEFINE m == [mem EXCEPT !.status = "pending"]
<1>1. m \in Entry /\ m.retries = mem.retries /\ m.status = "pending" /\ mem.retries \in Nat
  BY DEF Entry
<1>2. Retried = [m EXCEPT !.retries = mem.retries + 1]
  BY DEF Retried
<1> HIDE DEF m
<1> QED  BY <1>1, <1>2 DEF Entry

LEMMA ResolvedIs ==
    ASSUME op \in Operations, mem \in Entry
    PROVE  Resolved \in Entry /\ Resolved.retries <= mem.retries + 1
<1>1. op.onConflict \in {"abandoned", "conflict", "retry"}
  BY DEF Operations
<1>2. mem.retries \in Nat
  BY DEF Entry
<1>3. CASE op.onConflict = "retry"
  BY <1>2, <1>3, RetriedIs DEF Resolved
<1>4. CASE op.onConflict # "retry"
  BY <1>1, <1>2, <1>4, GivenIs DEF Resolved, Given
<1> QED  BY <1>3, <1>4

-----------------------------------------------------------------------------
(* A replay ends, finding no entry, or changes the entry and goes on to the
   database. *)

Ends(x) == Goto(x, "idle") /\ UNCHANGED mem
Writes(x, e) == Goto(x, "persisting") /\ mem' = e /\ mem \in Entry /\ e \in Entry

LEMMA UpdateIs ==
    ASSUME mem \in Entry \union {Absent}, NEW x \in Replays, NEW e, Update(x, e),
           mem \in Entry => e \in Entry
    PROVE  Ends(x) \/ Writes(x, e)
BY EntryIs DEF Update, Ends, Writes

LEMMA GiveUpIs ==
    ASSUME TabTypes, NEW x \in Replays, GiveUp(x)
    PROVE  Ends(x) \/ \E e \in Entry : Writes(x, e) /\ e.retries = mem.retries
<1>1. mem \in Entry \union {Absent} /\ Update(x, Given("failed"))
  BY DEF GiveUp, TabTypes, Given
<1>2. Ends(x) \/ Writes(x, Given("failed"))
  BY <1>1, GivenIs, UpdateIs
<1> QED  BY <1>2, GivenIs DEF Writes

LEMMA HearIs ==
    ASSUME TabTypes, NEW x \in Replays, Hear(x)
    PROVE  Ends(x) \/ \E e \in Entry : Writes(x, e) /\ e.retries <= mem.retries + 1
<1>1. mem \in Entry \union {Absent} /\ op \in Operations
  BY DEF TabTypes
<1>2. \A e \in Entry : e.retries \in Nat
  BY EntryIs
<1>3. CASE Succeed(x)
  <2>1. Update(x, Given("completed"))
    BY <1>3 DEF Succeed, Given
  <2>2. Ends(x) \/ Writes(x, Given("completed"))
    BY <1>1, <2>1, GivenIs, UpdateIs
  <2> QED  BY <1>2, <2>2, GivenIs DEF Writes
<1>4. CASE Fail(x)
  <2>1. Update(x, Retried) \/ Update(x, Resolved)
    BY <1>4 DEF Fail
  <2>2. Ends(x) \/ Writes(x, Retried) \/ Writes(x, Resolved)
    BY <1>1, <2>1, RetriedIs, ResolvedIs, UpdateIs
  <2>3. CASE Writes(x, Retried)
    BY <1>2, <2>3, RetriedIs DEF Writes
  <2>4. CASE Writes(x, Resolved)
    BY <1>1, <1>2, <2>4, ResolvedIs DEF Writes
  <2> QED  BY <2>2, <2>3, <2>4
<1> QED  BY <1>3, <1>4 DEF Hear

LEMMA TabTypesInit == SyncInit => TabTypes
<1> SUFFICES ASSUME SyncInit PROVE TabTypes
  OBVIOUS
<1>1. queued \in BOOLEAN
  BY Zenon DEF SyncInit
<1>2. /\ op \in Operations /\ mem \in Entry \union {Absent} /\ sends \in 0..MaxSends
      /\ place \in [Replays -> ReplayPlaces]
      /\ snap \in [Replays -> Nat] /\ req \in [Replays -> 0..MaxSends]
  BY SyncAssumption DEF SyncInit, ReplayPlaces
<1> QED  BY <1>1, <1>2 DEF TabTypes

\* A replay that goes on leaves the tab well-typed.
LEMMA GoneOn ==
    ASSUME TabTypes, NEW x \in Replays, UNCHANGED <<op, queued, sends>>,
           snap' \in [Replays -> Nat], req' \in [Replays -> 0..MaxSends],
           Ends(x) \/ \E e \in Entry : Writes(x, e)
    PROVE  TabTypes'
BY DEF TabTypes, Ends, Writes, Goto, ReplayPlaces

LEMMA TabTypesStep == TabTypes /\ [SyncNext]_syncVars => TabTypes'
<1> SUFFICES ASSUME TabTypes, [SyncNext]_syncVars PROVE TabTypes'
  OBVIOUS
<1>1. CASE UNCHANGED syncVars \/ (Serve /\ UNCHANGED <<op, tab, sends>>)
  BY <1>1 DEF syncVars, tab, TabTypes
<1>2. ASSUME Queue PROVE TabTypes'
  BY <1>2, EntryIs DEF Queue, TabTypes
<1>3. ASSUME NEW x \in Replays, Snapshot(x) PROVE TabTypes'
  <2>1. mem.retries \in Nat
    BY EntryIs DEF TabTypes
  <2> QED  BY <1>3, <2>1 DEF Snapshot, Goto, TabTypes, ReplayPlaces
<1>4. ASSUME NEW x \in Replays, GiveUp(x) PROVE TabTypes'
  <2>1. /\ snap' \in [Replays -> Nat] /\ req' \in [Replays -> 0..MaxSends]
        /\ UNCHANGED <<op, queued, sends>>
    BY <1>4 DEF GiveUp, TabTypes
  <2> QED  BY <1>4, <2>1, GiveUpIs, GoneOn
<1>5. ASSUME NEW x \in Replays, Send(x) PROVE TabTypes'
  <2>1. sends + 1 \in 0..MaxSends /\ sends' = sends + 1
    BY <1>5, SyncAssumption DEF Send, TabTypes
  <2> QED  BY <1>5, <2>1 DEF Send, Goto, TabTypes, ReplayPlaces
<1>6. ASSUME NEW x \in Replays, Hear(x) PROVE TabTypes'
  <2>1. /\ snap' \in [Replays -> Nat] /\ req' \in [Replays -> 0..MaxSends]
        /\ UNCHANGED <<op, queued, sends>>
    BY <1>6, SyncAssumption DEF Hear, TabTypes
  <2> QED  BY <1>6, <2>1, HearIs, GoneOn
<1>7. ASSUME NEW x \in Replays, Persist(x) PROVE TabTypes'
  BY <1>7 DEF Persist, Goto, TabTypes, ReplayPlaces
<1>8. CASE RetryFailed
  <2>1. mem' = Given("pending") /\ mem \in Entry
    BY <1>8 DEF RetryFailed, Given, TabTypes, Absent
  <2> QED  BY <1>8, <2>1, GivenIs DEF RetryFailed, TabTypes
<1>9. CASE ClearCompleted
  BY <1>9 DEF ClearCompleted, TabTypes
<1>10. CASE Reload
  BY <1>10, SyncAssumption DEF Reload, TabTypes, ReplayPlaces
<1> QED
  BY <1>1, <1>2, <1>3, <1>4, <1>5, <1>6, <1>7, <1>8, <1>9, <1>10 DEF SyncNext, User, Replay

-----------------------------------------------------------------------------
(* Every replay that may still add an attempt is counted. *)

Adding == {x \in Replays : place[x] = "waiting" \/ (place[x] = "snapped" /\ ~ Exhausted(x))}

Limit == MaxRetry + Cardinality(Replays)

AttemptsInv == mem.retries + Cardinality(Adding) < Limit

LEMMA AddingCount ==
    ASSUME NEW A \in SUBSET Replays, NEW B \in SUBSET A
    PROVE  /\ Cardinality(Replays) \in Nat /\ Cardinality(A) \in Nat /\ Cardinality(B) \in Nat
           /\ Cardinality(B) <= Cardinality(A) /\ Cardinality(A) <= Cardinality(Replays)
           /\ \A x \in A : Cardinality(A \ {x}) = Cardinality(A) - 1
<1>1. IsFiniteSet(Replays)
  BY SyncAssumption
<1>2. IsFiniteSet(A) /\ Cardinality(A) <= Cardinality(Replays)
  BY <1>1, FS_Subset
<1>3. IsFiniteSet(B) /\ Cardinality(B) <= Cardinality(A)
  BY <1>2, FS_Subset
<1>4. \A x \in A : Cardinality(A \ {x}) = Cardinality(A) - 1
  BY <1>2, FS_RemoveElement
<1> QED  BY <1>1, <1>2, <1>3, <1>4, FS_CardinalityType

LEMMA SomeReplay == Cardinality(Replays) \in Nat \ {0} /\ Limit \in Nat
<1>1. Cardinality(Replays) \in Nat /\ Cardinality(Replays) # 0
  BY SyncAssumption, FS_CardinalityType, FS_EmptySet
<1> QED  BY <1>1, SyncAssumption DEF Limit

LEMMA TriesInit == SyncInit => AttemptsInv
<1> SUFFICES ASSUME SyncInit PROVE AttemptsInv
  OBVIOUS
<1>1. Adding = {}
  BY DEF SyncInit, Adding
<1>2. Cardinality(Adding) = 0
  BY <1>1, FS_EmptySet
<1> QED  BY <1>2, SomeReplay, SyncAssumption, EntryIs DEF SyncInit, AttemptsInv, Limit

\* No replay may add more than before.
LEMMA TriesKept ==
    ASSUME TabTypes, TabTypes', AttemptsInv, Adding' \subseteq Adding,
           mem'.retries \in {0, mem.retries}
    PROVE  AttemptsInv'
<1>1. Adding \in SUBSET Replays
  BY DEF Adding
<1>2. /\ Cardinality(Adding) \in Nat /\ Cardinality(Adding') \in Nat
      /\ Cardinality(Adding') <= Cardinality(Adding)
  BY <1>1, AddingCount
<1>3. mem.retries \in Nat /\ mem'.retries \in Nat /\ mem'.retries <= mem.retries
  BY EntryIs DEF TabTypes
<1>4. Limit \in Nat /\ Limit' = Limit
  BY SomeReplay DEF Limit
<1> QED  BY <1>2, <1>3, <1>4 DEF AttemptsInv

LEMMA TriesStep == TabTypes /\ AttemptsInv /\ [SyncNext]_syncVars => AttemptsInv'
<1> SUFFICES ASSUME TabTypes, AttemptsInv, [SyncNext]_syncVars PROVE AttemptsInv'
  OBVIOUS
<1>0. TabTypes'
  BY TabTypesStep
<1> USE DEF Exhausted
<1>20. mem.retries \in Nat /\ mem'.retries \in Nat
  BY <1>0, EntryIs DEF TabTypes
<1>1. CASE UNCHANGED syncVars \/ (Serve /\ UNCHANGED <<op, tab, sends>>)
  BY <1>0, <1>1, TriesKept DEF syncVars, tab, Adding
<1>2. ASSUME Queue PROVE AttemptsInv'
  BY <1>0, <1>2, EntryIs, TriesKept DEF Queue, Adding
<1>3. ASSUME NEW x \in Replays, Snapshot(x) PROVE AttemptsInv'
  <2>1. /\ place[x] = "idle" /\ place' = [place EXCEPT ![x] = "snapped"]
        /\ snap' = [snap EXCEPT ![x] = mem.retries] /\ UNCHANGED mem
    BY <1>3 DEF Snapshot, Goto
  <2>2. CASE mem.retries >= MaxRetry
    <3>1. Adding' \subseteq Adding
      BY <2>1, <2>2 DEF Adding, TabTypes
    <3> QED  BY <1>0, <2>1, <3>1, TriesKept
  <2>3. CASE ~ (mem.retries >= MaxRetry)
    <3>1. Adding' \in SUBSET Replays /\ Cardinality(Replays) \in Nat
      BY SomeReplay DEF Adding
    <3>2. Cardinality(Adding') \in Nat /\ Cardinality(Adding') <= Cardinality(Replays)
      BY <3>1, AddingCount
    <3>3. mem'.retries + Cardinality(Adding') < Limit
      BY <1>20, <2>1, <2>3, <3>1, <3>2, SyncAssumption DEF Limit
    <3> QED  BY <3>3 DEF AttemptsInv, Limit
  <2> QED  BY <2>2, <2>3
<1>4. ASSUME NEW x \in Replays, GiveUp(x) PROVE AttemptsInv'
  <2>1. Ends(x) \/ \E e \in Entry : Writes(x, e) /\ e.retries = mem.retries
    BY <1>4, GiveUpIs
  <2>2. place[x] = "snapped" /\ snap' = [snap EXCEPT ![x] = 0]
    BY <1>4 DEF GiveUp
  <2>3. Adding' \subseteq Adding /\ mem'.retries = mem.retries
    BY <2>1, <2>2 DEF Ends, Writes, Goto, Adding, TabTypes
  <2> QED  BY <1>0, <2>3, TriesKept
<1>5. ASSUME NEW x \in Replays, Send(x) PROVE AttemptsInv'
  <2>1. Adding' \subseteq Adding
    BY <1>5 DEF Send, Goto, Adding, TabTypes
  <2> QED  BY <1>0, <1>5, <2>1, TriesKept DEF Send
<1>6. ASSUME NEW x \in Replays, Hear(x) PROVE AttemptsInv'
  <2>1. x \in Adding /\ UNCHANGED snap
    BY <1>6 DEF Hear, Adding
  <2>2. CASE Ends(x)
    <3>1. Adding' \subseteq Adding /\ UNCHANGED mem
      BY <2>1, <2>2 DEF Ends, Goto, Adding, TabTypes
    <3> QED  BY <1>0, <3>1, TriesKept
  <2>3. ASSUME NEW e \in Entry, Writes(x, e), e.retries <= mem.retries + 1
        PROVE  AttemptsInv'
    <3>1. mem' = e /\ place' = [place EXCEPT ![x] = "persisting"]
      BY <2>3 DEF Writes, Goto
    <3>2. Adding' \in SUBSET (Adding \ {x}) /\ Adding \ {x} \in SUBSET Replays
          /\ Adding \in SUBSET Replays
      BY <2>1, <3>1 DEF Adding, TabTypes
    <3>3. /\ Cardinality(Adding) \in Nat /\ Cardinality(Adding \ {x}) = Cardinality(Adding) - 1
      BY <2>1, <3>2, AddingCount
    <3>4. Cardinality(Adding') \in Nat /\ Cardinality(Adding') <= Cardinality(Adding \ {x})
      BY <3>2, AddingCount
    <3>5. mem'.retries + Cardinality(Adding') < Limit
      BY <1>20, <2>3, <3>1, <3>3, <3>4, SomeReplay DEF AttemptsInv
    <3> QED  BY <3>5 DEF AttemptsInv, Limit
  <2> QED  BY <1>6, <2>2, <2>3, HearIs
<1>7. ASSUME NEW x \in Replays, Persist(x) PROVE AttemptsInv'
  <2>1. Adding' \subseteq Adding
    BY <1>7 DEF Persist, Goto, Adding, TabTypes
  <2> QED  BY <1>0, <1>7, <2>1, TriesKept DEF Persist
<1>8. CASE RetryFailed
  <2>1. mem'.retries = mem.retries
    BY <1>8, GivenIs DEF RetryFailed, Given, TabTypes, Absent
  <2> QED  BY <1>0, <1>8, <2>1, TriesKept DEF RetryFailed, Adding
<1>9. CASE ClearCompleted
  BY <1>0, <1>9, EntryIs, TriesKept DEF ClearCompleted, Adding
<1>10. CASE Reload
  BY <1>0, <1>10, EntryIs, TriesKept DEF Reload, Adding
<1> QED
  BY <1>1, <1>2, <1>3, <1>4, <1>5, <1>6, <1>7, <1>8, <1>9, <1>10 DEF SyncNext, User, Replay

-----------------------------------------------------------------------------
(* The server: a mutation that was not answered 5xx keeps the key. *)

ServerTypes ==
    /\ op \in Operations /\ sends \in 0..MaxSends
    /\ key \in {"free", "held", "done"}
    /\ phase \in [Requests -> {"asked", "running", "ran", "done"}]
    /\ status \in [Requests -> {"none", "2xx", "4xx", "5xx"}]
    /\ effected \subseteq Requests

Executing(r) == phase[r] \in {"running", "ran"}

ServerInv ==
    /\ ServerTypes
    /\ op.keyed =>
          /\ \A r \in effected : phase[r] \in {"ran", "done"}
          /\ \A r, q \in Requests : Executing(r) /\ Executing(q) => r = q
          /\ \A r \in Requests : Executing(r) => key = "held"
          /\ key = "free" => \A q \in effected : status[q] = "5xx"
          /\ \A r \in Requests :
                Executing(r) => \A q \in effected : q # r => status[q] = "5xx"
          /\ AppliedOncePerWindow

LEMMA ServerInit == SyncInit => ServerInv
BY SyncAssumption
   DEF SyncInit, K!Init, ServerInv, ServerTypes, Executing, AppliedOncePerWindow,
       K!OneEffectPerWindow

LEMMA KeyedServerStep ==
    ASSUME ServerInv, op.keyed, NEW r \in Requests, K!Step(r), UNCHANGED <<op, sends>>
    PROVE  ServerInv'
<1> USE DEF ServerInv, ServerTypes, Executing, AppliedOncePerWindow, K!OneEffectPerWindow,
            K!answers, K!Return
<1>1. CASE K!Begin(r)
  BY <1>1 DEF K!Begin
<1>2. CASE K!HandlerCommits(r)
  BY <1>2 DEF K!HandlerCommits
<1>3. CASE K!HandlerRefuses(r)
  BY <1>3 DEF K!HandlerRefuses
<1>4. CASE K!End(r)
  BY <1>4 DEF K!End
<1>5. CASE K!Replay(r)
  BY <1>5 DEF K!Replay
<1>6. CASE K!Refuse(r)
  BY <1>6 DEF K!Refuse, K!ClaimUnheard
<1>7. CASE K!Lose(r)
  BY <1>7 DEF K!Lose, K!ClaimUnheard
<1> QED  BY <1>1, <1>2, <1>3, <1>4, <1>5, <1>6, <1>7 DEF K!Step

LEMMA ServerStep == TabTypes /\ TabTypes' /\ ServerInv /\ [SyncNext]_syncVars => ServerInv'
<1> SUFFICES ASSUME TabTypes, TabTypes', ServerInv, [SyncNext]_syncVars PROVE ServerInv'
  OBVIOUS
<1>1. CASE UNCHANGED <<op, server>>
  BY <1>1
     DEF server, TabTypes, ServerInv, ServerTypes, Executing, AppliedOncePerWindow,
         K!OneEffectPerWindow
<1>2. CASE Serve /\ UNCHANGED <<op, tab, sends>>
  <2>1. PICK r \in 1..sends : IF op.keyed THEN K!Step(r) ELSE Bypass(r)
    BY <1>2 DEF Serve, CarriesKey
  <2>2. r \in Requests
    BY SyncAssumption DEF Requests, TabTypes
  <2>3. CASE op.keyed
    BY <1>2, <2>1, <2>2, <2>3, KeyedServerStep
  <2>4. CASE ~ op.keyed
    BY <1>2, <2>1, <2>2, <2>4 DEF Bypass, K!Return, ServerInv, ServerTypes
  <2> QED  BY <2>3, <2>4
<1>3. UNCHANGED <<op, server>> \/ (Serve /\ UNCHANGED <<op, tab, sends>>)
  BY DEF SyncNext, User, Replay, Queue, Snapshot, GiveUp, Send, Hear, Persist, RetryFailed,
         ClearCompleted, Reload, syncVars
<1> QED  BY <1>1, <1>2, <1>3

-----------------------------------------------------------------------------
(* The results about the offline queue. *)

SyncInv == TabTypes /\ AttemptsInv /\ ServerInv

(* The attempts that replays at hand may still add to the entry, and the key
   that an applied operation keeps at the server, for any number of overlapping
   replays, requests and reloads: stores/sync.rs, pwa/sync.rs. *)
THEOREM SyncInvHolds == SyncSpec => []SyncInv
<1>1. SyncInit => SyncInv
  BY TabTypesInit, TriesInit, ServerInit DEF SyncInv
<1>2. SyncInv /\ [SyncNext]_syncVars => SyncInv'
  BY TabTypesStep, TriesStep, ServerStep DEF SyncInv
<1> QED  BY <1>1, <1>2, PTL DEF SyncSpec

(* A create or an update is applied at most once while its key lives, unless the
   server answered 5xx: the Idempotency-Key of execute_operation(). *)
THEOREM AppliedOncePerWindowHolds == SyncSpec => []AppliedOncePerWindow
<1>1. SyncInv => AppliedOncePerWindow
  BY DEF SyncInv, ServerInv, AppliedOncePerWindow
<1> QED  BY <1>1, SyncInvHolds, PTL

(* Each overlapping replay adds at most one attempt to the retry limit: the
   snapshot's retry_count in replay_queue_internal(). *)
THEOREM AttemptsBoundedHolds == SyncSpec => []AttemptsBounded
<1>1. ASSUME SyncInv PROVE AttemptsBounded
  <2>1. mem.retries \in Nat /\ Adding \in SUBSET Replays
    BY <1>1, EntryIs DEF SyncInv, TabTypes, Adding
  <2>2. Cardinality(Adding) \in Nat
    BY <2>1, AddingCount
  <2> QED  BY <1>1, <2>1, <2>2, SomeReplay DEF SyncInv, AttemptsInv, AttemptsBounded, Limit
<1>2. SyncInv => AttemptsBounded
  BY <1>1
<1> QED  BY <1>2, SyncInvHolds, PTL
=============================================================================
