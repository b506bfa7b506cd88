----------------------------- MODULE OutboxRelay -----------------------------
(***************************************************************************)
(* The transactional outbox of one tenant: rows of outbox_events written   *)
(* by business transactions (sensei-db/src/outbox.rs) and the relays that  *)
(* claim, publish and mark them (sensei-workers/src/outbox_relay.rs).      *)
(*                                                                         *)
(* A relay claims a batch under one 30 s lease, then works through it one  *)
(* event at a time; while an event is in flight its lease is renewed, the  *)
(* leases of the rest of the batch are not, and the claim is not looked at *)
(* again before the publish.  Every statement group that commits together  *)
(* is one step.  UPDATE .. RETURNING promises no order, so neither does    *)
(* the batch.                                                              *)
(***************************************************************************)
EXTENDS Naturals, FiniteSets

CONSTANTS
    Relays,         \* relay processes (replica_id() is unique per process)
    Events,         \* outbox rows of the tenant
    MaxAttempts,    \* MAX_ATTEMPTS
    BatchSize,      \* BATCH_SIZE
    NoRelay, NoEvent,
    MaxCrashes      \* bound on relay crashes

ASSUME RelayAssumption ==
    /\ NoRelay \notin Relays /\ NoEvent \notin Events
    /\ MaxAttempts \in Nat \ {0} /\ BatchSize \in Nat \ {0}
    /\ MaxCrashes \in Nat
    /\ IsFiniteSet(Relays)

VARIABLES
    written,    \* committed rows
    published,  \* rows with published_at set
    deduped,    \* event_ids in outbox_published
    attempts,   \* attempt_count
    claimedBy, lease,           \* claimed_by; claim_until against NOW()
    stream,     \* events JetStream holds a copy of
    pc, batch, current,         \* the relay: place, rows left, row in hand
    crashes

rows == <<written, published, deduped, attempts, claimedBy, lease>>
relay == <<pc, batch, current>>
vars == <<written, published, deduped, attempts, claimedBy, lease, stream,
          pc, batch, current, crashes>>

Places == {"poll", "next", "publishing", "acked", "failed"}

(* A relay counts a failure without looking at the claim, so attempt_count can
   pass MAX_ATTEMPTS; but only the relays that hold the row by then can push
   it there, one attempt each: record_failure(). *)
TypeOK ==
    /\ written \in SUBSET Events /\ published \in SUBSET Events
    /\ deduped \in SUBSET Events /\ stream \in SUBSET Events
    /\ attempts \in [Events -> 0..MaxAttempts + Cardinality(Relays) - 1]
    /\ claimedBy \in [Events -> Relays \union {NoRelay}]
    /\ lease \in [Events -> {"none", "live", "expired"}]
    /\ pc \in [Relays -> Places]
    /\ batch \in [Relays -> SUBSET Events]
    /\ current \in [Relays -> Events \union {NoEvent}]
    /\ crashes \in 0..MaxCrashes

Init ==
    /\ written = {} /\ published = {} /\ deduped = {} /\ stream = {}
    /\ attempts = [e \in Events |-> 0]
    /\ claimedBy = [e \in Events |-> NoRelay]
    /\ lease = [e \in Events |-> "none"]
    /\ pc = [r \in Relays |-> "poll"]
    /\ batch = [r \in Relays |-> {}]
    /\ current = [r \in Relays |-> NoEvent]
    /\ crashes = 0

-----------------------------------------------------------------------------
\* The row commits with the business state it describes.
Enqueue(e) ==
    /\ e \notin written
    /\ written' = written \union {e}
    /\ UNCHANGED <<published, deduped, attempts, claimedBy, lease, stream, relay, crashes>>

\* The WHERE clause of the claim.  (Mutation: expired claims are not
\* retried.)
ClaimableOnce(e) ==
    /\ e \in written \ published
    /\ attempts[e] < MaxAttempts
    /\ lease[e] = "none"
Claimable(e) ==
    /\ e \in written \ published
    /\ attempts[e] < MaxAttempts
    /\ lease[e] \in {"none", "expired"}

\* One transaction selects and claims up to BatchSize rows.  Rows another
\* transaction has locked are skipped, so any claimable rows may be selected.
ClaimBatch(r) ==
    /\ pc[r] = "poll"
    /\ \E sel \in SUBSET {e \in Events : Claimable(e)} :
          /\ sel # {} /\ Cardinality(sel) <= BatchSize
          /\ claimedBy' = [e \in Events |-> IF e \in sel THEN r ELSE claimedBy[e]]
          /\ lease' = [e \in Events |-> IF e \in sel THEN "live" ELSE lease[e]]
          /\ batch' = [batch EXCEPT ![r] = sel]
    /\ pc' = [pc EXCEPT ![r] = "next"]
    /\ UNCHANGED <<written, published, deduped, attempts, stream, current, crashes>>

\* The next row of the batch goes out; the pass ends with the batch.
NextEvent(r) ==
    /\ pc[r] = "next"
    /\ \/ \E e \in batch[r] :
             /\ pc' = [pc EXCEPT ![r] = "publishing"]
             /\ current' = [current EXCEPT ![r] = e]
             /\ batch' = [batch EXCEPT ![r] = @ \ {e}]
       \/ /\ batch[r] = {}
          /\ pc' = [pc EXCEPT ![r] = "poll"]
          /\ UNCHANGED <<current, batch>>
    /\ UNCHANGED <<rows, stream, crashes>>

\* renew_claim() while the publish is in flight.
RenewClaim(r) ==
    LET e == current[r] IN
    /\ pc[r] = "publishing"
    /\ claimedBy[e] = r /\ e \notin published
    /\ lease' = [lease EXCEPT ![e] = "live"]
    /\ UNCHANGED <<written, published, deduped, attempts, claimedBy, stream, relay, crashes>>

\* Where the outcome of the publish leads.  (Mutation: it is not looked at.)
AfterPublishIgnored(acked) == "acked"
AfterPublish(acked) == IF acked THEN "acked" ELSE "failed"

\* JetStream acknowledges the durable copy.
PublishAcked(r) ==
    /\ pc[r] = "publishing"
    /\ stream' = stream \union {current[r]}
    /\ pc' = [pc EXCEPT ![r] = AfterPublish(TRUE)]
    /\ UNCHANGED <<rows, batch, current, crashes>>

\* The publish errs, with or without a copy in the stream.
PublishFails(r) ==
    /\ pc[r] = "publishing"
    /\ stream' \in {stream, stream \union {current[r]}}
    /\ pc' = [pc EXCEPT ![r] = AfterPublish(FALSE)]
    /\ UNCHANGED <<rows, batch, current, crashes>>

\* Who may mark.  (Mutation: any relay.)
MayMarkAny(r, e) == e \notin published
MayMark(r, e) == e \notin published /\ claimedBy[e] = r

\* The end of one event: both bookkeeping calls swallow their own errors.
Proceed(r) ==
    /\ pc' = [pc EXCEPT ![r] = "next"]
    /\ current' = [current EXCEPT ![r] = NoEvent]
    /\ UNCHANGED <<written, stream, batch, crashes>>

MarkPublished(r) ==
    LET e == current[r] IN
    /\ pc[r] = "acked"
    /\ IF MayMark(r, e)
       THEN /\ published' = published \union {e}
            /\ deduped' = deduped \union {e}
            /\ claimedBy' = [claimedBy EXCEPT ![e] = NoRelay]
            /\ lease' = [lease EXCEPT ![e] = "none"]
       ELSE UNCHANGED <<published, deduped, claimedBy, lease>>
    /\ Proceed(r)
    /\ UNCHANGED attempts

\* Neither the claim nor published_at is checked here.
RecordFailure(r) ==
    LET e == current[r] IN
    /\ pc[r] = "failed"
    /\ attempts' = [attempts EXCEPT ![e] = @ + 1]
    /\ claimedBy' = [claimedBy EXCEPT ![e] = NoRelay]
    /\ lease' = [lease EXCEPT ![e] = "none"]
    /\ Proceed(r)
    /\ UNCHANGED <<published, deduped>>

\* The bookkeeping transaction fails; it is only logged.
BookkeepingLost(r) ==
    /\ pc[r] \in {"acked", "failed"}
    /\ Proceed(r)
    /\ UNCHANGED <<published, deduped, attempts, claimedBy, lease>>

Crash(r) ==
    /\ crashes < MaxCrashes
    /\ pc[r] # "poll"
    /\ crashes' = crashes + 1
    /\ pc' = [pc EXCEPT ![r] = "poll"]
    /\ batch' = [batch EXCEPT ![r] = {}]
    /\ current' = [current EXCEPT ![r] = NoEvent]
    /\ stream' \in IF pc[r] = "publishing" THEN {stream, stream \union {current[r]}}
                   ELSE {stream}
    /\ UNCHANGED rows

LeaseExpires(e) ==
    /\ lease[e] = "live"
    /\ lease' = [lease EXCEPT ![e] = "expired"]
    /\ UNCHANGED <<written, published, deduped, attempts, claimedBy, stream, relay, crashes>>

-----------------------------------------------------------------------------
RelayStep(r) ==
    \/ ClaimBatch(r) \/ NextEvent(r) \/ RenewClaim(r)
    \/ PublishAcked(r) \/ PublishFails(r)
    \/ MarkPublished(r) \/ RecordFailure(r) \/ BookkeepingLost(r)
    \/ Crash(r)

Next ==
    \/ \E r \in Relays : RelayStep(r)
    \/ \E e \in Events : Enqueue(e) \/ LeaseExpires(e)

Spec == Init /\ [][Next]_vars

(* The relay loop polls forever and takes the oldest rows first, a publish
   ends, time passes; and for each event: a row that is claimable again and
   again is selected, a broker asked again and again acknowledges, and a
   bookkeeping transaction tried again and again commits. *)
FairSpec ==
    /\ Spec
    /\ \A r \in Relays :
          /\ WF_vars(NextEvent(r)) /\ WF_vars(PublishAcked(r) \/ PublishFails(r))
          /\ WF_vars(MarkPublished(r) \/ RecordFailure(r) \/ BookkeepingLost(r))
    /\ \A e \in Events :
          /\ WF_vars(LeaseExpires(e))
          /\ SF_vars(\E r \in Relays : ClaimBatch(r) /\ e \in batch'[r])
          /\ SF_vars(\E r \in Relays : current[r] = e /\ PublishAcked(r))
          /\ SF_vars(\E r \in Relays : current[r] = e /\ MarkPublished(r))

-----------------------------------------------------------------------------
(* An event is marked published only after JetStream acknowledged a copy,
   and its deduplication record commits with the mark, whichever relays
   crashed or overtook each other in between: mark_published(). *)
MarkedIsDurable == published = deduped /\ published \subseteq stream /\ stream \subseteq written

(* A published event is out of circulation: no relay owns it, so no poll
   claims it again, even after a stale relay records a failure on it. *)
PublishedIsReleased ==
    \A e \in published : claimedBy[e] = NoRelay /\ lease[e] = "none"

(* What a relay has in hand fits the place it is at. *)
HandFits(r) ==
    /\ batch[r] \subseteq written
    /\ pc[r] = "poll" => batch[r] = {}
    /\ IF pc[r] \in {"publishing", "acked", "failed"}
       THEN current[r] \in written \ batch[r]
       ELSE current[r] = NoEvent
    /\ pc[r] = "acked" => current[r] \in stream

\* The relays that claimed e and have not finished with it.
Holders(e) == {r \in Relays : e \in batch[r] \/ current[r] = e}

(* Once e has used up its attempts, each relay that still holds it may add
   one more and no relay takes it up again. *)
AttemptsLeft(e) ==
    \/ attempts[e] < MaxAttempts
    \/ attempts[e] + Cardinality(Holders(e)) <= MaxAttempts + Cardinality(Relays) - 1

(* The inductive invariant: the properties, and what the relays hold. *)
RelayInv ==
    /\ TypeOK /\ MarkedIsDurable /\ PublishedIsReleased
    /\ \A r \in Relays : HandFits(r)
    /\ \A e \in Events : AttemptsLeft(e)

(* Only the relay that holds the claim marks an event; a stale replica never
   marks over the claim of another one: the comment of mark_published(). *)
OnlyOwnerMarks ==
    [][\A e \in Events : e \in published' \ published =>
           \E r \in Relays : pc[r] = "acked" /\ current[r] = e /\ claimedBy[e] = r]_vars

(* No committed event is forgotten: it is published, or every one of its
   MAX_ATTEMPTS attempts has failed; crashes and lost bookkeeping only delay
   it: the lease is there for crash recovery (080_outbox_claim.sql). *)
PublishedOrExhausted ==
    \A e \in Events :
        e \in written ~> e \in stream \/ attempts[e] >= MaxAttempts
=============================================================================
