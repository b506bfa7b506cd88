----------------------- MODULE FederationReplication -----------------------
(***************************************************************************)
(* Federation of one source tenant with the sites of one target tenant     *)
(* (sensei-services/src/tps/replication.rs, target_projectors.rs).         *)
(*                                                                         *)
(* Publishers fan an event out into queue rows, one per site, under the    *)
(* governance of the moment.  Consumers claim rows under a token and a     *)
(* five-minute lease; each entry they are handed lets them deliver to the  *)
(* target's inbox, apply, acknowledge and fail, in whatever order and at   *)
(* whatever time they come to it: an entry nobody uses any more is a       *)
(* consumer that died.  A token is the number of the claim that made it.   *)
(* The source confirms what the target gave a receipt for.  Every          *)
(* transaction is one step, except the fan-out, whose statements run under *)
(* READ COMMITTED.                                                         *)
(***************************************************************************)
EXTENDS Naturals

CONSTANTS
    Events, Sites,
    Publishers,   \* calls of the publish route
    NoEvent, None,
    Registered,   \* events whose entity type has a target projector
    MaxAttempts,  \* bound on claims of one row
    MaxChanges    \* bound on changes of membership or policy

ASSUME FederationAssumption ==
    /\ NoEvent \notin Events /\ None \notin Nat /\ Registered \subseteq Events
    /\ MaxAttempts \in Nat \ {0} /\ MaxChanges \in Nat

VARIABLES
    edge,       \* per site: the membership and the peer's policy revision
    changes,    \* how often they changed
    pc, event, seen, todo, fresh,      \* publishers: see Publish
    blocked,    \* their INSERT that waits for a key, if any
    status, token, attempts,               \* site_replication_log
    due,        \* the lease has lapsed, or the next attempt is due
    pinned,     \* edge_policy: the revision a row was authorized under
    inbox, binding,   \* replication_inbox: status; payload_hash, source_queue_id
    receipts,   \* replication_receipts
    mirror      \* operational_events rows of the target, per source event

publishing == <<pc, event, seen, todo, fresh, blocked>>
queue == <<status, token, attempts, due, pinned>>
target == <<inbox, binding, receipts, mirror>>
vars == <<edge, changes, publishing, queue, target>>

Rows == Events \X Sites
Statuses == {"absent", "pending", "claimed", "acked", "failed", "application_confirmed"}
Edges == [member : {"none", "excludes", "allows"}, revision : 0..MaxChanges]
Inserts == [site : Sites, saw : Edges]   \* saw: the edge, in the statement's snapshot

TypeOK ==
    /\ edge \in [Sites -> Edges] /\ changes \in 0..MaxChanges
    /\ pc \in [Publishers -> {"idle", "loaded", "fanout"}]
    /\ event \in [Publishers -> Events \union {NoEvent}]
    /\ seen \in [Publishers -> [Sites -> Edges]]
    /\ todo \in [Publishers -> SUBSET Sites] /\ fresh \in [Publishers -> SUBSET Sites]
    /\ blocked \in [Publishers -> SUBSET Inserts]
    /\ status \in [Rows -> Statuses]
    /\ token \in [Rows -> 0..MaxAttempts] /\ attempts \in [Rows -> 0..MaxAttempts]
    /\ due \in [Rows -> BOOLEAN] /\ pinned \in [Rows -> {None} \union 0..MaxChanges]
    /\ inbox \in [Rows -> {"absent", "received", "applied", "reconcile_required"}]
    /\ binding \in [Rows -> {"none", "exact", "other_hash", "other_queue"}]
    /\ receipts \in SUBSET Rows /\ mirror \in [Events -> Nat]

\* Every site a member, under the first revision of its policy.
FirstEdges == [s \in Sites |-> [member |-> "allows", revision |-> 0]]

Init ==
    /\ edge = FirstEdges /\ changes = 0
    /\ pc = [p \in Publishers |-> "idle"] /\ event = [p \in Publishers |-> NoEvent]
    /\ seen = [p \in Publishers |-> FirstEdges]
    /\ todo = [p \in Publishers |-> {}] /\ fresh = [p \in Publishers |-> {}]
    /\ blocked = [p \in Publishers |-> {}]
    /\ status = [r \in Rows |-> "absent"] /\ token = [r \in Rows |-> 0]
    /\ attempts = [r \in Rows |-> 0] /\ due = [r \in Rows |-> FALSE]
    /\ pinned = [r \in Rows |-> None]
    /\ inbox = [r \in Rows |-> "absent"] /\ binding = [r \in Rows |-> "none"]
    /\ receipts = {} /\ mirror = [e \in Events |-> 0]

-----------------------------------------------------------------------------
(* Publish: the route loads the edges; the fan-out transaction reads them
   again and drops those that changed; then one INSERT per edge, guarded in
   the statement by the edge's existence and policy revision; one commit.
   The guard is part of the INSERT's SELECT, so it reads the snapshot the
   statement starts with; only then ON CONFLICT looks for the key and, when
   another fan-out holds it uncommitted, waits for that one's end.          *)

\* A membership is made, changed or ended, or a country policy is revised.
GovernanceChanges(s) ==
    /\ changes < MaxChanges
    /\ changes' = changes + 1
    /\ \/ \E m \in {"none", "excludes", "allows"} : edge' = [edge EXCEPT ![s].member = m]
       \/ edge' = [edge EXCEPT ![s].revision = @ + 1]
    /\ UNCHANGED <<publishing, queue, target>>

LoadEdges(p, e) ==
    /\ pc[p] = "idle"
    /\ pc' = [pc EXCEPT ![p] = "loaded"]
    /\ event' = [event EXCEPT ![p] = e]
    /\ seen' = [seen EXCEPT ![p] = edge]
    /\ UNCHANGED <<edge, changes, todo, fresh, blocked, queue, target>>

\* The gate on the loaded edge, and edge_governance_unchanged().
Revalidated(p) == {s \in Sites : seen[p][s].member = "allows" /\ seen[p][s] = edge[s]}

BeginFanout(p) ==
    /\ pc[p] = "loaded"
    /\ pc' = [pc EXCEPT ![p] = "fanout"]
    /\ todo' = [todo EXCEPT ![p] = Revalidated(p)]
    /\ UNCHANGED <<edge, changes, event, seen, fresh, blocked, queue, target>>

\* Another fan-out has inserted the key and not committed yet.
KeyLocked(p, s) == \E q \in Publishers \ {p} : event[q] = event[p] /\ s \in fresh[q]

\* The guard of the INSERT.  (Mutation: the re-read is trusted.)
AdmitsReread(p, s) == TRUE
Admits(p, s) == edge[s].member # "none" /\ edge[s].revision = seen[p][s].revision

\* The statement ends, with the row or without it.
EndInsert(p, s, writes) ==
    LET r == <<event[p], s>> IN
    /\ todo' = [todo EXCEPT ![p] = @ \ {s}]
    /\ blocked' = [blocked EXCEPT ![p] = {}]
    /\ IF writes
       THEN /\ fresh' = [fresh EXCEPT ![p] = @ \union {s}]
            /\ pinned' = [pinned EXCEPT ![r] = seen[p][s].revision]
       ELSE UNCHANGED <<fresh, pinned>>
    /\ UNCHANGED <<edge, changes, pc, event, seen, status, token, attempts, due, target>>

\* The check for a duplicate and the INSERT that does not have to wait.
InsertRow(p, s) ==
    /\ pc[p] = "fanout" /\ blocked[p] = {} /\ s \in todo[p]
    /\ ~ (Admits(p, s) /\ KeyLocked(p, s))
    /\ EndInsert(p, s, Admits(p, s) /\ status[<<event[p], s>>] = "absent")

WaitForKey(p, s) ==
    /\ pc[p] = "fanout" /\ blocked[p] = {} /\ s \in todo[p]
    /\ Admits(p, s) /\ KeyLocked(p, s)
    /\ blocked' = [blocked EXCEPT ![p] = {[site |-> s, saw |-> edge[s]]}]
    /\ UNCHANGED <<edge, changes, pc, event, seen, todo, fresh, queue, target>>

\* The other fan-out is over.  What it committed is a conflict; if it was
\* rolled back, the row computed before the wait is written as it is.
KeyFreed(p, s) ==
    /\ \E i \in blocked[p] : i.site = s
    /\ ~ KeyLocked(p, s)
    /\ EndInsert(p, s, status[<<event[p], s>>] = "absent")

\* The fan-out commits, or is rolled back as a whole.
EndFanout(p) ==
    /\ pc[p] = "fanout"
    /\ \/ /\ todo[p] = {}
          /\ status' = [r \in Rows |-> IF r[1] = event[p] /\ r[2] \in fresh[p]
                                       THEN "pending" ELSE status[r]]
          /\ UNCHANGED pinned
       \/ /\ pinned' = [r \in Rows |-> IF r[1] = event[p] /\ r[2] \in fresh[p]
                                       THEN None ELSE pinned[r]]
          /\ UNCHANGED status
    /\ pc' = [pc EXCEPT ![p] = "idle"]
    /\ event' = [event EXCEPT ![p] = NoEvent]
    /\ seen' = [seen EXCEPT ![p] = FirstEdges]   \* a local of the call
    /\ todo' = [todo EXCEPT ![p] = {}] /\ fresh' = [fresh EXCEPT ![p] = {}]
    /\ blocked' = [blocked EXCEPT ![p] = {}]
    /\ UNCHANGED <<edge, changes, token, attempts, due, target>>

-----------------------------------------------------------------------------
(* The source queue. *)

\* What a lapsed claim leaves behind.  (Mutation: its token.)
TokenKept(r) == token[r]
TokenAfterRelease(r) == 0

Lapsed(r) == status[r] = "claimed" /\ due[r]

\* release_expired(): the same statement opens every claim_batch().
Release ==
    /\ \E r \in Rows : Lapsed(r)
    /\ status' = [r \in Rows |-> IF Lapsed(r) THEN "pending" ELSE status[r]]
    /\ token' = [r \in Rows |-> IF Lapsed(r) THEN TokenAfterRelease(r) ELSE token[r]]
    /\ due' = [r \in Rows |-> due[r] /\ ~ Lapsed(r)]
    /\ UNCHANGED <<edge, changes, publishing, attempts, pinned, target>>

Waits(r) == status[r] = "pending" \/ Lapsed(r) \/ (status[r] = "failed" /\ due[r])

\* claim_batch() hands out one row (a batch is as many claims at one instant).
Claim(r) ==
    LET released == {q \in Rows \ {r} : Lapsed(q)} IN
    /\ Waits(r) /\ attempts[r] < MaxAttempts
    /\ attempts' = [attempts EXCEPT ![r] = @ + 1]
    /\ status' = [q \in Rows |-> IF q = r THEN "claimed"
                                 ELSE IF q \in released THEN "pending" ELSE status[q]]
    /\ token' = [q \in Rows |-> IF q = r THEN attempts[r] + 1
                                ELSE IF q \in released THEN TokenAfterRelease(q) ELSE token[q]]
    /\ due' = [q \in Rows |-> due[q] /\ q # r /\ q \notin released]
    /\ UNCHANGED <<edge, changes, publishing, pinned, target>>

\* The lease runs out, or next_attempt_at comes.
TimePasses(r) ==
    /\ status[r] \in {"claimed", "failed"} /\ ~ due[r]
    /\ due' = [due EXCEPT ![r] = TRUE]
    /\ UNCHANGED <<edge, changes, publishing, status, token, attempts, pinned, target>>

\* ack() and fail() check the token and nothing else.
Answer(r, n, s) ==
    /\ n <= attempts[r] /\ token[r] = n
    /\ status' = [status EXCEPT ![r] = s]
    /\ due' = [due EXCEPT ![r] = FALSE]
    /\ UNCHANGED <<edge, changes, publishing, token, attempts, pinned, target>>

Ack(r, n) == Answer(r, n, "acked")
Fail(r, n) == Answer(r, n, "failed")

\* Which receipts confirm a row.  (Mutation: delivery is taken for application.)
EvidenceOfDelivery(r) == inbox[r] # "absent"
Evidence(r) == r \in receipts

\* confirm_application_receipts()
Confirm(r) ==
    /\ status[r] = "acked" /\ Evidence(r)
    /\ status' = [status EXCEPT ![r] = "application_confirmed"]
    /\ UNCHANGED <<edge, changes, publishing, token, attempts, due, pinned, target>>

-----------------------------------------------------------------------------
(* The target's inbox. *)

\* Some consumer was handed an entry of the row.
Handed(r) == attempts[r] > 0

\* Whether a delivery is recorded.  (Mutation: the last delivery wins.)
InboxTakesAll(r) == TRUE
InboxTakes(r) == inbox[r] = "absent"

Receive(r, b) ==
    /\ InboxTakes(r)
    /\ inbox' = [inbox EXCEPT ![r] = "received"]
    /\ binding' = [binding EXCEPT ![r] = b]
    /\ UNCHANGED <<edge, changes, publishing, queue, receipts, mirror>>

\* deliver_to_target_inbox() by whoever has the entry, however stale.
Deliver(r) == Handed(r) /\ Receive(r, "exact")

\* reserve_target_inbox(): an operator names queue row and hash by hand.  The
\* id of a queue row that is not there yet is a UUID that nobody can name.
Reserve(r) ==
    \E b \in {"exact", "other_hash", "other_queue"} :
        (status[r] = "absent" => b = "other_queue") /\ Receive(r, b)

\* What the projector finds in the event store.  (Mutation: it does not look.)
MirrorAlways(e) == TRUE
MirrorMissing(e) == mirror[e] = 0

\* What apply_target_projection() goes on with.  (Mutation: the recorded hash
\* is not compared.)
AppliesUnchecked(r) == inbox[r] = "received" /\ binding[r] # "other_queue" /\ r[1] \in Registered
Applies(r) == inbox[r] = "received" /\ binding[r] = "exact" /\ r[1] \in Registered

(* apply_target_projection(), committed by its caller.  A projector fails
   only with a database error, which aborts the transaction, so "applying" is
   never committed; nor is anything of a call its caller rolls back.        *)
Apply(r) ==
    /\ Handed(r) /\ Applies(r)
    /\ inbox' = [inbox EXCEPT ![r] = "applied"]
    /\ receipts' = receipts \union {r}
    /\ mirror' = [mirror EXCEPT ![r[1]] = IF MirrorMissing(r[1]) THEN @ + 1 ELSE @]
    /\ UNCHANGED <<edge, changes, publishing, queue, binding>>

\* The hash differs from the one delivered, and the caller commits that.
RefuseHash(r) ==
    /\ Handed(r)
    /\ inbox[r] = "received" /\ binding[r] = "other_hash"
    /\ inbox' = [inbox EXCEPT ![r] = "reconcile_required"]
    /\ UNCHANGED <<edge, changes, publishing, queue, binding, receipts, mirror>>

-----------------------------------------------------------------------------
Publish(p) ==
    \/ \E e \in Events : LoadEdges(p, e)
    \/ BeginFanout(p) \/ EndFanout(p)
    \/ \E s \in Sites : InsertRow(p, s) \/ WaitForKey(p, s) \/ KeyFreed(p, s)

RowStep(r) ==
    \/ Claim(r) \/ TimePasses(r) \/ Confirm(r)
    \/ \E n \in 1..MaxAttempts : Ack(r, n) \/ Fail(r, n)
    \/ Deliver(r) \/ Reserve(r) \/ Apply(r) \/ RefuseHash(r)

Next ==
    \/ \E s \in Sites : GovernanceChanges(s)
    \/ \E p \in Publishers : Publish(p)
    \/ Release
    \/ \E r \in Rows : RowStep(r)

Spec == Init /\ [][Next]_vars

-----------------------------------------------------------------------------
(* The receipt is the fact: a row has one exactly when the target applied it,
   the payload applied is the one delivered, and its event is in the target's
   store: the comment of apply_target_projection(). *)
ReceiptIsEarned ==
    \A r \in Rows :
        /\ r \in receipts <=> inbox[r] = "applied"
        /\ r \in receipts => binding[r] = "exact" /\ mirror[r[1]] > 0

(* However often an event is claimed, delivered and applied, and at however
   many sites, the target's store holds one mirror of it: "duplicate delivery
   can never double-apply", target_projectors.rs. *)
MirroredOnce == \A e \in Events : mirror[e] <= 1

(* The source believes only what the target applied: "a source-side worker
   can NEVER manufacture 'target applied' by calling ACK". *)
ConfirmedIsApplied ==
    \A r \in Rows : status[r] = "application_confirmed" => inbox[r] = "applied"

(* Once a lapsed claim was released, its holder has no say any more: a row that
   waits can only be claimed, never acknowledged or failed. *)
LapsedClaimHasNoSay ==
    [][\A r \in Rows :
           status[r] = "pending" => status'[r] \in {"pending", "claimed"}]_vars

(* A row that waits has no token, a token belongs to the latest claim, and a
   row that is not in the queue has no claim and at most a reservation by hand. *)
EntriesFit ==
    \A r \in Rows :
        /\ status[r] = "pending" => token[r] = 0
        /\ token[r] \in {0, attempts[r]}
        /\ status[r] = "absent" => attempts[r] = 0
        /\ status[r] = "absent" /\ inbox[r] # "absent" =>
              inbox[r] = "received" /\ binding[r] = "other_queue"

(* Fan-outs do not write over each other's rows: who has inserted a key and
   not committed it is alone with it, and the row is not there yet. *)
FanoutsFit ==
    \A p \in Publishers :
        /\ pc[p] = "idle" <=> event[p] = NoEvent
        /\ pc[p] # "fanout" => fresh[p] = {} /\ todo[p] = {}
        /\ todo[p] \intersect fresh[p] = {}
        /\ \A i \in blocked[p] :
              i.site \in todo[p] /\ i.saw.member # "none" /\ i.saw.revision = seen[p][i.site].revision
        /\ \A s \in fresh[p] : status[<<event[p], s>>] = "absent" /\ ~ KeyLocked(p, s)

\* A revision is the number of some change.
RevisionsFit == \A s \in Sites : edge[s].revision <= changes

\* The inductive invariant.
FederationInv ==
    /\ TypeOK /\ RevisionsFit /\ ReceiptIsEarned /\ MirroredOnce /\ ConfirmedIsApplied
    /\ EntriesFit /\ FanoutsFit

\* The edge as the INSERT of a row sees it: that of its snapshot, which is older
\* than the row when the statement had to wait.
Sees(p, s) == IF blocked[p] = {} THEN {edge[s]}
              ELSE {i.saw : i \in {j \in blocked[p] : j.site = s}}

(* The row of the queue records a policy revision that its INSERT saw in force:
   whatever changed since the edges were loaded and re-read, a row is written
   under a revision that is in force no more only by a statement that waited
   meanwhile for another fan-out of the event, and that was rolled back.  The
   statement-level guard of enqueue_projection_fanout(). *)
AuthorizedByItsInsert ==
    [][\A r \in Rows :
           pinned'[r] # pinned[r] /\ pinned'[r] # None =>
               \E p \in Publishers : \E e \in Sees(p, r[2]) :
                   event[p] = r[1] /\ e.member # "none" /\ pinned'[r] = e.revision]_vars

Federation == INSTANCE ProjectionDelivery WITH
    queued <- {r \in Rows : status[r] # "absent"},
    applied <- {r \in Rows : inbox[r] = "applied"},
    believed <- {r \in Rows : status[r] = "application_confirmed"},
    copies <- mirror

(* The queue, the inbox and the receipts together keep the promise. *)
Promised == Federation!Spec
=============================================================================
