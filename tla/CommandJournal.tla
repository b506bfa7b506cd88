--------------------------- MODULE CommandJournal ---------------------------
(***************************************************************************)
(* The durable command journal of mutating agent tools:                    *)
(* PgExecutionJournal (sensei-services/src/ai/command_journal.rs), the     *)
(* table command_journal, and the executor that drives it,                 *)
(* ToolExecutor::execute_inner and ::dispatch_claimed                      *)
(* (sensei-agent-core/src/tools.rs).                                       *)
(*                                                                         *)
(* Every journal call is one transaction, hence one atomic step; executors *)
(* interleave between the calls, crash anywhere, and may lose the answer   *)
(* of a transaction that did commit (ack = FALSE).  A key stands for a     *)
(* (tenant_id, execution_key) pair.  Time is the relation of a lease to    *)
(* NOW(): "live" (later), "due" (equal) or "expired" (earlier); the three  *)
(* operations compare with >, >= and <, so the instant of expiry counts.   *)
(* claim_owner is informative in the code (no WHERE clause reads it) and   *)
(* is left out, as are result payloads and the RAM cache, which no journal *)
(* path reads.                                                             *)
(***************************************************************************)
EXTENDS Naturals

CONSTANTS
    Executors,  \* ToolExecutor instances (one per request, any process)
    Keys,       \* command keys
    Tokens,     \* fencing tokens (a bound; see Fresh)
    NoToken, NoKey

ASSUME NullAssumption == NoToken \notin Tokens /\ NoKey \notin Keys

VARIABLES
    status, claim, lease,       \* the journal row of each key
    pc, key, token, outcome,    \* the executor: where it is, what it holds
    applied,    \* ghost: how often the mutation of k took effect
    late,       \* ghost: keys whose abandoned mutation may still land
    told        \* ghost: the definitive answers callers got for k

row == <<status, claim, lease>>
exec == <<pc, key, token, outcome>>
world == <<applied, late>>
vars == <<status, claim, lease, pc, key, token, outcome, applied, late, told>>

Outcomes == {"succeeded", "failed", "unknown_outcome"}
Final == Outcomes \union {"reconcile_required"}
Statuses == {"absent", "reserved", "dispatching"} \union Final
Leases == {"none", "live", "due", "expired"}
\* "running": the handler runs, its mutation has not taken effect;
\* "applied": it has; "record": the handler is over, complete() is next.
PastGate == {"running", "applied", "record"}
PCs == {"idle", "load", "recover", "gate"} \union PastGate
Answers == {"ok", "failed", "timeout"}

TypeOK ==
    /\ status \in [Keys -> Statuses]
    /\ claim \in [Keys -> Tokens \union {NoToken}]
    /\ lease \in [Keys -> Leases]
    /\ pc \in [Executors -> PCs]
    /\ key \in [Executors -> Keys \union {NoKey}]
    /\ token \in [Executors -> Tokens \union {NoToken}]
    /\ outcome \in [Executors -> Outcomes \union {"none"}]
    /\ applied \in [Keys -> Nat]
    /\ late \in SUBSET Keys
    /\ told \in [Keys -> SUBSET Answers]

Init ==
    /\ status = [k \in Keys |-> "absent"]
    /\ claim = [k \in Keys |-> NoToken]
    /\ lease = [k \in Keys |-> "none"]
    /\ pc = [e \in Executors |-> "idle"]
    /\ key = [e \in Executors |-> NoKey]
    /\ token = [e \in Executors |-> NoToken]
    /\ outcome = [e \in Executors |-> "none"]
    /\ applied = [k \in Keys |-> 0]
    /\ late = {}
    /\ told = [k \in Keys |-> {}]

-----------------------------------------------------------------------------
(* Executor bookkeeping. *)

Goto(e, where) ==
    /\ pc' = [pc EXCEPT ![e] = where]
    /\ UNCHANGED <<key, token, outcome>>

\* execute_inner returns (or the process dies): the frame is gone.
Leave(e) ==
    /\ pc' = [pc EXCEPT ![e] = "idle"]
    /\ key' = [key EXCEPT ![e] = NoKey]
    /\ token' = [token EXCEPT ![e] = NoToken]
    /\ outcome' = [outcome EXCEPT ![e] = "none"]

\* Return without a definitive answer: a journal error, or a crash.
NoAnswer(e) == Leave(e) /\ UNCHANGED told

\* ToolError::Conflict.  (Mutation: poll the row instead of giving up.)
ConflictByPolling(e) == Goto(e, "load") /\ UNCHANGED told
Conflict(e) == NoAnswer(e)

Answer(e, a) ==
    /\ Leave(e)
    /\ told' = [told EXCEPT ![key[e]] = @ \union {a}]

\* What the caller of a recorded outcome is told.
AnswerOf(o) ==
    IF o = "succeeded" THEN "ok" ELSE IF o = "failed" THEN "failed" ELSE "timeout"

\* new_claim_token(): 32 random bytes never repeat, so a drawn token is any
\* one that no row and no executor holds.  |Keys| + |Executors| tokens suffice.
Fresh == Tokens \ ({claim[k] : k \in Keys} \union {token[e] : e \in Executors})

\* The row gets a fresh token and a full lease; the executor goes on to the
\* gate with the token unless the answer of the transaction was lost.
Claimed(e, k, t, ack) ==
    /\ status' = [status EXCEPT ![k] = "reserved"]
    /\ claim' = [claim EXCEPT ![k] = t]
    /\ lease' = [lease EXCEPT ![k] = "live"]
    /\ IF ack
       THEN /\ pc' = [pc EXCEPT ![e] = "gate"]
            /\ key' = [key EXCEPT ![e] = k]
            /\ token' = [token EXCEPT ![e] = t]
            /\ UNCHANGED <<outcome, told>>
       ELSE NoAnswer(e)

\* A verdict is written and the claim fields are cleared.
Closed(k, s) ==
    /\ status' = [status EXCEPT ![k] = s]
    /\ claim' = [claim EXCEPT ![k] = NoToken]
    /\ lease' = [lease EXCEPT ![k] = "none"]

\* NULL or < NOW().  (Mutation: <= NOW().)
LeaseLapsedEarly(k) == lease[k] \in {"none", "due", "expired"}
LeaseLapsed(k) == lease[k] \in {"none", "expired"}
LeaseAhead(k) == lease[k] \in {"none", "live"}          \* NULL or > NOW()

-----------------------------------------------------------------------------
(* The journal operations, with what execute_inner does with the answer. *)

\* reserve(): INSERT .. ON CONFLICT DO NOTHING RETURNING claim_token.
Reserve(e, k, ack) ==
    /\ pc[e] = "idle"
    /\ \/ /\ status[k] = "absent"
          /\ \E t \in Fresh : Claimed(e, k, t, ack)
       \/ /\ status[k] # "absent"
          /\ ack
          /\ pc' = [pc EXCEPT ![e] = "load"]
          /\ key' = [key EXCEPT ![e] = k]
          /\ UNCHANGED <<row, token, outcome, told>>
    /\ UNCHANGED world

\* The answer a journaled outcome is replayed as, if it is definitive.
\* (Mutation: an unknown outcome is replayed as a failure.)
ReplayedEagerly(s) ==
    IF s = "succeeded" THEN {"ok"}
    ELSE IF s \in {"failed", "unknown_outcome"} THEN {"failed"} ELSE {}
Replayed(s) ==
    IF s = "succeeded" THEN {"ok"} ELSE IF s = "failed" THEN {"failed"} ELSE {}

\* load(), then: replay a definitive outcome, Conflict on an ambiguous one, or
\* try to recover the claim.
Load(e) ==
    LET s == status[key[e]] IN
    /\ pc[e] = "load"
    /\ \/ \E a \in Replayed(s) : Answer(e, a)
       \/ s \in Final /\ Replayed(s) = {} /\ Conflict(e)
       \/ s \notin Final /\ Goto(e, "recover") /\ UNCHANGED told
    /\ UNCHANGED <<row, world>>

\* Only a reservation is ever reclaimed.  (Mutation: a lapsed dispatch, too.)
ReclaimableDispatch(k) == status[k] \in {"reserved", "dispatching"} /\ LeaseLapsed(k)
Reclaimable(k) == status[k] = "reserved" /\ LeaseLapsed(k)
Undecidable(k) == status[k] = "dispatching" /\ LeaseLapsed(k)

\* The verdict on a dispatch whose lease lapsed.
LapsedVerdict == "reconcile_required"

\* recover(): reclaim a lapsed reservation, or mark a lapsed dispatch for
\* reconciliation, or leave a live claim and a closed row alone.
Recover(e, ack) ==
    LET k == key[e] IN
    /\ pc[e] = "recover"
    /\ \/ /\ Reclaimable(k)
          /\ \E t \in Fresh : Claimed(e, k, t, ack)
       \/ /\ ~Reclaimable(k) /\ Undecidable(k)
          /\ Closed(k, LapsedVerdict)
          /\ NoAnswer(e)
       \/ /\ ~Reclaimable(k) /\ ~Undecidable(k)
          /\ Conflict(e)
          /\ UNCHANGED row
    /\ UNCHANGED world

\* The gate is durable.
MarkDispatching(k) == status' = [status EXCEPT ![k] = "dispatching"]

GateOpen(k, t) == claim[k] = t /\ status[k] = "reserved" /\ LeaseAhead(k)

\* begin_dispatch(): the durable gate in front of the mutation.
BeginDispatch(e, ack) ==
    LET k == key[e] IN
    /\ pc[e] = "gate"
    /\ IF GateOpen(k, token[e])
       THEN /\ MarkDispatching(k)
            /\ UNCHANGED <<claim, lease>>
            /\ IF ack THEN Goto(e, "running") /\ UNCHANGED told ELSE NoAnswer(e)
       ELSE Conflict(e) /\ UNCHANGED row
    /\ UNCHANGED world

\* The fence of complete().  (Mutation: by key only.)
OwnsByKey(e, k) == status[k] # "absent"
Owns(e, k) == claim[k] = token[e]

\* heartbeat(): only the current, unexpired claim renews its lease.
Heartbeat(e) ==
    LET k == key[e] IN
    /\ pc[e] \in {"gate"} \union PastGate
    /\ Owns(e, k)
    /\ status[k] \in {"reserved", "dispatching"}
    /\ lease[k] \in {"live", "due"}
    /\ lease' = [lease EXCEPT ![k] = "live"]
    /\ UNCHANGED <<status, claim, exec, world, told>>

\* complete(): fenced by the token.  A lost or refused completion is an error
\* for the caller, never a verdict.
Complete(e, ack) ==
    LET k == key[e] IN
    /\ pc[e] = "record"
    /\ IF Owns(e, k)
       THEN /\ Closed(k, outcome[e])
            /\ IF ack THEN Answer(e, AnswerOf(outcome[e])) ELSE NoAnswer(e)
       ELSE NoAnswer(e) /\ UNCHANGED row
    /\ UNCHANGED world

\* A journal transaction fails without committing: the error propagates.
JournalError(e) ==
    /\ pc[e] \in {"load", "recover", "gate", "record"}
    /\ NoAnswer(e)
    /\ UNCHANGED <<row, world>>

-----------------------------------------------------------------------------
(* The dispatch: the tool handler under tokio::time::timeout. *)

Mutate(e) ==
    /\ pc[e] = "running"
    /\ applied' = [applied EXCEPT ![key[e]] = @ + 1]
    /\ Goto(e, "applied")
    /\ UNCHANGED <<row, late, told>>

\* The command already sent to the domain may outlive whoever waits for it.
Abandon(e) ==
    late' \in IF pc[e] = "running" THEN {late, late \union {key[e]}} ELSE {late}

\* The handler answers, fails (before or after its effect; output validation
\* fails after it), or runs into its timeout.  Every error but a timeout is
\* journaled as 'failed', one that leaves the command under way (a connection
\* lost while it ran) included: only an answer says that the command is over.
HandlerEnds(e, o) ==
    /\ pc[e] \in {"running", "applied"}
    /\ o = "succeeded" => pc[e] = "applied"
    /\ IF o = "succeeded" THEN UNCHANGED late ELSE Abandon(e)
    /\ pc' = [pc EXCEPT ![e] = "record"]
    /\ outcome' = [outcome EXCEPT ![e] = o]
    /\ UNCHANGED <<row, key, token, applied, told>>

LateMutation(k) ==
    /\ k \in late
    /\ applied' = [applied EXCEPT ![k] = @ + 1]
    /\ late' = late \ {k}
    /\ UNCHANGED <<row, exec, told>>

\* The process dies, or the request is cancelled, between any two steps.
Crash(e) ==
    /\ pc[e] # "idle"
    /\ Abandon(e)
    /\ NoAnswer(e)
    /\ UNCHANGED <<row, applied>>

\* NOW() reaches, then passes, lease_expires_at.
TimePasses(k) ==
    /\ lease[k] \in {"live", "due"}
    /\ lease' = [lease EXCEPT ![k] = IF @ = "live" THEN "due" ELSE "expired"]
    /\ UNCHANGED <<status, claim, exec, world, told>>

-----------------------------------------------------------------------------
Step(e) ==
    \/ Load(e)
    \/ \E ack \in BOOLEAN :
          \/ \E k \in Keys : Reserve(e, k, ack)
          \/ Recover(e, ack)
          \/ BeginDispatch(e, ack)
          \/ Complete(e, ack)
    \/ Heartbeat(e)
    \/ JournalError(e)
    \/ Mutate(e)
    \/ \E o \in Outcomes : HandlerEnds(e, o)
    \/ Crash(e)

Next ==
    \/ \E e \in Executors : Step(e)
    \/ \E k \in Keys : LateMutation(k) \/ TimePasses(k)

Spec == Init /\ [][Next]_vars

(* An executor that is not killed is polled until its call returns: tokio   *)
(* schedules the task and the handler runs under a timeout.                 *)
Progress(e) ==
    \/ Load(e)
    \/ \E ack \in BOOLEAN : Recover(e, ack) \/ BeginDispatch(e, ack) \/ Complete(e, ack)
    \/ \E o \in Outcomes : HandlerEnds(e, o)

FairSpec ==
    /\ Spec
    /\ \A e \in Executors : WF_vars(Progress(e))

-----------------------------------------------------------------------------
(* Properties. *)

(* However often the same command is retried, by however many executors,
   through crashes, lost answers and lapsed leases, its mutation takes
   effect at most once: the header of journal.rs ("never re-executed"). *)
AtMostOnce == \A k \in Keys : applied[k] <= 1

(* A 'reserved' row has provably never been dispatched (journal.rs): no
   executor is past the gate for it and no mutation of it is in flight or
   done, which is what makes the reclaim in recover() safe. *)
ReservedNeverDispatched ==
    \A k \in Keys : status[k] \in {"absent", "reserved"} =>
        /\ applied[k] = 0 /\ k \notin late
        /\ \A e \in Executors : key[e] = k => pc[e] \notin PastGate

(* No two callers of the same command, the one that ran it or one that
   replays the row, are ever told different definitive answers, and "ok" is
   only said of a mutation that happened: execute_inner replays the journaled
   outcome verbatim. *)
AnswersAgree ==
    \A k \in Keys :
        /\ \A a, b \in told[k] : a = b
        /\ "ok" \in told[k] => applied[k] = 1

(* A closed row (a terminal or an ambiguous status) never changes again: a
   stale owner is fenced out by the cleared token, and nothing re-opens the
   row without a human. *)
ClosedIsFinal ==
    [][\A k \in Keys : status[k] \in Final =>
           status'[k] = status[k] /\ claim'[k] = claim[k]]_vars

(* A claim that has not expired is only changed by the executor that holds
   its token: no other worker recovers, dispatches or completes under it. *)
LiveClaimIsExclusive ==
    [][\A k \in Keys :
           /\ lease[k] \in {"live", "due"}
           /\ <<status[k], claim[k]>>' # <<status[k], claim[k]>>
           => \E e \in Executors :
                 key[e] = k /\ token[e] = claim[k] /\ pc'[e] # pc[e]]_vars

(* Every call returns: a loser Conflicts instead of waiting for the winner,
   so no executor ever waits for another one. *)
CallsReturn == \A e \in Executors : pc[e] # "idle" ~> pc[e] = "idle"

(* Why it is so: an inductive invariant.  An executor past the gate is the
   only one for its key, its row is 'dispatching' (or was marked for
   reconciliation under it), and the mutation has happened exactly if the
   executor or an abandoned dispatch is beyond it. *)
InCall(e) == pc[e] # "idle" => key[e] \in Keys

HoldsToken(e) == pc[e] \in {"gate"} \union PastGate => token[e] \in Tokens

OnePastGate ==
    \A e, f \in Executors :
        pc[e] \in PastGate /\ pc[f] \in PastGate /\ key[e] = key[f] => e = f

DispatchRecorded(e) ==
    pc[e] \in PastGate => status[key[e]] \in {"dispatching", "reconcile_required"}

EffectKnown(e) ==
    /\ pc[e] = "running" => applied[key[e]] = 0 /\ key[e] \notin late
    /\ pc[e] = "applied" => applied[key[e]] = 1 /\ key[e] \notin late
    /\ pc[e] = "record" =>
          /\ outcome[e] \in Outcomes
          /\ outcome[e] = "succeeded" => applied[key[e]] = 1

RowTellsEffect(k) ==
    /\ status[k] \in Final => claim[k] = NoToken
    /\ status[k] = "succeeded" => applied[k] = 1
    /\ k \in late => applied[k] = 0
    /\ "ok" \in told[k] => status[k] = "succeeded"
    /\ "failed" \in told[k] => status[k] = "failed"
    /\ "timeout" \in told[k] => status[k] = "unknown_outcome"

JournalInv ==
    /\ TypeOK
    /\ AtMostOnce
    /\ ReservedNeverDispatched
    /\ OnePastGate
    /\ \A e \in Executors :
          InCall(e) /\ HoldsToken(e) /\ DispatchRecorded(e) /\ EffectKnown(e)
    /\ \A k \in Keys : RowTellsEffect(k)

(* CommandJournal keeps the promise of AtMostOnceCommand. *)
Verdict(s) ==
    IF s \in {"succeeded", "failed"} THEN s
    ELSE IF s \in {"unknown_outcome", "reconcile_required"} THEN "ambiguous"
    ELSE "open"

Promise == INSTANCE AtMostOnceCommand
    WITH effect <- applied, verdict <- [k \in Keys |-> Verdict(status[k])]

Promised == Promise!Spec
=============================================================================
