----------------------------- MODULE TaskWorker -----------------------------
(***************************************************************************)
(* Background tasks: a JetStream pull consumer, the dispatcher that acks,  *)
(* NAKs or dead-letters (sensei-workers/src/task.rs, nats.rs), the lease   *)
(* of a task in processed_tasks (IdempotencyGuard), and the consumers that *)
(* wrap a side effect in it (email.rs, pdf.rs, analytics.rs, ml.rs).       *)
(*                                                                         *)
(* A worker is one consumer loop of one process: it handles its messages   *)
(* one after the other.  A restarted process draws a new owner id, so no   *)
(* worker owns what a crashed one claimed (owner = Nobody).  A delivery    *)
(* that is not acked in time comes back while its worker still runs it.    *)
(* The back-off delays are left out: a NAKed message may come at once.     *)
(*                                                                         *)
(* What goes wrong (crashes, lapsed leases, lost answers, failures) counts *)
(* in faults, which MaxFaults bounds.                                      *)
(***************************************************************************)
EXTENDS Naturals

CONSTANTS
    Workers,
    Tasks,       \* task envelopes; each publication has a fresh task_id
    MaxDeliver,  \* DEFAULT_MAX_DELIVER (8)
    MaxFaults,   \* a bound
    Nobody, NoTask

TaskAssumption ==
    /\ MaxDeliver \in Nat \ {0} /\ MaxFaults \in Nat
    /\ Nobody \notin Workers /\ NoTask \notin Tasks

VARIABLES
    msg,         \* the message of each task, as the stream's consumer sees it
    deliveries,  \* how often it was delivered
    dlq,         \* tasks with a durable copy under the dead-letter subject
    state, owner, lease,  \* the row of processed_tasks
    pc, task,    \* the worker: where it is, and the task in hand
    faults,
    effects,     \* ghost: how often the side effect of the task took place
    lapses,      \* ghost: how often its lease ran out
    failed,      \* ghost: tasks whose consumer reported a failure of its own
    swallowed    \* ghost: tasks reported done although an error kept them from it

row == <<state, owner, lease>>
queue == <<msg, deliveries, dlq>>
worker == <<pc, task>>
ghosts == <<effects, lapses, failed, swallowed>>
vars == <<queue, row, worker, faults, ghosts>>

\* "run": the effect is under way; "done": it succeeded, mark_completed() is
\* next; "ack", "nak", "dead": what the dispatcher does with the outcome.
Executing == {"run", "done"}
Places == {"idle", "claim", "ack", "nak", "dead"} \union Executing

TypeOK ==
    /\ msg \in [Tasks -> {"none", "ready", "inflight", "acked"}]
    /\ deliveries \in [Tasks -> 0..MaxDeliver]
    /\ dlq \in SUBSET Tasks
    /\ state \in [Tasks -> {"absent", "in_progress", "completed"}]
    /\ owner \in [Tasks -> Workers \union {Nobody}]
    /\ lease \in [Tasks -> {"none", "live", "expired"}]
    /\ pc \in [Workers -> Places]
    /\ task \in [Workers -> Tasks \union {NoTask}]
    /\ faults \in 0..MaxFaults
    /\ effects \in [Tasks -> Nat] /\ lapses \in [Tasks -> Nat]
    /\ failed \in SUBSET Tasks /\ swallowed \in SUBSET Tasks

Init ==
    /\ msg = [t \in Tasks |-> "none"]
    /\ deliveries = [t \in Tasks |-> 0]
    /\ dlq = {} /\ failed = {} /\ swallowed = {}
    /\ state = [t \in Tasks |-> "absent"]
    /\ owner = [t \in Tasks |-> Nobody]
    /\ lease = [t \in Tasks |-> "none"]
    /\ pc = [w \in Workers |-> "idle"]
    /\ task = [w \in Workers |-> NoTask]
    /\ faults = 0
    /\ effects = [t \in Tasks |-> 0] /\ lapses = [t \in Tasks |-> 0]

-----------------------------------------------------------------------------
Fault == faults < MaxFaults /\ faults' = faults + 1
FaultIf(bad) == IF bad THEN Fault ELSE UNCHANGED faults

Goto(w, where) == pc' = [pc EXCEPT ![w] = where] /\ UNCHANGED task

\* dispatch_message() returns: the loop takes the next message.
Finish(w) == pc' = [pc EXCEPT ![w] = "idle"] /\ task' = [task EXCEPT ![w] = NoTask]

(* The stream. *)

Publish(t) ==
    /\ msg[t] = "none"
    /\ msg' = [msg EXCEPT ![t] = "ready"]
    /\ UNCHANGED <<deliveries, dlq, row, worker, faults, ghosts>>

Deliverable(t) == msg[t] = "ready" /\ deliveries[t] < MaxDeliver

Deliver(w, t) ==
    /\ pc[w] = "idle"
    /\ Deliverable(t)
    /\ msg' = [msg EXCEPT ![t] = "inflight"]
    /\ deliveries' = [deliveries EXCEPT ![t] = @ + 1]
    /\ pc' = [pc EXCEPT ![w] = "claim"]
    /\ task' = [task EXCEPT ![w] = t]
    /\ UNCHANGED <<dlq, row, faults, ghosts>>

\* No ack in time: the message is due again, whoever is still busy with it.
AckWait(t) ==
    /\ msg[t] = "inflight"
    /\ msg' = [msg EXCEPT ![t] = "ready"]
    /\ UNCHANGED <<deliveries, dlq, row, worker, faults, ghosts>>

\* Any holder of a delivery settles the message.
Acked(t) == msg' = [msg EXCEPT ![t] = "acked"]
Naked(t) == msg' = [msg EXCEPT ![t] = IF @ = "inflight" THEN "ready" ELSE @]

-----------------------------------------------------------------------------
(* The lease. *)

\* The WHERE clause of the claim.  (Mutation: whatever the lease
\* says.)
ClaimableUnlessDone(t) == state[t] # "completed"
Claimable(t) ==
    \/ state[t] = "absent"
    \/ state[t] = "in_progress" /\ lease[t] = "expired"

\* try_claim(), and what every consumer makes of its answer.  Busy and an
\* error come out of process() as Err(RetryLater): the dispatcher takes any
\* Err for a permanent failure.  (ml marks a completed task once more, which
\* its owner may not see, and returns the error if that fails: ClaimFails.)
Claim(w, answered) ==
    LET t == task[w] IN
    /\ pc[w] = "claim"
    /\ FaultIf(~answered)
    /\ IF Claimable(t)
       THEN /\ state' = [state EXCEPT ![t] = "in_progress"]
            /\ owner' = [owner EXCEPT ![t] = w]
            /\ lease' = [lease EXCEPT ![t] = "live"]
       ELSE UNCHANGED row
    /\ Goto(w, IF ~answered THEN "dead"
               ELSE IF Claimable(t) THEN "run"
               ELSE IF state[t] = "completed" THEN "ack" ELSE "dead")
    /\ UNCHANGED <<queue, ghosts>>

ClaimFails(w) ==
    /\ pc[w] = "claim"
    /\ Fault
    /\ Goto(w, "dead")
    /\ UNCHANGED <<queue, row, ghosts>>

Owned(w) == state[task[w]] = "in_progress" /\ owner[task[w]] = w

\* renew_lease(): long training renews once, also when the lease has lapsed.
RenewLease(w) ==
    /\ pc[w] = "run" /\ Owned(w)
    /\ lease' = [lease EXCEPT ![task[w]] = "live"]
    /\ UNCHANGED <<queue, state, owner, worker, faults, ghosts>>

LeaseLapses(t) ==
    /\ lease[t] = "live" /\ state[t] = "in_progress"
    /\ Fault
    /\ lease' = [lease EXCEPT ![t] = "expired"]
    /\ lapses' = [lapses EXCEPT ![t] = @ + 1]
    /\ UNCHANGED <<queue, state, owner, worker, effects, failed, swallowed>>

-----------------------------------------------------------------------------
(* The consumer. *)

\* The side effect takes place and is reported so; or it fails, for good
\* ("dead") or for now ("nak", email only), before or after it took place; or
\* ml and analytics swallow the error: a run for no tenants, because they
\* could not be read, or a retrain of models that all failed, is a success,
\* with the mark ("done") or without ("ack").
Effect(w, happened, result) ==
    /\ pc[w] = "run"
    /\ result = "ack" => ~happened
    /\ FaultIf(~(happened /\ result = "done"))
    /\ effects' = [effects EXCEPT ![task[w]] = IF happened THEN @ + 1 ELSE @]
    /\ failed' = failed \union {t \in {task[w]} : result \in {"nak", "dead"}}
    /\ swallowed' = swallowed \union {t \in {task[w]} : ~happened /\ result \in {"done", "ack"}}
    /\ Goto(w, result)
    /\ UNCHANGED <<queue, row, lapses>>

\* mark_completed(): fenced by the owner; no row is no error.
Completed(w) ==
    IF Owned(w)
    THEN state' = [state EXCEPT ![task[w]] = "completed"] /\ UNCHANGED <<owner, lease>>
    ELSE UNCHANGED row

MarkCompleted(w) ==
    /\ pc[w] = "done"
    /\ Completed(w)
    /\ Goto(w, "ack")
    /\ UNCHANGED <<queue, faults, ghosts>>

\* The mark fails (or its answer is lost): email and pdf log it and ack,
\* analytics and ml return the error.
MarkFails(w, committed, next) ==
    /\ pc[w] = "done"
    /\ Fault
    /\ IF committed THEN Completed(w) ELSE UNCHANGED row
    /\ Goto(w, next)
    /\ failed' = IF next = "dead" THEN failed \union {task[w]} ELSE failed
    /\ UNCHANGED <<queue, effects, lapses, swallowed>>

-----------------------------------------------------------------------------
(* The dispatcher. *)

Ack(w, arrives) ==
    /\ pc[w] = "ack"
    /\ FaultIf(~arrives)
    /\ IF arrives THEN Acked(task[w]) ELSE UNCHANGED msg
    /\ Finish(w)
    /\ UNCHANGED <<deliveries, dlq, row, ghosts>>

Nak(w) ==
    /\ pc[w] = "nak"
    /\ Naked(task[w])
    /\ Finish(w)
    /\ UNCHANGED <<deliveries, dlq, row, faults, ghosts>>

\* dead_letter(): ack only what the server acknowledged.  Otherwise the
\* message is left alone, or NAKed, and the copy may be there or not.
\* (Mutations: the acknowledgement is not awaited, or awaited for ever.)
DeadLetterUnawaited(w) ==
    /\ pc[w] = "dead"
    /\ dlq' \in {dlq, dlq \union {task[w]}}
    /\ Goto(w, "ack")
    /\ UNCHANGED <<msg, deliveries, row, faults, ghosts>>
DeadLetterPatient(w) ==
    /\ pc[w] = "dead"
    /\ \/ /\ dlq' = dlq \union {task[w]}
          /\ Goto(w, "ack")
          /\ UNCHANGED faults
       \/ Fault /\ Goto(w, "waiting") /\ UNCHANGED dlq
    /\ UNCHANGED <<msg, deliveries, row, ghosts>>
DeadLetter(w) ==
    /\ pc[w] = "dead"
    /\ \/ /\ dlq' = dlq \union {task[w]}
          /\ Goto(w, "ack")
          /\ UNCHANGED <<msg, faults>>
       \/ /\ Fault
          /\ dlq' \in {dlq, dlq \union {task[w]}}
          /\ \/ UNCHANGED msg
             \/ Naked(task[w])
          /\ Finish(w)
    /\ UNCHANGED <<deliveries, row, ghosts>>

\* A process dies; its successor is another owner.
Crash(w) ==
    /\ pc[w] # "idle"
    /\ Fault
    /\ Finish(w)
    /\ owner' = [t \in Tasks |-> IF owner[t] = w THEN Nobody ELSE owner[t]]
    /\ UNCHANGED <<queue, state, lease, ghosts>>

-----------------------------------------------------------------------------
WorkerStep(w) ==
    \/ \E b \in BOOLEAN : Claim(w, b) \/ Ack(w, b)
    \/ \E b \in BOOLEAN, r \in {"done", "ack", "nak", "dead"} : Effect(w, b, r)
    \/ \E b \in BOOLEAN, r \in {"ack", "dead"} : MarkFails(w, b, r)
    \/ ClaimFails(w) \/ MarkCompleted(w) \/ Nak(w) \/ DeadLetter(w)

Next ==
    \/ \E t \in Tasks : Publish(t) \/ AckWait(t) \/ LeaseLapses(t)
    \/ \E w \in Workers :
          \/ \E t \in Tasks : Deliver(w, t)
          \/ WorkerStep(w) \/ RenewLease(w) \/ Crash(w)

Spec == Init /\ [][Next]_vars

-----------------------------------------------------------------------------
(* Properties. *)

(* A message leaves the queue only after the task's effect took place, a dead
   letter is durable, or a consumer swallowed the error, whatever acks, dead
   letters and workers got lost: "The original message is never acked until the
   DLQ replacement has received its publish acknowledgement" (task.rs). *)
AckedIsAccounted ==
    \A t \in Tasks : msg[t] = "acked" => effects[t] > 0 \/ t \in dlq \union swallowed

(* A redelivered message repeats the side effect only after the lease of the
   run before ran out: IdempotencyGuard, "so a redelivered message can never
   run the side effect twice". *)
RepeatsNeedALapse == \A t \in Tasks : effects[t] <= 1 + lapses[t]

(* As long as no lease lapsed, at most one worker executes a task, however
   often its message is redelivered, and none executes a completed one. *)
SoleExecutor ==
    \A t \in Tasks : lapses[t] = 0 =>
        /\ \A v, w \in Workers :
              pc[v] \in Executing /\ pc[w] \in Executing /\ task[v] = t /\ task[w] = t
              => v = w
        /\ state[t] = "completed" =>
              \A w \in Workers : pc[w] \in Executing => task[w] # t

(* task.rs on Busy: "retry later (the delivery will back off and re-claim
   once the lease expires)"; only a failure is dead-lettered. *)
DeadLetterMeansFailed == dlq \subseteq failed
=============================================================================
