---------------------------- MODULE TaskPipeline ----------------------------
(***************************************************************************)
(* Scheduled work from end to end: the scheduler publishes the envelope of *)
(* a slot (Scheduler), the stream delivers it to the workers and they run  *)
(* its side effect (TaskWorker).  Every publication is a new envelope with *)
(* a fresh task_id (TaskEnvelope::new), so the workers' guard cannot see   *)
(* that two tasks stand for one slot.                                      *)
(***************************************************************************)
EXTENDS Naturals, FiniteSets, FiniteSetsExt

CONSTANTS Schedulers, Horizon, Workers, Tasks, MaxDeliver, MaxFaults, Nobody, NoTask

VARIABLES
    now, lock, loop, target, slot, slotOwner, slotLease, copies, doubted,
    msg, deliveries, dlq, state, owner, lease, pc, task, effects, lapses, failed, swallowed,
    faults,
    slotOf       \* the slot each envelope was made for

S == INSTANCE Scheduler
W == INSTANCE TaskWorker

ASSUME PipelineAssumption ==
    S!SchedulerAssumption /\ W!TaskAssumption /\ IsFiniteSet(Workers)

schedulers == <<now, lock, loop, target, slot, slotOwner, slotLease, copies, doubted>>
workers == <<msg, deliveries, dlq, state, owner, lease, pc, task, effects, lapses, failed,
             swallowed>>
vars == <<schedulers, workers, faults, slotOf>>

Init == S!Init /\ W!Init /\ slotOf = [t \in Tasks |-> 0]

\* TaskEnvelope::new(): any task_id not used before.
Unused == {t \in Tasks : msg[t] = "none"}

PublishSlot(p, stored, acked) ==
    /\ S!PublishSlot(p, stored, acked)
    /\ IF stored
       THEN \E t \in Unused :
               /\ msg' = [msg EXCEPT ![t] = "ready"]
               /\ slotOf' = [slotOf EXCEPT ![t] = target[p]]
       ELSE UNCHANGED <<msg, slotOf>>
    /\ UNCHANGED <<deliveries, dlq, state, owner, lease, pc, task, effects, lapses, failed,
                   swallowed>>

SchedulerAlone ==
    \/ S!Tick
    \/ \E p \in Schedulers : S!Lead(p) \/ S!LoseSession(p) \/ S!Die(p) \/ S!LoopStep(p)
    \/ \E s \in S!Slots : S!SlotLeaseLapses(s)

WorkerAlone ==
    \/ \E t \in Tasks : W!AckWait(t) \/ W!LeaseLapses(t)
    \/ \E w \in Workers :
          \/ \E t \in Tasks : W!Deliver(w, t)
          \/ W!WorkerStep(w) \/ W!RenewLease(w) \/ W!Crash(w)

Next ==
    \/ \E p \in Schedulers : \E stored, acked \in BOOLEAN : PublishSlot(p, stored, acked)
    \/ SchedulerAlone /\ UNCHANGED <<workers, slotOf>>
    \/ WorkerAlone /\ UNCHANGED <<schedulers, slotOf>>

Spec == Init /\ [][Next]_vars

(* Time passes, loops and workers run (tokio), the server delivers what is  *)
(* due and redelivers what is not acked, and each worker gets messages.     *)
FairSpec ==
    /\ Spec
    /\ WF_vars(S!Tick /\ UNCHANGED <<faults, workers, slotOf>>)
    /\ \A p \in Schedulers :
          /\ WF_vars(S!LoopStep(p) /\ UNCHANGED <<workers, slotOf>>)
          /\ WF_vars(\E stored, acked \in BOOLEAN : PublishSlot(p, stored, acked))
    /\ \A w \in Workers : WF_vars(W!WorkerStep(w) /\ UNCHANGED <<schedulers, slotOf>>)
    /\ \A t \in Tasks :
          /\ WF_vars(W!AckWait(t) /\ UNCHANGED <<schedulers, slotOf>>)
          /\ SF_vars(\E w \in Workers : W!Deliver(w, t) /\ UNCHANGED <<schedulers, slotOf>>)

-----------------------------------------------------------------------------
(* Properties. *)

TypeOK == S!TypeOK /\ W!TypeOK /\ slotOf \in [Tasks -> 0..Horizon]

AckedIsAccounted == W!AckedIsAccounted
RepeatsNeedALapse == W!RepeatsNeedALapse
SoleExecutor == W!SoleExecutor
TwiceOnlyInDoubt == S!TwiceOnlyInDoubt
DeadLetterMeansFailed == W!DeadLetterMeansFailed

EffectsOf(s) == {t \in Tasks : slotOf[t] = s /\ effects[t] > 0}

(* As long as nothing fails, a slot that a leader waits for has its effect,
   once, whatever redeliveries its messages see meanwhile. *)
FaultFreeRunsOnce ==
    \A s \in S!Slots :
        /\ [](faults = 0) => ((\E p \in Schedulers : loop[p] = "asleep" /\ target[p] = s)
                                ~> EffectsOf(s) # {})
        /\ [](faults = 0 => MapThenSumSet(LAMBDA t : effects[t], EffectsOf(s)) <= 1)

(* Whatever fails, a published task is settled (acked, by a consumer or
   after a dead letter), or it has used up its deliveries (max_deliver) and
   no worker is left waiting over it. *)
Settles ==
    \A t \in Tasks :
        msg[t] # "none" ~>
            \/ msg[t] = "acked"
            \/ deliveries[t] = MaxDeliver /\ \A w \in Workers : task[w] # t
=============================================================================
