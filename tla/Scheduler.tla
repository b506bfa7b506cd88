------------------------------ MODULE Scheduler ------------------------------
(***************************************************************************)
(* The periodic scheduler (sensei-workers/src/scheduler.rs): leadership by *)
(* a PostgreSQL session lock, one loop per scheduled task, and the slots   *)
(* of scheduler_run_log.  One scheduled task is modelled: loops share      *)
(* nothing but the process.                                                *)
(*                                                                         *)
(* Slots are numbered; now = s from the wall-clock time of slot s until    *)
(* that of s + 1.  Losing the database session frees the lock but leaves   *)
(* the loops running, so two processes may run them.  The wake-up of a     *)
(* sleeping loop may be late, even later than the next slot.               *)
(***************************************************************************)
EXTENDS Naturals

CONSTANTS
    Schedulers,
    Horizon,     \* the last slot (a bound)
    MaxFaults,   \* a bound
    Nobody

SchedulerAssumption ==
    Horizon \in Nat /\ MaxFaults \in Nat /\ Nobody \notin Schedulers

VARIABLES
    now,
    lock,                        \* who holds the advisory lock
    loop, target,                \* the loop of each process, the slot it is after
    slot, slotOwner, slotLease,  \* the rows of scheduler_run_log
    faults,
    copies,    \* ghost: how many messages for the slot reached the stream
    doubted    \* ghost: slots published or claimed with an unknown outcome

Slots == 1..Horizon
loops == <<loop, target>>
rows == <<slot, slotOwner, slotLease>>
vars == <<now, lock, loops, rows, faults, copies, doubted>>

TypeOK ==
    /\ now \in 0..Horizon
    /\ lock \in Schedulers \union {Nobody}
    /\ loop \in [Schedulers -> {"follower", "asleep", "publish", "mark", "release"}]
    /\ target \in [Schedulers -> 0..(Horizon + 1)]
    /\ slot \in [Slots -> {"absent", "claimed", "published"}]
    /\ slotOwner \in [Slots -> Schedulers \union {Nobody}]
    /\ slotLease \in [Slots -> {"none", "live", "expired"}]
    /\ faults \in 0..MaxFaults
    /\ copies \in [Slots -> Nat]
    /\ doubted \in SUBSET Slots

Init ==
    /\ now = 0
    /\ lock = Nobody
    /\ loop = [p \in Schedulers |-> "follower"]
    /\ target = [p \in Schedulers |-> 0]
    /\ slot = [s \in Slots |-> "absent"]
    /\ slotOwner = [s \in Slots |-> Nobody]
    /\ slotLease = [s \in Slots |-> "none"]
    /\ faults = 0
    /\ copies = [s \in Slots |-> 0]
    /\ doubted = {}

-----------------------------------------------------------------------------
Fault == faults < MaxFaults /\ faults' = faults + 1
FaultIf(bad) == IF bad THEN Fault ELSE UNCHANGED faults

\* Awake, or due and not awake yet.
Busy(p) == loop[p] # "follower" /\ target[p] <= now

\* Time reaches the next slot.  Loops need seconds and slots are hours apart:
\* one that is not done with the slot before is a fault.
Tick ==
    /\ now < Horizon
    /\ FaultIf(\E p \in Schedulers : Busy(p))
    /\ now' = now + 1
    /\ UNCHANGED <<lock, loops, rows, copies, doubted>>

\* next_run(): the first slot strictly after now.
NextRun == now + 1

GotoLoop(p, where) == loop' = [loop EXCEPT ![p] = where] /\ UNCHANGED target
Sleep(p) ==
    /\ loop' = [loop EXCEPT ![p] = "asleep"]
    /\ target' = [target EXCEPT ![p] = NextRun]

\* pg_try_advisory_lock at start-up or in wait_for_leadership().
Lead(p) ==
    /\ loop[p] = "follower" /\ lock = Nobody
    /\ lock' = p
    /\ Sleep(p)
    /\ UNCHANGED <<now, rows, faults, copies, doubted>>

LoseSession(p) ==
    /\ lock = p
    /\ Fault
    /\ lock' = Nobody
    /\ UNCHANGED <<now, loops, rows, copies, doubted>>

Die(p) ==
    /\ loop[p] # "follower"
    /\ Fault
    /\ lock' = IF lock = p THEN Nobody ELSE lock
    /\ GotoLoop(p, "follower")
    /\ slotOwner' = [s \in Slots |-> IF slotOwner[s] = p THEN Nobody ELSE slotOwner[s]]
    /\ UNCHANGED <<now, slot, slotLease, copies, doubted>>

\* The WHERE clause of the claim.  (Mutation: a live claim is taken over.)
SlotFreeAny(s) == slot[s] # "published"
SlotFree(s) ==
    \/ slot[s] = "absent"
    \/ slot[s] = "claimed" /\ slotLease[s] = "expired"

\* The sleep is over: claim the slot, or skip it.  A claim whose answer is
\* lost leaves the row and skips the slot.
ClaimSlot(p, answered) ==
    LET s == target[p] IN
    /\ loop[p] = "asleep" /\ s <= now
    /\ FaultIf(~answered)
    /\ IF SlotFree(s)
       THEN /\ slot' = [slot EXCEPT ![s] = "claimed"]
            /\ slotOwner' = [slotOwner EXCEPT ![s] = p]
            /\ slotLease' = [slotLease EXCEPT ![s] = "live"]
       ELSE UNCHANGED rows
    /\ IF SlotFree(s) /\ answered THEN GotoLoop(p, "publish") ELSE Sleep(p)
    /\ UNCHANGED <<now, lock, copies, doubted>>

ClaimSlotFails(p) ==
    /\ loop[p] = "asleep" /\ target[p] <= now
    /\ Fault
    /\ Sleep(p)
    /\ UNCHANGED <<now, lock, rows, copies, doubted>>

\* What follows a publish.
AfterSlot(acked) == IF acked THEN "mark" ELSE "release"

\* The two-stage publish: only the server's ack counts, and a copy whose ack
\* is lost may have been stored.
PublishSlot(p, stored, acked) ==
    LET s == target[p] IN
    /\ loop[p] = "publish"
    /\ acked => stored
    /\ FaultIf(~acked)
    /\ copies' = [copies EXCEPT ![s] = IF stored THEN @ + 1 ELSE @]
    /\ doubted' = IF stored /\ ~acked THEN doubted \union {s} ELSE doubted
    /\ GotoLoop(p, AfterSlot(acked))
    /\ UNCHANGED <<now, lock, rows>>

\* mark_slot_published(): by key alone; an error is dropped.
MarkSlot(p, done) ==
    LET s == target[p] IN
    /\ loop[p] = "mark"
    /\ FaultIf(~done)
    /\ slot' = IF done /\ slot[s] # "absent" THEN [slot EXCEPT ![s] = "published"] ELSE slot
    /\ Sleep(p)
    /\ UNCHANGED <<now, lock, slotOwner, slotLease, copies, doubted>>

\* release_slot(): DELETE by key alone; an error is logged.
ReleaseSlot(p, done) ==
    LET s == target[p] IN
    /\ loop[p] = "release"
    /\ FaultIf(~done)
    /\ IF done
       THEN /\ slot' = [slot EXCEPT ![s] = "absent"]
            /\ slotOwner' = [slotOwner EXCEPT ![s] = Nobody]
            /\ slotLease' = [slotLease EXCEPT ![s] = "none"]
       ELSE UNCHANGED rows
    /\ Sleep(p)
    /\ UNCHANGED <<now, lock, copies, doubted>>

SlotLeaseLapses(s) ==
    /\ slot[s] = "claimed" /\ slotLease[s] = "live"
    /\ Fault
    /\ slotLease' = [slotLease EXCEPT ![s] = "expired"]
    /\ doubted' = doubted \union {s}
    /\ UNCHANGED <<now, lock, loops, slot, slotOwner, copies>>

-----------------------------------------------------------------------------
LoopStep(p) ==
    \/ ClaimSlotFails(p)
    \/ \E b \in BOOLEAN : ClaimSlot(p, b) \/ MarkSlot(p, b) \/ ReleaseSlot(p, b)

Next ==
    \/ Tick
    \/ \E p \in Schedulers :
          \/ Lead(p) \/ LoseSession(p) \/ Die(p) \/ LoopStep(p)
          \/ \E stored, acked \in BOOLEAN : PublishSlot(p, stored, acked)
    \/ \E s \in Slots : SlotLeaseLapses(s)

Spec == Init /\ [][Next]_vars

-----------------------------------------------------------------------------
(* Properties. *)

(* Two leaders, a takeover, crashes and failed bookkeeping do not publish a
   slot twice: for that, a publish must have had an unknown outcome or a
   claim must have outlived its lease.  scheduler.rs: "deduplicates each
   wall-clock slot, so a takeover never re-publishes a slot the dead leader
   already fired". *)
TwiceOnlyInDoubt == \A s \in Slots : copies[s] > 1 => s \in doubted
=============================================================================
