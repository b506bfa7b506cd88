------------------------- MODULE TaskPipelineProofs -------------------------
(***************************************************************************)
(* Proofs about TaskPipeline, for any number of schedulers, slots, workers *)
(* and tasks and any limits on deliveries and faults: what the slot rows   *)
(* and the lease rows guarantee when scheduler and workers run together.   *)
(***************************************************************************)
EXTENDS TaskPipeline, FiniteSetTheorems, TLAPS

-----------------------------------------------------------------------------
(* What a step of the whole is for each part. *)

Stored ==
    /\ \E t \in Unused : msg' = [msg EXCEPT ![t] = "ready"]
    /\ UNCHANGED <<deliveries, dlq, state, owner, lease, pc, task, effects, lapses, failed,
                   swallowed>>

LEMMA SchedulerSees == [Next]_vars => S!Next \/ UNCHANGED schedulers
BY DEF Next, vars, PublishSlot, SchedulerAlone, schedulers, S!Next

LEMMA WorkerSees == [Next]_vars => W!Next \/ Stored \/ UNCHANGED workers
BY DEF Next, vars, PublishSlot, WorkerAlone, workers, W!Next, Stored

-----------------------------------------------------------------------------
(* The slots. *)

\* A loop that sleeps is after a slot to come or due; one at work, after a slot.
TargetsFit ==
    \A p \in Schedulers :
        /\ loop[p] = "asleep" => target[p] >= 1
        /\ loop[p] \in {"publish", "mark", "release"} => target[p] \in S!Slots

At(p, s) == loop[p] \in {"publish", "mark", "release"} /\ target[p] = s

\* As long as nothing is in doubt: who is at work for a slot is alone with its
\* row, nothing has been published before, and a released row has no copy.
SlotFits(s) ==
    s \notin doubted =>
        /\ slotLease[s] # "expired"
        /\ copies[s] <= 1
        /\ slot[s] = "absent" => copies[s] = 0 /\ \A p \in Schedulers : ~ At(p, s)
        /\ \A p \in Schedulers :
              /\ At(p, s) /\ loop[p] # "mark" => copies[s] = 0
              /\ \A q \in Schedulers : At(p, s) /\ At(q, s) => p = q

SlotTypes ==
    /\ now \in 0..Horizon
    /\ loop \in [Schedulers -> {"follower", "asleep", "publish", "mark", "release"}]
    /\ target \in [Schedulers -> 0..(Horizon + 1)]
    /\ slot \in [S!Slots -> {"absent", "claimed", "published"}]
    /\ slotLease \in [S!Slots -> {"none", "live", "expired"}]
    /\ copies \in [S!Slots -> Nat]

SlotsInv == SlotTypes /\ TargetsFit /\ \A s \in S!Slots : SlotFits(s)

LEMMA SlotsInit == Init => SlotsInv
BY PipelineAssumption
   DEF Init, S!Init, SlotsInv, SlotTypes, TargetsFit, SlotFits, At, S!SchedulerAssumption, S!Slots

LEMMA SlotsStep == SlotsInv /\ [Next]_vars => SlotsInv'
<1> SUFFICES ASSUME SlotsInv, [Next]_vars PROVE SlotsInv'
  OBVIOUS
<1> USE PipelineAssumption DEF SlotsInv, SlotTypes, TargetsFit, S!SchedulerAssumption, S!Slots
<1>1. CASE UNCHANGED schedulers
  BY <1>1 DEF schedulers, SlotFits, At
<1>2. CASE S!Tick
  BY <1>2 DEF S!Tick, S!loops, S!rows, SlotFits, At
<1>3. ASSUME NEW p \in Schedulers, S!Lead(p) PROVE SlotsInv'
  BY <1>3 DEF S!Lead, S!Sleep, S!NextRun, S!rows, SlotFits, At
<1>4. ASSUME NEW p \in Schedulers, S!LoseSession(p) PROVE SlotsInv'
  BY <1>4 DEF S!LoseSession, S!loops, S!rows, SlotFits, At
<1>5. ASSUME NEW p \in Schedulers, S!Die(p) PROVE SlotsInv'
  BY <1>5 DEF S!Die, S!GotoLoop, SlotFits, At
<1>6. ASSUME NEW p \in Schedulers, S!ClaimSlotFails(p) PROVE SlotsInv'
  BY <1>6 DEF S!ClaimSlotFails, S!Sleep, S!NextRun, S!rows, SlotFits, At
<1>7. ASSUME NEW p \in Schedulers, NEW b \in BOOLEAN, S!ClaimSlot(p, b) PROVE SlotsInv'
  <2> DEFINE s == target[p]
  <2>1. s \in S!Slots /\ loop[p] = "asleep"
    BY <1>7 DEF S!ClaimSlot
  <2>2. /\ UNCHANGED <<now, copies, doubted>>
        /\ \/ /\ S!SlotFree(s)
              /\ slot' = [slot EXCEPT ![s] = "claimed"]
              /\ slotLease' = [slotLease EXCEPT ![s] = "live"]
           \/ UNCHANGED <<slot, slotLease>>
    BY <1>7 DEF S!ClaimSlot, S!rows
  <2>3. \/ /\ S!SlotFree(s) /\ slot'[s] = "claimed"
           /\ loop' = [loop EXCEPT ![p] = "publish"] /\ UNCHANGED target
        \/ /\ loop' = [loop EXCEPT ![p] = "asleep"]
           /\ target' = [target EXCEPT ![p] = now + 1]
    BY <1>7, <2>1 DEF S!ClaimSlot, S!GotoLoop, S!Sleep, S!NextRun
  <2>4. slot' \in [S!Slots -> {"absent", "claimed", "published"}]
    BY <2>1, <2>2
  <2>5. slotLease' \in [S!Slots -> {"none", "live", "expired"}]
    BY <2>1, <2>2
  <2>6. loop' \in [Schedulers -> {"follower", "asleep", "publish", "mark", "release"}]
    BY <2>3
  <2>7. target' \in [Schedulers -> 0..(Horizon + 1)]
    <3>1. now + 1 \in 0..(Horizon + 1)
      OBVIOUS
    <3> QED  BY <2>3, <3>1
  <2>8. TargetsFit'
    BY <2>1, <2>3
  <2>9. ASSUME NEW r \in S!Slots PROVE SlotFits(r)'
    <3>1. \A q \in Schedulers : q # p => (At(q, r)' <=> At(q, r)) /\ loop'[q] = loop[q]
      BY <2>3 DEF At
    <3>2. \/ At(p, r)' => r = s /\ S!SlotFree(s) /\ slot'[s] = "claimed" /\ loop'[p] = "publish"
      BY <2>1, <2>3 DEF At
    <3>3. ~ At(p, r)
      BY <2>1 DEF At
    <3>4. SlotFits(r)
      OBVIOUS
    <3>5. CASE r = s /\ S!SlotFree(s)
      BY <2>1, <2>2, <3>1, <3>2, <3>3, <3>4, <3>5 DEF S!SlotFree, SlotFits
    <3>6. CASE ~ (r = s /\ S!SlotFree(s))
      BY <2>1, <2>2, <3>1, <3>2, <3>3, <3>4, <3>6 DEF SlotFits
    <3> QED  BY <3>5, <3>6
  <2> QED  BY <2>2, <2>4, <2>5, <2>6, <2>7, <2>8, <2>9
<1>8. ASSUME NEW p \in Schedulers, NEW b \in BOOLEAN, S!MarkSlot(p, b) PROVE SlotsInv'
  BY <1>8 DEF S!MarkSlot, S!Sleep, S!NextRun, SlotFits, At
<1>9. ASSUME NEW p \in Schedulers, NEW b \in BOOLEAN, S!ReleaseSlot(p, b) PROVE SlotsInv'
  <2>1. /\ UNCHANGED <<now, copies, doubted>>
        /\ loop[p] = "release" /\ target[p] \in S!Slots
        /\ loop' = [loop EXCEPT ![p] = "asleep"] /\ target' = [target EXCEPT ![p] = now + 1]
        /\ \/ /\ slot' = [slot EXCEPT ![target[p]] = "absent"]
              /\ slotLease' = [slotLease EXCEPT ![target[p]] = "none"]
           \/ UNCHANGED <<slot, slotLease>>
    BY <1>9 DEF S!ReleaseSlot, S!Sleep, S!NextRun, S!rows
  <2>2. SlotTypes' /\ TargetsFit'
    <3>1. now + 1 \in 0..(Horizon + 1)
      OBVIOUS
    <3>2. target' \in [Schedulers -> 0..(Horizon + 1)]
      BY <2>1, <3>1
    <3>3. slot' \in [S!Slots -> {"absent", "claimed", "published"}]
      BY <2>1
    <3>4. slotLease' \in [S!Slots -> {"none", "live", "expired"}]
      BY <2>1
    <3>5. TargetsFit'
      BY <2>1
    <3> QED  BY <2>1, <3>2, <3>3, <3>4, <3>5
  <2>3. \A r \in S!Slots : SlotFits(r)'
    BY <2>1 DEF SlotFits, At
  <2> QED  BY <2>2, <2>3
<1>10. ASSUME NEW p \in Schedulers, NEW st \in BOOLEAN, NEW b \in BOOLEAN, S!PublishSlot(p, st, b)
       PROVE  SlotsInv'
  <2>1. SlotTypes' /\ TargetsFit'
    BY <1>10 DEF S!PublishSlot, S!GotoLoop, S!AfterSlot, S!rows
  <2>2. \A r \in S!Slots : SlotFits(r)'
    BY <1>10, <2>1 DEF S!PublishSlot, S!GotoLoop, S!AfterSlot, S!rows, SlotFits, At
  <2> QED  BY <2>1, <2>2
<1>11. ASSUME NEW s \in S!Slots, S!SlotLeaseLapses(s) PROVE SlotsInv'
  BY <1>11 DEF S!SlotLeaseLapses, S!loops, SlotFits, At
<1> QED
  BY <1>1, <1>2, <1>3, <1>4, <1>5, <1>6, <1>7, <1>8, <1>9, <1>10, <1>11, SchedulerSees
     DEF S!Next, S!LoopStep

(* A slot whose publications and claims all had a known outcome is published
   at most once, whoever leads, dies or loses its session: scheduler.rs. *)
THEOREM TwiceOnlyInDoubtHolds == Spec => []TwiceOnlyInDoubt
<1>1. SlotsInv => TwiceOnlyInDoubt
  BY DEF SlotsInv, SlotTypes, SlotFits, TwiceOnlyInDoubt, S!TwiceOnlyInDoubt
<1> QED  BY <1>1, SlotsInit, SlotsStep, PTL DEF Spec
-----------------------------------------------------------------------------
(* The workers' types, and that a worker which is not idle has a task. *)

WorkTypes ==
    /\ msg \in [Tasks -> {"none", "ready", "inflight", "acked"}]
    /\ dlq \in SUBSET Tasks
    /\ state \in [Tasks -> {"absent", "in_progress", "completed"}]
    /\ owner \in [Tasks -> Workers \union {Nobody}]
    /\ lease \in [Tasks -> {"none", "live", "expired"}]
    /\ pc \in [Workers -> W!Places]
    /\ task \in [Workers -> Tasks \union {NoTask}]
    /\ \A w \in Workers : pc[w] # "idle" => task[w] \in Tasks
    /\ effects \in [Tasks -> Nat] /\ lapses \in [Tasks -> Nat]

\* Where a step leaves the rows of processed_tasks alone, or claims, or completes.
RowSteps(w) ==
    \/ UNCHANGED <<state, owner, lease>>
    \/ /\ W!Claimable(task[w])
       /\ state' = [state EXCEPT ![task[w]] = "in_progress"]
       /\ owner' = [owner EXCEPT ![task[w]] = w]
       /\ lease' = [lease EXCEPT ![task[w]] = "live"]
    \/ /\ state' = [state EXCEPT ![task[w]] = "completed"]
       /\ UNCHANGED <<owner, lease>>

LEMMA RowTypes ==
    ASSUME WorkTypes, NEW w \in Workers, task[w] \in Tasks, RowSteps(w)
    PROVE  /\ state' \in [Tasks -> {"absent", "in_progress", "completed"}]
           /\ owner' \in [Tasks -> Workers \union {Nobody}]
           /\ lease' \in [Tasks -> {"none", "live", "expired"}]
<1>1. state' \in [Tasks -> {"absent", "in_progress", "completed"}]
  BY DEF WorkTypes, RowSteps
<1>2. owner' \in [Tasks -> Workers \union {Nobody}]
  BY DEF WorkTypes, RowSteps
<1>3. lease' \in [Tasks -> {"none", "live", "expired"}]
  BY DEF WorkTypes, RowSteps
<1> QED  BY <1>1, <1>2, <1>3

LEMMA WorkTypesStep == WorkTypes /\ [Next]_vars => WorkTypes'
<1> SUFFICES ASSUME WorkTypes, [Next]_vars PROVE WorkTypes'
  OBVIOUS
<1> USE DEF WorkTypes, W!Places, W!Executing
<1>1. CASE UNCHANGED workers
  BY <1>1 DEF workers
<1>2. CASE Stored
  BY <1>2 DEF Stored, Unused
<1>3. ASSUME NEW t \in Tasks, W!Publish(t) \/ W!AckWait(t) PROVE WorkTypes'
  BY <1>3 DEF W!Publish, W!AckWait, W!row, W!worker, W!ghosts
<1>4. ASSUME NEW t \in Tasks, W!LeaseLapses(t) PROVE WorkTypes'
  BY <1>4 DEF W!LeaseLapses, W!queue, W!worker
<1>5. ASSUME NEW w \in Workers, NEW t \in Tasks, W!Deliver(w, t) PROVE WorkTypes'
  BY <1>5 DEF W!Deliver, W!row, W!ghosts
<1>6. ASSUME NEW w \in Workers, NEW b \in BOOLEAN, W!Claim(w, b) PROVE WorkTypes'
  <2>1. task[w] \in Tasks /\ UNCHANGED <<msg, dlq, task, effects, lapses>>
    BY <1>6 DEF W!Claim, W!Goto, W!queue, W!ghosts
  <2>2. RowSteps(w)
    BY <1>6 DEF W!Claim, W!row, RowSteps
  <2>3. pc' \in [Workers -> W!Places]
    BY <1>6 DEF W!Claim, W!Goto
  <2>4. /\ state' \in [Tasks -> {"absent", "in_progress", "completed"}]
        /\ owner' \in [Tasks -> Workers \union {Nobody}]
        /\ lease' \in [Tasks -> {"none", "live", "expired"}]
    BY <2>1, <2>2, RowTypes
  <2>5. pc'= [pc EXCEPT ![w] = pc'[w]]
    BY <1>6 DEF W!Claim, W!Goto
  <2> QED  BY <2>1, <2>3, <2>4, <2>5
<1>7. ASSUME NEW w \in Workers, NEW b \in BOOLEAN, W!Ack(w, b) PROVE WorkTypes'
  <2>1. msg' \in [Tasks -> {"none", "ready", "inflight", "acked"}]
    BY <1>7 DEF W!Ack, W!Acked
  <2> QED  BY <1>7, <2>1 DEF W!Ack, W!Finish, W!row, W!ghosts
<1>8. ASSUME NEW w \in Workers, NEW b \in BOOLEAN, NEW r \in {"done", "ack", "nak", "dead"},
             W!Effect(w, b, r)
      PROVE  WorkTypes'
  <2>1. effects' \in [Tasks -> Nat]
    <3>1. task[w] \in Tasks /\ effects[task[w]] + 1 \in Nat
      BY <1>8 DEF W!Effect
    <3> QED  BY <1>8, <3>1 DEF W!Effect
  <2> QED  BY <1>8, <2>1 DEF W!Effect, W!Goto, W!queue, W!row
<1>9. ASSUME NEW w \in Workers, W!MarkCompleted(w) PROVE WorkTypes'
  BY <1>9 DEF W!MarkCompleted, W!Completed, W!Goto, W!queue, W!row, W!ghosts
<1>10. ASSUME NEW w \in Workers, NEW b \in BOOLEAN, NEW r \in {"ack", "dead"},
              W!MarkFails(w, b, r)
       PROVE  WorkTypes'
  <2>1. task[w] \in Tasks /\ UNCHANGED <<msg, dlq, task, effects, lapses>>
    BY <1>10 DEF W!MarkFails, W!Goto, W!queue
  <2>2. RowSteps(w)
    BY <1>10 DEF W!MarkFails, W!Completed, W!row, RowSteps
  <2>3. pc' \in [Workers -> W!Places]
    BY <1>10 DEF W!MarkFails, W!Goto
  <2>4. /\ state' \in [Tasks -> {"absent", "in_progress", "completed"}]
        /\ owner' \in [Tasks -> Workers \union {Nobody}]
        /\ lease' \in [Tasks -> {"none", "live", "expired"}]
    BY <2>1, <2>2, RowTypes
  <2>5. pc'= [pc EXCEPT ![w] = pc'[w]]
    BY <1>10 DEF W!MarkFails, W!Goto
  <2> QED  BY <2>1, <2>3, <2>4, <2>5
<1>11. ASSUME NEW w \in Workers, W!ClaimFails(w) PROVE WorkTypes'
  BY <1>11 DEF W!ClaimFails, W!Goto, W!queue, W!row, W!ghosts
<1>12. ASSUME NEW w \in Workers, W!Nak(w) PROVE WorkTypes'
  BY <1>12 DEF W!Nak, W!Naked, W!Finish, W!row, W!ghosts
<1>13. ASSUME NEW w \in Workers, W!DeadLetter(w) PROVE WorkTypes'
  BY <1>13 DEF W!DeadLetter, W!Naked, W!Goto, W!Finish, W!row, W!ghosts
<1>14. ASSUME NEW w \in Workers, W!RenewLease(w) PROVE WorkTypes'
  BY <1>14 DEF W!RenewLease, W!queue, W!worker, W!ghosts
<1>15. ASSUME NEW w \in Workers, W!Crash(w) PROVE WorkTypes'
  BY <1>15 DEF W!Crash, W!Finish, W!queue, W!ghosts
<1> QED
  BY <1>1, <1>2, <1>3, <1>4, <1>5, <1>6, <1>7, <1>8, <1>9, <1>10, <1>11, <1>12, <1>13, <1>14,
     <1>15, WorkerSees
     DEF W!Next, W!WorkerStep
-----------------------------------------------------------------------------
(* What vouches for a task: the effect, or its consumer's word that it was done
   with; or a dead letter. *)

Happened(t) == effects[t] > 0 \/ t \in swallowed
Accounted(t) == Happened(t) \/ t \in dlq

Vouched ==
    /\ \A t \in Tasks : msg[t] = "acked" => Accounted(t)
    /\ \A t \in Tasks : state[t] = "completed" => Happened(t)
    /\ \A w \in Workers : pc[w] = "done" => Happened(task[w])
    /\ \A w \in Workers : pc[w] = "ack" => Accounted(task[w])

LEMMA VouchedStep == WorkTypes /\ Vouched /\ [Next]_vars => Vouched'
<1> SUFFICES ASSUME WorkTypes, Vouched, [Next]_vars PROVE Vouched'
  OBVIOUS
<1> USE DEF WorkTypes, Vouched, Accounted, Happened
<1>1. CASE UNCHANGED workers
  BY <1>1 DEF workers
<1>2. CASE Stored
  BY <1>2 DEF Stored, Unused
<1>3. ASSUME NEW t \in Tasks, W!Publish(t) \/ W!AckWait(t) PROVE Vouched'
  BY <1>3 DEF W!Publish, W!AckWait, W!row, W!worker, W!ghosts
<1>4. ASSUME NEW t \in Tasks, W!LeaseLapses(t) PROVE Vouched'
  BY <1>4 DEF W!LeaseLapses, W!queue, W!worker
<1>5. ASSUME NEW w \in Workers, NEW t \in Tasks, W!Deliver(w, t) PROVE Vouched'
  BY <1>5 DEF W!Deliver, W!row, W!ghosts
<1>6. ASSUME NEW w \in Workers, NEW b \in BOOLEAN, W!Claim(w, b) PROVE Vouched'
  <2>1. task[w] \in Tasks /\ UNCHANGED <<msg, dlq, task, effects, swallowed>>
    BY <1>6 DEF W!Claim, W!Goto, W!queue, W!ghosts
  <2>2. state' = state \/ state' = [state EXCEPT ![task[w]] = "in_progress"]
    BY <1>6 DEF W!Claim, W!row
  <2>3. /\ pc' = [pc EXCEPT ![w] = pc'[w]] /\ pc'[w] # "done"
        /\ pc'[w] = "ack" => state[task[w]] = "completed"
    BY <1>6 DEF W!Claim, W!Goto
  <2> QED  BY <2>1, <2>2, <2>3
<1>7. ASSUME NEW w \in Workers, NEW b \in BOOLEAN, W!Ack(w, b) PROVE Vouched'
  <2>1. msg' = msg \/ msg' = [msg EXCEPT ![task[w]] = "acked"]
    BY <1>7 DEF W!Ack, W!Acked
  <2> QED  BY <1>7, <2>1 DEF W!Ack, W!Finish, W!row, W!ghosts
<1>8. ASSUME NEW w \in Workers, NEW b \in BOOLEAN, NEW r \in {"done", "ack", "nak", "dead"},
             W!Effect(w, b, r)
      PROVE  Vouched'
  <2>1. /\ task[w] \in Tasks /\ UNCHANGED <<msg, dlq, task, state>>
        /\ pc' = [pc EXCEPT ![w] = r]
    BY <1>8 DEF W!Effect, W!Goto, W!queue, W!row
  <2>2. /\ effects' = [effects EXCEPT ![task[w]] = effects'[task[w]]]
        /\ effects'[task[w]] \in {effects[task[w]], effects[task[w]] + 1}
        /\ swallowed \subseteq swallowed'
        /\ r \in {"done", "ack"} =>
              effects'[task[w]] = effects[task[w]] + 1 \/ task[w] \in swallowed'
    BY <1>8, <2>1 DEF W!Effect
  <2>3. \A t \in Tasks : Happened(t) => Happened(t)'
    BY <2>1, <2>2
  <2>4. r \in {"done", "ack"} => Happened(task[w])'
    BY <2>1, <2>2
  <2> QED  BY <2>1, <2>3, <2>4
<1>9. ASSUME NEW w \in Workers, W!MarkCompleted(w) PROVE Vouched'
  BY <1>9 DEF W!MarkCompleted, W!Completed, W!Goto, W!queue, W!row, W!ghosts
<1>10. ASSUME NEW w \in Workers, NEW b \in BOOLEAN, NEW r \in {"ack", "dead"},
              W!MarkFails(w, b, r)
       PROVE  Vouched'
  <2>1. /\ task[w] \in Tasks /\ pc[w] = "done" /\ UNCHANGED <<msg, dlq, task, effects, swallowed>>
        /\ pc' = [pc EXCEPT ![w] = r]
    BY <1>10 DEF W!MarkFails, W!Goto, W!queue
  <2>2. state' = state \/ state' = [state EXCEPT ![task[w]] = "completed"]
    BY <1>10 DEF W!MarkFails, W!Completed, W!row
  <2> QED  BY <2>1, <2>2
<1>11. ASSUME NEW w \in Workers, W!ClaimFails(w) PROVE Vouched'
  BY <1>11 DEF W!ClaimFails, W!Goto, W!queue, W!row, W!ghosts
<1>12. ASSUME NEW w \in Workers, W!Nak(w) PROVE Vouched'
  BY <1>12 DEF W!Nak, W!Naked, W!Finish, W!row, W!ghosts
<1>13. ASSUME NEW w \in Workers, W!DeadLetter(w) PROVE Vouched'
  BY <1>13 DEF W!DeadLetter, W!Naked, W!Goto, W!Finish, W!row, W!ghosts
<1>14. ASSUME NEW w \in Workers, W!RenewLease(w) PROVE Vouched'
  BY <1>14 DEF W!RenewLease, W!queue, W!worker, W!ghosts
<1>15. ASSUME NEW w \in Workers, W!Crash(w) PROVE Vouched'
  BY <1>15 DEF W!Crash, W!Finish, W!queue, W!ghosts
<1> QED
  BY <1>1, <1>2, <1>3, <1>4, <1>5, <1>6, <1>7, <1>8, <1>9, <1>10, <1>11, <1>12, <1>13, <1>14,
     <1>15, WorkerSees
     DEF W!Next, W!WorkerStep

-----------------------------------------------------------------------------
(* Without a lapse there is one executor. *)

Runs(w, t) == pc[w] \in W!Executing /\ task[w] = t

Sole(t) ==
    lapses[t] = 0 =>
        /\ lease[t] # "expired"
        /\ state[t] # "in_progress" => \A w \in Workers : ~ Runs(w, t)
        /\ \A v, w \in Workers : Runs(v, t) /\ Runs(w, t) => v = w

AlwaysSole == \A t \in Tasks : Sole(t)

\* A step after which nobody runs anything new, and a row that somebody ran
\* under is left alone.
LEMMA SoleKept ==
    ASSUME WorkTypes, AlwaysSole, UNCHANGED <<state, lease, lapses>>,
           \A w \in Workers, t \in Tasks : Runs(w, t)' => Runs(w, t)
    PROVE  AlwaysSole'
BY DEF WorkTypes, AlwaysSole, Sole

LEMMA SoleStep == WorkTypes /\ AlwaysSole /\ [Next]_vars => AlwaysSole'
<1> SUFFICES ASSUME WorkTypes, AlwaysSole, [Next]_vars PROVE AlwaysSole'
  OBVIOUS
<1> USE DEF WorkTypes, W!Executing
<1>1. CASE UNCHANGED workers
  BY <1>1, SoleKept DEF workers, Runs
<1>2. CASE Stored
  BY <1>2, SoleKept DEF Stored, Runs
<1>3. ASSUME NEW t \in Tasks, W!Publish(t) \/ W!AckWait(t) PROVE AlwaysSole'
  BY <1>3, SoleKept DEF W!Publish, W!AckWait, W!row, W!worker, W!ghosts, Runs
<1>4. ASSUME NEW t \in Tasks, W!LeaseLapses(t) PROVE AlwaysSole'
  BY <1>4 DEF W!LeaseLapses, W!worker, AlwaysSole, Sole, Runs
<1>5. ASSUME NEW w \in Workers, NEW t \in Tasks, W!Deliver(w, t) PROVE AlwaysSole'
  BY <1>5, SoleKept DEF W!Deliver, W!row, W!ghosts, Runs
<1>6. ASSUME NEW w \in Workers, NEW b \in BOOLEAN, W!Claim(w, b) PROVE AlwaysSole'
  <2>1. task[w] \in Tasks /\ pc[w] = "claim" /\ UNCHANGED <<task, lapses>>
    BY <1>6 DEF W!Claim, W!Goto, W!ghosts
  <2>2. pc' = [pc EXCEPT ![w] = pc'[w]] /\ (pc'[w] \in W!Executing => W!Claimable(task[w]))
    BY <1>6 DEF W!Claim, W!Goto
  <2>3. CASE W!Claimable(task[w])
    <3>1. /\ state' = [state EXCEPT ![task[w]] = "in_progress"]
          /\ lease' = [lease EXCEPT ![task[w]] = "live"]
      BY <1>6, <2>3 DEF W!Claim
    <3>2. lapses[task[w]] = 0 => \A v \in Workers : ~ Runs(v, task[w])
      BY <2>1, <2>3 DEF W!Claimable, AlwaysSole, Sole
    <3>3. \A v \in Workers, t \in Tasks : Runs(v, t)' => Runs(v, t) \/ (v = w /\ t = task[w])
      BY <2>1, <2>2 DEF Runs
    <3> QED  BY <2>1, <3>1, <3>2, <3>3 DEF AlwaysSole, Sole
  <2>4. CASE ~ W!Claimable(task[w])
    <3>1. UNCHANGED <<state, lease>>
      BY <1>6, <2>4 DEF W!Claim, W!row
    <3> QED  BY <2>1, <2>2, <2>4, <3>1, SoleKept DEF Runs
  <2> QED  BY <2>3, <2>4
<1>7. ASSUME NEW w \in Workers, NEW b \in BOOLEAN, W!Ack(w, b) PROVE AlwaysSole'
  BY <1>7, SoleKept DEF W!Ack, W!Finish, W!row, W!ghosts, Runs
<1>8. ASSUME NEW w \in Workers, NEW b \in BOOLEAN, NEW r \in {"done", "ack", "nak", "dead"},
             W!Effect(w, b, r)
      PROVE  AlwaysSole'
  BY <1>8, SoleKept DEF W!Effect, W!Goto, W!row, Runs
<1>9. ASSUME NEW w \in Workers, pc[w] = "done", NEW r \in {"ack", "dead"},
             pc' = [pc EXCEPT ![w] = r], UNCHANGED <<task, lapses, lease>>,
             state' = state \/ state' = [state EXCEPT ![task[w]] = "completed"]
      PROVE  AlwaysSole'
  BY <1>9 DEF AlwaysSole, Sole, Runs
<1>10. ASSUME NEW w \in Workers, W!MarkCompleted(w) PROVE AlwaysSole'
  BY <1>9, <1>10 DEF W!MarkCompleted, W!Completed, W!Goto, W!row, W!ghosts
<1>11. ASSUME NEW w \in Workers, NEW b \in BOOLEAN, NEW r \in {"ack", "dead"},
              W!MarkFails(w, b, r)
       PROVE  AlwaysSole'
  <2>1. UNCHANGED lease /\ (state' = state \/ state' = [state EXCEPT ![task[w]] = "completed"])
    BY <1>11 DEF W!MarkFails, W!Completed, W!row
  <2> QED  BY <1>9, <1>11, <2>1 DEF W!MarkFails, W!Goto
<1>12. ASSUME NEW w \in Workers, W!ClaimFails(w) PROVE AlwaysSole'
  BY <1>12, SoleKept DEF W!ClaimFails, W!Goto, W!row, W!ghosts, Runs
<1>13. ASSUME NEW w \in Workers, W!Nak(w) PROVE AlwaysSole'
  BY <1>13, SoleKept DEF W!Nak, W!Finish, W!row, W!ghosts, Runs
<1>14. ASSUME NEW w \in Workers, W!DeadLetter(w) PROVE AlwaysSole'
  BY <1>14, SoleKept DEF W!DeadLetter, W!Goto, W!Finish, W!row, W!ghosts, Runs
<1>15. ASSUME NEW w \in Workers, W!RenewLease(w) PROVE AlwaysSole'
  BY <1>15 DEF W!RenewLease, W!worker, W!ghosts, AlwaysSole, Sole, Runs
<1>16. ASSUME NEW w \in Workers, W!Crash(w) PROVE AlwaysSole'
  BY <1>16, SoleKept DEF W!Crash, W!Finish, W!ghosts, Runs
<1> QED
  BY <1>1, <1>2, <1>3, <1>4, <1>5, <1>6, <1>7, <1>8, <1>10, <1>11, <1>12, <1>13, <1>14,
     <1>15, <1>16, WorkerSees
     DEF W!Next, W!WorkerStep
-----------------------------------------------------------------------------
(* Every execution has used up the row's first claim or a lapse. *)

Running(t) == {w \in Workers : pc[w] = "run" /\ task[w] = t}
Free(t) == IF state[t] = "absent" \/ lease[t] = "expired" THEN 1 ELSE 0

Budget(t) == effects[t] + Cardinality(Running(t)) + Free(t) <= 1 + lapses[t]
InBudget == \A t \in Tasks : Budget(t)

LEMMA RunningCount ==
    ASSUME NEW R \in SUBSET Workers, NEW Q \in SUBSET R
    PROVE  /\ Cardinality(R) \in Nat /\ Cardinality(Q) \in Nat
           /\ Cardinality(Q) <= Cardinality(R)
           /\ \A w \in R : Cardinality(R \ {w}) = Cardinality(R) - 1
<1>1. IsFiniteSet(R)
  BY PipelineAssumption, FS_Subset
<1> QED  BY <1>1, FS_Subset, FS_CardinalityType, FS_RemoveElement

\* No new run, no effect, and the row does not become free.
LEMMA BudgetKept ==
    ASSUME WorkTypes, WorkTypes', NEW t \in Tasks, Budget(t), Running(t)' \subseteq Running(t),
           effects'[t] = effects[t], lapses'[t] = lapses[t], Free(t)' <= Free(t)
    PROVE  Budget(t)'
<1>1. /\ Cardinality(Running(t)) \in Nat /\ Cardinality(Running(t)') \in Nat
      /\ Cardinality(Running(t)') <= Cardinality(Running(t))
  <2>1. Running(t) \in SUBSET Workers
    BY DEF Running
  <2> QED  BY <2>1, RunningCount
<1> QED  BY <1>1 DEF Budget, Free, WorkTypes

\* The same for a step that changes neither rows nor ghosts.
LEMMA BudgetsKept ==
    ASSUME WorkTypes, WorkTypes', InBudget, UNCHANGED <<state, lease, effects, lapses>>,
           \A w \in Workers : pc'[w] = "run" => pc[w] = "run" /\ task'[w] = task[w]
    PROVE  InBudget'
<1> SUFFICES ASSUME NEW t \in Tasks PROVE Budget(t)'
  BY DEF InBudget
<1>1. Running(t)' \subseteq Running(t)
  BY DEF Running
<1>2. Free(t)' <= Free(t)
  BY DEF Free
<1> QED  BY <1>1, <1>2, BudgetKept DEF InBudget

LEMMA BudgetStep == WorkTypes /\ InBudget /\ [Next]_vars => InBudget'
<1> SUFFICES ASSUME WorkTypes, InBudget, [Next]_vars PROVE InBudget'
  OBVIOUS
<1>0. WorkTypes'
  BY WorkTypesStep
<1> USE <1>0
<1>1. CASE UNCHANGED workers
  BY <1>1, BudgetsKept DEF workers
<1>2. CASE Stored
  BY <1>2, BudgetsKept DEF Stored
<1>3. ASSUME NEW t \in Tasks, W!Publish(t) \/ W!AckWait(t) PROVE InBudget'
  BY <1>3, BudgetsKept DEF W!Publish, W!AckWait, W!row, W!worker, W!ghosts
<1>4. ASSUME NEW t \in Tasks, W!LeaseLapses(t) PROVE InBudget'
  <2> SUFFICES ASSUME NEW u \in Tasks PROVE Budget(u)'
    BY DEF InBudget
  <2>1. Running(u)' = Running(u) /\ Cardinality(Running(u)) \in Nat /\ Budget(u)
    BY <1>4, RunningCount DEF W!LeaseLapses, W!worker, Running, InBudget
  <2>2. CASE u = t
    <3>1. /\ Free(t) = 0 /\ Free(t)' = 1 /\ lapses'[t] = lapses[t] + 1
          /\ effects' = effects
      BY <1>4 DEF W!LeaseLapses, Free, WorkTypes
    <3> QED  BY <2>1, <2>2, <3>1 DEF Budget, WorkTypes
  <2>3. CASE u # t
    BY <1>4, <2>1, <2>3 DEF W!LeaseLapses, Free, WorkTypes, Budget
  <2> QED  BY <2>2, <2>3
<1>5. ASSUME NEW w \in Workers, NEW t \in Tasks, W!Deliver(w, t) PROVE InBudget'
  BY <1>5, BudgetsKept DEF W!Deliver, W!row, W!ghosts, WorkTypes
<1>6. ASSUME NEW w \in Workers, NEW b \in BOOLEAN, W!Claim(w, b) PROVE InBudget'
  <2>1. /\ task[w] \in Tasks /\ pc[w] = "claim" /\ UNCHANGED <<task, effects, lapses>>
        /\ pc' = [pc EXCEPT ![w] = pc'[w]] /\ (pc'[w] = "run" => W!Claimable(task[w]))
    BY <1>6 DEF W!Claim, W!Goto, W!ghosts, WorkTypes
  <2>2. CASE ~ W!Claimable(task[w])
    <3>1. UNCHANGED <<state, lease>>
      BY <1>6, <2>2 DEF W!Claim, W!row
    <3> QED  BY <2>1, <2>2, <3>1, BudgetsKept DEF WorkTypes
  <2>3. CASE W!Claimable(task[w])
    <3> SUFFICES ASSUME NEW t \in Tasks PROVE Budget(t)'
      BY DEF InBudget
    <3>1. /\ state' = [state EXCEPT ![task[w]] = "in_progress"]
          /\ lease' = [lease EXCEPT ![task[w]] = "live"]
      BY <1>6, <2>3 DEF W!Claim
    <3>2. CASE t = task[w]
      <4>1. Free(t) = 1 /\ Free(t)' = 0
        BY <2>1, <2>3, <3>1, <3>2 DEF W!Claimable, Free, WorkTypes
      <4>2. Running(t)' \ {w} \subseteq Running(t) /\ w \notin Running(t)
        BY <2>1 DEF Running, WorkTypes
      <4>3. /\ Cardinality(Running(t)) \in Nat /\ Cardinality(Running(t)') \in Nat
            /\ Cardinality(Running(t)') <= Cardinality(Running(t)) + 1
        <5>1. Running(t) \in SUBSET Workers /\ Running(t)' \in SUBSET Workers
          BY DEF Running
        <5>2. Cardinality(Running(t)' \ {w}) <= Cardinality(Running(t))
          BY <4>2, <5>1, RunningCount
        <5>3. CASE w \in Running(t)'
          BY <5>1, <5>2, <5>3, RunningCount
        <5>4. CASE w \notin Running(t)'
          <6>1. Running(t)' \ {w} = Running(t)'
            BY <5>4
          <6> QED  BY <5>1, <5>2, <6>1, RunningCount
        <5> QED  BY <5>3, <5>4
      <4>4. Budget(t)
        BY DEF InBudget
      <4> QED  BY <2>1, <4>1, <4>3, <4>4 DEF Budget, WorkTypes
    <3>3. CASE t # task[w]
      <4>1. Running(t)' \subseteq Running(t) /\ Free(t)' <= Free(t)
        BY <2>1, <3>1, <3>3 DEF Running, Free, WorkTypes
      <4> QED  BY <2>1, <4>1, BudgetKept DEF InBudget
    <3> QED  BY <3>2, <3>3
  <2> QED  BY <2>2, <2>3
<1>7. ASSUME NEW w \in Workers, NEW b \in BOOLEAN, W!Ack(w, b) PROVE InBudget'
  BY <1>7, BudgetsKept DEF W!Ack, W!Finish, W!row, W!ghosts, WorkTypes
<1>8. ASSUME NEW w \in Workers, NEW b \in BOOLEAN, NEW r \in {"done", "ack", "nak", "dead"},
             W!Effect(w, b, r)
      PROVE  InBudget'
  <2> SUFFICES ASSUME NEW t \in Tasks PROVE Budget(t)'
    BY DEF InBudget
  <2>1. /\ task[w] \in Tasks /\ pc[w] = "run" /\ UNCHANGED <<task, state, lease, lapses>>
        /\ pc' = [pc EXCEPT ![w] = r]
    BY <1>8 DEF W!Effect, W!Goto, W!row, WorkTypes
  <2>2. Free(t)' = Free(t) /\ Free(t) \in Nat /\ Budget(t)
    BY <2>1 DEF Free, InBudget
  <2>3. CASE t = task[w]
    <3>1. Running(t)' = Running(t) \ {w} /\ w \in Running(t)
      BY <2>1, <2>3 DEF Running, WorkTypes
    <3>2. /\ Cardinality(Running(t)) \in Nat
          /\ Cardinality(Running(t)') = Cardinality(Running(t)) - 1
      <4>1. Running(t) \in SUBSET Workers
        BY DEF Running
      <4> QED  BY <3>1, <4>1, RunningCount
    <3>3. effects'[t] \in {effects[t], effects[t] + 1}
      BY <1>8, <2>1, <2>3 DEF W!Effect, WorkTypes
    <3> QED  BY <2>1, <2>2, <3>2, <3>3 DEF Budget, WorkTypes
  <2>4. CASE t # task[w]
    <3>1. Running(t)' \subseteq Running(t) /\ effects'[t] = effects[t] /\ Free(t)' <= Free(t)
      BY <1>8, <2>1, <2>2, <2>4 DEF W!Effect, Running, WorkTypes
    <3> QED  BY <2>1, <2>2, <3>1, BudgetKept
  <2> QED  BY <2>3, <2>4
<1>9. ASSUME NEW w \in Workers, pc[w] = "done", NEW r \in {"ack", "dead"},
             pc' = [pc EXCEPT ![w] = r], UNCHANGED <<task, lapses, effects, lease>>,
             state' = state \/ state' = [state EXCEPT ![task[w]] = "completed"]
      PROVE  InBudget'
  <2> SUFFICES ASSUME NEW t \in Tasks PROVE Budget(t)'
    BY DEF InBudget
  <2>1. Running(t)' \subseteq Running(t) /\ Free(t)' <= Free(t)
    BY <1>9 DEF Running, Free, WorkTypes
  <2> QED  BY <1>9, <2>1, BudgetKept DEF InBudget
<1>10. ASSUME NEW w \in Workers, W!MarkCompleted(w) PROVE InBudget'
  BY <1>9, <1>10 DEF W!MarkCompleted, W!Completed, W!Goto, W!row, W!ghosts
<1>11. ASSUME NEW w \in Workers, NEW b \in BOOLEAN, NEW r \in {"ack", "dead"},
              W!MarkFails(w, b, r)
       PROVE  InBudget'
  <2>1. UNCHANGED lease /\ (state' = state \/ state' = [state EXCEPT ![task[w]] = "completed"])
    BY <1>11 DEF W!MarkFails, W!Completed, W!row
  <2> QED  BY <1>9, <1>11, <2>1 DEF W!MarkFails, W!Goto
<1>12. ASSUME NEW w \in Workers, W!ClaimFails(w) PROVE InBudget'
  BY <1>12, BudgetsKept DEF W!ClaimFails, W!Goto, W!row, W!ghosts, WorkTypes
<1>13. ASSUME NEW w \in Workers, W!Nak(w) PROVE InBudget'
  BY <1>13, BudgetsKept DEF W!Nak, W!Finish, W!row, W!ghosts, WorkTypes
<1>14. ASSUME NEW w \in Workers, W!DeadLetter(w) PROVE InBudget'
  BY <1>14, BudgetsKept DEF W!DeadLetter, W!Goto, W!Finish, W!row, W!ghosts, WorkTypes
<1>15. ASSUME NEW w \in Workers, W!RenewLease(w) PROVE InBudget'
  <2> SUFFICES ASSUME NEW t \in Tasks PROVE Budget(t)'
    BY DEF InBudget
  <2>1. /\ Running(t)' \subseteq Running(t) /\ Free(t)' <= Free(t)
        /\ effects' = effects /\ lapses' = lapses
    BY <1>15 DEF W!RenewLease, W!worker, W!ghosts, W!Owned, Running, Free, WorkTypes
  <2> QED  BY <2>1, BudgetKept DEF InBudget
<1>16. ASSUME NEW w \in Workers, W!Crash(w) PROVE InBudget'
  BY <1>16, BudgetsKept DEF W!Crash, W!Finish, W!ghosts, WorkTypes
<1> QED
  BY <1>1, <1>2, <1>3, <1>4, <1>5, <1>6, <1>7, <1>8, <1>10, <1>11, <1>12, <1>13, <1>14,
     <1>15, <1>16, WorkerSees
     DEF W!Next, W!WorkerStep

-----------------------------------------------------------------------------
WorkersInv == WorkTypes /\ Vouched /\ AlwaysSole /\ InBudget

LEMMA WorkersInit == Init => WorkersInv
<1> SUFFICES ASSUME Init PROVE WorkersInv
  OBVIOUS
<1> USE DEF Init, W!Init
<1>1. WorkTypes
  BY DEF WorkTypes, W!Places
<1>2. Vouched /\ AlwaysSole
  BY DEF Vouched, AlwaysSole, Sole, Runs, W!Executing
<1>3. ASSUME NEW t \in Tasks PROVE Budget(t)
  <2>1. Running(t) = {}
    BY DEF Running
  <2>2. Cardinality(Running(t)) = 0
    BY <2>1, FS_EmptySet
  <2> QED  BY <2>2 DEF Budget, Free
<1> QED  BY <1>1, <1>2, <1>3 DEF WorkersInv, InBudget

(* What the workers' rows, places and ghosts have to do with each other. *)
THEOREM WorkersInvHolds == Spec => []WorkersInv
<1>1. WorkersInv /\ [Next]_vars => WorkersInv'
  BY WorkTypesStep, VouchedStep, SoleStep, BudgetStep DEF WorkersInv
<1> QED  BY <1>1, WorkersInit, PTL DEF Spec

(* No task leaves the queue without its effect or a durable dead letter, through
   any crashes, lost acknowledgements and redeliveries: dispatch_message(). *)
THEOREM AckedIsAccountedHolds == Spec => []AckedIsAccounted
<1>1. WorkersInv => AckedIsAccounted
  BY DEF WorkersInv, Vouched, Accounted, Happened, AckedIsAccounted, W!AckedIsAccounted
<1> QED  BY <1>1, WorkersInvHolds, PTL

(* The side effect repeats at most once for each time the lease ran out:
   IdempotencyGuard. *)
THEOREM RepeatsNeedALapseHolds == Spec => []RepeatsNeedALapse
<1>1. ASSUME WorkersInv, NEW t \in Tasks PROVE effects[t] <= 1 + lapses[t]
  <2>1. Cardinality(Running(t)) \in Nat
    BY RunningCount DEF Running
  <2> QED  BY <1>1, <2>1 DEF WorkersInv, InBudget, Budget, Free, WorkTypes
<1>2. WorkersInv => RepeatsNeedALapse
  BY <1>1 DEF RepeatsNeedALapse, W!RepeatsNeedALapse
<1> QED  BY <1>2, WorkersInvHolds, PTL

(* Without a lapse a task has one executor, and none once it is completed:
   try_claim() and mark_completed(). *)
THEOREM SoleExecutorHolds == Spec => []SoleExecutor
<1>1. WorkersInv => SoleExecutor
  BY DEF WorkersInv, AlwaysSole, Sole, Runs, SoleExecutor, W!SoleExecutor
<1> QED  BY <1>1, WorkersInvHolds, PTL
=============================================================================
