-------------------------- MODULE CorrectiveAction --------------------------
(***************************************************************************)
(* The corrective-action workflow of sensei-workflow for one workflow id:  *)
(* the checkpoint history, the approvals and the evidence, and callers     *)
(* that run start, observe, propose, decide, verify, close and the         *)
(* compare-and-swap resume concurrently.                                   *)
(*                                                                         *)
(* Transactions are READ COMMITTED and take no lock before they write, so  *)
(* what a guard read may be stale when its step is appended.  Each guard   *)
(* is a step; a transaction's writes and its commit are one step, because  *)
(* its instance UPSERT makes other writers wait and readers see nothing    *)
(* until the commit.  decide_approval locks the approvals it updates       *)
(* before it appends, which is a step of its own.                          *)
(*                                                                         *)
(* A checkpoint's number is its index in history: it is the                *)
(* current_version that the UPSERT or the CAS increments.                  *)
(***************************************************************************)
EXTENDS Naturals, Sequences

CONSTANTS
    Actors,          \* concurrent callers
    Approvers,       \* those whose roles include COUNTERMEASURE_APPROVER_ROLE
    Nobody,
    MaxCheckpoints   \* bound on the length of the history

ASSUME WorkflowAssumption ==
    /\ Approvers \subseteq Actors /\ Nobody \notin Actors
    /\ MaxCheckpoints \in Nat

VARIABLES
    history,    \* workflow_checkpoints in order; saw: the checkpoint the caller had read
    approvals,  \* workflow_approvals in order of insertion
    evidence,   \* kinds that have a row in workflow_evidence
    pc,         \* where each caller is
    seen,       \* number of the checkpoint its guard read, 0 if none
    covers      \* approvals it has updated and not committed

vars == <<history, approvals, evidence, pc, seen, covers>>

Decisions == {"countermeasure_approved", "compensated"}
Steps == {"contain", "investigate", "countermeasure_proposed", "verify", "closed"}
             \union Decisions

\* The step a guarded operation requires while it is at each place.
Required ==
    [proposing |-> "investigate", verifying |-> "countermeasure_approved",
     closing |-> "verify", closeable |-> "verify"]
Guarded == DOMAIN Required
Places == {"idle", "requesting", "stamping", "deciding", "decided", "resuming"}
              \union Guarded

\* A new approval row.
Requested(s) == [step |-> s, status |-> "pending", by |-> Nobody, checkpoint |-> 0]

\* The rows the decision's UPDATE matches.  The mutant forgets the status.
PendingOrNot == DOMAIN approvals
Pending == {i \in DOMAIN approvals : approvals[i].status = "pending"}

TypeOK ==
    /\ history \in Seq([step : Steps, saw : 0..MaxCheckpoints])
    /\ Len(history) <= MaxCheckpoints
    /\ approvals \in Seq([step : Steps, status : {"pending", "approved", "rejected"},
                          by : Actors \union {Nobody}, checkpoint : 0..MaxCheckpoints])
    /\ evidence \in SUBSET {"observation", "verification"}
    /\ pc \in [Actors -> Places]
    /\ seen \in [Actors -> 0..MaxCheckpoints]
    /\ \A a \in Actors : seen[a] # 0 <=> pc[a] \in Guarded \union {"stamping", "resuming"}
    /\ covers \in [Actors -> SUBSET DOMAIN approvals]

Init ==
    /\ history = <<>> /\ approvals = <<>> /\ evidence = {}
    /\ pc = [a \in Actors |-> "idle"]
    /\ seen = [a \in Actors |-> 0]
    /\ covers = [a \in Actors |-> {}]

-----------------------------------------------------------------------------
StepIs(s) == history # <<>> /\ history[Len(history)].step = s

\* append_transition(): the next version, and the checkpoint that bears it.
Extend(step, saw) ==
    /\ Len(history) < MaxCheckpoints
    /\ history' = Append(history, [step |-> step, saw |-> saw])

Goto(a, place, version) ==
    /\ pc' = [pc EXCEPT ![a] = place]
    /\ seen' = [seen EXCEPT ![a] = version]

\* A caller reads a step of the workflow and keeps its checkpoint's number.
Read(a, place) ==
    /\ history # <<>>
    /\ Goto(a, place, Len(history))
    /\ UNCHANGED <<history, approvals, evidence, covers>>

\* Mutant: the guard trusts whatever step it finds.
RequireAnyStep(a, place) == pc[a] = "idle" /\ Read(a, place)

\* require_step(): the latest committed checkpoint must be the expected one.
RequireStep(a, place) ==
    /\ pc[a] = "idle"
    /\ StepIs(Required[place])
    /\ Read(a, place)

\* start_investigation(): unguarded, also for a workflow that exists.
StartInvestigation(a) ==
    /\ pc[a] = "idle"
    /\ Len(history) + 2 <= MaxCheckpoints
    /\ history' = history \o <<[step |-> "contain", saw |-> 0],
                               [step |-> "investigate", saw |-> 0]>>
    /\ UNCHANGED <<approvals, evidence, pc, seen, covers>>

RecordObservation(a) ==
    /\ pc[a] = "idle"
    /\ evidence' = evidence \union {"observation"}
    /\ UNCHANGED <<history, approvals, pc, seen, covers>>

-----------------------------------------------------------------------------
(* propose_countermeasure(): one transaction moves the workflow, a second *)
(* one reads the step again and inserts the approval.                     *)

ProposeGuard(a) == RequireStep(a, "proposing")

ProposeCommit(a) ==
    /\ pc[a] = "proposing"
    /\ Extend("countermeasure_proposed", seen[a])
    /\ Goto(a, "requesting", 0)
    /\ UNCHANGED <<approvals, evidence, covers>>

RequestRead(a) == pc[a] = "requesting" /\ Read(a, "stamping")

\* The approval bears the step that was current when it was read.
RequestCommit(a) ==
    /\ pc[a] = "stamping"
    /\ approvals' = Append(approvals, Requested(history[seen[a]].step))
    /\ Goto(a, "idle", 0)
    /\ UNCHANGED <<history, evidence, covers>>

-----------------------------------------------------------------------------
(* decide_approval() *)

DecideRole(a) ==
    /\ pc[a] = "idle"
    /\ a \in Approvers /\ Pending # {}
    /\ Goto(a, "deciding", 0)
    /\ UNCHANGED <<history, approvals, evidence, covers>>

\* Mutant: rows_affected() is not looked at.
DecideUpdateUnchecked(a) ==
    /\ pc[a] = "deciding"
    /\ \A b \in Actors : covers[b] \intersect Pending = {}
    /\ covers' = [covers EXCEPT ![a] = Pending]
    /\ Goto(a, "decided", 0)
    /\ UNCHANGED <<history, approvals, evidence>>

\* The UPDATE waits for the rows another decider holds, then takes what is
\* still pending; without a row the call fails (see Abandon).
DecideUpdate(a) ==
    /\ pc[a] = "deciding"
    /\ Pending # {}
    /\ \A b \in Actors : covers[b] \intersect Pending = {}
    /\ covers' = [covers EXCEPT ![a] = Pending]
    /\ Goto(a, "decided", 0)
    /\ UNCHANGED <<history, approvals, evidence>>

\* The decision is appended whatever the workflow's step is by now.
DecideCommit(a, approved) ==
    /\ pc[a] = "decided"
    /\ Extend(IF approved THEN "countermeasure_approved" ELSE "compensated", 0)
    /\ approvals' = [i \in DOMAIN approvals |->
           IF i \in covers[a]
           THEN [step |-> approvals[i].step,
                 status |-> IF approved THEN "approved" ELSE "rejected",
                 by |-> a, checkpoint |-> Len(history) + 1]
           ELSE approvals[i]]
    /\ covers' = [covers EXCEPT ![a] = {}]
    /\ Goto(a, "idle", 0)
    /\ UNCHANGED evidence

-----------------------------------------------------------------------------
VerifyGuard(a) == RequireStep(a, "verifying")

VerifyCommit(a) ==
    /\ pc[a] = "verifying"
    /\ Extend("verify", seen[a])
    /\ evidence' = evidence \union {"verification"}
    /\ Goto(a, "idle", 0)
    /\ UNCHANGED <<approvals, covers>>

HasApproval ==
    \E i \in DOMAIN approvals :
        approvals[i].step = "countermeasure_proposed" /\ approvals[i].status = "approved"

CloseGuard(a) == RequireStep(a, "closing")

\* Guards 2 and 3.  Approvals and evidence are never taken back, so the two
\* reads are one step.
CloseEvidence(a) ==
    /\ pc[a] = "closing"
    /\ HasApproval /\ "verification" \in evidence
    /\ Goto(a, "closeable", seen[a])
    /\ UNCHANGED <<history, approvals, evidence, covers>>

CloseCommit(a) ==
    /\ pc[a] = "closeable"
    /\ Extend("closed", seen[a])
    /\ Goto(a, "idle", 0)
    /\ UNCHANGED <<approvals, evidence, covers>>

-----------------------------------------------------------------------------
(* A caller resumes from latest_checkpoint(): it records a new checkpoint  *)
(* for the step it read, provided the version has not moved on.            *)

ResumeRead(a) == pc[a] = "idle" /\ Read(a, "resuming")

\* The CAS.  The mutant accepts any later version.
AtVersionOrLater(v) == Len(history) >= v
AtVersion(v) == Len(history) = v

\* record_transition_expected()
ResumeCommit(a) ==
    /\ pc[a] = "resuming"
    /\ AtVersion(seen[a])
    /\ Extend(history[seen[a]].step, seen[a])
    /\ Goto(a, "idle", 0)
    /\ UNCHANGED <<approvals, evidence, covers>>

\* A guard that refuses, a failed statement, a lost connection or a crash:
\* the open transaction is rolled back and its locks are released.
Abandon(a) ==
    /\ pc[a] # "idle"
    /\ covers' = [covers EXCEPT ![a] = {}]
    /\ Goto(a, "idle", 0)
    /\ UNCHANGED <<history, approvals, evidence>>

Call(a) ==
    \/ StartInvestigation(a) \/ RecordObservation(a)
    \/ ProposeGuard(a) \/ ProposeCommit(a) \/ RequestRead(a) \/ RequestCommit(a)
    \/ DecideRole(a) \/ DecideUpdate(a)
    \/ \E approved \in BOOLEAN : DecideCommit(a, approved)
    \/ VerifyGuard(a) \/ VerifyCommit(a)
    \/ CloseGuard(a) \/ CloseEvidence(a) \/ CloseCommit(a)
    \/ ResumeRead(a) \/ ResumeCommit(a)
    \/ Abandon(a)

Next == \E a \in Actors : Call(a)

Spec == Init /\ [][Next]_vars

-----------------------------------------------------------------------------
(* Properties.  A round is not a state of the code: a workflow restarted   *)
(* by start_investigation() keeps its history, approvals and evidence.     *)

\* Every checkpoint of step s has an earlier one of step r.
Preceded(s, r) ==
    \A i \in DOMAIN history :
        history[i].step = s => \E j \in 1..(i - 1) : history[j].step = r

\* Somebody with the required role approved a proposed countermeasure.
ApprovedByRole ==
    \E n \in DOMAIN approvals :
        /\ approvals[n].step = "countermeasure_proposed"
        /\ approvals[n].status = "approved" /\ approvals[n].by \in Approvers

\* Whatever callers do at the same time, a workflow that was closed had been
\* proposed, approved by an approver and verified with evidence, in this
\* order (close_investigation() and the guards before it).
ClosedIsJustified ==
    /\ Preceded("closed", "verify")
    /\ Preceded("verify", "countermeasure_approved")
    /\ Preceded("countermeasure_approved", "countermeasure_proposed")
    /\ \A i \in DOMAIN history :
           /\ history[i].step \in {"verify", "closed"} => "verification" \in evidence
           /\ history[i].step = "closed" => ApprovedByRole

\* A decision in the history decided at least one approval, and each decided
\* approval has its decision in the history: of two concurrent deciders of
\* one approval, one fails (decide_approval(), its UPDATE and row count).
DecisionsAreRecorded ==
    /\ \A i \in DOMAIN history :
           history[i].step \in Decisions /\ history[i].saw = 0 =>
               \E n \in DOMAIN approvals : approvals[n].checkpoint = i
    /\ \A n \in DOMAIN approvals :
           LET d == approvals[n].checkpoint IN
           approvals[n].status # "pending" =>
               /\ d \in DOMAIN history
               /\ history[d].step =
                      IF approvals[n].status = "approved"
                      THEN "countermeasure_approved" ELSE "compensated"

\* No later call changes or removes a decision (decide_approval() matches
\* pending rows only).
DecisionIsFinal ==
    [][\A n \in DOMAIN approvals :
           approvals[n].status # "pending" =>
               n \in DOMAIN approvals' /\ approvals'[n] = approvals[n]]_approvals

\* A resume extends the very checkpoint it read: no other caller's step is
\* between them (record_transition_expected()).
ResumeExtendsWhatItRead ==
    \A i \in DOMAIN history :
        LET saw == history[i].saw IN
        saw # 0 /\ history[i].step = history[saw].step => saw = i - 1

\* What the source says of closing (corrective_action.rs:283-285): all checks
\* share the transaction that records the checkpoint, so "the guard cannot
\* race the write".  The guards lock nothing, and TLC refutes it: two closes can
\* pass them and then append one after the other.
CloseGuardHoldsAtWrite ==
    [][history' # history =>
           LET new == history'[Len(history')] IN
           new.step = "closed" /\ history[new.saw].step = "verify" => StepIs("verify")]_history

-----------------------------------------------------------------------------
(* The inductive invariant. *)

\* What a caller read is a checkpoint that bears the step it requires.
GuardsRead ==
    \A a \in Actors :
        /\ seen[a] <= Len(history)
        /\ pc[a] \in Guarded => /\ seen[a] # 0
                                /\ history[seen[a]].step = Required[pc[a]]
        /\ pc[a] = "resuming" => seen[a] # 0
        /\ pc[a] = "stamping" => seen[a] # 0

\* Approvals are requested after the workflow was moved to
\* countermeasure_proposed, and closing goes on only after an approval.
Requests ==
    /\ approvals # <<>> \/ (\E a \in Actors : pc[a] \in {"requesting", "stamping"}) =>
           \E i \in DOMAIN history : history[i].step = "countermeasure_proposed"
    /\ \A a \in Actors : pc[a] = "closeable" => HasApproval

\* Deciders hold disjoint sets of pending approvals.
Deciders ==
    \A a \in Actors :
        /\ pc[a] = "decided" <=> covers[a] # {}
        /\ covers[a] \subseteq Pending
        /\ pc[a] \in {"deciding", "decided"} => a \in Approvers
        /\ \A b \in Actors : a # b => covers[a] \intersect covers[b] = {}

DecidedByApprovers ==
    \A n \in DOMAIN approvals :
        /\ approvals[n].status = "pending" <=> approvals[n].by = Nobody
        /\ approvals[n].status = "pending" => approvals[n].checkpoint = 0
        /\ approvals[n].by \in Approvers \union {Nobody}

SawEarlier == \A i \in DOMAIN history : history[i].saw < i

\* What the tables say, and what the callers know.
Records ==
    /\ ClosedIsJustified /\ DecisionsAreRecorded /\ ResumeExtendsWhatItRead
    /\ DecidedByApprovers /\ SawEarlier
Callers == GuardsRead /\ Requests /\ Deciders
WorkflowInv == Records /\ Callers
=============================================================================
