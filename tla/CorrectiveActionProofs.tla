----------------------- MODULE CorrectiveActionProofs -----------------------
(* Type correctness, the inductive invariant and what follows from it, for *)
(* any callers, approvers and length of the history.                       *)
EXTENDS CorrectiveAction, TLAPS, SequenceTheorems

Checkpoint == [step : Steps, saw : 0..MaxCheckpoints]
Approval == [step : Steps, status : {"pending", "approved", "rejected"},
             by : Actors \union {Nobody}, checkpoint : 0..MaxCheckpoints]

LEMMA GotoType ==
    ASSUME TypeOK, NEW a \in Actors, NEW p \in Places, NEW v \in 0..MaxCheckpoints,
           v # 0 <=> p \in Guarded \union {"stamping", "resuming"},
           Goto(a, p, v)
    PROVE  /\ pc' \in [Actors -> Places]
           /\ seen' \in [Actors -> 0..MaxCheckpoints]
           /\ \A b \in Actors :
                  seen'[b] # 0 <=> pc'[b] \in Guarded \union {"stamping", "resuming"}
BY DEF TypeOK, Goto

LEMMA ExtendType ==
    ASSUME TypeOK, NEW s \in Steps, NEW v \in 0..MaxCheckpoints, Extend(s, v)
    PROVE  /\ history' \in Seq(Checkpoint)
           /\ Len(history') <= MaxCheckpoints
           /\ Len(history') = Len(history) + 1
           /\ \A i \in 1..Len(history) : history'[i] = history[i]
           /\ history'[Len(history) + 1] = [step |-> s, saw |-> v]
<1>1. history \in Seq(Checkpoint) BY DEF TypeOK, Checkpoint
<1>2. [step |-> s, saw |-> v] \in Checkpoint BY DEF Checkpoint
<1>3. history' = Append(history, [step |-> s, saw |-> v]) /\ Len(history) < MaxCheckpoints
  BY DEF Extend
<1> QED BY <1>1, <1>2, <1>3, AppendProperties, WorkflowAssumption, LenProperties

LEMMA StartType ==
    ASSUME TypeOK, NEW a \in Actors, StartInvestigation(a)
    PROVE  /\ history' \in Seq(Checkpoint)
           /\ Len(history') <= MaxCheckpoints
           /\ Len(history') = Len(history) + 2
           /\ \A i \in 1..Len(history) : history'[i] = history[i]
           /\ history'[Len(history) + 1] = [step |-> "contain", saw |-> 0]
           /\ history'[Len(history) + 2] = [step |-> "investigate", saw |-> 0]
<1> DEFINE two == <<[step |-> "contain", saw |-> 0], [step |-> "investigate", saw |-> 0]>>
<1>1. history \in Seq(Checkpoint) /\ Len(history) \in Nat BY LenProperties DEF TypeOK, Checkpoint
<1>2. two \in Seq(Checkpoint) /\ Len(two) = 2
      /\ two[1] = [step |-> "contain", saw |-> 0]
      /\ two[2] = [step |-> "investigate", saw |-> 0]
  <2>1. [step |-> "contain", saw |-> 0] \in Checkpoint
        /\ [step |-> "investigate", saw |-> 0] \in Checkpoint
    BY WorkflowAssumption DEF Checkpoint, Steps
  <2> QED BY <2>1
<1>3. history' = history \o two /\ Len(history) + 2 <= MaxCheckpoints
  BY DEF StartInvestigation
<1> HIDE DEF two
<1>4. history \o two \in Seq(Checkpoint)
      /\ Len(history \o two) = Len(history) + Len(two)
      /\ \A i \in 1..(Len(history) + Len(two)) :
             (history \o two)[i] =
                 IF i <= Len(history) THEN history[i] ELSE two[i - Len(history)]
  <2>1. history \in Seq(Checkpoint) /\ two \in Seq(Checkpoint)  BY <1>1, <1>2
  <2> HIDE <1>1, <1>2
  <2> QED  BY <2>1, ConcatProperties
<1>5. Len(history) + 1 \in 1..(Len(history) + Len(two))
      /\ Len(history) + 2 \in 1..(Len(history) + Len(two))
      /\ (Len(history) + 1) - Len(history) = 1 /\ (Len(history) + 2) - Len(history) = 2
      /\ ~(Len(history) + 1 <= Len(history)) /\ ~(Len(history) + 2 <= Len(history))
  BY <1>1, <1>2
<1> QED BY <1>1, <1>2, <1>3, <1>4, <1>5

LEMMA RequestType ==
    ASSUME TypeOK, NEW s \in Steps, approvals' = Append(approvals, Requested(s))
    PROVE  /\ approvals' \in Seq(Approval)
           /\ Len(approvals') = Len(approvals) + 1
           /\ DOMAIN approvals = 1..Len(approvals) /\ Len(approvals) \in Nat
           /\ DOMAIN approvals' = 1..(Len(approvals) + 1)
           /\ \A i \in DOMAIN approvals : approvals'[i] = approvals[i]
           /\ approvals'[Len(approvals) + 1] = Requested(s)
<1>1. approvals \in Seq(Approval) BY DEF TypeOK, Approval
<1>2. Requested(s) \in Approval BY WorkflowAssumption DEF Requested, Approval
<1> HIDE DEF Requested
<1> QED BY <1>1, <1>2, AppendProperties, LenProperties

LEMMA DecideType ==
    ASSUME TypeOK, NEW a \in Actors, NEW approved \in BOOLEAN, DecideCommit(a, approved)
    PROVE  /\ approvals' \in Seq(Approval)
           /\ DOMAIN approvals' = DOMAIN approvals
           /\ \A i \in DOMAIN approvals :
                 /\ i \in covers[a] =>
                      /\ approvals'[i].status = (IF approved THEN "approved" ELSE "rejected")
                      /\ approvals'[i].by = a
                      /\ approvals'[i].checkpoint = Len(history) + 1
                 /\ i \notin covers[a] => approvals'[i] = approvals[i]
<1> DEFINE outcome(i) == [step |-> approvals[i].step,
                          status |-> IF approved THEN "approved" ELSE "rejected",
                          by |-> a, checkpoint |-> Len(history) + 1]
<1>1. approvals \in Seq(Approval) BY DEF TypeOK, Approval
<1>2. DOMAIN approvals = 1..Len(approvals) /\ Len(approvals) \in Nat
      /\ \A i \in DOMAIN approvals : approvals[i] \in Approval
  BY <1>1, LenProperties, ElementOfSeq
<1>3. \A i \in DOMAIN approvals : outcome(i) \in Approval
  <2>1. Len(history) + 1 \in 0..MaxCheckpoints
    BY WorkflowAssumption, LenProperties DEF TypeOK, DecideCommit, Extend
  <2> QED BY <1>2, <2>1 DEF Approval
<1>4. approvals' = [i \in DOMAIN approvals |->
                       IF i \in covers[a] THEN outcome(i) ELSE approvals[i]]
  BY DEF DecideCommit
<1>5. \A i \in DOMAIN approvals : i \in covers[a] =>
          /\ outcome(i).status = (IF approved THEN "approved" ELSE "rejected")
          /\ outcome(i).by = a
          /\ outcome(i).checkpoint = Len(history) + 1
  OBVIOUS
<1> HIDE DEF outcome
<1>6. approvals' \in [1..Len(approvals) -> Approval]  BY <1>2, <1>3, <1>4
<1>7. approvals' \in Seq(Approval)  BY <1>2, <1>6
<1> QED BY <1>2, <1>4, <1>5, <1>7

(* What a caller read is a step of the history. *)
LEMMA SeenStep ==
    ASSUME TypeOK, NEW v \in 1..Len(history)
    PROVE  history[v].step \in Steps
<1>1. history \in Seq(Checkpoint) BY DEF TypeOK, Checkpoint
<1>2. history[v] \in Checkpoint
  <2> HIDE DEF Checkpoint
  <2> QED BY <1>1, ElementOfSeq
<1> QED BY <1>2 DEF Checkpoint

LEMMA Lengths ==
    ASSUME TypeOK
    PROVE  /\ Len(history) \in 0..MaxCheckpoints /\ Len(history) \in Nat
           /\ DOMAIN history = 1..Len(history)
           /\ Len(approvals) \in Nat /\ DOMAIN approvals = 1..Len(approvals)
           /\ history # <<>> => Len(history) # 0
           /\ approvals # <<>> <=> Len(approvals) # 0
<1>1. history \in Seq(Checkpoint) /\ approvals \in Seq(Approval)
      /\ Len(history) <= MaxCheckpoints
  BY DEF TypeOK, Checkpoint, Approval
<1> QED BY <1>1, LenProperties, EmptySeq, WorkflowAssumption

-----------------------------------------------------------------------------
LEMMA InitInv == Init => TypeOK /\ WorkflowInv
<1> SUFFICES ASSUME Init PROVE TypeOK /\ WorkflowInv OBVIOUS
<1>1. history = <<>> /\ approvals = <<>> /\ evidence = {}
      /\ history \in Seq(Checkpoint) /\ approvals \in Seq(Approval)
      /\ DOMAIN history = {} /\ DOMAIN approvals = {} /\ Len(history) = 0
  BY DEF Init
<1>2. TypeOK
  BY <1>1, WorkflowAssumption DEF Init, TypeOK, Checkpoint, Approval, Places, Guarded, Required
<1>3. ClosedIsJustified /\ DecisionsAreRecorded /\ ResumeExtendsWhatItRead
      /\ DecidedByApprovers /\ SawEarlier
  BY <1>1 DEF ClosedIsJustified, Preceded, DecisionsAreRecorded,
              ResumeExtendsWhatItRead, DecidedByApprovers, SawEarlier
<1>4. GuardsRead /\ Requests /\ Deciders
  BY <1>1 DEF Init, GuardsRead, Requests, Deciders, Guarded, Required
<1> QED BY <1>2, <1>3, <1>4 DEF WorkflowInv, Records, Callers

LEMMA TypeAfter ==
    ASSUME TypeOK, NEW a \in Actors, NEW p \in Places, NEW v \in 0..MaxCheckpoints,
           v # 0 <=> p \in Guarded \union {"stamping", "resuming"}, Goto(a, p, v),
           history' \in Seq(Checkpoint), Len(history') <= MaxCheckpoints,
           approvals' \in Seq(Approval),
           evidence' \in SUBSET {"observation", "verification"},
           covers' \in [Actors -> SUBSET DOMAIN approvals']
    PROVE  TypeOK'
BY GotoType DEF TypeOK, Checkpoint, Approval

LEMMA TypeStep == TypeOK /\ GuardsRead /\ [Next]_vars => TypeOK'
<1> SUFFICES ASSUME TypeOK, GuardsRead, [Next]_vars PROVE TypeOK' OBVIOUS
<1>0. CASE UNCHANGED vars  BY <1>0 DEF vars, TypeOK
<1> SUFFICES ASSUME NEW a \in Actors, Call(a) PROVE TypeOK'  BY <1>0 DEF Next
<1>1. /\ history \in Seq(Checkpoint) /\ Len(history) <= MaxCheckpoints
      /\ approvals \in Seq(Approval)
      /\ evidence \in SUBSET {"observation", "verification"}
      /\ pc \in [Actors -> Places] /\ seen \in [Actors -> 0..MaxCheckpoints]
      /\ covers \in [Actors -> SUBSET DOMAIN approvals]
      /\ 0 \in 0..MaxCheckpoints
      /\ Len(history) \in 0..MaxCheckpoints
      /\ history # <<>> => Len(history) # 0
  BY Lengths, WorkflowAssumption DEF TypeOK, Checkpoint, Approval
<1>2. {"idle", "requesting", "deciding", "decided", "stamping", "resuming"} \union Guarded
          \subseteq Places
      /\ \A p \in {"idle", "requesting", "deciding", "decided"} :
             p \notin Guarded \union {"stamping", "resuming"}
      /\ Guarded = {"proposing", "verifying", "closing", "closeable"}
  BY DEF Places, Guarded, Required
<1>3. ASSUME pc[a] \in Guarded \union {"stamping", "resuming"}
      PROVE  seen[a] \in 1..Len(history) /\ seen[a] \in 0..MaxCheckpoints /\ seen[a] # 0
  BY <1>1, <1>3, WorkflowAssumption DEF GuardsRead, TypeOK
<1>4. ASSUME NEW p \in Guarded \union {"stamping", "resuming"}, Read(a, p) PROVE TypeOK'
  BY <1>1, <1>2, <1>4, TypeAfter DEF Read
<1>5. CASE StartInvestigation(a)
  BY <1>5, StartType DEF TypeOK, StartInvestigation, Checkpoint
<1>6. CASE RecordObservation(a)  BY <1>6 DEF TypeOK, RecordObservation
<1>7. CASE ProposeGuard(a) \/ RequestRead(a) \/ VerifyGuard(a) \/ CloseGuard(a) \/ ResumeRead(a)
  BY <1>2, <1>4, <1>7
     DEF ProposeGuard, RequestRead, VerifyGuard, CloseGuard, ResumeRead, RequireStep
<1>8. CASE ProposeCommit(a) \/ VerifyCommit(a) \/ CloseCommit(a) \/ ResumeCommit(a)
  <2>1. PICK s \in Steps : Extend(s, seen[a])
    <3>1. CASE ResumeCommit(a)
      <4>1. seen[a] \in 1..Len(history)  BY <1>3, <3>1 DEF ResumeCommit
      <4> QED  BY <3>1, <4>1, SeenStep DEF ResumeCommit
    <3>2. CASE ProposeCommit(a) \/ VerifyCommit(a) \/ CloseCommit(a)
      BY <3>2 DEF ProposeCommit, VerifyCommit, CloseCommit, Steps
    <3> QED  BY <1>8, <3>1, <3>2
  <2>2. history' \in Seq(Checkpoint) /\ Len(history') <= MaxCheckpoints
    <3>1. seen[a] \in 0..MaxCheckpoints  BY <1>1
    <3> QED  BY <2>1, <3>1, ExtendType
  <2>3. (Goto(a, "idle", 0) \/ Goto(a, "requesting", 0))
        /\ UNCHANGED <<approvals, covers>>
        /\ evidence' \in SUBSET {"observation", "verification"}
    BY <1>1, <1>8 DEF ProposeCommit, VerifyCommit, CloseCommit, ResumeCommit
  <2> QED  BY <1>1, <1>2, <2>2, <2>3, TypeAfter
<1>9. CASE RequestCommit(a)
  <2>1. history[seen[a]].step \in Steps  BY <1>3, <1>9, SeenStep DEF RequestCommit
  <2>2. approvals' \in Seq(Approval) /\ DOMAIN approvals \subseteq DOMAIN approvals'
    BY <1>9, <2>1, RequestType DEF RequestCommit
  <2> QED  BY <1>1, <1>2, <1>9, <2>2, TypeAfter DEF RequestCommit
<1>10. CASE DecideRole(a)  BY <1>1, <1>2, <1>10, TypeAfter DEF DecideRole
<1>11. CASE DecideUpdate(a)
  <2>1. covers' \in [Actors -> SUBSET DOMAIN approvals']
    BY <1>1, <1>11 DEF DecideUpdate, Pending
  <2> QED  BY <1>1, <1>2, <1>11, <2>1, TypeAfter DEF DecideUpdate
<1>12. ASSUME NEW approved \in BOOLEAN, DecideCommit(a, approved) PROVE TypeOK'
  <2>1. PICK s \in Steps : Extend(s, 0)
    BY <1>12 DEF Steps, Decisions, DecideCommit
  <2>2. history' \in Seq(Checkpoint) /\ Len(history') <= MaxCheckpoints
    BY <1>1, <2>1, ExtendType
  <2>3. approvals' \in Seq(Approval) /\ DOMAIN approvals' = DOMAIN approvals
    BY <1>12, DecideType
  <2>4. covers' \in [Actors -> SUBSET DOMAIN approvals']
    BY <1>1, <1>12, <2>3 DEF DecideCommit
  <2> QED  BY <1>1, <1>2, <1>12, <2>2, <2>3, <2>4, TypeAfter DEF DecideCommit
<1>13. CASE CloseEvidence(a)
  BY <1>1, <1>2, <1>3, <1>13, TypeAfter DEF CloseEvidence
<1>14. CASE Abandon(a)
  <2>1. covers' \in [Actors -> SUBSET DOMAIN approvals']  BY <1>1, <1>14 DEF Abandon
  <2> QED  BY <1>1, <1>2, <1>14, <2>1, TypeAfter DEF Abandon
<1> QED
  BY <1>5, <1>6, <1>7, <1>8, <1>9, <1>10, <1>11, <1>12, <1>13, <1>14 DEF Call
-----------------------------------------------------------------------------
(* What the history, the approvals and the evidence say of each other. *)

\* The history only grows.
Grows ==
    /\ Len(history) \in Nat /\ Len(history') \in Nat /\ Len(history) <= Len(history')
    /\ DOMAIN history = 1..Len(history) /\ DOMAIN history' = 1..Len(history')
    /\ \A i \in 1..Len(history) : history'[i] = history[i]

LEMMA PrecededKept ==
    ASSUME Grows, NEW s, NEW r, Preceded(s, r),
           \A i \in DOMAIN history' : i > Len(history) /\ history'[i].step = s =>
               \E j \in 1..(i - 1) : history'[j].step = r
    PROVE  Preceded(s, r)'
<1> SUFFICES ASSUME NEW i \in DOMAIN history', history'[i].step = s
             PROVE  \E j \in 1..(i - 1) : history'[j].step = r
  BY DEF Preceded
<1>1. CASE i > Len(history)  BY <1>1
<1>2. CASE ~(i > Len(history))
  <2>1. i \in 1..Len(history)  BY <1>2 DEF Grows
  <2>2. PICK j \in 1..(i - 1) : history[j].step = r  BY <2>1 DEF Preceded, Grows
  <2>3. j \in 1..Len(history)  BY <2>1, <2>2 DEF Grows
  <2> QED  BY <2>2, <2>3 DEF Grows
<1> QED  BY <1>1, <1>2

\* Rows are not touched; evidence may be added.
LEMMA SameRecords ==
    ASSUME Records, UNCHANGED <<history, approvals>>, evidence \subseteq evidence'
    PROVE  Records'
BY DEF Records, ClosedIsJustified, Preceded, ApprovedByRole, DecisionsAreRecorded,
       ResumeExtendsWhatItRead, DecidedByApprovers, SawEarlier

\* A step by somebody who had read checkpoint v.
LEMMA RecordsExtended ==
    ASSUME TypeOK, Records, NEW s \in Steps, NEW v \in 1..Len(history), Extend(s, v),
           UNCHANGED approvals, evidence \subseteq evidence',
           s = "closed" => ApprovedByRole /\ "verification" \in evidence
                           /\ \E j \in 1..Len(history) : history[j].step = "verify",
           s = "verify" => "verification" \in evidence'
                           /\ \E j \in 1..Len(history) :
                                  history[j].step = "countermeasure_approved",
           s = "countermeasure_approved" =>
               \E j \in 1..Len(history) : history[j].step = "countermeasure_proposed",
           history[v].step = s => v = Len(history)
    PROVE  Records'
<1>0. Len(history) \in Nat /\ Len(history) <= MaxCheckpoints /\ MaxCheckpoints \in Nat
  <2>1. Len(history) \in 0..MaxCheckpoints  BY Lengths
  <2> QED  BY <2>1, WorkflowAssumption
<1>1. v \in 0..MaxCheckpoints  BY <1>0
<1>2. Grows /\ Len(history') = Len(history) + 1
      /\ history'[Len(history) + 1] = [step |-> s, saw |-> v]
  <2>1. history' \in Seq(Checkpoint)  BY <1>1, ExtendType
  <2>2. DOMAIN history' = 1..Len(history')
    <3> HIDE DEF Checkpoint
    <3> QED  BY <2>1, LenProperties
  <2>3. DOMAIN history = 1..Len(history)  BY Lengths
  <2>4. Len(history') = Len(history) + 1
        /\ \A i \in 1..Len(history) : history'[i] = history[i]
    BY <1>1, ExtendType
  <2>5. history'[Len(history) + 1] = [step |-> s, saw |-> v]  BY <1>1, ExtendType
  <2>6. Len(history') \in Nat /\ Len(history) <= Len(history')  BY <1>0, <2>4
  <2>7. Grows  BY <1>0, <2>2, <2>3, <2>4, <2>6 DEF Grows
  <2> QED  BY <2>4, <2>5, <2>7
<1>3. \A i \in DOMAIN history' : i > Len(history) => i = Len(history) + 1
  BY <1>2 DEF Grows
<1>4. Len(history) \in Nat /\ 1..((Len(history) + 1) - 1) = 1..Len(history)
  <2>1. (Len(history) + 1) - 1 = Len(history)  BY <1>0
  <2> QED  BY <1>0, <2>1
<1>10. \A i \in DOMAIN history' :
            \/ i = Len(history) + 1
            \/ i \in DOMAIN history /\ history'[i] = history[i]
  <2> SUFFICES ASSUME NEW i \in DOMAIN history', i # Len(history) + 1
               PROVE  i \in DOMAIN history /\ history'[i] = history[i]
    OBVIOUS
  <2>1. i \in 1..Len(history') /\ i \in 1..Len(history)  BY <1>2, <1>4 DEF Grows
  <2> QED  BY <1>2, <2>1 DEF Grows
<1>5. ClosedIsJustified'
  <2>1. Preceded("closed", "verify")'
    BY <1>2, <1>3, <1>4, PrecededKept DEF Records, ClosedIsJustified, Grows
  <2>2. Preceded("verify", "countermeasure_approved")'
    BY <1>2, <1>3, <1>4, PrecededKept DEF Records, ClosedIsJustified, Grows
  <2>3. Preceded("countermeasure_approved", "countermeasure_proposed")'
    BY <1>2, <1>3, <1>4, PrecededKept DEF Records, ClosedIsJustified, Grows
  <2>4. ApprovedByRole => ApprovedByRole'  BY DEF ApprovedByRole
  <2>5. ASSUME NEW i \in DOMAIN history'
        PROVE  /\ history'[i].step \in {"verify", "closed"} => "verification" \in evidence'
               /\ history'[i].step = "closed" => ApprovedByRole'
    <3>1. CASE i = Len(history) + 1  BY <1>2, <2>4, <3>1
    <3>2. CASE i \in DOMAIN history /\ history'[i] = history[i]
      BY <2>4, <3>2 DEF Records, ClosedIsJustified
    <3> QED  BY <1>10, <3>1, <3>2
  <2> QED  BY <2>1, <2>2, <2>3, <2>5 DEF ClosedIsJustified
<1>6. DecisionsAreRecorded'
  BY <1>2, <1>3 DEF Grows, Records, DecisionsAreRecorded
<1>7. SawEarlier'
  BY <1>2, <1>3 DEF Grows, Records, SawEarlier
<1>8. ResumeExtendsWhatItRead'
  <2> SUFFICES ASSUME NEW i \in DOMAIN history', history'[i].saw # 0,
                      history'[i].step = history'[history'[i].saw].step
               PROVE  history'[i].saw = i - 1
    BY DEF ResumeExtendsWhatItRead
  <2>1. CASE i = Len(history) + 1
    <3>1. history'[i].saw = v /\ history'[i].step = s  BY <1>2, <2>1
    <3>2. history'[v] = history[v]  BY <1>2 DEF Grows
    <3> QED  BY <1>2, <2>1, <3>1, <3>2 DEF Grows
  <2>2. CASE i \in DOMAIN history /\ history'[i] = history[i]
    <3>1. history[i].saw \in 1..Len(history)
      <4>1. history \in Seq(Checkpoint)  BY DEF TypeOK, Checkpoint
      <4>2. history[i] \in Checkpoint
        <5> HIDE DEF Checkpoint
        <5> QED  BY <2>2, <4>1, ElementOfSeq, Lengths
      <4>3. history[i].saw \in 0..MaxCheckpoints /\ history[i].saw < i /\ i \in 1..Len(history)
        BY <2>2, <4>2, Lengths DEF Checkpoint, Records, SawEarlier
      <4>4. history[i].saw # 0  BY <2>2
      <4>5. Len(history) \in Nat /\ MaxCheckpoints \in Nat
        BY Lengths, WorkflowAssumption
      <4> HIDE <2>2
      <4> QED  BY <4>3, <4>4, <4>5
    <3>2. history'[history[i].saw] = history[history[i].saw]  BY <1>2, <3>1 DEF Grows
    <3> QED  BY <2>2, <3>2 DEF Records, ResumeExtendsWhatItRead
  <2> QED  BY <1>10, <2>1, <2>2
<1>11. DecidedByApprovers'  BY DEF Records, DecidedByApprovers
<1> QED  BY <1>5, <1>6, <1>7, <1>8, <1>11 DEF Records

\* An earlier checkpoint that a checkpoint names is one of the history.
LEMMA SawInHistory ==
    ASSUME TypeOK, SawEarlier, NEW i \in DOMAIN history, history[i].saw # 0
    PROVE  history[i].saw \in 1..Len(history)
<1>1. history \in Seq(Checkpoint)  BY DEF TypeOK, Checkpoint
<1>2. history[i] \in Checkpoint
  <2> HIDE DEF Checkpoint
  <2> QED  BY <1>1, ElementOfSeq, Lengths
<1>3. history[i].saw \in 0..MaxCheckpoints /\ history[i].saw < i
  BY <1>2 DEF Checkpoint, SawEarlier
<1>4. i \in 1..Len(history) /\ Len(history) \in Nat  BY Lengths
<1> QED  BY <1>3, <1>4, WorkflowAssumption

\* Checkpoints that require no step: a start and a decision.
LEMMA HistoryUnguarded ==
    ASSUME TypeOK, Records, Grows, UNCHANGED evidence,
           ApprovedByRole => ApprovedByRole',
           \A i \in DOMAIN history' : i > Len(history) =>
               /\ history'[i].saw = 0
               /\ history'[i].step \in {"contain", "investigate"} \union Decisions
               /\ history'[i].step = "countermeasure_approved" =>
                      \E j \in 1..Len(history) : history[j].step = "countermeasure_proposed"
    PROVE  ClosedIsJustified' /\ ResumeExtendsWhatItRead' /\ SawEarlier'
<1>1. \A i \in DOMAIN history' :
          \/ i > Len(history)
          \/ i \in DOMAIN history /\ history'[i] = history[i]
  BY DEF Grows
<1>2. \A i \in DOMAIN history' : i > Len(history) =>
          /\ history'[i].step # "closed" /\ history'[i].step # "verify"
          /\ i # 0
  BY DEF Grows, Decisions
<1>3. ClosedIsJustified'
  <2>1. Preceded("closed", "verify")'
    BY <1>2, PrecededKept DEF Records, ClosedIsJustified
  <2>2. Preceded("verify", "countermeasure_approved")'
    BY <1>2, PrecededKept DEF Records, ClosedIsJustified
  <2>3. Preceded("countermeasure_approved", "countermeasure_proposed")'
    <3>1. ASSUME NEW i \in DOMAIN history', i > Len(history),
                 history'[i].step = "countermeasure_approved"
          PROVE  \E j \in 1..(i - 1) : history'[j].step = "countermeasure_proposed"
      <4>1. PICK j \in 1..Len(history) : history[j].step = "countermeasure_proposed"
        BY <3>1
      <4>2. j \in 1..(i - 1)  BY <3>1 DEF Grows
      <4> QED  BY <4>1, <4>2 DEF Grows
    <3> QED  BY <3>1, PrecededKept DEF Records, ClosedIsJustified
  <2>4. ASSUME NEW i \in DOMAIN history'
        PROVE  /\ history'[i].step \in {"verify", "closed"} => "verification" \in evidence'
               /\ history'[i].step = "closed" => ApprovedByRole'
    BY <1>1, <1>2 DEF Records, ClosedIsJustified
  <2> QED  BY <2>1, <2>2, <2>3, <2>4 DEF ClosedIsJustified
<1>4. SawEarlier'
  <2>1. \A i \in DOMAIN history' : i > Len(history) => history'[i].saw = 0 /\ 0 < i
    BY DEF Grows
  <2> QED  BY <1>1, <2>1 DEF SawEarlier, Records
<1>5. ResumeExtendsWhatItRead'
  <2> SUFFICES ASSUME NEW i \in DOMAIN history', history'[i].saw # 0,
                      history'[i].step = history'[history'[i].saw].step
               PROVE  history'[i].saw = i - 1
    BY DEF ResumeExtendsWhatItRead
  <2>1. i \in DOMAIN history /\ history'[i] = history[i]  BY <1>1
  <2>2. history[i].saw \in 1..Len(history)  BY <2>1, SawInHistory DEF Records
  <2>3. history'[history[i].saw] = history[history[i].saw]  BY <2>2 DEF Grows
  <2> QED  BY <2>1, <2>3 DEF Records, ResumeExtendsWhatItRead
<1> QED  BY <1>3, <1>4, <1>5

LEMMA RecordsStarted ==
    ASSUME TypeOK, Records, NEW a \in Actors, StartInvestigation(a)
    PROVE  Records'
<1>1. Grows /\ Len(history') = Len(history) + 2
      /\ history'[Len(history) + 1] = [step |-> "contain", saw |-> 0]
      /\ history'[Len(history) + 2] = [step |-> "investigate", saw |-> 0]
  <2>1. history' \in Seq(Checkpoint)  BY StartType
  <2> HIDE DEF Checkpoint
  <2> QED  BY <2>1, StartType, Lengths, LenProperties DEF Grows
<1>2. UNCHANGED <<approvals, evidence>>  BY DEF StartInvestigation
<1>3. \A i \in DOMAIN history' : i > Len(history) =>
          history'[i].saw = 0 /\ history'[i].step \in {"contain", "investigate"}
  <2>1. \A i \in DOMAIN history' : i > Len(history) =>
            i = Len(history) + 1 \/ i = Len(history) + 2
    BY <1>1 DEF Grows
  <2> QED  BY <1>1, <2>1
<1>4. ClosedIsJustified' /\ ResumeExtendsWhatItRead' /\ SawEarlier'
  <2>1. ApprovedByRole => ApprovedByRole'  BY <1>2 DEF ApprovedByRole
  <2> QED  BY <1>1, <1>2, <1>3, <2>1, HistoryUnguarded
<1>5. DecidedByApprovers'  BY <1>2 DEF Records, DecidedByApprovers
<1>6. DecisionsAreRecorded'
  <2>1. \A i \in DOMAIN history' : history'[i].step \in Decisions =>
            i \in DOMAIN history /\ history'[i] = history[i]
    BY <1>1, <1>3 DEF Grows, Decisions
  <2>2. \A i \in DOMAIN history : i \in DOMAIN history' /\ history'[i] = history[i]
    BY <1>1 DEF Grows
  <2> QED  BY <1>2, <2>1, <2>2 DEF Records, DecisionsAreRecorded
<1> QED  BY <1>4, <1>5, <1>6 DEF Records

LEMMA RecordsRequested ==
    ASSUME TypeOK, Records, NEW s \in Steps, approvals' = Append(approvals, Requested(s)),
           UNCHANGED <<history, evidence>>
    PROVE  Records'
<1>1. /\ DOMAIN approvals \subseteq DOMAIN approvals'
      /\ \A n \in DOMAIN approvals' :
             \/ n \in DOMAIN approvals /\ approvals'[n] = approvals[n]
             \/ approvals'[n] = Requested(s)
      /\ \A n \in DOMAIN approvals : approvals'[n] = approvals[n]
  BY RequestType
<1>2. ClosedIsJustified'
  BY <1>1 DEF Records, ClosedIsJustified, Preceded, ApprovedByRole
<1>3. DecisionsAreRecorded'
  <2>1. Requested(s).status = "pending"  BY DEF Requested
  <2> QED  BY <1>1, <2>1 DEF Records, DecisionsAreRecorded
<1>4. DecidedByApprovers'
  <2>1. Requested(s).status = "pending" /\ Requested(s).by = Nobody
        /\ Requested(s).checkpoint = 0
    BY DEF Requested
  <2> QED  BY <1>1, <2>1 DEF Records, DecidedByApprovers
<1>5. ResumeExtendsWhatItRead' /\ SawEarlier'
  BY DEF Records, ResumeExtendsWhatItRead, SawEarlier
<1> QED  BY <1>2, <1>3, <1>4, <1>5 DEF Records

LEMMA RecordsDecided ==
    ASSUME TypeOK, WorkflowInv, NEW a \in Actors, NEW approved \in BOOLEAN,
           DecideCommit(a, approved)
    PROVE  Records'
<1> DEFINE to == IF approved THEN "countermeasure_approved" ELSE "compensated"
<1> DEFINE d == Len(history) + 1
<1>1. to \in Steps /\ to \in Decisions /\ Extend(to, 0) /\ UNCHANGED evidence
  BY DEF Steps, Decisions, DecideCommit
<1>2. Len(history) \in Nat /\ d \in Nat /\ 0 \in 0..MaxCheckpoints
  BY Lengths, WorkflowAssumption
<1>3. a \in Approvers /\ a # Nobody /\ covers[a] # {} /\ covers[a] \subseteq Pending
      /\ Pending \subseteq DOMAIN approvals
  BY WorkflowAssumption DEF WorkflowInv, Callers, Deciders, DecideCommit, Pending
<1> HIDE DEF to
<1>4. Grows /\ Len(history') = d /\ history'[d] = [step |-> to, saw |-> 0]
  <2>1. history' \in Seq(Checkpoint)  BY <1>1, <1>2, ExtendType
  <2> HIDE DEF Checkpoint
  <2> QED  BY <1>1, <1>2, <2>1, ExtendType, Lengths, LenProperties DEF Grows
<1>5. /\ DOMAIN approvals' = DOMAIN approvals
      /\ \A n \in DOMAIN approvals :
            /\ n \in covers[a] =>
                 /\ approvals'[n].status = (IF approved THEN "approved" ELSE "rejected")
                 /\ approvals'[n].by = a
                 /\ approvals'[n].checkpoint = d
            /\ n \notin covers[a] => approvals'[n] = approvals[n]
  BY DecideType
<1>6. \A i \in DOMAIN history' :
          \/ i = d
          \/ i \in DOMAIN history /\ history'[i] = history[i]
  BY <1>2, <1>4 DEF Grows
<1>7. \A n \in DOMAIN approvals : approvals[n].status # "pending" => approvals'[n] = approvals[n]
  BY <1>3, <1>5 DEF Pending
<1>8. ClosedIsJustified' /\ ResumeExtendsWhatItRead' /\ SawEarlier'
  <2>1. ApprovedByRole => ApprovedByRole'  BY <1>5, <1>7 DEF ApprovedByRole
  <2>2. \E j \in 1..Len(history) : history[j].step = "countermeasure_proposed"
    <3>1. approvals # <<>>  BY <1>3
    <3> QED  BY <3>1, Lengths DEF WorkflowInv, Callers, Requests
  <2>3. \A i \in DOMAIN history' : i > Len(history) =>
            history'[i].saw = 0 /\ history'[i].step \in Decisions
    BY <1>1, <1>2, <1>4, <1>6 DEF Grows
  <2> QED  BY <1>1, <1>4, <2>1, <2>2, <2>3, HistoryUnguarded DEF WorkflowInv
<1>9. DecidedByApprovers'
  BY <1>3, <1>5 DEF WorkflowInv, Records, DecidedByApprovers
<1>10. DecisionsAreRecorded'
  <2>1. ASSUME NEW i \in DOMAIN history', history'[i].step \in Decisions, history'[i].saw = 0
        PROVE  \E n \in DOMAIN approvals' : approvals'[n].checkpoint = i
    <3>1. CASE i = d  BY <1>3, <1>5, <3>1
    <3>2. CASE i \in DOMAIN history /\ history'[i] = history[i]
      <4>1. PICK n \in DOMAIN approvals : approvals[n].checkpoint = i
        BY <2>1, <3>2 DEF WorkflowInv, Records, DecisionsAreRecorded
      <4>2. n \notin covers[a]
        <5>1. i # 0  BY <1>2, <3>2 DEF Grows
        <5> QED
          BY <1>3, <4>1, <5>1 DEF Pending, WorkflowInv, Records, DecidedByApprovers
      <4> QED  BY <1>5, <4>1, <4>2
    <3> QED  BY <1>6, <3>1, <3>2
  <2>2. ASSUME NEW n \in DOMAIN approvals', approvals'[n].status # "pending"
        PROVE  /\ approvals'[n].checkpoint \in DOMAIN history'
               /\ history'[approvals'[n].checkpoint].step =
                      IF approvals'[n].status = "approved"
                      THEN "countermeasure_approved" ELSE "compensated"
    <3>1. CASE n \in covers[a]
      BY <1>2, <1>4, <1>5, <2>2, <3>1 DEF Grows, to
    <3>2. CASE n \notin covers[a]
      BY <1>4, <1>5, <2>2, <3>2 DEF Grows, WorkflowInv, Records, DecisionsAreRecorded
    <3> QED  BY <3>1, <3>2
  <2> QED  BY <2>1, <2>2 DEF DecisionsAreRecorded
<1> QED  BY <1>8, <1>9, <1>10 DEF Records

LEMMA RecordsStep == TypeOK /\ WorkflowInv /\ [Next]_vars => Records'
<1> SUFFICES ASSUME TypeOK, WorkflowInv, [Next]_vars PROVE Records'  OBVIOUS
<1>0. CASE UNCHANGED vars  BY <1>0, SameRecords DEF vars, WorkflowInv
<1> SUFFICES ASSUME NEW a \in Actors, Call(a) PROVE Records'  BY <1>0 DEF Next
<1>1. Records /\ GuardsRead /\ Requests  BY DEF WorkflowInv, Callers
<1>2. ASSUME pc[a] \in Guarded \union {"stamping", "resuming"}
      PROVE  seen[a] \in 1..Len(history)
  BY <1>1, <1>2, WorkflowAssumption, Lengths DEF GuardsRead, TypeOK
<1>3. Guarded = {"proposing", "verifying", "closing", "closeable"}
      /\ Required["proposing"] = "investigate"
      /\ Required["verifying"] = "countermeasure_approved"
      /\ Required["closing"] = "verify" /\ Required["closeable"] = "verify"
  BY DEF Guarded, Required
<1>4. CASE UNCHANGED <<history, approvals, evidence>>  BY <1>1, <1>4, SameRecords
<1>5. CASE StartInvestigation(a)  BY <1>1, <1>5, RecordsStarted
<1>6. CASE RecordObservation(a)  BY <1>1, <1>6, SameRecords DEF RecordObservation
<1>7. CASE ProposeCommit(a)
  <2>1. seen[a] \in 1..Len(history) /\ history[seen[a]].step = "investigate"
    BY <1>1, <1>2, <1>3, <1>7 DEF ProposeCommit, GuardsRead
  <2>2. "countermeasure_proposed" \in Steps  BY DEF Steps
  <2> QED  BY <1>1, <1>7, <2>1, <2>2, RecordsExtended DEF ProposeCommit
<1>8. CASE RequestCommit(a)
  <2>1. history[seen[a]].step \in Steps
    BY <1>2, <1>8, SeenStep DEF RequestCommit
  <2> QED  BY <1>1, <1>8, <2>1, RecordsRequested DEF RequestCommit
<1>9. ASSUME NEW approved \in BOOLEAN, DecideCommit(a, approved) PROVE Records'
  BY <1>9, RecordsDecided
<1>10. CASE VerifyCommit(a)
  <2>1. seen[a] \in 1..Len(history) /\ history[seen[a]].step = "countermeasure_approved"
    BY <1>1, <1>2, <1>3, <1>10 DEF VerifyCommit, GuardsRead
  <2>2. "verify" \in Steps  BY DEF Steps
  <2> QED  BY <1>1, <1>10, <2>1, <2>2, RecordsExtended DEF VerifyCommit
<1>11. CASE CloseCommit(a)
  <2>1. seen[a] \in 1..Len(history) /\ history[seen[a]].step = "verify"
    BY <1>1, <1>2, <1>3, <1>11 DEF CloseCommit, GuardsRead
  <2>2. "closed" \in Steps  BY DEF Steps
  <2>3. "verification" \in evidence
    BY <1>1, <2>1, Lengths DEF Records, ClosedIsJustified
  <2>4. ApprovedByRole
    BY <1>1, <1>11 DEF CloseCommit, Requests, HasApproval, ApprovedByRole,
                       Records, DecidedByApprovers
  <2> QED  BY <1>1, <1>11, <2>1, <2>2, <2>3, <2>4, RecordsExtended DEF CloseCommit
<1>12. CASE ResumeCommit(a)
  <2> DEFINE s == history[seen[a]].step
  <2>1. seen[a] \in 1..Len(history) /\ seen[a] \in DOMAIN history
    BY <1>2, <1>12, Lengths DEF ResumeCommit
  <2>2. s \in Steps  BY <2>1, SeenStep
  <2>3. Extend(s, seen[a]) /\ seen[a] = Len(history) /\ UNCHANGED <<approvals, evidence>>
    BY <1>12 DEF ResumeCommit, AtVersion
  <2>4. \A j \in 1..(seen[a] - 1) : j \in 1..Len(history)
    BY <2>1, Lengths
  <2>5. s = "closed" => ApprovedByRole /\ "verification" \in evidence
                        /\ \E j \in 1..Len(history) : history[j].step = "verify"
    BY <1>1, <2>1, <2>4 DEF Records, ClosedIsJustified, Preceded
  <2>6. s = "verify" => "verification" \in evidence
                        /\ \E j \in 1..Len(history) :
                               history[j].step = "countermeasure_approved"
    BY <1>1, <2>1, <2>4 DEF Records, ClosedIsJustified, Preceded
  <2>7. s = "countermeasure_approved" =>
            \E j \in 1..Len(history) : history[j].step = "countermeasure_proposed"
    BY <1>1, <2>1, <2>4 DEF Records, ClosedIsJustified, Preceded
  <2> HIDE DEF s
  <2> QED  BY <1>1, <2>1, <2>2, <2>3, <2>5, <2>6, <2>7, RecordsExtended
<1>13. CASE ProposeGuard(a) \/ RequestRead(a) \/ VerifyGuard(a) \/ CloseGuard(a)
            \/ ResumeRead(a) \/ DecideRole(a) \/ DecideUpdate(a) \/ CloseEvidence(a)
            \/ Abandon(a)
  BY <1>4, <1>13
     DEF ProposeGuard, RequestRead, VerifyGuard, CloseGuard, ResumeRead, RequireStep,
         Read, DecideRole, DecideUpdate, CloseEvidence, Abandon
<1> QED
  BY <1>5, <1>6, <1>7, <1>8, <1>9, <1>10, <1>11, <1>12, <1>13 DEF Call

-----------------------------------------------------------------------------
(* What the callers know. *)

LEMMA GuardsReadStep == TypeOK /\ WorkflowInv /\ [Next]_vars => GuardsRead'
<1> SUFFICES ASSUME TypeOK, WorkflowInv, [Next]_vars PROVE GuardsRead'  OBVIOUS
<1>0. CASE UNCHANGED vars  BY <1>0 DEF vars, WorkflowInv, Callers, GuardsRead
<1> SUFFICES ASSUME NEW a \in Actors, Call(a) PROVE GuardsRead'  BY <1>0 DEF Next
<1>1. GuardsRead /\ pc \in [Actors -> Places] /\ seen \in [Actors -> 0..MaxCheckpoints]
      /\ Len(history) \in Nat /\ MaxCheckpoints \in Nat
      /\ \A b \in Actors :
             seen[b] # 0 <=> pc[b] \in Guarded \union {"stamping", "resuming"}
  BY Lengths, WorkflowAssumption DEF WorkflowInv, Callers, TypeOK
<1>2. \A p \in {"idle", "requesting", "deciding", "decided", "stamping", "resuming"} :
          p \notin Guarded
  BY DEF Guarded, Required
\* The history grows and the caller forgets what it read.
<1>3. ASSUME Len(history') \in Nat, Len(history) <= Len(history'),
             \A i \in 1..Len(history) : history'[i] = history[i],
             NEW p \in {"idle", "requesting", "deciding", "decided"}, Goto(a, p, 0)
      PROVE  GuardsRead'
  <2> SUFFICES ASSUME NEW b \in Actors
               PROVE  /\ seen'[b] <= Len(history')
                      /\ pc'[b] \in Guarded => /\ seen'[b] # 0
                                               /\ history'[seen'[b]].step = Required[pc'[b]]
                      /\ pc'[b] = "resuming" => seen'[b] # 0
                      /\ pc'[b] = "stamping" => seen'[b] # 0
    BY DEF GuardsRead
  <2>1. CASE b = a
    <3>1. pc'[b] = p /\ seen'[b] = 0  BY <1>1, <1>3, <2>1 DEF Goto
    <3> QED  BY <1>2, <1>3, <3>1
  <2>2. CASE b # a
    <3>1. pc'[b] = pc[b] /\ seen'[b] = seen[b]  BY <1>1, <1>3, <2>2 DEF Goto
    <3>2. seen[b] <= Len(history) /\ seen[b] \in Nat  BY <1>1 DEF GuardsRead
    <3>3. seen[b] # 0 => history'[seen[b]] = history[seen[b]]  BY <1>1, <1>3, <3>2
    <3> QED  BY <1>1, <1>3, <3>1, <3>2, <3>3 DEF GuardsRead
  <2> QED  BY <2>1, <2>2
\* The caller reads the latest checkpoint.
<1>4. ASSUME NEW p, Read(a, p), p \in Guarded => StepIs(Required[p]) PROVE GuardsRead'
  <2>1. history # <<>> /\ Len(history) # 0  BY <1>4, Lengths DEF Read
  <2>2. UNCHANGED history /\ Goto(a, p, Len(history))  BY <1>4 DEF Read
  <2>3. \A b \in Actors : /\ pc'[b] = IF b = a THEN p ELSE pc[b]
                          /\ seen'[b] = IF b = a THEN Len(history) ELSE seen[b]
    BY <1>1, <2>2 DEF Goto
  <2> QED  BY <1>1, <1>4, <2>1, <2>2, <2>3 DEF GuardsRead, StepIs
<1>5. ASSUME NEW s \in Steps, NEW v \in 0..MaxCheckpoints, Extend(s, v)
      PROVE  Len(history') \in Nat /\ Len(history) <= Len(history')
             /\ \A i \in 1..Len(history) : history'[i] = history[i]
  <2>1. Len(history') = Len(history) + 1
        /\ \A i \in 1..Len(history) : history'[i] = history[i]
    BY <1>5, ExtendType
  <2> QED  BY <1>1, <2>1
<1>6. CASE StartInvestigation(a)
  <2>1. Len(history') = Len(history) + 2
        /\ \A i \in 1..Len(history) : history'[i] = history[i]
    BY <1>6, StartType
  <2>2. UNCHANGED <<pc, seen>>  BY <1>6 DEF StartInvestigation
  <2>3. \A b \in Actors : seen[b] # 0 => history'[seen[b]] = history[seen[b]]
    BY <1>1, <2>1 DEF GuardsRead
  <2>4. \A b \in Actors : seen[b] \in Nat /\ seen[b] <= Len(history')
    BY <1>1, <2>1 DEF GuardsRead
  <2> QED  BY <1>1, <2>2, <2>3, <2>4 DEF GuardsRead
<1>7. CASE ProposeCommit(a) \/ VerifyCommit(a) \/ CloseCommit(a)
  <2>1. PICK s \in Steps : Extend(s, seen[a])
    BY <1>7 DEF ProposeCommit, VerifyCommit, CloseCommit, Steps
  <2>2. Goto(a, "idle", 0) \/ Goto(a, "requesting", 0)
    BY <1>7 DEF ProposeCommit, VerifyCommit, CloseCommit
  <2> QED  BY <1>1, <1>3, <1>5, <2>1, <2>2
<1>8. CASE ResumeCommit(a)
  <2>1. seen[a] \in 1..Len(history)  BY <1>1, <1>8 DEF ResumeCommit, GuardsRead
  <2>2. history[seen[a]].step \in Steps  BY <2>1, SeenStep
  <2>3. Extend(history[seen[a]].step, seen[a]) /\ Goto(a, "idle", 0)
    BY <1>8 DEF ResumeCommit
  <2> QED  BY <1>1, <1>3, <1>5, <2>2, <2>3
<1>9. ASSUME NEW approved \in BOOLEAN, DecideCommit(a, approved) PROVE GuardsRead'
  <2>1. PICK s \in Steps : Extend(s, 0)  BY <1>9 DEF DecideCommit, Steps, Decisions
  <2>2. 0 \in 0..MaxCheckpoints /\ Goto(a, "idle", 0)  BY <1>1, <1>9 DEF DecideCommit
  <2> QED  BY <1>3, <1>5, <2>1, <2>2
<1>10. CASE RequestCommit(a) \/ DecideRole(a) \/ DecideUpdate(a) \/ Abandon(a)
  <2>1. UNCHANGED history
    BY <1>10 DEF RequestCommit, DecideRole, DecideUpdate, Abandon
  <2>2. Goto(a, "idle", 0) \/ Goto(a, "deciding", 0) \/ Goto(a, "decided", 0)
    BY <1>10 DEF RequestCommit, DecideRole, DecideUpdate, Abandon
  <2> QED  BY <1>1, <1>3, <2>1, <2>2
<1>11. CASE ProposeGuard(a) \/ VerifyGuard(a) \/ CloseGuard(a)
  BY <1>4, <1>11 DEF ProposeGuard, VerifyGuard, CloseGuard, RequireStep
<1>12. CASE RequestRead(a) \/ ResumeRead(a)
  BY <1>2, <1>4, <1>12 DEF RequestRead, ResumeRead
<1>13. CASE CloseEvidence(a)
  <2>1. \A b \in Actors : /\ pc'[b] = IF b = a THEN "closeable" ELSE pc[b]
                          /\ seen'[b] = seen[b]
    BY <1>1, <1>13 DEF CloseEvidence, Goto
  <2>2. UNCHANGED history /\ pc[a] = "closing" /\ Required["closing"] = Required["closeable"]
        /\ "closing" \in Guarded
    BY <1>13 DEF CloseEvidence, Required, Guarded
  <2> QED  BY <1>1, <2>1, <2>2 DEF GuardsRead
<1>14. CASE RecordObservation(a)
  BY <1>1, <1>14 DEF RecordObservation, GuardsRead
<1> QED
  BY <1>6, <1>7, <1>8, <1>9, <1>10, <1>11, <1>12, <1>13, <1>14 DEF Call

LEMMA RequestsStep == TypeOK /\ WorkflowInv /\ [Next]_vars => Requests'
<1> SUFFICES ASSUME TypeOK, WorkflowInv, [Next]_vars PROVE Requests'  OBVIOUS
<1>0. CASE UNCHANGED vars
  BY <1>0 DEF vars, WorkflowInv, Callers, Requests, HasApproval
<1> SUFFICES ASSUME NEW a \in Actors, Call(a) PROVE Requests'  BY <1>0 DEF Next
<1> DEFINE Proposed == \E i \in DOMAIN history : history[i].step = "countermeasure_proposed"
<1>1. /\ approvals # <<>> \/ (\E b \in Actors : pc[b] \in {"requesting", "stamping"}) => Proposed
      /\ \A b \in Actors : pc[b] = "closeable" => HasApproval
      /\ pc \in [Actors -> Places]
  BY DEF WorkflowInv, Callers, Requests, TypeOK
<1>2. ASSUME NEW s \in Steps, NEW v \in 0..MaxCheckpoints, Extend(s, v)
      PROVE  /\ Proposed => Proposed'
             /\ s = "countermeasure_proposed" => Proposed'
  <2>1. Len(history') = Len(history) + 1 /\ history' \in Seq(Checkpoint)
        /\ \A i \in 1..Len(history) : history'[i] = history[i]
    BY <1>2, ExtendType
  <2>2. DOMAIN history = 1..Len(history) /\ DOMAIN history' = 1..(Len(history) + 1)
        /\ Len(history) \in Nat
    <3> HIDE DEF Checkpoint
    <3> QED  BY <2>1, Lengths, LenProperties
  <2>3. ASSUME NEW i \in DOMAIN history, history[i].step = "countermeasure_proposed"
        PROVE  Proposed'
    <3>1. i \in DOMAIN history' /\ history'[i] = history[i]  BY <2>1, <2>2
    <3> QED  BY <2>3, <3>1
  <2>4. ASSUME s = "countermeasure_proposed" PROVE Proposed'
    <3>1. Len(history) + 1 \in DOMAIN history'  BY <2>2
    <3>2. history'[Len(history) + 1] = [step |-> s, saw |-> v]  BY <1>2, ExtendType
    <3>3. history'[Len(history) + 1].step = s  BY <3>2
    <3> QED  BY <2>4, <3>1, <3>3
  <2> QED  BY <2>3, <2>4
\* The caller is not led to request an approval.
<1>3. ASSUME Proposed => Proposed', approvals' # <<>> => approvals # <<>>,
             HasApproval => HasApproval',
             NEW p \in {"idle", "deciding", "decided", "proposing", "verifying",
                        "closing", "resuming"},
             NEW v, Goto(a, p, v)
      PROVE  Requests'
  <2>1. \A b \in Actors : pc'[b] = IF b = a THEN p ELSE pc[b]  BY <1>1, <1>3 DEF Goto
  <2> QED  BY <1>1, <1>3, <2>1 DEF Requests
<1>4. CASE StartInvestigation(a)
  <2>1. Len(history') = Len(history) + 2 /\ history' \in Seq(Checkpoint)
        /\ \A i \in 1..Len(history) : history'[i] = history[i]
    BY <1>4, StartType
  <2>2. DOMAIN history = 1..Len(history) /\ DOMAIN history' = 1..(Len(history) + 2)
        /\ Len(history) \in Nat
    <3> HIDE DEF Checkpoint
    <3> QED  BY <2>1, Lengths, LenProperties
  <2>3. Proposed => Proposed'  BY <2>1, <2>2
  <2>4. UNCHANGED <<approvals, pc>>  BY <1>4 DEF StartInvestigation
  <2> QED  BY <1>1, <2>3, <2>4 DEF Requests, HasApproval
<1>5. CASE RecordObservation(a)
  BY <1>1, <1>5 DEF RecordObservation, Requests, HasApproval
<1>6. CASE ProposeCommit(a)
  <2>1. "countermeasure_proposed" \in Steps /\ seen[a] \in 0..MaxCheckpoints
    BY DEF Steps, TypeOK
  <2>2. Proposed'  BY <1>2, <1>6, <2>1 DEF ProposeCommit
  <2>3. \A b \in Actors : pc'[b] = IF b = a THEN "requesting" ELSE pc[b]
    BY <1>1, <1>6 DEF ProposeCommit, Goto
  <2>4. UNCHANGED approvals  BY <1>6 DEF ProposeCommit
  <2> QED  BY <1>1, <2>2, <2>3, <2>4 DEF Requests, HasApproval
<1>7. CASE RequestRead(a)
  <2>1. Proposed /\ UNCHANGED <<history, approvals>>  BY <1>1, <1>7 DEF RequestRead, Read
  <2>2. \A b \in Actors : pc'[b] = IF b = a THEN "stamping" ELSE pc[b]
    BY <1>1, <1>7 DEF RequestRead, Read, Goto
  <2> QED  BY <1>1, <2>1, <2>2 DEF Requests, HasApproval
<1>8. CASE RequestCommit(a)
  <2>1. Proposed /\ UNCHANGED history  BY <1>1, <1>8 DEF RequestCommit
  <2>2. \A b \in Actors : pc'[b] = IF b = a THEN "idle" ELSE pc[b]
    BY <1>1, <1>8 DEF RequestCommit, Goto
  <2>3. HasApproval => HasApproval'
    <3>1. seen[a] \in 1..Len(history)
      BY <1>8, Lengths, WorkflowAssumption
         DEF RequestCommit, WorkflowInv, Callers, GuardsRead, TypeOK
    <3>2. history[seen[a]].step \in Steps  BY <3>1, SeenStep
    <3>3. DOMAIN approvals \subseteq DOMAIN approvals'
          /\ \A n \in DOMAIN approvals : approvals'[n] = approvals[n]
      BY <1>8, <3>2, RequestType DEF RequestCommit
    <3> QED  BY <3>3 DEF HasApproval
  <2> QED  BY <1>1, <2>1, <2>2, <2>3 DEF Requests
<1>9. ASSUME NEW approved \in BOOLEAN, DecideCommit(a, approved) PROVE Requests'
  <2>1. PICK s \in Steps : Extend(s, 0)  BY <1>9 DEF DecideCommit, Steps, Decisions
  <2>2. 0 \in 0..MaxCheckpoints /\ Goto(a, "idle", 0)
    BY <1>9, WorkflowAssumption DEF DecideCommit
  <2>3. DOMAIN approvals' = DOMAIN approvals /\ covers[a] \subseteq Pending
        /\ \A n \in DOMAIN approvals : n \notin covers[a] => approvals'[n] = approvals[n]
    BY <1>9, DecideType DEF WorkflowInv, Callers, Deciders
  <2>4. HasApproval => HasApproval'  BY <2>3 DEF HasApproval, Pending
  <2>5. approvals' # <<>> => approvals # <<>>  BY <2>3
  <2> QED  BY <1>2, <1>3, <2>1, <2>2, <2>4, <2>5
<1>10. CASE VerifyCommit(a) \/ CloseCommit(a) \/ ResumeCommit(a)
  <2>1. PICK s \in Steps : Extend(s, seen[a])
    <3>1. CASE ResumeCommit(a)
      <4>1. seen[a] \in 1..Len(history)
        BY <3>1, Lengths, WorkflowAssumption
           DEF ResumeCommit, WorkflowInv, Callers, GuardsRead, TypeOK
      <4> QED  BY <3>1, <4>1, SeenStep DEF ResumeCommit
    <3> QED  BY <1>10, <3>1 DEF VerifyCommit, CloseCommit, Steps
  <2>2. seen[a] \in 0..MaxCheckpoints  BY DEF TypeOK
  <2>3. UNCHANGED approvals /\ Goto(a, "idle", 0)
    BY <1>10 DEF VerifyCommit, CloseCommit, ResumeCommit
  <2> QED  BY <1>2, <1>3, <2>1, <2>2, <2>3 DEF HasApproval
<1>11. CASE ProposeGuard(a) \/ VerifyGuard(a) \/ CloseGuard(a) \/ ResumeRead(a)
  <2>1. UNCHANGED <<history, approvals>>
    BY <1>11 DEF ProposeGuard, VerifyGuard, CloseGuard, ResumeRead, RequireStep, Read
  <2>2. \E p \in {"proposing", "verifying", "closing", "resuming"} : Goto(a, p, Len(history))
    BY <1>11 DEF ProposeGuard, VerifyGuard, CloseGuard, ResumeRead, RequireStep, Read
  <2> QED  BY <1>3, <2>1, <2>2 DEF HasApproval
<1>12. CASE DecideRole(a) \/ DecideUpdate(a) \/ Abandon(a)
  <2>1. UNCHANGED <<history, approvals>>  BY <1>12 DEF DecideRole, DecideUpdate, Abandon
  <2>2. \E p \in {"idle", "deciding", "decided"} : Goto(a, p, 0)
    BY <1>12 DEF DecideRole, DecideUpdate, Abandon
  <2> QED  BY <1>3, <2>1, <2>2 DEF HasApproval
<1>13. CASE CloseEvidence(a)
  <2>1. HasApproval /\ UNCHANGED <<history, approvals>>  BY <1>13 DEF CloseEvidence
  <2>2. \A b \in Actors : pc'[b] = IF b = a THEN "closeable" ELSE pc[b]
    BY <1>1, <1>13 DEF CloseEvidence, Goto
  <2> QED  BY <1>1, <2>1, <2>2 DEF Requests, HasApproval
<1> QED
  BY <1>4, <1>5, <1>6, <1>7, <1>8, <1>9, <1>10, <1>11, <1>12, <1>13 DEF Call

LEMMA DecidersStep == TypeOK /\ WorkflowInv /\ [Next]_vars => Deciders'
<1> SUFFICES ASSUME TypeOK, WorkflowInv, [Next]_vars PROVE Deciders'  OBVIOUS
<1>0. CASE UNCHANGED vars
  BY <1>0 DEF vars, WorkflowInv, Callers, Deciders, Pending
<1> SUFFICES ASSUME NEW a \in Actors, Call(a) PROVE Deciders'  BY <1>0 DEF Next
<1>1. Deciders /\ pc \in [Actors -> Places] /\ covers \in [Actors -> SUBSET DOMAIN approvals]
  BY DEF WorkflowInv, Callers, TypeOK
\* Nobody is led into or out of deciding, and no approval is decided.
<1>2. ASSUME UNCHANGED covers, Pending \subseteq Pending',
             NEW p \in Places \ {"deciding", "decided"}, NEW v, Goto(a, p, v),
             pc[a] # "decided"
      PROVE  Deciders'
  <2>1. \A b \in Actors : pc'[b] = IF b = a THEN p ELSE pc[b]  BY <1>1, <1>2 DEF Goto
  <2> QED  BY <1>1, <1>2, <2>1 DEF Deciders
<1>3. CASE StartInvestigation(a) \/ RecordObservation(a)
  BY <1>1, <1>3 DEF StartInvestigation, RecordObservation, Deciders, Pending
<1>4. CASE ProposeGuard(a) \/ ProposeCommit(a) \/ RequestRead(a) \/ VerifyGuard(a)
           \/ VerifyCommit(a) \/ CloseGuard(a) \/ CloseEvidence(a) \/ CloseCommit(a)
           \/ ResumeRead(a) \/ ResumeCommit(a)
  <2>1. UNCHANGED <<approvals, covers>> /\ pc[a] # "decided"
    BY <1>4 DEF ProposeGuard, ProposeCommit, RequestRead, VerifyGuard, VerifyCommit,
                CloseGuard, CloseEvidence, CloseCommit, ResumeRead, ResumeCommit,
                RequireStep, Read
  <2>2. \E p \in {"idle", "requesting", "stamping", "resuming", "proposing", "verifying",
                  "closing", "closeable"}, v \in {0, Len(history), seen[a]} : Goto(a, p, v)
    BY <1>4 DEF ProposeGuard, ProposeCommit, RequestRead, VerifyGuard, VerifyCommit,
                CloseGuard, CloseEvidence, CloseCommit, ResumeRead, ResumeCommit,
                RequireStep, Read
  <2>3. Pending \subseteq Pending'  BY <2>1 DEF Pending
  <2>4. {"idle", "requesting", "stamping", "resuming", "proposing", "verifying",
         "closing", "closeable"} \subseteq Places \ {"deciding", "decided"}
    BY DEF Places, Guarded, Required
  <2> QED  BY <1>2, <2>1, <2>2, <2>3, <2>4
<1>5. CASE RequestCommit(a)
  <2>1. seen[a] \in 1..Len(history)
    BY <1>5, Lengths, WorkflowAssumption
       DEF RequestCommit, WorkflowInv, Callers, GuardsRead, TypeOK
  <2>2. history[seen[a]].step \in Steps  BY <2>1, SeenStep
  <2>3. DOMAIN approvals \subseteq DOMAIN approvals'
        /\ \A n \in DOMAIN approvals : approvals'[n] = approvals[n]
    BY <1>5, <2>2, RequestType DEF RequestCommit
  <2>4. Pending \subseteq Pending'  BY <2>3 DEF Pending
  <2> QED  BY <1>2, <1>5, <2>4 DEF RequestCommit, Places
<1>6. CASE DecideRole(a)
  <2>1. \A b \in Actors : pc'[b] = IF b = a THEN "deciding" ELSE pc[b]
    BY <1>1, <1>6 DEF DecideRole, Goto
  <2> QED  BY <1>1, <1>6, <2>1 DEF DecideRole, Deciders, Pending
<1>7. CASE DecideUpdate(a)
  <2>1. \A b \in Actors : /\ pc'[b] = IF b = a THEN "decided" ELSE pc[b]
                          /\ covers'[b] = IF b = a THEN Pending ELSE covers[b]
    BY <1>1, <1>7 DEF DecideUpdate, Goto
  <2>2. Pending' = Pending  BY <1>7 DEF DecideUpdate, Pending
  <2>3. Pending # {} /\ pc[a] = "deciding" /\ \A b \in Actors : covers[b] = {}
    BY <1>1, <1>7 DEF DecideUpdate, Deciders
  <2> QED  BY <1>1, <2>1, <2>2, <2>3 DEF Deciders
<1>8. ASSUME NEW approved \in BOOLEAN, DecideCommit(a, approved) PROVE Deciders'
  <2>1. \A b \in Actors : /\ pc'[b] = IF b = a THEN "idle" ELSE pc[b]
                          /\ covers'[b] = IF b = a THEN {} ELSE covers[b]
    BY <1>1, <1>8 DEF DecideCommit, Goto
  <2>2. Pending \ covers[a] \subseteq Pending'  BY <1>8, DecideType DEF Pending
  <2>3. \A b \in Actors : b # a => covers[b] \subseteq Pending \ covers[a]
    BY <1>1 DEF Deciders
  <2> QED  BY <1>1, <2>1, <2>2, <2>3 DEF Deciders
<1>9. CASE Abandon(a)
  <2>1. \A b \in Actors : /\ pc'[b] = IF b = a THEN "idle" ELSE pc[b]
                          /\ covers'[b] = IF b = a THEN {} ELSE covers[b]
    BY <1>1, <1>9 DEF Abandon, Goto
  <2>2. Pending' = Pending  BY <1>9 DEF Abandon, Pending
  <2> QED  BY <1>1, <2>1, <2>2 DEF Deciders
<1> QED  BY <1>3, <1>4, <1>5, <1>6, <1>7, <1>8, <1>9 DEF Call

-----------------------------------------------------------------------------
\* The tables and the callers keep their types.
LEMMA InvStep == TypeOK /\ WorkflowInv /\ [Next]_vars => TypeOK' /\ WorkflowInv'
BY TypeStep, RecordsStep, GuardsReadStep, RequestsStep, DecidersStep
   DEF WorkflowInv, Callers

\* The inductive invariant holds with any callers and any length of history:
\* what callers had read when they passed a guard suffices for what they write.
THEOREM WorkflowInvHolds == Spec => [](TypeOK /\ WorkflowInv)
<1>1. Init => TypeOK /\ WorkflowInv  BY InitInv
<1>2. TypeOK /\ WorkflowInv /\ [Next]_vars => (TypeOK /\ WorkflowInv)'  BY InvStep
<1> QED  BY <1>1, <1>2, PTL DEF Spec

\* Every row and every caller's place stay within their types.
THEOREM TypeCorrect == Spec => []TypeOK
BY WorkflowInvHolds, PTL

\* However callers race, a closed workflow had been proposed, approved by
\* somebody with the role, and verified with evidence, in this order.
THEOREM ClosedIsJustifiedHolds == Spec => []ClosedIsJustified
<1>1. WorkflowInv => ClosedIsJustified  BY DEF WorkflowInv, Records
<1> QED  BY <1>1, WorkflowInvHolds, PTL

\* Decisions in the history and decided approvals correspond.
THEOREM DecisionsAreRecordedHolds == Spec => []DecisionsAreRecorded
<1>1. WorkflowInv => DecisionsAreRecorded  BY DEF WorkflowInv, Records
<1> QED  BY <1>1, WorkflowInvHolds, PTL

\* A resume never extends a checkpoint other than the one it read.
THEOREM ResumeExtendsWhatItReadHolds == Spec => []ResumeExtendsWhatItRead
<1>1. WorkflowInv => ResumeExtendsWhatItRead  BY DEF WorkflowInv, Records
<1> QED  BY <1>1, WorkflowInvHolds, PTL

\* No call takes a decision back.
THEOREM DecisionIsFinalHolds == Spec => DecisionIsFinal
<1> DEFINE Final == \A n \in DOMAIN approvals :
                       approvals[n].status # "pending" =>
                           n \in DOMAIN approvals' /\ approvals'[n] = approvals[n]
<1>1. TypeOK /\ WorkflowInv /\ [Next]_vars => [Final]_approvals
  <2> SUFFICES ASSUME TypeOK, WorkflowInv, [Next]_vars, approvals' # approvals PROVE Final
    OBVIOUS
  <2>1. PICK a \in Actors : Call(a)  BY DEF Next, vars
  <2>2. CASE RequestCommit(a)
    <3>1. seen[a] \in 1..Len(history)
      BY <2>2, Lengths, WorkflowAssumption
         DEF RequestCommit, WorkflowInv, Callers, GuardsRead, TypeOK
    <3>2. history[seen[a]].step \in Steps  BY <3>1, SeenStep
    <3>3. DOMAIN approvals \subseteq DOMAIN approvals'
          /\ \A n \in DOMAIN approvals : approvals'[n] = approvals[n]
      BY <2>2, <3>2, RequestType DEF RequestCommit
    <3> QED  BY <3>3
  <2>3. ASSUME NEW approved \in BOOLEAN, DecideCommit(a, approved) PROVE Final
    <3>1. DOMAIN approvals' = DOMAIN approvals /\ covers[a] \subseteq Pending
          /\ \A n \in DOMAIN approvals : n \notin covers[a] => approvals'[n] = approvals[n]
      BY <2>3, DecideType DEF WorkflowInv, Callers, Deciders
    <3> QED  BY <3>1 DEF Pending
  <2> QED
    BY <2>1, <2>2, <2>3
       DEF Call, StartInvestigation, RecordObservation, ProposeGuard, ProposeCommit,
           RequestRead, DecideRole, DecideUpdate, VerifyGuard, VerifyCommit, CloseGuard,
           CloseEvidence, CloseCommit, ResumeRead, ResumeCommit, Abandon, RequireStep, Read
<1> QED  BY <1>1, WorkflowInvHolds, PTL DEF Spec, DecisionIsFinal
=============================================================================
