------------------------- MODULE EntityStoreProofs -------------------------
(***************************************************************************)
(* Proofs about EntityStore, for any number of replicas, rows, writes and  *)
(* faults: what the comparison of each row with the guard's copy buys,     *)
(* whatever the replicas have in memory.                                   *)
(***************************************************************************)
EXTENDS EntityStore, TLAPS

-----------------------------------------------------------------------------
(* Types. *)

LEMMA MadeType == \A row \in Rows : Made(row) \in SUBSET Writes
BY DEF Made, Rows

LEMMA CommitTypes ==
    ASSUME TypeOK, NEW w \in Writes, Commit(w)
    PROVE  /\ db' \in [Ids -> Rows]
           /\ committed' \in [Writes -> SUBSET Ids] /\ past' \in [Ids -> SUBSET Writes]
<1>1. orig[w] \in [Ids -> Rows] /\ map[w] \in [Ids -> Rows] /\ Changed(w) \in SUBSET Ids
  BY DEF TypeOK, Changed
<1>2. db' \in [Ids -> Rows]
  BY <1>1 DEF Commit, TypeOK
<1>3. committed' \in [Writes -> SUBSET Ids]
  BY <1>1 DEF Commit, TypeOK
<1>4. past' \in [Ids -> SUBSET Writes]
  <2>1. \A id \in Ids : past[id] \in SUBSET Writes /\ Made(orig[w][id]) \in SUBSET Writes
    BY <1>1, MadeType DEF TypeOK
  <2> QED  BY <2>1 DEF Commit
<1> QED  BY <1>2, <1>3, <1>4

LEMMA EndTypes ==
    ASSUME TypeOK, NEW ws, End(ws)
    PROVE  /\ pc' \in [Writes -> {"idle", "open", "rollback", "failed", "over"} \union Attempting]
           /\ orig' \in [Writes -> [Ids -> Rows]] /\ map' \in [Writes -> [Ids -> Rows]]
           /\ home' \in Homes
<1>1. Absent \in [Ids -> Rows]
  BY DEF Absent, Rows
<1> QED  BY <1>1 DEF End, TypeOK

LEMMA GotoTypes ==
    ASSUME TypeOK, NEW w \in Writes,
           NEW p \in {"idle", "open", "rollback", "failed", "over"} \union Attempting, Goto(w, p)
    PROVE  /\ pc' \in [Writes -> {"idle", "open", "rollback", "failed", "over"} \union Attempting]
           /\ orig' \in [Writes -> [Ids -> Rows]] /\ map' \in [Writes -> [Ids -> Rows]]
           /\ home' \in Homes
BY DEF Goto, TypeOK

LEMMA WriteBackTypes ==
    ASSUME TypeOK, NEW w \in Writes, WriteBack(w)
    PROVE  mem' \in [Replicas -> [Ids -> Rows]]
<1>1. home[w] \in Replicas /\ mem[home[w]] \in [Ids -> Rows] /\ map[w] \in [Ids -> Rows]
  BY StoreAssumption DEF TypeOK
<1>2. [id \in Ids |-> IF map[w][id] = None /\ orig[w][id] = None THEN mem[home[w]][id]
                      ELSE map[w][id]] \in [Ids -> Rows]
  BY <1>1
<1> QED  BY <1>2 DEF WriteBack, TypeOK

LEMMA FaultTypes == TypeOK /\ Fault => faults' \in 0..MaxFaults
BY StoreAssumption DEF TypeOK, Fault

LEMMA TypesInit == Init => TypeOK
<1>1. Absent \in [Ids -> Rows]
  BY DEF Absent, Rows
<1> QED  BY <1>1, StoreAssumption DEF Init, TypeOK, Rows

LEMMA TypesStep == TypeOK /\ [Next]_vars => TypeOK'
<1> SUFFICES ASSUME TypeOK, [Next]_vars PROVE TypeOK'
  OBVIOUS
<1>1. CASE UNCHANGED vars
  BY <1>1 DEF vars, guard, ghosts, TypeOK
<1>2. ASSUME NEW r \in Replicas, Load(r) PROVE TypeOK'
  <2>1. [id \in Ids |-> Loaded(r, id)] \in [Ids -> Rows]
    BY DEF Loaded, TypeOK
  <2>2. mem' \in [Replicas -> [Ids -> Rows]]
    BY <1>2, <2>1 DEF Load, TypeOK
  <2> QED  BY <1>2, <2>2 DEF Load, guard, ghosts, TypeOK
<1>3. ASSUME NEW r \in Replicas, Crash(r) PROVE TypeOK'
  <2>1. Absent \in [Ids -> Rows]
    BY DEF Absent, Rows
  <2>2. mem' \in [Replicas -> [Ids -> Rows]] /\ inval' \in [Replicas -> SUBSET SUBSET Ids]
    BY <1>3, <2>1 DEF Crash, TypeOK
  <2>3. faults' \in 0..MaxFaults
    BY <1>3, FaultTypes DEF Crash
  <2>4. End({w \in Writes : home[w] = r /\ pc[w] # "idle"}) /\ UNCHANGED <<db, opaque, ghosts>>
    BY <1>3 DEF Crash
  <2> QED  BY <2>2, <2>3, <2>4, EndTypes DEF TypeOK, ghosts
<1>4. ASSUME NEW r \in Replicas, NEW ids \in inval[r], Invalidate(r, ids) PROVE TypeOK'
  <2>1. [id \in Ids |-> IF id \in ids THEN None ELSE mem[r][id]] \in [Ids -> Rows]
    BY DEF TypeOK, Rows
  <2>2. mem' \in [Replicas -> [Ids -> Rows]]
    BY <1>4, <2>1 DEF Invalidate, TypeOK
  <2>3. inval' \in [Replicas -> SUBSET SUBSET Ids]
    BY <1>4 DEF Invalidate, TypeOK
  <2> QED  BY <1>4, <2>2, <2>3 DEF Invalidate, guard, ghosts, TypeOK
<1>5. ASSUME NEW w \in Writes, Open(w) PROVE TypeOK'
  <2>1. home[w] \in Replicas /\ mem[home[w]] \in [Ids -> Rows]
    BY StoreAssumption DEF TypeOK
  <2>2. PICK puts \in SUBSET Ids, removes \in SUBSET Ids :
           map' = [map EXCEPT ![w] = [id \in Ids |->
                      IF id \in puts THEN Made(mem[home[w]][id]) \union {w}
                      ELSE IF id \in removes THEN None ELSE mem[home[w]][id]]]
    BY <1>5 DEF Open
  <2>3. \A id \in Ids : Made(mem[home[w]][id]) \union {w} \in Rows
    BY <2>1, MadeType DEF Rows
  <2>4. [id \in Ids |-> IF id \in puts THEN Made(mem[home[w]][id]) \union {w}
                        ELSE IF id \in removes THEN None ELSE mem[home[w]][id]] \in [Ids -> Rows]
    BY <2>1, <2>3 DEF Rows
  <2>5. map' \in [Writes -> [Ids -> Rows]]
    BY <2>2, <2>4 DEF TypeOK
  <2>6. orig' \in [Writes -> [Ids -> Rows]]
    BY <1>5, <2>1 DEF Open, TypeOK
  <2> QED  BY <1>5, <2>5, <2>6 DEF Open, ghosts, TypeOK
<1>6. ASSUME NEW w \in Writes, Persist(w) \/ Drop(w) PROVE TypeOK'
  <2>1. mem' \in [Replicas -> [Ids -> Rows]]
    BY <1>6, WriteBackTypes DEF Persist, Drop
  <2>2. (Goto(w, "first") \/ Goto(w, "last")) /\ UNCHANGED <<db, inval, opaque, faults, ghosts>>
    BY <1>6 DEF Persist, Drop
  <2> QED  BY <2>1, <2>2, GotoTypes DEF TypeOK, ghosts, Attempting
<1>7. ASSUME NEW w \in Writes, Succeeds(w) PROVE TypeOK'
  <2>1. inval' \in [Replicas -> SUBSET SUBSET Ids]
    BY <1>7 DEF Succeeds, TypeOK, Changed
  <2>2. Commit(w) /\ End({w}) /\ UNCHANGED <<mem, opaque, faults>>
    BY <1>7 DEF Succeeds
  <2> QED  BY <2>1, <2>2, CommitTypes, EndTypes DEF TypeOK
<1>8. ASSUME NEW w \in Writes, Fails(w) PROVE TypeOK'
  <2>1. UNCHANGED <<mem, inval, opaque>> /\ (End({w}) \/ Goto(w, "second") \/ Goto(w, "rollback"))
    BY <1>8 DEF Fails, AfterFailure
  <2>2. faults' \in 0..MaxFaults
    BY <1>8, FaultTypes DEF Fails, TypeOK
  <2>3. Commit(w) \/ UNCHANGED <<db, committed, past>>
    BY <1>8 DEF Fails, ghosts
  <2>4. /\ db' \in [Ids -> Rows]
        /\ committed' \in [Writes -> SUBSET Ids] /\ past' \in [Ids -> SUBSET Writes]
    BY <2>3, CommitTypes DEF TypeOK
  <2> QED  BY <2>1, <2>2, <2>4, EndTypes, GotoTypes DEF TypeOK, Attempting
<1>9. ASSUME NEW w \in Writes, Rollback(w) PROVE TypeOK'
  <2>1. home[w] \in Replicas /\ mem[home[w]] \in [Ids -> Rows] /\ orig[w] \in [Ids -> Rows]
    BY StoreAssumption DEF TypeOK
  <2>2. [id \in Ids |-> IF id \in Changed(w) /\ orig[w][id] # None THEN orig[w][id]
                        ELSE mem[home[w]][id]] \in [Ids -> Rows]
    BY <2>1
  <2>3. mem' \in [Replicas -> [Ids -> Rows]]
    BY <1>9, <2>2 DEF Rollback, TypeOK
  <2>4. Goto(w, "failed") /\ UNCHANGED <<db, inval, opaque, faults, ghosts>>
    BY <1>9 DEF Rollback
  <2> QED  BY <2>3, <2>4, GotoTypes DEF TypeOK, ghosts
<1> QED
  BY <1>1, <1>2, <1>3, <1>4, <1>5, <1>6, <1>7, <1>8, <1>9 DEF Next, GuardStep

-----------------------------------------------------------------------------
(* A guard's copy differs from what it read by its own write or a removal. *)

CopyFits(w) ==
    \A id \in Ids : map[w][id] \in {orig[w][id], None, Made(orig[w][id]) \union {w}}

\* A guard that tries again writes the same rows as the first time.
CommitFits(w) ==
    /\ pc[w] \in {"idle", "open"} => committed[w] = {}
    /\ pc[w] # "over" => committed[w] \subseteq Changed(w)

GuardsFit == \A w \in Writes : CopyFits(w) /\ CommitFits(w)

StoreInv == TypeOK /\ GuardsFit /\ CommittedIsWhole

LEMMA StoreInit == Init => StoreInv
<1> SUFFICES ASSUME Init PROVE StoreInv
  OBVIOUS
<1>1. GuardsFit
  BY DEF Init, GuardsFit, CopyFits, CommitFits, Absent
<1>2. CommittedIsWhole
  BY StoreAssumption DEF Init, CommittedIsWhole, Made
<1> QED  BY <1>1, <1>2, TypesInit DEF StoreInv

\* A step that leaves a guard where it is, or moves it on.
LEMMA GuardKept ==
    ASSUME NEW w \in Writes, CopyFits(w), CommitFits(w), orig'[w] = orig[w], map'[w] = map[w],
           committed'[w] = committed[w], pc'[w] \in {"idle", "open"} => pc[w] \in {"idle", "open"},
           pc[w] = "over" => pc'[w] = "over"
    PROVE  CopyFits(w)' /\ CommitFits(w)'
BY DEF CopyFits, CommitFits, Changed

LEMMA GuardEnds ==
    ASSUME NEW w \in Writes, orig'[w] = Absent, map'[w] = Absent, pc'[w] = "over"
    PROVE  CopyFits(w)' /\ CommitFits(w)'
BY DEF CopyFits, CommitFits, Absent

\* What a guard commits is there afterwards, and it takes no other write away.
LEMMA CommitIsWhole ==
    ASSUME StoreInv, NEW w \in Writes, pc[w] \in Attempting, Commit(w)
    PROVE  CommittedIsWhole'
<1> SUFFICES ASSUME NEW v \in Writes, NEW id \in Ids
             PROVE  (id \in committed[v] <=> v \in Made(db[id]) \union past[id])'
  BY DEF CommittedIsWhole
<1>1. id \in committed[v] <=> v \in Made(db[id]) \union past[id]
  BY DEF StoreInv, CommittedIsWhole
<1>2. committed'[v] = IF v = w THEN Changed(w) ELSE committed[v]
  BY DEF Commit, StoreInv, TypeOK
<1>3. committed[w] \subseteq Changed(w)
  BY DEF StoreInv, GuardsFit, CommitFits, Attempting
<1>4. CASE id \notin Changed(w)
  <2>1. db'[id] = db[id] /\ past'[id] = past[id]
    BY <1>4 DEF Commit
  <2> QED  BY <1>1, <1>2, <1>3, <1>4, <2>1 DEF Made
<1>5. CASE id \in Changed(w)
  <2>1. db[id] = orig[w][id] /\ db'[id] = map[w][id]
    BY <1>5 DEF Commit, Matches
  <2>2. map[w][id] # orig[w][id]
        /\ map[w][id] \in {None, Made(orig[w][id]) \union {w}}
    BY <1>5 DEF Changed, StoreInv, GuardsFit, CopyFits
  <2>3. CASE map[w][id] = None
    <3>1. past'[id] = past[id] \union Made(orig[w][id]) \union {w}
      BY <1>5, <2>3 DEF Commit
    <3>2. Made(db[id])' = {}
      BY <2>1, <2>3 DEF Made
    <3>3. Made(orig[w][id]) = Made(db[id])
      BY <2>1 
    <3> QED  BY <1>1, <1>2, <1>5, <3>1, <3>2, <3>3
  <2>4. CASE map[w][id] # None
    <3>1. past'[id] = past[id]
      BY <2>4 DEF Commit
    <3>2. Made(db[id])' = Made(orig[w][id]) \union {w}
      BY <2>1, <2>2, <2>4 DEF Made
    <3>3. Made(orig[w][id]) = Made(db[id])
      BY <2>1
    <3> QED  BY <1>1, <1>2, <1>5, <3>1, <3>2, <3>3
  <2> QED  BY <2>3, <2>4
<1> QED  BY <1>4, <1>5

\* A commit leaves what was committed within what the guard changes.
LEMMA CommitFitsAfter ==
    ASSUME StoreInv, NEW w \in Writes, Commit(w), NEW v \in Writes
    PROVE  committed'[v] = IF v = w THEN Changed(w) ELSE committed[v]
BY DEF Commit, StoreInv, TypeOK

LEMMA WholeKept ==
    ASSUME CommittedIsWhole, UNCHANGED <<db, committed, past>>
    PROVE  CommittedIsWhole'
BY DEF CommittedIsWhole, Made

LEMMA StoreStep == StoreInv /\ [Next]_vars => StoreInv'
<1> SUFFICES ASSUME StoreInv, [Next]_vars PROVE GuardsFit' /\ CommittedIsWhole'
  BY TypesStep DEF StoreInv
<1>0. TypeOK /\ GuardsFit /\ CommittedIsWhole
  BY DEF StoreInv
<1>1. ASSUME UNCHANGED <<guard, db, ghosts>> PROVE GuardsFit' /\ CommittedIsWhole'
  BY <1>0, <1>1, GuardKept, WholeKept DEF guard, ghosts, GuardsFit
<1>2. ASSUME NEW r \in Replicas, Load(r) PROVE GuardsFit' /\ CommittedIsWhole'
  BY <1>1, <1>2 DEF Load, guard, ghosts
<1>3. ASSUME NEW r \in Replicas, Crash(r) PROVE GuardsFit' /\ CommittedIsWhole'
  <2>1. ASSUME NEW w \in Writes PROVE CopyFits(w)' /\ CommitFits(w)'
    <3>1. CASE home[w] = r /\ pc[w] # "idle"
      BY <1>3, <3>1, GuardEnds DEF Crash, End
    <3>2. CASE ~ (home[w] = r /\ pc[w] # "idle")
      BY <1>0, <1>3, <3>2, GuardKept DEF Crash, End, ghosts, GuardsFit
    <3> QED  BY <3>1, <3>2
  <2> QED  BY <1>0, <1>3, <2>1, WholeKept DEF Crash, ghosts, GuardsFit
<1>4. ASSUME NEW r \in Replicas, NEW ids \in inval[r], Invalidate(r, ids)
      PROVE  GuardsFit' /\ CommittedIsWhole'
  BY <1>1, <1>4 DEF Invalidate, guard, ghosts
<1>5. ASSUME NEW w \in Writes, Open(w) PROVE GuardsFit' /\ CommittedIsWhole'
  <2>1. ASSUME NEW v \in Writes, v # w PROVE CopyFits(v)' /\ CommitFits(v)'
    BY <1>0, <1>5, <2>1, GuardKept DEF Open, ghosts, GuardsFit, TypeOK
  <2>2. PICK puts \in SUBSET Ids, removes \in SUBSET Ids :
           map' = [map EXCEPT ![w] = [id \in Ids |->
                      IF id \in puts THEN Made(mem[home[w]][id]) \union {w}
                      ELSE IF id \in removes THEN None ELSE mem[home[w]][id]]]
    BY <1>5 DEF Open
  <2>3. orig'[w] = mem[home[w]] /\ pc[w] = "idle" /\ committed'[w] = committed[w]
    BY <1>0, <1>5 DEF Open, TypeOK, ghosts
  <2>4. CopyFits(w)'
    <3> SUFFICES ASSUME NEW id \in Ids
                 PROVE  map'[w][id] \in {orig'[w][id], None, Made(orig'[w][id]) \union {w}}
      BY DEF CopyFits, Made
    <3>1. map'[w][id] = IF id \in puts THEN Made(mem[home[w]][id]) \union {w}
                        ELSE IF id \in removes THEN None ELSE mem[home[w]][id]
      BY <1>0, <2>2 DEF TypeOK
    <3> QED  BY <2>3, <3>1
  <2>5. CommitFits(w)'
    BY <1>0, <2>3 DEF GuardsFit, CommitFits
  <2> QED  BY <1>0, <1>5, <2>1, <2>4, <2>5, WholeKept DEF Open, ghosts, GuardsFit
<1>6. ASSUME NEW w \in Writes, NEW p \in Attempting \union {"rollback", "failed"}, Goto(w, p),
             pc[w] # "over", UNCHANGED <<db, ghosts>>
      PROVE  GuardsFit' /\ CommittedIsWhole'
  <2>1. ASSUME NEW v \in Writes PROVE CopyFits(v)' /\ CommitFits(v)'
    BY <1>0, <1>6, GuardKept DEF Goto, ghosts, GuardsFit, TypeOK, Attempting
  <2> QED  BY <1>0, <1>6, <2>1, WholeKept DEF ghosts, GuardsFit
<1>7. ASSUME NEW w \in Writes, Persist(w) \/ Drop(w) \/ Rollback(w)
      PROVE  GuardsFit' /\ CommittedIsWhole'
  BY <1>6, <1>7 DEF Persist, Drop, Rollback, Attempting
<1>8. ASSUME NEW w \in Writes, NEW v \in Writes, Commit(w) \/ UNCHANGED <<db, ghosts>>,
             End({w}), pc[w] \in Attempting
      PROVE  CopyFits(v)' /\ CommitFits(v)'
  <2>1. CASE v = w
    BY <1>8, <2>1, GuardEnds DEF End
  <2>2. CASE v # w
    <3>1. committed'[v] = committed[v]
      BY <1>8, <2>2, CommitFitsAfter DEF ghosts
    <3> QED  BY <1>0, <1>8, <2>2, <3>1, GuardKept DEF End, GuardsFit
  <2> QED  BY <2>1, <2>2
<1>9. ASSUME NEW w \in Writes, Succeeds(w) PROVE GuardsFit' /\ CommittedIsWhole'
  BY <1>8, <1>9, CommitIsWhole DEF Succeeds, GuardsFit
<1>10. ASSUME NEW w \in Writes, Fails(w) PROVE GuardsFit' /\ CommittedIsWhole'
  <2>1. pc[w] \in Attempting /\ (Commit(w) \/ UNCHANGED <<db, ghosts>>)
    BY <1>10 DEF Fails
  <2>2. CommittedIsWhole'
    BY <1>0, <2>1, CommitIsWhole, WholeKept DEF ghosts
  <2>3. CASE End({w})
    BY <1>8, <2>1, <2>2, <2>3 DEF GuardsFit
  <2>4. CASE Goto(w, "second") \/ Goto(w, "rollback")
    <3>1. ASSUME NEW v \in Writes PROVE CopyFits(v)' /\ CommitFits(v)'
      <4>1. CASE committed'[v] = committed[v]
        BY <1>0, <2>1, <2>4, <4>1, GuardKept DEF Goto, GuardsFit, TypeOK, Attempting
      <4>2. CASE v = w /\ committed'[v] = Changed(v)
        <5>1. Changed(v)' = Changed(v) /\ CopyFits(v)' /\ pc'[v] \notin {"idle", "open"}
          BY <1>0, <2>4, <4>2 DEF Goto, Changed, GuardsFit, CopyFits, TypeOK, Made
        <5> QED  BY <4>2, <5>1 DEF CommitFits
      <4> QED  BY <2>1, <4>1, <4>2, CommitFitsAfter DEF ghosts
    <3> QED  BY <2>2, <3>1 DEF GuardsFit
  <2> QED  BY <1>10, <2>3, <2>4 DEF Fails, AfterFailure
<1> QED
  BY <1>1, <1>2, <1>3, <1>4, <1>5, <1>7, <1>9, <1>10 DEF Next, GuardStep, vars

(* Rows, copies and places are always of the shape the code gives them. *)
THEOREM TypeCorrect == Spec => []TypeOK
<1>1. TypeOK /\ [Next]_vars => TypeOK'
  BY TypesStep
<1> QED  BY <1>1, TypesInit, PTL DEF Spec

(* A guard's copy is what it read except for its own write, and what it has
   committed is part of what it would commit again. *)
THEOREM StoreInvHolds == Spec => []StoreInv
<1>1. StoreInv /\ [Next]_vars => StoreInv'
  BY StoreStep
<1> QED  BY <1>1, StoreInit, PTL DEF Spec

(* No lost update and no half-taken write, through stale copies, retries after a
   lost answer, late write-backs and crashes: persist_changes_inner(). *)
THEOREM CommittedIsWholeHolds == Spec => []CommittedIsWhole
<1>1. StoreInv => CommittedIsWhole
  BY DEF StoreInv
<1> QED  BY <1>1, StoreInvHolds, PTL
=============================================================================
