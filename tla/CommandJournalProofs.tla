------------------------ MODULE CommandJournalProofs ------------------------
(***************************************************************************)
(* Proofs about CommandJournal for every set of executors, keys and        *)
(* tokens: the inductive invariant JournalInv, the safety properties that  *)
(* follow from it, and the refinement of AtMostOnceCommand.                *)
(***************************************************************************)
EXTENDS CommandJournal, TLAPS

(* The initial states satisfy the invariant: no row, no executor in a call. *)
LEMMA InitInv == Init => JournalInv
  BY NullAssumption DEF Init, JournalInv, TypeOK, AtMostOnce,
     ReservedNeverDispatched, OnePastGate, InCall, HoldsToken,
     DispatchRecorded, EffectKnown, RowTellsEffect,
     Statuses, Leases, PCs, PastGate, Final, Outcomes, Answers


(* load() only reads the row; the executor moves on or returns. *)
LEMMA LoadInv == ASSUME JournalInv, NEW e \in Executors,
          Load(e) PROVE JournalInv'
<1> USE NullAssumption DEF JournalInv, Statuses, Leases, PCs, PastGate, Final,
        Outcomes, Answers, Load, Replayed, Goto, Conflict, NoAnswer, Answer,
          Leave, row, world
<1>1. TypeOK' BY DEF TypeOK, InCall, HoldsToken, EffectKnown
<1>2. AtMostOnce' BY DEF TypeOK, AtMostOnce, EffectKnown, RowTellsEffect,
          InCall
<1>3. ReservedNeverDispatched' BY DEF TypeOK, ReservedNeverDispatched,
          DispatchRecorded, RowTellsEffect, InCall, EffectKnown
<1>4. OnePastGate' BY DEF TypeOK, OnePastGate, ReservedNeverDispatched,
          InCall, HoldsToken
<1>5. \A f \in Executors : InCall(f)' BY DEF TypeOK, InCall
<1>6. \A f \in Executors : HoldsToken(f)' BY DEF TypeOK, HoldsToken
<1>7. \A f \in Executors : DispatchRecorded(f)' BY DEF TypeOK,
          DispatchRecorded, ReservedNeverDispatched, OnePastGate, InCall,
          HoldsToken
<1>8. \A f \in Executors : EffectKnown(f)' BY DEF TypeOK, EffectKnown,
          OnePastGate, ReservedNeverDispatched, InCall, RowTellsEffect,
          AtMostOnce
<1>9. \A x \in Keys : RowTellsEffect(x)' BY DEF TypeOK, RowTellsEffect,
          DispatchRecorded, ReservedNeverDispatched, EffectKnown, InCall,
          HoldsToken, AtMostOnce
<1> QED BY <1>1, <1>2, <1>3, <1>4, <1>5, <1>6, <1>7, <1>8, <1>9

(* heartbeat() only moves the lease of a held claim. *)
LEMMA HeartbeatInv == ASSUME JournalInv, NEW e \in Executors,
          Heartbeat(e) PROVE JournalInv'
<1> USE NullAssumption DEF JournalInv, Statuses, Leases, PCs, PastGate, Final,
        Outcomes, Answers, Heartbeat, Owns, exec, world
<1>1. TypeOK' BY DEF TypeOK, InCall, HoldsToken, EffectKnown
<1>2. AtMostOnce' BY DEF TypeOK, AtMostOnce, EffectKnown, RowTellsEffect,
          InCall
<1>3. ReservedNeverDispatched' BY DEF TypeOK, ReservedNeverDispatched,
          DispatchRecorded, RowTellsEffect, InCall, EffectKnown
<1>4. OnePastGate' BY DEF TypeOK, OnePastGate, ReservedNeverDispatched,
          InCall, HoldsToken
<1>5. \A f \in Executors : InCall(f)' BY DEF TypeOK, InCall
<1>6. \A f \in Executors : HoldsToken(f)' BY DEF TypeOK, HoldsToken
<1>7. \A f \in Executors : DispatchRecorded(f)' BY DEF TypeOK,
          DispatchRecorded, ReservedNeverDispatched, OnePastGate, InCall,
          HoldsToken
<1>8. \A f \in Executors : EffectKnown(f)' BY DEF TypeOK, EffectKnown,
          OnePastGate, ReservedNeverDispatched, InCall, RowTellsEffect,
          AtMostOnce
<1>9. \A x \in Keys : RowTellsEffect(x)' BY DEF TypeOK, RowTellsEffect,
          DispatchRecorded, ReservedNeverDispatched, EffectKnown, InCall,
          HoldsToken, AtMostOnce
<1> QED BY <1>1, <1>2, <1>3, <1>4, <1>5, <1>6, <1>7, <1>8, <1>9

(* A failed journal transaction ends the call and changes no row. *)
LEMMA JournalErrorInv == ASSUME JournalInv, NEW e \in Executors,
          JournalError(e) PROVE JournalInv'
<1> USE NullAssumption DEF JournalInv, Statuses, Leases, PCs, PastGate, Final,
        Outcomes, Answers, JournalError, NoAnswer, Leave, row, world
<1>1. TypeOK' BY DEF TypeOK, InCall, HoldsToken, EffectKnown
<1>2. AtMostOnce' BY DEF TypeOK, AtMostOnce, EffectKnown, RowTellsEffect,
          InCall
<1>3. ReservedNeverDispatched' BY DEF TypeOK, ReservedNeverDispatched,
          DispatchRecorded, RowTellsEffect, InCall, EffectKnown
<1>4. OnePastGate' BY DEF TypeOK, OnePastGate, ReservedNeverDispatched,
          InCall, HoldsToken
<1>5. \A f \in Executors : InCall(f)' BY DEF TypeOK, InCall
<1>6. \A f \in Executors : HoldsToken(f)' BY DEF TypeOK, HoldsToken
<1>7. \A f \in Executors : DispatchRecorded(f)' BY DEF TypeOK,
          DispatchRecorded, ReservedNeverDispatched, OnePastGate, InCall,
          HoldsToken
<1>8. \A f \in Executors : EffectKnown(f)' BY DEF TypeOK, EffectKnown,
          OnePastGate, ReservedNeverDispatched, InCall, RowTellsEffect,
          AtMostOnce
<1>9. \A x \in Keys : RowTellsEffect(x)' BY DEF TypeOK, RowTellsEffect,
          DispatchRecorded, ReservedNeverDispatched, EffectKnown, InCall,
          HoldsToken, AtMostOnce
<1> QED BY <1>1, <1>2, <1>3, <1>4, <1>5, <1>6, <1>7, <1>8, <1>9

(* The mutation: the executor is alone past the gate and had not mutated. *)
LEMMA MutateInv == ASSUME JournalInv, NEW e \in Executors,
          Mutate(e) PROVE JournalInv'
<1> USE NullAssumption DEF JournalInv, Statuses, Leases, PCs, PastGate, Final,
        Outcomes, Answers, Mutate, Goto, row
<1>1. TypeOK' BY DEF TypeOK, InCall, HoldsToken, EffectKnown
<1>2. AtMostOnce' BY DEF TypeOK, AtMostOnce, EffectKnown, RowTellsEffect,
          InCall
<1>3. ReservedNeverDispatched' BY DEF TypeOK, ReservedNeverDispatched,
          DispatchRecorded, RowTellsEffect, InCall, EffectKnown
<1>4. OnePastGate' BY DEF TypeOK, OnePastGate, ReservedNeverDispatched,
          InCall, HoldsToken
<1>5. \A f \in Executors : InCall(f)' BY DEF TypeOK, InCall
<1>6. \A f \in Executors : HoldsToken(f)' BY DEF TypeOK, HoldsToken
<1>7. \A f \in Executors : DispatchRecorded(f)' BY DEF TypeOK,
          DispatchRecorded, ReservedNeverDispatched, OnePastGate, InCall,
          HoldsToken
<1>8. \A f \in Executors : EffectKnown(f)' BY DEF TypeOK, EffectKnown,
          OnePastGate, ReservedNeverDispatched, InCall, RowTellsEffect,
          AtMostOnce
<1>9. \A x \in Keys : RowTellsEffect(x)' BY DEF TypeOK, RowTellsEffect,
          DispatchRecorded, ReservedNeverDispatched, EffectKnown, InCall,
          HoldsToken, AtMostOnce
<1> QED BY <1>1, <1>2, <1>3, <1>4, <1>5, <1>6, <1>7, <1>8, <1>9

(* The handler is over; a timeout may leave its command in flight. *)
LEMMA HandlerEndsInv == ASSUME JournalInv, NEW e \in Executors,
          NEW o \in Outcomes, HandlerEnds(e, o) PROVE JournalInv'
<1> USE NullAssumption DEF JournalInv, Statuses, Leases, PCs, PastGate, Final,
        Outcomes, Answers, HandlerEnds, Abandon, row
<1>1. TypeOK' BY DEF TypeOK, InCall, HoldsToken, EffectKnown
<1>2. AtMostOnce' BY DEF TypeOK, AtMostOnce, EffectKnown, RowTellsEffect,
          InCall
<1>3. ReservedNeverDispatched' BY DEF TypeOK, ReservedNeverDispatched,
          DispatchRecorded, RowTellsEffect, InCall, EffectKnown
<1>4. OnePastGate' BY DEF TypeOK, OnePastGate, ReservedNeverDispatched,
          InCall, HoldsToken
<1>5. \A f \in Executors : InCall(f)' BY DEF TypeOK, InCall
<1>6. \A f \in Executors : HoldsToken(f)' BY DEF TypeOK, HoldsToken
<1>7. \A f \in Executors : DispatchRecorded(f)' BY DEF TypeOK,
          DispatchRecorded, ReservedNeverDispatched, OnePastGate, InCall,
          HoldsToken
<1>8. \A f \in Executors : EffectKnown(f)' BY DEF TypeOK, EffectKnown,
          OnePastGate, ReservedNeverDispatched, InCall, RowTellsEffect,
          AtMostOnce
<1>9. \A x \in Keys : RowTellsEffect(x)' BY DEF TypeOK, RowTellsEffect,
          DispatchRecorded, ReservedNeverDispatched, EffectKnown, InCall,
          HoldsToken, AtMostOnce
<1> QED BY <1>1, <1>2, <1>3, <1>4, <1>5, <1>6, <1>7, <1>8, <1>9

(* A crash between any two steps loses the frame, never the row. *)
LEMMA CrashInv == ASSUME JournalInv, NEW e \in Executors,
          Crash(e) PROVE JournalInv'
<1> USE NullAssumption DEF JournalInv, Statuses, Leases, PCs, PastGate, Final,
        Outcomes, Answers, Crash, Abandon, NoAnswer, Leave, row
<1>1. TypeOK' BY DEF TypeOK, InCall, HoldsToken, EffectKnown
<1>2. AtMostOnce' BY DEF TypeOK, AtMostOnce, EffectKnown, RowTellsEffect,
          InCall
<1>3. ReservedNeverDispatched' BY DEF TypeOK, ReservedNeverDispatched,
          DispatchRecorded, RowTellsEffect, InCall, EffectKnown
<1>4. OnePastGate' BY DEF TypeOK, OnePastGate, ReservedNeverDispatched,
          InCall, HoldsToken
<1>5. \A f \in Executors : InCall(f)' BY DEF TypeOK, InCall
<1>6. \A f \in Executors : HoldsToken(f)' BY DEF TypeOK, HoldsToken
<1>7. \A f \in Executors : DispatchRecorded(f)' BY DEF TypeOK,
          DispatchRecorded, ReservedNeverDispatched, OnePastGate, InCall,
          HoldsToken
<1>8. \A f \in Executors : EffectKnown(f)' BY DEF TypeOK, EffectKnown,
          OnePastGate, ReservedNeverDispatched, InCall, RowTellsEffect,
          AtMostOnce
<1>9. \A x \in Keys : RowTellsEffect(x)' BY DEF TypeOK, RowTellsEffect,
          DispatchRecorded, ReservedNeverDispatched, EffectKnown, InCall,
          HoldsToken, AtMostOnce
<1> QED BY <1>1, <1>2, <1>3, <1>4, <1>5, <1>6, <1>7, <1>8, <1>9

(* An abandoned command lands: its row is open or ambiguous. *)
LEMMA LateMutationInv == ASSUME JournalInv, NEW k \in Keys,
          LateMutation(k) PROVE JournalInv'
<1> USE NullAssumption DEF JournalInv, Statuses, Leases, PCs, PastGate, Final,
        Outcomes, Answers, LateMutation, row, exec
<1>1. TypeOK' BY DEF TypeOK, InCall, HoldsToken, EffectKnown
<1>2. AtMostOnce' BY DEF TypeOK, AtMostOnce, EffectKnown, RowTellsEffect,
          InCall
<1>3. ReservedNeverDispatched' BY DEF TypeOK, ReservedNeverDispatched,
          DispatchRecorded, RowTellsEffect, InCall, EffectKnown
<1>4. OnePastGate' BY DEF TypeOK, OnePastGate, ReservedNeverDispatched,
          InCall, HoldsToken
<1>5. \A f \in Executors : InCall(f)' BY DEF TypeOK, InCall
<1>6. \A f \in Executors : HoldsToken(f)' BY DEF TypeOK, HoldsToken
<1>7. \A f \in Executors : DispatchRecorded(f)' BY DEF TypeOK,
          DispatchRecorded, ReservedNeverDispatched, OnePastGate, InCall,
          HoldsToken
<1>8. \A f \in Executors : EffectKnown(f)' BY DEF TypeOK, EffectKnown,
          OnePastGate, ReservedNeverDispatched, InCall, RowTellsEffect,
          AtMostOnce
<1>9. \A x \in Keys : RowTellsEffect(x)' BY DEF TypeOK, RowTellsEffect,
          DispatchRecorded, ReservedNeverDispatched, EffectKnown, InCall,
          HoldsToken, AtMostOnce
<1> QED BY <1>1, <1>2, <1>3, <1>4, <1>5, <1>6, <1>7, <1>8, <1>9

(* Time only moves leases. *)
LEMMA TimePassesInv == ASSUME JournalInv, NEW k \in Keys,
          TimePasses(k) PROVE JournalInv'
<1> USE NullAssumption DEF JournalInv, Statuses, Leases, PCs, PastGate, Final,
        Outcomes, Answers, TimePasses, exec, world
<1>1. TypeOK' BY DEF TypeOK, InCall, HoldsToken, EffectKnown
<1>2. AtMostOnce' BY DEF TypeOK, AtMostOnce, EffectKnown, RowTellsEffect,
          InCall
<1>3. ReservedNeverDispatched' BY DEF TypeOK, ReservedNeverDispatched,
          DispatchRecorded, RowTellsEffect, InCall, EffectKnown
<1>4. OnePastGate' BY DEF TypeOK, OnePastGate, ReservedNeverDispatched,
          InCall, HoldsToken
<1>5. \A f \in Executors : InCall(f)' BY DEF TypeOK, InCall
<1>6. \A f \in Executors : HoldsToken(f)' BY DEF TypeOK, HoldsToken
<1>7. \A f \in Executors : DispatchRecorded(f)' BY DEF TypeOK,
          DispatchRecorded, ReservedNeverDispatched, OnePastGate, InCall,
          HoldsToken
<1>8. \A f \in Executors : EffectKnown(f)' BY DEF TypeOK, EffectKnown,
          OnePastGate, ReservedNeverDispatched, InCall, RowTellsEffect,
          AtMostOnce
<1>9. \A x \in Keys : RowTellsEffect(x)' BY DEF TypeOK, RowTellsEffect,
          DispatchRecorded, ReservedNeverDispatched, EffectKnown, InCall,
          HoldsToken, AtMostOnce
<1> QED BY <1>1, <1>2, <1>3, <1>4, <1>5, <1>6, <1>7, <1>8, <1>9

(* reserve() opens a row nobody has ever dispatched. *)
LEMMA ReserveInv == ASSUME JournalInv, NEW e \in Executors, NEW k \in Keys,
          NEW ack \in BOOLEAN, Reserve(e, k, ack) PROVE JournalInv'
<1> USE NullAssumption DEF JournalInv, Statuses, Leases, PCs, PastGate, Final,
        Outcomes, Answers, Reserve, Claimed, NoAnswer, Leave, Fresh, row, world
<1>1. TypeOK' BY DEF TypeOK, InCall, HoldsToken, EffectKnown
<1>2. AtMostOnce' BY DEF TypeOK, AtMostOnce, EffectKnown, RowTellsEffect,
          InCall
<1>3. ReservedNeverDispatched' BY DEF TypeOK, ReservedNeverDispatched,
          DispatchRecorded, RowTellsEffect, InCall, EffectKnown
<1>4. OnePastGate' BY DEF TypeOK, OnePastGate, ReservedNeverDispatched,
          InCall, HoldsToken
<1>5. \A f \in Executors : InCall(f)' BY DEF TypeOK, InCall
<1>6. \A f \in Executors : HoldsToken(f)' BY DEF TypeOK, HoldsToken
<1>7. \A f \in Executors : DispatchRecorded(f)' BY DEF TypeOK,
          DispatchRecorded, ReservedNeverDispatched, OnePastGate, InCall,
          HoldsToken
<1>8. \A f \in Executors : EffectKnown(f)' BY DEF TypeOK, EffectKnown,
          OnePastGate, ReservedNeverDispatched, InCall, RowTellsEffect,
          AtMostOnce
<1>9. \A x \in Keys : RowTellsEffect(x)' BY DEF TypeOK, RowTellsEffect,
          DispatchRecorded, ReservedNeverDispatched, EffectKnown, InCall,
          HoldsToken, AtMostOnce
<1> QED BY <1>1, <1>2, <1>3, <1>4, <1>5, <1>6, <1>7, <1>8, <1>9

(* recover() re-issues an undispatched row or closes a dispatched one. *)
LEMMA RecoverInv == ASSUME JournalInv, NEW e \in Executors,
          NEW ack \in BOOLEAN, Recover(e, ack) PROVE JournalInv'
<1> USE NullAssumption DEF JournalInv, Statuses, Leases, PCs, PastGate, Final,
        Outcomes, Answers, Recover, Reclaimable, Undecidable, LapsedVerdict,
          Claimed, Closed, Conflict, NoAnswer, Leave, Fresh, row, world
<1>1. TypeOK' BY DEF TypeOK, InCall, HoldsToken, EffectKnown
<1>2. AtMostOnce' BY DEF TypeOK, AtMostOnce, EffectKnown, RowTellsEffect,
          InCall
<1>3. ReservedNeverDispatched' BY DEF TypeOK, ReservedNeverDispatched,
          DispatchRecorded, RowTellsEffect, InCall, EffectKnown
<1>4. OnePastGate' BY DEF TypeOK, OnePastGate, ReservedNeverDispatched,
          InCall, HoldsToken
<1>5. \A f \in Executors : InCall(f)' BY DEF TypeOK, InCall
<1>6. \A f \in Executors : HoldsToken(f)' BY DEF TypeOK, HoldsToken
<1>7. \A f \in Executors : DispatchRecorded(f)' BY DEF TypeOK,
          DispatchRecorded, ReservedNeverDispatched, OnePastGate, InCall,
          HoldsToken
<1>8. \A f \in Executors : EffectKnown(f)' BY DEF TypeOK, EffectKnown,
          OnePastGate, ReservedNeverDispatched, InCall, RowTellsEffect,
          AtMostOnce
<1>9. \A x \in Keys : RowTellsEffect(x)' BY DEF TypeOK, RowTellsEffect,
          DispatchRecorded, ReservedNeverDispatched, EffectKnown, InCall,
          HoldsToken, AtMostOnce
<1> QED BY <1>1, <1>2, <1>3, <1>4, <1>5, <1>6, <1>7, <1>8, <1>9

(* begin_dispatch() lets one executor past the gate. *)
LEMMA BeginDispatchInv == ASSUME JournalInv, NEW e \in Executors,
          NEW ack \in BOOLEAN, BeginDispatch(e, ack) PROVE JournalInv'
<1> USE NullAssumption DEF JournalInv, Statuses, Leases, PCs, PastGate, Final,
        Outcomes, Answers, BeginDispatch, GateOpen, MarkDispatching, Goto,
          Conflict, NoAnswer, Leave, row, world
<1>1. TypeOK' BY DEF TypeOK, InCall, HoldsToken, EffectKnown
<1>2. AtMostOnce' BY DEF TypeOK, AtMostOnce, EffectKnown, RowTellsEffect,
          InCall
<1>3. ReservedNeverDispatched' BY DEF TypeOK, ReservedNeverDispatched,
          DispatchRecorded, RowTellsEffect, InCall, EffectKnown
<1>4. OnePastGate' BY DEF TypeOK, OnePastGate, ReservedNeverDispatched,
          InCall, HoldsToken
<1>5. \A f \in Executors : InCall(f)' BY DEF TypeOK, InCall
<1>6. \A f \in Executors : HoldsToken(f)' BY DEF TypeOK, HoldsToken
<1>7. \A f \in Executors : DispatchRecorded(f)' BY DEF TypeOK,
          DispatchRecorded, ReservedNeverDispatched, OnePastGate, InCall,
          HoldsToken
<1>8. \A f \in Executors : EffectKnown(f)' BY DEF TypeOK, EffectKnown,
          OnePastGate, ReservedNeverDispatched, InCall, RowTellsEffect,
          AtMostOnce
<1>9. \A x \in Keys : RowTellsEffect(x)' BY DEF TypeOK, RowTellsEffect,
          DispatchRecorded, ReservedNeverDispatched, EffectKnown, InCall,
          HoldsToken, AtMostOnce
<1> QED BY <1>1, <1>2, <1>3, <1>4, <1>5, <1>6, <1>7, <1>8, <1>9

(* complete() closes the row of the one executor past the gate. *)
LEMMA CompleteInv == ASSUME JournalInv, NEW e \in Executors,
          NEW ack \in BOOLEAN, Complete(e, ack) PROVE JournalInv'
<1> USE NullAssumption DEF JournalInv, Statuses, Leases, PCs, PastGate, Final,
        Outcomes, Answers, Complete, Owns, Closed, Answer, AnswerOf,
          NoAnswer, Leave, row, world
<1>1. TypeOK' BY DEF TypeOK, InCall, HoldsToken, EffectKnown
<1>2. AtMostOnce' BY DEF TypeOK, AtMostOnce, EffectKnown, RowTellsEffect,
          InCall
<1>3. ReservedNeverDispatched' BY DEF TypeOK, ReservedNeverDispatched,
          DispatchRecorded, RowTellsEffect, InCall, EffectKnown
<1>4. OnePastGate' BY DEF TypeOK, OnePastGate, ReservedNeverDispatched,
          InCall, HoldsToken
<1>5. \A f \in Executors : InCall(f)' BY DEF TypeOK, InCall
<1>6. \A f \in Executors : HoldsToken(f)' BY DEF TypeOK, HoldsToken
<1>7. \A f \in Executors : DispatchRecorded(f)' BY DEF TypeOK,
          DispatchRecorded, ReservedNeverDispatched, OnePastGate, InCall,
          HoldsToken
<1>8. \A f \in Executors : EffectKnown(f)' BY DEF TypeOK, EffectKnown,
          OnePastGate, ReservedNeverDispatched, InCall, RowTellsEffect,
          AtMostOnce
<1>9. \A x \in Keys : RowTellsEffect(x)' BY DEF TypeOK, RowTellsEffect,
          DispatchRecorded, ReservedNeverDispatched, EffectKnown, InCall,
          HoldsToken, AtMostOnce
<1> QED BY <1>1, <1>2, <1>3, <1>4, <1>5, <1>6, <1>7, <1>8, <1>9

(* Every step of the specification preserves the invariant. *)
LEMMA StepInv == JournalInv /\ [Next]_vars => JournalInv'
<1> SUFFICES ASSUME JournalInv, [Next]_vars PROVE JournalInv'
  OBVIOUS
<1>1. ASSUME NEW e \in Executors, Step(e) PROVE JournalInv'
  BY <1>1, LoadInv, ReserveInv, RecoverInv, BeginDispatchInv, CompleteInv,
     HeartbeatInv, JournalErrorInv, MutateInv, HandlerEndsInv, CrashInv DEF Step
<1>2. CASE UNCHANGED vars
  BY <1>2 DEF vars, JournalInv, TypeOK, AtMostOnce, ReservedNeverDispatched,
     OnePastGate, InCall, HoldsToken, DispatchRecorded, EffectKnown, RowTellsEffect
<1> QED
  BY <1>1, <1>2, LateMutationInv, TimePassesInv DEF Next

(* The inductive invariant holds in every reachable state. *)
THEOREM JournalInvHolds == Spec => []JournalInv
<1>1. Init => JournalInv  BY InitInv
<1>2. JournalInv /\ [Next]_vars => JournalInv'  BY StepInv
<1> QED  BY <1>1, <1>2, PTL DEF Spec

(* Type correctness of the rows and of the executors. *)
THEOREM TypeCorrect == Spec => []TypeOK
<1>1. JournalInv => TypeOK  BY DEF JournalInv
<1> QED  BY <1>1, JournalInvHolds, PTL

(* A command's mutation takes effect at most once: reserve, the gate and the
   refusal to reclaim a dispatched row together exclude a second dispatch. *)
THEOREM AtMostOnceHolds == Spec => []AtMostOnce
<1>1. JournalInv => AtMostOnce  BY DEF JournalInv
<1> QED  BY <1>1, JournalInvHolds, PTL

(* A 'reserved' row has provably never been dispatched. *)
THEOREM ReservedNeverDispatchedHolds == Spec => []ReservedNeverDispatched
<1>1. JournalInv => ReservedNeverDispatched  BY DEF JournalInv
<1> QED  BY <1>1, JournalInvHolds, PTL

(* All callers of one command hear the same definitive answer, and "ok" only
   of a mutation that happened. *)
THEOREM AnswersAgreeHolds == Spec => []AnswersAgree
<1>1. JournalInv => AnswersAgree
  <2> SUFFICES ASSUME JournalInv, NEW k \in Keys
               PROVE  /\ \A a, b \in told[k] : a = b
                      /\ "ok" \in told[k] => applied[k] = 1
    BY DEF AnswersAgree
  <2>1. told[k] \subseteq {"ok", "failed", "timeout"}
    BY DEF JournalInv, TypeOK, Answers
  <2>2. RowTellsEffect(k)
    BY DEF JournalInv
  <2> QED  BY <2>1, <2>2 DEF RowTellsEffect
<1> QED  BY <1>1, JournalInvHolds, PTL

(* A closed row is final: its claim is cleared, and the one operation that
   ignores the status, complete(), needs a token that is still in the row. *)
THEOREM ClosedIsFinalHolds == Spec => ClosedIsFinal
<1>1. ASSUME JournalInv, [Next]_vars, NEW k \in Keys, status[k] \in Final
      PROVE  status'[k] = status[k] /\ claim'[k] = claim[k]
  <2> DEFINE Same == status'[k] = status[k] /\ claim'[k] = claim[k]
  <2>1. RowTellsEffect(k) /\ TypeOK
    BY <1>1 DEF JournalInv
  <2> USE <1>1, <2>1, NullAssumption DEF Final, Outcomes
  <2>2. ASSUME NEW e \in Executors, Step(e) PROVE Same
    <3>1. ASSUME NEW ack \in BOOLEAN, NEW x \in Keys, Reserve(e, x, ack) PROVE Same
      BY <3>1 DEF Reserve, Claimed, row, TypeOK
    <3>2. ASSUME NEW ack \in BOOLEAN, Recover(e, ack) PROVE Same
      BY <3>2 DEF Recover, Reclaimable, Undecidable, LapsedVerdict, Claimed, Closed,
         row, TypeOK
    <3>3. ASSUME NEW ack \in BOOLEAN, BeginDispatch(e, ack) PROVE Same
      BY <3>3 DEF BeginDispatch, GateOpen, MarkDispatching, row, TypeOK
    <3>4. ASSUME NEW ack \in BOOLEAN, Complete(e, ack) PROVE Same
      <4>1. pc[e] = "record" /\ token[e] # NoToken
        BY <3>4 DEF Complete, JournalInv, HoldsToken, PastGate
      <4> QED  BY <3>4, <4>1 DEF Complete, Owns, Closed, row, TypeOK, RowTellsEffect
    <3> QED
      BY <2>2, <3>1, <3>2, <3>3, <3>4 DEF Step, Load, Heartbeat, JournalError,
         Mutate, HandlerEnds, Crash, row
  <2> QED  BY <2>2 DEF Next, LateMutation, TimePasses, row, vars
<1>2. JournalInv /\ [Next]_vars =>
        [\A k \in Keys : status[k] \in Final =>
             status'[k] = status[k] /\ claim'[k] = claim[k]]_vars
  BY <1>1
<1> QED  BY <1>2, JournalInvHolds, PTL DEF Spec, ClosedIsFinal

(* Leases belong to open rows: every verdict is written together with the end
   of the lease, so NOW() and the heartbeat matter to open rows only. *)
OnlyOpenIsLeased ==
    \A k \in Keys : status[k] \in {"reserved", "dispatching"} \/ lease[k] = "none"

(* No step leaves a lease on a row that is absent or closed. *)
LEMMA LeaseStep == TypeOK /\ OnlyOpenIsLeased /\ [Next]_vars => OnlyOpenIsLeased'
<1> SUFFICES ASSUME TypeOK, OnlyOpenIsLeased, [Next]_vars PROVE OnlyOpenIsLeased'
  OBVIOUS
<1> USE DEF OnlyOpenIsLeased, TypeOK
<1>1. ASSUME NEW e \in Executors, Step(e) PROVE OnlyOpenIsLeased'
  <2>1. ASSUME NEW ack \in BOOLEAN, NEW k \in Keys, Reserve(e, k, ack)
        PROVE OnlyOpenIsLeased'
    BY <2>1 DEF Reserve, Claimed, row
  <2>2. ASSUME NEW ack \in BOOLEAN, Recover(e, ack) PROVE OnlyOpenIsLeased'
    BY <2>2 DEF Recover, Claimed, Closed, row
  <2>3. ASSUME NEW ack \in BOOLEAN, BeginDispatch(e, ack) PROVE OnlyOpenIsLeased'
    BY <2>3 DEF BeginDispatch, MarkDispatching, row
  <2>4. ASSUME NEW ack \in BOOLEAN, Complete(e, ack) PROVE OnlyOpenIsLeased'
    BY <2>4 DEF Complete, Closed, row
  <2>5. CASE Heartbeat(e)
    BY <2>5 DEF Heartbeat
  <2> QED
    BY <1>1, <2>1, <2>2, <2>3, <2>4, <2>5 DEF Step, Load, JournalError, Mutate,
       HandlerEnds, Crash, row
<1>2. ASSUME NEW k \in Keys, TimePasses(k) PROVE OnlyOpenIsLeased'
  BY <1>2 DEF TimePasses
<1> QED  BY <1>1, <1>2 DEF Next, LateMutation, row, vars

(* Under a live lease only the executor that holds the row's token changes the
   row: reserve needs a free key, recover() a lapsed lease, and the gate and
   complete() compare the token. *)
THEOREM LiveClaimIsExclusiveHolds == Spec => LiveClaimIsExclusive
<1> DEFINE Leased(k) == lease[k] \in {"live", "due"}
           Moved(k) == <<status[k], claim[k]>>' # <<status[k], claim[k]>>
           ByHolder(k) == \E e \in Executors :
                             key[e] = k /\ token[e] = claim[k] /\ pc'[e] # pc[e]
           Exclusive(k) == Leased(k) /\ Moved(k) => ByHolder(k)
<1>1. ASSUME JournalInv, OnlyOpenIsLeased, [Next]_vars, NEW k \in Keys
      PROVE  Exclusive(k)
  <2> SUFFICES ASSUME Leased(k), Moved(k) PROVE ByHolder(k)
    OBVIOUS
  <2>1. TypeOK /\ status[k] \in {"reserved", "dispatching"}
    BY <1>1 DEF JournalInv, OnlyOpenIsLeased
  <2>2. PICK e \in Executors : Step(e)
    BY <1>1 DEF Next, LateMutation, TimePasses, row, vars
  <2>3. ASSUME NEW ack \in BOOLEAN, NEW x \in Keys, Reserve(e, x, ack) PROVE FALSE
    BY <2>1, <2>3 DEF Reserve, Claimed, row, TypeOK
  <2>4. ASSUME NEW ack \in BOOLEAN, Recover(e, ack) PROVE FALSE
    <3>1. key[e] = k => ~Reclaimable(k) /\ ~Undecidable(k)
      BY DEF Reclaimable, Undecidable, LeaseLapsed
    <3> QED  BY <2>1, <2>4, <3>1 DEF Recover, Claimed, Closed, row, TypeOK
  <2>5. ASSUME NEW ack \in BOOLEAN, BeginDispatch(e, ack) PROVE ByHolder(k)
    BY <2>1, <2>5 DEF BeginDispatch, GateOpen, MarkDispatching, Goto, NoAnswer, Leave,
       row, TypeOK
  <2>6. ASSUME NEW ack \in BOOLEAN, Complete(e, ack) PROVE ByHolder(k)
    BY <2>1, <2>6 DEF Complete, Owns, Closed, Answer, NoAnswer, Leave, row, TypeOK
  <2> QED
    BY <2>2, <2>3, <2>4, <2>5, <2>6 DEF Step, Load, Heartbeat, JournalError, Mutate,
       HandlerEnds, Crash, row
<1>2. JournalInv /\ OnlyOpenIsLeased /\ [Next]_vars =>
        [\A k \in Keys :
           /\ lease[k] \in {"live", "due"}
           /\ <<status[k], claim[k]>>' # <<status[k], claim[k]>>
           => \E e \in Executors :
                 key[e] = k /\ token[e] = claim[k] /\ pc'[e] # pc[e]]_vars
  BY <1>1
<1>3. Init => OnlyOpenIsLeased
  BY DEF Init, OnlyOpenIsLeased
<1>4. JournalInv => TypeOK
  BY DEF JournalInv
<1> QED
  BY <1>2, <1>3, <1>4, LeaseStep, JournalInvHolds, PTL DEF Spec, LiveClaimIsExclusive

-----------------------------------------------------------------------------
(* Refinement: what each step does to the command's effect and verdict. *)

(* The initial states promise nothing yet. *)
LEMMA PromiseInit == Init => Promise!Init
  BY DEF Init, Promise!Init, Verdict

(* A step that changes neither effects nor statuses is a stutter. *)
LEMMA QuietStep == ASSUME status' = status, applied' = applied
                   PROVE  UNCHANGED Promise!absVars
  BY DEF Promise!absVars

(* The mutation, in time or late, is an abstract Apply. *)
LEMMA EffectStep ==
    ASSUME TypeOK, NEW k \in Keys, status' = status,
           applied' = [applied EXCEPT ![k] = @ + 1],
           applied[k] = 0
    PROVE  Promise!Next
<1>1. applied' = [applied EXCEPT ![k] = 1]
  BY DEF TypeOK
<1>2. Promise!Apply(k)
  BY <1>1 DEF TypeOK, Promise!Apply
<1> QED  BY <1>2 DEF Promise!Next

(* A row that stays open is not settled. *)
LEMMA OpenStep ==
    ASSUME TypeOK, NEW k \in Keys, NEW s \in {"reserved", "dispatching"},
           status[k] \in {"absent", "reserved", "dispatching"},
           status' = [status EXCEPT ![k] = s], applied' = applied
    PROVE  UNCHANGED Promise!absVars
  BY DEF TypeOK, Promise!absVars, Verdict

(* Closing an open row settles the command. *)
LEMMA SettleStep ==
    ASSUME TypeOK, NEW k \in Keys, NEW s \in Final,
           status[k] \in {"absent", "reserved", "dispatching"},
           status' = [status EXCEPT ![k] = s], applied' = applied,
           s = "succeeded" => applied[k] = 1
    PROVE  Promise!Next
<1>1. Verdict(s) \in Promise!Verdicts \ {"open"}
  BY DEF Verdict, Promise!Verdicts, Final, Outcomes
<1>2. Promise!Settle(k, Verdict(s))
  BY DEF TypeOK, Promise!Settle, Verdict, Final, Outcomes
<1> QED  BY <1>1, <1>2 DEF Promise!Next

(* Every step of an executor maps to an abstract step or to a stutter. *)
LEMMA PromiseStep == JournalInv /\ [Next]_vars => [Promise!Next]_(Promise!absVars)
<1> SUFFICES ASSUME JournalInv, [Next]_vars
             PROVE  Promise!Next \/ UNCHANGED Promise!absVars
  OBVIOUS
<1>1. TypeOK  BY DEF JournalInv
<1>2. ASSUME NEW e \in Executors, Step(e)
      PROVE  Promise!Next \/ UNCHANGED Promise!absVars
  <2>1. CASE Load(e) \/ Heartbeat(e) \/ JournalError(e) \/ Crash(e)
             \/ \E o \in Outcomes : HandlerEnds(e, o)
    BY <2>1, QuietStep DEF Load, Heartbeat, JournalError, Crash, HandlerEnds,
       row, world
  <2>2. ASSUME NEW ack \in BOOLEAN, NEW k \in Keys, Reserve(e, k, ack)
        PROVE  UNCHANGED Promise!absVars
    BY <1>1, <2>2, QuietStep, OpenStep DEF Reserve, Claimed, row, world
  <2>3. ASSUME NEW ack \in BOOLEAN, Recover(e, ack)
        PROVE  Promise!Next \/ UNCHANGED Promise!absVars
    <3>1. key[e] \in Keys
      BY <2>3 DEF Recover, JournalInv, InCall
    <3>2. CASE UNCHANGED row
      BY <2>3, <3>2, QuietStep DEF Recover, row, world
    <3>3. CASE Reclaimable(key[e])
      BY <1>1, <2>3, <3>1, <3>3, OpenStep DEF Recover, Reclaimable, Claimed, world
    <3>4. CASE ~Reclaimable(key[e]) /\ Undecidable(key[e])
      BY <1>1, <2>3, <3>1, <3>4, SettleStep
         DEF Recover, Undecidable, LapsedVerdict, Closed, world, Final
    <3> QED  BY <2>3, <3>2, <3>3, <3>4 DEF Recover
  <2>4. ASSUME NEW ack \in BOOLEAN, BeginDispatch(e, ack)
        PROVE  UNCHANGED Promise!absVars
    <3>1. key[e] \in Keys
      BY <2>4 DEF BeginDispatch, JournalInv, InCall
    <3> QED
      BY <1>1, <2>4, <3>1, QuietStep, OpenStep
         DEF BeginDispatch, GateOpen, MarkDispatching, row, world
  <2>5. ASSUME NEW ack \in BOOLEAN, Complete(e, ack)
        PROVE  Promise!Next \/ UNCHANGED Promise!absVars
    <3>1. /\ key[e] \in Keys /\ token[e] \in Tokens /\ outcome[e] \in Outcomes
          /\ status[key[e]] \in {"dispatching", "reconcile_required"}
          /\ outcome[e] = "succeeded" => applied[key[e]] = 1
      BY <2>5 DEF Complete, JournalInv, InCall, HoldsToken, EffectKnown,
         DispatchRecorded, PastGate
    <3>2. CASE claim[key[e]] = token[e]
      <4>1. status[key[e]] = "dispatching"
        BY <3>1, <3>2, NullAssumption DEF JournalInv, RowTellsEffect, Final
      <4> QED
        BY <1>1, <2>5, <3>1, <3>2, <4>1, SettleStep
           DEF Complete, Owns, Closed, world, Final
    <3>3. CASE claim[key[e]] # token[e]
      BY <2>5, <3>3, QuietStep DEF Complete, Owns, row, world
    <3> QED  BY <3>2, <3>3
  <2>6. CASE Mutate(e)
    <3>1. key[e] \in Keys /\ applied[key[e]] = 0
      BY <2>6 DEF Mutate, JournalInv, InCall, EffectKnown
    <3> QED  BY <1>1, <2>6, <3>1, EffectStep DEF Mutate, row
  <2> QED  BY <1>2, <2>1, <2>2, <2>3, <2>4, <2>5, <2>6 DEF Step
<1>3. ASSUME NEW k \in Keys, LateMutation(k)
      PROVE  Promise!Next
  <2>1. applied[k] = 0
    BY <1>1, <1>3 DEF LateMutation, JournalInv, RowTellsEffect, TypeOK
  <2> QED  BY <1>1, <1>3, <2>1, EffectStep DEF LateMutation, row
<1>4. ASSUME NEW k \in Keys, TimePasses(k)
      PROVE  UNCHANGED Promise!absVars
  BY <1>4, QuietStep DEF TimePasses, world
<1>5. CASE UNCHANGED vars
  BY <1>5, QuietStep DEF vars
<1> QED  BY <1>2, <1>3, <1>4, <1>5 DEF Next

(* The journal implements the at-most-once command. *)
THEOREM KeepsPromise == Spec => Promised
<1>1. Init => Promise!Init  BY PromiseInit
<1>2. JournalInv /\ [Next]_vars => [Promise!Next]_(Promise!absVars)  BY PromiseStep
<1> QED  BY <1>1, <1>2, JournalInvHolds, PTL DEF Spec, Promised, Promise!Spec
=============================================================================
