-------------------------- MODULE IdempotencyProofs --------------------------
(***************************************************************************)
(* Proofs about Idempotency, for every set of requests, replicas and       *)
(* bodies and any number of TTL windows.  With the PostgreSQL store        *)
(* IdemInv is inductive, so execution is exclusive and a mutation is not   *)
(* repeated within a window; in the memory of one process MapInv is, and a *)
(* replay is faithful with either.                                         *)
(***************************************************************************)
EXTENDS Idempotency, TLAPS

USE DEF Pooled

(* No live record, no request under way: the invariant holds at the start. *)
LEMMA InitInv == Init /\ Pooled => IdemInv
<1> SUFFICES ASSUME Init, Pooled PROVE IdemInv
  OBVIOUS
<1>1. /\ rec \in [state : {"absent", "in_progress", "completed"},
                  hash : Bodies \union {Nobody}, by : AnyRequest, expired : BOOLEAN]
      /\ rec.state = "absent" <=> rec.hash = Nobody
      /\ rec.state # "completed" /\ (rec.state = "absent" \/ rec.expired)
  <2>1. CASE rec = NoRecord  BY <2>1 DEF NoRecord, AnyRequest
  <2>2. ASSUME NEW b \in Bodies, rec = [InProgress(b) EXCEPT !.expired = TRUE]
        PROVE  <1>1
    BY <2>2, IdempotencyAssumption DEF InProgress, AnyRequest
  <2> QED  BY <2>1, <2>2 DEF Init
<1>2. TypeOK
  BY <1>1, IdempotencyAssumption
     DEF Init, TypeOK, Executing, Guarded, Places, AnyRequest
<1> QED
  BY <1>1, <1>2
     DEF Init, IdemInv, ExclusiveExecution, OneEffectPerWindow, HoldsClaim,
         WindowKept, OthersFailed, Stored, Settles, ReplayFaithful, Executing

(* A step that leaves the record and the effects alone and takes nobody into
   the handler keeps everything but the types and what was replayed. *)
LEMMA QuietStep ==
  ASSUME IdemInv, TypeOK', UNCHANGED <<store, rec, effected, status, body>>,
         \A r \in Requests : /\ pc'[r] \in Executing => pc'[r] = pc[r]
                             /\ pc[r] \in {"ran", "done"} => pc'[r] \in {"ran", "done"}
                             /\ pc[r] = "done" => pc'[r] = "done",
         ~TxCompletes => ReplayFaithful'
  PROVE  IdemInv'
<1> USE DEF IdemInv, Executing
<1>1. ExclusiveExecution' /\ OneEffectPerWindow'
  BY DEF ExclusiveExecution, OneEffectPerWindow
<1>2. \A r \in Requests : HoldsClaim(r)'  BY DEF HoldsClaim
<1>3. WindowKept'
  <2>1. effected \subseteq Requests  BY DEF TypeOK
  <2> QED  BY <2>1 DEF WindowKept, OthersFailed
<1>4. Stored' /\ Settles'  BY DEF Stored, Settles
<1> QED  BY <1>1, <1>2, <1>3, <1>4

(* Replays already given are not changed by a step that answers nobody. *)
LEMMA ReplaysKept ==
  ASSUME IdemInv, UNCHANGED body,
         \A r \in Requests :
            /\ answer'[r] = "replay" => answer'[r] = answer[r] /\ heard'[r] = heard[r]
            /\ pc[r] = "done" => pc'[r] = "done" /\ status'[r] = status[r]
  PROVE  ~TxCompletes => ReplayFaithful'
  BY DEF IdemInv, ReplayFaithful, TypeOK, AnyRequest

(* A request that ends without executing. *)
LEMMA ReturnStep ==
  ASSUME IdemInv, NEW r \in Requests, NEW a \in {"422", "409", "503", "lost"},
         pc[r] \in Guarded \union {"waiting"}, Return(r, a, Nobody),
         UNCHANGED <<rec, lockOf, store, at, body, status, effected, expiries>>
  PROVE  IdemInv'
<1>1. TypeOK'
  BY IdempotencyAssumption
     DEF IdemInv, Return, Released, TypeOK, Places, Guarded, Executing, AnyRequest
<1>2. ~TxCompletes => ReplayFaithful'
  <2>1. ASSUME NEW q \in Requests
        PROVE  /\ answer'[q] = "replay" => answer'[q] = answer[q] /\ heard'[q] = heard[q]
               /\ pc[q] = "done" => pc'[q] = "done" /\ status'[q] = status[q]
    BY <2>1 DEF Return, IdemInv, TypeOK
  <2> QED  BY <2>1, ReplaysKept
<1>3. \A q \in Requests : /\ pc'[q] \in Executing => pc'[q] = pc[q]
                          /\ pc[q] \in {"ran", "done"} => pc'[q] \in {"ran", "done"}
                          /\ pc[q] = "done" => pc'[q] = "done"
  BY DEF Return, IdemInv, TypeOK, Executing
<1> QED  BY <1>1, <1>2, <1>3, QuietStep

(* A request that moves on between the steps before the handler. *)
LEMMA GotoStep ==
  ASSUME IdemInv, NEW r \in Requests, NEW p \in {"locked", "lookup", "reclaim"},
         pc[r] \in {"waiting", "locked", "lookup"}, Goto(r, p),
         UNCHANGED <<rec, lockOf, store, at, body, status, effected, expiries>>
  PROVE  IdemInv'
<1>1. TypeOK'
  BY DEF IdemInv, Goto, TypeOK, Places, Guarded, Executing, AnyRequest
<1>2. ~TxCompletes => ReplayFaithful'  BY ReplaysKept DEF Goto, IdemInv, TypeOK
<1>3. \A q \in Requests : /\ pc'[q] \in Executing => pc'[q] = pc[q]
                          /\ pc[q] \in {"ran", "done"} => pc'[q] \in {"ran", "done"}
                          /\ pc[q] = "done" => pc'[q] = "done"
  BY DEF Goto, IdemInv, TypeOK, Executing
<1> QED  BY <1>1, <1>2, <1>3, QuietStep

(* lock_for() only hands out a mutex. *)
LEMMA ArriveInv == ASSUME IdemInv, NEW r \in Requests, Arrive(r) PROVE IdemInv'
<1>0. ~FastPath(r)  BY DEF FastPath, IdemInv
<1>1. TypeOK'
  BY <1>0, IdempotencyAssumption
     DEF Arrive, request, IdemInv, TypeOK, Places, Guarded, Executing, AnyRequest
<1>2. ~TxCompletes => ReplayFaithful'
  BY <1>0, ReplaysKept DEF Arrive, request, IdemInv, TypeOK
<1>3. \A q \in Requests : /\ pc'[q] \in Executing => pc'[q] = pc[q]
                          /\ pc[q] \in {"ran", "done"} => pc'[q] \in {"ran", "done"}
                          /\ pc[q] = "done" => pc'[q] = "done"
  BY <1>0 DEF Arrive, IdemInv, TypeOK, Executing
<1> QED  BY <1>0, <1>1, <1>2, <1>3, QuietStep DEF Arrive, request

LEMMA LockInv == ASSUME IdemInv, NEW r \in Requests, Lock(r) PROVE IdemInv'
  BY GotoStep DEF Lock, request

(* A claim is taken only when the record is absent or expired: nobody
   executes then, and the window holds no effect that would count. *)
LEMMA ClaimStep ==
  ASSUME IdemInv, NEW r \in Requests, pc[r] \in {"locked", "reclaim"},
         rec.state = "absent" \/ rec.expired,
         rec' = InProgress(body[r]), Goto(r, "running"),
         UNCHANGED <<lockOf, store, at, body, status, effected, expiries>>
  PROVE  IdemInv'
<1> USE DEF IdemInv
<1>0. /\ pc' = [pc EXCEPT ![r] = "running"] /\ UNCHANGED <<mutex, answer, heard>>
      /\ rec'.state = "in_progress" /\ rec'.hash = body[r] /\ rec'.by = Nobody
      /\ rec'.expired = FALSE
      /\ body[r] \in Bodies
  BY DEF Goto, InProgress, TypeOK
<1>1. TypeOK'
  BY <1>0, IdempotencyAssumption
     DEF TypeOK, Places, Guarded, Executing, AnyRequest, InProgress
<1>2. \A q \in Requests : pc[q] \notin Executing  BY DEF HoldsClaim
<1>3. ExclusiveExecution' /\ OneEffectPerWindow'
  BY <1>0, <1>2 DEF ExclusiveExecution, OneEffectPerWindow, Executing, TypeOK
<1>4. \A q \in Requests : HoldsClaim(q)'
  BY <1>0, <1>2 DEF HoldsClaim, Executing, TypeOK
<1>5. WindowKept'
  <2>1. \A q \in effected : q \in Requests /\ q # r /\ status[q] = "5xx"
    BY IdempotencyAssumption DEF WindowKept, OthersFailed, TypeOK
  <2> QED  BY <1>0, <2>1 DEF WindowKept, OthersFailed, TypeOK
<1>6. Stored' /\ Settles'  BY <1>0 DEF Stored, Settles, TypeOK
<1>7. ~TxCompletes => ReplayFaithful'  BY <1>0, ReplaysKept DEF TypeOK
<1> QED  BY <1>1, <1>3, <1>4, <1>5, <1>6, <1>7

LEMMA ClaimInsertInv ==
  ASSUME IdemInv, NEW r \in Requests, ClaimInsert(r) PROVE IdemInv'
<1>1. CASE rec.state = "absent"
  BY <1>1, ClaimStep DEF ClaimInsert, request
<1>2. CASE rec.state # "absent"
  BY <1>2, GotoStep DEF ClaimInsert, request
<1> QED  BY <1>1, <1>2

(* A replay repeats the stored response, for the body the record names. *)
LEMMA ReplayStep ==
  ASSUME IdemInv, NEW r \in Requests, pc[r] = "lookup",
         rec.state = "completed", rec.hash = body[r], Return(r, "replay", rec.by),
         UNCHANGED <<rec, lockOf, store, at, body, status, effected, expiries>>
  PROVE  IdemInv'
<1>1. TypeOK'
  BY IdempotencyAssumption
     DEF IdemInv, Return, Released, TypeOK, Places, Guarded, Executing, AnyRequest
<1>2. ~TxCompletes => ReplayFaithful'
  BY DEF IdemInv, ReplayFaithful, Stored, Return, TypeOK
<1>3. \A q \in Requests : /\ pc'[q] \in Executing => pc'[q] = pc[q]
                          /\ pc[q] \in {"ran", "done"} => pc'[q] \in {"ran", "done"}
                          /\ pc[q] = "done" => pc'[q] = "done"
  BY DEF Return, IdemInv, TypeOK, Executing
<1> QED  BY <1>1, <1>2, <1>3, QuietStep

LEMMA ClaimLookupInv ==
  ASSUME IdemInv, NEW r \in Requests, ClaimLookup(r) PROVE IdemInv'
<1>0. pc[r] = "lookup" /\ UNCHANGED <<rec, lockOf, store, at, body, status, effected, expiries>>
  BY DEF ClaimLookup, request
<1>1. CASE Goto(r, "reclaim")  BY <1>0, <1>1, GotoStep
<1>2. CASE rec.state # "absent" /\ ~rec.expired /\ Inspected(r)
  <2>1. CASE Return(r, "409", Nobody)  BY <1>0, <2>1, ReturnStep DEF Guarded
  <2>2. CASE Return(r, "422", Nobody)  BY <1>0, <2>2, ReturnStep DEF Guarded
  <2>3. CASE rec.state # "in_progress" /\ rec.hash = body[r] /\ Return(r, "replay", rec.by)
    <3>1. rec.state = "completed"  BY <1>2, <2>3 DEF IdemInv, TypeOK
    <3> QED  BY <1>0, <2>3, <3>1, ReplayStep
  <2> QED  BY <1>2, <2>1, <2>2, <2>3 DEF Inspected
<1> QED  BY <1>1, <1>2 DEF ClaimLookup

LEMMA ClaimReclaimInv ==
  ASSUME IdemInv, NEW r \in Requests, ClaimReclaim(r) PROVE IdemInv'
<1>1. CASE Lapsed
  BY <1>1, ClaimStep DEF ClaimReclaim, Lapsed, Reclaimed, request
<1>2. CASE ~Lapsed
  BY <1>2, ReturnStep DEF ClaimReclaim, request, Guarded
<1> QED  BY <1>1, <1>2

(* A claim that was taken and never heard of: nobody executes under it, and
   the window held no effect that would count. *)
LEMMA UnheardStep ==
  ASSUME IdemInv, NEW r \in Requests, NEW a \in {"503", "lost"},
         pc[r] \in Guarded \union {"waiting"}, pc[r] \notin Executing,
         Return(r, a, Nobody), ClaimUnheard(r),
         UNCHANGED <<lockOf, store, at, body, status, effected, expiries>>
  PROVE  IdemInv'
<1>1. CASE rec' = rec
  BY <1>1, ReturnStep
<1>2. CASE rec' # rec
  <2> USE DEF IdemInv
  <2>0. /\ pc' = [pc EXCEPT ![r] = "done"] /\ mutex' = [mutex EXCEPT ![r] = Nobody]
        /\ answer' = [answer EXCEPT ![r] = a] /\ heard' = [heard EXCEPT ![r] = Nobody]
        /\ rec.state = "absent" \/ rec.expired
        /\ rec' = InProgress(body[r]) /\ body[r] \in Bodies
    BY <1>2 DEF Return, Released, ClaimUnheard, Lapsed, TypeOK
  <2>1. /\ rec'.state = "in_progress" /\ rec'.hash = body[r] /\ rec'.by = Nobody
        /\ rec'.expired = FALSE
    BY <2>0 DEF InProgress
  <2>2. TypeOK'
    BY <2>0, IdempotencyAssumption
       DEF TypeOK, Places, Guarded, Executing, AnyRequest, InProgress
  <2>3. \A q \in Requests : pc[q] \notin Executing /\ pc'[q] \notin Executing
    BY <2>0 DEF HoldsClaim, Executing, TypeOK
  <2>4. ExclusiveExecution' /\ OneEffectPerWindow'
    BY <2>3 DEF ExclusiveExecution, OneEffectPerWindow
  <2>5. \A q \in Requests : HoldsClaim(q)'  BY <2>3 DEF HoldsClaim
  <2>6. WindowKept'  BY <2>0, <2>1, <2>3 DEF WindowKept, TypeOK
  <2>7. Stored' /\ Settles'  BY <2>0, <2>1 DEF Stored, Settles, TypeOK
  <2>8. ~TxCompletes => ReplayFaithful'  BY <2>0, ReplaysKept DEF TypeOK
  <2> QED  BY <2>2, <2>4, <2>5, <2>6, <2>7, <2>8
<1> QED  BY <1>1, <1>2

LEMMA StoreUnavailableInv ==
  ASSUME IdemInv, NEW r \in Requests, StoreUnavailable(r) PROVE IdemInv'
  BY UnheardStep DEF StoreUnavailable, request, Guarded, Executing

(* The executing request commits its mutation and, in a finance handler,
   completes the record; every earlier effect of the window was a 5xx. *)
LEMMA CommitStep ==
  ASSUME IdemInv, NEW r \in Requests, pc[r] = "running", Commits(r)
  PROVE  /\ effected' = effected \union {r}
         /\ rec' = rec \/ (TxCompletes /\ rec' = [rec EXCEPT !.state = "completed", !.by = Nobody])
         /\ \A q \in effected : q # r /\ status[q] = "5xx"
<1>1. effected' = effected \union {r}  BY DEF Commits
<1>2. rec' = rec \/ (TxCompletes /\ rec' = [rec EXCEPT !.state = "completed", !.by = Nobody])
  <2>1. CASE TxCompletes /\ rec.state # "absent"
    <3>1. rec' = [rec EXCEPT !.state = "completed", !.by = Nobody]  BY <2>1 DEF Commits
    <3> QED  BY <2>1, <3>1
  <2>2. CASE ~(TxCompletes /\ rec.state # "absent")
    <3>1. rec' = rec  BY <2>2 DEF Commits
    <3> QED  BY <3>1
  <2> QED  BY <2>1, <2>2
<1>3. pc[r] \in Executing  BY DEF Executing
<1>4. \A q \in effected : q # r  BY DEF IdemInv, WindowKept
<1>5. \A q \in effected : status[q] = "5xx"
  BY <1>3, <1>4 DEF IdemInv, WindowKept, OthersFailed
<1> QED  BY <1>1, <1>2, <1>4, <1>5

LEMMA HandlerCommitsInv ==
  ASSUME IdemInv, NEW r \in Requests, HandlerCommits(r) PROVE IdemInv'
<1>0. /\ pc[r] = "running" /\ pc' = [pc EXCEPT ![r] = "ran"]
      /\ UNCHANGED <<mutex, answer, heard, lockOf, store, at, body, expiries>>
      /\ effected' = effected \union {r}
      /\ rec' = rec \/ (TxCompletes /\ rec' = [rec EXCEPT !.state = "completed", !.by = Nobody])
      /\ \A q \in effected : q # r /\ status[q] = "5xx"
  BY CommitStep DEF HandlerCommits, Goto, request
<1>1. PICK s \in {"2xx", "5xx"} : status' = [status EXCEPT ![r] = s]
  BY DEF HandlerCommits
<1>2. /\ rec.state # "absent" /\ ~rec.expired /\ rec.hash = body[r]
      /\ rec'.state # "absent" /\ ~rec'.expired /\ rec'.hash = body[r]
      /\ rec'.state = "completed" => TxCompletes
      /\ \A q \in Requests \ {r} : pc[q] \notin Executing
  <2>1. pc[r] \in Executing  BY <1>0 DEF Executing
  <2>2. /\ rec.state # "absent" /\ ~rec.expired /\ rec.hash = body[r]
        /\ rec.state = "completed" => TxCompletes
        /\ \A q \in Requests \ {r} : pc[q] \notin Executing
    BY <2>1 DEF IdemInv, HoldsClaim, ExclusiveExecution
  <2>3. rec'.state \in {rec.state, "completed"} /\ rec'.expired = rec.expired /\ rec'.hash = rec.hash
    BY <1>0 DEF IdemInv, TypeOK
  <2>4. rec'.state = "completed" => TxCompletes
    BY <1>0, <2>2
  <2> QED  BY <2>2, <2>3, <2>4
<1>3. TypeOK'
  <2>1. CASE rec' = rec
    BY <1>0, <1>1, <2>1 DEF IdemInv, TypeOK, Places, Guarded, Executing, AnyRequest
  <2>2. CASE rec' = [rec EXCEPT !.state = "completed", !.by = Nobody]
    <3>1. /\ rec' \in [state : {"absent", "in_progress", "completed"},
                      hash : Bodies \union {Nobody}, by : AnyRequest, expired : BOOLEAN]
          /\ rec'.state = "absent" <=> rec'.hash = Nobody
      BY <1>2, <2>2 DEF IdemInv, TypeOK, AnyRequest
    <3> QED  BY <1>0, <1>1, <3>1 DEF IdemInv, TypeOK, Places, Guarded, Executing
  <2> QED  BY <1>0, <2>1, <2>2
<1>4. ExclusiveExecution' /\ OneEffectPerWindow'
  BY <1>0, <1>1, <1>2
     DEF IdemInv, TypeOK, ExclusiveExecution, OneEffectPerWindow, Executing
<1>5. \A q \in Requests : HoldsClaim(q)'
  BY <1>0, <1>2 DEF IdemInv, TypeOK, HoldsClaim, Executing
<1>6. WindowKept'
  <2>1. r # Nobody  BY IdempotencyAssumption
  <2> QED
    BY <1>0, <1>1, <1>2, <2>1 DEF IdemInv, TypeOK, WindowKept, OthersFailed, Executing
<1>7. Stored' /\ Settles'
  BY <1>0, <1>1, <1>2 DEF IdemInv, TypeOK, Stored, Settles
<1>8. ~TxCompletes => ReplayFaithful'
  BY <1>0, <1>1, ReplaysKept DEF IdemInv, TypeOK
<1> QED  BY <1>0, <1>3, <1>4, <1>5, <1>6, <1>7, <1>8 DEF IdemInv

(* The handler answers without a mutation. *)
LEMMA HandlerRefusesInv ==
  ASSUME IdemInv, NEW r \in Requests, HandlerRefuses(r) PROVE IdemInv'
<1>0. /\ pc[r] = "running" /\ pc' = [pc EXCEPT ![r] = "ran"]
      /\ UNCHANGED <<mutex, answer, heard, lockOf, store, at, body, expiries, rec, effected>>
  BY DEF HandlerRefuses, Goto, request
<1>1. PICK s \in {"4xx", "5xx"} : status' = [status EXCEPT ![r] = s]
  BY DEF HandlerRefuses
<1>2. \A q \in effected : q # r /\ q \in Requests
  BY <1>0 DEF IdemInv, WindowKept, TypeOK
<1>3. TypeOK'
  BY <1>0, <1>1 DEF IdemInv, TypeOK, Places, Guarded, Executing, AnyRequest
<1>4. ExclusiveExecution' /\ OneEffectPerWindow'
  BY <1>0, <1>1, <1>2
     DEF IdemInv, TypeOK, ExclusiveExecution, OneEffectPerWindow, Executing
<1>5. \A q \in Requests : HoldsClaim(q)'
  BY <1>0 DEF IdemInv, TypeOK, HoldsClaim, Executing
<1>6. WindowKept'
  BY <1>0, <1>1, <1>2 DEF IdemInv, TypeOK, WindowKept, OthersFailed, Executing
<1>7. Stored' /\ Settles'
  BY <1>0, <1>1 DEF IdemInv, TypeOK, Stored, Settles
<1>8. ~TxCompletes => ReplayFaithful'
  BY <1>0, <1>1, ReplaysKept DEF IdemInv, TypeOK
<1> QED  BY <1>0, <1>3, <1>4, <1>5, <1>6, <1>7, <1>8 DEF IdemInv

(* An executing request ends.  The record may stay as it is, be settled, or
   take the commit of a statement that was already sent. *)
LEMMA EndStep ==
  ASSUME IdemInv, NEW r \in Requests, pc[r] \in Executing,
         NEW a \in {"own", "lost"}, NEW q \in {r, Nobody}, Return(r, a, q),
         UNCHANGED <<lockOf, store, at, body, status, expiries>>,
         \/ UNCHANGED <<rec, effected>>
         \/ pc[r] = "running" /\ Commits(r)
         \/ pc[r] = "ran" /\ rec' = Settled(r) /\ UNCHANGED effected
  PROVE  IdemInv'
<1>0. /\ pc' = [pc EXCEPT ![r] = "done"] /\ mutex' = [mutex EXCEPT ![r] = Nobody]
      /\ answer' = [answer EXCEPT ![r] = a] /\ heard' = [heard EXCEPT ![r] = q]
  BY DEF Return, Released
<1>1. /\ rec.state # "absent" /\ ~rec.expired /\ rec.hash = body[r]
      /\ rec.state = "completed" => TxCompletes
      /\ \A x \in Requests \ {r} : pc[x] \notin Executing
      /\ \A x \in effected \ {r} : status[x] = "5xx"
  BY DEF IdemInv, HoldsClaim, ExclusiveExecution, WindowKept, OthersFailed
<1>2. /\ effected' \in {effected, effected \union {r}}
      /\ rec' \in {rec, NoRecord, [rec EXCEPT !.state = "completed", !.by = r],
                   [rec EXCEPT !.state = "completed", !.by = Nobody]}
      /\ rec' = NoRecord => status[r] = "5xx" /\ effected' = effected
      /\ rec'.state = "completed" /\ ~TxCompletes
           => rec'.by = r /\ status[r] # "5xx" /\ pc[r] = "ran"
  <2>1. CASE UNCHANGED <<rec, effected>>
    BY <1>1, <2>1 DEF NoRecord
  <2>2. CASE pc[r] = "running" /\ Commits(r)
    <3>1. /\ effected' = effected \union {r}
          /\ rec' = rec \/ (TxCompletes /\ rec' = [rec EXCEPT !.state = "completed", !.by = Nobody])
      BY <2>2, CommitStep
    <3>2. rec'.state # "absent"  BY <1>1, <3>1 DEF IdemInv, TypeOK
    <3>3. rec' # NoRecord  BY <3>2 DEF NoRecord
    <3>4. ~TxCompletes => rec'.state # "completed"  BY <1>1, <3>1
    <3> QED  BY <3>1, <3>3, <3>4
  <2>3. CASE pc[r] = "ran" /\ rec' = Settled(r) /\ UNCHANGED effected
    <3>1. CASE status[r] = "5xx"
      <4>1. rec' = NoRecord /\ rec'.state = "absent"
        BY <2>3, <3>1 DEF Settled, NoRecord
      <4> QED  BY <2>3, <3>1, <4>1
    <3>2. CASE status[r] # "5xx"
      <4>1. rec' = [rec EXCEPT !.state = "completed", !.by = r]
        BY <1>1, <2>3, <3>2 DEF Settled, Completed, IdemInv
      <4>2. rec'.state = "completed" /\ rec'.by = r
        BY <4>1 DEF IdemInv, TypeOK
      <4>3. rec' # NoRecord  BY <4>2 DEF NoRecord
      <4> QED  BY <2>3, <3>2, <4>1, <4>2, <4>3
    <3> QED  BY <3>1, <3>2
  <2> QED  BY <2>1, <2>2, <2>3
<1>3. TypeOK'
  <2>1. /\ rec' \in [state : {"absent", "in_progress", "completed"},
                    hash : Bodies \union {Nobody}, by : AnyRequest, expired : BOOLEAN]
        /\ rec'.state = "absent" <=> rec'.hash = Nobody
    <3>1. CASE rec' = rec  BY <3>1 DEF IdemInv, TypeOK
    <3>2. CASE rec' = NoRecord  BY <3>2 DEF NoRecord, AnyRequest
    <3>3. ASSUME NEW b \in AnyRequest, rec' = [rec EXCEPT !.state = "completed", !.by = b]
          PROVE  /\ rec' \in [state : {"absent", "in_progress", "completed"},
                             hash : Bodies \union {Nobody}, by : AnyRequest, expired : BOOLEAN]
                 /\ rec'.state = "absent" <=> rec'.hash = Nobody
      BY <1>1, <3>3 DEF IdemInv, TypeOK
    <3> QED  BY <1>2, <3>1, <3>2, <3>3 DEF AnyRequest
  <2>2. effected' \in SUBSET Requests  BY <1>2 DEF IdemInv, TypeOK
  <2> QED
    BY <1>0, <2>1, <2>2, IdempotencyAssumption
       DEF IdemInv, TypeOK, Places, Guarded, Executing, AnyRequest
<1>4. ExclusiveExecution' /\ OneEffectPerWindow'
  BY <1>0, <1>1, <1>2
     DEF IdemInv, TypeOK, ExclusiveExecution, OneEffectPerWindow, Executing
<1>5. \A x \in Requests : HoldsClaim(x)'
  BY <1>0, <1>1 DEF IdemInv, TypeOK, HoldsClaim, Executing
<1>6. WindowKept'
  <2>1. rec'.state = "absent" \/ rec'.expired => rec' = NoRecord
    BY <1>1, <1>2 DEF IdemInv, TypeOK
  <2>2. rec' = NoRecord => \A x \in effected' : status'[x] = "5xx"
    BY <1>1, <1>2
  <2>3. \A x \in effected' : pc'[x] \in {"ran", "done"}
    BY <1>0, <1>2 DEF IdemInv, TypeOK, WindowKept
  <2>4. \A x \in Requests : pc'[x] \notin Executing
    BY <1>0, <1>1 DEF IdemInv, TypeOK, Executing
  <2> QED  BY <2>1, <2>2, <2>3, <2>4 DEF WindowKept, OthersFailed
<1>7. Stored' /\ Settles'
  <2>1. rec'.state = "completed" /\ ~TxCompletes => rec'.hash = body[r]
    BY <1>1, <1>2 DEF IdemInv, TypeOK
  <2> QED  BY <1>0, <1>2, <2>1 DEF IdemInv, TypeOK, Stored, Settles
<1>8. ~TxCompletes => ReplayFaithful'
  BY <1>0, ReplaysKept DEF IdemInv, TypeOK
<1> QED  BY <1>3, <1>4, <1>5, <1>6, <1>7, <1>8 DEF IdemInv

LEMMA FinishInv == ASSUME IdemInv, NEW r \in Requests, Finish(r) PROVE IdemInv'
  BY EndStep DEF Finish, request, Executing

LEMMA CancelInv == ASSUME IdemInv, NEW r \in Requests, Cancel(r) PROVE IdemInv'
<1>1. CASE pc[r] \in Executing
  <2>1. ClaimUnheard(r) => UNCHANGED rec  BY <1>1 DEF ClaimUnheard, Executing
  <2> QED  BY <1>1, <2>1, EndStep DEF Cancel, request
<1>2. CASE pc[r] \notin Executing
  BY <1>2, UnheardStep DEF Cancel, request, Executing
<1> QED  BY <1>1, <1>2

\* The end of a window leaves the variables well-typed.
LEMMA ExpireTyped == ASSUME TypeOK, Expire PROVE TypeOK'
<1> USE DEF Expire, request
<1>1. /\ rec' \in [state : {"absent", "in_progress", "completed"},
                  hash : Bodies \union {Nobody}, by : AnyRequest, expired : BOOLEAN]
      /\ rec'.state = "absent" <=> rec'.hash = Nobody
  BY DEF TypeOK
<1>2. expiries' \in 0..MaxExpiries
  BY IdempotencyAssumption DEF TypeOK
<1> QED  BY <1>1, <1>2 DEF TypeOK

(* The window ends with nobody executing; a new one starts without effects. *)
LEMMA ExpireInv == ASSUME IdemInv, Expire PROVE IdemInv'
<1> USE DEF Expire, request
<1>1. TypeOK'  BY ExpireTyped DEF IdemInv
<1>2. ExclusiveExecution' /\ OneEffectPerWindow' /\ WindowKept'
  BY DEF IdemInv, ExclusiveExecution, OneEffectPerWindow, WindowKept, OthersFailed
<1>3. \A q \in Requests : HoldsClaim(q)'  BY DEF HoldsClaim
<1>4. Stored' /\ Settles'  BY DEF IdemInv, TypeOK, Stored, Settles
<1>5. ~TxCompletes => ReplayFaithful'  BY ReplaysKept
<1> QED  BY <1>1, <1>2, <1>3, <1>4, <1>5 DEF IdemInv

(* The sweep deletes expired records only, which nobody holds. *)
LEMMA SweepRecordsInv == ASSUME IdemInv, SweepRecords PROVE IdemInv'
<1> USE DEF SweepRecords, Swept, request, NoRecord
<1>1. TypeOK'  BY DEF IdemInv, TypeOK, AnyRequest
<1>2. ExclusiveExecution' /\ OneEffectPerWindow' /\ WindowKept'
  BY DEF IdemInv, ExclusiveExecution, OneEffectPerWindow, WindowKept, OthersFailed
<1>3. \A q \in Requests : HoldsClaim(q)'  BY DEF IdemInv, HoldsClaim
<1>4. Stored' /\ Settles'  BY DEF IdemInv, Stored, Settles
<1>5. ~TxCompletes => ReplayFaithful'  BY ReplaysKept
<1> QED  BY <1>1, <1>2, <1>3, <1>4, <1>5 DEF IdemInv

(* Sweeping mutexes and stuttering touch nothing the invariant reads. *)
LEMMA OtherInv ==
  ASSUME IdemInv, (\E p \in Replicas : SweepLocks(p)) \/ UNCHANGED vars
  PROVE  IdemInv'
<1>1. /\ TypeOK' /\ UNCHANGED <<store, rec, effected, status, body, pc, answer, heard>>
  BY DEF SweepLocks, vars, request, IdemInv, TypeOK, AnyRequest
<1>2. ~TxCompletes => ReplayFaithful'  BY <1>1, ReplaysKept
<1> QED  BY <1>1, <1>2, QuietStep

(* IdemInv is inductive. *)
LEMMA StepInv == IdemInv /\ [Next]_vars => IdemInv'
<1>1. IdemInv => Pooled  BY DEF IdemInv
<1> QED
  BY <1>1, ArriveInv, LockInv, ClaimInsertInv, ClaimLookupInv, ClaimReclaimInv,
     StoreUnavailableInv, HandlerCommitsInv, HandlerRefusesInv, FinishInv,
     CancelInv, ExpireInv, SweepRecordsInv, OtherInv
     DEF Next, Serve, MapLookup, MapInsert

(* IdemInv holds in every reachable state of the PostgreSQL store. *)
THEOREM IdemInvHolds == Pooled /\ Spec => []IdemInv
  BY InitInv, StepInv, PTL DEF Spec

-----------------------------------------------------------------------------
(* The store of a single process, whose handlers leave the record to the
   middleware.  Two requests may execute at a time there, so the record says
   less: a completed one was completed by a request that has ended. *)

MapInv ==
    ~Pooled /\ ~TxCompletes /\ TypeOK /\ Stored /\ Settles /\ ReplayFaithful

LEMMA MapInit == Init /\ ~Pooled => MapInv
<1> SUFFICES ASSUME Init, ~Pooled PROVE MapInv
  OBVIOUS
<1>1. /\ rec \in [state : {"absent", "in_progress", "completed"},
                  hash : Bodies \union {Nobody}, by : AnyRequest, expired : BOOLEAN]
      /\ rec.state = "absent" <=> rec.hash = Nobody
      /\ rec.state # "completed"
  <2>1. CASE rec = NoRecord  BY <2>1 DEF NoRecord, AnyRequest
  <2>2. ASSUME NEW b \in Bodies, rec = [InProgress(b) EXCEPT !.expired = TRUE]
        PROVE  <1>1
    BY <2>2, IdempotencyAssumption DEF InProgress, AnyRequest
  <2> QED  BY <2>1, <2>2 DEF Init
<1>2. TypeOK
  BY <1>1, IdempotencyAssumption
     DEF Init, TypeOK, Executing, Guarded, Places, AnyRequest
<1> QED  BY <1>1, <1>2 DEF Init, MapInv, Stored, Settles, ReplayFaithful

\* Nobody leaves "done", and the record was not completed by this step.
LEMMA MapQuiet ==
  ASSUME MapInv, TypeOK', UNCHANGED <<store, body>>,
         rec' \in {rec, [rec EXCEPT !.expired = TRUE]} \/ rec'.state # "completed",
         \A r \in Requests :
            /\ pc[r] = "done" => pc'[r] = "done" /\ status'[r] = status[r]
            /\ pc'[r] = "ran" => status'[r] # "none"
            /\ answer'[r] = "replay" =>
                  \/ answer'[r] = answer[r] /\ heard'[r] = heard[r]
                  \/ rec.state = "completed" /\ rec.hash = body[r] /\ heard'[r] = rec.by
  PROVE  MapInv'
<1> USE DEF MapInv
<1>1. rec'.state = "completed" =>
        rec.state = "completed" /\ rec'.by = rec.by /\ rec'.hash = rec.hash
  BY DEF TypeOK
<1>2. Stored'  BY <1>1 DEF Stored
<1>3. Settles'  BY DEF Settles
<1>4. ReplayFaithful'
  <2> SUFFICES ASSUME NEW r \in Requests, answer'[r] = "replay"
               PROVE  /\ heard'[r] \in Requests /\ pc'[heard'[r]] = "done"
                      /\ body'[heard'[r]] = body'[r]
                      /\ status'[heard'[r]] \in {"2xx", "4xx"}
    BY DEF ReplayFaithful
  <2>1. CASE answer'[r] = answer[r] /\ heard'[r] = heard[r]
    BY <2>1 DEF ReplayFaithful
  <2>2. CASE rec.state = "completed" /\ rec.hash = body[r] /\ heard'[r] = rec.by
    BY <2>2 DEF Stored
  <2> QED  BY <2>1, <2>2
<1> QED  BY <1>2, <1>3, <1>4

\* complete() or abort() of a request that ends.
LEMMA MapSettle ==
  ASSUME MapInv, NEW r \in Requests, NEW a \in {"own", "lost"}, NEW q \in {r, Nobody},
         pc[r] = "ran", rec' = Settled(r), Return(r, a, q),
         UNCHANGED <<lockOf, request, status, effected, expiries>>
  PROVE  MapInv'
<1> USE DEF MapInv, Return, Released, request
<1>1. CASE status[r] = "5xx"
  <2>1. rec' = NoRecord  BY <1>1 DEF Settled
  <2>2. TypeOK'
    BY <2>1, IdempotencyAssumption
       DEF NoRecord, TypeOK, Places, Guarded, Executing, AnyRequest
  <2>3. rec'.state # "completed"  BY <2>1 DEF NoRecord
  <2>4. \A x \in Requests :
            /\ pc[x] = "done" => pc'[x] = "done" /\ status'[x] = status[x]
            /\ pc'[x] = "ran" => status'[x] # "none"
            /\ answer'[x] = "replay" => answer'[x] = answer[x] /\ heard'[x] = heard[x]
    BY DEF TypeOK, Settles
  <2> QED  BY <2>2, <2>3, <2>4, MapQuiet
<1>2. CASE status[r] # "5xx"
  <2>1. rec' = [state |-> "completed", hash |-> body[r], by |-> r, expired |-> FALSE]
    BY <1>2 DEF Settled, Completed
  <2>2. status[r] \in {"2xx", "4xx"}
    BY <1>2 DEF TypeOK, Settles
  <2>3. TypeOK'
    BY <2>1, IdempotencyAssumption DEF TypeOK, Places, Guarded, Executing, AnyRequest
  <2>4. /\ pc'[r] = "done"
        /\ \A x \in Requests : x # r => /\ pc'[x] = pc[x] /\ answer'[x] = answer[x]
                                        /\ heard'[x] = heard[x]
        /\ answer'[r] # "replay"
    BY DEF TypeOK
  <2>5. Stored' /\ Settles'
    BY <2>1, <2>2, <2>4 DEF Stored, Settles
  <2>6. ReplayFaithful'
    BY <2>4 DEF ReplayFaithful
  <2> QED  BY <2>3, <2>5, <2>6
<1> QED  BY <1>1, <1>2

LEMMA MapServe ==
  ASSUME MapInv, NEW r \in Requests, Arrive(r) \/ Serve(r) \/ Cancel(r)
  PROVE  MapInv'
<1> USE DEF MapInv, request
<1>1. CASE Arrive(r)
  <2>1. TypeOK'
    <3>1. CASE FastPath(r)
      BY <1>1, <3>1, IdempotencyAssumption
         DEF Arrive, FastPath, Return, Released, TypeOK, Places, Guarded, Executing, AnyRequest
    <3>2. CASE ~FastPath(r)
      BY <1>1, <3>2, IdempotencyAssumption
         DEF Arrive, TypeOK, Places, Guarded, Executing, AnyRequest
    <3> QED  BY <3>1, <3>2
  <2> QED
    BY <1>1, <2>1, MapQuiet DEF Arrive, FastPath, Return, TypeOK, Settles
<1>2. CASE Lock(r)
  <2>1. TypeOK'
    BY <1>2 DEF Lock, Goto, TypeOK, Places, Guarded, Executing, AnyRequest
  <2> QED  BY <1>2, <2>1, MapQuiet DEF Lock, Goto, TypeOK, Settles
<1>3. CASE MapLookup(r) \/ ClaimLookup(r)
  <2>1. TypeOK'
    BY <1>3, IdempotencyAssumption
       DEF MapLookup, ClaimLookup, Inspected, Goto, Return, Released, TypeOK, Places, Guarded,
           Executing, AnyRequest
  <2>2. rec.state \in {"absent", "in_progress", "completed"}  BY DEF TypeOK
  <2> QED
    BY <1>3, <2>1, <2>2, MapQuiet
       DEF MapLookup, ClaimLookup, Inspected, Goto, Return, TypeOK, Settles
<1>4. CASE MapInsert(r)
  <2>1. TypeOK'
    BY <1>4, IdempotencyAssumption
       DEF MapInsert, InProgress, Goto, TypeOK, Places, Guarded, Executing, AnyRequest
  <2>2. rec'.state # "completed"  BY <1>4 DEF MapInsert, InProgress
  <2>3. UNCHANGED <<store, body>>  BY <1>4 DEF MapInsert
  <2>4. \A x \in Requests :
            /\ pc[x] = "done" => pc'[x] = "done" /\ status'[x] = status[x]
            /\ pc'[x] = "ran" => status'[x] # "none"
            /\ answer'[x] = "replay" => answer'[x] = answer[x] /\ heard'[x] = heard[x]
    BY <1>4 DEF MapInsert, Goto, TypeOK, Settles
  <2> QED  BY <2>1, <2>2, <2>3, <2>4, MapQuiet
<1>5. CASE ClaimReclaim(r)
  <2>1. TypeOK'
    <3>1. CASE rec' = Reclaimed(body[r]) /\ Goto(r, "running")
      <4>1. rec' = InProgress(body[r])  BY <3>1 DEF Reclaimed
      <4> QED
        BY <1>5, <3>1, <4>1, IdempotencyAssumption
           DEF ClaimReclaim, InProgress, Goto, TypeOK, Places, Guarded, Executing, AnyRequest
    <3>2. CASE UNCHANGED rec /\ Return(r, "409", Nobody)
      BY <1>5, <3>2, IdempotencyAssumption
         DEF ClaimReclaim, Return, Released, TypeOK, Places, Guarded, Executing, AnyRequest
    <3> QED  BY <1>5, <3>1, <3>2 DEF ClaimReclaim
  <2> QED
    BY <1>5, <2>1, MapQuiet
       DEF ClaimReclaim, Reclaimed, InProgress, Goto, Return, TypeOK, Settles
<1>6. CASE HandlerCommits(r) \/ HandlerRefuses(r)
  <2>1. TypeOK'
    BY <1>6 DEF HandlerCommits, HandlerRefuses, Commits, Goto, TypeOK, Places, Guarded,
                Executing, AnyRequest
  <2> QED
    BY <1>6, <2>1, MapQuiet
       DEF HandlerCommits, HandlerRefuses, Commits, Goto, TypeOK, Settles
<1>7. CASE Finish(r)
  <2>1. CASE rec' = Settled(r)
    BY <1>7, <2>1, MapSettle DEF Finish
  <2>2. CASE rec' = rec
    <3>1. TypeOK'
      BY <1>7, <2>2, IdempotencyAssumption
         DEF Finish, Return, Released, TypeOK, Places, Guarded, Executing, AnyRequest
    <3> QED  BY <1>7, <2>2, <3>1, MapQuiet DEF Finish, Return, TypeOK, Settles
  <2> QED  BY <1>7, <2>1, <2>2 DEF Finish
<1>8. CASE Cancel(r)
  <2>1. CASE pc[r] = "ran" /\ rec' = Settled(r) /\ UNCHANGED effected
    BY <1>8, <2>1, MapSettle DEF Cancel
  <2>2. CASE UNCHANGED rec /\ effected' \subseteq Requests
    <3>1. TypeOK'
      BY <1>8, <2>2, IdempotencyAssumption
         DEF Cancel, Return, Released, TypeOK, Places, Guarded, Executing, AnyRequest
    <3> QED  BY <1>8, <2>2, <3>1, MapQuiet DEF Cancel, Return, TypeOK, Settles
  <2> QED  BY <1>8, <2>1, <2>2 DEF Cancel, ClaimUnheard, Commits, TypeOK
<1> QED
  BY <1>1, <1>2, <1>3, <1>4, <1>5, <1>6, <1>7, <1>8
     DEF Serve, ClaimInsert, StoreUnavailable

LEMMA MapStep == MapInv /\ [Next]_vars => MapInv'
<1> SUFFICES ASSUME MapInv, [Next]_vars PROVE MapInv'
  OBVIOUS
<1> USE DEF MapInv, request
<1>1. CASE Expire
  <2>1. TypeOK'  BY <1>1, ExpireTyped
  <2> QED  BY <1>1, <2>1, MapQuiet DEF Expire, Settles
<1>2. CASE SweepRecords
  <2>1. TypeOK'  BY <1>2, IdempotencyAssumption DEF SweepRecords, NoRecord, TypeOK, AnyRequest
  <2> QED  BY <1>2, <2>1, MapQuiet DEF SweepRecords, NoRecord, Settles
<1>3. CASE (\E p \in Replicas : SweepLocks(p)) \/ UNCHANGED vars
  <2>1. TypeOK'  BY <1>3 DEF SweepLocks, vars, TypeOK, AnyRequest
  <2> QED  BY <1>3, <2>1, MapQuiet DEF SweepLocks, vars, Settles
<1> QED  BY <1>1, <1>2, <1>3, MapServe DEF Next

(* In the memory of one process a completed record is the response of a request
   that has ended, and so is what was replayed, although two requests may execute
   the key at a time: the map of claim() and complete(). *)
THEOREM MapInvHolds == ~Pooled /\ Spec => []MapInv
  BY MapInit, MapStep, PTL DEF Spec

-----------------------------------------------------------------------------
(* Two replicas never execute the same key concurrently: claim(). *)
THEOREM ExclusiveExecutionHolds == Pooled /\ Spec => []ExclusiveExecution
<1>1. IdemInv => ExclusiveExecution  BY DEF IdemInv
<1> QED  BY <1>1, IdemInvHolds, PTL

(* A mutation that was not answered 5xx is not repeated before its record
   expires, whatever is cancelled, fails to store or is swept; the property
   speaks of the PostgreSQL store. *)
THEOREM OneEffectPerWindowHolds == Spec => []OneEffectPerWindow
<1>1. IdemInv => OneEffectPerWindow  BY DEF IdemInv
<1>2. MapInv => OneEffectPerWindow  BY DEF MapInv, OneEffectPerWindow
<1> HIDE DEF Pooled
<1> QED  BY <1>1, <1>2, IdemInvHolds, MapInvHolds, PTL

(* With handlers that leave the record to the middleware, every replay is the
   response to a request with the same body, from either store. *)
THEOREM ReplayFaithfulHolds ==
  ASSUME ~TxCompletes PROVE Spec => []ReplayFaithful
<1>1. IdemInv => ReplayFaithful  BY DEF IdemInv
<1>2. MapInv => ReplayFaithful  BY DEF MapInv
<1> HIDE DEF Pooled
<1> QED  BY <1>1, <1>2, IdemInvHolds, MapInvHolds, PTL

(* With such handlers no step but the expiry touches a completed record. *)
LEMMA CompletedStep ==
  ASSUME IdemInv, ~TxCompletes, [Next]_vars, rec.state = "completed", ~rec.expired
  PROVE  rec' \in {rec, [rec EXCEPT !.expired = TRUE]}
<1>1. \A r \in Requests : pc[r] \notin Executing
  BY DEF IdemInv, HoldsClaim
<1>2. ASSUME NEW r \in Requests, Arrive(r) \/ Serve(r) \/ Cancel(r)
      PROVE  rec' = rec
  BY <1>1, <1>2
     DEF IdemInv, Arrive, Serve, Cancel, Lock, ClaimInsert, ClaimLookup, ClaimReclaim,
         ClaimUnheard, Lapsed, StoreUnavailable, MapLookup, MapInsert, HandlerCommits,
         HandlerRefuses, Finish, Executing
<1>3. CASE Expire  BY <1>3 DEF Expire
<1>4. CASE SweepRecords  BY <1>4 DEF SweepRecords, Swept
<1>5. CASE (\E p \in Replicas : SweepLocks(p)) \/ UNCHANGED vars
  BY <1>5 DEF SweepLocks, vars
<1> QED  BY <1>2, <1>3, <1>4, <1>5 DEF Next

(* A completed record answers every retry the same way until it expires:
   complete(), abort() and the sweeps leave it alone. *)
THEOREM CompletedStaysHolds ==
  ASSUME ~TxCompletes PROVE Spec => CompletedStays
<1>1. IdemInv /\ [Next]_vars
        => [Pooled /\ rec.state = "completed" /\ ~rec.expired
              => rec' \in {rec, [rec EXCEPT !.expired = TRUE]}]_vars
  BY CompletedStep
<1>2. MapInv /\ [Next]_vars
        => [Pooled /\ rec.state = "completed" /\ ~rec.expired
              => rec' \in {rec, [rec EXCEPT !.expired = TRUE]}]_vars
  BY DEF MapInv
<1> HIDE DEF Pooled
<1> QED  BY <1>1, <1>2, IdemInvHolds, MapInvHolds, PTL DEF Spec, CompletedStays

-----------------------------------------------------------------------------
(* The refinement of KeyedExecution, for handlers that leave the record to the
   middleware. *)

AbsKey == IF ~Live THEN "free" ELSE IF rec.state = "completed" THEN "done" ELSE "held"
AbsBy == IF Live THEN rec.by ELSE Nobody
AbsAnswer == [r \in Requests |->
                 IF answer[r] \in {"409", "422", "503"} THEN "refused" ELSE answer[r]]
AbsPhase == [r \in Requests |-> IF pc[r] \in Executing \union {"done"} THEN pc[r] ELSE "asked"]

LEMMA InitRefines == Init => Keyed!Init
<1> SUFFICES ASSUME Init PROVE Keyed!Init
  OBVIOUS
<1>1. ~Live
  <2>1. CASE rec = NoRecord  BY <2>1 DEF NoRecord, Live
  <2>2. ASSUME NEW b \in Bodies, rec = [InProgress(b) EXCEPT !.expired = TRUE]
        PROVE  ~Live
    <3>1. rec.expired  BY <2>2 DEF InProgress
    <3> QED  BY <3>1 DEF Live
  <2> QED  BY <2>1, <2>2 DEF Init
<1>2. AbsAnswer = [r \in Requests |-> "none"] /\ AbsPhase = [r \in Requests |-> "asked"]
  BY DEF Init, AbsAnswer, AbsPhase, Executing
<1> QED  BY <1>1, <1>2 DEF Init, Keyed!Init, AbsAnswer, AbsPhase

LEMMA StutterRefines ==
  ASSUME UNCHANGED <<AbsKey, AbsBy, AbsAnswer, AbsPhase, status, heard, effected>>
  PROVE  [Keyed!Next]_(Keyed!vars)
  BY DEF AbsKey, AbsBy, AbsAnswer, AbsPhase, Keyed!vars, Keyed!answers

\* What an answer is in the abstraction.
LEMMA ReturnMaps ==
  ASSUME TypeOK, NEW r \in Requests, NEW a, NEW q, Return(r, a, q)
  PROVE  /\ AbsPhase' = [AbsPhase EXCEPT ![r] = "done"]
         /\ AbsAnswer' = [AbsAnswer EXCEPT ![r] =
                             IF a \in {"409", "422", "503"} THEN "refused" ELSE a]
         /\ heard' = [heard EXCEPT ![r] = q]
<1>1. AbsPhase' = [AbsPhase EXCEPT ![r] = "done"]
  BY DEF Return, AbsPhase, TypeOK
<1>2. AbsAnswer' = [AbsAnswer EXCEPT ![r] =
                      IF a \in {"409", "422", "503"} THEN "refused" ELSE a]
  BY DEF Return, AbsAnswer, TypeOK
<1> QED  BY <1>1, <1>2 DEF Return

LEMMA GotoMaps ==
  ASSUME TypeOK, NEW r \in Requests, NEW p, Goto(r, p)
  PROVE  /\ AbsPhase' = [AbsPhase EXCEPT ![r] =
                            IF p \in Executing \union {"done"} THEN p ELSE "asked"]
         /\ UNCHANGED <<AbsAnswer, heard>>
<1>1. AbsPhase' = [AbsPhase EXCEPT ![r] =
                     IF p \in Executing \union {"done"} THEN p ELSE "asked"]
  BY DEF Goto, AbsPhase, TypeOK
<1> QED  BY <1>1 DEF Goto, AbsAnswer

\* The record is untouched, so are its images.
LEMMA RecKept ==
  ASSUME UNCHANGED rec PROVE UNCHANGED <<AbsKey, AbsBy>>
  BY DEF AbsKey, AbsBy, Live

\* A request that has not begun, seen from the abstraction.
LEMMA AskedPhase ==
  ASSUME NEW r \in Requests, pc[r] \notin Executing \union {"done"}
  PROVE  AbsPhase[r] = "asked"
  BY DEF AbsPhase

\* Steps before the handler that answer nobody.
LEMMA WaitRefines ==
  ASSUME TypeOK, NEW r \in Requests, NEW p, Goto(r, p),
         p \notin Executing \union {"done"}, pc[r] \notin Executing \union {"done"},
         UNCHANGED <<rec, status, effected>>
  PROVE  [Keyed!Next]_(Keyed!vars)
<1>1. AbsPhase' = [AbsPhase EXCEPT ![r] = "asked"] /\ UNCHANGED <<AbsAnswer, heard>>
  BY GotoMaps
<1>2. AbsPhase' = AbsPhase  BY <1>1, AskedPhase DEF AbsPhase
<1> QED  BY <1>1, <1>2, RecKept, StutterRefines

\* A claim that was not heard of takes a free key, or leaves it.
LEMMA UnheardMaps ==
  ASSUME NEW r \in Requests, ClaimUnheard(r)
  PROVE  /\ AbsKey' \in {AbsKey} \union (IF AbsKey = "free" THEN {"held"} ELSE {})
         /\ AbsBy' = AbsBy
<1>1. CASE rec' = rec  BY <1>1, RecKept
<1>2. CASE rec' # rec
  <2>1. ~Live /\ rec' = InProgress(body[r])  BY <1>2 DEF ClaimUnheard, Lapsed, Live
  <2>2. rec'.state = "in_progress" /\ rec'.by = Nobody /\ ~rec'.expired
    BY <2>1 DEF InProgress
  <2>3. AbsKey = "free" /\ AbsKey' = "held"  BY <2>1, <2>2 DEF AbsKey, Live
  <2>4. AbsBy' = AbsBy  BY <2>1, <2>2 DEF AbsBy, Live
  <2> QED  BY <2>3, <2>4
<1> QED  BY <1>1, <1>2

\* 409, 422 and 503.
LEMMA RefusalRefines ==
  ASSUME TypeOK, NEW r \in Requests, NEW a \in {"409", "422", "503"}, Return(r, a, Nobody),
         pc[r] \notin Executing \union {"done"}, ClaimUnheard(r),
         UNCHANGED <<status, effected>>
  PROVE  [Keyed!Next]_(Keyed!vars)
<1>1. AbsPhase[r] = "asked"  BY AskedPhase
<1>2. /\ AbsPhase' = [AbsPhase EXCEPT ![r] = "done"]
      /\ AbsAnswer' = [AbsAnswer EXCEPT ![r] = "refused"]
      /\ heard' = [heard EXCEPT ![r] = Nobody]
  BY ReturnMaps
<1>3. Keyed!Refuse(r)
  BY <1>1, <1>2, UnheardMaps
     DEF Keyed!Refuse, Keyed!Return, Keyed!ClaimUnheard, AbsPhase, AbsAnswer, AbsKey, AbsBy
<1> QED  BY <1>3 DEF Keyed!Next, Keyed!Step

\* A claim on a key that is free.
LEMMA BeginRefines ==
  ASSUME TypeOK, NEW r \in Requests, Goto(r, "running"), ~Live, rec' = InProgress(body[r]),
         pc[r] \notin Executing \union {"done"}, UNCHANGED <<status, effected>>
  PROVE  [Keyed!Next]_(Keyed!vars)
<1>1. AbsPhase' = [AbsPhase EXCEPT ![r] = "running"] /\ UNCHANGED <<AbsAnswer, heard>>
  BY GotoMaps DEF Executing
<1>2. AbsKey = "free" /\ AbsKey' = "held" /\ AbsBy' = AbsBy
  BY DEF AbsKey, AbsBy, Live, InProgress
<1>3. Keyed!Begin(r)
  BY <1>1, <1>2, AskedPhase
     DEF Keyed!Begin, Keyed!answers, AbsPhase, AbsAnswer, AbsKey, AbsBy
<1> QED  BY <1>3 DEF Keyed!Next, Keyed!Step

LEMMA ReplayRefines ==
  ASSUME TypeOK, NEW r \in Requests, Return(r, "replay", rec.by), Live,
         rec.state = "completed", pc[r] \notin Executing \union {"done"},
         UNCHANGED <<rec, status, effected>>
  PROVE  [Keyed!Next]_(Keyed!vars)
<1>1. AbsKey = "done" /\ AbsBy = rec.by  BY DEF AbsKey, AbsBy
<1>2. Keyed!Replay(r)
  BY <1>1, ReturnMaps, RecKept, AskedPhase
     DEF Keyed!Replay, Keyed!Return, AbsPhase, AbsAnswer, AbsKey, AbsBy
<1> QED  BY <1>2 DEF Keyed!Next, Keyed!Step

LEMMA ClaimRefines ==
  ASSUME IdemInv, NEW r \in Requests,
         ClaimInsert(r) \/ ClaimLookup(r) \/ ClaimReclaim(r) \/ StoreUnavailable(r)
  PROVE  [Keyed!Next]_(Keyed!vars)
<1> USE DEF Executing
<1>1. TypeOK  BY DEF IdemInv
<1>2. CASE ClaimInsert(r)
  BY <1>1, <1>2, BeginRefines, WaitRefines DEF ClaimInsert, Live
<1>3. CASE ClaimReclaim(r)
  BY <1>1, <1>3, BeginRefines, RefusalRefines
     DEF ClaimReclaim, ClaimUnheard, Lapsed, Reclaimed, Live
<1>4. CASE StoreUnavailable(r)
  BY <1>1, <1>4, RefusalRefines DEF StoreUnavailable
<1>5. CASE ClaimLookup(r)
  <2>1. pc[r] = "lookup" /\ UNCHANGED <<rec, status, effected>>  BY <1>5 DEF ClaimLookup
  <2>2. CASE Goto(r, "reclaim")  BY <1>1, <2>1, <2>2, WaitRefines
  <2>3. CASE Live /\ Inspected(r)
    <3>1. rec.state \in {"in_progress", "completed"}  BY <1>1, <2>3 DEF Live, TypeOK
    <3> QED
      BY <1>1, <2>1, <2>3, <3>1, RefusalRefines, ReplayRefines DEF Inspected, ClaimUnheard
  <2> QED  BY <1>5, <2>2, <2>3 DEF ClaimLookup, Live
<1> QED  BY <1>2, <1>3, <1>4, <1>5

LEMMA HandlerRefines ==
  ASSUME IdemInv, ~TxCompletes, NEW r \in Requests, HandlerCommits(r) \/ HandlerRefuses(r)
  PROVE  [Keyed!Next]_(Keyed!vars)
<1>1. TypeOK /\ pc[r] = "running" /\ UNCHANGED rec /\ Goto(r, "ran")
  BY DEF IdemInv, HandlerCommits, HandlerRefuses, Commits
<1>2. AbsPhase' = [AbsPhase EXCEPT ![r] = "ran"] /\ UNCHANGED <<AbsAnswer, heard, AbsKey, AbsBy>>
  BY <1>1, GotoMaps, RecKept DEF Executing
<1>3. AbsPhase[r] = "running"  BY <1>1 DEF AbsPhase, Executing
<1>4. CASE HandlerCommits(r)
  <2>1. Keyed!HandlerCommits(r)
    BY <1>2, <1>3, <1>4
       DEF HandlerCommits, Commits, Keyed!HandlerCommits, Keyed!answers, AbsPhase,
           AbsAnswer, AbsKey, AbsBy
  <2> QED  BY <2>1 DEF Keyed!Next, Keyed!Step
<1>5. CASE HandlerRefuses(r)
  <2>1. Keyed!HandlerRefuses(r)
    BY <1>2, <1>3, <1>5
       DEF HandlerRefuses, Keyed!HandlerRefuses, Keyed!answers, AbsPhase,
           AbsAnswer, AbsKey, AbsBy
  <2> QED  BY <2>1 DEF Keyed!Next, Keyed!Step
<1> QED  BY <1>4, <1>5

\* The handler's answer is stored, frees the key, or leaves the claim.
LEMMA SettleRefines ==
  ASSUME IdemInv, ~TxCompletes, NEW r \in Requests, pc[r] = "ran",
         rec' \in {Settled(r), rec}, Return(r, "own", r) \/ Return(r, "lost", Nobody),
         UNCHANGED <<status, effected>>
  PROVE  [Keyed!Next]_(Keyed!vars)
<1>1. TypeOK /\ Live /\ rec.state = "in_progress"
  <2>1. pc[r] \in Executing  BY DEF Executing
  <2> QED  BY <2>1 DEF IdemInv, HoldsClaim, Live, TypeOK
<1>2. \/ status[r] = "5xx" /\ AbsKey' = "free" /\ AbsBy' = Nobody
      \/ status[r] # "5xx" /\ AbsKey' = "done" /\ AbsBy' = r
      \/ UNCHANGED <<AbsKey, AbsBy>>
  <2>1. CASE rec' = rec  BY <2>1, RecKept
  <2>2. CASE rec' = Settled(r) /\ status[r] = "5xx"
    <3>1. rec'.state = "absent"  BY <2>2 DEF Settled, NoRecord
    <3>2. ~Live'  BY <3>1 DEF Live
    <3> QED  BY <2>2, <3>2 DEF AbsKey, AbsBy
  <2>3. CASE rec' = Settled(r) /\ status[r] # "5xx"
    <3>1. rec' = [rec EXCEPT !.state = "completed", !.by = r]
      BY <1>1, <2>3 DEF Settled, Completed, IdemInv
    <3>2. rec'.state = "completed" /\ rec'.by = r /\ ~rec'.expired
      BY <1>1, <3>1 DEF TypeOK, Live
    <3> QED  BY <2>3, <3>2 DEF AbsKey, AbsBy, Live
  <2> QED  BY <2>1, <2>2, <2>3
<1>3. AbsPhase[r] = "ran"  BY DEF AbsPhase, Executing
<1>4. /\ AbsPhase' = [AbsPhase EXCEPT ![r] = "done"]
      /\ \/ /\ AbsAnswer' = [AbsAnswer EXCEPT ![r] = "own"]
            /\ heard' = [heard EXCEPT ![r] = r]
         \/ /\ AbsAnswer' = [AbsAnswer EXCEPT ![r] = "lost"]
            /\ heard' = [heard EXCEPT ![r] = Nobody]
  BY <1>1, ReturnMaps
<1>5. Keyed!End(r)
  BY <1>2, <1>3, <1>4
     DEF Keyed!End, Keyed!Return, AbsPhase, AbsAnswer, AbsKey, AbsBy
<1> QED  BY <1>5 DEF Keyed!Next, Keyed!Step

LEMMA CancelRefines ==
  ASSUME IdemInv, ~TxCompletes, NEW r \in Requests, Cancel(r)
  PROVE  [Keyed!Next]_(Keyed!vars)
<1>1. TypeOK /\ Return(r, "lost", Nobody) /\ UNCHANGED status
  BY DEF IdemInv, Cancel
<1>2. CASE pc[r] = "ran"
  BY <1>1, <1>2, SettleRefines DEF Cancel, ClaimUnheard
<1>3. CASE pc[r] # "ran"
  <2>1. \/ pc[r] # "running" /\ ClaimUnheard(r) /\ UNCHANGED effected
        \/ pc[r] = "running" /\ UNCHANGED rec /\ effected' \in {effected, effected \union {r}}
    BY <1>3 DEF Cancel, ClaimUnheard, Commits
  <2>2. AbsPhase[r] = IF pc[r] = "running" THEN "running" ELSE "asked"
    BY <1>3 DEF Cancel, AbsPhase, Guarded, Executing
  <2>3. /\ AbsPhase' = [AbsPhase EXCEPT ![r] = "done"]
        /\ AbsAnswer' = [AbsAnswer EXCEPT ![r] = "lost"]
        /\ heard' = [heard EXCEPT ![r] = Nobody]
    BY <1>1, ReturnMaps
  <2>4. AbsBy' = AbsBy  BY <2>1, RecKept, UnheardMaps
  <2>5. Keyed!Return(r, "lost", Nobody)
    BY <2>3 DEF Keyed!Return, AbsPhase, AbsAnswer
  <2>6. CASE pc[r] # "running"
    <3>1. AbsKey' \in {AbsKey} \union (IF AbsKey = "free" THEN {"held"} ELSE {})
      BY <2>1, <2>6, UnheardMaps
    <3>2. AbsPhase[r] = "asked" /\ UNCHANGED effected  BY <2>1, <2>2, <2>6
    <3>3. Keyed!Lose(r)
      BY <1>1, <2>4, <2>5, <3>1, <3>2
         DEF Keyed!Lose, Keyed!ClaimUnheard, AbsPhase, AbsKey, AbsBy
    <3> QED  BY <3>3 DEF Keyed!Next, Keyed!Step
  <2>7. CASE pc[r] = "running"
    <3>1. AbsPhase[r] = "running" /\ AbsKey' = AbsKey  BY <2>1, <2>2, <2>7, RecKept
    <3>2. effected' \in {effected, effected \union {r}}  BY <2>1, <2>7
    <3>3. Keyed!Lose(r)
      BY <1>1, <2>4, <2>5, <3>1, <3>2 DEF Keyed!Lose, AbsPhase, AbsKey, AbsBy
    <3> QED  BY <3>3 DEF Keyed!Next, Keyed!Step
  <2> QED  BY <2>6, <2>7
<1> QED  BY <1>2, <1>3

LEMMA ExpireRefines == ASSUME IdemInv, Expire PROVE [Keyed!Next]_(Keyed!vars)
<1>1. AbsKey # "free" /\ AbsKey' = "free" /\ AbsBy' = Nobody
  <2>1. Live  BY DEF Expire, Live
  <2>2. rec'.expired  BY DEF Expire, IdemInv, TypeOK
  <2>3. ~Live'  BY <2>2 DEF Live
  <2> QED  BY <2>1, <2>3 DEF AbsKey, AbsBy
<1>2. \A r \in Requests : AbsPhase[r] \notin {"running", "ran"}
  BY DEF Expire, AbsPhase, Executing
<1>3. UNCHANGED <<AbsPhase, AbsAnswer, status, heard>> /\ effected' = {}
  BY DEF Expire, AbsPhase, AbsAnswer
<1>4. Keyed!Lapse
  BY <1>1, <1>2, <1>3 DEF Keyed!Lapse, Keyed!answers, AbsPhase, AbsAnswer, AbsKey, AbsBy
<1> QED  BY <1>4 DEF Keyed!Next

LEMMA StepRefines ==
  ASSUME ~TxCompletes PROVE IdemInv /\ [Next]_vars => [Keyed!Next]_(Keyed!vars)
<1> SUFFICES ASSUME IdemInv, [Next]_vars PROVE [Keyed!Next]_(Keyed!vars)
  OBVIOUS
<1>1. TypeOK /\ Pooled  BY DEF IdemInv
<1>2. ASSUME NEW r \in Requests, Arrive(r) PROVE [Keyed!Next]_(Keyed!vars)
  <2>1. /\ pc[r] = "idle" /\ pc' = [pc EXCEPT ![r] = "waiting"]
        /\ UNCHANGED <<rec, status, effected, answer, heard>>
    BY <1>1, <1>2 DEF Arrive, FastPath
  <2>2. AbsPhase' = AbsPhase /\ AbsAnswer' = AbsAnswer
    BY <1>1, <2>1 DEF AbsPhase, AbsAnswer, Executing, TypeOK
  <2> QED  BY <2>1, <2>2, RecKept, StutterRefines
<1>3. ASSUME NEW r \in Requests, Serve(r) PROVE [Keyed!Next]_(Keyed!vars)
  <2>1. CASE Lock(r)  BY <1>1, <2>1, WaitRefines DEF Lock, Executing
  <2>2. CASE Finish(r)  BY <2>2, SettleRefines DEF Finish
  <2> QED
    BY <1>1, <1>3, <2>1, <2>2, ClaimRefines, HandlerRefines DEF Serve, MapLookup, MapInsert
<1>4. CASE SweepRecords
  <2>1. ~Live  BY <1>4 DEF SweepRecords, Swept, Live
  <2>2. ~Live'  BY <1>4 DEF SweepRecords, NoRecord, Live
  <2>3. UNCHANGED <<AbsPhase, AbsAnswer, status, heard, effected>>
    BY <1>4 DEF SweepRecords, AbsPhase, AbsAnswer
  <2> QED  BY <2>1, <2>2, <2>3, StutterRefines DEF AbsKey, AbsBy
<1>5. CASE (\E p \in Replicas : SweepLocks(p)) \/ UNCHANGED vars
  <2>1. UNCHANGED <<rec, pc, answer, status, heard, effected>>
    BY <1>5 DEF SweepLocks, vars
  <2> QED  BY <2>1, RecKept, StutterRefines DEF AbsPhase, AbsAnswer
<1> QED  BY <1>2, <1>3, <1>4, <1>5, CancelRefines, ExpireRefines DEF Next

\* The store is chosen once.
LEMMA StoreStays == [Next]_vars => store' = store
  BY DEF Next, Serve, vars, request, Arrive, Lock, ClaimInsert, ClaimLookup, ClaimReclaim,
         StoreUnavailable, MapLookup, MapInsert, HandlerCommits, HandlerRefuses, Finish,
         Cancel, Expire, SweepRecords, SweepLocks

(* With the PostgreSQL store and handlers that leave the record to it, the
   middleware implements the execution of a key that its clients rely on. *)
THEOREM PromisedHolds == ASSUME ~TxCompletes PROVE Spec => Promised
<1>1. IdemInv /\ [Next]_vars => [Pooled => [Keyed!Next]_(Keyed!vars)]_vars
  BY StepRefines
<1>2. ~Pooled /\ [Next]_vars => (~Pooled)' /\ [Pooled => [Keyed!Next]_(Keyed!vars)]_vars
  BY StoreStays
<1>3. Init => (Pooled => Keyed!Init)  BY InitRefines
<1> HIDE DEF Pooled
<1> QED  BY <1>1, <1>2, <1>3, IdemInvHolds, PTL DEF Spec, Promised
=============================================================================
