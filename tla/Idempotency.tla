----------------------------- MODULE Idempotency -----------------------------
(***************************************************************************)
(* The Idempotency-Key middleware (sensei-api/src/middleware/              *)
(* idempotency.rs) for one cache key: requests that carry the key reach    *)
(* replicas, queue on the replica's per-key mutex, claim the record, run   *)
(* the handler and complete or abort the claim.  Each SQL statement is one *)
(* step.  A cache key is a hash scoped by tenant, user, method and path,   *)
(* so keys are independent and one is modelled.                            *)
(*                                                                         *)
(* A behaviour keeps its records in PostgreSQL or in the memory of a single *)
(* process; TxCompletes tells the finance handlers, which complete the     *)
(* record inside their business transaction                                *)
(* (sensei-services/src/finance/database.rs), from the others.             *)
(***************************************************************************)
EXTENDS Naturals

CONSTANTS
    Requests,       \* HTTP requests with the key; a client's retry is another one
    Replicas,       \* API processes
    Bodies,         \* request bodies, compared through request_hash
    Nobody,         \* no request
    Stores,         \* "postgres": idempotency_records; "memory": the DashMap
    TxCompletes,    \* TRUE: the handler calls complete_if_idempotent()
    MaxExpiries     \* bound on TTL windows that end

ASSUME IdempotencyAssumption ==
    /\ Nobody \notin Requests \union Bodies
    /\ Stores \subseteq {"postgres", "memory"} /\ TxCompletes \in BOOLEAN
    /\ MaxExpiries \in Nat

VARIABLES
    store,      \* where records are kept
    rec,        \* the record of the key
    lockOf,     \* replica -> mutex in its map, named after its creator
    pc, at, body, mutex,    \* request: place, replica, body, mutex it waits for or holds
    status,     \* status class of the handler's response
    answer, heard,          \* what the client got, and whose response it was
    effected,   \* requests whose mutation committed in this TTL window
    expiries

vars ==
    <<store, rec, lockOf, pc, at, body, mutex, status, answer, heard, effected, expiries>>
request == <<store, at, body>>

Pooled == store = "postgres"


Executing == {"running", "ran"}
Guarded == {"locked", "lookup", "reclaim", "insert"} \union Executing
Places == {"idle", "waiting", "done"} \union Guarded
AnyRequest == Requests \union {Nobody}

NoRecord == [state |-> "absent", hash |-> Nobody, by |-> Nobody, expired |-> FALSE]
InProgress(b) == [state |-> "in_progress", hash |-> b, by |-> Nobody, expired |-> FALSE]

TypeOK ==
    /\ store \in Stores
    /\ rec \in [state : {"absent", "in_progress", "completed"},
                hash : Bodies \union {Nobody}, by : AnyRequest, expired : BOOLEAN]
    /\ rec.state = "absent" <=> rec.hash = Nobody
    /\ lockOf \in [Replicas -> AnyRequest]
    /\ pc \in [Requests -> Places]
    /\ at \in [Requests -> Replicas] /\ body \in [Requests -> Bodies]
    /\ mutex \in [Requests -> AnyRequest]
    /\ \A r \in Requests : mutex[r] # Nobody <=> pc[r] \in Guarded \union {"waiting"}
    /\ status \in [Requests -> {"none", "2xx", "4xx", "5xx"}]
    /\ answer \in [Requests -> {"none", "own", "replay", "422", "409", "503", "lost"}]
    /\ heard \in [Requests -> AnyRequest]
    /\ effected \in SUBSET Requests
    /\ expiries \in 0..MaxExpiries

\* An earlier request may have left a claim, now expired.
Init ==
    /\ store \in Stores
    /\ rec \in {NoRecord} \union {[InProgress(b) EXCEPT !.expired = TRUE] : b \in Bodies}
    /\ lockOf = [p \in Replicas |-> Nobody]
    /\ pc = [r \in Requests |-> "idle"]
    /\ at \in [Requests -> Replicas]
    /\ ~Pooled => ~TxCompletes /\ \A r, q \in Requests : at[r] = at[q]
    /\ body \in [Requests -> Bodies]
    /\ mutex = [r \in Requests |-> Nobody]
    /\ status = [r \in Requests |-> "none"]
    /\ answer = [r \in Requests |-> "none"]
    /\ heard = [r \in Requests |-> Nobody]
    /\ effected = {}
    /\ expiries = 0

-----------------------------------------------------------------------------
Goto(r, p) == pc' = [pc EXCEPT ![r] = p] /\ UNCHANGED <<mutex, answer, heard>>

\* The guard is dropped with the request.  (Mutation: not when the
\* request is cancelled, as a lock without a guard would.)
ReleasedUnlessLost(r, a) == IF a = "lost" THEN mutex ELSE [mutex EXCEPT ![r] = Nobody]
Released(r, a) == [mutex EXCEPT ![r] = Nobody]

\* The request ends; the client gets a, the response of q.
Return(r, a, q) ==
    /\ pc' = [pc EXCEPT ![r] = "done"]
    /\ mutex' = Released(r, a)
    /\ answer' = [answer EXCEPT ![r] = a]
    /\ heard' = [heard EXCEPT ![r] = q]

\* A record that answers the request: replay it, or refuse.
Inspected(r) ==
    IF rec.state = "in_progress" THEN Return(r, "409", Nobody)
    ELSE IF rec.hash # body[r] THEN Return(r, "422", Nobody)
    ELSE Return(r, "replay", rec.by)

\* The in-memory store is read before the mutex.  (Mutation: for any body.)
FastPathAnyBody(r) == ~Pooled /\ rec.state = "completed" /\ ~rec.expired
FastPath(r) ==
    ~Pooled /\ rec.state = "completed" /\ ~rec.expired /\ rec.hash = body[r]

\* lock_for(): the mutex of the map, or a new one.
Arrive(r) ==
    LET lock == IF lockOf[at[r]] = Nobody THEN r ELSE lockOf[at[r]] IN
    /\ pc[r] = "idle"
    /\ IF FastPath(r)
       THEN Return(r, "replay", rec.by) /\ UNCHANGED lockOf
       ELSE /\ lockOf' = [lockOf EXCEPT ![at[r]] = lock]
            /\ mutex' = [mutex EXCEPT ![r] = lock]
            /\ pc' = [pc EXCEPT ![r] = "waiting"]
            /\ UNCHANGED <<answer, heard>>
    /\ UNCHANGED <<rec, request, status, effected, expiries>>

Free(m) == \A q \in Requests : mutex[q] = m => pc[q] = "waiting"

Lock(r) ==
    /\ pc[r] = "waiting"
    /\ Free(mutex[r])
    /\ Goto(r, "locked")
    /\ UNCHANGED <<rec, lockOf, request, status, effected, expiries>>

\* claim(): INSERT .. ON CONFLICT DO NOTHING.
ClaimInsert(r) ==
    /\ Pooled /\ pc[r] = "locked"
    /\ IF rec.state = "absent"
       THEN rec' = InProgress(body[r]) /\ Goto(r, "running")
       ELSE UNCHANGED rec /\ Goto(r, "lookup")
    /\ UNCHANGED <<lockOf, request, status, effected, expiries>>

\* SELECT .. WHERE expires_at > NOW().
ClaimLookup(r) ==
    /\ pc[r] = "lookup"
    /\ IF rec.state # "absent" /\ ~rec.expired THEN Inspected(r) ELSE Goto(r, "reclaim")
    /\ UNCHANGED <<rec, lockOf, request, status, effected, expiries>>

\* What the reclaim takes and writes.  (Mutation: it does not look at the
\* expiry.)
LapsedAny == rec.state # "absent"
Lapsed == rec.state # "absent" /\ rec.expired
Reclaimed(b) == InProgress(b)

\* UPDATE .. WHERE expires_at <= NOW().
ClaimReclaim(r) ==
    /\ pc[r] = "reclaim"
    /\ IF Lapsed
       THEN rec' = Reclaimed(body[r]) /\ Goto(r, "running")
       ELSE UNCHANGED rec /\ Return(r, "409", Nobody)
    /\ UNCHANGED <<lockOf, request, status, effected, expiries>>

\* Whether an INSERT or an UPDATE took the claim when its answer is not heard.
ClaimUnheard(r) ==
    \/ UNCHANGED rec
    \/ /\ Pooled
       /\ \/ pc[r] = "locked" /\ rec.state = "absent"
          \/ pc[r] = "reclaim" /\ Lapsed
       /\ rec' = InProgress(body[r])

\* Any of the three statements fails: 503, the handler does not run.  A claim
\* that committed behind a lost connection stays, and nobody aborts it.
StoreUnavailable(r) ==
    /\ Pooled /\ pc[r] \in {"locked", "lookup", "reclaim"}
    /\ Return(r, "503", Nobody)
    /\ ClaimUnheard(r)
    /\ UNCHANGED <<lockOf, request, status, effected, expiries>>

\* The in-memory claim() reads the map, without the TTL, and then inserts.
MapLookup(r) ==
    /\ ~Pooled /\ pc[r] = "locked"
    /\ IF rec.state # "absent" THEN Inspected(r) ELSE Goto(r, "insert")
    /\ UNCHANGED <<rec, lockOf, request, status, effected, expiries>>

MapInsert(r) ==
    /\ ~Pooled /\ pc[r] = "insert"
    /\ rec' = InProgress(body[r])
    /\ Goto(r, "running")
    /\ UNCHANGED <<lockOf, request, status, effected, expiries>>

-----------------------------------------------------------------------------
\* The business transaction commits; a finance handler first refuses a
\* completed key, and completes the record (status 200, no body) with it.
Refused == TxCompletes /\ rec.state = "completed"
Commits(r) ==
    /\ ~Refused
    /\ effected' = effected \union {r}
    /\ IF TxCompletes /\ rec.state # "absent"
       THEN rec' = [rec EXCEPT !.state = "completed", !.by = Nobody]
       ELSE UNCHANGED rec

\* The handler mutates; its answer may still be a 5xx (a lost acknowledgement
\* of the commit, or an error in what follows it).
HandlerCommits(r) ==
    /\ pc[r] = "running"
    /\ Commits(r)
    /\ \E s \in {"2xx", "5xx"} : status' = [status EXCEPT ![r] = s]
    /\ Goto(r, "ran")
    /\ UNCHANGED <<lockOf, request, expiries>>

\* The handler refuses, or rolls back.
HandlerRefuses(r) ==
    /\ pc[r] = "running"
    /\ \E s \in {"4xx", "5xx"} : status' = [status EXCEPT ![r] = s]
    /\ Goto(r, "ran")
    /\ UNCHANGED <<rec, lockOf, request, effected, expiries>>

\* complete(): UPDATE .. WHERE key, or an insert into the map.
Completed(r) ==
    IF Pooled
    THEN IF rec.state = "absent" THEN rec ELSE [rec EXCEPT !.state = "completed", !.by = r]
    ELSE [state |-> "completed", hash |-> body[r], by |-> r, expired |-> FALSE]

\* What becomes of the record: abort() deletes it after a 5xx, whatever its
\* state.
Settled(r) == IF status[r] = "5xx" THEN NoRecord ELSE Completed(r)

\* The record keeps the claim when the statement fails (logged only) and when
\* the response is too large or unreadable.
Finish(r) ==
    /\ pc[r] = "ran"
    /\ rec' \in {Settled(r), rec}
    /\ Return(r, "own", r)
    /\ UNCHANGED <<lockOf, request, status, effected, expiries>>

\* The client goes away, the TimeoutLayer fires or the process dies: the guard
\* is dropped, a claim stays, and a statement already sent may still land.
Cancel(r) ==
    /\ pc[r] \in Guarded \union {"waiting"}
    /\ Return(r, "lost", Nobody)
    /\ \/ ClaimUnheard(r) /\ UNCHANGED effected
       \/ pc[r] = "running" /\ Commits(r)
       \/ pc[r] = "ran" /\ rec' = Settled(r) /\ UNCHANGED effected
    /\ UNCHANGED <<lockOf, request, status, expiries>>

\* The TTL of the record runs out: one hour, far beyond the request timeout,
\* so not while a handler runs.  A new window starts.
Expire ==
    /\ expiries < MaxExpiries
    /\ rec.state # "absent" /\ ~rec.expired
    /\ \A r \in Requests : pc[r] \notin Executing
    /\ rec' = [rec EXCEPT !.expired = TRUE]
    /\ effected' = {}
    /\ expiries' = expiries + 1
    /\ UNCHANGED <<lockOf, pc, request, mutex, status, answer, heard>>

\* What the sweep deletes.  (Mutation: every completed record.)
SweptEager == rec.expired \/ rec.state = "completed"
Swept == rec.expired

SweepRecords ==
    /\ Swept
    /\ rec' = NoRecord
    /\ UNCHANGED <<lockOf, pc, request, mutex, status, answer, heard, effected, expiries>>

\* The sweep keeps the mutexes of keys that are in the in-memory map.
SweepLocks(p) ==
    /\ lockOf[p] # Nobody
    /\ Pooled \/ rec.state = "absent"
    /\ lockOf' = [lockOf EXCEPT ![p] = Nobody]
    /\ UNCHANGED <<rec, pc, request, mutex, status, answer, heard, effected, expiries>>

-----------------------------------------------------------------------------
Serve(r) ==
    \/ Lock(r)
    \/ ClaimInsert(r) \/ ClaimLookup(r) \/ ClaimReclaim(r) \/ StoreUnavailable(r)
    \/ MapLookup(r) \/ MapInsert(r)
    \/ HandlerCommits(r) \/ HandlerRefuses(r) \/ Finish(r)

Next ==
    \/ \E r \in Requests : Arrive(r) \/ Serve(r) \/ Cancel(r)
    \/ Expire \/ SweepRecords
    \/ \E p \in Replicas : SweepLocks(p)

Spec == Init /\ [][Next]_vars

(* A handler ends (the request timeout bounds it) and the runtime goes on
   polling a request whose await is ready; tokio's mutex is FIFO, so a waiter
   whose mutex is released again and again gets it. *)
FairSpec == Spec /\ \A r \in Requests : WF_vars(Serve(r)) /\ SF_vars(Lock(r))

-----------------------------------------------------------------------------
(* One request at a time executes the handler, across replicas, retries,
   cancelled requests and expired claims: "two replicas can never execute the
   same key concurrently" (module documentation, Claim semantics). *)
ExclusiveExecution ==
    \A r, q \in Requests : pc[r] \in Executing /\ pc[q] \in Executing => r = q

(* Within a TTL window the mutation happens at most once, unless the handler
   answered 5xx: cancelled requests, stores that failed and responses that
   were not cached leave a claim that refuses the retries. *)
OneEffectPerWindow ==
    Pooled => \A r, q \in effected : status[r] # "5xx" /\ status[q] # "5xx" => r = q

(* A replayed response is the response of a request that has ended, below 500, for
   a request with the same body: claim() and complete(). *)
ReplayFaithful ==
    \A r \in Requests : answer[r] = "replay" =>
        /\ heard[r] \in Requests /\ pc[heard[r]] = "done"
        /\ body[heard[r]] = body[r] /\ status[heard[r]] \in {"2xx", "4xx"}

\* Who executes holds the claim: the record is there, unexpired, for its body.
HoldsClaim(r) ==
    pc[r] \in Executing =>
        /\ rec.state # "absent" /\ ~rec.expired /\ rec.hash = body[r]
        /\ rec.state = "completed" => TxCompletes

\* The mutations of earlier executions in this window were answered 5xx when
\* the key is free to be claimed, or claimed by r.
OthersFailed(r) == \A q \in effected \ {r} : status[q] = "5xx"
WindowKept ==
    /\ \A r \in effected : pc[r] \in {"ran", "done"}
    /\ rec.state = "absent" \/ rec.expired => OthersFailed(Nobody)
    /\ \A r \in Requests : pc[r] \in Executing => OthersFailed(r)

\* A completed record holds the response of a handler that has ended.
Stored ==
    rec.state = "completed" /\ ~TxCompletes =>
        /\ rec.by \in Requests /\ body[rec.by] = rec.hash
        /\ pc[rec.by] = "done" /\ status[rec.by] \in {"2xx", "4xx"}
Settles == \A r \in Requests : pc[r] = "ran" => status[r] # "none"

(* The inductive invariant of the PostgreSQL store. *)
IdemInv ==
    /\ Pooled /\ TypeOK
    /\ ExclusiveExecution /\ OneEffectPerWindow
    /\ \A r \in Requests : HoldsClaim(r)
    /\ WindowKept /\ Stored /\ Settles
    /\ ~TxCompletes => ReplayFaithful

(* A completed record answers every retry the same way until it expires: no
   late completion, abort or sweep touches it. *)
CompletedStays ==
    [][Pooled /\ rec.state = "completed" /\ ~rec.expired
         => rec' \in {rec, [rec EXCEPT !.expired = TRUE]}]_vars

Live == rec.state # "absent" /\ ~rec.expired
Keyed == INSTANCE KeyedExecution WITH
    key <- IF ~Live THEN "free" ELSE IF rec.state = "completed" THEN "done" ELSE "held",
    by <- IF Live THEN rec.by ELSE Nobody,
    answer <- [r \in Requests |->
                  IF answer[r] \in {"409", "422", "503"} THEN "refused" ELSE answer[r]],
    phase <- [r \in Requests |-> IF pc[r] \in Executing \union {"done"} THEN pc[r] ELSE "asked"]

(* The middleware with the PostgreSQL store is the execution of a key that its
   clients may rely on; the offline queue is checked against that. *)
Promised ==
    /\ Pooled => Keyed!Init
    /\ [][Pooled => [Keyed!Next]_(Keyed!vars)]_vars

(* Every request is answered: no waiter starves on a guard that a conflict,
   a replay, a failure or a cancelled request left behind. *)
RequestsReturn == \A r \in Requests : pc[r] = "waiting" ~> pc[r] = "done"
=============================================================================
