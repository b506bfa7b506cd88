---------------------------- MODULE OfflineSync ----------------------------
(***************************************************************************)
(* One operation of the front end's offline queue (sensei-frontend/src/    *)
(* pwa/sync.rs, stores/sync.rs, api/client.rs) and the server it is        *)
(* replayed to: the operation is a reactive entry, replays overlap, the tab *)
(* reloads, and the requests of a create or an update carry one            *)
(* Idempotency-Key, so the server is KeyedExecution, which Idempotency     *)
(* implements; those of a delete carry none.                               *)
(*                                                                         *)
(* There is no IndexedDB row.  run_migrations() (pwa/indexed_db.rs) creates *)
(* pending-operations without a key path or a key generator, and every put *)
(* of sync.rs goes through put_pending_operation(), which passes no key:   *)
(* IndexedDB refuses each one with a DataError.  queue_operation() hands   *)
(* that error to its caller, persist_operation_update() drops it.          *)
(*                                                                         *)
(* The tab is single-threaded: a step runs from one await to the next.     *)
(***************************************************************************)
EXTENDS Naturals, FiniteSets

CONSTANTS
    Replays,      \* overlapping runs of replay_queue_internal()
    Nobody,
    MaxRetry,     \* MAX_RETRY_COUNT (5)
    MaxSends      \* bound

ASSUME SyncAssumption ==
    /\ MaxRetry \in Nat /\ MaxSends \in Nat
    /\ IsFiniteSet(Replays) /\ Replays # {}

VARIABLES
    op,           \* what the operation is, see Operations
    mem,          \* the reactive entry
    queued,       \* queue_operation() was called
    place, snap, req,   \* replays: where, the snapshot's retry_count, the request
    sends,
    key, by, phase, status, answer, heard, effected    \* the server: KeyedExecution

Requests == 1..MaxSends
K == INSTANCE KeyedExecution

server == <<key, by, phase, status, answer, heard, effected>>
tab == <<mem, queued, place, snap, req>>
syncVars == <<op, tab, sends, server>>

\* looks409: the path bears an entity id that contains "409".
Operations ==
    [keyed : BOOLEAN, onConflict : {"abandoned", "conflict", "retry"}, looks409 : BOOLEAN]
Entry == [status : {"pending", "completed", "failed", "abandoned", "conflict"}, retries : Nat]
Absent == [status |-> "absent", retries |-> 0]
Fresh == [status |-> "pending", retries |-> 0]

SyncTypeOK ==
    /\ op \in Operations
    /\ mem \in Entry \union {Absent}
    /\ queued \in BOOLEAN
    /\ place \in [Replays -> {"idle", "snapped", "waiting", "persisting"}]
    /\ snap \in [Replays -> Nat] /\ req \in [Replays -> 0..MaxSends]
    /\ sends \in 0..MaxSends
    /\ key \in {"free", "held", "done"} /\ by \in Requests \union {Nobody}
    /\ phase \in [Requests -> {"asked", "running", "ran", "done"}]
    /\ status \in [Requests -> {"none", "2xx", "4xx", "5xx"}]
    /\ answer \in [Requests -> {"none", "own", "replay", "refused", "lost"}]
    /\ heard \in [Requests -> Requests \union {Nobody}]
    /\ effected \subseteq Requests

\* FlagForReview is for creates, whose path has no entity id; where a keyed
\* operation cannot look like a conflict, the resolution does not matter.
SyncInit ==
    /\ op \in {o \in Operations :
                  /\ o.onConflict # "conflict"
                  /\ o.looks409 => o.onConflict = "abandoned"
                  /\ o.keyed /\ ~o.looks409 => o.onConflict = "retry"}
    /\ mem = Absent /\ queued = FALSE
    /\ place = [x \in Replays |-> "idle"] /\ snap = [x \in Replays |-> 0]
    /\ req = [x \in Replays |-> 0]
    /\ sends = 0
    /\ K!Init

-----------------------------------------------------------------------------
\* The entry is in the queue and will be replayed, whatever is returned: an
\* error from the put if init() had opened the database, or else Ok.
Queue ==
    /\ ~queued /\ queued' = TRUE
    /\ mem' = Fresh
    /\ UNCHANGED <<op, place, snap, req, sends, server>>

Goto(x, where) == place' = [place EXCEPT ![x] = where]

\* replay_queue_internal() is started (reconnect, init(), replay_queue()):
\* nothing keeps a second one from running beside the first.
Snapshot(x) ==
    /\ place[x] = "idle"
    /\ mem.status = "pending"
    /\ snap' = [snap EXCEPT ![x] = mem.retries]
    /\ Goto(x, "snapped")
    /\ UNCHANGED <<op, mem, queued, req, sends, server>>

\* update_operation_status(), then persist_operation_update(), which opens
\* the database if it finds the entry.
Update(x, e) ==
    IF mem.status = "absent"
    THEN Goto(x, "idle") /\ UNCHANGED mem
    ELSE Goto(x, "persisting") /\ mem' = e

\* (Mutation: no limit.)
ExhaustedNever(x) == FALSE
Exhausted(x) == snap[x] >= MaxRetry

\* The loop comes to the operation, maybe long after the snapshot.
GiveUp(x) ==
    /\ place[x] = "snapped"
    /\ Exhausted(x)
    /\ Update(x, [mem EXCEPT !.status = "failed"])
    /\ snap' = [snap EXCEPT ![x] = 0]
    /\ UNCHANGED <<op, queued, req, sends, server>>

Send(x) ==
    /\ place[x] = "snapped"
    /\ ~Exhausted(x)
    /\ sends < MaxSends
    /\ sends' = sends + 1
    /\ req' = [req EXCEPT ![x] = sends + 1]
    /\ snap' = [snap EXCEPT ![x] = 0]
    /\ Goto(x, "waiting")
    /\ UNCHANGED <<op, mem, queued, server>>

-----------------------------------------------------------------------------
(* The answer. *)

Answered(r) == phase[r] = "done" /\ answer[r] # "lost"

\* post_with_idempotency() and put_with_idempotency() do not look at the
\* status: any JSON body is a success.  delete() does.
CountsAsSuccess(r) == Answered(r) /\ (op.keyed \/ status[r] = "2xx")

\* increment_retry()
Retried == [mem EXCEPT !.status = "pending", !.retries = @ + 1]
Resolved == IF op.onConflict = "retry" THEN Retried ELSE [mem EXCEPT !.status = op.onConflict]

Succeed(x) ==
    /\ CountsAsSuccess(req[x])
    /\ Update(x, [mem EXCEPT !.status = "completed"])

\* No answer, one that is not JSON, or a status that delete() looks at;
\* is_conflict_error() searches the whole message, with the path in it.
Fail(x) ==
    LET refused == ~op.keyed /\ Answered(req[x]) /\ status[req[x]] = "4xx" IN
    \/ ~op.looks409 /\ Update(x, Retried)
    \/ (op.looks409 \/ refused) /\ Update(x, Resolved)

Hear(x) ==
    /\ place[x] = "waiting"
    /\ Succeed(x) \/ Fail(x)
    /\ req' = [req EXCEPT ![x] = 0]
    /\ UNCHANGED <<op, queued, snap, sends, server>>

\* The database is open, or not: the put fails, and the loop is over.
Persist(x) ==
    /\ place[x] = "persisting"
    /\ Goto(x, "idle")
    /\ UNCHANGED <<op, mem, queued, snap, req, sends, server>>

-----------------------------------------------------------------------------
(* The user and the tab. *)

\* retry_failed_operations(): the counter stays.
RetryFailed ==
    /\ mem.status = "failed"
    /\ mem' = [mem EXCEPT !.status = "pending"]
    /\ UNCHANGED <<op, queued, place, snap, req, sends, server>>

\* clear_completed_operations(); it finds no row to delete.
ClearCompleted ==
    /\ mem.status = "completed"
    /\ mem' = Absent
    /\ UNCHANGED <<op, queued, place, snap, req, sends, server>>

\* The tab is closed or reloaded; init() loads the rows, and there are none.
Reload ==
    /\ mem.status # "absent"
    /\ mem' = Absent
    /\ place' = [x \in Replays |-> "idle"] /\ snap' = [x \in Replays |-> 0]
    /\ req' = [x \in Replays |-> 0]
    /\ UNCHANGED <<op, queued, sends, server>>

-----------------------------------------------------------------------------
(* The server. *)

\* (Mutation: no operation carries a key.)
KeyDropped(r) == FALSE
CarriesKey(r) == op.keyed

\* Without a key the middleware steps aside.
Bypass(r) ==
    /\ phase[r] = "asked"
    /\ K!Return(r, "own", r)
    /\ \/ /\ effected' = effected \union {r}
          /\ \E s \in {"2xx", "5xx"} : status' = [status EXCEPT ![r] = s]
       \/ /\ UNCHANGED effected
          /\ \E s \in {"4xx", "5xx"} : status' = [status EXCEPT ![r] = s]
    /\ UNCHANGED <<key, by>>

\* One TTL window.
Serve == \E r \in 1..sends : IF CarriesKey(r) THEN K!Step(r) ELSE Bypass(r)

Replay(x) == Snapshot(x) \/ GiveUp(x) \/ Send(x) \/ Hear(x) \/ Persist(x)
User == Queue \/ RetryFailed \/ ClearCompleted \/ Reload

SyncNext ==
    \/ User
    \/ \E x \in Replays : Replay(x)
    \/ Serve /\ UNCHANGED <<op, tab, sends>>

SyncSpec == SyncInit /\ [][SyncNext]_syncVars

-----------------------------------------------------------------------------
(* Whatever overlaps, fails or is reloaded, the create or update is applied
   at most once while the key lives, unless the server answered 5xx: sync.rs,
   "a retry after a crash cannot double-create the entity". *)
AppliedOncePerWindow == op.keyed => K!OneEffectPerWindow

(* The retry limit holds but for the replays that overlap: each may add one
   attempt its snapshot did not know of. *)
AttemptsBounded == mem.retries < MaxRetry + Cardinality(Replays)

(* "create-type conflicts are flagged for review instead of silently
   overwriting", and only what the server took counts as synced: what was
   never applied is not completed. *)
CompletedIsApplied == mem.status = "completed" => effected # {}
=============================================================================
