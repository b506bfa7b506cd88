---------------------------- MODULE EntityStore ----------------------------
(***************************************************************************)
(* The replicated entity store of the API (sensei-api/src/db_stores.rs):   *)
(* the rows of one tenant and entity type in PostgreSQL, and in every      *)
(* replica a map of them in memory.  A write takes a copy of the map       *)
(* (StoreWriteGuard), changes it, and writes it back: first to the         *)
(* memory of its replica, then to the database, where each row is compared *)
(* with the copy.  A guard that was not persisted successfully writes      *)
(* back once more when it is dropped.                                      *)
(*                                                                         *)
(* A row is the set of the writes that made it, so that a write that is    *)
(* overwritten by someone who had not seen it is missing from the row.     *)
(* The transaction of persist_changes_inner() is one step: its conditional *)
(* statements keep the rows they checked locked until it commits.  The     *)
(* store's locks are held for one step only, except that try_write() in    *)
(* write_back() may find the lock busy (a load or a page query holds it).  *)
(* The drop of a guard parks the worker thread it runs on until its last   *)
(* attempt is over, and nothing of a replica runs, not even the driver of  *)
(* that attempt's I/O, when all its threads are parked.                    *)
(***************************************************************************)
EXTENDS Naturals, FiniteSets

CONSTANTS
    Replicas, Ids,
    Writes,      \* write guards; each is used once
    Homes,       \* the ways to place them on replicas
    Skews,       \* the ways in which builds may differ: the rows each cannot decode
    Workers,     \* worker threads of a replica's runtime
    None,        \* there is no such row
    MaxFaults    \* bound on failures, lost answers and crashes

ASSUME StoreAssumption ==
    /\ Homes \subseteq [Writes -> Replicas] /\ MaxFaults \in Nat
    /\ Skews \subseteq [Replicas -> SUBSET SUBSET Writes]
    /\ \A row \in SUBSET Writes : row # None

VARIABLES
    db,          \* entity_store
    mem,         \* StoreInner.data of each replica
    inval,       \* invalidations on their way to each replica
    opaque,      \* the rows that each replica's build cannot decode
    home,        \* the replica of each guard
    pc,          \* the guard: where it is
    orig, map,   \* original_values and map
    faults,
    committed,   \* ghost: the rows the database took from each write
    past         \* ghost, per row: the writes that a removal took away, or made it

guard == <<home, pc, orig, map>>
ghosts == <<committed, past>>
vars == <<db, mem, inval, opaque, guard, faults, ghosts>>

Rows == (SUBSET Writes) \union {None}
Absent == [id \in Ids |-> None]

\* "first", "second": the attempts of persist(); "last": that of drop().
Attempting == {"first", "second", "last"}

TypeOK ==
    /\ db \in [Ids -> Rows] /\ mem \in [Replicas -> [Ids -> Rows]]
    /\ inval \in [Replicas -> SUBSET SUBSET Ids]
    /\ opaque \in Skews /\ home \in Homes
    /\ pc \in [Writes -> {"idle", "open", "rollback", "failed", "over"} \union Attempting]
    /\ orig \in [Writes -> [Ids -> Rows]] /\ map \in [Writes -> [Ids -> Rows]]
    /\ faults \in 0..MaxFaults
    /\ committed \in [Writes -> SUBSET Ids] /\ past \in [Ids -> SUBSET Writes]

Init ==
    /\ db \in [Ids -> {None, {}}]
    /\ mem = [r \in Replicas |-> Absent]
    /\ inval = [r \in Replicas |-> {}]
    /\ opaque \in Skews /\ home \in Homes
    /\ pc = [w \in Writes |-> "idle"]
    /\ orig = [w \in Writes |-> Absent] /\ map = [w \in Writes |-> Absent]
    /\ faults = 0 /\ committed = [w \in Writes |-> {}] /\ past = [id \in Ids |-> {}]

Made(row) == IF row = None THEN {} ELSE row

\* block_on() in drop_fallback() keeps its thread.
Parked(r) == {w \in Writes : home[w] = r /\ pc[w] = "last"}
Stalled(r) == Cardinality(Parked(r)) >= Workers

Fault == faults < MaxFaults /\ faults' = faults + 1

-----------------------------------------------------------------------------
(* The map in memory. *)

Decodes(r, id) == db[id] # None /\ db[id] \notin opaque[r]

\* load_from_db() inserts what it can decode, skips the rest, removes nothing.
\* (Mutation: it keeps the entries it finds.)
LoadedOnce(r, id) == IF Decodes(r, id) /\ mem[r][id] = None THEN db[id] ELSE mem[r][id]
Loaded(r, id) == IF Decodes(r, id) THEN db[id] ELSE mem[r][id]

\* A read or a write whose ensure_loaded() finds the tenant not loaded: at any
\* time, since an invalidation or SNAPSHOT_TTL may have seen to that.
Load(r) ==
    /\ ~ Stalled(r)
    /\ mem' = [mem EXCEPT ![r] = [id \in Ids |-> Loaded(r, id)]]
    /\ UNCHANGED <<db, inval, opaque, guard, faults, ghosts>>

\* The subscriber of attach_bus(); a message that never comes is lost.
Invalidate(r, ids) ==
    /\ ids \in inval[r] /\ ~ Stalled(r)
    /\ inval' = [inval EXCEPT ![r] = @ \ {ids}]
    /\ mem' = [mem EXCEPT ![r] = [id \in Ids |-> IF id \in ids THEN None ELSE @[id]]]
    /\ UNCHANGED <<db, opaque, guard, faults, ghosts>>

-----------------------------------------------------------------------------
(* The write guard. *)

\* write() and the handler's changes to the copy.  The map is taken as it is
\* when ensure_loaded() fails, or tried less than a second ago.
Open(w) ==
    /\ pc[w] = "idle" /\ ~ Stalled(home[w])
    /\ \E puts, removes \in SUBSET Ids :
          /\ puts \union removes # {} /\ puts \intersect removes = {}
          /\ \A id \in removes : mem[home[w]][id] # None
          /\ map' = [map EXCEPT ![w] = [id \in Ids |->
                        IF id \in puts THEN Made(mem[home[w]][id]) \union {w}
                        ELSE IF id \in removes THEN None ELSE mem[home[w]][id]]]
    /\ orig' = [orig EXCEPT ![w] = mem[home[w]]]
    /\ pc' = [pc EXCEPT ![w] = "open"]
    /\ UNCHANGED <<db, mem, inval, opaque, home, faults, ghosts>>

\* compute_diff()
Changed(w) == {id \in Ids : map[w][id] # orig[w][id]}

\* write_back(): every row of the copy, changed or not, unless the lock is busy.
WriteBack(w) ==
    \/ UNCHANGED mem
    \/ mem' = [mem EXCEPT ![home[w]] = [id \in Ids |->
                  IF map[w][id] = None /\ orig[w][id] = None THEN @[id] ELSE map[w][id]]]

Goto(w, where) == pc' = [pc EXCEPT ![w] = where] /\ UNCHANGED <<home, orig, map>>

\* The guards are gone.
End(ws) ==
    /\ pc' = [w \in Writes |-> IF w \in ws THEN "over" ELSE pc[w]]
    /\ orig' = [w \in Writes |-> IF w \in ws THEN Absent ELSE orig[w]]
    /\ map' = [w \in Writes |-> IF w \in ws THEN Absent ELSE map[w]]
    /\ UNCHANGED home

Persist(w) ==
    /\ pc[w] = "open"
    /\ WriteBack(w)
    /\ Goto(w, "first")
    /\ UNCHANGED <<db, inval, opaque, faults, ghosts>>

\* drop_fallback(): the handler ends without a successful persist(), or is
\* cancelled at any await.
Drop(w) ==
    /\ pc[w] \in {"open", "first", "second", "rollback", "failed"}
    /\ WriteBack(w)
    /\ Goto(w, "last")
    /\ UNCHANGED <<db, inval, opaque, faults, ghosts>>

\* The statements' conditions.  (Mutation: only a removal is compared.)
MatchesRemoved(w) == \A id \in Changed(w) : map[w][id] = None => db[id] = orig[w][id]
Matches(w) == \A id \in Changed(w) : db[id] = orig[w][id]

Commit(w) ==
    /\ Matches(w)
    /\ db' = [id \in Ids |-> IF id \in Changed(w) THEN map[w][id] ELSE db[id]]
    /\ committed' = [committed EXCEPT ![w] = Changed(w)]
    /\ past' = [id \in Ids |-> IF id \in Changed(w) /\ map[w][id] = None
                               THEN past[id] \union Made(orig[w][id]) \union {w} ELSE past[id]]

AfterFailure(w) == IF pc[w] = "first" THEN Goto(w, "second") ELSE Goto(w, "rollback")

\* persist_changes_inner(); only persist() tells the other replicas.
Succeeds(w) ==
    /\ pc[w] \in Attempting
    /\ Commit(w)
    /\ inval' = [r \in Replicas |-> IF r = home[w] \/ pc[w] = "last" THEN inval[r]
                                    ELSE inval[r] \union {Changed(w)}]
    /\ End({w})
    /\ UNCHANGED <<mem, opaque, faults>>

\* A conflict, or a failure, or a commit whose answer is lost: persist() tries
\* again 100 ms later with what it had.
Fails(w) ==
    /\ pc[w] \in Attempting
    /\ \/ ~ Matches(w) /\ UNCHANGED <<db, ghosts, faults>>
       \/ Fault /\ UNCHANGED <<db, ghosts>>
       \/ Fault /\ Commit(w)
    /\ IF pc[w] = "last" THEN End({w}) ELSE AfterFailure(w)
    /\ UNCHANGED <<mem, inval, opaque>>

\* rollback_local_cache(): back to the copy; rows it did not have stay.
Rollback(w) ==
    /\ pc[w] = "rollback"
    /\ mem' = [mem EXCEPT ![home[w]] = [id \in Ids |->
                  IF id \in Changed(w) /\ orig[w][id] # None THEN orig[w][id] ELSE @[id]]]
    /\ Goto(w, "failed")
    /\ UNCHANGED <<db, inval, opaque, faults, ghosts>>

\* The process dies and starts again.
Crash(r) ==
    /\ Fault
    /\ mem' = [mem EXCEPT ![r] = Absent]
    /\ inval' = [inval EXCEPT ![r] = {}]
    /\ End({w \in Writes : home[w] = r /\ pc[w] # "idle"})
    /\ UNCHANGED <<db, opaque, ghosts>>

-----------------------------------------------------------------------------
GuardStep(w) ==
    /\ ~ Stalled(home[w])
    /\ Persist(w) \/ Drop(w) \/ Succeeds(w) \/ Fails(w) \/ Rollback(w)

Next ==
    \/ \E r \in Replicas : Load(r) \/ Crash(r)
    \/ \E r \in Replicas : \E ids \in inval[r] : Invalidate(r, ids)
    \/ \E w \in Writes : Open(w) \/ GuardStep(w)

Spec == Init /\ [][Next]_vars

(* Where a thread is left, handlers run to their end (tokio), time passes, and
   every replica keeps being asked for the tenant's rows. *)
FairSpec ==
    /\ Spec
    /\ \A w \in Writes : WF_vars(GuardStep(w))
    /\ \A r \in Replicas : WF_vars(Load(r))

-----------------------------------------------------------------------------
(* The database takes a write as a whole or not at all, and what it took stays
   until someone who had seen it removes the row: no lost update, no row that
   was only ever in memory, whatever stale copies the replicas work on. *)
CommittedIsWhole ==
    \A w \in Writes, id \in Ids :
        id \in committed[w] <=> w \in Made(db[id]) \union past[id]

(* Once the writes are over, a replica comes to show the rows of the database
   that it can decode as they are, whatever was lost or written back late: the
   refresh that SNAPSHOT_TTL is for; unless drops park every thread it has for
   good.  It is not so for rows that the database does not have:
   load_from_db() removes nothing, so a row that was removed while the
   invalidation was lost, or that the database refused, stays in memory. *)
RowsConverge ==
    \A r \in Replicas :
        \/ <>[](\A id \in Ids : Decodes(r, id) => mem[r][id] = db[id])
        \/ <>[]Stalled(r)
=============================================================================
