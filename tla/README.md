# Formal models of Starz Forge (sensei-rs)

TLA+ models, TLC configurations and TLAPS proofs for the parts of Starz Forge
whose correctness depends on the order in which concurrent callers, crashes,
lost answers and expiring leases meet. Paths below are relative to
`src/sensei-rs/crates/` unless they start with `src/`.

To check: `tlc -config MCOutboxRelay.cfg MCOutboxRelay` (any `.cfg` here, with
the `MC` module it is named after; `MCTaskPipelineBusy.cfg` goes with
`MCTaskPipeline` and `MCOfflineSyncRefused.cfg` with `MCOfflineSync`); to prove:
`tlapm DeliveryProofs.tla` (any module named `*Proofs`).

## 1. Inventory

Starz Forge is a manufacturing management platform: an Axum API over domain
services, background workers fed by NATS JetStream, a workflow engine, an agent
runtime that calls domain commands as tools, PostgreSQL as the only durable
store, and a Leptos/WASM front end that works offline. Processes share nothing
but PostgreSQL and JetStream; nearly every protocol in the code is therefore a
row with a status, a lease and a fence, and a process that holds stale
knowledge of it.

| Component | State | Operations | Interacts with | Hard behaviour | What makes it correct |
|---|---|---|---|---|---|
| **Command journal** (`sensei-services/src/ai/command_journal.rs`, `sensei-agent-core/src/{journal,tools}.rs`) | `command_journal` row per key: status, claim token, lease; the executor's frame | reserve, load, recover, begin_dispatch, heartbeat, complete; tool dispatch under a timeout | called by every mutating agent tool; calls domain services | crash after the mutation, lost commit answers, timeouts with a late effect, takeover of a lapsed lease, the instant of expiry | a mutation takes effect at most once; callers agree on the answer |
| **Transactional outbox** (`sensei-db/src/outbox.rs`, `sensei-workers/src/outbox_relay.rs`) | `outbox_events` (attempts, claim, lease, published_at), `outbox_published`, the stream | enqueue in the business transaction; claim a batch, publish, renew, mark, record failure | domain services → relay → JetStream → consumers | crash between publish and mark, stale claims, failures recorded without a claim, retry exhaustion | marked only if durable; marked only by the owner; retried until published or exhausted |
| **HTTP idempotency** (`sensei-api/src/middleware/idempotency.rs`, `sensei-services/src/finance/database.rs`) | `idempotency_records` (or an in-memory map), a mutex per key and replica | claim (insert, look up, reclaim), run, complete, abort, sweep; in-transaction completion by the finance handlers | wraps every mutating route; the front end retries with the same key | two replicas, cancelled requests, failed stores, expiry and sweep during a request | one execution at a time, one effect per window, replays of the right response |
| **Workflow engine** (`sensei-workflow/src`) | instance version and checkpoint history, approvals, evidence | start, observe, propose, request approval, decide, verify, close, compare-and-swap resume | called with a connection pool; no caller outside tests yet | READ COMMITTED guards without locks, two transactions in one operation, restarts | what is closed was proposed, approved and verified, in this order |
| **Federation replication** (`sensei-services/src/tps/{replication,target_projectors}.rs`) | memberships and policy revisions, queue rows with lease tokens, target inbox, receipts, mirrored events | publish (fan-out), claim, release, deliver, reserve, apply, acknowledge, fail, confirm | one site's queue → another site's inbox; receipts back | governance that changes during a fan-out, redelivery, stale claims, ack and fail in either order | authorized when written, applied once, confirmed only if applied |
| **Task worker and consumers** (`sensei-workers/src/{task,nats,email,pdf,analytics,ml}.rs`) | JetStream deliveries, `processed_tasks` lease, dead letters | deliver, claim, renew, run, complete, ack, NAK, dead-letter | scheduler and services → JetStream → consumers | lapsed leases, redelivery during a run, NAKs that use up deliveries, crash around the dead letter | no task leaves the queue unaccounted for; effects repeat only after a lapsed lease |
| **Scheduler** (`sensei-workers/src/scheduler.rs`) | advisory lock, `scheduler_run_log` slots with leases | lead, wait, claim a slot, publish, mark, release | → JetStream → task worker | two leaders, release and mark without an owner check, lost acknowledgements | a slot is published twice only in doubt |
| **Offline queue** (`sensei-frontend/src/pwa`, `stores/sync.rs`, `api/client.rs`) | reactive entries with status and retry count (their IndexedDB rows are never written, section 3.7) | queue, replay, react to answers, persist, clear, retry | → HTTP idempotency | overlapping replays, lost answers, failed puts, reloads | an operation is applied once per key window; its retries are bounded |
| **Supply chain: stock and purchase orders** (`sensei-services/src/supply_chain/database.rs`) | `inventory_items`, `stock_moves`, purchase orders and their lines | receive (by line, in full, by hand), move, adjust, reverse, edit, delete | API routes, outbox | READ COMMITTED update-then-insert, reversals of reversals, receipts of one line at the same time | the ledger sums to the balance; order and receipts agree |
| **Entity store** (`sensei-api/src/db_stores.rs`) | `entity_store` rows, a map per replica, write guards with a copy | load, invalidate, write, persist, retry, roll back, drop | most API routes; core NATS for invalidations | stale copies, lost invalidations, lost commit answers, write-backs after a refusal | no lost update; memory returns to the rows of the database |
| Andon SLA watcher (`sensei-workers/src/andon_sla.rs`) | `andons.escalated_at` | select, mark, commit, publish | → event bus | crash between commit and publish | each breach escalates |
| Event bus (`sensei-event-bus/src/bus.rs`) | JetStream streams and consumers | publish (two-stage), subscribe | every service | consumer loops that end, poison messages | at-least-once delivery |
| Realtime fan-out (`sensei-api/src/services`) | sockets and rooms per replica | publish, broadcast | event bus → browsers | slow clients | best effort by design |
| Agent core (rest) and orchestrator | per-process caches, claim ledger | retrieve, assemble, verify | language-model providers | provider I/O | sequential functions |
| API routes, other middleware | none of their own, counters | request handling | services | – | – |
| Domain services (production, quality, maintenance, …) | business tables | tenant-scoped CRUD in one transaction each | database, outbox | row locks inside one transaction | – |
| Authentication, access control | credentials, sessions, policies | login, refresh, decide | middleware | – | outside the aim of these models |
| Database layer, core types, contracts | pool, migrations | tenant transaction | PostgreSQL | – | – |
| Front end (rest), desktop shell, legacy bridge, native primitives, deployment | UI state | – | – | – | – |

The hazards of each component, with the line where it bites and the property
that watches it, are listed in `PROJECT.json`.

## 2. Plan

The order puts first what can corrupt business data, then what can lose work.

| | Module | Composes / refines | Status |
|---|---|---|---|
| 1 | `CommandJournal` | refines `AtMostOnceCommand` | modelled, checked, proved |
| 2 | `OutboxRelay` | – | modelled, checked, proved |
| 3 | `Idempotency` | refines `KeyedExecution` | modelled, checked, proved |
| 4 | `CorrectiveAction` | – | modelled, checked, proved |
| 5 | `FederationReplication` | refines `ProjectionDelivery` | modelled, checked, proved |
| 6 | `TaskPipeline` | composes `Scheduler` and `TaskWorker` | modelled, checked, proved |
| 7 | `OfflineSync` | composed with `KeyedExecution` | modelled, checked, proved |
| 8 | `Inventory` | – | modelled, checked, proved |
| 9 | `EntityStore` | – | modelled, checked, proved |
| 10 | `Finance` | – | modelled, checked, proved |
| 11 | `EventBus`, `AndonSla` | – | left out, see section 7 |

Every invariant and every step property that a passing run checks is a theorem
(section 6); liveness stays with TLC.

Conventions. One module per component, one action per transaction, statement or
await point. `XProofs` holds the theorems of `X`, `MCX` the symmetry sets, and
each `.cfg` one question. Two modules of theorems cover two components each:
`DeliveryProofs` the outbox and the offline queue, which deliver until they are
answered, and `BooksProofs` the invoices and the stock ledger. They extend both,
so that `OfflineSync` and `Inventory` carry their names in their top-level
definitions (`SyncInit`, `SyncNext`, `SyncSpec`, `InventoryInit`, ...). Where an operator has a variant such as
`ReclaimableDispatch` beside `Reclaimable`, the variant is the code with a
plausible mistake; no specification uses it, and each property is known to
fail when one of them takes the place of the original.

## 3. The modules

### 3.1 CommandJournal and AtMostOnceCommand

*State.* `status`, `claim`, `lease` are the columns `status`, `claim_token` and
`lease_expires_at` of a key's row ("absent": no row). `pc`, `key`, `token`,
`outcome` are the frame of `ToolExecutor::execute_inner` / `dispatch_claimed`
for one call. `applied`, `late` and `told` are ghosts: how often the domain
mutation took effect, whether an abandoned mutation may still land, and which
definitive answers callers have had.

*Actions.* `Reserve`, `Load`, `Recover`, `BeginDispatch`, `Heartbeat` and
`Complete` are the journal's six transactions together with what the executor
does with their result; `ack = FALSE` is a transaction that committed and whose
answer was lost, `JournalError` one that failed. `Mutate`, `HandlerEnds` and
`LateMutation` are the tool handler under `tokio::time::timeout`: it can fail
before or after its effect, and a command that failed or timed out can still land. `Crash` is
the death of the process (or a cancelled request) between any two steps.
`TimePasses` moves a lease from "live" to "due" (equal to `NOW()`) to
"expired", because the code compares with `>`, `>=` and `<`.

*Abstractions.* A key is a (tenant, execution key). Tokens are 32 random bytes
and never repeat, so a fresh one is any token nobody holds. `claim_owner` is
never read by a WHERE clause and left out, as are payloads and the RAM replay
cache (the path without a journal). `heartbeat()` has no caller outside tests
but is part of the journal's contract, so it is an action. Rows written before
migration 149 (without lease columns) are not initial states.
`ToolError::Dispatch` is used both for a replayed "failed" and for a failing
`complete()`; only the former is a definitive answer.

*Promise.* `AtMostOnceCommand` says what a user of the journal may rely on: one
effect, one verdict, "succeeded" only after the effect. It does not promise that
nothing happens after a verdict: `tools.rs:798` records every dispatch error as
"failed", a lost connection included, so that the mutation of a failed command may
still land. `CommandJournal` implements the promise (`Promised`), with
`effect <- applied` and `verdict` read off the row's status.

### 3.2 OutboxRelay

*State.* The columns of `outbox_events` (`published`, `attempts`, `claimedBy`,
`lease`), the `outbox_published` deduplication records (`deduped`), the copies
JetStream holds (`stream`), and for each relay its place in the pass (`pc`),
the rows of its batch not yet tried (`batch`) and the one in hand (`current`).

*Actions.* `Enqueue` is `enqueue_outbox` in a business transaction.
`ClaimBatch` is the `FOR UPDATE SKIP LOCKED` select and claim; skipped rows mean
that any subset of claimable rows may be taken. `NextEvent`, `PublishAcked`,
`PublishFails`, `RenewClaim`, `MarkPublished`, `RecordFailure` and
`BookkeepingLost` are the loop of one event. `record_failure` checks neither
claim nor `published_at`, and the model does not either. `Crash` forgets what
the relay held; `LeaseExpires` is the 30 s lease. A publish that fails may have
left a copy in the stream.

*Abstractions.* One tenant (tenants are independent transactions); payloads,
subjects and the order within a batch (`UPDATE .. RETURNING` promises none).

### 3.3 Idempotency and KeyedExecution

*State.* `store` is where a behaviour keeps its records, in PostgreSQL or in the
memory of one process. `rec` is the record of one cache key; keys are scoped
hashes and independent. `lockOf` is the per-key mutex in each replica's map,
named after the request that created it, so that a mutex dropped by the sweep
and its successor are different. `pc`, `at`, `body`, `mutex`, `status`,
`answer`, `heard` describe a request. `effected` (the mutations that committed
in the record's current TTL window) and `heard` are ghosts. An expired claim of
an earlier request may be there at the start.

*Actions.* `Arrive` (with the in-memory fast path), `Lock`, `ClaimInsert`,
`ClaimLookup`, `ClaimReclaim` (the three statements of `claim()`, each a step),
`MapLookup`, `MapInsert` (the in-memory claim), `StoreUnavailable`, `ClaimUnheard`
(a claim that committed and whose answer was lost: a 503, with the record left
`in_progress`), `HandlerCommits`, `HandlerRefuses`, `Finish` (complete or abort, either of
which may fail), `Cancel` (timeout layer, disconnect or death, at any await),
`Expire`, `SweepRecords`, `SweepLocks`. With `TxCompletes` the handler is one of
the finance handlers, which complete the record inside the business
transaction.

*Promise.* `KeyedExecution` is what a client may rely on: whoever finds the key
free executes alone, an unanswered claim is kept (one whose maker never heard of it
too, so that a refused request may leave the key held without an execution), only a
5xx or the end of the TTL frees the key. `Idempotency` on PostgreSQL implements it (`Promised`), and
`OfflineSync` uses it as its server.

*Abstractions.* `Expire` waits until no handler runs: the TTL is one hour
(`sensei-api/src/router.rs:804`), the request timeout 30 s. Requests without a
key, or whose body cannot be buffered, bypass the record and are not modelled.

*Observations.* A 409 says that "another replica is executing"
(`idempotency.rs:25`), but a request dropped after its claim leaves the record
`in_progress` for the whole TTL; so does a request that was told 503 because the
answer to its claim was lost (`idempotency.rs:246`, `:293`). With PostgreSQL the in-memory map is always
empty, so each sweep drops every mutex; exclusion then rests on the record
alone, which is what `ExclusiveExecution` shows. In the in-memory store (one
process, development mode) a mutex swept between `lock_for` and the insert lets
two requests execute, so that the effect and refinement properties speak of
PostgreSQL only. `complete_if_idempotent` stores status 200 without a body, so a
retry that arrives before the middleware's own `complete()` replays an empty
200, and a 5xx after the commit makes `abort()` delete the completed record,
although `finance/database.rs:274` says that "a retry after a crash can never
re-execute the side effect". `TxCompletes` is therefore FALSE in the run and a
premise of three theorems; the others cover it.

### 3.4 CorrectiveAction

*State.* `history` is `workflow_checkpoints` in version order, `approvals` is
`workflow_approvals`, `evidence` the kinds in `workflow_evidence`. `saw` in a
checkpoint is a ghost: the checkpoint its writer had read. For each caller,
`pc` is its place in the operation, `seen` the checkpoint its guard read,
`covers` the approval rows its uncommitted UPDATE has locked.

*Actions.* Transactions run under READ COMMITTED and lock nothing before they
write. So each guard (`ProposeGuard`, `VerifyGuard`, `CloseGuard`,
`CloseEvidence`, `DecideRole`, `ResumeRead`) is a step, and the writes and
commit of a transaction are another: its first write is an UPSERT of the
instance row, after which other writers wait and readers see nothing until the
commit. `decide_approval` locks approvals before it appends, so `DecideUpdate`
is a step of its own. `propose_countermeasure` is two transactions; a crash
between them (`Abandon`) leaves `countermeasure_proposed` without an approval,
from which only a restart leads on. `Abandon` is a refusing guard, a failed
statement or a crash at any place.

*Abstractions.* One workflow id; actors stand for callers with or without the
approver role; kinds of evidence instead of rows. `record_transition()` and
`request_approval()` are public and take any step from any caller; they are
modelled as the workflow functions use them, which is why the component is
listed as partly modelled. A round is not a state of the code: approval and
evidence of an earlier round satisfy a later close's guards, so
`ClosedIsJustified` speaks of the whole history.

*Observations.* The comment at `corrective_action.rs:283` says that the guard
"cannot race the write" because both share a transaction. Under READ COMMITTED
they do race: TLC refutes `CloseGuardHoldsAtWrite` in 16 states (a close whose
guards passed, a proposal that commits, the close that commits after it). Since
the version is the next one at the time of the write, the compare-and-swap of
`resume` protects resumes only.

### 3.5 FederationReplication and ProjectionDelivery

*State.* Governance (`edge`: membership and policy revision of a site); each
publisher's fan-out (`pc`, `event`, `seen`, `todo`, `fresh`); the source queue
`site_replication_log` (`status`, `token`, `attempts`, `due`, `pinned`); the
target's `inbox` with what an inbox row is bound to (`binding`), its `receipts`
and its `mirror` of the event.

*Actions.* The fan-out is the route's load of the edges (`LoadEdges`), the
revalidation inside the transaction, one guarded INSERT per site and the commit
or rollback. The INSERT is one statement with a wait in it: its guard reads the
edge in the statement's snapshot, and only then the statement waits for whoever has
inserted the key and not committed (`WaitForKey`); when that transaction rolls back,
the row is written without another look at the guard (`KeyFreed`). `Release`, `Claim`, `Ack`, `Fail` and `Confirm` are the queue's
transactions. `Deliver`, `Reserve`, `Apply` and `RefuseHash` are the target's. A
consumer is not a process of the model: whoever was ever handed a row may still
use what it was handed, in any order and at any time, which includes crashes
(never using it), redelivery and answers that arrive late. A token is the number
of the claim that made it.

*Promise.* `ProjectionDelivery`: a queued projection is applied at most once and
stays applied, each event has one mirror, the source believes only what was
applied. `FederationReplication` implements it (`Promised`).

*Abstractions.* One source tenant and one target tenant with several sites. The
authorization of a delivery is read-only and left out. The effects of the
projectors are one: a row in the target's event store.

*Observations.* As the guard of the INSERT (`replication.rs:1203`) is not evaluated
again after the wait, a row can be written under a revision that was withdrawn
during it. So `AuthorizedByItsInsert` speaks of the moment when the INSERT looked,
not of the moment when the row is written. A holder's token outlives the confirmation, so it can still fail
a confirmed row (`replication.rs:2340`); `ProjectionDelivery` therefore lets a
belief be withdrawn. Membership class and residency are part of what is
revalidated, but changing them does not bump the revision the INSERT is guarded
by. A database error inside a projector aborts the transaction in which
`reconcile_required` would be recorded (`replication.rs:2010`), and nothing leads
out of `reconcile_required`. A concurrent duplicate fan-out is counted as
"blocked". No progress is claimed: a target that stays away leaves rows waiting.

### 3.6 Scheduler, TaskWorker and TaskPipeline

*State.* `Scheduler`: wall-clock slots (`now`), the advisory lock, each process's
loop and the rows of `scheduler_run_log`. `TaskWorker`: the stream's view of each
message (`msg`, `deliveries`), the dead letters, the lease row of
`processed_tasks`, and each worker's place. `TaskPipeline` composes them: the
publication of a slot makes a new envelope with a fresh task id, so the workers'
guard cannot see that two tasks stand for one slot.

*Actions.* One per SQL statement, publish, acknowledgement and side effect, each
of which may also fail, or succeed with its answer lost; redelivery while the
worker still runs (`AckWait`), lapsing leases, crashes and lost sessions. All of
them count in `faults`.

*Abstractions.* One scheduled task (loops share nothing but the process); cron
expressions are a numbering of slots; back-off delays are left out. A worker is
one consumer loop. `mark_failed()` has no caller.

*Observations.* `ClaimOutcome::Busy` reaches the dispatcher as an `Err`, which it
treats as permanent: a healthy task whose redelivery meets its own live lease is
dead-lettered (run `tasks_busy`). So is an e-mail whose first attempt failed
transiently and was NAKed. `analytics` and `ml` dead-letter a task whose effect
took place when only the completion mark failed. Both also swallow errors: when the
tenants cannot be read, `target_tenants()` takes it for none (`ml.rs:1013`, and
`analytics.rs:661`), the task is "Completed" (`ml.rs:1063`) and acknowledged
with nothing done, without a mark; `retrain_all()` (`ml.rs:983`) completes when every
training failed. The ghost `swallowed` records these tasks and `AckedIsAccounted`
exempts them; at least one tenant is assumed to be active. A message that has used up its
deliveries is left in the stream rather than dead-lettered, although
`task.rs:141` says otherwise; `Settles` allows for it. A slot whose claim or
publish failed is skipped, not retried (`scheduler.rs:445`).

### 3.7 OfflineSync

*State.* One queued operation: its reactive entry (`mem`), the replays that overlap
(`place`, `snap`, `req`), and the server. There is no row: no put of the code
succeeds (see below).

*Actions.* `Queue`; `Snapshot`, `GiveUp`, `Send`, `Hear`, `Persist` (the replay loop
from one await to the next, in a single-threaded tab); `RetryFailed`,
`ClearCompleted`, `Reload`. `Serve` is the server: creates and updates carry an
Idempotency-Key and are served by `KeyedExecution`, which `Idempotency`
implements; deletes carry none and are executed each time.

*Abstractions.* One operation (operations of one entity share no order: the code
replays them by position only) and one TTL window of its key.

*Observations.* The store `pending-operations` is created without a key path or a key
generator (`indexed_db.rs:198`; the module's doc, `:12`, says that its key path is
`id`), and `put_pending_operation()` (`:321`) puts without a key, which IndexedDB
refuses. With the database open, `queue_operation()` therefore hands on an error
although the entry is queued and will be replayed; with none (`sync.rs:400`) it
returns success and persists nothing; `persist_operation_update()` (`:821`) drops the
error. So a reload forgets every operation, answered or not, although `sync.rs:190`
and `:392` speak of durable operations. This takes no interleaving to see, and no
run is spent on it; nor does any property promise that an operation survives.

`post_with_idempotency()` and `put_with_idempotency()` do not look
at the status, so a refusal with a JSON body counts as success (run
`sync_refused`). `is_conflict_error()` finds "409" anywhere in the message,
including an entity id in the path. `FlagForReview` is unreachable for what it is
meant for. `retry_failed_operations()` neither resets the counter nor persists.
Deletes carry no key although `sync.rs:739` says so. A replay after the key's
TTL executes again. `queue_operation()` has no caller yet, and the service builds
an API client of its own that has no token.

### 3.8 Inventory

*State.* The stock rows of one product at one site in the order of creation
(`stock`), the ledger `stock_moves`, one purchase order with one line, and the
transactions that found no row to update and are about to insert one (`tx`).
`astray` is a ghost: locations where an UPDATE met several rows, or where stock
was deleted.

*Actions.* `ReceiveStock`, `ReceiveLine`, `ReceiveFull`, `CreateMove`, `Adjust`,
`ReverseMove`, `SaveOrder`, `DeleteOrder`, `DeleteRow`. A delta is an UPDATE and,
if it found no row, an INSERT; other transactions commit between them, which
`Finish` and `RollBack` show. Row locks taken before the INSERT are modelled
(`OrderLocked`, `MoveLocked`, `RowsLocked`).

*Abstractions.* One product, site and order line; authorization is left out.
Transfers within one location are left out, and stock rows are ordered by
creation without ties.

*Observations.* Two first receipts of a NULL lot insert twin rows (a unique index
takes NULLs for distinct), after which each UPDATE counts twice.
`adjust_inventory_scoped()` updates every lot's row of the location although
`database.rs:3363` says "EXACTLY ONE row", and records an absolute value, so that
the reversal of a negative adjustment withdraws again. Moves without a location
are recorded without one but take effect at the first row's. Deleting a stock row
leaves no ledger row. The move that reverses an issue goes to the issue's source: to
its destination if the source is missing, but to a blank location if the source is
the empty string (`database.rs:2973`; `Returns`). `update_purchase_order()`
overwrites the received quantity and leaves the status; a reversed receipt does not reopen the line.
`LedgerSumsToBalance` is stated around these: for ledgers whose rows tell what
they did, at locations where a location and lot have one row and no stock was
deleted.

### 3.9 EntityStore

*State.* `db` (table `entity_store`, one tenant and type), `mem` (the map of each
replica), `opaque` (the rows a replica cannot decode, because its build knows another
shape of the record), `inval` (messages on their way), and for each write guard its
place, `orig` and `map`. A row is the set of the writes that made it, so that an update
overwritten by someone who had not seen it is missing from the row. `committed`
and `past` are ghosts.

*Actions.* `Load`, `Invalidate`; `Open`, `Persist`, `Drop`, `Succeeds`, `Fails`,
`Rollback` of a guard; `Crash`. A dropped guard blocks the thread of the runtime it
is dropped on until its write-back ends (`block_on`, `db_stores.rs:758`), so guards in
that place are `Parked`, and a replica all of whose threads are parked is `Stalled`:
nobody is left to drive the connections the parked threads wait for, and no action of
that replica but its crash is enabled. `Fails` covers conflicts, errors, and commits
whose answer is lost, after which `persist()` tries again with what it had.

*Abstractions.* The transaction of `persist_changes_inner()` is one step (its
conditional statements keep what they checked locked); the rate limit on loads
is an `Open` without a `Load`. `persist_lock` is held within that one step, so that
waiting for it adds nothing to being parked.

*Observations.* `load_from_db()` skips a row whose id, data or fields it cannot read
(`db_stores.rs:858`): the entry stays absent, or stale as it was, and the tenant
counts as loaded (`:904`) although the comment at `:886` says that it is left out.
`RowsConverge` therefore speaks of the rows a replica decodes. As many
guards dropped at the same time as the runtime has threads hang the replica until it
is restarted; `RowsConverge` exempts a replica that stays `Stalled`, and TLC refutes
it without that exemption (two drops, two threads). `load_from_db()` only inserts. So a row that was removed elsewhere
while the invalidation was lost, or that a late `write_back()` brought back, stays
in a replica's memory for ever, although `db_stores.rs:144` bounds staleness by
SNAPSHOT_TTL; `RowsConverge` therefore speaks only of rows the database has. After
`persist()` has failed, the drop of the guard writes the refused values back into
memory (`:585` says that memory "must NEVER disagree") and may still commit them
after the caller was told of a failure. A retry after a lost answer reports a
conflict; a retried insert may bring back a row that was removed meanwhile. Most
routes rely on the drop, whose failure is only logged.

### 3.10 Finance

*State.* One invoice (`status`, `total`), its payments (`there`, `amount`; `drawn`
are the ids used), and the transactions between two statements (`job`).
`counted` (what the marking counted) and `overtaken` are ghosts.

*Actions.* `CreateInvoice`, `RecordPayment`; the read and the write of each update
and delete (`EditReads`, `EditWrites`); the three reads and the UPDATE of
`mark_invoice_paid()` (`MarkChecksPayment`, `MarkReadsInvoice`, `MarkSums`,
`MarkWrites`); `Abort`. `TenantTx` begins a plain READ COMMITTED transaction and no
statement locks what it reads.

*Abstractions.* Amounts count in the tolerance of 0.01; currencies are left out as
the sum ignores them. 'cancelled', 'sent' and 'overdue' are set by no code.

*Observations.* The comment at `finance/database.rs:500` says that the payment
check, the sum and the status flip "share a consistent snapshot". They do not,
and `PaidIsAlwaysCovered` fails: an edit or removal that read the invoice as
unpaid commits after the marking, or between its sum and its write.
`PaidIsCovered` and `PaidIsImmutable` are what holds: when no write overtakes
another transaction's reads. A removal that loses this race takes the payments of
a paid invoice with it (the foreign key cascades). Amounts may be negative, and
payments are recorded whatever the status.

Elsewhere in that file, not modelled: 'draft' is the effective default of
journal entries (`002:573` precedes `059`), so the service's guard on posted
entries never fires and the route's check of `posted_by` carries immutability; a
second reversal is refused only by the unique entry number; the three-way match
reads its documents in separate statements.

## 4. Runs

Bounds are CONSTANTS of the modules or guards in them; no state constraint is
used. Type invariants are stated in every module; they are part of the inductive
invariants of section 6 and left out of the runs.

| Run (cfg) | Checks | Bounds | Distinct states |
|---|---|---|---|
| `journal` (`MCCommandJournal`) | AtMostOnce, AnswersAgree, LiveClaimIsExclusive, Promised, CallsReturn | 2 executors, 2 keys, 4 tokens | 564,262 |
| `workflow` (`MCCorrectiveAction`) | ClosedIsJustified, DecisionsAreRecorded, ResumeExtendsWhatItRead, DecisionIsFinal | 3 callers (2 approvers), 7 checkpoints | 1,763,742 |
| `outbox` (`MCOutboxRelay`) | MarkedIsDurable, OnlyOwnerMarks, PublishedOrExhausted | 2 relays, 2 events, 2 attempts, batches of 2, 1 crash | 159,644 |
| `idem` (`MCIdempotency`) | OneEffectPerWindow, ReplayFaithful, CompletedStays, Promised, RequestsReturn | both stores; 2 requests after an earlier claim, 2 replicas, 2 bodies, 2 expiries | 143,720 |
| `federation` (`MCFederation`) | ReceiptIsEarned, MirroredOnce, ConfirmedIsApplied, LapsedClaimHasNoSay, AuthorizedByItsInsert, Promised | 1 event, 2 sites, 2 publishers, 2 claims of a row, 1 change of governance | 2,337,936 |
| `tasks` (`MCTaskPipeline`) | AckedIsAccounted, RepeatsNeedALapse, SoleExecutor, TwiceOnlyInDoubt, FaultFreeRunsOnce, Settles | 2 schedulers, 1 slot, 2 workers, 2 envelopes, 2 deliveries, 2 faults | 166,941 |
| `tasks_busy` (`MCTaskPipelineBusy`) | violates DeadLetterMeansFailed | no fault at all | – |
| `sync` (`MCOfflineSync`) | AppliedOncePerWindow, AttemptsBounded | 3 overlapping replays, 4 requests, retry limit 1, any number of reloads | 890,084 |
| `sync_refused` (`MCOfflineSyncRefused`) | violates CompletedIsApplied | 1 replay, 2 requests | – |
| `supply` (`MCInventory`) | ReceiptsMatchOrder, LedgerSumsToBalance, ReversedOnce | 2 requests at a time, 2 locations, 1 lot, 2 ordered, 4 moves | 2,244,443 |
| `store` (`MCEntityStore`) | CommittedIsWhole, RowsConverge | 2 writes, 2 rows, both on one replica or on two, 2 threads, 2 ways of decoding, 1 fault | 1,069,920 |
| `finance` (`MCFinance`) | PaidIsCovered, PaidIsImmutable | 2 requests at a time, 2 payments, 3 amounts, 2 totals | 88,975 |

*Why the bounds are enough.* Journal: a takeover needs an old owner and a new
one, and the successor may come after both. A fresh token is one that no row and
no executor holds, so |Keys| + |Executors| tokens never run out. Outbox: two
relays and two events give a row that waits in a batch while its lease lapses, a
stale failure on a published row, and attempts beyond the maximum. Idempotency:
two requests race for the record that an earlier one left; two expiries separate
three windows. Workflow: the shortest closed history has six checkpoints, the
seventh lets a second caller take a step on stale knowledge. Federation: two
publishers insert the same key under different governance, a second claim makes
the first one's token stale, two sites share one mirror. Tasks: two faults
combine a lapsed lease with a lost answer, a crash with a redelivery, or a lost
session with a lost acknowledgement. Sync: three replays pass the retry check
on one snapshot; the code never sends a fourth request, and four would be allowed. Supply: four moves are a receipt, its reversal, and two moves
that race with them; the order of two units lets two line receipts compete with
the full receipt. Store: with two writes each can overtake, follow or miss the
other, two threads are parked by the two drops or leave one free; rows of
one kind are decoded by every replica, or only by some. Finance: with a negative amount and two totals, either payment can be
needed, dispensable or harmful to the sum. The proofs of section 6 remove the
bounds for safety where they reach.

*Deadlock* is checked in `journal` and `workflow`. Elsewhere it is switched off:
with all requests answered, all messages settled or all writes over, the model
has nothing left to do.

*Disagreements found.* Each violating run quotes what the repository says:

- `tasks_busy`: on Busy, "retry later (the delivery will back off and re-claim
  once the lease expires)"; the dispatcher dead-letters every `Err`, so a
  healthy task is dead-lettered with nothing having failed.
- `sync_refused`: only what the server took counts as synced; the keyed requests
  of the front end never look at the status.

Others are described with the module they concern: two relays can publish the
same event, as the leases of rows that wait in a batch are not renewed
(`sensei-db/migrations/080_outbox_claim.sql:2` says never), and the outbox gives
up after 25 attempts (`outbox_relay.rs:8` says that an event is never lost).

## 5. Fairness

- `CommandJournal!FairSpec`: weak fairness of each executor's own steps. Tokio
  polls a task until it returns, the handler runs under a timeout, and no step
  waits for another executor. A crash ends the call and is not assumed.
- `OutboxRelay!FairSpec`: weak fairness for the relay's own steps and for time
  passing; strong fairness, per event, for being selected (the poll takes the
  oldest rows first), for an acknowledged publish, and for a committed mark.
  The last two say that a broker or database asked again and again answers at
  last; a publish may still fail as often as MAX_ATTEMPTS allows, which is why
  the property says "or exhausted".
- `Idempotency!FairSpec`: weak fairness for a request's steps (its handler is
  bounded by the request timeout), strong fairness for taking the mutex (tokio's
  mutex is FIFO). Cancellation is not assumed.
- `TaskPipeline!FairSpec`: weak fairness for time, for each scheduler loop, for
  each worker's step and for a redelivery that is due; strong fairness for the
  delivery of a message, as a worker is idle again and again and the consumer
  hands out messages in order. No fault is ever assumed; leadership is not
  assumed either, so `FaultFreeRunsOnce` starts from a leader that waits.
- `EntityStore!FairSpec`: weak fairness for a guard's steps (handlers run to
  their end) and for loads: each replica keeps being asked, and every snapshot
  expires. Both only while the replica has a thread left (`~Stalled`), since a
  parked thread waits for I/O that another one drives. Invalidations need not arrive.
- `CorrectiveAction`, `FederationReplication`, `OfflineSync`, `Inventory` and
  `Finance` promise no progress: what they wait for is a person, a connection or
  another tenant.

## 6. Proofs

All theorems are proved by TLAPS for every value of the constants that the
modules' assumptions allow: distinct null values, Booleans where Booleans are
meant, positive bounds, and finite sets where something is counted. For the
journal this includes any number of executors and keys, for the workflow any
bound on the history, for federation any number of events, sites and publishers,
for the pipeline any number of schedulers and tasks and any finite set of workers,
for the offline queue any finite set of replays and any number of requests and
reloads, for stock any number of requests, locations, lots, rows and ledger rows.

| Module | Theorems | Argument |
|---|---|---|
| `CommandJournalProofs` | JournalInvHolds, TypeCorrect, AtMostOnceHolds, ReservedNeverDispatchedHolds, AnswersAgreeHolds, ClosedIsFinalHolds, LiveClaimIsExclusiveHolds, KeepsPromise | `JournalInv`, `OnlyOpenIsLeased` |
| `DeliveryProofs` | RelayInvHolds, TypeCorrect, MarkedIsDurableHolds, PublishedIsReleasedHolds, OnlyOwnerMarksHolds; SyncInvHolds, AppliedOncePerWindowHolds, AttemptsBoundedHolds | `RelayInv`, `SyncInv` |
| `IdempotencyProofs` | IdemInvHolds, MapInvHolds, ExclusiveExecutionHolds, OneEffectPerWindowHolds, ReplayFaithfulHolds, CompletedStaysHolds, PromisedHolds | `IdemInv`, `MapInv` |
| `CorrectiveActionProofs` | WorkflowInvHolds, TypeCorrect, ClosedIsJustifiedHolds, DecisionsAreRecordedHolds, ResumeExtendsWhatItReadHolds, DecisionIsFinalHolds | `TypeOK /\ WorkflowInv` |
| `FederationReplicationProofs` | FederationInvHolds, ReceiptIsEarnedHolds, MirroredOnceHolds, ConfirmedIsAppliedHolds, LapsedClaimHasNoSayHolds, AuthorizedByItsInsertHolds, PromisedHolds | `FederationInv` |
| `TaskPipelineProofs` | TwiceOnlyInDoubtHolds, WorkersInvHolds, AckedIsAccountedHolds, RepeatsNeedALapseHolds, SoleExecutorHolds | `SlotsInv`, `WorkersInv` |
| `EntityStoreProofs` | TypeCorrect, StoreInvHolds, CommittedIsWholeHolds | `StoreInv` |
| `BooksProofs` | FinanceInvHolds, PaidIsCoveredHolds, PaidIsImmutableHolds; InventoryInvHolds, ReceiptsMatchOrderHolds, LedgerSumsToBalanceHolds, ReversedOnceHolds | `FinanceInv`, `InventoryInv` |

*JournalInv.* AtMostOnce is not inductive: nothing in it excludes a second
executor past the gate. The invariant adds that at most one executor per key is
past it, that the row is then `dispatching` or was marked for reconciliation
under it, that a reserved row has seen no dispatch, and that the executor's
place tells whether the mutation happened. `recover()` is safe because it
reclaims only `reserved` rows. Refinement (`KeepsPromise`): each step maps to
`Apply`, `Settle` or a stutter; `Complete` writes a verdict into an open row or
is fenced out, since a closed row has no token. `LiveClaimIsExclusive` also
needs that only open rows have a lease (`OnlyOpenIsLeased`).

*RelayInv.* What a relay has in hand is written, and in the stream once it is
acknowledged; a published row has no claim. The bound on `attempts` needs a
count: once the attempts are used up, nobody new takes the row, so the attempts
and the relays that still hold it together never exceed the maximum plus the
other relays; each failure moves one from the second number to the first.

*IdemInv* (PostgreSQL store, any handler). Who executes holds an unexpired
record for its own body; a key that is free, or expired, has seen only effects
answered 5xx in its window. The theorems on replays and completed records, and
the refinement, assume `~TxCompletes`: a record completed in the business
transaction carries no response and may be overwritten or aborted. Refinement
(`PromisedHolds`): a claim is `KeyedExecution`'s start, an unheard one its
`ClaimUnheard`, an unanswered claim stays held, and only a 5xx or the end of the window frees the key.

*MapInv* (in-memory store). Execution is not exclusive there, so the invariant rests
on the record alone: `complete()` replaces it whole, with the hash of the request
that ends, so a completed record is always the response of a request that has
ended. With it `ReplayFaithful` is a theorem for either store.

*WorkflowInv.* `ClosedIsJustified` is not inductive because of what callers
remember: the invariant says that each caller's `seen` checkpoint bears the
step its guard required. History only grows, so a step appended on a stale
guard still has its predecessor in the history. Deciders hold disjoint sets of
pending approvals, which makes each decision final and recorded.

*FederationInv.* `ConfirmedIsApplied` rests on `ReceiptIsEarned` (a receipt is
written in the transaction that applies), `MirroredOnce` on the projector's own
check. `LapsedClaimHasNoSay` needs `EntriesFit`: a row that waits has no token,
so no holder's number matches. The refinement needs `FanoutsFit`: who has
inserted a key and not committed is alone with it.

*SlotsInv* and *WorkersInv* (`TaskPipeline`; its steps are steps of one part that
leave the other alone, or `PublishSlot`, which moves both). As long as nothing is
in doubt about a slot, who is at work for it is alone with its row, nothing was
published before, and an absent row has no copy; hence a row that was released
can be claimed again. For the workers, `Vouched` says what a worker's place tells
of its task (past the effect it has happened or its error was swallowed, before
the ack it is accounted for), and `AlwaysSole` that without a lapse an executor has the row to itself.
`RepeatsNeedALapse` needs a count: the effects, the workers that are running and
one if the row can be claimed never exceed one plus the lapses. A claim turns the
free place into a runner, the effect a runner into an effect, and only a lapse
adds a place; the set of workers must be finite for it.

*StoreInv.* `CommittedIsWhole` needs nothing about the memory of the replicas: a
guard's copy differs from what it read only by its own write or a removal, and
the commit compares every changed row with what was read, so whoever was in the
row stays in it or goes with it. A retry after a lost answer may commit a second
time, when someone removed the row in between; it then commits the same rows.

*FinanceInv.* What a marking has read is still so unless a write overtook it;
once the invoice is paid, whoever still means to edit it or a payment after
reading it unpaid counts as overtaken. The sum of the payments is never
computed: it is the same because the amounts summed are the same function.

*SyncInv.* `AttemptsBounded` needs a count (`AttemptsInv`): the entry's retries and
the replays that may still add one (`Adding`) stay below MAX_RETRY plus the
replays; a replay that has seen the entry exhausted gives up, so only those that
looked before can add. `ServerInv` is about a keyed operation: who executes holds
the key, alone, and a free key has seen only effects answered 5xx. The first says
nothing of the server, and the second nothing of the tab.

*InventoryInv.* None of the three properties is inductive, because of the
transactions that wait for their INSERT. `TxFit` says that such a transaction still
fits what it read: the line still lacks what it receives, and the move it reverses
is still posted. For the first it needs `Exclusive` (two open transactions never
share the order's lock, or a move's). A ledger row that tells where it acted
says what its transaction did to the stock (`Tells`), and a compensating move the
opposite of the move it names (`Undoes`; `Shaped` and `LedgerFits` carry that over
reversals of reversals). The sums run over sequences of any length. No induction
theorem of the library can be instantiated here, so `InductiveSet` derives from
the well-foundedness of `<` on the naturals that a set with 0 and the successors
of its members holds every natural number; the recursive function in `SumTo` is
shown to exist by it. From there on two facts suffice: sums of functions that
differ at one place differ by as much (`SumDiffers`), and deleting a row
takes away its summand (`SumWithout`). The stock changes at the one row of a
location and lot, which is what `astray` records.

*Only model-checked:* liveness (CallsReturn, PublishedOrExhausted, RequestsReturn,
FaultFreeRunsOnce, Settles, RowsConverge), which is beyond the prover, and the two
violations, whose evidence is a trace. Three theorems about the idempotency
records have the premise `~TxCompletes`, which is also the constant's value in the
run; section 3.3 says what finance handlers do instead.

## 7. What is not modelled

*Andon SLA watcher* (`sensei-workers/src/andon_sla.rs`). A polling pass: select the
breaches, mark and commit, publish. A crash or a failed publish after the commit
loses the escalation, since nothing selects the row again; every severity is
compared with the minutes for "critical" (`andon_sla.rs:85`). The outbox, which is
modelled, is the code's own remedy for the first.

*Event bus* (`sensei-event-bus/src/bus.rs`). Typed wrappers over JetStream; its
durable users, outbox and tasks, are modelled with the publish and redelivery they
rely on. Its own consumer loops end at the first error of their stream and
nothing restarts them (`bus.rs:290`). `notification_trigger_worker.rs` stamps
`last_triggered_at` before it persists the notification, so a redelivery after a
failure falls into the cooldown and is acknowledged without one.

*The rest of supply chain and finance*: suppliers, products, contracts, journal
entries, budgets, reports. *Other domain services, database layer and routes*:
single transactions whose correctness is that of their SQL. *Agent retrieval and
verification, native primitives*: sequential functions. *Realtime fan-out* promises
nothing. *User interface, deployment and legacy import* are I/O.
*Authentication and access control* are outside the aim of these models.

Within the modelled components: the policy engine and the RAM cache of the tool
executor, generic workflow transitions, payloads, and the wording of errors.
The components not modelled make up most of the source lines; what is modelled
is where the code has protocols of several steps.
