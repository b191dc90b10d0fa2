# DBackup in TLA+

DBackup is a self-hosted backup server: one Node.js process, one SQLite
database behind Prisma, and a number of databases, directories and storage
destinations it talks to. Everything below refers to the repository; the
application's code is under `src/` of it (`src/lib/runner.ts` and so on).

The process is single-threaded. What makes its behaviour hard is that every
`await` is a scheduling point: between the query that reads a row and the
statement that uses the answer, any other handler, timer or run may go on. The
models therefore take **one action per segment between two awaits**, with the
effect of the query the segment issues; the answer is used in a later action.

## 1. Inventory

| Part | State it keeps | Operations | Hard because |
|---|---|---|---|
| Execution queue, runner (`lib/execution/queue-manager.ts`, `lib/runner.ts`) | `Execution` rows (status, startedAt) | `runJob`, `processQueue`, `performExecution` | passes overlap; count, selection and claim are separate queries |
| Abort registry (`lib/execution/abort.ts`) | map execution to AbortController | register, unregister, abort | must match the runs through every exit |
| Restores (`services/restore/`) | an Execution row, created Running | `restore`, `runRestorePipeline` | outside the queue's limit but counted by it |
| System tasks (`lib/runner/system-task-runner.ts`) | an Execution row, Pending then Running | create, start, finish | their rows look like queued ones |
| Completion (`lib/runner/steps/04-completion.ts`) | final status, logs, statistics | `stepCleanup`, `stepFinalize` | last write of a row that others may have closed |
| Cancel route, watchdog (`api/executions/[id]/cancel`, `stuck-execution-service.ts`) | none | read a row, signal, write | check-then-act on the row |
| Maintenance (`lib/server/database-maintenance.ts`, `database-service.ts`) | a flag | `withMaintenance` | the flag is read long before the claim |
| Shutdown, recovery (`lib/server/shutdown.ts`, `lib/execution/recovery.ts`) | a flag | drain, abort, exit; at boot: fail what was open | crash at any step |
| Log flusher (`lib/execution/log-flusher.ts`) | timer, write in flight, repeat | schedule, flush, dispose | deferred writes against the final one |
| Backup chains (`services/backup/chain-planner.ts`, `03-upload.ts`) | rows of history, archives per destination | plan, upload | partial uploads, deletions, leftovers of cancelled runs |
| Retention (`services/backup/retention-service.ts`, `05-retention.ts`) | none; deletes archives | tiers, chain protection | boundaries of the tiers; deletion fails half way |
| Storage explorer (`services/storage/`) | one cached listing per destination, a sidecar per backup | list, reconcile, lock, verify, delete one or many | read-modify-write of one blob, and of one file, by tasks that know nothing of each other |
| Connection pool (`lib/adapters/storage/common/connection-pool.ts`) | parked and counted connections, a queue of waiters | acquire, release, close | connections die; a woken borrower may be overtaken |
| Concurrency gate (`lib/concurrency.ts`) | a count, a queue | run | a slot is free before its waiter resumes |
| Scheduler (`lib/server/scheduler.ts`) | cron tasks, two flags | refresh, stopAll | tables are edited while a refresh reads them |
| Health checks (`services/system/healthcheck-service.ts`) | status and failure count per adapter, one record of notices | a cycle every minute | cycles overlap and write the whole record |
| Storage alerts (`services/storage/storage-alert-service.ts`) | configuration and record of active alerts per destination | a pass after every refresh of the statistics | passes overlap in the same way |
| Configuration backup (`lib/runner/config-runner.ts`) | files in a folder of one destination | export, retention | failing calls; what the deletion names |
| Data retention, adapters, transport, archive, crypto, auth, UI | rows, data and I/O | | not protocol; see section 8 |

They interact through the `Execution` table (runner, queue, cancel, watchdog,
recovery, shutdown, history, chain planner all read or write it), through
process-wide flags (shutdown, maintenance), through the abort registry, and
through the files on the destinations (upload, retention, explorer, planner).

What makes each of them correct is in section 4; every hazard with its line is
in `PROJECT.json`.

## 2. Modules

| Module | Models | Composition |
|---|---|---|
| `ExecutionLifecycle` | what the Execution table promises its readers: queued or started at once, started at most once, closed for good | abstract specification |
| `ExecutionQueue` | queue, runner, abort registry, restores, system tasks, cancel, watchdog, maintenance, shutdown, crash and recovery over one Execution table | `Ledger == INSTANCE ExecutionLifecycle WITH phase <- ...` |
| `MCExecutionQueue` | instances of it | |
| `ExecutionQueueProofs` | that slots, registrations and rows stay together, the order of claims, and that the queue implements the lifecycle | EXTENDS `ExecutionQueue`, TLAPS |
| `LogFlusher` | the log of one row: the progress writes of its run, the final write, and the writes of a cancel request and of the watchdog | part of `MCSharedResources`; of the status it has what these writers look at |
| `Retention` | `RetentionService.calculateRetention`: Simple and Smart policies, chain protection | operators only |
| `RetentionHistory` | one destination judged again after every backup, with locks | EXTENDS `Retention` |
| `BackupChain` | an incremental job: plan, upload, retention, completion, interruption, and the user's deletions, locks and integrity checks | EXTENDS `Retention` |
| `MCBackupHistory` | the chains of a job and the history of a destination, one at a time, with the small policies of the latter | EXTENDS `BackupChain`, `RetentionHistory` |
| `RetentionLemmas` | what the operators of `Retention` return | EXTENDS `Retention`, TLAPS |
| `RetentionProofs` | that chains are deleted whole, what the tiers keep, and that the newest buckets survive | EXTENDS `RetentionHistory`, `RetentionLemmas` |
| `BackupChainProofs` | that what is on a destination can be restored from it, and what chains hold back from retention | EXTENDS `BackupChain`, `RetentionLemmas` |
| `StorageListing` | the storage explorer: one destination, its sidecars and its cached listing, under every operation that touches them | on its own: the chain of a backup is `BackupChain`'s |
| `StorageListingProofs` | that no sidecar is lost, and that undisturbed operations keep the listing exact | EXTENDS `StorageListing`, TLAPS |
| `ConnectionPool` | the bounded pool of connections of an SFTP or FTP adapter | part of `MCSharedResources` |
| `ConcurrencyGate` | the bound several loops share | part of `MCSharedResources` |
| `MCSharedResources` | pool, gate and log flusher, one at a time | EXTENDS the three |
| `Scheduler` | refreshes of the cron timers while the tables change | part of `MCPeriodicWork` |
| `HealthCheck` | overlapping cycles of health checks | part of `MCPeriodicWork` |
| `StorageAlerts` | overlapping passes over the alerts of a destination | part of `MCPeriodicWork` |
| `ConfigBackup` | exports of the configuration and their retention | part of `MCPeriodicWork` |
| `MCPeriodicWork` | the four, one at a time | EXTENDS the four |
| `ConnectionPoolProofs` | the pool's limit, who holds what, and that no waiter is forgotten | EXTENDS `ConnectionPool`, TLAPS |
| `SharedResourcesProofs` | that no wake-up of the gate is lost, and their order; that no write of a run takes a line of the log away; the three side by side | EXTENDS `MCSharedResources`, `ConnectionPoolProofs` |
| `PeriodicWorkProofs` | one refresh at a time, and timers that are those of the tables; how often a startup run is armed; the four side by side | EXTENDS `MCPeriodicWork`, TLAPS |

### ExecutionQueue and the code

- `status`, `created` are columns of the Execution rows. `created` is the order
  of `startedAt` while a row is Pending. Success stands for Partial as well:
  nothing in this component tells them apart.
- `pass` holds the calls of `processQueue` in progress: `entered` (flags read,
  count issued), `counted` (free slots known), `starting` (rows selected, their
  `performExecution` called one after another).
- `worker` holds the runs in progress, whichever of the three kinds they are;
  the program counter names the await a run is in. `outcome` is the context's
  status between the pipeline and `stepFinalize`.
- `acks` is the window between the creation of a row in `runJob` and its call of
  `processQueue`.
- `controllers`, `aborted` are the abort registry and the signals given.
- `cancel` and `sweep` are a cancel request and the watchdog's sweep between
  their reads and their writes.
- `server` is the life of the process through shutdown, exit and recovery.
  `Exit` and `Crash` lose every variable but the rows (`LoseMemory`).
- The database may refuse `MaxFaults` statements. `faulted` names the rows whose
  run, or recovery, met one; `failures` counts those that belong to no run:
  the queries of a pass (`LosePass`), a claim (`ClaimRefused`, after which
  `Promise.allSettled` lets the pass go on to its next pick and `refused`
  remembers the row) and the watchdog's update (`SweepFail`, which ends the
  sweep). At boot the recovery's own `findMany` may be refused: nothing is
  recovered, the server starts, and the rows left open are `faulted` (`Boot`).
  A refused statement of a cancel request, of `runJob`'s insert or of the
  watchdog's query changes nothing, the request or the sweep just ends; one of
  the shutdown sequence is not modelled (it goes on to exit, and the next start
  finds the rows as after a crash).

The whole handler is in the action: `Finalize` updates by id whatever the row
says; `Unregister` removes the controller before the status is written, as the
`finally` block does; `EndRestore` calls `processQueue`; `FinishTask` does not.

### LogFlusher and the code

`entries` is the length of the live log buffer, `row` what the database holds
of it, whether that is the final update, and whether the status is Running;
`elapsed` is `Date.now() - lastWrite >= intervalMs`. `write` reads the
buffer when it is issued; the database stores it or refuses it, and a refused
one is forgotten (`lastWrite` is set already, `log-flusher.ts:85-89`). `Dispose`
drops the timer and nothing else. `Log` may happen after `Dispose`, because
`stepCleanup` and the notifications log. `isTask` tells a system task, which
forces writes (`ForcedLog`) and is not in the abort registry, from a run.

Two others write the same column from a log they have read. A cancel request
that finds the run untracked reads the log and writes it back by id, whatever
became of the row meanwhile (`CancelReadLog`, `CancelWrite`; the branch for a
Pending row writes a log of its own, which is the request that `FlusherInit`
may begin with). The watchdog reads the log with its list and writes only where
the row is still Running (`SweepRead`, `SweepWrite`). Their closing line is not
counted. `lost` is not in the code: it is how far a refused write, or the write
of another, has kept the row behind.

### Retention, RetentionHistory and the code

A backup is named by `effectiveBackupTime`. A bucket is the time divided by the
tier's width: the calendar (time zones, months of unequal length) is left out,
what the algorithm does with bucket keys is not. A tier that is absent or 0 is
one with limit 0. `applyTier` is the code's loop as a fold over the files,
newest first; the property `TiersAsDocumented` states the result without a loop.
`present` and `locks` are the backups of the destination and the locked ones.
`RetentionHistory!Backup` is a run: upload, then `calculateRetention` over what
is present, the new backup included. The chain of a backup is `PossibleChains`,
any that `planChain` could choose.

### BackupChain and the code

- A run, its row and its archive are named by the day. `archive` holds the chain
  bookkeeping (`chainId`, `chainIndex`, `baseArchive`), `recorded` the rows that
  ended Success or Partial, which are those `latestChainSnapshotWhere` finds.
- Time is counted in half days: a run is claimed and planned in the first or the
  second half of its day (`Moment`), because it waited, was started by hand, or
  the day has 23 hours. `start` is when the full of the chain was claimed, and
  `ChainTooOld` compares the time from there to the planning with
  `fullEveryDays`, as `chain-planner.ts:159-160` does. A late full is the trouble
  `late` (`PlanLateFull`); an incremental run plans at either moment.
- `stored` and `sidecars` are the `.tar` and `.meta.json` files at each
  destination. `locked` and `damaged` are the flags in the sidecars: they come
  and go with the file. `torn` names archives a failed upload has cut short; the
  code cannot tell them from whole ones.
- `run` is the run between its awaits: the destination it is at, which uploads
  succeeded, and what retention has judged expired and not deleted yet.
- `planChain` is one step, `PlanFull` or `PlanIncremental`. A full is always
  possible (the profile, the sources or the patterns may have changed, an index
  may be unreadable); an incremental one has every check of the code as its
  guard. What changes at a destination while the planner reads the next one is
  either missed or happens after it, which the step and `DeleteFile` cover.
- `Upload` is the sidecar and the archive of one destination; where the upload
  fails in between the sidecar stays (`FailUpload`) or a part of the archive as
  well (`TearUpload`, the local adapter).
- Retention lists, judges and deletes in separate steps, file by file, newest
  first. `FailDelete` is both the adapter that throws (nothing is deleted) and
  the one that answers `false` (the sidecars go, the archive stays).

`doubtful` is the part of the model that is not in the code. A chain is doubtful
once one of these has happened in it, and `ChainsRestorable` promises nothing
about it:

1. an archive is deleted under a run that has planned to build on it
   (`DeleteFile`; the dependency check sees the destination, not the run);
2. a run that was never recorded leaves its archive in the chain's folder
   (`AbandonRun`: it was interrupted, or all of its uploads failed, one of them
   half way; the next run takes the same position);
3. retention cannot read a sidecar (`RetainUnread`; the backup counts as
   unlocked and chainless);
4. a deletion fails and the next one goes on (`FailDelete`, `FailDeleteFile`).

None of the four can be dropped: without any one of them `ChainsRestorable` is
violated. They are limits of the code, listed as hazards. For the failed run of
the second item it takes three troubles to see it: every upload of a snapshot
fails, one of them half way, so that a part of it stays at one destination; the
next snapshot takes the same position and fails to arrive there; and the run after
it finds the full and the torn archive there, which is the number it expects,
although its base is not among them.

### StorageListing and the code

- `remote` and `sidecar` are the files of one destination, `cache` its row of
  `StorageListCache`: absent, of an older release, or current. A listing maps a
  path to what the row shows of the sidecar, the lock and the verdict.
- `task` holds the operations in flight, each a small program counter over its
  awaits. All changes of the listing pass through `ReadCache` and `StoreCache`,
  as they pass through `mutateStorageListCache`; `Patched` and `Touched` are the
  callbacks. `ListRemote`, `Compare`, `EnrichNew`, `Touch` and `StoreCache` are
  `reconcileStorageListCache`; `List`, `Enrich` and `Upsert` the live listing.
- Retention does not await its removals from the listing (`ExpireSidecar`).
- `disturbed`, `held` and `refused` are not in the code. They say that two
  operations met, which backups users rely on being locked, and where a
  `delete()` that answered false was followed by the deletion of the sidecar.

### The shared resources and the code

In `ConnectionPool` a borrower is a call of `withConnection`; `looking` is a
turn of the loop in `acquire()`, which runs without an await from the popping of
parked connections to the branch it ends in (`Take`, `Connect`, `Wait`).
`opening` is the number of borrowers that connect. In `ConcurrencyGate` the
state `woken` is the time between `waiting.shift()` and the continuation of the
caller, in which a newcomer finds the slot free. `LogFlusher` is described above.

### The periodic work and the code

- `Scheduler`: `table` is what the database says, `tasks` the map of cron
  timers. An activation of `refresh()` is at one of its awaits. `ghosts` would
  hold timers that were set over another one without stopping it. `failed` names
  what the last refresh could not read: its timer is gone until the next one.
- `HealthCheck`: a cycle keeps what it read of the rows and of the record, checks
  the adapters in any order, and writes back the record if it changed it.
  Events (an adapter changes, notices are switched, a reminder falls due, a
  write fails, the process dies) are bounded by `MaxEvents`.
- `StorageAlerts`: the same for one destination; `alertNotices` has one bit per
  alert that flips with every notice sent.
- `ConfigBackup`: a path is a folder, an export and whether it is the sidecar.
  `name` is what `list()` puts into a file's name: the last part of the path.


## 3. Bounds

Executions, passes and workers are the bounds of the queue: `Pass` bounds the
calls of `processQueue` in progress at once and `Worker` the runs. Two passes
are what it takes for a pass to meet another at any of its steps, and the
passing runs reach all of them; three workers let one execution of each kind
run at once. An action that needs a free pass or worker waits for one, which
removes no interleaving of those that remain. `MaxFaults` is 1 in every passing
run of the queue: any one statement of a pass, a claim, a run, the recovery or the
watchdog is refused. `Cancellable`, `MaxFaults` and
`Disturbances` select which outside events a run explores, so that each run
fits: every event is explored by one of the passing runs. `MaxEntries` = 4 log
lines give a first write, a deferred one, one during each of the two writes.
Passes and workers are interchangeable (symmetry, used in safety runs only).

`BackupHistory` puts two modules without a common variable into one instance:
a behaviour is one of the chains or one of the history, chosen at the start.
For `RetentionHistory` it explores seven points of time with at most one lock,
under policies of one to three tiers: enough for the finest bucket to fill its
tier, the next one to add to it, and a pass to judge what earlier passes have
left. For `BackupChain` it explores five days with `fullEveryDays` 4 on two
destinations: a chain of four and the day it ends; two destinations
are what it takes to be whole at one and not at the other. With the full late in
its day the chain has five members, one more than on time, which the bound of
`WorstCaseHolds` names. `MaxTroubles` = 2 allows any pair of troubles. Longer
combinations are what the theorems of section 6 are for, which hold for any
number of them.

`StorageListing` has two paths and two tasks, with two operations begun (three
in `ListingLock`) beside the hourly warm-up, which is not counted: two is what
it takes for one change to be lost under another, and the warm-up then meets
what is left. `SharedResources`: three borrowers on two connections (one uses,
one connects, one waits), five calls, so that a newcomer overtakes, and one
connection that dies; four callers on two slots with seven runs; four log lines.
`PeriodicWork`: two activations of `refresh()` beside two edits and one failing
query (a third refresh adds another to a queue of one); two health check cycles
and two adapters with two events, which with a threshold of three failures reach
OFFLINE, the recovery and a crash in between; two alerts, two passes and three
events; three exports by two runs of which two are to be kept.

## 4. Runs that pass

| Run | Instance | Shows |
|---|---|---|
| `QueueClaims` | two backups, one system task, two passes, three workers, limit 2, one refused statement | `TypeOK`; `SingleRun`: no execution has two runs; `ClaimsInOrder`: no backup is claimed while an older row waits, but by a pass to which that row's claim was refused |
| `QueueRestart` | a backup and a restore, two workers, cancel, maintenance, shutdown and crash at any step, one refused statement | `SlotHasHolder`, `RegistryMatchesRuns`, `CleanStart`, and `FollowsLifecycle`: the rows implement `ExecutionLifecycle` |
| `QueueProgress` | two backups on one slot, runs that hang, one refused statement, fair scheduling | `QueuedRunStarts`: unless the refused statement is the queue's or the watchdog's own; `SlotsReturn`: also when it is the run's |
| `BackupHistory` | chains: 5 days, 2 destinations, any two of eight troubles; history: 7 points of time, one lock, policies of up to three tiers | chains: `TypeOK`; `ChainsRestorable`: an archive has its ancestors beside it; `WorstCaseHolds`: `keepCount + fullEveryDays - 1`, one more with a late full. History: `HistoryTypeOK` (no locked backup is deleted); `NewestBucketsSurvive`; `TiersAsDocumented`; `ChainsDeletedWhole` |
| `StorageListing` | 2 paths, 2 tasks, 2 operations and the warm-up, failing uploads and deletions, crashes, deletions outside | `TypeOK`; `SerialListingExact`; `SidecarKept`; `ListingConverges`: the listing comes to name what is there (its flags it may keep wrong, reconciliation compares names) |
| `SharedResources` | 3 borrowers, 2 connections; 4 callers, limit 2; 4 log lines | pool: `PoolBounded`, `NotShared`, `NoWaiterStranded`, `WaiterServed`; gate: `NoSlotIdle`, `WokenInOrder`, `EveryCallRuns`; flusher: `DeferredReachesRow`, `NoLineLost`; `TypeOK` |
| `PeriodicWork` | 2 jobs, a system task, 2 refreshes; 2 adapters, 2 cycles; 2 alerts, 2 passes; 2 runs of configuration backups | scheduler: `NoGhostTimers`, `TimersFollowTables`, `LastEditTakesEffect`; health: `StatusConverges`, `RecordConverges`, `NoticesCease`; alerts: `AlertsConverge`, `AlertsCease`; `TypeOK` |

Where a property excuses something it says so: `SlotHasHolder` excuses rows
whose query the database refused (after a claim, `findUnique` outside the `try`
loses the run and keeps the row Running; only the watchdog or a restart frees
it, and `SlotsReturn` says that the watchdog does). `RegistryMatchesRuns` is about
backups and restores; system tasks are never registered. `DeferredReachesRow`
excuses three things: the request that arrives while the repeat write is in
flight, which `run()` notes and nobody serves before the next request; the lines
of a refused write; and what the write of a cancel request or of the watchdog has
put itself over. `NoLineLost` names those two writers.

**Fairness.** `FairSpec` lets every continuation whose await has returned run
eventually: the event loop does. A hung source owes nothing (`Hang` and
`Resume` have no fairness). A run that hangs and resumes for ever still has its
continuations queued each time, hence strong fairness of `RunStep`. The watchdog
is a cron task of the same process (`*/5 * * * *`), enabled by default; it sweeps
again and again, hence strong fairness of `SweepList`. No fairness is given to
users, crashes or shutdown requests. In `LogFlusher` timers fire and queries
return; the run owes neither log lines nor an end.

In `StorageListing` an operation that has begun goes on (its promises settle),
and the hourly warm-up comes round; users owe nothing. In the pool and the gate
continuations run, `connect()` returns and whoever uses a slot is done with it
at some point: transfers have timeouts. Calls are finite (`MaxCalls`,
`MaxRuns`), as a transfer's are; with newcomers for ever a woken borrower could
be overtaken for ever, which the loop in `acquire()` does not prevent. In the
`Scheduler` a caller that has written the database goes on to `refresh()`, and
its awaits return. Health checks and statistics are cron tasks, so that their
cycles start for ever, and each ends because the checks have timeouts. What goes
wrong or changes in the world is finite: the properties say what remains after.

`MCSharedResources` and `MCPeriodicWork` put modules without a common variable
into one instance. A behaviour is one of a single part, chosen in `Init`, and
fairness is conditional on that choice; the others stay where they began. This
loses nothing: no property relates two of the parts, and the code does not
either.

## 5. Runs that end in a violation

Each checks one sentence of the repository against the code.

| Run | The sentence | What the trace shows |
|---|---|---|
| `QueueLimit` | "By default, one backup runs at a time." (`docs/user-guide/jobs/index.md:217`) | two passes both count no running row, both claim |
| `ChainTorn` | "because one of its uploads failed earlier - the whole run degrades to a full" (`services/backup/chain-planner.ts:134`) | an upload fails half way, the part that was written counts as the archive |
| `ChainDamage` | a run falls back to a full when "the chain's full backup failed its last integrity check" (`docs/user-guide/features/backup-modes.md:176`) | a check of the full fails at the second destination, the planner reads the first one's sidecar and continues the chain |
| `ListingLock` | "Never deleted by retention" (`docs/user-guide/jobs/retention.md:142`) | a verification reads the sidecar, the backup is locked, the verification writes the sidecar back as it was, retention deletes the backup |
| `ConfigRetention` | "Number of backups to keep" (`docs/user-guide/features/system-backup.md:48`) | the third of two exports to keep is deleted by its base name, in the root, where it is not |

## 6. Theorems

**The queue.** In `ExecutionQueueProofs`, for all sets of executions, passes and
workers, every limit and every choice of disturbances:

- `Invariance`, `QueueInvariance`: the inductive invariants `IInv`, `QueueInv`;
- `TypeCorrect`, `OneRunPerExecution`, `SlotsHeld`, `RegistryExact`: `TypeOK`,
  `SingleRun`, `SlotHasHolder`, `RegistryMatchesRuns` are invariants;
- `StartsClean`, `FirstInFirstOut`: the action properties `CleanStart`,
  `ClaimsInOrder`, each with the exception it states;
- `ImplementsLedger`: `Spec => FollowsLifecycle`, the refinement.

Assumptions: those of `ExecutionQueue` (the three kinds of execution are
disjoint, the set of executions is finite, the limits are natural numbers).

`SingleRun` alone is not inductive. A second owner could appear if a row that
has an owner were Pending again, or if a busy worker had no execution. So
`IInv` is `TypeOK` with `OwnersInv`:

- `BusyHasExec`: a worker that is not idle names an execution;
- `OwnedRowsStarted`: an owned row is neither Absent nor Pending;
- `SingleRun`.

The argument: ownership begins only where a row is claimed (`Claim`,
`StartTask`) or created Running (`StartRestore`), and by `OwnedRowsStarted` a
claimable row has no owner (`NewOwner`). Every other action moves or frees a
worker (`MoveKeeps`, `FreeKeeps`), touches no worker (`QuietKeeps`) or forgets
all of them (`EmptyKeeps`); and none puts an owned row back to Pending
(`SetForward`). One lemma per kind of step, `OwnersNext` puts them together.

For the rest `QueueInv` adds to `IInv`:

- `KnownRowsExist`: a cancel request, the shutdown, the recovery and a pass know
  only rows that were created. They write by id, and without this a row could be
  closed that never was queued;
- `HoldersInv`: at each program counter what a run may rely on (`RunsInv`: its row
  exists, a run that is about to finalize has a terminal outcome, its controller
  is registered exactly while it works), what a registered controller belongs to
  (`ControllersInv`), `SlotHasHolder` itself, and that recovery still has on its
  list what it has not closed (`RecoverInv`);
- `OrderInv`: a row is queued once (`CreatedOnce`), and what waits longer than a
  row that a pass has picked the same pass has picked as well (`PicksOldest`).

`RowMove` says what a step may do to the rows: each goes forward, one that was
never made is not closed, and a step that opens a row changes no other. Under
the refinement mapping (`PhaseOf`) such a step is one of `ExecutionLifecycle`, or
changes nothing there; the proof splits it by the rows it changes.

**Retention.** In `RetentionProofs`, for every set of policies, any number of
locks and any length of history:

- `RetentionInvariance`: `HistorySpec => []IInv`;
- `WholeChains`: `HistorySpec => []ChainsDeletedWhole`;
- `RetentionTypes`: `HistorySpec => []HistoryTypeOK`;
- `TiersDoWhatIsSaid`: `HistorySpec => []TiersAsDocumented`;
- `NewestBucketsKept`: `HistorySpec => []NewestBucketsSurvive`.

They assume `HistoryAssumption` (the bounds are natural numbers, and so are the
counts and limits of the policies; no bucket has width zero). What the tiers keep
does not matter to the chains, so the lemma `DeletesWhole` leaves their
definitions closed: of a chain, `protectIncompleteChains` lets all files go or
none, and a locked file is never among those judged. The strengthening is
`ChainsStartFirst`, a chain is not older than its members: with it a new chain
has only the new backup in it, while an old one is continued from a backup that
is stored, so that by `ChainsDeletedWhole` all of it is.

The tiers are in `RetentionLemmas`. `applyTier` and `KeptByTiers` are folds, and a
fold is a chosen solution of a recursion over sets of positions: `FoldExists`
builds one, `TierFold` and `TiersFold` read off the states the loop goes through.
`TierSoFar` is the loop's invariant: every file seen so far is in a used bucket, or
the tier is full and all its buckets are newer; what the tier gained is the newest
file of a bucket that was not reserved; `kept` is the number of these buckets.
`TierKeeps` concludes that a tier adds the newest file of each bucket that is open
and has fewer than `limit` open ones above it, which is what the documentation
says, and `KeptByTiersStep` that each tier works on what the ones before it left.

`NewestBucketsSurvive` is inductive beside `HistoryTypeOK`. A bucket that is among a tier's
newest after a run was so before it, or is that of the new backup, so it has a file
when retention begins; a locked one stays, one that an earlier tier holds stays
(`TiersGrow`), and otherwise it is open and has fewer open ones above it than the
limit, so the tier takes it (`RetentionLeaves`).

**Backup chains.** In `BackupChainProofs`, for any number of destinations, days
and troubles, every age and count: `ChainInvariance`, `ChainTypes` (`TypeOK`),
`ArchivesRestorable` (`ChainsRestorable`) and `BacklogBounded`
(`WorstCaseHolds`), from `ChainAssumption`. `ChainInv` consists of

- `TypeOK`, `Files`: the shapes, and that only planned days have files;
- `Bookkeeping`: every planned run is the first of its chain or comes next after a
  recorded one (`Position`), and the recorded runs of a chain up to one of them
  are as many as its position says (`UpTo`): the history has no gaps;
- `RunPlanned`: the run in progress is not recorded yet and builds on the latest
  that is;
- `OnlyRecorded`: what lies in a chain's folder is recorded, belongs to the run in
  progress, or the chain is doubtful;
- `BaseThere`: while a run uploads, everything it builds on is at every
  destination;
- `ExpiresWhole`: if retention is deleting an archive, the later ones of its chain
  at that destination are being deleted too;
- `ChainsRestorable`.

The heart is the planner's check. `chainIntactAt` compares a number: as many
archives as the position of the latest snapshot asks for. By `OnlyRecorded` they
are recorded, by `Bookkeeping` no more recorded ones exist, so a set that is
included in another of the same cardinality is all of it (`IntactIsComplete`):
the base of the new run is there with all its ancestors. Retention deletes the
latest archive first, and users only one nothing sorts after, so a deletion never
takes an ancestor away (`RemoveInv`, `AncestorsWithin`).

`Ancestors` is a recursive function, and nothing but its equation is of use once
it is known to have one. The induction that needs (`WalkExists`, the walk down the
chain ends because bases are earlier; `AncestorsWithin`) is done by the least
counterexample: `LeastNumber` draws it from `WFMin`, which takes a relation
and not an operator as its parameter.

`BacklogBounded` needs two more facts. No archive is older than its chain by
`fullEveryDays` or more, or by more than that where the full was late (`Young`,
from the planner's age check in half days), and the Simple
policy keeps the `keepCount` newest of what it judges (`SimpleKeepsNewest` in
`RetentionLemmas`; every position of `NewestFirst` is somebody's by a pigeonhole argument, `RankOnto`). What
protection adds is older than all of those and in a chain with one of them, hence
among the `fullEveryDays - 1` days before the oldest that is kept, or among the
`fullEveryDays` days if that chain's full was late (`HeldBack`).
This does not ask the chains to follow one another in time, and indeed they need
not: after a full that was never recorded the planner goes on with the old chain.

The attempt to prove `BaseThere` inductive corrected the model: a run all of whose
uploads fail used to leave the chain undoubted, and `ChainsRestorable` was false
for three troubles, one more than the run explores (see section 2).

**The storage explorer.** In `StorageListingProofs`, for any files, tasks,
operations and starts, crashes and refused deletions included: `TypeInvariance`,
`TypeCorrect` (`TypeOK`), `SidecarInvariance` and `SidecarsStay`
(`SidecarKept`), `SerialInvariance` and `ListingExact` (`SerialListingExact`),
from `FileAssumption` and `StartsAssumption` (finitely many paths, none of them
the name for no path, a natural number of operations).

- `TypeInv` adds to the types the shape of a task: which steps its kind of
  operation goes through, and which of them are about a file.
- `SidecarInv`: a path whose archive is awaited (no run has uploaded to it, or one
  is) is unknown to the destination, to the listing and to every other operation
  (`AwaitedUnknown`), and no two uploads share one (`UploadsApart`). So whoever is
  about to delete a sidecar is about a path whose archive was there and is gone, or
  whose deletion was refused (`RemovedGone`), and `SidecarKept` follows. All steps
  but those of an upload are `Quiet`: they know no more than was known.
- `SerialInv`: while no two operations met and none failed, one is in flight at
  most, and for each of its steps `SerialOk` says how the row differs from the
  destination: not at all, by the paths deleted so far (`ExactWithout`), by the
  flags written so far (`Relocked`), or by the patch that is due (`PatchDue`).

**The connection pool.** In `ConnectionPoolProofs`, for every limit and any
borrowers and connections: `PoolInvariance` (`PoolSpec => []IInv`), `LimitHolds`
(`PoolBounded`), `OneBorrowerEach` (`NotShared`) and `NobodyForgotten`
(`NoWaiterStranded`), from `PoolAssumption` (finite sets, a limit above zero).
`IInv` adds to the types that a parked connection is open (`IdleOpen`), that
while the pool is open what a borrower holds is counted (`HeldCounted`) and what
is counted and not parked is held by somebody who uses it (`CountedHeld`), and
that the queue names callers that wait, each once (`WaitersWait`). `CountedHeld`
is what keeps a waiter from being stranded: it queues only where the limit is
taken and nothing is parked, so somebody uses or opens a connection, and each
step by which a borrower ends its part (`Release`, `Opened`, `ConnectFails`)
wakes the next. `PoolBounded` is inductive beside it: `Connect` has found room,
in `Opened` a connection takes the place of the borrower that was opening it,
and no other step adds anything (`Shrinks`).

**The concurrency gate.** In `SharedResourcesProofs`, for every limit and any
finite set of callers: `GateInvariance`, `GateInFullUse` (`NoSlotIdle`) and
`QueueIsFifo` (`WokenInOrder`), from `GateAssumption`. `NoSlotIdle` needs that `active` is the number of
callers that run (`ActiveCounts`) and that the queue names waiting callers, each
once (`QueueWaits`): a finishing call takes one from `active` and, where the
queue is not empty, adds one to the woken, so the sum stays.

**The scheduler.** In `PeriodicWorkProofs`, for any jobs, schedules, activations,
edits and failing queries: `SchedulerInvariance`, `OneTimerEach`
(`NoGhostTimers`) and `TimersAreCurrent` (`TimersFollowTables`), from
`SchedulerAssumption` (jobs and system tasks are disjoint, "off" is no
schedule). Neither is inductive. `OneRefresh` says that `refreshing` is up
exactly while one activation is past the guard, and that only then one more can
be queued. `Stage` says what that activation may rely on at each await: before
it has the rows there is no timer at all; then none for the system tasks still
to come; and what it has read is what the tables say, unless another look at
them is owed (`Calm` is the absence of that: no call due, none queued, none
about to start, no shutdown). `Settled` carries the last stage over to the time
after the refresh. Every edit makes a call due, so it cannot make a stage
false; `ActiveStep` reduces each await to the stage it reaches.

**The log flusher.** In `SharedResourcesProofs`, for any number of entries, slow,
refused or forced writes and the writes of others: `FlusherInvariance` and
`LinesStay` (`NoLineLost`), from `FlusherAssumption`. Neither the row nor what a
cancel request or the watchdog has read of it is ever ahead of the buffer
(`RowIsPrefix`). A step of the run leaves the row or makes it the buffer as it is
after the step (`RunEffect`), so it cannot shorten it; a step of the others puts
back what was read, and the watchdog only over a row that is open (`OtherEffect`).
A watchdog that has read the log before the end can therefore not undo a stored
end; a cancel request can.

`ResourceTypes` puts pool, gate and flusher together: a step of `MCSharedResources`
is one of each part or leaves it alone (`PartsStep`), so the three inductive
invariants hold there, and with them `TypeOK`. `PeriodicTypes` does the same for
the scheduler, the health checks, the alerts and the configuration backups, from
the assumptions of the four modules (bounds that are natural numbers).

For the scheduler `TypeOK` is not a matter of types alone: it bounds how many
startup runs of a system task can be armed at once, which no guard of the code
limits. `CountInv` keeps an account: the startup runs armed for a task, the one
that the activation in progress may still arm (`Arming`), and the refreshes that
are owed, whether their callers have yet to call, one is queued or one is about to
start (`Owed`), are together no more than the changes of the settings and one. An
edit raises both sides; a call that finds the guard up gives its due for the
queued one, or for nothing; past the guard what was owed becomes `Arming`; and a
task is off the list when its startup run is armed (`TasksApart`), so that it is
armed once. The other three are inductive as they stand.

Every invariant and every action property of the passing runs has its theorem.
Only model-checked, and for good, is everything with fairness (`QueuedRunStarts`, `SlotsReturn`, `DeferredReachesRow`,
`WaiterServed`, `EveryCallRuns`, `ListingConverges`, `LastEditTakesEffect`,
`StatusConverges`, `RecordConverges`, `NoticesCease`, `AlertsConverge`,
`AlertsCease`), which the prover does not reach. Induction over data is within
its reach only where it can be put as a least counterexample among the natural
numbers, as for `Ancestors` and the tiers; the library's induction theorems take an operator
as a parameter.

## 7. Plan

1. Done: queue, runner and their surroundings; log flusher; first theorems.
2. Done: retention and its proof, backup chains and theirs.
3. Done: scheduler, storage explorer, connection pool, concurrency gate, health
   checks, storage alerts, configuration backup, and the safety
   of scheduler, pool, gate and log flusher proved.
4. Done: the queue's slots, registry, order and refinement, the explorer's
   sidecars and listing, the order of the gate, the chain invariant and the worst case.
5. Done: the tiers of retention, by least counterexample over the positions of
   the fold, and the newest buckets.
6. Done: the types of the periodic work, with the account of the startup runs.
7. Done: refused claims, passes and recoveries, the other writers of the log, the
   age of a chain in fractions of a day, each with its proof.

## 8. Not modelled

Most of the repository has no protocol state of its own. The web interface
(`src/app`, `src/components`: more than half of the lines) is views and request
validation; the routes that change executions are modelled with their component.
The adapters are I/O with databases, shells and storage providers and appear as
what their calls answer: success, failure, false, a file left half written.
Archive bytes, compression, checksums and cryptography are data. Authentication
and rate limits are request-local or kept by a library. Data retention deletes
rows by age which nothing changes any more. The import of a configuration is one
transaction. The pipeline of a backup is one phase of the queue's model
(`Work`), since nothing in between changes what the queue sees; a restore's is
`WriteRestore`. Log texts, progress and timestamps are left out but for the
order of `startedAt`.

## 9. Divergences seen while modelling, without a run of their own

The models have these behaviours; the properties above allow them, and say so
where they do.

- *Late results.* A late result overwrites the watchdog's verdict:
  `stepFinalize` updates by id. `FollowsLifecycle` only asks that the row stays
  closed; the run then no longer reads "marked failed"
  (`docs/user-guide/jobs/index.md:234`).
- *Maintenance.* `withMaintenance` sets the flag and then counts Running rows
  (`database-service.ts:145`). A pass of the queue that read the flag as clear
  (`queue-manager.ts:19`) may claim after that count, although "Anything that
  would start a backup, restore or system task checks this flag first"
  (`database-maintenance.ts:6`).
- *System tasks.* A system task's row occupies a slot, and
  `SystemTaskRunner.finish` starts no pass of the queue: a backup behind it
  waits for an unrelated event, not "until a slot opens"
  (`docs/developer-guide/advanced/api-keys.md:303`). `QueuedRunStarts` is
  checked without system tasks.
- *Final write.* A line that `stepCleanup` logs arms the flusher's timer after
  `dispose()`, and a write in flight repeats: either lands after `stepFinalize`,
  against the comment at `runner.ts:322`. Neither takes a line away
  (`NoLineLost`).
- *Force cancel.* A cancel request that finds the run untracked (between the
  claim and `registerExecution`, after `unregisterExecution`, or a system task)
  writes status and log by id (`cancel/route.ts:86-97`). After `stepFinalize` it
  turns a stored Success into Cancelled and puts the log back to what it had read.
- *Refused writes.* A progress write that fails is logged and not repeated
  (`log-flusher.ts:85-89`): its lines wait for the next entry or the final update.
- *Refused passes.* Where a query of `processQueue`, a claim or the watchdog's
  update fails, nobody tries again: the rows wait for the next trigger, and a
  younger pick of the same pass is claimed past an older one
  (`queue-manager.ts:67`). A sweep that breaks off does not offer the slots it has
  freed (`stuck-execution-service.ts:139`).
- *Refused recovery.* When its `findMany` fails the server comes up with the old
  rows open (`recovery.ts:87-91`); the watchdog may fail the Running ones later,
  the Pending ones are started.
- *Late fulls.* The age of a chain runs from the claim of its full
  (`runner.ts:81`) to the planning (`chain-planner.ts:159-160`), in fractions of a
  day. After a full that was claimed late, or across a day of 23 hours, the age is
  just below `fullEveryDays` when the last run plans, the chain gets one more
  member, and the worst case is `keepCount + fullEveryDays` backups, not
  "`keepCount + (fullEveryDays - 1)`"
  (`docs/user-guide/features/backup-modes.md:143`). `WorstCaseHolds` has this exception.
- *Leftovers.* The archive a cancelled run left at a destination stands in for
  the one the next run failed to upload there: the number is right, and the
  chain is continued over a gap (`chain-planner.ts:109` against `:226`).
- *The gate's limit.* A newcomer takes the slot before the woken waiter
  resumes, and the waiter does not look again: for a moment more calls run than
  "at most `limit`" (`lib/concurrency.ts:16`).
- *close().* A borrower that is connecting when the pool closes ends up with a
  connection nobody disconnects (`connection-pool.ts:72`, against the comment at
  `:95`).
- *Reminders.* `reminderIntervalHours` 0 is dropped by the test `> 0`
  (`storage-alert-service.ts:208`), so that the default interval applies where
  reminders were switched off.
- *Last alert switched off.* A destination without an enabled alert is skipped
  before its states are reset: switched on again, the alert counts as sent
  already. `AlertsConverge` has this exception.
- *Shutdown.* A refresh under way when `stopAll()` is called sets its timers all
  the same. `TimersFollowTables` and `LastEditTakesEffect` promise nothing after
  it.
- *Import.* An imported configuration replaces jobs without a `refresh()`
  (`services/config/import.ts:230`).
