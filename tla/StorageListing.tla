--------------------------- MODULE StorageListing ---------------------------
(***************************************************************************)
(* One destination as the storage explorer sees it: the backups that are   *)
(* there, the .meta.json sidecar beside each, and the listing of both that *)
(* is cached as one row of the database. The operations that touch the     *)
(* three run as tasks with an await between any two steps.                 *)
(***************************************************************************)
EXTENDS Naturals, FiniteSets, Functions

CONSTANTS
    File,        \* paths of backups; a path is given to one backup only
    Task,        \* bound: operations in flight at once
    MaxStarts,   \* bound: operations begun by users, jobs and faults
    Operations   \* the kinds of operation that occur

ASSUME FileAssumption == IsFiniteSet(File) /\ "none" \notin File
ASSUME StartsAssumption == MaxStarts \in Nat

VARIABLES
    remote,      \* backups on the destination
    unused,      \* paths no run has uploaded to yet
    sidecar,     \* the metadata beside a path, where there is any
    cache,       \* the row of StorageListCache
    task,        \* the operations in flight
    starts,      \* how many were begun
    disturbed,   \* two were in flight at once, or one did not succeed
    held,        \* backups a user locked and nobody asked to unlock
    refused      \* backups that lost their sidecar to a delete() that failed

vars == <<remote, unused, sidecar, cache, task, starts, disturbed, held, refused>>
destination == <<remote, unused, sidecar>>
ghosts == <<disturbed, held, refused>>

Metadata == [locked : BOOLEAN, verified : BOOLEAN]
Plain == [locked |-> FALSE, verified |-> FALSE]

(* A listing has one row per path; a row shows what the sidecar said. *)
Listing == UNION {[S -> Metadata] : S \in SUBSET File}
EmptyListing == [f \in {} |-> Plain]
HasSidecar(f) == f \in DOMAIN sidecar
(* The entries of new take the place of those of old, or come beside them. *)
Overlay(new, old) ==
    [f \in DOMAIN new \cup DOMAIN old |-> IF f \in DOMAIN new THEN new[f] ELSE old[f]]
PutSidecar(f, metadata) == sidecar' = Overlay([g \in {f} |-> metadata], sidecar)
RemoveSidecar(f) == sidecar' = Restrict(sidecar, DOMAIN sidecar \ {f})
enrich(f) == IF HasSidecar(f) THEN sidecar[f] ELSE Plain
Actual == [f \in remote |-> enrich(f)]

(* version: no row, a payload of an older release, or the current one. *)
Cache == [version : {"none", "old", "current"}, rows : Listing, stale : BOOLEAN]
(* With a bare array for a payload, as releases before versioning wrote it. *)
Bare(rows) == [version |-> "bare", rows |-> rows, stale |-> FALSE]
Current(rows) == [version |-> "current", rows |-> rows, stale |-> FALSE]
NoCache == [version |-> "none", rows |-> EmptyListing, stale |-> FALSE]

Step == {"idle", "uploading", "readLock", "writeLock", "listForDelete", "delete",
         "deleteSidecar", "writeVerified", "expire", "expireSidecar", "patch",
         "drop", "store", "list", "enrich", "upsert", "listRemote", "compare",
         "enrichNew", "touch"}
Op == {"none", "upload", "lock", "unlock", "toggle", "delete", "deleteOne",
       "verify", "retention", "remove", "refresh", "warmup"}

(* file: the one a step is at; todo, done: the rest of a batch; meta: the *)
(* sidecar as read; rows: the listing as read or as it is to be written;  *)
(* held: what was held when the operation began.                          *)
TaskState == [op : Op, step : Step, todo : SUBSET File, done : SUBSET File,
              file : File \cup {"none"}, meta : Metadata, rows : Listing,
              held : SUBSET File]
Idle == [op |-> "none", step |-> "idle", todo |-> {}, done |-> {},
         file |-> "none", meta |-> Plain, rows |-> EmptyListing, held |-> {}]

TypeOK ==
    /\ remote \subseteq File
    /\ unused \subseteq File
    /\ sidecar \in Listing
    /\ cache \in Cache
    /\ task \in [Task -> TaskState]
    /\ starts \in 0 .. MaxStarts
    /\ disturbed \in BOOLEAN
    /\ held \subseteq File
    /\ refused \subseteq File

Init ==
    /\ remote \in SUBSET File
    /\ unused = File \ remote
    /\ sidecar = [f \in remote |-> Plain]
    /\ \E version \in {"none", "old"} : cache = [NoCache EXCEPT !.version = version]
    /\ task = [t \in Task |-> Idle]
    /\ starts = 0
    /\ disturbed = FALSE
    /\ held = {}
    /\ refused = {}

-----------------------------------------------------------------------------
At(t, step) == task[t].step = step
AllIdle == \A t \in Task : At(t, "idle")
Become(t, state) == task' = [task EXCEPT ![t] = state]
Finish(t) == Become(t, Idle)

(* What a page of the explorer may name. *)
Shown == remote \cup DOMAIN cache.rows

Begin(t, kind, state) ==
    /\ kind \in Operations
    /\ At(t, "idle")
    /\ starts < MaxStarts
    /\ starts' = starts + 1
    /\ disturbed' = (disturbed \/ ~AllIdle)
    /\ Become(t, [state EXCEPT !.op = kind, !.held = held])

-----------------------------------------------------------------------------
(* Changes of the cached listing: all of them go through                   *)
(* mutateStorageListCache, which reads the row and writes it back whole.   *)

(* The rows the mutate callback returns for the operation of a task. *)
Patched(state, rows) ==
    CASE state.op = "upload" -> Overlay([f \in {state.file} |-> state.meta], rows)
      [] state.op \in {"delete", "deleteOne", "remove"} ->
             Restrict(rows, DOMAIN rows \ state.done)
      [] state.op \in {"lock", "unlock", "toggle"} ->
             [f \in DOMAIN rows |-> IF f \in state.done
                                    THEN [rows[f] EXCEPT !.locked = state.meta.locked]
                                    ELSE rows[f]]
      [] state.op = "verify" ->
             [f \in DOMAIN rows |-> IF f = state.file
                                    THEN [rows[f] EXCEPT !.verified = TRUE]
                                    ELSE rows[f]]

(* It returns null where there is nothing to change. *)
Touched(state, rows) ==
    CASE state.op = "upload" -> state.file \notin DOMAIN rows
      [] state.op = "verify" -> state.file \in DOMAIN rows
      [] OTHER -> state.done \cap DOMAIN rows # {}

(* loadCurrentCache, and mutate on what it found. *)
ReadCache(t) ==
    /\ At(t, "patch")
    /\ \/ /\ cache.version = "none"
          /\ Finish(t)
       \/ /\ cache.version = "old"
          /\ Become(t, [task[t] EXCEPT !.step = "drop"])
       \/ /\ cache.version = "current"
          /\ IF Touched(task[t], cache.rows)
             THEN Become(t, [task[t] EXCEPT !.step = "store",
                                            !.rows = Patched(task[t], cache.rows)])
             ELSE Finish(t)
    /\ UNCHANGED <<destination, cache, starts, ghosts>>

(* deleteMany of an outdated payload, also from a reconciliation. *)
DropCache(t) ==
    /\ At(t, "drop")
    /\ cache' = NoCache
    /\ Finish(t)
    /\ UNCHANGED <<destination, starts, ghosts>>

(* update({where}) fails when the row is gone. *)
StoreCache(t) ==
    /\ At(t, "store")
    /\ cache' = IF cache.version = "none" THEN cache ELSE Current(task[t].rows)
    /\ Finish(t)
    /\ UNCHANGED <<destination, starts, ghosts>>

(* The two hours of CACHE_STALENESS_HOURS have passed. *)
GrowStale ==
    /\ cache.version = "current"
    /\ ~cache.stale
    /\ cache' = [cache EXCEPT !.stale = TRUE]
    /\ UNCHANGED <<destination, task, starts, ghosts>>

-----------------------------------------------------------------------------
(* With a run that uploads the archive first and the sidecar after it. *)
StartWithArchive(t) ==
    \E f \in unused :
        /\ Begin(t, "upload", [Idle EXCEPT !.step = "uploading", !.file = f])
        /\ unused' = unused \ {f}
        /\ remote' = remote \cup {f}
        /\ UNCHANGED <<sidecar, cache, held, refused>>

(* A run uploads the sidecar, then the archive. A job triggered with        *)
(* lock: true writes the flag with it.                                      *)
StartUpload(t) ==
    \E f \in unused, locked \in BOOLEAN :
        LET metadata == [Plain EXCEPT !.locked = locked] IN
        /\ Begin(t, "upload", [Idle EXCEPT !.step = "uploading", !.file = f,
                                           !.meta = metadata])
        /\ unused' = unused \ {f}
        /\ PutSidecar(f, metadata)
        /\ UNCHANGED <<remote, cache, held, refused>>

(* The archive arrives, or the upload fails and leaves the sidecar. *)
UploadArchive(t) ==
    LET f == task[t].file IN
    /\ At(t, "uploading")
    /\ \/ /\ remote' = remote \cup {f}
          /\ held' = IF task[t].meta.locked THEN held \cup {f} ELSE held
          /\ Become(t, [task[t] EXCEPT !.step = "patch"])
       \/ Finish(t) /\ UNCHANGED <<remote, held>>
    /\ UNCHANGED <<unused, sidecar, cache, starts, disturbed, refused>>

-----------------------------------------------------------------------------
(* toggleLock for one backup, setBackupsLocked for several. *)
StartLock(t, kind) ==
    \E S \in SUBSET Shown :
        /\ S # {}
        /\ kind = "toggle" => Cardinality(S) = 1
        /\ Begin(t, kind, [Idle EXCEPT !.step = "readLock", !.todo = S])
        /\ held' = IF kind = "lock" THEN held ELSE held \ S
        /\ UNCHANGED <<destination, cache, refused>>

(* With a batch that leaves the listing to the next reconciliation. *)
EndUnpatched(t, state) == Finish(t)

(* A batch ends with one change of the listing for what succeeded. *)
EndBatch(t, state) ==
    Become(t, IF state.done = {} THEN Idle ELSE [state EXCEPT !.step = "patch"])

(* readLockMetadata: a backup without a sidecar is an error of its own; one *)
(* that is in the state asked for is not written.                          *)
ReadLock(t) ==
    /\ At(t, "readLock")
    /\ IF task[t].todo = {} THEN EndBatch(t, task[t])
       ELSE \E f \in task[t].todo :
              LET rest == [task[t] EXCEPT !.todo = @ \ {f}]
                  wanted == IF task[t].op = "toggle" THEN ~sidecar[f].locked
                            ELSE task[t].op = "lock"
              IN \/ /\ ~HasSidecar(f)
                    /\ Become(t, rest)
                 \/ /\ HasSidecar(f)
                    /\ sidecar[f].locked = wanted
                    /\ Become(t, [rest EXCEPT !.done = @ \cup {f}, !.meta = sidecar[f]])
                 \/ /\ HasSidecar(f)
                    /\ sidecar[f].locked # wanted
                    /\ Become(t, [rest EXCEPT !.step = "writeLock", !.file = f,
                                      !.meta = [sidecar[f] EXCEPT !.locked = wanted]])
    /\ UNCHANGED <<destination, cache, starts, ghosts>>

(* writeLockState uploads the sidecar it read, with the flag changed. *)
WriteLock(t) ==
    LET f == task[t].file IN
    /\ At(t, "writeLock")
    /\ PutSidecar(f, task[t].meta)
    /\ held' = IF task[t].meta.locked THEN held \cup {f} ELSE held \ {f}
    /\ Become(t, [task[t] EXCEPT !.step = "readLock", !.done = @ \cup {f}])
    /\ UNCHANGED <<remote, unused, cache, starts, disturbed, refused>>

-----------------------------------------------------------------------------
(* verifyBackup: the sidecar is read, the archive is downloaded and hashed, *)
(* and the sidecar that was read is written back with the result.          *)
StartVerify(t) ==
    \E f \in remote :
        /\ HasSidecar(f)
        /\ Begin(t, "verify", [Idle EXCEPT !.step = "writeVerified", !.file = f,
                                           !.meta = sidecar[f]])
        /\ UNCHANGED <<destination, cache, held, refused>>

WriteVerified(t) ==
    LET f == task[t].file IN
    /\ At(t, "writeVerified")
    /\ PutSidecar(f, [task[t].meta EXCEPT !.verified = TRUE])
    /\ Become(t, [task[t] EXCEPT !.step = "patch"])
    /\ UNCHANGED <<remote, unused, cache, starts, ghosts>>

-----------------------------------------------------------------------------
(* deleteBackupsBulk reads the listing, for the lock check; deleteFile, the *)
(* delete of a single backup, does not.                                    *)
StartDelete(t, kind) ==
    \E S \in SUBSET Shown :
        /\ S # {}
        /\ kind = "deleteOne" => Cardinality(S) = 1
        /\ Begin(t, kind, [Idle EXCEPT !.todo = S,
                           !.step = IF kind = "delete" THEN "listForDelete" ELSE "delete"])
        /\ UNCHANGED <<destination, cache, held, refused>>

(* A cached listing is answered as it is, else a live one is made first. *)
ListForDelete(t) ==
    /\ At(t, "listForDelete")
    /\ Become(t, IF cache.version = "current"
                 THEN [task[t] EXCEPT !.step = "delete", !.rows = cache.rows]
                 ELSE [task[t] EXCEPT !.step = "list"])
    /\ UNCHANGED <<destination, cache, starts, ghosts>>

ShownLocked(t, f) == f \in DOMAIN task[t].rows /\ task[t].rows[f].locked

(* Deleting what is gone already is a success. delete() of an adapter may  *)
(* return false; deleteFile then goes on to the sidecar all the same.      *)
Delete(t) ==
    /\ At(t, "delete")
    /\ IF task[t].todo = {} THEN EndBatch(t, task[t]) /\ UNCHANGED <<remote, ghosts>>
       ELSE \E f \in task[t].todo :
              LET rest == [task[t] EXCEPT !.todo = @ \ {f}]
                  gone == [rest EXCEPT !.step = "deleteSidecar", !.file = f]
              IN \/ /\ task[t].op = "delete"
                    /\ ShownLocked(t, f)
                    /\ Become(t, rest)
                    /\ UNCHANGED <<remote, ghosts>>
                 \/ /\ task[t].op = "delete" => ~ShownLocked(t, f)
                    /\ remote' = remote \ {f}
                    /\ held' = held \ {f}
                    /\ Become(t, gone)
                    /\ UNCHANGED <<refused, disturbed>>
                 \/ /\ "deleteFails" \in Operations
                    /\ task[t].op = "delete" => ~ShownLocked(t, f)
                    /\ Become(t, IF task[t].op = "delete" THEN rest ELSE gone)
                    /\ refused' = IF task[t].op = "delete" THEN refused ELSE refused \cup {f}
                    /\ disturbed' = TRUE
                    /\ UNCHANGED <<remote, held>>
    /\ UNCHANGED <<unused, sidecar, cache, starts>>

DeleteSidecar(t) ==
    LET f == task[t].file IN
    /\ At(t, "deleteSidecar")
    /\ RemoveSidecar(f)
    /\ Become(t, [task[t] EXCEPT !.step = "delete", !.done = @ \cup {f}])
    /\ UNCHANGED <<remote, unused, cache, starts, ghosts>>

-----------------------------------------------------------------------------
(* Retention of a run reads the sidecars, then deletes, whatever delete()   *)
(* returns; the policy chooses among what was unlocked when it was read.    *)
(* One run of the job whose folder this is has its retention step at once.  *)
StartRetention(t) ==
    /\ \A u \in Task : task[u].op # "retention"
    /\ \E S \in SUBSET {f \in remote : ~enrich(f).locked} :
          /\ S # {}
          /\ Begin(t, "retention", [Idle EXCEPT !.step = "expire", !.todo = S])
          /\ UNCHANGED <<destination, cache, held, refused>>

Expire(t) ==
    /\ At(t, "expire")
    /\ \E f \in task[t].todo :
          /\ \/ /\ remote' = remote \ {f}
                /\ UNCHANGED <<refused, disturbed>>
             \/ /\ "deleteFails" \in Operations
                /\ refused' = refused \cup {f}
                /\ disturbed' = TRUE
                /\ UNCHANGED remote
          /\ Become(t, [task[t] EXCEPT !.step = "expireSidecar", !.file = f,
                                       !.todo = @ \ {f}])
    /\ UNCHANGED <<unused, sidecar, cache, starts, held>>

(* The change of the listing is not awaited: it runs beside the next delete. *)
ExpireSidecar(t) ==
    LET f == task[t].file
        removal == [Idle EXCEPT !.op = "remove", !.step = "patch", !.done = {f}]
    IN
    /\ At(t, "expireSidecar")
    /\ RemoveSidecar(f)
    /\ held' = IF f \in remote THEN held ELSE held \ {f}
    /\ \/ /\ task[t].todo = {}
          /\ Become(t, removal)
          /\ disturbed' = (disturbed \/ \E u \in Task \ {t} : ~At(u, "idle"))
       \/ /\ task[t].todo # {}
          /\ \E u \in Task \ {t} :
                /\ At(u, "idle")
                /\ task' = [task EXCEPT ![t].step = "expire", ![u] = removal]
          /\ disturbed' = TRUE
    /\ UNCHANGED <<remote, unused, cache, starts, refused>>

-----------------------------------------------------------------------------
(* The refresh button bypasses the cache. The hourly system task, and a     *)
(* visit that finds the listing stale, reconcile what is cached.            *)
StartRefresh(t) ==
    /\ Begin(t, "refresh", [Idle EXCEPT !.step = "list"])
    /\ UNCHANGED <<destination, cache, held, refused>>

StartWarmup(t) ==
    /\ At(t, "idle")
    /\ disturbed' = (disturbed \/ ~AllIdle)
    /\ Become(t, [Idle EXCEPT !.op = "warmup",
                  !.step = IF cache.version = "none" THEN "list" ELSE "listRemote"])
    /\ UNCHANGED <<destination, cache, starts, held, refused>>

(* listFilesWithMetadata without a usable row: list, read every sidecar,    *)
(* put the whole listing in the row.                                        *)
List(t) ==
    /\ At(t, "list")
    /\ Become(t, [task[t] EXCEPT !.step = "enrich", !.done = remote])
    /\ UNCHANGED <<destination, cache, starts, ghosts>>

Enrich(t) ==
    /\ At(t, "enrich")
    /\ Become(t, [task[t] EXCEPT !.step = "upsert", !.done = {},
                                 !.rows = [f \in task[t].done |-> enrich(f)]])
    /\ UNCHANGED <<destination, cache, starts, ghosts>>

Upsert(t) ==
    /\ At(t, "upsert")
    /\ cache' = Current(task[t].rows)
    /\ Become(t, IF task[t].op = "delete" THEN [task[t] EXCEPT !.step = "delete"] ELSE Idle)
    /\ UNCHANGED <<destination, starts, ghosts>>

(* reconcileStorageListCache: the destination is listed before the row is   *)
(* read, and the sidecars of what is new are read after it.                 *)
ListRemote(t) ==
    /\ At(t, "listRemote")
    /\ Become(t, [task[t] EXCEPT !.step = "compare", !.done = remote])
    /\ UNCHANGED <<destination, cache, starts, ghosts>>

(* With a reconciliation that only adds. *)
AllRows(t) == cache.rows

KeptRows(t) == Restrict(cache.rows, DOMAIN cache.rows \cap task[t].done)

Compare(t) ==
    LET listed == task[t].done
        added == listed \ DOMAIN cache.rows
        next == [task[t] EXCEPT !.rows = KeptRows(t), !.todo = added, !.done = {}]
    IN
    /\ At(t, "compare")
    /\ \/ /\ cache.version = "none"
          /\ Finish(t)
       \/ /\ cache.version = "old"
          /\ Become(t, [task[t] EXCEPT !.step = "drop", !.done = {}])
       \/ /\ cache.version = "current"
          /\ Become(t, IF DOMAIN cache.rows = listed
                       THEN [Idle EXCEPT !.op = "warmup", !.step = "touch"]
                       ELSE [next EXCEPT !.step = IF added # {} THEN "enrichNew" ELSE "store"])
    /\ UNCHANGED <<destination, cache, starts, ghosts>>

EnrichNew(t) ==
    /\ At(t, "enrichNew")
    /\ Become(t, [task[t] EXCEPT !.step = "store", !.todo = {},
                  !.rows = Overlay([f \in task[t].todo |-> enrich(f)], task[t].rows)])
    /\ UNCHANGED <<destination, cache, starts, ghosts>>

(* Nothing has changed: the row counts as fresh again. *)
Touch(t) ==
    /\ At(t, "touch")
    /\ cache' = [cache EXCEPT !.stale = FALSE]
    /\ Finish(t)
    /\ UNCHANGED <<destination, starts, ghosts>>

-----------------------------------------------------------------------------
(* A backup deleted on the backend, outside the application. *)
DeleteOutside ==
    /\ "outside" \in Operations
    /\ starts < MaxStarts
    /\ \E f \in remote :
          /\ remote' = remote \ {f}
          /\ RemoveSidecar(f)
          /\ held' = held \ {f}
    /\ starts' = starts + 1
    /\ disturbed' = TRUE
    /\ UNCHANGED <<unused, cache, task, refused>>

(* The process stops: what was in flight is not continued. *)
Crash ==
    /\ "crash" \in Operations
    /\ starts < MaxStarts
    /\ ~AllIdle
    /\ task' = [t \in Task |-> Idle]
    /\ starts' = starts + 1
    /\ disturbed' = TRUE
    /\ UNCHANGED <<destination, cache, held, refused>>

Starts(t) == \/ StartUpload(t) \/ StartVerify(t) \/ StartRetention(t) \/ StartRefresh(t)
             \/ \E kind \in {"lock", "unlock", "toggle"} : StartLock(t, kind)
             \/ \E kind \in {"delete", "deleteOne"} : StartDelete(t, kind)

Steps(t) == \/ UploadArchive(t) \/ ReadLock(t) \/ WriteLock(t) \/ WriteVerified(t)
            \/ ListForDelete(t) \/ Delete(t) \/ DeleteSidecar(t)
            \/ Expire(t) \/ ExpireSidecar(t)
            \/ ReadCache(t) \/ DropCache(t) \/ StoreCache(t)
            \/ List(t) \/ Enrich(t) \/ Upsert(t)
            \/ ListRemote(t) \/ Compare(t) \/ EnrichNew(t) \/ Touch(t)

Next == \/ \E t \in Task : Starts(t) \/ StartWarmup(t) \/ Steps(t)
        \/ GrowStale \/ DeleteOutside \/ Crash

(* What was begun goes on, and the hourly task comes round. *)
Fairness == /\ \A t \in Task : WF_vars(Steps(t))
            /\ WF_vars(\E t \in Task : StartWarmup(t))

Spec == Init /\ [][Next]_vars /\ Fairness

-----------------------------------------------------------------------------
(* Where every operation ran to its end before the next began, the cached   *)
(* listing is the destination: the change each operation makes of the row   *)
(* agrees with what it did out there (storage-explorer.md, "The cache is    *)
(* automatically updated when").                                            *)
SerialListingExact ==
    AllIdle /\ ~disturbed /\ cache.version = "current" => cache.rows = Actual

(* A backup on the destination has its sidecar, whatever is interrupted and *)
(* wherever: the sidecar is there before the archive and goes after it. A   *)
(* backup that lost it would have lost its lock, its chain and its key. The *)
(* one way there is a delete() that answers false, which deleteFile and     *)
(* retention do not look at before they go on to the sidecar.               *)
SidecarKept == \A f \in remote : HasSidecar(f) \/ f \in refused

(* Whatever changes got lost between operations that ran at once, were cut  *)
(* off, or went on behind the application's back: the listing comes to name *)
(* exactly the backups that are there and keeps naming them.                *)
ListingConverges ==
    <>[](cache.version = "current" /\ DOMAIN cache.rows = remote)

(* A backup that was locked when a run's retention began, and that nobody   *)
(* asked to unlock, is not deleted by it (retention.md, "Never deleted by   *)
(* retention").                                                             *)
LockedSurvivesRetention ==
    [][\A t \in Task, f \in remote \ remote' :
          task[t].op = "retention" /\ At(t, "expire") /\ task'[t] # task[t]
             => f \notin task[t].held \cap held]_vars

=============================================================================
