----------------------------- MODULE BackupChain -----------------------------
(***************************************************************************)
(* The incremental backups of one job: planChain decides whether a run     *)
(* builds on the previous snapshot, stepUpload brings the archive to the   *)
(* destinations one after another, stepRetention expires old archives on   *)
(* each, and users delete, lock and verify archives meanwhile.             *)
(*                                                                         *)
(* The job is due once a day; a run and its archive are named by the day.  *)
(* A run may be late in its day (it waited for others, was started by hand, *)
(* or the day has 23 hours), so time is counted in half days.               *)
(* One run of the job at a time, as with the default limit of the queue.   *)
(***************************************************************************)
EXTENDS Retention

CONSTANTS
    NumDests,       \* the job's destinations, in upload order
    FullEveryDays,  \* the job's fullEveryDays
    KeepCount,      \* the destinations' Simple policy
    MaxDays,        \* bound: days modelled
    MaxTroubles,    \* bound: events out of Troubles
    Troubles        \* which of "late", "upload", "torn", "interrupt",
                    \* "retention", "delete", "lock", "verify" occur

ASSUME ChainAssumption ==
    /\ NumDests \in Nat \ {0} /\ FullEveryDays \in Nat \ {0}
    /\ KeepCount \in Nat \ {0} /\ MaxDays \in Nat /\ MaxTroubles \in Nat

VARIABLES
    today,
    archive,    \* chain bookkeeping of every run: [chain, index, base, start],
                \* start being the moment its chain's full was claimed
    recorded,   \* runs whose execution ended Success or Partial
    stored,     \* per destination: the archives (.tar) that are there
    torn,       \* per destination: those of them a failed upload cut short
    sidecars,   \* per destination: their .meta.json
    locked,     \* per destination: the sidecars with the lock flag
    damaged,    \* per destination: the sidecars with a failed verification
    run,        \* the run in progress
    doubtful,   \* chains of which nothing is promised any more, see below
    troubles

files == <<stored, torn, sidecars, locked, damaged>>
vars == <<today, archive, recorded, files, run, doubtful, troubles>>

Day == 1 .. MaxDays
Dest == 1 .. NumDests
Policy == [mode |-> "SIMPLE", count |-> KeepCount, tiers |-> << >>]
NoArchive == [chain |-> NoChain, index |-> 0, base |-> 0, start |-> 0]
Archives == [chain : 0 .. MaxDays, index : 0 .. MaxDays, base : 0 .. MaxDays,
             start : 0 .. 2 * MaxDays + 1]
IdleRun == [pc |-> "idle", dest |-> 1, uploaded |-> {}, expired |-> {}]

TypeOK ==
    /\ today \in 0 .. MaxDays
    /\ archive \in [Day -> Archives]
    /\ recorded \subseteq Day
    /\ \A d \in Dest : /\ stored[d] \cup sidecars[d] \subseteq 1 .. today
                       /\ torn[d] \subseteq stored[d]
                       /\ locked[d] \cup damaged[d] \subseteq sidecars[d]
                       /\ \A n \in stored[d] \ sidecars[d] : archive[n].chain \in doubtful
    /\ run \in [pc : {"idle", "uploading", "retention", "deleting"},
                dest : 1 .. NumDests + 1, uploaded : SUBSET Dest, expired : SUBSET Day]
    /\ doubtful \subseteq Day
    /\ troubles \in 0 .. MaxTroubles

-----------------------------------------------------------------------------
chainId(n) == archive[n].chain
InChain(S, c) == {n \in S : chainId(n) = c}

(* A snapshot reads from its own archive and from those it was built on. *)
Ancestors(n) ==
    LET from[k \in 0 .. MaxDays] ==
            IF k = 0 THEN {} ELSE {k} \cup from[archive[k].base]
    IN  from[n]

(* latestChainSnapshotWhere, newest first *)
Latest == CHOOSE n \in recorded : \A m \in recorded : m <= n

(* In half days. *)
Moment(day, late) == 2 * day + (IF late THEN 1 ELSE 0)

(* With the age of a chain compared the other way at the boundary. *)
ChainOlderThan(n, now) == now - archive[n].start > 2 * FullEveryDays

(* From the claim of the full to this planning: ageDays >= fullEveryDays. *)
ChainTooOld(n, now) == now - archive[n].start >= 2 * FullEveryDays

(* The sidecar is read from the first destination that has it. *)
Readable(n) == {d \in Dest : n \in sidecars[d]}
MetaDest(n) == CHOOSE d \in Readable(n) : \A x \in Readable(n) : d <= x

(* By the sidecars of that one destination. *)
KnownDamaged(n) == {n, chainId(n)} \cap damaged[MetaDest(n)] # {}

(* With an expected count that forgets the full. *)
chainNearlyIntactAt(d, n) ==
    Cardinality(InChain(stored[d], chainId(n))) >= archive[n].index

(* The archives of the chain folder are counted, not compared. *)
chainIntactAt(d, n) ==
    Cardinality(InChain(stored[d], chainId(n))) >= archive[n].index + 1

(* Position first, then the time in the name. *)
SortsAfter(m, n) == \/ archive[m].index > archive[n].index
                    \/ archive[m].index = archive[n].index /\ m > n

dependentsOf(d, n) == {m \in InChain(stored[d], chainId(n)) : SortsAfter(m, n)}

Trouble(kind) == /\ kind \in Troubles
                 /\ troubles < MaxTroubles
                 /\ troubles' = troubles + 1

Init ==
    /\ today = 0
    /\ archive = [n \in Day |-> NoArchive]
    /\ recorded = {}
    /\ stored = [d \in Dest |-> {}]
    /\ torn = [d \in Dest |-> {}]
    /\ sidecars = [d \in Dest |-> {}]
    /\ locked = [d \in Dest |-> {}]
    /\ damaged = [d \in Dest |-> {}]
    /\ run = IdleRun
    /\ doubtful = {}
    /\ troubles = 0

-----------------------------------------------------------------------------
(* A day without a run. *)
SkipDay ==
    /\ run.pc = "idle"
    /\ today < MaxDays
    /\ today' = today + 1
    /\ UNCHANGED <<archive, recorded, files, run, doubtful, troubles>>

StartRun(a) ==
    /\ run.pc = "idle"
    /\ today < MaxDays
    /\ today' = today + 1
    /\ archive' = [archive EXCEPT ![today'] = a]
    /\ run' = [IdleRun EXCEPT !.pc = "uploading"]
    /\ UNCHANGED <<recorded, files, doubtful>>

(* Always possible: the sources, the exclude patterns or the encryption    *)
(* profile may have changed, a sidecar or an index may not be readable.    *)
StartFull(late) == StartRun([chain |-> today + 1, index |-> 0, base |-> 0,
                             start |-> Moment(today + 1, late)])

PlanFull == StartFull(FALSE) /\ UNCHANGED troubles

PlanLateFull == Trouble("late") /\ StartFull(TRUE)

(* What planChain reads at the destinations in turn is one step here: what *)
(* a user removes in between is either missed by it or removed after it.   *)
PlanIncremental ==
    /\ recorded # {}
    /\ \E late \in BOOLEAN : ~ChainTooOld(Latest, Moment(today + 1, late))
    /\ Readable(Latest) # {}
    /\ ~KnownDamaged(Latest)
    /\ \A d \in Dest : chainIntactAt(d, Latest)
    /\ UNCHANGED troubles
    /\ StartRun([chain |-> chainId(Latest), index |-> archive[Latest].index + 1,
                 base |-> Latest, start |-> archive[Latest].start])

(* stepUpload at the next destination: the sidecar first, then the archive. *)
Upload ==
    /\ run.pc = "uploading"
    /\ run.dest <= NumDests
    /\ sidecars' = [sidecars EXCEPT ![run.dest] = @ \cup {today}]
    /\ stored' = [stored EXCEPT ![run.dest] = @ \cup {today}]
    /\ run' = [run EXCEPT !.dest = @ + 1, !.uploaded = @ \cup {run.dest}]
    /\ UNCHANGED <<today, archive, recorded, torn, locked, damaged, doubtful, troubles>>

(* With the archive uploaded first. *)
ArchiveArrived(d) == /\ stored' = [stored EXCEPT ![d] = @ \cup {today}]
                     /\ UNCHANGED sidecars

SidecarArrived(d) == /\ sidecars' = [sidecars EXCEPT ![d] = @ \cup {today}]
                     /\ UNCHANGED stored

(* A destination that fails is noted, the loop goes on. *)
FailUpload ==
    /\ Trouble("upload")
    /\ run.pc = "uploading"
    /\ run.dest <= NumDests
    /\ SidecarArrived(run.dest) \/ UNCHANGED <<stored, sidecars>>
    /\ run' = [run EXCEPT !.dest = @ + 1]
    /\ UNCHANGED <<today, archive, recorded, torn, locked, damaged, doubtful>>

(* The same, and what has been written of the archive stays under its name. *)
TearUpload ==
    /\ Trouble("torn")
    /\ run.pc = "uploading"
    /\ run.dest <= NumDests
    /\ sidecars' = [sidecars EXCEPT ![run.dest] = @ \cup {today}]
    /\ stored' = [stored EXCEPT ![run.dest] = @ \cup {today}]
    /\ torn' = [torn EXCEPT ![run.dest] = @ \cup {today}]
    /\ run' = [run EXCEPT !.dest = @ + 1]
    /\ UNCHANGED <<today, archive, recorded, locked, damaged, doubtful>>

(* The run ends and is not recorded: what was uploaded stays. *)
AbandonRun ==
    /\ run' = IdleRun
    /\ doubtful' = IF \E d \in Dest : today \in stored[d]
                   THEN doubtful \cup {chainId(today)} ELSE doubtful

(* No destination at all: the run fails. Otherwise Success or Partial. *)
EvaluateUploads ==
    /\ run.pc = "uploading"
    /\ run.dest > NumDests
    /\ IF run.uploaded = {} THEN AbandonRun
       ELSE /\ run' = [run EXCEPT !.pc = "retention", !.dest = 1]
            /\ UNCHANGED doubtful
    /\ UNCHANGED <<today, archive, recorded, files, troubles>>

-----------------------------------------------------------------------------
(* applyRetentionForDestination: list, read the sidecars, judge. The backups *)
(* in unread have a sidecar that could not be read: unlocked and chainless,  *)
(* like those without a sidecar.                                             *)
ListExpired(unread) ==
    LET d == run.dest
        read == sidecars[d] \ unread
        chainOf == [n \in Day |-> IF n \in read THEN chainId(n) ELSE NoChain]
    IN  /\ run.pc = "retention"
        /\ d \in run.uploaded
        /\ run' = [run EXCEPT !.pc = "deleting",
                     !.expired = calculateRetention(stored[d], locked[d] \cap read,
                                                    chainOf, Policy)]
        /\ UNCHANGED <<today, archive, recorded, files>>

Retain == ListExpired({}) /\ UNCHANGED <<doubtful, troubles>>

RetainUnread ==
    /\ Trouble("retention")
    /\ \E d \in Dest : \E n \in stored[d] :
         /\ d = run.dest
         /\ ListExpired({n})
         /\ doubtful' = doubtful \cup {chainId(n)}

(* Retention is a concern of its own: an error at one destination ends it there. *)
FailListing ==
    /\ Trouble("retention")
    /\ run.pc = "retention"
    /\ run.dest \in run.uploaded
    /\ run' = [run EXCEPT !.dest = @ + 1]
    /\ UNCHANGED <<today, archive, recorded, files, doubtful>>

(* Only destinations that received the new backup are judged. *)
SkipRetention ==
    /\ run.pc = "retention"
    /\ run.dest <= NumDests
    /\ run.dest \notin run.uploaded
    /\ run' = [run EXCEPT !.dest = @ + 1]
    /\ UNCHANGED <<today, archive, recorded, files, doubtful, troubles>>

removeSidecars(d, n) ==
    /\ sidecars' = [sidecars EXCEPT ![d] = @ \ {n}]
    /\ locked' = [locked EXCEPT ![d] = @ \ {n}]
    /\ damaged' = [damaged EXCEPT ![d] = @ \ {n}]

(* The archive and its sidecars go together. *)
remove(d, n) ==
    /\ stored' = [stored EXCEPT ![d] = @ \ {n}]
    /\ torn' = [torn EXCEPT ![d] = @ \ {n}]
    /\ removeSidecars(d, n)

(* The expired files are deleted in the order of the listing, newest first. *)
NextExpired(n) == n \in run.expired /\ \A m \in run.expired : m <= n

DeleteExpired(n) ==
    /\ run.pc = "deleting"
    /\ NextExpired(n)
    /\ remove(run.dest, n)
    /\ run' = [run EXCEPT !.expired = @ \ {n}]
    /\ UNCHANGED <<today, archive, recorded, doubtful, troubles>>

(* An error is logged and the next file is tried. An adapter that answers   *)
(* false instead is not noticed: the sidecars are deleted all the same.     *)
FailDelete(n) ==
    /\ Trouble("retention")
    /\ run.pc = "deleting"
    /\ NextExpired(n)
    /\ removeSidecars(run.dest, n) \/ UNCHANGED <<sidecars, locked, damaged>>
    /\ run' = [run EXCEPT !.expired = @ \ {n}]
    /\ doubtful' = doubtful \cup {chainId(n)}
    /\ UNCHANGED <<today, archive, recorded, stored, torn>>

EndRetention ==
    /\ run.pc = "deleting"
    /\ run.expired = {}
    /\ run' = [run EXCEPT !.pc = "retention", !.dest = @ + 1]
    /\ UNCHANGED <<today, archive, recorded, files, doubtful, troubles>>

(* stepFinalize writes the chain bookkeeping with the status. *)
Complete ==
    /\ run.pc = "retention"
    /\ run.dest > NumDests
    /\ recorded' = recorded \cup {today}
    /\ run' = IdleRun
    /\ UNCHANGED <<today, archive, files, doubtful, troubles>>

(* Cancelled, failed by the watchdog or lost in a crash: the execution does *)
(* not end as Success or Partial.                                           *)
Interrupt ==
    /\ Trouble("interrupt")
    /\ run.pc # "idle"
    /\ AbandonRun
    /\ UNCHANGED <<today, archive, recorded, files>>

-----------------------------------------------------------------------------
(* StorageService.deleteFile; a bulk delete is several of them, newest first. *)
(* The run in progress has planned, its archive may be anywhere on its way.   *)
DeleteFile(d, n) ==
    /\ Trouble("delete")
    /\ n \in stored[d]
    /\ dependentsOf(d, n) = {}
    /\ remove(d, n)
    /\ doubtful' = IF run.pc # "idle" /\ n \in Ancestors(archive[today].base)
                   THEN doubtful \cup {chainId(n)} ELSE doubtful
    /\ UNCHANGED <<today, archive, recorded, run>>

(* The adapter answers false: the archive stays and loses its sidecars. *)
FailDeleteFile(d, n) ==
    /\ Trouble("delete")
    /\ n \in stored[d]
    /\ dependentsOf(d, n) = {}
    /\ removeSidecars(d, n)
    /\ doubtful' = doubtful \cup {chainId(n)}
    /\ UNCHANGED <<today, archive, recorded, stored, torn, run>>

(* Rewrites the sidecar; without one there is nothing to lock. *)
toggleLock(d, n) ==
    /\ Trouble("lock")
    /\ n \in stored[d] \cap sidecars[d]
    /\ locked' = [locked EXCEPT ![d] = IF n \in @ THEN @ \ {n} ELSE @ \cup {n}]
    /\ UNCHANGED <<today, archive, recorded, stored, torn, sidecars, damaged, run, doubtful>>

(* An integrity check writes its verdict into the sidecar it has checked. *)
(* Only a verdict that differs from the last one changes the state here.  *)
verifyFile(d, n) ==
    /\ Trouble("verify")
    /\ n \in stored[d] \cap sidecars[d]
    /\ damaged' = [damaged EXCEPT ![d] = IF n \in @ THEN @ \ {n} ELSE @ \cup {n}]
    /\ UNCHANGED <<today, archive, recorded, stored, torn, sidecars, locked, run, doubtful>>

-----------------------------------------------------------------------------
Next == \/ SkipDay \/ PlanFull \/ PlanLateFull \/ PlanIncremental
        \/ Upload \/ FailUpload \/ TearUpload \/ EvaluateUploads
        \/ Retain \/ RetainUnread \/ FailListing \/ SkipRetention \/ EndRetention \/ Complete
        \/ Interrupt
        \/ \E n \in Day : DeleteExpired(n) \/ FailDelete(n)
        \/ \E d \in Dest, n \in Day : 
               DeleteFile(d, n) \/ FailDeleteFile(d, n) \/ toggleLock(d, n) \/ verifyFile(d, n)

Spec == Init /\ [][Next]_vars

-----------------------------------------------------------------------------
(* Every archive on a destination can be restored from that destination:    *)
(* all archives it builds on are there too, whatever uploads failed, runs   *)
(* broke off, locks came and went or retention got through before a crash.  *)
(* (An archive a failed upload cut short is there: UploadGapsForceFull.)    *)
(* It is promised for chains that are not doubtful. A chain becomes so when *)
(* an archive is deleted under a run that builds on it, when a run that was *)
(* never recorded leaves its archive in it, when retention cannot read a    *)
(* sidecar of it, and when a deletion in it fails (chain-planner.ts,        *)
(* 05-retention.ts, StorageService.deleteFile).                             *)
ChainsRestorable ==
    \A d \in Dest : \A n \in stored[d] :
        chainId(n) \notin doubtful => Ancestors(n) \subseteq stored[d]

(* The full of its chain was claimed late in its day. *)
ClaimedLate(n) == archive[n].start = Moment(chainId(n), TRUE)

(* "Worst case: keepCount + (fullEveryDays - 1) backups" of a daily job     *)
(* (docs/user-guide/features/backup-modes.md): the age at which the planner *)
(* starts a new chain bounds what the chains hold back from retention. That *)
(* age is counted from the claim of the full, so a chain whose full was     *)
(* late gets one archive more than documented, and never two. The chains of *)
(* locked backups come on top.                                              *)
WorstCaseHolds ==
    [][run.pc = "retention" /\ run'.pc = "deleting" =>
         LET d == run.dest
             pinned == {chainId(n) : n \in locked[d]}
             left == {n \in stored[d] \ run'.expired : chainId(n) \notin pinned}
             extra == IF \E n \in left : ClaimedLate(n) THEN 1 ELSE 0
         IN  Cardinality(left) <= KeepCount + FullEveryDays - 1 + extra]_vars

PlannedIncremental == run.pc = "idle" /\ run'.pc = "uploading" /\ archive'[today'].base # 0

(* DBackup falls back to a full when "the chain's full backup failed its     *)
(* last integrity check" (docs/user-guide/features/backup-modes.md): with    *)
(* each archive checked once, no run goes on with a chain whose full failed. *)
DamagedFullForcesFull ==
    [][PlannedIncremental => \A d \in Dest : chainId(archive'[today'].base) \notin damaged[d]]_vars

(* "If any destination is missing a chain member - because one of its uploads *)
(* failed earlier - the whole run degrades to a full" (planChain). The failed *)
(* upload may have left the first part of the archive behind.                 *)
UploadGapsForceFull ==
    [][PlannedIncremental =>
         \A d \in Dest : Ancestors(archive'[today'].base) \cap torn[d] = {}]_vars

=============================================================================
