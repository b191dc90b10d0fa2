--------------------------- MODULE ExecutionQueue ---------------------------
(***************************************************************************)
(* The execution queue of the server: the Execution rows of the database,  *)
(* the passes of processQueue over them, the runs it starts, restores and  *)
(* system tasks that write the same rows, and everything that may end a    *)
(* run from outside: the cancel route, the watchdog, a shutdown, a crash   *)
(* and the recovery at the next start.                                     *)
(*                                                                         *)
(* An action is one segment of JavaScript between two awaits, together     *)
(* with the effect of the query it issues; the answer is used by a later   *)
(* action, and other segments run in between.                              *)
(***************************************************************************)
EXTENDS Naturals, Sequences, FiniteSets

CONSTANTS
    Backups,      \* executions of backup jobs, which go through the queue
    Restores,     \* executions of restores, which start without it
    Tasks,        \* executions of system tasks (verify, integrity check)
    Pass,         \* bound: calls of processQueue in progress at once
    Worker,       \* bound: runs in progress at once
    MaxJobs,      \* the setting maxConcurrentJobs
    Cancellable,  \* bound: the executions a user may ask to cancel
    MaxFaults,    \* bound: statements the database may refuse
    Disturbances  \* which of "hang", "maintenance", "shutdown", "crash" occur

Exec == Backups \cup Restores \cup Tasks

ASSUME MaxJobsAssumption == MaxJobs \in Nat
ASSUME KindsAssumption ==
    /\ Backups \cap Restores = {}
    /\ Backups \cap Tasks = {}
    /\ Restores \cap Tasks = {}
ASSUME BoundsAssumption == Cancellable \subseteq Exec /\ MaxFaults \in Nat
ASSUME FiniteAssumption == IsFiniteSet(Exec)

VARIABLES
    status,       \* Execution.status of every row, "Absent" before it exists
    created,      \* the queued rows in creation order (startedAt while Pending)
    acks,         \* rows whose creator has not yet called processQueue
    controllers,  \* abort registry: executions with an AbortController
    aborted,      \* executions whose controller was signalled
    pass,         \* calls of processQueue
    worker,       \* runs in progress
    hung,         \* workers blocked on a source that stopped answering
    cancel,       \* cancel requests in progress
    sweep,        \* the watchdog's sweep
    maintenance,  \* database maintenance: "off", "refused", "exclusive"
    server,       \* life of the process
    doomed,       \* rows read by the shutdown (to abort) or the recovery
    faulted,      \* rows whose run, or recovery, met a refused statement
    failures      \* refused statements that belong to no run

memory == <<acks, controllers, aborted, pass, worker, hung, cancel, sweep,
            maintenance>>
vars == <<status, created, memory, server, doomed, faulted, failures>>

Active   == {"Pending", "Running"}
Terminal == {"Success", "Failed", "Cancelled"}   \* Success stands for Partial too
Statuses == {"Absent"} \cup Active \cup Terminal

WorkerPcs == {"idle", "claimed", "working", "retention", "flushing",
              "finalizing", "notifying", "restoreCreated", "restoring",
              "restored", "taskCreated", "task", "taskLost"}
Outcomes == {"Running"} \cup Terminal
IdlePass == [pc |-> "idle", slots |-> 0, picks |-> {}, refused |-> {}]
IdleWorker == [pc |-> "idle", exec |-> "none", outcome |-> "Running"]
IdleSweep == [listed |-> {}, signalled |-> {}, freed |-> FALSE]

InState(s) == {e \in Exec : status[e] = s}

TypeOK ==
    /\ status \in [Exec -> Statuses]
    /\ created \in Seq(Exec)
    /\ acks \subseteq Exec
    /\ controllers \subseteq Exec
    /\ aborted \subseteq Exec
    /\ pass \in [Pass -> [pc : {"idle", "entered", "counted", "starting"},
                          slots : Nat, picks : SUBSET Exec,
                          refused : SUBSET Exec]]
    /\ worker \in [Worker -> [pc : WorkerPcs, exec : Exec \cup {"none"},
                              outcome : Outcomes]]
    /\ hung \subseteq Worker
    /\ cancel \in [Exec -> {"none", "sawPending", "sawRunning", "force"}]
    /\ sweep \in [listed : SUBSET Exec, signalled : SUBSET Exec,
                  freed : BOOLEAN]
    /\ maintenance \in {"off", "refused", "exclusive"}
    /\ server \in {"up", "draining", "aborting", "emptying", "cancelling",
                   "exiting", "down", "recovering"}
    /\ doomed \subseteq Exec
    /\ faulted \subseteq Exec
    /\ failures \in Nat

-----------------------------------------------------------------------------
(* Process state that callers read synchronously. *)

Serving == server \notin {"down", "recovering"}
isShutdownRequested == server # "up"
isDatabaseMaintenanceActive == maintenance # "off"

(* Order of creation: while a row is Pending its startedAt is when it was made. *)
Older(d, e) == \E i, j \in DOMAIN created :
                  i < j /\ created[i] = d /\ created[j] = e

(* With orderBy desc instead. *)
NewestPending(n) ==
    {e \in InState("Pending") :
        Cardinality({d \in InState("Pending") : Older(e, d)}) < n}

(* findMany({Pending, orderBy startedAt asc, take: n}) *)
OldestPending(n) ==
    {e \in InState("Pending") :
        Cardinality({d \in InState("Pending") : Older(d, e)}) < n}

(* A worker owns its execution from the claim of the row to the end. *)
Owns(w, e) == /\ worker[w].exec = e
              /\ worker[w].pc \notin {"idle", "taskCreated", "taskLost"}

(* With a heartbeat from a timer, which goes on while the run is stuck. *)
IdleByTimer(e) == \A w \in Worker : ~Owns(w, e)

(* No sign of life for longer than the watchdog's timeout. *)
Idle(e) == \A w \in Worker : Owns(w, e) => w \in hung

(* Passes and workers have no identity: the first idle one is taken. *)
FirstFree(x, table) == /\ table[x].pc = "idle"
                       /\ x = CHOOSE y \in DOMAIN table : table[y].pc = "idle"

(* A call of processQueue() up to its first await. *)
EnterPass == \E p \in Pass :
    /\ FirstFree(p, pass)
    /\ pass' = [pass EXCEPT ![p] = [IdlePass EXCEPT !.pc = "entered"]]

processQueue == IF isShutdownRequested \/ isDatabaseMaintenanceActive
                THEN UNCHANGED pass
                ELSE EnterPass

SetWorker(w, e, pc, outcome) ==
    worker' = [worker EXCEPT ![w] = [pc |-> pc, exec |-> e, outcome |-> outcome]]

MoveTo(w, pc) == worker' = [worker EXCEPT ![w].pc = pc]

(* With a context whose status is never set. *)
EndWithStale(w, outcome) == worker' = [worker EXCEPT ![w].pc = "flushing"]

EndWith(w, outcome) ==
    worker' = [worker EXCEPT ![w].pc = "flushing", ![w].outcome = outcome]

Free(w) == worker' = [worker EXCEPT ![w] = IdleWorker]

(* With a finally that does not call processQueue. *)
RunOverQuietly(w) == Free(w) /\ UNCHANGED pass

(* A run has ended: its slot is offered to the queue. *)
RunOver(w) == Free(w) /\ processQueue

SetStatus(e, s) == status' = [status EXCEPT ![e] = s]

(* Worker w is at pc and the await it is in has returned. *)
At(w, pc) == Serving /\ worker[w].pc = pc /\ w \notin hung

(* With a claim by id alone. *)
ClaimableById(e) == status[e] # "Absent"

(* The claim is updateMany({id, Pending} -> Running): it changes one row or none. *)
Claimable(e) == status[e] = "Pending"

registerExecution(e) == controllers' = controllers \cup {e} /\ UNCHANGED aborted

(* With a catch block that returns before the controller is deleted. *)
unregisterForgotten(e) == aborted' = aborted \ {e} /\ UNCHANGED controllers

unregisterExecution(e) == /\ controllers' = controllers \ {e}
                          /\ aborted' = aborted \ {e}

(* Setting the signal of an execution without a controller does nothing. *)
abortExecution(S) == aborted' = aborted \cup (S \cap controllers)

MayFail == Cardinality(faulted) + failures < MaxFaults

(* The database refuses a statement of the run of e. *)
Fault(e) == MayFail /\ faulted' = faulted \cup {e}

(* It refuses one of the queue or of the watchdog. *)
Failure == MayFail /\ failures' = failures + 1

Init ==
    /\ status = [e \in Exec |-> "Absent"]
    /\ created = << >>
    /\ acks = {}
    /\ controllers = {}
    /\ aborted = {}
    /\ pass = [p \in Pass |-> IdlePass]
    /\ worker = [w \in Worker |-> IdleWorker]
    /\ hung = {}
    /\ cancel = [e \in Exec |-> "none"]
    /\ sweep = IdleSweep
    /\ maintenance = "off"
    /\ server = "up"
    /\ doomed = {}
    /\ faulted = {}
    /\ failures = 0

-----------------------------------------------------------------------------
(* runJob: the row first, then the queue. *)

Enqueue(e) ==
    /\ Serving
    /\ e \in Backups
    /\ status[e] = "Absent"
    /\ status' = [status EXCEPT ![e] = "Pending"]
    /\ created' = Append(created, e)
    /\ acks' = acks \cup {e}
    /\ UNCHANGED <<controllers, aborted, pass, worker, hung, cancel, sweep,
                   maintenance, server, doomed, faulted, failures>>

TriggerQueue(e) ==
    /\ Serving
    /\ e \in acks
    /\ acks' = acks \ {e}
    /\ processQueue
    /\ UNCHANGED <<status, created, controllers, aborted, worker, hung, cancel,
                   sweep, maintenance, server, doomed, faulted, failures>>

-----------------------------------------------------------------------------
(* processQueue after its flag checks, and performExecution's claim. *)

(* With a test for equality: more may run than the limit says. *)
FullAtLimit(running) == running = MaxJobs

QueueFull(running) == running >= MaxJobs

CountRunning(p) ==
    LET running == Cardinality(InState("Running"))
    IN  /\ Serving
        /\ pass[p].pc = "entered"
        /\ pass' = [pass EXCEPT ![p] =
                       IF QueueFull(running) THEN IdlePass
                       ELSE [IdlePass EXCEPT !.pc = "counted",
                                             !.slots = MaxJobs - running]]
        /\ UNCHANGED <<status, created, acks, controllers, aborted, worker, hung,
                       cancel, sweep, maintenance, server, doomed, faulted, failures>>

SelectPending(p) ==
    LET picks == OldestPending(pass[p].slots)
    IN  /\ Serving
        /\ pass[p].pc = "counted"
        /\ pass' = [pass EXCEPT ![p] =
                       IF picks = {} THEN IdlePass
                       ELSE [IdlePass EXCEPT !.pc = "starting",
                                             !.picks = picks]]
        /\ UNCHANGED <<status, created, acks, controllers, aborted, worker, hung,
                       cancel, sweep, maintenance, server, doomed, faulted, failures>>

(* The runs of one pass are started oldest first. *)
NextPick(p, e) == /\ pass[p].pc = "starting"
               /\ e \in pass[p].picks
               /\ \A d \in pass[p].picks : ~Older(d, e)

DropPick(p, e) ==
    pass' = [pass EXCEPT ![p] =
               IF pass[p].picks = {e} THEN IdlePass
               ELSE [pass[p] EXCEPT !.picks = @ \ {e}]]

(* One row changed: the run is this one's. *)
Claim(p, e, w) ==
    /\ Serving
    /\ NextPick(p, e)
    /\ Claimable(e)
    /\ FirstFree(w, worker)
    /\ status' = [status EXCEPT ![e] = "Running"]
    /\ SetWorker(w, e, "claimed", "Running")
    /\ DropPick(p, e)
    /\ UNCHANGED <<created, acks, controllers, aborted, hung, cancel, sweep,
                   maintenance, server, doomed, faulted, failures>>

(* No row changed: someone else claimed, cancelled or failed it. *)
SkipClaimed(p, e) ==
    /\ Serving
    /\ NextPick(p, e)
    /\ ~Claimable(e)
    /\ DropPick(p, e)
    /\ UNCHANGED <<status, created, acks, controllers, aborted, worker, hung,
                   cancel, sweep, maintenance, server, doomed, faulted, failures>>

(* The setting, the count or the findMany is refused. All who call           *)
(* processQueue log that and go on: the rows wait for the next call.         *)
LosePass(p) ==
    /\ Serving
    /\ pass[p].pc \in {"entered", "counted"}
    /\ Failure
    /\ pass' = [pass EXCEPT ![p] = IdlePass]
    /\ UNCHANGED <<status, created, acks, controllers, aborted, worker, hung,
                   cancel, sweep, maintenance, server, doomed, faulted>>

(* The claim is refused: allSettled keeps that to itself, the row stays      *)
(* Pending, and the pass goes on to the next of its picks.                   *)
ClaimRefused(p, e) ==
    /\ Serving
    /\ NextPick(p, e)
    /\ Failure
    /\ pass' = [pass EXCEPT ![p] =
                   IF pass[p].picks = {e} THEN IdlePass
                   ELSE [pass[p] EXCEPT !.picks = @ \ {e},
                                        !.refused = @ \cup {e}]]
    /\ UNCHANGED <<status, created, acks, controllers, aborted, worker, hung,
                   cancel, sweep, maintenance, server, doomed, faulted>>

-----------------------------------------------------------------------------
(* performExecution after the claim. *)

Register(w) ==
    LET e == worker[w].exec
    IN  /\ At(w, "claimed")
        /\ registerExecution(e)
        /\ \/ MoveTo(w, "working") /\ UNCHANGED faulted
           \/ Free(w) /\ Fault(e)      \* the row cannot be read back
        /\ UNCHANGED <<status, created, acks, pass, hung, cancel,
                       sweep, maintenance, server, doomed, failures>>

(* Initialise, dump and upload; each is followed by checkCancelled. The row *)
(* of a system task names no job, so stepInitialize throws on it.           *)
Work(w) ==
    LET e == worker[w].exec
    IN  /\ At(w, "working")
        /\ \/ e \in Backups \ aborted /\ MoveTo(w, "retention")
           \/ EndWith(w, IF e \in aborted THEN "Cancelled" ELSE "Failed")
        /\ UNCHANGED <<status, created, acks, controllers, aborted, pass, hung,
                       cancel, sweep, maintenance, server, doomed, faulted, failures>>

(* Retention does not look at the signal; only a throw makes it Cancelled. *)
Retention(w) ==
    LET e == worker[w].exec
    IN  /\ At(w, "retention")
        /\ \/ EndWith(w, "Success")
           \/ EndWith(w, IF e \in aborted THEN "Cancelled" ELSE "Failed")
        /\ UNCHANGED <<status, created, acks, controllers, aborted, pass, hung,
                       cancel, sweep, maintenance, server, doomed, faulted, failures>>

(* finally: the last flush has returned, the controller goes first. *)
Unregister(w) ==
    LET e == worker[w].exec
    IN  /\ At(w, "flushing")
        /\ unregisterExecution(e)
        /\ MoveTo(w, "finalizing")
        /\ UNCHANGED <<status, created, acks, pass, hung, cancel, sweep,
                       maintenance, server, doomed, faulted, failures>>

(* stepCleanup, then stepFinalize's update by id, whatever the row says. *)
Finalize(w) ==
    LET e == worker[w].exec
    IN  /\ At(w, "finalizing")
        /\ \/ /\ SetStatus(e, worker[w].outcome)
              /\ MoveTo(w, "notifying")
              /\ UNCHANGED faulted
           \/ Free(w) /\ Fault(e) /\ UNCHANGED status
        /\ UNCHANGED <<created, acks, controllers, aborted, pass, hung, cancel,
                       sweep, maintenance, server, doomed, failures>>

(* Notifications are out. *)
TriggerNext(w) ==
    /\ At(w, "notifying")
    /\ RunOver(w)
    /\ UNCHANGED <<status, created, acks, controllers, aborted, hung, cancel,
                   sweep, maintenance, server, doomed, faulted, failures>>

-----------------------------------------------------------------------------
(* Restores: no queue, no limit, the row is created Running. *)

StartRestore(e, w) ==
    /\ Serving
    /\ e \in Restores
    /\ status[e] = "Absent"
    /\ ~isDatabaseMaintenanceActive
    /\ FirstFree(w, worker)
    /\ SetStatus(e, "Running")
    /\ SetWorker(w, e, "restoreCreated", "Running")
    /\ UNCHANGED <<created, acks, controllers, aborted, pass, hung, cancel,
                   sweep, maintenance, server, doomed, faulted, failures>>

RegisterRestore(w) ==
    /\ At(w, "restoreCreated")
    /\ registerExecution(worker[w].exec)
    /\ MoveTo(w, "restoring")
    /\ UNCHANGED <<status, created, acks, pass, hung, cancel, sweep,
                   maintenance, server, doomed, faulted, failures>>

(* The pipeline never reads the signal, only its catch block does. *)
WriteRestore(w) ==
    LET e == worker[w].exec
    IN  /\ At(w, "restoring")
        /\ MoveTo(w, "restored")
        /\ \/ /\ \/ \E s \in {"Success", "Failed"} : SetStatus(e, s)
                 \/ e \in aborted /\ SetStatus(e, "Cancelled")
              /\ UNCHANGED faulted
           \/ Fault(e) /\ UNCHANGED status
        /\ UNCHANGED <<created, acks, controllers, aborted, pass, hung, cancel,
                       sweep, maintenance, server, doomed, failures>>

EndRestore(w) ==
    LET e == worker[w].exec
    IN  /\ At(w, "restored")
        /\ unregisterExecution(e)
        /\ RunOver(w)
        /\ UNCHANGED <<status, created, acks, hung, cancel, sweep, maintenance,
                       server, doomed, faulted, failures>>

-----------------------------------------------------------------------------
(* SystemTaskRunner: its row waits as Pending for its own start(). *)

CreateTask(e, w) ==
    /\ Serving
    /\ e \in Tasks
    /\ status[e] = "Absent"
    /\ FirstFree(w, worker)
    /\ SetStatus(e, "Pending")
    /\ created' = Append(created, e)
    /\ SetWorker(w, e, "taskCreated", "Running")
    /\ UNCHANGED <<acks, controllers, aborted, pass, hung, cancel, sweep,
                   maintenance, server, doomed, faulted, failures>>

StartTask(w) ==
    LET e == worker[w].exec
    IN  /\ At(w, "taskCreated")
        /\ \/ /\ Claimable(e)
              /\ SetStatus(e, "Running")
              /\ MoveTo(w, "task")
              /\ UNCHANGED faulted
           \/ /\ \/ ~Claimable(e) /\ UNCHANGED faulted
                 \/ Fault(e)
              /\ MoveTo(w, "taskLost")
              /\ UNCHANGED status
        /\ UNCHANGED <<created, acks, controllers, aborted, pass, hung, cancel,
                       sweep, maintenance, server, doomed, failures>>

(* finish(); nothing offers the slot to the queue afterwards. *)
FinishTask(w) ==
    LET e == worker[w].exec
    IN  /\ \/ /\ At(w, "task")
              /\ \E s \in {"Success", "Failed"} : SetStatus(e, s)
              /\ UNCHANGED faulted
           \/ At(w, "taskLost") /\ SetStatus(e, "Failed") /\ UNCHANGED faulted
           \/ At(w, "task") /\ Fault(e) /\ UNCHANGED status
        /\ Free(w)
        /\ UNCHANGED <<created, acks, controllers, aborted, pass, hung, cancel,
                       sweep, maintenance, server, doomed, failures>>

-----------------------------------------------------------------------------
(* A source stops answering; it may answer again much later. *)

CanHang == {"working", "retention", "finalizing", "restoring", "task"}

Hang(w) ==
    /\ "hang" \in Disturbances
    /\ Serving
    /\ worker[w].pc \in CanHang
    /\ w \notin hung
    /\ hung' = hung \cup {w}
    /\ UNCHANGED <<status, created, acks, controllers, aborted, pass, worker,
                   cancel, sweep, maintenance, server, doomed, faulted, failures>>

Resume(w) ==
    /\ Serving
    /\ w \in hung
    /\ hung' = hung \ {w}
    /\ UNCHANGED <<status, created, acks, controllers, aborted, pass, worker,
                   cancel, sweep, maintenance, server, doomed, faulted, failures>>

-----------------------------------------------------------------------------
(* POST /api/executions/[id]/cancel: read the row, then act on what it said. *)

CancelRead(e) ==
    /\ Serving
    /\ e \in Cancellable
    /\ cancel[e] = "none"
    /\ \/ status[e] = "Pending" /\ cancel' = [cancel EXCEPT ![e] = "sawPending"]
       \/ status[e] = "Running" /\ cancel' = [cancel EXCEPT ![e] = "sawRunning"]
    /\ UNCHANGED <<status, created, acks, controllers, aborted, pass, worker,
                   hung, sweep, maintenance, server, doomed, faulted, failures>>

CancelSignal(e) ==
    /\ Serving
    /\ cancel[e] = "sawRunning"
    /\ abortExecution({e})
    /\ cancel' = [cancel EXCEPT ![e] = IF e \in controllers THEN "none" ELSE "force"]
    /\ UNCHANGED <<status, created, acks, controllers, pass, worker, hung, sweep,
                   maintenance, server, doomed, faulted, failures>>

(* The update is by id: the row may have moved on since it was read. *)
CancelWrite(e) ==
    /\ Serving
    /\ cancel[e] \in {"sawPending", "force"}
    /\ SetStatus(e, "Cancelled")
    /\ cancel' = [cancel EXCEPT ![e] = "none"]
    /\ UNCHANGED <<created, acks, controllers, aborted, pass, worker, hung, sweep,
                   maintenance, server, doomed, faulted, failures>>

-----------------------------------------------------------------------------
(* sweepStuckExecutions: list, then signal and fail one row after another. *)

SweepList ==
    LET stuck == {e \in InState("Running") : Idle(e)}
    IN  /\ server = "up"
        /\ ~isDatabaseMaintenanceActive
        /\ sweep = IdleSweep
        /\ stuck # {}
        /\ sweep' = [sweep EXCEPT !.listed = stuck]
        /\ UNCHANGED <<status, created, acks, controllers, aborted, pass, worker,
                       hung, cancel, maintenance, server, doomed, faulted, failures>>

SweepSignal(e) ==
    /\ Serving
    /\ e \in sweep.listed
    /\ sweep.signalled = {}
    /\ abortExecution({e})
    /\ sweep' = [sweep EXCEPT !.listed = @ \ {e}, !.signalled = {e}]
    /\ UNCHANGED <<status, created, acks, controllers, pass, worker, hung, cancel,
                   maintenance, server, doomed, faulted, failures>>

(* updateMany({id, Running} -> Failed); refused, it ends the sweep there,    *)
(* and nobody calls the queue for the rows that were failed before.          *)
SweepFail(e) ==
    /\ Serving
    /\ e \in sweep.signalled
    /\ \/ /\ status[e] = "Running"
          /\ SetStatus(e, "Failed")
          /\ sweep' = [sweep EXCEPT !.signalled = {}, !.freed = TRUE]
          /\ UNCHANGED failures
       \/ /\ status[e] # "Running"
          /\ sweep' = [sweep EXCEPT !.signalled = {}]
          /\ UNCHANGED <<status, failures>>
       \/ Failure /\ sweep' = IdleSweep /\ UNCHANGED status
    /\ UNCHANGED <<created, acks, controllers, aborted, pass, worker, hung, cancel,
                   maintenance, server, doomed, faulted>>

SweepEnd ==
    /\ Serving
    /\ sweep.listed = {} /\ sweep.signalled = {}
    /\ sweep.freed
    /\ sweep' = IdleSweep
    /\ processQueue
    /\ UNCHANGED <<status, created, acks, controllers, aborted, worker, hung,
                   cancel, maintenance, server, doomed, faulted, failures>>

-----------------------------------------------------------------------------
(* withMaintenance: take the flag, count, run alone, let the queue go on. *)

BeginMaintenance ==
    /\ "maintenance" \in Disturbances
    /\ Serving
    /\ maintenance = "off"
    /\ maintenance' = IF InState("Running") = {} THEN "exclusive" ELSE "refused"
    /\ UNCHANGED <<status, created, acks, controllers, aborted, pass, worker, hung,
                   cancel, sweep, server, doomed, faulted, failures>>

EndMaintenance ==
    /\ Serving
    /\ maintenance # "off"
    /\ maintenance' = "off"
    /\ IF isShutdownRequested THEN UNCHANGED pass ELSE EnterPass
    /\ UNCHANGED <<status, created, acks, controllers, aborted, worker, hung,
                   cancel, sweep, server, doomed, faulted, failures>>

-----------------------------------------------------------------------------
(* Graceful shutdown, crash (or second signal), and the next start. *)

ShutdownStep(from, to) ==
    /\ server = from
    /\ server' = to
    /\ UNCHANGED <<created, acks, controllers, pass, worker, hung, cancel, sweep,
                   maintenance, faulted, failures>>

RequestShutdown ==
    /\ "shutdown" \in Disturbances
    /\ ShutdownStep("up", "draining")
    /\ UNCHANGED <<status, aborted, doomed>>

Drained ==
    /\ ShutdownStep("draining", "emptying")
    /\ InState("Running") = {}
    /\ UNCHANGED <<status, aborted, doomed>>

GraceOver ==
    /\ ShutdownStep("draining", "aborting")
    /\ InState("Running") # {}
    /\ doomed' = InState("Running")
    /\ UNCHANGED <<status, aborted>>

AbortRunning ==
    /\ ShutdownStep("aborting", "emptying")
    /\ abortExecution(doomed)
    /\ status' = [e \in Exec |-> IF status[e] = "Running" THEN "Failed" ELSE status[e]]
    /\ doomed' = {}

CountPending ==
    /\ ShutdownStep("emptying", IF InState("Pending") = {} THEN "exiting"
                                                          ELSE "cancelling")
    /\ UNCHANGED <<status, aborted, doomed>>

FailPending ==
    /\ ShutdownStep("cancelling", "exiting")
    /\ status' = [e \in Exec |-> IF status[e] = "Pending" THEN "Failed" ELSE status[e]]
    /\ UNCHANGED <<aborted, doomed>>

(* Only the database outlives the process. *)
LoseMemory ==
    /\ acks' = {} /\ controllers' = {} /\ aborted' = {} /\ hung' = {}
    /\ pass' = [p \in Pass |-> IdlePass]
    /\ worker' = [w \in Worker |-> IdleWorker]
    /\ cancel' = [e \in Exec |-> "none"]
    /\ sweep' = IdleSweep
    /\ maintenance' = "off"
    /\ doomed' = {}
    /\ UNCHANGED <<status, created, faulted, failures>>

Exit == server = "exiting" /\ server' = "down" /\ LoseMemory

Crash == /\ "crash" \in Disturbances
         /\ server # "down"
         /\ server' = "down"
         /\ LoseMemory

(* With queued rows left to wait for a queue that nobody calls. *)
OnlyRunningRows == InState("Running")

StaleRows == InState("Running") \cup InState("Pending")

(* recoverStaleExecutions, before anything else of the process runs. When    *)
(* its findMany is refused it recovers nothing, and the server starts.       *)
Boot ==
    /\ server = "down"
    /\ server' = "recovering"
    /\ \/ doomed' = StaleRows /\ UNCHANGED faulted
       \/ doomed' = {} /\ MayFail /\ faulted' = faulted \cup StaleRows
    /\ UNCHANGED <<status, created, memory, failures>>

Recover(e) ==
    /\ server = "recovering"
    /\ e \in doomed
    /\ doomed' = doomed \ {e}
    /\ \/ SetStatus(e, "Failed") /\ UNCHANGED faulted
       \/ Fault(e) /\ UNCHANGED status
    /\ UNCHANGED <<created, memory, server, failures>>

Recovered ==
    /\ server = "recovering"
    /\ doomed = {}
    /\ server' = "up"
    /\ UNCHANGED <<status, created, memory, doomed, faulted, failures>>

-----------------------------------------------------------------------------
PassStep(p) == \/ CountRunning(p) \/ SelectPending(p) \/ LosePass(p)
               \/ \E e \in Exec : \/ SkipClaimed(p, e) \/ ClaimRefused(p, e)
                                 \/ \E w \in Worker : Claim(p, e, w)

RunStep(w) == \/ Register(w) \/ Work(w) \/ Retention(w) \/ Unregister(w)
              \/ Finalize(w) \/ TriggerNext(w)
              \/ RegisterRestore(w) \/ WriteRestore(w) \/ EndRestore(w)
              \/ StartTask(w) \/ FinishTask(w)

Request(e) == \/ Enqueue(e)
              \/ \E w \in Worker : StartRestore(e, w) \/ CreateTask(e, w)
              \/ CancelRead(e)

CancelStep(e) == CancelSignal(e) \/ CancelWrite(e)

SweepStep == SweepEnd \/ \E e \in Exec : SweepSignal(e) \/ SweepFail(e)

ShutdownSteps == \/ Drained \/ GraceOver \/ AbortRunning \/ CountPending
                 \/ FailPending \/ Exit

Next == \/ \E e \in Exec : Request(e) \/ TriggerQueue(e) \/ CancelStep(e) \/ Recover(e)
        \/ \E p \in Pass : PassStep(p)
        \/ \E w \in Worker : RunStep(w) \/ Hang(w) \/ Resume(w)
        \/ SweepList \/ SweepStep
        \/ BeginMaintenance \/ EndMaintenance
        \/ RequestShutdown \/ ShutdownSteps
        \/ Crash \/ Boot \/ Recovered

Spec == Init /\ [][Next]_vars

(* The event loop runs every continuation whose await has returned. A hung  *)
(* source is owed nothing. The watchdog is a cron task of the process.      *)
Fairness ==
    /\ \A e \in Exec : WF_vars(TriggerQueue(e)) /\ WF_vars(CancelStep(e))
    /\ \A p \in Pass : WF_vars(PassStep(p))
    /\ \A w \in Worker : SF_vars(RunStep(w))
    /\ SF_vars(SweepList)
    /\ WF_vars(SweepStep)
    /\ WF_vars(EndMaintenance)
    /\ WF_vars(ShutdownSteps)
    /\ WF_vars(Recovered \/ \E e \in Exec : Recover(e))

FairSpec == Spec /\ Fairness

-----------------------------------------------------------------------------
(* An execution is carried out by at most one run at a time, whichever      *)
(* passes of the queue saw its row Pending (performExecution's claim, and   *)
(* the same claim in SystemTaskRunner.start).                               *)
SingleRun ==
    \A v, w \in Worker : \A e \in Exec : Owns(v, e) /\ Owns(w, e) => v = w

(* A row that occupies a slot of the queue belongs to a run that is alive   *)
(* and will write its end, unless the database refused a query about it:    *)
(* nothing else may leave a slot taken for ever (performExecution's         *)
(* finally, the restore's, finish()).                                       *)
SlotHasHolder ==
    server \notin {"down", "recovering"} =>
        \A e \in InState("Running") \ faulted : \E w \in Worker : Owns(w, e)

(* While a run does its work its controller is in the registry, so that     *)
(* cancel, watchdog and shutdown can reach it; and the registry keeps no    *)
(* controller of a run that is over (registerExecution/unregisterExecution).*)
RegistryMatchesRuns ==
    /\ \A w \in Worker :
         worker[w].pc \in {"working", "retention", "flushing", "restoring", "restored"}
            => worker[w].exec \in controllers
    /\ \A e \in controllers \ faulted : \E w \in Worker : Owns(w, e)

(* Backups are claimed in the order in which they were queued, also when    *)
(* several passes select and claim at the same time (processQueue's FIFO).  *)
(* A backup overtakes a waiting one in one case only: the database refused  *)
(* the older one's claim to a pass that had picked both and goes on.        *)
ClaimsInOrder ==
    [][\A e \in Backups : status[e] = "Pending" /\ status'[e] = "Running"
          => \A d \in InState("Pending") : Older(d, e)
                => \E p \in Pass : d \in pass[p].refused /\ e \in pass[p].picks]_vars

(* Wherever the previous process died, the next one starts with no Pending  *)
(* or Running row left over, apart from rows the database refused to list   *)
(* or to update (recoverStaleExecutions).                                   *)
CleanStart ==
    [][server = "recovering" /\ server' = "up"
          => \A e \in Exec \ faulted : status[e] \notin Active]_vars

(* What the ledger of executions promises its readers. *)
Ledger == INSTANCE ExecutionLifecycle WITH
    Exec <- Exec,
    phase <- [e \in Exec |-> CASE status[e] = "Absent"  -> "new"
                               [] status[e] = "Pending" -> "queued"
                               [] status[e] = "Running" -> "active"
                               [] OTHER                 -> "closed"]

(* Every row goes new, queued, active, closed and never back: a closed row  *)
(* is never queued or started again, a queued one never started twice.      *)
FollowsLifecycle == Ledger!Spec

(* A queued backup does not wait for ever: whoever takes a slot gives it    *)
(* back and wakes the queue, and a run that hangs, or that a refused        *)
(* statement has ended, is failed by the watchdog (runner.ts, pipeline.ts   *)
(* and stuck-execution-service.ts all call processQueue when a slot is free *)
(* again); unless a statement of the queue or of the watchdog itself fails, *)
(* which nobody repeats.                                                    *)
QueuedRunStarts ==
    \A e \in Backups :
        status[e] = "Pending" ~> status[e] # "Pending" \/ server # "up" \/ failures > 0

(* No run holds its slot for ever, not even one whose source never answers  *)
(* (the watchdog), unless the process is stopped first.                     *)
SlotsReturn ==
    \A e \in Exec : status[e] = "Running" ~> status[e] # "Running" \/ server = "down"

(* Never more backups in progress than the limit says (maxConcurrentJobs).  *)
WithinLimit == Cardinality(InState("Running") \cap Backups) <= MaxJobs

=============================================================================
