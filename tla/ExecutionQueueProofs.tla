------------------------ MODULE ExecutionQueueProofs ------------------------
(***************************************************************************)
(* For any number of executions, passes, runs and any limit: the state     *)
(* types, that an execution never has two runs, that every slot has a      *)
(* holder and every run its entry in the abort registry, that a restart    *)
(* leaves no row open, that backups are claimed in the order in which they *)
(* were queued, and that the rows implement ExecutionLifecycle.            *)
(***************************************************************************)
EXTENDS ExecutionQueue, FiniteSetTheorems, TLAPS

(* A run that is not over has an execution. *)
BusyHasExec == \A w \in Worker : worker[w].pc # "idle" => worker[w].exec \in Exec

(* Who owns an execution got it by moving its row on from Pending (or by    *)
(* creating it Running), and no statement of the code moves a row back.     *)
NotStarted == {"Absent", "Pending"}
OwnedRowsStarted ==
    \A w \in Worker : \A e \in Exec : Owns(w, e) => status[e] \notin NotStarted

OwnersInv == BusyHasExec /\ OwnedRowsStarted /\ SingleRun

(* SingleRun is not inductive: a claim is safe because a Pending row has no *)
(* owner, and that needs OwnedRowsStarted.                                  *)
IInv == TypeOK /\ OwnersInv

-----------------------------------------------------------------------------
(* The number of rows in a state is a number: processQueue can subtract it. *)
LEMMA CountIsNat ==
    ASSUME NEW s
    PROVE  Cardinality(InState(s)) \in Nat
<1>1. InState(s) \subseteq Exec
  BY DEF InState
<1>2. IsFiniteSet(InState(s))
  BY <1>1, FiniteAssumption, FS_Subset
<1> QED
  BY <1>2, FS_CardinalityType

(* A call of processQueue touches the passes only and keeps their type. *)
PassTable == [Pass -> [pc : {"idle", "entered", "counted", "starting"},
                       slots : Nat, picks : SUBSET Exec, refused : SUBSET Exec]]

LEMMA EnterPassType ==
    ASSUME pass \in PassTable, EnterPass
    PROVE  pass' \in PassTable
<1>1. PICK p \in Pass : pass' = [pass EXCEPT ![p] = [IdlePass EXCEPT !.pc = "entered"]]
  BY DEF EnterPass
<1>2. [IdlePass EXCEPT !.pc = "entered"]
        \in [pc : {"idle", "entered", "counted", "starting"}, slots : Nat, picks : SUBSET Exec, refused : SUBSET Exec]
  BY DEF IdlePass
<1> QED
  BY <1>1, <1>2 DEF PassTable

LEMMA PassTypes ==
    ASSUME pass \in PassTable, processQueue
    PROVE  pass' \in PassTable
BY EnterPassType DEF processQueue

(* The ways in which a run writes the table of runs and its row. *)
WorkerTable == [Worker -> [pc : WorkerPcs, exec : Exec \cup {"none"}, outcome : Outcomes]]
StatusTable == [Exec -> Statuses]

LEMMA MoveType ==
    ASSUME worker \in WorkerTable, NEW w \in Worker, NEW pc \in WorkerPcs, MoveTo(w, pc)
    PROVE  worker' \in WorkerTable
BY DEF WorkerTable, MoveTo

LEMMA EndType ==
    ASSUME worker \in WorkerTable, NEW w \in Worker, NEW o \in Outcomes, EndWith(w, o)
    PROVE  worker' \in WorkerTable
BY DEF WorkerTable, EndWith, WorkerPcs

LEMMA FreeType ==
    ASSUME worker \in WorkerTable, NEW w \in Worker, Free(w)
    PROVE  worker' \in WorkerTable
BY DEF WorkerTable, Free, IdleWorker, WorkerPcs, Outcomes

LEMMA SetStatusType ==
    ASSUME status \in StatusTable, NEW e \in Exec, NEW s \in Statuses, SetStatus(e, s)
    PROVE  status' \in StatusTable
BY DEF StatusTable, SetStatus

LEMMA SetWorkerType ==
    ASSUME worker \in WorkerTable, NEW w \in Worker, NEW e \in Exec,
           NEW pc \in WorkerPcs, NEW o \in Outcomes, SetWorker(w, e, pc, o)
    PROVE  worker' \in WorkerTable
BY DEF WorkerTable, SetWorker

LEMMA DropPickType ==
    ASSUME pass \in PassTable, NEW p \in Pass, NEW e \in Exec,
           DropPick(p, e) \/ ClaimRefused(p, e)
    PROVE  pass' \in PassTable
<1>0. [pass[p] EXCEPT !.picks = @ \ {e}, !.refused = @ \cup {e}]
        \in [pc : {"idle", "entered", "counted", "starting"}, slots : Nat, picks : SUBSET Exec, refused : SUBSET Exec]
  BY DEF PassTable
<1>1. [pass[p] EXCEPT !.picks = @ \ {e}]
        \in [pc : {"idle", "entered", "counted", "starting"}, slots : Nat, picks : SUBSET Exec, refused : SUBSET Exec]
  BY DEF PassTable
<1>2. IdlePass \in [pc : {"idle", "entered", "counted", "starting"},
                    slots : Nat, picks : SUBSET Exec, refused : SUBSET Exec]
  BY DEF IdlePass
<1> QED
  BY <1>0, <1>1, <1>2 DEF PassTable, DropPick, ClaimRefused

(* The steps of the queue other than a claim touch nothing but the passes. *)
PassOnly(p) == \/ CountRunning(p) \/ SelectPending(p) \/ LosePass(p)
               \/ \E e \in Exec : SkipClaimed(p, e) \/ ClaimRefused(p, e)

LEMMA PassOnlyEffect ==
    ASSUME NEW p \in Pass, PassOnly(p)
    PROVE  /\ Serving
           /\ UNCHANGED <<status, created, acks, controllers, aborted, worker, hung,
                          cancel, sweep, maintenance, server, doomed, faulted>>
BY DEF PassOnly, CountRunning, SelectPending, LosePass, SkipClaimed, ClaimRefused

(* The queue's own steps keep the types. *)
LEMMA TypePasses ==
    ASSUME TypeOK, NEW p \in Pass, PassStep(p)
    PROVE  TypeOK'
<1>1. CASE CountRunning(p)
  <2> DEFINE n == Cardinality(InState("Running"))
             entry == IF QueueFull(n) THEN IdlePass
                      ELSE [IdlePass EXCEPT !.pc = "counted", !.slots = MaxJobs - n]
  <2>1. n \in Nat
    BY CountIsNat
  <2>4. pass' = [pass EXCEPT ![p] = entry]
    BY <1>1, Zenon DEF CountRunning
  <2> HIDE DEF n
  <2>2. ~QueueFull(n) => MaxJobs - n \in Nat
    BY <2>1, MaxJobsAssumption DEF QueueFull
  <2>3. entry \in [pc : {"idle", "entered", "counted", "starting"},
                   slots : Nat, picks : SUBSET Exec, refused : SUBSET Exec]
    BY <2>1, <2>2, MaxJobsAssumption DEF IdlePass
  <2> HIDE DEF entry
  <2>5. UNCHANGED <<status, created, acks, controllers, aborted, worker, hung,
                    cancel, sweep, maintenance, server, doomed, faulted, failures>>
    BY <1>1 DEF CountRunning
  <2> QED
    BY <2>3, <2>4, <2>5 DEF TypeOK
<1>2. CASE SelectPending(p)
  <2>1. OldestPending(pass[p].slots) \subseteq Exec
    BY DEF OldestPending, InState
  <2> QED
    BY <1>2, <2>1 DEF TypeOK, SelectPending, IdlePass
<1>3. ASSUME NEW e \in Exec, SkipClaimed(p, e)
      PROVE  TypeOK'
  <2>1. pass \in PassTable
    BY DEF TypeOK, PassTable
  <2>2. pass' \in PassTable
    BY <1>3, <2>1, DropPickType DEF SkipClaimed
  <2> QED
    BY <1>3, <2>2 DEF TypeOK, SkipClaimed, PassTable
<1>4. ASSUME NEW e \in Exec, NEW w \in Worker, Claim(p, e, w)
      PROVE  TypeOK'
  <2>1. pass \in PassTable /\ worker \in WorkerTable
    BY DEF TypeOK, PassTable, WorkerTable
  <2>2. pass' \in PassTable
    BY <1>4, <2>1, DropPickType DEF Claim
  <2>3. "claimed" \in WorkerPcs /\ "Running" \in Outcomes /\ "Running" \in Statuses
    BY DEF WorkerPcs, Outcomes, Statuses, Active
  <2>4. worker' \in WorkerTable
    BY <1>4, <2>1, <2>3, SetWorkerType DEF Claim
  <2>5. status' \in [Exec -> Statuses]
    BY <1>4, <2>3 DEF Claim, TypeOK
  <2>6. UNCHANGED <<created, acks, controllers, aborted, hung, cancel, sweep,
                    maintenance, server, doomed, faulted, failures>>
    BY <1>4 DEF Claim
  <2> QED
    BY <2>2, <2>4, <2>5, <2>6 DEF TypeOK, PassTable, WorkerTable
<1>5. CASE LosePass(p)
  BY <1>5 DEF TypeOK, LosePass, Failure, IdlePass
<1>6. ASSUME NEW e \in Exec, ClaimRefused(p, e)
      PROVE  TypeOK'
  <2>1. pass \in PassTable
    BY DEF TypeOK, PassTable
  <2>2. pass' \in PassTable
    BY <1>6, <2>1, DropPickType
  <2> QED
    BY <1>6, <2>2 DEF TypeOK, ClaimRefused, Failure, PassTable
<1> QED
  BY <1>1, <1>2, <1>3, <1>4, <1>5, <1>6 DEF PassStep

(* Requests of users and of the scheduler keep the types. *)
LEMMA TypeRequests ==
    ASSUME TypeOK, NEW e \in Exec,
           Request(e) \/ TriggerQueue(e) \/ CancelStep(e)
    PROVE  TypeOK'
<1> USE DEF Statuses, Active, WorkerPcs, Outcomes
<1>1. CASE Enqueue(e)
  BY <1>1 DEF TypeOK, Enqueue
<1>2. ASSUME NEW w \in Worker, StartRestore(e, w)
      PROVE  TypeOK'
  BY <1>2 DEF TypeOK, StartRestore, SetStatus, SetWorker
<1>3. ASSUME NEW w \in Worker, CreateTask(e, w)
      PROVE  TypeOK'
  BY <1>3 DEF TypeOK, CreateTask, SetStatus, SetWorker
<1>4. CASE CancelRead(e)
  BY <1>4 DEF TypeOK, CancelRead
<1>5. CASE TriggerQueue(e)
  BY <1>5, PassTypes DEF TypeOK, TriggerQueue, PassTable
<1>6. CASE CancelSignal(e)
  BY <1>6 DEF TypeOK, CancelSignal, abortExecution
<1>7. CASE CancelWrite(e)
  BY <1>7 DEF TypeOK, CancelWrite, SetStatus, Terminal
<1> QED
  BY <1>1, <1>2, <1>3, <1>4, <1>5, <1>6, <1>7 DEF Request, CancelStep

(* Runs, restores and tasks keep the types. *)
LEMMA TypeRuns ==
    ASSUME TypeOK, BusyHasExec, NEW w \in Worker, RunStep(w)
    PROVE  TypeOK'
<1> DEFINE e == worker[w].exec
<1>a. worker \in WorkerTable /\ status \in StatusTable /\ pass \in PassTable
  BY DEF TypeOK, WorkerTable, StatusTable, PassTable
<1>b. worker[w].pc # "idle" => e \in Exec
  BY DEF BusyHasExec
<1>c. worker[w].outcome \in Outcomes
  BY DEF TypeOK
<1>d. ASSUME worker' \in WorkerTable, status' \in StatusTable, pass' \in PassTable,
             UNCHANGED <<created, acks, hung, cancel, sweep, maintenance, server, doomed, failures>>,
             controllers' \subseteq Exec, aborted' \subseteq Exec, faulted' \subseteq Exec
      PROVE  TypeOK'
  BY <1>d DEF TypeOK, WorkerTable, StatusTable, PassTable
<1>f. /\ {"working", "retention", "finalizing", "notifying", "restoring",
          "restored", "task", "taskLost"} \subseteq WorkerPcs
      /\ {"Success", "Failed", "Cancelled"} \subseteq Outcomes
      /\ {"Running", "Failed", "Success", "Cancelled"} \subseteq Statuses
      /\ Outcomes \subseteq Statuses
  BY DEF WorkerPcs, Outcomes, Statuses, Terminal, Active
<1>1. CASE Register(w)
  <2>1. e \in Exec
    BY <1>1, <1>b DEF Register, At
  <2>2. worker' \in WorkerTable
    BY <1>1, <1>a, <1>f, MoveType, FreeType DEF Register
  <2> QED
    BY <1>1, <1>a, <1>d, <2>1, <2>2 DEF TypeOK, Register, Fault, registerExecution
<1>2. CASE Work(w)
  <2>1. worker' \in WorkerTable
    BY <1>2, <1>a, <1>f, MoveType, EndType DEF Work
  <2> QED
    BY <1>2, <1>a, <1>d, <2>1 DEF TypeOK, Work
<1>3. CASE Retention(w)
  <2>1. worker' \in WorkerTable
    BY <1>3, <1>a, <1>f, EndType DEF Retention
  <2> QED
    BY <1>3, <1>a, <1>d, <2>1 DEF TypeOK, Retention
<1>4. CASE Unregister(w)
  <2>1. worker' \in WorkerTable
    BY <1>4, <1>a, <1>f, MoveType DEF Unregister
  <2> QED
    BY <1>4, <1>a, <1>d, <2>1 DEF TypeOK, Unregister, unregisterExecution
<1>5. CASE Finalize(w)
  <2>1. e \in Exec
    BY <1>5, <1>b DEF Finalize, At
  <2>2. worker' \in WorkerTable
    BY <1>5, <1>a, <1>f, MoveType, FreeType DEF Finalize
  <2>3. status' \in StatusTable
    BY <1>5, <1>a, <1>c, <1>f, <2>1, SetStatusType DEF Finalize
  <2> QED
    BY <1>5, <1>a, <1>d, <2>1, <2>2, <2>3 DEF TypeOK, Finalize, Fault
<1>6. CASE TriggerNext(w)
  <2>1. worker' \in WorkerTable /\ pass' \in PassTable
    BY <1>6, <1>a, FreeType, PassTypes DEF TriggerNext, RunOver
  <2> QED
    BY <1>6, <1>a, <1>d, <2>1 DEF TypeOK, TriggerNext, RunOver
<1>7. CASE RegisterRestore(w)
  <2>1. e \in Exec
    BY <1>7, <1>b DEF RegisterRestore, At
  <2>2. worker' \in WorkerTable
    BY <1>7, <1>a, <1>f, MoveType DEF RegisterRestore
  <2> QED
    BY <1>7, <1>a, <1>d, <2>1, <2>2 DEF TypeOK, RegisterRestore, registerExecution
<1>8. CASE WriteRestore(w)
  <2>1. e \in Exec
    BY <1>8, <1>b DEF WriteRestore, At
  <2>2. worker' \in WorkerTable
    BY <1>8, <1>a, <1>f, MoveType DEF WriteRestore
  <2>3. status' \in StatusTable
    BY <1>8, <1>a, <1>f, <2>1, SetStatusType DEF WriteRestore
  <2> QED
    BY <1>8, <1>a, <1>d, <2>1, <2>2, <2>3 DEF TypeOK, WriteRestore, Fault
<1>9. CASE EndRestore(w)
  <2>1. worker' \in WorkerTable /\ pass' \in PassTable
    BY <1>9, <1>a, FreeType, PassTypes DEF EndRestore, RunOver
  <2> QED
    BY <1>9, <1>a, <1>d, <2>1 DEF TypeOK, EndRestore, unregisterExecution, RunOver
<1>10. CASE StartTask(w)
  <2>1. e \in Exec
    BY <1>10, <1>b DEF StartTask, At
  <2>2. worker' \in WorkerTable
    BY <1>10, <1>a, <1>f, MoveType DEF StartTask
  <2>3. status' \in StatusTable
    BY <1>10, <1>a, <1>f, <2>1, SetStatusType DEF StartTask
  <2> QED
    BY <1>10, <1>a, <1>d, <2>1, <2>2, <2>3 DEF TypeOK, StartTask, Fault
<1>11. CASE FinishTask(w)
  <2>1. e \in Exec
    BY <1>11, <1>b DEF FinishTask, At
  <2>2. worker' \in WorkerTable
    BY <1>11, <1>a, FreeType DEF FinishTask
  <2>3. status' \in StatusTable
    BY <1>11, <1>a, <1>f, <2>1, SetStatusType DEF FinishTask
  <2> QED
    BY <1>11, <1>a, <1>d, <2>1, <2>2, <2>3 DEF TypeOK, FinishTask, Fault
<1> QED
  BY <1>1, <1>2, <1>3, <1>4, <1>5, <1>6, <1>7, <1>8, <1>9, <1>10, <1>11 DEF RunStep

(* The watchdog, maintenance and a source that hangs keep the types. *)
LEMMA TypeWatchdog ==
    ASSUME TypeOK, SweepList \/ SweepStep \/ BeginMaintenance \/ EndMaintenance
    PROVE  TypeOK'
<1>1. CASE SweepList
  <2>1. {e \in InState("Running") : Idle(e)} \subseteq Exec
    BY DEF InState
  <2> QED
    BY <1>1, <2>1 DEF TypeOK, SweepList
<1>2. CASE SweepEnd
  BY <1>2, PassTypes DEF TypeOK, SweepEnd, IdleSweep, PassTable
<1>3. ASSUME NEW e \in Exec, SweepSignal(e)
      PROVE  TypeOK'
  BY <1>3 DEF TypeOK, SweepSignal, abortExecution
<1>4. ASSUME NEW e \in Exec, SweepFail(e)
      PROVE  TypeOK'
  <2>1. status' \in StatusTable
    BY <1>4 DEF TypeOK, SweepFail, SetStatus, Statuses, Terminal, StatusTable
  <2>2. sweep' \in [listed : SUBSET Exec, signalled : SUBSET Exec, freed : BOOLEAN]
    <3>1. CASE sweep' = IdleSweep
      BY <3>1 DEF IdleSweep
    <3>2. CASE sweep' = [sweep EXCEPT !.signalled = {}, !.freed = TRUE]
      BY <3>2 DEF TypeOK
    <3>3. CASE sweep' = [sweep EXCEPT !.signalled = {}]
      BY <3>3 DEF TypeOK
    <3> QED
      BY <1>4, <3>1, <3>2, <3>3 DEF SweepFail
  <2>3. failures' \in Nat
    BY <1>4 DEF TypeOK, SweepFail, Failure
  <2> QED
    BY <1>4, <2>1, <2>2, <2>3 DEF TypeOK, SweepFail, StatusTable
<1>5. CASE BeginMaintenance
  BY <1>5 DEF TypeOK, BeginMaintenance
<1>6. CASE EndMaintenance
  BY <1>6, EnterPassType DEF TypeOK, EndMaintenance, PassTable
<1> QED
  BY <1>1, <1>2, <1>3, <1>4, <1>5, <1>6 DEF SweepStep

(* Nothing of the process survives its end. *)
LEMMA TypeMemory ==
    ASSUME TypeOK, LoseMemory, server' = "down"
    PROVE  TypeOK'
BY DEF TypeOK, LoseMemory, IdlePass, IdleWorker, IdleSweep, WorkerPcs, Outcomes

(* Shutdown, crash and recovery keep the types. *)
LEMMA TypeLife ==
    ASSUME TypeOK,
           \/ RequestShutdown \/ ShutdownSteps
           \/ Crash \/ Boot \/ Recovered
           \/ \E e \in Exec : Recover(e)
    PROVE  TypeOK'
<1> USE DEF ShutdownStep
<1>0. "Failed" \in Statuses
  BY DEF Statuses, Terminal
<1>1. CASE RequestShutdown
  BY <1>1 DEF TypeOK, RequestShutdown
<1>2. CASE Drained
  BY <1>2 DEF TypeOK, Drained
<1>3. CASE GraceOver
  BY <1>3 DEF TypeOK, GraceOver, InState
<1>4. CASE AbortRunning
  BY <1>0, <1>4 DEF TypeOK, AbortRunning, abortExecution
<1>5. CASE CountPending
  BY <1>5 DEF TypeOK, CountPending
<1>6. CASE FailPending
  BY <1>0, <1>6 DEF TypeOK, FailPending
<1>7. CASE Exit \/ Crash
  BY <1>7, TypeMemory DEF Exit, Crash
<1>8. CASE Boot
  BY <1>8 DEF TypeOK, Boot, memory, InState, StaleRows
<1>9. CASE Recovered
  BY <1>9 DEF TypeOK, Recovered, memory
<1>10. ASSUME NEW e \in Exec, Recover(e)
       PROVE  TypeOK'
  BY <1>0, <1>10 DEF TypeOK, Recover, memory, SetStatus, Fault
<1> QED
  BY <1>1, <1>2, <1>3, <1>4, <1>5, <1>6, <1>7, <1>8, <1>9, <1>10 DEF ShutdownSteps

LEMMA TypeInit ==
    ASSUME Init
    PROVE  TypeOK
BY DEF Init, TypeOK, Statuses, IdlePass, IdleWorker, IdleSweep, WorkerPcs, Outcomes

(* Every step of the system keeps the types. *)
LEMMA TypeNext ==
    ASSUME TypeOK, BusyHasExec, [Next]_vars
    PROVE  TypeOK'
<1>1. CASE UNCHANGED vars
  BY <1>1 DEF TypeOK, vars, memory
<1>2. ASSUME NEW w \in Worker, Hang(w) \/ Resume(w)
      PROVE  TypeOK'
  BY <1>2 DEF TypeOK, Hang, Resume
<1> QED
  BY <1>1, <1>2, TypePasses, TypeRequests, TypeRuns, TypeWatchdog, TypeLife DEF Next

-----------------------------------------------------------------------------
(* No statement of the code takes a row back to where it has no owner. *)
RowsForward == \A e \in Exec : status[e] \notin NotStarted => status'[e] \notin NotStarted

LEMMA SetForward ==
    ASSUME TypeOK, NEW e \in Exec, NEW s,
           SetStatus(e, s), s \notin NotStarted \/ status[e] \in NotStarted
    PROVE  RowsForward
BY DEF RowsForward, SetStatus, TypeOK

(* A step in which nobody becomes the owner of an execution. *)
LEMMA KeepOwners ==
    ASSUME OwnersInv, RowsForward, BusyHasExec',
           \A v \in Worker : \A e \in Exec : Owns(v, e)' => Owns(v, e)
    PROVE  OwnersInv'
BY DEF OwnersInv, RowsForward, OwnedRowsStarted, SingleRun

(* A step in which w becomes the owner of e, whose row had none. *)
LEMMA NewOwner ==
    ASSUME OwnersInv, RowsForward, BusyHasExec', NEW w \in Worker, NEW e \in Exec,
           status[e] \in NotStarted, status'[e] \notin NotStarted,
           \A v \in Worker : \A d \in Exec : Owns(v, d)' => Owns(v, d) \/ (v = w /\ d = e)
    PROVE  OwnersInv'
<1>1. \A v \in Worker : ~Owns(v, e)
  BY DEF OwnersInv, OwnedRowsStarted
<1>2. OwnedRowsStarted'
  BY DEF OwnersInv, OwnedRowsStarted, RowsForward
<1>3. SingleRun'
  BY <1>1 DEF OwnersInv, SingleRun
<1> QED
  BY <1>2, <1>3 DEF OwnersInv

(* The ways in which a run writes the table of runs, with respect to owners. *)
LEMMA MoveKeeps ==
    ASSUME TypeOK, OwnersInv, RowsForward, NEW w \in Worker, NEW pc,
           MoveTo(w, pc) \/ (\E o : EndWith(w, o)),
           worker[w].pc \notin {"idle", "taskCreated", "taskLost"}
    PROVE  OwnersInv'
<1>1. BusyHasExec'
  <2>1. \A v \in Worker : worker'[v].exec = worker[v].exec /\ (v # w => worker'[v] = worker[v])
    BY DEF TypeOK, MoveTo, EndWith
  <2> QED
    BY <2>1 DEF OwnersInv, BusyHasExec
<1>2. \A v \in Worker : \A e \in Exec : Owns(v, e)' => Owns(v, e)
  BY DEF TypeOK, Owns, MoveTo, EndWith
<1> QED
  BY <1>1, <1>2, KeepOwners

LEMMA FreeKeeps ==
    ASSUME TypeOK, OwnersInv, RowsForward, NEW w \in Worker, Free(w)
    PROVE  OwnersInv'
<1>1. BusyHasExec'
  BY DEF TypeOK, OwnersInv, BusyHasExec, Free, IdleWorker
<1>2. \A v \in Worker : \A e \in Exec : Owns(v, e)' => Owns(v, e)
  BY DEF TypeOK, Owns, Free, IdleWorker
<1> QED
  BY <1>1, <1>2, KeepOwners

LEMMA QuietKeeps ==
    ASSUME OwnersInv, RowsForward, UNCHANGED worker
    PROVE  OwnersInv'
<1>1. BusyHasExec'
  BY DEF OwnersInv, BusyHasExec
<1>2. \A v \in Worker : \A e \in Exec : Owns(v, e)' => Owns(v, e)
  BY DEF Owns
<1> QED
  BY <1>1, <1>2, KeepOwners

LEMMA EmptyKeeps ==
    ASSUME OwnersInv, LoseMemory
    PROVE  OwnersInv'
BY DEF LoseMemory, IdleWorker, OwnersInv, BusyHasExec, OwnedRowsStarted, SingleRun, Owns

(* The claim of the queue. *)
LEMMA ClaimKeeps ==
    ASSUME TypeOK, OwnersInv, NEW p \in Pass, NEW e \in Exec, NEW w \in Worker, Claim(p, e, w)
    PROVE  OwnersInv'
<1>1. status[e] \in NotStarted /\ status'[e] \notin NotStarted /\ RowsForward
  BY DEF Claim, TypeOK, NotStarted, RowsForward, Claimable
<1>2. BusyHasExec'
  BY DEF Claim, SetWorker, TypeOK, OwnersInv, BusyHasExec
<1>3. \A v \in Worker : \A d \in Exec : Owns(v, d)' => Owns(v, d) \/ (v = w /\ d = e)
  BY DEF Claim, SetWorker, TypeOK, Owns
<1> QED
  BY <1>1, <1>2, <1>3, NewOwner

(* A restore owns its execution from the row's creation. *)
LEMMA StartRestoreKeeps ==
    ASSUME TypeOK, OwnersInv, NEW e \in Exec, NEW w \in Worker, StartRestore(e, w)
    PROVE  OwnersInv'
<1>1. status[e] \in NotStarted /\ status'[e] \notin NotStarted /\ RowsForward
  BY DEF StartRestore, SetStatus, TypeOK, NotStarted, RowsForward
<1>2. BusyHasExec'
  BY DEF StartRestore, SetWorker, TypeOK, OwnersInv, BusyHasExec
<1>3. \A v \in Worker : \A d \in Exec : Owns(v, d)' => Owns(v, d) \/ (v = w /\ d = e)
  BY DEF StartRestore, SetWorker, TypeOK, Owns
<1> QED
  BY <1>1, <1>2, <1>3, NewOwner

(* A task does not own its execution before start(). *)
LEMMA CreateTaskKeeps ==
    ASSUME TypeOK, OwnersInv, NEW e \in Exec, NEW w \in Worker, CreateTask(e, w)
    PROVE  OwnersInv'
<1>1. RowsForward
  BY DEF CreateTask, SetStatus, TypeOK, NotStarted, RowsForward
<1>2. BusyHasExec'
  BY DEF CreateTask, SetWorker, TypeOK, OwnersInv, BusyHasExec
<1>3. \A v \in Worker : \A d \in Exec : Owns(v, d)' => Owns(v, d)
  BY DEF CreateTask, SetWorker, TypeOK, Owns
<1> QED
  BY <1>1, <1>2, <1>3, KeepOwners

LEMMA StartTaskKeeps ==
    ASSUME TypeOK, OwnersInv, NEW w \in Worker, StartTask(w)
    PROVE  OwnersInv'
<1> DEFINE e == worker[w].exec
<1>1. e \in Exec
  BY DEF StartTask, At, OwnersInv, BusyHasExec
<1>2. BusyHasExec'
  <2>1. \A v \in Worker : worker'[v].exec = worker[v].exec /\ (v # w => worker'[v] = worker[v])
    BY DEF TypeOK, StartTask, MoveTo
  <2> QED
    BY <1>1, <2>1 DEF OwnersInv, BusyHasExec
<1>3. CASE status[e] = "Pending" /\ SetStatus(e, "Running") /\ MoveTo(w, "task")
  <2>1. status[e] \in NotStarted /\ status'[e] \notin NotStarted /\ RowsForward
    BY <1>1, <1>3 DEF SetStatus, TypeOK, NotStarted, RowsForward
  <2>2. \A v \in Worker : \A d \in Exec : Owns(v, d)' => Owns(v, d) \/ (v = w /\ d = e)
    BY <1>3 DEF MoveTo, TypeOK, Owns
  <2> QED
    BY <1>1, <1>2, <2>1, <2>2, NewOwner
<1>4. CASE MoveTo(w, "taskLost") /\ UNCHANGED status
  <2>1. RowsForward
    BY <1>4 DEF RowsForward
  <2>2. \A v \in Worker : \A d \in Exec : Owns(v, d)' => Owns(v, d)
    BY <1>4 DEF MoveTo, TypeOK, Owns
  <2> QED
    BY <1>2, <2>1, <2>2, KeepOwners
<1> QED
  BY <1>3, <1>4 DEF StartTask, Claimable

(* Runs, restores and tasks once they own their execution. *)
LEMMA RunKeeps ==
    ASSUME TypeOK, OwnersInv, NEW w \in Worker, RunStep(w)
    PROVE  OwnersInv'
<1> DEFINE e == worker[w].exec
<1>a. worker[w].pc # "idle" => e \in Exec
  BY DEF OwnersInv, BusyHasExec
<1>b. UNCHANGED status => RowsForward
  BY DEF RowsForward
<1>c. worker[w].outcome \notin NotStarted
  BY DEF TypeOK, Outcomes, Terminal, NotStarted
<1>d. \A s \in {"Success", "Failed", "Cancelled"} : s \notin NotStarted
  BY DEF NotStarted
<1>1. CASE Register(w)
  BY <1>1, <1>b, MoveKeeps, FreeKeeps DEF Register, At
<1>2. CASE Work(w)
  BY <1>2, <1>b, MoveKeeps DEF Work, At
<1>3. CASE Retention(w)
  BY <1>3, <1>b, MoveKeeps DEF Retention, At
<1>4. CASE Unregister(w)
  BY <1>4, <1>b, MoveKeeps DEF Unregister, At
<1>5. CASE Finalize(w)
  <2>1. RowsForward
    BY <1>5, <1>a, <1>b, <1>c, SetForward DEF Finalize, At
  <2> QED
    BY <1>5, <2>1, MoveKeeps, FreeKeeps DEF Finalize, At
<1>6. CASE TriggerNext(w)
  BY <1>6, <1>b, FreeKeeps DEF TriggerNext, RunOver
<1>7. CASE RegisterRestore(w)
  BY <1>7, <1>b, MoveKeeps DEF RegisterRestore, At
<1>8. CASE WriteRestore(w)
  <2>1. RowsForward
    BY <1>8, <1>a, <1>b, <1>d, SetForward DEF WriteRestore, At
  <2> QED
    BY <1>8, <2>1, MoveKeeps DEF WriteRestore, At
<1>9. CASE EndRestore(w)
  BY <1>9, <1>b, FreeKeeps DEF EndRestore, RunOver
<1>10. CASE StartTask(w)
  BY <1>10, StartTaskKeeps
<1>11. CASE FinishTask(w)
  <2>1. RowsForward
    BY <1>11, <1>a, <1>b, <1>d, SetForward DEF FinishTask, At
  <2> QED
    BY <1>11, <2>1, FreeKeeps DEF FinishTask
<1> QED
  BY <1>1, <1>2, <1>3, <1>4, <1>5, <1>6, <1>7, <1>8, <1>9, <1>10, <1>11 DEF RunStep

(* Whoever else writes rows, from outside a run, owns nothing by it. *)
LEMMA RequestKeeps ==
    ASSUME TypeOK, OwnersInv, NEW e \in Exec,
           Enqueue(e) \/ TriggerQueue(e) \/ CancelRead(e) \/ CancelStep(e) \/ Recover(e)
    PROVE  OwnersInv'
<1> USE QuietKeeps
<1>a. UNCHANGED status => RowsForward
  BY DEF RowsForward
<1>b. "Failed" \notin NotStarted /\ "Cancelled" \notin NotStarted
  BY DEF NotStarted
<1>1. CASE Enqueue(e)
  <2>1. RowsForward
    BY <1>1 DEF Enqueue, RowsForward, TypeOK, NotStarted
  <2> QED
    BY <1>1, <2>1 DEF Enqueue
<1>2. CASE TriggerQueue(e) \/ CancelRead(e)
  BY <1>2, <1>a DEF TriggerQueue, CancelRead
<1>3. CASE CancelStep(e)
  <2>1. CASE CancelSignal(e)
    BY <2>1, <1>a DEF CancelSignal
  <2>2. CASE CancelWrite(e)
    <3>1. RowsForward
      BY <2>2, <1>b, SetForward DEF CancelWrite
    <3> QED
      BY <2>2, <3>1 DEF CancelWrite
  <2> QED
    BY <1>3, <2>1, <2>2 DEF CancelStep
<1>4. CASE Recover(e)
  <2>1. RowsForward
    BY <1>4, <1>a, <1>b, SetForward DEF Recover
  <2> QED
    BY <1>4, <2>1 DEF Recover, memory
<1> QED
  BY <1>1, <1>2, <1>3, <1>4

LEMMA ServerKeeps ==
    ASSUME TypeOK, OwnersInv,
           \/ SweepList \/ SweepStep
           \/ BeginMaintenance \/ EndMaintenance
           \/ RequestShutdown \/ ShutdownSteps
           \/ Crash \/ Boot \/ Recovered
    PROVE  OwnersInv'
<1> USE QuietKeeps
<1>a. UNCHANGED status => RowsForward
  BY DEF RowsForward
<1>b. "Failed" \notin NotStarted
  BY DEF NotStarted
<1>1. CASE SweepList \/ SweepEnd \/ BeginMaintenance \/ EndMaintenance
  BY <1>1, <1>a DEF SweepList, SweepEnd, BeginMaintenance, EndMaintenance
<1>2. ASSUME NEW d \in Exec, SweepSignal(d)
      PROVE  OwnersInv'
  BY <1>2, <1>a DEF SweepSignal
<1>3. ASSUME NEW d \in Exec, SweepFail(d)
      PROVE  OwnersInv'
  <2>1. RowsForward
    BY <1>3, <1>a, <1>b, SetForward DEF SweepFail
  <2> QED
    BY <1>3, <2>1 DEF SweepFail
<1>4. CASE RequestShutdown \/ Drained \/ GraceOver \/ CountPending
  BY <1>4, <1>a DEF RequestShutdown, Drained, GraceOver, CountPending, ShutdownStep
<1>5. CASE AbortRunning \/ FailPending
  <2>1. RowsForward
    BY <1>5, <1>b DEF AbortRunning, FailPending, RowsForward
  <2> QED
    BY <1>5, <2>1 DEF AbortRunning, FailPending, ShutdownStep
<1>6. CASE Exit \/ Crash
  BY <1>6, EmptyKeeps DEF Exit, Crash
<1>7. CASE Boot \/ Recovered
  BY <1>7, <1>a DEF Boot, Recovered, memory
<1> QED
  BY <1>1, <1>2, <1>3, <1>4, <1>5, <1>6, <1>7 DEF SweepStep, ShutdownSteps

LEMMA OwnersNext ==
    ASSUME TypeOK, OwnersInv, [Next]_vars
    PROVE  OwnersInv'
<1>a. UNCHANGED status => RowsForward
  BY DEF RowsForward
<1>1. CASE UNCHANGED vars
  BY <1>1, <1>a, QuietKeeps DEF vars, memory
<1>2. ASSUME NEW e \in Exec, Request(e)
      PROVE  OwnersInv'
  BY <1>2, RequestKeeps, StartRestoreKeeps, CreateTaskKeeps DEF Request
<1>3. ASSUME NEW p \in Pass, PassStep(p)
      PROVE  OwnersInv'
  <2>1. CASE PassOnly(p)
    BY <2>1, <1>a, QuietKeeps, PassOnlyEffect
  <2> QED
    BY <1>3, <2>1, ClaimKeeps DEF PassStep, PassOnly
<1>4. ASSUME NEW w \in Worker, Hang(w) \/ Resume(w)
      PROVE  OwnersInv'
  BY <1>4, <1>a, QuietKeeps DEF Hang, Resume
<1>5. ASSUME NEW e \in Exec, TriggerQueue(e) \/ CancelStep(e) \/ Recover(e)
      PROVE  OwnersInv'
  BY <1>5, RequestKeeps
<1> QED
  BY <1>1, <1>2, <1>3, <1>4, <1>5, RunKeeps, ServerKeeps DEF Next

LEMMA OwnersInit ==
    ASSUME Init
    PROVE  OwnersInv
BY DEF Init, IdleWorker, OwnersInv, BusyHasExec, OwnedRowsStarted, SingleRun, Owns

(* The invariant holds of the system, under no fairness at all. *)
THEOREM Invariance == Spec => []IInv
<1>1. Init => IInv
  BY TypeInit, OwnersInit DEF IInv
<1>2. IInv /\ [Next]_vars => IInv'
  BY TypeNext, OwnersNext DEF IInv, OwnersInv
<1> QED
  BY <1>1, <1>2, PTL DEF Spec

(* Every variable keeps its type, whatever the number of executions, passes *)
(* and runs and whatever maxConcurrentJobs is set to.                       *)
THEOREM TypeCorrect == Spec => []TypeOK
BY Invariance, PTL DEF IInv

(* No execution is ever carried out twice at the same time: the conditional *)
(* claim of performExecution and of SystemTaskRunner.start is enough, with  *)
(* any number of passes that selected the row before it was claimed.        *)
THEOREM OneRunPerExecution == Spec => []SingleRun
BY Invariance, PTL DEF IInv, OwnersInv

-----------------------------------------------------------------------------
(* What a step may do to the rows: a row goes forward only, one that was    *)
(* never made is not closed, and a step that opens a row changes no other.  *)
RowStep ==
    \A e \in Exec :
        \/ status'[e] = status[e]
        \/ status[e] = "Absent" /\ status'[e] \in Active
        \/ status[e] = "Pending" /\ status'[e] = "Running"
        \/ status[e] # "Absent" /\ status'[e] \in Terminal
OpensOne ==
    \A d, e \in Exec :
        /\ status'[d] # status[d] /\ status'[d] \in Active
        /\ status'[e] # status[e]
        => d = e
RowMove == RowStep /\ OpensOne

(* What every run knows. Its row exists; a run with an outcome has a        *)
(* terminal one to write; when it only has to say goodbye its row is closed, *)
(* unless the database refused that; a task that waits for start() has a    *)
(* task's row; and its controller is registered exactly while it works.     *)
Registered == {"working", "retention", "flushing", "restoring", "restored"}
Owning(w) == worker[w].pc \notin {"idle", "taskCreated", "taskLost"}
RunOk(w) ==
    LET e == worker[w].exec
        pc == worker[w].pc
    IN  /\ pc # "idle" => status[e] # "Absent"
        /\ pc \in {"flushing", "finalizing"} => worker[w].outcome \in Terminal
        /\ pc \in {"notifying", "restored"} => status[e] \in Terminal \/ e \in faulted
        /\ pc = "taskCreated" => e \in Tasks
        /\ Owning(w) => (pc \in Registered <=> e \in controllers)
RunsInv == \A w \in Worker : RunOk(w)

(* Whoever else will write a row by its id has seen the row: a cancel       *)
(* request, the shutdown or the recovery, a pass of the queue.              *)
KnownRowsExist ==
    /\ \A e \in Exec : cancel[e] # "none" => status[e] # "Absent"
    /\ \A e \in doomed : status[e] # "Absent"
    /\ \A p \in Pass : \A e \in pass[p].picks : status[e] # "Absent"
    /\ \A i \in DOMAIN created : status[created[i]] # "Absent"

LEMMA NoRowMove ==
    ASSUME UNCHANGED status
    PROVE  RowMove
BY DEF RowMove, RowStep, OpensOne

LEMMA CloseMove ==
    ASSUME TypeOK, NEW e \in Exec, NEW s \in Terminal, status[e] # "Absent", SetStatus(e, s)
    PROVE  RowMove
<1>1. /\ status'[e] = s /\ s \notin Active
      /\ \A d \in Exec : d # e => status'[d] = status[d]
  BY DEF SetStatus, TypeOK, Terminal, Active
<1> QED
  BY <1>1 DEF RowMove, RowStep, OpensOne

LEMMA OpenMove ==
    ASSUME TypeOK, NEW e \in Exec, NEW s \in Active, SetStatus(e, s),
           status[e] = "Absent" \/ (status[e] = "Pending" /\ s = "Running")
    PROVE  RowMove
<1>1. status'[e] = s /\ \A d \in Exec : d # e => status'[d] = status[d]
  BY DEF SetStatus, TypeOK
<1> QED
  BY <1>1 DEF RowMove, RowStep, OpensOne

(* The shutdown closes all rows of one state at once. *)
LEMMA CloseAllMove ==
    ASSUME TypeOK, NEW s \in Active,
           status' = [e \in Exec |-> IF status[e] = s THEN "Failed" ELSE status[e]]
    PROVE  RowMove
<1>1. \A e \in Exec : status'[e] = status[e] \/ (status[e] = s /\ status'[e] = "Failed")
  OBVIOUS
<1>2. "Failed" \in Terminal /\ "Failed" \notin Active /\ s # "Absent"
  BY DEF Terminal, Active
<1> QED
  BY <1>1, <1>2 DEF RowMove, RowStep, OpensOne

LEMMA RunMoves ==
    ASSUME IInv, KnownRowsExist, RunsInv, NEW w \in Worker, RunStep(w)
    PROVE  RowMove
<1> DEFINE e == worker[w].exec
<1>a. TypeOK
  BY DEF IInv
<1>b. worker[w].pc # "idle" => e \in Exec /\ status[e] # "Absent"
  BY DEF IInv, OwnersInv, BusyHasExec, RunsInv, RunOk
<1>c. "Success" \in Terminal /\ "Failed" \in Terminal /\ "Cancelled" \in Terminal /\ "Running" \in Active
  BY DEF Terminal, Active
<1>1. CASE Register(w) \/ Work(w) \/ Retention(w) \/ Unregister(w) \/ TriggerNext(w)
           \/ RegisterRestore(w) \/ EndRestore(w)
  BY <1>1, NoRowMove DEF Register, Work, Retention, Unregister, TriggerNext,
                         RegisterRestore, EndRestore
<1>2. CASE Finalize(w)
  <2>1. worker[w].pc # "idle" /\ worker[w].outcome \in Terminal
    BY <1>2 DEF Finalize, At, RunsInv, RunOk
  <2> QED
    BY <1>2, <1>a, <1>b, <2>1, CloseMove, NoRowMove DEF Finalize
<1>3. CASE WriteRestore(w)
  BY <1>3, <1>a, <1>b, <1>c, CloseMove, NoRowMove DEF WriteRestore, At
<1>4. CASE StartTask(w)
  BY <1>4, <1>a, <1>b, <1>c, OpenMove, NoRowMove DEF StartTask, At, Claimable
<1>5. CASE FinishTask(w)
  BY <1>5, <1>a, <1>b, <1>c, CloseMove, NoRowMove DEF FinishTask, At
<1> QED
  BY <1>1, <1>2, <1>3, <1>4, <1>5 DEF RunStep

(* Every statement of the code that writes a row moves it forward. *)
LEMMA RowMoves ==
    ASSUME IInv, KnownRowsExist, RunsInv, [Next]_vars
    PROVE  RowMove
<1>a. TypeOK
  BY DEF IInv
<1>b. "Failed" \in Terminal /\ "Cancelled" \in Terminal /\ "Running" \in Active /\ "Pending" \in Active
  BY DEF Terminal, Active
<1>1. CASE UNCHANGED vars
  BY <1>1, NoRowMove DEF vars
<1>2. ASSUME NEW e \in Exec, Request(e) \/ TriggerQueue(e)
      PROVE  RowMove
  <2>1. CASE Enqueue(e)
    BY <2>1, <1>a, <1>b, OpenMove DEF Enqueue, SetStatus
  <2>2. ASSUME NEW w \in Worker, StartRestore(e, w)
        PROVE  RowMove
    BY <2>2, <1>a, <1>b, OpenMove DEF StartRestore
  <2>3. ASSUME NEW w \in Worker, CreateTask(e, w)
        PROVE  RowMove
    BY <2>3, <1>a, <1>b, OpenMove DEF CreateTask
  <2>4. CASE CancelRead(e) \/ TriggerQueue(e)
    BY <2>4, NoRowMove DEF CancelRead, TriggerQueue
  <2> QED
    BY <1>2, <2>1, <2>2, <2>3, <2>4 DEF Request
<1>3. ASSUME NEW e \in Exec, CancelStep(e)
      PROVE  RowMove
  <2>1. CASE CancelSignal(e)
    BY <2>1, NoRowMove DEF CancelSignal
  <2>2. CASE CancelWrite(e)
    <3>1. status[e] # "Absent"
      BY <2>2 DEF CancelWrite, KnownRowsExist
    <3> QED
      BY <2>2, <3>1, <1>a, <1>b, CloseMove DEF CancelWrite
  <2> QED
    BY <1>3, <2>1, <2>2 DEF CancelStep
<1>4. ASSUME NEW e \in Exec, Recover(e)
      PROVE  RowMove
  <2>1. status[e] # "Absent"
    BY <1>4 DEF Recover, KnownRowsExist
  <2> QED
    BY <1>4, <2>1, <1>a, <1>b, CloseMove, NoRowMove DEF Recover
<1>5. ASSUME NEW p \in Pass, PassStep(p)
      PROVE  RowMove
  <2>1. CASE PassOnly(p)
    BY <2>1, NoRowMove, PassOnlyEffect
  <2>2. ASSUME NEW e \in Exec, NEW w \in Worker, Claim(p, e, w)
        PROVE  RowMove
    BY <2>2, <1>a, <1>b, OpenMove DEF Claim, Claimable, SetStatus
  <2> QED
    BY <1>5, <2>1, <2>2 DEF PassStep, PassOnly
<1>6. ASSUME NEW w \in Worker, Hang(w) \/ Resume(w)
      PROVE  RowMove
  BY <1>6, NoRowMove DEF Hang, Resume
<1>7. CASE SweepList \/ SweepStep \/ BeginMaintenance \/ EndMaintenance
  <2>1. CASE SweepList \/ SweepEnd \/ BeginMaintenance \/ EndMaintenance
    BY <2>1, NoRowMove DEF SweepList, SweepEnd, BeginMaintenance, EndMaintenance
  <2>2. ASSUME NEW e \in Exec, SweepSignal(e)
        PROVE  RowMove
    BY <2>2, NoRowMove DEF SweepSignal
  <2>3. ASSUME NEW e \in Exec, SweepFail(e)
        PROVE  RowMove
    BY <2>3, <1>a, <1>b, CloseMove, NoRowMove DEF SweepFail
  <2> QED
    BY <1>7, <2>1, <2>2, <2>3 DEF SweepStep
<1>8. CASE RequestShutdown \/ ShutdownSteps \/ Crash \/ Boot \/ Recovered
  <2>1. CASE RequestShutdown \/ Drained \/ GraceOver \/ CountPending
    BY <2>1, NoRowMove DEF RequestShutdown, Drained, GraceOver, CountPending
  <2>2. CASE AbortRunning \/ FailPending
    BY <2>2, <1>a, <1>b, CloseAllMove DEF AbortRunning, FailPending
  <2>3. CASE Exit \/ Crash \/ Boot \/ Recovered
    BY <2>3, NoRowMove DEF Exit, Crash, LoseMemory, Boot, Recovered
  <2> QED
    BY <1>8, <2>1, <2>2, <2>3 DEF ShutdownSteps
<1> QED
  BY <1>1, <1>2, <1>3, <1>4, <1>5, <1>6, <1>7, <1>8, RunMoves DEF Next

(* A forward move of the rows is a step of the ledger, or none that it sees. *)
PhaseOf(s) == CASE s = "Absent"  -> "new"
                [] s = "Pending" -> "queued"
                [] s = "Running" -> "active"
                [] OTHER         -> "closed"
Phases == [e \in Exec |-> PhaseOf(status[e])]

LEMMA PhaseFacts ==
    /\ PhaseOf("Absent") = "new" /\ PhaseOf("Pending") = "queued"
    /\ PhaseOf("Running") = "active"
    /\ \A s \in Terminal : PhaseOf(s) = "closed"
BY DEF PhaseOf, Terminal

LEMMA LedgerMove ==
    ASSUME TypeOK, TypeOK', RowMove
    PROVE  Ledger!Next
<1>a. /\ \A e \in Exec : status[e] \in Statuses /\ status'[e] \in Statuses
      /\ Statuses = {"Absent", "Pending", "Running"} \cup Terminal
      /\ Active = {"Pending", "Running"}
      /\ "Absent" \notin Terminal /\ "Pending" \notin Terminal /\ "Running" \notin Terminal
  BY DEF TypeOK, Statuses, Active, Terminal
<1>b. /\ Phases = [e \in Exec |-> PhaseOf(status[e])]
      /\ Phases' = [e \in Exec |-> PhaseOf(status'[e])]
  BY Zenon DEF Phases
<1>1. ASSUME NEW e \in Exec, status'[e] # status[e], status'[e] \in Active
      PROVE  Ledger!Next
  <2>1. \A d \in Exec : d # e => status'[d] = status[d]
    BY <1>1 DEF RowMove, OpensOne
  <2>2. Phases' = [Phases EXCEPT ![e] = PhaseOf(status'[e])]
    BY <1>b, <2>1
  <2>3. Phases[e] = PhaseOf(status[e])
    BY <1>b
  <2>4. \/ status[e] = "Absent" /\ status'[e] \in Active
        \/ status[e] = "Pending" /\ status'[e] = "Running"
    BY <1>1, <1>a DEF RowMove, RowStep
  <2>5. \/ Phases[e] = "new" /\ Phases' = [Phases EXCEPT ![e] = "queued"]
        \/ Phases[e] = "new" /\ Phases' = [Phases EXCEPT ![e] = "active"]
        \/ Phases[e] = "queued" /\ Phases' = [Phases EXCEPT ![e] = "active"]
    BY <2>2, <2>3, <2>4, <1>a, PhaseFacts
  <2>6. Ledger!Queue(e) \/ Ledger!Start(e)
    BY <2>5, Zenon DEF Ledger!Queue, Ledger!Start, Ledger!Move, Phases, PhaseOf
  <2> QED
    BY <2>6 DEF Ledger!Next
<1>2. ASSUME \A e \in Exec : status'[e] # status[e] => status'[e] \notin Active
      PROVE  Ledger!Next
  <2> DEFINE S == {e \in Exec : status[e] \in Active /\ status'[e] \in Terminal}
  <2>1. \A e \in S : Phases[e] \in {"queued", "active"}
    BY <1>a, <1>b, PhaseFacts
  <2>2. ASSUME NEW e \in Exec
        PROVE  PhaseOf(status'[e]) = IF e \in S THEN "closed" ELSE Phases[e]
    <3>1. \/ status'[e] = status[e]
          \/ status[e] # "Absent" /\ status'[e] \in Terminal
      BY <1>2, <1>a DEF RowMove, RowStep
    <3>2. CASE status'[e] = status[e]
      BY <3>2, <1>a, <1>b
    <3>3. CASE status[e] \in Active /\ status'[e] \in Terminal
      BY <3>3, PhaseFacts
    <3>4. CASE status[e] \in Terminal /\ status'[e] \in Terminal
      BY <3>4, <1>a, <1>b, PhaseFacts
    <3> QED
      BY <3>1, <3>2, <3>3, <3>4, <1>a
  <2>3. Phases' = [e \in Exec |-> IF e \in S THEN "closed" ELSE Phases[e]]
    BY <1>b, <2>2
  <2>4. S \in SUBSET Exec
    OBVIOUS
  <2> HIDE DEF S
  <2>5. Ledger!Close
    BY <2>1, <2>3, <2>4, Zenon DEF Ledger!Close, Phases, PhaseOf
  <2> QED
    BY <2>5 DEF Ledger!Next
<1> QED
  BY <1>1, <1>2

-----------------------------------------------------------------------------
(* The controllers in the registry belong to rows that were started, and to *)
(* a run that will remove them unless the database made it give up.         *)
ControllersInv ==
    \A e \in controllers :
        /\ status[e] \notin NotStarted
        /\ e \in faulted \/ \E w \in Worker : Owns(w, e)

(* Every call of processQueue leaves a pass in progress as it is.           *)
PassQuiet == \A p \in Pass : pass'[p] = pass[p] \/ pass'[p].picks = {}

LEMMA PassQuietIf ==
    ASSUME TypeOK, processQueue \/ EnterPass \/ UNCHANGED pass
    PROVE  PassQuiet
<1>1. CASE UNCHANGED pass
  BY <1>1 DEF PassQuiet
<1>2. CASE EnterPass
  <2>1. PICK p \in Pass : pass' = [pass EXCEPT ![p] = [IdlePass EXCEPT !.pc = "entered"]]
    BY <1>2 DEF EnterPass
  <2>2. [IdlePass EXCEPT !.pc = "entered"].picks = {}
    BY DEF IdlePass
  <2>3. \A q \in Pass : q # p => pass'[q] = pass[q]
    BY <2>1 DEF TypeOK
  <2>4. pass'[p].picks = {}
    BY <2>1, <2>2 DEF TypeOK
  <2> QED
    BY <2>3, <2>4 DEF PassQuiet
<1> QED
  BY <1>1, <1>2 DEF processQueue

(* What the writes to the table of runs leave in it. *)
OthersKept(w) == \A v \in Worker : v # w => worker'[v] = worker[v]

LEMMA MoveFacts ==
    ASSUME TypeOK, NEW w \in Worker, NEW pc, MoveTo(w, pc)
    PROVE  /\ OthersKept(w)
           /\ worker'[w].pc = pc
           /\ worker'[w].exec = worker[w].exec
           /\ worker'[w].outcome = worker[w].outcome
BY DEF TypeOK, MoveTo, OthersKept

LEMMA EndFacts ==
    ASSUME TypeOK, NEW w \in Worker, NEW o, EndWith(w, o)
    PROVE  /\ OthersKept(w)
           /\ worker'[w].pc = "flushing"
           /\ worker'[w].exec = worker[w].exec
           /\ worker'[w].outcome = o
BY DEF TypeOK, EndWith, OthersKept

LEMMA FreeFacts ==
    ASSUME TypeOK, NEW w \in Worker, Free(w)
    PROVE  OthersKept(w) /\ worker'[w].pc = "idle"
BY DEF TypeOK, Free, IdleWorker, OthersKept

LEMMA SetFacts ==
    ASSUME TypeOK, NEW w \in Worker, NEW e, NEW pc, NEW o, SetWorker(w, e, pc, o)
    PROVE  /\ OthersKept(w)
           /\ worker'[w].pc = pc
           /\ worker'[w].exec = e
           /\ worker'[w].outcome = o
BY DEF TypeOK, SetWorker, OthersKept

(* What a step of run w does to everything the invariants speak of: it      *)
(* touches its own entry, its own row and its own controller.               *)
KeepsRun(w) == Owning(w)' /\ worker'[w].exec = worker[w].exec
RunEffect(w) ==
    LET e == worker[w].exec
    IN  /\ OthersKept(w)
        /\ RunOk(w)'
        /\ \A d \in Exec : d # e => status'[d] = status[d]
                                    /\ (d \in controllers' <=> d \in controllers)
        /\ controllers' # controllers => Owns(w, e)
        /\ Owns(w, e) => \/ KeepsRun(w)
                         \/ e \in faulted'
                         \/ status'[e] # "Running" /\ e \notin controllers'
        /\ status'[e] = "Running" => status[e] = "Running" \/ KeepsRun(w)
        /\ e \in controllers' => e \in controllers \/ e \in faulted' \/ KeepsRun(w)
        /\ faulted \subseteq faulted'
        /\ PassQuiet
        /\ UNCHANGED <<created, cancel, server, doomed>>

(* The steps of a run that write neither its row nor its controller. *)
LEMMA PlainEffect ==
    ASSUME TypeOK, NEW w \in Worker, worker[w].exec \in Exec,
           Owning(w), OthersKept(w), RunOk(w)', PassQuiet,
           UNCHANGED <<status, controllers, faulted, created, cancel, server, doomed>>,
           \/ KeepsRun(w)
           \/ /\ status[worker[w].exec] # "Running" \/ worker[w].exec \in faulted
              /\ worker[w].exec \notin controllers
    PROVE  RunEffect(w)
BY DEF RunEffect, Owns, Owning, KeepsRun

LEMMA BackupEffect ==
    ASSUME IInv, KnownRowsExist, RunsInv, ControllersInv, NEW w \in Worker,
           Register(w) \/ Work(w) \/ Retention(w) \/ Unregister(w)
             \/ Finalize(w) \/ TriggerNext(w)
    PROVE  RunEffect(w)
<1> DEFINE e == worker[w].exec
<1>a. TypeOK
  BY DEF IInv
<1>b. worker[w].pc # "idle" => e \in Exec
  BY DEF IInv, OwnersInv, BusyHasExec
<1>c. /\ worker[w].pc # "idle" => status[e] # "Absent"
      /\ worker[w].pc \in {"flushing", "finalizing"} => worker[w].outcome \in Terminal
      /\ worker[w].pc \in {"notifying", "restored"} => status[e] \in Terminal \/ e \in faulted
      /\ Owning(w) => (worker[w].pc \in Registered <=> e \in controllers)
  BY DEF RunsInv, RunOk
<1>d. UNCHANGED pass => PassQuiet
  BY <1>a, PassQuietIf
<1>e. "Success" \in Terminal /\ "Failed" \in Terminal /\ "Cancelled" \in Terminal
      /\ "Running" \notin Terminal /\ "Absent" \notin Terminal
  BY DEF Terminal
<1>1. CASE Register(w)
  <2>1. worker[w].pc = "claimed" /\ e \in Exec /\ status[e] # "Absent"
    BY <1>1, <1>b, <1>c DEF Register, At
  <2>2. controllers' = controllers \cup {e} /\ Owns(w, e)
    BY <1>1, <2>1 DEF Register, registerExecution, Owns
  <2>3. UNCHANGED <<status, pass, created, cancel, server, doomed>>
    BY <1>1 DEF Register
  <2>4. CASE MoveTo(w, "working") /\ UNCHANGED faulted
    <3>1. /\ OthersKept(w)
          /\ worker'[w].pc = "working" /\ worker'[w].exec = e
      BY <2>4, <1>a, MoveFacts
    <3>2. RunOk(w)'
      BY <2>1, <2>2, <2>3, <3>1 DEF RunOk, Registered
    <3>3. KeepsRun(w)
      BY <3>1 DEF KeepsRun, Owning
    <3> QED
      BY <1>d, <2>2, <2>3, <2>4, <3>1, <3>2, <3>3 DEF RunEffect
  <2>5. CASE Free(w) /\ Fault(e)
    <3>1. OthersKept(w) /\ worker'[w].pc = "idle"
      BY <2>5, <1>a, FreeFacts
    <3>2. RunOk(w)'
      BY <3>1 DEF RunOk, Owning
    <3>3. faulted \subseteq faulted' /\ e \in faulted'
      BY <2>5 DEF Fault
    <3> QED
      BY <1>d, <2>2, <2>3, <3>1, <3>2, <3>3 DEF RunEffect
  <2> QED
    BY <1>1, <2>4, <2>5 DEF Register
<1>2. CASE Work(w) \/ Retention(w)
  <2>1. /\ worker[w].pc \in {"working", "retention"}
        /\ e \in Exec /\ status[e] # "Absent" /\ e \in controllers /\ Owning(w)
    BY <1>2, <1>b, <1>c DEF Work, Retention, At, Owning, Registered
  <2>2. UNCHANGED <<status, controllers, faulted, pass, created, cancel, server, doomed>>
    BY <1>2 DEF Work, Retention
  <2>3. \/ MoveTo(w, "retention")
        \/ \E o \in Terminal : EndWith(w, o)
    BY <1>2, <1>e DEF Work, Retention
  <2>4. /\ OthersKept(w)
        /\ worker'[w].exec = e
        /\ \/ worker'[w].pc = "retention"
           \/ worker'[w].pc = "flushing" /\ worker'[w].outcome \in Terminal
    BY <2>3, <1>a, MoveFacts, EndFacts
  <2>5. RunOk(w)' /\ KeepsRun(w)
    BY <2>1, <2>2, <2>4 DEF RunOk, Registered, Owning, KeepsRun
  <2> QED
    BY <1>a, <1>d, <2>1, <2>2, <2>4, <2>5, PlainEffect
<1>3. CASE Unregister(w)
  <2>1. /\ worker[w].pc = "flushing" /\ e \in Exec /\ status[e] # "Absent"
        /\ worker[w].outcome \in Terminal
    BY <1>3, <1>b, <1>c DEF Unregister, At
  <2>2. controllers' = controllers \ {e} /\ Owns(w, e)
    BY <1>3, <2>1 DEF Unregister, unregisterExecution, Owns
  <2>3. UNCHANGED <<status, faulted, pass, created, cancel, server, doomed>>
    BY <1>3 DEF Unregister
  <2>4. /\ OthersKept(w)
        /\ worker'[w].pc = "finalizing" /\ worker'[w].exec = e
        /\ worker'[w].outcome = worker[w].outcome
    BY <1>3, <1>a, MoveFacts DEF Unregister
  <2>5. RunOk(w)'
    BY <2>1, <2>2, <2>3, <2>4 DEF RunOk, Registered
  <2>6. KeepsRun(w)
    BY <2>4 DEF KeepsRun, Owning
  <2> QED
    BY <1>d, <2>2, <2>3, <2>4, <2>5, <2>6 DEF RunEffect
<1>4. CASE Finalize(w)
  <2>1. /\ worker[w].pc = "finalizing" /\ e \in Exec /\ status[e] # "Absent"
        /\ worker[w].outcome \in Terminal /\ e \notin controllers /\ Owning(w)
    BY <1>4, <1>b, <1>c DEF Finalize, At, Owning, Registered
  <2>2. UNCHANGED <<controllers, pass, created, cancel, server, doomed>> /\ Owns(w, e)
    BY <1>4, <2>1 DEF Finalize, Owns
  <2>3. CASE SetStatus(e, worker[w].outcome) /\ MoveTo(w, "notifying") /\ UNCHANGED faulted
    <3>1. status'[e] \in Terminal /\ \A d \in Exec : d # e => status'[d] = status[d]
      BY <2>1, <2>3, <1>a DEF SetStatus, TypeOK
    <3>2. /\ OthersKept(w)
          /\ worker'[w].pc = "notifying" /\ worker'[w].exec = e
      BY <2>3, <1>a, MoveFacts
    <3>3. RunOk(w)'
      BY <1>e, <2>1, <2>2, <3>1, <3>2 DEF RunOk, Registered
    <3>4. KeepsRun(w)
      BY <3>2 DEF KeepsRun, Owning
    <3> QED
      BY <1>d, <2>2, <2>3, <3>1, <3>2, <3>3, <3>4 DEF RunEffect
  <2>4. CASE Free(w) /\ Fault(e) /\ UNCHANGED status
    <3>1. OthersKept(w) /\ worker'[w].pc = "idle"
      BY <2>4, <1>a, FreeFacts
    <3>2. RunOk(w)'
      BY <3>1 DEF RunOk, Owning
    <3>3. faulted \subseteq faulted' /\ e \in faulted'
      BY <2>4 DEF Fault
    <3> QED
      BY <1>d, <2>2, <2>4, <3>1, <3>2, <3>3 DEF RunEffect
  <2> QED
    BY <1>4, <2>3, <2>4 DEF Finalize
<1>5. CASE TriggerNext(w)
  <2>1. /\ worker[w].pc = "notifying" /\ e \in Exec /\ Owning(w) /\ e \notin controllers
        /\ status[e] # "Running" \/ e \in faulted
    BY <1>5, <1>b, <1>c, <1>e DEF TriggerNext, At, Owning, Registered
  <2>2. UNCHANGED <<status, controllers, faulted, created, cancel, server, doomed>>
    BY <1>5 DEF TriggerNext
  <2>3. OthersKept(w) /\ worker'[w].pc = "idle" /\ PassQuiet
    BY <1>5, <1>a, FreeFacts, PassQuietIf DEF TriggerNext, RunOver
  <2>4. RunOk(w)'
    BY <2>3 DEF RunOk, Owning
  <2> QED
    BY <1>a, <2>1, <2>2, <2>3, <2>4, PlainEffect
<1> QED
  BY <1>1, <1>2, <1>3, <1>4, <1>5

LEMMA RestoreEffect ==
    ASSUME IInv, KnownRowsExist, RunsInv, ControllersInv, NEW w \in Worker,
           RegisterRestore(w) \/ WriteRestore(w) \/ EndRestore(w)
    PROVE  RunEffect(w)
<1> DEFINE e == worker[w].exec
<1>a. TypeOK
  BY DEF IInv
<1>b. worker[w].pc # "idle" => e \in Exec
  BY DEF IInv, OwnersInv, BusyHasExec
<1>c. /\ worker[w].pc # "idle" => status[e] # "Absent"
      /\ worker[w].pc \in {"notifying", "restored"} => status[e] \in Terminal \/ e \in faulted
      /\ Owning(w) => (worker[w].pc \in Registered <=> e \in controllers)
  BY DEF RunsInv, RunOk
<1>d. UNCHANGED pass => PassQuiet
  BY <1>a, PassQuietIf
<1>e. "Success" \in Terminal /\ "Failed" \in Terminal /\ "Cancelled" \in Terminal
      /\ "Running" \notin Terminal /\ "Absent" \notin Terminal
  BY DEF Terminal
<1>1. CASE RegisterRestore(w)
  <2>1. worker[w].pc = "restoreCreated" /\ e \in Exec /\ status[e] # "Absent"
    BY <1>1, <1>b, <1>c DEF RegisterRestore, At
  <2>2. controllers' = controllers \cup {e} /\ Owns(w, e)
    BY <1>1, <2>1 DEF RegisterRestore, registerExecution, Owns
  <2>3. UNCHANGED <<status, faulted, pass, created, cancel, server, doomed>>
    BY <1>1 DEF RegisterRestore
  <2>4. /\ OthersKept(w)
        /\ worker'[w].pc = "restoring" /\ worker'[w].exec = e
    BY <1>1, <1>a, MoveFacts DEF RegisterRestore
  <2>5. RunOk(w)'
    BY <2>1, <2>2, <2>3, <2>4 DEF RunOk, Registered
  <2>6. KeepsRun(w)
    BY <2>4 DEF KeepsRun, Owning
  <2> QED
    BY <1>d, <2>2, <2>3, <2>4, <2>5, <2>6 DEF RunEffect
<1>2. CASE WriteRestore(w)
  <2>1. /\ worker[w].pc = "restoring" /\ e \in Exec /\ status[e] # "Absent"
        /\ e \in controllers /\ Owns(w, e)
    BY <1>2, <1>b, <1>c DEF WriteRestore, At, Owning, Owns, Registered
  <2>2. UNCHANGED <<controllers, pass, created, cancel, server, doomed>>
    BY <1>2 DEF WriteRestore
  <2>3. /\ OthersKept(w)
        /\ worker'[w].pc = "restored" /\ worker'[w].exec = e
    BY <1>2, <1>a, MoveFacts DEF WriteRestore
  <2>4. KeepsRun(w)
    BY <2>3 DEF KeepsRun, Owning
  <2>5. \/ (\E s \in Terminal : SetStatus(e, s)) /\ UNCHANGED faulted
        \/ Fault(e) /\ UNCHANGED status
    BY <1>2, <1>e DEF WriteRestore
  <2>6. /\ \A d \in Exec : d # e => status'[d] = status[d]
        /\ faulted \subseteq faulted'
        /\ status'[e] # "Absent"
        /\ status'[e] \in Terminal \/ e \in faulted'
        /\ status'[e] = "Running" => status[e] = "Running"
    BY <1>a, <1>e, <2>1, <2>5 DEF SetStatus, Fault, TypeOK
  <2>7. RunOk(w)'
    BY <2>1, <2>2, <2>3, <2>6 DEF RunOk, Registered
  <2> QED
    BY <1>d, <2>2, <2>3, <2>4, <2>6, <2>7 DEF RunEffect
<1>3. CASE EndRestore(w)
  <2>1. /\ worker[w].pc = "restored" /\ e \in Exec
        /\ status[e] # "Running" \/ e \in faulted
    BY <1>3, <1>b, <1>c, <1>e DEF EndRestore, At
  <2>2. controllers' = controllers \ {e} /\ Owns(w, e)
    BY <1>3, <2>1 DEF EndRestore, unregisterExecution, Owns
  <2>3. UNCHANGED <<status, faulted, created, cancel, server, doomed>>
    BY <1>3 DEF EndRestore
  <2>4. OthersKept(w) /\ worker'[w].pc = "idle" /\ PassQuiet
    BY <1>3, <1>a, FreeFacts, PassQuietIf DEF EndRestore, RunOver
  <2>5. RunOk(w)'
    BY <2>4 DEF RunOk, Owning
  <2> QED
    BY <2>1, <2>2, <2>3, <2>4, <2>5 DEF RunEffect
<1> QED
  BY <1>1, <1>2, <1>3

LEMMA TaskEffect ==
    ASSUME IInv, KnownRowsExist, RunsInv, ControllersInv, NEW w \in Worker,
           StartTask(w) \/ FinishTask(w)
    PROVE  RunEffect(w)
<1> DEFINE e == worker[w].exec
<1>a. TypeOK
  BY DEF IInv
<1>b. worker[w].pc # "idle" => e \in Exec
  BY DEF IInv, OwnersInv, BusyHasExec
<1>c. /\ worker[w].pc # "idle" => status[e] # "Absent"
      /\ Owning(w) => (worker[w].pc \in Registered <=> e \in controllers)
  BY DEF RunsInv, RunOk
<1>d. UNCHANGED pass => PassQuiet
  BY <1>a, PassQuietIf
<1>e. "Success" \in Terminal /\ "Failed" \in Terminal
      /\ "Running" \notin Terminal /\ "Absent" \notin Terminal
  BY DEF Terminal
<1>1. CASE StartTask(w)
  <2>1. worker[w].pc = "taskCreated" /\ e \in Exec /\ status[e] # "Absent" /\ ~Owns(w, e)
    BY <1>1, <1>b, <1>c DEF StartTask, At, Owns
  <2>2. /\ UNCHANGED <<controllers, pass, created, cancel, server, doomed>>
        /\ faulted \subseteq faulted'
    BY <1>1 DEF StartTask, Fault
  <2>3. CASE status[e] = "Pending" /\ SetStatus(e, "Running") /\ MoveTo(w, "task")
    <3>1. status'[e] = "Running" /\ \A d \in Exec : d # e => status'[d] = status[d]
      BY <2>1, <2>3, <1>a DEF SetStatus, TypeOK
    <3>2. /\ OthersKept(w)
          /\ worker'[w].pc = "task" /\ worker'[w].exec = e
      BY <2>3, <1>a, MoveFacts
    <3>3. e \notin controllers
      BY <2>3 DEF ControllersInv, NotStarted
    <3>4. RunOk(w)'
      BY <2>2, <3>1, <3>2, <3>3 DEF RunOk, Registered
    <3>5. KeepsRun(w)
      BY <3>2 DEF KeepsRun, Owning
    <3> QED
      BY <1>d, <2>2, <3>1, <3>2, <3>4, <3>5 DEF RunEffect
  <2>4. CASE MoveTo(w, "taskLost") /\ UNCHANGED status
    <3>1. /\ OthersKept(w)
          /\ worker'[w].pc = "taskLost" /\ worker'[w].exec = e
      BY <2>4, <1>a, MoveFacts
    <3>2. RunOk(w)'
      BY <2>1, <2>4, <3>1 DEF RunOk, Owning
    <3> QED
      BY <1>d, <2>1, <2>2, <2>4, <3>1, <3>2 DEF RunEffect
  <2> QED
    BY <1>1, <2>3, <2>4 DEF StartTask, Claimable
<1>2. CASE FinishTask(w)
  <2>1. /\ worker[w].pc \in {"task", "taskLost"} /\ e \in Exec
        /\ Owns(w, e) => e \notin controllers
    BY <1>2, <1>b, <1>c DEF FinishTask, At, Owns, Owning, Registered
  <2>2. UNCHANGED <<controllers, pass, created, cancel, server, doomed>>
    BY <1>2 DEF FinishTask
  <2>3. OthersKept(w) /\ worker'[w].pc = "idle"
    BY <1>2, <1>a, FreeFacts DEF FinishTask
  <2>4. RunOk(w)'
    BY <2>3 DEF RunOk, Owning
  <2>5. \/ (\E s \in Terminal : SetStatus(e, s)) /\ UNCHANGED faulted
        \/ Fault(e) /\ UNCHANGED status
    BY <1>2, <1>e DEF FinishTask
  <2>6. /\ \A d \in Exec : d # e => status'[d] = status[d]
        /\ faulted \subseteq faulted'
        /\ status'[e] # "Running" \/ e \in faulted'
        /\ status'[e] = "Running" => status[e] = "Running"
    BY <1>a, <1>e, <2>1, <2>5 DEF SetStatus, Fault, TypeOK
  <2> QED
    BY <1>d, <2>1, <2>2, <2>3, <2>4, <2>6 DEF RunEffect
<1> QED
  BY <1>1, <1>2

LEMMA RunHasEffect ==
    ASSUME IInv, KnownRowsExist, RunsInv, ControllersInv, NEW w \in Worker, RunStep(w)
    PROVE  RunEffect(w) /\ worker[w].exec \in Exec
<1>1. worker[w].pc # "idle"
  BY DEF RunStep, Register, Work, Retention, Unregister, Finalize, TriggerNext,
         RegisterRestore, WriteRestore, EndRestore, StartTask, FinishTask, At
<1>2. worker[w].exec \in Exec
  BY <1>1 DEF IInv, OwnersInv, BusyHasExec
<1> QED
  BY <1>2, BackupEffect, RestoreEffect, TaskEffect DEF RunStep

-----------------------------------------------------------------------------
(* A run whose entry a step leaves alone knows what it knew, also when      *)
(* another run registers or removes a controller: that one is not its own.  *)
LEMMA OtherRun ==
    ASSUME TypeOK, RowStep, faulted \subseteq faulted', NEW v \in Worker,
           worker[v].pc # "idle" => worker[v].exec \in Exec,
           RunOk(v), worker'[v] = worker[v],
           Owning(v) => (worker[v].exec \in controllers' <=> worker[v].exec \in controllers)
    PROVE  RunOk(v)'
<1> DEFINE e == worker[v].exec
<1>1. CASE worker[v].pc = "idle"
  BY <1>1 DEF RunOk, Owning
<1>2. CASE worker[v].pc # "idle"
  <2>1. /\ status[e] # "Absent" => status'[e] # "Absent"
        /\ status[e] \in Terminal => status'[e] \in Terminal
    BY <1>2 DEF RowStep, Active, Terminal
  <2> QED
    BY <1>2, <2>1 DEF RunOk, Owning
<1> QED
  BY <1>1, <1>2

LEMMA RunsAfterRun ==
    ASSUME IInv, RunsInv, RowStep, NEW w \in Worker, worker[w].exec \in Exec, RunEffect(w)
    PROVE  RunsInv'
<1>1. ASSUME NEW v \in Worker, v # w
      PROVE  RunOk(v)'
  <2>1. TypeOK /\ faulted \subseteq faulted' /\ RunOk(v) /\ worker'[v] = worker[v]
    BY <1>1 DEF IInv, RunEffect, OthersKept, RunsInv
  <2>2. worker[v].pc # "idle" => worker[v].exec \in Exec
    BY DEF IInv, OwnersInv, BusyHasExec
  <2>3. ASSUME Owning(v)
        PROVE  worker[v].exec \in controllers' <=> worker[v].exec \in controllers
    <3>1. worker[v].exec \in Exec /\ Owns(v, worker[v].exec)
      BY <2>2, <2>3 DEF Owning, Owns
    <3>2. CASE worker[v].exec = worker[w].exec
      BY <1>1, <3>1, <3>2 DEF IInv, OwnersInv, SingleRun, RunEffect
    <3>3. CASE worker[v].exec # worker[w].exec
      BY <3>1, <3>3 DEF RunEffect
    <3> QED
      BY <3>2, <3>3
  <2> QED
    BY <2>1, <2>2, <2>3, OtherRun
<1>2. RunOk(w)'
  BY DEF RunEffect
<1> QED
  BY <1>1, <1>2 DEF RunsInv

(* Who holds what after a step of a run. *)
LEMMA HoldersAfterRun ==
    ASSUME IInv, TypeOK', ControllersInv, SlotHasHolder, RowStep,
           NEW w \in Worker, worker[w].exec \in Exec, RunEffect(w)
    PROVE  ControllersInv' /\ SlotHasHolder'
<1> DEFINE e == worker[w].exec
<1>1. \A d \in Exec : (\E v \in Worker : Owns(v, d)) => \/ \E v \in Worker : Owns(v, d)'
                                                        \/ d \in faulted'
                                                        \/ status'[d] # "Running" /\ d \notin controllers'
  <2>1. \A v \in Worker : \A d \in Exec : v # w /\ Owns(v, d) => Owns(v, d)'
    BY DEF RunEffect, OthersKept, Owns
  <2>2. ASSUME NEW d \in Exec, Owns(w, d)
        PROVE  \/ \E v \in Worker : Owns(v, d)'
               \/ d \in faulted'
               \/ status'[d] # "Running" /\ d \notin controllers'
    <3>1. d = e
      BY <2>2 DEF Owns
    <3>2. KeepsRun(w) => Owns(w, d)'
      BY <3>1 DEF KeepsRun, Owning, Owns
    <3> QED
      BY <2>2, <3>1, <3>2 DEF RunEffect
  <2> QED
    BY <2>1, <2>2
<1>2. KeepsRun(w) => \A d \in Exec : d = e => \E v \in Worker : Owns(v, d)'
  BY DEF KeepsRun, Owning, Owns
<1>3. faulted \subseteq faulted' /\ server' = server
  BY DEF RunEffect
<1>4. ControllersInv'
  <2> SUFFICES ASSUME NEW d \in controllers'
               PROVE  /\ status'[d] \notin NotStarted
                      /\ d \in faulted' \/ \E v \in Worker : Owns(v, d)'
    BY Zenon DEF ControllersInv, NotStarted
  <2>1. d \in Exec
    BY DEF TypeOK
  <2>2. CASE d \in controllers
    <3>1. status'[d] \notin NotStarted
      BY <2>1, <2>2 DEF ControllersInv, NotStarted, RowStep, Active, Terminal
    <3> QED
      BY <1>1, <1>3, <2>1, <2>2, <3>1 DEF ControllersInv
  <2>3. CASE d \notin controllers
    <3>1. d = e /\ Owns(w, e)
      BY <2>1, <2>3 DEF RunEffect
    <3>2. status[d] \notin NotStarted
      BY <2>1, <3>1 DEF IInv, OwnersInv, OwnedRowsStarted
    <3>3. status'[d] \notin NotStarted
      BY <2>1, <3>2 DEF NotStarted, RowStep, Active, Terminal
    <3>4. d \in faulted' \/ \E v \in Worker : Owns(v, d)'
      BY <1>2, <2>1, <2>3, <3>1 DEF RunEffect
    <3> QED
      BY <3>3, <3>4
  <2> QED
    BY <2>2, <2>3
<1>5. SlotHasHolder'
  <2> SUFFICES ASSUME server' \notin {"down", "recovering"}, NEW d \in Exec,
                      status'[d] = "Running", d \notin faulted'
               PROVE  \E v \in Worker : Owns(v, d)'
    BY DEF SlotHasHolder, InState
  <2>1. CASE status[d] = "Running"
    <3>1. \E v \in Worker : Owns(v, d)
      BY <1>3, <2>1 DEF SlotHasHolder, InState
    <3> QED
      BY <1>1, <3>1
  <2>2. CASE status[d] # "Running"
    BY <1>2, <2>2 DEF RunEffect
  <2> QED
    BY <2>1, <2>2
<1> QED
  BY <1>4, <1>5

(* A row is handed to a run that was idle. *)
StartEffect(w, e) ==
    /\ worker[w].pc = "idle"
    /\ OthersKept(w)
    /\ worker'[w].exec = e
    /\ RunOk(w)'
    /\ \A d \in Exec : d # e => status'[d] = status[d]
    /\ status'[e] = "Running" => Owning(w)'
    /\ UNCHANGED <<controllers, faulted, server, cancel, doomed>>

LEMMA StartHasEffect ==
    ASSUME IInv, ControllersInv, NEW e \in Exec, NEW w \in Worker,
           \/ \E p \in Pass : Claim(p, e, w)
           \/ StartRestore(e, w) \/ CreateTask(e, w)
    PROVE  StartEffect(w, e)
<1>a. TypeOK
  BY DEF IInv
<1>b. status[e] \in NotStarted => e \notin controllers
  BY DEF ControllersInv
<1>1. ASSUME NEW p \in Pass, Claim(p, e, w)
      PROVE  StartEffect(w, e)
  <2>1. /\ OthersKept(w)
        /\ worker'[w].pc = "claimed" /\ worker'[w].exec = e
    BY <1>1, <1>a, SetFacts DEF Claim
  <2>2. status'[e] = "Running" /\ \A d \in Exec : d # e => status'[d] = status[d]
    BY <1>1, <1>a DEF Claim, TypeOK
  <2>3. e \notin controllers /\ UNCHANGED <<controllers, faulted, server, cancel, doomed>>
        /\ worker[w].pc = "idle"
    BY <1>1, <1>b DEF Claim, Claimable, NotStarted, FirstFree
  <2>4. RunOk(w)'
    BY <2>1, <2>2, <2>3 DEF RunOk, Registered
  <2>5. Owning(w)'
    BY <2>1 DEF Owning
  <2> QED
    BY <2>1, <2>2, <2>3, <2>4, <2>5 DEF StartEffect
<1>2. CASE StartRestore(e, w)
  <2>1. /\ OthersKept(w)
        /\ worker'[w].pc = "restoreCreated" /\ worker'[w].exec = e
    BY <1>2, <1>a, SetFacts DEF StartRestore
  <2>2. status'[e] = "Running" /\ \A d \in Exec : d # e => status'[d] = status[d]
    BY <1>2, <1>a DEF StartRestore, SetStatus, TypeOK
  <2>3. e \notin controllers /\ UNCHANGED <<controllers, faulted, server, cancel, doomed>>
        /\ worker[w].pc = "idle"
    BY <1>2, <1>b DEF StartRestore, NotStarted, FirstFree
  <2>4. RunOk(w)'
    BY <2>1, <2>2, <2>3 DEF RunOk, Registered
  <2>5. Owning(w)'
    BY <2>1 DEF Owning
  <2> QED
    BY <2>1, <2>2, <2>3, <2>4, <2>5 DEF StartEffect
<1>3. CASE CreateTask(e, w)
  <2>1. /\ OthersKept(w)
        /\ worker'[w].pc = "taskCreated" /\ worker'[w].exec = e
    BY <1>3, <1>a, SetFacts DEF CreateTask
  <2>2. status'[e] = "Pending" /\ \A d \in Exec : d # e => status'[d] = status[d]
    BY <1>3, <1>a DEF CreateTask, SetStatus, TypeOK
  <2>3. e \in Tasks /\ UNCHANGED <<controllers, faulted, server, cancel, doomed>>
        /\ worker[w].pc = "idle"
    BY <1>3 DEF CreateTask, FirstFree
  <2>4. RunOk(w)'
    BY <2>1, <2>2, <2>3 DEF RunOk, Owning
  <2> QED
    BY <2>1, <2>2, <2>3, <2>4 DEF StartEffect
<1> QED
  BY <1>1, <1>2, <1>3

LEMMA AfterStart ==
    ASSUME IInv, RunsInv, ControllersInv, SlotHasHolder, RowStep,
           NEW w \in Worker, NEW e \in Exec, StartEffect(w, e)
    PROVE  RunsInv' /\ ControllersInv' /\ SlotHasHolder'
<1>1. RunsInv'
  <2>1. ASSUME NEW v \in Worker, v # w
        PROVE  RunOk(v)'
    <3>1. TypeOK /\ RunOk(v) /\ worker'[v] = worker[v]
          /\ faulted \subseteq faulted' /\ controllers' = controllers
      BY <2>1 DEF IInv, RunsInv, StartEffect, OthersKept
    <3>2. worker[v].pc # "idle" => worker[v].exec \in Exec
      BY DEF IInv, OwnersInv, BusyHasExec
    <3> QED
      BY <3>1, <3>2, OtherRun
  <2> QED
    BY <2>1 DEF RunsInv, StartEffect
<1>2. \A d \in Exec : (\E v \in Worker : Owns(v, d)) => \E v \in Worker : Owns(v, d)'
  BY DEF StartEffect, OthersKept, Owns
<1>3. UNCHANGED <<controllers, faulted, server>>
  BY DEF StartEffect
<1>4. ControllersInv'
  <2>1. \A d \in controllers : status'[d] \notin NotStarted
    BY DEF IInv, TypeOK, ControllersInv, NotStarted, RowStep, Active, Terminal
  <2> QED
    BY <1>2, <1>3, <2>1 DEF IInv, TypeOK, ControllersInv
<1>5. SlotHasHolder'
  <2>1. Owning(w)' => Owns(w, e)'
    BY DEF StartEffect, Owning, Owns
  <2>2. \A d \in Exec : status'[d] = "Running" =>
            status[d] = "Running" \/ \E v \in Worker : Owns(v, d)'
    BY <2>1 DEF StartEffect
  <2> QED
    BY <1>2, <1>3, <2>2 DEF SlotHasHolder, InState
<1> QED
  BY <1>1, <1>4, <1>5

(* A step from outside the runs: it may close rows, but takes no run's      *)
(* entry, no controller and starts nothing.                                 *)
OutsideEffect ==
    /\ UNCHANGED <<worker, controllers>>
    /\ faulted \subseteq faulted'
    /\ \A e \in Exec : status'[e] = "Running" => status[e] = "Running"

LEMMA AfterOutside ==
    ASSUME IInv, RunsInv, ControllersInv, SlotHasHolder, RowStep, OutsideEffect,
           Serving' => Serving
    PROVE  RunsInv' /\ ControllersInv' /\ SlotHasHolder'
<1>1. RunsInv'
  <2>1. ASSUME NEW v \in Worker
        PROVE  RunOk(v)'
    <3>1. TypeOK /\ RunOk(v) /\ worker'[v] = worker[v]
          /\ faulted \subseteq faulted' /\ controllers' = controllers
      BY DEF IInv, RunsInv, OutsideEffect
    <3>2. worker[v].pc # "idle" => worker[v].exec \in Exec
      BY DEF IInv, OwnersInv, BusyHasExec
    <3> QED
      BY <3>1, <3>2, OtherRun
  <2> QED
    BY <2>1 DEF RunsInv
<1>2. \A d \in Exec : \A v \in Worker : Owns(v, d) => Owns(v, d)'
  BY DEF OutsideEffect, Owns
<1>3. ControllersInv'
  <2>1. \A d \in controllers : status'[d] \notin NotStarted
    BY DEF IInv, TypeOK, ControllersInv, NotStarted, RowStep, Active, Terminal
  <2> QED
    BY <1>2, <2>1 DEF IInv, TypeOK, ControllersInv, OutsideEffect
<1>4. SlotHasHolder'
  BY <1>2 DEF SlotHasHolder, InState, OutsideEffect, Serving
<1> QED
  BY <1>1, <1>3, <1>4

(* A step that writes no row either. *)
LEMMA QuietOutside ==
    ASSUME UNCHANGED <<status, worker, controllers, faulted>>
    PROVE  OutsideEffect
BY DEF OutsideEffect

LEMMA CloseOutside ==
    ASSUME TypeOK, NEW e \in Exec, NEW s, SetStatus(e, s), s # "Running",
           UNCHANGED <<worker, controllers>>, faulted \subseteq faulted'
    PROVE  OutsideEffect
BY DEF OutsideEffect, SetStatus, TypeOK

(* What the recovery has not closed yet, it still has on its list. *)
RecoverInv ==
    server = "recovering" =>
        \A e \in Exec \ faulted : status[e] \in Active => e \in doomed

HoldersInv == RunsInv /\ ControllersInv /\ SlotHasHolder /\ RecoverInv

LEMMA AfterEnd ==
    ASSUME LoseMemory, server' = "down"
    PROVE  HoldersInv'
<1>1. \A w \in Worker : worker'[w].pc = "idle"
  BY DEF LoseMemory, IdleWorker
<1>2. controllers' = {}
  BY DEF LoseMemory
<1> QED
  BY <1>1, <1>2 DEF HoldersInv, RunsInv, RunOk, Owning, ControllersInv, SlotHasHolder, RecoverInv

(* The next start: everything unfinished is listed, and closed or refused.  *)
LEMMA AfterRecovery ==
    ASSUME IInv, HoldersInv, RowMove,
           \/ Boot \/ Recovered
           \/ \E e \in Exec : Recover(e)
    PROVE  HoldersInv'
<1>a. TypeOK /\ RunsInv /\ ControllersInv /\ SlotHasHolder /\ RowStep
  BY DEF IInv, HoldersInv, RowMove
<1>1. CASE Boot
  <2>1. /\ OutsideEffect /\ server' = "recovering" /\ UNCHANGED status
        /\ faulted \subseteq faulted' /\ StaleRows \subseteq doomed' \cup faulted'
    BY <1>1 DEF Boot, OutsideEffect, memory
  <2>2. RunsInv' /\ ControllersInv' /\ SlotHasHolder'
    BY <1>a, <2>1, AfterOutside DEF Serving
  <2>3. RecoverInv'
    BY <2>1 DEF RecoverInv, StaleRows, InState, Active
  <2> QED
    BY <2>2, <2>3 DEF HoldersInv
<1>2. ASSUME NEW e \in Exec, Recover(e)
      PROVE  HoldersInv'
  <2>1. /\ UNCHANGED <<worker, controllers, server>> /\ server = "recovering"
        /\ doomed' = doomed \ {e}
    BY <1>2 DEF Recover, memory
  <2>2. faulted \subseteq faulted'
    BY <1>2 DEF Recover, Fault
  <2>3. /\ \A d \in Exec : d # e => status'[d] = status[d]
        /\ status'[e] \notin Active \/ e \in faulted'
        /\ \A d \in Exec : status'[d] = "Running" => status[d] = "Running"
    BY <1>2, <1>a DEF Recover, SetStatus, Fault, Active, TypeOK
  <2>4. OutsideEffect
    BY <2>1, <2>2, <2>3 DEF OutsideEffect
  <2>5. RunsInv' /\ ControllersInv' /\ SlotHasHolder'
    BY <1>a, <2>1, <2>4, AfterOutside DEF Serving
  <2>6. RecoverInv'
    BY <2>1, <2>2, <2>3 DEF HoldersInv, RecoverInv
  <2> QED
    BY <2>5, <2>6 DEF HoldersInv
<1>3. CASE Recovered
  <2>1. UNCHANGED <<worker, controllers, status, faulted>> /\ server' = "up"
    BY <1>3 DEF Recovered, memory
  <2>2. \A e \in Exec \ faulted : status[e] \notin Active
    BY <1>3 DEF Recovered, HoldersInv, RecoverInv
  <2>3. RunsInv' /\ ControllersInv'
    BY <1>a, <2>1 DEF RunsInv, RunOk, Owning, ControllersInv, Owns
  <2>4. SlotHasHolder' /\ RecoverInv'
    BY <2>1, <2>2 DEF SlotHasHolder, InState, Active, RecoverInv
  <2> QED
    BY <2>3, <2>4 DEF HoldersInv
<1> QED
  BY <1>1, <1>2, <1>3

(* Everything else the process does while it serves comes from outside. *)
LEMMA OutsideSteps ==
    ASSUME TypeOK,
           \/ \E e \in Exec : Enqueue(e) \/ TriggerQueue(e) \/ CancelRead(e) \/ CancelStep(e)
           \/ \E p \in Pass : PassOnly(p)
           \/ \E w \in Worker : Hang(w) \/ Resume(w)
           \/ SweepList \/ SweepStep
           \/ BeginMaintenance \/ EndMaintenance
           \/ RequestShutdown \/ Drained \/ GraceOver \/ AbortRunning
           \/ CountPending \/ FailPending
    PROVE  OutsideEffect /\ Serving /\ Serving'
<1>a. "Failed" # "Running" /\ "Cancelled" # "Running"
  OBVIOUS
<1>b. server = server' /\ Serving => Serving'
  BY DEF Serving
<1>1. ASSUME NEW e \in Exec, Enqueue(e) \/ TriggerQueue(e) \/ CancelRead(e) \/ CancelStep(e)
      PROVE  OutsideEffect /\ Serving /\ Serving'
  <2>1. CASE Enqueue(e)
    <3>1. SetStatus(e, "Pending") /\ UNCHANGED <<worker, controllers>> /\ faulted' = faulted
      BY <2>1 DEF Enqueue, SetStatus
    <3> QED
      BY <2>1, <3>1, <1>b, CloseOutside DEF Enqueue
  <2>2. CASE TriggerQueue(e) \/ CancelRead(e)
    BY <2>2, <1>b, QuietOutside DEF TriggerQueue, CancelRead
  <2>3. CASE CancelSignal(e)
    BY <2>3, <1>b, QuietOutside DEF CancelSignal
  <2>4. CASE CancelWrite(e)
    BY <2>4, <1>a, <1>b, CloseOutside DEF CancelWrite
  <2> QED
    BY <1>1, <2>1, <2>2, <2>3, <2>4 DEF CancelStep
<1>2. ASSUME NEW p \in Pass, PassOnly(p)
      PROVE  OutsideEffect /\ Serving /\ Serving'
  BY <1>2, <1>b, QuietOutside, PassOnlyEffect
<1>3. ASSUME NEW w \in Worker, Hang(w) \/ Resume(w)
      PROVE  OutsideEffect /\ Serving /\ Serving'
  BY <1>3, <1>b, QuietOutside DEF Hang, Resume
<1>4. CASE SweepList \/ SweepEnd \/ BeginMaintenance \/ EndMaintenance
  <2>1. server = server' /\ Serving
    BY <1>4 DEF SweepList, SweepEnd, BeginMaintenance, EndMaintenance, Serving
  <2>2. UNCHANGED <<status, worker, controllers, faulted>>
    BY <1>4 DEF SweepList, SweepEnd, BeginMaintenance, EndMaintenance
  <2> QED
    BY <1>b, <2>1, <2>2, QuietOutside
<1>5. ASSUME NEW e \in Exec, SweepSignal(e) \/ SweepFail(e)
      PROVE  OutsideEffect /\ Serving /\ Serving'
  <2>1. CASE SweepSignal(e)
    BY <2>1, <1>b, QuietOutside DEF SweepSignal
  <2>2. CASE SweepFail(e)
    BY <2>2, <1>a, <1>b, CloseOutside, QuietOutside DEF SweepFail
  <2> QED
    BY <1>5, <2>1, <2>2
<1>6. CASE RequestShutdown \/ Drained \/ GraceOver \/ CountPending
  <2>1. Serving /\ Serving'
    BY <1>6 DEF RequestShutdown, Drained, GraceOver, CountPending, ShutdownStep, Serving
  <2>2. UNCHANGED <<status, worker, controllers, faulted>>
    BY <1>6 DEF RequestShutdown, Drained, GraceOver, CountPending, ShutdownStep
  <2> QED
    BY <2>1, <2>2, QuietOutside
<1>7. CASE AbortRunning \/ FailPending
  <2>1. Serving /\ Serving'
    BY <1>7 DEF AbortRunning, FailPending, ShutdownStep, Serving
  <2>2. UNCHANGED <<worker, controllers, faulted>>
    BY <1>7 DEF AbortRunning, FailPending, ShutdownStep
  <2>3. \A e \in Exec : status'[e] = "Running" => status[e] = "Running"
    BY <1>7 DEF AbortRunning, FailPending
  <2> QED
    BY <2>1, <2>2, <2>3 DEF OutsideEffect
<1> QED
  BY <1>1, <1>2, <1>3, <1>4, <1>5, <1>6, <1>7 DEF SweepStep

LEMMA HoldersNext ==
    ASSUME IInv, IInv', KnownRowsExist, HoldersInv, RowMove, [Next]_vars
    PROVE  HoldersInv'
<1>a. TypeOK /\ TypeOK' /\ RunsInv /\ ControllersInv /\ SlotHasHolder /\ RowStep
  BY DEF IInv, HoldersInv, RowMove
<1>b. Serving' => RecoverInv'
  BY DEF Serving, RecoverInv
<1>1. CASE UNCHANGED vars
  <2>1. UNCHANGED <<status, worker, controllers, faulted, server, doomed>>
    BY <1>1 DEF vars, memory
  <2> QED
    BY <2>1 DEF HoldersInv, RunsInv, RunOk, Owning, ControllersInv, SlotHasHolder,
                RecoverInv, InState, Owns
<1>2. ASSUME NEW w \in Worker, RunStep(w)
      PROVE  HoldersInv'
  <2>1. RunEffect(w) /\ worker[w].exec \in Exec
    BY <1>2, <1>a, RunHasEffect
  <2>2. Serving
    BY <1>2 DEF RunStep, Register, Work, Retention, Unregister, Finalize, TriggerNext,
                RegisterRestore, WriteRestore, EndRestore, StartTask, FinishTask, At
  <2>3. Serving'
    BY <2>1, <2>2 DEF RunEffect, Serving
  <2> QED
    BY <1>a, <1>b, <2>1, <2>3, RunsAfterRun, HoldersAfterRun DEF HoldersInv
<1>3. ASSUME NEW w \in Worker, NEW e \in Exec,
             \/ \E p \in Pass : Claim(p, e, w)
             \/ StartRestore(e, w) \/ CreateTask(e, w)
      PROVE  HoldersInv'
  <2>1. StartEffect(w, e)
    BY <1>3, <1>a, StartHasEffect
  <2>2. Serving
    BY <1>3 DEF Claim, StartRestore, CreateTask
  <2>3. Serving'
    BY <2>1, <2>2 DEF StartEffect, Serving
  <2> QED
    BY <1>a, <1>b, <2>1, <2>3, AfterStart DEF HoldersInv
<1>4. CASE \/ \E e \in Exec : Enqueue(e) \/ TriggerQueue(e) \/ CancelRead(e) \/ CancelStep(e)
           \/ \E p \in Pass : PassOnly(p)
           \/ \E w \in Worker : Hang(w) \/ Resume(w)
           \/ SweepList \/ SweepStep
           \/ BeginMaintenance \/ EndMaintenance
           \/ RequestShutdown \/ Drained \/ GraceOver \/ AbortRunning
           \/ CountPending \/ FailPending
  BY <1>4, <1>a, <1>b, OutsideSteps, AfterOutside DEF HoldersInv
<1>5. CASE Exit \/ Crash
  BY <1>5, AfterEnd DEF Exit, Crash
<1>6. CASE Boot \/ Recovered \/ \E e \in Exec : Recover(e)
  BY <1>6, AfterRecovery
<1> QED
  BY <1>1, <1>2, <1>3, <1>4, <1>5, <1>6 DEF Next, Request, PassStep, PassOnly, ShutdownSteps

LEMMA HoldersInit ==
    ASSUME Init
    PROVE  HoldersInv
BY DEF Init, IdleWorker, HoldersInv, RunsInv, RunOk, Owning, ControllersInv,
       SlotHasHolder, InState, RecoverInv

-----------------------------------------------------------------------------
(* A row is made once. *)
CreatedOnce == \A i, j \in DOMAIN created : created[i] = created[j] => i = j

(* Whatever waits longer than a row that a pass will claim, the same pass   *)
(* will claim too, and before it, or has tried to and was refused.          *)
PicksOldest ==
    \A p \in Pass : \A e \in pass[p].picks : \A d \in Exec :
        status[e] = "Pending" /\ status[d] = "Pending" /\ Older(d, e)
            => d \in pass[p].picks \cup pass[p].refused

OrderInv == CreatedOnce /\ PicksOldest

NoneQueued == \A e \in Exec : status'[e] = "Pending" => status[e] = "Pending"
QueueQuiet == UNCHANGED created /\ PassQuiet /\ NoneQueued

(* The rows that findMany returns are the oldest: with one it takes all     *)
(* that wait longer.                                                        *)
LEMMA OlderTransitive ==
    ASSUME created \in Seq(Exec), CreatedOnce, NEW c, NEW d, NEW e, Older(c, d), Older(d, e)
    PROVE  Older(c, e)
<1>1. PICK i, j \in DOMAIN created : i < j /\ created[i] = c /\ created[j] = d
  BY DEF Older
<1>2. PICK k, l \in DOMAIN created : k < l /\ created[k] = d /\ created[l] = e
  BY DEF Older
<1>3. j = k
  BY <1>1, <1>2 DEF CreatedOnce
<1>4. i < l
  BY <1>1, <1>2, <1>3
<1> QED
  BY <1>1, <1>2, <1>4 DEF Older

LEMMA OldestClosed ==
    ASSUME created \in Seq(Exec), CreatedOnce, NEW n \in Nat, NEW e \in OldestPending(n),
           NEW d \in InState("Pending"), Older(d, e)
    PROVE  d \in OldestPending(n)
<1> DEFINE before(x) == {c \in InState("Pending") : Older(c, x)}
<1>1. before(d) \subseteq before(e)
  BY OlderTransitive
<1>2. before(e) \subseteq Exec /\ IsFiniteSet(Exec)
  BY FiniteAssumption DEF InState
<1>3. IsFiniteSet(before(e))
  BY <1>2, FS_Subset
<1>4. /\ IsFiniteSet(before(d))
      /\ Cardinality(before(d)) \in Nat /\ Cardinality(before(e)) \in Nat
      /\ Cardinality(before(d)) <= Cardinality(before(e))
  BY <1>1, <1>3, FS_Subset, FS_CardinalityType
<1>5. Cardinality(before(e)) < n
  BY DEF OldestPending
<1>6. Cardinality(before(d)) < n
  BY <1>4, <1>5
<1> QED
  BY <1>6 DEF OldestPending

LEMMA QuietOrder ==
    ASSUME TypeOK, OrderInv, QueueQuiet
    PROVE  OrderInv'
<1>1. CreatedOnce'
  BY DEF OrderInv, CreatedOnce, QueueQuiet
<1>2. PicksOldest'
  <2> SUFFICES ASSUME NEW p \in Pass, NEW e \in pass'[p].picks, NEW d \in Exec,
                      status'[e] = "Pending", status'[d] = "Pending", Older(d, e)'
               PROVE  d \in pass'[p].picks \cup pass'[p].refused
    BY Zenon DEF PicksOldest
  <2>1. pass'[p] = pass[p]
    BY DEF QueueQuiet, PassQuiet
  <2>2. e \in Exec
    BY <2>1 DEF TypeOK
  <2>3. status[e] = "Pending" /\ status[d] = "Pending" /\ Older(d, e)
    BY <2>2 DEF QueueQuiet, NoneQueued, Older
  <2> QED
    BY <2>1, <2>3 DEF OrderInv, PicksOldest
<1> QED
  BY <1>1, <1>2 DEF OrderInv

(* A new row goes to the end. *)
LEMMA AppendOrder ==
    ASSUME TypeOK, OrderInv, KnownRowsExist, NEW x \in Exec, status[x] = "Absent",
           SetStatus(x, "Pending"), created' = Append(created, x), UNCHANGED pass
    PROVE  OrderInv'
<1>1. created \in Seq(Exec) /\ \A i \in DOMAIN created : status[created[i]] # "Absent"
  BY DEF TypeOK, KnownRowsExist
<1>2. \A i \in DOMAIN created : created[i] # x
  BY <1>1
<1>3. /\ DOMAIN created = 1..Len(created) /\ Len(created) \in Nat
      /\ DOMAIN created' = 1..(Len(created) + 1)
      /\ created'[Len(created) + 1] = x
      /\ \A i \in DOMAIN created : created'[i] = created[i]
  BY <1>1
<1>4. \A i \in DOMAIN created' : i \in DOMAIN created \/ i = Len(created) + 1
  BY <1>3
<1>5. CreatedOnce'
  BY <1>2, <1>3, <1>4 DEF OrderInv, CreatedOnce
<1>6. PicksOldest'
  <2> SUFFICES ASSUME NEW p \in Pass, NEW e \in pass'[p].picks, NEW d \in Exec,
                      status'[e] = "Pending", status'[d] = "Pending", Older(d, e)'
               PROVE  d \in pass'[p].picks \cup pass'[p].refused
    BY Zenon DEF PicksOldest
  <2>1. e \in pass[p].picks /\ status[e] # "Absent" /\ e \in Exec
    BY DEF KnownRowsExist, TypeOK
  <2>2. PICK i, j \in DOMAIN created' : i < j /\ created'[i] = d /\ created'[j] = e
    BY DEF Older
  <2>3. j # Len(created) + 1
    BY <1>3, <2>1, <2>2
  <2>4. i \in DOMAIN created /\ j \in DOMAIN created
    BY <1>3, <2>2, <2>3
  <2>5. created[i] = d /\ created[j] = e
    BY <1>3, <2>2, <2>4
  <2>6. d # x
    BY <1>2, <2>4, <2>5
  <2>7. Older(d, e)
    BY <2>2, <2>4, <2>5 DEF Older
  <2>8. status[d] = status'[d] /\ status[e] = status'[e]
    BY <2>1, <2>6 DEF SetStatus, TypeOK
  <2>9. d \in pass[p].picks \cup pass[p].refused
    BY <2>1, <2>7, <2>8 DEF OrderInv, PicksOldest
  <2> QED
    BY <2>9
<1> QED
  BY <1>5, <1>6 DEF OrderInv

LEMMA SelectOrder ==
    ASSUME TypeOK, OrderInv, NEW p \in Pass, SelectPending(p)
    PROVE  OrderInv'
<1>1. /\ UNCHANGED <<status, created>>
      /\ created \in Seq(Exec) /\ CreatedOnce
      /\ pass[p].slots \in Nat
  BY DEF SelectPending, TypeOK, OrderInv
<1>2. pass'[p].picks = OldestPending(pass[p].slots)
      /\ \A q \in Pass : q # p => pass'[q] = pass[q]
  BY DEF SelectPending, TypeOK, IdlePass
<1>3. CreatedOnce'
  BY <1>1 DEF CreatedOnce
<1>4. PicksOldest'
  <2> SUFFICES ASSUME NEW q \in Pass, NEW e \in pass'[q].picks, NEW d \in Exec,
                      status'[e] = "Pending", status'[d] = "Pending", Older(d, e)'
               PROVE  d \in pass'[q].picks \cup pass'[q].refused
    BY Zenon DEF PicksOldest
  <2>1. status[e] = "Pending" /\ status[d] = "Pending" /\ Older(d, e)
    BY <1>1 DEF Older
  <2>2. CASE q = p
    <3>1. d \in InState("Pending")
      BY <2>1 DEF InState
    <3> QED
      BY <1>1, <1>2, <2>1, <2>2, <3>1, OldestClosed
  <2>3. CASE q # p
    BY <1>2, <2>1, <2>3 DEF OrderInv, PicksOldest
  <2> QED
    BY <2>2, <2>3
<1> QED
  BY <1>3, <1>4 DEF OrderInv

(* A pass is done with one of its picks; while others are left it remembers *)
(* whether that one's claim was refused.                                    *)
Dropped(p, e) ==
    /\ pass'[p].picks = pass[p].picks \ {e}
    /\ pass[p].picks # {e} => pass[p].refused \subseteq pass'[p].refused
    /\ \A q \in Pass : q # p => pass'[q] = pass[q]

LEMMA DropFacts ==
    ASSUME TypeOK, NEW p \in Pass, NEW e \in Exec, DropPick(p, e)
    PROVE  Dropped(p, e)
BY DEF DropPick, TypeOK, IdlePass, Dropped

LEMMA RefusedFacts ==
    ASSUME TypeOK, NEW p \in Pass, NEW e \in Exec, ClaimRefused(p, e)
    PROVE  Dropped(p, e) /\ (pass[p].picks # {e} => e \in pass'[p].refused)
BY DEF ClaimRefused, TypeOK, IdlePass, Dropped

LEMMA DropOrder ==
    ASSUME TypeOK, OrderInv, NEW p \in Pass, NEW e \in Exec, Dropped(p, e),
           UNCHANGED created, NoneQueued,
           status'[e] # "Pending" \/ (pass[p].picks # {e} => e \in pass'[p].refused)
    PROVE  OrderInv'
<1>1. CreatedOnce'
  BY DEF OrderInv, CreatedOnce
<1>2. PicksOldest'
  <2> SUFFICES ASSUME NEW q \in Pass, NEW c \in pass'[q].picks, NEW d \in Exec,
                      status'[c] = "Pending", status'[d] = "Pending", Older(d, c)'
               PROVE  d \in pass'[q].picks \cup pass'[q].refused
    BY Zenon DEF PicksOldest
  <2>1. c \in pass[q].picks /\ c \in Exec
    BY DEF TypeOK, Dropped
  <2>2. status[c] = "Pending" /\ status[d] = "Pending" /\ Older(d, c)
    BY <2>1 DEF NoneQueued, Older
  <2>3. d \in pass[q].picks \cup pass[q].refused
    BY <2>1, <2>2 DEF OrderInv, PicksOldest
  <2>4. CASE q # p
    BY <2>3, <2>4 DEF Dropped
  <2>5. CASE q = p
    <3>1. pass[p].picks # {e}
      BY <2>5 DEF Dropped
    <3> QED
      BY <2>3, <2>5, <3>1 DEF Dropped
  <2> QED
    BY <2>4, <2>5
<1> QED
  BY <1>1, <1>2 DEF OrderInv

(* A row that someone takes note of is there, and stays. *)
NotesRows ==
    /\ \A e \in Exec : cancel'[e] # "none" => cancel[e] # "none" \/ status[e] # "Absent"
    /\ \A e \in doomed' : e \in doomed \/ status[e] # "Absent"

LEMMA KnownKept ==
    ASSUME TypeOK, TypeOK', KnownRowsExist, RowStep, NotesRows, UNCHANGED created,
           \A p \in Pass : \A e \in pass'[p].picks : e \in pass[p].picks \/ status[e] # "Absent"
    PROVE  KnownRowsExist'
<1>1. \A e \in Exec : status[e] # "Absent" => status'[e] # "Absent"
  BY DEF RowStep, Active, Terminal
<1>2. \A e \in Exec : cancel'[e] # "none" => status'[e] # "Absent"
  BY <1>1 DEF KnownRowsExist, NotesRows
<1>3. \A e \in doomed' : status'[e] # "Absent"
  BY <1>1 DEF TypeOK, KnownRowsExist, NotesRows
<1>4. \A p \in Pass : \A e \in pass'[p].picks : status'[e] # "Absent"
  BY <1>1 DEF TypeOK, KnownRowsExist
<1>5. \A i \in DOMAIN created : status'[created[i]] # "Absent"
  <2>1. \A i \in DOMAIN created : created[i] \in Exec
    BY DEF TypeOK
  <2> QED
    BY <1>1, <2>1 DEF KnownRowsExist
<1> QED
  BY <1>2, <1>3, <1>4, <1>5 DEF KnownRowsExist

LEMMA KnownQuiet ==
    ASSUME TypeOK, TypeOK', KnownRowsExist, OrderInv, RowStep, NotesRows, QueueQuiet
    PROVE  KnownRowsExist' /\ OrderInv'
BY KnownKept, QuietOrder DEF QueueQuiet, PassQuiet

LEMMA KnownAppend ==
    ASSUME TypeOK, KnownRowsExist, NEW x \in Exec, SetStatus(x, "Pending"),
           created' = Append(created, x), UNCHANGED <<pass, cancel, doomed>>
    PROVE  KnownRowsExist'
<1>1. \A e \in Exec : status'[e] # status[e] => status'[e] = "Pending"
  BY DEF TypeOK, SetStatus
<1>2. \A e \in Exec : status[e] # "Absent" => status'[e] # "Absent"
  BY <1>1
<1>3. status'[x] = "Pending"
  BY DEF TypeOK, SetStatus
<1>4. \A i \in DOMAIN created' : created'[i] = x \/ (i \in DOMAIN created /\ created'[i] = created[i])
  BY DEF TypeOK
<1>5. \A i \in DOMAIN created : created[i] \in Exec /\ status[created[i]] # "Absent"
  BY DEF TypeOK, KnownRowsExist
<1>6. \A i \in DOMAIN created' : status'[created'[i]] # "Absent"
  BY <1>2, <1>3, <1>4, <1>5
<1>7. /\ \A e \in Exec : cancel'[e] # "none" => status'[e] # "Absent"
      /\ \A e \in doomed' : status'[e] # "Absent"
      /\ \A p \in Pass : \A e \in pass'[p].picks : status'[e] # "Absent"
  BY <1>2 DEF TypeOK, KnownRowsExist
<1> QED
  BY <1>6, <1>7 DEF KnownRowsExist

LEMMA Unqueued ==
    ASSUME TypeOK, UNCHANGED status \/ \E e \in Exec, s \in Terminal \cup {"Running"} : SetStatus(e, s)
    PROVE  NoneQueued
BY DEF NoneQueued, TypeOK, SetStatus, Terminal

(* The steps from outside that leave the queue's order alone. *)
LEMMA QuietSteps ==
    ASSUME TypeOK,
           \/ \E e \in Exec : TriggerQueue(e) \/ CancelRead(e) \/ CancelStep(e) \/ Recover(e)
           \/ \E e \in Exec : \E w \in Worker : StartRestore(e, w)
           \/ \E p \in Pass : CountRunning(p) \/ LosePass(p)
           \/ \E w \in Worker : Hang(w) \/ Resume(w)
           \/ SweepList \/ SweepStep \/ BeginMaintenance \/ EndMaintenance
    PROVE  QueueQuiet /\ NotesRows
<1>a. UNCHANGED pass \/ processQueue \/ EnterPass => PassQuiet
  BY PassQuietIf
<1>b. UNCHANGED <<cancel, doomed>> => NotesRows
  BY DEF NotesRows
<1>c. UNCHANGED status => NoneQueued
  BY Unqueued
<1>d. \A e \in Exec : \A s \in {"Failed", "Cancelled", "Running"} : SetStatus(e, s) => NoneQueued
  BY Unqueued DEF Terminal
<1>1. ASSUME NEW e \in Exec, TriggerQueue(e) \/ CancelRead(e)
      PROVE  QueueQuiet /\ NotesRows
  <2>1. CASE TriggerQueue(e)
    BY <2>1, <1>a, <1>b, <1>c DEF TriggerQueue, QueueQuiet
  <2>2. CASE CancelRead(e)
    <3>1. UNCHANGED <<status, created, pass, doomed>>
      BY <2>2 DEF CancelRead
    <3>2. status[e] # "Absent" /\ \A d \in Exec : d # e => cancel'[d] = cancel[d]
      BY <2>2 DEF CancelRead, TypeOK
    <3> QED
      BY <3>1, <3>2, <1>a, <1>c DEF QueueQuiet, NotesRows
  <2> QED
    BY <1>1, <2>1, <2>2
<1>2. ASSUME NEW e \in Exec, CancelStep(e)
      PROVE  QueueQuiet /\ NotesRows
  <2>1. CASE CancelSignal(e)
    <3>1. UNCHANGED <<status, created, pass, doomed>>
      BY <2>1 DEF CancelSignal
    <3>2. cancel[e] # "none" /\ \A d \in Exec : d # e => cancel'[d] = cancel[d]
      BY <2>1 DEF CancelSignal, TypeOK
    <3> QED
      BY <3>1, <3>2, <1>a, <1>c DEF QueueQuiet, NotesRows
  <2>2. CASE CancelWrite(e)
    <3>1. UNCHANGED <<created, pass, doomed>> /\ SetStatus(e, "Cancelled")
      BY <2>2 DEF CancelWrite
    <3>2. \A d \in Exec : cancel'[d] # "none" => cancel[d] # "none"
      BY <2>2 DEF CancelWrite, TypeOK
    <3> QED
      BY <3>1, <3>2, <1>a, <1>d DEF QueueQuiet, NotesRows
  <2> QED
    BY <1>2, <2>1, <2>2 DEF CancelStep
<1>3. ASSUME NEW e \in Exec, Recover(e)
      PROVE  QueueQuiet /\ NotesRows
  <2>1. UNCHANGED <<created, pass, cancel>> /\ doomed' \subseteq doomed
    BY <1>3 DEF Recover, memory
  <2>2. NoneQueued
    BY <1>3, <1>c, <1>d DEF Recover
  <2> QED
    BY <2>1, <2>2, <1>a DEF QueueQuiet, NotesRows
<1>4. ASSUME NEW e \in Exec, NEW w \in Worker, StartRestore(e, w)
      PROVE  QueueQuiet /\ NotesRows
  BY <1>4, <1>a, <1>b, <1>d DEF StartRestore, QueueQuiet
<1>5. ASSUME NEW p \in Pass, CountRunning(p) \/ LosePass(p)
      PROVE  QueueQuiet /\ NotesRows
  <2>1. \E entry : entry.picks = {} /\ pass' = [pass EXCEPT ![p] = entry]
    <3> DEFINE n == Cardinality(InState("Running"))
               entry == IF QueueFull(n) THEN IdlePass
                        ELSE [IdlePass EXCEPT !.pc = "counted", !.slots = MaxJobs - n]
    <3>1. CountRunning(p) => pass' = [pass EXCEPT ![p] = entry]
      BY Zenon DEF CountRunning
    <3>2. entry.picks = {} /\ IdlePass.picks = {}
      BY DEF IdlePass
    <3>3. LosePass(p) => pass' = [pass EXCEPT ![p] = IdlePass]
      BY DEF LosePass
    <3> QED
      BY <1>5, <3>1, <3>2, <3>3
  <2>2. PassQuiet
    BY <2>1 DEF PassQuiet, TypeOK
  <2>3. UNCHANGED <<status, created, cancel, doomed>>
    BY <1>5, PassOnlyEffect DEF PassOnly
  <2> QED
    BY <2>2, <2>3, <1>b, <1>c DEF QueueQuiet
<1>6. ASSUME NEW w \in Worker, Hang(w) \/ Resume(w)
      PROVE  QueueQuiet /\ NotesRows
  BY <1>6, <1>a, <1>b, <1>c DEF Hang, Resume, QueueQuiet
<1>7. CASE SweepList \/ SweepEnd \/ BeginMaintenance \/ EndMaintenance
  <2>1. UNCHANGED <<status, created, cancel, doomed>>
    BY <1>7 DEF SweepList, SweepEnd, BeginMaintenance, EndMaintenance
  <2>2. UNCHANGED pass \/ processQueue \/ EnterPass
    BY <1>7 DEF SweepList, SweepEnd, BeginMaintenance, EndMaintenance
  <2> QED
    BY <2>1, <2>2, <1>a, <1>b, <1>c DEF QueueQuiet
<1>8. ASSUME NEW e \in Exec, SweepSignal(e) \/ SweepFail(e)
      PROVE  QueueQuiet /\ NotesRows
  <2>1. UNCHANGED <<created, pass, cancel, doomed>>
    BY <1>8 DEF SweepSignal, SweepFail
  <2>2. NoneQueued
    BY <1>8, <1>c, <1>d DEF SweepSignal, SweepFail
  <2> QED
    BY <2>1, <2>2, <1>a, <1>b DEF QueueQuiet
<1> QED
  BY <1>1, <1>2, <1>3, <1>4, <1>5, <1>6, <1>7, <1>8 DEF SweepStep

(* Neither does the life of the process. *)
LEMMA QuietLife ==
    ASSUME TypeOK,
           RequestShutdown \/ ShutdownSteps \/ Crash \/ Boot \/ Recovered
    PROVE  QueueQuiet /\ NotesRows
<1>a. UNCHANGED pass => PassQuiet
  BY PassQuietIf
<1>b. UNCHANGED <<cancel, doomed>> => NotesRows
  BY DEF NotesRows
<1>c. UNCHANGED status => NoneQueued
  BY Unqueued
<1>1. CASE RequestShutdown \/ Drained \/ CountPending
  BY <1>1, <1>a, <1>b, <1>c DEF RequestShutdown, Drained, CountPending, ShutdownStep, QueueQuiet
<1>2. CASE GraceOver
  <2>1. UNCHANGED <<status, created, pass, cancel>> /\ doomed' = InState("Running")
    BY <1>2 DEF GraceOver, ShutdownStep
  <2> QED
    BY <2>1, <1>a, <1>c DEF QueueQuiet, NotesRows, InState
<1>3. CASE AbortRunning \/ FailPending
  <2>1. UNCHANGED <<created, pass, cancel>> /\ doomed' \subseteq doomed
    BY <1>3 DEF AbortRunning, FailPending, ShutdownStep
  <2>2. NoneQueued
    BY <1>3 DEF AbortRunning, FailPending, NoneQueued
  <2> QED
    BY <2>1, <2>2, <1>a DEF QueueQuiet, NotesRows
<1>4. CASE Exit \/ Crash
  <2>1. LoseMemory
    BY <1>4 DEF Exit, Crash
  <2>2. PassQuiet /\ NotesRows
    BY <2>1 DEF LoseMemory, PassQuiet, NotesRows, IdlePass
  <2> QED
    BY <2>1, <2>2, <1>c DEF LoseMemory, QueueQuiet
<1>5. CASE Boot
  <2>1. UNCHANGED <<status, created, pass, cancel>> /\ doomed' \subseteq StaleRows
    BY <1>5 DEF Boot, memory
  <2> QED
    BY <2>1, <1>a, <1>c DEF QueueQuiet, NotesRows, StaleRows, InState
<1>6. CASE Recovered
  BY <1>6, <1>a, <1>b, <1>c DEF Recovered, memory, QueueQuiet
<1> QED
  BY <1>1, <1>2, <1>3, <1>4, <1>5, <1>6 DEF ShutdownSteps

LEMMA RunQuiet ==
    ASSUME IInv, RunsInv, RowStep, NEW w \in Worker, worker[w].exec \in Exec,
           worker[w].pc # "idle", RunEffect(w)
    PROVE  QueueQuiet /\ NotesRows
<1> DEFINE e == worker[w].exec
<1>1. status[e] # "Absent"
  BY DEF RunsInv, RunOk
<1>2. status'[e] = "Pending" => status[e] = "Pending"
  BY <1>1 DEF RowStep, Active, Terminal
<1>3. NoneQueued
  BY <1>2 DEF NoneQueued, RunEffect
<1>4. UNCHANGED <<created, cancel, doomed>> /\ PassQuiet
  BY DEF RunEffect
<1> QED
  BY <1>3, <1>4 DEF QueueQuiet, NotesRows

LEMMA KnownNext ==
    ASSUME IInv, IInv', KnownRowsExist, HoldersInv, OrderInv, RowMove, [Next]_vars
    PROVE  KnownRowsExist' /\ OrderInv'
<1>a. TypeOK /\ TypeOK' /\ RunsInv /\ ControllersInv /\ RowStep
  BY DEF IInv, HoldersInv, RowMove
<1>b. UNCHANGED <<cancel, doomed>> => NotesRows
  BY DEF NotesRows
<1>1. CASE UNCHANGED vars
  <2>1. UNCHANGED <<status, created, pass, cancel, doomed>>
    BY <1>1 DEF vars, memory
  <2>2. QueueQuiet
    BY <1>a, <2>1, PassQuietIf, Unqueued DEF QueueQuiet
  <2> QED
    BY <1>a, <1>b, <2>1, <2>2, KnownQuiet
<1>2. ASSUME NEW w \in Worker, RunStep(w)
      PROVE  KnownRowsExist' /\ OrderInv'
  <2>1. RunEffect(w) /\ worker[w].exec \in Exec
    BY <1>2, <1>a, RunHasEffect
  <2>2. worker[w].pc # "idle"
    BY <1>2 DEF RunStep, Register, Work, Retention, Unregister, Finalize, TriggerNext,
                RegisterRestore, WriteRestore, EndRestore, StartTask, FinishTask, At
  <2>3. QueueQuiet /\ NotesRows
    BY <1>a, <2>1, <2>2, RunQuiet
  <2> QED
    BY <1>a, <2>3, KnownQuiet
<1>3. ASSUME NEW e \in Exec, Enqueue(e) \/ \E w \in Worker : CreateTask(e, w)
      PROVE  KnownRowsExist' /\ OrderInv'
  <2>1. /\ status[e] = "Absent" /\ SetStatus(e, "Pending")
        /\ created' = Append(created, e)
        /\ UNCHANGED <<pass, cancel, doomed>>
    BY <1>3 DEF Enqueue, CreateTask, SetStatus
  <2> QED
    BY <1>a, <2>1, AppendOrder, KnownAppend
<1>4. ASSUME NEW p \in Pass, SelectPending(p)
      PROVE  KnownRowsExist' /\ OrderInv'
  <2>1. UNCHANGED <<created, cancel, doomed>>
    BY <1>4 DEF SelectPending
  <2>2. /\ pass'[p].picks = OldestPending(pass[p].slots)
        /\ \A q \in Pass : q # p => pass'[q] = pass[q]
    BY <1>4, <1>a DEF SelectPending, TypeOK, IdlePass
  <2>3. \A e \in OldestPending(pass[p].slots) : status[e] # "Absent"
    BY DEF OldestPending, InState
  <2>4. \A q \in Pass : \A e \in pass'[q].picks : e \in pass[q].picks \/ status[e] # "Absent"
    BY <2>2, <2>3
  <2>5. KnownRowsExist'
    BY <1>a, <1>b, <2>1, <2>4, KnownKept
  <2> QED
    BY <1>4, <1>a, <2>5, SelectOrder
<1>5. ASSUME NEW p \in Pass, NEW e \in Exec,
             SkipClaimed(p, e) \/ ClaimRefused(p, e) \/ \E w \in Worker : Claim(p, e, w)
      PROVE  KnownRowsExist' /\ OrderInv'
  <2>1. UNCHANGED <<created, cancel, doomed>> /\ Dropped(p, e)
    BY <1>5, <1>a, DropFacts, RefusedFacts DEF SkipClaimed, Claim, ClaimRefused
  <2>2. /\ NoneQueued
        /\ status'[e] # "Pending" \/ (pass[p].picks # {e} => e \in pass'[p].refused)
    <3>1. CASE SkipClaimed(p, e)
      BY <1>a, <3>1, Unqueued DEF SkipClaimed, Claimable
    <3>2. CASE \E w \in Worker : Claim(p, e, w)
      <4>1. SetStatus(e, "Running")
        BY <3>2 DEF Claim, SetStatus
      <4> QED
        BY <1>a, <4>1, Unqueued DEF SetStatus, TypeOK
    <3>3. CASE ClaimRefused(p, e)
      BY <1>a, <3>3, Unqueued, RefusedFacts DEF ClaimRefused
    <3> QED
      BY <1>5, <3>1, <3>2, <3>3
  <2>3. \A q \in Pass : \A d \in pass'[q].picks : d \in pass[q].picks
    BY <2>1 DEF Dropped
  <2>4. KnownRowsExist'
    BY <1>a, <1>b, <2>1, <2>3, KnownKept
  <2> QED
    BY <1>a, <2>1, <2>2, <2>4, DropOrder
<1>6. CASE \/ \E e \in Exec : TriggerQueue(e) \/ CancelRead(e) \/ CancelStep(e) \/ Recover(e)
           \/ \E e \in Exec : \E w \in Worker : StartRestore(e, w)
           \/ \E p \in Pass : CountRunning(p) \/ LosePass(p)
           \/ \E w \in Worker : Hang(w) \/ Resume(w)
           \/ SweepList \/ SweepStep \/ BeginMaintenance \/ EndMaintenance
  BY <1>6, <1>a, QuietSteps, KnownQuiet
<1>7. CASE RequestShutdown \/ ShutdownSteps \/ Crash \/ Boot \/ Recovered
  BY <1>7, <1>a, QuietLife, KnownQuiet
<1> QED
  BY <1>1, <1>2, <1>3, <1>4, <1>5, <1>6, <1>7 DEF Next, Request, PassStep

LEMMA KnownInit ==
    ASSUME Init
    PROVE  KnownRowsExist /\ OrderInv
BY DEF Init, IdlePass, KnownRowsExist, OrderInv, CreatedOnce, PicksOldest

-----------------------------------------------------------------------------
(* The whole invariant of the queue. Each part needs the others: a row may  *)
(* be written by its id because it exists, and it is never left Running     *)
(* because the run that closes it had it for itself.                        *)
QueueInv == IInv /\ KnownRowsExist /\ HoldersInv /\ OrderInv

LEMMA QueueInvNext ==
    ASSUME QueueInv, [Next]_vars
    PROVE  QueueInv' /\ RowMove
<1>1. IInv'
  BY TypeNext, OwnersNext DEF QueueInv, IInv, OwnersInv
<1>2. RowMove
  BY RowMoves DEF QueueInv, HoldersInv
<1> QED
  BY <1>1, <1>2, HoldersNext, KnownNext DEF QueueInv

THEOREM QueueInvariance == Spec => []QueueInv
<1>1. Init => QueueInv
  BY TypeInit, OwnersInit, KnownInit, HoldersInit DEF QueueInv, IInv
<1>2. QueueInv /\ [Next]_vars => QueueInv'
  BY QueueInvNext
<1> QED
  BY <1>1, <1>2, PTL DEF Spec

(* No slot of the queue stays taken after its run is gone: at every moment  *)
(* of the process's life a Running row has a live run that will close it,   *)
(* or the database refused the statement that would have closed it.         *)
THEOREM SlotsHeld == Spec => []SlotHasHolder
BY QueueInvariance, PTL DEF QueueInv, HoldersInv

(* Cancel, watchdog and shutdown reach every run at work through the abort  *)
(* registry, and the registry keeps nothing of a run that ended by itself.  *)
THEOREM RegistryExact == Spec => []RegistryMatchesRuns
<1>1. RunsInv => \A w \in Worker :
         worker[w].pc \in {"working", "retention", "flushing", "restoring", "restored"}
            => worker[w].exec \in controllers
  BY DEF RunsInv, RunOk, Owning, Registered
<1>2. ControllersInv => \A e \in controllers \ faulted : \E w \in Worker : Owns(w, e)
  BY DEF ControllersInv
<1>3. QueueInv => RegistryMatchesRuns
  BY <1>1, <1>2, Zenon DEF QueueInv, HoldersInv, RegistryMatchesRuns
<1> QED
  BY <1>3, QueueInvariance, PTL

(* Whatever the rows were when the process died, and however often it died  *)
(* while it recovered them, the queue opens on a table without unfinished   *)
(* rows, those apart that the database refused to update.                   *)
LEMMA OnlyRecovered ==
    ASSUME TypeOK, QueueInv, [Next]_vars, server = "recovering", server' = "up"
    PROVE  Recovered
<1>1. ~Serving /\ server' # server
  BY DEF Serving
<1>2. ASSUME NEW w \in Worker, RunStep(w)
      PROVE  FALSE
  BY <1>1, <1>2 DEF RunStep, Register, Work, Retention, Unregister, Finalize, TriggerNext,
                RegisterRestore, WriteRestore, EndRestore, StartTask, FinishTask, At
<1>3. ASSUME NEW e \in Exec, Request(e) \/ Recover(e)
      PROVE  FALSE
  BY <1>1, <1>3 DEF Request, Enqueue, StartRestore, CreateTask, CancelRead, Recover
<1>4. ASSUME NEW p \in Pass, NEW e \in Exec, NEW w \in Worker, Claim(p, e, w)
      PROVE  FALSE
  BY <1>1, <1>4 DEF Claim
<1>5. ~(Exit \/ Crash \/ Boot) /\ ~UNCHANGED vars
  BY <1>1 DEF Exit, Crash, Boot, vars
<1> QED
  BY <1>1, <1>2, <1>3, <1>4, <1>5, OutsideSteps DEF Next, Request, PassStep, PassOnly, ShutdownSteps

THEOREM StartsClean == Spec => CleanStart
<1>1. ASSUME QueueInv, [Next]_vars, server = "recovering", server' = "up"
      PROVE  \A e \in Exec \ faulted : status[e] \notin Active
  <2>1. TypeOK /\ RecoverInv
    BY <1>1 DEF QueueInv, IInv, HoldersInv
  <2>2. doomed = {}
    BY <1>1, <2>1, OnlyRecovered DEF Recovered
  <2> QED
    BY <1>1, <2>1, <2>2 DEF RecoverInv
<1> QED
  BY <1>1, QueueInvariance, PTL DEF Spec, CleanStart

(* Only the queue's claim makes a Pending row of a backup Running. *)
LEMMA OnlyClaimed ==
    ASSUME QueueInv, [Next]_vars, NEW e \in Backups,
           status[e] = "Pending", status'[e] = "Running"
    PROVE  \E p \in Pass, w \in Worker : Claim(p, e, w)
<1>a. TypeOK /\ RunsInv /\ ControllersInv /\ KnownRowsExist /\ IInv
  BY DEF QueueInv, IInv, HoldersInv
<1>b. e \in Exec /\ e \notin Tasks /\ status'[e] # status[e]
  BY KindsAssumption DEF Exec
<1>1. ASSUME NEW w \in Worker, RunStep(w)
      PROVE  FALSE
  <2>1. RunEffect(w)
    BY <1>1, <1>a, RunHasEffect
  <2>2. worker[w].exec = e
    BY <1>b, <2>1 DEF RunEffect
  <2>3. ~Owns(w, e)
    BY <1>a, <1>b DEF IInv, OwnersInv, OwnedRowsStarted, NotStarted
  <2>4. worker[w].pc \in {"idle", "taskCreated", "taskLost"}
    BY <2>2, <2>3 DEF Owns
  <2>5. StartTask(w) \/ FinishTask(w)
    BY <1>1, <2>4 DEF RunStep, Register, Work, Retention, Unregister, Finalize, TriggerNext,
                      RegisterRestore, WriteRestore, EndRestore, At
  <2>6. worker[w].pc # "taskCreated"
    BY <1>a, <1>b, <2>2 DEF RunsInv, RunOk
  <2>7. FinishTask(w)
    BY <2>5, <2>6 DEF StartTask, At
  <2>8. KeepsRun(w)
    BY <1>b, <2>1, <2>2 DEF RunEffect
  <2>9. worker'[w].pc = "idle"
    BY <1>a, <2>7, FreeFacts DEF FinishTask
  <2> QED
    BY <2>8, <2>9 DEF KeepsRun, Owning
<1>2. ASSUME NEW d \in Exec, NEW w \in Worker, StartRestore(d, w) \/ CreateTask(d, w)
      PROVE  FALSE
  <2>1. status[d] = "Absent" /\ \A c \in Exec : c # d => status'[c] = status[c]
    BY <1>2, <1>a DEF StartRestore, CreateTask, SetStatus, TypeOK
  <2> QED
    BY <1>b, <2>1
<1>3. ASSUME NEW p \in Pass, NEW d \in Exec, NEW w \in Worker, Claim(p, d, w)
      PROVE  d = e
  BY <1>3, <1>a, <1>b DEF Claim, TypeOK
<1>4. ~(Exit \/ Crash \/ Boot \/ Recovered) /\ ~UNCHANGED vars
  BY <1>b DEF Exit, Crash, Boot, Recovered, LoseMemory, vars
<1>5. ASSUME NEW d \in Exec, Recover(d)
      PROVE  FALSE
  BY <1>5, <1>a, <1>b DEF Recover, SetStatus, TypeOK
<1>6. ~OutsideEffect
  BY <1>b DEF OutsideEffect
<1> QED
  BY <1>a, <1>1, <1>2, <1>3, <1>4, <1>5, <1>6, OutsideSteps DEF Next, Request, PassStep, PassOnly, ShutdownSteps

(* First in, first out: whichever passes selected rows at the same time and *)
(* however their claims interleave, a backup is claimed only when nothing   *)
(* that was queued before it still waits, or only what the database has     *)
(* just refused to the pass that claims.                                    *)
THEOREM FirstInFirstOut == Spec => ClaimsInOrder
<1>1. ASSUME QueueInv, [Next]_vars, NEW e \in Backups,
             status[e] = "Pending", status'[e] = "Running",
             NEW d \in InState("Pending"), Older(d, e)
      PROVE  \E p \in Pass : d \in pass[p].refused /\ e \in pass[p].picks
  <2>1. PICK p \in Pass, w \in Worker : Claim(p, e, w)
    BY <1>1, OnlyClaimed
  <2>2. e \in pass[p].picks /\ \A c \in pass[p].picks : ~Older(c, e)
    BY <2>1 DEF Claim, NextPick
  <2>3. PicksOldest /\ d \in Exec /\ status[d] = "Pending"
    BY <1>1 DEF QueueInv, OrderInv, InState
  <2>4. d \in pass[p].picks \cup pass[p].refused
    BY <1>1, <2>2, <2>3 DEF PicksOldest
  <2> QED
    BY <1>1, <2>2, <2>4
<1>2. QueueInv /\ [Next]_vars =>
        (\A e \in Backups : status[e] = "Pending" /\ status'[e] = "Running"
            => \A d \in InState("Pending") : Older(d, e)
                  => \E p \in Pass : d \in pass[p].refused /\ e \in pass[p].picks)
  BY <1>1
<1> QED
  BY <1>2, QueueInvariance, PTL DEF Spec, ClaimsInOrder

-----------------------------------------------------------------------------
(* The execution queue implements the ledger: with every request, cancel,   *)
(* watchdog, shutdown, crash and recovery, a row is queued or started once, *)
(* started at most once, closed once, and never goes back.                  *)
THEOREM ImplementsLedger == Spec => FollowsLifecycle
<1>1. Init => Ledger!Init
  <2> SUFFICES ASSUME Init
               PROVE  Ledger!Init
    OBVIOUS
  <2>1. Phases = [e \in Exec |-> "new"]
    BY DEF Init, Phases, PhaseOf
  <2> QED
    BY <2>1, Zenon DEF Ledger!Init, Phases, PhaseOf
<1>2. QueueInv /\ [Next]_vars => Ledger!Next
  <2> SUFFICES ASSUME QueueInv, [Next]_vars
               PROVE  Ledger!Next
    OBVIOUS
  <2>1. TypeOK /\ TypeOK' /\ RowMove
    BY QueueInvNext DEF QueueInv, IInv
  <2> QED
    BY <2>1, LedgerMove
<1> QED
  BY <1>1, <1>2, QueueInvariance, PTL DEF Spec, FollowsLifecycle, Ledger!Spec

=============================================================================
