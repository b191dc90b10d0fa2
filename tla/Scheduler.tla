------------------------------ MODULE Scheduler ------------------------------
(***************************************************************************)
(* BackupScheduler: one cron timer per enabled job and system task. Whoever *)
(* changes a schedule writes the database and then calls refresh() without *)
(* waiting for it; refresh() stops every timer and builds them again from  *)
(* what it reads, one await after another, while others go on writing.     *)
(***************************************************************************)
EXTENDS Naturals, FiniteSets

CONSTANTS
    Job,
    SystemTask,
    Schedule,   \* cron expressions
    Refresh,    \* activations of refresh()
    MaxEdits,   \* bound: changes of the tables
    MaxErrors   \* bound: database queries that fail

ASSUME SchedulerAssumption ==
    /\ MaxEdits \in Nat /\ MaxErrors \in Nat
    /\ "off" \notin Schedule
    /\ Job \cap SystemTask = {}

VARIABLES
    table,          \* what the database says: a schedule, or "off"
    onStartup,      \* system tasks with "run on startup"
    tasks,          \* the map of cron timers, "off" where it has none
    ghosts,         \* timers that tick and are no longer in the map
    refreshing,
    refreshQueued,
    refresh,        \* what each activation is doing
    due,            \* refresh() calls that their callers still have to make
    armed,          \* startup timers per system task
    failed,         \* entries that could not be read since the last refresh() or edit
    stopped,        \* shutdown has called stopAll()
    edits,
    errors

timers == <<tasks, ghosts, armed>>
database == <<table, onStartup, edits>>
schedulerVars == <<database, timers, refreshing, refreshQueued, refresh, due,
                   failed, stopped, errors>>

Entry == Job \cup SystemTask
Setting == Schedule \cup {"off"}

(* An activation: where it is, what it read, and the system tasks to come. *)
Asleep == [at |-> "away", rows |-> [e \in Entry |-> "off"], todo |-> {}, task |-> {}]
Places == {"away", "immediate", "timezone", "jobs", "rows", "tasks", "row", "startup", "over"}
Activation == [at : Places, rows : [Entry -> Setting],
               todo : SUBSET SystemTask, task : SUBSET SystemTask]

SchedulerTypeOK ==
    /\ table \in [Entry -> Setting]
    /\ onStartup \subseteq SystemTask
    /\ tasks \in [Entry -> Setting]
    /\ ghosts \subseteq Entry \X Schedule
    /\ refreshing \in BOOLEAN
    /\ refreshQueued \in BOOLEAN
    /\ refresh \in [Refresh -> Activation]
    /\ due \in 0 .. MaxEdits + 1
    /\ armed \in [SystemTask -> 0 .. MaxEdits + 1]
    /\ failed \subseteq Entry
    /\ stopped \in BOOLEAN
    /\ edits \in 0 .. MaxEdits
    /\ errors \in 0 .. MaxErrors

(* instrumentation.ts calls init(), which refreshes. *)
SchedulerInit ==
    /\ table \in [Entry -> Setting]
    /\ onStartup \in SUBSET SystemTask
    /\ tasks = [e \in Entry |-> "off"]
    /\ ghosts = {}
    /\ refreshing = FALSE
    /\ refreshQueued = FALSE
    /\ refresh = [r \in Refresh |-> Asleep]
    /\ due = 1
    /\ armed = [t \in SystemTask |-> 0]
    /\ failed = {}
    /\ stopped = FALSE
    /\ edits = 0
    /\ errors = 0

-----------------------------------------------------------------------------
(* createJob, updateJob, deleteJobs, setJobsEnabled, cloneJob, and the      *)
(* preset that several jobs follow: the write comes before the refresh().   *)
EditJobs(chosen, setting) ==
    /\ edits < MaxEdits
    /\ edits' = edits + 1
    /\ table' = [e \in Entry |-> IF e \in chosen THEN setting ELSE table[e]]
    /\ due' = due + 1
    /\ failed' = {}
    /\ UNCHANGED <<onStartup, timers, refreshing, refreshQueued, refresh, stopped, errors>>

(* The settings of a system task are rows of their own. *)
EditTask(t, setting) ==
    /\ edits < MaxEdits
    /\ edits' = edits + 1
    /\ table' = [table EXCEPT ![t] = setting]
    /\ due' = due + 1
    /\ failed' = {}
    /\ UNCHANGED <<onStartup, timers, refreshing, refreshQueued, refresh, stopped, errors>>

EditStartup(t) ==
    /\ edits < MaxEdits
    /\ edits' = edits + 1
    /\ onStartup' = (onStartup \cup {t}) \ (onStartup \cap {t})
    /\ due' = due + 1
    /\ failed' = {}
    /\ UNCHANGED <<table, timers, refreshing, refreshQueued, refresh, stopped, errors>>

-----------------------------------------------------------------------------
stopAll == tasks' = [e \in Entry |-> "off"]

(* cron.schedule() and tasks.set(): a timer set over another one ticks on. *)
scheduled(some, rows) ==
    /\ tasks' = [e \in Entry |-> IF e \in some /\ rows[e] # "off" THEN rows[e] ELSE tasks[e]]
    /\ ghosts' = ghosts \cup {<<e, tasks[e]>> : e \in {x \in some : rows[x] # "off" /\ tasks[x] # "off"}}

At(r, place) == [refresh EXCEPT ![r].at = place]
Stopping(r) == /\ refreshing' = TRUE
               /\ refreshQueued' = FALSE
               /\ refresh' = [refresh EXCEPT ![r] = [Asleep EXCEPT !.at = "timezone"]]
               /\ failed' = {}
               /\ stopAll

(* With no guard against a second refresh. *)
beginUnguarded(r) == Stopping(r)

(* With a call during a refresh that is taken as done. *)
beginOrForget(r) ==
    IF refreshing
    THEN refresh' = [refresh EXCEPT ![r] = Asleep] /\ UNCHANGED <<refreshing, refreshQueued, failed, tasks>>
    ELSE Stopping(r)

begin(r) ==
    IF refreshing
    THEN /\ refreshQueued' = TRUE
         /\ refresh' = [refresh EXCEPT ![r] = Asleep]
         /\ UNCHANGED <<refreshing, failed, tasks>>
    ELSE Stopping(r)

CallRefresh(r) ==
    /\ due > 0
    /\ refresh[r].at = "away"
    /\ due' = due - 1
    /\ begin(r)
    /\ UNCHANGED <<database, ghosts, armed, stopped, errors>>

Immediate(r) ==
    /\ refresh[r].at = "immediate"
    /\ begin(r)
    /\ UNCHANGED <<database, ghosts, armed, due, stopped, errors>>

ReadTimezone(r) ==
    /\ refresh[r].at = "timezone"
    /\ refresh' = At(r, "jobs")
    /\ UNCHANGED <<database, timers, refreshing, refreshQueued, due, failed, stopped, errors>>

(* The rows are as old as the query when they arrive. *)
FindJobs(r) ==
    /\ refresh[r].at = "jobs"
    /\ refresh' = [refresh EXCEPT ![r] = [Asleep EXCEPT !.at = "rows", !.rows = table, !.todo = SystemTask]]
    /\ UNCHANGED <<database, timers, refreshing, refreshQueued, due, failed, stopped, errors>>

ScheduleJobs(r) ==
    /\ refresh[r].at = "rows"
    /\ scheduled(Job, refresh[r].rows)
    /\ refresh' = At(r, "tasks")
    /\ UNCHANGED <<database, armed, refreshing, refreshQueued, due, failed, stopped, errors>>

(* With a task that stays on the list. *)
ReadTaskAgain(r, t) ==
    /\ refresh[r].at = "tasks"
    /\ t \in refresh[r].todo
    /\ refresh' = [refresh EXCEPT ![r].at = "row", ![r].rows[t] = table[t], ![r].task = {t}]
    /\ UNCHANGED <<database, timers, refreshing, refreshQueued, due, failed, stopped, errors>>

(* getTaskEnabled and getTaskConfig: one system task after the other. *)
ReadTask(r, t) ==
    /\ refresh[r].at = "tasks"
    /\ t \in refresh[r].todo
    /\ refresh' = [refresh EXCEPT ![r].at = IF table[t] = "off" THEN "tasks" ELSE "row",
                                  ![r].rows[t] = table[t],
                                  ![r].todo = @ \ {t},
                                  ![r].task = {t}]
    /\ UNCHANGED <<database, timers, refreshing, refreshQueued, due, failed, stopped, errors>>

ScheduleTask(r) ==
    /\ refresh[r].at = "row"
    /\ scheduled(refresh[r].task, refresh[r].rows)
    /\ refresh' = At(r, "startup")
    /\ UNCHANGED <<database, armed, refreshing, refreshQueued, due, failed, stopped, errors>>

(* Each refresh arms the startup run again, whatever it is called for. *)
ReadStartup(r) ==
    /\ refresh[r].at = "startup"
    /\ armed' = [t \in SystemTask |-> IF t \in refresh[r].task \cap onStartup
                                     THEN armed[t] + 1 ELSE armed[t]]
    /\ refresh' = At(r, "tasks")
    /\ UNCHANGED <<database, tasks, ghosts, refreshing, refreshQueued, due, failed, stopped, errors>>

(* Ten seconds later: runTask(), without another look at the settings. *)
StartupRun(t) ==
    /\ armed[t] > 0
    /\ armed' = [armed EXCEPT ![t] = @ - 1]
    /\ UNCHANGED <<database, tasks, ghosts, refreshing, refreshQueued, refresh, due,
                   failed, stopped, errors>>

(* The timezone or the jobs cannot be read: stopAll() stays all it did. *)
QueryFails(r) ==
    /\ refresh[r].at \in {"timezone", "jobs"}
    /\ errors < MaxErrors
    /\ errors' = errors + 1
    /\ refresh' = At(r, "over")
    /\ failed' = Entry
    /\ UNCHANGED <<database, timers, refreshing, refreshQueued, due, stopped>>

(* A system task that cannot be read is passed over. *)
TaskFails(r, t) ==
    /\ refresh[r].at = "tasks"
    /\ t \in refresh[r].todo
    /\ errors < MaxErrors
    /\ errors' = errors + 1
    /\ refresh' = [refresh EXCEPT ![r].todo = @ \ {t}]
    /\ failed' = failed \cup {t}
    /\ UNCHANGED <<database, timers, refreshing, refreshQueued, due, stopped>>

(* With no finally: after an error the guard stays up. *)
releaseOnSuccess(r) ==
    /\ refreshing' = (failed = Entry)
    /\ refreshQueued' = (refreshQueued /\ failed = Entry)
    /\ refresh' = [refresh EXCEPT ![r] =
                      [Asleep EXCEPT !.at = IF refreshQueued /\ failed # Entry
                                            THEN "immediate" ELSE "away"]]

(* finally: one more refresh for all that were asked for meanwhile. *)
release(r) ==
    /\ refreshing' = FALSE
    /\ refreshQueued' = FALSE
    /\ refresh' = [refresh EXCEPT ![r] =
                      [Asleep EXCEPT !.at = IF refreshQueued THEN "immediate" ELSE "away"]]

EndRefresh(r) ==
    /\ \/ refresh[r].at = "over"
       \/ refresh[r].at = "tasks" /\ refresh[r].todo = {}
    /\ release(r)
    /\ UNCHANGED <<database, timers, due, failed, stopped, errors>>

(* performShutdown: a refresh that is under way goes on. *)
Shutdown ==
    /\ ~stopped
    /\ stopped' = TRUE
    /\ stopAll
    /\ UNCHANGED <<database, ghosts, armed, refreshing, refreshQueued, refresh, due,
                   failed, errors>>

-----------------------------------------------------------------------------
RefreshStep(r) ==
    \/ Immediate(r) \/ ReadTimezone(r) \/ FindJobs(r) \/ ScheduleJobs(r)
    \/ \E t \in SystemTask : ReadTask(r, t)
    \/ ScheduleTask(r) \/ ReadStartup(r) \/ EndRefresh(r)

SchedulerNext ==
    \/ \E chosen \in SUBSET Job, setting \in Setting : EditJobs(chosen, setting)
    \/ \E t \in SystemTask : EditStartup(t) \/ StartupRun(t)
    \/ \E t \in SystemTask, setting \in Setting : EditTask(t, setting)
    \/ \E r \in Refresh : \/ CallRefresh(r) \/ RefreshStep(r) \/ QueryFails(r)
                          \/ \E t \in SystemTask : TaskFails(r, t)
    \/ Shutdown

(* Awaits and immediates return; a caller that wrote goes on to refresh().  *)
SchedulerFairness ==
    /\ WF_schedulerVars(\E r \in Refresh : CallRefresh(r))
    /\ \A r \in Refresh : WF_schedulerVars(RefreshStep(r))

SchedulerSpec == SchedulerInit /\ [][SchedulerNext]_schedulerVars /\ SchedulerFairness

-----------------------------------------------------------------------------
(* A timer that leaves the map is stopped first: no job fires twice because *)
(* two refreshes built the timers at the same time (scheduler.ts, "Guard    *)
(* against concurrent refresh calls").                                      *)
NoGhostTimers == ghosts = {}

(* When nobody refreshes and nobody is about to, the timers are those the   *)
(* tables ask for, however the writes fell between the reads of a refresh;  *)
(* what the last refresh could not read has no timer at all.                *)
TimersFollowTables ==
    (due = 0 /\ ~stopped /\ \A r \in Refresh : refresh[r].at = "away")
        => \A e \in Entry : tasks[e] = IF e \in failed THEN "off" ELSE table[e]

(* The last change of a schedule takes effect without a restart: once no    *)
(* more are made the timers come to the tables and stay there, whatever     *)
(* refresh failed before; an error after the last change, or a shutdown, is *)
(* the one way out.                                                         *)
LastEditTakesEffect ==
    <>[](stopped \/ \A e \in Entry : e \in failed \/ tasks[e] = table[e])

=============================================================================
