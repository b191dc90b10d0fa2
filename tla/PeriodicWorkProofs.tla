------------------------- MODULE PeriodicWorkProofs -------------------------
(***************************************************************************)
(* That two refreshes never build timers at the same time, that the timers *)
(* are those the tables ask for once nobody refreshes, and how many startup *)
(* runs can be armed: for any jobs, schedules, edits, failing queries and   *)
(* number of refresh() calls. Then the types of the four parts together.    *)
(***************************************************************************)
EXTENDS MCPeriodicWork, FiniteSetTheorems, TLAPS

(* What the argument needs of the types; the bounds of counters are left out. *)
Types ==
    /\ table \in [Entry -> Setting]
    /\ tasks \in [Entry -> Setting]
    /\ refresh \in [Refresh -> Activation]
    /\ failed \subseteq Entry
    /\ due \in Nat
    /\ refreshing \in BOOLEAN
    /\ refreshQueued \in BOOLEAN
    /\ stopped \in BOOLEAN

Active(r) == refresh[r].at \notin {"away", "immediate"}

(* The guard is up exactly while one activation is past it. *)
OneRefresh ==
    /\ \A r \in Refresh : Active(r) => refreshing
    /\ \A r, q \in Refresh : Active(r) /\ Active(q) => r = q
    /\ refreshing => \E r \in Refresh : Active(r)
    /\ refreshQueued => refreshing

(* Nobody owes the scheduler another look at the tables. *)
Calm ==
    /\ due = 0
    /\ ~refreshQueued
    /\ ~stopped
    /\ \A r \in Refresh : refresh[r].at # "immediate"

Right(e) == tasks[e] = IF e \in failed THEN "off" ELSE table[e]

(* The system tasks that activation r has still to schedule. *)
Coming(r) ==
    {t \in SystemTask : \/ refresh[r].at # "over" /\ t \in refresh[r].todo
                        \/ refresh[r].at = "row" /\ t \in refresh[r].task}

(* What an activation past the guard may rely on at each of its awaits. *)
Stage(r) ==
    /\ refresh[r].at \in {"timezone", "jobs", "rows"}
          => failed = {} /\ \A e \in Entry : tasks[e] = "off"
    /\ refresh[r].at \in {"tasks", "row", "startup"}
          => \A t \in Coming(r) : tasks[t] = "off" /\ t \notin failed
    /\ refresh[r].at = "row" => refresh[r].task \cap refresh[r].todo = {}
    /\ refresh[r].at = "rows" => refresh[r].todo = SystemTask
    /\ refresh[r].at = "rows" /\ Calm => \A j \in Job : refresh[r].rows[j] = table[j]
    /\ refresh[r].at = "row" /\ Calm
          => \A t \in refresh[r].task : refresh[r].rows[t] = table[t]
    /\ refresh[r].at \in {"tasks", "row", "startup", "over"} /\ Calm
          => \A e \in Entry \ Coming(r) : Right(e)

Stages == \A r \in Refresh : Active(r) => Stage(r)

Settled == ~refreshing /\ Calm => \A e \in Entry : Right(e)

IInv == Types /\ OneRefresh /\ Stages /\ Settled /\ NoGhostTimers

-----------------------------------------------------------------------------
(* An activation past the guard goes on: what is left to show is its stage. *)
LEMMA ActiveStep ==
    ASSUME IInv, NEW r \in Refresh, Active(r), Active(r)',
           \A q \in Refresh : q # r => refresh'[q] = refresh[q],
           refreshing' = refreshing, refreshQueued' = refreshQueued, Stage(r)'
    PROVE  OneRefresh' /\ Stages' /\ Settled'
<1>1. refreshing /\ refreshing' /\ \A q \in Refresh : Active(q)' => q = r
  BY DEF IInv, OneRefresh, Active
<1> QED BY <1>1 DEF OneRefresh, Stages, Settled

(* Nor does such a step make the scheduler calm. *)
LEMMA CalmBefore ==
    ASSUME NEW r \in Refresh, Active(r),
           \A q \in Refresh : q # r => refresh'[q] = refresh[q],
           due' = due, refreshQueued' = refreshQueued, stopped' = stopped, Calm'
    PROVE  Calm
  BY DEF Calm, Active

LEMMA AsleepType ==
    ASSUME NEW place \in Places
    PROVE  [Asleep EXCEPT !.at = place] \in Activation /\ Asleep \in Activation
  BY DEF Asleep, Activation, Places, Setting

(* Moving activation r to another place. *)
LEMMA AtMoves ==
    ASSUME Types, NEW r \in Refresh, NEW place \in Places, refresh' = At(r, place)
    PROVE  /\ refresh' \in [Refresh -> Activation]
           /\ refresh'[r].at = place
           /\ refresh'[r].rows = refresh[r].rows
           /\ refresh'[r].todo = refresh[r].todo
           /\ refresh'[r].task = refresh[r].task
           /\ \A q \in Refresh : q # r => refresh'[q] = refresh[q]
  BY DEF Types, At, Activation

LEMMA InitIInv == SchedulerInit => IInv
<1> SUFFICES ASSUME SchedulerInit PROVE IInv
  OBVIOUS
<1> USE DEF SchedulerInit
<1>1. Types
  <2>1. Asleep \in Activation
    BY AsleepType DEF Places
  <2> QED BY <2>1 DEF Types, Setting
<1>2. \A r \in Refresh : ~Active(r)
  BY DEF Active, Asleep
<1> QED BY <1>1, <1>2 DEF IInv, OneRefresh, Stages, Settled, Calm, NoGhostTimers

(* An edit is followed by a refresh(): nothing is calm for the time being. *)
LEMMA EditIInv ==
    ASSUME IInv, table' \in [Entry -> Setting], due' = due + 1, failed' = {},
           UNCHANGED <<timers, refreshing, refreshQueued, refresh, stopped>>
    PROVE  IInv'
<1> USE DEF IInv
<1>1. Types'
  BY DEF Types, timers
<1>2. ~Calm'
  BY DEF Calm, Types
<1>3. OneRefresh' /\ NoGhostTimers'
  BY DEF OneRefresh, Active, NoGhostTimers, timers
<1>4. Stages'
  <2> SUFFICES ASSUME NEW r \in Refresh, Active(r)' PROVE Stage(r)'
    BY DEF Stages
  <2>1. Stage(r)
    BY DEF Stages, Active
  <2>2. Coming(r)' = Coming(r)
    BY DEF Coming
  <2> QED BY <1>2, <2>1, <2>2 DEF Stage, timers
<1> QED BY <1>1, <1>2, <1>3, <1>4 DEF Settled

(* A call of refresh() notes that it was made, or stops every timer. *)
LEMMA BeginIInv ==
    ASSUME IInv, NEW r \in Refresh, ~Active(r), begin(r), due' \in Nat,
           UNCHANGED <<table, ghosts, stopped>>
    PROVE  IInv'
<1> USE DEF IInv
<1>1. CASE refreshing
  <2>1. /\ refreshQueued' = TRUE /\ refresh' = [refresh EXCEPT ![r] = Asleep]
        /\ UNCHANGED <<refreshing, failed, tasks>>
    BY <1>1 DEF begin
  <2>2. /\ refresh' \in [Refresh -> Activation] /\ refresh'[r].at = "away"
        /\ \A q \in Refresh : q # r => refresh'[q] = refresh[q]
    BY <2>1, AsleepType DEF Types, Places, Asleep
  <2>3. ~Calm'
    BY <2>1 DEF Calm
  <2>4. Types'
    BY <2>1, <2>2 DEF Types
  <2>5. \A q \in Refresh : (Active(q)' <=> Active(q)) /\ (Active(q)' => q # r)
    BY <2>2 DEF Active
  <2>6. OneRefresh'
    BY <1>1, <2>1, <2>5 DEF OneRefresh
  <2>7. Stages'
    <3> SUFFICES ASSUME NEW q \in Refresh, Active(q)' PROVE Stage(q)'
      BY DEF Stages
    <3>1. Stage(q) /\ refresh'[q] = refresh[q]
      BY <2>2, <2>5 DEF Stages
    <3>2. Coming(q)' = Coming(q)
      BY <3>1 DEF Coming
    <3> QED BY <2>1, <2>3, <3>1, <3>2 DEF Stage
  <2> QED BY <2>1, <2>3, <2>4, <2>6, <2>7 DEF Settled, NoGhostTimers
<1>2. CASE ~refreshing
  <2>1. /\ refreshing' = TRUE /\ refreshQueued' = FALSE /\ failed' = {}
        /\ refresh' = [refresh EXCEPT ![r] = [Asleep EXCEPT !.at = "timezone"]]
        /\ tasks' = [e \in Entry |-> "off"]
    BY <1>2 DEF begin, Stopping, stopAll
  <2>2. /\ refresh' \in [Refresh -> Activation] /\ refresh'[r].at = "timezone"
        /\ \A q \in Refresh : q # r => refresh'[q] = refresh[q]
    <3>1. [Asleep EXCEPT !.at = "timezone"] \in Activation
      BY AsleepType DEF Places
    <3>2. [Asleep EXCEPT !.at = "timezone"].at = "timezone"
      BY DEF Asleep
    <3> QED BY <2>1, <3>1, <3>2 DEF Types
  <2>3. Types'
    BY <2>1, <2>2 DEF Types, Setting
  <2>4. \A q \in Refresh : Active(q)' <=> q = r
    BY <1>2, <2>2 DEF Active, OneRefresh
  <2>5. OneRefresh'
    BY <2>1, <2>4 DEF OneRefresh
  <2>6. Stage(r)'
    BY <2>1, <2>2 DEF Stage
  <2> QED BY <2>1, <2>3, <2>4, <2>5, <2>6 DEF Stages, Settled, NoGhostTimers
<1> QED BY <1>1, <1>2

LEMMA ReadTimezoneIInv == ASSUME IInv, NEW r \in Refresh, ReadTimezone(r) PROVE IInv'
<1> USE DEF IInv
<1>1. /\ refresh[r].at = "timezone" /\ refresh' = At(r, "jobs")
      /\ UNCHANGED <<table, tasks, ghosts, failed, due, refreshing, refreshQueued, stopped>>
  BY DEF ReadTimezone, database, timers
<1>2. /\ refresh' \in [Refresh -> Activation] /\ refresh'[r].at = "jobs"
      /\ \A q \in Refresh : q # r => refresh'[q] = refresh[q]
  BY <1>1, AtMoves DEF Places
<1>3. Active(r) /\ Active(r)'
  BY <1>1, <1>2 DEF Active
<1>4. Stage(r)'
  BY <1>1, <1>2, <1>3 DEF Stages, Stage
<1>5. OneRefresh' /\ Stages' /\ Settled'
  BY <1>1, <1>2, <1>3, <1>4, ActiveStep
<1> QED BY <1>1, <1>2, <1>5 DEF Types, NoGhostTimers

LEMMA FindJobsIInv == ASSUME IInv, NEW r \in Refresh, FindJobs(r) PROVE IInv'
<1> USE DEF IInv
<1> DEFINE arrived == [Asleep EXCEPT !.at = "rows", !.rows = table, !.todo = SystemTask]
<1>1. /\ refresh[r].at = "jobs" /\ refresh' = [refresh EXCEPT ![r] = arrived]
      /\ UNCHANGED <<table, tasks, ghosts, failed, due, refreshing, refreshQueued, stopped>>
  BY DEF FindJobs, database, timers
<1>2. /\ arrived \in Activation /\ arrived.at = "rows" /\ arrived.rows = table
      /\ arrived.todo = SystemTask
  BY DEF Asleep, Activation, Places, Types
<1>3. /\ refresh' \in [Refresh -> Activation]
      /\ refresh'[r].at = "rows" /\ refresh'[r].rows = table
      /\ refresh'[r].todo = SystemTask
      /\ \A q \in Refresh : q # r => refresh'[q] = refresh[q]
  BY <1>1, <1>2 DEF Types
<1>4. Active(r) /\ Active(r)'
  BY <1>1, <1>3 DEF Active
<1>5. Stage(r)'
  BY <1>1, <1>3, <1>4 DEF Stages, Stage
<1>6. OneRefresh' /\ Stages' /\ Settled'
  BY <1>1, <1>3, <1>4, <1>5, ActiveStep
<1> QED BY <1>1, <1>3, <1>6 DEF Types, NoGhostTimers

LEMMA ScheduleJobsIInv == ASSUME IInv, NEW r \in Refresh, ScheduleJobs(r) PROVE IInv'
<1> USE DEF IInv
<1> DEFINE rows == refresh[r].rows
<1>1. /\ refresh[r].at = "rows" /\ refresh' = At(r, "tasks") /\ scheduled(Job, rows)
      /\ UNCHANGED <<table, failed, due, refreshing, refreshQueued, stopped>>
  BY DEF ScheduleJobs, database
<1>2. /\ refresh' \in [Refresh -> Activation] /\ refresh'[r].at = "tasks"
      /\ refresh'[r].todo = refresh[r].todo
      /\ \A q \in Refresh : q # r => refresh'[q] = refresh[q]
  BY <1>1, AtMoves DEF Places
<1>3. Active(r) /\ Active(r)'
  BY <1>1, <1>2 DEF Active
<1>4. /\ failed = {} /\ \A e \in Entry : tasks[e] = "off"
      /\ refresh[r].todo = SystemTask
      /\ Calm => \A j \in Job : rows[j] = table[j]
      /\ rows \in [Entry -> Setting]
  BY <1>1, <1>3 DEF Stages, Stage, Types, Activation
<1>5. /\ \A j \in Job : tasks'[j] = rows[j]
      /\ \A t \in SystemTask : tasks'[t] = "off"
      /\ tasks' \in [Entry -> Setting]
  BY <1>1, <1>4, SchedulerAssumption DEF scheduled, Entry, Setting
<1>6. NoGhostTimers'
  BY <1>1, <1>4 DEF scheduled, NoGhostTimers, Entry
<1>7. Types'
  BY <1>1, <1>2, <1>5 DEF Types
<1>8. Coming(r)' = SystemTask
  BY <1>2, <1>4 DEF Coming
<1>9. Stage(r)'
  <2>1. Calm' => Calm
    BY <1>1, <1>2, <1>3, CalmBefore
  <2>2. Calm' => \A e \in Entry \ Coming(r)' : Right(e)'
    BY <1>1, <1>4, <1>5, <1>8, <2>1 DEF Right, Entry
  <2>3. \A t \in Coming(r)' : tasks'[t] = "off" /\ t \notin failed'
    BY <1>1, <1>4, <1>5, <1>8
  <2> QED BY <1>2, <2>2, <2>3 DEF Stage
<1>10. OneRefresh' /\ Stages' /\ Settled'
  BY <1>1, <1>2, <1>3, <1>9, ActiveStep
<1> QED BY <1>6, <1>7, <1>10

LEMMA ReadTaskIInv ==
    ASSUME IInv, NEW r \in Refresh, NEW t \in SystemTask, ReadTask(r, t) PROVE IInv'
<1> USE DEF IInv
<1> DEFINE place == IF table[t] = "off" THEN "tasks" ELSE "row"
<1>1. /\ refresh[r].at = "tasks" /\ t \in refresh[r].todo
      /\ refresh' = [refresh EXCEPT ![r].at = place, ![r].rows[t] = table[t],
                                    ![r].todo = @ \ {t}, ![r].task = {t}]
      /\ UNCHANGED <<table, tasks, ghosts, failed, due, refreshing, refreshQueued, stopped>>
  BY DEF ReadTask, database, timers
<1>2. /\ refresh[r] \in Activation /\ refresh[r].todo \subseteq SystemTask
      /\ refresh[r].rows \in [Entry -> Setting] /\ t \in Entry /\ table[t] \in Setting
  BY DEF Types, Activation, Entry
<1>3. /\ refresh' \in [Refresh -> Activation] /\ refresh'[r].at = place
      /\ refresh'[r].rows[t] = table[t]
      /\ refresh'[r].todo = refresh[r].todo \ {t} /\ refresh'[r].task = {t}
      /\ \A q \in Refresh : q # r => refresh'[q] = refresh[q]
  BY <1>1, <1>2 DEF Types, Activation, Places
<1>4. Active(r) /\ Active(r)'
  BY <1>1, <1>3 DEF Active
<1>5. Coming(r) = refresh[r].todo
  BY <1>1, <1>2 DEF Coming
<1>6. Coming(r)' = IF table[t] = "off" THEN refresh[r].todo \ {t} ELSE refresh[r].todo
  BY <1>1, <1>2, <1>3 DEF Coming
<1>7. Stage(r)'
  <2>1. Calm' => Calm
    BY <1>1, <1>3, <1>4, CalmBefore
  <2>2. /\ \A x \in Coming(r) : tasks[x] = "off" /\ x \notin failed
        /\ Calm => \A e \in Entry \ Coming(r) : Right(e)
    BY <1>1, <1>4 DEF Stages, Stage
  <2>3. \A x \in Coming(r)' : tasks'[x] = "off" /\ x \notin failed'
    BY <1>1, <1>5, <1>6, <2>2
  <2>4. Calm' => \A e \in Entry \ Coming(r)' : Right(e)'
    BY <1>1, <1>5, <1>6, <2>1, <2>2 DEF Right
  <2> QED BY <1>1, <1>3, <2>3, <2>4 DEF Stage
<1>8. OneRefresh' /\ Stages' /\ Settled'
  BY <1>1, <1>3, <1>4, <1>7, ActiveStep
<1> QED BY <1>1, <1>3, <1>8 DEF Types, NoGhostTimers

LEMMA ScheduleTaskIInv == ASSUME IInv, NEW r \in Refresh, ScheduleTask(r) PROVE IInv'
<1> USE DEF IInv
<1> DEFINE rows == refresh[r].rows
           some == refresh[r].task
<1>1. /\ refresh[r].at = "row" /\ refresh' = At(r, "startup") /\ scheduled(some, rows)
      /\ UNCHANGED <<table, failed, due, refreshing, refreshQueued, stopped>>
  BY DEF ScheduleTask, database
<1>2. /\ refresh' \in [Refresh -> Activation] /\ refresh'[r].at = "startup"
      /\ refresh'[r].todo = refresh[r].todo
      /\ \A q \in Refresh : q # r => refresh'[q] = refresh[q]
  BY <1>1, AtMoves DEF Places
<1>3. Active(r) /\ Active(r)'
  BY <1>1, <1>2 DEF Active
<1>4. /\ rows \in [Entry -> Setting] /\ some \subseteq SystemTask
      /\ refresh[r].todo \subseteq SystemTask
  BY DEF Types, Activation
<1>5. Coming(r) = refresh[r].todo \cup some /\ Coming(r)' = refresh[r].todo
  BY <1>1, <1>2, <1>4 DEF Coming
<1>6. /\ \A x \in Coming(r) : tasks[x] = "off" /\ x \notin failed
      /\ some \cap refresh[r].todo = {}
      /\ Calm => \A x \in some : rows[x] = table[x]
      /\ Calm => \A e \in Entry \ Coming(r) : Right(e)
  BY <1>1, <1>3 DEF Stages, Stage
<1>7. /\ \A x \in some : tasks'[x] = rows[x]
      /\ \A e \in Entry \ some : tasks'[e] = tasks[e]
      /\ tasks' \in [Entry -> Setting]
  BY <1>1, <1>4, <1>5, <1>6 DEF scheduled, Entry, Setting, Types
<1>8. NoGhostTimers'
  BY <1>1, <1>5, <1>6 DEF scheduled, NoGhostTimers
<1>9. Stage(r)'
  <2>1. Calm' => Calm
    BY <1>1, <1>2, <1>3, CalmBefore
  <2>2. \A x \in Coming(r)' : tasks'[x] = "off" /\ x \notin failed'
    BY <1>1, <1>4, <1>5, <1>6, <1>7 DEF Entry
  <2>3. Calm' => \A e \in Entry \ Coming(r)' : Right(e)'
    BY <1>1, <1>5, <1>6, <1>7, <2>1 DEF Right
  <2> QED BY <1>2, <2>2, <2>3 DEF Stage
<1>10. OneRefresh' /\ Stages' /\ Settled'
  BY <1>1, <1>2, <1>3, <1>9, ActiveStep
<1> QED BY <1>1, <1>2, <1>7, <1>8, <1>10 DEF Types

LEMMA ReadStartupIInv == ASSUME IInv, NEW r \in Refresh, ReadStartup(r) PROVE IInv'
<1> USE DEF IInv
<1>1. /\ refresh[r].at = "startup" /\ refresh' = At(r, "tasks")
      /\ UNCHANGED <<table, tasks, ghosts, failed, due, refreshing, refreshQueued, stopped>>
  BY DEF ReadStartup, database
<1>2. /\ refresh' \in [Refresh -> Activation] /\ refresh'[r].at = "tasks"
      /\ refresh'[r].todo = refresh[r].todo
      /\ \A q \in Refresh : q # r => refresh'[q] = refresh[q]
  BY <1>1, AtMoves DEF Places
<1>3. Active(r) /\ Active(r)'
  BY <1>1, <1>2 DEF Active
<1>4. Coming(r)' = Coming(r)
  BY <1>1, <1>2 DEF Coming
<1>5. Calm' => Calm
  BY <1>1, <1>2, <1>3, CalmBefore
<1>6. Stage(r)'
  BY <1>1, <1>2, <1>3, <1>4, <1>5 DEF Stages, Stage, Right
<1>7. OneRefresh' /\ Stages' /\ Settled'
  BY <1>1, <1>2, <1>3, <1>6, ActiveStep
<1> QED BY <1>1, <1>2, <1>7 DEF Types, NoGhostTimers

(* Nothing could be read, and nothing has a timer. *)
LEMMA QueryFailsIInv == ASSUME IInv, NEW r \in Refresh, QueryFails(r) PROVE IInv'
<1> USE DEF IInv
<1>1. /\ refresh[r].at \in {"timezone", "jobs"} /\ refresh' = At(r, "over") /\ failed' = Entry
      /\ UNCHANGED <<table, tasks, ghosts, due, refreshing, refreshQueued, stopped>>
  BY DEF QueryFails, database, timers
<1>2. /\ refresh' \in [Refresh -> Activation] /\ refresh'[r].at = "over"
      /\ \A q \in Refresh : q # r => refresh'[q] = refresh[q]
  BY <1>1, AtMoves DEF Places
<1>3. Active(r) /\ Active(r)'
  BY <1>1, <1>2 DEF Active
<1>4. \A e \in Entry : tasks[e] = "off"
  BY <1>1, <1>3 DEF Stages, Stage
<1>5. \A e \in Entry : Right(e)'
  BY <1>1, <1>4 DEF Right
<1>6. Stage(r)'
  BY <1>2, <1>5 DEF Stage
<1>7. OneRefresh' /\ Stages' /\ Settled'
  BY <1>1, <1>2, <1>3, <1>6, ActiveStep
<1> QED BY <1>1, <1>2, <1>7 DEF Types, NoGhostTimers

LEMMA TaskFailsIInv ==
    ASSUME IInv, NEW r \in Refresh, NEW t \in SystemTask, TaskFails(r, t) PROVE IInv'
<1> USE DEF IInv
<1>1. /\ refresh[r].at = "tasks" /\ t \in refresh[r].todo
      /\ refresh' = [refresh EXCEPT ![r].todo = @ \ {t}] /\ failed' = failed \cup {t}
      /\ UNCHANGED <<table, tasks, ghosts, due, refreshing, refreshQueued, stopped>>
  BY DEF TaskFails, database, timers
<1>2. /\ refresh' \in [Refresh -> Activation] /\ refresh'[r].at = "tasks"
      /\ refresh'[r].todo = refresh[r].todo \ {t}
      /\ \A q \in Refresh : q # r => refresh'[q] = refresh[q]
  BY <1>1 DEF Types, Activation
<1>3. Active(r) /\ Active(r)'
  BY <1>1, <1>2 DEF Active
<1>4. t \in Coming(r) /\ Coming(r)' = Coming(r) \ {t}
  BY <1>1, <1>2 DEF Coming
<1>5. Calm' => Calm
  BY <1>1, <1>2, <1>3, CalmBefore
<1>6. Stage(r)'
  <2>1. /\ \A x \in Coming(r) : tasks[x] = "off" /\ x \notin failed
        /\ Calm => \A e \in Entry \ Coming(r) : Right(e)
    BY <1>1, <1>3 DEF Stages, Stage
  <2>2. \A x \in Coming(r)' : tasks'[x] = "off" /\ x \notin failed'
    BY <1>1, <1>4, <2>1
  <2>3. Calm' => \A e \in Entry \ Coming(r)' : Right(e)'
    BY <1>1, <1>4, <1>5, <2>1 DEF Right
  <2> QED BY <1>2, <2>2, <2>3 DEF Stage
<1>7. OneRefresh' /\ Stages' /\ Settled'
  BY <1>1, <1>2, <1>3, <1>6, ActiveStep
<1> QED BY <1>1, <1>2, <1>7 DEF Types, NoGhostTimers, Entry

(* The end of a refresh with nothing queued leaves the timers as they are, *)
(* and by its stage they are right.                                        *)
LEMMA EndRefreshIInv == ASSUME IInv, NEW r \in Refresh, EndRefresh(r) PROVE IInv'
<1> USE DEF IInv
<1> DEFINE place == IF refreshQueued THEN "immediate" ELSE "away"
<1>1. /\ refresh[r].at \in {"over", "tasks"}
      /\ refresh[r].at = "over" \/ refresh[r].todo = {}
      /\ refreshing' = FALSE /\ refreshQueued' = FALSE
      /\ refresh' = [refresh EXCEPT ![r] = [Asleep EXCEPT !.at = place]]
      /\ UNCHANGED <<table, tasks, ghosts, failed, due, stopped>>
  BY DEF EndRefresh, release, database, timers
<1>2. /\ refresh' \in [Refresh -> Activation] /\ refresh'[r].at = place
      /\ \A q \in Refresh : q # r => refresh'[q] = refresh[q]
  <2>1. [Asleep EXCEPT !.at = place] \in Activation
    BY AsleepType DEF Places
  <2>2. [Asleep EXCEPT !.at = place].at = place
    BY DEF Asleep
  <2> QED BY <1>1, <2>1, <2>2 DEF Types
<1>3. Active(r)
  BY <1>1 DEF Active
<1>4. \A q \in Refresh : ~Active(q)'
  BY <1>2, <1>3 DEF OneRefresh, Active
<1>5. Coming(r) = {}
  BY <1>1 DEF Coming
<1>6. Calm' => Calm
  BY <1>1, <1>2 DEF Calm, Types
<1>7. Settled'
  BY <1>1, <1>3, <1>5, <1>6 DEF Stages, Stage, Settled, Right
<1> QED BY <1>1, <1>2, <1>4, <1>7 DEF Types, OneRefresh, Stages, NoGhostTimers

LEMMA ShutdownIInv == ASSUME IInv, Shutdown PROVE IInv'
<1> USE DEF IInv
<1>1. /\ stopped' = TRUE /\ tasks' = [e \in Entry |-> "off"]
      /\ UNCHANGED <<table, ghosts, refreshing, refreshQueued, refresh, due, failed>>
  BY DEF Shutdown, stopAll, database
<1>2. ~Calm'
  BY <1>1 DEF Calm
<1>3. Stages'
  <2> SUFFICES ASSUME NEW r \in Refresh, Active(r)' PROVE Stage(r)'
    BY DEF Stages
  <2>1. Stage(r) /\ Coming(r)' = Coming(r) /\ Coming(r) \subseteq Entry
    BY <1>1 DEF Stages, Active, Coming, Entry
  <2> QED BY <1>1, <1>2, <2>1 DEF Stage
<1> QED BY <1>1, <1>2, <1>3 DEF Types, Setting, OneRefresh, Active, Settled, NoGhostTimers

(* Steps that touch nothing the invariant speaks of. *)
LEMMA FrameIInv ==
    ASSUME IInv, UNCHANGED <<table, tasks, ghosts, refresh, refreshing, refreshQueued,
                             due, failed, stopped>>
    PROVE  IInv'
  BY DEF IInv, Types, OneRefresh, Active, Stages, Stage, Coming, Calm, Right, Settled,
         NoGhostTimers

LEMMA RefreshStepIInv == ASSUME IInv, NEW r \in Refresh, RefreshStep(r) PROVE IInv'
<1>1. CASE Immediate(r)
  <2>1. /\ ~Active(r) /\ begin(r) /\ due' \in Nat /\ UNCHANGED <<table, ghosts, stopped>>
    BY <1>1 DEF Immediate, Active, IInv, Types, database
  <2> QED BY <2>1, BeginIInv
<1>2. CASE \E t \in SystemTask : ReadTask(r, t)
  BY <1>2, ReadTaskIInv
<1> QED BY <1>1, <1>2, ReadTimezoneIInv, FindJobsIInv, ScheduleJobsIInv, ScheduleTaskIInv,
           ReadStartupIInv, EndRefreshIInv DEF RefreshStep

LEMMA NextIInv == IInv /\ [SchedulerNext]_schedulerVars => IInv'
<1> SUFFICES ASSUME IInv, [SchedulerNext]_schedulerVars PROVE IInv'
  OBVIOUS
<1>1. ASSUME NEW chosen \in SUBSET Job, NEW setting \in Setting, EditJobs(chosen, setting)
      PROVE  IInv'
  <2>1. table' \in [Entry -> Setting]
    BY <1>1 DEF EditJobs, IInv, Types
  <2> QED BY <1>1, <2>1, EditIInv DEF EditJobs
<1>2. ASSUME NEW t \in SystemTask, NEW setting \in Setting, EditTask(t, setting)
      PROVE  IInv'
  <2>1. table' \in [Entry -> Setting]
    BY <1>2 DEF EditTask, IInv, Types
  <2> QED BY <1>2, <2>1, EditIInv DEF EditTask
<1>3. ASSUME NEW t \in SystemTask, EditStartup(t) PROVE IInv'
  <2>1. table' \in [Entry -> Setting]
    BY <1>3 DEF EditStartup, IInv, Types
  <2> QED BY <1>3, <2>1, EditIInv DEF EditStartup
<1>4. ASSUME NEW t \in SystemTask, StartupRun(t) PROVE IInv'
  BY <1>4, FrameIInv DEF StartupRun, database
<1>5. ASSUME NEW r \in Refresh, CallRefresh(r) PROVE IInv'
  <2>1. /\ ~Active(r) /\ begin(r) /\ due' \in Nat /\ UNCHANGED <<table, ghosts, stopped>>
    BY <1>5 DEF CallRefresh, Active, IInv, Types, database
  <2> QED BY <2>1, BeginIInv
<1>6. CASE UNCHANGED schedulerVars
  BY <1>6, FrameIInv DEF schedulerVars, database, timers
<1> QED BY <1>1, <1>2, <1>3, <1>4, <1>5, <1>6, RefreshStepIInv, QueryFailsIInv,
           TaskFailsIInv, ShutdownIInv DEF SchedulerNext

-----------------------------------------------------------------------------
(* The inductive invariant: one refresh at a time, and for each of its      *)
(* awaits which timers are built and how old what it has read may be.       *)
THEOREM SchedulerInvariance == SchedulerSpec => []IInv
  BY InitIInv, NextIInv, PTL DEF SchedulerSpec

(* A timer that leaves the map of refresh() is stopped first: no two        *)
(* activations build timers over each other, so no job has two of them.     *)
THEOREM OneTimerEach == SchedulerSpec => []NoGhostTimers
<1>1. IInv => NoGhostTimers
  BY DEF IInv
<1> QED BY SchedulerInvariance, <1>1, PTL

(* Once no refresh() runs or is owed the timers are those of the tables,    *)
(* however edits fell between the reads: one more refresh is queued for     *)
(* every edit that a running one could have missed.                         *)
THEOREM TimersAreCurrent == SchedulerSpec => []TimersFollowTables
<1>1. IInv => TimersFollowTables
  <2> SUFFICES ASSUME IInv, due = 0, ~stopped, \A r \in Refresh : refresh[r].at = "away"
               PROVE  \A e \in Entry : Right(e)
    BY DEF TimersFollowTables, Right
  <2>1. ~refreshing
    BY DEF IInv, OneRefresh, Active
  <2>2. ~refreshQueued
    BY <2>1 DEF IInv, OneRefresh
  <2>3. Calm
    BY <2>2 DEF Calm
  <2> QED BY <2>1, <2>3 DEF IInv, Settled
<1> QED BY SchedulerInvariance, <1>1, PTL

-----------------------------------------------------------------------------
(* How often a startup run can be armed: each call of refresh() pays for at *)
(* most one activation past the guard, and that arms each task once.        *)
Immediates == {r \in Refresh : refresh[r].at = "immediate"}
Owed == due + Cardinality(Immediates) + (IF refreshQueued THEN 1 ELSE 0)

ToArm(r, t) ==
    \/ refresh[r].at \in {"timezone", "jobs", "rows"}
    \/ refresh[r].at \in {"tasks", "row", "startup"} /\ t \in refresh[r].todo
    \/ refresh[r].at \in {"row", "startup"} /\ t \in refresh[r].task
Arming(t) == IF \E r \in Refresh : ToArm(r, t) THEN 1 ELSE 0

TasksApart ==
    \A r \in Refresh : refresh[r].at \in {"row", "startup"}
                          => refresh[r].task \cap refresh[r].todo = {}

CountTypes ==
    /\ onStartup \subseteq SystemTask
    /\ edits \in 0 .. MaxEdits /\ errors \in 0 .. MaxErrors
    /\ armed \in [SystemTask -> Nat]
    /\ IsFiniteSet(Immediates)

CountInv ==
    /\ CountTypes /\ TasksApart
    /\ Owed <= edits + 1
    /\ \A t \in SystemTask : armed[t] + Owed + Arming(t) <= edits + 1

LEMMA Numbers ==
    ASSUME IInv, CountInv
    PROVE  /\ MaxEdits \in Nat /\ edits \in Nat /\ due \in Nat
           /\ Cardinality(Immediates) \in Nat
           /\ \A t \in SystemTask : armed[t] \in Nat /\ Arming(t) \in {0, 1}
<1>1. Cardinality(Immediates) \in Nat
  BY FS_CardinalityType DEF CountInv, CountTypes
<1>2. MaxEdits \in Nat /\ edits \in Nat /\ due \in Nat /\ \A t \in SystemTask : armed[t] \in Nat
  BY SchedulerAssumption DEF IInv, Types, CountInv, CountTypes
<1>3. \A t \in SystemTask : Arming(t) \in {0, 1}
  BY DEF Arming
<1> QED BY <1>1, <1>2, <1>3

LEMMA SchedulerTyped == IInv /\ CountInv => SchedulerTypeOK
<1> SUFFICES ASSUME IInv, CountInv PROVE SchedulerTypeOK
  OBVIOUS
<1>1. due \in 0 .. MaxEdits + 1
  <2>1. due <= edits + 1 /\ edits <= MaxEdits
    BY Numbers DEF CountInv, CountTypes, Owed
  <2> QED BY <2>1, Numbers
<1>2. armed \in [SystemTask -> 0 .. MaxEdits + 1]
  <2>1. ASSUME NEW t \in SystemTask PROVE armed[t] \in 0 .. MaxEdits + 1
    <3>1. armed[t] + Owed + Arming(t) <= edits + 1 /\ edits <= MaxEdits
      BY DEF CountInv, CountTypes
    <3>2. Owed \in Nat
      BY Numbers DEF Owed
    <3> QED BY <3>1, <3>2, Numbers
  <2> QED BY <2>1 DEF CountInv, CountTypes
<1> QED BY <1>1, <1>2 DEF IInv, Types, NoGhostTimers, CountInv, CountTypes, SchedulerTypeOK

(* A step that makes nobody owe more. *)
LEMMA CountStep ==
    ASSUME IInv, CountInv, CountTypes', TasksApart', edits' = edits,
           Owed' <= Owed, Owed' \in Int,
           \A t \in SystemTask :
              armed'[t] + Owed' + Arming(t)' <= armed[t] + Owed + Arming(t)
    PROVE  CountInv'
<1>1. Owed \in Int
  BY Numbers DEF Owed
<1>2. Owed' <= edits' + 1
  BY <1>1, Numbers DEF CountInv
<1>3. ASSUME NEW t \in SystemTask PROVE armed'[t] + Owed' + Arming(t)' <= edits' + 1
  <2>1. armed[t] + Owed + Arming(t) <= edits + 1
        /\ armed'[t] + Owed' + Arming(t)' <= armed[t] + Owed + Arming(t)
    BY DEF CountInv
  <2>2. armed[t] \in Int /\ Arming(t) \in Int /\ armed'[t] \in Int /\ Arming(t)' \in Int
    BY Numbers DEF CountTypes, Arming
  <2> QED BY <1>1, <2>1, <2>2, Numbers
<1> QED BY <1>2, <1>3 DEF CountInv

(* An await of an activation that arms nothing. *)
LEMMA AwaitCounts ==
    ASSUME IInv, CountInv, NEW r \in Refresh,
           refresh[r].at # "immediate", refresh'[r].at # "immediate",
           \A q \in Refresh : q # r => refresh'[q] = refresh[q],
           \A t \in SystemTask : ToArm(r, t)' => ToArm(r, t),
           refresh'[r].at \in {"row", "startup"} => refresh'[r].task \cap refresh'[r].todo = {},
           errors' \in 0 .. MaxErrors,
           UNCHANGED <<due, refreshQueued, edits, onStartup, armed>>
    PROVE  CountInv'
<1>1. Immediates' = Immediates
  BY DEF Immediates
<1>2. \A t \in SystemTask : (\E q \in Refresh : ToArm(q, t)') => \E q \in Refresh : ToArm(q, t)
  BY DEF ToArm
<1>3. \A t \in SystemTask : Arming(t)' <= Arming(t)
  BY <1>2 DEF Arming
<1>4. Owed' = Owed /\ Owed \in Nat
  BY <1>1, Numbers DEF Owed
<1>5. TasksApart'
  BY DEF CountInv, TasksApart
<1>6. CountTypes'
  BY <1>1 DEF CountInv, CountTypes
<1>7. ASSUME NEW t \in SystemTask
      PROVE  armed'[t] + Owed' + Arming(t)' <= armed[t] + Owed + Arming(t)
  <2>1. Arming(t) \in Nat /\ Arming(t)' \in Nat /\ armed[t] \in Nat
    BY Numbers DEF Arming
  <2> QED BY <1>3, <1>4, <2>1
<1> QED BY <1>4, <1>5, <1>6, <1>7, CountStep

(* A call of refresh() is paid for, by one that was due or by the end of    *)
(* the refresh that ran meanwhile.                                          *)
LEMMA BeginCounts ==
    ASSUME IInv, CountInv, NEW r \in Refresh, refresh[r].at \in {"away", "immediate"}, begin(r),
           due' \in Nat,
           IF refresh[r].at = "away" THEN due = due' + 1 ELSE due' = due,
           UNCHANGED <<edits, onStartup, armed, errors>>
    PROVE  CountInv'
<1> DEFINE paid == due + Cardinality(Immediates)
<1>1. /\ refresh' \in [Refresh -> Activation]
      /\ \A q \in Refresh : q # r => refresh'[q] = refresh[q]
      /\ IF refreshing THEN refresh'[r].at = "away" /\ refreshQueued'
         ELSE refresh'[r].at = "timezone" /\ ~refreshQueued'
  <2>1. CASE refreshing
    <3>1. refreshQueued' = TRUE /\ refresh' = [refresh EXCEPT ![r] = Asleep]
      BY <2>1 DEF begin
    <3> QED BY <2>1, <3>1, AsleepType DEF IInv, Types, Places, Asleep
  <2>2. CASE ~refreshing
    <3>1. /\ refreshQueued' = FALSE
          /\ refresh' = [refresh EXCEPT ![r] = [Asleep EXCEPT !.at = "timezone"]]
      BY <2>2 DEF begin, Stopping
    <3>2. [Asleep EXCEPT !.at = "timezone"] \in Activation
          /\ [Asleep EXCEPT !.at = "timezone"].at = "timezone"
      BY AsleepType DEF Places, Asleep
    <3> QED BY <2>2, <3>1, <3>2 DEF IInv, Types
  <2> QED BY <2>1, <2>2
<1>2. Immediates' = Immediates \ {r}
  BY <1>1 DEF Immediates
<1>3. IsFiniteSet(Immediates') /\ due' + Cardinality(Immediates') = due + Cardinality(Immediates) - 1
      /\ Cardinality(Immediates') \in Nat
  <2>1. IsFiniteSet(Immediates)
    BY DEF CountInv, CountTypes
  <2>2. CASE refresh[r].at = "away"
    <3>1. Immediates' = Immediates
      BY <1>2, <2>2 DEF Immediates
    <3> QED BY <2>1, <2>2, <3>1, Numbers
  <2>3. CASE refresh[r].at = "immediate"
    <3>1. r \in Immediates
      BY <2>3 DEF Immediates
    <3>2. IsFiniteSet(Immediates \ {r}) /\ Cardinality(Immediates \ {r}) = Cardinality(Immediates) - 1
      BY <2>1, <3>1, FS_RemoveElement
    <3>3. Cardinality(Immediates \ {r}) \in Nat
      BY <3>2, FS_CardinalityType
    <3> QED BY <1>2, <2>3, <3>2, <3>3, Numbers
  <2> QED BY <2>2, <2>3
<1>4. CountTypes'
  BY <1>3 DEF CountInv, CountTypes
<1>5. TasksApart'
  BY <1>1 DEF CountInv, TasksApart
<1>6. CASE refreshing
  <2>1. Owed' <= Owed /\ Owed' \in Int /\ Owed \in Int
    BY <1>1, <1>3, <1>6, Numbers DEF Owed
  <2>2. \A t \in SystemTask : \A q \in Refresh : ToArm(q, t)' => ToArm(q, t)
    BY <1>1, <1>6 DEF ToArm
  <2>3. \A t \in SystemTask : Arming(t)' <= Arming(t) /\ Arming(t)' \in Nat
    BY <2>2 DEF Arming
  <2>4. ASSUME NEW t \in SystemTask
        PROVE  armed'[t] + Owed' + Arming(t)' <= armed[t] + Owed + Arming(t)
    BY <2>1, <2>3, Numbers
  <2> QED BY <1>4, <1>5, <2>1, <2>4, CountStep
<1>7. CASE ~refreshing
  <2>1. ~refreshQueued
    BY <1>7 DEF IInv, OneRefresh
  <2>2. Owed' = Owed - 1 /\ Owed' \in Int /\ Owed \in Int
    BY <1>1, <1>3, <1>7, <2>1, Numbers DEF Owed
  <2>3. \A t \in SystemTask : \A q \in Refresh : ~ToArm(q, t)
    BY <1>7 DEF IInv, OneRefresh, Active, ToArm
  <2>4. \A t \in SystemTask : Arming(t) = 0 /\ Arming(t)' \in {0, 1}
    BY <2>3 DEF Arming
  <2>5. ASSUME NEW t \in SystemTask
        PROVE  armed'[t] + Owed' + Arming(t)' <= armed[t] + Owed + Arming(t)
    <3>1. armed'[t] = armed[t] /\ armed[t] \in Nat /\ Arming(t) = 0 /\ Arming(t)' \in {0, 1}
      BY <2>4, Numbers
    <3> QED BY <2>2, <3>1
  <2> QED BY <1>4, <1>5, <2>2, <2>5, CountStep
<1> QED BY <1>6, <1>7

(* An edit makes one more call due. *)
LEMMA EditCounts ==
    ASSUME IInv, CountInv, edits < MaxEdits, edits' = edits + 1, due' = due + 1,
           onStartup' \subseteq SystemTask,
           UNCHANGED <<armed, refreshQueued, refresh, errors>>
    PROVE  CountInv'
<1>1. Immediates' = Immediates /\ TasksApart' /\ \A t : Arming(t)' = Arming(t)
  BY DEF Immediates, TasksApart, Arming, ToArm, CountInv
<1>2. edits' \in 0 .. MaxEdits
  BY Numbers
<1>3. CountTypes'
  BY <1>1, <1>2 DEF CountInv, CountTypes
<1>4. Owed' = Owed + 1 /\ Owed \in Nat
  BY <1>1, Numbers DEF Owed
<1>5. Owed' <= edits' + 1
  BY <1>4, Numbers DEF CountInv
<1>6. ASSUME NEW t \in SystemTask PROVE armed'[t] + Owed' + Arming(t)' <= edits' + 1
  <2>1. armed[t] + Owed + Arming(t) <= edits + 1 /\ armed'[t] = armed[t]
        /\ Arming(t)' = Arming(t)
    BY <1>1 DEF CountInv
  <2>2. armed[t] \in Nat /\ Arming(t) \in {0, 1}
    BY Numbers
  <2> QED BY <1>4, <2>1, <2>2, Numbers
<1> QED BY <1>1, <1>3, <1>5, <1>6 DEF CountInv

(* The one place where a startup run is armed: the task is off the list. *)
LEMMA StartupCounts ==
    ASSUME IInv, CountInv, NEW r \in Refresh, ReadStartup(r)
    PROVE  CountInv'
<1> DEFINE due0 == refresh[r].task \cap onStartup
<1>1. /\ refresh[r].at = "startup" /\ refresh' = At(r, "tasks")
      /\ armed' = [t \in SystemTask |-> IF t \in due0 THEN armed[t] + 1 ELSE armed[t]]
      /\ UNCHANGED <<onStartup, edits, refreshQueued, due, errors>>
  BY DEF ReadStartup, database
<1>2. /\ refresh' \in [Refresh -> Activation] /\ refresh'[r].at = "tasks"
      /\ refresh'[r].todo = refresh[r].todo /\ refresh'[r].task = refresh[r].task
      /\ \A q \in Refresh : q # r => refresh'[q] = refresh[q]
  BY <1>1, AtMoves DEF IInv, Places
<1>3. \A q \in Refresh : Active(q) => q = r
  BY <1>1 DEF IInv, OneRefresh, Active
<1>4. Immediates' = Immediates
  BY <1>1, <1>2 DEF Immediates
<1>5. Owed' = Owed /\ Owed \in Nat
  BY <1>1, <1>4, Numbers DEF Owed
<1>6. TasksApart'
  BY <1>2 DEF CountInv, TasksApart
<1>7. CountTypes'
  <2>1. armed' \in [SystemTask -> Nat]
    BY <1>1, Numbers
  <2> QED BY <1>1, <1>4, <2>1 DEF CountInv, CountTypes
<1>8. ASSUME NEW t \in SystemTask
      PROVE  armed'[t] + Owed' + Arming(t)' <= armed[t] + Owed + Arming(t)
  <2>1. Arming(t) \in {0, 1} /\ Arming(t)' \in {0, 1} /\ armed[t] \in Nat
    BY Numbers DEF Arming
  <2>2. (\E q \in Refresh : ToArm(q, t)') => \E q \in Refresh : ToArm(q, t)
    BY <1>1, <1>2 DEF ToArm
  <2>3. CASE t \in due0
    <3>1. Arming(t) = 1
      BY <1>1, <2>3 DEF Arming, ToArm
    <3>2. \A q \in Refresh : ~ToArm(q, t)'
      <4> SUFFICES ASSUME NEW q \in Refresh, ToArm(q, t)' PROVE FALSE
        OBVIOUS
      <4>1. q = r
        BY <1>2, <1>3 DEF ToArm, Active
      <4>2. t \in refresh[r].todo
        BY <1>2, <4>1 DEF ToArm
      <4> QED BY <1>1, <2>3, <4>2 DEF CountInv, TasksApart
    <3>3. Arming(t)' = 0
      BY <3>2 DEF Arming
    <3>4. armed'[t] = armed[t] + 1
      BY <1>1, <2>3
    <3> QED BY <1>5, <2>1, <3>1, <3>3, <3>4
  <2>4. CASE t \notin due0
    <3>1. Arming(t)' <= Arming(t)
      BY <2>2 DEF Arming
    <3>2. armed'[t] = armed[t]
      BY <1>1, <2>4
    <3> QED BY <1>5, <2>1, <3>1, <3>2
  <2> QED BY <2>3, <2>4
<1> QED BY <1>1, <1>5, <1>6, <1>7, <1>8, CountStep

(* The call that was queued is made by the activation that ends. *)
LEMMA EndCounts ==
    ASSUME IInv, CountInv, NEW r \in Refresh, EndRefresh(r)
    PROVE  CountInv'
<1> DEFINE place == IF refreshQueued THEN "immediate" ELSE "away"
<1>1. /\ refresh[r].at \in {"over", "tasks"}
      /\ refreshQueued' = FALSE
      /\ refresh' = [refresh EXCEPT ![r] = [Asleep EXCEPT !.at = place]]
      /\ UNCHANGED <<onStartup, edits, armed, due, errors>>
  BY DEF EndRefresh, release, database, timers
<1>2. /\ refresh'[r].at = place
      /\ \A q \in Refresh : q # r => refresh'[q] = refresh[q]
  <2>1. [Asleep EXCEPT !.at = place].at = place
    BY DEF Asleep
  <2> QED BY <1>1, <2>1 DEF IInv, Types
<1>3. r \notin Immediates /\ IsFiniteSet(Immediates)
  BY <1>1 DEF Immediates, CountInv, CountTypes
<1>4. Immediates' = IF refreshQueued THEN Immediates \cup {r} ELSE Immediates
  BY <1>1, <1>2 DEF Immediates
<1>5. IsFiniteSet(Immediates') /\ Owed' = Owed /\ Owed \in Nat
  <2>1. CASE refreshQueued
    <3>1. IsFiniteSet(Immediates \cup {r}) /\ Cardinality(Immediates \cup {r}) = Cardinality(Immediates) + 1
      BY <1>3, FS_AddElement
    <3> QED BY <1>1, <1>4, <2>1, <3>1, Numbers DEF Owed
  <2>2. CASE ~refreshQueued
    BY <1>1, <1>3, <1>4, <2>2, Numbers DEF Owed
  <2> QED BY <2>1, <2>2
<1>6. TasksApart'
  BY <1>1, <1>2 DEF CountInv, TasksApart
<1>7. CountTypes'
  BY <1>1, <1>5 DEF CountInv, CountTypes
<1>8. ASSUME NEW t \in SystemTask
      PROVE  armed'[t] + Owed' + Arming(t)' <= armed[t] + Owed + Arming(t)
  <2>1. (\E q \in Refresh : ToArm(q, t)') => \E q \in Refresh : ToArm(q, t)
    BY <1>1, <1>2 DEF ToArm
  <2>2. Arming(t)' <= Arming(t) /\ Arming(t)' \in Nat /\ Arming(t) \in Nat
    BY <2>1 DEF Arming
  <2> QED BY <1>1, <1>5, <2>2, Numbers
<1> QED BY <1>1, <1>5, <1>6, <1>7, <1>8, CountStep

LEMMA RefreshStepCounts ==
    ASSUME IInv, CountInv, NEW r \in Refresh, RefreshStep(r)
    PROVE  CountInv'
<1>0. /\ refresh[r] \in Activation /\ errors \in 0 .. MaxErrors
  BY DEF IInv, Types, CountInv, CountTypes
<1>1. CASE Immediate(r)
  BY <1>1, BeginCounts DEF Immediate, database, IInv, Types
<1>2. CASE ReadTimezone(r)
  <2>1. refresh' = At(r, "jobs") /\ refresh[r].at = "timezone"
        /\ UNCHANGED <<due, refreshQueued, edits, onStartup, armed, errors>>
    BY <1>2 DEF ReadTimezone, database, timers
  <2>2. refresh'[r].at = "jobs" /\ \A q \in Refresh : q # r => refresh'[q] = refresh[q]
    BY <2>1, AtMoves DEF Places, IInv
  <2>3. \A t \in SystemTask : ToArm(r, t)' => ToArm(r, t)
    BY <2>1 DEF ToArm
  <2> QED BY <1>0, <2>1, <2>2, <2>3, AwaitCounts
<1>3. CASE FindJobs(r)
  <2>1. /\ refresh[r].at = "jobs"
        /\ refresh' = [refresh EXCEPT ![r] = [Asleep EXCEPT !.at = "rows", !.rows = table, !.todo = SystemTask]]
        /\ UNCHANGED <<due, refreshQueued, edits, onStartup, armed, errors>>
    BY <1>3 DEF FindJobs, database, timers
  <2>2. refresh'[r].at = "rows" /\ \A q \in Refresh : q # r => refresh'[q] = refresh[q]
    BY <2>1 DEF IInv, Types, Asleep
  <2>3. \A t \in SystemTask : ToArm(r, t)' => ToArm(r, t)
    BY <2>1 DEF ToArm
  <2> QED BY <1>0, <2>1, <2>2, <2>3, AwaitCounts
<1>4. CASE ScheduleJobs(r)
  <2>1. refresh' = At(r, "tasks") /\ refresh[r].at = "rows"
        /\ UNCHANGED <<due, refreshQueued, edits, onStartup, armed, errors>>
    BY <1>4 DEF ScheduleJobs, database
  <2>2. refresh'[r].at = "tasks" /\ \A q \in Refresh : q # r => refresh'[q] = refresh[q]
    BY <2>1, AtMoves DEF Places, IInv
  <2>3. \A t \in SystemTask : ToArm(r, t)' => ToArm(r, t)
    BY <2>1 DEF ToArm
  <2> QED BY <1>0, <2>1, <2>2, <2>3, AwaitCounts
<1>5. ASSUME NEW t \in SystemTask, ReadTask(r, t) PROVE CountInv'
  <2>1. /\ refresh[r].at = "tasks" /\ t \in refresh[r].todo
        /\ refresh' = [refresh EXCEPT ![r].at = IF table[t] = "off" THEN "tasks" ELSE "row",
                                      ![r].rows[t] = table[t],
                                      ![r].todo = @ \ {t}, ![r].task = {t}]
        /\ UNCHANGED <<due, refreshQueued, edits, onStartup, armed, errors>>
    BY <1>5 DEF ReadTask, database, timers
  <2>2. /\ refresh'[r].at \in {"tasks", "row"}
        /\ refresh'[r].todo = refresh[r].todo \ {t} /\ refresh'[r].task = {t}
        /\ \A q \in Refresh : q # r => refresh'[q] = refresh[q]
    BY <1>0, <2>1 DEF IInv, Types, Activation
  <2>3. \A x \in SystemTask : ToArm(r, x)' => ToArm(r, x)
    BY <2>1, <2>2 DEF ToArm
  <2> QED BY <1>0, <2>1, <2>2, <2>3, AwaitCounts
<1>6. CASE ScheduleTask(r)
  <2>1. refresh' = At(r, "startup") /\ refresh[r].at = "row"
        /\ UNCHANGED <<due, refreshQueued, edits, onStartup, armed, errors>>
    BY <1>6 DEF ScheduleTask, database
  <2>2. /\ refresh'[r].at = "startup" /\ refresh'[r].todo = refresh[r].todo
        /\ refresh'[r].task = refresh[r].task
        /\ \A q \in Refresh : q # r => refresh'[q] = refresh[q]
    BY <2>1, AtMoves DEF Places, IInv
  <2>3. \A t \in SystemTask : ToArm(r, t)' => ToArm(r, t)
    BY <2>1, <2>2 DEF ToArm
  <2>4. refresh'[r].task \cap refresh'[r].todo = {}
    BY <2>1, <2>2 DEF CountInv, TasksApart
  <2> QED BY <1>0, <2>1, <2>2, <2>3, <2>4, AwaitCounts
<1> QED BY <1>1, <1>2, <1>3, <1>4, <1>5, <1>6, StartupCounts, EndCounts DEF RefreshStep

LEMMA FailCounts ==
    ASSUME IInv, CountInv, NEW r \in Refresh,
           QueryFails(r) \/ \E t \in SystemTask : TaskFails(r, t)
    PROVE  CountInv'
<1>0. /\ refresh[r] \in Activation
      /\ (errors < MaxErrors /\ errors' = errors + 1 => errors' \in 0 .. MaxErrors)
  BY SchedulerAssumption DEF IInv, Types, CountInv, CountTypes
<1>1. CASE QueryFails(r)
  <2>1. refresh' = At(r, "over") /\ refresh[r].at \in {"timezone", "jobs"}
        /\ UNCHANGED <<due, refreshQueued, edits, onStartup, armed>>
        /\ errors' \in 0 .. MaxErrors
    BY <1>0, <1>1 DEF QueryFails, database, timers
  <2>2. refresh'[r].at = "over" /\ \A q \in Refresh : q # r => refresh'[q] = refresh[q]
    BY <2>1, AtMoves DEF Places, IInv
  <2>3. \A t \in SystemTask : ToArm(r, t)' => ToArm(r, t)
    BY <2>1 DEF ToArm
  <2> QED BY <2>1, <2>2, <2>3, AwaitCounts
<1>2. ASSUME NEW t \in SystemTask, TaskFails(r, t) PROVE CountInv'
  <2>1. refresh' = [refresh EXCEPT ![r].todo = @ \ {t}] /\ refresh[r].at = "tasks"
        /\ UNCHANGED <<due, refreshQueued, edits, onStartup, armed>>
        /\ errors' \in 0 .. MaxErrors
    BY <1>0, <1>2 DEF TaskFails, database, timers
  <2>2. /\ refresh'[r].at = "tasks" /\ refresh'[r].todo = refresh[r].todo \ {t}
        /\ \A q \in Refresh : q # r => refresh'[q] = refresh[q]
    BY <1>0, <2>1 DEF IInv, Types, Activation
  <2>3. \A x \in SystemTask : ToArm(r, x)' => ToArm(r, x)
    BY <2>1, <2>2 DEF ToArm
  <2> QED BY <2>1, <2>2, <2>3, AwaitCounts
<1> QED BY <1>1, <1>2

LEMMA NextCounts == IInv /\ CountInv /\ [SchedulerNext]_schedulerVars => CountInv'
<1> SUFFICES ASSUME IInv, CountInv, [SchedulerNext]_schedulerVars PROVE CountInv'
  OBVIOUS
<1>0. onStartup \subseteq SystemTask
  BY DEF CountInv, CountTypes
<1>1. ASSUME NEW chosen \in SUBSET Job, NEW setting \in Setting, EditJobs(chosen, setting)
      PROVE  CountInv'
  BY <1>0, <1>1, EditCounts DEF EditJobs, timers
<1>2. ASSUME NEW t \in SystemTask, NEW setting \in Setting, EditTask(t, setting)
      PROVE  CountInv'
  BY <1>0, <1>2, EditCounts DEF EditTask, timers
<1>3. ASSUME NEW t \in SystemTask, EditStartup(t) PROVE CountInv'
  BY <1>0, <1>3, EditCounts DEF EditStartup, timers
<1>4. ASSUME NEW t \in SystemTask, StartupRun(t) PROVE CountInv'
  <2>1. /\ armed[t] > 0 /\ armed' = [armed EXCEPT ![t] = @ - 1]
        /\ UNCHANGED <<onStartup, edits, due, refreshQueued, refresh, errors>>
    BY <1>4 DEF StartupRun, database
  <2>2. Immediates' = Immediates /\ TasksApart' /\ \A x : Arming(x)' = Arming(x)
    BY <2>1 DEF Immediates, TasksApart, Arming, ToArm, CountInv
  <2>3. armed' \in [SystemTask -> Nat] /\ \A x \in SystemTask : armed'[x] <= armed[x]
    BY <2>1, Numbers DEF CountInv, CountTypes
  <2>4. CountTypes'
    BY <2>1, <2>2, <2>3 DEF CountInv, CountTypes
  <2>5. Owed' = Owed /\ Owed \in Nat
    BY <2>1, <2>2, Numbers DEF Owed
  <2>6. ASSUME NEW x \in SystemTask
        PROVE  armed'[x] + Owed' + Arming(x)' <= armed[x] + Owed + Arming(x)
    BY <2>2, <2>3, <2>5, Numbers
  <2> QED BY <2>1, <2>2, <2>4, <2>5, <2>6, CountStep
<1>5. ASSUME NEW r \in Refresh, CallRefresh(r) PROVE CountInv'
  <2>1. /\ refresh[r].at = "away" /\ begin(r) /\ due > 0 /\ due' = due - 1
        /\ UNCHANGED <<edits, onStartup, armed, errors>>
    BY <1>5 DEF CallRefresh, database
  <2>2. due' \in Nat /\ due = due' + 1
    BY <2>1, Numbers
  <2> QED BY <2>1, <2>2, BeginCounts
<1>6. ASSUME UNCHANGED <<onStartup, edits, due, refreshQueued, refresh, errors, armed>>
      PROVE  CountInv'
  BY <1>6 DEF CountInv, CountTypes, TasksApart, Owed, Immediates, Arming, ToArm
<1>7. CASE Shutdown
  BY <1>6, <1>7 DEF Shutdown, database
<1>8. CASE UNCHANGED schedulerVars
  BY <1>6, <1>8 DEF schedulerVars, database, timers
<1> QED BY <1>1, <1>2, <1>3, <1>4, <1>5, <1>7, <1>8, RefreshStepCounts, FailCounts
        DEF SchedulerNext

LEMMA InitCounts == SchedulerInit => CountInv
<1> SUFFICES ASSUME SchedulerInit PROVE CountInv
  OBVIOUS
<1> USE SchedulerAssumption DEF SchedulerInit
<1>1. \A r \in Refresh : refresh[r].at = "away"
  BY DEF Asleep
<1>2. Immediates = {} /\ IsFiniteSet({}) /\ Cardinality({}) = 0
  BY <1>1, FS_EmptySet DEF Immediates
<1>3. Owed = 1
  BY <1>2 DEF Owed
<1>4. \A t \in SystemTask : Arming(t) = 0 /\ armed[t] = 0
  BY <1>1 DEF Arming, ToArm
<1>5. TasksApart
  BY <1>1 DEF TasksApart
<1>6. CountTypes
  BY <1>2 DEF CountTypes
<1> QED BY <1>3, <1>4, <1>5, <1>6 DEF CountInv

-----------------------------------------------------------------------------
(* The types of the health checks.                                         *)
LEMMA AwayType == Away \in Activity
  BY DEF Away, Activity, Threshold

LEMMA HappensType ==
    ASSUME HealthTypeOK, NEW n \in Nat, Happens(n)
    PROVE  events' \in 0 .. MaxEvents
  BY HealthAssumption DEF HealthTypeOK, Happens

LEMMA CountType ==
    ASSUME HealthTypeOK, NEW c \in Cycle, NEW a \in Adapter
    PROVE  Count(c, a) \in 0 .. Threshold
  BY DEF HealthTypeOK, Activity, Count, Threshold

LEMMA ConcludedType ==
    ASSUME HealthTypeOK, NEW c \in Cycle, NEW a \in Adapter,
           NEW states \in SUBSET Adapter, NEW changed \in BOOLEAN,
           Concluded(c, a, states, changed)
    PROVE  cycle' \in [Cycle -> Activity]
<1> DEFINE done(w) == [w EXCEPT !.check[a] = "done"]
           read(w) == [w EXCEPT !.read[a] = 0]
           noted(w) == [w EXCEPT !.states = states, !.stateChanged = @ \/ changed]
<1>1. ASSUME NEW w \in Activity
      PROVE  done(w) \in Activity /\ read(w) \in Activity /\ noted(w) \in Activity
  <2>1. done(w) \in Activity
    BY DEF Activity
  <2>2. read(w) \in Activity
    BY DEF Activity, Threshold
  <2>3. noted(w) \in Activity
    BY DEF Activity
  <2> QED BY <2>1, <2>2, <2>3
<1>2. [cycle[c] EXCEPT !.check[a] = "done", !.read[a] = 0, !.states = states,
                       !.stateChanged = @ \/ changed] = noted(read(done(cycle[c])))
  BY Zenon
<1>3. cycle' = [cycle EXCEPT ![c] = [cycle[c] EXCEPT !.check[a] = "done", !.read[a] = 0,
                                     !.states = states, !.stateChanged = @ \/ changed]]
  BY DEF Concluded, HealthTypeOK
<1>4. cycle' = [cycle EXCEPT ![c] = noted(read(done(cycle[c])))]
  BY <1>2, <1>3, Zenon
<1> HIDE DEF done, read, noted
<1> QED BY <1>1, <1>4 DEF HealthTypeOK

LEMMA HealthStepType == HealthTypeOK /\ [HealthNext]_healthVars => HealthTypeOK'
<1> SUFFICES ASSUME HealthTypeOK, [HealthNext]_healthVars PROVE HealthTypeOK'
  OBVIOUS
<1>1. ASSUME NEW a \in Adapter, Change(a) PROVE HealthTypeOK'
  <2>1. events' \in 0 .. MaxEvents
    BY <1>1, HappensType DEF Change
  <2> QED BY <1>1, <2>1 DEF Change, Toggled, HealthTypeOK
<1>2. CASE Die
  <2>1. events' \in 0 .. MaxEvents
    BY <1>2, HappensType DEF Die
  <2> QED BY <1>2, <2>1, AwayType DEF Die, world, HealthTypeOK
<1>3. ASSUME NEW c \in Cycle, FindConfigs(c) PROVE HealthTypeOK'
  <2>1. [Away EXCEPT !.at = "configs", !.read = failures, !.muted = muted] \in Activity
    BY AwayType DEF HealthTypeOK, Activity
  <2> QED BY <1>3, <2>1 DEF FindConfigs, world, HealthTypeOK
<1>4. ASSUME NEW c \in Cycle, loadOfflineStates(c) PROVE HealthTypeOK'
  <2>1. [cycle[c] EXCEPT !.at = "checking", !.states = record,
                         !.check = [a \in Adapter |-> "todo"]] \in Activity
    BY DEF HealthTypeOK, Activity
  <2>2. cycle' \in [Cycle -> Activity]
    BY <1>4, <2>1 DEF loadOfflineStates, HealthTypeOK
  <2> QED BY <1>4, <2>2 DEF loadOfflineStates, world, HealthTypeOK
<1>5. ASSUME NEW c \in Cycle, NEW a \in Adapter, Ping(c, a) PROVE HealthTypeOK'
  <2>1. ASSUME NEW result \in {"success", "failure"}
        PROVE  [cycle[c] EXCEPT !.check[a] = result] \in Activity
    BY DEF HealthTypeOK, Activity
  <2>2. PICK result \in {"success", "failure"} :
           cycle' = [cycle EXCEPT ![c].check[a] = result]
    BY <1>5 DEF Ping
  <2>3. cycle' \in [Cycle -> Activity]
    BY <2>1, <2>2 DEF HealthTypeOK
  <2> QED BY <1>5, <2>3 DEF Ping, world, HealthTypeOK
<1>6. ASSUME NEW c \in Cycle, NEW a \in Adapter, checkAdapter(c, a) PROVE HealthTypeOK'
  <2> DEFINE n(due1, fails) ==
               Cardinality({x \in {1, 2} : (x = 1 /\ due1) \/ (x = 2 /\ fails)})
  <2>1. PICK due1, fails \in BOOLEAN :
          /\ Inform(c, a, due1)
          /\ IF fails THEN UNCHANGED <<failures, status>> ELSE store(a, Count(c, a))
          /\ Happens(n(due1, fails))
    BY <1>6, Zenon DEF checkAdapter
  <2>2. n(due1, fails) \in Nat
    <3>1. IsFiniteSet({1}) /\ IsFiniteSet({2})
      BY FS_Singleton
    <3>2. IsFiniteSet({1} \cup {2})
      BY <3>1, FS_Union
    <3>3. {x \in {1, 2} : (x = 1 /\ due1) \/ (x = 2 /\ fails)} \subseteq {1} \cup {2}
      OBVIOUS
    <3> QED BY <3>2, <3>3, FS_Subset, FS_CardinalityType, Zenon
  <2> HIDE DEF n
  <2>3. events' \in 0 .. MaxEvents
    BY <2>1, <2>2, HappensType
  <2>4. failures' \in [Adapter -> 0 .. Threshold] /\ status' \in [Adapter -> Statuses]
    <3>1. Count(c, a) \in 0 .. Threshold /\ newStatus(Count(c, a)) \in Statuses
      BY CountType DEF newStatus, Statuses
    <3> QED BY <2>1, <3>1 DEF store, HealthTypeOK
  <2>5. cycle' \in [Cycle -> Activity]
    <3>1. cycle[c].states \in SUBSET Adapter
      BY DEF HealthTypeOK, Activity
    <3>2. \E states \in SUBSET Adapter, changed \in BOOLEAN : Concluded(c, a, states, changed)
      BY <2>1, <3>1 DEF Inform, Announce, Remind, Recover, Silent
    <3> QED BY <3>2, ConcludedType
  <2> QED BY <1>6, <2>3, <2>4, <2>5 DEF checkAdapter, world, HealthTypeOK
<1>7. ASSUME NEW c \in Cycle, saveOfflineStates(c) PROVE HealthTypeOK'
  <2>1. cycle[c].states \in SUBSET Adapter /\ cycle' \in [Cycle -> Activity]
    BY <1>7, AwayType DEF saveOfflineStates, HealthTypeOK, Activity
  <2>2. record' \subseteq Adapter
    BY <1>7, <2>1 DEF saveOfflineStates, HealthTypeOK
  <2>3. events' \in 0 .. MaxEvents
    BY <1>7, HappensType DEF saveOfflineStates, HealthTypeOK
  <2> QED BY <1>7, <2>1, <2>2, <2>3 DEF saveOfflineStates, world, HealthTypeOK
<1>8. CASE UNCHANGED healthVars
  BY <1>8 DEF healthVars, world, HealthTypeOK
<1> QED BY <1>1, <1>2, <1>3, <1>4, <1>5, <1>6, <1>7, <1>8 DEF HealthNext, CycleStep

LEMMA HealthStartType == HealthInit => HealthTypeOK
  BY AwayType, HealthAssumption DEF HealthInit, HealthTypeOK, Statuses, Threshold

-----------------------------------------------------------------------------
(* The types of the storage alerts.                                        *)
Pass == [at : {"away", "config", "checking"}, config : SUBSET Alert, states : SUBSET Alert,
         snapshot : SUBSET Alert, todo : SUBSET Alert, reminded : BOOLEAN]

LEMMA NoCheckType == NoCheck \in Pass
  BY DEF NoCheck, Pass

LEMMA AlertEventType ==
    ASSUME AlertTypeOK, NEW happens \in BOOLEAN, AlertEvent(happens)
    PROVE  alertEvents' \in 0 .. MaxAlertEvents
  BY AlertAssumption DEF AlertTypeOK, AlertEvent

LEMMA JudgedType ==
    ASSUME AlertTypeOK, NEW c \in Check, NEW x \in Alert, NEW states \in SUBSET Alert,
           NEW sent \in BOOLEAN, NEW reminded \in BOOLEAN, Judged(c, x, states, sent, reminded)
    PROVE  /\ check' \in [Check -> Pass]
           /\ alertNotices' \in [Alert -> {0, 1}]
           /\ alertEvents' \in 0 .. MaxAlertEvents
<1>1. check \in [Check -> Pass]
  BY DEF AlertTypeOK, Pass
<1>2. [check[c] EXCEPT !.todo = @ \ {x}, !.states = states, !.reminded = @ \/ reminded] \in Pass
  BY <1>1 DEF Pass
<1>3. check' \in [Check -> Pass]
  BY <1>1, <1>2 DEF Judged
<1>4. alertNotices' \in [Alert -> {0, 1}]
  BY DEF Judged, AlertTypeOK
<1> QED BY <1>3, <1>4, AlertEventType DEF Judged

LEMMA AlertStepType == AlertTypeOK /\ [AlertNext]_alertVars => AlertTypeOK'
<1> SUFFICES ASSUME AlertTypeOK, [AlertNext]_alertVars PROVE AlertTypeOK'
  OBVIOUS
<1>0. check \in [Check -> Pass] /\ (check' \in [Check -> Pass] =>
         check' \in [Check -> [at : {"away", "config", "checking"}, config : SUBSET Alert,
                               states : SUBSET Alert, snapshot : SUBSET Alert,
                               todo : SUBSET Alert, reminded : BOOLEAN]])
  BY DEF AlertTypeOK, Pass
<1>1. ASSUME NEW x \in Alert, NEW value \in {"present", "absent", "unknown"},
             ChangeCondition(x, value)
      PROVE  AlertTypeOK'
  BY <1>1, AlertEventType DEF ChangeCondition, AlertTypeOK
<1>2. ASSUME NEW config \in SUBSET Alert, saveAlertConfig(config) PROVE AlertTypeOK'
  BY <1>2, AlertEventType DEF saveAlertConfig, AlertTypeOK
<1>3. ASSUME NEW c \in Check, getAlertConfig(c) PROVE AlertTypeOK'
  <2>1. [check[c] EXCEPT !.at = "config", !.config = enabled] \in Pass
    BY <1>0 DEF Pass, AlertTypeOK
  <2>2. check' \in [Check -> Pass]
    BY <1>0, <1>3, <2>1 DEF getAlertConfig
  <2> QED BY <1>0, <1>3, <2>2 DEF getAlertConfig, AlertTypeOK
<1>4. ASSUME NEW c \in Check, getAlertStates(c) PROVE AlertTypeOK'
  <2>1. [check[c] EXCEPT !.at = "checking", !.todo = Alert, !.states = alertStates,
                         !.snapshot = alertStates] \in Pass
    BY <1>0 DEF Pass, AlertTypeOK
  <2>2. check' \in [Check -> Pass]
    BY <1>0, <1>4, <2>1 DEF getAlertStates
  <2> QED BY <1>0, <1>4, <2>2 DEF getAlertStates, AlertTypeOK
<1>5. ASSUME NEW c \in Check, NEW x \in Alert, JudgeAlert(c, x) PROVE AlertTypeOK'
  <2>1. check[c].states \in SUBSET Alert
    BY <1>0 DEF Pass
  <2>2. \E states \in SUBSET Alert, sent, reminded \in BOOLEAN :
           Judged(c, x, states, sent, reminded)
    BY <1>5, <2>1 DEF JudgeAlert, ResetDisabled, Unjudged, Resolve, Fire, Persist
  <2>3. /\ check' \in [Check -> Pass] /\ alertNotices' \in [Alert -> {0, 1}]
        /\ alertEvents' \in 0 .. MaxAlertEvents
    BY <2>2, JudgedType
  <2> QED BY <1>0, <1>5, <2>3 DEF JudgeAlert, AlertTypeOK
<1>6. ASSUME NEW c \in Check, saveAlertStates(c) PROVE AlertTypeOK'
  <2>1. check' \in [Check -> Pass] /\ check[c].states \in SUBSET Alert
    BY <1>0, <1>6, NoCheckType DEF saveAlertStates, Pass
  <2> QED BY <1>0, <1>6, <2>1 DEF saveAlertStates, AlertTypeOK
<1>7. ASSUME NEW c \in Check, LosePass(c) PROVE AlertTypeOK'
  <2>1. check' \in [Check -> Pass] /\ alertEvents' \in 0 .. MaxAlertEvents
    BY <1>0, <1>7, NoCheckType, AlertEventType DEF LosePass
  <2> QED BY <1>0, <1>7, <2>1 DEF LosePass, AlertTypeOK
<1>8. CASE UNCHANGED alertVars
  BY <1>8 DEF alertVars, AlertTypeOK
<1> QED BY <1>1, <1>2, <1>3, <1>4, <1>5, <1>6, <1>7, <1>8 DEF AlertNext, CheckStep

LEMMA AlertStartType == AlertInit => AlertTypeOK
  BY NoCheckType, AlertAssumption DEF AlertInit, AlertTypeOK, Pass

-----------------------------------------------------------------------------
(* The types of the configuration backup.                                  *)
Work == [at : {"away", "archive", "sidecar", "list", "delete"},
         own : SUBSET Export, doomed : SUBSET Path]

LEMMA RestingType ==
    ASSUME NEW place \in {"away", "archive", "sidecar", "list", "delete"},
           NEW own \in SUBSET Export
    PROVE  [Resting EXCEPT !.at = place, !.own = own] \in Work /\ Resting \in Work
  BY DEF Resting, Work

LEMMA MishapType ==
    ASSUME ConfigTypeOK, NEW happens \in BOOLEAN, Mishap(happens)
    PROVE  mishaps' \in 0 .. MaxMishaps
  BY ConfigAssumption DEF ConfigTypeOK, Mishap

LEMMA ArchiveType ==
    ASSUME NEW e \in Export
    PROVE  Archive(e) \in Path /\ Sidecar(Archive(e)) \in Path
  BY DEF Archive, Sidecar, Path

LEMMA ConfigAtType ==
    ASSUME configRun \in [ConfigRun -> Work], NEW r \in ConfigRun,
           NEW place \in {"away", "archive", "sidecar", "list", "delete"}
    PROVE  ConfigAt(r, place) \in [ConfigRun -> Work]
<1>1. [configRun[r] EXCEPT !.at = place] \in Work
  BY DEF Work
<1> QED BY <1>1 DEF ConfigAt

LEMMA ConfigStepType == ConfigTypeOK /\ [ConfigNext]_configVars => ConfigTypeOK'
<1> SUFFICES ASSUME ConfigTypeOK, [ConfigNext]_configVars PROVE ConfigTypeOK'
  OBVIOUS
<1>0. configRun \in [ConfigRun -> Work] /\ \A r \in ConfigRun : configRun[r].own \subseteq Export
  BY DEF ConfigTypeOK, Work
<1>a. Resting \in Work
  BY RestingType
<1>b. ASSUME remote' \subseteq Path, configRun' \in [ConfigRun -> Work],
             exports' \in 0 .. MaxExports, mishaps' \in 0 .. MaxMishaps
      PROVE  ConfigTypeOK'
  BY <1>b DEF ConfigTypeOK, Work
<1>1. ASSUME NEW r \in ConfigRun, StartExport(r) PROVE ConfigTypeOK'
  <2>1. exports + 1 \in Export /\ exports' \in 0 .. MaxExports
    BY <1>1, ConfigAssumption DEF StartExport, ConfigTypeOK, Export
  <2>2. [Resting EXCEPT !.at = "archive", !.own = {exports + 1}] \in Work
    BY <2>1, RestingType
  <2>3. configRun' \in [ConfigRun -> Work]
    BY <1>0, <1>1, <2>2 DEF StartExport
  <2> QED BY <1>1, <1>b, <2>1, <2>3 DEF StartExport, ConfigTypeOK
<1>2. ASSUME NEW r \in ConfigRun, UploadExport(r) PROVE ConfigTypeOK'
  <2>1. remote' \subseteq Path
    <3>1. {Archive(e) : e \in configRun[r].own} \subseteq Path
      BY <1>0, ArchiveType
    <3> QED BY <1>2, <3>1 DEF UploadExport, ConfigTypeOK
  <2>2. mishaps' \in 0 .. MaxMishaps
    BY <1>2, MishapType DEF UploadExport
  <2>3. configRun' \in [ConfigRun -> Work]
    BY <1>0, <1>2, ConfigAtType DEF UploadExport
  <2> QED BY <1>2, <1>b, <2>1, <2>2, <2>3 DEF UploadExport, ConfigTypeOK
<1>3. ASSUME NEW r \in ConfigRun, UploadSidecar(r) PROVE ConfigTypeOK'
  <2>1. remote' \subseteq Path
    <3>1. {Sidecar(Archive(e)) : e \in configRun[r].own} \subseteq Path
      BY <1>0, ArchiveType
    <3> QED BY <1>3, <3>1 DEF UploadSidecar, ConfigTypeOK
  <2>2. mishaps' \in 0 .. MaxMishaps
    BY <1>3, MishapType DEF UploadSidecar
  <2>3. configRun' \in [ConfigRun -> Work]
    <3>1. ConfigAt(r, "list") \in [ConfigRun -> Work]
      BY <1>0, ConfigAtType
    <3> QED BY <1>0, <1>a, <1>3, <3>1 DEF UploadSidecar
  <2> QED BY <1>3, <1>b, <2>1, <2>2, <2>3 DEF UploadSidecar, ConfigTypeOK
<1>4. ASSUME NEW r \in ConfigRun, ListExports(r) PROVE ConfigTypeOK'
  <2> DEFINE files == {p \in remote : p.folder = "config-backups" /\ ~p.meta}
  <2>1. Surplus(files) \subseteq Path
    BY DEF Surplus, ConfigTypeOK
  <2>2. configRun' = IF Surplus(files) = {} THEN [configRun EXCEPT ![r] = Resting]
                     ELSE [configRun EXCEPT ![r].at = "delete", ![r].doomed = Surplus(files)]
    BY <1>4, Zenon DEF ListExports
  <2> HIDE DEF files
  <2>3. [configRun[r] EXCEPT !.at = "delete", !.doomed = Surplus(files)] \in Work
    BY <1>0, <2>1 DEF Work
  <2>4. configRun' \in [ConfigRun -> Work]
    BY <1>0, <1>a, <2>2, <2>3
  <2> QED BY <1>4, <1>b, <2>4 DEF ListExports, ConfigTypeOK
<1>5. ASSUME NEW r \in ConfigRun, DeleteExport(r) PROVE ConfigTypeOK'
  <2>1. PICK p \in configRun[r].doomed, fails \in BOOLEAN :
          /\ Mishap(fails) /\ remote' \subseteq remote /\ exports' = exports
          /\ configRun' = IF configRun[r].doomed = {p} THEN [configRun EXCEPT ![r] = Resting]
                          ELSE [configRun EXCEPT ![r].doomed = @ \ {p}]
    BY <1>5 DEF DeleteExport
  <2>2. mishaps' \in 0 .. MaxMishaps
    BY <2>1, MishapType
  <2>3. [configRun[r] EXCEPT !.doomed = @ \ {p}] \in Work
    BY <1>0 DEF Work
  <2>4. configRun' \in [ConfigRun -> Work]
    BY <1>0, <1>a, <2>1, <2>3
  <2> QED BY <1>b, <2>1, <2>2, <2>4 DEF ConfigTypeOK
<1>6. ASSUME NEW r \in ConfigRun, LoseExport(r) PROVE ConfigTypeOK'
  <2>1. mishaps' \in 0 .. MaxMishaps
    BY <1>6, MishapType DEF LoseExport
  <2>2. configRun' \in [ConfigRun -> Work]
    BY <1>0, <1>a, <1>6 DEF LoseExport
  <2> QED BY <1>6, <1>b, <2>1, <2>2 DEF LoseExport, ConfigTypeOK
<1>7. CASE UNCHANGED configVars
  BY <1>7 DEF configVars, ConfigTypeOK
<1> QED BY <1>1, <1>2, <1>3, <1>4, <1>5, <1>6, <1>7 DEF ConfigNext

LEMMA ConfigStartType == ConfigInit => ConfigTypeOK
<1>1. Resting \in Work
  BY RestingType
<1>2. 0 \in 0 .. MaxExports /\ 0 \in 0 .. MaxMishaps
  BY ConfigAssumption
<1> QED BY <1>1, <1>2 DEF ConfigInit, ConfigTypeOK, Work

-----------------------------------------------------------------------------
(* The four in one instance.                                               *)
Parts == IInv /\ CountInv /\ HealthTypeOK /\ AlertTypeOK /\ ConfigTypeOK

LEMMA PartsStart == Init => Parts
  BY InitIInv, InitCounts, HealthStartType, AlertStartType, ConfigStartType DEF Init, Parts

(* A step of one part leaves the others alone. *)
LEMMA PartsStep ==
    [Next]_vars => /\ [SchedulerNext]_schedulerVars /\ [HealthNext]_healthVars
                   /\ [AlertNext]_alertVars /\ [ConfigNext]_configVars
  BY DEF Next, vars

LEMMA PartsKeep == Parts /\ [Next]_vars => Parts'
  BY PartsStep, NextIInv, NextCounts, HealthStepType, AlertStepType, ConfigStepType DEF Parts

(* Every variable of the four keeps its type, whichever of them moves. For  *)
(* the scheduler that bounds how often refresh() can arm the startup run of *)
(* a system task: once for each change of the settings, and once at start.  *)
THEOREM PeriodicTypes == Spec => []TypeOK
<1>1. Parts => TypeOK
  BY SchedulerTyped DEF Parts, TypeOK
<1> QED BY PartsStart, PartsKeep, <1>1, PTL DEF Spec

=============================================================================
