----------------------------- MODULE HealthCheck -----------------------------
(***************************************************************************)
(* HealthCheckService.performHealthCheck: a cycle reads all adapters and   *)
(* the record of the offline notices, checks the adapters in parallel, and *)
(* writes the whole record back. Cron starts a cycle every minute whether  *)
(* or not the one before is over: adapters that time out make it longer.   *)
(***************************************************************************)
EXTENDS Naturals, FiniteSets

CONSTANTS
    Adapter,
    Cycle,         \* cycles that run at the same time
    MaxEvents      \* bound: adapters that go or come back, notices switched off
                   \* or on, reminders that fall due, failing writes, crashes

ASSUME HealthAssumption == MaxEvents \in Nat

VARIABLES
    reachable,  \* adapters that would answer
    muted,      \* adapters with healthNotificationsDisabled
    failures,   \* consecutiveFailures; beyond the threshold it makes no difference
    status,     \* lastStatus
    record,     \* offlineStates as stored: adapters with an active notice
    cycle,
    events

world == <<reachable, muted>>
healthVars == <<world, failures, status, record, cycle, events>>

Threshold == 3  \* consecutive failures that make an adapter OFFLINE

Statuses == {"ONLINE", "DEGRADED", "OFFLINE"}
Away == [at |-> "away", read |-> [a \in Adapter |-> 0], muted |-> {}, states |-> {},
         check |-> [a \in Adapter |-> "done"], stateChanged |-> FALSE]
Activity == [at : {"away", "configs", "checking"}, read : [Adapter -> 0 .. Threshold],
             muted : SUBSET Adapter, states : SUBSET Adapter, stateChanged : BOOLEAN,
             check : [Adapter -> {"todo", "success", "failure", "done"}]]

HealthTypeOK ==
    /\ reachable \subseteq Adapter
    /\ muted \subseteq Adapter
    /\ failures \in [Adapter -> 0 .. Threshold]
    /\ status \in [Adapter -> Statuses]
    /\ record \subseteq Adapter
    /\ cycle \in [Cycle -> Activity]
    /\ events \in 0 .. MaxEvents

HealthInit ==
    /\ reachable = Adapter
    /\ muted = {}
    /\ failures = [a \in Adapter |-> 0]
    /\ status = [a \in Adapter |-> "ONLINE"]
    /\ record = {}
    /\ cycle = [c \in Cycle |-> Away]
    /\ events = 0

-----------------------------------------------------------------------------
Toggled(S, a) == (S \cup {a}) \ (S \cap {a})

Happens(n) == events + n <= MaxEvents /\ events' = events + n

Change(a) ==
    /\ Happens(1)
    /\ \/ reachable' = Toggled(reachable, a) /\ UNCHANGED muted
       \/ muted' = Toggled(muted, a) /\ UNCHANGED reachable
    /\ UNCHANGED <<failures, status, record, cycle>>

FindConfigs(c) ==
    /\ cycle[c].at = "away"
    /\ cycle' = [cycle EXCEPT ![c] = [Away EXCEPT !.at = "configs", !.read = failures, !.muted = muted]]
    /\ UNCHANGED <<world, failures, status, record, events>>

loadOfflineStates(c) ==
    /\ cycle[c].at = "configs"
    /\ cycle' = [cycle EXCEPT ![c].at = "checking", ![c].states = record,
                              ![c].check = [a \in Adapter |-> "todo"]]
    /\ UNCHANGED <<world, failures, status, record, events>>

(* runConnectivityCheck: an error and a timeout are failures like any. *)
Ping(c, a) ==
    /\ cycle[c].check[a] = "todo"
    /\ cycle' = [cycle EXCEPT ![c].check[a] = IF a \in reachable THEN "success" ELSE "failure"]
    /\ UNCHANGED <<world, failures, status, record, events>>

Count(c, a) == IF cycle[c].check[a] = "success" THEN 0
               ELSE IF cycle[c].read[a] = Threshold THEN Threshold ELSE cycle[c].read[a] + 1

newStatus(count) == IF count = 0 THEN "ONLINE"
                    ELSE IF count = Threshold THEN "OFFLINE" ELSE "DEGRADED"

(* With a row that is written for a failure only. *)
storeFailure(a, count) ==
    IF count = 0 THEN UNCHANGED <<failures, status>>
    ELSE /\ failures' = [failures EXCEPT ![a] = count]
         /\ status' = [status EXCEPT ![a] = newStatus(count)]

(* The transaction on the adapter's row, from the count the cycle has read. *)
store(a, count) ==
    /\ failures' = [failures EXCEPT ![a] = count]
    /\ status' = [status EXCEPT ![a] = newStatus(count)]

(* The check of a in cycle c is over: the record it has in memory. *)
Concluded(c, a, states, changed) ==
    cycle' = [cycle EXCEPT ![c].check[a] = "done", ![c].read[a] = 0,
                           ![c].states = states,
                           ![c].stateChanged = @ \/ changed]

(* With a recovery that is announced and not put on record. *)
RecoverUnrecorded(c, a) == Concluded(c, a, cycle[c].states \ {a}, FALSE)

Recover(c, a) == Concluded(c, a, cycle[c].states \ {a}, TRUE)

(* With a notice that is sent and not put on record. *)
AnnounceUnrecorded(c, a) == Concluded(c, a, cycle[c].states, TRUE)

(* First notice of an outage. *)
Announce(c, a) == Concluded(c, a, cycle[c].states \cup {a}, TRUE)

(* The notice stays active; its time is written. *)
Remind(c, a) == Concluded(c, a, cycle[c].states, TRUE)

Silent(c, a) == Concluded(c, a, cycle[c].states, FALSE)

(* The notification logic; a notice that cannot be sent counts as sent. *)
Inform(c, a, reminderDue) ==
    LET silenced == a \in cycle[c].muted
        active == a \in cycle[c].states
        offline == Count(c, a) = Threshold
    IN
    \/ ~silenced /\ offline /\ ~active /\ ~reminderDue /\ Announce(c, a)
    \/ ~silenced /\ offline /\ active /\ reminderDue /\ Remind(c, a)
    \/ ~silenced /\ ~offline /\ active /\ ~reminderDue /\ Recover(c, a)
    \/ (silenced \/ offline = active) /\ ~reminderDue /\ Silent(c, a)

(* The rest of checkAdapter; a row that cannot be written is passed over. *)
checkAdapter(c, a) ==
    /\ cycle[c].check[a] \in {"success", "failure"}
    /\ \E reminderDue, writeFails \in BOOLEAN :
          /\ Inform(c, a, reminderDue)
          /\ IF writeFails THEN UNCHANGED <<failures, status>> ELSE store(a, Count(c, a))
          /\ Happens(Cardinality({x \in {1, 2} : (x = 1 /\ reminderDue) \/ (x = 2 /\ writeFails)}))
    /\ UNCHANGED <<world, record>>

saveOfflineStates(c) ==
    /\ cycle[c].at = "checking"
    /\ \A a \in Adapter : cycle[c].check[a] = "done"
    /\ cycle' = [cycle EXCEPT ![c] = Away]
    /\ \/ /\ record' = IF cycle[c].stateChanged THEN cycle[c].states ELSE record
          /\ UNCHANGED events
       \/ cycle[c].stateChanged /\ Happens(1) /\ UNCHANGED record
    /\ UNCHANGED <<world, failures, status>>

(* The process dies in the middle of its cycles. *)
Die ==
    /\ Happens(1)
    /\ cycle' = [c \in Cycle |-> Away]
    /\ UNCHANGED <<world, failures, status, record>>

CycleStep(c) ==
    \/ FindConfigs(c) \/ loadOfflineStates(c) \/ saveOfflineStates(c)
    \/ \E a \in Adapter : Ping(c, a) \/ checkAdapter(c, a)

HealthNext == (\E c \in Cycle : CycleStep(c)) \/ (\E a \in Adapter : Change(a)) \/ Die

(* Cron starts cycles for ever, and each of them ends: checks time out. *)
HealthFairness == \A c \in Cycle : WF_healthVars(CycleStep(c))

HealthSpec == HealthInit /\ [][HealthNext]_healthVars /\ HealthFairness

-----------------------------------------------------------------------------
(* The dashboard comes to tell the truth: when the adapters stop changing,  *)
(* each one ends up ONLINE or OFFLINE as it is and stays there, although    *)
(* overlapping cycles count failures from the row they read and write over  *)
(* each other's count.                                                      *)
StatusConverges ==
    <>[](\A a \in Adapter : status[a] = IF a \in reachable THEN "ONLINE" ELSE "OFFLINE")

(* The record of the notices heals from lost updates, failed writes and     *)
(* crashes: in the end it names the adapters that are offline.              *)
RecordConverges ==
    <>[](\A a \in Adapter \ muted : a \in record <=> a \notin reachable)

(* No flood: an outage or a recovery that lasts is not announced for ever,  *)
(* with finitely many reminders due. Every notice marks the record of its   *)
(* cycle as changed, so in the end no cycle has one to write.               *)
NoticesCease == <>[](\A c \in Cycle : ~cycle[c].stateChanged)

=============================================================================
