--------------------------- MODULE MCPeriodicWork ---------------------------
(***************************************************************************)
(* The scheduler and three things that run by its timers, or as often, in  *)
(* one instance. They share no variable, so a behaviour of the instance is *)
(* one of a single part, chosen at the start, the others being where they  *)
(* began. Fairness is owed by the part that moves.                         *)
(***************************************************************************)
EXTENDS Scheduler, HealthCheck, StorageAlerts, ConfigBackup

VARIABLE part

vars == <<part, schedulerVars, healthVars, alertVars, configVars>>

Init ==
    /\ part \in {"scheduler", "health", "alerts", "config"}
    /\ SchedulerInit /\ HealthInit /\ AlertInit /\ ConfigInit
    /\ part = "scheduler" \/ (onStartup = {} /\ \A e \in Entry : table[e] = "off")

Next ==
    /\ UNCHANGED part
    /\ \/ part = "scheduler" /\ SchedulerNext /\ UNCHANGED <<healthVars, alertVars, configVars>>
       \/ part = "health" /\ HealthNext /\ UNCHANGED <<schedulerVars, alertVars, configVars>>
       \/ part = "alerts" /\ AlertNext /\ UNCHANGED <<schedulerVars, healthVars, configVars>>
       \/ part = "config" /\ ConfigNext /\ UNCHANGED <<schedulerVars, healthVars, alertVars>>

Fairness ==
    /\ WF_schedulerVars(part = "scheduler" /\ \E r \in Refresh : CallRefresh(r))
    /\ \A r \in Refresh : WF_schedulerVars(part = "scheduler" /\ RefreshStep(r))
    /\ \A c \in Cycle : WF_healthVars(part = "health" /\ CycleStep(c))
    /\ \A c \in Check : WF_alertVars(part = "alerts" /\ CheckStep(c))

Spec == Init /\ [][Next]_vars /\ Fairness

(* The state of each part stays within its types. *)
TypeOK == SchedulerTypeOK /\ HealthTypeOK /\ AlertTypeOK /\ ConfigTypeOK

=============================================================================
