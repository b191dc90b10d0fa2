---------------------------- MODULE StorageAlerts ----------------------------
(***************************************************************************)
(* checkStorageAlerts for one destination: after each refresh of the       *)
(* storage statistics its alert conditions are judged against the record   *)
(* of the notices sent. A refresh follows every backup, every retention    *)
(* pass and every hour, so several of them judge at the same time.         *)
(***************************************************************************)
EXTENDS Naturals, FiniteSets

CONSTANTS
    Alert,           \* usage spike, storage limit, missing backup
    Check,           \* passes that run at the same time
    MaxAlertEvents   \* bound: changes of conditions and of the configuration,
                     \* reminders that fall due, passes that fail

ASSUME AlertAssumption == MaxAlertEvents \in Nat

VARIABLES
    condition,     \* "unknown": too few snapshots, or a threshold of zero
    enabled,       \* StorageAlertConfig: the alerts switched on
    alertStates,   \* the stored record: the alerts that are active
    check,
    alertNotices,  \* parity of the notices sent per alert
    alertEvents

alertVars == <<condition, enabled, alertStates, check, alertNotices, alertEvents>>

NoCheck == [at |-> "away", config |-> {}, states |-> {}, snapshot |-> {},
            todo |-> {}, reminded |-> FALSE]

AlertTypeOK ==
    /\ condition \in [Alert -> {"present", "absent", "unknown"}]
    /\ enabled \subseteq Alert
    /\ alertStates \subseteq Alert
    /\ check \in [Check -> [at : {"away", "config", "checking"}, config : SUBSET Alert,
                            states : SUBSET Alert, snapshot : SUBSET Alert,
                            todo : SUBSET Alert, reminded : BOOLEAN]]
    /\ alertNotices \in [Alert -> {0, 1}]
    /\ alertEvents \in 0 .. MaxAlertEvents

AlertInit ==
    /\ condition = [x \in Alert |-> "unknown"]
    /\ enabled = {}
    /\ alertStates = {}
    /\ check = [c \in Check |-> NoCheck]
    /\ alertNotices = [x \in Alert |-> 0]
    /\ alertEvents = 0

-----------------------------------------------------------------------------
AlertEvent(happens) ==
    IF happens THEN alertEvents < MaxAlertEvents /\ alertEvents' = alertEvents + 1
    ELSE UNCHANGED alertEvents

ChangeCondition(x, value) ==
    /\ condition[x] # value
    /\ AlertEvent(TRUE)
    /\ condition' = [condition EXCEPT ![x] = value]
    /\ UNCHANGED <<enabled, alertStates, check, alertNotices>>

saveAlertConfig(config) ==
    /\ AlertEvent(TRUE)
    /\ enabled' = config
    /\ UNCHANGED <<condition, alertStates, check, alertNotices>>

(* With every alert switched off the pass ends here. *)
getAlertConfig(c) ==
    /\ check[c].at = "away"
    /\ enabled # {}
    /\ check' = [check EXCEPT ![c].at = "config", ![c].config = enabled]
    /\ UNCHANGED <<condition, enabled, alertStates, alertNotices, alertEvents>>

getAlertStates(c) ==
    /\ check[c].at = "config"
    /\ check' = [check EXCEPT ![c].at = "checking", ![c].todo = Alert,
                              ![c].states = alertStates, ![c].snapshot = alertStates]
    /\ UNCHANGED <<condition, enabled, alertStates, alertNotices, alertEvents>>

Judged(c, x, states, sent, reminded) ==
    /\ check' = [check EXCEPT ![c].todo = @ \ {x}, ![c].states = states,
                              ![c].reminded = @ \/ reminded]
    /\ alertNotices' = IF sent THEN [alertNotices EXCEPT ![x] = 1 - @] ELSE alertNotices
    /\ AlertEvent(reminded)

(* With an alert that is switched off and keeps its state. *)
KeepDisabled(c, x) ==
    /\ x \notin check[c].config
    /\ Judged(c, x, check[c].states, FALSE, FALSE)

ResetDisabled(c, x) ==
    /\ x \notin check[c].config
    /\ Judged(c, x, check[c].states \ {x}, FALSE, FALSE)

Unjudged(c, x) ==
    /\ x \in check[c].config
    /\ condition[x] = "unknown"
    /\ Judged(c, x, check[c].states, FALSE, FALSE)

Resolve(c, x) ==
    /\ x \in check[c].config
    /\ condition[x] = "absent"
    /\ Judged(c, x, check[c].states \ {x}, FALSE, FALSE)

(* With an alert that is sent and not made active. *)
FireOnly(c, x) ==
    /\ x \in check[c].config \ check[c].states
    /\ condition[x] = "present"
    /\ Judged(c, x, check[c].states, TRUE, FALSE)

(* shouldNotify: newly active. *)
Fire(c, x) ==
    /\ x \in check[c].config \ check[c].states
    /\ condition[x] = "present"
    /\ Judged(c, x, check[c].states \cup {x}, TRUE, FALSE)

(* shouldNotify: active; the cooldown is over, or is not. *)
Persist(c, x) ==
    /\ x \in check[c].config \cap check[c].states
    /\ condition[x] = "present"
    /\ \E again \in BOOLEAN : Judged(c, x, check[c].states, again, again)

JudgeAlert(c, x) ==
    /\ x \in check[c].todo
    /\ \/ ResetDisabled(c, x) \/ Unjudged(c, x) \/ Resolve(c, x)
       \/ Fire(c, x) \/ Persist(c, x)
    /\ UNCHANGED <<condition, enabled, alertStates>>

saveAlertStates(c) ==
    /\ check[c].at = "checking"
    /\ check[c].todo = {}
    /\ alertStates' = IF check[c].states # check[c].snapshot \/ check[c].reminded
                      THEN check[c].states ELSE alertStates
    /\ check' = [check EXCEPT ![c] = NoCheck]
    /\ UNCHANGED <<condition, enabled, alertNotices, alertEvents>>

(* A query fails, or the process dies: what was sent is not on record. *)
LosePass(c) ==
    /\ check[c].at # "away"
    /\ AlertEvent(TRUE)
    /\ check' = [check EXCEPT ![c] = NoCheck]
    /\ UNCHANGED <<condition, enabled, alertStates, alertNotices>>

CheckStep(c) == \/ getAlertConfig(c) \/ getAlertStates(c) \/ saveAlertStates(c)
                \/ \E x \in Alert : JudgeAlert(c, x)

AlertNext ==
    \/ \E c \in Check : CheckStep(c) \/ LosePass(c)
    \/ \E config \in SUBSET Alert : saveAlertConfig(config)
    \/ \E x \in Alert, value \in {"present", "absent", "unknown"} : ChangeCondition(x, value)

(* The statistics are refreshed every hour, and a pass ends. *)
AlertFairness == \A c \in Check : WF_alertVars(CheckStep(c))

AlertSpec == AlertInit /\ [][AlertNext]_alertVars /\ AlertFairness

-----------------------------------------------------------------------------
(* The record heals: when conditions and configuration rest, it comes to    *)
(* name the alerts that are present, and none that is absent or switched    *)
(* off, although passes write their whole record over each other's. The     *)
(* destination whose last alert is switched off is not looked at again.     *)
AlertsConverge ==
    <>[](\A x \in Alert :
            /\ x \in enabled /\ condition[x] = "present" => x \in alertStates
            /\ x \in enabled /\ condition[x] = "absent" => x \notin alertStates
            /\ x \notin enabled /\ enabled # {} => x \notin alertStates)

(* No flood: a condition that persists is not announced for ever, however   *)
(* many passes see it as new (storage-alert-service.ts, "state tracking to  *)
(* prevent notification flooding").                                         *)
AlertsCease == <>[][alertNotices' = alertNotices]_alertVars

=============================================================================
