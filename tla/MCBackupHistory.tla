--------------------------- MODULE MCBackupHistory ---------------------------
(***************************************************************************)
(* What becomes of the backups of one job: its chains on several           *)
(* destinations under the Simple policy, and one destination under each of *)
(* a set of policies. The two share no variable, so a behaviour of the     *)
(* instance is one of a single part, chosen at the start, the other being  *)
(* where it began.                                                         *)
(*                                                                         *)
(* The policies are small enough for TLC. One point of time is a day, a    *)
(* week has two days and a month three, so that weeks straddle months as   *)
(* they do in the calendar; hours and years are two more tiers of the same *)
(* kind.                                                                   *)
(***************************************************************************)
EXTENDS BackupChain, RetentionHistory

Smart(d, w, m) ==
    [mode |-> "SMART", count |-> 0,
     tiers |-> << [limit |-> d, width |-> 1], [limit |-> w, width |-> 2],
                  [limit |-> m, width |-> 3] >>]

Simple(n) == [mode |-> "SIMPLE", count |-> n, tiers |-> << >>]

SmallPolicies == {Simple(2), Smart(1, 1, 1), Smart(2, 0, 1), Smart(0, 2, 1)}

VARIABLE part

PartInit ==
    /\ part \in {"chain", "history"}
    /\ Init /\ HistoryInit
    /\ part = "history" \/ policy = Simple(2)

PartNext ==
    /\ UNCHANGED part
    /\ \/ part = "chain" /\ Next /\ UNCHANGED historyVars
       \/ part = "history" /\ HistoryNext /\ UNCHANGED vars

PartSpec == PartInit /\ [][PartNext]_<<part, vars, historyVars>>

=============================================================================
