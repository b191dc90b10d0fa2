-------------------------- MODULE MCExecutionQueue --------------------------
(* Instances of ExecutionQueue small enough for TLC. *)
EXTENDS ExecutionQueue, TLC

CONSTANTS b1, b2, r1, t1, p1, p2, w1, w2, w3

NoExec == {}
OneBackup == {b1}
TwoBackups == {b1, b2}
OneRestore == {r1}
OneTask == {t1}
TwoPasses == {p1, p2}
TwoWorkers == {w1, w2}
ThreeWorkers == {w1, w2, w3}

(* Passes and workers are interchangeable; executions are ordered. *)
Interchangeable == Permutations(Pass) \cup Permutations(Worker)

=============================================================================
