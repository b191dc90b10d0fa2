-------------------------- MODULE MCSharedResources --------------------------
(***************************************************************************)
(* The connection pool, the concurrency gate and the log flusher in one    *)
(* instance. They share no variable, so a behaviour of the instance is one *)
(* of a single part, chosen at the start, the others being where they      *)
(* began. Fairness is owed by the part that moves.                         *)
(***************************************************************************)
EXTENDS ConnectionPool, ConcurrencyGate, LogFlusher

VARIABLE part

vars == <<part, poolVars, gateVars, flusherVars>>

Init == /\ part \in {"pool", "gate", "flusher"}
        /\ PoolInit /\ GateInit /\ FlusherInit

Next ==
    /\ UNCHANGED part
    /\ \/ part = "pool" /\ PoolNext /\ UNCHANGED <<gateVars, flusherVars>>
       \/ part = "gate" /\ GateNext /\ UNCHANGED <<poolVars, flusherVars>>
       \/ part = "flusher" /\ FlusherNext /\ UNCHANGED <<poolVars, gateVars>>

Fairness ==
    /\ \A b \in Borrower : /\ WF_poolVars(part = "pool" /\ Resume(b))
                          /\ WF_poolVars(part = "pool" /\ Connected(b))
                          /\ WF_poolVars(part = "pool" /\ Release(b))
    /\ \A k \in Caller : WF_gateVars(part = "gate" /\ (Continue(k) \/ Finish(k)))
    /\ WF_flusherVars(part = "flusher" /\ TimerFires)
    /\ WF_flusherVars(part = "flusher" /\ WriteReturns)
    /\ WF_flusherVars(part = "flusher" /\ Dispose)
    /\ WF_flusherVars(part = "flusher" /\ FinalUpdate)

Spec == Init /\ [][Next]_vars /\ Fairness

(* The state of each part stays within its types. *)
TypeOK == PoolTypeOK /\ GateTypeOK /\ FlusherTypeOK

=============================================================================
