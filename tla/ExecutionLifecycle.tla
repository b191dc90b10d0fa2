------------------------- MODULE ExecutionLifecycle -------------------------
(***************************************************************************)
(* What the Execution table promises to those who read it: an execution is *)
(* queued or started at once, started at most once, and closed for good.   *)
(* Which terminal status it is closed with may still be corrected.         *)
(***************************************************************************)
CONSTANT Exec
VARIABLE phase

Init == phase = [e \in Exec |-> "new"]

Move(e, from, to) == /\ phase[e] = from
                     /\ phase' = [phase EXCEPT ![e] = to]

Queue(e)  == Move(e, "new", "queued")
Start(e)  == Move(e, "new", "active") \/ Move(e, "queued", "active")

(* A shutdown closes several executions at once. *)
Close == \E S \in SUBSET Exec :
    /\ \A e \in S : phase[e] \in {"queued", "active"}
    /\ phase' = [e \in Exec |-> IF e \in S THEN "closed" ELSE phase[e]]

Next == (\E e \in Exec : Queue(e) \/ Start(e)) \/ Close

Spec == Init /\ [][Next]_phase

=============================================================================
