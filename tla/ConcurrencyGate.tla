--------------------------- MODULE ConcurrencyGate ---------------------------
(***************************************************************************)
(* createConcurrencyGate: several loops share one bound. A caller at the   *)
(* limit waits; it takes its slot only when its continuation runs, which   *)
(* is later than the moment another call gave the slot back and woke it.   *)
(***************************************************************************)
EXTENDS Naturals, FiniteSets, Sequences

CONSTANTS
    Caller,     \* loops that call run(); a loop has one call out at a time
    GateLimit,  \* max
    MaxRuns     \* bound: calls of run(); a list has finitely many items

ASSUME GateAssumption ==
    GateLimit \in Nat \ {0} /\ MaxRuns \in Nat /\ IsFiniteSet(Caller)

VARIABLES
    active,
    queue,      \* waiting: the callers whose promise nobody resolved, oldest first
    caller,     \* where each caller is
    runs

gateVars == <<active, queue, caller, runs>>

(* woken: resolved by a finishing call, and not resumed yet. *)
CallerState == {"outside", "queued", "woken", "running"}

Callers(state) == {k \in Caller : caller[k] = state}

GateTypeOK ==
    /\ active \in 0 .. Cardinality(Caller)
    /\ queue \in Seq(Caller)
    /\ caller \in [Caller -> CallerState]
    /\ runs \in 0 .. MaxRuns

GateInit ==
    /\ active = 0
    /\ queue = << >>
    /\ caller = [k \in Caller |-> "outside"]
    /\ runs = 0

-----------------------------------------------------------------------------
Run(k) ==
    /\ caller[k] = "outside"
    /\ runs < MaxRuns
    /\ runs' = runs + 1
    /\ IF active >= GateLimit
       THEN /\ queue' = Append(queue, k)
            /\ caller' = [caller EXCEPT ![k] = "queued"]
            /\ UNCHANGED active
       ELSE /\ active' = active + 1
            /\ caller' = [caller EXCEPT ![k] = "running"]
            /\ UNCHANGED queue

(* The woken caller does not look at the limit again. *)
Continue(k) ==
    /\ caller[k] = "woken"
    /\ active' = active + 1
    /\ caller' = [caller EXCEPT ![k] = "running"]
    /\ UNCHANGED <<queue, runs>>

(* With a next one that is woken only where the gate is empty otherwise. *)
shiftAtLast(left) ==
    IF queue = << >> \/ active > 1
    THEN caller' = left /\ UNCHANGED queue
    ELSE /\ caller' = [left EXCEPT ![Head(queue)] = "woken"]
         /\ queue' = Tail(queue)

(* With the newest of the queue woken first. *)
pop(left) ==
    IF queue = << >>
    THEN caller' = left /\ UNCHANGED queue
    ELSE /\ caller' = [left EXCEPT ![queue[Len(queue)]] = "woken"]
         /\ queue' = SubSeq(queue, 1, Len(queue) - 1)

(* With nobody woken by a call that threw. *)
shiftOnReturn(left) ==
    \/ caller' = left /\ UNCHANGED queue
    \/ /\ queue # << >>
       /\ caller' = [left EXCEPT ![Head(queue)] = "woken"]
       /\ queue' = Tail(queue)

shift(left) ==
    IF queue = << >>
    THEN caller' = left /\ UNCHANGED queue
    ELSE /\ caller' = [left EXCEPT ![Head(queue)] = "woken"]
         /\ queue' = Tail(queue)

(* fn() returned or threw: the slot is given back either way. *)
Finish(k) ==
    /\ caller[k] = "running"
    /\ active' = active - 1
    /\ shift([caller EXCEPT ![k] = "outside"])
    /\ UNCHANGED runs

GateNext == \E k \in Caller : Run(k) \/ Continue(k) \/ Finish(k)

(* Continuations run, and what goes through the gate ends at some point. *)
GateFairness == \A k \in Caller : WF_gateVars(Continue(k) \/ Finish(k))

GateSpec == GateInit /\ [][GateNext]_gateVars /\ GateFairness

-----------------------------------------------------------------------------
(* While somebody waits, the gate is in full use: as many calls run or are  *)
(* about to as the limit allows. One finishing call wakes one waiter, so a  *)
(* wake-up that is lost would leave a slot empty for as long as anyone      *)
(* waits (concurrency.ts, waiting.shift()).                                 *)
NoSlotIdle ==
    queue # << >> => active + Cardinality(Callers("woken")) >= GateLimit

(* The queue is first in, first out (concurrency.ts, "the queue is FIFO"):  *)
(* of two callers that wait, the one that came first is woken first.        *)
WokenInOrder ==
    [][\A i, j \in DOMAIN queue :
          i < j /\ caller'[queue[j]] # "queued" => caller'[queue[i]] # "queued"]_gateVars

(* Every caller gets through, also when newcomers take the slot it was      *)
(* woken for.                                                               *)
EveryCallRuns ==
    \A k \in Caller : caller[k] = "queued" ~> caller[k] = "running"

=============================================================================
