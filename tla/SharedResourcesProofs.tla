------------------------ MODULE SharedResourcesProofs ------------------------
(***************************************************************************)
(* The concurrency gate: that no wake-up is lost and waiters are served in *)
(* order, for any limit and any number of callers. The log flusher: that   *)
(* no write of the run takes a line away and that its last update holds    *)
(* all it has said, for any number of entries, with fast, slow and refused *)
(* writes, forced or not, while others write the same log. And that the    *)
(* gate, the flusher and the pool of ConnectionPoolProofs keep their types *)
(* side by side in one instance.                                           *)
(***************************************************************************)
EXTENDS MCSharedResources, ConnectionPoolProofs, FiniteSetTheorems, TLAPS

-----------------------------------------------------------------------------
(* The concurrency gate.                                                   *)

(* The queue names the callers that wait, each of them once. *)
QueueWaits ==
    \A i \in 1 .. Len(queue) :
        /\ caller[queue[i]] = "queued"
        /\ \A j \in 1 .. Len(queue) : queue[i] = queue[j] => i = j

(* active is what it stands for. *)
ActiveCounts == active = Cardinality(Callers("running"))

GateIInv == GateTypeOK /\ QueueWaits /\ ActiveCounts /\ NoSlotIdle

-----------------------------------------------------------------------------
LEMMA FiniteCallers ==
    ASSUME NEW S \in SUBSET Caller
    PROVE  IsFiniteSet(S) /\ Cardinality(S) \in Nat /\ Cardinality(S) <= Cardinality(Caller)
  BY GateAssumption, FS_Subset, FS_CardinalityType

(* One caller goes from one state to another: the counts follow. *)
LEMMA StateChange ==
    ASSUME GateTypeOK, NEW k \in Caller, NEW from, NEW to, from # to,
           caller[k] = from, caller' = [caller EXCEPT ![k] = to]
    PROVE  /\ Cardinality(Callers(from)') = Cardinality(Callers(from)) - 1
           /\ Cardinality(Callers(to)') = Cardinality(Callers(to)) + 1
           /\ \A s : s # from /\ s # to => Callers(s)' = Callers(s)
<1>1. /\ Callers(from)' = Callers(from) \ {k} /\ k \in Callers(from)
      /\ Callers(to)' = Callers(to) \cup {k} /\ k \notin Callers(to)
      /\ \A s : s # from /\ s # to => Callers(s)' = Callers(s)
  BY DEF Callers, GateTypeOK
<1>2. IsFiniteSet(Callers(from)) /\ IsFiniteSet(Callers(to))
  BY FiniteCallers DEF Callers
<1>3. Cardinality(Callers(from) \ {k}) = Cardinality(Callers(from)) - 1
  BY <1>1, <1>2, FS_RemoveElement
<1>4. Cardinality(Callers(to) \cup {k}) = Cardinality(Callers(to)) + 1
  BY <1>1, <1>2, FS_AddElement
<1> QED BY <1>1, <1>3, <1>4

LEMMA GateInitIInv == GateInit => GateIInv
<1> SUFFICES ASSUME GateInit PROVE GateIInv
  OBVIOUS
<1> USE DEF GateInit
<1>1. Callers("running") = {}
  BY DEF Callers
<1>2. ActiveCounts
  BY <1>1, FS_EmptySet DEF ActiveCounts
<1>3. queue \in Seq(Caller) /\ caller \in [Caller -> CallerState]
  BY DEF CallerState
<1>4. active \in 0 .. Cardinality(Caller) /\ runs \in 0 .. MaxRuns
  BY GateAssumption, FS_CardinalityType
<1> QED BY <1>2, <1>3, <1>4 DEF GateIInv, GateTypeOK, QueueWaits, NoSlotIdle

(* The type of active follows from its meaning. *)
LEMMA ActiveType ==
    ASSUME Cardinality(Callers("running")') = active', caller' \in [Caller -> CallerState]
    PROVE  active' \in 0 .. Cardinality(Caller)
<1>1. Callers("running")' \in SUBSET Caller
  BY DEF Callers
<1>2. /\ Cardinality(Callers("running")') \in Nat
      /\ Cardinality(Callers("running")') <= Cardinality(Caller)
  BY <1>1, FiniteCallers
<1>3. Cardinality(Caller) \in Nat
  BY GateAssumption, FS_CardinalityType
<1> QED BY <1>2, <1>3

LEMMA RunIInv == ASSUME GateIInv, NEW k \in Caller, Run(k) PROVE GateIInv'
<1> USE DEF GateIInv
<1>1. /\ caller \in [Caller -> CallerState] /\ queue \in Seq(Caller)
      /\ caller[k] = "outside" /\ runs' \in 0 .. MaxRuns
      /\ active \in Nat /\ \A s : Cardinality(Callers(s)) \in Nat
  BY GateAssumption, FiniteCallers DEF Run, GateTypeOK, Callers
<1>2. CASE active >= GateLimit
  <2>1. queue' = Append(queue, k) /\ caller' = [caller EXCEPT ![k] = "queued"] /\ active' = active
    BY <1>2 DEF Run
  <2>2. Callers("running")' = Callers("running") /\ Callers("woken")' = Callers("woken")
    BY <1>1, <2>1 DEF Callers
  <2>3. ActiveCounts' /\ NoSlotIdle'
    BY <1>1, <1>2, <2>1, <2>2, GateAssumption DEF ActiveCounts, NoSlotIdle
  <2>4. GateTypeOK'
    BY <1>1, <2>1 DEF GateTypeOK, CallerState
  <2>5. QueueWaits'
    <3>1. /\ Len(queue') = Len(queue) + 1 /\ Len(queue) \in Nat
          /\ \A i \in 1 .. Len(queue) : queue'[i] = queue[i] /\ queue[i] \in Caller
          /\ queue'[Len(queue) + 1] = k
      BY <1>1, <2>1
    <3>2. \A i \in 1 .. Len(queue) : caller[queue[i]] = "queued" /\ queue[i] # k
      BY <1>1 DEF QueueWaits
    <3>3. \A i \in 1 .. Len(queue') : caller'[queue'[i]] = "queued"
      BY <1>1, <2>1, <3>1, <3>2
    <3>4. \A i, j \in 1 .. Len(queue') : queue'[i] = queue'[j] => i = j
      BY <3>1, <3>2 DEF QueueWaits
    <3> QED BY <3>3, <3>4 DEF QueueWaits
  <2> QED BY <2>3, <2>4, <2>5
<1>3. CASE ~(active >= GateLimit)
  <2>1. queue' = queue /\ caller' = [caller EXCEPT ![k] = "running"] /\ active' = active + 1
    BY <1>3 DEF Run
  <2>2. /\ Cardinality(Callers("running")') = Cardinality(Callers("running")) + 1
        /\ Callers("woken")' = Callers("woken")
    <3>1. Cardinality(Callers("running")') = Cardinality(Callers("running")) + 1
      BY <1>1, <2>1, StateChange
    <3>2. Callers("woken")' = Callers("woken")
      BY <1>1, <2>1 DEF Callers
    <3> QED BY <3>1, <3>2
  <2>3. ActiveCounts' /\ NoSlotIdle'
    BY <1>1, <2>1, <2>2, GateAssumption DEF ActiveCounts, NoSlotIdle
  <2>4. GateTypeOK'
    BY <1>1, <2>1, <2>3, ActiveType DEF GateTypeOK, CallerState, ActiveCounts
  <2>5. QueueWaits'
    BY <1>1, <2>1 DEF QueueWaits
  <2> QED BY <2>3, <2>4, <2>5
<1> QED BY <1>2, <1>3

LEMMA ContinueIInv == ASSUME GateIInv, NEW k \in Caller, Continue(k) PROVE GateIInv'
<1> USE DEF GateIInv, Continue
<1>1. /\ caller \in [Caller -> CallerState] /\ queue \in Seq(Caller)
      /\ active \in Nat /\ \A s : Cardinality(Callers(s)) \in Nat
  BY GateAssumption, FiniteCallers DEF GateTypeOK, Callers
<1>2. /\ Cardinality(Callers("running")') = Cardinality(Callers("running")) + 1
      /\ Cardinality(Callers("woken")') = Cardinality(Callers("woken")) - 1
  BY <1>1, StateChange
<1>3. ActiveCounts' /\ NoSlotIdle'
  BY <1>1, <1>2, GateAssumption DEF ActiveCounts, NoSlotIdle
<1>4. GateTypeOK'
  BY <1>1, <1>3, ActiveType DEF GateTypeOK, CallerState, ActiveCounts
<1>5. QueueWaits'
  BY <1>1 DEF QueueWaits
<1> QED BY <1>3, <1>4, <1>5

LEMMA FinishIInv == ASSUME GateIInv, NEW k \in Caller, Finish(k) PROVE GateIInv'
<1> USE DEF GateIInv
<1> DEFINE left == [caller EXCEPT ![k] = "outside"]
           L(s) == {c \in Caller : left[c] = s}
<1>1. /\ caller \in [Caller -> CallerState] /\ queue \in Seq(Caller)
      /\ caller[k] = "running" /\ active' = active - 1 /\ runs' = runs /\ shift(left)
      /\ active \in Nat /\ \A s : Cardinality(Callers(s)) \in Nat
      /\ active = Cardinality(Callers("running"))
  BY GateAssumption, FiniteCallers DEF Finish, GateTypeOK, Callers, ActiveCounts
<1>2. /\ L("running") = Callers("running") \ {k} /\ k \in Callers("running")
      /\ L("woken") = Callers("woken")
      /\ left \in [Caller -> CallerState]
  BY <1>1 DEF Callers, CallerState
<1>3. Cardinality(L("running")) = active - 1
  <2>1. IsFiniteSet(Callers("running"))
    BY FiniteCallers DEF Callers
  <2>2. Cardinality(Callers("running") \ {k}) = Cardinality(Callers("running")) - 1
    BY <1>2, <2>1, FS_RemoveElement
  <2> QED BY <1>1, <1>2, <2>2
<1>4. CASE queue = << >>
  <2>1. caller' = left /\ queue' = queue
    BY <1>1, <1>4 DEF shift
  <2>2. Callers("running")' = L("running")
    BY <2>1 DEF Callers
  <2>3. ActiveCounts'
    BY <1>1, <1>3, <2>2 DEF ActiveCounts
  <2>4. GateTypeOK'
    BY <1>1, <1>2, <2>1, <2>3, ActiveType DEF GateTypeOK, ActiveCounts
  <2> QED BY <1>4, <2>1, <2>3, <2>4 DEF QueueWaits, NoSlotIdle
<1>5. CASE queue # << >>
  <2> DEFINE h == Head(queue)
  <2>1. /\ h \in Caller /\ h = queue[1] /\ 1 \in 1 .. Len(queue)
        /\ queue' = Tail(queue) /\ queue' \in Seq(Caller)
        /\ Len(queue') = Len(queue) - 1
        /\ \A i \in 1 .. Len(queue') : queue'[i] = queue[i + 1] /\ i + 1 \in 1 .. Len(queue)
    <3>1. queue' = Tail(queue)
      BY <1>1, <1>5 DEF shift
    <3>2. /\ Head(queue) \in Caller /\ Head(queue) = queue[1] /\ 1 \in 1 .. Len(queue)
          /\ Tail(queue) \in Seq(Caller) /\ Len(Tail(queue)) = Len(queue) - 1
      BY <1>1, <1>5
    <3>3. \A i \in 1 .. Len(Tail(queue)) :
             Tail(queue)[i] = queue[i + 1] /\ i + 1 \in 1 .. Len(queue)
      BY <1>1, <1>5
    <3> QED BY <3>1, <3>2, <3>3
  <2>2. caller' = [left EXCEPT ![h] = "woken"] /\ caller[h] = "queued" /\ h # k
    BY <1>1, <1>5, <2>1 DEF shift, QueueWaits
  <2>3. /\ Callers("running")' = L("running")
        /\ Callers("woken")' = Callers("woken") \cup {h} /\ h \notin Callers("woken")
    BY <1>2, <2>1, <2>2 DEF Callers
  <2>4. Cardinality(Callers("woken")') = Cardinality(Callers("woken")) + 1
    <3>1. IsFiniteSet(Callers("woken"))
      BY FiniteCallers DEF Callers
    <3>2. Cardinality(Callers("woken") \cup {h}) = Cardinality(Callers("woken")) + 1
      BY <2>3, <3>1, FS_AddElement
    <3> QED BY <2>3, <3>2
  <2>5. ActiveCounts'
    BY <1>1, <1>3, <2>3 DEF ActiveCounts
  <2>6. NoSlotIdle'
    BY <1>1, <1>5, <2>4, GateAssumption DEF NoSlotIdle
  <2>7. caller' \in [Caller -> CallerState]
    BY <1>2, <2>1, <2>2 DEF CallerState
  <2>8. GateTypeOK'
    BY <1>1, <2>1, <2>5, <2>7, ActiveType DEF GateTypeOK, ActiveCounts
  <2>9. \A i \in 1 .. Len(queue') : queue'[i] \in Caller /\ caller'[queue'[i]] = "queued"
    <3>1. \A i \in 1 .. Len(queue') :
             queue'[i] \in Caller /\ queue'[i] # h /\ queue'[i] # k /\ caller[queue'[i]] = "queued"
      BY <1>1, <2>1 DEF QueueWaits
    <3> QED BY <1>1, <2>1, <2>2, <3>1
  <2>10. QueueWaits'
    BY <2>1, <2>9 DEF QueueWaits
  <2> QED BY <2>5, <2>6, <2>8, <2>10
<1> QED BY <1>4, <1>5

LEMMA GateNextIInv == GateIInv /\ [GateNext]_gateVars => GateIInv'
<1>1. ASSUME GateIInv, UNCHANGED gateVars PROVE GateIInv'
  BY <1>1 DEF gateVars, GateIInv, GateTypeOK, QueueWaits, ActiveCounts, NoSlotIdle, Callers
<1> QED BY <1>1, RunIInv, ContinueIInv, FinishIInv DEF GateNext

-----------------------------------------------------------------------------
(* The inductive invariant: types, who is in the queue, what active counts. *)
THEOREM GateInvariance == GateSpec => []GateIInv
  BY GateInitIInv, GateNextIInv, PTL DEF GateSpec

(* waiting.shift() wakes one caller for each call that ends, and newcomers  *)
(* that take the slot first keep the gate full: while somebody waits as     *)
(* many calls run, or are about to, as the limit allows.                    *)
THEOREM GateInFullUse == GateSpec => []NoSlotIdle
<1>1. GateIInv => NoSlotIdle
  BY DEF GateIInv
<1> QED BY GateInvariance, <1>1, PTL

(* One step of the gate resolves the promise of one caller at most, and it  *)
(* is the one that has waited longest.                                      *)
InOrder == \A i, j \in DOMAIN queue :
    i < j /\ caller'[queue[j]] # "queued" => caller'[queue[i]] # "queued"

LEMMA NextInOrder == GateIInv /\ [GateNext]_gateVars => InOrder
<1> SUFFICES ASSUME GateIInv, [GateNext]_gateVars,
                    NEW i \in DOMAIN queue, NEW j \in DOMAIN queue,
                    i < j, caller'[queue[j]] # "queued"
             PROVE  FALSE
  BY DEF InOrder
<1>1. /\ caller \in [Caller -> CallerState] /\ queue \in Seq(Caller)
      /\ i \in 1 .. Len(queue) /\ j \in 1 .. Len(queue) /\ Len(queue) \in Nat
      /\ queue[j] \in Caller /\ caller[queue[j]] = "queued" /\ queue[j] # queue[1]
      /\ queue # << >>
  BY DEF GateIInv, GateTypeOK, QueueWaits
<1>2. CASE UNCHANGED gateVars
  BY <1>1, <1>2 DEF gateVars
<1>3. ASSUME NEW k \in Caller, Run(k)
      PROVE  FALSE
  <2>1. caller[k] = "outside" /\ \E s : caller' = [caller EXCEPT ![k] = s]
    BY <1>3 DEF Run
  <2> QED BY <1>1, <2>1
<1>4. ASSUME NEW k \in Caller, Continue(k)
      PROVE  FALSE
  BY <1>1, <1>4 DEF Continue
<1>5. ASSUME NEW k \in Caller, Finish(k)
      PROVE  FALSE
  <2>1. /\ caller[k] = "running"
        /\ caller' = [[caller EXCEPT ![k] = "outside"] EXCEPT ![Head(queue)] = "woken"]
    BY <1>1, <1>5 DEF Finish, shift
  <2>2. Head(queue) = queue[1]
    BY <1>1
  <2> QED BY <1>1, <2>1, <2>2
<1> QED BY <1>2, <1>3, <1>4, <1>5 DEF GateNext

(* Of two callers in the queue the one that came first is woken first: the  *)
(* callers in it are all waiting, each of them stands in it once, and       *)
(* waiting.shift() takes the head.                                          *)
THEOREM QueueIsFifo == GateSpec => WokenInOrder
<1>1. GateIInv /\ [GateNext]_gateVars => InOrder
  BY NextInOrder
<1>2. GateSpec => [][InOrder]_gateVars
  BY <1>1, GateInvariance, PTL DEF GateSpec
<1> QED BY <1>2 DEF WokenInOrder, InOrder

-----------------------------------------------------------------------------
(* The log flusher.                                                        *)

(* What the row holds, and what others have read of it, is a prefix of the *)
(* buffer.                                                                  *)
RowIsPrefix == row.upTo <= entries /\ cancel.log <= entries /\ sweep.log <= entries

FlusherIInv == FlusherTypeOK /\ RowIsPrefix

Rows == [upTo : Lengths, final : BOOLEAN, open : BOOLEAN]

-----------------------------------------------------------------------------
(* What a step of the run may do: the row it leaves is the old one or the   *)
(* buffer, and only the final update marks it final.                        *)
RunEffect ==
    /\ \/ row' = row
       \/ row' = [upTo |-> entries', final |-> FALSE, open |-> row.open]
       \/ row' = [upTo |-> entries, final |-> TRUE, open |-> FALSE] /\ entries' = entries
    /\ lost' \in {lost, entries'}
    /\ elapsed' \in BOOLEAN
    /\ writing' \in {"no", "first", "repeat"}
    /\ repeatRequested' \in BOOLEAN
    /\ timer' \in BOOLEAN

LEMMA WriteEffect ==
    ASSUME FlusherTypeOK, NEW n \in Nat, entries' = n, NEW as \in {"first", "repeat"},
           write(n, as), timer' \in BOOLEAN, repeatRequested' \in BOOLEAN
    PROVE  RunEffect
<1>1. CASE Stored(n)
  BY <1>1 DEF write, Stored, RunEffect
<1>2. CASE Refused(n)
  BY <1>2 DEF write, Refused, RunEffect
<1> QED BY <1>1, <1>2 DEF write

LEMMA RunsEffect ==
    ASSUME FlusherTypeOK, NEW n \in Nat, entries' = n, run(n), timer' \in BOOLEAN
    PROVE  RunEffect
<1>1. CASE writing # "no"
  BY <1>1 DEF run, FlusherTypeOK, RunEffect
<1>2. CASE ~(writing # "no")
  <2>1. write(n, "first") /\ repeatRequested' \in BOOLEAN
    BY <1>2 DEF run, FlusherTypeOK
  <2> QED BY <2>1, WriteEffect
<1> QED BY <1>1, <1>2

LEMMA ScheduleEffect ==
    ASSUME FlusherTypeOK, NEW n \in Nat, entries' = n, schedule(n)
    PROVE  RunEffect
<1>1. CASE timer
  BY <1>1 DEF schedule, flusher, FlusherTypeOK, RunEffect
<1>2. CASE ~timer /\ elapsed
  <2>1. run(n) /\ timer' \in BOOLEAN
    BY <1>2 DEF schedule, FlusherTypeOK
  <2> QED BY <2>1, RunsEffect
<1>3. CASE ~timer /\ ~elapsed
  BY <1>3 DEF schedule, FlusherTypeOK, RunEffect
<1> QED BY <1>1, <1>2, <1>3

(* The steps of the run and of its flusher. *)
RunSteps == \/ Log \/ ForcedLog \/ TimerFires \/ IntervalOver \/ WriteReturns
            \/ EndRun \/ Dispose \/ FinalUpdate

(* Whatever a step of the run does to the row, it writes the buffer as it   *)
(* then is.                                                                 *)
LEMMA RunStepEffect ==
    ASSUME FlusherIInv, RunSteps
    PROVE  /\ entries' \in Nat /\ entries <= entries' /\ entries' <= MaxEntries
           /\ phase' \in {"running", "flushing", "disposed", "final"}
           /\ isTask' = isTask /\ cancel' = cancel /\ sweep' = sweep
           /\ RunEffect
<1>0. /\ entries \in Nat /\ entries <= MaxEntries /\ MaxEntries \in Nat
      /\ timer \in BOOLEAN /\ FlusherTypeOK
      /\ phase \in {"running", "flushing", "disposed", "final"}
  BY FlusherAssumption DEF FlusherIInv, FlusherTypeOK, Lengths
<1>1. CASE Log
  <2>1. /\ entries' = entries + 1 /\ entries' <= MaxEntries /\ schedule(entries + 1)
        /\ phase' = phase /\ isTask' = isTask /\ cancel' = cancel /\ sweep' = sweep
    BY <1>0, <1>1 DEF Log, others
  <2>2. RunEffect
    BY <1>0, <2>1, ScheduleEffect
  <2> QED BY <1>0, <2>1, <2>2
<1>2. CASE ForcedLog
  <2>1. /\ entries < MaxEntries /\ entries' = entries + 1
        /\ phase' = phase /\ isTask' = isTask /\ cancel' = cancel /\ sweep' = sweep
    BY <1>2 DEF ForcedLog, others
  <2>2. timer' = FALSE /\ run(entries + 1)
    BY <1>2, Zenon DEF ForcedLog, flush
  <2>3. timer' \in BOOLEAN
    BY <2>2
  <2>4. entries' <= MaxEntries /\ entries + 1 \in Nat
    BY <1>0, <2>1
  <2>5. RunEffect
    BY <1>0, <2>1, <2>2, <2>3, <2>4, RunsEffect, Zenon
  <2> QED BY <1>0, <2>1, <2>4, <2>5
<1>3. CASE TimerFires
  <2>1. /\ entries' = entries /\ run(entries) /\ timer' = FALSE /\ phase' = phase
        /\ isTask' = isTask /\ cancel' = cancel /\ sweep' = sweep
    BY <1>3 DEF TimerFires, others
  <2>2. RunEffect
    BY <1>0, <2>1, RunsEffect
  <2> QED BY <1>0, <2>1, <2>2
<1>4. CASE IntervalOver
  BY <1>0, <1>4 DEF IntervalOver, FlusherTypeOK, RunEffect, others
<1>5. CASE WriteReturns
  <2>1. /\ entries' = entries /\ timer' = timer /\ phase' = phase
        /\ isTask' = isTask /\ cancel' = cancel /\ sweep' = sweep
    BY <1>5 DEF WriteReturns, others
  <2>2. ASSUME repeatRequested' = FALSE, write(entries, "repeat") PROVE RunEffect
    <3>1. timer' \in BOOLEAN /\ repeatRequested' \in BOOLEAN
      BY <1>0, <2>1, <2>2
    <3>2. "repeat" \in {"first", "repeat"}
      OBVIOUS
    <3> QED BY <1>0, <2>1, <2>2, <3>1, <3>2, WriteEffect, Zenon
  <2>3. CASE writing' = "no" /\ UNCHANGED <<row, lost, elapsed, repeatRequested>>
    BY <1>0, <2>1, <2>3 DEF FlusherTypeOK, RunEffect
  <2>4. RunEffect
    BY <1>5, <2>2, <2>3 DEF WriteReturns
  <2> QED BY <1>0, <2>1, <2>4
<1>6. CASE EndRun
  <2>1. /\ entries' = entries /\ run(entries) /\ timer' = FALSE
        /\ phase' \in {"flushing", "disposed"}
        /\ isTask' = isTask /\ cancel' = cancel /\ sweep' = sweep
    BY <1>6 DEF EndRun, flush, others
  <2>2. RunEffect
    BY <1>0, <2>1, RunsEffect
  <2> QED BY <1>0, <2>1, <2>2
<1>7. CASE Dispose
  <2>1. /\ entries' = entries /\ row' = row /\ lost' = lost /\ phase' = "disposed"
        /\ elapsed' = elapsed /\ writing' = writing /\ repeatRequested' = repeatRequested
        /\ timer' \in BOOLEAN
        /\ isTask' = isTask /\ cancel' = cancel /\ sweep' = sweep
    BY <1>7 DEF Dispose, others
  <2>2. RunEffect
    BY <1>0, <2>1 DEF FlusherTypeOK, RunEffect
  <2> QED BY <1>0, <2>1, <2>2
<1>8. CASE FinalUpdate
  <2>1. /\ entries' = entries /\ phase' = "final" /\ elapsed' = elapsed
        /\ writing' = writing /\ repeatRequested' = repeatRequested /\ timer' = timer
        /\ isTask' = isTask /\ cancel' = cancel /\ sweep' = sweep
        /\ \/ row' = FinalRow /\ lost' = lost
           \/ row' = row /\ lost' = entries
    BY <1>8 DEF FinalUpdate, Refused, others
  <2>2. RunEffect
    BY <1>0, <2>1 DEF FinalRow, FlusherTypeOK, RunEffect
  <2> QED BY <1>0, <2>1, <2>2
<1> QED BY <1>1, <1>2, <1>3, <1>4, <1>5, <1>6, <1>7, <1>8 DEF RunSteps

-----------------------------------------------------------------------------
(* What a step of a cancel request or of the watchdog may do: read the log, *)
(* or put what it has read over the row, which then is neither final nor    *)
(* open; the watchdog does so only to an open row.                          *)
OtherSteps == CancelRead \/ CancelReadLog \/ CancelWrite \/ SweepRead \/ SweepWrite

OtherEffect ==
    /\ RunUnchanged
    /\ \/ row' = row /\ lost' = lost
       \/ \E n \in {cancel.log, sweep.log} :
             row' = [upTo |-> n, final |-> FALSE, open |-> FALSE] /\ lost' = entries
    /\ row' # row => \/ cancel.pc = "writing" /\ cancel'.pc = "none"
                     \/ row.open /\ sweep.pc = "listed" /\ sweep'.pc = "none"
    /\ cancel' \in [pc : {"none", "sawRunning", "writing"}, log : Lengths]
    /\ sweep' \in [pc : {"none", "listed"}, log : Lengths]
    /\ cancel'.log \in {cancel.log, row.upTo, 0}
    /\ sweep'.log \in {sweep.log, row.upTo, 0}

LEMMA OtherStepEffect == ASSUME FlusherIInv, OtherSteps PROVE OtherEffect
<1>0. /\ row \in Rows /\ 0 \in Lengths
      /\ cancel \in [pc : {"none", "sawRunning", "writing"}, log : Lengths]
      /\ sweep \in [pc : {"none", "listed"}, log : Lengths]
  BY FlusherAssumption DEF FlusherIInv, FlusherTypeOK, Rows, Lengths
<1>1. CASE CancelRead
  <2>1. cancel' = [cancel EXCEPT !.pc = "sawRunning"] /\ row' = row /\ lost' = lost
        /\ sweep' = sweep /\ RunUnchanged
    BY <1>1 DEF CancelRead
  <2> QED BY <1>0, <2>1 DEF OtherEffect
<1>2. CASE CancelReadLog
  <2>1. /\ cancel' = NoOther \/ cancel' = [pc |-> "writing", log |-> row.upTo]
        /\ row' = row /\ lost' = lost /\ sweep' = sweep /\ RunUnchanged
    BY <1>2 DEF CancelReadLog
  <2>2. row.upTo \in Lengths
    BY <1>0 DEF Rows
  <2> QED BY <1>0, <2>1, <2>2 DEF OtherEffect, NoOther
<1>3. CASE CancelWrite
  <2>1. /\ cancel.pc = "writing" /\ cancel' = NoOther /\ sweep' = sweep /\ RunUnchanged
        /\ row' = [upTo |-> cancel.log, final |-> FALSE, open |-> FALSE] /\ lost' = entries
    BY <1>3 DEF CancelWrite, Overwrite
  <2> QED BY <1>0, <2>1 DEF OtherEffect, NoOther
<1>4. CASE SweepRead
  <2>1. /\ sweep' = [pc |-> "listed", log |-> row.upTo]
        /\ row' = row /\ lost' = lost /\ cancel' = cancel /\ RunUnchanged
    BY <1>4 DEF SweepRead
  <2>2. row.upTo \in Lengths
    BY <1>0 DEF Rows
  <2> QED BY <1>0, <2>1, <2>2 DEF OtherEffect
<1>5. CASE SweepWrite
  <2>1. /\ sweep.pc = "listed" /\ sweep' = NoOther /\ cancel' = cancel /\ RunUnchanged
        /\ \/ row' = row /\ lost' = lost
           \/ /\ row.open
              /\ row' = [upTo |-> sweep.log, final |-> FALSE, open |-> FALSE]
              /\ lost' = entries
    BY <1>5 DEF SweepWrite, Overwrite, StillRunning
  <2> QED BY <1>0, <2>1 DEF OtherEffect, NoOther
<1> QED BY <1>1, <1>2, <1>3, <1>4, <1>5 DEF OtherSteps

-----------------------------------------------------------------------------
LEMMA FlusherInitIInv == FlusherInit => FlusherIInv
<1> SUFFICES ASSUME FlusherInit PROVE FlusherIInv
  OBVIOUS
<1> USE FlusherAssumption DEF FlusherInit, NoOther, Lengths
<1>1. /\ row.upTo = 0 /\ entries = 0 /\ 0 \in 0 .. MaxEntries
      /\ row \in [upTo : Lengths, final : BOOLEAN, open : BOOLEAN]
  OBVIOUS
<1>2. elapsed \in BOOLEAN /\ repeatRequested \in BOOLEAN /\ timer \in BOOLEAN
  OBVIOUS
<1>3. /\ cancel \in [pc : {"none", "sawRunning", "writing"}, log : Lengths] /\ cancel.log = 0
      /\ sweep \in [pc : {"none", "listed"}, log : Lengths] /\ sweep.log = 0
  BY <1>1
<1> QED BY <1>1, <1>2, <1>3 DEF FlusherIInv, FlusherTypeOK, RowIsPrefix

LEMMA FlusherNextIInv == FlusherIInv /\ [FlusherNext]_flusherVars => FlusherIInv'
<1>0. ASSUME FlusherIInv
      PROVE  /\ row \in Rows /\ row.upTo <= entries /\ entries \in Nat /\ MaxEntries \in Nat
             /\ entries <= MaxEntries /\ lost \in Lengths
             /\ row.upTo \in Nat /\ row.open \in BOOLEAN
             /\ cancel \in [pc : {"none", "sawRunning", "writing"}, log : Lengths]
             /\ sweep \in [pc : {"none", "listed"}, log : Lengths]
             /\ cancel.log \in Nat /\ cancel.log <= entries
             /\ sweep.log \in Nat /\ sweep.log <= entries
             /\ isTask \in BOOLEAN
  BY <1>0, FlusherAssumption DEF FlusherIInv, FlusherTypeOK, RowIsPrefix, Rows, Lengths
<1>1. ASSUME FlusherIInv, RunSteps PROVE FlusherIInv'
  <2>1. /\ entries' \in Nat /\ entries <= entries' /\ entries' <= MaxEntries
        /\ phase' \in {"running", "flushing", "disposed", "final"}
        /\ isTask' = isTask /\ cancel' = cancel /\ sweep' = sweep /\ RunEffect
    BY <1>1, RunStepEffect
  <2>2. row' \in Rows /\ row'.upTo <= entries'
    <3>1. CASE row' = row
      BY <1>0, <1>1, <2>1, <3>1
    <3>2. CASE row' = [upTo |-> entries', final |-> FALSE, open |-> row.open]
      BY <1>0, <1>1, <2>1, <3>2 DEF Rows, Lengths
    <3>3. CASE row' = [upTo |-> entries, final |-> TRUE, open |-> FALSE]
      BY <1>0, <1>1, <2>1, <3>3 DEF Rows, Lengths
    <3> QED BY <2>1, <3>1, <3>2, <3>3 DEF RunEffect
  <2>3. entries' \in Lengths /\ lost' \in Lengths
    BY <1>0, <1>1, <2>1 DEF RunEffect, Lengths
  <2>4. cancel'.log <= entries' /\ sweep'.log <= entries'
    BY <1>0, <1>1, <2>1
  <2>5. FlusherTypeOK'
    BY <1>0, <1>1, <2>1, <2>2, <2>3 DEF RunEffect, FlusherTypeOK, Rows, Lengths
  <2> QED BY <2>2, <2>4, <2>5 DEF FlusherIInv, RowIsPrefix
<1>2. ASSUME FlusherIInv, OtherSteps PROVE FlusherIInv'
  <2>1. OtherEffect
    BY <1>2, OtherStepEffect
  <2>2. row' \in Rows /\ row'.upTo <= entries
    <3>1. CASE row' = row
      BY <1>0, <1>2, <3>1
    <3>2. ASSUME NEW n \in {cancel.log, sweep.log},
                 row' = [upTo |-> n, final |-> FALSE, open |-> FALSE]
          PROVE  row' \in Rows /\ row'.upTo <= entries
      BY <1>0, <1>2, <3>2 DEF Rows, Lengths
    <3> QED BY <2>1, <3>1, <3>2 DEF OtherEffect
  <2>3. lost' \in Lengths
    BY <1>0, <1>2, <2>1 DEF OtherEffect, Lengths
  <2>4. cancel'.log <= entries /\ sweep'.log <= entries
    BY <1>0, <1>2, <2>1 DEF OtherEffect
  <2>5. /\ entries' = entries /\ phase' = phase /\ isTask' = isTask /\ timer' = timer
        /\ elapsed' = elapsed /\ writing' = writing /\ repeatRequested' = repeatRequested
        /\ cancel' \in [pc : {"none", "sawRunning", "writing"}, log : Lengths]
        /\ sweep' \in [pc : {"none", "listed"}, log : Lengths]
    BY <2>1 DEF OtherEffect, RunUnchanged
  <2>6. FlusherTypeOK'
    BY <1>2, <2>2, <2>3, <2>5 DEF FlusherIInv, FlusherTypeOK, Rows, Lengths
  <2> QED BY <2>2, <2>4, <2>5, <2>6 DEF FlusherIInv, RowIsPrefix
<1>3. ASSUME FlusherIInv, UNCHANGED flusherVars PROVE FlusherIInv'
  BY <1>3 DEF flusherVars, flusher, others, FlusherIInv, FlusherTypeOK, RowIsPrefix, Lengths
<1> QED BY <1>1, <1>2, <1>3 DEF FlusherNext, RunSteps, OtherSteps

-----------------------------------------------------------------------------
(* The inductive invariant: the types, and what the row holds of the log,   *)
(* or others have read of it, is never more than the run has said.          *)
THEOREM FlusherInvariance == FlusherSpec => []FlusherIInv
  BY FlusherInitIInv, FlusherNextIInv, PTL DEF FlusherSpec

(* What NoLineLost says of one step. *)
Shortened == row'.upTo < row.upTo
ByOther == \/ cancel.pc = "writing" /\ cancel'.pc = "none"
           \/ row.open /\ sweep.pc = "listed" /\ sweep'.pc = "none"
EndsWhole == row'.final /\ ~row.final => row'.upTo = entries
LinesKept == (Shortened => ByOther) /\ EndsWhole

(* No write of a run, deferred, late or the last, shortens the stored log,  *)
(* whatever the database refuses; the update that ends the run stores all   *)
(* of it; the watchdog shortens it only while the row is Running, and a     *)
(* cancel request with the one write it has left.                           *)
THEOREM LinesStay == FlusherSpec => NoLineLost
<1>1. ASSUME FlusherIInv, RunSteps PROVE ~Shortened /\ EndsWhole
  <2>1. /\ row \in Rows /\ row.upTo \in Nat /\ row.upTo <= entries /\ entries \in Nat
    BY <1>1, FlusherAssumption DEF FlusherIInv, FlusherTypeOK, RowIsPrefix, Rows, Lengths
  <2>2. entries' \in Nat /\ entries <= entries' /\ RunEffect
    BY <1>1, RunStepEffect
  <2>3. CASE row' = row
    BY <2>1, <2>3 DEF Shortened, EndsWhole
  <2>4. CASE row' = [upTo |-> entries', final |-> FALSE, open |-> row.open]
    BY <2>1, <2>2, <2>4 DEF Shortened, EndsWhole
  <2>5. CASE row' = [upTo |-> entries, final |-> TRUE, open |-> FALSE]
    BY <2>1, <2>5 DEF Shortened, EndsWhole
  <2> QED BY <2>2, <2>3, <2>4, <2>5 DEF RunEffect
<1>2. ASSUME FlusherIInv, OtherSteps PROVE (Shortened => ByOther) /\ EndsWhole
  <2>1. OtherEffect /\ row \in Rows
    BY <1>2, OtherStepEffect DEF FlusherIInv, FlusherTypeOK, Rows
  <2>2. CASE row' = row
    <3>1. row.upTo \in Nat
      BY <2>1, FlusherAssumption DEF Rows, Lengths
    <3> QED BY <2>2, <3>1 DEF Shortened, EndsWhole
  <2>3. CASE row' # row
    <3>1. ByOther /\ ~row'.final
      BY <2>1, <2>3 DEF OtherEffect, ByOther
    <3> QED BY <3>1 DEF EndsWhole
  <2> QED BY <2>2, <2>3
<1>3. FlusherIInv /\ [FlusherNext]_flusherVars
        => [LinesKept]_flusherVars
  BY <1>1, <1>2 DEF FlusherNext, RunSteps, OtherSteps, LinesKept
<1>4. FlusherSpec => [][LinesKept]_flusherVars
  BY FlusherInvariance, <1>3, PTL DEF FlusherSpec
<1> QED BY <1>4, PTL DEF NoLineLost, LinesKept, Shortened, ByOther, EndsWhole

-----------------------------------------------------------------------------
(* The three in one instance.                                              *)

Parts == IInv /\ GateIInv /\ FlusherIInv

LEMMA PartsStart == Init => Parts
  BY InitIInv, GateInitIInv, FlusherInitIInv DEF Init, Parts

(* A step of one part leaves the others alone. *)
LEMMA PartsStep ==
    [Next]_vars => [PoolNext]_poolVars /\ [GateNext]_gateVars /\ [FlusherNext]_flusherVars
  BY DEF Next, vars

LEMMA PartsKeep == Parts /\ [Next]_vars => Parts'
  BY PartsStep, NextIInv, GateNextIInv, FlusherNextIInv DEF Parts

(* Every variable of the three keeps its type, whichever of them moves.     *)
THEOREM ResourceTypes == Spec => []TypeOK
<1>1. Parts => TypeOK
  BY DEF Parts, IInv, GateIInv, FlusherIInv, TypeOK
<1> QED BY PartsStart, PartsKeep, <1>1, PTL DEF Spec

=============================================================================
