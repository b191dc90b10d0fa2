----------------------------- MODULE LogFlusher -----------------------------
(***************************************************************************)
(* createLogFlusher and the run that uses it: progress writes of one       *)
(* execution, at most one per interval, deferred by a timer, and the final *)
(* update of the same row when the run ends; and the two others who read   *)
(* the log of that row and write it back: a cancel request and the         *)
(* watchdog. A query takes effect in the order of issue, or is refused;    *)
(* its answer comes later.                                                 *)
(***************************************************************************)
EXTENDS Naturals

CONSTANTS
    MaxEntries,  \* bound: entries a run logs
    SlowWrites   \* bound: may a run() of the flusher outlast the interval

ASSUME FlusherAssumption == MaxEntries \in Nat /\ SlowWrites \in BOOLEAN

VARIABLES
    isTask,           \* a system task: it forces writes and is not registered
    entries,          \* length of the live log buffer
    row,              \* what the database holds of it, was that the final update,
                      \* and is the status Running
    elapsed,          \* the interval since lastWrite is over
    writing,          \* "no", or which write of run() is in flight
    repeatRequested,
    timer,            \* a deferred write is armed
    phase,            \* the run: "running", "flushing", "disposed", "final"
    cancel,           \* a cancel request, and how much of the log it has read
    sweep,            \* the watchdog's sweep, likewise
    lost              \* history: entries up to which a refused write, or the
                      \* write of another, has kept lines out of the row

flusher == <<elapsed, writing, repeatRequested, timer, row, lost>>
others == <<cancel, sweep>>
flusherVars == <<isTask, entries, flusher, phase, others>>

Lengths == 0 .. MaxEntries

FlusherTypeOK ==
    /\ isTask \in BOOLEAN
    /\ entries \in Lengths
    /\ row \in [upTo : Lengths, final : BOOLEAN, open : BOOLEAN]
    /\ elapsed \in BOOLEAN
    /\ writing \in {"no", "first", "repeat"}
    /\ repeatRequested \in BOOLEAN
    /\ timer \in BOOLEAN
    /\ phase \in {"running", "flushing", "disposed", "final"}
    /\ cancel \in [pc : {"none", "sawRunning", "writing"}, log : Lengths]
    /\ sweep \in [pc : {"none", "listed"}, log : Lengths]
    /\ lost \in Lengths

NoOther == [pc |-> "none", log |-> 0]

(* A request may have read the row before the claim, or before the run was *)
(* registered, and have its update still to issue.                         *)
FlusherInit ==
    /\ isTask \in BOOLEAN
    /\ entries = 0
    /\ row = [upTo |-> 0, final |-> FALSE, open |-> TRUE]
    /\ elapsed = TRUE
    /\ writing = "no"
    /\ repeatRequested = FALSE
    /\ timer = FALSE
    /\ phase = "running"
    /\ cancel \in {NoOther, [NoOther EXCEPT !.pc = "writing"]}
    /\ sweep = NoOther
    /\ lost = 0

-----------------------------------------------------------------------------
(* The row gets n entries of the log; its status is not in the update. *)
Stored(n) == row' = [upTo |-> n, final |-> FALSE, open |-> row.open] /\ UNCHANGED lost

(* The database refuses an update that carries n entries. *)
Refused(n) == lost' = n /\ UNCHANGED row

(* With a count that includes an entry not in the buffer yet. *)
writeOneMore(n, as) == Stored(n + 1) /\ elapsed' = FALSE /\ writing' = as

(* write() reads the buffer when it is issued. A refused update is logged   *)
(* and forgotten: lastWrite is set already, and nobody is told.             *)
write(n, as) == (Stored(n) \/ Refused(n)) /\ elapsed' = FALSE /\ writing' = as

run(n) == IF writing # "no"
          THEN repeatRequested' = TRUE /\ UNCHANGED <<row, lost, elapsed, writing>>
          ELSE write(n, "first") /\ UNCHANGED repeatRequested

(* With a throttle that drops what it is asked inside the interval. *)
scheduleDropping(n) ==
    IF timer \/ ~elapsed THEN UNCHANGED flusher ELSE run(n) /\ UNCHANGED timer

(* n is the length of the buffer, the new entry included. *)
schedule(n) ==
    IF timer THEN UNCHANGED flusher
    ELSE IF elapsed THEN run(n) /\ UNCHANGED timer
    ELSE timer' = TRUE /\ UNCHANGED <<elapsed, writing, repeatRequested, row, lost>>

flush(n) == timer' = FALSE /\ run(n)

-----------------------------------------------------------------------------
(* logEntry, setStage, updateDetail: also during stepCleanup and the        *)
(* notifications, when the flusher is disposed already.                     *)
Log == /\ entries < MaxEntries
       /\ phase # "flushing"
       /\ entries' = entries + 1
       /\ schedule(entries + 1)
       /\ UNCHANGED <<isTask, phase, others>>

(* SystemTaskRunner.setStage *)
ForcedLog == /\ isTask
             /\ phase = "running"
             /\ entries < MaxEntries
             /\ entries' = entries + 1
             /\ flush(entries + 1)
             /\ UNCHANGED <<isTask, phase, others>>

(* At the end of an interval; a fast write has returned by then. *)
IntervalEnds == SlowWrites \/ writing = "no"

TimerFires == /\ timer
              /\ IntervalEnds
              /\ timer' = FALSE
              /\ run(entries)
              /\ UNCHANGED <<isTask, entries, phase, others>>

IntervalOver == /\ ~elapsed
                /\ IntervalEnds
                /\ elapsed' = TRUE
                /\ UNCHANGED <<isTask, entries, row, lost, writing, repeatRequested,
                               timer, phase, others>>

(* One repeat for whatever was asked for while the first write was out. *)
WriteReturns ==
    /\ \/ /\ writing = "first" /\ repeatRequested
          /\ repeatRequested' = FALSE
          /\ write(entries, "repeat")
       \/ /\ writing = "repeat" \/ (writing = "first" /\ ~repeatRequested)
          /\ writing' = "no"
          /\ UNCHANGED <<row, lost, elapsed, repeatRequested>>
    /\ UNCHANGED <<isTask, entries, timer, phase, others>>

-----------------------------------------------------------------------------
(* await flush(): it waits only for a write that it started itself. *)
EndRun == /\ phase = "running"
          /\ flush(entries)
          /\ phase' = IF writing = "no" THEN "flushing" ELSE "disposed"
          /\ UNCHANGED <<isTask, entries, others>>

(* finally: dispose() drops the timer, and nothing but the timer. *)
Dispose == /\ phase = "flushing"
           /\ writing = "no"
           /\ timer' = FALSE
           /\ phase' = "disposed"
           /\ UNCHANGED <<isTask, entries, row, lost, elapsed, writing,
                          repeatRequested, others>>

(* Status, end time, destinations and the whole log. *)
FinalRow == [upTo |-> entries, final |-> TRUE, open |-> FALSE]

(* stepFinalize, finish() *)
FinalUpdate == /\ phase = "disposed"
               /\ \/ row' = FinalRow /\ UNCHANGED lost
                  \/ Refused(entries)
               /\ phase' = "final"
               /\ UNCHANGED <<isTask, entries, elapsed, writing, repeatRequested,
                              timer, others>>

-----------------------------------------------------------------------------
(* The others who write the log of the row. *)

(* The row ends with n entries and a closing line that is not the run's. *)
Overwrite(n) == /\ row' = [upTo |-> n, final |-> FALSE, open |-> FALSE]
                /\ lost' = entries

RunUnchanged == UNCHANGED <<isTask, entries, elapsed, writing, repeatRequested,
                            timer, phase>>

(* The controller is dropped together with the timer; a system task never *)
(* has one.                                                               *)
Tracked == ~isTask /\ phase \in {"running", "flushing"}

CancelRead == /\ cancel.pc = "none"
              /\ row.open
              /\ cancel' = [cancel EXCEPT !.pc = "sawRunning"]
              /\ RunUnchanged /\ UNCHANGED <<row, lost, sweep>>

(* A signal to a run that is tracked, the log once more for one that is not. *)
CancelReadLog == /\ cancel.pc = "sawRunning"
                 /\ cancel' = IF Tracked THEN NoOther
                              ELSE [pc |-> "writing", log |-> row.upTo]
                 /\ RunUnchanged /\ UNCHANGED <<row, lost, sweep>>

(* By id, whatever became of the row. *)
CancelWrite == /\ cancel.pc = "writing"
               /\ Overwrite(cancel.log)
               /\ cancel' = NoOther
               /\ RunUnchanged /\ UNCHANGED sweep

SweepRead == /\ sweep.pc = "none"
             /\ row.open
             /\ sweep' = [pc |-> "listed", log |-> row.upTo]
             /\ RunUnchanged /\ UNCHANGED <<row, lost, cancel>>

(* With an update by id. *)
AnyStatus == TRUE

(* updateMany({id, Running}) *)
StillRunning == row.open

SweepWrite == /\ sweep.pc = "listed"
              /\ IF StillRunning THEN Overwrite(sweep.log) ELSE UNCHANGED <<row, lost>>
              /\ sweep' = NoOther
              /\ RunUnchanged /\ UNCHANGED cancel

FlusherNext == \/ Log \/ ForcedLog \/ TimerFires \/ IntervalOver \/ WriteReturns
               \/ EndRun \/ Dispose \/ FinalUpdate
               \/ CancelRead \/ CancelReadLog \/ CancelWrite
               \/ SweepRead \/ SweepWrite

(* A run may block for ever: it owes neither entries nor an end. *)
FlusherFairness == /\ WF_flusherVars(TimerFires) /\ WF_flusherVars(WriteReturns)
            /\ WF_flusherVars(Dispose) /\ WF_flusherVars(FinalUpdate)

FlusherSpec == FlusherInit /\ [][FlusherNext]_flusherVars /\ FlusherFairness

-----------------------------------------------------------------------------
(* What a run has logged reaches the database although the run then blocks: *)
(* the throttle defers and never drops (log-flusher.ts, "which is the whole *)
(* point"; it is what the history shows and the watchdog measures). Three   *)
(* ways out: the database refuses the write, which nobody repeats; a cancel *)
(* request or the watchdog puts the log it has read over it; and a request  *)
(* arrives while the repeat itself is being written, which run() notes and  *)
(* nothing but the next request acts on. None of them touches later lines.  *)
DeferredReachesRow ==
    \A n \in 1 .. MaxEntries :
        entries = n ~> row.upTo >= n \/ lost >= n \/ repeatRequested

(* The end of a run is stored with everything the run had said by then, and *)
(* no write of the run, deferred, in flight or late, takes a line away. The *)
(* watchdog may, but only from a row that is still Running, so never once   *)
(* the end is stored; a cancel request that has found the run untracked may *)
(* at any time (log-flusher.ts, stepFinalize, cancel/route.ts,              *)
(* stuck-execution-service.ts).                                             *)
NoLineLost ==
    [][/\ row'.upTo < row.upTo => \/ cancel.pc = "writing" /\ cancel'.pc = "none"
                                  \/ row.open /\ sweep.pc = "listed" /\ sweep'.pc = "none"
       /\ row'.final /\ ~row.final => row'.upTo = entries]_flusherVars

=============================================================================
