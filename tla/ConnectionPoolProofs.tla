------------------------ MODULE ConnectionPoolProofs ------------------------
(***************************************************************************)
(* Safety of the connection pool for any number of borrowers, connections  *)
(* and calls, any limit, and however connections die or fail to open.      *)
(***************************************************************************)
EXTENDS ConnectionPool, FiniteSetTheorems, TLAPS

(* What the pool has parked exists; what a borrower has is counted; and     *)
(* what is counted and not parked is in use. After close() only the first.  *)
IdleOpen == idle \subseteq open
HeldCounted == ~closed => \A b \in Borrower : holds[b] \subseteq live
CountedHeld ==
    ~closed => \A c \in live \ idle :
                  \E b \in Borrower : borrower[b] = "using" /\ c \in holds[b]

(* The queue names borrowers that wait, each of them once. *)
WaitersWait ==
    \A i \in 1 .. Len(waiting) :
        /\ borrower[waiting[i]] = "waiting"
        /\ \A j \in 1 .. Len(waiting) : waiting[i] = waiting[j] => i = j

Connections == NotShared /\ IdleOpen /\ HeldCounted /\ CountedHeld
Queue == WaitersWait /\ NoWaiterStranded
IInv == PoolTypeOK /\ Connections /\ Queue

-----------------------------------------------------------------------------
(* One waiter leaves the queue and looks again, and nothing else changes. *)
LEMMA WakeOne ==
    ASSUME NEW states \in [Borrower -> BorrowerState],
           waiting \in Seq(Borrower),
           \A i \in 1 .. Len(waiting) :
              /\ states[waiting[i]] = "waiting"
              /\ \A j \in 1 .. Len(waiting) : waiting[i] = waiting[j] => i = j,
           Wake(states)
    PROVE  /\ borrower' \in [Borrower -> BorrowerState]
           /\ waiting' \in Seq(Borrower)
           /\ WaitersWait'
           /\ waiting # << >> => \E b \in Borrower : borrower'[b] = "looking"
           /\ waiting = << >> => waiting' = << >>
           /\ \A b \in Borrower : \/ borrower'[b] = states[b]
                                  \/ states[b] = "waiting" /\ borrower'[b] = "looking"
<1>1. CASE waiting = << >>
  BY <1>1 DEF Wake, WaitersWait
<1>2. CASE waiting # << >>
  <2> DEFINE h == Head(waiting)
  <2>1. /\ h \in Borrower /\ h = waiting[1] /\ 1 \in 1 .. Len(waiting)
        /\ waiting' = Tail(waiting) /\ waiting' \in Seq(Borrower)
        /\ Len(waiting') = Len(waiting) - 1
        /\ \A i \in 1 .. Len(waiting') : waiting'[i] = waiting[i + 1] /\ i + 1 \in 1 .. Len(waiting)
    BY <1>2 DEF Wake
  <2>2. borrower' = [states EXCEPT ![h] = "looking"] /\ states[h] = "waiting"
    BY <1>2, <2>1 DEF Wake
  <2>3. \A i \in 1 .. Len(waiting') : waiting'[i] # h
    BY <2>1
  <2>4. \A i \in 1 .. Len(waiting') : waiting'[i] \in Borrower /\ borrower'[waiting'[i]] = "waiting"
    BY <2>1, <2>2, <2>3
  <2>5. WaitersWait'
    BY <2>1, <2>4 DEF WaitersWait
  <2> QED BY <1>2, <2>1, <2>2, <2>5 DEF BorrowerState
<1> QED BY <1>1, <1>2

LEMMA InitIInv == PoolInit => IInv
<1> SUFFICES ASSUME PoolInit PROVE IInv
  OBVIOUS
<1> USE DEF PoolInit
<1>1. PoolTypeOK
  <2>1. waiting \in Seq(Borrower)
    OBVIOUS
  <2>2. calls \in 0 .. MaxCalls /\ drops \in 0 .. MaxDrops
    BY PoolAssumption
  <2>3. borrower \in [Borrower -> BorrowerState] /\ holds \in [Borrower -> SUBSET Conn]
    BY DEF BorrowerState, None
  <2> QED BY <2>1, <2>2, <2>3 DEF PoolTypeOK
<1>2. Connections
  BY DEF Connections, NotShared, IdleOpen, HeldCounted, CountedHeld, None
<1>3. Queue
  BY DEF Queue, WaitersWait, NoWaiterStranded
<1> QED BY <1>1, <1>2, <1>3 DEF IInv

(* A borrower that is not queued may move without disturbing the queue. *)
LEMMA OthersWait ==
    ASSUME IInv, NEW b \in Borrower, borrower[b] # "waiting", NEW state \in BorrowerState
    PROVE  /\ Moved(b, state) \in [Borrower -> BorrowerState]
           /\ \A i \in 1 .. Len(waiting) :
                 /\ Moved(b, state)[waiting[i]] = "waiting"
                 /\ \A j \in 1 .. Len(waiting) : waiting[i] = waiting[j] => i = j
  BY DEF IInv, PoolTypeOK, Queue, WaitersWait, Moved

-----------------------------------------------------------------------------
LEMMA BorrowIInv == ASSUME IInv, NEW b \in Borrower, Borrow(b) PROVE IInv'
<1> USE DEF IInv, Borrow, pool
<1>1. borrower' = Moved(b, "looking") /\ borrower[b] # "waiting"
  OBVIOUS
<1>2. PoolTypeOK'
  BY <1>1, OthersWait, PoolAssumption DEF PoolTypeOK, BorrowerState
<1>3. Connections'
  BY <1>1 DEF Connections, NotShared, IdleOpen, HeldCounted, CountedHeld, PoolTypeOK, Moved
<1>4. WaitersWait'
  BY <1>1, OthersWait DEF WaitersWait, BorrowerState
<1>5. NoWaiterStranded'
  BY <1>1 DEF Queue, NoWaiterStranded, PoolTypeOK, Moved
<1> QED BY <1>2, <1>3, <1>4, <1>5 DEF Queue

LEMMA RefuseIInv == ASSUME IInv, NEW b \in Borrower, Refuse(b) PROVE IInv'
<1> USE DEF IInv, Refuse, pool
<1>1. borrower' = Moved(b, "away") /\ borrower[b] # "waiting" /\ closed
  OBVIOUS
<1>2. PoolTypeOK'
  BY <1>1, OthersWait DEF PoolTypeOK, BorrowerState
<1>3. Connections'
  BY <1>1 DEF Connections, NotShared, IdleOpen, HeldCounted, CountedHeld
<1>4. WaitersWait'
  BY <1>1, OthersWait DEF WaitersWait, BorrowerState
<1>5. NoWaiterStranded'
  BY <1>1 DEF Queue, NoWaiterStranded
<1> QED BY <1>2, <1>3, <1>4, <1>5 DEF Queue

LEMMA TakeIInv ==
    ASSUME IInv, NEW b \in Borrower, NEW c \in Conn, NEW disposed \in SUBSET idle,
           Take(b, c, disposed)
    PROVE  IInv'
<1> USE DEF IInv, Take
<1>1. borrower' = Moved(b, "using") /\ borrower[b] # "waiting"
  OBVIOUS
<1>2. c \notin disposed /\ c \in idle
  OBVIOUS
<1>3. PoolTypeOK'
  BY <1>1, <1>2, OthersWait DEF PoolTypeOK, BorrowerState, Popped
<1>4. holds' = [holds EXCEPT ![b] = {c}] /\ holds \in [Borrower -> SUBSET Conn]
  BY DEF PoolTypeOK
<1>5. \A a \in Borrower : holds[a] \cap idle = {}
  BY DEF Connections, NotShared
<1>6. NotShared'
  BY <1>2, <1>4, <1>5 DEF Connections, NotShared, Popped
<1>7. IdleOpen'
  BY DEF Connections, IdleOpen, Popped
<1>8. HeldCounted'
  BY <1>2, <1>4, <1>5 DEF Connections, HeldCounted, PoolTypeOK
<1>9. CountedHeld'
  <2> SUFFICES ASSUME NEW d \in live' \ idle'
               PROVE  \E a \in Borrower : borrower'[a] = "using" /\ d \in holds'[a]
    BY DEF CountedHeld
  <2>1. CASE d = c
    BY <1>1, <1>4, <2>1 DEF Moved, PoolTypeOK
  <2>2. CASE d # c
    <3>1. d \in live \ idle
      BY <2>2 DEF Popped
    <3>2. PICK a \in Borrower : borrower[a] = "using" /\ d \in holds[a]
      BY <3>1 DEF Connections, CountedHeld
    <3> QED BY <3>2, <1>1, <1>4 DEF Moved, PoolTypeOK
  <2> QED BY <2>1, <2>2
<1>10. WaitersWait'
  BY <1>1, OthersWait DEF WaitersWait, BorrowerState
<1>11. NoWaiterStranded'
  BY <1>1 DEF NoWaiterStranded, Moved, PoolTypeOK
<1> QED BY <1>3, <1>6, <1>7, <1>8, <1>9, <1>10, <1>11 DEF Connections, Queue

(* What DisposeDead and the branch after it do to the connections. *)
LEMMA DisposeKeeps ==
    ASSUME IInv, NEW b \in Borrower, NEW state \in {"connecting", "waiting"},
           DisposeDead(b, state), UNCHANGED <<closed, holds, calls, drops>>,
           waiting' \in Seq(Borrower)
    PROVE  PoolTypeOK' /\ Connections'
<1> USE DEF IInv, DisposeDead
<1>1. borrower' = Moved(b, state) /\ borrower[b] # "waiting"
  OBVIOUS
<1>2. PoolTypeOK'
  BY <1>1, OthersWait DEF PoolTypeOK, BorrowerState
<1>3. \A a \in Borrower : holds[a] \cap idle = {}
  BY DEF Connections, NotShared
<1>4. NotShared' /\ IdleOpen'
  BY DEF Connections, NotShared, IdleOpen
<1>5. HeldCounted'
  BY <1>3 DEF Connections, HeldCounted, PoolTypeOK
<1>6. CountedHeld'
  <2> SUFFICES ASSUME NEW d \in live' \ idle'
               PROVE  \E a \in Borrower : borrower'[a] = "using" /\ d \in holds'[a]
    BY DEF CountedHeld
  <2>1. PICK a \in Borrower : borrower[a] = "using" /\ d \in holds[a]
    BY DEF Connections, CountedHeld
  <2> QED BY <1>1, <2>1 DEF Moved, PoolTypeOK
<1> QED BY <1>2, <1>4, <1>5, <1>6 DEF Connections

LEMMA ConnectIInv == ASSUME IInv, NEW b \in Borrower, Connect(b) PROVE IInv'
<1>1. /\ DisposeDead(b, "connecting") /\ UNCHANGED <<waiting, closed, holds, calls, drops>>
      /\ borrower' = Moved(b, "connecting") /\ borrower[b] # "waiting" /\ ~closed
  BY DEF Connect, DisposeDead
<1>2. PoolTypeOK' /\ Connections'
  BY <1>1, DisposeKeeps DEF IInv, PoolTypeOK
<1>3. WaitersWait'
  BY <1>1, OthersWait DEF WaitersWait, BorrowerState
<1>4. NoWaiterStranded'
  BY <1>1 DEF NoWaiterStranded, Moved, IInv, PoolTypeOK
<1> QED BY <1>2, <1>3, <1>4 DEF IInv, Queue

(* The one who waits was turned away by a connection somebody has or makes. *)
LEMMA WaitIInv == ASSUME IInv, NEW b \in Borrower, Wait(b) PROVE IInv'
<1>1. /\ DisposeDead(b, "waiting") /\ UNCHANGED <<closed, holds, calls, drops>> /\ ~Room
      /\ borrower' = Moved(b, "waiting") /\ borrower[b] = "looking" /\ ~closed
      /\ waiting' = Append(waiting, b) /\ waiting \in Seq(Borrower)
  BY DEF Wait, DisposeDead, IInv, PoolTypeOK
<1>2. waiting' \in Seq(Borrower)
  BY <1>1
<1>3. PoolTypeOK' /\ Connections'
  BY <1>1, <1>2, DisposeKeeps DEF IInv
<1>4. WaitersWait'
  <2>1. /\ Len(waiting') = Len(waiting) + 1 /\ Len(waiting) \in Nat
        /\ \A i \in 1 .. Len(waiting) : waiting'[i] = waiting[i] /\ waiting[i] \in Borrower
        /\ waiting'[Len(waiting) + 1] = b
    BY <1>1
  <2>2. \A i \in 1 .. Len(waiting) : borrower[waiting[i]] = "waiting"
    BY DEF IInv, Queue, WaitersWait
  <2>3. \A i \in 1 .. Len(waiting) : waiting[i] # b
    BY <1>1, <2>2
  <2>4. \A i \in 1 .. Len(waiting') : borrower'[waiting'[i]] = "waiting"
    BY <1>1, <2>1, <2>2, <2>3 DEF Moved, IInv, PoolTypeOK
  <2>5. \A i, j \in 1 .. Len(waiting') : waiting'[i] = waiting'[j] => i = j
    BY <2>1, <2>3 DEF IInv, Queue, WaitersWait
  <2> QED BY <2>4, <2>5 DEF WaitersWait
<1>5. \E a \in Borrower : borrower[a] \in {"connecting", "using"}
  <2>1. CASE live \ idle # {}
    BY <1>1, <2>1 DEF IInv, Connections, CountedHeld
  <2>2. CASE live \ idle = {}
    <3>1. Cardinality(live \ idle) = 0
      BY <2>2, FS_EmptySet
    <3>2. ASSUME opening = {} PROVE FALSE
      <4>1. Cardinality(opening) = 0
        BY <3>2, FS_EmptySet
      <4>2. ~(0 + 0 < PoolLimit)
        BY <1>1, <3>1, <4>1 DEF Room
      <4> QED BY <4>2, PoolAssumption
    <3> QED BY <3>2 DEF opening
  <2> QED BY <2>1, <2>2
<1>6. NoWaiterStranded'
  <2>1. PICK a \in Borrower : borrower[a] \in {"connecting", "using"}
    BY <1>5
  <2>2. borrower'[a] \in {"connecting", "using"}
    BY <1>1, <2>1 DEF Moved, IInv, PoolTypeOK
  <2> QED BY <1>1, <2>2 DEF NoWaiterStranded
<1> QED BY <1>3, <1>4, <1>6 DEF IInv, Queue

-----------------------------------------------------------------------------
(* In a closed pool nobody waits, so both branches of a step that wakes     *)
(* amount to Wake().                                                        *)
LEMMA WakeOrClosed ==
    ASSUME IInv, NEW b \in Borrower, borrower[b] # "waiting",
           NEW state \in BorrowerState,
           IF closed THEN borrower' = Moved(b, state) /\ UNCHANGED waiting
           ELSE Wake(Moved(b, state))
    PROVE  Wake(Moved(b, state))
<1>1. closed => waiting = << >>
  BY DEF IInv, Queue, NoWaiterStranded
<1> QED BY <1>1 DEF Wake

(* What b does to the queue when it moves and wakes the next one. *)
LEMMA MoveAndWake ==
    ASSUME IInv, NEW b \in Borrower, borrower[b] # "waiting",
           NEW state \in BorrowerState, state # "waiting",
           Wake(Moved(b, state)), UNCHANGED closed
    PROVE  /\ borrower' \in [Borrower -> BorrowerState]
           /\ waiting' \in Seq(Borrower)
           /\ Queue'
           /\ borrower'[b] = state
           /\ \A a \in Borrower : borrower[a] = "using" /\ a # b => borrower'[a] = "using"
<1>1. /\ Moved(b, state) \in [Borrower -> BorrowerState] /\ waiting \in Seq(Borrower)
      /\ \A i \in 1 .. Len(waiting) :
            /\ Moved(b, state)[waiting[i]] = "waiting"
            /\ \A j \in 1 .. Len(waiting) : waiting[i] = waiting[j] => i = j
  BY OthersWait DEF IInv, PoolTypeOK
<1>2. /\ borrower' \in [Borrower -> BorrowerState]
      /\ waiting' \in Seq(Borrower)
      /\ WaitersWait'
      /\ waiting # << >> => \E a \in Borrower : borrower'[a] = "looking"
      /\ waiting = << >> => waiting' = << >>
      /\ \A a \in Borrower : \/ borrower'[a] = Moved(b, state)[a]
                             \/ Moved(b, state)[a] = "waiting" /\ borrower'[a] = "looking"
  BY <1>1, WakeOne
<1>3. NoWaiterStranded'
  BY <1>2 DEF NoWaiterStranded, IInv, Queue
<1>4. \A a \in Borrower : Moved(b, state)[a] = IF a = b THEN state ELSE borrower[a]
  BY DEF Moved, IInv, PoolTypeOK
<1> QED BY <1>2, <1>3, <1>4 DEF Queue

LEMMA OpenedIInv ==
    ASSUME IInv, NEW b \in Borrower, NEW c \in Conn, Opened(b, c)
    PROVE  IInv'
<1> USE DEF IInv, Opened
<1>1. Wake(Moved(b, "using")) /\ borrower[b] # "waiting"
  BY WakeOrClosed DEF BorrowerState
<1>2. /\ borrower' \in [Borrower -> BorrowerState]
      /\ waiting' \in Seq(Borrower)
      /\ Queue'
      /\ borrower'[b] = "using"
      /\ \A a \in Borrower : borrower[a] = "using" /\ a # b => borrower'[a] = "using"
  BY <1>1, MoveAndWake DEF BorrowerState
<1>3. PoolTypeOK'
  BY <1>2 DEF PoolTypeOK
<1>4. \A a \in Borrower : c \notin holds[a]
  OBVIOUS
<1>5. c \notin idle
  BY DEF Connections, IdleOpen
<1>6. holds' = [holds EXCEPT ![b] = {c}] /\ holds \in [Borrower -> SUBSET Conn] /\ idle' = idle
  BY DEF PoolTypeOK
<1>7. NotShared'
  BY <1>4, <1>5, <1>6 DEF Connections, NotShared
<1>8. IdleOpen'
  BY DEF Connections, IdleOpen
<1>9. HeldCounted'
  BY <1>6 DEF Connections, HeldCounted
<1>10. CountedHeld'
  <2> SUFFICES ASSUME ~closed, NEW d \in live' \ idle'
               PROVE  \E a \in Borrower : borrower'[a] = "using" /\ d \in holds'[a]
    BY DEF CountedHeld
  <2>1. CASE d = c
    BY <1>2, <1>6, <2>1
  <2>2. CASE d # c
    <3>1. PICK a \in Borrower : borrower[a] = "using" /\ d \in holds[a]
      BY <2>2 DEF Connections, CountedHeld
    <3>2. a # b
      BY <3>1
    <3> QED BY <1>2, <1>6, <3>1, <3>2
  <2> QED BY <2>1, <2>2
<1> QED BY <1>2, <1>3, <1>7, <1>8, <1>9, <1>10 DEF Connections

LEMMA ConnectFailsIInv ==
    ASSUME IInv, NEW b \in Borrower, ConnectFails(b)
    PROVE  IInv'
<1> USE DEF IInv, ConnectFails
<1>1. Wake(Moved(b, "away")) /\ borrower[b] # "waiting" /\ borrower[b] # "using"
  BY WakeOrClosed DEF BorrowerState
<1>2. /\ borrower' \in [Borrower -> BorrowerState]
      /\ waiting' \in Seq(Borrower)
      /\ Queue'
      /\ \A a \in Borrower : borrower[a] = "using" /\ a # b => borrower'[a] = "using"
  BY <1>1, MoveAndWake DEF BorrowerState
<1>3. PoolTypeOK'
  BY <1>2 DEF PoolTypeOK
<1>4. Connections'
  BY <1>1, <1>2 DEF Connections, NotShared, IdleOpen, HeldCounted, CountedHeld
<1> QED BY <1>2, <1>3, <1>4

LEMMA ReleaseIInv ==
    ASSUME IInv, NEW b \in Borrower, Release(b)
    PROVE  IInv'
<1> USE DEF IInv
<1> DEFINE returned == IF closed THEN {} ELSE {c \in holds[b] : isAlive(c)}
           disposed == IF closed THEN {} ELSE holds[b] \ returned
<1>1. /\ borrower[b] = "using" /\ Wake(Moved(b, "away")) /\ UNCHANGED <<closed, calls, drops>>
      /\ idle' = idle \cup returned /\ live' = live \ disposed
      /\ open' = open \ disposed /\ dead' = dead \ disposed
      /\ holds' = [holds EXCEPT ![b] = {}]
  BY DEF Release, None
<1>2. /\ borrower' \in [Borrower -> BorrowerState]
      /\ waiting' \in Seq(Borrower)
      /\ Queue'
      /\ \A a \in Borrower : borrower[a] = "using" /\ a # b => borrower'[a] = "using"
  BY <1>1, MoveAndWake DEF BorrowerState
<1>3. holds \in [Borrower -> SUBSET Conn] /\ idle \subseteq live
  BY DEF PoolTypeOK
<1>4. /\ \A a \in Borrower : holds[a] \cap idle = {}
      /\ \A a \in Borrower : a # b => holds[a] \cap holds[b] = {}
  BY DEF Connections, NotShared
<1>5. /\ ~closed => holds[b] = returned \cup disposed /\ holds[b] \subseteq live
      /\ closed => returned = {} /\ disposed = {}
      /\ returned \cap disposed = {} /\ returned \subseteq holds[b] /\ disposed \subseteq holds[b]
      /\ returned \subseteq open
  BY DEF Connections, HeldCounted, isAlive
<1> HIDE DEF returned, disposed
<1>6. PoolTypeOK'
  <2>1. idle' \subseteq live'
    BY <1>1, <1>3, <1>4, <1>5
  <2>2. holds' \in [Borrower -> SUBSET Conn]
    BY <1>1, <1>3
  <2> QED BY <1>1, <1>2, <2>1, <2>2 DEF PoolTypeOK
<1>7. NotShared'
  BY <1>1, <1>3, <1>4, <1>5 DEF Connections, NotShared
<1>8. IdleOpen'
  BY <1>1, <1>4, <1>5 DEF Connections, IdleOpen
<1>9. HeldCounted'
  BY <1>1, <1>3, <1>4, <1>5 DEF Connections, HeldCounted
<1>10. CountedHeld'
  <2> SUFFICES ASSUME ~closed, NEW d \in live' \ idle'
               PROVE  \E a \in Borrower : borrower'[a] = "using" /\ d \in holds'[a]
    BY <1>1 DEF CountedHeld
  <2>1. d \in live \ idle /\ d \notin holds[b]
    BY <1>1, <1>5
  <2>2. PICK a \in Borrower : borrower[a] = "using" /\ d \in holds[a]
    BY <2>1 DEF Connections, CountedHeld
  <2> QED BY <1>1, <1>2, <1>3, <2>1, <2>2
<1> QED BY <1>2, <1>6, <1>7, <1>8, <1>9, <1>10 DEF Connections

LEMMA CloseIInv == ASSUME IInv, Close PROVE IInv'
<1> USE DEF IInv, Close
<1>1. waiting' \in Seq(Borrower) /\ borrower' \in [Borrower -> BorrowerState]
  BY DEF PoolTypeOK, BorrowerState
<1>2. PoolTypeOK'
  BY <1>1 DEF PoolTypeOK
<1>3. Connections'
  BY DEF Connections, NotShared, IdleOpen, HeldCounted, CountedHeld
<1>4. Queue'
  BY DEF Queue, WaitersWait, NoWaiterStranded
<1> QED BY <1>2, <1>3, <1>4

LEMMA DropIInv == ASSUME IInv, NEW c \in Conn, Drop(c) PROVE IInv'
<1> USE DEF IInv, Drop, pool
<1>1. PoolTypeOK'
  BY PoolAssumption DEF PoolTypeOK, isAlive
<1>2. Connections'
  BY DEF Connections, NotShared, IdleOpen, HeldCounted, CountedHeld
<1>3. Queue'
  BY DEF Queue, WaitersWait, NoWaiterStranded
<1> QED BY <1>1, <1>2, <1>3

LEMMA StutterIInv == ASSUME IInv, UNCHANGED poolVars PROVE IInv'
  BY DEF poolVars, pool, IInv, PoolTypeOK, Connections, NotShared, IdleOpen, HeldCounted,
         CountedHeld, Queue, WaitersWait, NoWaiterStranded

(* Every action keeps the invariant. *)
LEMMA NextIInv == IInv /\ [PoolNext]_poolVars => IInv'
<1> SUFFICES ASSUME IInv, [PoolNext]_poolVars PROVE IInv'
  OBVIOUS
<1>1. ASSUME NEW b \in Borrower, Borrow(b) \/ Resume(b) \/ Connected(b) \/ Release(b)
      PROVE  IInv'
  BY <1>1, BorrowIInv, RefuseIInv, ConnectIInv, WaitIInv, TakeIInv, ConnectFailsIInv,
     OpenedIInv, ReleaseIInv DEF Resume, Connected
<1> QED BY <1>1, CloseIInv, DropIInv, StutterIInv DEF PoolNext

(* The inductive invariant: types, who has which connection, who waits.    *)
THEOREM PoolInvariance == PoolSpec => []IInv
  BY InitIInv, NextIInv, PTL DEF PoolSpec

-----------------------------------------------------------------------------
(* The count: a slot is taken where Room has found one, and a connection    *)
(* that opens takes the place of the borrower that was opening it.          *)
Counted == PoolTypeOK /\ PoolBounded

LEMMA Finite ==
    ASSUME PoolTypeOK
    PROVE  /\ IsFiniteSet(live) /\ Cardinality(live) \in Nat
           /\ IsFiniteSet(opening) /\ Cardinality(opening) \in Nat
<1>1. IsFiniteSet(live) /\ IsFiniteSet(opening)
  BY PoolAssumption, FS_Subset DEF PoolTypeOK, opening
<1> QED BY <1>1, FS_CardinalityType

(* Where neither set grows the bound is kept. *)
LEMMA Shrinks ==
    ASSUME Counted, PoolTypeOK', live' \subseteq live, opening' \subseteq opening
    PROVE  PoolBounded'
<1>1. Cardinality(live') <= Cardinality(live) /\ Cardinality(opening') <= Cardinality(opening)
  BY Finite, FS_Subset DEF Counted
<1>2. /\ Cardinality(live') \in Nat /\ Cardinality(opening') \in Nat
      /\ Cardinality(live) \in Nat /\ Cardinality(opening) \in Nat
  <2>1. IsFiniteSet(live') /\ IsFiniteSet(opening')
    BY Finite, FS_Subset DEF Counted
  <2> QED BY <2>1, Finite, FS_CardinalityType DEF Counted
<1> QED BY <1>1, <1>2, PoolAssumption DEF Counted, PoolBounded

LEMMA ConnectBounded ==
    ASSUME Counted, NEW b \in Borrower, Connect(b)
    PROVE  PoolBounded'
<1>1. live' = live \ idle /\ borrower' = Moved(b, "connecting") /\ Room
  BY DEF Connect, DisposeDead
<1>2. opening' = opening \cup {b}
  BY <1>1 DEF opening, Moved, Counted, PoolTypeOK
<1>3. Cardinality(opening') <= Cardinality(opening) + 1 /\ Cardinality(opening') \in Nat
  <2>1. IsFiniteSet(opening) /\ Cardinality(opening) \in Nat
    BY Finite DEF Counted
  <2>2. /\ IsFiniteSet(opening \cup {b})
        /\ Cardinality(opening \cup {b}) =
              IF b \in opening THEN Cardinality(opening) ELSE Cardinality(opening) + 1
    BY <2>1, FS_AddElement
  <2> QED BY <1>2, <2>1, <2>2
<1>4. Cardinality(live') \in Nat
  <2>1. IsFiniteSet(live \ idle)
    BY Finite, FS_Subset DEF Counted
  <2> QED BY <1>1, <2>1, FS_CardinalityType
<1>5. Cardinality(live') + Cardinality(opening) < PoolLimit /\ Cardinality(opening) \in Nat
  BY <1>1, Finite DEF Room, Counted
<1> QED BY <1>3, <1>4, <1>5, PoolAssumption DEF PoolBounded

LEMMA OpenedBounded ==
    ASSUME IInv, Counted, NEW b \in Borrower, NEW c \in Conn, Opened(b, c)
    PROVE  PoolBounded'
<1>1. live' = live \cup {c} /\ borrower[b] = "connecting" /\ Wake(Moved(b, "using"))
  BY WakeOrClosed DEF Opened, BorrowerState
<1>2. \A a \in Borrower : borrower'[a] = "connecting" => a # b /\ borrower[a] = "connecting"
  <2>1. waiting # << >> => Head(waiting) \in Borrower
    BY DEF Counted, PoolTypeOK
  <2> QED BY <1>1, <2>1 DEF Wake, Moved, Counted, PoolTypeOK
<1>3. opening' \subseteq opening \ {b} /\ b \in opening
  BY <1>1, <1>2 DEF opening
<1>4. IsFiniteSet(opening) /\ Cardinality(opening) \in Nat /\ IsFiniteSet(live) /\ Cardinality(live) \in Nat
  BY Finite DEF Counted
<1>5. IsFiniteSet(opening \ {b}) /\ Cardinality(opening \ {b}) = Cardinality(opening) - 1
  BY <1>3, <1>4, FS_RemoveElement
<1>6. Cardinality(opening') <= Cardinality(opening) - 1 /\ Cardinality(opening') \in Nat
  <2>1. IsFiniteSet(opening') /\ Cardinality(opening') <= Cardinality(opening \ {b})
    BY <1>3, <1>5, FS_Subset
  <2> QED BY <1>5, <2>1, FS_CardinalityType
<1>7. Cardinality(live') <= Cardinality(live) + 1 /\ Cardinality(live') \in Nat
  <2>1. /\ IsFiniteSet(live \cup {c})
        /\ Cardinality(live \cup {c}) = IF c \in live THEN Cardinality(live) ELSE Cardinality(live) + 1
    BY <1>4, FS_AddElement
  <2> QED BY <1>1, <1>4, <2>1
<1> QED BY <1>4, <1>6, <1>7, PoolAssumption DEF Counted, PoolBounded

LEMMA NextBounded == IInv /\ IInv' /\ PoolBounded /\ [PoolNext]_poolVars => PoolBounded'
<1> SUFFICES ASSUME IInv, IInv', PoolBounded, [PoolNext]_poolVars PROVE PoolBounded'
  OBVIOUS
<1>1. Counted /\ PoolTypeOK'
  BY DEF Counted, IInv
<1>2. ASSUME NEW b \in Borrower, NEW state \in BorrowerState \ {"connecting"},
             borrower' = Moved(b, state) \/ Wake(Moved(b, state))
      PROVE  opening' \subseteq opening
  <2>1. waiting # << >> => Head(waiting) \in Borrower
    BY <1>1 DEF PoolTypeOK, Counted
  <2> QED BY <1>1, <1>2, <2>1 DEF Wake, opening, Moved, Counted, PoolTypeOK
<1>3. ASSUME NEW b \in Borrower, Borrow(b) PROVE PoolBounded'
  BY <1>1, <1>2, <1>3, Shrinks DEF Borrow, pool, BorrowerState
<1>4. ASSUME NEW b \in Borrower, Refuse(b) PROVE PoolBounded'
  BY <1>1, <1>2, <1>4, Shrinks DEF Refuse, pool, BorrowerState
<1>5. ASSUME NEW b \in Borrower, NEW c \in Conn, NEW disposed \in SUBSET idle, Take(b, c, disposed)
      PROVE PoolBounded'
  BY <1>1, <1>2, <1>5, Shrinks DEF Take, BorrowerState
<1>6. ASSUME NEW b \in Borrower, Wait(b) PROVE PoolBounded'
  BY <1>1, <1>2, <1>6, Shrinks DEF Wait, DisposeDead, BorrowerState
<1>7. ASSUME NEW b \in Borrower, ConnectFails(b) PROVE PoolBounded'
  BY <1>1, <1>2, <1>7, Shrinks, WakeOrClosed DEF ConnectFails, BorrowerState
<1>8. ASSUME NEW b \in Borrower, Release(b) PROVE PoolBounded'
  BY <1>1, <1>2, <1>8, Shrinks DEF Release, BorrowerState
<1>9. ASSUME Close PROVE PoolBounded'
  <2>1. opening' \subseteq opening
    BY <1>9 DEF Close, opening
  <2> QED BY <1>1, <1>9, <2>1, Shrinks DEF Close
<1>10. ASSUME NEW c \in Conn, Drop(c) PROVE PoolBounded'
  BY <1>10 DEF Drop, pool, PoolBounded, opening
<1>11. ASSUME UNCHANGED poolVars PROVE PoolBounded'
  BY <1>11 DEF poolVars, pool, PoolBounded, opening
<1> QED BY <1>1, <1>3, <1>4, <1>5, <1>6, <1>7, <1>8, <1>9, <1>10, <1>11,
           ConnectBounded, OpenedBounded DEF PoolNext, Resume, Connected

LEMMA InitBounded == PoolInit => PoolBounded
<1> SUFFICES ASSUME PoolInit PROVE PoolBounded
  OBVIOUS
<1>1. live = {} /\ opening = {}
  BY DEF PoolInit, opening
<1> QED BY <1>1, FS_EmptySet, PoolAssumption DEF PoolBounded

-----------------------------------------------------------------------------
(* However many callers ask while connections are being opened, dropped or  *)
(* given back, no more are counted or under way than the limit: acquire()   *)
(* counts a connection from the moment it is asked for.                     *)
THEOREM LimitHolds == PoolSpec => []PoolBounded
  BY PoolInvariance, InitBounded, NextBounded, PTL DEF PoolSpec

(* acquire() and release() never hand one connection to two borrowers.      *)
THEOREM OneBorrowerEach == PoolSpec => []NotShared
<1>1. IInv => NotShared
  BY DEF IInv, Connections
<1> QED BY PoolInvariance, <1>1, PTL

(* No sequence of failed connects, dead connections, overtakings and a      *)
(* close() leaves a waiter that nobody is going to wake.                    *)
THEOREM NobodyForgotten == PoolSpec => []NoWaiterStranded
<1>1. IInv => NoWaiterStranded
  BY DEF IInv, Queue
<1> QED BY PoolInvariance, <1>1, PTL

=============================================================================
