--------------------------- MODULE ConnectionPool ---------------------------
(***************************************************************************)
(* createConnectionPool: what runs against one SFTP or FTP adapter borrows *)
(* from a bounded number of connections. A borrower that finds none waits, *)
(* and runs the whole of acquire() again when it is woken.                 *)
(***************************************************************************)
EXTENDS Naturals, FiniteSets, Sequences

CONSTANTS
    Borrower,   \* callers of withConnection
    Conn,       \* connections; one that was disconnected may be seen again
    PoolLimit,  \* max, the limit of the pool
    MaxCalls,   \* bound: calls of withConnection; a transfer has finitely many
    MaxDrops    \* bound: connections that die

ASSUME PoolAssumption ==
    /\ PoolLimit \in Nat \ {0}
    /\ MaxCalls \in Nat
    /\ MaxDrops \in Nat
    /\ IsFiniteSet(Borrower)
    /\ IsFiniteSet(Conn)

VARIABLES
    idle,       \* parked connections
    waiting,    \* resolve functions of the borrowers at the limit, oldest first
    live,       \* connections the pool counts
    closed,
    borrower,   \* where each borrower is
    holds,      \* the connection a borrower has, if it has one
    open,       \* connections that exist at the server
    dead,       \* those among them that dropped
    calls,
    drops

pool == <<idle, waiting, live, closed>>
poolVars == <<pool, borrower, holds, open, dead, calls, drops>>

(* looking: in acquire(), or resumed there; connecting: awaiting connect(). *)
BorrowerState == {"away", "looking", "connecting", "waiting", "using"}
None == {}

PoolTypeOK ==
    /\ idle \subseteq live
    /\ live \subseteq Conn
    /\ waiting \in Seq(Borrower)
    /\ closed \in BOOLEAN
    /\ borrower \in [Borrower -> BorrowerState]
    /\ holds \in [Borrower -> SUBSET Conn]
    /\ open \subseteq Conn
    /\ dead \subseteq Conn
    /\ calls \in 0 .. MaxCalls
    /\ drops \in 0 .. MaxDrops

PoolInit ==
    /\ idle = {}
    /\ waiting = << >>
    /\ live = {}
    /\ closed = FALSE
    /\ borrower = [b \in Borrower |-> "away"]
    /\ holds = [b \in Borrower |-> None]
    /\ open = {}
    /\ dead = {}
    /\ calls = 0
    /\ drops = 0

-----------------------------------------------------------------------------
opening == {b \in Borrower : borrower[b] = "connecting"}
isAlive(c) == c \in open \ dead

Moved(b, state) == [borrower EXCEPT ![b] = state]

(* One waiter is woken; with nobody waiting wake() does nothing. *)
Wake(states) ==
    IF waiting = << >>
    THEN borrower' = states /\ UNCHANGED waiting
    ELSE /\ borrower' = [states EXCEPT ![Head(waiting)] = "looking"]
         /\ waiting' = Tail(waiting)

Borrow(b) ==
    /\ borrower[b] = "away"
    /\ calls < MaxCalls
    /\ calls' = calls + 1
    /\ borrower' = Moved(b, "looking")
    /\ UNCHANGED <<pool, holds, open, dead, drops>>

Refuse(b) ==
    /\ borrower[b] = "looking"
    /\ closed
    /\ borrower' = Moved(b, "away")
    /\ UNCHANGED <<pool, holds, open, dead, calls, drops>>

(* With a connection that is looked at and left parked. *)
Peeked(c, disposed) == idle \ disposed

(* pop() takes the connection, and what was disposed of is out as well. *)
Popped(c, disposed) == idle \ ({c} \cup disposed)

(* Dead connections that come up first are disposed of. *)
Take(b, c, disposed) ==
    /\ borrower[b] = "looking"
    /\ ~closed
    /\ c \in idle
    /\ isAlive(c)
    /\ \A d \in disposed : ~isAlive(d)
    /\ idle' = Popped(c, disposed)
    /\ live' = live \ disposed
    /\ open' = open \ disposed
    /\ dead' = dead \ disposed
    /\ borrower' = Moved(b, "using")
    /\ holds' = [holds EXCEPT ![b] = {c}]
    /\ UNCHANGED <<waiting, closed, calls, drops>>

(* Every parked connection was dead: they are gone, and the limit decides. *)
DisposeDead(b, state) ==
    /\ borrower[b] = "looking"
    /\ ~closed
    /\ \A c \in idle : ~isAlive(c)
    /\ idle' = {}
    /\ live' = live \ idle
    /\ open' = open \ idle
    /\ dead' = dead \ idle
    /\ borrower' = Moved(b, state)

(* With connections counted only once they are established. *)
RoomLive == Cardinality(live \ idle) < PoolLimit

Room == Cardinality(live \ idle) + Cardinality(opening) < PoolLimit

Connect(b) ==
    /\ DisposeDead(b, "connecting")
    /\ Room
    /\ UNCHANGED <<waiting, closed, holds, calls, drops>>

Wait(b) ==
    /\ DisposeDead(b, "waiting")
    /\ ~Room
    /\ waiting' = Append(waiting, b)
    /\ UNCHANGED <<closed, holds, calls, drops>>

(* connect() returns. A slot taken or given back, one waiter looks again. *)
Opened(b, c) ==
    /\ borrower[b] = "connecting"
    /\ c \notin open \cup UNION {holds[a] : a \in Borrower}
    /\ live' = live \cup {c}
    /\ open' = open \cup {c}
    /\ holds' = [holds EXCEPT ![b] = {c}]
    /\ IF closed THEN borrower' = Moved(b, "using") /\ UNCHANGED waiting
       ELSE Wake(Moved(b, "using"))
    /\ UNCHANGED <<idle, closed, dead, calls, drops>>

(* With a slot that comes free without anyone being told. *)
ConnectFailsSilently(b) ==
    /\ borrower[b] = "connecting"
    /\ borrower' = Moved(b, "away")
    /\ UNCHANGED <<pool, holds, open, dead, calls, drops>>

ConnectFails(b) ==
    /\ borrower[b] = "connecting"
    /\ IF closed THEN borrower' = Moved(b, "away") /\ UNCHANGED waiting
       ELSE Wake(Moved(b, "away"))
    /\ UNCHANGED <<idle, live, closed, holds, open, dead, calls, drops>>

(* After close() nothing is done with the connection. *)
Release(b) ==
    LET returned == IF closed THEN {} ELSE {c \in holds[b] : isAlive(c)}
        disposed == IF closed THEN {} ELSE holds[b] \ returned
    IN
    /\ borrower[b] = "using"
    /\ idle' = idle \cup returned
    /\ live' = live \ disposed
    /\ open' = open \ disposed
    /\ dead' = dead \ disposed
    /\ holds' = [holds EXCEPT ![b] = None]
    /\ Wake(Moved(b, "away"))
    /\ UNCHANGED <<closed, calls, drops>>

(* With waiters left in the queue by close(). *)
CloseAsleep ==
    /\ ~closed
    /\ closed' = TRUE
    /\ idle' = {}
    /\ live' = {}
    /\ open' = open \ live
    /\ dead' = dead \ live
    /\ UNCHANGED <<waiting, borrower, holds, calls, drops>>

(* Everyone who waits looks again, to be refused. *)
Close ==
    /\ ~closed
    /\ closed' = TRUE
    /\ borrower' = [b \in Borrower |-> IF borrower[b] = "waiting" THEN "looking" ELSE borrower[b]]
    /\ waiting' = << >>
    /\ idle' = {}
    /\ live' = {}
    /\ open' = open \ live
    /\ dead' = dead \ live
    /\ UNCHANGED <<holds, calls, drops>>

(* A connection dies, in use or parked. *)
Drop(c) ==
    /\ isAlive(c)
    /\ drops < MaxDrops
    /\ dead' = dead \cup {c}
    /\ drops' = drops + 1
    /\ UNCHANGED <<pool, borrower, holds, open, calls>>

Resume(b) == \/ Refuse(b) \/ Connect(b) \/ Wait(b)
             \/ \E c \in Conn, disposed \in SUBSET idle : Take(b, c, disposed)
Connected(b) == ConnectFails(b) \/ \E c \in Conn : Opened(b, c)

PoolNext == \/ \E b \in Borrower : Borrow(b) \/ Resume(b) \/ Connected(b) \/ Release(b)
            \/ Close
            \/ \E c \in Conn : Drop(c)

(* Promises settle: a woken borrower runs, connect() returns, and what uses *)
(* a connection is done with it at some point.                              *)
PoolFairness == \A b \in Borrower : /\ WF_poolVars(Resume(b))
                                    /\ WF_poolVars(Connected(b))
                                    /\ WF_poolVars(Release(b))

PoolSpec == PoolInit /\ [][PoolNext]_poolVars /\ PoolFairness

-----------------------------------------------------------------------------
(* A connection being established occupies a slot already: however many     *)
(* borrowers arrive while the first one connects, no more connections are   *)
(* counted and underway than the limit.                                     *)
PoolBounded == Cardinality(live) + Cardinality(opening) <= PoolLimit

(* One connection never serves two borrowers, nor a borrower while it is    *)
(* parked.                                                                  *)
NotShared ==
    \A a, b \in Borrower :
        /\ holds[a] \cap idle = {}
        /\ a # b => holds[a] \cap holds[b] = {}

(* Whoever waits has somebody to wake them: while the queue is not empty    *)
(* the pool is open, and another borrower is on its way through acquire()   *)
(* or has a connection to give back. A connection that dies, a connect()    *)
(* that fails and a close() may not leave a waiter behind.                  *)
NoWaiterStranded ==
    waiting # << >> => /\ ~closed
                       /\ \E b \in Borrower :
                             borrower[b] \in {"looking", "connecting", "using"}

(* While finitely many calls are made, every waiter gets its turn, or is    *)
(* refused: a newcomer may overtake a borrower that was woken and send it   *)
(* to the end of the queue, but no wake-up is lost on the way.              *)
WaiterServed ==
    \A b \in Borrower : borrower[b] = "waiting" ~> borrower[b] \in {"using", "away"}

=============================================================================
