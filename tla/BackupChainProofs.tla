-------------------------- MODULE BackupChainProofs --------------------------
(***************************************************************************)
(* That every archive of a chain nothing irregular happened to can be      *)
(* restored from each destination that holds it, and that chains hold back *)
(* no more than keepCount + fullEveryDays - 1 archives, or one more when   *)
(* the full of one was late: for any number of destinations, days and      *)
(* troubles.                                                               *)
(***************************************************************************)
EXTENDS BackupChain, RetentionLemmas, TLAPS

(* TypeOK is used as if it listed the fields. *)
USE DEF Archives

(* The days whose run has a place in a chain. *)
Planned == {n \in Day : chainId(n) # NoChain}

(* The place: first of a chain, or next after a recorded snapshot. *)
Position(n) ==
    LET base == archive[n].base
    IN  /\ n <= today /\ chainId(n) <= n /\ archive[n].index < n
        /\ \/ base = 0 /\ chainId(n) = n /\ archive[n].index = 0
           \/ /\ base \in recorded /\ base < n
              /\ chainId(base) = chainId(n)
              /\ archive[n].index = archive[base].index + 1

(* The recorded snapshots of a chain, up to one of them: a line without gaps. *)
UpTo(n) == {m \in InChain(recorded, chainId(n)) : m <= n}

Bookkeeping ==
    /\ \A n \in Day : IF chainId(n) = NoChain THEN archive[n].base = 0 ELSE Position(n)
    /\ recorded \subseteq Planned
    /\ \A n \in recorded : Cardinality(UpTo(n)) = archive[n].index + 1

(* The run in progress is not recorded yet and builds on the latest that is. *)
RunPlanned ==
    run.pc # "idle" =>
        /\ today \in Planned \ recorded
        /\ archive[today].base # 0 => \A m \in recorded : m <= archive[today].base

Files ==
    /\ stored \in [Dest -> SUBSET Day] /\ torn \in [Dest -> SUBSET Day]
    /\ sidecars \in [Dest -> SUBSET Day]
    /\ locked \in [Dest -> SUBSET Day] /\ damaged \in [Dest -> SUBSET Day]
    /\ \A d \in Dest : stored[d] \subseteq Planned /\ locked[d] \subseteq stored[d]
    /\ run.expired \subseteq Planned
    /\ run.pc = "deleting" => run.dest \in Dest

(* What counts as a member of a chain is one, or the chain is doubtful. *)
OnlyRecorded ==
    \A d \in Dest : \A n \in stored[d] :
        chainId(n) \in doubtful \/ n \in recorded \/ (run.pc # "idle" /\ n = today)

(* While a run uploads, what it builds on is wherever its archive may arrive. *)
BaseThere ==
    run.pc = "uploading" /\ chainId(today) \notin doubtful =>
        \A d \in Dest : Ancestors(archive[today].base) \subseteq stored[d]

(* Of a chain, retention deletes the later archives before the earlier. *)
ExpiresWhole ==
    run.pc = "deleting" =>
        \A n \in run.expired, m \in stored[run.dest] :
            chainId(m) = chainId(n) /\ n < m => m \in run.expired \/ chainId(n) \in doubtful

ChainInv ==
    /\ TypeOK /\ Bookkeeping /\ RunPlanned /\ Files
    /\ OnlyRecorded /\ BaseThere /\ ExpiresWhole /\ ChainsRestorable

-----------------------------------------------------------------------------
(* Ancestors as an operator of the bookkeeping. *)
AncestorsIn(a, n) ==
    LET from[k \in 0 .. MaxDays] ==
            IF k = 0 THEN {} ELSE {k} \cup from[a[k].base]
    IN  from[n]

Earlier(a) == \A k \in Day : a[k].base \in 0 .. k - 1

(* The equations of the walk, for the days up to m. *)
Walk(a, m, f) ==
    f = [k \in 0 .. m |-> IF k = 0 THEN {} ELSE {k} \cup f[a[k].base]]

(* The recursion of Ancestors is well-founded, so there is such a walk. *)
LEMMA WalkExists ==
    ASSUME NEW a, Earlier(a)
    PROVE  \E f : Walk(a, MaxDays, f)
<1> DEFINE T == {m \in 0 .. MaxDays : ~ \E f : Walk(a, m, f)}
<1> SUFFICES T = {}
  <2>1. MaxDays \in 0 .. MaxDays
    BY ChainAssumption
  <2> QED BY <2>1
<1> SUFFICES ASSUME T # {} PROVE FALSE
  OBVIOUS
<1>1. PICK m \in T : \A y \in T : m <= y
  <2>1. T \subseteq Nat
    BY ChainAssumption
  <2> HIDE DEF T
  <2> QED BY <2>1, LeastNumber
<1>2. m \in 0 .. MaxDays /\ m \in Nat /\ \A f : ~Walk(a, m, f)
  BY <1>1, ChainAssumption
<1>3. m # 0
  <2> SUFFICES ASSUME m = 0 PROVE FALSE
    OBVIOUS
  <2> DEFINE f == [k \in 0 .. 0 |-> {}]
  <2>1. f = [k \in 0 .. 0 |-> IF k = 0 THEN {} ELSE {k} \cup f[a[k].base]]
    OBVIOUS
  <2> QED BY <1>2, <2>1 DEF Walk
<1>4. PICK g : Walk(a, m - 1, g)
  <2>1. m - 1 \in 0 .. MaxDays /\ ~(m <= m - 1)
    BY <1>2, <1>3, ChainAssumption
  <2>2. m - 1 \notin T
    BY <1>1, <2>1
  <2> QED BY <2>1, <2>2
<1> DEFINE f == [k \in 0 .. m |-> IF k = m THEN {m} \cup g[a[m].base] ELSE g[k]]
<1>5. a[m].base \in 0 .. m - 1 /\ m \in Day
  BY <1>2, <1>3, ChainAssumption DEF Earlier, Day
<1>6. \A k \in 0 .. m - 1 : f[k] = g[k]
  BY <1>2
<1>7. ASSUME NEW k \in 0 .. m
      PROVE  f[k] = IF k = 0 THEN {} ELSE {k} \cup f[a[k].base]
  <2>1. CASE k = m
    BY <1>3, <1>5, <1>6, <2>1
  <2>2. CASE k # m
    <3>1. k \in 0 .. m - 1
      BY <1>2, <2>2
    <3>2. g[k] = IF k = 0 THEN {} ELSE {k} \cup g[a[k].base]
      BY <1>4, <3>1 DEF Walk
    <3>3. k # 0 => a[k].base \in 0 .. m - 1
      BY <1>2, <3>1, ChainAssumption DEF Earlier, Day
    <3> QED BY <1>6, <3>1, <3>2, <3>3
  <2> QED BY <2>1, <2>2
<1>8. Walk(a, m, f)
  <2>1. f = [k \in 0 .. m |-> f[k]]
    OBVIOUS
  <2> HIDE DEF f
  <2> QED BY <1>7, <2>1 DEF Walk
<1> QED BY <1>2, <1>8

(* One step of it. *)
LEMMA AncestorsUnfold ==
    ASSUME NEW a, Earlier(a), NEW n \in 0 .. MaxDays
    PROVE  AncestorsIn(a, n) = IF n = 0 THEN {} ELSE {n} \cup AncestorsIn(a, a[n].base)
<1> DEFINE from == CHOOSE f : Walk(a, MaxDays, f)
<1>1. Walk(a, MaxDays, from)
  BY WalkExists
<1>2. \A k : AncestorsIn(a, k) = from[k]
  BY DEF AncestorsIn, Walk
<1> HIDE DEF from
<1>3. from[n] = IF n = 0 THEN {} ELSE {n} \cup from[a[n].base]
  BY <1>1 DEF Walk
<1> QED BY <1>2, <1>3

(* Days that are not touched keep their ancestors. *)
LEMMA AncestorsStable ==
    ASSUME NEW a, NEW b, Earlier(a), Earlier(b), NEW m \in 0 .. MaxDays,
           \A k \in 1 .. m : a[k].base = b[k].base
    PROVE  \A k \in 0 .. m : AncestorsIn(a, k) = AncestorsIn(b, k)
<1> DEFINE T == {k \in 0 .. m : AncestorsIn(a, k) # AncestorsIn(b, k)}
<1> SUFFICES ASSUME T # {} PROVE FALSE
  OBVIOUS
<1>1. PICK k \in T : \A y \in T : k <= y
  <2>1. T \subseteq Nat
    OBVIOUS
  <2> HIDE DEF T
  <2> QED BY <2>1, LeastNumber
<1>2. k \in 0 .. m /\ k \in 0 .. MaxDays /\ AncestorsIn(a, k) # AncestorsIn(b, k)
  BY <1>1, ChainAssumption
<1>3. /\ AncestorsIn(a, k) = IF k = 0 THEN {} ELSE {k} \cup AncestorsIn(a, a[k].base)
      /\ AncestorsIn(b, k) = IF k = 0 THEN {} ELSE {k} \cup AncestorsIn(b, b[k].base)
  BY <1>2, AncestorsUnfold
<1>4. k # 0
  BY <1>2, <1>3
<1>5. a[k].base = b[k].base /\ a[k].base \in 0 .. m /\ ~(k <= a[k].base)
  BY <1>2, <1>4, ChainAssumption DEF Earlier, Day
<1>6. AncestorsIn(a, a[k].base) = AncestorsIn(b, a[k].base)
  BY <1>1, <1>5
<1> QED BY <1>2, <1>3, <1>5, <1>6

LEMMA BasesEarlier == ASSUME TypeOK, Bookkeeping PROVE Earlier(archive)
<1> SUFFICES ASSUME NEW n \in Day PROVE archive[n].base \in 0 .. n - 1
  BY DEF Earlier
<1>1. archive[n].base \in 0 .. MaxDays /\ n \in 1 .. MaxDays
  BY DEF TypeOK, Day
<1>2. archive[n].base = 0 \/ archive[n].base < n
  BY DEF Bookkeeping, Position
<1> QED BY <1>1, <1>2, ChainAssumption

(* The ancestors of a snapshot are itself and recorded ones before it in    *)
(* its chain.                                                               *)
LEMMA AncestorsWithin ==
    ASSUME TypeOK, Bookkeeping, NEW n \in Planned, NEW k \in Ancestors(n), k # n
    PROVE  k \in recorded /\ chainId(k) = chainId(n) /\ k < n /\ archive[k].index < archive[n].index
<1> DEFINE Line(i) == {j \in recorded : /\ chainId(j) = chainId(i) /\ j < i
                                       /\ archive[j].index < archive[i].index}
           T == {i \in Planned : ~ AncestorsIn(archive, i) \subseteq {i} \cup Line(i)}
<1>a. AncestorsIn(archive, n) = Ancestors(n)
  BY DEF Ancestors, AncestorsIn
<1> SUFFICES T = {}
  BY <1>a
<1> SUFFICES ASSUME T # {} PROVE FALSE
  OBVIOUS
<1>b. Planned \subseteq Nat
  BY DEF Planned, Day
<1>1. PICK i \in T : \A y \in T : i <= y
  <2>1. T \subseteq Nat
    BY <1>b
  <2> HIDE DEF T
  <2> QED BY <2>1, LeastNumber
<1>2. /\ i \in Planned /\ i \in 0 .. MaxDays /\ i # 0 /\ i \in Day
      /\ ~ AncestorsIn(archive, i) \subseteq {i} \cup Line(i)
  BY <1>1, ChainAssumption DEF Planned, Day
<1> DEFINE base == archive[i].base
<1>3. AncestorsIn(archive, i) = {i} \cup AncestorsIn(archive, base)
  BY <1>2, BasesEarlier, AncestorsUnfold
<1>4. Position(i)
  BY <1>2 DEF Bookkeeping, Planned
<1>5. CASE base = 0
  <2>1. AncestorsIn(archive, base) = {}
    BY <1>5, BasesEarlier, AncestorsUnfold, ChainAssumption
  <2> QED BY <1>2, <1>3, <2>1
<1>6. CASE base # 0
  <2>1. /\ base \in recorded /\ base < i /\ chainId(base) = chainId(i)
        /\ archive[i].index = archive[base].index + 1
    BY <1>4, <1>6 DEF Position
  <2>2. base \in Planned /\ base \in Nat
    BY <1>b, <2>1 DEF Bookkeeping
  <2>3. AncestorsIn(archive, base) \subseteq {base} \cup Line(base)
    BY <1>1, <1>2, <1>b, <2>1, <2>2
  <2>4. \A j \in Planned : archive[j].index \in Nat
    BY DEF TypeOK, Planned
  <2>5. {base} \cup Line(base) \subseteq Line(i)
    <3> SUFFICES ASSUME NEW j \in Line(base) PROVE j \in Line(i)
      BY <1>2, <2>1, <2>2, <2>4
    <3>1. /\ j \in recorded /\ j \in Planned /\ chainId(j) = chainId(base) /\ j < base
          /\ archive[j].index < archive[base].index
      BY DEF Bookkeeping
    <3>2. /\ j \in Nat /\ archive[j].index \in Nat /\ archive[base].index \in Nat
      BY <1>b, <2>2, <2>4, <3>1
    <3> HIDE DEF base
    <3> QED BY <1>2, <2>1, <2>2, <3>1, <3>2
  <2> QED BY <1>2, <1>3, <2>3, <2>5
<1> QED BY <1>5, <1>6

-----------------------------------------------------------------------------
LEMMA LatestIs ==
    ASSUME TypeOK, recorded # {}
    PROVE  Latest \in recorded /\ \A m \in recorded : m <= Latest
<1>1. recorded \subseteq 0 .. MaxDays
  BY DEF TypeOK, Day
<1>2. \E n \in recorded : \A m \in recorded : m <= n
  BY <1>1, ChainAssumption, GreatestNumber
<1> QED BY <1>2 DEF Latest

LEMMA MetaDestIs ==
    ASSUME NEW n, Readable(n) # {}
    PROVE  MetaDest(n) \in Readable(n)
<1>1. Readable(n) \subseteq Nat
  BY ChainAssumption DEF Readable, Dest
<1>2. \E d \in Readable(n) : \A x \in Readable(n) : d <= x
  BY <1>1, LeastNumber
<1> QED BY <1>2 DEF MetaDest

LEMMA DaysAreFinite == ASSUME NEW S \in SUBSET Day PROVE IsFiniteSet(S)
<1>1. IsFiniteSet(Day)
  BY FS_Interval, ChainAssumption DEF Day
<1> QED BY <1>1, FS_Subset

(* The count of chainIntactAt is enough where a chain has recorded members  *)
(* only: as many archives as the latest one has predecessors are all.       *)
LEMMA IntactIsComplete ==
    ASSUME ChainInv, run.pc = "idle", recorded # {},
           NEW d \in Dest, chainIntactAt(d, Latest), chainId(Latest) \notin doubtful
    PROVE  InChain(recorded, chainId(Latest)) \subseteq stored[d]
<1> DEFINE R == InChain(recorded, chainId(Latest))
           S == InChain(stored[d], chainId(Latest))
<1> USE DEF ChainInv
<1>1. Latest \in recorded /\ \A m \in recorded : m <= Latest
  BY LatestIs
<1>2. UpTo(Latest) = R
  BY <1>1 DEF UpTo, InChain
<1>3. Cardinality(R) = archive[Latest].index + 1
  BY <1>1, <1>2 DEF Bookkeeping
<1>4. S \subseteq R
  BY DEF OnlyRecorded, InChain
<1>5. R \subseteq Day
  BY DEF InChain, TypeOK
<1>6. IsFiniteSet(R) /\ IsFiniteSet(S)
  BY <1>4, <1>5, DaysAreFinite
<1>7. Cardinality(S) >= Cardinality(R)
  BY <1>3 DEF chainIntactAt
<1>8. Cardinality(S) <= Cardinality(R) /\ (Cardinality(R) = Cardinality(S) => R = S)
  BY <1>4, <1>6, FS_Subset
<1>9. Cardinality(S) \in Nat /\ Cardinality(R) \in Nat
  BY <1>6, FS_CardinalityType
<1>10. R = S
  BY <1>7, <1>8, <1>9
<1>11. S \subseteq stored[d]
  BY DEF InChain
<1> QED BY <1>10, <1>11

(* What adding and dropping one file does to a table of files. *)
LEMMA Put ==
    ASSUME NEW f \in [Dest -> SUBSET Day], NEW d \in Dest, NEW n \in Day
    PROVE  LET g == [f EXCEPT ![d] = @ \cup {n}]
           IN  /\ g \in [Dest -> SUBSET Day]
               /\ \A x \in Dest : g[x] = IF x = d THEN f[d] \cup {n} ELSE f[x]
OBVIOUS

LEMMA Drop ==
    ASSUME NEW f \in [Dest -> SUBSET Day], NEW d \in Dest, NEW n
    PROVE  LET g == [f EXCEPT ![d] = @ \ {n}]
           IN  /\ g \in [Dest -> SUBSET Day]
               /\ \A x \in Dest : g[x] = IF x = d THEN f[d] \ {n} ELSE f[x]
OBVIOUS

LEMMA SidecarsGone ==
    ASSUME Files, NEW d \in Dest, NEW n \in Day, removeSidecars(d, n)
    PROVE  /\ sidecars' \in [Dest -> SUBSET Day]
           /\ locked' \in [Dest -> SUBSET Day] /\ damaged' \in [Dest -> SUBSET Day]
           /\ \A x \in Dest : /\ sidecars'[x] = IF x = d THEN sidecars[d] \ {n} ELSE sidecars[x]
                              /\ locked'[x] = IF x = d THEN locked[d] \ {n} ELSE locked[x]
                              /\ damaged'[x] = IF x = d THEN damaged[d] \ {n} ELSE damaged[x]
BY Drop DEF Files, removeSidecars

LEMMA ArchiveGone ==
    ASSUME Files, NEW d \in Dest, NEW n \in Day, remove(d, n)
    PROVE  /\ stored' \in [Dest -> SUBSET Day] /\ torn' \in [Dest -> SUBSET Day]
           /\ \A x \in Dest : /\ stored'[x] = IF x = d THEN stored[d] \ {n} ELSE stored[x]
                              /\ torn'[x] = IF x = d THEN torn[d] \ {n} ELSE torn[x]
           /\ removeSidecars(d, n)
BY Drop DEF Files, remove

(* All that remove does to the files. *)
WithoutArchive(d, n) ==
    /\ stored' \in [Dest -> SUBSET Day] /\ torn' \in [Dest -> SUBSET Day]
    /\ sidecars' \in [Dest -> SUBSET Day]
    /\ locked' \in [Dest -> SUBSET Day] /\ damaged' \in [Dest -> SUBSET Day]
    /\ \A x \in Dest : /\ stored'[x] = IF x = d THEN stored[d] \ {n} ELSE stored[x]
                       /\ torn'[x] = IF x = d THEN torn[d] \ {n} ELSE torn[x]
                       /\ sidecars'[x] = IF x = d THEN sidecars[d] \ {n} ELSE sidecars[x]
                       /\ locked'[x] = IF x = d THEN locked[d] \ {n} ELSE locked[x]
                       /\ damaged'[x] = IF x = d THEN damaged[d] \ {n} ELSE damaged[x]

LEMMA Removed ==
    ASSUME Files, NEW d \in Dest, NEW n \in Day, remove(d, n)
    PROVE  WithoutArchive(d, n)
<1>1. removeSidecars(d, n)
  BY DEF remove
<1>2. /\ sidecars' \in [Dest -> SUBSET Day]
      /\ locked' \in [Dest -> SUBSET Day] /\ damaged' \in [Dest -> SUBSET Day]
      /\ \A x \in Dest : /\ sidecars'[x] = IF x = d THEN sidecars[d] \ {n} ELSE sidecars[x]
                         /\ locked'[x] = IF x = d THEN locked[d] \ {n} ELSE locked[x]
                         /\ damaged'[x] = IF x = d THEN damaged[d] \ {n} ELSE damaged[x]
  BY <1>1, SidecarsGone
<1>3. /\ stored' \in [Dest -> SUBSET Day] /\ torn' \in [Dest -> SUBSET Day]
      /\ \A x \in Dest : /\ stored'[x] = IF x = d THEN stored[d] \ {n} ELSE stored[x]
                         /\ torn'[x] = IF x = d THEN torn[d] \ {n} ELSE torn[x]
  BY ArchiveGone
<1> QED BY <1>2, <1>3 DEF WithoutArchive

(* Most steps leave the bookkeeping alone. *)
LEMMA BooksKept ==
    ASSUME ChainInv, UNCHANGED <<today, archive, recorded>>
    PROVE  /\ Bookkeeping' /\ Planned' = Planned
           /\ \A n : chainId(n)' = chainId(n) /\ Ancestors(n)' = Ancestors(n)
<1>1. Planned' = Planned /\ \A n : chainId(n)' = chainId(n)
  BY DEF Planned, chainId
<1>2. Bookkeeping'
  BY DEF ChainInv, Bookkeeping, Position, UpTo, InChain, Planned, chainId
<1>3. \A n : Ancestors(n)' = Ancestors(n)
  BY DEF Ancestors
<1> QED BY <1>1, <1>2, <1>3

LEMMA InitInv == Init => ChainInv
<1> SUFFICES ASSUME Init PROVE ChainInv
  OBVIOUS
<1> USE DEF Init
<1>1. TypeOK
  BY ChainAssumption DEF TypeOK, NoArchive, NoChain, IdleRun, Dest
<1>2. \A n \in Day : chainId(n) = NoChain /\ archive[n].base = 0
  BY DEF chainId, NoArchive
<1>3. Bookkeeping
  BY <1>2 DEF Bookkeeping
<1>4. run.pc = "idle" /\ run.expired = {}
  BY DEF IdleRun
<1>5. \A d \in Dest : stored[d] = {} /\ locked[d] = {}
  OBVIOUS
<1>6. Files
  BY <1>4, <1>5 DEF Files
<1> QED
  BY <1>1, <1>3, <1>4, <1>5, <1>6
     DEF ChainInv, RunPlanned, OnlyRecorded, BaseThere, ExpiresWhole, ChainsRestorable

-----------------------------------------------------------------------------
(* A day goes by. *)
LEMMA SkipDayInv == ASSUME ChainInv, SkipDay PROVE ChainInv'
<1> USE DEF ChainInv
<1>1. /\ run' = run /\ run.pc = "idle" /\ archive' = archive /\ recorded' = recorded
      /\ UNCHANGED <<stored, torn, sidecars, locked, damaged>>
      /\ doubtful' = doubtful /\ troubles' = troubles /\ today' = today + 1
      /\ today \in Nat /\ today' \in 0 .. MaxDays
  BY ChainAssumption DEF SkipDay, files, TypeOK
<1>2. Planned' = Planned /\ \A n : chainId(n)' = chainId(n)
  BY <1>1 DEF Planned, chainId
<1>3. TypeOK'
  <2>1. \A d \in Dest : stored'[d] \cup sidecars'[d] \subseteq 1 .. today'
    BY <1>1 DEF TypeOK
  <2> QED BY <1>1, <1>2, <2>1 DEF TypeOK
<1>4. Bookkeeping'
  <2>1. \A n \in Day : Position(n) => Position(n)'
    BY <1>1, <1>2 DEF Position, chainId, Day
  <2>2. \A n : UpTo(n)' = UpTo(n)
    BY <1>1, <1>2 DEF UpTo, InChain
  <2> QED BY <1>1, <1>2, <2>1, <2>2 DEF Bookkeeping
<1>5. \A n : Ancestors(n)' = Ancestors(n)
  BY <1>1 DEF Ancestors
<1>6. RunPlanned' /\ BaseThere' /\ ExpiresWhole'
  BY <1>1 DEF RunPlanned, BaseThere, ExpiresWhole
<1>7. Files'
  BY <1>1, <1>2 DEF Files
<1>8. OnlyRecorded'
  BY <1>1, <1>2 DEF OnlyRecorded
<1>9. ChainsRestorable'
  BY <1>1, <1>2, <1>5 DEF ChainsRestorable
<1> QED BY <1>3, <1>4, <1>6, <1>7, <1>8, <1>9

(* A run starts, with a first archive or on what is there of its chain. *)
LEMMA StartRunInv ==
    ASSUME ChainInv, NEW a, StartRun(a),
           a \in Archives, troubles' \in 0 .. MaxTroubles,
           \/ a.base = 0 /\ a.chain = today + 1 /\ a.index = 0
           \/ /\ a.base \in recorded /\ a.chain = chainId(a.base)
              /\ a.index = archive[a.base].index + 1
              /\ \A m \in recorded : m <= a.base
              /\ a.chain \notin doubtful => \A d \in Dest : Ancestors(a.base) \subseteq stored[d]
    PROVE  ChainInv'
<1> USE DEF ChainInv
<1>1. /\ run.pc = "idle" /\ run'.pc = "uploading" /\ run'.expired = {}
      /\ run' \in [pc : {"idle", "uploading", "retention", "deleting"},
                   dest : 1 .. NumDests + 1, uploaded : SUBSET Dest, expired : SUBSET Day]
      /\ archive' = [archive EXCEPT ![today'] = a] /\ recorded' = recorded
      /\ UNCHANGED <<stored, torn, sidecars, locked, damaged>>
      /\ doubtful' = doubtful
  BY ChainAssumption DEF StartRun, files, IdleRun, Dest
<1>2. /\ today' = today + 1 /\ today \in 0 .. MaxDays /\ today \in Nat
      /\ today' \in 0 .. MaxDays /\ today' \in Day
  <2>1. today \in 0 .. MaxDays
    BY DEF TypeOK
  <2> QED BY <2>1, ChainAssumption DEF StartRun, Day
<1>3. /\ archive' \in [Day -> Archives]
      /\ archive'[today'] = a
      /\ \A n \in Day : n # today' => archive'[n] = archive[n]
  BY <1>1, <1>2 DEF TypeOK
<1>4. \A n \in Planned : n \in Day /\ n <= today /\ n \in 1 .. today /\ Position(n)
  <2>1. \A n \in Planned : n \in Day /\ Position(n)
    BY DEF Planned, Bookkeeping
  <2> QED BY <2>1 DEF Position, Day
<1>5. \A n \in Planned : archive'[n] = archive[n] /\ chainId(n)' = chainId(n) /\ n # today'
  BY <1>2, <1>3, <1>4 DEF chainId
<1>6. /\ recorded \subseteq Planned /\ \A d \in Dest : stored[d] \subseteq Planned
  BY DEF Bookkeeping, Files
<1>7. \/ a.base = 0 /\ a.chain = today + 1 /\ a.index = 0
      \/ /\ a.base \in recorded /\ a.base \in Planned /\ a.base < today'
         /\ a.chain = chainId(a.base) /\ chainId(a.base) \in 1 .. today
         /\ a.index = archive[a.base].index + 1 /\ a.index < today'
         /\ \A m \in recorded : m <= a.base
         /\ a.chain \notin doubtful => \A d \in Dest : Ancestors(a.base) \subseteq stored[d]
  <2>1. CASE a.base = 0 /\ a.chain = today + 1 /\ a.index = 0
    BY <2>1
  <2>2. CASE /\ a.base \in recorded /\ a.chain = chainId(a.base)
             /\ a.index = archive[a.base].index + 1
             /\ \A m \in recorded : m <= a.base
             /\ a.chain \notin doubtful => \A d \in Dest : Ancestors(a.base) \subseteq stored[d]
    <3>1. a.base \in Planned /\ a.base \in 1 .. today /\ Position(a.base)
      BY <1>4, <1>6, <2>2
    <3>2. chainId(a.base) \in 0 .. MaxDays /\ chainId(a.base) # 0
      BY <3>1 DEF TypeOK, Planned, chainId, NoChain
    <3>3. chainId(a.base) \in 1 .. today
      BY <1>2, <3>1, <3>2 DEF Position
    <3>4. archive[a.base].index \in Nat /\ archive[a.base].index < a.base
      BY <3>1 DEF Position, TypeOK, Planned
    <3> QED BY <1>2, <2>2, <3>1, <3>3, <3>4
  <2> QED BY <2>1, <2>2
<1>8. Position(today)' /\ chainId(today)' # NoChain
  BY <1>1, <1>2, <1>3, <1>5, <1>7 DEF Position, chainId, NoChain
<1>9. \A n \in Planned : Position(n)' /\ chainId(n)' # NoChain
  <2> SUFFICES ASSUME NEW n \in Planned PROVE Position(n)' /\ chainId(n)' # NoChain
    OBVIOUS
  <2>1. Position(n) /\ chainId(n) # NoChain
    BY <1>4 DEF Planned
  <2>2. archive[n].base \in recorded => archive'[archive[n].base] = archive[archive[n].base]
    BY <1>5, <1>6
  <2> QED BY <1>1, <1>2, <1>4, <1>5, <2>1, <2>2 DEF Position, chainId
<1>10. \A n \in Day : n \notin Planned /\ n # today' =>
          chainId(n)' = NoChain /\ archive'[n].base = 0
  BY <1>3 DEF Planned, chainId, Bookkeeping
<1>11. Planned' = Planned \cup {today'}
  BY <1>2, <1>4, <1>8, <1>9, <1>10 DEF Planned, chainId
<1>12. Bookkeeping'
  <2>1. \A n \in recorded : UpTo(n)' = UpTo(n)
    BY <1>1, <1>5, <1>6 DEF UpTo, InChain
  <2>2. \A n \in recorded : Cardinality(UpTo(n))' = archive'[n].index + 1
    BY <1>5, <1>6, <2>1 DEF Bookkeeping
  <2>3. ASSUME NEW n \in Day
        PROVE  IF chainId(n)' = NoChain THEN archive'[n].base = 0 ELSE Position(n)'
    <3>1. CASE n \in Planned
      BY <1>9, <3>1
    <3>2. CASE n = today'
      BY <1>8, <3>2 DEF Position, chainId
    <3>3. CASE n \notin Planned /\ n # today'
      BY <1>10, <3>3
    <3> QED BY <3>1, <3>2, <3>3
  <2>4. recorded' \subseteq Planned'
    BY <1>1, <1>6, <1>11
  <2> QED BY <1>1, <2>2, <2>3, <2>4 DEF Bookkeeping
<1>13. TypeOK'
  <2>1. \A d \in Dest : stored'[d] \cup sidecars'[d] \subseteq 1 .. today'
    BY <1>1, <1>2 DEF TypeOK
  <2>2. \A d \in Dest : \A n \in stored'[d] \ sidecars'[d] : chainId(n)' \in doubtful'
    BY <1>1, <1>5, <1>6 DEF TypeOK, chainId
  <2> QED BY <1>1, <1>2, <1>3, <2>1, <2>2 DEF TypeOK, chainId
<1>14. \A k \in 0 .. today : Ancestors(k)' = Ancestors(k)
  <2>1. Earlier(archive) /\ Earlier(archive')
    <3>1. Earlier(archive)
      BY BasesEarlier
    <3>2. a.base \in 0 .. today' - 1
      BY <1>2, <1>4, <1>7
    <3> QED BY <1>3, <3>1, <3>2 DEF Earlier
  <2>2. ASSUME NEW k \in 1 .. today
        PROVE  archive[k].base = archive'[k].base
    <3>1. k \in Day /\ k # today'
      BY <1>2, ChainAssumption DEF Day
    <3> QED BY <1>3, <3>1
  <2>3. \A k \in 0 .. today : AncestorsIn(archive, k) = AncestorsIn(archive', k)
    BY <1>2, <2>1, <2>2, AncestorsStable
  <2> QED BY <2>3 DEF Ancestors, AncestorsIn
<1>15. RunPlanned'
  <2>1. today' \in Planned' \ recorded'
    BY <1>1, <1>5, <1>6, <1>11
  <2>2. archive'[today'].base # 0 => \A m \in recorded' : m <= archive'[today'].base
    BY <1>1, <1>3, <1>7
  <2> QED BY <2>1, <2>2 DEF RunPlanned
<1>16. Files'
  BY <1>1, <1>6, <1>11 DEF Files
<1>17. OnlyRecorded'
  BY <1>1, <1>5, <1>6 DEF OnlyRecorded
<1>18. BaseThere'
  <2>a. Ancestors(archive[today].base)' = AncestorsIn(archive', archive'[today'].base)
    BY DEF Ancestors, AncestorsIn
  <2>b. \A k \in 0 .. today : AncestorsIn(archive', k) = Ancestors(k)
    BY <1>14 DEF Ancestors, AncestorsIn
  <2> SUFFICES ASSUME chainId(today)' \notin doubtful', NEW d \in Dest
               PROVE  AncestorsIn(archive', archive'[today'].base) \subseteq stored[d]
    BY <1>1, <2>a DEF BaseThere
  <2>1. CASE a.base = 0
    <3>1. AncestorsIn(archive, 0) = {}
      BY BasesEarlier, AncestorsUnfold, ChainAssumption
    <3>2. Ancestors(0) = {}
      BY <3>1 DEF Ancestors, AncestorsIn
    <3> QED BY <1>2, <1>3, <2>b, <2>1, <3>2
  <2>2. CASE a.base # 0
    <3>1. a.base \in 0 .. today /\ Ancestors(a.base) \subseteq stored[d]
      BY <1>1, <1>2, <1>3, <1>4, <1>7, <2>2 DEF chainId
    <3> QED BY <1>3, <2>b, <3>1
  <2> QED BY <2>1, <2>2
<1>19. ExpiresWhole'
  BY <1>1 DEF ExpiresWhole
<1>20. ChainsRestorable'
  <2> SUFFICES ASSUME NEW d \in Dest, NEW n \in stored[d], chainId(n)' \notin doubtful
               PROVE  Ancestors(n)' \subseteq stored[d]
    BY <1>1 DEF ChainsRestorable
  <2>1. n \in Planned /\ n \in 0 .. today
    BY <1>4, <1>6
  <2> QED BY <1>5, <1>14, <2>1 DEF ChainsRestorable
<1> QED BY <1>12, <1>13, <1>15, <1>16, <1>17, <1>18, <1>19, <1>20

LEMMA FullInv ==
    ASSUME ChainInv, NEW late \in BOOLEAN, StartFull(late), troubles' \in 0 .. MaxTroubles
    PROVE  ChainInv'
<1> USE DEF ChainInv
<1> DEFINE a == [chain |-> today + 1, index |-> 0, base |-> 0, start |-> Moment(today + 1, late)]
<1>1. StartRun(a) /\ today \in Nat /\ today + 1 \in 0 .. MaxDays
  BY ChainAssumption DEF StartFull, StartRun, TypeOK
<1>2. Moment(today + 1, late) \in 0 .. 2 * MaxDays + 1
  BY <1>1, ChainAssumption DEF Moment
<1>3. a \in Archives
  BY <1>1, <1>2, ChainAssumption DEF Archives
<1>4. a.base = 0 /\ a.chain = today + 1 /\ a.index = 0
  OBVIOUS
<1> HIDE DEF a
<1> QED BY <1>1, <1>3, <1>4, StartRunInv

LEMMA PlanInv ==
    ASSUME ChainInv, PlanFull \/ PlanLateFull \/ PlanIncremental
    PROVE  ChainInv'
<1> USE DEF ChainInv
<1>1. CASE PlanFull \/ PlanLateFull
  <2>1. \E late \in BOOLEAN : StartFull(late)
    BY <1>1 DEF PlanFull, PlanLateFull
  <2>2. troubles' \in 0 .. MaxTroubles
    <3>1. troubles \in 0 .. MaxTroubles /\ MaxTroubles \in Nat
      BY ChainAssumption DEF TypeOK
    <3>2. troubles' = troubles \/ (troubles < MaxTroubles /\ troubles' = troubles + 1)
      BY <1>1 DEF PlanFull, PlanLateFull, Trouble
    <3> QED BY <3>1, <3>2
  <2> QED BY <2>1, <2>2, FullInv
<1>2. CASE PlanIncremental
  <2> DEFINE a == [chain |-> chainId(Latest), index |-> archive[Latest].index + 1,
                   base |-> Latest, start |-> archive[Latest].start]
  <2>1. /\ StartRun(a) /\ run.pc = "idle" /\ today < MaxDays /\ recorded # {}
        /\ \A d \in Dest : chainIntactAt(d, Latest)
    BY <1>2 DEF PlanIncremental, StartRun
  <2>2. Latest \in recorded /\ \A m \in recorded : m <= Latest
    BY <2>1, LatestIs
  <2>3. Latest \in Planned /\ Latest \in Day /\ Position(Latest) /\ today \in 0 .. MaxDays
    BY <2>2 DEF Bookkeeping, Planned, TypeOK
  <2>4. /\ Latest \in 0 .. MaxDays /\ archive[Latest].index \in Nat
        /\ chainId(Latest) \in 0 .. MaxDays /\ archive[Latest].start \in 0 .. 2 * MaxDays + 1
    BY <2>3, ChainAssumption DEF TypeOK, Archives, Day, chainId
  <2>5. archive[Latest].index + 1 \in 0 .. MaxDays
    BY <2>3, <2>4, ChainAssumption DEF Position
  <2>6. a \in Archives /\ troubles' \in 0 .. MaxTroubles
    BY <1>2, <2>4, <2>5 DEF Archives, PlanIncremental, TypeOK
  <2>7. ASSUME chainId(Latest) \notin doubtful, NEW d \in Dest
        PROVE  Ancestors(Latest) \subseteq stored[d]
    <3>1. InChain(recorded, chainId(Latest)) \subseteq stored[d]
      BY <2>1, <2>7, IntactIsComplete
    <3>2. Ancestors(Latest) \subseteq InChain(recorded, chainId(Latest))
      BY <2>2, <2>3, AncestorsWithin DEF InChain
    <3> QED BY <3>1, <3>2
  <2>8. /\ a.base = Latest /\ a.chain = chainId(Latest)
        /\ a.index = archive[Latest].index + 1
    OBVIOUS
  <2> HIDE DEF a
  <2> QED BY <2>1, <2>2, <2>6, <2>7, <2>8, StartRunInv
<1> QED BY <1>1, <1>2

-----------------------------------------------------------------------------
RunState == [pc : {"idle", "uploading", "retention", "deleting"},
             dest : 1 .. NumDests + 1, uploaded : SUBSET Dest, expired : SUBSET Day]

LEMMA RunTyped == ASSUME ChainInv PROVE run \in RunState
  BY DEF ChainInv, TypeOK, RunState

(* A run moves on, and no file is written or deleted. *)
LEMMA RunStep ==
    ASSUME ChainInv, UNCHANGED <<today, archive, recorded, files>>,
           troubles' \in 0 .. MaxTroubles, run' \in RunState,
           doubtful \subseteq doubtful', doubtful' \subseteq Day,
           run'.pc # "idle" => run.pc # "idle",
           run'.pc = "uploading" => run.pc = "uploading",
           run'.expired \subseteq Planned,
           run'.pc = "deleting" => run'.dest \in Dest,
           run'.pc = "idle" /\ run.pc # "idle" =>
               \A d \in Dest : today \in stored[d] => chainId(today) \in doubtful',
           ExpiresWhole'
    PROVE  ChainInv'
<1> USE DEF ChainInv
<1>1. /\ UNCHANGED <<today, archive, recorded, stored, torn, sidecars, locked, damaged>>
      /\ Bookkeeping' /\ Planned' = Planned
      /\ \A n : chainId(n)' = chainId(n) /\ Ancestors(n)' = Ancestors(n)
  BY BooksKept DEF files
<1>2. TypeOK'
  BY <1>1 DEF TypeOK, RunState, chainId
<1>3. RunPlanned'
  BY <1>1 DEF RunPlanned
<1>4. Files'
  BY <1>1 DEF Files
<1>5. OnlyRecorded'
  BY <1>1 DEF OnlyRecorded
<1>6. BaseThere'
  BY <1>1 DEF BaseThere, chainId, Ancestors
<1>7. ChainsRestorable'
  BY <1>1 DEF ChainsRestorable
<1> QED BY <1>1, <1>2, <1>3, <1>4, <1>5, <1>6, <1>7

(* A run that ends unrecorded: its chain is doubtful if it left an archive. *)
LEMMA AbandonInv ==
    ASSUME ChainInv, run.pc # "idle", AbandonRun,
           UNCHANGED <<today, archive, recorded, files>>, troubles' \in 0 .. MaxTroubles
    PROVE  ChainInv'
<1> USE DEF ChainInv
<1>1. run' \in RunState /\ run'.pc = "idle" /\ run'.expired = {}
  BY ChainAssumption DEF AbandonRun, IdleRun, RunState
<1>2. chainId(today) \in Day
  <2>1. today \in Planned
    BY DEF RunPlanned
  <2> QED BY <2>1, ChainAssumption DEF Planned, chainId, TypeOK, NoChain, Day
<1>3. /\ doubtful \subseteq doubtful' /\ doubtful' \subseteq Day
      /\ \A d \in Dest : today \in stored[d] => chainId(today) \in doubtful'
  BY <1>2 DEF AbandonRun, TypeOK
<1>4. ExpiresWhole'
  BY <1>1 DEF ExpiresWhole
<1> QED BY <1>1, <1>3, <1>4, RunStep

LEMMA EvaluateInv == ASSUME ChainInv, EvaluateUploads PROVE ChainInv'
<1> USE DEF ChainInv
<1>1. /\ run.pc = "uploading" /\ UNCHANGED <<today, archive, recorded, files>>
      /\ troubles' \in 0 .. MaxTroubles
  BY DEF EvaluateUploads, TypeOK
<1>2. CASE run.uploaded = {}
  BY <1>1, <1>2, AbandonInv DEF EvaluateUploads
<1>3. CASE run.uploaded # {}
  <2>1. run' = [run EXCEPT !.pc = "retention", !.dest = 1] /\ doubtful' = doubtful
    BY <1>3 DEF EvaluateUploads
  <2>2. /\ run' \in RunState /\ run'.pc = "retention" /\ run'.expired = run.expired
    <3> HIDE DEF ChainInv
    <3>1. run \in RunState /\ 1 \in 1 .. NumDests + 1
      BY RunTyped, ChainAssumption
    <3> QED BY <2>1, <3>1 DEF RunState
  <2>3. ExpiresWhole'
    BY <2>2 DEF ExpiresWhole
  <2> QED BY <1>1, <2>1, <2>2, <2>3, RunStep DEF TypeOK, Files
<1> QED BY <1>2, <1>3

LEMMA InterruptInv == ASSUME ChainInv, Interrupt PROVE ChainInv'
<1>1. troubles' \in 0 .. MaxTroubles
  BY ChainAssumption DEF ChainInv, TypeOK, Interrupt, Trouble
<1> QED BY <1>1, AbandonInv DEF Interrupt

(* An archive arrives, whole or not, after its sidecar. *)
LEMMA UploadInv ==
    ASSUME ChainInv, Upload \/ TearUpload
    PROVE  ChainInv'
<1> USE DEF ChainInv
<1> DEFINE d == run.dest
<1>1. /\ run.pc = "uploading" /\ run.dest <= NumDests
      /\ sidecars' = [sidecars EXCEPT ![d] = @ \cup {today}]
      /\ stored' = [stored EXCEPT ![d] = @ \cup {today}]
      /\ torn' = torn \/ torn' = [torn EXCEPT ![d] = @ \cup {today}]
      /\ UNCHANGED <<today, archive, recorded, locked, damaged, doubtful>>
      /\ troubles' \in 0 .. MaxTroubles
  BY ChainAssumption DEF Upload, TearUpload, TypeOK, Trouble
<1>2. run \in RunState /\ d \in Dest
  BY <1>1, ChainAssumption, RunTyped DEF RunState, Dest
<1>3. /\ run' \in RunState /\ run'.pc = "uploading" /\ run'.expired = run.expired
  <2>1. \/ run' = [run EXCEPT !.dest = @ + 1, !.uploaded = @ \cup {d}]
        \/ run' = [run EXCEPT !.dest = @ + 1]
    BY DEF Upload, TearUpload
  <2>2. d + 1 \in 1 .. NumDests + 1 /\ run \in RunState /\ run.pc = "uploading" /\ d \in Dest
    BY <1>1, <1>2, ChainAssumption DEF Dest
  <2> HIDE DEF ChainInv
  <2>3. CASE run' = [run EXCEPT !.dest = @ + 1, !.uploaded = @ \cup {d}]
    BY <2>2, <2>3 DEF RunState
  <2>4. CASE run' = [run EXCEPT !.dest = @ + 1]
    BY <2>2, <2>4 DEF RunState
  <2> QED BY <2>1, <2>3, <2>4
<1>4. /\ Bookkeeping' /\ Planned' = Planned
      /\ \A n : chainId(n)' = chainId(n) /\ Ancestors(n)' = Ancestors(n)
  BY <1>1, BooksKept
<1>5. today \in Planned /\ today \in Day /\ today \in 1 .. today
  <2>1. today \in Planned
    BY <1>1 DEF RunPlanned
  <2> QED BY <2>1, ChainAssumption DEF Planned, Day
<1>6. /\ sidecars' \in [Dest -> SUBSET Day] /\ stored' \in [Dest -> SUBSET Day]
      /\ torn' \in [Dest -> SUBSET Day]
      /\ \A x \in Dest : /\ sidecars'[x] = IF x = d THEN sidecars[d] \cup {today} ELSE sidecars[x]
                         /\ stored'[x] = IF x = d THEN stored[d] \cup {today} ELSE stored[x]
                         /\ torn'[x] \subseteq IF x = d THEN torn[d] \cup {today} ELSE torn[x]
  <2> HIDE DEF d
  <2> QED BY <1>1, <1>2, <1>5, Put DEF Files
<1> HIDE DEF d
<1>7. TypeOK'
  <2>1. ASSUME NEW x \in Dest
        PROVE  /\ stored'[x] \cup sidecars'[x] \subseteq 1 .. today
               /\ torn'[x] \subseteq stored'[x]
               /\ locked'[x] \cup damaged'[x] \subseteq sidecars'[x]
               /\ \A n \in stored'[x] \ sidecars'[x] : archive[n].chain \in doubtful
    BY <1>1, <1>2, <1>5, <1>6 DEF TypeOK
  <2> QED BY <1>1, <1>3, <2>1 DEF TypeOK, RunState
<1>8. RunPlanned'
  BY <1>1, <1>4 DEF RunPlanned
<1>9. Files'
  <2>1. \A x \in Dest : stored'[x] \subseteq Planned /\ locked'[x] \subseteq stored'[x]
    BY <1>1, <1>5, <1>6 DEF Files
  <2> QED BY <1>1, <1>3, <1>4, <1>6, <2>1 DEF Files
<1>10. OnlyRecorded'
  BY <1>1, <1>3, <1>4, <1>6 DEF OnlyRecorded
<1>11. BaseThere'
  <2>2. \A x \in Dest : stored[x] \subseteq stored'[x]
    BY <1>6
  <2>3. Ancestors(archive[today].base)' = Ancestors(archive[today].base)
    BY <1>1 DEF Ancestors
  <2> QED BY <1>1, <1>3, <2>2, <2>3 DEF BaseThere, chainId
<1>12. ExpiresWhole'
  BY <1>3 DEF ExpiresWhole
<1>13. ChainsRestorable'
  <2> SUFFICES ASSUME NEW x \in Dest, NEW n \in stored'[x], chainId(n) \notin doubtful
               PROVE  Ancestors(n) \subseteq stored'[x]
    BY <1>1, <1>4 DEF ChainsRestorable
  <2>1. CASE n \in stored[x]
    BY <1>6, <2>1 DEF ChainsRestorable
  <2>2. CASE n \notin stored[x]
    <3>1. n = today /\ today \in stored'[x]
      BY <1>6, <2>2
    <3>2. today \in 0 .. MaxDays /\ today # 0
      BY <1>5, ChainAssumption DEF Day
    <3>3. Ancestors(today) = {today} \cup Ancestors(archive[today].base)
      <4>1. AncestorsIn(archive, today)
              = {today} \cup AncestorsIn(archive, archive[today].base)
        BY <3>2, BasesEarlier, AncestorsUnfold
      <4> QED BY <4>1 DEF Ancestors, AncestorsIn
    <3>4. Ancestors(archive[today].base) \subseteq stored[x]
      BY <1>1, <3>1 DEF BaseThere
    <3> QED BY <1>6, <3>1, <3>3, <3>4
  <2> QED BY <2>1, <2>2
<1> QED BY <1>4, <1>7, <1>8, <1>9, <1>10, <1>11, <1>12, <1>13

(* An upload that fails leaves its sidecar at most. *)
LEMMA FailUploadInv == ASSUME ChainInv, FailUpload PROVE ChainInv'
<1> USE DEF ChainInv
<1> DEFINE d == run.dest
<1>1. /\ run.pc = "uploading" /\ run.dest <= NumDests
      /\ sidecars' = sidecars \/ sidecars' = [sidecars EXCEPT ![d] = @ \cup {today}]
      /\ UNCHANGED <<today, archive, recorded, stored, torn, locked, damaged, doubtful>>
      /\ run' = [run EXCEPT !.dest = @ + 1]
      /\ troubles' \in 0 .. MaxTroubles
  BY ChainAssumption DEF FailUpload, SidecarArrived, TypeOK, Trouble
<1>2. run \in RunState /\ d \in Dest
  BY <1>1, ChainAssumption, RunTyped DEF RunState, Dest
<1>3. /\ run' \in RunState /\ run'.pc = "uploading" /\ run'.expired = run.expired
  <2>2. d + 1 \in 1 .. NumDests + 1
    BY <1>2, ChainAssumption DEF Dest
  <2> HIDE DEF ChainInv
  <2> QED BY <1>1, <1>2, <2>2 DEF RunState
<1>4. /\ Bookkeeping' /\ Planned' = Planned
      /\ \A n : chainId(n)' = chainId(n) /\ Ancestors(n)' = Ancestors(n)
  BY <1>1, BooksKept
<1>5. today \in Planned /\ today \in Day /\ today \in 1 .. today
  <2>1. today \in Planned
    BY <1>1 DEF RunPlanned
  <2> QED BY <2>1, ChainAssumption DEF Planned, Day
<1>6. /\ sidecars' \in [Dest -> SUBSET Day]
      /\ \A x \in Dest : sidecars[x] \subseteq sidecars'[x] /\ sidecars'[x] \subseteq sidecars[x] \cup {today}
  <2> HIDE DEF d
  <2> QED BY <1>1, <1>2, <1>5, Put DEF Files
<1> HIDE DEF d
<1>7. TypeOK'
  <2>1. ASSUME NEW x \in Dest
        PROVE  /\ stored'[x] \cup sidecars'[x] \subseteq 1 .. today
               /\ torn'[x] \subseteq stored'[x]
               /\ locked'[x] \cup damaged'[x] \subseteq sidecars'[x]
               /\ \A n \in stored'[x] \ sidecars'[x] : archive[n].chain \in doubtful
    BY <1>1, <1>5, <1>6 DEF TypeOK
  <2> QED BY <1>1, <1>3, <2>1 DEF TypeOK, RunState
<1>8. RunPlanned'
  BY <1>1, <1>4 DEF RunPlanned
<1>9. Files'
  BY <1>1, <1>3, <1>4, <1>6 DEF Files
<1>10. OnlyRecorded'
  BY <1>1, <1>3, <1>4 DEF OnlyRecorded
<1>11. BaseThere'
  BY <1>1 DEF BaseThere, chainId, Ancestors
<1>12. ExpiresWhole'
  BY <1>3 DEF ExpiresWhole
<1>13. ChainsRestorable'
  BY <1>1, <1>4 DEF ChainsRestorable
<1> QED BY <1>4, <1>7, <1>8, <1>9, <1>10, <1>11, <1>12, <1>13

-----------------------------------------------------------------------------
(* calculateRetention deletes of a chain all files or none, and no locked   *)
(* one, whatever the policy keeps.                                          *)
LEMMA DeletesWhole ==
    ASSUME NEW list, NEW lock \in SUBSET list, NEW chainOf, NEW pol,
           NEW a \in calculateRetention(list, lock, chainOf, pol)
    PROVE  /\ a \in list \ lock
           /\ \A b \in list :
                 chainOf[a] = chainOf[b] /\ chainOf[a] # NoChain =>
                     b \in calculateRetention(list, lock, chainOf, pol)
<1> DEFINE rest == list \ lock
           keep == IF pol.mode = "SIMPLE"
                   THEN applySimplePolicy(rest, pol.count)
                   ELSE applySmartPolicy(rest, pol.tiers)
           P == protectIncompleteChains(keep, lock \cap list, rest, chainOf)
           D == calculateRetention(list, lock, chainOf, pol)
<1>1. D = {} \/ D = rest \ P
  BY DEF calculateRetention
<1>2. D = rest \ P /\ a \in rest /\ a \notin P
  BY <1>1
<1> HIDE DEF keep, D
<1>3. ASSUME NEW b \in list, chainOf[a] = chainOf[b], chainOf[a] # NoChain
      PROVE  b \in D
  <2>1. \A k \in keep \cup lock : chainOf[k] # chainOf[a]
    BY <1>2, <1>3 DEF protectIncompleteChains
  <2>2. b \in rest
    BY <1>3, <2>1
  <2>3. b \notin P
    BY <1>3, <2>1 DEF protectIncompleteChains
  <2> QED BY <1>2, <2>2, <2>3
<1>4. a \in list \ lock
  BY <1>2
<1> QED BY <1>3, <1>4 DEF D

(* Retention judges a destination: of the chains whose sidecars were read,  *)
(* what expires is whole.                                                   *)
LEMMA JudgeInv ==
    ASSUME ChainInv, NEW unread, ListExpired(unread), troubles' \in 0 .. MaxTroubles,
           doubtful \subseteq doubtful', doubtful' \subseteq Day,
           \A n \in unread : chainId(n) \in doubtful'
    PROVE  ChainInv'
<1> USE DEF ChainInv
<1> DEFINE d == run.dest
           read == sidecars[d] \ unread
           chainOf == [n \in Day |-> IF n \in read THEN chainId(n) ELSE NoChain]
           D == calculateRetention(stored[d], locked[d] \cap read, chainOf, Policy)
<1>1. /\ run.pc = "retention" /\ d \in run.uploaded
      /\ run' = [run EXCEPT !.pc = "deleting", !.expired = D]
      /\ UNCHANGED <<today, archive, recorded, files>>
  BY DEF ListExpired
<1>2. run \in RunState
  BY RunTyped
<1>3. d \in Dest
  BY <1>1, <1>2 DEF RunState
<1>4. locked[d] \cap read \in SUBSET stored[d] /\ stored[d] \subseteq Planned
  BY <1>3 DEF Files
<1>5. D \subseteq stored[d]
  <2> HIDE DEF chainOf, read, d
  <2> QED BY <1>4, DeletesWhole
<1>6. ASSUME NEW n \in D, NEW m \in stored[d], chainId(m) = chainId(n), chainId(n) \notin doubtful'
      PROVE  m \in D
  <2>1. n \in stored[d] /\ n \in Planned /\ n \in Day /\ m \in Day /\ chainId(n) # NoChain
    BY <1>4, <1>5 DEF Planned
  <2>2. n \in read /\ m \in read
    BY <1>3, <1>6, <2>1 DEF TypeOK, chainId
  <2>3. chainOf[n] = chainId(n) /\ chainOf[m] = chainId(m)
    BY <2>1, <2>2
  <2> HIDE DEF chainOf, read, d
  <2> QED BY <1>4, <1>6, <2>1, <2>3, DeletesWhole
<1>7. D \subseteq Planned /\ D \subseteq Day
  BY <1>4, <1>5 DEF Planned
<1> HIDE DEF D
<1>8. /\ run' \in RunState /\ run'.pc = "deleting" /\ run'.expired = D /\ run'.dest = d
  <2> HIDE DEF ChainInv
  <2> QED BY <1>1, <1>2, <1>7 DEF RunState
<1>9. ExpiresWhole'
  <2>1. stored' = stored /\ \A n : chainId(n)' = chainId(n)
    BY <1>1 DEF files, chainId
  <2> HIDE DEF d
  <2> QED BY <1>6, <1>8, <2>1 DEF ExpiresWhole
<1> QED BY <1>1, <1>3, <1>7, <1>8, <1>9, RunStep

LEMMA RetainInv == ASSUME ChainInv, Retain PROVE ChainInv'
<1>1. /\ ListExpired({}) /\ doubtful' = doubtful /\ troubles' \in 0 .. MaxTroubles
      /\ doubtful \subseteq Day
  BY DEF Retain, ChainInv, TypeOK
<1> QED BY <1>1, JudgeInv

LEMMA RetainUnreadInv == ASSUME ChainInv, RetainUnread PROVE ChainInv'
<1>1. PICK d \in Dest : \E n \in stored[d] :
         ListExpired({n}) /\ doubtful' = doubtful \cup {chainId(n)}
  BY DEF RetainUnread
<1>2. PICK n \in stored[d] : ListExpired({n}) /\ doubtful' = doubtful \cup {chainId(n)}
  BY <1>1
<1>3. chainId(n) \in Day
  <2>1. n \in Planned
    BY DEF ChainInv, Files
  <2> QED BY <2>1, ChainAssumption DEF ChainInv, Planned, chainId, TypeOK, NoChain, Day
<1>4. troubles' \in 0 .. MaxTroubles
  BY ChainAssumption DEF ChainInv, TypeOK, RetainUnread, Trouble
<1>5. doubtful \subseteq doubtful' /\ doubtful' \subseteq Day
  BY <1>2, <1>3 DEF ChainInv, TypeOK
<1> QED BY <1>2, <1>4, <1>5, JudgeInv

(* Retention goes on to the next destination. *)
LEMMA NextDestInv ==
    ASSUME ChainInv, FailListing \/ SkipRetention \/ EndRetention
    PROVE  ChainInv'
<1>1. run \in RunState /\ run.dest \in Dest
  <2>1. run \in RunState
    BY RunTyped
  <2>2. CASE FailListing
    BY <2>1, <2>2 DEF FailListing, RunState
  <2>3. CASE SkipRetention
    BY <2>1, <2>3, ChainAssumption DEF SkipRetention, RunState, Dest
  <2>4. CASE EndRetention
    <3>1. run.pc = "deleting"
      BY <2>4 DEF EndRetention
    <3> QED BY <2>1, <3>1 DEF ChainInv, Files
  <2> QED BY <2>1, <2>2, <2>3, <2>4
<1>2. /\ run.pc \in {"retention", "deleting"}
      /\ UNCHANGED <<today, archive, recorded, files, doubtful>>
      /\ troubles' \in 0 .. MaxTroubles
  BY ChainAssumption DEF FailListing, SkipRetention, EndRetention, ChainInv, TypeOK, Trouble
<1>3. \/ run' = [run EXCEPT !.dest = @ + 1] /\ run.pc = "retention"
      \/ run' = [run EXCEPT !.pc = "retention", !.dest = @ + 1]
  BY DEF FailListing, SkipRetention, EndRetention
<1>4. run.dest + 1 \in 1 .. NumDests + 1
  BY <1>1, ChainAssumption DEF Dest
<1>5. run' \in RunState /\ run'.pc = "retention" /\ run'.expired = run.expired
  <2>1. CASE run' = [run EXCEPT !.dest = @ + 1] /\ run.pc = "retention"
    BY <1>1, <1>4, <2>1 DEF RunState
  <2>2. CASE run' = [run EXCEPT !.pc = "retention", !.dest = @ + 1]
    BY <1>1, <1>4, <2>2 DEF RunState
  <2> QED BY <1>3, <2>1, <2>2
<1>6. ExpiresWhole'
  BY <1>5 DEF ExpiresWhole
<1> QED BY <1>2, <1>5, <1>6, RunStep DEF ChainInv, TypeOK, Files
(* The run is recorded and becomes the latest: its chain is one longer. *)
LEMMA CompleteInv == ASSUME ChainInv, Complete PROVE ChainInv'
<1> USE DEF ChainInv
<1>1. /\ run.pc = "retention" /\ run' = IdleRun /\ recorded' = recorded \cup {today}
      /\ UNCHANGED <<today, archive, stored, torn, sidecars, locked, damaged, doubtful, troubles>>
  BY DEF Complete, files
<1>2. run' \in RunState /\ run'.pc = "idle" /\ run'.expired = {}
  BY <1>1, ChainAssumption DEF IdleRun, RunState
<1>3. /\ today \in Planned /\ today \notin recorded /\ Position(today) /\ today \in Day
      /\ archive[today].base # 0 => \A m \in recorded : m <= archive[today].base
  BY <1>1 DEF RunPlanned, Bookkeeping, Planned
<1>4. /\ Planned' = Planned /\ \A n : chainId(n)' = chainId(n) /\ Ancestors(n)' = Ancestors(n)
  BY <1>1 DEF Planned, chainId, Ancestors
<1>5. \A n \in recorded : /\ n \in Planned /\ n \in Day /\ n \in Nat /\ n < today
                          /\ chainId(n) <= n /\ chainId(n) \in Nat
  <2> SUFFICES ASSUME NEW n \in recorded
               PROVE  /\ n \in Planned /\ n \in Day /\ n \in Nat /\ n < today
                      /\ chainId(n) <= n /\ chainId(n) \in Nat
    OBVIOUS
  <2>1. n \in Planned /\ n \in Day /\ n \in Nat /\ Position(n) /\ n # today /\ today \in Nat
    BY <1>3, ChainAssumption DEF Bookkeeping, Planned, Day
  <2>2. chainId(n) \in Nat
    BY <2>1 DEF TypeOK, chainId
  <2> QED BY <2>1, <2>2 DEF Position
<1>6. \A n \in recorded : UpTo(n)' = UpTo(n)
  <2>1. today \in Nat
    BY <1>3, ChainAssumption DEF Day
  <2> QED BY <1>1, <1>4, <1>5, <2>1 DEF UpTo, InChain
<1>7. Cardinality(UpTo(today)') = archive[today].index + 1
  <2>0. UpTo(today)' = {m \in recorded \cup {today} : chainId(m) = chainId(today) /\ m <= today}
    BY <1>1 DEF UpTo, InChain, chainId
  <2>1. CASE archive[today].base = 0
    <3>1. chainId(today) = today /\ archive[today].index = 0 /\ today \in Nat
      BY <1>3, <1>5, <2>1, ChainAssumption DEF Position, Day
    <3>2. UpTo(today)' = {today}
      BY <1>5, <2>0, <3>1
    <3>3. Cardinality({today}) = 1
      BY FS_Singleton
    <3>4. archive[today].index + 1 = 1
      BY <3>1
    <3> QED BY <3>2, <3>3, <3>4
  <2>2. CASE archive[today].base # 0
    <3> DEFINE base == archive[today].base
    <3>1. /\ base \in recorded /\ base < today /\ chainId(base) = chainId(today)
          /\ archive[today].index = archive[base].index + 1
          /\ \A m \in recorded : m <= base
      BY <1>3, <2>2 DEF Position
    <3>2. UpTo(base) \subseteq Day /\ today \notin UpTo(base)
      BY <1>3, <1>5 DEF UpTo, InChain
    <3>3. UpTo(today)' = UpTo(base) \cup {today}
      <4> HIDE DEF base
      <4>1. today \in Nat
        BY <1>3, ChainAssumption DEF Day
      <4> QED BY <1>5, <2>0, <3>1, <4>1 DEF UpTo, InChain
    <3>4. IsFiniteSet(UpTo(base))
      BY <3>2, DaysAreFinite
    <3>5. Cardinality(UpTo(base)) = archive[base].index + 1
      BY <3>1 DEF Bookkeeping
    <3> HIDE DEF base
    <3>6. Cardinality(UpTo(base) \cup {today}) = Cardinality(UpTo(base)) + 1
      BY <3>2, <3>4, FS_AddElement
    <3> QED BY <3>1, <3>3, <3>5, <3>6
  <2> QED BY <2>1, <2>2
<1>8. Bookkeeping'
  <2>1. \A n \in Day : Position(n) => Position(n)'
    BY <1>1, <1>4 DEF Position, chainId
  <2>2. \A n \in recorded' : Cardinality(UpTo(n))' = archive'[n].index + 1
    <3> SUFFICES ASSUME NEW n \in recorded \cup {today}
                 PROVE  Cardinality(UpTo(n))' = archive[n].index + 1
      BY <1>1
    <3>1. CASE n \in recorded
      BY <1>6, <3>1 DEF Bookkeeping
    <3>2. CASE n = today
      <4>1. UpTo(n)' = UpTo(today)'
        BY <1>1, <3>2 DEF UpTo, InChain, chainId
      <4> QED BY <1>7, <3>2, <4>1
    <3> QED BY <3>1, <3>2
  <2>3. recorded' \subseteq Planned'
    BY <1>1, <1>3, <1>4, <1>5
  <2> QED BY <1>1, <1>4, <2>1, <2>2, <2>3 DEF Bookkeeping
<1>9. TypeOK'
  <2>1. recorded' \subseteq Day
    BY <1>1, <1>3, <1>5
  <2> QED BY <1>1, <1>2, <2>1 DEF TypeOK, RunState
<1>10. RunPlanned' /\ BaseThere' /\ ExpiresWhole'
  BY <1>2 DEF RunPlanned, BaseThere, ExpiresWhole
<1>11. Files'
  BY <1>1, <1>2, <1>4 DEF Files
<1>12. OnlyRecorded'
  BY <1>1, <1>4 DEF OnlyRecorded
<1>13. ChainsRestorable'
  BY <1>1, <1>4 DEF ChainsRestorable
<1> QED BY <1>8, <1>9, <1>10, <1>11, <1>12, <1>13

-----------------------------------------------------------------------------
(* An archive is deleted that no other one of a chain in order builds on. *)
LEMMA RemoveInv ==
    ASSUME ChainInv, NEW d \in Dest, NEW n \in Day, remove(d, n),
           UNCHANGED <<today, archive, recorded>>, troubles' \in 0 .. MaxTroubles,
           run' \in RunState, run'.pc = run.pc, run'.dest = run.dest,
           run'.expired = run.expired \/ (d = run.dest /\ run'.expired = run.expired \ {n}),
           doubtful \subseteq doubtful', doubtful' \subseteq Day,
           \A m \in stored[d] : m # n /\ n \in Ancestors(m) => chainId(m) \in doubtful',
           run.pc = "uploading" /\ n \in Ancestors(archive[today].base) =>
               chainId(today) \in doubtful'
    PROVE  ChainInv'
<1> USE DEF ChainInv
<1>1. /\ stored' \in [Dest -> SUBSET Day] /\ torn' \in [Dest -> SUBSET Day]
      /\ sidecars' \in [Dest -> SUBSET Day]
      /\ locked' \in [Dest -> SUBSET Day] /\ damaged' \in [Dest -> SUBSET Day]
      /\ \A x \in Dest : /\ stored'[x] = IF x = d THEN stored[d] \ {n} ELSE stored[x]
                         /\ torn'[x] = IF x = d THEN torn[d] \ {n} ELSE torn[x]
                         /\ sidecars'[x] = IF x = d THEN sidecars[d] \ {n} ELSE sidecars[x]
                         /\ locked'[x] = IF x = d THEN locked[d] \ {n} ELSE locked[x]
                         /\ damaged'[x] = IF x = d THEN damaged[d] \ {n} ELSE damaged[x]
  <2>1. Files
    OBVIOUS
  <2>2. WithoutArchive(d, n)
    BY <2>1, Removed
  <2> QED BY <2>2 DEF WithoutArchive
<1>2. /\ Bookkeeping' /\ Planned' = Planned
      /\ \A k : chainId(k)' = chainId(k) /\ Ancestors(k)' = Ancestors(k)
  BY BooksKept
<1>3. \A x \in Dest : stored'[x] \subseteq stored[x]
  BY <1>1
<1>4. TypeOK'
  <2>1. ASSUME NEW x \in Dest
        PROVE  /\ stored'[x] \cup sidecars'[x] \subseteq 1 .. today
               /\ torn'[x] \subseteq stored'[x]
               /\ locked'[x] \cup damaged'[x] \subseteq sidecars'[x]
               /\ \A k \in stored'[x] \ sidecars'[x] : archive[k].chain \in doubtful'
    BY <1>1 DEF TypeOK
  <2> QED BY <2>1 DEF TypeOK, RunState
<1>5. RunPlanned'
  BY <1>2 DEF RunPlanned
<1>6. Files'
  <2>1. \A x \in Dest : stored'[x] \subseteq Planned /\ locked'[x] \subseteq stored'[x]
    BY <1>1 DEF Files
  <2>2. run'.expired \subseteq Planned /\ (run'.pc = "deleting" => run'.dest \in Dest)
    BY DEF Files
  <2> QED BY <1>1, <1>2, <2>1, <2>2 DEF Files
<1>7. OnlyRecorded'
  BY <1>2, <1>3 DEF OnlyRecorded
<1>8. BaseThere'
  <2> SUFFICES ASSUME run.pc = "uploading", chainId(today) \notin doubtful', NEW x \in Dest
               PROVE  Ancestors(archive[today].base) \subseteq stored'[x]
    BY DEF BaseThere, chainId, Ancestors
  <2>1. Ancestors(archive[today].base) \subseteq stored[x]
    BY DEF BaseThere
  <2> QED BY <1>1, <2>1
<1>9. ExpiresWhole'
  <2> SUFFICES ASSUME run.pc = "deleting", NEW k \in run'.expired, NEW m \in stored'[run.dest],
                      chainId(m) = chainId(k), k < m, chainId(k) \notin doubtful'
               PROVE  m \in run'.expired
    BY <1>2 DEF ExpiresWhole
  <2>1. run.dest \in Dest
    BY DEF Files
  <2>2. k \in run.expired /\ m \in stored[run.dest]
    BY <1>3, <2>1
  <2>3. m \in run.expired
    BY <2>2 DEF ExpiresWhole
  <2> QED BY <1>1, <2>1, <2>3
<1>10. ChainsRestorable'
  <2> SUFFICES ASSUME NEW x \in Dest, NEW m \in stored'[x], chainId(m) \notin doubtful'
               PROVE  Ancestors(m) \subseteq stored'[x]
    BY <1>2 DEF ChainsRestorable
  <2>1. m \in stored[x] /\ chainId(m) \notin doubtful
    BY <1>3
  <2>2. Ancestors(m) \subseteq stored[x]
    BY <2>1 DEF ChainsRestorable
  <2> QED BY <1>1, <2>1, <2>2
<1> QED BY <1>2, <1>4, <1>5, <1>6, <1>7, <1>8, <1>9, <1>10

(* A deletion fails: the archive stays, and perhaps without its sidecars. *)
LEMMA KeepInv ==
    ASSUME ChainInv, NEW d \in Dest, NEW n \in Planned,
           removeSidecars(d, n) \/ UNCHANGED <<sidecars, locked, damaged>>,
           UNCHANGED <<today, archive, recorded, stored, torn>>,
           troubles' \in 0 .. MaxTroubles,
           run' \in RunState, run'.pc = run.pc, run'.dest = run.dest,
           run'.expired = run.expired \/ run'.expired = run.expired \ {n},
           doubtful' = doubtful \cup {chainId(n)}
    PROVE  ChainInv'
<1> USE DEF ChainInv
<1>1. /\ sidecars' \in [Dest -> SUBSET Day]
      /\ locked' \in [Dest -> SUBSET Day] /\ damaged' \in [Dest -> SUBSET Day]
      /\ \A x \in Dest : /\ sidecars'[x] \subseteq sidecars[x]
                         /\ sidecars[x] \subseteq sidecars'[x] \cup {n}
                         /\ locked'[x] \subseteq locked[x]
                         /\ locked'[x] \cup damaged'[x] \subseteq sidecars'[x]
  <2>1. CASE UNCHANGED <<sidecars, locked, damaged>>
    BY <2>1 DEF Files, TypeOK
  <2>2. CASE removeSidecars(d, n)
    <3>1. \A x \in Dest : locked[x] \cup damaged[x] \subseteq sidecars[x]
      BY DEF TypeOK
    <3>2. Files /\ n \in Day
      BY DEF Planned
    <3>3. /\ sidecars' \in [Dest -> SUBSET Day]
          /\ locked' \in [Dest -> SUBSET Day] /\ damaged' \in [Dest -> SUBSET Day]
          /\ \A x \in Dest : /\ sidecars'[x] = IF x = d THEN sidecars[d] \ {n} ELSE sidecars[x]
                             /\ locked'[x] = IF x = d THEN locked[d] \ {n} ELSE locked[x]
                             /\ damaged'[x] = IF x = d THEN damaged[d] \ {n} ELSE damaged[x]
      BY <2>2, <3>2, SidecarsGone
    <3> QED BY <3>1, <3>3
  <2> QED BY <2>1, <2>2
<1>2. /\ Bookkeeping' /\ Planned' = Planned
      /\ \A k : chainId(k)' = chainId(k) /\ Ancestors(k)' = Ancestors(k)
  BY BooksKept
<1>3. doubtful' \subseteq Day /\ chainId(n) \in doubtful' /\ doubtful \subseteq doubtful'
  <2>1. chainId(n) \in 0 .. MaxDays /\ chainId(n) # 0 /\ doubtful \subseteq Day
    BY DEF Planned, chainId, TypeOK, NoChain
  <2>2. chainId(n) \in Day
    BY <2>1, ChainAssumption DEF Day
  <2> QED BY <2>1, <2>2
<1>4. TypeOK'
  <2>1. ASSUME NEW x \in Dest
        PROVE  /\ stored'[x] \cup sidecars'[x] \subseteq 1 .. today
               /\ torn'[x] \subseteq stored'[x]
               /\ \A k \in stored'[x] \ sidecars'[x] : archive[k].chain \in doubtful'
    BY <1>1, <1>3 DEF TypeOK, chainId
  <2> QED BY <1>1, <1>3, <2>1 DEF TypeOK, RunState
<1>5. RunPlanned'
  BY <1>2 DEF RunPlanned
<1>6. Files'
  BY <1>1, <1>2 DEF Files
<1>7. OnlyRecorded'
  BY <1>2 DEF OnlyRecorded
<1>8. BaseThere'
  BY DEF BaseThere, chainId, Ancestors
<1>9. ExpiresWhole'
  <2> SUFFICES ASSUME run.pc = "deleting", NEW k \in run'.expired, NEW m \in stored[run.dest],
                      chainId(m) = chainId(k), k < m, chainId(k) \notin doubtful'
               PROVE  m \in run'.expired
    BY <1>2 DEF ExpiresWhole
  <2>1. m \in run.expired
    BY <1>3 DEF ExpiresWhole
  <2>2. m # n
    BY <1>3
  <2> QED BY <2>1, <2>2
<1>10. ChainsRestorable'
  BY <1>2 DEF ChainsRestorable
<1> QED BY <1>2, <1>4, <1>5, <1>6, <1>7, <1>8, <1>9, <1>10

(* Retention deletes the expired archives, the latest of a chain first. *)
LEMMA ExpireInv ==
    ASSUME ChainInv, NEW n \in Day, DeleteExpired(n) \/ FailDelete(n)
    PROVE  ChainInv'
<1>1. /\ run.pc = "deleting" /\ NextExpired(n) /\ run' = [run EXCEPT !.expired = @ \ {n}]
      /\ UNCHANGED <<today, archive, recorded>> /\ run \in RunState
      /\ run.dest \in Dest /\ run.expired \subseteq Planned
  <2>1. /\ run.pc = "deleting" /\ NextExpired(n) /\ run' = [run EXCEPT !.expired = @ \ {n}]
        /\ UNCHANGED <<today, archive, recorded>>
    BY DEF DeleteExpired, FailDelete
  <2>2. run.dest \in Dest /\ run.expired \subseteq Planned
    BY <2>1 DEF ChainInv, Files
  <2> QED BY <2>1, <2>2, RunTyped
<1>2. /\ run' \in RunState /\ run'.pc = run.pc /\ run'.dest = run.dest
      /\ run'.expired = run.expired \ {n}
  BY <1>1 DEF RunState
<1>3. troubles' \in 0 .. MaxTroubles
  BY ChainAssumption DEF ChainInv, TypeOK, DeleteExpired, FailDelete, Trouble
<1>4. n \in run.expired /\ n \in Planned /\ \A m \in run.expired : m <= n
  BY <1>1 DEF NextExpired
<1>5. CASE DeleteExpired(n)
  <2>1. remove(run.dest, n) /\ doubtful' = doubtful /\ doubtful' \subseteq Day
    BY <1>5 DEF DeleteExpired, ChainInv, TypeOK
  <2>2. ASSUME NEW m \in stored[run.dest], m # n, n \in Ancestors(m)
        PROVE  chainId(m) \in doubtful'
    <3>1. m \in Planned
      BY <1>1 DEF ChainInv, Files
    <3>2. chainId(n) = chainId(m) /\ n < m
      BY <2>2, <3>1, AncestorsWithin DEF ChainInv
    <3>3. m \in Nat /\ n \in Nat /\ ~(m <= n)
      BY <3>1, <3>2, ChainAssumption DEF Planned, Day
    <3>4. m \notin run.expired
      BY <1>4, <3>3
    <3> QED BY <1>1, <1>4, <2>1, <3>2, <3>4 DEF ChainInv, ExpiresWhole
  <2>3. run.pc # "uploading"
    BY <1>1
  <2> QED BY <1>1, <1>2, <1>3, <2>1, <2>2, <2>3, RemoveInv
<1>6. CASE FailDelete(n)
  <2>1. /\ removeSidecars(run.dest, n) \/ UNCHANGED <<sidecars, locked, damaged>>
        /\ doubtful' = doubtful \cup {chainId(n)} /\ UNCHANGED <<stored, torn>>
    BY <1>6 DEF FailDelete
  <2> QED BY <1>1, <1>2, <1>3, <1>4, <2>1, KeepInv
<1> QED BY <1>5, <1>6

(* A user deletes an archive: the last of its chain at this destination. *)
LEMMA DeleteFileInv ==
    ASSUME ChainInv, NEW d \in Dest, NEW n \in Day, DeleteFile(d, n)
    PROVE  ChainInv'
<1>1. /\ n \in stored[d] /\ dependentsOf(d, n) = {} /\ remove(d, n)
      /\ UNCHANGED <<today, archive, recorded, run>>
      /\ doubtful' = IF run.pc # "idle" /\ n \in Ancestors(archive[today].base)
                     THEN doubtful \cup {chainId(n)} ELSE doubtful
  BY DEF DeleteFile
<1>2. troubles' \in 0 .. MaxTroubles
  BY ChainAssumption DEF ChainInv, TypeOK, DeleteFile, Trouble
<1>3. n \in Planned /\ stored[d] \subseteq Planned
  BY <1>1 DEF ChainInv, Files
<1>4. doubtful \subseteq doubtful' /\ doubtful' \subseteq Day
  <2>1. chainId(n) \in Day
    BY <1>3, ChainAssumption DEF ChainInv, Planned, chainId, TypeOK, NoChain, Day
  <2> QED BY <1>1, <2>1 DEF ChainInv, TypeOK
<1>5. ASSUME NEW m \in stored[d], m # n
      PROVE  n \notin Ancestors(m)
  <2> SUFFICES ASSUME n \in Ancestors(m) PROVE FALSE
    OBVIOUS
  <2>1. m \in Planned
    BY <1>3
  <2>2. chainId(n) = chainId(m) /\ archive[n].index < archive[m].index
    BY <1>5, <2>1, AncestorsWithin DEF ChainInv
  <2>3. archive[n].index \in Nat /\ archive[m].index \in Nat
    BY <1>3, <2>1 DEF ChainInv, TypeOK, Planned
  <2>4. m \in dependentsOf(d, n)
    BY <2>2, <2>3 DEF dependentsOf, InChain, SortsAfter
  <2> QED BY <1>1, <2>4
<1>6. ASSUME run.pc = "uploading", n \in Ancestors(archive[today].base)
      PROVE  chainId(today) \in doubtful'
  <2> DEFINE base == archive[today].base
  <2>1. Position(today)
    BY <1>6 DEF ChainInv, RunPlanned, Bookkeeping, Planned
  <2>2. CASE base = 0
    <3>1. AncestorsIn(archive, 0) = {}
      BY BasesEarlier, AncestorsUnfold, ChainAssumption DEF ChainInv
    <3> QED BY <1>6, <2>2, <3>1 DEF Ancestors, AncestorsIn
  <2>3. CASE base # 0
    <3>1. base \in recorded /\ chainId(base) = chainId(today)
      BY <2>1, <2>3 DEF Position
    <3>2. base \in Planned
      BY <3>1 DEF ChainInv, Bookkeeping
    <3>3. chainId(n) = chainId(base)
      BY <1>6, <3>2, AncestorsWithin DEF ChainInv
    <3> QED BY <1>1, <1>6, <3>1, <3>3
  <2> QED BY <2>2, <2>3
<1> QED BY <1>1, <1>2, <1>4, <1>5, <1>6, RunTyped, RemoveInv

LEMMA FailDeleteFileInv ==
    ASSUME ChainInv, NEW d \in Dest, NEW n \in Day, FailDeleteFile(d, n)
    PROVE  ChainInv'
<1>1. /\ n \in stored[d] /\ removeSidecars(d, n) /\ doubtful' = doubtful \cup {chainId(n)}
      /\ UNCHANGED <<today, archive, recorded, stored, torn, run>>
  BY DEF FailDeleteFile
<1>2. troubles' \in 0 .. MaxTroubles
  BY ChainAssumption DEF ChainInv, TypeOK, FailDeleteFile, Trouble
<1>3. n \in Planned
  BY <1>1 DEF ChainInv, Files
<1> QED BY <1>1, <1>2, <1>3, RunTyped, KeepInv

(* A flag in a sidecar changes. *)
LEMMA FlagInv ==
    ASSUME ChainInv, NEW d \in Dest, NEW n \in Day, toggleLock(d, n) \/ verifyFile(d, n)
    PROVE  ChainInv'
<1> USE DEF ChainInv
<1>1. /\ n \in stored[d] /\ n \in sidecars[d]
      /\ UNCHANGED <<today, archive, recorded, stored, torn, sidecars, run, doubtful>>
      /\ troubles' \in 0 .. MaxTroubles
  BY ChainAssumption DEF toggleLock, verifyFile, TypeOK, Trouble
<1>2. /\ Bookkeeping' /\ Planned' = Planned
      /\ \A k : chainId(k)' = chainId(k) /\ Ancestors(k)' = Ancestors(k)
  BY <1>1, BooksKept
<1>3. /\ locked' \in [Dest -> SUBSET Day] /\ damaged' \in [Dest -> SUBSET Day]
      /\ \A x \in Dest : /\ locked'[x] \subseteq locked[x] \cup (stored[x] \cap sidecars[x])
                         /\ damaged'[x] \subseteq damaged[x] \cup sidecars[x]
  <2>1. CASE toggleLock(d, n)
    BY <1>1, <2>1 DEF toggleLock, Files
  <2>2. CASE verifyFile(d, n)
    BY <1>1, <2>2 DEF verifyFile, Files
  <2> QED BY <2>1, <2>2
<1>4. TypeOK'
  BY <1>1, <1>3 DEF TypeOK
<1>5. Files'
  BY <1>1, <1>2, <1>3 DEF Files
<1>6. RunPlanned' /\ OnlyRecorded' /\ ExpiresWhole' /\ ChainsRestorable'
  BY <1>1, <1>2 DEF RunPlanned, OnlyRecorded, ExpiresWhole, ChainsRestorable
<1>7. BaseThere'
  BY <1>1 DEF BaseThere, chainId, Ancestors
<1> QED BY <1>2, <1>4, <1>5, <1>6, <1>7

-----------------------------------------------------------------------------
LEMMA NextInv == ChainInv /\ [Next]_vars => ChainInv'
<1> SUFFICES ASSUME ChainInv, [Next]_vars PROVE ChainInv'
  OBVIOUS
<1>1. CASE SkipDay
  BY <1>1, SkipDayInv
<1>2. CASE PlanFull \/ PlanLateFull \/ PlanIncremental
  BY <1>2, PlanInv
<1>3. CASE Upload \/ TearUpload
  BY <1>3, UploadInv
<1>4. CASE FailUpload
  BY <1>4, FailUploadInv
<1>5. CASE EvaluateUploads
  BY <1>5, EvaluateInv
<1>6. CASE Retain
  BY <1>6, RetainInv
<1>7. CASE RetainUnread
  BY <1>7, RetainUnreadInv
<1>8. CASE FailListing \/ SkipRetention \/ EndRetention
  BY <1>8, NextDestInv
<1>9. CASE Complete
  BY <1>9, CompleteInv
<1>10. CASE Interrupt
  BY <1>10, InterruptInv
<1>11. CASE \E n \in Day : DeleteExpired(n) \/ FailDelete(n)
  BY <1>11, ExpireInv
<1>12. CASE \E d \in Dest, n \in Day :
                DeleteFile(d, n) \/ FailDeleteFile(d, n) \/ toggleLock(d, n) \/ verifyFile(d, n)
  BY <1>12, DeleteFileInv, FailDeleteFileInv, FlagInv
<1>13. CASE UNCHANGED vars
  <2>1. /\ UNCHANGED <<today, archive, recorded, run, doubtful, troubles>>
        /\ UNCHANGED <<stored, torn, sidecars, locked, damaged>>
    BY <1>13 DEF vars, files
  <2>2. /\ Bookkeeping' /\ Planned' = Planned
        /\ \A k : chainId(k)' = chainId(k) /\ Ancestors(k)' = Ancestors(k)
    BY <2>1, BooksKept
  <2>3. TypeOK' /\ RunPlanned' /\ Files'
    BY <2>1, <2>2 DEF ChainInv, TypeOK, RunPlanned, Files
  <2>4. OnlyRecorded' /\ ExpiresWhole' /\ ChainsRestorable'
    BY <2>1, <2>2 DEF ChainInv, OnlyRecorded, ExpiresWhole, ChainsRestorable
  <2>5. BaseThere'
    BY <2>1 DEF ChainInv, BaseThere, chainId, Ancestors
  <2> QED BY <2>2, <2>3, <2>4, <2>5 DEF ChainInv
<1> QED
  BY <1>1, <1>2, <1>3, <1>4, <1>5, <1>6, <1>7, <1>8, <1>9, <1>10, <1>11, <1>12, <1>13 DEF Next

(* The bookkeeping of the runs, the files on the destinations and the run in *)
(* progress stay together as ChainInv says through every step of planChain,  *)
(* stepUpload, stepRetention, stepFinalize and StorageService.               *)
THEOREM ChainInvariance == Spec => []ChainInv
<1>1. Init => ChainInv
  BY InitInv
<1>2. ChainInv /\ [Next]_vars => ChainInv'
  BY NextInv
<1> QED BY <1>1, <1>2, PTL DEF Spec

(* The state keeps its shape: in particular an archive has its sidecar on    *)
(* every destination, and sidecars alone carry locks and verdicts, unless    *)
(* its chain is doubtful.                                                    *)
THEOREM ChainTypes == Spec => []TypeOK
<1>1. ChainInv => TypeOK
  BY DEF ChainInv
<1> QED BY <1>1, ChainInvariance, PTL

(* Every archive of a chain that is not doubtful has all the archives it     *)
(* builds on beside it: planChain builds only on a chain each destination    *)
(* has in full, applyRetentionForDestination expires a chain as a whole, and *)
(* deleteFile refuses an archive others build on.                            *)
THEOREM ArchivesRestorable == Spec => []ChainsRestorable
<1>1. ChainInv => ChainsRestorable
  BY DEF ChainInv
<1> QED BY <1>1, ChainInvariance, PTL

-----------------------------------------------------------------------------
(* A chain starts when its full was claimed, and no archive is older than   *)
(* its chain by fullEveryDays or more; a day more if the full was late.     *)
YoungAt(c, start, n) ==
    \/ start = Moment(c, FALSE) /\ n - c <= FullEveryDays - 1
    \/ start = Moment(c, TRUE) /\ n - c <= FullEveryDays

Young == \A n \in Planned : YoungAt(chainId(n), archive[n].start, n)

LEMMA StartsYoung ==
    ASSUME ChainInv, Young, PlanFull \/ PlanLateFull \/ PlanIncremental
    PROVE  Young'
<1>1. today' = today + 1 /\ today' \in Day /\ today \in Nat
  <2>1. today \in 0 .. MaxDays
    BY DEF ChainInv, TypeOK
  <2>2. today < MaxDays /\ today' = today + 1
    BY DEF PlanFull, PlanLateFull, PlanIncremental, StartFull, StartRun
  <2> QED BY <2>1, <2>2, ChainAssumption DEF Day
<1>2. ASSUME NEW a, StartRun(a), YoungAt(a.chain, a.start, today + 1)
      PROVE  Young'
  <2>1. /\ archive' = [archive EXCEPT ![today'] = a]
        /\ archive'[today'] = a /\ \A n \in Day : n # today' => archive'[n] = archive[n]
    BY <1>1, <1>2 DEF StartRun, ChainInv, TypeOK
  <2>2. ASSUME NEW n \in Day, archive'[n].chain # NoChain
        PROVE  YoungAt(archive'[n].chain, archive'[n].start, n)
    <3>1. CASE n = today'
      BY <1>1, <1>2, <2>1, <3>1
    <3>2. CASE n # today'
      BY <2>1, <2>2, <3>2 DEF Young, Planned, chainId
    <3> QED BY <3>1, <3>2
  <2> QED BY <2>2 DEF Young, YoungAt, Planned, chainId
<1>3. ASSUME NEW late \in BOOLEAN, StartFull(late)
      PROVE  Young'
  <2> DEFINE a == [chain |-> today + 1, index |-> 0, base |-> 0, start |-> Moment(today + 1, late)]
  <2>1. StartRun(a)
    BY <1>3 DEF StartFull
  <2>2. a.chain = today + 1 /\ a.start = Moment(today + 1, late)
    OBVIOUS
  <2>3. YoungAt(today + 1, Moment(today + 1, late), today + 1)
    <3>1. 0 <= FullEveryDays - 1 /\ 0 <= FullEveryDays /\ today + 1 - (today + 1) = 0
      BY <1>1, ChainAssumption
    <3>2. late = TRUE \/ late = FALSE
      OBVIOUS
    <3>3. Moment(today + 1, late) = Moment(today + 1, TRUE)
          \/ Moment(today + 1, late) = Moment(today + 1, FALSE)
      BY <3>2, Zenon
    <3> QED BY <1>1, <3>1, <3>3, ChainAssumption DEF YoungAt, Moment
  <2> HIDE DEF a
  <2> QED BY <1>2, <2>1, <2>2, <2>3
<1>4. CASE PlanIncremental
  <2> DEFINE a == [chain |-> chainId(Latest), index |-> archive[Latest].index + 1,
                   base |-> Latest, start |-> archive[Latest].start]
             c == chainId(Latest)
  <2>1. recorded # {} /\ StartRun(a)
    BY <1>4 DEF PlanIncremental
  <2>2. PICK late \in BOOLEAN : ~ChainTooOld(Latest, Moment(today + 1, late))
    BY <1>4 DEF PlanIncremental
  <2>3. Latest \in Planned /\ c \in Nat
    <3>1. Latest \in recorded /\ recorded \subseteq Planned
      BY <2>1, LatestIs DEF ChainInv, Bookkeeping
    <3>2. Latest \in Day
      BY <3>1 DEF Planned
    <3> QED BY <3>1, <3>2, ChainAssumption DEF ChainInv, TypeOK, chainId
  <2>4. a.chain = c /\ a.start = archive[Latest].start
    OBVIOUS
  <2>5. YoungAt(c, a.start, Latest)
    BY <2>3, <2>4 DEF Young
  <2> HIDE DEF a, c
  <2>6. Moment(today + 1, late) \in Nat /\ Moment(today + 1, late) >= 2 * (today + 1)
    BY <1>1 DEF Moment
  <2>7. ~(Moment(today + 1, late) - a.start >= 2 * FullEveryDays)
    BY <2>2, <2>4 DEF ChainTooOld
  <2>8. CASE a.start = Moment(c, TRUE)
    <3>1. a.start = 2 * c + 1
      BY <2>8 DEF Moment
    <3>2. today + 1 - c <= FullEveryDays
      BY <1>1, <2>3, <2>6, <2>7, <3>1, ChainAssumption
    <3>3. YoungAt(c, a.start, today + 1)
      BY <1>1, <2>3, <2>8, <3>2, ChainAssumption DEF YoungAt, Moment
    <3> QED BY <1>2, <2>1, <2>4, <3>3
  <2>9. CASE a.start = Moment(c, FALSE)
    <3>1. a.start = 2 * c
      BY <2>3, <2>9 DEF Moment
    <3>2. today + 1 - c <= FullEveryDays - 1
      BY <1>1, <2>3, <2>6, <2>7, <3>1, ChainAssumption
    <3>3. YoungAt(c, a.start, today + 1)
      BY <1>1, <2>3, <2>9, <3>2, ChainAssumption DEF YoungAt, Moment
    <3> QED BY <1>2, <2>1, <2>4, <3>3
  <2> QED BY <2>5, <2>8, <2>9 DEF YoungAt
<1> QED BY <1>3, <1>4 DEF PlanFull, PlanLateFull

(* Only planChain writes the bookkeeping. *)
LEMMA NextYoung == ChainInv /\ Young /\ [Next]_vars => Young'
<1> SUFFICES ASSUME ChainInv, Young, [Next]_vars PROVE Young'
  OBVIOUS
<1>1. CASE PlanFull \/ PlanLateFull \/ PlanIncremental
  BY <1>1, StartsYoung
<1>2. CASE ~(PlanFull \/ PlanLateFull \/ PlanIncremental)
  <2>1. SkipDay \/ UNCHANGED vars => archive' = archive
    BY DEF SkipDay, vars
  <2>2. \/ Upload \/ FailUpload \/ TearUpload \/ EvaluateUploads
        \/ FailListing \/ SkipRetention \/ EndRetention \/ Complete \/ Interrupt
        => archive' = archive
    BY DEF Upload, FailUpload, TearUpload, EvaluateUploads, FailListing,
           SkipRetention, EndRetention, Complete, Interrupt
  <2>3. Retain \/ RetainUnread => archive' = archive
    BY DEF Retain, RetainUnread, ListExpired
  <2>4. (\E n \in Day : DeleteExpired(n) \/ FailDelete(n)) => archive' = archive
    BY DEF DeleteExpired, FailDelete
  <2>5. (\E d \in Dest, n \in Day :
             DeleteFile(d, n) \/ FailDeleteFile(d, n) \/ toggleLock(d, n) \/ verifyFile(d, n))
        => archive' = archive
    BY DEF DeleteFile, FailDeleteFile, toggleLock, verifyFile
  <2>6. archive' = archive
    BY <1>2, <2>1, <2>2, <2>3, <2>4, <2>5 DEF Next
  <2> QED BY <2>6 DEF Young, Planned, chainId
<1> QED BY <1>1, <1>2

(* Of what retention leaves, beside the chains of locked backups, the policy *)
(* keeps keepCount. The rest is older than those, in a chain of one of them, *)
(* and so among the fullEveryDays - 1 days before the oldest of them, or the *)
(* fullEveryDays days when that chain's full was late.                       *)
LEMMA HeldBack ==
    ASSUME ChainInv, Young, NEW unread, ListExpired(unread)
    PROVE  LET d == run.dest
               pinned == {chainId(n) : n \in locked[d]}
               left == {n \in stored[d] \ run'.expired : chainId(n) \notin pinned}
               extra == IF \E n \in left : ClaimedLate(n) THEN 1 ELSE 0
           IN  Cardinality(left) <= KeepCount + FullEveryDays - 1 + extra
<1> DEFINE d == run.dest
           pinned == {chainId(n) : n \in locked[d]}
           read == sidecars[d] \ unread
           chainOf == [n \in Day |-> IF n \in read THEN chainId(n) ELSE NoChain]
           lock == locked[d] \cap read
           rest == stored[d] \ lock
           keep == applySimplePolicy(rest, KeepCount)
           P == protectIncompleteChains(keep, lock \cap stored[d], rest, chainOf)
           held == {n \in stored[d] \ run'.expired : chainId(n) \notin pinned}
           extra == IF \E n \in held : ClaimedLate(n) THEN 1 ELSE 0
<1>1. d \in Dest /\ run \in RunState
  BY RunTyped DEF ListExpired, RunState
<1>2. run'.expired = rest \ P
  <2>1. run'.expired = calculateRetention(stored[d], lock, chainOf, Policy)
    BY <1>1 DEF ListExpired, RunState
  <2>2. calculateRetention(stored[d], lock, chainOf, Policy) = rest \ P
    BY DEF calculateRetention, Policy
  <2> QED BY <2>1, <2>2
<1>3. /\ stored[d] \subseteq Planned /\ lock \subseteq locked[d] /\ lock \subseteq stored[d]
  BY <1>1 DEF ChainInv, Files
<1>4. /\ \A n \in lock : chainId(n) \in pinned
      /\ \A n \in Day : chainOf[n] # NoChain => chainOf[n] = chainId(n)
  BY <1>3
<1>5. rest \subseteq Planned /\ rest \in SUBSET Nat /\ IsFiniteSet(rest)
  <2>1. rest \subseteq Planned
    BY <1>3
  <2>2. IsFiniteSet(Day) /\ rest \in SUBSET Day /\ Day \subseteq Nat
    BY <2>1, ChainAssumption, FS_Interval DEF Day, Planned
  <2> HIDE DEF rest
  <2> QED BY <2>1, <2>2, FS_Subset
<1> HIDE DEF d, pinned, chainOf, lock
<1>6. /\ keep \subseteq rest /\ IsFiniteSet(keep) /\ Cardinality(keep) <= KeepCount
      /\ \A k \in keep : \A b \in rest \ keep : b < k
  <2> HIDE DEF rest
  <2> QED BY <1>5, ChainAssumption, SimpleKeepsNewest
<1> HIDE DEF keep
<1>7. ASSUME NEW n \in held, n \notin keep
      PROVE  n \in rest /\ \E k \in keep : chainId(k) = chainId(n) /\ k \in held
  <2>1. n \in rest /\ n \in P /\ chainId(n) \notin pinned
    BY <1>2, <1>4, <1>7
  <2>2. PICK k \in keep \cup (lock \cap stored[d]) : chainOf[k] = chainOf[n] /\ chainOf[n] # NoChain
    BY <1>7, <2>1 DEF protectIncompleteChains
  <2>3. n \in Day /\ k \in Day
    BY <1>3, <1>5, <1>6, <2>1, <2>2 DEF Planned
  <2>4. chainId(k) = chainId(n)
    BY <1>4, <2>2, <2>3
  <2>5. k \in keep
    BY <1>4, <2>1, <2>2, <2>4
  <2>6. k \in held
    <3>1. chainOf[k] # NoChain /\ k \in rest
      BY <1>6, <2>2, <2>5
    <3>2. k \in P
      BY <2>5, <3>1 DEF protectIncompleteChains
    <3> QED BY <1>2, <2>1, <2>4, <3>1, <3>2
  <2> QED BY <2>1, <2>4, <2>5, <2>6
<1>e. extra \in {0, 1}
  OBVIOUS
<1>8. Cardinality(held) <= KeepCount + FullEveryDays - 1 + extra
  <2>1. CASE keep = {}
    <3>1. held = {}
      BY <1>7, <2>1
    <3> HIDE DEF held, extra
    <3> QED BY <1>e, <3>1, FS_EmptySet, ChainAssumption
  <2>2. CASE keep # {}
    <3>1. PICK k0 \in keep : \A k \in keep : k0 <= k
      BY <1>5, <1>6, <2>2, LeastNumber
    <3> DEFINE before == k0 - FullEveryDays + 1 - extra .. k0 - 1
    <3>2. k0 \in Nat
      BY <1>5, <1>6
    <3>3. IsFiniteSet(before) /\ Cardinality(before) = FullEveryDays - 1 + extra
      <4> HIDE DEF extra
      <4>1. k0 - FullEveryDays + 1 - extra \in Int /\ k0 - 1 \in Int
        BY <1>e, <3>2, ChainAssumption
      <4>2. /\ IsFiniteSet(before)
            /\ Cardinality(before) = IF k0 - FullEveryDays + 1 - extra > k0 - 1 THEN 0
                                     ELSE k0 - 1 - (k0 - FullEveryDays + 1 - extra) + 1
        BY <4>1, FS_Interval
      <4> HIDE DEF before
      <4> QED BY <1>e, <3>2, <4>2, ChainAssumption
    <3>4. ASSUME NEW n \in held, n \notin keep
          PROVE  n \in before
      <4>1. PICK k \in keep : chainId(k) = chainId(n) /\ k \in held
        BY <1>7, <3>4
      <4>2. n \in rest /\ n < k0
        BY <1>6, <1>7, <3>1, <3>4
      <4>3. n \in Planned /\ k \in Planned /\ n \in Nat /\ k \in Nat
        BY <1>5, <1>6, <4>2
      <4>4. chainId(n) <= n /\ chainId(n) \in Nat
        <5>1. Position(n)
          BY <4>3 DEF ChainInv, Bookkeeping, Planned
        <5>2. n \in Day
          BY <4>3 DEF Planned
        <5> QED BY <5>1, <5>2, ChainAssumption DEF Position, ChainInv, TypeOK, chainId
      <4>5. k - chainId(k) <= FullEveryDays - 1 + extra
        <5>1. YoungAt(chainId(k), archive[k].start, k) /\ chainId(k) \in Nat
          BY <4>1, <4>3, <4>4 DEF Young
        <5>2. CASE ClaimedLate(k)
          <6>1. extra = 1
            BY <4>1, <5>2
          <6>2. k - chainId(k) <= FullEveryDays - 1 \/ k - chainId(k) <= FullEveryDays
            BY <5>1 DEF YoungAt
          <6> HIDE DEF extra
          <6> QED BY <4>3, <5>1, <6>1, <6>2, ChainAssumption
        <5>3. CASE ~ClaimedLate(k)
          <6>1. k - chainId(k) <= FullEveryDays - 1
            BY <5>1, <5>3 DEF YoungAt, ClaimedLate
          <6> HIDE DEF extra
          <6> QED BY <1>e, <4>3, <5>1, <6>1, ChainAssumption
        <5> QED BY <5>2, <5>3
      <4>6. k0 <= k
        BY <3>1
      <4> HIDE DEF extra, held
      <4> QED BY <1>e, <3>2, <4>1, <4>2, <4>3, <4>4, <4>5, <4>6, ChainAssumption
    <3>5. held \in SUBSET (keep \cup before)
      BY <3>4
    <3> HIDE DEF before, held, extra
    <3>6. /\ IsFiniteSet(keep \cup before)
          /\ Cardinality(keep \cup before) <= Cardinality(keep) + Cardinality(before)
      <4>1. /\ IsFiniteSet(keep \cup before) /\ IsFiniteSet(keep \cap before)
            /\ Cardinality(keep \cup before)
                  = Cardinality(keep) + Cardinality(before) - Cardinality(keep \cap before)
        BY <1>6, <3>3, FS_Union, FS_Intersection
      <4>2. /\ Cardinality(keep \cap before) \in Nat /\ Cardinality(keep) \in Nat
            /\ Cardinality(before) \in Nat
        BY <1>6, <3>3, <4>1, FS_CardinalityType
      <4> QED BY <4>1, <4>2
    <3>7. IsFiniteSet(held) /\ Cardinality(held) <= Cardinality(keep \cup before)
      BY <3>5, <3>6, FS_Subset
    <3>8. /\ Cardinality(held) \in Nat /\ Cardinality(keep \cup before) \in Nat
          /\ Cardinality(keep) \in Nat
      BY <1>6, <3>6, <3>7, FS_CardinalityType
    <3> QED BY <1>6, <1>e, <3>3, <3>6, <3>7, <3>8, ChainAssumption
  <2> QED BY <2>1, <2>2
<1> QED BY <1>8 DEF d, pinned

(* One step of WorstCaseHolds. *)
HoldsBackLittle ==
    run.pc = "retention" /\ run'.pc = "deleting" =>
        LET d == run.dest
            pinned == {chainId(n) : n \in locked[d]}
            left == {n \in stored[d] \ run'.expired : chainId(n) \notin pinned}
            extra == IF \E n \in left : ClaimedLate(n) THEN 1 ELSE 0
        IN  Cardinality(left) <= KeepCount + FullEveryDays - 1 + extra

LEMMA NextHoldsBack == ChainInv /\ Young /\ [Next]_vars => HoldsBackLittle
<1> SUFFICES ASSUME ChainInv, Young, [Next]_vars, run.pc = "retention", run'.pc = "deleting"
             PROVE  \E unread : ListExpired(unread)
  BY HeldBack DEF HoldsBackLittle
<1>1. run \in RunState
  BY RunTyped
<1>2. ~SkipDay /\ ~PlanFull /\ ~PlanLateFull /\ ~PlanIncremental /\ ~UNCHANGED vars
  BY DEF SkipDay, PlanFull, PlanLateFull, StartFull, PlanIncremental, StartRun, vars
<1>3. /\ ~Upload /\ ~FailUpload /\ ~TearUpload /\ ~EvaluateUploads
      /\ ~FailListing /\ ~SkipRetention /\ ~EndRetention /\ ~Complete /\ ~Interrupt
  BY <1>1 DEF Upload, FailUpload, TearUpload, EvaluateUploads, FailListing, RunState,
              SkipRetention, EndRetention, Complete, Interrupt, AbandonRun, IdleRun
<1>4. ~ \E n \in Day : DeleteExpired(n) \/ FailDelete(n)
  BY DEF DeleteExpired, FailDelete
<1>5. ~ \E d \in Dest, n \in Day :
            DeleteFile(d, n) \/ FailDeleteFile(d, n) \/ toggleLock(d, n) \/ verifyFile(d, n)
  BY DEF DeleteFile, FailDeleteFile, toggleLock, verifyFile
<1>6. Retain \/ RetainUnread
  BY <1>2, <1>3, <1>4, <1>5 DEF Next
<1> QED BY <1>6 DEF Retain, RetainUnread

(* A chain is held back from retention by a backup the policy keeps for no    *)
(* longer than planChain goes on with it: a destination is left with at most  *)
(* keepCount + fullEveryDays - 1 archives, one more if a chain among them had *)
(* a late full, those of locked chains not counted                            *)
(* (applyRetentionForDestination, calculateRetention, planChain's age check). *)
THEOREM BacklogBounded == Spec => WorstCaseHolds
<1>1. Init => Young
  BY DEF Init, Young, Planned, chainId, NoArchive
<1>2. ChainInv /\ Young /\ [Next]_vars => Young' /\ HoldsBackLittle
  BY NextYoung, NextHoldsBack
<1>3. Spec => [][HoldsBackLittle]_vars
  BY <1>1, <1>2, ChainInvariance, PTL DEF Spec
<1> QED BY <1>3, PTL DEF WorstCaseHolds, HoldsBackLittle

=============================================================================
