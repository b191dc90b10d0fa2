--------------------------- MODULE RetentionLemmas ---------------------------
(***************************************************************************)
(* What the operators of Retention return, for any files, policy and       *)
(* number of tiers: the Simple policy keeps the newest files, a Smart tier *)
(* those the documentation says, and the tiers build on each other.        *)
(*                                                                         *)
(* FoldLeft chooses a function that satisfies a recursion; FoldExists      *)
(* shows that there is one, and TierFold and TiersFold read off it the     *)
(* states a loop goes through. What holds in all of them follows by the    *)
(* least counterexample (CountUp).                                         *)
(***************************************************************************)
EXTENDS Retention, FiniteSetTheorems, WellFoundedInduction, TLAPS

(* Any set of numbers has a least one, any bounded one a greatest: this is   *)
(* how the proofs do induction, by the least counterexample.                 *)
LEMMA LeastNumber ==
    ASSUME NEW T, T \subseteq Nat, T # {}
    PROVE  \E x \in T : \A y \in T : x <= y
<1> DEFINE R == {ss \in Nat \X Nat : ss[1] < ss[2]}
<1>1. IsWellFoundedOn(R, Nat)
  BY NatLessThanWellFounded DEF OpToRel
<1>2. \A x, y \in Nat : y < x => <<y, x>> \in R
  OBVIOUS
<1> HIDE DEF R
<1>3. PICK x \in T : \A y \in T : ~ (<<y, x>> \in R)
  BY <1>1, WFMin
<1>4. ASSUME NEW y \in T PROVE x <= y
  <2>1. x \in Nat /\ y \in Nat /\ ~ (<<y, x>> \in R)
    BY <1>3
  <2>2. ~(y < x)
    BY <1>2, <2>1
  <2> QED BY <2>1, <2>2
<1> QED BY <1>4

LEMMA GreatestNumber ==
    ASSUME NEW m \in Nat, NEW T, T \subseteq 0 .. m, T # {}
    PROVE  \E x \in T : \A y \in T : y <= x
<1> DEFINE U == {k \in 0 .. m : m - k \in T}
<1>1. U \subseteq Nat /\ U # {}
  <2>1. PICK t \in T : TRUE
    OBVIOUS
  <2>2. m - t \in 0 .. m /\ m - (m - t) = t
    BY <2>1
  <2> QED BY <2>1, <2>2
<1> HIDE DEF U
<1>2. PICK k \in U : \A y \in U : k <= y
  BY <1>1, LeastNumber
<1>3. k \in 0 .. m /\ m - k \in T
  BY <1>2 DEF U
<1>4. ASSUME NEW y \in T PROVE y <= m - k
  <2>1. y \in 0 .. m /\ m - (m - y) = y
    OBVIOUS
  <2>2. m - y \in U
    BY <2>1 DEF U
  <2>3. k <= m - y
    BY <1>2, <2>2
  <2> QED BY <1>3, <2>1, <2>3
<1> QED BY <1>3, <1>4

-----------------------------------------------------------------------------
(* Induction up to a bound, with a set in the place of a predicate. *)
LEMMA CountUp ==
    ASSUME NEW n \in Nat, NEW I, 0 \in I, \A i \in 1 .. n : i - 1 \in I => i \in I
    PROVE  0 .. n \subseteq I
<1> DEFINE T == (0 .. n) \ I
<1> SUFFICES ASSUME T # {} PROVE FALSE
  OBVIOUS
<1>1. T \subseteq Nat
  OBVIOUS
<1> HIDE DEF T
<1>2. PICK x \in T : \A y \in T : x <= y
  BY <1>1, LeastNumber
<1>3. x \in 1 .. n /\ x \notin I
  BY <1>2 DEF T
<1>4. x - 1 \in 0 .. n /\ ~(x <= x - 1)
  BY <1>3
<1>5. x - 1 \in I
  BY <1>2, <1>4 DEF T
<1> QED BY <1>3, <1>5

LEMMA MaxIs ==
    ASSUME NEW n \in Nat, NEW s \in SUBSET (1 .. n), s # {}
    PROVE  Max(s) \in s /\ \A y \in s : y <= Max(s)
<1>1. \E x \in s : \A y \in s : x >= y
  <2>1. s \subseteq 0 .. n
    OBVIOUS
  <2>2. PICK x \in s : \A y \in s : y <= x
    BY <2>1, GreatestNumber
  <2> QED BY <2>2
<1>2. Max(s) \in s /\ \A y \in s : Max(s) >= y
  BY <1>1 DEF Max
<1> QED BY <1>2

LEMMA WithoutMax ==
    ASSUME NEW n \in Nat, NEW s \in SUBSET (1 .. n), s # {}
    PROVE  /\ Max(s) \in 1 .. n /\ n # 0
           /\ s \ {Max(s)} \in SUBSET (1 .. n - 1)
<1>1. Max(s) \in s /\ \A y \in s : y <= Max(s)
  BY MaxIs
<1>2. Max(s) \in 1 .. n /\ n # 0
  <2>1. Max(s) \in 1 .. n
    BY <1>1
  <2> QED BY <2>1
<1>3. ASSUME NEW y \in s \ {Max(s)} PROVE y \in 1 .. n - 1
  BY <1>1, <1>2
<1> QED BY <1>2, <1>3

(* A fold over positions, as FoldLeft goes through them: there is a function *)
(* that satisfies its recursion.                                             *)
Folds(g, n, base, h) ==
    g = [s \in SUBSET (1 .. n) |->
            IF s = {} THEN base ELSE h[<<Max(s), g[s \ {Max(s)}]>>]]

LEMMA FoldExists ==
    ASSUME NEW n \in Nat, NEW B, NEW base \in B, NEW h \in [(1 .. n) \X B -> B]
    PROVE  \E g \in [SUBSET (1 .. n) -> B] : Folds(g, n, base, h)
<1> DEFINE I == {m \in 0 .. n : \E g \in [SUBSET (1 .. m) -> B] : Folds(g, m, base, h)}
<1>1. 0 \in I
  <2> DEFINE g == [s \in SUBSET (1 .. 0) |-> base]
  <2>1. \A s \in SUBSET (1 .. 0) : s = {}
    OBVIOUS
  <2>2. g = [s \in SUBSET (1 .. 0) |->
                IF s = {} THEN base ELSE h[<<Max(s), g[s \ {Max(s)}]>>]]
    BY <2>1
  <2>3. g \in [SUBSET (1 .. 0) -> B]
    OBVIOUS
  <2> HIDE DEF g
  <2>4. \E f \in [SUBSET (1 .. 0) -> B] : Folds(f, 0, base, h)
    BY <2>2, <2>3 DEF Folds
  <2>5. 0 \in 0 .. n
    OBVIOUS
  <2> QED BY <2>4, <2>5
<1>2. ASSUME NEW m \in 1 .. n, m - 1 \in I
      PROVE  m \in I
  <2>1. PICK f \in [SUBSET (1 .. m - 1) -> B] : Folds(f, m - 1, base, h)
    BY <1>2
  <2> DEFINE g == [s \in SUBSET (1 .. m) |->
                      IF s = {} THEN base ELSE h[<<Max(s), f[s \ {Max(s)}]>>]]
  <2>2. ASSUME NEW s \in SUBSET (1 .. m), s # {}
        PROVE  Max(s) \in 1 .. n /\ s \ {Max(s)} \in SUBSET (1 .. m - 1)
    BY <2>2, WithoutMax
  <2>3. g \in [SUBSET (1 .. m) -> B]
    BY <2>2
  <2>4. ASSUME NEW u \in SUBSET (1 .. m - 1)
        PROVE  g[u] = f[u]
    <3>1. u \in SUBSET (1 .. m)
      OBVIOUS
    <3>2. f[u] = IF u = {} THEN base ELSE h[<<Max(u), f[u \ {Max(u)}]>>]
      BY <2>1 DEF Folds
    <3> QED BY <3>1, <3>2
  <2>5. ASSUME NEW s \in SUBSET (1 .. m), s # {}
        PROVE  g[s \ {Max(s)}] = f[s \ {Max(s)}]
    BY <2>2, <2>4, <2>5
  <2>6. g = [s \in SUBSET (1 .. m) |->
                IF s = {} THEN base ELSE h[<<Max(s), g[s \ {Max(s)}]>>]]
    <3>1. \A s \in SUBSET (1 .. m) :
             g[s] = IF s = {} THEN base ELSE h[<<Max(s), g[s \ {Max(s)}]>>]
      BY <2>5
    <3>2. g = [s \in SUBSET (1 .. m) |-> g[s]]
      OBVIOUS
    <3> HIDE DEF g
    <3> QED BY <3>1, <3>2
  <2> HIDE DEF g
  <2>7. Folds(g, m, base, h)
    BY <2>6 DEF Folds
  <2>8. m \in 0 .. n
    OBVIOUS
  <2> QED BY <2>3, <2>7, <2>8
<1> HIDE DEF I
<1>3. 0 .. n \subseteq I
  BY <1>1, <1>2, CountUp
<1>4. n \in I
  BY <1>3
<1> QED BY <1>4 DEF I

LEMMA PrefixIn ==
    ASSUME NEW n \in Nat, NEW i \in 1 .. n
    PROVE  1 .. i \in SUBSET (1 .. n) /\ 1 .. i # {}
<1>1. i \in 1 .. i
  OBVIOUS
<1>2. ASSUME NEW j \in 1 .. i PROVE j \in 1 .. n
  OBVIOUS
<1> QED BY <1>1, <1>2

LEMMA MaxOfPrefix ==
    ASSUME NEW i \in Nat, i # 0
    PROVE  Max(1 .. i) = i /\ (1 .. i) \ {i} = 1 .. i - 1
<1>1. 1 .. i \in SUBSET (1 .. i) /\ i \in 1 .. i
  OBVIOUS
<1>2. Max(1 .. i) \in 1 .. i /\ i <= Max(1 .. i)
  BY <1>1, MaxIs
<1>3. Max(1 .. i) = i
  BY <1>2
<1>4. (1 .. i) \ {i} = 1 .. i - 1
  OBVIOUS
<1> QED BY <1>3, <1>4
-----------------------------------------------------------------------------
(* Where a backup stands in a listing, newest first: NewestFirst has it at   *)
(* the position after its rank, and so the Simple policy keeps the newest.   *)
Rank(S, b) == Cardinality({c \in S : c > b})

LEMMA RankRange ==
    ASSUME NEW S \in SUBSET Nat, IsFiniteSet(S), NEW b \in S
    PROVE  Rank(S, b) \in 0 .. Cardinality(S) - 1
<1> DEFINE above == {c \in S : c > b}
<1>1. above \in SUBSET (S \ {b})
  OBVIOUS
<1>2. IsFiniteSet(S \ {b}) /\ Cardinality(S \ {b}) = Cardinality(S) - 1
  BY FS_RemoveElement
<1> HIDE DEF above
<1>3. IsFiniteSet(above) /\ Cardinality(above) <= Cardinality(S) - 1
  BY <1>1, <1>2, FS_Subset
<1>4. Cardinality(above) \in Nat /\ Cardinality(S) \in Nat
  BY <1>3, FS_CardinalityType
<1>5. Rank(S, b) = Cardinality(above)
  BY DEF Rank, above
<1> QED BY <1>3, <1>4, <1>5

LEMMA RankOrder ==
    ASSUME NEW S \in SUBSET Nat, IsFiniteSet(S), NEW a \in S, NEW b \in S, a < b
    PROVE  Rank(S, b) < Rank(S, a)
<1> DEFINE aboveA == {c \in S : c > a}
           aboveB == {c \in S : c > b}
<1>1. aboveB \cup {b} \in SUBSET aboveA /\ aboveB \in SUBSET S /\ aboveA \in SUBSET S
      /\ b \notin aboveB
  <2>1. \A c \in S : c \in Nat
    OBVIOUS
  <2>2. ~(b > b)
    BY <2>1
  <2>3. \A c \in S : c > b => c > a
    BY <2>1
  <2>4. b > a
    BY <2>1
  <2> QED BY <2>2, <2>3, <2>4
<1>2. Rank(S, a) = Cardinality(aboveA) /\ Rank(S, b) = Cardinality(aboveB)
  BY DEF Rank
<1> HIDE DEF aboveA, aboveB
<1>3. IsFiniteSet(aboveA) /\ IsFiniteSet(aboveB)
  BY <1>1, FS_Subset
<1>4. Cardinality(aboveB \cup {b}) = Cardinality(aboveB) + 1
  BY <1>1, <1>3, FS_AddElement
<1>5. Cardinality(aboveB \cup {b}) <= Cardinality(aboveA)
  BY <1>1, <1>3, FS_Subset
<1>6. Cardinality(aboveA) \in Nat /\ Cardinality(aboveB) \in Nat
  BY <1>3, FS_CardinalityType
<1> QED BY <1>2, <1>4, <1>5, <1>6

(* Every position is somebody's. *)
LEMMA RankOnto ==
    ASSUME NEW S \in SUBSET Nat, IsFiniteSet(S), NEW i \in 0 .. Cardinality(S) - 1
    PROVE  \E b \in S : Rank(S, b) = i
<1> DEFINE N == Cardinality(S)
           f == [b \in S |-> Rank(S, b)]
<1>1. N \in Nat
  BY FS_CardinalityType
<1>2. IsFiniteSet(0 .. N - 1) /\ Cardinality(0 .. N - 1) = N
  <2>1. 0 \in Int /\ N - 1 \in Int
    BY <1>1
  <2>2. IsFiniteSet(0 .. N - 1) /\ Cardinality(0 .. N - 1) = IF 0 > N - 1 THEN 0 ELSE N - 1 - 0 + 1
    BY <2>1, FS_Interval
  <2> HIDE DEF N
  <2> QED BY <1>1, <2>2
<1>3. f \in [S -> 0 .. N - 1]
  BY RankRange
<1>4. \A a, b \in S : f[a] = f[b] => a = b
  <2> SUFFICES ASSUME NEW a \in S, NEW b \in S, Rank(S, a) = Rank(S, b) PROVE a = b
    OBVIOUS
  <2>1. Rank(S, a) \in Nat /\ Rank(S, b) \in Nat
    BY <1>1, RankRange
  <2>2. ~(a < b) /\ ~(b < a)
    BY <2>1, RankOrder
  <2>3. a \in Nat /\ b \in Nat
    OBVIOUS
  <2> QED BY <2>2, <2>3
<1>5. f \in Injection(S, 0 .. N - 1)
  BY <1>3, <1>4 DEF Injection, IsInjective
<1> HIDE DEF f
<1>6. f \in Surjection(S, 0 .. N - 1)
  BY <1>2, <1>5, FS_Injection
<1>7. \E b \in S : f[b] = i
  BY <1>6 DEF Surjection
<1> QED BY <1>7 DEF f

LEMMA NewestFirstIs ==
    ASSUME NEW S \in SUBSET Nat, IsFiniteSet(S), NEW i \in DOMAIN NewestFirst(S)
    PROVE  /\ i \in 1 .. Cardinality(S)
           /\ NewestFirst(S)[i] \in S /\ Rank(S, NewestFirst(S)[i]) = i - 1
<1>1. i \in 1 .. Cardinality(S) /\ Cardinality(S) \in Nat
  BY FS_CardinalityType DEF NewestFirst
<1>2. \E b \in S : Rank(S, b) = i - 1
  <2>1. i - 1 \in 0 .. Cardinality(S) - 1
    BY <1>1
  <2> QED BY <2>1, RankOnto
<1>3. NewestFirst(S)[i] = CHOOSE b \in S : Rank(S, b) = i - 1
  BY <1>1 DEF NewestFirst, Rank
<1> QED BY <1>1, <1>2, <1>3

LEMMA SimpleKeepsNewest ==
    ASSUME NEW S \in SUBSET Nat, IsFiniteSet(S), NEW count \in Nat
    PROVE  LET keep == applySimplePolicy(S, count)
           IN  /\ keep \subseteq S /\ IsFiniteSet(keep) /\ Cardinality(keep) <= count
               /\ \A k \in keep : \A b \in S \ keep : b < k
<1> DEFINE sorted == NewestFirst(S)
           J == {i \in DOMAIN sorted : i <= count}
           keep == applySimplePolicy(S, count)
           g == [i \in J |-> sorted[i]]
<1>1. keep = {sorted[i] : i \in J}
  BY DEF applySimplePolicy
<1>2. \A i \in J : /\ i \in 1 .. Cardinality(S) /\ i \in 1 .. count
                   /\ sorted[i] \in S /\ Rank(S, sorted[i]) = i - 1
  BY NewestFirstIs
<1>3. Cardinality(S) \in Nat
  BY FS_CardinalityType
<1>4. IsFiniteSet(J) /\ Cardinality(J) <= count
  <2>1. IsFiniteSet(1 .. count) /\ Cardinality(1 .. count) = count
    <3>1. /\ IsFiniteSet(1 .. count)
          /\ Cardinality(1 .. count) = IF 1 > count THEN 0 ELSE count - 1 + 1
      BY FS_Interval
    <3> QED BY <3>1
  <2>2. J \in SUBSET (1 .. count)
    <3> HIDE DEF J
    <3> QED BY <1>2
  <2> HIDE DEF J
  <2> QED BY <2>1, <2>2, FS_Subset
<1>5. g \in Surjection(J, keep)
  BY <1>1 DEF Surjection
<1> HIDE DEF g, keep, J, sorted
<1>6. IsFiniteSet(keep) /\ Cardinality(keep) <= count
  <2>1. IsFiniteSet(keep) /\ Cardinality(keep) <= Cardinality(J)
    BY <1>4, <1>5, FS_Surjection
  <2>2. Cardinality(keep) \in Nat /\ Cardinality(J) \in Nat
    BY <1>4, <2>1, FS_CardinalityType
  <2> QED BY <1>4, <2>1, <2>2
<1>7. keep \subseteq S
  BY <1>1, <1>2
<1>8. ASSUME NEW k \in keep, NEW b \in S \ keep
      PROVE  b < k
  <2>1. PICK i \in J : k = sorted[i]
    BY <1>1
  <2>2. /\ i \in 1 .. count /\ i \in 1 .. Cardinality(S) /\ k \in S /\ Rank(S, k) = i - 1
    BY <1>2, <2>1
  <2> DEFINE j == Rank(S, b) + 1
  <2>3. j \in 1 .. Cardinality(S) /\ Rank(S, b) = j - 1
    <3>1. Rank(S, b) \in 0 .. Cardinality(S) - 1
      BY RankRange
    <3> QED BY <1>3, <3>1
  <2> HIDE DEF j
  <2>4. j \in DOMAIN sorted
    BY <2>3 DEF sorted, NewestFirst
  <2>5. sorted[j] \in S /\ Rank(S, sorted[j]) = j - 1
    BY <2>4, NewestFirstIs DEF sorted
  <2>6. sorted[j] = b
    <3>1. ASSUME NEW x \in S, NEW y \in S, Rank(S, x) = j - 1, Rank(S, y) = j - 1
          PROVE  ~(x < y)
      <4>1. j - 1 \in Nat /\ ~(j - 1 < j - 1)
        BY <1>3, <2>3
      <4> QED BY <3>1, <4>1, RankOrder
    <3>3. ~(sorted[j] < b) /\ ~(b < sorted[j])
      BY <2>3, <2>5, <3>1
    <3>2. sorted[j] \in Nat /\ b \in Nat
      BY <2>5
    <3> QED BY <3>2, <3>3
  <2>7. j \notin J
    BY <1>1, <2>6
  <2>8. ~(j <= count)
    BY <2>4, <2>7 DEF J
  <2>9. Rank(S, k) < Rank(S, b)
    BY <1>3, <2>2, <2>3, <2>8
  <2>10. ~(k < b)
    BY <1>3, <2>2, <2>3, <2>9, RankOrder
  <2>11. k # b /\ k \in Nat /\ b \in Nat
    BY <1>7
  <2> QED BY <2>10, <2>11
<1>9. keep = applySimplePolicy(S, count)
  BY DEF keep
<1> QED BY <1>6, <1>7, <1>8, <1>9

-----------------------------------------------------------------------------
(* One tier as the states its loop goes through: what it keeps, which        *)
(* buckets are used, how many files it has kept itself.                      *)
TierType == [limit : Nat, width : Nat \ {0}]
TierStates(files) == [keep : SUBSET files, used : SUBSET Nat, kept : Nat]
TierStart(keep, tier) ==
    [keep |-> keep, used |-> ReservedBuckets(keep, tier.width), kept |-> 0]
Take(t, b, tier) ==
    IF \/ b \in t.keep
       \/ BucketKey(b, tier.width) \in t.used
       \/ t.kept >= tier.limit
    THEN t
    ELSE [keep |-> t.keep \cup {b},
          used |-> t.used \cup {BucketKey(b, tier.width)},
          kept |-> t.kept + 1]

LEMMA BucketOrder ==
    ASSUME NEW w \in Nat \ {0}, NEW a \in Nat
    PROVE  /\ BucketKey(a, w) \in Nat
           /\ \A b \in Nat : a <= b => BucketKey(a, w) <= BucketKey(b, w)
<1>1. a \div w \in Nat
  OBVIOUS
<1>2. ASSUME NEW b \in Nat, a <= b PROVE a \div w <= b \div w
  BY <1>2
<1> QED BY <1>1, <1>2 DEF BucketKey

LEMMA BucketsFinite ==
    ASSUME NEW files, IsFiniteSet(files), NEW w
    PROVE  IsFiniteSet(ReservedBuckets(files, w))
<1> DEFINE f == [b \in files |-> BucketKey(b, w)]
<1>1. f \in Surjection(files, ReservedBuckets(files, w))
  BY DEF Surjection, ReservedBuckets
<1> HIDE DEF f
<1> QED BY <1>1, FS_Surjection

LEMMA TakeType ==
    ASSUME NEW files \in SUBSET Nat, NEW tier \in TierType
    PROVE  /\ \A keep \in SUBSET files : TierStart(keep, tier) \in TierStates(files)
           /\ \A t \in TierStates(files) : \A b \in files : Take(t, b, tier) \in TierStates(files)
<1>1. tier.width \in Nat \ {0}
  BY DEF TierType
<1>2. \A b \in files : BucketKey(b, tier.width) \in Nat
  BY <1>1, BucketOrder
<1>3. ASSUME NEW keep \in SUBSET files PROVE TierStart(keep, tier) \in TierStates(files)
  BY <1>2 DEF TierStart, TierStates, ReservedBuckets
<1>4. ASSUME NEW t \in TierStates(files), NEW b \in files
      PROVE  Take(t, b, tier) \in TierStates(files)
  <2>1. t.keep \in SUBSET files /\ t.used \in SUBSET Nat /\ t.kept \in Nat
    BY DEF TierStates
  <2>2. [keep |-> t.keep \cup {b}, used |-> t.used \cup {BucketKey(b, tier.width)},
         kept |-> t.kept + 1] \in TierStates(files)
    BY <1>2, <2>1 DEF TierStates
  <2> QED BY <2>2 DEF Take
<1> QED BY <1>3, <1>4

LEMMA TierFold ==
    ASSUME NEW files \in SUBSET Nat, IsFiniteSet(files),
           NEW keep \in SUBSET files, NEW tier \in TierType
    PROVE  LET N == Cardinality(files)
           IN  \E t \in [0 .. N -> TierStates(files)] :
                  /\ t[0] = TierStart(keep, tier)
                  /\ \A i \in 1 .. N : t[i] = Take(t[i - 1], NewestFirst(files)[i], tier)
                  /\ applyTier(files, keep, tier) = t[N].keep
<1> DEFINE N == Cardinality(files)
           sorted == NewestFirst(files)
           start == TierStart(keep, tier)
           h == [x \in (1 .. N) \X TierStates(files) |-> Take(x[2], sorted[x[1]], tier)]
           Eq(g) == g = [s \in SUBSET (DOMAIN sorted) |->
                            IF s = {} THEN start
                            ELSE Take(g[s \ {Max(s)}], sorted[Max(s)], tier)]
           g0 == CHOOSE g : Eq(g)
<1>1. N \in Nat /\ DOMAIN sorted = 1 .. N /\ \A i \in 1 .. N : sorted[i] \in files
  BY FS_CardinalityType, NewestFirstIs DEF NewestFirst
<1>2. start \in TierStates(files)
  BY TakeType
<1>3. applyTier(files, keep, tier) = g0[DOMAIN sorted].keep
  BY DEF applyTier, FoldLeft, MapThenFoldSet, Take, TierStart
<1> HIDE DEF N, sorted, start
<1>4. h \in [(1 .. N) \X TierStates(files) -> TierStates(files)]
  BY <1>1, TakeType
<1>5. PICK f \in [SUBSET (1 .. N) -> TierStates(files)] : Folds(f, N, start, h)
  <2> HIDE DEF h
  <2> QED BY <1>1, <1>2, <1>4, FoldExists
<1>6. Eq(f)
  <2>1. ASSUME NEW s \in SUBSET (1 .. N), s # {}
        PROVE  h[<<Max(s), f[s \ {Max(s)}]>>] = Take(f[s \ {Max(s)}], sorted[Max(s)], tier)
    <3>1. Max(s) \in 1 .. N /\ s \ {Max(s)} \in SUBSET (1 .. N - 1)
      BY <1>1, <2>1, WithoutMax
    <3>2. s \ {Max(s)} \in SUBSET (1 .. N)
      OBVIOUS
    <3>3. f[s \ {Max(s)}] \in TierStates(files)
      BY <3>2
    <3> QED BY <3>1, <3>3
  <2> HIDE DEF h
  <2>2. f = [s \in SUBSET (1 .. N) |->
                IF s = {} THEN start ELSE h[<<Max(s), f[s \ {Max(s)}]>>]]
    BY <1>5 DEF Folds
  <2>3. \A s \in SUBSET (1 .. N) :
           f[s] = IF s = {} THEN start ELSE Take(f[s \ {Max(s)}], sorted[Max(s)], tier)
    BY <2>1, <2>2
  <2>4. f = [s \in SUBSET (1 .. N) |-> f[s]]
    OBVIOUS
  <2> QED BY <1>1, <2>3, <2>4
<1>7. Eq(g0)
  <2> HIDE DEF Eq
  <2> QED BY <1>6
<1>8. ASSUME NEW s \in SUBSET (1 .. N)
      PROVE  g0[s] = IF s = {} THEN start ELSE Take(g0[s \ {Max(s)}], sorted[Max(s)], tier)
  <2> HIDE DEF g0
  <2> QED BY <1>1, <1>7
<1> HIDE DEF g0, Eq
<1> DEFINE t == [i \in 0 .. N |-> g0[1 .. i]]
<1>9. t[0] = start
  <2>1. 1 .. 0 = {} /\ 0 \in 0 .. N
    BY <1>1
  <2> QED BY <1>8, <2>1
<1>10. ASSUME NEW i \in 1 .. N
       PROVE  t[i] = Take(t[i - 1], sorted[i], tier)
  <2>1. i \in Nat /\ i # 0 /\ i \in 0 .. N /\ i - 1 \in 0 .. N /\ i \in 1 .. i
    BY <1>1
  <2>2. 1 .. i \in SUBSET (1 .. N) /\ 1 .. i # {}
    BY <1>1, PrefixIn
  <2>3. Max(1 .. i) = i /\ (1 .. i) \ {i} = 1 .. i - 1
    BY <2>1, MaxOfPrefix
  <2>4. g0[1 .. i] = Take(g0[1 .. i - 1], sorted[i], tier)
    BY <1>8, <2>2, <2>3
  <2> QED BY <2>1, <2>4
<1>11. applyTier(files, keep, tier) = t[N].keep
  BY <1>1, <1>3
<1>12. t \in [0 .. N -> TierStates(files)]
  <2> DEFINE I == {i \in 0 .. N : t[i] \in TierStates(files)}
  <2>1. t = [i \in 0 .. N |-> t[i]]
    OBVIOUS
  <2> HIDE DEF t
  <2>2. 0 \in I
    BY <1>1, <1>2, <1>9
  <2>3. ASSUME NEW i \in 1 .. N, i - 1 \in I PROVE i \in I
    <3>1. i \in 0 .. N /\ t[i - 1] \in TierStates(files) /\ sorted[i] \in files
      BY <1>1, <2>3
    <3>2. Take(t[i - 1], sorted[i], tier) \in TierStates(files)
      BY <3>1, TakeType
    <3> QED BY <1>10, <3>1, <3>2
  <2> HIDE DEF I
  <2>4. 0 .. N \subseteq I
    BY <1>1, <2>2, <2>3, CountUp
  <2> QED BY <2>1, <2>4 DEF I
<1> HIDE DEF t
<1> QED BY <1>9, <1>10, <1>11, <1>12 DEF N, sorted, start

-----------------------------------------------------------------------------
LEMMA RankTellsApart ==
    ASSUME NEW S \in SUBSET Nat, IsFiniteSet(S), NEW a \in S, NEW b \in S
    PROVE  /\ Rank(S, a) \in Nat
           /\ Rank(S, a) = Rank(S, b) => a = b
           /\ a < b <=> Rank(S, b) < Rank(S, a)
<1>1. Rank(S, a) \in Nat /\ Rank(S, b) \in Nat
  BY RankRange
<1>2. a \in Nat /\ b \in Nat
  OBVIOUS
<1>3. (a < b => Rank(S, b) < Rank(S, a)) /\ (b < a => Rank(S, a) < Rank(S, b))
  BY RankOrder
<1> QED BY <1>1, <1>2, <1>3

(* What a tier has done when it has seen the newest files, those in seen.    *)
Gained(keep, t) == t.keep \ keep
TierSoFar(files, keep, tier, t, seen) ==
    LET w == tier.width
        gained == Gained(keep, t)
    IN  /\ keep \subseteq t.keep /\ gained \subseteq seen
        /\ t.used = ReservedBuckets(t.keep, w)
        /\ IsFiniteSet(ReservedBuckets(gained, w))
        /\ t.kept = Cardinality(ReservedBuckets(gained, w)) /\ t.kept <= tier.limit
        /\ \A a \in gained :
              /\ BucketKey(a, w) \notin ReservedBuckets(keep, w)
              /\ \A c \in files : BucketKey(c, w) = BucketKey(a, w) => c <= a
        /\ \A b \in seen :
              \/ BucketKey(b, w) \in t.used
              \/ t.kept = tier.limit /\ \A a \in gained : BucketKey(a, w) > BucketKey(b, w)

LEMMA TierSoFarStart ==
    ASSUME NEW files \in SUBSET Nat, NEW keep \in SUBSET files, NEW tier \in TierType
    PROVE  TierSoFar(files, keep, tier, TierStart(keep, tier), {})
<1> DEFINE t == TierStart(keep, tier)
<1>1. t.keep = keep /\ t.used = ReservedBuckets(keep, tier.width) /\ t.kept = 0
  BY DEF TierStart
<1>2. Gained(keep, t) = {} /\ ReservedBuckets({}, tier.width) = {}
  BY <1>1 DEF Gained, ReservedBuckets
<1>3. IsFiniteSet({}) /\ Cardinality({}) = 0
  BY FS_EmptySet
<1>4. 0 <= tier.limit
  BY DEF TierType
<1> HIDE DEF t
<1>5. /\ keep \subseteq t.keep /\ t.used = ReservedBuckets(t.keep, tier.width)
      /\ IsFiniteSet(ReservedBuckets({}, tier.width))
      /\ t.kept = Cardinality(ReservedBuckets({}, tier.width)) /\ t.kept <= tier.limit
  BY <1>1, <1>2, <1>3, <1>4
<1>6. TierSoFar(files, keep, tier, t, {})
  BY <1>2, <1>5 DEF TierSoFar
<1> QED BY <1>6 DEF t

LEMMA TierSoFarStep ==
    ASSUME NEW files \in SUBSET Nat, NEW keep \in SUBSET files, NEW tier \in TierType,
           NEW t \in TierStates(files), NEW seen \in SUBSET files, NEW b \in files \ seen,
           \A c \in seen : c > b, \A c \in files \ seen : c <= b,
           TierSoFar(files, keep, tier, t, seen)
    PROVE  TierSoFar(files, keep, tier, Take(t, b, tier), seen \cup {b})
<1> DEFINE w == tier.width
           k == BucketKey(b, w)
           gained == Gained(keep, t)
           u == Take(t, b, tier)
<1>1. w \in Nat \ {0} /\ tier.limit \in Nat /\ t.kept \in Nat /\ t.keep \subseteq files
      /\ t.used \subseteq Nat
  BY DEF TierType, TierStates
<1>2. \A c \in files : c \in Nat /\ BucketKey(c, w) \in Nat
  BY <1>1, BucketOrder
<1>3. \A c, d \in files : c <= d => BucketKey(c, w) <= BucketKey(d, w)
  BY <1>1, <1>2, BucketOrder
<1>4. /\ keep \subseteq t.keep /\ gained \subseteq seen
      /\ t.used = ReservedBuckets(t.keep, w)
      /\ IsFiniteSet(ReservedBuckets(gained, w))
      /\ t.kept = Cardinality(ReservedBuckets(gained, w)) /\ t.kept <= tier.limit
      /\ \A a \in gained :
            /\ BucketKey(a, w) \notin ReservedBuckets(keep, w)
            /\ \A c \in files : BucketKey(c, w) = BucketKey(a, w) => c <= a
  BY DEF TierSoFar
<1>5. \A c \in seen :
         \/ BucketKey(c, w) \in t.used
         \/ t.kept = tier.limit /\ \A a \in gained : BucketKey(a, w) > BucketKey(c, w)
  BY DEF TierSoFar
<1>6. gained = t.keep \ keep /\ gained \subseteq t.keep
  BY DEF Gained
<1> HIDE DEF w, gained, k
<1>7. CASE b \in t.keep \/ k \in t.used \/ t.kept >= tier.limit
  <2>1. u = t
    BY <1>7 DEF Take, k, w
  <2>2. \/ k \in t.used
        \/ t.kept = tier.limit /\ \A a \in gained : BucketKey(a, w) > k
    <3>1. b \in t.keep => k \in t.used
      BY <1>4 DEF ReservedBuckets, k
    <3>2. ASSUME k \notin t.used, t.kept >= tier.limit
          PROVE  t.kept = tier.limit /\ \A a \in gained : BucketKey(a, w) > k
      <4>1. t.kept = tier.limit
        BY <1>1, <1>4, <3>2
      <4>2. ASSUME NEW a \in gained PROVE BucketKey(a, w) > k
        <5>1. a \in files /\ a \in seen /\ b <= a
          BY <1>2, <1>4
        <5>2. k <= BucketKey(a, w)
          BY <1>3, <5>1 DEF k
        <5>3. BucketKey(a, w) \in t.used
          BY <1>4, <1>6 DEF ReservedBuckets
        <5>4. BucketKey(a, w) # k /\ BucketKey(a, w) \in Nat /\ k \in Nat
          BY <1>2, <3>2, <5>1, <5>3 DEF k
        <5> QED BY <5>2, <5>4
      <4> QED BY <4>1, <4>2
    <3> QED BY <1>7, <3>1, <3>2
  <2>3. gained \subseteq seen \cup {b}
    BY <1>4
  <2>4. \A c \in seen \cup {b} :
           \/ BucketKey(c, w) \in t.used
           \/ t.kept = tier.limit /\ \A a \in gained : BucketKey(a, w) > BucketKey(c, w)
    BY <1>5, <2>2 DEF k
  <2>5. TierSoFar(files, keep, tier, t, seen \cup {b})
    BY <1>4, <2>3, <2>4 DEF TierSoFar, gained, w
  <2> QED BY <2>1, <2>5
<1>8. CASE ~(b \in t.keep \/ k \in t.used \/ t.kept >= tier.limit)
  <2>1. u = [keep |-> t.keep \cup {b}, used |-> t.used \cup {k}, kept |-> t.kept + 1]
    BY <1>8 DEF Take, k, w
  <2>2. u.keep = t.keep \cup {b} /\ u.used = t.used \cup {k} /\ u.kept = t.kept + 1
    BY <2>1
  <2> HIDE DEF u
  <2>3. b \notin keep /\ Gained(keep, u) = gained \cup {b}
    BY <1>4, <1>6, <1>8, <2>2 DEF Gained
  <2>4. ReservedBuckets(gained \cup {b}, w) = ReservedBuckets(gained, w) \cup {k}
    BY DEF ReservedBuckets, k
  <2>5. u.used = ReservedBuckets(u.keep, w)
    BY <1>4, <2>2 DEF ReservedBuckets, k
  <2>6. k \notin ReservedBuckets(gained, w) /\ k \notin ReservedBuckets(keep, w)
    BY <1>4, <1>6, <1>8 DEF ReservedBuckets
  <2>7. /\ IsFiniteSet(ReservedBuckets(gained \cup {b}, w))
        /\ Cardinality(ReservedBuckets(gained \cup {b}, w)) = t.kept + 1
    <3>1. IsFiniteSet(ReservedBuckets(gained, w))
      BY <1>4
    <3>2. /\ IsFiniteSet(ReservedBuckets(gained, w) \cup {k})
          /\ Cardinality(ReservedBuckets(gained, w) \cup {k})
                = Cardinality(ReservedBuckets(gained, w)) + 1
      BY <2>6, <3>1, FS_AddElement
    <3> QED BY <1>4, <2>4, <3>2
  <2>8. u.kept <= tier.limit
    BY <1>1, <1>8, <2>2
  <2>9. \A c \in seen : BucketKey(c, w) \in t.used
    <3>1. t.kept # tier.limit
      BY <1>1, <1>8
    <3> QED BY <1>5, <3>1
  <2>10. ASSUME NEW c \in files, BucketKey(c, w) = k PROVE c <= b
    BY <1>8, <2>9, <2>10
  <2>11. \A a \in gained \cup {b} :
            /\ BucketKey(a, w) \notin ReservedBuckets(keep, w)
            /\ \A c \in files : BucketKey(c, w) = BucketKey(a, w) => c <= a
    BY <1>4, <2>6, <2>10 DEF k
  <2>12. \A c \in seen \cup {b} : BucketKey(c, w) \in u.used
    BY <2>2, <2>9 DEF k
  <2>13. keep \subseteq u.keep /\ gained \cup {b} \subseteq seen \cup {b}
    BY <1>4, <2>2
  <2>14. TierSoFar(files, keep, tier, u, seen \cup {b})
    BY <2>2, <2>3, <2>5, <2>7, <2>8, <2>11, <2>12, <2>13 DEF TierSoFar, w
  <2> QED BY <2>14 DEF u
<1> QED BY <1>7, <1>8

(* The state of a tier after its last file. *)
LEMMA TierDone ==
    ASSUME NEW files \in SUBSET Nat, IsFiniteSet(files),
           NEW keep \in SUBSET files, NEW tier \in TierType
    PROVE  \E t \in TierStates(files) :
              /\ applyTier(files, keep, tier) = t.keep
              /\ TierSoFar(files, keep, tier, t, files)
<1> DEFINE N == Cardinality(files)
           sorted == NewestFirst(files)
           Seen(i) == {b \in files : Rank(files, b) < i}
<1>1. N \in Nat /\ DOMAIN sorted = 1 .. N
  BY FS_CardinalityType DEF NewestFirst
<1>2. \A i \in 1 .. N : sorted[i] \in files /\ Rank(files, sorted[i]) = i - 1
  BY <1>1, NewestFirstIs
<1>3. PICK t \in [0 .. N -> TierStates(files)] :
         /\ t[0] = TierStart(keep, tier)
         /\ \A i \in 1 .. N : t[i] = Take(t[i - 1], sorted[i], tier)
         /\ applyTier(files, keep, tier) = t[N].keep
  BY TierFold
<1> HIDE DEF N, sorted
<1> DEFINE I == {i \in 0 .. N : TierSoFar(files, keep, tier, t[i], Seen(i))}
<1>4. 0 \in I
  <2>1. \A b \in files : Rank(files, b) \in Nat
    BY RankTellsApart
  <2>2. Seen(0) = {}
    <3>1. \A b \in files : ~(Rank(files, b) < 0)
      BY <2>1
    <3> QED BY <3>1
  <2> HIDE DEF Seen
  <2>3. 0 \in 0 .. N
    BY <1>1
  <2> QED BY <1>3, <2>2, <2>3, TierSoFarStart
<1>5. ASSUME NEW i \in 1 .. N, i - 1 \in I
      PROVE  i \in I
  <2> DEFINE b == sorted[i]
             seen == Seen(i - 1)
  <2>1. /\ i \in Nat /\ i \in 0 .. N /\ i - 1 \in 0 .. N /\ t[i - 1] \in TierStates(files)
        /\ b \in files /\ Rank(files, b) = i - 1
    BY <1>1, <1>2
  <2>2. \A c \in files : /\ c \in Nat /\ Rank(files, c) \in Nat
                         /\ Rank(files, c) = Rank(files, b) => c = b
                         /\ b < c <=> Rank(files, c) < Rank(files, b)
    BY <2>1, RankTellsApart
  <2> HIDE DEF b
  <2>3. seen \in SUBSET files /\ b \in files \ seen
    BY <2>1
  <2>4. \A c \in seen : c > b
    BY <2>1, <2>2
  <2>5. ASSUME NEW c \in files \ seen PROVE c <= b
    <3>1. ~(b < c)
      BY <2>1, <2>2
    <3> QED BY <2>1, <2>2, <3>1
  <2>6. Seen(i) = seen \cup {b}
    <3>1. \A c \in files : Rank(files, c) < i <=> Rank(files, c) < i - 1 \/ c = b
      BY <2>1, <2>2
    <3> QED BY <2>1, <3>1
  <2> HIDE DEF Seen, seen
  <2>7. TierSoFar(files, keep, tier, t[i - 1], seen)
    BY <1>5 DEF seen
  <2>8. TierSoFar(files, keep, tier, Take(t[i - 1], b, tier), seen \cup {b})
    BY <2>1, <2>3, <2>4, <2>5, <2>7, TierSoFarStep
  <2>9. t[i] = Take(t[i - 1], b, tier)
    BY <1>3 DEF b
  <2> QED BY <2>1, <2>6, <2>8, <2>9
<1> HIDE DEF I
<1>6. 0 .. N \subseteq I
  BY <1>1, <1>4, <1>5, CountUp
<1>7. N \in I
  BY <1>1, <1>6
<1>8. Seen(N) = files
  <2>1. \A b \in files : Rank(files, b) \in 0 .. N - 1
    BY RankRange DEF N
  <2>2. \A b \in files : Rank(files, b) < N
    BY <1>1, <2>1
  <2> QED BY <2>2
<1> HIDE DEF Seen
<1>9. t[N] \in TierStates(files)
  BY <1>1, <1>3
<1> QED BY <1>3, <1>7, <1>8, <1>9 DEF I

-----------------------------------------------------------------------------
(* What the documentation says a tier adds: of the buckets that have a file  *)
(* and no kept one, the newest ones, as many as the limit, and of each of    *)
(* them the newest file.                                                     *)
TierOpens(files, keep, tier) ==
    ReservedBuckets(files, tier.width) \ ReservedBuckets(keep, tier.width)
TierAdds(files, keep, tier) ==
    {k \in TierOpens(files, keep, tier) :
        Cardinality({j \in TierOpens(files, keep, tier) : j > k}) < tier.limit}
NewestOf(files, k, width) ==
    CHOOSE b \in files : /\ BucketKey(b, width) = k
                         /\ \A c \in files : BucketKey(c, width) = k => c <= b

LEMMA TierKeeps ==
    ASSUME NEW files \in SUBSET Nat, IsFiniteSet(files),
           NEW keep \in SUBSET files, NEW tier \in TierType
    PROVE  /\ applyTier(files, keep, tier) =
                 keep \cup {NewestOf(files, k, tier.width) : k \in TierAdds(files, keep, tier)}
           /\ applyTier(files, keep, tier) \in SUBSET files
           /\ TierAdds(files, keep, tier)
                 \subseteq ReservedBuckets(applyTier(files, keep, tier), tier.width)
<1> DEFINE w == tier.width
           limit == tier.limit
           new == TierOpens(files, keep, tier)
           Above(k) == {j \in new : j > k}
           added == TierAdds(files, keep, tier)
           result == applyTier(files, keep, tier)
           gained == result \ keep
           K == ReservedBuckets(gained, w)
<1>1. PICK t \in TierStates(files) : result = t.keep /\ TierSoFar(files, keep, tier, t, files)
  BY TierDone
<1>2. Gained(keep, t) = gained
  BY <1>1 DEF Gained
<1>3. /\ keep \subseteq result /\ gained \subseteq files
      /\ t.used = ReservedBuckets(result, w)
      /\ IsFiniteSet(K) /\ t.kept = Cardinality(K) /\ t.kept <= limit
      /\ \A a \in gained :
            /\ BucketKey(a, w) \notin ReservedBuckets(keep, w)
            /\ \A c \in files : BucketKey(c, w) = BucketKey(a, w) => c <= a
      /\ \A b \in files :
            \/ BucketKey(b, w) \in t.used
            \/ t.kept = limit /\ \A a \in gained : BucketKey(a, w) > BucketKey(b, w)
  <2> HIDE DEF result, gained
  <2> QED BY <1>1, <1>2 DEF TierSoFar
<1>4. w \in Nat \ {0} /\ limit \in Nat
  BY DEF TierType
<1>5. \A c \in files : c \in Nat /\ BucketKey(c, w) \in Nat
  BY <1>4, BucketOrder
<1>6. new = ReservedBuckets(files, w) \ ReservedBuckets(keep, w)
  BY DEF TierOpens
<1>7. added = {k \in new : Cardinality(Above(k)) < limit}
  BY DEF TierAdds
<1>8. gained = result \ keep
  OBVIOUS
<1>9. IsFiniteSet(new)
  BY <1>6, BucketsFinite, FS_Subset
<1> HIDE DEF w, limit, new, added, result, gained, K
<1>10. new \subseteq Nat /\ K \subseteq new
  BY <1>3, <1>5, <1>6 DEF K, ReservedBuckets
<1>11. ASSUME NEW j \in new
       PROVE  j \in K \/ (t.kept = limit /\ \A k \in K : k > j)
  <2>1. PICK b \in files : j = BucketKey(b, w)
    BY <1>6 DEF ReservedBuckets
  <2>2. CASE j \in t.used
    <3>1. PICK a \in result : j = BucketKey(a, w)
      BY <1>3, <2>2 DEF ReservedBuckets
    <3>2. a \notin keep
      BY <1>6, <3>1 DEF ReservedBuckets
    <3> QED BY <1>8, <3>1, <3>2 DEF K, ReservedBuckets
  <2>3. CASE j \notin t.used
    BY <1>3, <2>1, <2>3 DEF K, ReservedBuckets
  <2> QED BY <2>2, <2>3
<1>12. Cardinality(K) \in Nat
  BY <1>3, FS_CardinalityType
<1>13. \A k \in new : IsFiniteSet(Above(k)) /\ Cardinality(Above(k)) \in Nat
  BY <1>9, FS_Subset, FS_CardinalityType
<1>14. K \subseteq added
  <2> SUFFICES ASSUME NEW k \in K PROVE Cardinality(Above(k)) < limit
    BY <1>7, <1>10
  <2>1. k \in new /\ k \in Nat
    BY <1>10
  <2>2. ASSUME NEW j \in Above(k) PROVE j \in K \ {k}
    <3>1. j \in new /\ j > k /\ j \in Nat
      BY <1>10
    <3>2. ~(k > j) /\ j # k
      BY <2>1, <3>1
    <3> QED BY <1>11, <3>1, <3>2
  <2>3. IsFiniteSet(K \ {k}) /\ Cardinality(K \ {k}) = Cardinality(K) - 1
    BY <1>3, FS_RemoveElement
  <2>4. Above(k) \in SUBSET (K \ {k})
    BY <2>2
  <2> HIDE DEF Above
  <2>5. Cardinality(Above(k)) <= Cardinality(K \ {k})
    BY <2>3, <2>4, FS_Subset
  <2> QED BY <1>3, <1>4, <1>12, <1>13, <2>1, <2>3, <2>5
<1>15. added \subseteq K
  <2> SUFFICES ASSUME NEW k \in added, k \notin K PROVE FALSE
    OBVIOUS
  <2>1. k \in new /\ Cardinality(Above(k)) < limit
    BY <1>7
  <2>2. t.kept = limit /\ \A j \in K : j > k
    BY <1>11, <2>1
  <2>3. K \in SUBSET Above(k)
    BY <1>10, <2>2
  <2> HIDE DEF Above
  <2>4. Cardinality(K) <= Cardinality(Above(k))
    BY <1>13, <2>1, <2>3, FS_Subset
  <2> QED BY <1>3, <1>4, <1>12, <1>13, <2>1, <2>2, <2>4
<1>16. \A a \in gained : a = NewestOf(files, BucketKey(a, w), w)
  <2> SUFFICES ASSUME NEW a \in gained PROVE a = NewestOf(files, BucketKey(a, w), w)
    OBVIOUS
  <2> DEFINE k == BucketKey(a, w)
             P(b) == /\ BucketKey(b, w) = k
                     /\ \A c \in files : BucketKey(c, w) = k => c <= b
  <2>1. a \in files /\ P(a)
    BY <1>3
  <2>2. NewestOf(files, k, w) = CHOOSE b \in files : P(b)
    BY DEF NewestOf
  <2>3. ASSUME NEW b \in files, P(b) PROVE b = a
    <3>1. b <= a /\ a <= b
      BY <2>1, <2>3
    <3> QED BY <1>5, <2>1, <3>1
  <2> HIDE DEF P, k
  <2>4. (CHOOSE b \in files : P(b)) = a
    BY <2>1, <2>3
  <2> QED BY <2>2, <2>4 DEF k
<1>17. gained = {NewestOf(files, k, w) : k \in added}
  <2>1. added = {BucketKey(a, w) : a \in gained}
    BY <1>14, <1>15 DEF K, ReservedBuckets
  <2> QED BY <1>16, <2>1
<1>18. result = keep \cup {NewestOf(files, k, w) : k \in added}
  BY <1>3, <1>8, <1>17
<1>19. result \in SUBSET files
  BY <1>3, <1>8
<1>20. added \subseteq ReservedBuckets(result, w)
  BY <1>8, <1>15 DEF K, ReservedBuckets
<1> QED BY <1>18, <1>19, <1>20 DEF w, added, result

-----------------------------------------------------------------------------
(* The tiers one after the other, each on what the ones before it kept.      *)
LEMMA TierGrows ==
    ASSUME NEW files \in SUBSET Nat, IsFiniteSet(files),
           NEW keep \in SUBSET files, NEW tier \in TierType
    PROVE  /\ applyTier(files, keep, tier) \in SUBSET files
           /\ keep \subseteq applyTier(files, keep, tier)
<1> DEFINE result == applyTier(files, keep, tier)
           new == {NewestOf(files, k, tier.width) : k \in TierAdds(files, keep, tier)}
<1>1. result = keep \cup new /\ result \in SUBSET files
  BY TierKeeps
<1> HIDE DEF result, new
<1>2. result \in SUBSET files /\ keep \subseteq result
  BY <1>1
<1> QED BY <1>2 DEF result

(* t[i] is what the first i tiers keep. *)
TierSteps(files, tiers, n, t) ==
    /\ t \in [0 .. n -> SUBSET files]
    /\ t[0] = {}
    /\ \A i \in 1 .. n : t[i] = applyTier(files, t[i - 1], tiers[i])
TiersKeep(files, tiers) ==
    FoldLeft(LAMBDA keep, tier : applyTier(files, keep, tier), {}, tiers)

LEMMA TiersFold ==
    ASSUME NEW files \in SUBSET Nat, IsFiniteSet(files), NEW n \in Nat,
           NEW seq, DOMAIN seq = 1 .. n, \A i \in 1 .. n : seq[i] \in TierType
    PROVE  \E t : TierSteps(files, seq, n, t) /\ TiersKeep(files, seq) = t[n]
<1> DEFINE B == SUBSET files
           h == [x \in (1 .. n) \X B |-> applyTier(files, x[2], seq[x[1]])]
           Eq(g) == g = [s \in SUBSET (DOMAIN seq) |->
                            IF s = {} THEN {}
                            ELSE applyTier(files, g[s \ {Max(s)}], seq[Max(s)])]
           g0 == CHOOSE g : Eq(g)
<1>1. n \in Nat /\ DOMAIN seq = 1 .. n
  OBVIOUS
<1>2. TiersKeep(files, seq) = g0[DOMAIN seq]
  BY DEF TiersKeep, FoldLeft, MapThenFoldSet
<1>3. {} \in B
  OBVIOUS
<1>4. \A keep \in B : \A i \in 1 .. n : applyTier(files, keep, seq[i]) \in B
  BY TierGrows
<1> HIDE DEF B
<1>5. h \in [(1 .. n) \X B -> B]
  BY <1>4
<1>6. PICK f \in [SUBSET (1 .. n) -> B] : Folds(f, n, {}, h)
  <2> HIDE DEF h
  <2> QED BY <1>1, <1>3, <1>5, FoldExists
<1>7. Eq(f)
  <2>1. ASSUME NEW s \in SUBSET (1 .. n), s # {}
        PROVE  h[<<Max(s), f[s \ {Max(s)}]>>] = applyTier(files, f[s \ {Max(s)}], seq[Max(s)])
    <3>1. Max(s) \in 1 .. n /\ s \ {Max(s)} \in SUBSET (1 .. n)
      BY <1>1, <2>1, WithoutMax
    <3>2. f[s \ {Max(s)}] \in B
      BY <3>1
    <3> QED BY <3>1, <3>2
  <2> HIDE DEF h
  <2>2. f = [s \in SUBSET (1 .. n) |->
                IF s = {} THEN {} ELSE h[<<Max(s), f[s \ {Max(s)}]>>]]
    BY <1>6 DEF Folds
  <2>3. \A s \in SUBSET (1 .. n) :
           f[s] = IF s = {} THEN {} ELSE applyTier(files, f[s \ {Max(s)}], seq[Max(s)])
    BY <2>1, <2>2
  <2>4. f = [s \in SUBSET (1 .. n) |-> f[s]]
    OBVIOUS
  <2> QED BY <1>1, <2>3, <2>4
<1>8. Eq(g0)
  <2> HIDE DEF Eq
  <2> QED BY <1>7
<1>9. ASSUME NEW s \in SUBSET (1 .. n)
      PROVE  g0[s] = IF s = {} THEN {} ELSE applyTier(files, g0[s \ {Max(s)}], seq[Max(s)])
  <2> HIDE DEF g0
  <2> QED BY <1>1, <1>8
<1> HIDE DEF g0, Eq, h
<1> DEFINE t == [i \in 0 .. n |-> g0[1 .. i]]
<1>10. t[0] = {}
  <2>1. 1 .. 0 = {} /\ 0 \in 0 .. n
    BY <1>1
  <2> QED BY <1>9, <2>1
<1>11. ASSUME NEW i \in 1 .. n
       PROVE  t[i] = applyTier(files, t[i - 1], seq[i])
  <2>1. i \in Nat /\ i # 0 /\ i \in 0 .. n /\ i - 1 \in 0 .. n /\ i \in 1 .. i
    BY <1>1
  <2>2. 1 .. i \in SUBSET (1 .. n) /\ 1 .. i # {}
    BY <1>1, PrefixIn
  <2>3. Max(1 .. i) = i /\ (1 .. i) \ {i} = 1 .. i - 1
    BY <2>1, MaxOfPrefix
  <2>4. g0[1 .. i] = applyTier(files, g0[1 .. i - 1], seq[i])
    BY <1>9, <2>2, <2>3
  <2> QED BY <2>1, <2>4
<1>12. TiersKeep(files, seq) = t[n]
  BY <1>1, <1>2
<1>13. t \in [0 .. n -> B]
  <2> DEFINE I == {i \in 0 .. n : t[i] \in B}
  <2>1. t = [i \in 0 .. n |-> t[i]]
    OBVIOUS
  <2> HIDE DEF t
  <2>2. 0 \in I
    <3>1. 0 \in 0 .. n
      BY <1>1
    <3> QED BY <1>3, <1>10, <3>1
  <2>3. ASSUME NEW i \in 1 .. n, i - 1 \in I PROVE i \in I
    <3>1. i \in 0 .. n /\ t[i - 1] \in B
      BY <1>1, <2>3
    <3> QED BY <1>4, <1>11, <3>1
  <2> HIDE DEF I
  <2>4. 0 .. n \subseteq I
    BY <1>1, <2>2, <2>3, CountUp
  <2> QED BY <2>1, <2>4 DEF I
<1> HIDE DEF t
<1>14. TierSteps(files, seq, n, t)
  BY <1>10, <1>11, <1>13 DEF B, TierSteps
<1> QED BY <1>12, <1>14

LEMMA KeptByTiersFold ==
    ASSUME NEW files \in SUBSET Nat, IsFiniteSet(files),
           NEW tiers \in Seq(TierType), NEW n \in 0 .. Len(tiers)
    PROVE  \E t : TierSteps(files, tiers, n, t) /\ KeptByTiers(files, tiers, n) = t[n]
<1> DEFINE seq == SubSeq(tiers, 1, n)
<1>1. n \in Nat /\ \A i \in 1 .. n : i \in 1 .. Len(tiers) /\ tiers[i] \in TierType
  OBVIOUS
<1>2. DOMAIN seq = 1 .. n /\ \A i \in 1 .. n : seq[i] = tiers[i]
  OBVIOUS
<1>3. TiersKeep(files, seq) = KeptByTiers(files, tiers, n)
  BY DEF KeptByTiers, TiersKeep
<1> HIDE DEF seq
<1>4. \A i \in 1 .. n : seq[i] \in TierType
  BY <1>1, <1>2
<1>5. PICK t : TierSteps(files, seq, n, t) /\ TiersKeep(files, seq) = t[n]
  BY <1>1, <1>2, <1>4, TiersFold
<1>6. TierSteps(files, tiers, n, t)
  BY <1>2, <1>5 DEF TierSteps
<1> QED BY <1>3, <1>5, <1>6

LEMMA KeptByTiersStep ==
    ASSUME NEW files \in SUBSET Nat, IsFiniteSet(files), NEW tiers \in Seq(TierType)
    PROVE  /\ \A i \in 0 .. Len(tiers) : KeptByTiers(files, tiers, i) \in SUBSET files
           /\ \A i \in 1 .. Len(tiers) :
                 KeptByTiers(files, tiers, i)
                    = applyTier(files, KeptByTiers(files, tiers, i - 1), tiers[i])
<1> DEFINE kept(i) == KeptByTiers(files, tiers, i)
<1>1. Len(tiers) \in Nat
  OBVIOUS
<1> HIDE DEF kept
<1>2. ASSUME NEW i \in 0 .. Len(tiers) PROVE kept(i) \in SUBSET files
  <2>1. PICK t : TierSteps(files, tiers, i, t) /\ kept(i) = t[i]
    BY KeptByTiersFold DEF kept
  <2>2. i \in 0 .. i
    BY <1>1
  <2> QED BY <2>1, <2>2 DEF TierSteps
<1>3. ASSUME NEW i \in 1 .. Len(tiers) PROVE kept(i) = applyTier(files, kept(i - 1), tiers[i])
  <2>1. i \in Nat /\ i - 1 \in Nat /\ i \in 0 .. Len(tiers) /\ i - 1 \in 0 .. Len(tiers)
    BY <1>1
  <2>2. PICK t : TierSteps(files, tiers, i, t) /\ kept(i) = t[i]
    BY <2>1, KeptByTiersFold DEF kept
  <2>3. PICK u : TierSteps(files, tiers, i - 1, u) /\ kept(i - 1) = u[i - 1]
    BY <2>1, KeptByTiersFold DEF kept
  <2>4. i \in 1 .. i /\ i - 1 \in 0 .. i - 1 /\ \A j \in 1 .. i - 1 : j \in 1 .. i
    BY <2>1
  <2> DEFINE I == {j \in 0 .. i - 1 : t[j] = u[j]}
  <2>5. 0 \in I
    BY <2>1, <2>2, <2>3 DEF TierSteps
  <2>6. ASSUME NEW j \in 1 .. i - 1, j - 1 \in I PROVE j \in I
    <3>1. j \in 1 .. i /\ j \in 0 .. i - 1 /\ t[j - 1] = u[j - 1]
      BY <2>1, <2>6
    <3> QED BY <2>2, <2>3, <3>1 DEF TierSteps
  <2> HIDE DEF I
  <2>7. 0 .. i - 1 \subseteq I
    BY <2>1, <2>5, <2>6, CountUp
  <2>8. t[i - 1] = u[i - 1]
    BY <2>4, <2>7 DEF I
  <2>9. t[i] = applyTier(files, t[i - 1], tiers[i])
    BY <2>2, <2>4 DEF TierSteps
  <2> QED BY <2>2, <2>3, <2>8, <2>9
<1> QED BY <1>2, <1>3 DEF kept

(* What one tier keeps, the later ones keep too. *)
LEMMA TiersGrow ==
    ASSUME NEW files \in SUBSET Nat, IsFiniteSet(files), NEW tiers \in Seq(TierType),
           NEW i \in 0 .. Len(tiers)
    PROVE  KeptByTiers(files, tiers, i) \subseteq applySmartPolicy(files, tiers)
<1> DEFINE n == Len(tiers)
           I == {d \in 0 .. n - i :
                    KeptByTiers(files, tiers, i) \subseteq KeptByTiers(files, tiers, i + d)}
<1>1. n \in Nat /\ i \in Nat /\ n - i \in Nat /\ i + (n - i) = n
  OBVIOUS
<1>2. \A j \in 1 .. n : KeptByTiers(files, tiers, j - 1) \subseteq KeptByTiers(files, tiers, j)
  <2> SUFFICES ASSUME NEW j \in 1 .. n
               PROVE  KeptByTiers(files, tiers, j - 1) \subseteq KeptByTiers(files, tiers, j)
    OBVIOUS
  <2>1. j - 1 \in 0 .. n /\ tiers[j] \in TierType
    BY <1>1
  <2>2. KeptByTiers(files, tiers, j - 1) \in SUBSET files
    BY <2>1, KeptByTiersStep
  <2>3. KeptByTiers(files, tiers, j)
           = applyTier(files, KeptByTiers(files, tiers, j - 1), tiers[j])
    BY KeptByTiersStep
  <2>4. PICK tier \in TierType : tier = tiers[j]
    BY <2>1
  <2>5. PICK before \in SUBSET files : before = KeptByTiers(files, tiers, j - 1)
    BY <2>2
  <2>6. before \subseteq applyTier(files, before, tier)
    BY TierGrows
  <2> QED BY <2>3, <2>4, <2>5, <2>6
<1> HIDE DEF n
<1>3. 0 \in I
  BY <1>1
<1>4. ASSUME NEW d \in 1 .. n - i, d - 1 \in I PROVE d \in I
  <2>1. d \in 0 .. n - i /\ i + d \in 1 .. n /\ (i + d) - 1 = i + (d - 1)
    BY <1>1
  <2>2. KeptByTiers(files, tiers, i + (d - 1)) \subseteq KeptByTiers(files, tiers, i + d)
    BY <1>2, <2>1
  <2> QED BY <1>4, <2>1, <2>2
<1> HIDE DEF I
<1>5. 0 .. n - i \subseteq I
  BY <1>1, <1>3, <1>4, CountUp
<1>6. n - i \in I
  BY <1>1, <1>5
<1>7. KeptByTiers(files, tiers, i) \subseteq KeptByTiers(files, tiers, n)
  BY <1>1, <1>6 DEF I
<1> QED BY <1>7 DEF applySmartPolicy, n

=============================================================================
