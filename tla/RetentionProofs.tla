--------------------------- MODULE RetentionProofs ---------------------------
(***************************************************************************)
(* That retention deletes chains whole, that its tiers keep what the       *)
(* documentation says, and that the newest buckets survive however often   *)
(* it runs: for every policy, every bound and any pattern of locks. What   *)
(* the tiers keep does not matter to the chains, the step after them,      *)
(* protectIncompleteChains, does; to the tiers the chains do not matter,   *)
(* for that step only ever keeps more.                                     *)
(***************************************************************************)
EXTENDS RetentionHistory, RetentionLemmas, TLAPS

(* calculateRetention never deletes a locked file, and of a chain it        *)
(* deletes all files or none.                                               *)
LEMMA DeletesWhole ==
    ASSUME NEW files, NEW lock \in SUBSET files, NEW chain, NEW pol
    PROVE  LET D == calculateRetention(files, lock, chain, pol)
           IN  /\ D \subseteq files \ lock
               /\ \A a \in D, b \in files :
                     chain[a] = chain[b] /\ chain[a] # NoChain => b \in D
<1> DEFINE processing == files \ lock
           keep == IF pol.mode = "SIMPLE"
                   THEN applySimplePolicy(processing, pol.count)
                   ELSE applySmartPolicy(processing, pol.tiers)
           P == protectIncompleteChains(keep, lock \cap files, processing, chain)
           D == calculateRetention(files, lock, chain, pol)
<1>1. D = {} \/ D = processing \ P
  BY DEF calculateRetention
<1>2. D \subseteq files \ lock
  BY <1>1
<1>3. ASSUME NEW a \in D, NEW b \in files, chain[a] = chain[b], chain[a] # NoChain
      PROVE  b \in D
  <2>1. D = processing \ P /\ a \in processing /\ a \notin P
    BY <1>1, <1>3
  <2>2. \A k \in keep \cup lock : chain[k] # chain[a]
    <3> HIDE DEF keep
    <3> QED BY <2>1, <1>3 DEF protectIncompleteChains
  <2>3. b \in processing
    BY <2>2, <1>3
  <2>4. b \notin P
    <3> HIDE DEF keep
    <3> QED BY <2>2, <1>3 DEF protectIncompleteChains
  <2> QED BY <2>1, <2>3, <2>4
<1> HIDE DEF D
<1> QED BY <1>2, <1>3 DEF D

-----------------------------------------------------------------------------
Members(c) == {b \in ever : chainOf[b] = c}

(* A chain is named by the time of its full, so a new one has no members. *)
ChainsStartFirst == \A b \in Time : chainOf[b] <= b

IInv == HistoryTypeOK /\ ChainsStartFirst /\ ChainsDeletedWhole

LEMMA InitIInv == HistoryInit => IInv
  BY HistoryAssumption DEF HistoryInit, IInv, HistoryTypeOK, ChainsStartFirst, ChainsDeletedWhole, Time, NoChain

LEMMA BackupIInv ==
    ASSUME IInv, Backup
    PROVE  IInv'
<1> USE DEF IInv
<1>1. MaxTime \in Nat /\ now \in Nat /\ now' \in Time /\ now' = now + 1 /\ now' \notin ever
  BY HistoryAssumption DEF Backup, HistoryTypeOK, Time
<1>2. PICK c \in PossibleChains(now') :
        /\ chainOf' = [chainOf EXCEPT ![now'] = c]
        /\ ever' = ever \cup {now'}
        /\ present' = (present \cup {now'})
                        \ calculateRetention(present \cup {now'}, locks, chainOf', policy)
  BY DEF Backup
<1>3. c \in 0 .. MaxTime /\ c <= now'
  BY <1>1, <1>2 DEF PossibleChains, HistoryTypeOK, ChainsStartFirst, Time, NoChain
<1> DEFINE files == present \cup {now'}
           D == calculateRetention(files, locks, chainOf', policy)
<1>4. locks \in SUBSET files
  BY DEF HistoryTypeOK
<1>5. /\ D \subseteq files \ locks
      /\ \A a \in D, b \in files :
            chainOf'[a] = chainOf'[b] /\ chainOf'[a] # NoChain => b \in D
  <2> HIDE DEF files
  <2> QED BY <1>4, DeletesWhole
<1> HIDE DEF D
<1>6. HistoryTypeOK'
  <2>1. present' = files \ D
    BY <1>2 DEF D
  <2>2. chainOf' \in [Time -> 0 .. MaxTime]
    BY <1>2, <1>3 DEF HistoryTypeOK
  <2>3. locks' = locks /\ policy' = policy
    BY DEF Backup
  <2>4. now' \in 0 .. MaxTime /\ ever' \subseteq 1 .. now'
    BY <1>1, <1>2 DEF HistoryTypeOK, Time
  <2>5. locks' \subseteq present' /\ present' \subseteq ever'
    BY <1>2, <1>4, <1>5, <2>1, <2>3 DEF HistoryTypeOK
  <2>6. policy' \in Policies
    BY <2>3 DEF HistoryTypeOK
  <2> QED BY <2>2, <2>4, <2>5, <2>6 DEF HistoryTypeOK
<1>7. ChainsStartFirst'
  BY <1>1, <1>2, <1>3 DEF ChainsStartFirst, HistoryTypeOK, Time
<1>8. ASSUME NEW k \in Time
      PROVE  Members(k)' \subseteq files \/ Members(k)' \cap files = {}
  <2>1. \A b \in ever : chainOf'[b] = chainOf[b]
    BY <1>1, <1>2 DEF HistoryTypeOK, Time
  <2>2. chainOf'[now'] = c
    BY <1>1, <1>2 DEF HistoryTypeOK
  <2>3. CASE c # k
    <3>1. Members(k)' = Members(k)
      BY <1>2, <2>1, <2>2, <2>3 DEF Members
    <3> QED BY <3>1, <1>1 DEF ChainsDeletedWhole, Members
  <2>4. CASE c = k /\ c = now'
    <3>1. \A b \in ever : b \in Time /\ b < now'
      BY <1>1 DEF HistoryTypeOK, Time
    <3>2. \A b \in ever : chainOf'[b] <= b /\ chainOf'[b] \in Nat
      BY <2>1, <3>1 DEF ChainsStartFirst, HistoryTypeOK, Time
    <3>3. \A b \in ever : chainOf'[b] # k
      BY <1>1, <2>4, <3>1, <3>2 DEF Time
    <3>4. Members(k)' \subseteq {now'}
      BY <1>2, <3>3 DEF Members
    <3> QED BY <3>4
  <2>5. CASE c = k /\ c # now'
    <3>1. PICK b \in present : chainOf[b] = c
      BY <1>2, <2>5 DEF PossibleChains, Time, NoChain
    <3>2. Members(k) \subseteq present
      BY <3>1, <2>5 DEF ChainsDeletedWhole, Members, HistoryTypeOK
    <3>3. Members(k)' \subseteq Members(k) \cup {now'}
      BY <1>2, <2>1 DEF Members
    <3> QED BY <3>2, <3>3
  <2> QED BY <2>3, <2>4, <2>5
<1>9. ASSUME NEW k \in Time
      PROVE  Members(k)' \subseteq present' \/ Members(k)' \cap present' = {}
  <2>1. present' = files \ D
    BY <1>2 DEF D
  <2>2. \A a, b \in Members(k)' : chainOf'[a] = chainOf'[b] /\ chainOf'[a] # NoChain
    BY DEF Members, Time, NoChain
  <2> HIDE DEF files
  <2> QED BY <1>5, <1>8, <2>1, <2>2
<1>10. ChainsDeletedWhole'
  BY <1>9 DEF ChainsDeletedWhole, Members, Time
<1> QED BY <1>6, <1>7, <1>10

LEMMA OtherIInv ==
    ASSUME IInv, Skip \/ (\E b \in Time : setLocked(b)) \/ UNCHANGED historyVars
    PROVE  IInv'
<1> USE DEF IInv
<1>1. CASE Skip
  <2>1. HistoryTypeOK'
    BY <1>1, HistoryAssumption DEF Skip, HistoryTypeOK
  <2>2. ChainsStartFirst' /\ ChainsDeletedWhole'
    BY <1>1 DEF Skip, ChainsStartFirst, ChainsDeletedWhole, Time
  <2> QED BY <2>1, <2>2
<1>2. CASE \E b \in Time : setLocked(b)
  <2>1. HistoryTypeOK'
    BY <1>2 DEF setLocked, HistoryTypeOK
  <2>2. ChainsStartFirst' /\ ChainsDeletedWhole'
    BY <1>2 DEF setLocked, ChainsStartFirst, ChainsDeletedWhole, Time
  <2> QED BY <2>1, <2>2
<1>3. CASE UNCHANGED historyVars
  BY <1>3 DEF historyVars, HistoryTypeOK, ChainsStartFirst, ChainsDeletedWhole, Time
<1> QED BY <1>1, <1>2, <1>3

(* The inductive invariant holds in every reachable state. *)
THEOREM RetentionInvariance == HistorySpec => []IInv
<1>1. IInv /\ [HistoryNext]_historyVars => IInv'
  BY BackupIInv, OtherIInv DEF HistoryNext
<1> QED BY InitIInv, <1>1, PTL DEF HistorySpec

(* However often retention runs and whatever is locked or unlocked between  *)
(* two runs, a chain is on the destination whole or not at all              *)
(* (protectIncompleteChains).                                               *)
THEOREM WholeChains == HistorySpec => []ChainsDeletedWhole
  BY RetentionInvariance, PTL DEF IInv

(* Every variable keeps its type; in particular retention never deletes a   *)
(* backup that is locked (calculateRetention).                              *)
THEOREM RetentionTypes == HistorySpec => []HistoryTypeOK
  BY RetentionInvariance, PTL DEF IInv

-----------------------------------------------------------------------------
(* The types the lemmas on the tiers ask for. *)
LEMMA TypedHistory ==
    ASSUME HistoryTypeOK
    PROVE  /\ policy.tiers \in Seq(TierType)
           /\ ever \in SUBSET Nat /\ IsFiniteSet(ever)
           /\ present \in SUBSET ever /\ locks \in SUBSET present
           /\ now \in Nat /\ \A b \in ever : b <= now
<1>1. policy.tiers \in Seq(TierType)
  BY HistoryAssumption DEF HistoryTypeOK, TierType
<1>2. now \in Nat /\ ever \in SUBSET (1 .. now)
  BY HistoryAssumption DEF HistoryTypeOK
<1>3. IsFiniteSet(1 .. now)
  BY <1>2, FS_Interval
<1>4. IsFiniteSet(ever)
  BY <1>2, <1>3, FS_Subset
<1>5. ever \in SUBSET Nat /\ \A b \in ever : b <= now
  BY <1>2
<1> QED BY <1>1, <1>2, <1>4, <1>5 DEF HistoryTypeOK

LEMMA TiersDocumented ==
    ASSUME HistoryTypeOK
    PROVE  TiersAsDocumented
<1> DEFINE files == present \ locks
           tiers == policy.tiers
<1>1. files \in SUBSET Nat /\ IsFiniteSet(files) /\ tiers \in Seq(TierType)
  BY TypedHistory, FS_Subset
<1> HIDE DEF files, tiers
<1>2. ASSUME NEW i \in DOMAIN tiers
      PROVE  LET t == tiers[i]
                 before == KeptByTiers(files, tiers, i - 1)
             IN  KeptByTiers(files, tiers, i) =
                    before \cup {NewestOf(files, k, t.width) : k \in TierAdds(files, before, t)}
  <2>1. i \in 1 .. Len(tiers) /\ i - 1 \in 0 .. Len(tiers) /\ tiers[i] \in TierType
    BY <1>1
  <2>2. KeptByTiers(files, tiers, i - 1) \in SUBSET files
    BY <1>1, <2>1, KeptByTiersStep
  <2>3. KeptByTiers(files, tiers, i)
           = applyTier(files, KeptByTiers(files, tiers, i - 1), tiers[i])
    BY <1>1, <2>1, KeptByTiersStep
  <2>4. PICK tier \in TierType : tier = tiers[i]
    BY <2>1
  <2>5. PICK before \in SUBSET files : before = KeptByTiers(files, tiers, i - 1)
    BY <2>2
  <2>6. applyTier(files, before, tier) =
           before \cup {NewestOf(files, k, tier.width) : k \in TierAdds(files, before, tier)}
    BY <1>1, TierKeeps
  <2> QED BY <2>3, <2>4, <2>5, <2>6
<1> QED BY <1>2 DEF TiersAsDocumented, files, tiers, NewestOf, TierAdds, TierOpens,
                    Buckets, ReservedBuckets

(* At every point of a history each tier of the policy keeps exactly what   *)
(* the documentation says it does: the newest backup of each of the next    *)
(* buckets that have one, as many as its limit, and nothing else            *)
(* (applyTier).                                                             *)
THEOREM TiersDoWhatIsSaid == HistorySpec => []TiersAsDocumented
  BY RetentionTypes, TiersDocumented, PTL

(* A run of retention leaves every bucket a tier wants that has a file. *)
LEMMA RetentionLeaves ==
    ASSUME NEW files \in SUBSET Nat, IsFiniteSet(files), NEW lock \in SUBSET files,
           NEW chain, NEW pol, pol.mode = "SMART", pol.tiers \in Seq(TierType),
           NEW i \in DOMAIN pol.tiers,
           NEW k \in ReservedBuckets(files, pol.tiers[i].width),
           Cardinality({j \in ReservedBuckets(files, pol.tiers[i].width) : j > k})
              < pol.tiers[i].limit
    PROVE  k \in ReservedBuckets(files \ calculateRetention(files, lock, chain, pol),
                                 pol.tiers[i].width)
<1> DEFINE tiers == pol.tiers
           tier == tiers[i]
           w == tier.width
           processing == files \ lock
           keep == applySmartPolicy(processing, tiers)
           before == KeptByTiers(processing, tiers, i - 1)
           left == files \ calculateRetention(files, lock, chain, pol)
           Above(S) == {j \in S : j > k}
<1>1. tiers \in Seq(TierType) /\ i \in 1 .. Len(tiers) /\ i \in 0 .. Len(tiers)
      /\ i - 1 \in 0 .. Len(tiers) /\ tier \in TierType
  OBVIOUS
<1>2. processing \in SUBSET Nat /\ IsFiniteSet(processing)
  BY FS_Subset
<1>3. lock \subseteq left /\ keep \cap files \subseteq left
  <2> DEFINE protected == protectIncompleteChains(keep, lock \cap files, processing, chain)
  <2>1. left = files \ (processing \ protected)
    BY DEF calculateRetention
  <2>2. keep \subseteq protected
    <3> HIDE DEF keep
    <3> QED BY DEF protectIncompleteChains
  <2> HIDE DEF left, keep, protected
  <2> QED BY <2>1, <2>2
<1>4. k \in ReservedBuckets(files, w) /\ Cardinality(Above(ReservedBuckets(files, w))) < tier.limit
  OBVIOUS
<1>5. IsFiniteSet(ReservedBuckets(files, w))
  BY BucketsFinite
<1> HIDE DEF left
<1> SUFFICES k \in ReservedBuckets(left, w)
  BY DEF left
<1> HIDE DEF tiers, tier, w, processing, keep, before, Above
<1>6. PICK b \in files : k = BucketKey(b, w)
  BY <1>4 DEF ReservedBuckets
<1>7. before \in SUBSET processing
      /\ KeptByTiers(processing, tiers, i) = applyTier(processing, before, tier)
  BY <1>1, <1>2, KeptByTiersStep DEF before, tier
<1>8. before \subseteq keep /\ KeptByTiers(processing, tiers, i) \subseteq keep
  BY <1>1, <1>2, TiersGrow DEF before, keep
<1>9. /\ TierAdds(processing, before, tier)
            \subseteq ReservedBuckets(KeptByTiers(processing, tiers, i), w)
      /\ KeptByTiers(processing, tiers, i) \in SUBSET processing
  <2>1. PICK t \in TierType : t = tier
    BY <1>1
  <2>2. /\ applyTier(processing, before, t) \in SUBSET processing
        /\ TierAdds(processing, before, t)
              \subseteq ReservedBuckets(applyTier(processing, before, t), t.width)
    BY <1>2, <1>7, TierKeeps
  <2> QED BY <1>7, <2>1, <2>2 DEF w
<1>10. before \subseteq left /\ KeptByTiers(processing, tiers, i) \subseteq left
  BY <1>3, <1>7, <1>8, <1>9 DEF processing
<1>11. CASE b \in lock
  BY <1>3, <1>6, <1>11 DEF ReservedBuckets
<1>12. CASE k \in ReservedBuckets(before, w)
  BY <1>10, <1>12 DEF ReservedBuckets
<1>13. CASE b \notin lock /\ k \notin ReservedBuckets(before, w)
  <2> DEFINE new == TierOpens(processing, before, tier)
  <2>1. k \in new
    BY <1>6, <1>13 DEF TierOpens, ReservedBuckets, processing, w
  <2>2. Above(new) \in SUBSET Above(ReservedBuckets(files, w))
    BY DEF TierOpens, ReservedBuckets, processing, w, Above
  <2>3. /\ IsFiniteSet(Above(ReservedBuckets(files, w)))
        /\ Cardinality(Above(ReservedBuckets(files, w))) \in Nat
    BY <1>5, FS_Subset, FS_CardinalityType DEF Above
  <2>4. Cardinality(Above(new)) <= Cardinality(Above(ReservedBuckets(files, w)))
        /\ IsFiniteSet(Above(new))
    BY <2>2, <2>3, FS_Subset
  <2>5. Cardinality(Above(new)) \in Nat /\ tier.limit \in Nat
    BY <1>1, <2>4, FS_CardinalityType DEF TierType
  <2>6. Cardinality(Above(new)) < tier.limit
    BY <1>4, <2>3, <2>4, <2>5
  <2>7. k \in TierAdds(processing, before, tier)
    BY <2>1, <2>6 DEF TierAdds, Above
  <2>8. k \in ReservedBuckets(KeptByTiers(processing, tiers, i), w)
    BY <1>9, <2>7
  <2> QED BY <1>10, <2>8 DEF ReservedBuckets
<1> QED BY <1>11, <1>12, <1>13

LEMMA BackupLeaves ==
    ASSUME HistoryTypeOK, NewestBucketsSurvive, Backup
    PROVE  NewestBucketsSurvive'
<1> SUFFICES ASSUME policy.mode = "SMART", NEW i \in DOMAIN policy.tiers,
                    NEW k \in NewestBuckets(ever', policy.tiers[i].width, policy.tiers[i].limit)
             PROVE  k \in Buckets(present', policy.tiers[i].width)
  BY DEF NewestBucketsSurvive, Backup
<1> DEFINE w == policy.tiers[i].width
           limit == policy.tiers[i].limit
           files == present \cup {now'}
           Above(S) == {j \in S : j > k}
<1>1. ever' = ever \cup {now'} /\ now' \in Nat
      /\ present' = files \ calculateRetention(files, locks, chainOf', policy)
  BY TypedHistory DEF Backup
<1>2. policy.tiers \in Seq(TierType) /\ w \in Nat \ {0} /\ limit \in Nat
  <2>1. policy.tiers \in Seq(TierType)
    BY TypedHistory
  <2>2. policy.tiers[i] \in TierType
    BY <2>1
  <2> QED BY <2>1, <2>2 DEF TierType
<1>3. ever' \in SUBSET Nat /\ IsFiniteSet(ever')
  BY <1>1, TypedHistory, FS_AddElement
<1>4. files \in SUBSET ever' /\ locks \in SUBSET files
  BY <1>1, TypedHistory
<1>5. IsFiniteSet(files) /\ files \in SUBSET Nat
  BY <1>3, <1>4, FS_Subset
<1>6. IsFiniteSet(ReservedBuckets(ever', w))
  BY <1>3, BucketsFinite
<1>7. k \in ReservedBuckets(ever', w) /\ Cardinality(Above(ReservedBuckets(ever', w))) < limit
  BY DEF NewestBuckets, Buckets, ReservedBuckets
<1> HIDE DEF w, limit, files, Above
<1>8. ASSUME NEW S \in SUBSET ReservedBuckets(ever', w)
      PROVE  Cardinality(Above(S)) < limit
  <2>1. Above(S) \in SUBSET Above(ReservedBuckets(ever', w))
        /\ Above(ReservedBuckets(ever', w)) \in SUBSET ReservedBuckets(ever', w)
    BY DEF Above
  <2>2. IsFiniteSet(Above(ReservedBuckets(ever', w)))
    BY <1>6, <2>1, FS_Subset
  <2>3. Cardinality(Above(S)) <= Cardinality(Above(ReservedBuckets(ever', w)))
        /\ IsFiniteSet(Above(S))
    BY <2>1, <2>2, FS_Subset
  <2>4. Cardinality(Above(S)) \in Nat /\ Cardinality(Above(ReservedBuckets(ever', w))) \in Nat
    BY <2>2, <2>3, FS_CardinalityType
  <2> QED BY <1>2, <1>7, <2>3, <2>4
<1>9. k \in ReservedBuckets(files, w)
  <2>1. CASE k = BucketKey(now', w)
    BY <2>1 DEF files, ReservedBuckets
  <2>2. CASE k # BucketKey(now', w)
    <3>1. k \in ReservedBuckets(ever, w)
      BY <1>1, <1>7, <2>2 DEF ReservedBuckets
    <3>2. ReservedBuckets(ever, w) \in SUBSET ReservedBuckets(ever', w)
      BY <1>1 DEF ReservedBuckets
    <3>3. Cardinality(Above(ReservedBuckets(ever, w))) < limit
      BY <1>8, <3>2
    <3>4. k \in NewestBuckets(ever, w, limit)
      BY <3>1, <3>3 DEF NewestBuckets, Buckets, ReservedBuckets, Above
    <3>5. k \in Buckets(present, w)
      BY <3>4 DEF NewestBucketsSurvive, w, limit
    <3> QED BY <3>5 DEF Buckets, ReservedBuckets, files
  <2> QED BY <2>1, <2>2
<1>10. ReservedBuckets(files, w) \in SUBSET ReservedBuckets(ever', w)
  BY <1>4 DEF ReservedBuckets
<1>11. Cardinality(Above(ReservedBuckets(files, w))) < limit
  BY <1>8, <1>10
<1>12. k \in ReservedBuckets(files \ calculateRetention(files, locks, chainOf', policy), w)
  BY <1>2, <1>4, <1>5, <1>9, <1>11, RetentionLeaves DEF w, limit, Above
<1> QED BY <1>1, <1>12 DEF Buckets, ReservedBuckets, w

(* Of the newest buckets that ever had a backup, as many as a tier says     *)
(* still have one, however often retention has run on what it left and      *)
(* whatever was locked in between (calculateRetention).                     *)
THEOREM NewestBucketsKept == HistorySpec => []NewestBucketsSurvive
<1>1. HistoryInit => NewestBucketsSurvive
  BY DEF HistoryInit, NewestBucketsSurvive, NewestBuckets, Buckets
<1>2. ASSUME NewestBucketsSurvive, Skip \/ (\E b \in Time : setLocked(b)) \/ UNCHANGED historyVars
      PROVE  NewestBucketsSurvive'
  <2>1. policy' = policy /\ ever' = ever /\ present' = present
    BY <1>2 DEF Skip, setLocked, historyVars
  <2> QED BY <1>2, <2>1 DEF NewestBucketsSurvive
<1>3. HistoryTypeOK /\ NewestBucketsSurvive /\ [HistoryNext]_historyVars => NewestBucketsSurvive'
  BY <1>2, BackupLeaves DEF HistoryNext
<1> QED BY <1>1, <1>3, RetentionTypes, PTL DEF HistorySpec

=============================================================================
