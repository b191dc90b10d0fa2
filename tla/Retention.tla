------------------------------ MODULE Retention ------------------------------
(***************************************************************************)
(* RetentionService.calculateRetention: which backups of a destination a   *)
(* policy deletes. A backup is named by the time it is judged by           *)
(* (effectiveBackupTime), a natural number: no two have the same one.      *)
(*                                                                         *)
(* A policy is [mode, count, tiers]: tiers is the sequence of the Smart    *)
(* tiers, finest first, each with its limit and the width of its buckets.  *)
(***************************************************************************)
EXTENDS Naturals, FiniteSets, Sequences, SequencesExt

(* A backup outside every chain has this for its chain. *)
NoChain == 0

BucketKey(b, width) == b \div width

(* With the comparison the other way round. *)
OldestFirst(files) ==
    [i \in 1 .. Cardinality(files) |->
        CHOOSE b \in files : Cardinality({c \in files : c < b}) = i - 1]

(* Every tier takes the first file of a bucket, hence the newest. *)
NewestFirst(files) ==
    [i \in 1 .. Cardinality(files) |->
        CHOOSE b \in files : Cardinality({c \in files : c > b}) = i - 1]

applySimplePolicy(files, count) ==
    LET sorted == NewestFirst(files)
    IN  {sorted[i] : i \in {i \in DOMAIN sorted : i <= count}}

(* With buckets that are reserved only within their own tier. *)
FreshBuckets(keep, width) == {}

(* Existing keeps from earlier tiers reserve their bucket in this tier. *)
ReservedBuckets(keep, width) == {BucketKey(b, width) : b \in keep}

(* One pass over the files, newest first, until the tier is full. *)
applyTier(files, keep, tier) ==
    LET take(t, b) ==
            IF \/ b \in t.keep
               \/ BucketKey(b, tier.width) \in t.used
               \/ t.kept >= tier.limit
            THEN t
            ELSE [keep |-> t.keep \cup {b},
                  used |-> t.used \cup {BucketKey(b, tier.width)},
                  kept |-> t.kept + 1]
        start == [keep |-> keep, used |-> ReservedBuckets(keep, tier.width), kept |-> 0]
    IN  FoldLeft(take, start, NewestFirst(files)).keep

(* What the tiers up to and including the i-th one keep. *)
KeptByTiers(files, tiers, i) ==
    FoldLeft(LAMBDA keep, tier : applyTier(files, keep, tier), {}, SubSeq(tiers, 1, i))

applySmartPolicy(files, tiers) == KeptByTiers(files, tiers, Len(tiers))

(* With a lock that keeps its own file only. *)
protectKeptChains(keep, locked, files, chainOf) ==
    keep \cup {b \in files : /\ chainOf[b] # NoChain
                             /\ \E k \in keep : chainOf[k] = chainOf[b]}

(* A kept or a locked member keeps its whole chain. *)
protectIncompleteChains(keep, locked, files, chainOf) ==
    keep \cup {b \in files : /\ chainOf[b] # NoChain
                             /\ \E k \in keep \cup locked : chainOf[k] = chainOf[b]}

(* With locked files that count and expire like the others. *)
judgeLockedToo(files, locked, chainOf, policy) ==
    LET keep == IF policy.mode = "SIMPLE"
                THEN applySimplePolicy(files, policy.count)
                ELSE applySmartPolicy(files, policy.tiers)
    IN  files \ protectIncompleteChains(keep, {}, files, chainOf)

(* The files to delete; a policy that cannot be read deletes nothing. *)
calculateRetention(files, locked, chainOf, policy) ==
    LET processing == files \ locked
        keep == IF policy.mode = "SIMPLE"
                THEN applySimplePolicy(processing, policy.count)
                ELSE applySmartPolicy(processing, policy.tiers)
    IN  IF policy.mode \notin {"SIMPLE", "SMART"} THEN {}
        ELSE processing \ protectIncompleteChains(keep, locked \cap files, processing, chainOf)

=============================================================================
