-------------------------- MODULE RetentionHistory --------------------------
(***************************************************************************)
(* A destination under one retention policy over time: a job that uploads  *)
(* a backup and applies retention at its end, or is not run, and a user    *)
(* who locks and unlocks backups.                                          *)
(***************************************************************************)
EXTENDS Retention

CONSTANTS
    MaxTime,    \* bound: points of time at which the job may run
    MaxLocked,  \* bound: backups locked at once
    Policies    \* the policies explored, each from the start

ASSUME HistoryAssumption ==
    /\ MaxTime \in Nat /\ MaxLocked \in Nat
    /\ \A p \in Policies : /\ p.count \in Nat
                           /\ p.tiers \in Seq([limit : Nat, width : Nat \ {0}])

VARIABLES
    now,       \* the current time
    policy,
    ever,      \* every backup uploaded so far
    present,    \* those of them that are on the destination
    locks,     \* those of them that are locked
    chainOf    \* the chain of every backup: the time of its full, or NoChain

historyVars == <<now, policy, ever, present, locks, chainOf>>

Time == 1 .. MaxTime

HistoryTypeOK ==
    /\ now \in 0 .. MaxTime
    /\ policy \in Policies
    /\ locks \subseteq present /\ present \subseteq ever /\ ever \subseteq 1 .. now
    /\ chainOf \in [Time -> 0 .. MaxTime]

HistoryInit ==
    /\ now = 0
    /\ policy \in Policies
    /\ ever = {} /\ present = {} /\ locks = {}
    /\ chainOf = [t \in Time |-> NoChain]

(* The chain a run at time t writes to: none, a new one or the latest.  *)
(* The planner goes on with a chain only while its members are present. *)
PossibleChains(t) ==
    {NoChain, t} \cup {chainOf[b] : b \in {b \in present : \A c \in ever : c <= b}}

(* stepUpload and stepRetention: the new backup is judged with the rest. *)
Backup ==
    /\ now < MaxTime
    /\ now' = now + 1
    /\ \E c \in PossibleChains(now') :
         /\ chainOf' = [chainOf EXCEPT ![now'] = c]
         /\ ever' = ever \cup {now'}
         /\ LET files == present \cup {now'}
            IN  present' = files \ calculateRetention(files, locks, chainOf', policy)
    /\ UNCHANGED <<policy, locks>>

Skip ==
    /\ now < MaxTime
    /\ now' = now + 1
    /\ UNCHANGED <<policy, ever, present, locks, chainOf>>

setLocked(b) ==
    /\ b \in present
    /\ \/ b \in locks /\ locks' = locks \ {b}
       \/ /\ b \notin locks
          /\ Cardinality(locks) < MaxLocked
          /\ locks' = locks \cup {b}
    /\ UNCHANGED <<now, policy, ever, present, chainOf>>

HistoryNext == Backup \/ Skip \/ \E b \in Time : setLocked(b)

HistorySpec == HistoryInit /\ [][HistoryNext]_historyVars

-----------------------------------------------------------------------------
Buckets(files, width) == {BucketKey(b, width) : b \in files}

NewestBuckets(files, width, n) ==
    LET all == Buckets(files, width)
    IN  {k \in all : Cardinality({j \in all : j > k}) < n}

(* What the user counts on: of the newest days (hours, weeks ...) that ever *)
(* had a backup, as many as the tier says still have one, however many runs *)
(* have applied the policy since and whatever was locked in between: no run *)
(* deletes the file a coarser tier or a later run still needs (applyTier,   *)
(* applied again and again to what it left).                                *)
NewestBucketsSurvive ==
    policy.mode = "SMART" =>
        \A i \in DOMAIN policy.tiers :
            LET t == policy.tiers[i]
            IN  NewestBuckets(ever, t.width, t.limit) \subseteq Buckets(present, t.width)

(* One greedy tier keeps what the documentation says: the newest backup of  *)
(* each of the next N buckets that have one, and nothing else (applyTier    *)
(* against docs/user-guide/jobs/retention.md, "How It Works").              *)
TiersAsDocumented ==
    LET files == present \ locks
        New(keep, t) == Buckets(files, t.width) \ Buckets(keep, t.width)
        Added(keep, t) == {k \in New(keep, t) :
                              Cardinality({j \in New(keep, t) : j > k}) < t.limit}
        Representative(k, w) == CHOOSE b \in files : /\ BucketKey(b, w) = k
                                                     /\ \A c \in files : BucketKey(c, w) = k => c <= b
    IN  \A i \in DOMAIN policy.tiers :
            LET t == policy.tiers[i]
                before == KeptByTiers(files, policy.tiers, i - 1)
            IN  KeptByTiers(files, policy.tiers, i) =
                    before \cup {Representative(k, t.width) : k \in Added(before, t)}

(* A chain is deleted whole or not at all, also when a lock comes or goes   *)
(* between two runs (protectIncompleteChains).                              *)
ChainsDeletedWhole ==
    \A c \in Time : LET members == {b \in ever : chainOf[b] = c}
                    IN  members \subseteq present \/ members \cap present = {}

=============================================================================
