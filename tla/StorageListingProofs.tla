------------------------ MODULE StorageListingProofs ------------------------
(***************************************************************************)
(* The state types of StorageListing, that no backup loses its sidecar     *)
(* while it is on the destination, and that a listing which only ever saw  *)
(* one operation at a time is the destination: for any files, any number   *)
(* of operations in flight and any kinds of operation.                     *)
(***************************************************************************)
EXTENDS StorageListing, FiniteSetTheorems, TLAPS

(* An operation goes through the steps of its kind, and the steps that      *)
(* touch one file have one.                                                 *)
LockOps == {"lock", "unlock", "toggle"}
DeleteOps == {"delete", "deleteOne"}
PatchOps == {"upload", "verify", "remove"} \cup DeleteOps \cup LockOps
FileSteps == {"uploading", "writeLock", "deleteSidecar", "writeVerified", "expireSidecar"}
Shape(st) ==
    /\ st.step \in FileSteps \/ st.op = "upload" => st.file \in File
    /\ st.step = "uploading" => st.op = "upload"
    /\ st.step \in {"readLock", "writeLock"} => st.op \in LockOps
    /\ st.step = "writeVerified" => st.op = "verify"
    /\ st.step \in {"delete", "deleteSidecar"} => st.op \in DeleteOps
    /\ st.step = "listForDelete" => st.op = "delete"
    /\ st.step \in {"list", "enrich", "upsert"} => st.op \in {"delete", "refresh", "warmup"}
    /\ st.step = "patch" => st.op \in PatchOps
StateOk(st) == st \in TaskState /\ Shape(st)
TypeInv == TypeOK /\ \A t \in Task : Shape(task[t])

-----------------------------------------------------------------------------
(* A listing is a function from paths to what their sidecars say. *)
LEMMA InListing ==
    ASSUME NEW S \in SUBSET File, NEW r \in [S -> Metadata]
    PROVE  r \in Listing
BY DEF Listing

LEMMA OfListing ==
    ASSUME NEW r \in Listing
    PROVE  DOMAIN r \subseteq File /\ r \in [DOMAIN r -> Metadata]
BY DEF Listing

(* What writing entries and dropping entries do to it. *)
LEMMA OverlayType ==
    ASSUME NEW r \in Listing, NEW n \in Listing
    PROVE  Overlay(n, r) \in Listing
<1>1. /\ DOMAIN r \cup DOMAIN n \in SUBSET File
      /\ r \in [DOMAIN r -> Metadata] /\ n \in [DOMAIN n -> Metadata]
  BY OfListing
<1>2. Overlay(n, r) \in [DOMAIN n \cup DOMAIN r -> Metadata]
  BY <1>1 DEF Overlay
<1> QED
  BY <1>1, <1>2, InListing

LEMMA EntryType ==
    ASSUME NEW f \in File, NEW m \in Metadata
    PROVE  [g \in {f} |-> m] \in Listing
<1>1. {f} \in SUBSET File /\ [g \in {f} |-> m] \in [{f} -> Metadata]
  OBVIOUS
<1> QED
  BY <1>1, InListing

LEMMA RestrictType ==
    ASSUME NEW r \in Listing, NEW S
    PROVE  /\ Restrict(r, DOMAIN r \ S) \in Listing
           /\ Restrict(r, DOMAIN r \cap S) \in Listing
<1>1. DOMAIN r \subseteq File /\ r \in [DOMAIN r -> Metadata]
  BY OfListing
<1>2. Restrict(r, DOMAIN r \ S) \in [DOMAIN r \ S -> Metadata]
  BY <1>1 DEF Restrict
<1>3. Restrict(r, DOMAIN r \cap S) \in [DOMAIN r \cap S -> Metadata]
  BY <1>1 DEF Restrict
<1> QED
  BY <1>1, <1>2, <1>3, InListing

LEMMA PlainTypes == Plain \in Metadata /\ EmptyListing \in Listing
<1>1. Plain \in Metadata
  BY DEF Plain, Metadata
<1>2. EmptyListing \in [{} -> Metadata]
  BY DEF EmptyListing
<1> QED
  BY <1>1, <1>2, InListing

LEMMA EnrichType ==
    ASSUME TypeOK, NEW S \in SUBSET File
    PROVE  /\ \A f \in File : enrich(f) \in Metadata
           /\ [f \in S |-> enrich(f)] \in Listing
<1>1. sidecar \in [DOMAIN sidecar -> Metadata]
  BY OfListing DEF TypeOK
<1>2. \A f \in File : enrich(f) \in Metadata
  BY <1>1, PlainTypes DEF enrich, HasSidecar
<1>3. [f \in S |-> enrich(f)] \in [S -> Metadata]
  BY <1>2
<1> QED
  BY <1>2, <1>3, InListing

LEMMA SidecarType ==
    ASSUME TypeOK, NEW f, HasSidecar(f)
    PROVE  f \in File /\ sidecar[f] \in Metadata
BY OfListing DEF TypeOK, HasSidecar

LEMMA SidecarWrites ==
    ASSUME TypeOK, NEW f \in File
    PROVE  /\ \A m \in Metadata : PutSidecar(f, m) => sidecar' \in Listing
           /\ RemoveSidecar(f) => sidecar' \in Listing
BY OverlayType, EntryType, RestrictType DEF TypeOK, PutSidecar, RemoveSidecar

LEMMA CacheTypes ==
    /\ \A rows \in Listing : Current(rows) \in Cache
    /\ NoCache \in Cache
BY PlainTypes DEF Current, NoCache, Cache

LEMMA IdleType == StateOk(Idle)
BY PlainTypes DEF StateOk, Shape, FileSteps, Idle, TaskState, Step, Op

(* What mutate returns is a listing again. *)
LEMMA PatchedType ==
    ASSUME NEW st \in TaskState, Shape(st), st.op \in PatchOps, NEW rows \in Listing
    PROVE  Patched(st, rows) \in Listing
<1>1. rows \in [DOMAIN rows -> Metadata] /\ DOMAIN rows \in SUBSET File
  BY OfListing
<1>2. st.meta \in Metadata /\ st.done \in SUBSET File /\ st.meta.locked \in BOOLEAN
  BY DEF TaskState, Metadata
<1>3. CASE st.op = "upload"
  <2>1. [f \in {st.file} |-> st.meta] \in Listing
    BY <1>2, <1>3, EntryType DEF Shape
  <2>2. Patched(st, rows) = Overlay([f \in {st.file} |-> st.meta], rows)
    BY <1>3 DEF Patched
  <2> QED
    BY <2>1, <2>2, OverlayType
<1>4. CASE st.op \in {"delete", "deleteOne", "remove"}
  <2>1. Patched(st, rows) = Restrict(rows, DOMAIN rows \ st.done)
    BY <1>4 DEF Patched
  <2> QED
    BY <2>1, RestrictType
<1>5. CASE st.op \in {"lock", "unlock", "toggle"}
  <2>1. Patched(st, rows) = [f \in DOMAIN rows |-> IF f \in st.done
                               THEN [rows[f] EXCEPT !.locked = st.meta.locked] ELSE rows[f]]
    BY <1>5 DEF Patched
  <2>2. \A f \in DOMAIN rows : [rows[f] EXCEPT !.locked = st.meta.locked] \in Metadata
    BY <1>1, <1>2 DEF Metadata
  <2>3. Patched(st, rows) \in [DOMAIN rows -> Metadata]
    BY <1>1, <2>1, <2>2
  <2> QED
    BY <1>1, <2>3, InListing
<1>6. CASE st.op = "verify"
  <2>1. Patched(st, rows) = [f \in DOMAIN rows |-> IF f = st.file
                               THEN [rows[f] EXCEPT !.verified = TRUE] ELSE rows[f]]
    BY <1>6 DEF Patched
  <2>2. \A f \in DOMAIN rows : [rows[f] EXCEPT !.verified = TRUE] \in Metadata
    BY <1>1 DEF Metadata
  <2>3. Patched(st, rows) \in [DOMAIN rows -> Metadata]
    BY <1>1, <2>1, <2>2
  <2> QED
    BY <1>1, <2>3, InListing
<1> QED
  BY <1>3, <1>4, <1>5, <1>6 DEF PatchOps, DeleteOps, LockOps

-----------------------------------------------------------------------------
(* What the change of one operation leaves in the table of operations. *)
OthersKept(t) == \A u \in Task : u # t => task'[u] = task[u]

LEMMA BecomeFacts ==
    ASSUME TypeOK, NEW t \in Task, NEW st, Become(t, st)
    PROVE  task'[t] = st /\ OthersKept(t)
BY DEF TypeOK, Become, OthersKept

LEMMA BecomeType ==
    ASSUME TypeInv, NEW t \in Task, NEW st, Become(t, st), StateOk(st)
    PROVE  task' \in [Task -> TaskState] /\ \A u \in Task : Shape(task'[u])
<1>1. task'[t] = st /\ OthersKept(t)
  BY BecomeFacts DEF TypeInv
<1>2. task' \in [Task -> TaskState]
  BY DEF TypeInv, TypeOK, Become, StateOk
<1> QED
  BY <1>1, <1>2 DEF TypeInv, StateOk, OthersKept

LEMMA TypeStep ==
    ASSUME TypeInv, NEW t \in Task, NEW st, Become(t, st), StateOk(st),
           remote' \subseteq File, unused' \subseteq File, sidecar' \in Listing,
           cache' \in Cache, starts' \in 0 .. MaxStarts, disturbed' \in BOOLEAN,
           held' \subseteq File, refused' \subseteq File
    PROVE  TypeInv'
<1>1. task' \in [Task -> TaskState] /\ \A u \in Task : Shape(task'[u])
  BY BecomeType
<1>2. TypeOK'
  BY <1>1 DEF TypeOK
<1>3. (\A u \in Task : Shape(task[u]))'
  BY <1>1 DEF Shape
<1> QED
  BY <1>2, <1>3 DEF TypeInv

(* A step that changes nothing but its own operation. *)
LEMMA TypeOwn ==
    ASSUME TypeInv, NEW t \in Task, NEW st, Become(t, st), StateOk(st),
           UNCHANGED <<destination, cache, starts, ghosts>>
    PROVE  TypeInv'
BY TypeStep DEF TypeInv, TypeOK, destination, ghosts

LEMMA BeginType ==
    ASSUME TypeInv, NEW t \in Task, NEW kind, NEW st, Begin(t, kind, st),
           StateOk([st EXCEPT !.op = kind, !.held = held]),
           remote' \subseteq File, unused' \subseteq File, sidecar' \in Listing,
           cache' = cache, held' \subseteq File, refused' \subseteq File
    PROVE  TypeInv'
<1>1. starts' \in 0 .. MaxStarts /\ disturbed' \in BOOLEAN
  BY StartsAssumption DEF Begin, TypeInv, TypeOK
<1>2. Become(t, [st EXCEPT !.op = kind, !.held = held])
  BY DEF Begin
<1> QED
  BY <1>1, <1>2, TypeStep DEF TypeInv, TypeOK

(* Facts of the state an operation is in. *)
LEMMA StateFacts ==
    ASSUME TypeInv, NEW t \in Task
    PROVE  /\ task[t] \in TaskState /\ Shape(task[t])
           /\ task[t].todo \subseteq File /\ task[t].done \subseteq File
           /\ task[t].file \in File \cup {"none"}
           /\ task[t].meta \in Metadata /\ task[t].rows \in Listing
           /\ task[t].held \subseteq File
           /\ task[t].step \in Step /\ task[t].op \in Op
BY DEF TypeInv, TypeOK, TaskState

LEMMA ShapeOf ==
    ASSUME NEW st \in TaskState,
           st.step \in FileSteps \/ st.op = "upload" => st.file \in File,
           st.step = "uploading" => st.op = "upload",
           st.step \in {"readLock", "writeLock"} => st.op \in LockOps,
           st.step = "writeVerified" => st.op = "verify",
           st.step \in {"delete", "deleteSidecar"} => st.op \in DeleteOps,
           st.step = "listForDelete" => st.op = "delete",
           st.step \in {"list", "enrich", "upsert"} => st.op \in {"delete", "refresh", "warmup"},
           st.step # "patch"
    PROVE  StateOk(st)
BY DEF StateOk, Shape

LEMMA TypeStarts ==
    ASSUME TypeInv, NEW t \in Task, Starts(t) \/ StartWarmup(t)
    PROVE  TypeInv'
<1>a. TypeOK
  BY DEF TypeInv
<1>b. /\ Idle \in TaskState /\ Plain \in Metadata
      /\ Idle = [op |-> "none", step |-> "idle", todo |-> {}, done |-> {},
                 file |-> "none", meta |-> Plain, rows |-> EmptyListing, held |-> {}]
      /\ EmptyListing \in Listing
  BY IdleType, PlainTypes DEF StateOk, Idle
<1>c. Shown \subseteq File
  BY <1>a, OfListing DEF Shown, TypeOK, Cache
<1>i. Idle \in TaskState
  BY <1>b DEF StateOk
<1>1. CASE StartUpload(t)
  <2>1. PICK f \in unused, locked \in BOOLEAN :
           /\ Begin(t, "upload", [Idle EXCEPT !.step = "uploading", !.file = f,
                                    !.meta = [Plain EXCEPT !.locked = locked]])
           /\ unused' = unused \ {f}
           /\ PutSidecar(f, [Plain EXCEPT !.locked = locked])
           /\ UNCHANGED <<remote, cache, held, refused>>
    BY <1>1 DEF StartUpload
  <2>2. [Plain EXCEPT !.locked = locked] \in Metadata /\ f \in File
    BY <1>a DEF Plain, Metadata, TypeOK
  <2> DEFINE m == [Plain EXCEPT !.locked = locked]
             st == [Idle EXCEPT !.step = "uploading", !.file = f, !.meta = m]
  <2>m. m \in Metadata
    BY <2>2
  <2> HIDE DEF m
  <2>3. StateOk([st EXCEPT !.op = "upload", !.held = held])
    <3> DEFINE next == [st EXCEPT !.op = "upload", !.held = held]
    <3>1. next \in TaskState
      BY <1>a, <1>i, <2>2, <2>m DEF TaskState, TypeOK, Step, Op, LockOps, DeleteOps
    <3>2. next.op = "upload" /\ next.step = "uploading" /\ next.file = f
      BY <1>i DEF TaskState
    <3> HIDE DEF next
    <3>3. StateOk(next)
      BY <1>a, <1>i, <2>2, <2>m, <3>1, <3>2, ShapeOf DEF FileSteps, LockOps, DeleteOps
    <3> QED
      BY <3>3 DEF next
  <2>4. sidecar' \in Listing
    BY <1>a, <2>1, <2>2, SidecarWrites
  <2>5. Begin(t, "upload", st)
    BY <2>1 DEF m
  <2> HIDE DEF st
  <2> QED
    BY <1>a, <2>1, <2>3, <2>4, <2>5, BeginType DEF TypeOK
<1>2. ASSUME NEW kind \in LockOps, StartLock(t, kind)
      PROVE  TypeInv'
  <2>1. PICK S \in SUBSET Shown :
           /\ Begin(t, kind, [Idle EXCEPT !.step = "readLock", !.todo = S])
           /\ held' = IF kind = "lock" THEN held ELSE held \ S
           /\ UNCHANGED <<destination, cache, refused>>
    BY <1>2 DEF StartLock
  <2> DEFINE st == [Idle EXCEPT !.step = "readLock", !.todo = S]
  <2>2. StateOk([st EXCEPT !.op = kind, !.held = held])
    <3> DEFINE next == [st EXCEPT !.op = kind, !.held = held]
    <3>1. next \in TaskState
      BY <1>a, <1>i, <1>c, <1>2 DEF TaskState, TypeOK, Step, Op, LockOps, DeleteOps
    <3>2. next.op = kind /\ next.step = "readLock"
      BY <1>i DEF TaskState
    <3> HIDE DEF next
    <3>3. StateOk(next)
      BY <1>a, <1>i, <1>c, <1>2, <3>1, <3>2, ShapeOf DEF FileSteps, LockOps, DeleteOps
    <3> QED
      BY <3>3 DEF next
  <2> HIDE DEF st
  <2> QED
    BY <1>a, <2>1, <2>2, BeginType DEF TypeOK, destination, st
<1>3. CASE StartVerify(t)
  <2>1. PICK f \in remote :
           /\ HasSidecar(f)
           /\ Begin(t, "verify", [Idle EXCEPT !.step = "writeVerified", !.file = f,
                                              !.meta = sidecar[f]])
           /\ UNCHANGED <<destination, cache, held, refused>>
    BY <1>3 DEF StartVerify
  <2> DEFINE st == [Idle EXCEPT !.step = "writeVerified", !.file = f, !.meta = sidecar[f]]
  <2>2. sidecar[f] \in Metadata /\ f \in File
    BY <1>a, <2>1, SidecarType
  <2>3. StateOk([st EXCEPT !.op = "verify", !.held = held])
    <3> DEFINE next == [st EXCEPT !.op = "verify", !.held = held]
    <3>1. next \in TaskState
      BY <1>a, <1>i, <2>2 DEF TaskState, TypeOK, Step, Op, LockOps, DeleteOps
    <3>2. next.op = "verify" /\ next.step = "writeVerified" /\ next.file = f
      BY <1>i DEF TaskState
    <3> HIDE DEF next
    <3>3. StateOk(next)
      BY <1>a, <1>i, <2>2, <3>1, <3>2, ShapeOf DEF FileSteps, LockOps, DeleteOps
    <3> QED
      BY <3>3 DEF next
  <2> HIDE DEF st
  <2> QED
    BY <1>a, <2>1, <2>3, BeginType DEF TypeOK, destination, st
<1>4. ASSUME NEW kind \in DeleteOps, StartDelete(t, kind)
      PROVE  TypeInv'
  <2> DEFINE step == IF kind = "delete" THEN "listForDelete" ELSE "delete"
  <2>1. PICK S \in SUBSET Shown :
           /\ Begin(t, kind, [Idle EXCEPT !.todo = S, !.step = step])
           /\ UNCHANGED <<destination, cache, held, refused>>
    BY <1>4 DEF StartDelete
  <2> DEFINE st == [Idle EXCEPT !.todo = S, !.step = step]
  <2>2. StateOk([st EXCEPT !.op = kind, !.held = held])
    <3> DEFINE next == [st EXCEPT !.op = kind, !.held = held]
    <3>k. step \in {"listForDelete", "delete"} /\ (step = "listForDelete" => kind = "delete")
      OBVIOUS
    <3>1. next \in TaskState
      BY <1>a, <1>i, <1>c, <1>4, <3>k DEF TaskState, TypeOK, Step, Op, LockOps, DeleteOps
    <3>2. next.op = kind /\ next.step = step
      BY <1>i DEF TaskState
    <3> HIDE DEF next
    <3>3. StateOk(next)
      BY <1>a, <1>i, <1>c, <1>4, <3>k, <3>1, <3>2, ShapeOf DEF FileSteps, LockOps, DeleteOps
    <3> QED
      BY <3>3 DEF next
  <2> HIDE DEF st
  <2> QED
    BY <1>a, <2>1, <2>2, BeginType DEF TypeOK, destination, st
<1>5. CASE StartRetention(t)
  <2>1. PICK S \in SUBSET {f \in remote : ~enrich(f).locked} :
           /\ Begin(t, "retention", [Idle EXCEPT !.step = "expire", !.todo = S])
           /\ UNCHANGED <<destination, cache, held, refused>>
    BY <1>5 DEF StartRetention
  <2> DEFINE st == [Idle EXCEPT !.step = "expire", !.todo = S]
  <2>2. StateOk([st EXCEPT !.op = "retention", !.held = held])
    <3>0. S \subseteq File
      BY <1>a DEF TypeOK
    <3> DEFINE next == [st EXCEPT !.op = "retention", !.held = held]
    <3>1. next \in TaskState
      BY <1>a, <1>i, <3>0 DEF TaskState, TypeOK, Step, Op, LockOps, DeleteOps
    <3>2. next.op = "retention" /\ next.step = "expire"
      BY <1>i DEF TaskState
    <3> HIDE DEF next
    <3>3. StateOk(next)
      BY <1>a, <1>i, <3>0, <3>1, <3>2, ShapeOf DEF FileSteps, LockOps, DeleteOps
    <3> QED
      BY <3>3 DEF next
  <2> HIDE DEF st
  <2> QED
    BY <1>a, <2>1, <2>2, BeginType DEF TypeOK, destination, st
<1>6. CASE StartRefresh(t)
  <2> DEFINE st == [Idle EXCEPT !.step = "list"]
  <2>2. StateOk([st EXCEPT !.op = "refresh", !.held = held])
    <3> DEFINE next == [st EXCEPT !.op = "refresh", !.held = held]
    <3>1. next \in TaskState
      BY <1>a, <1>i DEF TaskState, TypeOK, Step, Op, LockOps, DeleteOps
    <3>2. next.op = "refresh" /\ next.step = "list"
      BY <1>i DEF TaskState
    <3> HIDE DEF next
    <3>3. StateOk(next)
      BY <1>a, <1>i, <3>1, <3>2, ShapeOf DEF FileSteps, LockOps, DeleteOps
    <3> QED
      BY <3>3 DEF next
  <2>3. Begin(t, "refresh", st)
    BY <1>6 DEF StartRefresh
  <2> HIDE DEF st
  <2> QED
    BY <1>a, <1>6, <2>2, <2>3, BeginType DEF TypeOK, destination, StartRefresh
<1>7. CASE StartWarmup(t)
  <2> DEFINE step == IF cache.version = "none" THEN "list" ELSE "listRemote"
             st == [Idle EXCEPT !.op = "warmup", !.step = step]
  <2>1. StateOk(st)
    <3> DEFINE next == st
    <3>k. step \in {"list", "listRemote"}
      OBVIOUS
    <3>1. next \in TaskState
      BY <1>i, <3>k DEF TaskState, TypeOK, Step, Op, LockOps, DeleteOps
    <3>2. next.op = "warmup" /\ next.step = step
      BY <1>i DEF TaskState
    <3> HIDE DEF next
    <3>3. StateOk(next)
      BY <1>i, <3>k, <3>1, <3>2, ShapeOf DEF FileSteps, LockOps, DeleteOps
    <3> QED
      BY <3>3 DEF next
  <2>2. Become(t, st) /\ UNCHANGED <<destination, cache, starts, held, refused>>
        /\ disturbed' \in BOOLEAN
    BY <1>a, <1>7 DEF StartWarmup, TypeOK
  <2> HIDE DEF st
  <2> QED
    BY <1>a, <2>1, <2>2, TypeStep DEF TypeOK, destination
<1> QED
  BY <1>1, <1>2, <1>3, <1>4, <1>5, <1>6, <1>7 DEF Starts, LockOps, DeleteOps

(* The steps that change nothing but their own operation. *)
LEMMA TypeOwnSteps ==
    ASSUME TypeInv, NEW t \in Task,
           ReadLock(t) \/ ListForDelete(t) \/ ReadCache(t) \/ List(t) \/ Enrich(t)
              \/ ListRemote(t) \/ Compare(t) \/ EnrichNew(t)
    PROVE  TypeInv'
<1>a. TypeOK /\ StateOk(Idle)
  BY IdleType DEF TypeInv
<1>b. /\ task[t] \in TaskState /\ Shape(task[t])
      /\ task[t].todo \subseteq File /\ task[t].done \subseteq File
      /\ task[t].rows \in Listing
  BY StateFacts
<1>c. cache.rows \in Listing /\ DOMAIN cache.rows \subseteq File /\ remote \subseteq File
  BY <1>a, OfListing DEF TypeOK, Cache
<1> DEFINE own == UNCHANGED <<destination, cache, starts, ghosts>>
           Changes == \E st : Become(t, st) /\ StateOk(st)
<1>0. SUFFICES own /\ Changes
  BY TypeOwn
<1>1. CASE ReadLock(t)
  <2>1. CASE task[t].todo = {}
    <3>1. StateOk([task[t] EXCEPT !.step = "patch"])
      BY <1>b, <1>1 DEF StateOk, Shape, TaskState, ReadLock, At, Step, FileSteps, PatchOps, LockOps
    <3>2. Become(t, Idle) \/ Become(t, [task[t] EXCEPT !.step = "patch"])
      BY <1>1, <2>1 DEF ReadLock, EndBatch
    <3> QED
      BY <1>a, <1>1, <3>1, <3>2 DEF ReadLock
  <2>2. CASE task[t].todo # {}
    <3>1. PICK f \in task[t].todo :
            LET rest == [task[t] EXCEPT !.todo = @ \ {f}]
                wanted == IF task[t].op = "toggle" THEN ~sidecar[f].locked
                          ELSE task[t].op = "lock"
            IN \/ /\ ~HasSidecar(f)
                  /\ Become(t, rest)
               \/ /\ HasSidecar(f)
                  /\ sidecar[f].locked = wanted
                  /\ Become(t, [rest EXCEPT !.done = @ \cup {f}, !.meta = sidecar[f]])
               \/ /\ HasSidecar(f)
                  /\ sidecar[f].locked # wanted
                  /\ Become(t, [rest EXCEPT !.step = "writeLock", !.file = f,
                                    !.meta = [sidecar[f] EXCEPT !.locked = wanted]])
      BY <1>1, <2>2 DEF ReadLock
    <3> DEFINE rest == [task[t] EXCEPT !.todo = @ \ {f}]
               wanted == IF task[t].op = "toggle" THEN ~sidecar[f].locked
                         ELSE task[t].op = "lock"
    <3>2. f \in File /\ wanted \in BOOLEAN
      BY <1>b
    <3>3. StateOk(rest) /\ rest.done \subseteq File /\ rest.op \in LockOps
      BY <1>b, <1>1 DEF StateOk, Shape, TaskState, ReadLock, At, FileSteps
    <3>4. HasSidecar(f) => /\ sidecar[f] \in Metadata
                           /\ [sidecar[f] EXCEPT !.locked = wanted] \in Metadata
      BY <1>a, <3>2, SidecarType DEF Metadata
    <3> HIDE DEF rest, wanted
    <3>5. ASSUME HasSidecar(f)
          PROVE  StateOk([rest EXCEPT !.done = @ \cup {f}, !.meta = sidecar[f]])
      BY <3>2, <3>3, <3>4, <3>5 DEF StateOk, Shape, TaskState, FileSteps
    <3>6. ASSUME NEW m \in Metadata
          PROVE  StateOk([rest EXCEPT !.step = "writeLock", !.file = f, !.meta = m])
      BY <3>2, <3>3 DEF StateOk, Shape, TaskState, Step, FileSteps, LockOps
    <3>7. Changes
      BY <3>1, <3>3, <3>4, <3>5, <3>6 DEF rest, wanted
    <3> QED
      BY <1>1, <3>7 DEF ReadLock
  <2> QED
    BY <2>1, <2>2
<1>2. CASE ListForDelete(t)
  <2>1. /\ StateOk([task[t] EXCEPT !.step = "delete", !.rows = cache.rows])
        /\ StateOk([task[t] EXCEPT !.step = "list"])
    BY <1>b, <1>c, <1>2 DEF StateOk, Shape, TaskState, ListForDelete, At, Step, FileSteps, DeleteOps
  <2> QED
    BY <1>2, <2>1 DEF ListForDelete
<1>3. CASE ReadCache(t)
  <2>1. Patched(task[t], cache.rows) \in Listing
    BY <1>b, <1>c, <1>3, PatchedType DEF ReadCache, At, Shape
  <2>2. ASSUME NEW rows \in Listing
        PROVE  /\ StateOk([task[t] EXCEPT !.step = "store", !.rows = rows])
               /\ StateOk([task[t] EXCEPT !.step = "drop"])
    BY <1>b, <1>3 DEF StateOk, Shape, TaskState, ReadCache, At, Step, FileSteps
  <2>3. Changes
    BY <1>a, <1>3, <2>1, <2>2, PlainTypes DEF ReadCache, Finish
  <2> QED
    BY <1>3, <2>3 DEF ReadCache
<1>4. CASE List(t)
  <2>1. StateOk([task[t] EXCEPT !.step = "enrich", !.done = remote])
    BY <1>b, <1>c, <1>4 DEF StateOk, Shape, TaskState, List, At, Step, FileSteps
  <2> QED
    BY <1>4, <2>1 DEF List
<1>5. CASE Enrich(t)
  <2>1. [f \in task[t].done |-> enrich(f)] \in Listing
    BY <1>a, <1>b, EnrichType
  <2>2. ASSUME NEW rows \in Listing
        PROVE  StateOk([task[t] EXCEPT !.step = "upsert", !.done = {}, !.rows = rows])
    BY <1>b, <1>5 DEF StateOk, Shape, TaskState, Enrich, At, Step, FileSteps
  <2> QED
    BY <1>5, <2>1, <2>2 DEF Enrich
<1>6. CASE ListRemote(t)
  <2>1. StateOk([task[t] EXCEPT !.step = "compare", !.done = remote])
    BY <1>b, <1>c, <1>6 DEF StateOk, Shape, TaskState, ListRemote, At, Step, FileSteps
  <2> QED
    BY <1>6, <2>1 DEF ListRemote
<1>7. CASE Compare(t)
  <2> DEFINE added == task[t].done \ DOMAIN cache.rows
             next == [task[t] EXCEPT !.rows = KeptRows(t), !.todo = added, !.done = {}]
  <2>1. KeptRows(t) \in Listing
    BY <1>c, RestrictType DEF KeptRows
  <2>2. StateOk([task[t] EXCEPT !.step = "drop", !.done = {}])
    BY <1>b, <1>7 DEF StateOk, Shape, TaskState, Compare, At, Step, FileSteps
  <2>3. StateOk([Idle EXCEPT !.op = "warmup", !.step = "touch"])
    BY <1>a DEF StateOk, Shape, TaskState, Idle, Step, Op, FileSteps
  <2>4. StateOk([next EXCEPT !.step = "enrichNew"]) /\ StateOk([next EXCEPT !.step = "store"])
    BY <1>b, <1>7, <2>1 DEF StateOk, Shape, TaskState, Compare, At, Step, FileSteps
  <2> HIDE DEF next
  <2>5. \/ Become(t, Idle)
        \/ Become(t, [task[t] EXCEPT !.step = "drop", !.done = {}])
        \/ Become(t, [Idle EXCEPT !.op = "warmup", !.step = "touch"])
        \/ Become(t, [next EXCEPT !.step = "enrichNew"])
        \/ Become(t, [next EXCEPT !.step = "store"])
    BY <1>7 DEF Compare, Finish, next
  <2> QED
    BY <1>a, <1>7, <2>2, <2>3, <2>4, <2>5 DEF Compare
<1>8. CASE EnrichNew(t)
  <2>1. [f \in task[t].todo |-> enrich(f)] \in Listing
    BY <1>a, <1>b, EnrichType
  <2>2. Overlay([f \in task[t].todo |-> enrich(f)], task[t].rows) \in Listing
    BY <1>b, <2>1, OverlayType
  <2>3. ASSUME NEW rows \in Listing
        PROVE  StateOk([task[t] EXCEPT !.step = "store", !.todo = {}, !.rows = rows])
    BY <1>b, <1>8 DEF StateOk, Shape, TaskState, EnrichNew, At, Step, FileSteps
  <2> QED
    BY <1>8, <2>2, <2>3 DEF EnrichNew
<1> QED
  BY <1>1, <1>2, <1>3, <1>4, <1>5, <1>6, <1>7, <1>8

(* The steps that write the row of the cache. *)
LEMMA TypeCacheSteps ==
    ASSUME TypeInv, NEW t \in Task,
           DropCache(t) \/ StoreCache(t) \/ Upsert(t) \/ Touch(t)
    PROVE  TypeInv'
<1>a. TypeOK /\ StateOk(Idle)
  BY IdleType DEF TypeInv
<1>b. task[t] \in TaskState /\ Shape(task[t]) /\ task[t].rows \in Listing
  BY StateFacts
<1>1. SUFFICES /\ cache' \in Cache
               /\ UNCHANGED <<destination, starts, ghosts>>
               /\ \E st : Become(t, st) /\ StateOk(st)
  BY <1>a, TypeStep DEF TypeOK, destination, ghosts
<1>2. CASE DropCache(t)
  BY <1>a, <1>2, CacheTypes DEF DropCache, Finish
<1>3. CASE StoreCache(t)
  BY <1>a, <1>b, <1>3, CacheTypes DEF StoreCache, Finish, TypeOK
<1>4. CASE Upsert(t)
  <2>1. task[t].op = "delete" => StateOk([task[t] EXCEPT !.step = "delete"])
    BY <1>b DEF StateOk, Shape, TaskState, Step, FileSteps, DeleteOps
  <2> QED
    BY <1>a, <1>b, <1>4, <2>1, CacheTypes DEF Upsert
<1>5. CASE Touch(t)
  BY <1>a, <1>5 DEF Touch, Finish, TypeOK, Cache
<1> QED
  BY <1>2, <1>3, <1>4, <1>5

(* The steps that write to the destination. *)
LEMMA TypeDestinationSteps ==
    ASSUME TypeInv, NEW t \in Task,
           UploadArchive(t) \/ WriteLock(t) \/ WriteVerified(t) \/ Delete(t) \/ DeleteSidecar(t)
              \/ Expire(t)
    PROVE  TypeInv'
<1>a. TypeOK /\ StateOk(Idle)
  BY IdleType DEF TypeInv
<1>b. /\ task[t] \in TaskState /\ Shape(task[t])
      /\ task[t].todo \subseteq File /\ task[t].done \subseteq File
      /\ task[t].meta \in Metadata
  BY StateFacts
<1>1. SUFFICES /\ remote' \subseteq File /\ sidecar' \in Listing /\ disturbed' \in BOOLEAN
               /\ held' \subseteq File /\ refused' \subseteq File
               /\ UNCHANGED <<unused, cache, starts>>
               /\ \E st : Become(t, st) /\ StateOk(st)
  BY <1>a, TypeStep DEF TypeOK
<1>2. CASE UploadArchive(t)
  <2>1. task[t].file \in File
    BY <1>b, <1>2 DEF UploadArchive, At, Shape, FileSteps
  <2>2. StateOk([task[t] EXCEPT !.step = "patch"])
    BY <1>b, <1>2 DEF StateOk, Shape, TaskState, UploadArchive, At, Step, FileSteps, PatchOps
  <2> QED
    BY <1>a, <1>2, <2>1, <2>2 DEF UploadArchive, Finish, TypeOK
<1>3. CASE WriteLock(t)
  <2>1. task[t].file \in File
    BY <1>b, <1>3 DEF WriteLock, At, Shape, FileSteps
  <2>2. StateOk([task[t] EXCEPT !.step = "readLock", !.done = @ \cup {task[t].file}])
    BY <1>b, <1>3, <2>1 DEF StateOk, Shape, TaskState, WriteLock, At, Step, FileSteps
  <2>3. sidecar' \in Listing
    BY <1>a, <1>b, <1>3, <2>1, SidecarWrites DEF WriteLock
  <2> QED
    BY <1>a, <1>3, <2>1, <2>2, <2>3 DEF WriteLock, TypeOK
<1>4. CASE WriteVerified(t)
  <2>1. task[t].file \in File
    BY <1>b, <1>4 DEF WriteVerified, At, Shape, FileSteps
  <2>2. StateOk([task[t] EXCEPT !.step = "patch"])
    BY <1>b, <1>4 DEF StateOk, Shape, TaskState, WriteVerified, At, Step, FileSteps, PatchOps
  <2>3. [task[t].meta EXCEPT !.verified = TRUE] \in Metadata
    BY <1>b DEF Metadata
  <2>4. sidecar' \in Listing
    BY <1>a, <1>4, <2>1, <2>3, SidecarWrites DEF WriteVerified
  <2> QED
    BY <1>a, <1>4, <2>2, <2>4 DEF WriteVerified, TypeOK, ghosts
<1>5. CASE Delete(t)
  <2>1. StateOk([task[t] EXCEPT !.step = "patch"])
    BY <1>b, <1>5 DEF StateOk, Shape, TaskState, Delete, At, Step, FileSteps, PatchOps
  <2>2. ASSUME NEW f \in task[t].todo
        PROVE  LET rest == [task[t] EXCEPT !.todo = @ \ {f}]
               IN  StateOk(rest) /\ StateOk([rest EXCEPT !.step = "deleteSidecar", !.file = f])
    BY <1>b, <1>5 DEF StateOk, Shape, TaskState, Delete, At, Step, FileSteps
  <2>3. CASE task[t].todo = {}
    BY <1>a, <1>5, <2>1, <2>3 DEF Delete, EndBatch, TypeOK, ghosts
  <2>4. CASE task[t].todo # {}
    <3> DEFINE rest(f) == [task[t] EXCEPT !.todo = @ \ {f}]
               gone(f) == [rest(f) EXCEPT !.step = "deleteSidecar", !.file = f]
    <3>1. PICK f \in task[t].todo :
             \/ Become(t, rest(f)) /\ UNCHANGED <<remote, ghosts>>
             \/ /\ remote' = remote \ {f}
                /\ held' = held \ {f}
                /\ Become(t, gone(f))
                /\ UNCHANGED <<refused, disturbed>>
             \/ /\ Become(t, IF task[t].op = "delete" THEN rest(f) ELSE gone(f))
                /\ refused' = IF task[t].op = "delete" THEN refused ELSE refused \cup {f}
                /\ disturbed' = TRUE
                /\ UNCHANGED <<remote, held>>
      BY <1>5, <2>4 DEF Delete
    <3>2. StateOk(rest(f)) /\ StateOk(gone(f)) /\ f \in File
      BY <1>b, <2>2
    <3> HIDE DEF rest, gone
    <3>3. \E st : Become(t, st) /\ StateOk(st)
      BY <3>1, <3>2
    <3> QED
      BY <1>a, <1>5, <3>1, <3>2, <3>3 DEF Delete, TypeOK, ghosts
  <2> QED
    BY <2>3, <2>4
<1>6. CASE DeleteSidecar(t)
  <2>1. task[t].file \in File
    BY <1>b, <1>6 DEF DeleteSidecar, At, Shape, FileSteps
  <2>2. StateOk([task[t] EXCEPT !.step = "delete", !.done = @ \cup {task[t].file}])
    BY <1>b, <1>6, <2>1 DEF StateOk, Shape, TaskState, DeleteSidecar, At, Step, FileSteps
  <2>3. sidecar' \in Listing
    BY <1>a, <1>6, <2>1, SidecarWrites DEF DeleteSidecar
  <2> QED
    BY <1>a, <1>6, <2>2, <2>3 DEF DeleteSidecar, TypeOK, ghosts
<1>7. CASE Expire(t)
  <2>1. PICK f \in task[t].todo :
          /\ \/ remote' = remote \ {f} /\ UNCHANGED <<refused, disturbed>>
             \/ refused' = refused \cup {f} /\ disturbed' = TRUE /\ UNCHANGED remote
          /\ Become(t, [task[t] EXCEPT !.step = "expireSidecar", !.file = f,
                                       !.todo = @ \ {f}])
    BY <1>7 DEF Expire
  <2>2. StateOk([task[t] EXCEPT !.step = "expireSidecar", !.file = f, !.todo = @ \ {f}])
    BY <1>b, <1>7 DEF StateOk, Shape, TaskState, Expire, At, Step, FileSteps
  <2> QED
    BY <1>a, <1>b, <1>7, <2>1, <2>2 DEF Expire, TypeOK
<1> QED
  BY <1>2, <1>3, <1>4, <1>5, <1>6, <1>7

(* Retention's change of the listing is an operation of its own. *)
LEMMA TypeExpireSidecar ==
    ASSUME TypeInv, NEW t \in Task, ExpireSidecar(t)
    PROVE  TypeInv'
<1> DEFINE f == task[t].file
           removal == [Idle EXCEPT !.op = "remove", !.step = "patch", !.done = {f}]
<1>a. TypeOK /\ Idle \in TaskState /\ task[t] \in TaskState /\ Shape(task[t])
  BY StateFacts, IdleType DEF TypeInv, StateOk
<1>b. f \in File
  BY <1>a DEF ExpireSidecar, At, Shape, FileSteps
<1>c. StateOk(removal)
  BY <1>a, <1>b DEF StateOk, Shape, TaskState, Idle, Step, Op, FileSteps, PatchOps
<1>d. sidecar' \in Listing /\ UNCHANGED <<remote, unused, cache, starts, refused>>
  BY <1>a, <1>b, SidecarWrites DEF ExpireSidecar
<1>e. disturbed' \in BOOLEAN /\ held' \subseteq File
  BY <1>a DEF ExpireSidecar, TypeOK
<1>1. CASE Become(t, removal)
  BY <1>1, <1>a, <1>c, <1>d, <1>e, TypeStep DEF TypeOK
<1>2. CASE \E u \in Task \ {t} : task' = [task EXCEPT ![t].step = "expire", ![u] = removal]
  <2>1. PICK u \in Task \ {t} : task' = [task EXCEPT ![t].step = "expire", ![u] = removal]
    BY <1>2
  <2>2. StateOk([task[t] EXCEPT !.step = "expire"])
    BY <1>a DEF StateOk, Shape, TaskState, ExpireSidecar, At, Step, FileSteps
  <2> HIDE DEF removal
  <2>3. task' = [task EXCEPT ![t] = [task[t] EXCEPT !.step = "expire"], ![u] = removal]
    BY <2>1
  <2> DEFINE st == [task[t] EXCEPT !.step = "expire"]
  <2> HIDE DEF st
  <2>4. task' \in [Task -> TaskState]
    BY <1>a, <1>c, <2>2, <2>3 DEF st, TypeOK, StateOk
  <2>5. \A v \in Task : Shape(task'[v])
    BY <1>a, <1>c, <2>2, <2>3 DEF st, TypeInv, TypeOK, StateOk
  <2>6. TypeOK'
    BY <1>a, <1>d, <1>e, <2>4 DEF TypeOK
  <2>7. (\A v \in Task : Shape(task[v]))'
    BY <2>5 DEF Shape
  <2> QED
    BY <2>6, <2>7 DEF TypeInv
<1> QED
  BY <1>1, <1>2 DEF ExpireSidecar

THEOREM TypeInvariance == Spec => []TypeInv
<1>1. Init => TypeInv
  <2> SUFFICES ASSUME Init PROVE TypeInv
    OBVIOUS
  <2>1. remote \subseteq File /\ sidecar \in Listing
    BY PlainTypes, InListing DEF Init
  <2>2. cache \in Cache
    BY PlainTypes DEF Init, Cache, NoCache
  <2>3. task \in [Task -> TaskState] /\ \A t \in Task : Shape(task[t])
    BY IdleType DEF Init, StateOk
  <2>a. unused = File \ remote /\ starts = 0 /\ disturbed = FALSE /\ held = {} /\ refused = {}
    BY Zenon DEF Init
  <2>4. starts \in 0 .. MaxStarts
    BY <2>a, StartsAssumption
  <2>5. unused \subseteq File /\ disturbed \in BOOLEAN /\ held \subseteq File /\ refused \subseteq File
    BY <2>a
  <2> QED
    BY <2>1, <2>2, <2>3, <2>4, <2>5 DEF TypeInv, TypeOK
<1>2. TypeInv /\ [Next]_vars => TypeInv'
  <2> SUFFICES ASSUME TypeInv, [Next]_vars PROVE TypeInv'
    OBVIOUS
  <2>a. TypeOK
    BY DEF TypeInv
  <2>1. ASSUME NEW t \in Task, Starts(t) \/ StartWarmup(t)
        PROVE  TypeInv'
    BY <2>1, TypeStarts
  <2>2. ASSUME NEW t \in Task, Steps(t)
        PROVE  TypeInv'
    BY <2>2, TypeOwnSteps, TypeCacheSteps, TypeDestinationSteps, TypeExpireSidecar DEF Steps
  <2>3. CASE GrowStale
    BY <2>a, <2>3 DEF GrowStale, TypeInv, TypeOK, Cache, Shape, destination, ghosts
  <2>4. CASE DeleteOutside
    <3>1. PICK f \in remote : remote' = remote \ {f} /\ RemoveSidecar(f) /\ held' = held \ {f}
      BY <2>4 DEF DeleteOutside
    <3>2. sidecar' \in Listing
      BY <2>a, <3>1, SidecarWrites DEF TypeOK
    <3>3. TypeOK'
      BY <2>a, <2>4, <3>1, <3>2, StartsAssumption DEF DeleteOutside, TypeOK
    <3> QED
      BY <2>4, <3>3 DEF DeleteOutside, TypeInv, Shape
  <2>5. CASE Crash
    <3>1. task' \in [Task -> TaskState] /\ \A t \in Task : Shape(task'[t])
      BY <2>5, IdleType DEF Crash, StateOk
    <3>2. TypeOK'
      BY <2>a, <2>5, <3>1, StartsAssumption DEF Crash, TypeOK, destination
    <3>3. (\A t \in Task : Shape(task[t]))'
      BY <3>1 DEF Shape
    <3> QED
      BY <3>2, <3>3 DEF TypeInv
  <2>6. CASE UNCHANGED vars
    BY <2>6 DEF vars, TypeInv, TypeOK, Shape
  <2> QED
    BY <2>1, <2>2, <2>3, <2>4, <2>5, <2>6 DEF Next
<1> QED
  BY <1>1, <1>2, PTL DEF Spec

(* Every variable keeps to its type, and so does what a task carries from  *)
(* one await to the next.                                                  *)
THEOREM TypeCorrect == Spec => []TypeOK
<1>1. TypeInv => TypeOK
  BY DEF TypeInv
<1> QED
  BY <1>1, TypeInvariance, PTL

-----------------------------------------------------------------------------
(* No backup loses its sidecar. A path is awaited until its archive is      *)
(* there: such a path is not yet known, to the destination, the listing or  *)
(* an operation, so no delete that removes a sidecar can be about it. And   *)
(* what a delete removes the sidecar of is gone, or was refused.            *)
Uploading == {t \in Task : At(t, "uploading")}
Awaited == unused \cup {task[t].file : t \in Uploading}
Seen(st) == st.todo \cup st.done \cup DOMAIN st.rows
               \cup (IF st.step = "uploading" THEN {} ELSE {st.file})
Known == {f \in File : \/ f \in remote \cup DOMAIN cache.rows
                       \/ \E t \in Task : f \in Seen(task[t])}
AwaitedUnknown == Awaited \cap Known = {}
UploadsApart ==
    /\ \A t \in Uploading : task[t].file \notin unused /\ HasSidecar(task[t].file)
    /\ \A t, u \in Uploading : task[t].file = task[u].file => t = u
Removes(st) == st.step \in {"deleteSidecar", "expireSidecar"}
RemovedGone == \A t \in Task : Removes(task[t]) => task[t].file \notin remote \/ task[t].file \in refused
SidecarInv == AwaitedUnknown /\ UploadsApart /\ RemovedGone /\ SidecarKept

(* What a step may do that starts no upload; arrived is the archive it      *)
(* brought, where it brought one.                                           *)
QuietTask(u, arrived) ==
    \/ task'[u] = task[u]
    \/ /\ task'[u].step # "uploading"
       /\ Seen(task'[u]) \cap File \subseteq Known \cup arrived
       /\ Removes(task'[u]) => task'[u].file \notin remote' \/ task'[u].file \in refused'
Quiet(arrived) ==
    /\ unused' = unused
    /\ refused \subseteq refused'
    /\ remote' \subseteq remote \cup arrived
    /\ DOMAIN cache'.rows \subseteq Known
    /\ \A u \in Task : QuietTask(u, arrived)
    /\ \A f \in DOMAIN sidecar \ DOMAIN sidecar' : f \in Known /\ (f \in remote' => f \in refused')

LEMMA QuietStep ==
    ASSUME TypeInv, SidecarInv, NEW arrived \in SUBSET File, Quiet(arrived),
           \A f \in arrived : HasSidecar(f) /\ f \notin unused \cup Known,
           \A u \in Task : task'[u].step = "uploading" => task'[u].file \notin arrived
    PROVE  SidecarInv'
<1> DEFINE Up2(u) == task'[u].step = "uploading"
<1>a. TypeOK /\ arrived \subseteq File
  BY DEF TypeInv
<1>b. \A u \in Task : Up2(u) => task'[u] = task[u] /\ u \in Uploading
  BY DEF Quiet, QuietTask, Uploading, At
<1>c. \A u \in Task : Up2(u) => task[u].file \in File /\ HasSidecar(task[u].file)
                                /\ task[u].file \notin unused /\ task[u].file \notin Known
  BY <1>b, StateFacts DEF SidecarInv, UploadsApart, AwaitedUnknown, Awaited, Shape, FileSteps, Uploading, At
<1>d. Uploading' = {u \in Task : Up2(u)}
  BY DEF Uploading, At
<1>1. UploadsApart'
  <2>1. \A u \in Task : Up2(u) => task'[u].file \notin unused' /\ task'[u].file \in DOMAIN sidecar'
    BY <1>b, <1>c DEF Quiet, HasSidecar
  <2>2. \A u, v \in Task : Up2(u) /\ Up2(v) /\ task'[u].file = task'[v].file => u = v
    BY <1>b DEF SidecarInv, UploadsApart
  <2> HIDE DEF Up2
  <2> QED
    BY <1>d, <2>1, <2>2 DEF UploadsApart, HasSidecar
<1>2. AwaitedUnknown'
  <2> SUFFICES ASSUME NEW f \in File, f \in Awaited', f \in Known'
               PROVE  FALSE
    BY DEF AwaitedUnknown, Known
  <2>1. f \in Awaited /\ f \notin arrived
    <3>1. CASE f \in unused'
      BY <3>1 DEF Quiet, Awaited
    <3>2. CASE \E u \in Task : Up2(u) /\ f = task'[u].file
      BY <1>b, <3>2 DEF Awaited
    <3> QED
      BY <1>d, <3>1, <3>2 DEF Awaited
  <2>2. f \notin Known
    BY <2>1 DEF SidecarInv, AwaitedUnknown
  <2>3. f \in Known \cup arrived
    <3>1. CASE f \in remote' \cup DOMAIN cache'.rows
      BY <3>1 DEF Quiet, Known
    <3>2. CASE \E u \in Task : f \in Seen(task'[u])
      <4>1. PICK u \in Task : f \in Seen(task'[u])
        BY <3>2
      <4>2. QuietTask(u, arrived)
        BY DEF Quiet
      <4> QED
        BY <4>1, <4>2 DEF QuietTask, Known
    <3>3. Known' = {g \in File : g \in remote' \cup DOMAIN cache'.rows \/ \E u \in Task : g \in Seen(task'[u])}
      BY DEF Known, Seen
    <3> QED
      BY <3>1, <3>2, <3>3
  <2> QED
    BY <2>1, <2>2, <2>3
<1>3. RemovedGone'
  <2>1. ASSUME NEW u \in Task, Removes(task'[u])
        PROVE  task'[u].file \notin remote' \/ task'[u].file \in refused'
    <3>1. CASE task'[u] = task[u]
      <4>1. task[u].file \in Known
        BY <2>1, <3>1, StateFacts DEF Removes, Known, Seen, Shape, FileSteps
      <4>2. task[u].file \notin remote \/ task[u].file \in refused
        BY <2>1, <3>1 DEF SidecarInv, RemovedGone
      <4>3. task[u].file \notin arrived
        BY <4>1
      <4> QED
        BY <3>1, <4>2, <4>3 DEF Quiet
    <3> QED
      BY <2>1, <3>1 DEF Quiet, QuietTask
  <2> QED
    BY <2>1 DEF RemovedGone, Removes
<1>4. SidecarKept'
  BY DEF SidecarInv, SidecarKept, Quiet, HasSidecar
<1> QED
  BY <1>1, <1>2, <1>3, <1>4 DEF SidecarInv

LEMMA KnownFacts ==
    ASSUME TypeInv
    PROVE  /\ remote \subseteq Known /\ DOMAIN cache.rows \subseteq Known /\ Known \subseteq File
           /\ \A t \in Task : /\ task[t].todo \subseteq Known /\ task[t].done \subseteq Known
                              /\ DOMAIN task[t].rows \subseteq Known
                              /\ Seen(task[t]) \cap File \subseteq Known
                              /\ ~At(t, "uploading") => {task[t].file} \cap File \subseteq Known
<1>1. remote \subseteq File /\ DOMAIN cache.rows \subseteq File
  BY OfListing DEF TypeInv, TypeOK, Cache
<1>2. ASSUME NEW t \in Task
      PROVE  /\ task[t].todo \subseteq File /\ task[t].done \subseteq File
             /\ DOMAIN task[t].rows \subseteq File
  BY StateFacts, OfListing
<1> QED
  BY <1>1, <1>2 DEF Known, Seen, At

(* The common case: the step changes its own operation, and it may write   *)
(* rows that are known to the cache.                                       *)
QuietState(st) == st.step # "uploading" /\ ~Removes(st) /\ Seen(st) \cap File \subseteq Known

LEMMA QuietOwn ==
    ASSUME TypeInv, SidecarInv, NEW t \in Task, NEW st, Become(t, st), QuietState(st),
           UNCHANGED destination, refused' = refused, DOMAIN cache'.rows \subseteq Known
    PROVE  SidecarInv'
<1>1. task'[t] = st /\ \A u \in Task : u # t => task'[u] = task[u]
  BY BecomeFacts DEF TypeInv, OthersKept
<1>2. \A u \in Task : QuietTask(u, {})
  BY <1>1 DEF QuietTask, QuietState
<1>3. Quiet({})
  BY <1>2 DEF Quiet, destination
<1> QED
  BY <1>3, QuietStep

LEMMA QuietIdle == QuietState(Idle)
BY FileAssumption DEF QuietState, Idle, Removes, Seen, EmptyListing

LEMMA PatchedDomain ==
    ASSUME NEW st, st.op \in PatchOps, NEW rows
    PROVE  DOMAIN Patched(st, rows) \subseteq DOMAIN rows \cup
              (IF st.op = "upload" THEN {st.file} ELSE {})
<1>1. CASE st.op = "upload"
  <2>1. Patched(st, rows) = Overlay([f \in {st.file} |-> st.meta], rows)
    BY <1>1 DEF Patched
  <2> QED
    BY <1>1, <2>1 DEF Overlay
<1>2. CASE st.op \in {"delete", "deleteOne", "remove"}
  <2>1. Patched(st, rows) = Restrict(rows, DOMAIN rows \ st.done)
    BY <1>2 DEF Patched
  <2> QED
    BY <2>1 DEF Restrict
<1>3. CASE st.op \in {"lock", "unlock", "toggle"}
  <2>1. Patched(st, rows) = [f \in DOMAIN rows |-> IF f \in st.done
                               THEN [rows[f] EXCEPT !.locked = st.meta.locked] ELSE rows[f]]
    BY <1>3 DEF Patched
  <2> QED
    BY <2>1
<1>4. CASE st.op = "verify"
  <2>1. Patched(st, rows) = [f \in DOMAIN rows |-> IF f = st.file
                               THEN [rows[f] EXCEPT !.verified = TRUE] ELSE rows[f]]
    BY <1>4 DEF Patched
  <2> QED
    BY <2>1
<1> QED
  BY <1>1, <1>2, <1>3, <1>4 DEF PatchOps, DeleteOps, LockOps

(* The rows of a listing that is read or changed are of known paths. *)
LEMMA RowsKnown ==
    ASSUME TypeInv, NEW t \in Task
    PROVE  /\ DOMAIN KeptRows(t) \subseteq Known
           /\ DOMAIN Overlay([f \in task[t].todo |-> enrich(f)], task[t].rows) \subseteq Known
           /\ DOMAIN [f \in task[t].done |-> enrich(f)] \subseteq Known
           /\ At(t, "patch") => DOMAIN Patched(task[t], cache.rows) \subseteq Known
<1>1. DOMAIN KeptRows(t) \subseteq Known
  BY KnownFacts DEF KeptRows, Restrict
<1>2. DOMAIN Overlay([f \in task[t].todo |-> enrich(f)], task[t].rows) \subseteq Known
  BY KnownFacts DEF Overlay
<1>3. ASSUME At(t, "patch")
      PROVE  DOMAIN Patched(task[t], cache.rows) \subseteq Known
  <2>1. Shape(task[t]) /\ task[t].op \in PatchOps
    BY <1>3, StateFacts DEF At, Shape
  <2>2. task[t].op = "upload" => task[t].file \in Known
    BY <1>3, <2>1, KnownFacts DEF Shape, At
  <2> QED
    BY <2>1, <2>2, PatchedDomain, KnownFacts
<1> QED
  BY <1>1, <1>2, <1>3, KnownFacts

LEMMA SidecarOwnSteps ==
    ASSUME TypeInv, SidecarInv, NEW t \in Task,
           ReadLock(t) \/ ListForDelete(t) \/ ReadCache(t) \/ List(t) \/ Enrich(t)
              \/ ListRemote(t) \/ Compare(t) \/ EnrichNew(t)
    PROVE  SidecarInv'
<1> DEFINE own == UNCHANGED <<destination, cache, starts, ghosts>>
           Changes == \E st : Become(t, st) /\ QuietState(st)
<1>0. SUFFICES own /\ Changes
  BY QuietOwn, KnownFacts DEF ghosts
<1>a. task[t] \in TaskState /\ QuietState(Idle)
  BY StateFacts, QuietIdle
<1>b. /\ remote \subseteq Known /\ DOMAIN cache.rows \subseteq Known
      /\ task[t].todo \subseteq Known /\ task[t].done \subseteq Known
      /\ DOMAIN task[t].rows \subseteq Known
      /\ ~At(t, "uploading") => {task[t].file} \cap File \subseteq Known
  BY KnownFacts
<1>1. CASE ReadLock(t)
  <2>1. CASE task[t].todo = {}
    <3>1. QuietState([task[t] EXCEPT !.step = "patch"])
      BY <1>a, <1>b, <1>1 DEF QuietState, Seen, Removes, TaskState, ReadLock, At
    <3>2. Become(t, Idle) \/ Become(t, [task[t] EXCEPT !.step = "patch"])
      BY <1>1, <2>1 DEF ReadLock, EndBatch
    <3> QED
      BY <1>a, <1>1, <3>1, <3>2 DEF ReadLock
  <2>2. CASE task[t].todo # {}
    <3>1. PICK f \in task[t].todo :
            LET rest == [task[t] EXCEPT !.todo = @ \ {f}]
                wanted == IF task[t].op = "toggle" THEN ~sidecar[f].locked
                          ELSE task[t].op = "lock"
            IN \/ Become(t, rest)
               \/ Become(t, [rest EXCEPT !.done = @ \cup {f}, !.meta = sidecar[f]])
               \/ Become(t, [rest EXCEPT !.step = "writeLock", !.file = f,
                                    !.meta = [sidecar[f] EXCEPT !.locked = wanted]])
      BY <1>1, <2>2 DEF ReadLock
    <3> DEFINE rest == [task[t] EXCEPT !.todo = @ \ {f}]
    <3>2. QuietState(rest)
      BY <1>a, <1>b, <1>1 DEF QuietState, Seen, Removes, TaskState, ReadLock, At
    <3>a. f \in Known /\ rest.done \in SUBSET File /\ rest \in TaskState
      BY <1>a, <1>b, StateFacts DEF TaskState
    <3> HIDE DEF rest
    <3>3. ASSUME NEW m
          PROVE  QuietState([rest EXCEPT !.done = @ \cup {f}, !.meta = m])
      BY <3>2, <3>a DEF QuietState, Seen, Removes, TaskState
    <3>4. ASSUME NEW m
          PROVE  QuietState([rest EXCEPT !.step = "writeLock", !.file = f, !.meta = m])
      BY <3>2, <3>a DEF QuietState, Seen, Removes, TaskState
    <3> QED
      BY <1>1, <3>1, <3>2, <3>3, <3>4 DEF ReadLock, rest
  <2> QED
    BY <2>1, <2>2
<1>2. CASE ListForDelete(t)
  <2>1. /\ QuietState([task[t] EXCEPT !.step = "delete", !.rows = cache.rows])
        /\ QuietState([task[t] EXCEPT !.step = "list"])
    BY <1>a, <1>b, <1>2 DEF QuietState, Seen, Removes, TaskState, ListForDelete, At
  <2> QED
    BY <1>2, <2>1 DEF ListForDelete
<1>3. CASE ReadCache(t)
  <2>1. DOMAIN Patched(task[t], cache.rows) \subseteq Known
    BY <1>3, RowsKnown DEF ReadCache
  <2>2. ASSUME NEW rows, DOMAIN rows \subseteq Known
        PROVE  QuietState([task[t] EXCEPT !.step = "store", !.rows = rows])
    BY <1>a, <1>b, <1>3, <2>2 DEF QuietState, Seen, Removes, TaskState, ReadCache, At
  <2>3. QuietState([task[t] EXCEPT !.step = "drop"])
    BY <1>a, <1>b, <1>3 DEF QuietState, Seen, Removes, TaskState, ReadCache, At
  <2>4. Changes
    BY <1>a, <1>3, <2>1, <2>2, <2>3 DEF ReadCache, Finish
  <2> QED
    BY <1>3, <2>4 DEF ReadCache
<1>4. CASE List(t)
  <2>1. QuietState([task[t] EXCEPT !.step = "enrich", !.done = remote])
    BY <1>a, <1>b, <1>4 DEF QuietState, Seen, Removes, TaskState, List, At
  <2> QED
    BY <1>4, <2>1 DEF List
<1>5. CASE Enrich(t)
  <2>1. ASSUME NEW rows, DOMAIN rows \subseteq Known
        PROVE  QuietState([task[t] EXCEPT !.step = "upsert", !.done = {}, !.rows = rows])
    BY <1>a, <1>b, <1>5, <2>1 DEF QuietState, Seen, Removes, TaskState, Enrich, At
  <2> QED
    BY <1>5, <2>1, RowsKnown DEF Enrich
<1>6. CASE ListRemote(t)
  <2>1. QuietState([task[t] EXCEPT !.step = "compare", !.done = remote])
    BY <1>a, <1>b, <1>6 DEF QuietState, Seen, Removes, TaskState, ListRemote, At
  <2> QED
    BY <1>6, <2>1 DEF ListRemote
<1>7. CASE Compare(t)
  <2> DEFINE added == task[t].done \ DOMAIN cache.rows
             next == [task[t] EXCEPT !.rows = KeptRows(t), !.todo = added, !.done = {}]
  <2>1. DOMAIN KeptRows(t) \subseteq Known
    BY RowsKnown
  <2>2. QuietState([task[t] EXCEPT !.step = "drop", !.done = {}])
    BY <1>a, <1>b, <1>7 DEF QuietState, Seen, Removes, TaskState, Compare, At
  <2>3. QuietState([Idle EXCEPT !.op = "warmup", !.step = "touch"])
    BY FileAssumption DEF QuietState, Idle, Removes, Seen, EmptyListing
  <2>4. QuietState([next EXCEPT !.step = "enrichNew"]) /\ QuietState([next EXCEPT !.step = "store"])
    BY <1>a, <1>b, <1>7, <2>1 DEF QuietState, Seen, Removes, TaskState, Compare, At
  <2> HIDE DEF next
  <2>5. \/ Become(t, Idle)
        \/ Become(t, [task[t] EXCEPT !.step = "drop", !.done = {}])
        \/ Become(t, [Idle EXCEPT !.op = "warmup", !.step = "touch"])
        \/ Become(t, [next EXCEPT !.step = "enrichNew"])
        \/ Become(t, [next EXCEPT !.step = "store"])
    BY <1>7 DEF Compare, Finish, next
  <2> QED
    BY <1>a, <1>7, <2>2, <2>3, <2>4, <2>5 DEF Compare
<1>8. CASE EnrichNew(t)
  <2>1. ASSUME NEW rows, DOMAIN rows \subseteq Known
        PROVE  QuietState([task[t] EXCEPT !.step = "store", !.todo = {}, !.rows = rows])
    BY <1>a, <1>b, <1>8, <2>1 DEF QuietState, Seen, Removes, TaskState, EnrichNew, At
  <2> QED
    BY <1>8, <2>1, RowsKnown DEF EnrichNew
<1> QED
  BY <1>1, <1>2, <1>3, <1>4, <1>5, <1>6, <1>7, <1>8

LEMMA SidecarCacheSteps ==
    ASSUME TypeInv, SidecarInv, NEW t \in Task,
           DropCache(t) \/ StoreCache(t) \/ Upsert(t) \/ Touch(t)
    PROVE  SidecarInv'
<1>a. task[t] \in TaskState /\ QuietState(Idle)
  BY StateFacts, QuietIdle
<1>b. /\ DOMAIN cache.rows \subseteq Known /\ DOMAIN task[t].rows \subseteq Known
      /\ task[t].todo \subseteq Known /\ task[t].done \subseteq Known
      /\ ~At(t, "uploading") => {task[t].file} \cap File \subseteq Known
  BY KnownFacts
<1>c. cache \in Cache
  BY DEF TypeInv, TypeOK
<1>1. SUFFICES /\ DOMAIN cache'.rows \subseteq Known
               /\ UNCHANGED <<destination, starts, ghosts>>
               /\ \E st : Become(t, st) /\ QuietState(st)
  BY QuietOwn DEF ghosts
<1>2. CASE DropCache(t)
  BY <1>a, <1>2 DEF DropCache, Finish, NoCache, EmptyListing
<1>3. CASE StoreCache(t)
  BY <1>a, <1>b, <1>3 DEF StoreCache, Finish, Current
<1>4. CASE Upsert(t)
  <2>1. QuietState([task[t] EXCEPT !.step = "delete"])
    BY <1>a, <1>b, <1>4 DEF QuietState, Seen, Removes, TaskState, Upsert, At
  <2>2. DOMAIN cache'.rows \subseteq Known
    BY <1>b, <1>4 DEF Upsert, Current
  <2> QED
    BY <1>a, <1>4, <2>1, <2>2 DEF Upsert
<1>5. CASE Touch(t)
  <2>1. cache'.rows = cache.rows
    BY <1>c, <1>5 DEF Touch, Cache
  <2> QED
    BY <1>a, <1>b, <1>5, <2>1 DEF Touch, Finish
<1> QED
  BY <1>2, <1>3, <1>4, <1>5

(* An upload starts: its path is awaited as before, with its sidecar. *)
LEMMA SidecarStartUpload ==
    ASSUME TypeInv, SidecarInv, NEW t \in Task, StartUpload(t)
    PROVE  SidecarInv'
<1>1. PICK f \in unused, locked \in BOOLEAN :
         /\ Begin(t, "upload", [Idle EXCEPT !.step = "uploading", !.file = f,
                                  !.meta = [Plain EXCEPT !.locked = locked]])
         /\ unused' = unused \ {f}
         /\ PutSidecar(f, [Plain EXCEPT !.locked = locked])
         /\ UNCHANGED <<remote, cache, held, refused>>
  BY DEF StartUpload
<1> DEFINE st == [[Idle EXCEPT !.step = "uploading", !.file = f,
                               !.meta = [Plain EXCEPT !.locked = locked]]
                     EXCEPT !.op = "upload", !.held = held]
<1>2. st.step = "uploading" /\ st.file = f /\ Seen(st) = {}
  BY DEF Idle, Seen, EmptyListing
<1>3. At(t, "idle") /\ Become(t, st)
  BY <1>1 DEF Begin
<1> HIDE DEF st
<1>4. task'[t] = st /\ \A u \in Task : u # t => task'[u] = task[u]
  BY <1>3, BecomeFacts DEF TypeInv, OthersKept
<1>5. DOMAIN sidecar' = DOMAIN sidecar \cup {f}
  BY <1>1 DEF PutSidecar, Overlay
<1>6. t \notin Uploading /\ Uploading' = Uploading \cup {t}
  <2>1. Uploading' = {u \in Task : task'[u].step = "uploading"}
    BY DEF Uploading, At
  <2> QED
    BY <1>2, <1>3, <1>4, <2>1 DEF Uploading, At
<1>7. Awaited' = Awaited
  <2>1. Awaited' = unused' \cup {task'[u].file : u \in Uploading'}
    BY DEF Awaited
  <2>2. unused = unused' \cup {f}
    BY <1>1
  <2>3. {task'[u].file : u \in Uploading'} = {task[u].file : u \in Uploading} \cup {f}
    <3>1. \A u \in Uploading : task'[u] = task[u]
      BY <1>4, <1>6 DEF Uploading
    <3> QED
      BY <1>2, <1>4, <1>6, <3>1
  <2> QED
    BY <2>1, <2>2, <2>3 DEF Awaited
<1>8. Known' \subseteq Known
  <2>1. Known' = {g \in File : g \in remote' \cup DOMAIN cache'.rows \/ \E u \in Task : g \in Seen(task'[u])}
    BY DEF Known, Seen
  <2> QED
    BY <1>1, <1>2, <1>4, <2>1 DEF Known
<1>9. AwaitedUnknown'
  BY <1>7, <1>8 DEF SidecarInv, AwaitedUnknown
<1>10. UploadsApart'
  <2>1. \A u \in Uploading : task'[u] = task[u] /\ task[u].file # f /\ task[u].file \notin unused
                             /\ task[u].file \in DOMAIN sidecar
    BY <1>1, <1>4, <1>6 DEF SidecarInv, UploadsApart, HasSidecar, Uploading
  <2>2. \A u \in Uploading' : task'[u].file \notin unused' /\ task'[u].file \in DOMAIN sidecar'
    BY <1>1, <1>2, <1>4, <1>5, <1>6, <2>1
  <2>3. \A u, v \in Uploading' : task'[u].file = task'[v].file => u = v
    BY <1>2, <1>4, <1>6, <2>1 DEF SidecarInv, UploadsApart
  <2> QED
    BY <2>2, <2>3 DEF UploadsApart, HasSidecar
<1>11. RemovedGone'
  <2>1. \A u \in Task : Removes(task'[u]) => task'[u].file \notin remote' \/ task'[u].file \in refused'
    BY <1>1, <1>2, <1>4 DEF SidecarInv, RemovedGone, Removes
  <2> QED
    BY <2>1 DEF RemovedGone, Removes
<1>12. SidecarKept'
  BY <1>1, <1>5 DEF SidecarInv, SidecarKept, HasSidecar
<1> QED
  BY <1>9, <1>10, <1>11, <1>12 DEF SidecarInv

(* The other operations begin with what a page shows or the destination has. *)
LEMMA SidecarStarts ==
    ASSUME TypeInv, SidecarInv, NEW t \in Task, Starts(t) \/ StartWarmup(t), ~StartUpload(t)
    PROVE  SidecarInv'
<1>a. /\ remote \subseteq Known /\ DOMAIN cache.rows \subseteq Known
  BY KnownFacts
<1>b. \A kind, step : \A S \in SUBSET Shown :
         step # "uploading" /\ step \notin {"deleteSidecar", "expireSidecar"} =>
           QuietState([[Idle EXCEPT !.step = step, !.todo = S] EXCEPT !.op = kind, !.held = held])
  BY <1>a, FileAssumption DEF QuietState, Removes, Seen, Idle, EmptyListing, Shown
<1>c. ASSUME NEW kind, NEW step, NEW S \in SUBSET Shown, step # "uploading",
             step \notin {"deleteSidecar", "expireSidecar"},
             Begin(t, kind, [Idle EXCEPT !.step = step, !.todo = S]),
             UNCHANGED <<destination, cache, refused>>
      PROVE  SidecarInv'
  BY <1>a, <1>b, <1>c, QuietOwn DEF Begin
<1>1. ASSUME NEW kind \in LockOps, StartLock(t, kind)
      PROVE  SidecarInv'
  <2>1. PICK S \in SUBSET Shown :
           /\ Begin(t, kind, [Idle EXCEPT !.step = "readLock", !.todo = S])
           /\ UNCHANGED <<destination, cache, refused>>
    BY <1>1 DEF StartLock
  <2>2. "readLock" # "uploading" /\ "readLock" \notin {"deleteSidecar", "expireSidecar"}
    OBVIOUS
  <2> QED
    BY <2>1, <2>2, <1>c, Zenon
<1>2. CASE StartVerify(t)
  <2>1. PICK f \in remote :
           /\ Begin(t, "verify", [Idle EXCEPT !.step = "writeVerified", !.file = f,
                                              !.meta = sidecar[f]])
           /\ UNCHANGED <<destination, cache, held, refused>>
    BY <1>2 DEF StartVerify
  <2> DEFINE st == [[Idle EXCEPT !.step = "writeVerified", !.file = f, !.meta = sidecar[f]]
                       EXCEPT !.op = "verify", !.held = held]
  <2>2. QuietState(st)
    BY <1>a DEF QuietState, Removes, Seen, Idle, EmptyListing
  <2>3. Become(t, st)
    BY <2>1 DEF Begin
  <2> HIDE DEF st
  <2> QED
    BY <1>a, <2>1, <2>2, <2>3, QuietOwn
<1>3. ASSUME NEW kind \in DeleteOps, StartDelete(t, kind)
      PROVE  SidecarInv'
  <2> DEFINE step == IF kind = "delete" THEN "listForDelete" ELSE "delete"
  <2>1. PICK S \in SUBSET Shown :
           /\ Begin(t, kind, [Idle EXCEPT !.todo = S, !.step = step])
           /\ UNCHANGED <<destination, cache, held, refused>>
    BY <1>3 DEF StartDelete
  <2>2. [Idle EXCEPT !.todo = S, !.step = step] = [Idle EXCEPT !.step = step, !.todo = S]
    BY DEF Idle
  <2> QED
    BY <2>1, <2>2, <1>c
<1>4. CASE StartRetention(t)
  <2>1. PICK S \in SUBSET {f \in remote : ~enrich(f).locked} :
           /\ Begin(t, "retention", [Idle EXCEPT !.step = "expire", !.todo = S])
           /\ UNCHANGED <<destination, cache, held, refused>>
    BY <1>4 DEF StartRetention
  <2>2. S \in SUBSET Shown /\ UNCHANGED <<destination, cache, refused>>
    BY <2>1 DEF Shown
  <2>3. "expire" # "uploading" /\ "expire" \notin {"deleteSidecar", "expireSidecar"}
    OBVIOUS
  <2> QED
    BY <2>1, <2>2, <2>3, <1>c, Zenon
<1>5. CASE StartRefresh(t)
  <2> DEFINE st == [[Idle EXCEPT !.step = "list"] EXCEPT !.op = "refresh", !.held = held]
  <2>1. QuietState(st)
    BY FileAssumption DEF QuietState, Removes, Seen, Idle, EmptyListing
  <2>2. Become(t, st)
    BY <1>5 DEF StartRefresh, Begin
  <2> HIDE DEF st
  <2> QED
    BY <1>a, <1>5, <2>1, <2>2, QuietOwn DEF StartRefresh
<1>6. CASE StartWarmup(t)
  <2> DEFINE st == [Idle EXCEPT !.op = "warmup",
                      !.step = IF cache.version = "none" THEN "list" ELSE "listRemote"]
  <2>1. QuietState(st)
    BY FileAssumption DEF QuietState, Removes, Seen, Idle, EmptyListing
  <2>2. Become(t, st)
    BY <1>6 DEF StartWarmup
  <2> HIDE DEF st
  <2> QED
    BY <1>a, <1>6, <2>1, <2>2, QuietOwn DEF StartWarmup
<1> QED
  BY <1>1, <1>2, <1>3, <1>4, <1>5, <1>6 DEF Starts, LockOps, DeleteOps

(* The archive arrives where its sidecar is already. *)
LEMMA SidecarUploadArchive ==
    ASSUME TypeInv, SidecarInv, NEW t \in Task, UploadArchive(t)
    PROVE  SidecarInv'
<1> DEFINE f == task[t].file
<1>a. /\ task[t] \in TaskState /\ f \in File /\ QuietState(Idle)
      /\ task[t].todo \subseteq Known /\ task[t].done \subseteq Known
      /\ DOMAIN task[t].rows \subseteq Known /\ DOMAIN cache.rows \subseteq Known
  BY StateFacts, QuietIdle, KnownFacts DEF UploadArchive, At, Shape, FileSteps
<1>b. t \in Uploading /\ f \notin unused \cup Known /\ HasSidecar(f)
  BY DEF UploadArchive, Uploading, SidecarInv, UploadsApart, AwaitedUnknown, Awaited
<1>1. CASE remote' = remote \cup {f} /\ Become(t, [task[t] EXCEPT !.step = "patch"])
  <2> DEFINE st == [task[t] EXCEPT !.step = "patch"]
  <2>1. /\ st.step # "uploading" /\ ~Removes(st) /\ Seen(st) \cap File \subseteq Known \cup {f}
    BY <1>a DEF Removes, Seen, TaskState
  <2>2. Become(t, st)
    BY <1>1
  <2> HIDE DEF st
  <2>3. task'[t] = st /\ \A u \in Task : u # t => task'[u] = task[u]
    BY <2>2, BecomeFacts DEF TypeInv, OthersKept
  <2>4. \A u \in Task : QuietTask(u, {f})
    BY <2>1, <2>3 DEF QuietTask
  <2>5. Quiet({f})
    BY <1>a, <1>1, <2>4 DEF Quiet, UploadArchive
  <2>6. \A u \in Task : task'[u].step = "uploading" => task'[u].file # f
    BY <1>b, <2>1, <2>3 DEF SidecarInv, UploadsApart, Uploading, At
  <2> QED
    BY <1>a, <1>b, <2>5, <2>6, QuietStep
<1>2. CASE Finish(t) /\ UNCHANGED <<remote, held>>
  BY <1>a, <1>2, QuietOwn DEF Finish, UploadArchive, destination
<1> QED
  BY <1>1, <1>2 DEF UploadArchive

(* The steps that write or remove what is known. *)
LEMMA SidecarDestinationSteps ==
    ASSUME TypeInv, SidecarInv, NEW t \in Task,
           WriteLock(t) \/ WriteVerified(t) \/ Delete(t) \/ DeleteSidecar(t) \/ Expire(t)
    PROVE  SidecarInv'
<1>a. task[t] \in TaskState /\ Shape(task[t])
  BY StateFacts
<1>b. /\ DOMAIN cache.rows \subseteq Known /\ DOMAIN task[t].rows \subseteq Known
      /\ task[t].todo \subseteq Known /\ task[t].done \subseteq Known
      /\ ~At(t, "uploading") => {task[t].file} \cap File \subseteq Known
  BY KnownFacts
<1>c. ASSUME NEW st, Become(t, st), st.step # "uploading", Seen(st) \cap File \subseteq Known,
             Removes(st) => st.file \notin remote' \/ st.file \in refused',
             unused' = unused, refused \subseteq refused', remote' \subseteq remote, cache' = cache,
             \A f \in DOMAIN sidecar \ DOMAIN sidecar' : f \in Known /\ (f \in remote' => f \in refused')
      PROVE  SidecarInv'
  <2>1. task'[t] = st /\ \A u \in Task : u # t => task'[u] = task[u]
    BY <1>c, BecomeFacts DEF TypeInv, OthersKept
  <2>2. \A u \in Task : QuietTask(u, {})
    BY <1>c, <2>1 DEF QuietTask
  <2>3. Quiet({})
    BY <1>b, <1>c, <2>2 DEF Quiet
  <2> QED
    BY <2>3, QuietStep
<1>1. CASE WriteLock(t)
  <2> DEFINE st == [task[t] EXCEPT !.step = "readLock", !.done = @ \cup {task[t].file}]
  <2>1. st.step # "uploading" /\ ~Removes(st) /\ Seen(st) \cap File \subseteq Known
    BY <1>a, <1>b, <1>1 DEF WriteLock, At, Seen, Removes, TaskState
  <2>2. DOMAIN sidecar' = DOMAIN sidecar \cup {task[t].file}
    BY <1>1 DEF WriteLock, PutSidecar, Overlay
  <2>3. Become(t, st)
    BY <1>1 DEF WriteLock
  <2> HIDE DEF st
  <2> QED
    BY <1>1, <1>c, <2>1, <2>2, <2>3 DEF WriteLock
<1>2. CASE WriteVerified(t)
  <2> DEFINE st == [task[t] EXCEPT !.step = "patch"]
  <2>1. st.step # "uploading" /\ ~Removes(st) /\ Seen(st) \cap File \subseteq Known
    BY <1>a, <1>b, <1>2 DEF WriteVerified, At, Seen, Removes, TaskState
  <2>2. DOMAIN sidecar' = DOMAIN sidecar \cup {task[t].file}
    BY <1>2 DEF WriteVerified, PutSidecar, Overlay
  <2>3. Become(t, st)
    BY <1>2 DEF WriteVerified
  <2> HIDE DEF st
  <2> QED
    BY <1>2, <1>c, <2>1, <2>2, <2>3 DEF WriteVerified, ghosts
<1>3. CASE Delete(t)
  <2>1. CASE task[t].todo = {}
    <3>1. QuietState([task[t] EXCEPT !.step = "patch"]) /\ QuietState(Idle)
      BY <1>a, <1>b, <1>3, QuietIdle DEF QuietState, Delete, At, Seen, Removes, TaskState
    <3>2. Become(t, Idle) \/ Become(t, [task[t] EXCEPT !.step = "patch"])
      BY <1>3, <2>1 DEF Delete, EndBatch
    <3>3. UNCHANGED <<destination, cache, refused>>
      BY <1>3, <2>1 DEF Delete, destination, ghosts
    <3> QED
      BY <1>b, <3>1, <3>2, <3>3, QuietOwn
  <2>2. CASE task[t].todo # {}
    <3> DEFINE rest(f) == [task[t] EXCEPT !.todo = @ \ {f}]
               gone(f) == [rest(f) EXCEPT !.step = "deleteSidecar", !.file = f]
    <3>1. PICK f \in task[t].todo :
             \/ Become(t, rest(f)) /\ UNCHANGED <<remote, refused>>
             \/ /\ remote' = remote \ {f}
                /\ Become(t, gone(f))
                /\ UNCHANGED refused
             \/ /\ Become(t, rest(f)) /\ UNCHANGED <<remote, refused>>
             \/ /\ Become(t, gone(f))
                /\ refused' = refused \cup {f}
                /\ UNCHANGED remote
      BY <1>3, <2>2 DEF Delete, ghosts
    <3>2. /\ rest(f).step # "uploading" /\ ~Removes(rest(f)) /\ Seen(rest(f)) \cap File \subseteq Known
          /\ gone(f).step # "uploading" /\ gone(f).file = f /\ Seen(gone(f)) \cap File \subseteq Known
      BY <1>a, <1>b, <1>3 DEF Delete, At, Seen, Removes, TaskState
    <3>3. unused' = unused /\ cache' = cache /\ sidecar' = sidecar
      BY <1>3 DEF Delete
    <3> HIDE DEF rest, gone
    <3> QED
      BY <1>c, <3>1, <3>2, <3>3
  <2> QED
    BY <2>1, <2>2
<1>4. CASE DeleteSidecar(t)
  <2> DEFINE st == [task[t] EXCEPT !.step = "delete", !.done = @ \cup {task[t].file}]
  <2>1. st.step # "uploading" /\ ~Removes(st) /\ Seen(st) \cap File \subseteq Known
    BY <1>a, <1>b, <1>4 DEF DeleteSidecar, At, Seen, Removes, TaskState
  <2>2. DOMAIN sidecar \ DOMAIN sidecar' \subseteq {task[t].file}
    BY <1>4 DEF DeleteSidecar, RemoveSidecar, Restrict
  <2>3. task[t].file \in Known /\ (task[t].file \notin remote \/ task[t].file \in refused)
    BY <1>a, <1>b, <1>4 DEF DeleteSidecar, At, Shape, FileSteps, SidecarInv, RemovedGone, Removes
  <2>4. Become(t, st)
    BY <1>4 DEF DeleteSidecar
  <2> HIDE DEF st
  <2> QED
    BY <1>4, <1>c, <2>1, <2>2, <2>3, <2>4 DEF DeleteSidecar, ghosts
<1>5. CASE Expire(t)
  <2>1. PICK f \in task[t].todo :
          /\ \/ remote' = remote \ {f} /\ UNCHANGED refused
             \/ refused' = refused \cup {f} /\ UNCHANGED remote
          /\ Become(t, [task[t] EXCEPT !.step = "expireSidecar", !.file = f, !.todo = @ \ {f}])
    BY <1>5 DEF Expire
  <2> DEFINE st == [task[t] EXCEPT !.step = "expireSidecar", !.file = f, !.todo = @ \ {f}]
  <2>2. st.step # "uploading" /\ st.file = f /\ Seen(st) \cap File \subseteq Known
    BY <1>a, <1>b, <1>5 DEF Expire, At, Seen, Removes, TaskState
  <2>3. unused' = unused /\ cache' = cache /\ sidecar' = sidecar
    BY <1>5 DEF Expire
  <2>4. Become(t, st)
    BY <2>1
  <2> HIDE DEF st
  <2> QED
    BY <1>c, <2>1, <2>2, <2>3, <2>4
<1> QED
  BY <1>1, <1>2, <1>3, <1>4, <1>5

LEMMA SidecarExpireSidecar ==
    ASSUME TypeInv, SidecarInv, NEW t \in Task, ExpireSidecar(t)
    PROVE  SidecarInv'
<1> DEFINE f == task[t].file
           removal == [Idle EXCEPT !.op = "remove", !.step = "patch", !.done = {f}]
           next == [task[t] EXCEPT !.step = "expire"]
<1>a. task[t] \in TaskState /\ Shape(task[t]) /\ f \in File
  BY StateFacts DEF ExpireSidecar, At, Shape, FileSteps
<1>b. /\ DOMAIN cache.rows \subseteq Known /\ DOMAIN task[t].rows \subseteq Known
      /\ task[t].todo \subseteq Known /\ task[t].done \subseteq Known /\ f \in Known
  BY <1>a, KnownFacts DEF ExpireSidecar, At
<1>c. f \notin remote \/ f \in refused
  BY DEF ExpireSidecar, At, SidecarInv, RemovedGone, Removes
<1>d. QuietState(removal)
  BY <1>b, FileAssumption DEF QuietState, Removes, Seen, Idle, EmptyListing
<1>e. QuietState(next)
  BY <1>a, <1>b DEF QuietState, Removes, Seen, TaskState
<1>f. /\ DOMAIN sidecar \ DOMAIN sidecar' \subseteq {f}
      /\ UNCHANGED <<remote, unused, cache, refused>>
  BY DEF ExpireSidecar, RemoveSidecar, Restrict
<1>1. \A u \in Task : task'[u] \in {task[u], removal, next}
  <2>1. CASE Become(t, removal)
    BY <2>1, BecomeFacts DEF TypeInv, OthersKept
  <2>2. CASE \E u \in Task \ {t} : task' = [task EXCEPT ![t].step = "expire", ![u] = removal]
    <3>1. PICK u \in Task \ {t} : task' = [task EXCEPT ![t].step = "expire", ![u] = removal]
      BY <2>2
    <3> HIDE DEF removal
    <3> QED
      BY <3>1 DEF TypeInv, TypeOK
  <2> QED
    BY <2>1, <2>2 DEF ExpireSidecar
<1> HIDE DEF removal, next
<1>2. \A u \in Task : QuietTask(u, {})
  BY <1>1, <1>d, <1>e DEF QuietTask, QuietState
<1>3. Quiet({})
  BY <1>b, <1>c, <1>f, <1>2 DEF Quiet
<1> QED
  BY <1>3, QuietStep

THEOREM SidecarInvariance == Spec => [](TypeInv /\ SidecarInv)
<1>1. Init => SidecarInv
  <2> SUFFICES ASSUME Init PROVE SidecarInv
    OBVIOUS
  <2>1. unused = File \ remote /\ DOMAIN sidecar = remote /\ DOMAIN cache.rows = {}
        /\ \A t \in Task : task[t] = Idle
    BY DEF Init, NoCache, EmptyListing
  <2>2. Idle.step = "idle" /\ Seen(Idle) = {"none"}
    BY DEF Idle, Seen, EmptyListing
  <2>3. Uploading = {} /\ Awaited = unused /\ Known \subseteq remote
    BY <2>1, <2>2, FileAssumption DEF Uploading, Awaited, Known, At
  <2> QED
    BY <2>1, <2>2, <2>3 DEF SidecarInv, AwaitedUnknown, UploadsApart, RemovedGone, Removes,
                            SidecarKept, HasSidecar
<1>2. TypeInv /\ SidecarInv /\ TypeInv' /\ [Next]_vars => SidecarInv'
  <2> SUFFICES ASSUME TypeInv, SidecarInv, [Next]_vars PROVE SidecarInv'
    OBVIOUS
  <2>1. ASSUME NEW t \in Task, Starts(t) \/ StartWarmup(t)
        PROVE  SidecarInv'
    BY <2>1, SidecarStarts, SidecarStartUpload
  <2>2. ASSUME NEW t \in Task, Steps(t)
        PROVE  SidecarInv'
    BY <2>2, SidecarOwnSteps, SidecarCacheSteps, SidecarUploadArchive, SidecarDestinationSteps,
       SidecarExpireSidecar DEF Steps
  <2>3. CASE GrowStale
    <3>1. cache'.rows = cache.rows
      BY <2>3 DEF GrowStale, TypeInv, TypeOK, Cache
    <3>2. Quiet({})
      BY <2>3, <3>1, KnownFacts DEF Quiet, QuietTask, GrowStale, destination, ghosts
    <3> QED
      BY <3>2, <2>3, QuietStep DEF GrowStale
  <2>4. CASE DeleteOutside
    <3>1. PICK f \in remote : remote' = remote \ {f} /\ RemoveSidecar(f)
      BY <2>4 DEF DeleteOutside
    <3>2. f \in Known /\ DOMAIN sidecar \ DOMAIN sidecar' \subseteq {f}
      BY <3>1, KnownFacts DEF RemoveSidecar, Restrict
    <3>3. Quiet({})
      BY <2>4, <3>1, <3>2, KnownFacts DEF Quiet, QuietTask, DeleteOutside
    <3> QED
      BY <3>3, QuietStep
  <2>5. CASE Crash
    <3>1. \A u \in Task : task'[u] = Idle
      BY <2>5 DEF Crash
    <3>2. Quiet({})
      BY <2>5, <3>1, KnownFacts, QuietIdle DEF Quiet, QuietTask, QuietState, Crash, destination
    <3> QED
      BY <3>2, QuietStep
  <2>6. CASE UNCHANGED vars
    <3>1. Quiet({})
      BY <2>6, KnownFacts DEF Quiet, QuietTask, vars
    <3> QED
      BY <3>1, QuietStep
  <2> QED
    BY <2>1, <2>2, <2>3, <2>4, <2>5, <2>6 DEF Next
<1> QED
  BY <1>1, <1>2, TypeInvariance, PTL DEF Spec

(* Whatever is interrupted, refused, deleted outside or run at once, and    *)
(* for any number of operations: a backup that is on the destination has    *)
(* its sidecar, unless delete() refused the archive and its caller went on. *)
THEOREM SidecarsStay == Spec => []SidecarKept
<1>1. SidecarInv => SidecarKept
  BY DEF SidecarInv
<1> QED
  BY <1>1, SidecarInvariance, PTL

-----------------------------------------------------------------------------
(* While no two operations met and none failed, one is in flight at most,   *)
(* and at each of its steps the listing is what the change it still owes    *)
(* makes of it.                                                             *)
Shows(rows) == DOMAIN rows = remote /\ \A f \in remote : rows[f] = enrich(f)
IsCurrent == cache.version = "current"
Exact == IsCurrent => Shows(cache.rows)
(* The paths of S are gone, and their rows may still be there. *)
ExactWithout(S) ==
    /\ S \cap remote = {}
    /\ IsCurrent => /\ DOMAIN cache.rows \ S = remote
                    /\ \A f \in remote : cache.rows[f] = enrich(f)
(* The sidecars of done have the new flag, their rows may have the old one. *)
Relocked(st) ==
    /\ st.todo \cap st.done = {}
    /\ \A f \in st.done : HasSidecar(f) /\ sidecar[f].locked = st.meta.locked
    /\ IsCurrent => /\ DOMAIN cache.rows = remote
                    /\ \A f \in remote : enrich(f) = IF f \in st.done
                                     THEN [cache.rows[f] EXCEPT !.locked = st.meta.locked]
                                     ELSE cache.rows[f]
Locking(st) ==
    /\ Relocked(st)
    /\ st.op # "toggle" /\ st.done # {} => st.meta.locked = (st.op = "lock")
    /\ st.op = "toggle" => \E f \in File : st.todo \subseteq {f} /\ (st.todo = {} \/ st.done = {})
LockDue(st) ==
    /\ Relocked(st)
    /\ st.file \notin st.done \cup st.todo
    /\ HasSidecar(st.file) /\ st.meta = [sidecar[st.file] EXCEPT !.locked = ~@]
    /\ st.op # "toggle" => st.meta.locked = (st.op = "lock")
    /\ st.op = "toggle" => st.todo = {} /\ st.done = {}
PatchDue(st) ==
    IsCurrent => Shows(IF Touched(st, cache.rows) THEN Patched(st, cache.rows) ELSE cache.rows)
SerialOk(st) ==
    /\ st.step \in {"uploading", "writeVerified", "listForDelete", "expire", "list", "enrich",
                    "listRemote", "compare", "touch"} => Exact
    /\ st.step \in {"uploading", "writeVerified"} => HasSidecar(st.file) /\ st.meta = sidecar[st.file]
    /\ st.step = "readLock" => Locking(st)
    /\ st.step = "writeLock" => LockDue(st)
    /\ st.step = "delete" => ExactWithout(st.done)
    /\ st.step = "deleteSidecar" => ExactWithout(st.done \cup {st.file})
    /\ st.step = "expireSidecar" => ExactWithout({st.file})
    /\ st.step = "patch" => PatchDue(st)
    /\ st.step \in {"store", "upsert"} => Shows(st.rows)
    /\ st.step \in {"listForDelete", "list", "upsert"} => st.done = {}
    /\ st.step \in {"enrich", "compare"} => st.done = remote
    /\ st.step # "enrichNew"
SerialInv ==
    ~disturbed =>
        /\ \A t, u \in Task : ~At(t, "idle") /\ ~At(u, "idle") => t = u
        /\ AllIdle => Exact
        /\ \A t \in Task : ~At(t, "idle") => SerialOk(task[t])

LEMMA SerialNow ==
    ASSUME SerialInv, ~disturbed, NEW t \in Task, ~At(t, "idle")
    PROVE  SerialOk(task[t]) /\ \A u \in Task : u # t => At(u, "idle")
BY DEF SerialInv

LEMMA SerialStep ==
    ASSUME TypeInv, SerialInv, ~disturbed, NEW t \in Task, NEW st, Become(t, st),
           ~At(t, "idle") \/ AllIdle,
           st.step = "idle" => Exact',
           st.step # "idle" => SerialOk(st)'
    PROVE  SerialInv'
<1>1. task'[t] = st /\ \A u \in Task : u # t => task'[u] = task[u]
  BY BecomeFacts DEF TypeInv, OthersKept
<1>2. \A u \in Task : u # t => task'[u].step = "idle"
  BY <1>1 DEF SerialInv, AllIdle, At
<1>3. \A u, v \in Task : task'[u].step # "idle" /\ task'[v].step # "idle" => u = v
  BY <1>2
<1>4. (\A u \in Task : task'[u].step = "idle") => Exact'
  BY <1>1
<1>5. ASSUME NEW u \in Task, task'[u].step # "idle"
      PROVE  task'[u] = st /\ SerialOk(st)'
  BY <1>1, <1>2, <1>5
<1>6. \A u \in Task : task'[u].step # "idle" => SerialOk(task[u])'
  BY <1>5, Zenon
<1> QED
  BY <1>3, <1>4, <1>6, Zenon DEF SerialInv, AllIdle, At

(* A step that leaves the destination and the listing alone. *)
LEMMA SerialOwn ==
    ASSUME TypeInv, SerialInv, ~disturbed, NEW t \in Task, NEW st, Become(t, st),
           ~At(t, "idle") \/ AllIdle, UNCHANGED <<remote, sidecar, cache>>,
           st.step = "idle" => Exact,
           st.step # "idle" => SerialOk(st)
    PROVE  SerialInv'
<1>1. Exact' <=> Exact
  BY DEF Exact, IsCurrent, Shows, enrich, HasSidecar
<1>2. Locking(st)' <=> Locking(st)
  BY DEF Locking, Relocked, IsCurrent, enrich, HasSidecar
<1>3. LockDue(st)' <=> LockDue(st)
  BY DEF LockDue, Relocked, IsCurrent, enrich, HasSidecar
<1>4. \A S : ExactWithout(S)' <=> ExactWithout(S)
  BY DEF ExactWithout, IsCurrent, enrich, HasSidecar
<1>5. PatchDue(st)' <=> PatchDue(st)
  <2>1. \A rows : Shows(rows)' <=> Shows(rows)
    BY DEF Shows, enrich, HasSidecar
  <2> DEFINE due == IF Touched(st, cache.rows) THEN Patched(st, cache.rows) ELSE cache.rows
  <2> QED
    BY DEF PatchDue, IsCurrent, Shows, enrich, HasSidecar, Touched, Patched
<1>6. \A rows : Shows(rows)' <=> Shows(rows)
  BY DEF Shows, enrich, HasSidecar
<1>7. SerialOk(st)' <=> SerialOk(st)
  <2>1. (HasSidecar(st.file) /\ st.meta = sidecar[st.file])'
           <=> HasSidecar(st.file) /\ st.meta = sidecar[st.file]
    BY DEF HasSidecar
  <2>2. (st.done = remote)' <=> st.done = remote
    OBVIOUS
  <2> QED
    BY <1>1, <1>2, <1>3, <1>4, <1>5, <1>6, <2>1, <2>2 DEF SerialOk
<1> QED
  BY <1>1, <1>7, SerialStep

(* What each kind of operation owes the listing, row by row. *)
LEMMA DeletePatch ==
    ASSUME TypeInv, NEW st, st.op \in {"delete", "deleteOne", "remove"}, ExactWithout(st.done)
    PROVE  PatchDue(st)
<1> SUFFICES ASSUME IsCurrent
             PROVE  Shows(IF Touched(st, cache.rows) THEN Patched(st, cache.rows) ELSE cache.rows)
  BY DEF PatchDue
<1>1. Patched(st, cache.rows) = Restrict(cache.rows, DOMAIN cache.rows \ st.done)
  BY DEF Patched
<1>2. Touched(st, cache.rows) <=> st.done \cap DOMAIN cache.rows # {}
  BY DEF Touched
<1>3. Shows(Restrict(cache.rows, DOMAIN cache.rows \ st.done))
  BY DEF ExactWithout, Shows, Restrict
<1>4. st.done \cap DOMAIN cache.rows = {} => Shows(cache.rows)
  BY DEF ExactWithout, Shows
<1> QED
  BY <1>1, <1>2, <1>3, <1>4

LEMMA LockPatch ==
    ASSUME TypeInv, NEW st, st.op \in LockOps, Relocked(st)
    PROVE  PatchDue(st) /\ (st.done = {} => Exact)
<1>1. ASSUME IsCurrent
      PROVE  Shows(IF Touched(st, cache.rows) THEN Patched(st, cache.rows) ELSE cache.rows)
  <2>1. Patched(st, cache.rows) = [f \in DOMAIN cache.rows |-> IF f \in st.done
                               THEN [cache.rows[f] EXCEPT !.locked = st.meta.locked]
                               ELSE cache.rows[f]]
    BY DEF Patched, LockOps
  <2>2. Touched(st, cache.rows) <=> st.done \cap DOMAIN cache.rows # {}
    BY DEF Touched, LockOps
  <2>3. Shows(Patched(st, cache.rows))
    BY <1>1, <2>1 DEF Shows, Relocked
  <2>4. st.done \cap DOMAIN cache.rows = {} => Shows(cache.rows)
    BY <1>1 DEF Shows, Relocked
  <2> QED
    BY <2>2, <2>3, <2>4
<1> QED
  BY <1>1 DEF PatchDue, Relocked, Exact, Shows

(* What the next operation of a step is, as far as the invariant sees it. *)
LEMMA SerialFacts ==
    ASSUME TypeInv, SerialInv, ~disturbed, NEW t \in Task, ~At(t, "idle")
    PROVE  /\ task[t] \in TaskState /\ Shape(task[t]) /\ SerialOk(task[t])
           /\ task[t].todo \subseteq File /\ task[t].done \subseteq File
           /\ task[t].meta \in Metadata
           /\ remote \subseteq File /\ cache \in Cache
BY StateFacts, SerialNow DEF TypeInv, TypeOK

LEMMA SerialReadLock ==
    ASSUME TypeInv, SerialInv, ~disturbed, NEW t \in Task, ReadLock(t)
    PROVE  SerialInv'
<1>a. ~At(t, "idle") /\ task[t].step = "readLock"
  BY DEF ReadLock, At
<1>b. /\ task[t] \in TaskState /\ task[t].op \in LockOps /\ Locking(task[t])
      /\ task[t].todo \subseteq File /\ task[t].done \subseteq File /\ task[t].meta \in Metadata
  BY <1>a, SerialFacts DEF Shape, SerialOk
<1>c. UNCHANGED <<remote, sidecar, cache>>
  BY DEF ReadLock, destination
<1>1. CASE task[t].todo = {}
  <2>1. CASE task[t].done = {}
    <3>1. Become(t, Idle) /\ Idle.step = "idle"
      BY <1>1, <2>1 DEF ReadLock, EndBatch, Idle
    <3>2. Exact
      BY <1>b, <2>1, LockPatch DEF Locking
    <3> QED
      BY <1>a, <1>c, <3>1, <3>2, SerialOwn
  <2>2. CASE task[t].done # {}
    <3>1. PICK st : st = [task[t] EXCEPT !.step = "patch"]
      OBVIOUS
    <3>2. Become(t, st)
      BY <1>1, <2>2, <3>1 DEF ReadLock, EndBatch
    <3>3. /\ st.step = "patch" /\ st.op \in LockOps
          /\ st.todo = task[t].todo /\ st.done = task[t].done /\ st.meta = task[t].meta
      BY <1>b, <3>1 DEF TaskState
    <3>4. Relocked(st)
      BY <1>b, <3>3 DEF Locking, Relocked
    <3>5. SerialOk(st)
      BY <3>3, <3>4, LockPatch DEF SerialOk
    <3> QED
      BY <1>a, <1>c, <3>2, <3>3, <3>5, SerialOwn
  <2> QED
    BY <2>1, <2>2
<1>2. CASE task[t].todo # {}
  <2>1. PICK f \in task[t].todo :
            LET rest == [task[t] EXCEPT !.todo = @ \ {f}]
                wanted == IF task[t].op = "toggle" THEN ~sidecar[f].locked
                          ELSE task[t].op = "lock"
            IN \/ /\ ~HasSidecar(f)
                  /\ Become(t, rest)
               \/ /\ HasSidecar(f)
                  /\ sidecar[f].locked = wanted
                  /\ Become(t, [rest EXCEPT !.done = @ \cup {f}, !.meta = sidecar[f]])
               \/ /\ HasSidecar(f)
                  /\ sidecar[f].locked # wanted
                  /\ Become(t, [rest EXCEPT !.step = "writeLock", !.file = f,
                                    !.meta = [sidecar[f] EXCEPT !.locked = wanted]])
    BY <1>2 DEF ReadLock
  <2> DEFINE rest == [task[t] EXCEPT !.todo = @ \ {f}]
             wanted == IF task[t].op = "toggle" THEN ~sidecar[f].locked
                       ELSE task[t].op = "lock"
  <2>a. f \notin task[t].done /\ f \in File
    BY <1>b DEF Locking, Relocked
  <2>b. HasSidecar(f) => sidecar[f] \in Metadata /\ sidecar[f].locked \in BOOLEAN
    BY SidecarType DEF TypeInv, Metadata
  <2>c. wanted \in BOOLEAN
    OBVIOUS
  <2>2. CASE ~HasSidecar(f) /\ Become(t, rest)
    <3>1. PICK st : st = rest
      OBVIOUS
    <3>2. /\ st.step = "readLock" /\ st.op = task[t].op /\ st.todo = task[t].todo \ {f}
          /\ st.done = task[t].done /\ st.meta = task[t].meta
      BY <1>a, <1>b, <3>1 DEF TaskState
    <3>3. Locking(st)
      BY <1>b, <3>2 DEF Locking, Relocked
    <3>4. SerialOk(st)
      BY <3>2, <3>3 DEF SerialOk
    <3> QED
      BY <1>a, <1>c, <2>2, <3>1, <3>2, <3>4, SerialOwn
  <2>3. CASE /\ HasSidecar(f) /\ sidecar[f].locked = wanted
             /\ Become(t, [rest EXCEPT !.done = @ \cup {f}, !.meta = sidecar[f]])
    <3>1. PICK st : st = [rest EXCEPT !.done = @ \cup {f}, !.meta = sidecar[f]]
      OBVIOUS
    <3>2. /\ st.step = "readLock" /\ st.op = task[t].op /\ st.todo = task[t].todo \ {f}
          /\ st.done = task[t].done \cup {f} /\ st.meta = sidecar[f]
      BY <1>a, <1>b, <3>1 DEF TaskState
    <3>3. task[t].op # "toggle" /\ sidecar[f].locked = (task[t].op = "lock")
      BY <2>3, <2>b
    <3>4. task[t].done # {} => task[t].meta.locked = sidecar[f].locked
      BY <1>b, <3>3 DEF Locking
    <3>5. ASSUME IsCurrent, NEW g \in remote
          PROVE  enrich(g) = IF g \in st.done THEN [cache.rows[g] EXCEPT !.locked = st.meta.locked]
                                               ELSE cache.rows[g]
      <4>1. CASE g = f
        <5>1. cache.rows[f] = sidecar[f]
          BY <1>b, <2>3, <2>a, <3>5, <4>1 DEF Locking, Relocked, enrich
        <5>2. [sidecar[f] EXCEPT !.locked = sidecar[f].locked] = sidecar[f]
          BY <2>3, <2>b DEF Metadata
        <5> QED
          BY <2>3, <3>2, <4>1, <5>1, <5>2 DEF enrich
      <4>2. CASE g # f
        BY <1>b, <3>2, <3>4, <3>5, <4>2 DEF Locking, Relocked
      <4> QED
        BY <4>1, <4>2
    <3>6. \A g \in st.done : HasSidecar(g) /\ sidecar[g].locked = st.meta.locked
      BY <1>b, <2>3, <3>2, <3>4 DEF Locking, Relocked
    <3>7. Locking(st)
      BY <1>b, <2>a, <3>2, <3>3, <3>5, <3>6 DEF Locking, Relocked
    <3>8. SerialOk(st)
      BY <3>2, <3>7 DEF SerialOk
    <3> QED
      BY <1>a, <1>c, <2>3, <3>1, <3>2, <3>8, SerialOwn
  <2>4. CASE /\ HasSidecar(f) /\ sidecar[f].locked # wanted
             /\ Become(t, [rest EXCEPT !.step = "writeLock", !.file = f,
                                       !.meta = [sidecar[f] EXCEPT !.locked = wanted]])
    <3>1. PICK st : st = [rest EXCEPT !.step = "writeLock", !.file = f,
                                       !.meta = [sidecar[f] EXCEPT !.locked = wanted]]
      OBVIOUS
    <3>2. /\ st.step = "writeLock" /\ st.op = task[t].op /\ st.todo = task[t].todo \ {f}
          /\ st.done = task[t].done /\ st.file = f
          /\ st.meta = [sidecar[f] EXCEPT !.locked = wanted]
      BY <1>a, <1>b, <3>1 DEF TaskState
    <3>3. wanted = ~sidecar[f].locked /\ st.meta.locked = wanted
      BY <2>4, <2>b, <2>c, <3>2 DEF Metadata
    <3>4. task[t].op # "toggle" => wanted = (task[t].op = "lock")
      OBVIOUS
    <3> HIDE DEF wanted
    <3>5. task[t].done # {} /\ task[t].op # "toggle" => task[t].meta.locked = st.meta.locked
      BY <1>b, <3>3, <3>4 DEF Locking
    <3>6. task[t].op = "toggle" => st.todo = {} /\ st.done = {}
      BY <1>b, <3>2 DEF Locking
    <3>7. Relocked(st)
      BY <1>b, <2>a, <3>2, <3>5, <3>6 DEF Locking, Relocked
    <3>8. LockDue(st)
      BY <2>4, <2>a, <3>2, <3>3, <3>4, <3>6, <3>7 DEF LockDue
    <3>9. SerialOk(st)
      BY <3>2, <3>8 DEF SerialOk
    <3> QED
      BY <1>a, <1>c, <2>4, <3>1, <3>2, <3>9, SerialOwn DEF wanted
  <2> QED
    BY <2>1, <2>2, <2>3, <2>4
<1> QED
  BY <1>1, <1>2

LEMMA SerialOwnSteps ==
    ASSUME TypeInv, SerialInv, ~disturbed, NEW t \in Task,
           ListForDelete(t) \/ ReadCache(t) \/ List(t) \/ Enrich(t)
              \/ ListRemote(t) \/ Compare(t) \/ EnrichNew(t)
    PROVE  SerialInv'
<1>a. ~At(t, "idle") /\ UNCHANGED <<remote, sidecar, cache>>
  BY DEF ListForDelete, ReadCache, List, Enrich, ListRemote, Compare, EnrichNew, At, destination
<1>b. task[t] \in TaskState /\ Shape(task[t]) /\ SerialOk(task[t]) /\ cache \in Cache
  BY <1>a, SerialFacts
<1>c. Idle.step = "idle"
  BY DEF Idle
<1>d. cache.version \in {"none", "old", "current"}
  BY <1>b DEF Cache
<1>1. CASE ListForDelete(t)
  <2>1. PICK st : st = IF cache.version = "current"
                       THEN [task[t] EXCEPT !.step = "delete", !.rows = cache.rows]
                       ELSE [task[t] EXCEPT !.step = "list"]
    OBVIOUS
  <2>2. Become(t, st)
    BY <1>1, <2>1 DEF ListForDelete
  <2>3. Exact /\ task[t].done = {}
    BY <1>1, <1>b DEF ListForDelete, At, SerialOk
  <2>4. st.done = {} /\ st.step \in {"delete", "list"}
    BY <1>b, <2>1, <2>3 DEF TaskState
  <2>5. SerialOk(st)
    BY <2>3, <2>4 DEF SerialOk, ExactWithout, Exact, Shows
  <2> QED
    BY <1>a, <2>2, <2>4, <2>5, SerialOwn
<1>2. CASE ReadCache(t)
  <2>1. PatchDue(task[t])
    BY <1>2, <1>b DEF ReadCache, At, SerialOk
  <2>3. CASE cache.version = "old" /\ Become(t, [task[t] EXCEPT !.step = "drop"])
    <3>1. PICK st : st = [task[t] EXCEPT !.step = "drop"]
      OBVIOUS
    <3>2. st.step = "drop"
      BY <1>b, <3>1 DEF TaskState
    <3>3. SerialOk(st)
      BY <3>2 DEF SerialOk
    <3> QED
      BY <1>a, <2>3, <3>1, <3>2, <3>3, SerialOwn
  <2>4. CASE /\ cache.version = "current" /\ Touched(task[t], cache.rows)
             /\ Become(t, [task[t] EXCEPT !.step = "store", !.rows = Patched(task[t], cache.rows)])
    <3>1. PICK rows : rows = Patched(task[t], cache.rows)
      OBVIOUS
    <3>2. PICK st : st = [task[t] EXCEPT !.step = "store", !.rows = rows]
      OBVIOUS
    <3>3. st.step = "store" /\ st.rows = rows
      BY <1>b, <3>2 DEF TaskState
    <3>4. Shows(rows)
      BY <2>1, <2>4, <3>1 DEF PatchDue, IsCurrent
    <3>5. SerialOk(st)
      BY <3>3, <3>4 DEF SerialOk
    <3> QED
      BY <1>a, <2>4, <3>1, <3>2, <3>3, <3>5, SerialOwn
  <2>5. /\ \/ Finish(t) /\ cache.version = "none"
           \/ cache.version = "old" /\ Become(t, [task[t] EXCEPT !.step = "drop"])
           \/ /\ cache.version = "current" /\ Touched(task[t], cache.rows)
              /\ Become(t, [task[t] EXCEPT !.step = "store", !.rows = Patched(task[t], cache.rows)])
           \/ cache.version = "current" /\ ~Touched(task[t], cache.rows) /\ Finish(t)
    BY <1>2 DEF ReadCache
  <2>6. CASE Finish(t) /\ (cache.version = "none" \/ ~Touched(task[t], cache.rows))
    <3>1. Exact
      BY <2>1, <2>6 DEF PatchDue, Exact, IsCurrent
    <3> QED
      BY <1>a, <1>c, <2>6, <3>1, SerialOwn DEF Finish
  <2> QED
    BY <2>3, <2>4, <2>5, <2>6
<1>3. CASE List(t)
  <2>1. PICK st : st = [task[t] EXCEPT !.step = "enrich", !.done = remote]
    OBVIOUS
  <2>2. st.step = "enrich" /\ st.done = remote /\ Become(t, st)
    BY <1>3, <1>b, <2>1 DEF TaskState, List
  <2>3. SerialOk(st)
    BY <1>3, <1>b, <2>2 DEF SerialOk, List, At
  <2> QED
    BY <1>a, <2>2, <2>3, SerialOwn
<1>4. CASE Enrich(t)
  <2>1. PICK rows : rows = [f \in task[t].done |-> enrich(f)]
    OBVIOUS
  <2>2. PICK st : st = [task[t] EXCEPT !.step = "upsert", !.done = {}, !.rows = rows]
    OBVIOUS
  <2>3. st.step = "upsert" /\ st.done = {} /\ st.rows = rows /\ Become(t, st)
    BY <1>4, <1>b, <2>1, <2>2 DEF TaskState, Enrich
  <2>4. task[t].done = remote
    BY <1>4, <1>b DEF SerialOk, Enrich, At
  <2>5. Shows(rows)
    BY <2>1, <2>4 DEF Shows
  <2>6. SerialOk(st)
    BY <2>3, <2>5 DEF SerialOk
  <2> QED
    BY <1>a, <2>3, <2>6, SerialOwn
<1>5. CASE ListRemote(t)
  <2>1. PICK st : st = [task[t] EXCEPT !.step = "compare", !.done = remote]
    OBVIOUS
  <2>2. st.step = "compare" /\ st.done = remote /\ Become(t, st)
    BY <1>5, <1>b, <2>1 DEF TaskState, ListRemote
  <2>3. SerialOk(st)
    BY <1>5, <1>b, <2>2 DEF SerialOk, ListRemote, At
  <2> QED
    BY <1>a, <2>2, <2>3, SerialOwn
<1>6. CASE Compare(t)
  <2>1. task[t].done = remote /\ Exact
    BY <1>6, <1>b DEF SerialOk, Compare, At
  <2>2. cache.version = "current" => DOMAIN cache.rows = task[t].done
    BY <2>1 DEF Exact, IsCurrent, Shows
  <2>a. \/ Become(t, Idle)
        \/ Become(t, [task[t] EXCEPT !.step = "drop", !.done = {}])
        \/ Become(t, [Idle EXCEPT !.op = "warmup", !.step = "touch"])
    BY <1>6, <2>2 DEF Compare, Finish
  <2>3. ASSUME NEW st, Become(t, st), st.step \in {"idle", "drop", "touch"}
        PROVE  SerialInv'
    <3>1. SerialOk(st)
      BY <2>1, <2>3 DEF SerialOk
    <3> QED
      BY <1>a, <2>1, <2>3, <3>1, SerialOwn
  <2>4. /\ [task[t] EXCEPT !.step = "drop", !.done = {}].step = "drop"
        /\ [Idle EXCEPT !.op = "warmup", !.step = "touch"].step = "touch"
    BY <1>b DEF TaskState, Idle
  <2> QED
    BY <1>c, <2>a, <2>3, <2>4
<1>7. CASE EnrichNew(t)
  BY <1>7, <1>b DEF SerialOk, EnrichNew, At
<1> QED
  BY <1>1, <1>2, <1>3, <1>4, <1>5, <1>6, <1>7

LEMMA SerialCacheSteps ==
    ASSUME TypeInv, SerialInv, ~disturbed, NEW t \in Task,
           DropCache(t) \/ StoreCache(t) \/ Upsert(t) \/ Touch(t)
    PROVE  SerialInv'
<1>a. ~At(t, "idle") /\ remote' = remote /\ sidecar' = sidecar
  BY DEF DropCache, StoreCache, Upsert, Touch, At, destination
<1>b. task[t] \in TaskState /\ Shape(task[t]) /\ SerialOk(task[t]) /\ cache \in Cache
  BY <1>a, SerialFacts
<1>c. Idle.step = "idle"
  BY DEF Idle
<1>d. \A rows : Shows(rows)' <=> Shows(rows)
  BY <1>a DEF Shows, enrich, HasSidecar
<1>1. CASE DropCache(t)
  <2>1. Exact'
    BY <1>1 DEF DropCache, NoCache, Exact, IsCurrent
  <2> QED
    BY <1>1, <1>a, <1>c, <2>1, SerialStep DEF DropCache, Finish
<1>2. CASE StoreCache(t)
  <2>1. Shows(task[t].rows)
    BY <1>2, <1>b DEF StoreCache, At, SerialOk
  <2>2. Exact'
    <3>1. CASE cache.version = "none"
      BY <1>2, <3>1 DEF StoreCache, Exact, IsCurrent
    <3>2. CASE cache.version # "none"
      <4>1. cache'.rows = task[t].rows
        BY <1>2, <3>2 DEF StoreCache, Current
      <4>2. DOMAIN cache'.rows = remote' /\ \A f \in remote' : cache'.rows[f] = enrich(f)
        BY <1>a, <2>1, <4>1 DEF Shows
      <4> QED
        BY <1>a, <4>2 DEF Exact, Shows, enrich, HasSidecar
    <3> QED
      BY <3>1, <3>2
  <2> QED
    BY <1>2, <1>a, <1>c, <2>2, SerialStep DEF StoreCache, Finish
<1>3. CASE Upsert(t)
  <2>1. Shows(task[t].rows) /\ task[t].done = {}
    BY <1>3, <1>b DEF Upsert, At, SerialOk
  <2>2. cache'.rows = task[t].rows
    BY <1>3 DEF Upsert, Current
  <2>3. DOMAIN cache'.rows = remote' /\ \A f \in remote' : cache'.rows[f] = enrich(f)
    BY <1>a, <2>1, <2>2 DEF Shows
  <2>4. Exact'
    BY <1>a, <2>3 DEF Exact, Shows, enrich, HasSidecar
  <2>5. PICK st : st = IF task[t].op = "delete" THEN [task[t] EXCEPT !.step = "delete"] ELSE Idle
    OBVIOUS
  <2>6. st.step = "idle" \/ (st.step = "delete" /\ st.done = {})
    BY <1>b, <1>c, <2>1, <2>5 DEF TaskState
  <2>7. Become(t, st)
    BY <1>3, <2>5 DEF Upsert
  <2>8. ExactWithout({})'
    BY <1>a, <2>3 DEF ExactWithout, IsCurrent, enrich, HasSidecar
  <2>9. st.step = "delete" /\ st.done = {} => SerialOk(st)'
    BY <2>8 DEF SerialOk
  <2> QED
    BY <1>a, <2>4, <2>6, <2>7, <2>9, SerialStep
<1>4. CASE Touch(t)
  <2>1. Exact
    BY <1>4, <1>b DEF Touch, At, SerialOk
  <2>2. cache'.rows = cache.rows /\ cache'.version = cache.version
    BY <1>4, <1>b DEF Touch, Cache
  <2>3. Exact'
    BY <1>a, <2>1, <2>2 DEF Exact, IsCurrent, Shows, enrich, HasSidecar
  <2> QED
    BY <1>4, <1>a, <1>c, <2>3, SerialStep DEF Touch, Finish
<1> QED
  BY <1>1, <1>2, <1>3, <1>4

(* An operation begins with the listing exact, when it is the only one. *)
LEMMA SerialBegins ==
    ASSUME TypeInv, SerialInv, NEW t \in Task, Starts(t) \/ StartWarmup(t), ~disturbed'
    PROVE  ~disturbed /\ AllIdle /\ Exact
<1>1. disturbed' = (disturbed \/ ~AllIdle)
  BY DEF Starts, StartWarmup, StartUpload, StartVerify, StartRetention, StartRefresh, StartLock,
         StartDelete, Begin
<1>2. disturbed \in BOOLEAN
  BY DEF TypeInv, TypeOK
<1> QED
  BY <1>1, <1>2 DEF SerialInv

(* Where the row shows the destination nothing is owed for a lock yet. *)
LEMMA RelockedNothing ==
    ASSUME Exact, NEW st, st.done = {}
    PROVE  Relocked(st)
BY DEF Exact, Relocked, Shows

LEMMA SerialStarts ==
    ASSUME TypeInv, SerialInv, NEW t \in Task, Starts(t) \/ StartWarmup(t), ~StartUpload(t),
           ~disturbed'
    PROVE  SerialInv'
<1>a. ~disturbed /\ AllIdle /\ Exact /\ TypeOK
  BY SerialBegins DEF TypeInv
<1>b. ASSUME NEW st, Become(t, st), SerialOk(st), st.step # "idle",
             UNCHANGED <<destination, cache>>
      PROVE  SerialInv'
  BY <1>a, <1>b, SerialOwn DEF destination
<1>1. ASSUME NEW kind \in LockOps, StartLock(t, kind)
      PROVE  SerialInv'
  <2>1. PICK S \in SUBSET Shown :
           /\ kind = "toggle" => Cardinality(S) = 1
           /\ Begin(t, kind, [Idle EXCEPT !.step = "readLock", !.todo = S])
           /\ UNCHANGED <<destination, cache, refused>>
    BY <1>1 DEF StartLock
  <2>2. PICK st : st = [[Idle EXCEPT !.step = "readLock", !.todo = S] EXCEPT !.op = kind, !.held = held]
    OBVIOUS
  <2>3. /\ st.step = "readLock" /\ st.op = kind /\ st.todo = S /\ st.done = {}
        /\ Become(t, st)
    BY <2>1, <2>2 DEF Idle, Begin
  <2>4. S \subseteq File /\ IsFiniteSet(S)
    <3>1. S \subseteq File
      BY <1>a, OfListing DEF Shown, TypeOK, Cache
    <3> QED
      BY <3>1, FileAssumption, FS_Subset
  <2>5. kind = "toggle" => \E f \in File : S = {f}
    <3> SUFFICES ASSUME kind = "toggle" PROVE \E f \in File : S = {f}
      OBVIOUS
    <3>1. \E f : S = {f}
      BY <2>1, <2>4, FS_Singleton
    <3> QED
      BY <2>4, <3>1
  <2>6. Locking(st)
    BY <1>a, <2>3, <2>5, RelockedNothing DEF Locking
  <2>7. SerialOk(st)
    BY <2>3, <2>6 DEF SerialOk
  <2> QED
    BY <1>b, <2>1, <2>3, <2>7
<1>2. CASE StartVerify(t)
  <2>1. PICK f \in remote :
           /\ HasSidecar(f)
           /\ Begin(t, "verify", [Idle EXCEPT !.step = "writeVerified", !.file = f,
                                              !.meta = sidecar[f]])
           /\ UNCHANGED <<destination, cache, held, refused>>
    BY <1>2 DEF StartVerify
  <2>2. PICK st : st = [[Idle EXCEPT !.step = "writeVerified", !.file = f, !.meta = sidecar[f]]
                          EXCEPT !.op = "verify", !.held = held]
    OBVIOUS
  <2>3. st.step = "writeVerified" /\ st.file = f /\ st.meta = sidecar[f] /\ Become(t, st)
    BY <2>1, <2>2 DEF Idle, Begin
  <2>4. SerialOk(st)
    BY <1>a, <2>1, <2>3 DEF SerialOk
  <2> QED
    BY <1>b, <2>1, <2>3, <2>4
<1>3. ASSUME NEW kind \in DeleteOps, StartDelete(t, kind)
      PROVE  SerialInv'
  <2>1. PICK S \in SUBSET Shown :
           /\ Begin(t, kind, [Idle EXCEPT !.todo = S,
                           !.step = IF kind = "delete" THEN "listForDelete" ELSE "delete"])
           /\ UNCHANGED <<destination, cache, held, refused>>
    BY <1>3 DEF StartDelete
  <2>2. PICK st : st = [[Idle EXCEPT !.todo = S,
                           !.step = IF kind = "delete" THEN "listForDelete" ELSE "delete"]
                          EXCEPT !.op = kind, !.held = held]
    OBVIOUS
  <2>3. st.step \in {"listForDelete", "delete"} /\ st.done = {} /\ Become(t, st)
    BY <2>1, <2>2 DEF Idle, Begin
  <2>4. SerialOk(st)
    BY <1>a, <2>3 DEF SerialOk, ExactWithout, Exact, Shows
  <2> QED
    BY <1>b, <2>1, <2>3, <2>4
<1>4. CASE StartRetention(t)
  <2>1. PICK S \in SUBSET {f \in remote : ~enrich(f).locked} :
           /\ Begin(t, "retention", [Idle EXCEPT !.step = "expire", !.todo = S])
           /\ UNCHANGED <<destination, cache, held, refused>>
    BY <1>4 DEF StartRetention
  <2>2. PICK st : st = [[Idle EXCEPT !.step = "expire", !.todo = S]
                          EXCEPT !.op = "retention", !.held = held]
    OBVIOUS
  <2>3. st.step = "expire" /\ Become(t, st)
    BY <2>1, <2>2 DEF Idle, Begin
  <2>4. SerialOk(st)
    BY <1>a, <2>3 DEF SerialOk
  <2> QED
    BY <1>b, <2>1, <2>3, <2>4
<1>5. CASE StartRefresh(t)
  <2>1. PICK st : st = [[Idle EXCEPT !.step = "list"] EXCEPT !.op = "refresh", !.held = held]
    OBVIOUS
  <2>2. st.step = "list" /\ st.done = {} /\ Become(t, st)
    BY <1>5, <2>1 DEF Idle, Begin, StartRefresh
  <2>3. SerialOk(st)
    BY <1>a, <2>2 DEF SerialOk
  <2> QED
    BY <1>5, <1>b, <2>2, <2>3 DEF StartRefresh
<1>6. CASE StartWarmup(t)
  <2>1. PICK st : st = [Idle EXCEPT !.op = "warmup",
                          !.step = IF cache.version = "none" THEN "list" ELSE "listRemote"]
    OBVIOUS
  <2>2. st.step \in {"list", "listRemote"} /\ st.done = {} /\ Become(t, st)
    BY <1>6, <2>1 DEF Idle, StartWarmup
  <2>3. SerialOk(st)
    BY <1>a, <2>2 DEF SerialOk
  <2> QED
    BY <1>6, <1>b, <2>2, <2>3 DEF StartWarmup
<1> QED
  BY <1>1, <1>2, <1>3, <1>4, <1>5, <1>6 DEF Starts, LockOps, DeleteOps

(* The sidecar of an archive that is on its way shows nowhere. *)
LEMMA SerialStartUpload ==
    ASSUME TypeInv, SidecarInv, SerialInv, NEW t \in Task, StartUpload(t), ~disturbed'
    PROVE  SerialInv'
<1>a. ~disturbed /\ AllIdle /\ Exact
  BY SerialBegins DEF Starts
<1>1. PICK f \in unused, locked \in BOOLEAN :
         /\ Begin(t, "upload", [Idle EXCEPT !.step = "uploading", !.file = f,
                                  !.meta = [Plain EXCEPT !.locked = locked]])
         /\ PutSidecar(f, [Plain EXCEPT !.locked = locked])
         /\ UNCHANGED <<remote, cache, held, refused>>
  BY DEF StartUpload
<1>2. PICK m : m = [Plain EXCEPT !.locked = locked]
  OBVIOUS
<1>3. PICK st : st = [[Idle EXCEPT !.step = "uploading", !.file = f, !.meta = m]
                         EXCEPT !.op = "upload", !.held = held]
  OBVIOUS
<1>4. st.step = "uploading" /\ st.file = f /\ st.meta = m /\ Become(t, st)
  BY <1>1, <1>2, <1>3 DEF Idle, Begin
<1>5. f \notin remote
  BY KnownFacts DEF SidecarInv, AwaitedUnknown, Awaited
<1>6. /\ DOMAIN sidecar' = DOMAIN sidecar \cup {f} /\ sidecar'[f] = m
      /\ \A g \in DOMAIN sidecar : g # f => sidecar'[g] = sidecar[g]
  BY <1>1, <1>2 DEF PutSidecar, Overlay
<1>7. Exact'
  BY <1>a, <1>1, <1>5, <1>6 DEF Exact, IsCurrent, Shows, enrich, HasSidecar
<1>8. HasSidecar(f)'
  BY <1>6 DEF HasSidecar
<1>9. SerialOk(st)'
  BY <1>4, <1>6, <1>7, <1>8 DEF SerialOk
<1> QED
  BY <1>a, <1>4, <1>9, SerialStep

LEMMA SerialUploadArchive ==
    ASSUME TypeInv, SidecarInv, SerialInv, NEW t \in Task, UploadArchive(t), ~disturbed'
    PROVE  SerialInv'
<1>a. ~disturbed /\ ~At(t, "idle") /\ task[t].step = "uploading" /\ cache' = cache /\ sidecar' = sidecar
  BY DEF UploadArchive, At
<1>b. /\ task[t] \in TaskState /\ task[t].op = "upload" /\ Exact
      /\ HasSidecar(task[t].file) /\ task[t].meta = sidecar[task[t].file]
  BY <1>a, SerialFacts DEF Shape, SerialOk
<1>c. Idle.step = "idle"
  BY DEF Idle
<1>1. CASE Finish(t) /\ remote' = remote
  BY <1>1, <1>a, <1>b, <1>c, SerialOwn DEF Finish
<1>2. CASE Become(t, [task[t] EXCEPT !.step = "patch"]) /\ remote' = remote \cup {task[t].file}
  <2>1. PICK st : st = [task[t] EXCEPT !.step = "patch"]
    OBVIOUS
  <2>2. /\ st.step = "patch" /\ st.op = "upload" /\ st.file = task[t].file /\ st.meta = task[t].meta
        /\ Become(t, st)
    BY <1>2, <1>b, <2>1 DEF TaskState
  <2>3. st.file \notin DOMAIN cache.rows
    <3>1. t \in Uploading /\ st.file \in Awaited
      BY <1>a, <2>2 DEF Uploading, Awaited, At
    <3> QED
      BY <3>1, KnownFacts DEF SidecarInv, AwaitedUnknown
  <2>4. Touched(st, cache.rows)
    BY <2>2, <2>3 DEF Touched
  <2>5. Patched(st, cache.rows) = Overlay([f \in {st.file} |-> st.meta], cache.rows)
    BY <2>2 DEF Patched
  <2>6. /\ DOMAIN Patched(st, cache.rows) = DOMAIN cache.rows \cup {st.file}
        /\ Patched(st, cache.rows)[st.file] = st.meta
        /\ \A f \in DOMAIN cache.rows : f # st.file => Patched(st, cache.rows)[f] = cache.rows[f]
    BY <2>5 DEF Overlay
  <2>7. PICK rows : rows = Patched(st, cache.rows)
    OBVIOUS
  <2>8. IsCurrent => Shows(rows)'
    BY <1>2, <1>a, <1>b, <2>2, <2>6, <2>7 DEF Exact, IsCurrent, Shows, enrich, HasSidecar
  <2>9. rows = IF Touched(st, cache'.rows) THEN Patched(st, cache'.rows) ELSE cache'.rows
    BY <1>a, <2>4, <2>7
  <2>10. PatchDue(st)'
    BY <1>a, <2>8, <2>9 DEF PatchDue, IsCurrent, Shows, enrich, HasSidecar, Touched, Patched
  <2>11. SerialOk(st)'
    BY <2>2, <2>10 DEF SerialOk
  <2> QED
    BY <1>a, <2>2, <2>11, SerialStep
<1> QED
  BY <1>1, <1>2 DEF UploadArchive

LEMMA SerialWriteLock ==
    ASSUME TypeInv, SerialInv, NEW t \in Task, WriteLock(t), ~disturbed'
    PROVE  SerialInv'
<1> DEFINE f == task[t].file
<1>a. /\ ~disturbed /\ ~At(t, "idle") /\ task[t].step = "writeLock"
      /\ cache' = cache /\ remote' = remote
  BY DEF WriteLock, At
<1>b. task[t] \in TaskState /\ LockDue(task[t]) /\ f \in File /\ task[t].meta \in Metadata
  BY <1>a, SerialFacts DEF SerialOk, Shape, FileSteps
<1>1. PICK st : st = [task[t] EXCEPT !.step = "readLock", !.done = @ \cup {f}]
  OBVIOUS
<1>2. /\ st.step = "readLock" /\ st.op = task[t].op /\ st.todo = task[t].todo
      /\ st.done = task[t].done \cup {f} /\ st.meta = task[t].meta /\ Become(t, st)
  BY <1>b, <1>1 DEF TaskState, WriteLock
<1>3. /\ DOMAIN sidecar' = DOMAIN sidecar \cup {f} /\ sidecar'[f] = task[t].meta
      /\ \A g \in DOMAIN sidecar : g # f => sidecar'[g] = sidecar[g]
  BY DEF WriteLock, PutSidecar, Overlay
<1>4. \A g \in st.done : g \in DOMAIN sidecar' /\ sidecar'[g].locked = st.meta.locked
  BY <1>b, <1>2, <1>3 DEF LockDue, Relocked, HasSidecar
<1>5. ASSUME IsCurrent, NEW g \in remote
      PROVE  (IF g \in DOMAIN sidecar' THEN sidecar'[g] ELSE Plain)
                = IF g \in st.done THEN [cache.rows[g] EXCEPT !.locked = st.meta.locked]
                                   ELSE cache.rows[g]
  <2>1. CASE g = f
    <3>1. cache.rows[f] = sidecar[f] /\ sidecar[f] \in Metadata
      BY <1>b, <1>5, <2>1, SidecarType DEF LockDue, Relocked, enrich, TypeInv
    <3>2. [sidecar[f] EXCEPT !.locked = task[t].meta.locked] = task[t].meta
      BY <1>b, <3>1 DEF LockDue, Metadata
    <3> QED
      BY <1>2, <1>3, <2>1, <3>1, <3>2
  <2>2. CASE g # f
    BY <1>b, <1>2, <1>3, <1>5, <2>2 DEF LockDue, Relocked, enrich, HasSidecar
  <2> QED
    BY <2>1, <2>2
<1>6. Relocked(st)'
  BY <1>a, <1>b, <1>2, <1>4, <1>5 DEF Relocked, LockDue, IsCurrent, enrich, HasSidecar
<1>7. Locking(st)'
  BY <1>b, <1>2, <1>6 DEF Locking, LockDue
<1>8. SerialOk(st)'
  BY <1>2, <1>7 DEF SerialOk
<1> QED
  BY <1>a, <1>2, <1>8, SerialStep

LEMMA SerialWriteVerified ==
    ASSUME TypeInv, SerialInv, NEW t \in Task, WriteVerified(t), ~disturbed'
    PROVE  SerialInv'
<1> DEFINE f == task[t].file
<1>a. /\ ~disturbed /\ ~At(t, "idle") /\ task[t].step = "writeVerified"
      /\ cache' = cache /\ remote' = remote
  BY DEF WriteVerified, At, ghosts
<1>b. /\ task[t] \in TaskState /\ Exact /\ task[t].op = "verify"
      /\ HasSidecar(f) /\ task[t].meta = sidecar[f]
  BY <1>a, SerialFacts DEF SerialOk, Shape
<1>1. PICK st : st = [task[t] EXCEPT !.step = "patch"]
  OBVIOUS
<1>2. st.step = "patch" /\ st.op = "verify" /\ st.file = f /\ Become(t, st)
  BY <1>b, <1>1 DEF TaskState, WriteVerified
<1>3. /\ DOMAIN sidecar' = DOMAIN sidecar \cup {f} /\ sidecar'[f] = [sidecar[f] EXCEPT !.verified = TRUE]
      /\ \A g \in DOMAIN sidecar : g # f => sidecar'[g] = sidecar[g]
  BY <1>b DEF WriteVerified, PutSidecar, Overlay
<1>4. PICK rows : rows = IF Touched(st, cache.rows) THEN Patched(st, cache.rows) ELSE cache.rows
  OBVIOUS
<1>5. /\ DOMAIN rows = DOMAIN cache.rows
      /\ \A g \in DOMAIN cache.rows : rows[g] = IF g = f THEN [cache.rows[g] EXCEPT !.verified = TRUE]
                                                         ELSE cache.rows[g]
  <2>1. Patched(st, cache.rows) = [g \in DOMAIN cache.rows |-> IF g = st.file
                               THEN [cache.rows[g] EXCEPT !.verified = TRUE] ELSE cache.rows[g]]
    BY <1>2 DEF Patched
  <2>2. Touched(st, cache.rows) <=> st.file \in DOMAIN cache.rows
    BY <1>2 DEF Touched
  <2> QED
    BY <1>2, <1>4, <2>1, <2>2
<1>6. IsCurrent => Shows(rows)'
  <2> SUFFICES ASSUME IsCurrent PROVE Shows(rows)'
    OBVIOUS
  <2>1. DOMAIN cache.rows = remote /\ \A g \in remote : cache.rows[g] = enrich(g)
    BY <1>b DEF Exact, Shows
  <2>2. ASSUME NEW g \in remote
        PROVE  rows[g] = IF g \in DOMAIN sidecar' THEN sidecar'[g] ELSE Plain
    BY <1>b, <1>3, <1>5, <2>1 DEF enrich, HasSidecar
  <2> QED
    BY <1>a, <1>5, <2>1, <2>2 DEF Shows, enrich, HasSidecar
<1>7. PatchDue(st)'
  BY <1>a, <1>4, <1>6 DEF PatchDue, IsCurrent, Shows, enrich, HasSidecar, Touched, Patched
<1>8. SerialOk(st)'
  BY <1>2, <1>7 DEF SerialOk
<1> QED
  BY <1>a, <1>2, <1>8, SerialStep

LEMMA SerialDelete ==
    ASSUME TypeInv, SerialInv, NEW t \in Task, Delete(t), ~disturbed'
    PROVE  SerialInv'
<1>a. /\ ~At(t, "idle") /\ task[t].step = "delete" /\ cache' = cache /\ sidecar' = sidecar
  BY DEF Delete, At
<1>b. ~disturbed
  BY DEF Delete, ghosts
<1>c. /\ task[t] \in TaskState /\ task[t].op \in DeleteOps /\ ExactWithout(task[t].done)
  BY <1>a, <1>b, SerialFacts DEF Shape, SerialOk
<1>1. CASE task[t].todo = {}
  <2>0. remote' = remote
    BY <1>1 DEF Delete
  <2>1. CASE task[t].done = {}
    <3>1. Become(t, Idle) /\ Idle.step = "idle"
      BY <1>1, <2>1 DEF Delete, EndBatch, Idle
    <3>2. Exact
      BY <1>c, <2>1 DEF ExactWithout, Exact, Shows
    <3> QED
      BY <1>a, <1>b, <2>0, <3>1, <3>2, SerialOwn
  <2>2. CASE task[t].done # {}
    <3>1. PICK st : st = [task[t] EXCEPT !.step = "patch"]
      OBVIOUS
    <3>2. Become(t, st)
      BY <1>1, <2>2, <3>1 DEF Delete, EndBatch
    <3>3. st.step = "patch" /\ st.op \in DeleteOps /\ st.done = task[t].done
      BY <1>c, <3>1 DEF TaskState
    <3>4. SerialOk(st)
      BY <1>c, <3>3, DeletePatch DEF SerialOk, DeleteOps
    <3> QED
      BY <1>a, <1>b, <2>0, <3>2, <3>3, <3>4, SerialOwn
  <2> QED
    BY <2>1, <2>2
<1>2. CASE task[t].todo # {}
  <2> DEFINE rest(f) == [task[t] EXCEPT !.todo = @ \ {f}]
             gone(f) == [rest(f) EXCEPT !.step = "deleteSidecar", !.file = f]
  <2>1. PICK f \in task[t].todo :
           \/ Become(t, rest(f)) /\ remote' = remote
           \/ Become(t, gone(f)) /\ remote' = remote \ {f}
    BY <1>2 DEF Delete
  <2>2. CASE Become(t, rest(f)) /\ remote' = remote
    <3>1. PICK st : st = rest(f)
      OBVIOUS
    <3>2. st.step = "delete" /\ st.done = task[t].done
      BY <1>a, <1>c, <3>1 DEF TaskState
    <3>3. SerialOk(st)
      BY <1>c, <3>2 DEF SerialOk
    <3> QED
      BY <1>a, <1>b, <2>2, <3>1, <3>2, <3>3, SerialOwn
  <2>3. CASE Become(t, gone(f)) /\ remote' = remote \ {f}
    <3>1. PICK st : st = gone(f)
      OBVIOUS
    <3>2. st.step = "deleteSidecar" /\ st.done = task[t].done /\ st.file = f
      BY <1>c, <3>1 DEF TaskState
    <3>3. ExactWithout(st.done \cup {st.file})'
      BY <1>a, <1>c, <2>3, <3>2 DEF ExactWithout, IsCurrent, enrich, HasSidecar
    <3>4. SerialOk(st)'
      BY <3>2, <3>3 DEF SerialOk
    <3> QED
      BY <1>a, <1>b, <2>3, <3>1, <3>2, <3>4, SerialStep
  <2> QED
    BY <2>1, <2>2, <2>3
<1> QED
  BY <1>1, <1>2

LEMMA SerialDeleteSidecar ==
    ASSUME TypeInv, SerialInv, NEW t \in Task, DeleteSidecar(t), ~disturbed'
    PROVE  SerialInv'
<1>a. /\ ~disturbed /\ ~At(t, "idle") /\ task[t].step = "deleteSidecar"
      /\ cache' = cache /\ remote' = remote
  BY DEF DeleteSidecar, At, ghosts
<1>b. task[t] \in TaskState /\ ExactWithout(task[t].done \cup {task[t].file})
  BY <1>a, SerialFacts DEF SerialOk
<1>1. PICK st : st = [task[t] EXCEPT !.step = "delete", !.done = @ \cup {task[t].file}]
  OBVIOUS
<1>2. st.step = "delete" /\ st.done = task[t].done \cup {task[t].file} /\ Become(t, st)
  BY <1>b, <1>1 DEF TaskState, DeleteSidecar
<1>3. /\ DOMAIN sidecar' = DOMAIN sidecar \ {task[t].file}
      /\ \A g \in DOMAIN sidecar' : sidecar'[g] = sidecar[g]
  BY DEF DeleteSidecar, RemoveSidecar, Restrict
<1>4. ExactWithout(st.done)'
  BY <1>a, <1>b, <1>2, <1>3 DEF ExactWithout, IsCurrent, enrich, HasSidecar
<1>5. SerialOk(st)'
  BY <1>2, <1>4 DEF SerialOk
<1> QED
  BY <1>a, <1>2, <1>5, SerialStep

LEMMA SerialExpire ==
    ASSUME TypeInv, SerialInv, NEW t \in Task, Expire(t), ~disturbed'
    PROVE  SerialInv'
<1>a. /\ ~disturbed /\ ~At(t, "idle") /\ task[t].step = "expire"
      /\ cache' = cache /\ sidecar' = sidecar
  BY DEF Expire, At
<1>b. task[t] \in TaskState /\ Exact
  BY <1>a, SerialFacts DEF SerialOk
<1>1. PICK f \in task[t].todo :
        /\ remote' = remote \ {f}
        /\ Become(t, [task[t] EXCEPT !.step = "expireSidecar", !.file = f, !.todo = @ \ {f}])
  BY DEF Expire
<1>2. PICK st : st = [task[t] EXCEPT !.step = "expireSidecar", !.file = f, !.todo = @ \ {f}]
  OBVIOUS
<1>3. st.step = "expireSidecar" /\ st.file = f /\ Become(t, st)
  BY <1>b, <1>1, <1>2 DEF TaskState
<1>4. ExactWithout({st.file})'
  BY <1>a, <1>b, <1>1, <1>3 DEF ExactWithout, Exact, Shows, IsCurrent, enrich, HasSidecar
<1>5. SerialOk(st)'
  BY <1>3, <1>4 DEF SerialOk
<1> QED
  BY <1>a, <1>3, <1>5, SerialStep

LEMMA SerialExpireSidecar ==
    ASSUME TypeInv, SerialInv, NEW t \in Task, ExpireSidecar(t), ~disturbed'
    PROVE  SerialInv'
<1> DEFINE f == task[t].file
<1>a. /\ ~At(t, "idle") /\ task[t].step = "expireSidecar" /\ cache' = cache /\ remote' = remote
      /\ Become(t, [Idle EXCEPT !.op = "remove", !.step = "patch", !.done = {f}])
  BY DEF ExpireSidecar, At
<1>b. ~disturbed
  BY DEF ExpireSidecar, TypeInv, TypeOK
<1>c. ExactWithout({f})
  BY <1>a, <1>b, SerialFacts DEF SerialOk
<1>1. PICK st : st = [Idle EXCEPT !.op = "remove", !.step = "patch", !.done = {f}]
  OBVIOUS
<1>2. st.step = "patch" /\ st.op = "remove" /\ st.done = {f} /\ Become(t, st)
  BY <1>a, <1>1 DEF Idle
<1>3. /\ DOMAIN sidecar' = DOMAIN sidecar \ {f}
      /\ \A g \in DOMAIN sidecar' : sidecar'[g] = sidecar[g]
  BY DEF ExpireSidecar, RemoveSidecar, Restrict
<1>4. PICK rows : rows = IF Touched(st, cache.rows) THEN Patched(st, cache.rows) ELSE cache.rows
  OBVIOUS
<1>5. IsCurrent => Shows(rows)
  BY <1>c, <1>2, <1>4, DeletePatch DEF PatchDue
<1>6. IsCurrent => Shows(rows)'
  BY <1>a, <1>c, <1>3, <1>5 DEF Shows, ExactWithout, enrich, HasSidecar
<1>7. PatchDue(st)'
  BY <1>a, <1>4, <1>6 DEF PatchDue, IsCurrent, Shows, enrich, HasSidecar, Touched, Patched
<1>8. SerialOk(st)'
  BY <1>2, <1>7 DEF SerialOk
<1> QED
  BY <1>a, <1>b, <1>2, <1>8, SerialStep

LEMMA SerialNext ==
    ASSUME TypeInv, SidecarInv, SerialInv, [Next]_vars
    PROVE  SerialInv'
<1> SUFFICES ASSUME ~disturbed' PROVE SerialInv'
  BY DEF SerialInv
<1>1. ASSUME NEW t \in Task, Starts(t) \/ StartWarmup(t)
      PROVE  SerialInv'
  BY <1>1, SerialStarts, SerialStartUpload
<1>2. ASSUME NEW t \in Task, Steps(t)
      PROVE  SerialInv'
  <2>1. CASE ReadLock(t) \/ ListForDelete(t) \/ ReadCache(t) \/ List(t) \/ Enrich(t)
                \/ ListRemote(t) \/ Compare(t) \/ EnrichNew(t)
    <3>1. ~disturbed
      BY <2>1 DEF ReadLock, ListForDelete, ReadCache, List, Enrich, ListRemote, Compare,
                  EnrichNew, ghosts
    <3> QED
      BY <2>1, <3>1, SerialReadLock, SerialOwnSteps
  <2>2. CASE DropCache(t) \/ StoreCache(t) \/ Upsert(t) \/ Touch(t)
    <3>1. ~disturbed
      BY <2>2 DEF DropCache, StoreCache, Upsert, Touch, ghosts
    <3> QED
      BY <2>2, <3>1, SerialCacheSteps
  <2> QED
    BY <1>2, <2>1, <2>2, SerialUploadArchive, SerialWriteLock, SerialWriteVerified, SerialDelete,
       SerialDeleteSidecar, SerialExpire, SerialExpireSidecar DEF Steps
<1>3. CASE GrowStale
  <2>1. /\ ~disturbed /\ remote' = remote /\ sidecar' = sidecar /\ task' = task
        /\ cache'.rows = cache.rows /\ cache'.version = cache.version
    BY <1>3 DEF GrowStale, destination, ghosts, TypeInv, TypeOK, Cache
  <2>2. Exact' <=> Exact
    BY <2>1 DEF Exact, IsCurrent, Shows, enrich, HasSidecar
  <2>3. ASSUME NEW st
        PROVE  SerialOk(st)' <=> SerialOk(st)
    <3>1. \A rows : Shows(rows)' <=> Shows(rows)
      BY <2>1 DEF Shows, enrich, HasSidecar
    <3>2. \A S : ExactWithout(S)' <=> ExactWithout(S)
      BY <2>1 DEF ExactWithout, IsCurrent, enrich, HasSidecar
    <3>3. Relocked(st)' <=> Relocked(st)
      BY <2>1 DEF Relocked, IsCurrent, enrich, HasSidecar
    <3>4. (Locking(st)' <=> Locking(st)) /\ (LockDue(st)' <=> LockDue(st))
      BY <2>1, <3>3 DEF Locking, LockDue, HasSidecar
    <3>5. PatchDue(st)' <=> PatchDue(st)
      <4>1. PICK rows : rows = cache.rows
        OBVIOUS
      <4> QED
        BY <2>1, <3>1, <4>1 DEF PatchDue, IsCurrent, Shows, enrich, HasSidecar, Touched, Patched
    <3> QED
      <4>1. (HasSidecar(st.file) /\ st.meta = sidecar[st.file])'
               <=> HasSidecar(st.file) /\ st.meta = sidecar[st.file]
        BY <2>1 DEF HasSidecar
      <4>2. (st.done = remote)' <=> st.done = remote
        BY <2>1
      <4> QED
        BY <2>2, <3>1, <3>2, <3>4, <3>5, <4>1, <4>2 DEF SerialOk
  <2>4. \A u \in Task : SerialOk(task[u]) => SerialOk(task[u])'
    BY <2>1, <2>3
  <2> QED
    BY <2>1, <2>2, <2>4 DEF SerialInv, AllIdle, At
<1>4. CASE DeleteOutside \/ Crash
  BY <1>4 DEF DeleteOutside, Crash
<1>5. CASE UNCHANGED vars
  <2>1. SerialInv' <=> SerialInv
    BY <1>5 DEF vars, SerialInv, SerialOk, Exact, ExactWithout, Locking, LockDue, Relocked, PatchDue,
        Shows, IsCurrent, enrich, HasSidecar, AllIdle, At, Touched, Patched
  <2> QED
    BY <2>1
<1> QED
  BY <1>1, <1>2, <1>3, <1>4, <1>5 DEF Next

THEOREM SerialInvariance == Spec => []SerialInv
<1>1. Init => SerialInv
  <2> SUFFICES ASSUME Init PROVE SerialInv
    OBVIOUS
  <2>1. \A t \in Task : At(t, "idle")
    BY DEF Init, Idle, At
  <2>2. cache.version \in {"none", "old"}
    BY DEF Init, NoCache
  <2> QED
    BY <2>1, <2>2 DEF SerialInv, Exact, IsCurrent
<1>2. TypeInv /\ SidecarInv /\ SerialInv /\ [Next]_vars => SerialInv'
  BY SerialNext
<1> QED
  BY <1>1, <1>2, SidecarInvariance, PTL DEF Spec

(* Every operation that changes the destination makes the same change of    *)
(* the listing: run one after the other, without a failure, they leave the  *)
(* cached listing equal to a fresh one, whatever their kinds and number.    *)
THEOREM ListingExact == Spec => []SerialListingExact
<1>1. TypeInv /\ SerialInv => SerialListingExact
  <2> SUFFICES ASSUME TypeInv, SerialInv, AllIdle, ~disturbed, cache.version = "current"
               PROVE  cache.rows = Actual
    BY DEF SerialListingExact
  <2>1. cache.rows \in [DOMAIN cache.rows -> Metadata]
    BY OfListing DEF TypeInv, TypeOK, Cache
  <2>2. DOMAIN cache.rows = remote /\ \A f \in remote : cache.rows[f] = enrich(f)
    BY DEF SerialInv, Exact, IsCurrent, Shows
  <2> QED
    BY <2>1, <2>2 DEF Actual
<1> QED
  BY <1>1, TypeInvariance, SerialInvariance, PTL

=============================================================================
