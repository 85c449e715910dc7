---------------------------- MODULE StorageEnvProofs ----------------------------
(***************************************************************************)
(* Proofs about module StorageEnv, for any threads, tables, keys and       *)
(* values.  Types and the order of the mutexes hold whatever handlers do;  *)
(* that the store implements AtomicStore needs that no handler fetches a   *)
(* table late and that checkpoints can be written, CleanAssumption.        *)
(***************************************************************************)
EXTENDS StorageEnv, FiniteSetTheorems, TLAPS

CleanAssumption == Late = {} /\ SaveOutcomes = {TRUE}

-----------------------------------------------------------------------------
(***************************************************************************)
(* Types.                                                                  *)
(***************************************************************************)
LEMMA UndoneType ==
  ASSUME TypeOK, NEW t \in Table
  PROVE  Undone(t) \in [Key -> Record]
  BY DEF TypeOK, Undone, Record, Contents

LEMMA SavedType ==
  ASSUME TypeOK, NEW t \in Table
  PROVE  Saved(t) \in [Key -> Record]
  BY DEF TypeOK, Saved, Record, Contents

LEMMA FreshType == ASSUME disk \in Contents, db \in Contents, Fresh PROVE TypeOK
  BY DEF Fresh, TypeOK, None, Record

LEMMA PutType ==
  ASSUME TypeOK, NEW t \in Table, NEW k \in Key, NEW r \in Record, Put(t, k, r)
  PROVE  db' \in Contents /\ dirty' \in [Table -> SUBSET Key]
  <1>1. [db[t] EXCEPT ![k] = r] \in [Key -> Record]
    BY DEF TypeOK, Contents
  <1>2. db' \in Contents
    BY <1>1 DEF TypeOK, Put, Contents
  <1>3. dirty' \in [Table -> SUBSET Key]
    BY DEF TypeOK, Put
  <1> QED
    BY <1>2, <1>3

\* Every variable keeps its type, in any run of the storage layer.
THEOREM TypeCorrect == Spec => []TypeOK
  <1>1. Init => TypeOK
    BY FreshType DEF Init
  <1>2. TypeOK /\ [Next]_vars => TypeOK'
    <2> SUFFICES ASSUME TypeOK, [Next]_vars PROVE TypeOK'
      OBVIOUS
    <2>1. ASSUME NEW w \in Worker, NEW t \in Table, GetStorage(w, t) PROVE TypeOK'
      <3>1. vec' \in [Worker -> SUBSET Table]
        <4>1. vec' = [vec EXCEPT ![w] = @ \cup {t}] \/ vec' = vec
          BY <2>1 DEF GetStorage
        <4>2. vec[w] \cup {t} \in SUBSET Table
          BY DEF TypeOK
        <4> QED
          BY <4>1, <4>2 DEF TypeOK
      <3>2. late' \in [Worker -> SUBSET Late]
        <4>1. \/ late' = late
              \/ t \in Late /\ late' = [late EXCEPT ![w] = @ \cup {t}]
          BY <2>1 DEF GetStorage
        <4>2. t \in Late => late[w] \cup {t} \in SUBSET Late
          BY DEF TypeOK
        <4> QED
          BY <4>1, <4>2 DEF TypeOK
      <3> QED
        BY <2>1, <3>1, <3>2 DEF GetStorage, TypeOK, store, undo, saving
    <2>2. ASSUME NEW w \in Worker, NEW t \in Table, Lock(w, t) PROVE TypeOK'
      <3>1. locker' \in [Table -> Worker \cup {Checkpointer, NoOne}]
        <4>1. locker' = [locker EXCEPT ![t] = w]
          BY <2>2 DEF Lock
        <4> QED
          BY <4>1 DEF TypeOK
      <3>2. phase' \in [Worker -> {"open", "locking", "locked", "releasing"}]
        BY <2>2 DEF Lock, TypeOK
      <3>3. cancel' \in [Worker -> BOOLEAN]
        BY <2>2 DEF Lock, TypeOK
      <3> QED
        BY <2>2, <3>1, <3>2, <3>3 DEF Lock, TypeOK, store, undo, saving
    <2>3. ASSUME NEW w \in Worker, NEW t \in Table, NEW k \in Key, NEW v \in Value, Insert(w, t, k, v)
          PROVE  TypeOK'
      <3>1. db' \in Contents /\ dirty' \in [Table -> SUBSET Key]
        BY <2>3, PutType DEF Insert, Record
      <3>2. UNCHANGED <<locker, context, saving>>
        BY <2>3 DEF Insert
      <3>3. new_key' \in [Table -> SUBSET Key]
        <4>1. \/ new_key' = new_key
              \/ new_key' = [new_key EXCEPT ![t] = @ \cup {k}]
          BY <2>3 DEF Insert, undo
        <4> QED
          BY <4>1 DEF TypeOK
      <3>4. prepared' \in [Table -> [Key -> Value \cup {Unsaved}]]
        <4>1. CASE UNCHANGED prepared
          BY <4>1 DEF TypeOK
        <4>2. CASE /\ db[t][k] # NoRecord
                   /\ prepared' = [prepared EXCEPT ![t][k] = db[t][k]]
          <5>1. db[t][k] \in Value
            BY <4>2 DEF TypeOK, Contents, Record
          <5>2. [prepared[t] EXCEPT ![k] = db[t][k]] \in [Key -> Value \cup {Unsaved}]
            BY <5>1 DEF TypeOK
          <5> QED
            BY <4>2, <5>2 DEF TypeOK
        <4> QED
          BY <2>3, <4>1, <4>2 DEF Insert, undo
      <3> QED
        BY <3>1, <3>2, <3>3, <3>4 DEF TypeOK, context, saving
    <2>4. ASSUME NEW w \in Worker, NEW t \in Table, NEW k \in Key, NEW v \in Value, InsertNew(w, t, k, v)
          PROVE  TypeOK'
      <3>1. db' \in Contents /\ dirty' \in [Table -> SUBSET Key]
        BY <2>4, PutType DEF InsertNew, Record, store, TypeOK
      <3>2. new_key' \in [Table -> SUBSET Key]
        <4>1. new_key' = new_key \/ new_key' = [new_key EXCEPT ![t] = @ \cup {k}]
          BY <2>4 DEF InsertNew
        <4>2. new_key \in [Table -> SUBSET Key]
          BY DEF TypeOK
        <4> QED
          BY <4>1, <4>2
      <3>3. cancel' \in [Worker -> BOOLEAN]
        <4>1. cancel' = cancel \/ cancel' = [cancel EXCEPT ![w] = TRUE]
          BY <2>4 DEF InsertNew
        <4>2. cancel \in [Worker -> BOOLEAN]
          BY DEF TypeOK
        <4> QED
          BY <4>1, <4>2
      <3> QED
        BY <2>4, <3>1, <3>2, <3>3 DEF InsertNew, TypeOK, saving
    <2>5. ASSUME NEW w \in Worker, NEW t \in Table, NEW k \in Key, Del(w, t, k) PROVE TypeOK'
      <3>1. db' \in Contents /\ dirty' \in [Table -> SUBSET Key]
        BY <2>5, PutType DEF Del, Record, store, TypeOK
      <3>2. UNCHANGED <<locker, context, saving>>
        BY <2>5 DEF Del
      <3>3. new_key' \in [Table -> SUBSET Key]
        <4>1. \/ new_key' = new_key
              \/ new_key' = [new_key EXCEPT ![t] = @ \ {k}]
          BY <2>5 DEF Del, undo
        <4> QED
          BY <4>1 DEF TypeOK
      <3>4. prepared' \in [Table -> [Key -> Value \cup {Unsaved}]]
        <4> DEFINE origin == IF db[t][k] = NoRecord THEN Unsaved ELSE db[t][k]
        <4>1. CASE UNCHANGED prepared
          BY <4>1 DEF TypeOK
        <4>2. CASE prepared' = [prepared EXCEPT ![t][k] = origin]
          <5>1. origin \in Value \cup {Unsaved}
            BY DEF TypeOK, Contents, Record
          <5>2. [prepared[t] EXCEPT ![k] = origin] \in [Key -> Value \cup {Unsaved}]
            BY <5>1 DEF TypeOK
          <5> QED
            BY <4>2, <5>2 DEF TypeOK
        <4> QED
          BY <2>5, <4>1, <4>2 DEF Del, undo
      <3> QED
        BY <3>1, <3>2, <3>3, <3>4 DEF TypeOK, context, saving
    <2>6. ASSUME NEW w \in Worker, \/ \E t \in Table, k \in Key : FindFails(w, t, k)
                                   \/ Abort(w) \/ Leave(w)
          PROVE  TypeOK'
      <3>1. CASE (\E t \in Table, k \in Key : FindFails(w, t, k)) \/ Abort(w)
        <4>1. cancel' = [cancel EXCEPT ![w] = TRUE]
          BY <3>1 DEF FindFails, Abort
        <4>2. cancel' \in [Worker -> BOOLEAN]
          BY <4>1 DEF TypeOK
        <4> QED
          BY <3>1, <4>2 DEF FindFails, Abort, TypeOK, store, undo, saving
      <3>2. CASE Leave(w)
        <4>1. vec' \in [Worker -> SUBSET Table]
          BY <3>2 DEF Leave, TypeOK
        <4>2. phase' \in [Worker -> {"open", "locking", "locked", "releasing"}]
          BY <3>2 DEF Leave, TypeOK
        <4> QED
          BY <3>2, <4>1, <4>2 DEF Leave, TypeOK, store, undo, saving
      <3> QED
        BY <2>6, <3>1, <3>2
    <2>7. ASSUME NEW w \in Worker, NEW t \in Table, Release(w, t) PROVE TypeOK'
      <3>1. db' \in Contents /\ dirty' \in [Table -> SUBSET Key]
        <4>1. CASE UNCHANGED store
          BY <4>1 DEF store, TypeOK
        <4>2. CASE /\ db' = [db EXCEPT ![t] = Undone(t)]
                   /\ dirty' = [dirty EXCEPT ![t] = @ \cup new_key[t] \cup {k \in Key : prepared[t][k] # Unsaved}]
          <5>1. db' \in Contents
            BY <4>2, UndoneType DEF TypeOK, Contents
          <5>2. dirty[t] \cup new_key[t] \cup {k \in Key : prepared[t][k] # Unsaved} \in SUBSET Key
            BY DEF TypeOK
          <5>3. dirty' \in [Table -> SUBSET Key]
            BY <4>2, <5>2 DEF TypeOK
          <5> QED
            BY <5>1, <5>3
        <4> QED
          BY <2>7, <4>1, <4>2 DEF Release
      <3>2. prepared' \in [Table -> [Key -> Value \cup {Unsaved}]]
        BY <2>7 DEF Release, TypeOK, None
      <3>3. vec' \in [Worker -> SUBSET Table] /\ late' \in [Worker -> SUBSET Late]
        <4>1. \/ vec' = [vec EXCEPT ![w] = @ \ {t}] /\ late' = late
              \/ vec' = vec /\ late' = [late EXCEPT ![w] = @ \ {t}]
          BY <2>7 DEF Release
        <4>2. vec[w] \ {t} \in SUBSET Table /\ late[w] \ {t} \in SUBSET Late
          BY DEF TypeOK
        <4> QED
          BY <4>1, <4>2 DEF TypeOK
      <3>4. new_key' \in [Table -> SUBSET Key]
        BY <2>7 DEF Release, TypeOK
      <3>5. locker' \in [Table -> Worker \cup {Checkpointer, NoOne}]
        <4>1. locker' = [locker EXCEPT ![t] = NoOne] \/ locker' = locker
          BY <2>7 DEF Release, TypeOK
        <4> QED
          BY <4>1 DEF TypeOK
      <3>6. phase' \in [Worker -> {"open", "locking", "locked", "releasing"}]
        <4>1. phase' = [phase EXCEPT ![w] = "open"] \/ phase' = phase
          BY <2>7 DEF Release, TypeOK
        <4> QED
          BY <4>1 DEF TypeOK
      <3> QED
        BY <2>7, <3>1, <3>2, <3>3, <3>4, <3>5, <3>6 DEF Release, TypeOK, saving
    <2>8. ASSUME NEW t \in Table, LockTable(t) \/ SnapshotCreate(t) \/ SnapshotRelease(t)
          PROVE  TypeOK'
      <3>1. CASE LockTable(t)
        BY <3>1 DEF LockTable, TypeOK, store, undo, context
      <3>2. CASE SnapshotCreate(t)
        BY <3>2 DEF SnapshotCreate, TypeOK, undo, context, Contents
      <3>3. CASE SnapshotRelease(t)
        BY <3>3 DEF SnapshotRelease, TypeOK, store, undo, context, None
      <3> QED
        BY <2>8, <3>1, <3>2, <3>3
    <2>9. ASSUME Save PROVE TypeOK'
      <3>1. disk' \in Contents
        BY <2>9, SavedType DEF Save, Contents, TypeOK
      <3> QED
        BY <2>9, <3>1 DEF Save, TypeOK, store, undo, context
    <2>10. ASSUME Crash PROVE TypeOK'
      BY <2>10 DEF Crash, TypeOK, None, Record
    <2>11. CASE UNCHANGED vars
      BY <2>11 DEF TypeOK, vars, store, undo, context, saving
    <2> QED
      BY <2>1, <2>2, <2>3, <2>4, <2>5, <2>6, <2>7, <2>8, <2>9, <2>10, <2>11 DEF Next, Work, Backup
  <1> QED
    BY <1>1, <1>2, PTL DEF Spec

-----------------------------------------------------------------------------
(***************************************************************************)
(* The mutexes.  What a thread holds is what it has locked of its vector,  *)
(* and it always waits for the table after those it holds.                 *)
(***************************************************************************)
WorkersHold ==
    /\ \A t \in Table : locker[t] \in Worker =>
          t \in vec[locker[t]] /\ phase[locker[t]] # "open"
    /\ \A w \in Worker : phase[w] \in {"locked", "releasing"} => \A t \in vec[w] : locker[t] = w
    /\ \A w \in Worker : phase[w] = "locked" => vec[w] # {}

CheckpointerHolds ==
    \A t \in Table : locker[t] = Checkpointer => cp \in {"locking", "snapshot"}

LockOrder ==
    /\ \A w \in Worker : phase[w] = "locking" =>
          \A t, u \in vec[w] : locker[t] = w /\ locker[u] # w => t < u
    /\ cp = "locking" =>
          \A t, u \in Table : locker[t] = Checkpointer /\ locker[u] # Checkpointer => t < u

LockInv == TypeOK /\ WorkersHold /\ CheckpointerHolds /\ LockOrder

LEMMA LockInvInit == Init => LockInv
  <1> SUFFICES ASSUME Init PROVE LockInv
    OBVIOUS
  <1>1. TypeOK
    BY FreshType DEF Init
  <1>2. /\ \A t \in Table : locker[t] = NoOne
        /\ \A w \in Worker : phase[w] = "open"
        /\ cp = "idle"
    BY DEF Init, Fresh
  <1> QED
    BY <1>1, <1>2, DistinctAssumption DEF LockInv, WorkersHold, CheckpointerHolds, LockOrder

LEMMA SameLocks ==
  ASSUME LockInv, TypeOK', UNCHANGED <<locker, phase, vec, cp>>
  PROVE  LockInv'
  BY DEF LockInv, WorkersHold, CheckpointerHolds, LockOrder

LEMMA LockKeepsOrder ==
  ASSUME LockInv, TypeOK', NEW w \in Worker, NEW t \in Table, Lock(w, t)
  PROVE  LockInv'
  <1> DEFINE missing == {u \in vec[w] : locker[u] # w}
  <1> USE TableAssumption, DistinctAssumption DEF LockInv
  <1>1. /\ t \in vec[w] /\ locker[t] = NoOne
        /\ \A u \in missing : t <= u
        /\ \A u \in Table : locker'[u] = IF u = t THEN w ELSE locker[u]
        /\ \A v \in Worker : phase'[v] =
              IF v = w THEN IF missing = {t} THEN "locked" ELSE "locking" ELSE phase[v]
        /\ vec' = vec /\ cp' = cp /\ phase[w] \in {"open", "locking"}
    BY DEF Lock, TypeOK, FirstOf, saving
  <1>2. \A u \in vec[w] : u \in Table
    BY DEF TypeOK
  <1>3. WorkersHold'
    <2>1. ASSUME NEW u \in Table, locker'[u] \in Worker
          PROVE  u \in vec[locker'[u]] /\ phase'[locker'[u]] # "open"
      BY <1>1, <2>1 DEF WorkersHold
    <2>2. ASSUME NEW v \in Worker, phase'[v] \in {"locked", "releasing"}, NEW u \in vec[v]
          PROVE  locker'[u] = v
      <3>1. CASE v = w
        BY <1>1, <1>2, <2>2, <3>1
      <3>2. CASE v # w
        BY <1>1, <2>2, <3>2 DEF WorkersHold, TypeOK
      <3> QED
        BY <3>1, <3>2
    <2>3. ASSUME NEW v \in Worker, phase'[v] = "locked" PROVE vec[v] # {}
      BY <1>1, <2>3 DEF WorkersHold
    <2> QED
      BY <1>1, <2>1, <2>2, <2>3 DEF WorkersHold
  <1>4. CheckpointerHolds'
    BY <1>1 DEF CheckpointerHolds
  <1>5. LockOrder'
    <2>1. ASSUME NEW v \in Worker, phase'[v] = "locking", NEW a \in vec'[v], NEW b \in vec'[v],
                 locker'[a] = v, locker'[b] # v
          PROVE  a < b
      <3>1. a \in Table /\ b \in Table /\ a \in vec[v] /\ b \in vec[v]
        BY <1>1 DEF TypeOK
      <3>2. CASE v # w
        BY <1>1, <2>1, <3>1, <3>2 DEF LockOrder
      <3>3. CASE v = w /\ a = t
        BY <1>1, <2>1, <3>1, <3>3
      <3>4. CASE v = w /\ a # t
        BY <1>1, <2>1, <3>1, <3>4 DEF LockOrder, WorkersHold
      <3> QED
        BY <3>2, <3>3, <3>4
    <2>2. ASSUME cp = "locking", NEW a \in Table, NEW b \in Table,
                 locker'[a] = Checkpointer, locker'[b] # Checkpointer
          PROVE  a < b
      BY <1>1, <2>2 DEF LockOrder
    <2>3. cp' = cp
      BY <1>1
    <2> HIDE DEF LockInv, missing
    <2> QED
      BY <2>1, <2>2, <2>3 DEF LockOrder
  <1> QED
    BY <1>3, <1>4, <1>5

LEMMA ReleaseKeepsOrder ==
  ASSUME LockInv, TypeOK', NEW w \in Worker, NEW t \in Table, Release(w, t)
  PROVE  LockInv'
  <1> USE DistinctAssumption DEF LockInv
  <1>1. /\ \/ t \in vec[w] /\ vec' = [vec EXCEPT ![w] = @ \ {t}]
           \/ vec[w] = {} /\ vec' = vec
        /\ \A u \in Table : locker'[u] = IF u = t /\ locker[t] = w THEN NoOne ELSE locker[u]
        /\ \A v \in Worker : v # w => phase'[v] = phase[v]
        /\ phase[w] = "releasing" /\ phase'[w] \in {"open", "releasing"}
        /\ phase'[w] = "open" => vec'[w] = {}
        /\ cp' = cp
    BY DEF Release, TypeOK, FirstOf, saving
  <1>2. \A v \in Worker : vec'[v] = IF v = w THEN vec[w] \ {t} ELSE vec[v]
    BY <1>1 DEF TypeOK
  <1>3. WorkersHold'
    <2>1. ASSUME NEW u \in Table, locker'[u] \in Worker
          PROVE  u \in vec'[locker'[u]] /\ phase'[locker'[u]] # "open"
      <3>1. locker'[u] = locker[u] /\ u \in vec[locker[u]] /\ phase[locker[u]] # "open"
        BY <1>1, <2>1 DEF WorkersHold
      <3>2. CASE locker[u] = w
        BY <1>1, <1>2, <2>1, <3>1, <3>2
      <3>3. CASE locker[u] # w
        BY <1>1, <1>2, <2>1, <3>1, <3>3
      <3> QED
        BY <3>2, <3>3
    <2>2. ASSUME NEW v \in Worker, phase'[v] \in {"locked", "releasing"}, NEW u \in vec'[v]
          PROVE  locker'[u] = v
      <3>1. u \in Table
        BY DEF TypeOK
      <3>2. CASE v = w
        BY <1>1, <1>2, <2>2, <3>1, <3>2 DEF WorkersHold
      <3>3. CASE v # w
        BY <1>1, <1>2, <2>2, <3>1, <3>3 DEF WorkersHold
      <3> QED
        BY <3>2, <3>3
    <2>3. ASSUME NEW v \in Worker, phase'[v] = "locked" PROVE vec'[v] # {}
      BY <1>1, <1>2, <2>3 DEF WorkersHold
    <2> QED
      BY <2>1, <2>2, <2>3 DEF WorkersHold
  <1>4. CheckpointerHolds'
    BY <1>1 DEF CheckpointerHolds
  <1>5. LockOrder'
    <2>1. ASSUME NEW v \in Worker, phase'[v] = "locking", NEW a \in vec'[v], NEW b \in vec'[v],
                 locker'[a] = v, locker'[b] # v
          PROVE  a < b
      <3>1. v # w /\ a \in Table /\ b \in Table /\ a \in vec[v] /\ b \in vec[v] /\ phase[v] = "locking"
        BY <1>1, <1>2, <2>1 DEF TypeOK
      <3>2. locker[a] = v
        BY <1>1, <2>1, <3>1
      <3>3. locker[b] # v
        BY <1>1, <2>1, <3>1
      <3> QED
        BY <3>1, <3>2, <3>3 DEF LockOrder
    <2>2. ASSUME cp = "locking", NEW a \in Table, NEW b \in Table,
                 locker'[a] = Checkpointer, locker'[b] # Checkpointer
          PROVE  a < b
      BY <1>1, <2>2 DEF LockOrder
    <2> QED
      BY <1>1, <2>1, <2>2 DEF LockOrder
  <1> QED
    BY <1>3, <1>4, <1>5

LEMMA CheckpointKeepsOrder ==
  ASSUME LockInv, TypeOK', NEW t \in Table,
         LockTable(t) \/ SnapshotCreate(t) \/ SnapshotRelease(t)
  PROVE  LockInv'
  <1> USE TableAssumption, DistinctAssumption DEF LockInv
  <1>1. phase' = phase /\ vec' = vec
    BY DEF LockTable, SnapshotCreate, SnapshotRelease, context
  <1>2. CASE LockTable(t)
    <2> DEFINE missing == {u \in Table : locker[u] # Checkpointer}
    <2>1. /\ locker[t] = NoOne /\ cp \in {"idle", "locking"} /\ cp' \in {"locking", "snapshot"}
          /\ \A u \in missing : t <= u
          /\ \A u \in Table : locker'[u] = IF u = t THEN Checkpointer ELSE locker[u]
      BY <1>2 DEF LockTable, TypeOK, FirstOf
    <2>2. WorkersHold'
      BY <1>1, <2>1 DEF WorkersHold, TypeOK
    <2>3. CheckpointerHolds'
      BY <2>1 DEF CheckpointerHolds
    <2>4. ASSUME NEW a \in Table, NEW b \in Table, locker'[a] = Checkpointer, locker'[b] # Checkpointer
          PROVE  a < b
      BY <2>1, <2>4 DEF LockOrder, CheckpointerHolds
    <2>5. ASSUME NEW w \in Worker, phase[w] = "locking", NEW a \in vec[w], NEW b \in vec[w],
                 locker'[a] = w, locker'[b] # w
          PROVE  a < b
      BY <2>1, <2>5 DEF LockOrder, TypeOK
    <2> QED
      BY <1>1, <2>2, <2>3, <2>4, <2>5 DEF LockOrder
  <1>3. CASE SnapshotCreate(t)
    <2>1. /\ locker[t] = Checkpointer /\ cp = "snapshot"
          /\ cp' = IF {u \in Table : locker[u] = Checkpointer} = {t} THEN "save" ELSE cp
          /\ \A u \in Table : locker'[u] = IF u = t THEN NoOne ELSE locker[u]
      BY <1>3 DEF SnapshotCreate, TypeOK, FirstOf
    <2>2. WorkersHold'
      BY <1>1, <2>1 DEF WorkersHold, TypeOK
    <2>3. CheckpointerHolds'
      BY <2>1 DEF CheckpointerHolds
    <2>4. ASSUME NEW w \in Worker, phase[w] = "locking", NEW a \in vec[w], NEW b \in vec[w],
                 locker'[a] = w, locker'[b] # w
          PROVE  a < b
      BY <2>1, <2>4 DEF LockOrder, TypeOK
    <2> QED
      BY <1>1, <2>1, <2>2, <2>3, <2>4 DEF LockOrder
  <1>4. CASE SnapshotRelease(t)
    <2>1. locker' = locker /\ cp = "release" /\ cp' \in {"release", "idle"}
      BY <1>4 DEF SnapshotRelease
    <2> QED
      BY <1>1, <2>1 DEF WorkersHold, CheckpointerHolds, LockOrder
  <1> QED
    BY <1>2, <1>3, <1>4

LEMMA LockInvStep == LockInv /\ TypeOK' /\ [Next]_vars => LockInv'
  <1> SUFFICES ASSUME LockInv, TypeOK', [Next]_vars PROVE LockInv'
    OBVIOUS
  <1>1. ASSUME NEW w \in Worker, NEW t \in Table, GetStorage(w, t) PROVE LockInv'
    <2>1. /\ locker' = locker /\ phase' = phase /\ cp' = cp
          /\ \A v \in Worker : phase[v] # "open" => vec'[v] = vec[v]
          /\ \A v \in Worker : vec[v] \subseteq vec'[v]
      BY <1>1 DEF GetStorage, saving, LockInv, TypeOK
    <2> QED
      BY <2>1 DEF LockInv, WorkersHold, CheckpointerHolds, LockOrder
  <1>2. ASSUME NEW w \in Worker, Leave(w) PROVE LockInv'
    <2>1. /\ locker' = locker /\ cp' = cp
          /\ \A v \in Worker : v # w => phase'[v] = phase[v] /\ vec'[v] = vec[v]
          /\ \/ phase[w] = "open" /\ phase'[w] = "open" /\ vec'[w] = {}
             \/ phase[w] = "locked" /\ phase'[w] = "releasing" /\ vec'[w] = vec[w]
      BY <1>2 DEF Leave, saving, LockInv, TypeOK
    <2> QED
      BY <2>1 DEF LockInv, WorkersHold, CheckpointerHolds, LockOrder
  <1>3. ASSUME NEW w \in Worker, NEW t \in Table, NEW k \in Key,
               Del(w, t, k) \/ FindFails(w, t, k) \/ \E v \in Value : Insert(w, t, k, v) \/ InsertNew(w, t, k, v)
        PROVE  LockInv'
    BY <1>3, SameLocks DEF Del, FindFails, Insert, InsertNew, context, saving
  <1>4. CASE (\E w \in Worker : Abort(w)) \/ UNCHANGED vars
    BY <1>4, SameLocks DEF Abort, vars, context, saving
  <1>5. CASE Save
    BY <1>5 DEF Save, context, LockInv, WorkersHold, CheckpointerHolds, LockOrder
  <1>6. CASE Crash
    <2>1. /\ \A t \in Table : locker'[t] = NoOne
          /\ \A w \in Worker : phase'[w] = "open"
          /\ cp' = "idle"
      BY <1>6 DEF Crash
    <2> QED
      BY <2>1, DistinctAssumption DEF LockInv, WorkersHold, CheckpointerHolds, LockOrder
  <1> QED
    BY <1>1, <1>2, <1>3, <1>4, <1>5, <1>6, LockKeepsOrder, ReleaseKeepsOrder, CheckpointKeepsOrder
    DEF Next, Work, Backup

LEMMA LockInvariance == Spec => []LockInv
  <1>1. TypeOK /\ LockInv /\ [Next]_vars /\ TypeOK' => LockInv'
    BY LockInvStep
  <1> QED
    BY <1>1, LockInvInit, TypeCorrect, PTL DEF Spec

\* A nonempty finite set of numbers has a greatest element.
LEMMA Greatest ==
  ASSUME NEW S \in SUBSET Nat, IsFiniteSet(S), S # {}
  PROVE  \E m \in S : \A n \in S : n <= m
  <1> DEFINE above(n) == {m \in S : m > n}
             family == {above(n) : n \in S}
  <1>1. family \subseteq FiniteSubsetsOf(S) /\ family # {}
    <2>1. ASSUME NEW n \in S PROVE above(n) \in FiniteSubsetsOf(S)
      <3>1. above(n) \in SUBSET S
        OBVIOUS
      <3>2. IsFiniteSet(above(n))
        BY <3>1, FS_Subset
      <3> QED
        BY <3>1, <3>2 DEF FiniteSubsetsOf
    <2> QED
      BY <2>1
  <1>2. PICK U \in family : \A V \in family : <<V, U>> \notin StrictSubsetOrdering(S)
    BY <1>1, FS_StrictSubsetOrderingWellFounded, WFMin
  <1>3. PICK m \in S : U = above(m)
    OBVIOUS
  <1>4. ASSUME NEW n \in S, n > m PROVE FALSE
    <2>1. above(n) \subseteq above(m) /\ n \in above(m) /\ n \notin above(n)
      <3>1. \A x \in S : x \in Nat
        OBVIOUS
      <3>2. \A x \in S : x > n => x > m
        BY <1>4, <3>1
      <3>3. ~ (n > n)
        BY <3>1
      <3> QED
        BY <1>4, <3>2, <3>3
    <2>2. <<above(n), U>> \in StrictSubsetOrdering(S)
      BY <1>3, <2>1 DEF StrictSubsetOrdering
    <2> QED
      BY <1>2, <2>2
  <1> QED
    BY <1>4

\* No set of threads waits in a circle: the one that waits for the last table would have
\* to wait for one after it (ThreadContext::lock, StorageEnv::checkpoint,
\* Storage::snapshot_release).
THEOREM NoCircularWaitHolds == Spec => []NoCircularWait
  <1>1. LockInv => NoCircularWait
    <2> SUFFICES ASSUME LockInv, NEW waiting \in (SUBSET (Worker \cup {Checkpointer})) \ {{}},
                        \A a \in waiting : \E t \in WaitsFor(a) : locker[t] \in waiting
                 PROVE  FALSE
      BY DEF NoCircularWait
    <2> USE TableAssumption, DistinctAssumption DEF LockInv
    <2> DEFINE awaited == {t \in Table : locker[t] \in waiting /\ \E a \in waiting : t \in WaitsFor(a)}
    <2>1. \A a \in waiting : WaitsFor(a) \subseteq Table
      BY DEF WaitsFor, TypeOK
    <2>2. awaited # {} /\ awaited \in SUBSET Nat /\ IsFiniteSet(awaited)
      <3>1. PICK a : a \in waiting
        <4>1. waiting # {}
          OBVIOUS
        <4> QED
          BY <4>1
      <3>2. PICK t \in WaitsFor(a) : locker[t] \in waiting
        BY <3>1
      <3>3. t \in awaited
        BY <2>1, <3>1, <3>2
      <3>4. awaited \in SUBSET Table
        OBVIOUS
      <3>5. IsFiniteSet(awaited)
        BY <3>4, FS_Subset
      <3> QED
        BY <3>3, <3>4, <3>5
    <2>3. PICK last \in awaited : \A t \in awaited : t <= last
      BY <2>2, Greatest
    <2>4. PICK t \in WaitsFor(locker[last]) : locker[t] \in waiting
      OBVIOUS
    <2>5. t \in awaited
      BY <2>1, <2>4
    <2>6. last < t
      <3>1. CASE locker[last] \in Worker
        BY <2>1, <2>3, <2>4, <3>1 DEF WaitsFor, FirstOf, LockOrder, WorkersHold
      <3>2. CASE locker[last] = Checkpointer
        BY <2>1, <2>3, <2>4, <3>2 DEF WaitsFor, FirstOf, LockOrder, CheckpointerHolds
      <3> QED
        BY <3>1, <3>2
    <2>7. t \in Nat /\ last \in Nat /\ t <= last
      BY <2>3, <2>5
    <2> QED
      BY <2>6, <2>7
  <1> QED
    BY <1>1, LockInvariance, PTL

-----------------------------------------------------------------------------
(***************************************************************************)
(* The contents.  Undo logs belong to transactions that have their tables, *)
(* and pages that are not dirty are as the checkpoint leaves them on disk. *)
(***************************************************************************)
HasTables(t) == locker[t] \in Worker /\ phase[locker[t]] \in {"locked", "releasing"}

UndoInv ==
    /\ \A w \in Worker : late[w] = {}
    /\ \A t \in Table : HasTables(t) \/ (prepared[t] = None[t] /\ new_key[t] = {})

CleanPages == \A t \in Table, k \in Key : k \in dirty[t] \/ db[t][k] = Saved(t)[k]

CopiesInv ==
    /\ cp \in {"idle", "locking"} => snap = None
    /\ cp = "snapshot" => \A t \in Table : locker[t] = Checkpointer => snap[t] = None[t]
    /\ cp = "release" => \A t \in Table :
          Saved(t) = disk[t] /\ (t \notin cp_left => snap[t] = None[t])

Inv == LockInv /\ UndoInv /\ CleanPages /\ CopiesInv

\* Facts about values that the steps below share.
LEMMA NothingToUndo ==
  ASSUME TypeOK, NEW t \in Table, prepared[t] = None[t], new_key[t] = {}
  PROVE  Undone(t) = db[t]
  BY DEF TypeOK, Undone, None, Contents

LEMMA NothingCopied ==
  ASSUME TypeOK, NEW t \in Table, snap[t] = None[t]
  PROVE  Saved(t) = disk[t]
  BY DEF TypeOK, Saved, None, Contents

LEMMA InitInv == Init => Inv
  <1> SUFFICES ASSUME Init PROVE Inv
    OBVIOUS
  <1>1. LockInv
    BY LockInvInit
  <1>2. UndoInv
    BY DEF Init, Fresh, UndoInv, None
  <1>3. \A t \in Table : Saved(t) = disk[t]
    BY <1>1, NothingCopied DEF Init, Fresh, LockInv
  <1>4. CleanPages
    BY <1>3 DEF Init, CleanPages
  <1>5. CopiesInv
    BY DEF Init, Fresh, CopiesInv
  <1> QED
    BY <1>1, <1>2, <1>4, <1>5 DEF Inv

\* A transaction that touches the pages and the undo log of a table it has.
LEMMA WritesKeepInv ==
  ASSUME Inv, LockInv', CleanAssumption, NEW w \in Worker, NEW t \in Table,
         Uses(w, t), UNCHANGED <<locker, phase, late, saving>>,
         \A u \in Table : u # t => prepared'[u] = prepared[u] /\ new_key'[u] = new_key[u],
         \/ UNCHANGED store
         \/ \E k \in Key, r \in Record : Put(t, k, r)
  PROVE  Inv'
  <1>1. locker[t] = w /\ phase[w] = "locked"
    BY DEF Uses, Inv, UndoInv, LockInv, WorkersHold
  <1>2. UndoInv'
    BY <1>1 DEF Inv, UndoInv, HasTables, None
  <1>3. \A u \in Table : Saved(u)' = Saved(u)
    BY DEF Saved, saving
  <1>4. ASSUME NEW u \in Table, NEW k \in Key
        PROVE  k \in dirty'[u] \/ db'[u][k] = Saved(u)[k]
    <2>1. CASE UNCHANGED store
      BY <2>1 DEF Inv, CleanPages, store
    <2>2. CASE \E l \in Key, r \in Record : Put(t, l, r)
      <3>1. PICK l \in Key, r \in Record : Put(t, l, r)
        BY <2>2
      <3>2. CASE u = t /\ k = l
        BY <3>1, <3>2 DEF Put, Inv, LockInv, TypeOK
      <3>3. CASE ~ (u = t /\ k = l)
        <4>1. db'[u][k] = db[u][k] /\ dirty[u] \subseteq dirty'[u]
          BY <3>1, <3>3 DEF Put, Inv, LockInv, TypeOK, Contents
        <4> QED
          BY <4>1 DEF Inv, CleanPages
      <3> QED
        BY <3>2, <3>3
    <2> QED
      BY <2>1, <2>2
  <1>5. CleanPages'
    BY <1>3, <1>4 DEF CleanPages
  <1>6. CopiesInv'
    BY <1>3 DEF Inv, CopiesInv, saving
  <1> QED
    BY <1>2, <1>5, <1>6 DEF Inv

LEMMA ReleaseKeepsInv ==
  ASSUME Inv, LockInv', CleanAssumption, NEW w \in Worker, NEW t \in Table, Release(w, t)
  PROVE  Inv'
  <1>1. /\ t \in vec[w] /\ locker[t] = w /\ phase[w] = "releasing" /\ late' = late
        /\ \A u \in Table : locker'[u] = IF u = t THEN NoOne ELSE locker[u]
        /\ \A u \in Table : u # t => prepared'[u] = prepared[u] /\ new_key'[u] = new_key[u]
        /\ prepared'[t] = None[t] /\ new_key'[t] = {}
        /\ \A v \in Worker : v # w => phase'[v] = phase[v]
        /\ phase'[w] = IF vec[w] \ {t} = {} THEN "open" ELSE "releasing"
    BY DEF Release, Inv, UndoInv, LockInv, WorkersHold, TypeOK, FirstOf
  <1>2. \A u \in Table : Saved(u)' = Saved(u)
    BY DEF Release, Saved, saving
  <1>3. UndoInv'
    <2>1. ASSUME NEW u \in Table, u # t, HasTables(u) PROVE HasTables(u)'
      <3>1. locker'[u] = locker[u] /\ u \in vec[locker[u]]
        BY <1>1, <2>1 DEF HasTables, Inv, LockInv, WorkersHold
      <3> QED
        BY <1>1, <2>1, <3>1 DEF HasTables
    <2> QED
      BY <1>1, <2>1 DEF Inv, UndoInv, None
  <1>4. ASSUME NEW u \in Table, NEW k \in Key
        PROVE  k \in dirty'[u] \/ db'[u][k] = Saved(u)[k]
    <2>1. CASE UNCHANGED store
      BY <2>1 DEF Inv, CleanPages, store
    <2>2. CASE /\ u = t
               /\ db' = [db EXCEPT ![t] = Undone(t)]
               /\ dirty' = [dirty EXCEPT ![t] = @ \cup new_key[t] \cup {l \in Key : prepared[t][l] # Unsaved}]
      <3>1. /\ dirty[t] \cup new_key[t] \cup {l \in Key : prepared[t][l] # Unsaved} = dirty'[t]
            /\ db'[t] = Undone(t)
        BY <2>2 DEF Inv, LockInv, TypeOK, Contents
      <3> QED
        BY <2>2, <3>1 DEF Inv, CleanPages, Undone
    <2>3. CASE /\ u # t
               /\ db' = [db EXCEPT ![t] = Undone(t)]
               /\ dirty' = [dirty EXCEPT ![t] = @ \cup new_key[t] \cup {l \in Key : prepared[t][l] # Unsaved}]
      BY <2>3 DEF Inv, CleanPages, LockInv, TypeOK, Contents
    <2> QED
      BY <2>1, <2>2, <2>3 DEF Release
  <1>5. CleanPages'
    BY <1>2, <1>4 DEF CleanPages
  <1>6. CopiesInv'
    BY <1>1, <1>2, DistinctAssumption DEF Inv, CopiesInv, Release, saving
  <1> QED
    BY <1>3, <1>5, <1>6 DEF Inv

LEMMA CheckpointKeepsInv ==
  ASSUME Inv, LockInv', CleanAssumption, Backup
  PROVE  Inv'
  <1> USE DistinctAssumption
  <1>1. ASSUME NEW t \in Table, LockTable(t) PROVE Inv'
    <2>1. /\ \A u \in Table : locker'[u] = IF u = t THEN Checkpointer ELSE locker[u]
          /\ locker[t] = NoOne /\ phase' = phase /\ late' = late
          /\ prepared' = prepared /\ new_key' = new_key
          /\ cp \in {"idle", "locking"} /\ cp' \in {"locking", "snapshot"} /\ snap' = snap
      BY <1>1 DEF LockTable, undo, context, Inv, LockInv, TypeOK
    <2>2. UndoInv'
      BY <2>1 DEF Inv, UndoInv, HasTables, None
    <2>3. CleanPages'
      BY <1>1 DEF LockTable, store, Inv, CleanPages, Saved
    <2>4. CopiesInv'
      BY <2>1 DEF Inv, CopiesInv, None
    <2> QED
      BY <2>2, <2>3, <2>4 DEF Inv
  <1>2. ASSUME NEW t \in Table, SnapshotCreate(t) PROVE Inv'
    <2>1. /\ \A u \in Table : locker'[u] = IF u = t THEN NoOne ELSE locker[u]
          /\ \A u \in Table : u # t => dirty'[u] = dirty[u] /\ snap'[u] = snap[u]
          /\ snap'[t] = [k \in Key |-> IF k \in dirty[t] THEN db[t][k] ELSE Unsaved]
          /\ locker[t] = Checkpointer /\ phase' = phase /\ late' = late
          /\ prepared' = prepared /\ new_key' = new_key /\ db' = db /\ disk' = disk
          /\ cp = "snapshot" /\ cp' \in {"snapshot", "save"}
      BY <1>2 DEF SnapshotCreate, undo, context, Inv, LockInv, TypeOK, FirstOf
    <2>2. UndoInv'
      BY <2>1 DEF Inv, UndoInv, HasTables, None
    <2>3. ASSUME NEW u \in Table, NEW k \in Key PROVE k \in dirty'[u] \/ db[u][k] = Saved(u)'[k]
      <3>1. CASE u # t
        BY <2>1, <3>1 DEF Inv, CleanPages, Saved
      <3>2. CASE u = t /\ k \in dirty[t]
        <4>1. db[t][k] # Unsaved
          BY DEF Inv, LockInv, TypeOK, Contents, Record
        <4> QED
          BY <2>1, <3>2, <4>1 DEF Saved
      <3>3. CASE u = t /\ k \notin dirty[t]
        <4>1. db[t][k] = disk[t][k]
          <5>1. Saved(t) = disk[t]
            BY <2>1, NothingCopied DEF Inv, LockInv, CopiesInv
          <5> QED
            BY <3>3, <5>1 DEF Inv, CleanPages
        <4> QED
          BY <2>1, <3>3, <4>1 DEF Saved
      <3> QED
        BY <3>1, <3>2, <3>3
    <2>4. CleanPages'
      BY <2>1, <2>3 DEF CleanPages
    <2>5. CopiesInv'
      BY <2>1 DEF Inv, CopiesInv, None
    <2> QED
      BY <2>2, <2>4, <2>5 DEF Inv
  <1>3. ASSUME Save PROVE Inv'
    <2>1. /\ disk' = [t \in Table |-> Saved(t)] /\ snap' = snap
          /\ cp' = "release" /\ cp_left' = Table
          /\ UNCHANGED <<store, undo, locker, context>>
      BY <1>3 DEF Save, CleanAssumption
    <2>2. ASSUME NEW t \in Table PROVE Saved(t)' = Saved(t)
      BY <2>1 DEF Saved
    <2>3. UndoInv'
      BY <2>1 DEF Inv, UndoInv, HasTables, None, undo, context
    <2>4. CleanPages'
      BY <2>1, <2>2 DEF Inv, CleanPages, store
    <2>5. CopiesInv'
      BY <2>1, <2>2 DEF CopiesInv
    <2> QED
      BY <2>3, <2>4, <2>5 DEF Inv
  <1>4. ASSUME NEW t \in Table, SnapshotRelease(t) PROVE Inv'
    <2>1. /\ \A u \in Table : snap'[u] = IF u = t THEN None[t] ELSE snap[u]
          /\ cp = "release" /\ cp_left' = cp_left \ {t} /\ disk' = disk
          /\ cp' = IF cp_left' = {} THEN "idle" ELSE "release"
          /\ UNCHANGED <<store, undo, locker, context>>
      BY <1>4 DEF SnapshotRelease, Inv, LockInv, TypeOK
    <2>2. ASSUME NEW u \in Table PROVE Saved(u)' = disk[u] /\ Saved(u) = disk[u]
      <3>1. Saved(u) = disk[u]
        BY <2>1 DEF Inv, CopiesInv
      <3>2. CASE u = t
        BY <2>1, <3>1, <3>2 DEF Inv, LockInv, TypeOK, Contents, Saved, None
      <3>3. CASE u # t
        BY <2>1, <3>1, <3>3 DEF Saved
      <3> QED
        BY <3>1, <3>2, <3>3
    <2>3. UndoInv'
      BY <2>1 DEF Inv, UndoInv, HasTables, None, undo, context
    <2>4. CleanPages'
      BY <2>1, <2>2 DEF Inv, CleanPages, store
    <2>5. ASSUME NEW u \in Table, u \notin cp_left' PROVE snap'[u] = None[u]
      BY <2>1, <2>5 DEF Inv, CopiesInv, None
    <2>6. cp_left' = {} => snap' = None
      BY <2>5 DEF Inv, LockInv, TypeOK, None
    <2>7. CopiesInv'
      BY <2>1, <2>2, <2>5, <2>6 DEF CopiesInv, None
    <2> QED
      BY <2>3, <2>4, <2>7 DEF Inv
  <1> QED
    BY <1>1, <1>2, <1>3, <1>4 DEF Backup

LEMMA InvStep == CleanAssumption /\ Inv /\ LockInv' /\ [Next]_vars => Inv'
  <1> SUFFICES ASSUME CleanAssumption, Inv, LockInv', [Next]_vars PROVE Inv'
    OBVIOUS
  <1> USE DistinctAssumption
  <1>1. ASSUME NEW w \in Worker, NEW t \in Table, NEW k \in Key, NEW v \in Value, Insert(w, t, k, v)
        PROVE  Inv'
    <2>1. /\ Uses(w, t) /\ v \in Record /\ Put(t, k, v) /\ UNCHANGED <<locker, phase, late, saving>>
          /\ \A u \in Table : u # t => prepared'[u] = prepared[u] /\ new_key'[u] = new_key[u]
      BY <1>1 DEF Insert, context, Record, undo, Inv, LockInv, TypeOK
    <2> QED
      BY <2>1, WritesKeepInv
  <1>2. ASSUME NEW w \in Worker, NEW t \in Table, NEW k \in Key, NEW v \in Value, InsertNew(w, t, k, v)
        PROVE  Inv'
    <2>1. /\ Uses(w, t) /\ v \in Record /\ UNCHANGED <<locker, phase, late, saving>>
          /\ Put(t, k, v) \/ UNCHANGED store
          /\ \A u \in Table : u # t => prepared'[u] = prepared[u] /\ new_key'[u] = new_key[u]
      BY <1>2 DEF InsertNew, Record, Inv, LockInv, TypeOK
    <2> QED
      BY <2>1, WritesKeepInv
  <1>3. ASSUME NEW w \in Worker, NEW t \in Table, NEW k \in Key, Del(w, t, k)
        PROVE  Inv'
    <2>1. /\ Uses(w, t) /\ NoRecord \in Record /\ UNCHANGED <<locker, phase, late, saving>>
          /\ Put(t, k, NoRecord) \/ UNCHANGED store
          /\ \A u \in Table : u # t => prepared'[u] = prepared[u] /\ new_key'[u] = new_key[u]
      BY <1>3 DEF Del, context, Record, undo, Inv, LockInv, TypeOK
    <2> QED
      BY <2>1, WritesKeepInv
  <1>4. ASSUME NEW w \in Worker, NEW t \in Table, NEW k \in Key, FindFails(w, t, k)
        PROVE  Inv'
    BY <1>4, WritesKeepInv DEF FindFails, undo
  <1>5. ASSUME NEW w \in Worker, Abort(w) PROVE Inv'
    BY <1>5 DEF Abort, Inv, UndoInv, HasTables, None, CleanPages, Saved, CopiesInv, store, undo, saving
  <1>6. ASSUME NEW w \in Worker, NEW t \in Table, GetStorage(w, t) PROVE Inv'
    <2>1. late' = late /\ UNCHANGED <<store, undo, locker, phase, saving>>
      BY <1>6 DEF GetStorage, CleanAssumption
    <2> QED
      BY <2>1 DEF Inv, UndoInv, HasTables, None, CleanPages, Saved, CopiesInv, store, undo, saving
  <1>7. ASSUME NEW w \in Worker, NEW t \in Table, Lock(w, t) PROVE Inv'
    <2>1. /\ UNCHANGED <<store, undo, late, saving>> /\ locker[t] = NoOne /\ phase[w] \in {"open", "locking"}
          /\ \A u \in Table : u # t => locker'[u] = locker[u]
          /\ locker'[t] = w
          /\ \A v \in Worker : v # w => phase'[v] = phase[v]
      BY <1>7 DEF Lock, Inv, LockInv, TypeOK
    <2>2. UndoInv'
      BY <2>1 DEF Inv, UndoInv, HasTables, None, undo
    <2>3. CleanPages'
      BY <2>1 DEF Inv, CleanPages, Saved, store, saving
    <2>4. CopiesInv'
      BY <2>1 DEF Inv, CopiesInv, Saved, saving, None
    <2> QED
      BY <2>2, <2>3, <2>4 DEF Inv
  <1>8. ASSUME NEW w \in Worker, Leave(w) PROVE Inv'
    <2>1. /\ UNCHANGED <<store, undo, late, saving, locker>>
          /\ \A v \in Worker : v # w => phase'[v] = phase[v]
          /\ phase[w] \in {"locked", "releasing"} => phase'[w] \in {"locked", "releasing"}
      BY <1>8 DEF Leave, Inv, LockInv, TypeOK
    <2>2. UndoInv'
      BY <2>1 DEF Inv, UndoInv, HasTables, None, undo
    <2>3. CleanPages' /\ CopiesInv'
      BY <2>1 DEF Inv, CleanPages, CopiesInv, Saved, store, saving, None
    <2> QED
      BY <2>2, <2>3 DEF Inv
  <1>9. CASE Crash
    <2>1. UndoInv'
      BY <1>9 DEF Crash, UndoInv, None
    <2>2. db' = disk' /\ \A t \in Table : snap'[t] = None'[t]
      BY <1>9 DEF Crash, None
    <2>3. \A t \in Table : Saved(t)' = disk'[t]
      <3>1. disk \in Contents /\ disk' = disk
        BY <1>9 DEF Crash, Inv, LockInv, TypeOK
      <3> QED
        BY <2>2, <3>1 DEF Saved, None, Contents
    <2>4. CleanPages'
      BY <2>2, <2>3 DEF CleanPages
    <2>5. CopiesInv'
      BY <1>9 DEF Crash, CopiesInv, None
    <2> QED
      BY <2>1, <2>4, <2>5 DEF Inv
  <1>10. CASE UNCHANGED vars
    BY <1>10 DEF vars, Inv, UndoInv, HasTables, None, CleanPages, Saved, CopiesInv, store, undo, context, saving
  <1> QED
    BY <1>1, <1>2, <1>3, <1>4, <1>5, <1>6, <1>7, <1>8, <1>9, <1>10, ReleaseKeepsInv, CheckpointKeepsInv
    DEF Next, Work

LEMMA Invariance == ASSUME CleanAssumption PROVE Spec => []Inv
  <1>1. Inv /\ LockInv' /\ [Next]_vars => Inv'
    BY InvStep
  <1> QED
    BY <1>1, InitInv, LockInvariance, PTL DEF Spec

-----------------------------------------------------------------------------
(***************************************************************************)
(* The refinement.  Every step of the storage layer is a step of           *)
(* AtomicStore, or none, with any number of threads, tables, keys and      *)
(* values: one lemma for the steps inside a transaction, one for its lock, *)
(* its end, its release, and one for the checkpoint.                       *)
(***************************************************************************)
AbstractVars == <<Committed, Held, View, Doomed, Image, disk>>

\* Of which of the abstract variables can change when only these do.
LEMMA HeldSame == ASSUME UNCHANGED <<phase, vec>> PROVE Held' = Held
  BY DEF Held

LEMMA ImageSame ==
  ASSUME UNCHANGED <<snap, disk, cp>>,
         \A t \in Table : locker'[t] = locker[t] \/ cp # "snapshot"
                          \/ (locker[t] # Checkpointer /\ locker'[t] # Checkpointer),
         \A t \in Table : locker[t] = Checkpointer => db'[t] = db[t]
  PROVE  Image' = Image
  BY DEF Image, Saved

LEMMA HeldMeansLocked ==
  ASSUME Inv, NEW w \in Worker, NEW t \in Held[w]
  PROVE  t \in Table /\ locker[t] = w /\ phase[w] = "locked"
  BY DEF Inv, LockInv, WorkersHold, TypeOK, Held

-----------------------------------------------------------------------------
\* Insert, InsertNew and Del: a write the transaction can take back.
LEMMA UndoneSame ==
  ASSUME Inv, NEW t \in Table, NEW k \in Key, NEW r \in Record,
         db' = [db EXCEPT ![t][k] = r] \/ db' = db,
         \A l \in Key : l # k =>
            prepared'[t][l] = prepared[t][l] /\ (l \in new_key'[t] <=> l \in new_key[t]),
         Undone(t)'[k] = Undone(t)[k]
  PROVE  Undone(t)' = Undone(t)
  <1>1. \A l \in Key : l # k => db'[t][l] = db[t][l]
    BY DEF Inv, LockInv, TypeOK, Contents
  <1>2. ASSUME NEW l \in Key PROVE Undone(t)'[l] = Undone(t)[l]
    BY <1>1 DEF Undone
  <1> QED
    BY <1>2 DEF Undone

LEMMA WriteRefines ==
  ASSUME Inv, NEW w \in Worker, NEW t \in Table, NEW k \in Key, NEW r \in Record,
         Uses(w, t), db' = [db EXCEPT ![t][k] = r],
         \A u \in Table : u # t => prepared'[u] = prepared[u] /\ new_key'[u] = new_key[u],
         Undone(t)' = Undone(t), UNCHANGED <<locker, context, saving>>
  PROVE  Abstract!Write(w, t, k, r)
  <1> USE DistinctAssumption
  <1>1. locker[t] = w /\ phase[w] = "locked" /\ t \in vec[w]
    BY DEF Uses, Inv, UndoInv, LockInv, WorkersHold
  <1>2. /\ \A u \in Table : u # t => db'[u] = db[u]
        /\ db'[t] = [db[t] EXCEPT ![k] = r]
    BY DEF Inv, LockInv, TypeOK, Contents
  <1>3. Held' = Held /\ Doomed' = Doomed /\ t \in Held[w]
    BY <1>1 DEF Held, Doomed, context
  <1>4. Committed' = Committed
    <2>1. ASSUME NEW u \in Table, u # t PROVE Undone(u)' = Undone(u) /\ db'[u] = db[u]
      BY <1>2, <2>1 DEF Undone
    <2>2. ASSUME NEW u \in Table PROVE Committed'[u] = Committed[u]
      BY <1>1, <2>1 DEF Committed, Rolls, context
    <2> QED
      BY <2>2 DEF Committed
  <1>5. Image' = Image /\ disk' = disk
    BY <1>1, <1>2, ImageSame DEF saving
  <1>6. View' = [View EXCEPT ![w][t][k] = r]
    <2>1. ASSUME NEW v \in Worker, v # w PROVE View'[v] = View[v]
      <3>1. t \notin Held[v]
        BY <1>1, <2>1, HeldMeansLocked
      <3> QED
        BY <1>2, <1>3, <3>1 DEF View
    <2>2. View'[w] = [View[w] EXCEPT ![t] = [@ EXCEPT ![k] = r]]
      <3>1. View[w][t] = db[t] /\ View'[w][t] = db'[t]
        BY <1>3 DEF View
      <3>2. \A u \in Table : u # t => View'[w][u] = View[w][u]
        BY <1>2, <1>3 DEF View
      <3>3. View'[w][t] = [View[w][t] EXCEPT ![k] = r]
        BY <1>2, <3>1
      <3>4. View'[w] = [u \in Table |-> View'[w][u]] /\ View[w] = [u \in Table |-> View[w][u]]
        BY DEF View
      <3> QED
        BY <3>2, <3>3, <3>4
    <2> DEFINE written == [View[w] EXCEPT ![t] = [View[w][t] EXCEPT ![k] = r]]
    <2>3. View' = [v \in Worker |-> View'[v]] /\ View = [v \in Worker |-> View[v]]
      BY DEF View
    <2>4. View' = [View EXCEPT ![w] = written]
      <3>1. View'[w] = written
        BY <2>2
      <3> HIDE DEF written
      <3> QED
        BY <2>1, <2>3, <3>1
    <2> QED
      BY <2>4
  <1> QED
    BY <1>3, <1>4, <1>5, <1>6 DEF Abstract!Write

LEMMA AccessRefines ==
  ASSUME Inv, NEW w \in Worker, NEW t \in Table, NEW k \in Key,
         Del(w, t, k) \/ \E v \in Value : Insert(w, t, k, v)
  PROVE  \E r \in Record : Abstract!Write(w, t, k, r)
  <1> USE DistinctAssumption
  <1>1. CASE \E v \in Value : Insert(w, t, k, v)
    <2>1. PICK v \in Value : Insert(w, t, k, v)
      BY <1>1
    <2>2. /\ v \in Record /\ Uses(w, t) /\ UNCHANGED <<locker, context, saving>>
          /\ db' = [db EXCEPT ![t][k] = v]
          /\ \A u \in Table : u # t => prepared'[u] = prepared[u] /\ new_key'[u] = new_key[u]
          /\ \A l \in Key : l # k =>
                prepared'[t][l] = prepared[t][l] /\ (l \in new_key'[t] <=> l \in new_key[t])
      BY <2>1 DEF Insert, Put, Record, undo, Inv, LockInv, TypeOK
    <2>3. Undone(t)'[k] = Undone(t)[k]
      <3>1. CASE prepared[t][k] # Unsaved \/ k \in new_key[t]
        BY <2>1, <3>1 DEF Insert, undo, Undone
      <3>2. CASE prepared[t][k] = Unsaved /\ k \notin new_key[t] /\ db[t][k] = NoRecord
        BY <2>1, <3>2 DEF Insert, Undone, Inv, LockInv, TypeOK
      <3>3. CASE prepared[t][k] = Unsaved /\ k \notin new_key[t] /\ db[t][k] # NoRecord
        <4>1. db[t][k] # Unsaved
          BY DEF Inv, LockInv, TypeOK, Contents, Record
        <4>2. prepared'[t][k] = db[t][k] /\ new_key' = new_key
          BY <2>1, <3>3 DEF Insert, Inv, LockInv, TypeOK
        <4> QED
          BY <3>3, <4>1, <4>2 DEF Undone
      <3> QED
        BY <3>1, <3>2, <3>3
    <2> QED
      BY <2>2, <2>3, UndoneSame, WriteRefines
  <1>2. CASE Del(w, t, k)
    <2>1. /\ NoRecord \in Record /\ Uses(w, t) /\ UNCHANGED <<locker, context, saving>>
          /\ db' = [db EXCEPT ![t][k] = NoRecord]
          /\ \A u \in Table : u # t => prepared'[u] = prepared[u] /\ new_key'[u] = new_key[u]
          /\ \A l \in Key : l # k =>
                prepared'[t][l] = prepared[t][l] /\ (l \in new_key'[t] <=> l \in new_key[t])
      <3>1. db' = [db EXCEPT ![t][k] = NoRecord]
        <4>1. CASE db[t][k] = NoRecord
          BY <1>2, <4>1 DEF Del, store, Inv, LockInv, TypeOK, Contents
        <4>2. CASE db[t][k] # NoRecord
          BY <1>2, <4>2 DEF Del, Put
        <4> QED
          BY <4>1, <4>2
      <3> QED
        BY <1>2, <3>1 DEF Del, Record, undo, Inv, LockInv, TypeOK
    <2>2. Undone(t)'[k] = Undone(t)[k]
      <3>1. CASE prepared[t][k] # Unsaved
        BY <1>2, <3>1 DEF Del, undo, Undone
      <3>2. CASE prepared[t][k] = Unsaved /\ k \in new_key[t]
        <4>1. prepared' = prepared /\ k \notin new_key'[t]
          BY <1>2, <3>2 DEF Del, Inv, LockInv, TypeOK
        <4>2. db'[t][k] = NoRecord
          BY <2>1 DEF Inv, LockInv, TypeOK, Contents
        <4> QED
          BY <3>2, <4>1, <4>2 DEF Undone
      <3>3. CASE prepared[t][k] = Unsaved /\ k \notin new_key[t]
        <4>1. /\ prepared'[t][k] = IF db[t][k] = NoRecord THEN Unsaved ELSE db[t][k]
              /\ new_key' = new_key
          BY <1>2, <3>3 DEF Del, Inv, LockInv, TypeOK
        <4>2. db'[t][k] = NoRecord /\ db[t][k] # Unsaved
          BY <2>1 DEF Inv, LockInv, TypeOK, Contents, Record
        <4> QED
          BY <3>3, <4>1, <4>2 DEF Undone
      <3> QED
        BY <3>1, <3>2, <3>3
    <2> QED
      BY <2>1, <2>2, UndoneSame, WriteRefines
  <1> QED
    BY <1>1, <1>2

LEMMA DoomRefines ==
  ASSUME Inv, NEW w \in Worker, phase[w] = "locked", cancel' = [cancel EXCEPT ![w] = TRUE],
         UNCHANGED <<store, undo, locker, phase, vec, late, saving>>
  PROVE  Abstract!Doom(w)
  <1>1. Held[w] # {} /\ Held' = Held
    BY DEF Held, Inv, LockInv, WorkersHold
  <1>2. View' = View
    BY <1>1 DEF View, store
  <1>3. Committed' = Committed
    <2>1. \A v \in Worker : Rolls(v)' <=> Rolls(v)
      BY DEF Rolls, Inv, LockInv, TypeOK
    <2>2. \A t \in Table : Undone(t)' = Undone(t)
      BY DEF Undone, store, undo
    <2> QED
      BY <2>1, <2>2 DEF Committed, store
  <1>4. Image' = Image /\ disk' = disk
    BY DEF Image, Saved, saving, store
  <1>5. Doomed' = [Doomed EXCEPT ![w] = TRUE]
    BY DEF Doomed, Inv, LockInv, TypeOK
  <1> QED
    BY <1>1, <1>2, <1>3, <1>4, <1>5 DEF Abstract!Doom

LEMMA InsertNewRefines ==
  ASSUME Inv, NEW w \in Worker, NEW t \in Table, NEW k \in Key, NEW v \in Value, InsertNew(w, t, k, v)
  PROVE  Abstract!Write(w, t, k, v) \/ Abstract!Doom(w)
  <1> USE DistinctAssumption
  <1>1. CASE db[t][k] = NoRecord
    <2>1. /\ v \in Record /\ Uses(w, t) /\ UNCHANGED <<locker, context, saving>>
          /\ db' = [db EXCEPT ![t][k] = v]
          /\ prepared' = prepared /\ new_key' = [new_key EXCEPT ![t] = @ \cup {k}]
          /\ prepared[t][k] = Unsaved
      BY <1>1 DEF InsertNew, Put, Record, context
    <2>2. \A u \in Table : u # t => new_key'[u] = new_key[u]
      BY <2>1 DEF Inv, LockInv, TypeOK
    <2>3. new_key'[t] = new_key[t] \cup {k}
      BY <2>1 DEF Inv, LockInv, TypeOK
    <2>4. Undone(t)'[k] = Undone(t)[k]
      BY <1>1, <2>1, <2>3 DEF Undone
    <2>5. Undone(t)' = Undone(t)
      BY <2>1, <2>3, <2>4, UndoneSame
    <2> QED
      BY <2>1, <2>2, <2>5, WriteRefines
  <1>2. CASE db[t][k] # NoRecord
    BY <1>2, DoomRefines DEF InsertNew, Uses, undo
  <1> QED
    BY <1>1, <1>2

-----------------------------------------------------------------------------
\* The lock that completes the vector begins the transaction; the others do not count.
LEMMA LockRefines ==
  ASSUME Inv, NEW w \in Worker, NEW t \in Table, Lock(w, t)
  PROVE  Abstract!Begin(w, vec[w]) \/ UNCHANGED AbstractVars
  <1> DEFINE missing == {u \in vec[w] : locker[u] # w}
  <1> USE DistinctAssumption
  <1>1. /\ t \in vec[w] /\ locker[t] = NoOne /\ phase[w] \in {"open", "locking"}
        /\ \A u \in Table : locker'[u] = IF u = t THEN w ELSE locker[u]
        /\ \A v \in Worker : v # w => phase'[v] = phase[v] /\ cancel'[v] = cancel[v]
        /\ phase'[w] = IF missing = {t} THEN "locked" ELSE "locking"
        /\ cancel'[w] = FALSE /\ UNCHANGED <<store, undo, vec, late, saving>>
    BY DEF Lock, FirstOf, Inv, LockInv, TypeOK
  <1>2. ASSUME NEW u \in Table, locker[u] \in Worker \cup {NoOne},
               locker[u] \in Worker => phase[locker[u]] \in {"open", "locking"}
        PROVE  Undone(u) = db[u] /\ Undone(u)' = db[u]
    <2>1. prepared[u] = None[u] /\ new_key[u] = {}
      BY <1>2 DEF Inv, UndoInv, HasTables
    <2>2. Undone(u) = db[u]
      BY <2>1, NothingToUndo DEF Inv, LockInv
    <2> QED
      BY <1>1, <2>2 DEF Undone, store, undo
  <1>3. Committed' = Committed
    <2>1. ASSUME NEW u \in Table PROVE Committed'[u] = Committed[u]
      <3>1. Undone(u)' = Undone(u) /\ db'[u] = db[u]
        BY <1>1 DEF Undone, store, undo
      <3>2. CASE u = t
        BY <1>1, <1>2, <3>1, <3>2 DEF Committed
      <3>3. CASE u # t /\ locker[u] = w
        BY <1>1, <1>2, <3>1, <3>3 DEF Committed
      <3>4. CASE u # t /\ locker[u] # w
        BY <1>1, <3>1, <3>4 DEF Committed, Rolls
      <3> QED
        BY <3>2, <3>3, <3>4
    <2> QED
      BY <2>1 DEF Committed
  <1>4. Image' = Image /\ disk' = disk
    BY <1>1 DEF Image, Saved, saving, store
  <1>5. CASE missing # {t}
    <2>1. Held' = Held
      BY <1>1, <1>5 DEF Held
    <2>2. View' = View
      BY <1>1, <2>1 DEF View, store
    <2>3. Doomed' = Doomed
      BY <1>1, <1>5 DEF Doomed
    <2> QED
      BY <1>3, <1>4, <2>1, <2>2, <2>3 DEF AbstractVars
  <1>6. CASE missing = {t}
    <2>1. Held[w] = {} /\ vec[w] # {} /\ vec[w] \in SUBSET Table
      BY <1>1 DEF Held, Inv, LockInv, TypeOK
    <2>2. \A v \in Worker : vec[w] \cap Held[v] = {}
      <3> SUFFICES ASSUME NEW v \in Worker, NEW u \in vec[w], u \in Held[v] PROVE FALSE
        OBVIOUS
      <3>1. locker[u] = v /\ phase[v] = "locked"
        BY HeldMeansLocked
      <3>2. u = t \/ locker[u] = w
        BY <1>6
      <3> QED
        BY <1>1, <3>1, <3>2
    <2>3. Held' = [Held EXCEPT ![w] = vec[w]]
      BY <1>1, <1>6 DEF Held
    <2>4. ASSUME NEW u \in vec[w] PROVE Committed[u] = db[u]
      <3>1. u = t \/ locker[u] = w
        BY <1>6
      <3> QED
        BY <1>1, <2>1, <3>1 DEF Committed, Rolls
    <2>5. View' = [View EXCEPT ![w] =
                     [u \in Table |-> IF u \in vec[w] THEN Committed[u] ELSE Abstract!Empty[u]]]
      <3>1. ASSUME NEW v \in Worker, v # w PROVE View'[v] = View[v]
        BY <1>1, <2>3, <3>1 DEF View, store, Held
      <3>2. View'[w] = [u \in Table |-> IF u \in vec[w] THEN Committed[u] ELSE Abstract!Empty[u]]
        <4>1. Held'[w] = vec[w]
          BY <2>3 DEF Held
        <4> QED
          BY <1>1, <2>4, <4>1 DEF View, store, Abstract!Empty
      <3>3. View' = [v \in Worker |-> View'[v]] /\ View = [v \in Worker |-> View[v]]
        BY DEF View
      <3> QED
        BY <3>1, <3>2, <3>3
    <2>6. Doomed' = Doomed
      BY <1>1, <1>6 DEF Doomed
    <2> QED
      BY <1>3, <1>4, <2>1, <2>2, <2>3, <2>5, <2>6 DEF Abstract!Begin
  <1> QED
    BY <1>5, <1>6

\* The end of the last Transaction object is the end of the transaction.
LEMMA LeaveRefines ==
  ASSUME Inv, NEW w \in Worker, Leave(w)
  PROVE  Abstract!End(w) \/ UNCHANGED AbstractVars
  <1> USE DistinctAssumption
  <1>1. UNCHANGED <<store, undo, locker, late, cancel, saving>>
    BY DEF Leave
  <1>2. Image' = Image /\ disk' = disk /\ \A u \in Table : Undone(u)' = Undone(u)
    BY <1>1 DEF Image, Saved, Undone, saving, store, undo
  <1>3. CASE phase[w] = "open"
    <2>1. phase' = phase /\ vec' = [vec EXCEPT ![w] = {}]
      BY <1>3 DEF Leave
    <2>2. Held' = Held
      BY <1>3, <2>1 DEF Held, Inv, LockInv, TypeOK
    <2>3. View' = View
      BY <1>1, <2>2 DEF View, store
    <2>4. Doomed' = Doomed
      BY <1>1, <2>1 DEF Doomed
    <2>5. Committed' = Committed
      BY <1>1, <1>2, <2>1 DEF Committed, Rolls, store
    <2> QED
      BY <1>2, <2>2, <2>3, <2>4, <2>5 DEF AbstractVars
  <1>4. CASE phase[w] = "locked"
    <2>1. /\ vec' = vec /\ phase'[w] = "releasing"
          /\ \A v \in Worker : v # w => phase'[v] = phase[v]
      BY <1>4 DEF Leave, Inv, LockInv, TypeOK
    <2>2. Held[w] = vec[w] /\ vec[w] # {}
      BY <1>4 DEF Held, Inv, LockInv, WorkersHold
    <2>3. Held' = [Held EXCEPT ![w] = {}]
      BY <2>1 DEF Held
    <2>4. View' = [View EXCEPT ![w] = Abstract!Empty]
      <3>1. ASSUME NEW v \in Worker, v # w PROVE View'[v] = View[v]
        BY <1>1, <2>3, <3>1 DEF View, store, Held
      <3>2. View'[w] = Abstract!Empty
        <4>1. Held'[w] = {}
          BY <2>3 DEF Held
        <4> QED
          BY <4>1 DEF View, Abstract!Empty
      <3>3. View' = [v \in Worker |-> View'[v]] /\ View = [v \in Worker |-> View[v]]
        BY DEF View
      <3> QED
        BY <3>1, <3>2, <3>3
    <2>5. Doomed' = [Doomed EXCEPT ![w] = FALSE] /\ (Doomed[w] <=> cancel[w])
      BY <1>1, <1>4, <2>1 DEF Doomed
    <2>6. ASSUME NEW u \in Table
          PROVE  Committed'[u] = IF u \in Held[w] /\ ~Doomed[w] THEN View[w][u] ELSE Committed[u]
      <3>1. locker'[u] = locker[u] /\ db'[u] = db[u]
        BY <1>1 DEF store
      <3>2. CASE u \in vec[w]
        <4>1. locker[u] = w /\ View[w][u] = db[u]
          BY <1>4, <2>2, <3>2, HeldMeansLocked DEF View
        <4> QED
          BY <1>1, <1>2, <1>4, <2>1, <2>2, <2>5, <3>1, <3>2, <4>1 DEF Committed, Rolls
      <3>3. CASE u \notin vec[w]
        <4>1. locker[u] # w
          BY <3>3 DEF Inv, LockInv, WorkersHold
        <4> QED
          BY <1>1, <1>2, <2>1, <2>2, <3>1, <3>3, <4>1 DEF Committed, Rolls
      <3> QED
        BY <3>2, <3>3
    <2>7. Committed' = [u \in Table |-> IF u \in Held[w] /\ ~Doomed[w] THEN View[w][u] ELSE Committed[u]]
      BY <2>6 DEF Committed
    <2> QED
      BY <1>2, <2>2, <2>3, <2>4, <2>5, <2>7 DEF Abstract!End
  <1> QED
    BY <1>3, <1>4 DEF Leave

\* Releasing a table changes nothing that can be seen: what it takes back was never
\* committed, and what it leaves already was.
LEMMA ReleaseRefines ==
  ASSUME Inv, CleanAssumption, NEW w \in Worker, NEW t \in Table, Release(w, t)
  PROVE  UNCHANGED AbstractVars
  <1> USE DistinctAssumption
  <1>1. /\ locker[t] = w /\ phase[w] = "releasing" /\ cancel' = cancel
        /\ \A u \in Table : locker'[u] = IF u = t THEN NoOne ELSE locker[u]
        /\ \A v \in Worker : v # w => phase'[v] = phase[v] /\ vec'[v] = vec[v]
        /\ vec'[w] = vec[w] \ {t}
        /\ phase'[w] = IF vec[w] \ {t} = {} THEN "open" ELSE "releasing"
        /\ \A u \in Table : u # t => prepared'[u] = prepared[u] /\ new_key'[u] = new_key[u]
        /\ db'[t] = IF cancel[w] THEN Undone(t) ELSE db[t]
        /\ \A u \in Table : u # t => db'[u] = db[u]
        /\ UNCHANGED saving
    BY DEF Release, store, Inv, UndoInv, LockInv, WorkersHold, TypeOK, FirstOf, Contents
  <1>2. Held' = Held /\ Doomed' = Doomed
    BY <1>1 DEF Held, Doomed
  <1>3. View' = View
    <2>1. ASSUME NEW v \in Worker, NEW u \in Held[v] PROVE db'[u] = db[u]
      BY <1>1, HeldMeansLocked
    <2> QED
      BY <1>2, <2>1 DEF View
  <1>4. ASSUME NEW u \in Table PROVE Committed'[u] = Committed[u]
    <2>1. CASE u = t
      BY <1>1, <2>1 DEF Committed, Rolls
    <2>2. CASE u # t /\ locker[u] = w
      <3>1. u \in vec[w]
        BY <2>2 DEF Inv, LockInv, WorkersHold
      <3>2. phase'[w] = "releasing" /\ Undone(u)' = Undone(u)
        BY <1>1, <2>2, <3>1 DEF Undone
      <3> QED
        BY <1>1, <2>2, <3>2 DEF Committed, Rolls
    <2>3. CASE u # t /\ locker[u] # w
      <3>1. Undone(u)' = Undone(u)
        BY <1>1, <2>3 DEF Undone
      <3> QED
        BY <1>1, <2>3, <3>1 DEF Committed, Rolls
    <2> QED
      BY <2>1, <2>2, <2>3
  <1>5. Committed' = Committed
    BY <1>4 DEF Committed
  <1>6. Image' = Image /\ disk' = disk
    <2>1. ASSUME NEW u \in Table PROVE Image'[u] = Image[u]
      BY <1>1 DEF Image, Saved, saving
    <2> QED
      BY <1>1, <2>1 DEF Image, saving
  <1> QED
    BY <1>2, <1>3, <1>5, <1>6 DEF AbstractVars

-----------------------------------------------------------------------------
\* The checkpoint is of the moment all tables are locked.
LEMMA LockTableRefines ==
  ASSUME Inv, NEW t \in Table, LockTable(t)
  PROVE  Abstract!Checkpoint \/ UNCHANGED AbstractVars
  <1> DEFINE missing == {u \in Table : locker[u] # Checkpointer}
  <1> USE DistinctAssumption
  <1>1. /\ locker[t] = NoOne /\ cp \in {"idle", "locking"}
        /\ \A u \in Table : locker'[u] = IF u = t THEN Checkpointer ELSE locker[u]
        /\ cp' = IF missing = {t} THEN "snapshot" ELSE "locking"
        /\ UNCHANGED <<store, undo, context, snap, disk>>
    BY DEF LockTable, Inv, LockInv, TypeOK
  <1>2. Held' = Held /\ Doomed' = Doomed
    BY <1>1 DEF Held, Doomed, context
  <1>3. View' = View
    BY <1>1, <1>2 DEF View, store
  <1>4. Committed' = Committed
    <2>1. \A u \in Table : Undone(u)' = Undone(u)
      BY <1>1 DEF Undone, store, undo
    <2>2. ASSUME NEW u \in Table PROVE Committed'[u] = Committed[u]
      BY <1>1, <2>1 DEF Committed, Rolls, context, store
    <2> QED
      BY <2>2 DEF Committed
  <1>5. CASE missing # {t}
    BY <1>1, <1>2, <1>3, <1>4, <1>5 DEF Image, Saved, store, AbstractVars
  <1>6. CASE missing = {t}
    <2>1. ASSUME NEW u \in Table PROVE Image'[u] = Committed[u]
      <3>1. locker'[u] = Checkpointer /\ locker[u] \notin Worker
        BY <1>1, <1>6
      <3> QED
        BY <1>1, <1>6, <3>1 DEF Image, Committed, store
    <2>2. Image' = Committed
      BY <2>1 DEF Image, Committed
    <2> QED
      BY <1>1, <1>2, <1>3, <1>4, <2>2 DEF Abstract!Checkpoint
  <1> QED
    BY <1>5, <1>6

LEMMA CopyRefines ==
  ASSUME Inv, NEW t \in Table, SnapshotCreate(t) \/ SnapshotRelease(t)
  PROVE  UNCHANGED AbstractVars
  <1> USE DistinctAssumption
  <1>1. UNCHANGED <<db, undo, context, disk>>
    BY DEF SnapshotCreate, SnapshotRelease, store
  <1>2. Held' = Held /\ Doomed' = Doomed
    BY <1>1 DEF Held, Doomed, context
  <1>3. View' = View
    BY <1>1, <1>2 DEF View
  <1>4. Committed' = Committed
    <2>1. \A u \in Table : Undone(u)' = Undone(u)
      BY <1>1 DEF Undone, undo
    <2>2. \A u \in Table : locker'[u] = locker[u] \/ (locker[u] = Checkpointer /\ locker'[u] = NoOne)
      BY DEF SnapshotCreate, SnapshotRelease, FirstOf, Inv, LockInv, TypeOK
    <2>3. ASSUME NEW u \in Table PROVE Committed'[u] = Committed[u]
      BY <1>1, <2>1, <2>2 DEF Committed, Rolls, context
    <2> QED
      BY <2>3 DEF Committed
  <1>5. Image' = Image
    <2>1. CASE SnapshotCreate(t)
      <3>1. /\ \A u \in Table : locker'[u] = IF u = t THEN NoOne ELSE locker[u]
            /\ \A u \in Table : u # t => snap'[u] = snap[u]
            /\ snap'[t] = [k \in Key |-> IF k \in dirty[t] THEN db[t][k] ELSE Unsaved]
            /\ locker[t] = Checkpointer /\ cp = "snapshot" /\ disk' = disk
            /\ cp' = IF {u \in Table : locker[u] = Checkpointer} = {t} THEN "save" ELSE cp
        BY <2>1 DEF SnapshotCreate, FirstOf, Inv, LockInv, TypeOK
      <3>2. ASSUME NEW k \in Key PROVE Saved(t)'[k] = db[t][k]
        <4>1. CASE k \in dirty[t]
          <5>1. db[t][k] # Unsaved
            BY DEF Inv, LockInv, TypeOK, Contents, Record
          <5> QED
            BY <3>1, <4>1, <5>1 DEF Saved
        <4>2. CASE k \notin dirty[t]
          <5>1. Saved(t) = disk[t]
            BY <3>1, NothingCopied DEF Inv, LockInv, CopiesInv
          <5>2. db[t][k] = disk[t][k]
            BY <4>2, <5>1 DEF Inv, CleanPages
          <5> QED
            BY <3>1, <4>2, <5>2 DEF Saved
        <4> QED
          BY <4>1, <4>2
      <3>3. Saved(t)' = db[t]
        BY <3>2 DEF Saved, Inv, LockInv, TypeOK, Contents
      <3>4. ASSUME NEW u \in Table PROVE Image'[u] = Image[u]
        <4>1. CASE u = t
          BY <1>1, <3>1, <3>3, <4>1 DEF Image
        <4>2. CASE u # t
          BY <1>1, <3>1, <4>2 DEF Image, Saved
        <4> QED
          BY <4>1, <4>2
      <3> QED
        BY <3>4 DEF Image
    <2>2. CASE SnapshotRelease(t)
      <3>1. /\ \A u \in Table : snap'[u] = IF u = t THEN None[t] ELSE snap[u]
            /\ cp = "release" /\ cp' # "snapshot" /\ disk' = disk
        BY <2>2 DEF SnapshotRelease, Inv, LockInv, TypeOK
      <3>2. ASSUME NEW u \in Table PROVE Saved(u)' = Saved(u)
        <4>1. CASE u = t
          <5>1. Saved(t) = disk[t]
            BY <3>1 DEF Inv, CopiesInv
          <5> QED
            BY <3>1, <4>1, <5>1 DEF Inv, LockInv, TypeOK, Contents, Saved, None
        <4>2. CASE u # t
          BY <3>1, <4>2 DEF Saved
        <4> QED
          BY <4>1, <4>2
      <3> QED
        BY <3>1, <3>2 DEF Image
    <2> QED
      BY <2>1, <2>2
  <1> QED
    BY <1>1, <1>2, <1>3, <1>4, <1>5 DEF AbstractVars

LEMMA SaveRefines ==
  ASSUME Inv, CleanAssumption, Save
  PROVE  Abstract!Save
  <1>1. /\ UNCHANGED <<store, undo, locker, context, snap>> /\ cp = "save" /\ cp' = "release"
        /\ disk' = [t \in Table |-> Saved(t)]
    BY DEF Save, CleanAssumption
  <1>2. Held' = Held /\ Doomed' = Doomed
    BY <1>1 DEF Held, Doomed, context
  <1>3. View' = View
    BY <1>1, <1>2 DEF View, store
  <1>4. Committed' = Committed
    <2>1. \A u \in Table : Undone(u)' = Undone(u)
      BY <1>1 DEF Undone, store, undo
    <2> QED
      BY <1>1, <2>1 DEF Committed, Rolls, context, store
  <1>5. Image = [t \in Table |-> Saved(t)]
    BY <1>1 DEF Image
  <1>6. Image' = Image
    <2>1. ASSUME NEW t \in Table PROVE Saved(t)' = Saved(t)
      BY <1>1 DEF Saved
    <2> QED
      BY <1>1, <1>5, <2>1 DEF Image
  <1> QED
    BY <1>1, <1>2, <1>3, <1>4, <1>5, <1>6 DEF Abstract!Save

LEMMA CrashRefines ==
  ASSUME Inv, Crash
  PROVE  Abstract!Crash
  <1> USE DistinctAssumption
  <1>1. /\ db' = disk /\ disk' = disk /\ cp' = "idle" /\ snap' = None
        /\ \A t \in Table : locker'[t] = NoOne
        /\ \A w \in Worker : phase'[w] = "open"
    BY DEF Crash
  <1>2. /\ Held' = [w \in Worker |-> {}]
        /\ Doomed' = [w \in Worker |-> FALSE]
    BY <1>1 DEF Held, Doomed
  <1>3. View' = [w \in Worker |-> Abstract!Empty]
    BY <1>2 DEF View, Abstract!Empty
  <1>4. disk = [t \in Table |-> disk[t]] /\ \A t \in Table : disk[t] = [k \in Key |-> disk[t][k]]
    BY DEF Inv, LockInv, TypeOK, Contents
  <1>5. Committed' = disk
    BY <1>1, <1>4 DEF Committed
  <1>6. Image' = disk
    <2>1. ASSUME NEW t \in Table PROVE Saved(t)' = disk[t]
      BY <1>1, <1>4 DEF Saved, None
    <2> QED
      BY <1>1, <1>4, <2>1 DEF Image
  <1> QED
    BY <1>1, <1>2, <1>3, <1>5, <1>6 DEF Abstract!Crash

-----------------------------------------------------------------------------
LEMMA InitRefines == Init => Abstract!Init
  <1> SUFFICES ASSUME Init PROVE Abstract!Init
    OBVIOUS
  <1> USE DistinctAssumption
  <1>1. Inv
    BY InitInv
  <1>2. /\ db = disk /\ disk \in Contents /\ cp = "idle" /\ snap = None
        /\ \A t \in Table : locker[t] = NoOne
        /\ \A w \in Worker : phase[w] = "open"
    BY DEF Init, Fresh
  <1>3. Held = [w \in Worker |-> {}] /\ Doomed = [w \in Worker |-> FALSE]
    BY <1>2 DEF Held, Doomed
  <1>4. View = [w \in Worker |-> Abstract!Empty]
    BY <1>3 DEF View, Abstract!Empty
  <1>5. Committed = disk
    BY <1>2 DEF Committed, Contents
  <1>6. Image = disk
    <2>1. ASSUME NEW t \in Table PROVE Saved(t) = disk[t]
      BY <1>1, <1>2, NothingCopied DEF Inv, LockInv
    <2> QED
      BY <1>2, <2>1 DEF Image, Contents
  <1> QED
    BY <1>2, <1>3, <1>4, <1>5, <1>6
    DEF Abstract!Init, Abstract!NoneOpen, Contents, Record, Abstract!Contents, Abstract!Record

\* Whatever threads do between them, the storage layer gives each transaction its
\* tables to itself, its writes together or not at all, and checkpoints of one moment
\* (storagewdb.h: Storage, ThreadContext, StorageEnv::checkpoint).
THEOREM StoreImplements == ASSUME CleanAssumption PROVE Spec => Implements
  <1>1. Inv /\ [Next]_vars => [Abstract!Next]_(Abstract!vars)
    <2> SUFFICES ASSUME Inv, [Next]_vars
                 PROVE  Abstract!Next \/ UNCHANGED AbstractVars
      BY DEF Abstract!vars, AbstractVars
    <2>1. ASSUME NEW w \in Worker, NEW t \in Table, GetStorage(w, t) PROVE UNCHANGED AbstractVars
      <3>1. /\ UNCHANGED <<store, undo, locker, phase, cancel, saving>>
            /\ \A v \in Worker : phase[v] # "open" => vec'[v] = vec[v]
        BY <2>1 DEF GetStorage, Inv, LockInv, TypeOK
      <3>2. Held' = Held /\ Doomed' = Doomed
        BY <3>1 DEF Held, Doomed
      <3>3. View' = View /\ Image' = Image /\ disk' = disk
        BY <3>1, <3>2 DEF View, Image, Saved, store, saving
      <3>4. Committed' = Committed
        BY <3>1 DEF Committed, Undone, Rolls, store, undo
      <3> QED
        BY <3>2, <3>3, <3>4 DEF AbstractVars
    <2>2. ASSUME NEW w \in Worker, NEW t \in Table, Lock(w, t)
          PROVE  Abstract!Next \/ UNCHANGED AbstractVars
      <3>1. vec[w] \in SUBSET Table
        BY DEF Inv, LockInv, TypeOK
      <3> QED
        BY <2>2, <3>1, LockRefines DEF Abstract!Next
    <2>3. ASSUME NEW w \in Worker, NEW t \in Table, NEW k \in Key,
                 Del(w, t, k) \/ \E v \in Value : Insert(w, t, k, v)
          PROVE  Abstract!Next
      <3>1. PICK r \in Record : Abstract!Write(w, t, k, r)
        BY <2>3, AccessRefines
      <3> QED
        BY <3>1 DEF Abstract!Next, Abstract!Record, Record
    <2>4. ASSUME NEW w \in Worker, NEW t \in Table, NEW k \in Key, NEW v \in Value, InsertNew(w, t, k, v)
          PROVE  Abstract!Next
      <3>1. v \in Abstract!Record
        BY DEF Abstract!Record
      <3> QED
        BY <2>4, <3>1, InsertNewRefines DEF Abstract!Next
    <2>5. ASSUME NEW w \in Worker, (\E t \in Table, k \in Key : FindFails(w, t, k)) \/ Abort(w)
          PROVE  Abstract!Next
      <3>1. /\ phase[w] = "locked" /\ cancel' = [cancel EXCEPT ![w] = TRUE]
            /\ UNCHANGED <<store, undo, locker, phase, vec, late, saving>>
        BY <2>5 DEF FindFails, Abort, Uses
      <3> QED
        BY <3>1, DoomRefines DEF Abstract!Next
    <2>6. ASSUME NEW w \in Worker, Leave(w) PROVE Abstract!Next \/ UNCHANGED AbstractVars
      BY <2>6, LeaveRefines DEF Abstract!Next
    <2>7. ASSUME Backup PROVE Abstract!Next \/ UNCHANGED AbstractVars
      BY <2>7, LockTableRefines, CopyRefines, SaveRefines DEF Backup, Abstract!Next
    <2>8. CASE UNCHANGED vars
      BY <2>8 DEF vars, store, undo, context, saving, AbstractVars,
                  Held, Doomed, View, Committed, Undone, Rolls, Image, Saved
    <2> QED
      BY <2>1, <2>2, <2>3, <2>4, <2>5, <2>6, <2>7, <2>8, ReleaseRefines, CrashRefines
      DEF Next, Work, Abstract!Next
  <1> QED
    BY <1>1, InitRefines, Invariance, PTL DEF Spec, Implements, Abstract!Spec
================================================================================
