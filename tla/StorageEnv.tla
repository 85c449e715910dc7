------------------------------- MODULE StorageEnv -------------------------------
(***************************************************************************)
(* The storage layer of gamedbd and uniquenamed (share/storage/            *)
(* storagewdb.h): tables with a mutex each, the storage_vec a worker       *)
(* thread collects and locks in the order of the tables' addresses, the    *)
(* undo log of each table, and the thread that takes a checkpoint of all   *)
(* tables while transactions run.  The write of a checkpoint to disk is    *)
(* one step here; GlobalLogger has its steps.  A record is the page it is  *)
(* on: two records of a page only become dirty together.                   *)
(*                                                                         *)
(* A definition named Mut... is a plausible mistake in the definition that *)
(* follows it.                                                             *)
(***************************************************************************)
EXTENDS Naturals, FiniteSets

CONSTANTS
    Worker,         \* threads of the pool, each runs one handler at a time
    Table,          \* tables, by their addresses
    Key, Value,
    NoRecord,       \* a key that is not there
    Unsaved,        \* a key without an entry
    Checkpointer, NoOne,
    Late,           \* tables a handler fetches although its transaction is locked already
    SaveOutcomes    \* what writing a checkpoint can return

ASSUME TableAssumption == Table \subseteq Nat /\ IsFiniteSet(Table)
ASSUME DistinctAssumption ==
    /\ NoRecord \notin Value /\ Unsaved \notin Value /\ NoRecord # Unsaved
    /\ Checkpointer \notin Worker /\ NoOne \notin Worker /\ Checkpointer # NoOne
ASSUME LateAssumption == Late \subseteq Table /\ SaveOutcomes \subseteq BOOLEAN

VARIABLES
    db,         \* [Table -> [Key -> record]], the pages in memory
    dirty,      \* [Table -> SUBSET Key], pages changed since they were last copied
    prepared,   \* [Table -> [Key -> original or Unsaved]], Storage::prepared
    new_key,    \* [Table -> SUBSET Key], Storage::new_key
    locker,     \* [Table -> who holds Storage::locker]
    phase,      \* [Worker -> where its ThreadContext is]
    vec,        \* [Worker -> SUBSET Table], storage_vec up to the lock
    late,       \* [Worker -> SUBSET Table], what was pushed onto it after
    cancel,     \* [Worker -> BOOLEAN]
    cp,         \* where StorageEnv::checkpoint is
    cp_left,    \* tables it has still to release
    snap,       \* [Table -> [Key -> copied page or Unsaved]]
    disk        \* [Table -> [Key -> record]], the data files

store   == <<db, dirty>>
undo    == <<prepared, new_key>>
context == <<phase, vec, late, cancel>>
saving  == <<cp, cp_left, snap, disk>>
vars    == <<store, undo, locker, context, saving>>

Record   == Value \cup {NoRecord}
Contents == [Table -> [Key -> Record]]
None     == [t \in Table |-> [k \in Key |-> Unsaved]]

TypeOK ==
    /\ db \in Contents /\ disk \in Contents
    /\ dirty \in [Table -> SUBSET Key] /\ new_key \in [Table -> SUBSET Key]
    /\ prepared \in [Table -> [Key -> Value \cup {Unsaved}]]
    /\ snap \in [Table -> [Key -> Record \cup {Unsaved}]]
    /\ locker \in [Table -> Worker \cup {Checkpointer, NoOne}]
    /\ phase \in [Worker -> {"open", "locking", "locked", "releasing"}]
    /\ vec \in [Worker -> SUBSET Table] /\ late \in [Worker -> SUBSET Late]
    /\ cancel \in [Worker -> BOOLEAN]
    /\ cp \in {"idle", "locking", "snapshot", "save", "release"} /\ cp_left \in SUBSET Table

\* What a table holds once its undo log is applied: originals put back, new keys deleted.
Undone(t) ==
    [k \in Key |-> IF k \in new_key[t] THEN NoRecord
                   ELSE IF prepared[t][k] # Unsaved THEN prepared[t][k] ELSE db[t][k]]

MutFirstOfAny(tables, t) == t \in tables

FirstOf(tables, t) == t \in tables /\ \A u \in tables : t <= u

Fresh ==
    /\ prepared = None /\ new_key = [t \in Table |-> {}] /\ dirty = [t \in Table |-> {}]
    /\ locker = [t \in Table |-> NoOne]
    /\ phase = [w \in Worker |-> "open"] /\ cancel = [w \in Worker |-> FALSE]
    /\ vec = [w \in Worker |-> {}] /\ late = [w \in Worker |-> {}]
    /\ cp = "idle" /\ cp_left = {} /\ snap = None

\* Open: the tables are read from the data files.
Init == disk \in Contents /\ db = disk /\ Fresh

-----------------------------------------------------------------------------
(***************************************************************************)
(* A worker thread.                                                        *)
(***************************************************************************)
\* Handlers fetch a table once, before their first access to any; the few that do
\* otherwise fetch a table of Late.
GetStorage(w, t) ==
    /\ \/ phase[w] = "open" /\ t \notin vec[w]
       \/ phase[w] = "locked" /\ t \in Late \ late[w]
    /\ IF phase[w] = "open"
       THEN vec' = [vec EXCEPT ![w] = @ \cup {t}] /\ UNCHANGED late
       ELSE late' = [late EXCEPT ![w] = @ \cup {t}] /\ UNCHANGED vec
    /\ UNCHANGED <<store, undo, locker, phase, cancel, saving>>

MutLockKeepsCancel(w, t) ==
    LET missing == {u \in vec[w] : locker[u] # w}
    IN /\ phase[w] \in {"open", "locking"}
       /\ FirstOf(missing, t) /\ locker[t] = NoOne
       /\ locker' = [locker EXCEPT ![t] = w]
       /\ phase' = [phase EXCEPT ![w] = IF missing = {t} THEN "locked" ELSE "locking"]
       /\ UNCHANGED <<store, undo, vec, late, cancel, saving>>

\* ThreadContext::lock, one mutex after the other, from the first access to a table.
Lock(w, t) ==
    LET missing == {u \in vec[w] : locker[u] # w}
    IN /\ phase[w] \in {"open", "locking"}
       /\ FirstOf(missing, t) /\ locker[t] = NoOne
       /\ locker' = [locker EXCEPT ![t] = w]
       /\ phase' = [phase EXCEPT ![w] = IF missing = {t} THEN "locked" ELSE "locking"]
       /\ cancel' = [cancel EXCEPT ![w] = FALSE]
       /\ UNCHANGED <<store, undo, vec, late, saving>>

Uses(w, t) == phase[w] = "locked" /\ t \in vec[w] \cup late[w]

Put(t, k, r) ==
    /\ db' = [db EXCEPT ![t][k] = r]
    /\ dirty' = [dirty EXCEPT ![t] = @ \cup {k}]

Insert(w, t, k, v) ==
    /\ Uses(w, t)
    /\ Put(t, k, v)
    /\ IF prepared[t][k] # Unsaved \/ k \in new_key[t] THEN UNCHANGED undo
       ELSE IF db[t][k] = NoRecord
       THEN new_key' = [new_key EXCEPT ![t] = @ \cup {k}] /\ UNCHANGED prepared
       ELSE prepared' = [prepared EXCEPT ![t][k] = db[t][k]] /\ UNCHANGED new_key
    /\ UNCHANGED <<locker, context, saving>>

\* With NOOVERWRITE.  Its callers create what they have not deleted before: the key
\* would be put back and then deleted by a rollback.
InsertNew(w, t, k, v) ==
    /\ Uses(w, t) /\ prepared[t][k] = Unsaved
    /\ IF db[t][k] = NoRecord
       THEN /\ Put(t, k, v) /\ new_key' = [new_key EXCEPT ![t] = @ \cup {k}] /\ UNCHANGED cancel
       ELSE cancel' = [cancel EXCEPT ![w] = TRUE] /\ UNCHANGED <<store, new_key>>
    /\ UNCHANGED <<prepared, locker, phase, vec, late, saving>>

Del(w, t, k) ==
    /\ Uses(w, t)
    /\ IF db[t][k] = NoRecord THEN UNCHANGED store ELSE Put(t, k, NoRecord)
    /\ IF prepared[t][k] # Unsaved THEN UNCHANGED undo
       ELSE IF k \in new_key[t]
       THEN new_key' = [new_key EXCEPT ![t] = @ \ {k}] /\ UNCHANGED prepared
       ELSE /\ prepared' = [prepared EXCEPT ![t][k] =
                               IF db[t][k] = NoRecord THEN Unsaved ELSE db[t][k]]
            /\ UNCHANGED new_key
    /\ UNCHANGED <<locker, context, saving>>

\* The find that throws aborts the transaction, also when its caller catches the
\* exception and goes on.
FindFails(w, t, k) ==
    /\ Uses(w, t) /\ db[t][k] = NoRecord
    /\ cancel' = [cancel EXCEPT ![w] = TRUE]
    /\ UNCHANGED <<store, undo, locker, phase, vec, late, saving>>

Abort(w) ==
    /\ phase[w] = "locked"
    /\ cancel' = [cancel EXCEPT ![w] = TRUE]
    /\ UNCHANGED <<store, undo, locker, phase, vec, late, saving>>

\* The last Transaction object of the thread is gone.
Leave(w) ==
    /\ \/ phase[w] = "open" /\ vec[w] # {}
       \/ phase[w] = "locked"
    /\ IF phase[w] = "open"
       THEN vec' = [vec EXCEPT ![w] = {}] /\ UNCHANGED phase
       ELSE phase' = [phase EXCEPT ![w] = "releasing"] /\ UNCHANGED vec
    /\ UNCHANGED <<store, undo, locker, late, cancel, saving>>

\* Storage::checkpoint of the next table of storage_vec.  UNLock of a mutex that
\* another thread holds fails and nobody looks.
Release(w, t) ==
    /\ phase[w] = "releasing"
    /\ \/ FirstOf(vec[w], t) /\ vec' = [vec EXCEPT ![w] = @ \ {t}] /\ UNCHANGED late
       \/ vec[w] = {} /\ FirstOf(late[w], t) /\ late' = [late EXCEPT ![w] = @ \ {t}] /\ UNCHANGED vec
    /\ IF cancel[w]
       THEN /\ db' = [db EXCEPT ![t] = Undone(t)]
            /\ dirty' = [dirty EXCEPT ![t] = @ \cup new_key[t] \cup {k \in Key : prepared[t][k] # Unsaved}]
       ELSE UNCHANGED store
    /\ prepared' = [prepared EXCEPT ![t] = None[t]]
    /\ new_key' = [new_key EXCEPT ![t] = {}]
    /\ locker' = [locker EXCEPT ![t] = IF @ = w THEN NoOne ELSE @]
    /\ phase' = [phase EXCEPT ![w] = IF vec'[w] \cup late'[w] = {} THEN "open" ELSE @]
    /\ UNCHANGED <<cancel, saving>>

-----------------------------------------------------------------------------
(***************************************************************************)
(* StorageEnv::checkpoint.                                                 *)
(***************************************************************************)
LockTable(t) ==
    LET missing == {u \in Table : locker[u] # Checkpointer}
    IN /\ cp \in {"idle", "locking"}
       /\ FirstOf(missing, t) /\ locker[t] = NoOne
       /\ locker' = [locker EXCEPT ![t] = Checkpointer]
       /\ cp' = IF missing = {t} THEN "snapshot" ELSE "locking"
       /\ UNCHANGED <<store, undo, context, cp_left, snap, disk>>

\* The dirty pages of a table are copied, and it is unlocked.
SnapshotCreate(t) ==
    LET missing == {u \in Table : locker[u] = Checkpointer}
    IN /\ cp = "snapshot" /\ FirstOf(missing, t)
       /\ snap' = [snap EXCEPT ![t] = [k \in Key |-> IF k \in dirty[t] THEN db[t][k] ELSE Unsaved]]
       /\ dirty' = [dirty EXCEPT ![t] = {}]
       /\ locker' = [locker EXCEPT ![t] = NoOne]
       /\ cp' = IF missing = {t} THEN "save" ELSE cp
       /\ UNCHANGED <<db, undo, context, cp_left, disk>>

\* What the data files hold once the copied pages are in them.
Saved(t) == [k \in Key |-> IF snap[t][k] # Unsaved THEN snap[t][k] ELSE disk[t][k]]

\* checkpoint_prepare and checkpoint_commit.
Save ==
    /\ cp = "save"
    /\ \E ok \in SaveOutcomes : disk' = IF ok THEN [t \in Table |-> Saved(t)] ELSE disk
    /\ cp' = "release" /\ cp_left' = Table
    /\ UNCHANGED <<store, undo, locker, context, snap>>

\* Releasing the copies takes the mutex of the table for a moment.
SnapshotRelease(t) ==
    /\ cp = "release" /\ FirstOf(cp_left, t) /\ locker[t] = NoOne
    /\ snap' = [snap EXCEPT ![t] = None[t]]
    /\ cp_left' = cp_left \ {t}
    /\ cp' = IF cp_left' = {} THEN "idle" ELSE cp
    /\ UNCHANGED <<store, undo, locker, context, disk>>

\* The process ends anywhere and starts again on the data files.
Crash ==
    /\ db' = disk /\ UNCHANGED disk
    /\ prepared' = None /\ new_key' = [t \in Table |-> {}] /\ dirty' = [t \in Table |-> {}]
    /\ locker' = [t \in Table |-> NoOne]
    /\ phase' = [w \in Worker |-> "open"] /\ cancel' = [w \in Worker |-> FALSE]
    /\ vec' = [w \in Worker |-> {}] /\ late' = [w \in Worker |-> {}]
    /\ cp' = "idle" /\ cp_left' = {} /\ snap' = None

-----------------------------------------------------------------------------
Work(w) ==
    \/ \E t \in Table : GetStorage(w, t) \/ Lock(w, t) \/ Release(w, t)
    \/ \E t \in Table, k \in Key : Del(w, t, k) \/ FindFails(w, t, k)
    \/ \E t \in Table, k \in Key, v \in Value : Insert(w, t, k, v) \/ InsertNew(w, t, k, v)
    \/ Abort(w) \/ Leave(w)

Backup == Save \/ \E t \in Table : LockTable(t) \/ SnapshotCreate(t) \/ SnapshotRelease(t)

Next == (\E w \in Worker : Work(w)) \/ Backup \/ Crash

Spec == Init /\ [][Next]_vars

-----------------------------------------------------------------------------
(***************************************************************************)
(* What the handlers rely on: AtomicStore.  A transaction counts from its  *)
(* lock; without cancel it is over for a table when the transaction starts *)
(* to release, with cancel when the undo log of the table is applied.      *)
(***************************************************************************)
Rolls(w) == phase[w] = "locked" \/ (phase[w] = "releasing" /\ cancel[w])

Committed == [t \in Table |->
    IF locker[t] \in Worker /\ Rolls(locker[t]) THEN Undone(t) ELSE db[t]]
Held   == [w \in Worker |-> IF phase[w] = "locked" THEN vec[w] ELSE {}]
View   == [w \in Worker |-> [t \in Table |->
              IF t \in Held[w] THEN db[t] ELSE [k \in Key |-> NoRecord]]]
Doomed == [w \in Worker |-> phase[w] = "locked" /\ cancel[w]]
Image  == [t \in Table |-> IF cp = "snapshot" /\ locker[t] = Checkpointer THEN db[t] ELSE Saved(t)]

Abstract == INSTANCE AtomicStore WITH
    committed <- Committed, held <- Held, view <- View, doomed <- Doomed,
    image <- Image, durable <- disk

\* The storage layer implements AtomicStore: whatever the threads do, transactions
\* neither see nor undo each other's writes, and the checkpoint, which runs in between,
\* saves what the store held at one moment (storagewdb.h: insert, del, checkpoint).
Implements == Abstract!Spec

\* Nobody waits for himself, however many threads are in between: ThreadContext::lock,
\* StorageEnv::checkpoint and snapshot_release all take the mutexes in one order.
WaitsFor(a) ==
    IF a \in Worker
    THEN {t \in vec[a] : phase[a] = "locking" /\ FirstOf({u \in vec[a] : locker[u] # a}, t)}
    ELSE {t \in Table : \/ cp = "locking" /\ FirstOf({u \in Table : locker[u] # a}, t)
                        \/ cp = "release" /\ FirstOf(cp_left, t)}

NoCircularWait ==
    \A waiting \in (SUBSET (Worker \cup {Checkpointer})) \ {{}} :
        \E a \in waiting : \A t \in WaitsFor(a) : locker[t] \notin waiting

\* Only the thread that holds the mutex of a table writes its undo log.
UndoIsOwned ==
    \A t \in Table : prepared[t] # None[t] \/ new_key[t] # {} => locker[t] \in Worker
================================================================================
