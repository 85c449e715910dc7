------------------------------ MODULE GlobalLogger ------------------------------
(***************************************************************************)
(* How a checkpoint reaches the disk (share/common/db.h, GlobalLogger and  *)
(* DBCollection): the changed pages of all tables are appended to a log    *)
(* file, a record in the first page of the log says that they are all      *)
(* there, and only then are they copied into the data files, the first     *)
(* page of each naming the log.  A start finds the log through the data    *)
(* files and copies again what a crash interrupted.                        *)
(*                                                                         *)
(* Writes reach the disk in the order they are made; the clock does not go *)
(* back; no write fails; every table has been through a checkpoint before. *)
(*                                                                         *)
(* A definition named Mut... is a plausible mistake in the definition that *)
(* follows it.                                                             *)
(***************************************************************************)
EXTENDS Naturals, FiniteSets

CONSTANTS
    Table,      \* tables, in the order of their names
    Page,       \* pages of a data file; 0 is the magic page
    Value,      \* contents of a page
    Unsaved,    \* a page that is not in a snapshot
    LogId,      \* names of log files, by their time
    RecMax,     \* records a log file has room for
    NoLog       \* a log file that does not exist

ASSUME TableAssumption == Table \subseteq Nat /\ Table # {} /\ IsFiniteSet(Table)
ASSUME PageAssumption == 0 \in Page /\ Unsaved \notin Value
ASSUME LogAssumption == LogId \subseteq Nat \ {0} /\ RecMax \in Nat \ {0}

VARIABLES
    file,       \* [Table -> [Page -> Value]], the data files
    logger_id,  \* [Table -> LogId], in page 0 of the data file
    logs,       \* [LogId -> log file or NoLog]
    pc,         \* what the process is doing
    log_file,   \* the open log, 0 for none
    snap,       \* [Table -> [Page -> copied page or Unsaved]]
    left,       \* tables the current loop has not come to
    marked,     \* the first of them has its new logger_id
    part        \* and these pages still to be restored

disk   == <<file, logger_id, logs>>
memory == <<pc, log_file, snap, left, marked, part>>
vars   == <<file, logger_id, logs, pc, log_file, snap, left, marked, part>>

Contents == [Table -> [Page -> Value]]

\* Changed pages of a table.  If there are any, the magic page is one of them.
Changes  == {c \in [Page -> Value \cup {Unsaved}] : c[0] = Unsaved => \A p \in Page : c[p] = Unsaved}
Snapshot == [Table -> Changes]
None     == [t \in Table |-> [p \in Page |-> Unsaved]]

\* Of a log only the current record is read again: how many are before it, its
\* check_result, the pages each table has in it.  "started" is LCR_NULL with a first page.
Log      == [rec_cur : 0 .. RecMax, result : {"null", "started", "prepared"}, pages : Snapshot]
EmptyLog == [rec_cur |-> 0, result |-> "null", pages |-> None]

ASSUME NoLogAssumption == NoLog \notin Log

TypeOK ==
    /\ file \in Contents
    /\ logger_id \in [Table -> LogId]
    /\ logs \in [LogId -> Log \cup {NoLog}]
    /\ pc \in {"down", "idle", "prepare", "rotated", "pages", "commit", "redo"}
    /\ log_file \in LogId \cup {0}
    /\ snap \in Snapshot
    /\ left \subseteq Table /\ marked \in BOOLEAN /\ part \subseteq Page

FirstOf(tables, t) == t \in tables /\ \A u \in tables : t <= u

Over(changes, contents) ==
    [p \in Page |-> IF changes[p] # Unsaved THEN changes[p] ELSE contents[p]]

Fresh == log_file = 0 /\ snap = None /\ left = {} /\ marked = FALSE /\ part = {}

Init ==
    /\ file \in Contents
    /\ \E id \in LogId : /\ logger_id = [t \in Table |-> id]
                         /\ logs = [i \in LogId |-> IF i = id THEN EmptyLog ELSE NoLog]
    /\ pc = "down" /\ Fresh

-----------------------------------------------------------------------------
(***************************************************************************)
(* DBCollection::init.                                                     *)
(***************************************************************************)
Newest == CHOOSE i \in {logger_id[t] : t \in Table} : \A t \in Table : logger_id[t] <= i

MutStartNoRedo ==
    /\ pc = "down" /\ logs[Newest] # NoLog
    /\ log_file' = Newest
    /\ pc' = "idle"
    /\ IF logs[Newest].result = "started"
       THEN logs' = [logs EXCEPT ![Newest] =
                        [rec_cur |-> @.rec_cur + 1, result |-> "null", pages |-> None]]
       ELSE UNCHANGED logs
    /\ UNCHANGED <<file, logger_id, snap, left, marked, part>>

\* integrity_verify.  Without the log file the server does not start.
Start ==
    /\ pc = "down" /\ logs[Newest] # NoLog
    /\ log_file' = Newest
    /\ IF logs[Newest].result = "prepared"
       THEN pc' = "redo" /\ left' = Table
       ELSE pc' = "idle" /\ UNCHANGED left
    /\ IF logs[Newest].result = "started"
       THEN logs' = [logs EXCEPT ![Newest] =
                        [rec_cur |-> @.rec_cur + 1, result |-> "null", pages |-> None]]
       ELSE UNCHANGED logs
    /\ UNCHANGED <<file, logger_id, snap, marked, part>>

-----------------------------------------------------------------------------
(***************************************************************************)
(* prepare.                                                                *)
(***************************************************************************)
\* snapshot_create of every table.
SnapshotCreate(s) ==
    /\ pc = "idle"
    /\ snap' = s
    /\ pc' = "prepare"
    /\ UNCHANGED <<disk, log_file, left, marked, part>>

\* logger_check_rotate: when the log is full, or has too many pages.  After a redo
\* DBCollection has a new GlobalLogger without a log; if the uninitialized key_page
\* does not look full by chance, the process crashes.  A file of that name may be left
\* from before a crash.
Rotate(id) ==
    /\ pc = "prepare"
    /\ \A t \in Table : logger_id[t] < id
    /\ logs' = [logs EXCEPT ![id] = EmptyLog]
    /\ log_file' = id
    /\ pc' = "rotated"
    /\ UNCHANGED <<file, logger_id, snap, left, marked, part>>

Room == log_file # 0 /\ logs[log_file].rec_cur < RecMax

StartRecord ==
    /\ pc = "rotated" \/ (pc = "prepare" /\ Room)
    /\ logs' = [logs EXCEPT ![log_file].result = "started"]
    /\ pc' = "pages" /\ left' = Table
    /\ UNCHANGED <<file, logger_id, log_file, snap, marked, part>>

\* LogInfo::prepare: its pages count once the key page of the table has been written.
SavePages(t) ==
    /\ pc = "pages" /\ FirstOf(left, t)
    /\ logs' = [logs EXCEPT ![log_file].pages[t] = snap[t]]
    /\ left' = left \ {t}
    /\ UNCHANGED <<file, logger_id, pc, log_file, snap, marked, part>>

MutPreparedEarly ==
    /\ pc = "pages"
    /\ logs' = [logs EXCEPT ![log_file].result = "prepared"]
    /\ pc' = "commit" /\ left' = Table
    /\ UNCHANGED <<file, logger_id, log_file, snap, marked, part>>

Prepared ==
    /\ pc = "pages" /\ left = {}
    /\ logs' = [logs EXCEPT ![log_file].result = "prepared"]
    /\ pc' = "commit" /\ left' = Table
    /\ UNCHANGED <<file, logger_id, log_file, snap, marked, part>>

-----------------------------------------------------------------------------
(***************************************************************************)
(* commit and redo.                                                        *)
(***************************************************************************)
Restoring == pc \in {"commit", "redo"}

InRecord(t) == {p \in Page : logs[log_file].pages[t][p] # Unsaved}

\* LogInfo::commit writes the old page 0 with the new logger_id, ...
MarkTable(t) ==
    /\ Restoring /\ FirstOf(left, t) /\ ~marked /\ InRecord(t) # {}
    /\ logger_id' = [logger_id EXCEPT ![t] = log_file]
    /\ marked' = TRUE
    /\ part' = InRecord(t) \ {0}
    /\ UNCHANGED <<file, logs, pc, log_file, snap, left>>

\* ... the other pages, ...
RestorePage(t, p) ==
    /\ Restoring /\ FirstOf(left, t) /\ marked /\ p \in part
    /\ file' = [file EXCEPT ![t][p] = logs[log_file].pages[t][p]]
    /\ part' = part \ {p}
    /\ UNCHANGED <<logger_id, logs, pc, log_file, snap, left, marked>>

\* ... and the new page 0; only the last when the table has not changed.
FinishTable(t) ==
    /\ Restoring /\ FirstOf(left, t) /\ part = {} /\ (marked <=> InRecord(t) # {})
    /\ logger_id' = [logger_id EXCEPT ![t] = log_file]
    /\ file' = [file EXCEPT ![t][0] = IF marked THEN logs[log_file].pages[t][0] ELSE @]
    /\ left' = left \ {t}
    /\ marked' = FALSE
    /\ UNCHANGED <<logs, pc, log_file, snap, part>>

\* The record becomes LCR_COMMIT; after a redo DBCollection unloads and loads everything.
Finish ==
    /\ Restoring /\ left = {}
    /\ logs' = [logs EXCEPT ![log_file] =
                   [rec_cur |-> @.rec_cur + 1, result |-> "null", pages |-> None]]
    /\ log_file' = IF pc = "redo" THEN 0 ELSE log_file
    /\ snap' = None
    /\ pc' = "idle"
    /\ UNCHANGED <<file, logger_id, left, marked, part>>

MutRemoveLogsOwn ==
    /\ pc = "idle" /\ log_file # 0
    /\ logs' = [i \in LogId |-> IF i <= log_file THEN NoLog ELSE logs[i]]
    /\ UNCHANGED <<file, logger_id, memory>>

\* StorageEnv::removeoldlogs unlinks every log before the open one.
RemoveLogs ==
    /\ pc = "idle" /\ log_file # 0
    /\ logs' = [i \in LogId |-> IF i < log_file THEN NoLog ELSE logs[i]]
    /\ UNCHANGED <<file, logger_id, memory>>

\* The process ends anywhere.
Crash ==
    /\ pc' = "down"
    /\ log_file' = 0 /\ snap' = None /\ left' = {} /\ marked' = FALSE /\ part' = {}
    /\ UNCHANGED disk

-----------------------------------------------------------------------------
Prepare == \/ \E s \in Snapshot : SnapshotCreate(s)
           \/ \E id \in LogId : Rotate(id)
           \/ StartRecord \/ Prepared
           \/ \E t \in Table : SavePages(t)

Commit == \/ \E t \in Table : MarkTable(t) \/ FinishTable(t) \/ \E p \in Page : RestorePage(t, p)
          \/ Finish

Next == Start \/ Prepare \/ Commit \/ RemoveLogs \/ Crash

Spec == Init /\ [][Next]_vars

-----------------------------------------------------------------------------
(***************************************************************************)
(* What the layers above rely on.                                          *)
(***************************************************************************)
\* What the files become, from what is on the disk now.
Recovered ==
    IF logs[Newest] # NoLog /\ logs[Newest].result = "prepared"
    THEN [t \in Table |-> Over(logs[Newest].pages[t], file[t])]
    ELSE file

Image == [t \in Table |-> Over(snap[t], Recovered[t])]

Atomic == INSTANCE AtomicSave WITH image <- Image, durable <- Recovered

\* A checkpoint is saved whole at one moment or not at all, also over a crash in its
\* recovery, and one that was saved is never lost (GlobalLogger::prepare, commit, redo).
SavedAtOnce == Atomic!Spec

\* Handlers run on, and snapshots are taken of, the contents a restart would find: no
\* table is left half restored when DBCollection::init or a checkpoint returns.
FilesWhole == pc \in {"idle", "prepare", "rotated", "pages"} => file = Recovered

\* The log the data files point at exists, so a restart finds it (removeoldlogs).
LogKept == logs[Newest] # NoLog
================================================================================
