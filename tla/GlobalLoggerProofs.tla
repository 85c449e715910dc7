--------------------------- MODULE GlobalLoggerProofs ---------------------------
(***************************************************************************)
(* For any tables, pages and logs: a start finds its log, and a checkpoint *)
(* is saved at one moment.                                                 *)
(*                                                                         *)
(* The invariant says at which writes the disk is in which state.  Until   *)
(* the record is prepared and the data files point at its log, the data    *)
(* files are what counts; from then on the log is over them, and restoring *)
(* a page it holds changes nothing.                                        *)
(***************************************************************************)
EXTENDS GlobalLogger, TLAPS

\* Some table has the highest logger_id, and no open log is older.
Highest == \E t \in Table : \A u \in Table : logger_id[u] <= logger_id[t]
Ahead   == log_file # 0 => \A t \in Table : logger_id[t] <= log_file

Current == logs[log_file]

\* There is room for every record that has been started.
HasRoom == \A i \in LogId : logs[i] # NoLog /\ logs[i].result # "null" => logs[i].rec_cur < RecMax

Opened == log_file # 0 => logs[log_file] # NoLog

Idle ==
    pc \in {"idle", "prepare"} =>
        /\ logs[Newest].result = "null"
        /\ log_file # 0 => log_file = Newest

Rotated ==
    pc = "rotated" =>
        /\ log_file # 0 /\ Current = EmptyLog
        /\ \A t \in Table : logger_id[t] < log_file
        /\ logs[Newest].result = "null"

Appending ==
    pc = "pages" =>
        /\ log_file # 0 /\ Current.result = "started"
        /\ logs[Newest].result # "prepared"
        /\ \A t \in Table \ left : Current.pages[t] = snap[t]

\* A page of the record is in the data file.
InPlace(t, p) == Current.pages[t][p] # Unsaved => file[t][p] = Current.pages[t][p]

Copying ==
    Restoring =>
        /\ log_file # 0 /\ Current.result = "prepared"
        /\ pc = "commit" => Current.pages = snap
        /\ pc = "redo" => snap = None /\ Newest = log_file
        /\ Newest # log_file => logs[Newest].result # "prepared"
        /\ \A t \in Table \ left : logger_id[t] = log_file /\ \A p \in Page : InPlace(t, p)
        /\ marked => \A t \in Table : FirstOf(left, t) =>
                /\ logger_id[t] = log_file /\ InRecord(t) # {} /\ part \subseteq InRecord(t)
                /\ \A p \in Page \ {0} : p \notin part => InPlace(t, p)

Quiet ==
    /\ ~Restoring => marked = FALSE /\ part = {}
    /\ Restoring /\ ~marked => part = {}
    /\ marked => left # {}
    /\ pc \in {"down", "idle", "prepare", "rotated"} => left = {}
    /\ pc \in {"down", "idle"} => snap = None
    /\ pc = "down" => log_file = 0

Inv == TypeOK /\ Highest /\ Ahead /\ HasRoom /\ Opened /\ LogKept
       /\ Idle /\ Rotated /\ Appending /\ Copying /\ Quiet

-----------------------------------------------------------------------------
\* The newest log is that of any table no other one is ahead of.
LEMMA NewestIs ==
    ASSUME logger_id \in [Table -> LogId], NEW t \in Table,
           \A u \in Table : logger_id[u] <= logger_id[t]
    PROVE  Newest = logger_id[t]
<1> DEFINE ids == {logger_id[u] : u \in Table}
           Top(i) == i \in ids /\ \A u \in Table : logger_id[u] <= i
<1>1. Top(logger_id[t])
  OBVIOUS
<1>2. \A i : Top(i) => i = logger_id[t]
  <2> SUFFICES ASSUME NEW i, Top(i) PROVE i = logger_id[t]
    OBVIOUS
  <2>1. PICK u \in Table : i = logger_id[u]
    OBVIOUS
  <2>2. i \in Nat /\ logger_id[t] \in Nat
    BY <2>1, LogAssumption
  <2> QED
    BY <2>1, <2>2
<1> QED
  BY <1>1, <1>2 DEF Newest

LEMMA NewestOf ==
    ASSUME logger_id \in [Table -> LogId], Highest
    PROVE  /\ Newest \in LogId
           /\ \A u \in Table : logger_id[u] <= Newest
           /\ \E t \in Table : Newest = logger_id[t]
<1>1. PICK t \in Table : \A u \in Table : logger_id[u] <= logger_id[t]
  BY DEF Highest
<1>2. Newest = logger_id[t]
  BY <1>1, NewestIs
<1> QED
  BY <1>1, <1>2

LEMMA NoneIsSnapshot == None \in Snapshot /\ EmptyLog \in Log
  BY LogAssumption DEF None, Snapshot, Changes, EmptyLog, Log

\* Saving a changed table saves its magic page.
LEMMA MagicSaved ==
    ASSUME NEW c \in Changes, NEW p \in Page, c[p] # Unsaved
    PROVE  c[0] \in Value /\ c[p] \in Value
  BY PageAssumption DEF Changes

LEMMA InitInv == Init => Inv
<1> SUFFICES ASSUME Init PROVE Inv
  OBVIOUS
<1>1. PICK id \in LogId : logger_id = [t \in Table |-> id]
                          /\ logs = [i \in LogId |-> IF i = id THEN EmptyLog ELSE NoLog]
  BY DEF Init
<1>2. PICK t \in Table : TRUE
  BY TableAssumption
<1>3. id \in Nat
  BY LogAssumption
<1>4. Newest = id
  BY <1>1, <1>2, <1>3, NewestIs
<1>5. TypeOK
  BY <1>1, NoneIsSnapshot DEF Init, Fresh, TypeOK
<1>6. Highest
  BY <1>1, <1>2, <1>3 DEF Highest
<1>7. EmptyLog # NoLog
  BY NoneIsSnapshot, NoLogAssumption
<1> QED
  BY <1>1, <1>4, <1>5, <1>6, <1>7 DEF Init, Fresh, Inv, Ahead, HasRoom, Opened, LogKept, Idle, Rotated,
     Appending, Copying, Quiet, Restoring, EmptyLog

-----------------------------------------------------------------------------
(***************************************************************************)
(* Start and prepare leave the data files alone.                           *)
(***************************************************************************)
\* What holds of the data files and the logs they point at.
LEMMA SameNewest ==
    ASSUME Inv, UNCHANGED logger_id
    PROVE  /\ Newest' = Newest /\ Highest' /\ Newest \in LogId
           /\ logs[Newest] \in Log
           /\ \A u \in Table : logger_id[u] <= Newest
           /\ log_file # 0 => log_file \in LogId /\ Newest <= log_file
<1>1. Newest \in LogId /\ (\A u \in Table : logger_id[u] <= Newest) /\ \E t \in Table : Newest = logger_id[t]
  BY NewestOf DEF Inv, TypeOK
<1>2. logs[Newest] \in Log
  BY <1>1 DEF Inv, TypeOK, LogKept
<1>3. log_file # 0 => log_file \in LogId /\ Newest <= log_file
  BY <1>1 DEF Inv, TypeOK, Ahead
<1> QED
  BY <1>1, <1>2, <1>3 DEF Newest, Inv, Highest

LEMMA StartInv == Inv /\ Start => Inv'
<1> SUFFICES ASSUME Inv, Start PROVE Inv'
  OBVIOUS
<1>1. /\ Newest' = Newest /\ Highest' /\ Newest \in LogId /\ logs[Newest] \in Log
      /\ \A u \in Table : logger_id[u] <= Newest
  BY SameNewest DEF Start
<1>2. /\ logs' \in [LogId -> Log \cup {NoLog}] /\ logs'[Newest] \in Log
      /\ logs[Newest].result \in {"null", "started", "prepared"}
  <2>1. logs[Newest].result = "started" => logs[Newest].rec_cur + 1 \in 0 .. RecMax
    BY <1>1, NoLogAssumption, LogAssumption DEF Inv, HasRoom, Log
  <2> QED
    BY <1>1, <2>1, NoneIsSnapshot DEF Start, Inv, TypeOK, Log
<1>3. TypeOK'
  BY <1>1, <1>2 DEF Start, Inv, TypeOK
<1>4. HasRoom' /\ Opened' /\ LogKept' /\ Ahead'
  <2>1. logs'[Newest] # NoLog
    BY <1>2, NoLogAssumption
  <2>2. HasRoom'
    BY <1>1, <2>1 DEF Start, Inv, HasRoom, TypeOK
  <2>3. Ahead'
    BY <1>1 DEF Start, Ahead
  <2> QED
    BY <1>1, <2>1, <2>2, <2>3 DEF Start, Opened, LogKept
<1>5. Idle' /\ Rotated' /\ Appending'
  BY <1>1, <1>2 DEF Start, Inv, TypeOK, Idle, Rotated, Appending
<1>6. Copying' /\ Quiet'
  <2>1. pc' = "redo" => logs' = logs /\ left' = Table /\ logs[Newest].result = "prepared"
    BY DEF Start
  <2>2. Newest # 0
    BY <1>1, LogAssumption
  <2> QED
    BY <1>1, <2>1, <2>2 DEF Start, Inv, Copying, Quiet, Restoring, Current, InPlace
<1> QED
  BY <1>1, <1>3, <1>4, <1>5, <1>6 DEF Inv

LEMMA SnapshotCreateInv == Inv /\ (\E s \in Snapshot : SnapshotCreate(s)) => Inv'
<1> SUFFICES ASSUME Inv, NEW s \in Snapshot, SnapshotCreate(s) PROVE Inv'
  OBVIOUS
<1> USE DEF SnapshotCreate, disk, Inv
<1>1. Newest' = Newest /\ Highest'
  BY SameNewest
<1>2. TypeOK'
  BY DEF TypeOK
<1>3. Ahead' /\ HasRoom' /\ Opened' /\ LogKept'
  BY <1>1 DEF Ahead, HasRoom, Opened, LogKept
<1>4. Idle' /\ Rotated' /\ Appending' /\ Copying' /\ Quiet'
  BY <1>1 DEF Idle, Rotated, Appending, Copying, Quiet, Restoring
<1> QED
  BY <1>1, <1>2, <1>3, <1>4

LEMMA RotateInv == Inv /\ (\E id \in LogId : Rotate(id)) => Inv'
<1> SUFFICES ASSUME Inv, NEW id \in LogId, Rotate(id) PROVE Inv'
  OBVIOUS
<1> USE DEF Rotate, Inv
<1>1. Newest' = Newest /\ Highest' /\ Newest \in LogId /\ logs[Newest] \in Log
  BY SameNewest
<1>2. id # Newest /\ id # 0
  <2>1. Newest < id
    BY NewestOf DEF TypeOK
  <2> QED
    BY <1>1, <2>1, LogAssumption
<1>3. TypeOK'
  BY NoneIsSnapshot DEF TypeOK
<1>4. logs'[Newest] = logs[Newest] /\ logs'[id] = EmptyLog /\ EmptyLog # NoLog
  BY <1>1, <1>2, NoneIsSnapshot, NoLogAssumption DEF TypeOK
<1>5. Ahead'
  <2>1. logger_id \in [Table -> Nat] /\ id \in Nat
    BY LogAssumption DEF TypeOK
  <2>2. \A t \in Table : logger_id[t] <= id
    BY <2>1
  <2> QED
    BY <2>2 DEF Ahead
<1>6. HasRoom' /\ Opened' /\ LogKept'
  BY <1>1, <1>4 DEF HasRoom, Opened, LogKept, TypeOK, EmptyLog
<1>7. Idle' /\ Rotated' /\ Appending' /\ Copying' /\ Quiet'
  BY <1>1, <1>2, <1>4 DEF Idle, Rotated, Appending, Copying, Quiet, Restoring, Current
<1> QED
  BY <1>1, <1>3, <1>5, <1>6, <1>7

\* A step that changes the open log and neither the data files nor what it is open for.
LEMMA LogWritten ==
    ASSUME Inv, log_file # 0, UNCHANGED <<file, logger_id, log_file>>,
           NEW l \in Log, logs' = [logs EXCEPT ![log_file] = l],
           l.result # "null" => l.rec_cur < RecMax
    PROVE  /\ Newest' = Newest /\ Highest' /\ Ahead' /\ HasRoom' /\ Opened' /\ LogKept'
           /\ logs' \in [LogId -> Log \cup {NoLog}]
           /\ Current' = l
           /\ logs'[Newest] = IF Newest = log_file THEN l ELSE logs[Newest]
<1>1. Newest' = Newest /\ Highest' /\ Newest \in LogId /\ log_file \in LogId
  BY SameNewest
<1>2. l # NoLog
  BY NoLogAssumption
<1>3. Current' = l /\ logs'[Newest] = IF Newest = log_file THEN l ELSE logs[Newest]
  BY <1>1 DEF Inv, TypeOK, Current
<1>4. HasRoom'
  BY <1>1, <1>2 DEF Inv, TypeOK, HasRoom
<1>5. Ahead' /\ Opened' /\ LogKept'
  BY <1>1, <1>2, <1>3 DEF Inv, Ahead, Opened, LogKept, Current
<1>6. logs' \in [LogId -> Log \cup {NoLog}]
  BY <1>1 DEF Inv, TypeOK
<1> QED
  BY <1>1, <1>3, <1>4, <1>5, <1>6

LEMMA CurrentIsLog == ASSUME Inv, log_file # 0 PROVE log_file \in LogId /\ Current \in Log
  BY DEF Inv, TypeOK, Opened, Current

LEMMA StartRecordInv == Inv /\ StartRecord => Inv'
<1> SUFFICES ASSUME Inv, StartRecord PROVE Inv'
  OBVIOUS
<1> DEFINE l == [Current EXCEPT !.result = "started"]
<1>1. log_file # 0 /\ Current.rec_cur < RecMax
  BY LogAssumption DEF Inv, StartRecord, Room, Rotated, EmptyLog, Current
<1>2. Current \in Log /\ log_file \in LogId
  BY <1>1, CurrentIsLog
<1>3. l \in Log /\ l.result = "started" /\ l.rec_cur < RecMax
  BY <1>1, <1>2 DEF Log
<1>4. logs' = [logs EXCEPT ![log_file] = l]
  BY <1>2 DEF StartRecord, Current, Inv, TypeOK
<1> HIDE DEF l
<1>5. /\ Newest' = Newest /\ Highest' /\ Ahead' /\ HasRoom' /\ Opened' /\ LogKept'
      /\ logs' \in [LogId -> Log \cup {NoLog}] /\ Current' = l
      /\ logs'[Newest] = IF Newest = log_file THEN l ELSE logs[Newest]
  BY <1>1, <1>3, <1>4, LogWritten DEF StartRecord
<1>6. TypeOK'
  BY <1>5 DEF StartRecord, Inv, TypeOK
<1>7. logs'[Newest'].result # "prepared"
  BY <1>3, <1>5 DEF Inv, StartRecord, Idle, Rotated
<1>8. Idle' /\ Rotated' /\ Appending' /\ Copying' /\ Quiet'
  BY <1>1, <1>3, <1>5, <1>7 DEF Inv, StartRecord, Idle, Rotated, Appending, Copying, Quiet, Restoring
<1> QED
  BY <1>5, <1>6, <1>8 DEF Inv

LEMMA SavePagesInv == Inv /\ (\E t \in Table : SavePages(t)) => Inv'
<1> SUFFICES ASSUME Inv, NEW t \in Table, SavePages(t) PROVE Inv'
  OBVIOUS
<1> DEFINE l == [Current EXCEPT !.pages[t] = snap[t]]
<1>1. log_file # 0 /\ Current.result = "started"
  BY DEF Inv, SavePages, Appending
<1>2. Current \in Log /\ log_file \in LogId
  BY <1>1, CurrentIsLog
<1>3. /\ l \in Log /\ l.result = "started" /\ l.rec_cur = Current.rec_cur
      /\ l.pages = [Current.pages EXCEPT ![t] = snap[t]]
  BY <1>1, <1>2 DEF Log, Snapshot, Inv, TypeOK
<1>4. Current.rec_cur < RecMax
  BY <1>1, <1>2, NoLogAssumption DEF Inv, HasRoom, Current
<1>5. logs' = [logs EXCEPT ![log_file] = l]
  BY <1>2 DEF SavePages, Current, Inv, TypeOK
<1> HIDE DEF l
<1>6. /\ Newest' = Newest /\ Highest' /\ Ahead' /\ HasRoom' /\ Opened' /\ LogKept'
      /\ logs' \in [LogId -> Log \cup {NoLog}] /\ Current' = l
      /\ logs'[Newest] = IF Newest = log_file THEN l ELSE logs[Newest]
  BY <1>1, <1>3, <1>4, <1>5, LogWritten DEF SavePages
<1>7. TypeOK'
  BY <1>6 DEF SavePages, Inv, TypeOK
<1>8. Appending'
  <2>1. Current.pages \in Snapshot
    BY <1>2 DEF Log
  <2>2. \A u \in Table \ left' : l.pages[u] = snap'[u]
    BY <1>3, <2>1 DEF Inv, SavePages, Appending, Snapshot
  <2> QED
    BY <1>1, <1>3, <1>6, <2>2 DEF Inv, SavePages, Appending
<1>9. Idle' /\ Rotated' /\ Copying' /\ Quiet'
  BY <1>6 DEF Inv, SavePages, Idle, Rotated, Copying, Quiet, Restoring
<1> QED
  BY <1>6, <1>7, <1>8, <1>9 DEF Inv

LEMMA PreparedInv == Inv /\ Prepared => Inv'
<1> SUFFICES ASSUME Inv, Prepared PROVE Inv'
  OBVIOUS
<1> DEFINE l == [Current EXCEPT !.result = "prepared"]
<1>1. log_file # 0 /\ Current.result = "started"
  BY DEF Inv, Prepared, Appending
<1>2. Current \in Log /\ log_file \in LogId
  BY <1>1, CurrentIsLog
<1>3. l \in Log /\ l.result = "prepared" /\ l.rec_cur = Current.rec_cur /\ l.pages = Current.pages
  BY <1>1, <1>2 DEF Log
<1>4. Current.rec_cur < RecMax
  BY <1>1, <1>2, NoLogAssumption DEF Inv, HasRoom, Current
<1>5. logs' = [logs EXCEPT ![log_file] = l]
  BY <1>2 DEF Prepared, Current, Inv, TypeOK
<1> HIDE DEF l
<1>6. /\ Newest' = Newest /\ Highest' /\ Ahead' /\ HasRoom' /\ Opened' /\ LogKept'
      /\ logs' \in [LogId -> Log \cup {NoLog}] /\ Current' = l
      /\ logs'[Newest] = IF Newest = log_file THEN l ELSE logs[Newest]
  BY <1>1, <1>3, <1>4, <1>5, LogWritten DEF Prepared
<1>7. TypeOK'
  BY <1>6 DEF Prepared, Inv, TypeOK
<1>8. l.pages = snap
  <2>1. Current.pages \in [Table -> Changes] /\ snap \in [Table -> Changes]
    BY <1>2 DEF Inv, TypeOK, Log, Snapshot
  <2>2. \A t \in Table : Current.pages[t] = snap[t]
    BY DEF Inv, Prepared, Appending
  <2> QED
    BY <1>3, <2>1, <2>2
<1>9. Copying'
  BY <1>1, <1>3, <1>6, <1>8 DEF Inv, Prepared, Appending, Copying, Quiet, Restoring
<1>10. Idle' /\ Rotated' /\ Appending' /\ Quiet'
  BY <1>6 DEF Inv, Prepared, Idle, Rotated, Appending, Quiet, Restoring
<1> QED
  BY <1>6, <1>7, <1>9, <1>10 DEF Inv

-----------------------------------------------------------------------------
(***************************************************************************)
(* commit and redo copy the record into the data files.                    *)
(***************************************************************************)
\* From the first table that is marked the open log is the newest.
LEMMA IdSet ==
    ASSUME Inv, Restoring, NEW t \in Table,
           logger_id' = [logger_id EXCEPT ![t] = log_file], UNCHANGED <<logs, log_file>>
    PROVE  /\ Newest' = log_file /\ Highest' /\ Ahead' /\ HasRoom' /\ Opened' /\ LogKept'
           /\ logger_id' \in [Table -> LogId] /\ Current' = Current
<1>1. log_file \in LogId /\ logger_id \in [Table -> LogId] /\ \A u \in Table : logger_id[u] <= log_file
  BY CurrentIsLog DEF Inv, TypeOK, Copying, Ahead
<1>2. log_file \in Nat /\ logger_id' \in [Table -> LogId] /\ log_file # 0
  BY <1>1, LogAssumption
<1>3. \A u \in Table : logger_id'[u] <= logger_id'[t] /\ logger_id'[t] = log_file
  BY <1>1, <1>2
<1>4. Newest' = log_file
  <2> DEFINE Top(i) == i \in {logger_id'[u] : u \in Table} /\ \A u \in Table : logger_id'[u] <= i
  <2>1. Top(log_file)
    BY <1>3
  <2>2. \A i : Top(i) => i = log_file
    <3> SUFFICES ASSUME NEW i, Top(i) PROVE i = log_file
      OBVIOUS
    <3>1. PICK u \in Table : i = logger_id'[u]
      OBVIOUS
    <3>2. i \in Nat /\ i <= log_file /\ log_file <= i
      BY <1>2, <1>3, <3>1, LogAssumption
    <3> QED
      BY <1>2, <3>2
  <2> QED
    BY <2>1, <2>2 DEF Newest
<1>5. Highest' /\ Ahead'
  BY <1>3 DEF Highest, Ahead
<1>6. HasRoom' /\ Opened' /\ LogKept' /\ Current' = Current
  BY <1>2, <1>4 DEF Inv, HasRoom, Opened, LogKept, Current
<1> QED
  BY <1>2, <1>4, <1>5, <1>6

LEMMA RecordPages ==
    ASSUME Inv, Restoring
    PROVE  /\ log_file # 0 /\ log_file \in LogId
           /\ Current \in Log /\ Current.result = "prepared" /\ Current.rec_cur < RecMax
           /\ Current.pages \in Snapshot
<1>1. log_file # 0 /\ log_file \in LogId /\ Current \in Log /\ Current.result = "prepared"
  BY CurrentIsLog DEF Inv, Copying
<1>2. Current.rec_cur < RecMax /\ Current.pages \in Snapshot
  BY <1>1, NoLogAssumption DEF Inv, HasRoom, Current, Log
<1> QED
  BY <1>1, <1>2

LEMMA RecordOf ==
    ASSUME Inv, Restoring, NEW t \in Table
    PROVE  /\ \A p \in Page : p \in InRecord(t) <=> Current.pages[t][p] # Unsaved
           /\ (InRecord(t) # {}) <=> (0 \in InRecord(t))
           /\ \A p \in InRecord(t) : Current.pages[t][p] \in Value
           /\ InRecord(t) \subseteq Page
<1>1. Current.pages[t] \in Changes
  BY RecordPages DEF Snapshot
<1>2. InRecord(t) = {p \in Page : Current.pages[t][p] # Unsaved}
  BY DEF InRecord, Current
<1> QED
  BY <1>1, <1>2, PageAssumption DEF Changes

LEMMA MarkTableInv == Inv /\ (\E t \in Table : MarkTable(t)) => Inv'
<1> SUFFICES ASSUME Inv, NEW t \in Table, MarkTable(t) PROVE Inv'
  OBVIOUS
<1>1. /\ Newest' = log_file /\ Highest' /\ Ahead' /\ HasRoom' /\ Opened' /\ LogKept'
      /\ logger_id' \in [Table -> LogId] /\ Current' = Current
  BY IdSet DEF MarkTable
<1>2. InRecord(t) \subseteq Page
  BY DEF InRecord
<1>3. TypeOK'
  BY <1>1, <1>2 DEF MarkTable, Inv, TypeOK
<1>4. Copying'
  <2>1. \A u \in Table : FirstOf(left, u) => u = t
    BY TableAssumption DEF MarkTable, FirstOf, Inv, TypeOK
  <2>2. \A u \in Table : InRecord(u)' = InRecord(u) /\ FirstOf(left, u)' = FirstOf(left, u)
    BY DEF MarkTable, InRecord, FirstOf
  <2>3. \A u \in Table : logger_id'[u] = IF u = t THEN log_file ELSE logger_id[u]
    BY DEF MarkTable, Inv, TypeOK
  <2>4. \A u \in Table, p \in Page : InPlace(u, p)' <=> InPlace(u, p)
    BY <1>1 DEF MarkTable, InPlace
  <2>5. \A p \in Page \ {0} : p \notin part' => InPlace(t, p)
    <3>1. InRecord(t) = {p \in Page : Current.pages[t][p] # Unsaved}
      BY DEF InRecord, Current
    <3> QED
      BY <3>1 DEF MarkTable, InPlace
  <2>6. /\ part' \subseteq InRecord(t)
        /\ logger_id'[t] = log_file /\ InRecord(t) # {}
    BY <2>3 DEF MarkTable
  <2>7. /\ log_file' = log_file /\ pc' = pc /\ left' = left /\ snap' = snap /\ marked'
        /\ Current.result = "prepared" /\ log_file # 0
    BY RecordPages DEF MarkTable
  <2>8. marked' => \A u \in Table : FirstOf(left', u) =>
          /\ logger_id'[u] = log_file' /\ InRecord(u)' # {} /\ part' \subseteq InRecord(u)'
          /\ \A p \in Page \ {0} : p \notin part' => InPlace(u, p)'
    BY <2>1, <2>2, <2>4, <2>5, <2>6, <2>7
  <2>9. \A u \in Table \ left' : logger_id'[u] = log_file' /\ \A p \in Page : InPlace(u, p)'
    BY <2>3, <2>4, <2>7 DEF Inv, Copying, MarkTable
  <2> QED
    BY <1>1, <2>7, <2>8, <2>9 DEF Inv, Copying, Restoring
<1>5. Idle' /\ Rotated' /\ Appending' /\ Quiet'
  BY <1>1 DEF MarkTable, FirstOf, Restoring, Inv, Idle, Rotated, Appending, Quiet
<1> QED
  BY <1>1, <1>3, <1>4, <1>5 DEF Inv

\* While a marked table is restored, its log is the newest.
LEMMA MarkedNewest ==
    ASSUME Inv, Restoring, marked, NEW t \in Table, FirstOf(left, t)
    PROVE  Newest = log_file
<1>1. logger_id[t] = log_file
  BY DEF Inv, Copying
<1>2. \A u \in Table : logger_id[u] <= logger_id[t]
  BY <1>1, RecordPages DEF Inv, Ahead
<1> QED
  BY <1>1, <1>2, NewestIs DEF Inv, TypeOK

LEMMA RestorePageInv == Inv /\ (\E t \in Table, p \in Page : RestorePage(t, p)) => Inv'
<1> SUFFICES ASSUME Inv, NEW t \in Table, NEW p \in Page, RestorePage(t, p) PROVE Inv'
  OBVIOUS
<1>1. /\ Newest' = Newest /\ Highest' /\ Current' = Current
  BY SameNewest DEF RestorePage, Current
<1>2. /\ FirstOf(left, t) /\ marked /\ Restoring /\ p \in part
      /\ part \subseteq InRecord(t) /\ Current.pages[t][p] \in Value
  <2>1. FirstOf(left, t) /\ marked /\ Restoring /\ p \in part
    BY DEF RestorePage
  <2>2. part \subseteq InRecord(t)
    BY <2>1 DEF Inv, Copying
  <2> QED
    BY <2>1, <2>2, RecordOf
<1>3. file' = [file EXCEPT ![t][p] = Current.pages[t][p]]
  BY DEF RestorePage, Current
<1>4. TypeOK'
  BY <1>2, <1>3 DEF RestorePage, Inv, TypeOK, Contents
<1>5. Copying'
  <2>1. \A u \in Table : FirstOf(left, u) => u = t
    BY <1>2, TableAssumption DEF FirstOf, Inv, TypeOK
  <2>2. \A u \in Table : InRecord(u)' = InRecord(u) /\ FirstOf(left, u)' = FirstOf(left, u)
    BY DEF RestorePage, InRecord, FirstOf
  <2>3. \A u \in Table, q \in Page : InPlace(u, q) => InPlace(u, q)'
    BY <1>1, <1>3 DEF InPlace, Inv, TypeOK, Contents
  <2>4. InPlace(t, p)'
    BY <1>1, <1>3 DEF InPlace, Inv, TypeOK, Contents
  <2>5. \A q \in Page \ {0} : q \notin part' => InPlace(t, q)'
    BY <1>2, <2>3, <2>4 DEF RestorePage, Inv, Copying
  <2>6. /\ log_file' = log_file /\ pc' = pc /\ left' = left /\ snap' = snap /\ marked' = marked
        /\ logger_id' = logger_id /\ logs' = logs /\ part' \subseteq part
    BY DEF RestorePage
  <2>7. \A u \in Table : FirstOf(left', u) =>
          /\ logger_id'[u] = log_file' /\ InRecord(u)' # {} /\ part' \subseteq InRecord(u)'
          /\ \A q \in Page \ {0} : q \notin part' => InPlace(u, q)'
    BY <1>2, <2>1, <2>2, <2>5, <2>6 DEF Inv, Copying
  <2>8. \A u \in Table \ left' : logger_id'[u] = log_file' /\ \A q \in Page : InPlace(u, q)'
    BY <1>2, <2>3, <2>6 DEF Inv, Copying
  <2> QED
    BY <1>1, <1>2, <2>6, <2>7, <2>8 DEF Inv, Copying, Restoring
<1>6. Ahead' /\ HasRoom' /\ Opened' /\ LogKept'
  BY <1>1 DEF RestorePage, Inv, Ahead, HasRoom, Opened, LogKept
<1>7. Idle' /\ Rotated' /\ Appending' /\ Quiet'
  BY <1>1 DEF RestorePage, Restoring, Inv, Idle, Rotated, Appending, Quiet
<1> QED
  BY <1>1, <1>4, <1>5, <1>6, <1>7 DEF Inv

LEMMA FinishTableInv == Inv /\ (\E t \in Table : FinishTable(t)) => Inv'
<1> SUFFICES ASSUME Inv, NEW t \in Table, FinishTable(t) PROVE Inv'
  OBVIOUS
<1>1. /\ Newest' = log_file /\ Highest' /\ Ahead' /\ HasRoom' /\ Opened' /\ LogKept'
      /\ logger_id' \in [Table -> LogId] /\ Current' = Current
  BY IdSet DEF FinishTable
<1>2. /\ Restoring /\ FirstOf(left, t) /\ part = {} /\ (marked <=> InRecord(t) # {})
      /\ marked \in BOOLEAN
  BY DEF FinishTable, Inv, TypeOK
<1>3. /\ \A p \in Page : p \in InRecord(t) <=> Current.pages[t][p] # Unsaved
      /\ (InRecord(t) # {}) <=> (0 \in InRecord(t))
      /\ \A p \in InRecord(t) : Current.pages[t][p] \in Value
      /\ Current.result = "prepared" /\ log_file # 0
  BY <1>2, RecordPages, RecordOf
<1>4. file' = [file EXCEPT ![t][0] = IF marked THEN Current.pages[t][0] ELSE @]
  BY DEF FinishTable, Current
<1>5. TypeOK'
  <2>1. file' \in Contents
    BY <1>2, <1>3, <1>4, PageAssumption DEF Inv, TypeOK, Contents
  <2> QED
    BY <1>1, <2>1 DEF FinishTable, Inv, TypeOK
<1>6. Copying'
  <2>1. \A u \in Table, q \in Page : InPlace(u, q) => InPlace(u, q)'
    BY <1>1, <1>2, <1>3, <1>4, PageAssumption DEF InPlace, Inv, TypeOK, Contents
  <2>2. \A q \in Page : InPlace(t, q)'
    <3>1. InPlace(t, 0)'
      BY <1>1, <1>2, <1>3, <1>4, PageAssumption DEF InPlace, Inv, TypeOK, Contents
    <3>2. \A q \in Page \ {0} : InPlace(t, q)
      <4>1. CASE marked
        BY <1>2, <4>1 DEF Inv, Copying
      <4>2. CASE ~marked
        BY <1>2, <1>3, <4>2 DEF InPlace
      <4> QED
        BY <4>1, <4>2
    <3> QED
      BY <2>1, <3>1, <3>2
  <2>3. /\ log_file' = log_file /\ pc' = pc /\ left' = left \ {t} /\ snap' = snap /\ marked' = FALSE
        /\ logs' = logs
    BY DEF FinishTable
  <2>4. \A u \in Table : logger_id'[u] = IF u = t THEN log_file ELSE logger_id[u]
    BY DEF FinishTable, Inv, TypeOK
  <2>5. \A u \in Table \ left' : logger_id'[u] = log_file' /\ \A q \in Page : InPlace(u, q)'
    BY <1>2, <2>1, <2>2, <2>3, <2>4 DEF Inv, Copying
  <2> QED
    BY <1>1, <1>2, <1>3, <2>3, <2>5 DEF Inv, Copying, Restoring
<1>7. Idle' /\ Rotated' /\ Appending' /\ Quiet'
  BY <1>1, <1>2 DEF FinishTable, Restoring, Inv, Idle, Rotated, Appending, Quiet
<1> QED
  BY <1>1, <1>5, <1>6, <1>7 DEF Inv

\* When every table has been copied they all name the open log.
LEMMA AllCopied ==
    ASSUME Inv, Restoring, left = {}
    PROVE  Newest = log_file /\ \A t \in Table, p \in Page : InPlace(t, p)
<1>1. PICK t \in Table : TRUE
  BY TableAssumption
<1>2. \A u \in Table : logger_id[u] = log_file /\ \A p \in Page : InPlace(u, p)
  BY DEF Inv, Copying
<1>3. log_file \in Nat
  BY RecordPages, LogAssumption
<1>4. \A u \in Table : logger_id[u] <= logger_id[t]
  BY <1>2, <1>3
<1> QED
  BY <1>1, <1>2, <1>4, NewestIs DEF Inv, TypeOK

LEMMA FinishInv == Inv /\ Finish => Inv'
<1> SUFFICES ASSUME Inv, Finish PROVE Inv'
  OBVIOUS
<1> DEFINE l == [rec_cur |-> Current.rec_cur + 1, result |-> "null", pages |-> None]
<1>1. /\ log_file # 0 /\ log_file \in LogId /\ Current \in Log /\ Current.rec_cur < RecMax
      /\ Newest = log_file
  BY RecordPages, AllCopied DEF Finish
<1>2. l \in Log /\ l.result = "null" /\ l # NoLog
  <2>1. Current.rec_cur + 1 \in 0 .. RecMax
    BY <1>1, LogAssumption DEF Log
  <2>2. l \in Log
    BY <2>1, NoneIsSnapshot DEF Log
  <2> QED
    BY <2>2, NoLogAssumption
<1>3. logs' = [logs EXCEPT ![log_file] = l]
  BY DEF Finish, Current
<1> HIDE DEF l
<1>4. /\ Newest' = Newest /\ Highest' /\ logs'[Newest] = l
      /\ logs' \in [LogId -> Log \cup {NoLog}]
  BY <1>1, <1>2, <1>3, SameNewest DEF Finish, Inv, TypeOK
<1>5. TypeOK'
  BY <1>4, NoneIsSnapshot DEF Finish, Inv, TypeOK
<1>6. Ahead' /\ HasRoom' /\ Opened' /\ LogKept'
  BY <1>1, <1>2, <1>3, <1>4 DEF Finish, Inv, TypeOK, Ahead, HasRoom, Opened, LogKept
<1>7. Idle' /\ Rotated' /\ Appending' /\ Copying' /\ Quiet'
  BY <1>1, <1>2, <1>4 DEF Finish, Restoring, Inv, Idle, Rotated, Appending, Copying, Quiet
<1> QED
  BY <1>4, <1>5, <1>6, <1>7 DEF Inv

LEMMA RemoveLogsInv == Inv /\ RemoveLogs => Inv'
<1> SUFFICES ASSUME Inv, RemoveLogs PROVE Inv'
  OBVIOUS
<1>1. Newest' = Newest /\ Highest' /\ log_file = Newest /\ Newest \in LogId /\ Newest # 0
  BY SameNewest DEF RemoveLogs, Inv, Idle
<1>2. logs'[Newest] = logs[Newest]
  BY <1>1, LogAssumption DEF RemoveLogs
<1>3. TypeOK'
  BY DEF RemoveLogs, memory, Inv, TypeOK
<1>4. HasRoom' /\ Ahead' /\ Opened' /\ LogKept'
  BY <1>1, <1>2 DEF RemoveLogs, memory, Inv, HasRoom, Ahead, Opened, LogKept
<1>5. Idle' /\ Rotated' /\ Appending' /\ Copying' /\ Quiet'
  BY <1>1, <1>2 DEF RemoveLogs, memory, Restoring, Inv, Idle, Rotated, Appending, Copying, Quiet
<1> QED
  BY <1>1, <1>3, <1>4, <1>5 DEF Inv

LEMMA CrashInv == Inv /\ Crash => Inv'
<1> SUFFICES ASSUME Inv, Crash PROVE Inv'
  OBVIOUS
<1>1. Newest' = Newest /\ Highest'
  BY SameNewest DEF Crash, disk
<1>2. TypeOK'
  BY NoneIsSnapshot DEF Crash, disk, Inv, TypeOK
<1>3. HasRoom' /\ Ahead' /\ Opened' /\ LogKept'
  BY <1>1 DEF Crash, disk, Inv, HasRoom, Ahead, Opened, LogKept
<1>4. Idle' /\ Rotated' /\ Appending' /\ Copying' /\ Quiet'
  BY DEF Crash, Restoring, Idle, Rotated, Appending, Copying, Quiet
<1> QED
  BY <1>1, <1>2, <1>3, <1>4 DEF Inv

LEMMA StutterInv == Inv /\ UNCHANGED vars => Inv'
<1> SUFFICES ASSUME Inv, UNCHANGED vars PROVE Inv'
  OBVIOUS
<1>1. Newest' = Newest /\ Current' = Current
  BY DEF vars, Newest, Current
<1>2. TypeOK' /\ Highest' /\ Ahead' /\ HasRoom' /\ Opened' /\ LogKept'
  BY <1>1 DEF vars, Inv, TypeOK, Highest, Ahead, HasRoom, Opened, LogKept
<1>3. Idle' /\ Rotated' /\ Appending' /\ Quiet'
  BY <1>1 DEF vars, Inv, Idle, Rotated, Appending, Quiet, Restoring
<1>4. Copying'
  BY <1>1 DEF vars, Inv, Copying, Restoring, InPlace, InRecord, FirstOf
<1> QED
  BY <1>2, <1>3, <1>4 DEF Inv

LEMMA Invariance == Spec => []Inv
<1>1. Inv /\ [Next]_vars => Inv'
  BY StartInv, SnapshotCreateInv, RotateInv, StartRecordInv, SavePagesInv, PreparedInv, MarkTableInv,
     RestorePageInv, FinishTableInv, FinishInv, RemoveLogsInv, CrashInv, StutterInv
     DEF Next, Prepare, Commit
<1> QED
  BY <1>1, InitInv, PTL DEF Spec

-----------------------------------------------------------------------------
\* The log the data files point at is never removed, so every restart finds it
\* (GlobalLogger::integrity_verify, StorageEnv::removeoldlogs).
THEOREM LogIsKept == Spec => []LogKept
  BY Invariance, PTL DEF Inv

\* Whatever the number of tables, pages and crashes, a start or a checkpoint that
\* has returned leaves no data file half restored.
THEOREM FilesAreWhole == Spec => []FilesWhole
<1>1. Inv => FilesWhole
  BY DEF Inv, FilesWhole, Recovered, Idle, Rotated, Appending
<1> QED
  BY <1>1, Invariance, PTL

-----------------------------------------------------------------------------
(***************************************************************************)
(* The refinement of AtomicSave.  What a restart finds changes in the      *)
(* step that makes the prepared record count: Prepared when the data files *)
(* name its log already, after a rotation the first page 0 that names it.  *)
(***************************************************************************)
LEMMA RecoveredIs ==
    ASSUME Inv
    PROVE  Recovered = IF logs[Newest].result = "prepared"
                       THEN [t \in Table |-> Over(logs[Newest].pages[t], file[t])] ELSE file
  BY DEF Recovered, Inv, LogKept

LEMMA OverNothing ==
    ASSUME NEW c \in [Page -> Value]
    PROVE  \A t \in Table : Over(None[t], c) = c
  BY DEF Over, None

LEMMA OverIsContents ==
    ASSUME NEW s \in Snapshot, NEW c \in Contents
    PROVE  [t \in Table |-> Over(s[t], c[t])] \in Contents
<1> SUFFICES ASSUME NEW t \in Table PROVE Over(s[t], c[t]) \in [Page -> Value]
  BY DEF Contents
<1>1. s[t] \in [Page -> Value \cup {Unsaved}] /\ c[t] \in [Page -> Value]
  BY DEF Snapshot, Changes, Contents
<1> QED
  BY <1>1 DEF Over

LEMMA RecoveredIsContents == Inv => Recovered \in Contents
<1> SUFFICES ASSUME Inv PROVE Recovered \in Contents
  OBVIOUS
<1>1. logs[Newest] \in Log /\ file \in Contents
  BY NewestOf DEF Inv, TypeOK, LogKept
<1>2. logs[Newest].pages \in Snapshot
  BY <1>1 DEF Log
<1> QED
  BY <1>1, <1>2, OverIsContents DEF Recovered

\* Without a snapshot the image is what is durable.
LEMMA NothingToSave == Inv /\ snap = None => Image = Recovered
<1> SUFFICES ASSUME Inv, snap = None PROVE Image = Recovered
  OBVIOUS
<1>1. Recovered \in [Table -> [Page -> Value]]
  BY RecoveredIsContents DEF Contents
<1>2. \A t \in Table : Over(snap[t], Recovered[t]) = Recovered[t]
  BY <1>1, OverNothing
<1> QED
  BY <1>1, <1>2 DEF Image

\* Saving what is saved already changes nothing.
LEMMA OverTwice ==
    ASSUME NEW s \in Snapshot, NEW c \in Contents
    PROVE  \A t \in Table : Over(s[t], Over(s[t], c[t])) = Over(s[t], c[t])
  BY DEF Over

LEMMA InitRefines == Init => Atomic!Init
<1> SUFFICES ASSUME Init PROVE Atomic!Init
  OBVIOUS
<1>1. Inv /\ snap = None
  BY InitInv DEF Init, Fresh
<1> QED
  BY <1>1, RecoveredIsContents, NothingToSave DEF Atomic!Init, Atomic!Contents, Contents

\* A step of the mapped behaviour that shows nothing, or the moment of the save.
Hidden == Recovered' = Recovered /\ Image' = Image
Saved  == Recovered' = Image /\ Image' = Image

LEMMA MapStep ==
    ASSUME Hidden \/ Saved
    PROVE  [Atomic!Next]_<<Image, Recovered>>
  BY DEF Hidden, Saved, Atomic!Next, Atomic!Save

LEMMA HiddenStep ==
    ASSUME Recovered' = Recovered, snap' = snap
    PROVE  Hidden
  BY DEF Hidden, Image

\* The record in the open log begins to count.
LEMMA SavedStep ==
    ASSUME Inv, Inv', Recovered = file, file' = file, snap' = snap, Newest' = log_file',
           Current'.result = "prepared", Current'.pages = snap
    PROVE  Saved
<1>1. snap \in Snapshot /\ file \in Contents
  BY DEF Inv, TypeOK
<1>2. Recovered' = [t \in Table |-> Over(snap[t], file[t])]
  BY DEF Recovered, Inv, LogKept, Current, Over
<1>3. Recovered' = Image
  BY <1>2 DEF Image
<1>4. Image' = [t \in Table |-> Over(snap[t], Over(snap[t], file[t]))]
  BY <1>2 DEF Image, Over
<1>5. Image' = [t \in Table |-> Over(snap[t], file[t])]
  BY <1>1, <1>4, OverTwice
<1> QED
  BY <1>2, <1>3, <1>5 DEF Saved

LEMMA StartRefines == Inv /\ Start => Hidden
<1> SUFFICES ASSUME Inv, Start PROVE Hidden
  OBVIOUS
<1>1. Newest' = Newest /\ Inv' /\ Newest \in LogId
  BY SameNewest, StartInv DEF Start
<1>2. logs[Newest].result # "started" => logs' = logs
  BY DEF Start
<1>3. logs[Newest].result = "started" => logs'[Newest].result = "null"
  BY <1>1 DEF Start, Inv, TypeOK
<1>4. file' = file /\ snap' = snap
  BY DEF Start
<1>5. Recovered' = Recovered
  <2>1. CASE logs[Newest].result = "started"
    BY <1>1, <1>3, <1>4, <2>1 DEF Recovered
  <2>2. CASE logs[Newest].result # "started"
    BY <1>1, <1>2, <1>4, <2>2 DEF Recovered, Over
  <2> QED
    BY <2>1, <2>2
<1> QED
  BY <1>4, <1>5, HiddenStep

LEMMA SnapshotCreateRefines ==
    Inv /\ (\E s \in Snapshot : SnapshotCreate(s)) => Atomic!Checkpoint
<1> SUFFICES ASSUME Inv, NEW s \in Snapshot, SnapshotCreate(s) PROVE Atomic!Checkpoint
  OBVIOUS
<1>1. Newest' = Newest /\ Inv'
  BY SameNewest, SnapshotCreateInv DEF SnapshotCreate, disk
<1>2. Recovered' = Recovered
  BY <1>1 DEF SnapshotCreate, disk, Recovered, Over
<1>3. Recovered' \in Contents /\ snap' \in Snapshot
  BY <1>1, <1>2, RecoveredIsContents DEF Inv, TypeOK, SnapshotCreate
<1>4. Image' \in Contents
  <2>1. Image' = [t \in Table |-> Over(s[t], Recovered[t])]
    BY <1>2 DEF SnapshotCreate, Image, Over
  <2> QED
    BY <1>2, <1>3, <2>1, OverIsContents
<1> QED
  BY <1>2, <1>4 DEF Atomic!Checkpoint, Atomic!Contents, Contents

\* Until the record is prepared nothing that counts is written.
LEMMA AppendRefines ==
    Inv /\ ((\E id \in LogId : Rotate(id)) \/ StartRecord \/ \E t \in Table : SavePages(t)) => Hidden
<1> SUFFICES ASSUME Inv, (\E id \in LogId : Rotate(id)) \/ StartRecord \/ \E t \in Table : SavePages(t)
             PROVE  Hidden
  OBVIOUS
<1>1. Inv'
  BY RotateInv, StartRecordInv, SavePagesInv
<1>2. UNCHANGED <<file, logger_id, snap>> /\ pc \in {"prepare", "rotated", "pages"} /\ pc' \in {"rotated", "pages"}
  BY DEF Rotate, StartRecord, SavePages
<1>3. Recovered = file
  BY <1>2, RecoveredIs DEF Inv, Idle, Rotated, Appending
<1>4. logs'[Newest'].result # "prepared"
  BY <1>1, <1>2 DEF Inv, Rotated, Appending
<1>5. Recovered' = file'
  BY <1>4 DEF Recovered
<1> QED
  BY <1>2, <1>3, <1>5, HiddenStep

LEMMA PreparedRefines == Inv /\ Prepared => Hidden \/ Saved
<1> SUFFICES ASSUME Inv, Prepared PROVE Hidden \/ Saved
  OBVIOUS
<1>1. Inv' /\ Newest' = Newest
  BY PreparedInv, SameNewest DEF Prepared
<1>2. UNCHANGED <<file, logger_id, log_file, snap>> /\ pc = "pages" /\ pc' = "commit"
  BY DEF Prepared
<1>3. Recovered = file
  BY <1>2, RecoveredIs DEF Inv, Appending
<1>4. Current'.result = "prepared" /\ Current'.pages = snap
  BY <1>1, <1>2 DEF Inv, Copying, Restoring
<1>5. CASE Newest = log_file
  BY <1>1, <1>2, <1>3, <1>4, <1>5, SavedStep
<1>6. CASE Newest # log_file
  <2>1. logs'[Newest'].result # "prepared"
    BY <1>1, <1>2, <1>6 DEF Inv, Copying, Restoring
  <2>2. Recovered' = file'
    BY <2>1 DEF Recovered
  <2> QED
    BY <1>2, <1>3, <2>2, HiddenStep
<1> QED
  BY <1>5, <1>6

\* Marking a table makes the log count, unless it did before.
LEMMA FirstMark ==
    ASSUME Inv, Inv', Restoring, Newest' = log_file, UNCHANGED <<file, logs, log_file, snap>>
    PROVE  Hidden \/ Saved
<1>1. CASE Newest = log_file
  <2>1. Recovered' = Recovered
    BY <1>1 DEF Recovered, Over
  <2> QED
    BY <2>1, HiddenStep
<1>2. CASE Newest # log_file
  <2>1. pc = "commit" /\ logs[Newest].result # "prepared" /\ Current.pages = snap
        /\ Current.result = "prepared"
    BY <1>2 DEF Inv, Copying, Restoring
  <2>2. Recovered = file
    BY <2>1, RecoveredIs
  <2>3. Current' = Current
    BY DEF Current
  <2> QED
    BY <2>1, <2>2, <2>3, SavedStep
<1> QED
  BY <1>1, <1>2

LEMMA MarkTableRefines == Inv /\ (\E t \in Table : MarkTable(t)) => Hidden \/ Saved
<1> SUFFICES ASSUME Inv, NEW t \in Table, MarkTable(t) PROVE Hidden \/ Saved
  OBVIOUS
<1>1. Inv' /\ Newest' = log_file
  BY MarkTableInv, IdSet DEF MarkTable
<1> QED
  BY <1>1, FirstMark DEF MarkTable

\* Writing a page that the counting record holds.
LEMMA PageRestored ==
    ASSUME Inv, Inv', Restoring, Newest = log_file, Newest' = log_file, UNCHANGED <<logs, snap>>,
           NEW t \in Table, NEW p \in InRecord(t),
           file' = [file EXCEPT ![t][p] = Current.pages[t][p]]
    PROVE  Hidden
<1>1. file \in Contents /\ p \in Page /\ Current.pages[t][p] # Unsaved /\ Current.result = "prepared"
  BY RecordOf, RecordPages DEF Inv, TypeOK
<1>2. Recovered = [u \in Table |-> Over(Current.pages[u], file[u])]
  BY <1>1, RecoveredIs DEF Current
<1>3. Recovered' = [u \in Table |-> Over(Current.pages[u], file'[u])]
  BY <1>1 DEF Recovered, Current, Over, Inv, LogKept
<1>4. \A u \in Table : Over(Current.pages[u], file'[u]) = Over(Current.pages[u], file[u])
  BY <1>1 DEF Over, Contents
<1> QED
  BY <1>2, <1>3, <1>4, HiddenStep

LEMMA RestorePageRefines == Inv /\ (\E t \in Table, p \in Page : RestorePage(t, p)) => Hidden
<1> SUFFICES ASSUME Inv, NEW t \in Table, NEW p \in Page, RestorePage(t, p) PROVE Hidden
  OBVIOUS
<1>1. Inv' /\ Newest' = Newest
  BY RestorePageInv, SameNewest DEF RestorePage
<1>2. Restoring /\ marked /\ FirstOf(left, t) /\ p \in part
  BY DEF RestorePage
<1>3. Newest = log_file /\ p \in InRecord(t)
  BY <1>2, MarkedNewest DEF Inv, Copying
<1>4. file' = [file EXCEPT ![t][p] = Current.pages[t][p]]
  BY DEF RestorePage, Current
<1> QED
  BY <1>1, <1>2, <1>3, <1>4, PageRestored DEF RestorePage

LEMMA FinishTableRefines == Inv /\ (\E t \in Table : FinishTable(t)) => Hidden \/ Saved
<1> SUFFICES ASSUME Inv, NEW t \in Table, FinishTable(t) PROVE Hidden \/ Saved
  OBVIOUS
<1>1. Inv' /\ Newest' = log_file
  BY FinishTableInv, IdSet DEF FinishTable
<1>2. Restoring /\ FirstOf(left, t) /\ (marked <=> InRecord(t) # {}) /\ UNCHANGED <<logs, log_file, snap>>
  BY DEF FinishTable
<1>3. CASE marked
  <2>1. Newest = log_file /\ 0 \in InRecord(t)
    BY <1>2, <1>3, MarkedNewest, RecordOf
  <2>2. file' = [file EXCEPT ![t][0] = Current.pages[t][0]]
    BY <1>3 DEF FinishTable, Current
  <2> QED
    BY <1>1, <1>2, <2>1, <2>2, PageRestored
<1>4. CASE ~marked
  <2>1. file' = file
    BY <1>4, PageAssumption DEF FinishTable, Inv, TypeOK, Contents
  <2> QED
    BY <1>1, <1>2, <2>1, FirstMark
<1> QED
  BY <1>3, <1>4

LEMMA FinishRefines == Inv /\ Finish => Hidden
<1> SUFFICES ASSUME Inv, Finish PROVE Hidden
  OBVIOUS
<1>1. Inv' /\ Restoring /\ left = {} /\ file' = file /\ snap' = None /\ pc' = "idle" /\ logger_id' = logger_id
  BY FinishInv DEF Finish
<1>2. Newest = log_file /\ Newest' = Newest /\ Current.result = "prepared"
      /\ \A t \in Table, p \in Page : InPlace(t, p)
  BY <1>1, AllCopied, RecordPages, SameNewest
<1>3. file \in [Table -> [Page -> Value]] /\ snap \in Snapshot
  BY DEF Inv, TypeOK, Contents
<1>4. Recovered = [t \in Table |-> Over(Current.pages[t], file[t])]
  BY <1>2, RecoveredIs DEF Current
<1>5. \A t \in Table : Over(Current.pages[t], file[t]) = file[t]
  BY <1>2, <1>3 DEF Over, InPlace
<1>6. Recovered = file
  BY <1>3, <1>4, <1>5
<1>7. Recovered' = file'
  BY <1>1, <1>2 DEF Recovered, Inv, Idle
<1>8. Image' = Recovered'
  <2>1. (Inv /\ snap = None => Image = Recovered)'
    BY NothingToSave, PTL
  <2> QED
    BY <1>1, <2>1 DEF None
<1>9. Image = Recovered
  <2>1. CASE pc = "redo"
    BY <1>1, <2>1, NothingToSave DEF Inv, Copying
  <2>2. CASE pc = "commit"
    <3>1. Current.pages = snap
      BY <1>1, <2>2 DEF Inv, Copying
    <3> QED
      BY <1>3, <1>4, <1>5, <1>6, <3>1 DEF Image
  <2> QED
    BY <1>1, <2>1, <2>2 DEF Restoring
<1> QED
  BY <1>1, <1>6, <1>7, <1>8, <1>9 DEF Hidden

LEMMA RemoveLogsRefines == Inv /\ RemoveLogs => Hidden
<1> SUFFICES ASSUME Inv, RemoveLogs PROVE Hidden
  OBVIOUS
<1>1. Newest' = Newest /\ Newest \in LogId /\ log_file = Newest /\ snap' = snap /\ file' = file
  BY SameNewest DEF RemoveLogs, memory, Inv, Idle
<1>2. logs'[Newest] = logs[Newest]
  BY <1>1, LogAssumption DEF RemoveLogs
<1>3. Recovered' = Recovered
  BY <1>1, <1>2 DEF Recovered, Over
<1> QED
  BY <1>1, <1>3, HiddenStep

LEMMA CrashRefines == Inv /\ Crash => Atomic!Crash
<1> SUFFICES ASSUME Inv, Crash PROVE Atomic!Crash
  OBVIOUS
<1>1. Inv' /\ snap' = None /\ UNCHANGED <<file, logger_id, logs>>
  BY CrashInv DEF Crash, disk
<1>2. Recovered' = Recovered
  BY <1>1 DEF Recovered, Newest, Over
<1>3. Image' = Recovered'
  <2>1. (Inv /\ snap = None => Image = Recovered)'
    BY NothingToSave, PTL
  <2> QED
    BY <1>1, <2>1 DEF None
<1> QED
  BY <1>2, <1>3 DEF Atomic!Crash

LEMMA StutterRefines == UNCHANGED vars => Hidden
  BY DEF vars, Hidden, Image, Recovered, Newest, Over

\* A checkpoint of any number of tables is one step of AtomicSave, wherever the process
\* ends and however often its recovery is interrupted (GlobalLogger).
THEOREM CheckpointIsAtomic == Spec => SavedAtOnce
<1>1. Inv /\ [Next]_vars => [Atomic!Next]_<<Image, Recovered>>
  <2> SUFFICES ASSUME Inv, [Next]_vars PROVE [Atomic!Next]_<<Image, Recovered>>
    OBVIOUS
  <2>1. Hidden \/ Saved => [Atomic!Next]_<<Image, Recovered>>
    BY MapStep
  <2>2. Atomic!Checkpoint \/ Atomic!Crash => [Atomic!Next]_<<Image, Recovered>>
    BY DEF Atomic!Next
  <2> QED
    BY <2>1, <2>2, StartRefines, SnapshotCreateRefines, AppendRefines, PreparedRefines, MarkTableRefines,
       RestorePageRefines, FinishTableRefines, FinishRefines, RemoveLogsRefines, CrashRefines, StutterRefines
       DEF Next, Prepare, Commit
<1> QED
  BY <1>1, InitRefines, Invariance, PTL DEF Spec, SavedAtOnce, Atomic!Spec, Atomic!vars
================================================================================
