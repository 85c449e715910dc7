------------------------------ MODULE AtomicStore ------------------------------
(***************************************************************************)
(* What the handlers of gamedbd and uniquenamed expect of the storage      *)
(* layer: a transaction has its tables to itself from its first access to  *)
(* its end, its writes appear together or not at all, and what survives a  *)
(* crash is the contents of the store between transactions, at one moment. *)
(***************************************************************************)
CONSTANTS Worker, Table, Key, Value, NoRecord

VARIABLES
    committed,  \* [Table -> [Key -> record]], what ended transactions left
    held,       \* [Worker -> SUBSET Table], the tables of each open transaction
    view,       \* [Worker -> contents of its tables as the transaction sees them]
    doomed,     \* [Worker -> BOOLEAN], the transaction is to be rolled back
    image,      \* the contents the checkpoint under way is saving
    durable     \* the contents a crash leaves

vars == <<committed, held, view, doomed, image, durable>>

Record   == Value \cup {NoRecord}
Contents == [Table -> [Key -> Record]]
Empty    == [t \in Table |-> [k \in Key |-> NoRecord]]

TypeOK ==
    /\ committed \in Contents /\ image \in Contents /\ durable \in Contents
    /\ held \in [Worker -> SUBSET Table]
    /\ view \in [Worker -> Contents]
    /\ doomed \in [Worker -> BOOLEAN]

NoneOpen ==
    /\ held = [w \in Worker |-> {}] /\ view = [w \in Worker |-> Empty]
    /\ doomed = [w \in Worker |-> FALSE]

Init == committed \in Contents /\ image = committed /\ durable = committed /\ NoneOpen

\* A transaction opens on tables no other one holds and sees them as committed.
Begin(w, tables) ==
    /\ held[w] = {} /\ tables # {}
    /\ \A v \in Worker : tables \cap held[v] = {}
    /\ held' = [held EXCEPT ![w] = tables]
    /\ view' = [view EXCEPT ![w] = [t \in Table |-> IF t \in tables THEN committed[t] ELSE Empty[t]]]
    /\ UNCHANGED <<committed, doomed, image, durable>>

Write(w, t, k, r) ==
    /\ t \in held[w]
    /\ view' = [view EXCEPT ![w][t][k] = r]
    /\ UNCHANGED <<committed, held, doomed, image, durable>>

Doom(w) ==
    /\ held[w] # {}
    /\ doomed' = [doomed EXCEPT ![w] = TRUE]
    /\ UNCHANGED <<committed, held, view, image, durable>>

\* All its writes appear, or none.
End(w) ==
    /\ held[w] # {}
    /\ committed' = [t \in Table |-> IF t \in held[w] /\ ~doomed[w] THEN view[w][t] ELSE committed[t]]
    /\ held' = [held EXCEPT ![w] = {}]
    /\ view' = [view EXCEPT ![w] = Empty]
    /\ doomed' = [doomed EXCEPT ![w] = FALSE]
    /\ UNCHANGED <<image, durable>>

Checkpoint == image' = committed /\ UNCHANGED <<committed, held, view, doomed, durable>>
Save       == durable' = image /\ UNCHANGED <<committed, held, view, doomed, image>>

Crash ==
    /\ committed' = durable /\ image' = durable /\ UNCHANGED durable
    /\ held' = [w \in Worker |-> {}] /\ view' = [w \in Worker |-> Empty]
    /\ doomed' = [w \in Worker |-> FALSE]

Next ==
    \/ \E w \in Worker : \/ \E tables \in SUBSET Table : Begin(w, tables)
                         \/ \E t \in Table, k \in Key, r \in Record : Write(w, t, k, r)
                         \/ Doom(w) \/ End(w)
    \/ Checkpoint \/ Save \/ Crash

Spec == Init /\ [][Next]_vars
================================================================================
