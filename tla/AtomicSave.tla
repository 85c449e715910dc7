------------------------------- MODULE AtomicSave -------------------------------
(***************************************************************************)
(* What a checkpoint of all tables promises the storage layer above it: at *)
(* one moment the new image is what a restart finds, and until then the    *)
(* old one, whatever files the checkpoint has written in between.          *)
(***************************************************************************)
CONSTANTS Table, Page, Value

VARIABLES
    image,      \* the contents the checkpoint under way is saving
    durable     \* the contents a restart finds

vars == <<image, durable>>

Contents == [Table -> [Page -> Value]]

TypeOK == image \in Contents /\ durable \in Contents

Init == durable \in Contents /\ image = durable

Checkpoint == image' \in Contents /\ UNCHANGED durable
Save       == durable' = image /\ UNCHANGED image
Crash      == image' = durable /\ UNCHANGED durable

Next == Checkpoint \/ Save \/ Crash

Spec == Init /\ [][Next]_vars
================================================================================
