----------------------------- MODULE MCGlobalLogger -----------------------------
(***************************************************************************)
(* Two tables of two pages, two logs with room for two records each: two   *)
(* checkpoints in one log, one after a rotation, a crash at every          *)
(* write and in the recovery, a log name that is used again after a crash. *)
(***************************************************************************)
EXTENDS GlobalLogger, TLC

CONSTANTS old, new

Symmetry == Permutations({old, new})
================================================================================
