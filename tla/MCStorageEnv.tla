------------------------------ MODULE MCStorageEnv ------------------------------
(***************************************************************************)
(* Two worker threads and the backup thread over two tables with one page  *)
(* each: enough for two transactions to wait for each other, for one to be *)
(* rolled back beside one that commits, and for a checkpoint to be taken   *)
(* between any two of their steps.                                         *)
(***************************************************************************)
EXTENDS StorageEnv, TLC

CONSTANTS w1, w2

Symmetry == Permutations({w1, w2})
================================================================================
