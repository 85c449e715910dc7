----------------------------- MODULE MCTransaction -----------------------------
(***************************************************************************)
(* Transaction on a few roles and transactions, with the timeouts of       *)
(* trade.cpp scaled down: what matters is their order (an Rpc times out    *)
(* well before the state Init does) and that each can be reached.          *)
(***************************************************************************)
EXTENDS Transaction, TLC

ScaledTimeout ==
    [st \in State |-> CASE st = "Null"    -> 0
                        [] st = "Confirm" -> Never
                        [] st = "Init"    -> 3
                        [] OTHER          -> 1]

=============================================================================
