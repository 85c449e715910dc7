---------------------------- MODULE MCStockExchange ----------------------------
(***************************************************************************)
(* StockExchange with two players: one who starts with cash to sell and    *)
(* one who starts with money to buy it.                                    *)
(***************************************************************************)
EXTENDS StockExchange

SellerAndBuyer ==
    [u \in User |-> IF u = "seller" THEN [cash |-> 204, money |-> 0] ELSE [cash |-> 0, money |-> 408]]
FewFunds ==
    [u \in User |-> IF u = "seller" THEN [cash |-> 106, money |-> 0] ELSE [cash |-> 0, money |-> 104]]
OneLot ==
    [u \in User |-> IF u = "seller" THEN [cash |-> 102, money |-> 0] ELSE [cash |-> 0, money |-> 204]]

NoTransfers == {}
\* The cash that one lot costs, out to a role.
OneTransfer == {[withdraw |-> TRUE, cash |-> 102, money |-> 0]}

================================================================================
