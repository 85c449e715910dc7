------------------------------ MODULE MCTradeGoods ------------------------------
(***************************************************************************)
(* TradeGoods on small pockets: potions stack by two, swords do not stack, *)
(* a scroll may not be traded.  The pockets are chosen so that a result    *)
(* fits only when stacks are filled up, does not fit for space, and does   *)
(* not fit for money.                                                      *)
(***************************************************************************)
EXTENDS TradeGoods

MCMaxCount == [id \in Ids |-> IF id = "potion" THEN 2 ELSE 1]

At(id, pos, count) == [id |-> id, pos |-> pos, count |-> count]

MCPockets ==
    {[items |-> {At("potion", 0, 2), At("potion", 1, 1)}, money |-> 1],
     [items |-> {At("potion", 0, 1), At("sword", 1, 1)},  money |-> 2],
     [items |-> {At("potion", 0, 2)}, money |-> 0],
     [items |-> {At("scroll", 1, 1)}, money |-> 0]}

MCGoods ==
    {g \in [id : Ids, pos : Slots(Capacity), count : 1 .. 2] : g.count <= MCMaxCount[g.id]}

=============================================================================
