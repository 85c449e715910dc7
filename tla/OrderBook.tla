------------------------------- MODULE OrderBook -------------------------------
(***************************************************************************)
(* The order book of the stock exchange and how orders are matched         *)
(* (cnet/gdeliveryd/stockexchange.cpp: PriceMatching, AutoBalance,         *)
(* OnLoad), as operators on a market: the three containers of              *)
(* StockExchange they change.                                              *)
(*                                                                         *)
(*   orders   the multimap of orders: a sequence in ascending price, equal *)
(*            prices in the order they were inserted                       *)
(*   volumes  the volume on offer at each price                            *)
(*   pending  the deals that are matched and not yet in the database       *)
(*                                                                         *)
(* An order to sell has a positive price, an order to buy the negated      *)
(* price, so that the best orders of both sides come first: the sell       *)
(* orders after price 0, the buy orders from the start of the map.         *)
(***************************************************************************)
EXTENDS Integers, Sequences, FiniteSets, SequencesExt, FiniteSetsExt

\* A definition named Mut... is a plausible mistake in the definition after it.
Least(a, b) == IF a < b THEN a ELSE b

(***************************************************************************)
(* A deal over n lots of order o at the price of that order.  dealtid is   *)
(* the incoming order it was matched with; until that one is stored the    *)
(* deal waits.  0: there is no incoming order to wait for.                 *)
(***************************************************************************)
Deal(o, n, dealtid, ack_money) ==
    [order     |-> [o EXCEPT !.volume = n],
     dealtid   |-> dealtid,
     ack_money |-> ack_money,
     status    |-> IF dealtid = 0 THEN "COMMISSION_DONE" ELSE "COMMISSION_WAIT"]

\* An incoming order at this price can be matched with order o.
Crosses(price, o) ==
    IF price > 0 THEN o.price < 0 /\ -o.price >= price
                 ELSE o.price > 0 /\ o.price <= -price

ReduceVolume(volumes, price, n) == [volumes EXCEPT ![price] = @ - n]
AppendVolume(volumes, price, n) == [volumes EXCEPT ![price] = @ + n]

(***************************************************************************)
(* One turn of the loop of PriceMatching: the incoming order takes what it *)
(* still needs from the order at place i, and that order keeps its place   *)
(* in the book even when nothing is left of it.                            *)
(***************************************************************************)
MutMatchOneKeepsVolumes(m, i, tid, volume) ==
    LET o == m.orders[i]
        n == Least(o.volume, volume - m.ack_volume)
    IN IF n = 0 THEN m
       ELSE [m EXCEPT !.orders[i].volume = @ - n,
                      !.pending    = Append(@, Deal(o, n, tid, o.price * n)),
                      !.ack_volume = @ + n,
                      !.ack_money  = @ - o.price * n]

MutMatchOneWholeOrder(m, i, tid, volume) ==
    LET o == m.orders[i]
        n == IF m.ack_volume < volume THEN o.volume ELSE 0
    IN IF n = 0 THEN m
       ELSE [m EXCEPT !.orders[i].volume = @ - n,
                      !.volumes    = ReduceVolume(@, o.price, n),
                      !.pending    = Append(@, Deal(o, n, tid, o.price * n)),
                      !.ack_volume = @ + n,
                      !.ack_money  = @ - o.price * n]

MatchOne(m, i, tid, volume) ==
    LET o == m.orders[i]
        n == Least(o.volume, volume - m.ack_volume)
    IN IF n = 0 THEN m
       ELSE [m EXCEPT !.orders[i].volume = @ - n,
                      !.volumes    = ReduceVolume(@, o.price, n),
                      !.pending    = Append(@, Deal(o, n, tid, o.price * n)),
                      !.ack_volume = @ + n,
                      !.ack_money  = @ - o.price * n]

\* What an incoming order of this price and volume does to the market, how many
\* lots of it are matched and the money it gets (sell) or pays (buy, negative).
MutMatchingWorstFirst(market, tid, price, volume) ==
    FoldLeft(LAMBDA m, i : IF Crosses(price, market.orders[i]) THEN MatchOne(m, i, tid, volume) ELSE m,
             [market EXCEPT !.ack_volume = 0, !.ack_money = 0],
             [i \in 1 .. Len(market.orders) |-> Len(market.orders) + 1 - i])

PriceMatching(market, tid, price, volume) ==
    FoldLeft(LAMBDA m, i : IF Crosses(price, market.orders[i]) THEN MatchOne(m, i, tid, volume) ELSE m,
             [market EXCEPT !.ack_volume = 0, !.ack_money = 0],
             [i \in 1 .. Len(market.orders) |-> i])

(***************************************************************************)
(* AutoBalance runs once, when the orders have been loaded.  balance lots  *)
(* have been sold to nobody yet (bought from nobody, if negative): they    *)
(* are matched first, at any price.  Then each sell order is matched with  *)
(* the buy orders, up to the first one that is not matched completely.     *)
(***************************************************************************)
MutMatchLoadedOnce(s, i) ==
    LET o == s.market.orders[i]
        m == PriceMatching(s.market, 0, o.price, o.volume)
        n == m.ack_volume
    IN IF ~s.on \/ n = 0 THEN [s EXCEPT !.on = FALSE]
       ELSE [market |-> [m EXCEPT !.volumes = ReduceVolume(@, o.price, n),
                                  !.pending = Append(@, Deal(o, n, 0, m.ack_money)),
                                  !.orders[i].volume = @ - n],
             on     |-> FALSE]

MatchLoaded(s, i) ==
    LET o == s.market.orders[i]
        m == PriceMatching(s.market, 0, o.price, o.volume)
        n == m.ack_volume
    IN IF ~s.on THEN s
       ELSE IF n = 0 THEN [s EXCEPT !.on = FALSE]
       ELSE [market |-> [m EXCEPT !.volumes = ReduceVolume(@, o.price, n),
                                  !.pending = Append(@, Deal(o, n, 0, m.ack_money)),
                                  !.orders[i].volume = @ - n],
             on     |-> n = o.volume]

MutBalancedSameSide(market, balance, maxPrice) ==
    IF balance = 0 THEN market
    ELSE IF balance < 0 THEN PriceMatching(market, 0, 1, -balance)
    ELSE PriceMatching(market, 0, -maxPrice, balance)

Balanced(market, balance, maxPrice) ==
    IF balance = 0 THEN market
    ELSE IF balance > 0 THEN PriceMatching(market, 0, 1, balance)
    ELSE PriceMatching(market, 0, -maxPrice, -balance)

AutoBalance(market, balance, maxPrice) ==
    LET m == Balanced(market, balance, maxPrice)
    IN FoldLeft(LAMBDA s, i : IF m.orders[i].price > 0 THEN MatchLoaded(s, i) ELSE s,
                [market |-> m, on |-> TRUE],
                [i \in 1 .. Len(m.orders) |-> i]).market

\* orders.insert: after the orders of the same price.
Insert(orders, o) ==
    InsertAt(orders, 1 + Cardinality({i \in DOMAIN orders : orders[i].price <= o.price}), o)

\* FindOrder: 0 when the book has no such order.
FindOrder(orders, tid, price) ==
    SelectInSeq(orders, LAMBDA o : o.tid = tid /\ o.price = price)

\* The members of s at the places in K, in their order: the deals that are not erased.
Keep(s, K) ==
    FoldLeft(LAMBDA t, i : IF i \in K THEN Append(t, s[i]) ELSE t, <<>>, [i \in 1 .. Len(s) |-> i])

================================================================================
