----------------------------- MODULE MCAlgorithms -----------------------------
(***************************************************************************)
(* The pure functions of gdeliveryd on every small input.  MergeInventory  *)
(* gets a pocket whose positions are distinct, as gamedbd stores them, and *)
(* goods another pocket offers; OrderBook a book and one incoming order,   *)
(* or a loaded book to balance.                                            *)
(***************************************************************************)
EXTENDS MergeInventory, OrderBook

CONSTANTS MaxCapacity,  \* largest pocket enumerated
          MaxOffered,   \* longest toFill enumerated
          MaxSize,      \* largest count of a stack enumerated
          Price,        \* prices asked
          MaxVolume,    \* largest volume of an order
          MaxOrders,    \* longest book
          MaxPrice,     \* MAX_STOCK_PRICE, above all prices
          MaxBalance    \* most lots that were dealt on one side only

ASSUME BoundsAssumption ==
    /\ MaxCapacity \in Nat /\ MaxOffered \in Nat /\ MaxSize \in Nat
    /\ MaxVolume \in Nat /\ MaxOrders \in Nat /\ MaxPrice \in Nat /\ MaxBalance \in Nat
    /\ Price \subseteq 1 .. MaxPrice

VARIABLES input, output
vars == <<input, output>>

-----------------------------------------------------------------------------
\* Inputs of MergeInventory.
MCMaxCount == [id \in Ids |-> IF id = "potion" THEN 3 ELSE 1]

\* A pocket in the order of a vector: any order of its positions.
Pockets(c) ==
    {p \in BoundedSeq([id : Ids, pos : Slots(c), count : 0 .. MaxSize], c) :
        /\ \A i \in DOMAIN p : p[i].count <= MaxCount[p[i].id]
        /\ \A i, j \in DOMAIN p : p[i].pos = p[j].pos => i = j}

Offers ==
    {f \in BoundedSeq([id : Ids, pos : {0}, count : 1 .. MaxSize], MaxOffered) :
        \A i \in DOMAIN f : f[i].count <= MaxCount[f[i].id]}

Merges(c) == [op : {"merge"}, possession : Pockets(c), toFill : Offers, capacity : {c}]

-----------------------------------------------------------------------------
\* Inputs of OrderBook.
Prices == Price \cup {-p : p \in Price}

\* A book after any matching: in price order, spent orders among the others.
Books ==
    {[i \in DOMAIN s |-> [tid |-> 1 + i, user |-> i, price |-> s[i].price, volume |-> s[i].volume]] :
        s \in {b \in BoundedSeq([price : Prices, volume : 0 .. MaxVolume], MaxOrders) :
                   \A i, j \in DOMAIN b : i < j => b[i].price <= b[j].price}}

\* The lots on offer at a price, and those of some of the orders.
Offered(orders, p) ==
    SumFunction([i \in 1 .. Len(orders) |-> IF orders[i].price = p THEN orders[i].volume ELSE 0])

VolumeOf(orders, S) ==
    SumFunction([i \in 1 .. Len(orders) |-> IF i \in S THEN orders[i].volume ELSE 0])

Market(orders) ==
    [orders |-> orders, volumes |-> [p \in Prices |-> Offered(orders, p)],
     pending |-> <<>>, ack_volume |-> 0, ack_money |-> 0]

Side(orders, buying) == {i \in DOMAIN orders : (orders[i].price < 0) = buying}

\* The orders of a loaded book all have a volume, and one side has at least
\* the volume that was dealt on the other side only.
Loads(orders) ==
    {b \in -MaxBalance .. MaxBalance :
        /\ \A i \in DOMAIN orders : orders[i].volume > 0
        /\ b > 0 => VolumeOf(orders, Side(orders, TRUE)) >= b
        /\ b < 0 => VolumeOf(orders, Side(orders, FALSE)) >= -b}

-----------------------------------------------------------------------------
Init ==
    /\ \/ \E c \in 1 .. MaxCapacity : input \in Merges(c)
       \/ input \in [op : {"place"}, book : Books, price : Prices, volume : 1 .. MaxVolume]
       \/ \E b \in Books : input \in [op : {"load"}, book : {b}, balance : Loads(b)]
    /\ output = <<>>

MergeGoods ==
    /\ output = <<>> /\ input.op = "merge"
    /\ output' = <<Merge(input.possession, input.toFill, input.capacity)>>
    /\ UNCHANGED input

Place ==
    /\ output = <<>> /\ input.op = "place"
    /\ output' = <<PriceMatching(Market(input.book), 99, input.price, input.volume)>>
    /\ UNCHANGED input

Load ==
    /\ output = <<>> /\ input.op = "load"
    /\ output' = <<AutoBalance(Market(input.book), input.balance, MaxPrice)>>
    /\ UNCHANGED input

Next == MergeGoods \/ Place \/ Load
Spec == Init /\ [][Next]_vars

Done(op) == output # <<>> /\ input.op = op

-----------------------------------------------------------------------------
\* Properties of MergeInventory.
Result == output[1].result

\* A merge is refused exactly when the goods need more new slots than are free,
\* whatever the order of the two vectors: a trade both traders submitted cannot
\* be turned down for the order in which goods were offered or moved.
RefusedOnlyForSpace ==
    Done("merge") => (output[1].ok <=> Fits(input.possession, input.toFill, input.capacity))

\* A merge that succeeds keeps the total of every id: the pocket's own goods
\* and the received ones, no more and no less.
MergeConserves ==
    Done("merge") /\ output[1].ok =>
        \A id \in Ids :
            TotalOf(Result, id) = TotalOf(input.possession, id) + TotalOf(input.toFill, id)

\* A merge never puts two stacks on one slot, never uses a slot outside the
\* pocket, never makes a stack larger than its max_count and leaves no empty
\* stack behind, also when it is refused half way.
ResultIsAPocket ==
    Done("merge") =>
        /\ \A i, j \in DOMAIN Result : Result[i].pos = Result[j].pos => i = j
        /\ \A i \in DOMAIN Result :
              /\ Result[i].pos \in Slots(input.capacity)
              /\ Result[i].count \in 1 .. MaxCount[Result[i].id]

-----------------------------------------------------------------------------
\* Properties of OrderBook.
\* Orders of the other side whose price, negative when buying, meets that of the input.
Meets(p, q) == p * q < 0 /\ p + q <= 0
Crossing == {i \in DOMAIN input.book : Meets(input.price, input.book[i].price)}
Taken(i) == input.book[i].volume - output[1].orders[i].volume
Deals == output[1].pending

\* The lots of the deals of one order, the money of all deals, and the lots they
\* sell less those they buy.
LotsOf(deals, tid) ==
    SumFunction([d \in 1 .. Len(deals) |-> IF deals[d].order.tid = tid THEN deals[d].order.volume ELSE 0])

MoneyOf(deals) == SumFunction([d \in 1 .. Len(deals) |-> deals[d].ack_money])

Sold(deals) ==
    SumFunction([d \in 1 .. Len(deals) |->
                    IF deals[d].order.price > 0 THEN deals[d].order.volume ELSE -deals[d].order.volume])

\* An incoming order is matched with all the volume offered at its price or a
\* better one, and with no more than it asks for: the loop neither stops early
\* at an order that is spent nor goes on past the price.
MatchedToTheLimit ==
    Done("place") => output[1].ack_volume = Least(input.volume, VolumeOf(input.book, Crossing))

\* Price and time priority: nothing is taken from an order while something is
\* left of a better or an earlier one.
BestOrderFirst ==
    Done("place") =>
        \A i, j \in Crossing : i < j /\ Taken(j) > 0 => output[1].orders[i].volume = 0

\* What leaves the book is exactly what the deals hold, lot by lot, the volumes
\* shown to the players follow, and the money of the incoming order is the money
\* of its partners.
DealsAddUp ==
    Done("place") =>
        /\ \A i \in DOMAIN input.book : Taken(i) = LotsOf(Deals, input.book[i].tid)
        /\ \A p \in Prices : output[1].volumes[p] = Offered(output[1].orders, p)
        /\ output[1].ack_money + MoneyOf(Deals) = 0

\* Balancing a loaded book makes up for the lots that were dealt on one side only:
\* with the deals it adds, as much has been bought as has been sold.
LoadBalances ==
    Done("load") => input.balance + Sold(Deals) = 0

\* When nothing was left to balance, no loaded sell order still crosses a buy
\* order: the deals a restart forgot are all made again.
LoadUncrosses ==
    Done("load") /\ input.balance = 0 =>
        \A i, j \in DOMAIN input.book :
            /\ input.book[i].price > 0 /\ output[1].orders[i].volume > 0
            /\ output[1].orders[j].volume > 0
            => ~Meets(input.book[i].price, input.book[j].price)

================================================================================
