---------------------------- MODULE AlgorithmProofs ----------------------------
(***************************************************************************)
(* The pure functions of gdeliveryd keep what the run algorithms checks on *)
(* small inputs, for pockets, books and numbers of any size.               *)
(***************************************************************************)
EXTENDS MCAlgorithms, AlgorithmLemmas

\* The members of a bounded set of sequences are sequences.
LEMMA BoundedSeqs ==
    ASSUME NEW S, NEW n \in Nat, NEW s \in BoundedSeq(S, n)
    PROVE  /\ s \in Seq(S) /\ Len(s) \in 0 .. n /\ DOMAIN s = 1 .. Len(s)
           /\ \A i \in DOMAIN s : s[i] \in S
  <1>1. PICK m \in 0 .. n : s \in [1 .. m -> S]
    BY DEF BoundedSeq, SeqOf
  <1> QED
    BY <1>1

\* A sequence over a set is one over a larger set.
LEMMA SeqWider ==
    ASSUME NEW S, NEW T, S \subseteq T, NEW s \in Seq(S)
    PROVE  s \in Seq(T)
  OBVIOUS

-----------------------------------------------------------------------------
(***************************************************************************)
(* MergeInventory.                                                         *)
(***************************************************************************)
\* The pockets and the goods enumerated are those the lemmas are about.
LEMMA MergeInputs ==
    ASSUME NEW c \in 1 .. MaxCapacity, NEW p \in Pockets(c), NEW f \in Offers
    PROVE  c \in Nat /\ IsPossession(p, c) /\ IsGoods(f)
  <1>1. MaxCapacity \in Nat /\ MaxOffered \in Nat
    BY BoundsAssumption
  <1>2. c \in Nat
    BY <1>1
  <1>3. [id : Ids, pos : Slots(c), count : 0 .. MaxSize] \subseteq Stack
    BY <1>2 DEF Slots, Stack
  <1>4. p \in Seq([id : Ids, pos : Slots(c), count : 0 .. MaxSize])
    BY <1>2, BoundedSeqs DEF Pockets
  <1>5. \A i \in DOMAIN p : p[i] \in [id : Ids, pos : Slots(c), count : 0 .. MaxSize]
    BY <1>2, BoundedSeqs DEF Pockets
  <1>6. p \in Seq(Stack)
    BY <1>3, <1>4, SeqWider
  <1>7. \A i \in DOMAIN p : p[i].pos \in Slots(c)
    BY <1>5
  <1>8. IsPossession(p, c)
    BY <1>6, <1>7 DEF IsPossession, ApartIn, Pockets
  <1>9. [id : Ids, pos : {0}, count : 1 .. MaxSize] \subseteq Stack
    BY DEF Stack
  <1>10. f \in Seq([id : Ids, pos : {0}, count : 1 .. MaxSize])
    BY <1>1, BoundedSeqs DEF Offers
  <1>12. f \in Seq(Stack)
    BY <1>9, <1>10, SeqWider
  <1>13. IsGoods(f)
    BY <1>12 DEF IsGoods, Offers
  <1> QED
    BY <1>2, <1>8, <1>13

\* What is merged is one of the inputs, and its result is what Merge returns.
MergeInv ==
    /\ input.op = "merge" =>
         \E c \in 1 .. MaxCapacity : input \in Merges(c)
    /\ Done("merge") => output = <<Merge(input.possession, input.toFill, input.capacity)>>

\* The invariant of the merges holds initially and through every step.
LEMMA MergeInvHolds == Spec => []MergeInv
  <1>1. Init => MergeInv
    BY DEF Init, MergeInv, Done
  <1>2. MergeInv /\ [Next]_vars => MergeInv'
    BY DEF MergeInv, Next, MergeGoods, Place, Load, vars, Done
  <1> QED
    BY <1>1, <1>2, PTL DEF Spec

\* Merges starts from inputs the lemmas are about, and gives what Merge returns.
LEMMA MergeDone ==
    ASSUME MergeInv, Done("merge")
    PROVE  \E c \in Nat : /\ input.capacity = c
                          /\ IsPossession(input.possession, c) /\ IsGoods(input.toFill)
                          /\ output[1] = Merge(input.possession, input.toFill, c)
  <1>1. PICK c \in 1 .. MaxCapacity : input \in Merges(c)
    BY DEF MergeInv, Done
  <1>2. input.possession \in Pockets(c) /\ input.toFill \in Offers /\ input.capacity = c
    BY <1>1 DEF Merges
  <1>3. output[1] = Merge(input.possession, input.toFill, c)
    BY <1>2 DEF MergeInv
  <1> QED
    BY <1>2, <1>3, MergeInputs

\* MergeInventory neither loses goods nor makes any.
THEOREM MergeConservesHolds == Spec => []MergeConserves
  <1>1. MergeInv => MergeConserves
    <2> SUFFICES ASSUME MergeInv, Done("merge"), output[1].ok, NEW id \in Ids
                 PROVE  TotalOf(Result, id) = TotalOf(input.possession, id) + TotalOf(input.toFill, id)
      BY DEF MergeConserves
    <2>1. PICK c \in Nat : /\ input.capacity = c
                           /\ IsPossession(input.possession, c) /\ IsGoods(input.toFill)
                           /\ output[1] = Merge(input.possession, input.toFill, c)
      BY MergeDone
    <2> QED
      BY <2>1, MergePocket DEF Result
  <1> QED
    BY <1>1, MergeInvHolds, PTL

\* What MergeInventory leaves is a pocket, whether it succeeds or is refused half way.
THEOREM ResultIsAPocketHolds == Spec => []ResultIsAPocket
  <1>1. MergeInv => ResultIsAPocket
    <2> SUFFICES ASSUME MergeInv, Done("merge") PROVE ResultIsAPocket
      BY DEF ResultIsAPocket
    <2>1. PICK c \in Nat : /\ input.capacity = c
                           /\ IsPossession(input.possession, c) /\ IsGoods(input.toFill)
                           /\ output[1] = Merge(input.possession, input.toFill, c)
      BY MergeDone
    <2>2. IsPocket(Result, c)
      BY <2>1, MergePocket DEF Result
    <2> QED
      BY <2>1, <2>2 DEF ResultIsAPocket, IsPocket, ApartIn
  <1> QED
    BY <1>1, MergeInvHolds, PTL

\* MergeInventory refuses goods exactly when they need more new slots than are free.
THEOREM RefusedOnlyForSpaceHolds == Spec => []RefusedOnlyForSpace
  <1>1. MergeInv => RefusedOnlyForSpace
    <2> SUFFICES ASSUME MergeInv, Done("merge")
                 PROVE  output[1].ok <=> Fits(input.possession, input.toFill, input.capacity)
      BY DEF RefusedOnlyForSpace
    <2>1. PICK c \in Nat : /\ input.capacity = c
                           /\ IsPossession(input.possession, c) /\ IsGoods(input.toFill)
                           /\ output[1] = Merge(input.possession, input.toFill, c)
      BY MergeDone
    <2> QED
      BY <2>1, MergeFits
  <1> QED
    BY <1>1, MergeInvHolds, PTL

-----------------------------------------------------------------------------
(***************************************************************************)
(* OrderBook.                                                              *)
(***************************************************************************)
Orders == OrdersOf(Nat, Nat, Prices)
Trades == DealsOf(Nat, Nat, Prices)
MarketsOf(n) == Markets(n, Nat, Nat, Prices)

\* Prices are numbers, none of them 0.
LEMMA PriceTypes ==
    /\ Prices \subseteq Int /\ 0 \in Nat
    /\ MaxPrice \in Int /\ MaxPrice >= 0 /\ MaxVolume \in Nat /\ MaxOrders \in Nat
    /\ \A p \in Prices : p # 0 /\ p <= MaxPrice
  <1>1. Price \subseteq 1 .. MaxPrice /\ MaxPrice \in Nat /\ MaxVolume \in Nat /\ MaxOrders \in Nat
    BY BoundsAssumption
  <1>2. ASSUME NEW p \in Prices PROVE p \in Int /\ p # 0 /\ p <= MaxPrice
    <2>1. CASE p \in Price
      BY <1>1, <2>1
    <2>2. CASE p \in {-q : q \in Price}
      <3>1. PICK q \in 1 .. MaxPrice : p = -q
        BY <1>1, <2>2
      <3> QED
        BY <1>1, <3>1
    <2> QED
      BY <2>1, <2>2 DEF Prices
  <1> QED
    BY <1>1, <1>2

\* A book as it is enumerated: in price order, under distinct ids.
IsBook(book, n) ==
    /\ n \in Nat /\ book \in [1 .. n -> Orders] /\ DOMAIN book = 1 .. n
    /\ TidsApart(book)
    /\ \A i \in 1 .. n : book[i].volume >= 0
    /\ \A i, j \in 1 .. n : i < j => book[i].price <= book[j].price

\* The books enumerated are such books.
LEMMA BookInputs ==
    ASSUME NEW book \in Books
    PROVE  IsBook(book, Len(book))
  <1> DEFINE Bare == [price : Prices, volume : 0 .. MaxVolume]
  <1>1. PICK s \in BoundedSeq(Bare, MaxOrders) :
           /\ book = [i \in DOMAIN s |-> [tid |-> 1 + i, user |-> i, price |-> s[i].price, volume |-> s[i].volume]]
           /\ \A i, j \in DOMAIN s : i < j => s[i].price <= s[j].price
    BY DEF Books
  <1>2. MaxOrders \in Nat /\ MaxVolume \in Nat
    BY PriceTypes
  <1> HIDE DEF Bare
  <1>3. Len(s) \in 0 .. MaxOrders /\ DOMAIN s = 1 .. Len(s) /\ \A i \in DOMAIN s : s[i] \in Bare
    BY ONLY <1>1, <1>2, BoundedSeqs
  <1> DEFINE n == Len(s)
  <1>4. n \in Nat
    BY <1>2, <1>3
  <1>5. ASSUME NEW i \in 1 .. n
        PROVE  /\ book[i] \in Orders /\ book[i].tid = 1 + i /\ book[i].volume >= 0
               /\ book[i].price = s[i].price
    <2>1. s[i].price \in Prices /\ s[i].volume \in 0 .. MaxVolume
      BY <1>3 DEF Bare
    <2>2. book[i] = [tid |-> 1 + i, user |-> i, price |-> s[i].price, volume |-> s[i].volume]
      BY <1>1, <1>3
    <2>3. 1 + i \in Nat /\ i \in Nat /\ s[i].volume \in Int /\ s[i].volume >= 0
      BY <1>2, <1>4, <2>1
    <2> QED
      BY ONLY <2>1, <2>2, <2>3 DEF Orders, OrdersOf
  <1>6. book = [i \in 1 .. n |-> book[i]] /\ DOMAIN book = 1 .. n
    BY <1>1, <1>3
  <1>7. Len(book) = n
    BY ONLY <1>4, <1>6
  <1> HIDE DEF n
  <1>8. book \in [1 .. n -> Orders]
    BY ONLY <1>5, <1>6
  <1>9. TidsApart(book)
    BY ONLY <1>4, <1>5, <1>6 DEF TidsApart
  <1>10. \A i, j \in 1 .. n : i < j => book[i].price <= book[j].price
    BY <1>1, <1>3, <1>5 DEF n
  <1> QED
    BY ONLY <1>4, <1>5, <1>6, <1>7, <1>8, <1>9, <1>10 DEF IsBook

\* The sums of the properties are those the lemmas are about.
LEMMA BookSums ==
    ASSUME NEW n \in Nat, NEW orders \in [1 .. n -> Orders]
    PROVE  /\ \A p : Offered(orders, p) = OfferedAt(orders, p, Orders) /\ Offered(orders, p) \in Int
           /\ \A price \in Int :
                 VolumeOf(orders, {i \in DOMAIN orders : Crosses(price, orders[i])})
                    = SumUpTo(ForPrice(Orders, price), orders, n)
  <1>1. Len(orders) = n /\ orders \in Seq(Orders) /\ \A i \in 1 .. n : orders[i] \in Orders
    OBVIOUS
  <1>2. ASSUME NEW p PROVE Offered(orders, p) = OfferedAt(orders, p, Orders) /\ Offered(orders, p) \in Int
    <2>1. [i \in 1 .. Len(orders) |-> IF orders[i].price = p THEN orders[i].volume ELSE 0]
             = [i \in 1 .. Len(orders) |-> AtPrice(Orders, p)[orders[i]]]
      BY <1>1 DEF AtPrice
    <2>2. Offered(orders, p) = OfferedAt(orders, p, Orders)
      BY <2>1 DEF Offered, OfferedAt, SumFunction, SumOver
    <2>3. AtPrice(Orders, p) \in [Orders -> Int]
      BY OrderWeights DEF Orders
    <2>4. OfferedAt(orders, p, Orders) \in Int
      BY ONLY <1>1, <2>3, SumOverType DEF OfferedAt
    <2> QED
      BY <2>2, <2>4
  <1>3. ASSUME NEW price \in Int
        PROVE  VolumeOf(orders, {i \in DOMAIN orders : Crosses(price, orders[i])})
                    = SumUpTo(ForPrice(Orders, price), orders, n)
    <2> DEFINE S == {i \in DOMAIN orders : Crosses(price, orders[i])}
    <2>1. [i \in 1 .. Len(orders) |-> IF i \in S THEN orders[i].volume ELSE 0]
             = [i \in 1 .. Len(orders) |-> ForPrice(Orders, price)[orders[i]]]
      BY <1>1 DEF ForPrice
    <2>2. VolumeOf(orders, S) = SumOver(ForPrice(Orders, price), orders)
      BY <2>1 DEF VolumeOf, SumFunction, SumOver
    <2> QED
      BY <1>1, <2>2 DEF SumOver, SumUpTo
  <1> QED
    BY <1>2, <1>3

\* So are the sums over deals.
LEMMA TradeSums ==
    ASSUME NEW deals \in Seq(Trades)
    PROVE  /\ \A t : LotsOf(deals, t) = LotsIn(deals, t, Trades)
           /\ MoneyOf(deals) = MoneyIn(deals, Trades)
           /\ Sold(deals) = SalesIn(deals, Trades)
  <1>1. \A i \in 1 .. Len(deals) : deals[i] \in Trades
    OBVIOUS
  <1>2. ASSUME NEW t PROVE LotsOf(deals, t) = LotsIn(deals, t, Trades)
    <2>1. [d \in 1 .. Len(deals) |-> IF deals[d].order.tid = t THEN deals[d].order.volume ELSE 0]
             = [d \in 1 .. Len(deals) |-> OwnLots(Trades, t)[deals[d]]]
      BY <1>1 DEF OwnLots
    <2> QED
      BY <2>1 DEF LotsOf, LotsIn, SumFunction, SumOver
  <1>3. MoneyOf(deals) = MoneyIn(deals, Trades)
    <2>1. [d \in 1 .. Len(deals) |-> deals[d].ack_money]
             = [d \in 1 .. Len(deals) |-> OwnMoney(Trades)[deals[d]]]
      BY <1>1 DEF OwnMoney
    <2> QED
      BY <2>1 DEF MoneyOf, MoneyIn, SumFunction, SumOver
  <1>4. Sold(deals) = SalesIn(deals, Trades)
    <2>1. [d \in 1 .. Len(deals) |-> IF deals[d].order.price > 0 THEN deals[d].order.volume
                                     ELSE -deals[d].order.volume]
             = [d \in 1 .. Len(deals) |-> OwnSales(Trades)[deals[d]]]
      BY <1>1 DEF OwnSales
    <2> QED
      BY <2>1 DEF Sold, SalesIn, SumFunction, SumOver
  <1> QED
    BY <1>2, <1>3, <1>4

\* Without deals they are 0.
LEMMA NoTrades ==
    /\ \A t : LotsIn(<<>>, t, Trades) = 0
    /\ MoneyIn(<<>>, Trades) = 0 /\ SalesIn(<<>>, Trades) = 0
  BY SumOverEmpty DEF LotsIn, MoneyIn, SalesIn

\* The market of a book is a market.
LEMMA MarketInputs ==
    ASSUME NEW n, NEW book, IsBook(book, n)
    PROVE  /\ Market(book) \in MarketsOf(n) /\ Market(book).orders = book /\ Market(book).pending = <<>>
           /\ \A p \in Prices : Market(book).volumes[p] = Offered(book, p)
  <1>1. n \in Nat /\ book \in [1 .. n -> Orders]
    BY DEF IsBook
  <1>2. [p \in Prices |-> Offered(book, p)] \in [Prices -> Int]
    BY <1>1, BookSums
  <1>3. <<>> \in Seq(Trades)
    OBVIOUS
  <1> QED
    BY <1>1, <1>2, <1>3 DEF Market, MarketsOf, Markets, Orders, Trades

\* Two orders meet exactly when the one can be matched with the other.
LEMMA MeetsCrosses ==
    ASSUME NEW p \in Prices, NEW o \in Orders
    PROVE  Meets(p, o.price) <=> Crosses(p, o)
  <1>1. PICK a \in Int, b \in Int : a = p /\ b = o.price /\ a # 0 /\ b # 0
    BY PriceTypes DEF Orders, OrdersOf
  <1>2. a * b < 0 <=> (a > 0 /\ b < 0) \/ (a < 0 /\ b > 0)
    BY ONLY <1>1
  <1>3. a * b < 0 /\ a + b <= 0 <=> IF a > 0 THEN b < 0 /\ -b >= a ELSE b > 0 /\ b <= -a
    BY ONLY <1>1, <1>2
  <1> QED
    BY ONLY <1>1, <1>3 DEF Meets, Crosses

-----------------------------------------------------------------------------
\* What an order is placed in is one of the books, and its result is what
\* PriceMatching returns; so for a load and AutoBalance.
PlaceInv ==
    /\ input.op = "place" => input \in [op : {"place"}, book : Books, price : Prices, volume : 1 .. MaxVolume]
    /\ Done("place") => output = <<PriceMatching(Market(input.book), 99, input.price, input.volume)>>

LoadInv ==
    /\ input.op = "load" => \E b \in Books : input \in [op : {"load"}, book : {b}, balance : Loads(b)]
    /\ Done("load") => output = <<AutoBalance(Market(input.book), input.balance, MaxPrice)>>

\* The invariants of the order book hold initially and through every step.
LEMMA BookInvHolds == Spec => [](PlaceInv /\ LoadInv)
  <1>1. Init => PlaceInv /\ LoadInv
    BY DEF Init, PlaceInv, LoadInv, Done, Merges
  <1>2. PlaceInv /\ LoadInv /\ [Next]_vars => (PlaceInv /\ LoadInv)'
    BY DEF PlaceInv, LoadInv, Next, MergeGoods, Place, Load, vars, Done
  <1> QED
    BY <1>1, <1>2, PTL DEF Spec

\* r is what placing the order of the input has led to.
Placed(r, book, n, price, volume) ==
    /\ IsBook(book, n) /\ price \in Prices /\ price \in Int /\ volume \in Nat
    /\ r \in MarketsOf(n)
    /\ MatchedBook(r, Market(book), n, n, price, volume, Orders)
    /\ MatchedDeals(r, Market(book), n, price, Nat, Nat, Prices)

\* A place of the input comes from a book the lemmas are about.
LEMMA PlaceDone ==
    ASSUME PlaceInv, Done("place")
    PROVE  Placed(output[1], input.book, Len(input.book), input.price, input.volume)
  <1> DEFINE book == input.book
  <1> DEFINE n == Len(book)
  <1> DEFINE m == Market(book)
  <1> DEFINE r == output[1]
  <1>1. book \in Books /\ input.price \in Prices /\ input.volume \in 1 .. MaxVolume
    BY DEF PlaceInv, Done
  <1>2. IsBook(book, n)
    BY <1>1, BookInputs
  <1>3. r = PriceMatching(m, 99, input.price, input.volume)
    BY DEF PlaceInv
  <1>4. /\ m \in MarketsOf(n) /\ m.orders = book
    BY <1>2, MarketInputs
  <1>5. n \in Nat /\ \A i \in 1 .. n : m.orders[i].volume >= 0
    BY <1>2, <1>4 DEF IsBook
  <1>6. Prices \subseteq Int /\ input.price \in Int /\ input.volume \in Nat /\ 99 \in Nat
    <2>1. Prices \subseteq Int /\ MaxVolume \in Nat /\ 99 \in Nat
      BY PriceTypes
    <2>2. PICK v : v = input.volume /\ v \in 1 .. MaxVolume
      BY <1>1
    <2>3. v \in Nat
      BY ONLY <2>1, <2>2
    <2> QED
      BY ONLY <1>1, <2>1, <2>2, <2>3
  <1> HIDE DEF m, n, book, r
  <1>7. /\ r \in Markets(n, Nat, Nat, Prices)
        /\ MatchedBook(r, m, n, n, input.price, input.volume, OrdersOf(Nat, Nat, Prices))
        /\ MatchedDeals(r, m, n, input.price, Nat, Nat, Prices)
    BY ONLY <1>3, <1>4, <1>5, <1>6, MatchingMatches DEF MarketsOf
  <1> QED
    BY ONLY <1>1, <1>2, <1>6, <1>7 DEF Placed, MarketsOf, Orders, m, n, book, r

\* The orders an incoming one meets are those it can be matched with.
LEMMA CrossingOrders ==
    ASSUME NEW n, IsBook(input.book, n), input.price \in Prices
    PROVE  Crossing = {i \in DOMAIN input.book : Crosses(input.price, input.book[i])}
  <1>1. \A i \in DOMAIN input.book : input.book[i] \in Orders
    BY DEF IsBook
  <1> QED
    BY <1>1, MeetsCrosses DEF Crossing

\* An incoming order takes what there is for it, and no more than it asks for.
THEOREM MatchedToTheLimitHolds == Spec => []MatchedToTheLimit
  <1>1. PlaceInv => MatchedToTheLimit
    <2> SUFFICES ASSUME PlaceInv, Done("place")
                 PROVE  output[1].ack_volume = Least(input.volume, VolumeOf(input.book, Crossing))
      BY DEF MatchedToTheLimit
    <2> DEFINE n == Len(input.book)
    <2>1. Placed(output[1], input.book, n, input.price, input.volume)
      BY PlaceDone
    <2>2. IsBook(input.book, n) /\ input.price \in Prices /\ input.price \in Int
      BY ONLY <2>1 DEF Placed
    <2>3. n \in Nat /\ input.book \in [1 .. n -> Orders]
      BY <2>2 DEF IsBook
    <2> HIDE DEF n
    <2>4. output[1].ack_volume
            = Least(input.volume, SumUpTo(ForPrice(Orders, input.price), Market(input.book).orders, n))
      BY ONLY <2>1 DEF Placed, MatchedBook
    <2>5. Market(input.book).orders = input.book
      BY ONLY <2>2, MarketInputs
    <2>6. Crossing = {i \in DOMAIN input.book : Crosses(input.price, input.book[i])}
      BY <2>2, CrossingOrders
    <2>7. VolumeOf(input.book, {i \in DOMAIN input.book : Crosses(input.price, input.book[i])})
            = SumUpTo(ForPrice(Orders, input.price), input.book, n)
      BY ONLY <2>2, <2>3, BookSums
    <2> QED
      BY ONLY <2>4, <2>5, <2>6, <2>7
  <1> QED
    BY <1>1, BookInvHolds, PTL

\* A better order and an earlier one of the same price come first.
THEOREM BestOrderFirstHolds == Spec => []BestOrderFirst
  <1>1. PlaceInv => BestOrderFirst
    <2> SUFFICES ASSUME PlaceInv, Done("place"), NEW i \in Crossing, NEW j \in Crossing, i < j, Taken(j) > 0
                 PROVE  output[1].orders[i].volume = 0
      BY DEF BestOrderFirst
    <2> DEFINE n == Len(input.book)
    <2> DEFINE r == output[1]
    <2> DEFINE b == input.book
    <2>1. Placed(r, b, n, input.price, input.volume)
      BY PlaceDone
    <2>2. IsBook(b, n) /\ input.price \in Prices
      BY ONLY <2>1 DEF Placed
    <2>3. DOMAIN b = 1 .. n /\ b \in [1 .. n -> Orders] /\ r.orders \in [1 .. n -> Orders]
      BY ONLY <2>1 DEF Placed, IsBook, MarketsOf, Markets, Orders
    <2>4. i \in 1 .. n /\ j \in 1 .. n /\ Crosses(input.price, b[i])
      <3>1. Crossing = {k \in DOMAIN b : Crosses(input.price, b[k])}
        BY ONLY <2>2, CrossingOrders
      <3> QED
        BY <2>3, <3>1
    <2>5. Market(b).orders = b
      BY ONLY <2>2, MarketInputs
    <2>6. r.orders[j].volume < b[j].volume
      <3>1. r.orders[j].volume \in Int /\ b[j].volume \in Int
        BY ONLY <2>3, <2>4 DEF Orders, OrdersOf
      <3>2. b[j].volume - r.orders[j].volume > 0
        BY DEF Taken
      <3> QED
        BY ONLY <3>1, <3>2
    <2> HIDE DEF n, r, b
    <2>7. \A k, l \in 1 .. n : k < l /\ Crosses(input.price, b[k]) /\ r.orders[l].volume < b[l].volume
                                  => r.orders[k].volume = 0
      BY ONLY <2>1, <2>5 DEF Placed, MatchedBook
    <2>8. r.orders[i].volume = 0
      BY <2>4, <2>6, <2>7
    <2> QED
      BY <2>8 DEF r
  <1> QED
    BY <1>1, BookInvHolds, PTL

\* The deals hold what leaves the book, and the money of both sides is the same.
THEOREM DealsAddUpHolds == Spec => []DealsAddUp
  <1>1. PlaceInv => DealsAddUp
    <2> SUFFICES ASSUME PlaceInv, Done("place")
                 PROVE  /\ \A i \in DOMAIN input.book : Taken(i) = LotsOf(Deals, input.book[i].tid)
                        /\ \A p \in Prices : output[1].volumes[p] = Offered(output[1].orders, p)
                        /\ output[1].ack_money + MoneyOf(Deals) = 0
      BY DEF DealsAddUp
    <2> DEFINE n == Len(input.book)
    <2> DEFINE r == output[1]
    <2> DEFINE b == input.book
    <2> DEFINE m == Market(b)
    <2>1. Placed(r, b, n, input.price, input.volume)
      BY PlaceDone
    <2>2. IsBook(b, n)
      BY ONLY <2>1 DEF Placed
    <2>3. /\ DOMAIN b = 1 .. n /\ b \in [1 .. n -> Orders] /\ r.orders \in [1 .. n -> Orders]
          /\ r.pending \in Seq(Trades) /\ r.volumes \in [Prices -> Int] /\ r.ack_money \in Int /\ n \in Nat
          /\ TidsApart(b)
      BY ONLY <2>1 DEF Placed, IsBook, MarketsOf, Markets, Orders, Trades
    <2>4. m.orders = b /\ m.pending = <<>> /\ \A p \in Prices : m.volumes[p] = Offered(b, p)
      BY ONLY <2>2, MarketInputs
    <2> HIDE DEF n, r, b, m
    <2>5. /\ \A p \in Prices : r.volumes[p] - OfferedAt(r.orders, p, Orders) = m.volumes[p] - OfferedAt(m.orders, p, Orders)
          /\ TidsApart(m.orders) =>
               \A i \in 1 .. n : LotsIn(r.pending, m.orders[i].tid, Trades) + r.orders[i].volume
                                  = LotsIn(m.pending, m.orders[i].tid, Trades) + m.orders[i].volume
          /\ MoneyIn(r.pending, Trades) + r.ack_money = MoneyIn(m.pending, Trades)
      BY ONLY <2>1 DEF Placed, MatchedDeals, Orders, Trades, m
    <2>6. /\ \A t : LotsOf(r.pending, t) = LotsIn(r.pending, t, Trades)
          /\ MoneyOf(r.pending) = MoneyIn(r.pending, Trades)
      BY ONLY <2>3, TradeSums
    <2>7. ASSUME NEW i \in DOMAIN b PROVE b[i].volume - r.orders[i].volume = LotsOf(r.pending, b[i].tid)
      <3> DEFINE x == LotsIn(r.pending, b[i].tid, Trades)
      <3>1. x \in Int
        <4>1. Trades = DealsOf(Nat, Nat, Prices) /\ Prices \subseteq Int
          BY PriceTypes DEF Trades
        <4>2. \A t : OwnLots(Trades, t) \in [Trades -> Int]
          BY ONLY <4>1, DealWeights
        <4> QED
          BY ONLY <2>3, <4>2, SumOverType DEF LotsIn
      <3>2. x + r.orders[i].volume = 0 + b[i].volume
        BY <2>3, <2>4, <2>5, NoTrades
      <3>3. r.orders[i].volume \in Int /\ b[i].volume \in Int
        BY <2>3 DEF Orders, OrdersOf
      <3>4. x = LotsOf(r.pending, b[i].tid)
        BY <2>6
      <3> HIDE DEF x
      <3> QED
        BY ONLY <3>1, <3>2, <3>3, <3>4
    <2>8. ASSUME NEW p \in Prices PROVE r.volumes[p] = Offered(r.orders, p)
      <3>1. Offered(r.orders, p) = OfferedAt(r.orders, p, Orders) /\ Offered(r.orders, p) \in Int
        BY ONLY <2>3, BookSums
      <3>2. Offered(b, p) = OfferedAt(b, p, Orders) /\ Offered(b, p) \in Int
        BY ONLY <2>3, BookSums
      <3>3. r.volumes[p] - Offered(r.orders, p) = Offered(b, p) - Offered(b, p) /\ r.volumes[p] \in Int
        BY <2>3, <2>4, <2>5, <3>1, <3>2
      <3> QED
        BY ONLY <3>1, <3>2, <3>3
    <2>9. r.ack_money + MoneyOf(r.pending) = 0
      <3>1. MoneyIn(r.pending, Trades) + r.ack_money = 0
        BY ONLY <2>4, <2>5, NoTrades
      <3>2. MoneyIn(r.pending, Trades) \in Int
        <4>1. Trades = DealsOf(Nat, Nat, Prices) /\ Prices \subseteq Int
          BY PriceTypes DEF Trades
        <4>2. OwnMoney(Trades) \in [Trades -> Int]
          BY ONLY <4>1, DealWeights
        <4> QED
          BY ONLY <2>3, <4>2, SumOverType DEF MoneyIn
      <3> QED
        BY ONLY <2>3, <2>6, <3>1, <3>2
    <2> QED
      BY <2>7, <2>8, <2>9 DEF r, b, Deals, Taken
  <1> QED
    BY <1>1, BookInvHolds, PTL

\* r is what loading the book of the input has led to.
BookLoaded(r, book, n, b) ==
    /\ IsBook(book, n) /\ b \in Int /\ \A i \in 1 .. n : book[i].volume > 0
    /\ r \in MarketsOf(n)
    /\ \E m \in MarketsOf(n) : /\ SalesIn(m.pending, Trades) + b = 0
                               /\ b = 0 => m.orders = book
                               /\ LoadedFrom(r, m, n, Nat, Nat, Prices)

\* A balance that is loaded can be made up for.
LEMMA LoadsEnough ==
    ASSUME NEW n, NEW book, IsBook(book, n), NEW b \in Loads(book)
    PROVE  EnoughFor(b, book, n, MaxPrice, Orders)
  <1>1. /\ n \in Nat /\ book \in [1 .. n -> Orders] /\ DOMAIN book = 1 .. n
        /\ \A i \in DOMAIN book : book[i].price \in Prices /\ book[i].price \in Int
    BY PriceTypes DEF IsBook, Orders, OrdersOf
  <1>2. MaxPrice \in Int /\ MaxPrice >= 0 /\ -MaxPrice \in Int /\ 1 \in Int /\ b \in Int
    BY PriceTypes, BoundsAssumption DEF Loads
  <1>3. ASSUME b > 0 PROVE SumUpTo(ForPrice(Orders, 1), book, n) >= b
    <2>1. VolumeOf(book, Side(book, TRUE)) >= b
      BY <1>3 DEF Loads
    <2>2. Side(book, TRUE) = {i \in DOMAIN book : Crosses(1, book[i])}
      <3>1. ASSUME NEW i \in DOMAIN book PROVE Crosses(1, book[i]) <=> ((book[i].price < 0) = TRUE)
        <4>1. PICK p \in Int : p = book[i].price
          BY <1>1
        <4> QED
          BY ONLY <4>1 DEF Crosses
      <3> QED
        BY <3>1 DEF Side
    <2>3. VolumeOf(book, {i \in DOMAIN book : Crosses(1, book[i])}) = SumUpTo(ForPrice(Orders, 1), book, n)
      BY ONLY <1>1, <1>2, BookSums
    <2> QED
      BY ONLY <2>1, <2>2, <2>3
  <1>4. ASSUME b < 0 PROVE SumUpTo(ForPrice(Orders, -MaxPrice), book, n) >= -b
    <2>1. VolumeOf(book, Side(book, FALSE)) >= -b
      BY <1>4 DEF Loads
    <2>2. Side(book, FALSE) = {i \in DOMAIN book : Crosses(-MaxPrice, book[i])}
      <3>1. ASSUME NEW i \in DOMAIN book PROVE Crosses(-MaxPrice, book[i]) <=> ((book[i].price < 0) = FALSE)
        <4>1. PICK p \in Int : p = book[i].price /\ p # 0 /\ p <= MaxPrice
          BY <1>1, PriceTypes
        <4>2. Crosses(-MaxPrice, book[i]) <=> p > 0
          BY ONLY <1>2, <4>1 DEF Crosses
        <4> QED
          BY ONLY <4>1, <4>2
      <3> QED
        BY <3>1 DEF Side
    <2>3. VolumeOf(book, {i \in DOMAIN book : Crosses(-MaxPrice, book[i])})
            = SumUpTo(ForPrice(Orders, -MaxPrice), book, n)
      BY ONLY <1>1, <1>2, BookSums
    <2> QED
      BY ONLY <2>1, <2>2, <2>3
  <1> QED
    BY <1>3, <1>4 DEF EnoughFor

\* A load of the input comes from a book the lemmas are about.
LEMMA LoadDone ==
    ASSUME LoadInv, Done("load")
    PROVE  BookLoaded(output[1], input.book, Len(input.book), input.balance)
  <1> DEFINE book == input.book
  <1> DEFINE n == Len(book)
  <1> DEFINE b == input.balance
  <1> DEFINE r == output[1]
  <1> DEFINE market == Market(book)
  <1> DEFINE m == Balanced(market, b, MaxPrice)
  <1>1. book \in Books /\ b \in Loads(book)
    BY DEF LoadInv, Done
  <1>2. IsBook(book, n)
    BY <1>1, BookInputs
  <1>3. r = AutoBalance(market, b, MaxPrice) /\ m = Balanced(market, b, MaxPrice)
    BY DEF LoadInv
  <1>4. market \in MarketsOf(n) /\ market.orders = book /\ market.pending = <<>>
    BY <1>2, MarketInputs
  <1>5. /\ n \in Nat /\ DOMAIN book = 1 .. n /\ \A i \in 1 .. n : market.orders[i].volume >= 0
    BY <1>2, <1>4 DEF IsBook
  <1>6. b \in Int /\ \A i \in 1 .. n : book[i].volume > 0
    <2> HIDE DEF n, b, book
    <2>1. b \in -MaxBalance .. MaxBalance /\ \A i \in DOMAIN book : book[i].volume > 0
      BY ONLY <1>1 DEF Loads
    <2>2. MaxBalance \in Nat
      BY BoundsAssumption
    <2> QED
      BY ONLY <1>5, <2>1, <2>2
  <1>7. Prices \subseteq Int /\ 0 \in Nat /\ MaxPrice \in Int /\ MaxPrice >= 0
    BY PriceTypes
  <1> HIDE DEF n, b, r, market, book, m
  <1>8. EnoughFor(b, market.orders, n, MaxPrice, OrdersOf(Nat, Nat, Prices))
    BY ONLY <1>1, <1>2, <1>4, LoadsEnough DEF Orders
  <1>9. MadeUp(m, market, b, n, Nat, Nat, Prices)
    BY ONLY <1>3, <1>4, <1>5, <1>6, <1>7, <1>8, BalanceTaken DEF MarketsOf
  <1>10. /\ m \in Markets(n, Nat, Nat, Prices)
         /\ \A i \in 1 .. n : m.orders[i].volume >= 0
         /\ SalesIn(m.pending, Trades) + b = SalesIn(market.pending, Trades)
         /\ b = 0 => m = market
    BY ONLY <1>9 DEF MadeUp, Trades
  <1>11. LoadedFrom(r, m, n, Nat, Nat, Prices)
    BY ONLY <1>3, <1>5, <1>7, <1>10, LoadUncrossing
  <1>12. r \in MarketsOf(n)
    BY ONLY <1>11 DEF LoadedFrom, Loading, MarketsOf
  <1>13. SalesIn(m.pending, Trades) + b = 0
    BY ONLY <1>4, <1>10, NoTrades
  <1>14. m \in MarketsOf(n) /\ (b = 0 => m.orders = book)
    BY ONLY <1>4, <1>10 DEF MarketsOf
  <1> QED
    BY ONLY <1>2, <1>6, <1>11, <1>12, <1>13, <1>14 DEF BookLoaded, n, b, r, book

\* What was dealt on one side only is made up for by the deals of a load.
THEOREM LoadBalancesHolds == Spec => []LoadBalances
  <1>1. LoadInv => LoadBalances
    <2> SUFFICES ASSUME LoadInv, Done("load") PROVE input.balance + Sold(Deals) = 0
      BY DEF LoadBalances
    <2> DEFINE n == Len(input.book)
    <2> DEFINE r == output[1]
    <2> DEFINE b == input.balance
    <2>1. BookLoaded(r, input.book, n, b)
      BY LoadDone
    <2> HIDE DEF n, r, b
    <2>2. PICK m \in MarketsOf(n) : SalesIn(m.pending, Trades) + b = 0 /\ LoadedFrom(r, m, n, Nat, Nat, Prices)
      BY ONLY <2>1 DEF BookLoaded
    <2>3. SalesIn(r.pending, Trades) = SalesIn(m.pending, Trades)
      BY ONLY <2>2 DEF LoadedFrom, Loaded, Trades
    <2>4. r.pending \in Seq(Trades) /\ b \in Int
      BY ONLY <2>1 DEF BookLoaded, MarketsOf, Markets, Trades
    <2>5. Sold(r.pending) = SalesIn(r.pending, Trades)
      BY ONLY <2>4, TradeSums
    <2>6. SalesIn(r.pending, Trades) \in Int
      <3>1. Trades = DealsOf(Nat, Nat, Prices) /\ Prices \subseteq Int
        BY PriceTypes DEF Trades
      <3>2. OwnSales(Trades) \in [Trades -> Int]
        BY ONLY <3>1, DealWeights
      <3> QED
        BY ONLY <2>4, <3>2, SumOverType DEF SalesIn
    <2>7. b + Sold(r.pending) = 0
      BY ONLY <2>2, <2>3, <2>4, <2>5, <2>6
    <2> QED
      BY <2>7 DEF r, b, Deals
  <1> QED
    BY <1>1, BookInvHolds, PTL

\* With nothing to balance, a load makes every deal the book has in it.
THEOREM LoadUncrossesHolds == Spec => []LoadUncrosses
  <1>1. LoadInv => LoadUncrosses
    <2> SUFFICES ASSUME LoadInv, Done("load"), input.balance = 0,
                        NEW i \in DOMAIN input.book, NEW j \in DOMAIN input.book,
                        input.book[i].price > 0, output[1].orders[i].volume > 0,
                        output[1].orders[j].volume > 0,
                        Meets(input.book[i].price, input.book[j].price)
                 PROVE  FALSE
      BY DEF LoadUncrosses
    <2> DEFINE b == input.book
    <2> DEFINE n == Len(b)
    <2> DEFINE r == output[1]
    <2>1. BookLoaded(r, b, n, 0)
      BY LoadDone
    <2>2. /\ n \in Nat /\ b \in [1 .. n -> Orders] /\ DOMAIN b = 1 .. n
          /\ \A k, l \in 1 .. n : k < l => b[k].price <= b[l].price
          /\ \A k \in 1 .. n : b[k].volume > 0
      BY ONLY <2>1 DEF BookLoaded, IsBook
    <2>3. PICK m \in MarketsOf(n) : m.orders = b /\ LoadedFrom(r, m, n, Nat, Nat, Prices)
      BY ONLY <2>1 DEF BookLoaded
    <2>4. PICK s : r = s.market /\ Loaded(s, m, n, n, Trades) /\ s.on \in BOOLEAN
      BY ONLY <2>3 DEF LoadedFrom, Trades, Loading
    <2>5. /\ s.on => \A k \in 1 .. n : b[k].price > 0 => r.orders[k].volume = 0
          /\ ~s.on => \E q \in 1 .. n : Stuck(r, b, q, n)
      BY ONLY <2>2, <2>3, <2>4 DEF Loaded
    <2>6. i \in 1 .. n /\ j \in 1 .. n
      BY <2>2
    <2>7. ~s.on
      BY <2>5, <2>6
    <2>8. PICK q \in 1 .. n : Stuck(r, b, q, n)
      BY ONLY <2>5, <2>7
    <2>9. b[q].price > 0 /\ ~(i < q) /\ ~Crosses(b[q].price, b[j])
      BY <2>6, <2>8 DEF Stuck
    <2>10. \A k \in 1 .. n : b[k] \in Orders /\ b[k].price \in Prices /\ b[k].price \in Int
      BY <2>2, PriceTypes DEF Orders, OrdersOf
    <2>11. b[q].price <= b[i].price
      <3>1. CASE i = q
        BY <2>10, <3>1
      <3>2. CASE i # q
        BY <2>2, <2>6, <2>9, <3>2
      <3> QED
        BY <3>1, <3>2
    <2>12. Crosses(b[i].price, b[j])
      BY <2>6, <2>10, MeetsCrosses
    <2>13. PICK x \in Int, y \in Int, z \in Int : x = b[i].price /\ y = b[j].price /\ z = b[q].price
      BY <2>6, <2>10
    <2> HIDE DEF b, r, n
    <2> QED
      BY ONLY <2>9, <2>11, <2>12, <2>13 DEF Crosses
  <1> QED
    BY <1>1, BookInvHolds, PTL

=============================================================================
