------------------------------ MODULE TradeGoods ------------------------------
(***************************************************************************)
(* The goods and the money of one trade, from the moment both pockets are  *)
(* read to the moment gamedbd has stored what the trade made of them       *)
(* (Trader and Transaction in cnet/gdeliveryd/trade.cpp, the handlers that *)
(* call them, and gamedbd's TradeSave).                                    *)
(*                                                                         *)
(* A TradeItems vector is the set of its stacks.  Wherever the order of    *)
(* the vector decides what happens, in MergeInventory, every order is      *)
(* possible.  That a stack's id and position find it is an invariant.      *)
(*                                                                         *)
(* A definition named Mut... is a plausible mistake in the definition that *)
(* follows it; the runs show that a property notices the mistake.          *)
(***************************************************************************)
EXTENDS MergeInventory

CONSTANTS Capacity,    \* pocket capacity of both traders
          NoTrade,     \* ids of goods marked __GOOD_NOTRADE_PLAYER
          MaxOffers,   \* 24, stacks one trader may offer
          MoneyCap,    \* 2000000000, the most money a role may own
          Pockets,     \* pockets the traders may have: [items, money]
          Goods,       \* bound: goods named in requests
          Money        \* bound: amounts of money named in requests

Side     == {"Alice", "Bob"}
Other(s) == IF s = "Alice" THEN "Bob" ELSE "Alice"

Pocket == [items : SUBSET Stack, money : Nat]

OnePerSlot(items) == \A x, y \in items : x.pos = y.pos => x = y

\* What the game server stores: one stack a slot, none empty or overfull.
SoundItems(items) ==
    /\ OnePerSlot(items)
    /\ \A x \in items : x.pos \in Slots(Capacity) /\ x.count \in 1 .. MaxCount[x.id]

ASSUME GoodsAssumption ==
    /\ Capacity \in Nat /\ MaxOffers \in Nat /\ MoneyCap \in Nat
    /\ NoTrade \subseteq Ids
    /\ Pockets \subseteq Pocket
    /\ \A p \in Pockets : SoundItems(p.items) /\ p.money <= MoneyCap
    /\ Goods \subseteq {g \in Stack : g.count > 0}
    /\ Money \subseteq Nat

\* A request with goods.id = 0 is about money only.
NoGoods == [id |-> "none", pos |-> 0, count |-> 0]

VARIABLES
    state,       \* state of the Transaction
    tstate,      \* Trader::state
    possession,  \* Trader::possession
    exchg_obj,   \* Trader::exchg_obj
    pssn_money, exchg_money, pssn_modified,
    result,      \* <<>>, or the generated _newposs and _newmoney when blGenResult
    db,          \* the pockets gamedbd holds
    save         \* the TradeSave of this trade

vars == <<state, tstate, possession, exchg_obj, pssn_money, exchg_money,
          pssn_modified, result, db, save>>

goodsVars == <<possession, exchg_obj, pssn_money, exchg_money>>
dbVars    == <<db, save>>

NoSave == [status |-> "none", cause |-> "none", arg |-> [s \in Side |-> [items |-> {}, money |-> 0]]]

Exchanging == {"Exchange", "Ready_half"}   \* states that take UPDATEGOODS, SUBMIT, MOVEOBJ
Settling   == {"Ready", "Confirm_half"}    \* states that take CONFIRM
Saving     == {"Confirm", "Init"}          \* both confirmed, or discarded
Bargaining == state \in Exchanging \cup Settling

\* SetPossession: the pockets are those TradeInventory read.
Init ==
    /\ db \in [Side -> Pockets]
    /\ state = "Exchange"
    /\ tstate = [s \in Side |-> "EXCHANGE"]
    /\ possession = [s \in Side |-> db[s].items]
    /\ exchg_obj = [s \in Side |-> {}]
    /\ pssn_money = [s \in Side |-> db[s].money]
    /\ exchg_money = [s \in Side |-> 0]
    /\ pssn_modified = [s \in Side |-> FALSE]
    /\ result = <<>>
    /\ save = NoSave

-----------------------------------------------------------------------------
\* Finding, taking and putting goods: operator== compares id and position.

Same(x, g)      == x.id = g.id /\ x.pos = g.pos
Has(items, g)   == \E x \in items : Same(x, g)
Find(items, g)  == CHOOSE x \in items : Same(x, g)

VerifyGoods(items, g) ==
    \E x \in items : Same(x, g) /\ x.count >= g.count /\ x.id \notin NoTrade

\* count -= n, where the stack stays even when nothing is left of it.
Less(items, g, n) ==
    LET x == Find(items, g) IN (items \ {x}) \cup {[x EXCEPT !.count = @ - n]}

Erase(items, g) == {x \in items : ~Same(x, g) \/ x.count # 0}

MutMoreAssigns(items, g, n) ==
    LET x == Find(items, g) IN (items \ {x}) \cup {[x EXCEPT !.count = n]}

More(items, g, n) ==
    LET x == Find(items, g) IN (items \ {x}) \cup {[x EXCEPT !.count = @ + n]}

\* count += n of a stack that is there, or a new stack.
Put(items, g) == IF Has(items, g) THEN More(items, g, g.count) ELSE items \cup {g}

Take(items, g) == Erase(Less(items, g, g.count), g)

\* Everything a trader owns goes into one transaction result: of the vectors'
\* order nothing is known.  {} stands for a failure.
Generated(to, from) ==
    IF pssn_money[to] + exchg_money[from] > MoneyCap THEN {}
    ELSE LET merges == {Merge(p, f, Capacity) :
                           p \in SetToSeqs(possession[to]), f \in SetToSeqs(exchg_obj[from])}
         IN {[items |-> ToSet(m.result), money |-> pssn_money[to] + exchg_money[from]] :
                m \in {k \in merges : k.ok}}

Unready(ts) == [s \in Side |-> IF ts[s] = "READY" THEN "EXCHANGE" ELSE ts[s]]

-----------------------------------------------------------------------------
\* The players' operations.

\* The rest of a successful AddExchgObject or RemoveExchgObject.
OffersChanged(s) ==
    /\ state' = "Exchange"
    /\ tstate' = Unready([tstate EXCEPT ![s] = "EXCHANGE"])

\* Trader::AddExchgObject changes the goods before it looks at the money: when
\* the money is refused the goods stay offered, nobody is told and the partner
\* stays READY.
AddExchgObject(s, g, money) ==
    /\ state \in Exchanging /\ tstate[s] # "READY"
    /\ Cardinality(exchg_obj[s]) < MaxOffers /\ Capacity # 0
    /\ g # NoGoods \/ money # 0
    /\ g # NoGoods => VerifyGoods(possession[s], g)
    /\ exchg_obj' = IF g = NoGoods THEN exchg_obj
                    ELSE [exchg_obj EXCEPT ![s] = Put(@, g)]
    /\ possession' = IF g = NoGoods THEN possession
                     ELSE [possession EXCEPT ![s] = Less(@, g, g.count)]
    /\ IF money <= pssn_money[s]
       THEN /\ exchg_money' = [exchg_money EXCEPT ![s] = @ + money]
            /\ pssn_money' = [pssn_money EXCEPT ![s] = @ - money]
            /\ OffersChanged(s)
       ELSE UNCHANGED <<exchg_money, pssn_money, state, tstate>>
    /\ UNCHANGED <<pssn_modified, result, dbVars>>

MutRemoveMoneyFirst(s, g, money) ==
    /\ state \in Exchanging /\ tstate[s] # "READY"
    /\ g # NoGoods => VerifyGoods(exchg_obj[s], g)
    /\ exchg_obj' = IF g = NoGoods THEN exchg_obj ELSE [exchg_obj EXCEPT ![s] = Take(@, g)]
    /\ possession' = IF g = NoGoods THEN possession
                     ELSE [possession EXCEPT ![s] = More(@, g, g.count)]
    /\ pssn_money' = [pssn_money EXCEPT ![s] = @ + money]
    /\ IF money <= exchg_money[s]
       THEN /\ exchg_money' = [exchg_money EXCEPT ![s] = @ - money]
            /\ OffersChanged(s)
       ELSE UNCHANGED <<exchg_money, state, tstate>>
    /\ UNCHANGED <<pssn_modified, result, dbVars>>

\* Trader::RemoveExchgObject: the same order, and goods whose home is gone are
\* taken from the offer and put nowhere.
RemoveExchgObject(s, g, money) ==
    /\ state \in Exchanging /\ tstate[s] # "READY"
    /\ g # NoGoods \/ money # 0
    /\ g # NoGoods => VerifyGoods(exchg_obj[s], g)
    /\ exchg_obj' = IF g = NoGoods THEN exchg_obj ELSE [exchg_obj EXCEPT ![s] = Take(@, g)]
    /\ possession' = IF g # NoGoods /\ Has(possession[s], g)
                     THEN [possession EXCEPT ![s] = More(@, g, g.count)]
                     ELSE possession
    /\ IF money <= exchg_money[s] /\ (g # NoGoods => Has(possession[s], g))
       THEN /\ exchg_money' = [exchg_money EXCEPT ![s] = @ - money]
            /\ pssn_money' = [pssn_money EXCEPT ![s] = @ + money]
            /\ OffersChanged(s)
       ELSE UNCHANGED <<exchg_money, pssn_money, state, tstate>>
    /\ UNCHANGED <<pssn_modified, result, dbVars>>

MutMovedNoSwap(items, g, to) ==
    LET source == Find(items, g)
        there  == {x \in items : x.pos = to}
        target == CHOOSE x \in there : TRUE
        n      == Min({g.count, MaxCount[g.id] - target.count})
    IN IF there = {} /\ g.count < source.count
       THEN Less(items, g, g.count) \cup {[g EXCEPT !.pos = to]}
       ELSE IF there = {} \/ target.id # g.id
       THEN (items \ {source}) \cup {[source EXCEPT !.pos = to]}
       ELSE More(Erase(Less(items, g, n), g), target, n)

\* Trader::MoveObject, by what lies at the target position.
Moved(items, g, to) ==
    LET source == Find(items, g)
        there  == {x \in items : x.pos = to}
        target == CHOOSE x \in there : TRUE
        n      == Min({g.count, MaxCount[g.id] - target.count})
    IN IF there = {} /\ g.count = source.count
       THEN (items \ {source}) \cup {[source EXCEPT !.pos = to]}
       ELSE IF there = {}
       THEN Less(items, g, g.count) \cup {[g EXCEPT !.pos = to]}
       ELSE IF target.id # g.id
       THEN (items \ {source, target})
                \cup {[source EXCEPT !.pos = to], [target EXCEPT !.pos = g.pos]}
       ELSE More(Erase(Less(items, g, n), g), target, n)

MutMoveObjectOffered(s, g, to) ==
    /\ state \in Exchanging /\ tstate[s] = "EXCHANGE"
    /\ g.pos # to /\ to \in Slots(Capacity)
    /\ VerifyGoods(possession[s], g)
    /\ \A x \in possession[s] : x.pos = to /\ x.id = g.id => x.count # MaxCount[x.id]
    /\ possession' = [possession EXCEPT ![s] = Moved(@, g, to)]
    /\ pssn_modified' = [pssn_modified EXCEPT ![s] = TRUE]
    /\ UNCHANGED <<state, tstate, exchg_obj, pssn_money, exchg_money, result, dbVars>>

MoveObject(s, g, to) ==
    /\ state \in Exchanging /\ tstate[s] = "EXCHANGE"
    /\ g.pos # to /\ to \in Slots(Capacity)
    /\ VerifyGoods(possession[s], g)
    /\ \A x \in exchg_obj[s] : x.pos \notin {g.pos, to}
    /\ \A x \in possession[s] : x.pos = to /\ x.id = g.id => x.count # MaxCount[x.id]
    /\ possession' = [possession EXCEPT ![s] = Moved(@, g, to)]
    /\ pssn_modified' = [pssn_modified EXCEPT ![s] = TRUE]
    /\ UNCHANGED <<state, tstate, exchg_obj, pssn_money, exchg_money, result, dbVars>>

MutSubmitReusesResult(s) ==
    LET ts == [tstate EXCEPT ![s] = "READY"]
        A  == Generated("Alice", "Bob")
        B  == Generated("Bob", "Alice")
    IN /\ state \in Exchanging
       /\ \/ /\ A # {} /\ B # {} /\ tstate' = ts
             /\ IF result # <<>> THEN UNCHANGED result
                ELSE \E a \in A, b \in B : result' = [u \in Side |-> IF u = "Alice" THEN a ELSE b]
             /\ state' = IF ts[Other(s)] = "READY" THEN "Ready" ELSE "Ready_half"
          \/ /\ A = {} \/ B = {}
             /\ result' = <<>> /\ state' = "Exchange" /\ tstate' = Unready(ts)
       /\ UNCHANGED <<goodsVars, pssn_modified, dbVars>>

\* Transaction::Submit: with both READY the result is generated for each.
Submit(s) ==
    LET ts == [tstate EXCEPT ![s] = "READY"]
        A  == Generated("Alice", "Bob")
        B  == Generated("Bob", "Alice")
    IN /\ state \in Exchanging
       /\ IF ts[Other(s)] # "READY"
          THEN state' = "Ready_half" /\ tstate' = ts /\ UNCHANGED result
          ELSE \/ /\ A # {} /\ B # {}
                  /\ \E a \in A, b \in B : result' = [u \in Side |-> IF u = "Alice" THEN a ELSE b]
                  /\ state' = "Ready" /\ tstate' = ts
               \/ /\ A = {} \/ B = {}
                  /\ result' = <<>>
                  /\ state' = "Exchange" /\ tstate' = Unready(ts)
       /\ UNCHANGED <<goodsVars, pssn_modified, dbVars>>

-----------------------------------------------------------------------------
\* The end of the trade.

\* Write2DB hands both pockets over to TradeSave, or the trade is destroyed.
Write2DB(pocket, modified, cause, sent, next) ==
    /\ possession' = [s \in Side |-> {}]
    /\ pssn_money' = [s \in Side |-> pocket[s].money]
    /\ IF sent /\ \E s \in Side : modified[s]
       THEN /\ save' = [status |-> "sent", cause |-> cause, arg |-> pocket]
            /\ state' = next
       ELSE /\ state' = "Null"
            /\ UNCHANGED save

Offered == \E s \in Side : exchg_money[s] # 0 \/ exchg_obj[s] # {}

Possessed == [s \in Side |-> [items |-> possession[s], money |-> pssn_money[s]]]

\* Transaction::Confirm and the rest of TradeConfirm.  Without a generated
\* result it would be generated now, and a failure would destroy the trade.
Confirm(s, sent) ==
    LET ts == [tstate EXCEPT ![s] = "CONFIRM"]
        results == IF result # <<>> THEN {result}
                   ELSE {[u \in Side |-> IF u = "Alice" THEN p[1] ELSE p[2]] :
                            p \in Generated("Alice", "Bob") \X Generated("Bob", "Alice")}
    IN /\ state \in Settling
       /\ tstate[s] \in {"READY", "CONFIRM"}
       /\ tstate' = ts
       /\ IF ts[Other(s)] # "CONFIRM"
          THEN /\ state' = "Confirm_half"
               /\ UNCHANGED <<goodsVars, pssn_modified, save>>
          ELSE /\ IF ~Offered
                  THEN /\ Write2DB(Possessed, pssn_modified, "confirm", sent, "Confirm")
                       /\ UNCHANGED pssn_modified
                  ELSE IF results = {}
                  THEN /\ state' = "Null"
                       /\ UNCHANGED <<possession, pssn_money, pssn_modified, save>>
                  ELSE /\ pssn_modified' = [u \in Side |-> TRUE]
                       /\ \E r \in results : Write2DB(r, pssn_modified', "confirm", sent, "Confirm")
               /\ UNCHANGED <<exchg_obj, exchg_money>>
       /\ UNCHANGED <<result, db>>

MutGivenBackFromPartner(s) == Generated(s, Other(s))

\* What Transaction::Discard gives back to a trader: its own offer is merged
\* into its own pocket.  The outcome of a failed merge is not looked at.
GivenBack(s) ==
    IF Generated(s, s) # {} THEN Generated(s, s) ELSE {[items |-> {}, money |-> 0]}

\* TradeDiscard, GTradeDiscard.
Discard(sent) ==
    /\ Bargaining
    /\ \E a \in GivenBack("Alice"), b \in GivenBack("Bob") :
          Write2DB([s \in Side |-> IF s = "Alice" THEN a ELSE b],
                   pssn_modified, "discard", sent, "Init")
    /\ UNCHANGED <<tstate, exchg_obj, exchg_money, pssn_modified, result, db>>

\* The trade is rolled back when a trader logs out, and released unsaved when
\* its state times out; what the traders hold is not read again.
Abandon ==
    /\ Bargaining
    /\ state' = "Null"
    /\ UNCHANGED <<tstate, goodsVars, pssn_modified, result, dbVars>>

\* TradeSave is answered, or times out while gamedbd may still be storing.
SaveDone ==
    /\ state \in Saving
    /\ state' = "Null"
    /\ UNCHANGED <<tstate, goodsVars, pssn_modified, result, dbVars>>

\* What gamedbd adds up before it stores: money, and the count of each id.
Sum(items, id) == SumFunction([x \in items |-> IF x.id = id THEN x.count ELSE 0])
SumOf(pocket, id) == Sum(pocket["Alice"].items, id) + Sum(pocket["Bob"].items, id)

Verified ==
    /\ db["Alice"].money + db["Bob"].money = save.arg["Alice"].money + save.arg["Bob"].money
    /\ \A id \in Ids : SumOf(db, id) = SumOf(save.arg, id)

\* TradeSave::Server in gamedbd.
StorePockets ==
    /\ save.status = "sent"
    /\ IF Verified
       THEN db' = save.arg /\ save' = [save EXCEPT !.status = "stored"]
       ELSE save' = [save EXCEPT !.status = "refused"] /\ UNCHANGED db
    /\ UNCHANGED <<state, tstate, goodsVars, pssn_modified, result>>

Next ==
    \/ \E s \in Side, g \in Goods \cup {NoGoods}, money \in Money :
          AddExchgObject(s, g, money) \/ RemoveExchgObject(s, g, money)
    \/ \E s \in Side, g \in Goods, to \in Slots(Capacity) : MoveObject(s, g, to)
    \/ \E s \in Side : Submit(s)
    \/ \E s \in Side, sent \in BOOLEAN : Confirm(s, sent)
    \/ \E sent \in BOOLEAN : Discard(sent)
    \/ Abandon
    \/ SaveDone
    \/ StorePockets

Spec == Init /\ [][Next]_vars

-----------------------------------------------------------------------------
\* Properties.

\* No stack is larger than its limit, counting what is offered from it.
Within(pssn, exchg) ==
    \A x \in pssn :
        /\ x.count <= MaxCount[x.id]
        /\ \A g \in exchg : Same(g, x) => g.count + x.count <= MaxCount[x.id]

\* Moving, splitting, merging and offering goods never puts two stacks on one
\* slot of a pocket, nor offers two stacks from one slot, nor makes a stack that
\* is too large once the offer from it is taken back: the id and position that
\* requests carry always find one stack.
OneStackPerSlot ==
    Bargaining =>
        \A s \in Side : /\ OnePerSlot(possession[s]) /\ OnePerSlot(exchg_obj[s])
                        /\ Within(possession[s], exchg_obj[s])

\* Every offered stack has the stack it was taken from in the pocket, though
\* perhaps with nothing left of it: goods taken back always have a place to go.
\* RemoveExchgObject would lose them otherwise, and Discard merge them elsewhere.
OfferedHasHome ==
    Bargaining => \A s \in Side : \A g \in exchg_obj[s] : Has(possession[s], g)

\* Money is in the pocket or in the offer, also when a request is half refused.
MoneyKept ==
    Bargaining => \A s \in Side : pssn_money[s] + exchg_money[s] = db[s].money

\* Adding, taking back and moving goods in any order, also when half of a
\* request is refused, loses and makes none: pocket and offer of a trader always
\* add up to what gamedbd holds for it.
GoodsKept ==
    Bargaining =>
        \A s \in Side, id \in Ids :
            Sum(possession[s], id) + Sum(exchg_obj[s], id) = Sum(db[s].items, id)

\* gamedbd never refuses a TradeSave: what gdeliveryd made of the two pockets
\* always adds up to what gamedbd read, for a confirmed and a discarded trade.
SaveAccepted == save.status # "refused"

\* From the moment both submitted until both confirmed, the generated result is
\* what the offers still are: nothing changes them behind the traders' back.
ResultIsCurrent ==
    state \in Settling =>
        /\ result # <<>>
        /\ result["Alice"] \in Generated("Alice", "Bob")
        /\ result["Bob"] \in Generated("Bob", "Alice")

Amount(items, money) == [k \in Ids \cup {"money"} |-> IF k = "money" THEN money ELSE Sum(items, k)]

Contract == INSTANCE TradeContract WITH
    Party    <- Side,
    Kind     <- Ids \cup {"money"},
    Holdings <- {Amount(p.items, p.money) : p \in Pockets},
    holding  <- [s \in Side |-> Amount(db[s].items, db[s].money)],
    offer    <- [s \in Side |-> Amount(exchg_obj[s], exchg_money[s])],
    agreed   <- \A s \in Side : tstate[s] = "CONFIRM",
    swapped  <- save.cause = "confirm" /\ save.status = "stored"

\* The trade keeps the contract: what gamedbd holds changes hands once at most,
\* by the offers that stood when both confirmed, whatever is refused, discarded,
\* moved or late.
KeepsContract == Contract!Spec

=============================================================================
