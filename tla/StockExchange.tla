----------------------------- MODULE StockExchange -----------------------------
(***************************************************************************)
(* The stock exchange: players sell and buy cash (lots of 100 yuanbao) for *)
(* money.  gdeliveryd keeps the order book and the accounts in memory      *)
(* (cnet/gdeliveryd/stockexchange.cpp, its Rpc clients dbstock*.hrp), and  *)
(* gamedbd keeps the funds of each user and the open orders               *)
(* (cnet/gamedbd/dbstock*.hrp).                                            *)
(*                                                                         *)
(* An order is matched in memory first, then stored, and each half of a    *)
(* deal is settled in the database by a DBStockBalance of its own.  An     *)
(* account is locked while an Rpc about it is under way.                   *)
(*                                                                         *)
(* Left out: the cash password, the yearly limits on cash bought and sold  *)
(* (both only refuse requests, which changes nothing), the deal log, the   *)
(* turnover figures, and the pocket a deposit comes from or goes to.       *)
(***************************************************************************)
EXTENDS OrderBook, TLC

CONSTANTS User,
          Price,        \* prices players ask: multiples of 100 below MaxPrice
          Volume,       \* lots players ask
          RoundedDown,  \* lots v where (int)(1.02*v*100) is 102*v - 1 in floating point
          Transfers,    \* [withdraw, cash, money] players ask to move
          StartFunds,   \* [User -> [cash, money]] in the database at the start
          Skip,         \* ids skipped when the exchange opens (86)
          MaxOrderId,   \* MAX_STOCKORDER_ID
          MaxOrders,    \* open orders of an account (10)
          MaxPrice,     \* MAX_STOCK_PRICE
          MaxCash,      \* MAX_ACCOUNT_CASH
          MaxMoney,     \* MAX_PACKAGE_MONEY
          LastTid,      \* bound: orders get ids up to this one
          FailingOps,   \* the Rpcs that may fail or time out
          MaxFaults,    \* bound: how many of them do
          MaxCrashes,   \* bound: crashes of gdeliveryd
          Travellers    \* the users that log out and in again

ASSUME ExchangeAssumption ==
    /\ Price \subseteq Nat \ {0} /\ Volume \subseteq Nat \ {0}
    /\ \A p \in Price : p % 100 = 0 /\ p < MaxPrice
    /\ {Skip, MaxOrders, MaxFaults, MaxCrashes, LastTid} \subseteq Nat
    /\ MaxOrderId \in Nat /\ MaxOrderId > 2
    /\ StartFunds \in [User -> [cash : Nat, money : Nat]]
    /\ Transfers \subseteq [withdraw : BOOLEAN, cash : Nat, money : Nat]
    /\ Travellers \subseteq User

VARIABLES
    \* gdeliveryd
    status,    \* "INIT" or "TRADING"
    online,    \* the users that are logged in
    accounts,  \* AccountMap: [cash, money, locked, orders] of some users
    orders, volumes, pending,
    idpool, nextid,
    calls,     \* the Rpcs under way, in the order they were sent
    \* gamedbd
    funds,     \* User.cash and User.money
    stored,    \* the "order" table
    unmatched, \* its row STOCK_BALANCE_ID: lots sold to nobody yet
    \* bounds
    faults, crashes

market == <<orders, volumes, pending>>
pool   == <<idpool, nextid>>
db     == <<funds, stored, unmatched>>
bounds == <<faults, crashes>>
vars   == <<status, online, accounts, market, pool, calls, db, bounds>>

Prices == Price \cup {-p : p \in Price}
Tid    == 0 .. MaxOrderId + Skip
STOCK_BALANCE_ID == 1

Sum(op(_), S) == SumFunctionOnSet([x \in S |-> op(x)], S)
Put(f, x, y)  == [z \in DOMAIN f \cup {x} |-> IF z = x THEN y ELSE f[z]]
Drop(f, x)    == [y \in DOMAIN f \ {x} |-> f[y]]

-----------------------------------------------------------------------------
(***************************************************************************)
(* A definition named Mut... is a plausible mistake in the definition that *)
(* follows it; the runs show that a property notices the mistake.          *)
(*                                                                         *)
(* Money.  A sold lot costs 102 of 100, the money of a bought lot 102 for  *)
(* 100, and a cancelled order 2% of what is left of it.                    *)
(***************************************************************************)
SellCost(v)    == 102 * v                                            \* (int)(1.02*100*v)
SellCheck(v)   == 102 * v - (IF v \in RoundedDown THEN 1 ELSE 0)     \* (int)(1.02*v*100)
MoneyTaxed(m)  == (102 * m) \div 100
CancelFee(amount) == (2 * amount) \div 100

\* GetFreeFund, GetMaxFund: what an account can spend, and could come to own.
FreeCash(a)  == a.cash - SellCost(Sum(LAMBDA o : o.volume, {o \in a.orders : o.price > 0}))
FreeMoney(a) ==
    a.money + MoneyTaxed(Sum(LAMBDA o : o.volume * o.price, {o \in a.orders : o.price < 0}))

MostCash(a)  == a.cash + 100 * Sum(LAMBDA o : o.volume, {o \in a.orders : o.price < 0})
MostMoney(a) == a.money + Sum(LAMBDA o : o.volume * o.price, {o \in a.orders : o.price > 0})

(***************************************************************************)
(* Rpcs.  waiting: gdeliveryd still waits for the answer res.              *)
(***************************************************************************)
NoAnswer == [retcode |-> "NONE"]
Call(op, u, arg) == [op |-> op, user |-> u, arg |-> arg, res |-> NoAnswer, waiting |-> TRUE]

Commission(o, ack) == Call("COMMISSION", o.user, [order |-> o, ack_volume |-> ack])
Balance(d) == Call("BALANCE", d.order.user,
                   [tid |-> d.order.tid, ack_volume |-> d.order.volume, ack_money |-> d.ack_money])
Cancel(o) == Call("CANCEL", o.user, [tid |-> o.tid, volume |-> o.volume])

Asked(i, op)         == calls[i].op = op /\ calls[i].res = NoAnswer
Answered(i, op, ret) == calls[i].op = op /\ calls[i].res.retcode \in ret
CallsOf(u) == {i \in DOMAIN calls : calls[i].waiting /\ calls[i].user = u /\ calls[i].op # "GETUSER"}

\* Lock succeeds on an account that exists and is not locked.
MutCanLockAlways(u) == u \in DOMAIN accounts

CanLock(u) == u \in DOMAIN accounts /\ ~accounts[u].locked
Lock(u)    == [accounts EXCEPT ![u].locked = TRUE]
NewAccount == [cash |-> 0, money |-> 0, locked |-> FALSE, orders |-> {}]
AccountOf(u) == IF u \in DOMAIN accounts THEN accounts[u] ELSE NewAccount

Market == [orders |-> orders, volumes |-> volumes, pending |-> pending,
           ack_volume |-> 0, ack_money |-> 0]
SetMarket(m) == orders' = m.orders /\ volumes' = m.volumes /\ pending' = m.pending
EmptyVolumes == [p \in Prices |-> 0]

\* IsTrading: deals about the order have not been settled and erased.
IsTrading(deals, tid) == \E i \in DOMAIN deals : deals[i].order.tid = tid

\* The exchange is open, has no orders yet, and all users have logged in.
Init ==
    /\ status = "TRADING" /\ online = User
    /\ accounts = [u \in User |-> [NewAccount EXCEPT !.cash = StartFunds[u].cash,
                                                     !.money = StartFunds[u].money]]
    /\ orders = <<>> /\ volumes = EmptyVolumes /\ pending = <<>>
    /\ idpool = {0, STOCK_BALANCE_ID} /\ nextid = STOCK_BALANCE_ID + Skip
    /\ calls = <<>>
    /\ funds = StartFunds /\ stored = [t \in {} |-> 0] /\ unmatched = 0
    /\ faults = 0 /\ crashes = 0

-----------------------------------------------------------------------------
(***************************************************************************)
(* PlaceOrder (StockCommission::Process).  The new id is taken before the  *)
(* account is locked, and is kept when that fails.                         *)
(***************************************************************************)
MutNextIdUnchecked == (nextid + 1) % MaxOrderId

NextId == LET free == {k \in 1 .. MaxOrderId : (nextid + k) % MaxOrderId \notin idpool}
          IN (nextid + Min(free)) % MaxOrderId

\* An account may place this order: it can pay for it, and could still hold all
\* its open orders may bring it.
Affordable(a, price, volume) ==
    IF price > 0
    THEN LET m == PriceMatching(Market, 0, price, volume)
         IN /\ FreeCash(a) >= SellCheck(volume)
            /\ MostMoney(a) <= MaxMoney - price * volume
            /\ MostMoney(a) <= MaxMoney - (volume - m.ack_volume) * price - m.ack_money
    ELSE /\ FreeMoney(a) >= -MoneyTaxed(price * volume)
         /\ MostCash(a) <= MaxCash - 100 * volume

MayPlace(u, price, volume) ==
    /\ status = "TRADING" /\ u \in online /\ u \in DOMAIN accounts
    /\ price * volume \in -MaxMoney .. MaxMoney
    /\ Cardinality(accounts[u].orders) < MaxOrders
    /\ Affordable(accounts[u], price, volume)
    /\ Cardinality(idpool) < MaxOrderId
    /\ NextId <= LastTid

ApplyTid ==
    /\ idpool' = idpool \cup {NextId}
    /\ nextid' = NextId

PlaceOrderBusy(u, price, volume) ==
    /\ MayPlace(u, price, volume) /\ ~CanLock(u)
    /\ ApplyTid
    /\ UNCHANGED <<status, online, accounts, market, calls, db, bounds>>

PlaceOrder(u, price, volume) ==
    LET tid  == NextId
        m    == PriceMatching(Market, tid, price, volume)
        mine == [tid |-> tid, user |-> u, price |-> price, volume |-> volume]
    IN /\ MayPlace(u, price, volume) /\ CanLock(u)
       /\ ApplyTid
       /\ accounts' = Lock(u)
       /\ SetMarket(IF m.ack_volume = 0 THEN m
                    ELSE [m EXCEPT !.pending =
                              Append(@, Deal(mine, m.ack_volume, tid, m.ack_money))])
       /\ calls' = Append(calls, Commission(mine, m.ack_volume))
       /\ UNCHANGED <<status, online, db, bounds>>

\* PreCancel.  The account is locked before the deals are looked at, and stays
\* locked when the order is being traded and is not cancelled.
PreCancel(u, tid) ==
    LET i == SelectInSeq(orders, LAMBDA o : o.tid = tid)
    IN /\ status = "TRADING" /\ u \in online
       /\ i # 0 /\ orders[i].volume > 0 /\ orders[i].user = u
       /\ CanLock(u)
       /\ accounts' = Lock(u)
       /\ IF IsTrading(pending, tid)
          THEN UNCHANGED <<market, calls>>
          ELSE /\ volumes' = ReduceVolume(volumes, orders[i].price, orders[i].volume)
               /\ orders' = [orders EXCEPT ![i].volume = 0]
               /\ calls' = Append(calls, Cancel(orders[i]))
               /\ UNCHANGED pending
       /\ UNCHANGED <<status, online, pool, db, bounds>>

\* PreTransaction: a withdrawal to or a deposit from the pocket of a role.
MutMayMoveAll(a, t) ==
    IF t.withdraw THEN a.cash >= t.cash /\ a.money >= t.money
    ELSE MostMoney(a) <= MaxMoney - t.money /\ MostCash(a) <= MaxCash - t.cash

MayMove(a, t) ==
    IF t.withdraw THEN FreeCash(a) >= t.cash /\ FreeMoney(a) >= t.money
    ELSE MostMoney(a) <= MaxMoney - t.money /\ MostCash(a) <= MaxCash - t.cash

PreTransaction(u, t) ==
    /\ status = "TRADING" /\ u \in online /\ CanLock(u)
    /\ MayMove(accounts[u], t)
    /\ accounts' = Lock(u)
    /\ calls' = Append(calls, Call("TRANSACTION", u, t))
    /\ UNCHANGED <<status, online, market, pool, db, bounds>>

(***************************************************************************)
(* Update, twice a second.  The first deal whose order is stored and whose *)
(* account can be locked is sent to the database, and the settled deals    *)
(* before it are erased (all of them when there is no such deal).  Then    *)
(* CheckTimeout cancels at most one order that is too old: old is its      *)
(* place in the book, or 0 when no order is.                               *)
(***************************************************************************)
Sendable == {i \in DOMAIN pending : pending[i].status = "COMMISSION_DONE"
                                    /\ CanLock(pending[i].order.user)}

\* The deals once the one at first is sent, or at 0 none.
Sending(first) ==
    LET sent    == IF first = 0 THEN pending
                   ELSE [pending EXCEPT ![first].status = "BALANCE_WAIT"]
        settled == {i \in DOMAIN pending : pending[i].status = "BALANCE_DONE"
                                           /\ (first = 0 \/ i < first)}
    IN Keep(sent, DOMAIN pending \ settled)

Update(old) == \E first \in {0} \cup DOMAIN pending :
    LET users == {pending[i].order.user : i \in DOMAIN pending \cap {first}}
        own   == {orders[i].user : i \in DOMAIN orders \cap {old}}
    IN /\ status = "TRADING"
       /\ IF Sendable = {} THEN first = 0
          ELSE first \in Sendable /\ \A i \in Sendable : first <= i
       /\ pending' = Sending(first)
       /\ IF old = 0 THEN UNCHANGED <<orders, volumes>>
          ELSE /\ orders[old].volume > 0 /\ ~IsTrading(pending', orders[old].tid)
               /\ CanLock(orders[old].user) /\ orders[old].user \notin users
               /\ orders' = [orders EXCEPT ![old].volume = 0]
               /\ volumes' = ReduceVolume(volumes, orders[old].price, orders[old].volume)
       /\ accounts' = [u \in DOMAIN accounts |->
                          [accounts[u] EXCEPT !.locked = @ \/ u \in users \cup own]]
       /\ calls' = calls \o (IF first = 0 THEN <<>> ELSE <<Balance(pending[first])>>)
                         \o (IF old = 0 THEN <<>> ELSE <<Cancel(orders[old])>>)
       /\ UNCHANGED <<status, online, pool, db, bounds>>

-----------------------------------------------------------------------------
(***************************************************************************)
(* gamedbd.  The answer to a process that is gone is dropped.              *)
(***************************************************************************)
Answer(i, res) ==
    calls' = IF calls[i].waiting THEN [calls EXCEPT ![i].res = res] ELSE RemoveAt(calls, i)

Failed          == [retcode |-> "EXCEPTION"]
Told(code, own) == [retcode |-> code, cash |-> own.cash, money |-> own.money]
gdeliveryd == <<status, online, accounts, market, pool>>

\* An order that is already stored is left alone.
ServeCommission(i) ==
    LET o     == calls[i].arg.order
        known == o.tid \in DOMAIN stored
    IN /\ Asked(i, "COMMISSION")
       /\ stored' = IF known THEN stored ELSE Put(stored, o.tid, o)
       /\ Answer(i, IF known /\ stored[o.tid].user # o.user THEN Failed
                    ELSE [retcode |-> "SUCCESS"])
       /\ UNCHANGED <<gdeliveryd, funds, unmatched, bounds>>

\* One half of a deal: funds, order and the balance row change together.
ServeBalance(i) ==
    LET c    == calls[i].arg
        u    == calls[i].user
        o    == stored[c.tid]
        n    == c.ack_volume
        left == o.volume - n
        own  == IF o.price > 0
                THEN [cash |-> funds[u].cash - SellCost(n), money |-> funds[u].money + c.ack_money]
                ELSE [cash |-> funds[u].cash + 100 * n,
                      money |-> funds[u].money + MoneyTaxed(c.ack_money)]
    IN /\ Asked(i, "BALANCE")
       /\ IF c.tid \in DOMAIN stored /\ o.user = u
          THEN /\ funds' = [funds EXCEPT ![u] = own]
               /\ stored' = IF left = 0 THEN Drop(stored, c.tid)
                            ELSE [stored EXCEPT ![c.tid].volume = left]
               /\ unmatched' = unmatched + (IF o.price > 0 THEN n ELSE -n)
               /\ Answer(i, [retcode |-> "SUCCESS", cash |-> own.cash, money |-> own.money,
                             volume_left |-> left])
          ELSE Answer(i, Failed) /\ UNCHANGED db
       /\ UNCHANGED <<gdeliveryd, bounds>>

\* The fee is taken from cash or money.  An order that is gone is NOTFOUND, with
\* an answer whose cash and money are 0.
ServeCancel(i) ==
    LET c   == calls[i].arg
        u   == calls[i].user
        o   == stored[c.tid]
        own == IF o.price > 0
               THEN [funds[u] EXCEPT !.cash = @ - CancelFee(100 * o.volume)]
               ELSE [funds[u] EXCEPT !.money = @ + CancelFee(o.price * o.volume)]
    IN /\ Asked(i, "CANCEL")
       /\ IF c.tid \notin DOMAIN stored
          THEN Answer(i, [retcode |-> "NOTFOUND", cash |-> 0, money |-> 0]) /\ UNCHANGED db
          ELSE IF o.user = u /\ own.cash >= 0 /\ own.money >= 0
          THEN /\ funds' = [funds EXCEPT ![u] = own]
               /\ stored' = Drop(stored, c.tid)
               /\ Answer(i, Told("SUCCESS", own))
               /\ UNCHANGED unmatched
          ELSE Answer(i, Failed) /\ UNCHANGED db
       /\ UNCHANGED <<gdeliveryd, bounds>>

ServeTransaction(i) ==
    LET t    == calls[i].arg
        u    == calls[i].user
        sign == IF t.withdraw THEN -1 ELSE 1
        own  == [cash |-> funds[u].cash + sign * t.cash, money |-> funds[u].money + sign * t.money]
    IN /\ Asked(i, "TRANSACTION")
       /\ IF t.withdraw /\ (own.cash < 0 \/ own.money < 0)
          THEN Answer(i, Failed) /\ UNCHANGED db
          ELSE /\ funds' = [funds EXCEPT ![u] = own]
               /\ Answer(i, Told("SUCCESS", own))
               /\ UNCHANGED <<stored, unmatched>>
       /\ UNCHANGED <<gdeliveryd, bounds>>

\* GetUser at login.  An account in debt is not let in.
ServeGetUser(i) ==
    LET own == funds[calls[i].user]
    IN /\ Asked(i, "GETUSER")
       /\ Answer(i, Told(IF own.cash < 0 \/ own.money < 0 THEN "EXCEPTION" ELSE "SUCCESS", own))
       /\ UNCHANGED <<gdeliveryd, db, bounds>>

\* The storage fails before anything of the request is written.
ServeFails(i) ==
    /\ calls[i].op \in FailingOps /\ calls[i].res = NoAnswer /\ faults < MaxFaults
    /\ Answer(i, Failed)
    /\ faults' = faults + 1
    /\ UNCHANGED <<gdeliveryd, db, crashes>>

-----------------------------------------------------------------------------
(***************************************************************************)
(* The answers in gdeliveryd.                                              *)
(***************************************************************************)
Received(i) == calls' = RemoveAt(calls, i)

\* DBStockCommission succeeded: the deals of the order may be settled, and what
\* was not matched joins the book.  The account may have been erased meanwhile.
MutConfirmedOwnOnly(tid) ==
    [k \in DOMAIN pending |->
        IF pending[k].order.tid = tid /\ pending[k].status = "COMMISSION_WAIT"
        THEN [pending[k] EXCEPT !.status = "COMMISSION_DONE"] ELSE pending[k]]

Confirmed(tid) ==
    [k \in DOMAIN pending |->
        IF pending[k].dealtid = tid /\ pending[k].status = "COMMISSION_WAIT"
        THEN [pending[k] EXCEPT !.status = "COMMISSION_DONE"] ELSE pending[k]]

Unmatched(c)       == c.order.volume - c.ack_volume

OnCommission(i) ==
    LET o    == calls[i].arg.order
        rest == Unmatched(calls[i].arg)
        a    == AccountOf(o.user)
    IN /\ Answered(i, "COMMISSION", {"SUCCESS"})
       /\ Received(i)
       /\ pending' = Confirmed(o.tid)
       /\ accounts' = Put(accounts, o.user,
                          [a EXCEPT !.locked = FALSE,
                                    !.orders = @ \cup {[tid |-> o.tid, price |-> o.price,
                                                        volume |-> o.volume]}])
       /\ IF rest = 0 THEN UNCHANGED <<orders, volumes>>
          ELSE /\ orders' = Insert(orders, [o EXCEPT !.volume = rest])
               /\ volumes' = AppendVolume(volumes, o.price, rest)
       /\ UNCHANGED <<status, online, pool, db, bounds>>

\* It failed: the deals of the order are undone.  The account stays locked and
\* the id stays taken.
Undone(tid) ==
    {k \in DOMAIN pending : pending[k].dealtid = tid /\ pending[k].order.tid # tid}

GivenBack(o, tid) ==
    Sum(LAMBDA k : pending[k].order.volume, {k \in Undone(tid) : pending[k].order.tid = o.tid})

MutRemainingOwn(tid) ==
    Keep(pending, {k \in DOMAIN pending : pending[k].dealtid # tid \/ pending[k].order.tid = tid})
MutRemainingAll(tid) == pending

Remaining(tid) == Keep(pending, {k \in DOMAIN pending : pending[k].dealtid # tid})

MutRestoredNothing(tid) == volumes
Restored(tid) ==
    [p \in Prices |->
        volumes[p] + Sum(LAMBDA k : GivenBack(orders[k], tid),
                         {k \in DOMAIN orders : orders[k].price = p})]

AbortCommission(i) ==
    LET tid == calls[i].arg.order.tid
    IN /\ Answered(i, "COMMISSION", {"EXCEPTION"})
       /\ Received(i)
       /\ orders' = [k \in DOMAIN orders |->
                        [orders[k] EXCEPT !.volume = @ + GivenBack(orders[k], tid)]]
       /\ volumes' = Restored(tid)
       /\ pending' = Remaining(tid)
       /\ UNCHANGED <<status, online, accounts, pool, db, bounds>>

\* DBStockBalance succeeded.
MutStillOpenAll(own) == own
StillOpen(own)       == {o \in own : o.volume > 0}

OnBalance(i) ==
    LET c    == calls[i].arg
        u    == calls[i].user
        res  == calls[i].res
        k    == SelectInSeq(pending, LAMBDA d : d.order.tid = c.tid /\ d.status = "BALANCE_WAIT")
        price == IF k = 0 THEN 0 ELSE pending[k].order.price
        mine == {o \in accounts[u].orders : o.tid = c.tid}
        kept == {[o EXCEPT !.volume = @ - c.ack_volume] : o \in mine}
        done == \E o \in kept : o.volume <= 0
        io   == FindOrder(orders, c.tid, price)
    IN /\ Answered(i, "BALANCE", {"SUCCESS"})
       /\ Received(i)
       /\ pending' = IF k = 0 THEN pending ELSE [pending EXCEPT ![k].status = "BALANCE_DONE"]
       /\ IF u \notin DOMAIN accounts THEN UNCHANGED <<accounts, orders, idpool>>
          ELSE /\ accounts' = [accounts EXCEPT ![u] =
                      [cash |-> res.cash, money |-> res.money, locked |-> FALSE,
                       orders |-> (@.orders \ mine) \cup StillOpen(kept)]]
               /\ orders' = IF done /\ io # 0 THEN RemoveAt(orders, io) ELSE orders
               /\ idpool' = IF done THEN idpool \ {c.tid} ELSE idpool
       /\ UNCHANGED <<status, online, volumes, nextid, db, bounds>>

\* It failed: the deal is left in BALANCE_WAIT and the account locked.
BalanceFailed(i) ==
    /\ Answered(i, "BALANCE", {"EXCEPTION"})
    /\ Received(i)
    /\ UNCHANGED <<status, online, accounts, market, pool, db, bounds>>

MutRefundedNothing(a, res) == a
Refunded(a, res) == [a EXCEPT !.cash = res.cash, !.money = res.money]

\* PostCancel, also for an order that gamedbd did not find.  The price of an order
\* the account does not have is an uninitialized value: any, or none of the book.
PostCancel(i) ==
    LET tid  == calls[i].arg.tid
        u    == calls[i].user
        res  == calls[i].res
        mine == {o \in accounts[u].orders : o.tid = tid}
    IN /\ Answered(i, "CANCEL", {"SUCCESS", "NOTFOUND"})
       /\ Received(i)
       /\ IF u \notin DOMAIN accounts THEN UNCHANGED <<accounts, orders, idpool>>
          ELSE /\ accounts' = [accounts EXCEPT ![u] =
                      [Refunded(accounts[u], res) EXCEPT !.locked = FALSE, !.orders = @ \ mine]]
               /\ \E price \in (IF mine = {} THEN Prices \cup {0} ELSE {o.price : o \in mine}) :
                     LET io == FindOrder(orders, tid, price)
                     IN orders' = IF io # 0 THEN RemoveAt(orders, io) ELSE orders
               /\ idpool' = idpool \ {tid}
       /\ UNCHANGED <<status, online, volumes, pending, nextid, db, bounds>>

CancelFailed(i) ==
    /\ Answered(i, "CANCEL", {"EXCEPTION"})
    /\ Received(i)
    /\ UNCHANGED <<status, online, accounts, market, pool, db, bounds>>

Informed(a, res) ==
    LET known == IF res.retcode = "SUCCESS" THEN res ELSE a
    IN [cash |-> known.cash, money |-> known.money, locked |-> FALSE, orders |-> a.orders]

PostTransaction(i) ==
    LET u   == calls[i].user
        res == calls[i].res
    IN /\ Answered(i, "TRANSACTION", {"SUCCESS", "EXCEPTION"})
       /\ Received(i)
       /\ accounts' = IF u \notin DOMAIN accounts THEN accounts
                      ELSE [accounts EXCEPT ![u] = Informed(@, res)]
       /\ UNCHANGED <<status, online, market, pool, db, bounds>>

\* An Rpc times out: the request was lost if gamedbd has not executed it, else the
\* answer was.  Commissions and cancels are sent again, the others given up.
RpcTimesOut(i) ==
    /\ calls[i].op \in FailingOps /\ calls[i].waiting /\ faults < MaxFaults
    /\ calls' = IF calls[i].op \in {"COMMISSION", "CANCEL"}
                THEN [calls EXCEPT ![i].res = NoAnswer] ELSE RemoveAt(calls, i)
    /\ faults' = faults + 1
    /\ UNCHANGED <<gdeliveryd, db, crashes>>

-----------------------------------------------------------------------------
(***************************************************************************)
(* A lock is broken when it is 1200 s old; that is long after the Rpc it   *)
(* was taken for has been answered or has timed out.  (Bound: gamedbd does *)
(* not leave an Rpc that is sent again unanswered for that long.)          *)
(***************************************************************************)
LockExpires(u) ==
    /\ u \in DOMAIN accounts /\ accounts[u].locked /\ CallsOf(u) = {}
    /\ accounts' = [accounts EXCEPT ![u].locked = FALSE]
    /\ UNCHANGED <<status, online, market, pool, calls, db, bounds>>

\* OnLogout erases an account without open orders, locked or not.
MutErasedAtOnce(u) == u \in DOMAIN accounts
Erased(u)          == u \in DOMAIN accounts /\ accounts[u].orders = {}

Logout(u) ==
    /\ u \in Travellers \cap online
    /\ online' = online \ {u}
    /\ accounts' = IF Erased(u) THEN Drop(accounts, u) ELSE accounts
    /\ UNCHANGED <<status, market, pool, calls, db, bounds>>

Login(u) ==
    /\ u \in User \ online
    /\ ~\E i \in DOMAIN calls : calls[i].op = "GETUSER" /\ calls[i].user = u /\ calls[i].waiting
    /\ calls' = Append(calls, Call("GETUSER", u, NoAnswer))
    /\ UNCHANGED <<status, online, accounts, market, pool, db, bounds>>

\* OnLogin: the funds gamedbd read some time ago, in the account there is now.
OnLogin(i) ==
    LET u   == calls[i].user
        res == calls[i].res
    IN /\ Answered(i, "GETUSER", {"SUCCESS", "EXCEPTION"})
       /\ Received(i)
       /\ IF res.retcode = "SUCCESS"
          THEN /\ online' = online \cup {u}
               /\ accounts' = Put(accounts, u, [AccountOf(u) EXCEPT !.cash = res.cash,
                                                                    !.money = res.money])
          ELSE UNCHANGED <<online, accounts>>
       /\ UNCHANGED <<status, market, pool, db, bounds>>

\* gdeliveryd crashes.  A request gamedbd has not executed yet may still be.
Crash ==
    /\ crashes < MaxCrashes
    /\ \E late \in SUBSET {i \in DOMAIN calls : calls[i].res = NoAnswer /\ calls[i].op # "GETUSER"} :
          calls' = SetToSeq({[calls[i] EXCEPT !.waiting = FALSE] : i \in late})
    /\ status' = "INIT" /\ online' = {} /\ accounts' = [u \in {} |-> NewAccount]
    /\ orders' = <<>> /\ volumes' = EmptyVolumes /\ pending' = <<>>
    /\ idpool' = {0, STOCK_BALANCE_ID} /\ nextid' = STOCK_BALANCE_ID
    /\ crashes' = crashes + 1
    /\ UNCHANGED <<db, faults>>

\* The restarted process loads all orders (OnLoad) and opens the exchange.
Load ==
    LET rows  == {stored[t] : t \in DOMAIN stored}
        valid == {o \in rows : \A r \in rows : r.tid <= o.tid => r.volume > 0}
        book  == SetToSortSeq(valid, LAMBDA o, r : \/ o.price < r.price
                                                   \/ o.price = r.price /\ o.tid < r.tid)
        owners == {o.user : o \in valid}
        m == [Market EXCEPT
                 !.orders  = book,
                 !.volumes = [p \in Prices |-> Sum(LAMBDA o : o.volume, {o \in valid : o.price = p})]]
    IN /\ status = "INIT"
       /\ \A i \in DOMAIN calls : calls[i].waiting
       /\ SetMarket(AutoBalance(m, unmatched, MaxPrice))
       /\ accounts' = [u \in owners \cup DOMAIN accounts |->
              [AccountOf(u) EXCEPT !.orders = @ \cup
                  {[tid |-> o.tid, price |-> o.price, volume |-> o.volume] :
                      o \in {r \in valid : r.user = u}}]]
       /\ idpool' = idpool \cup {o.tid : o \in valid}
       /\ nextid' = Max({nextid} \cup {o.tid : o \in valid}) + Skip
       /\ status' = "TRADING"
       /\ UNCHANGED <<online, calls, db, bounds>>

-----------------------------------------------------------------------------
UserStep ==
    \/ \E u \in User, p \in Prices, v \in Volume : PlaceOrder(u, p, v) \/ PlaceOrderBusy(u, p, v)
    \/ \E u \in User, i \in DOMAIN orders : PreCancel(u, orders[i].tid)
    \/ \E u \in User, t \in Transfers : PreTransaction(u, t)
    \/ \E u \in User : Logout(u) \/ Login(u)

Serve(i) == \/ ServeCommission(i) \/ ServeBalance(i) \/ ServeCancel(i)
            \/ ServeTransaction(i) \/ ServeGetUser(i)

Receive(i) == \/ OnCommission(i) \/ AbortCommission(i) \/ OnBalance(i) \/ BalanceFailed(i)
              \/ PostCancel(i) \/ CancelFailed(i) \/ PostTransaction(i) \/ OnLogin(i)

Next ==
    \/ UserStep
    \/ \E old \in {0} \cup DOMAIN orders : Update(old)
    \/ \E i \in DOMAIN calls : Serve(i) \/ Receive(i) \/ ServeFails(i) \/ RpcTimesOut(i)
    \/ \E u \in User : LockExpires(u)
    \/ Crash \/ Load

Spec == Init /\ [][Next]_vars

\* The poll loop and the timer of gdeliveryd, and the worker threads of gamedbd, run
\* all the time; locks grow old.
FairSpec ==
    /\ Spec
    /\ WF_vars(Update(0))
    /\ WF_vars(\E i \in DOMAIN calls : Serve(i) \/ Receive(i))
    /\ \A u \in User : WF_vars(LockExpires(u))

-----------------------------------------------------------------------------
Orders   == [tid : Tid, user : User, price : Prices, volume : Nat]
OpenOrders == [tid : Tid, price : Prices, volume : Nat \ {0}]
Statuses == {"COMMISSION_WAIT", "COMMISSION_DONE", "BALANCE_WAIT", "BALANCE_DONE"}

\* Each variable has its type; in particular an account keeps no spent order, no
\* volume of the book goes below zero, and every id fits the pool.
TypeOK ==
    /\ status \in {"INIT", "TRADING"} /\ online \subseteq User
    /\ DOMAIN accounts \subseteq User
    /\ \A u \in DOMAIN accounts :
           accounts[u] \in [cash : Int, money : Int, locked : BOOLEAN, orders : SUBSET OpenOrders]
    /\ orders \in Seq(Orders) /\ volumes \in [Prices -> Nat]
    /\ pending \in Seq([order : Orders, dealtid : Tid, ack_money : Int, status : Statuses])
    /\ idpool \subseteq Tid /\ nextid \in Tid
    /\ \A i \in DOMAIN calls : calls[i].user \in User /\ calls[i].waiting \in BOOLEAN
    /\ funds \in [User -> [cash : Int, money : Int]]
    /\ \A t \in DOMAIN stored : stored[t] \in Orders /\ stored[t].volume > 0
    /\ unmatched \in Int /\ faults \in 0 .. MaxFaults /\ crashes \in 0 .. MaxCrashes

\* The deals that are not in the database yet, and the requests to put them there.
Unsent   == {i \in DOMAIN pending : pending[i].status \in {"COMMISSION_WAIT", "COMMISSION_DONE"}}
Sent(op) == {i \in DOMAIN calls : calls[i].op = op /\ calls[i].res = NoAnswer}

Dealt(t) ==
    Sum(LAMBDA i : pending[i].order.volume, {i \in Unsent : pending[i].order.tid = t})
    + Sum(LAMBDA i : calls[i].arg.ack_volume, {i \in Sent("BALANCE") : calls[i].arg.tid = t})

OnOffer(t) ==
    Sum(LAMBDA i : orders[i].volume, {i \in DOMAIN orders : orders[i].tid = t})
    + Sum(LAMBDA i : calls[i].arg.order.volume - calls[i].arg.ack_volume,
          {i \in DOMAIN calls : calls[i].op = "COMMISSION" /\ calls[i].arg.order.tid = t})

Cancelling(t) == Sum(LAMBDA i : calls[i].arg.volume, {i \in Sent("CANCEL") : calls[i].arg.tid = t})

\* The volume shown at each price is the volume of the orders at it, through
\* partial matches, undone deals, cancels and reloads.
VolumesAgree ==
    \A p \in Prices :
        volumes[p] = Sum(LAMBDA i : orders[i].volume, {i \in DOMAIN orders : orders[i].price = p})

\* Every lot of a stored order is accounted for in memory exactly once: on offer,
\* in one deal on its way to the database, or being cancelled.
NothingForgotten ==
    status = "TRADING" =>
        \A t \in DOMAIN stored : stored[t].volume = OnOffer(t) + Dealt(t) + Cancelling(t)

Half(sells, n) == IF sells THEN n ELSE -n

\* Both halves of each deal stay together: the lots the database has sold and not
\* bought are those of the halves under way, also after a crash between the halves.
BalanceCovered ==
    status = "TRADING" =>
        unmatched + Sum(LAMBDA i : Half(pending[i].order.price > 0, pending[i].order.volume), Unsent)
                  + Sum(LAMBDA i : Half(calls[i].arg.ack_money > 0, calls[i].arg.ack_volume),
                        Sent("BALANCE")) = 0

\* In the database nobody has open orders for more than he owns, tax included: no
\* series of orders, cancels, deals and withdrawals spends the same cash twice.
FundsCovered ==
    \A u \in User :
        LET own(sell) == {t \in DOMAIN stored : stored[t].user = u /\ (stored[t].price > 0) = sell}
        IN /\ funds[u].cash >= SellCost(Sum(LAMBDA t : stored[t].volume, own(TRUE)))
           /\ funds[u].money + MoneyTaxed(Sum(LAMBDA t : stored[t].price * stored[t].volume,
                                               own(FALSE))) >= 0

\* The funds and orders players are shown are those of the database whenever no
\* request about the account is under way.
AccountAgrees ==
    \A u \in DOMAIN accounts : CallsOf(u) = {} =>
        /\ accounts[u].cash = funds[u].cash /\ accounts[u].money = funds[u].money
        /\ accounts[u].orders = {[tid |-> t, price |-> stored[t].price, volume |-> stored[t].volume] :
                                    t \in {s \in DOMAIN stored : stored[s].user = u}}

\* At most one request about an account is under way, and meanwhile it is locked.
OneCallPerAccount ==
    \A u \in User :
        /\ Cardinality(CallsOf(u)) <= 1
        /\ CallsOf(u) # {} => u \in DOMAIN accounts /\ accounts[u].locked

\* The ids of stored orders, of the book, and of deals and commissions under way.
IdsInUse ==
    DOMAIN stored \cup {orders[i].tid : i \in DOMAIN orders}
    \cup {pending[i].order.tid : i \in Unsent}
    \cup {calls[i].arg.order.tid : i \in {k \in DOMAIN calls : calls[k].op = "COMMISSION"}}

\* An id in use is never given to another order, across wrap-arounds and restarts.
IdsHeld == status = "TRADING" => IdsInUse \subseteq idpool

\* When the answer to a cancel arrives the account still has the order: its price,
\* which PostCancel leaves uninitialized otherwise, is known.
CancelHasOrder ==
    \A i \in DOMAIN calls : calls[i].op = "CANCEL" /\ calls[i].waiting =>
        /\ calls[i].user \in DOMAIN accounts
        /\ \E o \in accounts[calls[i].user].orders : o.tid = calls[i].arg.tid

\* A restart repairs whatever lost answers to DBStockBalance left behind: after the
\* orders are loaded, both halves of every deal are covered and every lot is
\* accounted for again.
RestartRepairs == [][Load => BalanceCovered' /\ NothingForgotten']_vars

\* Once players stop sending requests every deal is settled on both sides.
DealsSettle ==
    <>[][~UserStep]_vars =>
        <>[](unmatched = 0 /\ \A i \in DOMAIN pending : pending[i].status = "BALANCE_DONE")

(***************************************************************************)
(* What the code says of itself and does not keep.                         *)
(***************************************************************************)
\* UnLock logs an error when the account is not locked: each answer finds the
\* account it is about locked, if there is one.
AnswersFindLock ==
    \A i \in DOMAIN calls :
        calls[i].waiting /\ calls[i].op # "GETUSER" /\ calls[i].user \in DOMAIN accounts =>
            accounts[calls[i].user].locked

================================================================================
