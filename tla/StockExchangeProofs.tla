-------------------------- MODULE StockExchangeProofs --------------------------
(***************************************************************************)
(* Two inductive invariants of the exchange.                               *)
(*                                                                         *)
(* Inv: the account lock excludes.  For any users, orders, failing Rpcs    *)
(* and crashes, at most one request about an account is under way, and     *)
(* meanwhile the account is locked.  A logout may erase a locked account,  *)
(* so the theorem is about users that stay.                                *)
(*                                                                         *)
(* ExactNow: where every lot, id and coin is, while nothing disturbs the   *)
(* exchange.  Seven invariants of StockExchange, those about lots, funds   *)
(* and ids, follow from it.  It is stated over the values of the           *)
(* variables, so that most lemmas are about one change of some values (a   *)
(* deal is sent, an order leaves the book, the funds of a user change),    *)
(* and an action is such changes one after the other.                      *)
(***************************************************************************)
EXTENDS StockExchange, AlgorithmLemmas

\* A value has the fields of an account, or of a request.  Only a request that
\* gdeliveryd waits for is answered, and a commission is about its user.
IsAccount(a) ==
    /\ a = [cash |-> a.cash, money |-> a.money, locked |-> a.locked, orders |-> a.orders]
    /\ a.locked \in BOOLEAN

IsCall(c) ==
    /\ c = [op |-> c.op, user |-> c.user, arg |-> c.arg, res |-> c.res, waiting |-> c.waiting]
    /\ c.waiting \in BOOLEAN
    /\ c.res # NoAnswer => c.waiting
    /\ c.op = "COMMISSION" => c.arg.order.user = c.user

\* A request for which an account was locked.
Busy(c) == c.waiting /\ c.op # "GETUSER"

CallsSound(cs) ==
    /\ cs \in Seq(Range(cs))
    /\ \A i \in DOMAIN cs : IsCall(cs[i])
    /\ \A i, j \in DOMAIN cs : Busy(cs[i]) /\ Busy(cs[j]) /\ cs[i].user = cs[j].user => i = j

AccountsSound(as) ==
    /\ as = [u \in DOMAIN as |-> as[u]]
    /\ \A u \in DOMAIN as : IsAccount(as[u])

Holds(cs, as) == \A i \in DOMAIN cs : Busy(cs[i]) => cs[i].user \in DOMAIN as /\ as[cs[i].user].locked

Sound(cs, as) == CallsSound(cs) /\ AccountsSound(as) /\ Holds(cs, as)
Inv == Sound(calls, accounts)

-----------------------------------------------------------------------------
(***************************************************************************)
(* Sequences of requests.                                                  *)
(***************************************************************************)
\* With one request less, accounts need be locked for the others only.
LEMMA OneLess ==
    ASSUME NEW cs, CallsSound(cs), NEW i \in DOMAIN cs
    PROVE  /\ CallsSound(RemoveAt(cs, i))
           /\ \A k \in DOMAIN RemoveAt(cs, i) :
                  \E m \in DOMAIN cs \ {i} : RemoveAt(cs, i)[k] = cs[m]
  <1> DEFINE r == RemoveAt(cs, i)
             at(k) == IF k < i THEN k ELSE k + 1
  <1>1. DOMAIN cs = 1 .. Len(cs) /\ Len(cs) \in Nat /\ i \in 1 .. Len(cs)
    BY OwnSeq DEF CallsSound
  <1>2. r \in Seq(Range(cs)) /\ DOMAIN r = 1 .. Len(cs) - 1 /\ \A k \in 1 .. Len(cs) - 1 : r[k] = cs[at(k)]
    BY Removed DEF CallsSound
  <1>3. r \in Seq(Range(r))  BY <1>2, OwnSeq
  <1> HIDE DEF r
  <1>4. \A k \in DOMAIN r : at(k) \in DOMAIN cs \ {i} /\ r[k] = cs[at(k)]  BY <1>1, <1>2
  <1>5. \A k, m \in DOMAIN r : at(k) = at(m) => k = m  BY <1>1, <1>2
  <1> HIDE DEF at
  <1>6. CallsSound(r)
    <2>1. \A k \in DOMAIN r : IsCall(r[k])  BY <1>4 DEF CallsSound
    <2>2. ASSUME NEW k \in DOMAIN r, NEW m \in DOMAIN r, Busy(r[k]), Busy(r[m]), r[k].user = r[m].user
          PROVE  k = m
      BY <1>4, <1>5, <2>2 DEF CallsSound
    <2> QED  BY <1>3, <2>1, <2>2 DEF CallsSound
  <1> QED  BY <1>4, <1>6 DEF r

LEMMA RemoveKeeps ==
    ASSUME NEW cs, NEW as, Sound(cs, as), NEW i \in DOMAIN cs
    PROVE  Sound(RemoveAt(cs, i), as)
  <1>1. CallsSound(cs)  BY DEF Sound
  <1>2. /\ CallsSound(RemoveAt(cs, i))
        /\ \A k \in DOMAIN RemoveAt(cs, i) :
               \E m \in DOMAIN cs \ {i} : RemoveAt(cs, i)[k] = cs[m]
    BY <1>1, OneLess
  <1> QED  BY <1>2 DEF Sound, Holds

\* An appended request that is not busy needs no lock.
LEMMA Appended ==
    ASSUME NEW cs, CallsSound(cs), NEW c, IsCall(c),
           Busy(c) => \A i \in DOMAIN cs : Busy(cs[i]) => cs[i].user # c.user
    PROVE  /\ CallsSound(Append(cs, c))
           /\ \A k \in DOMAIN Append(cs, c) :
                  Append(cs, c)[k] = c \/ \E m \in DOMAIN cs : Append(cs, c)[k] = cs[m]
  <1> DEFINE S == Range(cs) \cup {c}
             r == Append(cs, c)
  <1>1. cs \in Seq(S)  BY SeqMonotonic DEF CallsSound
  <1>2. DOMAIN cs = 1 .. Len(cs) /\ Len(cs) \in Nat  BY <1>1, OwnSeq
  <1>3. /\ r \in Seq(S) /\ Len(r) = Len(cs) + 1
        /\ \A k \in 1 .. Len(cs) : r[k] = cs[k]
        /\ r[Len(cs) + 1] = c
    BY <1>1, AppendProperties
  <1>4. r \in Seq(Range(r)) /\ DOMAIN r = 1 .. Len(cs) + 1  BY <1>3, OwnSeq
  <1> HIDE DEF r, S
  <1>5. \A k \in DOMAIN r : \/ k = Len(cs) + 1 /\ r[k] = c
                            \/ k \in DOMAIN cs /\ r[k] = cs[k]
    BY <1>2, <1>3, <1>4
  <1>6. \A k \in DOMAIN r : IsCall(r[k])  BY <1>5 DEF CallsSound
  <1>7. ASSUME NEW k \in DOMAIN r, NEW m \in DOMAIN r, Busy(r[k]), Busy(r[m]), r[k].user = r[m].user
        PROVE  k = m
    BY <1>5, <1>7 DEF CallsSound
  <1>8. CallsSound(r)  BY <1>4, <1>6, <1>7 DEF CallsSound
  <1>9. \A k \in DOMAIN r : r[k] = c \/ \E m \in DOMAIN cs : r[k] = cs[m]  BY <1>5
  <1> QED  BY <1>8, <1>9 DEF r

\* An answered or sent-again request is the same request.
LEMMA ResSet ==
    ASSUME NEW cs, NEW as, Sound(cs, as), NEW i \in DOMAIN cs, cs[i].waiting, NEW res
    PROVE  Sound([cs EXCEPT ![i].res = res], as)
  <1> DEFINE c == [cs[i] EXCEPT !.res = res]
             r == [cs EXCEPT ![i] = c]
             S == Range(cs) \cup {c}
  <1>1. cs \in Seq(S)  BY SeqMonotonic DEF Sound, CallsSound
  <1>2. DOMAIN cs = 1 .. Len(cs) /\ Len(cs) \in Nat  BY <1>1, OwnSeq
  <1>3. r \in Seq(S) /\ Len(r) = Len(cs) /\ \A j \in 1 .. Len(cs) : r[j] = IF j = i THEN c ELSE cs[j]
    <2> HIDE DEF c
    <2>1. c \in S  OBVIOUS
    <2> QED  BY <1>1, <1>2, <2>1, ExceptSeq
  <1>4. r \in Seq(Range(r)) /\ DOMAIN r = DOMAIN cs  BY <1>2, <1>3, OwnSeq
  <1>5. IsCall(cs[i])  BY DEF Sound, CallsSound
  <1>6. IsCall(c) /\ c.user = cs[i].user /\ (Busy(c) <=> Busy(cs[i]))
    <2> DEFINE d == cs[i]
    <2>1. d = [op |-> d.op, user |-> d.user, arg |-> d.arg, res |-> d.res, waiting |-> d.waiting]
      BY <1>5 DEF IsCall
    <2>2. c = [d EXCEPT !.res = res]  OBVIOUS
    <2>3. d.waiting /\ (d.op = "COMMISSION" => d.arg.order.user = d.user)  BY <1>5 DEF IsCall
    <2> HIDE DEF c, d
    <2>4. c = [op |-> d.op, user |-> d.user, arg |-> d.arg, res |-> res, waiting |-> d.waiting]
      BY ONLY <2>1, <2>2
    <2>5. c.op = d.op /\ c.user = d.user /\ c.arg = d.arg /\ c.res = res /\ c.waiting = d.waiting
      BY ONLY <2>4
    <2>6. c = [op |-> c.op, user |-> c.user, arg |-> c.arg, res |-> c.res, waiting |-> c.waiting]
      BY ONLY <2>4
    <2>7. c.waiting \in BOOLEAN  BY <1>5, <2>5 DEF IsCall, d
    <2> QED  BY <2>3, <2>5, <2>6, <2>7 DEF IsCall, Busy, d
  <1> HIDE DEF c
  <1>7. \A j \in DOMAIN r : /\ IsCall(r[j]) /\ r[j].user = cs[j].user
                            /\ Busy(r[j]) <=> Busy(cs[j])
    BY <1>2, <1>3, <1>4, <1>6 DEF Sound, CallsSound
  <1> HIDE DEF r
  <1>8. CallsSound(r) /\ Holds(r, as)  BY <1>4, <1>7 DEF Sound, CallsSound, Holds
  <1>9. r = [cs EXCEPT ![i].res = res]  BY DEF r, c
  <1> QED  BY <1>8, <1>9 DEF Sound


-----------------------------------------------------------------------------
(***************************************************************************)
(* Accounts.                                                               *)
(***************************************************************************)
Free(cs, u) == \A i \in DOMAIN cs : Busy(cs[i]) => cs[i].user # u

\* An account that is not locked is free.
LEMMA UnlockedIsFree ==
    ASSUME NEW cs, NEW as, Sound(cs, as), NEW u \in DOMAIN as, ~as[u].locked
    PROVE  Free(cs, u)
  BY DEF Sound, Holds, Free

\* Accounts may change in every respect but the locks of those that are not free.
LEMMA AccountsSet ==
    ASSUME NEW cs, NEW as, Sound(cs, as), NEW bs, AccountsSound(bs),
           \A u \in DOMAIN as : as[u].locked => (u \in DOMAIN bs /\ bs[u].locked) \/ Free(cs, u)
    PROVE  Sound(cs, bs)
  <1>1. ASSUME NEW i \in DOMAIN cs, Busy(cs[i])
        PROVE  cs[i].user \in DOMAIN bs /\ bs[cs[i].user].locked
    <2>1. cs[i].user \in DOMAIN as /\ as[cs[i].user].locked  BY <1>1 DEF Sound, Holds
    <2>2. ~Free(cs, cs[i].user)  BY <1>1 DEF Free
    <2> QED  BY <2>1, <2>2
  <1> QED  BY <1>1 DEF Sound, Holds

\* A request may be sent about an account that has been locked while it was free.
LEMMA CallAppended ==
    ASSUME NEW cs, NEW as, Sound(cs, as), NEW c, IsCall(c),
           Busy(c) => c.user \in DOMAIN as /\ as[c.user].locked /\ Free(cs, c.user)
    PROVE  Sound(Append(cs, c), as)
  <1>1. CallsSound(cs) /\ AccountsSound(as) /\ Holds(cs, as)  BY DEF Sound
  <1>2. Busy(c) => \A i \in DOMAIN cs : Busy(cs[i]) => cs[i].user # c.user  BY DEF Free
  <1>3. /\ CallsSound(Append(cs, c))
        /\ \A k \in DOMAIN Append(cs, c) :
               Append(cs, c)[k] = c \/ \E m \in DOMAIN cs : Append(cs, c)[k] = cs[m]
    BY <1>1, <1>2, Appended
  <1>4. Holds(Append(cs, c), as)  BY <1>1, <1>3 DEF Holds
  <1> QED  BY <1>1, <1>3, <1>4 DEF Sound

\* A request that is gone leaves the account it was about free.
LEMMA RemovedIsFree ==
    ASSUME NEW cs, NEW as, Sound(cs, as), NEW i \in DOMAIN cs, Busy(cs[i])
    PROVE  Free(RemoveAt(cs, i), cs[i].user)
  <1>1. CallsSound(cs)  BY DEF Sound
  <1>2. \A k \in DOMAIN RemoveAt(cs, i) :
            \E m \in DOMAIN cs \ {i} : RemoveAt(cs, i)[k] = cs[m]
    BY <1>1, OneLess
  <1> QED  BY <1>1, <1>2 DEF Free, CallsSound

\* The fields of an account can be set.
LEMMA AccountFields ==
    ASSUME NEW a, IsAccount(a), NEW l \in BOOLEAN, NEW x, NEW y, NEW os
    PROVE  LET b == [cash |-> x, money |-> y, locked |-> l, orders |-> os]
           IN  IsAccount(b) /\ b.locked = l
  BY DEF IsAccount

LEMMA LockSet ==
    ASSUME NEW a, IsAccount(a), NEW l \in BOOLEAN
    PROVE  LET b == [a EXCEPT !.locked = l]
           IN  IsAccount(b) /\ b.locked = l
  <1> DEFINE b == [cash |-> a.cash, money |-> a.money, locked |-> l, orders |-> a.orders]
  <1>1. a = [cash |-> a.cash, money |-> a.money, locked |-> a.locked, orders |-> a.orders]
    BY DEF IsAccount
  <1>2. [a EXCEPT !.locked = l] = b  BY <1>1
  <1>3. IsAccount(b) /\ b.locked = l  BY AccountFields
  <1> QED  BY <1>2, <1>3

LEMMA CashSet ==
    ASSUME NEW a, IsAccount(a), NEW x
    PROVE  LET b == [a EXCEPT !.cash = x]
           IN  IsAccount(b) /\ b.locked = a.locked
  <1> DEFINE b == [cash |-> x, money |-> a.money, locked |-> a.locked, orders |-> a.orders]
  <1>1. a = [cash |-> a.cash, money |-> a.money, locked |-> a.locked, orders |-> a.orders]
        /\ a.locked \in BOOLEAN
    BY DEF IsAccount
  <1>2. [a EXCEPT !.cash = x] = b  BY <1>1
  <1>3. IsAccount(b) /\ b.locked = a.locked  BY <1>1, AccountFields
  <1> QED  BY <1>2, <1>3

LEMMA MoneySet ==
    ASSUME NEW a, IsAccount(a), NEW x
    PROVE  LET b == [a EXCEPT !.money = x]
           IN  IsAccount(b) /\ b.locked = a.locked
  <1> DEFINE b == [cash |-> a.cash, money |-> x, locked |-> a.locked, orders |-> a.orders]
  <1>1. a = [cash |-> a.cash, money |-> a.money, locked |-> a.locked, orders |-> a.orders]
        /\ a.locked \in BOOLEAN
    BY DEF IsAccount
  <1>2. [a EXCEPT !.money = x] = b  BY <1>1
  <1>3. IsAccount(b) /\ b.locked = a.locked  BY <1>1, AccountFields
  <1> QED  BY <1>2, <1>3

LEMMA OrdersSet ==
    ASSUME NEW a, IsAccount(a), NEW x
    PROVE  LET b == [a EXCEPT !.orders = x]
           IN  IsAccount(b) /\ b.locked = a.locked
  <1> DEFINE b == [cash |-> a.cash, money |-> a.money, locked |-> a.locked, orders |-> x]
  <1>1. a = [cash |-> a.cash, money |-> a.money, locked |-> a.locked, orders |-> a.orders]
        /\ a.locked \in BOOLEAN
    BY DEF IsAccount
  <1>2. [a EXCEPT !.orders = x] = b  BY <1>1
  <1>3. IsAccount(b) /\ b.locked = a.locked  BY <1>1, AccountFields
  <1> QED  BY <1>2, <1>3

LEMMA FundsSet ==
    ASSUME NEW a, IsAccount(a), NEW x, NEW y
    PROVE  LET b == [a EXCEPT !.cash = x, !.money = y]
           IN  IsAccount(b) /\ b.locked = a.locked
  <1> DEFINE c == [a EXCEPT !.cash = x]
             d == [c EXCEPT !.money = y]
  <1>1. IsAccount(c) /\ c.locked = a.locked  BY CashSet
  <1>2. [a EXCEPT !.cash = x, !.money = y] = d  OBVIOUS
  <1> HIDE DEF c
  <1>3. IsAccount(d) /\ d.locked = a.locked  BY <1>1, MoneySet
  <1> QED  BY <1>2, <1>3

LEMMA UnlockSet ==
    ASSUME NEW a, IsAccount(a), NEW x
    PROVE  IsAccount([a EXCEPT !.locked = FALSE, !.orders = x])
  <1> DEFINE c == [a EXCEPT !.locked = FALSE]
             d == [c EXCEPT !.orders = x]
  <1>1. IsAccount(c)  BY LockSet
  <1>2. [a EXCEPT !.locked = FALSE, !.orders = x] = d  OBVIOUS
  <1> HIDE DEF c
  <1>3. IsAccount(d)  BY <1>1, OrdersSet
  <1> QED  BY <1>2, <1>3

\* One account replaced.
LEMMA AccountReplaced ==
    ASSUME NEW as, AccountsSound(as), NEW u \in DOMAIN as, NEW a, IsAccount(a)
    PROVE  LET bs == [as EXCEPT ![u] = a]
           IN  /\ AccountsSound(bs) /\ DOMAIN bs = DOMAIN as
               /\ \A v \in DOMAIN bs : bs[v] = IF v = u THEN a ELSE as[v]
  BY DEF AccountsSound

-----------------------------------------------------------------------------
(***************************************************************************)
(* Requests of players: an account is locked, and a request about it sent. *)
(***************************************************************************)
LEMMA CallIsCall ==
    ASSUME NEW op, NEW u, NEW arg, op = "COMMISSION" => arg.order.user = u
    PROVE  LET c == Call(op, u, arg)
           IN  IsCall(c) /\ c.user = u /\ c.op = op /\ c.waiting
  BY DEF Call, IsCall

LEMMA LockKeeps ==
    ASSUME Inv, NEW u, CanLock(u)
    PROVE  /\ Sound(calls, Lock(u)) /\ Free(calls, u)
           /\ u \in DOMAIN Lock(u) /\ Lock(u)[u].locked
  <1> DEFINE b == [accounts[u] EXCEPT !.locked = TRUE]
             bs == [accounts EXCEPT ![u] = b]
  <1>1. AccountsSound(accounts) /\ u \in DOMAIN accounts /\ IsAccount(accounts[u])
    BY DEF Inv, Sound, AccountsSound, CanLock
  <1>2. IsAccount(b) /\ b.locked = TRUE  BY <1>1, LockSet
  <1>3. Lock(u) = bs  BY DEF Lock
  <1> HIDE DEF b
  <1>4. /\ AccountsSound(bs) /\ DOMAIN bs = DOMAIN accounts
        /\ \A v \in DOMAIN bs : bs[v] = IF v = u THEN b ELSE accounts[v]
    BY <1>1, <1>2, AccountReplaced
  <1> HIDE DEF bs
  <1>5. /\ AccountsSound(Lock(u)) /\ DOMAIN Lock(u) = DOMAIN accounts
        /\ \A v \in DOMAIN Lock(u) : Lock(u)[v] = IF v = u THEN b ELSE accounts[v]
    BY <1>3, <1>4
  <1>6. Free(calls, u)  BY UnlockedIsFree DEF Inv, CanLock
  <1>7. \A v \in DOMAIN accounts : accounts[v].locked => v \in DOMAIN Lock(u) /\ Lock(u)[v].locked
    BY <1>2, <1>5
  <1>8. Sound(calls, Lock(u))  BY <1>5, <1>7, AccountsSet DEF Inv
  <1> QED  BY <1>1, <1>2, <1>5, <1>6, <1>8

LEMMA LockAndCallKeeps ==
    ASSUME Inv, NEW u, CanLock(u), NEW c, IsCall(c), c.user = u
    PROVE  Sound(Append(calls, c), Lock(u))
  BY LockKeeps, CallAppended

LEMMA PlaceOrderKeeps ==
    ASSUME Inv, NEW u, NEW price, NEW volume, PlaceOrder(u, price, volume)
    PROVE  Inv'
  <1> DEFINE mine == [tid |-> NextId, user |-> u, price |-> price, volume |-> volume]
             n == PriceMatching(Market, NextId, price, volume).ack_volume
             c == Commission(mine, n)
  <1>1. CanLock(u) /\ accounts' = Lock(u) /\ calls' = Append(calls, c)
    BY DEF PlaceOrder
  <1>2. IsCall(c) /\ c.user = u
    <2>1. mine.user = u  OBVIOUS
    <2>2. c = Call("COMMISSION", u, [order |-> mine, ack_volume |-> n])  BY DEF Commission
    <2> HIDE DEF mine, n, c
    <2>3. [order |-> mine, ack_volume |-> n].order.user = u  BY <2>1
    <2> QED  BY <2>2, <2>3, CallIsCall
  <1> HIDE DEF c
  <1> QED  BY <1>1, <1>2, LockAndCallKeeps DEF Inv

LEMMA PreCancelKeeps ==
    ASSUME Inv, NEW u, NEW tid, PreCancel(u, tid)
    PROVE  Inv'
  <1>1. PICK i : /\ orders[i].user = u /\ CanLock(u) /\ accounts' = Lock(u)
                 /\ calls' = calls \/ calls' = Append(calls, Cancel(orders[i]))
    BY DEF PreCancel
  <1>2. IsCall(Cancel(orders[i])) /\ Cancel(orders[i]).user = u
    BY <1>1, CallIsCall DEF Cancel
  <1>3. Sound(calls, Lock(u))  BY <1>1, LockKeeps
  <1>4. Sound(Append(calls, Cancel(orders[i])), Lock(u))  BY <1>1, <1>2, LockAndCallKeeps
  <1> QED  BY <1>1, <1>3, <1>4 DEF Inv

LEMMA PreTransactionKeeps ==
    ASSUME Inv, NEW u, NEW t, PreTransaction(u, t)
    PROVE  Inv'
  <1> DEFINE c == Call("TRANSACTION", u, t)
  <1>1. CanLock(u) /\ accounts' = Lock(u) /\ calls' = Append(calls, c)  BY DEF PreTransaction
  <1>2. IsCall(c) /\ c.user = u  BY CallIsCall
  <1> HIDE DEF c
  <1> QED  BY <1>1, <1>2, LockAndCallKeeps DEF Inv

LEMMA LoginKeeps ==
    ASSUME Inv, NEW u, Login(u)
    PROVE  Inv'
  <1> DEFINE c == Call("GETUSER", u, NoAnswer)
  <1>1. accounts' = accounts /\ calls' = Append(calls, c)  BY DEF Login
  <1>2. IsCall(c) /\ ~Busy(c)  BY CallIsCall DEF Busy
  <1> HIDE DEF c
  <1> QED  BY <1>1, <1>2, CallAppended DEF Inv

(***************************************************************************)
(* The timer.                                                              *)
(***************************************************************************)
\* Some accounts locked, besides those that are.
LEMMA LockSomeKeeps ==
    ASSUME Inv, NEW L
    PROVE  LET as == [u \in DOMAIN accounts |-> [accounts[u] EXCEPT !.locked = @ \/ u \in L]]
           IN  /\ Sound(calls, as) /\ DOMAIN as = DOMAIN accounts
               /\ \A u \in DOMAIN as \cap L : as[u].locked
  <1> DEFINE as == [u \in DOMAIN accounts |-> [accounts[u] EXCEPT !.locked = @ \/ u \in L]]
  <1>1. ASSUME NEW u \in DOMAIN accounts
        PROVE  IsAccount(as[u]) /\ as[u].locked = (accounts[u].locked \/ u \in L)
    <2> DEFINE l == accounts[u].locked \/ u \in L
    <2>1. IsAccount(accounts[u]) /\ l \in BOOLEAN  BY DEF Inv, Sound, AccountsSound
    <2>2. as[u] = [accounts[u] EXCEPT !.locked = l]  OBVIOUS
    <2> HIDE DEF l, as
    <2> QED  BY <2>1, <2>2, LockSet DEF l
  <1>2. DOMAIN as = DOMAIN accounts /\ as = [u \in DOMAIN as |-> as[u]]  OBVIOUS
  <1> HIDE DEF as
  <1>3. AccountsSound(as)  BY <1>1, <1>2 DEF AccountsSound
  <1>4. \A u \in DOMAIN accounts : accounts[u].locked => u \in DOMAIN as /\ as[u].locked
    BY <1>1, <1>2
  <1>5. Sound(calls, as)  BY <1>3, <1>4, AccountsSet DEF Inv
  <1>6. \A u \in DOMAIN as \cap L : as[u].locked  BY <1>1, <1>2
  <1> QED  BY <1>2, <1>5, <1>6 DEF as

LEMMA UpdateKeeps ==
    ASSUME Inv, NEW old \in {0} \cup DOMAIN orders, Update(old)
    PROVE  Inv'
  <1>1. PICK first \in {0} \cup DOMAIN pending :
          LET users == {pending[i].order.user : i \in DOMAIN pending \cap {first}}
              own   == {orders[i].user : i \in DOMAIN orders \cap {old}}
          IN /\ IF Sendable = {} THEN first = 0
                ELSE first \in Sendable /\ \A i \in Sendable : first <= i
             /\ old # 0 => CanLock(orders[old].user) /\ orders[old].user \notin users
             /\ accounts' = [u \in DOMAIN accounts |->
                                [accounts[u] EXCEPT !.locked = @ \/ u \in users \cup own]]
             /\ calls' = calls \o (IF first = 0 THEN <<>> ELSE <<Balance(pending[first])>>)
                               \o (IF old = 0 THEN <<>> ELSE <<Cancel(orders[old])>>)
    BY Zenon DEF Update
  <1> DEFINE users == {pending[i].order.user : i \in DOMAIN pending \cap {first}}
             own   == {orders[i].user : i \in DOMAIN orders \cap {old}}
             as == [u \in DOMAIN accounts |->
                       [accounts[u] EXCEPT !.locked = @ \/ u \in users \cup own]]
             one == calls \o (IF first = 0 THEN <<>> ELSE <<Balance(pending[first])>>)
             two == one \o (IF old = 0 THEN <<>> ELSE <<Cancel(orders[old])>>)
  <1>2. /\ first # 0 => first \in Sendable
        /\ old # 0 => CanLock(orders[old].user) /\ orders[old].user \notin users
        /\ accounts' = as /\ calls' = two
    BY <1>1
  <1>3. /\ Sound(calls, as) /\ DOMAIN as = DOMAIN accounts
        /\ \A u \in DOMAIN as \cap (users \cup own) : as[u].locked
    <2> HIDE DEF users, own
    <2> QED  BY LockSomeKeeps, Zenon
  <1> HIDE DEF as
  <1>4. Sound(one, as) /\ \A u \in DOMAIN accounts : ~accounts[u].locked /\ u \notin users => Free(one, u)
    <2>1. CASE first = 0
      <3>1. one = calls
        <4>1. one = calls \o <<>>  BY <2>1
        <4>2. calls \in Seq(Range(calls))  BY DEF Inv, Sound, CallsSound
        <4> QED  BY <4>1, <4>2, ConcatEmptySeq
      <3> QED  BY <1>3, <3>1, UnlockedIsFree DEF Inv
    <2>2. CASE first # 0
      <3> DEFINE c == Balance(pending[first])
                 v == pending[first].order.user
      <3>1. CanLock(v) /\ v \in users  BY <1>2, <2>2 DEF Sendable
      <3>2. IsCall(c) /\ c.user = v  BY CallIsCall DEF Balance
      <3> HIDE DEF c, v, users, own
      <3>3. one = Append(calls, c)
        <4>1. one = calls \o <<c>>  BY <2>2 DEF c
        <4>2. calls \in Seq(Range(calls) \cup {c})  BY SeqMonotonic DEF Inv, Sound, CallsSound
        <4>3. c \in Range(calls) \cup {c}  OBVIOUS
        <4> HIDE DEF one
        <4> QED  BY <4>1, <4>2, <4>3, AppendIsConcat
      <3> HIDE DEF one
      <3>4. Free(calls, v) /\ v \in DOMAIN as /\ as[v].locked
        BY <1>3, <3>1, UnlockedIsFree DEF Inv, CanLock
      <3>5. Sound(one, as)  BY <1>3, <3>2, <3>3, <3>4, CallAppended
      <3>6. ASSUME NEW u \in DOMAIN accounts, ~accounts[u].locked, u \notin users
            PROVE  Free(one, u)
        <4>1. Free(calls, u)  BY <3>6, UnlockedIsFree DEF Inv
        <4>2. \A k \in DOMAIN one : one[k] = c \/ \E m \in DOMAIN calls : one[k] = calls[m]
          <5>1. CallsSound(calls) /\ (\A i \in DOMAIN calls : Busy(calls[i]) => calls[i].user # c.user)
            BY <3>2, <3>4 DEF Inv, Sound, Free
          <5> QED  BY <3>2, <3>3, <5>1, Appended
        <4> QED  BY <3>1, <3>2, <3>6, <4>1, <4>2 DEF Free
      <3> QED  BY <3>5, <3>6
    <2> QED  BY <2>1, <2>2
  <1> HIDE DEF one, users
  <1>5. Sound(two, as)
    <2>1. CASE old = 0
      <3>1. two = one \o <<>>  BY <2>1
      <3>2. one \in Seq(Range(one))  BY <1>4 DEF Sound, CallsSound
      <3> HIDE DEF two
      <3>3. two = one  BY <3>1, <3>2, ConcatEmptySeq
      <3> QED  BY <1>4, <3>3
    <2>2. CASE old # 0
      <3> DEFINE c == Cancel(orders[old])
                 v == orders[old].user
      <3>1. CanLock(v) /\ v \notin users  BY <1>2, <2>2
      <3>2. IsCall(c) /\ c.user = v  BY CallIsCall DEF Cancel
      <3>3. v \in DOMAIN as /\ as[v].locked
        <4>1. v \in own  BY <2>2
        <4> HIDE DEF own, v
        <4> QED  BY <1>3, <3>1, <4>1 DEF CanLock
      <3> HIDE DEF c, v
      <3>4. two = Append(one, c)
        <4>1. two = one \o <<c>>  BY <2>2 DEF c
        <4>2. one \in Seq(Range(one) \cup {c})  BY <1>4, SeqMonotonic DEF Sound, CallsSound
        <4>3. c \in Range(one) \cup {c}  OBVIOUS
        <4> HIDE DEF two
        <4> QED  BY <4>1, <4>2, <4>3, AppendIsConcat
      <3> HIDE DEF two
      <3>5. Free(one, v)  BY <1>4, <3>1 DEF CanLock
      <3> QED  BY <1>4, <3>2, <3>3, <3>4, <3>5, CallAppended
    <2> QED  BY <2>1, <2>2
  <1> QED  BY <1>2, <1>5 DEF Inv

LEMMA LockExpiresKeeps ==
    ASSUME Inv, NEW u, LockExpires(u)
    PROVE  Inv'
  <1> DEFINE b == [accounts[u] EXCEPT !.locked = FALSE]
             bs == [accounts EXCEPT ![u] = b]
  <1>1. AccountsSound(accounts) /\ u \in DOMAIN accounts /\ IsAccount(accounts[u])
    BY DEF Inv, Sound, AccountsSound, LockExpires
  <1>2. IsAccount(b)  BY <1>1, LockSet
  <1>3. accounts' = bs /\ calls' = calls  BY DEF LockExpires
  <1> HIDE DEF b
  <1>4. /\ AccountsSound(bs) /\ DOMAIN bs = DOMAIN accounts
        /\ \A v \in DOMAIN bs : bs[v] = IF v = u THEN b ELSE accounts[v]
    BY <1>1, <1>2, AccountReplaced
  <1> HIDE DEF bs
  <1>5. Free(calls, u)  BY DEF LockExpires, CallsOf, Free, Busy
  <1>6. \A v \in DOMAIN accounts : accounts[v].locked => (v \in DOMAIN bs /\ bs[v].locked) \/ Free(calls, v)
    BY <1>4, <1>5
  <1> QED  BY <1>3, <1>4, <1>6, AccountsSet DEF Inv

-----------------------------------------------------------------------------
(***************************************************************************)
(* gamedbd, and the answers.                                               *)
(***************************************************************************)
LEMMA AnswerKeeps ==
    ASSUME Inv, NEW i \in DOMAIN calls, NEW res, Answer(i, res), accounts' = accounts
    PROVE  Inv'
  <1>1. CASE calls[i].waiting
    <2>1. calls' = [calls EXCEPT ![i].res = res]  BY <1>1 DEF Answer
    <2> QED  BY <1>1, <2>1, ResSet DEF Inv
  <1>2. CASE ~calls[i].waiting
    <2>1. calls' = RemoveAt(calls, i)  BY <1>2 DEF Answer
    <2> QED  BY <2>1, RemoveKeeps DEF Inv
  <1> QED  BY <1>1, <1>2

LEMMA ServeKeeps ==
    ASSUME Inv, NEW i \in DOMAIN calls, Serve(i) \/ ServeFails(i)
    PROVE  Inv'
  <1>1. accounts' = accounts
    <2>1. CASE ServeCommission(i)  BY <2>1 DEF ServeCommission, gdeliveryd
    <2>2. CASE ServeBalance(i)  BY <2>2 DEF ServeBalance, gdeliveryd
    <2>3. CASE ServeCancel(i)  BY <2>3 DEF ServeCancel, gdeliveryd
    <2>4. CASE ServeTransaction(i)  BY <2>4 DEF ServeTransaction, gdeliveryd
    <2>5. CASE ServeGetUser(i)  BY <2>5 DEF ServeGetUser, gdeliveryd
    <2>6. CASE ServeFails(i)  BY <2>6 DEF ServeFails, gdeliveryd
    <2> QED  BY <2>1, <2>2, <2>3, <2>4, <2>5, <2>6 DEF Serve
  <1>2. \E res : Answer(i, res)
    <2>1. CASE ServeCommission(i)  BY <2>1, Zenon DEF ServeCommission
    <2>2. CASE ServeBalance(i)  BY <2>2, Zenon DEF ServeBalance
    <2>3. CASE ServeCancel(i)  BY <2>3, Zenon DEF ServeCancel
    <2>4. CASE ServeTransaction(i)  BY <2>4, Zenon DEF ServeTransaction
    <2>5. CASE ServeGetUser(i)  BY <2>5, Zenon DEF ServeGetUser
    <2>6. CASE ServeFails(i)  BY <2>6, Zenon DEF ServeFails
    <2> QED  BY <2>1, <2>2, <2>3, <2>4, <2>5, <2>6 DEF Serve
  <1> QED  BY <1>1, <1>2, AnswerKeeps

\* An answer was waited for.
LEMMA AnsweredWaits ==
    ASSUME Inv, NEW i \in DOMAIN calls, NEW op, NEW ret, Answered(i, op, ret), "NONE" \notin ret
    PROVE  calls[i].waiting /\ calls[i].op = op /\ (op # "GETUSER" => Busy(calls[i]))
  <1>1. IsCall(calls[i])  BY DEF Inv, Sound, CallsSound
  <1>2. calls[i].res # NoAnswer  BY DEF Answered, NoAnswer
  <1> QED  BY <1>1, <1>2 DEF IsCall, Busy, Answered

\* When a request has been answered its account may be unlocked, and changed.
LEMMA AnswerReceived ==
    ASSUME Inv, NEW i \in DOMAIN calls, Busy(calls[i]), Received(i), AccountsSound(accounts'),
           \A u \in DOMAIN accounts \ {calls[i].user} :
               u \in DOMAIN accounts' /\ accounts'[u] = accounts[u]
    PROVE  Inv'
  <1> DEFINE cs == RemoveAt(calls, i)
             bs == accounts'
  <1>1. Sound(cs, accounts) /\ Free(cs, calls[i].user)
    BY RemoveKeeps, RemovedIsFree DEF Inv
  <1> HIDE DEF cs
  <1>2. \A u \in DOMAIN accounts : accounts[u].locked => (u \in DOMAIN bs /\ bs[u].locked) \/ Free(cs, u)
    BY <1>1
  <1>3. AccountsSound(bs)  OBVIOUS
  <1> HIDE DEF bs
  <1>4. Sound(cs, bs)  BY <1>1, <1>2, <1>3, AccountsSet
  <1> QED  BY <1>4 DEF Inv, Received, cs, bs

\* No answer to a request for which nothing is changed.
LEMMA AnswerDropped ==
    ASSUME Inv, NEW i \in DOMAIN calls, Received(i), accounts' = accounts
    PROVE  Inv'
  BY RemoveKeeps DEF Inv, Received

LEMMA AccountOfSound ==
    ASSUME Inv, NEW u
    PROVE  IsAccount(AccountOf(u)) /\ (u \in DOMAIN accounts => AccountOf(u) = accounts[u])
  <1>1. IsAccount(NewAccount)  BY DEF IsAccount, NewAccount
  <1> QED  BY <1>1 DEF AccountOf, Inv, Sound, AccountsSound

\* An account may be entered as well.
LEMMA EnteredKeeps ==
    ASSUME Inv, NEW i \in DOMAIN calls, Busy(calls[i]), Received(i),
           NEW x, IsAccount(x), accounts' = Put(accounts, calls[i].user, x)
    PROVE  Inv'
  <1>1. AccountsSound(accounts)  BY DEF Inv, Sound
  <1> DEFINE u == calls[i].user
             bs == Put(accounts, u, x)
  <1>2. /\ AccountsSound(bs)
        /\ \A v \in DOMAIN accounts \ {u} : v \in DOMAIN bs /\ bs[v] = accounts[v]
    <2> HIDE DEF u
    <2> QED  BY <1>1 DEF AccountsSound, Put
  <1> HIDE DEF u, bs
  <1>3. accounts' = bs  BY DEF bs, u
  <1>4. /\ AccountsSound(accounts')
        /\ \A v \in DOMAIN accounts \ {calls[i].user} :
               v \in DOMAIN accounts' /\ accounts'[v] = accounts[v]
    BY <1>2, <1>3 DEF u
  <1> QED  BY <1>4, AnswerReceived

LEMMA OnCommissionKeeps ==
    ASSUME Inv, NEW i \in DOMAIN calls, OnCommission(i)
    PROVE  Inv'
  <1> DEFINE o == calls[i].arg.order
             a == AccountOf(o.user)
             x == [a EXCEPT !.locked = FALSE,
                            !.orders = @ \cup {[tid |-> o.tid, price |-> o.price,
                                                volume |-> o.volume]}]
  <1>1. Received(i) /\ accounts' = Put(accounts, o.user, x)  BY Zenon DEF OnCommission
  <1>2. Busy(calls[i]) /\ calls[i].user = o.user
    <2>1. Answered(i, "COMMISSION", {"SUCCESS"})  BY DEF OnCommission
    <2>2. IsCall(calls[i])  BY DEF Inv, Sound, CallsSound
    <2> QED  BY <2>1, <2>2, AnsweredWaits DEF IsCall
  <1>3. IsAccount(a)  BY AccountOfSound
  <1> HIDE DEF a
  <1>4. IsAccount(x)
    <2> DEFINE os == a.orders \cup {[tid |-> o.tid, price |-> o.price, volume |-> o.volume]}
    <2>1. x = [a EXCEPT !.locked = FALSE, !.orders = os]  OBVIOUS
    <2> HIDE DEF os, x
    <2> QED  BY <1>3, <2>1, UnlockSet
  <1> HIDE DEF x, o
  <1> QED  BY <1>1, <1>2, <1>4, EnteredKeeps

\* The account of an answered request gets a new value, unlocked.
LEMMA ReplacedKeeps ==
    ASSUME Inv, NEW i \in DOMAIN calls, Busy(calls[i]), Received(i),
           calls[i].user \in DOMAIN accounts, NEW x, IsAccount(x),
           accounts' = [accounts EXCEPT ![calls[i].user] = x]
    PROVE  Inv'
  <1> DEFINE u == calls[i].user
             bs == [accounts EXCEPT ![u] = x]
  <1>1. AccountsSound(accounts)  BY DEF Inv, Sound
  <1> HIDE DEF u
  <1>2. u \in DOMAIN accounts /\ accounts' = bs  BY DEF u
  <1>3. /\ AccountsSound(bs) /\ DOMAIN bs = DOMAIN accounts
        /\ \A v \in DOMAIN bs : bs[v] = IF v = u THEN x ELSE accounts[v]
    BY <1>1, <1>2, AccountReplaced
  <1> HIDE DEF bs
  <1>4. /\ AccountsSound(accounts')
        /\ \A v \in DOMAIN accounts \ {calls[i].user} :
               v \in DOMAIN accounts' /\ accounts'[v] = accounts[v]
    BY <1>2, <1>3 DEF u
  <1> QED  BY <1>4, AnswerReceived

LEMMA OnBalanceKeeps ==
    ASSUME Inv, NEW i \in DOMAIN calls, OnBalance(i)
    PROVE  Inv'
  <1> DEFINE u == calls[i].user
  <1>1. Received(i) /\ Busy(calls[i])
    <2>1. Received(i) /\ Answered(i, "BALANCE", {"SUCCESS"})  BY DEF OnBalance
    <2> QED  BY <2>1, AnsweredWaits
  <1>2. CASE u \notin DOMAIN accounts
    <2>1. accounts' = accounts  BY <1>2, Zenon DEF OnBalance
    <2> QED  BY <1>1, <2>1, AnswerDropped
  <1>3. CASE u \in DOMAIN accounts
    <2>1. PICK os : accounts' = [accounts EXCEPT ![u] =
                        [cash |-> calls[i].res.cash, money |-> calls[i].res.money,
                         locked |-> FALSE, orders |-> os]]
      <3>1. \E os : accounts' = [accounts EXCEPT ![u] =
                        [cash |-> calls[i].res.cash, money |-> calls[i].res.money,
                         locked |-> FALSE, orders |-> os]]
        BY <1>3, Zenon DEF OnBalance
      <3> QED  BY <3>1
    <2> DEFINE x == [cash |-> calls[i].res.cash, money |-> calls[i].res.money,
                     locked |-> FALSE, orders |-> os]
    <2>2. IsAccount(x)  BY DEF IsAccount
    <2>3. accounts' = [accounts EXCEPT ![u] = x]  BY <2>1
    <2> HIDE DEF x
    <2> QED  BY <1>1, <1>3, <2>2, <2>3, ReplacedKeeps
  <1> QED  BY <1>2, <1>3

LEMMA PostCancelKeeps ==
    ASSUME Inv, NEW i \in DOMAIN calls, PostCancel(i)
    PROVE  Inv'
  <1> DEFINE u == calls[i].user
  <1>1. Received(i) /\ Busy(calls[i])
    <2>1. Received(i) /\ Answered(i, "CANCEL", {"SUCCESS", "NOTFOUND"})  BY DEF PostCancel
    <2> QED  BY <2>1, AnsweredWaits
  <1>2. CASE u \notin DOMAIN accounts
    <2>1. accounts' = accounts  BY <1>2, Zenon DEF PostCancel
    <2> QED  BY <1>1, <2>1, AnswerDropped
  <1>3. CASE u \in DOMAIN accounts
    <2> DEFINE a == accounts[u]
               res == calls[i].res
               mine == {o \in a.orders : o.tid = calls[i].arg.tid}
               r == Refunded(a, res)
               x == [r EXCEPT !.locked = FALSE, !.orders = @ \ mine]
    <2>1. accounts' = [accounts EXCEPT ![u] = x]  BY <1>3, Zenon DEF PostCancel
    <2>2. IsAccount(a)  BY <1>3 DEF Inv, Sound, AccountsSound
    <2> HIDE DEF a, res, mine
    <2>3. IsAccount(r)  BY <2>2, FundsSet DEF Refunded
    <2>4. IsAccount(x)
      <3> DEFINE os == r.orders \ mine
      <3> HIDE DEF r
      <3>1. x = [r EXCEPT !.locked = FALSE, !.orders = os]  OBVIOUS
      <3> HIDE DEF os, x
      <3> QED  BY <2>3, <3>1, UnlockSet
    <2> HIDE DEF x
    <2> QED  BY <1>1, <1>3, <2>1, <2>4, ReplacedKeeps
  <1> QED  BY <1>2, <1>3

LEMMA PostTransactionKeeps ==
    ASSUME Inv, NEW i \in DOMAIN calls, PostTransaction(i)
    PROVE  Inv'
  <1> DEFINE u == calls[i].user
  <1>1. Received(i) /\ Busy(calls[i])
    <2>1. Received(i) /\ Answered(i, "TRANSACTION", {"SUCCESS", "EXCEPTION"})  BY DEF PostTransaction
    <2> QED  BY <2>1, AnsweredWaits
  <1>2. CASE u \notin DOMAIN accounts
    <2>1. accounts' = accounts  BY <1>2, Zenon DEF PostTransaction
    <2> QED  BY <1>1, <2>1, AnswerDropped
  <1>3. CASE u \in DOMAIN accounts
    <2> DEFINE x == Informed(accounts[u], calls[i].res)
    <2>1. accounts' = [accounts EXCEPT ![u] = x]  BY <1>3 DEF PostTransaction
    <2>2. IsAccount(x)  BY DEF Informed, IsAccount
    <2> HIDE DEF x
    <2> QED  BY <1>1, <1>3, <2>1, <2>2, ReplacedKeeps
  <1> QED  BY <1>2, <1>3

LEMMA OnLoginKeeps ==
    ASSUME Inv, NEW i \in DOMAIN calls, OnLogin(i)
    PROVE  Inv'
  <1> DEFINE u == calls[i].user
             res == calls[i].res
             a == AccountOf(u)
             x == [a EXCEPT !.cash = res.cash, !.money = res.money]
  <1>1. Received(i) /\ (accounts' = accounts \/ accounts' = Put(accounts, u, x))
    BY Zenon DEF OnLogin
  <1>2. CASE accounts' = accounts
    BY <1>1, <1>2, AnswerDropped
  <1>3. CASE accounts' = Put(accounts, u, x)
    <2> DEFINE bs == Put(accounts, u, x)
               cs == RemoveAt(calls, i)
    <2>1. IsAccount(a) /\ (u \in DOMAIN accounts => a = accounts[u])  BY AccountOfSound
    <2>2. IsAccount(x) /\ x.locked = a.locked
      <3> DEFINE c == res.cash
                 m == res.money
                 y == [a EXCEPT !.cash = c, !.money = m]
      <3>1. x = y  OBVIOUS
      <3> HIDE DEF a, c, m, x
      <3>2. IsAccount(y) /\ y.locked = a.locked  BY <2>1, FundsSet, Zenon
      <3> QED  BY <3>1, <3>2
    <2> HIDE DEF x, a
    <2>3. AccountsSound(accounts) /\ Sound(cs, accounts)  BY RemoveKeeps DEF Inv, Sound
    <2>4. /\ AccountsSound(bs)
          /\ \A v \in DOMAIN accounts :
                 v \in DOMAIN bs /\ bs[v] = IF v = u THEN x ELSE accounts[v]
      <3> HIDE DEF u
      <3> QED  BY <2>2, <2>3 DEF AccountsSound, Put
    <2> HIDE DEF u, bs, cs
    <2>5. \A v \in DOMAIN accounts : accounts[v].locked => v \in DOMAIN bs /\ bs[v].locked
      BY <2>1, <2>2, <2>4
    <2>6. Sound(cs, bs)  BY <2>3, <2>4, <2>5, AccountsSet
    <2>7. calls' = cs /\ accounts' = bs  BY <1>1, <1>3 DEF Received, cs, bs
    <2> QED  BY <2>6, <2>7 DEF Inv
  <1> QED  BY <1>1, <1>2, <1>3

LEMMA ReceiveKeeps ==
    ASSUME Inv, NEW i \in DOMAIN calls, Receive(i)
    PROVE  Inv'
  <1>1. CASE OnCommission(i)  BY <1>1, OnCommissionKeeps
  <1>2. CASE AbortCommission(i)  BY <1>2, AnswerDropped DEF AbortCommission
  <1>3. CASE OnBalance(i)  BY <1>3, OnBalanceKeeps
  <1>4. CASE BalanceFailed(i)  BY <1>4, AnswerDropped DEF BalanceFailed
  <1>5. CASE PostCancel(i)  BY <1>5, PostCancelKeeps
  <1>6. CASE CancelFailed(i)  BY <1>6, AnswerDropped DEF CancelFailed
  <1>7. CASE PostTransaction(i)  BY <1>7, PostTransactionKeeps
  <1>8. CASE OnLogin(i)  BY <1>8, OnLoginKeeps
  <1> QED  BY <1>1, <1>2, <1>3, <1>4, <1>5, <1>6, <1>7, <1>8 DEF Receive

LEMMA RpcTimesOutKeeps ==
    ASSUME Inv, NEW i \in DOMAIN calls, RpcTimesOut(i)
    PROVE  Inv'
  <1>1. /\ accounts' = accounts /\ calls[i].waiting
        /\ calls' = [calls EXCEPT ![i].res = NoAnswer] \/ calls' = RemoveAt(calls, i)
    BY DEF RpcTimesOut, gdeliveryd
  <1>2. Sound([calls EXCEPT ![i].res = NoAnswer], accounts)  BY <1>1, ResSet DEF Inv
  <1>3. Sound(RemoveAt(calls, i), accounts)  BY RemoveKeeps DEF Inv
  <1> QED  BY <1>1, <1>2, <1>3 DEF Inv

-----------------------------------------------------------------------------
(***************************************************************************)
(* A crash, and the start after it.                                        *)
(***************************************************************************)
LEMMA SeqOfSet ==
    ASSUME NEW S, IsFiniteSet(S)
    PROVE  /\ SetToSeq(S) \in Seq(S)
           /\ \A k \in DOMAIN SetToSeq(S) : SetToSeq(S)[k] \in S
  <1> DEFINE n == Cardinality(S)
             Numbering == {f \in [1 .. n -> S] : IsInjective(f)}
  <1>1. n \in Nat /\ ExistsBijection(1 .. n, S)  BY FS_CardinalityType
  <1> HIDE DEF n
  <1>2. \E f \in [1 .. n -> S] : IsInjective(f)
    BY <1>1, Zenon DEF ExistsBijection, Bijection, Injection
  <1>3. SetToSeq(S) = CHOOSE f \in [1 .. n -> S] : IsInjective(f)  BY DEF SetToSeq, n
  <1> DEFINE s == SetToSeq(S)
  <1>4. s \in [1 .. n -> S]  BY <1>2, <1>3, Zenon
  <1> HIDE DEF s
  <1>5. s \in Seq(S)  BY <1>1, <1>4
  <1>6. \A k \in DOMAIN s : s[k] \in S  BY <1>4
  <1> QED  BY <1>5, <1>6 DEF s

LEMMA Unwaited ==
    ASSUME NEW c, IsCall(c), c.res = NoAnswer, NEW w \in BOOLEAN
    PROVE  LET d == [c EXCEPT !.waiting = w]
           IN  IsCall(d) /\ (~w => ~Busy(d))
  <1> DEFINE d == [op |-> c.op, user |-> c.user, arg |-> c.arg, res |-> c.res, waiting |-> w]
  <1>1. c = [op |-> c.op, user |-> c.user, arg |-> c.arg, res |-> c.res, waiting |-> c.waiting]
    BY DEF IsCall
  <1>2. [c EXCEPT !.waiting = w] = d  BY <1>1
  <1>3. IsCall(d) /\ (~w => ~Busy(d))  BY DEF IsCall, Busy
  <1> QED  BY <1>2, <1>3

LEMMA CrashKeeps ==
    ASSUME Inv, Crash
    PROVE  Inv'
  <1>1. PICK late \in SUBSET {i \in DOMAIN calls : calls[i].res = NoAnswer /\ calls[i].op # "GETUSER"} :
          calls' = SetToSeq({[calls[i] EXCEPT !.waiting = FALSE] : i \in late})
    BY DEF Crash
  <1> DEFINE S == {[calls[i] EXCEPT !.waiting = FALSE] : i \in late}
             s == SetToSeq(S)
  <1>2. IsFiniteSet(S)
    <2>1. DOMAIN calls = 1 .. Len(calls) /\ Len(calls) \in Nat
      BY OwnSeq DEF Inv, Sound, CallsSound
    <2>2. IsFiniteSet(late)
      <3>1. IsFiniteSet(1 .. Len(calls))  BY <2>1, FS_Interval
      <3>2. late \in SUBSET (1 .. Len(calls))  BY <2>1
      <3> QED  BY <3>1, <3>2, FS_Subset
    <2> DEFINE f == [i \in late |-> [calls[i] EXCEPT !.waiting = FALSE]]
    <2>3. f \in Surjection(late, S)  BY DEF Surjection
    <2> HIDE DEF f, S
    <2> QED  BY <2>2, <2>3, FS_Surjection
  <1>3. \A c \in S : IsCall(c) /\ ~Busy(c)
    <2> SUFFICES ASSUME NEW i \in late
                 PROVE  LET c == [calls[i] EXCEPT !.waiting = FALSE]
                        IN  IsCall(c) /\ ~Busy(c)
      OBVIOUS
    <2>1. IsCall(calls[i]) /\ calls[i].res = NoAnswer  BY DEF Inv, Sound, CallsSound
    <2> QED  BY <2>1, Unwaited
  <1> HIDE DEF S
  <1>4. s \in Seq(S) /\ \A k \in DOMAIN s : s[k] \in S  BY <1>2, SeqOfSet
  <1>5. s \in Seq(Range(s))  BY <1>4, OwnSeq
  <1> HIDE DEF s
  <1>6. CallsSound(s) /\ \A k \in DOMAIN s : ~Busy(s[k])
    BY <1>3, <1>4, <1>5 DEF CallsSound
  <1>7. calls' = s /\ accounts' = [u \in {} |-> NewAccount]  BY <1>1 DEF Crash, s, S
  <1>8. AccountsSound([u \in {} |-> NewAccount])  BY DEF AccountsSound
  <1> QED  BY <1>6, <1>7, <1>8 DEF Inv, Sound, Holds

LEMMA LoadKeeps ==
    ASSUME Inv, Load
    PROVE  Inv'
  <1>1. PICK owners, valid :
            accounts' = [u \in owners \cup DOMAIN accounts |->
              [AccountOf(u) EXCEPT !.orders = @ \cup
                  {[tid |-> o.tid, price |-> o.price, volume |-> o.volume] :
                      o \in {r \in valid : r.user = u}}]]
    BY Zenon DEF Load
  <1> DEFINE os(u) == AccountOf(u).orders \cup
                  {[tid |-> o.tid, price |-> o.price, volume |-> o.volume] :
                      o \in {r \in valid : r.user = u}}
             as == [u \in owners \cup DOMAIN accounts |-> [AccountOf(u) EXCEPT !.orders = os(u)]]
  <1>2. accounts' = as  BY <1>1
  <1> HIDE DEF os
  <1>3. ASSUME NEW u \in owners \cup DOMAIN accounts
        PROVE  IsAccount(as[u]) /\ as[u].locked = AccountOf(u).locked
    <2>1. IsAccount(AccountOf(u))  BY AccountOfSound
    <2>2. as[u] = [AccountOf(u) EXCEPT !.orders = os(u)]  OBVIOUS
    <2> HIDE DEF as
    <2> QED  BY <2>1, <2>2, OrdersSet
  <1>4. DOMAIN as = owners \cup DOMAIN accounts /\ as = [u \in DOMAIN as |-> as[u]]  OBVIOUS
  <1> HIDE DEF as
  <1>5. AccountsSound(as)  BY <1>3, <1>4 DEF AccountsSound
  <1>6. \A u \in DOMAIN accounts : accounts[u].locked => u \in DOMAIN as /\ as[u].locked
    BY <1>3, <1>4, AccountOfSound
  <1>7. Sound(calls, as)  BY <1>5, <1>6, AccountsSet DEF Inv
  <1>8. calls' = calls  BY DEF Load
  <1> QED  BY <1>2, <1>7, <1>8 DEF Inv

-----------------------------------------------------------------------------
LEMMA InitInv == Init => Inv
  <1> SUFFICES ASSUME Init
               PROVE  Inv
    OBVIOUS
  <1> DEFINE as == [u \in User |-> [NewAccount EXCEPT !.cash = StartFunds[u].cash,
                                                      !.money = StartFunds[u].money]]
  <1>1. accounts = as /\ calls = <<>>  BY DEF Init
  <1>2. ASSUME NEW u \in User
        PROVE  IsAccount(as[u])
    <2> DEFINE a == NewAccount
               c == StartFunds[u].cash
               m == StartFunds[u].money
    <2>1. IsAccount(a)  BY DEF IsAccount, NewAccount
    <2>2. as[u] = [a EXCEPT !.cash = c, !.money = m]  OBVIOUS
    <2> HIDE DEF a, c, m
    <2>3. IsAccount([a EXCEPT !.cash = c, !.money = m])  BY <2>1, FundsSet, Zenon
    <2> HIDE DEF as
    <2> QED  BY <2>2, <2>3
  <1>3. DOMAIN as = User /\ as = [u \in DOMAIN as |-> as[u]]  OBVIOUS
  <1> HIDE DEF as
  <1>4. AccountsSound(as)  BY <1>2, <1>3 DEF AccountsSound
  <1>5. CallsSound(<<>>) /\ Holds(<<>>, as)
    <2>1. <<>> \in Seq(Range(<<>>)) /\ DOMAIN <<>> = {}
      <3>1. <<>> \in Seq(Range(<<>>)) /\ Len(<<>>) = 0  BY EmptySeq
      <3>2. DOMAIN <<>> = 1 .. 0  BY <3>1, OwnSeq
      <3> QED  BY <3>1, <3>2
    <2> QED  BY <2>1 DEF CallsSound, Holds
  <1> QED  BY <1>1, <1>4, <1>5 DEF Inv, Sound

LEMMA NextKeepsInv ==
    ASSUME Travellers = {}, Inv, [Next]_vars
    PROVE  Inv'
  <1>1. CASE UserStep
    <2>1. ASSUME NEW u, NEW p, NEW v, PlaceOrder(u, p, v)
          PROVE  Inv'
      BY <2>1, PlaceOrderKeeps
    <2>2. ASSUME NEW u, NEW p, NEW v, PlaceOrderBusy(u, p, v)
          PROVE  Inv'
      BY <2>2 DEF PlaceOrderBusy, Inv
    <2>3. ASSUME NEW u, NEW tid, PreCancel(u, tid)
          PROVE  Inv'
      BY <2>3, PreCancelKeeps
    <2>4. ASSUME NEW u, NEW t, PreTransaction(u, t)
          PROVE  Inv'
      BY <2>4, PreTransactionKeeps
    <2>5. ASSUME NEW u, Logout(u)
          PROVE  FALSE
      BY <2>5 DEF Logout
    <2>6. ASSUME NEW u, Login(u)
          PROVE  Inv'
      BY <2>6, LoginKeeps
    <2> QED  BY <1>1, <2>1, <2>2, <2>3, <2>4, <2>5, <2>6 DEF UserStep
  <1>2. ASSUME NEW old \in {0} \cup DOMAIN orders, Update(old)
        PROVE  Inv'
    BY <1>2, UpdateKeeps
  <1>3. ASSUME NEW i \in DOMAIN calls, Serve(i) \/ Receive(i) \/ ServeFails(i) \/ RpcTimesOut(i)
        PROVE  Inv'
    BY <1>3, ServeKeeps, ReceiveKeeps, RpcTimesOutKeeps
  <1>4. ASSUME NEW u, LockExpires(u)
        PROVE  Inv'
    BY <1>4, LockExpiresKeeps
  <1>5. CASE Crash  BY <1>5, CrashKeeps
  <1>6. CASE Load  BY <1>6, LoadKeeps
  <1>7. CASE UNCHANGED vars  BY <1>7 DEF vars, Inv
  <1> QED  BY <1>1, <1>2, <1>3, <1>4, <1>5, <1>6, <1>7 DEF Next

LEMMA InvExcludes ==
    ASSUME Inv
    PROVE  OneCallPerAccount
  <1> SUFFICES ASSUME NEW u \in User
               PROVE  /\ Cardinality(CallsOf(u)) <= 1
                      /\ CallsOf(u) # {} => u \in DOMAIN accounts /\ accounts[u].locked
    BY DEF OneCallPerAccount
  <1>1. \A i \in CallsOf(u) : i \in DOMAIN calls /\ Busy(calls[i]) /\ calls[i].user = u
    BY DEF CallsOf, Busy
  <1>2. \A i, j \in CallsOf(u) : i = j  BY <1>1 DEF Inv, Sound, CallsSound
  <1>3. CASE CallsOf(u) = {}
    BY <1>3, FS_EmptySet
  <1>4. CASE CallsOf(u) # {}
    <2>1. PICK i : i \in CallsOf(u)  BY <1>4
    <2>2. CallsOf(u) = {i}  BY <1>2, <2>1
    <2>3. Cardinality({i}) = 1  BY FS_Singleton
    <2>4. u \in DOMAIN accounts /\ accounts[u].locked  BY <1>1, <2>1 DEF Inv, Sound, Holds
    <2> QED  BY <2>2, <2>3, <2>4
  <1> QED  BY <1>3, <1>4

\* Mutual exclusion by the account lock (LockAccount, UnLock): with any number of
\* users, orders, lost or refused Rpcs and crashes of gdeliveryd, at most one request
\* about an account is under way, and meanwhile the account is locked, as long as
\* nobody logs out.
THEOREM LockExcludes ==
    ASSUME Travellers = {}
    PROVE  Spec => []OneCallPerAccount
  <1>1. Init => Inv  BY InitInv
  <1>2. Inv /\ [Next]_vars => Inv'  BY NextKeepsInv
  <1>3. Inv => OneCallPerAccount  BY InvExcludes
  <1> QED  BY <1>1, <1>2, <1>3, PTL DEF Spec


-----------------------------------------------------------------------------
(***************************************************************************)
(* What holds while no user logs out, gdeliveryd does not crash and no     *)
(* commission is refused that was stored: where every lot, id and coin is. *)
(*                                                                         *)
(*   x[t]  whose order t is, and at what price                             *)
(*   H     the ids of the orders in the book                               *)
(*   b[t]  lots of order t in the book                                     *)
(*   d[t]  lots of order t in deals the database has not been told of      *)
(*   r[t]  lots of its row in the database, 0 when there is none           *)
(*   a[t]  lots of the order its user is shown, 0 when he is shown none    *)
(*   g[t]  lots the half of a deal on its way to the database sells        *)
(***************************************************************************)
Ord   == OrdersOf(Tid, User, Prices)
Dls   == DealsOf(Tid, User, Prices)
Whose == [user : User, price : Prices]

Of(x, o) == x[o.tid] = [user |-> o.user, price |-> o.price]

\* The book and the volumes shown.
BookIs(bk, x, H, b) ==
    /\ bk \in Seq(Ord) /\ TidsApart(bk) /\ H \subseteq Tid \ {0} /\ b \in [Tid -> Nat]
    /\ \A i \in DOMAIN bk : bk[i].tid \in H /\ Of(x, bk[i]) /\ bk[i].volume = b[bk[i].tid]
    /\ \A t \in H : \E i \in DOMAIN bk : bk[i].tid = t
    /\ \A t \in Tid \ H : b[t] = 0

VolumesAre(vo, bk) == vo \in [Prices -> Int] /\ \A p \in Prices : vo[p] = OfferedAt(bk, p, Ord)

\* The deals.  Who sells n lots at price p gets at least p * n, and who buys them,
\* at price -p, pays at most that; prices are multiples of 100.
IsUnsent(d) == d.status \in {"COMMISSION_WAIT", "COMMISSION_DONE"}
FairPay(p, n, a) == n > 0 /\ Multiple(a) /\ a >= p * n /\ (p < 0 => a < 0)
SoundDeal(d, x)  == d.order.tid # 0 /\ Of(x, d.order) /\ FairPay(d.order.price, d.order.volume, d.ack_money)

UnsentLots(t) == [e \in Dls |-> IF IsUnsent(e) /\ e.order.tid = t THEN e.order.volume ELSE 0]

DealsAre(pe, x, d) ==
    /\ pe \in Seq(Dls) /\ d \in [Tid -> Int]
    /\ \A k \in DOMAIN pe : pe[k].order.volume > 0
                            /\ (pe[k].status # "BALANCE_DONE" => SoundDeal(pe[k], x))
    /\ \A t \in Tid : d[t] = SumOver(UnsentLots(t), pe)

\* The rows of the database, and the orders of the accounts.
RowsAre(st, x, r) ==
    /\ r \in [Tid -> Nat] /\ r[0] = 0
    /\ st = [t \in {s \in Tid : r[s] > 0} |->
                [tid |-> t, user |-> x[t].user, price |-> x[t].price, volume |-> r[t]]]

OrderShown(x, a, t) == [tid |-> t, price |-> x[t].price, volume |-> a[t]]
Shown(x, a, u)      == {OrderShown(x, a, t) : t \in {s \in Tid : a[s] > 0 /\ x[s].user = u}}

AccountsAre(as, x, a) ==
    /\ a \in [Tid -> Nat] /\ a[0] = 0 /\ DOMAIN as = User
    /\ \A u \in User : as[u].cash \in Int /\ as[u].money \in Int
    /\ \A u \in User : as[u].orders = Shown(x, a, u)

\* The requests under way, and the order each is about.
TidOf(c) == IF c.op = "COMMISSION" THEN c.arg.order.tid
            ELSE IF c.op \in {"BALANCE", "CANCEL"} THEN c.arg.tid ELSE 0

CallIs(c, x) ==
    /\ c.waiting /\ c.user \in User
    /\ c.op \in {"COMMISSION", "BALANCE", "CANCEL", "TRANSACTION"}
    /\ c.op # "TRANSACTION" => TidOf(c) \in Tid \ {0} /\ x[TidOf(c)].user = c.user
    /\ c.op = "COMMISSION" =>
           /\ c.arg.order \in Ord /\ Of(x, c.arg.order)
           /\ c.arg.order.volume > 0 /\ c.arg.ack_volume \in 0 .. c.arg.order.volume
           /\ c.res = NoAnswer \/ c.res = [retcode |-> "SUCCESS"] \/ (FailingOps # {} /\ c.res = Failed)
    /\ c.op = "BALANCE" => FairPay(x[c.arg.tid].price, c.arg.ack_volume, c.arg.ack_money)
                           /\ c.arg.ack_volume \in Int
    /\ c.op = "TRANSACTION" => c.arg \in Transfers
    /\ c.op # "COMMISSION" => c.res = NoAnswer \/ c.res.retcode = "SUCCESS" \/ (c.op = "TRANSACTION" /\ c.res = Failed)

CallsAre(C, x) ==
    /\ \A c \in C : CallIs(c, x)
    /\ \A c, e \in C : c.user = e.user => c = e

\* The lots of the order a request is about.
Settling(c, H, b, d, r, a) ==
    LET t == TidOf(c)
    IN /\ c.op = "COMMISSION" =>
              /\ t \notin H /\ d[t] = c.arg.ack_volume /\ a[t] = 0
              /\ r[t] = c.arg.order.volume \/ (r[t] = 0 /\ c.res.retcode # "SUCCESS")
              /\ c.res.retcode = "EXCEPTION" => r[t] = 0
       /\ c.op = "BALANCE" =>
              /\ a[t] = b[t] + d[t] + c.arg.ack_volume
              /\ r[t] = IF c.res = NoAnswer THEN a[t] ELSE b[t] + d[t]
       /\ c.op = "CANCEL" =>
              /\ b[t] = 0 /\ d[t] = 0 /\ a[t] > 0
              /\ r[t] = IF c.res = NoAnswer THEN a[t] ELSE 0
              /\ c.arg.volume = a[t]

Ledger(C, H, b, d, r, a) ==
    /\ \A t \in Tid \ {0} : (\A c \in C : TidOf(c) # t) => b[t] + d[t] = r[t] /\ a[t] = r[t]
    /\ \A c \in C : Settling(c, H, b, d, r, a)

\* The deals that are being sent are those of the requests to settle them.
Sends(pe, C) ==
    /\ \A k \in DOMAIN pe : pe[k].status = "BALANCE_WAIT" =>
           \E c \in C : c.op = "BALANCE" /\ c.arg.tid = pe[k].order.tid
    /\ \A k, m \in DOMAIN pe :
           pe[k].status = "BALANCE_WAIT" /\ pe[m].status = "BALANCE_WAIT"
           /\ pe[k].order.tid = pe[m].order.tid => k = m
    /\ \A c \in C : c.op = "BALANCE" =>
           \E k \in DOMAIN pe : pe[k].status = "BALANCE_WAIT" /\ pe[k].order.tid = c.arg.tid

\* The ids that are held.
IdsAre(idp, nid, H, pe, C, r, a) ==
    /\ idp \subseteq Tid /\ 0 \in idp /\ nid \in Tid /\ H \subseteq idp
    /\ \A k \in DOMAIN pe : pe[k].status # "BALANCE_DONE" => pe[k].order.tid \in idp
    /\ \A c \in C : TidOf(c) \in idp
    /\ \A t \in Tid : r[t] > 0 \/ a[t] > 0 => t \in idp

\* Accounts show the funds of the database, or the answer under way does.
Paid(c) == c.op # "COMMISSION" /\ c.res.retcode = "SUCCESS"

FundsAre(fu, as, C) ==
    /\ fu \in [User -> [cash : Int, money : Int]]
    /\ \A u \in User : (\A c \in C : Paid(c) => c.user # u) =>
           as[u].cash = fu[u].cash /\ as[u].money = fu[u].money
    /\ \A c \in C : Paid(c) => c.res.cash = fu[c.user].cash /\ c.res.money = fu[c.user].money

\* The rows are covered by the funds, and so is what was promised to a request.
Sells(x, r, u) == SumFunctionOnSet([t \in Tid |-> IF x[t].user = u /\ x[t].price > 0 THEN r[t] ELSE 0], Tid)
Buys(x, r, u)  ==
    SumFunctionOnSet([t \in Tid |-> IF x[t].user = u /\ x[t].price < 0 THEN x[t].price * r[t] ELSE 0], Tid)

Covers(cash, money, lots, cost) == cash >= 102 * lots /\ 100 * money + 102 * cost >= 0

Promised(c, fu, x, r) ==
    LET u == c.user
        o == c.arg.order
    IN /\ c.op = "COMMISSION" /\ r[TidOf(c)] = 0 =>
              /\ o.price > 0 => Covers(fu[u].cash, fu[u].money, Sells(x, r, u) + o.volume, Buys(x, r, u))
              /\ o.price < 0 => Covers(fu[u].cash, fu[u].money, Sells(x, r, u), Buys(x, r, u) + o.price * o.volume)
       /\ c.op = "TRANSACTION" /\ c.res = NoAnswer /\ c.arg.withdraw =>
              Covers(fu[u].cash - c.arg.cash, fu[u].money - c.arg.money, Sells(x, r, u), Buys(x, r, u))

Covered(fu, x, r, C) ==
    /\ \A u \in User : Covers(fu[u].cash, fu[u].money, Sells(x, r, u), Buys(x, r, u))
    /\ \A c \in C : Promised(c, fu, x, r)

\* Both halves of every deal.
HalfOf(d)       == Half(d.order.price > 0, d.order.volume)
UnsentHalves    == [d \in Dls |-> IF IsUnsent(d) THEN HalfOf(d) ELSE 0]
HalvesWith(t)   == [d \in Dls |-> IF d.dealtid = t THEN HalfOf(d) ELSE 0]
Unserved(c)     == c.op = "BALANCE" /\ c.res = NoAnswer

HalvesMeet(un, pe, C, g) ==
    /\ un \in Int /\ g \in [Tid -> Int] /\ g[0] = 0
    /\ \A c \in C : Unserved(c) => g[TidOf(c)] = Half(c.arg.ack_money > 0, c.arg.ack_volume)
    /\ \A t \in Tid : (\A c \in C : Unserved(c) => TidOf(c) # t) => g[t] = 0
    /\ un + SumOver(UnsentHalves, pe) + SumFunctionOnSet(g, Tid) = 0

Requests == Range(calls)

Exact(x, H, b, d, r, a, g) ==
    /\ status = "TRADING" /\ online = User /\ x \in [Tid -> Whose]
    /\ BookIs(orders, x, H, b) /\ VolumesAre(volumes, orders)
    /\ DealsAre(pending, x, d)
    /\ RowsAre(stored, x, r) /\ AccountsAre(accounts, x, a)
    /\ CallsAre(Requests, x) /\ Ledger(Requests, H, b, d, r, a)
    /\ Sends(pending, Requests) /\ IdsAre(idpool, nextid, H, pending, Requests, r, a)
    /\ FundsAre(funds, accounts, Requests) /\ Covered(funds, x, r, Requests)
    /\ HalvesMeet(unmatched, pending, Requests, g)
    /\ faults \in 0 .. MaxFaults /\ crashes = 0

-----------------------------------------------------------------------------
(***************************************************************************)
(* The requests under way.                                                 *)
(***************************************************************************)
\* The answer to a request.
WithRes(c, res) == [op |-> c.op, user |-> c.user, arg |-> c.arg, res |-> res, waiting |-> c.waiting]

\* Each request is about an account of its own, and what becomes of one.
LEMMA RequestsApart ==
    ASSUME Inv, NEW x, CallsAre(Requests, x)
    PROVE  /\ Apart(calls) /\ calls \in Seq(Requests)
           /\ \A c \in Requests : c = WithRes(c, c.res) /\ Busy(c)
  <1>1. CallsSound(calls)  BY DEF Inv, Sound
  <1>2. \A i \in DOMAIN calls : calls[i] \in Requests /\ CallIs(calls[i], x)  BY DEF CallsAre, Requests, Range
  <1>3. \A i \in DOMAIN calls : Busy(calls[i])  BY <1>2 DEF CallIs, Busy
  <1>4. Apart(calls)  BY <1>1, <1>3 DEF CallsSound, Apart
  <1>5. \A i \in DOMAIN calls : calls[i] = WithRes(calls[i], calls[i].res)  BY <1>1 DEF CallsSound, IsCall, WithRes
  <1> QED  BY <1>1, <1>3, <1>4, <1>5 DEF CallsSound, Requests, Range

LEMMA RequestAdded ==
    ASSUME Inv, NEW c, calls' = Append(calls, c)
    PROVE  Requests' = Requests \cup {c}
  BY RangeAppended DEF Inv, Sound, CallsSound, Requests

LEMMA RequestDone ==
    ASSUME Inv, NEW x, CallsAre(Requests, x), NEW i \in DOMAIN calls, Received(i)
    PROVE  calls[i] \in Requests /\ Requests' = Requests \ {calls[i]}
  <1>1. Apart(calls) /\ calls \in Seq(Requests)  BY RequestsApart
  <1>2. calls[i] \in Requests  BY DEF Requests, Range
  <1>3. calls' = RemoveAt(calls, i)  BY DEF Received
  <1>4. Range(RemoveAt(calls, i)) = Range(calls) \ {calls[i]}  BY <1>1, RangeRemoved
  <1> QED  BY ONLY <1>2, <1>3, <1>4 DEF Requests

LEMMA RequestAnswered ==
    ASSUME Inv, NEW x, CallsAre(Requests, x), NEW i \in DOMAIN calls, NEW res, Answer(i, res)
    PROVE  /\ calls[i] \in Requests
           /\ Requests' = (Requests \ {calls[i]}) \cup {WithRes(calls[i], res)}
  <1>1. Apart(calls) /\ calls \in Seq(Requests)  BY RequestsApart
  <1>2. calls[i] \in Requests  BY DEF Requests, Range
  <1>3. calls[i] = WithRes(calls[i], calls[i].res) /\ Busy(calls[i])  BY <1>2, RequestsApart
  <1>4. calls' = [calls EXCEPT ![i].res = res]  BY <1>3 DEF Answer, Busy
  <1>5. calls' = [calls EXCEPT ![i] = [calls[i] EXCEPT !.res = res]]  BY <1>4
  <1>6. [calls[i] EXCEPT !.res = res] = WithRes(calls[i], res)  BY <1>3 DEF WithRes
  <1>7. Range([calls EXCEPT ![i] = WithRes(calls[i], res)]) = (Range(calls) \ {calls[i]}) \cup {WithRes(calls[i], res)}
    BY <1>1, RangeReplaced
  <1> QED  BY <1>2, <1>5, <1>6, <1>7 DEF Requests

\* No request is about an account that can be locked.
NoneAbout(C, u) == \A c \in C : c.user # u

LEMMA LockableIsFree ==
    ASSUME Inv, NEW x, CallsAre(Requests, x), NEW u, CanLock(u)
    PROVE  NoneAbout(Requests, u)
  <1>1. Free(calls, u)  BY UnlockedIsFree DEF Inv, CanLock
  <1>2. \A c \in Requests : Busy(c)  BY RequestsApart
  <1> QED  BY <1>1, <1>2 DEF Free, NoneAbout, Requests, Range

-----------------------------------------------------------------------------
(***************************************************************************)
(* Prices and the book.                                                    *)
(***************************************************************************)
LEMMA PricesAre == Prices \subseteq Int /\ \A p \in Prices : p \in Int /\ Multiple(p) /\ p # 0
  <1>1. ASSUME NEW p \in Price PROVE p \in Nat \ {0} /\ Multiple(p) /\ Multiple(-p)
    <2>1. p \in Nat \ {0} /\ p % 100 = 0  BY ExchangeAssumption
    <2>2. p = 100 * (p \div 100) /\ p \div 100 \in Int  BY <2>1
    <2>3. PICK z \in Int : p = 100 * z  BY <2>2
    <2>4. -p = 100 * (-z) /\ -z \in Int  BY <2>3
    <2> QED  BY <2>1, <2>3, <2>4 DEF Multiple
  <1>2. \A p \in Prices : p \in Int /\ Multiple(p) /\ p # 0  BY <1>1 DEF Prices
  <1> QED  BY <1>2

\* The orders of the book are as many and as they were, but for their lots.
SameOrders(new, bk) ==
    /\ new \in Seq(Ord) /\ Len(new) = Len(bk)
    /\ \A i \in 1 .. Len(bk) : new[i].tid = bk[i].tid /\ new[i].user = bk[i].user /\ new[i].price = bk[i].price

LEMMA BookVolumes ==
    ASSUME NEW bk, NEW x, NEW H, NEW b, BookIs(bk, x, H, b), NEW new, SameOrders(new, bk),
           NEW z, \A t \in H : z[t] = x[t],
           NEW c \in [Tid -> Nat], \A i \in 1 .. Len(bk) : new[i].volume = c[bk[i].tid],
           \A t \in Tid \ H : c[t] = 0
    PROVE  BookIs(new, z, H, c)
  <1>1. DOMAIN bk = 1 .. Len(bk) /\ DOMAIN new = 1 .. Len(bk)  BY DEF BookIs, SameOrders
  <1>2. TidsApart(new)
    <2>1. TidsApart(bk)  BY DEF BookIs
    <2>2. \A i \in 1 .. Len(bk) : new[i].tid = bk[i].tid  BY DEF SameOrders
    <2> QED  BY ONLY <1>1, <2>1, <2>2 DEF TidsApart
  <1>3. ASSUME NEW i \in 1 .. Len(bk)
        PROVE  new[i].tid \in H /\ Of(z, new[i]) /\ new[i].volume = c[new[i].tid]
    <2>1. bk[i].tid \in H /\ x[bk[i].tid] = [user |-> bk[i].user, price |-> bk[i].price]  BY <1>1 DEF BookIs, Of
    <2>2. new[i].tid = bk[i].tid /\ new[i].user = bk[i].user /\ new[i].price = bk[i].price  BY DEF SameOrders
    <2>3. z[bk[i].tid] = x[bk[i].tid] /\ new[i].volume = c[bk[i].tid]  BY <2>1
    <2> QED  BY ONLY <2>1, <2>2, <2>3 DEF Of
  <1>4. \A t \in H : \E i \in 1 .. Len(bk) : new[i].tid = t
    <2>1. \A t \in H : \E i \in DOMAIN bk : bk[i].tid = t  BY DEF BookIs
    <2>2. \A i \in 1 .. Len(bk) : new[i].tid = bk[i].tid  BY DEF SameOrders
    <2> QED  BY ONLY <1>1, <2>1, <2>2
  <1>5. c \in [Tid -> Nat] /\ new \in Seq(Ord) /\ H \subseteq Tid \ {0}  BY DEF SameOrders, BookIs
  <1> QED  BY ONLY <1>1, <1>2, <1>3, <1>4, <1>5, \A t \in Tid \ H : c[t] = 0 DEF BookIs

\* The order with a given id is one of the book, if any.
LEMMA FoundOrder ==
    ASSUME NEW bk, NEW x, NEW H, NEW b, BookIs(bk, x, H, b), NEW t, NEW p,
           NEW i, i = FindOrder(bk, t, p)
    PROVE  /\ i # 0 => i \in DOMAIN bk /\ bk[i].tid = t /\ bk[i].price = p
           /\ t \in H /\ p = x[t].price => i # 0
  <1> DEFINE I == {j \in 1 .. Len(bk) : bk[j].tid = t /\ bk[j].price = p}
  <1>1. i = IF I # {} THEN Min(I) ELSE 0  BY DEF FindOrder, SelectInSeq
  <1>2. DOMAIN bk = 1 .. Len(bk) /\ Len(bk) \in Nat  BY DEF BookIs
  <1>3. I # {} => Min(I) \in I
    <2>1. I \in SUBSET Nat  BY <1>2
    <2> HIDE DEF I
    <2> QED  BY ONLY <2>1, MinOfSome
  <1>4. ASSUME t \in H, p = x[t].price PROVE I # {}
    <2>1. PICK j \in DOMAIN bk : bk[j].tid = t  BY <1>4 DEF BookIs
    <2>2. Of(x, bk[j])  BY DEF BookIs
    <2>3. bk[j].price = p  BY <1>4, <2>1, <2>2 DEF Of
    <2> QED  BY <1>2, <2>1, <2>3
  <1>5. ASSUME i # 0 PROVE i \in I  BY <1>1, <1>3, <1>5
  <1>6. ASSUME I # {} PROVE i # 0
    <2>1. i \in 1 .. Len(bk)  BY <1>1, <1>3, <1>6
    <2> QED  BY <1>2, <2>1
  <1> QED  BY <1>2, <1>4, <1>5, <1>6

\* Where the order with a given id is looked for.
PlaceOf(bk, t) == SelectInSeq(bk, LAMBDA o : o.tid = t)

LEMMA SelectedOrder ==
    ASSUME NEW bk, bk \in Seq(Ord), TidsApart(bk), NEW k, k \in DOMAIN bk
    PROVE  PlaceOf(bk, bk[k].tid) = k
  <1> DEFINE I == {j \in 1 .. Len(bk) : bk[j].tid = bk[k].tid}
  <1>1. PlaceOf(bk, bk[k].tid) = IF I # {} THEN Min(I) ELSE 0  BY DEF SelectInSeq, PlaceOf
  <1>2. DOMAIN bk = 1 .. Len(bk) /\ Len(bk) \in Nat  OBVIOUS
  <1>3. I \in SUBSET Nat /\ k \in I /\ \A j \in I : j = k  BY <1>2 DEF TidsApart
  <1>4. Min(I) \in I
    <2> HIDE DEF I
    <2> QED  BY ONLY <1>3, MinOfSome
  <1> QED  BY <1>1, <1>3, <1>4

\* What an order of the book weighs at a price.
LEMMA WeighsAtPrice ==
    ASSUME NEW o \in Ord, NEW p
    PROVE  AtPrice(Ord, p) \in [Ord -> Int] /\ AtPrice(Ord, p)[o] = IF o.price = p THEN o.volume ELSE 0
  BY OrderWeights DEF Ord, AtPrice

\* An order is taken off the market but keeps its place.
LEMMA BookCancelled ==
    ASSUME NEW bk, NEW x, NEW H, NEW b, BookIs(bk, x, H, b), NEW vo, VolumesAre(vo, bk), NEW i \in DOMAIN bk,
           NEW new, new = [bk EXCEPT ![i].volume = 0],
           NEW c, c = [b EXCEPT ![bk[i].tid] = 0]
    PROVE  /\ BookIs(new, x, H, c)
           /\ VolumesAre(ReduceVolume(vo, bk[i].price, bk[i].volume), new)
  <1> DEFINE n == Len(bk)
             q == bk[i].volume
  <1>1. /\ bk \in Seq(Ord) /\ n \in Nat /\ DOMAIN bk = 1 .. n /\ bk \in [1 .. n -> Ord]
        /\ b \in [Tid -> Nat] /\ H \subseteq Tid
    BY DEF BookIs
  <1>2. /\ bk[i] \in Ord /\ q \in Int /\ bk[i].price \in Prices /\ bk[i].tid \in Tid
        /\ bk[i] = [tid |-> bk[i].tid, user |-> bk[i].user, price |-> bk[i].price, volume |-> q]
    BY <1>1 DEF Ord, OrdersOf
  <1>3. [bk EXCEPT ![i].volume = @ - q] = new
    <2>1. [bk EXCEPT ![i].volume = @ - q] = [bk EXCEPT ![i] = [bk[i] EXCEPT !.volume = q - q]]  OBVIOUS
    <2>2. q - q = 0  BY <1>2
    <2>3. new = [bk EXCEPT ![i] = [bk[i] EXCEPT !.volume = 0]]  OBVIOUS
    <2> QED  BY ONLY <2>1, <2>2, <2>3
  <1>4. TakenFrom(new, bk, i, q, n, Ord)
    <2>1. i \in 1 .. n  BY <1>1
    <2>2. bk \in [1 .. n -> OrdersOf(Tid, User, Prices)]  BY <1>1 DEF Ord
    <2>3. TakenFrom([bk EXCEPT ![i].volume = @ - q], bk, i, q, n, OrdersOf(Tid, User, Prices))
      BY ONLY <1>1, <1>2, <2>1, <2>2, OfferShrinks
    <2> QED  BY <1>3, <2>3 DEF Ord
  <1>5. /\ new \in [1 .. n -> Ord] /\ \A j \in 1 .. n : j # i => new[j] = bk[j]
        /\ new[i] = [bk[i] EXCEPT !.volume = @ - q]
    BY <1>4 DEF TakenFrom
  <1>6. new[i].tid = bk[i].tid /\ new[i].user = bk[i].user /\ new[i].price = bk[i].price /\ new[i].volume = 0
    <2>1. new[i] = [tid |-> bk[i].tid, user |-> bk[i].user, price |-> bk[i].price, volume |-> q - q]
      BY ONLY <1>2, <1>5
    <2> QED  BY <1>2, <2>1
  <1>7. SameOrders(new, bk)
    <2>1. new \in Seq(Ord) /\ Len(new) = n  BY <1>1, <1>5
    <2> QED  BY <1>5, <1>6, <2>1 DEF SameOrders
  <1>8. BookIs(new, x, H, c)
    <2>1. c \in [Tid -> Nat] /\ \A t \in Tid : c[t] = IF t = bk[i].tid THEN 0 ELSE b[t]  BY <1>1, <1>2
    <2>2. \A j \in 1 .. n : new[j].volume = c[bk[j].tid]
      <3> SUFFICES ASSUME NEW j \in 1 .. n PROVE new[j].volume = c[bk[j].tid]  OBVIOUS
      <3>1. bk[j].tid \in Tid /\ bk[j].volume = b[bk[j].tid]  BY <1>1 DEF BookIs
      <3>2. CASE j = i  BY <1>6, <2>1, <3>1, <3>2
      <3>3. CASE j # i
        <4>1. bk[j].tid # bk[i].tid  BY <1>1, <3>3 DEF BookIs, TidsApart
        <4> QED  BY <1>5, <2>1, <3>1, <3>3, <4>1
      <3> QED  BY <3>2, <3>3
    <2>3. \A t \in Tid \ H : c[t] = 0  BY <2>1 DEF BookIs
    <2> HIDE DEF n
    <2> QED  BY ONLY BookIs(bk, x, H, b), <1>7, <2>1, <2>2, <2>3, BookVolumes DEF n
  <1>9. VolumesAre(ReduceVolume(vo, bk[i].price, q), new)
    <2>1. Lowered(ReduceVolume(vo, bk[i].price, q), vo, bk[i].price, q, Prices)  BY <1>2, VolumeReduced DEF VolumesAre
    <2>2. \A p \in Prices : OfferedAt(new, p, Ord) = OfferedAt(bk, p, Ord) - IF bk[i].price = p THEN q ELSE 0
      BY <1>4 DEF TakenFrom
    <2> QED  BY ONLY VolumesAre(vo, bk), <2>1, <2>2 DEF VolumesAre, Lowered
  <1> QED  BY <1>8, <1>9

\* An order that has no lots leaves the book.
LEMMA BookRemoved ==
    ASSUME NEW bk, NEW x, NEW H, NEW b, BookIs(bk, x, H, b), NEW vo, VolumesAre(vo, bk), NEW i \in DOMAIN bk,
           b[bk[i].tid] = 0, NEW new, new = RemoveAt(bk, i)
    PROVE  BookIs(new, x, H \ {bk[i].tid}, b) /\ VolumesAre(vo, new)
  <1> DEFINE n == Len(bk)
             t == bk[i].tid
             at(k) == IF k < i THEN k ELSE k + 1
  <1>1. bk \in Seq(Ord) /\ n \in Nat /\ DOMAIN bk = 1 .. n /\ i \in 1 .. n /\ H \subseteq Tid \ {0}  BY DEF BookIs
  <1>2. /\ new \in Seq(Ord) /\ OneMore(bk, new, i) /\ Len(new) = n - 1
        /\ \A k \in DOMAIN new : new[k] = bk[IF k < i THEN k ELSE k + 1]
    <2>1. i \in 1 .. Len(bk) /\ bk \in Seq(Ord)  BY <1>1
    <2>2. OneLessAt(new, bk, i, Ord)  BY ONLY <2>1, new = RemoveAt(bk, i), RemovedOne
    <2> QED  BY ONLY <2>2 DEF OneLessAt
  <1>3. DOMAIN new = 1 .. n - 1  BY <1>2
  <1>4. \A k \in 1 .. n - 1 : new[k] = bk[at(k)] /\ at(k) \in 1 .. n /\ at(k) # i
    <2>1. n \in Nat /\ i \in 1 .. n  BY <1>1
    <2>2. \A k \in 1 .. n - 1 : new[k] = bk[at(k)]  BY ONLY <1>2, <1>3
    <2> HIDE DEF n
    <2>3. \A k \in 1 .. n - 1 : at(k) \in 1 .. n /\ at(k) # i  BY ONLY <2>1
    <2> QED  BY ONLY <2>2, <2>3
  <1>5. \A j, k \in 1 .. n - 1 : at(j) = at(k) => j = k  BY <1>1
  <1>6. \A m \in 1 .. n : m # i => \E k \in 1 .. n - 1 : at(k) = m
    <2> SUFFICES ASSUME NEW m \in 1 .. n, m # i PROVE \E k \in 1 .. n - 1 : at(k) = m  OBVIOUS
    <2>1. CASE m < i
      <3>1. m \in 1 .. n - 1 /\ at(m) = m  BY <1>1, <2>1
      <3> QED  BY <3>1
    <2>2. CASE ~(m < i)
      <3>1. m - 1 \in 1 .. n - 1 /\ at(m - 1) = m  BY <1>1, <2>2
      <3> QED  BY <3>1
    <2> QED  BY <2>1, <2>2
  <1>7. \A j, k \in 1 .. n : bk[j].tid = bk[k].tid => j = k  BY <1>1 DEF BookIs, TidsApart
  <1>8. /\ \A k \in 1 .. n : bk[k].tid \in H /\ Of(x, bk[k]) /\ bk[k].volume = b[bk[k].tid]
        /\ \A s \in H : \E k \in 1 .. n : bk[k].tid = s
    BY <1>1 DEF BookIs
  <1> HIDE DEF at
  <1>9. TidsApart(new)
    <2>1. \A j, k \in 1 .. n - 1 : new[j].tid = new[k].tid => j = k  BY ONLY <1>4, <1>5, <1>7
    <2> QED  BY <1>3, <2>1 DEF TidsApart
  <1>10. \A k \in 1 .. n - 1 : new[k].tid \in H \ {t} /\ Of(x, new[k]) /\ new[k].volume = b[new[k].tid]
    BY ONLY <1>1, <1>4, <1>7, <1>8
  <1>11. \A s \in H \ {t} : \E k \in 1 .. n - 1 : new[k].tid = s
    <2> SUFFICES ASSUME NEW s \in H \ {t} PROVE \E k \in 1 .. n - 1 : new[k].tid = s  OBVIOUS
    <2>1. PICK m \in 1 .. n : bk[m].tid = s  BY <1>8
    <2>2. PICK k \in 1 .. n - 1 : at(k) = m  BY <1>6, <2>1
    <2> QED  BY <1>4, <2>1, <2>2
  <1>12. BookIs(new, x, H \ {t}, b)
    <2>1. b \in [Tid -> Nat] /\ \A s \in Tid \ (H \ {t}) : b[s] = 0  BY DEF BookIs
    <2> QED  BY ONLY <1>1, <1>2, <1>3, <1>9, <1>10, <1>11, <2>1 DEF BookIs
  <1>13. ASSUME NEW p \in Prices PROVE OfferedAt(new, p, Ord) = OfferedAt(bk, p, Ord)
    <2> DEFINE w == AtPrice(Ord, p)
    <2>1. bk[i] \in Ord /\ bk[i].volume = 0  BY <1>1, <1>8
    <2>2. w \in [Ord -> Int] /\ w[bk[i]] = 0  BY ONLY <2>1, WeighsAtPrice
    <2>3. i \in 1 .. Len(new) + 1  BY <1>1, <1>2
    <2> HIDE DEF w
    <2>6. new \in Seq(Ord) /\ bk \in Seq(Ord) /\ OneMore(bk, new, i)  BY <1>1, <1>2
    <2>4. SumOver(w, bk) = SumOver(w, new) + w[bk[i]]  BY ONLY <2>2, <2>3, <2>6, WeighedOneMore
    <2>5. SumOver(w, new) \in Int  BY ONLY <1>2, <2>2, SumOverType
    <2> QED  BY ONLY <2>2, <2>4, <2>5 DEF w, OfferedAt
  <1> QED  BY <1>12, <1>13 DEF VolumesAre

\* An order joins the book.
LEMMA BookInserted ==
    ASSUME NEW bk, NEW x, NEW H, NEW b, BookIs(bk, x, H, b), NEW vo, VolumesAre(vo, bk),
           NEW o \in Ord, o.tid \notin H, o.tid # 0, Of(x, o), o.volume \in Nat,
           NEW new, new = Insert(bk, o), NEW c, c = [b EXCEPT ![o.tid] = o.volume]
    PROVE  /\ BookIs(new, x, H \cup {o.tid}, c)
           /\ VolumesAre(AppendVolume(vo, o.price, o.volume), new)
  <1> DEFINE n == Len(bk)
             t == o.tid
             i == 1 + Cardinality({j \in DOMAIN bk : bk[j].price <= o.price})
             at(k) == IF k < i THEN k ELSE k + 1
  <1>1. bk \in Seq(Ord) /\ n \in Nat /\ DOMAIN bk = 1 .. n /\ H \subseteq Tid \ {0} /\ b \in [Tid -> Nat]
    BY DEF BookIs
  <1>20. i \in 1 .. n + 1
    <2> DEFINE K == {j \in DOMAIN bk : bk[j].price <= o.price}
    <2> DEFINE N == 1 .. n
    <2>1. K \in SUBSET N /\ IsFiniteSet(N) /\ Cardinality(N) = n  BY <1>1, PlacesFinite
    <2> HIDE DEF K, N
    <2>4. IsFiniteSet(K) /\ Cardinality(K) <= Cardinality(N)  BY ONLY <2>1, FS_Subset
    <2>2. Cardinality(K) \in Nat /\ Cardinality(K) <= n  BY ONLY <2>1, <2>4, FS_CardinalityType
    <2>3. i = 1 + Cardinality(K)  BY DEF K
    <2> HIDE DEF i
    <2> QED  BY ONLY <1>1, <2>2, <2>3
  <1>21. new = InsertAt(bk, i, o)  BY DEF Insert
  <1> HIDE DEF i
  <1>2. new \in Seq(Ord) /\ OneMore(new, bk, i) /\ new[i] = o  BY ONLY <1>1, <1>20, <1>21, o \in Ord, InsertedOne
  <1>3. DOMAIN new = 1 .. n + 1  BY <1>2 DEF OneMore
  <1>4. \A k \in 1 .. n : bk[k] = new[at(k)] /\ at(k) \in 1 .. n + 1 /\ at(k) # i  BY <1>1, <1>2, <1>20 DEF OneMore
  <1>5. \A m \in 1 .. n + 1 : m # i => \E k \in 1 .. n : at(k) = m
    <2> SUFFICES ASSUME NEW m \in 1 .. n + 1, m # i PROVE \E k \in 1 .. n : at(k) = m  OBVIOUS
    <2>1. CASE m < i
      <3>1. m \in 1 .. n /\ at(m) = m  BY <1>1, <1>20, <2>1
      <3> QED  BY <3>1
    <2>2. CASE ~(m < i)
      <3>1. m - 1 \in 1 .. n /\ at(m - 1) = m  BY <1>1, <1>20, <2>2
      <3> QED  BY <3>1
    <2> QED  BY <2>1, <2>2
  <1>7. \A j, k \in 1 .. n : bk[j].tid = bk[k].tid => j = k  BY <1>1 DEF BookIs, TidsApart
  <1>8. /\ \A k \in 1 .. n : bk[k].tid \in H /\ Of(x, bk[k]) /\ bk[k].volume = b[bk[k].tid]
        /\ \A s \in H : \E k \in 1 .. n : bk[k].tid = s
    BY <1>1 DEF BookIs
  <1>9. o.tid \in Tid /\ o.volume \in Nat /\ o.price \in Prices  BY DEF Ord, OrdersOf
  <1>10. c \in [Tid -> Nat] /\ c[t] = o.volume /\ \A s \in Tid : s # t => c[s] = b[s]  BY <1>1, <1>9
  <1> HIDE DEF at
  <1>11. \A m \in 1 .. n + 1 : m = i \/ \E k \in 1 .. n : at(k) = m /\ new[m] = bk[k]  BY ONLY <1>4, <1>5
  <1>12. \A m \in 1 .. n + 1 : /\ new[m].tid \in H \cup {t} /\ Of(x, new[m]) /\ new[m].volume = c[new[m].tid]
                               /\ m # i => new[m].tid # t
    <2> SUFFICES ASSUME NEW m \in 1 .. n + 1
                 PROVE  /\ new[m].tid \in H \cup {t} /\ Of(x, new[m]) /\ new[m].volume = c[new[m].tid]
                        /\ m # i => new[m].tid # t
      OBVIOUS
    <2>1. t \notin H /\ Of(x, o) /\ H \subseteq Tid  BY <1>1
    <2>2. CASE m = i  BY ONLY <1>2, <1>10, <2>1, <2>2
    <2>3. CASE m # i
      <3>1. PICK k \in 1 .. n : new[m] = bk[k]  BY <1>11, <2>3
      <3>2. bk[k].tid \in H /\ bk[k].tid # t /\ bk[k].tid \in Tid /\ Of(x, bk[k]) /\ bk[k].volume = b[bk[k].tid]
        BY <1>8, <2>1
      <3> QED  BY ONLY <1>10, <3>1, <3>2
    <2> QED  BY <2>2, <2>3
  <1>13. TidsApart(new)
    <2> SUFFICES ASSUME NEW j \in 1 .. n + 1, NEW k \in 1 .. n + 1, new[j].tid = new[k].tid PROVE j = k
      BY <1>3 DEF TidsApart
    <2>1. CASE j = i \/ k = i  BY <1>2, <1>12, <2>1
    <2>2. CASE j # i /\ k # i
      <3>1. PICK y \in 1 .. n : at(y) = j /\ new[j] = bk[y]  BY <1>11, <2>2
      <3>2. PICK w \in 1 .. n : at(w) = k /\ new[k] = bk[w]  BY <1>11, <2>2
      <3> QED  BY <1>7, <3>1, <3>2
    <2> QED  BY <2>1, <2>2
  <1>14. \A s \in H \cup {t} : \E m \in 1 .. n + 1 : new[m].tid = s
    <2>1. new[i].tid = t  BY <1>2
    <2>2. ASSUME NEW s \in H PROVE \E m \in 1 .. n + 1 : new[m].tid = s
      <3>1. PICK k \in 1 .. n : bk[k].tid = s  BY <1>8
      <3> QED  BY <1>4, <3>1
    <2> QED  BY <1>20, <2>1, <2>2
  <1>15. BookIs(new, x, H \cup {t}, c)
    <2>1. H \cup {t} \subseteq Tid \ {0} /\ \A s \in Tid \ (H \cup {t}) : c[s] = 0  BY <1>1, <1>9, <1>10 DEF BookIs
    <2> QED  BY ONLY <1>2, <1>3, <1>10, <1>12, <1>13, <1>14, <2>1 DEF BookIs
  <1>16. ASSUME NEW p \in Prices
         PROVE  OfferedAt(new, p, Ord) = OfferedAt(bk, p, Ord) + (IF o.price = p THEN o.volume ELSE 0)
                /\ OfferedAt(bk, p, Ord) \in Int
    <2> DEFINE w == AtPrice(Ord, p)
    <2>2. w \in [Ord -> Int] /\ w[o] = IF o.price = p THEN o.volume ELSE 0  BY ONLY o \in Ord, WeighsAtPrice
    <2> HIDE DEF w
    <2>3. i \in 1 .. Len(bk) + 1  BY <1>20
    <2>6. new \in Seq(Ord) /\ bk \in Seq(Ord) /\ OneMore(new, bk, i)  BY <1>1, <1>2
    <2>4. SumOver(w, new) = SumOver(w, bk) + w[new[i]]  BY ONLY <2>2, <2>3, <2>6, WeighedOneMore
    <2>5. SumOver(w, bk) \in Int  BY ONLY <1>1, <2>2, SumOverType
    <2> QED  BY ONLY <1>2, <2>2, <2>4, <2>5 DEF w, OfferedAt
  <1>17. VolumesAre(AppendVolume(vo, o.price, o.volume), new)
    <2> DEFINE vn == [vo EXCEPT ![o.price] = @ + o.volume]
    <2>1. vo \in [Prices -> Int] /\ \A p \in Prices : vo[p] = OfferedAt(bk, p, Ord)  BY DEF VolumesAre
    <2>2. vn \in [Prices -> Int] /\ \A p \in Prices : vn[p] = vo[p] + IF o.price = p THEN o.volume ELSE 0
      BY <1>9, <2>1
    <2>3. vn = AppendVolume(vo, o.price, o.volume)  BY DEF AppendVolume
    <2> HIDE DEF vn
    <2>4. \A p \in Prices : vn[p] = OfferedAt(new, p, Ord)  BY ONLY <1>16, <2>1, <2>2
    <2> QED  BY ONLY <2>2, <2>3, <2>4 DEF VolumesAre
  <1> QED  BY <1>15, <1>17

-----------------------------------------------------------------------------
(***************************************************************************)
(* The deals.                                                              *)
(***************************************************************************)
\* What a deal weighs.
LEMMA DealWeighs ==
    ASSUME NEW e \in Dls
    PROVE  /\ e.order \in Ord /\ e.order.volume \in Int /\ e.order.tid \in Tid /\ e.order.price \in Prices
           /\ e.order.price \in Int /\ e.ack_money \in Int /\ e.dealtid \in Tid /\ HalfOf(e) \in Int
           /\ \A t : UnsentLots(t)[e] = IF IsUnsent(e) /\ e.order.tid = t THEN e.order.volume ELSE 0
           /\ UnsentHalves[e] = IF IsUnsent(e) THEN HalfOf(e) ELSE 0
           /\ \A t : HalvesWith(t)[e] = IF e.dealtid = t THEN HalfOf(e) ELSE 0
  <1>1. e.order \in Ord /\ e.ack_money \in Int /\ e.dealtid \in Tid  BY DEF Dls, DealsOf, Ord
  <1>2. e.order.volume \in Int /\ e.order.tid \in Tid /\ e.order.price \in Prices /\ e.order.price \in Int
    BY <1>1, PricesAre DEF Ord, OrdersOf
  <1>3. HalfOf(e) \in Int  BY <1>2 DEF HalfOf, Half
  <1> QED  BY <1>1, <1>2, <1>3 DEF UnsentLots, UnsentHalves, HalvesWith

LEMMA DealSums ==
    /\ \A t : UnsentLots(t) \in [Dls -> Int]
    /\ UnsentHalves \in [Dls -> Int]
    /\ \A t : HalvesWith(t) \in [Dls -> Int]
  <1>1. ASSUME NEW t PROVE UnsentLots(t) \in [Dls -> Int]
    <2>1. \A e \in Dls : (IF IsUnsent(e) /\ e.order.tid = t THEN e.order.volume ELSE 0) \in Int  BY DealWeighs
    <2> QED  BY <2>1 DEF UnsentLots
  <1>2. UnsentHalves \in [Dls -> Int]
    <2>1. \A e \in Dls : (IF IsUnsent(e) THEN HalfOf(e) ELSE 0) \in Int  BY DealWeighs
    <2> QED  BY <2>1 DEF UnsentHalves
  <1>3. ASSUME NEW t PROVE HalvesWith(t) \in [Dls -> Int]
    <2>1. \A e \in Dls : (IF e.dealtid = t THEN HalfOf(e) ELSE 0) \in Int  BY DealWeighs
    <2> QED  BY <2>1 DEF HalvesWith
  <1> QED  BY <1>1, <1>2, <1>3

\* Deals with the same halves for each tid, and the same halves unsent.
SameHalves(new, pe) ==
    /\ SumOver(UnsentHalves, new) = SumOver(UnsentHalves, pe)
    /\ \A t : SumOver(HalvesWith(t), new) = SumOver(HalvesWith(t), pe)

\* The deals but for their status, which says for none otherwise if it is unsent.
SameDeals(new, pe) ==
    /\ new \in Seq(Dls) /\ Len(new) = Len(pe)
    /\ \A k \in 1 .. Len(pe) :
           /\ new[k].order = pe[k].order /\ new[k].dealtid = pe[k].dealtid /\ new[k].ack_money = pe[k].ack_money
           /\ IsUnsent(new[k]) <=> IsUnsent(pe[k])
           /\ new[k].status # "BALANCE_DONE" => pe[k].status # "BALANCE_DONE"

LEMMA DealsSame ==
    ASSUME NEW pe, NEW x, NEW d, DealsAre(pe, x, d), NEW new, SameDeals(new, pe)
    PROVE  DealsAre(new, x, d) /\ SameHalves(new, pe)
  <1> DEFINE n == Len(pe)
  <1>1. /\ pe \in Seq(Dls) /\ new \in Seq(Dls) /\ n \in Nat /\ Len(new) = n
        /\ DOMAIN pe = 1 .. n /\ DOMAIN new = 1 .. n
        /\ \A k \in 1 .. n : pe[k] \in Dls /\ new[k] \in Dls
    BY DEF DealsAre, SameDeals
  <1>2. ASSUME NEW k \in 1 .. n
        PROVE  /\ \A t : UnsentLots(t)[new[k]] = UnsentLots(t)[pe[k]] /\ UnsentLots(t)[pe[k]] \in Int
               /\ UnsentHalves[new[k]] = UnsentHalves[pe[k]] /\ UnsentHalves[pe[k]] \in Int
               /\ \A t : HalvesWith(t)[new[k]] = HalvesWith(t)[pe[k]] /\ HalvesWith(t)[pe[k]] \in Int
    <2>1. /\ new[k].order = pe[k].order /\ new[k].dealtid = pe[k].dealtid
          /\ IsUnsent(new[k]) <=> IsUnsent(pe[k])
      BY DEF SameDeals
    <2>2. HalfOf(new[k]) = HalfOf(pe[k])  BY <2>1 DEF HalfOf
    <2>3. pe[k] \in Dls /\ new[k] \in Dls  BY <1>1
    <2> QED  BY ONLY <2>1, <2>2, <2>3, DealWeighs, 0 \in Int
  <1> HIDE DEF n
  <1>3. ASSUME NEW t PROVE SumOver(UnsentLots(t), pe) = SumOver(UnsentLots(t), new)
    <2> DEFINE w == UnsentLots(t)
    <2>1. \A i \in 1 .. n : w[pe[i]] \in Int /\ w[new[i]] = w[pe[i]]  BY <1>2
    <2> HIDE DEF w
    <2>2. SumOver(w, pe) = SumOver(w, new)  BY ONLY <1>1, <2>1, SumOverSame DEF n
    <2> QED  BY <2>2 DEF w
  <1>4. SumOver(UnsentHalves, pe) = SumOver(UnsentHalves, new)
    <2> DEFINE w == UnsentHalves
    <2>1. \A i \in 1 .. n : w[pe[i]] \in Int /\ w[new[i]] = w[pe[i]]  BY <1>2
    <2> HIDE DEF w
    <2>2. SumOver(w, pe) = SumOver(w, new)  BY ONLY <1>1, <2>1, SumOverSame DEF n
    <2> QED  BY <2>2 DEF w
  <1>5. ASSUME NEW t PROVE SumOver(HalvesWith(t), pe) = SumOver(HalvesWith(t), new)
    <2> DEFINE w == HalvesWith(t)
    <2>1. \A i \in 1 .. n : w[pe[i]] \in Int /\ w[new[i]] = w[pe[i]]  BY <1>2
    <2> HIDE DEF w
    <2>2. SumOver(w, pe) = SumOver(w, new)  BY ONLY <1>1, <2>1, SumOverSame DEF n
    <2> QED  BY <2>2 DEF w
  <1>6. \A k \in 1 .. n : new[k].order.volume > 0 /\ (new[k].status # "BALANCE_DONE" => SoundDeal(new[k], x))
    BY <1>1 DEF DealsAre, SameDeals, SoundDeal, n
  <1>7. DealsAre(new, x, d)  BY <1>1, <1>3, <1>6 DEF DealsAre
  <1> QED  BY <1>4, <1>5, <1>7 DEF SameHalves

\* Deals that are settled may be erased.
LEMMA DealsKept ==
    ASSUME NEW pe, NEW x, NEW d, DealsAre(pe, x, d), NEW K \in SUBSET (DOMAIN pe), NEW new, new = Keep(pe, K),
           \A i \in DOMAIN pe \ K : pe[i].status = "BALANCE_DONE"
    PROVE  DealsAre(new, x, d) /\ SumOver(UnsentHalves, new) = SumOver(UnsentHalves, pe)
  <1>1. pe \in Seq(Dls)  BY DEF DealsAre
  <1>2. \A i \in DOMAIN pe : pe[i] \in Dls  BY <1>1
  <1>3. ASSUME NEW i \in DOMAIN pe \ K PROVE UnsentHalves[pe[i]] = 0 /\ \A t : UnsentLots(t)[pe[i]] = 0
    <2>1. ~IsUnsent(pe[i]) /\ pe[i] \in Dls  BY <1>2 DEF IsUnsent
    <2> QED  BY ONLY <2>1, DealWeighs
  <1>4. SumOver(UnsentHalves, new) = SumOver(UnsentHalves, pe)  BY <1>1, <1>3, KeptSame, DealSums
  <1>5. ASSUME NEW t PROVE SumOver(UnsentLots(t), new) = SumOver(UnsentLots(t), pe)
    <2> DEFINE w == UnsentLots(t)
    <2>1. w \in [Dls -> Int] /\ \A i \in DOMAIN pe \ K : w[pe[i]] = 0  BY <1>3, DealSums
    <2> HIDE DEF w
    <2>2. SumOver(w, new) = SumOver(w, pe)  BY <1>1, <2>1, KeptSame
    <2> QED  BY <2>2 DEF w
  <1>6. new \in Seq(Dls) /\ \A j \in DOMAIN new : \E k \in K : new[j] = pe[k]  BY <1>1, KeptMembers
  <1>7. \A j \in DOMAIN new : /\ new[j].order.volume > 0
                              /\ (new[j].status # "BALANCE_DONE" => SoundDeal(new[j], x))
    BY <1>6 DEF DealsAre
  <1> QED  BY <1>4, <1>5, <1>6, <1>7 DEF DealsAre

\* A deal is sent: its lots are no longer counted.
SentDeal(new, pe, x, c, k) ==
    /\ DealsAre(new, x, c) /\ SumOver(UnsentHalves, new) = SumOver(UnsentHalves, pe) - HalfOf(pe[k])
    /\ \A t : SumOver(HalvesWith(t), new) = SumOver(HalvesWith(t), pe)
    /\ Len(new) = Len(pe) /\ new[k] = [pe[k] EXCEPT !.status = "BALANCE_WAIT"]
    /\ \A j \in DOMAIN pe : j # k => new[j] = pe[j]

LEMMA DealSent ==
    ASSUME NEW pe, NEW x, NEW d, DealsAre(pe, x, d), NEW k \in DOMAIN pe, pe[k].status = "COMMISSION_DONE",
           NEW new, new = [pe EXCEPT ![k].status = "BALANCE_WAIT"],
           NEW c, c = [d EXCEPT ![pe[k].order.tid] = @ - pe[k].order.volume]
    PROVE  SentDeal(new, pe, x, c, k)
  <1> DEFINE n == Len(pe)
             e == pe[k]
             y == [e EXCEPT !.status = "BALANCE_WAIT"]
  <1>1. pe \in Seq(Dls) /\ n \in Nat /\ DOMAIN pe = 1 .. n /\ k \in 1 .. n /\ \A i \in 1 .. n : pe[i] \in Dls
    BY DEF DealsAre
  <1>2. e \in Dls  BY <1>1
  <1>3. /\ y \in Dls /\ y.order = e.order /\ y.dealtid = e.dealtid /\ y.ack_money = e.ack_money
        /\ y.status = "BALANCE_WAIT"
    <2>1. PICK g : g = e  OBVIOUS
    <2>2. PICK h : h = [g EXCEPT !.status = "BALANCE_WAIT"]  OBVIOUS
    <2>3. g \in Dls  BY <1>2, <2>1
    <2>4. /\ h \in Dls /\ h.order = g.order /\ h.dealtid = g.dealtid /\ h.ack_money = g.ack_money
          /\ h.status = "BALANCE_WAIT"
      BY ONLY <2>2, <2>3 DEF Dls, DealsOf
    <2>5. y = h  BY <2>1, <2>2
    <2> HIDE DEF y, e
    <2> QED  BY ONLY <2>1, <2>4, <2>5
  <1>4. new = [pe EXCEPT ![k] = y]  OBVIOUS
  <1> HIDE DEF y
  <1>5. new \in Seq(Dls) /\ Len(new) = n /\ new[k] = y /\ \A j \in 1 .. n : j # k => new[j] = pe[j]
    BY <1>1, <1>3, <1>4
  <1>6. IsUnsent(e) /\ ~IsUnsent(y) /\ HalfOf(y) = HalfOf(e)  BY <1>3 DEF IsUnsent, HalfOf
  <1>7. DOMAIN new = 1 .. n /\ \A j \in 1 .. n : new[j] \in Dls  BY <1>5
  <1>8. ASSUME NEW w \in [Dls -> Int] PROVE SumOver(w, new) = SumOver(w, pe) - w[e] + w[y] /\ SumOver(w, pe) \in Int
    <2>1. ChangedAt(k, w, pe, new, n)  BY <1>1, <1>5, <1>7 DEF ChangedAt
    <2> HIDE DEF n
    <2>2. SumOver(w, new) = SumOver(w, pe) - w[pe[k]] + w[new[k]]  BY ONLY <1>1, <2>1, WeighedChange
    <2>3. SumOver(w, pe) \in Int  BY ONLY <1>1, w \in [Dls -> Int], SumOverType
    <2> QED  BY <1>5, <2>2, <2>3
  <1> HIDE DEF e
  <1>9. SumOver(UnsentHalves, new) = SumOver(UnsentHalves, pe) - HalfOf(e)
    <2>1. UnsentHalves[e] = HalfOf(e) /\ UnsentHalves[y] = 0 /\ HalfOf(e) \in Int
      BY ONLY <1>2, <1>3, <1>6, DealWeighs
    <2>2. /\ SumOver(UnsentHalves, new) = SumOver(UnsentHalves, pe) - UnsentHalves[e] + UnsentHalves[y]
          /\ SumOver(UnsentHalves, pe) \in Int
      BY <1>8, DealSums
    <2> QED  BY ONLY <2>1, <2>2
  <1>10. ASSUME NEW t PROVE SumOver(HalvesWith(t), new) = SumOver(HalvesWith(t), pe)
    <2>1. HalvesWith(t)[e] = HalvesWith(t)[y] /\ HalvesWith(t)[e] \in Int
      BY ONLY <1>2, <1>3, <1>6, DealWeighs, 0 \in Int
    <2>2. /\ SumOver(HalvesWith(t), new) = SumOver(HalvesWith(t), pe) - HalvesWith(t)[e] + HalvesWith(t)[y]
          /\ SumOver(HalvesWith(t), pe) \in Int
      BY <1>8, DealSums
    <2> QED  BY ONLY <2>1, <2>2
  <1>11. d \in [Tid -> Int] /\ e.order.tid \in Tid /\ e.order.volume \in Int  BY <1>2, DealWeighs DEF DealsAre
  <1>12. c \in [Tid -> Int] /\ \A t \in Tid : c[t] = d[t] - IF e.order.tid = t THEN e.order.volume ELSE 0
    BY <1>11 DEF e
  <1>13. ASSUME NEW t \in Tid PROVE c[t] = SumOver(UnsentLots(t), new)
    <2>1. /\ UnsentLots(t)[e] = IF e.order.tid = t THEN e.order.volume ELSE 0
          /\ UnsentLots(t)[y] = 0
      BY ONLY <1>2, <1>3, <1>6, DealWeighs
    <2>2. /\ SumOver(UnsentLots(t), new) = SumOver(UnsentLots(t), pe) - UnsentLots(t)[e] + UnsentLots(t)[y]
          /\ SumOver(UnsentLots(t), pe) \in Int
      BY <1>8, DealSums
    <2>3. d[t] = SumOver(UnsentLots(t), pe)  BY DEF DealsAre
    <2> QED  BY ONLY <1>11, <1>12, <2>1, <2>2, <2>3
  <1>14. \A j \in 1 .. n : new[j].order.volume > 0 /\ (new[j].status # "BALANCE_DONE" => SoundDeal(new[j], x))
    <2>1. \A j \in 1 .. n : pe[j].order.volume > 0 /\ (pe[j].status # "BALANCE_DONE" => SoundDeal(pe[j], x))
      BY <1>1 DEF DealsAre
    <2>2. e.order.volume > 0 /\ SoundDeal(e, x)  BY <1>1, <2>1 DEF e
    <2>3. y.order.volume > 0 /\ SoundDeal(y, x)  BY ONLY <1>3, <2>2 DEF SoundDeal
    <2> QED  BY ONLY <1>5, <2>1, <2>3
  <1>15. DealsAre(new, x, c)  BY <1>5, <1>7, <1>12, <1>13, <1>14 DEF DealsAre
  <1> QED  BY <1>1, <1>5, <1>9, <1>10, <1>15 DEF SentDeal, e, y

\* Lots are counted from each unsent deal, and from no other.
LEMMA LotsCounted ==
    ASSUME NEW pe, NEW x, NEW d, DealsAre(pe, x, d), NEW t \in Tid
    PROVE  /\ d[t] \in Nat
           /\ \A k \in DOMAIN pe : IsUnsent(pe[k]) /\ pe[k].order.tid = t => d[t] > 0
           /\ (\A k \in DOMAIN pe : IsUnsent(pe[k]) => pe[k].order.tid # t) => d[t] = 0
  <1> DEFINE n == Len(pe)
             w == UnsentLots(t)
             N == 1 .. n
             f == [i \in 1 .. Len(pe) |-> w[pe[i]]]
  <1>1. pe \in Seq(Dls) /\ n \in Nat /\ DOMAIN pe = N /\ \A i \in N : pe[i] \in Dls  BY DEF DealsAre
  <1>2. \A i \in N : f[i] = IF IsUnsent(pe[i]) /\ pe[i].order.tid = t THEN pe[i].order.volume ELSE 0
    BY <1>1, DealWeighs
  <1>3. \A i \in N : pe[i].order.volume \in Nat /\ pe[i].order.volume > 0  BY <1>1, DealWeighs DEF DealsAre
  <1>4. d[t] = SumFunctionOnSet(f, N)  BY DEF DealsAre, SumOver
  <1>5. \A i \in N : f[i] \in Nat /\ f[i] \in Int  BY <1>2, <1>3
  <1>6. IsFiniteSet(N)  BY <1>1, PlacesFinite
  <1> HIDE DEF f, w, N
  <1>7. d[t] \in Nat  BY ONLY <1>4, <1>5, <1>6, SumNat
  <1>8. ASSUME NEW k \in N, IsUnsent(pe[k]), pe[k].order.tid = t PROVE d[t] > 0
    <2>1. SumFunctionOnSet(f, N) = f[k] + SumFunctionOnSet(f, N \ {k})  BY ONLY <1>5, <1>6, k \in N, SumTake
    <2>2. IsFiniteSet(N \ {k}) /\ \A i \in N \ {k} : f[i] \in Nat  BY <1>5, <1>6, FS_Difference
    <2>3. SumFunctionOnSet(f, N \ {k}) \in Nat  BY ONLY <2>2, SumNat
    <2>4. f[k] \in Nat /\ f[k] > 0  BY <1>2, <1>3, <1>8
    <2> QED  BY ONLY <1>4, <2>1, <2>3, <2>4
  <1>9. ASSUME \A k \in N : IsUnsent(pe[k]) => pe[k].order.tid # t PROVE d[t] = 0
    <2>1. \A k \in N : f[k] = 0  BY <1>2, <1>9
    <2> QED  BY ONLY <1>4, <1>6, <2>1, SumZero
  <1> QED  BY <1>1, <1>7, <1>8, <1>9

LEMMA TidsAre == 0 \in Tid /\ Tid \subseteq Nat /\ IsFiniteSet(Tid)
  <1>1. MaxOrderId + Skip \in Nat  BY ExchangeAssumption
  <1> QED  BY <1>1, FS_Interval DEF Tid

\* What a deal adds to the lots of its order, and to the sales.
LEMMA DealAddsTo ==
    ASSUME NEW e \in Dls
    PROVE  /\ \A t : OwnLots(Dls, t)[e] = IF e.order.tid = t THEN e.order.volume ELSE 0
           /\ OwnSales(Dls)[e] = HalfOf(e)
  BY DEF OwnLots, OwnSales, HalfOf, Half

LEMMA LotWeights ==
    /\ \A t : OwnLots(Dls, t) \in [Dls -> Int]
    /\ OwnSales(Dls) \in [Dls -> Int]
  BY PricesAre, DealWeights DEF Dls

\* The deals an incoming order makes with the orders of the book, whose ids are H.
Partners(new, pe, x, H, tid) ==
    /\ new \in Seq(Dls) /\ Extends(new, pe)
    /\ \A k \in Len(pe) + 1 .. Len(new) :
           /\ new[k].status = "COMMISSION_WAIT" /\ new[k].dealtid = tid /\ new[k].order.tid \in H
           /\ new[k].order.volume > 0 /\ SoundDeal(new[k], x)

LEMMA PartnersAre ==
    ASSUME NEW bk, NEW x, NEW H, NEW b, BookIs(bk, x, H, b), NEW r, NEW m, m.orders = bk,
           m.pending \in Seq(Dls), r.pending \in Seq(Dls), NEW tid \in Tid \ {0}, NEW price, MatchedPay(r, m, Len(bk), tid, price)
    PROVE  Partners(r.pending, m.pending, x, H, tid)
  <1> DEFINE new == r.pending
             pe  == m.pending
  <1>1. new \in Seq(Dls) /\ Extends(new, pe)  BY DEF MatchedPay
  <1>2. bk \in Seq(Ord) /\ DOMAIN bk = 1 .. Len(bk)  BY DEF BookIs
  <1>3. ASSUME NEW k \in Len(pe) + 1 .. Len(new), DealFrom(new[k], bk, Len(bk), tid, price), new[k] \in Dls
        PROVE  /\ new[k].status = "COMMISSION_WAIT" /\ new[k].dealtid = tid /\ new[k].order.tid \in H
               /\ new[k].order.volume > 0 /\ SoundDeal(new[k], x)
    <2> DEFINE e == new[k]
    <2>1. /\ e.dealtid = tid /\ e.status = "COMMISSION_WAIT"
          /\ e.order.volume > 0 /\ e.ack_money = e.order.price * e.order.volume
      BY <1>3 DEF DealFrom
    <2>2. PICK i \in 1 .. Len(bk) : /\ bk[i].tid = e.order.tid /\ bk[i].user = e.order.user
                                    /\ bk[i].price = e.order.price
      BY <1>3 DEF DealFrom
    <2>3. bk[i].tid \in H /\ Of(x, bk[i]) /\ H \subseteq Tid \ {0}  BY <1>2 DEF BookIs
    <2>4. Of(x, e.order) /\ e.order.tid \in H /\ e.order.tid # 0  BY <2>2, <2>3 DEF Of
    <2>5. e.order.price \in Prices /\ e.order.volume \in Int /\ e.order.price \in Int  BY <1>3, DealWeighs
    <2> HIDE DEF e
    <2>6. FairPay(e.order.price, e.order.volume, e.ack_money)
      <3> DEFINE p == e.order.price
                 v == e.order.volume
      <3>1. p \in Int /\ v \in Int /\ v > 0 /\ Multiple(p) /\ 0 \in Int /\ Multiple(0)
        <4>1. 0 = 100 * 0 /\ 0 \in Int  OBVIOUS
        <4>2. Multiple(0)  BY <4>1 DEF Multiple
        <4> QED  BY <2>1, <2>5, <4>2, PricesAre
      <3> HIDE DEF p, v
      <3>2. Multiple(p * v)  BY ONLY <3>1, MultipleMinus
      <3>3. p * v >= p * v /\ (p < 0 => p * v < 0)  BY ONLY <3>1
      <3> QED  BY <2>1, <3>1, <3>2, <3>3 DEF FairPay, p, v
    <2> QED  BY <2>1, <2>4, <2>6 DEF SoundDeal, e
  <1>4. \A k \in Len(pe) + 1 .. Len(new) : DealFrom(new[k], bk, Len(bk), tid, price)  BY DEF MatchedPay
  <1>5. \A k \in Len(pe) + 1 .. Len(new) : new[k] \in Dls
    <2>1. Len(pe) \in Nat /\ Len(new) \in Nat /\ \A k \in 1 .. Len(new) : new[k] \in Dls  OBVIOUS
    <2> HIDE DEF pe, new
    <2> QED  BY ONLY <2>1
  <1> QED  BY ONLY <1>1, <1>3, <1>4, <1>5 DEF Partners

\* What the lots and halves of deals grow by.
LEMMA PartnersGrow ==
    ASSUME NEW pe \in Seq(Dls), NEW x, NEW H, NEW tid, NEW new, Partners(new, pe, x, H, tid)
    PROVE  /\ \A t : SumOver(UnsentLots(t), new) - SumOver(UnsentLots(t), pe) = LotsIn(new, t, Dls) - LotsIn(pe, t, Dls)
           /\ SumOver(UnsentHalves, new) - SumOver(UnsentHalves, pe) = SalesIn(new, Dls) - SalesIn(pe, Dls)
           /\ \A t : t \notin H => SumOver(UnsentLots(t), new) = SumOver(UnsentLots(t), pe)
  <1> DEFINE K == Len(pe) + 1 .. Len(new)
  <1>1. new \in Seq(Dls) /\ Extends(new, pe) /\ Len(pe) \in Nat /\ Len(new) \in Nat  BY DEF Partners
  <1>2. \A k \in K : /\ k \in 1 .. Len(new) /\ new[k] \in Dls /\ IsUnsent(new[k]) /\ new[k].order.tid \in H
    <2>1. \A k \in K : k \in 1 .. Len(new)  BY <1>1
    <2>2. \A k \in K : new[k].status = "COMMISSION_WAIT" /\ new[k].order.tid \in H  BY DEF Partners
    <2>3. \A k \in 1 .. Len(new) : new[k] \in Dls  BY <1>1
    <2> HIDE DEF K
    <2> QED  BY ONLY <2>1, <2>2, <2>3 DEF IsUnsent
  <1>3. ASSUME NEW t PROVE SumOver(UnsentLots(t), new) - SumOver(UnsentLots(t), pe) = LotsIn(new, t, Dls) - LotsIn(pe, t, Dls)
    <2> DEFINE w == UnsentLots(t)
               v == OwnLots(Dls, t)
    <2>1. w \in [Dls -> Int] /\ v \in [Dls -> Int]  BY DealSums, LotWeights
    <2>2. \A k \in K : w[new[k]] = v[new[k]]
      <3> SUFFICES ASSUME NEW k \in K PROVE w[new[k]] = v[new[k]]  OBVIOUS
      <3>1. new[k] \in Dls /\ IsUnsent(new[k])  BY <1>2
      <3> QED  BY ONLY <3>1, DealWeighs, DealAddsTo
    <2> HIDE DEF w, v
    <2>3. SumOver(w, new) - SumOver(w, pe) = SumOver(v, new) - SumOver(v, pe)
      BY ONLY pe \in Seq(Dls), <1>1, <2>1, <2>2, SameGrowth DEF K
    <2> QED  BY <2>3 DEF LotsIn, w, v
  <1>4. SumOver(UnsentHalves, new) - SumOver(UnsentHalves, pe) = SalesIn(new, Dls) - SalesIn(pe, Dls)
    <2> DEFINE w == UnsentHalves
               v == OwnSales(Dls)
    <2>1. w \in [Dls -> Int] /\ v \in [Dls -> Int]  BY DealSums, LotWeights
    <2>2. \A k \in K : w[new[k]] = v[new[k]]
      <3> SUFFICES ASSUME NEW k \in K PROVE w[new[k]] = v[new[k]]  OBVIOUS
      <3>1. new[k] \in Dls /\ IsUnsent(new[k])  BY <1>2
      <3> QED  BY ONLY <3>1, DealWeighs, DealAddsTo
    <2> HIDE DEF w, v
    <2>3. SumOver(w, new) - SumOver(w, pe) = SumOver(v, new) - SumOver(v, pe)
      BY ONLY pe \in Seq(Dls), <1>1, <2>1, <2>2, SameGrowth DEF K
    <2> QED  BY <2>3 DEF SalesIn, w, v
  <1>5. ASSUME NEW t, t \notin H PROVE SumOver(UnsentLots(t), new) = SumOver(UnsentLots(t), pe)
    <2> DEFINE w == UnsentLots(t)
    <2>1. w \in [Dls -> Int]  BY DealSums
    <2>2. \A k \in K : w[new[k]] = 0
      <3> SUFFICES ASSUME NEW k \in K PROVE w[new[k]] = 0  OBVIOUS
      <3>1. new[k] \in Dls /\ new[k].order.tid # t  BY <1>2, <1>5
      <3> QED  BY ONLY <3>1, DealWeighs
    <2> HIDE DEF w
    <2>3. SumOver(w, new) = SumOver(w, pe)  BY ONLY pe \in Seq(Dls), <1>1, <2>1, <2>2, NoGrowth DEF K
    <2> QED  BY <2>3 DEF w
  <1> QED  BY <1>3, <1>4, <1>5

\* A market, and what an incoming order makes of it.
MarketOf(bk, vo, pe) == [orders |-> bk, volumes |-> vo, pending |-> pe, ack_volume |-> 0, ack_money |-> 0]

IsMarket(r) ==
    r = [orders |-> r.orders, volumes |-> r.volumes, pending |-> r.pending,
         ack_volume |-> r.ack_volume, ack_money |-> r.ack_money]

Traded(r, pe, x, H, b, d, tid, price, volume) ==
    IsMarket(r) /\
    \E c, e : /\ BookIs(r.orders, x, H, c) /\ VolumesAre(r.volumes, r.orders) /\ DealsAre(r.pending, x, e)
              /\ \A t \in Tid : c[t] + e[t] = b[t] + d[t] /\ (b[t] = 0 => c[t] = 0) /\ (t \notin H => e[t] = d[t])
              /\ Partners(r.pending, pe, x, H, tid)
              /\ SumOver(UnsentHalves, r.pending) = SumOver(UnsentHalves, pe) - Half(price > 0, r.ack_volume)
              /\ r.ack_volume \in 0 .. volume /\ GoodPay(price, r.ack_volume, r.ack_money)

LEMMA BookMatched ==
    ASSUME NEW bk, NEW x, NEW H, NEW b, BookIs(bk, x, H, b), NEW vo, VolumesAre(vo, bk),
           NEW pe, NEW d, DealsAre(pe, x, d), NEW tid \in Tid \ {0}, NEW price \in Prices, NEW volume \in Nat,
           NEW r, r = PriceMatching(MarketOf(bk, vo, pe), tid, price, volume)
    PROVE  Traded(r, pe, x, H, b, d, tid, price, volume)
  <1> DEFINE n == Len(bk)
             m == MarketOf(bk, vo, pe)
             D == DealsOf(Tid, User, Prices)
  <1>1. /\ bk \in Seq(Ord) /\ n \in Nat /\ DOMAIN bk = 1 .. n /\ bk \in [1 .. n -> Ord]
        /\ pe \in Seq(Dls) /\ vo \in [Prices -> Int] /\ TidsApart(bk)
        /\ H \subseteq Tid \ {0} /\ b \in [Tid -> Nat] /\ d \in [Tid -> Int]
        /\ \A i \in 1 .. n : bk[i].tid \in H /\ bk[i].volume = b[bk[i].tid]
        /\ \A t \in H : \E i \in 1 .. n : bk[i].tid = t
        /\ \A t \in Tid \ H : b[t] = 0
    <2>1. bk \in Seq(Ord) /\ pe \in Seq(Dls) /\ vo \in [Prices -> Int] /\ d \in [Tid -> Int]
      BY DEF BookIs, DealsAre, VolumesAre
    <2>2. n \in Nat /\ DOMAIN bk = 1 .. n /\ bk \in [1 .. n -> Ord]  BY <2>1
    <2> HIDE DEF n
    <2> QED  BY ONLY BookIs(bk, x, H, b), <2>1, <2>2 DEF BookIs
  <1> HIDE DEF n
  <1>2. m \in Markets(n, Tid, User, Prices) /\ m.orders = bk /\ m.volumes = vo /\ m.pending = pe
    <2>1. /\ bk \in [1 .. n -> OrdersOf(Tid, User, Prices)] /\ vo \in [Prices -> Int]
          /\ pe \in Seq(DealsOf(Tid, User, Prices)) /\ 0 \in Int
      BY ONLY <1>1 DEF Ord, Dls
    <2>2. [orders |-> bk, volumes |-> vo, pending |-> pe, ack_volume |-> 0, ack_money |-> 0]
             \in Markets(n, Tid, User, Prices)
      BY ONLY <2>1 DEF Markets
    <2>3. m = [orders |-> bk, volumes |-> vo, pending |-> pe, ack_volume |-> 0, ack_money |-> 0]  BY DEF MarketOf
    <2> QED  BY ONLY <2>2, <2>3
  <1>3. Prices \subseteq Int /\ (\A p \in Prices : Multiple(p)) /\ price \in Int  BY PricesAre
  <1>4. \A i \in 1 .. n : m.orders[i].volume >= 0
    <2>1. \A i \in 1 .. n : bk[i].volume \in Nat  BY ONLY <1>1
    <2> QED  BY ONLY <1>2, <2>1
  <1> HIDE DEF m
  <1>5. /\ r \in Markets(n, Tid, User, Prices)
        /\ MatchedBook(r, m, n, n, price, volume, OrdersOf(Tid, User, Prices))
        /\ MatchedDeals(r, m, n, price, Tid, User, Prices)
        /\ MatchedPay(r, m, n, tid, price)
    <2>1. r = PriceMatching(m, tid, price, volume)  BY DEF m
    <2>2. tid \in Tid  OBVIOUS
    <2>3. /\ r \in Markets(n, Tid, User, Prices)
          /\ MatchedBook(r, m, n, n, price, volume, OrdersOf(Tid, User, Prices))
          /\ MatchedDeals(r, m, n, price, Tid, User, Prices)
      BY ONLY <1>1, <1>2, <1>3, <1>4, <2>1, <2>2, volume \in Nat, MatchingMatches
    <2>4. MatchedPay(r, m, n, tid, price)  BY ONLY <1>1, <1>2, <1>3, <1>4, <2>1, <2>2, volume \in Nat, MatchingPays
    <2> QED  BY <2>3, <2>4
  <1>6. r.pending \in Seq(Dls) /\ r.orders \in [1 .. n -> Ord] /\ r.volumes \in [Prices -> Int]
    BY ONLY <1>5 DEF Markets, Dls, Ord
  <1>7. Partners(r.pending, pe, x, H, tid)
    BY ONLY BookIs(bk, x, H, b), <1>1, <1>2, <1>5, <1>6, tid \in Tid \ {0}, PartnersAre DEF n
  <1>8. /\ r.ack_volume \in 0 .. volume /\ GoodPay(price, r.ack_volume, r.ack_money)
        /\ \A i \in 1 .. n : TakenOff(r.orders[i], bk[i])
    BY ONLY <1>2, <1>5 DEF MatchedBook, MatchedPay
  <1>9. /\ \A p \in Prices : r.volumes[p] - OfferedAt(r.orders, p, Ord) = vo[p] - OfferedAt(bk, p, Ord)
        /\ \A i \in 1 .. n : LotsIn(r.pending, bk[i].tid, Dls) + r.orders[i].volume
                                = LotsIn(pe, bk[i].tid, Dls) + bk[i].volume
        /\ SalesIn(r.pending, Dls) = SalesIn(pe, Dls) + IF price > 0 THEN -r.ack_volume ELSE r.ack_volume
    BY ONLY <1>1, <1>2, <1>5 DEF MatchedDeals, Ord, Dls
  <1> DEFINE e == [t \in Tid |-> SumOver(UnsentLots(t), r.pending)]
             c == [t \in Tid |-> IF t \in H THEN b[t] + d[t] - e[t] ELSE 0]
  <1>10. /\ \A t : SumOver(UnsentLots(t), r.pending) - SumOver(UnsentLots(t), pe)
                      = LotsIn(r.pending, t, Dls) - LotsIn(pe, t, Dls)
         /\ SumOver(UnsentHalves, r.pending) - SumOver(UnsentHalves, pe) = SalesIn(r.pending, Dls) - SalesIn(pe, Dls)
         /\ \A t : t \notin H => SumOver(UnsentLots(t), r.pending) = SumOver(UnsentLots(t), pe)
    BY ONLY <1>1, <1>7, PartnersGrow
  <1>11. /\ \A t : /\ SumOver(UnsentLots(t), r.pending) \in Int /\ SumOver(UnsentLots(t), pe) \in Int
                   /\ LotsIn(r.pending, t, Dls) \in Int /\ LotsIn(pe, t, Dls) \in Int
         /\ SumOver(UnsentHalves, r.pending) \in Int /\ SumOver(UnsentHalves, pe) \in Int
         /\ SalesIn(r.pending, Dls) \in Int /\ SalesIn(pe, Dls) \in Int
    BY ONLY <1>1, <1>6, SumOverType, DealSums, LotWeights DEF LotsIn, SalesIn
  <1>12. e \in [Tid -> Int] /\ \A t \in Tid : e[t] = SumOver(UnsentLots(t), r.pending)  BY <1>11
  <1>13. \A t \in Tid : d[t] = SumOver(UnsentLots(t), pe)  BY DEF DealsAre
  <1> HIDE DEF e
  <1>14. /\ \A t \in Tid : t \notin H => e[t] = d[t]
         /\ \A t \in Tid : c[t] = IF t \in H THEN b[t] + d[t] - e[t] ELSE 0
    BY <1>10, <1>12, <1>13
  <1>141. c = [t \in Tid |-> c[t]]  OBVIOUS
  <1> HIDE DEF c
  <1>15. ASSUME NEW i \in 1 .. n PROVE r.orders[i].volume = c[bk[i].tid] /\ r.orders[i].volume \in 0 .. b[bk[i].tid]
    <2> DEFINE t == bk[i].tid
    <2>1. t \in H /\ t \in Tid /\ b[t] \in Nat /\ bk[i].volume = b[t]  BY <1>1
    <2>2. r.orders[i].volume \in 0 .. b[t]  BY <1>8, <2>1 DEF TakenOff
    <2>3. LotsIn(r.pending, t, Dls) + r.orders[i].volume = LotsIn(pe, t, Dls) + b[t]  BY <1>9, <2>1
    <2>4. e[t] - d[t] = LotsIn(r.pending, t, Dls) - LotsIn(pe, t, Dls) /\ e[t] \in Int /\ d[t] \in Int
      BY <1>1, <1>10, <1>12, <1>13, <2>1
    <2>5. c[t] = b[t] + d[t] - e[t]  BY <1>14, <2>1
    <2>6. LotsIn(r.pending, t, Dls) \in Int /\ LotsIn(pe, t, Dls) \in Int  BY <1>11
    <2> HIDE DEF t
    <2>7. r.orders[i].volume = c[t]  BY ONLY <2>1, <2>2, <2>3, <2>4, <2>5, <2>6
    <2> QED  BY <2>2, <2>7 DEF t
  <1>16. ASSUME NEW t \in H PROVE c[t] \in 0 .. b[t]
    <2>1. PICK i \in 1 .. n : bk[i].tid = t  BY <1>1
    <2> QED  BY <1>15, <2>1
  <1>17. c \in [Tid -> Nat] /\ \A t \in Tid : c[t] \in Nat /\ (b[t] = 0 => c[t] = 0) /\ (t \notin H => c[t] = 0)
    <2>1. \A t \in Tid : c[t] \in Nat /\ (b[t] = 0 => c[t] = 0) /\ (t \notin H => c[t] = 0)
      <3> SUFFICES ASSUME NEW t \in Tid PROVE c[t] \in Nat /\ (b[t] = 0 => c[t] = 0) /\ (t \notin H => c[t] = 0)
        OBVIOUS
      <3>1. b[t] \in Nat /\ (t \in H => c[t] \in 0 .. b[t]) /\ (t \notin H => c[t] = 0)  BY <1>1, <1>14, <1>16
      <3> QED  BY ONLY <3>1
    <2>2. \A t \in Tid : c[t] \in Nat  BY <2>1
    <2>3. c \in [Tid -> Nat]  BY ONLY <1>141, <2>2
    <2> QED  BY ONLY <2>1, <2>3
  <1>18. r.orders \in Seq(Ord) /\ Len(r.orders) = n
    <2> DEFINE q == r.orders
    <2>1. q \in [1 .. n -> Ord] /\ n \in Nat  BY <1>1, <1>6
    <2> HIDE DEF q
    <2>2. q \in Seq(Ord) /\ Len(q) = n  BY ONLY <2>1
    <2> QED  BY <2>2 DEF q
  <1>19. BookIs(r.orders, x, H, c)
    <2>1. SameOrders(r.orders, bk)
      <3>1. ASSUME NEW i \in 1 .. n
            PROVE  r.orders[i].tid = bk[i].tid /\ r.orders[i].user = bk[i].user /\ r.orders[i].price = bk[i].price
        <4>1. TakenOff(r.orders[i], bk[i]) /\ bk[i] \in Ord  BY <1>1, <1>8
        <4> QED  BY ONLY <4>1 DEF TakenOff, Ord, OrdersOf
      <3> QED  BY <1>18, <3>1 DEF SameOrders, n
    <2>2. \A i \in 1 .. Len(bk) : r.orders[i].volume = c[bk[i].tid]  BY <1>15 DEF n
    <2> QED  BY ONLY BookIs(bk, x, H, b), <1>17, <2>1, <2>2, BookVolumes
  <1>20. VolumesAre(r.volumes, r.orders)
    <2>1. \A p \in Prices : OfferedAt(bk, p, Ord) \in Int /\ OfferedAt(r.orders, p, Ord) \in Int
      BY <1>1, <1>18, SumOverType, OrderWeights DEF OfferedAt, Ord
    <2>2. \A p \in Prices : vo[p] = OfferedAt(bk, p, Ord)  BY DEF VolumesAre
    <2>3. \A p \in Prices : r.volumes[p] \in Int  BY <1>6
    <2>4. \A p \in Prices : r.volumes[p] = OfferedAt(r.orders, p, Ord)  BY ONLY <1>9, <2>1, <2>2, <2>3
    <2> QED  BY <1>6, <2>4 DEF VolumesAre
  <1>21. DealsAre(r.pending, x, e)
    <2>1. ASSUME NEW k \in 1 .. Len(r.pending)
          PROVE  r.pending[k].order.volume > 0 /\ (r.pending[k].status # "BALANCE_DONE" => SoundDeal(r.pending[k], x))
      <3>1. CASE k \in 1 .. Len(pe)
        <4>1. r.pending[k] = pe[k]  BY <1>7, <3>1 DEF Partners, Extends
        <4>2. k \in DOMAIN pe  BY <1>1, <3>1
        <4> QED  BY <4>1, <4>2 DEF DealsAre
      <3>2. CASE k \in Len(pe) + 1 .. Len(r.pending)  BY <1>7, <3>2 DEF Partners
      <3>3. Len(pe) \in Nat /\ Len(r.pending) \in Nat  BY <1>1, <1>6
      <3> QED  BY ONLY <3>1, <3>2, <3>3, k \in 1 .. Len(r.pending)
    <2>2. DOMAIN r.pending = 1 .. Len(r.pending)  BY <1>6
    <2> QED  BY ONLY <1>6, <1>12, <2>1, <2>2 DEF DealsAre
  <1>22. \A t \in Tid : c[t] + e[t] = b[t] + d[t] /\ (b[t] = 0 => c[t] = 0) /\ (t \notin H => e[t] = d[t])
    <2> SUFFICES ASSUME NEW t \in Tid
                 PROVE  c[t] + e[t] = b[t] + d[t] /\ (b[t] = 0 => c[t] = 0) /\ (t \notin H => e[t] = d[t])
      OBVIOUS
    <2>1. /\ b[t] \in Int /\ d[t] \in Int /\ e[t] \in Int /\ (b[t] = 0 => c[t] = 0)
          /\ (t \notin H => e[t] = d[t]) /\ (t \notin H => b[t] = 0)
          /\ c[t] = IF t \in H THEN b[t] + d[t] - e[t] ELSE 0
      BY <1>1, <1>12, <1>14, <1>17
    <2> QED  BY ONLY <2>1
  <1>23. SumOver(UnsentHalves, r.pending) = SumOver(UnsentHalves, pe) - Half(price > 0, r.ack_volume)
    <2>1. r.ack_volume \in Int  BY <1>8
    <2> QED  BY ONLY <1>9, <1>10, <1>11, <2>1 DEF Half
  <1>24. IsMarket(r)  BY ONLY <1>5 DEF Markets, IsMarket
  <1> QED  BY ONLY <1>24, <1>7, <1>8, <1>19, <1>20, <1>21, <1>22, <1>23 DEF Traded

-----------------------------------------------------------------------------
(***************************************************************************)
(* A step is about one user: the requests about the others stay, and the   *)
(* new requests N are about him.                                           *)
(***************************************************************************)
Others(C, u) == {c \in C : c.user # u}

\* At most one request, about this user.
Single(N, u) == (\A n \in N : n.user = u) /\ (\A n, m \in N : n = m)

LEMMA OthersAre ==
    ASSUME NEW C, NEW x, CallsAre(C, x), NEW u
    PROVE  /\ NoneAbout(C, u) => Others(C, u) = C
           /\ \A c \in C : c.user = u => Others(C, u) = C \ {c}
  BY DEF CallsAre, NoneAbout, Others

LEMMA SingleIs == \A n : Single({n}, n.user) /\ \A u : Single({}, u)
  BY DEF Single

LEMMA CallsHanded ==
    ASSUME NEW C, NEW x, CallsAre(C, x), NEW u, NEW N, Single(N, u), \A n \in N : CallIs(n, x)
    PROVE  CallsAre(Others(C, u) \cup N, x)
  BY DEF CallsAre, Others, Single

\* Whose order a request is about.
LEMMA AboutOwn ==
    ASSUME NEW C, NEW x, CallsAre(C, x), NEW c \in C
    PROVE  /\ c.op = "TRANSACTION" => TidOf(c) = 0
           /\ c.op # "TRANSACTION" => TidOf(c) \in Tid \ {0} /\ x[TidOf(c)].user = c.user
           /\ c.user \in User /\ c.op \in {"COMMISSION", "BALANCE", "CANCEL", "TRANSACTION"}
  BY DEF CallsAre, CallIs, TidOf

\* The orders of a user that his request is not about.
LEMMA LedgerAt ==
    ASSUME NEW C, NEW x, CallsAre(C, x), NEW H, NEW b, NEW d, NEW r, NEW a, Ledger(C, H, b, d, r, a),
           NEW s \in Tid \ {0}, \A c \in C : c.user = x[s].user => TidOf(c) # s
    PROVE  b[s] + d[s] = r[s] /\ a[s] = r[s]
  <1>1. \A c \in C : TidOf(c) # s  BY AboutOwn
  <1> QED  BY <1>1 DEF Ledger

Agree(s, H, b, d, r, a, K, c, e, q, f) ==
    b[s] = c[s] /\ d[s] = e[s] /\ r[s] = q[s] /\ a[s] = f[s] /\ (s \in H <=> s \in K)

LEMMA SettlingSame ==
    ASSUME NEW n, NEW H, NEW b, NEW d, NEW r, NEW a, NEW K, NEW c, NEW e, NEW q, NEW f,
           Settling(n, H, b, d, r, a), n.op # "TRANSACTION" => Agree(TidOf(n), H, b, d, r, a, K, c, e, q, f)
    PROVE  Settling(n, K, c, e, q, f)
  <1>1. CASE n.op \in {"COMMISSION", "BALANCE", "CANCEL"}  BY <1>1 DEF Settling, Agree
  <1>2. CASE n.op \notin {"COMMISSION", "BALANCE", "CANCEL"}  BY <1>2 DEF Settling
  <1> QED  BY <1>1, <1>2

LEMMA LedgerHanded ==
    ASSUME NEW C, NEW x, CallsAre(C, x), NEW H, NEW b, NEW d, NEW r, NEW a, Ledger(C, H, b, d, r, a),
           NEW K, NEW c, NEW e, NEW q, NEW f, NEW u, NEW N,
           \A s \in Tid \ {0} : x[s].user # u => Agree(s, H, b, d, r, a, K, c, e, q, f),
           \A n \in N : Settling(n, K, c, e, q, f),
           \A s \in Tid \ {0} : x[s].user = u /\ (\A n \in N : TidOf(n) # s) => c[s] + e[s] = q[s] /\ f[s] = q[s]
    PROVE  Ledger(Others(C, u) \cup N, K, c, e, q, f)
  <1> DEFINE D == Others(C, u) \cup N
  <1>1. ASSUME NEW s \in Tid \ {0}, \A n \in D : TidOf(n) # s PROVE c[s] + e[s] = q[s] /\ f[s] = q[s]
    <2>1. CASE x[s].user = u  BY <1>1, <2>1
    <2>2. CASE x[s].user # u
      <3>1. \A n \in C : n.user = x[s].user => TidOf(n) # s  BY <1>1, <2>2 DEF Others
      <3>2. b[s] + d[s] = r[s] /\ a[s] = r[s]  BY <3>1, LedgerAt
      <3>3. Agree(s, H, b, d, r, a, K, c, e, q, f)  BY <2>2
      <3> QED  BY ONLY <3>2, <3>3 DEF Agree
    <2> QED  BY <2>1, <2>2
  <1>2. ASSUME NEW n \in Others(C, u) PROVE Settling(n, K, c, e, q, f)
    <2>1. n \in C /\ n.user # u  BY DEF Others
    <2>2. Settling(n, H, b, d, r, a)  BY <2>1 DEF Ledger
    <2>3. n.op # "TRANSACTION" => TidOf(n) \in Tid \ {0} /\ x[TidOf(n)].user # u  BY <2>1, AboutOwn
    <2>4. n.op # "TRANSACTION" => Agree(TidOf(n), H, b, d, r, a, K, c, e, q, f)  BY <2>3
    <2> QED  BY ONLY <2>2, <2>4, SettlingSame
  <1> QED  BY <1>1, <1>2 DEF Ledger

LEMMA SendsHanded ==
    ASSUME NEW C, NEW x, CallsAre(C, x), NEW pe, Sends(pe, C), NEW u, NEW N,
           \A k \in DOMAIN pe : pe[k].status = "BALANCE_WAIT" => x[pe[k].order.tid].user # u,
           \A n \in N : n.op # "BALANCE"
    PROVE  Sends(pe, Others(C, u) \cup N)
  <1>1. ASSUME NEW k \in DOMAIN pe, pe[k].status = "BALANCE_WAIT"
        PROVE  \E c \in Others(C, u) \cup N : c.op = "BALANCE" /\ c.arg.tid = pe[k].order.tid
    <2>1. PICK c \in C : c.op = "BALANCE" /\ c.arg.tid = pe[k].order.tid  BY <1>1 DEF Sends
    <2>2. c.user # u  BY <1>1, <2>1, AboutOwn DEF TidOf
    <2> QED  BY <2>1, <2>2 DEF Others
  <1> QED  BY <1>1 DEF Sends, Others

FundsNow(N, u, fu, as, fv, bs) ==
    /\ fv \in [User -> [cash : Int, money : Int]]
    /\ \A v \in User \ {u} : fv[v] = fu[v] /\ bs[v].cash = as[v].cash /\ bs[v].money = as[v].money
    /\ \A n \in N : Paid(n) => n.res.cash = fv[u].cash /\ n.res.money = fv[u].money
    /\ (\A n \in N : ~Paid(n)) => bs[u].cash = fv[u].cash /\ bs[u].money = fv[u].money

LEMMA FundsHanded ==
    ASSUME NEW C, NEW x, CallsAre(C, x), NEW fu, NEW as, FundsAre(fu, as, C), NEW u \in User, NEW N, Single(N, u),
           NEW fv, NEW bs, FundsNow(N, u, fu, as, fv, bs)
    PROVE  FundsAre(fv, bs, Others(C, u) \cup N)
  <1>1. ASSUME NEW v \in User, \A c \in Others(C, u) \cup N : Paid(c) => c.user # v
        PROVE  bs[v].cash = fv[v].cash /\ bs[v].money = fv[v].money
    <2>1. CASE v = u  BY <1>1, <2>1 DEF Single, FundsNow
    <2>2. CASE v # u
      <3>1. \A c \in C : Paid(c) => c.user # v  BY <1>1, <2>2 DEF Others
      <3> QED  BY <2>2, <3>1 DEF FundsAre, FundsNow
    <2> QED  BY <2>1, <2>2
  <1>2. ASSUME NEW c \in Others(C, u) \cup N, Paid(c)
        PROVE  c.res.cash = fv[c.user].cash /\ c.res.money = fv[c.user].money
    <2>1. CASE c \in N  BY <1>2, <2>1 DEF Single, FundsNow
    <2>2. CASE c \in Others(C, u)
      <3>1. c \in C /\ c.user \in User \ {u}  BY <2>2, AboutOwn DEF Others
      <3> QED  BY <1>2, <2>2, <3>1 DEF FundsAre, FundsNow
    <2> QED  BY <2>1, <2>2
  <1> QED  BY <1>1, <1>2 DEF FundsAre, FundsNow

-----------------------------------------------------------------------------
(***************************************************************************)
(* What a user has on offer.                                               *)
(***************************************************************************)
SellWeight(x, r, u) == [t \in Tid |-> IF x[t].user = u /\ x[t].price > 0 THEN r[t] ELSE 0]
BuyWeight(x, r, u)  == [t \in Tid |-> IF x[t].user = u /\ x[t].price < 0 THEN x[t].price * r[t] ELSE 0]

LEMMA OfferWeights ==
    ASSUME NEW x \in [Tid -> Whose], NEW r \in [Tid -> Nat], NEW u
    PROVE  /\ Sells(x, r, u) = SumFunctionOnSet(SellWeight(x, r, u), Tid)
           /\ Buys(x, r, u) = SumFunctionOnSet(BuyWeight(x, r, u), Tid)
           /\ \A t \in Tid : /\ x[t].user \in User /\ x[t].price \in Int /\ x[t].price # 0 /\ Multiple(x[t].price)
                             /\ SellWeight(x, r, u)[t] = IF x[t].user = u /\ x[t].price > 0 THEN r[t] ELSE 0
                             /\ BuyWeight(x, r, u)[t] = IF x[t].user = u /\ x[t].price < 0 THEN x[t].price * r[t] ELSE 0
                             /\ SellWeight(x, r, u)[t] \in Nat /\ BuyWeight(x, r, u)[t] \in Int
  <1>1. \A t \in Tid : x[t].user \in User /\ x[t].price \in Prices /\ r[t] \in Nat  BY DEF Whose
  <1>2. \A t \in Tid : x[t].price \in Int /\ x[t].price # 0 /\ Multiple(x[t].price)  BY <1>1, PricesAre
  <1>3. \A t \in Tid : x[t].price * r[t] \in Int  BY <1>1, <1>2
  <1>4. ASSUME NEW t \in Tid
        PROVE /\ SellWeight(x, r, u)[t] = IF x[t].user = u /\ x[t].price > 0 THEN r[t] ELSE 0
              /\ BuyWeight(x, r, u)[t] = IF x[t].user = u /\ x[t].price < 0 THEN x[t].price * r[t] ELSE 0
    BY DEF SellWeight, BuyWeight
  <1>5. \A t \in Tid : SellWeight(x, r, u)[t] \in Nat /\ BuyWeight(x, r, u)[t] \in Int  BY <1>1, <1>3, <1>4
  <1> QED  BY <1>1, <1>2, <1>4, <1>5 DEF Sells, Buys, SellWeight, BuyWeight

LEMMA OfferTypes ==
    ASSUME NEW x \in [Tid -> Whose], NEW r \in [Tid -> Nat], NEW u
    PROVE  Sells(x, r, u) \in Nat /\ Buys(x, r, u) \in Int
  <1>1. Sells(x, r, u) \in Nat
    <2> DEFINE f == SellWeight(x, r, u)
    <2>1. Sells(x, r, u) = SumFunctionOnSet(f, Tid) /\ \A t \in Tid : f[t] \in Nat  BY OfferWeights
    <2> HIDE DEF f
    <2>2. SumFunctionOnSet(f, Tid) \in Nat  BY ONLY <2>1, TidsAre, SumNat
    <2> QED  BY ONLY <2>1, <2>2
  <1>2. Buys(x, r, u) \in Int
    <2> DEFINE f == BuyWeight(x, r, u)
    <2>1. Buys(x, r, u) = SumFunctionOnSet(f, Tid) /\ \A t \in Tid : f[t] \in Int  BY OfferWeights
    <2> HIDE DEF f
    <2>2. SumFunctionOnSet(f, Tid) \in Int  BY ONLY <2>1, TidsAre, SumType
    <2> QED  BY ONLY <2>1, <2>2
  <1> QED  BY <1>1, <1>2

LEMMA SellsSame ==
    ASSUME NEW x \in [Tid -> Whose], NEW z \in [Tid -> Whose], NEW r \in [Tid -> Nat], NEW q \in [Tid -> Nat], NEW u,
           \A s \in Tid : (r[s] = q[s] /\ z[s] = x[s]) \/ (r[s] = 0 /\ q[s] = 0) \/ (x[s].user # u /\ z[s].user # u)
    PROVE  Sells(z, q, u) = Sells(x, r, u) /\ Buys(z, q, u) = Buys(x, r, u)
  <1>1. ASSUME NEW s \in Tid
        PROVE  SellWeight(z, q, u)[s] = SellWeight(x, r, u)[s] /\ BuyWeight(z, q, u)[s] = BuyWeight(x, r, u)[s]
    <2>1. /\ SellWeight(x, r, u)[s] = IF x[s].user = u /\ x[s].price > 0 THEN r[s] ELSE 0
          /\ BuyWeight(x, r, u)[s] = IF x[s].user = u /\ x[s].price < 0 THEN x[s].price * r[s] ELSE 0
          /\ SellWeight(z, q, u)[s] = IF z[s].user = u /\ z[s].price > 0 THEN q[s] ELSE 0
          /\ BuyWeight(z, q, u)[s] = IF z[s].user = u /\ z[s].price < 0 THEN z[s].price * q[s] ELSE 0
          /\ x[s].price \in Int /\ z[s].price \in Int
      BY OfferWeights
    <2>2. CASE r[s] = q[s] /\ z[s] = x[s]  BY <2>1, <2>2
    <2>3. CASE r[s] = 0 /\ q[s] = 0
      <3>1. x[s].price * r[s] = 0 /\ z[s].price * q[s] = 0  BY <2>1, <2>3
      <3> QED  BY <2>1, <2>3, <3>1
    <2>4. CASE x[s].user # u /\ z[s].user # u  BY <2>1, <2>4
    <2> QED  BY <2>2, <2>3, <2>4
  <1>2. /\ \A s \in Tid : SellWeight(x, r, u)[s] \in Int /\ SellWeight(z, q, u)[s] = SellWeight(x, r, u)[s]
        /\ \A s \in Tid : BuyWeight(x, r, u)[s] \in Int /\ BuyWeight(z, q, u)[s] = BuyWeight(x, r, u)[s]
    BY <1>1, OfferWeights
  <1>3. /\ SumFunctionOnSet(SellWeight(x, r, u), Tid) = SumFunctionOnSet(SellWeight(z, q, u), Tid)
        /\ SumFunctionOnSet(BuyWeight(x, r, u), Tid) = SumFunctionOnSet(BuyWeight(z, q, u), Tid)
    <2> DEFINE f == SellWeight(x, r, u)
               g == SellWeight(z, q, u)
               h == BuyWeight(x, r, u)
               k == BuyWeight(z, q, u)
    <2>1. \A s \in Tid : f[s] \in Int /\ g[s] = f[s]  BY <1>2
    <2>4. \A s \in Tid : h[s] \in Int /\ k[s] = h[s]  BY <1>2
    <2>5. IsFiniteSet(Tid)  BY TidsAre
    <2> HIDE DEF f, g, h, k
    <2>2. SumFunctionOnSet(f, Tid) = SumFunctionOnSet(g, Tid)  BY ONLY <2>1, <2>5, SumSame
    <2>3. SumFunctionOnSet(h, Tid) = SumFunctionOnSet(k, Tid)  BY ONLY <2>4, <2>5, SumSame
    <2> QED  BY <2>2, <2>3 DEF f, g, h, k
  <1> QED  BY <1>3, OfferWeights

\* The lots of one order change.
OfferMoved(x, r, q, t, u, p) ==
    /\ Sells(x, q, u) = Sells(x, r, u) + IF p > 0 THEN q[t] - r[t] ELSE 0
    /\ Buys(x, q, u) = Buys(x, r, u) + IF p < 0 THEN p * q[t] - p * r[t] ELSE 0

LEMMA SellsChange ==
    ASSUME NEW x \in [Tid -> Whose], NEW r \in [Tid -> Nat], NEW q \in [Tid -> Nat], NEW t \in Tid,
           \A s \in Tid \ {t} : q[s] = r[s]
    PROVE  OfferMoved(x, r, q, t, x[t].user, x[t].price)
  <1> DEFINE u == x[t].user
             p == x[t].price
             R == Tid \ {t}
  <1>1. IsFiniteSet(R) /\ t \notin R /\ Tid = R \cup {t}  BY TidsAre, FS_Difference
  <1>2. \A s \in R : /\ SellWeight(x, q, u)[s] = SellWeight(x, r, u)[s]
                     /\ BuyWeight(x, q, u)[s] = BuyWeight(x, r, u)[s]
    <2> SUFFICES ASSUME NEW s \in R PROVE /\ SellWeight(x, q, u)[s] = SellWeight(x, r, u)[s]
                                          /\ BuyWeight(x, q, u)[s] = BuyWeight(x, r, u)[s]
      OBVIOUS
    <2>1. q[s] = r[s] /\ s \in Tid  OBVIOUS
    <2> QED  BY ONLY <2>1, OfferWeights, x \in [Tid -> Whose], r \in [Tid -> Nat], q \in [Tid -> Nat]
  <1>3. /\ \A s \in Tid : /\ SellWeight(x, r, u)[s] \in Int /\ SellWeight(x, q, u)[s] \in Int
                          /\ BuyWeight(x, r, u)[s] \in Int /\ BuyWeight(x, q, u)[s] \in Int
        /\ SellWeight(x, r, u)[t] = IF p > 0 THEN r[t] ELSE 0
        /\ SellWeight(x, q, u)[t] = IF p > 0 THEN q[t] ELSE 0
        /\ BuyWeight(x, r, u)[t] = IF p < 0 THEN p * r[t] ELSE 0
        /\ BuyWeight(x, q, u)[t] = IF p < 0 THEN p * q[t] ELSE 0
    BY OfferWeights
  <1> HIDE DEF R, u
  <1>4. PICK k \in Int : /\ SumFunctionOnSet(SellWeight(x, r, u), R \cup {t}) = SellWeight(x, r, u)[t] + k
                         /\ SumFunctionOnSet(SellWeight(x, q, u), R \cup {t}) = SellWeight(x, q, u)[t] + k
    <2>1. /\ \A s \in R : SellWeight(x, r, u)[s] \in Int /\ SellWeight(x, q, u)[s] = SellWeight(x, r, u)[s]
          /\ SellWeight(x, r, u)[t] \in Int /\ SellWeight(x, q, u)[t] \in Int
      BY <1>1, <1>2, <1>3
    <2> QED  BY ONLY <1>1, <2>1, SumChange
  <1>5. PICK m \in Int : /\ SumFunctionOnSet(BuyWeight(x, r, u), R \cup {t}) = BuyWeight(x, r, u)[t] + m
                         /\ SumFunctionOnSet(BuyWeight(x, q, u), R \cup {t}) = BuyWeight(x, q, u)[t] + m
    <2>1. /\ \A s \in R : BuyWeight(x, r, u)[s] \in Int /\ BuyWeight(x, q, u)[s] = BuyWeight(x, r, u)[s]
          /\ BuyWeight(x, r, u)[t] \in Int /\ BuyWeight(x, q, u)[t] \in Int
      BY <1>1, <1>2, <1>3
    <2> QED  BY ONLY <1>1, <2>1, SumChange
  <1>6. /\ Sells(x, r, u) = SellWeight(x, r, u)[t] + k /\ Sells(x, q, u) = SellWeight(x, q, u)[t] + k
        /\ Buys(x, r, u) = BuyWeight(x, r, u)[t] + m /\ Buys(x, q, u) = BuyWeight(x, q, u)[t] + m
    BY <1>1, <1>4, <1>5, OfferWeights
  <1>7. r[t] \in Int /\ q[t] \in Int /\ p \in Int /\ p * q[t] \in Int /\ p * r[t] \in Int
    <2>1. r[t] \in Int /\ q[t] \in Int /\ p \in Int  BY OfferWeights
    <2> QED  BY <2>1
  <1> HIDE DEF p
  <1>8. /\ Sells(x, q, u) = Sells(x, r, u) + IF p > 0 THEN q[t] - r[t] ELSE 0
        /\ Buys(x, q, u) = Buys(x, r, u) + IF p < 0 THEN p * q[t] - p * r[t] ELSE 0
    BY ONLY <1>3, <1>6, <1>7, k \in Int, m \in Int
  <1> QED  BY <1>8 DEF OfferMoved, u, p

-----------------------------------------------------------------------------
(***************************************************************************)
(* What a user is shown.                                                   *)
(***************************************************************************)
LEMMA ShownIs ==
    ASSUME NEW x, NEW a, NEW u
    PROVE  /\ \A o \in Shown(x, a, u) :
                  \E t \in Tid : a[t] > 0 /\ x[t].user = u /\ o = OrderShown(x, a, t) /\ o.tid = t
           /\ \A t \in Tid : a[t] > 0 /\ x[t].user = u => OrderShown(x, a, t) \in Shown(x, a, u)
           /\ \A t : OrderShown(x, a, t).tid = t /\ OrderShown(x, a, t).price = x[t].price
                     /\ OrderShown(x, a, t).volume = a[t]
  BY DEF Shown, OrderShown

LEMMA ShownSame ==
    ASSUME NEW x, NEW a, NEW z, NEW f, NEW u,
           \A s \in Tid : (a[s] = f[s] /\ z[s] = x[s]) \/ (a[s] = 0 /\ f[s] = 0) \/ (x[s].user # u /\ z[s].user # u)
    PROVE  Shown(z, f, u) = Shown(x, a, u)
  <1>1. ASSUME NEW s \in Tid
        PROVE  /\ a[s] > 0 /\ x[s].user = u => f[s] > 0 /\ z[s].user = u /\ OrderShown(x, a, s) = OrderShown(z, f, s)
               /\ f[s] > 0 /\ z[s].user = u => a[s] > 0 /\ x[s].user = u /\ OrderShown(x, a, s) = OrderShown(z, f, s)
    BY DEF OrderShown
  <1>2. \A o \in Shown(x, a, u) : o \in Shown(z, f, u)  BY <1>1, ShownIs
  <1>3. \A o \in Shown(z, f, u) : o \in Shown(x, a, u)  BY <1>1, ShownIs
  <1> QED  BY <1>2, <1>3

\* The sum over some orders, each told by its id, is one over the ids.
LEMMA ShownSum ==
    ASSUME NEW S \in SUBSET Tid, NEW name, NEW R, Renaming(name, S, R), NEW f, NEW h,
           \A t \in S : h[t] \in Int /\ f[name[t]] = h[t], \A t \in Tid : t \notin S => h[t] = 0
    PROVE  SumFunctionOnSet(f, R) = SumFunctionOnSet(h, Tid)
  <1>1. IsFiniteSet(S) /\ IsFiniteSet(Tid)  BY TidsAre, FS_Subset
  <1>2. Renamed(h, f, name, S)  BY DEF Renamed
  <1>3. SumFunctionOnSet(f, R) = SumFunctionOnSet(h, S)  BY ONLY <1>1, <1>2, Renaming(name, S, R), SumRenamed
  <1>4. OnlyCounts(S, h, h, Tid)  BY DEF OnlyCounts
  <1>5. SumFunctionOnSet(h, S) = SumFunctionOnSet(h, Tid)  BY ONLY <1>1, <1>4, SumSubset
  <1> QED  BY <1>3, <1>5

LEMMA ShownOffers ==
    ASSUME NEW x \in [Tid -> Whose], NEW a \in [Tid -> Nat], NEW u, NEW os, os = Shown(x, a, u)
    PROVE  /\ Sum(LAMBDA o : o.volume, {o \in os : o.price > 0}) = Sells(x, a, u)
           /\ Sum(LAMBDA o : o.volume * o.price, {o \in os : o.price < 0}) = Buys(x, a, u)
  <1> DEFINE name == [t \in Tid |-> OrderShown(x, a, t)]
  <1>1. /\ \A o \in os : \E t \in Tid : a[t] > 0 /\ x[t].user = u /\ o = name[t]
        /\ \A t \in Tid : a[t] > 0 /\ x[t].user = u => name[t] \in os
        /\ \A t \in Tid : name[t].tid = t /\ name[t].price = x[t].price /\ name[t].volume = a[t]
    BY ShownIs
  <1>2. \A t \in Tid : a[t] \in Nat /\ x[t].price \in Int  BY OfferWeights
  <1> HIDE DEF name
  <1>3. Sum(LAMBDA o : o.volume, {o \in os : o.price > 0}) = Sells(x, a, u)
    <2> DEFINE R == {o \in os : o.price > 0}
               S == {t \in Tid : a[t] > 0 /\ x[t].user = u /\ x[t].price > 0}
               f == [o \in R |-> o.volume]
               h == SellWeight(x, a, u)
    <2>1. /\ \A o \in R : o \in os /\ o.price > 0
          /\ \A o \in os : o.price > 0 => o \in R /\ f[o] = o.volume
          /\ \A t \in S : t \in Tid /\ a[t] > 0 /\ x[t].user = u /\ x[t].price > 0
          /\ \A t \in Tid : a[t] > 0 /\ x[t].user = u /\ x[t].price > 0 => t \in S
      OBVIOUS
    <2>2. S \in SUBSET Tid  OBVIOUS
    <2>3. \A t \in Tid : h[t] = (IF x[t].user = u /\ x[t].price > 0 THEN a[t] ELSE 0) /\ h[t] \in Int  BY OfferWeights
    <2>4. Sum(LAMBDA o : o.volume, {o \in os : o.price > 0}) = SumFunctionOnSet(f, R)  BY DEF Sum
    <2>5. Sells(x, a, u) = SumFunctionOnSet(h, Tid)  BY OfferWeights
    <2> HIDE DEF R, S, f, h
    <2>6. Renaming(name, S, R)
      <3>1. \A t \in S : name[t] \in R  BY ONLY <1>1, <2>1
      <3>2. \A o \in R : \E t \in S : name[t] = o  BY ONLY <1>1, <2>1
      <3>3. \A s, t \in S : name[s] = name[t] => s = t  BY ONLY <1>1, <2>1
      <3> QED  BY <3>1, <3>2, <3>3 DEF Renaming
    <2>7. \A t \in S : h[t] \in Int /\ f[name[t]] = h[t]  BY ONLY <1>1, <2>1, <2>3
    <2>8. \A t \in Tid : t \notin S => h[t] = 0  BY ONLY <1>2, <2>1, <2>3
    <2>9. SumFunctionOnSet(f, R) = SumFunctionOnSet(h, Tid)  BY ONLY <2>2, <2>6, <2>7, <2>8, ShownSum
    <2> QED  BY ONLY <2>4, <2>5, <2>9
  <1>4. Sum(LAMBDA o : o.volume * o.price, {o \in os : o.price < 0}) = Buys(x, a, u)
    <2> DEFINE R == {o \in os : o.price < 0}
               S == {t \in Tid : a[t] > 0 /\ x[t].user = u /\ x[t].price < 0}
               f == [o \in R |-> o.volume * o.price]
               h == BuyWeight(x, a, u)
    <2>1. /\ \A o \in R : o \in os /\ o.price < 0
          /\ \A o \in os : o.price < 0 => o \in R /\ f[o] = o.volume * o.price
          /\ \A t \in S : t \in Tid /\ a[t] > 0 /\ x[t].user = u /\ x[t].price < 0
          /\ \A t \in Tid : a[t] > 0 /\ x[t].user = u /\ x[t].price < 0 => t \in S
      OBVIOUS
    <2>2. S \in SUBSET Tid  OBVIOUS
    <2>3. \A t \in Tid : h[t] = (IF x[t].user = u /\ x[t].price < 0 THEN x[t].price * a[t] ELSE 0) /\ h[t] \in Int
      BY OfferWeights
    <2>4. Sum(LAMBDA o : o.volume * o.price, {o \in os : o.price < 0}) = SumFunctionOnSet(f, R)  BY DEF Sum
    <2>5. Buys(x, a, u) = SumFunctionOnSet(h, Tid)  BY OfferWeights
    <2> HIDE DEF R, S, f, h
    <2>6. Renaming(name, S, R)
      <3>1. \A t \in S : name[t] \in R  BY ONLY <1>1, <2>1
      <3>2. \A o \in R : \E t \in S : name[t] = o  BY ONLY <1>1, <2>1
      <3>3. \A s, t \in S : name[s] = name[t] => s = t  BY ONLY <1>1, <2>1
      <3> QED  BY <3>1, <3>2, <3>3 DEF Renaming
    <2>7. \A t \in S : h[t] \in Int /\ f[name[t]] = h[t]
      <3> SUFFICES ASSUME NEW t \in S PROVE h[t] \in Int /\ f[name[t]] = h[t]  OBVIOUS
      <3>1. t \in Tid /\ a[t] \in Int /\ x[t].price \in Int  BY <1>2, <2>1
      <3>2. f[name[t]] = a[t] * x[t].price  BY ONLY <1>1, <2>1, t \in S
      <3>3. h[t] = x[t].price * a[t] /\ h[t] \in Int  BY ONLY <2>1, <2>3, t \in S
      <3>4. x[t].price * a[t] = a[t] * x[t].price  BY ONLY <3>1
      <3> QED  BY ONLY <3>2, <3>3, <3>4
    <2>8. \A t \in Tid : t \notin S => h[t] = 0
      <3> SUFFICES ASSUME NEW t \in Tid, t \notin S PROVE h[t] = 0  OBVIOUS
      <3>1. a[t] \in Nat /\ x[t].price \in Int  BY <1>2
      <3>2. a[t] = 0 => x[t].price * a[t] = 0  BY ONLY <3>1
      <3> QED  BY ONLY <3>1, <3>2, <2>1, <2>3, t \in Tid, t \notin S
    <2>9. SumFunctionOnSet(f, R) = SumFunctionOnSet(h, Tid)  BY ONLY <2>2, <2>6, <2>7, <2>8, ShownSum
    <2> QED  BY ONLY <2>4, <2>5, <2>9
  <1> QED  BY <1>3, <1>4

\* An order is shown, is shown with fewer lots, or no longer.
LEMMA ShownMore ==
    ASSUME NEW x, NEW a, NEW t \in Tid, a[t] = 0, NEW n \in Nat, n > 0, NEW f,
           f[t] = n, \A s \in Tid \ {t} : f[s] = a[s]
    PROVE  Shown(x, f, x[t].user) = Shown(x, a, x[t].user) \cup {[tid |-> t, price |-> x[t].price, volume |-> n]}
  <1> DEFINE u == x[t].user
             o == [tid |-> t, price |-> x[t].price, volume |-> n]
  <1>1. o = OrderShown(x, f, t)  BY DEF OrderShown
  <1>2. \A s \in Tid \ {t} : OrderShown(x, f, s) = OrderShown(x, a, s)  BY DEF OrderShown
  <1> HIDE DEF o
  <1>3. \A y \in Shown(x, f, u) : y \in Shown(x, a, u) \cup {o}
    <2> SUFFICES ASSUME NEW y \in Shown(x, f, u) PROVE y \in Shown(x, a, u) \cup {o}  OBVIOUS
    <2>1. PICK s \in Tid : f[s] > 0 /\ x[s].user = u /\ y = OrderShown(x, f, s)  BY ShownIs
    <2> QED  BY <1>1, <1>2, <2>1, ShownIs
  <1>4. \A y \in Shown(x, a, u) \cup {o} : y \in Shown(x, f, u)
    <2>1. o \in Shown(x, f, u)  BY <1>1, ShownIs
    <2>2. ASSUME NEW y \in Shown(x, a, u) PROVE y \in Shown(x, f, u)
      <3>1. PICK s \in Tid : a[s] > 0 /\ x[s].user = u /\ y = OrderShown(x, a, s)  BY ShownIs
      <3>2. s # t  BY <3>1
      <3> QED  BY <1>2, <3>1, <3>2, ShownIs
    <2> QED  BY <2>1, <2>2
  <1>5. Shown(x, f, u) = Shown(x, a, u) \cup {o}  BY <1>3, <1>4
  <1> QED  BY <1>5 DEF o

LEMMA ShownLess ==
    ASSUME NEW x, NEW a, NEW t \in Tid, NEW f, f[t] = 0, \A s \in Tid \ {t} : f[s] = a[s], NEW u
    PROVE  Shown(x, f, u) = Shown(x, a, u) \ {o \in Shown(x, a, u) : o.tid = t}
  <1>1. \A s \in Tid \ {t} : OrderShown(x, f, s) = OrderShown(x, a, s)  BY DEF OrderShown
  <1>2. ASSUME NEW y \in Shown(x, f, u) PROVE y \in Shown(x, a, u) /\ y.tid # t
    <2>1. PICK s \in Tid : f[s] > 0 /\ x[s].user = u /\ y = OrderShown(x, f, s) /\ y.tid = s  BY ShownIs
    <2>2. s # t  BY <2>1
    <2> QED  BY <1>1, <2>1, <2>2, ShownIs
  <1>3. ASSUME NEW y \in Shown(x, a, u), y.tid # t PROVE y \in Shown(x, f, u)
    <2>1. PICK s \in Tid : a[s] > 0 /\ x[s].user = u /\ y = OrderShown(x, a, s) /\ y.tid = s  BY ShownIs
    <2> QED  BY <1>1, <1>3, <2>1, ShownIs
  <1> QED  BY <1>2, <1>3

LEMMA ShownOne ==
    ASSUME NEW x, NEW a, NEW t \in Tid, a[t] > 0
    PROVE  {o \in Shown(x, a, x[t].user) : o.tid = t} = {[tid |-> t, price |-> x[t].price, volume |-> a[t]]}
  <1>1. [tid |-> t, price |-> x[t].price, volume |-> a[t]] = OrderShown(x, a, t)  BY DEF OrderShown
  <1> QED  BY <1>1, ShownIs

-----------------------------------------------------------------------------
\* Accounts that differ in their locks only.
SameButLocks(bs, as) ==
    /\ DOMAIN bs = DOMAIN as
    /\ \A u \in DOMAIN as : bs[u].cash = as[u].cash /\ bs[u].money = as[u].money /\ bs[u].orders = as[u].orders

LEMMA AccountsLocked ==
    ASSUME NEW as, NEW x, NEW a, AccountsAre(as, x, a), NEW bs, SameButLocks(bs, as)
    PROVE  AccountsAre(bs, x, a)
  BY DEF AccountsAre, SameButLocks

LEMMA FundsLocked ==
    ASSUME NEW C, NEW fu, NEW as, FundsAre(fu, as, C), NEW bs, SameButLocks(bs, as), DOMAIN as = User
    PROVE  FundsAre(fu, bs, C)
  BY DEF FundsAre, SameButLocks

LEMMA CoveredHanded ==
    ASSUME NEW x \in [Tid -> Whose], NEW C, CallsAre(C, x), NEW fu, NEW r \in [Tid -> Nat], Covered(fu, x, r, C),
           NEW u \in User, NEW N, Single(N, u),
           NEW q \in [Tid -> Nat], \A s \in Tid : x[s].user # u => q[s] = r[s],
           NEW fv, \A v \in User \ {u} : fv[v] = fu[v],
           Covers(fv[u].cash, fv[u].money, Sells(x, q, u), Buys(x, q, u)),
           \A n \in N : Promised(n, fv, x, q)
    PROVE  Covered(fv, x, q, Others(C, u) \cup N)
  <1>1. ASSUME NEW v \in User \ {u} PROVE Sells(x, q, v) = Sells(x, r, v) /\ Buys(x, q, v) = Buys(x, r, v)
    <2>1. \A s \in Tid : (r[s] = q[s] /\ x[s] = x[s]) \/ (r[s] = 0 /\ q[s] = 0) \/ (x[s].user # v /\ x[s].user # v)
      OBVIOUS
    <2> QED  BY ONLY <2>1, x \in [Tid -> Whose], r \in [Tid -> Nat], q \in [Tid -> Nat], SellsSame
  <1>2. ASSUME NEW v \in User PROVE Covers(fv[v].cash, fv[v].money, Sells(x, q, v), Buys(x, q, v))
    <2>1. CASE v = u  BY <2>1
    <2>2. CASE v # u
      <3>1. Covers(fu[v].cash, fu[v].money, Sells(x, r, v), Buys(x, r, v))  BY DEF Covered
      <3> QED  BY <1>1, <2>2, <3>1
    <2> QED  BY <2>1, <2>2
  <1>3. ASSUME NEW c \in Others(C, u) PROVE Promised(c, fv, x, q)
    <2>1. c \in C /\ c.user \in User \ {u}  BY AboutOwn DEF Others
    <2>2. Promised(c, fu, x, r)  BY <2>1 DEF Covered
    <2>3. fv[c.user] = fu[c.user] /\ Sells(x, q, c.user) = Sells(x, r, c.user) /\ Buys(x, q, c.user) = Buys(x, r, c.user)
      BY <1>1, <2>1
    <2>4. c.op = "COMMISSION" => q[TidOf(c)] = r[TidOf(c)]
      <3>1. c.op = "COMMISSION" => TidOf(c) \in Tid /\ x[TidOf(c)].user # u  BY <2>1, AboutOwn
      <3> QED  BY <3>1
    <2> QED  BY ONLY <2>2, <2>3, <2>4 DEF Promised
  <1> QED  BY <1>2, <1>3 DEF Covered

LEMMA HalvesHanded ==
    ASSUME NEW C, NEW x, CallsAre(C, x), NEW un, NEW pe, NEW g, HalvesMeet(un, pe, C, g),
           NEW u, NEW N, NEW h \in [Tid -> Int], h[0] = 0,
           \A s \in Tid \ {0} : x[s].user # u => h[s] = g[s],
           \A n \in N : Unserved(n) => h[TidOf(n)] = Half(n.arg.ack_money > 0, n.arg.ack_volume),
           \A s \in Tid \ {0} : x[s].user = u /\ (\A n \in N : Unserved(n) => TidOf(n) # s) => h[s] = 0,
           NEW um \in Int, NEW pf, um + SumOver(UnsentHalves, pf) + SumFunctionOnSet(h, Tid) = 0
    PROVE  HalvesMeet(um, pf, Others(C, u) \cup N, h)
  <1>1. ASSUME NEW c \in Others(C, u), Unserved(c) PROVE h[TidOf(c)] = Half(c.arg.ack_money > 0, c.arg.ack_volume)
    <2>1. c \in C /\ c.user # u /\ c.op # "TRANSACTION"  BY <1>1 DEF Others, Unserved
    <2>2. TidOf(c) \in Tid \ {0} /\ x[TidOf(c)].user # u  BY <2>1, AboutOwn
    <2>3. g[TidOf(c)] = Half(c.arg.ack_money > 0, c.arg.ack_volume)  BY <1>1, <2>1 DEF HalvesMeet
    <2> QED  BY <2>2, <2>3
  <1>2. ASSUME NEW s \in Tid, \A c \in Others(C, u) \cup N : Unserved(c) => TidOf(c) # s PROVE h[s] = 0
    <2>1. CASE s = 0  BY <2>1
    <2>2. CASE s # 0 /\ x[s].user = u  BY <1>2, <2>2
    <2>3. CASE s # 0 /\ x[s].user # u
      <3>1. ASSUME NEW c \in C, Unserved(c) PROVE TidOf(c) # s
        <4>1. CASE c.user = u  BY <2>3, <3>1, <4>1, AboutOwn
        <4>2. CASE c.user # u  BY <1>2, <3>1, <4>2 DEF Others
        <4> QED  BY <4>1, <4>2
      <3>2. g[s] = 0  BY <3>1 DEF HalvesMeet
      <3> QED  BY <2>3, <3>2
    <2> QED  BY <2>1, <2>2, <2>3
  <1>3. \A c \in Others(C, u) \cup N : Unserved(c) => h[TidOf(c)] = Half(c.arg.ack_money > 0, c.arg.ack_volume)
    BY <1>1
  <1> QED
    BY ONLY h \in [Tid -> Int], h[0] = 0, um \in Int, <1>2, <1>3,
            um + SumOver(UnsentHalves, pf) + SumFunctionOnSet(h, Tid) = 0 DEF HalvesMeet

\* One of the halves under way changes.
HalfNow(h, g, t, n) ==
    /\ h \in [Tid -> Int] /\ h[t] = n /\ \A s \in Tid \ {t} : h[s] = g[s]
    /\ h[0] = g[0]
    /\ SumFunctionOnSet(h, Tid) = SumFunctionOnSet(g, Tid) - g[t] + n
    /\ SumFunctionOnSet(g, Tid) \in Int

LEMMA HalfChanged ==
    ASSUME NEW g \in [Tid -> Int], NEW t \in Tid \ {0}, NEW n \in Int, NEW h, h = [g EXCEPT ![t] = n]
    PROVE  HalfNow(h, g, t, n)
  <1> DEFINE R == Tid \ {t}
  <1>1. IsFiniteSet(R) /\ t \notin R /\ Tid = R \cup {t}  BY TidsAre, FS_Difference
  <1>2. h \in [Tid -> Int] /\ h[t] = n /\ \A s \in Tid \ {t} : h[s] = g[s]  OBVIOUS
  <1>3. h[0] = g[0]  BY <1>2, TidsAre
  <1>4. (\A y \in R : g[y] \in Int /\ h[y] = g[y]) /\ g[t] \in Int /\ h[t] \in Int  BY <1>2
  <1> HIDE DEF R
  <1>5. PICK k \in Int : /\ SumFunctionOnSet(g, R \cup {t}) = g[t] + k
                         /\ SumFunctionOnSet(h, R \cup {t}) = h[t] + k
    BY ONLY <1>1, <1>4, SumChange
  <1>6. SumFunctionOnSet(g, Tid) = g[t] + k /\ SumFunctionOnSet(h, Tid) = h[t] + k  BY <1>1, <1>5
  <1> QED  BY <1>2, <1>3, <1>4, <1>6 DEF HalfNow

-----------------------------------------------------------------------------
(***************************************************************************)
(* Ids.                                                                    *)
(***************************************************************************)
\* NextId finds an id that is free.
LEMMA NextIdFresh ==
    ASSUME idpool \in SUBSET Tid, nextid \in Tid, Cardinality(idpool) < MaxOrderId
    PROVE  NextId \in Tid \ idpool
  <1> DEFINE n == MaxOrderId
             free == {k \in 1 .. n : (nextid + k) % n \notin idpool}
  <1>1. n \in Nat /\ n > 0 /\ nextid \in Nat /\ Skip \in Nat  BY ExchangeAssumption, TidsAre
  <1>2. ASSUME NEW m \in 0 .. n - 1 PROVE \E k \in 1 .. n : (nextid + k) % n = m
    <2> DEFINE z == nextid \div n
               q == nextid % n
    <2>1. nextid = n * z + q /\ z \in Int /\ q \in 0 .. n - 1  BY <1>1, DivMod
    <2> HIDE DEF z, q, n
    <2>2. CASE m > q
      <3> DEFINE k == m - q
      <3>1. k \in 1 .. n /\ nextid + k \in Nat /\ nextid + k = n * z + m
        <4>1. n * z \in Int  BY <1>1, <2>1
        <4> QED  BY ONLY <1>1, <2>1, <2>2, <4>1, m \in 0 .. n - 1
      <3> HIDE DEF k
      <3>2. (nextid + k) % n = m  BY ONLY <1>1, <2>1, <3>1, m \in 0 .. n - 1, ModIs
      <3> QED  BY <3>1, <3>2
    <2>3. CASE m <= q
      <3> DEFINE k == m - q + n
      <3>1. z + 1 \in Int /\ n * (z + 1) = n * z + n /\ n * z \in Int  BY <1>1, <2>1
      <3>2. k \in 1 .. n /\ nextid + k \in Nat /\ nextid + k = n * (z + 1) + m
        BY ONLY <1>1, <2>1, <2>3, <3>1, m \in 0 .. n - 1
      <3> DEFINE w == z + 1
                 a == nextid + k
      <3>4. w \in Int /\ a \in Nat /\ a = n * w + m  BY <3>1, <3>2
      <3> HIDE DEF k, w, a
      <3>5. a % n = m  BY ONLY <1>1, <3>4, m \in 0 .. n - 1, ModIs
      <3>3. (nextid + k) % n = m  BY <3>5 DEF a
      <3> QED  BY <3>2, <3>3
    <2>4. m > q \/ m <= q  BY ONLY <1>1, <2>1, m \in 0 .. n - 1
    <2> QED  BY <2>2, <2>3, <2>4
  <1>3. free # {}
    <2> SUFFICES ASSUME free = {} PROVE FALSE  OBVIOUS
    <2>1. \A k \in 1 .. n : (nextid + k) % n \in idpool  OBVIOUS
    <2>2. 0 .. n - 1 \subseteq idpool  BY ONLY <1>2, <2>1
    <2>3. IsFiniteSet(idpool)  BY TidsAre, FS_Subset
    <2>4. Cardinality(0 .. n - 1) <= Cardinality(idpool)  BY <2>2, <2>3, FS_Subset
    <2>5. Cardinality(0 .. n - 1) = n
      <3>1. 0 \in Int /\ n - 1 \in Int /\ ~(0 > n - 1)  BY <1>1
      <3>2. Cardinality(0 .. n - 1) = n - 1 - 0 + 1  BY <3>1, FS_Interval
      <3> QED  BY <1>1, <3>2
    <2>6. Cardinality(idpool) \in Nat  BY <2>3, FS_CardinalityType
    <2> QED  BY <1>1, <2>4, <2>5, <2>6
  <1>4. free \in SUBSET Nat /\ \A k \in free : (nextid + k) % n \notin idpool /\ k \in Nat  OBVIOUS
  <1>5. NextId = (nextid + Min(free)) % n  BY DEF NextId
  <1> HIDE DEF free
  <1>6. Min(free) \in free  BY <1>3, <1>4, MinOfSome
  <1>7. NextId \notin idpool /\ nextid + Min(free) \in Nat
    <2> DEFINE k == Min(free)
    <2>1. k \in free /\ NextId = (nextid + k) % n  BY <1>5, <1>6
    <2> HIDE DEF k
    <2>2. NextId \notin idpool /\ nextid + k \in Nat  BY ONLY <1>1, <1>4, <2>1
    <2> QED  BY <2>2 DEF k
  <1>8. NextId \in 0 .. n - 1
    <2> DEFINE a == nextid + Min(free)
    <2>1. a \in Nat  BY <1>7
    <2> HIDE DEF a
    <2>2. a % n \in 0 .. n - 1  BY <1>1, <2>1, DivMod
    <2> QED  BY <1>5, <2>2 DEF a
  <1> QED  BY <1>1, <1>7, <1>8 DEF Tid

-----------------------------------------------------------------------------
(***************************************************************************)
(* A new order gets an id that no order has.                               *)
(***************************************************************************)
Unused(t, H, pe, C, r, a) ==
    /\ t \in Tid \ {0} /\ t \notin H /\ r[t] = 0 /\ a[t] = 0
    /\ \A k \in DOMAIN pe : pe[k].status # "BALANCE_DONE" => pe[k].order.tid # t
    /\ \A c \in C : TidOf(c) # t

Renames(z, x, t) == z \in [Tid -> Whose] /\ x \in [Tid -> Whose] /\ \A s \in Tid \ {t} : z[s] = x[s]

LEMMA FreshIsUnused ==
    ASSUME NEW idp, NEW nid, NEW H, NEW pe, NEW C, NEW r \in [Tid -> Nat], NEW a \in [Tid -> Nat],
           IdsAre(idp, nid, H, pe, C, r, a), NEW t \in Tid \ idp
    PROVE  Unused(t, H, pe, C, r, a)
  BY DEF IdsAre, Unused

LEMMA NamedBook ==
    ASSUME NEW t, NEW H, NEW pe, NEW C, NEW r, NEW a, Unused(t, H, pe, C, r, a), NEW x, NEW z, Renames(z, x, t),
           NEW bk, NEW b, BookIs(bk, x, H, b)
    PROVE  BookIs(bk, z, H, b)
  <1>1. \A s \in H : z[s] = x[s]  BY DEF Unused, Renames, BookIs
  <1> QED  BY <1>1 DEF BookIs, Of

LEMMA NamedDeals ==
    ASSUME NEW t, NEW H, NEW pe, NEW C, NEW r, NEW a, Unused(t, H, pe, C, r, a), NEW x, NEW z, Renames(z, x, t),
           NEW d, DealsAre(pe, x, d)
    PROVE  DealsAre(pe, z, d) /\ d[t] = 0
  <1>1. ASSUME NEW k \in DOMAIN pe, pe[k].status # "BALANCE_DONE" PROVE SoundDeal(pe[k], z)
    <2>1. pe[k] \in Dls  BY DEF DealsAre
    <2>2. pe[k].order.tid \in Tid \ {t} /\ SoundDeal(pe[k], x)  BY <1>1, <2>1, DealWeighs DEF Unused, DealsAre
    <2>3. z[pe[k].order.tid] = x[pe[k].order.tid]  BY <2>2 DEF Renames
    <2> QED  BY ONLY <2>2, <2>3 DEF SoundDeal, Of
  <1>2. DealsAre(pe, z, d)  BY <1>1 DEF DealsAre
  <1>3. \A k \in DOMAIN pe : IsUnsent(pe[k]) => pe[k].order.tid # t  BY DEF IsUnsent, Unused
  <1>4. d[t] = 0  BY <1>3, LotsCounted DEF Unused
  <1> QED  BY <1>2, <1>4

LEMMA NamedRows ==
    ASSUME NEW t, NEW H, NEW pe, NEW C, NEW r, NEW a, Unused(t, H, pe, C, r, a), NEW x, NEW z, Renames(z, x, t),
           NEW st, RowsAre(st, x, r)
    PROVE  RowsAre(st, z, r)
  <1> DEFINE T == {s \in Tid : r[s] > 0}
             row(y, s) == [tid |-> s, user |-> y[s].user, price |-> y[s].price, volume |-> r[s]]
  <1>1. \A s \in T : z[s] = x[s]  BY DEF Unused, Renames
  <1>2. \A s \in T : row(z, s) = row(x, s)  BY <1>1
  <1>3. st = [s \in T |-> row(x, s)] /\ r \in [Tid -> Nat] /\ r[0] = 0  BY DEF RowsAre
  <1> HIDE DEF T, row
  <1>4. st = [s \in T |-> row(z, s)]  BY ONLY <1>2, <1>3
  <1> QED  BY <1>3, <1>4 DEF RowsAre, T, row

LEMMA NamedAccounts ==
    ASSUME NEW t, NEW H, NEW pe, NEW C, NEW r, NEW a, Unused(t, H, pe, C, r, a), NEW x, NEW z, Renames(z, x, t),
           NEW as, AccountsAre(as, x, a)
    PROVE  AccountsAre(as, z, a)
  <1>1. ASSUME NEW u \in User PROVE Shown(z, a, u) = Shown(x, a, u)
    <2>1. \A s \in Tid : (a[s] = a[s] /\ z[s] = x[s]) \/ (a[s] = 0 /\ a[s] = 0) \/ (x[s].user # u /\ z[s].user # u)
      BY DEF Unused, Renames
    <2> QED  BY ONLY <2>1, ShownSame
  <1> QED  BY <1>1 DEF AccountsAre

LEMMA NamedCalls ==
    ASSUME NEW t, NEW H, NEW pe, NEW C, NEW r, NEW a, Unused(t, H, pe, C, r, a), NEW x, NEW z, Renames(z, x, t),
           CallsAre(C, x)
    PROVE  CallsAre(C, z)
  <1>1. ASSUME NEW c \in C PROVE CallIs(c, z)
    <2>1. CallIs(c, x)  BY DEF CallsAre
    <2>2. CASE c.op = "TRANSACTION"  BY <2>1, <2>2 DEF CallIs
    <2>3. CASE c.op # "TRANSACTION"
      <3>1. TidOf(c) \in Tid \ {t}  BY <2>1, <2>3 DEF CallIs, Unused
      <3>2. z[TidOf(c)] = x[TidOf(c)]  BY <3>1 DEF Renames
      <3>3. (c.op = "COMMISSION" => TidOf(c) = c.arg.order.tid) /\ (c.op = "BALANCE" => TidOf(c) = c.arg.tid)
        BY DEF TidOf
      <3> QED  BY ONLY <2>1, <2>3, <3>2, <3>3 DEF CallIs, Of
    <2> QED  BY <2>2, <2>3
  <1> QED  BY <1>1 DEF CallsAre

LEMMA NamedCovered ==
    ASSUME NEW t, NEW H, NEW pe, NEW C, NEW r \in [Tid -> Nat], NEW a, Unused(t, H, pe, C, r, a),
           NEW x, NEW z, Renames(z, x, t), NEW fu, Covered(fu, x, r, C)
    PROVE  Covered(fu, z, r, C)
  <1>1. ASSUME NEW u PROVE Sells(z, r, u) = Sells(x, r, u) /\ Buys(z, r, u) = Buys(x, r, u)
    <2>1. \A s \in Tid : (r[s] = r[s] /\ z[s] = x[s]) \/ (r[s] = 0 /\ r[s] = 0) \/ (x[s].user # u /\ z[s].user # u)
      BY DEF Unused, Renames
    <2>2. x \in [Tid -> Whose] /\ z \in [Tid -> Whose]  BY DEF Renames
    <2> QED  BY ONLY <2>1, <2>2, r \in [Tid -> Nat], SellsSame
  <1>2. \A c \in C : Promised(c, fu, z, r)  BY <1>1 DEF Covered, Promised
  <1> QED  BY <1>1, <1>2 DEF Covered

ExactNow == \E x, H, b, d, r, a, g : Exact(x, H, b, d, r, a, g)

LEMMA Taxed ==
    ASSUME NEW m \in Int
    PROVE  /\ MoneyTaxed(m) \in Int /\ 100 * MoneyTaxed(m) <= 102 * m /\ 102 * m < 100 * MoneyTaxed(m) + 100
           /\ Multiple(m) => 100 * MoneyTaxed(m) = 102 * m
  <1>1. MoneyTaxed(m) \in Int /\ 100 * MoneyTaxed(m) <= 102 * m /\ 102 * m < 100 * MoneyTaxed(m) + 100
    BY DEF MoneyTaxed
  <1>2. ASSUME Multiple(m) PROVE 100 * MoneyTaxed(m) = 102 * m
    <2>1. PICK z \in Int : m = 100 * z  BY <1>2 DEF Multiple
    <2> QED  BY <1>1, <2>1
  <1> QED  BY <1>1, <1>2

\* What is known of a user no request is about.
Idle(x, b, d, r, a, own, f, u) ==
    /\ \A s \in Tid : x[s].user = u => a[s] = r[s] /\ (s # 0 => b[s] + d[s] = r[s])
    /\ own.cash = f.cash /\ own.money = f.money /\ own.orders = Shown(x, r, u)
    /\ FreeCash(own) = f.cash - 102 * Sells(x, r, u)
    /\ FreeMoney(own) = f.money + MoneyTaxed(Buys(x, r, u))
    /\ f.cash \in Int /\ f.money \in Int

LEMMA IdleUser ==
    ASSUME NEW x \in [Tid -> Whose], NEW C, CallsAre(C, x), NEW H, NEW b, NEW d, NEW r \in [Tid -> Nat], NEW a,
           Ledger(C, H, b, d, r, a), r[0] = 0, NEW as, AccountsAre(as, x, a), NEW fu, FundsAre(fu, as, C),
           NEW u \in User, NoneAbout(C, u)
    PROVE  Idle(x, b, d, r, a, as[u], fu[u], u)
  <1>1. ASSUME NEW s \in Tid, x[s].user = u PROVE a[s] = r[s] /\ (s # 0 => b[s] + d[s] = r[s])
    <2>1. CASE s = 0  BY <2>1 DEF AccountsAre
    <2>2. CASE s # 0
      <3>1. \A c \in C : c.user = x[s].user => TidOf(c) # s  BY <1>1 DEF NoneAbout
      <3> QED  BY <2>2, <3>1, LedgerAt
    <2> QED  BY <2>1, <2>2
  <1>2. as[u].cash = fu[u].cash /\ as[u].money = fu[u].money /\ fu[u].cash \in Int /\ fu[u].money \in Int
    BY DEF FundsAre, NoneAbout
  <1>3. as[u].orders = Shown(x, r, u)
    <2>1. \A s \in Tid : (a[s] = r[s] /\ x[s] = x[s]) \/ (a[s] = 0 /\ r[s] = 0) \/ (x[s].user # u /\ x[s].user # u)
      BY <1>1
    <2>2. Shown(x, r, u) = Shown(x, a, u)  BY ONLY <2>1, ShownSame
    <2> QED  BY <2>2 DEF AccountsAre
  <1>4. /\ Sum(LAMBDA o : o.volume, {o \in as[u].orders : o.price > 0}) = Sells(x, r, u)
        /\ Sum(LAMBDA o : o.volume * o.price, {o \in as[u].orders : o.price < 0}) = Buys(x, r, u)
    BY ONLY <1>3, x \in [Tid -> Whose], r \in [Tid -> Nat], ShownOffers
  <1>5. FreeCash(as[u]) = fu[u].cash - 102 * Sells(x, r, u) /\ FreeMoney(as[u]) = fu[u].money + MoneyTaxed(Buys(x, r, u))
    BY <1>2, <1>4 DEF FreeCash, FreeMoney, SellCost
  <1> QED  BY ONLY <1>1, <1>2, <1>3, <1>5 DEF Idle

LEMMA PlaceOrderBusyExact ==
    ASSUME NEW x, NEW H, NEW b, NEW d, NEW r, NEW a, NEW g, Exact(x, H, b, d, r, a, g),
           NEW u, NEW p, NEW v, PlaceOrderBusy(u, p, v)
    PROVE  Exact(x, H, b, d, r, a, g)'
  <1>1. /\ status' = status /\ online' = online /\ accounts' = accounts /\ orders' = orders /\ volumes' = volumes
        /\ pending' = pending /\ calls' = calls /\ funds' = funds /\ stored' = stored /\ unmatched' = unmatched
        /\ faults' = faults /\ crashes' = crashes
    BY DEF PlaceOrderBusy, market, db, bounds
  <1>2. idpool' = idpool \cup {NextId} /\ nextid' = NextId /\ Cardinality(idpool) < MaxOrderId
    BY DEF PlaceOrderBusy, ApplyTid, MayPlace
  <1>3. Requests' = Requests  BY <1>1 DEF Requests
  <1>4. IdsAre(idpool, nextid, H, pending, Requests, r, a)  BY DEF Exact
  <1>5. NextId \in Tid  BY <1>2, <1>4, NextIdFresh DEF IdsAre
  <1>6. IdsAre(idpool', nextid', H, pending', Requests', r, a)  BY <1>1, <1>2, <1>3, <1>4, <1>5 DEF IdsAre
  <1> QED  BY <1>1, <1>3, <1>6 DEF Exact

LEMMA LockExpiresExact ==
    ASSUME NEW x, NEW H, NEW b, NEW d, NEW r, NEW a, NEW g, Exact(x, H, b, d, r, a, g),
           NEW u, LockExpires(u)
    PROVE  Exact(x, H, b, d, r, a, g)'
  <1>1. /\ status' = status /\ online' = online /\ orders' = orders /\ volumes' = volumes
        /\ pending' = pending /\ calls' = calls /\ funds' = funds /\ stored' = stored /\ unmatched' = unmatched
        /\ faults' = faults /\ crashes' = crashes /\ idpool' = idpool /\ nextid' = nextid
    BY DEF LockExpires, market, db, bounds, pool
  <1>2. SameButLocks(accounts', accounts)  BY DEF LockExpires, SameButLocks
  <1>3. Requests' = Requests  BY <1>1 DEF Requests
  <1>4. AccountsAre(accounts, x, a) /\ FundsAre(funds, accounts, Requests)  BY DEF Exact
  <1>5. DOMAIN accounts = User  BY <1>4 DEF AccountsAre
  <1>6. AccountsAre(accounts', x, a) /\ FundsAre(funds', accounts', Requests')
    BY <1>1, <1>2, <1>3, <1>4, <1>5, AccountsLocked, FundsLocked
  <1> QED  BY <1>1, <1>3, <1>6 DEF Exact

LEMMA IdleSends ==
    ASSUME NEW C, NEW x, CallsAre(C, x), NEW pe, Sends(pe, C), NEW u, NoneAbout(C, u)
    PROVE  \A k \in DOMAIN pe : pe[k].status = "BALANCE_WAIT" => x[pe[k].order.tid].user # u
  <1> SUFFICES ASSUME NEW k \in DOMAIN pe, pe[k].status = "BALANCE_WAIT" PROVE x[pe[k].order.tid].user # u  OBVIOUS
  <1>1. PICK c \in C : c.op = "BALANCE" /\ c.arg.tid = pe[k].order.tid  BY DEF Sends
  <1> QED  BY <1>1, AboutOwn DEF TidOf, NoneAbout

\* A user no request is about has no half of a deal under way.
LEMMA IdleHalves ==
    ASSUME NEW C, NEW x, CallsAre(C, x), NEW un, NEW pe, NEW g, HalvesMeet(un, pe, C, g), NEW u, NoneAbout(C, u)
    PROVE  \A s \in Tid : x[s].user = u => g[s] = 0
  <1> SUFFICES ASSUME NEW s \in Tid, x[s].user = u PROVE g[s] = 0  OBVIOUS
  <1>1. \A c \in C : Unserved(c) => TidOf(c) # s  BY AboutOwn DEF NoneAbout, Unserved
  <1> QED  BY <1>1 DEF HalvesMeet

\* A request about a user is made when none is under way.
Asks(C, c, u, x, fu, bs, r) ==
    /\ C \cup {c} = Others(C, u) \cup {c} /\ Single({c}, u) /\ ~Paid(c)
    /\ CallsAre(C \cup {c}, x) /\ FundsAre(fu, bs, C \cup {c}) /\ Covered(fu, x, r, C \cup {c})

LEMMA RequestJoins ==
    ASSUME NEW x \in [Tid -> Whose], NEW C, CallsAre(C, x), NEW u \in User, NoneAbout(C, u),
           NEW c, CallIs(c, x), c.user = u, c.res = NoAnswer,
           NEW fu, NEW as, FundsAre(fu, as, C), DOMAIN as = User, NEW bs, SameButLocks(bs, as),
           NEW r \in [Tid -> Nat], Covered(fu, x, r, C), Promised(c, fu, x, r)
    PROVE  Asks(C, c, u, x, fu, bs, r)
  <1> DEFINE N == {c}
  <1>1. Others(C, u) = C  BY OthersAre
  <1>2. Single(N, u) /\ \A n \in N : n = c  BY DEF Single
  <1>3. ~Paid(c)  BY DEF Paid, NoAnswer
  <1> HIDE DEF N
  <1>4. CallsAre(C \cup N, x)
    <2>1. \A n \in N : CallIs(n, x)  BY <1>2
    <2>2. CallsAre(Others(C, u) \cup N, x)  BY ONLY CallsAre(C, x), <1>2, <2>1, CallsHanded
    <2> QED  BY <1>1, <2>2
  <1>5. FundsAre(fu, bs, C \cup N)
    <2>1. fu \in [User -> [cash : Int, money : Int]] /\ as[u].cash = fu[u].cash /\ as[u].money = fu[u].money
      BY DEF FundsAre, NoneAbout
    <2>2. /\ \A v \in User \ {u} : fu[v] = fu[v] /\ bs[v].cash = as[v].cash /\ bs[v].money = as[v].money
          /\ bs[u].cash = fu[u].cash /\ bs[u].money = fu[u].money
      BY <2>1 DEF SameButLocks
    <2>3. \A n \in N : ~Paid(n)  BY <1>2, <1>3
    <2>4. \A n \in N : Paid(n) => n.res.cash = fu[u].cash /\ n.res.money = fu[u].money  BY <2>3
    <2>5. FundsNow(N, u, fu, as, fu, bs)  BY ONLY <2>1, <2>2, <2>4 DEF FundsNow
    <2>6. FundsAre(fu, bs, Others(C, u) \cup N)
      BY ONLY CallsAre(C, x), FundsAre(fu, as, C), u \in User, <1>2, <2>5, FundsHanded
    <2> QED  BY <1>1, <2>6
  <1>6. Covered(fu, x, r, C \cup N)
    <2>1. \A n \in N : Promised(n, fu, x, r)  BY <1>2
    <2> QED  BY <2>1 DEF Covered
  <1> QED  BY <1>1, <1>2, <1>3, <1>4, <1>5, <1>6 DEF N, Asks

LEMMA PreTransactionExact ==
    ASSUME Inv, NEW x, NEW H, NEW b, NEW d, NEW r, NEW a, NEW g, Exact(x, H, b, d, r, a, g),
           NEW u \in User, NEW t \in Transfers, PreTransaction(u, t)
    PROVE  Exact(x, H, b, d, r, a, g)'
  <1> DEFINE c == Call("TRANSACTION", u, t)
             C == Requests
             f == funds
  <1>1. /\ status' = status /\ online' = online /\ orders' = orders /\ volumes' = volumes
        /\ pending' = pending /\ funds' = funds /\ stored' = stored /\ unmatched' = unmatched
        /\ faults' = faults /\ crashes' = crashes /\ idpool' = idpool /\ nextid' = nextid
    BY DEF PreTransaction, market, db, bounds, pool
  <1>2. CanLock(u) /\ accounts' = Lock(u) /\ calls' = Append(calls, c) /\ MayMove(accounts[u], t)
    BY DEF PreTransaction
  <1>3. SameButLocks(accounts', accounts)  BY <1>2 DEF Lock, SameButLocks
  <1>4. /\ CallsAre(C, x) /\ x \in [Tid -> Whose] /\ Ledger(C, H, b, d, r, a) /\ AccountsAre(accounts, x, a)
        /\ FundsAre(f, accounts, C) /\ RowsAre(stored, x, r) /\ Covered(f, x, r, C)
        /\ Sends(pending, C) /\ HalvesMeet(unmatched, pending, C, g) /\ IdsAre(idpool, nextid, H, pending, C, r, a)
    BY DEF Exact
  <1>5. DOMAIN accounts = User /\ r \in [Tid -> Nat] /\ r[0] = 0  BY <1>4 DEF AccountsAre, RowsAre
  <1>6. NoneAbout(C, u) /\ Requests' = C \cup {c}  BY <1>2, <1>4, LockableIsFree, RequestAdded
  <1>7. /\ c.op = "TRANSACTION" /\ c.user = u /\ c.arg = t /\ c.res = NoAnswer /\ c.waiting
        /\ CallIs(c, x) /\ TidOf(c) = 0
    BY DEF Call, CallIs, TidOf
  <1> HIDE DEF c, C, f
  <1>8. Idle(x, b, d, r, a, accounts[u], f[u], u)  BY ONLY <1>4, <1>5, <1>6, u \in User, IdleUser
  <1>9. Promised(c, f, x, r)
    <2>1. CASE t.withdraw
      <3>1. FreeCash(accounts[u]) >= t.cash /\ FreeMoney(accounts[u]) >= t.money  BY <1>2, <2>1 DEF MayMove
      <3>2. t.cash \in Int /\ t.money \in Int  BY ExchangeAssumption
      <3>3. Sells(x, r, u) \in Int /\ Buys(x, r, u) \in Int  BY <1>4, <1>5, OfferTypes
      <3>4. MoneyTaxed(Buys(x, r, u)) \in Int /\ 100 * MoneyTaxed(Buys(x, r, u)) <= 102 * Buys(x, r, u)
        BY <3>3, Taxed
      <3>5. Covers(f[u].cash - t.cash, f[u].money - t.money, Sells(x, r, u), Buys(x, r, u))
        BY ONLY <1>8, <3>1, <3>2, <3>3, <3>4 DEF Covers, Idle
      <3> QED  BY <1>7, <3>5 DEF Promised
    <2>2. CASE ~t.withdraw  BY <1>7, <2>2 DEF Promised
    <2> QED  BY <2>1, <2>2
  <1>10. Asks(C, c, u, x, f, accounts', r)  BY ONLY <1>3, <1>4, <1>5, <1>6, <1>7, <1>9, u \in User, RequestJoins
  <1>11. Ledger(C \cup {c}, H, b, d, r, a)
    <2>1. \A s \in Tid \ {0} : x[s].user # u => Agree(s, H, b, d, r, a, H, b, d, r, a)  BY DEF Agree
    <2>2. \A n \in {c} : Settling(n, H, b, d, r, a)  BY <1>7 DEF Settling
    <2>3. \A s \in Tid \ {0} : x[s].user = u /\ (\A n \in {c} : TidOf(n) # s) => b[s] + d[s] = r[s] /\ a[s] = r[s]
      BY <1>8 DEF Idle
    <2>4. Ledger(Others(C, u) \cup {c}, H, b, d, r, a)  BY ONLY <1>4, <2>1, <2>2, <2>3, LedgerHanded
    <2> QED  BY <1>10, <2>4 DEF Asks
  <1>12. Sends(pending, C \cup {c})
    <2>1. \A k \in DOMAIN pending : pending[k].status = "BALANCE_WAIT" => x[pending[k].order.tid].user # u
      BY ONLY <1>4, <1>6, IdleSends
    <2>2. \A n \in {c} : n.op # "BALANCE"  BY <1>7
    <2>3. Sends(pending, Others(C, u) \cup {c})  BY ONLY <1>4, <2>1, <2>2, SendsHanded
    <2> QED  BY <1>10, <2>3 DEF Asks
  <1>13. HalvesMeet(unmatched, pending, C \cup {c}, g)
    <2>1. \A s \in Tid : x[s].user = u => g[s] = 0  BY ONLY <1>4, <1>6, IdleHalves
    <2>2. ~Unserved(c)  BY <1>7 DEF Unserved
    <2> QED  BY <1>4, <2>2 DEF HalvesMeet
  <1>14. IdsAre(idpool, nextid, H, pending, C \cup {c}, r, a)  BY <1>4, <1>7 DEF IdsAre
  <1>15. AccountsAre(accounts', x, a)  BY <1>3, <1>4, AccountsLocked
  <1> QED  BY <1>1, <1>6, <1>10, <1>11, <1>12, <1>13, <1>14, <1>15 DEF Exact, f, Asks

\* More deals, none of them on its way to the database.
Joins(new, pe, x, K) ==
    /\ new \in Seq(Dls) /\ Extends(new, pe)
    /\ \A k \in Len(pe) + 1 .. Len(new) : new[k].status = "COMMISSION_WAIT" /\ new[k].order.tid \in K

LEMMA SendsJoined ==
    ASSUME NEW pe \in Seq(Dls), NEW C, Sends(pe, C), NEW new, NEW x, NEW K, Joins(new, pe, x, K)
    PROVE  Sends(new, C)
  <1>1. /\ DOMAIN pe = 1 .. Len(pe) /\ DOMAIN new = 1 .. Len(new) /\ Len(pe) \in Nat /\ Len(new) \in Nat
        /\ Len(pe) <= Len(new) /\ \A k \in 1 .. Len(pe) : new[k] = pe[k]
    BY DEF Joins, Extends
  <1>2. \A k \in DOMAIN new : new[k].status = "BALANCE_WAIT" => k \in DOMAIN pe /\ pe[k] = new[k]
    <2> SUFFICES ASSUME NEW k \in DOMAIN new, new[k].status = "BALANCE_WAIT" PROVE k \in DOMAIN pe /\ pe[k] = new[k]
      OBVIOUS
    <2>1. k \notin Len(pe) + 1 .. Len(new)  BY DEF Joins
    <2> QED  BY <1>1, <2>1
  <1>3. \A k \in DOMAIN pe : k \in DOMAIN new /\ new[k] = pe[k]  BY <1>1
  <1> QED  BY ONLY <1>2, <1>3, Sends(pe, C) DEF Sends

LEMMA IdsJoined ==
    ASSUME NEW idp, NEW nid, NEW H, NEW pe \in Seq(Dls), NEW C, NEW r, NEW a, IdsAre(idp, nid, H, pe, C, r, a),
           NEW t \in Tid, NEW new, NEW x, Joins(new, pe, x, H \cup {t}), NEW c, TidOf(c) = t
    PROVE  IdsAre(idp \cup {t}, t, H, new, C \cup {c}, r, a)
  <1>1. /\ DOMAIN pe = 1 .. Len(pe) /\ DOMAIN new = 1 .. Len(new) /\ Len(pe) \in Nat /\ Len(new) \in Nat
        /\ Len(pe) <= Len(new) /\ \A k \in 1 .. Len(pe) : new[k] = pe[k]
    BY DEF Joins, Extends
  <1>2. ASSUME NEW k \in DOMAIN new, new[k].status # "BALANCE_DONE" PROVE new[k].order.tid \in idp \cup {t}
    <2>1. CASE k \in 1 .. Len(pe)  BY <1>1, <1>2, <2>1 DEF IdsAre
    <2>2. CASE k \notin 1 .. Len(pe)
      <3>1. k \in Len(pe) + 1 .. Len(new)  BY <1>1, <2>2
      <3> QED  BY <3>1 DEF Joins, IdsAre
    <2> QED  BY <2>1, <2>2
  <1> QED  BY <1>2 DEF IdsAre

\* A deal over n lots of the incoming order o itself is added.
OwnDeal(new, pe, x, f, o, n) ==
    /\ DealsAre(new, x, f) /\ SumOver(UnsentHalves, new) = SumOver(UnsentHalves, pe) + Half(o.price > 0, n)
    /\ Len(new) = Len(pe) + 1 /\ new[Len(pe) + 1].status = "COMMISSION_WAIT"
    /\ new[Len(pe) + 1].order.tid = o.tid /\ \A k \in 1 .. Len(pe) : new[k] = pe[k]
    /\ new \in Seq(Dls)

LEMMA OwnDealAdded ==
    ASSUME NEW pe, NEW x, NEW d, DealsAre(pe, x, d), NEW o \in Ord, Of(x, o), o.tid # 0, NEW n \in Nat, n > 0,
           NEW money \in Int, FairPay(o.price, n, money),
           NEW new, new = Append(pe, Deal(o, n, o.tid, money)),
           NEW f, f = [d EXCEPT ![o.tid] = @ + n]
    PROVE  OwnDeal(new, pe, x, f, o, n)
  <1> DEFINE y == Deal(o, n, o.tid, money)
             m == Len(pe)
  <1>1. pe \in Seq(Dls) /\ DOMAIN pe = 1 .. m /\ m \in Nat /\ d \in [Tid -> Int]  BY DEF DealsAre
  <1>2. o = [tid |-> o.tid, user |-> o.user, price |-> o.price, volume |-> o.volume] /\ o.tid \in Tid
        /\ o.user \in User /\ o.price \in Prices /\ o.volume \in Int
    BY DEF Ord, OrdersOf
  <1>3. [o EXCEPT !.volume = n] = [tid |-> o.tid, user |-> o.user, price |-> o.price, volume |-> n]  BY <1>2
  <1>4. /\ y.order = [tid |-> o.tid, user |-> o.user, price |-> o.price, volume |-> n]
        /\ y.dealtid = o.tid /\ y.ack_money = money /\ y.status = "COMMISSION_WAIT"
        /\ y = [order |-> y.order, dealtid |-> y.dealtid, ack_money |-> y.ack_money, status |-> y.status]
    BY <1>3 DEF Deal
  <1>5. y \in Dls  BY <1>2, <1>4 DEF Dls, DealsOf, OrdersOf
  <1>6. y.order.tid = o.tid /\ y.order.volume = n /\ y.order.price = o.price /\ y.order.user = o.user  BY <1>4
  <1>7. IsUnsent(y) /\ HalfOf(y) = Half(o.price > 0, n)  BY <1>4, <1>6 DEF IsUnsent, HalfOf
  <1>8. SoundDeal(y, x) /\ y.order.volume > 0  BY <1>4, <1>6 DEF SoundDeal, Of
  <1>9. new = Append(pe, y)  OBVIOUS
  <1> HIDE DEF y
  <1>10. new \in Seq(Dls) /\ Len(new) = m + 1 /\ new[m + 1] = y /\ \A k \in 1 .. m : new[k] = pe[k]
    BY ONLY <1>1, <1>5, <1>9, AppendProperties
  <1>11. SumOver(UnsentHalves, new) = SumOver(UnsentHalves, pe) + Half(o.price > 0, n)
    <2>1. UnsentHalves[y] = HalfOf(y)  BY ONLY <1>5, <1>7, DealWeighs
    <2>2. UnsentHalves \in [Dls -> Int]  BY DealSums
    <2>3. SumOver(UnsentHalves, Append(pe, y)) = SumOver(UnsentHalves, pe) + UnsentHalves[y]
      BY ONLY <1>1, <1>5, <2>2, WeighedAppend
    <2> QED  BY <1>7, <1>9, <2>1, <2>3
  <1>12. f \in [Tid -> Int] /\ \A t \in Tid : f[t] = d[t] + IF o.tid = t THEN n ELSE 0  BY <1>1, <1>2
  <1>13. ASSUME NEW t \in Tid PROVE f[t] = SumOver(UnsentLots(t), new)
    <2>1. UnsentLots(t)[y] = IF o.tid = t THEN n ELSE 0  BY ONLY <1>5, <1>6, <1>7, DealWeighs
    <2>2. UnsentLots(t) \in [Dls -> Int]  BY DealSums
    <2>3. SumOver(UnsentLots(t), Append(pe, y)) = SumOver(UnsentLots(t), pe) + UnsentLots(t)[y]
      BY ONLY <1>1, <1>5, <2>2, WeighedAppend
    <2>4. d[t] = SumOver(UnsentLots(t), pe)  BY DEF DealsAre
    <2> QED  BY <1>9, <1>12, <2>1, <2>3, <2>4
  <1>14. \A k \in DOMAIN new : new[k].order.volume > 0 /\ (new[k].status # "BALANCE_DONE" => SoundDeal(new[k], x))
    <2>1. \A k \in 1 .. m : pe[k].order.volume > 0 /\ (pe[k].status # "BALANCE_DONE" => SoundDeal(pe[k], x))
      BY <1>1 DEF DealsAre
    <2>2. DOMAIN new = 1 .. m + 1  BY <1>10
    <2>3. \A k \in 1 .. m + 1 : k \in 1 .. m \/ k = m + 1  BY <1>1
    <2> QED  BY ONLY <1>8, <1>10, <2>1, <2>2, <2>3
  <1>15. DealsAre(new, x, f)  BY <1>10, <1>12, <1>13, <1>14 DEF DealsAre
  <1> QED  BY <1>4, <1>6, <1>10, <1>11, <1>15 DEF OwnDeal

\* What the market is when an order has come in.
Entered(k, pe, x, H, b, d, o, ack) ==
    \E c, e, f :
        /\ BookIs(k.orders, x, H, c) /\ VolumesAre(k.volumes, k.orders) /\ DealsAre(k.pending, x, f)
        /\ \A t \in Tid : c[t] + e[t] = b[t] + d[t] /\ (b[t] = 0 => c[t] = 0) /\ (t \notin H => e[t] = d[t])
        /\ f[o.tid] = ack /\ \A t \in Tid \ {o.tid} : f[t] = e[t]
        /\ Joins(k.pending, pe, x, H \cup {o.tid}) /\ ack \in 0 .. o.volume
        /\ SumOver(UnsentHalves, k.pending) = SumOver(UnsentHalves, pe)

LEMMA OrderMatched ==
    ASSUME NEW bk, NEW x, NEW H, NEW b, BookIs(bk, x, H, b), NEW vo, VolumesAre(vo, bk),
           NEW pe, NEW d, DealsAre(pe, x, d), NEW o \in Ord, Of(x, o), o.tid # 0, o.tid \notin H, d[o.tid] = 0,
           o.volume \in Nat,
           NEW m, m = PriceMatching(MarketOf(bk, vo, pe), o.tid, o.price, o.volume),
           NEW k, k = IF m.ack_volume = 0 THEN m
                      ELSE [m EXCEPT !.pending = Append(@, Deal(o, m.ack_volume, o.tid, m.ack_money))]
    PROVE  Entered(k, pe, x, H, b, d, o, m.ack_volume)
  <1> DEFINE tid == o.tid
             ack == m.ack_volume
             money == m.ack_money
  <1>1. o.tid \in Tid \ {0} /\ o.price \in Prices  BY DEF Ord, OrdersOf
  <1>2. Traded(m, pe, x, H, b, d, o.tid, o.price, o.volume)
    BY ONLY BookIs(bk, x, H, b), VolumesAre(vo, bk), DealsAre(pe, x, d), <1>1, o.volume \in Nat,
            m = PriceMatching(MarketOf(bk, vo, pe), o.tid, o.price, o.volume), BookMatched
  <1>3. PICK c, e :
              /\ BookIs(m.orders, x, H, c) /\ VolumesAre(m.volumes, m.orders) /\ DealsAre(m.pending, x, e)
              /\ \A t \in Tid : c[t] + e[t] = b[t] + d[t] /\ (b[t] = 0 => c[t] = 0) /\ (t \notin H => e[t] = d[t])
              /\ Partners(m.pending, pe, x, H, tid)
              /\ SumOver(UnsentHalves, m.pending) = SumOver(UnsentHalves, pe) - Half(o.price > 0, ack)
              /\ ack \in 0 .. o.volume /\ GoodPay(o.price, ack, money)
    BY <1>2 DEF Traded
  <1>4. Joins(m.pending, pe, x, H \cup {tid})  BY <1>3 DEF Partners, Joins
  <1>5. e[tid] = 0  BY <1>1, <1>3
  <1>6. SumOver(UnsentHalves, pe) \in Int
    <2>1. pe \in Seq(Dls) /\ UnsentHalves \in [Dls -> Int]  BY DealSums DEF DealsAre
    <2> QED  BY ONLY <2>1, SumOverType
  <1> HIDE DEF tid, ack, money
  <1>7. CASE ack = 0
    <2>1. k = m  BY <1>7 DEF ack
    <2>2. Half(o.price > 0, ack) = 0
      <3>1. ack \in Int /\ ack + 1 = 1  BY ONLY <1>7
      <3>2. -ack = 0 /\ ack = 0  BY ONLY <3>1
      <3> QED  BY ONLY <3>1, <3>2 DEF Half
    <2>3. SumOver(UnsentHalves, k.pending) = SumOver(UnsentHalves, pe)  BY ONLY <1>3, <1>6, <2>1, <2>2
    <2>4. \A t \in Tid \ {tid} : e[t] = e[t]  OBVIOUS
    <2>5. Entered(k, pe, x, H, b, d, o, ack)  BY ONLY <1>3, <1>4, <1>5, <1>7, <2>1, <2>3, <2>4 DEF Entered, tid
    <2> QED  BY <2>5 DEF ack
  <1>8. CASE ack # 0
    <2> DEFINE pf == Append(m.pending, Deal(o, ack, tid, money))
               f == [e EXCEPT ![tid] = @ + ack]
    <2>1. k.orders = m.orders /\ k.volumes = m.volumes /\ k.pending = pf
      <3>3. m = [orders |-> m.orders, volumes |-> m.volumes, pending |-> m.pending, ack_volume |-> m.ack_volume, ack_money |-> m.ack_money]
        BY <1>2 DEF Traded, IsMarket
      <3>4. k = [m EXCEPT !.pending = pf]  BY <1>8 DEF ack, tid, money
      <3> HIDE DEF pf
      <3>5. k = [orders |-> m.orders, volumes |-> m.volumes, pending |-> pf, ack_volume |-> m.ack_volume, ack_money |-> m.ack_money]
        BY ONLY <3>3, <3>4
      <3> QED  BY ONLY <3>5
    <2>2. ack \in Nat /\ ack > 0 /\ money \in Int /\ FairPay(o.price, ack, money)  BY <1>3, <1>8 DEF GoodPay, FairPay
    <2>3. OwnDeal(pf, m.pending, x, f, o, ack)
      <3>1. DealsAre(m.pending, x, e) /\ o \in Ord /\ Of(x, o) /\ o.tid # 0  BY <1>3
      <3>2. pf = Append(m.pending, Deal(o, ack, o.tid, money)) /\ f = [e EXCEPT ![o.tid] = @ + ack]  BY DEF tid
      <3> HIDE DEF pf, f
      <3> QED  BY ONLY <2>2, <3>1, <3>2, OwnDealAdded
    <2>4. e \in [Tid -> Int]  BY <1>3 DEF DealsAre
    <2>5. f[tid] = ack /\ \A t \in Tid \ {tid} : f[t] = e[t]  BY <1>1, <1>5, <2>2, <2>4 DEF tid
    <2> HIDE DEF pf, f
    <2>6. Joins(pf, pe, x, H \cup {tid})
      <3>1. pe \in Seq(Dls) /\ m.pending \in Seq(Dls)  BY <1>3 DEF DealsAre
      <3>2. Len(pe) \in Nat /\ Len(m.pending) \in Nat /\ Len(pe) <= Len(m.pending)  BY <1>4, <3>1 DEF Joins, Extends
      <3>3. \A j \in 1 .. Len(pe) : j \in 1 .. Len(m.pending)  BY <3>2
      <3>4. Extends(pf, pe)  BY <1>4, <2>3, <3>2, <3>3 DEF Extends, Joins, OwnDeal
      <3>5. \A j \in Len(pe) + 1 .. Len(pf) : pf[j].status = "COMMISSION_WAIT" /\ pf[j].order.tid \in H \cup {tid}
        <4> SUFFICES ASSUME NEW j \in Len(pe) + 1 .. Len(pf)
                     PROVE pf[j].status = "COMMISSION_WAIT" /\ pf[j].order.tid \in H \cup {tid}
          OBVIOUS
        <4>1. CASE j = Len(m.pending) + 1  BY <2>3, <4>1 DEF tid, OwnDeal
        <4>2. CASE j # Len(m.pending) + 1
          <5>1. j \in 1 .. Len(m.pending) /\ j \in Len(pe) + 1 .. Len(m.pending)  BY <2>3, <3>2, <4>2 DEF OwnDeal
          <5> QED  BY <1>4, <2>3, <5>1 DEF Joins, OwnDeal
        <4> QED  BY <4>1, <4>2
      <3> QED  BY <2>3, <3>4, <3>5 DEF Joins, OwnDeal
    <2>7. SumOver(UnsentHalves, k.pending) = SumOver(UnsentHalves, pe)
      <3>1. Half(o.price > 0, ack) \in Int  BY <2>2 DEF Half
      <3> QED  BY ONLY <1>3, <1>6, <2>1, <2>3, <3>1 DEF OwnDeal
    <2>8. Entered(k, pe, x, H, b, d, o, ack)  BY ONLY <1>3, <2>1, <2>3, <2>5, <2>6, <2>7 DEF Entered, tid, OwnDeal
    <2> QED  BY <2>8 DEF ack
  <1> QED  BY <1>7, <1>8

\* Lots that go from the book to deals leave the ledger as it is.
LotsMoved(H, b, d, c, e) ==
    /\ \A t \in Tid : d[t] \in Int /\ e[t] \in Int /\ b[t] \in Int /\ c[t] \in Int
    /\ \A t \in Tid : c[t] + e[t] = b[t] + d[t] /\ (b[t] = 0 => c[t] = 0) /\ (t \notin H => e[t] = d[t])

LEMMA LedgerMatched ==
    ASSUME NEW C, NEW x, CallsAre(C, x), NEW H, H \subseteq Tid, NEW b, NEW d, NEW r, NEW a, Ledger(C, H, b, d, r, a),
           NEW c, NEW e, LotsMoved(H, b, d, c, e)
    PROVE  Ledger(C, H, c, e, r, a)
  <1>1. \A t \in Tid \ {0} : (\A n \in C : TidOf(n) # t) => c[t] + e[t] = r[t] /\ a[t] = r[t]
    BY DEF Ledger, LotsMoved
  <1>2. ASSUME NEW n \in C PROVE Settling(n, H, c, e, r, a)
    <2> DEFINE t == TidOf(n)
    <2>1. Settling(n, H, b, d, r, a)  BY DEF Ledger
    <2>2. CASE n.op = "TRANSACTION"  BY <2>2 DEF Settling
    <2>3. CASE n.op # "TRANSACTION"
      <3>1. t \in Tid  BY <2>3, AboutOwn
      <3> HIDE DEF t
      <3>2. c[t] + e[t] = b[t] + d[t] /\ (b[t] = 0 => c[t] = 0) /\ (t \notin H => e[t] = d[t])
            /\ d[t] \in Int /\ e[t] \in Int /\ b[t] \in Int /\ c[t] \in Int
        BY <3>1 DEF LotsMoved
      <3>3. n.op = "COMMISSION" => e[t] = d[t]  BY <2>1, <3>2 DEF Settling, t
      <3>4. n.op = "CANCEL" => c[t] = 0 /\ e[t] = 0  BY <2>1, <3>2 DEF Settling, t
      <3>5. CASE n.op = "COMMISSION"  BY <2>1, <3>3, <3>5 DEF Settling, t
      <3>6. CASE n.op = "CANCEL"  BY <2>1, <3>4, <3>6 DEF Settling, t
      <3>7. CASE n.op = "BALANCE"
        <4>1. /\ a[t] = b[t] + d[t] + n.arg.ack_volume
              /\ r[t] = IF n.res = NoAnswer THEN a[t] ELSE b[t] + d[t]
          BY <2>1, <3>7 DEF Settling, t
        <4>2. /\ a[t] = c[t] + e[t] + n.arg.ack_volume
              /\ r[t] = IF n.res = NoAnswer THEN a[t] ELSE c[t] + e[t]
          BY <3>2, <4>1
        <4> QED  BY <3>7, <4>2 DEF Settling, t
      <3> QED  BY <2>3, <3>5, <3>6, <3>7 DEF Settling
    <2> QED  BY <2>2, <2>3
  <1> QED  BY <1>1, <1>2 DEF Ledger

\* An order that is affordable is covered by the funds.
LEMMA PlacedIsPromised ==
    ASSUME RoundedDown = {}, NEW x \in [Tid -> Whose], NEW b, NEW d, NEW r \in [Tid -> Nat], NEW a, NEW fu,
           NEW u \in User, NEW own, Idle(x, b, d, r, a, own, fu[u], u),
           Covers(fu[u].cash, fu[u].money, Sells(x, r, u), Buys(x, r, u)),
           NEW p \in Prices, NEW v \in Nat, Affordable(own, p, v)
    PROVE  /\ p > 0 => Covers(fu[u].cash, fu[u].money, Sells(x, r, u) + v, Buys(x, r, u))
           /\ p < 0 => Covers(fu[u].cash, fu[u].money, Sells(x, r, u), Buys(x, r, u) + p * v)
  <1>1. p \in Int  BY PricesAre
  <1> DEFINE S == Sells(x, r, u)
             B == Buys(x, r, u)
             pv == p * v
             cash == fu[u].cash
             money == fu[u].money
  <1>2. S \in Int /\ B \in Int /\ pv \in Int  BY <1>1, OfferTypes
  <1>3. cash \in Int /\ money \in Int /\ FreeCash(own) = cash - 102 * S /\ FreeMoney(own) = money + MoneyTaxed(B)
    BY DEF Idle
  <1>4. cash >= 102 * S /\ 100 * money + 102 * B >= 0  BY DEF Covers
  <1>5. p > 0 => FreeCash(own) >= SellCheck(v)  BY DEF Affordable
  <1>6. p < 0 => FreeMoney(own) >= -MoneyTaxed(pv)  BY <1>1 DEF Affordable
  <1>7. SellCheck(v) = 102 * v  BY DEF SellCheck
  <1> HIDE DEF S, B, pv, cash, money
  <1>8. MoneyTaxed(B) \in Int /\ 100 * MoneyTaxed(B) <= 102 * B  BY <1>2, Taxed
  <1>9. MoneyTaxed(pv) \in Int /\ 100 * MoneyTaxed(pv) <= 102 * pv  BY <1>2, Taxed
  <1>10. p > 0 => Covers(cash, money, S + v, B)  BY ONLY v \in Nat, <1>2, <1>3, <1>4, <1>5, <1>7 DEF Covers
  <1>11. p < 0 => Covers(cash, money, S, B + pv)
    <2> SUFFICES ASSUME p < 0 PROVE Covers(cash, money, S, B + pv)  OBVIOUS
    <2>1. money + MoneyTaxed(B) >= -MoneyTaxed(pv)  BY <1>3, <1>6
    <2> QED  BY ONLY <1>2, <1>3, <1>4, <1>8, <1>9, <2>1 DEF Covers
  <1> QED  BY <1>10, <1>11 DEF S, B, pv, cash, money

LEMMA PlaceOrderExact ==
    ASSUME RoundedDown = {}, Inv, NEW x, NEW H, NEW b, NEW d, NEW r, NEW a, NEW g, Exact(x, H, b, d, r, a, g),
           NEW u \in User, NEW p \in Prices, NEW v \in Volume, PlaceOrder(u, p, v)
    PROVE  ExactNow'
  <1> DEFINE C == Requests
             fu == funds
             t == NextId
             m == PriceMatching(Market, t, p, v)
             o == [tid |-> t, user |-> u, price |-> p, volume |-> v]
             k == IF m.ack_volume = 0 THEN m
                  ELSE [m EXCEPT !.pending = Append(@, Deal(o, m.ack_volume, t, m.ack_money))]
             n == Commission(o, m.ack_volume)
             z == [x EXCEPT ![t] = [user |-> u, price |-> p]]
  <1>1. /\ status' = status /\ online' = online /\ funds' = funds /\ stored' = stored /\ unmatched' = unmatched
        /\ faults' = faults /\ crashes' = crashes /\ idpool' = idpool \cup {t} /\ nextid' = t
    BY DEF PlaceOrder, db, bounds, ApplyTid
  <1>2. CanLock(u) /\ accounts' = Lock(u) /\ calls' = Append(calls, n) /\ MayPlace(u, p, v)  BY DEF PlaceOrder
  <1>3. orders' = k.orders /\ volumes' = k.volumes /\ pending' = k.pending  BY DEF PlaceOrder, SetMarket
  <1>4. /\ CallsAre(C, x) /\ x \in [Tid -> Whose] /\ Ledger(C, H, b, d, r, a) /\ AccountsAre(accounts, x, a)
        /\ FundsAre(fu, accounts, C) /\ RowsAre(stored, x, r) /\ Covered(fu, x, r, C)
        /\ Sends(pending, C) /\ HalvesMeet(unmatched, pending, C, g) /\ IdsAre(idpool, nextid, H, pending, C, r, a)
        /\ BookIs(orders, x, H, b) /\ VolumesAre(volumes, orders) /\ DealsAre(pending, x, d)
    BY DEF Exact
  <1>5. /\ DOMAIN accounts = User /\ r \in [Tid -> Nat] /\ r[0] = 0 /\ a \in [Tid -> Nat] /\ H \subseteq Tid
        /\ b \in [Tid -> Nat] /\ d \in [Tid -> Int] /\ pending \in Seq(Dls)
    BY <1>4 DEF AccountsAre, RowsAre, BookIs, DealsAre
  <1>6. SameButLocks(accounts', accounts)  BY <1>2 DEF Lock, SameButLocks
  <1>7. NoneAbout(C, u) /\ Requests' = C \cup {n}  BY <1>2, <1>4, LockableIsFree, RequestAdded
  <1>8. v \in Nat /\ v > 0  BY ExchangeAssumption
  <1>9. t \in Tid \ idpool  BY <1>2, <1>4, NextIdFresh DEF IdsAre, MayPlace
  <1>10. Affordable(accounts[u], p, v)  BY <1>2 DEF MayPlace
  <1>11. MarketOf(orders, volumes, pending) = Market  BY DEF MarketOf, Market
  <1>12. /\ o \in Ord /\ o.tid = t /\ o.price = p /\ o.volume = v /\ o.user = u  BY <1>8, <1>9 DEF Ord, OrdersOf
  <1>13. /\ n.op = "COMMISSION" /\ n.user = u /\ n.arg.order = o /\ n.arg.ack_volume = m.ack_volume
         /\ n.res = NoAnswer /\ n.waiting /\ TidOf(n) = t
    BY DEF Commission, Call, TidOf
  <1>14. Unused(t, H, pending, C, r, a)  BY ONLY <1>4, <1>5, <1>9, FreshIsUnused
  <1>15. Renames(z, x, t) /\ z[t].user = u /\ z[t].price = p /\ Of(z, o)
    <2>1. [user |-> u, price |-> p] \in Whose  BY DEF Whose
    <2>2. z \in [Tid -> Whose] /\ z[t] = [user |-> u, price |-> p] /\ \A s \in Tid \ {t} : z[s] = x[s]
      BY <1>4, <1>9, <2>1
    <2> QED  BY <1>4, <1>12, <2>2 DEF Renames, Of
  <1> HIDE DEF C, fu, t, o, n, z
  <1>16. z \in [Tid -> Whose] /\ t \in Tid \ {0} /\ t \notin H /\ r[t] = 0 /\ a[t] = 0
    BY <1>14, <1>15 DEF Renames, Unused
  <1>17. BookIs(orders, z, H, b) /\ DealsAre(pending, z, d) /\ d[t] = 0
    BY ONLY <1>4, <1>14, <1>15, NamedBook, NamedDeals
  <1>18. RowsAre(stored, z, r) /\ AccountsAre(accounts, z, a)  BY ONLY <1>4, <1>14, <1>15, NamedRows, NamedAccounts
  <1>19. CallsAre(C, z)  BY ONLY <1>4, <1>14, <1>15, NamedCalls
  <1>20. Covered(fu, z, r, C)  BY ONLY <1>4, <1>5, <1>14, <1>15, NamedCovered
  <1>21. Entered(k, pending, z, H, b, d, o, m.ack_volume)
    <2>1. m = PriceMatching(MarketOf(orders, volumes, pending), o.tid, o.price, o.volume)  BY <1>11, <1>12
    <2>2. k = IF m.ack_volume = 0 THEN m
              ELSE [m EXCEPT !.pending = Append(@, Deal(o, m.ack_volume, o.tid, m.ack_money))]
      BY <1>12
    <2>3. o.tid # 0 /\ o.tid \notin H /\ d[o.tid] = 0 /\ o.volume \in Nat  BY <1>8, <1>12, <1>16, <1>17
    <2> HIDE DEF m, k
    <2> QED  BY ONLY <1>4, <1>12, <1>15, <1>17, <2>1, <2>2, <2>3, OrderMatched
  <1> DEFINE ack == m.ack_volume
  <1>22. n.arg.ack_volume = ack  BY <1>13
  <1>23. Entered(k, pending, z, H, b, d, o, ack)  BY <1>21
  <1> HIDE DEF k, m, ack
  <1>24. PICK c, e, f :
        /\ BookIs(k.orders, z, H, c) /\ VolumesAre(k.volumes, k.orders) /\ DealsAre(k.pending, z, f)
        /\ \A s \in Tid : c[s] + e[s] = b[s] + d[s] /\ (b[s] = 0 => c[s] = 0) /\ (s \notin H => e[s] = d[s])
        /\ f[o.tid] = ack /\ \A s \in Tid \ {o.tid} : f[s] = e[s]
        /\ Joins(k.pending, pending, z, H \cup {o.tid}) /\ ack \in 0 .. o.volume
        /\ SumOver(UnsentHalves, k.pending) = SumOver(UnsentHalves, pending)
    BY ONLY <1>23 DEF Entered
  <1>25. c \in [Tid -> Nat] /\ f \in [Tid -> Int] /\ e[t] = 0 /\ c[t] = 0
    BY <1>16, <1>17, <1>24, <1>5 DEF BookIs, DealsAre
  <1>26. Idle(z, b, d, r, a, accounts[u], fu[u], u)
    <2>1. Ledger(C, H, b, d, r, a) /\ FundsAre(fu, accounts, C)  BY <1>4
    <2> QED  BY ONLY <1>5, <1>7, <1>16, <1>18, <1>19, <2>1, u \in User, IdleUser
  <1>27. CallIs(n, z)
    <2>1. o.volume > 0 /\ ack \in 0 .. o.volume  BY <1>8, <1>12, <1>24
    <2>2. n.arg.order \in Ord /\ Of(z, n.arg.order)  BY <1>12, <1>13, <1>15
    <2>3. TidOf(n) \in Tid \ {0} /\ z[TidOf(n)].user = n.user  BY <1>13, <1>15, <1>16
    <2> QED  BY <1>13, <1>22, <2>1, <2>2, <2>3 DEF CallIs
  <1>28. Promised(n, fu, z, r)
    <2>1. Covers(fu[u].cash, fu[u].money, Sells(z, r, u), Buys(z, r, u))  BY <1>20 DEF Covered
    <2>2. /\ p > 0 => Covers(fu[u].cash, fu[u].money, Sells(z, r, u) + v, Buys(z, r, u))
          /\ p < 0 => Covers(fu[u].cash, fu[u].money, Sells(z, r, u), Buys(z, r, u) + p * v)
      BY ONLY RoundedDown = {}, <1>5, <1>8, <1>10, <1>16, <1>26, <2>1, u \in User, p \in Prices, PlacedIsPromised
    <2> QED  BY <1>12, <1>13, <2>2 DEF Promised
  <1>29. Asks(C, n, u, z, fu, accounts', r)
    <2>1. FundsAre(fu, accounts, C) /\ DOMAIN accounts = User /\ r \in [Tid -> Nat]  BY <1>4, <1>5
    <2>2. n.user = u /\ n.res = NoAnswer /\ NoneAbout(C, u) /\ z \in [Tid -> Whose]  BY <1>7, <1>13, <1>16
    <2> QED  BY ONLY <1>6, <1>19, <1>20, <1>27, <1>28, <2>1, <2>2, u \in User, RequestJoins
  <1>30. Ledger(C \cup {n}, H, c, f, r, a)
    <2>1. \A s \in Tid : d[s] \in Int /\ e[s] \in Int /\ b[s] \in Int /\ c[s] \in Int
      <3>1. \A s \in Tid : e[s] = IF s = t THEN 0 ELSE f[s]  BY <1>12, <1>24, <1>25
      <3>2. \A s \in Tid : d[s] \in Int /\ f[s] \in Int /\ b[s] \in Nat /\ c[s] \in Nat  BY ONLY <1>5, <1>25
      <3> QED  BY ONLY <3>1, <3>2
    <2>2. Ledger(C, H, c, e, r, a)
      <3>1. LotsMoved(H, b, d, c, e)  BY ONLY <1>24, <2>1 DEF LotsMoved
      <3>2. Ledger(C, H, b, d, r, a) /\ H \subseteq Tid  BY <1>4, <1>5
      <3> QED  BY ONLY <1>19, <3>1, <3>2, LedgerMatched
    <2>3. \A s \in Tid \ {0} : z[s].user # u => Agree(s, H, c, e, r, a, H, c, f, r, a)
      <3>1. \A s \in Tid : z[s].user # u => f[s] = e[s]  BY <1>12, <1>15, <1>24
      <3> QED  BY ONLY <3>1 DEF Agree
    <2>4. \A y \in {n} : Settling(y, H, c, f, r, a)
      <3>1. f[t] = ack  BY <1>12, <1>24
      <3>2. Settling(n, H, c, f, r, a)  BY <1>13, <1>16, <1>22, <3>1 DEF Settling, NoAnswer
      <3> QED  BY <3>2
    <2>5. \A s \in Tid \ {0} : z[s].user = u /\ (\A y \in {n} : TidOf(y) # s) => c[s] + f[s] = r[s] /\ a[s] = r[s]
      <3> SUFFICES ASSUME NEW s \in Tid \ {0}, z[s].user = u, s # t PROVE c[s] + f[s] = r[s] /\ a[s] = r[s]  BY <1>13
      <3>1. \A y \in C : y.user = z[s].user => TidOf(y) # s  BY <1>7 DEF NoneAbout
      <3>2. c[s] + e[s] = r[s] /\ a[s] = r[s]  BY ONLY s \in Tid \ {0}, <1>19, <2>2, <3>1, LedgerAt
      <3> QED  BY <1>12, <1>24, <3>2
    <2>6. Ledger(Others(C, u) \cup {n}, H, c, f, r, a)  BY ONLY <1>19, <2>2, <2>3, <2>4, <2>5, LedgerHanded
    <2> QED  BY <1>29, <2>6 DEF Asks
  <1>31. Sends(k.pending, C \cup {n})
    <2>1. Sends(k.pending, C)
      <3>1. Sends(pending, C) /\ Joins(k.pending, pending, z, H \cup {o.tid})  BY <1>4, <1>24
      <3> QED  BY ONLY <1>5, <3>1, SendsJoined
    <2> QED  BY <1>13, <2>1 DEF Sends
  <1>32. HalvesMeet(unmatched, k.pending, C \cup {n}, g)
    <2>1. ~Unserved(n)  BY <1>13 DEF Unserved
    <2> QED  BY <1>4, <1>24, <2>1 DEF HalvesMeet
  <1>33. IdsAre(idpool', nextid', H, k.pending, C \cup {n}, r, a)
    <2>1. IdsAre(idpool, nextid, H, pending, C, r, a) /\ Joins(k.pending, pending, z, H \cup {t})
      BY <1>4, <1>12, <1>24
    <2>2. IdsAre(idpool \cup {t}, t, H, k.pending, C \cup {n}, r, a)  BY ONLY <1>5, <1>13, <1>16, <2>1, IdsJoined
    <2> QED  BY <1>1, <2>2
  <1>34. AccountsAre(accounts', z, a)  BY <1>6, <1>18, AccountsLocked
  <1>35. PICK y : y = z  OBVIOUS
  <1>36. Exact(y, H, c, f, r, a, g)'
    <2>1. status' = "TRADING" /\ online' = User /\ faults' \in 0 .. MaxFaults /\ crashes' = 0  BY <1>1 DEF Exact
    <2>2. BookIs(orders', y, H, c) /\ VolumesAre(volumes', orders') /\ DealsAre(pending', y, f) /\ RowsAre(stored', y, r)
      BY <1>1, <1>3, <1>18, <1>24, <1>35
    <2>3. /\ CallsAre(Requests', y) /\ FundsAre(funds', accounts', Requests') /\ Covered(funds', y, r, Requests')
          /\ Ledger(Requests', H, c, f, r, a)
      BY <1>1, <1>7, <1>29, <1>30, <1>35 DEF fu, Asks
    <2>4. /\ Sends(pending', Requests') /\ HalvesMeet(unmatched', pending', Requests', g)
          /\ IdsAre(idpool', nextid', H, pending', Requests', r, a)
      BY <1>1, <1>3, <1>7, <1>31, <1>32, <1>33
    <2> QED  BY ONLY <1>16, <1>34, <1>35, <2>1, <2>2, <2>3, <2>4 DEF Exact
  <1> QED  BY <1>36 DEF ExactNow

\* The same of any values of the variables, C the requests.
World(x, bk, vo, pe, st, as, C, idp, nid, fu, un, H, b, d, r, a, g) ==
    /\ x \in [Tid -> Whose] /\ BookIs(bk, x, H, b) /\ VolumesAre(vo, bk) /\ DealsAre(pe, x, d)
    /\ RowsAre(st, x, r) /\ AccountsAre(as, x, a) /\ CallsAre(C, x) /\ Ledger(C, H, b, d, r, a)
    /\ Sends(pe, C) /\ IdsAre(idp, nid, H, pe, C, r, a) /\ FundsAre(fu, as, C) /\ Covered(fu, x, r, C)
    /\ HalvesMeet(un, pe, C, g)

Running == status = "TRADING" /\ online = User /\ faults \in 0 .. MaxFaults /\ crashes = 0

LEMMA ExactIs ==
    ASSUME NEW x, NEW H, NEW b, NEW d, NEW r, NEW a, NEW g
    PROVE  Exact(x, H, b, d, r, a, g) <=>
               Running /\ World(x, orders, volumes, pending, stored, accounts, Requests, idpool, nextid, funds,
                                unmatched, H, b, d, r, a, g)
  BY DEF Exact, World, Running

Typed(x, bk, pe, as, fu, un, H, b, d, r, a, g) ==
    /\ x \in [Tid -> Whose] /\ b \in [Tid -> Nat] /\ d \in [Tid -> Int] /\ r \in [Tid -> Nat] /\ a \in [Tid -> Nat]
    /\ g \in [Tid -> Int] /\ H \subseteq Tid \ {0} /\ DOMAIN as = User /\ un \in Int
    /\ r[0] = 0 /\ a[0] = 0 /\ g[0] = 0 /\ b[0] = 0
    /\ bk \in Seq(Ord) /\ pe \in Seq(Dls) /\ fu \in [User -> [cash : Int, money : Int]]

LEMMA WorldTypes ==
    ASSUME NEW x, NEW bk, NEW vo, NEW pe, NEW st, NEW as, NEW C, NEW idp, NEW nid, NEW fu, NEW un,
           NEW H, NEW b, NEW d, NEW r, NEW a, NEW g,
           World(x, bk, vo, pe, st, as, C, idp, nid, fu, un, H, b, d, r, a, g)
    PROVE  Typed(x, bk, pe, as, fu, un, H, b, d, r, a, g)
  BY TidsAre DEF Typed, World, BookIs, DealsAre, RowsAre, AccountsAre, HalvesMeet, FundsAre

\* A user no request is about: his orders and funds.
Even(s, b, d, r, a) == b[s] + d[s] = r[s] /\ a[s] = r[s]

LEMMA IdleOrder ==
    ASSUME NEW x \in [Tid -> Whose], NEW C, CallsAre(C, x), NEW H, NEW b, NEW d, NEW r, NEW a, Ledger(C, H, b, d, r, a),
           NEW u, NoneAbout(C, u), NEW s \in Tid \ {0}, x[s].user = u
    PROVE  Even(s, b, d, r, a)
  <1>1. \A c \in C : c.user = x[s].user => TidOf(c) # s  BY DEF NoneAbout
  <1> QED  BY <1>1, LedgerAt DEF Even

\* An order is taken off the market to be cancelled.
LEMMA CancelSent ==
    ASSUME NEW x, NEW bk, NEW vo, NEW pe, NEW st, NEW as, NEW C, NEW idp, NEW nid, NEW fu, NEW un,
           NEW H, NEW b, NEW d, NEW r, NEW a, NEW g,
           World(x, bk, vo, pe, st, as, C, idp, nid, fu, un, H, b, d, r, a, g),
           NEW i \in DOMAIN bk, bk[i].volume > 0, ~IsTrading(pe, bk[i].tid), NoneAbout(C, bk[i].user),
           NEW bs, SameButLocks(bs, as)
    PROVE  World(x, [bk EXCEPT ![i].volume = 0], ReduceVolume(vo, bk[i].price, bk[i].volume), pe, st, bs,
                 C \cup {Cancel(bk[i])}, idp, nid, fu, un, H, [b EXCEPT ![bk[i].tid] = 0], d, r, a, g)
  <1> DEFINE o == bk[i]
             t == o.tid
             u == o.user
             n == Cancel(o)
             new == [bk EXCEPT ![i].volume = 0]
             vn == ReduceVolume(vo, bk[i].price, bk[i].volume)
             c == [b EXCEPT ![bk[i].tid] = 0]
  <1>1. /\ x \in [Tid -> Whose] /\ b \in [Tid -> Nat] /\ d \in [Tid -> Int] /\ r \in [Tid -> Nat] /\ a \in [Tid -> Nat]
        /\ g \in [Tid -> Int] /\ H \subseteq Tid \ {0} /\ DOMAIN as = User /\ bk \in Seq(Ord)
    <2>1. Typed(x, bk, pe, as, fu, un, H, b, d, r, a, g)
      BY ONLY World(x, bk, vo, pe, st, as, C, idp, nid, fu, un, H, b, d, r, a, g), WorldTypes
    <2> QED  BY ONLY <2>1 DEF Typed
  <1>2. /\ BookIs(bk, x, H, b) /\ VolumesAre(vo, bk) /\ DealsAre(pe, x, d) /\ RowsAre(st, x, r)
        /\ AccountsAre(as, x, a) /\ CallsAre(C, x) /\ Ledger(C, H, b, d, r, a)
        /\ Sends(pe, C) /\ IdsAre(idp, nid, H, pe, C, r, a) /\ FundsAre(fu, as, C) /\ Covered(fu, x, r, C)
        /\ HalvesMeet(un, pe, C, g)
    BY DEF World
  <1>3. BookIs(new, x, H, c) /\ VolumesAre(vn, new)  BY ONLY <1>2, i \in DOMAIN bk, BookCancelled
  <1>4. t \in H /\ t \in Tid \ {0} /\ x[t].user = u /\ o.volume = b[t] /\ u \in User /\ b[t] > 0
    <2>1. o \in Ord  BY <1>1
    <2>2. o.tid \in H /\ x[o.tid] = [user |-> o.user, price |-> o.price] /\ o.volume = b[o.tid]
      BY ONLY <1>2, i \in DOMAIN bk DEF BookIs, Of
    <2>3. o.user \in User  BY <2>1 DEF Ord, OrdersOf
    <2> QED  BY <1>1, <2>2, <2>3
  <1>5. /\ n.op = "CANCEL" /\ n.user = u /\ n.arg.tid = t /\ n.arg.volume = o.volume /\ n.res = NoAnswer /\ n.waiting
        /\ TidOf(n) = t
    BY DEF Cancel, Call, TidOf
  <1>6. NoneAbout(C, u) /\ t = bk[i].tid  OBVIOUS
  <1>7. d[t] = 0
    <2>1. \A k \in DOMAIN pe : pe[k].order.tid # t  BY DEF IsTrading
    <2> QED  BY ONLY <1>2, <1>4, <2>1, LotsCounted
  <1> HIDE DEF o, t, u, n, new, vn, c
  <1>8. c \in [Tid -> Nat] /\ c[t] = 0 /\ \A s \in Tid \ {t} : c[s] = b[s]  BY <1>1, <1>4, <1>6 DEF c
  <1>9. Even(t, b, d, r, a)  BY ONLY <1>1, <1>2, <1>4, <1>6, IdleOrder
  <1>10. CallIs(n, x) /\ Promised(n, fu, x, r)  BY <1>4, <1>5 DEF CallIs, Promised, NoAnswer
  <1>11. Asks(C, n, u, x, fu, bs, r)  BY ONLY <1>1, <1>2, <1>4, <1>5, <1>6, <1>10, SameButLocks(bs, as), RequestJoins
  <1>12. Ledger(C \cup {n}, H, c, d, r, a)
    <2>1. \A s \in Tid \ {0} : x[s].user # u => Agree(s, H, b, d, r, a, H, c, d, r, a)
      <3>1. \A s \in Tid : x[s].user # u => c[s] = b[s]  BY <1>4, <1>8
      <3> QED  BY ONLY <3>1 DEF Agree
    <2>2. \A y \in {n} : Settling(y, H, c, d, r, a)
      <3>1. b[t] \in Nat /\ b[t] > 0 /\ r[t] = b[t] /\ a[t] = b[t]  BY <1>1, <1>4, <1>7, <1>9 DEF Even
      <3>2. Settling(n, H, c, d, r, a)  BY <1>4, <1>5, <1>7, <1>8, <3>1 DEF Settling
      <3> QED  BY <3>2
    <2>3. \A s \in Tid \ {0} : x[s].user = u /\ (\A y \in {n} : TidOf(y) # s) => c[s] + d[s] = r[s] /\ a[s] = r[s]
      <3> SUFFICES ASSUME NEW s \in Tid \ {0}, x[s].user = u, s # t PROVE c[s] + d[s] = r[s] /\ a[s] = r[s]  BY <1>5
      <3>1. Even(s, b, d, r, a)  BY ONLY s \in Tid \ {0}, x[s].user = u, <1>1, <1>2, <1>6, IdleOrder
      <3> QED  BY <1>8, <3>1 DEF Even
    <2>4. Ledger(Others(C, u) \cup {n}, H, c, d, r, a)  BY ONLY <1>2, <2>1, <2>2, <2>3, LedgerHanded
    <2> QED  BY <1>11, <2>4 DEF Asks
  <1>13. Sends(pe, C \cup {n})  BY <1>2, <1>5 DEF Sends
  <1>14. HalvesMeet(un, pe, C \cup {n}, g)
    <2>1. ~Unserved(n)  BY <1>5 DEF Unserved
    <2> QED  BY <1>2, <2>1 DEF HalvesMeet
  <1>15. IdsAre(idp, nid, H, pe, C \cup {n}, r, a)  BY <1>2, <1>4, <1>5 DEF IdsAre
  <1>16. AccountsAre(bs, x, a)  BY <1>2, AccountsLocked
  <1>17. World(x, new, vn, pe, st, bs, C \cup {n}, idp, nid, fu, un, H, c, d, r, a, g)
    BY ONLY <1>1, <1>2, <1>3, <1>11, <1>12, <1>13, <1>14, <1>15, <1>16 DEF World, Asks
  <1> QED  BY <1>17 DEF new, vn, n, c, o

\* Locks change nothing.
LEMMA LocksWorld ==
    ASSUME NEW x, NEW bk, NEW vo, NEW pe, NEW st, NEW as, NEW C, NEW idp, NEW nid, NEW fu, NEW un,
           NEW H, NEW b, NEW d, NEW r, NEW a, NEW g,
           World(x, bk, vo, pe, st, as, C, idp, nid, fu, un, H, b, d, r, a, g),
           NEW bs, SameButLocks(bs, as)
    PROVE  World(x, bk, vo, pe, st, bs, C, idp, nid, fu, un, H, b, d, r, a, g)
  <1>1. AccountsAre(as, x, a) /\ FundsAre(fu, as, C) /\ DOMAIN as = User  BY DEF World, AccountsAre
  <1>2. AccountsAre(bs, x, a) /\ FundsAre(fu, bs, C)  BY <1>1, AccountsLocked, FundsLocked
  <1> QED  BY <1>2 DEF World

LEMMA PreCancelExact ==
    ASSUME Inv, NEW x, NEW H, NEW b, NEW d, NEW r, NEW a, NEW g, Exact(x, H, b, d, r, a, g),
           NEW u \in User, NEW j \in DOMAIN orders, PreCancel(u, orders[j].tid)
    PROVE  ExactNow'
  <1> DEFINE i == SelectInSeq(orders, LAMBDA o : o.tid = orders[j].tid)
  <1>1. Running /\ World(x, orders, volumes, pending, stored, accounts, Requests, idpool, nextid, funds, unmatched, H, b, d, r, a, g)
    BY ExactIs
  <1>2. orders \in Seq(Ord) /\ TidsApart(orders) /\ CallsAre(Requests, x)  BY <1>1 DEF World, BookIs
  <1>3. i = j
    <2>1. PlaceOf(orders, orders[j].tid) = j  BY ONLY <1>2, j \in DOMAIN orders, SelectedOrder
    <2> QED  BY <2>1 DEF PlaceOf
  <1>4. /\ orders[i].volume > 0 /\ orders[i].user = u /\ CanLock(u) /\ accounts' = Lock(u)
        /\ IF IsTrading(pending, orders[j].tid)
           THEN UNCHANGED <<market, calls>>
           ELSE /\ volumes' = ReduceVolume(volumes, orders[i].price, orders[i].volume)
                /\ orders' = [orders EXCEPT ![i].volume = 0]
                /\ calls' = Append(calls, Cancel(orders[i]))
                /\ UNCHANGED pending
        /\ UNCHANGED <<status, online, pool, db, bounds>>
    BY DEF PreCancel
  <1> HIDE DEF i
  <1>5. SameButLocks(accounts', accounts)  BY <1>4 DEF Lock, SameButLocks
  <1>6. /\ stored' = stored /\ funds' = funds /\ unmatched' = unmatched /\ idpool' = idpool /\ nextid' = nextid
        /\ Running'
    BY <1>1, <1>4 DEF pool, db, bounds, Running
  <1>7. CASE IsTrading(pending, orders[j].tid)
    <2>1. orders' = orders /\ volumes' = volumes /\ pending' = pending /\ calls' = calls  BY <1>4, <1>7 DEF market
    <2>2. Requests' = Requests  BY <2>1 DEF Requests
    <2>3. World(x, orders, volumes, pending, stored, accounts', Requests, idpool, nextid, funds, unmatched, H, b, d, r, a, g)
      BY ONLY <1>1, <1>5, LocksWorld
    <2>4. Exact(x, H, b, d, r, a, g)'  BY ONLY <1>6, <2>1, <2>2, <2>3 DEF Exact, World, Running
    <2> QED  BY <2>4 DEF ExactNow
  <1>8. CASE ~IsTrading(pending, orders[j].tid)
    <2> DEFINE n == Cancel(orders[j])
    <2>1. /\ volumes' = ReduceVolume(volumes, orders[j].price, orders[j].volume)
          /\ orders' = [orders EXCEPT ![j].volume = 0] /\ calls' = Append(calls, n) /\ pending' = pending
      BY <1>3, <1>4, <1>8
    <2>2. Requests' = Requests \cup {n}  BY <2>1, RequestAdded
    <2>3. NoneAbout(Requests, orders[j].user) /\ orders[j].volume > 0  BY <1>2, <1>3, <1>4, LockableIsFree
    <2> HIDE DEF n
    <2>4. World(x, [orders EXCEPT ![j].volume = 0], ReduceVolume(volumes, orders[j].price, orders[j].volume), pending, stored, accounts',
                Requests \cup {Cancel(orders[j])}, idpool, nextid, funds, unmatched, H, [b EXCEPT ![orders[j].tid] = 0], d, r, a, g)
      BY ONLY <1>1, <1>5, <1>8, <2>3, j \in DOMAIN orders, CancelSent
    <2>5. PICK c : c = [b EXCEPT ![orders[j].tid] = 0]  OBVIOUS
    <2>6. Exact(x, H, c, d, r, a, g)'  BY ONLY <1>6, <2>1, <2>2, <2>4, <2>5 DEF Exact, World, Running, n
    <2> QED  BY <2>6 DEF ExactNow
  <1> QED  BY <1>7, <1>8

-----------------------------------------------------------------------------
(***************************************************************************)
(* Update.                                                                 *)
(***************************************************************************)
\* Settled deals are erased.
LEMMA ErasedWorld ==
    ASSUME NEW x, NEW bk, NEW vo, NEW pe, NEW st, NEW as, NEW C, NEW idp, NEW nid, NEW fu, NEW un,
           NEW H, NEW b, NEW d, NEW r, NEW a, NEW g,
           World(x, bk, vo, pe, st, as, C, idp, nid, fu, un, H, b, d, r, a, g),
           NEW K \in SUBSET (DOMAIN pe), \A k \in DOMAIN pe \ K : pe[k].status = "BALANCE_DONE",
           NEW new, new = Keep(pe, K)
    PROVE  World(x, bk, vo, new, st, as, C, idp, nid, fu, un, H, b, d, r, a, g)
  <1>1. /\ DealsAre(pe, x, d) /\ Sends(pe, C) /\ HalvesMeet(un, pe, C, g) /\ IdsAre(idp, nid, H, pe, C, r, a)
        /\ pe \in Seq(Dls)
    BY DEF World, DealsAre
  <1>2. DealsAre(new, x, d) /\ SumOver(UnsentHalves, new) = SumOver(UnsentHalves, pe)
    BY ONLY <1>1, K \in SUBSET (DOMAIN pe), new = Keep(pe, K), \A k \in DOMAIN pe \ K : pe[k].status = "BALANCE_DONE", DealsKept
  <1>3. PICK name : /\ \A j \in DOMAIN new : name[j] \in K /\ new[j] = pe[name[j]]
                    /\ \A k \in K : \E j \in DOMAIN new : name[j] = k
                    /\ \A i, j \in DOMAIN new : name[i] = name[j] => i = j
    BY ONLY <1>1, K \in SUBSET (DOMAIN pe), new = Keep(pe, K), KeptMembers
  <1>4. \A j \in DOMAIN new : name[j] \in DOMAIN pe /\ new[j] = pe[name[j]]  BY <1>3
  <1>5. \A k \in DOMAIN pe : pe[k].status = "BALANCE_WAIT" => \E j \in DOMAIN new : new[j] = pe[k]
    <2> SUFFICES ASSUME NEW k \in DOMAIN pe, pe[k].status = "BALANCE_WAIT" PROVE \E j \in DOMAIN new : new[j] = pe[k]
      OBVIOUS
    <2>1. k \in K  OBVIOUS
    <2> QED  BY <1>3, <2>1
  <1>6. Sends(new, C)
    <2>1. ASSUME NEW k \in DOMAIN new, new[k].status = "BALANCE_WAIT"
          PROVE  \E c \in C : c.op = "BALANCE" /\ c.arg.tid = new[k].order.tid
      BY <1>1, <1>4, <2>1 DEF Sends
    <2>2. ASSUME NEW k \in DOMAIN new, NEW m \in DOMAIN new, new[k].status = "BALANCE_WAIT", new[m].status = "BALANCE_WAIT",
                 new[k].order.tid = new[m].order.tid
          PROVE  k = m
      <3>1. name[k] = name[m]  BY ONLY <1>1, <1>4, <2>2 DEF Sends
      <3> QED  BY <1>3, <3>1
    <2>3. ASSUME NEW c \in C, c.op = "BALANCE"
          PROVE  \E k \in DOMAIN new : new[k].status = "BALANCE_WAIT" /\ new[k].order.tid = c.arg.tid
      <3>1. PICK k \in DOMAIN pe : pe[k].status = "BALANCE_WAIT" /\ pe[k].order.tid = c.arg.tid
        BY <1>1, <2>3 DEF Sends
      <3> QED  BY <1>5, <3>1
    <2> QED  BY <2>1, <2>2, <2>3 DEF Sends
  <1>7. IdsAre(idp, nid, H, new, C, r, a)  BY <1>1, <1>4 DEF IdsAre
  <1>8. HalvesMeet(un, new, C, g)  BY <1>1, <1>2 DEF HalvesMeet
  <1> QED
    BY ONLY World(x, bk, vo, pe, st, as, C, idp, nid, fu, un, H, b, d, r, a, g), <1>2, <1>6, <1>7, <1>8 DEF World

\* A deal is sent to the database.
LEMMA BalanceSent ==
    ASSUME NEW x, NEW bk, NEW vo, NEW pe, NEW st, NEW as, NEW C, NEW idp, NEW nid, NEW fu, NEW un,
           NEW H, NEW b, NEW d, NEW r, NEW a, NEW g,
           World(x, bk, vo, pe, st, as, C, idp, nid, fu, un, H, b, d, r, a, g),
           NEW k \in DOMAIN pe, pe[k].status = "COMMISSION_DONE", NoneAbout(C, pe[k].order.user),
           NEW bs, SameButLocks(bs, as), NEW new, new = [pe EXCEPT ![k].status = "BALANCE_WAIT"]
    PROVE  \E c, h : World(x, bk, vo, new, st, bs, C \cup {Balance(pe[k])}, idp, nid, fu, un, H, b, c, r, a, h)
  <1> DEFINE e == pe[k]
             t == e.order.tid
             v == e.order.volume
             u == e.order.user
             n == Balance(e)
             c == [d EXCEPT ![t] = @ - v]
             h == [g EXCEPT ![t] = HalfOf(e)]
  <1>1. /\ x \in [Tid -> Whose] /\ b \in [Tid -> Nat] /\ d \in [Tid -> Int] /\ r \in [Tid -> Nat] /\ a \in [Tid -> Nat]
        /\ g \in [Tid -> Int] /\ g[0] = 0 /\ H \subseteq Tid \ {0} /\ DOMAIN as = User /\ pe \in Seq(Dls) /\ un \in Int
    <2>1. Typed(x, bk, pe, as, fu, un, H, b, d, r, a, g)
      BY ONLY World(x, bk, vo, pe, st, as, C, idp, nid, fu, un, H, b, d, r, a, g), WorldTypes
    <2> QED  BY ONLY <2>1 DEF Typed
  <1>2. /\ BookIs(bk, x, H, b) /\ VolumesAre(vo, bk) /\ DealsAre(pe, x, d) /\ RowsAre(st, x, r)
        /\ AccountsAre(as, x, a) /\ CallsAre(C, x) /\ Ledger(C, H, b, d, r, a)
        /\ Sends(pe, C) /\ IdsAre(idp, nid, H, pe, C, r, a) /\ FundsAre(fu, as, C) /\ Covered(fu, x, r, C)
        /\ HalvesMeet(un, pe, C, g)
    BY DEF World
  <1>3. e \in Dls /\ e.status = "COMMISSION_DONE" /\ DOMAIN pe = 1 .. Len(pe) /\ Len(pe) \in Nat  BY <1>1
  <1>4. /\ t \in Tid \ {0} /\ x[t] = [user |-> u, price |-> e.order.price] /\ v > 0 /\ v \in Int /\ u \in User
        /\ FairPay(e.order.price, v, e.ack_money) /\ e.order.price \in Int /\ e.order.price # 0 /\ e.ack_money \in Int
    <2>1. SoundDeal(e, x) /\ e.order.volume > 0  BY <1>2, <1>3 DEF DealsAre
    <2>2. e.order \in Ord /\ t \in Tid /\ v \in Int /\ e.order.price \in Prices /\ e.ack_money \in Int
      BY ONLY <1>3, DealWeighs
    <2>3. u \in User  BY <2>2 DEF Ord, OrdersOf
    <2>4. e.order.price \in Int /\ e.order.price # 0  BY <2>2, PricesAre
    <2> QED  BY <2>1, <2>2, <2>3, <2>4 DEF SoundDeal, Of
  <1>5. x[t].user = u /\ x[t].price = e.order.price  BY <1>4
  <1>6. /\ n.op = "BALANCE" /\ n.user = u /\ n.arg.tid = t /\ n.arg.ack_volume = v /\ n.arg.ack_money = e.ack_money
        /\ n.res = NoAnswer /\ n.waiting /\ TidOf(n) = t /\ Unserved(n)
    BY DEF Balance, Call, TidOf, Unserved
  <1>7. NoneAbout(C, u)  OBVIOUS
  <1>8. /\ DealsAre(new, x, c) /\ SumOver(UnsentHalves, new) = SumOver(UnsentHalves, pe) - HalfOf(e)
        /\ Len(new) = Len(pe) /\ new[k] = [e EXCEPT !.status = "BALANCE_WAIT"]
        /\ \A j \in DOMAIN pe : j # k => new[j] = pe[j]
    <2>1. SentDeal(new, pe, x, c, k)  BY <1>2, <1>3, DealSent
    <2> QED  BY <2>1 DEF SentDeal
  <1>9. c \in [Tid -> Int] /\ c[t] = d[t] - v /\ \A s \in Tid \ {t} : c[s] = d[s]
    <2>1. d \in [Tid -> Int] /\ t \in Tid /\ v \in Int  BY <1>1, <1>4
    <2>2. PICK w : w = d[t] - v  OBVIOUS
    <2>3. c = [d EXCEPT ![t] = w]  BY <2>2
    <2> QED  BY ONLY <2>1, <2>2, <2>3
  <1>10. new[k].order = e.order /\ new[k].status = "BALANCE_WAIT" /\ DOMAIN new = DOMAIN pe
    <2>1. e = [order |-> e.order, dealtid |-> e.dealtid, ack_money |-> e.ack_money, status |-> e.status]
      BY <1>3 DEF Dls, DealsOf
    <2>2. [e EXCEPT !.status = "BALANCE_WAIT"].order = e.order /\ [e EXCEPT !.status = "BALANCE_WAIT"].status = "BALANCE_WAIT"
      BY <2>1
    <2> QED  BY <1>8, <2>2
  <1>11. HalfOf(e) \in Int /\ HalfOf(e) = Half(n.arg.ack_money > 0, n.arg.ack_volume)
    <2>1. (e.order.price > 0) <=> (e.ack_money > 0)
      <3>1. CASE e.order.price > 0
        <4>1. e.order.price * v > 0  BY <1>4, <3>1
        <4> QED  BY <1>4, <3>1, <4>1 DEF FairPay
      <3>2. CASE e.order.price < 0  BY <1>4, <3>2 DEF FairPay
      <3> QED  BY <1>4, <3>1, <3>2
    <2>2. HalfOf(e) \in Int  BY <1>4 DEF HalfOf, Half
    <2>3. n.arg.ack_money = e.ack_money /\ n.arg.ack_volume = v  BY <1>6
    <2> QED  BY <2>1, <2>2, <2>3 DEF HalfOf, Half
  <1>12. /\ h \in [Tid -> Int] /\ h[t] = HalfOf(e) /\ \A s \in Tid \ {t} : h[s] = g[s]
         /\ h[0] = g[0] /\ SumFunctionOnSet(h, Tid) = SumFunctionOnSet(g, Tid) - g[t] + HalfOf(e)
         /\ SumFunctionOnSet(g, Tid) \in Int
    <2>1. h = [g EXCEPT ![t] = HalfOf(e)]  OBVIOUS
    <2>2. h \in [Tid -> Int] /\ HalfOf(e) \in Int /\ t \in Tid \ {0} /\ g \in [Tid -> Int]  BY <1>1, <1>4, <1>11
    <2> HIDE DEF h, t, e
    <2>3. HalfNow(h, g, t, HalfOf(e))  BY ONLY <2>1, <2>2, HalfChanged
    <2> QED  BY ONLY <2>3 DEF HalfNow
  <1> HIDE DEF e, t, v, u, n, c, h
  <1>13. Even(t, b, d, r, a)  BY ONLY <1>1, <1>2, <1>4, <1>5, <1>7, IdleOrder
  <1>14. CallIs(n, x)  BY <1>4, <1>5, <1>6 DEF CallIs
  <1>15. Promised(n, fu, x, r)  BY <1>6 DEF Promised
  <1>16. Asks(C, n, u, x, fu, bs, r)
    BY ONLY <1>1, <1>2, <1>4, <1>6, <1>7, <1>14, <1>15, SameButLocks(bs, as), RequestJoins
  <1>17. Ledger(C \cup {n}, H, b, c, r, a)
    <2>1. \A s \in Tid \ {0} : x[s].user # u => Agree(s, H, b, d, r, a, H, b, c, r, a)
      <3>1. \A s \in Tid : x[s].user # u => c[s] = d[s]  BY <1>5, <1>9
      <3> QED  BY ONLY <3>1 DEF Agree
    <2>2. \A y \in {n} : Settling(y, H, b, c, r, a)
      <3>1. b[t] \in Int /\ d[t] \in Int /\ v \in Int /\ b[t] + d[t] = r[t] /\ a[t] = r[t] /\ c[t] = d[t] - v
        BY <1>1, <1>4, <1>9, <1>13 DEF Even
      <3>2. a[t] = b[t] + c[t] + v /\ r[t] = a[t]  BY ONLY <3>1
      <3>3. Settling(n, H, b, c, r, a)  BY <1>6, <3>2 DEF Settling
      <3> QED  BY <3>3
    <2>3. \A s \in Tid \ {0} : x[s].user = u /\ (\A y \in {n} : TidOf(y) # s) => b[s] + c[s] = r[s] /\ a[s] = r[s]
      <3> SUFFICES ASSUME NEW s \in Tid \ {0}, x[s].user = u, s # t PROVE b[s] + c[s] = r[s] /\ a[s] = r[s]  BY <1>6
      <3>1. Even(s, b, d, r, a)  BY ONLY s \in Tid \ {0}, x[s].user = u, <1>1, <1>2, <1>7, IdleOrder
      <3> QED  BY <1>9, <3>1 DEF Even
    <2>4. Ledger(Others(C, u) \cup {n}, H, b, c, r, a)  BY ONLY <1>2, <2>1, <2>2, <2>3, LedgerHanded
    <2> QED  BY <1>16, <2>4 DEF Asks
  <1>18. Sends(new, C \cup {n})
    <2>1. \A j \in DOMAIN pe : pe[j].status = "BALANCE_WAIT" => pe[j].order.tid # t
      <3>1. \A j \in DOMAIN pe : pe[j].status = "BALANCE_WAIT" => x[pe[j].order.tid].user # u
        BY ONLY <1>2, <1>7, IdleSends
      <3> QED  BY <1>5, <3>1
    <2>2. ~(pe[k].status = "BALANCE_WAIT") /\ new[k].order.tid = t  BY <1>3, <1>10 DEF e, t
    <2>3. \A j \in DOMAIN new : new[j].status = "BALANCE_WAIT" /\ j # k => j \in DOMAIN pe /\ new[j] = pe[j]
      BY <1>8, <1>10
    <2>4. ASSUME NEW j \in DOMAIN new, new[j].status = "BALANCE_WAIT"
          PROVE  \E y \in C \cup {n} : y.op = "BALANCE" /\ y.arg.tid = new[j].order.tid
      <3>1. CASE j = k  BY <1>6, <2>2, <3>1
      <3>2. CASE j # k
        <4>1. new[j] = pe[j] /\ j \in DOMAIN pe  BY <2>3, <2>4, <3>2
        <4> QED  BY ONLY <1>2, <2>4, <4>1 DEF Sends
      <3> QED  BY <3>1, <3>2
    <2>5. ASSUME NEW j \in DOMAIN new, NEW m \in DOMAIN new, new[j].status = "BALANCE_WAIT", new[m].status = "BALANCE_WAIT",
                 new[j].order.tid = new[m].order.tid
          PROVE  j = m
      <3>1. j # k => j \in DOMAIN pe /\ new[j] = pe[j]  BY ONLY <2>3, <2>5
      <3>2. m # k => m \in DOMAIN pe /\ new[m] = pe[m]  BY ONLY <2>3, <2>5
      <3>3. CASE j # k /\ m # k  BY ONLY <1>2, <2>5, <3>1, <3>2, <3>3 DEF Sends
      <3> QED  BY ONLY <2>1, <2>2, <2>5, <3>1, <3>2, <3>3
    <2>6. ASSUME NEW y \in C \cup {n}, y.op = "BALANCE"
          PROVE  \E j \in DOMAIN new : new[j].status = "BALANCE_WAIT" /\ new[j].order.tid = y.arg.tid
      <3>1. CASE y = n  BY <1>6, <1>10, <2>2, <3>1
      <3>2. CASE y \in C
        <4>1. PICK j \in DOMAIN pe : pe[j].status = "BALANCE_WAIT" /\ pe[j].order.tid = y.arg.tid
          BY ONLY <1>2, <2>6, <3>2 DEF Sends
        <4>2. j # k  BY <2>2, <4>1
        <4> QED  BY <1>8, <1>10, <4>1, <4>2
      <3> QED  BY <3>1, <3>2
    <2> QED  BY ONLY <2>4, <2>5, <2>6 DEF Sends
  <1>19. HalvesMeet(un, new, C \cup {n}, h)
    <2>1. \A s \in Tid : x[s].user = u => g[s] = 0  BY ONLY <1>2, <1>7, IdleHalves
    <2>2. un + SumOver(UnsentHalves, new) + SumFunctionOnSet(h, Tid) = 0
      <3>1. un + SumOver(UnsentHalves, pe) + SumFunctionOnSet(g, Tid) = 0  BY <1>2 DEF HalvesMeet
      <3>2. SumOver(UnsentHalves, pe) \in Int
        <4>1. UnsentHalves \in [Dls -> Int]  BY DealSums
        <4> QED  BY ONLY <1>1, <4>1, SumOverType
      <3>3. g[t] = 0  BY <1>4, <1>5, <2>1
      <3> QED  BY ONLY <1>1, <1>8, <1>11, <1>12, <3>1, <3>2, <3>3
    <2>3. \A s \in Tid \ {0} : x[s].user # u => h[s] = g[s]  BY <1>5, <1>12
    <2>4. Unserved(n) => h[TidOf(n)] = Half(n.arg.ack_money > 0, n.arg.ack_volume)  BY <1>6, <1>11, <1>12
    <2>5. \A s \in Tid \ {0} : x[s].user = u /\ (Unserved(n) => TidOf(n) # s) => h[s] = 0  BY <1>6, <1>12, <2>1
    <2>6. h \in [Tid -> Int] /\ h[0] = 0  BY <1>1, <1>12
    <2>7. PICK N : N = {n}  OBVIOUS
    <2>8. \A y \in N : Unserved(y) => h[TidOf(y)] = Half(y.arg.ack_money > 0, y.arg.ack_volume)  BY ONLY <2>4, <2>7
    <2>9. \A s \in Tid \ {0} : x[s].user = u /\ (\A y \in N : Unserved(y) => TidOf(y) # s) => h[s] = 0
      BY ONLY <2>5, <2>7
    <2>10. HalvesMeet(un, new, Others(C, u) \cup N, h)
      <3>1. CallsAre(C, x)  BY <1>2
      <3>2. HalvesMeet(un, pe, C, g)  BY <1>2
      <3>3. h \in [Tid -> Int]  BY <2>6
      <3>4. h[0] = 0  BY <2>6
      <3>5. un \in Int  BY <1>1
      <3> QED  BY ONLY <3>1, <3>2, <3>3, <3>4, <3>5, <2>2, <2>3, <2>8, <2>9, HalvesHanded
    <2> QED  BY <1>16, <2>7, <2>10 DEF Asks
  <1>20. IdsAre(idp, nid, H, new, C \cup {n}, r, a)
    <2>1. \A j \in DOMAIN new : new[j].status # "BALANCE_DONE" => new[j].order.tid \in idp
      <3> SUFFICES ASSUME NEW j \in DOMAIN new, new[j].status # "BALANCE_DONE" PROVE new[j].order.tid \in idp  OBVIOUS
      <3>1. pe[j].status # "BALANCE_DONE" /\ new[j].order.tid = pe[j].order.tid  BY <1>3, <1>8, <1>10 DEF e
      <3> QED  BY <1>2, <1>10, <3>1 DEF IdsAre
    <2>2. t \in idp  BY <1>2, <1>3 DEF IdsAre, t, e
    <2> QED  BY ONLY <1>2, <1>6, <2>1, <2>2 DEF IdsAre
  <1>21. AccountsAre(bs, x, a)  BY <1>2, AccountsLocked
  <1>22. World(x, bk, vo, new, st, bs, C \cup {n}, idp, nid, fu, un, H, b, c, r, a, h)
    BY ONLY <1>1, <1>2, <1>8, <1>16, <1>17, <1>18, <1>19, <1>20, <1>21 DEF World, Asks
  <1> QED  BY <1>22 DEF n, e

LEMMA RangeJoined ==
    ASSUME NEW S, NEW cs \in Seq(S), NEW c
    PROVE  cs \o <<>> = cs /\ cs \o <<c>> = Append(cs, c) /\ Append(cs, c) \in Seq(S \cup {c})
  <1>1. cs \o <<>> = cs  BY ConcatEmptySeq
  <1>2. cs \in Seq(S \cup {c}) /\ c \in S \cup {c}  BY SeqMonotonic
  <1> QED  BY ONLY <1>1, <1>2, AppendIsConcat, AppendProperties

\* The deals Update looks at first: one is sent, or none.
Sent1(first, x, bk, vo, pe, st, bs, C, idp, nid, fu, un, H, b, d, r, a, g) ==
    \E c, h : World(x, bk, vo, IF first = 0 THEN pe ELSE [pe EXCEPT ![first].status = "BALANCE_WAIT"], st, bs,
                    IF first = 0 THEN C ELSE C \cup {Balance(pe[first])}, idp, nid, fu, un, H, b, c, r, a, h)

LEMMA UpdateSends ==
    ASSUME NEW x, NEW bk, NEW vo, NEW pe, NEW st, NEW as, NEW C, NEW idp, NEW nid, NEW fu, NEW un,
           NEW H, NEW b, NEW d, NEW r, NEW a, NEW g,
           World(x, bk, vo, pe, st, as, C, idp, nid, fu, un, H, b, d, r, a, g),
           NEW first \in {0} \cup DOMAIN pe,
           first # 0 => pe[first].status = "COMMISSION_DONE" /\ NoneAbout(C, pe[first].order.user),
           NEW bs, SameButLocks(bs, as)
    PROVE  Sent1(first, x, bk, vo, pe, st, bs, C, idp, nid, fu, un, H, b, d, r, a, g)
  <1>1. CASE first = 0
    <2>1. World(x, bk, vo, pe, st, bs, C, idp, nid, fu, un, H, b, d, r, a, g)
      BY ONLY World(x, bk, vo, pe, st, as, C, idp, nid, fu, un, H, b, d, r, a, g), SameButLocks(bs, as), LocksWorld
    <2> QED  BY <1>1, <2>1 DEF Sent1
  <1>2. CASE first # 0
    <2>1. first \in DOMAIN pe /\ pe[first].status = "COMMISSION_DONE" /\ NoneAbout(C, pe[first].order.user)  BY <1>2
    <2>2. PICK new : new = [pe EXCEPT ![first].status = "BALANCE_WAIT"]  OBVIOUS
    <2>3. \E c, h : World(x, bk, vo, new, st, bs, C \cup {Balance(pe[first])}, idp, nid, fu, un, H, b, c, r, a, h)
      BY ONLY World(x, bk, vo, pe, st, as, C, idp, nid, fu, un, H, b, d, r, a, g), SameButLocks(bs, as), <2>1, <2>2, BalanceSent
    <2> QED  BY <1>2, <2>2, <2>3 DEF Sent1
  <1> QED  BY <1>1, <1>2

LEMMA UpdateExact ==
    ASSUME Inv, NEW x, NEW H, NEW b, NEW d, NEW r, NEW a, NEW g, Exact(x, H, b, d, r, a, g),
           NEW old \in {0} \cup DOMAIN orders, Update(old)
    PROVE  ExactNow'
  <1>1. Running /\ World(x, orders, volumes, pending, stored, accounts, Requests, idpool, nextid, funds, unmatched, H, b, d, r, a, g)
    BY ExactIs
  <1>2. PICK first \in {0} \cup DOMAIN pending :
          LET users == {pending[i].order.user : i \in DOMAIN pending \cap {first}}
              own   == {orders[i].user : i \in DOMAIN orders \cap {old}}
          IN /\ IF Sendable = {} THEN first = 0
                ELSE first \in Sendable /\ \A i \in Sendable : first <= i
             /\ pending' = Sending(first)
             /\ IF old = 0 THEN UNCHANGED <<orders, volumes>>
                ELSE /\ orders[old].volume > 0 /\ ~IsTrading(pending', orders[old].tid)
                     /\ CanLock(orders[old].user) /\ orders[old].user \notin users
                     /\ orders' = [orders EXCEPT ![old].volume = 0]
                     /\ volumes' = ReduceVolume(volumes, orders[old].price, orders[old].volume)
             /\ accounts' = [u \in DOMAIN accounts |->
                                [accounts[u] EXCEPT !.locked = @ \/ u \in users \cup own]]
             /\ calls' = calls \o (IF first = 0 THEN <<>> ELSE <<Balance(pending[first])>>)
                               \o (IF old = 0 THEN <<>> ELSE <<Cancel(orders[old])>>)
             /\ UNCHANGED <<status, online, pool, db, bounds>>
    BY Zenon DEF Update
  <1>3. /\ stored' = stored /\ funds' = funds /\ unmatched' = unmatched /\ idpool' = idpool /\ nextid' = nextid
        /\ Running'
    BY <1>1, <1>2 DEF pool, db, bounds, Running
  <1>4. SameButLocks(accounts', accounts)
    <2>1. PICK L : accounts' = [u \in DOMAIN accounts |-> [accounts[u] EXCEPT !.locked = @ \/ u \in L]]  BY ONLY <1>2
    <2>2. ASSUME NEW u \in DOMAIN accounts
          PROVE  accounts'[u].cash = accounts[u].cash /\ accounts'[u].money = accounts[u].money
                 /\ accounts'[u].orders = accounts[u].orders
      <3>1. PICK e : e = accounts[u]  OBVIOUS
      <3>2. e = [cash |-> e.cash, money |-> e.money, locked |-> e.locked, orders |-> e.orders]
        BY <3>1 DEF Inv, Sound, AccountsSound, IsAccount
      <3>3. PICK l : l = (e.locked \/ u \in L)  OBVIOUS
      <3>4. accounts'[u] = [e EXCEPT !.locked = l]  BY <2>1, <3>1, <3>3
      <3>5. [e EXCEPT !.locked = l] = [cash |-> e.cash, money |-> e.money, locked |-> l, orders |-> e.orders]
        BY ONLY <3>2
      <3> QED  BY ONLY <3>1, <3>4, <3>5
    <2>3. DOMAIN accounts' = DOMAIN accounts  BY ONLY <2>1
    <2> QED  BY ONLY <2>2, <2>3 DEF SameButLocks
  <1>5. first # 0 => pending[first].status = "COMMISSION_DONE" /\ CanLock(pending[first].order.user)
    BY <1>2 DEF Sendable
  <1>6. CallsAre(Requests, x) /\ pending \in Seq(Dls) /\ orders \in Seq(Ord)  BY <1>1 DEF World, DealsAre, BookIs
  <1>7. first # 0 => pending[first].status = "COMMISSION_DONE" /\ NoneAbout(Requests, pending[first].order.user)
    BY <1>5, <1>6, LockableIsFree
  <1>8. PICK sent : sent = IF first = 0 THEN pending ELSE [pending EXCEPT ![first].status = "BALANCE_WAIT"]  OBVIOUS
  <1>9. PICK C : C = IF first = 0 THEN Requests ELSE Requests \cup {Balance(pending[first])}  OBVIOUS
  <1>10. PICK c, h : World(x, orders, volumes, sent, stored, accounts', C, idpool, nextid, funds, unmatched, H, b, c, r, a, h)
    <2>1. Sent1(first, x, orders, volumes, pending, stored, accounts', Requests, idpool, nextid, funds, unmatched, H, b, d, r, a, g)
      BY ONLY <1>1, <1>2, <1>4, <1>7, UpdateSends
    <2> QED  BY <1>8, <1>9, <2>1 DEF Sent1
  <1>11. World(x, orders, volumes, pending', stored, accounts', C, idpool, nextid, funds, unmatched, H, b, c, r, a, h)
    <2> DEFINE settled == {i \in DOMAIN pending : pending[i].status = "BALANCE_DONE" /\ (first = 0 \/ i < first)}
               K == DOMAIN pending \ settled
    <2>1. pending' = Keep(sent, K)  BY <1>2, <1>8 DEF Sending
    <2>2. DOMAIN sent = DOMAIN pending /\ \A i \in DOMAIN pending : i # first => sent[i] = pending[i]  BY <1>8
    <2>3. K \in SUBSET (DOMAIN sent) /\ \A i \in DOMAIN sent \ K : i \in DOMAIN pending /\ pending[i].status = "BALANCE_DONE"
      BY <2>2
    <2>4. \A i \in DOMAIN sent \ K : sent[i].status = "BALANCE_DONE"  BY <1>7, <1>8, <2>2, <2>3
    <2> HIDE DEF K
    <2>5. PICK new : new = pending'  OBVIOUS
    <2>6. World(x, orders, volumes, new, stored, accounts', C, idpool, nextid, funds, unmatched, H, b, c, r, a, h)
      BY ONLY <1>10, <2>1, <2>3, <2>4, <2>5, ErasedWorld
    <2> QED  BY <2>5, <2>6
  <1>12. PICK S, one : /\ one \in Seq(S) /\ Range(one) = C
                       /\ one = calls \o (IF first = 0 THEN <<>> ELSE <<Balance(pending[first])>>)
    <2>1. calls \in Seq(Requests)  BY <1>6, RequestsApart
    <2>2. CASE first = 0
      <3>1. calls \o <<>> = calls  BY <2>1, RangeJoined
      <3> QED  BY <1>9, <2>1, <2>2, <3>1 DEF Requests
    <2>3. CASE first # 0
      <3> DEFINE n == Balance(pending[first])
      <3>1. C = Requests \cup {n}  BY <1>9, <2>3
      <3> HIDE DEF n
      <3>2. calls \o <<n>> = Append(calls, n) /\ Append(calls, n) \in Seq(Requests \cup {n})  BY <2>1, RangeJoined
      <3>3. Range(Append(calls, n)) = Requests \cup {n}  BY <2>1, RangeAppended DEF Requests
      <3> QED  BY <2>3, <3>1, <3>2, <3>3 DEF n
    <2> QED  BY <2>2, <2>3
  <1>13. calls' = one \o (IF old = 0 THEN <<>> ELSE <<Cancel(orders[old])>>)  BY <1>2, <1>12
  <1>14. CASE old = 0
    <2>1. calls' = one  BY <1>12, <1>13, <1>14, RangeJoined
    <2>2. Requests' = C  BY <1>12, <2>1 DEF Requests
    <2>3. orders' = orders /\ volumes' = volumes  BY <1>2, <1>14
    <2>4. Exact(x, H, b, c, r, a, h)'  BY ONLY <1>3, <1>11, <2>2, <2>3 DEF Exact, World, Running
    <2> QED  BY <2>4 DEF ExactNow
  <1>15. CASE old # 0
    <2> DEFINE n == Cancel(orders[old])
               v == orders[old].user
    <2>1. old \in DOMAIN orders /\ orders[old].volume > 0 /\ ~IsTrading(pending', orders[old].tid) /\ CanLock(v)
      BY <1>2, <1>15
    <2>2. first # 0 => v # pending[first].order.user  BY <1>2, <1>15
    <2>3. orders' = [orders EXCEPT ![old].volume = 0] /\ volumes' = ReduceVolume(volumes, orders[old].price, orders[old].volume)
      BY <1>2, <1>15
    <2>4. calls' = one \o <<n>>  BY <1>13, <1>15
    <2>5. NoneAbout(C, v)
      <3>1. NoneAbout(Requests, v)  BY <1>6, <2>1, LockableIsFree
      <3>2. first # 0 => Balance(pending[first]).user = pending[first].order.user  BY DEF Balance, Call
      <3> QED  BY <1>9, <2>2, <3>1, <3>2 DEF NoneAbout
    <2> HIDE DEF n
    <2>6. Requests' = C \cup {n}
      <3>1. calls' = Append(one, n)  BY <1>12, <2>4, RangeJoined
      <3>2. Range(Append(one, n)) = C \cup {n}  BY <1>12, RangeAppended
      <3> QED  BY <3>1, <3>2 DEF Requests
    <2>7. PICK new : new = pending'  OBVIOUS
    <2>8. ~IsTrading(new, orders[old].tid)  BY <2>1, <2>7
    <2>9. World(x, [orders EXCEPT ![old].volume = 0], ReduceVolume(volumes, orders[old].price, orders[old].volume), new, stored, accounts',
                C \cup {Cancel(orders[old])}, idpool, nextid, funds, unmatched, H, [b EXCEPT ![orders[old].tid] = 0], c, r, a, h)
      <3>1. World(x, orders, volumes, new, stored, accounts', C, idpool, nextid, funds, unmatched, H, b, c, r, a, h)
        BY <1>11, <2>7
      <3>2. SameButLocks(accounts', accounts')  BY DEF SameButLocks
      <3>3. NoneAbout(C, orders[old].user)  BY <2>5
      <3> QED  BY ONLY <2>1, <2>8, <3>1, <3>2, <3>3, CancelSent
    <2>10. PICK e : e = [b EXCEPT ![orders[old].tid] = 0]  OBVIOUS
    <2>11. Exact(x, H, e, c, r, a, h)'  BY ONLY <1>3, <2>3, <2>6, <2>7, <2>9, <2>10 DEF Exact, World, Running, n
    <2> QED  BY <2>11 DEF ExactNow
  <1> QED  BY <1>14, <1>15

-----------------------------------------------------------------------------
(***************************************************************************)
(* The rows of the database.                                               *)
(***************************************************************************)
Row(x, r, t) == [tid |-> t, user |-> x[t].user, price |-> x[t].price, volume |-> r[t]]

\* A row is there for each order with lots.
HasRows(st, x, r) ==
    /\ r \in [Tid -> Nat] /\ r[0] = 0 /\ st = [t \in DOMAIN st |-> st[t]]
    /\ \A t \in Tid : t \in DOMAIN st <=> r[t] > 0
    /\ \A t \in DOMAIN st : t \in Tid /\ st[t] = Row(x, r, t)

LEMMA RowsHad ==
    ASSUME NEW st, NEW x, NEW r
    PROVE  RowsAre(st, x, r) <=> HasRows(st, x, r)
  <1>1. ASSUME RowsAre(st, x, r) PROVE HasRows(st, x, r)  BY <1>1 DEF RowsAre, HasRows, Row
  <1>2. ASSUME HasRows(st, x, r) PROVE RowsAre(st, x, r)
    <2>1. DOMAIN st = {s \in Tid : r[s] > 0}  BY <1>2 DEF HasRows
    <2>2. \A t \in DOMAIN st : st[t] = [tid |-> t, user |-> x[t].user, price |-> x[t].price, volume |-> r[t]]
      BY <1>2 DEF HasRows, Row
    <2>3. st = [t \in DOMAIN st |-> st[t]] /\ r \in [Tid -> Nat] /\ r[0] = 0  BY <1>2 DEF HasRows
    <2>4. [t \in DOMAIN st |-> st[t]]
          = [t \in DOMAIN st |-> [tid |-> t, user |-> x[t].user, price |-> x[t].price, volume |-> r[t]]]
      BY ONLY <2>2
    <2> QED  BY ONLY <2>1, <2>3, <2>4 DEF RowsAre
  <1> QED  BY <1>1, <1>2

LEMMA RowSet ==
    ASSUME NEW st, NEW x, NEW r, RowsAre(st, x, r), NEW t \in Tid \ {0}, NEW v \in Nat, v > 0,
           NEW q, q = [r EXCEPT ![t] = v], NEW new, new = Put(st, t, Row(x, q, t))
    PROVE  RowsAre(new, x, q)
  <1>1. HasRows(st, x, r)  BY RowsHad
  <1>2. /\ q \in [Tid -> Nat] /\ q[0] = 0 /\ q[t] = v /\ \A s \in Tid \ {t} : q[s] = r[s]
    BY <1>1, TidsAre DEF HasRows
  <1>3. new = [s \in DOMAIN new |-> new[s]] /\ DOMAIN new = DOMAIN st \cup {t}
        /\ \A s \in DOMAIN new : new[s] = IF s = t THEN Row(x, q, t) ELSE st[s]
    BY DEF Put
  <1>4. \A s \in Tid : s \in DOMAIN new <=> q[s] > 0  BY <1>1, <1>2, <1>3 DEF HasRows
  <1>5. ASSUME NEW s \in DOMAIN new PROVE s \in Tid /\ new[s] = Row(x, q, s)
    <2>1. CASE s = t  BY <1>3, <2>1
    <2>2. CASE s # t
      <3>1. s \in DOMAIN st /\ s \in Tid /\ st[s] = Row(x, r, s) /\ new[s] = st[s] /\ q[s] = r[s]
        BY <1>1, <1>2, <1>3, <2>2 DEF HasRows
      <3> QED  BY ONLY <3>1 DEF Row
    <2> QED  BY <2>1, <2>2
  <1>6. HasRows(new, x, q)  BY ONLY <1>2, <1>3, <1>4, <1>5 DEF HasRows
  <1> QED  BY <1>6, RowsHad

LEMMA RowGone ==
    ASSUME NEW st, NEW x, NEW r, RowsAre(st, x, r), NEW t \in Tid \ {0},
           NEW q, q = [r EXCEPT ![t] = 0], NEW new, new = Drop(st, t)
    PROVE  RowsAre(new, x, q)
  <1>1. HasRows(st, x, r)  BY RowsHad
  <1>2. /\ q \in [Tid -> Nat] /\ q[0] = 0 /\ q[t] = 0 /\ \A s \in Tid \ {t} : q[s] = r[s]
    BY <1>1, TidsAre DEF HasRows
  <1>3. new = [s \in DOMAIN new |-> new[s]] /\ DOMAIN new = DOMAIN st \ {t}
        /\ \A s \in DOMAIN new : new[s] = st[s]
    BY DEF Drop
  <1>4. \A s \in Tid : s \in DOMAIN new <=> q[s] > 0  BY <1>1, <1>2, <1>3 DEF HasRows
  <1>5. ASSUME NEW s \in DOMAIN new PROVE s \in Tid /\ new[s] = Row(x, q, s)
    <2>1. s \in DOMAIN st /\ s # t /\ s \in Tid /\ st[s] = Row(x, r, s) /\ new[s] = st[s]  BY <1>1, <1>3 DEF HasRows
    <2>2. q[s] = r[s]  BY <1>2, <2>1
    <2> QED  BY ONLY <2>1, <2>2 DEF Row
  <1>6. HasRows(new, x, q)  BY ONLY <1>2, <1>3, <1>4, <1>5 DEF HasRows
  <1> QED  BY <1>6, RowsHad

LEMMA RowLess ==
    ASSUME NEW st, NEW x, NEW r, RowsAre(st, x, r), NEW t \in DOMAIN st, NEW v \in Nat, v > 0,
           NEW q, q = [r EXCEPT ![t] = v], NEW new, new = [st EXCEPT ![t].volume = v]
    PROVE  RowsAre(new, x, q)
  <1>1. HasRows(st, x, r)  BY RowsHad
  <1>2. t \in Tid \ {0} /\ st[t] = Row(x, r, t)  BY <1>1 DEF HasRows
  <1>3. /\ q \in [Tid -> Nat] /\ q[0] = 0 /\ q[t] = v /\ \A s \in Tid \ {t} : q[s] = r[s]
    BY <1>1, <1>2, TidsAre DEF HasRows
  <1>4. new = [s \in DOMAIN new |-> new[s]] /\ DOMAIN new = DOMAIN st
        /\ new[t] = [st[t] EXCEPT !.volume = v] /\ \A s \in DOMAIN new : s # t => new[s] = st[s]
    OBVIOUS
  <1>5. new[t] = Row(x, q, t)
    <2>1. [Row(x, r, t) EXCEPT !.volume = v] = Row(x, q, t)  BY ONLY <1>3 DEF Row
    <2> QED  BY <1>2, <1>4, <2>1
  <1>6. \A s \in Tid : s \in DOMAIN new <=> q[s] > 0  BY <1>1, <1>3, <1>4 DEF HasRows
  <1>7. ASSUME NEW s \in DOMAIN new PROVE s \in Tid /\ new[s] = Row(x, q, s)
    <2>1. CASE s = t  BY <1>2, <1>5, <2>1
    <2>2. CASE s # t
      <3>1. s \in DOMAIN st /\ s \in Tid /\ st[s] = Row(x, r, s) /\ new[s] = st[s] /\ q[s] = r[s]
        BY <1>1, <1>3, <1>4, <2>2 DEF HasRows
      <3> QED  BY ONLY <3>1 DEF Row
    <2> QED  BY <2>1, <2>2
  <1>8. HasRows(new, x, q)  BY ONLY <1>3, <1>4, <1>6, <1>7 DEF HasRows
  <1> QED  BY <1>8, RowsHad

-----------------------------------------------------------------------------
\* What is known of a user a request is about.
About(c, C, x, pe, as, fu, b, d, r, a, g) ==
    /\ c.user \in User /\ TidOf(c) \in Tid /\ CallIs(c, x) /\ Others(C, c.user) = C \ {c}
    /\ \A s \in Tid \ {0} : x[s].user = c.user /\ s # TidOf(c) => Even(s, b, d, r, a)
    /\ ~Paid(c) => as[c.user].cash = fu[c.user].cash /\ as[c.user].money = fu[c.user].money
    /\ Paid(c) => c.res.cash = fu[c.user].cash /\ c.res.money = fu[c.user].money
    /\ c.op # "BALANCE" => \A k \in DOMAIN pe : pe[k].status = "BALANCE_WAIT" => x[pe[k].order.tid].user # c.user
    /\ \A s \in Tid \ {0} : x[s].user = c.user /\ (Unserved(c) => TidOf(c) # s) => g[s] = 0

LEMMA AboutUser ==
    ASSUME NEW x, NEW bk, NEW vo, NEW pe, NEW st, NEW as, NEW C, NEW idp, NEW nid, NEW fu, NEW un,
           NEW H, NEW b, NEW d, NEW r, NEW a, NEW g,
           World(x, bk, vo, pe, st, as, C, idp, nid, fu, un, H, b, d, r, a, g), NEW c \in C
    PROVE  About(c, C, x, pe, as, fu, b, d, r, a, g) /\ Settling(c, H, b, d, r, a) /\ Promised(c, fu, x, r)
  <1>1. /\ CallsAre(C, x) /\ Ledger(C, H, b, d, r, a) /\ Sends(pe, C) /\ FundsAre(fu, as, C) /\ HalvesMeet(un, pe, C, g)
        /\ Covered(fu, x, r, C)
    BY DEF World
  <1>2. /\ c.op = "TRANSACTION" => TidOf(c) = 0
        /\ c.op # "TRANSACTION" => TidOf(c) \in Tid \ {0} /\ x[TidOf(c)].user = c.user
        /\ c.user \in User /\ CallIs(c, x)
    <2>1. CallIs(c, x)  BY <1>1 DEF CallsAre
    <2> QED  BY ONLY <1>1, <2>1, c \in C, AboutOwn
  <1>3. TidOf(c) \in Tid  BY <1>2, TidsAre
  <1>4. \A e \in C : e.user = c.user => e = c  BY <1>1 DEF CallsAre
  <1>5. Others(C, c.user) = C \ {c}  BY ONLY <1>1, c \in C, OthersAre
  <1>6. ASSUME NEW s \in Tid \ {0}, x[s].user = c.user, s # TidOf(c) PROVE Even(s, b, d, r, a)
    <2>1. \A e \in C : e.user = x[s].user => TidOf(e) # s  BY <1>4, <1>6
    <2> QED  BY ONLY <1>1, s \in Tid \ {0}, <2>1, LedgerAt DEF Even
  <1>7. ~Paid(c) => as[c.user].cash = fu[c.user].cash /\ as[c.user].money = fu[c.user].money
    BY <1>1, <1>2, <1>4 DEF FundsAre
  <1>8. Paid(c) => c.res.cash = fu[c.user].cash /\ c.res.money = fu[c.user].money  BY <1>1 DEF FundsAre
  <1>9. ASSUME c.op # "BALANCE", NEW k \in DOMAIN pe, pe[k].status = "BALANCE_WAIT"
        PROVE  x[pe[k].order.tid].user # c.user
    <2>1. PICK e \in C : e.op = "BALANCE" /\ e.arg.tid = pe[k].order.tid  BY <1>1, <1>9 DEF Sends
    <2>2. TidOf(e) = e.arg.tid  BY <2>1 DEF TidOf
    <2>3. x[TidOf(e)].user = e.user  BY ONLY <1>1, <2>1, AboutOwn
    <2> QED  BY <1>4, <1>9, <2>1, <2>2, <2>3
  <1>10. ASSUME NEW s \in Tid \ {0}, x[s].user = c.user, Unserved(c) => TidOf(c) # s PROVE g[s] = 0
    <2>1. \A e \in C : Unserved(e) => TidOf(e) # s
      <3> SUFFICES ASSUME NEW e \in C, Unserved(e), TidOf(e) = s PROVE FALSE  OBVIOUS
      <3>1. e.op = "BALANCE"  BY DEF Unserved
      <3>2. x[TidOf(e)].user = e.user  BY ONLY <1>1, <3>1, e \in C, AboutOwn
      <3> QED  BY <1>4, <1>10, <3>2
    <2> QED  BY <1>1, <2>1 DEF HalvesMeet
  <1>11. Settling(c, H, b, d, r, a) /\ Promised(c, fu, x, r)  BY <1>1 DEF Ledger, Covered
  <1> QED  BY ONLY <1>2, <1>3, <1>5, <1>6, <1>7, <1>8, <1>9, <1>10, <1>11 DEF About

-----------------------------------------------------------------------------
(***************************************************************************)
(* A step about a request and its order: the request is replaced by those  *)
(* of N, one or none, and nothing changes about the other orders.          *)
(***************************************************************************)
Held(x, bk, vo, pe, st, as, H, b, d, r, a) ==
    /\ BookIs(bk, x, H, b) /\ VolumesAre(vo, bk) /\ DealsAre(pe, x, d) /\ RowsAre(st, x, r) /\ AccountsAre(as, x, a)

OnlyAt(t, H, b, d, r, a, K, c, e, q, f) ==
    \A s \in Tid \ {0} : s # t => Agree(s, H, b, d, r, a, K, c, e, q, f)

NextCall(N, u, t, x, K, c, e, q, f, fv) ==
    /\ Single(N, u)
    /\ \A n \in N : /\ CallIs(n, x) /\ TidOf(n) = t /\ ~Unserved(n)
                    /\ Settling(n, K, c, e, q, f) /\ Promised(n, fv, x, q)
    /\ N = {} /\ t # 0 => Even(t, c, e, q, f)

HalvesNow(t, g, h, um, pf) ==
    /\ h \in [Tid -> Int] /\ h[0] = 0 /\ h[t] = 0 /\ (\A s \in Tid \ {t} : h[s] = g[s]) /\ um \in Int
    /\ um + SumOver(UnsentHalves, pf) + SumFunctionOnSet(h, Tid) = 0

\* No half about the user of an order is under way.
LEMMA HalvesEnded ==
    ASSUME NEW C, NEW x, CallsAre(C, x), NEW un, NEW pe, NEW g, HalvesMeet(un, pe, C, g),
           NEW u, NEW t, \A s \in Tid \ {0} : x[s].user = u /\ s # t => g[s] = 0, t # 0 => x[t].user = u,
           NEW N, \A n \in N : ~Unserved(n), NEW h, NEW um, NEW pf, HalvesNow(t, g, h, um, pf)
    PROVE  HalvesMeet(um, pf, Others(C, u) \cup N, h)
  <1>1. /\ h \in [Tid -> Int] /\ h[0] = 0 /\ h[t] = 0 /\ (\A s \in Tid \ {t} : h[s] = g[s]) /\ um \in Int
        /\ um + SumOver(UnsentHalves, pf) + SumFunctionOnSet(h, Tid) = 0
    BY DEF HalvesNow
  <1>2. ASSUME NEW c \in Others(C, u) \cup N, Unserved(c) PROVE h[TidOf(c)] = Half(c.arg.ack_money > 0, c.arg.ack_volume)
    <2>1. c \in C /\ c.user # u /\ c.op # "TRANSACTION"  BY <1>2 DEF Others, Unserved
    <2>2. TidOf(c) \in Tid \ {0} /\ x[TidOf(c)].user = c.user  BY ONLY <2>1, CallsAre(C, x), AboutOwn
    <2>3. g[TidOf(c)] = Half(c.arg.ack_money > 0, c.arg.ack_volume)  BY <1>2, <2>1 DEF HalvesMeet
    <2> QED  BY <1>1, <2>1, <2>2, <2>3
  <1>3. ASSUME NEW s \in Tid, \A c \in Others(C, u) \cup N : Unserved(c) => TidOf(c) # s PROVE h[s] = 0
    <2>1. CASE s = 0 \/ s = t  BY <1>1, <2>1
    <2>2. CASE s # 0 /\ s # t /\ x[s].user = u  BY <1>1, <2>2
    <2>3. CASE s # 0 /\ s # t /\ x[s].user # u
      <3>1. ASSUME NEW c \in C, Unserved(c) PROVE TidOf(c) # s
        <4>1. CASE c.user = u
          <5>1. c.op # "TRANSACTION"  BY <3>1 DEF Unserved
          <5>2. x[TidOf(c)].user = c.user  BY ONLY <3>1, <5>1, CallsAre(C, x), AboutOwn
          <5> QED  BY <2>3, <4>1, <5>2
        <4>2. CASE c.user # u  BY <1>3, <3>1, <4>2 DEF Others
        <4> QED  BY <4>1, <4>2
      <3>2. g[s] = 0  BY <3>1 DEF HalvesMeet
      <3> QED  BY <1>1, <2>3, <3>2
    <2> QED  BY <2>1, <2>2, <2>3
  <1> QED  BY ONLY <1>1, <1>2, <1>3 DEF HalvesMeet

\* The request m of C becomes those of N, and the world around it follows.
Handed(m, N, x, bk, vo, pe, st, as, C, idp, nid, fu, un, H, b, d, r, a, g,
       bl, vp, pf, su, bs, idq, fv, um, K, c, e, q, f, h) ==
    /\ World(x, bk, vo, pe, st, as, C, idp, nid, fu, un, H, b, d, r, a, g) /\ m \in C
    /\ Held(x, bl, vp, pf, su, bs, K, c, e, q, f)
    /\ OnlyAt(TidOf(m), H, b, d, r, a, K, c, e, q, f)
    /\ NextCall(N, m.user, TidOf(m), x, K, c, e, q, f, fv) /\ FundsNow(N, m.user, fu, as, fv, bs)
    /\ Covers(fv[m.user].cash, fv[m.user].money, Sells(x, q, m.user), Buys(x, q, m.user))
    /\ HalvesNow(TidOf(m), g, h, um, pf)
    /\ Sends(pf, (C \ {m}) \cup N) /\ IdsAre(idq, nid, K, pf, (C \ {m}) \cup N, q, f)

LEMMA WorldHanded ==
    ASSUME NEW x, NEW bk, NEW vo, NEW pe, NEW st, NEW as, NEW C, NEW idp, NEW nid, NEW fu, NEW un,
           NEW H, NEW b, NEW d, NEW r, NEW a, NEW g,
           NEW m, NEW N,
           NEW bl, NEW vp, NEW pf, NEW su, NEW bs, NEW idq, NEW fv, NEW um, NEW K, NEW c, NEW e, NEW q, NEW f, NEW h,
           Handed(m, N, x, bk, vo, pe, st, as, C, idp, nid, fu, un, H, b, d, r, a, g,
                  bl, vp, pf, su, bs, idq, fv, um, K, c, e, q, f, h)
    PROVE  World(x, bl, vp, pf, su, bs, (C \ {m}) \cup N, idq, nid, fv, um, K, c, e, q, f, h)
  <1> DEFINE u == m.user
             t == TidOf(m)
  <1>0. /\ World(x, bk, vo, pe, st, as, C, idp, nid, fu, un, H, b, d, r, a, g) /\ m \in C
        /\ Held(x, bl, vp, pf, su, bs, K, c, e, q, f) /\ OnlyAt(TidOf(m), H, b, d, r, a, K, c, e, q, f)
        /\ NextCall(N, m.user, TidOf(m), x, K, c, e, q, f, fv) /\ FundsNow(N, m.user, fu, as, fv, bs)
        /\ Covers(fv[m.user].cash, fv[m.user].money, Sells(x, q, m.user), Buys(x, q, m.user))
        /\ HalvesNow(TidOf(m), g, h, um, pf)
        /\ Sends(pf, (C \ {m}) \cup N) /\ IdsAre(idq, nid, K, pf, (C \ {m}) \cup N, q, f)
    BY DEF Handed
  <1> USE <1>0
  <1>1. /\ x \in [Tid -> Whose] /\ CallsAre(C, x) /\ Ledger(C, H, b, d, r, a) /\ FundsAre(fu, as, C)
        /\ HalvesMeet(un, pe, C, g) /\ Covered(fu, x, r, C) /\ RowsAre(st, x, r)
    BY DEF World
  <1>2. About(m, C, x, pe, as, fu, b, d, r, a, g)
    BY ONLY World(x, bk, vo, pe, st, as, C, idp, nid, fu, un, H, b, d, r, a, g), m \in C, AboutUser
  <1>3. (C \ {m}) \cup N = Others(C, u) \cup N /\ u \in User /\ t \in Tid  BY <1>2 DEF About
  <1>4. t # 0 => x[t].user = u
    <2>1. /\ m.op = "TRANSACTION" => TidOf(m) = 0
          /\ m.op # "TRANSACTION" => TidOf(m) \in Tid \ {0} /\ x[TidOf(m)].user = m.user
      BY ONLY <1>1, m \in C, AboutOwn
    <2> QED  BY <2>1
  <1>5. /\ Single(N, u) /\ \A n \in N : CallIs(n, x) /\ TidOf(n) = t /\ ~Unserved(n)  BY DEF NextCall
  <1>6. CallsAre(Others(C, u) \cup N, x)
    <2>1. Single(N, u) /\ \A n \in N : CallIs(n, x)  BY <1>5
    <2> QED  BY ONLY <1>1, <2>1, CallsHanded
  <1>7. Ledger(Others(C, u) \cup N, K, c, e, q, f)
    <2>1. \A s \in Tid \ {0} : x[s].user # u => Agree(s, H, b, d, r, a, K, c, e, q, f)  BY <1>4 DEF OnlyAt
    <2>2. \A n \in N : Settling(n, K, c, e, q, f)  BY DEF NextCall
    <2>3. ASSUME NEW s \in Tid \ {0}, x[s].user = u, \A n \in N : TidOf(n) # s
          PROVE  c[s] + e[s] = q[s] /\ f[s] = q[s]
      <3>1. CASE s = t
        <4>1. N = {}  BY <1>5, <2>3, <3>1
        <4> QED  BY <2>3, <3>1, <4>1 DEF NextCall, Even
      <3>2. CASE s # t
        <4>1. Even(s, b, d, r, a)  BY <1>2, <2>3, <3>2 DEF About
        <4>2. Agree(s, H, b, d, r, a, K, c, e, q, f)  BY <3>2 DEF OnlyAt
        <4> QED  BY ONLY <4>1, <4>2 DEF Even, Agree
      <3> QED  BY <3>1, <3>2
    <2> QED  BY ONLY <1>1, <2>1, <2>2, <2>3, LedgerHanded
  <1>8. FundsAre(fv, bs, Others(C, u) \cup N)
    <2>1. u \in User /\ Single(N, u) /\ CallsAre(C, x) /\ FundsAre(fu, as, C)  BY <1>1, <1>3, <1>5
    <2> QED  BY ONLY <2>1, FundsNow(N, u, fu, as, fv, bs), FundsHanded
  <1>9. q \in [Tid -> Nat] /\ r \in [Tid -> Nat]  BY <1>1 DEF Held, RowsAre
  <1>10. Covered(fv, x, q, Others(C, u) \cup N)
    <2>1. \A s \in Tid : x[s].user # u => q[s] = r[s]
      <3> SUFFICES ASSUME NEW s \in Tid, x[s].user # u PROVE q[s] = r[s]  OBVIOUS
      <3>1. CASE s = 0  BY <1>1, <3>1 DEF Held, RowsAre
      <3>2. CASE s # 0  BY <1>4, <3>2 DEF OnlyAt, Agree
      <3> QED  BY <3>1, <3>2
    <2>2. \A v \in User \ {u} : fv[v] = fu[v]  BY DEF FundsNow
    <2>3. \A n \in N : Promised(n, fv, x, q)  BY DEF NextCall
    <2>4. x \in [Tid -> Whose] /\ q \in [Tid -> Nat] /\ r \in [Tid -> Nat] /\ u \in User  BY <1>1, <1>3, <1>9
    <2>5. Single(N, u)  BY <1>5
    <2>6. CallsAre(C, x) /\ Covered(fu, x, r, C)  BY <1>1
    <2> QED
      BY ONLY <2>1, <2>2, <2>3, <2>4, <2>5, <2>6, Covers(fv[u].cash, fv[u].money, Sells(x, q, u), Buys(x, q, u)), CoveredHanded
  <1>11. HalvesMeet(um, pf, Others(C, u) \cup N, h)
    <2>1. \A s \in Tid \ {0} : x[s].user = u /\ s # t => g[s] = 0  BY <1>2 DEF About
    <2>2. CallsAre(C, x) /\ HalvesMeet(un, pe, C, g) /\ \A n \in N : ~Unserved(n)  BY <1>1, <1>5
    <2> QED  BY ONLY <1>4, <2>1, <2>2, HalvesNow(t, g, h, um, pf), HalvesEnded
  <1> QED  BY ONLY <1>1, <1>3, <1>6, <1>7, <1>8, <1>10, <1>11, Held(x, bl, vp, pf, su, bs, K, c, e, q, f),
            Sends(pf, (C \ {m}) \cup N), IdsAre(idq, nid, K, pf, (C \ {m}) \cup N, q, f) DEF World, Held

-----------------------------------------------------------------------------
(***************************************************************************)
(* gamedbd answers.                                                        *)
(***************************************************************************)
LEMMA AnswerIs ==
    ASSUME NEW m, NEW res, NEW n, n = WithRes(m, res)
    PROVE  /\ n.op = m.op /\ n.user = m.user /\ n.arg = m.arg /\ n.res = res /\ n.waiting = m.waiting
           /\ TidOf(n) = TidOf(m) /\ (Unserved(n) <=> m.op = "BALANCE" /\ res = NoAnswer)
           /\ (Paid(n) <=> m.op # "COMMISSION" /\ res.retcode = "SUCCESS")
  <1>1. n.op = m.op /\ n.user = m.user /\ n.arg = m.arg /\ n.res = res /\ n.waiting = m.waiting  BY DEF WithRes
  <1> QED  BY ONLY <1>1 DEF TidOf, Unserved, Paid

LEMMA SendsAnswered ==
    ASSUME NEW pe, NEW C, Sends(pe, C), NEW m \in C, NEW n, n.op = m.op, n.arg = m.arg
    PROVE  Sends(pe, (C \ {m}) \cup {n})
  <1>1. ASSUME NEW k \in DOMAIN pe, pe[k].status = "BALANCE_WAIT"
        PROVE  \E c \in (C \ {m}) \cup {n} : c.op = "BALANCE" /\ c.arg.tid = pe[k].order.tid
    <2>1. PICK c \in C : c.op = "BALANCE" /\ c.arg.tid = pe[k].order.tid  BY <1>1 DEF Sends
    <2>2. CASE c = m  BY <2>1, <2>2
    <2>3. CASE c # m  BY <2>1, <2>3
    <2> QED  BY <2>2, <2>3
  <1>2. \A c \in (C \ {m}) \cup {n} : c.op = "BALANCE" =>
            \E k \in DOMAIN pe : pe[k].status = "BALANCE_WAIT" /\ pe[k].order.tid = c.arg.tid
    BY DEF Sends
  <1> QED  BY <1>1, <1>2 DEF Sends

LEMMA IdsAnswered ==
    ASSUME NEW idp, NEW nid, NEW H, NEW pe, NEW C, NEW r, NEW a, IdsAre(idp, nid, H, pe, C, r, a),
           NEW m \in C, NEW n, TidOf(n) = TidOf(m), NEW q, \A s \in Tid : q[s] > 0 => r[s] > 0 \/ s = TidOf(m)
    PROVE  IdsAre(idp, nid, H, pe, (C \ {m}) \cup {n}, q, a)
  BY DEF IdsAre

\* The order of a commission.
Brought(m, x, t, u) ==
    LET o == m.arg.order
    IN  /\ o \in Ord /\ o = [tid |-> t, user |-> u, price |-> x[t].price, volume |-> o.volume]
        /\ o.volume \in Nat /\ o.volume > 0 /\ x[t] = [user |-> u, price |-> o.price] /\ o.price \in Prices
        /\ t = TidOf(m) /\ t \in Tid \ {0} /\ u \in User /\ u = m.user

LEMMA CommissionBrings ==
    ASSUME NEW x, NEW m, CallIs(m, x), m.op = "COMMISSION"
    PROVE  Brought(m, x, TidOf(m), m.user)
  <1> DEFINE o == m.arg.order
  <1>1. o \in Ord /\ Of(x, o) /\ o.volume > 0 /\ TidOf(m) = o.tid /\ TidOf(m) \in Tid \ {0} /\ x[TidOf(m)].user = m.user
        /\ m.user \in User
    BY DEF CallIs, TidOf
  <1> HIDE DEF o
  <1>2. o = [tid |-> o.tid, user |-> o.user, price |-> o.price, volume |-> o.volume] /\ o.volume \in Int /\ o.price \in Prices
    BY <1>1 DEF Ord, OrdersOf
  <1>3. x[o.tid] = [user |-> o.user, price |-> o.price]  BY <1>1 DEF Of
  <1>4. o.user = m.user /\ x[o.tid].price = o.price  BY <1>1, <1>3
  <1>5. o.volume \in Nat  BY <1>1, <1>2
  <1> QED  BY ONLY <1>1, <1>2, <1>3, <1>4, <1>5 DEF Brought, o

\* The row of the order, when it is there.
LEMMA KnownOwn ==
    ASSUME NEW x, NEW st, NEW r, RowsAre(st, x, r), NEW m, CallIs(m, x), m.op = "COMMISSION",
           m.arg.order.tid \in DOMAIN st
    PROVE  st[m.arg.order.tid].user = m.arg.order.user
  <1>1. Brought(m, x, TidOf(m), m.user)  BY CommissionBrings
  <1>2. m.arg.order.tid = TidOf(m) /\ m.arg.order.user = m.user /\ x[TidOf(m)].user = m.user  BY ONLY <1>1 DEF Brought
  <1>3. st[TidOf(m)] = Row(x, r, TidOf(m))  BY <1>2, RowsHad DEF HasRows
  <1> QED  BY ONLY <1>2, <1>3 DEF Row

LEMMA CommissionAnswered ==
    ASSUME NEW m, NEW x, CallIs(m, x), m.op = "COMMISSION", NEW n, n.op = "COMMISSION", n.user = m.user, n.arg = m.arg,
           n.res = [retcode |-> "SUCCESS"], n.waiting = m.waiting
    PROVE  CallIs(n, x)
  <1>1. TidOf(n) = TidOf(m)  BY DEF TidOf
  <1>2. /\ m.waiting /\ m.user \in User /\ TidOf(m) \in Tid \ {0} /\ x[TidOf(m)].user = m.user
        /\ m.arg.order \in Ord /\ Of(x, m.arg.order)
        /\ m.arg.order.volume > 0 /\ m.arg.ack_volume \in 0 .. m.arg.order.volume
    BY DEF CallIs
  <1> QED  BY <1>1, <1>2 DEF CallIs

LEMMA CommissionServed ==
    ASSUME NEW x, NEW bk, NEW vo, NEW pe, NEW st, NEW as, NEW C, NEW idp, NEW nid, NEW fu, NEW un,
           NEW H, NEW b, NEW d, NEW r, NEW a, NEW g,
           World(x, bk, vo, pe, st, as, C, idp, nid, fu, un, H, b, d, r, a, g),
           NEW m \in C, m.op = "COMMISSION", m.res = NoAnswer, NEW n, n = WithRes(m, [retcode |-> "SUCCESS"]),
           NEW o, o = m.arg.order, NEW su, su = IF o.tid \in DOMAIN st THEN st ELSE Put(st, o.tid, o)
    PROVE  \E q : World(x, bk, vo, pe, su, as, (C \ {m}) \cup {n}, idp, nid, fu, un, H, b, d, q, a, g)
  <1> DEFINE t == TidOf(m)
             u == m.user
             q == [r EXCEPT ![t] = o.volume]
  <1>1. /\ x \in [Tid -> Whose] /\ b \in [Tid -> Nat] /\ d \in [Tid -> Int] /\ r \in [Tid -> Nat] /\ a \in [Tid -> Nat]
        /\ g \in [Tid -> Int] /\ g[0] = 0 /\ un \in Int /\ r[0] = 0 /\ fu \in [User -> [cash : Int, money : Int]]
    <2>1. Typed(x, bk, pe, as, fu, un, H, b, d, r, a, g)
      BY ONLY World(x, bk, vo, pe, st, as, C, idp, nid, fu, un, H, b, d, r, a, g), WorldTypes
    <2> QED  BY ONLY <2>1 DEF Typed
  <1>2. /\ BookIs(bk, x, H, b) /\ VolumesAre(vo, bk) /\ DealsAre(pe, x, d) /\ RowsAre(st, x, r)
        /\ AccountsAre(as, x, a) /\ CallsAre(C, x)
        /\ Sends(pe, C) /\ IdsAre(idp, nid, H, pe, C, r, a) /\ Covered(fu, x, r, C)
        /\ HalvesMeet(un, pe, C, g)
    BY DEF World
  <1>3. About(m, C, x, pe, as, fu, b, d, r, a, g) /\ Settling(m, H, b, d, r, a) /\ Promised(m, fu, x, r)
    BY ONLY World(x, bk, vo, pe, st, as, C, idp, nid, fu, un, H, b, d, r, a, g), m \in C, AboutUser
  <1>4. CallIs(m, x)  BY <1>3 DEF About
  <1>5. /\ o = [tid |-> t, user |-> u, price |-> x[t].price, volume |-> o.volume]
        /\ o.volume \in Nat /\ o.volume > 0 /\ x[t] = [user |-> u, price |-> o.price] /\ o.price \in Prices
        /\ t \in Tid \ {0} /\ u \in User
    <2>1. Brought(m, x, t, u)  BY <1>4, CommissionBrings
    <2> QED  BY <2>1 DEF Brought
  <1>6. /\ n.op = "COMMISSION" /\ n.user = u /\ n.arg = m.arg /\ n.res = [retcode |-> "SUCCESS"] /\ n.waiting = m.waiting
        /\ TidOf(n) = t /\ ~Unserved(n) /\ ~Paid(n)
    BY AnswerIs
  <1> HIDE DEF t, u
  <1>7. t \notin H /\ d[t] = m.arg.ack_volume /\ a[t] = 0 /\ (r[t] = o.volume \/ r[t] = 0)  BY <1>3 DEF Settling, t
  <1>8. q \in [Tid -> Nat] /\ q[t] = o.volume /\ \A s \in Tid \ {t} : q[s] = r[s]  BY <1>1, <1>5
  <1>9. q = [r EXCEPT ![t] = o.volume]  OBVIOUS
  <1> HIDE DEF q
  <1>10. o.tid = t /\ o.user = u  BY <1>5
  <1>11. RowsAre(su, x, q)
    <2>1. t \in DOMAIN st <=> r[t] > 0  BY <1>2, <1>5, RowsHad DEF HasRows
    <2>2. CASE r[t] = 0
      <3>1. o = Row(x, q, t)  BY ONLY <1>5, <1>8 DEF Row
      <3>2. su = Put(st, t, Row(x, q, t))  BY <1>10, <2>1, <2>2, <3>1
      <3> QED  BY ONLY <1>2, <1>5, <1>9, <3>2, RowSet
    <2>3. CASE r[t] = o.volume
      <3>1. su = st  BY <1>5, <1>10, <2>1, <2>3
      <3>2. q = r  BY <1>1, <1>9, <2>3
      <3> QED  BY <1>2, <3>1, <3>2
    <2> QED  BY <1>7, <2>2, <2>3
  <1>12. Held(x, bk, vo, pe, su, as, H, b, d, q, a)  BY ONLY <1>2, <1>11 DEF Held
  <1>13. OnlyAt(t, H, b, d, r, a, H, b, d, q, a)  BY ONLY <1>8 DEF OnlyAt, Agree
  <1>14. PICK N : N = {n}  OBVIOUS
  <1>15. NextCall(N, u, t, x, H, b, d, q, a, fu)
    <2>1. Single({n}, n.user)  BY SingleIs
    <2>2. CallIs(n, x)
      <3>1. n.op = "COMMISSION" /\ n.user = m.user /\ n.arg = m.arg /\ n.res = [retcode |-> "SUCCESS"] /\ n.waiting = m.waiting
        BY <1>6 DEF u
      <3> QED  BY ONLY <1>4, <3>1, m.op = "COMMISSION", CommissionAnswered
    <2>3. Settling(n, H, b, d, q, a)
      <3>1. n.arg.order.volume = q[t] /\ n.res.retcode = "SUCCESS" /\ n.arg.ack_volume = d[t]  BY <1>6, <1>7, <1>8
      <3> QED  BY ONLY <1>6, <1>7, <3>1 DEF Settling
    <2>4. Promised(n, fu, x, q)  BY ONLY <1>5, <1>6, <1>8 DEF Promised
    <2> QED  BY ONLY <1>6, <1>14, <2>1, <2>2, <2>3, <2>4 DEF NextCall
  <1>16. FundsNow(N, u, fu, as, fu, as)
    <2>1. ~Paid(m)  BY DEF Paid
    <2>2. as[u].cash = fu[u].cash /\ as[u].money = fu[u].money  BY <1>3, <2>1 DEF About, u
    <2> QED  BY ONLY <1>1, <1>6, <1>14, <2>2 DEF FundsNow
  <1>17. Covers(fu[u].cash, fu[u].money, Sells(x, q, u), Buys(x, q, u))
    <2>1. CASE r[t] = o.volume
      <3>1. q = r  BY <1>1, <1>9, <2>1
      <3> QED  BY <1>2, <1>5, <3>1 DEF Covered
    <2>2. CASE r[t] = 0
      <3>1. x[t].user = u /\ x[t].price = o.price /\ o.price \in Int /\ o.price # 0
        <4>1. o.price \in Prices /\ x[t] = [user |-> u, price |-> o.price]  BY ONLY <1>5
        <4>2. x[t].user = u /\ x[t].price = o.price  BY ONLY <4>1
        <4>3. o.price \in Int /\ o.price # 0  BY ONLY <4>1, PricesAre
        <4> QED  BY ONLY <4>2, <4>3
      <3>2. /\ Sells(x, q, u) = Sells(x, r, u) + IF o.price > 0 THEN q[t] - r[t] ELSE 0
            /\ Buys(x, q, u) = Buys(x, r, u) + IF o.price < 0 THEN o.price * q[t] - o.price * r[t] ELSE 0
        <4>1. t \in Tid /\ x \in [Tid -> Whose] /\ r \in [Tid -> Nat] /\ q \in [Tid -> Nat]  BY <1>1, <1>5, <1>8
        <4>2. \A s \in Tid \ {t} : q[s] = r[s]  BY <1>8
        <4>3. OfferMoved(x, r, q, t, x[t].user, x[t].price)  BY ONLY <4>1, <4>2, SellsChange
        <4> QED  BY ONLY <3>1, <4>3 DEF OfferMoved
      <3>3. Sells(x, r, u) \in Nat /\ Buys(x, r, u) \in Int  BY ONLY <1>1, OfferTypes
      <3>4. o.price * r[t] = 0  BY <2>2, <3>1
      <3>5. o.price * q[t] = o.price * o.volume /\ o.price * o.volume \in Int  BY <1>5, <1>8, <3>1
      <3>6. /\ o.price > 0 => Covers(fu[u].cash, fu[u].money, Sells(x, r, u) + o.volume, Buys(x, r, u))
            /\ o.price < 0 => Covers(fu[u].cash, fu[u].money, Sells(x, r, u), Buys(x, r, u) + o.price * o.volume)
        BY <1>3, <2>2 DEF Promised, t, u
      <3>7. CASE o.price > 0
        <4>1. Sells(x, q, u) = Sells(x, r, u) + o.volume /\ Buys(x, q, u) = Buys(x, r, u)
          BY ONLY <1>5, <1>8, <2>2, <3>1, <3>2, <3>3, <3>7
        <4> QED  BY <3>6, <3>7, <4>1
      <3>8. CASE o.price < 0
        <4>1. Sells(x, q, u) = Sells(x, r, u) /\ Buys(x, q, u) = Buys(x, r, u) + o.price * o.volume
          BY ONLY <3>1, <3>2, <3>3, <3>4, <3>5, <3>8
        <4> QED  BY <3>6, <3>8, <4>1
      <3> QED  BY <3>1, <3>7, <3>8
    <2> QED  BY <1>7, <2>1, <2>2
  <1>18. HalvesNow(t, g, g, un, pe)
    <2>1. g[t] = 0
      <3>1. ~Unserved(m) /\ x[t].user = u  BY <1>5 DEF Unserved
      <3> QED  BY <1>3, <1>5, <3>1 DEF About, u
    <2>2. un + SumOver(UnsentHalves, pe) + SumFunctionOnSet(g, Tid) = 0  BY <1>2 DEF HalvesMeet
    <2> QED  BY ONLY <1>1, <2>1, <2>2 DEF HalvesNow
  <1>19. Sends(pe, (C \ {m}) \cup N)  BY ONLY <1>2, <1>6, <1>14, m \in C, m.op = "COMMISSION", SendsAnswered
  <1>20. IdsAre(idp, nid, H, pe, (C \ {m}) \cup N, q, a)
    <2>1. \A s \in Tid : q[s] > 0 => r[s] > 0 \/ s = TidOf(m)  BY <1>8 DEF t
    <2>2. TidOf(n) = TidOf(m)  BY <1>6 DEF t
    <2> QED  BY ONLY <1>2, <1>14, <2>1, <2>2, m \in C, IdsAnswered
  <1>21. World(x, bk, vo, pe, su, as, (C \ {m}) \cup N, idp, nid, fu, un, H, b, d, q, a, g)
    <2>1. u = m.user /\ t = TidOf(m)  BY DEF u, t
    <2>3. Handed(m, N, x, bk, vo, pe, st, as, C, idp, nid, fu, un, H, b, d, r, a, g,
                 bk, vo, pe, su, as, idp, fu, un, H, b, d, q, a, g)
      BY ONLY World(x, bk, vo, pe, st, as, C, idp, nid, fu, un, H, b, d, r, a, g), m \in C, <2>1, <1>12, <1>13, <1>15, <1>16, <1>17, <1>18, <1>19, <1>20
              DEF Handed
    <2> QED  BY ONLY <2>3, WorldHanded
  <1> QED  BY <1>14, <1>21

\* What is known when a half of a deal is to be settled.
HalfKnown(m, t, u, v, p, x, st, b, d, r, a, g) ==
    /\ t \in DOMAIN st /\ t \in Tid \ {0} /\ u \in User /\ u = m.user /\ TidOf(m) = t
    /\ st[t] = [tid |-> t, user |-> u, price |-> p, volume |-> r[t]]
    /\ x[t] = [user |-> u, price |-> p] /\ p \in Int /\ p # 0
    /\ v = m.arg.ack_volume /\ v \in Nat /\ v > 0 /\ m.arg.ack_money \in Int
    /\ FairPay(p, v, m.arg.ack_money) /\ ((p > 0) <=> (m.arg.ack_money > 0))
    /\ r[t] \in Nat /\ a[t] = r[t] /\ r[t] - v = b[t] + d[t] /\ r[t] - v \in Nat
    /\ g[t] = IF p > 0 THEN v ELSE -v

LEMMA BalanceFound ==
    ASSUME NEW x, NEW bk, NEW vo, NEW pe, NEW st, NEW as, NEW C, NEW idp, NEW nid, NEW fu, NEW un,
           NEW H, NEW b, NEW d, NEW r, NEW a, NEW g,
           World(x, bk, vo, pe, st, as, C, idp, nid, fu, un, H, b, d, r, a, g),
           NEW m \in C, m.op = "BALANCE", m.res = NoAnswer
    PROVE  HalfKnown(m, m.arg.tid, m.user, m.arg.ack_volume, x[m.arg.tid].price, x, st, b, d, r, a, g)
  <1> DEFINE t == m.arg.tid
             u == m.user
             v == m.arg.ack_volume
             p == x[t].price
  <1>1. /\ x \in [Tid -> Whose] /\ b \in [Tid -> Nat] /\ d \in [Tid -> Int] /\ r \in [Tid -> Nat] /\ a \in [Tid -> Nat]
    <2>1. Typed(x, bk, pe, as, fu, un, H, b, d, r, a, g)
      BY ONLY World(x, bk, vo, pe, st, as, C, idp, nid, fu, un, H, b, d, r, a, g), WorldTypes
    <2> QED  BY ONLY <2>1 DEF Typed
  <1>2. DealsAre(pe, x, d) /\ RowsAre(st, x, r) /\ HalvesMeet(un, pe, C, g)  BY DEF World
  <1>3. About(m, C, x, pe, as, fu, b, d, r, a, g) /\ Settling(m, H, b, d, r, a)
    BY ONLY World(x, bk, vo, pe, st, as, C, idp, nid, fu, un, H, b, d, r, a, g), m \in C, AboutUser
  <1>4. CallIs(m, x)  BY <1>3 DEF About
  <1>5. TidOf(m) = t /\ t \in Tid \ {0} /\ x[t].user = u /\ FairPay(p, v, m.arg.ack_money) /\ v \in Int /\ u \in User
    BY <1>4 DEF CallIs, TidOf
  <1>6. Unserved(m)  BY DEF Unserved
  <1>7. a[t] = b[t] + d[t] + v /\ r[t] = a[t]  BY <1>3, <1>5 DEF Settling
  <1>8. g[t] = Half(m.arg.ack_money > 0, v)  BY <1>2, <1>5, <1>6 DEF HalvesMeet
  <1>9. p \in Int /\ p # 0 /\ x[t] = [user |-> u, price |-> p]
    <2>1. x[t] \in Whose  BY <1>1, <1>5
    <2>2. x[t] = [user |-> x[t].user, price |-> x[t].price] /\ x[t].price \in Prices  BY <2>1 DEF Whose
    <2> QED  BY <1>5, <2>2, PricesAre
  <1>10. d[t] \in Nat  BY ONLY <1>2, <1>5, LotsCounted
  <1>11. b[t] \in Nat /\ r[t] \in Nat  BY <1>1, <1>5
  <1> HIDE DEF t, u, v, p
  <1>12. v > 0 /\ Multiple(m.arg.ack_money) /\ m.arg.ack_money >= p * v /\ (p < 0 => m.arg.ack_money < 0)
    BY <1>5 DEF FairPay
  <1>13. m.arg.ack_money \in Int  BY <1>12 DEF Multiple
  <1>14. v \in Nat /\ r[t] - v = b[t] + d[t] /\ r[t] - v \in Nat /\ r[t] > 0  BY ONLY <1>5, <1>7, <1>10, <1>11, <1>12
  <1>15. (p > 0) <=> (m.arg.ack_money > 0)
    <2>1. CASE p > 0
      <3>1. p * v > 0  BY ONLY <1>9, <1>14, <1>12, <2>1
      <3>2. p * v \in Int  BY <1>9, <1>14
      <3> QED  BY ONLY <1>12, <1>13, <2>1, <3>1, <3>2
    <2>2. CASE p < 0  BY ONLY <1>9, <1>12, <1>13, <2>2
    <2> QED  BY <1>9, <2>1, <2>2
  <1>16. t \in DOMAIN st /\ st[t] = Row(x, r, t)  BY <1>2, <1>5, <1>14, RowsHad DEF HasRows
  <1>17. st[t] = [tid |-> t, user |-> u, price |-> p, volume |-> r[t]]  BY <1>5, <1>9, <1>16 DEF Row
  <1>18. g[t] = IF p > 0 THEN v ELSE -v  BY <1>8, <1>15 DEF Half
  <1>19. u = m.user /\ v = m.arg.ack_volume  BY DEF u, v
  <1>20. HalfKnown(m, t, u, v, p, x, st, b, d, r, a, g)
    BY ONLY <1>5, <1>7, <1>9, <1>11, <1>12, <1>13, <1>14, <1>15, <1>16, <1>17, <1>18, <1>19 DEF HalfKnown
  <1> QED  BY <1>20 DEF t, u, v, p

\* The funds after a half is settled.
Settles(f, p, v, money) ==
    IF p > 0 THEN [cash |-> f.cash - SellCost(v), money |-> f.money + money]
             ELSE [cash |-> f.cash + 100 * v, money |-> f.money + MoneyTaxed(money)]

LEMMA SettledCovers ==
    ASSUME NEW cash \in Int, NEW money \in Int, NEW lots \in Nat, NEW cost \in Int, Covers(cash, money, lots, cost),
           NEW p \in Int, p # 0, NEW v \in Nat, v > 0, NEW amount \in Int, FairPay(p, v, amount),
           NEW l \in Int, NEW k \in Int, p > 0 => l = lots - v /\ k = cost, p < 0 => l = lots /\ k = cost - p * v,
           NEW own, own = Settles([cash |-> cash, money |-> money], p, v, amount)
    PROVE  Covers(own.cash, own.money, l, k) /\ own \in [cash : Int, money : Int]
  <1>1. p * v \in Int /\ amount >= p * v /\ Multiple(amount) /\ cash >= 102 * lots /\ 100 * money + 102 * cost >= 0
    BY DEF FairPay, Covers
  <1>2. /\ MoneyTaxed(amount) \in Int /\ 100 * MoneyTaxed(amount) = 102 * amount  BY <1>1, Taxed
  <1>3. CASE p > 0
    <2>1. p * v > 0  BY ONLY <1>3, v \in Nat, v > 0, p \in Int
    <2>2. own = [cash |-> cash - 102 * v, money |-> money + amount]  BY <1>3 DEF Settles, SellCost
    <2>3. own.cash = cash - 102 * v /\ own.money = money + amount  BY ONLY <2>2
    <2>4. own.cash >= 102 * l /\ 100 * own.money + 102 * k >= 0  BY <1>1, <1>3, <2>1, <2>3
    <2> QED  BY <2>2, <2>4 DEF Covers
  <1>4. CASE p < 0
    <2>1. PICK w \in Int : w = MoneyTaxed(amount)  BY <1>2
    <2>2. PICK z \in Int : z = p * v  BY <1>1
    <2>3. own = [cash |-> cash + 100 * v, money |-> money + w]  BY <1>4, <2>1 DEF Settles
    <2>4. own.cash = cash + 100 * v /\ own.money = money + w  BY ONLY <2>3
    <2>5. own.cash >= 102 * l  BY <1>1, <1>4, <2>4
    <2>6. 100 * own.money + 102 * k >= 0
      BY ONLY <1>1, <1>2, <1>4, <2>1, <2>2, <2>4, p < 0 => l = lots /\ k = cost - p * v, amount \in Int, money \in Int, cost \in Int
    <2> QED  BY <2>3, <2>5, <2>6 DEF Covers
  <1> QED  BY <1>3, <1>4

\* The answer, rows, funds and balance after it.
BalanceMakes(n, su, fv, um, own, left, m, t, u, v, p, st, fu, un, r) ==
    /\ own = Settles(fu[u], p, v, m.arg.ack_money) /\ left = r[t] - v
    /\ n = WithRes(m, [retcode |-> "SUCCESS", cash |-> own.cash, money |-> own.money, volume_left |-> left])
    /\ su = IF left = 0 THEN Drop(st, t) ELSE [st EXCEPT ![t].volume = left]
    /\ fv = [fu EXCEPT ![u] = own] /\ um = un + (IF p > 0 THEN v ELSE -v)

Leads(x, bk, vo, pe, st, as, C, idp, nid, fu, un, H, b, d, a) ==
    \E q, h : World(x, bk, vo, pe, st, as, C, idp, nid, fu, un, H, b, d, q, a, h)

LEMMA BalanceServed ==
    ASSUME NEW x, NEW bk, NEW vo, NEW pe, NEW st, NEW as, NEW C, NEW idp, NEW nid, NEW fu, NEW un,
           NEW H, NEW b, NEW d, NEW r, NEW a, NEW g,
           World(x, bk, vo, pe, st, as, C, idp, nid, fu, un, H, b, d, r, a, g),
           NEW m \in C, m.op = "BALANCE", m.res = NoAnswer,
           NEW t, NEW u, NEW v, NEW p, HalfKnown(m, t, u, v, p, x, st, b, d, r, a, g),
           NEW own, NEW left, NEW n, NEW su, NEW fv, NEW um,
           BalanceMakes(n, su, fv, um, own, left, m, t, u, v, p, st, fu, un, r)
    PROVE  Leads(x, bk, vo, pe, su, as, (C \ {m}) \cup {n}, idp, nid, fv, um, H, b, d, a)
  <1> SUFFICES ASSUME own = Settles(fu[u], p, v, m.arg.ack_money), left = r[t] - v,
                      n = WithRes(m, [retcode |-> "SUCCESS", cash |-> own.cash, money |-> own.money, volume_left |-> left]),
                      su = IF left = 0 THEN Drop(st, t) ELSE [st EXCEPT ![t].volume = left],
                      fv = [fu EXCEPT ![u] = own], um = un + (IF p > 0 THEN v ELSE -v)
               PROVE  Leads(x, bk, vo, pe, su, as, (C \ {m}) \cup {n}, idp, nid, fv, um, H, b, d, a)
    BY DEF BalanceMakes
  <1> DEFINE q == [r EXCEPT ![t] = left]
             h == [g EXCEPT ![t] = 0]
  <1>1. /\ x \in [Tid -> Whose] /\ b \in [Tid -> Nat] /\ d \in [Tid -> Int] /\ r \in [Tid -> Nat] /\ a \in [Tid -> Nat]
        /\ g \in [Tid -> Int] /\ g[0] = 0 /\ un \in Int /\ r[0] = 0 /\ fu \in [User -> [cash : Int, money : Int]]
    <2>1. Typed(x, bk, pe, as, fu, un, H, b, d, r, a, g)
      BY ONLY World(x, bk, vo, pe, st, as, C, idp, nid, fu, un, H, b, d, r, a, g), WorldTypes
    <2> QED  BY ONLY <2>1 DEF Typed
  <1>2. /\ BookIs(bk, x, H, b) /\ VolumesAre(vo, bk) /\ DealsAre(pe, x, d) /\ RowsAre(st, x, r)
        /\ AccountsAre(as, x, a) /\ CallsAre(C, x)
        /\ Sends(pe, C) /\ IdsAre(idp, nid, H, pe, C, r, a) /\ Covered(fu, x, r, C)
        /\ HalvesMeet(un, pe, C, g)
    BY DEF World
  <1>3. About(m, C, x, pe, as, fu, b, d, r, a, g) /\ Settling(m, H, b, d, r, a)
    BY ONLY World(x, bk, vo, pe, st, as, C, idp, nid, fu, un, H, b, d, r, a, g), m \in C, AboutUser
  <1>4. /\ t \in DOMAIN st /\ t \in Tid \ {0} /\ u \in User /\ u = m.user /\ TidOf(m) = t
        /\ st[t] = [tid |-> t, user |-> u, price |-> p, volume |-> r[t]]
        /\ x[t] = [user |-> u, price |-> p] /\ p \in Int /\ p # 0
        /\ v = m.arg.ack_volume /\ v \in Nat /\ v > 0 /\ m.arg.ack_money \in Int
        /\ FairPay(p, v, m.arg.ack_money) /\ ((p > 0) <=> (m.arg.ack_money > 0))
        /\ r[t] \in Nat /\ a[t] = r[t] /\ r[t] - v = b[t] + d[t] /\ r[t] - v \in Nat
        /\ g[t] = IF p > 0 THEN v ELSE -v
    BY DEF HalfKnown
  <1>5. x[t].user = u /\ x[t].price = p  BY ONLY <1>4
  <1>6. left \in Nat /\ left = b[t] + d[t]  BY <1>4
  <1>7. q \in [Tid -> Nat] /\ q[t] = left /\ \A s \in Tid \ {t} : q[s] = r[s]
    <2>1. r \in [Tid -> Nat] /\ t \in Tid /\ left \in Nat  BY <1>1, <1>4, <1>6
    <2> QED  BY ONLY <2>1
  <1>8. q = [r EXCEPT ![t] = left]  OBVIOUS
  <1> HIDE DEF q
  <1>9. HalfNow(h, g, t, 0)
    <2>1. h = [g EXCEPT ![t] = 0] /\ g \in [Tid -> Int] /\ t \in Tid \ {0} /\ 0 \in Int  BY <1>1, <1>4
    <2> HIDE DEF h
    <2> QED  BY ONLY <2>1, HalfChanged
  <1>10. h \in [Tid -> Int] /\ h[0] = 0 /\ h[t] = 0 /\ (\A s \in Tid \ {t} : h[s] = g[s])
         /\ SumFunctionOnSet(h, Tid) = SumFunctionOnSet(g, Tid) - g[t] /\ SumFunctionOnSet(g, Tid) \in Int
    <2> HIDE DEF h
    <2>1. g[t] \in Int  BY <1>1, <1>4
    <2> QED  BY ONLY <1>1, <1>9, <2>1 DEF HalfNow
  <1> HIDE DEF h
  <1>11. fu[u] \in [cash : Int, money : Int] /\ fu[u] = [cash |-> fu[u].cash, money |-> fu[u].money]
         /\ fu[u].cash \in Int /\ fu[u].money \in Int
    BY <1>1, <1>4
  <1>12. Covers(fu[u].cash, fu[u].money, Sells(x, r, u), Buys(x, r, u))  BY <1>2, <1>4 DEF Covered
  <1>13. Sells(x, r, u) \in Nat /\ Buys(x, r, u) \in Int  BY ONLY <1>1, OfferTypes
  <1>14. OfferMoved(x, r, q, t, u, p)
    <2>1. t \in Tid  BY <1>4
    <2>2. r \in [Tid -> Nat] /\ x \in [Tid -> Whose]  BY <1>1
    <2>3. q \in [Tid -> Nat]  BY <1>7
    <2>4. \A s \in Tid \ {t} : q[s] = r[s]  BY <1>7
    <2>5. OfferMoved(x, r, q, t, x[t].user, x[t].price)  BY ONLY <2>1, <2>2, <2>3, <2>4, SellsChange
    <2> QED  BY ONLY <1>5, <2>5
  <1>15. /\ p > 0 => Sells(x, q, u) = Sells(x, r, u) - v /\ Buys(x, q, u) = Buys(x, r, u)
         /\ p < 0 => Sells(x, q, u) = Sells(x, r, u) /\ Buys(x, q, u) = Buys(x, r, u) - p * v
         /\ Sells(x, q, u) \in Int /\ Buys(x, q, u) \in Int
    <2>1. p * left = p * r[t] - p * v /\ p * r[t] \in Int /\ p * v \in Int  BY ONLY <1>4, left = r[t] - v
    <2>2. q[t] = r[t] - v  BY <1>7
    <2>3. p * q[t] = p * left  BY <1>7
    <2>4. r[t] \in Int /\ v \in Int /\ p \in Int /\ p # 0  BY <1>4
    <2>5. /\ Sells(x, q, u) = Sells(x, r, u) + IF p > 0 THEN q[t] - r[t] ELSE 0
          /\ Buys(x, q, u) = Buys(x, r, u) + IF p < 0 THEN p * q[t] - p * r[t] ELSE 0
      BY ONLY <1>14 DEF OfferMoved
    <2>6. CASE p > 0  BY ONLY <1>13, <2>2, <2>4, <2>5, <2>6
    <2>7. CASE p < 0
      <3>1. Sells(x, q, u) = Sells(x, r, u)  BY ONLY <1>13, <2>4, <2>5, <2>7
      <3>2. Buys(x, q, u) = Buys(x, r, u) + (p * left - p * r[t])  BY ONLY <2>3, <2>5, <2>7
      <3>3. PICK y \in Int : y = p * r[t]  BY <2>1
      <3>4. PICK z \in Int : z = p * v  BY <2>1
      <3>5. Buys(x, q, u) = Buys(x, r, u) - z  BY ONLY <1>13, <2>1, <3>2, <3>3, <3>4
      <3> QED  BY ONLY <1>13, <2>4, <2>7, <3>1, <3>4, <3>5
    <2> QED  BY ONLY <2>4, <2>6, <2>7
  <1>16. Covers(own.cash, own.money, Sells(x, q, u), Buys(x, q, u)) /\ own \in [cash : Int, money : Int]
    <2>1. own = Settles([cash |-> fu[u].cash, money |-> fu[u].money], p, v, m.arg.ack_money)  BY <1>11
    <2>2. p \in Int /\ p # 0 /\ v \in Nat /\ v > 0 /\ m.arg.ack_money \in Int /\ FairPay(p, v, m.arg.ack_money)
      BY <1>4
    <2> QED  BY ONLY <1>11, <1>12, <1>13, <1>15, <2>1, <2>2, SettledCovers
  <1>17. fv \in [User -> [cash : Int, money : Int]] /\ fv[u] = own /\ \A w \in User \ {u} : fv[w] = fu[w]
    BY <1>1, <1>4, <1>16
  <1>18. RowsAre(su, x, q)
    <2>1. CASE left = 0
      <3>1. su = Drop(st, t) /\ q = [r EXCEPT ![t] = 0]  BY <1>8, <2>1
      <3>2. t \in Tid \ {0}  BY <1>4
      <3> QED  BY ONLY <1>2, <3>1, <3>2, RowGone
    <2>2. CASE left # 0
      <3>1. su = [st EXCEPT ![t].volume = left] /\ left > 0  BY <1>6, <2>2
      <3>2. t \in DOMAIN st  BY <1>4
      <3> QED  BY ONLY <1>2, <1>6, <1>8, <3>1, <3>2, RowLess
    <2> QED  BY <2>1, <2>2
  <1>19. Held(x, bk, vo, pe, su, as, H, b, d, q, a)  BY ONLY <1>2, <1>18 DEF Held
  <1>20. OnlyAt(t, H, b, d, r, a, H, b, d, q, a)  BY ONLY <1>7 DEF OnlyAt, Agree
  <1> DEFINE res == [retcode |-> "SUCCESS", cash |-> own.cash, money |-> own.money, volume_left |-> left]
  <1>21. res.retcode = "SUCCESS" /\ res.cash = own.cash /\ res.money = own.money /\ res # NoAnswer  BY DEF NoAnswer
  <1>22. n = WithRes(m, res)  OBVIOUS
  <1> HIDE DEF res
  <1>23. /\ n.op = "BALANCE" /\ n.user = u /\ n.arg = m.arg /\ n.res = res /\ n.waiting = m.waiting
         /\ TidOf(n) = t /\ ~Unserved(n) /\ Paid(n)
    <2>1. /\ n.op = m.op /\ n.user = m.user /\ n.arg = m.arg /\ n.res = res /\ n.waiting = m.waiting
          /\ TidOf(n) = TidOf(m) /\ (Unserved(n) <=> m.op = "BALANCE" /\ res = NoAnswer)
          /\ (Paid(n) <=> m.op # "COMMISSION" /\ res.retcode = "SUCCESS")
      BY ONLY <1>22, AnswerIs
    <2> QED  BY <1>4, <1>21, <2>1
  <1>24. PICK N : N = {n}  OBVIOUS
  <1>25. NextCall(N, u, t, x, H, b, d, q, a, fv)
    <2>1. Single({n}, n.user)  BY SingleIs
    <2>2. CallIs(n, x)
      <3>1. n.waiting /\ n.arg.tid = t  BY <1>3, <1>4, <1>23 DEF About, CallIs, TidOf
      <3>2. FairPay(x[n.arg.tid].price, n.arg.ack_volume, n.arg.ack_money) /\ n.arg.ack_volume \in Int
        <4>1. FairPay(p, v, m.arg.ack_money) /\ v \in Int /\ n.arg.ack_volume = v /\ n.arg.ack_money = m.arg.ack_money
          BY ONLY <1>4, <1>23
        <4> QED  BY ONLY <1>5, <3>1, <4>1
      <3>3. n.op = "BALANCE" /\ n.user \in User /\ TidOf(n) \in Tid \ {0} /\ x[TidOf(n)].user = n.user
        BY ONLY <1>4, <1>5, <1>23
      <3>4. n.res.retcode = "SUCCESS"  BY <1>21, <1>23
      <3> QED  BY ONLY <3>1, <3>2, <3>3, <3>4 DEF CallIs
    <2>3. Settling(n, H, b, d, q, a)
      <3>1. d[t] \in Int /\ b[t] \in Int  BY <1>1, <1>4
      <3>2. a[t] = b[t] + d[t] + n.arg.ack_volume  BY ONLY <1>4, <1>23, <3>1
      <3>3. q[t] = b[t] + d[t]  BY <1>6, <1>7
      <3> QED  BY ONLY <1>21, <1>23, <3>2, <3>3 DEF Settling
    <2>4. Promised(n, fv, x, q)  BY ONLY <1>23 DEF Promised
    <2> QED  BY ONLY <1>23, <1>24, <2>1, <2>2, <2>3, <2>4 DEF NextCall
  <1>26. FundsNow(N, u, fu, as, fv, as)  BY ONLY <1>17, <1>21, <1>23, <1>24 DEF FundsNow
  <1>27. HalvesNow(t, g, h, um, pe)
    <2>1. un + SumOver(UnsentHalves, pe) + SumFunctionOnSet(g, Tid) = 0  BY <1>2 DEF HalvesMeet
    <2>2. SumOver(UnsentHalves, pe) \in Int
      <3>1. UnsentHalves \in [Dls -> Int] /\ pe \in Seq(Dls)  BY <1>2, DealSums DEF DealsAre
      <3> QED  BY ONLY <3>1, SumOverType
    <2>3. g[t] \in Int /\ um = un + g[t]  BY <1>1, <1>4
    <2>4. um \in Int /\ um + SumOver(UnsentHalves, pe) + SumFunctionOnSet(h, Tid) = 0
      BY ONLY <1>1, <1>10, <2>1, <2>2, <2>3
    <2> QED  BY ONLY <1>10, <2>4 DEF HalvesNow
  <1>28. Sends(pe, (C \ {m}) \cup N)  BY ONLY <1>2, <1>23, <1>24, m \in C, m.op = "BALANCE", SendsAnswered
  <1>29. IdsAre(idp, nid, H, pe, (C \ {m}) \cup N, q, a)
    <2>1. \A s \in Tid : q[s] > 0 => r[s] > 0 \/ s = TidOf(m)  BY ONLY <1>4, <1>7
    <2>2. TidOf(n) = TidOf(m)  BY ONLY <1>4, <1>23
    <2> QED  BY ONLY <1>2, <1>24, <2>1, <2>2, m \in C, IdsAnswered
  <1>30. World(x, bk, vo, pe, su, as, (C \ {m}) \cup N, idp, nid, fv, um, H, b, d, q, a, h)
    <2>1. u = m.user /\ t = TidOf(m) /\ own = fv[u]  BY ONLY <1>4, <1>17
    <2>2. Covers(fv[u].cash, fv[u].money, Sells(x, q, u), Buys(x, q, u))  BY ONLY <1>16, <2>1
    <2>3. Handed(m, N, x, bk, vo, pe, st, as, C, idp, nid, fu, un, H, b, d, r, a, g,
                 bk, vo, pe, su, as, idp, fv, um, H, b, d, q, a, h)
      BY ONLY World(x, bk, vo, pe, st, as, C, idp, nid, fu, un, H, b, d, r, a, g), m \in C, <2>1, <2>2, <1>19, <1>20, <1>25, <1>26, <1>27, <1>28, <1>29
              DEF Handed
    <2> QED  BY ONLY <2>3, WorldHanded
  <1> QED  BY ONLY <1>24, <1>30 DEF Leads

LEMMA BuysCost ==
    ASSUME NEW x \in [Tid -> Whose], NEW r \in [Tid -> Nat], NEW u
    PROVE  Buys(x, r, u) <= 0
  <1> DEFINE f == BuyWeight(x, r, u)
             z == [t \in Tid |-> 0]
  <1>1. Buys(x, r, u) = SumFunctionOnSet(f, Tid)  BY OfferWeights
  <1>2. ASSUME NEW t \in Tid PROVE f[t] \in Int /\ z[t] \in Int /\ f[t] <= z[t] /\ z[t] = 0
    <2>1. /\ x[t].price \in Int /\ f[t] = (IF x[t].user = u /\ x[t].price < 0 THEN x[t].price * r[t] ELSE 0)
          /\ r[t] \in Nat
      BY OfferWeights
    <2>2. PICK p \in Int : p = x[t].price  BY <2>1
    <2>3. PICK n \in Nat : n = r[t]  BY <2>1
    <2>4. p < 0 => p * n <= 0  OBVIOUS
    <2>5. p * n \in Int  OBVIOUS
    <2>6. f[t] = (IF x[t].user = u /\ p < 0 THEN p * n ELSE 0)  BY ONLY <2>1, <2>2, <2>3
    <2>7. f[t] \in Int /\ f[t] <= 0  BY ONLY <2>4, <2>5, <2>6
    <2>8. z[t] = 0  OBVIOUS
    <2> QED  BY ONLY <2>7, <2>8
  <1> HIDE DEF f, z
  <1>3. IsFiniteSet(Tid)  BY TidsAre
  <1>4. SumFunctionOnSet(f, Tid) <= SumFunctionOnSet(z, Tid)  BY ONLY <1>2, <1>3, SumMonotonic
  <1>5. SumFunctionOnSet(z, Tid) = 0  BY ONLY <1>2, <1>3, SumZero
  <1>6. Buys(x, r, u) \in Int  BY OfferTypes
  <1> QED  BY ONLY <1>1, <1>4, <1>5, <1>6

LEMMA FeeIs ==
    ASSUME NEW m \in Int, Multiple(m)
    PROVE  CancelFee(m) \in Int /\ 100 * CancelFee(m) = 2 * m
  <1>1. CancelFee(m) \in Int /\ 100 * CancelFee(m) <= 2 * m /\ 2 * m < 100 * CancelFee(m) + 100  BY DEF CancelFee
  <1>2. PICK z \in Int : m = 100 * z  BY DEF Multiple
  <1> QED  BY <1>1, <1>2

\* What is known of an order that is to be cancelled.
Cancelled(m, t, u, v, p, x, st, b, d, r, a) ==
    /\ t \in DOMAIN st /\ t \in Tid \ {0} /\ u \in User /\ u = m.user /\ TidOf(m) = t
    /\ st[t] = [tid |-> t, user |-> u, price |-> p, volume |-> v]
    /\ x[t] = [user |-> u, price |-> p] /\ p \in Int /\ p # 0 /\ Multiple(p)
    /\ v \in Nat /\ v > 0 /\ r[t] = v /\ a[t] = v /\ b[t] = 0 /\ d[t] = 0 /\ m.arg.volume = v

LEMMA CancelFound ==
    ASSUME NEW x, NEW bk, NEW vo, NEW pe, NEW st, NEW as, NEW C, NEW idp, NEW nid, NEW fu, NEW un,
           NEW H, NEW b, NEW d, NEW r, NEW a, NEW g,
           World(x, bk, vo, pe, st, as, C, idp, nid, fu, un, H, b, d, r, a, g),
           NEW m \in C, m.op = "CANCEL", m.res = NoAnswer
    PROVE  Cancelled(m, m.arg.tid, m.user, r[m.arg.tid], x[m.arg.tid].price, x, st, b, d, r, a)
  <1> DEFINE t == m.arg.tid
             u == m.user
             v == r[t]
             p == x[t].price
  <1>1. /\ x \in [Tid -> Whose] /\ b \in [Tid -> Nat] /\ d \in [Tid -> Int] /\ r \in [Tid -> Nat] /\ a \in [Tid -> Nat]
    <2>1. Typed(x, bk, pe, as, fu, un, H, b, d, r, a, g)
      BY ONLY World(x, bk, vo, pe, st, as, C, idp, nid, fu, un, H, b, d, r, a, g), WorldTypes
    <2> QED  BY ONLY <2>1 DEF Typed
  <1>2. RowsAre(st, x, r)  BY DEF World
  <1>3. About(m, C, x, pe, as, fu, b, d, r, a, g) /\ Settling(m, H, b, d, r, a)
    BY ONLY World(x, bk, vo, pe, st, as, C, idp, nid, fu, un, H, b, d, r, a, g), m \in C, AboutUser
  <1>4. CallIs(m, x)  BY <1>3 DEF About
  <1>5. TidOf(m) = t /\ t \in Tid \ {0} /\ x[t].user = u /\ u \in User  BY <1>4 DEF CallIs, TidOf
  <1>6. b[t] = 0 /\ d[t] = 0 /\ a[t] > 0 /\ r[t] = a[t] /\ m.arg.volume = a[t]  BY <1>3, <1>5 DEF Settling
  <1>7. p \in Int /\ p # 0 /\ Multiple(p) /\ x[t] = [user |-> u, price |-> p]
    <2>1. x[t] \in Whose  BY <1>1, <1>5
    <2>2. x[t] = [user |-> x[t].user, price |-> x[t].price] /\ x[t].price \in Prices  BY <2>1 DEF Whose
    <2> QED  BY <1>5, <2>2, PricesAre
  <1>8. v \in Nat  BY <1>1, <1>5
  <1> HIDE DEF t, u, p
  <1>9. t \in DOMAIN st /\ st[t] = Row(x, r, t)  BY <1>2, <1>5, <1>6, RowsHad DEF HasRows
  <1>10. st[t] = [tid |-> t, user |-> u, price |-> p, volume |-> r[t]]  BY <1>5, <1>7, <1>9 DEF Row
  <1>11. u = m.user  BY DEF u
  <1>12. Cancelled(m, t, u, v, p, x, st, b, d, r, a)  BY ONLY <1>5, <1>6, <1>7, <1>8, <1>9, <1>10, <1>11 DEF Cancelled
  <1> QED  BY <1>12 DEF t, u, p

\* The funds after the fee of a cancelled order is paid.
PaysFee(f, p, v) ==
    IF p > 0 THEN [f EXCEPT !.cash = @ - CancelFee(100 * v)]
             ELSE [f EXCEPT !.money = @ + CancelFee(p * v)]

LEMMA FeeCovers ==
    ASSUME NEW cash \in Int, NEW money \in Int, NEW lots \in Nat, NEW cost \in Int, Covers(cash, money, lots, cost),
           NEW p \in Int, p # 0, Multiple(p), NEW v \in Nat, v > 0,
           NEW l \in Nat, NEW k \in Int, k <= 0, p > 0 => l = lots - v /\ k = cost, p < 0 => l = lots /\ k = cost - p * v,
           NEW own, own = PaysFee([cash |-> cash, money |-> money], p, v)
    PROVE  /\ Covers(own.cash, own.money, l, k) /\ own \in [cash : Int, money : Int]
           /\ own.cash >= 0 /\ own.money >= 0
  <1>1. cash >= 102 * lots /\ 100 * money + 102 * cost >= 0  BY DEF Covers
  <1>2. CASE p > 0
    <2>1. Multiple(100 * v) /\ 100 * v \in Int  BY DEF Multiple
    <2>2. PICK w \in Int : w = CancelFee(100 * v) /\ 100 * w = 2 * (100 * v)  BY <2>1, FeeIs
    <2>3. own = [cash |-> cash - w, money |-> money]  BY <1>2, <2>2 DEF PaysFee
    <2>4. own.cash = cash - w /\ own.money = money  BY ONLY <2>3
    <2>5. w = 2 * v  BY <2>2
    <2>6. own.cash >= 102 * l /\ 100 * own.money + 102 * k >= 0 /\ own.cash >= 0 /\ own.money >= 0
      BY ONLY <1>1, <1>2, <2>4, <2>5, p > 0 => l = lots - v /\ k = cost, k <= 0, cash \in Int, money \in Int, l \in Nat, k \in Int,
              v \in Nat, v > 0, lots \in Nat, cost \in Int
    <2> QED  BY <2>3, <2>6 DEF Covers
  <1>3. CASE p < 0
    <2>1. PICK z \in Int : z = p * v  OBVIOUS
    <2>2. Multiple(z)
      <3>1. v \in Int  OBVIOUS
      <3>2. Multiple(p - p * v) /\ Multiple(p * v)  BY ONLY p \in Int, <3>1, Multiple(p), MultipleMinus
      <3> QED  BY <2>1, <3>2
    <2>3. z < 0  BY ONLY <1>3, <2>1, p \in Int, v \in Nat, v > 0
    <2>4. PICK w \in Int : w = CancelFee(z) /\ 100 * w = 2 * z  BY <2>2, FeeIs
    <2>5. own = [cash |-> cash, money |-> money + w]  BY <1>3, <2>1, <2>4 DEF PaysFee
    <2>6. own.cash = cash /\ own.money = money + w  BY ONLY <2>5
    <2>7. own.cash >= 102 * l /\ 100 * own.money + 102 * k >= 0 /\ own.cash >= 0 /\ own.money >= 0
      BY ONLY <1>1, <1>3, <2>1, <2>3, <2>4, <2>6, p < 0 => l = lots /\ k = cost - p * v, k <= 0, cash \in Int, money \in Int, l \in Nat,
              k \in Int, lots \in Nat, cost \in Int
    <2> QED  BY <2>5, <2>7 DEF Covers
  <1> QED  BY <1>2, <1>3

\* The answer, rows and funds after an order is cancelled.
CancelMakes(n, su, fv, own, m, t, u, v, p, st, fu) ==
    /\ own = PaysFee(fu[u], p, v) /\ n = WithRes(m, Told("SUCCESS", own))
    /\ su = Drop(st, t) /\ fv = [fu EXCEPT ![u] = own]

LEMMA CancelServed ==
    ASSUME NEW x, NEW bk, NEW vo, NEW pe, NEW st, NEW as, NEW C, NEW idp, NEW nid, NEW fu, NEW un,
           NEW H, NEW b, NEW d, NEW r, NEW a, NEW g,
           World(x, bk, vo, pe, st, as, C, idp, nid, fu, un, H, b, d, r, a, g),
           NEW m \in C, m.op = "CANCEL", m.res = NoAnswer,
           NEW t, NEW u, NEW v, NEW p, Cancelled(m, t, u, v, p, x, st, b, d, r, a),
           NEW own, NEW n, NEW su, NEW fv, CancelMakes(n, su, fv, own, m, t, u, v, p, st, fu)
    PROVE  /\ own.cash >= 0 /\ own.money >= 0
           /\ Leads(x, bk, vo, pe, su, as, (C \ {m}) \cup {n}, idp, nid, fv, un, H, b, d, a)
  <1> SUFFICES ASSUME own = PaysFee(fu[u], p, v), n = WithRes(m, Told("SUCCESS", own)),
                      su = Drop(st, t), fv = [fu EXCEPT ![u] = own]
               PROVE  /\ own.cash >= 0 /\ own.money >= 0
                      /\ \E q : World(x, bk, vo, pe, su, as, (C \ {m}) \cup {n}, idp, nid, fv, un, H, b, d, q, a, g)
    BY DEF CancelMakes, Leads
  <1> DEFINE q == [r EXCEPT ![t] = 0]
  <1>1. /\ x \in [Tid -> Whose] /\ b \in [Tid -> Nat] /\ d \in [Tid -> Int] /\ r \in [Tid -> Nat] /\ a \in [Tid -> Nat]
        /\ g \in [Tid -> Int] /\ g[0] = 0 /\ un \in Int /\ r[0] = 0 /\ fu \in [User -> [cash : Int, money : Int]]
    <2>1. Typed(x, bk, pe, as, fu, un, H, b, d, r, a, g)
      BY ONLY World(x, bk, vo, pe, st, as, C, idp, nid, fu, un, H, b, d, r, a, g), WorldTypes
    <2> QED  BY ONLY <2>1 DEF Typed
  <1>2. /\ BookIs(bk, x, H, b) /\ VolumesAre(vo, bk) /\ DealsAre(pe, x, d) /\ RowsAre(st, x, r)
        /\ AccountsAre(as, x, a) /\ CallsAre(C, x)
        /\ Sends(pe, C) /\ IdsAre(idp, nid, H, pe, C, r, a) /\ Covered(fu, x, r, C)
        /\ HalvesMeet(un, pe, C, g)
    BY DEF World
  <1>3. About(m, C, x, pe, as, fu, b, d, r, a, g)
    BY ONLY World(x, bk, vo, pe, st, as, C, idp, nid, fu, un, H, b, d, r, a, g), m \in C, AboutUser
  <1>4. /\ t \in DOMAIN st /\ t \in Tid \ {0} /\ u \in User /\ u = m.user /\ TidOf(m) = t
        /\ st[t] = [tid |-> t, user |-> u, price |-> p, volume |-> v]
        /\ x[t] = [user |-> u, price |-> p] /\ p \in Int /\ p # 0 /\ Multiple(p)
        /\ v \in Nat /\ v > 0 /\ r[t] = v /\ a[t] = v /\ b[t] = 0 /\ d[t] = 0 /\ m.arg.volume = v
    BY DEF Cancelled
  <1>5. x[t].user = u /\ x[t].price = p  BY ONLY <1>4
  <1>6. q \in [Tid -> Nat] /\ q[t] = 0 /\ \A s \in Tid \ {t} : q[s] = r[s]  BY <1>1, <1>4
  <1>7. q = [r EXCEPT ![t] = 0]  OBVIOUS
  <1> HIDE DEF q
  <1>8. fu[u] \in [cash : Int, money : Int] /\ fu[u] = [cash |-> fu[u].cash, money |-> fu[u].money]
        /\ fu[u].cash \in Int /\ fu[u].money \in Int
    BY <1>1, <1>4
  <1>9. Covers(fu[u].cash, fu[u].money, Sells(x, r, u), Buys(x, r, u))  BY <1>2, <1>4 DEF Covered
  <1>10. Sells(x, r, u) \in Nat /\ Buys(x, r, u) \in Int /\ Sells(x, q, u) \in Nat /\ Buys(x, q, u) \in Int
    BY ONLY <1>1, <1>6, OfferTypes
  <1>11. Buys(x, q, u) <= 0  BY ONLY <1>1, <1>6, BuysCost
  <1>12. OfferMoved(x, r, q, t, u, p)
    <2>1. t \in Tid  BY <1>4
    <2>2. r \in [Tid -> Nat] /\ x \in [Tid -> Whose]  BY <1>1
    <2>3. q \in [Tid -> Nat]  BY <1>6
    <2>4. \A s \in Tid \ {t} : q[s] = r[s]  BY <1>6
    <2>5. OfferMoved(x, r, q, t, x[t].user, x[t].price)  BY ONLY <2>1, <2>2, <2>3, <2>4, SellsChange
    <2> QED  BY ONLY <1>5, <2>5
  <1>13. /\ p > 0 => Sells(x, q, u) = Sells(x, r, u) - v /\ Buys(x, q, u) = Buys(x, r, u)
         /\ p < 0 => Sells(x, q, u) = Sells(x, r, u) /\ Buys(x, q, u) = Buys(x, r, u) - p * v
    <2>1. p * q[t] = 0 /\ p * r[t] = p * v /\ p * v \in Int  BY ONLY <1>4, <1>6
    <2>2. /\ Sells(x, q, u) = Sells(x, r, u) + IF p > 0 THEN q[t] - r[t] ELSE 0
          /\ Buys(x, q, u) = Buys(x, r, u) + IF p < 0 THEN p * q[t] - p * r[t] ELSE 0
      BY ONLY <1>12 DEF OfferMoved
    <2>3. r[t] = v /\ q[t] = 0 /\ v \in Int /\ p \in Int  BY <1>4, <1>6
    <2>4. PICK z \in Int : z = p * v  BY <2>1
    <2>5. p > 0 => Sells(x, q, u) = Sells(x, r, u) - v /\ Buys(x, q, u) = Buys(x, r, u)  BY ONLY <1>10, <2>2, <2>3
    <2>6. p < 0 => Sells(x, q, u) = Sells(x, r, u) /\ Buys(x, q, u) = Buys(x, r, u) - z
      BY ONLY <1>10, <2>1, <2>2, <2>3, <2>4
    <2> QED  BY ONLY <2>4, <2>5, <2>6
  <1>14. /\ Covers(own.cash, own.money, Sells(x, q, u), Buys(x, q, u)) /\ own \in [cash : Int, money : Int]
         /\ own.cash >= 0 /\ own.money >= 0
    <2>1. own = PaysFee([cash |-> fu[u].cash, money |-> fu[u].money], p, v)  BY <1>8
    <2>2. p \in Int /\ p # 0 /\ Multiple(p) /\ v \in Nat /\ v > 0  BY <1>4
    <2> QED  BY ONLY <1>8, <1>9, <1>10, <1>11, <1>13, <2>1, <2>2, FeeCovers
  <1>15. fv \in [User -> [cash : Int, money : Int]] /\ fv[u] = own /\ \A w \in User \ {u} : fv[w] = fu[w]
    BY <1>1, <1>4, <1>14
  <1>16. RowsAre(su, x, q)
    <2>1. t \in Tid \ {0}  BY <1>4
    <2> QED  BY ONLY <1>2, <1>7, <2>1, su = Drop(st, t), RowGone
  <1>17. Held(x, bk, vo, pe, su, as, H, b, d, q, a)  BY ONLY <1>2, <1>16 DEF Held
  <1>18. OnlyAt(t, H, b, d, r, a, H, b, d, q, a)  BY ONLY <1>6 DEF OnlyAt, Agree
  <1> DEFINE res == Told("SUCCESS", own)
  <1>19. res.retcode = "SUCCESS" /\ res.cash = own.cash /\ res.money = own.money /\ res # NoAnswer
    BY DEF NoAnswer, Told
  <1>20. n = WithRes(m, res)  OBVIOUS
  <1> HIDE DEF res
  <1>21. /\ n.op = "CANCEL" /\ n.user = u /\ n.arg = m.arg /\ n.res = res /\ n.waiting = m.waiting
         /\ TidOf(n) = t /\ ~Unserved(n) /\ Paid(n)
    <2>1. /\ n.op = m.op /\ n.user = m.user /\ n.arg = m.arg /\ n.res = res /\ n.waiting = m.waiting
          /\ TidOf(n) = TidOf(m) /\ (Unserved(n) <=> m.op = "BALANCE" /\ res = NoAnswer)
          /\ (Paid(n) <=> m.op # "COMMISSION" /\ res.retcode = "SUCCESS")
      BY ONLY <1>20, AnswerIs
    <2> QED  BY <1>4, <1>19, <2>1
  <1>22. PICK N : N = {n}  OBVIOUS
  <1>23. NextCall(N, u, t, x, H, b, d, q, a, fv)
    <2>1. Single({n}, n.user)  BY SingleIs
    <2>2. CallIs(n, x)
      <3>1. n.waiting  BY <1>3, <1>21 DEF About, CallIs
      <3>2. n.op = "CANCEL" /\ n.user \in User /\ TidOf(n) \in Tid \ {0} /\ x[TidOf(n)].user = n.user
        BY ONLY <1>4, <1>5, <1>21
      <3>3. n.res.retcode = "SUCCESS"  BY <1>19, <1>21
      <3> QED  BY ONLY <3>1, <3>2, <3>3 DEF CallIs
    <2>3. Settling(n, H, b, d, q, a)
      <3>1. n.res # NoAnswer /\ q[t] = 0 /\ b[t] = 0 /\ d[t] = 0 /\ a[t] > 0 /\ n.arg.volume = a[t]
        BY <1>4, <1>6, <1>19, <1>21
      <3> QED  BY ONLY <1>21, <3>1 DEF Settling
    <2>4. Promised(n, fv, x, q)  BY ONLY <1>21 DEF Promised
    <2> QED  BY ONLY <1>21, <1>22, <2>1, <2>2, <2>3, <2>4 DEF NextCall
  <1>24. FundsNow(N, u, fu, as, fv, as)  BY ONLY <1>15, <1>19, <1>21, <1>22 DEF FundsNow
  <1>25. HalvesNow(t, g, g, un, pe)
    <2>1. g[t] = 0
      <3>1. ~Unserved(m) /\ x[t].user = m.user  BY <1>4, <1>5 DEF Unserved
      <3> QED  BY <1>3, <1>4, <3>1 DEF About
    <2>2. un + SumOver(UnsentHalves, pe) + SumFunctionOnSet(g, Tid) = 0  BY <1>2 DEF HalvesMeet
    <2> QED  BY ONLY <1>1, <2>1, <2>2 DEF HalvesNow
  <1>26. Sends(pe, (C \ {m}) \cup N)  BY ONLY <1>2, <1>21, <1>22, m \in C, m.op = "CANCEL", SendsAnswered
  <1>27. IdsAre(idp, nid, H, pe, (C \ {m}) \cup N, q, a)
    <2>1. \A s \in Tid : q[s] > 0 => r[s] > 0 \/ s = TidOf(m)  BY <1>4, <1>6
    <2>2. TidOf(n) = TidOf(m)  BY <1>4, <1>21
    <2> QED  BY ONLY <1>2, <1>22, <2>1, <2>2, m \in C, IdsAnswered
  <1>28. World(x, bk, vo, pe, su, as, (C \ {m}) \cup N, idp, nid, fv, un, H, b, d, q, a, g)
    <2>1. u = m.user /\ t = TidOf(m) /\ own = fv[u]  BY <1>4, <1>15
    <2>2. Covers(fv[u].cash, fv[u].money, Sells(x, q, u), Buys(x, q, u))  BY <1>14, <2>1
    <2>3. Handed(m, N, x, bk, vo, pe, st, as, C, idp, nid, fu, un, H, b, d, r, a, g,
                 bk, vo, pe, su, as, idp, fv, un, H, b, d, q, a, g)
      BY ONLY World(x, bk, vo, pe, st, as, C, idp, nid, fu, un, H, b, d, r, a, g), m \in C, <2>1, <2>2, <1>17, <1>18, <1>23, <1>24, <1>25, <1>26, <1>27
              DEF Handed
    <2> QED  BY ONLY <2>3, WorldHanded
  <1> QED  BY <1>14, <1>22, <1>28

\* A transaction is served: the funds move, or not.
TransactionMakes(n, fv, own, sign, m, fu) ==
    /\ sign = IF m.arg.withdraw THEN -1 ELSE 1
    /\ own = [cash |-> fu[m.user].cash + sign * m.arg.cash, money |-> fu[m.user].money + sign * m.arg.money]
    /\ \/ n = WithRes(m, Failed) /\ fv = fu
       \/ n = WithRes(m, Told("SUCCESS", own)) /\ fv = [fu EXCEPT ![m.user] = own]

LEMMA TransactionServed ==
    ASSUME NEW x, NEW bk, NEW vo, NEW pe, NEW st, NEW as, NEW C, NEW idp, NEW nid, NEW fu, NEW un,
           NEW H, NEW b, NEW d, NEW r, NEW a, NEW g,
           World(x, bk, vo, pe, st, as, C, idp, nid, fu, un, H, b, d, r, a, g),
           NEW m \in C, m.op = "TRANSACTION", m.res = NoAnswer,
           NEW sign, NEW own, NEW n, NEW fv, TransactionMakes(n, fv, own, sign, m, fu)
    PROVE  World(x, bk, vo, pe, st, as, (C \ {m}) \cup {n}, idp, nid, fv, un, H, b, d, r, a, g)
  <1> SUFFICES ASSUME sign = IF m.arg.withdraw THEN -1 ELSE 1,
                      own = [cash |-> fu[m.user].cash + sign * m.arg.cash, money |-> fu[m.user].money + sign * m.arg.money],
                      \/ n = WithRes(m, Failed) /\ fv = fu
                      \/ n = WithRes(m, Told("SUCCESS", own)) /\ fv = [fu EXCEPT ![m.user] = own]
               PROVE  World(x, bk, vo, pe, st, as, (C \ {m}) \cup {n}, idp, nid, fv, un, H, b, d, r, a, g)
    BY DEF TransactionMakes
  <1> DEFINE u == m.user
  <1>1. /\ x \in [Tid -> Whose] /\ b \in [Tid -> Nat] /\ d \in [Tid -> Int] /\ r \in [Tid -> Nat] /\ a \in [Tid -> Nat]
        /\ g \in [Tid -> Int] /\ g[0] = 0 /\ un \in Int /\ r[0] = 0 /\ fu \in [User -> [cash : Int, money : Int]]
    <2>1. Typed(x, bk, pe, as, fu, un, H, b, d, r, a, g)
      BY ONLY World(x, bk, vo, pe, st, as, C, idp, nid, fu, un, H, b, d, r, a, g), WorldTypes
    <2> QED  BY ONLY <2>1 DEF Typed
  <1>2. /\ BookIs(bk, x, H, b) /\ VolumesAre(vo, bk) /\ DealsAre(pe, x, d) /\ RowsAre(st, x, r)
        /\ AccountsAre(as, x, a) /\ CallsAre(C, x)
        /\ Sends(pe, C) /\ IdsAre(idp, nid, H, pe, C, r, a) /\ Covered(fu, x, r, C)
        /\ HalvesMeet(un, pe, C, g)
    BY DEF World
  <1>3. About(m, C, x, pe, as, fu, b, d, r, a, g) /\ Promised(m, fu, x, r)
    BY ONLY World(x, bk, vo, pe, st, as, C, idp, nid, fu, un, H, b, d, r, a, g), m \in C, AboutUser
  <1>4. TidOf(m) = 0 /\ u \in User /\ m.arg \in Transfers /\ m.waiting  BY <1>3 DEF About, CallIs, TidOf
  <1>5. m.arg.cash \in Nat /\ m.arg.money \in Nat /\ m.arg.withdraw \in BOOLEAN  BY <1>4, ExchangeAssumption
  <1>6. fu[u] = [cash |-> fu[u].cash, money |-> fu[u].money] /\ fu[u].cash \in Int /\ fu[u].money \in Int
    BY <1>1, <1>4
  <1>7. Covers(fu[u].cash, fu[u].money, Sells(x, r, u), Buys(x, r, u))  BY <1>2, <1>4 DEF Covered
  <1>8. Sells(x, r, u) \in Nat /\ Buys(x, r, u) \in Int  BY ONLY <1>1, OfferTypes
  <1>9. as[u].cash = fu[u].cash /\ as[u].money = fu[u].money
    <2>1. ~Paid(m)  BY DEF Paid, NoAnswer
    <2> QED  BY <1>3, <2>1 DEF About
  <1>10. own \in [cash : Int, money : Int] /\ Covers(own.cash, own.money, Sells(x, r, u), Buys(x, r, u))
    <2>1. CASE m.arg.withdraw
      <3>1. Covers(fu[u].cash - m.arg.cash, fu[u].money - m.arg.money, Sells(x, r, u), Buys(x, r, u))
        BY <1>3, <2>1 DEF Promised
      <3>2. own = [cash |-> fu[u].cash - m.arg.cash, money |-> fu[u].money - m.arg.money]
        <4>1. PICK c \in Int : c = m.arg.cash  BY <1>5
        <4>2. PICK e \in Int : e = m.arg.money  BY <1>5
        <4>3. own = [cash |-> fu[u].cash + (-1) * c, money |-> fu[u].money + (-1) * e]  BY <2>1, <4>1, <4>2
        <4>4. fu[u].cash + (-1) * c = fu[u].cash - c /\ fu[u].money + (-1) * e = fu[u].money - e
          BY ONLY <1>6, c \in Int, e \in Int
        <4> QED  BY ONLY <4>1, <4>2, <4>3, <4>4
      <3>3. own.cash = fu[u].cash - m.arg.cash /\ own.money = fu[u].money - m.arg.money  BY ONLY <3>2
      <3> QED  BY ONLY <1>5, <1>6, <3>1, <3>2, <3>3
    <2>2. CASE ~m.arg.withdraw
      <3>1. own = [cash |-> fu[u].cash + m.arg.cash, money |-> fu[u].money + m.arg.money]  BY <1>5, <2>2
      <3>2. own.cash = fu[u].cash + m.arg.cash /\ own.money = fu[u].money + m.arg.money  BY ONLY <3>1
      <3> QED  BY ONLY <1>5, <1>6, <1>7, <1>8, <3>1, <3>2 DEF Covers
    <2> QED  BY <2>1, <2>2
  <1>11. PICK res : \/ n = WithRes(m, res) /\ res = Failed /\ fv = fu
                    \/ n = WithRes(m, res) /\ res = Told("SUCCESS", own) /\ fv = [fu EXCEPT ![u] = own]
    OBVIOUS
  <1>12. n = WithRes(m, res) /\ res # NoAnswer /\ (res.retcode = "SUCCESS" \/ res = Failed)
         /\ (res.retcode # "SUCCESS" => fv = fu)
         /\ (res.retcode = "SUCCESS" => res.cash = own.cash /\ res.money = own.money /\ fv = [fu EXCEPT ![u] = own])
    <2>1. Failed.retcode = "EXCEPTION" /\ Failed # NoAnswer  BY DEF Failed, NoAnswer
    <2>2. LET y == Told("SUCCESS", own) IN y.retcode = "SUCCESS" /\ y.cash = own.cash /\ y.money = own.money /\ y # NoAnswer
      BY DEF Told, NoAnswer
    <2> QED  BY <1>11, <2>1, <2>2
  <1>13. /\ fv \in [User -> [cash : Int, money : Int]] /\ \A w \in User \ {u} : fv[w] = fu[w]
         /\ (res.retcode = "SUCCESS" => fv[u] = own) /\ (res.retcode # "SUCCESS" => fv[u] = fu[u])
    BY <1>1, <1>4, <1>10, <1>12
  <1>14. Covers(fv[u].cash, fv[u].money, Sells(x, r, u), Buys(x, r, u))  BY ONLY <1>7, <1>10, <1>13
  <1>15. /\ n.op = "TRANSACTION" /\ n.user = u /\ n.arg = m.arg /\ n.res = res /\ n.waiting = m.waiting
         /\ TidOf(n) = 0 /\ ~Unserved(n) /\ (Paid(n) <=> res.retcode = "SUCCESS")
    <2>1. n = WithRes(m, res)  BY <1>12
    <2>2. /\ n.op = m.op /\ n.user = m.user /\ n.arg = m.arg /\ n.res = res /\ n.waiting = m.waiting
          /\ TidOf(n) = TidOf(m) /\ (Unserved(n) <=> m.op = "BALANCE" /\ res = NoAnswer)
          /\ (Paid(n) <=> m.op # "COMMISSION" /\ res.retcode = "SUCCESS")
      BY ONLY <2>1, AnswerIs
    <2> QED  BY <1>4, <2>2
  <1>16. PICK N : N = {n}  OBVIOUS
  <1> HIDE DEF u
  <1>17. Held(x, bk, vo, pe, st, as, H, b, d, r, a)  BY ONLY <1>2 DEF Held
  <1>18. OnlyAt(0, H, b, d, r, a, H, b, d, r, a)  BY DEF OnlyAt, Agree
  <1>19. NextCall(N, u, 0, x, H, b, d, r, a, fv)
    <2>1. Single({n}, n.user)  BY SingleIs
    <2>2. CallIs(n, x)  BY ONLY <1>4, <1>12, <1>15 DEF CallIs
    <2>3. Settling(n, H, b, d, r, a)  BY ONLY <1>15 DEF Settling
    <2>4. Promised(n, fv, x, r)  BY ONLY <1>12, <1>15 DEF Promised
    <2> QED  BY ONLY <1>15, <1>16, <2>1, <2>2, <2>3, <2>4 DEF NextCall
  <1>20. FundsNow(N, u, fu, as, fv, as)  BY ONLY <1>9, <1>12, <1>13, <1>15, <1>16 DEF FundsNow
  <1>21. HalvesNow(0, g, g, un, pe)
    <2>1. un + SumOver(UnsentHalves, pe) + SumFunctionOnSet(g, Tid) = 0  BY <1>2 DEF HalvesMeet
    <2> QED  BY ONLY <1>1, <2>1 DEF HalvesNow
  <1>22. Sends(pe, (C \ {m}) \cup N)  BY ONLY <1>2, <1>15, <1>16, m \in C, m.op = "TRANSACTION", SendsAnswered
  <1>23. IdsAre(idp, nid, H, pe, (C \ {m}) \cup N, r, a)
    <2>1. \A s \in Tid : r[s] > 0 => r[s] > 0 \/ s = TidOf(m)  OBVIOUS
    <2>2. TidOf(n) = TidOf(m)  BY <1>4, <1>15
    <2> QED  BY ONLY <1>2, <1>16, <2>1, <2>2, m \in C, IdsAnswered
  <1>24. World(x, bk, vo, pe, st, as, (C \ {m}) \cup N, idp, nid, fv, un, H, b, d, r, a, g)
    <2>1. u = m.user /\ 0 = TidOf(m)  BY <1>4 DEF u
    <2>3. Handed(m, N, x, bk, vo, pe, st, as, C, idp, nid, fu, un, H, b, d, r, a, g,
                 bk, vo, pe, st, as, idp, fv, un, H, b, d, r, a, g)
      BY ONLY World(x, bk, vo, pe, st, as, C, idp, nid, fu, un, H, b, d, r, a, g), m \in C, <2>1, <1>14, <1>17, <1>18, <1>19, <1>20, <1>21, <1>22, <1>23
              DEF Handed
    <2> QED  BY ONLY <2>3, WorldHanded
  <1> QED  BY <1>16, <1>24

LEMMA ServeCommissionExact ==
    ASSUME Inv, NEW x, NEW H, NEW b, NEW d, NEW r, NEW a, NEW g, Exact(x, H, b, d, r, a, g),
           NEW i \in DOMAIN calls, ServeCommission(i)
    PROVE  ExactNow'
  <1>1. Running /\ World(x, orders, volumes, pending, stored, accounts, Requests, idpool, nextid, funds, unmatched, H, b, d, r, a, g)
    BY ExactIs
  <1>2. PICK m : m = calls[i]  OBVIOUS
  <1>3. PICK o : o = m.arg.order  OBVIOUS
  <1>4. PICK su : su = IF o.tid \in DOMAIN stored THEN stored ELSE Put(stored, o.tid, o)  OBVIOUS
  <1>5. CallsAre(Requests, x) /\ RowsAre(stored, x, r)  BY <1>1 DEF World
  <1>6. m \in Requests  BY <1>2 DEF Requests, Range
  <1>7. m.op = "COMMISSION" /\ m.res = NoAnswer  BY <1>2 DEF ServeCommission, Asked
  <1>8. CallIs(m, x)  BY <1>5, <1>6 DEF CallsAre
  <1>9. o.tid \in DOMAIN stored => stored[o.tid].user = o.user  BY ONLY <1>3, <1>5, <1>7, <1>8, KnownOwn
  <1>10. Answer(i, [retcode |-> "SUCCESS"]) /\ stored' = su  BY <1>2, <1>3, <1>4, <1>9 DEF ServeCommission
  <1>11. /\ status' = status /\ online' = online /\ accounts' = accounts /\ orders' = orders /\ volumes' = volumes
         /\ pending' = pending /\ idpool' = idpool /\ nextid' = nextid /\ funds' = funds /\ unmatched' = unmatched
         /\ faults' = faults /\ crashes' = crashes
    BY DEF ServeCommission, gdeliveryd, market, pool, bounds
  <1>12. PICK n : n = WithRes(m, [retcode |-> "SUCCESS"])  OBVIOUS
  <1>13. Requests' = (Requests \ {m}) \cup {n}  BY <1>2, <1>5, <1>10, <1>12, RequestAnswered
  <1>14. PICK q : World(x, orders, volumes, pending, su, accounts, (Requests \ {m}) \cup {n}, idpool, nextid, funds, unmatched, H, b, d, q, a, g)
    BY ONLY <1>1, <1>3, <1>4, <1>6, <1>7, <1>12, CommissionServed
  <1>15. Exact(x, H, b, d, q, a, g)'  BY ONLY <1>1, <1>10, <1>11, <1>13, <1>14 DEF Exact, World, Running
  <1> QED  BY ONLY <1>15 DEF ExactNow

LEMMA ServeBalanceExact ==
    ASSUME Inv, NEW x, NEW H, NEW b, NEW d, NEW r, NEW a, NEW g, Exact(x, H, b, d, r, a, g),
           NEW i \in DOMAIN calls, ServeBalance(i)
    PROVE  ExactNow'
  <1>1. Running /\ World(x, orders, volumes, pending, stored, accounts, Requests, idpool, nextid, funds, unmatched, H, b, d, r, a, g)
    BY ExactIs
  <1>2. PICK m : m = calls[i]  OBVIOUS
  <1>3. PICK t : t = m.arg.tid  OBVIOUS
  <1>4. PICK u : u = m.user  OBVIOUS
  <1>5. PICK v : v = m.arg.ack_volume  OBVIOUS
  <1>6. PICK p : p = x[t].price  OBVIOUS
  <1>7. PICK own : own = Settles(funds[u], p, v, m.arg.ack_money)  OBVIOUS
  <1>8. PICK left : left = r[t] - v  OBVIOUS
  <1>9. PICK su : su = IF left = 0 THEN Drop(stored, t) ELSE [stored EXCEPT ![t].volume = left]  OBVIOUS
  <1>10. PICK fv : fv = [funds EXCEPT ![u] = own]  OBVIOUS
  <1>11. PICK um : um = unmatched + (IF p > 0 THEN v ELSE -v)  OBVIOUS
  <1>12. CallsAre(Requests, x)  BY <1>1 DEF World
  <1>13. m \in Requests  BY <1>2 DEF Requests, Range
  <1>14. m.op = "BALANCE" /\ m.res = NoAnswer  BY <1>2 DEF ServeBalance, Asked
  <1>15. HalfKnown(m, t, u, v, p, x, stored, b, d, r, a, g)
    BY ONLY <1>1, <1>3, <1>4, <1>5, <1>6, <1>13, <1>14, BalanceFound
  <1>16. /\ t \in DOMAIN stored /\ stored[t].user = u /\ stored[t].price = p /\ stored[t].volume = r[t]
    BY <1>15 DEF HalfKnown
  <1>17. PICK res : res = [retcode |-> "SUCCESS", cash |-> own.cash, money |-> own.money, volume_left |-> left]
    OBVIOUS
  <1>18. Answer(i, res) /\ stored' = su /\ funds' = fv /\ unmatched' = um
    BY <1>2, <1>3, <1>4, <1>5, <1>7, <1>8, <1>9, <1>10, <1>11, <1>16, <1>17 DEF ServeBalance, Settles
  <1>19. /\ status' = status /\ online' = online /\ accounts' = accounts /\ orders' = orders /\ volumes' = volumes
         /\ pending' = pending /\ idpool' = idpool /\ nextid' = nextid
         /\ faults' = faults /\ crashes' = crashes
    BY DEF ServeBalance, gdeliveryd, market, pool, bounds
  <1>20. PICK n : n = WithRes(m, res)  OBVIOUS
  <1>21. Requests' = (Requests \ {m}) \cup {n}  BY <1>2, <1>12, <1>18, <1>20, RequestAnswered
  <1>24. BalanceMakes(n, su, fv, um, own, left, m, t, u, v, p, stored, funds, unmatched, r)
    BY ONLY <1>7, <1>8, <1>9, <1>10, <1>11, <1>17, <1>20 DEF BalanceMakes
  <1>22. PICK q, h : World(x, orders, volumes, pending, su, accounts, (Requests \ {m}) \cup {n}, idpool, nextid, fv, um, H, b, d, q, a, h)
    <2>1. Leads(x, orders, volumes, pending, su, accounts, (Requests \ {m}) \cup {n}, idpool, nextid, fv, um, H, b, d, a)
      BY ONLY <1>1, <1>13, <1>14, <1>15, <1>24, BalanceServed
    <2> QED  BY ONLY <2>1 DEF Leads
  <1>23. Exact(x, H, b, d, q, a, h)'  BY ONLY <1>1, <1>18, <1>19, <1>21, <1>22 DEF Exact, World, Running
  <1> QED  BY ONLY <1>23 DEF ExactNow

LEMMA ServeCancelExact ==
    ASSUME Inv, NEW x, NEW H, NEW b, NEW d, NEW r, NEW a, NEW g, Exact(x, H, b, d, r, a, g),
           NEW i \in DOMAIN calls, ServeCancel(i)
    PROVE  ExactNow'
  <1>1. Running /\ World(x, orders, volumes, pending, stored, accounts, Requests, idpool, nextid, funds, unmatched, H, b, d, r, a, g)
    BY ExactIs
  <1>2. PICK m : m = calls[i]  OBVIOUS
  <1>3. PICK t : t = m.arg.tid  OBVIOUS
  <1>4. PICK u : u = m.user  OBVIOUS
  <1>5. PICK v : v = r[t]  OBVIOUS
  <1>6. PICK p : p = x[t].price  OBVIOUS
  <1>7. PICK own : own = PaysFee(funds[u], p, v)  OBVIOUS
  <1>8. PICK su : su = Drop(stored, t)  OBVIOUS
  <1>9. PICK fv : fv = [funds EXCEPT ![u] = own]  OBVIOUS
  <1>10. CallsAre(Requests, x)  BY <1>1 DEF World
  <1>11. m \in Requests  BY <1>2 DEF Requests, Range
  <1>12. m.op = "CANCEL" /\ m.res = NoAnswer  BY <1>2 DEF ServeCancel, Asked
  <1>13. Cancelled(m, t, u, v, p, x, stored, b, d, r, a)
    BY ONLY <1>1, <1>3, <1>4, <1>5, <1>6, <1>11, <1>12, CancelFound
  <1>14. t \in DOMAIN stored /\ stored[t].user = u /\ stored[t].price = p /\ stored[t].volume = v
    BY <1>13 DEF Cancelled
  <1>15. PICK res : res = Told("SUCCESS", own)  OBVIOUS
  <1>16. PICK n : n = WithRes(m, res)  OBVIOUS
  <1>23. CancelMakes(n, su, fv, own, m, t, u, v, p, stored, funds)
    BY ONLY <1>7, <1>8, <1>9, <1>15, <1>16 DEF CancelMakes
  <1>17. /\ own.cash >= 0 /\ own.money >= 0
         /\ Leads(x, orders, volumes, pending, su, accounts, (Requests \ {m}) \cup {n}, idpool, nextid, fv, unmatched, H, b, d, a)
    BY ONLY <1>1, <1>11, <1>12, <1>13, <1>23, CancelServed
  <1>18. Answer(i, res) /\ stored' = su /\ funds' = fv /\ unmatched' = unmatched
    BY <1>2, <1>3, <1>4, <1>7, <1>8, <1>9, <1>14, <1>15, <1>17 DEF ServeCancel, PaysFee
  <1>19. /\ status' = status /\ online' = online /\ accounts' = accounts /\ orders' = orders /\ volumes' = volumes
         /\ pending' = pending /\ idpool' = idpool /\ nextid' = nextid
         /\ faults' = faults /\ crashes' = crashes
    BY DEF ServeCancel, gdeliveryd, market, pool, bounds
  <1>20. Requests' = (Requests \ {m}) \cup {n}  BY <1>2, <1>10, <1>16, <1>18, RequestAnswered
  <1>21. PICK q, h : World(x, orders, volumes, pending, su, accounts, (Requests \ {m}) \cup {n}, idpool, nextid, fv, unmatched, H, b, d, q, a, h)
    BY ONLY <1>17 DEF Leads
  <1>22. Exact(x, H, b, d, q, a, h)'  BY ONLY <1>1, <1>18, <1>19, <1>20, <1>21 DEF Exact, World, Running
  <1> QED  BY ONLY <1>22 DEF ExactNow

LEMMA ServeTransactionExact ==
    ASSUME Inv, NEW x, NEW H, NEW b, NEW d, NEW r, NEW a, NEW g, Exact(x, H, b, d, r, a, g),
           NEW i \in DOMAIN calls, ServeTransaction(i)
    PROVE  ExactNow'
  <1>1. Running /\ World(x, orders, volumes, pending, stored, accounts, Requests, idpool, nextid, funds, unmatched, H, b, d, r, a, g)
    BY ExactIs
  <1>2. PICK m : m = calls[i]  OBVIOUS
  <1>3. PICK sign : sign = IF m.arg.withdraw THEN -1 ELSE 1  OBVIOUS
  <1>4. PICK own : own = [cash |-> funds[m.user].cash + sign * m.arg.cash, money |-> funds[m.user].money + sign * m.arg.money]
    OBVIOUS
  <1>5. CallsAre(Requests, x)  BY <1>1 DEF World
  <1>6. m \in Requests  BY <1>2 DEF Requests, Range
  <1>7. m.op = "TRANSACTION" /\ m.res = NoAnswer  BY <1>2 DEF ServeTransaction, Asked
  <1>8. PICK fv : fv = funds'  OBVIOUS
  <1>9. \/ Answer(i, Failed) /\ fv = funds /\ stored' = stored /\ unmatched' = unmatched
        \/ Answer(i, Told("SUCCESS", own)) /\ fv = [funds EXCEPT ![m.user] = own] /\ stored' = stored /\ unmatched' = unmatched
    BY <1>2, <1>3, <1>4, <1>8 DEF ServeTransaction, db
  <1>10. /\ status' = status /\ online' = online /\ accounts' = accounts /\ orders' = orders /\ volumes' = volumes
         /\ pending' = pending /\ idpool' = idpool /\ nextid' = nextid
         /\ faults' = faults /\ crashes' = crashes
    BY DEF ServeTransaction, gdeliveryd, market, pool, bounds
  <1>11. PICK n : /\ Requests' = (Requests \ {m}) \cup {n}
                  /\ \/ n = WithRes(m, Failed) /\ fv = funds
                     \/ n = WithRes(m, Told("SUCCESS", own)) /\ fv = [funds EXCEPT ![m.user] = own]
    <2>1. CASE Answer(i, Failed) /\ fv = funds
      <3>1. Requests' = (Requests \ {m}) \cup {WithRes(m, Failed)}  BY <1>2, <1>5, <2>1, RequestAnswered
      <3> QED  BY <2>1, <3>1
    <2>2. CASE Answer(i, Told("SUCCESS", own)) /\ fv = [funds EXCEPT ![m.user] = own]
      <3>1. Requests' = (Requests \ {m}) \cup {WithRes(m, Told("SUCCESS", own))}  BY <1>2, <1>5, <2>2, RequestAnswered
      <3> QED  BY <2>2, <3>1
    <2> QED  BY <1>9, <2>1, <2>2
  <1>15. TransactionMakes(n, fv, own, sign, m, funds)  BY ONLY <1>3, <1>4, <1>11 DEF TransactionMakes
  <1>12. World(x, orders, volumes, pending, stored, accounts, (Requests \ {m}) \cup {n}, idpool, nextid, fv, unmatched, H, b, d, r, a, g)
    BY ONLY <1>1, <1>6, <1>7, <1>15, TransactionServed
  <1>13. stored' = stored /\ unmatched' = unmatched  BY <1>9
  <1>14. Exact(x, H, b, d, r, a, g)'  BY ONLY <1>1, <1>8, <1>10, <1>11, <1>12, <1>13 DEF Exact, World, Running
  <1> QED  BY ONLY <1>14 DEF ExactNow

-----------------------------------------------------------------------------
(***************************************************************************)
(* gdeliveryd receives the answer to a request: the account and the book   *)
(* agree with the database about the order again.                          *)
(***************************************************************************)
\* The account of u agrees with the database, f the lots of his orders.
Refreshed(u, as, bs, fu, x, a, f) ==
    /\ u \in User /\ f \in [Tid -> Nat] /\ f[0] = 0 /\ \A s \in Tid : x[s].user # u => f[s] = a[s]
    /\ DOMAIN bs = User /\ \A v \in User \ {u} : bs[v] = as[v]
    /\ bs[u].cash = fu[u].cash /\ bs[u].money = fu[u].money /\ bs[u].orders = Shown(x, f, u)

LEMMA AccountsRefreshed ==
    ASSUME NEW as, NEW x, NEW a, AccountsAre(as, x, a), NEW fu \in [User -> [cash : Int, money : Int]],
           NEW u, NEW bs, NEW f, Refreshed(u, as, bs, fu, x, a, f)
    PROVE  AccountsAre(bs, x, f)
  <1>1. /\ u \in User /\ f \in [Tid -> Nat] /\ f[0] = 0 /\ \A s \in Tid : x[s].user # u => f[s] = a[s]
        /\ DOMAIN bs = User /\ \A v \in User \ {u} : bs[v] = as[v]
        /\ bs[u].cash = fu[u].cash /\ bs[u].money = fu[u].money /\ bs[u].orders = Shown(x, f, u)
    BY DEF Refreshed
  <1>2. ASSUME NEW v \in User \ {u} PROVE bs[v].orders = Shown(x, f, v)
    <2>1. as[v].orders = Shown(x, a, v)  BY DEF AccountsAre
    <2>2. \A s \in Tid : (a[s] = f[s] /\ x[s] = x[s]) \/ (a[s] = 0 /\ f[s] = 0) \/ (x[s].user # v /\ x[s].user # v)
      BY <1>1
    <2>3. Shown(x, f, v) = Shown(x, a, v)  BY ONLY <2>2, ShownSame
    <2> QED  BY <1>1, <2>1, <2>3
  <1> QED  BY <1>1, <1>2 DEF AccountsAre

\* The deals, but for settled ones, and the requests but m.
LEMMA WorldReceived ==
    ASSUME NEW x, NEW bk, NEW vo, NEW pe, NEW st, NEW as, NEW C, NEW idp, NEW nid, NEW fu, NEW un,
           NEW H, NEW b, NEW d, NEW r, NEW a, NEW g,
           World(x, bk, vo, pe, st, as, C, idp, nid, fu, un, H, b, d, r, a, g),
           NEW m \in C, ~Unserved(m),
           NEW bl, NEW vp, NEW pf, NEW bs, NEW idq, NEW K, NEW c, NEW f,
           BookIs(bl, x, K, c), VolumesAre(vp, bl), SameDeals(pf, pe), Refreshed(m.user, as, bs, fu, x, a, f),
           OnlyAt(TidOf(m), H, b, d, r, a, K, c, d, r, f), TidOf(m) # 0 => Even(TidOf(m), c, d, r, f),
           Sends(pf, C \ {m}), IdsAre(idq, nid, K, pf, C \ {m}, r, f)
    PROVE  World(x, bl, vp, pf, st, bs, C \ {m}, idq, nid, fu, un, K, c, d, r, f, g)
  <1> DEFINE u == m.user
             t == TidOf(m)
  <1>1. /\ g \in [Tid -> Int] /\ g[0] = 0 /\ un \in Int /\ fu \in [User -> [cash : Int, money : Int]]
    <2>1. Typed(x, bk, pe, as, fu, un, H, b, d, r, a, g)
      BY ONLY World(x, bk, vo, pe, st, as, C, idp, nid, fu, un, H, b, d, r, a, g), WorldTypes
    <2> QED  BY ONLY <2>1 DEF Typed
  <1>2. /\ DealsAre(pe, x, d) /\ RowsAre(st, x, r) /\ AccountsAre(as, x, a) /\ Covered(fu, x, r, C)
        /\ HalvesMeet(un, pe, C, g)
    BY DEF World
  <1>3. About(m, C, x, pe, as, fu, b, d, r, a, g)
    BY ONLY World(x, bk, vo, pe, st, as, C, idp, nid, fu, un, H, b, d, r, a, g), m \in C, AboutUser
  <1>4. u \in User /\ CallIs(m, x) /\ (t # 0 => x[t].user = u) /\ t \in Tid  BY <1>3 DEF About, CallIs, TidOf
  <1>5. DealsAre(pf, x, d) /\ SameHalves(pf, pe)  BY ONLY <1>2, SameDeals(pf, pe), DealsSame
  <1>6. AccountsAre(bs, x, f)  BY ONLY <1>1, <1>2, Refreshed(m.user, as, bs, fu, x, a, f), AccountsRefreshed
  <1>7. Held(x, bl, vp, pf, st, bs, K, c, d, r, f)
    BY ONLY <1>2, <1>5, <1>6, BookIs(bl, x, K, c), VolumesAre(vp, bl) DEF Held
  <1>8. PICK N : N = {}  OBVIOUS
  <1>9. NextCall(N, m.user, t, x, K, c, d, r, f, fu)
    <2>1. Single({}, m.user)  BY SingleIs
    <2> QED  BY ONLY <1>8, <2>1, TidOf(m) # 0 => Even(TidOf(m), c, d, r, f) DEF NextCall, t
  <1>10. FundsNow(N, m.user, fu, as, fu, bs)
    <2>1. /\ \A v \in User \ {m.user} : bs[v] = as[v]
          /\ bs[m.user].cash = fu[m.user].cash /\ bs[m.user].money = fu[m.user].money
      BY DEF Refreshed
    <2> QED  BY ONLY <1>1, <1>8, <2>1 DEF FundsNow
  <1>11. Covers(fu[m.user].cash, fu[m.user].money, Sells(x, r, m.user), Buys(x, r, m.user))  BY <1>2, <1>4 DEF Covered
  <1>12. HalvesNow(t, g, g, un, pf)
    <2>1. g[t] = 0  BY <1>1, <1>3, <1>4 DEF About
    <2>2. un + SumOver(UnsentHalves, pe) + SumFunctionOnSet(g, Tid) = 0  BY <1>2 DEF HalvesMeet
    <2>3. SumOver(UnsentHalves, pf) = SumOver(UnsentHalves, pe)  BY <1>5 DEF SameHalves
    <2> QED  BY ONLY <1>1, <2>1, <2>2, <2>3 DEF HalvesNow
  <1>13. (C \ {m}) \cup N = C \ {m}  BY <1>8
  <1>14. World(x, bl, vp, pf, st, bs, (C \ {m}) \cup N, idq, nid, fu, un, K, c, d, r, f, g)
    <2>1. Sends(pf, (C \ {m}) \cup N) /\ IdsAre(idq, nid, K, pf, (C \ {m}) \cup N, r, f)  BY <1>13
    <2> HIDE DEF u
    <2>2. OnlyAt(t, H, b, d, r, a, K, c, d, r, f) /\ t = TidOf(m)  OBVIOUS
    <2> HIDE DEF t
    <2>3. Handed(m, N, x, bk, vo, pe, st, as, C, idp, nid, fu, un, H, b, d, r, a, g,
                 bl, vp, pf, st, bs, idq, fu, un, K, c, d, r, f, g)
      BY ONLY World(x, bk, vo, pe, st, as, C, idp, nid, fu, un, H, b, d, r, a, g), m \in C, <1>7, <1>9, <1>10, <1>11, <1>12, <2>1, <2>2
              DEF Handed
    <2> QED  BY ONLY <2>3, WorldHanded
  <1> QED  BY <1>13, <1>14

\* Other requests are about other orders.
LEMMA OtherTids ==
    ASSUME NEW C, NEW x, CallsAre(C, x), NEW m \in C, NEW c \in C, c # m, TidOf(m) # 0
    PROVE  TidOf(c) # TidOf(m)
  <1>1. x[TidOf(m)].user = m.user  BY DEF CallsAre, CallIs, TidOf
  <1>2. TidOf(c) # 0 => x[TidOf(c)].user = c.user  BY DEF CallsAre, CallIs, TidOf
  <1>3. c.user # m.user  BY DEF CallsAre
  <1> QED  BY <1>1, <1>2, <1>3

\* An order of which nothing is left leaves the book, if it is in it.
Without(new, bk, t, p) ==
    \E i : i = FindOrder(bk, t, p) /\ new = IF i # 0 THEN RemoveAt(bk, i) ELSE bk

LEMMA OrderLeaves ==
    ASSUME NEW bk, NEW x, NEW H, NEW b, BookIs(bk, x, H, b), NEW vo, VolumesAre(vo, bk), NEW t, b[t] = 0,
           NEW new, Without(new, bk, t, x[t].price)
    PROVE  BookIs(new, x, H \ {t}, b) /\ VolumesAre(vo, new)
  <1>0. PICK i : i = FindOrder(bk, t, x[t].price) /\ new = IF i # 0 THEN RemoveAt(bk, i) ELSE bk  BY DEF Without
  <1>1. /\ i # 0 => i \in DOMAIN bk /\ bk[i].tid = t
        /\ t \in H => i # 0
    BY <1>0, FoundOrder
  <1>2. CASE i = 0  BY <1>0, <1>1, <1>2
  <1>3. CASE i # 0
    <2>1. BookIs(new, x, H \ {bk[i].tid}, b) /\ VolumesAre(vo, new)  BY <1>0, <1>1, <1>3, BookRemoved
    <2> QED  BY <1>1, <1>3, <2>1
  <1> QED  BY <1>2, <1>3

\* Its id is free again.
NoneLeft(pf, pe, t) ==
    /\ DOMAIN pf = DOMAIN pe
    /\ \A k \in DOMAIN pe : pf[k].status # "BALANCE_DONE" =>
           pe[k].status # "BALANCE_DONE" /\ pf[k].order.tid = pe[k].order.tid /\ pe[k].order.tid # t

LEMMA IdFreed ==
    ASSUME NEW idp, NEW nid, NEW H, NEW pe, NEW C, NEW r, NEW a, IdsAre(idp, nid, H, pe, C, r, a), NEW x, CallsAre(C, x),
           NEW m \in C, NEW t, t = TidOf(m), t # 0, NEW pf, NoneLeft(pf, pe, t),
           NEW f, f[t] = 0, r[t] = 0, \A s \in Tid \ {t} : f[s] = a[s]
    PROVE  IdsAre(idp \ {t}, nid, H \ {t}, pf, C \ {m}, r, f)
  <1>1. \A c \in C \ {m} : TidOf(c) # t  BY OtherTids
  <1> QED  BY <1>1 DEF IdsAre, NoneLeft

LEMMA SendsDropped ==
    ASSUME NEW pe, NEW C, Sends(pe, C), NEW m \in C, m.op # "BALANCE"
    PROVE  Sends(pe, C \ {m})
  BY DEF Sends

LEMMA SameItself ==
    ASSUME NEW pe, NEW x, NEW d, DealsAre(pe, x, d)
    PROVE  SameDeals(pe, pe)
  BY DEF DealsAre, SameDeals

LEMMA PostTransactionExact ==
    ASSUME Inv, NEW x, NEW H, NEW b, NEW d, NEW r, NEW a, NEW g, Exact(x, H, b, d, r, a, g),
           NEW i \in DOMAIN calls, PostTransaction(i)
    PROVE  ExactNow'
  <1>1. Running /\ World(x, orders, volumes, pending, stored, accounts, Requests, idpool, nextid, funds, unmatched, H, b, d, r, a, g)
    BY ExactIs
  <1>2. PICK m : m = calls[i]  OBVIOUS
  <1>3. PICK bs : bs = accounts'  OBVIOUS
  <1>4. /\ BookIs(orders, x, H, b) /\ VolumesAre(volumes, orders) /\ DealsAre(pending, x, d) /\ AccountsAre(accounts, x, a)
        /\ CallsAre(Requests, x) /\ Sends(pending, Requests) /\ IdsAre(idpool, nextid, H, pending, Requests, r, a)
    BY <1>1 DEF World
  <1>5. m \in Requests /\ Requests' = Requests \ {m}
    <2>1. Received(i)  BY DEF PostTransaction
    <2> QED  BY <1>2, <1>4, <2>1, RequestDone
  <1>6. m.op = "TRANSACTION" /\ m.res.retcode \in {"SUCCESS", "EXCEPTION"}  BY <1>2 DEF PostTransaction, Answered
  <1>7. About(m, Requests, x, pending, accounts, funds, b, d, r, a, g)  BY ONLY <1>1, <1>5, AboutUser
  <1>8. m.user \in User /\ TidOf(m) = 0 /\ ~Unserved(m)  BY <1>6, <1>7 DEF About, TidOf, Unserved
  <1>9. bs = [accounts EXCEPT ![m.user] = Informed(@, m.res)]
    BY <1>2, <1>3, <1>4, <1>8 DEF PostTransaction, AccountsAre
  <1>10. Refreshed(m.user, accounts, bs, funds, x, a, a)
    <2>1. Informed(accounts[m.user], m.res).cash = funds[m.user].cash /\ Informed(accounts[m.user], m.res).money = funds[m.user].money
      <3>1. CASE m.res.retcode = "SUCCESS"
        <4>1. Paid(m)  BY <1>6, <3>1 DEF Paid
        <4> QED  BY <1>7, <3>1, <4>1 DEF About, Informed
      <3>2. CASE m.res.retcode # "SUCCESS"
        <4>1. ~Paid(m)  BY <3>2 DEF Paid
        <4> QED  BY <1>7, <3>2, <4>1 DEF About, Informed
      <3> QED  BY <3>1, <3>2
    <2>2. Informed(accounts[m.user], m.res).orders = accounts[m.user].orders  BY DEF Informed
    <2> QED  BY <1>4, <1>8, <1>9, <2>1, <2>2 DEF Refreshed, AccountsAre
  <1>11. OnlyAt(TidOf(m), H, b, d, r, a, H, b, d, r, a)  BY DEF OnlyAt, Agree
  <1>12. Sends(pending, Requests \ {m})  BY ONLY <1>4, <1>5, <1>6, SendsDropped
  <1>13. IdsAre(idpool, nextid, H, pending, Requests \ {m}, r, a)  BY ONLY <1>4 DEF IdsAre
  <1>14. SameDeals(pending, pending)  BY ONLY <1>4, SameItself
  <1>15. World(x, orders, volumes, pending, stored, bs, Requests \ {m}, idpool, nextid, funds, unmatched, H, b, d, r, a, g)
    <2>1. TidOf(m) # 0 => Even(TidOf(m), b, d, r, a)  BY <1>8
    <2> QED  BY ONLY <1>1, <1>4, <1>5, <1>8, <1>10, <1>11, <1>12, <1>13, <1>14, <2>1, WorldReceived
  <1>16. /\ status' = status /\ online' = online /\ orders' = orders /\ volumes' = volumes
         /\ pending' = pending /\ idpool' = idpool /\ nextid' = nextid /\ funds' = funds /\ stored' = stored
         /\ unmatched' = unmatched /\ faults' = faults /\ crashes' = crashes
    BY DEF PostTransaction, market, pool, db, bounds
  <1>17. Exact(x, H, b, d, r, a, g)'  BY ONLY <1>1, <1>3, <1>5, <1>15, <1>16 DEF Exact, World, Running
  <1> QED  BY ONLY <1>17 DEF ExactNow

\* What is known when the answer to a cancel arrives.
CancelDone(m, t, u, x, pe, as, H, b, d, r, a) ==
    /\ t \in Tid \ {0} /\ t = TidOf(m) /\ t = m.arg.tid /\ u \in User /\ u = m.user /\ x[t].user = u /\ ~Unserved(m)
    /\ m.res.retcode = "SUCCESS" /\ Paid(m)
    /\ b[t] = 0 /\ d[t] = 0 /\ r[t] = 0 /\ a[t] > 0
    /\ as[u].orders = Shown(x, a, u)
    /\ {o \in as[u].orders : o.tid = t} = {OrderShown(x, a, t)}
    /\ NoneLeft(pe, pe, t)

LEMMA CancelAnswer ==
    ASSUME NEW x, NEW bk, NEW vo, NEW pe, NEW st, NEW as, NEW C, NEW idp, NEW nid, NEW fu, NEW un,
           NEW H, NEW b, NEW d, NEW r, NEW a, NEW g,
           World(x, bk, vo, pe, st, as, C, idp, nid, fu, un, H, b, d, r, a, g),
           NEW m \in C, m.op = "CANCEL", m.res.retcode \in {"SUCCESS", "NOTFOUND"}
    PROVE  CancelDone(m, m.arg.tid, m.user, x, pe, as, H, b, d, r, a)
  <1> DEFINE t == m.arg.tid
             u == m.user
  <1>1. DealsAre(pe, x, d) /\ AccountsAre(as, x, a) /\ CallsAre(C, x) /\ Sends(pe, C)  BY DEF World
  <1>2. About(m, C, x, pe, as, fu, b, d, r, a, g) /\ Settling(m, H, b, d, r, a)
    BY ONLY World(x, bk, vo, pe, st, as, C, idp, nid, fu, un, H, b, d, r, a, g), m \in C, AboutUser
  <1>3. t = TidOf(m) /\ u \in User /\ t \in Tid \ {0} /\ x[t].user = u /\ ~Unserved(m)
    BY <1>2 DEF About, CallIs, TidOf, Unserved
  <1>4. m.res # NoAnswer /\ m.res.retcode = "SUCCESS" /\ Paid(m)
    <2>1. m.res # NoAnswer  BY DEF NoAnswer
    <2> QED  BY <1>2, <2>1 DEF About, CallIs, Paid
  <1>5. b[t] = 0 /\ d[t] = 0 /\ r[t] = 0 /\ a[t] > 0  BY <1>2, <1>3, <1>4 DEF Settling
  <1>6. as[u].orders = Shown(x, a, u)  BY <1>1, <1>3 DEF AccountsAre
  <1>7. {o \in Shown(x, a, x[t].user) : o.tid = t} = {OrderShown(x, a, t)}  BY <1>3, <1>5, ShownOne DEF OrderShown
  <1>8. NoneLeft(pe, pe, t)
    <2> SUFFICES ASSUME NEW k \in DOMAIN pe, pe[k].status # "BALANCE_DONE", pe[k].order.tid = t PROVE FALSE
      BY DEF NoneLeft
    <2>1. pe[k].status \in Statuses
      <3>1. pe[k] \in Dls  BY <1>1 DEF DealsAre
      <3> QED  BY ONLY <3>1 DEF Dls, DealsOf, Statuses
    <2>2. CASE IsUnsent(pe[k])
      <3>1. \A j \in DOMAIN pe : IsUnsent(pe[j]) /\ pe[j].order.tid = t => d[t] > 0  BY <1>1, <1>3, LotsCounted
      <3> QED  BY <1>5, <2>2, <3>1
    <2>3. CASE pe[k].status = "BALANCE_WAIT"
      <3>1. PICK c \in C : c.op = "BALANCE" /\ c.arg.tid = t  BY <1>1, <2>3 DEF Sends
      <3>2. TidOf(c) = t /\ c # m  BY <3>1 DEF TidOf
      <3> QED  BY <1>1, <1>3, <3>2, OtherTids
    <2> QED  BY <2>1, <2>2, <2>3 DEF IsUnsent, Statuses
  <1> QED  BY <1>3, <1>4, <1>5, <1>6, <1>7, <1>8 DEF CancelDone

\* The order is gone and its id free.
LEMMA CancelReceived ==
    ASSUME NEW x, NEW bk, NEW vo, NEW pe, NEW st, NEW as, NEW C, NEW idp, NEW nid, NEW fu, NEW un,
           NEW H, NEW b, NEW d, NEW r, NEW a, NEW g,
           World(x, bk, vo, pe, st, as, C, idp, nid, fu, un, H, b, d, r, a, g),
           NEW m \in C, m.op = "CANCEL", NEW t, NEW u, CancelDone(m, t, u, x, pe, as, H, b, d, r, a),
           NEW bl, Without(bl, bk, t, x[t].price),
           NEW f, f[t] = 0, \A s \in Tid \ {t} : f[s] = a[s], NEW bs, Refreshed(u, as, bs, fu, x, a, f)
    PROVE  World(x, bl, vo, pe, st, bs, C \ {m}, idp \ {t}, nid, fu, un, H \ {t}, b, d, r, f, g)
  <1>1. /\ t \in Tid \ {0} /\ t = TidOf(m) /\ u = m.user /\ ~Unserved(m)
        /\ b[t] = 0 /\ d[t] = 0 /\ r[t] = 0 /\ NoneLeft(pe, pe, t)
    BY DEF CancelDone
  <1>2. /\ BookIs(bk, x, H, b) /\ VolumesAre(vo, bk) /\ DealsAre(pe, x, d) /\ CallsAre(C, x) /\ Sends(pe, C)
        /\ IdsAre(idp, nid, H, pe, C, r, a)
    BY DEF World
  <1>4. f[t] = 0 /\ \A s \in Tid \ {t} : f[s] = a[s]  OBVIOUS
  <1>5. BookIs(bl, x, H \ {t}, b) /\ VolumesAre(vo, bl)
    BY ONLY <1>1, <1>2, Without(bl, bk, t, x[t].price), OrderLeaves
  <1>6. IdsAre(idp \ {t}, nid, H \ {t}, pe, C \ {m}, r, f)
    <2>1. t # 0  BY <1>1
    <2> QED  BY ONLY <1>1, <1>2, <1>4, <2>1, m \in C, IdFreed
  <1>7. Sends(pe, C \ {m}) /\ SameDeals(pe, pe)
    <2>1. m.op # "BALANCE"  OBVIOUS
    <2> QED  BY ONLY <1>2, <2>1, m \in C, SendsDropped, SameItself
  <1>8. OnlyAt(TidOf(m), H, b, d, r, a, H \ {t}, b, d, r, f)  BY <1>1, <1>4 DEF OnlyAt, Agree
  <1>9. TidOf(m) # 0 => Even(TidOf(m), b, d, r, f)  BY <1>1, <1>4 DEF Even
  <1>10. Refreshed(m.user, as, bs, fu, x, a, f)  BY <1>1
  <1> QED
    BY ONLY World(x, bk, vo, pe, st, as, C, idp, nid, fu, un, H, b, d, r, a, g), m \in C, <1>1, <1>5, <1>6, <1>7, <1>8, <1>9, <1>10,
            WorldReceived

LEMMA PostCancelExact ==
    ASSUME Inv, NEW x, NEW H, NEW b, NEW d, NEW r, NEW a, NEW g, Exact(x, H, b, d, r, a, g),
           NEW i \in DOMAIN calls, PostCancel(i)
    PROVE  ExactNow'
  <1>1. Running /\ World(x, orders, volumes, pending, stored, accounts, Requests, idpool, nextid, funds, unmatched, H, b, d, r, a, g)
    BY ExactIs
  <1>2. PICK m : m = calls[i]  OBVIOUS
  <1>3. PICK t : t = m.arg.tid  OBVIOUS
  <1>4. PICK u : u = m.user  OBVIOUS
  <1>5. PICK f : f = [a EXCEPT ![t] = 0]  OBVIOUS
  <1>6. PICK bs : bs = accounts'  OBVIOUS
  <1>7. PICK bl : bl = orders'  OBVIOUS
  <1>8. AccountsAre(accounts, x, a) /\ CallsAre(Requests, x)  BY <1>1 DEF World
  <1>9. m \in Requests /\ Requests' = Requests \ {m}
    <2>1. Received(i)  BY DEF PostCancel
    <2> QED  BY <1>2, <1>8, <2>1, RequestDone
  <1>10. m.op = "CANCEL" /\ m.res.retcode \in {"SUCCESS", "NOTFOUND"}  BY <1>2 DEF PostCancel, Answered
  <1>11. CancelDone(m, t, u, x, pending, accounts, H, b, d, r, a)  BY ONLY <1>1, <1>3, <1>4, <1>9, <1>10, CancelAnswer
  <1>12. /\ t \in Tid \ {0} /\ u \in User /\ x[t].user = u /\ Paid(m) /\ accounts[u].orders = Shown(x, a, u)
         /\ {o \in accounts[u].orders : o.tid = t} = {OrderShown(x, a, t)}
    BY <1>11 DEF CancelDone
  <1>13. PICK mine : mine = {o \in accounts[u].orders : o.tid = t}  OBVIOUS
  <1>14. {o.price : o \in mine} = {x[t].price} /\ mine # {}
    <2>1. PICK y : y = OrderShown(x, a, t)  OBVIOUS
    <2>2. mine = {y} /\ y.price = x[t].price  BY ONLY <1>12, <1>13, <2>1 DEF OrderShown
    <2> QED  BY ONLY <2>2
  <1>15. PICK j : j = FindOrder(orders, t, x[t].price)  OBVIOUS
  <1>16. u \in DOMAIN accounts  BY <1>8, <1>12 DEF AccountsAre
  <1>17. /\ bs = [accounts EXCEPT ![u] = [Refunded(accounts[u], m.res) EXCEPT !.locked = FALSE, !.orders = @ \ mine]]
         /\ bl = IF j # 0 THEN RemoveAt(orders, j) ELSE orders
         /\ idpool' = idpool \ {t}
    BY <1>2, <1>3, <1>4, <1>6, <1>7, <1>13, <1>14, <1>15, <1>16 DEF PostCancel
  <1>18. bs[u].cash = m.res.cash /\ bs[u].money = m.res.money /\ bs[u].orders = accounts[u].orders \ mine
    <2>1. IsAccount(accounts[u])  BY <1>16 DEF Inv, Sound, AccountsSound
    <2> QED  BY <1>16, <1>17, <2>1 DEF IsAccount, Refunded
  <1>19. m.res.cash = funds[u].cash /\ m.res.money = funds[u].money
    <2>1. About(m, Requests, x, pending, accounts, funds, b, d, r, a, g)  BY ONLY <1>1, <1>9, AboutUser
    <2> QED  BY <1>4, <1>12, <2>1 DEF About
  <1>20. a \in [Tid -> Nat] /\ DOMAIN accounts = User /\ a[0] = 0  BY <1>8 DEF AccountsAre
  <1>21. f \in [Tid -> Nat] /\ f[0] = 0 /\ f[t] = 0 /\ \A s \in Tid \ {t} : f[s] = a[s]  BY <1>5, <1>12, <1>20
  <1>22. bs[u].orders = Shown(x, f, u)
    <2>1. t \in Tid /\ f[t] = 0  BY <1>12, <1>21
    <2>2. \A s \in Tid \ {t} : f[s] = a[s]  BY <1>21
    <2>3. Shown(x, f, u) = Shown(x, a, u) \ {o \in Shown(x, a, u) : o.tid = t}  BY ONLY <2>1, <2>2, ShownLess
    <2> QED  BY ONLY <1>12, <1>13, <1>18, <2>3
  <1>23. Refreshed(u, accounts, bs, funds, x, a, f)
    <2>1. DOMAIN bs = User /\ \A v \in User \ {u} : bs[v] = accounts[v]  BY ONLY <1>17, <1>20
    <2>2. \A s \in Tid : x[s].user # u => f[s] = a[s]  BY <1>12, <1>21
    <2> QED  BY <1>12, <1>18, <1>19, <1>21, <1>22, <2>1, <2>2 DEF Refreshed
  <1>24. World(x, bl, volumes, pending, stored, bs, Requests \ {m}, idpool \ {t}, nextid, funds, unmatched, H \ {t}, b, d, r, f, g)
    <2>1. Without(bl, orders, t, x[t].price)  BY ONLY <1>15, <1>17 DEF Without
    <2>2. f[t] = 0  BY <1>21
    <2>3. \A s \in Tid \ {t} : f[s] = a[s]  BY <1>21
    <2> QED  BY ONLY <1>1, <1>9, <1>10, <1>11, <2>1, <2>2, <2>3, <1>23, CancelReceived
  <1>25. /\ status' = status /\ online' = online /\ volumes' = volumes
         /\ pending' = pending /\ nextid' = nextid /\ funds' = funds /\ stored' = stored
         /\ unmatched' = unmatched /\ faults' = faults /\ crashes' = crashes
    BY DEF PostCancel, db, bounds
  <1>26. PICK K : K = H \ {t}  OBVIOUS
  <1>27. Exact(x, K, b, d, r, f, g)'
    BY ONLY <1>1, <1>6, <1>7, <1>9, <1>17, <1>24, <1>25, <1>26 DEF Exact, World, Running
  <1> QED  BY ONLY <1>27 DEF ExactNow

\* The deals of an order that is stored may be settled.
StoredDeals(pf, pe, t) ==
    pf = [k \in DOMAIN pe |->
             IF pe[k].dealtid = t /\ pe[k].status = "COMMISSION_WAIT"
             THEN [pe[k] EXCEPT !.status = "COMMISSION_DONE"] ELSE pe[k]]

LEMMA DealsStored ==
    ASSUME NEW pe, NEW x, NEW d, DealsAre(pe, x, d), NEW t, NEW pf, StoredDeals(pf, pe, t)
    PROVE  /\ SameDeals(pf, pe) /\ DOMAIN pf = DOMAIN pe
           /\ \A k \in DOMAIN pe : /\ pf[k].status = "BALANCE_WAIT" <=> pe[k].status = "BALANCE_WAIT"
                                   /\ pf[k].order = pe[k].order
  <1>1. pe \in Seq(Dls) /\ DOMAIN pe = 1 .. Len(pe) /\ Len(pe) \in Nat  BY DEF DealsAre
  <1>2. ASSUME NEW k \in DOMAIN pe
        PROVE  /\ pf[k] \in Dls /\ pf[k].order = pe[k].order /\ pf[k].dealtid = pe[k].dealtid
               /\ pf[k].ack_money = pe[k].ack_money
               /\ pf[k].status = IF pe[k].dealtid = t /\ pe[k].status = "COMMISSION_WAIT" THEN "COMMISSION_DONE"
                                 ELSE pe[k].status
    <2>1. pe[k] \in Dls  BY <1>1
    <2>2. pf[k] = IF pe[k].dealtid = t /\ pe[k].status = "COMMISSION_WAIT"
                  THEN [pe[k] EXCEPT !.status = "COMMISSION_DONE"] ELSE pe[k]
      BY DEF StoredDeals
    <2> QED  BY ONLY <2>1, <2>2 DEF Dls, DealsOf
  <1>3. DOMAIN pf = DOMAIN pe /\ pf \in Seq(Dls) /\ Len(pf) = Len(pe)
    <2>1. pf = [k \in DOMAIN pe |-> pf[k]] /\ DOMAIN pf = DOMAIN pe  BY DEF StoredDeals
    <2>2. pf = [k \in 1 .. Len(pe) |-> pf[k]] /\ \A k \in 1 .. Len(pe) : pf[k] \in Dls  BY <1>1, <1>2, <2>1
    <2>3. pf \in [1 .. Len(pe) -> Dls]  BY <2>2
    <2> QED  BY <1>1, <2>1, <2>3
  <1>4. \A k \in DOMAIN pe : IsUnsent(pf[k]) <=> IsUnsent(pe[k])  BY <1>2 DEF IsUnsent
  <1> QED  BY <1>1, <1>2, <1>3, <1>4 DEF SameDeals

LEMMA SendsKept ==
    ASSUME NEW pe, NEW pf, DOMAIN pf = DOMAIN pe, NEW C, Sends(pe, C),
           \A k \in DOMAIN pe : /\ pf[k].status = "BALANCE_WAIT" <=> pe[k].status = "BALANCE_WAIT"
                                /\ pf[k].order = pe[k].order
    PROVE  Sends(pf, C)
  BY DEF Sends

\* What is known when a commission succeeded.
CommissionDone(m, t, u, o, x, as, H, b, d, r, a) ==
    /\ Brought(m, x, t, u) /\ o = m.arg.order /\ ~Unserved(m) /\ ~Paid(m)
    /\ m.arg.ack_volume \in 0 .. o.volume
    /\ t \notin H /\ d[t] = m.arg.ack_volume /\ a[t] = 0 /\ r[t] = o.volume /\ b[t] = 0
    /\ as[u].orders = Shown(x, a, u)

LEMMA CommissionAnswer ==
    ASSUME NEW x, NEW bk, NEW vo, NEW pe, NEW st, NEW as, NEW C, NEW idp, NEW nid, NEW fu, NEW un,
           NEW H, NEW b, NEW d, NEW r, NEW a, NEW g,
           World(x, bk, vo, pe, st, as, C, idp, nid, fu, un, H, b, d, r, a, g),
           NEW m \in C, m.op = "COMMISSION", m.res.retcode = "SUCCESS"
    PROVE  CommissionDone(m, TidOf(m), m.user, m.arg.order, x, as, H, b, d, r, a)
  <1> DEFINE t == TidOf(m)
             o == m.arg.order
  <1>1. BookIs(bk, x, H, b) /\ AccountsAre(as, x, a)  BY DEF World
  <1>2. About(m, C, x, pe, as, fu, b, d, r, a, g) /\ Settling(m, H, b, d, r, a)
    BY ONLY World(x, bk, vo, pe, st, as, C, idp, nid, fu, un, H, b, d, r, a, g), m \in C, AboutUser
  <1>3. CallIs(m, x)  BY <1>2 DEF About
  <1>4. Brought(m, x, t, m.user)  BY ONLY <1>3, m.op = "COMMISSION", CommissionBrings
  <1>5. t \in Tid /\ m.user \in User  BY <1>4 DEF Brought
  <1>6. m.arg.ack_volume \in 0 .. o.volume  BY <1>3 DEF CallIs
  <1>7. t \notin H /\ d[t] = m.arg.ack_volume /\ a[t] = 0 /\ r[t] = o.volume  BY <1>2 DEF Settling
  <1>8. b[t] = 0  BY <1>1, <1>5, <1>7 DEF BookIs
  <1>9. as[m.user].orders = Shown(x, a, m.user)  BY <1>1, <1>5 DEF AccountsAre
  <1>10. ~Unserved(m) /\ ~Paid(m)  BY DEF Unserved, Paid
  <1> QED  BY <1>4, <1>6, <1>7, <1>8, <1>9, <1>10 DEF CommissionDone

\* What is not matched of the order joins the book.
JoinsBook(bl, vp, bk, vo, o, rest) ==
    IF rest = 0 THEN bl = bk /\ vp = vo
    ELSE bl = Insert(bk, [o EXCEPT !.volume = rest]) /\ vp = AppendVolume(vo, o.price, rest)

LEMMA RestJoins ==
    ASSUME NEW bk, NEW x, NEW H, NEW b, BookIs(bk, x, H, b), NEW vo, VolumesAre(vo, bk),
           NEW o \in Ord, o.tid \notin H, o.tid # 0, Of(x, o), NEW rest \in Nat, b[o.tid] = 0,
           NEW bl, NEW vp, JoinsBook(bl, vp, bk, vo, o, rest)
    PROVE  \E K : /\ BookIs(bl, x, K, [b EXCEPT ![o.tid] = rest]) /\ VolumesAre(vp, bl)
                  /\ H \subseteq K /\ K \subseteq H \cup {o.tid}
  <1>1. b \in [Tid -> Nat] /\ o.tid \in Tid  BY DEF BookIs, Ord, OrdersOf
  <1>2. CASE rest = 0
    <2>1. [b EXCEPT ![o.tid] = rest] = b  BY <1>1, <1>2
    <2>2. bl = bk /\ vp = vo  BY <1>2 DEF JoinsBook
    <2> QED  BY <2>1, <2>2
  <1>3. CASE rest # 0
    <2>1. PICK n : n = [o EXCEPT !.volume = rest]  OBVIOUS
    <2>2. n \in Ord /\ n.tid = o.tid /\ n.user = o.user /\ n.price = o.price /\ n.volume = rest
      BY ONLY <2>1, o \in Ord, rest \in Nat DEF Ord, OrdersOf
    <2>3. bl = Insert(bk, n) /\ vp = AppendVolume(vo, n.price, n.volume)  BY <1>3, <2>1, <2>2 DEF JoinsBook
    <2>4. Of(x, n)  BY <2>2 DEF Of
    <2>5. PICK c : c = [b EXCEPT ![n.tid] = n.volume]  OBVIOUS
    <2>6. BookIs(bl, x, H \cup {n.tid}, c) /\ VolumesAre(AppendVolume(vo, n.price, n.volume), bl)
      <3>1. n.tid \notin H /\ n.tid # 0 /\ n.volume \in Nat  BY <2>2
      <3>2. n \in Ord /\ bl = Insert(bk, n)  BY <2>2, <2>3
      <3> QED  BY ONLY BookIs(bk, x, H, b), VolumesAre(vo, bk), <2>4, <2>5, <3>1, <3>2, BookInserted
    <2> QED  BY <2>2, <2>3, <2>5, <2>6
  <1> QED  BY <1>2, <1>3

Enters(x, bk, vo, pe, st, as, C, idp, nid, fu, un, d, r, a, g) ==
    \E H, b : World(x, bk, vo, pe, st, as, C, idp, nid, fu, un, H, b, d, r, a, g)

LEMMA CommissionReceived ==
    ASSUME NEW x, NEW bk, NEW vo, NEW pe, NEW st, NEW as, NEW C, NEW idp, NEW nid, NEW fu, NEW un,
           NEW H, NEW b, NEW d, NEW r, NEW a, NEW g,
           World(x, bk, vo, pe, st, as, C, idp, nid, fu, un, H, b, d, r, a, g),
           NEW m \in C, m.op = "COMMISSION", NEW t, NEW u, NEW o, CommissionDone(m, t, u, o, x, as, H, b, d, r, a),
           NEW rest, rest = o.volume - m.arg.ack_volume,
           NEW bl, NEW vp, JoinsBook(bl, vp, bk, vo, o, rest), NEW pf, StoredDeals(pf, pe, t),
           NEW f, f[t] = o.volume, \A s \in Tid \ {t} : f[s] = a[s], NEW bs, Refreshed(u, as, bs, fu, x, a, f)
    PROVE  Enters(x, bl, vp, pf, st, bs, C \ {m}, idp, nid, fu, un, d, r, f, g)
  <1>1. /\ t \in Tid \ {0} /\ t = TidOf(m) /\ u = m.user /\ ~Unserved(m) /\ o \in Ord /\ o.tid = t /\ Of(x, o)
        /\ o.volume \in Nat /\ o.volume > 0
        /\ m.arg.ack_volume \in 0 .. o.volume
        /\ t \notin H /\ d[t] = m.arg.ack_volume /\ a[t] = 0 /\ r[t] = o.volume /\ b[t] = 0
    BY DEF CommissionDone, Brought, Of
  <1>2. /\ BookIs(bk, x, H, b) /\ VolumesAre(vo, bk) /\ DealsAre(pe, x, d) /\ CallsAre(C, x) /\ Sends(pe, C)
        /\ IdsAre(idp, nid, H, pe, C, r, a)
    BY DEF World
  <1>3. rest \in Nat  BY <1>1
  <1>4. PICK c : c = [b EXCEPT ![t] = rest]  OBVIOUS
  <1>5. PICK K : BookIs(bl, x, K, c) /\ VolumesAre(vp, bl) /\ H \subseteq K /\ K \subseteq H \cup {t}
    <2>1. o \in Ord /\ o.tid \notin H /\ o.tid # 0 /\ b[o.tid] = 0  BY <1>1
    <2>2. \E K : /\ BookIs(bl, x, K, [b EXCEPT ![o.tid] = rest]) /\ VolumesAre(vp, bl)
                 /\ H \subseteq K /\ K \subseteq H \cup {o.tid}
      BY ONLY <1>1, <1>2, <1>3, <2>1, JoinsBook(bl, vp, bk, vo, o, rest), RestJoins
    <2> QED  BY ONLY <1>1, <1>4, <2>2
  <1>6. b \in [Tid -> Nat]  BY <1>2 DEF BookIs
  <1>7. c[t] = rest /\ \A s \in Tid \ {t} : c[s] = b[s]  BY <1>1, <1>4, <1>6
  <1>8. /\ SameDeals(pf, pe) /\ DOMAIN pf = DOMAIN pe
        /\ \A k \in DOMAIN pe : /\ pf[k].status = "BALANCE_WAIT" <=> pe[k].status = "BALANCE_WAIT"
                                /\ pf[k].order = pe[k].order
    BY <1>2, DealsStored
  <1>9. Sends(pf, C \ {m})
    <2>1. Sends(pf, C)  BY ONLY <1>2, <1>8, SendsKept
    <2> QED  BY <2>1, SendsDropped
  <1>10. IdsAre(idp, nid, K, pf, C \ {m}, r, f)
    <2>1. t \in idp  BY <1>1, <1>2 DEF IdsAre
    <2>2. \A k \in DOMAIN pf : pf[k].status # "BALANCE_DONE" => pe[k].status # "BALANCE_DONE" /\ pf[k].order.tid = pe[k].order.tid
      <3>1. DOMAIN pe = 1 .. Len(pe)  BY <1>2 DEF DealsAre
      <3> QED  BY <1>8, <3>1 DEF SameDeals
    <2> QED  BY <1>2, <1>5, <1>8, <2>1, <2>2 DEF IdsAre
  <1>11. OnlyAt(TidOf(m), H, b, d, r, a, K, c, d, r, f)  BY <1>1, <1>5, <1>7 DEF OnlyAt, Agree
  <1>12. TidOf(m) # 0 => Even(TidOf(m), c, d, r, f)  BY <1>1, <1>7 DEF Even
  <1>13. Refreshed(m.user, as, bs, fu, x, a, f)  BY <1>1
  <1>14. World(x, bl, vp, pf, st, bs, C \ {m}, idp, nid, fu, un, K, c, d, r, f, g)
    BY ONLY World(x, bk, vo, pe, st, as, C, idp, nid, fu, un, H, b, d, r, a, g), m \in C, <1>1, <1>5, <1>8, <1>9, <1>10, <1>11,
            <1>12, <1>13, WorldReceived
  <1> QED  BY ONLY <1>14 DEF Enters

LEMMA OnCommissionExact ==
    ASSUME Inv, NEW x, NEW H, NEW b, NEW d, NEW r, NEW a, NEW g, Exact(x, H, b, d, r, a, g),
           NEW i \in DOMAIN calls, OnCommission(i)
    PROVE  ExactNow'
  <1>1. Running /\ World(x, orders, volumes, pending, stored, accounts, Requests, idpool, nextid, funds, unmatched, H, b, d, r, a, g)
    BY ExactIs
  <1>2. PICK m : m = calls[i]  OBVIOUS
  <1>3. PICK t : t = TidOf(m)  OBVIOUS
  <1>4. PICK u : u = m.user  OBVIOUS
  <1>5. PICK o : o = m.arg.order  OBVIOUS
  <1>6. PICK f : f = [a EXCEPT ![t] = o.volume]  OBVIOUS
  <1>7. PICK bs : bs = accounts'  OBVIOUS
  <1>8. PICK bl : bl = orders'  OBVIOUS
  <1>9. PICK vp : vp = volumes'  OBVIOUS
  <1>10. PICK pf : pf = pending'  OBVIOUS
  <1>11. PICK rest : rest = o.volume - m.arg.ack_volume  OBVIOUS
  <1>12. AccountsAre(accounts, x, a) /\ CallsAre(Requests, x)  BY <1>1 DEF World
  <1>13. m \in Requests /\ Requests' = Requests \ {m}
    <2>1. Received(i)  BY DEF OnCommission
    <2> QED  BY <1>2, <1>12, <2>1, RequestDone
  <1>14. m.op = "COMMISSION" /\ m.res.retcode = "SUCCESS"  BY <1>2 DEF OnCommission, Answered
  <1>15. CommissionDone(m, t, u, o, x, accounts, H, b, d, r, a)
    BY ONLY <1>1, <1>3, <1>4, <1>5, <1>13, <1>14, CommissionAnswer
  <1>16. /\ t \in Tid \ {0} /\ u \in User /\ o.tid = t /\ o.user = u /\ o.price = x[t].price /\ x[t].user = u
         /\ o.volume \in Nat /\ o.volume > 0 /\ a[t] = 0 /\ accounts[u].orders = Shown(x, a, u)
         /\ ~Paid(m)
    BY <1>15 DEF CommissionDone, Brought
  <1>17. u \in DOMAIN accounts /\ IsAccount(accounts[u]) /\ DOMAIN accounts = User
    BY <1>12, <1>16 DEF AccountsAre, Inv, Sound, AccountsSound
  <1>18. AccountOf(u) = accounts[u]  BY <1>17 DEF AccountOf
  <1>19. PICK y : y = [tid |-> t, price |-> x[t].price, volume |-> o.volume]  OBVIOUS
  <1>20. PICK own : own = [accounts[u] EXCEPT !.locked = FALSE, !.orders = @ \cup {y}]  OBVIOUS
  <1>21. bs = Put(accounts, u, own)  BY <1>2, <1>5, <1>7, <1>16, <1>18, <1>19, <1>20 DEF OnCommission
  <1>22. own.cash = accounts[u].cash /\ own.money = accounts[u].money /\ own.orders = accounts[u].orders \cup {y}
    BY ONLY <1>17, <1>20 DEF IsAccount
  <1>23. DOMAIN bs = User /\ bs[u] = own /\ \A v \in User \ {u} : bs[v] = accounts[v]
    BY ONLY <1>16, <1>17, <1>21 DEF Put
  <1>24. JoinsBook(bl, vp, orders, volumes, o, rest) /\ StoredDeals(pf, pending, t)
    BY <1>2, <1>5, <1>8, <1>9, <1>10, <1>11, <1>16 DEF OnCommission, Unmatched, Confirmed, JoinsBook, StoredDeals
  <1>25. a \in [Tid -> Nat] /\ a[0] = 0  BY <1>12 DEF AccountsAre
  <1>26. f \in [Tid -> Nat] /\ f[0] = 0 /\ f[t] = o.volume /\ \A s \in Tid \ {t} : f[s] = a[s]
    BY ONLY <1>6, <1>16, <1>25
  <1>27. bs[u].orders = Shown(x, f, u)
    <2>1. t \in Tid /\ a[t] = 0 /\ o.volume \in Nat /\ o.volume > 0  BY <1>16
    <2>2. f[t] = o.volume  BY <1>26
    <2>3. \A s \in Tid \ {t} : f[s] = a[s]  BY <1>26
    <2>4. Shown(x, f, x[t].user) = Shown(x, a, x[t].user) \cup {[tid |-> t, price |-> x[t].price, volume |-> o.volume]}
      BY ONLY <2>1, <2>2, <2>3, ShownMore
    <2> QED  BY ONLY <1>16, <1>19, <1>22, <1>23, <2>4
  <1>28. bs[u].cash = funds[u].cash /\ bs[u].money = funds[u].money
    <2>1. About(m, Requests, x, pending, accounts, funds, b, d, r, a, g)  BY ONLY <1>1, <1>13, AboutUser
    <2> QED  BY <1>4, <1>16, <1>22, <1>23, <2>1 DEF About
  <1>29. Refreshed(u, accounts, bs, funds, x, a, f)
    <2>1. \A s \in Tid : x[s].user # u => f[s] = a[s]  BY <1>16, <1>26
    <2> QED  BY <1>16, <1>23, <1>26, <1>27, <1>28, <2>1 DEF Refreshed
  <1>30. PICK K, c : World(x, bl, vp, pf, stored, bs, Requests \ {m}, idpool, nextid, funds, unmatched, K, c, d, r, f, g)
    <2>1. f[t] = o.volume  BY <1>26
    <2>2. \A s \in Tid \ {t} : f[s] = a[s]  BY <1>26
    <2>3. Enters(x, bl, vp, pf, stored, bs, Requests \ {m}, idpool, nextid, funds, unmatched, d, r, f, g)
      BY ONLY <1>1, <1>11, <1>13, <1>14, <1>15, <1>24, <1>29, <2>1, <2>2, CommissionReceived
    <2> QED  BY ONLY <2>3 DEF Enters
  <1>31. /\ status' = status /\ online' = online /\ idpool' = idpool
         /\ nextid' = nextid /\ funds' = funds /\ stored' = stored
         /\ unmatched' = unmatched /\ faults' = faults /\ crashes' = crashes
    BY DEF OnCommission, pool, db, bounds
  <1>32. Exact(x, K, c, d, r, f, g)'
    BY ONLY <1>1, <1>7, <1>8, <1>9, <1>10, <1>13, <1>30, <1>31 DEF Exact, World, Running
  <1> QED  BY ONLY <1>32 DEF ExactNow

\* Where the deal about an order is that is on its way to the database.
PlaceSent(pe, t) == SelectInSeq(pe, LAMBDA d : d.order.tid = t /\ d.status = "BALANCE_WAIT")

LEMMA SentFound ==
    ASSUME NEW pe \in Seq(Dls), NEW t, NEW k, k = PlaceSent(pe, t),
           \E j \in DOMAIN pe : pe[j].order.tid = t /\ pe[j].status = "BALANCE_WAIT"
    PROVE  k \in DOMAIN pe /\ k # 0 /\ pe[k].order.tid = t /\ pe[k].status = "BALANCE_WAIT"
  <1> DEFINE I == {j \in 1 .. Len(pe) : pe[j].order.tid = t /\ pe[j].status = "BALANCE_WAIT"}
  <1>1. k = IF I # {} THEN Min(I) ELSE 0  BY DEF PlaceSent, SelectInSeq
  <1>2. DOMAIN pe = 1 .. Len(pe) /\ Len(pe) \in Nat  OBVIOUS
  <1>3. I # {}  BY <1>2
  <1>4. Min(I) \in I
    <2>1. I \in SUBSET Nat  BY <1>2
    <2> HIDE DEF I
    <2> QED  BY ONLY <1>3, <2>1, MinOfSome
  <1>5. k \in I  BY <1>1, <1>3, <1>4
  <1> QED  BY <1>2, <1>5

\* What is known when a half of a deal is settled.
HalfDone(m, t, u, v, k, x, pe, as, b, d, r, a) ==
    /\ t \in Tid \ {0} /\ t = TidOf(m) /\ t = m.arg.tid /\ u \in User /\ u = m.user /\ x[t].user = u /\ ~Unserved(m) /\ Paid(m)
    /\ v = m.arg.ack_volume /\ v \in Int /\ r[t] = b[t] + d[t] /\ a[t] = r[t] + v /\ a[t] > 0
    /\ r[t] \in Nat /\ b[t] \in Nat /\ d[t] \in Nat /\ a[t] - v = r[t]
    /\ as[u].orders = Shown(x, a, u)
    /\ {o \in as[u].orders : o.tid = t} = {OrderShown(x, a, t)}
    /\ k \in DOMAIN pe /\ k # 0 /\ pe[k].order.tid = t /\ pe[k].status = "BALANCE_WAIT" /\ pe[k].order.price = x[t].price

LEMMA BalanceAnswer ==
    ASSUME NEW x, NEW bk, NEW vo, NEW pe, NEW st, NEW as, NEW C, NEW idp, NEW nid, NEW fu, NEW un,
           NEW H, NEW b, NEW d, NEW r, NEW a, NEW g,
           World(x, bk, vo, pe, st, as, C, idp, nid, fu, un, H, b, d, r, a, g),
           NEW m \in C, m.op = "BALANCE", m.res.retcode = "SUCCESS"
    PROVE  HalfDone(m, m.arg.tid, m.user, m.arg.ack_volume, PlaceSent(pe, m.arg.tid), x, pe, as, b, d, r, a)
  <1> DEFINE t == m.arg.tid
             u == m.user
             v == m.arg.ack_volume
  <1>1. DealsAre(pe, x, d) /\ AccountsAre(as, x, a) /\ CallsAre(C, x) /\ Sends(pe, C)  BY DEF World
  <1>2. About(m, C, x, pe, as, fu, b, d, r, a, g) /\ Settling(m, H, b, d, r, a)
    BY ONLY World(x, bk, vo, pe, st, as, C, idp, nid, fu, un, H, b, d, r, a, g), m \in C, AboutUser
  <1>3. b \in [Tid -> Nat] /\ r \in [Tid -> Nat] /\ pe \in Seq(Dls)
    <2>1. Typed(x, bk, pe, as, fu, un, H, b, d, r, a, g)
      BY ONLY World(x, bk, vo, pe, st, as, C, idp, nid, fu, un, H, b, d, r, a, g), WorldTypes
    <2> QED  BY ONLY <2>1 DEF Typed
  <1>4. m.res # NoAnswer  BY DEF NoAnswer
  <1>5. t = TidOf(m) /\ u \in User /\ t \in Tid \ {0} /\ x[t].user = u /\ ~Unserved(m) /\ Paid(m)
    BY <1>2, <1>4 DEF About, CallIs, TidOf, Unserved, Paid
  <1>6. v \in Int /\ v > 0  BY <1>2 DEF About, CallIs, FairPay
  <1>7. d[t] \in Nat  BY <1>1, <1>5, LotsCounted
  <1>8. b[t] \in Nat /\ r[t] \in Nat  BY <1>3, <1>5
  <1>9. a[t] = b[t] + d[t] + v /\ r[t] = b[t] + d[t]  BY <1>2, <1>4, <1>5 DEF Settling
  <1>10. a[t] = r[t] + v /\ a[t] > 0 /\ a[t] - v = r[t]  BY ONLY <1>6, <1>7, <1>8, <1>9
  <1>11. as[u].orders = Shown(x, a, u)  BY <1>1, <1>5 DEF AccountsAre
  <1>12. {o \in Shown(x, a, x[t].user) : o.tid = t} = {OrderShown(x, a, t)}
    <2>1. t \in Tid /\ a[t] > 0  BY <1>5, <1>10
    <2> HIDE DEF t
    <2> QED  BY ONLY <2>1, ShownOne DEF OrderShown
  <1>13. PICK k : k = PlaceSent(pe, t)  OBVIOUS
  <1>14. k \in DOMAIN pe /\ k # 0 /\ pe[k].order.tid = t /\ pe[k].status = "BALANCE_WAIT"
    <2>1. \E j \in DOMAIN pe : pe[j].order.tid = t /\ pe[j].status = "BALANCE_WAIT"  BY <1>1 DEF Sends
    <2> QED  BY ONLY <1>3, <1>13, <2>1, SentFound
  <1>15. pe[k].order.price = x[t].price
    <2>1. Of(x, pe[k].order)  BY <1>1, <1>14 DEF DealsAre, SoundDeal
    <2>2. x[t] = [user |-> pe[k].order.user, price |-> pe[k].order.price]  BY ONLY <1>14, <2>1 DEF Of
    <2> QED  BY ONLY <2>2
  <1>16. {o \in as[u].orders : o.tid = t} = {OrderShown(x, a, t)}  BY <1>5, <1>11, <1>12
  <1> HIDE DEF t, u, v
  <1>17. HalfDone(m, t, u, v, k, x, pe, as, b, d, r, a)
    BY <1>5, <1>6, <1>7, <1>8, <1>9, <1>10, <1>11, <1>14, <1>15, <1>16 DEF HalfDone, t, u, v
  <1> QED  BY <1>13, <1>17 DEF t, u, v

\* The deal is settled.
DealDoneAt(pf, pe, k) == pf = [pe EXCEPT ![k].status = "BALANCE_DONE"]

NowSettled(pf, pe, C, m, k) ==
    /\ SameDeals(pf, pe) /\ Sends(pf, C \ {m}) /\ DOMAIN pf = DOMAIN pe
    /\ \A j \in DOMAIN pe : pf[j].status # "BALANCE_DONE" => pf[j] = pe[j] /\ j # k

LEMMA DealSettled ==
    ASSUME NEW pe, NEW x, NEW d, DealsAre(pe, x, d), NEW C, CallsAre(C, x), Sends(pe, C),
           NEW m \in C, NEW t, t = TidOf(m), t # 0, m.op = "BALANCE",
           NEW k \in DOMAIN pe, pe[k].order.tid = t, pe[k].status = "BALANCE_WAIT",
           NEW pf, DealDoneAt(pf, pe, k)
    PROVE  NowSettled(pf, pe, C, m, k)
  <1>1. pe \in Seq(Dls) /\ DOMAIN pe = 1 .. Len(pe) /\ Len(pe) \in Nat  BY DEF DealsAre
  <1>2. pe[k] \in Dls  BY <1>1
  <1>3. PICK e : e = [pe[k] EXCEPT !.status = "BALANCE_DONE"]  OBVIOUS
  <1>4. /\ e \in Dls /\ e.order = pe[k].order /\ e.dealtid = pe[k].dealtid /\ e.ack_money = pe[k].ack_money
        /\ e.status = "BALANCE_DONE"
    BY ONLY <1>2, <1>3 DEF Dls, DealsOf
  <1>5. pf = [pe EXCEPT ![k] = e]  BY <1>3 DEF DealDoneAt
  <1>6. pf \in Seq(Dls) /\ Len(pf) = Len(pe) /\ DOMAIN pf = DOMAIN pe /\ pf[k] = e /\ \A j \in DOMAIN pe : j # k => pf[j] = pe[j]
    <2>1. k \in 1 .. Len(pe)  BY <1>1
    <2>2. pf \in Seq(Dls)  BY ONLY <1>1, <1>4, <1>5, <2>1
    <2>3. Len(pf) = Len(pe) /\ DOMAIN pf = DOMAIN pe  BY ONLY <1>1, <1>5, <2>1
    <2>4. pf[k] = e /\ \A j \in DOMAIN pe : j # k => pf[j] = pe[j]  BY ONLY <1>1, <1>5, <2>1
    <2> QED  BY ONLY <2>2, <2>3, <2>4
  <1>7. SameDeals(pf, pe)
    <2>1. ~IsUnsent(e) /\ ~IsUnsent(pe[k])  BY <1>4 DEF IsUnsent
    <2> QED  BY ONLY <1>1, <1>4, <1>6, <2>1 DEF SameDeals
  <1>8. Sends(pf, C \ {m})
    <2>1. ASSUME NEW j \in DOMAIN pf, pf[j].status = "BALANCE_WAIT"
          PROVE  \E c \in C \ {m} : c.op = "BALANCE" /\ c.arg.tid = pf[j].order.tid
      <3>1. j # k /\ pf[j] = pe[j]  BY <1>4, <1>6, <2>1
      <3>2. PICK c \in C : c.op = "BALANCE" /\ c.arg.tid = pe[j].order.tid  BY <1>6, <2>1, <3>1 DEF Sends
      <3>3. pe[j].order.tid # t  BY <1>6, <2>1, <3>1 DEF Sends
      <3>4. c # m  BY <3>2, <3>3 DEF TidOf
      <3> QED  BY <3>1, <3>2, <3>4
    <2>2. ASSUME NEW c \in C \ {m}, c.op = "BALANCE"
          PROVE  \E j \in DOMAIN pf : pf[j].status = "BALANCE_WAIT" /\ pf[j].order.tid = c.arg.tid
      <3>1. c.arg.tid # t
        <4>1. TidOf(c) # TidOf(m)  BY OtherTids
        <4> QED  BY <2>2, <4>1 DEF TidOf
      <3>2. PICK j \in DOMAIN pe : pe[j].status = "BALANCE_WAIT" /\ pe[j].order.tid = c.arg.tid  BY <2>2 DEF Sends
      <3> QED  BY <1>6, <3>1, <3>2
    <2>3. \A i, j \in DOMAIN pf : pf[i].status = "BALANCE_WAIT" /\ pf[j].status = "BALANCE_WAIT"
                                  /\ pf[i].order.tid = pf[j].order.tid => i = j
      BY <1>4, <1>6 DEF Sends
    <2> QED  BY ONLY <2>1, <2>2, <2>3 DEF Sends
  <1> QED  BY <1>4, <1>6, <1>7, <1>8 DEF NowSettled

\* What is shown of an order of which n lots are left.
ShownLeft(x, a, f, t, u, y) ==
    Shown(x, f, u) = (Shown(x, a, u) \ {o \in Shown(x, a, u) : o.tid = t}) \cup StillOpen({y})

IsShown(y, x, t, n) == y = [tid |-> t, price |-> x[t].price, volume |-> n]

LEMMA ShownSettled ==
    ASSUME NEW x, NEW a \in [Tid -> Nat], NEW t \in Tid, NEW n \in Nat, NEW f, f[t] = n, \A s \in Tid \ {t} : f[s] = a[s],
           NEW y, IsShown(y, x, t, n)
    PROVE  ShownLeft(x, a, f, t, x[t].user, y)
  <1>1. y.volume = n  BY DEF IsShown
  <1>2. PICK h : h = [a EXCEPT ![t] = 0]  OBVIOUS
  <1>3. h[t] = 0 /\ \A s \in Tid \ {t} : h[s] = a[s] /\ f[s] = h[s]  BY <1>2
  <1>4. Shown(x, h, x[t].user) = Shown(x, a, x[t].user) \ {o \in Shown(x, a, x[t].user) : o.tid = t}
    <2>1. \A s \in Tid \ {t} : h[s] = a[s]  BY <1>3
    <2>2. h[t] = 0  BY <1>3
    <2> QED  BY ONLY <2>1, <2>2, t \in Tid, ShownLess
  <1>5. CASE n = 0
    <2>1. StillOpen({y}) = {}  BY ONLY <1>1, <1>5 DEF StillOpen
    <2>2. Shown(x, f, x[t].user) = Shown(x, a, x[t].user) \ {o \in Shown(x, a, x[t].user) : o.tid = t}
      <3>1. f[t] = 0  BY <1>5
      <3> QED  BY ONLY <3>1, t \in Tid, \A s \in Tid \ {t} : f[s] = a[s], ShownLess
    <2> QED  BY ONLY <2>1, <2>2 DEF ShownLeft
  <1>6. CASE n # 0
    <2>1. StillOpen({y}) = {y}  BY ONLY <1>1, <1>6, n \in Nat DEF StillOpen
    <2>2. Shown(x, f, x[t].user) = Shown(x, h, x[t].user) \cup {[tid |-> t, price |-> x[t].price, volume |-> n]}
      <3>1. n > 0  BY <1>6
      <3>2. \A s \in Tid \ {t} : f[s] = h[s]  BY <1>3
      <3>3. h[t] = 0  BY <1>3
      <3> QED  BY ONLY <3>1, <3>2, <3>3, t \in Tid, n \in Nat, f[t] = n, ShownMore
    <2> QED  BY <1>4, <2>1, <2>2 DEF IsShown, ShownLeft
  <1> QED  BY <1>5, <1>6

\* The book and the ids when n lots are left of an order.
LeftOver(bl, idq, bk, idp, t, p, n) ==
    IF n = 0 THEN Without(bl, bk, t, p) /\ idq = idp \ {t} ELSE bl = bk /\ idq = idp

LEMMA BalanceReceived ==
    ASSUME NEW x, NEW bk, NEW vo, NEW pe, NEW st, NEW as, NEW C, NEW idp, NEW nid, NEW fu, NEW un,
           NEW H, NEW b, NEW d, NEW r, NEW a, NEW g,
           World(x, bk, vo, pe, st, as, C, idp, nid, fu, un, H, b, d, r, a, g),
           NEW m \in C, m.op = "BALANCE", NEW t, NEW u, NEW v, NEW k, HalfDone(m, t, u, v, k, x, pe, as, b, d, r, a),
           NEW bl, NEW idq, LeftOver(bl, idq, bk, idp, t, x[t].price, r[t]),
           NEW pf, DealDoneAt(pf, pe, k),
           NEW f, f[t] = r[t], \A s \in Tid \ {t} : f[s] = a[s], NEW bs, Refreshed(u, as, bs, fu, x, a, f)
    PROVE  Enters(x, bl, vo, pf, st, bs, C \ {m}, idq, nid, fu, un, d, r, f, g)
  <1>1. /\ t \in Tid \ {0} /\ t = TidOf(m) /\ u = m.user /\ ~Unserved(m)
        /\ r[t] = b[t] + d[t] /\ a[t] > 0 /\ r[t] \in Nat /\ b[t] \in Nat /\ d[t] \in Nat
        /\ k \in DOMAIN pe /\ pe[k].order.tid = t /\ pe[k].status = "BALANCE_WAIT"
    BY DEF HalfDone
  <1>2. /\ BookIs(bk, x, H, b) /\ VolumesAre(vo, bk) /\ DealsAre(pe, x, d) /\ CallsAre(C, x) /\ Sends(pe, C)
        /\ IdsAre(idp, nid, H, pe, C, r, a)
    BY DEF World
  <1>3. /\ SameDeals(pf, pe) /\ Sends(pf, C \ {m}) /\ DOMAIN pf = DOMAIN pe
        /\ \A j \in DOMAIN pe : pf[j].status # "BALANCE_DONE" => pf[j] = pe[j] /\ j # k
    <2>1. t # 0  BY <1>1
    <2>2. NowSettled(pf, pe, C, m, k)
      BY ONLY <1>1, <1>2, <2>1, m \in C, m.op = "BALANCE", DealDoneAt(pf, pe, k), DealSettled
    <2> QED  BY ONLY <2>2 DEF NowSettled
  <1>4. TidOf(m) # 0 => Even(TidOf(m), b, d, r, f)  BY <1>1 DEF Even
  <1>5. Refreshed(m.user, as, bs, fu, x, a, f)  BY <1>1
  <1>6. CASE r[t] = 0
    <2>1. Without(bl, bk, t, x[t].price) /\ idq = idp \ {t}  BY <1>6 DEF LeftOver
    <2>2. b[t] = 0 /\ d[t] = 0  BY ONLY <1>1, <1>6
    <2>3. BookIs(bl, x, H \ {t}, b) /\ VolumesAre(vo, bl)  BY ONLY <1>2, <2>1, <2>2, OrderLeaves
    <2>4. NoneLeft(pf, pe, t)
      <3> SUFFICES ASSUME NEW j \in DOMAIN pe, pf[j].status # "BALANCE_DONE"
                   PROVE  pe[j].status # "BALANCE_DONE" /\ pf[j].order.tid = pe[j].order.tid /\ pe[j].order.tid # t
        BY <1>3 DEF NoneLeft
      <3>1. pf[j] = pe[j] /\ j # k  BY <1>3
      <3>2. pe[j].status \in Statuses
        <4>1. pe[j] \in Dls  BY <1>2 DEF DealsAre
        <4> QED  BY ONLY <4>1 DEF Dls, DealsOf, Statuses
      <3>3. IsUnsent(pe[j]) => pe[j].order.tid # t
        <4>1. t \in Tid  BY <1>1
        <4>2. \A l \in DOMAIN pe : IsUnsent(pe[l]) /\ pe[l].order.tid = t => d[t] > 0  BY ONLY <1>2, <4>1, LotsCounted
        <4> QED  BY <2>2, <4>2
      <3>4. pe[j].status = "BALANCE_WAIT" => pe[j].order.tid # t  BY <1>1, <1>2, <3>1 DEF Sends
      <3> QED  BY <3>1, <3>2, <3>3, <3>4 DEF IsUnsent, Statuses
    <2>5. IdsAre(idp \ {t}, nid, H \ {t}, pf, C \ {m}, r, f)
      <3>1. t # 0 /\ f[t] = 0  BY <1>1, <1>6
      <3>2. \A s \in Tid \ {t} : f[s] = a[s]  OBVIOUS
      <3> QED  BY ONLY <1>1, <1>2, <1>6, <2>4, <3>1, <3>2, m \in C, IdFreed
    <2>6. OnlyAt(TidOf(m), H, b, d, r, a, H \ {t}, b, d, r, f)  BY <1>1 DEF OnlyAt, Agree
    <2>7. IdsAre(idq, nid, H \ {t}, pf, C \ {m}, r, f)  BY <2>1, <2>5
    <2>8. World(x, bl, vo, pf, st, bs, C \ {m}, idq, nid, fu, un, H \ {t}, b, d, r, f, g)
      BY ONLY World(x, bk, vo, pe, st, as, C, idp, nid, fu, un, H, b, d, r, a, g), m \in C, <1>1, <1>3, <1>4, <1>5, <2>3, <2>6, <2>7,
              WorldReceived
    <2> QED  BY ONLY <2>8 DEF Enters
  <1>7. CASE r[t] # 0
    <2>1. bl = bk /\ idq = idp  BY <1>7 DEF LeftOver
    <2>2. IdsAre(idq, nid, H, pf, C \ {m}, r, f)
      <3>1. t \in idp  BY <1>1, <1>2 DEF IdsAre
      <3>2. \A s \in Tid : f[s] > 0 => s \in idp  BY <1>2, <3>1 DEF IdsAre
      <3> QED  BY <1>2, <1>3, <2>1, <3>2 DEF IdsAre
    <2>3. OnlyAt(TidOf(m), H, b, d, r, a, H, b, d, r, f)  BY <1>1 DEF OnlyAt, Agree
    <2>4. BookIs(bl, x, H, b) /\ VolumesAre(vo, bl)  BY <1>2, <2>1
    <2>5. World(x, bl, vo, pf, st, bs, C \ {m}, idq, nid, fu, un, H, b, d, r, f, g)
      BY ONLY World(x, bk, vo, pe, st, as, C, idp, nid, fu, un, H, b, d, r, a, g), m \in C, <1>1, <1>3, <1>4, <1>5, <2>2, <2>3, <2>4,
              WorldReceived
    <2> QED  BY ONLY <2>5 DEF Enters
  <1> QED  BY <1>6, <1>7

LEMMA OnBalanceExact ==
    ASSUME Inv, NEW x, NEW H, NEW b, NEW d, NEW r, NEW a, NEW g, Exact(x, H, b, d, r, a, g),
           NEW i \in DOMAIN calls, OnBalance(i)
    PROVE  ExactNow'
  <1>1. Running /\ World(x, orders, volumes, pending, stored, accounts, Requests, idpool, nextid, funds, unmatched, H, b, d, r, a, g)
    BY ExactIs
  <1>2. PICK m : m = calls[i]  OBVIOUS
  <1>3. PICK t : t = m.arg.tid  OBVIOUS
  <1>4. PICK u : u = m.user  OBVIOUS
  <1>5. PICK v : v = m.arg.ack_volume  OBVIOUS
  <1>6. PICK k : k = PlaceSent(pending, t)  OBVIOUS
  <1>7. PICK f : f = [a EXCEPT ![t] = r[t]]  OBVIOUS
  <1>8. PICK bs : bs = accounts'  OBVIOUS
  <1>9. PICK bl : bl = orders'  OBVIOUS
  <1>10. PICK idq : idq = idpool'  OBVIOUS
  <1>11. PICK pf : pf = pending'  OBVIOUS
  <1>12. AccountsAre(accounts, x, a) /\ CallsAre(Requests, x)  BY <1>1 DEF World
  <1>13. m \in Requests /\ Requests' = Requests \ {m}
    <2>1. Received(i)  BY DEF OnBalance
    <2> QED  BY <1>2, <1>12, <2>1, RequestDone
  <1>14. m.op = "BALANCE" /\ m.res.retcode = "SUCCESS"  BY <1>2 DEF OnBalance, Answered
  <1>15. HalfDone(m, t, u, v, k, x, pending, accounts, b, d, r, a)
    BY ONLY <1>1, <1>3, <1>4, <1>5, <1>6, <1>13, <1>14, BalanceAnswer
  <1>16. /\ t \in Tid \ {0} /\ u \in User /\ x[t].user = u /\ Paid(m) /\ accounts[u].orders = Shown(x, a, u)
         /\ {o \in accounts[u].orders : o.tid = t} = {OrderShown(x, a, t)}
         /\ k # 0 /\ pending[k].order.price = x[t].price /\ r[t] \in Nat /\ a[t] - v = r[t] /\ a[t] > 0
    BY <1>15 DEF HalfDone
  <1>17. PICK mine : mine = {o \in accounts[u].orders : o.tid = t}  OBVIOUS
  <1>18. PICK y : y = [tid |-> t, price |-> x[t].price, volume |-> r[t]]  OBVIOUS
  <1>19. {[o EXCEPT !.volume = @ - v] : o \in mine} = {y}
    <2>1. PICK o : o = OrderShown(x, a, t)  OBVIOUS
    <2>2. mine = {o} /\ [o EXCEPT !.volume = @ - v] = y  BY ONLY <1>16, <1>17, <1>18, <2>1 DEF OrderShown
    <2> QED  BY ONLY <2>2
  <1>20. PICK kept : kept = {[o EXCEPT !.volume = @ - v] : o \in mine}  OBVIOUS
  <1>21. kept = {y} /\ y.volume = r[t]  BY ONLY <1>18, <1>19, <1>20
  <1>22. (\E o \in kept : o.volume <= 0) <=> r[t] = 0  BY ONLY <1>16, <1>21
  <1>23. PICK j : j = FindOrder(orders, t, x[t].price)  OBVIOUS
  <1>24. u \in DOMAIN accounts /\ DOMAIN accounts = User  BY <1>12, <1>16 DEF AccountsAre
  <1>25. PICK own : own = [cash |-> m.res.cash, money |-> m.res.money, locked |-> FALSE,
                           orders |-> (accounts[u].orders \ mine) \cup StillOpen(kept)]
    OBVIOUS
  <1>26. /\ bs = [accounts EXCEPT ![u] = own]
         /\ bl = IF (\E o \in kept : o.volume <= 0) /\ j # 0 THEN RemoveAt(orders, j) ELSE orders
         /\ idq = IF \E o \in kept : o.volume <= 0 THEN idpool \ {t} ELSE idpool
         /\ pf = [pending EXCEPT ![k].status = "BALANCE_DONE"]
    <2>1. pf = [pending EXCEPT ![k].status = "BALANCE_DONE"]
      BY <1>2, <1>3, <1>6, <1>11, <1>16 DEF OnBalance, PlaceSent
    <2>2. bs = [accounts EXCEPT ![u] = own]
      BY <1>2, <1>3, <1>4, <1>5, <1>8, <1>17, <1>20, <1>24, <1>25 DEF OnBalance
    <2>3. idq = IF \E o \in kept : o.volume <= 0 THEN idpool \ {t} ELSE idpool
      BY <1>2, <1>3, <1>4, <1>5, <1>10, <1>17, <1>20, <1>24 DEF OnBalance
    <2>4. bl = IF (\E o \in kept : o.volume <= 0) /\ j # 0 THEN RemoveAt(orders, j) ELSE orders
      BY <1>2, <1>3, <1>4, <1>5, <1>6, <1>9, <1>16, <1>17, <1>20, <1>23, <1>24 DEF OnBalance, PlaceSent
    <2> QED  BY ONLY <2>1, <2>2, <2>3, <2>4
  <1>27. bs[u] = own /\ DOMAIN bs = User /\ \A w \in User \ {u} : bs[w] = accounts[w]  BY ONLY <1>24, <1>26
  <1>28. bs[u].cash = m.res.cash /\ bs[u].money = m.res.money
         /\ bs[u].orders = (accounts[u].orders \ mine) \cup StillOpen(kept)
    BY ONLY <1>25, <1>27
  <1>29. LeftOver(bl, idq, orders, idpool, t, x[t].price, r[t])  BY ONLY <1>22, <1>23, <1>26 DEF LeftOver, Without
  <1>30. m.res.cash = funds[u].cash /\ m.res.money = funds[u].money
    <2>1. About(m, Requests, x, pending, accounts, funds, b, d, r, a, g)  BY ONLY <1>1, <1>13, AboutUser
    <2> QED  BY <1>4, <1>16, <2>1 DEF About
  <1>31. a \in [Tid -> Nat] /\ a[0] = 0  BY <1>12 DEF AccountsAre
  <1>32. f \in [Tid -> Nat] /\ f[0] = 0 /\ f[t] = r[t] /\ \A s \in Tid \ {t} : f[s] = a[s]  BY ONLY <1>7, <1>16, <1>31
  <1>33. bs[u].orders = Shown(x, f, u)
    <2>1. t \in Tid /\ r[t] \in Nat  BY <1>16
    <2>2. f[t] = r[t]  BY <1>32
    <2>3. \A s \in Tid \ {t} : f[s] = a[s]  BY <1>32
    <2>4. a \in [Tid -> Nat]  BY <1>31
    <2>5. ShownLeft(x, a, f, t, x[t].user, y)
      <3>1. IsShown(y, x, t, r[t])  BY ONLY <1>18 DEF IsShown
      <3> QED  BY ONLY <2>1, <2>2, <2>3, <2>4, <3>1, ShownSettled
    <2> QED  BY ONLY <1>16, <1>17, <1>21, <1>28, <2>5 DEF ShownLeft
  <1>34. Refreshed(u, accounts, bs, funds, x, a, f)
    <2>1. \A s \in Tid : x[s].user # u => f[s] = a[s]  BY <1>16, <1>32
    <2> QED  BY <1>16, <1>27, <1>28, <1>30, <1>32, <1>33, <2>1 DEF Refreshed
  <1>35. PICK K, c : World(x, bl, volumes, pf, stored, bs, Requests \ {m}, idq, nextid, funds, unmatched, K, c, d, r, f, g)
    <2>1. f[t] = r[t]  BY <1>32
    <2>2. \A s \in Tid \ {t} : f[s] = a[s]  BY <1>32
    <2>3. DealDoneAt(pf, pending, k)  BY ONLY <1>26 DEF DealDoneAt
    <2>4. Enters(x, bl, volumes, pf, stored, bs, Requests \ {m}, idq, nextid, funds, unmatched, d, r, f, g)
      BY ONLY <1>1, <1>13, <1>14, <1>15, <1>29, <1>34, <2>1, <2>2, <2>3, BalanceReceived
    <2> QED  BY ONLY <2>4 DEF Enters
  <1>36. /\ status' = status /\ online' = online /\ volumes' = volumes
         /\ nextid' = nextid /\ funds' = funds /\ stored' = stored
         /\ unmatched' = unmatched /\ faults' = faults /\ crashes' = crashes
    BY DEF OnBalance, db, bounds
  <1>37. Exact(x, K, c, d, r, f, g)'
    BY ONLY <1>1, <1>8, <1>9, <1>10, <1>11, <1>13, <1>35, <1>36 DEF Exact, World, Running
  <1> QED  BY ONLY <1>37 DEF ExactNow

-----------------------------------------------------------------------------
(***************************************************************************)
(* At the start there are no orders, deals and requests.                   *)
(***************************************************************************)
NoLots == [t \in Tid |-> 0]

LEMMA NoneOffered ==
    ASSUME NEW x \in [Tid -> Whose], NEW u
    PROVE  Sells(x, NoLots, u) = 0 /\ Buys(x, NoLots, u) = 0
  <1>1. PICK z \in [Tid -> Nat] : z = NoLots  BY DEF NoLots
  <1>2. \A t \in Tid : z[t] = 0  BY <1>1 DEF NoLots
  <1>3. /\ Sells(x, z, u) = SumFunctionOnSet(SellWeight(x, z, u), Tid)
        /\ Buys(x, z, u) = SumFunctionOnSet(BuyWeight(x, z, u), Tid)
        /\ \A t \in Tid : /\ x[t].price \in Int
                          /\ SellWeight(x, z, u)[t] = IF x[t].user = u /\ x[t].price > 0 THEN z[t] ELSE 0
                          /\ BuyWeight(x, z, u)[t] = IF x[t].user = u /\ x[t].price < 0 THEN x[t].price * z[t] ELSE 0
    BY OfferWeights
  <1>4. \A t \in Tid : SellWeight(x, z, u)[t] = 0 /\ BuyWeight(x, z, u)[t] = 0  BY ONLY <1>2, <1>3
  <1>5. IsFiniteSet(Tid)  BY TidsAre
  <1>6. SumFunctionOnSet(SellWeight(x, z, u), Tid) = 0  BY ONLY <1>4, <1>5, SumZero
  <1>7. SumFunctionOnSet(BuyWeight(x, z, u), Tid) = 0  BY ONLY <1>4, <1>5, SumZero
  <1> QED  BY <1>1, <1>3, <1>6, <1>7

\* Accounts that show what is in the database.
Opened(as) ==
    /\ DOMAIN as = User
    /\ \A u \in User : as[u].cash = StartFunds[u].cash /\ as[u].money = StartFunds[u].money /\ as[u].orders = {}

NoRows(st) == DOMAIN st = {} /\ st = [t \in {} |-> 0]

LEMMA StartBook ==
    ASSUME NEW x \in [Tid -> Whose]
    PROVE  BookIs(<<>>, x, {}, NoLots) /\ VolumesAre(EmptyVolumes, <<>>) /\ DealsAre(<<>>, x, NoLots)
  <1>1. <<>> \in Seq(Ord) /\ <<>> \in Seq(Dls) /\ DOMAIN <<>> = {} /\ Len(<<>>) = 0  BY EmptySeq DEF EmptySeq
  <1>2. NoLots \in [Tid -> Nat] /\ NoLots \in [Tid -> Int] /\ \A t \in Tid : NoLots[t] = 0  BY DEF NoLots
  <1>3. BookIs(<<>>, x, {}, NoLots)  BY <1>1, <1>2 DEF BookIs, TidsApart
  <1>4. VolumesAre(EmptyVolumes, <<>>)
    <2>1. \A p \in Prices : OfferedAt(<<>>, p, Ord) = 0  BY SumOverEmpty DEF OfferedAt
    <2> QED  BY <2>1 DEF VolumesAre, EmptyVolumes
  <1>5. DealsAre(<<>>, x, NoLots)
    <2>1. \A t \in Tid : SumOver(UnsentLots(t), <<>>) = 0  BY SumOverEmpty
    <2> HIDE DEF NoLots
    <2> QED  BY <1>1, <1>2, <2>1 DEF DealsAre
  <1> QED  BY <1>3, <1>4, <1>5

LEMMA StartRows ==
    ASSUME NEW x \in [Tid -> Whose], NEW as, Opened(as), NEW st, NoRows(st)
    PROVE  RowsAre(st, x, NoLots) /\ AccountsAre(as, x, NoLots)
  <1>1. NoLots \in [Tid -> Nat] /\ \A t \in Tid : NoLots[t] = 0  BY DEF NoLots
  <1>2. 0 \in Tid  BY TidsAre
  <1>3. RowsAre(st, x, NoLots)
    <2>1. {s \in Tid : NoLots[s] > 0} = {}  BY <1>1
    <2> HIDE DEF NoLots
    <2> DEFINE row(t) == [tid |-> t, user |-> x[t].user, price |-> x[t].price, volume |-> NoLots[t]]
    <2>2. st = [t \in {s \in Tid : NoLots[s] > 0} |-> row(t)]  BY <2>1 DEF NoRows
    <2> QED  BY <1>1, <1>2, <2>2 DEF RowsAre
  <1>4. AccountsAre(as, x, NoLots)
    <2>1. \A u \in User : Shown(x, NoLots, u) = {}
      <3>1. \A u \in User : {s \in Tid : NoLots[s] > 0 /\ x[s].user = u} = {}  BY <1>1
      <3> QED  BY <3>1 DEF Shown
    <2>2. \A u \in User : StartFunds[u].cash \in Int /\ StartFunds[u].money \in Int  BY ExchangeAssumption
    <2> HIDE DEF NoLots
    <2> QED  BY <1>1, <1>2, <2>1, <2>2 DEF AccountsAre, Opened
  <1> QED  BY <1>3, <1>4

LEMMA StartWorld ==
    ASSUME NEW x \in [Tid -> Whose], NEW as, Opened(as), NEW st, NoRows(st)
    PROVE  World(x, <<>>, EmptyVolumes, <<>>, st, as, {}, {0, STOCK_BALANCE_ID}, STOCK_BALANCE_ID + Skip, StartFunds, 0,
                 {}, NoLots, NoLots, NoLots, NoLots, NoLots)
  <1>1. NoLots \in [Tid -> Nat] /\ NoLots \in [Tid -> Int] /\ \A t \in Tid : NoLots[t] = 0  BY DEF NoLots
  <1>2. 0 \in Tid /\ IsFiniteSet(Tid)  BY TidsAre
  <1>3. DOMAIN <<>> = {}  OBVIOUS
  <1>4. CallsAre({}, x) /\ Ledger({}, {}, NoLots, NoLots, NoLots, NoLots) /\ Sends(<<>>, {})
    <2> HIDE DEF NoLots
    <2> QED  BY <1>1, <1>3 DEF CallsAre, Ledger, Sends
  <1>5. IdsAre({0, STOCK_BALANCE_ID}, STOCK_BALANCE_ID + Skip, {}, <<>>, {}, NoLots, NoLots)
    <2>1. {0, STOCK_BALANCE_ID} \subseteq Tid /\ STOCK_BALANCE_ID + Skip \in Tid
      BY ExchangeAssumption DEF Tid, STOCK_BALANCE_ID
    <2> HIDE DEF NoLots
    <2> QED  BY <1>1, <1>3, <2>1 DEF IdsAre
  <1>6. StartFunds \in [User -> [cash : Int, money : Int]] /\ \A u \in User : StartFunds[u].cash \in Nat /\ StartFunds[u].money \in Nat
    BY ExchangeAssumption
  <1>7. FundsAre(StartFunds, as, {})  BY <1>6 DEF FundsAre, Opened
  <1>8. Covered(StartFunds, x, NoLots, {})
    <2>1. \A u \in User : Sells(x, NoLots, u) = 0 /\ Buys(x, NoLots, u) = 0  BY NoneOffered
    <2> QED  BY <1>6, <2>1 DEF Covered, Covers
  <1>9. HalvesMeet(0, <<>>, {}, NoLots)
    <2>1. SumOver(UnsentHalves, <<>>) = 0  BY SumOverEmpty
    <2> HIDE DEF NoLots
    <2>2. SumFunctionOnSet(NoLots, Tid) = 0  BY ONLY <1>1, <1>2, SumZero
    <2> QED  BY <1>1, <1>2, <2>1, <2>2 DEF HalvesMeet
  <1>10. BookIs(<<>>, x, {}, NoLots) /\ VolumesAre(EmptyVolumes, <<>>) /\ DealsAre(<<>>, x, NoLots)  BY StartBook
  <1>11. RowsAre(st, x, NoLots) /\ AccountsAre(as, x, NoLots)  BY StartRows
  <1> QED  BY ONLY x \in [Tid -> Whose], <1>4, <1>5, <1>7, <1>8, <1>9, <1>10, <1>11 DEF World

LEMMA InitExact ==
    ASSUME User # {}, Price # {}, Init
    PROVE  ExactNow
  <1>1. PICK u \in User, p \in Prices : TRUE  BY DEF Prices
  <1>2. PICK x : x = [t \in Tid |-> [user |-> u, price |-> p]]  OBVIOUS
  <1>3. x \in [Tid -> Whose]  BY <1>1, <1>2 DEF Whose
  <1>4. Opened(accounts)  BY DEF Init, NewAccount, Opened
  <1>5. NoRows(stored)  BY DEF Init, NoRows
  <1>6. World(x, <<>>, EmptyVolumes, <<>>, stored, accounts, {}, {0, STOCK_BALANCE_ID}, STOCK_BALANCE_ID + Skip, StartFunds, 0,
              {}, NoLots, NoLots, NoLots, NoLots, NoLots)
    BY <1>3, <1>4, <1>5, StartWorld
  <1>7. Requests = {}
    <2>1. calls = <<>>  BY DEF Init
    <2>2. DOMAIN calls = {}  BY <2>1
    <2> QED  BY ONLY <2>2 DEF Requests, Range
  <1>8. /\ orders = <<>> /\ volumes = EmptyVolumes /\ pending = <<>> /\ idpool = {0, STOCK_BALANCE_ID}
        /\ nextid = STOCK_BALANCE_ID + Skip /\ funds = StartFunds /\ unmatched = 0
    BY DEF Init
  <1>9. Running
    <2>1. MaxFaults \in Nat  BY ExchangeAssumption
    <2>2. status = "TRADING" /\ online = User /\ faults = 0 /\ crashes = 0  BY DEF Init
    <2> QED  BY ONLY <2>1, <2>2 DEF Running
  <1>10. World(x, orders, volumes, pending, stored, accounts, Requests, idpool, nextid, funds,
               unmatched, {}, NoLots, NoLots, NoLots, NoLots, NoLots)
    BY ONLY <1>6, <1>7, <1>8
  <1>11. Exact(x, {}, NoLots, NoLots, NoLots, NoLots, NoLots)  BY <1>9, <1>10, ExactIs
  <1> QED  BY ONLY <1>11 DEF ExactNow

-----------------------------------------------------------------------------
(***************************************************************************)
(* Nobody logs out, gdeliveryd does not crash, and no Rpc fails or times   *)
(* out; the two forms of the tax on a sale are the same number.            *)
(***************************************************************************)
Undisturbed ==
    /\ FailingOps = {} /\ MaxCrashes = 0 /\ Travellers = {} /\ RoundedDown = {}
    /\ User # {} /\ Price # {}

\* No request fails.
LEMMA NoneFails ==
    ASSUME FailingOps = {}, NEW x, CallsAre(Requests, x), NEW i \in DOMAIN calls
    PROVE  /\ ~ServeFails(i) /\ ~RpcTimesOut(i) /\ ~ServeGetUser(i)
           /\ ~AbortCommission(i) /\ ~BalanceFailed(i) /\ ~CancelFailed(i) /\ ~OnLogin(i)
  <1> DEFINE c == calls[i]
  <1>1. c \in Requests  BY DEF Requests, Range
  <1>2. CallIs(c, x)  BY <1>1 DEF CallsAre
  <1>3. c.op \in {"COMMISSION", "BALANCE", "CANCEL", "TRANSACTION"}  BY ONLY <1>2 DEF CallIs
  <1>4. c.op = "COMMISSION" => c.res = NoAnswer \/ c.res = [retcode |-> "SUCCESS"]
    BY ONLY FailingOps = {}, <1>2 DEF CallIs
  <1>5. c.op \in {"BALANCE", "CANCEL"} => c.res = NoAnswer \/ c.res.retcode = "SUCCESS"  BY ONLY <1>2 DEF CallIs
  <1>6. ~ServeFails(i) /\ ~RpcTimesOut(i)  BY FailingOps = {} DEF ServeFails, RpcTimesOut
  <1>7. ~ServeGetUser(i) /\ ~OnLogin(i)  BY <1>3 DEF ServeGetUser, OnLogin, Asked, Answered
  <1>8. ~AbortCommission(i)
    <2>1. SUFFICES ASSUME Answered(i, "COMMISSION", {"EXCEPTION"}) PROVE FALSE  BY DEF AbortCommission
    <2>2. c.op = "COMMISSION" /\ c.res.retcode = "EXCEPTION"  BY <2>1 DEF Answered
    <2> QED  BY ONLY <1>4, <2>2 DEF NoAnswer
  <1>9. ~BalanceFailed(i) /\ ~CancelFailed(i)
    <2>1. SUFFICES ASSUME c.op \in {"BALANCE", "CANCEL"}, c.res.retcode = "EXCEPTION" PROVE FALSE
      BY DEF BalanceFailed, CancelFailed, Answered
    <2> QED  BY ONLY <1>5, <2>1 DEF NoAnswer
  <1> QED  BY <1>6, <1>7, <1>8, <1>9

LEMMA UserStepExact ==
    ASSUME Undisturbed, Inv, NEW x, NEW H, NEW b, NEW d, NEW r, NEW a, NEW g, Exact(x, H, b, d, r, a, g), UserStep
    PROVE  ExactNow'
  <1>1. online = User /\ Travellers = {} /\ RoundedDown = {}
    BY ONLY Undisturbed, Exact(x, H, b, d, r, a, g) DEF Undisturbed, Exact
  <1>2. ASSUME NEW u \in User, NEW p \in Prices, NEW v \in Volume, PlaceOrder(u, p, v)
        PROVE  ExactNow'
    BY <1>1, <1>2, PlaceOrderExact
  <1>3. ASSUME NEW u \in User, NEW p \in Prices, NEW v \in Volume, PlaceOrderBusy(u, p, v)
        PROVE  ExactNow'
    <2>1. Exact(x, H, b, d, r, a, g)'  BY <1>3, PlaceOrderBusyExact
    <2> QED  BY ONLY <2>1 DEF ExactNow
  <1>4. ASSUME NEW u \in User, NEW i \in DOMAIN orders, PreCancel(u, orders[i].tid)
        PROVE  ExactNow'
    BY <1>4, PreCancelExact
  <1>5. ASSUME NEW u \in User, NEW t \in Transfers, PreTransaction(u, t)
        PROVE  ExactNow'
    <2>1. Exact(x, H, b, d, r, a, g)'  BY <1>5, PreTransactionExact
    <2> QED  BY ONLY <2>1 DEF ExactNow
  <1>6. ASSUME NEW u \in User, Logout(u) \/ Login(u)
        PROVE  FALSE
    BY ONLY <1>1, <1>6 DEF Logout, Login
  <1> QED  BY <1>2, <1>3, <1>4, <1>5, <1>6 DEF UserStep

LEMMA ServeExact ==
    ASSUME Undisturbed, Inv, NEW x, NEW H, NEW b, NEW d, NEW r, NEW a, NEW g, Exact(x, H, b, d, r, a, g),
           NEW i \in DOMAIN calls, Serve(i)
    PROVE  ExactNow'
  <1>1. ~ServeGetUser(i)  BY NoneFails DEF Undisturbed, Exact
  <1>2. CASE ServeCommission(i)  BY <1>2, ServeCommissionExact
  <1>3. CASE ServeBalance(i)  BY <1>3, ServeBalanceExact
  <1>4. CASE ServeCancel(i)  BY <1>4, ServeCancelExact
  <1>5. CASE ServeTransaction(i)  BY <1>5, ServeTransactionExact
  <1> QED  BY <1>1, <1>2, <1>3, <1>4, <1>5 DEF Serve

LEMMA ReceiveExact ==
    ASSUME Undisturbed, Inv, NEW x, NEW H, NEW b, NEW d, NEW r, NEW a, NEW g, Exact(x, H, b, d, r, a, g),
           NEW i \in DOMAIN calls, Receive(i)
    PROVE  ExactNow'
  <1>1. ~AbortCommission(i) /\ ~BalanceFailed(i) /\ ~CancelFailed(i) /\ ~OnLogin(i)
    BY NoneFails DEF Undisturbed, Exact
  <1>2. CASE OnCommission(i)  BY <1>2, OnCommissionExact
  <1>3. CASE OnBalance(i)  BY <1>3, OnBalanceExact
  <1>4. CASE PostCancel(i)  BY <1>4, PostCancelExact
  <1>5. CASE PostTransaction(i)  BY <1>5, PostTransactionExact
  <1> QED  BY <1>1, <1>2, <1>3, <1>4, <1>5 DEF Receive

LEMMA NextKeepsExact ==
    ASSUME Undisturbed, Inv, ExactNow, [Next]_vars
    PROVE  ExactNow'
  <1>1. PICK x, H, b, d, r, a, g : Exact(x, H, b, d, r, a, g)  BY DEF ExactNow
  <1>2. CASE UserStep  BY <1>1, <1>2, UserStepExact
  <1>3. ASSUME NEW old \in {0} \cup DOMAIN orders, Update(old)
        PROVE  ExactNow'
    BY <1>1, <1>3, UpdateExact
  <1>4. ASSUME NEW i \in DOMAIN calls, Serve(i) \/ Receive(i) \/ ServeFails(i) \/ RpcTimesOut(i)
        PROVE  ExactNow'
    <2>1. ~ServeFails(i) /\ ~RpcTimesOut(i)  BY <1>1, NoneFails DEF Undisturbed, Exact
    <2>2. CASE Serve(i)  BY <1>1, <2>2, ServeExact
    <2>3. CASE Receive(i)  BY <1>1, <2>3, ReceiveExact
    <2> QED  BY ONLY <1>4, <2>1, <2>2, <2>3
  <1>5. ASSUME NEW u \in User, LockExpires(u)
        PROVE  ExactNow'
    <2>1. Exact(x, H, b, d, r, a, g)'  BY <1>1, <1>5, LockExpiresExact
    <2> QED  BY ONLY <2>1 DEF ExactNow
  <1>6. ~Crash /\ ~Load
    <2>1. status = "TRADING" /\ crashes = 0 /\ MaxCrashes = 0  BY ONLY Undisturbed, <1>1 DEF Undisturbed, Exact
    <2> QED  BY ONLY <2>1 DEF Crash, Load
  <1>7. CASE UNCHANGED vars
    <2>1. Exact(x, H, b, d, r, a, g)'  BY ONLY <1>1, <1>7 DEF vars, market, pool, db, bounds, Exact, Requests
    <2> QED  BY ONLY <2>1 DEF ExactNow
  <1> QED  BY ONLY [Next]_vars, <1>2, <1>3, <1>4, <1>5, <1>6, <1>7 DEF Next

-----------------------------------------------------------------------------
(***************************************************************************)
(* What the exact state says of the invariants of StockExchange.           *)
(***************************************************************************)
LEMMA RequestIs ==
    ASSUME NEW x, CallsAre(Requests, x), NEW i \in DOMAIN calls
    PROVE  calls[i] \in Requests /\ CallIs(calls[i], x)
  BY DEF CallsAre, Requests, Range

\* The rows that are stored.
LEMMA StoredAt ==
    ASSUME NEW x, NEW r, RowsAre(stored, x, r)
    PROVE  /\ \A t \in Tid : t \in DOMAIN stored <=> r[t] > 0
           /\ DOMAIN stored \subseteq Tid
           /\ \A t \in DOMAIN stored : /\ stored[t] = [tid |-> t, user |-> x[t].user, price |-> x[t].price, volume |-> r[t]]
                                       /\ stored[t].tid = t /\ stored[t].user = x[t].user
                                       /\ stored[t].price = x[t].price /\ stored[t].volume = r[t]
  <1> DEFINE D == {s \in Tid : r[s] > 0}
             row(t) == [tid |-> t, user |-> x[t].user, price |-> x[t].price, volume |-> r[t]]
  <1>1. stored = [t \in D |-> row(t)]  BY DEF RowsAre
  <1>2. \A t : row(t).tid = t /\ row(t).user = x[t].user /\ row(t).price = x[t].price /\ row(t).volume = r[t]  OBVIOUS
  <1>3. \A t : row(t) = [tid |-> t, user |-> x[t].user, price |-> x[t].price, volume |-> r[t]]  OBVIOUS
  <1>4. D \subseteq Tid /\ \A t \in Tid : t \in D <=> r[t] > 0  OBVIOUS
  <1> HIDE DEF row, D
  <1>5. DOMAIN stored = D /\ \A t \in D : stored[t] = row(t)  BY <1>1
  <1> QED  BY <1>2, <1>3, <1>4, <1>5

LEMMA ExactIds ==
    ASSUME NEW x, NEW H, NEW b, NEW d, NEW r, NEW a, NEW g, Exact(x, H, b, d, r, a, g)
    PROVE  IdsHeld
  <1>1. /\ CallsAre(Requests, x) /\ RowsAre(stored, x, r) /\ BookIs(orders, x, H, b)
        /\ IdsAre(idpool, nextid, H, pending, Requests, r, a)
    BY DEF Exact
  <1>2. \A t \in DOMAIN stored : t \in idpool
    <2>1. \A t \in DOMAIN stored : t \in Tid /\ r[t] > 0  BY <1>1, StoredAt
    <2> QED  BY ONLY <1>1, <2>1 DEF IdsAre
  <1>3. \A i \in DOMAIN orders : orders[i].tid \in idpool  BY ONLY <1>1 DEF BookIs, IdsAre
  <1>4. \A i \in Unsent : pending[i].order.tid \in idpool
    <2>1. \A i \in Unsent : i \in DOMAIN pending /\ pending[i].status # "BALANCE_DONE"  BY DEF Unsent
    <2> QED  BY ONLY <1>1, <2>1 DEF IdsAre
  <1>5. \A i \in DOMAIN calls : calls[i].op = "COMMISSION" => calls[i].arg.order.tid \in idpool
    <2>1. \A i \in DOMAIN calls : calls[i] \in Requests  BY <1>1, RequestIs
    <2>2. \A c \in Requests : c.op = "COMMISSION" => c.arg.order.tid \in idpool  BY ONLY <1>1 DEF IdsAre, TidOf
    <2> QED  BY <2>1, <2>2
  <1> QED  BY <1>2, <1>3, <1>4, <1>5 DEF IdsHeld, IdsInUse

LEMMA ExactAccounts ==
    ASSUME NEW x, NEW H, NEW b, NEW d, NEW r, NEW a, NEW g, Exact(x, H, b, d, r, a, g)
    PROVE  AccountAgrees
  <1> SUFFICES ASSUME NEW u \in DOMAIN accounts, CallsOf(u) = {}
               PROVE  /\ accounts[u].cash = funds[u].cash /\ accounts[u].money = funds[u].money
                      /\ accounts[u].orders =
                             {[tid |-> t, price |-> stored[t].price, volume |-> stored[t].volume] :
                                 t \in {s \in DOMAIN stored : stored[s].user = u}}
    BY DEF AccountAgrees
  <1>1. /\ CallsAre(Requests, x) /\ Ledger(Requests, H, b, d, r, a) /\ AccountsAre(accounts, x, a)
        /\ RowsAre(stored, x, r) /\ FundsAre(funds, accounts, Requests)
    BY DEF Exact
  <1>2. \A c \in Requests : c.user # u
    <2> SUFFICES ASSUME NEW c \in Requests, c.user = u PROVE FALSE  OBVIOUS
    <2>1. PICK i \in DOMAIN calls : c = calls[i]  BY DEF Requests, Range
    <2>2. CallIs(c, x)  BY <1>1 DEF CallsAre
    <2>3. c.waiting /\ c.op # "GETUSER"  BY <2>2 DEF CallIs
    <2>4. i \in CallsOf(u)  BY <2>1, <2>3 DEF CallsOf
    <2> QED  BY <2>4
  <1>3. u \in User /\ accounts[u].orders = Shown(x, a, u)  BY <1>1 DEF AccountsAre
  <1>4. accounts[u].cash = funds[u].cash /\ accounts[u].money = funds[u].money  BY ONLY <1>1, <1>2, <1>3 DEF FundsAre
  <1>5. \A s \in Tid : x[s].user = u => a[s] = r[s]
    <2> SUFFICES ASSUME NEW s \in Tid, x[s].user = u PROVE a[s] = r[s]  OBVIOUS
    <2>1. CASE s = 0  BY ONLY <1>1, <2>1 DEF AccountsAre, RowsAre
    <2>2. CASE s # 0
      <3>1. \A c \in Requests : c.user = x[s].user => TidOf(c) # s  BY <1>2
      <3>2. s \in Tid \ {0}  BY <2>2
      <3> QED  BY ONLY <1>1, <3>1, <3>2, LedgerAt
    <2> QED  BY <2>1, <2>2
  <1> DEFINE R == {s \in DOMAIN stored : stored[s].user = u}
             S == {s \in Tid : a[s] > 0 /\ x[s].user = u}
             row(t)  == [tid |-> t, price |-> stored[t].price, volume |-> stored[t].volume]
             seen(t) == OrderShown(x, a, t)
  <1>6. R = S
    <2>1. /\ \A t \in Tid : t \in DOMAIN stored <=> r[t] > 0
          /\ DOMAIN stored \subseteq Tid
          /\ \A t \in DOMAIN stored : stored[t].user = x[t].user
      BY <1>1, StoredAt
    <2> QED  BY <1>5, <2>1
  <1>7. \A t \in R : row(t) = seen(t)
    <2>1. \A t \in DOMAIN stored : t \in Tid /\ stored[t].user = x[t].user /\ stored[t].price = x[t].price /\ stored[t].volume = r[t]
      BY <1>1, StoredAt
    <2>2. \A t \in R : stored[t].price = x[t].price /\ stored[t].volume = a[t]  BY <1>5, <2>1
    <2> QED  BY <2>2 DEF OrderShown
  <1>8. Shown(x, a, u) = {seen(t) : t \in S}  BY DEF Shown
  <1> HIDE DEF R, S, row, seen
  <1>9. {row(t) : t \in R} = {seen(t) : t \in S}  BY <1>6, <1>7
  <1> QED  BY <1>3, <1>4, <1>8, <1>9 DEF R, row

LEMMA ExactVolumes ==
    ASSUME NEW x, NEW H, NEW b, NEW d, NEW r, NEW a, NEW g, Exact(x, H, b, d, r, a, g)
    PROVE  VolumesAgree
  <1> SUFFICES ASSUME NEW p \in Prices
               PROVE  volumes[p] = Sum(LAMBDA i : orders[i].volume, {i \in DOMAIN orders : orders[i].price = p})
    BY DEF VolumesAgree
  <1>1. BookIs(orders, x, H, b) /\ VolumesAre(volumes, orders)  BY DEF Exact
  <1>2. orders \in Seq(Ord) /\ volumes[p] = OfferedAt(orders, p, Ord)  BY <1>1 DEF BookIs, VolumesAre
  <1>3. DOMAIN orders = 1 .. Len(orders) /\ Len(orders) \in Nat /\ \A i \in 1 .. Len(orders) : orders[i] \in Ord
    BY <1>2, LenProperties, ElementOfSeq
  <1>4. \A i \in 1 .. Len(orders) : /\ AtPrice(Ord, p)[orders[i]] = IF orders[i].price = p THEN orders[i].volume ELSE 0
                                    /\ orders[i].volume \in Int
    BY <1>3, WeighsAtPrice DEF Ord, OrdersOf
  <1> DEFINE K == {i \in DOMAIN orders : orders[i].price = p}
             S == 1 .. Len(orders)
             f == [i \in K |-> orders[i].volume]
             h == [i \in S |-> AtPrice(Ord, p)[orders[i]]]
  <1>5. Sum(LAMBDA i : orders[i].volume, {i \in DOMAIN orders : orders[i].price = p}) = SumFunctionOnSet(f, K)
    BY DEF Sum
  <1>6. OfferedAt(orders, p, Ord) = SumFunctionOnSet(h, S)  BY DEF OfferedAt, SumOver
  <1>7. OnlyCounts(K, h, f, S)
    <2>1. K \subseteq S /\ \A i \in S : i \in K <=> orders[i].price = p  BY <1>3
    <2>2. \A i \in K : f[i] = orders[i].volume  OBVIOUS
    <2>3. \A i \in S : h[i] = AtPrice(Ord, p)[orders[i]]  OBVIOUS
    <2>4. \A i \in S : h[i] = (IF orders[i].price = p THEN orders[i].volume ELSE 0) /\ orders[i].volume \in Int
      BY <1>4, <2>3
    <2> HIDE DEF K, S, f, h
    <2> QED  BY ONLY <2>1, <2>2, <2>4 DEF OnlyCounts
  <1>8. IsFiniteSet(S)  BY <1>3, PlacesFinite
  <1> HIDE DEF K, S, f, h
  <1>9. SumFunctionOnSet(f, K) = SumFunctionOnSet(h, S)  BY ONLY <1>7, <1>8, SumSubset
  <1> QED  BY ONLY <1>2, <1>5, <1>6, <1>9

\* 102% of the money, rounded down, covers it.
LEMMA TaxedCovers ==
    ASSUME NEW m \in Int, NEW c \in Int, 100 * m + 102 * c >= 0
    PROVE  m + MoneyTaxed(c) >= 0
  <1>1. PICK z \in Int : z = (102 * c) \div 100  OBVIOUS
  <1>2. 100 * z + 99 >= 102 * c  BY <1>1
  <1>3. m + z >= 0  BY ONLY <1>2, z \in Int, m \in Int, c \in Int, 100 * m + 102 * c >= 0
  <1> QED  BY <1>1, <1>3 DEF MoneyTaxed

LEMMA ExactFunds ==
    ASSUME NEW x, NEW H, NEW b, NEW d, NEW r, NEW a, NEW g, Exact(x, H, b, d, r, a, g)
    PROVE  FundsCovered
  <1> DEFINE own(u, sell) == {t \in DOMAIN stored : stored[t].user = u /\ (stored[t].price > 0) = sell}
  <1> SUFFICES ASSUME NEW u \in User
               PROVE  /\ funds[u].cash >= SellCost(Sum(LAMBDA t : stored[t].volume, own(u, TRUE)))
                      /\ funds[u].money + MoneyTaxed(Sum(LAMBDA t : stored[t].price * stored[t].volume, own(u, FALSE))) >= 0
    BY DEF FundsCovered
  <1>1. x \in [Tid -> Whose] /\ RowsAre(stored, x, r) /\ Covered(funds, x, r, Requests) /\ FundsAre(funds, accounts, Requests)
    BY DEF Exact
  <1>2. r \in [Tid -> Nat] /\ funds[u].cash \in Int /\ funds[u].money \in Int  BY <1>1 DEF RowsAre, FundsAre
  <1>3. Covers(funds[u].cash, funds[u].money, Sells(x, r, u), Buys(x, r, u))  BY <1>1 DEF Covered
  <1>4. /\ Sells(x, r, u) = SumFunctionOnSet(SellWeight(x, r, u), Tid)
        /\ Buys(x, r, u) = SumFunctionOnSet(BuyWeight(x, r, u), Tid)
        /\ \A t \in Tid : /\ x[t].price \in Int /\ x[t].price # 0
                          /\ SellWeight(x, r, u)[t] = IF x[t].user = u /\ x[t].price > 0 THEN r[t] ELSE 0
                          /\ BuyWeight(x, r, u)[t] = IF x[t].user = u /\ x[t].price < 0 THEN x[t].price * r[t] ELSE 0
                          /\ SellWeight(x, r, u)[t] \in Nat /\ BuyWeight(x, r, u)[t] \in Int
    BY <1>1, <1>2, OfferWeights
  <1>5. /\ \A t \in Tid : t \in DOMAIN stored <=> r[t] > 0
        /\ DOMAIN stored \subseteq Tid
        /\ \A t \in DOMAIN stored : stored[t].user = x[t].user /\ stored[t].price = x[t].price /\ stored[t].volume = r[t]
    BY <1>1, StoredAt
  <1>6. IsFiniteSet(Tid) /\ \A t \in Tid : r[t] \in Nat  BY <1>2, TidsAre
  <1>7. Sum(LAMBDA t : stored[t].volume, own(u, TRUE)) = Sells(x, r, u)
    <2> DEFINE K == own(u, TRUE)
               f == [t \in K |-> stored[t].volume]
               h == SellWeight(x, r, u)
    <2>1. Sum(LAMBDA t : stored[t].volume, own(u, TRUE)) = SumFunctionOnSet(f, K)  BY DEF Sum
    <2>2. \A t : t \in K <=> t \in DOMAIN stored /\ stored[t].user = u /\ (stored[t].price > 0) = TRUE  OBVIOUS
    <2>3. \A t : t \in K <=> t \in DOMAIN stored /\ x[t].user = u /\ x[t].price > 0  BY ONLY <1>4, <1>5, <2>2
    <2>4. \A t \in K : f[t] = stored[t].volume  OBVIOUS
    <2>5. Sells(x, r, u) = SumFunctionOnSet(h, Tid) /\ \A t \in Tid : h[t] = IF x[t].user = u /\ x[t].price > 0 THEN r[t] ELSE 0
      BY <1>4
    <2> HIDE DEF K, f, h
    <2>6. OnlyCounts(K, h, f, Tid)
      <3>1. K \subseteq Tid  BY ONLY <1>5, <2>3
      <3>2. \A t \in K : f[t] \in Int /\ h[t] = f[t]  BY ONLY <1>5, <1>6, <2>3, <2>4, <2>5
      <3>3. \A t \in Tid : t \notin K => h[t] = 0  BY ONLY <1>5, <1>6, <2>3, <2>5
      <3> QED  BY ONLY <3>1, <3>2, <3>3 DEF OnlyCounts
    <2>7. SumFunctionOnSet(f, K) = SumFunctionOnSet(h, Tid)  BY ONLY <1>6, <2>6, SumSubset
    <2> QED  BY ONLY <2>1, <2>5, <2>7
  <1>8. Sum(LAMBDA t : stored[t].price * stored[t].volume, own(u, FALSE)) = Buys(x, r, u)
    <2> DEFINE K == own(u, FALSE)
               f == [t \in K |-> stored[t].price * stored[t].volume]
               h == BuyWeight(x, r, u)
    <2>1. Sum(LAMBDA t : stored[t].price * stored[t].volume, own(u, FALSE)) = SumFunctionOnSet(f, K)  BY DEF Sum
    <2>2. \A t : t \in K <=> t \in DOMAIN stored /\ stored[t].user = u /\ (stored[t].price > 0) = FALSE  OBVIOUS
    <2>3. \A t : t \in K <=> t \in DOMAIN stored /\ x[t].user = u /\ x[t].price < 0  BY ONLY <1>4, <1>5, <2>2
    <2>4. \A t \in K : f[t] = stored[t].price * stored[t].volume  OBVIOUS
    <2>5. Buys(x, r, u) = SumFunctionOnSet(h, Tid)
          /\ \A t \in Tid : h[t] = (IF x[t].user = u /\ x[t].price < 0 THEN x[t].price * r[t] ELSE 0) /\ h[t] \in Int
      BY <1>4
    <2> HIDE DEF K, f, h
    <2>6. OnlyCounts(K, h, f, Tid)
      <3>1. K \subseteq Tid  BY ONLY <1>5, <2>3
      <3>2. \A t \in K : f[t] = x[t].price * r[t] /\ t \in Tid  BY ONLY <1>5, <2>3, <2>4
      <3>3. \A t \in K : h[t] = x[t].price * r[t] /\ h[t] \in Int  BY ONLY <2>3, <2>5, <3>1
      <3>4. \A t \in K : f[t] \in Int /\ h[t] = f[t]  BY ONLY <3>2, <3>3
      <3>5. \A t \in Tid : t \notin K /\ r[t] > 0 => h[t] = 0  BY ONLY <1>5, <2>3, <2>5
      <3>6. \A t \in Tid : t \notin K /\ ~(r[t] > 0) => h[t] = 0
        <4> SUFFICES ASSUME NEW t \in Tid, ~(r[t] > 0) PROVE h[t] = 0  OBVIOUS
        <4>1. r[t] = 0 /\ x[t].price \in Int  BY ONLY <1>4, <1>6, t \in Tid, ~(r[t] > 0)
        <4>2. x[t].price * r[t] = 0  BY ONLY <4>1
        <4> QED  BY ONLY t \in Tid, <2>5, <4>2
      <3> QED  BY ONLY <3>1, <3>4, <3>5, <3>6 DEF OnlyCounts
    <2>7. SumFunctionOnSet(f, K) = SumFunctionOnSet(h, Tid)  BY ONLY <1>6, <2>6, SumSubset
    <2> QED  BY ONLY <2>1, <2>5, <2>7
  <1>9. Sells(x, r, u) \in Nat /\ Buys(x, r, u) \in Int  BY <1>1, <1>2, OfferTypes
  <1> HIDE DEF own
  <1>10. funds[u].cash >= SellCost(Sells(x, r, u))  BY ONLY <1>3 DEF Covers, SellCost
  <1>11. funds[u].money + MoneyTaxed(Buys(x, r, u)) >= 0
    <2>1. 100 * funds[u].money + 102 * Buys(x, r, u) >= 0  BY ONLY <1>3 DEF Covers
    <2> QED  BY ONLY <1>2, <1>9, <2>1, TaxedCovers
  <1> QED  BY ONLY <1>7, <1>8, <1>10, <1>11

LEMMA UnsentIs ==
    /\ \A i \in DOMAIN pending : i \in Unsent <=> IsUnsent(pending[i])
    /\ Unsent \subseteq DOMAIN pending
  BY DEF Unsent, IsUnsent

LEMMA SentIs ==
    ASSUME NEW op
    PROVE  /\ Sent(op) \subseteq DOMAIN calls
           /\ \A i \in DOMAIN calls : i \in Sent(op) <=> calls[i].op = op /\ calls[i].res = NoAnswer
  BY DEF Sent

\* A sum over the unsent deals.
LEMMA UnsentSum ==
    ASSUME NEW K, NEW f, NEW w \in [Dls -> Int], pending \in Seq(Dls), K \subseteq DOMAIN pending,
           \A i \in K : f[i] = w[pending[i]],
           \A i \in DOMAIN pending : i \notin K => w[pending[i]] = 0
    PROVE  SumFunctionOnSet(f, K) = SumOver(w, pending)
  <1> DEFINE S == 1 .. Len(pending)
             h == [i \in S |-> w[pending[i]]]
  <1>1. DOMAIN pending = S /\ Len(pending) \in Nat /\ \A i \in S : pending[i] \in Dls  BY LenProperties, ElementOfSeq
  <1>2. SumOver(w, pending) = SumFunctionOnSet(h, S)  BY DEF SumOver
  <1>3. IsFiniteSet(S)  BY <1>1, PlacesFinite
  <1>4. \A i \in S : h[i] = w[pending[i]]  OBVIOUS
  <1> HIDE DEF S, h
  <1>5. OnlyCounts(K, h, f, S)
    <2>1. \A i \in S : w[pending[i]] \in Int  BY <1>1
    <2> QED  BY <1>1, <1>4, <2>1 DEF OnlyCounts
  <1>6. SumFunctionOnSet(f, K) = SumFunctionOnSet(h, S)  BY ONLY <1>3, <1>5, SumSubset
  <1> QED  BY ONLY <1>2, <1>6

\* Requests about the same order are the same.
LEMMA SameRequest ==
    ASSUME Inv, NEW x, CallsAre(Requests, x), NEW i \in DOMAIN calls, NEW j \in DOMAIN calls,
           TidOf(calls[i]) # 0, TidOf(calls[i]) = TidOf(calls[j])
    PROVE  i = j
  <1>1. calls[i] \in Requests /\ calls[j] \in Requests  BY RequestIs
  <1>2. calls[i] = calls[j]  BY <1>1, OtherTids
  <1>3. Apart(calls)  BY RequestsApart
  <1> QED  BY ONLY <1>2, <1>3, i \in DOMAIN calls, j \in DOMAIN calls DEF Apart

LEMMA ExactHalves ==
    ASSUME Inv, NEW x, NEW H, NEW b, NEW d, NEW r, NEW a, NEW g, Exact(x, H, b, d, r, a, g)
    PROVE  BalanceCovered
  <1>1. CallsAre(Requests, x) /\ HalvesMeet(unmatched, pending, Requests, g) /\ pending \in Seq(Dls)
    BY DEF Exact, DealsAre
  <1>2. Sum(LAMBDA i : Half(pending[i].order.price > 0, pending[i].order.volume), Unsent) = SumOver(UnsentHalves, pending)
    <2> DEFINE K == Unsent
               f == [i \in K |-> Half(pending[i].order.price > 0, pending[i].order.volume)]
    <2>1. Sum(LAMBDA i : Half(pending[i].order.price > 0, pending[i].order.volume), Unsent) = SumFunctionOnSet(f, K)
      BY DEF Sum
    <2>2. \A i \in K : f[i] = HalfOf(pending[i])  BY DEF HalfOf
    <2>3. K \subseteq DOMAIN pending /\ \A i \in DOMAIN pending : i \in K <=> IsUnsent(pending[i])  BY UnsentIs
    <2>4. \A i \in DOMAIN pending : UnsentHalves[pending[i]] = IF IsUnsent(pending[i]) THEN HalfOf(pending[i]) ELSE 0
      <3>1. \A i \in DOMAIN pending : pending[i] \in Dls  BY <1>1, ElementOfSeq, LenProperties
      <3> QED  BY <3>1, DealWeighs
    <2> HIDE DEF K, f
    <2>5. UnsentHalves \in [Dls -> Int]  BY DealSums
    <2>6. /\ \A i \in K : f[i] = UnsentHalves[pending[i]]
          /\ \A i \in DOMAIN pending : i \notin K => UnsentHalves[pending[i]] = 0
      BY ONLY <2>2, <2>3, <2>4
    <2>7. SumFunctionOnSet(f, K) = SumOver(UnsentHalves, pending)  BY ONLY <1>1, <2>3, <2>5, <2>6, UnsentSum
    <2> QED  BY ONLY <2>1, <2>7
  <1>3. Sum(LAMBDA i : Half(calls[i].arg.ack_money > 0, calls[i].arg.ack_volume), Sent("BALANCE")) = SumFunctionOnSet(g, Tid)
    <2> DEFINE R == Sent("BALANCE")
               f == [i \in R |-> Half(calls[i].arg.ack_money > 0, calls[i].arg.ack_volume)]
               S == {t \in Tid : \E i \in R : TidOf(calls[i]) = t}
               name == [t \in S |-> CHOOSE i \in R : TidOf(calls[i]) = t]
    <2>1. Sum(LAMBDA i : Half(calls[i].arg.ack_money > 0, calls[i].arg.ack_volume), Sent("BALANCE")) = SumFunctionOnSet(f, R)
      BY DEF Sum
    <2>2. \A i \in R : f[i] = Half(calls[i].arg.ack_money > 0, calls[i].arg.ack_volume)  OBVIOUS
    <2>3. R \subseteq DOMAIN calls /\ \A i \in DOMAIN calls : i \in R <=> Unserved(calls[i])  BY SentIs DEF Unserved
    <2>4. \A i \in R : TidOf(calls[i]) \in Tid \ {0} /\ calls[i] \in Requests
      <3> SUFFICES ASSUME NEW i \in R PROVE TidOf(calls[i]) \in Tid \ {0} /\ calls[i] \in Requests  OBVIOUS
      <3>1. calls[i] \in Requests  BY <1>1, <2>3, RequestIs
      <3>2. calls[i].op = "BALANCE"  BY <2>3 DEF Unserved
      <3>3. TidOf(calls[i]) \in Tid \ {0}  BY <1>1, <3>1, <3>2, AboutOwn
      <3> QED  BY <3>1, <3>3
    <2>5. \A t \in S : name[t] \in R /\ TidOf(calls[name[t]]) = t  OBVIOUS
    <2>6. S \in SUBSET Tid /\ \A t \in Tid : t \in S <=> \E i \in R : TidOf(calls[i]) = t  OBVIOUS
    <2> HIDE DEF R, f, S, name
    <2>7. \A i, j \in R : TidOf(calls[i]) = TidOf(calls[j]) => i = j
      <3> SUFFICES ASSUME NEW i \in R, NEW j \in R, TidOf(calls[i]) = TidOf(calls[j]) PROVE i = j  OBVIOUS
      <3>1. i \in DOMAIN calls /\ j \in DOMAIN calls /\ TidOf(calls[i]) # 0  BY <2>3, <2>4
      <3> QED  BY <1>1, <3>1, SameRequest
    <2>8. Renaming(name, S, R)
      <3>1. \A i \in R : \E t \in S : name[t] = i  BY ONLY <2>4, <2>5, <2>6, <2>7
      <3>2. \A s, t \in S : name[s] = name[t] => s = t  BY ONLY <2>5
      <3> QED  BY ONLY <2>5, <3>1, <3>2 DEF Renaming
    <2>9. \A c \in Requests : Unserved(c) => g[TidOf(c)] = Half(c.arg.ack_money > 0, c.arg.ack_volume)
      BY <1>1 DEF HalvesMeet
    <2>10. g \in [Tid -> Int] /\ \A t \in Tid : (\A c \in Requests : Unserved(c) => TidOf(c) # t) => g[t] = 0
      BY <1>1 DEF HalvesMeet
    <2>11. \A t \in S : g[t] \in Int /\ f[name[t]] = g[t]  BY ONLY <2>2, <2>3, <2>4, <2>5, <2>6, <2>9, <2>10
    <2>12. \A t \in Tid : t \notin S => g[t] = 0
      <3>1. \A c \in Requests : Unserved(c) => \E i \in R : c = calls[i]  BY <2>3 DEF Requests, Range
      <3> QED  BY ONLY <2>6, <2>10, <3>1
    <2>13. SumFunctionOnSet(f, R) = SumFunctionOnSet(g, Tid)  BY ONLY <2>6, <2>8, <2>11, <2>12, ShownSum
    <2> QED  BY ONLY <2>1, <2>13
  <1>4. unmatched + SumOver(UnsentHalves, pending) + SumFunctionOnSet(g, Tid) = 0  BY <1>1 DEF HalvesMeet
  <1> QED  BY ONLY <1>2, <1>3, <1>4 DEF BalanceCovered

-----------------------------------------------------------------------------
\* The lots of an order in the book.
LEMMA BookLots ==
    ASSUME NEW x, NEW H, NEW b, BookIs(orders, x, H, b), NEW t \in Tid
    PROVE  Sum(LAMBDA i : orders[i].volume, {i \in DOMAIN orders : orders[i].tid = t}) = b[t]
  <1> DEFINE K == {i \in DOMAIN orders : orders[i].tid = t}
             f == [i \in K |-> orders[i].volume]
  <1>1. Sum(LAMBDA i : orders[i].volume, {i \in DOMAIN orders : orders[i].tid = t}) = SumFunctionOnSet(f, K)
    BY DEF Sum
  <1>2. \A i \in K : i \in DOMAIN orders /\ orders[i].tid = t /\ f[i] = orders[i].volume  OBVIOUS
  <1>3. \A i \in DOMAIN orders : orders[i].tid = t => i \in K  OBVIOUS
  <1> HIDE DEF K, f
  <1>4. CASE t \in H
    <2>1. PICK i \in DOMAIN orders : orders[i].tid = t  BY <1>4 DEF BookIs
    <2>2. i \in K /\ \A j \in K : j = i  BY <1>2, <1>3, <2>1 DEF BookIs, TidsApart
    <2>3. f[i] = b[t] /\ b[t] \in Int  BY <1>2, <2>1, <2>2 DEF BookIs
    <2>4. SumFunctionOnSet(f, K) = f[i]  BY ONLY <2>2, <2>3, SumOne
    <2> QED  BY ONLY <1>1, <2>3, <2>4
  <1>5. CASE t \notin H
    <2>1. K = {}  BY <1>2, <1>5 DEF BookIs
    <2>2. b[t] = 0  BY <1>5 DEF BookIs
    <2>3. SumFunctionOnSet(f, {}) = 0  BY SumEmpty
    <2> QED  BY ONLY <1>1, <2>1, <2>2, <2>3
  <1> QED  BY <1>4, <1>5

\* The lots of an order in deals that are not sent.
LEMMA UnsentDealLots ==
    ASSUME NEW x, NEW d, DealsAre(pending, x, d), NEW t \in Tid
    PROVE  Sum(LAMBDA i : pending[i].order.volume, {i \in Unsent : pending[i].order.tid = t}) = d[t]
  <1> DEFINE K == {i \in Unsent : pending[i].order.tid = t}
             f == [i \in K |-> pending[i].order.volume]
             w == UnsentLots(t)
  <1>1. Sum(LAMBDA i : pending[i].order.volume, {i \in Unsent : pending[i].order.tid = t}) = SumFunctionOnSet(f, K)
    BY DEF Sum
  <1>2. pending \in Seq(Dls) /\ d[t] = SumOver(w, pending)  BY DEF DealsAre
  <1>3. K \subseteq DOMAIN pending /\ \A i \in DOMAIN pending : i \in K <=> IsUnsent(pending[i]) /\ pending[i].order.tid = t
    BY UnsentIs
  <1>4. \A i \in K : f[i] = pending[i].order.volume  OBVIOUS
  <1>5. w \in [Dls -> Int]  BY DealSums
  <1>6. \A i \in DOMAIN pending : pending[i] \in Dls  BY <1>2, ElementOfSeq, LenProperties
  <1>7. \A i \in DOMAIN pending : w[pending[i]] = IF IsUnsent(pending[i]) /\ pending[i].order.tid = t THEN pending[i].order.volume ELSE 0
    BY <1>6, DealWeighs
  <1> HIDE DEF K, f, w
  <1>8. /\ \A i \in K : f[i] = w[pending[i]]
        /\ \A i \in DOMAIN pending : i \notin K => w[pending[i]] = 0
    BY ONLY <1>3, <1>4, <1>7
  <1>9. SumFunctionOnSet(f, K) = SumOver(w, pending)  BY ONLY <1>2, <1>3, <1>5, <1>8, UnsentSum
  <1> QED  BY ONLY <1>1, <1>2, <1>9

\* What the one request about an order adds, and none.
LEMMA RequestSum ==
    ASSUME Inv, NEW x, CallsAre(Requests, x), NEW t, t # 0, NEW K, NEW f,
           \A j \in K : j \in DOMAIN calls /\ TidOf(calls[j]) = t
    PROVE  /\ \A i \in K : f[i] \in Int => SumFunctionOnSet(f, K) = f[i]
           /\ K = {} => SumFunctionOnSet(f, K) = 0
  <1>1. ASSUME NEW i \in K, f[i] \in Int
        PROVE  SumFunctionOnSet(f, K) = f[i]
    <2>1. \A j \in K : j = i
      <3> SUFFICES ASSUME NEW j \in K PROVE j = i  OBVIOUS
      <3>1. /\ i \in DOMAIN calls /\ j \in DOMAIN calls
            /\ TidOf(calls[i]) = t /\ TidOf(calls[j]) = t
        OBVIOUS
      <3>2. TidOf(calls[j]) # 0 /\ TidOf(calls[j]) = TidOf(calls[i])  BY <3>1
      <3> QED  BY <3>1, <3>2, SameRequest
    <2> QED  BY ONLY <1>1, <2>1, SumOne
  <1>2. K = {} => SumFunctionOnSet(f, K) = 0  BY SumEmpty
  <1> QED  BY <1>1, <1>2

\* The three sums over requests about an order.
Asked1(t) == {i \in DOMAIN calls : calls[i].op = "COMMISSION" /\ calls[i].arg.order.tid = t}
Asked2(t) == {i \in Sent("BALANCE") : calls[i].arg.tid = t}
Asked3(t) == {i \in Sent("CANCEL") : calls[i].arg.tid = t}

OfferAsked(t)  == Sum(LAMBDA i : calls[i].arg.order.volume - calls[i].arg.ack_volume, Asked1(t))
DealAsked(t)   == Sum(LAMBDA i : calls[i].arg.ack_volume, Asked2(t))
CancelAsked(t) == Sum(LAMBDA i : calls[i].arg.volume, Asked3(t))

LEMMA AskedAre ==
    ASSUME NEW x, CallsAre(Requests, x), NEW t, NEW i \in DOMAIN calls
    PROVE  /\ i \in Asked1(t) <=> calls[i].op = "COMMISSION" /\ TidOf(calls[i]) = t
           /\ i \in Asked2(t) <=> calls[i].op = "BALANCE" /\ calls[i].res = NoAnswer /\ TidOf(calls[i]) = t
           /\ i \in Asked3(t) <=> calls[i].op = "CANCEL" /\ calls[i].res = NoAnswer /\ TidOf(calls[i]) = t
  BY DEF Asked1, Asked2, Asked3, Sent, TidOf

LEMMA AskedSums ==
    ASSUME Inv, NEW x, CallsAre(Requests, x), NEW t, t # 0
    PROVE  /\ \A i \in Asked1(t) : calls[i].arg.order.volume - calls[i].arg.ack_volume \in Int =>
                  OfferAsked(t) = calls[i].arg.order.volume - calls[i].arg.ack_volume
           /\ Asked1(t) = {} => OfferAsked(t) = 0
           /\ \A i \in Asked2(t) : calls[i].arg.ack_volume \in Int => DealAsked(t) = calls[i].arg.ack_volume
           /\ Asked2(t) = {} => DealAsked(t) = 0
           /\ \A i \in Asked3(t) : calls[i].arg.volume \in Int => CancelAsked(t) = calls[i].arg.volume
           /\ Asked3(t) = {} => CancelAsked(t) = 0
  <1>1. /\ \A j \in Asked1(t) : j \in DOMAIN calls /\ TidOf(calls[j]) = t
        /\ \A j \in Asked2(t) : j \in DOMAIN calls /\ TidOf(calls[j]) = t
        /\ \A j \in Asked3(t) : j \in DOMAIN calls /\ TidOf(calls[j]) = t
    BY AskedAre DEF Asked1, Asked2, Asked3, Sent
  <1>2. /\ \A i \in Asked1(t) : calls[i].arg.order.volume - calls[i].arg.ack_volume \in Int =>
               OfferAsked(t) = calls[i].arg.order.volume - calls[i].arg.ack_volume
        /\ Asked1(t) = {} => OfferAsked(t) = 0
    <2> DEFINE K == Asked1(t)
               f == [i \in K |-> calls[i].arg.order.volume - calls[i].arg.ack_volume]
    <2>1. OfferAsked(t) = SumFunctionOnSet(f, K)  BY DEF OfferAsked, Sum
    <2>2. \A i \in K : f[i] = calls[i].arg.order.volume - calls[i].arg.ack_volume  OBVIOUS
    <2> HIDE DEF f
    <2>3. /\ \A i \in K : f[i] \in Int => SumFunctionOnSet(f, K) = f[i]
          /\ K = {} => SumFunctionOnSet(f, K) = 0
      BY <1>1, RequestSum
    <2> QED  BY ONLY <2>1, <2>2, <2>3
  <1>3. /\ \A i \in Asked2(t) : calls[i].arg.ack_volume \in Int => DealAsked(t) = calls[i].arg.ack_volume
        /\ Asked2(t) = {} => DealAsked(t) = 0
    <2> DEFINE K == Asked2(t)
               f == [i \in K |-> calls[i].arg.ack_volume]
    <2>1. DealAsked(t) = SumFunctionOnSet(f, K)  BY DEF DealAsked, Sum
    <2>2. \A i \in K : f[i] = calls[i].arg.ack_volume  OBVIOUS
    <2> HIDE DEF f
    <2>3. /\ \A i \in K : f[i] \in Int => SumFunctionOnSet(f, K) = f[i]
          /\ K = {} => SumFunctionOnSet(f, K) = 0
      BY <1>1, RequestSum
    <2> QED  BY ONLY <2>1, <2>2, <2>3
  <1>4. /\ \A i \in Asked3(t) : calls[i].arg.volume \in Int => CancelAsked(t) = calls[i].arg.volume
        /\ Asked3(t) = {} => CancelAsked(t) = 0
    <2> DEFINE K == Asked3(t)
               f == [i \in K |-> calls[i].arg.volume]
    <2>1. CancelAsked(t) = SumFunctionOnSet(f, K)  BY DEF CancelAsked, Sum
    <2>2. \A i \in K : f[i] = calls[i].arg.volume  OBVIOUS
    <2> HIDE DEF f
    <2>3. /\ \A i \in K : f[i] \in Int => SumFunctionOnSet(f, K) = f[i]
          /\ K = {} => SumFunctionOnSet(f, K) = 0
      BY <1>1, RequestSum
    <2> QED  BY ONLY <2>1, <2>2, <2>3
  <1> QED  BY <1>2, <1>3, <1>4

LEMMA ExactLots ==
    ASSUME Inv, NEW x, NEW H, NEW b, NEW d, NEW r, NEW a, NEW g, Exact(x, H, b, d, r, a, g)
    PROVE  NothingForgotten
  <1> SUFFICES ASSUME NEW t \in DOMAIN stored
               PROVE  stored[t].volume = OnOffer(t) + Dealt(t) + Cancelling(t)
    BY DEF NothingForgotten
  <1>1. /\ CallsAre(Requests, x) /\ Ledger(Requests, H, b, d, r, a) /\ RowsAre(stored, x, r)
        /\ BookIs(orders, x, H, b) /\ DealsAre(pending, x, d) /\ AccountsAre(accounts, x, a)
    BY DEF Exact
  <1>2. t \in Tid /\ stored[t].volume = r[t] /\ r[t] > 0  BY <1>1, StoredAt
  <1>3. t # 0  BY <1>1, <1>2 DEF RowsAre
  <1>4. /\ b[t] \in Nat /\ d[t] \in Int /\ r[t] \in Nat /\ a[t] \in Nat
        /\ (t \notin H => b[t] = 0)
    BY ONLY <1>1, <1>2 DEF RowsAre, BookIs, DealsAre, AccountsAre
  <1>5. OnOffer(t) = b[t] + OfferAsked(t)
    <2>1. Sum(LAMBDA i : orders[i].volume, {i \in DOMAIN orders : orders[i].tid = t}) = b[t]
      BY ONLY <1>1, <1>2, BookLots
    <2> QED  BY ONLY <2>1 DEF OnOffer, OfferAsked, Asked1
  <1>6. Dealt(t) = d[t] + DealAsked(t)
    <2>1. Sum(LAMBDA i : pending[i].order.volume, {i \in Unsent : pending[i].order.tid = t}) = d[t]
      BY ONLY <1>1, <1>2, UnsentDealLots
    <2> QED  BY ONLY <2>1 DEF Dealt, DealAsked, Asked2
  <1>7. Cancelling(t) = CancelAsked(t)  BY DEF Cancelling, CancelAsked, Asked3
  <1>8. /\ \A i \in Asked1(t) : calls[i].arg.order.volume - calls[i].arg.ack_volume \in Int =>
               OfferAsked(t) = calls[i].arg.order.volume - calls[i].arg.ack_volume
        /\ Asked1(t) = {} => OfferAsked(t) = 0
        /\ \A i \in Asked2(t) : calls[i].arg.ack_volume \in Int => DealAsked(t) = calls[i].arg.ack_volume
        /\ Asked2(t) = {} => DealAsked(t) = 0
        /\ \A i \in Asked3(t) : calls[i].arg.volume \in Int => CancelAsked(t) = calls[i].arg.volume
        /\ Asked3(t) = {} => CancelAsked(t) = 0
    BY <1>1, <1>3, AskedSums
  <1>9. \A j \in DOMAIN calls :
            /\ j \in Asked1(t) <=> calls[j].op = "COMMISSION" /\ TidOf(calls[j]) = t
            /\ j \in Asked2(t) <=> calls[j].op = "BALANCE" /\ calls[j].res = NoAnswer /\ TidOf(calls[j]) = t
            /\ j \in Asked3(t) <=> calls[j].op = "CANCEL" /\ calls[j].res = NoAnswer /\ TidOf(calls[j]) = t
    BY <1>1, AskedAre
  <1>10. Asked1(t) \subseteq DOMAIN calls /\ Asked2(t) \subseteq DOMAIN calls /\ Asked3(t) \subseteq DOMAIN calls
    BY DEF Asked1, Asked2, Asked3, Sent
  <1> HIDE DEF OnOffer, Dealt, Cancelling, OfferAsked, DealAsked, CancelAsked, Asked1, Asked2, Asked3
  <1>11. CASE \A j \in DOMAIN calls : TidOf(calls[j]) # t
    <2>1. Asked1(t) = {} /\ Asked2(t) = {} /\ Asked3(t) = {}  BY ONLY <1>9, <1>10, <1>11
    <2>2. OfferAsked(t) = 0 /\ DealAsked(t) = 0 /\ CancelAsked(t) = 0  BY ONLY <1>8, <2>1
    <2>3. b[t] + d[t] = r[t]
      <3>1. \A c \in Requests : TidOf(c) # t  BY <1>11 DEF Requests, Range
      <3> QED  BY <1>1, <1>2, <1>3, <3>1 DEF Ledger
    <2> QED  BY ONLY <1>2, <1>4, <1>5, <1>6, <1>7, <2>2, <2>3
  <1>12. ASSUME NEW i \in DOMAIN calls, TidOf(calls[i]) = t
         PROVE  stored[t].volume = OnOffer(t) + Dealt(t) + Cancelling(t)
    <2>1. PICK c : c = calls[i]  OBVIOUS
    <2>2. c \in Requests /\ CallIs(c, x) /\ TidOf(c) = t  BY <1>1, <1>12, <2>1, RequestIs
    <2>3. Settling(c, H, b, d, r, a)  BY ONLY <1>1, <2>2 DEF Ledger
    <2>4. \A j \in DOMAIN calls : TidOf(calls[j]) = t => calls[j] = c
      <3> SUFFICES ASSUME NEW j \in DOMAIN calls, TidOf(calls[j]) = t PROVE calls[j] = c  OBVIOUS
      <3>1. j = i  BY <1>1, <1>3, <1>12, SameRequest
      <3> QED  BY <2>1, <3>1
    <2>5. c.op \in {"COMMISSION", "BALANCE", "CANCEL"}  BY ONLY <1>3, <2>2 DEF CallIs, TidOf
    <2>6. CASE c.op = "COMMISSION"
      <3>1. i \in Asked1(t) /\ Asked2(t) = {} /\ Asked3(t) = {}
        BY ONLY <1>9, <1>10, <2>1, <2>2, <2>4, <2>6, i \in DOMAIN calls
      <3>2. c.arg.order.volume \in Int /\ c.arg.ack_volume \in Int  BY ONLY <2>2, <2>6 DEF CallIs, Ord, OrdersOf
      <3>3. OfferAsked(t) = c.arg.order.volume - c.arg.ack_volume  BY ONLY <1>8, <2>1, <3>1, <3>2
      <3>4. DealAsked(t) = 0 /\ CancelAsked(t) = 0  BY ONLY <1>8, <3>1
      <3>5. b[t] = 0 /\ d[t] = c.arg.ack_volume /\ r[t] = c.arg.order.volume
        BY ONLY <1>2, <1>4, <2>2, <2>3, <2>6 DEF Settling
      <3> QED  BY ONLY <1>2, <1>5, <1>6, <1>7, <3>2, <3>3, <3>4, <3>5
    <2>7. CASE c.op = "BALANCE"
      <3>1. Asked1(t) = {} /\ Asked3(t) = {}  BY ONLY <1>9, <1>10, <2>4, <2>7
      <3>2. c.arg.ack_volume \in Int  BY ONLY <2>2, <2>7 DEF CallIs
      <3>3. OfferAsked(t) = 0 /\ CancelAsked(t) = 0  BY ONLY <1>8, <3>1
      <3>4. a[t] = b[t] + d[t] + c.arg.ack_volume /\ r[t] = IF c.res = NoAnswer THEN a[t] ELSE b[t] + d[t]
        BY ONLY <2>2, <2>3, <2>7 DEF Settling
      <3>5. CASE c.res = NoAnswer
        <4>1. i \in Asked2(t)  BY ONLY <1>9, <2>1, <2>2, <2>7, <3>5, i \in DOMAIN calls
        <4>2. DealAsked(t) = c.arg.ack_volume  BY ONLY <1>8, <2>1, <3>2, <4>1
        <4> QED  BY ONLY <1>2, <1>4, <1>5, <1>6, <1>7, <3>2, <3>3, <3>4, <3>5, <4>2
      <3>6. CASE c.res # NoAnswer
        <4>1. Asked2(t) = {}  BY ONLY <1>9, <1>10, <2>4, <3>6
        <4>2. DealAsked(t) = 0  BY ONLY <1>8, <4>1
        <4> QED  BY ONLY <1>2, <1>4, <1>5, <1>6, <1>7, <3>3, <3>4, <3>6, <4>2
      <3> QED  BY <3>5, <3>6
    <2>8. CASE c.op = "CANCEL"
      <3>1. Asked1(t) = {} /\ Asked2(t) = {}  BY ONLY <1>9, <1>10, <2>4, <2>8
      <3>2. OfferAsked(t) = 0 /\ DealAsked(t) = 0  BY ONLY <1>8, <3>1
      <3>3. b[t] = 0 /\ d[t] = 0 /\ c.arg.volume = a[t] /\ r[t] = IF c.res = NoAnswer THEN a[t] ELSE 0
        BY ONLY <2>2, <2>3, <2>8 DEF Settling
      <3>4. c.res = NoAnswer /\ r[t] = a[t]  BY ONLY <1>2, <1>4, <3>3
      <3>5. i \in Asked3(t)  BY ONLY <1>9, <2>1, <2>2, <2>8, <3>4, i \in DOMAIN calls
      <3>6. CancelAsked(t) = a[t]  BY ONLY <1>4, <1>8, <2>1, <3>3, <3>5
      <3> QED  BY ONLY <1>2, <1>4, <1>5, <1>6, <1>7, <3>2, <3>3, <3>4, <3>6
    <2> QED  BY <2>5, <2>6, <2>7, <2>8
  <1> QED  BY <1>11, <1>12

LEMMA ExactBookTypes ==
    ASSUME NEW x, NEW H, NEW b, BookIs(orders, x, H, b), VolumesAre(volumes, orders)
    PROVE  orders \in Seq(Orders) /\ volumes \in [Prices -> Nat]
  <1>1. orders \in Seq(Ord)  BY DEF BookIs
  <1>2. orders \in [1 .. Len(orders) -> Ord] /\ DOMAIN orders = 1 .. Len(orders) /\ Len(orders) \in Nat
    BY <1>1, LenProperties
  <1>3. \A i \in 1 .. Len(orders) : orders[i] \in Ord /\ orders[i].volume \in Nat
    <2>1. \A i \in 1 .. Len(orders) : orders[i].volume = b[orders[i].tid] /\ orders[i].tid \in H  BY <1>2 DEF BookIs
    <2>2. b \in [Tid -> Nat] /\ H \subseteq Tid  BY DEF BookIs
    <2> QED  BY ONLY <1>2, <2>1, <2>2
  <1>4. \A o \in Ord : o.volume \in Nat => o \in Orders  BY DEF Ord, OrdersOf, Orders
  <1>5. orders \in Seq(Orders)
    <2>1. orders \in [1 .. Len(orders) -> Orders]  BY ONLY <1>2, <1>3, <1>4
    <2> QED  BY ONLY <1>2, <2>1
  <1>6. \A p \in Prices : volumes[p] \in Nat
    <2> SUFFICES ASSUME NEW p \in Prices PROVE volumes[p] \in Nat  OBVIOUS
    <2>1. volumes[p] = SumOver(AtPrice(Ord, p), orders) /\ volumes[p] \in Int  BY DEF VolumesAre, OfferedAt
    <2>2. AtPrice(Ord, p) \in [Ord -> Int]  BY DEF AtPrice, Ord, OrdersOf
    <2>3. \A i \in 1 .. Len(orders) : AtPrice(Ord, p)[orders[i]] >= 0
      <3>1. \A i \in 1 .. Len(orders) : AtPrice(Ord, p)[orders[i]] = IF orders[i].price = p THEN orders[i].volume ELSE 0
        BY <1>3, WeighsAtPrice
      <3> QED  BY ONLY <1>3, <3>1
    <2>4. SumOver(AtPrice(Ord, p), orders) >= 0  BY ONLY <1>2, <2>2, <2>3, SumOverSign
    <2> QED  BY ONLY <2>1, <2>4
  <1>7. volumes \in [Prices -> Nat]
    <2>1. volumes \in [Prices -> Int]  BY DEF VolumesAre
    <2> QED  BY ONLY <1>6, <2>1
  <1> QED  BY <1>5, <1>7

LEMMA ExactDealTypes ==
    ASSUME NEW x, NEW d, DealsAre(pending, x, d)
    PROVE  pending \in Seq([order : Orders, dealtid : Tid, ack_money : Int, status : Statuses])
  <1> DEFINE D == [order : Orders, dealtid : Tid, ack_money : Int, status : Statuses]
  <1>1. pending \in Seq(Dls) /\ \A k \in DOMAIN pending : pending[k].order.volume > 0  BY DEF DealsAre
  <1>2. pending \in [1 .. Len(pending) -> Dls] /\ DOMAIN pending = 1 .. Len(pending) /\ Len(pending) \in Nat
    BY <1>1, LenProperties
  <1>3. \A e \in Dls : e.order.volume > 0 => e \in D
    <2> SUFFICES ASSUME NEW e \in Dls, e.order.volume > 0 PROVE e \in D  OBVIOUS
    <2>1. e.order \in Ord  BY DealWeighs
    <2>2. e.order \in Orders  BY ONLY <2>1, e.order.volume > 0 DEF Ord, OrdersOf, Orders
    <2> QED  BY <2>2 DEF Dls, DealsOf, Statuses
  <1>4. pending \in [1 .. Len(pending) -> D]  BY ONLY <1>1, <1>2, <1>3
  <1> HIDE DEF D
  <1>5. pending \in Seq(D)  BY ONLY <1>2, <1>4
  <1> QED  BY <1>5 DEF D

LEMMA ExactAccountTypes ==
    ASSUME Inv, NEW x \in [Tid -> Whose], NEW a, AccountsAre(accounts, x, a)
    PROVE  /\ DOMAIN accounts = User
           /\ \A u \in DOMAIN accounts :
                  accounts[u] \in [cash : Int, money : Int, locked : BOOLEAN, orders : SUBSET OpenOrders]
  <1>1. DOMAIN accounts = User  BY DEF AccountsAre
  <1>2. ASSUME NEW u \in User
        PROVE  accounts[u] \in [cash : Int, money : Int, locked : BOOLEAN, orders : SUBSET OpenOrders]
    <2>1. IsAccount(accounts[u])  BY <1>1 DEF Inv, Sound, AccountsSound
    <2>2. accounts[u].cash \in Int /\ accounts[u].money \in Int /\ accounts[u].orders = Shown(x, a, u)
      BY DEF AccountsAre
    <2>3. Shown(x, a, u) \subseteq OpenOrders
      <3> SUFFICES ASSUME NEW o \in Shown(x, a, u) PROVE o \in OpenOrders  OBVIOUS
      <3>1. PICK t \in Tid : a[t] > 0 /\ o = OrderShown(x, a, t)  BY ShownIs
      <3>2. x[t].price \in Prices /\ a[t] \in Nat \ {0}  BY <3>1 DEF Whose, AccountsAre
      <3> QED  BY <3>1, <3>2 DEF OrderShown, OpenOrders
    <2>4. accounts[u].locked \in BOOLEAN  BY ONLY <2>1 DEF IsAccount
    <2>5. accounts[u] = [cash |-> accounts[u].cash, money |-> accounts[u].money, locked |-> accounts[u].locked,
                         orders |-> accounts[u].orders]
      BY ONLY <2>1 DEF IsAccount
    <2>6. accounts[u].orders \in SUBSET OpenOrders  BY ONLY <2>2, <2>3
    <2> QED  BY ONLY <2>2, <2>4, <2>5, <2>6
  <1> QED  BY <1>1, <1>2

LEMMA ExactTypes ==
    ASSUME Inv, NEW x, NEW H, NEW b, NEW d, NEW r, NEW a, NEW g, Exact(x, H, b, d, r, a, g)
    PROVE  TypeOK
  <1>1. /\ status = "TRADING" /\ online = User /\ x \in [Tid -> Whose]
        /\ faults \in 0 .. MaxFaults /\ crashes = 0
        /\ BookIs(orders, x, H, b) /\ VolumesAre(volumes, orders) /\ DealsAre(pending, x, d)
        /\ RowsAre(stored, x, r) /\ AccountsAre(accounts, x, a) /\ CallsAre(Requests, x)
        /\ IdsAre(idpool, nextid, H, pending, Requests, r, a) /\ FundsAre(funds, accounts, Requests)
        /\ HalvesMeet(unmatched, pending, Requests, g)
    BY DEF Exact
  <1>2. crashes \in 0 .. MaxCrashes  BY <1>1, ExchangeAssumption
  <1>3. orders \in Seq(Orders) /\ volumes \in [Prices -> Nat]  BY <1>1, ExactBookTypes
  <1>4. pending \in Seq([order : Orders, dealtid : Tid, ack_money : Int, status : Statuses])  BY <1>1, ExactDealTypes
  <1>5. /\ DOMAIN accounts = User
        /\ \A u \in DOMAIN accounts :
               accounts[u] \in [cash : Int, money : Int, locked : BOOLEAN, orders : SUBSET OpenOrders]
    BY <1>1, ExactAccountTypes
  <1>6. idpool \subseteq Tid /\ nextid \in Tid /\ funds \in [User -> [cash : Int, money : Int]] /\ unmatched \in Int
    BY <1>1 DEF IdsAre, FundsAre, HalvesMeet
  <1>7. \A i \in DOMAIN calls : calls[i].user \in User /\ calls[i].waiting \in BOOLEAN
    <2>1. \A i \in DOMAIN calls : CallIs(calls[i], x)  BY <1>1, RequestIs
    <2>2. \A i \in DOMAIN calls : IsCall(calls[i])  BY DEF Inv, Sound, CallsSound
    <2> QED  BY <2>1, <2>2 DEF CallIs, IsCall
  <1>8. \A t \in DOMAIN stored : stored[t] \in Orders /\ stored[t].volume > 0
    <2> SUFFICES ASSUME NEW t \in DOMAIN stored PROVE stored[t] \in Orders /\ stored[t].volume > 0  OBVIOUS
    <2>1. t \in Tid /\ r[t] > 0 /\ stored[t] = [tid |-> t, user |-> x[t].user, price |-> x[t].price, volume |-> r[t]]
      BY <1>1, StoredAt
    <2>2. r[t] \in Nat /\ x[t].user \in User /\ x[t].price \in Prices  BY <1>1, <2>1 DEF RowsAre, Whose
    <2> QED  BY ONLY <2>1, <2>2 DEF Orders
  <1> QED  BY ONLY <1>1, <1>2, <1>3, <1>4, <1>5, <1>6, <1>7, <1>8 DEF TypeOK

-----------------------------------------------------------------------------
(***************************************************************************)
(* The invariants, while nothing disturbs the exchange: for any users,     *)
(* prices, volumes, transfers, funds and bounds on ids, orders and money,  *)
(* in every order in which requests are made, served and answered.         *)
(***************************************************************************)
ExactInv == Inv /\ ExactNow

LEMMA ExactAlways ==
    ASSUME Undisturbed
    PROVE  Spec => []ExactInv
  <1>1. Init => ExactInv  BY InitInv, InitExact DEF ExactInv, Undisturbed
  <1>2. ExactInv /\ [Next]_vars => ExactInv'
    <2> SUFFICES ASSUME Inv, ExactNow, [Next]_vars PROVE Inv' /\ ExactNow'  BY DEF ExactInv
    <2>1. Inv'  BY NextKeepsInv DEF Undisturbed
    <2>2. ExactNow'  BY NextKeepsExact
    <2> QED  BY <2>1, <2>2
  <1> QED  BY <1>1, <1>2, PTL DEF Spec

LEMMA ExactSays ==
    ASSUME ExactInv
    PROVE  /\ TypeOK /\ NothingForgotten /\ FundsCovered /\ AccountAgrees
           /\ BalanceCovered /\ VolumesAgree /\ IdsHeld
  <1>1. Inv /\ ExactNow  BY DEF ExactInv
  <1>2. PICK x, H, b, d, r, a, g : Exact(x, H, b, d, r, a, g)  BY <1>1 DEF ExactNow
  <1>3. TypeOK  BY <1>1, <1>2, ExactTypes
  <1>4. NothingForgotten  BY <1>1, <1>2, ExactLots
  <1>5. FundsCovered  BY <1>2, ExactFunds
  <1>6. AccountAgrees  BY <1>2, ExactAccounts
  <1>7. BalanceCovered  BY <1>1, <1>2, ExactHalves
  <1>8. VolumesAgree  BY <1>2, ExactVolumes
  <1>9. IdsHeld  BY <1>2, ExactIds
  <1> QED  BY <1>3, <1>4, <1>5, <1>6, <1>7, <1>8, <1>9

\* Each variable keeps its type: no account shows a spent order, the book and the volumes
\* shown never go below zero, every id fits the pool.
THEOREM TypeOKHolds ==
    ASSUME Undisturbed
    PROVE  Spec => []TypeOK
  <1>1. Spec => []ExactInv  BY ExactAlways
  <1>2. ExactInv => TypeOK  BY ExactSays
  <1> QED  BY <1>1, <1>2, PTL

\* Every lot of a stored order is on offer, in one deal on its way to the database or being
\* cancelled, and in one of them only: a lot can not be sold twice, nor get lost between the
\* matching in memory (PriceMatching) and the settlement in the database (DBStockBalance).
THEOREM NothingForgottenHolds ==
    ASSUME Undisturbed
    PROVE  Spec => []NothingForgotten
  <1>1. Spec => []ExactInv  BY ExactAlways
  <1>2. ExactInv => NothingForgotten  BY ExactSays
  <1> QED  BY <1>1, <1>2, PTL

\* Nobody's stored orders are worth more than he owns, tax included: what CheckFree allowed
\* when an order was placed still holds when gamedbd stores it, through all deals, cancels and
\* withdrawals in between (a rounding that lets an order cost one yuanbao too little is excluded).
THEOREM FundsCoveredHolds ==
    ASSUME Undisturbed
    PROVE  Spec => []FundsCovered
  <1>1. Spec => []ExactInv  BY ExactAlways
  <1>2. ExactInv => FundsCovered  BY ExactSays
  <1> QED  BY <1>1, <1>2, PTL

\* An account no request is about shows the funds and orders that gamedbd holds, whatever
\* deals others made with its orders.
THEOREM AccountAgreesHolds ==
    ASSUME Undisturbed
    PROVE  Spec => []AccountAgrees
  <1>1. Spec => []ExactInv  BY ExactAlways
  <1>2. ExactInv => AccountAgrees  BY ExactSays
  <1> QED  BY <1>1, <1>2, PTL

\* The lots gamedbd has sold and not bought (its row STOCK_BALANCE_ID) are those of the
\* halves of deals that have not been settled.
THEOREM BalanceCoveredHolds ==
    ASSUME Undisturbed
    PROVE  Spec => []BalanceCovered
  <1>1. Spec => []ExactInv  BY ExactAlways
  <1>2. ExactInv => BalanceCovered  BY ExactSays
  <1> QED  BY <1>1, <1>2, PTL

\* The volume shown at each price is the volume of the orders in the book at that price.
THEOREM VolumesAgreeHolds ==
    ASSUME Undisturbed
    PROVE  Spec => []VolumesAgree
  <1>1. Spec => []ExactInv  BY ExactAlways
  <1>2. ExactInv => VolumesAgree  BY ExactSays
  <1> QED  BY <1>1, <1>2, PTL

\* The ids of stored orders, of the book and of deals and commissions under way are held in
\* the pool, so that an id in use is never given to another order, also when ids wrap around.
THEOREM IdsHeldHolds ==
    ASSUME Undisturbed
    PROVE  Spec => []IdsHeld
  <1>1. Spec => []ExactInv  BY ExactAlways
  <1>2. ExactInv => IdsHeld  BY ExactSays
  <1> QED  BY <1>1, <1>2, PTL

================================================================================
