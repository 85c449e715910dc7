---------------------------- MODULE TradeGoodsProofs ----------------------------
(***************************************************************************)
(* What holds of the goods of one trade for any pockets, any ids and any   *)
(* requests: while the traders bargain, goods offered have a home to go    *)
(* back to, no slot holds two stacks, and money and goods are neither lost *)
(* nor made; what is saved in the end adds up to what gamedbd holds, and   *)
(* the trade keeps its contract (TradeContract).                           *)
(*                                                                         *)
(* The invariant Inv is inductive because its parts hold each other up:    *)
(* that a request finds one stack needs one stack a slot; that an offer    *)
(* from a slot is a single stack needs the home of every offer; and a move *)
(* leaves the homes alone because it refuses slots something is offered    *)
(* from.  The invariants that follow it (GoodsInv, PocketsInv, SaveInv,    *)
(* ContractInv) add what the goods come to.                                *)
(***************************************************************************)
EXTENDS TradeGoods, AlgorithmLemmas

\* Everything a stack in the offer was taken from is still in the pocket.
Homed(exchg, pssn) == \A g \in exchg : Has(pssn, g)

Inv ==
    /\ state \in Exchanging \cup Settling \cup Saving \cup {"Null"}
    /\ Bargaining =>
        /\ tstate \in [Side -> {"EXCHANGE", "READY", "CONFIRM"}]
        /\ possession \in [Side -> SUBSET Stack]
        /\ exchg_obj \in [Side -> SUBSET Stack]
        /\ pssn_money \in [Side -> Nat]
        /\ exchg_money \in [Side -> Nat]
        /\ db \in [Side -> Pocket]
        /\ save = NoSave
        /\ \A s \in Side : /\ OnePerSlot(possession[s])
                           /\ OnePerSlot(exchg_obj[s])
                           /\ Homed(exchg_obj[s], possession[s])
                           /\ Within(possession[s], exchg_obj[s])
                           /\ pssn_money[s] + exchg_money[s] = db[s].money

-----------------------------------------------------------------------------
\* Lemmas on sets of stacks.

\* A request that names a stack that is there finds one of that name.
LEMMA FindSame ==
    ASSUME NEW items, NEW g, Has(items, g)
    PROVE  Find(items, g) \in items /\ Same(Find(items, g), g)
  BY DEF Has, Find

\* With one stack a slot, the stack a verified request finds has enough of it.
LEMMA VerifiedCount ==
    ASSUME NEW items, NEW g, OnePerSlot(items), VerifyGoods(items, g)
    PROVE  Has(items, g) /\ Find(items, g).count >= g.count
  <1>1. PICK x \in items : Same(x, g) /\ x.count >= g.count
    BY DEF VerifyGoods
  <1>2. Has(items, g)
    BY <1>1 DEF Has
  <1>3. Find(items, g) = x
    BY <1>1, <1>2, FindSame DEF OnePerSlot, Same
  <1> QED
    BY <1>1, <1>2, <1>3

\* A stack whose count changes keeps its id and position.
LEMMA Recounted ==
    ASSUME NEW x \in Stack, NEW n \in Nat
    PROVE  /\ [x EXCEPT !.count = n] \in Stack
           /\ [x EXCEPT !.count = n].id = x.id
           /\ [x EXCEPT !.count = n].pos = x.pos
           /\ [x EXCEPT !.count = n].count = n
  BY DEF Stack

Replaced(items, x, r) == (items \ {x}) \cup {r}

\* Replacing a stack by one of the same id and slot leaves every stack in its
\* slot.
LEMMA ReplaceKeeps ==
    ASSUME NEW items \in SUBSET Stack, NEW x \in items, NEW r \in Stack,
           OnePerSlot(items), r.id = x.id, r.pos = x.pos
    PROVE  /\ Replaced(items, x, r) \in SUBSET Stack
           /\ OnePerSlot(Replaced(items, x, r))
           /\ \A y : Has(items, y) <=> Has(Replaced(items, x, r), y)
           /\ \A y \in Replaced(items, x, r) : y = r \/ (y \in items /\ y.pos # x.pos)
  <1>1. OnePerSlot(Replaced(items, x, r))
    BY DEF Replaced, OnePerSlot
  <1>2. \A y : Has(items, y) <=> Has(Replaced(items, x, r), y)
    BY DEF Replaced, Has, Same
  <1>3. \A y \in Replaced(items, x, r) : y = r \/ (y \in items /\ y.pos # x.pos)
    BY DEF Replaced, OnePerSlot
  <1> QED
    BY <1>1, <1>2, <1>3 DEF Replaced

\* Taking part of a stack away keeps every stack in its slot, even an empty one.
LEMMA LessKeeps ==
    ASSUME NEW items \in SUBSET Stack, NEW g, NEW n \in Nat,
           OnePerSlot(items), Has(items, g), Find(items, g).count >= n
    PROVE  /\ Less(items, g, n) \in SUBSET Stack
           /\ OnePerSlot(Less(items, g, n))
           /\ \A y : Has(items, y) <=> Has(Less(items, g, n), y)
           /\ \A y \in Less(items, g, n) :
                 \/ y \in items /\ y.pos # g.pos
                 \/ Same(y, g) /\ y.count = Find(items, g).count - n
  <1> DEFINE x == Find(items, g)
  <1>1. x \in Stack
    BY FindSame
  <1> DEFINE m == x.count - n
  <1>2. m \in Nat
    BY <1>1 DEF Stack
  <1> DEFINE r == [x EXCEPT !.count = m]
  <1>3. Less(items, g, n) = Replaced(items, x, r)
    BY DEF Less, Replaced
  <1>4. x \in items /\ Same(x, g)
    BY FindSame
  <1>5. r \in Stack /\ r.id = x.id /\ r.pos = x.pos /\ r.count = m
    BY <1>1, <1>2, Recounted
  <1> HIDE DEF x, r
  <1>6. /\ Replaced(items, x, r) \in SUBSET Stack
        /\ OnePerSlot(Replaced(items, x, r))
        /\ \A y : Has(items, y) <=> Has(Replaced(items, x, r), y)
        /\ \A y \in Replaced(items, x, r) : y = r \/ (y \in items /\ y.pos # x.pos)
    BY <1>4, <1>5, ReplaceKeeps
  <1>7. \A y \in Replaced(items, x, r) :
           \/ y \in items /\ y.pos # g.pos
           \/ Same(y, g) /\ y.count = x.count - n
    BY <1>4, <1>5, <1>6 DEF Same
  <1> QED
    BY <1>3, <1>6, <1>7 DEF x

\* So does adding to a stack.
LEMMA MoreKeeps ==
    ASSUME NEW items \in SUBSET Stack, NEW g, NEW n \in Nat,
           OnePerSlot(items), Has(items, g)
    PROVE  /\ More(items, g, n) \in SUBSET Stack
           /\ OnePerSlot(More(items, g, n))
           /\ \A y : Has(items, y) <=> Has(More(items, g, n), y)
           /\ \A y \in More(items, g, n) :
                 \/ y \in items /\ y.pos # g.pos
                 \/ Same(y, g) /\ y.count = Find(items, g).count + n
  <1> DEFINE x == Find(items, g)
  <1>1. x \in Stack
    BY FindSame
  <1> DEFINE m == x.count + n
  <1>2. m \in Nat
    BY <1>1 DEF Stack
  <1> DEFINE r == [x EXCEPT !.count = m]
  <1>3. More(items, g, n) = Replaced(items, x, r)
    BY DEF More, Replaced
  <1>4. x \in items /\ Same(x, g)
    BY FindSame
  <1>5. r \in Stack /\ r.id = x.id /\ r.pos = x.pos /\ r.count = m
    BY <1>1, <1>2, Recounted
  <1> HIDE DEF x, r
  <1>6. /\ Replaced(items, x, r) \in SUBSET Stack
        /\ OnePerSlot(Replaced(items, x, r))
        /\ \A y : Has(items, y) <=> Has(Replaced(items, x, r), y)
        /\ \A y \in Replaced(items, x, r) : y = r \/ (y \in items /\ y.pos # x.pos)
    BY <1>4, <1>5, ReplaceKeeps
  <1>7. \A y \in Replaced(items, x, r) :
           \/ y \in items /\ y.pos # g.pos
           \/ Same(y, g) /\ y.count = x.count + n
    BY <1>4, <1>5, <1>6 DEF Same
  <1> QED
    BY <1>3, <1>6, <1>7 DEF x

\* Goods from a stack of the pocket are offered: they join the offer from that
\* slot, or no offer from that slot is there yet.
LEMMA OfferKeeps ==
    ASSUME NEW X \in SUBSET Stack, NEW P \in SUBSET Stack, NEW g \in Stack,
           OnePerSlot(X), OnePerSlot(P), Homed(X, P), Within(P, X), VerifyGoods(P, g)
    PROVE  /\ Put(X, g) \in SUBSET Stack
           /\ Less(P, g, g.count) \in SUBSET Stack
           /\ OnePerSlot(Put(X, g))
           /\ OnePerSlot(Less(P, g, g.count))
           /\ Homed(Put(X, g), Less(P, g, g.count))
           /\ Within(Less(P, g, g.count), Put(X, g))
  <1>1. g.count \in Nat
    BY DEF Stack
  <1>2. Has(P, g) /\ Find(P, g).count >= g.count
    BY VerifiedCount
  <1>3. Find(P, g) \in P /\ Same(Find(P, g), g)
    BY <1>2, FindSame
  <1>4. /\ Less(P, g, g.count) \in SUBSET Stack /\ OnePerSlot(Less(P, g, g.count))
        /\ \A y : Has(P, y) <=> Has(Less(P, g, g.count), y)
        /\ \A y \in Less(P, g, g.count) :
              \/ y \in P /\ y.pos # g.pos
              \/ Same(y, g) /\ y.count = Find(P, g).count - g.count
    BY <1>1, <1>2, LessKeeps
  <1>a. ASSUME Has(X, g)
        PROVE  /\ More(X, g, g.count) \in SUBSET Stack
               /\ OnePerSlot(More(X, g, g.count))
               /\ \A y : Has(X, y) <=> Has(More(X, g, g.count), y)
               /\ \A y \in More(X, g, g.count) :
                     \/ y \in X /\ y.pos # g.pos
                     \/ Same(y, g) /\ y.count = Find(X, g).count + g.count
    BY <1>1, <1>a, MoreKeeps
  <1>5. CASE Has(X, g)
    <2>1. Find(X, g) \in X /\ Same(Find(X, g), g)
      BY <1>5, FindSame
    <2>2. Put(X, g) = More(X, g, g.count)
      BY <1>5 DEF Put
    <2>3. /\ Put(X, g) \in SUBSET Stack /\ OnePerSlot(Put(X, g))
          /\ \A y \in Put(X, g) : \/ y \in X /\ y.pos # g.pos
                                  \/ Same(y, g) /\ y.count = Find(X, g).count + g.count
      BY <1>5, <1>a, <2>2
    <2>4. Homed(Put(X, g), Less(P, g, g.count))
      BY <1>2, <1>4, <2>3 DEF Homed, Has, Same
    <2>5. Within(Less(P, g, g.count), Put(X, g))
      <3>1. ASSUME NEW y \in Less(P, g, g.count), NEW z \in Put(X, g)
            PROVE  /\ y.count <= MaxCount[y.id]
                   /\ Same(z, y) => z.count + y.count <= MaxCount[y.id]
        <4>1. y.count \in Nat /\ z.count \in Nat /\ Find(P, g).count \in Nat /\ Find(X, g).count \in Nat
          BY <1>3, <1>4, <2>1, <2>3 DEF Stack
        <4>2. Find(P, g).id = g.id /\ Find(P, g).pos = g.pos /\ Find(X, g).id = g.id /\ Find(X, g).pos = g.pos
          BY <1>3, <2>1 DEF Same
        <4>3. MaxCount[Find(P, g).id] \in Nat /\ Find(X, g).count + Find(P, g).count <= MaxCount[Find(P, g).id]
          BY <1>3, <2>1, <4>2, MaxCountAssumption DEF Within, Same, Stack
        <4>4. CASE y \in P /\ y.pos # g.pos
          BY <2>3, <4>1, <4>2, <4>4 DEF Within, Same
        <4>5. CASE Same(y, g) /\ y.count = Find(P, g).count - g.count
          <5>1. y.id = Find(P, g).id /\ y.pos = g.pos /\ y.count <= MaxCount[Find(P, g).id]
            BY <1>1, <4>1, <4>2, <4>3, <4>5 DEF Same
          <5>2. CASE z.pos # g.pos
            BY <5>1, <5>2 DEF Same
          <5>3. CASE Same(z, g) /\ z.count = Find(X, g).count + g.count
            BY <1>1, <4>1, <4>3, <4>5, <5>1, <5>3
          <5> QED
            BY <2>3, <5>2, <5>3
        <4> QED
          BY <1>4, <4>4, <4>5
      <3>2. ASSUME NEW y \in Less(P, g, g.count) PROVE y.count <= MaxCount[y.id]
        <4>1. Has(Put(X, g), g)
          BY <1>5, <2>2, <1>a
        <4> QED
          BY <3>1, <4>1 DEF Has
      <3> QED
        BY <3>1, <3>2 DEF Within
    <2> QED
      BY <1>4, <2>3, <2>4, <2>5
  <1>6. CASE ~Has(X, g)
    <2>1. Put(X, g) = X \cup {g}
      BY <1>6 DEF Put
    <2>2. \A y \in X : y.pos # g.pos
      BY <1>2, <1>3, <1>6 DEF Homed, Has, Same, OnePerSlot
    <2>3. Put(X, g) \in SUBSET Stack /\ OnePerSlot(Put(X, g))
      BY <2>1, <2>2 DEF OnePerSlot
    <2>4. Homed(Put(X, g), Less(P, g, g.count))
      BY <1>2, <1>4, <2>1 DEF Homed
    <2>5. Within(Less(P, g, g.count), Put(X, g))
      <3> SUFFICES ASSUME NEW y \in Less(P, g, g.count)
                   PROVE  /\ y.count <= MaxCount[y.id]
                          /\ \A z \in Put(X, g) : Same(z, y) => z.count + y.count <= MaxCount[y.id]
        BY DEF Within
      <3>1. y.count \in Nat /\ Find(P, g).count \in Nat
        BY <1>3, <1>4 DEF Stack
      <3>2. MaxCount[Find(P, g).id] \in Nat /\ Find(P, g).count <= MaxCount[Find(P, g).id] /\ Find(P, g).id = g.id
        BY <1>3, MaxCountAssumption DEF Within, Same, Stack
      <3>3. CASE y \in P /\ y.pos # g.pos
        BY <2>1, <3>3 DEF Within, Same
      <3>4. CASE Same(y, g) /\ y.count = Find(P, g).count - g.count
        BY <1>1, <2>1, <2>2, <3>1, <3>2, <3>4 DEF Same
      <3> QED
        BY <1>4, <3>3, <3>4
    <2> QED
      BY <1>4, <2>3, <2>4, <2>5
  <1> QED
    BY <1>5, <1>6

\* Goods taken back go to their home, and the rest of the offer stays.
LEMMA TakeBackKeeps ==
    ASSUME NEW X \in SUBSET Stack, NEW P \in SUBSET Stack, NEW g \in Stack,
           OnePerSlot(X), OnePerSlot(P), Homed(X, P), Within(P, X), VerifyGoods(X, g)
    PROVE  /\ Has(P, g)
           /\ Take(X, g) \in SUBSET Stack
           /\ More(P, g, g.count) \in SUBSET Stack
           /\ OnePerSlot(Take(X, g))
           /\ OnePerSlot(More(P, g, g.count))
           /\ Homed(Take(X, g), More(P, g, g.count))
           /\ Within(More(P, g, g.count), Take(X, g))
  <1>1. g.count \in Nat
    BY DEF Stack
  <1>2. Has(X, g) /\ Find(X, g).count >= g.count
    BY VerifiedCount
  <1>3. Find(X, g) \in X /\ Same(Find(X, g), g)
    BY <1>2, FindSame
  <1>4. Has(P, g)
    BY <1>3 DEF Homed, Has, Same
  <1>5. Find(P, g) \in P /\ Same(Find(P, g), g)
    BY <1>4, FindSame
  <1>6. /\ More(P, g, g.count) \in SUBSET Stack /\ OnePerSlot(More(P, g, g.count))
        /\ \A y : Has(P, y) <=> Has(More(P, g, g.count), y)
        /\ \A y \in More(P, g, g.count) :
              \/ y \in P /\ y.pos # g.pos
              \/ Same(y, g) /\ y.count = Find(P, g).count + g.count
    BY <1>1, <1>4, MoreKeeps
  <1>7. /\ Less(X, g, g.count) \in SUBSET Stack /\ OnePerSlot(Less(X, g, g.count))
        /\ \A y \in Less(X, g, g.count) :
              \/ y \in X /\ y.pos # g.pos
              \/ Same(y, g) /\ y.count = Find(X, g).count - g.count
    BY <1>1, <1>2, LessKeeps
  <1>8. /\ Take(X, g) \in SUBSET Stack /\ OnePerSlot(Take(X, g))
        /\ \A y \in Take(X, g) :
              \/ y \in X /\ y.pos # g.pos
              \/ Same(y, g) /\ y.count = Find(X, g).count - g.count
    <2>1. Take(X, g) \subseteq Less(X, g, g.count)
      BY DEF Take, Erase
    <2> QED
      BY <1>7, <2>1 DEF OnePerSlot
  <1>9. Homed(Take(X, g), More(P, g, g.count))
    BY <1>4, <1>6, <1>8 DEF Homed, Has, Same
  <1>10. Within(More(P, g, g.count), Take(X, g))
    <2> SUFFICES ASSUME NEW y \in More(P, g, g.count)
                 PROVE  /\ y.count <= MaxCount[y.id]
                        /\ \A z \in Take(X, g) : Same(z, y) => z.count + y.count <= MaxCount[y.id]
      BY DEF Within
    <2>1. y.count \in Nat /\ Find(P, g).count \in Nat /\ Find(X, g).count \in Nat
      BY <1>3, <1>5, <1>6 DEF Stack
    <2>2. /\ MaxCount[Find(P, g).id] \in Nat /\ Find(P, g).id = g.id
          /\ Find(X, g).count + Find(P, g).count <= MaxCount[Find(P, g).id]
      BY <1>3, <1>5, MaxCountAssumption DEF Within, Same, Stack
    <2>3. CASE y \in P /\ y.pos # g.pos
      BY <1>8, <2>3 DEF Within, Same
    <2>4. CASE Same(y, g) /\ y.count = Find(P, g).count + g.count
      <3>1. y.id = Find(P, g).id /\ y.pos = g.pos /\ y.count <= MaxCount[y.id]
        BY <1>1, <1>2, <2>1, <2>2, <2>4 DEF Same
      <3>2. ASSUME NEW z \in Take(X, g), Same(z, y)
            PROVE  z.count + y.count <= MaxCount[y.id]
        <4>1. z.count = Find(X, g).count - g.count
          BY <1>8, <3>1, <3>2 DEF Same
        <4> QED
          BY <1>1, <2>1, <2>2, <2>4, <3>1, <4>1
      <3> QED
        BY <3>1, <3>2
    <2> QED
      BY <1>6, <2>3, <2>4
  <1> QED
    BY <1>4, <1>6, <1>8, <1>9, <1>10

\* What a move leaves: the other slots as they were, and on the two slots of the
\* move one stack each at most, none too large.
MoveLeaves(M, P, g, to) ==
    /\ M \in SUBSET Stack
    /\ OnePerSlot(M)
    /\ \A y \in P : y.pos \notin {g.pos, to} => y \in M
    /\ \A y \in M : \/ y \in P /\ y.pos \notin {g.pos, to}
                    \/ y.pos \in {g.pos, to} /\ y.count <= MaxCount[y.id]

\* A stack put elsewhere keeps its id and count.
LEMMA Relocated ==
    ASSUME NEW x \in Stack, NEW to \in Nat
    PROVE  /\ [x EXCEPT !.pos = to] \in Stack
           /\ [x EXCEPT !.pos = to].id = x.id
           /\ [x EXCEPT !.pos = to].pos = to
           /\ [x EXCEPT !.pos = to].count = x.count
  BY DEF Stack

\* Moving, splitting, swapping and merging stacks.
LEMMA MovedLeaves ==
    ASSUME NEW P \in SUBSET Stack, NEW g \in Stack, NEW to \in Nat, g.pos # to,
           OnePerSlot(P), VerifyGoods(P, g),
           \A x \in P : x.count <= MaxCount[x.id]
    PROVE  MoveLeaves(Moved(P, g, to), P, g, to)
  <1> DEFINE source == Find(P, g)
  <1> DEFINE there == {x \in P : x.pos = to}
  <1> DEFINE target == CHOOSE x \in there : TRUE
  <1> DEFINE n == Min({g.count, MaxCount[g.id] - target.count})
  <1>1. /\ Has(P, g) /\ source.count >= g.count /\ g.count \in Nat
    BY VerifiedCount DEF Stack
  <1>2. source \in P /\ source.id = g.id /\ source.pos = g.pos
    BY <1>1, FindSame DEF Same
  <1>3. source \in Stack /\ g.id \in Ids /\ MaxCount[g.id] \in Nat
    BY <1>2, MaxCountAssumption DEF Stack
  <1>4. source.count \in Nat /\ source.count <= MaxCount[g.id] /\ g.count <= MaxCount[g.id]
    BY <1>1, <1>2, <1>3 DEF Stack
  <1>5. \A y \in P : y.pos = g.pos => y = source
    BY <1>2 DEF OnePerSlot
  <1>6. CASE there = {} /\ g.count = source.count
    <2> DEFINE r == [source EXCEPT !.pos = to]
    <2>1. r \in Stack /\ r.id = g.id /\ r.pos = to /\ r.count <= MaxCount[g.id]
      BY <1>2, <1>3, <1>4, Relocated
    <2>2. Moved(P, g, to) = (P \ {source}) \cup {r}
      BY <1>6 DEF Moved
    <2>3. \A y \in P : y.pos # to
      BY <1>6
    <2> HIDE DEF r, source, there, target, n
    <2> QED
      BY <1>2, <1>5, <2>1, <2>2, <2>3 DEF MoveLeaves, OnePerSlot
  <1>7. CASE there = {} /\ g.count # source.count
    <2> DEFINE r == [g EXCEPT !.pos = to]
    <2> DEFINE L == Less(P, g, g.count)
    <2>1. r \in Stack /\ r.id = g.id /\ r.pos = to /\ r.count <= MaxCount[g.id]
      BY <1>4, Relocated
    <2>2. Moved(P, g, to) = L \cup {r}
      BY <1>7 DEF Moved
    <2>3. \A y \in P : y.pos # to
      BY <1>7
    <2>4. /\ Less(P, g, g.count) \in SUBSET Stack /\ OnePerSlot(Less(P, g, g.count))
          /\ \A y \in Less(P, g, g.count) :
                \/ y \in P /\ y.pos # g.pos
                \/ Same(y, g) /\ y.count = Find(P, g).count - g.count
      BY <1>1, LessKeeps
    <2>5. \A y \in P : y.pos # g.pos => y \in L
      <3> SUFFICES ASSUME NEW y \in P, y.pos # g.pos PROVE y \in L
        OBVIOUS
      <3>1. y # source
        BY <1>2
      <3> QED
        BY <3>1 DEF Less
    <2>6. \A y \in L : \/ y \in P /\ y.pos # g.pos
                       \/ y.pos = g.pos /\ y.count <= MaxCount[y.id]
      <3> SUFFICES ASSUME NEW y \in L, Same(y, g), y.count = source.count - g.count
                   PROVE  y.pos = g.pos /\ y.count <= MaxCount[y.id]
        BY <2>4
      <3> QED
        BY <1>1, <1>3, <1>4 DEF Same
    <2>7. L \in SUBSET Stack /\ OnePerSlot(L)
      BY <2>4
    <2>8. \A y \in L : y.pos # to
      BY <2>3, <2>6
    <2> HIDE DEF r, L, source, there, target, n
    <2> QED
      BY <2>1, <2>2, <2>3, <2>5, <2>6, <2>7, <2>8 DEF MoveLeaves, OnePerSlot
  <1>8. CASE there # {}
    <2>1. target \in P /\ target.pos = to
      BY <1>8
    <2>2. target \in Stack /\ target.count \in Nat /\ MaxCount[target.id] \in Nat
          /\ target.count <= MaxCount[target.id]
      BY <2>1, MaxCountAssumption DEF Stack
    <2>3. \A y \in P : y.pos = to => y = target
      BY <2>1 DEF OnePerSlot
    <2>4. CASE target.id # g.id
      <3> DEFINE r == [source EXCEPT !.pos = to]
      <3> DEFINE q == [target EXCEPT !.pos = g.pos]
      <3>1. r \in Stack /\ r.id = g.id /\ r.pos = to /\ r.count <= MaxCount[r.id]
        BY <1>2, <1>3, <1>4, Relocated
      <3>2. q \in Stack /\ q.pos = g.pos /\ q.count <= MaxCount[q.id]
        <4>1. g.pos \in Nat
          BY DEF Stack
        <4> QED
          BY <2>2, <4>1, Relocated
      <3>3. Moved(P, g, to) = (P \ {source, target}) \cup {r, q}
        BY <1>8, <2>4 DEF Moved
      <3> HIDE DEF r, q, source, there, target, n
      <3> QED
        BY <1>2, <1>5, <2>1, <2>3, <3>1, <3>2, <3>3 DEF MoveLeaves, OnePerSlot
    <2>5. CASE target.id = g.id
      <3> DEFINE E == Erase(Less(P, g, n), g)
      <3>1. n \in Nat /\ n <= g.count /\ n <= MaxCount[g.id] - target.count
        <4>1. MaxCount[g.id] - target.count \in Nat
          BY <2>2, <2>5
        <4> HIDE DEF target
        <4> QED
          BY <1>1, <4>1, MinOfTwo
      <3>2. Moved(P, g, to) = More(E, target, n)
        BY <1>8, <2>5 DEF Moved
      <3> HIDE DEF n, source, there, target
      <3>3. /\ Less(P, g, n) \in SUBSET Stack /\ OnePerSlot(Less(P, g, n))
            /\ \A y \in Less(P, g, n) :
                  \/ y \in P /\ y.pos # g.pos
                  \/ Same(y, g) /\ y.count = Find(P, g).count - n
        <4>1. Find(P, g).count >= n
          BY <1>1, <1>4, <3>1 DEF source
        <4> QED
          BY <1>1, <3>1, <4>1, LessKeeps
      <3>4. \A y \in P : y.pos # g.pos => y \in E
        BY <1>2 DEF Less, Erase, Same, source
      <3>5. E \in SUBSET Stack /\ OnePerSlot(E)
        BY <3>3 DEF Erase, OnePerSlot
      <3>6. \A y \in E : \/ y \in P /\ y.pos # g.pos
                         \/ y.pos = g.pos /\ y.count <= MaxCount[y.id]
        <4> SUFFICES ASSUME NEW y \in E, Same(y, g), y.count = source.count - n
                     PROVE  y.pos = g.pos /\ y.count <= MaxCount[y.id]
          BY <3>3 DEF Erase, source
        <4> QED
          BY <1>3, <1>4, <3>1 DEF Same
      <3> HIDE DEF E
      <3>7. Has(E, target)
        BY <2>1, <3>4 DEF Has, Same
      <3>8. Find(E, target) = target
        BY <2>1, <2>3, <3>6, <3>7, FindSame DEF Same
      <3>9. /\ More(E, target, n) \in SUBSET Stack
            /\ OnePerSlot(More(E, target, n))
            /\ \A y \in More(E, target, n) :
                  \/ y \in E /\ y.pos # target.pos
                  \/ Same(y, target) /\ y.count = Find(E, target).count + n
        BY <3>1, <3>5, <3>7, MoreKeeps
      <3>10. \A y \in P : y.pos \notin {g.pos, to} => y \in More(E, target, n)
        BY <2>1, <3>4, <3>8 DEF More
      <3>11. ASSUME NEW y \in More(E, target, n)
             PROVE  \/ y \in P /\ y.pos \notin {g.pos, to}
                    \/ y.pos \in {g.pos, to} /\ y.count <= MaxCount[y.id]
        <4>1. CASE y \in E /\ y.pos # target.pos
          BY <2>1, <3>6, <4>1
        <4>2. CASE Same(y, target) /\ y.count = target.count + n
          BY <1>3, <2>1, <2>2, <2>5, <3>1, <4>2 DEF Same
        <4> QED
          BY <3>8, <3>9, <4>1, <4>2
      <3> QED
        BY <3>2, <3>9, <3>10, <3>11 DEF MoveLeaves
    <2> QED
      BY <2>4, <2>5
  <1> QED
    BY <1>6, <1>7, <1>8

\* A move leaves the homes of the offers alone: it refuses their slots.
LEMMA MovedKeeps ==
    ASSUME NEW P \in SUBSET Stack, NEW X \in SUBSET Stack, NEW M, NEW g, NEW to,
           Homed(X, P), Within(P, X), MoveLeaves(M, P, g, to),
           \A x \in X : x.pos \notin {g.pos, to}
    PROVE  /\ M \in SUBSET Stack
           /\ OnePerSlot(M)
           /\ Homed(X, M)
           /\ Within(M, X)
  <1>1. Homed(X, M)
    BY DEF Homed, Has, Same, MoveLeaves
  <1>2. Within(M, X)
    BY DEF Within, Same, MoveLeaves
  <1> QED
    BY <1>1, <1>2 DEF MoveLeaves

-----------------------------------------------------------------------------
(***************************************************************************)
(* What the operations do to the amounts of goods.  A pocket is finite, so *)
(* that its stacks can be added up in any order.                           *)
(***************************************************************************)
Part(x, id) == IF x.id = id THEN x.count ELSE 0

\* The amount of an id does not depend on the pocket its stacks are counted in.
LEMMA SumOfStacks ==
    ASSUME NEW items \in SUBSET Stack, IsFiniteSet(items), NEW id
    PROVE  /\ Sum(items, id) = SumFunctionOnSet([x \in Stack |-> Part(x, id)], items)
           /\ Sum(items, id) \in Nat
  <1> DEFINE f == [x \in items |-> IF x.id = id THEN x.count ELSE 0]
  <1> DEFINE g == [x \in Stack |-> Part(x, id)]
  <1>1. \A x \in items : f[x] \in Int /\ g[x] = f[x] /\ f[x] \in Nat
    BY DEF Part, Stack
  <1>2. Sum(items, id) = SumFunctionOnSet(f, items)
    BY DEF Sum, SumFunction
  <1> HIDE DEF f, g
  <1>3. SumFunctionOnSet(f, items) = SumFunctionOnSet(g, items) /\ SumFunctionOnSet(f, items) \in Nat
    BY <1>1, SumSame, SumNat
  <1> QED
    BY <1>2, <1>3 DEF g

\* One stack more.
LEMMA SumWith ==
    ASSUME NEW items \in SUBSET Stack, IsFiniteSet(items), NEW x \in Stack, x \notin items, NEW id
    PROVE  /\ IsFiniteSet(items \cup {x})
           /\ Sum(items \cup {x}, id) = Sum(items, id) + Part(x, id)
  <1> DEFINE g == [y \in Stack |-> Part(y, id)]
  <1>1. \A y \in items \cup {x} : g[y] \in Int
    BY DEF Part, Stack
  <1>2. IsFiniteSet(items \cup {x})
    BY FS_AddElement
  <1>3. /\ Sum(items, id) = SumFunctionOnSet(g, items) /\ Sum(items, id) \in Nat
        /\ Sum(items \cup {x}, id) = SumFunctionOnSet(g, items \cup {x})
    BY <1>2, SumOfStacks
  <1>4. g[x] = Part(x, id) /\ Part(x, id) \in Nat
    BY DEF Part, Stack
  <1> HIDE DEF g
  <1>5. SumFunctionOnSet(g, items \cup {x}) = g[x] + SumFunctionOnSet(g, items)
    BY <1>1, SumAdd
  <1> QED
    BY <1>2, <1>3, <1>4, <1>5

\* One stack less.
LEMMA SumWithout ==
    ASSUME NEW items \in SUBSET Stack, IsFiniteSet(items), NEW x \in items, NEW id
    PROVE  /\ IsFiniteSet(items \ {x})
           /\ Sum(items, id) = Sum(items \ {x}, id) + Part(x, id)
  <1>1. IsFiniteSet(items \ {x}) /\ items = (items \ {x}) \cup {x} /\ x \notin items \ {x}
    BY FS_RemoveElement
  <1>2. items \ {x} \in SUBSET Stack /\ x \in Stack
    OBVIOUS
  <1> DEFINE r == items \ {x}
  <1> HIDE DEF r
  <1>3. Sum(r \cup {x}, id) = Sum(r, id) + Part(x, id)
    BY <1>1, <1>2, SumWith DEF r
  <1> QED
    BY <1>1, <1>3 DEF r

\* A stack in place of another.
LEMMA SumReplaced ==
    ASSUME NEW items \in SUBSET Stack, IsFiniteSet(items), NEW x \in items,
           NEW r \in Stack, r \notin items \ {x}, NEW id
    PROVE  /\ IsFiniteSet(Replaced(items, x, r))
           /\ Sum(Replaced(items, x, r), id) = Sum(items, id) - Part(x, id) + Part(r, id)
  <1> DEFINE rest == items \ {x}
  <1>1. rest \in SUBSET Stack /\ IsFiniteSet(rest) /\ r \notin rest
    BY SumWithout
  <1>2. Sum(items, id) = Sum(rest, id) + Part(x, id)
    BY SumWithout
  <1>3. Part(x, id) \in Nat /\ Part(r, id) \in Nat /\ Sum(rest, id) \in Nat
    BY <1>1, SumOfStacks DEF Part, Stack
  <1>4. Replaced(items, x, r) = rest \cup {r}
    BY DEF Replaced
  <1> HIDE DEF rest
  <1>5. IsFiniteSet(rest \cup {r}) /\ Sum(rest \cup {r}, id) = Sum(rest, id) + Part(r, id)
    BY <1>1, SumWith
  <1> QED
    BY <1>2, <1>3, <1>4, <1>5

\* Taking n pieces from a stack.
LEMMA LessSum ==
    ASSUME NEW items \in SUBSET Stack, IsFiniteSet(items), NEW g, NEW n \in Nat,
           OnePerSlot(items), Has(items, g), Find(items, g).count >= n, NEW id
    PROVE  /\ IsFiniteSet(Less(items, g, n))
           /\ Sum(Less(items, g, n), id) = Sum(items, id) - (IF g.id = id THEN n ELSE 0)
  <1> DEFINE x == Find(items, g)
  <1>1. x \in items /\ x \in Stack /\ Same(x, g) /\ x.count \in Nat
    BY FindSame DEF Stack
  <1> DEFINE m == x.count - n
  <1>2. m \in Nat
    BY <1>1
  <1> DEFINE r == [x EXCEPT !.count = m]
  <1>3. Less(items, g, n) = Replaced(items, x, r)
    BY DEF Less, Replaced
  <1>4. r \in Stack /\ r.id = x.id /\ r.pos = x.pos /\ r.count = m
    BY <1>1, <1>2, Recounted
  <1> HIDE DEF x, r
  <1>5. r \notin items \ {x}
    BY <1>1, <1>4 DEF OnePerSlot
  <1>6. /\ IsFiniteSet(Replaced(items, x, r))
        /\ Sum(Replaced(items, x, r), id) = Sum(items, id) - Part(x, id) + Part(r, id)
    BY <1>1, <1>4, <1>5, SumReplaced
  <1>7. Sum(items, id) \in Nat
    BY SumOfStacks
  <1> QED
    BY <1>1, <1>3, <1>4, <1>6, <1>7 DEF Part, Same

\* Adding n pieces to a stack.
LEMMA MoreSum ==
    ASSUME NEW items \in SUBSET Stack, IsFiniteSet(items), NEW g, NEW n \in Nat,
           OnePerSlot(items), Has(items, g), NEW id
    PROVE  /\ IsFiniteSet(More(items, g, n))
           /\ Sum(More(items, g, n), id) = Sum(items, id) + (IF g.id = id THEN n ELSE 0)
  <1> DEFINE x == Find(items, g)
  <1>1. x \in items /\ x \in Stack /\ Same(x, g) /\ x.count \in Nat
    BY FindSame DEF Stack
  <1> DEFINE m == x.count + n
  <1>2. m \in Nat
    BY <1>1
  <1> DEFINE r == [x EXCEPT !.count = m]
  <1>3. More(items, g, n) = Replaced(items, x, r)
    BY DEF More, Replaced
  <1>4. r \in Stack /\ r.id = x.id /\ r.pos = x.pos /\ r.count = m
    BY <1>1, <1>2, Recounted
  <1> HIDE DEF x, r
  <1>5. r \notin items \ {x}
    BY <1>1, <1>4 DEF OnePerSlot
  <1>6. /\ IsFiniteSet(Replaced(items, x, r))
        /\ Sum(Replaced(items, x, r), id) = Sum(items, id) - Part(x, id) + Part(r, id)
    BY <1>1, <1>4, <1>5, SumReplaced
  <1>7. Sum(items, id) \in Nat
    BY SumOfStacks
  <1> QED
    BY <1>1, <1>3, <1>4, <1>6, <1>7 DEF Part, Same

\* An emptied stack that is erased was worth nothing.
LEMMA EraseSum ==
    ASSUME NEW items \in SUBSET Stack, IsFiniteSet(items), NEW g, OnePerSlot(items), NEW id
    PROVE  IsFiniteSet(Erase(items, g)) /\ Sum(Erase(items, g), id) = Sum(items, id)
  <1>1. CASE \E x \in items : Same(x, g) /\ x.count = 0
    <2>1. PICK x \in items : Same(x, g) /\ x.count = 0
      BY <1>1
    <2>2. Erase(items, g) = items \ {x}
      BY <2>1 DEF Erase, OnePerSlot, Same
    <2>3. Part(x, id) = 0
      BY <2>1 DEF Part
    <2>4. items \ {x} \in SUBSET Stack
      OBVIOUS
    <2>5. /\ IsFiniteSet(items \ {x}) /\ Sum(items \ {x}, id) \in Nat
          /\ Sum(items, id) = Sum(items \ {x}, id) + Part(x, id)
      BY <2>4, SumWithout, SumOfStacks
    <2> QED
      BY <2>2, <2>3, <2>5
  <1>2. CASE \A x \in items : ~(Same(x, g) /\ x.count = 0)
    <2>1. Erase(items, g) = items
      BY <1>2 DEF Erase
    <2> QED
      BY <2>1
  <1> QED
    BY <1>1, <1>2

\* Goods that are offered are as much more in the offer as they are less in the
\* pocket.
LEMMA OfferSum ==
    ASSUME NEW X \in SUBSET Stack, NEW P \in SUBSET Stack, NEW g \in Stack, NEW id,
           IsFiniteSet(X), IsFiniteSet(P), OnePerSlot(X), OnePerSlot(P), VerifyGoods(P, g)
    PROVE  /\ IsFiniteSet(Put(X, g)) /\ IsFiniteSet(Less(P, g, g.count))
           /\ Sum(Less(P, g, g.count), id) + Sum(Put(X, g), id) = Sum(P, id) + Sum(X, id)
  <1> DEFINE n == IF g.id = id THEN g.count ELSE 0
  <1>1. g.count \in Nat /\ n \in Nat /\ Sum(P, id) \in Nat /\ Sum(X, id) \in Nat
    BY SumOfStacks DEF Stack
  <1>2. Has(P, g) /\ Find(P, g).count >= g.count
    BY VerifiedCount
  <1>3. IsFiniteSet(Less(P, g, g.count)) /\ Sum(Less(P, g, g.count), id) = Sum(P, id) - n
    BY <1>1, <1>2, LessSum
  <1>4. IsFiniteSet(Put(X, g)) /\ Sum(Put(X, g), id) = Sum(X, id) + n
    <2>1. CASE Has(X, g)
      BY <1>1, <2>1, MoreSum DEF Put
    <2>2. CASE ~Has(X, g)
      <3>1. g \notin X
        BY <2>2 DEF Has, Same
      <3> QED
        BY <2>2, <3>1, SumWith DEF Put, Part
    <2> QED
      BY <2>1, <2>2
  <1> QED
    BY <1>1, <1>3, <1>4

\* And the other way round when they are taken back.
LEMMA TakeBackSum ==
    ASSUME NEW X \in SUBSET Stack, NEW P \in SUBSET Stack, NEW g \in Stack, NEW id,
           IsFiniteSet(X), IsFiniteSet(P), OnePerSlot(X), OnePerSlot(P), VerifyGoods(X, g), Has(P, g)
    PROVE  /\ IsFiniteSet(Take(X, g)) /\ IsFiniteSet(More(P, g, g.count))
           /\ Sum(More(P, g, g.count), id) + Sum(Take(X, g), id) = Sum(P, id) + Sum(X, id)
  <1> DEFINE n == IF g.id = id THEN g.count ELSE 0
  <1>1. g.count \in Nat /\ n \in Nat /\ Sum(P, id) \in Nat /\ Sum(X, id) \in Nat
    BY SumOfStacks DEF Stack
  <1>2. Has(X, g) /\ Find(X, g).count >= g.count
    BY VerifiedCount
  <1>3. IsFiniteSet(More(P, g, g.count)) /\ Sum(More(P, g, g.count), id) = Sum(P, id) + n
    BY <1>1, MoreSum
  <1>4. IsFiniteSet(Less(X, g, g.count)) /\ Sum(Less(X, g, g.count), id) = Sum(X, id) - n
    BY <1>1, <1>2, LessSum
  <1>5. Less(X, g, g.count) \in SUBSET Stack /\ OnePerSlot(Less(X, g, g.count))
    BY <1>1, <1>2, LessKeeps
  <1>6. IsFiniteSet(Take(X, g)) /\ Sum(Take(X, g), id) = Sum(X, id) - n
    BY <1>4, <1>5, EraseSum DEF Take
  <1> QED
    BY <1>1, <1>3, <1>6

\* Moving, splitting, swapping and merging stacks keeps the amount of every id.
LEMMA MovedSum ==
    ASSUME NEW P \in SUBSET Stack, NEW g \in Stack, NEW to \in Nat, g.pos # to, NEW id,
           IsFiniteSet(P), OnePerSlot(P), VerifyGoods(P, g),
           \A x \in P : x.count <= MaxCount[x.id]
    PROVE  IsFiniteSet(Moved(P, g, to)) /\ Sum(Moved(P, g, to), id) = Sum(P, id)
  <1> DEFINE source == Find(P, g)
  <1> DEFINE there == {x \in P : x.pos = to}
  <1> DEFINE target == CHOOSE x \in there : TRUE
  <1> DEFINE n == Min({g.count, MaxCount[g.id] - target.count})
  <1>1. /\ Has(P, g) /\ source.count >= g.count /\ g.count \in Nat
    BY VerifiedCount DEF Stack
  <1>2. source \in P /\ source.id = g.id /\ source.pos = g.pos /\ source.count \in Nat
    BY <1>1, FindSame DEF Same, Stack
  <1>3. source \in Stack /\ Sum(P, id) \in Nat /\ Part(source, id) \in Nat
    BY <1>2, SumOfStacks DEF Part
  <1>6. CASE there = {} /\ g.count = source.count
    <2> DEFINE r == [source EXCEPT !.pos = to]
    <2>1. r \in Stack /\ r.id = source.id /\ r.pos = to /\ r.count = source.count
      BY <1>3, Relocated
    <2>2. Moved(P, g, to) = Replaced(P, source, r)
      BY <1>6 DEF Moved, Replaced
    <2>3. \A y \in P : y.pos # to
      BY <1>6
    <2> HIDE DEF r, source, there, target, n
    <2>4. r \notin P \ {source} /\ Part(r, id) = Part(source, id)
      BY <2>1, <2>3 DEF Part
    <2> QED
      BY <1>2, <1>3, <2>1, <2>2, <2>4, SumReplaced
  <1>7. CASE there = {} /\ g.count # source.count
    <2> DEFINE r == [g EXCEPT !.pos = to]
    <2> DEFINE L == Less(P, g, g.count)
    <2>1. r \in Stack /\ r.id = g.id /\ r.pos = to /\ r.count = g.count
      BY Relocated
    <2>2. Moved(P, g, to) = L \cup {r}
      BY <1>7 DEF Moved
    <2>3. \A y \in P : y.pos # to
      BY <1>7
    <2>4. /\ L \in SUBSET Stack
          /\ \A y \in L : \/ y \in P /\ y.pos # g.pos
                          \/ Same(y, g) /\ y.count = Find(P, g).count - g.count
      BY <1>1, LessKeeps
    <2>5. IsFiniteSet(L) /\ Sum(L, id) = Sum(P, id) - (IF g.id = id THEN g.count ELSE 0)
      BY <1>1, LessSum
    <2>6. r \notin L
      BY <2>1, <2>3, <2>4 DEF Same
    <2>7. Part(r, id) = IF g.id = id THEN g.count ELSE 0
      BY <2>1 DEF Part
    <2> HIDE DEF r, L, source, there, target, n
    <2>8. IsFiniteSet(L \cup {r}) /\ Sum(L \cup {r}, id) = Sum(L, id) + Part(r, id)
      BY <2>1, <2>4, <2>5, <2>6, SumWith
    <2> QED
      BY <1>1, <1>3, <2>2, <2>5, <2>7, <2>8
  <1>8. CASE there # {}
    <2>1. target \in P /\ target.pos = to
      BY <1>8
    <2>2. target \in Stack /\ target.count \in Nat /\ MaxCount[target.id] \in Nat
          /\ target.count <= MaxCount[target.id]
      BY <2>1, MaxCountAssumption DEF Stack
    <2>3. \A y \in P : y.pos = to => y = target
      BY <2>1 DEF OnePerSlot
    <2>0. \A y \in P : y.pos = g.pos => y = source
      BY <1>2 DEF OnePerSlot
    <2>4. CASE target.id # g.id
      <3> DEFINE r == [source EXCEPT !.pos = to]
      <3> DEFINE q == [target EXCEPT !.pos = g.pos]
      <3>1. r \in Stack /\ r.id = source.id /\ r.pos = to /\ r.count = source.count
        BY <1>3, Relocated
      <3>2. q \in Stack /\ q.id = target.id /\ q.pos = g.pos /\ q.count = target.count
        <4>1. g.pos \in Nat
          BY DEF Stack
        <4> QED
          BY <2>2, <4>1, Relocated
      <3>3. Moved(P, g, to) = (P \ {source, target}) \cup {r, q}
        BY <1>8, <2>4 DEF Moved
      <3> HIDE DEF r, q, source, there, target, n
      <3> DEFINE R == P \ {source}
      <3> DEFINE Q == R \ {target}
      <3>4. R \in SUBSET Stack /\ IsFiniteSet(R) /\ Sum(P, id) = Sum(R, id) + Part(source, id)
        BY <1>2, SumWithout
      <3>5. target \in R
        BY <1>2, <2>1
      <3> HIDE DEF R
      <3>6. Q \in SUBSET Stack /\ IsFiniteSet(Q) /\ Sum(R, id) = Sum(Q, id) + Part(target, id)
        BY <3>4, <3>5, SumWithout
      <3>7. r \notin Q /\ q \notin Q \cup {r}
        BY <1>2, <2>0, <2>1, <2>3, <3>1, <3>2 DEF R
      <3>8. IsFiniteSet(Q \cup {r}) /\ Sum(Q \cup {r}, id) = Sum(Q, id) + Part(r, id)
        <4> HIDE DEF Q
        <4> QED
          BY <3>1, <3>6, <3>7, SumWith
      <3> DEFINE U == Q \cup {r}
      <3>9. U \in SUBSET Stack /\ q \notin U
        BY <3>1, <3>6, <3>7
      <3> HIDE DEF U
      <3>10. IsFiniteSet(U \cup {q}) /\ Sum(U \cup {q}, id) = Sum(U, id) + Part(q, id)
        BY <3>2, <3>8, <3>9, SumWith DEF U
      <3>11. Moved(P, g, to) = U \cup {q}
        BY <3>3 DEF U, R
      <3>12. Part(r, id) = Part(source, id) /\ Part(q, id) = Part(target, id)
             /\ Part(target, id) \in Nat /\ Sum(Q, id) \in Nat
        BY <2>2, <3>1, <3>2, <3>6, SumOfStacks DEF Part
      <3>13. Sum(U, id) = Sum(Q, id) + Part(source, id)
        BY <3>8, <3>12 DEF U
      <3> HIDE DEF Q
      <3> QED
        BY <1>3, <3>4, <3>6, <3>10, <3>11, <3>12, <3>13
    <2>5. CASE target.id = g.id
      <3> DEFINE L == Less(P, g, n)
      <3> DEFINE E == Erase(L, g)
      <3>1. n \in Nat /\ n <= g.count
        <4>1. MaxCount[g.id] - target.count \in Nat
          BY <2>2, <2>5
        <4> HIDE DEF target
        <4> QED
          BY <1>1, <4>1, MinOfTwo
      <3>2. Moved(P, g, to) = More(E, target, n)
        BY <1>8, <2>5 DEF Moved
      <3> HIDE DEF n, there, target
      <3>3. Find(P, g).count >= n
        BY <1>1, <1>2, <3>1
      <3>4. L \in SUBSET Stack /\ OnePerSlot(L)
        BY <1>1, <3>1, <3>3, LessKeeps
      <3>5. IsFiniteSet(L) /\ Sum(L, id) = Sum(P, id) - (IF g.id = id THEN n ELSE 0)
        BY <1>1, <3>1, <3>3, LessSum
      <3>6. target \in E
        BY <1>2, <2>1 DEF Less, Erase, Same
      <3> HIDE DEF source, L
      <3>7. IsFiniteSet(E) /\ Sum(E, id) = Sum(L, id)
        BY <3>4, <3>5, EraseSum
      <3>8. E \in SUBSET Stack /\ OnePerSlot(E)
        BY <3>4 DEF Erase, OnePerSlot
      <3>9. Has(E, target)
        BY <3>6 DEF Has, Same
      <3> HIDE DEF E
      <3>10. /\ IsFiniteSet(More(E, target, n))
             /\ Sum(More(E, target, n), id) = Sum(E, id) + (IF target.id = id THEN n ELSE 0)
        BY <3>1, <3>7, <3>8, <3>9, MoreSum
      <3> QED
        BY <1>3, <2>5, <3>1, <3>2, <3>5, <3>7, <3>10
    <2> QED
      BY <2>4, <2>5
  <1> QED
    BY <1>6, <1>7, <1>8

-----------------------------------------------------------------------------
\* Lemmas on the operations.

\* The pockets are read: nothing is offered.
LEMMA InitInv == Init => Inv
  <1> SUFFICES ASSUME Init PROVE Inv
    OBVIOUS
  <1>1. \A s \in Side : /\ db[s] \in Pocket /\ OnePerSlot(db[s].items)
                        /\ \A x \in db[s].items : x.count <= MaxCount[x.id]
    <2> SUFFICES ASSUME NEW s \in Side
                 PROVE  /\ db[s] \in Pocket /\ OnePerSlot(db[s].items)
                        /\ \A x \in db[s].items : x.count <= MaxCount[x.id]
      OBVIOUS
    <2>1. db[s] \in Pockets
      BY DEF Init
    <2>2. db[s] \in Pocket /\ SoundItems(db[s].items)
      BY <2>1, GoodsAssumption
    <2>3. \A x \in db[s].items : MaxCount[x.id] \in Nat /\ x.count \in 1 .. MaxCount[x.id]
      BY <2>2, MaxCountAssumption DEF SoundItems, Pocket, Stack
    <2> QED
      BY <2>2, <2>3 DEF SoundItems
  <1>2. db \in [Side -> Pocket]
    BY GoodsAssumption DEF Init
  <1>3. /\ possession \in [Side -> SUBSET Stack]
        /\ exchg_obj \in [Side -> SUBSET Stack]
        /\ pssn_money \in [Side -> Nat]
        /\ exchg_money \in [Side -> Nat]
    BY <1>1, <1>2 DEF Init, Pocket
  <1>4. \A s \in Side : /\ OnePerSlot(possession[s])
                        /\ OnePerSlot(exchg_obj[s])
                        /\ Homed(exchg_obj[s], possession[s])
                        /\ Within(possession[s], exchg_obj[s])
                        /\ pssn_money[s] + exchg_money[s] = db[s].money
    BY <1>1 DEF Init, OnePerSlot, Homed, Within, Pocket
  <1>5. state = "Exchange" /\ save = NoSave /\ tstate \in [Side -> {"EXCHANGE", "READY", "CONFIRM"}]
    BY DEF Init
  <1> QED
    BY <1>2, <1>3, <1>4, <1>5 DEF Inv, Exchanging

\* A successful request sends both traders back to exchanging.
LEMMA OffersChangedTypes ==
    ASSUME NEW s \in Side, tstate \in [Side -> {"EXCHANGE", "READY", "CONFIRM"}],
           OffersChanged(s) \/ UNCHANGED <<state, tstate>>, state \in Exchanging
    PROVE  /\ state' \in Exchanging
           /\ tstate' \in [Side -> {"EXCHANGE", "READY", "CONFIRM"}]
  BY DEF OffersChanged, Unready, Exchanging

\* Offering goods or money, also when the money is refused.
LEMMA AddExchgObjectInv ==
    ASSUME Inv, NEW s \in Side, NEW g \in Goods \cup {NoGoods}, NEW money \in Money,
           AddExchgObject(s, g, money)
    PROVE  Inv'
  <1>1. Bargaining /\ state \in Exchanging
    BY DEF AddExchgObject, Bargaining
  <1>2. money \in Nat /\ (g # NoGoods => g \in Stack /\ g.count \in Nat)
    BY GoodsAssumption DEF Stack
  <1>3. /\ state' \in Exchanging
        /\ tstate' \in [Side -> {"EXCHANGE", "READY", "CONFIRM"}]
    <2>1. OffersChanged(s) \/ UNCHANGED <<state, tstate>>
      BY DEF AddExchgObject
    <2> QED
      BY <1>1, <2>1, OffersChangedTypes DEF Inv
  <1>4. /\ pssn_money' \in [Side -> Nat]
        /\ exchg_money' \in [Side -> Nat]
        /\ \A u \in Side : pssn_money'[u] + exchg_money'[u] = db[u].money
    BY <1>1, <1>2 DEF AddExchgObject, Inv
  <1>5. /\ possession' \in [Side -> SUBSET Stack]
        /\ exchg_obj' \in [Side -> SUBSET Stack]
        /\ \A u \in Side : /\ OnePerSlot(possession'[u])
                            /\ OnePerSlot(exchg_obj'[u])
                            /\ Homed(exchg_obj'[u], possession'[u])
                            /\ Within(possession'[u], exchg_obj'[u])
    <2>1. CASE g = NoGoods
      BY <1>1, <2>1 DEF AddExchgObject, Inv
    <2>2. CASE g # NoGoods
      <3> DEFINE P == possession[s]
      <3> DEFINE X == exchg_obj[s]
      <3>1. /\ P \in SUBSET Stack /\ X \in SUBSET Stack
            /\ OnePerSlot(P) /\ OnePerSlot(X) /\ Homed(X, P) /\ Within(P, X)
        BY <1>1 DEF Inv
      <3>2. VerifyGoods(P, g)
        BY <2>2 DEF AddExchgObject
      <3>3. /\ Put(X, g) \in SUBSET Stack /\ Less(P, g, g.count) \in SUBSET Stack
            /\ OnePerSlot(Put(X, g)) /\ OnePerSlot(Less(P, g, g.count))
            /\ Homed(Put(X, g), Less(P, g, g.count))
            /\ Within(Less(P, g, g.count), Put(X, g))
        BY <1>2, <2>2, <3>1, <3>2, OfferKeeps
      <3>6. /\ exchg_obj' = [exchg_obj EXCEPT ![s] = Put(X, g)]
            /\ possession' = [possession EXCEPT ![s] = Less(P, g, g.count)]
        BY <2>2 DEF AddExchgObject
      <3>7. /\ possession \in [Side -> SUBSET Stack]
            /\ exchg_obj \in [Side -> SUBSET Stack]
            /\ \A u \in Side : /\ OnePerSlot(possession[u])
                                /\ OnePerSlot(exchg_obj[u])
                                /\ Homed(exchg_obj[u], possession[u])
                                /\ Within(possession[u], exchg_obj[u])
        BY <1>1 DEF Inv
      <3> HIDE DEF P, X
      <3> QED
        BY <3>3, <3>6, <3>7
    <2> QED
      BY <2>1, <2>2
  <1>6. db' = db /\ save' = save
    BY DEF AddExchgObject, dbVars
  <1> QED
    BY <1>1, <1>3, <1>4, <1>5, <1>6 DEF Inv, Bargaining

\* Taking goods or money back, also when the money is refused.
LEMMA RemoveExchgObjectInv ==
    ASSUME Inv, NEW s \in Side, NEW g \in Goods \cup {NoGoods}, NEW money \in Money,
           RemoveExchgObject(s, g, money)
    PROVE  Inv'
  <1>1. Bargaining /\ state \in Exchanging
    BY DEF RemoveExchgObject, Bargaining
  <1>2. money \in Nat /\ (g # NoGoods => g \in Stack)
    BY GoodsAssumption
  <1>3. /\ state' \in Exchanging
        /\ tstate' \in [Side -> {"EXCHANGE", "READY", "CONFIRM"}]
    <2>1. OffersChanged(s) \/ UNCHANGED <<state, tstate>>
      BY DEF RemoveExchgObject
    <2> QED
      BY <1>1, <2>1, OffersChangedTypes DEF Inv
  <1>4. /\ pssn_money' \in [Side -> Nat]
        /\ exchg_money' \in [Side -> Nat]
        /\ \A u \in Side : pssn_money'[u] + exchg_money'[u] = db[u].money
    <2>1. \/ /\ exchg_money' = exchg_money /\ pssn_money' = pssn_money
          \/ /\ money <= exchg_money[s]
             /\ exchg_money' = [exchg_money EXCEPT ![s] = @ - money]
             /\ pssn_money' = [pssn_money EXCEPT ![s] = @ + money]
      BY DEF RemoveExchgObject
    <2>2. /\ pssn_money \in [Side -> Nat] /\ exchg_money \in [Side -> Nat]
          /\ \A u \in Side : pssn_money[u] + exchg_money[u] = db[u].money
      BY <1>1 DEF Inv
    <2> QED
      BY <1>2, <2>1, <2>2
  <1>5. /\ possession \in [Side -> SUBSET Stack]
        /\ exchg_obj \in [Side -> SUBSET Stack]
        /\ \A u \in Side : /\ OnePerSlot(possession[u])
                            /\ OnePerSlot(exchg_obj[u])
                            /\ Homed(exchg_obj[u], possession[u])
                            /\ Within(possession[u], exchg_obj[u])
    BY <1>1 DEF Inv
  <1>6. /\ possession' \in [Side -> SUBSET Stack]
        /\ exchg_obj' \in [Side -> SUBSET Stack]
        /\ \A u \in Side : /\ OnePerSlot(possession'[u])
                            /\ OnePerSlot(exchg_obj'[u])
                            /\ Homed(exchg_obj'[u], possession'[u])
                            /\ Within(possession'[u], exchg_obj'[u])
    <2>1. CASE g = NoGoods
      BY <1>5, <2>1 DEF RemoveExchgObject
    <2>2. CASE g # NoGoods
      <3> DEFINE P == possession[s]
      <3> DEFINE X == exchg_obj[s]
      <3>1. VerifyGoods(X, g)
        BY <2>2 DEF RemoveExchgObject
      <3>2. /\ Has(P, g)
            /\ Take(X, g) \in SUBSET Stack /\ More(P, g, g.count) \in SUBSET Stack
            /\ OnePerSlot(Take(X, g)) /\ OnePerSlot(More(P, g, g.count))
            /\ Homed(Take(X, g), More(P, g, g.count))
            /\ Within(More(P, g, g.count), Take(X, g))
        BY <1>2, <1>5, <2>2, <3>1, TakeBackKeeps
      <3>3. /\ exchg_obj' = [exchg_obj EXCEPT ![s] = Take(X, g)]
            /\ possession' = [possession EXCEPT ![s] = More(P, g, g.count)]
        BY <2>2, <3>2 DEF RemoveExchgObject
      <3> HIDE DEF P, X
      <3> QED
        BY <1>5, <3>2, <3>3
    <2> QED
      BY <2>1, <2>2
  <1>7. db' = db /\ save' = save
    BY DEF RemoveExchgObject, dbVars
  <1> QED
    BY <1>1, <1>3, <1>4, <1>6, <1>7 DEF Inv, Bargaining

\* Rearranging a pocket.
LEMMA MoveObjectInv ==
    ASSUME Inv, NEW s \in Side, NEW g \in Goods, NEW to \in Slots(Capacity),
           MoveObject(s, g, to)
    PROVE  Inv'
  <1>1. Bargaining
    BY DEF MoveObject, Bargaining
  <1>2. g \in Stack /\ to \in Nat
    BY GoodsAssumption DEF Slots
  <1>3. /\ possession \in [Side -> SUBSET Stack]
        /\ exchg_obj \in [Side -> SUBSET Stack]
        /\ \A u \in Side : /\ OnePerSlot(possession[u])
                            /\ OnePerSlot(exchg_obj[u])
                            /\ Homed(exchg_obj[u], possession[u])
                            /\ Within(possession[u], exchg_obj[u])
    BY <1>1 DEF Inv
  <1> DEFINE M == Moved(possession[s], g, to)
  <1>4. /\ g.pos # to /\ VerifyGoods(possession[s], g)
        /\ \A x \in exchg_obj[s] : x.pos \notin {g.pos, to}
        /\ possession' = [possession EXCEPT ![s] = M]
        /\ UNCHANGED <<state, tstate, exchg_obj, pssn_money, exchg_money, db, save>>
    BY DEF MoveObject, dbVars
  <1>5. MoveLeaves(M, possession[s], g, to)
    <2>1. \A x \in possession[s] : x.count <= MaxCount[x.id]
      BY <1>3 DEF Within
    <2> QED
      BY <1>2, <1>3, <1>4, <2>1, MovedLeaves
  <1> HIDE DEF M
  <1>6. /\ M \in SUBSET Stack /\ OnePerSlot(M)
        /\ Homed(exchg_obj[s], M) /\ Within(M, exchg_obj[s])
    BY <1>3, <1>4, <1>5, MovedKeeps
  <1>7. /\ possession' \in [Side -> SUBSET Stack]
        /\ \A u \in Side : /\ OnePerSlot(possession'[u])
                            /\ OnePerSlot(exchg_obj'[u])
                            /\ Homed(exchg_obj'[u], possession'[u])
                            /\ Within(possession'[u], exchg_obj'[u])
    BY <1>3, <1>4, <1>6
  <1> QED
    BY <1>1, <1>4, <1>7 DEF Inv, Bargaining

\* Submitting generates results and disturbs nothing else.
LEMMA SubmitInv == ASSUME Inv, NEW s \in Side, Submit(s) PROVE Inv'
  <1>1. Bargaining /\ state' \in {"Exchange", "Ready_half", "Ready"}
    BY DEF Submit, Bargaining
  <1>2. tstate' \in [Side -> {"EXCHANGE", "READY", "CONFIRM"}]
    BY <1>1 DEF Submit, Unready, Inv
  <1>3. UNCHANGED <<possession, exchg_obj, pssn_money, exchg_money, db, save>>
    BY DEF Submit, goodsVars, dbVars
  <1> QED
    BY <1>1, <1>2, <1>3 DEF Inv, Bargaining, Exchanging, Settling

\* A first confirmation disturbs nothing; a second one ends the bargaining.
LEMMA ConfirmInv ==
    ASSUME Inv, NEW s \in Side, NEW sent \in BOOLEAN, Confirm(s, sent) PROVE Inv'
  <1>1. Bargaining
    BY DEF Confirm, Bargaining
  <1> DEFINE ts == [tstate EXCEPT ![s] = "CONFIRM"]
  <1>2. CASE ts[Other(s)] # "CONFIRM"
    <2>1. /\ state' = "Confirm_half" /\ tstate' = ts
          /\ UNCHANGED <<possession, exchg_obj, pssn_money, exchg_money, db, save>>
      BY <1>2 DEF Confirm, goodsVars
    <2>2. ts \in [Side -> {"EXCHANGE", "READY", "CONFIRM"}]
      BY <1>1 DEF Inv
    <2> HIDE DEF ts
    <2> QED
      BY <1>1, <2>1, <2>2 DEF Inv, Bargaining, Settling
  <1>3. CASE ts[Other(s)] = "CONFIRM"
    <2>1. state' \in {"Confirm", "Null"}
      BY <1>3 DEF Confirm, Write2DB
    <2> QED
      BY <2>1 DEF Inv, Bargaining, Exchanging, Settling, Saving
  <1> QED
    BY <1>2, <1>3

\* The remaining steps end the bargaining or come after it.
LEMMA EndInv ==
    ASSUME Inv, \/ \E sent \in BOOLEAN : Discard(sent)
                \/ Abandon \/ SaveDone \/ StorePockets
    PROVE  Inv'
  <1>1. CASE \E sent \in BOOLEAN : Discard(sent)
    <2>1. state' \in {"Init", "Null"}
      BY <1>1 DEF Discard, Write2DB
    <2> QED
      BY <2>1 DEF Inv, Bargaining, Exchanging, Settling, Saving
  <1>2. CASE Abandon \/ SaveDone
    <2>1. state' = "Null"
      BY <1>2 DEF Abandon, SaveDone
    <2> QED
      BY <2>1 DEF Inv, Bargaining, Exchanging, Settling, Saving
  <1>3. CASE StorePockets
    <2>1. state' = state /\ save.status = "sent"
      BY <1>3 DEF StorePockets
    <2>2. ~Bargaining
      BY <2>1 DEF Inv, NoSave
    <2> QED
      BY <2>1, <2>2 DEF Inv, Bargaining
  <1> QED
    BY <1>1, <1>2, <1>3

\* Every step of the trade keeps the invariant, one handler after the other.
LEMMA NextInv == Inv /\ [Next]_vars => Inv'
  <1> SUFFICES ASSUME Inv, [Next]_vars PROVE Inv'
    OBVIOUS
  <1>1. CASE \E s \in Side, g \in Goods \cup {NoGoods}, money \in Money :
                AddExchgObject(s, g, money) \/ RemoveExchgObject(s, g, money)
    BY <1>1, AddExchgObjectInv, RemoveExchgObjectInv
  <1>2. CASE \E s \in Side, g \in Goods, to \in Slots(Capacity) : MoveObject(s, g, to)
    BY <1>2, MoveObjectInv
  <1>3. CASE \E s \in Side : Submit(s)
    BY <1>3, SubmitInv
  <1>4. CASE \E s \in Side, sent \in BOOLEAN : Confirm(s, sent)
    BY <1>4, ConfirmInv
  <1>5. CASE (\E sent \in BOOLEAN : Discard(sent)) \/ Abandon \/ SaveDone \/ StorePockets
    BY <1>5, EndInv
  <1>6. CASE UNCHANGED vars
    BY <1>6 DEF vars, Inv, Bargaining
  <1> QED
    BY <1>1, <1>2, <1>3, <1>4, <1>5, <1>6 DEF Next

\* The invariant holds in every reachable state.
LEMMA Invariance == Spec => []Inv
  BY InitInv, NextInv, PTL DEF Spec

-----------------------------------------------------------------------------
\* Theorems.

\* However the traders add, take back, split, merge and move goods, no slot of a
\* pocket or an offer ever holds two stacks and no stack outgrows its limit: a
\* request (Trader::AddExchgObject, RemoveExchgObject, MoveObject) always names
\* one stack, and what is offered fits back into where it came from.
THEOREM OneStackPerSlotHolds == Spec => []OneStackPerSlot
  <1>1. Inv => OneStackPerSlot
    BY DEF Inv, OneStackPerSlot
  <1> QED
    BY <1>1, Invariance, PTL

\* Goods in an offer always have the stack they were taken from still in the
\* pocket, so that the branch of Trader::RemoveExchgObject that would lose them
\* is never reached.
THEOREM OfferedHasHomeHolds == Spec => []OfferedHasHome
  <1>1. Inv => OfferedHasHome
    BY DEF Inv, OfferedHasHome, Homed
  <1> QED
    BY <1>1, Invariance, PTL

\* A trader's money is in the pocket or in the offer until both confirmed, also
\* when Trader::AddExchgObject or RemoveExchgObject fails halfway.
THEOREM MoneyKeptHolds == Spec => []MoneyKept
  <1>1. Inv => MoneyKept
    BY DEF Inv, MoneyKept
  <1> QED
    BY <1>1, Invariance, PTL

\* Nothing a trader can do between the second submission and the second
\* confirmation (Transaction::Submit, Confirm) makes the generated result differ
\* from what the two pockets and offers come to.
THEOREM ResultIsCurrentHolds == Spec => []ResultIsCurrent
  <1>1. Init => ResultIsCurrent
    BY DEF Init, ResultIsCurrent, Settling
  <1>2. ResultIsCurrent /\ [Next]_vars => ResultIsCurrent'
    <2> SUFFICES ASSUME ResultIsCurrent, [Next]_vars, state' \in Settling
                 PROVE  /\ result' # <<>>
                        /\ result'["Alice"] \in Generated("Alice", "Bob")'
                        /\ result'["Bob"] \in Generated("Bob", "Alice")'
      BY DEF ResultIsCurrent
    <2>1. ASSUME UNCHANGED goodsVars
          PROVE  /\ Generated("Alice", "Bob")' = Generated("Alice", "Bob")
                 /\ Generated("Bob", "Alice")' = Generated("Bob", "Alice")
      BY <2>1 DEF Generated, goodsVars
    <2>2. ASSUME NEW s \in Side, Submit(s)
          PROVE  /\ result' # <<>>
                 /\ result'["Alice"] \in Generated("Alice", "Bob")
                 /\ result'["Bob"] \in Generated("Bob", "Alice")
                 /\ UNCHANGED goodsVars
      <3>1. /\ \E a \in Generated("Alice", "Bob"), b \in Generated("Bob", "Alice") :
                  result' = [u \in Side |-> IF u = "Alice" THEN a ELSE b]
            /\ UNCHANGED goodsVars
        BY <2>2 DEF Submit, Settling
      <3>2. \A f : f = <<>> => DOMAIN f # Side
        BY DEF Side
      <3> QED
        BY <3>1, <3>2 DEF Side
    <2>3. ASSUME NEW s \in Side, NEW sent \in BOOLEAN, Confirm(s, sent)
          PROVE  state \in Settling /\ UNCHANGED goodsVars /\ result' = result
      BY <2>3 DEF Confirm, Write2DB, Settling
    <2>4. ASSUME StorePockets \/ UNCHANGED vars
          PROVE  state \in Settling /\ UNCHANGED goodsVars /\ result' = result
      BY <2>4 DEF StorePockets, vars, goodsVars
    <2>5. ASSUME \/ \E s \in Side, g \in Goods \cup {NoGoods}, money \in Money :
                       AddExchgObject(s, g, money) \/ RemoveExchgObject(s, g, money)
                 \/ \E s \in Side, g \in Goods, to \in Slots(Capacity) : MoveObject(s, g, to)
                 \/ \E sent \in BOOLEAN : Discard(sent)
                 \/ Abandon \/ SaveDone
          PROVE  FALSE
      <3>1. CASE \E s \in Side, g \in Goods \cup {NoGoods}, money \in Money :
                   AddExchgObject(s, g, money) \/ RemoveExchgObject(s, g, money)
        BY <3>1 DEF AddExchgObject, RemoveExchgObject, OffersChanged, Exchanging, Settling
      <3>2. CASE \E s \in Side, g \in Goods, to \in Slots(Capacity) : MoveObject(s, g, to)
        BY <3>2 DEF MoveObject, Exchanging, Settling
      <3>3. CASE (\E sent \in BOOLEAN : Discard(sent)) \/ Abandon \/ SaveDone
        BY <3>3 DEF Discard, Write2DB, Abandon, SaveDone, Settling
      <3> QED
        BY <2>5, <3>1, <3>2, <3>3
    <2> QED
      BY <2>1, <2>2, <2>3, <2>4, <2>5 DEF Next, ResultIsCurrent
  <1> QED
    BY <1>1, <1>2, PTL DEF Spec

-----------------------------------------------------------------------------
(***************************************************************************)
(* Goods are kept.                                                         *)
(***************************************************************************)
KeptGoods(pssn, exchg, items) ==
    /\ IsFiniteSet(pssn) /\ IsFiniteSet(exchg) /\ IsFiniteSet(items)
    /\ \A id \in Ids : Sum(pssn, id) + Sum(exchg, id) = Sum(items, id)

GoodsInv == Bargaining => \A s \in Side : KeptGoods(possession[s], exchg_obj[s], db[s].items)

\* A pocket with one stack a slot is finite.
LEMMA SoundIsFinite ==
    ASSUME NEW items \in SUBSET Stack, SoundItems(items)
    PROVE  IsFiniteSet(items)
  <1> DEFINE f == [x \in items |-> x.pos]
  <1>1. 0 \in Int /\ Capacity - 1 \in Int
    BY GoodsAssumption
  <1>2. IsFiniteSet(Slots(Capacity))
    BY <1>1, FS_Interval DEF Slots
  <1>3. f \in Injection(items, Slots(Capacity))
    BY DEF SoundItems, OnePerSlot, Injection, IsInjective
  <1> QED
    BY <1>2, <1>3, FS_Injection

\* Nothing is offered at first.
LEMMA InitGoods == Init => GoodsInv
  <1> SUFFICES ASSUME Init, NEW s \in Side
               PROVE  KeptGoods(possession[s], exchg_obj[s], db[s].items)
    BY DEF GoodsInv
  <1>1. db[s] \in Pocket /\ SoundItems(db[s].items)
    BY GoodsAssumption DEF Init
  <1>2. db[s].items \in SUBSET Stack
    BY <1>1 DEF Pocket
  <1>3. IsFiniteSet(db[s].items)
    BY <1>1, <1>2, SoundIsFinite
  <1>4. possession[s] = db[s].items /\ exchg_obj[s] = {}
    BY DEF Init
  <1>5. IsFiniteSet({}) /\ {} \in SUBSET Stack
    BY FS_EmptySet
  <1>6. ASSUME NEW id \in Ids PROVE Sum({}, id) = 0
    BY <1>5, SumOfStacks, SumEmpty
  <1>7. \A id \in Ids : Sum(db[s].items, id) \in Nat
    BY <1>2, <1>3, SumOfStacks
  <1> QED
    BY <1>3, <1>4, <1>5, <1>6, <1>7 DEF KeptGoods

\* A request changes the goods of one trader, and keeps their amount.
LEMMA AddExchgObjectGoods ==
    ASSUME Inv, GoodsInv, NEW s \in Side, NEW g \in Goods \cup {NoGoods}, NEW money \in Money,
           AddExchgObject(s, g, money)
    PROVE  GoodsInv'
  <1>1. Bargaining /\ db' = db
    BY DEF AddExchgObject, Bargaining, dbVars
  <1>2. /\ possession \in [Side -> SUBSET Stack] /\ exchg_obj \in [Side -> SUBSET Stack]
        /\ OnePerSlot(possession[s]) /\ OnePerSlot(exchg_obj[s])
        /\ \A u \in Side : KeptGoods(possession[u], exchg_obj[u], db[u].items)
    BY <1>1 DEF Inv, GoodsInv
  <1>3. CASE g = NoGoods
    BY <1>1, <1>2, <1>3 DEF AddExchgObject, GoodsInv
  <1>4. CASE g # NoGoods
    <2> DEFINE P == possession[s]
    <2> DEFINE X == exchg_obj[s]
    <2>1. g \in Stack
      BY <1>4, GoodsAssumption
    <2>2. /\ exchg_obj' = [exchg_obj EXCEPT ![s] = Put(X, g)]
          /\ possession' = [possession EXCEPT ![s] = Less(P, g, g.count)]
          /\ VerifyGoods(P, g)
      BY <1>4 DEF AddExchgObject
    <2>3. /\ P \in SUBSET Stack /\ X \in SUBSET Stack /\ OnePerSlot(P) /\ OnePerSlot(X)
          /\ KeptGoods(P, X, db[s].items)
      BY <1>2
    <2> HIDE DEF P, X
    <2>4. ASSUME NEW id \in Ids
          PROVE  /\ IsFiniteSet(Put(X, g)) /\ IsFiniteSet(Less(P, g, g.count))
                 /\ Sum(Less(P, g, g.count), id) + Sum(Put(X, g), id) = Sum(P, id) + Sum(X, id)
      BY <2>1, <2>2, <2>3, OfferSum DEF KeptGoods
    <2>5. g.id \in Ids
      BY <2>1 DEF Stack
    <2>6. KeptGoods(Less(P, g, g.count), Put(X, g), db[s].items)
      BY <2>3, <2>4, <2>5 DEF KeptGoods
    <2> QED
      BY <1>1, <1>2, <2>2, <2>6 DEF GoodsInv
  <1> QED
    BY <1>3, <1>4

\* Goods taken back leave the offer and join the pocket.
LEMMA RemoveExchgObjectGoods ==
    ASSUME Inv, GoodsInv, NEW s \in Side, NEW g \in Goods \cup {NoGoods}, NEW money \in Money,
           RemoveExchgObject(s, g, money)
    PROVE  GoodsInv'
  <1>1. Bargaining /\ db' = db
    BY DEF RemoveExchgObject, Bargaining, dbVars
  <1>2. /\ possession \in [Side -> SUBSET Stack] /\ exchg_obj \in [Side -> SUBSET Stack]
        /\ OnePerSlot(possession[s]) /\ OnePerSlot(exchg_obj[s])
        /\ Homed(exchg_obj[s], possession[s])
        /\ \A u \in Side : KeptGoods(possession[u], exchg_obj[u], db[u].items)
    BY <1>1 DEF Inv, GoodsInv
  <1>3. CASE g = NoGoods
    BY <1>1, <1>2, <1>3 DEF RemoveExchgObject, GoodsInv
  <1>4. CASE g # NoGoods
    <2> DEFINE P == possession[s]
    <2> DEFINE X == exchg_obj[s]
    <2>1. g \in Stack
      BY <1>4, GoodsAssumption
    <2>2. VerifyGoods(X, g)
      BY <1>4 DEF RemoveExchgObject
    <2>3. Has(P, g)
      BY <1>2, <2>2 DEF VerifyGoods, Homed, Has, Same
    <2>4. /\ exchg_obj' = [exchg_obj EXCEPT ![s] = Take(X, g)]
          /\ possession' = [possession EXCEPT ![s] = More(P, g, g.count)]
      BY <1>4, <2>3 DEF RemoveExchgObject
    <2>5. /\ P \in SUBSET Stack /\ X \in SUBSET Stack /\ OnePerSlot(P) /\ OnePerSlot(X)
          /\ KeptGoods(P, X, db[s].items)
      BY <1>2
    <2> HIDE DEF P, X
    <2>6. ASSUME NEW id \in Ids
          PROVE  /\ IsFiniteSet(Take(X, g)) /\ IsFiniteSet(More(P, g, g.count))
                 /\ Sum(More(P, g, g.count), id) + Sum(Take(X, g), id) = Sum(P, id) + Sum(X, id)
      BY <2>1, <2>2, <2>3, <2>5, TakeBackSum DEF KeptGoods
    <2>7. g.id \in Ids
      BY <2>1 DEF Stack
    <2>8. KeptGoods(More(P, g, g.count), Take(X, g), db[s].items)
      BY <2>5, <2>6, <2>7 DEF KeptGoods
    <2> QED
      BY <1>1, <1>2, <2>4, <2>8 DEF GoodsInv
  <1> QED
    BY <1>3, <1>4

\* A move only rearranges the pocket.
LEMMA MoveObjectGoods ==
    ASSUME Inv, GoodsInv, NEW s \in Side, NEW g \in Goods, NEW to \in Slots(Capacity),
           MoveObject(s, g, to)
    PROVE  GoodsInv'
  <1>1. Bargaining /\ db' = db /\ exchg_obj' = exchg_obj
    BY DEF MoveObject, Bargaining, dbVars
  <1>2. /\ possession \in [Side -> SUBSET Stack] /\ OnePerSlot(possession[s])
        /\ \A x \in possession[s] : x.count <= MaxCount[x.id]
        /\ \A u \in Side : KeptGoods(possession[u], exchg_obj[u], db[u].items)
    BY <1>1 DEF Inv, GoodsInv, Within
  <1>3. g \in Stack /\ to \in Nat /\ g.id \in Ids
    BY GoodsAssumption DEF Slots, Stack
  <1> DEFINE P == possession[s]
  <1>4. /\ possession' = [possession EXCEPT ![s] = Moved(P, g, to)]
        /\ g.pos # to /\ VerifyGoods(P, g)
    BY DEF MoveObject
  <1>5. P \in SUBSET Stack /\ OnePerSlot(P) /\ KeptGoods(P, exchg_obj[s], db[s].items)
        /\ \A x \in P : x.count <= MaxCount[x.id]
    BY <1>2
  <1> HIDE DEF P
  <1>6. ASSUME NEW id \in Ids
        PROVE  IsFiniteSet(Moved(P, g, to)) /\ Sum(Moved(P, g, to), id) = Sum(P, id)
    BY <1>3, <1>4, <1>5, MovedSum DEF KeptGoods
  <1>7. KeptGoods(Moved(P, g, to), exchg_obj[s], db[s].items)
    BY <1>3, <1>5, <1>6 DEF KeptGoods
  <1> QED
    BY <1>1, <1>2, <1>4, <1>7 DEF GoodsInv

\* The other steps leave the goods alone or end the bargaining.
LEMMA NextGoods == Inv /\ GoodsInv /\ [Next]_vars => GoodsInv'
  <1> SUFFICES ASSUME Inv, GoodsInv, [Next]_vars PROVE GoodsInv'
    OBVIOUS
  <1>1. CASE \E s \in Side, g \in Goods \cup {NoGoods}, money \in Money :
                AddExchgObject(s, g, money) \/ RemoveExchgObject(s, g, money)
    BY <1>1, AddExchgObjectGoods, RemoveExchgObjectGoods
  <1>2. CASE \E s \in Side, g \in Goods, to \in Slots(Capacity) : MoveObject(s, g, to)
    BY <1>2, MoveObjectGoods
  <1>3. ASSUME NEW s \in Side, Submit(s) PROVE GoodsInv'
    <2>1. Bargaining /\ UNCHANGED <<possession, exchg_obj, db>>
      BY <1>3 DEF Submit, Bargaining, goodsVars, dbVars
    <2> QED
      BY <2>1 DEF GoodsInv
  <1>4. ASSUME NEW s \in Side, NEW sent \in BOOLEAN, Confirm(s, sent) PROVE GoodsInv'
    <2>1. Bargaining
      BY <1>4 DEF Confirm, Bargaining
    <2>2. UNCHANGED <<possession, exchg_obj, db>> \/ state' \in {"Confirm", "Null"}
      BY <1>4 DEF Confirm, Write2DB, goodsVars
    <2> QED
      BY <2>1, <2>2 DEF GoodsInv, Bargaining, Exchanging, Settling
  <1>5. CASE (\E sent \in BOOLEAN : Discard(sent)) \/ Abandon \/ SaveDone
    <2>1. state' \in {"Init", "Null"}
      BY <1>5 DEF Discard, Write2DB, Abandon, SaveDone
    <2> QED
      BY <2>1 DEF GoodsInv, Bargaining, Exchanging, Settling
  <1>6. CASE StorePockets
    <2>1. ~Bargaining /\ state' = state
      BY <1>6 DEF StorePockets, Inv, NoSave
    <2> QED
      BY <2>1 DEF GoodsInv, Bargaining
  <1>7. CASE UNCHANGED vars
    BY <1>7 DEF vars, GoodsInv, Bargaining
  <1> QED
    BY <1>1, <1>2, <1>3, <1>4, <1>5, <1>6, <1>7 DEF Next

\* It holds in every reachable state.
LEMMA GoodsInvariance == Spec => [](Inv /\ GoodsInv)
  <1>1. Init => Inv /\ GoodsInv
    BY InitInv, InitGoods
  <1>2. (Inv /\ GoodsInv) /\ [Next]_vars => (Inv /\ GoodsInv)'
    BY NextInv, NextGoods
  <1> QED
    BY <1>1, <1>2, PTL DEF Spec

\* Whatever a trader offers, takes back and moves, also when half of a request is
\* refused, its pocket and its offer together hold exactly the goods gamedbd
\* holds for it (Trader::AddExchgObject, RemoveExchgObject, MoveObject).
THEOREM GoodsKeptHolds == Spec => []GoodsKept
  <1>1. Inv /\ GoodsInv => GoodsKept
    BY DEF GoodsInv, KeptGoods, GoodsKept
  <1> QED
    BY <1>1, GoodsInvariance, PTL

-----------------------------------------------------------------------------
(***************************************************************************)
(* Merging.  A trader's own offer fits back into its pocket: each offered  *)
(* stack goes where it came from, or to the slot that is free because      *)
(* nothing was left there.                                                 *)
(***************************************************************************)
\* The sum of one amount over some of the places.
LEMMA SumOfAmount ==
    ASSUME NEW S, IsFiniteSet(S), NEW T \in SUBSET S, NEW b \in Nat,
           NEW f, \A x \in S : f[x] = IF x \in T THEN b ELSE 0
    PROVE  Cardinality(T) \in Nat /\ SumFunctionOnSet(f, S) = Cardinality(T) * b
  <1> DEFINE Z == {s \in SUBSET S : SumFunctionOnSet(f, s) = Cardinality(s \cap T) * b}
  <1>1. {} \in Z
    <2>1. {} \cap T = {} /\ Cardinality({}) = 0
      BY FS_EmptySet
    <2>2. 0 * b = 0
      OBVIOUS
    <2> QED
      BY <2>1, <2>2, SumEmpty
  <1>2. ASSUME NEW s \in SUBSET S, NEW x \in S \ s, s \in Z PROVE s \cup {x} \in Z
    <2> DEFINE was == s \cap T
    <2> DEFINE now == (s \cup {x}) \cap T
    <2>1. IsFiniteSet(s) /\ IsFiniteSet(was)
      BY FS_Subset
    <2>2. Cardinality(was) \in Nat
      BY <2>1, FS_CardinalityType
    <2>3. SumFunctionOnSet(f, s \cup {x}) = f[x] + SumFunctionOnSet(f, s)
      <3>1. \A y \in s \cup {x} : f[y] \in Int
        OBVIOUS
      <3>2. x \notin s
        OBVIOUS
      <3> QED
        BY ONLY <2>1, <3>1, <3>2, SumAdd
    <2>4. SumFunctionOnSet(f, s) = Cardinality(was) * b
      BY <1>2
    <2>5. CASE x \in T
      <3>1. now = was \cup {x} /\ x \notin was
        BY <2>5
      <3>2. Cardinality(now) = Cardinality(was) + 1
        BY <2>1, <3>1, FS_AddElement
      <3>3. \A k \in Nat : b + k * b = (k + 1) * b
        OBVIOUS
      <3>4. f[x] = b
        BY <2>5
      <3>5. SumFunctionOnSet(f, s \cup {x}) = Cardinality(now) * b
        BY <2>2, <2>3, <2>4, <3>2, <3>3, <3>4
      <3> QED
        BY <3>5
    <2>6. CASE x \notin T
      <3>1. now = was
        BY <2>6
      <3>2. f[x] = 0
        BY <2>6
      <3>3. \A k \in Nat : 0 + k * b = k * b
        OBVIOUS
      <3>4. SumFunctionOnSet(f, s \cup {x}) = Cardinality(now) * b
        BY <2>2, <2>3, <2>4, <3>1, <3>2, <3>3
      <3> QED
        BY <3>4
    <2> QED
      BY <2>5, <2>6
  <1>3. S \in Z
    <2> HIDE DEF Z
    <2> QED
      BY <1>1, <1>2, SubsetInduction
  <1>4. S \cap T = T /\ IsFiniteSet(T)
    BY FS_Subset
  <1> QED
    BY <1>3, <1>4, FS_CardinalityType

\* Every item has a stack of its own in the pocket that it was taken from.
BackTo(p, f, home) ==
    /\ \A i \in DOMAIN f : /\ home[i] \in DOMAIN p
                           /\ p[home[i]].id = f[i].id /\ p[home[i]].pos = f[i].pos
                           /\ f[i].count + p[home[i]].count <= MaxCount[f[i].id]

\* The items whose home has nothing left in it.
Homeless(p, f, home) == {i \in DOMAIN f : p[home[i]].count = 0}

\* What of an id does not go back on a stack that is left needs a slot each.
LEMMA NeedsHomes ==
    ASSUME NEW c \in Nat, NEW p, IsPossession(p, c), NEW f, IsGoods(f), ApartIn(f), NEW home, BackTo(p, f, home),
           NEW id \in Ids, NEW E, E = {i \in Homeless(p, f, home) : f[i].id = id}
    PROVE  /\ Cardinality(E) \in Nat
           /\ SumOver(Amounts(id), f) - SumOver(Rooms(id), p) <= Cardinality(E) * MaxCount[id]
  <1> DEFINE n == Len(f)
  <1> DEFINE k == Len(p)
  <1> DEFINE b == MaxCount[id]
  <1>1. f \in Seq(Stack) /\ n \in Nat /\ DOMAIN f = 1 .. n /\ IsFiniteSet(1 .. n)
    <2>1. f \in Seq(Stack) /\ n \in Nat /\ DOMAIN f = 1 .. n
      BY DEF IsGoods
    <2> QED
      BY <2>1, PlacesFinite
  <1>2. p \in Seq(Stack) /\ k \in Nat /\ DOMAIN p = 1 .. k /\ IsFiniteSet(1 .. k)
    <2>1. p \in Seq(Stack) /\ k \in Nat /\ DOMAIN p = 1 .. k
      BY DEF IsPossession
    <2> QED
      BY <2>1, PlacesFinite
  <1>3. b \in Nat
    BY MaxCountAssumption
  <1>4. E \in SUBSET (1 .. n)
    BY <1>1 DEF Homeless
  <1> DEFINE amount == [i \in 1 .. n |-> Amounts(id)[f[i]]]
  <1> DEFINE room == [j \in 1 .. k |-> Rooms(id)[p[j]]]
  <1> DEFINE own == [i \in 1 .. n |-> Rooms(id)[p[home[i]]]]
  <1> DEFINE slot == [i \in 1 .. n |-> IF i \in E THEN b ELSE 0]
  <1> DEFINE most == [i \in 1 .. n |-> own[i] + slot[i]]
  <1>5. SumOver(Amounts(id), f) = SumFunctionOnSet(amount, 1 .. n)
        /\ SumOver(Rooms(id), p) = SumFunctionOnSet(room, 1 .. k)
    BY DEF SumOver
  <1>6. \A j \in 1 .. k : room[j] \in Nat
    <2> SUFFICES ASSUME NEW j \in 1 .. k PROVE Rooms(id)[p[j]] \in Nat
      OBVIOUS
    <2>1. p[j] \in Stack /\ p[j].count <= MaxCount[p[j].id]
      BY <1>2 DEF IsPossession
    <2> QED
      BY <1>3, <2>1 DEF Rooms, Stack
  <1>7. \A i \in 1 .. n : /\ home[i] \in 1 .. k /\ own[i] = room[home[i]]
                          /\ own[i] \in Int /\ slot[i] \in Int /\ amount[i] \in Int
                          /\ amount[i] <= own[i] + slot[i]
    <2> SUFFICES ASSUME NEW i \in 1 .. n
                 PROVE  /\ home[i] \in 1 .. k /\ own[i] = room[home[i]]
                        /\ own[i] \in Int /\ slot[i] \in Int /\ amount[i] \in Int
                        /\ amount[i] <= own[i] + slot[i]
      OBVIOUS
    <2>1. /\ home[i] \in 1 .. k /\ p[home[i]].id = f[i].id
          /\ f[i].count + p[home[i]].count <= MaxCount[f[i].id]
      BY <1>1, <1>2 DEF BackTo
    <2>2. own[i] = room[home[i]]
      BY <2>1
    <2>3. f[i] \in Stack /\ p[home[i]] \in Stack
      BY <1>1, <1>2, <2>1
    <2>4. PICK x \in Stack, y \in Stack : x = f[i] /\ y = p[home[i]]
      BY <2>3
    <2>5. x.id = y.id /\ x.count + y.count <= MaxCount[x.id] /\ x.count \in Nat /\ y.count \in Nat
      BY <2>1, <2>4 DEF Stack
    <2>6. i \in E <=> y.count = 0 /\ x.id = id
      BY <1>1, <2>4 DEF Homeless
    <2>7. amount[i] = IF x.id = id THEN x.count ELSE 0
      BY <2>4 DEF Amounts
    <2>8. own[i] = IF y.id = id /\ y.count > 0 THEN b - y.count ELSE 0
      BY <2>4 DEF Rooms
    <2>9. slot[i] = IF i \in E THEN b ELSE 0
      OBVIOUS
    <2>10. amount[i] \in Int /\ own[i] \in Int /\ slot[i] \in Int /\ amount[i] <= own[i] + slot[i]
      <3> HIDE DEF amount, own, slot
      <3>1. CASE x.id = id
        BY <1>3, <2>5, <2>6, <2>7, <2>8, <2>9, <3>1
      <3>2. CASE x.id # id
        BY <1>3, <2>5, <2>6, <2>7, <2>8, <2>9, <3>2
      <3> QED
        BY <3>1, <3>2
    <2> QED
      BY <2>1, <2>2, <2>10
  <1>8. \A i \in 1 .. n : most[i] = own[i] + slot[i]
    OBVIOUS
  <1>9. \A i \in 1 .. n : slot[i] = IF i \in E THEN b ELSE 0
    OBVIOUS
  <1> HIDE DEF amount, room, own, slot, most
  <1> DEFINE N == 1 .. n
  <1>a. IsFiniteSet(N)
    BY <1>1
  <1>b. \A i \in N : amount[i] \in Int /\ most[i] \in Int /\ amount[i] <= most[i]
    BY <1>7, <1>8
  <1>c. \A i \in N : own[i] \in Int /\ slot[i] \in Int /\ most[i] = own[i] + slot[i]
    BY <1>7, <1>8
  <1>d. E \in SUBSET N /\ \A i \in N : slot[i] = IF i \in E THEN b ELSE 0
    BY <1>4, <1>9
  <1> HIDE DEF N
  <1>10. SumFunctionOnSet(amount, N) <= SumFunctionOnSet(most, N)
    BY ONLY <1>a, <1>b, SumMonotonic
  <1>11. SumFunctionOnSet(most, N) = SumFunctionOnSet(own, N) + SumFunctionOnSet(slot, N)
    BY ONLY <1>a, <1>c, SumPointwise
  <1>12. Cardinality(E) \in Nat /\ SumFunctionOnSet(slot, N) = Cardinality(E) * b
    BY ONLY <1>a, <1>3, <1>d, SumOfAmount
  <1> DEFINE H == {home[i] : i \in N}
  <1>e. (\A i \in N : home[i] \in H) /\ (\A y \in H : \E i \in N : home[i] = y)
    OBVIOUS
  <1>13. \A i, j \in N : home[i] = home[j] => i = j
    BY <1>1 DEF BackTo, ApartIn, N
  <1>14. H \in SUBSET (1 .. k) /\ IsFiniteSet(H) /\ IsFiniteSet((1 .. k) \ H)
    <2>1. H \in SUBSET (1 .. k)
      BY <1>7 DEF N
    <2> HIDE DEF H
    <2> QED
      BY <1>2, <2>1, FS_Subset
  <1> HIDE DEF H
  <1>15. SumFunctionOnSet(room, H) = SumFunctionOnSet(own, N)
    <2>1. \A i \in N : own[i] \in Int /\ room[home[i]] = own[i]
      BY <1>7 DEF N
    <2>2. Renaming(home, N, H)
      BY <1>e, <1>13 DEF Renaming
    <2>3. Renamed(own, room, home, N)
      BY <2>1 DEF Renamed
    <2> QED
      BY ONLY <1>a, <2>2, <2>3, SumRenamed
  <1>16. SumFunctionOnSet(room, 1 .. k) = SumFunctionOnSet(room, H) + SumFunctionOnSet(room, (1 .. k) \ H)
         /\ SumFunctionOnSet(room, (1 .. k) \ H) \in Nat
    <2>1. 1 .. k = H \cup ((1 .. k) \ H) /\ H \cap ((1 .. k) \ H) = {}
      BY <1>14
    <2>2. \A j \in H \cup ((1 .. k) \ H) : room[j] \in Int
      BY <1>6, <2>1
    <2>3. SumFunctionOnSet(room, H \cup ((1 .. k) \ H)) = SumFunctionOnSet(room, H) + SumFunctionOnSet(room, (1 .. k) \ H)
      BY <1>14, <2>1, <2>2, SumUnion
    <2>4. SumFunctionOnSet(room, (1 .. k) \ H) \in Nat
      BY <1>6, <1>14, SumNat
    <2> QED
      BY <2>1, <2>3, <2>4
  <1>17. SumFunctionOnSet(amount, N) \in Int /\ SumFunctionOnSet(own, N) \in Int
    <2>1. \A i \in N : amount[i] \in Int
      BY <1>b
    <2>2. \A i \in N : own[i] \in Int
      BY <1>c
    <2> QED
      BY ONLY <1>a, <2>1, <2>2, SumType
  <1>18. Cardinality(E) * b \in Int
    BY <1>3, <1>12
  <1> QED
    BY <1>5, <1>10, <1>11, <1>12, <1>15, <1>16, <1>17, <1>18 DEF N

\* What is taken back to where it came from always fits.
LEMMA BackFits ==
    ASSUME NEW c \in Nat, NEW p, IsPossession(p, c), NEW f, IsGoods(f), ApartIn(f), NEW home, BackTo(p, f, home),
           NEW m, m = Merge(p, f, c)
    PROVE  m.ok
  <1> SUFFICES ASSUME ~m.ok PROVE FALSE
    OBVIOUS
  <1> DEFINE n == Len(f)
  <1> DEFINE I == IdsOf(f)
  <1> DEFINE free == FreeSlots(Kept(p), c)
  <1> DEFINE E == Homeless(p, f, home)
  <1> DEFINE key == [i \in E |-> f[i].id]
  <1> DEFINE need == [id \in I |-> Cardinality({i \in E : key[i] = id})]
  <1>1. f \in Seq(Stack) /\ n \in Nat /\ DOMAIN f = 1 .. n /\ IsFiniteSet(1 .. n)
    <2>1. f \in Seq(Stack) /\ n \in Nat /\ DOMAIN f = 1 .. n
      BY DEF IsGoods
    <2> QED
      BY <2>1, PlacesFinite
  <1>2. p \in Seq(Stack)
    BY DEF IsPossession
  <1>3. /\ free = Slots(c) \ SlotsInUse(p)
        /\ \A id \in Ids : SumOver(Rooms(id), Kept(p)) = SumOver(Rooms(id), p)
    BY KeptPocket
  <1>4. PICK new \in [Ids -> Nat], at \in I : StoppedAt(Kept(p), f, c, n, new, at)
    <2>1. Merged(m, Kept(p), f, c, n)
      BY MergeMerges
    <2> QED
      BY <2>1 DEF Merged
  <1>5. IsFiniteSet(I) /\ I \subseteq Ids /\ IsFiniteSet(free) /\ Cardinality(free) \in Nat
    <2>1. free \in SUBSET Slots(c)
      BY <1>3
    <2> HIDE DEF free
    <2> QED
      BY <1>1, <2>1, FiniteGoods
  <1>6. E \in SUBSET (1 .. n) /\ IsFiniteSet(E) /\ Cardinality(E) \in Nat
    <2>1. E \in SUBSET (1 .. n)
      BY <1>1 DEF Homeless
    <2> HIDE DEF E
    <2> QED
      BY <1>1, <2>1, FS_Subset, FS_CardinalityType
  <1>7. Cardinality(E) <= Cardinality(free)
    <2> DEFINE slot == [i \in E |-> f[i].pos]
    <2>1. ASSUME NEW i \in E PROVE f[i].pos \in free
      <3>1. i \in DOMAIN f /\ home[i] \in DOMAIN p /\ p[home[i]].pos = f[i].pos /\ p[home[i]].count = 0
        BY DEF Homeless, BackTo
      <3>2. f[i].pos \in Slots(c)
        BY <3>1 DEF IsPossession
      <3>3. ASSUME f[i].pos \in SlotsInUse(p) PROVE FALSE
        <4>1. PICK j \in DOMAIN p : p[j].count > 0 /\ p[j].pos = f[i].pos
          BY <3>3 DEF SlotsInUse
        <4>2. j = home[i]
          BY <3>1, <4>1 DEF IsPossession, ApartIn
        <4> QED
          BY <3>1, <4>1, <4>2
      <3> QED
        BY <1>3, <3>2, <3>3
    <2>2. \A i, j \in E : f[i].pos = f[j].pos => i = j
      BY DEF Homeless, ApartIn
    <2> HIDE DEF E, free
    <2>3. slot \in Injection(E, free)
      BY <2>1, <2>2 DEF Injection, IsInjective
    <2> HIDE DEF slot
    <2> QED
      BY <1>5, <2>3, FS_Injection
  <1>8. \A i \in E : key[i] \in I
    BY DEF Homeless, IdsOf
  <1>9. ASSUME NEW id \in I
        PROVE  /\ new[id] \in Int /\ need[id] \in Int /\ new[id] <= need[id]
               /\ id = at => new[id] < need[id]
    <2>1. id \in Ids
      BY <1>5
    <2> DEFINE F == {i \in Homeless(p, f, home) : f[i].id = id}
    <2>2. {i \in E : key[i] = id} = F
      OBVIOUS
    <2>3. need[id] = Cardinality(F)
      BY <2>2
    <2> HIDE DEF F
    <2>4. /\ Cardinality(F) \in Nat
          /\ SumOver(Amounts(id), f) - SumOver(Rooms(id), p) <= Cardinality(F) * MaxCount[id]
      BY <2>1, NeedsHomes DEF F
    <2>5. Amounts(id) \in [Stack -> Int] /\ Rooms(id) \in [Stack -> Int]
      BY <2>1, WeightTypes
    <2>6. SumUpTo(Amounts(id), f, n) = SumOver(Amounts(id), f)
      BY <1>1, <2>5, SumUpToSteps
    <2>7. PICK over \in Int : over = SumUpTo(Amounts(id), f, n) - SumOver(Rooms(id), Kept(p))
      <3>1. SumOver(Amounts(id), f) \in Int /\ SumOver(Rooms(id), p) \in Int
        BY <1>1, <1>2, <2>5, SumOverType
      <3> QED
        BY <1>3, <2>1, <2>6, <3>1
    <2>8. PICK b \in Nat, w \in Nat, q \in Nat : b = MaxCount[id] /\ w = new[id] /\ q = need[id] /\ b > 0
      <3>1. new[id] \in Nat /\ MaxCount[id] \in Nat /\ MaxCount[id] > 0
        BY <2>1, MaxCountAssumption
      <3>2. need[id] \in Nat
        BY <2>3, <2>4
      <3> HIDE DEF need
      <3> QED
        BY <3>1, <3>2
    <2>9. over <= q * b
      BY <1>3, <2>1, <2>3, <2>4, <2>6, <2>7, <2>8
    <2>10. (w > 0 => over > (w - 1) * b) /\ (id = at => over > w * b)
      BY <1>4, <2>1, <2>7, <2>8 DEF StoppedAt
    <2>11. ASSUME w > q PROVE (w - 1) * b >= q * b
      <3>1. PICK d \in Nat : w - 1 = q + d
        <4>1. w - 1 - q \in Nat /\ w - 1 = q + (w - 1 - q)
          BY <2>11
        <4> QED
          BY <4>1
      <3>2. (q + d) * b = q * b + d * b /\ d * b \in Nat /\ q * b \in Nat
        OBVIOUS
      <3> QED
        BY <3>1, <3>2
    <2>12. w <= q
      <3>1. q * b \in Nat
        OBVIOUS
      <3>2. CASE w > q
        <4>1. (w - 1) * b \in Int
          OBVIOUS
        <4> QED
          BY <2>9, <2>10, <2>11, <3>1, <3>2, <4>1
      <3> QED
        BY <3>2
    <2>13. id = at => w # q
      BY <2>9, <2>10
    <2> QED
      BY ONLY <2>8, <2>12, <2>13
  <1> HIDE DEF need
  <1>10. SumFunctionOnSet(new, I) < SumFunctionOnSet(need, I)
    <2>1. \A id \in I : new[id] \in Int /\ need[id] \in Int /\ new[id] <= need[id]
      BY <1>9
    <2>2. at \in I /\ new[at] < need[at]
      BY <1>9
    <2> HIDE DEF I
    <2> QED
      BY ONLY <1>5, <2>1, <2>2, SumStrictlyMonotonic
  <1>11. SumFunctionOnSet(need, I) = Cardinality(E)
    <2> HIDE DEF E, key, I
    <2> QED
      BY <1>5, <1>6, <1>8, SumOfFibers DEF need
  <1>12. SumFunctionOnSet(new, I) = Cardinality(free)
    BY <1>4 DEF StoppedAt
  <1> HIDE DEF E, free, I
  <1> QED
    BY <1>5, <1>6, <1>7, <1>10, <1>11, <1>12

-----------------------------------------------------------------------------
\* A vector of the stacks of a pocket, in whatever order.
LEMMA Enumerated ==
    ASSUME NEW S \in SUBSET Stack, IsFiniteSet(S), OnePerSlot(S), NEW p \in SetToSeqs(S)
    PROVE  /\ p \in Seq(Stack) /\ ApartIn(p)
           /\ \A i \in DOMAIN p : p[i] \in S
           /\ \A x \in S : \E i \in DOMAIN p : p[i] = x
           /\ \A id : TotalOf(p, id) = Sum(S, id)
  <1> DEFINE n == Cardinality(S)
  <1>1. n \in Nat /\ p \in [1 .. n -> S] /\ \A i, j \in 1 .. n : i # j => p[i] # p[j]
    BY FS_CardinalityType DEF SetToSeqs
  <1> HIDE DEF n
  <1>2. p \in [1 .. n -> Stack] /\ DOMAIN p = 1 .. n /\ Len(p) = n /\ p \in Seq(Stack)
    BY <1>1
  <1>3. ApartIn(p)
    BY <1>1, <1>2 DEF ApartIn, OnePerSlot
  <1>4. p \in Surjection(1 .. n, S)
    <2>1. p \in Injection(1 .. n, S)
      BY <1>1 DEF Injection, IsInjective
    <2>2. Cardinality(1 .. n) = n
      BY <1>1, PlacesFinite
    <2> QED
      BY <2>1, <2>2, FS_Injection DEF n
  <1>5. \A x \in S : \E i \in 1 .. n : p[i] = x
    BY <1>4 DEF Surjection
  <1>6. ASSUME NEW id PROVE TotalOf(p, id) = Sum(S, id)
    <2> DEFINE f == [i \in 1 .. n |-> IF p[i].id = id THEN p[i].count ELSE 0]
    <2> DEFINE g == [x \in S |-> IF x.id = id THEN x.count ELSE 0]
    <2>1. TotalOf(p, id) = SumFunctionOnSet(f, 1 .. n) /\ Sum(S, id) = SumFunctionOnSet(g, S)
      BY <1>2 DEF TotalOf, Sum, SumFunction
    <2> DEFINE N == 1 .. n
    <2>2. \A i \in N : f[i] \in Int /\ g[p[i]] = f[i]
      BY <1>1, <1>2 DEF Stack
    <2>3. IsFiniteSet(N) /\ (\A i \in N : p[i] \in S) /\ (\A x \in S : \E i \in N : p[i] = x)
      BY <1>1, <1>5, PlacesFinite
    <2>4. \A i, j \in N : p[i] = p[j] => i = j
      BY <1>1
    <2> HIDE DEF f, g, N
    <2>5. Renaming(p, N, S) /\ Renamed(f, g, p, N)
      BY <2>2, <2>3, <2>4 DEF Renaming, Renamed
    <2>6. SumFunctionOnSet(g, S) = SumFunctionOnSet(f, N)
      BY ONLY <2>3, <2>5, SumRenamed
    <2> QED
      BY <2>1, <2>6 DEF N
  <1> QED
    BY <1>1, <1>2, <1>3, <1>5, <1>6

\* There is such a vector.
LEMMA Enumerable ==
    ASSUME NEW S, IsFiniteSet(S)
    PROVE  SetToSeqs(S) # {}
  <1>1. PICK f : f \in Bijection(1 .. Cardinality(S), S)
    BY FS_CardinalityType DEF ExistsBijection
  <1>2. f \in SetToSeqs(S)
    BY <1>1 DEF Bijection, Injection, IsInjective, SetToSeqs
  <1> QED
    BY <1>2

\* The stacks of a merged pocket, as a set.
LEMMA PocketTotal ==
    ASSUME NEW c \in Nat, NEW s, IsPocket(s, c), NEW S, S = ToSet(s)
    PROVE  /\ S \in SUBSET Stack /\ IsFiniteSet(S)
           /\ \A id : Sum(S, id) = TotalOf(s, id)
  <1> DEFINE n == Len(s)
  <1>1. s \in Seq(Stack) /\ n \in Nat /\ DOMAIN s = 1 .. n /\ IsFiniteSet(1 .. n)
    <2>1. s \in Seq(Stack) /\ n \in Nat /\ DOMAIN s = 1 .. n
      BY DEF IsPocket
    <2> QED
      BY <2>1, PlacesFinite
  <1>2. (\A i \in 1 .. n : s[i] \in S /\ s[i] \in Stack) /\ (\A x \in S : \E i \in 1 .. n : s[i] = x)
    BY <1>1 DEF ToSet
  <1>3. \A i, j \in 1 .. n : s[i] = s[j] => i = j
    BY <1>1 DEF IsPocket, ApartIn
  <1>4. ASSUME NEW id PROVE IsFiniteSet(S) /\ Sum(S, id) = TotalOf(s, id)
    <2> DEFINE f == [i \in 1 .. n |-> IF s[i].id = id THEN s[i].count ELSE 0]
    <2> DEFINE g == [x \in S |-> IF x.id = id THEN x.count ELSE 0]
    <2>1. TotalOf(s, id) = SumFunctionOnSet(f, 1 .. n) /\ Sum(S, id) = SumFunctionOnSet(g, S)
      BY DEF TotalOf, Sum, SumFunction
    <2> DEFINE N == 1 .. n
    <2>2. \A i \in N : f[i] \in Int /\ g[s[i]] = f[i]
      BY <1>2 DEF Stack
    <2>3. IsFiniteSet(N) /\ (\A i \in N : s[i] \in S) /\ (\A x \in S : \E i \in N : s[i] = x)
      BY <1>1, <1>2
    <2>4. \A i, j \in N : s[i] = s[j] => i = j
      BY <1>3
    <2> HIDE DEF f, g, N
    <2>5. Renaming(s, N, S) /\ Renamed(f, g, s, N)
      BY <2>2, <2>3, <2>4 DEF Renaming, Renamed
    <2>6. IsFiniteSet(S) /\ SumFunctionOnSet(g, S) = SumFunctionOnSet(f, N)
      BY ONLY <2>3, <2>5, SumRenamed
    <2> QED
      BY <2>1, <2>6 DEF N
  <1> QED
    BY <1>2, <1>4

-----------------------------------------------------------------------------
(***************************************************************************)
(* The save.                                                               *)
(***************************************************************************)
InSlots(items) == \A x \in items : x.pos \in Slots(Capacity)

\* What the bargaining leaves of the pockets still lies in their slots, and no
\* trader owned more money than a role may.
PocketsInv ==
    Bargaining => \A s \in Side : InSlots(possession[s]) /\ db[s].money <= MoneyCap

\* A pocket keeps to its slots when it has the stacks it had, by id and position.
LEMMA SameSlots ==
    ASSUME NEW P, NEW Q, InSlots(P), \A y : Has(P, y) <=> Has(Q, y)
    PROVE  InSlots(Q)
  <1> SUFFICES ASSUME NEW y \in Q PROVE y.pos \in Slots(Capacity)
    BY DEF InSlots
  <1>1. Has(Q, y)
    BY DEF Has, Same
  <1>2. PICK x \in P : Same(x, y)
    BY <1>1 DEF Has
  <1> QED
    BY <1>2 DEF InSlots, Same

\* No operation takes a stack out of the pocket.
LEMMA NextPockets == Inv /\ PocketsInv /\ [Next]_vars => PocketsInv'
  <1> SUFFICES ASSUME Inv, PocketsInv, [Next]_vars, Bargaining', NEW u \in Side
               PROVE  InSlots(possession'[u]) /\ db'[u].money <= MoneyCap
    BY DEF PocketsInv
  <1>1. ASSUME Bargaining
        PROVE  /\ possession \in [Side -> SUBSET Stack] /\ exchg_obj \in [Side -> SUBSET Stack]
               /\ \A s \in Side : /\ OnePerSlot(possession[s]) /\ OnePerSlot(exchg_obj[s])
                                  /\ Homed(exchg_obj[s], possession[s])
                                  /\ Within(possession[s], exchg_obj[s])
                                  /\ InSlots(possession[s]) /\ db[s].money <= MoneyCap
    BY <1>1 DEF Inv, PocketsInv
  <1>2. ASSUME NEW s \in Side, NEW g \in Goods \cup {NoGoods}, NEW money \in Money,
               AddExchgObject(s, g, money)
        PROVE  InSlots(possession'[u]) /\ db'[u].money <= MoneyCap
    <2>1. Bargaining /\ db' = db
      BY <1>2 DEF AddExchgObject, Bargaining, dbVars
    <2>2. CASE g = NoGoods
      BY <1>1, <1>2, <2>1, <2>2 DEF AddExchgObject
    <2>3. CASE g # NoGoods
      <3> DEFINE P == possession[s]
      <3>1. g \in Stack /\ g.count \in Nat
        BY <2>3, GoodsAssumption DEF Stack
      <3>2. VerifyGoods(P, g) /\ possession' = [possession EXCEPT ![s] = Less(P, g, g.count)]
        BY <1>2, <2>3 DEF AddExchgObject
      <3>3. P \in SUBSET Stack /\ OnePerSlot(P) /\ InSlots(P)
        BY <1>1, <2>1
      <3> HIDE DEF P
      <3>4. Has(P, g) /\ Find(P, g).count >= g.count
        BY <3>2, <3>3, VerifiedCount
      <3>5. \A y : Has(P, y) <=> Has(Less(P, g, g.count), y)
        BY <3>1, <3>3, <3>4, LessKeeps
      <3>6. InSlots(Less(P, g, g.count))
        BY <3>3, <3>5, SameSlots
      <3> QED
        BY <1>1, <2>1, <3>2, <3>6
    <2> QED
      BY <2>2, <2>3
  <1>3. ASSUME NEW s \in Side, NEW g \in Goods \cup {NoGoods}, NEW money \in Money,
               RemoveExchgObject(s, g, money)
        PROVE  InSlots(possession'[u]) /\ db'[u].money <= MoneyCap
    <2>1. Bargaining /\ db' = db
      BY <1>3 DEF RemoveExchgObject, Bargaining, dbVars
    <2>2. CASE possession' = possession
      BY <1>1, <2>1, <2>2
    <2>3. CASE possession' # possession
      <3> DEFINE P == possession[s]
      <3>1. g # NoGoods /\ Has(P, g) /\ possession' = [possession EXCEPT ![s] = More(P, g, g.count)]
        BY <1>3, <2>3 DEF RemoveExchgObject
      <3>2. g \in Stack /\ g.count \in Nat
        BY <3>1, GoodsAssumption DEF Stack
      <3>3. P \in SUBSET Stack /\ OnePerSlot(P) /\ InSlots(P)
        BY <1>1, <2>1
      <3> HIDE DEF P
      <3>5. \A y : Has(P, y) <=> Has(More(P, g, g.count), y)
        BY <3>1, <3>2, <3>3, MoreKeeps
      <3>6. InSlots(More(P, g, g.count))
        BY <3>3, <3>5, SameSlots
      <3> QED
        BY <1>1, <2>1, <3>1, <3>6
    <2> QED
      BY <2>2, <2>3
  <1>4. ASSUME NEW s \in Side, NEW g \in Goods, NEW to \in Slots(Capacity), MoveObject(s, g, to)
        PROVE  InSlots(possession'[u]) /\ db'[u].money <= MoneyCap
    <2> DEFINE P == possession[s]
    <2>1. Bargaining /\ db' = db
      BY <1>4 DEF MoveObject, Bargaining, dbVars
    <2>2. g \in Stack /\ to \in Nat
      BY GoodsAssumption DEF Slots
    <2>3. /\ g.pos # to /\ VerifyGoods(P, g)
          /\ possession' = [possession EXCEPT ![s] = Moved(P, g, to)]
      BY <1>4 DEF MoveObject
    <2>4. P \in SUBSET Stack /\ OnePerSlot(P) /\ InSlots(P) /\ \A x \in P : x.count <= MaxCount[x.id]
      BY <1>1, <2>1 DEF Within
    <2> HIDE DEF P
    <2>5. MoveLeaves(Moved(P, g, to), P, g, to)
      BY <2>2, <2>3, <2>4, MovedLeaves
    <2>6. g.pos \in Slots(Capacity)
      BY <2>3, <2>4 DEF VerifyGoods, Same, InSlots
    <2>7. InSlots(Moved(P, g, to))
      BY <2>4, <2>5, <2>6 DEF MoveLeaves, InSlots
    <2> QED
      BY <1>1, <2>1, <2>3, <2>7
  <1>5. ASSUME Bargaining, UNCHANGED <<possession, db>>
        PROVE  InSlots(possession'[u]) /\ db'[u].money <= MoneyCap
    BY <1>1, <1>5
  <1>6. ASSUME \/ \E s \in Side : Submit(s)
               \/ \E s \in Side, sent \in BOOLEAN : Confirm(s, sent)
               \/ \E sent \in BOOLEAN : Discard(sent)
               \/ Abandon \/ SaveDone \/ StorePockets \/ UNCHANGED vars
        PROVE  Bargaining /\ UNCHANGED <<possession, db>>
    <2>1. CASE \E s \in Side : Submit(s)
      BY <2>1 DEF Submit, Bargaining, goodsVars, dbVars
    <2>2. ASSUME NEW s \in Side, NEW sent \in BOOLEAN, Confirm(s, sent)
          PROVE  Bargaining /\ UNCHANGED <<possession, db>>
      <3>1. state' \notin {"Confirm", "Null"}
        BY DEF Bargaining, Exchanging, Settling
      <3> QED
        BY <2>2, <3>1 DEF Confirm, Write2DB, Bargaining, goodsVars
    <2>3. CASE (\E sent \in BOOLEAN : Discard(sent)) \/ Abandon \/ SaveDone
      <3>1. state' \in {"Init", "Null"}
        BY <2>3 DEF Discard, Write2DB, Abandon, SaveDone
      <3> QED
        BY <3>1 DEF Bargaining, Exchanging, Settling
    <2>4. CASE StorePockets
      <3>1. Bargaining /\ save.status = "sent"
        BY <2>4 DEF StorePockets, Bargaining
      <3> QED
        BY <3>1 DEF Inv, NoSave
    <2>5. CASE UNCHANGED vars
      BY <2>5 DEF vars, Bargaining
    <2> QED
      BY <1>6, <2>1, <2>2, <2>3, <2>4, <2>5
  <1> QED
    BY <1>2, <1>3, <1>4, <1>5, <1>6 DEF Next

-----------------------------------------------------------------------------
\* The pockets that TradeSave receives.

\* A vector of what a trader has, and a vector of what is offered, are what
\* MergeInventory takes.
LEMMA VectorsMerge ==
    ASSUME Inv, GoodsInv, PocketsInv, Bargaining, NEW to \in Side, NEW from \in Side,
           NEW p \in SetToSeqs(possession[to]), NEW f \in SetToSeqs(exchg_obj[from])
    PROVE  /\ IsPossession(p, Capacity) /\ IsGoods(f)
           /\ \A id : TotalOf(p, id) = Sum(possession[to], id) /\ TotalOf(f, id) = Sum(exchg_obj[from], id)
  <1> DEFINE P == possession[to]
  <1> DEFINE X == exchg_obj[from]
  <1> DEFINE H == possession[from]
  <1>1. /\ P \in SUBSET Stack /\ OnePerSlot(P) /\ IsFiniteSet(P) /\ InSlots(P)
        /\ X \in SUBSET Stack /\ OnePerSlot(X) /\ IsFiniteSet(X)
        /\ H \in SUBSET Stack /\ Homed(X, H) /\ Within(H, X)
        /\ \A x \in P : x.count <= MaxCount[x.id]
    BY DEF Inv, GoodsInv, PocketsInv, KeptGoods, Within
  <1> HIDE DEF P, X, H
  <1>2. p \in SetToSeqs(P) /\ f \in SetToSeqs(X)
    BY DEF P, X
  <1>3. /\ p \in Seq(Stack) /\ ApartIn(p) /\ (\A i \in DOMAIN p : p[i] \in P)
        /\ \A id : TotalOf(p, id) = Sum(P, id)
    BY ONLY <1>1, <1>2, Enumerated
  <1>4. /\ f \in Seq(Stack) /\ ApartIn(f) /\ (\A i \in DOMAIN f : f[i] \in X)
        /\ \A id : TotalOf(f, id) = Sum(X, id)
    BY ONLY <1>1, <1>2, Enumerated
  <1>5. IsPossession(p, Capacity)
    BY <1>1, <1>3 DEF IsPossession, InSlots
  <1>6. \A x \in X : x.count <= MaxCount[x.id]
    <2> SUFFICES ASSUME NEW x \in X PROVE x.count <= MaxCount[x.id]
      OBVIOUS
    <2>1. PICK h \in H : Same(h, x)
      BY <1>1 DEF Homed, Has
    <2>2. x.count + h.count <= MaxCount[h.id] /\ h.id = x.id
      BY <1>1, <2>1 DEF Within, Same
    <2>3. x.count \in Nat /\ h.count \in Nat /\ MaxCount[x.id] \in Nat
      BY <1>1, <2>1, MaxCountAssumption DEF Stack
    <2> QED
      BY <2>2, <2>3
  <1>7. IsGoods(f)
    BY <1>4, <1>6 DEF IsGoods
  <1> QED
    BY <1>3, <1>4, <1>5, <1>7 DEF P, X

\* What is generated for a trader holds what it kept and what it was offered.
LEMMA GeneratedTotals ==
    ASSUME Inv, GoodsInv, PocketsInv, Bargaining, NEW to \in Side, NEW from \in Side,
           NEW r \in Generated(to, from)
    PROVE  /\ r.money = pssn_money[to] + exchg_money[from]
           /\ r.items \in SUBSET Stack /\ IsFiniteSet(r.items)
           /\ \A id \in Ids : Sum(r.items, id) = Sum(possession[to], id) + Sum(exchg_obj[from], id)
  <1>0. PICK p \in SetToSeqs(possession[to]), f \in SetToSeqs(exchg_obj[from]) :
           /\ Merge(p, f, Capacity).ok
           /\ r = [items |-> ToSet(Merge(p, f, Capacity).result),
                   money |-> pssn_money[to] + exchg_money[from]]
    BY DEF Generated
  <1>1. PICK m :
           /\ m = Merge(p, f, Capacity) /\ m.ok
           /\ r = [items |-> ToSet(m.result), money |-> pssn_money[to] + exchg_money[from]]
    BY <1>0
  <1>2. /\ IsPossession(p, Capacity) /\ IsGoods(f)
        /\ \A id : TotalOf(p, id) = Sum(possession[to], id) /\ TotalOf(f, id) = Sum(exchg_obj[from], id)
    BY VectorsMerge
  <1>3. Capacity \in Nat /\ m = Merge(p, f, Capacity)
    BY <1>1, GoodsAssumption
  <1>4. /\ IsPocket(m.result, Capacity)
        /\ m.ok => \A id \in Ids : TotalOf(m.result, id) = TotalOf(p, id) + TotalOf(f, id)
    BY ONLY <1>2, <1>3, MergePocket
  <1>5. r.items = ToSet(m.result) /\ r.money = pssn_money[to] + exchg_money[from]
    BY <1>1
  <1>6. /\ r.items \in SUBSET Stack /\ IsFiniteSet(r.items)
        /\ \A id : Sum(r.items, id) = TotalOf(m.result, id)
    BY ONLY <1>3, <1>4, <1>5, PocketTotal
  <1> QED
    BY <1>1, <1>2, <1>4, <1>5, <1>6

\* A trader's own offer always goes back into its pocket: the merge that
\* Transaction::Discard does not look at never fails.
LEMMA OwnOfferFits ==
    ASSUME Inv, GoodsInv, PocketsInv, Bargaining, NEW s \in Side
    PROVE  Generated(s, s) # {}
  <1> DEFINE P == possession[s]
  <1> DEFINE X == exchg_obj[s]
  <1>1. /\ P \in SUBSET Stack /\ OnePerSlot(P) /\ IsFiniteSet(P)
        /\ X \in SUBSET Stack /\ OnePerSlot(X) /\ IsFiniteSet(X)
        /\ Homed(X, P) /\ Within(P, X)
    BY DEF Inv, GoodsInv, KeptGoods
  <1>2. pssn_money[s] + exchg_money[s] <= MoneyCap /\ pssn_money[s] + exchg_money[s] \in Nat /\ MoneyCap \in Nat
    BY GoodsAssumption DEF Inv, PocketsInv
  <1> HIDE DEF P, X
  <1>3. PICK p \in SetToSeqs(P), f \in SetToSeqs(X) : TRUE
    BY <1>1, Enumerable
  <1>4. IsPossession(p, Capacity) /\ IsGoods(f)
    BY VectorsMerge DEF P, X
  <1>5. ApartIn(f) /\ (\A i \in DOMAIN f : f[i] \in X)
    BY <1>1, Enumerated
  <1>6. \A x \in P : \E j \in DOMAIN p : p[j] = x
    BY <1>1, Enumerated
  <1> DEFINE home == [i \in DOMAIN f |-> CHOOSE j \in DOMAIN p : Same(p[j], f[i])]
  <1>7. BackTo(p, f, home)
    <2> SUFFICES ASSUME NEW i \in DOMAIN f
                 PROVE  /\ home[i] \in DOMAIN p
                        /\ p[home[i]].id = f[i].id /\ p[home[i]].pos = f[i].pos
                        /\ f[i].count + p[home[i]].count <= MaxCount[f[i].id]
      BY DEF BackTo
    <2>1. PICK x \in P : Same(x, f[i])
      BY <1>1, <1>5 DEF Homed, Has
    <2>2. home[i] \in DOMAIN p /\ Same(p[home[i]], f[i])
      BY <1>6, <2>1
    <2>3. \A j \in DOMAIN p : p[j] \in P
      BY <1>1, Enumerated
    <2>4. p[home[i]] \in P /\ f[i] \in X
      BY <1>5, <2>2, <2>3
    <2> HIDE DEF home
    <2>5. Same(f[i], p[home[i]])
      BY <2>2 DEF Same
    <2>6. f[i].count + p[home[i]].count <= MaxCount[p[home[i]].id]
      BY <1>1, <2>4, <2>5 DEF Within
    <2> QED
      BY <2>2, <2>6 DEF Same
  <1> HIDE DEF home
  <1> DEFINE m == Merge(p, f, Capacity)
  <1>8. m.ok
    <2>1. Capacity \in Nat
      BY GoodsAssumption
    <2> QED
      BY ONLY <1>4, <1>5, <1>7, <2>1, BackFits
  <1>9. ~(pssn_money[s] + exchg_money[s] > MoneyCap)
    BY <1>2
  <1>10. [items |-> ToSet(m.result), money |-> pssn_money[s] + exchg_money[s]] \in Generated(s, s)
    BY <1>8, <1>9 DEF Generated, P, X
  <1> QED
    BY <1>10

\* The pockets of a save are worth what the pockets in the database are.
AddsUp(stored, arg) ==
    /\ stored["Alice"].money + stored["Bob"].money = arg["Alice"].money + arg["Bob"].money
    /\ \A id \in Ids : SumOf(stored, id) = SumOf(arg, id)

\* Two pockets add up when money and goods went from one to the other, or stayed.
LEMMA PocketsAddUp ==
    ASSUME Inv, GoodsInv, PocketsInv, Bargaining, NEW a, NEW b, NEW x \in Side, NEW y \in Side, x # y,
           a.money = pssn_money["Alice"] + exchg_money[x],
           b.money = pssn_money["Bob"] + exchg_money[y],
           \A id \in Ids :
              /\ Sum(a.items, id) = Sum(possession["Alice"], id) + Sum(exchg_obj[x], id)
              /\ Sum(b.items, id) = Sum(possession["Bob"], id) + Sum(exchg_obj[y], id),
           NEW arg, arg = [s \in Side |-> IF s = "Alice" THEN a ELSE b]
    PROVE  AddsUp(db, arg)
  <1>0. arg["Alice"] = a /\ arg["Bob"] = b
    BY DEF Side
  <1>1. \/ x = "Alice" /\ y = "Bob"
        \/ x = "Bob" /\ y = "Alice"
    BY DEF Side
  <1>2. ASSUME NEW s \in Side
        PROVE  /\ pssn_money[s] \in Nat /\ exchg_money[s] \in Nat /\ pssn_money[s] + exchg_money[s] = db[s].money
               /\ \A id \in Ids : Sum(possession[s], id) + Sum(exchg_obj[s], id) = Sum(db[s].items, id)
               /\ \A id \in Ids : Sum(possession[s], id) \in Nat /\ Sum(exchg_obj[s], id) \in Nat
    <2>1. /\ possession[s] \in SUBSET Stack /\ IsFiniteSet(possession[s])
          /\ exchg_obj[s] \in SUBSET Stack /\ IsFiniteSet(exchg_obj[s])
      BY DEF Inv, GoodsInv, KeptGoods
    <2>2. \A id \in Ids : Sum(possession[s], id) \in Nat /\ Sum(exchg_obj[s], id) \in Nat
      BY <2>1, SumOfStacks
    <2> QED
      BY <2>2 DEF Inv, GoodsInv, KeptGoods
  <1>3. "Alice" \in Side /\ "Bob" \in Side
    BY DEF Side
  <1>4. db["Alice"].money + db["Bob"].money = a.money + b.money
    BY <1>1, <1>2, <1>3
  <1>5. ASSUME NEW id \in Ids PROVE SumOf(db, id) = SumOf(arg, id)
    <2>1. SumOf(db, id) = Sum(db["Alice"].items, id) + Sum(db["Bob"].items, id)
      BY DEF SumOf
    <2>2. SumOf(arg, id) = Sum(a.items, id) + Sum(b.items, id)
      BY <1>0 DEF SumOf
    <2> QED
      BY <1>1, <1>2, <1>3, <2>1, <2>2
  <1> QED
    BY <1>0, <1>4, <1>5 DEF AddsUp

\* gamedbd has not refused the save, and what is on its way adds up.
SaveInv ==
    /\ save = [status |-> save.status, cause |-> save.cause, arg |-> save.arg]
    /\ save.status # "refused"
    /\ save.status = "sent" => Verified

\* A save that is sent now is one gamedbd will accept.
LEMMA SentAddsUp ==
    ASSUME Inv, Bargaining, NEW arg, AddsUp(db, arg), db' = db,
           NEW modified, NEW cause, NEW sent, NEW next, Write2DB(arg, modified, cause, sent, next)
    PROVE  SaveInv'
  <1>1. CASE save' = save
    <2>1. save' = NoSave
      BY <1>1 DEF Inv
    <2> QED
      BY <2>1 DEF SaveInv, NoSave
  <1>2. CASE save' = [status |-> "sent", cause |-> cause, arg |-> arg]
    <2>1. save' = [status |-> "sent", cause |-> cause, arg |-> arg] /\ save'.arg = arg /\ save'.status = "sent"
      BY <1>2
    <2>2. save' = [status |-> save'.status, cause |-> save'.cause, arg |-> save'.arg]
      BY <2>1
    <2>3. Verified'
      BY <2>1 DEF Verified, AddsUp, SumOf
    <2> QED
      BY <2>1, <2>2, <2>3 DEF SaveInv
  <1> QED
    BY <1>1, <1>2 DEF Write2DB

\* The second confirmation.
LEMMA ConfirmSaves ==
    ASSUME Inv, GoodsInv, PocketsInv, ResultIsCurrent, SaveInv, NEW s \in Side, NEW sent \in BOOLEAN,
           Confirm(s, sent)
    PROVE  SaveInv'
  <1> DEFINE ts == [tstate EXCEPT ![s] = "CONFIRM"]
  <1>1. Bargaining /\ db' = db /\ state \in Settling /\ save = NoSave
    BY DEF Confirm, Bargaining, Inv
  <1>2. "Alice" \in Side /\ "Bob" \in Side /\ "Alice" # "Bob"
    BY DEF Side
  <1>3. CASE ts[Other(s)] # "CONFIRM"
    <2>1. save' = save
      BY <1>3 DEF Confirm
    <2> QED
      BY <1>1, <2>1 DEF SaveInv, NoSave
  <1>4. CASE ts[Other(s)] = "CONFIRM" /\ ~Offered
    <2>1. Write2DB(Possessed, pssn_modified, "confirm", sent, "Confirm")
      BY <1>4 DEF Confirm
    <2>2. AddsUp(db, Possessed)
      <3> DEFINE a == Possessed["Alice"]
      <3> DEFINE b == Possessed["Bob"]
      <3>1. /\ a.items = possession["Alice"] /\ a.money = pssn_money["Alice"]
            /\ b.items = possession["Bob"] /\ b.money = pssn_money["Bob"]
        BY <1>2 DEF Possessed
      <3>2. \A u \in Side : exchg_money[u] = 0 /\ exchg_obj[u] = {}
        BY <1>4 DEF Offered
      <3>3. Possessed = [u \in Side |-> IF u = "Alice" THEN a ELSE b]
        BY DEF Possessed, Side
      <3>4. /\ pssn_money["Alice"] \in Nat /\ pssn_money["Bob"] \in Nat
            /\ possession["Alice"] \in SUBSET Stack /\ IsFiniteSet(possession["Alice"])
            /\ possession["Bob"] \in SUBSET Stack /\ IsFiniteSet(possession["Bob"])
        BY <1>1, <1>2 DEF Inv, GoodsInv, KeptGoods
      <3>5. \A id \in Ids : /\ Sum(possession["Alice"], id) \in Nat /\ Sum(possession["Bob"], id) \in Nat
                            /\ Sum({}, id) = 0
        <4>1. \A id : Sum({}, id) = 0
          BY SumEmpty DEF Sum, SumFunction
        <4> QED
          BY <3>4, <4>1, SumOfStacks
      <3> HIDE DEF a, b
      <3>6. /\ a.money = pssn_money["Alice"] + exchg_money["Alice"]
            /\ b.money = pssn_money["Bob"] + exchg_money["Bob"]
        BY <1>2, <3>1, <3>2, <3>4
      <3>7. \A id \in Ids :
               /\ Sum(a.items, id) = Sum(possession["Alice"], id) + Sum(exchg_obj["Alice"], id)
               /\ Sum(b.items, id) = Sum(possession["Bob"], id) + Sum(exchg_obj["Bob"], id)
        <4>1. exchg_obj["Alice"] = {} /\ exchg_obj["Bob"] = {}
          BY <1>2, <3>2
        <4>2. a.items = possession["Alice"] /\ b.items = possession["Bob"]
          BY <3>1
        <4>3. ASSUME NEW id \in Ids, NEW k \in Nat PROVE Sum({}, id) = 0 /\ k = k + 0
          BY <3>5
        <4> QED
          BY <3>5, <4>1, <4>2, <4>3
      <3> QED
        BY <1>1, <1>2, <3>3, <3>6, <3>7, PocketsAddUp
    <2> QED
      BY <1>1, <2>1, <2>2, SentAddsUp
  <1>5. CASE ts[Other(s)] = "CONFIRM" /\ Offered
    <2>1. result # <<>> /\ result["Alice"] \in Generated("Alice", "Bob") /\ result["Bob"] \in Generated("Bob", "Alice")
      BY <1>1 DEF ResultIsCurrent
    <2>2. Write2DB(result, pssn_modified', "confirm", sent, "Confirm")
      BY <1>5, <2>1 DEF Confirm
    <2> DEFINE a == result["Alice"]
    <2> DEFINE b == result["Bob"]
    <2>3. /\ a.money = pssn_money["Alice"] + exchg_money["Bob"]
          /\ \A id \in Ids : Sum(a.items, id) = Sum(possession["Alice"], id) + Sum(exchg_obj["Bob"], id)
      BY <1>1, <1>2, <2>1, GeneratedTotals
    <2>4. /\ b.money = pssn_money["Bob"] + exchg_money["Alice"]
          /\ \A id \in Ids : Sum(b.items, id) = Sum(possession["Bob"], id) + Sum(exchg_obj["Alice"], id)
      BY <1>1, <1>2, <2>1, GeneratedTotals
    <2> HIDE DEF a, b
    <2> DEFINE arg == [u \in Side |-> IF u = "Alice" THEN a ELSE b]
    <2>5. AddsUp(db, arg)
      BY <1>1, <1>2, <2>3, <2>4, PocketsAddUp
    <2>6. AddsUp(db, result)
      <3>1. arg["Alice"] = result["Alice"] /\ arg["Bob"] = result["Bob"]
        BY <1>2 DEF a, b
      <3> QED
        BY <2>5, <3>1 DEF AddsUp, SumOf
    <2> QED
      BY <1>1, <2>2, <2>6, SentAddsUp
  <1> QED
    BY <1>3, <1>4, <1>5

\* A discarded trade.
LEMMA DiscardSaves ==
    ASSUME Inv, GoodsInv, PocketsInv, NEW sent \in BOOLEAN, Discard(sent)
    PROVE  SaveInv'
  <1>1. Bargaining /\ db' = db /\ "Alice" \in Side /\ "Bob" \in Side /\ "Alice" # "Bob"
    BY DEF Discard, Side
  <1>2. PICK a \in GivenBack("Alice"), b \in GivenBack("Bob") :
           Write2DB([s \in Side |-> IF s = "Alice" THEN a ELSE b], pssn_modified, "discard", sent, "Init")
    BY DEF Discard
  <1>3. a \in Generated("Alice", "Alice") /\ b \in Generated("Bob", "Bob")
    BY <1>1, OwnOfferFits DEF GivenBack
  <1>4. /\ a.money = pssn_money["Alice"] + exchg_money["Alice"]
        /\ \A id \in Ids : Sum(a.items, id) = Sum(possession["Alice"], id) + Sum(exchg_obj["Alice"], id)
    BY <1>1, <1>3, GeneratedTotals
  <1>5. /\ b.money = pssn_money["Bob"] + exchg_money["Bob"]
        /\ \A id \in Ids : Sum(b.items, id) = Sum(possession["Bob"], id) + Sum(exchg_obj["Bob"], id)
    BY <1>1, <1>3, GeneratedTotals
  <1>6. AddsUp(db, [s \in Side |-> IF s = "Alice" THEN a ELSE b])
    BY <1>1, <1>4, <1>5, PocketsAddUp
  <1> QED
    BY <1>1, <1>2, <1>6, SentAddsUp

\* What adds up when it is sent adds up when it is stored: nothing else stores.
LEMMA NextSave ==
    Inv /\ GoodsInv /\ PocketsInv /\ ResultIsCurrent /\ SaveInv /\ [Next]_vars => SaveInv'
  <1> SUFFICES ASSUME Inv, GoodsInv, PocketsInv, ResultIsCurrent, SaveInv, [Next]_vars PROVE SaveInv'
    OBVIOUS
  <1>1. ASSUME db' = db, save' = save PROVE SaveInv'
    BY <1>1 DEF SaveInv, Verified, SumOf
  <1>2. CASE StorePockets
    <2>1. Verified /\ save' = [save EXCEPT !.status = "stored"]
      BY <1>2 DEF StorePockets, SaveInv
    <2>2. save' = [status |-> "stored", cause |-> save.cause, arg |-> save.arg]
      BY <2>1 DEF SaveInv
    <2> QED
      BY <2>2 DEF SaveInv
  <1>3. CASE \E s \in Side, sent \in BOOLEAN : Confirm(s, sent)
    BY <1>3, ConfirmSaves
  <1>4. CASE \E sent \in BOOLEAN : Discard(sent)
    BY <1>4, DiscardSaves
  <1>5. ASSUME NEW s \in Side, NEW g \in Goods \cup {NoGoods}, NEW money \in Money,
               AddExchgObject(s, g, money) \/ RemoveExchgObject(s, g, money)
        PROVE  db' = db /\ save' = save
    BY <1>5 DEF AddExchgObject, RemoveExchgObject, dbVars
  <1>6. ASSUME \/ \E s \in Side, g \in Goods, to \in Slots(Capacity) : MoveObject(s, g, to)
               \/ \E s \in Side : Submit(s)
               \/ Abandon \/ SaveDone \/ UNCHANGED vars
        PROVE  db' = db /\ save' = save
    BY <1>6 DEF MoveObject, Submit, Abandon, SaveDone, vars, dbVars
  <1> QED
    BY <1>1, <1>2, <1>3, <1>4, <1>5, <1>6 DEF Next

\* Both hold at first.
LEMMA InitSave == Init => PocketsInv /\ SaveInv
  <1> SUFFICES ASSUME Init PROVE PocketsInv /\ SaveInv
    OBVIOUS
  <1>1. ASSUME NEW s \in Side PROVE InSlots(possession[s]) /\ db[s].money <= MoneyCap
    <2>1. SoundItems(db[s].items) /\ db[s].money <= MoneyCap /\ possession[s] = db[s].items
      BY GoodsAssumption DEF Init
    <2> QED
      BY <2>1 DEF SoundItems, InSlots
  <1> QED
    BY <1>1 DEF Init, PocketsInv, SaveInv, NoSave

\* gamedbd's TradeSave never finds that the two pockets it is to store do not add
\* up to the two it holds: not after any bargaining, not for a confirmed and not
\* for a discarded trade (Transaction::Confirm, Discard, TradeSave::Server).
THEOREM SaveAcceptedHolds == Spec => []SaveAccepted
  <1>1. Init => PocketsInv /\ SaveInv
    BY InitSave
  <1>2. (Inv /\ GoodsInv) /\ ResultIsCurrent /\ (PocketsInv /\ SaveInv) /\ [Next]_vars
           => (PocketsInv /\ SaveInv)'
    BY NextPockets, NextSave
  <1>3. SaveInv => SaveAccepted
    BY DEF SaveInv, SaveAccepted
  <1> QED
    BY <1>1, <1>2, <1>3, GoodsInvariance, ResultIsCurrentHolds, PTL DEF Spec

-----------------------------------------------------------------------------
(***************************************************************************)
(* The contract.                                                           *)
(***************************************************************************)
Agreed  == \A s \in Side : tstate[s] = "CONFIRM"
Held == [s \in Side |-> Amount(db[s].items, db[s].money)]
Offer   == [s \in Side |-> Amount(exchg_obj[s], exchg_money[s])]
Swapped == save.cause = "confirm" /\ save.status = "stored"

\* Pockets in which everything offered has changed hands, and pockets in which
\* nothing has.
Exchanged(arg) ==
    \A s \in Side :
        /\ arg[s].money = db[s].money - exchg_money[s] + exchg_money[Other(s)]
        /\ \A id \in Ids : Sum(arg[s].items, id)
                             = Sum(db[s].items, id) - Sum(exchg_obj[s], id) + Sum(exchg_obj[Other(s)], id)
Unmoved(arg) ==
    \A s \in Side : /\ arg[s].money = db[s].money
                    /\ \A id \in Ids : Sum(arg[s].items, id) = Sum(db[s].items, id)

ContractInv ==
    /\ Bargaining => ~Agreed /\ save.status = "none"
    /\ state \in Exchanging => \A s \in Side : tstate[s] # "CONFIRM"
    /\ save.status = "sent" =>
         \/ save.cause = "confirm" /\ Agreed /\ Exchanged(save.arg)
         \/ save.cause = "discard" /\ Unmoved(save.arg)

\* The amount of one kind.
LEMMA AmountOf ==
    ASSUME NEW items, NEW money
    PROVE  /\ Amount(items, money)["money"] = money
           /\ \A id \in Ids : id # "money" => Amount(items, money)[id] = Sum(items, id)
           /\ Amount(items, money) = [k \in Ids \cup {"money"} |-> Amount(items, money)[k]]
  BY DEF Amount

\* An offer is part of what its trader owns.
OfferOwned(X, xm, items, money) ==
    /\ Amount(X, xm) \in [Ids \cup {"money"} -> Nat]
    /\ \A k \in Ids \cup {"money"} : Amount(X, xm)[k] <= Amount(items, money)[k]

\* The offer is what its trader has no longer in the pocket.
LEMMA OffersOwned ==
    ASSUME NEW P \in SUBSET Stack, NEW X \in SUBSET Stack, NEW items, KeptGoods(P, X, items),
           NEW pm \in Nat, NEW xm \in Nat, NEW money, pm + xm = money
    PROVE  OfferOwned(X, xm, items, money)
  <1>1. /\ IsFiniteSet(P) /\ IsFiniteSet(X)
        /\ \A id \in Ids : Sum(P, id) + Sum(X, id) = Sum(items, id)
    BY DEF KeptGoods
  <1>2. \A id : Sum(P, id) \in Nat /\ Sum(X, id) \in Nat
    BY <1>1, SumOfStacks
  <1>3. ASSUME NEW k \in Ids \cup {"money"}
        PROVE  Amount(X, xm)[k] \in Nat /\ Amount(X, xm)[k] <= Amount(items, money)[k]
    <2>1. CASE k = "money"
      <3>1. xm <= money
        OBVIOUS
      <3> QED
        BY <2>1, <3>1, AmountOf
    <2>2. CASE k # "money"
      <3>1. k \in Ids
        BY <2>2
      <3>2. Sum(X, k) <= Sum(items, k)
        BY <1>1, <1>2, <3>1
      <3>3. Amount(X, xm)[k] = Sum(X, k) /\ Amount(items, money)[k] = Sum(items, k)
        BY <2>2, <3>1, AmountOf
      <3> QED
        BY <1>2, <3>2, <3>3
    <2> QED
      BY <2>1, <2>2
  <1>4. Amount(X, xm) = [k \in Ids \cup {"money"} |-> Amount(X, xm)[k]]
    BY AmountOf
  <1> QED
    BY <1>3, <1>4 DEF OfferOwned

\* The partner of the contract is the other side.
LEMMA PartnerIsOther ==
    ASSUME NEW s \in Side
    PROVE  Contract!Partner(s) = Other(s) /\ Other(s) \in Side /\ Other(s) # s
  BY DEF Contract!Partner, Other, Side

\* A trade starts as its contract does.
LEMMA ContractInit == Init => Contract!Init /\ ContractInv
  <1> SUFFICES ASSUME Init PROVE Contract!Init /\ ContractInv
    OBVIOUS
  <1>1. Held \in [Side -> {Amount(p.items, p.money) : p \in Pockets}]
    BY DEF Init, Held
  <1>2. Offer = [s \in Side |-> [k \in Ids \cup {"money"} |-> 0]]
    <2>1. \A id : Sum({}, id) = 0
      BY SumEmpty DEF Sum, SumFunction
    <2>2. \A s \in Side : exchg_obj[s] = {} /\ exchg_money[s] = 0
      BY DEF Init
    <2>3. Amount({}, 0) = [k \in Ids \cup {"money"} |-> 0]
      BY <2>1 DEF Amount
    <2> QED
      BY <2>2, <2>3 DEF Offer
  <1>3. ~Agreed /\ \A s \in Side : tstate[s] # "CONFIRM"
    BY DEF Init, Agreed, Side
  <1>4. save.status = "none" /\ ~Swapped
    BY DEF Init, Swapped, NoSave
  <1>5. Contract!Init
    BY <1>1, <1>2, <1>3, <1>4 DEF Contract!Init, Contract!Nothing, Held, Offer, Agreed, Swapped
  <1> QED
    BY <1>3, <1>4, <1>5 DEF ContractInv

\* A step that leaves the offers, the agreement and gamedbd alone.
ContractStays ==
    /\ Held' = Held /\ Offer' = Offer
    /\ Agreed' <=> Agreed
    /\ Swapped' <=> Swapped

\* Such a step is a stutter of the contract.
LEMMA ContractStutters == ContractStays => UNCHANGED Contract!vars
  BY DEF ContractStays, Contract!vars, Held, Offer, Agreed, Swapped

\* A change of an offer.
LEMMA OfferChanges ==
    ASSUME Inv, Inv', GoodsInv', ContractInv, Bargaining, Bargaining', NEW s \in Side,
           db' = db, save' = save, ~Agreed', 
           \A u \in Side : u # s => exchg_obj'[u] = exchg_obj[u] /\ exchg_money'[u] = exchg_money[u]
    PROVE  Contract!ChangeOffer(s)
  <1>1. \A u \in Side : /\ Offer'[u] \in [Ids \cup {"money"} -> Nat]
                        /\ \A k \in Ids \cup {"money"} : Offer'[u][k] <= Held'[u][k]
    <2> SUFFICES ASSUME NEW u \in Side
                 PROVE  /\ Offer'[u] \in [Ids \cup {"money"} -> Nat]
                        /\ \A k \in Ids \cup {"money"} : Offer'[u][k] <= Held'[u][k]
      OBVIOUS
    <2>1. OfferOwned(exchg_obj'[u], exchg_money'[u], db'[u].items, db'[u].money)
      <3>1. /\ possession'[u] \in SUBSET Stack /\ exchg_obj'[u] \in SUBSET Stack
            /\ pssn_money'[u] \in Nat /\ exchg_money'[u] \in Nat
            /\ pssn_money'[u] + exchg_money'[u] = db'[u].money
            /\ KeptGoods(possession'[u], exchg_obj'[u], db'[u].items)
        BY DEF Inv, GoodsInv
      <3> QED
        BY ONLY <3>1, OffersOwned
    <2>2. Offer'[u] = Amount(exchg_obj'[u], exchg_money'[u])
          /\ Held'[u] = Amount(db'[u].items, db'[u].money)
      BY DEF Offer, Held
    <2> QED
      BY <2>1, <2>2 DEF OfferOwned
  <1>2. Held' = Held
    BY DEF Held
  <1>3. ~Agreed /\ (Swapped' <=> Swapped)
    BY DEF ContractInv, Swapped
  <1>4. Offer'[Other(s)] = Offer[Other(s)]
    BY PartnerIsOther DEF Offer
  <1>5. Contract!Partner(s) = Other(s)
    BY PartnerIsOther
  <1>6. Offer' \in [Side -> [Ids \cup {"money"} -> Nat]]
    <2>1. Offer' = [u \in Side |-> Offer'[u]]
      BY DEF Offer
    <2> QED
      BY <1>1, <2>1
  <1>7. \A k \in Ids \cup {"money"} : Offer'[s][k] <= Held[s][k]
    BY <1>1, <1>2
  <1> QED
    BY <1>2, <1>3, <1>4, <1>5, <1>6, <1>7
       DEF Contract!ChangeOffer, Held, Offer, Agreed, Swapped

\* Neither requests nor moves nor submissions change what was agreed: they are
\* changes of an offer, or nothing.
LEMMA BargainingContract ==
    ASSUME Inv, Inv', GoodsInv', ContractInv,
           \/ \E s \in Side, g \in Goods \cup {NoGoods}, money \in Money :
                 AddExchgObject(s, g, money) \/ RemoveExchgObject(s, g, money)
           \/ \E s \in Side, g \in Goods, to \in Slots(Capacity) : MoveObject(s, g, to)
           \/ \E s \in Side : Submit(s)
    PROVE  ContractInv' /\ [Contract!Next]_Contract!vars
  <1>1. ASSUME NEW s \in Side, NEW g \in Goods \cup {NoGoods}, NEW money \in Money,
               AddExchgObject(s, g, money) \/ RemoveExchgObject(s, g, money)
        PROVE  ContractInv' /\ Contract!ChangeOffer(s)
    <2>1. state \in Exchanging /\ db' = db /\ save' = save
      BY <1>1 DEF AddExchgObject, RemoveExchgObject, dbVars
    <2>2. (OffersChanged(s) /\ state' = "Exchange") \/ UNCHANGED <<state, tstate>>
      BY <1>1 DEF AddExchgObject, RemoveExchgObject, OffersChanged
    <2>3. Bargaining /\ Bargaining' /\ state' \in Exchanging
      BY <2>1, <2>2 DEF Bargaining, Exchanging
    <2>4. tstate \in [Side -> {"EXCHANGE", "READY", "CONFIRM"}] /\ \A u \in Side : tstate[u] # "CONFIRM"
      BY <2>1, <2>3 DEF Inv, ContractInv
    <2>5. \A u \in Side : tstate'[u] # "CONFIRM"
      BY <2>2, <2>4 DEF OffersChanged, Unready
    <2>6. ~Agreed'
      BY <2>5 DEF Agreed, Side
    <2>7. ContractInv'
      BY <2>1, <2>3, <2>5, <2>6 DEF ContractInv
    <2>8. \A u \in Side : u # s => exchg_obj'[u] = exchg_obj[u] /\ exchg_money'[u] = exchg_money[u]
      <3>1. exchg_obj \in [Side -> SUBSET Stack] /\ exchg_money \in [Side -> Nat]
        BY <2>3 DEF Inv
      <3> QED
        BY <1>1, <3>1 DEF AddExchgObject, RemoveExchgObject
    <2>9. Contract!ChangeOffer(s)
      BY <2>1, <2>3, <2>6, <2>8, OfferChanges
    <2> QED
      BY <2>7, <2>9
  <1>2. ASSUME NEW s \in Side, NEW g \in Goods, NEW to \in Slots(Capacity), MoveObject(s, g, to)
        PROVE  ContractInv' /\ ContractStays
    <2>1. UNCHANGED <<state, tstate, exchg_obj, exchg_money, db, save>> /\ state \in Exchanging
      BY <1>2 DEF MoveObject, dbVars
    <2>2. Bargaining /\ Bargaining' /\ save.status = "none"
      BY <2>1 DEF Bargaining, ContractInv
    <2>3. (Agreed' <=> Agreed) /\ ContractStays
      BY <2>1 DEF Agreed, ContractStays, Held, Offer, Swapped
    <2> QED
      BY <2>1, <2>2, <2>3 DEF ContractInv
  <1>3. ASSUME NEW s \in Side, Submit(s)
        PROVE  ContractInv' /\ ContractStays
    <2>1. UNCHANGED <<exchg_obj, exchg_money, db, save>> /\ state \in Exchanging
      BY <1>3 DEF Submit, goodsVars, dbVars
    <2>2. Bargaining /\ state' \in {"Exchange", "Ready_half", "Ready"}
      BY <1>3 DEF Submit, Bargaining
    <2>3. tstate \in [Side -> {"EXCHANGE", "READY", "CONFIRM"}] /\ \A u \in Side : tstate[u] # "CONFIRM"
      BY <2>1, <2>2 DEF Inv, ContractInv
    <2>4. \A u \in Side : tstate'[u] # "CONFIRM"
      BY <1>3, <2>3 DEF Submit, Unready
    <2>5. ~Agreed /\ ~Agreed'
      BY <2>3, <2>4 DEF Agreed, Side
    <2>6. save.status = "none"
      BY <2>2 DEF ContractInv
    <2> QED
      BY <2>1, <2>4, <2>5, <2>6 DEF ContractInv, ContractStays, Held, Offer, Swapped
  <1>4. \A s \in Side : Contract!ChangeOffer(s) => Contract!Next
    BY DEF Contract!Next
  <1> QED
    BY <1>1, <1>2, <1>3, <1>4, ContractStutters

\* The second confirmation is the agreement, and the save it sends exchanges the
\* offers; the first one is nothing yet.
LEMMA ConfirmContract ==
    ASSUME Inv, GoodsInv, PocketsInv, ResultIsCurrent, ContractInv, NEW s \in Side, NEW sent \in BOOLEAN,
           Confirm(s, sent)
    PROVE  ContractInv' /\ [Contract!Next]_Contract!vars
  <1> DEFINE ts == [tstate EXCEPT ![s] = "CONFIRM"]
  <1>1. /\ Bargaining /\ db' = db /\ state \in Settling /\ tstate' = ts
        /\ UNCHANGED <<exchg_obj, exchg_money>>
    BY DEF Confirm, Bargaining, goodsVars
  <1>2. tstate \in [Side -> {"EXCHANGE", "READY", "CONFIRM"}] /\ save = NoSave /\ ~Agreed
    BY <1>1 DEF Inv, ContractInv
  <1>3. Held' = Held /\ Offer' = Offer
    BY <1>1 DEF Held, Offer
  <1>4. CASE ts[Other(s)] # "CONFIRM"
    <2>1. state' = "Confirm_half" /\ save' = save
      BY <1>4 DEF Confirm
    <2>2. ~Agreed'
      BY <1>1, <1>4, PartnerIsOther DEF Agreed
    <2>3. ContractStays
      BY <1>2, <1>3, <2>1, <2>2 DEF ContractStays, Swapped
    <2>4. ContractInv'
      BY <1>2, <2>1, <2>2 DEF ContractInv, NoSave, Exchanging
    <2> QED
      BY <2>3, <2>4, ContractStutters
  <1>5. CASE ts[Other(s)] = "CONFIRM"
    <2>1. Agreed'
      <3>1. \A u \in Side : u = s \/ u = Other(s)
        BY DEF Side, Other
      <3> QED
        BY <1>1, <1>2, <1>5, <3>1 DEF Agreed
    <2>2. state' \in {"Confirm", "Null"}
      BY <1>5 DEF Confirm, Write2DB
    <2>3. \/ save' = NoSave
          \/ /\ save'.status = "sent" /\ save'.cause = "confirm" /\ Exchanged(save'.arg)
      <3>0. "Alice" \in Side /\ "Bob" \in Side /\ Other("Alice") = "Bob" /\ Other("Bob") = "Alice"
        BY DEF Side, Other
      <3>1. CASE ~Offered
        <4>1. \/ save' = save
              \/ save' = [status |-> "sent", cause |-> "confirm", arg |-> Possessed]
          BY <1>5, <3>1 DEF Confirm, Write2DB
        <4>2. Exchanged(Possessed)
          <5> SUFFICES ASSUME NEW u \in Side
                       PROVE  /\ Possessed[u].money = db[u].money - exchg_money[u] + exchg_money[Other(u)]
                              /\ \A id \in Ids :
                                    Sum(Possessed[u].items, id)
                                      = Sum(db[u].items, id) - Sum(exchg_obj[u], id) + Sum(exchg_obj[Other(u)], id)
            BY DEF Exchanged
          <5>1. Possessed[u].money = pssn_money[u] /\ Possessed[u].items = possession[u]
            BY DEF Possessed
          <5>2. Other(u) \in Side
            BY DEF Side, Other
          <5>3. exchg_money[u] = 0 /\ exchg_money[Other(u)] = 0 /\ exchg_obj[u] = {} /\ exchg_obj[Other(u)] = {}
            BY <3>1, <5>2 DEF Offered
          <5>4. /\ pssn_money[u] \in Nat /\ pssn_money[u] + exchg_money[u] = db[u].money
                /\ possession[u] \in SUBSET Stack /\ IsFiniteSet(possession[u])
                /\ \A id \in Ids : Sum(possession[u], id) + Sum(exchg_obj[u], id) = Sum(db[u].items, id)
            BY <1>1 DEF Inv, GoodsInv, KeptGoods
          <5>5. ASSUME NEW id \in Ids
                PROVE  Sum(possession[u], id) = Sum(db[u].items, id) - Sum(exchg_obj[u], id) + Sum(exchg_obj[Other(u)], id)
            <6>1. Sum({}, id) = 0
              BY SumEmpty DEF Sum, SumFunction
            <6>2. Sum(possession[u], id) \in Nat
              BY <5>4, SumOfStacks
            <6>3. Sum(exchg_obj[u], id) = 0 /\ Sum(exchg_obj[Other(u)], id) = 0
              BY <5>3, <6>1
            <6> QED
              BY <5>4, <6>2, <6>3
          <5> QED
            BY <5>1, <5>3, <5>4, <5>5
        <4> QED
          BY <1>2, <4>1, <4>2
      <3>2. CASE Offered
        <4>1. /\ result # <<>> /\ result["Alice"] \in Generated("Alice", "Bob")
              /\ result["Bob"] \in Generated("Bob", "Alice")
          BY <1>1 DEF ResultIsCurrent
        <4>2. \/ save' = save
              \/ save' = [status |-> "sent", cause |-> "confirm", arg |-> result]
          BY <1>5, <3>2, <4>1 DEF Confirm, Write2DB
        <4>3. \A u \in Side : result[u] \in Generated(u, Other(u))
          BY <3>0, <4>1 DEF Side
        <4>4. Exchanged(result)
          <5> SUFFICES ASSUME NEW u \in Side
                       PROVE  /\ result[u].money = db[u].money - exchg_money[u] + exchg_money[Other(u)]
                              /\ \A id \in Ids :
                                    Sum(result[u].items, id)
                                      = Sum(db[u].items, id) - Sum(exchg_obj[u], id) + Sum(exchg_obj[Other(u)], id)
            BY DEF Exchanged
          <5>1. Other(u) \in Side /\ result[u] \in Generated(u, Other(u))
            BY <4>3, PartnerIsOther
          <5>2. /\ result[u].money = pssn_money[u] + exchg_money[Other(u)]
                /\ \A id \in Ids : Sum(result[u].items, id) = Sum(possession[u], id) + Sum(exchg_obj[Other(u)], id)
            BY <1>1, <5>1, GeneratedTotals
          <5>3. /\ pssn_money[u] \in Nat /\ exchg_money[u] \in Nat /\ exchg_money[Other(u)] \in Nat
                /\ pssn_money[u] + exchg_money[u] = db[u].money
                /\ possession[u] \in SUBSET Stack /\ IsFiniteSet(possession[u])
                /\ exchg_obj[u] \in SUBSET Stack /\ IsFiniteSet(exchg_obj[u])
                /\ exchg_obj[Other(u)] \in SUBSET Stack /\ IsFiniteSet(exchg_obj[Other(u)])
                /\ \A id \in Ids : Sum(possession[u], id) + Sum(exchg_obj[u], id) = Sum(db[u].items, id)
            BY <1>1, <5>1 DEF Inv, GoodsInv, KeptGoods
          <5>4. \A id : /\ Sum(possession[u], id) \in Nat /\ Sum(exchg_obj[u], id) \in Nat
                        /\ Sum(exchg_obj[Other(u)], id) \in Nat
            BY <5>3, SumOfStacks
          <5> QED
            BY <5>2, <5>3, <5>4
        <4> QED
          BY <1>2, <4>2, <4>4
      <3> QED
        BY <3>1, <3>2
    <2>4. Exchanged(save'.arg) => Exchanged(save.arg)'
      BY <1>1 DEF Exchanged
    <2>5. ContractInv'
      <3>1. ~Bargaining' /\ state' \notin Exchanging
        BY <2>2 DEF Bargaining, Exchanging, Settling
      <3> QED
        BY <2>1, <2>3, <2>4, <3>1 DEF ContractInv, NoSave
    <2>6. ~Swapped /\ ~Swapped'
      BY <1>2, <2>3 DEF Swapped, NoSave
    <2>7. Contract!Agree
      BY <1>2, <1>3, <2>1, <2>6 DEF Contract!Agree, Held, Offer, Agreed, Swapped
    <2> QED
      BY <2>5, <2>7 DEF Contract!Next
  <1> QED
    BY <1>4, <1>5

\* A trade that is called off saves what the traders had.
LEMMA EndContract ==
    ASSUME Inv, GoodsInv, PocketsInv, ContractInv,
           (\E sent \in BOOLEAN : Discard(sent)) \/ Abandon \/ SaveDone
    PROVE  ContractInv' /\ [Contract!Next]_Contract!vars
  <1>1. CASE \E sent \in BOOLEAN : Discard(sent)
    <2>1. /\ Bargaining /\ UNCHANGED <<tstate, exchg_obj, exchg_money, db>> /\ state' \in {"Init", "Null"}
      BY <1>1 DEF Discard, Write2DB
    <2>2. ~Agreed /\ save = NoSave
      BY <2>1 DEF ContractInv, Inv
    <2>a. PICK sent \in BOOLEAN, a \in GivenBack("Alice"), b \in GivenBack("Bob") :
             Write2DB([s \in Side |-> IF s = "Alice" THEN a ELSE b], pssn_modified, "discard", sent, "Init")
      BY <1>1 DEF Discard
    <2> DEFINE arg == [s \in Side |-> IF s = "Alice" THEN a ELSE b]
    <2>3. save' = save \/ save' = [status |-> "sent", cause |-> "discard", arg |-> arg]
      BY <2>a DEF Write2DB
    <2>4. \A s \in Side : arg[s] \in Generated(s, s)
      <3>1. \A s \in Side : Generated(s, s) # {}
        BY <2>1, OwnOfferFits
      <3>2. arg["Alice"] = a /\ arg["Bob"] = b
        BY DEF Side
      <3> HIDE DEF arg
      <3> QED
        BY <3>1, <3>2 DEF GivenBack, Side
    <2> HIDE DEF arg
    <2>5. Unmoved(arg)
      <3> SUFFICES ASSUME NEW s \in Side
                   PROVE  /\ arg[s].money = db[s].money
                          /\ \A id \in Ids : Sum(arg[s].items, id) = Sum(db[s].items, id)
        BY DEF Unmoved
      <3>1. /\ arg[s].money = pssn_money[s] + exchg_money[s]
            /\ \A id \in Ids : Sum(arg[s].items, id) = Sum(possession[s], id) + Sum(exchg_obj[s], id)
        BY <2>1, <2>4, GeneratedTotals
      <3> QED
        BY <2>1, <3>1 DEF Inv, GoodsInv, KeptGoods
    <2>6. \/ save' = NoSave
          \/ save'.status = "sent" /\ save'.cause = "discard" /\ Unmoved(save.arg)'
      <3>1. Unmoved(arg)'
        BY <2>1, <2>5 DEF Unmoved
      <3>2. CASE save' = [status |-> "sent", cause |-> "discard", arg |-> arg]
        <4>1. save'.arg = arg
          BY <3>2
        <4> QED
          BY <3>1, <3>2, <4>1 DEF Unmoved
      <3> QED
        BY <2>2, <2>3, <3>2
    <2>7. ~Swapped /\ ~Swapped'
      BY <2>2, <2>6 DEF Swapped, NoSave
    <2>8. ContractStays
      BY <2>1, <2>7 DEF ContractStays, Held, Offer, Agreed
    <2>9. ContractInv'
      <3>1. ~Bargaining' /\ state' \notin Exchanging
        BY <2>1 DEF Bargaining, Exchanging, Settling
      <3> QED
        BY <2>6, <3>1 DEF ContractInv, NoSave
    <2> QED
      BY <2>8, <2>9, ContractStutters
  <1>2. CASE Abandon \/ SaveDone
    <2>1. UNCHANGED <<tstate, exchg_obj, exchg_money, db, save>> /\ state' = "Null"
      BY <1>2 DEF Abandon, SaveDone, goodsVars, dbVars
    <2>2. ContractStays
      BY <2>1 DEF ContractStays, Held, Offer, Agreed, Swapped
    <2>3. ContractInv'
      <3>1. ~Bargaining' /\ state' \notin Exchanging
        BY <2>1 DEF Bargaining, Exchanging, Settling
      <3> QED
        BY <2>1, <3>1 DEF ContractInv, Agreed, Exchanged, Unmoved
    <2> QED
      BY <2>2, <2>3, ContractStutters
  <1> QED
    BY <1>1, <1>2

\* What is stored are the offers exchanged, or the holdings as they were.
LEMMA StoreContract ==
    ASSUME SaveInv, ContractInv, StorePockets
    PROVE  ContractInv' /\ [Contract!Next]_Contract!vars
  <1>1. /\ save.status = "sent" /\ db' = save.arg /\ save' = [save EXCEPT !.status = "stored"]
        /\ UNCHANGED <<state, tstate, exchg_obj, exchg_money>>
    BY DEF StorePockets, SaveInv, goodsVars
  <1>2. save' = [status |-> "stored", cause |-> save.cause, arg |-> save.arg]
    BY <1>1 DEF SaveInv
  <1>3. save'.status = "stored" /\ save'.cause = save.cause
    BY <1>2
  <1>4. ~Bargaining /\ ~Bargaining' /\ state' \notin Exchanging
    BY <1>1 DEF ContractInv, Bargaining
  <1>5. ContractInv'
    BY <1>3, <1>4 DEF ContractInv
  <1>6. Offer' = Offer /\ (Agreed' <=> Agreed) /\ ~Swapped
    BY <1>1 DEF Offer, Agreed, Swapped
  <1>7. CASE save.cause = "confirm"
    <2>1. Agreed /\ Exchanged(save.arg)
      BY <1>1, <1>7 DEF ContractInv
    <2>2. Swapped'
      BY <1>3, <1>7 DEF Swapped
    <2>3. ASSUME NEW s \in Side, NEW k \in Ids \cup {"money"}
          PROVE  Held'[s][k] = Held[s][k] - Offer[s][k] + Offer[Other(s)][k]
      <3>0. /\ Held[s] = Amount(db[s].items, db[s].money)
            /\ Held'[s] = Amount(save.arg[s].items, save.arg[s].money)
            /\ Offer[s] = Amount(exchg_obj[s], exchg_money[s])
            /\ Offer[Other(s)] = Amount(exchg_obj[Other(s)], exchg_money[Other(s)])
        BY <1>1, PartnerIsOther DEF Held, Offer
      <3>1. CASE k = "money"
        BY <2>1, <3>0, <3>1, AmountOf DEF Exchanged
      <3>2. CASE k # "money"
        <4>1. k \in Ids
          BY <3>2
        <4> QED
          BY <2>1, <3>0, <3>2, <4>1, AmountOf DEF Exchanged
      <3> QED
        BY <3>1, <3>2
    <2>4. Held' = [s \in Side |-> [k \in Ids \cup {"money"} |->
                         Held[s][k] - Offer[s][k] + Offer[Contract!Partner(s)][k]]]
      <3>1. \A s \in Side : Held'[s] = [k \in Ids \cup {"money"} |-> Held'[s][k]]
        BY AmountOf DEF Held
      <3>2. Held' = [s \in Side |-> Held'[s]]
        BY DEF Held
      <3>3. \A s \in Side : Contract!Partner(s) = Other(s)
        BY PartnerIsOther
      <3> DEFINE Became(s) == [k \in Ids \cup {"money"} |->
                                 Held[s][k] - Offer[s][k] + Offer[Contract!Partner(s)][k]]
      <3>4. ASSUME NEW s \in Side PROVE Held'[s] = Became(s)
        <4>1. \A k \in Ids \cup {"money"} :
                 Held'[s][k] = Held[s][k] - Offer[s][k] + Offer[Contract!Partner(s)][k]
          BY <2>3, <3>3
        <4>2. [k \in Ids \cup {"money"} |-> Held'[s][k]] = Became(s)
          BY ONLY <4>1
        <4> QED
          BY <3>1, <4>2
      <3> HIDE DEF Became
      <3>5. Held' = [s \in Side |-> Became(s)]
        BY <3>2, <3>4
      <3> QED
        BY <3>5 DEF Became
    <2>5. Contract!Swap
      BY <1>6, <2>1, <2>2, <2>4 DEF Contract!Swap, Held, Offer, Agreed, Swapped
    <2> QED
      BY <1>5, <2>5 DEF Contract!Next
  <1>8. CASE save.cause # "confirm"
    <2>1. Unmoved(save.arg)
      BY <1>1, <1>8 DEF ContractInv
    <2>2. ~Swapped'
      BY <1>3, <1>8 DEF Swapped
    <2>3. Held' = Held
      <3>1. ASSUME NEW s \in Side PROVE Held'[s] = Held[s]
        <4>1. /\ save.arg[s].money = db[s].money
              /\ \A id \in Ids : Sum(save.arg[s].items, id) = Sum(db[s].items, id)
          BY <2>1 DEF Unmoved
        <4>2. Amount(save.arg[s].items, save.arg[s].money) = Amount(db[s].items, db[s].money)
          BY <4>1 DEF Amount
        <4> QED
          BY <1>1, <4>2 DEF Held
      <3> QED
        BY <3>1 DEF Held
    <2>4. ContractStays
      BY <1>6, <2>2, <2>3 DEF ContractStays
    <2> QED
      BY <1>5, <2>4, ContractStutters
  <1> QED
    BY <1>7, <1>8

\* Every step of the trade is a step of the contract, or none.
LEMMA NextContract ==
    Inv /\ Inv' /\ GoodsInv /\ GoodsInv' /\ PocketsInv /\ ResultIsCurrent /\ SaveInv /\ ContractInv /\ [Next]_vars
        => ContractInv' /\ [Contract!Next]_Contract!vars
  <1> SUFFICES ASSUME Inv, Inv', GoodsInv, GoodsInv', PocketsInv, ResultIsCurrent, SaveInv, ContractInv, [Next]_vars
               PROVE  ContractInv' /\ [Contract!Next]_Contract!vars
    OBVIOUS
  <1>1. CASE \/ \E s \in Side, g \in Goods \cup {NoGoods}, money \in Money :
                    AddExchgObject(s, g, money) \/ RemoveExchgObject(s, g, money)
             \/ \E s \in Side, g \in Goods, to \in Slots(Capacity) : MoveObject(s, g, to)
             \/ \E s \in Side : Submit(s)
    BY <1>1, BargainingContract
  <1>2. CASE \E s \in Side, sent \in BOOLEAN : Confirm(s, sent)
    BY <1>2, ConfirmContract
  <1>3. CASE (\E sent \in BOOLEAN : Discard(sent)) \/ Abandon \/ SaveDone
    BY <1>3, EndContract
  <1>4. CASE StorePockets
    BY <1>4, StoreContract
  <1>5. CASE UNCHANGED vars
    <2>1. ContractStays
      BY <1>5 DEF vars, ContractStays, Held, Offer, Agreed, Swapped
    <2>2. ContractInv'
      BY <1>5 DEF vars, ContractInv, Agreed, Exchanged, Unmoved, Bargaining
    <2> QED
      BY <2>1, <2>2, ContractStutters
  <1> QED
    BY <1>1, <1>2, <1>3, <1>4, <1>5 DEF Next

\* The trade keeps the contract: what gamedbd holds for the two roles changes at
\* most once, after both confirmed, and then by the offers that stood when they
\* did, whatever MergeInventory made of the pockets and whatever was refused,
\* moved, discarded or late before.
THEOREM KeepsContractHolds == Spec => KeepsContract
  <1>1. Init => Contract!Init /\ ContractInv /\ PocketsInv /\ SaveInv
    BY ContractInit, InitSave
  <1>2. (Inv /\ GoodsInv) /\ (Inv /\ GoodsInv)' /\ ResultIsCurrent /\ (PocketsInv /\ SaveInv /\ ContractInv) /\ [Next]_vars
           => (PocketsInv /\ SaveInv /\ ContractInv)' /\ [Contract!Next]_Contract!vars
    BY NextPockets, NextSave, NextContract
  <1> QED
    BY <1>1, <1>2, GoodsInvariance, ResultIsCurrentHolds, PTL DEF Spec, KeepsContract, Contract!Spec

=============================================================================
