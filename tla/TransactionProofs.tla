--------------------------- MODULE TransactionProofs ---------------------------
(***************************************************************************)
(* Proofs about module Transaction, for any set of roles, any number of    *)
(* transactions and any timeouts that satisfy ConstantsAssumption.         *)
(*                                                                         *)
(* The inductive invariant Inv is one statement per live transaction,      *)
(* Sound, and three about the maps.  Most handlers change one transaction  *)
(* and no map; lemma PutKeepsInv reduces them to Sound of the new value.   *)
(***************************************************************************)
EXTENDS Transaction, TLAPS

\* Discard returns to Init while TradeSave is under way: the Rpc is older than
\* the state, and it is not overdue by more than the second in progress.
SaveUnderWay(x) ==
    /\ x.rpc = "save"
    /\ x.age <= x.rpcAge
    /\ x.rpcAge <= RpcTimeout + 1

\* What holds of every live transaction t with value x.
Sound(t, x) ==
    /\ x \in Transaction
    /\ x.party \in [Side -> Role]
    /\ x.party["Alice"] # x.party["Bob"]
    /\ \A s \in Side : x.tstate[s] # "INIT" => traderMap[x.party[s]] = t
    /\ x.state \in Trading => \A s \in Side : x.tstate[s] # "INIT"
    /\ t \in started => x.onDestroy
    /\ x.state = "Init" /\ t \in started => SaveUnderWay(x)

Inv ==
    /\ TypeOK
    /\ \A t \in live : t < nextTid /\ Sound(t, trans[t])
    /\ \A t \in started : t < nextTid
    /\ NoDanglingTrader
    /\ EndIsAnnounced

-----------------------------------------------------------------------------
\* Init establishes the invariant: there is no transaction yet.
LEMMA InitInv == Init => Inv
  <1> SUFFICES ASSUME Init PROVE Inv
    OBVIOUS
  <1> USE ConstantsAssumption
  <1>1. NoTrans \in Transaction
    BY DEF NoTrans, Transaction, State, TraderState, Side
  <1>2. TypeOK
    BY <1>1 DEF Init, TypeOK, Tid, NoTid
  <1> QED
    BY <1>2 DEF Init, Inv, NoDanglingTrader, EndIsAnnounced

\* A handler that gives one live transaction a sound value with the same
\* parties, and changes no map, preserves the invariant.
LEMMA PutKeepsInv ==
  ASSUME Inv, NEW t \in live, NEW x, Sound(t, x), x.party = trans[t].party,
         Put(t, x), online' \subseteq Role, asked' = asked,
         UNCHANGED <<live, traderMap, nextTid, started, ended>>
  PROVE  Inv'
  <1>1. t \in Tid /\ x \in Transaction
    BY DEF Inv, TypeOK, Sound
  <1>2. TypeOK'
    BY <1>1 DEF Inv, TypeOK, Put
  <1>3. \A u \in Tid : trans'[u] = IF u = t THEN x ELSE trans[u]
    BY <1>1 DEF Inv, TypeOK, Put
  <1>4. ASSUME NEW u \in live' PROVE (u < nextTid /\ Sound(u, trans[u]))'
    <2>1. u \in live /\ u \in Tid
      BY DEF Inv, TypeOK
    <2>2. u < nextTid /\ Sound(u, trans'[u])
      BY <1>3, <2>1 DEF Inv
    <2> QED
      BY <2>2 DEF Sound, SaveUnderWay
  <1>5. NoDanglingTrader'
    <2> SUFFICES ASSUME NEW r \in Role, traderMap[r] # NoTid
                 PROVE  /\ traderMap[r] \in live
                        /\ \E s \in Side : trans'[traderMap[r]].party[s] = r
      BY DEF NoDanglingTrader
    <2>1. traderMap[r] \in live /\ \E s \in Side : trans[traderMap[r]].party[s] = r
      BY DEF Inv, NoDanglingTrader
    <2>2. traderMap[r] \in Tid
      BY <2>1 DEF Inv, TypeOK
    <2> QED
      BY <1>3, <2>1, <2>2
  <1>6. (\A u \in started : u < nextTid)' /\ EndIsAnnounced'
    BY DEF Inv, EndIsAnnounced
  <1> QED
    BY <1>2, <1>4, <1>5, <1>6 DEF Inv

-----------------------------------------------------------------------------
\* ChangeState sets the state, restarts the timer and nothing else.
LEMMA ChangeStateFields ==
  ASSUME NEW x \in Transaction, NEW st \in State
  PROVE  /\ ChangeState(x, st) \in Transaction
         /\ ChangeState(x, st).state = st
         /\ ChangeState(x, st).age = 0
         /\ ChangeState(x, st).party = x.party
         /\ ChangeState(x, st).tstate = x.tstate
         /\ ChangeState(x, st).onDestroy = x.onDestroy
         /\ ChangeState(x, st).modified = x.modified
         /\ ChangeState(x, st).rpc = x.rpc
         /\ ChangeState(x, st).rpcAge = x.rpcAge
  BY DEF ChangeState, Transaction

\* A destroyed transaction is sound if the traders that were attached still are.
LEMMA DestroySound ==
  ASSUME NEW t, NEW x \in Transaction, Sound(t, x)
  PROVE  Sound(t, Destroy(x)) /\ Destroy(x).party = x.party
  BY ChangeStateFields DEF Destroy, Sound, State, Trading

\* Calling an Rpc changes only what is known of the Rpc.
LEMMA CallRpcFields ==
  ASSUME NEW x \in Transaction, NEW name \in {"none", "inventory", "save"}
  PROVE  /\ CallRpc(x, name) \in Transaction
         /\ CallRpc(x, name).rpc = name
         /\ CallRpc(x, name).rpcAge = 0
         /\ CallRpc(x, name).state = x.state
         /\ CallRpc(x, name).age = x.age
         /\ CallRpc(x, name).party = x.party
         /\ CallRpc(x, name).tstate = x.tstate
         /\ CallRpc(x, name).onDestroy = x.onDestroy
         /\ CallRpc(x, name).modified = x.modified
  BY DEF CallRpc, Transaction

\* The same for an Rpc that has left the Rpc map.
LEMMA RpcGoneFields ==
  ASSUME NEW x \in Transaction
  PROVE  /\ RpcGone(x) \in Transaction
         /\ RpcGone(x).state = x.state
         /\ RpcGone(x).age = x.age
         /\ RpcGone(x).party = x.party
         /\ RpcGone(x).tstate = x.tstate
         /\ RpcGone(x).onDestroy = x.onDestroy
  BY DEF RpcGone, Transaction

\* Write2DB from a fresh state other than SetPossession is sound: in Init the
\* TradeSave just called is as old as the state.
LEMMA Write2DBSound ==
  ASSUME NEW t, NEW y \in Transaction, NEW sent \in BOOLEAN,
         y.age = 0,
         y.party \in [Side -> Role], y.party["Alice"] # y.party["Bob"],
         \A s \in Side : y.tstate[s] # "INIT" /\ traderMap[y.party[s]] = t,
         t \in started => y.onDestroy
  PROVE  Sound(t, Write2DB(y, sent)) /\ Write2DB(y, sent).party = y.party
  <1> DEFINE c == CallRpc(y, "save")
             d == ChangeState(y, "Null")
  <1>1. /\ c \in Transaction /\ c.party = y.party /\ c.tstate = y.tstate
        /\ c.onDestroy = y.onDestroy /\ c.rpc = "save" /\ c.rpcAge = 0 /\ c.age = 0
    BY CallRpcFields
  <1>2. /\ d \in Transaction /\ d.party = y.party /\ d.tstate = y.tstate
        /\ d.onDestroy = y.onDestroy /\ d.state = "Null"
    BY ChangeStateFields DEF State
  <1>3. 0 <= RpcTimeout + 1
    BY ConstantsAssumption
  <1> HIDE DEF c, d
  <1>4. Sound(t, c)
    BY <1>1, <1>3 DEF Sound, SaveUnderWay
  <1>5. Sound(t, d)
    BY <1>2 DEF Sound, Trading
  <1> QED
    BY <1>1, <1>2, <1>4, <1>5 DEF Write2DB, Destroy, c, d

\* In a state that accepts goods, SUBMIT, CONFIRM or DISCARD both traders are
\* attached, and the state is none of the others.
LEMMA OptionsNeedBoth ==
  ASSUME NEW t, NEW x, Sound(t, x),
         \/ OptionPolicy(x.state, "UPDATEGOODS") \/ OptionPolicy(x.state, "MOVEOBJ")
         \/ OptionPolicy(x.state, "SUBMIT") \/ OptionPolicy(x.state, "CONFIRM")
         \/ OptionPolicy(x.state, "DISCARD")
  PROVE  /\ x.state \in {"Exchange", "Ready_half", "Ready", "Confirm_half"}
         /\ \A s \in Side : x.tstate[s] # "INIT"
  <1>1. x.state \in State
    BY DEF Sound, Transaction
  <1>2. x.state \in {"Exchange", "Ready_half", "Ready", "Confirm_half"}
    BY <1>1 DEF OptionPolicy, State
  <1> QED
    BY <1>2 DEF Sound, Trading

-----------------------------------------------------------------------------
\* The handlers, one lemma each.

\* What a live transaction is known to satisfy.
LEMMA LiveSound ==
  ASSUME Inv, NEW t \in live
  PROVE  Sound(t, trans[t]) /\ trans[t] \in Transaction /\ t \in Tid
  BY DEF Inv, TypeOK, Sound

\* TradeStart only asks the partner: no transaction and no map changes.
LEMMA TradeStartInv ==
  ASSUME Inv, NEW r1 \in Role, NEW r2 \in Role,
         TradeStart(r1, r2) \/ TradeStartRefused(r1, r2)
  PROVE  Inv'
  <1>1. asked' \subseteq Role \X Role
    BY DEF Inv, TypeOK, TradeStart, TradeStartRefused
  <1>2. UNCHANGED <<online, live, traderMap, trans, nextTid, started, ended>>
    BY DEF TradeStart, TradeStartRefused
  <1>3. TypeOK'
    BY <1>1, <1>2 DEF Inv, TypeOK
  <1>4. ASSUME NEW u \in live' PROVE (u < nextTid /\ Sound(u, trans[u]))'
    BY <1>2 DEF Inv, Sound, SaveUnderWay
  <1>5. NoDanglingTrader' /\ EndIsAnnounced' /\ (\A u \in started : u < nextTid)'
    BY <1>2 DEF Inv, NoDanglingTrader, EndIsAnnounced
  <1> QED
    BY <1>3, <1>4, <1>5 DEF Inv

\* A refusal of the game server destroys the transaction and attaches nobody.
LEMMA AttachRefusedInv ==
  ASSUME Inv, NEW t \in Tid, NEW s \in Side, AttachRefused(t, s)
  PROVE  Inv'
  <1> DEFINE x == [trans[t] EXCEPT !.awaited = @ \ {s}]
  <1>1. t \in live /\ Sound(t, trans[t]) /\ trans[t] \in Transaction
    BY LiveSound DEF AttachRefused
  <1>2. /\ x \in Transaction /\ x.party = trans[t].party /\ x.tstate = trans[t].tstate
        /\ x.state = trans[t].state /\ x.onDestroy = trans[t].onDestroy
        /\ x.rpc = trans[t].rpc /\ x.age = trans[t].age /\ x.rpcAge = trans[t].rpcAge
    BY <1>1 DEF Transaction
  <1>3. Put(t, Destroy(x)) /\ UNCHANGED <<online, asked, live, traderMap, nextTid, started, ended>>
    BY DEF AttachRefused
  <1> HIDE DEF x
  <1>4. Sound(t, x)
    BY <1>1, <1>2 DEF Sound, SaveUnderWay
  <1>5. Sound(t, Destroy(x)) /\ Destroy(x).party = trans[t].party
    BY <1>2, <1>4, DestroySound
  <1> QED
    BY <1>1, <1>3, <1>5, PutKeepsInv DEF Inv, TypeOK

\* An Rpc that fails, times out or has saved the pockets destroys the transaction
\* and leaves both traders attached until it is released.
LEMMA RpcDoneInv ==
  ASSUME Inv, NEW t \in Tid, PossessionFailed(t) \/ SaveDone(t)
  PROVE  Inv'
  <1> DEFINE x == RpcGone(trans[t])
             d == Destroy(x)
  <1>1. t \in live /\ Sound(t, trans[t]) /\ trans[t] \in Transaction
    BY LiveSound DEF PossessionFailed, SaveDone
  <1>2. /\ d \in Transaction /\ d.state = "Null" /\ d.party = trans[t].party
        /\ d.tstate = trans[t].tstate /\ d.onDestroy = trans[t].onDestroy
    BY <1>1, RpcGoneFields, ChangeStateFields DEF Destroy, State
  <1>3. Put(t, d) /\ UNCHANGED <<online, asked, live, traderMap, nextTid, started, ended>>
    BY DEF PossessionFailed, SaveDone
  <1> HIDE DEF x, d
  <1>4. Sound(t, d)
    BY <1>1, <1>2 DEF Sound, Trading
  <1> QED
    BY <1>1, <1>2, <1>3, <1>4, PutKeepsInv DEF Inv, TypeOK

\* The pockets arrive: both traders exchange, or the transaction is destroyed.
LEMMA SetPossessionInv ==
  ASSUME Inv, NEW t \in Tid, SetPossession(t)
  PROVE  Inv'
  <1> DEFINE x == RpcGone(trans[t])
             e == ChangeState(x, "Exchange")
             y == [e EXCEPT !.tstate = [s \in Side |-> "EXCHANGE"]]
             d == ChangeState(x, "Null")
             z == IF OptionPolicy(x.state, "SETPSSN") THEN y ELSE d
  <1>1. t \in live /\ Sound(t, trans[t]) /\ trans[t] \in Transaction
    BY LiveSound DEF SetPossession
  <1>2. /\ x \in Transaction /\ x.state = trans[t].state /\ x.party = trans[t].party
        /\ x.tstate = trans[t].tstate /\ x.onDestroy = trans[t].onDestroy
    BY <1>1, RpcGoneFields
  <1>3. /\ e \in Transaction /\ e.state = "Exchange" /\ e.party = trans[t].party
        /\ e.onDestroy = trans[t].onDestroy
    BY <1>2, ChangeStateFields DEF State
  <1>4. /\ d \in Transaction /\ d.state = "Null" /\ d.party = trans[t].party
        /\ d.tstate = trans[t].tstate /\ d.onDestroy = trans[t].onDestroy
    BY <1>2, ChangeStateFields DEF State
  <1>5. /\ y \in Transaction /\ y.state = "Exchange" /\ y.party = trans[t].party
        /\ y.onDestroy = trans[t].onDestroy /\ y.tstate = [s \in Side |-> "EXCHANGE"]
    <2>1. [s \in Side |-> "EXCHANGE"] \in [Side -> TraderState]
      BY DEF TraderState
    <2> HIDE DEF e
    <2> QED
      BY <1>3, <2>1 DEF Transaction
  <1>6. Put(t, z) /\ UNCHANGED <<online, asked, live, traderMap, nextTid, started, ended>>
    BY DEF SetPossession, Destroy
  <1> HIDE DEF x, e, y, d
  <1>7. ASSUME OptionPolicy(x.state, "SETPSSN") PROVE Sound(t, y)
    <2>1. x.state = "SetPossession"
      BY <1>2, <1>7 DEF OptionPolicy, Transaction, State
    <2>2. \A s \in Side : trans[t].tstate[s] # "INIT"
      BY <1>1, <1>2, <2>1 DEF Sound, Trading
    <2> QED
      BY <1>1, <1>5, <2>2 DEF Sound
  <1>8. Sound(t, d)
    BY <1>1, <1>4 DEF Sound, Trading
  <1>9. Sound(t, z) /\ z.party = trans[t].party
    BY <1>4, <1>5, <1>7, <1>8
  <1> QED
    BY <1>1, <1>6, <1>9, PutKeepsInv DEF Inv, TypeOK

-----------------------------------------------------------------------------
\* The players' operations.  They are accepted only with both traders attached.

\* A new value with both traders attached, the same parties and callback, and
\* another state than Init is sound.
LEMMA BothAttachedSound ==
  ASSUME Inv, NEW t \in live, NEW y \in Transaction,
         y.party = trans[t].party, y.onDestroy = trans[t].onDestroy,
         y.state # "Init",
         \A s \in Side : trans[t].tstate[s] # "INIT" /\ y.tstate[s] # "INIT"
  PROVE  Sound(t, y)
  <1>1. Sound(t, trans[t])
    BY LiveSound
  <1>2. \A s \in Side : traderMap[y.party[s]] = t
    BY <1>1 DEF Sound
  <1> QED
    BY <1>1, <1>2 DEF Sound

\* Adding or removing goods goes back to Exchange and detaches nobody.
LEMMA UpdateGoodsInv ==
  ASSUME Inv, NEW t \in Tid, NEW s \in Side, UpdateGoods(t, s)
  PROVE  Inv'
  <1> DEFINE e  == ChangeState(trans[t], "Exchange")
             ts == Unready([trans[t].tstate EXCEPT ![s] = "EXCHANGE"])
             y  == [e EXCEPT !.tstate = ts]
  <1>1. t \in live /\ Sound(t, trans[t]) /\ trans[t] \in Transaction
    BY LiveSound DEF UpdateGoods
  <1>2. \A u \in Side : trans[t].tstate[u] # "INIT"
    BY <1>1, OptionsNeedBoth DEF UpdateGoods
  <1>3. /\ e \in Transaction /\ e.state = "Exchange" /\ e.party = trans[t].party
        /\ e.onDestroy = trans[t].onDestroy
    BY <1>1, ChangeStateFields DEF State
  <1>4. ts \in [Side -> TraderState] /\ \A u \in Side : ts[u] # "INIT"
    BY <1>1, <1>2 DEF Unready, Transaction, TraderState
  <1>5. Put(t, y) /\ UNCHANGED <<online, asked, live, traderMap, nextTid, started, ended>>
    BY DEF UpdateGoods
  <1> HIDE DEF e, ts
  <1>6. /\ y \in Transaction /\ y.state = "Exchange" /\ y.party = trans[t].party
        /\ y.onDestroy = trans[t].onDestroy /\ y.tstate = ts
    BY <1>3, <1>4 DEF Transaction
  <1> HIDE DEF y
  <1>7. Sound(t, y)
    BY <1>1, <1>2, <1>4, <1>6, BothAttachedSound
  <1> QED
    BY <1>1, <1>5, <1>6, <1>7, PutKeepsInv DEF Inv, TypeOK

\* Moving an object marks the pocket as modified and changes no state.
LEMMA MoveObjectInv ==
  ASSUME Inv, NEW t \in Tid, NEW s \in Side, MoveObject(t, s)
  PROVE  Inv'
  <1> DEFINE y == [trans[t] EXCEPT !.modified[s] = TRUE]
  <1>1. t \in live /\ Sound(t, trans[t]) /\ trans[t] \in Transaction
    BY LiveSound DEF MoveObject
  <1>2. /\ \A u \in Side : trans[t].tstate[u] # "INIT"
        /\ trans[t].state # "Init"
    BY <1>1, OptionsNeedBoth DEF MoveObject
  <1>3. /\ y \in Transaction /\ y.state = trans[t].state /\ y.party = trans[t].party
        /\ y.onDestroy = trans[t].onDestroy /\ y.tstate = trans[t].tstate
    BY <1>1 DEF Transaction
  <1>4. Put(t, y) /\ UNCHANGED <<online, asked, live, traderMap, nextTid, started, ended>>
    BY DEF MoveObject
  <1> HIDE DEF y
  <1>5. Sound(t, y)
    BY <1>1, <1>2, <1>3, BothAttachedSound
  <1> QED
    BY <1>1, <1>3, <1>4, <1>5, PutKeepsInv DEF Inv, TypeOK

\* TradeSubmit moves between Exchange, Ready_half and Ready only.
LEMMA SubmitInv ==
  ASSUME Inv, NEW t \in Tid, NEW s \in Side, NEW fits \in BOOLEAN, Submit(t, s, fits)
  PROVE  Inv'
  <1> DEFINE x  == [trans[t] EXCEPT !.tstate[s] = "READY"]
             h  == ChangeState(x, "Ready_half")
             r  == ChangeState(x, "Ready")
             e  == ChangeState(x, "Exchange")
             ts == Unready(x.tstate)
             y  == [e EXCEPT !.tstate = ts]
             z  == IF x.tstate[Other(s)] # "READY" THEN h ELSE IF fits THEN r ELSE y
  <1>1. t \in live /\ Sound(t, trans[t]) /\ trans[t] \in Transaction
    BY LiveSound DEF Submit
  <1>2. /\ x \in Transaction /\ x.party = trans[t].party
        /\ x.onDestroy = trans[t].onDestroy /\ x.state = trans[t].state
        /\ x.tstate = [trans[t].tstate EXCEPT ![s] = "READY"]
    BY <1>1 DEF Transaction, TraderState
  <1>3. \A u \in Side : trans[t].tstate[u] # "INIT" /\ x.tstate[u] # "INIT"
    <2>1. \A u \in Side : trans[t].tstate[u] # "INIT"
      BY <1>1, <1>2, OptionsNeedBoth DEF Submit
    <2> HIDE DEF x
    <2> QED
      BY <1>1, <1>2, <2>1 DEF Transaction
  <1>4. Put(t, z) /\ UNCHANGED <<online, asked, live, traderMap, nextTid, started, ended>>
    BY DEF Submit
  <1> HIDE DEF x
  <1>5. /\ h \in Transaction /\ h.state = "Ready_half" /\ h.party = trans[t].party
        /\ h.onDestroy = trans[t].onDestroy /\ h.tstate = x.tstate
    BY <1>2, ChangeStateFields DEF State
  <1>6. /\ r \in Transaction /\ r.state = "Ready" /\ r.party = trans[t].party
        /\ r.onDestroy = trans[t].onDestroy /\ r.tstate = x.tstate
    BY <1>2, ChangeStateFields DEF State
  <1>7. /\ e \in Transaction /\ e.state = "Exchange" /\ e.party = trans[t].party
        /\ e.onDestroy = trans[t].onDestroy
    BY <1>2, ChangeStateFields DEF State
  <1>8. ts \in [Side -> TraderState] /\ \A u \in Side : ts[u] # "INIT"
    BY <1>2, <1>3 DEF Unready, Transaction, TraderState
  <1> HIDE DEF h, r, e, ts
  <1>9. /\ y \in Transaction /\ y.state = "Exchange" /\ y.party = trans[t].party
        /\ y.onDestroy = trans[t].onDestroy /\ y.tstate = ts
    BY <1>7, <1>8 DEF Transaction
  <1> HIDE DEF y
  <1>10. /\ z \in Transaction /\ z.state # "Init" /\ z.party = trans[t].party
         /\ z.onDestroy = trans[t].onDestroy
         /\ \A u \in Side : z.tstate[u] # "INIT"
    BY <1>3, <1>5, <1>6, <1>8, <1>9
  <1> HIDE DEF z
  <1>11. Sound(t, z)
    BY <1>1, <1>3, <1>10, BothAttachedSound
  <1> QED
    BY <1>1, <1>4, <1>10, <1>11, PutKeepsInv DEF Inv, TypeOK

\* TradeConfirm leaves Ready for Confirm_half, or for Confirm with a TradeSave
\* under way, or destroys the transaction.
LEMMA ConfirmInv ==
  ASSUME Inv, NEW t \in Tid, NEW s \in Side, NEW exchanged \in BOOLEAN, NEW sent \in BOOLEAN,
         Confirm(t, s, exchanged, sent)
  PROVE  Inv'
  <1> DEFINE x == [trans[t] EXCEPT !.tstate[s] = "CONFIRM"]
             y == IF exchanged THEN [x EXCEPT !.modified = [u \in Side |-> TRUE]] ELSE x
             h == ChangeState(x, "Confirm_half")
             c == ChangeState(y, "Confirm")
             w == Write2DB(c, sent)
             z == IF x.tstate[Other(s)] = "CONFIRM" THEN w ELSE h
  <1>1. t \in live /\ Sound(t, trans[t]) /\ trans[t] \in Transaction
    BY LiveSound DEF Confirm
  <1>2. /\ x \in Transaction /\ x.party = trans[t].party
        /\ x.onDestroy = trans[t].onDestroy /\ x.state = trans[t].state
        /\ x.tstate = [trans[t].tstate EXCEPT ![s] = "CONFIRM"]
    BY <1>1 DEF Transaction, TraderState
  <1>3. \A u \in Side : trans[t].tstate[u] # "INIT"
    BY <1>1, <1>2, OptionsNeedBoth DEF Confirm
  <1>4. \A u \in Side : x.tstate[u] # "INIT" /\ traderMap[x.party[u]] = t
    BY <1>1, <1>2, <1>3 DEF Sound, Transaction
  <1>5. Put(t, z) /\ UNCHANGED <<online, asked, live, traderMap, nextTid, started, ended>>
    BY DEF Confirm
  <1> HIDE DEF x
  <1>6. /\ y \in Transaction /\ y.party = x.party /\ y.onDestroy = x.onDestroy
        /\ y.tstate = x.tstate
    BY <1>2 DEF Transaction
  <1> HIDE DEF y
  <1>7. /\ h \in Transaction /\ h.state = "Confirm_half" /\ h.party = trans[t].party
        /\ h.onDestroy = trans[t].onDestroy /\ h.tstate = x.tstate
    BY <1>2, ChangeStateFields DEF State
  <1>8. /\ c \in Transaction /\ c.age = 0 /\ c.party = x.party
        /\ c.onDestroy = x.onDestroy /\ c.tstate = x.tstate
    BY <1>6, ChangeStateFields DEF State
  <1> HIDE DEF h, c
  <1>9. Sound(t, w) /\ w.party = trans[t].party
    <2>1. /\ c.party \in [Side -> Role] /\ c.party["Alice"] # c.party["Bob"]
          /\ t \in started => c.onDestroy
      BY <1>1, <1>2, <1>8 DEF Sound
    <2>2. \A u \in Side : c.tstate[u] # "INIT" /\ traderMap[c.party[u]] = t
      BY <1>4, <1>8
    <2> HIDE DEF w
    <2>3. Sound(t, Write2DB(c, sent)) /\ Write2DB(c, sent).party = c.party
      BY <1>8, <2>1, <2>2, Write2DBSound
    <2> QED
      BY <1>2, <1>8, <2>3 DEF w
  <1>10. Sound(t, h)
    BY <1>1, <1>3, <1>4, <1>7, BothAttachedSound
  <1> HIDE DEF w
  <1>11. Sound(t, z) /\ z.party = trans[t].party
    BY <1>7, <1>9, <1>10
  <1> QED
    BY <1>1, <1>5, <1>11, PutKeepsInv DEF Inv, TypeOK

\* A discarded trade is in Init only while its TradeSave is under way.
LEMMA DiscardInv ==
  ASSUME Inv, NEW t \in Tid, NEW sent \in BOOLEAN, Discard(t, sent)
  PROVE  Inv'
  <1> DEFINE c == ChangeState(trans[t], "Init")
             w == Write2DB(c, sent)
  <1>1. t \in live /\ Sound(t, trans[t]) /\ trans[t] \in Transaction
    BY LiveSound DEF Discard
  <1>2. \A u \in Side : trans[t].tstate[u] # "INIT"
    BY <1>1, OptionsNeedBoth DEF Discard
  <1>3. /\ c \in Transaction /\ c.age = 0 /\ c.party = trans[t].party
        /\ c.onDestroy = trans[t].onDestroy /\ c.tstate = trans[t].tstate
    BY <1>1, ChangeStateFields DEF State
  <1>4. Put(t, w) /\ UNCHANGED <<online, asked, live, traderMap, nextTid, started, ended>>
    BY DEF Discard
  <1> HIDE DEF c
  <1>5. /\ c.party \in [Side -> Role] /\ c.party["Alice"] # c.party["Bob"]
        /\ t \in started => c.onDestroy
        /\ \A u \in Side : c.tstate[u] # "INIT" /\ traderMap[c.party[u]] = t
    BY <1>1, <1>2, <1>3 DEF Sound
  <1>6. Sound(t, w) /\ w.party = trans[t].party
    BY <1>3, <1>5, Write2DBSound
  <1> HIDE DEF w
  <1> QED
    BY <1>1, <1>4, <1>6, PutKeepsInv DEF Inv, TypeOK

\* RoleLogout rolls the trade back and changes nothing else of it.
LEMMA LogoutInv ==
  ASSUME Inv, NEW r \in Role, Logout(r) \/ Login(r)
  PROVE  Inv'
  <1> DEFINE t == traderMap[r]
             m == [trans[t] EXCEPT !.modified = [s \in Side |-> FALSE]]
             d == ChangeState(m, "Null")
  <1>1. online' \subseteq Role
        /\ UNCHANGED <<asked, live, traderMap, nextTid, started, ended>>
    BY DEF Inv, TypeOK, Logout, Login
  <1>2. CASE t \in live /\ trans' # trans
    <2>1. t \in live /\ Sound(t, trans[t]) /\ trans[t] \in Transaction
      BY <1>2, LiveSound
    <2>2. Put(t, d)
      BY <1>2 DEF Logout, Login, FindTransaction, Rollback, Destroy
    <2>3. /\ m \in Transaction /\ m.party = trans[t].party
          /\ m.onDestroy = trans[t].onDestroy /\ m.tstate = trans[t].tstate
      BY <2>1 DEF Transaction
    <2> HIDE DEF m
    <2>4. /\ d \in Transaction /\ d.state = "Null" /\ d.party = trans[t].party
          /\ d.onDestroy = trans[t].onDestroy /\ d.tstate = trans[t].tstate
      BY <2>3, ChangeStateFields DEF State
    <2> HIDE DEF d
    <2>5. Sound(t, d)
      BY <2>1, <2>4 DEF Sound, Trading
    <2> HIDE DEF t
    <2> QED
      BY <1>1, <2>1, <2>2, <2>4, <2>5, PutKeepsInv
  <1>3. CASE trans' = trans
    <2>1. TypeOK'
      BY <1>1, <1>3 DEF Inv, TypeOK
    <2>2. ASSUME NEW u \in live' PROVE (u < nextTid /\ Sound(u, trans[u]))'
      BY <1>1, <1>3 DEF Inv, Sound, SaveUnderWay
    <2>3. NoDanglingTrader' /\ EndIsAnnounced' /\ (\A u \in started : u < nextTid)'
      BY <1>1, <1>3 DEF Inv, NoDanglingTrader, EndIsAnnounced
    <2> QED
      BY <2>1, <2>2, <2>3 DEF Inv
  <1> QED
    BY <1>2, <1>3 DEF Logout, Login, FindTransaction

-----------------------------------------------------------------------------
\* The handlers that change a map.

\* A new transaction takes a tid no map mentions yet.
LEMMA TradeStartAgreedInv ==
  ASSUME Inv, NEW r1 \in Role, NEW r2 \in Role, NEW dispatched \in BOOLEAN,
         TradeStartAgreed(r1, r2, dispatched)
  PROVE  Inv'
  <1> USE ConstantsAssumption
  <1> DEFINE x == [NoTrans EXCEPT !.state = "Init",
                                  !.party = [s \in Side |-> IF s = "Alice" THEN r1 ELSE r2]]
             a == [x EXCEPT !.awaited = Side]
             d == ChangeState(x, "Null")
             z == IF dispatched THEN a ELSE d
  <1>1. /\ nextTid \in Tid /\ nextTid \notin live /\ nextTid \notin started
        /\ nextTid + 1 \in 1 .. MaxTid + 1
    BY DEF Inv, TypeOK, TradeStartAgreed, Tid
  <1>2. /\ asked' \subseteq Role \X Role
        /\ UNCHANGED <<online, traderMap, started, ended>>
    BY DEF Inv, TypeOK, TradeStartAgreed
  <1>3. CASE {r1, r2} \subseteq online /\ VerityTraders(r1, r2)
    <2>1. /\ x \in Transaction /\ x.state = "Init" /\ x.party \in [Side -> Role]
          /\ x.party["Alice"] # x.party["Bob"] /\ x.tstate = [s \in Side |-> "INIT"]
      BY <1>3 DEF NoTrans, Transaction, State, TraderState, VerityTraders, Side
    <2>2. trans' = [trans EXCEPT ![nextTid] = z] /\ live' = live \cup {nextTid}
          /\ nextTid' = nextTid + 1
      BY <1>3 DEF TradeStartAgreed, Put, Destroy
    <2> HIDE DEF x
    <2>3. /\ a \in Transaction /\ a.party = x.party /\ a.tstate = x.tstate /\ a.state = "Init"
      BY <2>1 DEF Transaction
    <2>4. /\ d \in Transaction /\ d.party = x.party /\ d.tstate = x.tstate /\ d.state = "Null"
      BY <2>1, ChangeStateFields DEF State
    <2> HIDE DEF a, d
    <2>5. Sound(nextTid, z)
      BY <1>1, <2>1, <2>3, <2>4 DEF Sound, Trading
    <2>6. z \in Transaction
      BY <2>3, <2>4
    <2> HIDE DEF z
    <2>7. \A u \in live : trans'[u] = trans[u] /\ u \in Tid /\ u # nextTid
      BY <1>1, <2>2 DEF Inv, TypeOK
    <2>8. trans'[nextTid] = z
      BY <1>1, <2>2 DEF Inv, TypeOK
    <2>9. TypeOK'
      BY <1>1, <1>2, <2>2, <2>6 DEF Inv, TypeOK
    <2>10. ASSUME NEW u \in live' PROVE (u < nextTid /\ Sound(u, trans[u]))'
      <3>1. CASE u = nextTid
        <4>1. Sound(u, trans'[u])
          BY <2>5, <2>8, <3>1
        <4>2. u < nextTid'
          BY <1>1, <2>2, <3>1 DEF Tid
        <4> QED
          BY <1>2, <4>1, <4>2 DEF Sound, SaveUnderWay
      <3>2. CASE u \in live
        <4>1. u < nextTid /\ Sound(u, trans'[u])
          BY <2>7, <3>2 DEF Inv
        <4>2. u < nextTid'
          BY <1>1, <2>2, <2>7, <3>2, <4>1 DEF Tid
        <4> QED
          BY <1>2, <4>1, <4>2 DEF Sound, SaveUnderWay
      <3> QED
        BY <2>2, <3>1, <3>2
    <2>11. NoDanglingTrader'
      BY <1>2, <2>2, <2>7 DEF Inv, NoDanglingTrader
    <2>12. EndIsAnnounced' /\ (\A u \in started : u < nextTid)'
      BY <1>1, <1>2, <2>2 DEF Inv, EndIsAnnounced, TypeOK, Tid
    <2> QED
      BY <2>9, <2>10, <2>11, <2>12 DEF Inv
  <1>4. CASE ~({r1, r2} \subseteq online /\ VerityTraders(r1, r2))
    <2>1. UNCHANGED <<trans, live, nextTid>>
      BY <1>4 DEF TradeStartAgreed
    <2>2. TypeOK'
      BY <1>2, <2>1 DEF Inv, TypeOK
    <2>3. ASSUME NEW u \in live' PROVE (u < nextTid /\ Sound(u, trans[u]))'
      BY <1>2, <2>1 DEF Inv, Sound, SaveUnderWay
    <2>4. NoDanglingTrader' /\ EndIsAnnounced' /\ (\A u \in started : u < nextTid)'
      BY <1>2, <2>1 DEF Inv, NoDanglingTrader, EndIsAnnounced
    <2> QED
      BY <2>2, <2>3, <2>4 DEF Inv
  <1> QED
    BY <1>3, <1>4

\* The trader enters TraderMap, or the transaction is destroyed.
LEMMA AttachTraderInv ==
  ASSUME Inv, NEW t \in Tid, NEW s \in Side, AttachTrader(t, s)
  PROVE  Inv'
  <1> USE ConstantsAssumption
  <1> DEFINE x == [trans[t] EXCEPT !.awaited = @ \ {s}, !.onDestroy = TRUE]
             r == x.party[s]
             y == [x EXCEPT !.tstate[s] = "INIT_HALF"]
             join == OptionPolicy(x.state, "ATTACHTRADER") /\ traderMap[r] = NoTid
  <1>1. t \in live /\ Sound(t, trans[t]) /\ trans[t] \in Transaction
    BY LiveSound DEF AttachTrader
  <1>2. /\ x \in Transaction /\ x.party = trans[t].party /\ x.tstate = trans[t].tstate
        /\ x.state = trans[t].state /\ x.onDestroy = TRUE
    BY <1>1 DEF Transaction
  <1>3. r \in Role /\ r = trans[t].party[s]
    BY <1>1, <1>2 DEF Sound
  <1>4. /\ started' = started \cup {t}
        /\ UNCHANGED <<online, asked, live, nextTid, ended>>
    BY DEF AttachTrader
  <1>5. t < nextTid
    BY <1>1 DEF Inv
  <1>6. /\ y \in Transaction /\ y.party = trans[t].party /\ y.onDestroy = TRUE
        /\ y.state = trans[t].state
        /\ y.tstate = [trans[t].tstate EXCEPT ![s] = "INIT_HALF"]
    <2> HIDE DEF x
    <2> QED
      BY <1>2 DEF Transaction, TraderState
  <1>7. \E z \in Transaction :
          /\ Put(t, z)
          /\ z.party = trans[t].party /\ z.onDestroy = TRUE /\ z.state # "Init"
          /\ \/ join /\ traderMap' = [traderMap EXCEPT ![r] = t] /\ z.tstate = y.tstate
                /\ (z.state \in Trading => y.tstate[Other(s)] = "INIT_HALF")
             \/ traderMap' = traderMap /\ z.tstate = trans[t].tstate /\ z.state = "Null"
    <2> DEFINE h == ChangeState(y, "Init_half")
               p == ChangeState(y, "SetPossession")
               q == CallRpc(p, "inventory")
               d == ChangeState(y, "Null")
               e == ChangeState(x, "Null")
    <2>1. CASE join
      <3>1. \/ y.tstate[Other(s)] # "INIT_HALF" /\ Put(t, h)
            \/ y.tstate[Other(s)] = "INIT_HALF" /\ (Put(t, q) \/ Put(t, d))
        BY <2>1 DEF AttachTrader, Destroy
      <3>2. traderMap' = [traderMap EXCEPT ![r] = t]
        BY <2>1 DEF AttachTrader
      <3> HIDE DEF x, y, r, join
      <3>3. /\ h \in Transaction /\ h.party = y.party /\ h.onDestroy = y.onDestroy
            /\ h.state = "Init_half" /\ h.tstate = y.tstate
        BY <1>6, ChangeStateFields DEF State
      <3>4. /\ p \in Transaction /\ p.party = y.party /\ p.onDestroy = y.onDestroy
            /\ p.state = "SetPossession" /\ p.tstate = y.tstate
        BY <1>6, ChangeStateFields DEF State
      <3>5. /\ d \in Transaction /\ d.party = y.party /\ d.onDestroy = y.onDestroy
            /\ d.state = "Null" /\ d.tstate = y.tstate
        BY <1>6, ChangeStateFields DEF State
      <3> HIDE DEF h, p, d
      <3>6. /\ q \in Transaction /\ q.party = y.party /\ q.onDestroy = y.onDestroy
            /\ q.state = "SetPossession" /\ q.tstate = y.tstate
        BY <3>4, CallRpcFields
      <3> HIDE DEF q
      <3>7. "Init_half" \notin Trading /\ "Null" \notin Trading
        BY DEF Trading
      <3> QED
        BY <1>6, <2>1, <3>1, <3>2, <3>3, <3>5, <3>6, <3>7
    <2>2. CASE ~join
      <3>1. Put(t, e) /\ traderMap' = traderMap
        BY <2>2 DEF AttachTrader, Destroy
      <3> HIDE DEF x, y, r, join
      <3>2. /\ e \in Transaction /\ e.party = x.party /\ e.onDestroy = TRUE
            /\ e.state = "Null" /\ e.tstate = x.tstate
        BY <1>2, ChangeStateFields DEF State
      <3> HIDE DEF e
      <3> QED
        BY <1>2, <3>1, <3>2
    <2> QED
      BY <2>1, <2>2
  <1>8. PICK z \in Transaction :
          /\ Put(t, z)
          /\ z.party = trans[t].party /\ z.onDestroy = TRUE /\ z.state # "Init"
          /\ \/ join /\ traderMap' = [traderMap EXCEPT ![r] = t] /\ z.tstate = y.tstate
                /\ (z.state \in Trading => y.tstate[Other(s)] = "INIT_HALF")
             \/ traderMap' = traderMap /\ z.tstate = trans[t].tstate /\ z.state = "Null"
    BY <1>7
  <1>9. join => traderMap[r] = NoTid
    OBVIOUS
  <1> HIDE DEF x, y, r, join
  <1>10. \A u \in Tid : trans'[u] = IF u = t THEN z ELSE trans[u]
    BY <1>8 DEF Inv, TypeOK, Put
  <1>11. /\ traderMap' \in [Role -> Tid \cup {NoTid}]
         /\ \A u \in Role : traderMap[u] # NoTid => traderMap'[u] = traderMap[u]
         /\ \A u \in Role : traderMap'[u] # traderMap[u] => u = trans[t].party[s] /\ traderMap'[u] = t
         /\ z.tstate # trans[t].tstate => traderMap'[trans[t].party[s]] = t
    BY <1>3, <1>6, <1>8, <1>9 DEF Inv, TypeOK
  <1>12. TypeOK'
    BY <1>4, <1>8, <1>11, <1>1 DEF Inv, TypeOK, Put
  <1>13. ASSUME NEW u \in live' PROVE (u < nextTid /\ Sound(u, trans[u]))'
    <2>1. u \in live /\ u \in Tid
      BY <1>4 DEF Inv, TypeOK
    <2>2. CASE u # t
      <3>1. Sound(u, trans[u]) /\ trans'[u] = trans[u] /\ u < nextTid /\ (u \in started' => u \in started)
        BY <1>4, <1>10, <2>1, <2>2 DEF Inv
      <3>2. u # NoTid
        BY <2>1 DEF Tid, NoTid
      <3>3. \A v \in Side : trans[u].tstate[v] # "INIT" => traderMap'[trans[u].party[v]] = u
        BY <1>11, <3>1, <3>2 DEF Sound
      <3> QED
        BY <1>4, <3>1, <3>3 DEF Sound, SaveUnderWay
    <2>3. CASE u = t
      <3>1. trans'[u] = z
        BY <1>10, <2>1, <2>3
      <3>2. t # NoTid /\ Side = {s, Other(s)} /\ s # Other(s)
        BY DEF Tid, NoTid, Side, Other
      <3>3. \A v \in Side : trans[t].tstate[v] # "INIT" => traderMap'[trans[t].party[v]] = t
        BY <1>1, <1>11, <3>2 DEF Sound
      <3>4. \A v \in Side : z.tstate[v] # "INIT" => traderMap'[z.party[v]] = t
        BY <1>1, <1>6, <1>8, <1>11, <3>2, <3>3 DEF Transaction
      <3>5. z.state \in Trading => \A v \in Side : z.tstate[v] # "INIT"
        <4>1. "Null" \notin Trading
          BY DEF Trading
        <4> QED
          BY <1>1, <1>6, <1>8, <3>2, <4>1 DEF Transaction
      <3> QED
        BY <1>1, <1>4, <1>5, <1>8, <2>3, <3>1, <3>4, <3>5 DEF Sound
    <2> QED
      BY <2>2, <2>3
  <1>14. NoDanglingTrader'
    <2> SUFFICES ASSUME NEW u \in Role, traderMap'[u] # NoTid
                 PROVE  /\ traderMap'[u] \in live
                        /\ \E v \in Side : trans'[traderMap'[u]].party[v] = u
      BY <1>4 DEF NoDanglingTrader
    <2>1. CASE traderMap'[u] = traderMap[u]
      <3>1. traderMap[u] \in live /\ \E v \in Side : trans[traderMap[u]].party[v] = u
        BY <2>1 DEF Inv, NoDanglingTrader
      <3>2. traderMap[u] \in Tid
        BY <3>1 DEF Inv, TypeOK
      <3> QED
        BY <1>8, <1>10, <2>1, <3>1, <3>2
    <2>2. CASE traderMap'[u] # traderMap[u]
      BY <1>1, <1>8, <1>10, <1>11, <2>2
    <2> QED
      BY <2>1, <2>2
  <1>15. EndIsAnnounced' /\ (\A u \in started : u < nextTid)'
    BY <1>1, <1>4, <1>5 DEF Inv, EndIsAnnounced
  <1> QED
    BY <1>12, <1>13, <1>14, <1>15 DEF Inv

\* A transaction that expires in the state Init was never started: TradeSave
\* would have timed out before.  In every other state the callback is called.
LEMMA UpdateInv ==
  ASSUME Inv, NEW t \in Tid, Update(t)
  PROVE  Inv'
  <1> USE ConstantsAssumption
  <1>1. t \in live /\ Sound(t, trans[t]) /\ trans[t] \in Transaction
    BY LiveSound DEF Update
  <1>2. /\ live' = live \ {t} /\ trans' = [trans EXCEPT ![t] = NoTrans]
        /\ UNCHANGED <<online, asked, nextTid, started>>
    BY DEF Update, ReleaseObject, Put
  <1>3. traderMap' = [r \in Role |->
                        IF (\E s \in Side : trans[t].party[s] = r) /\ traderMap[r] = t
                        THEN NoTid ELSE traderMap[r]]
    BY DEF Update, ReleaseObject
  <1>4. ended' \subseteq Tid /\ ended \subseteq ended'
    BY DEF Inv, TypeOK, Update
  <1>5. t \in started => t \in ended'
    <2>1. SUFFICES ASSUME t \in started PROVE t \in ended'
      OBVIOUS
    <2>2. trans[t].onDestroy
      BY <1>1, <2>1 DEF Sound
    <2>3. trans[t].state # "Init"
      <3>1. SUFFICES ASSUME trans[t].state = "Init" PROVE FALSE
        OBVIOUS
      <3>2. trans[t].age <= trans[t].rpcAge /\ trans[t].rpcAge <= RpcTimeout + 1
        BY <1>1, <2>1, <3>1 DEF Sound, SaveUnderWay
      <3>3. trans[t].age >= Timeout["Init"]
        BY <3>1 DEF Update, Expired
      <3>4. trans[t].age \in Nat /\ trans[t].rpcAge \in Nat /\ Timeout["Init"] \in Int
        BY <1>1 DEF Transaction, State
      <3> QED
        BY <3>2, <3>3, <3>4
    <2> QED
      BY <2>2, <2>3 DEF Update
  <1>6. NoTrans \in Transaction
    BY DEF NoTrans, Transaction, State, TraderState, Side
  <1>7. TypeOK'
    BY <1>2, <1>3, <1>4, <1>6 DEF Inv, TypeOK, NoTid
  <1>8. ASSUME NEW u \in live' PROVE (u < nextTid /\ Sound(u, trans[u]))'
    <2>1. u \in live /\ u # t /\ u \in Tid /\ u # NoTid
      BY <1>2 DEF Inv, TypeOK, Tid, NoTid
    <2>2. u < nextTid /\ Sound(u, trans[u]) /\ trans'[u] = trans[u]
      BY <1>2, <2>1 DEF Inv, TypeOK
    <2>3. \A s \in Side : trans[u].tstate[s] # "INIT" => traderMap'[trans[u].party[s]] = u
      BY <1>3, <2>1, <2>2 DEF Sound
    <2> QED
      BY <1>2, <2>2, <2>3 DEF Sound, SaveUnderWay
  <1>9. NoDanglingTrader'
    <2> SUFFICES ASSUME NEW r \in Role, traderMap'[r] # NoTid
                 PROVE  /\ traderMap'[r] \in live'
                        /\ \E s \in Side : trans'[traderMap'[r]].party[s] = r
      BY DEF NoDanglingTrader
    <2>1. traderMap'[r] = traderMap[r] /\ traderMap[r] # NoTid
      BY <1>3
    <2>2. traderMap[r] \in live /\ \E s \in Side : trans[traderMap[r]].party[s] = r
      BY <2>1 DEF Inv, NoDanglingTrader
    <2>3. traderMap[r] # t
      BY <1>3, <2>1, <2>2 DEF Tid, NoTid
    <2>4. traderMap[r] \in Tid
      BY <2>2 DEF Inv, TypeOK
    <2> QED
      BY <1>2, <2>1, <2>2, <2>3, <2>4 DEF Inv, TypeOK
  <1>10. EndIsAnnounced' /\ (\A u \in started : u < nextTid)'
    BY <1>2, <1>4, <1>5 DEF Inv, EndIsAnnounced
  <1> QED
    BY <1>7, <1>8, <1>9, <1>10 DEF Inv

\* A second passes for the transaction and its Rpc alike, and only when no Rpc
\* is overdue.
LEMMA TickInv ==
  ASSUME Inv, Tick
  PROVE  Inv'
  <1> USE ConstantsAssumption
  <1>1. /\ trans' = [t \in Tid |-> IF t \in live THEN Older(trans[t]) ELSE trans[t]]
        /\ UNCHANGED <<online, asked, live, traderMap, nextTid, started, ended>>
    BY DEF Tick
  <1>2. ASSUME NEW t \in live
        PROVE  /\ Older(trans[t]) \in Transaction
               /\ Older(trans[t]).party = trans[t].party
               /\ Sound(t, Older(trans[t]))
    <2> DEFINE x == trans[t]
               a == IF Timeout[x.state] = Never THEN x.age ELSE x.age + 1
               b == IF x.rpc = "none" THEN x.rpcAge ELSE x.rpcAge + 1
               o == [x EXCEPT !.age = a, !.rpcAge = b]
    <2>1. Sound(t, x) /\ x \in Transaction /\ x.age \in Nat /\ x.rpcAge \in Nat
      BY LiveSound DEF Transaction
    <2>2. Older(x) = o
      BY DEF Older
    <2>3. a \in Nat /\ b \in Nat
      BY <2>1
    <2>4. ~RpcOverdue(x)
      BY DEF Tick
    <2> HIDE DEF x
    <2>5. x.rpc = "save" /\ x.age <= x.rpcAge => a <= b /\ b <= RpcTimeout + 1
      BY <2>1, <2>4 DEF RpcOverdue
    <2> HIDE DEF a, b
    <2>6. /\ o \in Transaction /\ o.party = x.party /\ o.tstate = x.tstate
          /\ o.state = x.state /\ o.onDestroy = x.onDestroy /\ o.rpc = x.rpc
          /\ o.age = a /\ o.rpcAge = b
      BY <2>1, <2>3 DEF Transaction
    <2> HIDE DEF o
    <2>7. Sound(t, o)
      BY <2>1, <2>5, <2>6 DEF Sound, SaveUnderWay
    <2> QED
      BY <2>2, <2>6, <2>7 DEF x
  <1>3. \A t \in live : t \in Tid /\ trans'[t] = Older(trans[t])
    BY <1>1 DEF Inv, TypeOK
  <1>4. TypeOK'
    BY <1>1, <1>2 DEF Inv, TypeOK
  <1>5. ASSUME NEW u \in live' PROVE (u < nextTid /\ Sound(u, trans[u]))'
    <2>1. u < nextTid /\ Sound(u, trans'[u])
      BY <1>1, <1>2, <1>3 DEF Inv
    <2> QED
      BY <1>1, <2>1 DEF Sound, SaveUnderWay
  <1>6. NoDanglingTrader'
    BY <1>1, <1>2, <1>3 DEF Inv, NoDanglingTrader
  <1>7. EndIsAnnounced' /\ (\A u \in started : u < nextTid)'
    BY <1>1 DEF Inv, EndIsAnnounced
  <1> QED
    BY <1>4, <1>5, <1>6, <1>7 DEF Inv

-----------------------------------------------------------------------------
\* Every step preserves the invariant.
LEMMA NextInv == Inv /\ [Next]_vars => Inv'
  <1> SUFFICES ASSUME Inv, [Next]_vars PROVE Inv'
    OBVIOUS
  <1>1. CASE PlayerStep
    BY <1>1, TradeStartInv, TradeStartAgreedInv, UpdateGoodsInv, MoveObjectInv,
       SubmitInv, ConfirmInv, DiscardInv, LogoutInv DEF PlayerStep
  <1>2. CASE ServerStep
    BY <1>2, TradeStartInv, AttachTraderInv, AttachRefusedInv, SetPossessionInv,
       RpcDoneInv, UpdateInv, TickInv DEF ServerStep
  <1>3. CASE UNCHANGED vars
    <2>1. TypeOK'
      BY <1>3 DEF Inv, TypeOK, vars
    <2>2. ASSUME NEW u \in live' PROVE (u < nextTid /\ Sound(u, trans[u]))'
      BY <1>3 DEF Inv, Sound, SaveUnderWay, vars
    <2>3. NoDanglingTrader' /\ EndIsAnnounced' /\ (\A u \in started : u < nextTid)'
      BY <1>3 DEF Inv, NoDanglingTrader, EndIsAnnounced, vars
    <2> QED
      BY <2>1, <2>2, <2>3 DEF Inv
  <1> QED
    BY <1>1, <1>2, <1>3 DEF Next

\* A trade that trades has entered both its traders in TraderMap, and a role
\* maps to one transaction: two such trades have no role in common.
LEMMA InvOneTrade == Inv => OneTradePerRole
  <1> SUFFICES ASSUME Inv, NEW t1 \in live, NEW t2 \in live, t1 # t2,
                      trans[t1].state \in Trading, trans[t2].state \in Trading,
                      NEW s1 \in Side, NEW s2 \in Side,
                      trans[t1].party[s1] = trans[t2].party[s2]
               PROVE  FALSE
    BY DEF OneTradePerRole
  <1>1. traderMap[trans[t1].party[s1]] = t1
    BY DEF Inv, Sound
  <1>2. traderMap[trans[t2].party[s2]] = t2
    BY DEF Inv, Sound
  <1> QED
    BY <1>1, <1>2

\* The invariant holds in every behaviour.
LEMMA Invariance == Spec => []Inv
  <1> QED
    BY InitInv, NextInv, PTL DEF Spec

\* The variables keep their types for any constants.
THEOREM TypeCorrect == Spec => []TypeOK
  <1>1. Inv => TypeOK
    BY DEF Inv
  <1> QED
    BY <1>1, Invariance, PTL

\* A role in TraderMap maps to a Trader that has not been deleted, whatever the
\* order of answers, timeouts and logouts.
THEOREM TradersAreAlive == Spec => []NoDanglingTrader
  <1>1. Inv => NoDanglingTrader
    BY DEF Inv
  <1> QED
    BY <1>1, Invariance, PTL

\* No role has its goods in two trades at once.
THEOREM OneTrade == Spec => []OneTradePerRole
  <1> QED
    BY InvOneTrade, Invariance, PTL

\* The game server hears of the end of every trade it moved a player to trade
\* mode for, provided TradeSave times out before the state Init does.
THEOREM EndAnnounced == Spec => []EndIsAnnounced
  <1>1. Inv => EndIsAnnounced
    BY DEF Inv
  <1> QED
    BY <1>1, Invariance, PTL

-----------------------------------------------------------------------------
(***************************************************************************)
(* No way back from Ready.                                                 *)
(***************************************************************************)
Bound(x) == x.state \in {"Ready", "Confirm_half"}
Exchanging(x) == x.state \in {"Exchange", "Ready_half"}

\* It is enough to look at the transaction that is changed.
LEMMA PutKeepsBound ==
  ASSUME Inv, NEW u \in Tid, NEW x, Put(u, x), u \in live => (Bound(trans[u]) => ~Exchanging(x))
  PROVE  \A t \in live : Bound(trans[t]) => ~Exchanging(trans'[t])
  <1> SUFFICES ASSUME NEW t \in live, Bound(trans[t])
               PROVE  ~Exchanging(trans'[t])
    OBVIOUS
  <1>1. t \in Tid /\ trans' = [trans EXCEPT ![u] = x] /\ trans \in [Tid -> Transaction]
    BY DEF Inv, TypeOK, Put
  <1>2. trans'[t] = IF t = u THEN x ELSE trans[t]
    BY <1>1
  <1> QED
    BY <1>2 DEF Bound, Exchanging

\* A destroyed transaction is in state Null.
LEMMA DestroyedIsNull ==
  ASSUME NEW x, "state" \in DOMAIN x
  PROVE  ~Exchanging(Destroy(x))
  BY DEF Destroy, ChangeState, Exchanging

LEMMA PlayerStepKeepsBound ==
  ASSUME Inv, PlayerStep
  PROVE  \A t \in live : Bound(trans[t]) => ~Exchanging(trans'[t])
  <1> DEFINE Goal == \A t \in live : Bound(trans[t]) => ~Exchanging(trans'[t])
  <1>0. trans' = trans => Goal
    BY DEF Bound, Exchanging
  <1> HIDE DEF Goal
  <1>1. ASSUME NEW r1 \in Role, NEW r2 \in Role, TradeStart(r1, r2)
        PROVE  Goal
    BY <1>0, <1>1 DEF TradeStart
  <1>2. ASSUME NEW r1 \in Role, NEW r2 \in Role, NEW dispatched \in BOOLEAN,
               TradeStartAgreed(r1, r2, dispatched)
        PROVE  Goal
    <2>1. CASE trans' = trans
      BY <1>0, <2>1
    <2>2. CASE trans' # trans
      <3>1. \E x : Put(nextTid, x)
        BY <1>2, <2>2 DEF TradeStartAgreed
      <3>2. nextTid \in Tid /\ nextTid \notin live
        BY <1>2, ConstantsAssumption DEF TradeStartAgreed, Inv, TypeOK, Tid
      <3> QED
        BY <3>1, <3>2, PutKeepsBound DEF Goal
    <2> QED
      BY <2>1, <2>2
  <1>3. ASSUME NEW t \in Tid, NEW s \in Side,
               \/ UpdateGoods(t, s)
               \/ \E fits \in BOOLEAN : Submit(t, s, fits)
        PROVE  Goal
    <2>1. ~Bound(trans[t])
      BY <1>3 DEF UpdateGoods, Submit, OptionPolicy, Bound
    <2>2. \E x : Put(t, x)
      BY <1>3 DEF UpdateGoods, Submit
    <2> QED
      BY <2>1, <2>2, PutKeepsBound DEF Goal
  <1>4. ASSUME NEW t \in Tid, NEW s \in Side, MoveObject(t, s)
        PROVE  Goal
    <2>1. ~Bound(trans[t])
      BY <1>4 DEF MoveObject, OptionPolicy, Bound
    <2>2. \E x : Put(t, x)
      BY <1>4 DEF MoveObject
    <2> QED
      BY <2>1, <2>2, PutKeepsBound DEF Goal
  <1>5. ASSUME NEW t \in Tid, NEW s \in Side, NEW exchanged \in BOOLEAN, NEW sent \in BOOLEAN,
               Confirm(t, s, exchanged, sent)
        PROVE  Goal
    <2> DEFINE x == [trans[t] EXCEPT !.tstate[s] = "CONFIRM"]
               y == IF exchanged THEN [x EXCEPT !.modified = [u \in Side |-> TRUE]] ELSE x
               c == ChangeState(y, "Confirm")
               h == ChangeState(x, "Confirm_half")
    <2>1. trans[t] \in Transaction
      BY <1>5, LiveSound DEF Confirm
    <2>2. x \in Transaction /\ y \in Transaction
      BY <2>1 DEF Transaction, TraderState
    <2> HIDE DEF x, y
    <2>3. h.state = "Confirm_half" /\ c \in Transaction /\ c.state = "Confirm"
      BY <2>2, ChangeStateFields DEF State
    <2>4. Put(t, Write2DB(c, sent)) \/ Put(t, h)
      BY <1>5 DEF Confirm, x, y
    <2> HIDE DEF c, h
    <2>5. ~Exchanging(h) /\ ~Exchanging(Write2DB(c, sent))
      <3>1. CallRpc(c, "save").state = "Confirm"
        BY <2>3, CallRpcFields
      <3>2. ~Exchanging(Destroy(c))
        BY <2>3, DestroyedIsNull DEF Transaction
      <3> QED
        BY <2>3, <3>1, <3>2 DEF Write2DB, Exchanging
    <2> QED
      BY <2>4, <2>5, PutKeepsBound DEF Goal
  <1>6. ASSUME NEW t \in Tid, NEW sent \in BOOLEAN, Discard(t, sent)
        PROVE  Goal
    <2> DEFINE c == ChangeState(trans[t], "Init")
    <2>1. Put(t, Write2DB(c, sent)) /\ trans[t] \in Transaction
      BY <1>6, LiveSound DEF Discard
    <2>2. c \in Transaction /\ c.state = "Init"
      BY <2>1, ChangeStateFields DEF State
    <2> HIDE DEF c
    <2>3. CallRpc(c, "save").state = "Init"
      BY <2>2, CallRpcFields
    <2>4. ~Exchanging(Destroy(c))
      BY <2>2, DestroyedIsNull DEF Transaction
    <2>5. ~Exchanging(Write2DB(c, sent))
      BY <2>3, <2>4 DEF Write2DB, Exchanging
    <2> QED
      BY <2>1, <2>5, PutKeepsBound DEF Goal
  <1>7. ASSUME NEW r \in Role, Logout(r)
        PROVE  Goal
    <2> DEFINE t == traderMap[r]
               m == [trans[t] EXCEPT !.modified = [s \in Side |-> FALSE]]
    <2>1. CASE trans' = trans
      BY <1>0, <2>1
    <2>2. CASE trans' # trans
      <3>1. t \in live /\ Put(t, Destroy(m))
        BY <1>7, <2>2 DEF Logout, FindTransaction, Rollback
      <3>2. trans[t] \in Transaction /\ t \in Tid
        BY <3>1, LiveSound
      <3> HIDE DEF t
      <3>3. "state" \in DOMAIN m
        BY <3>2 DEF Transaction
      <3> HIDE DEF m
      <3>4. ~Exchanging(Destroy(m))
        BY <3>3, DestroyedIsNull
      <3> QED
        BY <3>1, <3>2, <3>4, PutKeepsBound DEF Goal
    <2> QED
      BY <2>1, <2>2
  <1>8. ASSUME NEW r \in Role, Login(r)
        PROVE  Goal
    BY <1>0, <1>8 DEF Login
  <1> QED
    BY <1>1, <1>2, <1>3, <1>4, <1>5, <1>6, <1>7, <1>8 DEF PlayerStep, Goal

LEMMA ServerStepKeepsBound ==
  ASSUME Inv, ServerStep
  PROVE  \A t \in live : Bound(trans[t]) => ~Exchanging(trans'[t])
  <1> DEFINE Goal == \A t \in live : Bound(trans[t]) => ~Exchanging(trans'[t])
  <1> HIDE DEF Goal
  <1>1. ASSUME NEW r1 \in Role, NEW r2 \in Role, TradeStartRefused(r1, r2)
        PROVE  Goal
    BY <1>1 DEF TradeStartRefused, Goal, Bound, Exchanging
  <1>2. ASSUME NEW t \in Tid, NEW s \in Side, AttachTrader(t, s)
        PROVE  Goal
    <2> DEFINE x == [trans[t] EXCEPT !.awaited = @ \ {s}, !.onDestroy = TRUE]
    <2>1. trans[t] \in Transaction
      BY <1>2, LiveSound DEF AttachTrader
    <2>2. x \in Transaction /\ x.state = trans[t].state
      BY <2>1 DEF Transaction
    <2>3. CASE OptionPolicy(x.state, "ATTACHTRADER")
      <3>1. ~Bound(trans[t])
        BY <2>2, <2>3 DEF OptionPolicy, Bound
      <3>2. \E y : Put(t, y)
        BY <1>2 DEF AttachTrader
      <3> QED
        BY <3>1, <3>2, PutKeepsBound DEF Goal
    <2>4. CASE ~OptionPolicy(x.state, "ATTACHTRADER")
      <3>1. Put(t, Destroy(x))
        BY <1>2, <2>4, Zenon DEF AttachTrader
      <3> HIDE DEF x
      <3>2. ~Exchanging(Destroy(x))
        BY <2>2, DestroyedIsNull DEF Transaction
      <3> QED
        BY <3>1, <3>2, PutKeepsBound DEF Goal
    <2> QED
      BY <2>3, <2>4
  <1>3. ASSUME NEW t \in Tid, NEW s \in Side, AttachRefused(t, s)
        PROVE  Goal
    <2> DEFINE x == [trans[t] EXCEPT !.awaited = @ \ {s}]
    <2>1. Put(t, Destroy(x)) /\ trans[t] \in Transaction
      BY <1>3, LiveSound DEF AttachRefused
    <2>2. "state" \in DOMAIN x
      BY <2>1 DEF Transaction
    <2> HIDE DEF x
    <2>3. ~Exchanging(Destroy(x))
      BY <2>2, DestroyedIsNull
    <2> QED
      BY <2>1, <2>3, PutKeepsBound DEF Goal
  <1>4. ASSUME NEW t \in Tid, SetPossession(t) \/ PossessionFailed(t) \/ SaveDone(t)
        PROVE  Goal
    <2> DEFINE x == RpcGone(trans[t])
    <2>1. trans[t] \in Transaction
      BY <1>4, LiveSound DEF SetPossession, PossessionFailed, SaveDone
    <2>2. x \in Transaction /\ x.state = trans[t].state
      BY <2>1, RpcGoneFields
    <2>3. ~Exchanging(Destroy(x))
      <3> HIDE DEF x
      <3> QED
        BY <2>2, DestroyedIsNull DEF Transaction
    <2>4. CASE Bound(trans[t])
      <3>1. ~OptionPolicy(x.state, "SETPSSN")
        BY <2>2, <2>4 DEF OptionPolicy, Bound
      <3>2. Put(t, Destroy(x))
        BY <1>4, <3>1 DEF SetPossession, PossessionFailed, SaveDone
      <3> QED
        BY <2>3, <3>2, PutKeepsBound DEF Goal
    <2>5. CASE ~Bound(trans[t])
      <3>1. \E y : Put(t, y)
        BY <1>4 DEF SetPossession, PossessionFailed, SaveDone
      <3> QED
        BY <2>5, <3>1, PutKeepsBound DEF Goal
    <2> QED
      BY <2>4, <2>5
  <1>5. ASSUME NEW t \in Tid, Update(t)
        PROVE  Goal
    <2>1. Put(t, NoTrans)
      BY <1>5 DEF Update, ReleaseObject
    <2>2. ~Exchanging(NoTrans)
      BY DEF Exchanging, NoTrans
    <2> QED
      BY <2>1, <2>2, PutKeepsBound DEF Goal
  <1>6. CASE Tick
    <2>1. \A t \in live : t \in Tid /\ trans'[t] = Older(trans[t])
      BY <1>6 DEF Tick, Inv, TypeOK
    <2>2. ASSUME NEW t \in live
          PROVE  Older(trans[t]).state = trans[t].state
      <3>1. trans[t] \in Transaction
        BY LiveSound
      <3> QED
        BY <3>1 DEF Older, Transaction
    <2> QED
      BY <2>1, <2>2 DEF Goal, Bound, Exchanging
  <1> QED
    BY <1>1, <1>2, <1>3, <1>4, <1>5, <1>6 DEF ServerStep, Goal

\* The operations that end a trade are the only ones that move it on once both
\* traders are bound to the result they saw.
THEOREM NoWayBack == Spec => NoReturnFromReady
  <1>1. ASSUME Inv, [Next]_vars
        PROVE  [\A t \in live : trans[t].state \in {"Ready", "Confirm_half"} =>
                    trans'[t].state \notin {"Exchange", "Ready_half"}]_vars
    BY <1>1, PlayerStepKeepsBound, ServerStepKeepsBound DEF Next, Bound, Exchanging
  <1> QED
    BY <1>1, Invariance, PTL DEF Spec, NoReturnFromReady

=============================================================================
