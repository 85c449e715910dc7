------------------------------ MODULE Transaction ------------------------------
(***************************************************************************)
(* The life of trades in gdeliveryd: who is in which trade, what each      *)
(* trade may do next, and when it is released (cnet/gdeliveryd/trade.h,    *)
(* trade.cpp and the handlers of the TradeXxx protocols).                  *)
(*                                                                         *)
(* gdeliveryd runs one poll loop, so a handler is one action.  What the    *)
(* goods and the money are is left to module TradeGoods: here an update    *)
(* that is refused changes nothing, whether a result fits the pockets is a *)
(* choice, and a pocket is only modified or not.                           *)
(*                                                                         *)
(* Environment: players (requests, answers, logout), the game server's     *)
(* answer to GTradeStart, and gamedbd's answer to TradeInventory and       *)
(* TradeSave, which may never come: the Rpc layer then times out.          *)
(*                                                                         *)
(* Refusals of TradeStart that depend on neither roles nor trades (a       *)
(* central delivery server, a role forbidden to trade, roles on different  *)
(* game servers) change no state and are left out.                         *)
(*                                                                         *)
(* A definition named Mut... is a plausible mistake in the definition that *)
(* follows it; the runs show that a property notices the mistake.          *)
(***************************************************************************)
EXTENDS Integers, FiniteSets

CONSTANTS Role,        \* roles that may trade
          MaxTid,      \* bound: number of transactions ever created
          MaxAsked,    \* bound: requests waiting for a partner at one time
          Timeout,     \* [State -> Int], seconds a transaction may stay in a state
          RpcTimeout   \* seconds until an unanswered Rpc times out

State == {"Init", "Init_half", "SetPossession", "Exchange", "Ready_half",
          "Ready", "Confirm_half", "Confirm", "Null"}
TraderState == {"INIT", "INIT_HALF", "EXCHANGE", "READY", "CONFIRM"}

Never == -1

ASSUME ConstantsAssumption ==
    /\ MaxTid \in Nat \ {0} /\ MaxAsked \in Nat
    /\ RpcTimeout \in Nat
    /\ Timeout \in [State -> Int]
    /\ Timeout["Null"] = 0
    /\ Timeout["Confirm"] = Never
    /\ \A st \in State \ {"Null", "Confirm"} : Timeout[st] > 0
    /\ RpcTimeout + 1 < Timeout["Init"]

Tid   == 1 .. MaxTid
NoTid == 0
Side  == {"Alice", "Bob"}
Other(s) == IF s = "Alice" THEN "Bob" ELSE "Alice"

MutOptionPolicyResubmit(st, opt) ==
    opt \in CASE st \in {"Init", "Init_half"}       -> {"ATTACHTRADER"}
              [] st = "SetPossession"               -> {"SETPSSN"}
              [] st \in {"Exchange", "Ready_half"}  -> {"UPDATEGOODS", "SUBMIT", "DISCARD", "MOVEOBJ"}
              [] st = "Ready"                       -> {"CONFIRM", "DISCARD", "SUBMIT"}
              [] st = "Confirm_half"                -> {"CONFIRM", "DISCARD"}
              [] OTHER                              -> {}

\* The options each state of a transaction accepts.
OptionPolicy(st, opt) ==
    opt \in CASE st \in {"Init", "Init_half"}       -> {"ATTACHTRADER"}
              [] st = "SetPossession"               -> {"SETPSSN"}
              [] st \in {"Exchange", "Ready_half"}  -> {"UPDATEGOODS", "SUBMIT", "DISCARD", "MOVEOBJ"}
              [] st \in {"Ready", "Confirm_half"}   -> {"CONFIRM", "DISCARD"}
              [] OTHER                              -> {}

VARIABLES
    online,     \* roles FindRoleOnline finds
    asked,      \* TradeStartRqst rpcs waiting for the partner: <<starter, partner>>
    live,       \* keys of TransMap
    traderMap,  \* TraderMap: the transaction whose Trader a role maps to
    trans,      \* the Transaction objects
    nextTid,    \* the static _tid of Create
    started,    \* history: trades the game server moved a player to trade mode for
    ended       \* trades a GTradeEnd was dispatched for

vars == <<online, asked, live, traderMap, trans, nextTid, started, ended>>

NoTrans ==
    [state |-> "Null", age |-> 0, onDestroy |-> FALSE,
     party |-> [s \in Side |-> "none"], tstate |-> [s \in Side |-> "INIT"],
     modified |-> [s \in Side |-> FALSE],
     awaited |-> {}, rpc |-> "none", rpcAge |-> 0]

Transaction ==
    [state : State, age : Nat, onDestroy : BOOLEAN,
     party : [Side -> Role \cup {"none"}], tstate : [Side -> TraderState],
     modified : [Side -> BOOLEAN],
     awaited : SUBSET Side,                      \* sides the game server has yet to answer for
     rpc : {"none", "inventory", "save"}, rpcAge : Nat]

\* Type correctness: each live trade is a record of the states, ages and answers of
\* trade.h, and TraderMap names a trade or none.
TypeOK ==
    /\ online \subseteq Role
    /\ asked \subseteq Role \X Role
    /\ live \subseteq Tid
    /\ traderMap \in [Role -> Tid \cup {NoTid}]
    /\ trans \in [Tid -> Transaction]
    /\ nextTid \in 1 .. MaxTid + 1
    /\ started \subseteq Tid
    /\ ended \subseteq Tid

Init ==
    /\ online = Role
    /\ asked = {}
    /\ live = {}
    /\ traderMap = [r \in Role |-> NoTid]
    /\ trans = [t \in Tid |-> NoTrans]
    /\ nextTid = 1
    /\ started = {}
    /\ ended = {}

-----------------------------------------------------------------------------
\* Helpers on a Transaction record.

ChangeState(x, st) == [x EXCEPT !.state = st, !.age = 0]

Destroy(x) == ChangeState(x, "Null")

Rollback(x) == Destroy([x EXCEPT !.modified = [s \in Side |-> FALSE]])

\* Rpc::Call and SendProtocol: the rpc is pending from now on.
CallRpc(x, name) == [x EXCEPT !.rpc = name, !.rpcAge = 0]

\* The rpc is answered or timed out: it has left the Rpc map.
RpcGone(x) == [x EXCEPT !.rpc = "none", !.rpcAge = 0]

NeedSave(x) == \E s \in Side : x.modified[s]

MutWrite2DBForgets(x, sent) ==
    IF NeedSave(x) /\ sent THEN CallRpc(x, "save") ELSE x

\* Write2DB: nothing to save, or the link to gamedbd is down: the transaction
\* is destroyed at once; otherwise TradeSave is under way.
Write2DB(x, sent) ==
    IF NeedSave(x) /\ sent THEN CallRpc(x, "save") ELSE Destroy(x)

\* Traders that submitted must submit again once the goods have changed.
Unready(ts) == [s \in Side |-> IF ts[s] = "READY" THEN "EXCHANGE" ELSE ts[s]]

\* VerityTraders: neither role is in a trade, and they are two roles.
VerityTraders(r1, r2) ==
    traderMap[r1] = NoTid /\ traderMap[r2] = NoTid /\ r1 # r2

Put(t, x) == trans' = [trans EXCEPT ![t] = x]

-----------------------------------------------------------------------------
\* Starting a trade.

\* TradeStart: the partner is asked, by an Rpc through its link.
TradeStart(r1, r2) ==
    /\ {r1, r2} \subseteq online
    /\ VerityTraders(r1, r2)
    /\ Cardinality(asked) < MaxAsked
    /\ asked' = asked \cup {<<r1, r2>>}
    /\ UNCHANGED <<online, live, traderMap, trans, nextTid, started, ended>>

\* The partner refuses, or its answer does not come in time.
TradeStartRefused(r1, r2) ==
    /\ <<r1, r2>> \in asked
    /\ asked' = asked \ {<<r1, r2>>}
    /\ UNCHANGED <<online, live, traderMap, trans, nextTid, started, ended>>

\* The partner agrees: the traders are verified again, and the game server is
\* told to prepare them; dispatched = FALSE when it is not connected.
TradeStartAgreed(r1, r2, dispatched) ==
    /\ <<r1, r2>> \in asked
    /\ nextTid <= MaxTid
    /\ asked' = asked \ {<<r1, r2>>}
    /\ IF {r1, r2} \subseteq online /\ VerityTraders(r1, r2)
       THEN LET x == [NoTrans EXCEPT !.state = "Init",
                                     !.party = [s \in Side |-> IF s = "Alice" THEN r1 ELSE r2]]
            IN /\ Put(nextTid, IF dispatched THEN [x EXCEPT !.awaited = Side] ELSE Destroy(x))
               /\ live' = live \cup {nextTid}
               /\ nextTid' = nextTid + 1
       ELSE UNCHANGED <<trans, live, nextTid>>
    /\ UNCHANGED <<online, traderMap, started, ended>>

MutAttachTraderUnchecked(t, s) ==
    LET x == [trans[t] EXCEPT !.awaited = @ \ {s}, !.onDestroy = TRUE]
        y == [x EXCEPT !.tstate[s] = "INIT_HALF"]
    IN /\ t \in live
       /\ s \in trans[t].awaited
       /\ started' = started \cup {t}
       /\ IF OptionPolicy(x.state, "ATTACHTRADER")
          THEN /\ traderMap' = [traderMap EXCEPT ![x.party[s]] = t]
               /\ IF y.tstate[Other(s)] # "INIT_HALF"
                  THEN Put(t, ChangeState(y, "Init_half"))
                  ELSE Put(t, CallRpc(ChangeState(y, "SetPossession"), "inventory"))
          ELSE /\ Put(t, Destroy(x))
               /\ UNCHANGED traderMap
       /\ UNCHANGED <<online, asked, live, nextTid, ended>>

\* GTradeStart_Re: the game server has saved this player and moved it to trade.
AttachTrader(t, s) ==
    LET x == [trans[t] EXCEPT !.awaited = @ \ {s}, !.onDestroy = TRUE]
        r == x.party[s]
        y == [x EXCEPT !.tstate[s] = "INIT_HALF"]
    IN /\ t \in live
       /\ s \in trans[t].awaited
       /\ started' = started \cup {t}
       /\ IF OptionPolicy(x.state, "ATTACHTRADER") /\ traderMap[r] = NoTid
          THEN /\ traderMap' = [traderMap EXCEPT ![r] = t]
               /\ IF y.tstate[Other(s)] # "INIT_HALF"
                  THEN Put(t, ChangeState(y, "Init_half"))
                  ELSE \E sent \in BOOLEAN :
                         Put(t, IF sent
                                THEN CallRpc(ChangeState(y, "SetPossession"), "inventory")
                                ELSE Destroy(y))
          ELSE /\ Put(t, Destroy(x))
               /\ UNCHANGED traderMap
       /\ UNCHANGED <<online, asked, live, nextTid, ended>>

\* GTradeStart_Re with an error: the game server cannot prepare this player.
AttachRefused(t, s) ==
    /\ t \in live
    /\ s \in trans[t].awaited
    /\ Put(t, Destroy([trans[t] EXCEPT !.awaited = @ \ {s}]))
    /\ UNCHANGED <<online, asked, live, traderMap, nextTid, started, ended>>

\* TradeInventory is answered: the pockets are those gamedbd holds.
SetPossession(t) ==
    LET x == RpcGone(trans[t])
    IN /\ t \in live
       /\ trans[t].rpc = "inventory"
       /\ Put(t, IF OptionPolicy(x.state, "SETPSSN")
                 THEN [ChangeState(x, "Exchange") EXCEPT !.tstate = [s \in Side |-> "EXCHANGE"]]
                 ELSE Destroy(x))
       /\ UNCHANGED <<online, asked, live, traderMap, nextTid, started, ended>>

\* TradeInventory failed, or timed out.
PossessionFailed(t) ==
    /\ t \in live
    /\ trans[t].rpc = "inventory"
    /\ Put(t, Destroy(RpcGone(trans[t])))
    /\ UNCHANGED <<online, asked, live, traderMap, nextTid, started, ended>>

-----------------------------------------------------------------------------
\* The players' operations.

\* TradeAddGoods and TradeRemoveGoods that succeed.
UpdateGoods(t, s) ==
    LET x == trans[t]
    IN /\ t \in live
       /\ OptionPolicy(x.state, "UPDATEGOODS")
       /\ x.tstate[s] # "READY"
       /\ Put(t, [ChangeState(x, "Exchange") EXCEPT
                    !.tstate = Unready([x.tstate EXCEPT ![s] = "EXCHANGE"])])
       /\ UNCHANGED <<online, asked, live, traderMap, nextTid, started, ended>>

\* TradeMoveObj that succeeds: no state changes, and no timer is reset.
MoveObject(t, s) ==
    LET x == trans[t]
    IN /\ t \in live
       /\ OptionPolicy(x.state, "MOVEOBJ")
       /\ x.tstate[s] = "EXCHANGE"
       /\ Put(t, [x EXCEPT !.modified[s] = TRUE])
       /\ UNCHANGED <<online, asked, live, traderMap, nextTid, started, ended>>

\* TradeSubmit: with both submitted the result is generated; when it does not
\* fit a pocket, the traders go on exchanging.
Submit(t, s, fits) ==
    LET x == [trans[t] EXCEPT !.tstate[s] = "READY"]
    IN /\ t \in live
       /\ OptionPolicy(x.state, "SUBMIT")
       /\ Put(t, IF x.tstate[Other(s)] # "READY" THEN ChangeState(x, "Ready_half")
                 ELSE IF fits THEN ChangeState(x, "Ready")
                 ELSE [ChangeState(x, "Exchange") EXCEPT !.tstate = Unready(x.tstate)])
       /\ UNCHANGED <<online, asked, live, traderMap, nextTid, started, ended>>

\* TradeConfirm: with both confirmed the goods change hands and are saved.
Confirm(t, s, exchanged, sent) ==
    LET x == [trans[t] EXCEPT !.tstate[s] = "CONFIRM"]
        y == IF exchanged THEN [x EXCEPT !.modified = [u \in Side |-> TRUE]] ELSE x
    IN /\ t \in live
       /\ OptionPolicy(x.state, "CONFIRM")
       /\ trans[t].tstate[s] \in {"READY", "CONFIRM"}
       /\ Put(t, IF x.tstate[Other(s)] = "CONFIRM"
                 THEN Write2DB(ChangeState(y, "Confirm"), sent)
                 ELSE ChangeState(x, "Confirm_half"))
       /\ UNCHANGED <<online, asked, live, traderMap, nextTid, started, ended>>

\* TradeDiscard of a player, or GTradeDiscard of the game server (a trader was
\* attacked or moved away): the goods go back, moved goods are saved.
Discard(t, sent) ==
    LET x == trans[t]
    IN /\ t \in live
       /\ OptionPolicy(x.state, "DISCARD")
       /\ Put(t, Write2DB(ChangeState(x, "Init"), sent))
       /\ UNCHANGED <<online, asked, live, traderMap, nextTid, started, ended>>

\* FindTransactionbyTrader
FindTransaction(r) == traderMap[r]

\* RoleLogout calls DiscardTransaction: the trade is rolled back without a save.
Logout(r) ==
    LET t == FindTransaction(r)
    IN /\ r \in online
       /\ online' = online \ {r}
       /\ IF t \in live /\ OptionPolicy(trans[t].state, "DISCARD")
          THEN Put(t, Rollback(trans[t]))
          ELSE UNCHANGED trans
       /\ UNCHANGED <<asked, live, traderMap, nextTid, started, ended>>

Login(r) ==
    /\ r \in Role \ online
    /\ online' = online \cup {r}
    /\ UNCHANGED <<asked, live, traderMap, trans, nextTid, started, ended>>

-----------------------------------------------------------------------------
\* The end of a trade.

\* TradeSave is answered, with success or failure, or times out.
SaveDone(t) ==
    /\ t \in live
    /\ trans[t].rpc = "save"
    /\ Put(t, Destroy(RpcGone(trans[t])))
    /\ UNCHANGED <<online, asked, live, traderMap, nextTid, started, ended>>

Expired(x) == Timeout[x.state] # Never /\ x.age >= Timeout[x.state]

MutReleaseObjectOnlyAlice(t) ==
    /\ live' = live \ {t}
    /\ Put(t, NoTrans)
    /\ traderMap' = [r \in Role |->
                       IF trans[t].party["Alice"] = r /\ traderMap[r] = t
                       THEN NoTid ELSE traderMap[r]]

\* ReleaseObject: a role stays in TraderMap if it is there for another trade.
ReleaseObject(t) ==
    /\ live' = live \ {t}
    /\ Put(t, NoTrans)
    /\ traderMap' = [r \in Role |->
                       IF (\E s \in Side : trans[t].party[s] = r) /\ traderMap[r] = t
                       THEN NoTid ELSE traderMap[r]]

\* Transaction::Update, run every second: the game server is told to end the
\* trade if it had started one, and the objects are released.
Update(t) ==
    LET x == trans[t]
    IN /\ t \in live
       /\ Expired(x)
       /\ ended' = IF x.onDestroy /\ x.state # "Init"
                   THEN ended \cup {t}
                   ELSE ended
       /\ ReleaseObject(t)
       /\ UNCHANGED <<online, asked, nextTid, started>>

RpcOverdue(x) == x.rpc # "none" /\ x.rpcAge > RpcTimeout

RpcTimesOut(t) ==
    /\ t \in live
    /\ RpcOverdue(trans[t])
    /\ PossessionFailed(t) \/ SaveDone(t)

MutOlderResets(x) ==
    [x EXCEPT !.age = 0, !.rpcAge = IF x.rpc = "none" THEN @ ELSE @ + 1]

\* One second passes.  Observers and the Rpc house keeper run every second, so
\* none is overdue when the next second begins.
Older(x) ==
    [x EXCEPT !.age = IF Timeout[x.state] = Never THEN @ ELSE @ + 1,
              !.rpcAge = IF x.rpc = "none" THEN @ ELSE @ + 1]

Tick ==
    /\ live # {}
    /\ \A t \in live : ~Expired(trans[t]) /\ ~RpcOverdue(trans[t])
    /\ trans' = [t \in Tid |-> IF t \in live THEN Older(trans[t]) ELSE trans[t]]
    /\ UNCHANGED <<online, asked, live, traderMap, nextTid, started, ended>>

\* What the players do.
PlayerStep ==
    \/ \E r1, r2 \in Role :
          \/ TradeStart(r1, r2)
          \/ \E dispatched \in BOOLEAN : TradeStartAgreed(r1, r2, dispatched)
    \/ \E t \in Tid, s \in Side :
          \/ UpdateGoods(t, s)
          \/ MoveObject(t, s)
          \/ \E fits \in BOOLEAN : Submit(t, s, fits)
          \/ \E exchanged, sent \in BOOLEAN : Confirm(t, s, exchanged, sent)
    \/ \E t \in Tid, sent \in BOOLEAN : Discard(t, sent)
    \/ \E r \in Role : Logout(r) \/ Login(r)

\* What other processes answer, and what the timers of gdeliveryd do.
ServerStep ==
    \/ \E r1, r2 \in Role : TradeStartRefused(r1, r2)
    \/ \E t \in Tid, s \in Side : AttachTrader(t, s) \/ AttachRefused(t, s)
    \/ \E t \in Tid : SetPossession(t) \/ PossessionFailed(t) \/ SaveDone(t) \/ Update(t)
    \/ Tick

Next == PlayerStep \/ ServerStep

\* Time passes, observers and the Rpc house keeper run: one timer thread does
\* all three.  Players and answers of other processes have no fairness.
Fairness ==
    /\ WF_vars(Tick)
    /\ \A t \in Tid : WF_vars(Update(t)) /\ WF_vars(RpcTimesOut(t))

Spec == Init /\ [][Next]_vars
FairSpec == Spec /\ Fairness

-----------------------------------------------------------------------------
\* Properties.

\* TraderMap holds bare pointers to Trader objects; a role in it always maps
\* to a Trader of a transaction that has not been released.
NoDanglingTrader ==
    \A r \in Role :
        traderMap[r] # NoTid =>
            /\ traderMap[r] \in live
            /\ \E s \in Side : trans[traderMap[r]].party[s] = r

Trading == {"SetPossession", "Exchange", "Ready_half", "Ready", "Confirm_half", "Confirm"}

\* A role's goods are in play in one trade at most, although transactions are
\* created before their traders are entered in TraderMap.
OneTradePerRole ==
    \A t1, t2 \in live :
        t1 # t2 /\ trans[t1].state \in Trading /\ trans[t2].state \in Trading =>
            \A s1, s2 \in Side : trans[t1].party[s1] # trans[t2].party[s2]

\* When a trade for which the game server moved a player to trade mode is gone,
\* the game server has been told that it ended, whatever path the trade took:
\* the state Init, which Discard returns to, ends silently when it times out.
EndIsAnnounced == started \subseteq live \cup ended

\* While both traders are bound to the result they saw, only the operations
\* that end the trade move it on: Ready never goes back to exchanging.
NoReturnFromReady ==
    [][\A t \in live :
         trans[t].state \in {"Ready", "Confirm_half"} =>
             trans'[t].state \notin {"Exchange", "Ready_half"}]_vars

\* Once the players stop acting, every trade ends, even when neither the game
\* server nor gamedbd answers any more.
EveryTradeEnds == <>[][~PlayerStep]_vars => <>[](live = {})

=============================================================================
