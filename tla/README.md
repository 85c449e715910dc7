# Verification of the game servers' economy, names and storage

The repository holds the servers of an online game: a connection front end (`glinkd`), account and
name services, the delivery server `gdeliveryd` that keeps players, trades and markets in memory, the
database server `gamedbd`, and the game server `gs` that simulates the world. This directory holds
TLA+ models of the parts in which players' goods, money and names are kept, the configurations that
check them with TLC, and proofs checked with TLAPS.

Four subsystems are modelled: the **player trade** (two players swap goods), the **stock exchange**
(players sell and buy cash for money), the **names of roles** (unique over all zones), and the
**storage layer** under all of them (transactions, checkpoints, recovery). The first three have the
shape that makes this code hard: a state machine in the memory of `gdeliveryd`, a database in another
process that answers late, twice or never, timers, logouts, and a restart that starts from the database
alone. The fourth is what lets the other three take a database handler for one atomic step.

- [1. The system](#1-the-system) – components, state, operations, what is hard
- [2. The modules](#2-the-modules) – how state and actions correspond to the code
- [3. The runs](#3-the-runs) – what TLC checks, on which bounds, under which fairness
- [4. The proofs](#4-the-proofs) – what holds for every value of the constants
- [5. Where code and documentation disagree](#5-where-code-and-documentation-disagree)
- [6. What is not modelled](#6-what-is-not-modelled)
- [7. Plan](#7-plan)

## 1. The system

### Processes and how they run

| process | sources | how it executes |
|---|---|---|
| `gdeliveryd` | `src/cnet/gdeliveryd` | Built with `SINGLE_THREAD=true` (its Makefile, line 4): one loop polls the sockets and runs one protocol handler, Rpc answer or timer observer at a time. **One handler is one action** in every model. |
| `gamedbd` | `src/cnet/gamedbd` | A pool of worker threads executes Rpc handlers (`gamedbserver.conf`: `threads = (1,15)`); a handler takes the locks of whole storages through its transaction. **One server handler is one action** in the models above the storage layer; that this is sound is what `StorageEnv` is about. Handlers of different requests run in any order. |
| `uniquenamed` | `src/cnet/uniquenamed` | The register of names and role ids, shared by all zones; the same storage layer and a pool of threads as in `gamedbd`. |
| `gs` | `src/cgame/gs` | The game world; talks to `gdeliveryd` by messages. |
| others | `src/cnet/{glinkd,gauthd,gfaction,...}` | Forwarding, accounts, factions. |

Processes talk by messages over TCP and by *Rpc* (`src/share/io/rpc.h`): `Rpc::Call` enters the
request in a map under a fresh id; the answer takes it out and runs `Client`; a house keeper on the
one-second timer takes out what is too old and runs `OnTimeout`; an answer nobody waits for is
dropped. So each Rpc ends in exactly one of `Client` and `OnTimeout`, a request that timed out may or
may not have been executed, and two handlers of one player may run between a request and its answer.

### Player trade

*State.* `TransMap` (trades) and `TraderMap` (role → its `Trader`, a bare pointer) in
`gdeliveryd/trade.h`; each `Transaction` has a state with a timeout and a table of permitted
operations, two traders with pocket (`possession`), offer (`exchg_obj`), money, and a flag that says
whether the pocket has been modified; `gamedbd` stores the pockets.

*Operations.* `TradeStart` asks the partner; its agreement creates a transaction in state Init and
asks `gs` to save both players and put them in trade mode; each `GTradeStart_Re` attaches a trader;
with both attached `TradeInventory` reads the pockets; the players add, remove and move goods, submit,
confirm or discard; at the end `TradeSave` stores both pockets and `GTradeEnd` releases the players.

*Interactions.* Players (messages), `gs` (`GTradeStart`, `GTradeStart_Re`, `GTradeDiscard`,
`GTradeEnd`), `gamedbd` (`TradeInventory`, `TradeSave`), the timer (`Transaction::Update`), logout
(`DiscardTransaction`).

*What is hard.* Transactions exist before their roles are entered in `TraderMap`, so two can race for
one role. A discarded trade returns to state Init – the one state whose timeout does *not* tell `gs`
that the trade ended – while its `TradeSave` is under way. Goods are moved before the money of the same
request is refused. Whether received goods fit depends on how stacks fill up. The result is generated
when both submit and installed when both confirm.

*Correct means:* no pointer in `TraderMap` outlives its `Trader`; a role's goods are in one trade; `gs`
always learns that a trade ended; trades end; offered goods have a place to return to; nothing is lost
or made; what `gamedbd` holds changes once at most, by exactly the offers both confirmed.

### Stock exchange

*State.* In `gdeliveryd/stockexchange.h`: `orders` (a multimap by price; a buy order has a negative
price), `volumes` per price, `pending` (deals that are matched but not settled), `accounts` (funds, a
lock, open orders), the pool of order ids, the status. In `gamedbd`: `cash` and `money` of each user, the
table of orders, and one row (`STOCK_BALANCE_ID`) with the lots that have been sold to nobody yet.

*Operations.* `PlaceOrder` locks the account, **matches first** and then stores the order
(`DBStockCommission`); each half of a deal is settled by a `DBStockBalance` of its own, one per `Update`
(twice a second); `PreCancel`/`PostCancel`, and a timeout of three days, cancel with a fee;
`PreTransaction`/`PostTransaction` move cash and money between the account and a pocket; login reads the
funds, logout forgets an account without orders; after a restart `OnLoad` and `AutoBalance` rebuild the
book and make up for deals of which only one half was settled.

*What is hard.* Lots live in memory, in requests under way and in the database at once. Commissions
and cancels are sent again when they time out, settlements are not. A commission that fails undoes
deals whose partners may be under way. The account lock is the only mutual exclusion and is taken and
released in different handlers. A crash forgets every deal.

*Correct means:* every lot of a stored order is on offer, in a deal or being cancelled, exactly once;
both halves of a deal stay together; nobody spends anything twice; the best orders are matched first,
to the last lot; ids in use are not given out; a restart repairs what was lost; deals get settled.

### Names of roles

*State.* In `uniquenamed`: `unamerole`, name → entry with the role that has it and a status (engaged,
used, obsolete), and `uidrole`, user → the slots of his roles in any zone. In the `gamedbd` of each zone:
the roles (`base`, the user's role list) and `rolename`, which keeps the names that were given up as
well. In each `gdeliveryd`: the Rpcs under way.

*Operations.* Creation: `PreCreateRole` reserves a name and a slot, `DBCreateRole` writes the role,
`PostCreateRole` turns the reservation into use or frees it. Deletion: `DBDeleteRole`, then
`PostDeleteRole`. Renaming: `PrePlayerRename` reserves, `DBPlayerRename` writes, `PostPlayerRename` confirms,
makes the old name obsolete, or frees the new one.

*Interactions.* Three servers and no transaction over any two of them; `gdeliveryd` drives, and when it
times out, it compensates.

*What is hard.* The requests of all zones meet in the register in any order. A timed-out request may still
be executed. The same deletion is asked for by several tasks. The order in which the confirmations of a
renaming, a deletion and a creation of one role arrive is nobody's.

*Correct means:* a name is held by one role and a role id by one zone; the register knows every name
a database holds; a request that is refused halfway leaves nothing reserved.

### Storage layer

*State.* In memory each table has pages, a mutex, and the undo log of the transaction that holds it
(`prepared`, `new_key`); each thread has a `ThreadContext` with its `storage_vec`, whether it is locked,
and a `cancel` flag; the checkpoint has copies of dirty pages. On disk: a data file per table whose first
page names a log, and log files whose first page holds the current record.

*Operations.* `GetStorage` collects tables, the first access locks them all in the order of their
addresses, `insert`, `del` and `find` work on memory and keep the undo log, the end of the outermost
`Transaction` releases table by table and, when cancelled, rolls back. `StorageEnv::checkpoint` locks all
tables, copies what is dirty and unlocks each at once, and then writes the copies through
`GlobalLogger::prepare` and `commit`. A start runs `integrity_verify` and, when a record was prepared, `redo`.
`removeoldlogs` deletes logs.

*What is hard.* The checkpoint runs beside transactions and unlocks tables one by one, as does a rollback.
Every order of mutexes matters. Each write of a checkpoint may be the last before a crash, also the
writes of the recovery.

*Correct means:* transactions are atomic and isolated; a checkpoint is the store of one moment; it is
saved whole or not at all, and what is saved stays recoverable; nobody waits for himself.

### The other components

| component | state | operations, and what could be stated of it |
|---|---|---|
| Rpc layer (`share/io/rpc.h`) | map of pending requests, timers | each request ends in one of answer and timeout; seen through its users |
| trade in `gs` (`playertrade.cpp`) | trade session of a player | leaves trade mode on `GTradeEnd`, re-reads the pocket |
| login (`mapuser.h`, `map.cpp`) | users and roles by state, locks of logged-out users | one session per user; kick-out and reconnect |
| cross-server travel | remote users, exchange of players | a role lives on one server at a time |
| auction, points shop, web trade, system auction | listings cached over `gamedbd` | as for the exchange |
| mailbox (`postoffice.cpp`) | boxes cached over `gamedbd` | attachments taken once |
| battles, territories | weekly schedules, scores | – |
| factions (`gfaction`) | members, roles in a faction | one master; joins and leaves agree with the roles |
| link and authentication | connections | forwarding |
| `gs` simulation, skills | the world | numeric simulation |

`PROJECT.json` lists every component with its sources, and the hazards with their lines.

## 2. The modules

```
   player trade                        stock exchange                  names

 TradeContract                          OrderBook                    RoleNames
      ^ implements                           |                           |
 TradeGoods   Transaction              StockExchange             RoleNamesProofs
   |    |          |                         |                           |
   |  TradeGoods- Transaction-         StockExchangeProofs               |
   |  Proofs      Proofs                     |                           |
 MergeInventory                              |                           |
      \______ AlgorithmLemmas, _______ OrderBook                         |
               AlgorithmProofs                                           |
 ---------------- a database handler is one transaction of ---------------------

 AtomicStore   <--implements--   StorageEnv        StorageEnvProofs
                                     | its step Save is one step of
 AtomicSave    <--implements--   GlobalLogger      GlobalLoggerProofs
```

| module | models | written from |
|---|---|---|
| `MergeInventory` | goods into a pocket | `gdeliveryd/trade.cpp` |
| `Transaction` | registry and life cycle of trades | `gdeliveryd/trade.h`, `trade.cpp` and the handlers |
| `TradeGoods`, `TradeContract` | goods and money of one trade, and what a trade promises | the same, `gamedbd/tradesave.hrp` |
| `OrderBook` | matching | `gdeliveryd/stockexchange.cpp` |
| `StockExchange` | memory, database and Rpcs of the exchange | the same, `gamedbd/dbstock*.hrp` |
| `RoleNames` | names and ids of roles over three servers | `uniquenamed`, `gdeliveryd`, `gamedbd` |
| `StorageEnv`, `AtomicStore` | transactions and checkpoints in memory, and what they promise | `share/storage/storagewdb.h` |
| `GlobalLogger`, `AtomicSave` | a checkpoint on disk, and what it promises | `share/common/db.h` |

`MC*` modules give constants their values; `MCAlgorithms` calls the pure operators of `MergeInventory` and
`OrderBook` on every small input. A definition named `Mut...` is a plausible mistake in the
definition that follows it; with it in place the named property of the named run is violated
(`mutants` in `PROJECT.json`), which shows that each property depends on what the code does.

### MergeInventory

`Trader::MergeInventory` (`trade.cpp:215`) as operators. A pocket is a sequence of stacks because the
code walks vectors; its loops are folds over the indices. `Merge(pocket, goods, capacity)` fills partial stacks in vector order (`TopUp`) and
opens the lowest free slots for the rest.

### Transaction

The registry and life cycle of all trades. `trans` holds the objects, `live` the keys of `TransMap`,
`traderMap` the `TraderMap`, `asked` the `TradeStartRqst`s that wait for a partner. `OptionPolicy` is
the option table of the states, `Timeout` their timeouts. Actions are handlers: `TradeStart`,
`TradeStartAgreed`, `AttachTrader`, `AttachRefused`, `SetPossession`, `PossessionFailed`, `UpdateGoods`,
`MoveObject`, `Submit`, `Confirm`, `Discard`, `Logout`, `SaveDone`, `Update` (timeout and release),
`Tick` (one second). The goods are abstracted to what the life cycle depends on: whether a result fits
(`fits`), whether anything is exchanged, whether a request could be sent (`sent`). `started` and `ended`
record what `gs` has been told.

### TradeGoods and TradeContract

The goods of one trade from the moment the pockets are read. A vector of items is the **set** of its
stacks; where vector order decides (in `Merge`) every order is possible, so the code's order is one of
them. Actions: `AddExchgObject`, `RemoveExchgObject`, `MoveObject`, `Submit`, `Confirm`, `Discard`,
`Abandon` (logout, timeout), `SaveDone`, and `StorePockets`, `gamedbd`'s `TradeSave`, which may run after
`gdeliveryd` gave up waiting. A request whose goods are accepted and whose money is refused changes the
goods and fails, as in the code.

`TradeContract` is what a trade promises of the holdings in the database: offers change within what is
owned, agreement freezes them, and then the holdings are swapped once or never. `TradeGoods` implements
it under the mapping `holding` = totals of what `gamedbd` stores, `offer` = totals of the offers,
`agreed` = both traders CONFIRM, `swapped` = a confirmed save has been stored.

### OrderBook

`PriceMatching`, `AutoBalance`, `ReduceVolume`, `Insert`, `FindOrder` on a record of the three containers
they change. `orders` is a sequence in ascending price, equal prices in insertion order, which is what
the multimap is; `MatchOne` is one turn of the loop. Spent orders (volume 0) stay in the book until they
are settled or cancelled, as in the code.

### StockExchange

Memory of `gdeliveryd`, database of `gamedbd` and the Rpcs between them (`calls`, in the order sent).

| code | model |
|---|---|
| `PlaceOrder` + `StockCommission::Process` | `PlaceOrder`; `PlaceOrderBusy` when the account is locked: the id has been taken and is kept |
| `PreCancel`, `CancelOrder` | `PreCancel`: locks, then looks whether the order is being traded |
| `PreTransaction` | `PreTransaction` |
| `Update` with `CheckTimeout` | `Update(old)`: sends the first deal whose account is free, drops the settled ones before it, cancels the order at the place `old` of the book, one that is too old, or none (0) |
| `DBStock*::Server`, `GetUser` in `gamedbd` | `ServeCommission`, `ServeBalance`, `ServeCancel`, `ServeTransaction`, `ServeGetUser`; `ServeFails`: the storage throws before anything is written |
| `DBStock*::Client` | `OnCommission`, `AbortCommission`, `OnBalance`, `BalanceFailed`, `PostCancel`, `CancelFailed`, `PostTransaction`, `OnLogin` |
| `DBStock*::OnTimeout` | `RpcTimesOut`: commissions and cancels are sent again, the others are given up |
| lock older than 1200 s | `LockExpires` |
| `OnLogout`, `GetUser` call | `Logout`, `Login` |
| process ends; `OnLoad` + `Open` | `Crash`, `Load` |

Abstractions, each chosen because no property looks behind it:

- The cash password and the yearly limits on cash bought and sold only refuse a request, which changes
  nothing. The deal log and the turnover figures are not read back.
- The pocket of a role on the other side of `DBStockTransaction` is not modelled: a transfer adds to or
  takes from the account.
- Money is computed in the integers; for the amounts in the runs `(int)(1.02*x)` is exact. The one place
  where the two floating-point expressions of the code differ, the check in `PlaceOrder`, is
  `SellCheck`, with the volumes that are rounded down as a constant.
- A timed-out request that has not been executed is lost. Requests to `gamedbd` travel in order over one
  connection, so none is executed after the same request was sent again.
- A lock does not expire while a request about the account is still being sent again, that is, an
  outage of `gamedbd` is shorter than 1200 s.
- After a crash the requests of the old process that `gamedbd` has received may still be executed, all
  of them before the orders are loaded.
- The orders are loaded in one page (the code asks for up to 257 rows at a time) and the load succeeds.
- `gamedbd` itself does not crash.

Deposits (`PreTransaction` with `withdraw` FALSE) are in the model and in none of the runs: with one
deposit beside orders and withdrawals the instances are too large. The runs withdraw.

### RoleNames

Three servers as `register` (`unamerole`, `uidrole`), `database` (`roles` and `obsolete` of each zone) and `calls`,
the requests under way. A request moves through its handlers: `CreateRole`, `ServePreCreate`, `OnPreCreate`,
`ServeDBCreate`, `OnDBCreate`, `ServePostCreate` or `ServePostCreateFailed`, `OnPostCreate`; the same for `DeleteRole` and
`Rename`. `Serve...` is the server's handler, `On...` the `Client` of `gdeliveryd`, `...TimesOut` its `OnTimeout`. An
answer to a request in phase `orphan` is dropped, as by `Rpc`.

| in the code | in the model |
|---|---|
| `gdeliveryd` runs one handler at a time; the pools of `gamedbd` and `uniquenamed` run several, each in one transaction | a handler is one action, requests are served in any order |
| a name is compared after `TransformName` | a name is its transform |
| role id = 16 × (logicuid / 16) + slot | a pair of user and slot; users with a userid that is a logicuid are in `OldUser` |
| timeouts of 15, 20 and 60 s | may happen at any time, at most `MaxFaults` of them |
| `RoleList::AddRole` | the lowest free slot |
| `DBCreateRole` finds the role there and returns its name | `found` |
| checks of the class, of the item that pays, storage errors | `Refuse` at any time, nothing changed |
| rollback refused when the role is older than 300 s | refused or not |
| a role is deleted `Role.delete_timeout` after it was marked | no other request about it is under way, except deletions |

`Spec` is the protocol while the writes in the databases are answered before `gdeliveryd` gives up on them;
reservations, deletions and confirmations may time out. `LateSpec` adds what `gdeliveryd` does when such a
write is late. A crash is one of a `gdeliveryd`; a crash of `uniquenamed` or `gamedbd` that loses what was
written since its last checkpoint is not in the model.

### StorageEnv and AtomicStore

`StorageEnv` has the worker threads (`GetStorage`, `Lock`, `Insert`, `InsertNew`, `Del`, `FindFails`, `Abort`, `Leave`, `Release`), the
thread of the checkpoint (`LockTable`, `SnapshotCreate`, `Save`, `SnapshotRelease`) and `Crash`. A mutex is taken and
released one at a time; between the two a thread has its tables to itself, so an access to a table is one
action. Two constants open it to what only some handlers do: tables of `Late` may be fetched after the
lock, and `SaveOutcomes` says what writing a checkpoint can return. A record stands for the page it is on.
`InsertNew` (`NOOVERWRITE`) is not called for a key the same transaction has deleted, since no handler does; it
would be put back and deleted by a rollback.

`AtomicStore` is what handlers expect: a transaction begins on tables nobody else holds, sees them as
committed, and ends with all its writes or none; a crash leaves the contents of the store between
transactions, at one moment. In the mapping a transaction begins when the last mutex is locked and,
for each table, ends when the transaction starts to release (without `cancel`) or when the undo log is applied
(with it). The image of a checkpoint is what is copied, and what will be copied of tables that are still
locked.

### GlobalLogger and AtomicSave

The steps of `StorageEnv::Save`, each a write that a crash may follow. `SnapshotCreate`, `Rotate`, `StartRecord`,
`SavePages`, `Prepared` are `prepare`; `MarkTable` (the old first page with the new log), `RestorePage`, `FinishTable` (the new
first page), `Finish` are `commit` and, after `Start` found a prepared record, `redo`; `RemoveLogs` is
`removeoldlogs`. `Recovered` is what a restart would make of the files; it is `durable` of `AtomicSave`, whose `Save`
is one step. The module assumes that writes reach the disk in the order they are made (a process crash,
not a loss of power), that the clock does not go back, that no write fails and that every table has been
through a checkpoint.

## 3. The runs

States are distinct states. The pure algorithms, the trades, the
exchange and the names come to rest in every behaviour, because bounds end them and players may stop, so
deadlock is not checked there. In `storage` and `logger` it is, but a crash is always possible; what a
deadlock would be is `NoCircularWait`.

| run | question | bounds, and why they suffice | states |
|---|---|---|---|
| `algorithms` | Does `MergeInventory` lose, make or overfill anything, and refuse only for want of space? Is a price-time book matched to the last lot, and does a reload balance it? | a stackable (3) and a single item, up to 3 slots, up to 3 received goods, every vector order: partial stacks, several of one kind, splitting, opening slots, too little space. Every book of up to 4 orders, 2 prices on both sides, volumes 0 to 2, and every incoming order; every balance from −2 to 2 the book can serve | 338 k |
| `trades` | Races of trades for roles, answers, logouts and timeouts; do trades end? (`FairSpec`) | 2 roles, 2 trades that want both, 1 request waiting; timeouts scaled so that each can be reached, keeping that an Rpc times out before state Init does | 155 k |
| `goods` | Goods and money of one trade, and the refinement of `TradeContract` | four pockets of two slots with which a result fits only by filling stacks, or not for space, or not for money; a good that may not be traded; requests for any stack, amounts 0 and 1 | 280 k |
| `exchange` | Is every lot accounted for once, do memory and database agree, and can anything be spent twice, when a commission may be refused, lost, or executed with its answer lost? | a seller of two lots and a buyer of as much, two prices, volumes 1 and 2 (partial and multiple matches), 3 order ids, a withdrawal of all a lot needs, one fault: the smallest case with a deal of a refused order whose partner is under way | 253 k |
| `exchange_restart` | Does a reload repair what a lost settlement and a crash left, and are ids in use kept across wrap-around and restart? | one lost or refused settlement or cancel, one crash, in any order, requests of the old process executed or not; `MaxOrderId` 4 (two usable ids), 1 id skipped on opening instead of 86 | 342 k |
| `exchange_settles` | Does every deal get settled, with the seller logging out and in? (`FairSpec`) | 2 orders, nothing fails | 12 k |
| `storage` | Are transactions atomic and isolated beside a checkpoint, and can anybody wait for himself? | 2 workers and the checkpoint over 2 tables of one page: two transactions that want each other's table, a rollback beside a commit, a checkpoint between any two steps | 231 k |
| `logger` | Is a checkpoint saved whole or not at all, and found again? | 2 tables of 2 pages (the first and another), 2 values, 2 logs of 2 records: two checkpoints in one log, one after a rotation, a crash at each write and in the recovery, a log name that is used again after a crash | 1.15 M |
| `names` | Is a name or an id ever held twice, or lost? | 2 zones and 2 users that compete for 2 names, one slot each, 4 requests of players, 3 under way at once, one fault: a reservation, a renaming, a deletion and a creation of one role can be in every order | 281 k |

Three more runs show a violation; section 5.

### What the properties say

*Trade registry.* `NoDanglingTrader`: a role in `TraderMap` maps to a trade that is live and has it as a
party. `OneTradePerRole`: no role has its goods in two trades, although transactions are made before
roles are attached. `EndIsAnnounced`: a trade `gs` started is live or `gs` was told of its end, on every path.
`NoReturnFromReady`: from Ready on, nothing but an end. `EveryTradeEnds`: with `gamedbd`, `gs` and the players
silent or not.

*Goods.* `OfferedHasHome`, `OneStackPerSlot`, `MoneyKept`, `GoodsKept` (pocket and offer are what was read),
`ResultIsCurrent` (what was generated at the second submission is what the offers still come to at the
second confirmation), `SaveAccepted` (`gamedbd`'s own sum check never refuses), `KeepsContract` (refinement).

*Merging.* `RefusedOnlyForSpace`, `MergeConserves`, `ResultIsAPocket`.

*Matching.* `MatchedToTheLimit`, `BestOrderFirst`, `DealsAddUp`, `LoadBalances`,
`LoadUncrosses` – each against a definition by sets that does not follow the loop.

*Exchange.* `NothingForgotten`: a stored order's lots are those on offer, in unsettled deals and being
cancelled. `BalanceCovered`: the balance
row plus the halves under way is zero. `FundsCovered`: in the database everybody owns what his open orders
may cost, taxes included. `AccountAgrees`: funds and orders in memory are those of the database whenever no
request about the account is under way. `OneCallPerAccount`, `IdsHeld`, `VolumesAgree`, `CancelHasOrder`
(otherwise `PostCancel` would use an uninitialized price), `RestartRepairs` (a `Load` step ends in a
state with `BalanceCovered` and `NothingForgotten`), `DealsSettle`.

*Names.* `UniqueNames`, `UniqueRoleids`, `NamesRegistered` (a name that is in a database, given up or not, is never
free in the register), `AgreeAtRest` (without faults, once nothing is under way, the register holds
exactly the names and slots of the databases).

*Storage.* `Implements` (`StorageEnv` implements `AtomicStore`), `NoCircularWait` (no set of threads waits for
mutexes held within the set), `SavedAtOnce` (`GlobalLogger` implements `AtomicSave`), `FilesWhole` (handlers run on, and
snapshots are taken of, what a restart would find), `LogKept` (the newest log the data files name exists).

Some of these are claimed only where they hold. `AccountAgrees` and `NothingForgotten` (outside a `Load`
step) are checked in `exchange`, where only commissions fail. Neither survives a cancel whose answer is
lost: the second answer is NOTFOUND with funds of 0, which memory takes over. `FundsCovered` is
claimed without logins: a login may bring in funds that are one settlement old (`OnLogin` overwrites
unconditionally), and with that a player can be served twice. `NothingForgotten` needs that no commission is both
executed and, sent again, refused. `LoadUncrosses` needs a balance of 0: otherwise `AutoBalance` may stop
at a sell order that the balance has just spent. `UniqueNames` and
`UniqueRoleids` are claimed for `Spec`, not `LateSpec`, and `UniqueRoleids` for `OldUser` = {}; `AgreeAtRest` without faults;
`Implements` without late tables and failing writes. What they do not cover is
in the list of hazards, at its lines, with a note in the place of a property.

### Fairness

`RoleNames`, `StorageEnv` and `GlobalLogger` state no fairness and no liveness. The other two:

- `Transaction`: weak fairness of `Tick`, `Update(t)` and `RpcTimesOut(t)`. All three are run by the timer
  of the one loop, which polls with a timeout; nothing else is fair: players, `gs` and `gamedbd` may
  stay silent for ever.
- `StockExchange`: weak fairness of `Update(0)` (the 500 ms timer), of serving and receiving some request
  (the workers of `gamedbd` and the loop; requests are finitely many once players stop, so none
  starves), and of `LockExpires` for each user (a lock ages with the clock). `DealsSettle` assumes that
  players stop sending requests, not that they log out; it needs `LockExpires` because a refused cancel
  leaves a lock behind (section 5).

## 4. The proofs

Eight modules, checked by tlapm with SMT, Zenon and LS4; nothing is assumed but the named assumptions on
constants, and those of single theorems that are named below.

**TransactionProofs**, for any roles, number of trades and timeouts, assuming `ConstantsAssumption`
(Null expires at once, Confirm never, the others after some time, and `RpcTimeout + 1 < Timeout["Init"]`;
the code has 20 s and 300 s).

| theorem | states |
|---|---|
| `TypeCorrect` | `Spec => []TypeOK` |
| `TradersAreAlive` | `Spec => []NoDanglingTrader` |
| `OneTrade` | `Spec => []OneTradePerRole` |
| `EndAnnounced` | `Spec => []EndIsAnnounced` |
| `NoWayBack` | `Spec => NoReturnFromReady` |

The inductive invariant `Inv` is one statement `Sound(t, trans[t])` per live trade and three on the maps.
`Sound` says that a trader that has been attached is the one `TraderMap` knows, that a trade with goods in
play has attached both, and that a started trade in state Init is waiting for a `TradeSave` older than
that state. The first two give `OneTradePerRole`; the third is needed for `EndIsAnnounced`: a
discarded trade in Init must be destroyed by its Rpc before the state times out silently, which is
where the assumption on the timeouts is used. Most handlers change one transaction and no map: `PutKeepsInv`
reduces them to `Sound` of the new value. `Tick`, `AttachTrader`, `TradeStartAgreed` and `Update` change maps or
all trades and have proofs of their own. `NoWayBack` follows from `Inv` step by step: each handler leaves a
bound trade bound or is one that ends it, and a trade that is destroyed is not live.

**TradeGoodsProofs**, for any ids, stack limits, pockets, capacity and requests (`GoodsAssumption`).

| theorem | states |
|---|---|
| `OneStackPerSlotHolds` | `Spec => []OneStackPerSlot` |
| `OfferedHasHomeHolds` | `Spec => []OfferedHasHome` |
| `MoneyKeptHolds` | `Spec => []MoneyKept` |
| `ResultIsCurrentHolds` | `Spec => []ResultIsCurrent` |
| `GoodsKeptHolds` | `Spec => []GoodsKept` |
| `SaveAcceptedHolds` | `Spec => []SaveAccepted` |
| `KeepsContractHolds` | `Spec => KeepsContract` (refinement of `TradeContract`) |

The first three are inductive only together. That a request finds one stack needs one stack per slot;
that a stack in the offer is one stack needs the home of each offer; a move leaves homes alone because it
refuses slots that something is offered from. The set lemmas (`LessKeeps`, `MoreKeeps`, `OfferKeeps`,
`TakeBackKeeps`, `MovedKeeps`) state that for each operation. `ResultIsCurrent` is inductive by itself:
whatever changes an offer or a pocket is not permitted in the states Ready and Confirm_half.

The other three are about totals, over those four. `GoodsInv`: pocket and offer together come to what `gamedbd` holds;
each operation takes from one set of stacks what it adds to the other (`LessSum`, `MoreSum`), and that sets
of stacks are finite follows from one stack per slot. `PocketsInv` adds that the pockets keep to their slots,
from which `BackFits` concludes that an offer that is given back always fits: it needs at most the slots of the homes, which is
why `Discard` may ignore the result of the merge. `SaveInv` says that a save under way adds up: for a discarded trade because
each trader gets his own offer back, for a confirmed one because a successful merge makes exactly the totals of its inputs, in
any order of its vectors. `ContractInv` ties the save to the offers both confirmed: with it the `StorePockets` of
a confirmed trade is the contract's one swap, and every other step changes an offer the contract lets change, or nothing.

**AlgorithmLemmas** and **AlgorithmProofs**, for pockets, goods, books, orders and balances of any size
(`MaxCountAssumption`, `BoundsAssumption`): the invariants of the run `algorithms`.

| theorem | states |
|---|---|
| `MergeConservesHolds`, `ResultIsAPocketHolds`, `RefusedOnlyForSpaceHolds` | what `MergeInventory` returns |
| `MatchedToTheLimitHolds`, `BestOrderFirstHolds`, `DealsAddUpHolds` | what `PriceMatching` does to a book |
| `LoadBalancesHolds`, `LoadUncrossesHolds` | what `AutoBalance` does to a loaded book |

The models write every loop as a fold. A library theorem says that `<` on the naturals, and strict inclusion on the
subsets of a finite set, are well-founded: a set that has a member has a least one. From this `LeastNatural` and its like follow
and, for each fold, a lemma that unrolls it into the sequence of its intermediate values (`MatchingTable`, `LoadedTable`,
`TopUpFills`, `KeptKeeps`). An invariant of the loop is then proved by looking at the first turn after which it would fail. The
loop invariants are those one would write beside the C++: what has been taken so far from the orders passed; that a
partial stack is full before the next is looked at; that slots are opened from the lowest free one. Sums over sets and sequences
have their own lemmas (one value changed, one member more or less, renamed members), which TradeGoodsProofs uses as well.

**StockExchangeProofs**, for any users, orders, prices, volumes, transfers, funds, and bounds on ids, orders and money
(`ExchangeAssumption`; prices are multiples of 100, as `PlaceOrder` checks).

| theorem | states |
|---|---|
| `LockExcludes` | `Spec => []OneCallPerAccount`, if `Travellers` = {} (nobody logs out) |
| `NothingForgottenHolds` | `Spec => []NothingForgotten`, if `Undisturbed` |
| `FundsCoveredHolds` | `Spec => []FundsCovered`, if `Undisturbed` |
| `AccountAgreesHolds` | `Spec => []AccountAgrees`, if `Undisturbed` |
| `BalanceCoveredHolds` | `Spec => []BalanceCovered`, if `Undisturbed` |
| `VolumesAgreeHolds` | `Spec => []VolumesAgree`, if `Undisturbed` |
| `IdsHeldHolds` | `Spec => []IdsHeld`, if `Undisturbed` |
| `TypeOKHolds` | `Spec => []TypeOK`, if `Undisturbed` |

`LockExcludes` allows lost, refused and repeated Rpcs and crashes of `gdeliveryd`. Its inductive invariant `Inv` says of the requests
that at most one per user is busy (waited for, and not a login's) and that only a request that is waited for has
been answered, and of the accounts that the user of a busy request has a locked one. It has to speak of the requests'
form as well, because a commission that fails touches accounts of other users: their deals are undone, and `Confirmed`, `Undone`
and `GivenBack` are shown to leave every lock as it is. An answer unlocks one account, that of the one busy request it
takes away; a lock expires only when there is no such request; a crash leaves requests nobody waits for. The hypothesis is needed:
with a logout between request and answer the erased account comes back unlocked (`exchange_relogin`).

`Undisturbed` is the exchange in service: no Rpc fails (`FailingOps` = {}), `gdeliveryd` does not crash (`MaxCrashes` = 0), nobody
logs out (`Travellers` = {}), the check of a seller's cash is exact (`RoundedDown` = {}, section 5), and there are a user and
a price. What is left is what makes it hard: orders are placed, matched, partly matched, stored, settled half by half and
cancelled, funds are withdrawn and deposited, and the requests of different users are served and answered in any order.

The seven invariants hold for one reason. `ExactInv == Inv /\ ExactNow` says where every lot is, by a set and six functions of
ids that exist in each state: which ids the book has (`H`), whose order an id is and at what price (`x`), and, per id, the lots on
offer (`b`), in deals not yet sent (`d`), in the database (`r`), shown by the account (`a`), and in the half that is being settled (`g`).

- *Ledger.* If no request is about order t, then b[t] + d[t] = r[t] = a[t]. If one is, `Settling` gives the difference: before a
  commission is stored r is 0 and d what was matched; a half under way is in r until it is served and in a until it is answered; an
  order being cancelled has no lots in b and d. There is at most one such request, since the lock of its owner excludes others: this
  is where `Inv` is needed, and why the difference never takes more than one term.
- *Deals and requests* (`Sends`). Each deal with status BALANCE_WAIT has its request, and each request to settle its deal.
- *Funds.* `FundsAre`: an account shows the funds of the database, or the answer under way does. `Covered`: those funds pay for all rows with tax,
  and for what was promised to a request when it was sent: an order not yet stored, a withdrawal not yet served. A settlement keeps the rows covered
  because nobody pays more than his price (`FairPay`, which holds of every deal by the lemmas on `PriceMatching` in
  AlgorithmLemmas) and because prices are multiples of 100, for which the tax on a sum is the sum of the taxes.
- *Halves* (`HalvesMeet`). The balance row, the halves not sent and the halves sent but not served add up to zero; matching adds both halves of
  a deal at once, and serving one moves it into the row.
- *Ids* (`IdsAre`). Every id with lots, in the book, in a deal or in a request is held.

Hardly one of the seven is inductive without the others. `NothingForgotten` needs `FundsCovered`: `DBStockCancel` refuses a cancel whose fee
the funds do not pay, and the order would be gone from the book and not from the database. `FundsCovered` needs
`AccountAgrees`, since orders are checked against what memory shows; that needs the ledger; and `IdsHeld` keeps a new order from being taken
for an old one. So the proof is one. It is cut by change and not by invariant: `World` states the
invariant over any values of the variables, and lemmas say what it takes for one order to enter the book, for one deal to be sent, for
one request to hand on to the next (`Handed`, `WorldHanded`), to change the funds of one user or the row of one order. Each action is then a composition
of such changes (`PlaceOrderExact`, `UpdateExact`, `ServeBalanceExact`, `OnBalanceExact`, ...), and `ExactSays` draws the seven conclusions.

**StorageEnvProofs**, for any threads, tables, keys and values, with any `Late` and `SaveOutcomes`.

| theorem | states |
|---|---|
| `TypeCorrect` | `Spec => []TypeOK` |
| `NoCircularWaitHolds` | `Spec => []NoCircularWait` |

The inductive invariant says what each phase of a thread implies for the mutexes it holds: a thread that
is locking holds exactly the tables of its `storage_vec` before the one it waits for. A set of
threads that waited within itself would have a member that waits for the highest table, and whoever holds
that table waits for a higher one.

Under `CleanAssumption` (`Late` = {}, `SaveOutcomes` = {TRUE}), `StoreImplements` states the refinement,
`Spec => Implements`. The invariant adds who holds what: an undo log is empty unless a worker holds the table,
a page that is not dirty is what the data file holds once the copies under way are in it. Each action is a step of `AtomicStore` or a stutter; the interesting ones are `Lock` (its last
mutex opens the transaction), `Leave` (ends it, unless cancelled), `Release` (a rolled back table becomes what it was for
everybody, which is no change of the mapped state) and `SnapshotCreate` (no change: the image already
counted the pages that were about to be copied).

**GlobalLoggerProofs**, for any tables, pages, values, logs and length of a log.

| theorem | states |
|---|---|
| `LogIsKept` | `Spec => []LogKept` |
| `FilesAreWhole` | `Spec => []FilesWhole` |
| `CheckpointIsAtomic` | `Spec => SavedAtOnce` |

The invariant relates the current record, the tables that are still `left` and the files: a table that is not
left agrees with the record; one that is half restored is named by `logger_id`, so that a crash finds the
same record again. That the first page is marked before any other page is copied is what makes it
inductive.

**RoleNamesProofs**, for any zones, users, slots, names and requests under way.

| theorem | states |
|---|---|
| `TypeCorrect` | `Spec => []Typed` (`TypeOK`, and the form of the requests) |
| `NamesAreUnique` | `Spec => []UniqueNames` |
| `NamesAreRegistered` | `Spec => []NamesRegistered` |
| `RoleidsAreUnique` | `Spec => []UniqueRoleids`, if `OldUser` = {} |
| `NothingIsLost` | `Spec => []AgreeAtRest`, if `OldUser` = {} |

The invariants are two pairs. `NamesHeldOnce` and `NamesKnown`: every name has at most one holder – a role, a
zone that gave it up, or one request that carries it – and a held name is not free in the register.
`IdsHeldOnce` and `IdsKnown`: the same for ids. Every action is one of five kinds: it changes no holder, a
request reserves what is free, a request frees what only it holds, a request gives what it holds to a role, or
takes it from the role it deletes. Each kind is shown to preserve the pair once, and each action to be of
its kind.

`NothingIsLost` needs the converse: what the register has taken has a holder. A request therefore passes on what it
held, to the next request, the database or the free names. One step could leave a name taken for nobody: a confirmation
(`PostCreateRole`, `PostPlayerRename`) that is served when its role has been deleted and its name freed. The invariant `Kept`
excludes it by two facts: what is being confirmed is in the database, and nothing else is under way about a role that is
being deleted. The second rests on the way deletions are asked for, `Role.delete_timeout` after the role was marked.

**Only model-checked.** Liveness (`EveryTradeEnds`, `DealsSettle`), which rests on fairness and ENABLED.

Of the exchange, what happens when Rpcs fail or are lost, `gdeliveryd` crashes, users log out, or a cost is rounded down: the
theorems above exclude it, and the runs `exchange` and `exchange_restart` check what still holds then (`RestartRepairs` among it).
The exact invariant has no counterpart there: a commission that is given up undoes deals by their id, whatever
has become of them; a lost answer leaves a difference that no request explains any more; after a crash the
memory is empty and a login may bring in old funds. Some of the seven are then false (see *What the properties say*),
and the others would need inequalities in the place of these equations.

`CancelHasOrder` is model-checked only (`exchange_settles`, in which the seller logs out and in between a cancel and its answer,
nothing fails and the ids do not wrap around). Without logins it would follow from the ledger, but logins and logouts are what
it is about (`stockexchange.cpp:602`), and a login rebuilds an account from what `gamedbd` read some time before.

What recursive functions and folds compute for *every* input is proved by least counterexamples (AlgorithmLemmas), because
the provers cannot instantiate an induction theorem.

## 5. Where code and documentation disagree

| run | shows |
|---|---|
| `exchange_relogin` | `AnswersFindLock`: logout erases a locked account without open orders, login makes a new, unlocked one; the answer then reports the error "account is not locked" (`stockexchange.h:101`). |
| `storage_late` | `UndoIsOwned`: `UpdateMemberUnifid`, called inside the transaction of `gamedbd/dbmnfactionbattleapply.hrp:95`, fetches another table (line 222) when the transaction is locked already. `ThreadContext::lock` returns at once, so the table and its undo log are written without its mutex. |
| `names_late` | `RenameResultIsTold`: when `DBPlayerRename` times out, `gdeliveryd/dbplayerrename.hrp:167` tells `uniquenamed` that it failed, which frees the new name, although `gamedbd` may have renamed the role or may do so later. The comment at line 165 says that the result of the renaming is reported. |

Three more were met while modelling; no run is kept for them:

- A request to add or remove goods that is refused for its money (ERR_TRADE_ADDGOODS, ERR_TRADE_RMVGOODS)
  has changed the offered goods already (`trade.cpp:127`); the partner's submission stands and nobody is told.
  What is swapped is still what is offered, and both must confirm.
- `(int)(1.02*v*100)` is 509 for five lots, the settlement takes 510 (`stockexchange.cpp:417`). A seller with
  exactly 509 ends with −1, which `getuser.hrp:134` calls an invalid account and refuses at every login.
  With `RoundedDown` = {5}, `Volume` = {5} and 509 of cash TLC finds `FundsCovered` violated.
- A cancel that is refused because the order is being traded leaves the account locked for 1200 s
  (`stockexchange.cpp:463`), although no request is under way and no error occurred.

## 6. What is not modelled

Besides the abstractions of section 2: integer widths of money, a handler of `gamedbd` that throws between
two writes without aborting its transaction (what `AtomicStore` says then is that the first write
stays), failing disks, the pages and B-trees of tables, backups and the tools that restore an old version,
the side of the trade in `gs`, and all components of the last table of section 1. The simulation, the
skills and the configuration-driven schedules are out of a model checker's reach or not worth one; they are
most of the repository's lines.

`PROJECT.json` lists the 40 hazards that matter most. Others that were seen, at their lines:

| where | what |
|---|---|
| `gdeliveryd/gtradestart_re.hpp:33` | an answer of `gs` that comes after the trade was released is dropped; that player stays in trade mode until `gs` itself gives up |
| `inl/tradesave:1` | `TradeSave` carries at most 16384 octets, `TradeInventory` 131072: a pocket that can be read may be too large to be stored |
| `stockexchange.cpp:64` | an iterator is used after its element was erased |
| `stockexchange.cpp:110` | the limit of money looks at the price asked, not at the better one matched |
| `stockexchange.cpp:371` | `ack_money` is an `int` that sums price times volume |
| `stockexchange.cpp:439` | the id of an order refused for a locked account is never freed |
| `stockexchange.cpp:555` | two crossing orders that are placed while neither is stored do not see each other; the book stays crossed |
| `gdeliveryd/dbstockload.hrp:37` | a load that fails is retried from the start over what is loaded |
| `storagewdb.h:642-654`, `732-733`, `743`, `250` | a checkpoint whose write fails: dirty marks are lost, a prepared record stays, a mutex is not given back |
| `db.h:489`, `1042-1044` | a page copied for a checkpoint counts as clean at once: `cleanup`, called by a walk before the commit (`1565`, `1589`), may evict it, and what is read back is the old page |
| `db.h:2088`, `2036-2043` | a table that never went through a checkpoint is skipped by `redo`; a record at the end of a full log is read past its room |
| `gamedbmanager.cpp:463-497` | a nested transaction whose exception is swallowed has cancelled the outer one (reached from `dbundodeleterole.hrp:53`) |
| `gdeliveryd/postcreaterole.hrp:41-49` | `PostCreateRole` is sent again for ever |

## 7. Plan

In the order in which they matter.

1. *Player trade*: `MergeInventory`, `Transaction`, `TradeGoods`, `TradeContract` and their proofs – done.
2. *Stock exchange*: `OrderBook`, `StockExchange` – done; proofs in item 5.
3. *Storage layer*: `StorageEnv`, `GlobalLogger`, their abstract specifications and proofs – done. Left: a
   checkpoint that fails (`SaveOutcomes` = {TRUE, FALSE}) and what must hold of the store then.
4. *Names of roles*: `RoleNames` and its proofs – done. Left: restarts of the databases at their last
   checkpoint, with `AtomicStore` in the place of `roles` and `unamerole`; names of factions and families, which
   follow the same protocol.
5. *Proofs about the exchange*: `LockExcludes`, and seven invariants of the exchange in service – done.
   Left: the same with refused commissions (as in the run `exchange`; the undone deals must be shown to be unsettled, for which ids must
   not wrap around meanwhile); with logins, logouts and refused commissions, `CancelHasOrder` (an account keeps at least the lots that
   its orders have in the book and in deals, and an order being cancelled has none there); and, with any faults and crashes, `IdsHeld`,
   `VolumesAgree` and `RestartRepairs` from an invariant in inequalities.
6. *An abstract exchange.* A contract like `TradeContract`: funds and open orders of users, with one atomic
   deal, that the two halves of `StockExchange` implement up to the balance row.
7. *TradeProtocol.* `gdeliveryd`, `gs` and `gamedbd` composed: a `GTradeStart_Re` that comes after the trade
   is gone and is dropped, a `TradeSave` that is late when `gs` re-reads the pocket. Properties: a player in
   trade mode always leaves it; what `gs` plays on with is what the database holds.
8. *Rpc.* The pending map, its house keeper and duplicates as a module: each request ends in exactly one
   of answer and timeout, ids do not collide on wrap-around; the other modules use what it promises.
9. *LoginSession.* The states of a user through login, kick-out and reconnect: one session per user, and a
   logout always frees the account. Then the other markets, as far as they differ from the exchange.
