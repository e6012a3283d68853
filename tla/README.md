# Formal verification of hyper_coberturas

TLA+ models of the server of this repository, the TLC configurations that check
them and the TLAPS proofs about them. Paths are those of the repository
(`server/src/...` is `src/server/src/...` in `PROJECT.json`); line numbers refer
to the commit the models were read from.

The program hedges liquidity positions: users provide liquidity on Uniswap and
the server keeps short or long positions on Hyperliquid against them. It is one
Node process per deployment (or several, sharing PostgreSQL). Within a process
everything runs on one event loop, so a block between two `await`s is atomic and
whatever another caller does, it does between two blocks. The models follow
this: **one action is one block, from one await to the next.**

Contents: [system](#1-the-system), [plan](#2-plan),
[modules and code](#3-the-modules-and-the-code), [runs](#4-what-the-runs-show),
[fairness](#5-fairness), [proofs](#6-proofs),
[disagreements](#7-where-code-and-words-disagree),
[what is not modelled](#8-what-is-not-modelled).

## 1. The system

### Parts, their state and their operations

| Part | State | Operations | Talks to |
|---|---|---|---|
| **Per-key mutex** `utils/keyed-mutex.js` | a `Map` from key to the promise of the last caller | `runExclusive` | used by the hedge engine (a lock per hedge) and `leverage.mutex.js` (a lock per account and asset) |
| **Per-key limiter** `utils/keyed-limiter.js` | queue, active keys, waiters for idle | `run`, `idle`, `_pump` | used by the evaluation loop of the delta-neutral protections |
| **Hedge engine** `services/hedge.service.js`, `hedge-monitor.mixin.js`, `hedge-cycle.mixin.js`, `hedge.state.js` | `this.hedges` (one object per hedge: status, order ids, retries, cycle count), flags of work under way | create, cancel, retarget, change the exit, fills (`onFill`), prices (`onPriceUpdate`), the 30 s monitor, `init` after a restart | Hyperliquid over REST, its websocket (fills and prices), the tables `hedges` and `cycles`, the mutex |
| **Hedge tables** `repositories/hedge.repository.js`, migration 013 | rows of hedges and cycles, unique indexes on fills and cycle numbers | insert, save, save a cycle | the hedge engine |
| **LP operations and creation saga** `services/uniswap-operation.service.js`, `services/lp-orchestrator/create-saga.js`, `repositories/uniswap-operation.repository.js` | the row of an operation (status, lease: `claim_token`, `claim_lease_until`), the orchestrator, its protection | commit from the browser, retry, resumption by workers (poll every 3 s), lease renewal, expiry, compensation | PostgreSQL, `uniswap-protection`, the delta-neutral service, the hedge engine |
| **Delta-neutral protection** `protected-pool-delta-neutral.service.js`, its `evaluate.js` and `execution.js` | the row of a protection with its strategy state, a lock per protection, TWAPs in progress | evaluations by a loop or forced, orders and TWAPs, reset for a new segment, `requestDeactivate`, `forceCloseHedge`, drain | limiter, trading, on-chain readers |
| Dynamic protection, refresh, maintenance | protections, snapshots | timers that create and cancel hedges | hedge engine |
| LP orchestrator `lp-orchestrator.service.js` | phases of an orchestrator, accounting | evaluate, adopt, collect, rebalance, kill | the operations above |
| **Registries** `registry.factory.js` and the registries made with it | a map, builds in progress and a revision per key | get or create, reload, destroy; `settings.routes.js` calls them when an account changes | all of the above |
| Hyperliquid client, websocket | sockets, subscriptions, nonces, weight budget | signed requests; reconnect, watchdog | exchange |
| Trading, leverage, balances | caches | open and close positions, set leverage under the mutex | Hyperliquid client |
| Uniswap positions | none | prepare and finalize transactions the wallet signs | chains |
| **Cross-chain funding** `services/cross-chain/*`, `useBringFunds.js` in the browser | a plan and its steps | prepare and sign, speed up, submit, skip, continue, discard; a monitor every few seconds | chains, bridges, the wallet |
| **Options trading** `options-live-orders.repository.js`, `options-live-execution.service.js` | the ledger of real orders, batches, positions, saved exits, leases | submit, take-profits, exits, reversal, reconcile | Binance options |
| Bots and strategies | runtime per bot | evaluate on a timer, back off, pause | trading |
| Backtest queue | queue and map of jobs | enqueue, run, cancel | worker |
| Alerts, Telegram, wallet metrics, market data, RPC and Etherscan budgets, smart-contract registry and hooks, settings, authentication, HTTP API | rows and caches of their own | see `components` in `PROJECT.json` | |
| Web client, deployment, scripts, contracts, e2e tests | | | not part of the models |

### Where the hard behaviours are

* **The hedge engine is driven by six sources at once**: the monitor, the
  websocket (fills and prices), users, the creation of the hedge, retries, and
  the restart of the process. They meet in a per-hedge promise lock, but they
  read things before they queue for it: the monitor reads the list of open
  orders, `onFill` compares the order ids, the requests check the status. And
  `createHedge` places its first order outside the lock altogether.
* **The exchange answers late or not at all.** An order can be accepted and the
  answer lost, a fill can be lost with the websocket, an order can be executed
  in part, a position can be closed by hand.
* **State is in two places**, the object and the row; a save that fails is
  logged and forgotten, and only a restart shows the difference.
* **The creation of an orchestrated LP** is a saga over five writes in the
  database and one on the exchange, under a lease that any process may take
  over. Whoever resumes must neither repeat nor half-finish; whoever fails must
  undo what this intention made and nothing else.
* **Small concurrent algorithms carry the rest**: the promise mutex and the
  limiter. Their errors would be invisible in tests (a chain of three callers,
  a key freed in the turn in which another is queued).
* **Real options** are sold by four parties (take-profits, stops, reversals,
  deadlines) from one ledger that several processes write, against an exchange
  whose answers may be lost and whose listings lag.
* **Rows are read, something is awaited, and the whole state is written back**:
  the evaluations of a protection, the monitor and the requests of a funding
  plan. Nothing compares what it replaces; what keeps them right is the order in
  which a lock, a status or the single monitor makes them come.

### What makes each part correct

| Part | Properties |
|---|---|
| mutex | one at a time per key; first come first served; no entry leaked; every call served; implements an abstract lock |
| limiter | never more than `maxConcurrent`, one per key; order per key; no slot idle while work can run; `idle` is told; every task starts; implements the abstract lock |
| hedge engine | exposure never exceeds the size of the hedge; one stop loss; a position never stays naked; a cancelled hedge is flat and stays cancelled; a cancellation is never forgotten; a cycle is recorded when its position is closed; the rescue of an entry never doubles it; what is quiet is saved; transitory states end |
| creation saga | one commit at a time; all or nothing; done is final; a commit that began ends; no active orchestrator without its hedge |
| live options | nothing is sold or sent twice; the pilot buys once; every difference with Binance is explained; no take-profit is sent once an exit is asked for |
| funding plan | the funds of a step leave once; what is signed is watched until it cannot move; `delivered` is true |
| runtimes of an account | one of a kind at a time, none of a deleted account, current credentials |
| delta-neutral protection | the short never exceeds what the LP needed; the signal of a new segment is not lost; no protection is inactive with its short open |

`hazards` in `PROJECT.json` lists, line by line, what in this code is hard to
test, with the property that covers each; those without a property say why.

## 2. Plan

Order: first the locks everything rests on, then the part where an error costs
money, then the part where a crash leaves half a product.

| # | Module | Models | State |
|---|---|---|---|
| 1 | `MutualExclusionSpec` | the abstract per-key lock | done |
| 2 | `KeyedMutex`, `KeyedMutexProofs` | `keyed-mutex.js`, refines 1 | done, proved |
| 3 | `KeyedLimiter`, `KeyedLimiterProofs` | `keyed-limiter.js`, refines 1 | done, proved |
| 4 | `HedgeEngine`, `HedgeEngineProofs` | one hedge, its exchange, its tables, its lock | done, proved |
| 5 | `LpCreation`, `LpCreationProofs` | the lease and the saga of a creation | done, proved |
| 6 | `OptionsLiveOrders`, `OptionsLiveOrdersProofs` | the ledger of real orders, its senders and its reconcilers | done, proved |
| 7 | `AccountRuntimes`, `AccountRuntimesProofs` | the two registries of an account and the requests of the settings | done, proved |
| 8 | `CrossChainFunding`, `CrossChainFundingProofs` | one plan, its windows and its monitor | done, proved |
| 9 | `DeltaNeutralProtection`, `DeltaNeutralProtectionProofs` | one protection: evaluations, reset, endings | done, proved |
| 10 | `HedgeEngineProofs`, continued | what the hedge knows of its orders, and its row of the hedge, while nothing fails and nothing overlaps | done, proved |
| 11 | `OperationLease` | the other operations of the table of `LpCreation`: position actions and fee claims with their un-awaited progress updates (`uniswap-operation.service.js` 274, 294, 332, 350) | open |
| 12 | `HedgeBook` | several hedges of one asset: the check-then-insert of `createHedge` (347, 405), the position they share | open |
| 13 | circuit breaker, bot runtime, phases of an orchestrator | candidates | open |

Abstract specifications: the per-key lock (done); for the lease, a one-shot
"at most one owner" that both `LpCreation` and `OperationLease` should refine;
for the hedge, a three-state cycle (out, in, protected) that `HedgeEngine` under
no mishaps should refine.

Theorems worth proving beyond those of section 6: `ExposureBounded` and
`OneStopLoss` of `HedgeEngine` after a mishap with which no request combines, as
the runs check them.

## 3. The modules and the code

### `KeyedMutex` and `MutualExclusionSpec`

A call of `runExclusive` is an element of `Calls`, and the promise it leaves in
the map is identified with it.

| Model | `utils/keyed-mutex.js` |
|---|---|
| `locks` | `this._locks` |
| `prev` | the local `prev`, the promise awaited |
| `pc`, `key` | where the call is and the key it was made with |
| `Enqueue` | up to `await prev`: read the entry, put its own promise in it |
| `Enter` | the await returns, `fn` is called |
| `Release`, `EntryAfterRelease` | the `finally`: remove the entry if it is still one's own, resolve |
| `arrival`, `clock` | history variables for the order of arrival |

`MutualExclusionSpec` knows only who is inside, per key (`holders`): a call gets
in when nobody of its key is. `KeyedMutex` implements it with
`holders <- {calls inside with this key}`.

### `KeyedLimiter`

| Model | `utils/keyed-limiter.js` |
|---|---|
| `pc`, `arrival` | `this._queue` (tasks `queued`, ordered by arrival) and what runs |
| `activeKeys` | `this._activeKeys` |
| `waiter` | `this._idleWaiters` |
| `Run` | `run`: push and pump |
| `Start`, `FirstInQueue`, `Room` | a turn of `_pump`: `findIndex` of the first task with a free key |
| `PumpEnds` | the loop ends; waiters are told if nothing is left |
| `Finish` | `release`: the key is freed and `_pump` is called |
| `Idle` | `idle` |

The loop starts task functions synchronously, and a function may call `run` or
`idle` again before the loop goes on; such calls may come between two turns.
The nested loop such a call runs and the loop around it are one loop here: both
look at the same queue and the same keys, and the outer one has nothing left to
find.

### `HedgeEngine`

One hedge: object, row, cycles, its open orders and position on the exchange,
the websocket, the lock and the monitor.

| Model | Code |
|---|---|
| `hedge` | the object in `this.hedges`: status, `entryOid`, `slOid`, fill ids, size filled, retries, flags |
| `row`, `cycleRows` | the tables, with the unique indexes of migration 013 (`Conflicts`) |
| `orders`, `pos`, `filled`, `inbox`, `nextOid` | external: open orders, position, recent fills, fills under way, order ids |
| `queue`, `run["worker"]` | the jobs queued on the lock of the hedge and the one that runs; the lock itself is `KeyedMutex`, whose theorems allow one worker and a queue in order |
| `run["creator"]` | `createHedge`, whose placement is outside the lock |
| `tick` | a monitor tick between its read of the open orders and the lock |
| `Frame` | where a thread stands, with the locals that outlive an await, and which `catch` is around it (`onThrow`) |

| Operator | Handlers |
|---|---|
| `Placement` | `_placeEntryOrder`: open orders and position read, adoption of a position or an order that is there, placement, the answer, duplicates |
| `EntryFill` | `_onEntryFill`: partial fill, cancellation of the rest, top-up, price already beyond the exit |
| `StopLoss` | `_ensureStopLoss`: position read, matching order reused, placement, refusal |
| `CycleEnd` | `_onSlFill`, `_recoverExitFromExchange`, `_completeCycleWithoutExitFill`, cycle saved or refused by the index, back to `waiting` |
| `Rescue` | `_reconcileTriggeredEntry`: list, recent fills, cancel, confirm, IOC |
| `Monitor` | `_monitorPositions`: the handler of each status |
| `Cancellation` | `_reconcileCancelPending` and `cancelHedge` |
| `Operation` | `retargetPendingHedge`, change of the exit price, price triggers |
| `Crash` | `init` after a restart: the row is loaded, flags and retries are lost |
| `Save` | `_emitUpdated` and `_save`: a failed save is swallowed (row keeps its old value when a crash is still to come; nobody could tell otherwise) |
| `Throw` | an exception, caught as the caller catches it |
| `Exchange`, `FillLost` | external |

Abstractions: a price is the choice between the branches it decides; any open
order may fire at any time; sizes are in lots (1 or 2 are enough to tell a
partial execution, an exact one and a doubled one); `MAX_*_RETRIES`, 8 in the
code, are constants, 2 in the runs. A `cancelOrder` that fails has had no
effect. `setInterval` starts a tick whether or not the one before has ended;
the model allows one tick between its read and the lock at a time, and any
number of ticks in the queue up to `MaxQueue`. `PendingSlGrace` saves whenever
the code might (over-approximation). The flag that `_ensureStopLoss` raises
against re-entry is never found raised by a job of the same lock and is left
out.

`Overlaps` names the three places where the code looks before it queues, so
that each run says which of them it lets happen: `"list"`, `"fill"`,
`"request"`. With none of them, an event comes when nothing is under way or
with up-to-date information. The properties that hold without an overlap and
fail with it are the disagreements of section 7.

### `LpCreation`

One operation `lp_create_orchestrated`, whose mint is signed in the browser.

| Model | Code |
|---|---|
| `op` | the row of `position_action_operations`: status, `claim_token`, whether `claim_lease_until` is in the future |
| `orch` | the orchestrator with this `creation_operation_id`, and whether its LP is attached; `made` counts ids |
| `prot` | the protection with this `creation_operation_id`: none, active, being deactivated (`closing`), inactive |
| `plan` | what the wizard asked for: `standalone` (no orchestrator), `bare` (no protection), `covered`; and whether the position id is known |
| `call[c]` | a run of `commitIntent`: the await it stands at, the orchestrator it works with, its outcome, whether it threw |
| `CommitAsked`, `RetryAsked`, `WorkerClaims` | `POST commit-intent`, `POST retry-commit`, `processPending` |
| `Reads`, `Claimed`, `Rereads`, `Releases`, `Leaves`, `Renews` | the lease: `claimByOperationKey`, `claimPending`, `renewClaim`, `releaseClaim` |
| `Marks`, `Creates`, `Attaches`, `CoverRefused`, `OpensProtection`, `Links` | `commit`: `createOrchestrator`, `attachLp`, `createDeltaNeutralProtectedPool` |
| `FindsHedge`, `ClosesHedge`, `RemovesRow` | `_compensate` |
| `Finishes`, `Confirms`, `Reconciles` | the final state, the worker's read-back and its `catch` |
| `DatabaseFails`, `Unanswered`, `AfterError` | any call of the database throws, before or after its write, and where the `catch` and `finally` blocks take it |
| `LeaseLapses`, `Expires`, `DeactivationEnds`, `Crash` | time, the monitor of the protection, the end of a process |

Simplifications: a retry repeats the same configuration; protections of other
operations on the same position, and the position of the short on the exchange,
are left out (what is not closed at once is `closing`); the token the worker's
second claim would write is identified with its first.

### `OptionsLiveOrders`

The ledger of one user who trades one contract. `R` is
`options-live-orders.repository.js`, `S` is `options-live-execution.service.js`.

| Model | Code |
|---|---|
| `order` | the rows of `options_live_orders` with their batch: status, purpose (`tp`), position, cancellation asked for, deadline passed (`late`), trades booked, lease |
| `held` | the open quantity of each row of `options_strategy_positions`: one per booked fill of an entry, named by order and fill |
| `exits` | `options_live_exit_requests` |
| `ex` | external: what Binance knows of each order, its fills, and how often it was sent |
| `snd` | calls of `submit` (S 243-355) and `submitQueuedTakeProfits` (S 946-1012) |
| `wrk` | orders in hand of `reconcilePending` (S 1165-1189) |
| `StartOpen`, `StartClose`, `DeferredExit`, `DeferExit`, `QueueReversal`, `RequestCancel` | what alerts, stops, saved exits, opposite signals and the user ask for |
| `CreateTp`, `StartTp` | `createMissingTakeProfits` with `beginStandingTp`; the queued take-profits |
| `BeginBatch`, `MarkSending`, `Post`, `Settle` | `beginBatch` (one transaction under an advisory lock), `markSending`, the POST, and `markActive`, `markRejected` or `markAttention` |
| `Claim`, `Begin`, `Get`, `Cancel`, `Trades`, `Apply`, `Conclude`, `FinishQueued` | the steps of `reconcileOrder` between two awaits: the lease, the exit of a deadline, the order, its cancellation, its trades, each booking (`applyTrade`), the end (`finishOrder`) |
| `LeaseLapse`, `DeadlinePasses`, `Crash*`, `Fail`, `Fill`, `EndByExchange` | time, stops, errors, Binance |

A transaction is one action; between two of them any other actor may act. A
lease may lapse under its holder, a pass may begin while another is not over,
and several processes are more senders and workers. `reduceOnly` is not enforced
by the exchange of the model: that nothing is oversold must follow from the
ledger. Left out: entries other than the pilot's purchase, the reentry a
reversal saves (an entry, which the pilot refuses), the ATR band that waits for
expiry, settlement and exercise, orders made by hand. A fill-or-kill order is an
order that Binance ends or fills at once. The flags of a final order are never
read again and are dropped with it.

### `AccountRuntimes`

| Model | Code |
|---|---|
| `reg[k]` | `map`, `pending` and `revisions` of a registry (`registry.factory.js`) for this account; `k` is the client's (`hyperliquid.registry.js`) or the hedge service's (`hedge.registry.js`) |
| `build[b]` | a call of `buildFn`, from its start to what became of it: `live`, `stopped`, `discarded`, `failed`; the revision it began with, the credentials read, the client awaited, and what its promise gave (`gives`) |
| `cred`, `gone` | the row of the account |
| `req` | `PUT` and `DELETE` of the account in `settings.routes.js` |
| `Begin`, `InHand`, `Reload`, `Emptied`, `Ends`, `GoesLive` | `getOrCreate`, `reload`, `destroy`, `bumpRevision`, and the test of the revision at the end of a build |
| `ClientReads`, `HedgeAsksClient`, `HedgeGetsClient`, `Built` | the two `buildFn` |

`stopMonitor` and the destruction of a client are synchronous, and the one
microtask in which `reload` awaits them is too short for another request: each
is one action. Left out: `destroyByPrefix`, `destroyAll`, and the Telegram
service a hedge service is also given.

### `CrossChainFunding`

| Model | Code |
|---|---|
| `plan`, `row` | `cross_chain_plans.status`, `cross_chain_steps` (status, hash, nonce, earlier hashes of the nonce) |
| `tx` | external: the transactions sent, in the pool, mined, reverted or dropped, and what the bridge did |
| `flow` | what a window (`useBringFunds.js`) is doing: `start`, `speedUp`, or one of the buttons that end; `seen` is what the server's handler has read |
| `mon` | a tick of the monitor: the steps it has read, the one in hand, what it will write |
| `Prepare`, `PrepareSpeedUp`, `Sign`, `Submits`, `Submitted`, `Receipt` | `prepareStep`, `prepareSpeedUp`, the wallet, the two halves of `submitStep`, the wait for the receipt |
| `AsksSkip`, `AsksContinue`, `AsksDiscard`, `Answered` | `skipStep`, `continueWithArrived`, `discardPlan`: read, then write |
| `MonitorLists`, `MonitorSource`, `MonitorDelivery`, `MonitorWrites`, `MonitorCounts`, `MonitorCloses` | `tick`, `checkSource`, `checkDelivery`, `recomputePlanStatus` |
| `CloseWindow`, `Rejects`, `MonitorRestarts` | a window closed (or a request lost) between the wallet and `submitStep`; a signature refused; a process that stops |

`lost` remembers the transactions whose window closed before telling; `SentOnce`
is stated while there are none. `Overlapping` says whether a request may begin
while another has read and not yet written.

### `DeltaNeutralProtection`

| Model | Code |
|---|---|
| `protection` | the row of `protected_uniswap_pools`: active or not, the LP it covers, and of the strategy state what decides: `deactivation_pending`, `pendingForceReason`, `lastActualQty`, the count of missing readings |
| `short` | external: the position |
| `ev` | the evaluation that holds the lock: what it has read, its decision, its orders |
| `reset` | `resetForNewSegment`, which takes the same lock |
| `end[k]` | an ending in progress: by an evaluation, `requestDeactivate`, `forceCloseHedge` |
| `Observations` | `_observeHedgePosition`: two reads, each of which may fail, and the confirmation of a missing position |
| `EvalBegins` ... `EvalAnswered` | `_evaluateProtectionUnlocked` from its read of the row to its write, `_executeRebalance`, `_runSingleAdjustment`, `_runTwap` |
| `OpenSegment`, `Reset*` | the move to a new LP and the reset |
| `Request`, `RequestMarks`, `RequestObserves`, `ForceClose`, `EndCloses`, `EndBooks`, `EndVerifies`, `EndRetires` | `requestDeactivate`, `forceCloseHedge`, `_continueDeactivation` |

A decision is any size up to the LP's, or none: the policies, which are
arithmetic, decide which. Sizes are counted in slices of a TWAP. An order may be
filled in part or not, and its answer lost. Left out: the bootstrap and its
`restart_reconcile`, the lock between processes, the end of a position action
that marks `deactivation_pending`, dust, and a read that answers "no position"
falsely. `seen` keeps what the properties compare with: the largest LP so far,
whether a slice's answer was lost, whether a signal is owed, and how an ending
was undone.

### Sharing

`MC*.tla` extend a module for TLC and define nothing but the values of the
constants. `MCServices` extends three modules that share no variable, and is one
run for them: each behaviour belongs to one of them (`part`) and leaves the others where they start,
so that the states add up and do not multiply. TLC reports the steps of such a
run as one action; each part alone fires every action of its module.
`PROJECT.json` maps every definition to its lines. Definitions whose comment
begins with "Variant:" are not part of any specification: each is the definition
below it with one plausible error, kept to show that a property notices it
(`mutants`).

## 4. What the runs show

All runs end within the bounds given; deadlock is checked for the mutex and the
limiter, and not for the hedge (one that is cancelled or in error stops) nor
for the creation (requests are made once; when nothing is left to resume the
system rests), nor where the bounded requests of options and services may all be
over.

| Run | Configuration | Asks |
|---|---|---|
| `mutex` | 4 calls, 2 keys | the inductive invariant of the proofs (mutual exclusion, no leaked entry), arrival order, every call served, the abstract lock |
| `limiter` | 4 tasks, 3 keys, 2 at a time, 1 waiter for idle | the inductive invariant (bound, order per key), no idle slot, idle told, every task starts, the abstract lock |
| `hedge_requests` | one request (cancel, retarget, exit) and one fault that do not combine, 3 order ids | exposure bounded; one stop loss; a cycle is recorded when its position is closed; cancelled is flat and final; a cancellation ends; quiet is saved |
| `hedge_restarts` | size 2, orders executed whole, in part or in two fills; saves that fail, one restart at any await | exposure bounded; one stop loss |
| `hedge_overlaps` | old lists of open orders; a retarget or an exit that waits behind other jobs, and a fault; 2 order ids | a rescue never doubles an entry |
| `hedge_live` | a fault or a restart at any moment | a naked position settles; `waiting` and `closing` end |
| `lp_creation` | a commit, a retry and two workers on two processes; one mishap: a process stops, a database call fails or a lease lapses | the lease is kept (in `IInv`); one commit at a time; all or nothing; done is final; every commit ends |
| `options_live_orders` | two senders, two workers; an entry of one contract with three batches, or of two contracts with two | nothing sold, sent or bought twice; differences explained; no take-profit after an exit |
| `services` | a plan of two steps from one network, one window, three transactions, one closed; two changes of credentials, one deletion, three builds; an LP of two slices, one change of it, one ending | what each of the three promises (section 1) |
| `hedge_stale_list`, `lp_uncovered`, `dn_unread` | see section 7 | each violated: a statement of the repository the code does not keep |

### The bounds, and why they are enough

* **Mutex.** Errors of this algorithm need a key with a call inside, one that
  waits and one that arrives (whose entry replaces the first's); two keys show
  that they do not disturb each other. 4 calls on 2 keys contain both. The
  theorems remove the bound.
* **Limiter.** Three keys for two slots make a full limiter; four tasks make
  two of one key overtaken by another. The theorems remove the bound.
* **Hedge.** Three order ids (two in `hedge_live` and `hedge_overlaps`) are an
  entry, its stop loss, and the next entry: a whole cycle and the beginning of
  the next, or an entry, its replacement and a stop loss. Behaviours that ask
  for a fourth stop in `MaxOids`: the order is refused, as the exchange may do
  at any time; properties of rest are stated for behaviours that have ids left.
  A queue of one or two jobs makes a job meet one that is running and one ahead
  of it. One mishap or one request (`MaxTroubles` bounds them together; one of each in
  `hedge_overlaps`):
  every call and message is exposed to it, in every state. Size 1 where
  executions are whole; size 2, the least at which an
  order can be executed in part, in `hedge_restarts`. Retries are bounded by 2
  in place of 8: nothing depends on their number but when the hedge stops in
  error.
* **Creation.** Two processes with a request and a worker each are the least in
  which a stop leaves somebody to resume, and in which request and worker of
  different processes compete. One mishap at any point; a second retry or a
  second commit adds calls of kinds that are there already. The theorems hold
  for any number of calls, processes and mishaps.

* **Options.** Oversale needs a position, an order that sells it and another
  that would: an entry and two batches. Partial fills need two contracts; with
  them one actor less and one batch less, because a part is a matter of one
  order and what is booked of it. Two calls or passes at once are the least in
  which one acts on what another has read; the lease lapses any number of
  times. The theorems remove the bounds.
* **Services.** Two steps of one network are the least in which one waits for
  the other; three transactions are both and a replacement. Three builds are
  one generation of both runtimes and a rebuild; two changes and a deletion overlap in every
  way; the theorem removes these bounds. A short of two slices is the least
  that a TWAP executes in part; one change of LP and one ending meet every step
  of an evaluation.

Each property of the hedge is claimed for the adversity of its run and no more.
What the runs leave out of each other is in section 7.

## 5. Fairness

Nothing is fair that depends on somebody's will or on the market: no price
arrives, no order fires, no user asks and no browser commits unless it happens
to.

* **Mutex, limiter**: weak fairness of every step of the event loop, and of the
  return of the functions run under the lock. In the hedge engine these
  functions end because every call to the exchange does
  (`hyperliquid.service.js` gives each request 10 s).
* **Hedge**: weak fairness of the worker, of the grant of the lock and of the
  monitor (`setInterval`, every 30 s). Strong fairness of the creator and of
  the arrival of fills and ticks in the queue, because other jobs disable them
  for moments without end, and of the branches that depend on the time since an
  earlier moment (`ClosingRetried`: the close is attempted again after a while;
  `PendingSlRetried`: the grace of 30 s after a stop loss was placed ends): the
  clock goes on whatever the other branches do. Fills that are lost are lost:
  only the arrival of those that are not is fair.
* **Creation**: weak fairness of each call in flight (a database call returns or
  fails), of the workers' poll (every 3 s, in every process, a process that
  stops is started again), and of the end of a lease whose holder is gone
  (120 s). Renewals, requests and retries are not fair.

* **Options, services**: their properties are of safety, and no fairness is
  assumed. A reconciliation may be given up for ever (`attention` waits for a
  person), a bridge may never answer, an evaluation may wait as long as its
  policy does: the code promises no end.

## 6. Proofs

TLAPS checks every leaf. The assumptions are those on the constants, named in
the modules: `NoCallAssumption` (no call is the absent one), `MaxAssumption`
(`Max` is a positive number), `CreationAssumption` (kinds of calls are disjoint,
each runs in a process), `HedgeAssumption`, `FundingAssumption` and
`ProtectionAssumption` (sizes and bounds are numbers, mishaps and overlaps are
among those modelled) and `SizesAssumption` (an entry is of a whole number of
contracts, one at least). The module of runtimes needs none. Four
theorems have a hypothesis besides (`OneWindow`, `~Overlapping`, `Undisturbed`):
each is met by the run that checks the property, and section 7 tells what
happens without it. The six on the exchange and the row of the hedge fix constants
(`Overlaps`, `Mishaps`, `Executions`) or stop at the first mishap: in this
they say less than the runs, in sizes, ids, requests, retries and executions more.

### The mutex: any number of calls and keys

`MutualExclusion` is not inductive: that nobody is inside when the awaited
promise resolves has to do with the whole chain. The invariant `IInv` says what
the chain is: the entry of a key is its latest active call (`TailIsLatest`), a
call awaits a promise that is not older than any active rival made before it
(`PrevIsPredecessor`) and is itself older (`PrevIsEarlier`), times of arrival
differ (`ArrivalsDiffer`), a call inside has been let in (`InsideIsResolved`).
Hence a call whose awaited promise is resolved is older than all its rivals
(`ResolvedIsFirst`), and two such would each be older than the other. Theorems:
`TypeCorrect`, `IInvHolds`, `MutexSafe`, `MutexFair`, `MutexLeakFree`, and
`MutexImplements`, the refinement of the abstract lock: an `Enter` is an
`Acquire`, a `Release` a `Free`, the rest stutters.

### The limiter: any number of tasks and keys, any `Max`

`IInv`: the active keys are those of the running tasks, one each, at most `Max`
of them (`Bounded`); places in the queue differ (`PlacesDiffer`); order per key.
`WorkConserving` rests on one lemma that is not about a step: when a task may
start, there is a first one that may (`FirstExists`, from the well-foundedness
of the numbers), so that the loop ends only when none can. Theorems:
`LimiterTypes`, `LimiterIInv`, `LimiterBounded`, `LimiterInOrder`,
`LimiterWorkConserving`, `LimiterIdleTold`, `LimiterImplements`.

### The creation: any number of requests, workers, processes and stops

`OneCommitAtATime` is not inductive either: whether a second call may start
depends on the row. `LeaseKept` is the strengthening: a call that works (or a
worker that has just claimed) holds a live lease with its token, on an operation
that has not ended; a worker never comes to claim again, and nobody comes to
`needs_reconcile`. It is kept by each step because the claim asks for a lease
that is free and a status that is not final, and because the release compares
the token. From it follow `OneCommitAtATime` (two workers would have one token)
and `DoneIsFinal` (who could write a status works, on an operation that has not
ended).

`OutcomeIsTrue` needs to know what has been made when: `PiecesMatch` says, per
step, that the orchestrator of the row is the one the call works with, that it
is linked only at the end, that a covered one has had its protection opened
before it is linked, and that a compensation at its end has left nothing. It
holds because nobody else works meanwhile (`LeaseKept`) and because whoever
resumes finds pieces by the key of the operation. The proof adds `StatusMatches`
(the status and the pieces agree when nobody works). Theorems: `TypeCorrect`,
`LeaseIsKept`, `OneCommit`, `DoneStays`, `PiecesHold`, `OutcomeHolds`.

These are stated for behaviours in which no database call has failed and no
lease has lapsed under a living holder (`Untroubled`; processes may stop at any
moment, any number of times), because beyond that the code does not have them
(section 7). `CommitEnds` is checked without that restriction.

`IInvHolds` joins both, as the run checks them.

### The runtimes of an account: any number of requests and builds

`RuntimesMatchAccount` says three things: who is live is in its registry, none is
live after the account is deleted, and the client has the last credentials
unless a request is about to reload it. The invariant `RuntimesInv` adds what a
build in progress knows. A build that may still go live has the revision of its
registry (`RefsInv`, `LiveInv`, `PendingInv`), and
there is one such build per registry, the pending one, because `reload` and
`destroy` raise the revision in the same block in which they forget what is
pending. After a deletion no build that has read the account has the current
revision (`GoneInv`). A client build with the current revision has read the last
credentials, or has not read them yet, or the request that changed them has not
come to its reload (`CredInv`). Theorem: `RuntimesAreOfTheAccount`.

### Live options: any number of senders and reconcilers

`PostedOnce` is a statement about a row and the memory of every sender. The
invariant `LedgerInv` is its strengthening: the shape of rows and of Binance's
record (`Shape`); who has which orders still to send (`TodoInv`); an order that
was posted is past the queue, or back in it with its cancellation asked for,
which `markSending` refuses (`PostInv`), and a sender about to post holds an
order marked by itself and not posted by anybody; there is at most one entry
(`OneOpen`). The last follows from `beginBatch` alone, whose transaction counts
and inserts; `PilotBuysOnce` says that the second alert is refused whatever
became of the first entry. Theorems: `NeverSentTwice`, `PilotBuysOnce`.

`NoTpOnceExitAskedTheorem` is about a step: at the moment a take-profit goes from
the queue to Binance no exit of its position is saved. What makes it so is that
every request which saves an exit asks in the same transaction for the
cancellation of the take-profit, and that a take-profit is only made where there
is none. `ExitInv` says it of the states: a take-profit that may still be sent
is of a position without an exit; a position has one live take-profit at most, so
that the one whose deadline passes, which cancels itself, is the one that could be
sent.

`NeverOversold` and `ExposureExplained` compare three accounts of the same
trades: what Binance executed, what the ledger booked of each order, and what it
holds of each position. The invariant `SoldInv` ties them. `RowsInv`: the booked
fills of an order are the first ones of Binance, and a final order can be
executed no more and is booked in full. `HeldInv`: a position is a booked fill of
an entry, and what is held of it with what is booked of the orders that close it
is that fill. `AliveInv`: one of these orders at most is alive, for no more than
is held and not yet booked of it. `NetInv`: the positions add up to what is
booked. What makes them inductive is what the others remember between two
awaits: a pass may be behind Binance and another pass, but what it has seen ended
has ended with what it saw (`PassInv`), so that it closes no order with fills
missing; a call is about to post only what is marked as its own, and its refusal
puts back in the queue only what Binance does not have (`CallsInv`). A batch that
closes positions is saved in the transaction that finds no other order of them
alive, which gives `AliveInv`. Theorems: `NeverOversoldTheorem`,
`ExposureExplainedTheorem`.

Their sums are folds over sets of orders. What such a fold gives when a term
changes or is added (`SumAdd`, `SumChange`, `SumDifference`) is proved without the
induction theorems of the library, which take an operator: the set of the sizes
for which a statement holds contains 0 and the successor of each member, and a
least number outside it would exist (`Successors`). The same way the sum of the
fills of an order is shown to grow with each `Append` (`PartNext`,
`TotalAppend`).

### The funding plan: any number of windows, steps and transactions

Three theorems with two invariants on one base. `BaseInv` says what everybody
remembers of a transaction: a row, or a copy of one, speaks only of transactions
that were sent (`KnownInv`), a window tells what it has sent for the step it was
asked for (`FlowInv`), and of the transactions of a nonce one at most enters a
block (`NonceInv`).

* `SentOnceTheorem`: the network mines one transaction of a nonce, so it is
  enough that all those of a step share theirs. `SentInv` says so, and that
  nothing was sent for a step which a window is about to sign for the first time:
  what was sent is in the row, or the window that sent it is about to tell.
  `StartInv` says that a first signature is for a row without hash and a speed-up
  has the nonce of a transaction of its step. A second window would sign a step
  that both found pending; hence the hypothesis `OneWindow`.
* `SignedIsWatchedTheorem` and `PlanTellsTruthTheorem`: the monitor writes a
  verdict it reached from rows read earlier, and the plan from rows read later.
  `WatchInv` says that what it has in hand is still true when it writes:
  a row the monitor is about to look at has the status it was listed with, and
  may only have gained transactions (`PendingInv`); a verdict is about a
  transaction that has come to rest, in hand (`LookInv`) or in the row
  (`RowInv`); and a plan about to be closed as delivered
  has only delivered steps (`CloseInv`). `RequestInv` says of a request between its
  read and its write that the row is as it was read, but for what the monitor
  wrote of a step in flight. These hold for any number of windows, but only
  while no request begins between the read and the write of another: the
  hypothesis `~Overlapping`, which nothing in the server enforces.

### A protection: any size, any number of slices and endings

* `ShortBoundedTheorem`: `BoundInv` says what an evaluation whose orders go out
  knows of the position: the short is at most what it read plus what it has
  ordered since, which is at most what was missing (`OrderInv`), and its aim is
  at most the largest LP so far (`AimInv`). That nobody else adds to the short
  meanwhile is the lock; that endings only reduce it makes what was read an
  upper bound. A slice whose answer was lost is ordered again: one slice more.
* `SegmentSignalKeptTheorem`: an evaluation writes back the whole strategy state
  it has read. `KeptInv` says that no reset writes meanwhile (`LockInv`), that a
  signal which is owed is in the row and in the state of the evaluation that
  runs, which knows of it (`SignalInv`), and that until an ending is asked for
  nobody is ending anything (`QuietInv`).
* `ClosedBeforeInactiveTheorem`: `GoneInv` says that an ending about to
  deactivate has seen the position closed, or has one of the two excuses. With
  the run `dn_unread` it delimits the disagreement of section 7: there is no
  third way.

### The hedge: any size, bounds, mishaps and overlaps

* `TypeTheorem`. That a position is never more than the order ids given out can
  have bought is no matter of form, as an entry, a top-up and an IOC each add
  theirs. `ExchangeTyped` is the inductive form: the position with the open
  entries is at most `Size` lots for each id. A stop loss of no size would not be
  an order; that none is sent needs `SizeInv` (the size noted when the position
  was read is still there when the order goes out). That is not disturbed by
  `createHedge`, which runs outside the lock, because while it begins to place
  its order a job of the lock does none of these things (`FirstInv`).
* `CancelledIsFinalTheorem`: ticks read the status after the lock is granted;
  fills and requests have checked it before. `CalmInv` names the awaits after
  which a thread looks at the status again, or is the cancellation itself
  (`Tame`); a thread at any other is not at work on a hedge that is being
  cancelled (`ThreadCalmInv`), and a fill or a request that waits is alone and
  finds the status it was queued with (`QueueCalmInv`). The hypothesis
  `Undisturbed` leaves out the fills and requests that are overtaken between
  their check and the lock, and the restart from a row whose last save has
  failed: with each of them a cancelled hedge does come back (section 7). Faults
  of the exchange and old lists are allowed, and any number of requests.

The other theorems are about the exchange: which orders of the hedge are open,
whatever it remembers of them. Nothing in the code keeps a list of them; each
handler reads the exchange and acts an await later. The invariant `OrderlyInv`
therefore says at every await of the worker what it still knows:

* `LedgerInv`: the open orders are those the hedge has the id of, or an answer
  that is on its way (`LiveEntry`, `LiveSl`): an entry while there is no position
  and no stop loss, or a stop loss for the whole position. `FilledInv`: an order
  that has executed is not open, and a fill that is on its way is of one that has.
* `StatusInv` and `PlaceInv`: the status tells which kind can be open, and at
  which awaits the worker can be.
* `KnowsInv` and `ListInv`: at most awaits (`BarePcs`) it knows that nothing is
  open, because it has withdrawn what there was, or has seen the fill of it; at
  the others the list at hand contains what is still open. A step of the
  exchange between two awaits can only execute an order, which leaves none open:
  this is why what the worker knows stays true without it.
* `CreatorInv`: `createHedge`, which places the first order without the lock, is
  alone, because `placing` makes the monitor wait. `WaitingInv`: a fill that waits
  is of the order the hedge waits for, and a request finds the status it was
  checked with.

From it follow `ExposureBoundedTheorem` and `OneStopLossTheorem`, for behaviours in
which nothing has gone wrong so far (`Untroubled`) and no event is overtaken on
its way to the lock (`Overlaps = {}`), and, as properties of a step, where no
mishap is possible at all, `CancelledIsFlatTheorem`,
`RescueReplacesDeadOrderTheorem` and `CycleClosesPositionTheorem`. They hold for
any size, number of requests, ids, retries and jobs, and orders executed whole, in
part or in several fills; only the last leaves out orders withdrawn with a part
executed, as `_onSlFill` takes the part of a stop loss that executes for the
whole of it. Each hypothesis is needed, as TLC shows on instances a little
larger than those of the runs: when the answer to the first order is lost, or
the process restarts before it is saved, a retarget does not know the order and
places another (`ExposureBounded`), and a cancellation leaves it open
(`CancelledIsFlat`); with partial executions a cycle is recorded while a part of
the position remains (`CycleClosesPosition`); with old lists `hedge_stale_list`
(section 7).

`QuietIsSavedTheorem` is about the row. That a handler saves at its end cannot be
read off its steps one by one: most change the object in memory and leave the
row for a later one. `ToldInv` says where the object may be ahead of its row
(`Ahead`), so that all the other awaits find it told (`SavedInv`); that what is
filled or closed is what the hedge waits for (`MatchedInv`), so that a cycle tells
of the orders of this cycle; and that no order
still in use is one a recorded cycle tells of (`CycleInv`), so that the unique
indexes of `cycles` never refuse one and leave the row behind.
Its further hypothesis, that `"crash"` is not among the mishaps, is how the model
says that every save succeeds: `_save` logs an error and goes on.

### Model-checked only

* *The hedge after a mishap.* The theorems on its orders and its row end with the
  first fault or restart. The runs go on (`hedge_requests` after a fault,
  `hedge_restarts` after a restart, neither with a request besides;
  `hedge_overlaps` with old lists, requests that wait, and a fault) and find that
  `ExposureBounded`, `OneStopLoss`, `CancelledIsFlat`, `CycleClosesPosition` and
  `RescueReplacesDeadOrder` hold there still. An invariant for it would have to
  count mishaps and say at each of some fifty awaits what an order nobody knows
  of can be: with a request besides, the first and the third no longer hold.
* *Liveness.* `EveryCallServed`, `EveryTaskStarts`, `NakedPositionSettles`,
  `TransitoryEnds`, `CancellationEnds`, `CommitEnds`: out of the prover's reach
  under fairness.

No model uses a recursive definition.

## 7. Where code and words disagree

Three runs end in a counterexample to something the repository says of itself.

1. **`hedge_stale_list`** (`hedge-monitor.mixin.js:55`): the tick reads the open
   orders before it waits for the lock. While it waits, a job places the entry
   order; the tick does not find it in its list, places another, both fire.
   `NeverOversized` fails.
2. **`lp_uncovered`** (`uniswap-protection.service.js:966`): a process stops
   after it has opened the protection; the worker compensates, the exchange does
   not close the short at once; the retry finds the protection of its own
   operation active and links it, and the monitor goes on to deactivate it. An
   active orchestrator is left without its hedge. `NeverUncovered` fails.

3. **`dn_unread`** (`protected-pool-delta-neutral.service.js:1586`): a position
   counts as confirmed missing after two readings without it, and readings
   before the short was opened count. An ending asked for right after the
   opening, when the exchange does not answer, deactivates the protection and
   leaves the short. `NeverRetiredUnread` fails; `ClosedBeforeInactive` shows
   that this and an evaluation that opens again are the only ways.

Further ones are outside the adversity of the runs; these settings show them:

* With `Overlaps = {"fill"}` in the hedge (`hedge.service.js:855`): the fill of
  a stop loss is matched before it queues. The tick ahead of it finds the
  position closed, records the cycle and the next entry is placed and fires;
  the fill then records a cycle again and closes, in the object, a position that
  is open: `CycleClosesPosition` fails.
* With `Overlaps = {"request"}` (`hedge.service.js:411`): the placement of
  `createHedge` is outside the lock; a cancellation asked for meanwhile is
  overwritten by `entry_pending` and forgotten.
* One pass of the reconciler of options looks at the clock twice
  (`options-live-execution.service.js:392, 437`). If the deadline of a take-profit
  passes between, it cancels the limit without having saved the exit, against
  the comment at 395: `TpCancelledForAnExit` fails in the configuration of
  `options_live_orders`.
* With `Overlapping = TRUE` in the funding plan: a hash submitted while
  `skipStep` or `continueWithArrived` has read the step as pending is
  overwritten as skipped, and nobody watches it (`SignedIsWatched`);
  `PlanTellsTruth` fails too.
* With two windows on one funding plan, whatever overlaps: both find the step
  pending, both sign it with a nonce of their own, and its funds leave twice
  (`SentOnce`). The server hands out the transaction to sign without noting that
  it did (`prepareStep`).
* A window closed between the wallet and `submitStep` leaves the step pending
  and it is signed again, against `useBringFunds.js:14-16`; a monitor that stops
  between a step and its plan leaves the plan in progress.
* A hedge service whose build is under way when the credentials change keeps the
  client with the old ones: `settings.routes.js:224` reloads only a service that
  is in the registry already.
* A protection that is being deactivated is recognised by a status that the next
  evaluation overwrites (`evaluate.js:389`), and an evaluation that waits for
  its orders opens again what an ending has closed.

* With `Requests = {"cancel"}`, `MaxRequests = 1`,
  `Mishaps = {"fault"}`, `MaxMishaps = 1`, `MaxOids = 3`, `MaxQueue = 1`, the
  answer to an order that was accepted is lost and `CancelledIsFlat` fails: the
  cancellation (1331-1334) does not know that order's id.
* With `Requests = {"retarget"}` and one fault, a retarget that cannot read the
  open orders places a second entry (479, 914): `ExposureBounded` fails.
* With `Size = 2`, `Executions = {"split"}` and one fault, the top-up of a
  partial fill (1148-1178) buys what the second fill already has:
  `NeverOversized` fails, against the comment at 1075-1078.
* With `"partial"` executions, a stop loss executed in part counts as the end of
  the cycle; `CycleClosesPosition` is therefore not asked in `hedge_restarts`.
* `RescueReplacesDeadOrder` fails when a fault and a restart combine, and with a
  cancellation that overlaps; `OneStopLoss` with a fault, a restart and a fill
  that overlaps; `CancelledIsFinal` with a cancellation that overlaps the
  creation, with a fill that arrives while a cancellation runs, and with a restart
  after the save of the cancellation has failed. With old lists
  `NakedPositionSettles` fails.
* Creation of LPs, with troubles: a read that fails after a successful commit
  turns `done` into `needs_reconcile` (`uniswap-operation.service.js:240-243`),
  whose write carries no token and drops whoever's lease there is, so that two
  commits may run; an error after the attach transaction or after
  `createOrchestrator` is compensated as if nothing had been written, so that
  `OutcomeIsTrue` fails; `updateState` has no fencing token, so that a holder
  whose lease has lapsed overwrites the next one; and once a lease has lapsed
  under its holder two workers may take turns for ever. `needs_reconcile` has no
  way out in
  the code. An intent whose browser dies after the signature is expired as
  "sin llegar a firmarse" (the design of the wizard, 135-140, accepts this).

## 8. What is not modelled

Of what has a module:

* *Hedge engine*: prices, margin, PnL; the validation of inputs; the listings;
  several hedges on one asset (`HedgeBook` in the plan).
* *Creation*: `position_action` and `claim_fees`, which share the worker
  (`OperationLease` in the plan); changes of configuration in a retry; what
  `needsManualReview` leads to.
* *Options*: settlement, exercise, orders by hand, several contracts, the runner
  of strategies.
* *Funding*: planning and quotes, amounts, approvals, fees.
* *Runtimes*: bots and Telegram, which use the same factory; the websocket
  server, which keeps services that have stopped in its index by asset.
* *Delta-neutral protection*: the loop over all of them with its sequence
  numbers (an evaluation reads its row again, so that it decides only who is
  looked at), several processes, policies and sizing.

Of the rest, by reason:

* *Candidates of the plan*: circuit breaker, phases of an orchestrator, runtime
  of a bot, websocket reconnection.
* *Sequential*: the backtest queue (one process, one worker; that a pending job
  is counted twice against the limit per user, `backtest-queue.service.js:17`,
  happens on every path).
* *Numeric*: option pricing, indicators, backtests, sizing of hedges, ticks and
  liquidity of Uniswap, the fee of the Solidity hook.
* *One request, one row*: settings, authentication, the HTTP API, the
  smart-contract registry.
* *Adapters and views*: market data, Telegram, RPC, React client, deployment.
