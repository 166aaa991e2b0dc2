# Sage backend: a verification project in TLA+

Models of the trading core of the Sage backend, checked with TLC and, where it
matters most, proved with TLAPS. Paths below are relative to the repository.

## 1. The system

One Node process serves an HTTP API and runs, for each bot a user has started, a
trading engine that opens and closes liquidity positions on Meteora. State lives
in memory (engines, executors, safety counters) and in PostgreSQL (bots,
positions, users); the two are brought together by events and by explicit saves.

| Component | Source | State it keeps | Operations | Talks to |
|---|---|---|---|---|
| Trading engine | `src/engine/trading-engine.ts` | isRunning, isScanning, cooldowns, statistics, three interval timers | start, stop, scanMarkets, enterPosition, checkPositions, closePositionById, emergencyCloseAll | executor, market data, safety systems; events to the orchestrator |
| Simulation executor | `src/engine/simulation-executor.ts` | positions, virtual balance | openPosition, closePosition, updatePositionData | market data |
| Circuit breaker | `src/engine/circuit-breaker.ts` | position counts, exposure, recent trades | canOpenPosition, recordPositionOpened, recordPositionClosed | asked and told by the engine |
| Emergency stop | `src/engine/emergency-stop.ts` | loss counters, failure windows, the trigger | canTrade, record..., manualTrigger, reset, serialize | calls back the orchestrator |
| Orchestrator | `src/engine/orchestrator.ts` | runningBots, botLocks | startBot, stopBot, emergencyStop, recoverRunningBots, event handlers | engines, database, event bus |
| Live execution | `src/engine/seal-executor.ts`, `seal-session.ts`, `transaction-sender.ts` | tracked positions, session budget | open and close by on-chain transactions | Solana, safety systems |
| Market data and cache | `src/engine/market-data.ts`, `shared-cache.ts` | cached pools, fetch in flight, last request time | getAllPools, getPoolData, getActiveBin | Meteora API |
| ML predictor | `src/engine/ml-predictor.ts`, `ml-features.ts` | none that lasts | predictBatch | ML service |
| Event bus and stream | `src/engine/event-bus.ts`, `src/routes/events.ts` | listeners | emit, subscribe | clients |
| Bot and position routes | `src/routes/bot.ts`, `position.ts` | rows of bots and positions | create, start, stop, emergency, config, delete, close, reconcile | orchestrator, database |
| Wallet routes | `src/routes/wallet.ts` | keys and addresses in the rows of users and bots; what is on the chain | create, setup-live, register-agent, sessions, revoke, recover, withdraw, submit-signed | database, Solana |
| Authentication, sponsor, AI, fleet | `src/services`, `src/routes` | users, nonces, sponsor key, conversations | requests | database, Solana, language model |
| Server | `src/index.ts` | the HTTP server | recovery at startup, shutdown | orchestrator |

What makes each part correct:

- *Engine and executor*: the limits on positions hold, no pool is held twice, the
  virtual balance matches the positions, a scan always ends, stopping stops.
- *Circuit breaker*: it never knows of fewer positions than there are.
- *Emergency stop*: a limit that is exceeded halts the bot, once, and nothing
  (restart, crash, midnight) forgets losses it should remember.
- *Orchestrator*: one engine per bot, the status in the database agrees with what
  runs, a request that reports success did what it says.
- *Persistence*: the rows agree with the engine's events whatever their order.
- *Sender*: what it answers agrees with the chain, and a retry repeats no effect.
- *Live execution*: liquidity on the chain is known to someone, a position closed is
  gone, the breaker's books follow.
- *Wallet*: while a signer holds money, the server holds the signer's key.
- *Cache*: one fetch at a time. *Authentication*: a nonce is used once.

### Where it is hard

Node runs one callback at a time, so every hazard here is about an `await`: what
was read before it and is used after it. Nothing in the engine is locked except
the scan (`isScanning`): the position checks come from an interval timer that
does not wait for the previous check, closes come from HTTP requests, and the
emergency callback runs beside all of them. The handlers of the engine's events are
async and awaited by nobody, so their writes land in any order. Live trading adds a
chain on which a transaction may take effect after its sender has given up. The repository has no tests
(`package.json`, script `test`). `PROJECT.json` lists the hazards at their lines.

## 2. Modules

| Module | Models | Used by |
|---|---|---|
| `CircuitBreaker` | `src/engine/circuit-breaker.ts`: a record and one operator per method | `TradingEngine`, `LiveExecution` |
| `TradingEngine` | one simulated bot: engine, executor, circuit breaker, the emergency stop as the engine sees it, and the orchestrator's emergency callback | `MCTradingEngine`, `TradingEngineProofs` |
| `BotLifecycle` | the routes of one bot, the orchestrator's registry and locks, the emergency callback, recovery, shutdown and crashes | `MCBotLifecycle`, `BotLifecycleProofs` |
| `EmergencyStop` | `src/engine/emergency-stop.ts`: a record and one operator per method | `LossMemory` |
| `LossMemory` | the loss counters of one bot in memory and in its row, across days, stops, shutdowns and crashes | `MCLossMemory`, `LossMemoryProofs` |
| `PositionBook` | abstract: what the table of positions promises | `PositionRecords` |
| `PositionRecords` | the writes of the orchestrator's handlers, of stops, emergency stops, closes, reconciliation and recovery | `MCPositionRecords`, `PositionRecordsProofs` |
| `SendOutcome` | abstract: what the sender promises | `TransactionSender` |
| `TransactionSender` | `src/engine/transaction-sender.ts` against a chain | `TransactionSenderProofs` |
| `LiveExecution` | entries and closes through `seal-executor.ts` and `seal-session.ts`, as the engine calls them | `MCLiveExecution`, `LiveExecutionProofs` |
| `LiveWallet` | the routes of `src/routes/wallet.ts` for the bots of one user | `MCLiveWallet`, `LiveWalletProofs` |
| `MC...` | values, scenarios and symmetry for TLC | the runs |
| `Sums` | sums of a function over a finite set, and lemmas about them | `TradingEngineProofs`, `PositionRecordsProofs`, `LiveExecutionProofs` |
| `...Proofs` | theorems and their proofs | |

`TradingEngine`, `BotLifecycle` and `LossMemory` look at the same bot from three
distances and share no variable. `TradingEngine` has one engine in every detail, and
of the orchestrator its callback. `BotLifecycle` has many engines, each reduced to
whether it runs, scans and has triggered. `LossMemory` has one engine at a time,
reduced to its emergency stop, with the counters `TradingEngine` abstracts to
`limitHit`. `PositionRecords` takes the engine's events as they come and follows them
into the tables. `LiveExecution` replaces the simulation executor by the live one;
`TransactionSender` is the part of it that meets the chain, and `LiveWallet` what must
have happened before a bot can trade live, and what happens after.

### TradingEngine

An action is the code from one `await` to the next, with the microtasks in which
the callers of an executor method resume. So `enterPosition` is three actions:
`EnterPosition` (the emergency gate), `SizePosition` (the active bin has arrived:
size, circuit breaker, the executor's balance check) and `OpenPosition` (pool data
and bin have arrived: balance, position, record) with `EntryFails` for the ways
out. The scan is a process of its own (`scanPc`), because `isScanning` admits one.
Checks and user closes are `Closer`s, as many at a time as the constant allows:
`CheckPositions` takes the snapshot, `CheckExitConditions` reads the price of one
position, then `KeepPosition`, `ClosePosition` or `CloseFails`; a user close
begins with `ClosePositionById`. The emergency callback is `emgPc`: it saves the
balance, takes a snapshot, closes each position in it whatever comes of it, and
stops the engine.

| Variable | In the code |
|---|---|
| `runState`, `registered` | `isRunning` (and whether the engine was ever started); `runningBots.has(botId)` |
| `status`, `pool`, `amount`, `pnl` | `TrackedPosition` of the executor's map |
| `balance` | `virtualBalanceLamports`, in units of the fee of 5000 lamports |
| `cb` | the circuit breaker; time only as far as its gate can tell |
| `cooldowns` | the pools still cooling down; `CooldownExpires` is the passing of time |
| `triggered`, `limitHit` | `isTriggered`; whether some loss counter is at its limit. A loss may take one there, a profit or a new day may take it back |
| `snapshot`, `topPools`, `target`, `size` | locals of `scanMarkets` and `enterPosition` |
| `pc`, `todo`, `closing` | locals of the checks and closes in flight |
| `lateEntries`, `reclosed` | history, for the properties only |

Bounds: `Position` bounds the positions ever opened (a scan plans no more than are
left, `ScanFilter`), `Closer` the closes in flight; the realized profits come from
`PnlSet`, cut off at a total loss. `PnlSet`, the sizes and the limits are given in
the configurations. The scan takes any ranking of the pools (`TopPools`), so the three
ways of scoring them and their scores are covered without being modelled. `MarketFails`
lets every read fail.

Assumptions on the constants: the balance a scan asks for is at least the reserve,
and the reserve at least two fees per position (`ReserveAssumption`: 0.05 SOL and
0.03 SOL against at most 20 positions and 0.000005 SOL).

### TradingEngine: runs

| Run | Question | Instance |
|---|---|---|
| `engine` | do the limits hold under every interleaving with failing reads? | 3 pools, 3 positions, 2 slots, 1 closer; a full loss and a partial one |
| `overlap` | and with two closes in flight, as overlapping checks and requests make them? What do they break? | 2 pools, 2 positions, 2 closers |
| `live` | do scans end, does a stopped bot drain, does a loss limit halt it? | 1 slot, 2 pools, 2 positions, no symmetry |

Two slots and three positions let a slot be freed and taken again while a scan
still holds the old snapshot; one more position or pool repeats that. Two closers
are what a double close needs, and a third only closes a third time. The balance
of 20 lets a third entry be cut down by the reserve, so that sizes differ. Runs
do not check deadlock: a stopped bot, or one out of positions, stops.

Fairness (`FairSpec`, `TimerSpec`): an activity that has begun goes on, because
every promise it awaits settles and every pause ends; the scan timer fires while
the engine runs. A fetch that never settles would break the first; the code sets
no deadline of its own on it. Nothing makes a user or a trade act.

### TradingEngine: what the runs show

- The limits hold although slots and pools are taken from a stale snapshot: only
  the scan opens positions, and closes only free what it counted.
- After a trigger at most one position is opened: the one whose gate was passed.
- The circuit breaker may count too much (emergency closes are not recorded), but
  never too little, until some position is closed twice.
- Two closes of one position in flight credit its amount twice
  (`simulation-executor.ts:159` does not look at the status). It is the only way
  for the books to go wrong (`OnlyReclosingMiscounts`).
- Seen while modelling, and without a run of its own: an entry in flight at the
  trigger survives the emergency close (`trading-engine.ts:996`), on an engine that is
  then stopped and watches nothing.
- A stopped engine still opens what was being entered when it stopped; `StopDrains`
  says that this comes to an end, and `SettledForGood` that it is then over.

### TradingEngine: what is proved

`TradingEngineProofs` proves, for every value of the constants that meets the
assumptions, that the variables keep their types (`TypeCorrect`), the invariants of
run `engine` (`MaxPositionsHold`, `PoolsHeldOnce`, `LateEntriesBounded`,
`FeesAlwaysCovered`), of run `overlap` that the breaker counts every active position
(`BreakerCounts`), and the action property `SettledForGood` (`SettledStays`).

None of the five is inductive alone. The invariant `Safe` adds what the scan knows
at each await: until the pools are filtered every active position is in the
snapshot, planned entries count against the slots (`Slots`); an entry past the gate
is the only one that can be late (`Late`); and the balance pays two fees for each
planned entry and one for each active position, at an entry being opened even
after its amount has been taken (`Fees`). `WellFormed` is the type invariant with
what the activities refer to. Steps are proved in groups: those that neither scan,
open nor close leave everything `Safe` looks at (`QuietSafe`); a close of any
position at any time keeps it (`CloseSafe`), whoever asks for it; the scan's steps
have one lemma each.

The two books of amounts are a second invariant, `Books`, on top of `Safe`: until a
position is closed twice, the exposure is at least the sum of the active amounts
(`ExposureCounts`), and the balance is the initial one, less what is locked, plus what
was realized, less the fees (`BalanceExact`). Steps are of three kinds here: an entry
adds a position and its amount to both, a close moves an amount from one sum to the
other, and the rest leave both alone.

`Sums` is what that takes. The sum is the fold of the community modules, and the lemmas
take an element out of it (`SumRemove`), put one in (`SumAdd`), or change one value
(`SumChange`). The induction over finite sets behind them is by a minimal
counterexample (`SubsetInduction`, from `WFMin` of the library), since the library's
induction theorems take an operator; and since a fold is a recursive function on the
subsets of one set, `TablesAgree` first says that its value does not depend on which.

Only model-checked: the liveness properties, which are out of the prover's reach.

## 3. BotLifecycle

A request, or the recovery of the bot after a restart, is an activity that waits at
each database call; an action is what runs between two waits. The label `pc` says
what an activity is about to do: `read` and `mark` are the routes of
`src/routes/bot.ts`, `lockStart` and `row` are `startBot`, `lockStop` and `persist`
are `stopBot`, `revert` is the catch that writes the status `error`, `settle` and
`erase` end a delete, `exit` ends a shutdown.

| Variable | In the code |
|---|---|
| `status`, `deleted` | `bots.status`, `bots.deletedAt` |
| `locked`, `running` | `botLocks`, `runningBots`, for this bot |
| `created`, `active`, `scanning` | the engines made by this server process, those with `isRunning`, those with a scan in flight |
| `triggered`, `cbPc`, `victim` | of each engine: its emergency stop has triggered, where the callback is, and the engine the callback found under the bot's id |
| `held` | `running` in `stopBot`, read before its awaits and used after them |
| `orderly` | history: every request began when nothing else was under way, and no limit was exceeded |

Abstracted: database calls of a handler between which nothing of this state is read
or written are one wait; an early return inside the lock is atomic, since no other
callback can come between. Any call may fail: what a handler catches is in its
actions (`BuildFails`, `Revert`, `CallbackReports`), what it does not catch ends it
(`CallFails`, `StopFails`). The configuration of the bot, its name, its statistics and
the rows of its positions are left out here; what a change of the starting balance
resets is in `LossMemory` and `PositionRecords`.

| Run | Question | Instance |
|---|---|---|
| `lifecycle` | do the lock, the registry, the engines and the status agree? | two clients with every operation, two engines per process, one crash or shutdown |
| `answered` | does every request end, and every trigger halt its engine? | one client, two engines, one crash, under `FairSpec` |
| `restart` (violation) | does a start that succeeds leave the bot running? | one client, no crash |

Two clients are what a race for the lock needs; the recovery is a third party to it.
Two engines make an old one and a new one. One crash lets recovery meet every row
that a crash can leave behind, and the recovery of a recovery is the same again.

Fairness: each activity and each callback goes on (`FairSpec`), because database
calls and closes settle. No client must ask for anything, no scan must happen, no
limit must be exceeded, and the server need not restart.

What the runs show:

- The lock is held exactly by the one that works under it, and released on every way
  out. No running engine is ever lost: it is registered, or a callback is about to
  stop it, although the manual emergency stop removes the bot without the lock.
- With overlapping requests the status in the row and the engines may disagree for
  good, so `StatusAgrees` is about clients that wait for their answers. For them it
  holds through starts that fail, crashes and recovery. It does not hold when a call
  fails that nothing catches, after the status has been written: an entry of the log
  that cannot be inserted leaves a bot `stopped` in its row and trading
  (`bot.ts:485`). `orderly` excuses those histories.
- `restart`: **after an automatic emergency stop a start reports success and starts
  nothing** (`orchestrator.ts:122`), because the callback stops the engine and leaves
  it registered.
- Seen while modelling, and without a run of its own: the callback of an old engine
  stops the new one (`orchestrator.ts:214`), because it looks the bot up by its id; a
  deleted bot can be started (`bot.ts:408`); a start during the closes of a manual
  emergency stop makes a second engine beside the first (`orchestrator.ts:426`).

What is proved, for any number of clients, engines and crashes: `LifecycleTypes`,
`LockExcludes`, `EnginesReachable`. `NoEngineLeaks` is not inductive: that a stop
which removes the registered engine stops the right one needs what it read under the
lock to be true still (`LockedView`: only an emergency can have removed it
meanwhile), and that the emergency handler may forget an engine needs that engine to
have a callback (`CallbackView`: the registered engine does not run on after its
trigger unless a callback is about to stop it). `DownView` says that nothing is under
way in a server that is down. Steps that only move an activity share one lemma
(`MoveInv`); the others have one each.

`StatusTrue` (`StatusAgrees`) has an invariant of its own, `OneAtATime`, about orderly
histories: one activity is under way at most, `Stage` says at each of its waits what is
then true of status and engines, the only engine that runs is the registered one
(`Single`), and while a callback is under way nothing else is (`Halting`). A lemma for
each route shows that it ends with status and engine in agreement, whatever fails on
the way. Only model-checked: liveness.

## 4. EmergencyStop and LossMemory

`EmergencyStop` has the class as a record and an operator per method. Its window of
API errors is a number that may shrink at any time, which is what pruning does; the
window of transaction failures works alike, is used by the live executor alone, and is
a counter of `LiveExecution`.

`LossMemory` follows that record from the engine's memory to the row and back. A
save is an activity: `logging` while the handler of a closed position makes its four
database calls, `writing` from the moment the state of the engine is serialized until
the update lands. Two saves may be in flight and land in either order, because each
takes a connection from the pool (`src/db/index.ts`). A change of the simulated balance
clears what is saved: it looks at the status first (`ConfigRead`) and writes later
(`ConfigWrite`), when the bot may run again.

| Variable | In the code |
|---|---|
| `status`, `saved` | `bots.status`, `bots.emergencyStopState` |
| `es` | the `EmergencyStopState` of the bot's engine |
| `bot` | absent from `runningBots`, starting, registered, being stopped by its user or by a shutdown, or the process is over |
| `callback` | whether the emergency callback has not begun, is closing positions, or has written the status `error` |
| `pc`, `json` | each save, and what it writes |
| `config` | a request that changes the balance has found the bot stopped |
| `today` | the UTC day; the code compares dates |
| `dayPnl`, `allPnl`, `streak` | history: the losses as they were |
| `halted`, `excused` | history |

`LossesRemembered` compares what the engine knows with what happened. It excepts the
histories in which the code is known to lose something, and `excused` names each at
the action that does it: a handler or a save failed, or the bot was gone when the
handler came to save (`SaveFails`, `Serialize`); two saves were being written at once
(`Persist`); the process ended with a save under way (`LoseMemory`); a start came
while a save of the last session was under way (`UserStart`); a result came after
midnight and before the next gate, which goes to the day before (`PositionCloses`);
a state that was saved triggered was reset (`BuildEngine`); a start met the engine that
an emergency had stopped (`UserStart`); a change of configuration that began while the
bot was stopped ended after its start (`ConfigWrite`). Everything else must be
remembered, exactly. `SavedIsTrue` says the same of the row: when no save is under way,
what is saved of a bot that is to run, triggered or not, is what was lost.

| Run | Question | Instance |
|---|---|---|
| `losses` | does the emergency stop know what was lost, and does the row? | two saves in flight, two results of one unit won or lost, two days, one crash; the limits are two losses in a row, 2 units a day, 3 in all, one API error |

Two results make a streak and reach two of the loss limits; the second day resets what
the first has counted; one crash or shutdown takes the state through the row. Each
limit sets the same flag, so that the total limit, which two results cannot reach, adds
no further behaviour.

What the runs show:

- Apart from the named exceptions nothing is forgotten, and a crash when no save is
  under way costs nothing, unless the state was saved triggered.
- A state that was saved triggered is right in the row (`SavedIsTrue`) and is then wiped
  by recovery (a start by the user has cleared it before): `fullReset` (`orchestrator.ts:193-196`) clears every counter, where
  the comment above it (`:191-192`) says that "loss counters are preserved" and that the
  bot will trigger again at the same limit. The model does what the code does, and
  `excused` names the histories in which it happened; no property holds the code to the
  comment.
- Seen while modelling, and without a run of its own: a trigger does not outlast a
  crash (`emergency-stop.ts:366`): it saves nothing, and until the callback has written the status `error` recovery
  starts the bot again, with the losses below or at their limit and the API errors
  forgotten, or, if a close saved the state after the trigger, with every counter
  wiped.

What is proved, for any limits, results, days, crashes and number of saves:
`LossTypes`, `LossesAreRemembered`, `SavedIsRight` (`SavedIsTrue`). The invariant `Inv`
adds that nothing is dated in the future (`Dates`: otherwise a new day would not reset
it), what each phase of the bot excludes (`Phases`), and the link between memory and row
(`SavesRight`): no two saves are written at once, and the only one under way has it
right. That is why a save that lands leaves the row right, and why an engine built from
the row knows everything. The lemma behind midnights is `MidnightKnows`.

## 5. PositionBook and PositionRecords

The engine reports a position opened or closed by an event, and the orchestrator
answers with an async handler that nobody awaits. A handler is therefore a process:
`onPositionOpened` waits at the insert (`insert`) and then at what is left (`rest`);
`onPositionClosed` updates the row (`row`), reads the bot's totals (`read`), writes
them back with the result added (`write`) and goes on to the emergency stop and the
balance (`rest`). Between any two of these another handler, a stop, a request or a
crash may come. A live close takes the account off the chain (`RemoveAccount`) some waits
before the position is closed (`ClosePosition`), and may fail in between (`CloseFails`),
which leaves a position that is tracked and not on the chain. Writes take a connection from a pool, so two that are under way land in
either order.

| Variable | In the code |
|---|---|
| `registered`, `isRunning`, `mem`, `balance` | `runningBots.has(botId)`; the engine's flag, its tracked positions and its virtual balance |
| `entering`, `exiting` | what the engine is opening and closing |
| `accounts` | the positions of a live bot whose account is on the chain; the user may close one with another tool (`ExternalClose`) |
| `stopped`, `config` | `bots.status` is "stopped", which the stop route writes first (`RequestStop`); a change of the starting balance has read so |
| `row`, `result` | `positions.status`, and whether the row has its result |
| `trades`, `pnl`, `saved` | the totals of the bot, and the virtual balance in its row |
| `hpc`, `hpos`, `hread`, `save` | the handlers under way, what each has read, and the saves of the balance in flight |
| `stopPc`, `emgPc`, `routePc`, `recPc` (and their locals) | `stopBot` with its marking of orphans, the emergency stop, `POST /position/:id/close`, the reconciliation |
| `opened` | for each position, where its `onPositionOpened` waits |
| `outcome`, `dismissed`, `mishaps` | history: what the engine has reported, the results that a new starting balance reset, and what went wrong (`failed`, `crashed`, `overtaken`, `overlapped`, `reconfigured`, ...); a property names the mishaps that excuse it |

`PositionBook` says what the table promises: a position is entered once, it is settled
only with the result the engine has reported for it, and neither is taken back.
`BookKept` states that `PositionRecords` implements it
(`INSTANCE PositionBook WITH ...`).

| Run | Question | Instance |
|---|---|---|
| `records` | do rows, totals and balance agree with the engine through stops, starts and new starting balances? | simulation; 2 positions, 1 handler, 1 save, 2 sessions of the bot; stops with restarts, or with changes of the configuration |
| `mishaps` | what holds whatever goes wrong? | live; 2 positions, 2 handlers; four scenarios: an emergency stop; reconciliation with closes by the user; crash and restart; a stop; all but the first with failing calls |

Two positions are what an overlap of two handlers needs, two sessions what a stop that
leaves something to the next one needs. One handler at a time is the case in which
`TotalsExact` must hold; the second run has the two at once that break it. A scenario is
the set of things that may come in between in one behaviour; the theorems hold for every
set of scenarios, all of them together included. A close that finds the account without
liquidity is left out.

What the runs show:

- With closes that do not overlap, and no failed call, every result reaches its row and
  the totals are the sum of the results since the last new starting balance, which resets
  them (`bot.ts:321-338`). Two handlers at once lose one of two results
  (`orchestrator.ts:800`), and a reset between the read and the write of a handler is
  undone by it, but the totals never count too much (`NeverOvercounted`).
- The balance saved is the engine's once no save is under way, except after a crash or a
  failed call, when two saves were in flight, or when the starting balance was changed
  while the bot was registered. Proceeds of an emergency close are not
  saved: the save comes first (`orchestrator.ts:217`).
- A position that opens while `stopBot` awaits the database is not among those it marks
  (`orchestrator.ts:385`); `NoPhantoms` names this and the other histories in which a row
  stays active for a position that no engine has.
- `emergencyCloseAll` emits no events, so the rows of what it closes stay `closing` or
  `active`, without a result, and `NoPhantoms` excuses emergencies.
- The reconciliation never touches the row of a position whose account is on the chain
  and which the bot is tracking (`ReconcileSparesTracked`), however long ago it looked.
  A missing account is enough for it to close a row, tracked or not
  (`position.ts:360-370`): so it closes the row of a position in the middle of its live
  close, and of one that a close left active by failing after the removal.
- In simulation there are no accounts, and it closes every active row; the comment at
  `position.ts:418` takes simulated positions to have no key, but every position has one,
  so that the loop over positions without one never does anything.
- Reconciliation and stops may write `orphaned` over `closed`; the result stays.

What is proved, for any numbers: `TypeCorrect`, `CountsAtMost` (`NeverOvercounted`),
`TrackedSpared` (`ReconcileSparesTracked`) and `BookImplemented` (`BookKept`). The
invariant `RecordsInv` adds that rows follow what the engine has reported
(`RowsFollow`), that a handler under way has a result to write (`HandlersHaveResults`),
and that a reconciliation takes to be missing only what has left the chain for good and
is about to write no row that is tracked and on the chain (`ReconcileView`). The bound on the totals is a counting argument: `RoomToCount` says
that a handler that has yet to count its trade leaves room for it among the trades
reported.

The four invariants on what finally arrives are proved too; each says what is on its way
while it has not arrived. `ResultsArrive` (`ResultsReachRows`): a result that is not in
its row is with a handler that has still to write it (`ResultsOnTheWay`). `TotalsTrue`
(`TotalsExact`): the totals are the number and the sum of the closes counted and not
reset so far, and what the one handler at work has read is what they still are
(`TotalsInStep`).
`NoneLeftActive` (`NoPhantoms`): an active row is of a position the engine holds and the
stop under way has still to mark, or of one whose close is about to be written; and once
a stop marks rows nothing is on its way in (`ActiveRowsHeld`). `BalanceKept`
(`BalanceSaved`): the balance of a registered bot is in its row, in the one save in
flight, or will be saved by a handler at work (`BalanceOnTheWay`). The mishaps that each
excuses are those the property names.

## 6. SendOutcome and TransactionSender

One call of `sendTransaction`: at each attempt it takes a blockhash, signs, sends and
waits for a confirmation, until an attempt succeeds, the error is not one to retry, or
the attempts are used up. A legacy transaction is signed anew with each blockhash, so
that each attempt makes a copy which may still land when the next is sent. The copies
are on the chain: `sent`, `processed`, `confirmed`, or with an error (`erring`,
`errored`); a processed copy may be forked away, and one whose blockhash has `expired`
can no longer be processed.

`doubts` is history: how a failure came to be reported while the copy could still take
effect. `lostAnswer` (the call that sent it failed, but it was sent), `timeout` (the
deadline passed before the status came), `unseen` (it is confirmed, and the node asked
does not show it yet), `overtaken` (the copy was processed, and the height read after the
status has passed its limit), `erring` (an error seen in a block that may yet be forked
away).

Run `sender` has three attempts, which is `maxRetries` 2: the first may land during the
second or after it, and the third repeats that. It shows that the effect takes place
twice only after a doubt (`RetriesSafely`), that a failure without one is final
(`FailureIsFinal`), that the sender implements `SendOutcome` (`PromiseKept`: one answer
which does not change, and a success only for a confirmed copy), and that there is an
answer (`Answered`). Fairness (`FairSpec`): every call the sender makes is answered or
fails, and the clock passes the deadline of a confirmation that keeps looking; the chain
need do nothing.

What is proved, for any number of retries: `TypeCorrect`, `SafeRetries`,
`FinalFailure`, `Promise`. The invariant `SenderInv` adds that copies come in the order
of the attempts (`CopiesInOrder`), that an answer ends the send (`AnswersLast`), and that
without a doubt every copy that was given up is dead (`DeadWithoutDoubt`).
Only model-checked: `Answered`.

## 7. LiveExecution

An entry, several closes and an emergency of one live bot, each from one wait to the
next, and the chain they meet. The model is of one executor's life.

- *Entry*: `Enter`, `SizeEntry` (budget and breaker), `PoolNotFound`, `FundSession` and
  `FundingAnswered` (the wallet pays the session signer, `seal-session.ts`),
  `CheckSigner`, `SendCreate`, then `Created`, `CreateFails` or `OpenThrows`.
- *Closes*: `BeginClose`, or `BeginCheck` with `KeepPosition` or `ExitFound` for the
  check of one position; then `FindParts` or `FindNothing` on the chain, `SendRemove`,
  `Removed` and `RemoveFails` for each of the transactions a close takes, and `Closed`
  or `CloseThrows`.
- *Emergency*: `EmergencyBegins` takes the list of active positions, and
  `EmergencyCloses` closes the next of them by the same steps. The closer in `alone` works
  for the emergency: the executor records its close, and the engine does not
  (`trading-engine.ts:996`).
- *Chain*: `TransferLands`, `CreateLands`, `RemoveLands`, `Drop`, `ClosedOutside`, which
  is the user closing a position with another wallet tool (`position.ts:308-311`), and
  `OtherBotTakes`, because the bots of a user share one wallet. `Time` lets the windows
  of the safety systems shrink.

A transaction is reported as failed while it may still land: what
`TransactionSender` calls a doubt is here a choice. The breaker is told twice of every
position, by the executor and by the engine, with different amounts
(`seal-executor.ts:233`), and the emergency stop twice of every result, which may be a
loss to the one and a profit to the other: the executor's includes fees and costs
(`seal-executor.ts:589`), the engine's does not (`trading-engine.ts:806`). Of an
emergency close both are told once.

A read of the chain is assumed to see every transaction that has taken effect. A node
that lags behind would let a close find nothing of a position that is there.

Run `execution`: two pools, two positions, two closers, two transactions to a close. Two
parts are what a close that fails in the middle needs, and two closers what lets one
close meet another's parts, or the emergency's; the wallet holds enough for one full
position and one that is resized. `Counted` keeps the breaker's window of transactions no
longer than its limit, which changes no answer: `Time` empties it as a whole, with the
pause between trades, and the limit of one is here as good as any. The instance is kept
finite in size by three scenarios, sets of things that may happen in one behaviour: a
second entry with closes that overlap; a second entry with an emergency and closes by the
user; and overlapping closes with these two. The theorems hold for all of them at once.
3.2 million states. It shows:

- As long as the executor lives, liquidity it created and does not watch comes from
  nothing but a creation that was reported failed and landed (`LiquidityIsTracked`); what
  a stop or a crash leaves behind on the chain is outside the model. A position closed
  with a result has left the chain, whatever was retried (`ClosedIsGone`).
- `course` is the history of a position's closes: `smooth`, `slipped` once one failed
  half-way, `outside` once the user closed it, `overlapped` once two were at work at a
  time. The result of a position whose closes have not overlapped is recorded twice, or
  once if an emergency closed it; after a slip or a close by the user it may not be
  recorded at all (`ResultRecorded`): a close then finds nothing on the chain and reports
  no result.
- While no two closes have met, the breaker counts every live position twice
  (`CountedTwice`). For good it keeps one count of each position that was not found and
  one of each that an emergency took out of the books (`unheard`). The exposure keeps the
  corresponding amounts, and of every position the difference between what the engine
  asked for and the executor deposited (`ExposureKept`). With three closes of one
  position in flight the breaker would count less than there is.
- An entry is sent only when the signer covers it (`CreateIsCovered`), although the
  error of the funding transaction is not looked at (`seal-session.ts:374`), because the
  signer's balance is read again before.
- Seen while modelling: proceeds of a close go to the session signer, but `getBalance`
  returns the wallet's balance, so that a bot that trades counts itself poorer than it
  is.

What is proved, for any numbers of pools, positions, closes and parts: `TypeCorrect`,
`LiquidityTracked`, `ClosedGone`, `CreateCovered`. The invariant `ExecInv` says for each
activity what it works on: the entry (`OpenerHeld`), each close (`CloserHeld`: it comes
to its end when the account is gone), each transaction in flight, which belongs to who
waits for it or has been given up (`FlightHeld`), and how the executor's map and the
chain agree (`BookHeld`). `CoverKeeps` carries the signer's balance from the check of it
to the sending.

The other three, `ResultsRecorded` (`ResultRecorded`), `TwiceCounted` (`CountedTwice`) and
`ExposureTrue` (`ExposureKept`), rest on a second invariant, `CloseInv`, about positions
whose closes have not overlapped: one close works on such a position, which stays active
while it does (`OneClose`); what is gone from the chain was in the books, or the user has
closed it (`GoneHeld`); a smooth position without liquidity has a close that is at its end
(`LeftAlone`); its results come together, two or for an emergency one (`ResultsHeld`); and
an entry deposits no more than was asked for (`EntryHeld`), without which a close could
take more from the exposure than is in it. What a close takes out of the two books is one
lemma for both callers, with the engine's record and without (`CloseRecords`,
`CloseBooks`).
All invariants of the run are proved.

## 8. LiveWallet

The routes by which one user makes bots trade live, and takes the money back. A route
waits at its reads and writes; the transaction it prepares is signed and submitted
later, twice or never, and `submit-signed` writes to the rows what it takes to have
happened. `row` has each bot's keys and addresses, `recorded` the wallet's address;
`tx` and `status` are the transactions prepared, sent, landed or failed; `open`,
`agents`, `sessions` and `revoked` are the chain's accounts. A key stands for
the keypairs of agent and session which setup-live makes together and pays together:
`funds` is what the session signers hold, `purses` whose agent signers hold something
(`wallet.ts:1502-1522`). The agent's pays for the session, and no route moves what is left
on it, so a purse is never emptied. `missed` is history: of a recovery, the keys it
did not read, and those paid after it read them.

The hazard is that the server alone has a signer's secret key: what a signer
holds is lost when the key is in no row. Run `wallet` has two bots, two keys, two
requests, which overlap only where a scenario says so, four transactions, and seven
scenarios (`MCLiveWallet`): setups and withdrawals that are retried, land late and fail
while engines trade; keys the app registers beside those of the setup; revocation,
deletion and recovery; these without failing calls; recoveries that meet trades, late
transactions and balances that cannot be read; recoveries with trades, withdrawals and
transactions submitted twice; and recoveries that overlap setups. A scenario is the set
of operations a behaviour may use, which keeps the instance finite and lets a property
say what it takes for granted.

`EraseLosesNothing` holds in every scenario. When a recovery erases the keys, a session
signer in the rows holds nothing, or is one that the recovery missed: it did not read it,
because the call failed (`wallet.ts:1802`) or the key came into the rows afterwards, or
the signer was paid after it had. These are lost: TLC finds the first and the last when
they are taken out of the property, and the second takes a longer history, in which the
wallet is closed and opened again meanwhile, than the run has transactions for. Lost
always is what the agents' signers hold: the recovery
reads the session signers only (`wallet.ts:1783-1803`), and erases the agents' keys with
the others (`:2196`).

`FundsReachable`, `AgentsKnown` and `RowMatchesKeys` hold for
behaviours that leave certain operations out, each named in the property's guard, and
TLC finds a counterexample when any of them is let in:

- Two setups of one bot that overlap make different keys, and the last to write wins.
- `revoke` clears the session's address before the owner has signed; a setup that
  comes after overwrites the secret of a signer that is still funded.
- `DELETE /bot` erases the secrets, although a comment of the withdrawal
  (`wallet.ts:1899`) counts on including soft-deleted bots; the deleted bot's agent
  also stays registered, so the wallet cannot be closed by that withdrawal.
- A recovery submitted erases the keys of all the user's bots on a flag of the client's,
  whether or not the transaction closed the wallet; submitted again, it erases newer
  keys.
- A failure between erasing the user's address and the bots' keys leaves keys without a
  wallet; a start then takes the owner's address for the wallet
  (`orchestrator.ts:280`).

Seen in the code while modelling, outside what the model counts: a withdrawal of less
than the total may pay less than asked (`wallet.ts:1976`), a withdrawal for chosen bots
drains those but closes the wallet of all, the limits `submit-signed` writes differ from
those of setup-live though a comment calls them the same (`wallet.ts:2170`), and a
submission that times out is reported failed though it may land.

`LiveWalletProofs` proves, for any number of bots, keys, requests and transactions and
for every scenario, that the variables keep their types (`TypeCorrect`) and the run's
properties: `FundsReachable` (`FundsAreReachable`), `AgentsKnown` (`AgentsAreKnown`),
`RowMatchesKeys` (`RowsMatchKeys`) and `EraseLosesNothing` (`ErasureLosesNothing`). None is inductive alone. The
invariant `IInv` says what a request may rely on after an await: it is the only one at
work, unless requests overlap (`Alone`); what it read of the rows is what they hold, but
for a bot deleted meanwhile (`Snapshots`), and it found there what its route asks for
(`Asked`). On these rest the rows: one with a session key has the other keys too
(`RowsWhole`), so setup-live takes such a row for complete and makes no new keys over it;
every signer that is paid, or may be, is of a key the server made (`KeysMade`), and every
such key is in a row (`KeysHeld`), as is every agent of a transaction still to land
(`AgentsHeld`). `Recorded` follows the erasing of a wallet through its two writes. The
steps are first reduced to what they do to requests (`Moves`), rows (`Writes`,
`RowWritten`), transactions (`Hands`, `OfferTx`) and the rest (`Rest`); each part of the
invariant then has one lemma over these.

That the agents' signers are reachable too follows from two more: as long as requests do
not overlap, a row's keys of the server are of one keypair (`PureRows`), and a purse
belongs to the key that the same transaction paid the session signer of (`PursesMade`),
so that the row which has the one key has the other.

`ErasureLosesNothing` (`EraseLosesNothing`) needs no scenario. It follows a recovery from
the moment it is handed out (`Kept`): as long as it has not taken effect it drains at
least what the signers it did not miss hold, and once it has they hold nothing. What takes
from a signer does no harm to this, and what pays one makes it missed (`KeptLanding`,
`KeptTrading`), however late the recovery lands. `Erasing` ties the two writes that erase
the rows to a recovery that has landed.

## 9. Not modelled, and why

`PROJECT.json` gives the reason for each part. In short: the shared cache, the
authentication and the sponsor are on the plan; the scores of pools and the features of
the predictor are arithmetic on data any value of which the models admit; the handlers
of prices, scans and errors write columns nothing decides on; `live-executor.ts` and
`wallet-manager.ts` are constructed by nothing; the AI, strategy, fleet and health
routes keep no state of their own; the middleware's limiter is a library's. In the
modelled parts fees, prices, spending limits and the layout of instructions are left
out, and so are the lamports of the smart wallet in `LiveWallet`.

TLAPS does not reach liveness, so `ScanReleased`, `StopDrains`, `LossLimitHalts`,
`RequestsAnswered`, `TriggerHalts` and `Answered` are model-checked only, and so is
the violation that run `restart` finds. Every invariant and every other action property
of a passing run is a theorem, for all values of the constants that meet the assumptions.
Where a type invariant is proved, most runs do not check it again.

One run expects a violation: `restart`, whose property is what the answer of the start
route promises. The other disagreements above were met with properties that did not
hold, and the properties were then stated for what the code does keep.

## 10. Plan

1. **Shared cache** (`SharedCache`): coalesced fetches, stale fallback, the rate limit.
   To prove: at most one fetch per key is in flight.
2. **Authentication** (`Auth`): nonces used once, refresh tokens rotated. To prove:
   a nonce is accepted at most once.
3. **Small modules**: the sponsor's initialization, the limit on the number of bots,
   the matching of batched predictions with pools.
4. **Pure operators** over bounded inputs, against reference definitions: the exit
   rules, the sizing of positions, the filter.
