---------------------------- MODULE TradingEngine ----------------------------
(***************************************************************************)
(* One bot in simulation mode: the TradingEngine of                        *)
(* src/engine/trading-engine.ts with its SimulationExecutor, CircuitBreaker*)
(* and EmergencyStop, and the emergency callback the orchestrator installs.*)
(*                                                                         *)
(* Node runs one callback at a time, so an action is the code between two  *)
(* awaits and everything else may run at an await.  Four kinds of          *)
(* activity interleave: the scan (at most one, because of isScanning), the *)
(* position checks (an interval timer that does not look whether the       *)
(* previous check has finished), closes asked for by the user, and the     *)
(* emergency callback.  A check or a user close in flight is a Closer.     *)
(*                                                                         *)
(* Amounts are counted in units of the simulated transaction fee.          *)
(***************************************************************************)
EXTENDS CircuitBreaker, FiniteSets, FiniteSetsExt

CONSTANTS
  Position,        \* position ids; bounds the positions ever opened
  Closer,          \* closing activities; bounds those in flight at a time
  PositionSize,    \* config.positionSizeSOL
  MinPosition,     \* config.minPositionSOL
  MaxPosition,     \* config.maxPositionSOL
  Reserve,         \* RESERVE_SOL
  InitialBalance,  \* the balance the executor is constructed with
  PnlSet,          \* the profits and losses a close may realize
  MarketFails,     \* whether a market-data read may fail
  NoPool,          \* no entry in progress
  NoPosition       \* no close in progress

ASSUME EngineAssumption ==
  /\ IsFiniteSet(Pool) /\ IsFiniteSet(Position)
  /\ PositionSize \in Nat \ {0} /\ MaxPosition \in Nat
  /\ MinPosition \in Nat /\ Reserve \in Nat /\ InitialBalance \in Nat
  /\ PnlSet \subseteq Int
  /\ MarketFails \in BOOLEAN
  /\ NoPool \notin Pool /\ NoPosition \notin Position

\* The reserve a sizing leaves, and the balance a scan asks for, pay the fees of
\* every position (0.03 SOL and 0.05 SOL against 20 positions and 0.000005 SOL).
ASSUME ReserveAssumption ==
  /\ 2 * MaxPositionCount <= Reserve
  /\ Reserve <= MinPosition

VARIABLES
  runState,    \* the engine object: created, running, stopped
  registered,  \* the orchestrator's runningBots has the bot
  status,      \* position -> none, ACTIVE, CLOSED
  pool,        \* position -> its pool
  amount,      \* position -> entryAmountX + entryAmountY
  pnl,         \* position -> realizedPnlLamports
  balance,     \* virtualBalanceLamports
  cb,          \* the circuit breaker
  cooldowns,   \* pools on cooldown
  triggered,   \* emergencyStop.isTriggered
  limitHit,    \* some loss counter of the emergency stop is at its limit
  scanPc,      \* where the scan waits
  snapshot,    \* scanMarkets: activePositions
  topPools,    \* scanMarkets: pools left to enter, the current one included
  target,      \* enterPosition: pool
  size,        \* enterPosition: amountY
  pc, todo, closing, \* closer -> where it waits, its snapshot, its position
  emgPc, emgTodo,    \* the emergency callback
  \* history
  lateEntries, \* positions opened after the emergency stop triggered
  reclosed     \* some position was closed twice

positionVars == << status, pool, amount, pnl, balance >>
gateVars     == << triggered, limitHit >>
scanVars     == << scanPc, snapshot, topPools, target, size >>
closerVars   == << pc, todo, closing >>
emgVars      == << emgPc, emgTodo >>
lifeVars     == << runState, registered >>
history      == << lateEntries, reclosed >>
vars == << lifeVars, positionVars, cb, cooldowns, gateVars, scanVars, closerVars,
           emgVars, history >>

-----------------------------------------------------------------------------
Active == { p \in Position : status[p] = "ACTIVE" }
Fresh  == { p \in Position : status[p] = "none" }

Min2(a, b) == IF a <= b THEN a ELSE b
Max2(a, b) == IF a >= b THEN a ELSE b

\* Mutant of CalculatePositionSize: the reserve is not kept back.
CalculatePositionSizeNoReserve(bal) ==
  Min2(Max2(MinPosition, Min2(MaxPosition, PositionSize)), Max2(0, bal))

\* calculatePositionSize for a configured positionSizeSOL: clamped to the
\* configured range, and then to what the balance leaves above the reserve.
CalculatePositionSize(bal) ==
  Min2(Max2(MinPosition, Min2(MaxPosition, PositionSize)), Max2(0, bal - Reserve))

\* What closing a position of amount a can realize: prices are not negative, so
\* at worst all of a is lost.
Outcomes(a) == { x \in PnlSet : x >= -a /\ (a = 0 => x = 0) }

TypeOK ==
  /\ runState \in {"created", "running", "stopped"}
  /\ registered \in BOOLEAN
  /\ status \in [Position -> {"none", "ACTIVE", "CLOSED"}]
  /\ pool \in [Position -> Pool \cup {NoPool}]
  /\ amount \in [Position -> Nat]
  /\ pnl \in [Position -> Int]
  /\ balance \in Int
  /\ cb \in CircuitBreakerState
  /\ cooldowns \subseteq Pool
  /\ triggered \in BOOLEAN /\ limitHit \in BOOLEAN
  /\ scanPc \in {"idle", "balance", "filter", "loop", "pricing", "opening"}
  /\ snapshot \subseteq Position
  /\ topPools \subseteq Pool
  /\ target \in Pool \cup {NoPool}
  /\ size \in Nat
  /\ pc \in [Closer -> {"idle", "next", "checking", "user"}]
  /\ todo \in [Closer -> SUBSET Position]
  /\ closing \in [Closer -> Position \cup {NoPosition}]
  /\ emgPc \in {"off", "persist", "closing", "done"}
  /\ emgTodo \subseteq Position
  /\ lateEntries \in Nat /\ reclosed \in BOOLEAN

Init ==
  /\ runState = "created" /\ registered = FALSE
  /\ status = [p \in Position |-> "none"]
  /\ pool = [p \in Position |-> NoPool]
  /\ amount = [p \in Position |-> 0]
  /\ pnl = [p \in Position |-> 0]
  /\ balance = InitialBalance
  /\ cb = InitialBreaker
  /\ cooldowns = {}
  /\ triggered = FALSE /\ limitHit = FALSE
  /\ scanPc = "idle" /\ snapshot = {} /\ topPools = {}
  /\ target = NoPool /\ size = 0
  /\ pc = [c \in Closer |-> "idle"]
  /\ todo = [c \in Closer |-> {}]
  /\ closing = [c \in Closer |-> NoPosition]
  /\ emgPc = "off" /\ emgTodo = {}
  /\ lateEntries = 0 /\ reclosed = FALSE

-----------------------------------------------------------------------------
(* EmergencyStop, as far as the engine can tell *)

CanTrade == ~triggered /\ ~limitHit

\* trigger() fires once.  Its callback runs up to its first await at once, and
\* does nothing to the engine when the orchestrator no longer has the bot.
Trigger ==
  IF triggered
    THEN UNCHANGED << triggered, emgVars >>
    ELSE /\ triggered' = TRUE
         /\ emgPc' = IF registered THEN "persist" ELSE emgPc
         /\ UNCHANGED emgTodo

\* The effect of calling canTrade().
ConsultGate ==
  /\ UNCHANGED limitHit
  /\ IF limitHit THEN Trigger ELSE UNCHANGED << triggered, emgVars >>

\* recordTradeResult(): a loss can take a counter to its limit, a profit can take
\* one back from it.
RecordTradeResult(x) ==
  limitHit' \in IF x > 0 THEN {limitHit, FALSE} ELSE {limitHit, TRUE}

\* checkDailyReset(): the daily counters are cleared on a new UTC day.
CheckDailyReset ==
  /\ limitHit /\ limitHit' = FALSE
  /\ UNCHANGED << lifeVars, positionVars, cb, cooldowns, triggered, scanVars,
                  closerVars, emgVars, history >>

-----------------------------------------------------------------------------
(* Scanning for entries *)

\* scanMarkets up to its first await: at most one scan, the emergency gate, and
\* a snapshot of the active positions.
ScanMarkets ==
  /\ scanPc = "idle"
  /\ ConsultGate
  /\ IF CanTrade /\ Cardinality(Active) < MaxPositionCount
       THEN scanPc' = "balance" /\ snapshot' = Active
       ELSE UNCHANGED << scanPc, snapshot >>
  /\ UNCHANGED << topPools, target, size >>

Start ==
  /\ runState = "created"
  /\ runState' = "running" /\ registered' = TRUE
  /\ ScanMarkets
  /\ UNCHANGED << positionVars, cb, cooldowns, closerVars, history >>

ScanTick ==
  /\ runState = "running"
  /\ ScanMarkets
  /\ UNCHANGED << lifeVars, positionVars, cb, cooldowns, closerVars, history >>

EndScan ==
  /\ scanPc' = "idle" /\ snapshot' = {} /\ topPools' = {}
  /\ target' = NoPool /\ size' = 0

outsideScan == << lifeVars, cooldowns, limitHit, closerVars >>

ScanBalance ==
  /\ scanPc = "balance"
  /\ IF balance < MinPosition
       THEN EndScan
       ELSE scanPc' = "filter" /\ UNCHANGED << snapshot, topPools, target, size >>
  /\ UNCHANGED << outsideScan, positionVars, cb, triggered, emgVars, history >>

\* scoreRuleBased, scoreWithML and scoreHybrid: some of the pools, as many as there are
\* slots at most; none when no score is high enough or the predictor fails.
TopPools(pools, slots) ==
  { best \in SUBSET pools :
      /\ Cardinality(best) <= slots
      /\ Cardinality(best) <= Cardinality(Fresh) }     \* bound: Position

\* Mutant of ScanFilter: every scan fills all the slots.
ScanFilterAllSlots ==
  /\ scanPc = "filter"
  /\ topPools' \in TopPools(Pool \ (cooldowns \cup {pool[p] : p \in snapshot}),
                            MaxPositionCount)
  /\ scanPc' = "loop" /\ snapshot' = {}
  /\ UNCHANGED << target, size >>
  /\ UNCHANGED << outsideScan, positionVars, cb, triggered, emgVars, history >>

\* Mutant of ScanFilter: only the cooldowns keep a scan out of a pool.
ScanFilterCooldownOnly ==
  /\ scanPc = "filter"
  /\ topPools' \in TopPools(Pool \ cooldowns, MaxPositionCount - Cardinality(snapshot))
  /\ scanPc' = "loop" /\ snapshot' = {}
  /\ UNCHANGED << target, size >>
  /\ UNCHANGED << outsideScan, positionVars, cb, triggered, emgVars, history >>

\* The eligible pools have arrived: those on cooldown now and those of the
\* snapshot are dropped, and the best ones fill the slots of the snapshot.
ScanFilter ==
  /\ scanPc = "filter"
  /\ topPools' \in TopPools(Pool \ (cooldowns \cup {pool[p] : p \in snapshot}),
                            MaxPositionCount - Cardinality(snapshot))
  /\ scanPc' = "loop" /\ snapshot' = {}                \* not read again
  /\ UNCHANGED << target, size >>
  /\ UNCHANGED << outsideScan, positionVars, cb, triggered, emgVars, history >>

\* Mutant of ScanFails: the error path does not release isScanning.
ScanFailsUnreleased ==
  /\ scanPc = "filter" /\ MarketFails
  /\ scanPc' = "failed"
  /\ UNCHANGED << snapshot, topPools, target, size >>
  /\ UNCHANGED << outsideScan, positionVars, cb, triggered, emgVars, history >>

\* The pool list could not be fetched.
ScanFails ==
  /\ scanPc = "filter" /\ MarketFails
  /\ EndScan
  /\ UNCHANGED << outsideScan, positionVars, cb, triggered, emgVars, history >>

ScanCompleted ==
  /\ scanPc = "loop" /\ topPools = {}
  /\ EndScan
  /\ UNCHANGED << outsideScan, positionVars, cb, triggered, emgVars, history >>

\* The scan is done with the pool q: enterPosition returned, and the pause of
\* half a second follows.
LeavePool(q) ==
  /\ scanPc' = "loop" /\ topPools' = topPools \ {q}
  /\ target' = NoPool /\ size' = 0
  /\ UNCHANGED snapshot

\* Mutant of EnterPosition: the gate is consulted once per scan only.
EnterPositionUngated(q) ==
  /\ scanPc = "loop" /\ q \in topPools
  /\ scanPc' = "pricing" /\ target' = q /\ UNCHANGED << snapshot, topPools, size >>
  /\ UNCHANGED << lifeVars, positionVars, cb, cooldowns, gateVars, closerVars, emgVars,
                  history >>

\* enterPosition up to its first await: the gate is consulted again.
EnterPosition(q) ==
  /\ scanPc = "loop" /\ q \in topPools
  /\ ConsultGate
  /\ IF CanTrade
       THEN scanPc' = "pricing" /\ target' = q /\ UNCHANGED << snapshot, topPools, size >>
       ELSE LeavePool(q)
  /\ UNCHANGED << lifeVars, positionVars, cb, cooldowns, closerVars, history >>

\* The active bin has arrived: size, circuit breaker, and openPosition up to
\* its first await.
SizePosition ==
  /\ scanPc = "pricing"
  /\ LET amt == CalculatePositionSize(balance) IN
       IF CanOpenPosition(cb, target, amt) /\ amt <= balance
         THEN scanPc' = "opening" /\ size' = amt /\ UNCHANGED << snapshot, topPools, target >>
         ELSE LeavePool(target)
  /\ UNCHANGED << outsideScan, positionVars, cb, triggered, emgVars, history >>

EntryFails ==
  /\ scanPc \in {"pricing", "opening"} /\ MarketFails
  /\ LeavePool(target)
  /\ UNCHANGED << outsideScan, positionVars, cb, triggered, emgVars, history >>

\* The pool data and the bin have arrived: the executor takes the amount and
\* the fee from the balance and tracks the position, and the engine records it.
OpenPosition(p) ==
  /\ scanPc = "opening" /\ status[p] = "none"
  /\ status' = [status EXCEPT ![p] = "ACTIVE"]
  /\ pool' = [pool EXCEPT ![p] = target]
  /\ amount' = [amount EXCEPT ![p] = size]
  /\ balance' = balance - size - 1
  /\ cb' = RecordPositionOpened(cb, target, size)
  /\ lateEntries' = lateEntries + IF triggered THEN 1 ELSE 0
  /\ LeavePool(target)
  /\ UNCHANGED << outsideScan, pnl, triggered, emgVars, reclosed >>

-----------------------------------------------------------------------------
(* Closing positions *)

\* Mutant of ExecutorClose: the transaction fee is not charged.
ExecutorCloseNoFee(p, x) ==
  /\ balance' = balance + amount[p] + x
  /\ status' = [status EXCEPT ![p] = "CLOSED"]
  /\ pnl' = [pnl EXCEPT ![p] = x]
  /\ reclosed' = (reclosed \/ status[p] = "CLOSED")
  /\ UNCHANGED << pool, amount, lateEntries >>

\* SimulationExecutor.closePosition once the bin has arrived.  It does not look
\* at the status of the position it was asked to close.
ExecutorClose(p, x) ==
  /\ balance' = balance + amount[p] + x - 1
  /\ status' = [status EXCEPT ![p] = "CLOSED"]
  /\ pnl' = [pnl EXCEPT ![p] = x]
  /\ reclosed' = (reclosed \/ status[p] = "CLOSED")
  /\ UNCHANGED << pool, amount, lateEntries >>

\* What the engine records after a successful close.
RecordClose(p, x) ==
  /\ RecordTradeResult(x)
  /\ cb' = RecordPositionClosed(cb, pool[p], amount[p])
  /\ cooldowns' = cooldowns \cup {pool[p]}

outsideClose == << lifeVars, triggered, scanVars, emgVars >>
nothingClosed == << positionVars, cb, cooldowns, limitHit, history >>

\* Mutant of CheckPositions: stop() leaves the interval timer running.
CheckPositionsUncleared(c) ==
  /\ runState # "created" /\ pc[c] = "idle" /\ Active # {}
  /\ pc' = [pc EXCEPT ![c] = "next"]
  /\ todo' = [todo EXCEPT ![c] = Active]
  /\ UNCHANGED << closing, outsideClose, nothingClosed >>

\* checkPositions: a snapshot of the active positions, whatever other checks
\* are still under way.
CheckPositions(c) ==
  /\ runState = "running" /\ pc[c] = "idle" /\ Active # {}
  /\ pc' = [pc EXCEPT ![c] = "next"]
  /\ todo' = [todo EXCEPT ![c] = Active]
  /\ UNCHANGED << closing, outsideClose, nothingClosed >>

\* checkExitConditions asks updatePositionData for the price, which returns at
\* once for a position that is no longer active.
CheckExitConditions(c, p) ==
  /\ pc[c] = "next" /\ p \in todo[c]
  /\ todo' = [todo EXCEPT ![c] = @ \ {p}]
  /\ IF status[p] = "ACTIVE"
       THEN pc' = [pc EXCEPT ![c] = "checking"] /\ closing' = [closing EXCEPT ![c] = p]
       ELSE UNCHANGED << pc, closing >>
  /\ UNCHANGED << outsideClose, nothingClosed >>

\* Mutant of KeepPosition: the position is looked at again in the same check.
KeepPositionRetry(c) ==
  /\ pc[c] = "checking"
  /\ pc' = [pc EXCEPT ![c] = "next"]
  /\ todo' = [todo EXCEPT ![c] = @ \cup {closing[c]}]
  /\ closing' = [closing EXCEPT ![c] = NoPosition]
  /\ UNCHANGED << outsideClose, nothingClosed >>

\* No exit condition holds, or the price could not be read.
KeepPosition(c) ==
  /\ pc[c] = "checking"
  /\ pc' = [pc EXCEPT ![c] = "next"]
  /\ closing' = [closing EXCEPT ![c] = NoPosition]
  /\ UNCHANGED << todo, outsideClose, nothingClosed >>

CheckDone(c) ==
  /\ pc[c] = "next" /\ todo[c] = {}
  /\ pc' = [pc EXCEPT ![c] = "idle"]
  /\ UNCHANGED << todo, closing, outsideClose, nothingClosed >>

\* closePositionById: the bot is found through the orchestrator, and the
\* position is active when the close is asked for.
ClosePositionById(c, p) ==
  /\ registered /\ pc[c] = "idle" /\ status[p] = "ACTIVE"
  /\ pc' = [pc EXCEPT ![c] = "user"]
  /\ closing' = [closing EXCEPT ![c] = p]
  /\ UNCHANGED << todo, outsideClose, nothingClosed >>

\* The close in flight goes through: nothing is looked at again on the way.
ReturnFromClose(c) ==
  /\ pc' = [pc EXCEPT ![c] = IF @ = "checking" THEN "next" ELSE "idle"]
  /\ closing' = [closing EXCEPT ![c] = NoPosition]
  /\ UNCHANGED todo

ClosePosition(c, x) ==
  /\ pc[c] \in {"checking", "user"}
  /\ x \in Outcomes(amount[closing[c]])
  /\ ExecutorClose(closing[c], x)
  /\ RecordClose(closing[c], x)
  /\ ReturnFromClose(c)
  /\ UNCHANGED outsideClose

CloseFails(c) ==
  /\ pc[c] \in {"checking", "user"} /\ MarketFails
  /\ ReturnFromClose(c)
  /\ UNCHANGED << outsideClose, nothingClosed >>

-----------------------------------------------------------------------------
(* The emergency callback of the orchestrator, and stopping *)

outsideEmergency == << registered, triggered, scanVars, closerVars, cb, cooldowns, limitHit >>

\* The virtual balance has been persisted; emergencyCloseAll takes its snapshot.
EmergencyCloseAll ==
  /\ emgPc = "persist"
  /\ emgPc' = "closing" /\ emgTodo' = Active
  /\ UNCHANGED << outsideEmergency, runState, positionVars, history >>

\* Each position of the snapshot in turn; the result of the close is ignored,
\* and the engine records nothing.
EmergencyClose(p, x) ==
  /\ emgPc = "closing" /\ p \in emgTodo
  /\ x \in Outcomes(amount[p])
  /\ ExecutorClose(p, x)
  /\ emgTodo' = emgTodo \ {p}
  /\ UNCHANGED << outsideEmergency, runState, emgPc >>

EmergencyCloseFails(p) ==
  /\ emgPc = "closing" /\ p \in emgTodo /\ MarketFails
  /\ emgTodo' = emgTodo \ {p}
  /\ UNCHANGED << outsideEmergency, runState, emgPc, positionVars, history >>

Stopped == IF runState = "running" THEN "stopped" ELSE runState

\* Mutant of EmergencyDone: the callback does not stop the engine.
EmergencyDoneRunning ==
  /\ emgPc = "closing" /\ emgTodo = {}
  /\ emgPc' = "done"
  /\ UNCHANGED << outsideEmergency, runState, emgTodo, positionVars, history >>

EmergencyDone ==
  /\ emgPc = "closing" /\ emgTodo = {}
  /\ emgPc' = "done" /\ runState' = Stopped
  /\ UNCHANGED << outsideEmergency, emgTodo, positionVars, history >>

\* POST /bot/:botId/emergency: manualTrigger, and the bot is forgotten.
EmergencyStop ==
  /\ registered
  /\ Trigger
  /\ registered' = FALSE
  /\ UNCHANGED << runState, positionVars, cb, cooldowns, limitHit, scanVars, closerVars,
                  history >>

\* The end of stopBot: the timers are cleared and the bot is forgotten.  What is
\* in flight goes on.
Stop ==
  /\ registered
  /\ registered' = FALSE /\ runState' = Stopped
  /\ UNCHANGED << positionVars, cb, cooldowns, gateVars, scanVars, closerVars, emgVars,
                  history >>

-----------------------------------------------------------------------------
(* Time *)

CooldownExpires(q) ==
  /\ q \in cooldowns /\ cooldowns' = cooldowns \ {q}
  /\ UNCHANGED << lifeVars, positionVars, cb, gateVars, scanVars, closerVars, emgVars,
                  history >>

TimePasses ==
  /\ cb' \in Elapsed(cb) /\ cb' # cb
  /\ UNCHANGED << lifeVars, positionVars, cooldowns, gateVars, scanVars, closerVars,
                  emgVars, history >>

-----------------------------------------------------------------------------
ScanStep ==
  \/ ScanBalance \/ ScanFilter \/ ScanFails \/ ScanCompleted
  \/ \E q \in Pool : EnterPosition(q)
  \/ SizePosition \/ EntryFails
  \/ \E p \in Position : OpenPosition(p)

CloserStep(c) ==
  \/ \E p \in Position : CheckExitConditions(c, p)
  \/ KeepPosition(c) \/ CheckDone(c)
  \/ \E x \in PnlSet : ClosePosition(c, x)
  \/ CloseFails(c)

EmergencyStep ==
  \/ EmergencyCloseAll
  \/ \E p \in Position, x \in PnlSet : EmergencyClose(p, x)
  \/ \E p \in Position : EmergencyCloseFails(p)
  \/ EmergencyDone

Environment ==
  \/ Start \/ ScanTick
  \/ \E c \in Closer : CheckPositions(c)
  \/ \E c \in Closer, p \in Position : ClosePositionById(c, p)
  \/ EmergencyStop \/ Stop
  \/ CheckDailyReset \/ TimePasses
  \/ \E q \in Pool : CooldownExpires(q)

Next ==
  \/ ScanStep
  \/ \E c \in Closer : CloserStep(c)
  \/ EmergencyStep
  \/ Environment

Spec == Init /\ [][Next]_vars

\* Every awaited read settles and every pause ends, so an activity that has
\* begun goes on.  Nothing makes the timers or the users act.
FairSpec ==
  /\ Spec
  /\ WF_vars(ScanStep)
  /\ \A c \in Closer : WF_vars(CloserStep(c))
  /\ WF_vars(EmergencyStep)

-----------------------------------------------------------------------------
(* Safety *)

Total(f, S) == MapThenSumSet(LAMBDA p : f[p], S)

\* The engine has, or is on its way to, at most maxConcurrentPositions active
\* positions, although the slots are counted before the awaits of the scan and
\* closes run in between (trading-engine.ts:270 and :321).
WithinMaxPositions ==
  Cardinality(Active) + Cardinality(topPools) <= MaxPositionCount

\* No pool has two active positions, or one and an entry planned: the pools are
\* filtered against a snapshot that is stale by then (trading-engine.ts:305).
OnePositionPerPool ==
  /\ \A p, r \in Active : pool[p] = pool[r] => p = r
  /\ \A p \in Active : pool[p] \notin topPools

\* The gate is consulted before each entry and not at the commit, so an entry
\* may be late, but only the one in flight (trading-engine.ts:605).
LateEntryBound == lateEntries <= 1

\* As long as no position was closed twice, the circuit breaker knows of every
\* active position, whichever closes it is not told of or hears of late
\* (circuit-breaker.ts:198, trading-engine.ts:993).
BreakerCoversActive ==
  ~reclosed =>
    /\ cb.count >= Cardinality(Active)
    /\ \A p \in Active : cb.byPool[pool[p]] >= 1

\* And of their amounts, so that the exposure it compares with the limit is not
\* too small (circuit-breaker.ts:133).
ExposureCoversActive == ~reclosed => cb.exposure >= Total(amount, Active)

\* As long as no position was closed twice, what the sizing leaves always pays
\* the fees of closing whatever is active: the balance is never overdrawn, in
\* spite of entries sized from a balance read before an await
\* (trading-engine.ts:54, simulation-executor.ts:79).
FeesCovered == ~reclosed => balance >= Cardinality(Active)

\* The virtual balance is the initial one, less what is locked in active
\* positions, plus what the closed ones realized, less a fee for each step.
BalanceAccurate ==
  balance = InitialBalance - Total(amount, Active) - Cardinality(Active)
              + Total(pnl, {p \in Position : status[p] = "CLOSED"})
              - 2 * Cardinality({p \in Position : status[p] = "CLOSED"})

\* Closing a position twice is the only way for the balance to go wrong
\* (simulation-executor.ts:154).
OnlyReclosingMiscounts == ~reclosed => BalanceAccurate

-----------------------------------------------------------------------------
(* Steps *)

Settled ==
  /\ runState = "stopped" /\ ~registered
  /\ scanPc = "idle"
  /\ \A c \in Closer : pc[c] = "idle"
  /\ emgPc \in {"off", "done"}

\* Once a stopped engine has drained what was in flight, nothing brings it back
\* to work: no timer, no user close, no late trigger (trading-engine.ts:225).
SettledForGood == [][Settled => Settled']_vars

-----------------------------------------------------------------------------
(* Liveness, under FairSpec *)

\* isScanning is released on every path, so that scans can follow each other
\* (trading-engine.ts:360).
ScanReleased == (scanPc # "idle") ~> (scanPc = "idle")

\* A stopped bot drains: every activity still in flight ends.
StopDrains == (runState = "stopped" /\ ~registered) ~> Settled

\* The scan timer fires while the engine runs.
TimerSpec == FairSpec /\ WF_vars(ScanTick)

\* A loss limit that stays exceeded halts the engine: some scan notices it, and
\* the callback gets to stop the engine whatever else is going on.
LossLimitHalts == []<>(limitHit => runState # "running")
=============================================================================
