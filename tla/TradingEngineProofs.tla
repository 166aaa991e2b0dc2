------------------------- MODULE TradingEngineProofs -------------------------
(***************************************************************************)
(* Theorems of TradingEngine, for every value of its constants.            *)
(***************************************************************************)
EXTENDS TradingEngine, Sums

-----------------------------------------------------------------------------
(* The circuit breaker keeps its type *)

LEMMA LessType ==
  ASSUME NEW m \in Nat, NEW n \in Nat
  PROVE  Less(m, n) \in Nat
  BY DEF Less

LEMMA BreakerType ==
  ASSUME NEW b \in CircuitBreakerState, NEW q \in Pool, NEW a \in Nat
  PROVE  /\ RecordPositionOpened(b, q, a) \in CircuitBreakerState
         /\ RecordPositionClosed(b, q, a) \in CircuitBreakerState
<1>1. /\ b.count \in Nat /\ b.exposure \in Nat /\ b.recentTx \in Nat
      /\ b.byPool \in [Pool -> Nat] /\ b.cooling \in BOOLEAN
  BY DEF CircuitBreakerState
<1>2. RecordPositionOpened(b, q, a) \in CircuitBreakerState
  <2>1. [b.byPool EXCEPT ![q] = @ + 1] \in [Pool -> Nat]
    BY <1>1
  <2>2. QED
    BY <1>1, <2>1 DEF RecordPositionOpened, CircuitBreakerState
<1>3. RecordPositionClosed(b, q, a) \in CircuitBreakerState
  <2>1. /\ Less(b.count, 1) \in Nat /\ Less(b.exposure, a) \in Nat
        /\ Less(b.byPool[q], 1) \in Nat
    BY <1>1, LessType
  <2>2. [b.byPool EXCEPT ![q] = Less(@, 1)] \in [Pool -> Nat]
    BY <1>1, <2>1
  <2>3. QED
    BY <1>1, <2>1, <2>2 DEF RecordPositionClosed, CircuitBreakerState
<1>4. QED
  BY <1>2, <1>3

LEMMA ElapsedType ==
  ASSUME NEW b \in CircuitBreakerState
  PROVE  \A e \in Elapsed(b) : e \in CircuitBreakerState
<1>1. Less(b.recentTx, 1) \in Nat
  BY LessType DEF CircuitBreakerState
<1>2. [b EXCEPT !.cooling = FALSE] \in CircuitBreakerState
  BY DEF CircuitBreakerState
<1>3. [b EXCEPT !.recentTx = Less(@, 1)] \in CircuitBreakerState
  BY <1>1 DEF CircuitBreakerState
<1>4. QED
  BY <1>2, <1>3 DEF Elapsed

LEMMA SizeType ==
  ASSUME NEW bal \in Int
  PROVE  /\ CalculatePositionSize(bal) \in Nat
         /\ bal >= Reserve => CalculatePositionSize(bal) <= bal - Reserve
         /\ bal < Reserve => CalculatePositionSize(bal) = 0
  BY EngineAssumption DEF CalculatePositionSize, Min2, Max2

-----------------------------------------------------------------------------
(* Type correctness, and what the activities refer to *)

\* An entry in progress is planned, a close in progress is of a position that was
\* opened, and so is what the emergency callback has left to close.
RefsOK ==
  /\ scanPc \in {"pricing", "opening"} => target \in topPools
  /\ \A p \in Position : status[p] # "none" => pool[p] \in Pool
  /\ \A c \in Closer : pc[c] \in {"checking", "user"} =>
        closing[c] \in Position /\ status[closing[c]] # "none"
  /\ \A p \in emgTodo : status[p] # "none"

WellFormed == TypeOK /\ RefsOK

LEMMA WellFormedInit == Init => WellFormed
<1> SUFFICES ASSUME Init PROVE WellFormed
  OBVIOUS
<1>1. InitialBreaker \in CircuitBreakerState
  BY DEF InitialBreaker, CircuitBreakerState
<1>2. TypeOK
  <2>1. todo \in [Closer -> SUBSET Position]
    BY DEF Init
  <2>2. pc \in [Closer -> {"idle", "next", "checking", "user"}]
    BY DEF Init
  <2>3. closing \in [Closer -> Position \cup {NoPosition}]
    BY DEF Init
  <2>4. /\ status \in [Position -> {"none", "ACTIVE", "CLOSED"}]
        /\ pool \in [Position -> Pool \cup {NoPool}]
        /\ amount \in [Position -> Nat] /\ pnl \in [Position -> Int]
    BY DEF Init
  <2>5. /\ registered \in BOOLEAN /\ triggered \in BOOLEAN /\ limitHit \in BOOLEAN
        /\ reclosed \in BOOLEAN
    BY DEF Init
  <2>6. QED
    BY <1>1, <2>1, <2>2, <2>3, <2>4, <2>5, EngineAssumption DEF Init, TypeOK
<1>3. RefsOK
  BY DEF Init, RefsOK
<1>4. QED
  BY <1>2, <1>3 DEF WellFormed

LEMMA WellFormedScan ==
  ASSUME WellFormed, ScanStep
  PROVE  WellFormed'
<1> USE EngineAssumption DEF WellFormed, TypeOK, RefsOK, outsideScan, positionVars, gateVars,
                             emgVars, lifeVars, closerVars, history
<1>1. CASE ScanBalance
  BY <1>1 DEF ScanBalance, EndScan
<1>2. CASE ScanFilter
  BY <1>2 DEF ScanFilter, TopPools
<1>3. CASE ScanFails \/ ScanCompleted
  BY <1>3 DEF ScanFails, ScanCompleted, EndScan
<1>4. ASSUME NEW q \in Pool, EnterPosition(q) PROVE WellFormed'
  <2>1. triggered' \in BOOLEAN
    BY <1>4 DEF EnterPosition, ConsultGate, Trigger
  <2>2. QED
    BY <1>4, <2>1 DEF EnterPosition, ConsultGate, Trigger, LeavePool
<1>5. CASE SizePosition
  <2>1. CalculatePositionSize(balance) \in Nat
    BY SizeType
  <2>2. QED
    BY <1>5, <2>1 DEF SizePosition, LeavePool
<1>6. CASE EntryFails
  BY <1>6 DEF EntryFails, LeavePool
<1>7. ASSUME NEW p \in Position, OpenPosition(p) PROVE WellFormed'
  <2>1. cb' \in CircuitBreakerState
    BY <1>7, BreakerType DEF OpenPosition
  <2>2. target \in Pool
    BY <1>7 DEF OpenPosition
  <2>3. TypeOK'
    BY <1>7, <2>1, <2>2 DEF OpenPosition, LeavePool
  <2>4. RefsOK'
    BY <1>7, <2>2 DEF OpenPosition, LeavePool
  <2>5. QED
    BY <2>3, <2>4
<1>8. QED
  BY <1>1, <1>2, <1>3, <1>4, <1>5, <1>6, <1>7 DEF ScanStep

LEMMA WellFormedCloser ==
  ASSUME WellFormed, NEW c \in Closer, CloserStep(c)
  PROVE  WellFormed'
<1> USE EngineAssumption DEF WellFormed, TypeOK, RefsOK, outsideClose, nothingClosed,
                             positionVars, scanVars, emgVars, lifeVars, history
<1>1. ASSUME NEW p \in Position, CheckExitConditions(c, p) PROVE WellFormed'
  BY <1>1 DEF CheckExitConditions
<1>2. CASE KeepPosition(c) \/ CheckDone(c)
  BY <1>2 DEF KeepPosition, CheckDone
<1>3. ASSUME NEW x \in PnlSet, ClosePosition(c, x) PROVE WellFormed'
  <2>1. closing[c] \in Position /\ pool[closing[c]] \in Pool /\ amount[closing[c]] \in Nat
    BY <1>3 DEF ClosePosition
  <2>2. cb' \in CircuitBreakerState
    BY <1>3, <2>1, BreakerType DEF ClosePosition, RecordClose
  <2>3. limitHit' \in BOOLEAN /\ reclosed' \in BOOLEAN
    BY <1>3 DEF ClosePosition, RecordClose, RecordTradeResult, ExecutorClose
  <2>4. TypeOK'
    BY <1>3, <2>1, <2>2, <2>3 DEF ClosePosition, RecordClose, ExecutorClose, ReturnFromClose
  <2>5. RefsOK'
    BY <1>3, <2>1 DEF ClosePosition, RecordClose, ExecutorClose, ReturnFromClose
  <2>6. QED
    BY <2>4, <2>5
<1>4. CASE CloseFails(c)
  BY <1>4 DEF CloseFails, ReturnFromClose
<1>5. QED
  BY <1>1, <1>2, <1>3, <1>4 DEF CloserStep

LEMMA WellFormedEmergency ==
  ASSUME WellFormed, EmergencyStep
  PROVE  WellFormed'
<1> USE EngineAssumption DEF WellFormed, TypeOK, RefsOK, outsideEmergency, positionVars,
                             scanVars, closerVars, history
<1>1. CASE EmergencyCloseAll
  BY <1>1 DEF EmergencyCloseAll, Active
<1>2. ASSUME NEW p \in Position, NEW x \in PnlSet, EmergencyClose(p, x) PROVE WellFormed'
  BY <1>2 DEF EmergencyClose, ExecutorClose
<1>3. ASSUME NEW p \in Position, EmergencyCloseFails(p) PROVE WellFormed'
  BY <1>3 DEF EmergencyCloseFails
<1>4. CASE EmergencyDone
  BY <1>4 DEF EmergencyDone, Stopped
<1>5. QED
  BY <1>1, <1>2, <1>3, <1>4 DEF EmergencyStep

LEMMA WellFormedEnvironment ==
  ASSUME WellFormed, Environment
  PROVE  WellFormed'
<1> USE EngineAssumption DEF WellFormed, TypeOK, RefsOK, outsideClose, nothingClosed,
                             positionVars, gateVars, scanVars, closerVars, emgVars, lifeVars,
                             history
<1>1. CASE Start \/ ScanTick
  BY <1>1, ZenonT(60) DEF Start, ScanTick, ScanMarkets, ConsultGate, Trigger, Active
<1>2. ASSUME NEW c \in Closer, CheckPositions(c) PROVE WellFormed'
  BY <1>2 DEF CheckPositions, Active
<1>3. ASSUME NEW c \in Closer, NEW p \in Position, ClosePositionById(c, p) PROVE WellFormed'
  BY <1>3 DEF ClosePositionById
<1>4. CASE EmergencyStop \/ Stop
  <2>1. registered' \in BOOLEAN /\ triggered' \in BOOLEAN
    BY <1>4 DEF EmergencyStop, Stop, Trigger
  <2>2. QED
    BY <1>4, <2>1 DEF EmergencyStop, Stop, Stopped, Trigger
<1>5. CASE CheckDailyReset
  <2>1. limitHit' \in BOOLEAN
    BY <1>5 DEF CheckDailyReset
  <2>2. QED
    BY <1>5, <2>1 DEF CheckDailyReset
<1>6. CASE TimePasses
  BY <1>6, ElapsedType DEF TimePasses
<1>7. ASSUME NEW q \in Pool, CooldownExpires(q) PROVE WellFormed'
  BY <1>7 DEF CooldownExpires
<1>8. QED
  BY <1>1, <1>2, <1>3, <1>4, <1>5, <1>6, <1>7 DEF Environment

LEMMA AlwaysWellFormed == Spec => []WellFormed
<1>1. WellFormed /\ [Next]_vars => WellFormed'
  <2>1. WellFormed /\ UNCHANGED vars => WellFormed'
    BY DEF WellFormed, TypeOK, RefsOK, vars, positionVars, gateVars, scanVars, closerVars,
           emgVars, lifeVars, history
  <2>2. QED
    BY <2>1, WellFormedScan, WellFormedCloser, WellFormedEmergency, WellFormedEnvironment
       DEF Next
<1>2. QED
  BY <1>1, WellFormedInit, PTL DEF Spec

\* The variables keep their types.
THEOREM TypeCorrect == Spec => []TypeOK
<1>1. WellFormed => TypeOK
  BY DEF WellFormed
<1>2. QED
  BY <1>1, AlwaysWellFormed, PTL

-----------------------------------------------------------------------------
(* The inductive invariant behind the safety theorems *)

\* The slots: planned entries count against the limit, nothing is planned before
\* the pools are filtered, and until then no position is active that the scan
\* has not seen.
Slots ==
  /\ WithinMaxPositions
  /\ scanPc \in {"idle", "balance", "filter"} => topPools = {}
  /\ scanPc \in {"balance", "filter"} =>
        Active \subseteq snapshot /\ Cardinality(snapshot) < MaxPositionCount

\* A late entry is the one that had passed the gate when the stop triggered.
Late ==
  /\ LateEntryBound
  /\ ~triggered => lateEntries = 0
  /\ scanPc \in {"pricing", "opening"} => lateEntries = 0

\* Each active position keeps the fee of its close in the balance, and each
\* planned entry will need two fees; an amount already decided is spoken for.
Fees ==
  ~reclosed =>
    /\ balance >= Cardinality(Active)
    /\ scanPc = "filter" =>
         balance >= Cardinality(Active) + 2 * (MaxPositionCount - Cardinality(snapshot))
    /\ scanPc \in {"loop", "pricing"} =>
         balance >= Cardinality(Active) + 2 * Cardinality(topPools)
    /\ scanPc = "opening" =>
         balance - size >= Cardinality(Active) + 2 * Cardinality(topPools)

Safe == Slots /\ OnePositionPerPool /\ Late /\ BreakerCoversActive /\ Fees

LEMMA Counting ==
  ASSUME WellFormed
  PROVE  /\ IsFiniteSet(Active) /\ Cardinality(Active) \in Nat
         /\ IsFiniteSet(topPools) /\ Cardinality(topPools) \in Nat
         /\ IsFiniteSet(snapshot) /\ Cardinality(snapshot) \in Nat
<1>1. Active \subseteq Position /\ topPools \subseteq Pool /\ snapshot \subseteq Position
  BY DEF WellFormed, TypeOK, Active
<1>2. IsFiniteSet(Active) /\ IsFiniteSet(topPools) /\ IsFiniteSet(snapshot)
  BY <1>1, EngineAssumption, FS_Subset
<1>3. QED
  BY <1>2, FS_CardinalityType

\* What the scan leaves of its plan when it is done with a pool.
LEMMA FewerPools ==
  ASSUME WellFormed, NEW q
  PROVE  /\ Cardinality(topPools \ {q}) \in Nat
         /\ Cardinality(topPools \ {q}) <= Cardinality(topPools)
         /\ q \in topPools => Cardinality(topPools \ {q}) = Cardinality(topPools) - 1
<1>1. IsFiniteSet(topPools) /\ Cardinality(topPools) \in Nat
  BY Counting
<1>2. CASE q \in topPools
  BY <1>1, <1>2, FS_RemoveElement, FS_CardinalityType
<1>3. CASE q \notin topPools
  <2>1. Cardinality(topPools \ {q}) = Cardinality(topPools)
    <3>1. topPools \ {q} = topPools
      BY <1>3
    <3>2. QED
      BY <3>1, Zenon
  <2>2. QED
    BY <1>1, <1>3, <2>1
<1>4. QED
  BY <1>2, <1>3

LEMMA OneMoreActive ==
  ASSUME WellFormed, NEW p \in Position, status[p] = "none",
         status' = [status EXCEPT ![p] = "ACTIVE"]
  PROVE  Active' = Active \cup {p} /\ Cardinality(Active') = Cardinality(Active) + 1
<1>1. Active' = Active \cup {p} /\ p \notin Active
  BY DEF Active, WellFormed, TypeOK
<1>2. QED
  BY <1>1, Counting, FS_AddElement

LEMMA OneLessActive ==
  ASSUME WellFormed, NEW p \in Position,
         status' = [status EXCEPT ![p] = "CLOSED"]
  PROVE  /\ Active' = Active \ {p}
         /\ Cardinality(Active') \in Nat
         /\ Cardinality(Active') <= Cardinality(Active)
         /\ status[p] = "ACTIVE" => Cardinality(Active') = Cardinality(Active) - 1
<1>1. Active' = Active \ {p} /\ (status[p] = "ACTIVE" <=> p \in Active)
  BY DEF Active, WellFormed, TypeOK
<1>2. IsFiniteSet(Active) /\ Cardinality(Active) \in Nat
  BY Counting
<1>3. CASE p \in Active
  <2>1. Cardinality(Active \ {p}) = Cardinality(Active) - 1
        /\ Cardinality(Active \ {p}) \in Nat
    BY <1>2, <1>3, FS_RemoveElement, FS_CardinalityType
  <2>2. QED
    BY <1>1, <1>2, <2>1
<1>4. CASE p \notin Active
  <2>1. Cardinality(Active') = Cardinality(Active)
    <3>1. Active' = Active
      BY <1>1, <1>4
    <3>2. QED
      BY <3>1, Zenon
  <2>2. QED
    BY <1>1, <1>2, <1>4, <2>1
<1>5. QED
  BY <1>3, <1>4

-----------------------------------------------------------------------------
(* Steps that neither scan, open nor close *)

Quiet ==
  /\ UNCHANGED << positionVars, scanVars, history >>
  /\ cb'.count = cb.count /\ cb'.byPool = cb.byPool
  /\ triggered => triggered'

LEMMA QuietSafe ==
  ASSUME WellFormed, Safe, Quiet
  PROVE  Safe'
<1>1. Active' = Active
  BY DEF Quiet, Active, positionVars
<1>2. Slots' /\ OnePositionPerPool'
  BY <1>1 DEF Safe, Slots, OnePositionPerPool, WithinMaxPositions, Quiet, positionVars, scanVars
<1>3. Late'
  BY DEF Safe, Late, LateEntryBound, Quiet, scanVars, history
<1>4. BreakerCoversActive'
  BY <1>1 DEF Safe, BreakerCoversActive, Quiet, positionVars, history
<1>5. Fees'
  BY <1>1 DEF Safe, Fees, Quiet, positionVars, scanVars, history
<1>6. QED
  BY <1>2, <1>3, <1>4, <1>5 DEF Safe

-----------------------------------------------------------------------------
(* Closing a position that was opened, recorded by the engine or not *)

LEMMA CloseSafe ==
  ASSUME WellFormed, Safe, NEW p \in Position, NEW x \in Outcomes(amount[p]),
         status[p] # "none", ExecutorClose(p, x),
         cb' = cb \/ cb' = RecordPositionClosed(cb, pool[p], amount[p]),
         UNCHANGED << scanVars, triggered >>
  PROVE  Safe'
<1>1. /\ Active' = Active \ {p}
      /\ Cardinality(Active') \in Nat
      /\ Cardinality(Active') <= Cardinality(Active)
      /\ status[p] = "ACTIVE" => Cardinality(Active') = Cardinality(Active) - 1
  BY OneLessActive DEF ExecutorClose
<1>2. /\ Cardinality(Active) \in Nat /\ Cardinality(topPools) \in Nat
      /\ Cardinality(snapshot) \in Nat
  BY Counting
<1>3. ~reclosed' => ~reclosed /\ status[p] = "ACTIVE"
  BY DEF ExecutorClose, WellFormed, TypeOK
<1>4. Slots'
  BY <1>1, <1>2, BreakerAssumption DEF Safe, Slots, WithinMaxPositions, scanVars
<1>5. OnePositionPerPool'
  BY <1>1 DEF Safe, OnePositionPerPool, ExecutorClose, scanVars
<1>6. Late'
  BY DEF Safe, Late, LateEntryBound, ExecutorClose, scanVars
<1>7. BreakerCoversActive'
  <2> SUFFICES ASSUME ~reclosed'
               PROVE  /\ cb'.count >= Cardinality(Active')
                      /\ \A r \in Active' : cb'.byPool[pool[r]] >= 1
    BY DEF BreakerCoversActive, ExecutorClose
  <2>1. /\ cb.count >= Cardinality(Active) /\ cb.count \in Nat
        /\ \A r \in Active : cb.byPool[pool[r]] >= 1
    BY <1>3 DEF Safe, BreakerCoversActive, WellFormed, TypeOK, CircuitBreakerState
  <2>2. CASE cb' = cb
    BY <2>1, <2>2, <1>1, <1>2
  <2>3. CASE cb' = RecordPositionClosed(cb, pool[p], amount[p])
    <3>1. cb'.count = Less(cb.count, 1)
          /\ cb'.byPool = [cb.byPool EXCEPT ![pool[p]] = Less(@, 1)]
      BY <2>3 DEF RecordPositionClosed
    <3>2. cb'.count >= Cardinality(Active')
      BY <3>1, <2>1, <1>1, <1>2, <1>3 DEF Less
    <3>3. p \in Active
      BY <1>3 DEF Active
    <3>4. \A r \in Active' : pool[r] # pool[p]
      BY <1>1, <3>3 DEF Safe, OnePositionPerPool
    <3>5. \A r \in Active' : cb'.byPool[pool[r]] = cb.byPool[pool[r]]
      BY <3>1, <3>4, <1>1 DEF WellFormed, RefsOK, TypeOK, CircuitBreakerState, Active
    <3>6. QED
      BY <3>2, <3>5, <2>1, <1>1
  <2>4. QED
    BY <2>2, <2>3
<1>8. Fees'
  <2> SUFFICES ASSUME ~reclosed' PROVE Fees'
    BY DEF Fees
  <2>1. amount[p] \in Nat /\ balance \in Int /\ size \in Nat
    BY DEF WellFormed, TypeOK
  <2>2. x \in Int /\ x >= -amount[p]
    BY EngineAssumption DEF Outcomes
  <2>3. balance' \in Int /\ balance' >= balance - 1
    BY <2>1, <2>2 DEF ExecutorClose
  <2>4. QED
    BY <2>1, <2>3, <1>1, <1>2, <1>3, BreakerAssumption DEF Safe, Fees, scanVars
<1>9. QED
  BY <1>4, <1>5, <1>6, <1>7, <1>8 DEF Safe

-----------------------------------------------------------------------------
(* The scan *)

\* Leaving a pool without having entered it.
LEMMA LeaveSafe ==
  ASSUME WellFormed, Safe, NEW q, LeavePool(q),
         scanPc \in {"loop", "pricing", "opening"},
         UNCHANGED << positionVars, cb, history >>,
         triggered => triggered'
  PROVE  Safe'
<1>1. Active' = Active
  BY DEF Active, positionVars
<1>2. /\ Cardinality(Active) \in Nat /\ Cardinality(topPools) \in Nat
      /\ balance \in Int /\ size \in Nat
  BY Counting DEF WellFormed, TypeOK
<1>3. Cardinality(topPools') \in Nat /\ Cardinality(topPools') <= Cardinality(topPools)
  BY FewerPools DEF LeavePool
<1>4. Slots'
  BY <1>1, <1>2, <1>3, BreakerAssumption DEF Safe, Slots, WithinMaxPositions, LeavePool
<1>5. OnePositionPerPool'
  BY <1>1 DEF Safe, OnePositionPerPool, LeavePool, positionVars
<1>6. Late'
  BY DEF Safe, Late, LateEntryBound, LeavePool, history
<1>7. BreakerCoversActive'
  BY <1>1 DEF Safe, BreakerCoversActive, positionVars, history
<1>8. Fees'
  <2>1. ~reclosed => /\ balance >= Cardinality(Active)
                     /\ balance >= Cardinality(Active) + 2 * Cardinality(topPools)
    BY <1>2 DEF Safe, Fees
  <2>2. QED
    BY <2>1, <1>1, <1>2, <1>3 DEF Fees, LeavePool, positionVars, history
<1>9. QED
  BY <1>4, <1>5, <1>6, <1>7, <1>8 DEF Safe

\* Giving up the whole scan.
LEMMA EndScanSafe ==
  ASSUME WellFormed, Safe, EndScan,
         UNCHANGED << positionVars, cb, triggered, history >>
  PROVE  Safe'
<1>1. Active' = Active
  BY DEF Active, positionVars
<1>2. Cardinality(Active) \in Nat /\ Cardinality(topPools) \in Nat
  BY Counting
<1>3. topPools' = {} /\ Cardinality(topPools') = 0
  BY FS_EmptySet DEF EndScan
<1>4. Slots'
  BY <1>1, <1>2, <1>3, BreakerAssumption DEF Safe, Slots, WithinMaxPositions, EndScan
<1>5. OnePositionPerPool'
  BY <1>1, <1>3 DEF Safe, OnePositionPerPool, positionVars
<1>6. Late'
  BY DEF Safe, Late, LateEntryBound, EndScan, history
<1>7. BreakerCoversActive'
  BY <1>1 DEF Safe, BreakerCoversActive, positionVars, history
<1>8. Fees'
  BY <1>1 DEF Safe, Fees, EndScan, positionVars, history
<1>9. QED
  BY <1>4, <1>5, <1>6, <1>7, <1>8 DEF Safe

LEMMA ScanMarketsSafe ==
  ASSUME WellFormed, Safe, ScanMarkets,
         UNCHANGED << positionVars, cb, history >>
  PROVE  Safe'
<1>1. Active' = Active
  BY DEF Active, positionVars
<1>2. triggered => triggered'
  BY DEF ScanMarkets, ConsultGate, Trigger
<1>3. topPools' = topPools /\ topPools = {}
  BY DEF ScanMarkets, Safe, Slots
<1>4. Slots'
  BY <1>1, <1>3 DEF Safe, Slots, WithinMaxPositions, ScanMarkets
<1>5. OnePositionPerPool'
  BY <1>1, <1>3 DEF Safe, OnePositionPerPool, positionVars
<1>6. Late'
  BY <1>2 DEF Safe, Late, LateEntryBound, ScanMarkets, history
<1>7. BreakerCoversActive'
  BY <1>1 DEF Safe, BreakerCoversActive, positionVars, history
<1>8. Fees'
  BY <1>1 DEF Safe, Fees, ScanMarkets, positionVars, history
<1>9. QED
  BY <1>4, <1>5, <1>6, <1>7, <1>8 DEF Safe

\* The balance a scan asks for pays two fees for every position there may be.
LEMMA ScanBalanceSafe ==
  ASSUME WellFormed, Safe, ScanBalance
  PROVE  Safe'
<1> USE DEF ScanBalance
<1>1. CASE balance < MinPosition
  BY <1>1, EndScanSafe
<1>2. CASE ~(balance < MinPosition)
  <2>1. Active' = Active
    BY DEF Active, positionVars
  <2>2. /\ Cardinality(Active) \in Nat /\ Cardinality(snapshot) \in Nat
        /\ Cardinality(Active) <= Cardinality(snapshot)
        /\ Cardinality(snapshot) < MaxPositionCount
    <3>1. Active \subseteq snapshot /\ Cardinality(snapshot) < MaxPositionCount
      BY DEF Safe, Slots
    <3>2. QED
      BY <3>1, Counting, FS_Subset
  <2>3. balance >= Cardinality(Active) + 2 * (MaxPositionCount - Cardinality(snapshot))
    BY <1>2, <2>2, ReserveAssumption, EngineAssumption, BreakerAssumption
       DEF WellFormed, TypeOK
  <2>4. Slots'
    BY <1>2, <2>1 DEF Safe, Slots, WithinMaxPositions
  <2>5. OnePositionPerPool' /\ BreakerCoversActive'
    BY <1>2, <2>1 DEF Safe, OnePositionPerPool, BreakerCoversActive, positionVars, history
  <2>6. Late'
    BY <1>2 DEF Safe, Late, LateEntryBound, history
  <2>7. Fees'
    BY <1>2, <2>1, <2>3 DEF Safe, Fees, positionVars, history
  <2>8. QED
    BY <2>4, <2>5, <2>6, <2>7 DEF Safe
<1>3. QED
  BY <1>1, <1>2

LEMMA ScanFilterSafe ==
  ASSUME WellFormed, Safe, ScanFilter
  PROVE  Safe'
<1>1. /\ topPools' \subseteq Pool /\ \A p \in snapshot : pool[p] \notin topPools'
      /\ Cardinality(topPools') <= MaxPositionCount - Cardinality(snapshot)
      /\ scanPc' = "loop"
      /\ UNCHANGED << positionVars, cb, triggered, history >>
  BY DEF ScanFilter, TopPools
<1>2. Active' = Active
  BY <1>1 DEF Active, positionVars
<1>3. Active \subseteq snapshot /\ scanPc = "filter"
  BY DEF Safe, Slots, ScanFilter
<1>4. /\ Cardinality(Active) \in Nat /\ Cardinality(snapshot) \in Nat
      /\ Cardinality(Active) <= Cardinality(snapshot)
      /\ Cardinality(topPools') \in Nat
  BY <1>1, <1>3, Counting, FS_Subset, FS_CardinalityType, EngineAssumption
<1>5. Slots'
  BY <1>1, <1>2, <1>4, BreakerAssumption DEF Slots, WithinMaxPositions
<1>6. OnePositionPerPool'
  BY <1>1, <1>2, <1>3 DEF Safe, OnePositionPerPool, positionVars
<1>7. Late'
  BY <1>1 DEF Safe, Late, LateEntryBound, history
<1>8. BreakerCoversActive'
  BY <1>1, <1>2 DEF Safe, BreakerCoversActive, positionVars, history
<1>9. Fees'
  BY <1>1, <1>2, <1>3, <1>4, BreakerAssumption
     DEF Safe, Fees, positionVars, history, WellFormed, TypeOK
<1>10. QED
  BY <1>5, <1>6, <1>7, <1>8, <1>9 DEF Safe

LEMMA EnterPositionSafe ==
  ASSUME WellFormed, Safe, NEW q \in Pool, EnterPosition(q)
  PROVE  Safe'
<1>1. triggered => triggered'
  BY DEF EnterPosition, ConsultGate, Trigger
<1>2. CASE CanTrade
  <2>1. /\ ~triggered /\ scanPc = "loop" /\ scanPc' = "pricing"
        /\ UNCHANGED << snapshot, topPools, size, positionVars, cb, history >>
    BY <1>2 DEF EnterPosition, CanTrade
  <2>2. Active' = Active
    BY <2>1 DEF Active, positionVars
  <2>3. Slots' /\ OnePositionPerPool' /\ BreakerCoversActive'
    BY <2>1, <2>2 DEF Safe, Slots, WithinMaxPositions, OnePositionPerPool,
                      BreakerCoversActive, positionVars, history
  <2>4. Late'
    BY <2>1 DEF Safe, Late, LateEntryBound, history
  <2>5. Fees'
    BY <2>1, <2>2 DEF Safe, Fees, positionVars, history
  <2>6. QED
    BY <2>3, <2>4, <2>5 DEF Safe
<1>3. CASE ~CanTrade
  BY <1>1, <1>3, LeaveSafe DEF EnterPosition
<1>4. QED
  BY <1>2, <1>3

\* The reserve is what the fees of all positions need, so it does not matter
\* when the balance was read.
LEMMA SizePositionSafe ==
  ASSUME WellFormed, Safe, SizePosition
  PROVE  Safe'
<1> DEFINE amt == CalculatePositionSize(balance)
           goes == CanOpenPosition(cb, target, amt) /\ amt <= balance
<1>1. UNCHANGED << positionVars, cb, triggered, history >> /\ scanPc = "pricing"
  BY DEF SizePosition
<1>2. CASE ~goes
  <2>1. LeavePool(target)
    BY <1>2 DEF SizePosition
  <2>2. QED
    BY <1>1, <2>1, LeaveSafe
<1>3. CASE goes
  <2>1. scanPc' = "opening" /\ size' = amt /\ UNCHANGED << snapshot, topPools >>
    BY <1>3 DEF SizePosition
  <2>2. Active' = Active
    BY <1>1 DEF Active, positionVars
  <2>3. Slots' /\ OnePositionPerPool' /\ BreakerCoversActive'
    BY <1>1, <2>1, <2>2 DEF Safe, Slots, WithinMaxPositions, OnePositionPerPool,
                            BreakerCoversActive, positionVars, history
  <2>4. Late'
    BY <1>1, <2>1 DEF Safe, Late, LateEntryBound, history
  <2>5. Fees'
    <3>1. /\ Cardinality(Active) \in Nat /\ Cardinality(topPools) \in Nat
          /\ balance \in Int
      BY Counting DEF WellFormed, TypeOK
    <3>2. /\ amt \in Nat
          /\ balance >= Reserve => amt <= balance - Reserve
          /\ balance < Reserve => amt = 0
      BY <3>1, SizeType
    <3>3. Cardinality(Active) + Cardinality(topPools) <= MaxPositionCount
      BY DEF Safe, Slots, WithinMaxPositions
    <3>4. ~reclosed => /\ balance >= Cardinality(Active)
                       /\ balance >= Cardinality(Active) + 2 * Cardinality(topPools)
      BY <1>1 DEF Safe, Fees
    <3> HIDE DEF amt
    <3>5. ~reclosed => balance - amt >= Cardinality(Active) + 2 * Cardinality(topPools)
      BY <3>1, <3>2, <3>3, <3>4, ReserveAssumption, EngineAssumption, BreakerAssumption
    <3>6. QED
      BY <1>1, <2>1, <2>2, <3>4, <3>5 DEF Fees, positionVars, history
  <2>6. QED
    BY <2>3, <2>4, <2>5 DEF Safe
<1>4. QED
  BY <1>2, <1>3

\* The commit of an entry.
LEMMA OpenSafe ==
  ASSUME WellFormed, Safe, NEW p \in Position, OpenPosition(p)
  PROVE  Safe'
<1>1. Active' = Active \cup {p} /\ Cardinality(Active') = Cardinality(Active) + 1
  BY OneMoreActive DEF OpenPosition
<1>2. /\ Cardinality(Active) \in Nat /\ Cardinality(topPools) \in Nat
      /\ balance \in Int /\ size \in Nat
  BY Counting DEF WellFormed, TypeOK
<1>3. target \in topPools /\ target \in Pool
  BY DEF OpenPosition, WellFormed, RefsOK, TypeOK
<1>4. /\ topPools' = topPools \ {target}
      /\ Cardinality(topPools') = Cardinality(topPools) - 1
  BY <1>3, FewerPools DEF OpenPosition, LeavePool
<1>5. p \notin Active /\ pool' = [pool EXCEPT ![p] = target]
  BY DEF OpenPosition, Active
<1>6. /\ pool'[p] = target
      /\ \A r \in Active : pool'[r] = pool[r] /\ pool[r] \in Pool
  BY <1>5 DEF WellFormed, TypeOK, RefsOK, Active
<1>7. Slots'
  BY <1>1, <1>2, <1>4, BreakerAssumption
     DEF Safe, Slots, WithinMaxPositions, OpenPosition, LeavePool
<1>8. OnePositionPerPool'
  BY <1>1, <1>3, <1>4, <1>6 DEF Safe, OnePositionPerPool
<1>9. Late'
  BY DEF Safe, Late, LateEntryBound, OpenPosition, LeavePool
<1>10. BreakerCoversActive'
  <2> SUFFICES ASSUME ~reclosed'
               PROVE  /\ cb'.count >= Cardinality(Active')
                      /\ \A r \in Active' : cb'.byPool[pool'[r]] >= 1
    BY DEF BreakerCoversActive
  <2>1. /\ cb.count >= Cardinality(Active) /\ cb.count \in Nat
        /\ \A r \in Active : cb.byPool[pool[r]] >= 1
        /\ cb.byPool \in [Pool -> Nat]
    BY DEF OpenPosition, Safe, BreakerCoversActive, WellFormed, TypeOK, CircuitBreakerState
  <2>2. cb'.count = cb.count + 1 /\ cb'.byPool = [cb.byPool EXCEPT ![target] = @ + 1]
    BY DEF OpenPosition, RecordPositionOpened
  <2>3. cb'.byPool[target] >= 1
    BY <2>1, <2>2, <1>3
  <2>4. \A r \in Active : cb'.byPool[pool[r]] >= 1
    BY <2>1, <2>2, <1>3, <1>6
  <2>5. QED
    BY <2>1, <2>2, <2>3, <2>4, <1>1, <1>2, <1>6
<1>11. Fees'
  <2>1. ~reclosed => balance - size >= Cardinality(Active) + 2 * Cardinality(topPools)
    BY DEF OpenPosition, Safe, Fees
  <2>2. /\ balance' = balance - size - 1 /\ scanPc' = "loop" /\ reclosed' = reclosed
    BY DEF OpenPosition, LeavePool
  <2>3. Cardinality(topPools) >= 1
    BY <1>2, <1>4, FewerPools
  <2>4. QED
    BY <2>1, <2>2, <2>3, <1>1, <1>2, <1>4 DEF Fees
<1>12. QED
  BY <1>7, <1>8, <1>9, <1>10, <1>11 DEF Safe

LEMMA ScanStepSafe ==
  ASSUME WellFormed, Safe, ScanStep
  PROVE  Safe'
<1>1. CASE ScanFails \/ ScanCompleted
  BY <1>1, EndScanSafe DEF ScanFails, ScanCompleted
<1>2. CASE EntryFails
  BY <1>2, LeaveSafe DEF EntryFails
<1>3. QED
  BY <1>1, <1>2, ScanBalanceSafe, ScanFilterSafe, EnterPositionSafe, SizePositionSafe,
     OpenSafe DEF ScanStep

-----------------------------------------------------------------------------
(* Every step *)

LEMMA CloserStepSafe ==
  ASSUME WellFormed, Safe, NEW c \in Closer, CloserStep(c)
  PROVE  Safe'
<1>1. ASSUME NEW p \in Position, CheckExitConditions(c, p) PROVE Quiet
  BY <1>1 DEF CheckExitConditions, Quiet, outsideClose, nothingClosed, positionVars, scanVars,
              history
<1>2. CASE KeepPosition(c) \/ CheckDone(c) \/ CloseFails(c)
  <2>1. Quiet
    BY <1>2 DEF KeepPosition, CheckDone, CloseFails, Quiet, outsideClose, nothingClosed,
                positionVars, scanVars, history
  <2>2. QED
    BY <2>1, QuietSafe
<1>3. ASSUME NEW x \in PnlSet, ClosePosition(c, x) PROVE Safe'
  <2>1. closing[c] \in Position /\ status[closing[c]] # "none"
    BY <1>3 DEF ClosePosition, WellFormed, RefsOK
  <2>2. QED
    BY <1>3, <2>1, CloseSafe DEF ClosePosition, RecordClose, outsideClose
<1>4. QED
  BY <1>1, <1>2, <1>3, QuietSafe DEF CloserStep

LEMMA EmergencyStepSafe ==
  ASSUME WellFormed, Safe, EmergencyStep
  PROVE  Safe'
<1>1. CASE EmergencyCloseAll \/ EmergencyDone
  <2>1. Quiet
    BY <1>1 DEF EmergencyCloseAll, EmergencyDone, Quiet, outsideEmergency
  <2>2. QED
    BY <2>1, QuietSafe
<1>2. ASSUME NEW p \in Position, EmergencyCloseFails(p) PROVE Quiet
  BY <1>2 DEF EmergencyCloseFails, Quiet, outsideEmergency
<1>3. ASSUME NEW p \in Position, NEW x \in PnlSet, EmergencyClose(p, x) PROVE Safe'
  <2>1. status[p] # "none"
    BY <1>3 DEF EmergencyClose, WellFormed, RefsOK
  <2>2. QED
    BY <1>3, <2>1, CloseSafe DEF EmergencyClose, outsideEmergency
<1>4. QED
  BY <1>1, <1>2, <1>3, QuietSafe DEF EmergencyStep

LEMMA EnvironmentSafe ==
  ASSUME WellFormed, Safe, Environment
  PROVE  Safe'
<1>1. CASE Start \/ ScanTick
  BY <1>1, ScanMarketsSafe DEF Start, ScanTick
<1>2. ASSUME NEW c \in Closer, CheckPositions(c) PROVE Quiet
  BY <1>2 DEF CheckPositions, Quiet, outsideClose, nothingClosed
<1>3. ASSUME NEW c \in Closer, NEW p \in Position, ClosePositionById(c, p) PROVE Quiet
  BY <1>3 DEF ClosePositionById, Quiet, outsideClose, nothingClosed
<1>4. CASE EmergencyStop \/ Stop \/ CheckDailyReset
  <2>1. Quiet
    BY <1>4 DEF EmergencyStop, Stop, CheckDailyReset, Trigger, Quiet, gateVars
  <2>2. QED
    BY <2>1, QuietSafe
<1>5. CASE TimePasses
  <2>1. cb'.count = cb.count /\ cb'.byPool = cb.byPool
    BY <1>5 DEF TimePasses, Elapsed, WellFormed, TypeOK, CircuitBreakerState
  <2>2. Quiet
    BY <1>5, <2>1 DEF TimePasses, Quiet, gateVars
  <2>3. QED
    BY <2>2, QuietSafe
<1>6. ASSUME NEW q \in Pool, CooldownExpires(q) PROVE Quiet
  BY <1>6 DEF CooldownExpires, Quiet, gateVars
<1>7. QED
  BY <1>1, <1>2, <1>3, <1>4, <1>5, <1>6, QuietSafe DEF Environment

LEMMA SafeInit == Init => Safe
<1> SUFFICES ASSUME Init PROVE Safe
  OBVIOUS
<1>1. Active = {} /\ topPools = {} /\ Cardinality({}) = 0
  BY FS_EmptySet DEF Init, Active
<1>2. Slots /\ OnePositionPerPool
  BY <1>1, BreakerAssumption DEF Init, Slots, WithinMaxPositions, OnePositionPerPool
<1>3. Late
  BY DEF Init, Late, LateEntryBound
<1>4. BreakerCoversActive
  BY <1>1 DEF Init, BreakerCoversActive, InitialBreaker
<1>5. Fees
  BY <1>1, EngineAssumption DEF Init, Fees
<1>6. QED
  BY <1>2, <1>3, <1>4, <1>5 DEF Safe

LEMMA AlwaysSafe == Spec => []Safe
<1>1. WellFormed /\ Safe /\ [Next]_vars => Safe'
  <2>1. WellFormed /\ Safe /\ UNCHANGED vars => Safe'
    <3>1. UNCHANGED vars => Quiet
      BY DEF vars, Quiet, gateVars
    <3>2. QED
      BY <3>1, QuietSafe
  <2>2. QED
    BY <2>1, ScanStepSafe, CloserStepSafe, EmergencyStepSafe, EnvironmentSafe DEF Next
<1>2. QED
  BY <1>1, SafeInit, AlwaysWellFormed, PTL DEF Spec

-----------------------------------------------------------------------------
(* The safety theorems *)

\* At most maxConcurrentPositions positions are active or planned, although the
\* slots are counted before the awaits of the scan.
THEOREM MaxPositionsHold == Spec => []WithinMaxPositions
<1>1. Safe => WithinMaxPositions
  BY DEF Safe, Slots
<1>2. QED
  BY <1>1, AlwaysSafe, PTL

\* No pool is entered twice, although a scan filters against a stale snapshot.
THEOREM PoolsHeldOnce == Spec => []OnePositionPerPool
<1>1. Safe => OnePositionPerPool
  BY DEF Safe
<1>2. QED
  BY <1>1, AlwaysSafe, PTL

\* At most one position is opened after the emergency stop has triggered.
THEOREM LateEntriesBounded == Spec => []LateEntryBound
<1>1. Safe => LateEntryBound
  BY DEF Safe, Late
<1>2. QED
  BY <1>1, AlwaysSafe, PTL

\* The circuit breaker counts every active position, unless one was closed twice.
THEOREM BreakerCounts == Spec => []BreakerCoversActive
<1>1. Safe => BreakerCoversActive
  BY DEF Safe
<1>2. QED
  BY <1>1, AlwaysSafe, PTL

\* The balance pays the closing fees of the active positions, unless one was
\* closed twice: the reserve covers the entries that were sized before.
THEOREM FeesAlwaysCovered == Spec => []FeesCovered
<1>1. Safe => FeesCovered
  BY DEF Safe, Fees, FeesCovered
<1>2. QED
  BY <1>1, AlwaysSafe, PTL

\* A stopped engine that has drained takes no step that brings it back to work.
THEOREM SettledStays == Spec => SettledForGood
<1>1. ASSUME WellFormed, Settled, [Next]_vars PROVE Settled'
  <2> USE <1>1 DEF Settled
  <2>1. CASE UNCHANGED vars
    BY <2>1 DEF vars, lifeVars, scanVars, closerVars, emgVars
  <2>2. CASE ScanStep
    BY <2>2 DEF ScanStep, ScanBalance, ScanFilter, ScanFails, ScanCompleted, EnterPosition,
                SizePosition, EntryFails, OpenPosition
  <2>3. ASSUME NEW c \in Closer, CloserStep(c) PROVE FALSE
    BY <2>3 DEF CloserStep, CheckExitConditions, KeepPosition, CheckDone, ClosePosition,
                CloseFails
  <2>4. CASE EmergencyStep
    BY <2>4 DEF EmergencyStep, EmergencyCloseAll, EmergencyClose, EmergencyCloseFails,
                EmergencyDone
  <2>5. CASE Environment
    <3>1. ~(Start \/ ScanTick \/ EmergencyStop \/ Stop)
      BY DEF Start, ScanTick, EmergencyStop, Stop
    <3>2. \A c \in Closer : ~CheckPositions(c)
      BY DEF CheckPositions
    <3>3. \A c \in Closer, p \in Position : ~ClosePositionById(c, p)
      BY DEF ClosePositionById
    <3>4. CASE CheckDailyReset \/ TimePasses \/ \E q \in Pool : CooldownExpires(q)
      BY <3>4 DEF CheckDailyReset, TimePasses, CooldownExpires, lifeVars, scanVars, closerVars,
                  emgVars
    <3>5. QED
      BY <2>5, <3>1, <3>2, <3>3, <3>4 DEF Environment
  <2>6. QED
    BY <1>1, <2>1, <2>2, <2>3, <2>4, <2>5 DEF Next
<1>2. WellFormed /\ [Next]_vars => [Settled => Settled']_vars
  BY <1>1
<1>3. QED
  BY <1>2, AlwaysWellFormed, PTL DEF Spec, SettledForGood

-----------------------------------------------------------------------------
(* The books: the exposure of the circuit breaker and the virtual balance   *)
(* against the sums over the positions                                      *)

Closed == { p \in Position : status[p] = "CLOSED" }

Books ==
  ~reclosed => /\ cb.exposure >= Total(amount, Active)
               /\ BalanceAccurate

LEMMA TotalIsSum == ASSUME NEW f, NEW S PROVE Total(f, S) = SumOf(f, S)
BY DEF Total, SumOf

LEMMA BookTypes ==
  ASSUME WellFormed
  PROVE  /\ IsFiniteSet(Active) /\ IsFiniteSet(Closed)
         /\ Cardinality(Active) \in Nat /\ Cardinality(Closed) \in Nat
         /\ Total(amount, Active) \in Nat /\ Total(pnl, Closed) \in Int
         /\ balance \in Int /\ cb.exposure \in Nat
<1>1. IsFiniteSet(Active) /\ IsFiniteSet(Closed)
  BY EngineAssumption, FS_Subset DEF Active, Closed
<1>2. \A p \in Position : amount[p] \in Nat /\ pnl[p] \in Int
  BY DEF WellFormed, TypeOK
<1>3. Total(amount, Active) \in Nat
  BY <1>1, <1>2, SumNat, TotalIsSum DEF Active
<1>4. Total(pnl, Closed) \in Int
  BY <1>1, <1>2, SumInt, TotalIsSum DEF Closed
<1> QED BY <1>1, <1>3, <1>4, FS_CardinalityType DEF WellFormed, TypeOK, CircuitBreakerState

\* A step that touches neither the positions nor the books.
Unbooked ==
  UNCHANGED << status, amount, pnl, balance, reclosed >> /\ cb'.exposure = cb.exposure

\* A close, recorded by the engine or not.
Closing(p, x) ==
  /\ status[p] # "none" /\ x \in Outcomes(amount[p]) /\ ExecutorClose(p, x)
  /\ cb' = cb \/ cb' = RecordPositionClosed(cb, pool[p], amount[p])

LEMMA BookSteps ==
  ASSUME WellFormed, [Next]_vars
  PROVE  \/ Unbooked
         \/ \E p \in Position : OpenPosition(p)
         \/ \E p \in Position, x \in PnlSet : Closing(p, x)
<1> USE DEF Unbooked, positionVars, history
<1>1. CASE UNCHANGED vars
  BY <1>1 DEF vars
<1>2. CASE ScanStep
  BY <1>2 DEF ScanStep, ScanBalance, ScanFilter, ScanFails, ScanCompleted, EnterPosition,
              SizePosition, EntryFails
<1>3. ASSUME NEW c \in Closer, CloserStep(c)
      PROVE  Unbooked \/ \E p \in Position, x \in PnlSet : Closing(p, x)
  <2>1. ASSUME NEW x \in PnlSet, ClosePosition(c, x)
        PROVE  closing[c] \in Position /\ Closing(closing[c], x)
    BY <2>1 DEF ClosePosition, RecordClose, Closing, WellFormed, RefsOK
  <2>2. ASSUME NEW p \in Position, CheckExitConditions(c, p) PROVE Unbooked
    BY <2>2 DEF CheckExitConditions, nothingClosed
  <2>3. CASE KeepPosition(c) \/ CheckDone(c) \/ CloseFails(c)
    BY <2>3 DEF KeepPosition, CheckDone, CloseFails, nothingClosed
  <2> QED BY <1>3, <2>1, <2>2, <2>3 DEF CloserStep
<1>4. CASE EmergencyStep
  <2>1. ASSUME NEW p \in Position, NEW x \in PnlSet, EmergencyClose(p, x)
        PROVE  Closing(p, x)
    BY <2>1 DEF EmergencyClose, outsideEmergency, Closing, WellFormed, RefsOK
  <2>2. CASE EmergencyCloseAll \/ EmergencyDone
    BY <2>2 DEF EmergencyCloseAll, EmergencyDone, outsideEmergency
  <2>3. ASSUME NEW p \in Position, EmergencyCloseFails(p) PROVE Unbooked
    BY <2>3 DEF EmergencyCloseFails, outsideEmergency
  <2> QED BY <1>4, <2>1, <2>2, <2>3 DEF EmergencyStep
<1>5. CASE Environment
  <2>1. CASE Start \/ ScanTick
    BY <2>1 DEF Start, ScanTick
  <2>2. CASE \E c \in Closer : CheckPositions(c)
    BY <2>2 DEF CheckPositions, nothingClosed
  <2>3. CASE \E c \in Closer, p \in Position : ClosePositionById(c, p)
    BY <2>3 DEF ClosePositionById, nothingClosed
  <2>4. CASE EmergencyStop \/ Stop \/ CheckDailyReset
    BY <2>4 DEF EmergencyStop, Stop, CheckDailyReset
  <2>5. CASE TimePasses
    BY <2>5 DEF TimePasses, Elapsed, WellFormed, TypeOK, CircuitBreakerState
  <2>6. CASE \E q \in Pool : CooldownExpires(q)
    BY <2>6 DEF CooldownExpires
  <2> QED BY <1>5, <2>1, <2>2, <2>3, <2>4, <2>5, <2>6 DEF Environment
<1> QED BY <1>1, <1>2, <1>3, <1>4, <1>5 DEF Next

LEMMA OpenBooks ==
  ASSUME WellFormed, Books, NEW p \in Position, OpenPosition(p)
  PROVE  Books'
<1>1. /\ p \notin Active /\ p \notin Closed
      /\ Active' = Active \cup {p} /\ Closed' = Closed
      /\ Cardinality(Active') = Cardinality(Active) + 1
  BY OneMoreActive DEF OpenPosition, Active, Closed, WellFormed, TypeOK
<1>2. size \in Nat /\ amount' = [amount EXCEPT ![p] = size] /\ amount \in [Position -> Nat]
  BY DEF OpenPosition, WellFormed, TypeOK
<1>3. Active \subseteq Position /\ Active \cup {p} \subseteq Position
  BY DEF Active
<1>4. Total(amount', Active') = size + Total(amount, Active)
  <2>1. \A r \in Active \cup {p} : amount'[r] \in Int
    BY <1>2, <1>3
  <2>2. SumOf(amount', Active \cup {p}) = amount'[p] + SumOf(amount', Active)
    BY <1>1, <2>1, BookTypes, SumAdd
  <2>3. SumOf(amount', Active) = SumOf(amount, Active)
    <3>1. \A r \in Active : amount'[r] = amount[r]
      BY <1>1, <1>2, <1>3
    <3> QED BY <3>1, BookTypes, SumSame
  <2> QED BY <1>1, <1>2, <2>2, <2>3, TotalIsSum
<1>5. /\ cb'.exposure = cb.exposure + size /\ balance' = balance - size - 1
      /\ pnl' = pnl /\ reclosed' = reclosed
  BY DEF OpenPosition, RecordPositionOpened
<1>6. ASSUME ~reclosed PROVE BalanceAccurate'
  <2>1. balance = InitialBalance - Total(amount, Active) - Cardinality(Active)
                    + Total(pnl, Closed) - 2 * Cardinality(Closed)
    BY <1>6 DEF Books, BalanceAccurate, Closed
  <2>2. balance' = InitialBalance - Total(amount', Active') - Cardinality(Active')
                     + Total(pnl', Closed') - 2 * Cardinality(Closed')
    BY <2>1, <1>1, <1>2, <1>4, <1>5, BookTypes, EngineAssumption
  <2> QED BY <2>2 DEF BalanceAccurate, Closed
<1>7. ASSUME ~reclosed PROVE cb'.exposure >= Total(amount', Active')
  BY <1>7, <1>2, <1>4, <1>5, BookTypes DEF Books
<1> QED BY <1>5, <1>6, <1>7 DEF Books

LEMMA CloseBooks ==
  ASSUME WellFormed, Books, NEW p \in Position, NEW x \in PnlSet, Closing(p, x)
  PROVE  Books'
<1> SUFFICES ASSUME ~reclosed' PROVE cb'.exposure >= Total(amount', Active') /\ BalanceAccurate'
  BY DEF Books
<1>1. /\ ~reclosed /\ status[p] = "ACTIVE"
      /\ status' = [status EXCEPT ![p] = "CLOSED"] /\ amount' = amount
      /\ balance' = balance + amount[p] + x - 1 /\ pnl' = [pnl EXCEPT ![p] = x]
  BY DEF Closing, ExecutorClose, WellFormed, TypeOK
<1>2. /\ p \in Active /\ p \notin Closed
      /\ Active' = Active \ {p} /\ Closed' = Closed \cup {p}
      /\ Cardinality(Active') = Cardinality(Active) - 1
  <2>1. /\ p \in Active /\ p \notin Closed
        /\ Closed' = Closed \cup {p}
    BY <1>1 DEF Active, Closed, WellFormed, TypeOK
  <2>2. Active' = Active \ {p} /\ Cardinality(Active') = Cardinality(Active) - 1
    BY <1>1, OneLessActive
  <2> QED BY <2>1, <2>2
<1>3. /\ amount \in [Position -> Nat] /\ pnl \in [Position -> Int]
      /\ x \in Int /\ Active \subseteq Position /\ Closed \cup {p} \subseteq Position
  BY EngineAssumption DEF WellFormed, TypeOK, Active, Closed
<1>4. Total(amount', Active') = Total(amount, Active) - amount[p]
  <2>1. \A r \in Active : amount[r] \in Int
    BY <1>3
  <2>2. SumOf(amount, Active) = amount[p] + SumOf(amount, Active \ {p})
    BY <1>2, <2>1, BookTypes, SumRemove
  <2>3. SumOf(amount, Active \ {p}) \in Int
    <3>1. IsFiniteSet(Active \ {p})
      BY BookTypes, FS_Subset
    <3> QED BY <2>1, <3>1, SumInt
  <2> QED BY <1>1, <1>2, <1>3, <2>2, <2>3, TotalIsSum
<1>5. Total(pnl', Closed') = Total(pnl, Closed) + x
  <2>1. \A r \in Closed \cup {p} : pnl'[r] \in Int
    BY <1>1, <1>3
  <2>2. SumOf(pnl', Closed \cup {p}) = pnl'[p] + SumOf(pnl', Closed)
    BY <1>2, <2>1, BookTypes, SumAdd
  <2>3. SumOf(pnl', Closed) = SumOf(pnl, Closed)
    <3>1. \A r \in Closed : pnl'[r] = pnl[r]
      BY <1>1, <1>2, <1>3
    <3> QED BY <3>1, BookTypes, SumSame
  <2>4. pnl'[p] = x
    BY <1>1, <1>3
  <2> QED BY <1>2, <1>3, <2>2, <2>3, <2>4, TotalIsSum, BookTypes
<1>6. Cardinality(Closed') = Cardinality(Closed) + 1
  BY <1>2, BookTypes, FS_AddElement
<1>7. BalanceAccurate'
  <2>1. balance = InitialBalance - Total(amount, Active) - Cardinality(Active)
                    + Total(pnl, Closed) - 2 * Cardinality(Closed)
    BY <1>1 DEF Books, BalanceAccurate, Closed
  <2>2. amount[p] \in Nat
    BY <1>3
  <2>3. balance' = InitialBalance - Total(amount', Active') - Cardinality(Active')
                     + Total(pnl', Closed') - 2 * Cardinality(Closed')
    BY <2>1, <2>2, <1>1, <1>2, <1>3, <1>4, <1>5, <1>6, BookTypes, EngineAssumption
  <2> QED BY <2>3 DEF BalanceAccurate, Closed
<1>8. cb'.exposure >= Total(amount', Active')
  <2>1. cb.exposure >= Total(amount, Active) /\ amount[p] \in Nat
    BY <1>1, <1>3 DEF Books
  <2>2. CASE cb' = cb
    BY <2>1, <2>2, <1>4, BookTypes
  <2>3. CASE cb' = RecordPositionClosed(cb, pool[p], amount[p])
    <3>1. cb'.exposure = Less(cb.exposure, amount[p])
      BY <2>3 DEF RecordPositionClosed
    <3> QED BY <3>1, <2>1, <1>4, BookTypes DEF Less
  <2> QED BY <2>2, <2>3 DEF Closing
<1> QED BY <1>7, <1>8

LEMMA AlwaysBooks == Spec => []Books
<1>1. Init => Books
  <2> SUFFICES ASSUME Init PROVE Books
    OBVIOUS
  <2>1. Active = {} /\ Closed = {} /\ Cardinality({}) = 0
    BY FS_EmptySet DEF Init, Active, Closed
  <2>2. \A f : Total(f, {}) = 0
    BY SumEmpty, TotalIsSum
  <2>3. BalanceAccurate
    <3>1. Total(amount, Active) = 0 /\ Total(pnl, Closed) = 0
      BY <2>1, <2>2
    <3>2. Cardinality(Active) = 0 /\ Cardinality(Closed) = 0
      BY <2>1
    <3>3. balance = InitialBalance - Total(amount, Active) - Cardinality(Active)
                      + Total(pnl, Closed) - 2 * Cardinality(Closed)
      BY <3>1, <3>2, EngineAssumption DEF Init
    <3> QED BY <3>3 DEF BalanceAccurate, Closed
  <2>4. cb.exposure >= Total(amount, Active)
    BY <2>1, <2>2 DEF Init, InitialBreaker
  <2> QED BY <2>3, <2>4 DEF Books
<1>2. WellFormed /\ Books /\ [Next]_vars => Books'
  <2> SUFFICES ASSUME WellFormed, Books, [Next]_vars PROVE Books'
    OBVIOUS
  <2>1. CASE Unbooked
    <3>1. Active' = Active /\ Closed' = Closed
      BY <2>1 DEF Unbooked, Active, Closed
    <3> QED BY <2>1, <3>1 DEF Unbooked, Books, BalanceAccurate, Closed
  <2> QED BY <2>1, BookSteps, OpenBooks, CloseBooks
<1> QED BY <1>1, <1>2, AlwaysWellFormed, PTL DEF Spec

\* The exposure the circuit breaker compares with its limit is at least the sum of
\* the amounts of the active positions, unless one was closed twice.
THEOREM ExposureCounts == Spec => []ExposureCoversActive
<1>1. Books => ExposureCoversActive
  BY DEF Books, ExposureCoversActive
<1> QED BY <1>1, AlwaysBooks, PTL

\* The virtual balance is the initial one, less what is locked, plus what was
\* realized, less the fees, unless a position was closed twice.
THEOREM BalanceExact == Spec => []OnlyReclosingMiscounts
<1>1. Books => OnlyReclosingMiscounts
  BY DEF Books, OnlyReclosingMiscounts
<1> QED BY <1>1, AlwaysBooks, PTL
=============================================================================
