--------------------------- MODULE CircuitBreaker ---------------------------
(***************************************************************************)
(* The per-bot throttle of src/engine/circuit-breaker.ts.  Its state is a  *)
(* record cb, and each method of the class is an operator on that record.  *)
(*                                                                         *)
(* Wall-clock time is kept only as far as the gate can tell it apart:      *)
(* cb.cooling says that the last recorded trade is less than               *)
(* minTimeBetweenTradesMs old, and cb.recentTx counts the trades of the    *)
(* last minute.  Elapsed(cb) is the set of records that the passing of     *)
(* time, followed by pruneOldTimestamps, can leave.                        *)
(***************************************************************************)
EXTENDS Integers

CONSTANTS
  Pool,                \* pool addresses
  MaxPositionCount,    \* config.maxPositionCount
  MaxPositionsPerPool, \* config.maxPositionsPerPool
  MaxSinglePosition,   \* config.maxSinglePositionSOL
  MaxTotalExposure,    \* config.maxTotalExposureSOL
  MaxTxPerMinute       \* config.maxTxPerMinute

ASSUME BreakerAssumption ==
  /\ MaxPositionCount \in Nat \ {0}
  /\ MaxPositionsPerPool \in Nat \ {0}
  /\ MaxSinglePosition \in Nat
  /\ MaxTotalExposure \in Nat
  /\ MaxTxPerMinute \in Nat

CircuitBreakerState ==
  [ count    : Nat,
    byPool   : [Pool -> Nat],
    exposure : Nat,
    cooling  : BOOLEAN,
    recentTx : Nat ]

InitialBreaker ==
  [ count |-> 0, byPool |-> [q \in Pool |-> 0], exposure |-> 0,
    cooling |-> FALSE, recentTx |-> 0 ]

\* Mutant of Less: without the guard.
LessUnguarded(a, b) == a - b

\* A subtraction that stops at zero: Math.max(0, ...) and the isNeg() guard.
Less(a, b) == IF a >= b THEN a - b ELSE 0

CanOpenPosition(cb, pool, amount) ==
  /\ cb.count < MaxPositionCount
  /\ cb.byPool[pool] < MaxPositionsPerPool
  /\ amount <= MaxSinglePosition
  /\ cb.exposure + amount <= MaxTotalExposure
  /\ cb.recentTx < MaxTxPerMinute
  /\ ~cb.cooling

RecordPositionOpened(cb, pool, amount) ==
  [ count    |-> cb.count + 1,
    byPool   |-> [cb.byPool EXCEPT ![pool] = @ + 1],
    exposure |-> cb.exposure + amount,
    cooling  |-> TRUE,
    recentTx |-> cb.recentTx + 1 ]

\* Mutant of RecordPositionClosed: the executor and the engine both record it.
RecordPositionClosedTwice(cb, pool, amount) ==
  [ cb EXCEPT !.count = Less(@, 2), !.byPool[pool] = Less(@, 2),
              !.exposure = Less(@, 2 * amount), !.cooling = TRUE, !.recentTx = @ + 2 ]

RecordPositionClosed(cb, pool, amount) ==
  [ count    |-> Less(cb.count, 1),
    byPool   |-> [cb.byPool EXCEPT ![pool] = Less(@, 1)],
    exposure |-> Less(cb.exposure, amount),
    cooling  |-> TRUE,
    recentTx |-> cb.recentTx + 1 ]

\* The cooldown (seconds) always ends before the trade that started it leaves
\* the one-minute window.
Elapsed(cb) ==
  IF cb.cooling THEN { [cb EXCEPT !.cooling = FALSE] }
                ELSE { [cb EXCEPT !.recentTx = Less(@, 1)] }
=============================================================================
