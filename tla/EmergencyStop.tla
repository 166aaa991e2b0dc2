---------------------------- MODULE EmergencyStop ----------------------------
(***************************************************************************)
(* The kill switch of src/engine/emergency-stop.ts.  Its state is a record *)
(* es, and each method of the class is an operator on that record.         *)
(*                                                                         *)
(* Amounts are integers in some unit of SOL, days are numbered, and of a   *)
(* rolling window only its length is kept: pruneOldFailures may shorten it *)
(* at any time.  The window of transaction failures is like that of API    *)
(* errors, and only the executors of live bots record in it; it is left    *)
(* out, with the kill switch proper, which nothing sets.                   *)
(***************************************************************************)
EXTENDS Integers

CONSTANTS
  MaxDailyLoss,          \* config.maxDailyLossSOL
  MaxTotalLoss,          \* config.maxTotalLossSOL
  MaxConsecutiveLosses,  \* config.maxConsecutiveLosses
  MaxApiErrorsPerHour    \* config.maxApiErrorsPerHour

ASSUME EmergencyAssumption ==
  /\ MaxDailyLoss \in Nat \ {0} /\ MaxTotalLoss \in Nat \ {0}
  /\ MaxConsecutiveLosses \in Nat \ {0} /\ MaxApiErrorsPerHour \in Nat \ {0}

EmergencyStopState ==
  [ isTriggered       : BOOLEAN,
    dailyPnl          : Int,
    totalPnl          : Int,
    consecutiveLosses : Nat,
    dailyResetDate    : Nat,
    apiErrors         : Nat ]

InitialState(today) ==
  [ isTriggered |-> FALSE, dailyPnl |-> 0, totalPnl |-> 0, consecutiveLosses |-> 0,
    dailyResetDate |-> today, apiErrors |-> 0 ]

\* Mutant of CheckDailyReset: the losses in a row are not reset.
CheckDailyResetPnlOnly(es, today) ==
  IF es.dailyResetDate = today THEN es
  ELSE [es EXCEPT !.dailyPnl = 0, !.dailyResetDate = today]

CheckDailyReset(es, today) ==
  IF es.dailyResetDate = today THEN es
  ELSE [es EXCEPT !.dailyPnl = 0, !.consecutiveLosses = 0, !.dailyResetDate = today]

LimitExceeded(es) ==
  \/ es.dailyPnl <= -MaxDailyLoss
  \/ es.totalPnl <= -MaxTotalLoss
  \/ es.consecutiveLosses >= MaxConsecutiveLosses
  \/ es.apiErrors >= MaxApiErrorsPerHour

\* What canTrade() leaves; it returns allowed unless this is triggered.
CanTrade(es, today, recentErrors) ==
  LET now == [CheckDailyReset(es, today) EXCEPT !.apiErrors = recentErrors]
  IN  [now EXCEPT !.isTriggered = @ \/ LimitExceeded(now)]

RecordTradeResult(es, pnl) ==
  [ isTriggered       |-> es.isTriggered,
    dailyPnl          |-> es.dailyPnl + pnl,
    totalPnl          |-> es.totalPnl + pnl,
    consecutiveLosses |-> IF pnl <= 0 THEN es.consecutiveLosses + 1 ELSE 0,
    dailyResetDate    |-> es.dailyResetDate,
    apiErrors         |-> es.apiErrors ]

RecordApiError(es) == [es EXCEPT !.apiErrors = @ + 1]
=============================================================================
