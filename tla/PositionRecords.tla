---------------------------- MODULE PositionRecords ----------------------------
(***************************************************************************)
(* How what an engine does reaches the database, and who else writes       *)
(* there: the event handlers and saves of src/engine/orchestrator.ts, its  *)
(* stopBot and emergency callback, the stop, emergency and configuration   *)
(* routes of src/routes/bot.ts, and the reconciliation of                  *)
(* src/routes/position.ts.                                                 *)
(*                                                                         *)
(* The engine does not wait for the handlers, and their writes take        *)
(* connections from a pool: two writes in flight land in either order.  An *)
(* action is what runs between two waits; a step of a handler is the       *)
(* landing of the write it waits for, and what follows at once.            *)
(*                                                                         *)
(* One bot.  Of its engine: which positions it holds, the virtual balance, *)
(* an entry in flight, and closes in flight, one per position (a second    *)
(* close of the same one is the matter of TradingEngine).  A live close    *)
(* takes the account off the chain some waits before the position is       *)
(* closed.  All amounts are 1 and fees are left out; the balance is the    *)
(* change since the starting balance was set.                              *)
(***************************************************************************)
EXTENDS Integers, FiniteSets, FiniteSetsExt

CONSTANTS
  Position,    \* bounds the positions ever opened
  Result,      \* profits and losses; a close that finds its account gone realizes 0
  NoResult, NoPosition, NoSave,
  Handler,     \* bounds the handlers of closed positions in flight
  Save,        \* bounds the saves of the balance in flight
  MaxSessions, \* bounds the starts of the bot
  Modes,       \* the modes of the bot: "simulation", "live"
  Scenarios    \* the sets of things that may come in between in one behaviour, of
               \* "stop", "config", "restart", "emergency", "reconcile", "outside", "crash", "fail"

ASSUME RecordsAssumption ==
  /\ IsFiniteSet(Position)
  /\ Result \subseteq Int /\ NoResult \notin Result
  /\ NoPosition \notin Position /\ NoSave \notin Int
  /\ MaxSessions \in Nat
  /\ Modes \subseteq {"simulation", "live"}

VARIABLES
  mode,       \* bots.mode
  ops,        \* the scenario of this behaviour
  stopped,    \* bots.status = "stopped"
  config,     \* a change of the configuration has read that the bot is stopped
  accounts,   \* the positions whose account is on the chain, those of a live bot
  \* the engine
  registered, \* runningBots.has(botId)
  isRunning,  \* the engine's isRunning
  sessions,   \* starts so far
  mem,        \* position -> its status in the executor of this session
  balance,    \* virtualBalanceLamports, as the change since the starting balance
  entering,   \* the entries in flight: "now" of this session, "before" of an earlier one
  exiting,    \* the positions whose close is in flight
  \* the database
  row,        \* position -> positions.status
  result,     \* position -> positions.realizedPnlLamports
  trades, pnl,\* bots.totalTrades and bots.totalPnlLamports
  saved,      \* bots.currentVirtualBalanceLamports
  \* the handlers
  opened,     \* position -> where onPositionOpened waits
  hpc, hpos, hread, \* closed-position handler -> where it waits, its position, botRow
  save,       \* save in flight -> the balance it writes
  \* stopBot, the emergency callback, the emergency route, reconciliation
  stopPc, stopSave, stopTodo,
  emgPc, emgSave, emgTodo,
  routePc,
  recPc, recRows, recMissing, recWrite,
  \* history
  outcome,    \* position -> the result reported by a "position:closed" event
  dismissed,  \* the positions of results that a change of the configuration reset
  mishaps     \* what has happened that the records are known not to survive

engineVars == << registered, isRunning, sessions, mem, balance, entering, exiting >>
tables     == << row, result, trades, pnl, saved >>
totals     == << trades, pnl >>
handlers   == << opened, hpc, hpos, hread, save >>
stopVars   == << stopPc, stopSave, stopTodo >>
emgVars    == << emgPc, emgSave, emgTodo, routePc >>
recVars    == << recPc, recRows, recMissing, recWrite >>
history    == << outcome, dismissed, mishaps >>
vars == << mode, ops, stopped, config, accounts, engineVars, tables, handlers, stopVars, emgVars,
           recVars, history >>

Active == { p \in Position : mem[p] = "ACTIVE" }

\* The positions a "position:closed" event has been emitted for.
Reported == { p \in Position : outcome[p] # NoResult }

RowStatus == {"none", "active", "closing", "closed", "orphaned"}
Mishap == {"failed", "crashed", "overtaken", "overlapped", "savesOverlapped",
           "emergency", "late", "reconfigured"}

TypeOK ==
  /\ mode \in {"simulation", "live"} /\ ops \in Scenarios
  /\ stopped \in BOOLEAN /\ config \in BOOLEAN /\ accounts \subseteq Position
  /\ registered \in BOOLEAN /\ isRunning \in BOOLEAN
  /\ sessions \in Nat
  /\ mem \in [Position -> {"none", "ACTIVE", "CLOSED", "gone"}]
  /\ balance \in Int
  /\ entering \subseteq {"now", "before"} /\ exiting \subseteq Position
  /\ row \in [Position -> RowStatus]
  /\ result \in [Position -> Result \cup {NoResult}]
  /\ trades \in Nat /\ pnl \in Int /\ saved \in Int
  /\ opened \in [Position -> {"none", "insert", "rest", "done"}]
  /\ hpc \in [Handler -> {"idle", "row", "read", "write", "rest"}]
  /\ hpos \in [Handler -> Position \cup {NoPosition}]
  /\ hread \in [Handler -> [trades : Nat, pnl : Int]]
  /\ save \in [Save -> Int \cup {NoSave}]
  /\ stopPc \in {"off", "asked", "persist", "mark"}
  /\ stopSave \in Int /\ stopTodo \subseteq Position
  /\ emgPc \in {"off", "persist", "closing", "done"}
  /\ emgSave \in Int /\ emgTodo \subseteq Position
  /\ routePc \in {"idle", "trigger"}
  /\ recPc \in {"idle", "lookup", "walk", "write"}
  /\ recRows \subseteq Position /\ recMissing \subseteq Position
  /\ recWrite \in [pos : Position \cup {NoPosition}, status : {"closed", "orphaned"}]
  /\ outcome \in [Position -> Result \cup {NoResult}]
  /\ dismissed \subseteq Position
  /\ mishaps \subseteq Mishap

NothingRead == [trades |-> 0, pnl |-> 0]
NothingToWrite == [pos |-> NoPosition, status |-> "orphaned"]

NoHandlers ==
  /\ hpc = [h \in Handler |-> "idle"]
  /\ hpos = [h \in Handler |-> NoPosition]
  /\ hread = [h \in Handler |-> NothingRead]
  /\ save = [s \in Save |-> NoSave]

Init ==
  /\ mode \in Modes /\ ops \in Scenarios
  /\ stopped = TRUE /\ config = FALSE /\ accounts = {}
  /\ registered = FALSE /\ isRunning = FALSE /\ sessions = 0
  /\ mem = [p \in Position |-> "none"]
  /\ balance = 0 /\ entering = {} /\ exiting = {}
  /\ row = [p \in Position |-> "none"]
  /\ result = [p \in Position |-> NoResult]
  /\ trades = 0 /\ pnl = 0 /\ saved = 0
  /\ opened = [p \in Position |-> "none"]
  /\ NoHandlers
  /\ stopPc = "off" /\ stopSave = 0 /\ stopTodo = {}
  /\ emgPc = "off" /\ emgSave = 0 /\ emgTodo = {} /\ routePc = "idle"
  /\ recPc = "idle" /\ recRows = {} /\ recMissing = {} /\ recWrite = NothingToWrite
  /\ outcome = [p \in Position |-> NoResult]
  /\ dismissed = {} /\ mishaps = {}

Blame(causes) == mishaps' = mishaps \cup causes
When(b, cause) == IF b THEN {cause} ELSE {}

-----------------------------------------------------------------------------
(* The engine *)

outsideEngine == << mode, ops, stopped, config, registered, isRunning, sessions, tables, stopVars,
                    emgVars, recVars, dismissed >>

\* A scan has decided to enter a pool.
BeginEntry ==
  /\ isRunning /\ "now" \notin entering
  /\ entering' = entering \cup {"now"}
  /\ Blame(When(stopPc = "mark", "late"))
  /\ UNCHANGED << outsideEngine, accounts, mem, balance, exiting, handlers, outcome >>

EntryFails(e) ==
  /\ e \in entering /\ entering' = entering \ {e}
  /\ UNCHANGED << outsideEngine, accounts, mem, balance, exiting, handlers, outcome, mishaps >>

\* The entry goes through, and "position:opened" starts onPositionOpened, which
\* sends its INSERT.  The entry of an earlier session ends in that session's
\* executor, which nobody asks any more.
OpenPosition(p, e) ==
  /\ e \in entering /\ mem[p] = "none"
  /\ mem' = [mem EXCEPT ![p] = IF e = "now" THEN "ACTIVE" ELSE "gone"]
  /\ accounts' = IF mode = "live" THEN accounts \cup {p} ELSE accounts
  /\ balance' = IF e = "now" THEN balance - 1 ELSE balance
  /\ entering' = entering \ {e}
  /\ opened' = [opened EXCEPT ![p] = "insert"]
  /\ UNCHANGED << outsideEngine, exiting, hpc, hpos, hread, save, outcome, mishaps >>

\* A check finds an exit condition, or the user asks for the close: then the
\* orchestrator must still have the bot.
BeginClose(p) ==
  /\ isRunning \/ registered
  /\ mem[p] = "ACTIVE" /\ p \notin exiting
  /\ exiting' = exiting \cup {p}
  /\ UNCHANGED << outsideEngine, accounts, mem, balance, entering, handlers, outcome, mishaps >>

\* The transactions of a live close, or of an emergency close, take the account off
\* the chain.  The position is tracked as before: the close has still to ask for a
\* transaction and a price.
RemoveAccount(p) ==
  /\ p \in accounts /\ p \in exiting \cup emgTodo
  /\ accounts' = accounts \ {p}
  /\ UNCHANGED << outsideEngine, mem, balance, entering, exiting, handlers, outcome, mishaps >>

\* A wallet tool of the user's closes a position.
ExternalClose(p) ==
  /\ "outside" \in ops
  /\ p \in accounts /\ accounts' = accounts \ {p}
  /\ UNCHANGED << outsideEngine, mem, balance, entering, exiting, handlers, outcome, mishaps >>

\* Whatever it did to the account, the position is as active as it was.
CloseFails(p) ==
  /\ p \in exiting /\ exiting' = exiting \ {p}
  /\ UNCHANGED << outsideEngine, accounts, mem, balance, entering, handlers, outcome, mishaps >>

\* The close goes through, and "position:closed" starts onPositionClosed, which
\* sends its first UPDATE.  A live close has taken the account off, or has found
\* none (and one that finds the account without liquidity is left out).
ClosePosition(p, x, h) ==
  /\ p \in exiting /\ mem[p] \in {"ACTIVE", "gone"} /\ p \notin accounts
  /\ hpc[h] = "idle"                                       \* bound: Handler
  /\ exiting' = exiting \ {p}
  /\ mem' = [mem EXCEPT ![p] = "CLOSED"]
  /\ balance' = IF mem[p] = "ACTIVE" THEN balance + 1 + x ELSE balance
  /\ hpc' = [hpc EXCEPT ![h] = "row"] /\ hpos' = [hpos EXCEPT ![h] = p]
  /\ outcome' = [outcome EXCEPT ![p] = x]
  /\ Blame(When(opened[p] = "insert", "overtaken")
           \cup When(\E k \in Handler : hpc[k] # "idle", "overlapped"))
  /\ UNCHANGED << outsideEngine, accounts, entering, opened, hread, save >>

-----------------------------------------------------------------------------
(* Saves of the balance *)

SaveInFlight == \/ \E s \in Save : save[s] # NoSave
                \/ stopPc = "persist" \/ emgPc = "persist"

\* Mutant of PersistVirtualBalance: nothing is saved.
PersistNothing(causes) ==
  /\ UNCHANGED save /\ Blame(causes)

\* persistVirtualBalance, not awaited by the handlers: the balance of the bot
\* that is registered now is read, and its UPDATE sent.
PersistVirtualBalance(causes) ==
  IF registered
    THEN /\ \E s \in Save : /\ save[s] = NoSave            \* bound: Save
                            /\ save' = [save EXCEPT ![s] = balance]
         /\ Blame(causes \cup When(SaveInFlight, "savesOverlapped"))
    ELSE UNCHANGED save /\ Blame(causes)

outsideHandlers == << mode, ops, stopped, config, accounts, engineVars, stopVars, emgVars, recVars,
                      outcome, dismissed >>

SaveLands(s) ==
  /\ save[s] # NoSave
  /\ saved' = save[s] /\ save' = [save EXCEPT ![s] = NoSave]
  /\ UNCHANGED << outsideHandlers, row, result, totals, opened, hpc, hpos, hread, mishaps >>

SaveFails(s) ==
  /\ "fail" \in ops
  /\ save[s] # NoSave
  /\ save' = [save EXCEPT ![s] = NoSave]
  /\ Blame({"failed"})
  /\ UNCHANGED << outsideHandlers, tables, opened, hpc, hpos, hread >>

-----------------------------------------------------------------------------
(* onPositionOpened *)

InsertRow(p) ==
  /\ opened[p] = "insert"
  /\ row' = [row EXCEPT ![p] = "active"]
  /\ opened' = [opened EXCEPT ![p] = "rest"]
  /\ UNCHANGED << outsideHandlers, result, totals, saved, hpc, hpos, hread, save, mishaps >>

\* The entry of the log and the activity of the bot have been written.
FinishOpened(p) ==
  /\ opened[p] = "rest"
  /\ opened' = [opened EXCEPT ![p] = "done"]
  /\ PersistVirtualBalance({})
  /\ UNCHANGED << outsideHandlers, tables, hpc, hpos, hread >>

\* A write fails: the catch logs it, and the rest of the handler is not done.
OpenedFails(p) ==
  /\ "fail" \in ops
  /\ opened[p] \in {"insert", "rest"}
  /\ opened' = [opened EXCEPT ![p] = "done"]
  /\ Blame({"failed"})
  /\ UNCHANGED << outsideHandlers, tables, hpc, hpos, hread, save >>

-----------------------------------------------------------------------------
(* onPositionClosed *)

\* Mutant of UpdateRow: the result is left to the reconciliation.
UpdateRowNoResult(h) ==
  /\ hpc[h] = "row"
  /\ hpc' = [hpc EXCEPT ![h] = "read"]
  /\ row' = [row EXCEPT ![hpos[h]] = IF @ = "none" THEN @ ELSE "closed"]
  /\ UNCHANGED << outsideHandlers, result, totals, saved, opened, hpos, hread, save, mishaps >>

\* Mutant of UpdateRow: an upsert, which writes the row when it is not there.
UpdateRowUpsert(h) ==
  /\ hpc[h] = "row"
  /\ hpc' = [hpc EXCEPT ![h] = "read"]
  /\ row' = [row EXCEPT ![hpos[h]] = "closed"]
  /\ result' = [result EXCEPT ![hpos[h]] = outcome[hpos[h]]]
  /\ UNCHANGED << outsideHandlers, totals, saved, opened, hpos, hread, save, mishaps >>

\* The UPDATE finds the row, or no row when the INSERT has not landed.
UpdateRow(h) ==
  /\ hpc[h] = "row"
  /\ hpc' = [hpc EXCEPT ![h] = "read"]
  /\ IF row[hpos[h]] = "none"
       THEN UNCHANGED << row, result >>
       ELSE /\ row' = [row EXCEPT ![hpos[h]] = "closed"]
            /\ result' = [result EXCEPT ![hpos[h]] = outcome[hpos[h]]]
  /\ UNCHANGED << outsideHandlers, totals, saved, opened, hpos, hread, save, mishaps >>

ReadTotals(h) ==
  /\ hpc[h] = "read"
  /\ hpc' = [hpc EXCEPT ![h] = "write"]
  /\ hread' = [hread EXCEPT ![h] = [trades |-> trades, pnl |-> pnl]]
  /\ UNCHANGED << outsideHandlers, tables, opened, hpos, save, mishaps >>

\* Mutant of WriteTotals: a trade is counted when it is read and when it is written.
WriteTotalsTwice(h) ==
  /\ hpc[h] = "write"
  /\ hpc' = [hpc EXCEPT ![h] = "rest"]
  /\ trades' = hread[h].trades + 2 /\ pnl' = hread[h].pnl + outcome[hpos[h]]
  /\ UNCHANGED << outsideHandlers, row, result, saved, opened, hpos, hread, save, mishaps >>

\* Mutant of WriteTotals: only profits are added up.
WriteTotalsProfits(h) ==
  /\ hpc[h] = "write"
  /\ hpc' = [hpc EXCEPT ![h] = "rest"]
  /\ trades' = hread[h].trades + 1
  /\ pnl' = hread[h].pnl + IF outcome[hpos[h]] > 0 THEN outcome[hpos[h]] ELSE 0
  /\ UNCHANGED << outsideHandlers, row, result, saved, opened, hpos, hread, save, mishaps >>

\* What was read, and not what the row has now, is added to.
WriteTotals(h) ==
  /\ hpc[h] = "write"
  /\ hpc' = [hpc EXCEPT ![h] = "rest"]
  /\ trades' = hread[h].trades + 1 /\ pnl' = hread[h].pnl + outcome[hpos[h]]
  /\ UNCHANGED << outsideHandlers, row, result, saved, opened, hpos, hread, save, mishaps >>

HandlerEnds(h) ==
  /\ hpc' = [hpc EXCEPT ![h] = "idle"]
  /\ hpos' = [hpos EXCEPT ![h] = NoPosition]
  /\ hread' = [hread EXCEPT ![h] = NothingRead]

\* The entry of the log has been written.
FinishClosed(h) ==
  /\ hpc[h] = "rest"
  /\ HandlerEnds(h)
  /\ PersistVirtualBalance({})
  /\ UNCHANGED << outsideHandlers, tables, opened >>

ClosedFails(h) ==
  /\ "fail" \in ops
  /\ hpc[h] # "idle"
  /\ HandlerEnds(h)
  /\ Blame({"failed"})
  /\ UNCHANGED << outsideHandlers, tables, opened, save >>

-----------------------------------------------------------------------------
(* POST /bot/:botId/stop and stopBot *)

outsideStop == << mode, ops, config, accounts, sessions, mem, balance, entering, exiting, result,
                  totals, handlers, emgVars, recVars, outcome, dismissed >>

\* The route writes the status before it asks the orchestrator.
RequestStop ==
  /\ "stop" \in ops /\ ~stopped /\ stopPc = "off"
  /\ stopped' = TRUE /\ stopPc' = "asked"
  /\ UNCHANGED << outsideStop, registered, isRunning, row, saved, stopSave, stopTodo, mishaps >>

\* The balance is read, and its UPDATE awaited.
StopBot ==
  /\ stopPc = "asked"
  /\ IF registered
       THEN /\ stopPc' = "persist" /\ stopSave' = balance
            /\ Blame(When(SaveInFlight, "savesOverlapped"))
       ELSE /\ stopPc' = "off" /\ UNCHANGED << stopSave, mishaps >>
  /\ UNCHANGED << outsideStop, stopped, registered, isRunning, row, saved, stopTodo >>

\* What the engine is about to hold is not among its active positions, and the
\* row of one just opened may not be there.
LateAtStop == entering # {} \/ \E p \in Position : opened[p] = "insert"

\* Mutant of StopSaved: the positions are not marked.
StopSavedUnmarked(lands) ==
  /\ stopPc = "persist"
  /\ stopPc' = "mark" /\ stopTodo' = {} /\ stopSave' = 0
  /\ IF lands THEN saved' = stopSave ELSE UNCHANGED saved
  /\ Blame(When(~lands, "failed") \cup When(LateAtStop, "late"))
  /\ UNCHANGED << outsideStop, stopped, registered, isRunning, row >>

\* persistVirtualBalance catches its errors, so stopBot goes on to the positions
\* the engine holds now.
StopSaved(lands) ==
  /\ stopPc = "persist"
  /\ stopPc' = "mark" /\ stopTodo' = Active /\ stopSave' = 0
  /\ IF lands THEN saved' = stopSave ELSE UNCHANGED saved
  /\ Blame(When(~lands, "failed") \cup When(LateAtStop, "late"))
  /\ UNCHANGED << outsideStop, stopped, registered, isRunning, row >>

Orphaned(p) == row' = [row EXCEPT ![p] = IF @ = "none" THEN @ ELSE "orphaned"]

MarkOrphan(p) ==
  /\ stopPc = "mark" /\ p \in stopTodo
  /\ Orphaned(p)
  /\ stopTodo' = stopTodo \ {p}
  /\ UNCHANGED << outsideStop, stopped, registered, isRunning, saved, stopPc, stopSave, mishaps >>

StopEnds ==
  /\ stopPc = "mark" /\ stopTodo = {}
  /\ stopPc' = "off" /\ isRunning' = FALSE /\ registered' = FALSE
  /\ UNCHANGED << outsideStop, stopped, row, saved, stopSave, stopTodo, mishaps >>

\* A row cannot be marked: stopBot throws, and the engine runs on.
StopFails ==
  /\ "fail" \in ops
  /\ stopPc = "mark" /\ stopTodo # {}
  /\ stopPc' = "off" /\ stopTodo' = {}
  /\ Blame({"failed"})
  /\ UNCHANGED << outsideStop, stopped, registered, isRunning, row, saved, stopSave >>

-----------------------------------------------------------------------------
(* The emergency stop: its callback, and the route that triggers it *)

outsideEmergency == << mode, ops, config, accounts, sessions, entering, exiting, result, totals,
                       handlers, stopVars, recVars, outcome, dismissed >>

\* The callback reads the balance and awaits its UPDATE.
OnTrigger ==
  /\ "emergency" \in ops
  /\ registered /\ emgPc = "off"
  /\ emgPc' = "persist" /\ emgSave' = balance
  /\ Blame({"emergency"} \cup When(SaveInFlight, "savesOverlapped"))

\* The safety system trips on its own; the bot stays registered.
Trigger ==
  /\ OnTrigger
  /\ UNCHANGED << outsideEmergency, stopped, registered, isRunning, mem, balance, row, saved,
                  emgTodo, routePc >>

\* POST /bot/:botId/emergency first marks the bot as stopped, and the rows that are
\* active.
MarkClosing ==
  /\ "emergency" \in ops /\ routePc = "idle" /\ registered
  /\ row' = [p \in Position |-> IF row[p] = "active" THEN "closing" ELSE row[p]]
  /\ routePc' = "trigger" /\ stopped' = TRUE
  /\ UNCHANGED << outsideEmergency, registered, isRunning, mem, balance, saved,
                  emgPc, emgSave, emgTodo, mishaps >>

\* A bot that has triggered already is only forgotten.
EmergencyStop ==
  /\ routePc = "trigger" /\ routePc' = "idle"
  /\ IF registered /\ emgPc = "off"
       THEN OnTrigger
       ELSE UNCHANGED << emgPc, emgSave, mishaps >>
  /\ registered' = FALSE
  /\ UNCHANGED << outsideEmergency, stopped, isRunning, mem, balance, row, saved, emgTodo >>

EmergencySaved(lands) ==
  /\ emgPc = "persist"
  /\ emgPc' = "closing" /\ emgTodo' = Active /\ emgSave' = 0
  /\ IF lands THEN saved' = emgSave ELSE UNCHANGED saved
  /\ Blame(When(~lands, "failed"))
  /\ UNCHANGED << outsideEmergency, stopped, registered, isRunning, mem, balance, row, routePc >>

\* The executor is asked directly: no event, no handler.  A close that fails is
\* passed over, and a position that is gone meanwhile too; one that goes through
\* has taken the account off, or found it gone.
EmergencyClose(p) ==
  /\ emgPc = "closing" /\ p \in emgTodo
  /\ emgTodo' = emgTodo \ {p}
  /\ \/ /\ mem[p] = "ACTIVE" /\ p \notin accounts
        /\ mem' = [mem EXCEPT ![p] = "CLOSED"]
        /\ \E x \in Result : balance' = balance + 1 + x
     \/ UNCHANGED << mem, balance >>
  /\ UNCHANGED << outsideEmergency, stopped, registered, isRunning, row, saved, emgPc, emgSave,
                  routePc, mishaps >>

\* The status is written last, as "error".
EmergencyDone(lands) ==
  /\ emgPc = "closing" /\ emgTodo = {}
  /\ emgPc' = "done" /\ isRunning' = FALSE
  /\ stopped' = (stopped /\ ~lands)
  /\ UNCHANGED << outsideEmergency, registered, mem, balance, row, saved, emgSave, emgTodo,
                  routePc, mishaps >>

-----------------------------------------------------------------------------
(* Starts, crashes and recovery *)

outsideSessions == << mode, ops, accounts, row, result, totals, saved, outcome, dismissed >>

Forget == [p \in Position |-> IF mem[p] = "ACTIVE" THEN "gone" ELSE mem[p]]

MayStart == /\ sessions < MaxSessions                    \* bound
            /\ sessions > 0 => "restart" \in ops

\* startBot builds an engine with an executor that holds nothing, and gives it the
\* balance that was saved.  A callback still closing for the engine before is the
\* matter of BotLifecycle.
StartBot ==
  /\ ~registered /\ stopPc \in {"off", "asked"} /\ emgPc \in {"off", "done"}
  /\ MayStart
  /\ sessions' = sessions + 1 /\ stopped' = FALSE
  /\ registered' = TRUE /\ isRunning' = TRUE
  /\ mem' = Forget /\ balance' = saved
  /\ entering' = IF entering = {} THEN {} ELSE {"before"}
  /\ emgPc' = "off"
  /\ Blame(When(SaveInFlight, "savesOverlapped"))
  /\ UNCHANGED << outsideSessions, config, exiting, handlers, stopVars, emgSave, emgTodo, routePc,
                  recVars >>

\* A start that finds the bot running, or its lock held, only leaves its mark on
\* the status.
StartRefused ==
  /\ registered \/ stopPc \in {"persist", "mark"}
  /\ MayStart
  /\ sessions' = sessions + 1
  /\ stopped /\ stopped' = FALSE
  /\ UNCHANGED << outsideSessions, config, registered, isRunning, mem, balance, entering, exiting,
                  handlers, stopVars, emgVars, recVars, mishaps >>

\* The process dies: what is in flight is lost, what has landed stays.
Crash ==
  /\ "crash" \in ops /\ sessions > 0
  /\ registered' = FALSE /\ isRunning' = FALSE
  /\ mem' = Forget /\ entering' = {} /\ exiting' = {}
  /\ opened' = [p \in Position |-> IF opened[p] = "none" THEN "none" ELSE "done"]
  /\ hpc' = [h \in Handler |-> "idle"]
  /\ hpos' = [h \in Handler |-> NoPosition]
  /\ hread' = [h \in Handler |-> NothingRead]
  /\ save' = [s \in Save |-> NoSave]
  /\ stopPc' = "off" /\ stopSave' = 0 /\ stopTodo' = {}
  /\ emgPc' = "off" /\ emgSave' = 0 /\ emgTodo' = {} /\ routePc' = "idle"
  /\ recPc' = "idle" /\ recRows' = {} /\ recMissing' = {} /\ recWrite' = NothingToWrite
  /\ config' = FALSE
  /\ Blame({"crashed"})
  /\ UNCHANGED << outsideSessions, stopped, sessions, balance >>

\* The recovery could not start the bot, and marks its active rows.
RecoveryFails ==
  /\ "crashed" \in mishaps /\ ~registered /\ ~stopped /\ emgPc = "off"
  /\ \E p \in Position : row[p] = "active"
  /\ row' = [p \in Position |-> IF row[p] = "active" THEN "orphaned" ELSE row[p]]
  /\ UNCHANGED << mode, ops, stopped, config, accounts, engineVars, result, totals, saved, handlers,
                  stopVars, emgVars, recVars, history >>

-----------------------------------------------------------------------------
(* PUT /bot/:botId/config, with a new starting balance *)

outsideConfig == << mode, ops, stopped, accounts, engineVars, row, result, handlers, stopVars,
                    emgVars, recVars, outcome >>

ConfigRead ==
  /\ "config" \in ops /\ stopped
  /\ ~config /\ config' = TRUE
  /\ UNCHANGED << outsideConfig, totals, saved, dismissed, mishaps >>

CountingPc == {"row", "read", "write"}

\* The positions whose close is reported and not yet counted.
Counting == { p \in Position : \E h \in Handler : hpc[h] \in CountingPc /\ hpos[h] = p }

\* The session that ended is forgotten: the totals are reset, and the next start
\* takes the new balance.  A handler that has read the totals writes them back, and
\* the engine of a bot that has been started meanwhile saves the balance it has.
ConfigWrite ==
  /\ config /\ config' = FALSE
  /\ trades' = 0 /\ pnl' = 0 /\ saved' = 0
  /\ dismissed' = Reported \ Counting
  /\ Blame(When(\E h \in Handler : hpc[h] = "write", "overlapped")
           \cup When(SaveInFlight, "savesOverlapped")
           \cup When(registered, "reconfigured"))
  /\ UNCHANGED outsideConfig

-----------------------------------------------------------------------------
(* POST /position/reconcile *)

outsideReconcile == << mode, ops, stopped, config, accounts, engineVars, result, totals, saved,
                       handlers, stopVars, emgVars, history >>

\* A simulated position has a key too, but no account behind it.
OnChain(p) == p \in accounts

\* getAllLivePositions
Tracked(p) == registered /\ mem[p] = "ACTIVE"

BeginReconcile ==
  /\ "reconcile" \in ops /\ recPc = "idle"
  /\ recRows' = { p \in Position : row[p] = "active" } /\ recRows' # {}
  /\ recPc' = "lookup"
  /\ UNCHANGED << outsideReconcile, row, recMissing, recWrite >>

\* getMultipleAccountsInfo; a failure ends the request.
LookUp(answers) ==
  /\ recPc = "lookup"
  /\ IF answers
       THEN /\ recPc' = "walk" /\ recMissing' = { p \in recRows : ~OnChain(p) }
            /\ UNCHANGED recRows
       ELSE /\ recPc' = "idle" /\ recRows' = {} /\ UNCHANGED recMissing
  /\ UNCHANGED << outsideReconcile, row, recWrite >>

\* Mutant of JudgeRow: the bots are not asked about a row.
JudgeRowAlone(p) ==
  /\ recPc = "walk" /\ p \in recRows
  /\ recRows' = recRows \ {p} /\ recMissing' = recMissing \ {p}
  /\ recPc' = "write"
  /\ recWrite' = [pos |-> p, status |-> IF p \in recMissing THEN "closed" ELSE "orphaned"]
  /\ UNCHANGED << outsideReconcile, row >>

\* A row whose account is missing is written as closed, one whose account no bot
\* is tracking as orphaned, any other is left.
JudgeRow(p) ==
  /\ recPc = "walk" /\ p \in recRows
  /\ recRows' = recRows \ {p} /\ recMissing' = recMissing \ {p}
  /\ \/ /\ p \in recMissing
        /\ recPc' = "write" /\ recWrite' = [pos |-> p, status |-> "closed"]
     \/ /\ p \notin recMissing /\ ~Tracked(p)
        /\ recPc' = "write" /\ recWrite' = [pos |-> p, status |-> "orphaned"]
     \/ /\ p \notin recMissing /\ Tracked(p)
        /\ UNCHANGED << recPc, recWrite >>
  /\ UNCHANGED << outsideReconcile, row >>

WriteRow(lands) ==
  /\ recPc = "write"
  /\ IF lands
       THEN /\ row' = [row EXCEPT ![recWrite.pos] = recWrite.status]
            /\ recPc' = "walk" /\ UNCHANGED << recRows, recMissing >>
       ELSE /\ recPc' = "idle" /\ recRows' = {} /\ recMissing' = {}
            /\ UNCHANGED row
  /\ recWrite' = NothingToWrite
  /\ UNCHANGED outsideReconcile

EndReconcile ==
  /\ recPc = "walk" /\ recRows = {} /\ recPc' = "idle"
  /\ UNCHANGED << outsideReconcile, row, recRows, recMissing, recWrite >>

-----------------------------------------------------------------------------
\* Whether a call to the database or the chain succeeds.
Lands == IF "fail" \in ops THEN BOOLEAN ELSE {TRUE}

EngineStep ==
  \/ BeginEntry
  \/ \E e \in entering : EntryFails(e) \/ \E p \in Position : OpenPosition(p, e)
  \/ \E p \in Position : \/ BeginClose(p) \/ RemoveAccount(p) \/ ExternalClose(p) \/ CloseFails(p)
                         \/ \E x \in Result, h \in Handler : ClosePosition(p, x, h)

HandlerStep ==
  \/ \E s \in Save : SaveLands(s) \/ SaveFails(s)
  \/ \E p \in Position : InsertRow(p) \/ FinishOpened(p) \/ OpenedFails(p)
  \/ \E h \in Handler : \/ UpdateRow(h) \/ ReadTotals(h) \/ WriteTotals(h)
                        \/ FinishClosed(h) \/ ClosedFails(h)

StopStep ==
  \/ RequestStop \/ StopBot \/ StopEnds \/ StopFails
  \/ \E lands \in Lands : StopSaved(lands)
  \/ \E p \in Position : MarkOrphan(p)

EmergencyStep ==
  \/ Trigger \/ MarkClosing \/ EmergencyStop
  \/ \E lands \in Lands : EmergencySaved(lands) \/ EmergencyDone(lands)
  \/ \E p \in Position : EmergencyClose(p)

SessionStep == StartBot \/ StartRefused \/ Crash \/ RecoveryFails

ConfigStep == ConfigRead \/ ConfigWrite

ReconcileStep ==
  \/ BeginReconcile \/ EndReconcile
  \/ \E ok \in Lands : LookUp(ok) \/ WriteRow(ok)
  \/ \E p \in Position : JudgeRow(p)

Next == \/ EngineStep \/ HandlerStep \/ StopStep \/ EmergencyStep \/ SessionStep \/ ConfigStep
        \/ ReconcileStep

Spec == Init /\ [][Next]_vars

-----------------------------------------------------------------------------
(* Properties *)

\* Nothing written is still on its way.
Quiet ==
  /\ \A p \in Position : opened[p] \in {"none", "done"}
  /\ \A h \in Handler : hpc[h] = "idle"
  /\ ~SaveInFlight
  /\ stopPc = "off" /\ emgPc \in {"off", "done"}

Without(causes) == mishaps \cap causes = {}

\* However the writes of the handlers, of a stop, an emergency stop and a
\* reconciliation interleave, the table of positions does what PositionBook
\* promises (orchestrator.ts:690-858).
Book == INSTANCE PositionBook WITH
          reported <- outcome,
          entered <- { p \in Position : row[p] # "none" },
          settled <- result

BookKept == Book!Spec

\* A result the engine has reported is in the row once the handlers are done,
\* unless a write failed, the process died, or the close overtook the INSERT of
\* its own row (orchestrator.ts:698, :782).
ResultsReachRows ==
  Quiet /\ Without({"failed", "crashed", "overtaken"})
    => \A p \in Reported : result[p] = outcome[p]

\* When the handlers are done, the totals of the bot are those of the closes reported
\* since the last new starting balance, unless a write failed, the process died, or
\* a handler and another, or a new starting balance, overlapped between the SELECT
\* and the UPDATE (orchestrator.ts:800-812, routes/bot.ts:321-338).
TotalsExact ==
  Quiet /\ Without({"failed", "crashed", "overlapped"})
    => /\ trades = Cardinality(Reported \ dismissed)
       /\ pnl = MapThenSumSet(LAMBDA p : outcome[p], Reported \ dismissed)

\* Whatever overlaps, fails or crashes, no trade is counted that was not reported:
\* the read and the write that are apart only lose counts (orchestrator.ts:800-812).
NeverOvercounted == trades <= Cardinality(Reported)

\* A simulated bot at rest has its balance in the row from which the next start
\* restores it.  What can come between is on the list: a failed write, a crash, two
\* writes of the balance in flight, an emergency stop, which saves before it closes,
\* and a new starting balance for a bot that is still registered, or again
\* (orchestrator.ts:217, :475, routes/bot.ts:325-332).
BalanceSaved ==
  registered /\ mode = "simulation" /\ Quiet
    /\ Without({"failed", "crashed", "savesOverlapped", "emergency", "reconfigured"})
    => saved = balance

\* A bot that has been stopped leaves no row active, unless it was about to open
\* a position when stopBot looked, or was still scanning while stopBot marked the
\* rows (orchestrator.ts:385-403), or a mishap of another kind has happened.
NoPhantoms ==
  ~registered /\ Quiet
    /\ Without({"failed", "crashed", "overtaken", "late", "emergency"})
    => \A p \in Position : row[p] # "active"

\* The reconciliation never touches the row of a position whose account is on the
\* chain and which the bot is tracking, although its answers are from before
\* (routes/position.ts:354-392).  A tracked position whose account is gone, that of a
\* close in flight or of one that threw past the removal, does have its row closed.
ReconcileSparesTracked ==
  recPc = "write" => ~(OnChain(recWrite.pos) /\ Tracked(recWrite.pos))
===============================================================================
