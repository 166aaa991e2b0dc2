----------------------------- MODULE LossMemory -----------------------------
(***************************************************************************)
(* How the losses that the emergency stop of a bot has counted are kept:   *)
(* in its engine's memory, in the row of the bot (bots.emergencyStopState, *)
(* saved by src/engine/orchestrator.ts), and across stops, shutdowns and   *)
(* crashes of the server.                                                  *)
(*                                                                         *)
(* The handler of a closed position makes four database calls, then        *)
(* serializes the state of the engine that is registered and writes it.    *)
(* Writes go through a pool of connections (src/db/index.ts), so two that  *)
(* are in flight may land in either order.  A change of configuration that *)
(* changes the simulated balance clears what was saved; it looks at the    *)
(* status first and writes later (src/routes/bot.ts).  Starts and stops    *)
(* that overlap are the subject of BotLifecycle, as is the manual          *)
(* emergency stop; here a bot is started and stopped in turn.  What an     *)
(* engine still closes after it has been stopped is the subject of         *)
(* TradingEngine.                                                          *)
(***************************************************************************)
EXTENDS EmergencyStop, FiniteSets

CONSTANTS
  Save,       \* the saves in flight at once, with the handlers that lead to them
  Pnl,        \* the results of trades
  NoState,    \* emergencyStopState is null
  MaxDay, MaxResults, MaxCrashes   \* bounds

ASSUME MemoryAssumption ==
  /\ Pnl \subseteq Int /\ NoState \notin EmergencyStopState
  /\ MaxDay \in Nat /\ MaxResults \in Nat /\ MaxCrashes \in Nat

VARIABLES
  \* the database row
  status,    \* bots.status
  saved,     \* bots.emergencyStopState
  \* the server
  today,     \* the UTC day
  bot,       \* where the orchestrator is with the bot
  callback,  \* the emergency callback of its engine
  es,        \* the emergency stop of its engine; initial when it has none
  pc,        \* each save
  json,      \* the serialized state that a save writes
  config,    \* a change of configuration has found the bot stopped
  crashes,
  \* history
  results,   \* results recorded, for the bound
  dayPnl, allPnl, streak,  \* of today, of the session, and losses in a row of today
  excused    \* something happened of which the memory is known to suffer

row     == << status, saved >>
saves   == << pc, json >>
truth   == << dayPnl, allPnl, streak >>
history == << results, truth, excused >>
vars    == << row, today, bot, callback, es, saves, config, crashes, history >>

\* The bot is in runningBots.
Registered == bot \in {"registered", "stopping", "exiting"}
Unsettled  == \E s \in Save : pc[s] # "idle"
Writing    == \E s \in Save : pc[s] = "writing"

TypeOK ==
  /\ status \in {"stopped", "running", "error"}
  /\ saved \in EmergencyStopState \cup {NoState}
  /\ today \in 0 .. MaxDay
  /\ bot \in {"absent", "starting", "registered", "stopping", "exiting", "exited", "down"}
  /\ callback \in {"none", "closing", "done"}
  /\ es \in EmergencyStopState
  /\ pc \in [Save -> {"idle", "logging", "writing"}]
  /\ json \in [Save -> EmergencyStopState \cup {NoState}]
  /\ config \in BOOLEAN
  /\ crashes \in 0 .. MaxCrashes /\ results \in 0 .. MaxResults
  /\ dayPnl \in Int /\ allPnl \in Int /\ streak \in Nat
  /\ excused \in BOOLEAN

Init ==
  /\ status = "stopped" /\ saved = NoState
  /\ today = 0 /\ bot = "absent" /\ callback = "none" /\ es = InitialState(0)
  /\ pc = [s \in Save |-> "idle"] /\ json = [s \in Save |-> NoState]
  /\ config = FALSE /\ crashes = 0 /\ results = 0
  /\ dayPnl = 0 /\ allPnl = 0 /\ streak = 0
  /\ excused = FALSE

-----------------------------------------------------------------------------
(* Starting *)

\* A start by the user clears what was saved.  A bot that is registered still,
\* with an engine that an emergency has stopped, stays as it is, and so do the
\* losses of that engine.
UserStart ==
  /\ bot \in {"absent", "registered"} /\ status # "running" /\ callback # "closing"
  /\ status' = "running" /\ saved' = NoState
  /\ bot' = IF bot = "absent" THEN "starting" ELSE bot
  /\ dayPnl' = 0 /\ allPnl' = 0 /\ streak' = 0
  /\ excused' = (Unsettled \/ bot = "registered")   \* a last save may yet land
  /\ UNCHANGED << today, callback, es, saves, config, crashes, results >>

\* Mutant of Restored: what was saved is not looked at.
RestoredFresh(state) == InitialState(today)

\* A state that was saved triggered is reset in full.
Restored(state) ==
  IF state = NoState \/ (state # NoState /\ state.isTriggered) THEN InitialState(today)
                                                               ELSE state

BuildEngine ==
  /\ bot = "starting"
  /\ bot' = "registered" /\ callback' = "none"
  /\ es' = Restored(saved)
  /\ excused' = (excused \/ (saved # NoState /\ saved.isTriggered))
  /\ UNCHANGED << row, today, saves, config, crashes, results, truth >>

BuildFails ==
  /\ bot = "starting"
  /\ bot' = "absent" /\ status' = "error"
  /\ UNCHANGED << saved, today, callback, es, saves, config, crashes, history >>

-----------------------------------------------------------------------------
(* The engine *)

\* canTrade(), after which recentErrors API errors are less than an hour old.
Consult(recentErrors) ==
  /\ Registered /\ callback # "done"
  /\ recentErrors <= es.apiErrors
  /\ es' = CanTrade(es, today, recentErrors)
  /\ callback' = IF es'.isTriggered /\ ~es.isTriggered THEN "closing" ELSE callback
  /\ UNCHANGED << row, today, bot, saves, config, crashes, history >>

\* The callback has closed the positions and stopped the engine.
CallbackReports ==
  /\ bot # "down" /\ callback = "closing"
  /\ callback' = "done" /\ status' \in {"error", status}   \* the write may fail
  /\ UNCHANGED << saved, today, bot, es, saves, config, crashes, history >>

ApiFails ==
  /\ Registered /\ es.apiErrors < MaxApiErrorsPerHour    \* bound
  /\ es' = RecordApiError(es)
  /\ UNCHANGED << row, today, bot, callback, saves, config, crashes, history >>

\* A position has been closed; its event starts the handler.
PositionCloses(s, pnl) ==
  /\ Registered /\ pc[s] = "idle" /\ results < MaxResults  \* bound: MaxResults
  /\ es' = RecordTradeResult(es, pnl)
  /\ pc' = [pc EXCEPT ![s] = "logging"]
  /\ results' = results + 1
  /\ excused' = (excused \/ es.dailyResetDate # today)   \* goes to the day before
  /\ IF excused' THEN UNCHANGED truth                     \* the sums matter no more
       ELSE /\ dayPnl' = dayPnl + pnl /\ allPnl' = allPnl + pnl
            /\ streak' = IF pnl <= 0 THEN streak + 1 ELSE 0
  /\ UNCHANGED << row, today, bot, callback, json, config, crashes >>

-----------------------------------------------------------------------------
(* Saving *)

\* persistEmergencyStopState, of the engine that is registered.  Another write in
\* flight may land after this one.
Persist(s) ==
  /\ pc' = [pc EXCEPT ![s] = "writing"]
  /\ json' = [json EXCEPT ![s] = es]
  /\ excused' = (excused \/ Writing)

\* The handler gets there; a bot that is gone is not saved.
Serialize(s) ==
  /\ pc[s] = "logging"
  /\ IF Registered
       THEN Persist(s)
       ELSE pc' = [pc EXCEPT ![s] = "idle"] /\ excused' = TRUE /\ UNCHANGED json
  /\ UNCHANGED << row, today, bot, callback, es, config, crashes, results, truth >>

\* Mutant of Lands: what is written is what there was before.
LandsNothing(s) ==
  /\ pc[s] = "writing"
  /\ pc' = [pc EXCEPT ![s] = "idle"] /\ json' = [json EXCEPT ![s] = NoState]
  /\ UNCHANGED << row, today, bot, callback, es, config, crashes, history >>

Lands(s) ==
  /\ pc[s] = "writing"
  /\ saved' = json[s]
  /\ pc' = [pc EXCEPT ![s] = "idle"] /\ json' = [json EXCEPT ![s] = NoState]
  /\ UNCHANGED << status, today, bot, callback, es, config, crashes, history >>

\* A database error ends the handler or the save; it is logged.
SaveFails(s) ==
  /\ pc[s] # "idle"
  /\ pc' = [pc EXCEPT ![s] = "idle"] /\ json' = [json EXCEPT ![s] = NoState]
  /\ excused' = TRUE
  /\ UNCHANGED << row, today, bot, callback, es, config, crashes, results, truth >>

-----------------------------------------------------------------------------
(* Stopping *)

Stop(s) ==
  /\ bot = "registered" /\ status # "stopped" /\ pc[s] = "idle"
  /\ bot' = "stopping" /\ status' = "stopped"
  /\ Persist(s)
  /\ UNCHANGED << saved, today, callback, es, config, crashes, results, truth >>

Shutdown(s) ==
  /\ bot = "registered" /\ pc[s] = "idle"
  /\ bot' = "exiting"
  /\ Persist(s)
  /\ UNCHANGED << row, today, callback, es, config, crashes, results, truth >>

FinishStop ==
  /\ bot \in {"stopping", "exiting"}
  /\ bot' = IF bot = "stopping" THEN "absent" ELSE "exited"
  /\ es' = InitialState(0)
  /\ UNCHANGED << row, today, callback, saves, config, crashes, history >>

LoseMemory ==
  /\ crashes < MaxCrashes                                 \* bound: MaxCrashes
  /\ crashes' = crashes + 1
  /\ bot' = "down" /\ callback' = "none" /\ es' = InitialState(0)
  /\ pc' = [s \in Save |-> "idle"] /\ json' = [s \in Save |-> NoState]
  /\ config' = FALSE
  /\ excused' = (excused \/ Unsettled)
  /\ UNCHANGED << row, today, results, truth >>

\* pool.end() waits for the writes.
Exit == bot = "exited" /\ ~Writing /\ LoseMemory

Crash == bot # "down" /\ LoseMemory

\* Recovery, which does not clear what was saved.
Restart ==
  /\ bot = "down"
  /\ bot' = IF status = "running" THEN "starting" ELSE "absent"
  /\ UNCHANGED << row, today, callback, es, saves, config, crashes, history >>

\* PUT /bot/:botId/config, with another simulated balance, finds the bot stopped.
ConfigRead ==
  /\ bot # "down" /\ status = "stopped"
  /\ crashes < MaxCrashes                                 \* bound: before the last crash
  /\ config' = TRUE
  /\ UNCHANGED << row, today, bot, callback, es, saves, crashes, history >>

\* Its write, unless that fails.  The bot may run again by then.
ConfigWrite ==
  /\ config /\ config' = FALSE
  /\ saved' = NoState
  /\ excused' = (excused \/ status = "running")
  /\ UNCHANGED << status, today, bot, callback, es, saves, crashes, results, truth >>

NewDay ==
  /\ today < MaxDay                                       \* bound: MaxDay
  /\ today' = today + 1 /\ dayPnl' = 0 /\ streak' = 0
  /\ UNCHANGED << row, bot, callback, es, saves, config, crashes, results, allPnl, excused >>

-----------------------------------------------------------------------------
SaveStep(s) ==
  \/ \E pnl \in Pnl : PositionCloses(s, pnl)
  \/ Serialize(s) \/ Lands(s) \/ SaveFails(s) \/ Stop(s) \/ Shutdown(s)

Next ==
  \/ UserStart \/ BuildEngine \/ BuildFails
  \/ \E n \in 0 .. MaxApiErrorsPerHour : Consult(n)
  \/ CallbackReports \/ ApiFails
  \/ \E s \in Save : SaveStep(s)
  \/ FinishStop \/ Exit \/ Crash \/ Restart
  \/ ConfigRead \/ ConfigWrite \/ NewDay

Spec == Init /\ [][Next]_vars

-----------------------------------------------------------------------------
\* The emergency stop has it right: the sums of the session and of today.
Knows(state) ==
  LET now == CheckDailyReset(state, today)
  IN  /\ now.totalPnl = allPnl
      /\ now.dailyPnl = dayPnl
      /\ now.consecutiveLosses = streak

\* What is saved, or nothing, has it right.
Right(state) == Knows(IF state = NoState THEN InitialState(today) ELSE state)

\* The engine of a bot knows every result since the user's last start, through
\* midnights, shutdowns and crashes, unless one of these happened: a save was lost,
\* two saves crossed, a result came between midnight and the next gate, a trigger
\* that was saved has been reset, a start met the engine that an emergency had
\* stopped, or a change of configuration begun while the bot was stopped ended
\* after its start (emergency-stop.ts:10).
LossesRemembered == Registered /\ ~excused => Knows(es)

\* When no save is under way, the row of a bot that is to run, with its trigger or
\* without, holds every result since the user's last start, unless one of those
\* things happened (emergency-stop.ts:339).  That recovery goes on from it is
\* LossesRemembered, and not so of a state that was saved triggered.
SavedIsTrue ==
  status = "running" /\ ~Unsettled /\ ~excused => Right(saved)
=============================================================================
