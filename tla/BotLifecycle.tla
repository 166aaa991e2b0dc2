----------------------------- MODULE BotLifecycle -----------------------------
(***************************************************************************)
(* The life of one bot: the routes of src/routes/bot.ts, the orchestrator  *)
(* of src/engine/orchestrator.ts, its emergency callback, and the server   *)
(* of src/index.ts that recovers bots when it starts and stops them when   *)
(* it shuts down.                                                          *)
(*                                                                         *)
(* A request is an activity that waits at each database call; the recovery *)
(* of the bot after a restart is one more.  An action is what runs between *)
(* two waits.  Engines are numbered in the order they are created, since   *)
(* the server came up.  Of an engine only three facts are kept: whether it *)
(* is running, whether a scan of it is in flight, and whether its          *)
(* emergency stop has triggered; TradingEngine has the rest.               *)
(***************************************************************************)
EXTENDS Integers, FiniteSets

CONSTANTS
  Request,    \* the clients of the bot; each has one request open at a time
  Recovery,   \* the recovery of this bot by a server that has started
  Ops,        \* the operations clients use
  MaxEngine,  \* bounds the engines created by one server process: later ones fail
  MaxCrashes  \* bounds the restarts of the server

ASSUME LifecycleAssumption ==
  /\ Recovery \notin Request
  /\ Ops \subseteq {"start", "stop", "emergency", "delete", "shutdown"}
  /\ MaxEngine \in Nat /\ MaxCrashes \in Nat

Activity == Request \cup {Recovery}
Engine   == 1 .. MaxEngine
NoEngine == 0

VARIABLES
  \* the database row
  status,     \* bots.status
  deleted,    \* bots.deletedAt is set
  \* the server
  up,
  crashes,
  orderly,    \* history: every request began when nothing was under way, none failed
              \* halfway, and no limit was exceeded
  \* the orchestrator
  locked,     \* botLocks.has(botId)
  running,    \* runningBots.get(botId)
  created,    \* the number of engines created
  active,     \* the engines with isRunning
  scanning,   \* the engines with a scan in flight
  triggered,  \* the engines whose emergency stop has triggered
  cbPc,       \* the emergency callback of each engine
  victim,     \* the engine that callback found under the bot's id
  \* activities
  op, pc,
  held        \* stopBot: running

row      == << status, deleted >>
server   == << up, crashes, orderly >>
registry == << locked, running >>
engines  == << created, active, scanning, triggered, cbPc, victim >>
calls    == << op, pc, held >>
vars     == << row, server, registry, engines, calls >>

TypeOK ==
  /\ status \in {"stopped", "running", "error"} /\ deleted \in BOOLEAN
  /\ up \in BOOLEAN /\ crashes \in 0 .. MaxCrashes /\ orderly \in BOOLEAN
  /\ locked \in BOOLEAN
  /\ running \in 0 .. created
  /\ created \in 0 .. MaxEngine
  /\ active \subseteq 1 .. created
  /\ scanning \subseteq 1 .. created
  /\ triggered \subseteq 1 .. created
  /\ cbPc \in [Engine -> {"none", "closing", "report"}]
  /\ victim \in [Engine -> 0 .. created]
  /\ op \in [Activity -> Ops \cup {"none", "recover"}]
  /\ pc \in [Activity -> {"idle", "query", "read", "mark", "lockStart", "row", "revert",
                          "lockStop", "persist", "settle", "erase", "trigger", "exit"}]
  /\ held \in [Activity -> 0 .. created]

Init ==
  /\ status = "stopped" /\ deleted = FALSE
  /\ up = TRUE /\ crashes = 0 /\ orderly = TRUE
  /\ locked = FALSE /\ running = NoEngine
  /\ created = 0 /\ active = {} /\ scanning = {} /\ triggered = {}
  /\ cbPc = [n \in Engine |-> "none"] /\ victim = [n \in Engine |-> NoEngine]
  /\ op = [a \in Activity |-> "none"]
  /\ pc = [a \in Activity |-> "idle"]
  /\ held = [a \in Activity |-> NoEngine]

Goto(a, l) == pc' = [pc EXCEPT ![a] = l]

Quiescent == /\ up
             /\ \A a \in Activity : pc[a] = "idle"
             /\ \A n \in Engine : cbPc[n] = "none"

-----------------------------------------------------------------------------
(* The routes, up to their call of the orchestrator *)

\* A client sends a request.  A server that shuts down accepts no new ones.
Begin(r, o) ==
  /\ up /\ pc[r] = "idle"
  /\ \A a \in Activity : op[a] = "shutdown" => pc[a] = "idle"
  /\ o = "shutdown" => crashes < MaxCrashes            \* bound: MaxCrashes
  /\ op' = [op EXCEPT ![r] = o]
  /\ Goto(r, IF o = "shutdown" THEN "lockStop" ELSE "read")
  /\ orderly' = (orderly /\ Quiescent)
  /\ UNCHANGED << row, up, crashes, registry, engines, held >>

\* getUserBot, which finds deleted bots too, and the check of the status.
ReadRow(r) ==
  /\ pc[r] = "read"
  /\ Goto(r, CASE op[r] = "start"  -> IF status = "running" THEN "idle" ELSE "mark"
               [] op[r] = "stop"   -> IF status = "stopped" THEN "idle" ELSE "mark"
               [] op[r] = "delete" -> IF status = "running" THEN "lockStop" ELSE "erase"
               [] OTHER -> "mark")
  /\ UNCHANGED << row, server, registry, engines, op, held >>

\* The new status is written, and the log entry after it.
MarkRow(r) ==
  /\ pc[r] = "mark"
  /\ status' = IF op[r] = "start" THEN "running" ELSE "stopped"
  /\ Goto(r, CASE op[r] = "start" -> "lockStart"
               [] op[r] = "stop"  -> "lockStop"
               [] OTHER -> "trigger")
  /\ UNCHANGED << deleted, server, registry, engines, op, held >>

\* The delete route after its stopBot, which may have thrown.
Settle(r) ==
  /\ pc[r] = "settle"
  /\ status' = "stopped"
  /\ Goto(r, "erase")
  /\ UNCHANGED << deleted, server, registry, engines, op, held >>

Erase(r) ==
  /\ pc[r] = "erase"
  /\ deleted' = TRUE
  /\ Goto(r, "idle")
  /\ UNCHANGED << status, server, registry, engines, op, held >>

\* A database call fails that nothing catches: the request or the recovery ends
\* there, and after the status has been written nothing reverts it.
CallFails(a) ==
  /\ \/ pc[a] \in {"query", "read", "mark", "lockStart", "revert", "settle", "erase", "trigger"}
     \/ pc[a] = "lockStop" /\ op[a] = "stop"           \* the others make no call there
  /\ Goto(a, "idle")
  /\ orderly' = (orderly /\ pc[a] \in {"read", "mark", "erase"})
  /\ UNCHANGED << row, up, crashes, registry, engines, op, held >>

-----------------------------------------------------------------------------
(* The orchestrator *)

\* Mutant of LockStart: a start waits until the bot is neither locked nor there.
LockStartWaits(a) ==
  /\ pc[a] = "lockStart" /\ ~locked /\ running = NoEngine
  /\ Goto(a, "row") /\ locked' = TRUE
  /\ UNCHANGED << row, server, running, engines, op, held >>

\* startBot: throws when the lock is taken, and returns when the bot is there.
LockStart(a) ==
  /\ pc[a] = "lockStart"
  /\ IF locked \/ running # NoEngine
       THEN Goto(a, IF locked THEN "revert" ELSE "idle") /\ UNCHANGED locked
       ELSE Goto(a, "row") /\ locked' = TRUE
  /\ UNCHANGED << row, server, running, engines, op, held >>

\* The row has been read and the ML service asked: a new engine is registered
\* and its first scan begins.
BuildEngine(a) ==
  /\ pc[a] = "row"
  /\ created < MaxEngine                               \* bound: MaxEngine
  /\ created' = created + 1
  /\ running' = created'
  /\ active' = active \cup {created'}
  /\ scanning' = scanning \cup {created'}
  /\ locked' = FALSE
  /\ Goto(a, "idle")
  /\ UNCHANGED << row, server, triggered, cbPc, victim, op, held >>

\* Mutant of BuildFails: the lock is released on success only.
BuildFailsLocked(a) ==
  /\ pc[a] = "row"
  /\ Goto(a, "revert")
  /\ UNCHANGED << row, server, registry, engines, op, held >>

\* The ML service or the database does not answer.
BuildFails(a) ==
  /\ pc[a] = "row"
  /\ locked' = FALSE
  /\ Goto(a, "revert")
  /\ UNCHANGED << row, server, running, engines, op, held >>

\* Mutant of Revert: the failure leaves the status as it was.
RevertNothing(a) ==
  /\ pc[a] = "revert"
  /\ Goto(a, "idle")
  /\ UNCHANGED << row, server, registry, engines, op, held >>

\* The start route and the recovery write the failure into the row.
Revert(a) ==
  /\ pc[a] = "revert"
  /\ status' = "error"
  /\ Goto(a, "idle")
  /\ UNCHANGED << deleted, server, registry, engines, op, held >>

\* Where a caller of stopBot goes on.
AfterStop(a) == CASE op[a] = "delete"   -> "settle"
                  [] op[a] = "shutdown" -> "exit"
                  [] OTHER -> "idle"

\* stopBot: throws when the lock is taken, returns when the bot is not there;
\* otherwise the balance is persisted and the positions are marked.
LockStop(a) ==
  /\ pc[a] = "lockStop"
  /\ IF locked \/ running = NoEngine
       THEN Goto(a, AfterStop(a)) /\ UNCHANGED << locked, held >>
       ELSE /\ Goto(a, "persist") /\ locked' = TRUE
            /\ held' = [held EXCEPT ![a] = running]
  /\ UNCHANGED << row, server, running, engines, op >>

\* Mutant of FinishStop: the bot is forgotten and its engine left alone.
FinishStopRunning(a) ==
  /\ pc[a] = "persist"
  /\ running' = NoEngine /\ locked' = FALSE
  /\ held' = [held EXCEPT ![a] = NoEngine]
  /\ Goto(a, AfterStop(a))
  /\ UNCHANGED << row, server, engines, op >>

\* The engine is stopped and the bot forgotten; a scan in flight goes on.
FinishStop(a) ==
  /\ pc[a] = "persist"
  /\ active' = active \ {held[a]}
  /\ running' = NoEngine /\ locked' = FALSE
  /\ held' = [held EXCEPT ![a] = NoEngine]
  /\ Goto(a, AfterStop(a))
  /\ UNCHANGED << row, server, created, scanning, triggered, cbPc, victim, op >>

\* Marking a position fails: the bot stays as it is, and the lock is released.
StopFails(a) ==
  /\ pc[a] = "persist"
  /\ locked' = FALSE
  /\ held' = [held EXCEPT ![a] = NoEngine]
  /\ Goto(a, AfterStop(a))
  /\ orderly' = FALSE
  /\ UNCHANGED << row, up, crashes, running, engines, op >>

-----------------------------------------------------------------------------
(* The emergency stop of an engine, and its callback *)

\* trigger() fires once; the callback looks the bot up by its id at once.
Trip(n) ==
  IF n \in triggered
    THEN UNCHANGED << triggered, cbPc, victim >>
    ELSE /\ triggered' = triggered \cup {n}
         /\ victim' = [victim EXCEPT ![n] = running]
         /\ cbPc' = [cbPc EXCEPT ![n] = IF running = NoEngine THEN "report" ELSE "closing"]

\* A scan in flight, of whatever engine, finds a limit exceeded.
LimitTrips(n) ==
  /\ n \in scanning \ triggered
  /\ Trip(n)
  /\ orderly' = FALSE
  /\ UNCHANGED << row, up, crashes, registry, created, active, scanning, calls >>

\* emergencyStop(): without the lock.
TriggerManual(r) ==
  /\ pc[r] = "trigger"
  /\ IF running = NoEngine
       THEN UNCHANGED << triggered, cbPc, victim >>
       ELSE Trip(running)
  /\ running' = NoEngine
  /\ Goto(r, "idle")
  /\ UNCHANGED << row, server, locked, created, active, scanning, op, held >>

\* Mutant of CallbackStops: emergencyCloseAll without engine.stop().
CallbackStopsNothing(n) ==
  /\ cbPc[n] = "closing"
  /\ cbPc' = [cbPc EXCEPT ![n] = "report"]
  /\ UNCHANGED << row, server, registry, created, active, scanning, triggered, victim, calls >>

\* The positions of the engine that was found are closed, and it is stopped.
CallbackStops(n) ==
  /\ cbPc[n] = "closing"
  /\ active' = active \ {victim[n]}
  /\ cbPc' = [cbPc EXCEPT ![n] = "report"]
  /\ UNCHANGED << row, server, registry, created, scanning, triggered, victim, calls >>

CallbackReports(n) ==
  /\ cbPc[n] = "report"
  /\ status' \in {"error", status}                     \* the write may fail
  /\ cbPc' = [cbPc EXCEPT ![n] = "none"]
  /\ victim' = [victim EXCEPT ![n] = NoEngine]         \* not read again
  /\ UNCHANGED << deleted, server, registry, created, active, scanning, triggered, calls >>

ScanBegins(n) ==
  /\ n \in active \ scanning
  /\ scanning' = scanning \cup {n}
  /\ UNCHANGED << row, server, registry, created, active, triggered, cbPc, victim, calls >>

ScanEnds(n) ==
  /\ n \in scanning
  /\ scanning' = scanning \ {n}
  /\ UNCHANGED << row, server, registry, created, active, triggered, cbPc, victim, calls >>

-----------------------------------------------------------------------------
(* The server *)

\* The process ends: what was in memory is gone, the row stays.
LoseMemory ==
  /\ up' = FALSE /\ crashes' = crashes + 1
  /\ locked' = FALSE /\ running' = NoEngine
  /\ created' = 0 /\ active' = {} /\ scanning' = {} /\ triggered' = {}
  /\ cbPc' = [n \in Engine |-> "none"] /\ victim' = [n \in Engine |-> NoEngine]
  /\ op' = [a \in Activity |-> "none"]
  /\ pc' = [a \in Activity |-> "idle"]
  /\ held' = [a \in Activity |-> NoEngine]
  /\ UNCHANGED << row, orderly >>

Crash ==
  /\ up /\ crashes < MaxCrashes                        \* bound: MaxCrashes
  /\ LoseMemory

\* The end of a shutdown: stopBot has returned or thrown.
Exit(r) ==
  /\ pc[r] = "exit" /\ crashes < MaxCrashes            \* bound: MaxCrashes
  /\ LoseMemory

Restart ==
  /\ ~up /\ up' = TRUE
  /\ op' = [op EXCEPT ![Recovery] = "recover"]
  /\ Goto(Recovery, "query")
  /\ UNCHANGED << row, crashes, orderly, registry, engines, held >>

\* recoverRunningBots reads the bots to start; then the bots before this one are
\* started, one after the other.
RecoverQuery ==
  /\ pc[Recovery] = "query"
  /\ Goto(Recovery, IF status = "running" THEN "lockStart" ELSE "idle")
  /\ UNCHANGED << row, server, registry, engines, op, held >>

-----------------------------------------------------------------------------
RequestStep(r) ==
  \/ ReadRow(r) \/ MarkRow(r) \/ Settle(r) \/ Erase(r)
  \/ TriggerManual(r) \/ Exit(r)

ActivityStep(a) ==
  \/ LockStart(a) \/ BuildEngine(a) \/ BuildFails(a) \/ Revert(a)
  \/ LockStop(a) \/ FinishStop(a)
  \/ a \in Request /\ RequestStep(a)
  \/ a = Recovery /\ RecoverQuery

CallbackStep(n) == CallbackStops(n) \/ CallbackReports(n)

Next ==
  \/ \E r \in Request, o \in Ops : Begin(r, o)
  \/ \E a \in Activity : ActivityStep(a) \/ CallFails(a) \/ StopFails(a)
  \/ \E n \in Engine : CallbackStep(n) \/ LimitTrips(n) \/ ScanBegins(n) \/ ScanEnds(n)
  \/ Crash \/ Restart

Spec == Init /\ [][Next]_vars

\* Database calls and closes settle, so activities and callbacks go on, unless a call
\* fails first.
FairSpec ==
  /\ Spec
  /\ \A a \in Activity : WF_vars(ActivityStep(a))
  /\ \A n \in Engine : WF_vars(CallbackStep(n))

-----------------------------------------------------------------------------
(* Safety *)

InLock == { a \in Activity : pc[a] \in {"row", "persist"} }

\* The lock excludes two starts or stops from working on the bot at once, and is
\* there only for one that does (orchestrator.ts:112, :117, :407).
LockHeldByOne ==
  /\ locked <=> InLock # {}
  /\ \A a, b \in InLock : a = b

\* An engine that runs can be stopped: it is the registered one, or an emergency
\* callback is about to stop it (orchestrator.ts:403, :426).
NoEngineLeaks ==
  \A n \in active : \/ n = running
                    \/ \E m \in Engine : cbPc[m] = "closing" /\ victim[m] = n

\* To clients that wait for answers, closes and recovery, the status says whether
\* an engine runs, through starts that fail and crashes at any time (bot.ts:440,
\* orchestrator.ts:533), as long as no handler breaks off after it wrote the status.
StatusAgrees == orderly /\ Quiescent => (status = "running" <=> active # {})

-----------------------------------------------------------------------------
(* Steps *)

\* A start that succeeds leaves the bot with a running engine
\* (orchestrator.ts:104).
StartedIsRunning ==
  [][\A r \in Request :
       (LockStart(r) \/ BuildEngine(r)) /\ pc'[r] = "idle" => running' \in active']_vars

-----------------------------------------------------------------------------
(* Liveness, under FairSpec *)

\* Every request is answered, and recovery ends (or the server does): no activity
\* waits for the lock of another.
RequestsAnswered == \A a \in Activity : (pc[a] # "idle") ~> (pc[a] = "idle")

\* An engine whose emergency stop triggers is halted, whatever requests are made
\* meanwhile (orchestrator.ts:219).
TriggerHalts ==
  \A n \in Engine : (n \in triggered) ~> (n \notin active)
=============================================================================
