-------------------------- MODULE BotLifecycleProofs --------------------------
(***************************************************************************)
(* Theorems of BotLifecycle, for every value of its constants.             *)
(***************************************************************************)
EXTENDS BotLifecycle, TLAPS

-----------------------------------------------------------------------------
(* The inductive invariant *)

\* Who holds the lock knows what is registered: a start found nothing, and a stop
\* found the engine it holds, which only an emergency can have removed.
LockedView ==
  \A a \in Activity :
    /\ pc[a] = "row" => running = NoEngine
    /\ pc[a] = "persist" => running \in {NoEngine, held[a]}

\* A callback belongs to a trigger, and the registered engine does not run on
\* after its own trigger without a callback that is about to stop it.
CallbackView ==
  /\ \A n \in Engine : cbPc[n] # "none" => n \in triggered
  /\ running \in active \cap triggered =>
       cbPc[running] = "closing" /\ victim[running] = running

\* A server that is down does nothing.
DownView == ~up => \A a \in Activity : pc[a] = "idle"

Inv == TypeOK /\ LockHeldByOne /\ NoEngineLeaks /\ LockedView /\ CallbackView /\ DownView

LEMMA InvInit == Init => Inv
<1> SUFFICES ASSUME Init PROVE Inv
  OBVIOUS
<1>1. TypeOK
  <2>1. /\ status \in {"stopped", "running", "error"} /\ deleted \in BOOLEAN
        /\ up \in BOOLEAN /\ orderly \in BOOLEAN /\ locked \in BOOLEAN
    BY DEF Init
  <2>2. /\ crashes \in 0 .. MaxCrashes /\ running \in 0 .. created
        /\ created \in 0 .. MaxEngine
    BY LifecycleAssumption DEF Init, NoEngine
  <2>3. /\ active \subseteq 1 .. created /\ scanning \subseteq 1 .. created
        /\ triggered \subseteq 1 .. created
    BY DEF Init
  <2>4. /\ cbPc \in [Engine -> {"none", "closing", "report"}]
        /\ victim \in [Engine -> 0 .. created]
        /\ held \in [Activity -> 0 .. created]
    BY DEF Init, NoEngine
  <2>5. /\ op \in [Activity -> Ops \cup {"none", "recover"}]
        /\ pc \in [Activity -> {"idle", "query", "read", "mark", "lockStart", "row", "revert",
                               "lockStop", "persist", "settle", "erase", "trigger", "exit"}]
    BY DEF Init
  <2>6. QED
    BY <2>1, <2>2, <2>3, <2>4, <2>5 DEF TypeOK
<1>2. InLock = {}
  BY DEF Init, InLock
<1>3. LockHeldByOne
  BY <1>2 DEF Init, LockHeldByOne
<1>4. NoEngineLeaks /\ LockedView /\ CallbackView /\ DownView
  BY DEF Init, NoEngineLeaks, LockedView, CallbackView, DownView
<1>5. QED
  BY <1>1, <1>3, <1>4 DEF Inv

-----------------------------------------------------------------------------
(* Steps that move an activity and leave the orchestrator alone *)

Outside == {"idle", "query", "read", "mark", "lockStart", "revert", "lockStop", "settle",
            "erase", "trigger", "exit"}

LEMMA MoveInv ==
  ASSUME Inv, NEW a \in Activity, pc[a] \in Outside,
         NEW l \in Outside, Goto(a, l), TypeOK', up', UNCHANGED << registry, engines, held >>
  PROVE  Inv'
<1>1. \A b \in Activity : pc'[b] = IF b = a THEN l ELSE pc[b]
  BY DEF Goto, Inv, TypeOK
<1>2. InLock' = InLock
  BY <1>1 DEF InLock, Outside
<1>3. LockHeldByOne' /\ NoEngineLeaks'
  BY <1>2 DEF Inv, LockHeldByOne, NoEngineLeaks, registry, engines
<1>4. LockedView'
  BY <1>1 DEF Inv, LockedView, registry, engines, Outside
<1>5. CallbackView'
  BY DEF Inv, CallbackView, registry, engines
<1>6. QED
  BY <1>3, <1>4, <1>5 DEF Inv, DownView

\* An activity that is under way is under way in a server that is up.
LEMMA ActiveIsUp ==
  ASSUME Inv, NEW a \in Activity, pc[a] # "idle" PROVE up
  BY DEF Inv, DownView

LEMMA RouteInv ==
  ASSUME Inv, NEW r \in Request,
         \/ ReadRow(r) \/ MarkRow(r) \/ Settle(r) \/ Erase(r)
         \/ \E o \in Ops : Begin(r, o)
  PROVE  Inv'
<1> USE DEF Outside
<1>1. r \in Activity
  BY DEF Activity
<1>2. TypeOK'
  <2>1. CASE ReadRow(r)
    <3>1. \E l \in Outside : Goto(r, l)
      BY <2>1 DEF ReadRow
    <3>2. QED
      BY <1>1, <2>1, <3>1 DEF ReadRow, Goto, Inv, TypeOK, row, server, registry, engines
  <2>2. CASE MarkRow(r)
    <3>1. (\E l \in Outside : Goto(r, l)) /\ status' \in {"stopped", "running"}
      BY <2>2 DEF MarkRow
    <3>2. QED
      BY <1>1, <2>2, <3>1 DEF MarkRow, Goto, Inv, TypeOK, server, registry, engines
  <2>3. CASE Settle(r)
    BY <1>1, <2>3 DEF Settle, Goto, Inv, TypeOK, server, registry, engines
  <2>4. CASE Erase(r)
    BY <1>1, <2>4 DEF Erase, Goto, Inv, TypeOK, server, registry, engines
  <2>5. CASE \E o \in Ops : Begin(r, o)
    BY <1>1, <2>5 DEF Begin, Goto, Inv, TypeOK, row, server, registry, engines
  <2>6. QED
    BY <2>1, <2>2, <2>3, <2>4, <2>5
<1>3. pc[r] \in Outside /\ \E l \in Outside : Goto(r, l)
  BY DEF ReadRow, MarkRow, Settle, Erase, Begin
<1>4. UNCHANGED << registry, engines, held >> /\ up'
  BY <1>1, ActiveIsUp DEF ReadRow, MarkRow, Settle, Erase, Begin, server
<1>5. QED
  BY <1>1, <1>2, <1>3, <1>4, MoveInv

LEMMA CallFailsInv ==
  ASSUME Inv, NEW a \in Activity, CallFails(a)
  PROVE  Inv'
<1>1. pc[a] \in Outside /\ "idle" \in Outside
  BY DEF CallFails, Outside
<1>2. TypeOK'
  <2>1. orderly' \in BOOLEAN
    BY DEF CallFails, Inv, TypeOK
  <2>2. pc' \in [Activity -> Outside \cup {"row", "persist"}]
    BY <1>1 DEF CallFails, Goto, Inv, TypeOK, Outside
  <2>3. QED
    BY <2>1, <2>2 DEF CallFails, Inv, TypeOK, row, registry, engines, Outside
<1>3. up'
  BY <1>1, ActiveIsUp DEF CallFails
<1>4. QED
  BY <1>1, <1>2, <1>3, MoveInv DEF CallFails

LEMMA RecoveryInv ==
  ASSUME Inv, Restart \/ RecoverQuery
  PROVE  Inv'
<1>1. Recovery \in Activity
  BY DEF Activity
<1>2. TypeOK'
  <2>1. CASE Restart
    <3>1. up' \in BOOLEAN
      BY <2>1 DEF Restart
    <3>2. QED
      BY <1>1, <2>1, <3>1 DEF Restart, Goto, Inv, TypeOK, row, registry, engines
  <2>2. CASE RecoverQuery
    BY <1>1, <2>2 DEF RecoverQuery, Goto, Inv, TypeOK, row, server, registry, engines
  <2>3. QED
    BY <2>1, <2>2
<1>3. CASE RecoverQuery
  BY <1>1, <1>2, <1>3, MoveInv, ActiveIsUp DEF RecoverQuery, Outside, server
<1>4. CASE Restart
  <2>1. pc[Recovery] = "idle"
    BY <1>1, <1>4 DEF Restart, Inv, DownView
  <2>2. QED
    BY <1>1, <1>2, <1>4, <2>1, MoveInv DEF Restart, Outside
<1>5. QED
  BY <1>3, <1>4

LEMMA LoseMemoryInv ==
  ASSUME Inv, LoseMemory, crashes < MaxCrashes
  PROVE  Inv'
<1>1. TypeOK'
  <2>1. /\ status' \in {"stopped", "running", "error"} /\ deleted' \in BOOLEAN
        /\ up' \in BOOLEAN /\ orderly' \in BOOLEAN /\ locked' \in BOOLEAN
    BY DEF LoseMemory, Inv, TypeOK, row
  <2>2. /\ crashes' \in 0 .. MaxCrashes /\ running' \in 0 .. created'
        /\ created' \in 0 .. MaxEngine
    BY LifecycleAssumption DEF LoseMemory, Inv, TypeOK, NoEngine
  <2>3. /\ active' \subseteq 1 .. created' /\ scanning' \subseteq 1 .. created'
        /\ triggered' \subseteq 1 .. created'
    BY DEF LoseMemory
  <2>4. /\ cbPc' \in [Engine -> {"none", "closing", "report"}]
        /\ victim' \in [Engine -> 0 .. created']
        /\ held' \in [Activity -> 0 .. created']
    BY DEF LoseMemory, NoEngine
  <2>5. /\ op' \in [Activity -> Ops \cup {"none", "recover"}]
        /\ pc' \in [Activity -> {"idle", "query", "read", "mark", "lockStart", "row", "revert",
                                "lockStop", "persist", "settle", "erase", "trigger", "exit"}]
    BY DEF LoseMemory
  <2>6. QED
    BY <2>1, <2>2, <2>3, <2>4, <2>5 DEF TypeOK
<1>2. InLock' = {}
  BY DEF InLock, LoseMemory
<1>3. QED
  BY <1>1, <1>2 DEF LoseMemory, Inv, LockHeldByOne, NoEngineLeaks, LockedView, CallbackView,
                    DownView, NoEngine

-----------------------------------------------------------------------------
(* Starting *)

LEMMA LockStartInv ==
  ASSUME Inv, NEW a \in Activity, LockStart(a)
  PROVE  Inv'
<1>1. TypeOK'
  BY DEF LockStart, Goto, Inv, TypeOK, row, server, engines
<1>2. CASE locked \/ running # NoEngine
  <2>1. \E l \in Outside : Goto(a, l)
    BY <1>2 DEF LockStart, Outside
  <2>2. QED
    BY <1>1, <1>2, <2>1, MoveInv, ActiveIsUp DEF LockStart, Outside, registry, server
<1>3. CASE ~locked /\ running = NoEngine
  <2>1. InLock = {}
    BY <1>3 DEF Inv, LockHeldByOne
  <2>2. \A b \in Activity : pc'[b] = IF b = a THEN "row" ELSE pc[b]
    BY <1>3 DEF LockStart, Goto, Inv, TypeOK
  <2>3. InLock' = {a}
    BY <2>1, <2>2 DEF InLock
  <2>4. LockHeldByOne'
    BY <1>3, <2>3 DEF LockStart, LockHeldByOne
  <2>5. NoEngineLeaks' /\ CallbackView'
    BY <1>3 DEF LockStart, Inv, NoEngineLeaks, CallbackView, engines
  <2>6. LockedView'
    BY <1>3, <2>2 DEF LockStart, Inv, LockedView
  <2>7. DownView'
    BY ActiveIsUp DEF LockStart, DownView, server
  <2>8. QED
    BY <1>1, <2>4, <2>5, <2>6, <2>7 DEF Inv
<1>4. QED
  BY <1>2, <1>3

\* Leaving the lock.
LEMMA UnlockInv ==
  ASSUME Inv, NEW a \in InLock, NEW l \in Outside, Goto(a, l), locked' = FALSE
  PROVE  LockHeldByOne' /\ \A b \in Activity : pc'[b] \notin {"row", "persist"}
<1>1. \A b \in Activity : pc'[b] = IF b = a THEN l ELSE pc[b]
  BY DEF Goto, Inv, TypeOK
<1>2. \A b \in Activity : b # a => b \notin InLock
  BY DEF Inv, LockHeldByOne
<1>3. \A b \in Activity : pc'[b] \notin {"row", "persist"}
  BY <1>1, <1>2 DEF InLock, Outside
<1>4. QED
  BY <1>3 DEF LockHeldByOne, InLock

LEMMA BuildInv ==
  ASSUME Inv, NEW a \in Activity, BuildEngine(a) \/ BuildFails(a)
  PROVE  Inv'
<1>1. a \in InLock /\ running = NoEngine
  BY DEF BuildEngine, BuildFails, InLock, Inv, LockedView
<1>2. LockHeldByOne' /\ \A b \in Activity : pc'[b] \notin {"row", "persist"}
  BY <1>1, UnlockInv DEF BuildEngine, BuildFails, Outside
<1>3. LockedView' /\ DownView'
  BY <1>2, ActiveIsUp DEF LockedView, DownView, BuildEngine, BuildFails, server
<1>4. CASE BuildFails(a)
  <2>1. TypeOK'
    BY <1>4 DEF BuildFails, Goto, Inv, TypeOK, row, server, engines
  <2>2. NoEngineLeaks' /\ CallbackView'
    BY <1>4 DEF BuildFails, Inv, NoEngineLeaks, CallbackView, engines
  <2>3. QED
    BY <1>2, <1>3, <2>1, <2>2 DEF Inv
<1>5. CASE BuildEngine(a)
  <2>1. TypeOK'
    <3>1. /\ created' \in 0 .. MaxEngine /\ running' \in 0 .. created'
          /\ 0 .. created \subseteq 0 .. created' /\ 1 .. created \subseteq 1 .. created'
          /\ created' \in 1 .. created'
      BY <1>5, LifecycleAssumption DEF BuildEngine, Inv, TypeOK
    <3>2. /\ active' \subseteq 1 .. created' /\ scanning' \subseteq 1 .. created'
          /\ triggered' \subseteq 1 .. created'
      BY <1>5, <3>1 DEF BuildEngine, Inv, TypeOK
    <3>3. /\ victim' \in [Engine -> 0 .. created'] /\ held' \in [Activity -> 0 .. created']
      BY <1>5, <3>1 DEF BuildEngine, Inv, TypeOK
    <3>4. QED
      BY <1>5, <3>1, <3>2, <3>3 DEF BuildEngine, Goto, Inv, TypeOK, row, server
  <2>2. NoEngineLeaks'
    BY <1>1, <1>5 DEF BuildEngine, Inv, TypeOK, NoEngineLeaks, NoEngine
  <2>3. running' \notin triggered'
    BY <1>5, LifecycleAssumption DEF BuildEngine, Inv, TypeOK
  <2>4. CallbackView'
    BY <1>5, <2>3 DEF BuildEngine, Inv, CallbackView
  <2>5. QED
    BY <1>2, <1>3, <2>1, <2>2, <2>4 DEF Inv
<1>6. QED
  BY <1>4, <1>5

LEMMA RevertInv ==
  ASSUME Inv, NEW a \in Activity, Revert(a)
  PROVE  Inv'
<1>1. TypeOK'
  BY DEF Revert, Goto, Inv, TypeOK, server, registry, engines
<1>2. QED
  BY <1>1, MoveInv, ActiveIsUp DEF Revert, Outside, server

-----------------------------------------------------------------------------
(* Stopping *)

LEMMA AfterStopOutside ==
  ASSUME NEW a PROVE AfterStop(a) \in Outside
  BY DEF AfterStop, Outside

LEMMA LockStopInv ==
  ASSUME Inv, NEW a \in Activity, LockStop(a)
  PROVE  Inv'
<1>1. AfterStop(a) \in Outside
  BY AfterStopOutside
<1>2. TypeOK'
  BY <1>1, ZenonT(60) DEF LockStop, Goto, Inv, TypeOK, row, server, engines, Outside
<1>3. CASE locked \/ running = NoEngine
  BY <1>1, <1>2, <1>3, MoveInv, ActiveIsUp DEF LockStop, Outside, registry, server
<1>4. CASE ~locked /\ running # NoEngine
  <2>1. InLock = {}
    BY <1>4 DEF Inv, LockHeldByOne
  <2>2. \A b \in Activity : pc'[b] = IF b = a THEN "persist" ELSE pc[b]
    BY <1>4 DEF LockStop, Goto, Inv, TypeOK
  <2>3. InLock' = {a}
    BY <2>1, <2>2 DEF InLock
  <2>4. LockHeldByOne'
    BY <1>4, <2>3 DEF LockStop, LockHeldByOne
  <2>5. NoEngineLeaks' /\ CallbackView'
    BY <1>4 DEF LockStop, Inv, NoEngineLeaks, CallbackView, engines
  <2>6. held'[a] = running /\ running' = running
    BY <1>4 DEF LockStop, Inv, TypeOK
  <2>7. LockedView'
    BY <2>1, <2>2, <2>6 DEF LockedView, InLock
  <2>8. DownView'
    BY ActiveIsUp DEF LockStop, DownView, server
  <2>9. QED
    BY <1>2, <2>4, <2>5, <2>7, <2>8 DEF Inv
<1>5. QED
  BY <1>3, <1>4

LEMMA FinishStopInv ==
  ASSUME Inv, NEW a \in Activity, FinishStop(a)
  PROVE  Inv'
<1>1. AfterStop(a) \in Outside
  BY AfterStopOutside
<1>2. TypeOK'
  <2>1. NoEngine \in 0 .. created
    BY DEF Inv, TypeOK, NoEngine
  <2>2. pc' \in [Activity -> Outside \cup {"row", "persist"}]
    BY <1>1 DEF FinishStop, Goto, Inv, TypeOK, Outside
  <2>3. held' \in [Activity -> 0 .. created] /\ running' \in 0 .. created
    BY <2>1 DEF FinishStop, Inv, TypeOK
  <2>4. QED
    BY <2>2, <2>3 DEF FinishStop, Inv, TypeOK, row, server, Outside
<1>3. a \in InLock /\ running \in {NoEngine, held[a]}
  BY DEF FinishStop, InLock, Inv, LockedView
<1>4. LockHeldByOne' /\ \A b \in Activity : pc'[b] \notin {"row", "persist"}
  BY <1>1, <1>3, UnlockInv DEF FinishStop
<1>5. LockedView' /\ DownView'
  BY <1>4, ActiveIsUp DEF LockedView, DownView, FinishStop, server
<1>6. NoEngineLeaks'
  BY <1>3 DEF FinishStop, Inv, TypeOK, NoEngineLeaks, NoEngine
<1>7. CallbackView'
  BY DEF FinishStop, Inv, TypeOK, CallbackView, NoEngine
<1>8. QED
  BY <1>2, <1>4, <1>5, <1>6, <1>7 DEF Inv

LEMMA StopFailsInv ==
  ASSUME Inv, NEW a \in Activity, StopFails(a)
  PROVE  Inv'
<1>1. AfterStop(a) \in Outside
  BY AfterStopOutside
<1>2. TypeOK'
  <2>1. NoEngine \in 0 .. created
    BY DEF Inv, TypeOK, NoEngine
  <2>2. pc' \in [Activity -> Outside \cup {"row", "persist"}]
    BY <1>1 DEF StopFails, Goto, Inv, TypeOK, Outside
  <2>3. held' \in [Activity -> 0 .. created]
    BY <2>1 DEF StopFails, Inv, TypeOK
  <2>4. QED
    BY <2>2, <2>3 DEF StopFails, Inv, TypeOK, row, engines, Outside
<1>3. a \in InLock
  BY DEF StopFails, InLock
<1>4. LockHeldByOne' /\ \A b \in Activity : pc'[b] \notin {"row", "persist"}
  BY <1>1, <1>3, UnlockInv DEF StopFails
<1>5. LockedView' /\ DownView'
  BY <1>4, ActiveIsUp DEF LockedView, DownView, StopFails
<1>6. NoEngineLeaks' /\ CallbackView'
  BY DEF StopFails, Inv, NoEngineLeaks, CallbackView, engines
<1>7. QED
  BY <1>2, <1>4, <1>5, <1>6 DEF Inv

-----------------------------------------------------------------------------
(* Emergencies *)

\* A trigger that fires covers the engine that is registered.
LEMMA TripLeaks ==
  ASSUME Inv, NEW n \in 1 .. created, Trip(n), active' = active, created' = created,
         running' = running \/ (running' = NoEngine /\ n = running)
  PROVE  NoEngineLeaks' /\ CallbackView'
         /\ triggered' \subseteq 1 .. created
         /\ cbPc' \in [Engine -> {"none", "closing", "report"}]
         /\ victim' \in [Engine -> 0 .. created]
<1>1. n \in Engine /\ \A m \in active : m # NoEngine
  BY LifecycleAssumption DEF Inv, TypeOK, Engine, NoEngine
<1>2. CASE n \in triggered
  <2>1. UNCHANGED << triggered, cbPc, victim >>
    BY <1>2 DEF Trip
  <2>2. CASE running' = running
    BY <2>1, <2>2 DEF Inv, TypeOK, NoEngineLeaks, CallbackView
  <2>3. CASE running' = NoEngine /\ n = running
    <3>1. NoEngineLeaks'
      BY <1>1, <1>2, <2>1, <2>3 DEF Inv, NoEngineLeaks, CallbackView
    <3>2. CallbackView'
      BY <1>1, <2>1, <2>3 DEF Inv, CallbackView
    <3>3. QED
      BY <2>1, <3>1, <3>2 DEF Inv, TypeOK
  <2>4. QED
    BY <2>2, <2>3
<1>3. CASE n \notin triggered
  <2>1. cbPc[n] = "none"
    BY <1>1, <1>3 DEF Inv, CallbackView
  <2>2. /\ triggered' = triggered \cup {n}
        /\ \A m \in Engine : m # n => cbPc'[m] = cbPc[m] /\ victim'[m] = victim[m]
        /\ victim'[n] = running
        /\ cbPc'[n] = IF running = NoEngine THEN "report" ELSE "closing"
    BY <1>1, <1>3 DEF Trip, Inv, TypeOK
  <2>3. NoEngineLeaks'
    BY <1>1, <2>1, <2>2 DEF Inv, NoEngineLeaks
  <2>4. \A m \in Engine : cbPc'[m] # "none" => m \in triggered'
    BY <1>1, <2>2 DEF Inv, CallbackView
  <2>5. ASSUME running' \in active' \cap triggered'
        PROVE  cbPc'[running'] = "closing" /\ victim'[running'] = running'
    <3>1. running' = running /\ running # NoEngine
      BY <1>1, <2>5
    <3>2. CASE running = n
      BY <2>2, <3>1, <3>2
    <3>3. CASE running # n
      <4>1. running \in active \cap triggered /\ running \in Engine
        BY <2>2, <2>5, <3>1, <3>3, LifecycleAssumption DEF Inv, TypeOK, Engine
      <4>2. QED
        BY <2>2, <3>1, <3>3, <4>1 DEF Inv, CallbackView
    <3>4. QED
      BY <3>2, <3>3
  <2>6. CallbackView'
    BY <2>4, <2>5 DEF CallbackView
  <2>7. /\ triggered' \subseteq 1 .. created
        /\ cbPc' \in [Engine -> {"none", "closing", "report"}]
        /\ victim' \in [Engine -> 0 .. created]
    BY <1>1, <1>3, ZenonT(60) DEF Trip, Inv, TypeOK
  <2>8. QED
    BY <2>3, <2>6, <2>7
<1>4. QED
  BY <1>2, <1>3

LEMMA LimitTripsInv ==
  ASSUME Inv, NEW n \in Engine, LimitTrips(n)
  PROVE  Inv'
<1>1. n \in 1 .. created
  BY DEF LimitTrips, Inv, TypeOK
<1>2. /\ NoEngineLeaks' /\ CallbackView'
      /\ triggered' \subseteq 1 .. created
      /\ cbPc' \in [Engine -> {"none", "closing", "report"}]
      /\ victim' \in [Engine -> 0 .. created]
  BY <1>1, TripLeaks DEF LimitTrips, registry
<1>3. TypeOK'
  BY <1>2 DEF LimitTrips, Inv, TypeOK, row, server, registry, calls
<1>4. LockHeldByOne' /\ LockedView' /\ DownView'
  BY DEF LimitTrips, Inv, LockHeldByOne, InLock, LockedView, DownView, server, registry, calls
<1>5. QED
  BY <1>2, <1>3, <1>4 DEF Inv

LEMMA TriggerManualInv ==
  ASSUME Inv, NEW r \in Request, TriggerManual(r)
  PROVE  Inv'
<1>1. r \in Activity
  BY DEF Activity
<1>2. \A b \in Activity : pc'[b] = IF b = r THEN "idle" ELSE pc[b]
  BY <1>1 DEF TriggerManual, Goto, Inv, TypeOK
<1>3. InLock' = InLock
  BY <1>2 DEF InLock, TriggerManual
<1>4. LockHeldByOne' /\ LockedView' /\ DownView'
  BY <1>1, <1>2, <1>3, ActiveIsUp
     DEF TriggerManual, Inv, LockHeldByOne, LockedView, DownView, server
<1>5. /\ NoEngineLeaks' /\ CallbackView'
      /\ triggered' \subseteq 1 .. created
      /\ cbPc' \in [Engine -> {"none", "closing", "report"}]
      /\ victim' \in [Engine -> 0 .. created]
  <2>1. CASE running = NoEngine
    <3>1. UNCHANGED << active, created, triggered, cbPc, victim >> /\ running' = running
      BY <2>1 DEF TriggerManual
    <3>2. QED
      BY <3>1 DEF Inv, TypeOK, NoEngineLeaks, CallbackView
  <2>2. CASE running # NoEngine
    <3>1. running \in 1 .. created
      BY <2>2, LifecycleAssumption DEF Inv, TypeOK, NoEngine
    <3>2. QED
      BY <2>2, <3>1, TripLeaks DEF TriggerManual
  <2>3. QED
    BY <2>1, <2>2
<1>6. TypeOK'
  BY <1>1, <1>5 DEF TriggerManual, Goto, Inv, TypeOK, row, server, NoEngine
<1>7. QED
  BY <1>4, <1>5, <1>6 DEF Inv

LEMMA CallbackInv ==
  ASSUME Inv, NEW n \in Engine, CallbackStep(n)
  PROVE  Inv'
<1> USE DEF row, server, registry, calls
<1>1. TypeOK'
  <2>1. CASE CallbackStops(n)
    <3>1. cbPc' \in [Engine -> {"none", "closing", "report"}]
      BY <2>1 DEF CallbackStops, Inv, TypeOK
    <3>2. QED
      BY <2>1, <3>1 DEF CallbackStops, Inv, TypeOK
  <2>2. CASE CallbackReports(n)
    <3>1. cbPc' \in [Engine -> {"none", "closing", "report"}]
      BY <2>2 DEF CallbackReports, Inv, TypeOK
    <3>2. NoEngine \in 0 .. created
      BY DEF Inv, TypeOK, NoEngine
    <3>3. victim' \in [Engine -> 0 .. created]
      BY <2>2, <3>2 DEF CallbackReports, Inv, TypeOK
    <3>4. status' \in {"stopped", "running", "error"}
      BY <2>2 DEF CallbackReports, Inv, TypeOK
    <3>5. QED
      BY <2>2, <3>1, <3>3, <3>4 DEF CallbackReports, Inv, TypeOK, row, server, registry, calls
  <2>3. QED
    BY <2>1, <2>2 DEF CallbackStep
<1>2. LockHeldByOne' /\ LockedView' /\ DownView'
  BY DEF CallbackStep, CallbackStops, CallbackReports, Inv, LockHeldByOne, InLock, LockedView,
         DownView
<1>3. \A m \in Engine : m # n => cbPc'[m] = cbPc[m] /\ victim'[m] = victim[m]
  BY DEF CallbackStep, CallbackStops, CallbackReports, Inv, TypeOK
<1>4. CASE CallbackStops(n)
  <2>1. NoEngineLeaks'
    BY <1>3, <1>4 DEF CallbackStops, Inv, NoEngineLeaks
  <2>2. CallbackView'
    BY <1>3, <1>4 DEF CallbackStops, Inv, TypeOK, CallbackView
  <2>3. QED
    BY <1>1, <1>2, <2>1, <2>2 DEF Inv
<1>5. CASE CallbackReports(n)
  <2>1. NoEngineLeaks'
    BY <1>3, <1>5 DEF CallbackReports, Inv, NoEngineLeaks
  <2>2. CallbackView'
    BY <1>3, <1>5 DEF CallbackReports, Inv, TypeOK, CallbackView
  <2>3. QED
    BY <1>1, <1>2, <2>1, <2>2 DEF Inv
<1>6. QED
  BY <1>4, <1>5 DEF CallbackStep

LEMMA ScanInv ==
  ASSUME Inv, NEW n \in Engine, ScanBegins(n) \/ ScanEnds(n)
  PROVE  Inv'
<1> USE DEF row, server, registry, calls
<1>1. scanning' \subseteq 1 .. created
  BY DEF ScanBegins, ScanEnds, Inv, TypeOK
<1>2. /\ UNCHANGED << row, server, registry, calls >>
      /\ UNCHANGED << created, active, triggered, cbPc, victim >>
  BY DEF ScanBegins, ScanEnds
<1>3. TypeOK'
  BY <1>1, <1>2 DEF Inv, TypeOK
<1>4. LockHeldByOne' /\ LockedView' /\ DownView'
  BY <1>2 DEF Inv, LockHeldByOne, InLock, LockedView, DownView
<1>5. NoEngineLeaks' /\ CallbackView'
  BY <1>2 DEF Inv, NoEngineLeaks, CallbackView
<1>6. QED
  BY <1>3, <1>4, <1>5 DEF Inv

-----------------------------------------------------------------------------
(* The theorems *)

LEMMA AlwaysInv == Spec => []Inv
<1>1. Inv /\ [Next]_vars => Inv'
  <2> SUFFICES ASSUME Inv, [Next]_vars PROVE Inv'
    OBVIOUS
  <2>1. CASE UNCHANGED vars
    BY <2>1 DEF vars, row, server, registry, engines, calls, Inv, TypeOK, LockHeldByOne,
                InLock, NoEngineLeaks, LockedView, CallbackView, DownView
  <2>2. ASSUME NEW r \in Request, NEW o \in Ops, Begin(r, o) PROVE Inv'
    BY <2>2, RouteInv
  <2>3. ASSUME NEW a \in Activity, ActivityStep(a) PROVE Inv'
    <3>1. CASE \/ LockStart(a) \/ BuildEngine(a) \/ BuildFails(a) \/ Revert(a)
               \/ LockStop(a) \/ FinishStop(a)
      BY <3>1, LockStartInv, BuildInv, RevertInv, LockStopInv, FinishStopInv
    <3>2. CASE a \in Request /\ RequestStep(a)
      <4>1. CASE Exit(a)
        BY <4>1, LoseMemoryInv DEF Exit
      <4>2. CASE TriggerManual(a)
        BY <3>2, <4>2, TriggerManualInv
      <4>3. QED
        BY <3>2, <4>1, <4>2, RouteInv DEF RequestStep
    <3>3. CASE RecoverQuery
      BY <3>3, RecoveryInv
    <3>4. QED
      BY <2>3, <3>1, <3>2, <3>3 DEF ActivityStep
  <2>4. ASSUME NEW a \in Activity, CallFails(a) \/ StopFails(a) PROVE Inv'
    BY <2>4, CallFailsInv, StopFailsInv
  <2>5. ASSUME NEW n \in Engine,
               CallbackStep(n) \/ LimitTrips(n) \/ ScanBegins(n) \/ ScanEnds(n)
        PROVE  Inv'
    BY <2>5, CallbackInv, LimitTripsInv, ScanInv
  <2>6. CASE Crash \/ Restart
    BY <2>6, LoseMemoryInv, RecoveryInv DEF Crash
  <2>7. QED
    BY <2>1, <2>2, <2>3, <2>4, <2>5, <2>6 DEF Next
<1>2. QED
  BY <1>1, InvInit, PTL DEF Spec

\* The variables keep their types.
THEOREM LifecycleTypes == Spec => []TypeOK
<1>1. Inv => TypeOK
  BY DEF Inv
<1>2. QED
  BY <1>1, AlwaysInv, PTL

\* At most one start or stop works on the bot, and the lock is there for it only.
THEOREM LockExcludes == Spec => []LockHeldByOne
<1>1. Inv => LockHeldByOne
  BY DEF Inv
<1>2. QED
  BY <1>1, AlwaysInv, PTL

\* No engine runs on that neither the registry nor a callback can stop, although
\* the emergency route removes the bot without taking the lock.
THEOREM EnginesReachable == Spec => []NoEngineLeaks
<1>1. Inv => NoEngineLeaks
  BY DEF Inv
<1>2. QED
  BY <1>1, AlwaysInv, PTL

-----------------------------------------------------------------------------
(* Status and engine, while requests come one at a time *)

Agree == status = "running" <=> active # {}

NoneActive == running = NoEngine /\ active = {}

\* The engine that runs is the registered one, and has not triggered.
Single ==
  \/ NoneActive
  \/ running # NoEngine /\ active = {running} /\ running \notin triggered

\* What an activity may rely on where it waits.
Stage(a) ==
  /\ pc[a] \in {"query", "lockStart", "row", "revert", "settle"} => NoneActive
  /\ pc[a] \in {"lockStart", "row"} => status = "running"
  /\ pc[a] \in {"read", "mark", "erase"} => Agree
  /\ pc[a] = "mark" /\ op[a] = "start" => status # "running"
  /\ pc[a] = "trigger" => status = "stopped"
  /\ pc[a] \in {"lockStop", "persist"} =>
        /\ op[a] \in {"stop", "delete", "shutdown"}
        /\ op[a] = "stop" => status = "stopped"

\* While a callback is under way nothing else is, and the bot is forgotten.
Halting(n) ==
  /\ \A a \in Activity : pc[a] = "idle"
  /\ \A m \in Engine : cbPc[m] # "none" => m = n
  /\ status # "running" /\ running = NoEngine
  /\ active \subseteq IF cbPc[n] = "closing" THEN {victim[n]} ELSE {}

NoCallback == \A n \in Engine : cbPc[n] = "none"

OneAtATime ==
  orderly =>
    /\ \A a, b \in Activity : pc[a] # "idle" /\ pc[b] # "idle" => a = b
    /\ \A n \in Engine : cbPc[n] # "none" => Halting(n)
    /\ NoCallback => Single
    /\ \A a \in Activity : Stage(a)
    /\ Quiescent => Agree
    /\ ~up => NoneActive /\ NoCallback

\* An activity under way is alone.
LEMMA Alone ==
  ASSUME Inv, OneAtATime, orderly, NEW a \in Activity, pc[a] # "idle"
  PROVE  /\ up /\ NoCallback /\ Single /\ Stage(a)
         /\ \A b \in Activity : b # a => pc[b] = "idle"
         /\ locked <=> pc[a] \in {"row", "persist"}
<1>1. \A b \in Activity : b # a => pc[b] = "idle"
  BY DEF OneAtATime
<1>2. NoCallback
  BY DEF OneAtATime, Halting, NoCallback
<1>3. locked <=> pc[a] \in {"row", "persist"}
  BY <1>1 DEF Inv, LockHeldByOne, InLock
<1> QED BY <1>1, <1>2, <1>3, ActiveIsUp DEF OneAtATime

\* It moves on, or ends with the status in agreement.
LEMMA LoneStep ==
  ASSUME Inv, OneAtATime, orderly, NEW a \in Activity, pc[a] # "idle", NEW l, Goto(a, l),
         up', NoCallback', Single', Stage(a)', l = "idle" => Agree'
  PROVE  OneAtATime'
<1>1. \A b \in Activity : pc'[b] = IF b = a THEN l ELSE "idle"
  BY Alone DEF Goto, Inv, TypeOK
<1>2. \A b \in Activity : Stage(b)'
  BY <1>1 DEF Stage
<1>3. Quiescent' => Agree'
  BY <1>1 DEF Quiescent
<1>4. \A b, c \in Activity : pc'[b] # "idle" /\ pc'[c] # "idle" => b = c
  BY <1>1
<1>5. \A n \in Engine : cbPc'[n] # "none" => Halting(n)'
  BY DEF NoCallback
<1> QED BY <1>2, <1>3, <1>4, <1>5 DEF OneAtATime

LEMMA SingleAgain ==
  ASSUME Single, UNCHANGED << running, active, triggered >>
  PROVE  Single' /\ (NoneActive => NoneActive')
BY DEF Single, NoneActive, NoEngine

LEMMA BeginOrderly ==
  ASSUME Inv, OneAtATime, orderly', NEW r \in Request, NEW o \in Ops, Begin(r, o)
  PROVE  OneAtATime'
<1>1. r \in Activity /\ orderly /\ Quiescent
  BY DEF Begin, Activity
<1>2. /\ Agree /\ Single /\ NoCallback
  BY <1>1 DEF OneAtATime, Quiescent, NoCallback
<1>3. /\ Agree' /\ Single' /\ NoCallback' /\ up'
  <2>1. Single'
    BY <1>2, SingleAgain DEF Begin, registry, engines
  <2> QED BY <1>2, <2>1 DEF Begin, row, registry, engines, Agree, NoCallback
<1>4. \A b \in Activity :
        /\ pc'[b] = IF b # r THEN "idle" ELSE IF o = "shutdown" THEN "lockStop" ELSE "read"
        /\ b = r => op'[b] = o
  BY <1>1 DEF Quiescent, Begin, Goto, Inv, TypeOK
<1>5. \A b \in Activity : Stage(b)'
  BY <1>3, <1>4 DEF Stage
<1>6. \A b, c \in Activity : pc'[b] # "idle" /\ pc'[c] # "idle" => b = c
  BY <1>4
<1>7. \A n \in Engine : cbPc'[n] # "none" => Halting(n)'
  BY <1>3 DEF NoCallback
<1> QED BY <1>3, <1>5, <1>6, <1>7 DEF OneAtATime

LEMMA RouteOrderly ==
  ASSUME Inv, OneAtATime, orderly, NEW r \in Request,
         ReadRow(r) \/ MarkRow(r) \/ Settle(r) \/ Erase(r)
  PROVE  OneAtATime'
<1> USE DEF row, server, registry, engines
<1>1. r \in Activity /\ pc[r] # "idle"
  BY DEF Activity, ReadRow, MarkRow, Settle, Erase
<1>2. up /\ NoCallback /\ Single /\ Stage(r)
  BY <1>1, Alone
<1>3. /\ UNCHANGED << up, running, active, triggered, cbPc, op >>
  BY DEF ReadRow, MarkRow, Settle, Erase
<1>4. up' /\ NoCallback' /\ Single' /\ (NoneActive => NoneActive')
  <2>1. Single' /\ (NoneActive => NoneActive')
    BY <1>2, <1>3, SingleAgain
  <2> QED BY <1>2, <1>3, <2>1 DEF NoCallback
<1>5. PICK l : Goto(r, l)
  BY DEF ReadRow, MarkRow, Settle, Erase
<1>6. pc'[r] = l
  BY <1>1, <1>5 DEF Goto, Inv, TypeOK
<1>7. Stage(r)' /\ (l = "idle" => Agree')
  <2>1. CASE ReadRow(r)
    <3>1. Agree /\ Agree' /\ status' = status
      BY <1>2, <1>3, <2>1 DEF ReadRow, Stage, Agree
    <3>2. /\ pc'[r] \in {"idle", "mark", "lockStop", "erase"}
          /\ pc'[r] = "mark" /\ op[r] = "start" => status # "running"
          /\ pc'[r] = "lockStop" => op[r] = "delete"
      BY <1>1, <2>1 DEF ReadRow, Goto, Inv, TypeOK
    <3> QED BY <1>3, <3>1, <3>2 DEF Stage
  <2>2. CASE MarkRow(r)
    <3>1. Agree /\ (op[r] = "start" => status # "running")
      BY <1>2, <2>2 DEF MarkRow, Stage
    <3>2. \/ op[r] = "start" /\ pc'[r] = "lockStart" /\ status' = "running"
          \/ op[r] = "stop" /\ pc'[r] = "lockStop" /\ status' = "stopped"
          \/ pc'[r] = "trigger" /\ status' = "stopped"
      BY <1>1, <2>2 DEF MarkRow, Goto, Inv, TypeOK
    <3>3. op[r] = "start" => NoneActive'
      BY <1>2, <1>4, <3>1 DEF Agree, Single
    <3> QED BY <1>3, <1>6, <3>2, <3>3 DEF Stage
  <2>3. CASE Settle(r)
    <3>1. NoneActive' /\ status' = "stopped" /\ pc'[r] = "erase"
      BY <1>1, <1>2, <1>4, <2>3 DEF Settle, Stage, Goto, Inv, TypeOK
    <3> QED BY <1>6, <3>1 DEF Stage, Agree, NoneActive
  <2>4. CASE Erase(r)
    <3>1. Agree' /\ pc'[r] = "idle"
      BY <1>1, <1>2, <1>3, <2>4 DEF Erase, Stage, Agree, Goto, Inv, TypeOK
    <3> QED BY <1>6, <3>1 DEF Stage
  <2> QED BY <2>1, <2>2, <2>3, <2>4
<1> QED BY <1>1, <1>4, <1>5, <1>7, LoneStep

LEMMA CallFailsOrderly ==
  ASSUME Inv, OneAtATime, orderly', NEW a \in Activity, CallFails(a)
  PROVE  OneAtATime'
<1> USE DEF row, registry, engines
<1>1. orderly /\ pc[a] \in {"read", "mark", "erase"} /\ Goto(a, "idle")
  BY DEF CallFails
<1>2. up /\ NoCallback /\ Single /\ Agree
  BY <1>1, Alone DEF Stage
<1>3. UNCHANGED << up, status, running, active, triggered, cbPc >>
  BY DEF CallFails
<1>4. up' /\ NoCallback' /\ Single' /\ Agree'
  <2>1. Single'
    BY <1>2, <1>3, SingleAgain
  <2> QED BY <1>2, <1>3, <2>1 DEF NoCallback, Agree
<1>5. Stage(a)'
  BY <1>1 DEF Stage, Goto, Inv, TypeOK
<1> QED BY <1>1, <1>4, <1>5, LoneStep

LEMMA StartOrderly ==
  ASSUME Inv, OneAtATime, orderly, NEW a \in Activity,
         LockStart(a) \/ BuildEngine(a) \/ BuildFails(a) \/ Revert(a)
  PROVE  OneAtATime'
<1> USE DEF row, server, registry, engines
<1>1. pc[a] # "idle"
  BY DEF LockStart, BuildEngine, BuildFails, Revert
<1>2. up /\ NoCallback /\ Single /\ Stage(a) /\ (locked <=> pc[a] \in {"row", "persist"})
  BY <1>1, Alone
<1>3. NoneActive
  BY <1>2 DEF LockStart, BuildEngine, BuildFails, Revert, Stage
<1>4. up' /\ NoCallback'
  BY <1>2 DEF LockStart, BuildEngine, BuildFails, Revert, NoCallback
<1>5. CASE LockStart(a)
  <2>1. pc[a] = "lockStart" /\ ~locked /\ status = "running"
    BY <1>2, <1>5 DEF LockStart, Stage
  <2>2. Goto(a, "row") /\ UNCHANGED << status, running, active, triggered >>
    BY <1>3, <1>5, <2>1 DEF LockStart, NoneActive
  <2>3. Single' /\ NoneActive'
    BY <1>2, <1>3, <2>2, SingleAgain
  <2>4. Stage(a)'
    BY <2>1, <2>2, <2>3 DEF Stage, Goto, Inv, TypeOK
  <2> QED BY <1>1, <1>4, <2>2, <2>3, <2>4, LoneStep
<1>6. CASE BuildEngine(a)
  <2>1. Goto(a, "idle") /\ active' = {running'} /\ running' # NoEngine /\ triggered' = triggered
    BY <1>3, <1>6 DEF BuildEngine, NoneActive, NoEngine, Inv, TypeOK
  <2>2. running' \notin triggered
    BY <1>6, LifecycleAssumption DEF BuildEngine, Inv, TypeOK
  <2>3. Single'
    BY <2>1, <2>2 DEF Single
  <2>4. Agree'
    BY <1>2, <1>6, <2>1 DEF BuildEngine, Stage, Agree
  <2>5. Stage(a)'
    BY <2>1 DEF Stage, Goto, Inv, TypeOK
  <2> QED BY <1>1, <1>4, <2>1, <2>3, <2>4, <2>5, LoneStep
<1>7. CASE BuildFails(a)
  <2>1. Goto(a, "revert") /\ UNCHANGED << running, active, triggered >>
    BY <1>7 DEF BuildFails
  <2>2. Single' /\ NoneActive'
    BY <1>2, <1>3, <2>1, SingleAgain
  <2>3. Stage(a)'
    BY <2>1, <2>2 DEF Stage, Goto, Inv, TypeOK
  <2> QED BY <1>1, <1>4, <2>1, <2>2, <2>3, LoneStep
<1>8. CASE Revert(a)
  <2>1. Goto(a, "idle") /\ UNCHANGED << running, active, triggered >> /\ status' = "error"
    BY <1>8 DEF Revert
  <2>2. Single' /\ NoneActive'
    BY <1>2, <1>3, <2>1, SingleAgain
  <2>3. Stage(a)' /\ Agree'
    BY <2>1, <2>2 DEF Stage, Agree, NoneActive, Goto, Inv, TypeOK
  <2> QED BY <1>1, <1>4, <2>1, <2>2, <2>3, LoneStep
<1> QED BY <1>5, <1>6, <1>7, <1>8

LEMMA StopOrderly ==
  ASSUME Inv, OneAtATime, orderly, NEW a \in Activity, LockStop(a) \/ FinishStop(a)
  PROVE  OneAtATime'
<1> USE DEF row, server, registry, engines
<1>1. pc[a] \in {"lockStop", "persist"}
  BY DEF LockStop, FinishStop
<1>2. up /\ NoCallback /\ Single /\ Stage(a) /\ (locked <=> pc[a] = "persist")
  BY <1>1, Alone
<1>3. /\ op[a] \in {"stop", "delete", "shutdown"} /\ (op[a] = "stop" => status = "stopped")
      /\ op' = op /\ status' = status
  BY <1>1, <1>2 DEF Stage, LockStop, FinishStop
<1>4. up' /\ NoCallback'
  BY <1>2 DEF LockStop, FinishStop, NoCallback
\* Either way, nothing runs when stopBot has returned.
<1>5. ASSUME NoneActive', Goto(a, AfterStop(a)) PROVE OneAtATime'
  <2>1. pc'[a] = AfterStop(a)
    BY <1>5 DEF Goto, Inv, TypeOK
  <2>2. /\ AfterStop(a) \in {"idle", "settle", "exit"}
        /\ AfterStop(a) = "idle" => status' = "stopped"
    BY <1>3 DEF AfterStop
  <2>3. Stage(a)'
    BY <1>5, <2>1, <2>2 DEF Stage
  <2>4. AfterStop(a) = "idle" => Agree'
    BY <1>5, <2>2 DEF Agree, NoneActive
  <2>5. Single'
    BY <1>5 DEF Single
  <2> QED BY <1>1, <1>4, <1>5, <2>3, <2>4, <2>5, LoneStep
<1>6. CASE LockStop(a)
  <2>1. ~locked /\ UNCHANGED << running, active, triggered >>
    BY <1>2, <1>6 DEF LockStop
  <2>2. Single' /\ (NoneActive => NoneActive')
    BY <1>2, <2>1, SingleAgain
  <2>3. CASE running = NoEngine
    <3>1. NoneActive /\ Goto(a, AfterStop(a))
      BY <1>2, <1>6, <2>3 DEF Single, LockStop
    <3> QED BY <1>5, <2>2, <3>1
  <2>4. CASE running # NoEngine
    <3>1. Goto(a, "persist")
      BY <1>6, <2>1, <2>4 DEF LockStop
    <3>2. Stage(a)'
      BY <1>3, <3>1 DEF Stage, Goto, Inv, TypeOK
    <3> QED BY <1>1, <1>4, <2>2, <3>1, <3>2, LoneStep
  <2> QED BY <2>3, <2>4
<1>7. CASE FinishStop(a)
  <2>1. running \in {NoEngine, held[a]}
    BY <1>7 DEF FinishStop, Inv, LockedView
  <2>2. active \subseteq {held[a]}
    BY <1>2, <2>1 DEF Single, NoneActive
  <2>3. NoneActive' /\ Goto(a, AfterStop(a))
    BY <1>7, <2>2 DEF FinishStop, NoneActive
  <2> QED BY <1>5, <2>3
<1> QED BY <1>6, <1>7

LEMMA TriggerOrderly ==
  ASSUME Inv, OneAtATime, orderly, NEW r \in Request, TriggerManual(r)
  PROVE  OneAtATime'
<1> USE DEF row, server
<1>1. r \in Activity /\ pc[r] = "trigger"
  BY DEF TriggerManual, Activity
<1>2. /\ up /\ NoCallback /\ Single /\ status = "stopped"
      /\ \A b \in Activity : b # r => pc[b] = "idle"
  BY <1>1, Alone DEF Stage
<1>3. \A b \in Activity : pc'[b] = "idle"
  BY <1>1, <1>2 DEF TriggerManual, Goto, Inv, TypeOK
<1>4. up' /\ status' = "stopped" /\ active' = active /\ running' = NoEngine
  BY <1>2 DEF TriggerManual
<1>5. CASE running = NoEngine
  <2>1. NoneActive' /\ NoCallback'
    BY <1>2, <1>4, <1>5 DEF TriggerManual, Single, NoneActive, NoCallback
  <2>2. Single' /\ Agree'
    BY <1>4, <2>1 DEF Single, Agree, NoneActive
  <2>3. Stage(r)'
    BY <1>1, <1>3 DEF Stage
  <2> QED BY <1>1, <1>4, <2>1, <2>2, <2>3, LoneStep DEF TriggerManual
<1>6. CASE running # NoEngine
  <2>1. active = {running} /\ running \notin triggered /\ running \in Engine
    BY <1>2, <1>6, LifecycleAssumption DEF Single, NoneActive, Inv, TypeOK, Engine, NoEngine
  <2>2. /\ cbPc' = [cbPc EXCEPT ![running] = "closing"]
        /\ victim' = [victim EXCEPT ![running] = running]
    BY <1>6, <2>1 DEF TriggerManual, Trip
  <2>3. /\ \A n \in Engine : cbPc'[n] # "none" => n = running
        /\ cbPc'[running] = "closing" /\ victim'[running] = running
    BY <1>2, <2>1, <2>2 DEF NoCallback, Inv, TypeOK
  <2>4. \A n \in Engine : cbPc'[n] # "none" => Halting(n)'
    BY <1>3, <1>4, <2>1, <2>3 DEF Halting
  <2>5. ~NoCallback' /\ ~Quiescent'
    BY <2>1, <2>3 DEF NoCallback, Quiescent
  <2>6. \A b \in Activity : Stage(b)'
    BY <1>3 DEF Stage
  <2> QED BY <1>3, <1>4, <2>4, <2>5, <2>6 DEF OneAtATime
<1> QED BY <1>5, <1>6

LEMMA CallbackOrderly ==
  ASSUME Inv, OneAtATime, orderly, NEW n \in Engine, CallbackStep(n)
  PROVE  OneAtATime'
<1> USE DEF row, server, registry, calls
<1>1. cbPc[n] # "none" /\ Halting(n)
  BY DEF CallbackStep, CallbackStops, CallbackReports, OneAtATime
<1>2. /\ UNCHANGED << up, pc, op, running >>
      /\ \A m \in Engine : m # n => cbPc'[m] = "none"
  BY <1>1 DEF CallbackStep, CallbackStops, CallbackReports, Halting, Inv, TypeOK
<1>3. \A b \in Activity : pc'[b] = "idle"
  BY <1>1, <1>2 DEF Halting
<1>4. \A b \in Activity : Stage(b)'
  BY <1>3 DEF Stage
<1>5. up'
  BY <1>1, <1>2 DEF OneAtATime, NoCallback
<1>6. active' = {} /\ running' = NoEngine /\ status' # "running"
  <2>1. CASE CallbackStops(n)
    BY <1>1, <2>1 DEF CallbackStops, Halting
  <2>2. CASE CallbackReports(n)
    BY <1>1, <2>2 DEF CallbackReports, Halting
  <2> QED BY <2>1, <2>2 DEF CallbackStep
<1>7. \A m \in Engine : cbPc'[m] # "none" => Halting(m)'
  BY <1>2, <1>3, <1>6 DEF Halting
<1>8. Single' /\ Agree'
  BY <1>6 DEF Single, NoneActive, Agree
<1> QED BY <1>3, <1>4, <1>5, <1>7, <1>8 DEF OneAtATime

LEMMA ServerOrderly ==
  ASSUME Inv, OneAtATime, orderly, LoseMemory \/ Restart \/ RecoverQuery
  PROVE  OneAtATime'
<1> USE DEF row, server, registry, engines
<1>1. Recovery \in Activity
  BY DEF Activity
<1>2. CASE LoseMemory
  <2>1. NoneActive' /\ NoCallback' /\ ~up' /\ \A b \in Activity : pc'[b] = "idle"
    BY <1>2 DEF LoseMemory, NoneActive, NoCallback
  <2>2. Single' /\ ~Quiescent' /\ \A b \in Activity : Stage(b)'
    BY <2>1 DEF Single, Quiescent, Stage
  <2>3. \A n \in Engine : cbPc'[n] # "none" => Halting(n)'
    BY <2>1 DEF NoCallback
  <2> QED BY <2>1, <2>2, <2>3 DEF OneAtATime
<1>3. CASE Restart
  <2>1. ~up /\ NoneActive /\ NoCallback /\ \A b \in Activity : pc[b] = "idle"
    BY <1>3 DEF Restart, OneAtATime, Inv, DownView
  <2>2. NoneActive' /\ NoCallback' /\ Single' /\ up'
    BY <1>3, <2>1 DEF Restart, NoneActive, NoCallback, Single
  <2>3. \A b \in Activity : pc'[b] = IF b = Recovery THEN "query" ELSE "idle"
    BY <1>3, <2>1 DEF Restart, Goto, Inv, TypeOK
  <2>4. ~Quiescent' /\ \A b \in Activity : Stage(b)'
    BY <1>1, <2>2, <2>3 DEF Quiescent, Stage
  <2>5. \A n \in Engine : cbPc'[n] # "none" => Halting(n)'
    BY <2>2 DEF NoCallback
  <2> QED BY <2>2, <2>3, <2>4, <2>5 DEF OneAtATime
<1>4. CASE RecoverQuery
  <2>1. up /\ NoCallback /\ Single /\ NoneActive /\ pc[Recovery] = "query"
    BY <1>1, <1>4, Alone DEF RecoverQuery, Stage
  <2>2. UNCHANGED << up, cbPc, running, active, triggered, status >>
    BY <1>4 DEF RecoverQuery
  <2>3. up' /\ NoCallback' /\ Single' /\ NoneActive'
    <3>1. Single' /\ NoneActive'
      BY <2>1, <2>2, SingleAgain
    <3> QED BY <2>1, <2>2, <3>1 DEF NoCallback
  <2> DEFINE l == IF status = "running" THEN "lockStart" ELSE "idle"
  <2>4. Goto(Recovery, l)
    BY <1>4 DEF RecoverQuery
  <2>5. pc'[Recovery] = l
    BY <1>1, <2>4 DEF Goto, Inv, TypeOK
  <2>6. Stage(Recovery)' /\ (l = "idle" => Agree')
    BY <2>2, <2>3, <2>5 DEF Stage, Agree, NoneActive
  <2> HIDE DEF l
  <2> QED BY <1>1, <2>1, <2>3, <2>4, <2>6, LoneStep
<1> QED BY <1>2, <1>3, <1>4

LEMMA QuietOrderly ==
  ASSUME Inv, OneAtATime, orderly,
         UNCHANGED << status, up, running, active, triggered, cbPc, victim, op, pc >>
  PROVE  OneAtATime'
BY DEF OneAtATime, NoCallback, Halting, Single, NoneActive, Stage, Quiescent, Agree

LEMMA OrderlyStep ==
  ASSUME Inv, OneAtATime, [Next]_vars
  PROVE  OneAtATime'
<1> SUFFICES ASSUME orderly' PROVE OneAtATime'
  BY DEF OneAtATime
<1>1. CASE UNCHANGED vars
  BY <1>1, QuietOrderly DEF vars, row, server, registry, engines, calls
<1>2. ASSUME NEW r \in Request, NEW o \in Ops, Begin(r, o) PROVE OneAtATime'
  BY <1>2, BeginOrderly
<1>3. ASSUME NEW a \in Activity, ActivityStep(a) PROVE OneAtATime'
  <2>1. orderly
    BY <1>3 DEF ActivityStep, RequestStep, LockStart, BuildEngine, BuildFails, Revert, LockStop,
                FinishStop, ReadRow, MarkRow, Settle, Erase, TriggerManual, Exit, LoseMemory,
                RecoverQuery, server
  <2>2. CASE \/ LockStart(a) \/ BuildEngine(a) \/ BuildFails(a) \/ Revert(a)
             \/ LockStop(a) \/ FinishStop(a)
    BY <2>1, <2>2, StartOrderly, StopOrderly
  <2>3. CASE a \in Request /\ RequestStep(a)
    BY <2>1, <2>3, RouteOrderly, TriggerOrderly, ServerOrderly DEF RequestStep, Exit
  <2>4. CASE RecoverQuery
    BY <2>1, <2>4, ServerOrderly
  <2> QED BY <1>3, <2>2, <2>3, <2>4 DEF ActivityStep
<1>4. ASSUME NEW a \in Activity, CallFails(a) \/ StopFails(a) PROVE OneAtATime'
  BY <1>4, CallFailsOrderly DEF StopFails
<1>5. ASSUME NEW n \in Engine,
             CallbackStep(n) \/ LimitTrips(n) \/ ScanBegins(n) \/ ScanEnds(n)
      PROVE  OneAtATime'
  <2>1. CASE CallbackStep(n)
    BY <2>1, CallbackOrderly DEF CallbackStep, CallbackStops, CallbackReports, server
  <2>2. CASE LimitTrips(n)
    BY <2>2 DEF LimitTrips
  <2>3. CASE ScanBegins(n) \/ ScanEnds(n)
    BY <2>3, QuietOrderly DEF ScanBegins, ScanEnds, row, server, registry, calls
  <2> QED BY <1>5, <2>1, <2>2, <2>3
<1>6. CASE Crash \/ Restart
  BY <1>6, ServerOrderly DEF Crash, Restart, LoseMemory
<1> QED BY <1>1, <1>2, <1>3, <1>4, <1>5, <1>6 DEF Next

\* To clients that wait for the answer, the status in the row says whether an engine
\* runs, whatever starts fail and whenever the server crashes and recovers.
THEOREM StatusTrue == Spec => []StatusAgrees
<1>1. Init => OneAtATime
  <2> SUFFICES ASSUME Init PROVE OneAtATime
    OBVIOUS
  <2>1. NoneActive /\ NoCallback /\ \A b \in Activity : pc[b] = "idle"
    BY DEF Init, NoneActive, NoCallback
  <2>2. Single /\ Agree /\ up /\ \A b \in Activity : Stage(b)
    BY <2>1 DEF Init, Single, Agree, NoneActive, Stage
  <2> QED BY <2>1, <2>2 DEF OneAtATime, NoCallback
<1>2. Inv /\ OneAtATime /\ [Next]_vars => OneAtATime'
  BY OrderlyStep
<1>3. OneAtATime => StatusAgrees
  BY DEF OneAtATime, StatusAgrees, Agree
<1> QED BY <1>1, <1>2, <1>3, AlwaysInv, PTL DEF Spec
=============================================================================
