------------------------- MODULE PositionRecordsProofs -------------------------
(***************************************************************************)
(* Theorems about PositionRecords, for every number of positions, handlers *)
(* and saves, and every scenario.                                          *)
(***************************************************************************)
EXTENDS PositionRecords, Sums

-----------------------------------------------------------------------------
(* Types *)

LEMMA EmptyRecords ==
  /\ NothingRead \in [trades : Nat, pnl : Int]
  /\ NothingToWrite \in [pos : Position \cup {NoPosition}, status : {"closed", "orphaned"}]
<1> QED BY DEF NothingRead, NothingToWrite

LEMMA TypeInit == Init => TypeOK
<1> SUFFICES ASSUME Init PROVE TypeOK
  OBVIOUS
<1>1. /\ hpc \in [Handler -> {"idle", "row", "read", "write", "rest"}]
      /\ hpos \in [Handler -> Position \cup {NoPosition}]
      /\ hread \in [Handler -> [trades : Nat, pnl : Int]]
      /\ save \in [Save -> Int \cup {NoSave}]
  BY EmptyRecords DEF Init, NoHandlers
<1>2. recWrite \in [pos : Position \cup {NoPosition}, status : {"closed", "orphaned"}]
  BY EmptyRecords DEF Init
<1>3. /\ mode \in {"simulation", "live"} /\ ops \in Scenarios
      /\ stopped \in BOOLEAN /\ config \in BOOLEAN
      /\ accounts \subseteq Position /\ dismissed \subseteq Position
      /\ registered \in BOOLEAN /\ isRunning \in BOOLEAN
  BY RecordsAssumption DEF Init
<1>4. /\ mem \in [Position -> {"none", "ACTIVE", "CLOSED", "gone"}]
      /\ row \in [Position -> RowStatus]
      /\ result \in [Position -> Result \cup {NoResult}]
      /\ opened \in [Position -> {"none", "insert", "rest", "done"}]
      /\ outcome \in [Position -> Result \cup {NoResult}]
  BY DEF Init, RowStatus
<1> QED
  BY <1>1, <1>2, <1>3, <1>4 DEF Init, TypeOK

\* The saves of the handlers keep their types.
LEMMA TypeSave ==
  TypeOK /\ PersistVirtualBalance({})
    => save' \in [Save -> Int \cup {NoSave}] /\ mishaps' \subseteq Mishap
<1> SUFFICES ASSUME TypeOK, PersistVirtualBalance({})
             PROVE  save' \in [Save -> Int \cup {NoSave}] /\ mishaps' \subseteq Mishap
  OBVIOUS
<1>1. CASE registered
  <2>1. PICK s \in Save : save' = [save EXCEPT ![s] = balance]
    BY <1>1, Zenon DEF PersistVirtualBalance
  <2>2. mishaps' = mishaps \cup ({} \cup When(SaveInFlight, "savesOverlapped"))
    BY <1>1, Zenon DEF PersistVirtualBalance, Blame
  <2>3. When(SaveInFlight, "savesOverlapped") \subseteq Mishap
    BY DEF When, Mishap
  <2> QED BY <2>1, <2>2, <2>3 DEF TypeOK
<1>2. CASE ~registered
  <2>1. UNCHANGED save /\ mishaps' = mishaps \cup {}
    BY <1>2, Zenon DEF PersistVirtualBalance, Blame
  <2> QED BY <2>1 DEF TypeOK, Mishap
<1> QED BY <1>1, <1>2

LEMMA TypeEngineStep == TypeOK /\ EngineStep => TypeOK'
<1> SUFFICES ASSUME TypeOK, EngineStep PROVE TypeOK'
  OBVIOUS
<1> USE RecordsAssumption DEF TypeOK, outsideEngine, handlers, tables, totals, history, stopVars, emgVars, recVars, Blame, When, RowStatus, Mishap,
      SaveInFlight, Active, NothingRead, NothingToWrite, Lands
<1>1. CASE BeginEntry
  BY <1>1 DEF BeginEntry
<1>2. CASE \E e \in entering : EntryFails(e)
  BY <1>2 DEF EntryFails
<1>3. CASE \E e \in entering, p \in Position : OpenPosition(p, e)
  BY <1>3 DEF OpenPosition
<1>4. CASE \E p \in Position : BeginClose(p)
  BY <1>4 DEF BeginClose
<1>5. CASE \E p \in Position : CloseFails(p)
  BY <1>5 DEF CloseFails
<1>6. CASE \E p \in Position, x \in Result, h \in Handler : ClosePosition(p, x, h)
  BY <1>6 DEF ClosePosition
<1>7. CASE \E p \in Position : RemoveAccount(p) \/ ExternalClose(p)
  <2>1. accounts' \subseteq accounts
    BY <1>7 DEF RemoveAccount, ExternalClose
  <2>2. UNCHANGED << outsideEngine, mem, balance, entering, exiting, handlers, outcome, mishaps >>
    BY ONLY <1>7, Zenon DEF RemoveAccount, ExternalClose
  <2> QED BY <2>1, <2>2
<1> QED BY <1>1, <1>2, <1>3, <1>4, <1>5, <1>6, <1>7 DEF EngineStep

LEMMA TypeHandlerStep == TypeOK /\ HandlerStep => TypeOK'
<1> SUFFICES ASSUME TypeOK, HandlerStep PROVE TypeOK'
  OBVIOUS
<1> USE RecordsAssumption DEF TypeOK, outsideHandlers, engineVars, tables, totals, stopVars, emgVars, recVars, Blame, When, RowStatus, Mishap,
      SaveInFlight, Active, NothingRead, NothingToWrite, Lands
<1>1. CASE \E s \in Save : SaveLands(s)
  BY <1>1 DEF SaveLands
<1>2. CASE \E s \in Save : SaveFails(s)
  BY <1>2 DEF SaveFails
<1>3. CASE \E p \in Position : InsertRow(p)
  BY <1>3 DEF InsertRow
<1>4. CASE \E p \in Position : FinishOpened(p)
  <2>1. save' \in [Save -> Int \cup {NoSave}] /\ mishaps' \subseteq Mishap
    BY <1>4, TypeSave DEF FinishOpened
  <2> QED BY <1>4, <2>1 DEF FinishOpened
<1>5. CASE \E p \in Position : OpenedFails(p)
  BY <1>5 DEF OpenedFails
<1>6. CASE \E h \in Handler : UpdateRow(h)
  BY <1>6, SMTT(30) DEF UpdateRow
<1>7. CASE \E h \in Handler : ReadTotals(h)
  BY <1>7 DEF ReadTotals
<1>8. CASE \E h \in Handler : WriteTotals(h)
  BY <1>8 DEF WriteTotals
<1>9. CASE \E h \in Handler : FinishClosed(h)
  <2>1. save' \in [Save -> Int \cup {NoSave}] /\ mishaps' \subseteq Mishap
    BY <1>9, TypeSave DEF FinishClosed
  <2> QED BY <1>9, <2>1 DEF FinishClosed, HandlerEnds
<1>10. CASE \E h \in Handler : ClosedFails(h)
  BY <1>10 DEF ClosedFails, HandlerEnds
<1> QED BY <1>1, <1>2, <1>3, <1>4, <1>5, <1>6, <1>7, <1>8, <1>9, <1>10 DEF HandlerStep

LEMMA TypeStopStep == TypeOK /\ StopStep => TypeOK'
<1> SUFFICES ASSUME TypeOK, StopStep PROVE TypeOK'
  OBVIOUS
<1> USE RecordsAssumption DEF TypeOK, outsideStop, handlers, totals, emgVars, recVars, Blame, When, RowStatus, Mishap,
      SaveInFlight, Active, NothingRead, NothingToWrite, Lands
<1>1. CASE StopBot
  <2>1. /\ stopPc' \in {"off", "asked", "persist", "mark"} /\ stopSave' \in Int
        /\ mishaps' \subseteq Mishap
    <3>1. CASE registered
      <4>1. /\ stopPc' = "persist" /\ stopSave' = balance
            /\ mishaps' = mishaps \cup When(SaveInFlight, "savesOverlapped")
        BY ONLY <1>1, <3>1, Zenon DEF StopBot, Blame
      <4> HIDE DEF SaveInFlight
      <4> QED BY <4>1
    <3>2. CASE ~registered
      <4>1. stopPc' = "off" /\ stopSave' = stopSave /\ mishaps' = mishaps
        BY ONLY <1>1, <3>2, Zenon DEF StopBot
      <4> HIDE DEF SaveInFlight
      <4> QED BY <4>1
    <3> QED BY <3>1, <3>2
  <2>2. UNCHANGED << outsideStop, stopped, registered, isRunning, row, saved, stopTodo >>
    BY ONLY <1>1, Zenon DEF StopBot
  <2> QED BY <2>1, <2>2
<1>2. CASE StopEnds
  <2>1. /\ stopPc' = "off" /\ isRunning' = FALSE /\ registered' = FALSE
        /\ UNCHANGED << outsideStop, stopped, row, saved, stopSave, stopTodo, mishaps >>
    BY ONLY <1>2, Zenon DEF StopEnds
  <2>2. /\ stopped' \in BOOLEAN /\ config' \in BOOLEAN
        /\ registered' \in BOOLEAN /\ isRunning' \in BOOLEAN
    BY <2>1, Zenon
  <2> QED BY <2>1, <2>2
<1>3. CASE StopFails
  BY <1>3 DEF StopFails
<1>4. CASE \E lands \in Lands : StopSaved(lands)
  BY <1>4 DEF StopSaved
<1>5. CASE \E p \in Position : MarkOrphan(p)
  BY <1>5 DEF MarkOrphan, Orphaned
<1>6. CASE RequestStop
  BY <1>6 DEF RequestStop
<1> QED BY <1>1, <1>2, <1>3, <1>4, <1>5, <1>6 DEF StopStep

LEMMA TypeEmergencyStep == TypeOK /\ EmergencyStep => TypeOK'
<1> SUFFICES ASSUME TypeOK, EmergencyStep PROVE TypeOK'
  OBVIOUS
<1> USE RecordsAssumption DEF TypeOK, outsideEmergency, handlers, totals, stopVars, recVars, Blame, When, RowStatus, Mishap,
      SaveInFlight, Active, NothingRead, NothingToWrite, Lands
<1>1. CASE Trigger
  BY <1>1 DEF Trigger, OnTrigger
<1>2. CASE MarkClosing
  BY <1>2 DEF MarkClosing
<1>3. CASE EmergencyStop
  <2>1. emgPc' \in {"off", "persist", "closing", "done"} /\ emgSave' \in Int
    <3>1. CASE registered /\ emgPc = "off"
      BY <1>3, <3>1 DEF EmergencyStop, OnTrigger
    <3>2. CASE ~(registered /\ emgPc = "off")
      BY <1>3, <3>2 DEF EmergencyStop
    <3> QED BY <3>1, <3>2
  <2>2. mishaps' \subseteq Mishap
    <3>1. CASE registered /\ emgPc = "off"
      <4>1. mishaps' = mishaps \cup ({"emergency"} \cup When(SaveInFlight, "savesOverlapped"))
        BY ONLY <1>3, <3>1, Zenon DEF EmergencyStop, OnTrigger, Blame
      <4> HIDE DEF SaveInFlight
      <4> QED BY <4>1
    <3>2. CASE ~(registered /\ emgPc = "off")
      BY <1>3, <3>2, Zenon DEF EmergencyStop
    <3> QED BY <3>1, <3>2
  <2>3. /\ registered' = FALSE /\ routePc' = "idle"
        /\ UNCHANGED << outsideEmergency, stopped, isRunning, mem, balance, row, saved, emgTodo >>
    BY ONLY <1>3, Zenon DEF EmergencyStop
  <2>4. /\ stopped' \in BOOLEAN /\ config' \in BOOLEAN
        /\ registered' \in BOOLEAN /\ isRunning' \in BOOLEAN
    BY <2>3, Zenon
  <2> QED BY <2>1, <2>2, <2>3, <2>4
<1>4. CASE \E lands \in Lands : EmergencyDone(lands)
  <2>1. stopped' \in BOOLEAN /\ emgPc' = "done" /\ isRunning' = FALSE
    BY ONLY <1>4, Zenon DEF EmergencyDone
  <2>2. UNCHANGED << outsideEmergency, registered, mem, balance, row, saved, emgSave, emgTodo,
                     routePc, mishaps >>
    BY ONLY <1>4, Zenon DEF EmergencyDone
  <2>3. /\ stopped' \in BOOLEAN /\ config' \in BOOLEAN
        /\ registered' \in BOOLEAN /\ isRunning' \in BOOLEAN
    BY <2>1, <2>2, Zenon
  <2> QED BY <2>1, <2>2, <2>3
<1>5. CASE \E lands \in Lands : EmergencySaved(lands)
  BY <1>5 DEF EmergencySaved
<1>6. CASE \E p \in Position : EmergencyClose(p)
  <2>1. /\ emgTodo' \subseteq Position /\ balance' \in Int
        /\ mem' \in [Position -> {"none", "ACTIVE", "CLOSED", "gone"}]
    BY <1>6 DEF EmergencyClose
  <2>2. UNCHANGED << outsideEmergency, stopped, registered, isRunning, row, saved, emgPc,
                     emgSave, routePc, mishaps >>
    BY ONLY <1>6, Zenon DEF EmergencyClose
  <2>3. /\ stopped' \in BOOLEAN /\ config' \in BOOLEAN
        /\ registered' \in BOOLEAN /\ isRunning' \in BOOLEAN
    BY <2>2, Zenon
  <2> QED BY <2>1, <2>2, <2>3
<1> QED
  <2> HIDE DEF TypeOK
  <2> QED BY <1>1, <1>2, <1>3, <1>4, <1>5, <1>6 DEF EmergencyStep

LEMMA TypeSessionStep == TypeOK /\ SessionStep => TypeOK'
<1> SUFFICES ASSUME TypeOK, SessionStep PROVE TypeOK'
  OBVIOUS
<1> USE RecordsAssumption DEF TypeOK, outsideSessions, engineVars, tables, handlers, totals, stopVars, emgVars, recVars, history, Blame, When, RowStatus, Mishap,
      SaveInFlight, Active, NothingRead, NothingToWrite, Lands
<1>1. CASE StartBot
  <2>1. /\ registered' = TRUE /\ isRunning' = TRUE /\ stopped' = FALSE
        /\ sessions' = sessions + 1 /\ balance' = saved /\ emgPc' = "off"
        /\ entering' \subseteq {"now", "before"}
    BY ONLY <1>1 DEF StartBot
  <2>2. mem' \in [Position -> {"none", "ACTIVE", "CLOSED", "gone"}]
    BY <1>1 DEF StartBot, Forget
  <2>3. mishaps' \subseteq Mishap
    <3>1. mishaps' = mishaps \cup When(SaveInFlight, "savesOverlapped")
      BY ONLY <1>1, Zenon DEF StartBot, Blame
    <3> HIDE DEF SaveInFlight
    <3> QED BY <3>1
  <2>4. UNCHANGED << outsideSessions, config, exiting, handlers, stopVars, emgSave, emgTodo,
                     routePc, recVars >>
    BY ONLY <1>1, Zenon DEF StartBot
  <2>5. /\ stopped' \in BOOLEAN /\ config' \in BOOLEAN
        /\ registered' \in BOOLEAN /\ isRunning' \in BOOLEAN
    BY <2>1, <2>4, Zenon
  <2> QED BY <2>1, <2>2, <2>3, <2>4, <2>5
<1>2. CASE Crash
  <2>1. /\ hread' \in [Handler -> [trades : Nat, pnl : Int]]
        /\ recWrite' \in [pos : Position \cup {NoPosition}, status : {"closed", "orphaned"}]
    BY <1>2, EmptyRecords DEF Crash
  <2>2. /\ opened' \in [Position -> {"none", "insert", "rest", "done"}]
        /\ mem' \in [Position -> {"none", "ACTIVE", "CLOSED", "gone"}]
        /\ hpc' \in [Handler -> {"idle", "row", "read", "write", "rest"}]
        /\ hpos' \in [Handler -> Position \cup {NoPosition}]
        /\ save' \in [Save -> Int \cup {NoSave}]
    BY <1>2 DEF Crash, Forget
  <2> QED BY <1>2, <2>1, <2>2 DEF Crash
<1>3. CASE RecoveryFails
  BY <1>3 DEF RecoveryFails
<1>4. CASE StartRefused
  <2>1. stopped' = FALSE /\ sessions' = sessions + 1
    BY ONLY <1>4 DEF StartRefused
  <2>2. UNCHANGED << outsideSessions, config, registered, isRunning, mem, balance, entering,
                     exiting, handlers, stopVars, emgVars, recVars, mishaps >>
    BY ONLY <1>4, Zenon DEF StartRefused
  <2>3. /\ stopped' \in BOOLEAN /\ config' \in BOOLEAN
        /\ registered' \in BOOLEAN /\ isRunning' \in BOOLEAN
    BY <2>1, <2>2, Zenon
  <2> QED BY <2>1, <2>2, <2>3
<1> QED BY <1>1, <1>2, <1>3, <1>4 DEF SessionStep

LEMMA TypeConfigStep == TypeOK /\ ConfigStep => TypeOK'
<1> SUFFICES ASSUME TypeOK, ConfigStep PROVE TypeOK'
  OBVIOUS
<1> USE RecordsAssumption DEF TypeOK, outsideConfig, engineVars, handlers, totals, stopVars, emgVars, recVars, history, Blame, When, RowStatus, Mishap,
      SaveInFlight, Active, NothingRead, NothingToWrite, Lands
<1>1. CASE ConfigRead
  BY <1>1 DEF ConfigRead
<1>2. CASE ConfigWrite
  <2>1. /\ config' = FALSE /\ trades' = 0 /\ pnl' = 0 /\ saved' = 0
        /\ dismissed' \subseteq Position
    BY ONLY <1>2 DEF ConfigWrite, Reported
  <2>2. mishaps' \subseteq Mishap
    <3>1. mishaps' = mishaps \cup (When(\E h \in Handler : hpc[h] = "write", "overlapped")
                                  \cup When(SaveInFlight, "savesOverlapped")
                                  \cup When(registered, "reconfigured"))
      BY ONLY <1>2, Zenon DEF ConfigWrite, Blame
    <3> HIDE DEF SaveInFlight
    <3> QED BY <3>1
  <2>3. UNCHANGED outsideConfig
    BY ONLY <1>2, Zenon DEF ConfigWrite
  <2>4. /\ stopped' \in BOOLEAN /\ config' \in BOOLEAN
        /\ registered' \in BOOLEAN /\ isRunning' \in BOOLEAN
    BY <2>1, <2>3, Zenon
  <2> QED BY <2>1, <2>2, <2>3, <2>4
<1> QED BY <1>1, <1>2 DEF ConfigStep

LEMMA TypeReconcileStep == TypeOK /\ ReconcileStep => TypeOK'
<1> SUFFICES ASSUME TypeOK, ReconcileStep PROVE TypeOK'
  OBVIOUS
<1> USE RecordsAssumption DEF TypeOK, outsideReconcile, engineVars, handlers, totals, stopVars, emgVars, history, Blame, When, RowStatus, Mishap,
      SaveInFlight, Active, NothingRead, NothingToWrite, Lands
<1>1. CASE BeginReconcile
  BY <1>1 DEF BeginReconcile
<1>2. CASE EndReconcile
  BY <1>2 DEF EndReconcile
<1>3. CASE \E ok \in Lands : LookUp(ok)
  BY <1>3 DEF LookUp
<1>4. CASE \E ok \in Lands : WriteRow(ok)
  BY <1>4 DEF WriteRow
<1>5. CASE \E p \in Position : JudgeRow(p)
  BY <1>5 DEF JudgeRow
<1> QED BY <1>1, <1>2, <1>3, <1>4, <1>5, ZenonT(60) DEF ReconcileStep

LEMMA TypeStep == TypeOK /\ [Next]_vars => TypeOK'
<1>1. TypeOK /\ UNCHANGED vars => TypeOK'
  BY DEF TypeOK, vars, engineVars, tables, handlers, stopVars, emgVars, recVars, history
<1> QED BY <1>1, TypeEngineStep, TypeHandlerStep, TypeStopStep, TypeEmergencyStep, TypeSessionStep,
           TypeConfigStep, TypeReconcileStep DEF Next

\* The variables keep their types.
THEOREM TypeCorrect == Spec => []TypeOK
<1> QED BY TypeInit, TypeStep, PTL DEF Spec

-----------------------------------------------------------------------------
(* The inductive invariant *)

\* A row appears after its position; what the engine has reported closed is closed.
RowsFollow ==
  \A p \in Position :
    /\ mem[p] = "none" <=> opened[p] = "none"
    /\ opened[p] \in {"none", "insert"} => row[p] = "none"
    /\ outcome[p] # NoResult => mem[p] = "CLOSED"

\* A handler works on a position whose result has been reported.
HandlersHaveResults ==
  \A h \in Handler :
    hpc[h] # "idle" => hpos[h] \in Position /\ outcome[hpos[h]] # NoResult

\* The rows a reconciliation works on exist.  It takes a position to be missing only when
\* its account has gone, for good, and writes no row that is tracked and on the chain.
ReconcileView ==
  /\ \A p \in recRows \cup recMissing : row[p] # "none"
  /\ \A p \in recMissing : p \notin accounts
  /\ recPc = "write" =>
       /\ recWrite.pos \in Position /\ row[recWrite.pos] # "none"
       /\ recWrite.pos \notin accounts \/ ~registered \/ mem[recWrite.pos] # "ACTIVE"

RecordsInv == TypeOK /\ RowsFollow /\ HandlersHaveResults /\ ReconcileView

LEMMA RecordsInit == Init => RecordsInv
<1> SUFFICES ASSUME Init PROVE RecordsInv
  OBVIOUS
<1>1. RowsFollow /\ HandlersHaveResults /\ ReconcileView
  BY DEF Init, NoHandlers, RowsFollow, HandlersHaveResults, ReconcileView
<1> QED BY <1>1, TypeInit DEF RecordsInv

LEMMA RowsFollowEngine == RecordsInv /\ EngineStep => RowsFollow'
<1> SUFFICES ASSUME RecordsInv, EngineStep PROVE RowsFollow'
  OBVIOUS
<1> USE RecordsAssumption DEF RecordsInv, TypeOK, RowsFollow,
      outsideEngine, handlers, tables, totals, history, stopVars, emgVars, recVars
<1>1. CASE BeginEntry
  BY <1>1 DEF BeginEntry
<1>2. CASE \E e \in entering : EntryFails(e)
  BY <1>2 DEF EntryFails
<1>3. CASE \E e \in entering, p \in Position : OpenPosition(p, e)
  BY <1>3 DEF OpenPosition
<1>4. CASE \E p \in Position : BeginClose(p)
  BY <1>4 DEF BeginClose
<1>5. CASE \E p \in Position : CloseFails(p)
  BY <1>5 DEF CloseFails
<1>6. CASE \E p \in Position, x \in Result, h \in Handler : ClosePosition(p, x, h)
  BY <1>6 DEF ClosePosition
<1>7. CASE \E p \in Position : RemoveAccount(p) \/ ExternalClose(p)
  BY <1>7 DEF RemoveAccount, ExternalClose
<1> QED BY <1>1, <1>2, <1>3, <1>4, <1>5, <1>6, <1>7 DEF EngineStep

LEMMA RowsFollowHandler == RecordsInv /\ HandlerStep => RowsFollow'
<1> SUFFICES ASSUME RecordsInv, HandlerStep PROVE RowsFollow'
  OBVIOUS
<1> USE RecordsAssumption DEF RecordsInv, TypeOK, RowsFollow,
      outsideHandlers, engineVars, tables, totals, stopVars, emgVars, recVars
<1>1. CASE \E s \in Save : SaveLands(s)
  BY <1>1 DEF SaveLands
<1>2. CASE \E s \in Save : SaveFails(s)
  BY <1>2 DEF SaveFails
<1>3. CASE \E p \in Position : InsertRow(p)
  BY <1>3 DEF InsertRow
<1>4. CASE \E p \in Position : FinishOpened(p)
  BY <1>4 DEF FinishOpened
<1>5. CASE \E p \in Position : OpenedFails(p)
  BY <1>5 DEF OpenedFails
<1>6. CASE \E h \in Handler : UpdateRow(h)
  BY <1>6 DEF UpdateRow
<1>7. CASE \E h \in Handler : ReadTotals(h)
  BY <1>7 DEF ReadTotals
<1>8. CASE \E h \in Handler : WriteTotals(h)
  BY <1>8 DEF WriteTotals
<1>9. CASE \E h \in Handler : FinishClosed(h)
  BY <1>9 DEF FinishClosed, HandlerEnds
<1>10. CASE \E h \in Handler : ClosedFails(h)
  BY <1>10 DEF ClosedFails, HandlerEnds
<1> QED BY <1>1, <1>2, <1>3, <1>4, <1>5, <1>6, <1>7, <1>8, <1>9, <1>10 DEF HandlerStep

LEMMA RowsFollowStop == RecordsInv /\ StopStep => RowsFollow'
<1> SUFFICES ASSUME RecordsInv, StopStep PROVE RowsFollow'
  OBVIOUS
<1> USE RecordsAssumption DEF RecordsInv, TypeOK, RowsFollow,
      outsideStop, handlers, totals, emgVars, recVars
<1>1. CASE StopBot
  BY <1>1 DEF StopBot
<1>2. CASE StopEnds
  BY <1>2 DEF StopEnds
<1>3. CASE StopFails
  BY <1>3 DEF StopFails
<1>4. CASE \E lands \in Lands : StopSaved(lands)
  BY <1>4 DEF StopSaved
<1>5. CASE \E p \in Position : MarkOrphan(p)
  BY <1>5 DEF MarkOrphan, Orphaned
<1>6. CASE RequestStop
  BY <1>6 DEF RequestStop
<1> QED BY <1>1, <1>2, <1>3, <1>4, <1>5, <1>6 DEF StopStep

LEMMA RowsFollowEmergency == RecordsInv /\ EmergencyStep => RowsFollow'
<1> SUFFICES ASSUME RecordsInv, EmergencyStep PROVE RowsFollow'
  OBVIOUS
<1> USE RecordsAssumption DEF RecordsInv, TypeOK, RowsFollow,
      outsideEmergency, handlers, totals, stopVars, recVars
<1>1. CASE Trigger
  BY <1>1 DEF Trigger
<1>2. CASE MarkClosing
  BY <1>2 DEF MarkClosing
<1>3. CASE EmergencyStop
  BY <1>3 DEF EmergencyStop
<1>4. CASE \E lands \in Lands : EmergencyDone(lands)
  BY <1>4 DEF EmergencyDone
<1>5. CASE \E lands \in Lands : EmergencySaved(lands)
  BY <1>5 DEF EmergencySaved
<1>6. CASE \E p \in Position : EmergencyClose(p)
  BY <1>6 DEF EmergencyClose
<1> QED BY <1>1, <1>2, <1>3, <1>4, <1>5, <1>6 DEF EmergencyStep

LEMMA RowsFollowSession == RecordsInv /\ SessionStep => RowsFollow'
<1> SUFFICES ASSUME RecordsInv, SessionStep PROVE RowsFollow'
  OBVIOUS
<1> USE RecordsAssumption DEF RecordsInv, TypeOK, RowsFollow,
      outsideSessions, engineVars, tables, handlers, totals, stopVars, emgVars, recVars, history
<1>1. CASE StartBot
  BY <1>1 DEF StartBot, Forget
<1>2. CASE Crash
  BY <1>2 DEF Crash, Forget
<1>3. CASE RecoveryFails
  BY <1>3 DEF RecoveryFails
<1>4. CASE StartRefused
  BY <1>4 DEF StartRefused
<1> QED BY <1>1, <1>2, <1>3, <1>4 DEF SessionStep

LEMMA RowsFollowConfig == RecordsInv /\ ConfigStep => RowsFollow'
<1> SUFFICES ASSUME RecordsInv, ConfigStep PROVE RowsFollow'
  OBVIOUS
<1> USE RecordsAssumption DEF RecordsInv, TypeOK, RowsFollow,
      outsideConfig, engineVars, handlers, totals, stopVars, emgVars, recVars, history
<1>1. CASE ConfigRead
  BY <1>1 DEF ConfigRead
<1>2. CASE ConfigWrite
  BY <1>2 DEF ConfigWrite
<1> QED BY <1>1, <1>2 DEF ConfigStep

LEMMA RowsFollowReconcile == RecordsInv /\ ReconcileStep => RowsFollow'
<1> SUFFICES ASSUME RecordsInv, ReconcileStep PROVE RowsFollow'
  OBVIOUS
<1> USE RecordsAssumption DEF RecordsInv, TypeOK, RowsFollow,
      outsideReconcile, engineVars, handlers, totals, stopVars, emgVars, history
<1>1. CASE BeginReconcile
  BY <1>1 DEF BeginReconcile
<1>2. CASE EndReconcile
  BY <1>2 DEF EndReconcile
<1>3. CASE \E ok \in Lands : LookUp(ok)
  BY <1>3 DEF LookUp
<1>4. CASE \E ok \in Lands : WriteRow(ok)
  <2>1. PICK ok \in Lands : WriteRow(ok)
    BY <1>4
  <2>2. recWrite.pos \in Position /\ row[recWrite.pos] # "none"
    BY <2>1 DEF WriteRow, ReconcileView
  <2>3. \A q \in Position : row[q] = "none" => row'[q] = "none"
    BY <2>1, <2>2 DEF WriteRow
  <2> QED BY <2>1, <2>3 DEF WriteRow
<1>5. CASE \E p \in Position : JudgeRow(p)
  BY <1>5 DEF JudgeRow
<1> QED BY <1>1, <1>2, <1>3, <1>4, <1>5 DEF ReconcileStep

LEMMA HandlersHaveResultsEngine == RecordsInv /\ EngineStep => HandlersHaveResults'
<1> SUFFICES ASSUME RecordsInv, EngineStep PROVE HandlersHaveResults'
  OBVIOUS
<1> USE RecordsAssumption DEF RecordsInv, TypeOK, HandlersHaveResults,
      outsideEngine, handlers, tables, totals, history, stopVars, emgVars, recVars
<1>1. CASE BeginEntry
  BY <1>1 DEF BeginEntry
<1>2. CASE \E e \in entering : EntryFails(e)
  BY <1>2 DEF EntryFails
<1>3. CASE \E e \in entering, p \in Position : OpenPosition(p, e)
  BY <1>3 DEF OpenPosition
<1>4. CASE \E p \in Position : BeginClose(p)
  BY <1>4 DEF BeginClose
<1>5. CASE \E p \in Position : CloseFails(p)
  BY <1>5 DEF CloseFails
<1>6. CASE \E p \in Position, x \in Result, h \in Handler : ClosePosition(p, x, h)
  BY <1>6 DEF ClosePosition
<1>7. CASE \E p \in Position : RemoveAccount(p) \/ ExternalClose(p)
  BY <1>7 DEF RemoveAccount, ExternalClose
<1> QED BY <1>1, <1>2, <1>3, <1>4, <1>5, <1>6, <1>7 DEF EngineStep

LEMMA HandlersHaveResultsHandler == RecordsInv /\ HandlerStep => HandlersHaveResults'
<1> SUFFICES ASSUME RecordsInv, HandlerStep PROVE HandlersHaveResults'
  OBVIOUS
<1> USE RecordsAssumption DEF RecordsInv, TypeOK, HandlersHaveResults,
      outsideHandlers, engineVars, tables, totals, stopVars, emgVars, recVars
<1>1. CASE \E s \in Save : SaveLands(s)
  BY <1>1 DEF SaveLands
<1>2. CASE \E s \in Save : SaveFails(s)
  BY <1>2 DEF SaveFails
<1>3. CASE \E p \in Position : InsertRow(p)
  BY <1>3 DEF InsertRow
<1>4. CASE \E p \in Position : FinishOpened(p)
  BY <1>4 DEF FinishOpened
<1>5. CASE \E p \in Position : OpenedFails(p)
  BY <1>5 DEF OpenedFails
<1>6. CASE \E h \in Handler : UpdateRow(h)
  BY <1>6 DEF UpdateRow
<1>7. CASE \E h \in Handler : ReadTotals(h)
  BY <1>7 DEF ReadTotals
<1>8. CASE \E h \in Handler : WriteTotals(h)
  BY <1>8 DEF WriteTotals
<1>9. CASE \E h \in Handler : FinishClosed(h)
  BY <1>9 DEF FinishClosed, HandlerEnds
<1>10. CASE \E h \in Handler : ClosedFails(h)
  BY <1>10 DEF ClosedFails, HandlerEnds
<1> QED BY <1>1, <1>2, <1>3, <1>4, <1>5, <1>6, <1>7, <1>8, <1>9, <1>10 DEF HandlerStep

LEMMA HandlersHaveResultsStop == RecordsInv /\ StopStep => HandlersHaveResults'
<1> SUFFICES ASSUME RecordsInv, StopStep PROVE HandlersHaveResults'
  OBVIOUS
<1> USE RecordsAssumption DEF RecordsInv, TypeOK, HandlersHaveResults,
      outsideStop, handlers, totals, emgVars, recVars
<1>1. CASE StopBot
  BY <1>1 DEF StopBot
<1>2. CASE StopEnds
  BY <1>2 DEF StopEnds
<1>3. CASE StopFails
  BY <1>3 DEF StopFails
<1>4. CASE \E lands \in Lands : StopSaved(lands)
  BY <1>4 DEF StopSaved
<1>5. CASE \E p \in Position : MarkOrphan(p)
  BY <1>5 DEF MarkOrphan, Orphaned
<1>6. CASE RequestStop
  BY <1>6 DEF RequestStop
<1> QED BY <1>1, <1>2, <1>3, <1>4, <1>5, <1>6 DEF StopStep

LEMMA HandlersHaveResultsEmergency == RecordsInv /\ EmergencyStep => HandlersHaveResults'
<1> SUFFICES ASSUME RecordsInv, EmergencyStep PROVE HandlersHaveResults'
  OBVIOUS
<1> USE RecordsAssumption DEF RecordsInv, TypeOK, HandlersHaveResults,
      outsideEmergency, handlers, totals, stopVars, recVars
<1>1. CASE Trigger
  BY <1>1 DEF Trigger
<1>2. CASE MarkClosing
  BY <1>2 DEF MarkClosing
<1>3. CASE EmergencyStop
  BY <1>3 DEF EmergencyStop
<1>4. CASE \E lands \in Lands : EmergencyDone(lands)
  BY <1>4 DEF EmergencyDone
<1>5. CASE \E lands \in Lands : EmergencySaved(lands)
  BY <1>5 DEF EmergencySaved
<1>6. CASE \E p \in Position : EmergencyClose(p)
  BY <1>6 DEF EmergencyClose
<1> QED BY <1>1, <1>2, <1>3, <1>4, <1>5, <1>6 DEF EmergencyStep

LEMMA HandlersHaveResultsSession == RecordsInv /\ SessionStep => HandlersHaveResults'
<1> SUFFICES ASSUME RecordsInv, SessionStep PROVE HandlersHaveResults'
  OBVIOUS
<1> USE RecordsAssumption DEF RecordsInv, TypeOK, HandlersHaveResults,
      outsideSessions, engineVars, tables, handlers, totals, stopVars, emgVars, recVars, history
<1>1. CASE StartBot
  BY <1>1 DEF StartBot, Forget
<1>2. CASE Crash
  BY <1>2 DEF Crash, Forget
<1>3. CASE RecoveryFails
  BY <1>3 DEF RecoveryFails
<1>4. CASE StartRefused
  BY <1>4 DEF StartRefused
<1> QED BY <1>1, <1>2, <1>3, <1>4 DEF SessionStep

LEMMA HandlersHaveResultsConfig == RecordsInv /\ ConfigStep => HandlersHaveResults'
<1> SUFFICES ASSUME RecordsInv, ConfigStep PROVE HandlersHaveResults'
  OBVIOUS
<1> USE RecordsAssumption DEF RecordsInv, TypeOK, HandlersHaveResults,
      outsideConfig, engineVars, handlers, totals, stopVars, emgVars, recVars, history
<1>1. CASE ConfigRead
  BY <1>1 DEF ConfigRead
<1>2. CASE ConfigWrite
  BY <1>2 DEF ConfigWrite
<1> QED BY <1>1, <1>2 DEF ConfigStep

LEMMA HandlersHaveResultsReconcile == RecordsInv /\ ReconcileStep => HandlersHaveResults'
<1> SUFFICES ASSUME RecordsInv, ReconcileStep PROVE HandlersHaveResults'
  OBVIOUS
<1> USE RecordsAssumption DEF RecordsInv, TypeOK, HandlersHaveResults,
      outsideReconcile, engineVars, handlers, totals, stopVars, emgVars, history
<1>1. CASE BeginReconcile
  BY <1>1 DEF BeginReconcile
<1>2. CASE EndReconcile
  BY <1>2 DEF EndReconcile
<1>3. CASE \E ok \in Lands : LookUp(ok)
  BY <1>3 DEF LookUp
<1>4. CASE \E ok \in Lands : WriteRow(ok)
  BY <1>4 DEF WriteRow
<1>5. CASE \E p \in Position : JudgeRow(p)
  BY <1>5 DEF JudgeRow
<1> QED BY <1>1, <1>2, <1>3, <1>4, <1>5 DEF ReconcileStep

LEMMA ReconcileViewEngine == RecordsInv /\ EngineStep => ReconcileView'
<1> SUFFICES ASSUME RecordsInv, EngineStep PROVE ReconcileView'
  OBVIOUS
<1> USE RecordsAssumption DEF RecordsInv, TypeOK, ReconcileView, RowsFollow,
      outsideEngine, handlers, tables, totals, history, stopVars, emgVars, recVars
<1>1. CASE BeginEntry
  BY <1>1 DEF BeginEntry
<1>2. CASE \E e \in entering : EntryFails(e)
  BY <1>2 DEF EntryFails
<1>3. CASE \E e \in entering, p \in Position : OpenPosition(p, e)
  BY <1>3 DEF OpenPosition
<1>4. CASE \E p \in Position : BeginClose(p)
  BY <1>4 DEF BeginClose
<1>5. CASE \E p \in Position : CloseFails(p)
  BY <1>5 DEF CloseFails
<1>6. CASE \E p \in Position, x \in Result, h \in Handler : ClosePosition(p, x, h)
  BY <1>6 DEF ClosePosition
<1>7. CASE \E p \in Position : RemoveAccount(p) \/ ExternalClose(p)
  BY <1>7 DEF RemoveAccount, ExternalClose
<1> QED BY <1>1, <1>2, <1>3, <1>4, <1>5, <1>6, <1>7 DEF EngineStep

LEMMA ReconcileViewHandler == RecordsInv /\ HandlerStep => ReconcileView'
<1> SUFFICES ASSUME RecordsInv, HandlerStep PROVE ReconcileView'
  OBVIOUS
<1> USE RecordsAssumption DEF RecordsInv, TypeOK, ReconcileView, RowsFollow,
      outsideHandlers, engineVars, tables, totals, stopVars, emgVars, recVars
<1>1. CASE \E s \in Save : SaveLands(s)
  BY <1>1 DEF SaveLands
<1>2. CASE \E s \in Save : SaveFails(s)
  BY <1>2 DEF SaveFails
<1>3. CASE \E p \in Position : InsertRow(p)
  BY <1>3 DEF InsertRow
<1>4. CASE \E p \in Position : FinishOpened(p)
  BY <1>4 DEF FinishOpened
<1>5. CASE \E p \in Position : OpenedFails(p)
  BY <1>5 DEF OpenedFails
<1>6. CASE \E h \in Handler : UpdateRow(h)
  BY <1>6 DEF UpdateRow
<1>7. CASE \E h \in Handler : ReadTotals(h)
  BY <1>7 DEF ReadTotals
<1>8. CASE \E h \in Handler : WriteTotals(h)
  BY <1>8 DEF WriteTotals
<1>9. CASE \E h \in Handler : FinishClosed(h)
  BY <1>9 DEF FinishClosed, HandlerEnds
<1>10. CASE \E h \in Handler : ClosedFails(h)
  BY <1>10 DEF ClosedFails, HandlerEnds
<1> QED BY <1>1, <1>2, <1>3, <1>4, <1>5, <1>6, <1>7, <1>8, <1>9, <1>10 DEF HandlerStep

LEMMA ReconcileViewStop == RecordsInv /\ StopStep => ReconcileView'
<1> SUFFICES ASSUME RecordsInv, StopStep PROVE ReconcileView'
  OBVIOUS
<1> USE RecordsAssumption DEF RecordsInv, TypeOK, ReconcileView, RowsFollow,
      outsideStop, handlers, totals, emgVars, recVars
<1>1. CASE StopBot
  BY <1>1 DEF StopBot
<1>2. CASE StopEnds
  BY <1>2 DEF StopEnds
<1>3. CASE StopFails
  BY <1>3 DEF StopFails
<1>4. CASE \E lands \in Lands : StopSaved(lands)
  BY <1>4 DEF StopSaved
<1>5. CASE \E p \in Position : MarkOrphan(p)
  BY <1>5 DEF MarkOrphan, Orphaned
<1>6. CASE RequestStop
  BY <1>6 DEF RequestStop
<1> QED BY <1>1, <1>2, <1>3, <1>4, <1>5, <1>6 DEF StopStep

LEMMA ReconcileViewEmergency == RecordsInv /\ EmergencyStep => ReconcileView'
<1> SUFFICES ASSUME RecordsInv, EmergencyStep PROVE ReconcileView'
  OBVIOUS
<1> USE RecordsAssumption DEF RecordsInv, TypeOK, ReconcileView, RowsFollow,
      outsideEmergency, handlers, totals, stopVars, recVars
<1>1. CASE Trigger
  BY <1>1 DEF Trigger
<1>2. CASE MarkClosing
  BY <1>2 DEF MarkClosing
<1>3. CASE EmergencyStop
  BY <1>3 DEF EmergencyStop
<1>4. CASE \E lands \in Lands : EmergencyDone(lands)
  BY <1>4 DEF EmergencyDone
<1>5. CASE \E lands \in Lands : EmergencySaved(lands)
  BY <1>5 DEF EmergencySaved
<1>6. CASE \E p \in Position : EmergencyClose(p)
  BY <1>6 DEF EmergencyClose
<1> QED BY <1>1, <1>2, <1>3, <1>4, <1>5, <1>6 DEF EmergencyStep

LEMMA ReconcileViewSession == RecordsInv /\ SessionStep => ReconcileView'
<1> SUFFICES ASSUME RecordsInv, SessionStep PROVE ReconcileView'
  OBVIOUS
<1> USE RecordsAssumption DEF RecordsInv, TypeOK, ReconcileView, RowsFollow,
      outsideSessions, engineVars, tables, handlers, totals, stopVars, emgVars, recVars, history
<1>1. CASE StartBot
  BY <1>1 DEF StartBot, Forget
<1>2. CASE Crash
  BY <1>2 DEF Crash, Forget, NothingToWrite
<1>3. CASE RecoveryFails
  BY <1>3 DEF RecoveryFails
<1>4. CASE StartRefused
  BY <1>4 DEF StartRefused
<1> QED BY <1>1, <1>2, <1>3, <1>4 DEF SessionStep

LEMMA ReconcileViewConfig == RecordsInv /\ ConfigStep => ReconcileView'
<1> SUFFICES ASSUME RecordsInv, ConfigStep PROVE ReconcileView'
  OBVIOUS
<1> USE RecordsAssumption DEF RecordsInv, TypeOK, ReconcileView, RowsFollow,
      outsideConfig, engineVars, handlers, totals, stopVars, emgVars, recVars, history
<1>1. CASE ConfigRead
  BY <1>1 DEF ConfigRead
<1>2. CASE ConfigWrite
  BY <1>2 DEF ConfigWrite
<1> QED BY <1>1, <1>2 DEF ConfigStep

LEMMA ReconcileViewReconcile == RecordsInv /\ ReconcileStep => ReconcileView'
<1> SUFFICES ASSUME RecordsInv, ReconcileStep PROVE ReconcileView'
  OBVIOUS
<1> USE RecordsAssumption DEF RecordsInv, TypeOK, ReconcileView, RowsFollow,
      outsideReconcile, engineVars, handlers, totals, stopVars, emgVars, history
<1>1. CASE BeginReconcile
  BY <1>1 DEF BeginReconcile
<1>2. CASE EndReconcile
  BY <1>2 DEF EndReconcile
<1>3. CASE \E ok \in Lands : LookUp(ok)
  BY <1>3 DEF LookUp, OnChain
<1>4. CASE \E ok \in Lands : WriteRow(ok)
  BY <1>4 DEF WriteRow, NothingToWrite
<1>5. CASE \E p \in Position : JudgeRow(p)
  BY <1>5 DEF JudgeRow, Tracked
<1> QED BY <1>1, <1>2, <1>3, <1>4, <1>5 DEF ReconcileStep

LEMMA RecordsStep == RecordsInv /\ [Next]_vars => RecordsInv'
<1> SUFFICES ASSUME RecordsInv, [Next]_vars PROVE RecordsInv'
  OBVIOUS
<1>1. TypeOK'
  BY TypeStep DEF RecordsInv
<1>2. CASE Next
  <2>1. RowsFollow'
    BY <1>2, RowsFollowEngine, RowsFollowHandler, RowsFollowStop, RowsFollowEmergency, RowsFollowSession,
       RowsFollowConfig, RowsFollowReconcile DEF Next
  <2>2. HandlersHaveResults'
    BY <1>2, HandlersHaveResultsEngine, HandlersHaveResultsHandler, HandlersHaveResultsStop, HandlersHaveResultsEmergency, HandlersHaveResultsSession,
       HandlersHaveResultsConfig, HandlersHaveResultsReconcile DEF Next
  <2>3. ReconcileView'
    BY <1>2, ReconcileViewEngine, ReconcileViewHandler, ReconcileViewStop, ReconcileViewEmergency, ReconcileViewSession,
       ReconcileViewConfig, ReconcileViewReconcile DEF Next
  <2> QED BY <1>1, <2>1, <2>2, <2>3 DEF RecordsInv
<1>3. CASE UNCHANGED vars
  BY <1>1, <1>3 DEF RecordsInv, RowsFollow, HandlersHaveResults, ReconcileView, vars, engineVars,
     tables, handlers, recVars, history
<1> QED BY <1>2, <1>3

\* What the handlers, stops and reconciliations rely on between their awaits holds
\* throughout (orchestrator.ts:690-858, routes/position.ts:354-435).
THEOREM RecordsInvariant == Spec => []RecordsInv
<1> QED BY RecordsInit, RecordsStep, PTL DEF Spec

\* A reconciliation never overwrites the row of a position whose account is on the chain
\* and which a bot is tracking (routes/position.ts:354-392).
THEOREM TrackedSpared == Spec => []ReconcileSparesTracked
<1>1. RecordsInv => ReconcileSparesTracked
  BY DEF RecordsInv, ReconcileView, ReconcileSparesTracked, OnChain, Tracked
<1> QED BY RecordsInvariant, <1>1, PTL
-----------------------------------------------------------------------------
(* The records implement PositionBook. *)

\* No position enters the table, is reported or is settled.
BookSame ==
  /\ outcome' = outcome /\ result' = result
  /\ \A p \in Position : row'[p] # "none" <=> row[p] # "none"

LEMMA SameStutters == BookSame => UNCHANGED Book!vars
<1> QED BY DEF BookSame, Book!vars

LEMMA BookSameStop == RecordsInv /\ StopStep => BookSame
<1> SUFFICES ASSUME RecordsInv, StopStep PROVE BookSame
  OBVIOUS
<1> USE DEF RecordsInv, TypeOK, BookSame, outsideStop, handlers, totals, emgVars, recVars
<1>1. CASE StopBot
  BY <1>1 DEF StopBot
<1>2. CASE StopEnds
  BY <1>2 DEF StopEnds
<1>3. CASE StopFails
  BY <1>3 DEF StopFails
<1>4. CASE \E lands \in Lands : StopSaved(lands)
  BY <1>4 DEF StopSaved
<1>5. CASE \E p \in Position : MarkOrphan(p)
  BY <1>5 DEF MarkOrphan, Orphaned
<1>6. CASE RequestStop
  BY <1>6 DEF RequestStop
<1> QED BY <1>1, <1>2, <1>3, <1>4, <1>5, <1>6 DEF StopStep

LEMMA BookSameEmergency == RecordsInv /\ EmergencyStep => BookSame
<1> SUFFICES ASSUME RecordsInv, EmergencyStep PROVE BookSame
  OBVIOUS
<1> USE DEF RecordsInv, TypeOK, BookSame, outsideEmergency, handlers, totals, stopVars, recVars
<1>1. CASE Trigger
  BY <1>1 DEF Trigger
<1>2. CASE MarkClosing
  BY <1>2 DEF MarkClosing
<1>3. CASE EmergencyStop
  BY <1>3 DEF EmergencyStop
<1>4. CASE \E lands \in Lands : EmergencyDone(lands)
  BY <1>4 DEF EmergencyDone
<1>5. CASE \E lands \in Lands : EmergencySaved(lands)
  BY <1>5 DEF EmergencySaved
<1>6. CASE \E p \in Position : EmergencyClose(p)
  BY <1>6 DEF EmergencyClose
<1> QED BY <1>1, <1>2, <1>3, <1>4, <1>5, <1>6 DEF EmergencyStep

LEMMA BookSameSession == RecordsInv /\ SessionStep => BookSame
<1> SUFFICES ASSUME RecordsInv, SessionStep PROVE BookSame
  OBVIOUS
<1> USE DEF RecordsInv, TypeOK, BookSame, outsideSessions, engineVars, tables, handlers, totals, stopVars, emgVars, recVars, history
<1>1. CASE StartBot
  BY <1>1 DEF StartBot
<1>2. CASE Crash
  BY <1>2 DEF Crash
<1>3. CASE RecoveryFails
  BY <1>3 DEF RecoveryFails
<1>4. CASE StartRefused
  BY <1>4 DEF StartRefused
<1> QED BY <1>1, <1>2, <1>3, <1>4 DEF SessionStep

LEMMA BookSameConfig == RecordsInv /\ ConfigStep => BookSame
<1> SUFFICES ASSUME RecordsInv, ConfigStep PROVE BookSame
  OBVIOUS
<1> USE DEF RecordsInv, TypeOK, BookSame, outsideConfig, engineVars, handlers, totals, stopVars, emgVars, recVars, history
<1>1. CASE ConfigRead
  BY <1>1 DEF ConfigRead
<1>2. CASE ConfigWrite
  BY <1>2 DEF ConfigWrite
<1> QED BY <1>1, <1>2 DEF ConfigStep

LEMMA BookSameReconcile == RecordsInv /\ ReconcileStep => BookSame
<1> SUFFICES ASSUME RecordsInv, ReconcileStep PROVE BookSame
  OBVIOUS
<1> USE DEF RecordsInv, TypeOK, BookSame, outsideReconcile, engineVars, handlers, totals, stopVars, emgVars, history
<1>1. CASE BeginReconcile
  BY <1>1 DEF BeginReconcile
<1>2. CASE EndReconcile
  BY <1>2 DEF EndReconcile
<1>3. CASE \E ok \in Lands : LookUp(ok)
  BY <1>3 DEF LookUp
<1>4. CASE \E ok \in Lands : WriteRow(ok)
  <2>1. PICK ok \in Lands : WriteRow(ok)
    BY <1>4
  <2>2. /\ recWrite.pos \in Position /\ row[recWrite.pos] # "none"
        /\ recWrite.status # "none"
    BY <2>1 DEF WriteRow, ReconcileView
  <2> QED BY <2>1, <2>2 DEF WriteRow
<1>5. CASE \E p \in Position : JudgeRow(p)
  BY <1>5 DEF JudgeRow
<1> QED BY <1>1, <1>2, <1>3, <1>4, <1>5 DEF ReconcileStep

LEMMA BookEngine == RecordsInv /\ EngineStep => [Book!Next]_(Book!vars)
<1> SUFFICES ASSUME RecordsInv, EngineStep PROVE [Book!Next]_(Book!vars)
  OBVIOUS
<1> USE DEF RecordsInv, TypeOK, BookSame, outsideEngine, handlers, tables, totals, history, stopVars, emgVars, recVars
<1>1. CASE BeginEntry
  <2>1. BookSame
    BY <1>1 DEF BeginEntry
  <2> QED BY <2>1, SameStutters
<1>2. CASE \E e \in entering : EntryFails(e)
  <2>1. BookSame
    BY <1>2 DEF EntryFails
  <2> QED BY <2>1, SameStutters
<1>3. CASE \E e \in entering, p \in Position : OpenPosition(p, e)
  <2>1. BookSame
    BY <1>3 DEF OpenPosition
  <2> QED BY <2>1, SameStutters
<1>4. CASE \E p \in Position : BeginClose(p)
  <2>1. BookSame
    BY <1>4 DEF BeginClose
  <2> QED BY <2>1, SameStutters
<1>5. CASE \E p \in Position : CloseFails(p)
  <2>1. BookSame
    BY <1>5 DEF CloseFails
  <2> QED BY <2>1, SameStutters
<1>6. CASE \E p \in Position, x \in Result, h \in Handler : ClosePosition(p, x, h)
  <2>1. PICK p \in Position, x \in Result, h \in Handler : ClosePosition(p, x, h)
    BY <1>6
  <2>2. outcome[p] = NoResult
    BY <2>1 DEF ClosePosition, RowsFollow
  <2>3. Book!Report(p, x)
    BY <2>1, <2>2 DEF ClosePosition, Book!Report
  <2> QED BY <2>3 DEF Book!Next
<1>7. CASE \E p \in Position : RemoveAccount(p) \/ ExternalClose(p)
  <2>1. BookSame
    BY <1>7 DEF RemoveAccount, ExternalClose
  <2> QED BY <2>1, SameStutters
<1> QED BY <1>1, <1>2, <1>3, <1>4, <1>5, <1>6, <1>7 DEF EngineStep

LEMMA BookHandler == RecordsInv /\ HandlerStep => [Book!Next]_(Book!vars)
<1> SUFFICES ASSUME RecordsInv, HandlerStep PROVE [Book!Next]_(Book!vars)
  OBVIOUS
<1> USE DEF RecordsInv, TypeOK, BookSame, outsideHandlers, engineVars, tables, totals, stopVars, emgVars, recVars
<1>1. CASE \E s \in Save : SaveLands(s)
  <2>1. BookSame
    BY <1>1 DEF SaveLands
  <2> QED BY <2>1, SameStutters
<1>2. CASE \E s \in Save : SaveFails(s)
  <2>1. BookSame
    BY <1>2 DEF SaveFails
  <2> QED BY <2>1, SameStutters
<1>3. CASE \E p \in Position : InsertRow(p)
  <2>1. PICK p \in Position : InsertRow(p)
    BY <1>3
  <2>2. row[p] = "none"
    BY <2>1 DEF InsertRow, RowsFollow
  <2>3. Book!Enter(p)
    BY <2>1, <2>2 DEF InsertRow, Book!Enter
  <2> QED BY <2>3 DEF Book!Next
<1>4. CASE \E p \in Position : FinishOpened(p)
  <2>1. BookSame
    BY <1>4 DEF FinishOpened
  <2> QED BY <2>1, SameStutters
<1>5. CASE \E p \in Position : OpenedFails(p)
  <2>1. BookSame
    BY <1>5 DEF OpenedFails
  <2> QED BY <2>1, SameStutters
<1>6. CASE \E h \in Handler : UpdateRow(h)
  <2>1. PICK h \in Handler : UpdateRow(h)
    BY <1>6
  <2>2. hpos[h] \in Position /\ outcome[hpos[h]] # NoResult
    BY <2>1 DEF UpdateRow, HandlersHaveResults
  <2>3. CASE row[hpos[h]] = "none"
    <3>1. BookSame
      BY <2>1, <2>3 DEF UpdateRow
    <3> QED BY <3>1, SameStutters
  <2>4. CASE row[hpos[h]] # "none"
    <3>1. Book!Settle(hpos[h])
      <4>1. { q \in Position : row'[q] # "none" } = { q \in Position : row[q] # "none" }
        BY <2>1, <2>2, <2>4 DEF UpdateRow
      <4> QED BY <2>1, <2>2, <2>4, <4>1 DEF UpdateRow, Book!Settle
    <3> QED BY <2>2, <3>1 DEF Book!Next
  <2> QED BY <2>3, <2>4
<1>7. CASE \E h \in Handler : ReadTotals(h)
  <2>1. BookSame
    BY <1>7 DEF ReadTotals
  <2> QED BY <2>1, SameStutters
<1>8. CASE \E h \in Handler : WriteTotals(h)
  <2>1. BookSame
    BY <1>8 DEF WriteTotals
  <2> QED BY <2>1, SameStutters
<1>9. CASE \E h \in Handler : FinishClosed(h)
  <2>1. BookSame
    BY <1>9 DEF FinishClosed
  <2> QED BY <2>1, SameStutters
<1>10. CASE \E h \in Handler : ClosedFails(h)
  <2>1. BookSame
    BY <1>10 DEF ClosedFails
  <2> QED BY <2>1, SameStutters
<1> QED BY <1>1, <1>2, <1>3, <1>4, <1>5, <1>6, <1>7, <1>8, <1>9, <1>10 DEF HandlerStep

\* Whatever interleaves, fails or crashes, the table of positions does what PositionBook
\* promises: a result in it is one the engine has reported, and none is taken back
\* (orchestrator.ts:690-858).
THEOREM BookImplemented == Spec => BookKept
<1>1. Init => Book!Init
  BY DEF Init, Book!Init
<1>2. RecordsInv /\ [Next]_vars => [Book!Next]_(Book!vars)
  <2>1. UNCHANGED vars => BookSame
    BY DEF vars, tables, history, BookSame
  <2> QED
    BY <2>1, SameStutters, BookEngine, BookHandler, BookSameStop, BookSameEmergency,
       BookSameSession, BookSameConfig, BookSameReconcile DEF Next
<1> QED BY RecordsInvariant, <1>1, <1>2, PTL DEF Spec, BookKept, Book!Spec

-----------------------------------------------------------------------------
(* The totals *)

\* What a handler has read, like the total itself, leaves room for all that are still
\* to be counted: a write may undo the count of another handler, never add to it.
RoomToCount ==
  /\ \A h, k \in Handler :
       hpc[h] \in CountingPc /\ hpc[k] \in CountingPc /\ hpos[h] = hpos[k] => h = k
  /\ trades + Cardinality(Counting) <= Cardinality(Reported)
  /\ \A h \in Handler :
       hpc[h] = "write" => hread[h].trades + Cardinality(Counting) <= Cardinality(Reported)

LEMMA FiniteCounts ==
  /\ IsFiniteSet(Counting) /\ Cardinality(Counting) \in Nat
  /\ IsFiniteSet(Reported) /\ Cardinality(Reported) \in Nat
<1>1. Counting \subseteq Position /\ Reported \subseteq Position
  BY DEF Counting, Reported
<1> QED BY <1>1, RecordsAssumption, FS_Subset, FS_CardinalityType

\* Nothing is counted, read or reported, and no handler begins.
CountSame ==
  /\ trades' = trades /\ outcome' = outcome
  /\ \A h \in Handler :
       hpc'[h] \in CountingPc =>
         /\ hpc[h] \in CountingPc /\ hpos'[h] = hpos[h]
         /\ hpc'[h] = "write" => hpc[h] = "write" /\ hread'[h] = hread[h]

LEMMA CountSameKeeps == RecordsInv /\ RoomToCount /\ CountSame => RoomToCount'
<1> SUFFICES ASSUME RecordsInv, RoomToCount, CountSame PROVE RoomToCount'
  OBVIOUS
<1>1. Counting' \subseteq Counting /\ Reported' = Reported
  BY DEF CountSame, Counting, Reported
<1>2. /\ Cardinality(Counting') \in Nat /\ Cardinality(Counting) \in Nat
      /\ Cardinality(Reported) \in Nat /\ Cardinality(Counting') <= Cardinality(Counting)
  BY <1>1, FiniteCounts, FS_Subset, FS_CardinalityType
<1>3. trades \in Nat /\ \A h \in Handler : hread[h].trades \in Nat
  BY DEF RecordsInv, TypeOK
<1>4. \A h, k \in Handler :
        hpc'[h] \in CountingPc /\ hpc'[k] \in CountingPc /\ hpos'[h] = hpos'[k] => h = k
  <2> SUFFICES ASSUME NEW h \in Handler, NEW k \in Handler,
                      hpc'[h] \in CountingPc, hpc'[k] \in CountingPc, hpos'[h] = hpos'[k]
               PROVE  h = k
    OBVIOUS
  <2>1. /\ hpc[h] \in CountingPc /\ hpos'[h] = hpos[h]
        /\ hpc[k] \in CountingPc /\ hpos'[k] = hpos[k]
    BY DEF CountSame
  <2> QED BY <2>1 DEF RoomToCount
<1>5. trades' + Cardinality(Counting') <= Cardinality(Reported')
  <2>1. trades' = trades /\ trades + Cardinality(Counting) <= Cardinality(Reported)
    BY DEF CountSame, RoomToCount
  <2> QED BY <1>1, <1>2, <1>3, <2>1
<1>6. ASSUME NEW h \in Handler, hpc'[h] = "write"
      PROVE  hread'[h].trades + Cardinality(Counting') <= Cardinality(Reported')
  <2>1. hpc[h] = "write" /\ hread'[h] = hread[h]
    BY <1>6 DEF CountSame, CountingPc
  <2>2. hread[h].trades + Cardinality(Counting) <= Cardinality(Reported)
    BY <2>1 DEF RoomToCount
  <2> QED BY <1>1, <1>2, <1>3, <2>1, <2>2
<1> QED BY <1>4, <1>5, <1>6 DEF RoomToCount

LEMMA CountSameStop == RecordsInv /\ StopStep => CountSame
<1> SUFFICES ASSUME RecordsInv, StopStep PROVE CountSame
  OBVIOUS
<1> USE DEF RecordsInv, TypeOK, CountSame, CountingPc, outsideStop, handlers, totals, emgVars, recVars
<1>1. CASE StopBot
  BY <1>1 DEF StopBot
<1>2. CASE StopEnds
  BY <1>2 DEF StopEnds
<1>3. CASE StopFails
  BY <1>3 DEF StopFails
<1>4. CASE \E lands \in Lands : StopSaved(lands)
  BY <1>4 DEF StopSaved
<1>5. CASE \E p \in Position : MarkOrphan(p)
  BY <1>5 DEF MarkOrphan
<1>6. CASE RequestStop
  BY <1>6 DEF RequestStop
<1> QED BY <1>1, <1>2, <1>3, <1>4, <1>5, <1>6 DEF StopStep

LEMMA CountSameEmergency == RecordsInv /\ EmergencyStep => CountSame
<1> SUFFICES ASSUME RecordsInv, EmergencyStep PROVE CountSame
  OBVIOUS
<1> USE DEF RecordsInv, TypeOK, CountSame, CountingPc, outsideEmergency, handlers, totals, stopVars, recVars
<1>1. CASE Trigger
  BY <1>1 DEF Trigger
<1>2. CASE MarkClosing
  BY <1>2 DEF MarkClosing
<1>3. CASE EmergencyStop
  BY <1>3 DEF EmergencyStop
<1>4. CASE \E lands \in Lands : EmergencyDone(lands)
  BY <1>4 DEF EmergencyDone
<1>5. CASE \E lands \in Lands : EmergencySaved(lands)
  BY <1>5 DEF EmergencySaved
<1>6. CASE \E p \in Position : EmergencyClose(p)
  BY <1>6 DEF EmergencyClose
<1> QED BY <1>1, <1>2, <1>3, <1>4, <1>5, <1>6 DEF EmergencyStep

LEMMA CountSameSession == RecordsInv /\ SessionStep => CountSame
<1> SUFFICES ASSUME RecordsInv, SessionStep PROVE CountSame
  OBVIOUS
<1> USE DEF RecordsInv, TypeOK, CountSame, CountingPc, outsideSessions, engineVars, tables, handlers, totals, stopVars, emgVars, recVars, history
<1>1. CASE StartBot
  BY <1>1 DEF StartBot
<1>2. CASE Crash
  BY <1>2 DEF Crash
<1>3. CASE RecoveryFails
  BY <1>3 DEF RecoveryFails
<1>4. CASE StartRefused
  BY <1>4 DEF StartRefused
<1> QED BY <1>1, <1>2, <1>3, <1>4 DEF SessionStep

LEMMA CountSameReconcile == RecordsInv /\ ReconcileStep => CountSame
<1> SUFFICES ASSUME RecordsInv, ReconcileStep PROVE CountSame
  OBVIOUS
<1> USE DEF RecordsInv, TypeOK, CountSame, CountingPc, outsideReconcile, engineVars, handlers, totals, stopVars, emgVars, history
<1>1. CASE BeginReconcile
  BY <1>1 DEF BeginReconcile
<1>2. CASE EndReconcile
  BY <1>2 DEF EndReconcile
<1>3. CASE \E ok \in Lands : LookUp(ok)
  BY <1>3 DEF LookUp
<1>4. CASE \E ok \in Lands : WriteRow(ok)
  BY <1>4 DEF WriteRow
<1>5. CASE \E p \in Position : JudgeRow(p)
  BY <1>5 DEF JudgeRow
<1> QED BY <1>1, <1>2, <1>3, <1>4, <1>5 DEF ReconcileStep

LEMMA CountConfig == RecordsInv /\ RoomToCount /\ ConfigStep => RoomToCount'
<1> SUFFICES ASSUME RecordsInv, RoomToCount, ConfigStep PROVE RoomToCount'
  OBVIOUS
<1> USE DEF outsideConfig, handlers
<1>1. CASE ConfigRead
  <2>1. CountSame
    BY <1>1 DEF ConfigRead, totals, CountSame, CountingPc
  <2> QED BY <2>1, CountSameKeeps
<1>2. CASE ConfigWrite
  <2>1. trades' = 0 /\ UNCHANGED << outcome, hpc, hpos, hread >>
    BY <1>2 DEF ConfigWrite
  <2>2. Counting' = Counting /\ Reported' = Reported
    BY <2>1 DEF Counting, Reported
  <2>3. 0 + Cardinality(Counting) <= Cardinality(Reported)
    <3>1. trades \in Nat /\ trades + Cardinality(Counting) <= Cardinality(Reported)
      BY DEF RecordsInv, TypeOK, RoomToCount
    <3> QED BY <3>1, FiniteCounts
  <2> QED BY <2>1, <2>2, <2>3 DEF RoomToCount
<1> QED BY <1>1, <1>2 DEF ConfigStep

LEMMA CountEngine == RecordsInv /\ RoomToCount /\ EngineStep => RoomToCount'
<1> SUFFICES ASSUME RecordsInv, RoomToCount, EngineStep PROVE RoomToCount'
  OBVIOUS
<1> USE DEF RecordsInv, TypeOK, outsideEngine, handlers, tables, totals, history, stopVars, emgVars, recVars
<1>1. CASE BeginEntry
  <2>1. CountSame
    BY <1>1 DEF BeginEntry, CountSame, CountingPc
  <2> QED BY <2>1, CountSameKeeps
<1>2. CASE \E e \in entering : EntryFails(e)
  <2>1. CountSame
    BY <1>2 DEF EntryFails, CountSame, CountingPc
  <2> QED BY <2>1, CountSameKeeps
<1>3. CASE \E e \in entering, p \in Position : OpenPosition(p, e)
  <2>1. CountSame
    BY <1>3 DEF OpenPosition, CountSame, CountingPc
  <2> QED BY <2>1, CountSameKeeps
<1>4. CASE \E p \in Position : BeginClose(p)
  <2>1. CountSame
    BY <1>4 DEF BeginClose, CountSame, CountingPc
  <2> QED BY <2>1, CountSameKeeps
<1>5. CASE \E p \in Position : CloseFails(p)
  <2>1. CountSame
    BY <1>5 DEF CloseFails, CountSame, CountingPc
  <2> QED BY <2>1, CountSameKeeps
<1>6. CASE \E p \in Position, x \in Result, h \in Handler : ClosePosition(p, x, h)
  <2>1. PICK p \in Position, x \in Result, h \in Handler : ClosePosition(p, x, h)
    BY <1>6
  <2>2. outcome[p] = NoResult /\ p \notin Counting
    BY <2>1 DEF ClosePosition, RowsFollow, HandlersHaveResults, Counting, CountingPc
  <2>3. Counting' = Counting \cup {p}
    BY <2>1 DEF ClosePosition, Counting, CountingPc
  <2>4. Reported' = Reported \cup {p} /\ p \notin Reported
    BY <2>1, <2>2, RecordsAssumption DEF ClosePosition, Reported
  <2>5. /\ Cardinality(Counting') = Cardinality(Counting) + 1
        /\ Cardinality(Reported') = Cardinality(Reported) + 1
    BY <2>2, <2>3, <2>4, FiniteCounts, FS_AddElement
  <2>6. \A k, j \in Handler :
          hpc'[k] \in CountingPc /\ hpc'[j] \in CountingPc /\ hpos'[k] = hpos'[j] => k = j
    BY <2>1, <2>2 DEF ClosePosition, RoomToCount, Counting, CountingPc
  <2>7. trades' = trades /\ hread' = hread
        /\ \A k \in Handler : hpc'[k] = "write" => hpc[k] = "write"
    BY <2>1 DEF ClosePosition
  <2>8. trades \in Nat /\ \A k \in Handler : hread[k].trades \in Nat
    OBVIOUS
  <2> HIDE DEF RecordsInv, TypeOK
  <2> QED BY <2>5, <2>6, <2>7, <2>8, FiniteCounts DEF RoomToCount
<1>7. CASE \E p \in Position : RemoveAccount(p) \/ ExternalClose(p)
  <2>1. CountSame
    BY <1>7 DEF RemoveAccount, ExternalClose, CountSame, CountingPc
  <2> QED BY <2>1, CountSameKeeps
<1> QED BY <1>1, <1>2, <1>3, <1>4, <1>5, <1>6, <1>7 DEF EngineStep

LEMMA CountHandler == RecordsInv /\ RoomToCount /\ HandlerStep => RoomToCount'
<1> SUFFICES ASSUME RecordsInv, RoomToCount, HandlerStep PROVE RoomToCount'
  OBVIOUS
<1> USE DEF RecordsInv, TypeOK, outsideHandlers, engineVars, tables, totals, stopVars, emgVars, recVars
<1>1. CASE \E s \in Save : SaveLands(s)
  <2>1. CountSame
    BY <1>1 DEF SaveLands, CountSame, CountingPc
  <2> QED BY <2>1, CountSameKeeps
<1>2. CASE \E s \in Save : SaveFails(s)
  <2>1. CountSame
    BY <1>2 DEF SaveFails, CountSame, CountingPc
  <2> QED BY <2>1, CountSameKeeps
<1>3. CASE \E p \in Position : InsertRow(p)
  <2>1. CountSame
    BY <1>3 DEF InsertRow, CountSame, CountingPc
  <2> QED BY <2>1, CountSameKeeps
<1>4. CASE \E p \in Position : FinishOpened(p)
  <2>1. CountSame
    BY <1>4 DEF FinishOpened, CountSame, CountingPc
  <2> QED BY <2>1, CountSameKeeps
<1>5. CASE \E p \in Position : OpenedFails(p)
  <2>1. CountSame
    BY <1>5 DEF OpenedFails, CountSame, CountingPc
  <2> QED BY <2>1, CountSameKeeps
<1>6. CASE \E h \in Handler : UpdateRow(h)
  <2>1. CountSame
    BY <1>6 DEF UpdateRow, CountSame, CountingPc
  <2> QED BY <2>1, CountSameKeeps
<1>7. CASE \E h \in Handler : ReadTotals(h)
  <2>1. PICK h \in Handler : ReadTotals(h)
    BY <1>7
  <2>2. hpc[h] = "read" /\ hpc' = [hpc EXCEPT ![h] = "write"] /\ hpos' = hpos
        /\ outcome' = outcome /\ trades' = trades
        /\ hread' = [hread EXCEPT ![h] = [trades |-> trades, pnl |-> pnl]]
    BY <2>1 DEF ReadTotals
  <2>3. \A k \in Handler : hpc'[k] \in CountingPc <=> hpc[k] \in CountingPc
    BY <2>2 DEF CountingPc
  <2>4. Counting' = Counting /\ Reported' = Reported
    BY <2>2, <2>3 DEF Counting, Reported
  <2>5. \A k, j \in Handler :
          hpc'[k] \in CountingPc /\ hpc'[j] \in CountingPc /\ hpos'[k] = hpos'[j] => k = j
    BY <2>2, <2>3 DEF RoomToCount
  <2>6. ASSUME NEW k \in Handler, hpc'[k] = "write"
        PROVE  hread'[k].trades + Cardinality(Counting') <= Cardinality(Reported')
    <3>1. CASE k = h
      <4>1. hread'[k].trades = trades
        BY <2>2, <3>1
      <4> QED BY <2>4, <4>1 DEF RoomToCount
    <3>2. CASE k # h
      <4>1. hpc[k] = "write" /\ hread'[k] = hread[k]
        BY <2>2, <2>6, <3>2
      <4> QED BY <2>4, <4>1 DEF RoomToCount
    <3> QED BY <3>1, <3>2
  <2>7. trades' + Cardinality(Counting') <= Cardinality(Reported')
    BY <2>2, <2>4 DEF RoomToCount
  <2> QED BY <2>5, <2>6, <2>7 DEF RoomToCount
<1>8. CASE \E h \in Handler : WriteTotals(h)
  <2>1. PICK h \in Handler : WriteTotals(h)
    BY <1>8
  <2>2. hpc[h] = "write" /\ hpc' = [hpc EXCEPT ![h] = "rest"] /\ hpos' = hpos
        /\ outcome' = outcome /\ trades' = hread[h].trades + 1 /\ hread' = hread
    BY <2>1 DEF WriteTotals
  <2>3. hpos[h] \in Counting
    BY <2>2 DEF HandlersHaveResults, Counting, CountingPc
  <2>4. \A k \in Handler : hpc'[k] \in CountingPc <=> hpc[k] \in CountingPc /\ k # h
    BY <2>2 DEF CountingPc
  <2>5. \A k \in Handler : hpc[k] \in CountingPc /\ hpos[k] = hpos[h] => k = h
    BY <2>2 DEF RoomToCount, CountingPc
  <2>6. Counting' = Counting \ {hpos[h]} /\ Reported' = Reported
    BY <2>2, <2>4, <2>5 DEF Counting, Reported
  <2>7. Cardinality(Counting') = Cardinality(Counting) - 1
    BY <2>3, <2>6, FiniteCounts, FS_RemoveElement
  <2>8. \A k \in Handler : hread[k].trades \in Nat
    OBVIOUS
  <2>9. \A k, j \in Handler :
          hpc'[k] \in CountingPc /\ hpc'[j] \in CountingPc /\ hpos'[k] = hpos'[j] => k = j
    BY <2>2, <2>4 DEF RoomToCount
  <2>10. \A k \in Handler :
           hpc[k] = "write" => hread[k].trades + Cardinality(Counting) <= Cardinality(Reported)
    BY DEF RoomToCount
  <2> HIDE DEF RecordsInv, TypeOK
  <2>11. ASSUME NEW k \in Handler, hpc'[k] = "write"
         PROVE  hread'[k].trades + Cardinality(Counting') <= Cardinality(Reported')
    <3>1. hpc[k] = "write" /\ hread'[k].trades = hread[k].trades /\ hread[k].trades \in Nat
      BY <2>2, <2>4, <2>8, <2>11 DEF CountingPc
    <3> QED BY <3>1, <2>6, <2>7, <2>10, FiniteCounts
  <2>12. trades' + Cardinality(Counting') <= Cardinality(Reported')
    BY <2>2, <2>6, <2>7, <2>8, <2>10, FiniteCounts
  <2> QED BY <2>9, <2>11, <2>12 DEF RoomToCount
<1>9. CASE \E h \in Handler : FinishClosed(h)
  <2>1. CountSame
    BY <1>9 DEF FinishClosed, HandlerEnds, CountSame, CountingPc
  <2> QED BY <2>1, CountSameKeeps
<1>10. CASE \E h \in Handler : ClosedFails(h)
  <2>1. CountSame
    BY <1>10 DEF ClosedFails, HandlerEnds, CountSame, CountingPc
  <2> QED BY <2>1, CountSameKeeps
<1> QED BY <1>1, <1>2, <1>3, <1>4, <1>5, <1>6, <1>7, <1>8, <1>9, <1>10 DEF HandlerStep

LEMMA CountInit == Init => RoomToCount
<1> SUFFICES ASSUME Init PROVE RoomToCount
  OBVIOUS
<1>1. Counting = {} /\ Reported = {}
  BY DEF Init, NoHandlers, Counting, CountingPc, Reported
<1> QED BY <1>1, FS_EmptySet DEF Init, NoHandlers, RoomToCount, CountingPc

\* Whatever overlaps, fails or crashes, no trade is counted that was not reported: the
\* SELECT and the UPDATE that are apart only lose counts (orchestrator.ts:798-812).
THEOREM CountsAtMost == Spec => []NeverOvercounted
<1>1. RecordsInv /\ RoomToCount /\ [Next]_vars => RoomToCount'
  <2>1. UNCHANGED vars => CountSame
    BY DEF vars, tables, handlers, history, CountSame, CountingPc
  <2> QED
    BY <2>1, CountSameKeeps, CountEngine, CountHandler, CountSameStop, CountSameEmergency,
       CountSameSession, CountConfig, CountSameReconcile DEF Next
<1>2. RecordsInv /\ RoomToCount => NeverOvercounted
  <2> SUFFICES ASSUME RecordsInv, RoomToCount PROVE trades <= Cardinality(Reported)
    BY DEF NeverOvercounted
  <2>1. trades \in Nat /\ trades + Cardinality(Counting) <= Cardinality(Reported)
    BY DEF RecordsInv, TypeOK, RoomToCount
  <2> QED BY <2>1, FiniteCounts
<1> QED BY CountInit, RecordsInvariant, <1>1, <1>2, PTL DEF Spec
-----------------------------------------------------------------------------
(* Results on their way *)

\* The handlers of open and closed positions and the totals stay as they are.
HandlersSame ==
  /\ mishaps \subseteq mishaps'
  /\ UNCHANGED << trades, pnl, opened, hpc, hpos, hread, dismissed >>

LEMMA SavesBlame == PersistVirtualBalance({}) => mishaps \subseteq mishaps'
<1> SUFFICES ASSUME PersistVirtualBalance({}) PROVE mishaps \subseteq mishaps'
  OBVIOUS
<1>1. CASE registered
  <2>1. mishaps' = mishaps \cup ({} \cup When(SaveInFlight, "savesOverlapped"))
    BY <1>1, Zenon DEF PersistVirtualBalance, Blame
  <2> QED BY <2>1
<1>2. CASE ~registered
  <2>1. mishaps' = mishaps \cup {}
    BY <1>2, Zenon DEF PersistVirtualBalance, Blame
  <2> QED BY <2>1
<1> QED BY <1>1, <1>2

LEMMA StopKeeps == StopStep => HandlersSame
<1> SUFFICES ASSUME StopStep PROVE HandlersSame
  OBVIOUS
<1> USE DEF HandlersSame, Blame, outsideStop, handlers, totals
<1>1. CASE StopBot
  BY <1>1 DEF StopBot
<1>2. CASE StopEnds
  BY <1>2 DEF StopEnds
<1>3. CASE StopFails
  BY <1>3 DEF StopFails
<1>4. CASE \E lands \in Lands : StopSaved(lands)
  BY <1>4 DEF StopSaved
<1>5. CASE \E p \in Position : MarkOrphan(p)
  BY <1>5 DEF MarkOrphan
<1>6. CASE RequestStop
  BY <1>6 DEF RequestStop
<1> QED BY <1>1, <1>2, <1>3, <1>4, <1>5, <1>6 DEF StopStep

LEMMA EmergencyKeeps == EmergencyStep => HandlersSame
<1> SUFFICES ASSUME EmergencyStep PROVE HandlersSame
  OBVIOUS
<1> USE DEF HandlersSame, Blame, outsideEmergency, handlers, totals
<1>1. CASE Trigger
  BY <1>1 DEF Trigger, OnTrigger
<1>2. CASE MarkClosing
  BY <1>2 DEF MarkClosing
<1>3. CASE EmergencyStop
  <2>1. CASE registered /\ emgPc = "off"
    BY <1>3, <2>1 DEF EmergencyStop, OnTrigger
  <2>2. CASE ~(registered /\ emgPc = "off")
    BY <1>3, <2>2 DEF EmergencyStop
  <2> QED BY <2>1, <2>2
<1>4. CASE \E lands \in Lands : EmergencyDone(lands)
  BY <1>4 DEF EmergencyDone
<1>5. CASE \E lands \in Lands : EmergencySaved(lands)
  BY <1>5 DEF EmergencySaved
<1>6. CASE \E p \in Position : EmergencyClose(p)
  BY <1>6 DEF EmergencyClose
<1> QED BY <1>1, <1>2, <1>3, <1>4, <1>5, <1>6 DEF EmergencyStep

LEMMA SessionKeeps == SessionStep => HandlersSame \/ "crashed" \in mishaps'
<1> USE DEF HandlersSame, Blame, outsideSessions, handlers, tables, totals, history
<1>1. ASSUME StartBot PROVE HandlersSame
  BY <1>1 DEF StartBot
<1>2. ASSUME Crash PROVE "crashed" \in mishaps'
  BY <1>2 DEF Crash
<1>3. ASSUME RecoveryFails PROVE HandlersSame
  BY <1>3 DEF RecoveryFails
<1>4. ASSUME StartRefused PROVE HandlersSame
  BY <1>4 DEF StartRefused
<1> QED BY <1>1, <1>2, <1>3, <1>4 DEF SessionStep

LEMMA ReconcileKeeps == ReconcileStep => HandlersSame
<1> SUFFICES ASSUME ReconcileStep PROVE HandlersSame
  OBVIOUS
<1> USE DEF HandlersSame, outsideReconcile, handlers, totals, history
<1>1. CASE BeginReconcile
  BY <1>1 DEF BeginReconcile
<1>2. CASE EndReconcile
  BY <1>2 DEF EndReconcile
<1>3. CASE \E ok \in Lands : LookUp(ok)
  BY <1>3 DEF LookUp
<1>4. CASE \E ok \in Lands : WriteRow(ok)
  BY <1>4 DEF WriteRow
<1>5. CASE \E p \in Position : JudgeRow(p)
  BY <1>5 DEF JudgeRow
<1> QED BY <1>1, <1>2, <1>3, <1>4, <1>5 DEF ReconcileStep

\* Outside the engine, the handlers and the configuration, a step touches neither the
\* handlers nor a result, or it is a crash.
LEMMA Elsewhere ==
  RecordsInv /\ (StopStep \/ EmergencyStep \/ SessionStep \/ ReconcileStep \/ UNCHANGED vars)
    => BookSame /\ (HandlersSame \/ "crashed" \in mishaps')
<1>1. UNCHANGED vars => BookSame /\ HandlersSame
  BY DEF vars, tables, totals, handlers, history, BookSame, HandlersSame
<1> QED
  BY <1>1, BookSameStop, BookSameEmergency, BookSameSession, BookSameReconcile,
     StopKeeps, EmergencyKeeps, SessionKeeps, ReconcileKeeps

\* A handler is about to write the row of the position.
RowPending(p) == \E h \in Handler : hpc[h] = "row" /\ hpos[h] = p

\* Unless something has come between: the row of a position is there once its INSERT has
\* landed, no result overtakes the INSERT, and a result not yet in the row is with a
\* handler that has still to write it.
ResultsOnTheWay ==
  Without({"failed", "crashed", "overtaken"}) =>
    \A p \in Position :
      /\ opened[p] \in {"rest", "done"} => row[p] # "none"
      /\ outcome[p] # NoResult =>
           opened[p] # "insert" /\ (result[p] = outcome[p] \/ RowPending(p))

LEMMA ResultsSame == ResultsOnTheWay /\ BookSame /\ HandlersSame => ResultsOnTheWay'
<1> SUFFICES ASSUME ResultsOnTheWay, BookSame, HandlersSame PROVE ResultsOnTheWay'
  OBVIOUS
<1>1. Without({"failed", "crashed", "overtaken"})' => Without({"failed", "crashed", "overtaken"})
  BY DEF HandlersSame, Without
<1> QED BY <1>1 DEF ResultsOnTheWay, RowPending, BookSame, HandlersSame

LEMMA ResultsCrash == "crashed" \in mishaps' \/ "failed" \in mishaps' => ResultsOnTheWay'
<1> QED BY DEF ResultsOnTheWay, Without

LEMMA ResultsConfig == ResultsOnTheWay /\ ConfigStep => ResultsOnTheWay'
<1> SUFFICES ASSUME ResultsOnTheWay, ConfigStep PROVE ResultsOnTheWay'
  OBVIOUS
<1>1. UNCHANGED << row, result, outcome, opened, hpc, hpos >> /\ mishaps \subseteq mishaps'
  BY DEF ConfigStep, ConfigRead, ConfigWrite, outsideConfig, handlers, Blame
<1>2. Without({"failed", "crashed", "overtaken"})' => Without({"failed", "crashed", "overtaken"})
  BY <1>1 DEF Without
<1> QED BY <1>1, <1>2 DEF ResultsOnTheWay, RowPending

LEMMA ResultsEngine == RecordsInv /\ ResultsOnTheWay /\ EngineStep => ResultsOnTheWay'
<1> SUFFICES ASSUME RecordsInv, ResultsOnTheWay, EngineStep PROVE ResultsOnTheWay'
  OBVIOUS
<1> USE DEF outsideEngine, handlers, tables, totals, history
<1>1. CASE BeginEntry
  <2>1. BookSame /\ HandlersSame
    BY <1>1 DEF BeginEntry, BookSame, HandlersSame, Blame
  <2> QED BY <2>1, ResultsSame
<1>2. CASE \E e \in entering : EntryFails(e)
  <2>1. BookSame /\ HandlersSame
    BY <1>2 DEF EntryFails, BookSame, HandlersSame
  <2> QED BY <2>1, ResultsSame
<1>3. CASE \E e \in entering, p \in Position : OpenPosition(p, e)
  <2>1. PICK e \in entering, p \in Position : OpenPosition(p, e)
    BY <1>3
  <2>2. /\ opened' = [opened EXCEPT ![p] = "insert"] /\ outcome[p] = NoResult
        /\ UNCHANGED << row, result, outcome, hpc, hpos, mishaps >>
    BY <2>1 DEF OpenPosition, RecordsInv, RowsFollow
  <2>3. Without({"failed", "crashed", "overtaken"})' => Without({"failed", "crashed", "overtaken"})
    BY <2>2 DEF Without
  <2>4. opened \in [Position -> {"none", "insert", "rest", "done"}]
    BY DEF RecordsInv, TypeOK
  <2> QED BY <2>2, <2>3, <2>4 DEF ResultsOnTheWay, RowPending
<1>4. CASE \E p \in Position : BeginClose(p)
  <2>1. BookSame /\ HandlersSame
    BY <1>4 DEF BeginClose, BookSame, HandlersSame
  <2> QED BY <2>1, ResultsSame
<1>5. CASE \E p \in Position : CloseFails(p)
  <2>1. BookSame /\ HandlersSame
    BY <1>5 DEF CloseFails, BookSame, HandlersSame
  <2> QED BY <2>1, ResultsSame
<1>6. CASE \E p \in Position, x \in Result, h \in Handler : ClosePosition(p, x, h)
  <2>1. PICK p \in Position, x \in Result, h \in Handler : ClosePosition(p, x, h)
    BY <1>6
  <2>2. /\ hpc[h] = "idle" /\ mem[p] # "none"
        /\ hpc' = [hpc EXCEPT ![h] = "row"] /\ hpos' = [hpos EXCEPT ![h] = p]
        /\ outcome' = [outcome EXCEPT ![p] = x]
        /\ UNCHANGED << row, result, opened >>
        /\ mishaps \subseteq mishaps'
        /\ opened[p] = "insert" => "overtaken" \in mishaps'
    BY <2>1 DEF ClosePosition, Blame, When
  <2>3. Without({"failed", "crashed", "overtaken"})'
          => Without({"failed", "crashed", "overtaken"}) /\ opened[p] # "insert"
    BY <2>2 DEF Without
  <2>4. /\ hpc \in [Handler -> {"idle", "row", "read", "write", "rest"}]
        /\ hpos \in [Handler -> Position \cup {NoPosition}]
        /\ outcome \in [Position -> Result \cup {NoResult}]
    BY DEF RecordsInv, TypeOK
  <2>5. RowPending(p)' /\ \A q \in Position : RowPending(q) => RowPending(q)'
    BY <2>2, <2>4 DEF RowPending
  <2> QED BY <2>2, <2>3, <2>4, <2>5 DEF ResultsOnTheWay
<1>7. CASE \E p \in Position : RemoveAccount(p) \/ ExternalClose(p)
  <2>1. BookSame /\ HandlersSame
    BY <1>7 DEF RemoveAccount, ExternalClose, BookSame, HandlersSame
  <2> QED BY <2>1, ResultsSame
<1> QED BY <1>1, <1>2, <1>3, <1>4, <1>5, <1>6, <1>7 DEF EngineStep

LEMMA ResultsHandler == RecordsInv /\ ResultsOnTheWay /\ HandlerStep => ResultsOnTheWay'
<1> SUFFICES ASSUME RecordsInv, ResultsOnTheWay, HandlerStep PROVE ResultsOnTheWay'
  OBVIOUS
<1> USE DEF outsideHandlers, tables, totals
<1>1. CASE \E s \in Save : SaveLands(s)
  <2>1. BookSame /\ HandlersSame
    BY <1>1 DEF SaveLands, BookSame, HandlersSame
  <2> QED BY <2>1, ResultsSame
<1>2. CASE \E s \in Save : SaveFails(s)
  <2>1. "failed" \in mishaps'
    BY <1>2 DEF SaveFails, Blame
  <2> QED BY <2>1, ResultsCrash
<1>3. CASE \E p \in Position : InsertRow(p)
  <2>1. PICK p \in Position : InsertRow(p)
    BY <1>3
  <2>2. /\ row' = [row EXCEPT ![p] = "active"] /\ opened' = [opened EXCEPT ![p] = "rest"]
        /\ UNCHANGED << result, outcome, hpc, hpos, mishaps >>
    BY <2>1 DEF InsertRow
  <2>3. Without({"failed", "crashed", "overtaken"})' => Without({"failed", "crashed", "overtaken"})
    BY <2>2 DEF Without
  <2>4. /\ opened \in [Position -> {"none", "insert", "rest", "done"}]
        /\ row \in [Position -> RowStatus]
    BY DEF RecordsInv, TypeOK
  <2> QED BY <2>2, <2>3, <2>4 DEF ResultsOnTheWay, RowPending
<1>4. CASE \E p \in Position : FinishOpened(p)
  <2>1. PICK p \in Position : FinishOpened(p)
    BY <1>4
  <2>2. /\ opened[p] = "rest" /\ opened' = [opened EXCEPT ![p] = "done"]
        /\ UNCHANGED << row, result, outcome, hpc, hpos >> /\ mishaps \subseteq mishaps'
    BY <2>1, SavesBlame DEF FinishOpened
  <2>3. Without({"failed", "crashed", "overtaken"})' => Without({"failed", "crashed", "overtaken"})
    BY <2>2 DEF Without
  <2>4. opened \in [Position -> {"none", "insert", "rest", "done"}]
    BY DEF RecordsInv, TypeOK
  <2> QED BY <2>2, <2>3, <2>4 DEF ResultsOnTheWay, RowPending
<1>5. CASE \E p \in Position : OpenedFails(p)
  <2>1. "failed" \in mishaps'
    BY <1>5 DEF OpenedFails, Blame
  <2> QED BY <2>1, ResultsCrash
<1>6. CASE \E h \in Handler : UpdateRow(h)
  <2>1. PICK h \in Handler : UpdateRow(h)
    BY <1>6
  <2>2. /\ hpc[h] = "row" /\ hpc' = [hpc EXCEPT ![h] = "read"]
        /\ row[hpos[h]] # "none" =>
             row' = [row EXCEPT ![hpos[h]] = "closed"]
             /\ result' = [result EXCEPT ![hpos[h]] = outcome[hpos[h]]]
        /\ UNCHANGED << opened, outcome, hpos, mishaps >>
    BY <2>1 DEF UpdateRow
  <2>3. hpos[h] \in Position /\ outcome[hpos[h]] # NoResult /\ mem[hpos[h]] = "CLOSED"
    BY <2>2 DEF RecordsInv, HandlersHaveResults, RowsFollow
  <2>4. /\ opened \in [Position -> {"none", "insert", "rest", "done"}]
        /\ row \in [Position -> RowStatus]
        /\ result \in [Position -> Result \cup {NoResult}]
        /\ hpc \in [Handler -> {"idle", "row", "read", "write", "rest"}]
    BY DEF RecordsInv, TypeOK
  <2>5. opened[hpos[h]] # "none"
    BY <2>3 DEF RecordsInv, RowsFollow
  <2> SUFFICES ASSUME Without({"failed", "crashed", "overtaken"})', NEW q \in Position
               PROVE  /\ opened'[q] \in {"rest", "done"} => row'[q] # "none"
                      /\ outcome'[q] # NoResult =>
                           opened'[q] # "insert" /\ (result'[q] = outcome'[q] \/ RowPending(q)')
    BY DEF ResultsOnTheWay
  <2>6. Without({"failed", "crashed", "overtaken"})
    BY <2>2 DEF Without
  <2>7. row[hpos[h]] # "none"
    BY <2>3, <2>4, <2>5, <2>6 DEF ResultsOnTheWay
  <2>8. q # hpos[h] /\ RowPending(q) => RowPending(q)'
    BY <2>2, <2>4 DEF RowPending
  <2> QED BY <2>2, <2>3, <2>4, <2>6, <2>7, <2>8 DEF ResultsOnTheWay
<1>7. CASE \E h \in Handler : ReadTotals(h) \/ WriteTotals(h) \/ FinishClosed(h)
  <2>1. PICK h \in Handler : ReadTotals(h) \/ WriteTotals(h) \/ FinishClosed(h)
    BY <1>7
  <2>2. /\ hpc \in [Handler -> {"idle", "row", "read", "write", "rest"}]
        /\ hpos \in [Handler -> Position \cup {NoPosition}]
    BY DEF RecordsInv, TypeOK
  <2>3. \A k \in Handler : hpc[k] = "row" => hpc'[k] = "row" /\ hpos'[k] = hpos[k]
    BY <2>1, <2>2 DEF ReadTotals, WriteTotals, FinishClosed, HandlerEnds
  <2>4. UNCHANGED << row, result, outcome, opened >> /\ mishaps \subseteq mishaps'
    <3>1. CASE ReadTotals(h) \/ WriteTotals(h)
      BY <3>1 DEF ReadTotals, WriteTotals
    <3>2. CASE FinishClosed(h)
      BY <3>2, SavesBlame DEF FinishClosed
    <3> QED BY <2>1, <3>1, <3>2
  <2>5. Without({"failed", "crashed", "overtaken"})' => Without({"failed", "crashed", "overtaken"})
    BY <2>4 DEF Without
  <2>6. \A q \in Position : RowPending(q) => RowPending(q)'
    BY <2>3 DEF RowPending
  <2> QED BY <2>4, <2>5, <2>6 DEF ResultsOnTheWay
<1>8. CASE \E h \in Handler : ClosedFails(h)
  <2>1. "failed" \in mishaps'
    BY <1>8 DEF ClosedFails, Blame
  <2> QED BY <2>1, ResultsCrash
<1> QED BY <1>1, <1>2, <1>3, <1>4, <1>5, <1>6, <1>7, <1>8 DEF HandlerStep

\* A result the engine has reported is in its row once the handlers are done, unless a
\* write failed, the process died, or the close overtook the INSERT of its own row
\* (orchestrator.ts:698, :782).
THEOREM ResultsArrive == Spec => []ResultsReachRows
<1>1. Init => ResultsOnTheWay
  BY DEF Init, ResultsOnTheWay
<1>2. RecordsInv /\ ResultsOnTheWay /\ [Next]_vars => ResultsOnTheWay'
  BY Elsewhere, ResultsSame, ResultsCrash, ResultsConfig, ResultsEngine, ResultsHandler
     DEF Next
<1>3. ResultsOnTheWay => ResultsReachRows
  BY DEF ResultsOnTheWay, ResultsReachRows, Quiet, Reported, RowPending
<1> QED BY RecordsInvariant, <1>1, <1>2, <1>3, PTL DEF Spec
-----------------------------------------------------------------------------
(* The totals, exactly *)

\* The positions whose close is counted, and has not been dismissed with the totals.
Counted == Reported \ (Counting \cup dismissed)

\* Unless something has come between: one handler is at work at most, only counted closes
\* have been dismissed, the totals are those of the others counted so far, and so is what
\* the handler has read.
TotalsInStep ==
  Without({"failed", "crashed", "overlapped"}) =>
    /\ \A h, k \in Handler : hpc[h] # "idle" /\ hpc[k] # "idle" => h = k
    /\ dismissed \subseteq Reported \ Counting
    /\ trades = Cardinality(Counted)
    /\ pnl = SumOf(outcome, Counted)
    /\ \A h \in Handler : hpc[h] = "write" => hread[h].trades = trades /\ hread[h].pnl = pnl

\* Nothing is reported or counted; a handler may read the totals, or be done.
TotalsSame ==
  /\ mishaps \subseteq mishaps'
  /\ UNCHANGED << trades, pnl, outcome, dismissed >>
  /\ \A h \in Handler :
       /\ hpc'[h] \in CountingPc <=> hpc[h] \in CountingPc
       /\ hpc[h] \in CountingPc => hpos'[h] = hpos[h]
       /\ hpc'[h] # "idle" => hpc[h] # "idle"
       /\ hpc'[h] = "write" => \/ hpc[h] = "write" /\ hread'[h] = hread[h]
                               \/ hread'[h] = [trades |-> trades, pnl |-> pnl]

LEMMA TotalsSameKeeps == TotalsInStep /\ TotalsSame => TotalsInStep'
<1> SUFFICES ASSUME TotalsInStep, TotalsSame, Without({"failed", "crashed", "overlapped"})'
             PROVE  /\ \A h, k \in Handler : hpc'[h] # "idle" /\ hpc'[k] # "idle" => h = k
                    /\ dismissed' \subseteq Reported' \ Counting'
                    /\ trades' = Cardinality(Counted')
                    /\ pnl' = SumOf(outcome', Counted')
                    /\ \A h \in Handler :
                         hpc'[h] = "write" => hread'[h].trades = trades' /\ hread'[h].pnl = pnl'
  BY DEF TotalsInStep
<1>1. Without({"failed", "crashed", "overlapped"})
  BY DEF TotalsSame, Without
<1>2. Counting' = Counting /\ Reported' = Reported
  BY DEF TotalsSame, Counting, Reported
<1>3. Counted' = Counted /\ dismissed' = dismissed
  BY <1>2 DEF Counted, TotalsSame
<1>4. UNCHANGED << trades, pnl, outcome >>
  BY DEF TotalsSame
<1>5. /\ trades = Cardinality(Counted) /\ pnl = SumOf(outcome, Counted)
      /\ dismissed \subseteq Reported \ Counting
  BY <1>1 DEF TotalsInStep
<1>6. ASSUME NEW h \in Handler, hpc'[h] = "write"
      PROVE  hread'[h].trades = trades' /\ hread'[h].pnl = pnl'
  BY <1>1, <1>4, <1>6 DEF TotalsInStep, TotalsSame
<1>7. \A h, k \in Handler : hpc'[h] # "idle" /\ hpc'[k] # "idle" => h = k
  BY <1>1 DEF TotalsInStep, TotalsSame
<1> QED BY <1>2, <1>3, <1>4, <1>5, <1>6, <1>7

LEMMA TotalsElsewhere == TotalsInStep /\ BookSame /\ HandlersSame => TotalsInStep'
<1>1. BookSame /\ HandlersSame => TotalsSame
  BY DEF BookSame, HandlersSame, TotalsSame
<1> QED BY <1>1, TotalsSameKeeps

LEMMA TotalsCrash == "crashed" \in mishaps' \/ "failed" \in mishaps' => TotalsInStep'
<1> QED BY DEF TotalsInStep, Without

LEMMA TotalsClose ==
  ASSUME NEW p \in Position, NEW x \in Result, NEW h \in Handler,
         RecordsInv, TotalsInStep, ClosePosition(p, x, h)
  PROVE  TotalsInStep'
<1> SUFFICES ASSUME Without({"failed", "crashed", "overlapped"})'
             PROVE  /\ \A j, k \in Handler : hpc'[j] # "idle" /\ hpc'[k] # "idle" => j = k
                    /\ dismissed' \subseteq Reported' \ Counting'
                    /\ trades' = Cardinality(Counted')
                    /\ pnl' = SumOf(outcome', Counted')
                    /\ \A k \in Handler :
                         hpc'[k] = "write" => hread'[k].trades = trades' /\ hread'[k].pnl = pnl'
  BY DEF TotalsInStep
<1>1. /\ hpc' = [hpc EXCEPT ![h] = "row"] /\ hpos' = [hpos EXCEPT ![h] = p]
      /\ outcome' = [outcome EXCEPT ![p] = x] /\ hread' = hread
      /\ UNCHANGED << trades, pnl, dismissed >>
      /\ mishaps \subseteq mishaps'
      /\ (\E k \in Handler : hpc[k] # "idle") => "overlapped" \in mishaps'
  BY DEF ClosePosition, outsideEngine, tables, totals, Blame, When
<1>2. Without({"failed", "crashed", "overlapped"}) /\ \A k \in Handler : hpc[k] = "idle"
  BY <1>1 DEF Without
<1>3. /\ hpc \in [Handler -> {"idle", "row", "read", "write", "rest"}]
      /\ hpos \in [Handler -> Position \cup {NoPosition}]
      /\ outcome \in [Position -> Result \cup {NoResult}]
      /\ Result \subseteq Int /\ NoResult \notin Result
  BY RecordsAssumption DEF RecordsInv, TypeOK
<1>4. outcome[p] = NoResult
  BY DEF RecordsInv, RowsFollow, ClosePosition
<1>5. Counting = {} /\ Counting' = {p}
  BY <1>1, <1>2, <1>3 DEF Counting, CountingPc
<1>6. Reported' = Reported \cup {p} /\ p \notin Reported
  BY <1>1, <1>3, <1>4 DEF Reported
<1>7. /\ Counted' = Counted /\ Counted \subseteq Reported
      /\ dismissed \subseteq Reported /\ dismissed' \subseteq Reported' \ Counting'
  <2>1. dismissed \subseteq Reported
    BY <1>2 DEF TotalsInStep
  <2> QED BY <1>1, <1>5, <1>6, <2>1 DEF Counted
<1>8. SumOf(outcome', Counted) = SumOf(outcome, Counted)
  <2>1. \A q \in Counted : outcome'[q] = outcome[q]
    BY <1>1, <1>3, <1>6, <1>7 DEF Reported
  <2>2. IsFiniteSet(Counted)
    BY <1>7, FiniteCounts, FS_Subset
  <2> QED BY <2>1, <2>2, SumSame
<1>9. trades = Cardinality(Counted) /\ pnl = SumOf(outcome, Counted)
  BY <1>2 DEF TotalsInStep
<1>10. \A k \in Handler : hpc'[k] # "idle" => k = h /\ hpc'[k] = "row"
  BY <1>1, <1>2, <1>3
<1> QED BY <1>1, <1>7, <1>8, <1>9, <1>10

LEMMA TotalsEngine == RecordsInv /\ TotalsInStep /\ EngineStep => TotalsInStep'
<1> SUFFICES ASSUME RecordsInv, TotalsInStep, EngineStep PROVE TotalsInStep'
  OBVIOUS
<1>1. CASE \E p \in Position, x \in Result, h \in Handler : ClosePosition(p, x, h)
  BY <1>1, TotalsClose
<1>2. CASE ~ \E p \in Position, x \in Result, h \in Handler : ClosePosition(p, x, h)
  <2>1. TotalsSame
    <3> USE DEF TotalsSame, Blame, outsideEngine, handlers, tables, totals, history
    <3>1. CASE BeginEntry
      BY <3>1 DEF BeginEntry
    <3>2. CASE \E e \in entering : EntryFails(e)
      BY <3>2 DEF EntryFails
    <3>3. CASE \E e \in entering, p \in Position : OpenPosition(p, e)
      BY <3>3 DEF OpenPosition
    <3>4. CASE \E p \in Position : BeginClose(p)
      BY <3>4 DEF BeginClose
    <3>5. CASE \E p \in Position : CloseFails(p)
      BY <3>5 DEF CloseFails
    <3>7. CASE \E p \in Position : RemoveAccount(p) \/ ExternalClose(p)
      BY <3>7 DEF RemoveAccount, ExternalClose
    <3> QED BY <1>2, <3>1, <3>2, <3>3, <3>4, <3>5, <3>7 DEF EngineStep
  <2> QED BY <2>1, TotalsSameKeeps
<1> QED BY <1>1, <1>2

LEMMA TotalsWrite ==
  ASSUME NEW h \in Handler, RecordsInv, TotalsInStep, WriteTotals(h)
  PROVE  TotalsInStep'
<1> SUFFICES ASSUME Without({"failed", "crashed", "overlapped"})'
             PROVE  /\ \A j, k \in Handler : hpc'[j] # "idle" /\ hpc'[k] # "idle" => j = k
                    /\ dismissed' \subseteq Reported' \ Counting'
                    /\ trades' = Cardinality(Counted')
                    /\ pnl' = SumOf(outcome', Counted')
                    /\ \A k \in Handler :
                         hpc'[k] = "write" => hread'[k].trades = trades' /\ hread'[k].pnl = pnl'
  BY DEF TotalsInStep
<1> DEFINE p == hpos[h]
<1>1. /\ hpc[h] = "write" /\ hpc' = [hpc EXCEPT ![h] = "rest"]
      /\ trades' = hread[h].trades + 1 /\ pnl' = hread[h].pnl + outcome[p]
      /\ UNCHANGED << outcome, hpos, dismissed, mishaps >>
  BY DEF WriteTotals, outsideHandlers
<1>2. Without({"failed", "crashed", "overlapped"})
  BY <1>1 DEF Without
<1>3. /\ hpc \in [Handler -> {"idle", "row", "read", "write", "rest"}]
      /\ outcome \in [Position -> Result \cup {NoResult}]
      /\ Result \subseteq Int /\ NoResult \notin Result
  BY RecordsAssumption DEF RecordsInv, TypeOK
<1>4. p \in Position /\ outcome[p] # NoResult
  BY <1>1 DEF RecordsInv, HandlersHaveResults
<1>5. \A k \in Handler : hpc[k] # "idle" => k = h
  BY <1>1, <1>2 DEF TotalsInStep
<1>6. Counting = {p} /\ Counting' = {} /\ Reported' = Reported /\ p \in Reported
  <2>1. Counting = {p}
    BY <1>1, <1>4, <1>5 DEF Counting, CountingPc
  <2>2. Counting' = {}
    BY <1>1, <1>3, <1>5 DEF Counting, CountingPc
  <2>3. Reported' = Reported /\ p \in Reported
    BY <1>1, <1>4 DEF Reported
  <2> QED BY <2>1, <2>2, <2>3
<1>7. /\ p \in Counted' /\ Counted = Counted' \ {p} /\ Counted' \subseteq Reported
      /\ dismissed' \subseteq Reported' \ Counting'
  <2>1. dismissed \subseteq Reported \ {p}
    BY <1>2, <1>6 DEF TotalsInStep
  <2> QED BY <1>1, <1>6, <2>1 DEF Counted
<1> HIDE DEF p
<1>8. /\ Cardinality(Counted) = Cardinality(Counted') - 1 /\ Cardinality(Counted') \in Nat
      /\ IsFiniteSet(Counted')
  BY <1>7, FiniteCounts, FS_Subset, FS_RemoveElement, FS_CardinalityType
<1>9. \A q \in Reported : outcome[q] \in Int
  BY <1>3 DEF Reported
<1>10. SumOf(outcome, Counted') = outcome[p] + SumOf(outcome, Counted)
  <2>1. \A q \in Counted' : outcome[q] \in Int
    BY <1>7, <1>9
  <2> QED BY <1>7, <1>8, <2>1, SumRemove
<1>11. SumOf(outcome, Counted) \in Int
  <2>1. IsFiniteSet(Counted) /\ \A q \in Counted : outcome[q] \in Int
    BY <1>7, <1>8, <1>9, FS_Subset
  <2> QED BY <2>1, SumInt
<1>12. hread[h].trades = Cardinality(Counted) /\ hread[h].pnl = SumOf(outcome, Counted)
  BY <1>1, <1>2 DEF TotalsInStep
<1>13. trades' = Cardinality(Counted') /\ outcome[p] \in Int
  BY <1>1, <1>6, <1>8, <1>9, <1>12
<1>14. pnl' = SumOf(outcome, Counted')
  BY <1>1, <1>10, <1>11, <1>12, <1>13
<1>15. \A k \in Handler : hpc'[k] # "idle" => k = h /\ hpc'[k] = "rest"
  BY <1>1, <1>3, <1>5
<1> QED BY <1>1, <1>7, <1>13, <1>14, <1>15

\* A new starting balance dismisses what has been counted.
LEMMA TotalsConfig == TotalsInStep /\ ConfigStep => TotalsInStep'
<1> SUFFICES ASSUME TotalsInStep, ConfigStep PROVE TotalsInStep'
  OBVIOUS
<1>1. CASE ConfigRead
  <2>1. TotalsSame
    BY <1>1 DEF ConfigRead, TotalsSame, outsideConfig, totals, handlers
  <2> QED BY <2>1, TotalsSameKeeps
<1>2. CASE ConfigWrite
  <2> SUFFICES ASSUME Without({"failed", "crashed", "overlapped"})'
               PROVE  /\ \A j, k \in Handler : hpc'[j] # "idle" /\ hpc'[k] # "idle" => j = k
                      /\ dismissed' \subseteq Reported' \ Counting'
                      /\ trades' = Cardinality(Counted')
                      /\ pnl' = SumOf(outcome', Counted')
                      /\ \A k \in Handler : hpc'[k] # "write"
    BY DEF TotalsInStep
  <2>1. /\ trades' = 0 /\ pnl' = 0 /\ dismissed' = Reported \ Counting
        /\ UNCHANGED << outcome, hpc, hpos >>
        /\ mishaps \subseteq mishaps'
        /\ (\E h \in Handler : hpc[h] = "write") => "overlapped" \in mishaps'
    BY <1>2 DEF ConfigWrite, outsideConfig, handlers, Blame, When
  <2>2. Without({"failed", "crashed", "overlapped"}) /\ \A h \in Handler : hpc[h] # "write"
    BY <2>1 DEF Without
  <2>3. Counting' = Counting /\ Reported' = Reported
    BY <2>1 DEF Counting, Reported
  <2>4. Counted' = {}
    BY <2>1, <2>3 DEF Counted
  <2>5. trades' = Cardinality(Counted') /\ pnl' = SumOf(outcome', Counted')
    BY <2>1, <2>4, SumEmpty, FS_EmptySet
  <2> QED BY <2>1, <2>2, <2>3, <2>5 DEF TotalsInStep
<1> QED BY <1>1, <1>2 DEF ConfigStep

LEMMA TotalsHandler == RecordsInv /\ TotalsInStep /\ HandlerStep => TotalsInStep'
<1> SUFFICES ASSUME RecordsInv, TotalsInStep, HandlerStep PROVE TotalsInStep'
  OBVIOUS
<1>1. CASE \E h \in Handler : WriteTotals(h)
  BY <1>1, TotalsWrite
<1>2. CASE \/ \E s \in Save : SaveFails(s)
           \/ \E p \in Position : OpenedFails(p)
           \/ \E h \in Handler : ClosedFails(h)
  <2>1. "failed" \in mishaps'
    BY <1>2 DEF SaveFails, OpenedFails, ClosedFails, Blame
  <2> QED BY <2>1, TotalsCrash
<1>3. CASE \/ \E s \in Save : SaveLands(s)
           \/ \E p \in Position : InsertRow(p) \/ FinishOpened(p)
           \/ \E h \in Handler : UpdateRow(h) \/ ReadTotals(h) \/ FinishClosed(h)
  <2>1. TotalsSame
    <3>1. hpc \in [Handler -> {"idle", "row", "read", "write", "rest"}]
          /\ hpos \in [Handler -> Position \cup {NoPosition}]
          /\ hread \in [Handler -> [trades : Nat, pnl : Int]]
      BY DEF RecordsInv, TypeOK
    <3> USE DEF TotalsSame, CountingPc, outsideHandlers, tables, totals
    <3>2. CASE \E s \in Save : SaveLands(s)
      BY <3>2 DEF SaveLands
    <3>3. CASE \E p \in Position : InsertRow(p)
      BY <3>3 DEF InsertRow
    <3>4. CASE \E p \in Position : FinishOpened(p)
      BY <3>4, SavesBlame DEF FinishOpened
    <3>5. CASE \E h \in Handler : UpdateRow(h)
      BY <3>1, <3>5 DEF UpdateRow
    <3>6. CASE \E h \in Handler : ReadTotals(h)
      BY <3>1, <3>6 DEF ReadTotals
    <3>7. CASE \E h \in Handler : FinishClosed(h)
      BY <3>1, <3>7, SavesBlame DEF FinishClosed, HandlerEnds
    <3> QED BY <1>3, <3>2, <3>3, <3>4, <3>5, <3>6, <3>7
  <2> QED BY <2>1, TotalsSameKeeps
<1> QED BY <1>1, <1>2, <1>3 DEF HandlerStep

\* When the handlers are done, the totals of the bot are the number and the sum of the
\* closes reported since the last new starting balance, unless a write failed, the process
\* died, or a handler and another, or a new starting balance, overlapped between the SELECT
\* and the UPDATE (orchestrator.ts:800-812, routes/bot.ts:321-338).
THEOREM TotalsTrue == Spec => []TotalsExact
<1>1. Init => TotalsInStep
  <2> SUFFICES ASSUME Init PROVE TotalsInStep
    OBVIOUS
  <2>1. Counted = {} /\ \A h \in Handler : hpc[h] = "idle"
    BY DEF Init, NoHandlers, Counted, Reported
  <2>2. trades = 0 /\ pnl = 0 /\ dismissed = {}
    BY DEF Init
  <2> QED BY <2>1, <2>2, SumEmpty, FS_EmptySet DEF TotalsInStep
<1>2. RecordsInv /\ TotalsInStep /\ [Next]_vars => TotalsInStep'
  BY Elsewhere, TotalsElsewhere, TotalsCrash, TotalsConfig, TotalsEngine, TotalsHandler DEF Next
<1>3. TotalsInStep => TotalsExact
  <2> SUFFICES ASSUME TotalsInStep, Quiet, Without({"failed", "crashed", "overlapped"})
               PROVE  /\ trades = Cardinality(Reported \ dismissed)
                      /\ pnl = MapThenSumSet(LAMBDA p : outcome[p], Reported \ dismissed)
    BY DEF TotalsExact
  <2>1. Counting = {}
    BY DEF Quiet, Counting, CountingPc
  <2>2. Counted = Reported \ dismissed
    BY <2>1 DEF Counted
  <2>3. pnl = SumOf(outcome, Reported \ dismissed)
    BY <2>2 DEF TotalsInStep
  <2> QED BY <2>2, <2>3 DEF TotalsInStep, SumOf
<1> QED BY RecordsInvariant, <1>1, <1>2, <1>3, PTL DEF Spec
-----------------------------------------------------------------------------
(* Rows left active *)

\* The engine holds the position, and a stop under way has still to mark its row.
Held(p) == registered /\ mem[p] = "ACTIVE" /\ (stopPc = "mark" => p \in stopTodo)

Undisturbed == Without({"failed", "crashed", "overtaken", "late", "emergency"})

\* Unless something has come between: once a stop marks rows nothing is on its way in,
\* and a row that says active is of a position the engine holds, or whose close is about
\* to be written.
ActiveRowsHeld ==
  /\ emgPc # "off" => "emergency" \in mishaps
  /\ Undisturbed =>
       /\ ~registered => ~isRunning
       /\ "before" \notin entering
       /\ ~registered \/ stopPc = "mark" =>
            entering = {} /\ \A p \in Position : opened[p] # "insert"
       /\ \A p \in Position : opened[p] = "insert" => mem[p] = "ACTIVE"
       /\ \A p \in Position : row[p] = "active" => Held(p) \/ RowPending(p)

LEMMA HeldEngine == RecordsInv /\ ActiveRowsHeld /\ EngineStep => ActiveRowsHeld'
<1> SUFFICES ASSUME RecordsInv, ActiveRowsHeld, EngineStep PROVE ActiveRowsHeld'
  OBVIOUS
<1> USE RecordsAssumption DEF RecordsInv, TypeOK, ActiveRowsHeld, Undisturbed, Without, Held, RowPending, Blame, When,
      outsideEngine, handlers, tables, totals, history, stopVars, emgVars, recVars
<1>1. CASE BeginEntry
  <2>1. /\ isRunning /\ entering' = entering \cup {"now"}
        /\ mishaps \subseteq mishaps'
        /\ stopPc = "mark" => "late" \in mishaps'
        /\ UNCHANGED << registered, isRunning, mem, opened, row, hpc, hpos, stopPc, stopTodo, emgPc >>
    BY <1>1 DEF BeginEntry
  <2>2. Undisturbed' => Undisturbed /\ stopPc # "mark"
    BY <2>1
  <2> HIDE DEF Undisturbed, RecordsInv
  <2> QED BY <2>1, <2>2
<1>2. CASE \E e \in entering : EntryFails(e)
  BY <1>2 DEF EntryFails
<1>3. CASE \E e \in entering, p \in Position : OpenPosition(p, e)
  BY <1>3 DEF OpenPosition, RowsFollow
<1>4. CASE \E p \in Position : BeginClose(p)
  BY <1>4 DEF BeginClose
<1>5. CASE \E p \in Position : CloseFails(p)
  BY <1>5 DEF CloseFails
<1>6. CASE \E p \in Position, x \in Result, h \in Handler : ClosePosition(p, x, h)
  <2>1. PICK p \in Position, x \in Result, h \in Handler : ClosePosition(p, x, h)
    BY <1>6
  <2>2. /\ hpc[h] = "idle" /\ mem' = [mem EXCEPT ![p] = "CLOSED"]
        /\ hpc' = [hpc EXCEPT ![h] = "row"] /\ hpos' = [hpos EXCEPT ![h] = p]
        /\ mishaps \subseteq mishaps'
        /\ opened[p] = "insert" => "overtaken" \in mishaps'
        /\ UNCHANGED << registered, isRunning, entering, opened, row, stopPc, stopTodo, emgPc >>
    BY <2>1 DEF ClosePosition
  <2>3. Undisturbed' => Undisturbed /\ opened[p] # "insert"
    BY <2>2
  <2>4. RowPending(p)' /\ \A q \in Position : RowPending(q) => RowPending(q)'
    BY <2>2
  <2>5. \A q \in Position : Held(q) => Held(q)' \/ q = p
    BY <2>2
  <2>6. mem \in [Position -> {"none", "ACTIVE", "CLOSED", "gone"}]
    OBVIOUS
  <2> HIDE DEF Undisturbed, RecordsInv, RowPending, Held
  <2> QED BY <2>2, <2>3, <2>4, <2>5, <2>6
<1>7. CASE \E p \in Position : RemoveAccount(p) \/ ExternalClose(p)
  <2>1. UNCHANGED << outsideEngine, mem, balance, entering, exiting, handlers, outcome, mishaps >>
    BY ONLY <1>7, Zenon DEF RemoveAccount, ExternalClose
  <2> QED BY <2>1
<1> QED BY <1>1, <1>2, <1>3, <1>4, <1>5, <1>6, <1>7 DEF EngineStep

LEMMA HeldHandler == RecordsInv /\ ActiveRowsHeld /\ HandlerStep => ActiveRowsHeld'
<1> SUFFICES ASSUME RecordsInv, ActiveRowsHeld, HandlerStep PROVE ActiveRowsHeld'
  OBVIOUS
<1> USE DEF RecordsInv, TypeOK, ActiveRowsHeld, Undisturbed, Without, Held, RowPending, Blame, When,
      outsideHandlers, engineVars, tables, totals, stopVars, emgVars, recVars
<1>1. CASE \E s \in Save : SaveLands(s)
  BY <1>1 DEF SaveLands
<1>2. CASE \E s \in Save : SaveFails(s)
  BY <1>2 DEF SaveFails
<1>3. CASE \E p \in Position : InsertRow(p)
  BY <1>3 DEF InsertRow
<1>4. CASE \E p \in Position : FinishOpened(p)
  BY <1>4, SavesBlame DEF FinishOpened
<1>5. CASE \E p \in Position : OpenedFails(p)
  BY <1>5 DEF OpenedFails
<1>6. CASE \E h \in Handler : UpdateRow(h)
  BY <1>6 DEF UpdateRow
<1>7. CASE \E h \in Handler : ReadTotals(h)
  BY <1>7 DEF ReadTotals
<1>8. CASE \E h \in Handler : WriteTotals(h)
  BY <1>8 DEF WriteTotals
<1>9. CASE \E h \in Handler : FinishClosed(h)
  BY <1>9, SavesBlame DEF FinishClosed, HandlerEnds
<1>10. CASE \E h \in Handler : ClosedFails(h)
  BY <1>10 DEF ClosedFails, HandlerEnds
<1> QED BY <1>1, <1>2, <1>3, <1>4, <1>5, <1>6, <1>7, <1>8, <1>9, <1>10 DEF HandlerStep

LEMMA HeldStop == RecordsInv /\ ActiveRowsHeld /\ StopStep => ActiveRowsHeld'
<1> SUFFICES ASSUME RecordsInv, ActiveRowsHeld, StopStep PROVE ActiveRowsHeld'
  OBVIOUS
<1> USE DEF RecordsInv, TypeOK, ActiveRowsHeld, Undisturbed, Without, Held, RowPending, Blame, When,
      outsideStop, handlers, totals, emgVars, recVars
<1>1. CASE StopBot
  BY <1>1 DEF StopBot
<1>2. CASE StopEnds
  BY <1>2 DEF StopEnds
<1>3. CASE StopFails
  BY <1>3 DEF StopFails
<1>4. CASE \E lands \in Lands : StopSaved(lands)
  <2>1. /\ stopPc' = "mark" /\ stopTodo' = Active
        /\ mishaps \subseteq mishaps'
        /\ LateAtStop => "late" \in mishaps'
        /\ UNCHANGED << registered, isRunning, mem, opened, entering, row, hpc, hpos, emgPc >>
    BY <1>4 DEF StopSaved
  <2>2. Undisturbed' => Undisturbed /\ ~LateAtStop
    BY <2>1
  <2> HIDE DEF Undisturbed, RecordsInv
  <2> QED BY <2>1, <2>2 DEF LateAtStop, Active
<1>5. CASE \E p \in Position : MarkOrphan(p)
  BY <1>5 DEF MarkOrphan, Orphaned
<1>6. CASE RequestStop
  BY <1>6 DEF RequestStop
<1> QED BY <1>1, <1>2, <1>3, <1>4, <1>5, <1>6 DEF StopStep

LEMMA HeldEmergency == RecordsInv /\ ActiveRowsHeld /\ EmergencyStep => ActiveRowsHeld'
<1> SUFFICES ASSUME RecordsInv, ActiveRowsHeld, EmergencyStep PROVE ActiveRowsHeld'
  OBVIOUS
<1> USE DEF RecordsInv, TypeOK, ActiveRowsHeld, Undisturbed, Without, Held, RowPending, Blame, When,
      outsideEmergency, handlers, totals, stopVars, recVars
<1>1. CASE Trigger
  BY <1>1 DEF Trigger, OnTrigger
<1>2. CASE MarkClosing
  BY <1>2 DEF MarkClosing
<1>3. CASE EmergencyStop
  <2>1. CASE registered /\ emgPc = "off"
    BY <1>3, <2>1 DEF EmergencyStop, OnTrigger
  <2>2. CASE ~(registered /\ emgPc = "off")
    BY <1>3, <2>2 DEF EmergencyStop
  <2> QED BY <2>1, <2>2
<1>4. CASE \E lands \in Lands : EmergencyDone(lands)
  BY <1>4 DEF EmergencyDone
<1>5. CASE \E lands \in Lands : EmergencySaved(lands)
  BY <1>5 DEF EmergencySaved
<1>6. CASE \E p \in Position : EmergencyClose(p)
  BY <1>6 DEF EmergencyClose
<1> QED BY <1>1, <1>2, <1>3, <1>4, <1>5, <1>6 DEF EmergencyStep

LEMMA HeldSession == RecordsInv /\ ActiveRowsHeld /\ SessionStep => ActiveRowsHeld'
<1> SUFFICES ASSUME RecordsInv, ActiveRowsHeld, SessionStep PROVE ActiveRowsHeld'
  OBVIOUS
<1> USE DEF RecordsInv, TypeOK, ActiveRowsHeld, Undisturbed, Without, Held, RowPending, Blame, When,
      outsideSessions, engineVars, tables, handlers, totals, stopVars, emgVars, recVars, history
<1>1. CASE StartBot
  BY <1>1 DEF StartBot, Forget
<1>2. CASE Crash
  BY <1>2 DEF Crash
<1>3. CASE RecoveryFails
  BY <1>3 DEF RecoveryFails
<1>4. CASE StartRefused
  BY <1>4 DEF StartRefused
<1> QED BY <1>1, <1>2, <1>3, <1>4 DEF SessionStep

LEMMA HeldConfig == RecordsInv /\ ActiveRowsHeld /\ ConfigStep => ActiveRowsHeld'
<1> SUFFICES ASSUME RecordsInv, ActiveRowsHeld, ConfigStep PROVE ActiveRowsHeld'
  OBVIOUS
<1> USE DEF RecordsInv, TypeOK, ActiveRowsHeld, Undisturbed, Without, Held, RowPending, Blame, When,
      outsideConfig, engineVars, handlers, totals, stopVars, emgVars, recVars, history
<1>1. CASE ConfigRead
  BY <1>1 DEF ConfigRead
<1>2. CASE ConfigWrite
  BY <1>2 DEF ConfigWrite
<1> QED BY <1>1, <1>2 DEF ConfigStep

LEMMA HeldReconcile == RecordsInv /\ ActiveRowsHeld /\ ReconcileStep => ActiveRowsHeld'
<1> SUFFICES ASSUME RecordsInv, ActiveRowsHeld, ReconcileStep PROVE ActiveRowsHeld'
  OBVIOUS
<1> USE DEF RecordsInv, TypeOK, ActiveRowsHeld, Undisturbed, Without, Held, RowPending,
      outsideReconcile, engineVars, handlers, totals, stopVars, emgVars, history
<1>1. CASE BeginReconcile
  BY <1>1 DEF BeginReconcile
<1>2. CASE EndReconcile
  BY <1>2 DEF EndReconcile
<1>3. CASE \E ok \in Lands : LookUp(ok)
  BY <1>3 DEF LookUp
<1>4. CASE \E ok \in Lands : WriteRow(ok)
  BY <1>4 DEF WriteRow
<1>5. CASE \E p \in Position : JudgeRow(p)
  BY <1>5 DEF JudgeRow
<1> QED BY <1>1, <1>2, <1>3, <1>4, <1>5 DEF ReconcileStep

LEMMA HeldStep == RecordsInv /\ ActiveRowsHeld /\ [Next]_vars => ActiveRowsHeld'
<1>1. ActiveRowsHeld /\ UNCHANGED vars => ActiveRowsHeld'
  BY DEF vars, engineVars, tables, handlers, stopVars, emgVars, history,
         ActiveRowsHeld, Undisturbed, Without, Held, RowPending
<1> QED
  BY <1>1, HeldEngine, HeldHandler, HeldStop, HeldEmergency, HeldSession, HeldConfig, HeldReconcile
     DEF Next

\* A bot that has been stopped leaves no row active, unless it was about to open a
\* position when stopBot looked or still scanned while it marked the rows, or a mishap of
\* another kind has happened (orchestrator.ts:385-403).
THEOREM NoneLeftActive == Spec => []NoPhantoms
<1>1. Init => ActiveRowsHeld
  BY DEF Init, ActiveRowsHeld
<1>2. ActiveRowsHeld => NoPhantoms
  BY DEF ActiveRowsHeld, Undisturbed, NoPhantoms, Quiet, Held, RowPending
<1> QED BY RecordsInvariant, HeldStep, <1>1, <1>2, PTL DEF Spec
-----------------------------------------------------------------------------
(* The balance that is saved *)

\* A handler is at work that will save the balance when it is done.
Busy == \/ \E p \in Position : opened[p] \in {"insert", "rest"}
        \/ \E h \in Handler : hpc[h] # "idle"

Steady == Without({"failed", "crashed", "savesOverlapped", "emergency", "reconfigured"})

\* Unless something has come between: one save is in flight at most, and the balance of a
\* registered bot is in its row, in that save, or will be saved by a handler at work.
BalanceOnTheWay ==
  Steady =>
    /\ \A s, t \in Save : save[s] # NoSave /\ save[t] # NoSave => s = t
    /\ stopPc = "persist" => \A s \in Save : save[s] = NoSave
    /\ registered => \/ Busy
                     \/ \E s \in Save : save[s] = balance
                     \/ stopPc = "persist" /\ stopSave = balance
                     \/ saved = balance /\ ~SaveInFlight

LEMMA BalanceCrash == "crashed" \in mishaps' \/ "failed" \in mishaps' => BalanceOnTheWay'
<1> QED BY DEF BalanceOnTheWay, Steady, Without

\* Neither the balance nor a save of it changes, and a handler at work stays so.
BalanceSame ==
  /\ mishaps \subseteq mishaps'
  /\ UNCHANGED << balance, saved, save, stopSave, emgPc >>
  /\ stopPc' = "persist" <=> stopPc = "persist"
  /\ registered' => registered
  /\ Busy => Busy'

LEMMA BalanceSameKeeps == BalanceOnTheWay /\ BalanceSame => BalanceOnTheWay'
<1> SUFFICES ASSUME BalanceOnTheWay, BalanceSame PROVE BalanceOnTheWay'
  OBVIOUS
<1>1. Steady' => Steady
  BY DEF BalanceSame, Steady, Without
<1>2. SaveInFlight' = SaveInFlight
  BY DEF BalanceSame, SaveInFlight
<1> QED BY <1>1, <1>2 DEF BalanceOnTheWay, BalanceSame

LEMMA BalanceEngine == RecordsInv /\ BalanceOnTheWay /\ EngineStep => BalanceOnTheWay'
<1> SUFFICES ASSUME RecordsInv, BalanceOnTheWay, EngineStep PROVE BalanceOnTheWay'
  OBVIOUS
<1>1. CASE \/ \E e \in entering, p \in Position : OpenPosition(p, e)
           \/ \E p \in Position, x \in Result, h \in Handler : ClosePosition(p, x, h)
  <2>1. /\ mishaps \subseteq mishaps'
        /\ UNCHANGED << save, stopPc >>
    BY <1>1 DEF OpenPosition, ClosePosition, outsideEngine, handlers, history, stopVars, Blame
  <2>2. Busy'
    <3>1. /\ opened \in [Position -> {"none", "insert", "rest", "done"}]
          /\ hpc \in [Handler -> {"idle", "row", "read", "write", "rest"}]
      BY DEF RecordsInv, TypeOK
    <3> QED BY <1>1, <3>1 DEF OpenPosition, ClosePosition, Busy
  <2>3. Steady' => Steady
    BY <2>1 DEF Steady, Without
  <2> QED BY <2>1, <2>2, <2>3 DEF BalanceOnTheWay
<1>2. CASE \/ BeginEntry
           \/ \E e \in entering : EntryFails(e)
           \/ \E p \in Position : \/ BeginClose(p) \/ CloseFails(p)
                                  \/ RemoveAccount(p) \/ ExternalClose(p)
  <2>1. BalanceSame
    BY <1>2 DEF BeginEntry, EntryFails, BeginClose, CloseFails, RemoveAccount, ExternalClose, BalanceSame, Busy, Blame,
       outsideEngine, handlers, tables, history, stopVars, emgVars
  <2> QED BY <2>1, BalanceSameKeeps
<1> QED BY <1>1, <1>2 DEF EngineStep

\* A handler that is done has the balance on its way.
LEMMA BalancePersist ==
  ASSUME RecordsInv, ActiveRowsHeld, BalanceOnTheWay, PersistVirtualBalance({}),
         UNCHANGED << registered, balance, saved, stopPc, stopSave, emgPc >>
  PROVE  BalanceOnTheWay'
<1>1. CASE registered
  <2>1. PICK s \in Save : save[s] = NoSave /\ save' = [save EXCEPT ![s] = balance]
    BY <1>1, Zenon DEF PersistVirtualBalance
  <2>2. mishaps' = mishaps \cup ({} \cup When(SaveInFlight, "savesOverlapped"))
    BY <1>1, Zenon DEF PersistVirtualBalance, Blame
  <2>3. Steady' => Steady /\ ~SaveInFlight
    BY <2>2 DEF Steady, Without, When
  <2>4. save \in [Save -> Int \cup {NoSave}]
    BY DEF RecordsInv, TypeOK
  <2> QED BY <2>1, <2>3, <2>4 DEF BalanceOnTheWay, SaveInFlight
<1>2. CASE ~registered
  <2>1. UNCHANGED save /\ mishaps \subseteq mishaps'
    BY <1>2, SavesBlame, Zenon DEF PersistVirtualBalance
  <2>2. Steady' => Steady
    BY <2>1 DEF Steady, Without
  <2> QED BY <1>2, <2>1, <2>2 DEF BalanceOnTheWay
<1> QED BY <1>1, <1>2

LEMMA BalanceHandler ==
  RecordsInv /\ ActiveRowsHeld /\ BalanceOnTheWay /\ HandlerStep => BalanceOnTheWay'
<1> SUFFICES ASSUME RecordsInv, ActiveRowsHeld, BalanceOnTheWay, HandlerStep
             PROVE  BalanceOnTheWay'
  OBVIOUS
<1>1. CASE \/ \E s \in Save : SaveFails(s)
           \/ \E p \in Position : OpenedFails(p)
           \/ \E h \in Handler : ClosedFails(h)
  <2>1. "failed" \in mishaps'
    BY <1>1 DEF SaveFails, OpenedFails, ClosedFails, Blame
  <2> QED BY <2>1, BalanceCrash
<1>2. CASE \E s \in Save : SaveLands(s)
  <2>1. PICK s \in Save : SaveLands(s)
    BY <1>2
  <2>2. /\ save[s] # NoSave /\ saved' = save[s] /\ save' = [save EXCEPT ![s] = NoSave]
        /\ UNCHANGED << registered, balance, stopPc, stopSave, emgPc, opened, hpc, mishaps >>
    BY <2>1 DEF SaveLands, outsideHandlers, engineVars, stopVars, emgVars
  <2>3. Steady' = Steady /\ Busy' = Busy
    BY <2>2 DEF Steady, Without, Busy
  <2>4. save \in [Save -> Int \cup {NoSave}] /\ balance \in Int /\ NoSave \notin Int
    BY RecordsAssumption DEF RecordsInv, TypeOK
  <2>5. Steady => emgPc # "persist"
    BY DEF ActiveRowsHeld, Steady, Without
  <2> QED BY <2>2, <2>3, <2>4, <2>5 DEF BalanceOnTheWay, SaveInFlight
<1>3. CASE \/ \E p \in Position : FinishOpened(p)
           \/ \E h \in Handler : FinishClosed(h)
  <2>1. /\ PersistVirtualBalance({})
        /\ UNCHANGED << registered, balance, saved, stopPc, stopSave, emgPc >>
    BY <1>3 DEF FinishOpened, FinishClosed, outsideHandlers, engineVars, tables, stopVars, emgVars
  <2> QED BY <2>1, BalancePersist
<1>4. CASE \/ \E p \in Position : InsertRow(p)
           \/ \E h \in Handler : UpdateRow(h) \/ ReadTotals(h) \/ WriteTotals(h)
  <2>1. BalanceSame
    <3>1. /\ opened \in [Position -> {"none", "insert", "rest", "done"}]
          /\ hpc \in [Handler -> {"idle", "row", "read", "write", "rest"}]
      BY DEF RecordsInv, TypeOK
    <3>2. Busy'
      BY <1>4, <3>1 DEF InsertRow, UpdateRow, ReadTotals, WriteTotals, Busy
    <3> QED
      BY <1>4, <3>2 DEF InsertRow, UpdateRow, ReadTotals, WriteTotals, BalanceSame,
         outsideHandlers, engineVars, tables, stopVars, emgVars
  <2> QED BY <2>1, BalanceSameKeeps
<1> QED BY <1>1, <1>2, <1>3, <1>4 DEF HandlerStep

LEMMA BalanceStop == RecordsInv /\ ActiveRowsHeld /\ BalanceOnTheWay /\ StopStep => BalanceOnTheWay'
<1> SUFFICES ASSUME RecordsInv, ActiveRowsHeld, BalanceOnTheWay, StopStep
             PROVE  BalanceOnTheWay'
  OBVIOUS
<1> USE DEF outsideStop, handlers, emgVars
<1>1. CASE StopBot
  <2>1. CASE registered
    <3>1. /\ stopPc' = "persist" /\ stopSave' = balance
          /\ mishaps \subseteq mishaps' /\ (SaveInFlight => "savesOverlapped" \in mishaps')
          /\ UNCHANGED << balance, save >>
      BY <1>1, <2>1 DEF StopBot, Blame, When
    <3>2. Steady' => ~SaveInFlight
      BY <3>1 DEF Steady, Without
    <3> QED BY <3>1, <3>2 DEF BalanceOnTheWay, SaveInFlight
  <2>2. CASE ~registered
    <3>1. BalanceSame
      BY <1>1, <2>2 DEF StopBot, BalanceSame, Busy
    <3> QED BY <3>1, BalanceSameKeeps
  <2> QED BY <2>1, <2>2
<1>2. CASE StopEnds
  <2>1. /\ stopPc = "mark" /\ stopPc' = "off" /\ registered' = FALSE
        /\ UNCHANGED << save, mishaps >>
    BY <1>2 DEF StopEnds
  <2>2. Steady' = Steady
    BY <2>1 DEF Steady, Without
  <2> QED BY <2>1, <2>2 DEF BalanceOnTheWay
<1>3. CASE StopFails
  <2>1. "failed" \in mishaps'
    BY <1>3 DEF StopFails, Blame
  <2> QED BY <2>1, BalanceCrash
<1>4. CASE \E lands \in Lands : StopSaved(lands)
  <2>1. PICK lands \in Lands : StopSaved(lands)
    BY <1>4
  <2>2. CASE lands = FALSE
    <3>1. "failed" \in mishaps'
      BY <2>1, <2>2 DEF StopSaved, Blame, When
    <3> QED BY <3>1, BalanceCrash
  <2>3. CASE lands
    <3>1. /\ stopPc = "persist" /\ stopPc' = "mark" /\ saved' = stopSave
          /\ mishaps \subseteq mishaps'
          /\ UNCHANGED << registered, balance, save, emgPc, opened, hpc >>
      BY <2>1, <2>3 DEF StopSaved, Blame
    <3>2. (Steady' => Steady) /\ Busy' = Busy
      BY <3>1 DEF Steady, Without, Busy
    <3>3. Steady => emgPc # "persist"
      BY DEF ActiveRowsHeld, Steady, Without
    <3>4. balance \in Int /\ NoSave \notin Int
      BY RecordsAssumption DEF RecordsInv, TypeOK
    <3> QED BY <3>1, <3>2, <3>3, <3>4 DEF BalanceOnTheWay, SaveInFlight
  <2> QED BY <2>2, <2>3 DEF Lands
<1>5. CASE \E p \in Position : MarkOrphan(p)
  <2>1. BalanceSame
    BY <1>5 DEF MarkOrphan, BalanceSame, Busy
  <2> QED BY <2>1, BalanceSameKeeps
<1>6. CASE RequestStop
  <2>1. BalanceSame
    BY <1>6 DEF RequestStop, BalanceSame, Busy
  <2> QED BY <2>1, BalanceSameKeeps
<1> QED BY <1>1, <1>2, <1>3, <1>4, <1>5, <1>6 DEF StopStep

LEMMA BalanceEmergency == ActiveRowsHeld /\ BalanceOnTheWay /\ EmergencyStep => BalanceOnTheWay'
<1> SUFFICES ASSUME ActiveRowsHeld, BalanceOnTheWay, EmergencyStep PROVE BalanceOnTheWay'
  OBVIOUS
<1> USE DEF outsideEmergency, handlers, stopVars
<1>1. CASE emgPc # "off" \/ emgPc' # "off"
  <2>1. "emergency" \in mishaps'
    BY <1>1, EmergencyKeeps DEF ActiveRowsHeld, HandlersSame, EmergencyStep, Trigger, OnTrigger,
       MarkClosing, EmergencyStop, EmergencySaved, EmergencyDone, EmergencyClose, Blame
  <2> QED BY <2>1 DEF BalanceOnTheWay, Steady, Without
<1>2. CASE emgPc = "off" /\ emgPc' = "off"
  <2>1. MarkClosing \/ EmergencyStop
    BY <1>2 DEF EmergencyStep, Trigger, OnTrigger, EmergencySaved, EmergencyDone, EmergencyClose
  <2>2. BalanceSame
    <3>1. mishaps \subseteq mishaps' /\ UNCHANGED << opened, hpc >>
      BY EmergencyKeeps DEF HandlersSame
    <3> QED BY <1>2, <2>1, <3>1 DEF MarkClosing, EmergencyStop, BalanceSame, Busy
  <2> QED BY <2>2, BalanceSameKeeps
<1> QED BY <1>1, <1>2

LEMMA BalanceSession == RecordsInv /\ BalanceOnTheWay /\ SessionStep => BalanceOnTheWay'
<1> SUFFICES ASSUME RecordsInv, BalanceOnTheWay, SessionStep PROVE BalanceOnTheWay'
  OBVIOUS
<1>1. CASE StartBot
  <2>1. /\ balance' = saved /\ emgPc' = "off"
        /\ mishaps \subseteq mishaps' /\ (SaveInFlight => "savesOverlapped" \in mishaps')
        /\ UNCHANGED << saved, save, stopPc >>
    BY <1>1 DEF StartBot, Blame, When, outsideSessions, handlers, stopVars
  <2>2. Steady' => Steady /\ ~SaveInFlight
    BY <2>1 DEF Steady, Without
  <2> QED BY <2>1, <2>2 DEF BalanceOnTheWay, SaveInFlight
<1>2. CASE Crash
  <2>1. "crashed" \in mishaps'
    BY <1>2 DEF Crash, Blame
  <2> QED BY <2>1, BalanceCrash
<1>3. CASE RecoveryFails
  <2>1. BalanceSame
    BY <1>3 DEF RecoveryFails, BalanceSame, Busy, engineVars, handlers, stopVars, emgVars, history
  <2> QED BY <2>1, BalanceSameKeeps
<1>4. CASE StartRefused
  <2>1. BalanceSame
    BY <1>4 DEF StartRefused, BalanceSame, Busy, outsideSessions, handlers, stopVars, emgVars
  <2> QED BY <2>1, BalanceSameKeeps
<1> QED BY <1>1, <1>2, <1>3, <1>4 DEF SessionStep

LEMMA BalanceConfig == BalanceOnTheWay /\ ConfigStep => BalanceOnTheWay'
<1> SUFFICES ASSUME BalanceOnTheWay, ConfigStep PROVE BalanceOnTheWay'
  OBVIOUS
<1> USE DEF outsideConfig, engineVars, handlers, stopVars, emgVars
<1>1. CASE ConfigRead
  <2>1. BalanceSame
    BY <1>1 DEF ConfigRead, BalanceSame, Busy
  <2> QED BY <2>1, BalanceSameKeeps
<1>2. CASE ConfigWrite
  <2>1. /\ UNCHANGED << registered, save, stopPc >>
        /\ mishaps \subseteq mishaps' /\ (registered => "reconfigured" \in mishaps')
    BY <1>2 DEF ConfigWrite, Blame, When
  <2>2. Steady' => Steady /\ ~registered
    BY <2>1 DEF Steady, Without
  <2> QED BY <2>1, <2>2 DEF BalanceOnTheWay
<1> QED BY <1>1, <1>2 DEF ConfigStep

LEMMA BalanceReconcile == BalanceOnTheWay /\ ReconcileStep => BalanceOnTheWay'
<1> SUFFICES ASSUME BalanceOnTheWay, ReconcileStep PROVE BalanceOnTheWay'
  OBVIOUS
<1>1. BalanceSame
  BY DEF ReconcileStep, BeginReconcile, EndReconcile, LookUp, WriteRow, JudgeRow, BalanceSame, Busy,
     outsideReconcile, engineVars, handlers, stopVars, emgVars, history
<1> QED BY <1>1, BalanceSameKeeps

\* A bot at rest has its balance in the row from which the next start restores it, unless a
\* write failed, the process died, two writes of the balance were in flight, an emergency
\* stop saved before it closed, or a new starting balance came to a bot still registered,
\* or again (orchestrator.ts:217, :475, routes/bot.ts:325-332).
THEOREM BalanceKept == Spec => []BalanceSaved
<1>1. Init => ActiveRowsHeld /\ BalanceOnTheWay
  BY DEF Init, NoHandlers, ActiveRowsHeld, BalanceOnTheWay
<1>2. BalanceOnTheWay /\ UNCHANGED vars => BalanceOnTheWay'
  <2>1. UNCHANGED vars => BalanceSame
    BY DEF vars, engineVars, tables, handlers, stopVars, emgVars, history, BalanceSame, Busy
  <2> QED BY <2>1, BalanceSameKeeps
<1>3. RecordsInv /\ ActiveRowsHeld /\ BalanceOnTheWay /\ [Next]_vars => BalanceOnTheWay'
  BY <1>2, BalanceEngine, BalanceHandler, BalanceStop, BalanceEmergency, BalanceSession,
     BalanceConfig, BalanceReconcile DEF Next
<1>4. RecordsInv /\ BalanceOnTheWay => BalanceSaved
  <2>1. RecordsInv => \A s \in Save : save[s] = balance => save[s] # NoSave
    BY RecordsAssumption DEF RecordsInv, TypeOK
  <2> QED BY <2>1 DEF BalanceOnTheWay, Steady, BalanceSaved, Quiet, Busy, SaveInFlight
<1> QED BY RecordsInvariant, HeldStep, <1>1, <1>3, <1>4, PTL DEF Spec
===============================================================================
