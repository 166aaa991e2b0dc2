-------------------------- MODULE LossMemoryProofs --------------------------
(***************************************************************************)
(* Theorems of LossMemory, for every value of its constants.               *)
(***************************************************************************)
EXTENDS LossMemory, TLAPS

-----------------------------------------------------------------------------
(* The operators of the emergency stop *)

LEMMA InitialStateType ==
  ASSUME NEW d \in Nat PROVE InitialState(d) \in EmergencyStopState
  BY DEF InitialState, EmergencyStopState

LEMMA Fields ==
  ASSUME NEW state \in EmergencyStopState
  PROVE  /\ state.isTriggered \in BOOLEAN /\ state.dailyPnl \in Int
         /\ state.totalPnl \in Int /\ state.consecutiveLosses \in Nat
         /\ state.dailyResetDate \in Nat /\ state.apiErrors \in Nat
  BY DEF EmergencyStopState

LEMMA ResetType ==
  ASSUME NEW state \in EmergencyStopState, NEW d \in Nat
  PROVE  /\ CheckDailyReset(state, d) \in EmergencyStopState
         /\ CheckDailyReset(state, d).dailyResetDate = d
         /\ CheckDailyReset(state, d).isTriggered = state.isTriggered
<1>1. CASE state.dailyResetDate = d
  BY <1>1 DEF CheckDailyReset
<1>2. CASE state.dailyResetDate # d
  <2>1. CheckDailyReset(state, d) =
          [ isTriggered |-> state.isTriggered, dailyPnl |-> 0, totalPnl |-> state.totalPnl,
            consecutiveLosses |-> 0, dailyResetDate |-> d, apiErrors |-> state.apiErrors ]
    BY <1>2 DEF CheckDailyReset, EmergencyStopState
  <2>2. QED
    BY <2>1, Fields DEF EmergencyStopState
<1>3. QED
  BY <1>1, <1>2

LEMMA GateType ==
  ASSUME NEW state \in EmergencyStopState, NEW d \in Nat, NEW n \in Nat
  PROVE  LET reset == CheckDailyReset(state, d)
             after == CanTrade(state, d, n)
         IN  /\ after \in EmergencyStopState
             /\ after.dailyResetDate = d
             /\ state.isTriggered => after.isTriggered
             /\ after.totalPnl = reset.totalPnl /\ after.dailyPnl = reset.dailyPnl
             /\ after.consecutiveLosses = reset.consecutiveLosses
<1> DEFINE reset == CheckDailyReset(state, d)
           now   == [reset EXCEPT !.apiErrors = n]
           after == CanTrade(state, d, n)
<1>1. reset \in EmergencyStopState /\ reset.dailyResetDate = d
      /\ reset.isTriggered = state.isTriggered
  BY ResetType
<1>2. after = [now EXCEPT !.isTriggered = @ \/ LimitExceeded(now)]
  BY DEF CanTrade
<1> HIDE DEF reset
<1>3. /\ now \in EmergencyStopState /\ now.dailyResetDate = d
      /\ now.isTriggered = state.isTriggered
      /\ now.totalPnl = reset.totalPnl /\ now.dailyPnl = reset.dailyPnl
      /\ now.consecutiveLosses = reset.consecutiveLosses
  BY <1>1 DEF EmergencyStopState
<1>4. (now.isTriggered \/ LimitExceeded(now)) \in BOOLEAN
  BY <1>3 DEF EmergencyStopState, LimitExceeded
<1> HIDE DEF now, after
<1>5. /\ after \in EmergencyStopState /\ after.dailyResetDate = d
      /\ state.isTriggered => after.isTriggered
      /\ after.totalPnl = reset.totalPnl /\ after.dailyPnl = reset.dailyPnl
      /\ after.consecutiveLosses = reset.consecutiveLosses
  BY <1>2, <1>3, <1>4 DEF EmergencyStopState
<1>6. QED
  BY <1>5 DEF reset, after

\* Consulting the gate forgets nothing.
LEMMA GateKnows ==
  ASSUME NEW state \in EmergencyStopState, NEW n \in Nat, today \in Nat, Knows(state)
  PROVE  Knows(CanTrade(state, today, n))
<1>1. CheckDailyReset(CanTrade(state, today, n), today) = CanTrade(state, today, n)
  BY GateType DEF CheckDailyReset
<1>2. QED
  BY <1>1, GateType DEF Knows

LEMMA ResultType ==
  ASSUME NEW state \in EmergencyStopState, NEW p \in Pnl
  PROVE  RecordTradeResult(state, p) \in EmergencyStopState
<1>1. p \in Int
  BY MemoryAssumption
<1>2. (IF p <= 0 THEN state.consecutiveLosses + 1 ELSE 0) \in Nat
  BY <1>1, Fields
<1>3. state.dailyPnl + p \in Int /\ state.totalPnl + p \in Int
  BY <1>1, Fields
<1>4. QED
  BY <1>2, <1>3, Fields DEF RecordTradeResult, EmergencyStopState

-----------------------------------------------------------------------------
(* The inductive invariant *)

\* Nothing is dated in the future.
Dates ==
  /\ es.dailyResetDate <= today
  /\ saved # NoState => saved.dailyResetDate <= today
  /\ \A s \in Save : pc[s] = "writing" => json[s] \in EmergencyStopState
                                          /\ json[s].dailyResetDate <= today

\* Where the orchestrator is says what can be under way.
Phases ==
  /\ bot = "starting" => status = "running" /\ callback # "closing" /\ (Unsettled => excused)
  /\ bot = "down" => ~Unsettled /\ callback = "none"
  /\ bot = "registered" /\ callback = "none" => status = "running"
  /\ Registered /\ callback # "none" => es.isTriggered

\* A save that is the last one under way will leave it right, and no two are written
\* at once.
SavesRight ==
  ~excused =>
    /\ \A s, t \in Save : pc[s] = "writing" /\ pc[t] = "writing" => s = t
    /\ \A s \in Save :
         /\ status = "running" /\ pc[s] = "writing"
         /\ \A t \in Save : t # s => pc[t] = "idle"
         => Right(json[s])

Inv == TypeOK /\ Dates /\ Phases /\ LossesRemembered /\ SavesRight /\ SavedIsTrue
-----------------------------------------------------------------------------
(* Starting *)

LEMMA FreshKnows ==
  ASSUME NEW d \in Nat, today' = d, allPnl' = 0, dayPnl' = 0, streak' = 0
  PROVE  Knows(InitialState(d))'
  BY DEF Knows, CheckDailyReset, InitialState

LEMMA InvInit == Init => Inv
<1> SUFFICES ASSUME Init PROVE Inv
  OBVIOUS
<1>1. TypeOK
  <2>1. today \in 0 .. MaxDay /\ crashes \in 0 .. MaxCrashes /\ results \in 0 .. MaxResults
    BY MemoryAssumption DEF Init
  <2>2. es \in EmergencyStopState
    BY InitialStateType DEF Init
  <2>3. excused \in BOOLEAN /\ config \in BOOLEAN
    BY DEF Init
  <2>4. QED
    BY <2>1, <2>2, <2>3 DEF Init, TypeOK
<1>2. ~Unsettled /\ \A s \in Save : pc[s] # "writing"
  BY DEF Init, Unsettled
<1>3. Dates
  BY <1>2 DEF Init, Dates, InitialState
<1>4. Phases /\ LossesRemembered /\ SavesRight /\ SavedIsTrue
  BY <1>2 DEF Init, Phases, Registered, LossesRemembered, SavesRight, SavedIsTrue
<1>5. QED
  BY <1>1, <1>3, <1>4 DEF Inv

LEMMA UserStartInv ==
  ASSUME Inv, UserStart PROVE Inv'
<1> USE DEF saves
<1>1. TypeOK'
  <2>1. excused' \in BOOLEAN
    BY DEF UserStart, Unsettled
  <2>2. status' = "running" /\ saved' = NoState /\ bot' \in {"starting", "registered"}
        /\ dayPnl' = 0 /\ allPnl' = 0 /\ streak' = 0
    BY DEF UserStart
  <2>3. UNCHANGED << today, callback, es, pc, json, config, crashes, results >>
    BY DEF UserStart
  <2>4. QED
    BY <2>1, <2>2, <2>3 DEF Inv, TypeOK
<1>2. Dates'
  BY DEF UserStart, Inv, Dates
<1>3. Unsettled' = Unsettled
  BY DEF UserStart, Unsettled
<1>4. Phases' /\ LossesRemembered'
  <2>1. bot = "registered" => callback = "done" /\ excused'
    BY DEF UserStart, Inv, TypeOK, Phases
  <2>2. QED
    BY <1>3, <2>1 DEF UserStart, Inv, TypeOK, Phases, LossesRemembered, Registered
<1>5. SavesRight'
  BY DEF UserStart, Unsettled, SavesRight
<1>6. SavedIsTrue'
  BY FreshKnows DEF UserStart, Inv, TypeOK, SavedIsTrue, Right
<1>7. QED
  BY <1>1, <1>2, <1>4, <1>5, <1>6 DEF Inv

LEMMA RestoredType ==
  ASSUME Inv PROVE Restored(saved) \in EmergencyStopState
  BY InitialStateType, MemoryAssumption DEF Inv, TypeOK, Restored

LEMMA BuildEngineInv ==
  ASSUME Inv, BuildEngine PROVE Inv'
<1> USE DEF row, saves, truth
<1>1. TypeOK'
  <2>1. excused' \in BOOLEAN
    BY MemoryAssumption DEF BuildEngine, Inv, TypeOK, EmergencyStopState
  <2>2. QED
    BY <2>1, RestoredType DEF BuildEngine, Inv, TypeOK
<1>2. Restored(saved).dailyResetDate <= today
  BY DEF Inv, TypeOK, Dates, Restored, InitialState
<1>3. Dates'
  BY <1>2 DEF BuildEngine, Inv, Dates
<1>4. Phases'
  BY DEF BuildEngine, Inv, Phases, Registered
<1>5. LossesRemembered'
  <2>1. SUFFICES ASSUME ~excused' PROVE Knows(es)'
    BY DEF LossesRemembered
  <2>2. Right(saved) /\ (saved = NoState \/ ~saved.isTriggered)
    BY <2>1 DEF BuildEngine, Inv, Phases, SavedIsTrue
  <2>3. Knows(Restored(saved))
    BY <2>2 DEF Right, Restored
  <2>4. QED
    BY <2>3 DEF BuildEngine, Knows
<1>6. SavesRight' /\ SavedIsTrue'
  BY DEF BuildEngine, Inv, SavesRight, SavedIsTrue, Right, Knows, Unsettled
<1>7. QED
  BY <1>1, <1>3, <1>4, <1>5, <1>6 DEF Inv

LEMMA BuildFailsInv ==
  ASSUME Inv, BuildFails PROVE Inv'
<1> USE DEF saves, history, truth
<1>1. TypeOK'
  BY DEF BuildFails, Inv, TypeOK
<1>2. Dates' /\ Phases' /\ LossesRemembered'
  BY DEF BuildFails, Inv, Dates, Phases, LossesRemembered, Registered
<1>3. SavesRight' /\ SavedIsTrue'
  BY DEF BuildFails, Inv, SavesRight, SavedIsTrue
<1>4. QED
  BY <1>1, <1>2, <1>3 DEF Inv

-----------------------------------------------------------------------------
(* The engine *)

LEMMA ConsultInv ==
  ASSUME Inv, NEW n \in Nat, Consult(n) PROVE Inv'
<1> USE DEF row, saves, truth, history
<1>1. es' \in EmergencyStopState /\ es'.dailyResetDate = today
      /\ (es.isTriggered => es'.isTriggered)
  <2>1. es \in EmergencyStopState /\ today \in Nat
    BY DEF Inv, TypeOK
  <2>2. es' = CanTrade(es, today, n)
    BY DEF Consult
  <2>3. QED
    BY <2>1, <2>2, GateType
<1>2. TypeOK'
  BY <1>1 DEF Consult, Inv, TypeOK
<1>3. Dates'
  BY <1>1 DEF Consult, Inv, TypeOK, Dates
<1>4. Phases'
  BY <1>1 DEF Consult, Inv, Phases, Registered, Unsettled
<1>5. LossesRemembered'
  <2>1. SUFFICES ASSUME ~excused' PROVE Knows(es)'
    BY DEF LossesRemembered
  <2>2. Knows(CanTrade(es, today, n))
    BY <2>1, GateKnows DEF Consult, Inv, TypeOK, LossesRemembered
  <2>3. QED
    BY <2>2 DEF Consult, Knows
<1>6. SavesRight' /\ SavedIsTrue'
  BY DEF Consult, Inv, SavesRight, SavedIsTrue, Right, Knows, Unsettled
<1>7. QED
  BY <1>2, <1>3, <1>4, <1>5, <1>6 DEF Inv

LEMMA CallbackReportsInv ==
  ASSUME Inv, CallbackReports PROVE Inv'
<1> USE DEF saves, history, truth
<1>1. TypeOK'
  BY DEF CallbackReports, Inv, TypeOK
<1>2. Dates' /\ Phases' /\ LossesRemembered'
  BY DEF CallbackReports, Inv, Dates, Phases, LossesRemembered, Registered, Knows
<1>3. SavesRight' /\ SavedIsTrue'
  BY DEF CallbackReports, Inv, SavesRight, SavedIsTrue, Right, Knows, Unsettled
<1>4. QED
  BY <1>1, <1>2, <1>3 DEF Inv

LEMMA ApiFailsInv ==
  ASSUME Inv, ApiFails PROVE Inv'
<1> USE DEF row, saves, history, truth
<1>1. es' \in EmergencyStopState /\ es'.dailyResetDate = es.dailyResetDate
      /\ es'.isTriggered = es.isTriggered
  BY DEF ApiFails, RecordApiError, Inv, TypeOK, EmergencyStopState
<1>2. TypeOK' /\ Dates'
  BY <1>1 DEF ApiFails, Inv, TypeOK, Dates
<1>3. Phases'
  BY <1>1 DEF ApiFails, Inv, Phases, Registered, Unsettled
<1>4. LossesRemembered'
  BY DEF ApiFails, RecordApiError, Inv, TypeOK, LossesRemembered, Registered, Knows,
         CheckDailyReset, EmergencyStopState
<1>5. SavesRight' /\ SavedIsTrue'
  BY DEF ApiFails, Inv, SavesRight, SavedIsTrue, Right, Knows, Unsettled
<1>6. QED
  BY <1>2, <1>3, <1>4, <1>5 DEF Inv
LEMMA PositionClosesInv ==
  ASSUME Inv, NEW s \in Save, NEW p \in Pnl, PositionCloses(s, p) PROVE Inv'
<1> USE DEF row, truth
<1>1. es' \in EmergencyStopState /\ es'.dailyResetDate = es.dailyResetDate
      /\ es'.isTriggered = es.isTriggered
  <2>1. es \in EmergencyStopState /\ es' = RecordTradeResult(es, p)
    BY DEF PositionCloses, Inv, TypeOK
  <2>2. QED
    BY <2>1, ResultType DEF RecordTradeResult
<1>2. \A t \in Save : pc'[t] = IF t = s THEN "logging" ELSE pc[t]
  BY DEF PositionCloses, Inv, TypeOK
<1>3. TypeOK'
  <2>1. excused' \in BOOLEAN
    BY DEF PositionCloses, Inv, TypeOK
  <2>2. p \in Int
    BY MemoryAssumption
  <2>3. dayPnl' \in Int /\ allPnl' \in Int /\ streak' \in Nat
    BY <2>2 DEF PositionCloses, Inv, TypeOK
  <2>4. results' \in 0 .. MaxResults
    BY MemoryAssumption DEF PositionCloses, Inv, TypeOK
  <2>5. pc' \in [Save -> {"idle", "logging", "writing"}]
    BY DEF PositionCloses, Inv, TypeOK
  <2>6. QED
    BY <1>1, <2>1, <2>3, <2>4, <2>5 DEF PositionCloses, Inv, TypeOK
<1>4. Dates'
  BY <1>1, <1>2 DEF PositionCloses, Inv, Dates
<1>5. Phases'
  BY <1>1 DEF PositionCloses, Inv, Phases, Registered
<1>6. LossesRemembered'
  <2>1. SUFFICES ASSUME ~excused' PROVE Knows(es)'
    BY DEF LossesRemembered, PositionCloses
  <2>2. Knows(es) /\ es.dailyResetDate = today
    BY <2>1 DEF PositionCloses, Inv, LossesRemembered
  <2>3. /\ dayPnl' = dayPnl + p /\ allPnl' = allPnl + p
        /\ streak' = IF p <= 0 THEN streak + 1 ELSE 0
    BY <2>1 DEF PositionCloses
  <2>4. QED
    BY <2>2, <2>3 DEF PositionCloses, Knows, CheckDailyReset, RecordTradeResult
<1>7. pc'[s] = "logging"
  BY <1>2
<1>8. SavedIsTrue'
  BY <1>7 DEF SavedIsTrue, Unsettled
<1>9. SavesRight'
  <2>1. SUFFICES ASSUME ~excused'
                 PROVE \A t, u \in Save : pc'[t] = "writing" /\ pc'[u] = "writing" => t = u
    \* s is under way, so that no other save is the last one
    BY <1>7 DEF SavesRight
  <2>2. ~excused
    BY <2>1 DEF PositionCloses
  <2>3. \A t \in Save : pc'[t] = "writing" => pc[t] = "writing"
    BY <1>2
  <2>4. QED
    BY <2>2, <2>3 DEF Inv, SavesRight
<1>10. QED
  BY <1>3, <1>4, <1>5, <1>6, <1>8, <1>9 DEF Inv

-----------------------------------------------------------------------------
(* Saving *)

\* A save is made of what the engine knows.
LEMMA SaveTypes ==
  ASSUME Inv
  PROVE  /\ pc \in [Save -> {"idle", "logging", "writing"}]
         /\ json \in [Save -> EmergencyStopState \cup {NoState}]
  BY DEF Inv, TypeOK

LEMMA PersistFields ==
  ASSUME Inv, NEW s \in Save, Persist(s)
  PROVE  /\ \A t \in Save : pc'[t] = IF t = s THEN "writing" ELSE pc[t]
         /\ \A t \in Save : json'[t] = IF t = s THEN es ELSE json[t]
<1>1. pc' = [pc EXCEPT ![s] = "writing"] /\ json' = [json EXCEPT ![s] = es]
  BY DEF Persist
<1>2. QED
  BY <1>1, SaveTypes

LEMMA PersistInv ==
  ASSUME Inv, NEW s \in Save, Registered, Persist(s),
         status' = "running" => status = "running",
         TypeOK', Phases', UNCHANGED << saved, today, callback, es, truth >>
  PROVE  Inv'
<1> USE DEF truth
<1>1. \A t \in Save : /\ pc'[t] = IF t = s THEN "writing" ELSE pc[t]
                      /\ json'[t] = IF t = s THEN es ELSE json[t]
  BY PersistFields
<1>2. Dates'
  <2>1. saved' = saved /\ es' = es /\ today' = today
    OBVIOUS
  <2>2. es \in EmergencyStopState /\ es.dailyResetDate <= today
    BY DEF Inv, TypeOK, Dates
  <2>3. QED
    BY <1>1, <2>1, <2>2 DEF Inv, Dates
<1>3. LossesRemembered'
  <2>1. SUFFICES ASSUME ~excused' PROVE Knows(es)'
    BY DEF LossesRemembered
  <2>2. Knows(es)
    BY <2>1 DEF Persist, Inv, LossesRemembered
  <2>3. QED
    BY <2>2 DEF Knows
<1>4. SavedIsTrue'
  <2>1. pc'[s] # "idle"
    BY <1>1
  <2>2. QED
    BY <2>1 DEF SavedIsTrue, Unsettled
<1>5. ASSUME ~excused' PROVE \A t \in Save : pc[t] # "writing"
  BY <1>5 DEF Persist, Writing
<1>6. ASSUME ~excused' PROVE Right(json[s])'
  <2>1. Knows(es)
    BY <1>6 DEF Persist, Inv, LossesRemembered
  <2>2. es # NoState
    BY MemoryAssumption DEF Inv, TypeOK
  <2>3. json'[s] = es
    BY <1>1
  <2>4. QED
    BY <2>1, <2>2, <2>3 DEF Right, Knows
<1>7. SavesRight'
  <2>1. SUFFICES ASSUME ~excused'
                 PROVE  /\ \A t, u \in Save : pc'[t] = "writing" /\ pc'[u] = "writing" => t = u
                        /\ \A t \in Save : pc'[t] = "writing" => Right(json[t])'
    BY DEF SavesRight
  <2>2. \A t \in Save : pc'[t] = "writing" => t = s
    BY <1>1, <1>5, <2>1
  <2>3. QED
    BY <1>6, <2>1, <2>2
<1>8. QED
  BY <1>2, <1>3, <1>4, <1>7 DEF Inv

LEMMA PersistType ==
  ASSUME Inv, NEW s \in Save, Persist(s)
  PROVE  /\ pc' \in [Save -> {"idle", "logging", "writing"}]
         /\ json' \in [Save -> EmergencyStopState \cup {NoState}]
         /\ excused' \in BOOLEAN
<1>1. excused' \in BOOLEAN
  BY DEF Persist, Writing, Inv, TypeOK
<1>2. QED
  BY <1>1 DEF Persist, Inv, TypeOK

LEMMA SerializeInv ==
  ASSUME Inv, NEW s \in Save, Serialize(s) PROVE Inv'
<1> USE DEF row, truth
<1>1. CASE Registered
  <2>1. Persist(s)
    BY <1>1 DEF Serialize
  <2>2. TypeOK'
    BY <2>1, PersistType DEF Serialize, Inv, TypeOK
  <2>3. Phases'
    BY <1>1 DEF Serialize, Inv, Phases, Registered
  <2>4. QED
    BY <1>1, <2>1, <2>2, <2>3, PersistInv DEF Serialize
<1>2. CASE ~Registered
  <2>1. excused' = TRUE
    BY <1>2 DEF Serialize
  <2>2. \A t \in Save : pc'[t] = IF t = s THEN "idle" ELSE pc[t]
    BY <1>2 DEF Serialize, Inv, TypeOK
  <2>3. TypeOK'
    BY <1>2, <2>1 DEF Serialize, Inv, TypeOK
  <2>4. Dates'
    BY <1>2, <2>2 DEF Serialize, Inv, Dates
  <2>5. Phases'
    BY <1>2, <2>1, <2>2 DEF Serialize, Inv, Phases, Registered, Unsettled
  <2>6. QED
    BY <2>1, <2>3, <2>4, <2>5 DEF Inv, LossesRemembered, SavesRight, SavedIsTrue
<1>3. QED
  BY <1>1, <1>2

LEMMA LandsInv ==
  ASSUME Inv, NEW s \in Save, Lands(s) PROVE Inv'
<1> USE DEF history, truth
<1>1. \A t \in Save : /\ pc'[t] = IF t = s THEN "idle" ELSE pc[t]
                      /\ t # s => json'[t] = json[t]
  <2>1. pc' = [pc EXCEPT ![s] = "idle"] /\ json' = [json EXCEPT ![s] = NoState]
    BY DEF Lands
  <2>2. QED
    BY <2>1, SaveTypes
<1>2. saved' \in EmergencyStopState /\ saved'.dailyResetDate <= today
  BY DEF Lands, Inv, Dates
<1>3. TypeOK'
  BY <1>2 DEF Lands, Inv, TypeOK
<1>4. Dates'
  BY <1>1, <1>2 DEF Lands, Inv, Dates
<1>5. Phases'
  BY <1>1 DEF Lands, Inv, Phases, Registered, Unsettled
<1>6. LossesRemembered'
  BY DEF Lands, Inv, LossesRemembered, Registered, Knows
<1>7. SavedIsTrue'
  <2>1. SUFFICES ASSUME status = "running", ~Unsettled', ~excused PROVE Right(saved)'
    BY DEF SavedIsTrue, Lands
  <2>2. \A t \in Save : t # s => pc[t] = "idle"
    BY <1>1, <2>1 DEF Unsettled
  <2>3. Right(json[s])
    BY <2>1, <2>2 DEF Lands, Inv, SavesRight
  <2>4. QED
    BY <2>3 DEF Lands, Right, Knows
<1>8. SavesRight'
  \* s was the only one that wrote
  BY <1>1 DEF Lands, Inv, SavesRight
<1>9. QED
  BY <1>3, <1>4, <1>5, <1>6, <1>7, <1>8 DEF Inv

LEMMA SaveFailsInv ==
  ASSUME Inv, NEW s \in Save, SaveFails(s) PROVE Inv'
<1> USE DEF row, truth
<1>1. \A t \in Save : /\ pc'[t] = IF t = s THEN "idle" ELSE pc[t]
                      /\ t # s => json'[t] = json[t]
  <2>1. pc' = [pc EXCEPT ![s] = "idle"] /\ json' = [json EXCEPT ![s] = NoState]
    BY DEF SaveFails
  <2>2. QED
    BY <2>1, SaveTypes
<1>2. excused' = TRUE
  BY DEF SaveFails
<1>3. TypeOK'
  BY <1>2 DEF SaveFails, Inv, TypeOK
<1>4. Dates'
  BY <1>1 DEF SaveFails, Inv, Dates
<1>5. Phases'
  BY <1>1, <1>2 DEF SaveFails, Inv, Phases, Registered, Unsettled
<1>6. QED
  BY <1>2, <1>3, <1>4, <1>5 DEF Inv, LossesRemembered, SavesRight, SavedIsTrue

-----------------------------------------------------------------------------
(* Stopping *)

LEMMA StopInv ==
  ASSUME Inv, NEW s \in Save, Stop(s) \/ Shutdown(s) PROVE Inv'
<1> USE DEF row, truth
<1>1. Persist(s) /\ Registered
  BY DEF Stop, Shutdown, Registered
<1>2. TypeOK'
  BY <1>1, PersistType DEF Stop, Shutdown, Inv, TypeOK
<1>3. Phases'
  BY DEF Stop, Shutdown, Inv, Phases, Registered
<1>4. QED
  BY <1>1, <1>2, <1>3, PersistInv DEF Stop, Shutdown

LEMMA FinishStopInv ==
  ASSUME Inv, FinishStop PROVE Inv'
<1> USE DEF row, saves, history, truth
<1>1. es' \in EmergencyStopState /\ es'.dailyResetDate <= today
  BY InitialStateType DEF FinishStop, InitialState, Inv, TypeOK
<1>2. TypeOK' /\ Dates'
  BY <1>1 DEF FinishStop, Inv, TypeOK, Dates
<1>3. Phases' /\ LossesRemembered'
  BY DEF FinishStop, Phases, LossesRemembered, Registered
<1>4. SavesRight' /\ SavedIsTrue'
  BY DEF FinishStop, Inv, SavesRight, SavedIsTrue, Right, Knows, Unsettled
<1>5. QED
  BY <1>2, <1>3, <1>4 DEF Inv

LEMMA LoseMemoryInv ==
  ASSUME Inv, LoseMemory PROVE Inv'
<1> USE DEF row, truth
<1>1. es' \in EmergencyStopState /\ es'.dailyResetDate <= today
  BY InitialStateType DEF LoseMemory, InitialState, Inv, TypeOK
<1>2. (\A s \in Save : pc'[s] = "idle") /\ ~Unsettled'
  BY DEF LoseMemory, Unsettled
<1>3. TypeOK'
  <2>1. crashes' \in 0 .. MaxCrashes
    BY MemoryAssumption DEF LoseMemory, Inv, TypeOK
  <2>2. excused' \in BOOLEAN
    BY DEF LoseMemory, Unsettled, Inv, TypeOK
  <2>3. pc' \in [Save -> {"idle", "logging", "writing"}]
        /\ json' \in [Save -> EmergencyStopState \cup {NoState}]
    BY DEF LoseMemory
  <2>4. QED
    BY <1>1, <2>1, <2>2, <2>3 DEF LoseMemory, Inv, TypeOK
<1>4. Dates'
  BY <1>1, <1>2 DEF LoseMemory, Inv, Dates
<1>5. Phases' /\ LossesRemembered'
  BY <1>2 DEF LoseMemory, Phases, LossesRemembered, Registered
<1>6. SavesRight'
  BY <1>2 DEF SavesRight
<1>7. SavedIsTrue'
  BY DEF LoseMemory, Inv, SavedIsTrue, Right, Knows
<1>8. QED
  BY <1>3, <1>4, <1>5, <1>6, <1>7 DEF Inv

LEMMA RestartInv ==
  ASSUME Inv, Restart PROVE Inv'
<1> USE DEF row, saves, history, truth
<1>1. TypeOK' /\ Dates'
  BY DEF Restart, Inv, TypeOK, Dates
<1>2. Phases' /\ LossesRemembered'
  <2>1. ~Unsettled /\ ~Unsettled' /\ callback # "closing"
    BY DEF Restart, Inv, Phases, Unsettled
  <2>2. QED
    BY <2>1 DEF Restart, Inv, Phases, LossesRemembered, Registered
<1>3. SavesRight' /\ SavedIsTrue'
  BY DEF Restart, Inv, SavesRight, SavedIsTrue, Right, Knows, Unsettled
<1>4. QED
  BY <1>1, <1>2, <1>3 DEF Inv

-----------------------------------------------------------------------------
(* A change of configuration *)

LEMMA ConfigInv ==
  ASSUME Inv, ConfigRead \/ ConfigWrite PROVE Inv'
<1> USE DEF row, saves, truth, history
<1>1. TypeOK' /\ Dates' /\ Phases'
  BY DEF ConfigRead, ConfigWrite, Inv, TypeOK, Dates, Phases, Registered, Unsettled
<1>2. LossesRemembered'
  BY DEF ConfigRead, ConfigWrite, Inv, LossesRemembered, Registered, Knows
<1>3. SavesRight'
  BY DEF ConfigRead, ConfigWrite, Inv, SavesRight, Right, Knows
<1>4. SavedIsTrue'
  BY DEF ConfigRead, ConfigWrite, Inv, SavedIsTrue, Right, Knows, Unsettled
<1>5. QED
  BY <1>1, <1>2, <1>3, <1>4 DEF Inv

-----------------------------------------------------------------------------
(* Midnight *)

\* Knows, of sums that are given.
KnowsOn(state, d, day, all, losses) ==
  LET now == CheckDailyReset(state, d)
  IN  now.totalPnl = all /\ now.dailyPnl = day /\ now.consecutiveLosses = losses

\* What is known of a day is known of the next one, where the day begins at 0.
LEMMA MidnightKnows ==
  ASSUME NEW state \in EmergencyStopState, NEW d \in Nat, NEW day, NEW all, NEW losses,
         state.dailyResetDate <= d, KnowsOn(state, d, day, all, losses)
  PROVE  KnowsOn(state, d + 1, 0, all, 0)
<1>1. state.totalPnl = all
  BY DEF KnowsOn, CheckDailyReset, EmergencyStopState
<1>2. state.dailyResetDate # d + 1
  BY Fields
<1>3. QED
  BY <1>1, <1>2 DEF KnowsOn, CheckDailyReset, EmergencyStopState

LEMMA NewDayInv ==
  ASSUME Inv, NewDay PROVE Inv'
<1> USE DEF row, saves
<1>1. today \in Nat /\ today' = today + 1 /\ allPnl' = allPnl /\ dayPnl' = 0 /\ streak' = 0
  BY MemoryAssumption DEF NewDay, Inv, TypeOK
<1>2. TypeOK'
  <2>1. today' \in 0 .. MaxDay
    BY MemoryAssumption DEF NewDay, Inv, TypeOK
  <2>2. QED
    BY <2>1 DEF NewDay, Inv, TypeOK
<1>3. Dates'
  BY <1>1, Fields, MemoryAssumption DEF NewDay, Inv, TypeOK, Dates
<1>4. Phases'
  BY DEF NewDay, Inv, Phases, Registered, Unsettled
<1>5. ASSUME NEW state \in EmergencyStopState, state.dailyResetDate <= today, Knows(state)
      PROVE  KnowsOn(state, today', dayPnl', allPnl', streak')
  <2>1. KnowsOn(state, today, dayPnl, allPnl, streak)
    BY <1>5 DEF Knows, KnowsOn
  <2>2. QED
    BY <1>1, <1>5, <2>1, MidnightKnows
<1>6. LossesRemembered'
  <2>1. SUFFICES ASSUME Registered, ~excused PROVE Knows(es)'
    BY DEF NewDay, LossesRemembered, Registered
  <2>2. es \in EmergencyStopState /\ es.dailyResetDate <= today /\ Knows(es)
    BY <2>1 DEF Inv, TypeOK, Dates, LossesRemembered
  <2>3. KnowsOn(es, today', dayPnl', allPnl', streak')
    BY <1>5, <2>2
  <2>4. QED
    BY <2>3 DEF NewDay, Knows, KnowsOn
<1>7. SavesRight'
  <2>1. SUFFICES ASSUME ~excused, status = "running", NEW s \in Save, pc[s] = "writing",
                        \A t \in Save : t # s => pc[t] = "idle"
                 PROVE  Right(json[s])'
    BY DEF NewDay, Inv, SavesRight
  <2>2. json[s] \in EmergencyStopState /\ json[s].dailyResetDate <= today
    BY <2>1 DEF Inv, Dates
  <2>3. json[s] # NoState /\ Knows(json[s])
    BY <2>1, <2>2, MemoryAssumption DEF Inv, SavesRight, Right
  <2>4. json' = json
    BY DEF NewDay
  <2>5. KnowsOn(json[s], today', dayPnl', allPnl', streak')
    BY <1>5, <2>2, <2>3
  <2>6. QED
    BY <2>3, <2>4, <2>5 DEF Right, Knows, KnowsOn
<1>8. SavedIsTrue'
  <2>1. SUFFICES ASSUME Right(saved) PROVE Right(saved)'
    BY DEF NewDay, Inv, SavedIsTrue, Unsettled
  <2>2. saved' = saved
    BY DEF NewDay
  <2>3. CASE saved = NoState
    <3>1. allPnl = 0
      BY <2>1, <2>3 DEF Right, Knows, CheckDailyReset, InitialState
    <3>2. Knows(InitialState(today))'
      BY <1>1, <3>1 DEF Knows, CheckDailyReset, InitialState
    <3>3. QED
      BY <2>2, <2>3, <3>2 DEF Right
  <2>4. CASE saved # NoState
    <3>1. saved \in EmergencyStopState /\ saved.dailyResetDate <= today /\ Knows(saved)
      BY <2>1, <2>4 DEF Inv, TypeOK, Dates, Right
    <3>2. KnowsOn(saved, today', dayPnl', allPnl', streak')
      BY <1>5, <3>1
    <3>3. QED
      BY <2>2, <2>4, <3>2 DEF Right, Knows, KnowsOn
  <2>5. QED
    BY <2>3, <2>4
<1>9. QED
  BY <1>2, <1>3, <1>4, <1>6, <1>7, <1>8 DEF Inv

-----------------------------------------------------------------------------
(* The theorems *)

LEMMA NextInv ==
  ASSUME Inv, [Next]_vars PROVE Inv'
<1>1. CASE UserStart
  BY <1>1, UserStartInv
<1>2. CASE BuildEngine
  BY <1>2, BuildEngineInv
<1>3. CASE BuildFails
  BY <1>3, BuildFailsInv
<1>4. ASSUME NEW n \in 0 .. MaxApiErrorsPerHour, Consult(n) PROVE Inv'
  <2>1. n \in Nat
    BY <1>4, EmergencyAssumption
  <2>2. QED
    BY <1>4, <2>1, ConsultInv
<1>5. CASE CallbackReports
  BY <1>5, CallbackReportsInv
<1>6. CASE ApiFails
  BY <1>6, ApiFailsInv
<1>7. ASSUME NEW s \in Save, SaveStep(s) PROVE Inv'
  <2>1. ASSUME NEW p \in Pnl, PositionCloses(s, p) PROVE Inv'
    BY <2>1, PositionClosesInv
  <2>2. CASE Serialize(s)
    BY <2>2, SerializeInv
  <2>3. CASE Lands(s)
    BY <2>3, LandsInv
  <2>4. CASE SaveFails(s)
    BY <2>4, SaveFailsInv
  <2>5. CASE Stop(s) \/ Shutdown(s)
    BY <2>5, StopInv
  <2>6. QED
    BY <1>7, <2>1, <2>2, <2>3, <2>4, <2>5 DEF SaveStep
<1>8. CASE FinishStop
  BY <1>8, FinishStopInv
<1>9. CASE Exit \/ Crash
  BY <1>9, LoseMemoryInv DEF Exit, Crash
<1>10. CASE Restart
  BY <1>10, RestartInv
<1>11. CASE NewDay
  BY <1>11, NewDayInv
<1>12. CASE ConfigRead \/ ConfigWrite
  BY <1>12, ConfigInv
<1>13. CASE UNCHANGED vars
  <2>1. UNCHANGED << status, saved, today, bot, callback, es, pc, json, config, crashes, results,
                     dayPnl, allPnl, streak, excused >>
    BY <1>13 DEF vars, row, saves, history, truth
  <2>2. TypeOK' /\ Dates' /\ Phases' /\ LossesRemembered'
    BY <2>1 DEF Inv, TypeOK, Dates, Phases, LossesRemembered, Registered, Unsettled, Knows
  <2>3. SavesRight' /\ SavedIsTrue'
    BY <2>1 DEF Inv, SavesRight, SavedIsTrue, Right, Knows, Unsettled
  <2>4. QED
    BY <2>2, <2>3 DEF Inv
<1>14. QED
  BY <1>1, <1>2, <1>3, <1>4, <1>5, <1>6, <1>7, <1>8, <1>9, <1>10, <1>11, <1>12, <1>13
  DEF Next

LEMMA AlwaysInv == Spec => []Inv
<1>1. Init => Inv
  BY InvInit
<1>2. Inv /\ [Next]_vars => Inv'
  BY NextInv
<1>3. QED
  BY <1>1, <1>2, PTL DEF Spec

\* The types hold: in particular what is saved, or about to be, is a whole state.
THEOREM LossTypes == Spec => []TypeOK
<1>1. Inv => TypeOK
  BY DEF Inv
<1>2. QED
  BY <1>1, AlwaysInv, PTL

\* The engine of a bot knows every result since the user's last start, whatever
\* midnights, shutdowns and crashes came between, unless one of the things happened
\* that make a history excused (emergency-stop.ts:10).
THEOREM LossesAreRemembered == Spec => []LossesRemembered
<1>1. Inv => LossesRemembered
  BY DEF Inv
<1>2. QED
  BY <1>1, AlwaysInv, PTL

\* When no save is under way, the row holds every result since the user's last
\* start, with the trigger or without, however many saves, days and crashes led to
\* it, unless the history is excused (emergency-stop.ts:339).
THEOREM SavedIsRight == Spec => []SavedIsTrue
<1>1. Inv => SavedIsTrue
  BY DEF Inv
<1>2. QED
  BY <1>1, AlwaysInv, PTL
=============================================================================
