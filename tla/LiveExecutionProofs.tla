------------------------- MODULE LiveExecutionProofs -------------------------
(***************************************************************************)
(* Proofs about LiveExecution, for any numbers of pools, positions, closes *)
(* in flight and transactions, whatever lands, late or never.              *)
(***************************************************************************)
EXTENDS LiveExecution, Sums

\* An entry holds a position of its own, of which nothing is on the chain before its
\* transaction has been sent.
OpenerHeld ==
  /\ opc = "idle" => opos = NoPosition
  /\ opc # "idle" =>
       /\ opos \in Position /\ pool[opos] \in Pool
       /\ mem[opos] = "none" /\ opos \notin doubtful
  /\ opc \notin {"idle", "create"} => account[opos] = "none"

\* A close works on a position that was opened, and comes to its end when the last
\* part is out.
CloserHeld == \A c \in Closer :
  /\ cpc[c] # "idle" =>
       cpos[c] \in Position /\ mem[cpos[c]] # "none"
  /\ cpc[c] \in {"send", "sent"} => cleft[c] # 0
  /\ cpc[c] = "price" => account[cpos[c]] = "gone"
  /\ c \in through => cpc[c] = "sent" /\ (cleft[c] = 1 => account[cpos[c]] = "gone")

\* A transaction in flight is that of the entry or the close that waits for it, or
\* one they have given up.
FlightHeld == \A t \in flight :
  /\ t.kind = "create" =>
       /\ t.pos \in Position /\ pool[t.pos] \in Pool
       /\ (t.pos = opos /\ opc = "create") \/ t.pos \in doubtful \/ mem[t.pos] # "none"
  /\ t.kind = "remove" =>
       /\ t.pos \in Position /\ t.n # 0
       /\ t.by \in Closer =>
            /\ cpc[t.by] = "sent" /\ cpos[t.by] = t.pos /\ cleft[t.by] = t.n
            /\ t.by \notin through

\* What the executor remembers of a position, and what is on the chain of it.
BookHeld == \A p \in Position :
  /\ account[p] # "none" \/ p \in doubtful => pool[p] \in Pool
  /\ mem[p] # "none" => account[p] # "none"
  /\ mem[p] = "CLOSED" => account[p] = "gone"
  /\ parts[p] > 0 <=> account[p] = "open"
  /\ parts[p] > 0 => p \in Active \/ p = opos \/ p \in doubtful
  /\ p \in todo => mem[p] # "none"
  /\ p \in unheard => mem[p] \in {"CLOSED", "deleted"}

ExecInv == TypeOK /\ OpenerHeld /\ CloserHeld /\ FlightHeld /\ BookHeld

-----------------------------------------------------------------------------
(* Types *)

LEMMA LessType == ASSUME NEW a \in Nat, NEW b \in Nat PROVE Less(a, b) \in Nat
BY DEF Less

LEMMA OpenedType ==
  ASSUME NEW x \in CircuitBreakerState, NEW q \in Pool, NEW n \in Nat
  PROVE  RecordPositionOpened(x, q, n) \in CircuitBreakerState
BY DEF RecordPositionOpened, CircuitBreakerState

LEMMA CountedType ==
  ASSUME NEW x \in CircuitBreakerState
  PROVE  Counted(x) \in CircuitBreakerState
<1>1. x.recentTx \in Nat /\ Lesser(x.recentTx, MaxTxPerMinute) \in Nat
  BY BreakerAssumption DEF CircuitBreakerState, Lesser
<1> QED BY <1>1 DEF Counted, CircuitBreakerState

LEMMA ClosedType ==
  ASSUME NEW x \in CircuitBreakerState, NEW q \in Pool, NEW n \in Nat
  PROVE  RecordPositionClosed(x, q, n) \in CircuitBreakerState
<1>1. /\ x.count \in Nat /\ x.exposure \in Nat /\ x.recentTx \in Nat
      /\ x.byPool \in [Pool -> Nat]
  BY DEF CircuitBreakerState
<1>2. Less(x.count, 1) \in Nat /\ Less(x.exposure, n) \in Nat /\ Less(x.byPool[q], 1) \in Nat
  BY <1>1, LessType
<1> QED BY <1>1, <1>2 DEF RecordPositionClosed, CircuitBreakerState

LEMMA RestedType ==
  ASSUME NEW x \in CircuitBreakerState
  PROVE  [x EXCEPT !.cooling = FALSE, !.recentTx = 0] \in CircuitBreakerState
<1> DEFINE y == [x EXCEPT !.cooling = FALSE]
<1>1. y \in CircuitBreakerState
  BY DEF CircuitBreakerState
<1>2. [y EXCEPT !.recentTx = 0] \in CircuitBreakerState
  <2> HIDE DEF y
  <2> QED BY <1>1 DEF CircuitBreakerState
<1> QED BY <1>2

LEMMA FailureType ==
  ASSUME failures \in 0 .. MaxTxFailures, RecordTxFailure
  PROVE  failures' \in 0 .. MaxTxFailures
BY ExecutionAssumption DEF RecordTxFailure, Lesser

-----------------------------------------------------------------------------
(* An entry *)

LEMMA EnterKeeps ==
  ASSUME ExecInv, NEW q \in Pool, NEW p \in Position, Enter(q, p)
  PROVE  ExecInv'
<1> USE DEF ExecInv, outsideEntry, chain, book, opener, closers, emergency, safety, history
<1>1. TypeOK'
  <2>1. triggered' \in BOOLEAN
    BY DEF Enter, Halted
  <2>2. /\ opc' \in {"idle", "size"} /\ opos' \in Position \cup {NoPosition}
        /\ pool' \in [Position -> Pool \cup {NoPool}]
    BY DEF Enter, OpenerHeld, TypeOK
  <2> QED BY <2>1, <2>2 DEF Enter, TypeOK
<1>2. OpenerHeld'
  BY ExecutionAssumption DEF Enter, TypeOK, OpenerHeld, BookHeld
<1>3. CloserHeld'
  BY ExecutionAssumption DEF Enter, TypeOK, CloserHeld
<1>4. FlightHeld'
  BY ExecutionAssumption DEF Enter, TypeOK, FlightHeld
<1>5. BookHeld'
  BY ExecutionAssumption DEF Enter, TypeOK, OpenerHeld, BookHeld, Active
<1> QED BY <1>1, <1>2, <1>3, <1>4, <1>5

LEMMA SizeEntryKeeps ==
  ASSUME ExecInv, SizeEntry
  PROVE  ExecInv'
<1> USE DEF ExecInv, outsideEntry, chain, book, opener, closers, emergency, safety, history
<1>1. TypeOK'
  <2>1. triggered' \in BOOLEAN
    BY DEF SizeEntry, Halted
  <2>2. CalculatePositionSize(wallet) \in Nat
    BY ExecutionAssumption, LessType DEF CalculatePositionSize, Lesser, TypeOK
  <2>3. asked' \in [Position -> Nat]
    BY <2>2 DEF SizeEntry, TypeOK
  <2>4. opc' \in {"idle", "fund"} /\ opos' \in Position \cup {NoPosition}
    BY DEF SizeEntry, EntryEnds, TypeOK
  <2> QED BY <2>1, <2>3, <2>4 DEF SizeEntry, TypeOK
<1>2. OpenerHeld'
  BY ExecutionAssumption DEF SizeEntry, TypeOK, OpenerHeld, EntryEnds
<1>3. CloserHeld'
  BY ExecutionAssumption DEF SizeEntry, TypeOK, CloserHeld, EntryEnds
<1>4. FlightHeld'
  BY ExecutionAssumption DEF SizeEntry, TypeOK, FlightHeld, EntryEnds
<1>5. BookHeld'
  BY ExecutionAssumption DEF SizeEntry, TypeOK, OpenerHeld, BookHeld, EntryEnds, Active
<1> QED BY <1>1, <1>2, <1>3, <1>4, <1>5

LEMMA FundSessionKeeps ==
  ASSUME ExecInv, FundSession
  PROVE  ExecInv'
<1> USE DEF ExecInv, outsideEntry, chain, book, opener, closers, emergency, safety, history
<1>1. TypeOK'
  <2> DEFINE n == Lesser(asked[opos] + Rent - signer, wallet - MinWalletRent)
  <2>1. opos \in Position /\ asked[opos] \in Nat
    BY DEF FundSession, OpenerHeld, TypeOK
  <2>2. asked[opos] + Rent - signer > 0 /\ wallet - MinWalletRent > 0 => n \in Nat
    BY <2>1, ExecutionAssumption DEF Lesser, TypeOK
  <2>3. \/ flight' = flight
        \/ n \in Nat /\ flight' = flight \cup {Transfer(n)}
    <3>1. \/ flight' = flight
          \/ /\ asked[opos] + Rent - signer > 0 /\ wallet - MinWalletRent > 0
             /\ flight' = flight \cup {Transfer(n)}
      BY DEF FundSession, EntryEnds
    <3> HIDE DEF n
    <3> QED BY <2>2, <3>1
  <2>4. \A k \in Nat : Transfer(k) \in [kind : {"transfer", "create", "remove"},
                       pos : Position \cup {NoPosition}, n : Nat,
                       by : Closer \cup {NoCloser}]
    BY DEF Transfer
  <2>5. flight' \subseteq [kind : {"transfer", "create", "remove"},
                       pos : Position \cup {NoPosition}, n : Nat,
                       by : Closer \cup {NoCloser}]
    BY <2>3, <2>4 DEF TypeOK
  <2>6. opc' \in {"idle", "check", "transfer"} /\ opos' \in Position \cup {NoPosition}
    BY DEF FundSession, EntryEnds, TypeOK
  <2> QED BY <2>5, <2>6 DEF FundSession, TypeOK
<1>2. OpenerHeld'
  BY ExecutionAssumption DEF FundSession, Lesser, Transfer, TypeOK, OpenerHeld, EntryEnds
<1>3. CloserHeld'
  BY ExecutionAssumption DEF FundSession, Lesser, Transfer, TypeOK, CloserHeld, EntryEnds
<1>4. FlightHeld'
  BY ExecutionAssumption DEF FundSession, Lesser, Transfer, TypeOK, FlightHeld, EntryEnds
<1>5. BookHeld'
  BY ExecutionAssumption DEF FundSession, TypeOK, OpenerHeld, BookHeld, EntryEnds, Active
<1> QED BY <1>1, <1>2, <1>3, <1>4, <1>5

LEMMA FundingAnsweredKeeps ==
  ASSUME ExecInv, FundingAnswered
  PROVE  ExecInv'
<1> USE DEF ExecInv, outsideEntry, chain, book, opener, closers, emergency, safety, history
<1>1. TypeOK'
  BY ExecutionAssumption DEF FundingAnswered, TypeOK, EntryEnds
<1>2. OpenerHeld'
  BY ExecutionAssumption DEF FundingAnswered, TypeOK, OpenerHeld, EntryEnds
<1>3. CloserHeld'
  BY ExecutionAssumption DEF FundingAnswered, TypeOK, CloserHeld, EntryEnds
<1>4. FlightHeld'
  BY ExecutionAssumption DEF FundingAnswered, TypeOK, FlightHeld, EntryEnds
<1>5. BookHeld'
  BY ExecutionAssumption DEF FundingAnswered, TypeOK, OpenerHeld, BookHeld, EntryEnds, Active
<1> QED BY <1>1, <1>2, <1>3, <1>4, <1>5

LEMMA CheckSignerKeeps ==
  ASSUME ExecInv, CheckSigner
  PROVE  ExecInv'
<1> USE DEF ExecInv, outsideEntry, chain, book, opener, closers, emergency, safety, history
<1>1. TypeOK'
  BY ExecutionAssumption DEF CheckSigner, Resize, Lesser, Less, TypeOK, EntryEnds
<1>2. OpenerHeld'
  BY ExecutionAssumption DEF CheckSigner, Resize, Lesser, Less, TypeOK, OpenerHeld, EntryEnds
<1>3. CloserHeld'
  BY ExecutionAssumption DEF CheckSigner, Resize, Lesser, Less, TypeOK, CloserHeld, EntryEnds
<1>4. FlightHeld'
  BY ExecutionAssumption DEF CheckSigner, Resize, Lesser, Less, TypeOK, FlightHeld, EntryEnds
<1>5. BookHeld'
  BY ExecutionAssumption DEF CheckSigner, TypeOK, OpenerHeld, BookHeld, EntryEnds, Active
<1> QED BY <1>1, <1>2, <1>3, <1>4, <1>5

LEMMA OpenThrowsKeeps ==
  ASSUME ExecInv, OpenThrows
  PROVE  ExecInv'
<1> USE DEF ExecInv, outsideEntry, chain, book, opener, closers, emergency, safety, history
<1>1. TypeOK'
  <2>1. failures' \in 0 .. MaxTxFailures
    BY FailureType DEF OpenThrows, TypeOK
  <2> QED BY <2>1 DEF OpenThrows, EntryEnds, TypeOK
<1>2. OpenerHeld'
  BY ExecutionAssumption DEF OpenThrows, TypeOK, OpenerHeld, EntryEnds
<1>3. CloserHeld'
  BY ExecutionAssumption DEF OpenThrows, TypeOK, CloserHeld, EntryEnds
<1>4. FlightHeld'
  BY ExecutionAssumption DEF OpenThrows, TypeOK, FlightHeld, EntryEnds
<1>5. BookHeld'
  BY ExecutionAssumption DEF OpenThrows, TypeOK, OpenerHeld, BookHeld, EntryEnds, Active
<1> QED BY <1>1, <1>2, <1>3, <1>4, <1>5

LEMMA PoolNotFoundKeeps ==
  ASSUME ExecInv, PoolNotFound
  PROVE  ExecInv'
<1> USE DEF ExecInv, outsideEntry, chain, book, opener, closers, emergency, safety, history
<1>1. TypeOK'
  BY ExecutionAssumption DEF PoolNotFound, TypeOK, EntryEnds
<1>2. OpenerHeld'
  BY ExecutionAssumption DEF PoolNotFound, TypeOK, OpenerHeld, EntryEnds
<1>3. CloserHeld'
  BY ExecutionAssumption DEF PoolNotFound, TypeOK, CloserHeld, EntryEnds
<1>4. FlightHeld'
  BY ExecutionAssumption DEF PoolNotFound, TypeOK, FlightHeld, EntryEnds
<1>5. BookHeld'
  BY ExecutionAssumption DEF PoolNotFound, TypeOK, OpenerHeld, BookHeld, EntryEnds, Active
<1> QED BY <1>1, <1>2, <1>3, <1>4, <1>5

LEMMA SendCreateKeeps ==
  ASSUME ExecInv, SendCreate
  PROVE  ExecInv'
<1> USE DEF ExecInv, outsideEntry, chain, book, opener, closers, emergency, safety, history
<1>1. TypeOK'
  <2>1. opos \in Position /\ entry[opos] \in Nat
    BY DEF SendCreate, OpenerHeld, TypeOK
  <2>2. Create(opos, entry[opos]) \in [kind : {"transfer", "create", "remove"},
                       pos : Position \cup {NoPosition}, n : Nat,
                       by : Closer \cup {NoCloser}]
    BY <2>1 DEF Create
  <2> QED BY <2>2 DEF SendCreate, TypeOK
<1>2. OpenerHeld'
  BY ExecutionAssumption DEF SendCreate, Create, TypeOK, OpenerHeld
<1>3. CloserHeld'
  BY ExecutionAssumption DEF SendCreate, Create, TypeOK, CloserHeld
<1>4. FlightHeld'
  BY ExecutionAssumption DEF SendCreate, Create, TypeOK, OpenerHeld, FlightHeld
<1>5. BookHeld'
  BY ExecutionAssumption DEF SendCreate, Create, TypeOK, BookHeld, Active
<1> QED BY <1>1, <1>2, <1>3, <1>4, <1>5

LEMMA CreatedKeeps ==
  ASSUME ExecInv, Created
  PROVE  ExecInv'
<1> USE DEF ExecInv, outsideEntry, chain, book, opener, closers, emergency, safety, history
<1>1. TypeOK'
  <2>1. /\ opos \in Position /\ pool[opos] \in Pool
        /\ entry[opos] \in Nat /\ asked[opos] \in Nat
    BY DEF Created, OpenerHeld, TypeOK
  <2>2. cb' \in CircuitBreakerState
    BY <2>1, OpenedType, CountedType DEF Created, TypeOK
  <2> QED BY <2>1, <2>2 DEF Created, EntryEnds, TypeOK
<1>2. OpenerHeld'
  BY ExecutionAssumption DEF Created, TypeOK, OpenerHeld, EntryEnds
<1>3. CloserHeld'
  BY ExecutionAssumption DEF Created, TypeOK, CloserHeld, EntryEnds
<1>4. FlightHeld'
  BY ExecutionAssumption DEF Created, TypeOK, FlightHeld, EntryEnds
<1>5. BookHeld'
  BY ExecutionAssumption DEF Created, TypeOK, OpenerHeld, BookHeld, EntryEnds, Active
<1> QED BY <1>1, <1>2, <1>3, <1>4, <1>5

LEMMA CreateFailsKeeps ==
  ASSUME ExecInv, CreateFails
  PROVE  ExecInv'
<1> USE DEF ExecInv, outsideEntry, chain, book, opener, closers, emergency, safety, history
<1>1. TypeOK'
  <2>1. failures' \in 0 .. MaxTxFailures
    BY FailureType DEF CreateFails, TypeOK
  <2>2. doubtful' \subseteq Position
    BY DEF CreateFails, OpenerHeld, TypeOK
  <2> QED BY <2>1, <2>2 DEF CreateFails, EntryEnds, TypeOK
<1>2. OpenerHeld'
  BY ExecutionAssumption DEF CreateFails, TypeOK, OpenerHeld, EntryEnds
<1>3. CloserHeld'
  BY ExecutionAssumption DEF CreateFails, TypeOK, CloserHeld, EntryEnds
<1>4. FlightHeld'
  BY ExecutionAssumption DEF CreateFails, TypeOK, FlightHeld, EntryEnds
<1>5. BookHeld'
  BY ExecutionAssumption DEF CreateFails, TypeOK, OpenerHeld, BookHeld, EntryEnds, Active
<1> QED BY <1>1, <1>2, <1>3, <1>4, <1>5

-----------------------------------------------------------------------------
(* A close *)

LEMMA BeginCloseKeeps ==
  ASSUME ExecInv, NEW c \in Closer, NEW p \in Position, BeginClose(c, p)
  PROVE  ExecInv'
<1> USE DEF ExecInv, outsideClose, closeHistory, chain, book, opener, closers, emergency, safety, history
<1>1. TypeOK'
  <2>1. course' \in [Position -> {"smooth", "slipped", "outside", "overlapped"}]
    BY DEF BeginClose, Free, Meet, TypeOK
  <2> QED BY <2>1, ExecutionAssumption DEF BeginClose, Free, TypeOK
<1>2. OpenerHeld'
  BY ExecutionAssumption DEF BeginClose, Free, Active, TypeOK, OpenerHeld
<1>3. CloserHeld'
  BY ExecutionAssumption DEF BeginClose, Free, Active, TypeOK, CloserHeld
<1>4. FlightHeld'
  BY ExecutionAssumption DEF BeginClose, Free, Active, TypeOK, FlightHeld
<1>5. BookHeld'
  BY ExecutionAssumption DEF BeginClose, Free, Active, TypeOK, BookHeld
<1> QED BY <1>1, <1>2, <1>3, <1>4, <1>5

LEMMA BeginCheckKeeps ==
  ASSUME ExecInv, NEW c \in Closer, NEW p \in Position, BeginCheck(c, p)
  PROVE  ExecInv'
<1> USE DEF ExecInv, outsideClose, closeHistory, chain, book, opener, closers, emergency, safety, history
<1>1. TypeOK'
  BY ExecutionAssumption DEF BeginCheck, Free, Active, TypeOK
<1>2. OpenerHeld'
  BY ExecutionAssumption DEF BeginCheck, Free, Active, TypeOK, OpenerHeld
<1>3. CloserHeld'
  BY ExecutionAssumption DEF BeginCheck, Free, Active, TypeOK, CloserHeld
<1>4. FlightHeld'
  BY ExecutionAssumption DEF BeginCheck, Free, Active, TypeOK, FlightHeld
<1>5. BookHeld'
  BY ExecutionAssumption DEF BeginCheck, Free, Active, TypeOK, BookHeld
<1> QED BY <1>1, <1>2, <1>3, <1>4, <1>5

LEMMA KeepPositionKeeps ==
  ASSUME ExecInv, NEW c \in Closer, KeepPosition(c)
  PROVE  ExecInv'
<1> USE DEF ExecInv, outsideClose, closeHistory, chain, book, opener, closers, emergency, safety, history
<1>1. TypeOK'
  BY ExecutionAssumption DEF KeepPosition, TypeOK, CloseEnds
<1>2. OpenerHeld'
  BY ExecutionAssumption DEF KeepPosition, TypeOK, OpenerHeld, CloseEnds
<1>3. CloserHeld'
  BY ExecutionAssumption DEF KeepPosition, TypeOK, CloserHeld, CloseEnds
<1>4. FlightHeld'
  BY ExecutionAssumption DEF KeepPosition, TypeOK, FlightHeld, CloseEnds
<1>5. BookHeld'
  BY ExecutionAssumption DEF KeepPosition, TypeOK, BookHeld, CloseEnds, Active
<1> QED BY <1>1, <1>2, <1>3, <1>4, <1>5

LEMMA ExitFoundKeeps ==
  ASSUME ExecInv, NEW c \in Closer, ExitFound(c)
  PROVE  ExecInv'
<1> USE DEF ExecInv, outsideClose, closeHistory, chain, book, opener, closers, emergency, safety, history
<1>1. TypeOK'
  <2>1. cpos[c] \in Position
    BY DEF ExitFound, CloserHeld, TypeOK
  <2>2. course' \in [Position -> {"smooth", "slipped", "outside", "overlapped"}]
    BY <2>1 DEF ExitFound, Meet, TypeOK
  <2> QED BY <2>2 DEF ExitFound, TypeOK
<1>2. OpenerHeld'
  BY ExecutionAssumption DEF ExitFound, TypeOK, OpenerHeld
<1>3. CloserHeld'
  BY ExecutionAssumption DEF ExitFound, TypeOK, CloserHeld
<1>4. FlightHeld'
  BY ExecutionAssumption DEF ExitFound, TypeOK, FlightHeld
<1>5. BookHeld'
  BY ExecutionAssumption DEF ExitFound, TypeOK, BookHeld, Active
<1> QED BY <1>1, <1>2, <1>3, <1>4, <1>5

LEMMA FindNothingKeeps ==
  ASSUME ExecInv, NEW c \in Closer, FindNothing(c)
  PROVE  ExecInv'
<1> USE DEF ExecInv, outsideClose, closeHistory, chain, book, opener, closers, emergency, safety, history
<1>1. TypeOK'
  <2>1. cpos[c] \in Position /\ pool[cpos[c]] \in Pool /\ entry[cpos[c]] \in Nat
    BY DEF FindNothing, Unheard, CloserHeld, BookHeld, TypeOK
  <2>2. cb' \in CircuitBreakerState
    BY <2>1, ClosedType, CountedType DEF FindNothing, TypeOK
  <2>4. unheard' \subseteq Position
    BY <2>1 DEF FindNothing, Unheard, TypeOK
  <2>3. mem' \in [Position -> {"none", "ACTIVE", "CLOSED", "deleted"}]
    BY <2>1 DEF FindNothing, Unheard, TypeOK
  <2> QED BY <2>1, <2>2, <2>3, <2>4, ExecutionAssumption DEF FindNothing, CloseEnds, TypeOK
<1>2. OpenerHeld'
  BY ExecutionAssumption DEF FindNothing, Unheard, TypeOK, OpenerHeld, CloserHeld, CloseEnds
<1>3. CloserHeld'
  BY ExecutionAssumption DEF FindNothing, Unheard, TypeOK, CloserHeld, CloseEnds
<1>4. FlightHeld'
  BY ExecutionAssumption DEF FindNothing, Unheard, TypeOK, FlightHeld, CloseEnds
<1>5. BookHeld'
  BY ExecutionAssumption DEF FindNothing, Unheard, TypeOK, CloserHeld, BookHeld, CloseEnds, Active
<1> QED BY <1>1, <1>2, <1>3, <1>4, <1>5

LEMMA FindPartsKeeps ==
  ASSUME ExecInv, NEW c \in Closer, FindParts(c)
  PROVE  ExecInv'
<1> USE DEF ExecInv, outsideClose, closeHistory, chain, book, opener, closers, emergency, safety, history
<1>1. TypeOK'
  <2>1. cpos[c] \in Position /\ parts[cpos[c]] \in 0 .. Parts
    BY DEF FindParts, CloserHeld, TypeOK
  <2>2. cleft' \in [Closer -> 0 .. Parts] /\ cpc' \in [Closer -> {"idle", "watch", "find", "send", "sent", "price"}]
    BY <2>1 DEF FindParts, TypeOK
  <2> QED BY <2>2 DEF FindParts, TypeOK
<1>2. OpenerHeld'
  BY ExecutionAssumption DEF FindParts, TypeOK, OpenerHeld
<1>3. CloserHeld'
  BY ExecutionAssumption DEF FindParts, TypeOK, CloserHeld
<1>4. FlightHeld'
  BY ExecutionAssumption DEF FindParts, TypeOK, FlightHeld
<1>5. BookHeld'
  BY ExecutionAssumption DEF FindParts, TypeOK, BookHeld, Active
<1> QED BY <1>1, <1>2, <1>3, <1>4, <1>5

LEMMA SendRemoveKeeps ==
  ASSUME ExecInv, NEW c \in Closer, SendRemove(c)
  PROVE  ExecInv'
<1> USE DEF ExecInv, outsideClose, closeHistory, chain, book, opener, closers, emergency, safety, history
<1>1. TypeOK'
  BY ExecutionAssumption DEF SendRemove, Remove, TypeOK
<1>2. OpenerHeld'
  BY ExecutionAssumption DEF SendRemove, Remove, TypeOK, OpenerHeld
<1>3. CloserHeld'
  BY ExecutionAssumption DEF SendRemove, Remove, TypeOK, CloserHeld
<1>4. FlightHeld'
  BY ExecutionAssumption DEF SendRemove, Remove, TypeOK, CloserHeld, FlightHeld
<1>5. BookHeld'
  BY ExecutionAssumption DEF SendRemove, Remove, TypeOK, BookHeld, Active
<1> QED BY <1>1, <1>2, <1>3, <1>4, <1>5

LEMMA RemovedKeeps ==
  ASSUME ExecInv, NEW c \in Closer, Removed(c)
  PROVE  ExecInv'
<1> USE DEF ExecInv, outsideClose, closeHistory, chain, book, opener, closers, emergency, safety, history
<1>1. TypeOK'
  <2>1. cleft[c] - 1 \in 0 .. Parts
    BY ExecutionAssumption DEF Removed, CloserHeld, TypeOK
  <2>2. cleft' \in [Closer -> 0 .. Parts] /\ cpc' \in [Closer -> {"idle", "watch", "find", "send", "sent", "price"}]
    BY <2>1 DEF Removed, TypeOK
  <2> QED BY <2>2 DEF Removed, TypeOK
<1>2. OpenerHeld'
  BY ExecutionAssumption DEF Removed, TypeOK, OpenerHeld
<1>3. CloserHeld'
  BY ExecutionAssumption DEF Removed, TypeOK, CloserHeld
<1>4. FlightHeld'
  BY ExecutionAssumption DEF Removed, TypeOK, FlightHeld
<1>5. BookHeld'
  BY ExecutionAssumption DEF Removed, TypeOK, BookHeld, Active
<1> QED BY <1>1, <1>2, <1>3, <1>4, <1>5

LEMMA RemoveFailsKeeps ==
  ASSUME ExecInv, NEW c \in Closer, RemoveFails(c)
  PROVE  ExecInv'
<1> USE DEF ExecInv, outsideClose, closeHistory, chain, book, opener, closers, emergency, safety, history
<1>1. TypeOK'
  <2>1. failures' \in 0 .. MaxTxFailures
    BY FailureType DEF RemoveFails, TypeOK
  <2>2. course' \in [Position -> {"smooth", "slipped", "outside", "overlapped"}]
    BY DEF RemoveFails, Slip, CloserHeld, TypeOK
  <2>3. flight' \subseteq [kind : {"transfer", "create", "remove"},
                       pos : Position \cup {NoPosition}, n : Nat,
                       by : Closer \cup {NoCloser}]
    BY DEF RemoveFails, TypeOK
  <2> QED BY <2>1, <2>2, <2>3, ExecutionAssumption DEF RemoveFails, CloseEnds, TypeOK
<1>2. OpenerHeld'
  BY ExecutionAssumption DEF RemoveFails, TypeOK, OpenerHeld, CloseEnds
<1>3. CloserHeld'
  BY ExecutionAssumption DEF RemoveFails, TypeOK, CloserHeld, CloseEnds
<1>4. FlightHeld'
  BY ExecutionAssumption DEF RemoveFails, TypeOK, FlightHeld, CloseEnds
<1>5. BookHeld'
  BY ExecutionAssumption DEF RemoveFails, TypeOK, BookHeld, CloseEnds, Active
<1> QED BY <1>1, <1>2, <1>3, <1>4, <1>5

LEMMA CloseThrowsKeeps ==
  ASSUME ExecInv, NEW c \in Closer, CloseThrows(c)
  PROVE  ExecInv'
<1> USE DEF ExecInv, outsideClose, closeHistory, chain, book, opener, closers, emergency, safety, history
<1>1. TypeOK'
  <2>1. failures' \in 0 .. MaxTxFailures
    BY FailureType DEF CloseThrows, TypeOK
  <2>2. course' \in [Position -> {"smooth", "slipped", "outside", "overlapped"}]
    BY DEF CloseThrows, Slip, CloserHeld, TypeOK
  <2> QED BY <2>1, <2>2, ExecutionAssumption DEF CloseThrows, CloseEnds, TypeOK
<1>2. OpenerHeld'
  BY ExecutionAssumption DEF CloseThrows, TypeOK, OpenerHeld, CloseEnds
<1>3. CloserHeld'
  BY ExecutionAssumption DEF CloseThrows, TypeOK, CloserHeld, CloseEnds
<1>4. FlightHeld'
  BY ExecutionAssumption DEF CloseThrows, TypeOK, FlightHeld, CloseEnds
<1>5. BookHeld'
  BY ExecutionAssumption DEF CloseThrows, TypeOK, BookHeld, CloseEnds, Active
<1> QED BY <1>1, <1>2, <1>3, <1>4, <1>5

LEMMA ClosedKeeps ==
  ASSUME ExecInv, NEW c \in Closer, NEW net \in BOOLEAN, NEW price \in BOOLEAN,
         Closed(c, net, price)
  PROVE  ExecInv'
<1> USE DEF ExecInv, outsideClose, closeHistory, chain, book, opener, closers, emergency, safety, history
<1>1. TypeOK'
  <2>1. cpos[c] \in Position /\ pool[cpos[c]] \in Pool /\ entry[cpos[c]] \in Nat
    BY DEF Closed, CloserHeld, BookHeld, TypeOK
  <2>2. cb' \in CircuitBreakerState
    <3>1. RecordPositionClosed(cb, pool[cpos[c]], entry[cpos[c]]) \in CircuitBreakerState
      BY <2>1, ClosedType DEF TypeOK
    <3> QED BY <2>1, <3>1, ClosedType, CountedType DEF Closed, RecordClose
  <2>3. mem' \in [Position -> {"none", "ACTIVE", "CLOSED", "deleted"}]
    BY <2>1 DEF Closed, TypeOK
  <2>4. streak' \in 0 .. MaxConsecutiveLosses
    <3>1. \A n \in 0 .. MaxConsecutiveLosses, loss \in BOOLEAN :
            RecordTradeResult(n, loss) \in 0 .. MaxConsecutiveLosses
      BY ExecutionAssumption DEF RecordTradeResult, Lesser
    <3> QED BY <3>1 DEF Closed, TypeOK
  <2>5. results' \in [Position -> Nat]
    BY <2>1 DEF Closed, TypeOK
  <2>6. unheard' \subseteq Position
    BY <2>1 DEF Closed, Unheard, TypeOK
  <2> QED BY <2>1, <2>2, <2>3, <2>4, <2>5, <2>6, ExecutionAssumption DEF Closed, CloseEnds, TypeOK
<1>2. OpenerHeld'
  BY ExecutionAssumption DEF Closed, Unheard, TypeOK, OpenerHeld, CloserHeld, CloseEnds
<1>3. CloserHeld'
  BY ExecutionAssumption DEF Closed, Unheard, TypeOK, CloserHeld, CloseEnds
<1>4. FlightHeld'
  BY ExecutionAssumption DEF Closed, Unheard, TypeOK, FlightHeld, CloseEnds
<1>5. BookHeld'
  BY ExecutionAssumption DEF Closed, Unheard, TypeOK, CloserHeld, BookHeld, CloseEnds, Active
<1> QED BY <1>1, <1>2, <1>3, <1>4, <1>5

-----------------------------------------------------------------------------
(* An emergency *)

LEMMA EmergencyBeginsKeeps ==
  ASSUME ExecInv, EmergencyBegins
  PROVE  ExecInv'
<1> USE DEF ExecInv, outsideEmergency, chain, book, opener, closers, emergency, safety, history
<1>1. TypeOK'
  BY DEF EmergencyBegins, Active, TypeOK
<1>2. OpenerHeld'
  BY DEF EmergencyBegins, TypeOK, OpenerHeld
<1>3. CloserHeld'
  BY DEF EmergencyBegins, TypeOK, CloserHeld
<1>4. FlightHeld'
  BY DEF EmergencyBegins, TypeOK, FlightHeld
<1>5. BookHeld'
  BY DEF EmergencyBegins, TypeOK, BookHeld, Active
<1> QED BY <1>1, <1>2, <1>3, <1>4, <1>5

LEMMA EmergencyClosesKeeps ==
  ASSUME ExecInv, NEW c \in Closer, NEW p \in Position, EmergencyCloses(c, p)
  PROVE  ExecInv'
<1> USE DEF ExecInv, outsideEmergency, chain, book, opener, closers, emergency, safety, history
<1>1. TypeOK'
  <2>1. course' \in [Position -> {"smooth", "slipped", "outside", "overlapped"}]
    BY DEF EmergencyCloses, Meet, TypeOK
  <2> QED BY <2>1, ExecutionAssumption DEF EmergencyCloses, TypeOK
<1>2. OpenerHeld'
  BY DEF EmergencyCloses, TypeOK, OpenerHeld
<1>3. CloserHeld'
  BY ExecutionAssumption DEF EmergencyCloses, Free, TypeOK, CloserHeld, BookHeld
<1>4. FlightHeld'
  BY ExecutionAssumption DEF EmergencyCloses, Free, TypeOK, FlightHeld
<1>5. BookHeld'
  BY DEF EmergencyCloses, TypeOK, BookHeld, Active
<1> QED BY <1>1, <1>2, <1>3, <1>4, <1>5

-----------------------------------------------------------------------------
(* The chain *)

LEMMA TransferLandsKeeps ==
  ASSUME ExecInv, NEW t \in flight, TransferLands(t)
  PROVE  ExecInv'
<1> USE DEF ExecInv, outsideChain, closeHistory, chain, book, opener, closers, emergency, safety, history
<1>1. TypeOK'
  BY ExecutionAssumption DEF TransferLands, TypeOK, Landed
<1>2. OpenerHeld'
  BY ExecutionAssumption DEF TransferLands, TypeOK, OpenerHeld, Landed
<1>3. CloserHeld'
  BY ExecutionAssumption DEF TransferLands, TypeOK, CloserHeld, Landed
<1>4. FlightHeld'
  BY ExecutionAssumption DEF TransferLands, TypeOK, FlightHeld, Landed
<1>5. BookHeld'
  BY ExecutionAssumption DEF TransferLands, TypeOK, BookHeld, Landed, Active
<1> QED BY <1>1, <1>2, <1>3, <1>4, <1>5

LEMMA CreateLandsKeeps ==
  ASSUME ExecInv, NEW t \in flight, CreateLands(t)
  PROVE  ExecInv'
<1> USE DEF ExecInv, outsideChain, closeHistory, chain, book, opener, closers, emergency, safety, history
<1>1. TypeOK'
  <2>1. t.pos \in Position /\ t.n \in Nat
    BY DEF CreateLands, FlightHeld, TypeOK
  <2>2. signer' \in Nat
    BY <2>1, ExecutionAssumption DEF CreateLands, TypeOK
  <2>3. parts' \in [Position -> 0 .. Parts]
    BY <2>1, ExecutionAssumption DEF CreateLands, TypeOK
  <2>4. account' \in [Position -> {"none", "open", "gone"}]
    BY <2>1 DEF CreateLands, TypeOK
  <2>5. surprised' \in BOOLEAN
    BY DEF CreateLands, TypeOK
  <2> QED BY <2>2, <2>3, <2>4, <2>5 DEF CreateLands, Landed, TypeOK
<1>2. OpenerHeld'
  BY ExecutionAssumption DEF CreateLands, TypeOK, OpenerHeld, FlightHeld, BookHeld, Landed
<1>3. CloserHeld'
  BY ExecutionAssumption DEF CreateLands, TypeOK, CloserHeld, Landed
<1>4. FlightHeld'
  BY ExecutionAssumption DEF CreateLands, TypeOK, FlightHeld, Landed
<1>5. BookHeld'
  BY ExecutionAssumption DEF CreateLands, TypeOK, OpenerHeld, FlightHeld, BookHeld, Landed, Active
<1> QED BY <1>1, <1>2, <1>3, <1>4, <1>5

LEMMA RemoveLandsKeeps ==
  ASSUME ExecInv, NEW t \in flight, RemoveLands(t)
  PROVE  ExecInv'
<1> USE DEF ExecInv, outsideChain, closeHistory, chain, book, opener, closers, emergency, safety, history
<1>1. TypeOK'
  <2>1. t.pos \in Position /\ t.n \in Nat /\ t.n # 0 /\ t.by \in Closer \cup {NoCloser}
    BY DEF RemoveLands, FlightHeld, TypeOK
  <2>2. parts' \in [Position -> 0 .. Parts]
    BY <2>1, ExecutionAssumption DEF RemoveLands, TypeOK
  <2>3. account' \in [Position -> {"none", "open", "gone"}]
    BY <2>1 DEF RemoveLands, TypeOK
  <2>4. signer' \in Nat
    BY <2>1, ExecutionAssumption DEF RemoveLands, TypeOK
  <2> QED BY <2>1, <2>2, <2>3, <2>4 DEF RemoveLands, Landed, TypeOK
<1>2. OpenerHeld'
  BY ExecutionAssumption DEF RemoveLands, TypeOK, OpenerHeld, Landed
<1>3. CloserHeld'
  BY ExecutionAssumption DEF RemoveLands, TypeOK, CloserHeld, FlightHeld, Landed
<1>4. FlightHeld'
  BY ExecutionAssumption DEF RemoveLands, TypeOK, FlightHeld, Landed
<1>5. BookHeld'
  BY ExecutionAssumption DEF RemoveLands, TypeOK, BookHeld, Landed, Active
<1> QED BY <1>1, <1>2, <1>3, <1>4, <1>5

LEMMA ClosedOutsideKeeps ==
  ASSUME ExecInv, NEW p \in Position, ClosedOutside(p)
  PROVE  ExecInv'
<1> USE DEF ExecInv, outsideChain, chain, book, opener, closers, emergency, safety, history
<1>1. TypeOK'
  <2>1. /\ course' \in [Position -> {"smooth", "slipped", "outside", "overlapped"}]
        /\ account' \in [Position -> {"none", "open", "gone"}]
    BY DEF ClosedOutside, TypeOK
  <2>2. parts' \in [Position -> 0 .. Parts]
    BY ExecutionAssumption DEF ClosedOutside, TypeOK
  <2> QED BY <2>1, <2>2 DEF ClosedOutside, TypeOK
<1>2. OpenerHeld'
  BY DEF ClosedOutside, TypeOK, OpenerHeld
<1>3. CloserHeld'
  BY DEF ClosedOutside, TypeOK, CloserHeld
<1>4. FlightHeld'
  BY DEF ClosedOutside, TypeOK, FlightHeld
<1>5. BookHeld'
  BY ExecutionAssumption DEF ClosedOutside, TypeOK, BookHeld, Active
<1> QED BY <1>1, <1>2, <1>3, <1>4, <1>5

LEMMA DropKeeps ==
  ASSUME ExecInv, NEW t \in flight, Drop(t)
  PROVE  ExecInv'
<1> USE DEF ExecInv, outsideChain, closeHistory, chain, book, opener, closers, emergency, safety, history
<1>1. TypeOK'
  BY ExecutionAssumption DEF Drop, TypeOK, Landed
<1>2. OpenerHeld'
  BY ExecutionAssumption DEF Drop, TypeOK, OpenerHeld, Landed
<1>3. CloserHeld'
  BY ExecutionAssumption DEF Drop, TypeOK, CloserHeld, Landed
<1>4. FlightHeld'
  BY ExecutionAssumption DEF Drop, TypeOK, FlightHeld, Landed
<1>5. BookHeld'
  BY ExecutionAssumption DEF Drop, TypeOK, BookHeld, Landed, Active
<1> QED BY <1>1, <1>2, <1>3, <1>4, <1>5

LEMMA OtherBotTakesKeeps ==
  ASSUME ExecInv, OtherBotTakes
  PROVE  ExecInv'
<1> USE DEF ExecInv, outsideChain, closeHistory, chain, book, opener, closers, emergency, safety, history
<1>1. TypeOK'
  BY ExecutionAssumption DEF OtherBotTakes, TypeOK
<1>2. OpenerHeld'
  BY ExecutionAssumption DEF OtherBotTakes, TypeOK, OpenerHeld
<1>3. CloserHeld'
  BY ExecutionAssumption DEF OtherBotTakes, TypeOK, CloserHeld
<1>4. FlightHeld'
  BY ExecutionAssumption DEF OtherBotTakes, TypeOK, FlightHeld
<1>5. BookHeld'
  BY ExecutionAssumption DEF OtherBotTakes, TypeOK, BookHeld, Active
<1> QED BY <1>1, <1>2, <1>3, <1>4, <1>5

LEMMA TimeKeeps ==
  ASSUME ExecInv, Time
  PROVE  ExecInv'
<1> USE DEF ExecInv, outsideChain, closeHistory, chain, book, opener, closers, emergency, safety, history
<1>1. TypeOK'
  <2>1. cb' \in CircuitBreakerState
    BY RestedType DEF Time, TypeOK
  <2>2. failures' \in 0 .. MaxTxFailures
    BY ExecutionAssumption DEF Time, TypeOK
  <2> QED BY <2>1, <2>2 DEF Time, TypeOK
<1>2. OpenerHeld'
  BY ExecutionAssumption DEF Time, CircuitBreakerState, TypeOK, OpenerHeld
<1>3. CloserHeld'
  BY ExecutionAssumption DEF Time, CircuitBreakerState, TypeOK, CloserHeld
<1>4. FlightHeld'
  BY ExecutionAssumption DEF Time, CircuitBreakerState, TypeOK, FlightHeld
<1>5. BookHeld'
  BY ExecutionAssumption DEF Time, CircuitBreakerState, TypeOK, BookHeld, Active
<1> QED BY <1>1, <1>2, <1>3, <1>4, <1>5

-----------------------------------------------------------------------------
(* Theorems *)

LEMMA InitHolds == Init => ExecInv
<1> SUFFICES ASSUME Init PROVE ExecInv
  OBVIOUS
<1>1. InitialBreaker \in CircuitBreakerState
  BY DEF InitialBreaker, CircuitBreakerState
<1>3. TypeOK
  <2>1. 0 \in 0 .. Parts /\ 0 \in 0 .. MaxTxFailures /\ 0 \in 0 .. MaxConsecutiveLosses
    BY ExecutionAssumption
  <2>2. /\ parts \in [Position -> 0 .. Parts] /\ cleft \in [Closer -> 0 .. Parts]
        /\ failures \in 0 .. MaxTxFailures /\ streak \in 0 .. MaxConsecutiveLosses
    BY <2>1 DEF Init
  <2> QED BY <1>1, <2>2, ExecutionAssumption DEF Init, TypeOK
<1>2. OpenerHeld /\ CloserHeld /\ FlightHeld /\ BookHeld
  BY DEF Init, OpenerHeld, CloserHeld, FlightHeld, BookHeld, Active
<1> QED BY <1>2, <1>3 DEF ExecInv

LEMMA StutterKeeps == ExecInv /\ UNCHANGED vars => ExecInv'
<1> SUFFICES ASSUME ExecInv, UNCHANGED vars PROVE ExecInv'
  OBVIOUS
<1> USE DEF vars, chain, book, opener, closers, emergency, safety, history
<1>1. TypeOK'
  BY DEF ExecInv, TypeOK
<1>2. OpenerHeld' /\ CloserHeld' /\ FlightHeld' /\ BookHeld'
  BY DEF ExecInv, OpenerHeld, CloserHeld, FlightHeld, BookHeld, Active
<1> QED BY <1>1, <1>2 DEF ExecInv

LEMMA ExecInvariant == Spec => []ExecInv
<1>1. ExecInv /\ [Next]_vars => ExecInv'
  <2> SUFFICES ASSUME ExecInv, [Next]_vars PROVE ExecInv'
    OBVIOUS
  <2>1. CASE EntryStep
    BY <2>1, EnterKeeps, SizeEntryKeeps, FundSessionKeeps, FundingAnsweredKeeps,
       CheckSignerKeeps, OpenThrowsKeeps, PoolNotFoundKeeps, SendCreateKeeps, CreatedKeeps, CreateFailsKeeps
    DEF EntryStep
  <2>2. CASE CloseStep
    BY <2>2, BeginCloseKeeps, BeginCheckKeeps, KeepPositionKeeps, ExitFoundKeeps, FindNothingKeeps, FindPartsKeeps, SendRemoveKeeps, RemovedKeeps,
       RemoveFailsKeeps, CloseThrowsKeeps, ClosedKeeps DEF CloseStep
  <2>3. CASE ChainStep
    BY <2>3, TransferLandsKeeps, CreateLandsKeeps, RemoveLandsKeeps, ClosedOutsideKeeps, DropKeeps,
       OtherBotTakesKeeps, TimeKeeps DEF ChainStep
  <2>4. CASE EmergencyStep
    BY <2>4, EmergencyBeginsKeeps, EmergencyClosesKeeps DEF EmergencyStep
  <2>5. CASE UNCHANGED vars
    BY <2>5, StutterKeeps
  <2> QED BY <2>1, <2>2, <2>3, <2>4, <2>5 DEF Next
<1> QED BY InitHolds, <1>1, PTL DEF Spec

\* Every variable keeps its type: no balance and no counter of the breaker goes below
\* zero, whatever closes overlap (seal-executor.ts:231-640, circuit-breaker.ts:186-215).
THEOREM TypeCorrect == Spec => []TypeOK
<1>1. ExecInv => TypeOK
  BY DEF ExecInv
<1> QED BY ExecInvariant, <1>1, PTL

\* No liquidity is on the chain unwatched, but that of a creation that was reported
\* failed (seal-executor.ts:367-375).
THEOREM LiquidityTracked == Spec => []LiquidityIsTracked
<1>1. ExecInv => LiquidityIsTracked
  BY DEF ExecInv, BookHeld, LiquidityIsTracked
<1> QED BY ExecInvariant, <1>1, PTL

\* A position closed with a result has left the chain, in however many parts, and
\* whatever other closes were in flight (seal-executor.ts:539-604).
THEOREM ClosedGone == Spec => []ClosedIsGone
<1>1. ExecInv => ClosedIsGone
  BY DEF ExecInv, BookHeld, ClosedIsGone
<1> QED BY ExecInvariant, <1>1, PTL
-----------------------------------------------------------------------------
(* What the signer has when an entry is sent *)

LEMMA CoverKeeps == ExecInv /\ CreateIsCovered /\ [Next]_vars => CreateIsCovered'
<1> SUFFICES ASSUME ExecInv, CreateIsCovered, [Next]_vars PROVE CreateIsCovered'
  OBVIOUS
<1> USE DEF ExecInv, outsideEntry, outsideClose, outsideChain, closeHistory, chain, book, opener, closers, emergency, safety, history
<1>1. CASE \E q \in Pool, p \in Position : Enter(q, p)
  BY <1>1 DEF Enter, TypeOK, CreateIsCovered
<1>2. CASE SizeEntry
  BY <1>2 DEF SizeEntry, TypeOK, CreateIsCovered, EntryEnds
<1>3. CASE FundSession
  BY <1>3 DEF FundSession, TypeOK, CreateIsCovered, EntryEnds
<1>4. CASE FundingAnswered
  BY <1>4 DEF FundingAnswered, TypeOK, CreateIsCovered, EntryEnds
<1>5. CASE CheckSigner
  <2>1. opos \in Position /\ asked[opos] \in Nat /\ signer \in Nat /\ Rent \in Nat
    BY <1>5, ExecutionAssumption DEF CheckSigner, OpenerHeld, TypeOK
  <2>2. ASSUME Resize(signer, asked[opos]) >= MinPosition
      PROVE  signer >= Resize(signer, asked[opos]) + Rent
    BY <2>1, <2>2, ExecutionAssumption DEF Resize, Lesser, Less
  <2>3. opc' = "build" =>
         /\ ~(Resize(signer, asked[opos]) < MinPosition) /\ opos' = opos /\ signer' = signer
         /\ entry' = [entry EXCEPT ![opos] = Resize(signer, asked[opos])]
    BY <1>5 DEF CheckSigner, EntryEnds
  <2>4. Resize(signer, asked[opos]) \in Int /\ MinPosition \in Int
    BY <2>1, ExecutionAssumption DEF Resize, Lesser, Less
  <2>5. opc' = "build" => entry'[opos'] = Resize(signer, asked[opos]) /\ signer' = signer
    BY <2>1, <2>3 DEF TypeOK
  <2> QED BY <2>2, <2>3, <2>4, <2>5 DEF CreateIsCovered
<1>6. CASE OpenThrows
  BY <1>6 DEF OpenThrows, TypeOK, CreateIsCovered, EntryEnds
<1>7. CASE PoolNotFound
  BY <1>7 DEF PoolNotFound, TypeOK, CreateIsCovered, EntryEnds
<1>8. CASE SendCreate
  BY <1>8 DEF SendCreate, TypeOK, CreateIsCovered
<1>9. CASE Created
  BY <1>9 DEF Created, TypeOK, CreateIsCovered, EntryEnds
<1>10. CASE CreateFails
  BY <1>10 DEF CreateFails, TypeOK, CreateIsCovered, EntryEnds
<1>11. CASE CloseStep
  <2> PICK c \in Closer :
       \/ \E p \in Position : BeginClose(c, p)
       \/ \E p \in Position : BeginCheck(c, p)
       \/ KeepPosition(c)
       \/ ExitFound(c)
       \/ FindNothing(c)
       \/ FindParts(c)
       \/ SendRemove(c)
       \/ Removed(c)
       \/ RemoveFails(c)
       \/ CloseThrows(c)
       \/ \E net, price \in BOOLEAN : Closed(c, net, price)
    BY <1>11 DEF CloseStep
  <2>1. CASE \E p \in Position : BeginClose(c, p)
      BY <2>1 DEF BeginClose, Free, TypeOK, CreateIsCovered
  <2>2. CASE \E p \in Position : BeginCheck(c, p)
      BY <2>2 DEF BeginCheck, Free, TypeOK, CreateIsCovered
  <2>3. CASE KeepPosition(c)
      BY <2>3 DEF KeepPosition, TypeOK, CreateIsCovered, CloseEnds
  <2>4. CASE ExitFound(c)
      BY <2>4 DEF ExitFound, TypeOK, CreateIsCovered
  <2>5. CASE FindNothing(c)
      BY <2>5 DEF FindNothing, Unheard, TypeOK, CreateIsCovered, CloseEnds
  <2>6. CASE FindParts(c)
      BY <2>6 DEF FindParts, TypeOK, CreateIsCovered
  <2>7. CASE SendRemove(c)
      BY <2>7 DEF SendRemove, TypeOK, CreateIsCovered
  <2>8. CASE Removed(c)
      BY <2>8 DEF Removed, TypeOK, CreateIsCovered
  <2>9. CASE RemoveFails(c)
      BY <2>9 DEF RemoveFails, TypeOK, CreateIsCovered, CloseEnds
  <2>10. CASE CloseThrows(c)
      BY <2>10 DEF CloseThrows, TypeOK, CreateIsCovered, CloseEnds
  <2>11. CASE \E net, price \in BOOLEAN : Closed(c, net, price)
      BY <2>11 DEF Closed, Unheard, TypeOK, CreateIsCovered, CloseEnds
  <2> QED BY <2>1, <2>2, <2>3, <2>4, <2>5, <2>6, <2>7, <2>8, <2>9, <2>10, <2>11
<1>12. CASE \E t \in flight : TransferLands(t)
  <2>1. PICK t \in flight : TransferLands(t)
    BY <1>12
  <2>2. opc = "build" => opos \in Position /\ entry[opos] \in Nat
    BY DEF OpenerHeld, TypeOK
  <2>3. signer' = signer + t.n /\ t.n \in Nat /\ signer \in Nat /\ Rent \in Nat
    BY <2>1, ExecutionAssumption DEF TransferLands, TypeOK
  <2> QED BY <2>1, <2>2, <2>3 DEF TransferLands, CreateIsCovered
<1>13. CASE \E t \in flight : CreateLands(t)
  <2>1. PICK t \in flight : CreateLands(t)
    BY <1>13
  <2>2. opc = "build" => t.pos # opos
    BY <2>1 DEF CreateLands, FlightHeld, OpenerHeld
  <2> QED BY <2>1, <2>2 DEF CreateLands, CreateIsCovered
<1>14. CASE \E t \in flight : RemoveLands(t)
  <2>1. PICK t \in flight : RemoveLands(t)
    BY <1>14
  <2>2. opc = "build" => opos \in Position /\ entry[opos] \in Nat
    BY DEF OpenerHeld, TypeOK
  <2>3. signer' = signer \/ signer' = signer + entry[t.pos] + Rent
    BY <2>1 DEF RemoveLands
  <2>4. entry[t.pos] \in Nat /\ signer \in Nat /\ Rent \in Nat
    BY <2>1, ExecutionAssumption DEF RemoveLands, FlightHeld, TypeOK
  <2> QED BY <2>1, <2>2, <2>3, <2>4 DEF RemoveLands, CreateIsCovered
<1>15. CASE \E t \in flight : Drop(t)
  BY <1>15 DEF Drop, TypeOK, CreateIsCovered, Landed
<1>16. CASE OtherBotTakes
  BY <1>16 DEF OtherBotTakes, TypeOK, CreateIsCovered
<1>17. CASE Time
  BY <1>17 DEF Time, TypeOK, CreateIsCovered
<1>18. CASE UNCHANGED vars
  BY <1>18 DEF vars, TypeOK, CreateIsCovered
<1>19. CASE EmergencyStep
  BY <1>19 DEF EmergencyStep, EmergencyBegins, EmergencyCloses, outsideEmergency, TypeOK, CreateIsCovered
<1>20. CASE \E p \in Position : ClosedOutside(p)
  BY <1>20 DEF ClosedOutside, TypeOK, CreateIsCovered
<1> QED
  BY <1>1, <1>2, <1>3, <1>4, <1>5, <1>6, <1>7, <1>8, <1>9, <1>10, <1>11, <1>12, <1>13, <1>14, <1>15, <1>16, <1>17, <1>18,
     <1>19, <1>20 DEF Next, EntryStep, ChainStep

\* However balances change between an entry's waits, the signer can pay for what is
\* sent, unless an earlier creation has taken effect late (seal-executor.ts:312-358).
THEOREM CreateCovered == Spec => []CreateIsCovered
<1>1. Init => CreateIsCovered
  BY DEF Init, CreateIsCovered
<1> QED BY ExecInvariant, CoverKeeps, <1>1, PTL DEF Spec

-----------------------------------------------------------------------------
(* Closes that have not met *)

Working == {"find", "send", "sent", "price"}

\* A position none of whose closes have met is worked on by one close at most, and is
\* still active as long as one does.
OneClose ==
  /\ \A c \in Closer : cpc[c] = "idle" => cpos[c] = NoPosition
  /\ \A c \in Closer : cpc[c] \in Working /\ course[cpos[c]] # "overlapped" =>
       /\ mem[cpos[c]] = "ACTIVE"
       /\ \A d \in Closer : cpc[d] \in Working /\ cpos[d] = cpos[c] => d = c

\* What is gone from the chain was in the books, or the user has closed it, and no
\* transaction removes the others.
GoneHeld ==
  /\ \A t \in flight : t.kind = "remove" => mem[t.pos] # "none"
  /\ \A p \in Position : mem[p] = "none" /\ account[p] = "gone" => course[p] # "smooth"

\* Only a close that has failed, or one by the user, leaves a position that is active
\* without its account, or a transaction that no close waits for.
LeftAlone ==
  /\ \A t \in flight : t.kind = "remove" /\ t.by = NoCloser => course[t.pos] # "smooth"
  /\ \A p \in Position : course[p] = "smooth" /\ mem[p] = "ACTIVE" =>
       \/ account[p] = "open"
       \/ \E c \in Closer : cpos[c] = p /\ cpc[c] \in {"send", "sent", "price"}

\* The results of a position none of whose closes have met, from first to last.
ResultsHeld == \A p \in Position : course[p] # "overlapped" =>
  /\ mem[p] \in {"none", "ACTIVE"} => results[p] = 0
  /\ mem[p] = "CLOSED" => results[p] = (IF p \in unheard THEN 1 ELSE 2)
  /\ mem[p] = "deleted" => course[p] \in {"slipped", "outside"} /\ results[p] = 0

\* An entry deposits no more than the engine asked for.
EntryHeld ==
  /\ opc \in {"build", "create"} => entry[opos] <= asked[opos]
  /\ \A p \in Position : mem[p] # "none" => entry[p] <= asked[p]

CloseInv == OneClose /\ GoneHeld /\ LeftAlone /\ ResultsHeld /\ EntryHeld

\* The chain and the entries, but for Created, leave the closes and the books alone.
LEMMA OtherSteps ==
  ASSUME [Next]_vars, ~Created, ~CloseStep, ~EmergencyStep,
         ~(\E p \in Position : ClosedOutside(p))
  PROVE  /\ UNCHANGED << cpc, cpos, course, mem, results, unheard >>
         /\ UNCHANGED << cb.count, cb.exposure >> \/ ~(cb \in CircuitBreakerState)
<1> USE DEF outsideEntry, outsideChain, closeHistory, chain, book, opener, closers, emergency, safety, history
<1>1. CASE EntryStep
  BY <1>1 DEF EntryStep, Enter, SizeEntry, PoolNotFound, FundSession, FundingAnswered,
    CheckSigner, OpenThrows, SendCreate, CreateFails
<1>2. CASE \E t \in flight : TransferLands(t) \/ CreateLands(t) \/ RemoveLands(t) \/ Drop(t)
  BY <1>2 DEF TransferLands, CreateLands, RemoveLands, Drop
<1>3. CASE OtherBotTakes
  BY <1>3 DEF OtherBotTakes
<1>4. CASE Time
  BY <1>4 DEF Time, CircuitBreakerState
<1>5. CASE UNCHANGED vars
  BY <1>5 DEF vars
<1> QED BY <1>1, <1>2, <1>3, <1>4, <1>5 DEF Next, ChainStep

\* A close leaves the books alone until it ends.
LEMMA CloseSteps ==
  ASSUME CloseStep,
         ~(\E c \in Closer :
             FindNothing(c) \/ (\E net, price \in BOOLEAN : Closed(c, net, price)))
  PROVE  UNCHANGED << mem, cb, results, unheard >>
BY DEF CloseStep, BeginClose, BeginCheck, KeepPosition, ExitFound, FindParts, SendRemove,
  Removed, RemoveFails, CloseThrows, closeHistory

\* So do the beginnings of an emergency's closes, and the user's own.
LEMMA QuietSteps ==
  ASSUME EmergencyStep \/ \E p \in Position : ClosedOutside(p)
  PROVE  UNCHANGED << mem, cb, results, unheard, asked, entry >>
BY DEF EmergencyStep, EmergencyBegins, EmergencyCloses, ClosedOutside, outsideEmergency,
  outsideChain, safety, book

\* Closes that have met have met for good.
LEMMA MetForGood ==
  ASSUME ExecInv, [Next]_vars, NEW p \in Position, course[p] = "overlapped"
  PROVE  course'[p] = "overlapped"
<1> USE DEF ExecInv, TypeOK, outsideEntry, outsideClose, closeHistory, history
<1>1. CASE CloseStep
  BY <1>1 DEF CloseStep, BeginClose, BeginCheck, KeepPosition, ExitFound, FindNothing, FindParts,
    SendRemove, Removed, RemoveFails, CloseThrows, Closed, Meet, Slip
<1>2. CASE Created
  BY <1>2 DEF Created
<1>3. CASE EmergencyStep
  BY <1>3 DEF EmergencyStep, EmergencyBegins, EmergencyCloses, Meet, outsideEmergency
<1>4. CASE \E r \in Position : ClosedOutside(r)
  BY <1>4 DEF ClosedOutside
<1> QED BY <1>1, <1>2, <1>3, <1>4, OtherSteps

LEMMA OneCloseKeeps ==
  ASSUME ExecInv, OneClose, [Next]_vars
  PROVE  OneClose'
<1> USE DEF ExecInv, TypeOK, outsideEntry, outsideClose, closeHistory, closers, emergency, book, Working
<1>1. CASE CloseStep
  <2> PICK c \in Closer :
       \/ \E p \in Position : BeginClose(c, p)
       \/ \E p \in Position : BeginCheck(c, p)
       \/ KeepPosition(c)
       \/ ExitFound(c)
       \/ FindNothing(c)
       \/ FindParts(c)
       \/ SendRemove(c)
       \/ Removed(c)
       \/ RemoveFails(c)
       \/ CloseThrows(c)
       \/ \E net, price \in BOOLEAN : Closed(c, net, price)
    BY <1>1 DEF CloseStep
  <2>1. CASE \E p \in Position : BeginClose(c, p)
    BY <2>1, ExecutionAssumption DEF BeginClose, Free, Meet, OneClose, CloserHeld
  <2>2. CASE \E p \in Position : BeginCheck(c, p)
    BY <2>2, ExecutionAssumption DEF BeginCheck, Free, OneClose, CloserHeld
  <2>3. CASE KeepPosition(c)
    BY <2>3, ExecutionAssumption DEF KeepPosition, CloseEnds, OneClose, CloserHeld
  <2>4. CASE ExitFound(c)
    BY <2>4, ExecutionAssumption DEF ExitFound, Meet, OneClose, CloserHeld
  <2>5. CASE FindNothing(c)
    BY <2>5, ExecutionAssumption DEF FindNothing, Unheard, CloseEnds, OneClose, CloserHeld
  <2>6. CASE FindParts(c)
    BY <2>6, ExecutionAssumption DEF FindParts, OneClose, CloserHeld
  <2>7. CASE SendRemove(c)
    BY <2>7, ExecutionAssumption DEF SendRemove, Remove, OneClose, CloserHeld
  <2>8. CASE Removed(c)
    BY <2>8, ExecutionAssumption DEF Removed, OneClose, CloserHeld
  <2>9. CASE RemoveFails(c)
    BY <2>9, ExecutionAssumption DEF RemoveFails, CloseEnds, Slip, OneClose, CloserHeld
  <2>10. CASE CloseThrows(c)
    BY <2>10, ExecutionAssumption DEF CloseThrows, CloseEnds, Slip, OneClose, CloserHeld
  <2>11. CASE \E net, price \in BOOLEAN : Closed(c, net, price)
    BY <2>11, ExecutionAssumption DEF Closed, Unheard, CloseEnds, OneClose, CloserHeld
  <2> QED BY <2>1, <2>2, <2>3, <2>4, <2>5, <2>6, <2>7, <2>8, <2>9, <2>10, <2>11
<1>2. CASE Created
  BY <1>2 DEF Created, OneClose, CloserHeld, OpenerHeld
<1>3. CASE EmergencyBegins
  BY <1>3 DEF EmergencyBegins, outsideEmergency, OneClose
<1>4. CASE \E c \in Closer, p \in Position : EmergencyCloses(c, p)
  BY <1>4, ExecutionAssumption DEF EmergencyCloses, Free, Meet, outsideEmergency, OneClose,
    CloserHeld, BookHeld
<1>5. CASE \E p \in Position : ClosedOutside(p)
  BY <1>5 DEF ClosedOutside, outsideChain, OneClose, CloserHeld
<1>6. CASE ~CloseStep /\ ~Created /\ ~EmergencyStep /\ ~(\E p \in Position : ClosedOutside(p))
  BY <1>6, OtherSteps DEF OneClose
<1> QED BY <1>1, <1>2, <1>3, <1>4, <1>5, <1>6 DEF EmergencyStep

LEMMA ResultsKeeps ==
  ASSUME ExecInv, OneClose, LeftAlone, ResultsHeld, [Next]_vars
  PROVE  ResultsHeld'
<1> USE DEF ExecInv, TypeOK, outsideEntry, outsideClose, closeHistory, closers, emergency, book, Working
<1>1. CASE CloseStep
  <2> PICK c \in Closer :
       \/ \E p \in Position : BeginClose(c, p)
       \/ \E p \in Position : BeginCheck(c, p)
       \/ KeepPosition(c)
       \/ ExitFound(c)
       \/ FindNothing(c)
       \/ FindParts(c)
       \/ SendRemove(c)
       \/ Removed(c)
       \/ RemoveFails(c)
       \/ CloseThrows(c)
       \/ \E net, price \in BOOLEAN : Closed(c, net, price)
    BY <1>1 DEF CloseStep
  <2>1. CASE \E p \in Position : BeginClose(c, p)
    BY <2>1, ExecutionAssumption DEF BeginClose, Free, Meet, ResultsHeld, OneClose, CloserHeld
  <2>2. CASE \E p \in Position : BeginCheck(c, p)
    BY <2>2, ExecutionAssumption DEF BeginCheck, Free, ResultsHeld, OneClose, CloserHeld
  <2>3. CASE KeepPosition(c)
    BY <2>3, ExecutionAssumption DEF KeepPosition, CloseEnds, ResultsHeld, OneClose, CloserHeld
  <2>4. CASE ExitFound(c)
    BY <2>4, ExecutionAssumption DEF ExitFound, Meet, ResultsHeld, OneClose, CloserHeld
  <2>5. CASE FindNothing(c)
    <3>1. cpos[c] \in Position /\ cpc[c] = "find"
      BY <2>5 DEF FindNothing, Unheard, CloserHeld
    <3>2. course[cpos[c]] # "overlapped" => course[cpos[c]] # "smooth"
      BY <2>5, <3>1, ExecutionAssumption DEF FindNothing, Unheard, OneClose, LeftAlone, BookHeld
    <3>3. course[cpos[c]] # "overlapped" => results[cpos[c]] = 0
      BY <3>1 DEF OneClose, ResultsHeld
    <3> QED BY <2>5, <3>1, <3>2, <3>3 DEF FindNothing, Unheard, ResultsHeld
  <2>6. CASE FindParts(c)
    BY <2>6, ExecutionAssumption DEF FindParts, ResultsHeld, OneClose, CloserHeld
  <2>7. CASE SendRemove(c)
    BY <2>7, ExecutionAssumption DEF SendRemove, Remove, ResultsHeld, OneClose, CloserHeld
  <2>8. CASE Removed(c)
    BY <2>8, ExecutionAssumption DEF Removed, ResultsHeld, OneClose, CloserHeld
  <2>9. CASE RemoveFails(c)
    BY <2>9, ExecutionAssumption DEF RemoveFails, CloseEnds, Slip, ResultsHeld, OneClose, CloserHeld
  <2>10. CASE CloseThrows(c)
    BY <2>10, ExecutionAssumption DEF CloseThrows, CloseEnds, Slip, ResultsHeld, OneClose, CloserHeld
  <2>11. CASE \E net, price \in BOOLEAN : Closed(c, net, price)
    <3>1. cpos[c] \in Position /\ cpc[c] = "price"
      BY <2>11 DEF Closed, CloserHeld
    <3>2. course[cpos[c]] # "overlapped" =>
            mem[cpos[c]] = "ACTIVE" /\ results[cpos[c]] = 0 /\ cpos[c] \notin unheard
      BY <3>1 DEF OneClose, ResultsHeld, BookHeld
    <3>3. /\ course' = course
          /\ mem' = [mem EXCEPT ![cpos[c]] = IF @ = "deleted" THEN @ ELSE "CLOSED"]
          /\ results' = [results EXCEPT ![cpos[c]] = @ + (IF c \in alone THEN 1 ELSE 2)]
          /\ unheard' = IF c \in alone THEN unheard \cup {cpos[c]} ELSE unheard
      BY <2>11 DEF Closed, Unheard
    <3> QED BY <3>1, <3>2, <3>3 DEF ResultsHeld
  <2> QED BY <2>1, <2>2, <2>3, <2>4, <2>5, <2>6, <2>7, <2>8, <2>9, <2>10, <2>11
<1>2. CASE Created
  BY <1>2 DEF Created, ResultsHeld, OpenerHeld
<1>3. CASE EmergencyStep
  BY <1>3, QuietSteps DEF EmergencyStep, EmergencyBegins, EmergencyCloses, Meet, outsideEmergency,
    ResultsHeld
<1>4. CASE \E p \in Position : ClosedOutside(p)
  BY <1>4 DEF ClosedOutside, outsideChain, ResultsHeld
<1>5. CASE ~CloseStep /\ ~Created /\ ~EmergencyStep /\ ~(\E p \in Position : ClosedOutside(p))
  BY <1>5, OtherSteps DEF ResultsHeld
<1> QED BY <1>1, <1>2, <1>3, <1>4, <1>5

LEMMA GoneKeeps ==
  ASSUME ExecInv, GoneHeld, [Next]_vars
  PROVE  GoneHeld'
<1> USE DEF ExecInv, TypeOK, outsideEntry, outsideClose, outsideChain, closeHistory, chain,
      closers, emergency, opener, book, history, Working
<1>1. CASE EntryStep
  <2>1. CASE \E q \in Pool, p \in Position : Enter(q, p)
    BY <2>1, ExecutionAssumption DEF Enter, GoneHeld, CloserHeld, FlightHeld, BookHeld
  <2>2. CASE SizeEntry
    BY <2>2, ExecutionAssumption DEF SizeEntry, EntryEnds, GoneHeld, CloserHeld, FlightHeld, BookHeld
  <2>3. CASE PoolNotFound
    BY <2>3, ExecutionAssumption DEF PoolNotFound, EntryEnds, GoneHeld, CloserHeld, FlightHeld, BookHeld
  <2>4. CASE FundSession
    BY <2>4, ExecutionAssumption DEF FundSession, EntryEnds, Transfer, GoneHeld, CloserHeld, FlightHeld, BookHeld
  <2>5. CASE FundingAnswered
    BY <2>5, ExecutionAssumption DEF FundingAnswered, EntryEnds, GoneHeld, CloserHeld, FlightHeld, BookHeld
  <2>6. CASE CheckSigner
    BY <2>6, ExecutionAssumption DEF CheckSigner, EntryEnds, GoneHeld, CloserHeld, FlightHeld, BookHeld
  <2>7. CASE OpenThrows
    BY <2>7, ExecutionAssumption DEF OpenThrows, EntryEnds, GoneHeld, CloserHeld, FlightHeld, BookHeld
  <2>8. CASE SendCreate
    BY <2>8, ExecutionAssumption DEF SendCreate, Create, GoneHeld, CloserHeld, FlightHeld, BookHeld
  <2>9. CASE Created
    BY <2>9, ExecutionAssumption DEF Created, EntryEnds, GoneHeld, CloserHeld, FlightHeld, BookHeld
  <2>10. CASE CreateFails
    BY <2>10, ExecutionAssumption DEF CreateFails, EntryEnds, GoneHeld, CloserHeld, FlightHeld, BookHeld
  <2> QED BY <1>1, <2>1, <2>2, <2>3, <2>4, <2>5, <2>6, <2>7, <2>8, <2>9, <2>10 DEF EntryStep
<1>2. CASE CloseStep
  <2> PICK c \in Closer :
       \/ \E p \in Position : BeginClose(c, p)
       \/ \E p \in Position : BeginCheck(c, p)
       \/ KeepPosition(c)
       \/ ExitFound(c)
       \/ FindNothing(c)
       \/ FindParts(c)
       \/ SendRemove(c)
       \/ Removed(c)
       \/ RemoveFails(c)
       \/ CloseThrows(c)
       \/ \E net, price \in BOOLEAN : Closed(c, net, price)
    BY <1>2 DEF CloseStep
  <2>1. CASE \E p \in Position : BeginClose(c, p)
    BY <2>1, ExecutionAssumption DEF BeginClose, Free, Meet, GoneHeld, CloserHeld, FlightHeld, BookHeld
  <2>2. CASE \E p \in Position : BeginCheck(c, p)
    BY <2>2, ExecutionAssumption DEF BeginCheck, Free, GoneHeld, CloserHeld, FlightHeld, BookHeld
  <2>3. CASE KeepPosition(c)
    BY <2>3, ExecutionAssumption DEF KeepPosition, CloseEnds, GoneHeld, CloserHeld, FlightHeld, BookHeld
  <2>4. CASE ExitFound(c)
    BY <2>4, ExecutionAssumption DEF ExitFound, Meet, GoneHeld, CloserHeld, FlightHeld, BookHeld
  <2>5. CASE FindNothing(c)
    BY <2>5, ExecutionAssumption DEF FindNothing, Unheard, CloseEnds, GoneHeld, CloserHeld, FlightHeld, BookHeld
  <2>6. CASE FindParts(c)
    BY <2>6, ExecutionAssumption DEF FindParts, GoneHeld, CloserHeld, FlightHeld, BookHeld
  <2>7. CASE SendRemove(c)
    BY <2>7, ExecutionAssumption DEF SendRemove, Remove, GoneHeld, CloserHeld, FlightHeld, BookHeld
  <2>8. CASE Removed(c)
    BY <2>8, ExecutionAssumption DEF Removed, GoneHeld, CloserHeld, FlightHeld, BookHeld
  <2>9. CASE RemoveFails(c)
    BY <2>9, ExecutionAssumption DEF RemoveFails, CloseEnds, Slip, GoneHeld, CloserHeld, FlightHeld, BookHeld
  <2>10. CASE CloseThrows(c)
    BY <2>10, ExecutionAssumption DEF CloseThrows, CloseEnds, Slip, GoneHeld, CloserHeld, FlightHeld, BookHeld
  <2>11. CASE \E net, price \in BOOLEAN : Closed(c, net, price)
    BY <2>11, ExecutionAssumption DEF Closed, Unheard, CloseEnds, GoneHeld, CloserHeld, FlightHeld, BookHeld
  <2> QED BY <2>1, <2>2, <2>3, <2>4, <2>5, <2>6, <2>7, <2>8, <2>9, <2>10, <2>11
<1>3. CASE ChainStep
  <2>1. ASSUME NEW t \in flight, TransferLands(t) \/ CreateLands(t) \/ RemoveLands(t) \/ Drop(t)
        PROVE  GoneHeld'
    <3>1. CASE TransferLands(t)
      BY <3>1, ExecutionAssumption DEF TransferLands, Landed, GoneHeld, CloserHeld, FlightHeld, BookHeld
    <3>2. CASE CreateLands(t)
      BY <3>2, ExecutionAssumption DEF CreateLands, Landed, GoneHeld, CloserHeld, FlightHeld, BookHeld
    <3>3. CASE RemoveLands(t)
      BY <3>3, ExecutionAssumption DEF RemoveLands, Landed, GoneHeld, CloserHeld, FlightHeld, BookHeld
    <3>4. CASE Drop(t)
      BY <3>4, ExecutionAssumption DEF Drop, Landed, GoneHeld, CloserHeld, FlightHeld, BookHeld
    <3> QED BY <2>1, <3>1, <3>2, <3>3, <3>4
  <2>2. CASE OtherBotTakes
    BY <2>2 DEF OtherBotTakes, GoneHeld, CloserHeld, FlightHeld, BookHeld
  <2>3. CASE Time
    BY <2>3 DEF Time, GoneHeld, CloserHeld, FlightHeld, BookHeld
  <2>4. CASE \E p \in Position : ClosedOutside(p)
    BY <2>4, ExecutionAssumption DEF ClosedOutside, GoneHeld, CloserHeld, FlightHeld, BookHeld
  <2> QED BY <1>3, <2>1, <2>2, <2>3, <2>4 DEF ChainStep
<1>4. CASE EmergencyStep
  <2>1. CASE EmergencyBegins
    BY <2>1 DEF EmergencyBegins, outsideEmergency, GoneHeld, CloserHeld, FlightHeld, BookHeld
  <2>2. CASE \E c \in Closer, p \in Position : EmergencyCloses(c, p)
    BY <2>2, ExecutionAssumption DEF EmergencyCloses, Free, Meet, outsideEmergency, GoneHeld, CloserHeld, FlightHeld, BookHeld
  <2> QED BY <1>4, <2>1, <2>2 DEF EmergencyStep
<1>5. CASE UNCHANGED vars
  BY <1>5 DEF vars, GoneHeld, CloserHeld, FlightHeld, BookHeld
<1> QED BY <1>1, <1>2, <1>3, <1>4, <1>5 DEF Next

LEMMA LeftAloneKeeps ==
  ASSUME ExecInv, OneClose, GoneHeld, LeftAlone, [Next]_vars
  PROVE  LeftAlone'
<1> USE DEF ExecInv, TypeOK, outsideEntry, outsideClose, outsideChain, closeHistory, chain,
      closers, emergency, opener, book, history, Working
<1>1. CASE EntryStep
  <2>1. CASE \E q \in Pool, p \in Position : Enter(q, p)
    BY <2>1, ExecutionAssumption DEF Enter, LeftAlone, GoneHeld, CloserHeld, OpenerHeld, FlightHeld, BookHeld
  <2>2. CASE SizeEntry
    BY <2>2, ExecutionAssumption DEF SizeEntry, EntryEnds, LeftAlone, GoneHeld, CloserHeld, OpenerHeld, FlightHeld, BookHeld
  <2>3. CASE PoolNotFound
    BY <2>3, ExecutionAssumption DEF PoolNotFound, EntryEnds, LeftAlone, GoneHeld, CloserHeld, OpenerHeld, FlightHeld, BookHeld
  <2>4. CASE FundSession
    BY <2>4, ExecutionAssumption DEF FundSession, EntryEnds, Transfer, LeftAlone, GoneHeld, CloserHeld, OpenerHeld, FlightHeld, BookHeld
  <2>5. CASE FundingAnswered
    BY <2>5, ExecutionAssumption DEF FundingAnswered, EntryEnds, LeftAlone, GoneHeld, CloserHeld, OpenerHeld, FlightHeld, BookHeld
  <2>6. CASE CheckSigner
    BY <2>6, ExecutionAssumption DEF CheckSigner, EntryEnds, LeftAlone, GoneHeld, CloserHeld, OpenerHeld, FlightHeld, BookHeld
  <2>7. CASE OpenThrows
    BY <2>7, ExecutionAssumption DEF OpenThrows, EntryEnds, LeftAlone, GoneHeld, CloserHeld, OpenerHeld, FlightHeld, BookHeld
  <2>8. CASE SendCreate
    BY <2>8, ExecutionAssumption DEF SendCreate, Create, LeftAlone, GoneHeld, CloserHeld, OpenerHeld, FlightHeld, BookHeld
  <2>9. CASE Created
    BY <2>9, ExecutionAssumption DEF Created, EntryEnds, LeftAlone, GoneHeld, CloserHeld, OpenerHeld, FlightHeld, BookHeld
  <2>10. CASE CreateFails
    BY <2>10, ExecutionAssumption DEF CreateFails, EntryEnds, LeftAlone, GoneHeld, CloserHeld, OpenerHeld, FlightHeld, BookHeld
  <2> QED BY <1>1, <2>1, <2>2, <2>3, <2>4, <2>5, <2>6, <2>7, <2>8, <2>9, <2>10 DEF EntryStep
<1>2. CASE CloseStep
  <2> PICK c \in Closer :
       \/ \E p \in Position : BeginClose(c, p)
       \/ \E p \in Position : BeginCheck(c, p)
       \/ KeepPosition(c)
       \/ ExitFound(c)
       \/ FindNothing(c)
       \/ FindParts(c)
       \/ SendRemove(c)
       \/ Removed(c)
       \/ RemoveFails(c)
       \/ CloseThrows(c)
       \/ \E net, price \in BOOLEAN : Closed(c, net, price)
    BY <1>2 DEF CloseStep
  <2>1. CASE \E p \in Position : BeginClose(c, p)
    BY <2>1, ExecutionAssumption DEF BeginClose, Free, Meet, LeftAlone, GoneHeld, CloserHeld, OpenerHeld, FlightHeld, BookHeld
  <2>2. CASE \E p \in Position : BeginCheck(c, p)
    BY <2>2, ExecutionAssumption DEF BeginCheck, Free, LeftAlone, GoneHeld, CloserHeld, OpenerHeld, FlightHeld, BookHeld
  <2>3. CASE KeepPosition(c)
    BY <2>3, ExecutionAssumption DEF KeepPosition, CloseEnds, LeftAlone, GoneHeld, CloserHeld, OpenerHeld, FlightHeld, BookHeld
  <2>4. CASE ExitFound(c)
    BY <2>4, ExecutionAssumption DEF ExitFound, Meet, LeftAlone, GoneHeld, CloserHeld, OpenerHeld, FlightHeld, BookHeld
  <2>5. CASE FindNothing(c)
    BY <2>5, ExecutionAssumption DEF FindNothing, Unheard, CloseEnds, LeftAlone, GoneHeld, CloserHeld, OpenerHeld, FlightHeld, BookHeld
  <2>6. CASE FindParts(c)
    BY <2>6, ExecutionAssumption DEF FindParts, LeftAlone, GoneHeld, CloserHeld, OpenerHeld, FlightHeld, BookHeld
  <2>7. CASE SendRemove(c)
    BY <2>7, ExecutionAssumption DEF SendRemove, Remove, LeftAlone, GoneHeld, CloserHeld, OpenerHeld, FlightHeld, BookHeld
  <2>8. CASE Removed(c)
    BY <2>8, ExecutionAssumption DEF Removed, LeftAlone, GoneHeld, CloserHeld, OpenerHeld, FlightHeld, BookHeld
  <2>9. CASE RemoveFails(c)
    BY <2>9, ExecutionAssumption DEF RemoveFails, CloseEnds, Slip, LeftAlone, GoneHeld, CloserHeld, OpenerHeld, FlightHeld, BookHeld
  <2>10. CASE CloseThrows(c)
    BY <2>10, ExecutionAssumption DEF CloseThrows, CloseEnds, Slip, LeftAlone, GoneHeld, CloserHeld, OpenerHeld, FlightHeld, BookHeld
  <2>11. CASE \E net, price \in BOOLEAN : Closed(c, net, price)
    BY <2>11, ExecutionAssumption DEF Closed, Unheard, CloseEnds, LeftAlone, GoneHeld, CloserHeld, OpenerHeld, FlightHeld, BookHeld
  <2> QED BY <2>1, <2>2, <2>3, <2>4, <2>5, <2>6, <2>7, <2>8, <2>9, <2>10, <2>11
<1>3. CASE ChainStep
  <2>1. ASSUME NEW t \in flight, TransferLands(t) \/ CreateLands(t) \/ RemoveLands(t) \/ Drop(t)
        PROVE  LeftAlone'
    <3>1. CASE TransferLands(t)
      BY <3>1, ExecutionAssumption DEF TransferLands, Landed, LeftAlone, GoneHeld, CloserHeld, OpenerHeld, FlightHeld, BookHeld
    <3>2. CASE CreateLands(t)
      BY <3>2, ExecutionAssumption DEF CreateLands, Landed, LeftAlone, GoneHeld, CloserHeld, OpenerHeld, FlightHeld, BookHeld
    <3>3. CASE RemoveLands(t)
      BY <3>3, ExecutionAssumption DEF RemoveLands, Landed, LeftAlone, GoneHeld, CloserHeld, OpenerHeld, FlightHeld, BookHeld
    <3>4. CASE Drop(t)
      BY <3>4, ExecutionAssumption DEF Drop, Landed, LeftAlone, GoneHeld, CloserHeld, OpenerHeld, FlightHeld, BookHeld
    <3> QED BY <2>1, <3>1, <3>2, <3>3, <3>4
  <2>2. CASE OtherBotTakes
    BY <2>2 DEF OtherBotTakes, LeftAlone, GoneHeld, CloserHeld, OpenerHeld, FlightHeld, BookHeld
  <2>3. CASE Time
    BY <2>3 DEF Time, LeftAlone, GoneHeld, CloserHeld, OpenerHeld, FlightHeld, BookHeld
  <2>4. CASE \E p \in Position : ClosedOutside(p)
    BY <2>4, ExecutionAssumption DEF ClosedOutside, LeftAlone, GoneHeld, CloserHeld, OpenerHeld, FlightHeld, BookHeld
  <2> QED BY <1>3, <2>1, <2>2, <2>3, <2>4 DEF ChainStep
<1>4. CASE EmergencyStep
  <2>1. CASE EmergencyBegins
    BY <2>1 DEF EmergencyBegins, outsideEmergency, LeftAlone, GoneHeld, CloserHeld, OpenerHeld, FlightHeld, BookHeld
  <2>2. CASE \E c \in Closer, p \in Position : EmergencyCloses(c, p)
    BY <2>2, ExecutionAssumption DEF EmergencyCloses, Free, Meet, outsideEmergency, LeftAlone, GoneHeld, CloserHeld, OpenerHeld, FlightHeld, BookHeld
  <2> QED BY <1>4, <2>1, <2>2 DEF EmergencyStep
<1>5. CASE UNCHANGED vars
  BY <1>5 DEF vars, LeftAlone, GoneHeld, CloserHeld, OpenerHeld, FlightHeld, BookHeld
<1> QED BY <1>1, <1>2, <1>3, <1>4, <1>5 DEF Next

LEMMA EntryHeldKeeps ==
  ASSUME ExecInv, EntryHeld, [Next]_vars
  PROVE  EntryHeld'
<1> USE DEF ExecInv, TypeOK, outsideEntry, outsideClose, outsideChain, closeHistory, chain,
      closers, emergency, opener, book, history, Working
<1>1. CASE EntryStep
  <2>1. CASE \E q \in Pool, p \in Position : Enter(q, p)
    BY <2>1, ExecutionAssumption DEF Enter, EntryHeld, OpenerHeld, BookHeld, CloserHeld
  <2>2. CASE SizeEntry
    BY <2>2, ExecutionAssumption DEF SizeEntry, EntryEnds, EntryHeld, OpenerHeld, BookHeld, CloserHeld
  <2>3. CASE PoolNotFound
    BY <2>3, ExecutionAssumption DEF PoolNotFound, EntryEnds, EntryHeld, OpenerHeld, BookHeld, CloserHeld
  <2>4. CASE FundSession
    BY <2>4, ExecutionAssumption DEF FundSession, EntryEnds, Transfer, EntryHeld, OpenerHeld, BookHeld, CloserHeld
  <2>5. CASE FundingAnswered
    BY <2>5, ExecutionAssumption DEF FundingAnswered, EntryEnds, EntryHeld, OpenerHeld, BookHeld, CloserHeld
  <2>6. CASE CheckSigner
    <3>1. /\ opos \in Position /\ asked[opos] \in Nat /\ signer \in Nat /\ mem[opos] = "none"
      BY <2>6 DEF CheckSigner, OpenerHeld
    <3>2. Resize(signer, asked[opos]) <= asked[opos]
      BY <3>1, ExecutionAssumption DEF Resize, Lesser, Less
    <3>3. \/ opc' = "idle" /\ entry' = entry
          \/ opos' = opos /\ entry' = [entry EXCEPT ![opos] = Resize(signer, asked[opos])]
      BY <2>6 DEF CheckSigner, EntryEnds
    <3> QED BY <2>6, <3>1, <3>2, <3>3 DEF CheckSigner, EntryHeld
  <2>7. CASE OpenThrows
    BY <2>7, ExecutionAssumption DEF OpenThrows, EntryEnds, EntryHeld, OpenerHeld, BookHeld, CloserHeld
  <2>8. CASE SendCreate
    BY <2>8, ExecutionAssumption DEF SendCreate, Create, EntryHeld, OpenerHeld, BookHeld, CloserHeld
  <2>9. CASE Created
    BY <2>9, ExecutionAssumption DEF Created, EntryEnds, EntryHeld, OpenerHeld, BookHeld, CloserHeld
  <2>10. CASE CreateFails
    BY <2>10, ExecutionAssumption DEF CreateFails, EntryEnds, EntryHeld, OpenerHeld, BookHeld, CloserHeld
  <2> QED BY <1>1, <2>1, <2>2, <2>3, <2>4, <2>5, <2>6, <2>7, <2>8, <2>9, <2>10 DEF EntryStep
<1>2. CASE CloseStep
  <2> PICK c \in Closer :
       \/ \E p \in Position : BeginClose(c, p)
       \/ \E p \in Position : BeginCheck(c, p)
       \/ KeepPosition(c)
       \/ ExitFound(c)
       \/ FindNothing(c)
       \/ FindParts(c)
       \/ SendRemove(c)
       \/ Removed(c)
       \/ RemoveFails(c)
       \/ CloseThrows(c)
       \/ \E net, price \in BOOLEAN : Closed(c, net, price)
    BY <1>2 DEF CloseStep
  <2>1. CASE \E p \in Position : BeginClose(c, p)
    BY <2>1, ExecutionAssumption DEF BeginClose, Free, Meet, EntryHeld, OpenerHeld, BookHeld, CloserHeld
  <2>2. CASE \E p \in Position : BeginCheck(c, p)
    BY <2>2, ExecutionAssumption DEF BeginCheck, Free, EntryHeld, OpenerHeld, BookHeld, CloserHeld
  <2>3. CASE KeepPosition(c)
    BY <2>3, ExecutionAssumption DEF KeepPosition, CloseEnds, EntryHeld, OpenerHeld, BookHeld, CloserHeld
  <2>4. CASE ExitFound(c)
    BY <2>4, ExecutionAssumption DEF ExitFound, Meet, EntryHeld, OpenerHeld, BookHeld, CloserHeld
  <2>5. CASE FindNothing(c)
    BY <2>5, ExecutionAssumption DEF FindNothing, Unheard, CloseEnds, EntryHeld, OpenerHeld, BookHeld, CloserHeld
  <2>6. CASE FindParts(c)
    BY <2>6, ExecutionAssumption DEF FindParts, EntryHeld, OpenerHeld, BookHeld, CloserHeld
  <2>7. CASE SendRemove(c)
    BY <2>7, ExecutionAssumption DEF SendRemove, Remove, EntryHeld, OpenerHeld, BookHeld, CloserHeld
  <2>8. CASE Removed(c)
    BY <2>8, ExecutionAssumption DEF Removed, EntryHeld, OpenerHeld, BookHeld, CloserHeld
  <2>9. CASE RemoveFails(c)
    BY <2>9, ExecutionAssumption DEF RemoveFails, CloseEnds, Slip, EntryHeld, OpenerHeld, BookHeld, CloserHeld
  <2>10. CASE CloseThrows(c)
    BY <2>10, ExecutionAssumption DEF CloseThrows, CloseEnds, Slip, EntryHeld, OpenerHeld, BookHeld, CloserHeld
  <2>11. CASE \E net, price \in BOOLEAN : Closed(c, net, price)
    BY <2>11, ExecutionAssumption DEF Closed, Unheard, CloseEnds, EntryHeld, OpenerHeld, BookHeld, CloserHeld
  <2> QED BY <2>1, <2>2, <2>3, <2>4, <2>5, <2>6, <2>7, <2>8, <2>9, <2>10, <2>11
<1>3. CASE ChainStep
  <2>1. ASSUME NEW t \in flight, TransferLands(t) \/ CreateLands(t) \/ RemoveLands(t) \/ Drop(t)
        PROVE  EntryHeld'
    <3>1. CASE TransferLands(t)
      BY <3>1, ExecutionAssumption DEF TransferLands, Landed, EntryHeld, OpenerHeld, BookHeld, CloserHeld
    <3>2. CASE CreateLands(t)
      BY <3>2, ExecutionAssumption DEF CreateLands, Landed, EntryHeld, OpenerHeld, BookHeld, CloserHeld
    <3>3. CASE RemoveLands(t)
      BY <3>3, ExecutionAssumption DEF RemoveLands, Landed, EntryHeld, OpenerHeld, BookHeld, CloserHeld
    <3>4. CASE Drop(t)
      BY <3>4, ExecutionAssumption DEF Drop, Landed, EntryHeld, OpenerHeld, BookHeld, CloserHeld
    <3> QED BY <2>1, <3>1, <3>2, <3>3, <3>4
  <2>2. CASE OtherBotTakes
    BY <2>2 DEF OtherBotTakes, EntryHeld, OpenerHeld, BookHeld, CloserHeld
  <2>3. CASE Time
    BY <2>3 DEF Time, EntryHeld, OpenerHeld, BookHeld, CloserHeld
  <2>4. CASE \E p \in Position : ClosedOutside(p)
    BY <2>4, ExecutionAssumption DEF ClosedOutside, EntryHeld, OpenerHeld, BookHeld, CloserHeld
  <2> QED BY <1>3, <2>1, <2>2, <2>3, <2>4 DEF ChainStep
<1>4. CASE EmergencyStep
  <2>1. CASE EmergencyBegins
    BY <2>1 DEF EmergencyBegins, outsideEmergency, EntryHeld, OpenerHeld, BookHeld, CloserHeld
  <2>2. CASE \E c \in Closer, p \in Position : EmergencyCloses(c, p)
    BY <2>2, ExecutionAssumption DEF EmergencyCloses, Free, Meet, outsideEmergency, EntryHeld, OpenerHeld, BookHeld, CloserHeld
  <2> QED BY <1>4, <2>1, <2>2 DEF EmergencyStep
<1>5. CASE UNCHANGED vars
  BY <1>5 DEF vars, EntryHeld, OpenerHeld, BookHeld, CloserHeld
<1> QED BY <1>1, <1>2, <1>3, <1>4, <1>5 DEF Next

\* Once in the books, a position keeps what it holds and what was asked for.
LEMMA BooksKept ==
  ASSUME ExecInv, [Next]_vars, NEW p \in Position, mem[p] # "none"
  PROVE  asked'[p] = asked[p] /\ entry'[p] = entry[p]
<1> USE DEF outsideEntry, outsideClose, outsideChain, book
<1>1. CASE EntryStep
  <2>1. opc # "idle" => opos # p
    BY DEF ExecInv, OpenerHeld
  <2> QED BY <1>1, <2>1 DEF EntryStep, Enter, SizeEntry, PoolNotFound, FundSession,
    FundingAnswered, CheckSigner, OpenThrows, SendCreate, Created, CreateFails, ExecInv, TypeOK
<1>2. CASE CloseStep
  BY <1>2 DEF CloseStep, BeginClose, BeginCheck, KeepPosition, ExitFound, FindNothing, FindParts,
    SendRemove, Removed, RemoveFails, CloseThrows, Closed
<1>3. CASE ChainStep
  BY <1>3 DEF ChainStep, TransferLands, CreateLands, RemoveLands, ClosedOutside, Drop,
    OtherBotTakes, Time
<1>4. CASE EmergencyStep
  BY <1>4, QuietSteps
<1> QED BY <1>1, <1>2, <1>3, <1>4 DEF Next, vars

LEMMA CloseInvariant == Spec => [](ExecInv /\ CloseInv)
<1>1. Init => CloseInv
  <2> SUFFICES ASSUME Init PROVE CloseInv
    OBVIOUS
  <2>1. OneClose /\ GoneHeld /\ LeftAlone
    BY DEF Init, OneClose, GoneHeld, LeftAlone, Working
  <2>2. ResultsHeld /\ EntryHeld
    BY DEF Init, ResultsHeld, EntryHeld
  <2> QED BY <2>1, <2>2 DEF CloseInv
<1>2. ExecInv /\ CloseInv /\ [Next]_vars => CloseInv'
  BY OneCloseKeeps, ResultsKeeps, GoneKeeps, LeftAloneKeeps, EntryHeldKeeps DEF CloseInv
<1> QED BY ExecInvariant, <1>1, <1>2, PTL DEF Spec

\* The result of a position none of whose closes met is recorded twice, and once if an
\* emergency closed it, unless a close of it failed half-way, or the user closed it, and
\* it was then not found (seal-executor.ts:487-494, :593, trading-engine.ts:807, :996,
\* position.ts:310-312).
THEOREM ResultsRecorded == Spec => []ResultRecorded
<1>1. ExecInv /\ CloseInv => ResultRecorded
  BY DEF CloseInv, ResultsHeld, ResultRecorded
<1> QED BY CloseInvariant, <1>1, PTL

-----------------------------------------------------------------------------
(* What the breaker counts *)

\* Without a meeting after the step there was none before.
LEMMA NoneMetBefore ==
  ASSUME ExecInv, [Next]_vars, NoneMet'
  PROVE  NoneMet
BY MetForGood DEF NoneMet

\* An opening and a close, as the breaker counts them, whatever its window holds.
LEMMA BreakerCounts ==
  ASSUME NEW x, NEW q, NEW n
  PROVE  /\ RecordPositionOpened(x, q, n).count = x.count + 1
         /\ RecordPositionOpened(x, q, n).exposure = x.exposure + n
         /\ RecordPositionClosed(x, q, n).count = Less(x.count, 1)
         /\ RecordPositionClosed(x, q, n).exposure = Less(x.exposure, n)
         /\ Counted(RecordPositionOpened(x, q, n)).count = x.count + 1
         /\ Counted(RecordPositionOpened(x, q, n)).exposure = x.exposure + n
         /\ Counted(RecordPositionClosed(x, q, n)).count = Less(x.count, 1)
         /\ Counted(RecordPositionClosed(x, q, n)).exposure = Less(x.exposure, n)
BY DEF RecordPositionOpened, RecordPositionClosed, Counted

\* The positions are finitely many, so are those active and those not found.
LEMMA BookSets ==
  ASSUME TypeOK
  PROVE  /\ IsFiniteSet(Active) /\ IsFiniteSet(Vanished) /\ IsFiniteSet(unheard)
         /\ Cardinality(Active) \in Nat /\ Cardinality(Vanished) \in Nat
         /\ Cardinality(unheard) \in Nat
<1>1. Active \subseteq Position /\ Vanished \subseteq Position /\ unheard \subseteq Position
  BY DEF Active, Vanished, TypeOK
<1> QED BY <1>1, ExecutionAssumption, FS_Subset, FS_CardinalityType

\* A position opened is counted twice.
LEMMA OpenCounts ==
  ASSUME ExecInv, CountedTwice, Created, NoneMet
  PROVE  cb'.count = 2 * Cardinality(Active') + Cardinality(Vanished') + Cardinality(unheard')
<1> USE DEF ExecInv, TypeOK
<1>1. opos \in Position /\ mem[opos] = "none" /\ mem' = [mem EXCEPT ![opos] = "ACTIVE"]
  BY DEF Created, OpenerHeld
<1>2. /\ Active' = Active \cup {opos} /\ opos \notin Active /\ Vanished' = Vanished
      /\ unheard' = unheard
  BY <1>1 DEF Active, Vanished, Created, outsideEntry
<1>3. Cardinality(Active') = Cardinality(Active) + 1
  BY <1>2, BookSets, FS_AddElement
<1>4. cb'.count = cb.count + 1 + 1
  BY BreakerCounts DEF Created
<1> QED BY <1>2, <1>3, <1>4, BookSets DEF CountedTwice

\* What a close that ends has taken out of the breaker: what it records, once or twice.
LEMMA CloseRecords ==
  ASSUME NEW c \in Closer
  PROVE  LET n == entry[cpos[c]]
         IN /\ FindNothing(c) =>
                 IF c \in alone THEN cb' = cb
                 ELSE /\ cb'.count = Less(cb.count, 1)
                      /\ cb'.exposure = Less(cb.exposure, n)
            /\ (\E net, price \in BOOLEAN : Closed(c, net, price)) =>
                 IF c \in alone
                   THEN /\ cb'.count = Less(cb.count, 1)
                        /\ cb'.exposure = Less(cb.exposure, n)
                   ELSE /\ cb'.count = Less(Less(cb.count, 1), 1)
                        /\ cb'.exposure = Less(Less(cb.exposure, n), n)
<1>1. CASE c \in alone
  BY <1>1, BreakerCounts DEF FindNothing, Closed, RecordClose
<1>2. CASE c \notin alone
  BY <1>2, BreakerCounts DEF FindNothing, Closed, RecordClose
<1> QED BY <1>1, <1>2

\* A close that ends takes an active position out of the books, and the emergency's
\* keeps it in mind.
LEMMA CloseBooks ==
  ASSUME ExecInv, CloseInv, NoneMet,
         NEW c \in Closer, FindNothing(c) \/ \E net, price \in BOOLEAN : Closed(c, net, price)
  PROVE  /\ cpos[c] \in Position /\ mem[cpos[c]] = "ACTIVE" /\ cpos[c] \notin unheard
         /\ unheard' = IF c \in alone THEN unheard \cup {cpos[c]} ELSE unheard
         /\ FindNothing(c) => mem' = [mem EXCEPT ![cpos[c]] = "deleted"]
         /\ ~FindNothing(c) => mem' = [mem EXCEPT ![cpos[c]] = "CLOSED"]
<1> USE DEF ExecInv, TypeOK
<1>1. cpos[c] \in Position /\ mem[cpos[c]] = "ACTIVE"
  BY DEF FindNothing, Closed, CloserHeld, CloseInv, OneClose, Working, NoneMet
<1>2. cpos[c] \notin unheard
  BY <1>1 DEF BookHeld
<1>3. unheard' = IF c \in alone THEN unheard \cup {cpos[c]} ELSE unheard
  BY DEF FindNothing, Closed, Unheard
<1> QED BY <1>1, <1>2, <1>3 DEF FindNothing, Closed

\* One closed is not counted any more, one not found is counted once, and one that an
\* emergency closed once more.
LEMMA CloseCounts ==
  ASSUME ExecInv, CloseInv, CountedTwice, NoneMet,
         NEW c \in Closer, FindNothing(c) \/ \E net, price \in BOOLEAN : Closed(c, net, price)
  PROVE  cb'.count = 2 * Cardinality(Active') + Cardinality(Vanished') + Cardinality(unheard')
<1> USE DEF ExecInv, TypeOK
<1> DEFINE p == cpos[c]
<1>1. /\ p \in Position /\ mem[p] = "ACTIVE" /\ p \notin unheard
      /\ p \in Active /\ p \notin Vanished
  BY CloseBooks DEF Active, Vanished
<1>2. Cardinality(Active \ {p}) = Cardinality(Active) - 1 /\ Cardinality(Active \ {p}) \in Nat
  <2>1. IsFiniteSet(Active \ {p}) /\ Cardinality(Active \ {p}) = Cardinality(Active) - 1
    BY <1>1, BookSets, FS_RemoveElement
  <2> QED BY <2>1, FS_CardinalityType
<1>3. Cardinality(unheard') = Cardinality(unheard) + (IF c \in alone THEN 1 ELSE 0)
  <2>1. Cardinality(unheard \cup {p}) = Cardinality(unheard) + 1
    BY <1>1, BookSets, FS_AddElement
  <2>2. CASE c \in alone
    BY <2>1, <2>2, CloseBooks
  <2>3. CASE c \notin alone
    <3>1. unheard' = unheard
      BY <2>3, CloseBooks
    <3> QED BY <2>3, <3>1, BookSets
  <2> QED BY <2>2, <2>3
<1>4. cb.count = 2 * (Cardinality(Active \ {p}) + 1) + Cardinality(Vanished) + Cardinality(unheard)
  BY <1>2, BookSets DEF CountedTwice
<1>5. CASE FindNothing(c)
  <2>1. mem' = [mem EXCEPT ![p] = "deleted"]
    BY <1>5, CloseBooks
  <2>2. Active' = Active \ {p} /\ Vanished' = Vanished \cup {p}
    BY <1>1, <2>1 DEF Active, Vanished
  <2>3. Cardinality(Vanished') = Cardinality(Vanished) + 1
    BY <1>1, <2>2, BookSets, FS_AddElement
  <2>4. cb'.count = IF c \in alone THEN cb.count ELSE Less(cb.count, 1)
    BY <1>5, CloseRecords
  <2> HIDE DEF p
  <2> QED BY <1>2, <1>3, <1>4, <2>2, <2>3, <2>4, BookSets DEF Less
<1>6. CASE ~FindNothing(c)
  <2>1. mem' = [mem EXCEPT ![p] = "CLOSED"]
    BY <1>6, CloseBooks
  <2>2. Active' = Active \ {p} /\ Vanished' = Vanished
    BY <1>1, <2>1 DEF Active, Vanished
  <2>3. cb'.count = IF c \in alone THEN Less(cb.count, 1) ELSE Less(Less(cb.count, 1), 1)
    BY <1>6, CloseRecords
  <2> HIDE DEF p
  <2> QED BY <1>2, <1>3, <1>4, <2>2, <2>3, BookSets DEF Less
<1> QED BY <1>5, <1>6

LEMMA CountKeeps ==
  ASSUME ExecInv, CloseInv, CountedTwice, [Next]_vars
  PROVE  CountedTwice'
<1> USE DEF ExecInv
<1> SUFFICES ASSUME NoneMet'
             PROVE  cb'.count = 2 * Cardinality(Active') + Cardinality(Vanished') + Cardinality(unheard')
  BY DEF CountedTwice
<1>1. NoneMet
  BY NoneMetBefore
<1>2. CASE Created
  BY <1>1, <1>2, OpenCounts
<1>3. CASE \E c \in Closer : FindNothing(c) \/ \E net, price \in BOOLEAN : Closed(c, net, price)
  BY <1>1, <1>3, CloseCounts
<1>4. CASE cb'.count = cb.count /\ mem' = mem /\ unheard' = unheard
  BY <1>1, <1>4 DEF CountedTwice, Active, Vanished
<1> QED
  <2>1. CASE CloseStep
    BY <1>3, <1>4, <2>1, CloseSteps
  <2>2. CASE EmergencyStep \/ \E p \in Position : ClosedOutside(p)
    BY <1>4, <2>2, QuietSteps
  <2>3. CASE ~CloseStep /\ ~EmergencyStep /\ ~(\E p \in Position : ClosedOutside(p))
    BY <1>2, <1>4, <2>3, OtherSteps DEF TypeOK
  <2> QED BY <2>1, <2>2, <2>3

\* The breaker counts the live positions twice, and for good once the positions that
\* were not found and once those an emergency closed, as long as no two closes have met
\* (seal-executor.ts:391, :487-494, :592, trading-engine.ts:656, :812, :996).
THEOREM TwiceCounted == Spec => []CountedTwice
<1>1. Init => CountedTwice
  <2> SUFFICES ASSUME Init PROVE CountedTwice
    OBVIOUS
  <2>1. Active = {} /\ Vanished = {} /\ unheard = {} /\ cb.count = 0
    BY DEF Init, Active, Vanished, InitialBreaker
  <2> QED BY <2>1, FS_EmptySet DEF CountedTwice
<1> QED BY CloseInvariant, CountKeeps, <1>1, PTL DEF Spec

-----------------------------------------------------------------------------
(* What the breaker's exposure holds *)

\* An active position holds its entry twice at least, one not found its amount.
LEMMA BookedType ==
  ASSUME ExecInv, EntryHeld, NEW p \in Position
  PROVE  /\ Booked[p] \in Nat /\ asked[p] \in Nat /\ entry[p] \in Nat
         /\ mem[p] = "ACTIVE" => Booked[p] = asked[p] + entry[p] /\ entry[p] <= asked[p]
         /\ mem[p] = "none" => Booked[p] = 0
<1> DEFINE again == IF p \in unheard THEN entry[p] ELSE 0
<1>1. asked[p] \in Nat /\ entry[p] \in Nat /\ again \in Nat
  BY DEF ExecInv, TypeOK
<1>2. mem[p] # "none" => entry[p] <= asked[p]
  BY DEF EntryHeld
<1>3. /\ mem[p] \in {"none", "ACTIVE", "CLOSED", "deleted"}
      /\ mem[p] \in {"none", "ACTIVE"} => again = 0
  BY DEF ExecInv, TypeOK, BookHeld
<1>4. /\ mem[p] = "ACTIVE" => Booked[p] = asked[p] + entry[p] + again
      /\ mem[p] = "CLOSED" => Booked[p] = asked[p] - entry[p] + again
      /\ mem[p] = "deleted" => Booked[p] = asked[p] + again
      /\ mem[p] = "none" => Booked[p] = 0 + again
  BY DEF Booked
<1> HIDE DEF Booked, again
<1> QED BY <1>1, <1>2, <1>3, <1>4

\* The same after a step.
LEMMA BookedTypeNext ==
  ASSUME ExecInv', EntryHeld', NEW p \in Position
  PROVE  Booked'[p] \in Nat
<1> DEFINE again == IF p \in unheard' THEN entry'[p] ELSE 0
<1>1. asked'[p] \in Nat /\ entry'[p] \in Nat /\ again \in Nat
  BY DEF ExecInv, TypeOK
<1>2. mem'[p] # "none" => entry'[p] <= asked'[p]
  BY DEF EntryHeld
<1>3. mem'[p] \in {"none", "ACTIVE", "CLOSED", "deleted"}
  BY DEF ExecInv, TypeOK
<1>4. /\ mem'[p] = "ACTIVE" => Booked'[p] = asked'[p] + entry'[p] + again
      /\ mem'[p] = "CLOSED" => Booked'[p] = asked'[p] - entry'[p] + again
      /\ mem'[p] = "deleted" => Booked'[p] = asked'[p] + again
      /\ mem'[p] = "none" => Booked'[p] = 0 + again
  BY DEF Booked
<1> HIDE DEF Booked, again
<1> QED BY <1>1, <1>2, <1>3, <1>4

\* What one position holds changes, and with it the sum.
LEMMA ExposureChange ==
  ASSUME ExecInv, EntryHeld, ExecInv', EntryHeld', NEW p \in Position,
         asked' = asked, entry' = entry,
         \A r \in Position : r # p => mem'[r] = mem[r] /\ (r \in unheard' <=> r \in unheard)
  PROVE  /\ SumOf(Booked', Position) = SumOf(Booked, Position) - Booked[p] + Booked'[p]
         /\ SumOf(Booked, Position) \in Nat
         /\ SumOf(Booked, Position) >= Booked[p]
<1>1. \A r \in Position : Booked[r] \in Nat
  BY BookedType
<1>2. \A r \in Position : Booked'[r] \in Nat
  BY BookedTypeNext
<1>3. \A r \in Position : r # p => Booked[r] = Booked'[r]
  BY DEF Booked
<1>4. IsFiniteSet(Position)
  BY ExecutionAssumption
<1> HIDE DEF Booked
<1>5. SumOf(Booked', Position) = SumOf(Booked, Position) - Booked[p] + Booked'[p]
  <2>1. \A r \in Position : Booked[r] \in Int /\ Booked'[r] \in Int
    BY <1>1, <1>2
  <2> QED BY <1>3, <1>4, <2>1, SumChange
<1>6. SumOf(Booked, Position) \in Nat /\ SumOf(Booked, Position) >= Booked[p]
  BY <1>1, <1>4, SumNat, SumAtLeast
<1> QED BY <1>5, <1>6

LEMMA ExposureKeeps ==
  ASSUME ExecInv, CloseInv, ExecInv', CloseInv', [Next]_vars,
         NoneMet => cb.exposure = SumOf(Booked, Position)
  PROVE  NoneMet' => cb'.exposure = SumOf(Booked', Position)
<1> SUFFICES ASSUME NoneMet'
             PROVE  cb'.exposure = SumOf(Booked', Position)
  OBVIOUS
<1>1. NoneMet /\ cb.exposure = SumOf(Booked, Position)
  BY NoneMetBefore
<1>2. EntryHeld /\ EntryHeld'
  BY DEF CloseInv
<1>3. CASE Created
  <2>1. /\ opos \in Position /\ mem[opos] = "none" /\ mem' = [mem EXCEPT ![opos] = "ACTIVE"]
        /\ asked' = asked /\ entry' = entry /\ unheard' = unheard /\ opos \notin unheard
        /\ mem \in [Position -> {"none", "ACTIVE", "CLOSED", "deleted"}]
    BY <1>3 DEF Created, outsideEntry, OpenerHeld, BookHeld, ExecInv, TypeOK
  <2>2. asked[opos] \in Nat /\ entry[opos] \in Nat
    BY <2>1 DEF ExecInv, TypeOK
  <2>3. Booked[opos] = 0 /\ Booked'[opos] = asked[opos] + entry[opos]
    BY <2>1, <2>2 DEF Booked
  <2>4. cb'.exposure = cb.exposure + entry[opos] + asked[opos]
    BY <1>3, BreakerCounts DEF Created
  <2>5. /\ SumOf(Booked', Position) = SumOf(Booked, Position) - Booked[opos] + Booked'[opos]
        /\ SumOf(Booked, Position) \in Nat
    <3>1. \A r \in Position : r # opos => mem'[r] = mem[r] /\ (r \in unheard' <=> r \in unheard)
      BY <2>1
    <3> QED BY <1>2, <2>1, <3>1, ExposureChange
  <2> HIDE DEF Booked
  <2> QED BY <1>1, <2>2, <2>3, <2>4, <2>5
<1>4. ASSUME NEW c \in Closer, FindNothing(c) \/ \E net, price \in BOOLEAN : Closed(c, net, price)
      PROVE  cb'.exposure = SumOf(Booked', Position)
  <2> DEFINE p == cpos[c]
             again == IF c \in alone THEN entry[p] ELSE 0
  <2>1. /\ p \in Position /\ mem[p] = "ACTIVE" /\ asked' = asked /\ entry' = entry
        /\ p \notin unheard /\ unheard' = IF c \in alone THEN unheard \cup {p} ELSE unheard
        /\ mem \in [Position -> {"none", "ACTIVE", "CLOSED", "deleted"}]
    BY <1>1, <1>4, CloseBooks DEF FindNothing, Closed, outsideClose, ExecInv, TypeOK
  <2>2. \/ /\ FindNothing(c) /\ mem' = [mem EXCEPT ![p] = "deleted"]
        \/ /\ ~FindNothing(c) /\ mem' = [mem EXCEPT ![p] = "CLOSED"]
    BY <1>1, <1>4, CloseBooks
  <2>3. /\ SumOf(Booked', Position) = SumOf(Booked, Position) - Booked[p] + Booked'[p]
        /\ SumOf(Booked, Position) \in Nat /\ SumOf(Booked, Position) >= Booked[p]
    <3>1. \A r \in Position : r # p => mem'[r] = mem[r] /\ (r \in unheard' <=> r \in unheard)
      BY <2>1, <2>2
    <3> QED BY <1>2, <2>1, <3>1, ExposureChange
  <2>4. /\ asked[p] \in Nat /\ entry[p] \in Nat /\ entry[p] <= asked[p]
        /\ Booked[p] = asked[p] + entry[p]
    BY <1>2, <2>1, BookedType
  <2>5. \/ /\ FindNothing(c) /\ Booked'[p] = asked[p] + again
        \/ /\ ~FindNothing(c) /\ Booked'[p] = asked[p] - entry[p] + again
    <3>1. (IF p \in unheard' THEN entry'[p] ELSE 0) = again
      BY <2>1
    <3>2. \/ FindNothing(c) /\ mem'[p] = "deleted"
          \/ ~FindNothing(c) /\ mem'[p] = "CLOSED"
      BY <2>1, <2>2
    <3> HIDE DEF p, again
    <3> QED BY <2>1, <3>1, <3>2 DEF Booked
  <2>6. IF c \in alone
          THEN \/ FindNothing(c) /\ cb'.exposure = cb.exposure
               \/ ~FindNothing(c) /\ cb'.exposure = Less(cb.exposure, entry[p])
          ELSE \/ FindNothing(c) /\ cb'.exposure = Less(cb.exposure, entry[p])
               \/ ~FindNothing(c) /\ cb'.exposure = Less(Less(cb.exposure, entry[p]), entry[p])
    BY <1>4, CloseRecords
  <2> HIDE DEF Booked, p
  <2> QED BY <1>1, <2>3, <2>4, <2>5, <2>6 DEF Less
<1>5. CASE cb'.exposure = cb.exposure /\ mem' = mem /\ unheard' = unheard
  <2>1. \A p \in Position : mem[p] # "none" => asked'[p] = asked[p] /\ entry'[p] = entry[p]
    BY BooksKept
  <2>2. \A p \in Position : mem[p] = "none" => p \notin unheard
    BY DEF ExecInv, BookHeld
  <2>3. \A p \in Position : Booked'[p] = Booked[p]
    BY <1>5, <2>1, <2>2 DEF Booked, ExecInv, TypeOK
  <2> HIDE DEF Booked
  <2> QED BY <1>1, <1>5, <2>3, ExecutionAssumption, SumSame
<1> QED
  <2>1. CASE CloseStep
    BY <1>4, <1>5, <2>1, CloseSteps
  <2>2. CASE EmergencyStep \/ \E p \in Position : ClosedOutside(p)
    BY <1>5, <2>2, QuietSteps
  <2>3. CASE ~CloseStep /\ ~EmergencyStep /\ ~(\E p \in Position : ClosedOutside(p))
    BY <1>3, <1>5, <2>3, OtherSteps DEF ExecInv, TypeOK
  <2> QED BY <2>1, <2>2, <2>3

\* What the engine asked for and the executor did not deposit stays in the exposure for
\* good, and nothing else does but what was not found and what an emergency closed, as
\* long as no two closes have met (seal-executor.ts:391, trading-engine.ts:656, :811, :996).
THEOREM ExposureTrue == Spec => []ExposureKept
<1> DEFINE Kept == NoneMet => cb.exposure = SumOf(Booked, Position)
<1>1. Init => Kept
  <2> SUFFICES ASSUME Init PROVE cb.exposure = SumOf(Booked, Position)
    OBVIOUS
  <2>1. cb.exposure = 0 /\ \A p \in Position : Booked[p] = 0
    BY DEF Init, InitialBreaker, Booked
  <2> HIDE DEF Booked
  <2> QED BY <2>1, SumZero, ExecutionAssumption
<1>2. ExecInv /\ CloseInv /\ ExecInv' /\ CloseInv' /\ Kept /\ [Next]_vars => Kept'
  BY ExposureKeeps
<1>3. Kept => ExposureKept
  BY DEF SumOf, ExposureKept
<1> HIDE DEF Kept
<1> QED BY CloseInvariant, <1>1, <1>2, <1>3, PTL DEF Spec
===============================================================================
