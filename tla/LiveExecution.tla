---------------------------- MODULE LiveExecution ----------------------------
(***************************************************************************)
(* One bot in live mode: the SealExecutor of src/engine/seal-executor.ts   *)
(* with its SealSession, the entry and the exits of the TradingEngine that *)
(* call it, the circuit breaker both of them record in, and the chain.     *)
(*                                                                         *)
(* A transaction that has been sent is in flight, and may take effect at   *)
(* any time until it is dropped, also after sendTransaction has reported   *)
(* it failed: of its answers this module uses what SendOutcome promises.   *)
(*                                                                         *)
(* The session signer pays for everything.  The wallet of the user, which  *)
(* other bots of theirs share, tops it up before an entry.  What a         *)
(* position holds is removed by several transactions, the last of which    *)
(* closes its account; the proceeds go to the signer.  Fees, prices and    *)
(* the tokens left over are not modelled.                                  *)
(*                                                                         *)
(* An emergency closes what is active, one position after another, through *)
(* the same closePosition but without the engine's records.  Positions may *)
(* also be closed by the user, outside the program.                        *)
(*                                                                         *)
(* Assumed: a read of the chain sees every transaction that has taken      *)
(* effect.  Bounds: one executor's life, one entry per Position, as many   *)
(* closes at once as there are Closers.                                    *)
(***************************************************************************)
EXTENDS CircuitBreaker, FiniteSets, FiniteSetsExt

CONSTANTS
  Position,             \* bounds the positions ever opened
  Closer,               \* bounds the checks and user closes in flight
  PositionSize,         \* config.positionSizeSOL, between its minimum and maximum
  MinPosition,          \* config.minPositionSOL
  Reserve,              \* RESERVE_SOL
  Rent,                 \* POSITION_RENT_ESTIMATE + TX_FEE_BUFFER
  MinWalletRent,        \* MIN_WALLET_RENT
  InitialWallet,        \* what the user has deposited
  Parts,                \* the transactions that empty a position
  MaxTxFailures,        \* config.maxTxFailuresPerHour
  MaxConsecutiveLosses, \* config.maxConsecutiveLosses
  Scenarios,            \* the sets of things that may happen in one behaviour, of
                        \* "second" (an entry after the first), "overlap" (closes at
                        \* the same time), "emergency" and "outside" (closes by the user)
  NoPool, NoPosition, NoCloser

ASSUME ExecutionAssumption ==
  /\ IsFiniteSet(Position) /\ IsFiniteSet(Pool)
  /\ PositionSize \in Nat /\ MinPosition \in Nat \ {0} /\ MinPosition <= PositionSize
  /\ Reserve \in Nat /\ Rent \in Nat /\ MinWalletRent \in Nat /\ InitialWallet \in Nat
  /\ Parts \in Nat \ {0}
  /\ MaxTxFailures \in Nat \ {0} /\ MaxConsecutiveLosses \in Nat \ {0}
  /\ NoPool \notin Pool /\ NoPosition \notin Position /\ NoCloser \notin Closer

VARIABLES
  ops,              \* the scenario of this behaviour
  \* the chain
  wallet, signer,   \* lamports of the wallet and of the session signer
  account,          \* position -> "none", "open" or "gone"
  parts,            \* position -> the parts of its liquidity still in it
  flight,           \* the transactions that may still take effect
  \* the executor
  mem,              \* position -> "none", "ACTIVE", "CLOSED" or "deleted" from its map
  pool, entry, asked, \* position -> its pool, what it holds, what the engine asked for
  \* the entry in flight, at most one
  opc, opos,        \* where enterPosition or openPosition waits, and its position
  \* the closes in flight
  cpc, cpos, cleft, \* closer -> where it waits, its position, the transactions left
  through,          \* the closers whose transaction has taken effect
  \* emergencyCloseAll
  begun, todo,      \* whether it has been called, and the positions it has yet to close
  alone,            \* the closer that works for it, if one does
  \* the safety systems
  cb,               \* the circuit breaker
  failures,         \* recent txFailures, counted up to the limit
  streak,           \* consecutiveLosses, counted up to the limit
  triggered,        \* isTriggered
  \* history
  results,          \* position -> how often its result was recorded
  doubtful,         \* the positions whose creation was reported failed
  course,           \* position -> how its closes went: "smooth", or one failed half-way
                    \* ("slipped"), or the user closed it ("outside"), or two met
                    \* ("overlapped")
  unheard,          \* the positions the emergency has taken out of the books
  surprised         \* a creation reported failed took effect during a later entry

chain   == << wallet, signer, account, parts, flight >>
book    == << mem, pool, entry, asked >>
opener  == << opc, opos >>
closers == << cpc, cpos, cleft, through, alone >>
emergency == << begun, todo >>
safety  == << cb, failures, streak, triggered >>
history == << results, doubtful, course, unheard, surprised >>
vars == << ops, chain, book, opener, closers, emergency, safety, history >>

Transfer(n) == [kind |-> "transfer", pos |-> NoPosition, n |-> n, by |-> NoCloser]
Create(p, n) == [kind |-> "create", pos |-> p, n |-> n, by |-> NoCloser]
Remove(p, n, c) == [kind |-> "remove", pos |-> p, n |-> n, by |-> c]

TypeOK ==
  /\ ops \in Scenarios
  /\ wallet \in Nat /\ signer \in Nat
  /\ account \in [Position -> {"none", "open", "gone"}]
  /\ parts \in [Position -> 0 .. Parts]
  /\ flight \subseteq [kind : {"transfer", "create", "remove"},
                       pos : Position \cup {NoPosition}, n : Nat,
                       by : Closer \cup {NoCloser}]
  /\ mem \in [Position -> {"none", "ACTIVE", "CLOSED", "deleted"}]
  /\ pool \in [Position -> Pool \cup {NoPool}]
  /\ entry \in [Position -> Nat] /\ asked \in [Position -> Nat]
  /\ opc \in {"idle", "size", "fund", "transfer", "check", "build", "create"}
  /\ opos \in Position \cup {NoPosition}
  /\ cpc \in [Closer -> {"idle", "watch", "find", "send", "sent", "price"}]
  /\ cpos \in [Closer -> Position \cup {NoPosition}]
  /\ cleft \in [Closer -> 0 .. Parts] /\ through \subseteq Closer
  /\ begun \in BOOLEAN /\ todo \subseteq Position /\ alone \subseteq Closer
  /\ cb \in CircuitBreakerState
  /\ failures \in 0 .. MaxTxFailures /\ streak \in 0 .. MaxConsecutiveLosses
  /\ triggered \in BOOLEAN
  /\ results \in [Position -> Nat]
  /\ doubtful \subseteq Position
  /\ course \in [Position -> {"smooth", "slipped", "outside", "overlapped"}]
  /\ unheard \subseteq Position
  /\ surprised \in BOOLEAN

Init ==
  /\ ops \in Scenarios
  /\ wallet = InitialWallet /\ signer = 0
  /\ account = [p \in Position |-> "none"] /\ parts = [p \in Position |-> 0]
  /\ flight = {}
  /\ mem = [p \in Position |-> "none"] /\ pool = [p \in Position |-> NoPool]
  /\ entry = [p \in Position |-> 0] /\ asked = [p \in Position |-> 0]
  /\ opc = "idle" /\ opos = NoPosition
  /\ cpc = [c \in Closer |-> "idle"] /\ cpos = [c \in Closer |-> NoPosition]
  /\ cleft = [c \in Closer |-> 0] /\ through = {}
  /\ begun = FALSE /\ todo = {} /\ alone = {}
  /\ cb = InitialBreaker /\ failures = 0 /\ streak = 0 /\ triggered = FALSE
  /\ results = [p \in Position |-> 0]
  /\ doubtful = {} /\ course = [p \in Position |-> "smooth"]
  /\ unheard = {} /\ surprised = FALSE

Lesser(a, b) == IF a <= b THEN a ELSE b

\* The breaker's window of transactions, counted up to the limit: all of it passes at once.
Counted(breaker) == [breaker EXCEPT !.recentTx = Lesser(@, MaxTxPerMinute)]

\* recordTxFailure
RecordTxFailure == failures' = Lesser(failures + 1, MaxTxFailures)

\* canTrade
Halted == triggered \/ failures >= MaxTxFailures \/ streak >= MaxConsecutiveLosses

Active == { p \in Position : mem[p] = "ACTIVE" }

-----------------------------------------------------------------------------
(* An entry: enterPosition of the engine, then openPosition *)

outsideEntry == << ops, closers, emergency, streak, results, course, unheard, surprised >>

EntryEnds == opc' = "idle" /\ opos' = NoPosition

\* enterPosition; the position has no id yet and is named by the keypair generated
\* for it later.
Enter(q, p) ==
  /\ opc = "idle" /\ mem[p] = "none" /\ pool[p] = NoPool
  /\ "second" \in ops \/ \A r \in Position : pool[r] = NoPool
  /\ triggered' = Halted
  /\ IF Halted
       THEN UNCHANGED << opener, pool >>
       ELSE opc' = "size" /\ opos' = p /\ pool' = [pool EXCEPT ![p] = q]
  /\ UNCHANGED << outsideEntry, chain, mem, entry, asked, cb, failures, doubtful >>

\* calculatePositionSize
CalculatePositionSize(balance) == Lesser(PositionSize, Less(balance, Reserve))

\* getBalance answers with the wallet; then the breaker is asked by the engine and,
\* with the emergency stop, by the executor, all at once.
SizeEntry ==
  /\ opc = "size"
  /\ triggered' = Halted
  /\ LET amount == CalculatePositionSize(wallet)
     IN  /\ asked' = [asked EXCEPT ![opos] = amount]
         /\ IF CanOpenPosition(cb, pool[opos], amount) /\ ~Halted
              THEN opc' = "fund" /\ UNCHANGED opos
              ELSE EntryEnds
  /\ UNCHANGED << outsideEntry, chain, mem, pool, entry, cb, failures, doubtful >>

\* The market data do not have the pool.
PoolNotFound ==
  /\ opc = "fund"
  /\ EntryEnds
  /\ UNCHANGED << outsideEntry, chain, book, safety, doubtful >>

\* A call of the chain or of the market data throws: the catch records a failure.
OpenThrows ==
  /\ opc \in {"fund", "transfer", "check", "build"}
  /\ RecordTxFailure
  /\ EntryEnds
  /\ UNCHANGED << outsideEntry, chain, book, cb, triggered, doubtful >>

\* fundSessionFromWallet, when the two balances have been read.
FundSession ==
  /\ opc = "fund"
  /\ LET deficit == asked[opos] + Rent - signer
         available == wallet - MinWalletRent
     IN  \/ /\ deficit <= 0
            /\ opc' = "check" /\ UNCHANGED << opos, flight >>
         \/ /\ deficit > 0 /\ available <= 0
            /\ EntryEnds /\ UNCHANGED flight
         \/ /\ deficit > 0 /\ available > 0
            /\ flight' = flight \cup {Transfer(Lesser(deficit, available))}
            /\ opc' = "transfer" /\ UNCHANGED opos
  /\ UNCHANGED << outsideEntry, wallet, signer, account, parts, book, cb, failures, triggered,
                  doubtful >>

\* confirmTransaction returns, and whether the transfer had an error is not looked
\* at; or it throws, and the entry ends without a failure recorded.
FundingAnswered ==
  /\ opc = "transfer"
  /\ \/ opc' = "check" /\ UNCHANGED opos
     \/ EntryEnds
  /\ UNCHANGED << outsideEntry, chain, book, safety, doubtful >>

\* Mutant of Resize: the rent is not kept back.
ResizeToBalance(balance, amount) == Lesser(amount, balance)

\* The amount the balance of the signer leaves room for.
Resize(balance, amount) == Lesser(amount, Less(balance, Rent))

\* The balance of the signer has been read again.
CheckSigner ==
  /\ opc = "check"
  /\ LET amount == Resize(signer, asked[opos])
     IN  IF amount < MinPosition
           THEN EntryEnds /\ UNCHANGED entry
           ELSE opc' = "build" /\ entry' = [entry EXCEPT ![opos] = amount] /\ UNCHANGED opos
  /\ UNCHANGED << outsideEntry, chain, mem, pool, asked, safety, doubtful >>

\* The transaction is built, the fee payer looked at, and the transaction sent.
SendCreate ==
  /\ opc = "build"
  /\ opc' = "create"
  /\ flight' = flight \cup {Create(opos, entry[opos])}
  /\ UNCHANGED << outsideEntry, wallet, signer, account, parts, book, opos, safety, doubtful >>

\* Mutant of Created: the position is forgotten when the cost of its transaction
\* cannot be read.
CreatedUntracked ==
  /\ opc = "create" /\ account[opos] # "none"
  /\ cb' = Counted(RecordPositionOpened(RecordPositionOpened(cb, pool[opos], entry[opos]),
                                        pool[opos], asked[opos]))
  /\ \/ mem' = [mem EXCEPT ![opos] = "ACTIVE"]
     \/ UNCHANGED mem
  /\ EntryEnds
  /\ UNCHANGED << outsideEntry, chain, pool, entry, asked, failures, triggered, doubtful >>

\* Mutant of Created: the executor leaves the recording to the engine.
CreatedRecordedOnce ==
  /\ opc = "create" /\ account[opos] # "none"
  /\ cb' = Counted(RecordPositionOpened(cb, pool[opos], asked[opos]))
  /\ mem' = [mem EXCEPT ![opos] = "ACTIVE"]
  /\ EntryEnds
  /\ UNCHANGED << outsideEntry, chain, pool, entry, asked, failures, triggered, doubtful >>

\* sendTransaction succeeds.  The executor records what it deposited, the engine
\* what it asked for.
Created ==
  /\ opc = "create" /\ account[opos] # "none"
  /\ cb' = Counted(RecordPositionOpened(RecordPositionOpened(cb, pool[opos], entry[opos]),
                                        pool[opos], asked[opos]))
  /\ mem' = [mem EXCEPT ![opos] = "ACTIVE"]
  /\ EntryEnds
  /\ UNCHANGED << outsideEntry, chain, pool, entry, asked, failures, triggered, doubtful >>

\* sendTransaction fails; the transaction may yet take effect, or has.
CreateFails ==
  /\ opc = "create"
  /\ RecordTxFailure
  /\ doubtful' = doubtful \cup {opos}
  /\ EntryEnds
  /\ UNCHANGED << outsideEntry, chain, book, cb, triggered >>

-----------------------------------------------------------------------------
(* A close: checkExitConditions, closePositionById or emergencyCloseAll, then *)
(* closePosition *)

outsideClose == << ops, pool, entry, asked, opener, emergency, triggered, doubtful, surprised >>
closeHistory == << results, course, unheard >>

CloseEnds(c) ==
  /\ cpc' = [cpc EXCEPT ![c] = "idle"]
  /\ cpos' = [cpos EXCEPT ![c] = NoPosition]
  /\ cleft' = [cleft EXCEPT ![c] = 0]
  /\ through' = through \ {c}
  /\ alone' = alone \ {c}

\* A close may begin.
Free(c) == cpc[c] = "idle" /\ ("overlap" \in ops \/ \A d \in Closer : cpc[d] = "idle")

\* A close begins; another of the position is under way, or has been.
Meet(p) ==
  IF mem[p] = "CLOSED" \/ \E d \in Closer : cpos[d] = p /\ cpc[d] # "watch"
    THEN course' = [course EXCEPT ![p] = "overlapped"]
    ELSE UNCHANGED course

Slip(p) == course' = [course EXCEPT ![p] = IF @ = "smooth" THEN "slipped" ELSE @]

\* closePositionById.  The status is looked at before the first wait only.
BeginClose(c, p) ==
  /\ Free(c) /\ mem[p] = "ACTIVE"
  /\ cpc' = [cpc EXCEPT ![c] = "find"] /\ cpos' = [cpos EXCEPT ![c] = p]
  /\ Meet(p)
  /\ UNCHANGED << outsideClose, chain, mem, cleft, through, alone, cb, failures, streak,
                  results, unheard >>

\* checkExitConditions: updatePositionData looks at the status, and reads the chain.
BeginCheck(c, p) ==
  /\ Free(c) /\ mem[p] = "ACTIVE"
  /\ cpc' = [cpc EXCEPT ![c] = "watch"] /\ cpos' = [cpos EXCEPT ![c] = p]
  /\ UNCHANGED << outsideClose, chain, mem, cleft, through, alone, cb, failures, streak,
                  closeHistory >>

\* No reason to exit, or the position has left the map.
KeepPosition(c) ==
  /\ cpc[c] = "watch"
  /\ CloseEnds(c)
  /\ UNCHANGED << outsideClose, chain, mem, cb, failures, streak, closeHistory >>

\* A reason to exit.  The status is not looked at again.
ExitFound(c) ==
  /\ cpc[c] = "watch" /\ mem[cpos[c]] # "deleted"
  /\ cpc' = [cpc EXCEPT ![c] = "find"]
  /\ Meet(cpos[c])
  /\ UNCHANGED << outsideClose, chain, mem, cpos, cleft, through, alone, cb, failures, streak,
                  results, unheard >>

\* The catch of closePosition.
CloseThrows(c) ==
  /\ cpc[c] \in {"find", "send", "price"}
  /\ RecordTxFailure
  /\ IF cpc[c] = "find" THEN UNCHANGED course ELSE Slip(cpos[c])
  /\ CloseEnds(c)
  /\ UNCHANGED << outsideClose, chain, mem, cb, streak, results, unheard >>

\* What the emergency takes out of the books, the engine does not record.
Unheard(c) == unheard' = IF c \in alone THEN unheard \cup {cpos[c]} ELSE unheard

\* The position is not on the chain, or has no liquidity left: it is dropped from
\* the map and reported closed without a result, which the engine records once.
FindNothing(c) ==
  /\ cpc[c] = "find"
  /\ account[cpos[c]] # "open" \/ parts[cpos[c]] = 0
  /\ mem' = [mem EXCEPT ![cpos[c]] = "deleted"]
  /\ cb' = IF c \in alone THEN cb
             ELSE Counted(RecordPositionClosed(cb, pool[cpos[c]], entry[cpos[c]]))
  /\ Unheard(c)
  /\ CloseEnds(c)
  /\ UNCHANGED << outsideClose, chain, failures, streak, results, course >>

\* The transactions that remove what is left.
FindParts(c) ==
  /\ cpc[c] = "find"
  /\ account[cpos[c]] = "open" /\ parts[cpos[c]] > 0
  /\ cpc' = [cpc EXCEPT ![c] = "send"]
  /\ cleft' = [cleft EXCEPT ![c] = parts[cpos[c]]]
  /\ UNCHANGED << outsideClose, chain, mem, cpos, through, alone, cb, failures, streak,
                  closeHistory >>

SendRemove(c) ==
  /\ cpc[c] = "send"
  /\ cpc' = [cpc EXCEPT ![c] = "sent"]
  /\ flight' = flight \cup {Remove(cpos[c], cleft[c], c)}
  /\ UNCHANGED << outsideClose, wallet, signer, account, parts, mem, cpos, cleft, through, alone,
                  cb, failures, streak, closeHistory >>

\* Mutant of Removed: the first transaction that goes through ends the removal.
RemovedAtOnce(c) ==
  /\ cpc[c] = "sent" /\ c \in through
  /\ cleft' = [cleft EXCEPT ![c] = 0] /\ through' = through \ {c}
  /\ cpc' = [cpc EXCEPT ![c] = "price"]
  /\ UNCHANGED << outsideClose, chain, mem, cpos, alone, cb, failures, streak, closeHistory >>

\* sendTransaction succeeds: the part is out.
Removed(c) ==
  /\ cpc[c] = "sent" /\ c \in through
  /\ cleft' = [cleft EXCEPT ![c] = @ - 1]
  /\ through' = through \ {c}
  /\ cpc' = [cpc EXCEPT ![c] = IF cleft[c] = 1 THEN "price" ELSE "send"]
  /\ UNCHANGED << outsideClose, chain, mem, cpos, alone, cb, failures, streak, closeHistory >>

\* sendTransaction fails: what has been removed stays removed, the position active.
RemoveFails(c) ==
  /\ cpc[c] = "sent"
  /\ RecordTxFailure
  /\ Slip(cpos[c])
  /\ flight' = { IF t.by = c THEN [t EXCEPT !.by = NoCloser] ELSE t : t \in flight }
  /\ CloseEnds(c)
  /\ UNCHANGED << outsideClose, wallet, signer, account, parts, mem, cb, streak,
                  results, unheard >>

\* recordTradeResult
RecordTradeResult(losses, loss) == IF loss THEN Lesser(losses + 1, MaxConsecutiveLosses) ELSE 0

\* The close as the executor records it, and as the engine does after it.
RecordClose(c) ==
  LET once == RecordPositionClosed(cb, pool[cpos[c]], entry[cpos[c]])
  IN  cb' = Counted(IF c \in alone THEN once
                    ELSE RecordPositionClosed(once, pool[cpos[c]], entry[cpos[c]]))

\* Mutant of Closed: the result is left to whoever finds the position gone.
ClosedWithoutResult(c, net, price) ==
  /\ cpc[c] = "price"
  /\ RecordClose(c)
  /\ UNCHANGED << streak, results >>
  /\ mem' = [mem EXCEPT ![cpos[c]] = "CLOSED"]
  /\ Unheard(c)
  /\ CloseEnds(c)
  /\ UNCHANGED << outsideClose, chain, failures, course >>

\* The price has been read; the executor records the close and its result, and the
\* engine, but for the emergency's, both again.  "net" and "price" say whether it lost
\* with what the executor adds, fees and costs, and without, as the engine counts.
\* Nobody looks whether the position was closed meanwhile.
Closed(c, net, price) ==
  /\ cpc[c] = "price"
  /\ RecordClose(c)
  /\ LET once == RecordTradeResult(streak, net)
     IN  IF c \in alone
           THEN /\ streak' = once
                /\ results' = [results EXCEPT ![cpos[c]] = @ + 1]
           ELSE /\ streak' = RecordTradeResult(once, price)
                /\ results' = [results EXCEPT ![cpos[c]] = @ + 2]
  /\ mem' = [mem EXCEPT ![cpos[c]] = IF @ = "deleted" THEN @ ELSE "CLOSED"]
  /\ Unheard(c)
  /\ CloseEnds(c)
  /\ UNCHANGED << outsideClose, chain, failures, course >>

-----------------------------------------------------------------------------
(* An emergency: emergencyCloseAll, called when the emergency stop triggers *)

outsideEmergency == << ops, chain, book, opener, cleft, through, cb, failures, streak,
                       results, doubtful, unheard, surprised >>

\* canTrade has triggered it, or the user does.  It triggers once.
EmergencyBegins ==
  /\ "emergency" \in ops /\ ~begun
  /\ begun' = TRUE /\ triggered' = TRUE
  /\ todo' = Active
  /\ UNCHANGED << outsideEmergency, cpc, cpos, alone, course >>

\* The next position, the one before being done with.  Its status is not looked at,
\* only whether the executor still knows it.
EmergencyCloses(c, p) ==
  /\ alone = {} /\ p \in todo /\ Free(c)
  /\ todo' = todo \ {p}
  /\ \/ /\ mem[p] = "deleted"
        /\ UNCHANGED << cpc, cpos, alone, course >>
     \/ /\ mem[p] # "deleted"
        /\ cpc' = [cpc EXCEPT ![c] = "find"] /\ cpos' = [cpos EXCEPT ![c] = p]
        /\ alone' = {c}
        /\ Meet(p)
  /\ UNCHANGED << outsideEmergency, begun, triggered >>

-----------------------------------------------------------------------------
(* The chain, the clock, and the other bots of the user *)

outsideChain == << ops, book, opener, cpc, cpos, cleft, alone, emergency, results, unheard, doubtful >>

Landed(t) == flight' = flight \ {t}

\* The chain refuses what would leave an account without its rent.
TransferLands(t) ==
  /\ t \in flight /\ t.kind = "transfer"
  /\ wallet - t.n >= MinWalletRent
  /\ wallet' = wallet - t.n /\ signer' = signer + t.n
  /\ Landed(t)
  /\ UNCHANGED << outsideChain, course, through, account, parts, safety, surprised >>

CreateLands(t) ==
  /\ t \in flight /\ t.kind = "create"
  /\ account[t.pos] = "none" /\ signer >= t.n + Rent
  /\ signer' = signer - t.n - Rent
  /\ account' = [account EXCEPT ![t.pos] = "open"]
  /\ parts' = [parts EXCEPT ![t.pos] = Parts]
  /\ surprised' = (surprised \/ (t.pos # opos /\ opc # "idle"))
  /\ Landed(t)
  /\ UNCHANGED << outsideChain, course, through, wallet, safety >>

RemoveLands(t) ==
  /\ t \in flight /\ t.kind = "remove"
  /\ account[t.pos] = "open" /\ parts[t.pos] = t.n
  /\ parts' = [parts EXCEPT ![t.pos] = @ - 1]
  /\ IF t.n = 1
       THEN /\ account' = [account EXCEPT ![t.pos] = "gone"]
            /\ signer' = signer + entry[t.pos] + Rent
       ELSE UNCHANGED << account, signer >>
  /\ through' = through \cup ({t.by} \ {NoCloser})
  /\ Landed(t)
  /\ UNCHANGED << outsideChain, course, wallet, safety, surprised >>

\* The user closes the position with another wallet tool, and has what it held.
ClosedOutside(p) ==
  /\ "outside" \in ops /\ account[p] = "open"
  /\ account' = [account EXCEPT ![p] = "gone"] /\ parts' = [parts EXCEPT ![p] = 0]
  /\ course' = [course EXCEPT ![p] = IF @ = "smooth" THEN "outside" ELSE @]
  /\ UNCHANGED << outsideChain, through, wallet, signer, flight, safety, surprised >>

\* It expires, or the chain refuses it.
Drop(t) ==
  /\ t \in flight
  /\ Landed(t)
  /\ UNCHANGED << outsideChain, course, through, wallet, signer, account, parts, safety,
                  surprised >>

OtherBotTakes ==
  /\ wallet > MinWalletRent
  /\ wallet' = MinWalletRent
  /\ UNCHANGED << outsideChain, course, through, signer, account, parts, flight, safety,
                  surprised >>

\* A minute passes, and with it the breaker's pause and its window; or the oldest
\* failure leaves its window.
Time ==
  /\ \/ /\ cb.cooling
        /\ cb' = [cb EXCEPT !.cooling = FALSE, !.recentTx = 0]
        /\ UNCHANGED failures
     \/ /\ failures > 0 /\ failures' = failures - 1
        /\ UNCHANGED cb
  /\ UNCHANGED << outsideChain, course, through, chain, streak, triggered, surprised >>

-----------------------------------------------------------------------------
EntryStep ==
  \/ \E q \in Pool, p \in Position : Enter(q, p)
  \/ SizeEntry \/ PoolNotFound \/ FundSession \/ FundingAnswered \/ CheckSigner \/ OpenThrows
  \/ SendCreate \/ Created \/ CreateFails

CloseStep == \E c \in Closer :
  \/ \E p \in Position : BeginClose(c, p) \/ BeginCheck(c, p)
  \/ KeepPosition(c) \/ ExitFound(c)
  \/ FindNothing(c) \/ FindParts(c) \/ SendRemove(c) \/ Removed(c) \/ RemoveFails(c)
  \/ CloseThrows(c)
  \/ \E net, price \in BOOLEAN : Closed(c, net, price)

EmergencyStep ==
  \/ EmergencyBegins
  \/ \E c \in Closer, p \in Position : EmergencyCloses(c, p)

ChainStep ==
  \/ \E t \in flight : TransferLands(t) \/ CreateLands(t) \/ RemoveLands(t) \/ Drop(t)
  \/ \E p \in Position : ClosedOutside(p)
  \/ OtherBotTakes \/ Time

Next == EntryStep \/ CloseStep \/ EmergencyStep \/ ChainStep

Spec == Init /\ [][Next]_vars

-----------------------------------------------------------------------------
(* Properties *)

\* As long as an executor lives, no liquidity it created is on the chain without its
\* watching it, but for a position that is being opened, and one whose creation was
\* reported failed and took effect nevertheless (seal-executor.ts:367-375).
LiquidityIsTracked ==
  \A p \in Position :
    parts[p] > 0 => p \in Active \/ p = opos \/ p \in doubtful

\* A position that was closed with a result has left the chain, whoever closed it
\* and however its transactions interleaved with those of another close
\* (seal-executor.ts:539-604).
ClosedIsGone == \A p \in Position : mem[p] = "CLOSED" => account[p] = "gone"

\* The positions reported closed because they were not found.
Vanished == { p \in Position : mem[p] = "deleted" }

NoneMet == \A p \in Position : course[p] # "overlapped"

\* While no two closes of a position have met, the breaker counts every live position
\* twice, and for good one time a position that was not found, as when its last
\* transaction was reported failed and took effect, and one time a position that an
\* emergency closed: the executor and the engine both record the opening and the close,
\* only the engine that a position was not found, and nothing does emergencyCloseAll
\* (seal-executor.ts:391, :487-494, :592; trading-engine.ts:656, :812, :996).
CountedTwice ==
  NoneMet =>
    cb.count = 2 * Cardinality(Active) + Cardinality(Vanished) + Cardinality(unheard)

\* What the exposure holds of a position.
Booked == [p \in Position |->
  (CASE mem[p] = "ACTIVE"  -> asked[p] + entry[p]
     [] mem[p] = "CLOSED"  -> asked[p] - entry[p]
     [] mem[p] = "deleted" -> asked[p]
     [] OTHER              -> 0)
  + (IF p \in unheard THEN entry[p] ELSE 0)]

\* What the engine asked for and the executor did not deposit stays in the exposure
\* for good, the two recording different amounts and subtracting the same; and so does
\* once what an emergency closed, and what was not found
\* (seal-executor.ts:391, trading-engine.ts:656, :811, :996).
ExposureKept ==
  NoneMet => cb.exposure = MapThenSumSet(LAMBDA p : Booked[p], Position)

\* A position that has left the executor's books without two closes of it having met has
\* left its result with the emergency stop, twice, or once if an emergency closed it; but
\* one that the user closed, or a close of which failed half-way, may end without a result
\* (seal-executor.ts:487-494, :593, trading-engine.ts:807, :996, position.ts:310-312).
ResultRecorded ==
  \A p \in Position :
    course[p] # "overlapped" =>
      /\ mem[p] = "CLOSED" => results[p] = (IF p \in unheard THEN 1 ELSE 2)
      /\ mem[p] = "deleted" => course[p] \in {"slipped", "outside"} /\ results[p] = 0

\* When an entry is sent, the signer has what it takes, unless a creation that had
\* been reported failed took effect meanwhile (seal-executor.ts:312-358).
CreateIsCovered ==
  opc = "build" /\ ~surprised => signer >= entry[opos] + Rent
===============================================================================
