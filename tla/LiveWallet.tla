----------------------------- MODULE LiveWallet -----------------------------
(***************************************************************************)
(* The routes of src/routes/wallet.ts by which one user makes the live     *)
(* bots able to trade, and gets the money back: the rows of the bots, the  *)
(* transactions the routes prepare for the owner to sign, and the accounts *)
(* on the chain.                                                           *)
(*                                                                         *)
(* A prepared transaction is signed and submitted later, or never, and may *)
(* take effect after the route that submitted it has given up.  It takes   *)
(* effect as a whole or not at all.  The server alone keeps the secret key *)
(* of a session signer, in the row of its bot: what a signer holds cannot  *)
(* be moved when the key is in no row.                                     *)
(*                                                                         *)
(* A key stands for the agent and the session keypair that setup-live      *)
(* generates together, each with a signer of its own that the owner funds: *)
(* the signer of the session trades, that of the agent pays for the        *)
(* session, and a remainder stays on it that no route ever moves.  The     *)
(* lamports of the wallet itself, spending limits and fees are not         *)
(* modelled.                                                               *)
(***************************************************************************)
EXTENDS Integers, FiniteSets

CONSTANTS
  Bot,        \* the live bots of the user
  Key,        \* bounds the keypairs ever generated
  Handler,    \* bounds the requests in flight
  Tx,         \* bounds the transactions ever prepared
  Deposit,    \* what setup-live has the owner pay to the session signer
  MaxFunds,   \* bounds what a signer holds
  Scenarios,  \* the sets of operations of which a behaviour may use one
  NoKey, NoBot, NoTx

ASSUME WalletAssumption ==
  /\ NoKey \notin Key /\ NoBot \notin Bot /\ NoTx \notin Tx
  /\ Deposit \in 1 .. MaxFunds /\ MaxFunds \in Nat
  /\ \A s \in Scenarios : s \subseteq
       { "create", "setup", "register", "session", "revoke", "recover", "withdraw",
         "delete", "trade", "overlap", "late", "resubmit", "unread", "fail" }

VARIABLES
  ops,        \* the operations this behaviour uses
  recorded,   \* users.sealWalletAddress is set
  row,        \* bot -> its keys in the table bots
  call,       \* handler -> the request it is working on
  tx, status, \* the transactions, and what has become of each
  made,       \* key -> "none", or who generated it: "server" or "app"
  \* the chain
  open,       \* the wallet account exists
  agents,     \* the registered agents
  sessions, revoked, \* the session accounts, and those that were revoked
  funds,      \* key -> lamports of its session signer
  purses,     \* the keys whose agent signers hold something
  \* history
  missed      \* transaction -> if it is a recovery, the keys whose session signers it
              \* does not read, or that were paid after it read them

rows == << recorded, row >>
accounts == << open, agents, sessions, revoked, funds, purses >>
chain == << accounts, missed >>
vars == << ops, rows, call, tx, status, made, chain >>

Keys == Key \cup {NoKey}
\* The address of a session account is derived from its agent and its signer.
Address == Keys \X Keys
NoAddress == << NoKey, NoKey >>

Rows == [agent : Keys, secret : Keys, address : Address, session : Keys]
EmptyRow == [agent |-> NoKey, secret |-> NoKey, address |-> NoAddress, session |-> NoKey]

Idle == [at |-> "idle", bot |-> NoBot, rows |-> [b \in Bot |-> EmptyRow], tx |-> NoTx]

\* What a transaction does; bot and recovery are the flags it is submitted with.
Empty == [create |-> FALSE, fund |-> NoKey, register |-> NoKey, session |-> NoAddress,
          revoke |-> NoAddress, drain |-> [k \in Key |-> 0], deregister |-> {},
          close |-> FALSE, bot |-> NoBot, recovery |-> FALSE]

\* The instructions that make a transaction up, alone in it.
CreateWallet == [Empty EXCEPT !.create = TRUE]
RegisterAgent(agent) == [Empty EXCEPT !.register = agent]
CreateSession(address) == [Empty EXCEPT !.session = address]
RevokeSession(address) == [Empty EXCEPT !.revoke = address]
\* What a recovery or a withdrawal has the owner sign: the signers are emptied, and
\* with the wallet its agents are removed.
CloseWallet(drain, close, agent) ==
  [Empty EXCEPT !.drain = drain, !.close = close, !.deregister = IF close THEN agent ELSE {}]

TypeOK ==
  /\ ops \in Scenarios /\ recorded \in BOOLEAN
  /\ row \in [Bot -> Rows]
  /\ call \in [Handler ->
       [at : {"idle", "register", "session", "setup", "revoke", "recover", "withdraw",
              "await", "finalize", "send", "sending", "save", "user", "bots"},
        bot : Bot \cup {NoBot}, rows : [Bot -> Rows], tx : Tx \cup {NoTx}]]
  /\ tx \in [Tx ->
       [create : BOOLEAN, fund : Keys, register : Keys, session : Address,
        revoke : Address, drain : [Key -> 0 .. MaxFunds], deregister : SUBSET Key,
        close : BOOLEAN, bot : Bot \cup {NoBot}, recovery : BOOLEAN]]
  /\ status \in [Tx -> {"none", "prepared", "sent", "landed", "failed"}]
  /\ made \in [Key -> {"none", "server", "app"}]
  /\ open \in BOOLEAN /\ agents \subseteq Key
  /\ sessions \subseteq Key \X Key /\ revoked \subseteq sessions
  /\ funds \in [Key -> 0 .. MaxFunds] /\ purses \subseteq Key
  /\ missed \in [Tx -> SUBSET Key]

Init ==
  /\ ops \in Scenarios /\ recorded = FALSE
  /\ row = [b \in Bot |-> EmptyRow]
  /\ call = [h \in Handler |-> Idle]
  /\ tx = [t \in Tx |-> Empty] /\ status = [t \in Tx |-> "none"]
  /\ made = [k \in Key |-> "none"]
  /\ open = FALSE /\ agents = {} /\ sessions = {} /\ revoked = {}
  /\ funds = [k \in Key |-> 0] /\ purses = {}
  /\ missed = [t \in Tx |-> {}]

-----------------------------------------------------------------------------
(* The transactions *)

\* Hands a new transaction out, to the owner or, as sent, to the chain.
NewTx(t, content, as) ==
  /\ status[t] = "none"
  /\ status' = [status EXCEPT ![t] = as] /\ tx' = [tx EXCEPT ![t] = content]

\* The rules of the Seal program: an account is created once, an agent needs its
\* wallet and a session its agent, and a wallet is closed after its agents are gone.
Valid(x) ==
  /\ x.create => ~open
  /\ x.register # NoKey => (open \/ x.create) /\ x.register \notin agents
  /\ x.session # NoAddress =>
       /\ open /\ x.session[1] \in agents /\ x.session \notin sessions
       /\ made[x.session[1]] = "server" => funds[x.session[2]] > 0
  /\ x.revoke # NoAddress => open /\ x.revoke \in sessions
  /\ \A k \in Key : x.drain[k] <= funds[k]
  /\ x.deregister \subseteq agents
  /\ x.close => open /\ agents = x.deregister

\* The session signers in s are paid: what recoveries read of them is out of date.
Paid(s) == missed' = [t \in Tx |-> IF tx[t].recovery THEN missed[t] \cup s ELSE missed[t]]

\* A transaction that was sent takes effect or fails.  Without "late" it does so
\* only while the route that sent it waits for it.
Land(t) ==
  /\ status[t] = "sent"
  /\ "late" \in ops \/ \E h \in Handler : call[h].tx = t
  /\ LET x == tx[t]
     IN  IF Valid(x)
           THEN /\ status' = [status EXCEPT ![t] = "landed"]
                /\ open' = ((open \/ x.create) /\ ~x.close)
                /\ agents' = (agents \cup ({x.register} \ {NoKey})) \ x.deregister
                /\ sessions' = sessions \cup ({x.session} \ {NoAddress})
                /\ revoked' = revoked \cup ({x.revoke} \ {NoAddress})
                /\ funds' = [k \in Key |->
                     IF k = x.fund
                       THEN IF funds[k] + Deposit > MaxFunds THEN MaxFunds
                                                             ELSE funds[k] + Deposit
                       ELSE funds[k] - x.drain[k]]
                /\ purses' = purses \cup (IF x.fund # NoKey THEN {x.register} \ {NoKey} ELSE {})
                /\ Paid({x.fund} \ {NoKey})
           ELSE status' = [status EXCEPT ![t] = "failed"] /\ UNCHANGED chain
  /\ UNCHANGED << ops, rows, call, tx, made >>

-----------------------------------------------------------------------------
(* Requests *)

Free(h) ==
  /\ call[h] = Idle
  /\ "overlap" \in ops \/ \A i \in Handler : call[i] = Idle

\* A route reads the row of its bot, or the rows of all bots, and goes on after an await.
Begin(h, b, at) ==
  /\ at \in ops /\ Free(h)
  /\ call' = [call EXCEPT ![h] = [Idle EXCEPT !.at = at, !.bot = b, !.rows = row]]

Ends(h) == call' = [call EXCEPT ![h] = Idle]

\* prepare-create and prepare-create-and-fund.
PrepareCreate(t) ==
  /\ "create" \in ops /\ ~open
  /\ NewTx(t, CreateWallet, "prepared")
  /\ recorded' = TRUE
  /\ UNCHANGED << ops, row, call, made, chain >>

\* prepare-register-agent, for a key of the app.
BeginRegister(h, b) ==
  /\ Begin(h, b, "register") /\ row[b].agent = NoKey
  /\ UNCHANGED << ops, rows, tx, status, made, chain >>

PrepareRegister(h, t, k) ==
  /\ call[h].at = "register" /\ made[k] = "none"
  /\ IF open
       THEN /\ NewTx(t, RegisterAgent(k), "prepared")
            /\ made' = [made EXCEPT ![k] = "app"]
            /\ row' = [row EXCEPT ![call[h].bot].agent = k]
       ELSE UNCHANGED << tx, status, made, row >>
  /\ Ends(h)
  /\ UNCHANGED << ops, recorded, chain >>

\* Mutant of BeginSession: a session key is accepted although the bot has a session.
BeginSessionUnchecked(h, b) ==
  /\ Begin(h, b, "session") /\ row[b].agent # NoKey
  /\ UNCHANGED << ops, rows, tx, status, made, chain >>

\* prepare-create-session, for a session key of the app.
BeginSession(h, b) ==
  /\ Begin(h, b, "session")
  /\ row[b].agent # NoKey /\ row[b].address = NoAddress
  /\ UNCHANGED << ops, rows, tx, status, made, chain >>

PrepareSession(h, t, k) ==
  /\ call[h].at = "session" /\ made[k] = "none"
  /\ LET b == call[h].bot
         address == << call[h].rows[b].agent, k >>
     IN  IF open /\ address[1] \in agents
           THEN /\ NewTx(t, CreateSession(address), "prepared")
                /\ made' = [made EXCEPT ![k] = "app"]
                /\ row' = [row EXCEPT ![b].address = address]
           ELSE UNCHANGED << tx, status, made, row >>
  /\ Ends(h)
  /\ UNCHANGED << ops, recorded, chain >>

-----------------------------------------------------------------------------
(* setup-live *)

\* The address of the wallet is recorded before anything else is looked at.
BeginSetup(h, b) ==
  /\ Begin(h, b, "setup") /\ recorded' = TRUE
  /\ UNCHANGED << ops, row, tx, status, made, chain >>

Complete(r) ==
  /\ r.agent # NoKey /\ r.address # NoAddress /\ r.secret # NoKey /\ r.session # NoKey

\* The accounts of an agent and of its session, as the route finds them.
Found(a, s) == << a \in agents, << a, s >> \in sessions >>

\* Mutant of Offer: the keys of the session signer are not stored.
OfferUnstored(h, t, a, s) ==
  /\ NewTx(t, [RegisterAgent(a) EXCEPT !.create = ~open, !.fund = s, !.bot = call[h].bot],
           "prepared")
  /\ row' = [row EXCEPT ![call[h].bot] =
       [agent |-> a, secret |-> a, address |-> << a, s >>, session |-> @.session]]
  /\ Ends(h)

\* The row is written before the transaction is handed out.
Offer(h, t, a, s) ==
  /\ NewTx(t, [RegisterAgent(a) EXCEPT !.create = ~open, !.fund = s, !.bot = call[h].bot],
           "prepared")
  /\ row' = [row EXCEPT ![call[h].bot] =
       [agent |-> a, secret |-> a, address |-> << a, s >>, session |-> s]]
  /\ Ends(h)

\* The keys of the row do: the earlier transaction was not signed, or failed.
SetupAgain(h, t) ==
  LET r == call[h].rows[call[h].bot]
  IN  /\ call[h].at = "setup" /\ Complete(r)
      /\ ~Found(r.agent, r.session)[1] /\ ~Found(r.secret, r.session)[1]
      /\ Offer(h, t, r.secret, r.session)
      /\ UNCHANGED << ops, recorded, made, chain >>

\* Mutant of SetupAfresh: a retry generates new keys when the earlier ones are not
\* on the chain yet.
SetupAfreshAlways(h, t, k) ==
  LET r == call[h].rows[call[h].bot]
  IN  /\ call[h].at = "setup" /\ r.agent \notin agents
      /\ made[k] = "none" /\ made' = [made EXCEPT ![k] = "server"]
      /\ Offer(h, t, k, k)
      /\ UNCHANGED << ops, recorded, chain >>

SetupAfresh(h, t, k) ==
  LET r == call[h].rows[call[h].bot]
  IN  /\ call[h].at = "setup" /\ ~Complete(r)
      /\ made[k] = "none" /\ made' = [made EXCEPT ![k] = "server"]
      /\ Offer(h, t, k, k)
      /\ UNCHANGED << ops, recorded, chain >>

\* The agent is on the chain already: without its session the setup is finished,
\* with it the request is refused.
SetupOnward(h) ==
  LET r == call[h].rows[call[h].bot]
  IN  /\ call[h].at = "setup" /\ Complete(r)
      /\ \/ /\ \/ Found(r.agent, r.session) = << TRUE, FALSE >>
               \/ /\ ~Found(r.agent, r.session)[1]
                  /\ Found(r.secret, r.session) = << TRUE, FALSE >>
            /\ call' = [call EXCEPT ![h].at = "finalize"]
         \/ /\ \/ Found(r.agent, r.session) = << TRUE, TRUE >>
               \/ /\ ~Found(r.agent, r.session)[1]
                  /\ Found(r.secret, r.session) = << TRUE, TRUE >>
            /\ Ends(h)
      /\ UNCHANGED << ops, rows, tx, status, made, chain >>

-----------------------------------------------------------------------------
(* finalizeLiveSession *)

FinalizeRead(h) ==
  /\ call[h].at = "finalize"
  /\ LET r == row[call[h].bot]
     IN  IF r.agent = NoKey \/ r.secret = NoKey \/ r.session = NoKey
           THEN Ends(h)
           ELSE call' = [call EXCEPT ![h].at = "send", ![h].rows = row]
  /\ UNCHANGED << ops, rows, tx, status, made, chain >>

\* Refused without the agent, done already with the session; signing with another
\* key than the agent's fails.
FinalizeSend(h, t) ==
  /\ call[h].at = "send"
  /\ LET r == call[h].rows[call[h].bot]
     IN  IF r.agent \notin agents \/ << r.agent, r.session >> \in sessions
            \/ r.secret # r.agent
           THEN Ends(h) /\ UNCHANGED << tx, status >>
           ELSE /\ NewTx(t, CreateSession(<< r.agent, r.session >>), "sent")
                /\ call' = [call EXCEPT ![h].at = "sending", ![h].tx = t]
  /\ UNCHANGED << ops, rows, made, chain >>

\* sendTransaction answers; it may answer failure although the transaction lands later.
FinalizeSent(h) ==
  /\ call[h].at = "sending"
  /\ \/ status[call[h].tx] = "landed" /\ call' = [call EXCEPT ![h].at = "save"]
     \/ status[call[h].tx] # "landed" /\ Ends(h)
  /\ UNCHANGED << ops, rows, tx, status, made, chain >>

FinalizeSave(h) ==
  /\ call[h].at = "save"
  /\ LET b == call[h].bot
         r == call[h].rows[b]
     IN  row' = [row EXCEPT ![b].address = << r.agent, r.session >>]
  /\ Ends(h)
  /\ UNCHANGED << ops, recorded, tx, status, made, chain >>

-----------------------------------------------------------------------------
(* prepare-revoke-session and DELETE /bot/:botId *)

BeginRevoke(h, b) ==
  /\ Begin(h, b, "revoke") /\ row[b].address # NoAddress
  /\ UNCHANGED << ops, rows, tx, status, made, chain >>

\* The row is cleared before the owner has signed anything.
PrepareRevoke(h, t) ==
  /\ call[h].at = "revoke"
  /\ LET b == call[h].bot
         address == call[h].rows[b].address
     IN  /\ IF address \in sessions \ revoked
              THEN NewTx(t, RevokeSession(address), "prepared")
              ELSE UNCHANGED << tx, status >>
         /\ row' = [row EXCEPT ![b].address = NoAddress]
  /\ Ends(h)
  /\ UNCHANGED << ops, recorded, made, chain >>

\* The secret keys go, the address of the agent stays.
DeleteBot(b) ==
  /\ "delete" \in ops
  /\ row' = [row EXCEPT ![b] = [EmptyRow EXCEPT !.agent = row[b].agent]]
  /\ UNCHANGED << ops, recorded, call, tx, status, made, chain >>

-----------------------------------------------------------------------------
(* prepare-recover-wallet and withdraw *)

BeginRecover(h) ==
  /\ Begin(h, NoBot, "recover")
  /\ UNCHANGED << ops, rows, tx, status, made, chain >>

BeginWithdraw(h) ==
  /\ Begin(h, NoBot, "withdraw")
  /\ UNCHANGED << ops, rows, tx, status, made, chain >>

\* The balances of the signers whose keys the rows of these bots hold; one that
\* cannot be read is passed over.
Balances(r, bots, read) ==
  [k \in Key |-> IF k \in read /\ \E b \in bots : r[b].session = k THEN funds[k] ELSE 0]

NoFunds == [k \in Key |-> 0]

\* Hands a recovery out, that reads the signers in read and drains those of some rows.
Recover(h, t, read, drain) ==
  /\ call[h].at = "recover"
  /\ LET r == call[h].rows
         agent == { r[b].agent : b \in Bot } \cap agents
     IN  IF open \/ drain # NoFunds
           THEN /\ NewTx(t, [CloseWallet(drain, open, agent) EXCEPT !.recovery = TRUE], "prepared")
                /\ missed' = [missed EXCEPT ![t] =
                     Key \ { k \in read : \E b \in Bot : r[b].session = k }]
           ELSE UNCHANGED << tx, status, missed >>
  /\ Ends(h)
  /\ UNCHANGED << ops, rows, made, accounts >>

Readable == IF "unread" \in ops THEN SUBSET Key ELSE {Key}
\* A withdrawal that cannot read the wallet takes it to be missing.
WalletFound == IF "unread" \in ops THEN {open, FALSE} ELSE {open}

\* Mutant of PrepareRecover: the signers of the bots with an active session are drained.
PrepareRecoverActive(h, t, read) ==
  LET r == call[h].rows
  IN  Recover(h, t, read, Balances(r, { b \in Bot : r[b].address # NoAddress }, read))

PrepareRecover(h, t, read) == Recover(h, t, read, Balances(call[h].rows, Bot, read))

\* Everything: the signers of the chosen bots, and the wallet, from which the agents
\* of all bots with a session key are removed first.
WithdrawAll(h, t, bots, read, found) ==
  /\ call[h].at = "withdraw"
  /\ LET r == call[h].rows
         drain == Balances(r, bots, read)
         agent == { r[b].agent : b \in { c \in Bot : r[c].session # NoKey } }
     IN  IF found \/ drain # NoFunds
           THEN NewTx(t, CloseWallet(drain, found, agent \cap agents), "prepared")
           ELSE UNCHANGED << tx, status >>
  /\ Ends(h)
  /\ UNCHANGED << ops, rows, made, chain >>

\* An amount, from as many of the signers as it takes.
WithdrawSome(h, t, bots) ==
  /\ call[h].at = "withdraw"
  /\ LET most == Balances(call[h].rows, bots, Key)
     IN  \E drain \in [Key -> 0 .. MaxFunds] :
           /\ drain # NoFunds /\ \A k \in Key : drain[k] <= most[k]
           /\ NewTx(t, [Empty EXCEPT !.drain = drain], "prepared")
  /\ Ends(h)
  /\ UNCHANGED << ops, rows, made, chain >>

-----------------------------------------------------------------------------
(* submit-signed *)

\* The owner signs; a session of a key of the server is not theirs to sign.
Submit(h, t) ==
  /\ Free(h)
  /\ \/ status[t] = "prepared"
     \/ "resubmit" \in ops /\ status[t] \in {"sent", "landed"}
  /\ tx[t].session # NoAddress => made[tx[t].session[1]] = "app"
  /\ status' = [status EXCEPT ![t] = IF @ = "prepared" THEN "sent" ELSE @]
  /\ call' = [call EXCEPT ![h] = [Idle EXCEPT !.at = "await", !.bot = tx[t].bot, !.tx = t]]
  /\ UNCHANGED << ops, rows, tx, made, chain >>

Confirmed(h) ==
  /\ call[h].at = "await" /\ status[call[h].tx] = "landed"
  /\ LET x == tx[call[h].tx]
     IN  \/ x.bot # NoBot /\ call' = [call EXCEPT ![h].at = "finalize"]
         \/ x.recovery /\ call' = [call EXCEPT ![h].at = "user"]
         \/ x.bot = NoBot /\ ~x.recovery /\ Ends(h)
  /\ UNCHANGED << ops, rows, tx, status, made, chain >>

\* The transaction has failed, or 90 seconds have passed.
NotConfirmed(h) ==
  /\ call[h].at = "await" /\ status[call[h].tx] # "landed"
  /\ Ends(h)
  /\ UNCHANGED << ops, rows, tx, status, made, chain >>

EraseUser(h) ==
  /\ call[h].at = "user"
  /\ recorded' = FALSE /\ call' = [call EXCEPT ![h].at = "bots"]
  /\ UNCHANGED << ops, row, tx, status, made, chain >>

EraseBots(h) ==
  /\ call[h].at = "bots"
  /\ row' = [b \in Bot |-> EmptyRow] /\ Ends(h)
  /\ UNCHANGED << ops, recorded, tx, status, made, chain >>

-----------------------------------------------------------------------------
(* An engine trades from the signer of a session; a request fails *)

Trade(k) ==
  /\ "trade" \in ops /\ \E a \in Key : << a, k >> \in sessions \ revoked
  /\ made[k] = "server"
  /\ \E n \in {funds[k] - 1, funds[k] + 1} \cap (0 .. MaxFunds) :
       /\ funds' = [funds EXCEPT ![k] = n]
       /\ Paid(IF n > funds[k] THEN {k} ELSE {})
  /\ UNCHANGED << ops, rows, call, tx, status, made, open, agents, sessions, revoked, purses >>

\* A call a route waits for fails, or the server restarts.
Fail(h) ==
  /\ "fail" \in ops /\ call[h] # Idle
  /\ Ends(h)
  /\ UNCHANGED << ops, rows, tx, status, made, chain >>

Next ==
  \/ \E h \in Handler, b \in Bot :
       \/ BeginRegister(h, b) \/ BeginSession(h, b) \/ BeginSetup(h, b)
       \/ BeginRevoke(h, b)
  \/ \E h \in Handler :
       \/ BeginRecover(h) \/ BeginWithdraw(h) \/ SetupOnward(h)
       \/ FinalizeRead(h) \/ FinalizeSent(h) \/ FinalizeSave(h)
       \/ Confirmed(h) \/ NotConfirmed(h) \/ EraseUser(h) \/ EraseBots(h)
       \/ Fail(h)
  \/ \E h \in Handler, t \in Tx :
       \/ SetupAgain(h, t) \/ FinalizeSend(h, t) \/ PrepareRevoke(h, t)
       \/ Submit(h, t) \/ \E read \in Readable : PrepareRecover(h, t, read)
  \/ \E h \in Handler, t \in Tx, k \in Key :
       \/ PrepareRegister(h, t, k) \/ PrepareSession(h, t, k) \/ SetupAfresh(h, t, k)
  \/ \E h \in Handler, t \in Tx, bots \in SUBSET Bot \ {{}} :
       \/ WithdrawSome(h, t, bots)
       \/ \E read \in Readable, found \in WalletFound : WithdrawAll(h, t, bots, read, found)
  \/ \E t \in Tx : PrepareCreate(t) \/ Land(t)
  \/ \E b \in Bot : DeleteBot(b)
  \/ \E k \in Key : Trade(k)

Spec == Init /\ [][Next]_vars

-----------------------------------------------------------------------------
(* Properties *)

Without(s) == ops \cap s = {}

\* What the signers hold can be moved, or is at least not out of reach: the key of a
\* funded session signer is in the row of a bot, and so is that of a funded agent signer
\* (setup-live reuses the keys of the row, wallet.ts:1359-1425, and pays both signers,
\* :1502-1522).  Requests that overlap, a revocation, a recovery and a deletion are
\* what may lose a key.
FundsReachable ==
  Without({"overlap", "revoke", "recover", "delete"}) =>
    /\ \A k \in Key : funds[k] > 0 => \E b \in Bot : row[b].session = k
    /\ \A k \in purses : \E b \in Bot : row[b].secret = k

\* Every registered agent is in the row of a bot, so no bot is set up twice however
\* often the owner retries, and the wallet can be closed (wallet.ts:1803-1815).
AgentsKnown ==
  Without({"overlap", "revoke", "recover", "delete", "register"}) =>
    \A a \in agents : \E b \in Bot : row[b].agent = a

\* The session a row names is that of the keys it holds (wallet.ts:866-872, 1544-1554),
\* unless requests overlap or a revoked session is replaced by one of the app.  And the
\* address of the wallet is recorded, without which an engine would trade with that of
\* the owner (orchestrator.ts:280), unless a recovery breaks off halfway.
RowMatchesKeys ==
  Without({"overlap"}) =>
    \A b \in Bot : row[b].session # NoKey /\ row[b].address # NoAddress =>
      /\ ~({"revoke", "session"} \subseteq ops) =>
           row[b].address = << row[b].agent, row[b].session >>
      /\ ~({"recover", "fail"} \subseteq ops) =>
           recorded \/ \E h \in Handler : call[h].at = "bots"

\* Whatever else happens, a recovery erases no key of a session signer that still holds
\* something (wallet.ts:2184-2207), but that of one that it did not read, because the
\* call failed (:1802) or because the key was not in the rows yet, and that of one
\* that was paid after its balance was read (:1788).  The agent signers it does not read at
\* all: what is in their purses is lost with the keys (:2196), always.
EraseLosesNothing ==
  \A h \in Handler : call[h].at \in {"user", "bots"} =>
    \A b \in Bot : row[b].session # NoKey =>
      funds[row[b].session] = 0 \/ row[b].session \in missed[call[h].tx]
===============================================================================
