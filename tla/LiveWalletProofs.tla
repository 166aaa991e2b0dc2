---------------------------- MODULE LiveWalletProofs ----------------------------
(***************************************************************************)
(* Theorems about LiveWallet, for every number of bots, keys, requests and *)
(* transactions, and every scenario.                                       *)
(***************************************************************************)
EXTENDS LiveWallet, TLAPS

-----------------------------------------------------------------------------
(* Types *)

Places == {"idle", "register", "session", "setup", "revoke", "recover", "withdraw",
           "await", "finalize", "send", "sending", "save", "user", "bots"}
Requests == [at : Places, bot : Bot \cup {NoBot}, rows : [Bot -> Rows], tx : Tx \cup {NoTx}]
Contents == [create : BOOLEAN, fund : Keys, register : Keys, session : Address,
             revoke : Address, drain : [Key -> 0 .. MaxFunds], deregister : SUBSET Key,
             close : BOOLEAN, bot : Bot \cup {NoBot}, recovery : BOOLEAN]

LEMMA NothingYet ==
  /\ EmptyRow \in Rows /\ NoAddress \in Address
  /\ Idle \in Requests /\ Empty \in Contents
<1>1. NoAddress \in Address
  BY DEF NoAddress, Address, Keys
<1>2. EmptyRow \in Rows
  BY <1>1 DEF EmptyRow, Rows, Keys
<1>3. Idle \in Requests
  BY <1>2 DEF Idle, Requests, Places
<1>4. [k \in Key |-> 0] \in [Key -> 0 .. MaxFunds]
  BY WalletAssumption
<1>5. Empty \in Contents
  BY <1>1, <1>4 DEF Empty, Contents, Keys
<1> QED BY <1>1, <1>2, <1>3, <1>5

\* The types, but for the sessions: that they are sessions of keys takes an invariant.
Typed ==
  /\ ops \in Scenarios /\ recorded \in BOOLEAN
  /\ row \in [Bot -> Rows]
  /\ call \in [Handler -> Requests]
  /\ tx \in [Tx -> Contents]
  /\ status \in [Tx -> {"none", "prepared", "sent", "landed", "failed"}]
  /\ made \in [Key -> {"none", "server", "app"}]
  /\ open \in BOOLEAN /\ agents \subseteq Key
  /\ sessions \subseteq Address /\ revoked \subseteq sessions
  /\ funds \in [Key -> 0 .. MaxFunds] /\ purses \subseteq Key
  /\ missed \in [Tx -> SUBSET Key]

LEMMA TypedInit == Init => Typed
<1> SUFFICES ASSUME Init PROVE Typed
  OBVIOUS
<1>1. row \in [Bot -> Rows] /\ call \in [Handler -> Requests] /\ tx \in [Tx -> Contents]
  BY NothingYet DEF Init
<1>2. funds \in [Key -> 0 .. MaxFunds]
  BY WalletAssumption DEF Init
<1> QED BY <1>1, <1>2 DEF Init, Typed

\* What the steps of requests are made of keeps the types.
LEMMA EndsType ==
  ASSUME Typed, NEW h \in Handler, Ends(h)
  PROVE  call' \in [Handler -> Requests]
<1> QED BY NothingYet DEF Typed, Ends

LEMMA GoesType ==
  ASSUME Typed, NEW h \in Handler, NEW at \in Places, call' = [call EXCEPT ![h].at = at]
  PROVE  call' \in [Handler -> Requests]
<1>1. call \in [Handler -> Requests]
  BY DEF Typed
<1>2. [call[h] EXCEPT !.at = at] \in Requests
  BY <1>1 DEF Requests
<1> QED BY <1>1, <1>2

LEMMA BeginType ==
  ASSUME Typed, NEW h \in Handler, NEW b \in Bot \cup {NoBot}, NEW at \in Places, Begin(h, b, at)
  PROVE  call' \in [Handler -> Requests]
<1>1. [Idle EXCEPT !.at = at, !.bot = b, !.rows = row] \in Requests
  BY NothingYet DEF Typed, Requests
<1> QED BY <1>1 DEF Typed, Begin

LEMMA NewTxType ==
  ASSUME Typed, NEW t \in Tx, NEW content \in Contents, NEW as \in {"prepared", "sent"},
         NewTx(t, content, as)
  PROVE  /\ tx' \in [Tx -> Contents]
         /\ status' \in [Tx -> {"none", "prepared", "sent", "landed", "failed"}]
<1> QED BY DEF Typed, NewTx

LEMMA ContentTypes ==
  /\ CreateWallet \in Contents
  /\ \A k \in Keys : RegisterAgent(k) \in Contents
  /\ \A x \in Address : CreateSession(x) \in Contents /\ RevokeSession(x) \in Contents
  /\ \A drain \in [Key -> 0 .. MaxFunds], close \in BOOLEAN, agent \in SUBSET Key :
       /\ CloseWallet(drain, close, agent) \in Contents
       /\ [CloseWallet(drain, close, agent) EXCEPT !.recovery = TRUE] \in Contents
       /\ [Empty EXCEPT !.drain = drain] \in Contents
  /\ \A a, s \in Keys, create \in BOOLEAN, b \in Bot \cup {NoBot} :
       [RegisterAgent(a) EXCEPT !.create = create, !.fund = s, !.bot = b] \in Contents
<1>1. Empty \in Contents /\ NoKey \in Keys
  BY NothingYet DEF Keys
<1>2. CreateWallet \in Contents
  BY <1>1 DEF CreateWallet, Contents
<1>3. \A k \in Keys : RegisterAgent(k) \in Contents
  BY <1>1 DEF RegisterAgent, Contents
<1>4. \A x \in Address : CreateSession(x) \in Contents /\ RevokeSession(x) \in Contents
  BY <1>1 DEF CreateSession, RevokeSession, Contents
<1>5. ASSUME NEW drain \in [Key -> 0 .. MaxFunds], NEW close \in BOOLEAN, NEW agent \in SUBSET Key
      PROVE  /\ CloseWallet(drain, close, agent) \in Contents
             /\ [CloseWallet(drain, close, agent) EXCEPT !.recovery = TRUE] \in Contents
             /\ [Empty EXCEPT !.drain = drain] \in Contents
  <2>1. CloseWallet(drain, close, agent) \in Contents
    BY <1>1 DEF CloseWallet, Contents
  <2>2. [CloseWallet(drain, close, agent) EXCEPT !.recovery = TRUE] \in Contents
    BY <2>1 DEF Contents
  <2> QED BY <1>1, <2>1, <2>2 DEF Contents
<1>6. ASSUME NEW a \in Keys, NEW s \in Keys, NEW create \in BOOLEAN, NEW b \in Bot \cup {NoBot}
      PROVE  [RegisterAgent(a) EXCEPT !.create = create, !.fund = s, !.bot = b] \in Contents
  BY <1>1 DEF RegisterAgent, Contents
<1>7. \A drain \in [Key -> 0 .. MaxFunds], close \in BOOLEAN, agent \in SUBSET Key :
        /\ CloseWallet(drain, close, agent) \in Contents
        /\ [CloseWallet(drain, close, agent) EXCEPT !.recovery = TRUE] \in Contents
        /\ [Empty EXCEPT !.drain = drain] \in Contents
  BY <1>5, Zenon
<1>8. \A a, s \in Keys, create \in BOOLEAN, b \in Bot \cup {NoBot} :
        [RegisterAgent(a) EXCEPT !.create = create, !.fund = s, !.bot = b] \in Contents
  BY <1>6, Zenon
<1> QED BY <1>2, <1>3, <1>4, <1>7, <1>8, Zenon

\* A step of a request that leaves everything else alone keeps the types.
LEMMA CallTypeStep ==
  ASSUME Typed, call' \in [Handler -> Requests],
         UNCHANGED << ops, rows, tx, status, made, chain >>
  PROVE  Typed'
<1> QED BY DEF Typed, rows, chain, accounts

\* So does one that hands a transaction out besides.
LEMMA TxTypeStep ==
  ASSUME Typed, call' \in [Handler -> Requests], tx' \in [Tx -> Contents],
         status' \in [Tx -> {"none", "prepared", "sent", "landed", "failed"}],
         UNCHANGED << ops, rows, made, chain >>
  PROVE  Typed'
<1> QED BY DEF Typed, rows, chain, accounts

LEMMA BalancesType ==
  ASSUME Typed, NEW r \in [Bot -> Rows], NEW bots, NEW read
  PROVE  Balances(r, bots, read) \in [Key -> 0 .. MaxFunds]
<1>1. \A k \in Key : funds[k] \in 0 .. MaxFunds /\ 0 \in 0 .. MaxFunds
  BY WalletAssumption DEF Typed
<1> QED BY <1>1 DEF Balances

LEMMA PaidType ==
  ASSUME Typed, NEW s \in SUBSET Key, Paid(s)
  PROVE  missed' \in [Tx -> SUBSET Key]
<1> QED BY DEF Typed, Paid

LEMMA LandType ==
  ASSUME Typed, NEW t \in Tx, Land(t)
  PROVE  Typed'
<1>1. CASE ~Valid(tx[t])
  BY <1>1 DEF Typed, Land, rows, chain, accounts
<1>2. CASE Valid(tx[t])
  <2> DEFINE x == tx[t]
  <2>1. x \in Contents
    BY DEF Typed
  <2>2. open' \in BOOLEAN /\ agents' \subseteq Key
    BY <1>2, <2>1 DEF Typed, Land, Contents, Keys
  <2>3. sessions' \subseteq Address /\ revoked' \subseteq sessions'
    BY <1>2, <2>1 DEF Typed, Land, Contents, Valid
  <2>4. funds' \in [Key -> 0 .. MaxFunds]
    <3>1. ASSUME NEW k \in Key
          PROVE  /\ (IF funds[k] + Deposit > MaxFunds THEN MaxFunds ELSE funds[k] + Deposit)
                      \in 0 .. MaxFunds
                 /\ funds[k] - x.drain[k] \in 0 .. MaxFunds
      <4>1. funds[k] \in 0 .. MaxFunds /\ x.drain[k] \in 0 .. MaxFunds
        BY <2>1 DEF Typed, Contents
      <4>2. x.drain[k] <= funds[k]
        BY <1>2 DEF Valid
      <4> QED BY <4>1, <4>2, WalletAssumption
    <3>2. funds' = [k \in Key |->
                     IF k = x.fund
                       THEN IF funds[k] + Deposit > MaxFunds THEN MaxFunds
                                                             ELSE funds[k] + Deposit
                       ELSE funds[k] - x.drain[k]]
      BY <1>2 DEF Land
    <3> QED BY <3>1, <3>2
  <2>5. status' \in [Tx -> {"none", "prepared", "sent", "landed", "failed"}]
    BY <1>2 DEF Typed, Land
  <2>6. purses' \subseteq Key
    BY <1>2, <2>1 DEF Typed, Land, Contents, Keys
  <2>7. missed' \in [Tx -> SUBSET Key]
    <3>1. ({x.fund} \ {NoKey}) \subseteq Key
      BY <2>1 DEF Contents, Keys
    <3>2. Paid({x.fund} \ {NoKey})
      BY <1>2 DEF Land
    <3> QED BY <3>1, <3>2, PaidType
  <2> QED BY <2>2, <2>3, <2>4, <2>5, <2>6, <2>7 DEF Typed, Land, rows
<1> QED BY <1>1, <1>2

Bound == {"register", "session", "setup", "revoke", "finalize", "send", "sending", "save"}

\* What a request is about, where it needs a bot or a transaction.
Targets == \A h \in Handler :
  /\ call[h].at \in Bound => call[h].bot \in Bot
  /\ call[h].at \in {"await", "sending"} => call[h].tx \in Tx

\* The steps of setup-live that hand out its transaction.
LEMMA OfferType ==
  ASSUME Typed, NEW h \in Handler, NEW t \in Tx, NEW a \in Keys, NEW s \in Keys,
         Offer(h, t, a, s), made' \in [Key -> {"none", "server", "app"}],
         UNCHANGED << ops, recorded, chain >>
  PROVE  Typed'
<1> DEFINE x == [RegisterAgent(a) EXCEPT !.create = ~open, !.fund = s, !.bot = call[h].bot]
           r == [agent |-> a, secret |-> a, address |-> << a, s >>, session |-> s]
<1>1. x \in Contents
  <2>1. call[h].bot \in Bot \cup {NoBot}
    BY DEF Typed, Requests
  <2>2. \A create \in BOOLEAN, b \in Bot \cup {NoBot} :
          [RegisterAgent(a) EXCEPT !.create = create, !.fund = s, !.bot = b] \in Contents
    BY ContentTypes, Zenon
  <2>3. (~open) \in BOOLEAN
    OBVIOUS
  <2> QED BY <2>1, <2>2, <2>3, Zenon
<1>2. tx' \in [Tx -> Contents]
      /\ status' \in [Tx -> {"none", "prepared", "sent", "landed", "failed"}]
  BY <1>1, NewTxType DEF Offer
<1>3. r \in Rows
  BY DEF Rows, Address
<1>4. row' \in [Bot -> Rows]
  BY <1>3 DEF Offer, Typed
<1>5. call' \in [Handler -> Requests]
  BY EndsType DEF Offer
<1> QED BY <1>2, <1>4, <1>5 DEF Typed, chain, accounts

\* A request that has found what it needs writes the row of its bot.
LEMMA RowType ==
  ASSUME Typed, NEW b, NEW f \in Rows, row' = [row EXCEPT ![b] = f]
  PROVE  row' \in [Bot -> Rows]
<1> QED BY DEF Typed

LEMMA FieldType ==
  ASSUME NEW f \in Rows, NEW k \in Keys, NEW x \in Address
  PROVE  [f EXCEPT !.agent = k] \in Rows /\ [f EXCEPT !.address = x] \in Rows
<1> QED BY DEF Rows

LEMMA TypedStep == Typed /\ Targets /\ [Next]_vars => Typed'
<1> SUFFICES ASSUME Typed, Targets, [Next]_vars PROVE Typed'
  OBVIOUS
<1>1. ASSUME NEW h \in Handler, NEW b \in Bot,
             BeginRegister(h, b) \/ BeginSession(h, b) \/ BeginRevoke(h, b)
      PROVE  Typed'
  <2>1. \E at \in Places : Begin(h, b, at)
    BY <1>1 DEF BeginRegister, BeginSession, BeginRevoke, Places
  <2>2. call' \in [Handler -> Requests]
    BY <2>1, BeginType
  <2> QED BY <1>1, <2>2, CallTypeStep DEF BeginRegister, BeginSession, BeginRevoke
<1>2. ASSUME NEW h \in Handler, NEW b \in Bot, BeginSetup(h, b)
      PROVE  Typed'
  <2>1. Begin(h, b, "setup") /\ "setup" \in Places
    BY <1>2 DEF BeginSetup, Places
  <2>2. call' \in [Handler -> Requests]
    BY <2>1, BeginType
  <2> QED BY <1>2, <2>2 DEF BeginSetup, Typed, chain, accounts
<1>3. ASSUME NEW h \in Handler, BeginRecover(h) \/ BeginWithdraw(h)
      PROVE  Typed'
  <2>1. \E at \in Places : Begin(h, NoBot, at)
    BY <1>3 DEF BeginRecover, BeginWithdraw, Places
  <2>2. call' \in [Handler -> Requests]
    BY <2>1, BeginType
  <2> QED BY <1>3, <2>2, CallTypeStep DEF BeginRecover, BeginWithdraw
<1>4. ASSUME NEW h \in Handler, SetupOnward(h) \/ Confirmed(h)
      PROVE  Typed'
  <2>1. Ends(h) \/ \E at \in Places : call' = [call EXCEPT ![h].at = at]
    BY <1>4 DEF SetupOnward, Confirmed, Places
  <2>2. call' \in [Handler -> Requests]
    BY <2>1, EndsType, GoesType
  <2> QED BY <1>4, <2>2, CallTypeStep DEF SetupOnward, Confirmed
<1>5. ASSUME NEW h \in Handler, FinalizeRead(h)
      PROVE  Typed'
  <2>1. CASE Ends(h)
    BY <1>5, <2>1, EndsType, CallTypeStep DEF FinalizeRead
  <2>2. CASE call' = [call EXCEPT ![h].at = "send", ![h].rows = row]
    <3>1. [call[h] EXCEPT !.at = "send", !.rows = row] \in Requests
      <4>1. call[h] \in Requests /\ row \in [Bot -> Rows]
        BY DEF Typed
      <4> QED BY <4>1 DEF Requests, Places
    <3>2. call' \in [Handler -> Requests]
      BY <2>2, <3>1 DEF Typed
    <3> QED BY <1>5, <3>2, CallTypeStep DEF FinalizeRead
  <2> QED BY <1>5, <2>1, <2>2 DEF FinalizeRead
<1>6. ASSUME NEW h \in Handler, FinalizeSent(h)
      PROVE  Typed'
  <2>1. Ends(h) \/ \E at \in Places : call' = [call EXCEPT ![h].at = at]
    BY <1>6 DEF FinalizeSent, Places
  <2>2. call' \in [Handler -> Requests]
    BY <2>1, EndsType, GoesType
  <2> QED BY <1>6, <2>2, CallTypeStep DEF FinalizeSent
<1>7. ASSUME NEW h \in Handler, FinalizeSave(h)
      PROVE  Typed'
  <2> DEFINE b == call[h].bot
             x == << call[h].rows[b].agent, call[h].rows[b].session >>
  <2>1. row' = [row EXCEPT ![b].address = x] /\ Ends(h)
    BY <1>7 DEF FinalizeSave
  <2>2. row' \in [Bot -> Rows]
    <3>1. b \in Bot
      BY <1>7 DEF FinalizeSave, Targets, Bound
    <3>2. x \in Address /\ row[b] \in Rows
      BY <3>1 DEF Typed, Requests, Rows, Address
    <3>3. [row[b] EXCEPT !.address = x] \in Rows
      BY <3>2, FieldType, NothingYet DEF Keys
    <3> QED BY <2>1, <3>3 DEF Typed
  <2> QED BY <1>7, <2>1, <2>2, EndsType DEF FinalizeSave, Typed, chain, accounts
<1>8. ASSUME NEW h \in Handler, NotConfirmed(h) \/ Fail(h)
      PROVE  Typed'
  BY <1>8, EndsType, CallTypeStep DEF NotConfirmed, Fail
<1>9. ASSUME NEW h \in Handler, EraseUser(h)
      PROVE  Typed'
  <2>1. "bots" \in Places
    BY DEF Places
  <2>2. call' \in [Handler -> Requests]
    BY <1>9, <2>1, GoesType DEF EraseUser
  <2> QED BY <1>9, <2>2 DEF EraseUser, Typed, chain, accounts
<1>10. ASSUME NEW h \in Handler, EraseBots(h)
       PROVE  Typed'
  BY <1>10, EndsType, NothingYet DEF EraseBots, Typed, chain, accounts
<1>11. ASSUME NEW h \in Handler, NEW t \in Tx, SetupAgain(h, t)
       PROVE  Typed'
  <2> DEFINE r == call[h].rows[call[h].bot]
  <2>1. call[h].bot \in Bot
    BY <1>11 DEF SetupAgain, Targets, Bound
  <2>2. r.secret \in Keys /\ r.session \in Keys
    BY <2>1 DEF Typed, Requests, Rows
  <2> QED BY <1>11, <2>2, OfferType DEF SetupAgain, Typed
<1>12. ASSUME NEW h \in Handler, NEW t \in Tx, NEW k \in Key, SetupAfresh(h, t, k)
       PROVE  Typed'
  BY <1>12, OfferType DEF SetupAfresh, Typed, Keys
<1>13. ASSUME NEW h \in Handler, NEW t \in Tx, FinalizeSend(h, t)
       PROVE  Typed'
  <2> DEFINE r == call[h].rows[call[h].bot]
  <2>1. CASE Ends(h) /\ UNCHANGED << tx, status >>
    BY <1>13, <2>1, EndsType, CallTypeStep DEF FinalizeSend
  <2>2. CASE /\ NewTx(t, CreateSession(<< r.agent, r.session >>), "sent")
             /\ call' = [call EXCEPT ![h].at = "sending", ![h].tx = t]
    <3>1. call[h].bot \in Bot
      BY <1>13 DEF FinalizeSend, Targets, Bound
    <3>2. << r.agent, r.session >> \in Address
      BY <3>1 DEF Typed, Requests, Rows, Address
    <3>3. CreateSession(<< r.agent, r.session >>) \in Contents
      BY <3>2, ContentTypes
    <3>4. tx' \in [Tx -> Contents]
          /\ status' \in [Tx -> {"none", "prepared", "sent", "landed", "failed"}]
      BY <2>2, <3>3, NewTxType
    <3>5. [call[h] EXCEPT !.at = "sending", !.tx = t] \in Requests
      <4>1. call[h] \in Requests
        BY DEF Typed
      <4> QED BY <4>1 DEF Requests, Places
    <3>6. call' \in [Handler -> Requests]
      BY <2>2, <3>5 DEF Typed
    <3> QED BY <1>13, <3>4, <3>6, TxTypeStep DEF FinalizeSend
  <2> QED BY <1>13, <2>1, <2>2 DEF FinalizeSend
<1>14. ASSUME NEW h \in Handler, NEW t \in Tx, PrepareRevoke(h, t)
       PROVE  Typed'
  <2> DEFINE b == call[h].bot
             x == call[h].rows[b].address
  <2>1. b \in Bot
    BY <1>14 DEF PrepareRevoke, Targets, Bound
  <2>2. row' \in [Bot -> Rows]
    <3>1. row[b] \in Rows
      BY <2>1 DEF Typed
    <3>2. [row[b] EXCEPT !.address = NoAddress] \in Rows
      BY <3>1, FieldType, NothingYet DEF Keys
    <3> QED BY <1>14, <3>2 DEF PrepareRevoke, Typed
  <2>3. RevokeSession(x) \in Contents
    <3>1. x \in Address
      BY <2>1 DEF Typed, Requests, Rows
    <3> QED BY <3>1, ContentTypes
  <2>4. tx' \in [Tx -> Contents]
        /\ status' \in [Tx -> {"none", "prepared", "sent", "landed", "failed"}]
    <3>1. CASE NewTx(t, RevokeSession(x), "prepared")
      BY <2>3, <3>1, NewTxType
    <3>2. CASE UNCHANGED << tx, status >>
      BY <3>2 DEF Typed
    <3> QED BY <1>14, <3>1, <3>2 DEF PrepareRevoke
  <2> QED BY <1>14, <2>2, <2>4, EndsType DEF PrepareRevoke, Typed, chain, accounts
<1>15. ASSUME NEW h \in Handler, NEW t \in Tx, Submit(h, t)
       PROVE  Typed'
  <2>1. [Idle EXCEPT !.at = "await", !.bot = tx[t].bot, !.tx = t] \in Requests
    <3>1. tx[t].bot \in Bot \cup {NoBot}
      BY DEF Typed, Contents
    <3> QED BY <3>1, NothingYet DEF Requests, Places
  <2>2. call' \in [Handler -> Requests]
    BY <1>15, <2>1 DEF Submit, Typed
  <2>3. status' \in [Tx -> {"none", "prepared", "sent", "landed", "failed"}]
    BY <1>15 DEF Submit, Typed
  <2> QED BY <1>15, <2>2, <2>3 DEF Submit, Typed, rows, chain, accounts
<1>16. ASSUME NEW h \in Handler, NEW t \in Tx, NEW read, PrepareRecover(h, t, read)
       PROVE  Typed'
  <2> DEFINE r == call[h].rows
             drain == Balances(r, Bot, read)
             x == [CloseWallet(drain, open, { r[b].agent : b \in Bot } \cap agents)
                     EXCEPT !.recovery = TRUE]
  <2>1. drain \in [Key -> 0 .. MaxFunds]
    BY BalancesType DEF Typed, Requests
  <2>2. x \in Contents
    <3>1. open \in BOOLEAN /\ { r[b].agent : b \in Bot } \cap agents \in SUBSET Key
      BY DEF Typed
    <3> QED BY <2>1, <3>1, ContentTypes, Zenon
  <2>3. tx' \in [Tx -> Contents]
        /\ status' \in [Tx -> {"none", "prepared", "sent", "landed", "failed"}]
    <3>1. CASE NewTx(t, x, "prepared")
      BY <2>2, <3>1, NewTxType
    <3>2. CASE UNCHANGED << tx, status >>
      BY <3>2 DEF Typed
    <3> QED BY <1>16, <3>1, <3>2 DEF PrepareRecover, Recover
  <2>4. missed' \in [Tx -> SUBSET Key]
    <3> DEFINE known == { k \in read : \E b \in Bot : r[b].session = k }
    <3>1. missed' = [missed EXCEPT ![t] = Key \ known] \/ missed' = missed
      BY <1>16 DEF PrepareRecover, Recover
    <3> HIDE DEF known
    <3> QED BY <3>1 DEF Typed
  <2>5. call' \in [Handler -> Requests]
    BY <1>16, EndsType DEF PrepareRecover, Recover
  <2>6. UNCHANGED << ops, rows, made, accounts >>
    BY <1>16 DEF PrepareRecover, Recover
  <2> QED BY <2>3, <2>4, <2>5, <2>6 DEF Typed, rows, accounts
<1>17. ASSUME NEW h \in Handler, NEW t \in Tx, NEW k \in Key, PrepareRegister(h, t, k)
       PROVE  Typed'
  <2>1. CASE UNCHANGED << tx, status, made, row >>
    BY <1>17, <2>1, EndsType, CallTypeStep DEF PrepareRegister, rows
  <2>2. CASE /\ NewTx(t, RegisterAgent(k), "prepared")
             /\ made' = [made EXCEPT ![k] = "app"]
             /\ row' = [row EXCEPT ![call[h].bot].agent = k]
    <3>1. call[h].bot \in Bot /\ k \in Keys
      BY <1>17 DEF PrepareRegister, Targets, Bound, Keys
    <3>2. row' \in [Bot -> Rows]
      <4>1. row[call[h].bot] \in Rows
        BY <3>1 DEF Typed
      <4>2. [row[call[h].bot] EXCEPT !.agent = k] \in Rows
        BY <3>1, <4>1, FieldType, NothingYet
      <4> QED BY <2>2, <4>2 DEF Typed
    <3>3. tx' \in [Tx -> Contents]
          /\ status' \in [Tx -> {"none", "prepared", "sent", "landed", "failed"}]
      BY <2>2, <3>1, ContentTypes, NewTxType
    <3> QED BY <1>17, <2>2, <3>2, <3>3, EndsType DEF PrepareRegister, Typed, chain, accounts
  <2> QED BY <1>17, <2>1, <2>2 DEF PrepareRegister
<1>18. ASSUME NEW h \in Handler, NEW t \in Tx, NEW k \in Key, PrepareSession(h, t, k)
       PROVE  Typed'
  <2> DEFINE b == call[h].bot
             x == << call[h].rows[b].agent, k >>
  <2>1. CASE UNCHANGED << tx, status, made, row >>
    BY <1>18, <2>1, EndsType, CallTypeStep DEF PrepareSession, rows
  <2>2. CASE /\ NewTx(t, CreateSession(x), "prepared")
             /\ made' = [made EXCEPT ![k] = "app"]
             /\ row' = [row EXCEPT ![b].address = x]
    <3>1. b \in Bot
      BY <1>18 DEF PrepareSession, Targets, Bound
    <3>2. x \in Address
      BY <3>1 DEF Typed, Requests, Rows, Address, Keys
    <3>3. row' \in [Bot -> Rows]
      <4>1. row[b] \in Rows
        BY <3>1 DEF Typed
      <4>2. [row[b] EXCEPT !.address = x] \in Rows
        BY <3>2, <4>1, FieldType DEF Keys
      <4> QED BY <2>2, <4>2 DEF Typed
    <3>4. tx' \in [Tx -> Contents]
          /\ status' \in [Tx -> {"none", "prepared", "sent", "landed", "failed"}]
      BY <2>2, <3>2, ContentTypes, NewTxType
    <3> QED BY <1>18, <2>2, <3>3, <3>4, EndsType DEF PrepareSession, Typed, chain, accounts
  <2> QED BY <1>18, <2>1, <2>2 DEF PrepareSession
<1>19. ASSUME NEW h \in Handler, NEW t \in Tx, NEW bots, WithdrawSome(h, t, bots)
       PROVE  Typed'
  <2>1. PICK drain \in [Key -> 0 .. MaxFunds] : NewTx(t, [Empty EXCEPT !.drain = drain], "prepared")
    BY <1>19 DEF WithdrawSome
  <2>2. [Empty EXCEPT !.drain = drain] \in Contents
    BY ContentTypes, Zenon
  <2>3. tx' \in [Tx -> Contents]
        /\ status' \in [Tx -> {"none", "prepared", "sent", "landed", "failed"}]
    BY <2>1, <2>2, NewTxType
  <2> QED BY <1>19, <2>3, EndsType, TxTypeStep DEF WithdrawSome
<1>20. ASSUME NEW h \in Handler, NEW t \in Tx, NEW bots, NEW read, NEW found \in BOOLEAN,
              WithdrawAll(h, t, bots, read, found)
       PROVE  Typed'
  <2> DEFINE r == call[h].rows
             drain == Balances(r, bots, read)
             agent == { r[b].agent : b \in { c \in Bot : r[c].session # NoKey } }
             x == CloseWallet(drain, found, agent \cap agents)
  <2>1. drain \in [Key -> 0 .. MaxFunds]
    BY BalancesType DEF Typed, Requests
  <2>2. x \in Contents
    <3>1. agent \cap agents \in SUBSET Key
      BY DEF Typed
    <3> QED BY <2>1, <3>1, ContentTypes, Zenon
  <2>3. tx' \in [Tx -> Contents]
        /\ status' \in [Tx -> {"none", "prepared", "sent", "landed", "failed"}]
    <3>1. CASE NewTx(t, x, "prepared")
      BY <2>2, <3>1, NewTxType
    <3>2. CASE UNCHANGED << tx, status >>
      BY <3>2 DEF Typed
    <3> QED BY <1>20, <3>1, <3>2 DEF WithdrawAll
  <2> QED BY <1>20, <2>3, EndsType, TxTypeStep DEF WithdrawAll
<1>21. ASSUME NEW t \in Tx, PrepareCreate(t)
       PROVE  Typed'
  <2>1. tx' \in [Tx -> Contents]
        /\ status' \in [Tx -> {"none", "prepared", "sent", "landed", "failed"}]
    BY <1>21, ContentTypes, NewTxType DEF PrepareCreate
  <2> QED BY <1>21, <2>1 DEF PrepareCreate, Typed, chain, accounts
<1>22. ASSUME NEW b \in Bot, DeleteBot(b)
       PROVE  Typed'
  <2>1. [EmptyRow EXCEPT !.agent = row[b].agent] \in Rows
    <3>1. row[b].agent \in Keys
      BY DEF Typed, Rows
    <3> QED BY <3>1, NothingYet, FieldType
  <2>2. row' \in [Bot -> Rows]
    BY <1>22, <2>1 DEF DeleteBot, Typed
  <2> QED BY <1>22, <2>2 DEF DeleteBot, Typed, chain, accounts
<1>23. ASSUME NEW k \in Key, Trade(k)
       PROVE  Typed'
  <2>1. PICK n \in 0 .. MaxFunds : /\ funds' = [funds EXCEPT ![k] = n]
                                  /\ Paid(IF n > funds[k] THEN {k} ELSE {})
    BY <1>23 DEF Trade
  <2>2. missed' \in [Tx -> SUBSET Key]
    <3>1. (IF n > funds[k] THEN {k} ELSE {}) \in SUBSET Key
      OBVIOUS
    <3> QED BY <2>1, <3>1, PaidType
  <2>3. funds' \in [Key -> 0 .. MaxFunds]
    BY <2>1 DEF Typed
  <2> QED BY <1>23, <2>2, <2>3 DEF Trade, Typed, rows
<1>24. CASE UNCHANGED vars
  BY <1>24 DEF vars, rows, chain, accounts, Typed
<1>25. \A found \in WalletFound : found \in BOOLEAN
  BY DEF WalletFound, Typed
<1> QED
  BY <1>1, <1>2, <1>3, <1>4, <1>5, <1>6, <1>7, <1>8, <1>9, <1>10, <1>11, <1>12, <1>13,
     <1>14, <1>15, <1>16, <1>17, <1>18, <1>19, <1>20, <1>21, <1>22, <1>23, <1>24, <1>25,
     LandType
  DEF Next

-----------------------------------------------------------------------------
(* What the steps do to the requests, to the rows, and to what is never taken back *)

\* A request begins: it is the only one, or requests overlap, and it read the rows.
Begins(h, at) ==
  /\ Free(h) /\ at \in ops
  /\ call'[h].at = at /\ call'[h].rows = row /\ call'[h].bot \in Bot \cup {NoBot}

\* It goes on with what it knows.
Goes(h, from, to) ==
  /\ call[h].at = from /\ call'[h].at = to
  /\ call'[h].bot = call[h].bot /\ call'[h].rows = call[h].rows /\ call'[h].tx = call[h].tx

Starts(h) ==
  \/ /\ call'[h].bot \in Bot
     /\ \/ Begins(h, "register") /\ row[call'[h].bot].agent = NoKey
        \/ Begins(h, "session") /\ row[call'[h].bot].address = NoAddress
        \/ Begins(h, "setup") /\ recorded' = TRUE
        \/ Begins(h, "revoke")
  \/ Begins(h, "recover") \/ Begins(h, "withdraw")

Continues(h) ==
  \/ Goes(h, "setup", "finalize")
  \/ /\ call[h].at = "finalize" /\ row[call[h].bot].session # NoKey
     /\ call'[h].at = "send" /\ call'[h].rows = row /\ call'[h].bot = call[h].bot
  \/ /\ call[h].at = "send" /\ call'[h].at = "sending"
     /\ call'[h].rows = call[h].rows /\ call'[h].bot = call[h].bot
     /\ call'[h].tx \in Tx /\ status'[call'[h].tx] # "none"
  \/ Goes(h, "sending", "save")
  \/ Goes(h, "await", "finalize") /\ tx[call[h].tx].bot # NoBot
  \/ /\ Goes(h, "await", "user") /\ tx[call[h].tx].recovery
     /\ status[call[h].tx] = "landed"
  \/ Goes(h, "user", "bots")

Submits(h) ==
  /\ Free(h) /\ call'[h].at = "await" /\ call'[h].tx \in Tx /\ call'[h].rows = Idle.rows
  /\ status'[call'[h].tx] # "none"
  /\ "resubmit" \notin ops => status'[call'[h].tx] = "sent"
  /\ call'[h].bot = tx[call'[h].tx].bot /\ UNCHANGED tx

\* What may become of a request; rows are written at its end only.
Move(h) ==
  /\ \A g \in Handler : g # h => call'[g] = call[g]
  /\ \/ call'[h] = Idle
     \/ UNCHANGED row /\ (Starts(h) \/ Continues(h) \/ Submits(h))

LEMMA EndsMove ==
  ASSUME Typed, NEW h \in Handler, Ends(h)
  PROVE  Move(h)
<1> QED BY DEF Typed, Ends, Move

LEMMA GoesMove ==
  ASSUME Typed, NEW h \in Handler, NEW at, call' = [call EXCEPT ![h].at = at]
  PROVE  /\ \A g \in Handler : g # h => call'[g] = call[g]
         /\ Goes(h, call[h].at, at)
<1> QED BY DEF Typed, Requests, Goes

LEMMA BeginMove ==
  ASSUME Typed, NEW h \in Handler, NEW b \in Bot \cup {NoBot}, NEW at, Begin(h, b, at)
  PROVE  /\ \A g \in Handler : g # h => call'[g] = call[g]
         /\ Begins(h, at) /\ call'[h].bot = b
<1> QED BY DEF Typed, Begin, Begins, Idle

LEMMA Moves ==
  ASSUME Typed, [Next]_vars
  PROVE  /\ UNCHANGED ops
         /\ UNCHANGED call \/ \E h \in Handler : Move(h)
<1>1. ASSUME NEW h \in Handler, NEW b \in Bot,
             BeginRegister(h, b) \/ BeginSession(h, b) \/ BeginSetup(h, b) \/ BeginRevoke(h, b)
      PROVE  UNCHANGED ops /\ Move(h)
  BY <1>1, BeginMove DEF BeginRegister, BeginSession, BeginSetup, BeginRevoke, Move, Starts, rows
<1>2. ASSUME NEW h \in Handler, BeginRecover(h) \/ BeginWithdraw(h)
      PROVE  UNCHANGED ops /\ Move(h)
  BY <1>2, BeginMove DEF BeginRecover, BeginWithdraw, Move, Starts, rows
<1>3. ASSUME NEW h \in Handler, SetupOnward(h) \/ FinalizeSent(h) \/ FinalizeSave(h)
      PROVE  UNCHANGED ops /\ Move(h)
  BY <1>3, EndsMove, GoesMove DEF SetupOnward, FinalizeSent, FinalizeSave, Move, Continues, rows
<1>4. ASSUME NEW h \in Handler,
             Confirmed(h) \/ NotConfirmed(h) \/ EraseUser(h) \/ EraseBots(h) \/ Fail(h)
      PROVE  UNCHANGED ops /\ Move(h)
  BY <1>4, EndsMove, GoesMove
  DEF Confirmed, NotConfirmed, EraseUser, EraseBots, Fail, Move, Continues, rows
<1>5. ASSUME NEW h \in Handler, FinalizeRead(h)
      PROVE  UNCHANGED ops /\ Move(h)
  <2>1. CASE Ends(h)
    BY <1>5, <2>1, EndsMove DEF FinalizeRead
  <2>2. CASE call' = [call EXCEPT ![h].at = "send", ![h].rows = row]
    <3>1. /\ \A g \in Handler : g # h => call'[g] = call[g]
          /\ call'[h].at = "send" /\ call'[h].rows = row /\ call'[h].bot = call[h].bot
      BY <2>2 DEF Typed, Requests
    <3>2. Ends(h) \/ row[call[h].bot].session # NoKey
      BY <1>5 DEF FinalizeRead
    <3> QED BY <1>5, <3>1, <3>2, EndsMove DEF FinalizeRead, Move, Continues, rows
  <2> QED BY <1>5, <2>1, <2>2 DEF FinalizeRead
<1>6. ASSUME NEW h \in Handler, NEW t \in Tx, FinalizeSend(h, t)
       PROVE  UNCHANGED ops /\ Move(h)
  <2>1. CASE Ends(h)
    BY <1>6, <2>1, EndsMove DEF FinalizeSend
  <2>2. CASE /\ \E x : NewTx(t, x, "sent")
             /\ call' = [call EXCEPT ![h].at = "sending", ![h].tx = t]
    <3>1. /\ \A g \in Handler : g # h => call'[g] = call[g]
          /\ call'[h].at = "sending" /\ call'[h].tx = t
          /\ call'[h].rows = call[h].rows /\ call'[h].bot = call[h].bot
      BY <2>2 DEF Typed, Requests
    <3>2. status'[t] # "none"
      BY <2>2 DEF NewTx, Typed
    <3> QED BY <1>6, <3>1, <3>2 DEF FinalizeSend, Move, Continues, rows
  <2> QED BY <1>6, <2>1, <2>2 DEF FinalizeSend
<1>7. ASSUME NEW h \in Handler, NEW t \in Tx, Submit(h, t)
       PROVE  UNCHANGED ops /\ Move(h)
  <2>1. /\ \A g \in Handler : g # h => call'[g] = call[g]
        /\ call'[h].at = "await" /\ call'[h].bot = tx[t].bot /\ call'[h].tx = t
        /\ call'[h].rows = Idle.rows
    BY <1>7 DEF Submit, Typed, Idle
  <2>2. status'[t] # "none" /\ ("resubmit" \notin ops => status'[t] = "sent")
    BY <1>7 DEF Submit, Typed
  <2> QED BY <1>7, <2>1, <2>2 DEF Submit, Move, Submits, rows
<1>8. ASSUME NEW h \in Handler, NEW t \in Tx, SetupAgain(h, t) \/ PrepareRevoke(h, t)
      PROVE  UNCHANGED ops /\ Move(h)
  BY <1>8, EndsMove DEF SetupAgain, Offer, PrepareRevoke
<1>9. ASSUME NEW h \in Handler, NEW t \in Tx, NEW k \in Key,
             PrepareRegister(h, t, k) \/ PrepareSession(h, t, k) \/ SetupAfresh(h, t, k)
      PROVE  UNCHANGED ops /\ Move(h)
  BY <1>9, EndsMove DEF PrepareRegister, PrepareSession, SetupAfresh, Offer
<1>10. ASSUME NEW h \in Handler, NEW t \in Tx, NEW bots, NEW read, NEW found,
             \/ PrepareRecover(h, t, read) \/ WithdrawSome(h, t, bots)
             \/ WithdrawAll(h, t, bots, read, found)
      PROVE  UNCHANGED ops /\ Move(h)
  BY <1>10, EndsMove DEF PrepareRecover, Recover, WithdrawSome, WithdrawAll
<1>11. ASSUME NEW t \in Tx, PrepareCreate(t) \/ Land(t)
      PROVE  UNCHANGED << ops, call >>
  BY <1>11 DEF PrepareCreate, Land
<1>12. ASSUME NEW b \in Bot, DeleteBot(b)
       PROVE  UNCHANGED << ops, call >>
  BY <1>12 DEF DeleteBot
<1>13. ASSUME NEW k \in Key, Trade(k)
       PROVE  UNCHANGED << ops, call >>
  BY <1>13 DEF Trade
<1>14. CASE UNCHANGED vars
  BY <1>14 DEF vars
<1> QED
  BY <1>1, <1>2, <1>3, <1>4, <1>5, <1>8, <1>9, <1>10, <1>11, <1>12, <1>13, <1>14, <1>6,
     <1>7
  DEF Next

\* The steps that write rows; only a deletion is not the end of a request.
Write ==
  \/ \E h \in Handler : FinalizeSave(h) \/ EraseBots(h)
  \/ \E h \in Handler, t \in Tx : SetupAgain(h, t) \/ PrepareRevoke(h, t)
  \/ \E h \in Handler, t \in Tx, k \in Key :
       PrepareRegister(h, t, k) \/ PrepareSession(h, t, k) \/ SetupAfresh(h, t, k)
  \/ \E b \in Bot : DeleteBot(b)

LEMMA Writes ==
  ASSUME [Next]_vars
  PROVE  UNCHANGED row \/ Write
<1>1. ASSUME NEW h \in Handler, NEW b \in Bot,
             BeginRegister(h, b) \/ BeginSession(h, b) \/ BeginSetup(h, b) \/ BeginRevoke(h, b)
      PROVE  UNCHANGED row
  BY <1>1 DEF BeginRegister, BeginSession, BeginSetup, BeginRevoke, rows
<1>2. ASSUME NEW h \in Handler,
             \/ BeginRecover(h) \/ BeginWithdraw(h) \/ SetupOnward(h) \/ FinalizeRead(h)
             \/ FinalizeSent(h) \/ Confirmed(h) \/ NotConfirmed(h) \/ EraseUser(h) \/ Fail(h)
      PROVE  UNCHANGED row
  BY <1>2 DEF BeginRecover, BeginWithdraw, SetupOnward, FinalizeRead, FinalizeSent,
              Confirmed, NotConfirmed, EraseUser, Fail, rows
<1>3. ASSUME NEW h \in Handler, NEW t \in Tx, NEW bots, NEW read, NEW found,
             \/ FinalizeSend(h, t) \/ Submit(h, t) \/ PrepareRecover(h, t, read)
             \/ WithdrawSome(h, t, bots) \/ WithdrawAll(h, t, bots, read, found)
      PROVE  UNCHANGED row
  BY <1>3 DEF FinalizeSend, Submit, PrepareRecover, Recover, WithdrawSome, WithdrawAll, rows
<1>4. ASSUME NEW t \in Tx, PrepareCreate(t) \/ Land(t)
      PROVE  UNCHANGED row
  BY <1>4 DEF PrepareCreate, Land, rows
<1>5. ASSUME NEW k \in Key, Trade(k)
      PROVE  UNCHANGED row
  BY <1>5 DEF Trade, rows
<1>6. CASE UNCHANGED vars
  BY <1>6 DEF vars, rows
<1> QED BY <1>1, <1>2, <1>3, <1>4, <1>5, <1>6 DEF Next, Write

\* The steps that hand a transaction out.  Of what is not prepared for a bot, only that
\* of a recovery is marked as one.
Hand(t) ==
  \/ \E x, as :
       /\ NewTx(t, x, as) /\ x.fund = NoKey /\ x.register = NoKey /\ x.session = NoAddress
       /\ x.recovery => \E h \in Handler, read \in Readable : PrepareRecover(h, t, read)
  \/ \E h \in Handler : FinalizeSend(h, t) \/ SetupAgain(h, t)
  \/ \E h \in Handler, k \in Key :
       PrepareRegister(h, t, k) \/ PrepareSession(h, t, k) \/ SetupAfresh(h, t, k)

LEMMA PlainTx ==
  /\ CreateWallet.fund = NoKey /\ CreateWallet.register = NoKey
  /\ CreateWallet.session = NoAddress /\ ~CreateWallet.recovery
  /\ \A x : LET y == RevokeSession(x)
            IN  y.fund = NoKey /\ y.register = NoKey /\ y.session = NoAddress /\ ~y.recovery
  /\ \A drain, close, agent :
       LET y == CloseWallet(drain, close, agent)
       IN  y.fund = NoKey /\ y.register = NoKey /\ y.session = NoAddress /\ ~y.recovery
  /\ \A drain, close, agent :
       LET y == [CloseWallet(drain, close, agent) EXCEPT !.recovery = TRUE]
       IN  y.fund = NoKey /\ y.register = NoKey /\ y.session = NoAddress
  /\ \A drain : LET y == [Empty EXCEPT !.drain = drain]
                IN  y.fund = NoKey /\ y.register = NoKey /\ y.session = NoAddress /\ ~y.recovery
<1> QED BY DEF CreateWallet, RevokeSession, CloseWallet, Empty

LEMMA Hands ==
  ASSUME [Next]_vars
  PROVE  UNCHANGED tx \/ \E t \in Tx : Hand(t)
<1>1. ASSUME NEW h \in Handler, NEW b \in Bot,
             BeginRegister(h, b) \/ BeginSession(h, b) \/ BeginSetup(h, b) \/ BeginRevoke(h, b)
      PROVE  UNCHANGED tx
  BY <1>1 DEF BeginRegister, BeginSession, BeginSetup, BeginRevoke
<1>2. ASSUME NEW h \in Handler,
             \/ BeginRecover(h) \/ BeginWithdraw(h) \/ SetupOnward(h) \/ FinalizeRead(h)
             \/ FinalizeSent(h) \/ FinalizeSave(h) \/ Confirmed(h) \/ NotConfirmed(h)
             \/ EraseUser(h) \/ EraseBots(h) \/ Fail(h)
      PROVE  UNCHANGED tx
  BY <1>2 DEF BeginRecover, BeginWithdraw, SetupOnward, FinalizeRead, FinalizeSent,
              FinalizeSave, Confirmed, NotConfirmed, EraseUser, EraseBots, Fail
<1>3. ASSUME NEW h \in Handler, NEW t \in Tx, Submit(h, t)
      PROVE  UNCHANGED tx
  BY <1>3 DEF Submit
<1>4. ASSUME NEW h \in Handler, NEW t \in Tx, PrepareRevoke(h, t)
      PROVE  UNCHANGED tx \/ Hand(t)
  BY <1>4, PlainTx DEF PrepareRevoke, Hand
<1>5. ASSUME NEW h \in Handler, NEW t \in Tx, NEW read \in Readable, PrepareRecover(h, t, read)
      PROVE  UNCHANGED tx \/ Hand(t)
  <2> DEFINE drain == Balances(call[h].rows, Bot, read)
             agent == { call[h].rows[b].agent : b \in Bot } \cap agents
             x == [CloseWallet(drain, open, agent) EXCEPT !.recovery = TRUE]
  <2>1. UNCHANGED tx \/ NewTx(t, x, "prepared")
    BY <1>5 DEF PrepareRecover, Recover
  <2>2. x.fund = NoKey /\ x.register = NoKey /\ x.session = NoAddress
    BY DEF CloseWallet, Empty
  <2> HIDE DEF x
  <2> QED BY <1>5, <2>1, <2>2 DEF Hand
<1>6. ASSUME NEW h \in Handler, NEW t \in Tx, NEW bots, WithdrawSome(h, t, bots)
      PROVE  UNCHANGED tx \/ Hand(t)
  BY <1>6, PlainTx DEF WithdrawSome, Hand
<1>7. ASSUME NEW h \in Handler, NEW t \in Tx, NEW bots, NEW read, NEW found,
             WithdrawAll(h, t, bots, read, found)
      PROVE  UNCHANGED tx \/ Hand(t)
  BY <1>7, PlainTx DEF WithdrawAll, Hand
<1>8. ASSUME NEW t \in Tx, PrepareCreate(t)
      PROVE  UNCHANGED tx \/ Hand(t)
  BY <1>8, PlainTx DEF PrepareCreate, Hand
<1>9. ASSUME NEW t \in Tx, Land(t)
      PROVE  UNCHANGED tx
  BY <1>9 DEF Land
<1>10. ASSUME NEW b \in Bot, DeleteBot(b)
       PROVE  UNCHANGED tx
  BY <1>10 DEF DeleteBot
<1>11. ASSUME NEW k \in Key, Trade(k)
       PROVE  UNCHANGED tx
  BY <1>11 DEF Trade
<1>12. CASE UNCHANGED vars
  BY <1>12 DEF vars
<1> QED
  BY <1>1, <1>2, <1>3, <1>4, <1>5, <1>6, <1>7, <1>8, <1>9, <1>10, <1>11, <1>12
  DEF Next, Hand

\* A transaction that was handed out stays what it is, and a key whose it is.
LEMMA Lasting ==
  ASSUME Typed, [Next]_vars
  PROVE  /\ \A t \in Tx : status[t] # "none" => status'[t] # "none" /\ tx'[t] = tx[t]
         /\ \A k \in Key : made[k] # "none" => made'[k] = made[k]
<1>1. ASSUME NEW h \in Handler, NEW b \in Bot,
             BeginRegister(h, b) \/ BeginSession(h, b) \/ BeginSetup(h, b) \/ BeginRevoke(h, b)
      PROVE  UNCHANGED << tx, status, made >>
  BY <1>1 DEF BeginRegister, BeginSession, BeginSetup, BeginRevoke
<1>2. ASSUME NEW h \in Handler,
             \/ BeginRecover(h) \/ BeginWithdraw(h) \/ SetupOnward(h) \/ FinalizeRead(h)
             \/ FinalizeSent(h) \/ FinalizeSave(h) \/ Confirmed(h) \/ NotConfirmed(h)
             \/ EraseUser(h) \/ EraseBots(h) \/ Fail(h)
      PROVE  UNCHANGED << tx, status, made >>
  BY <1>2 DEF BeginRecover, BeginWithdraw, SetupOnward, FinalizeRead, FinalizeSent,
              FinalizeSave, Confirmed, NotConfirmed, EraseUser, EraseBots, Fail
<1> DEFINE Handed == \E t \in Tx : \E x, as : as # "none" /\ NewTx(t, x, as)
           Made == \E k \in Key : \E who : made[k] = "none" /\ made' = [made EXCEPT ![k] = who]
<1>3. ASSUME NEW h \in Handler, NEW t \in Tx, NEW bots, NEW read, NEW found,
             \/ PrepareRevoke(h, t) \/ PrepareRecover(h, t, read) \/ WithdrawSome(h, t, bots)
             \/ WithdrawAll(h, t, bots, read, found) \/ FinalizeSend(h, t)
      PROVE  UNCHANGED made /\ (UNCHANGED << tx, status >> \/ Handed)
  BY <1>3 DEF PrepareRevoke, PrepareRecover, Recover, WithdrawSome, WithdrawAll, FinalizeSend
<1>4. ASSUME NEW h \in Handler, NEW t \in Tx, SetupAgain(h, t)
      PROVE  UNCHANGED made /\ Handed
  BY <1>4 DEF SetupAgain, Offer
<1>5. ASSUME NEW h \in Handler, NEW t \in Tx, NEW k \in Key,
             PrepareRegister(h, t, k) \/ PrepareSession(h, t, k) \/ SetupAfresh(h, t, k)
      PROVE  UNCHANGED << tx, status, made >> \/ (Made /\ Handed)
  BY <1>5 DEF PrepareRegister, PrepareSession, SetupAfresh, Offer
<1>6. ASSUME NEW t \in Tx, PrepareCreate(t)
      PROVE  UNCHANGED made /\ Handed
  BY <1>6 DEF PrepareCreate
<1>7. ASSUME NEW t \in Tx, Land(t)
      PROVE  /\ UNCHANGED << tx, made >>
             /\ \E s : s # "none" /\ status' = [status EXCEPT ![t] = s]
  BY <1>7 DEF Land
<1>8. ASSUME NEW h \in Handler, NEW t \in Tx, Submit(h, t)
      PROVE  /\ UNCHANGED << tx, made >>
             /\ status' = status \/ \E s : s # "none" /\ status' = [status EXCEPT ![t] = s]
  BY <1>8 DEF Submit, Typed
<1>9. ASSUME NEW b \in Bot, DeleteBot(b)
      PROVE  UNCHANGED << tx, status, made >>
  BY <1>9 DEF DeleteBot
<1>10. ASSUME NEW k \in Key, Trade(k)
       PROVE  UNCHANGED << tx, status, made >>
  BY <1>10 DEF Trade
<1>11. CASE UNCHANGED vars
  BY <1>11 DEF vars
<1>12. Handed => \A t \in Tx : status[t] # "none" => status'[t] # "none" /\ tx'[t] = tx[t]
  BY DEF NewTx, Typed
<1>13. Made => \A k \in Key : made[k] # "none" => made'[k] = made[k]
  BY DEF Typed
<1>14. \A t \in Tx : \A s : s # "none" /\ status' = [status EXCEPT ![t] = s]
         => \A u \in Tx : status[u] # "none" => status'[u] # "none"
  BY DEF Typed
<1> HIDE DEF Handed, Made
<1> QED
  BY <1>1, <1>2, <1>3, <1>4, <1>5, <1>6, <1>7, <1>8, <1>9, <1>10, <1>11, <1>12, <1>13,
     <1>14
  DEF Next

-----------------------------------------------------------------------------
(* The inductive invariant *)

\* What a request does is among the operations of the behaviour.
Permitted ==
  /\ \A h \in Handler :
       /\ call[h].at \in {"register", "session", "setup", "revoke", "recover", "withdraw"}
            => call[h].at \in ops
       /\ call[h].at \in {"user", "bots"} => "recover" \in ops
  /\ \A t \in Tx : tx[t].recovery => "recover" \in ops

Alone ==
  "overlap" \notin ops =>
    \A h, i \in Handler : call[h] # Idle /\ call[i] # Idle => h = i

\* A request has found in the row of its bot what it needs.
Asked == \A h \in Handler :
  /\ call[h].at = "register" => call[h].rows[call[h].bot].agent = NoKey
  /\ call[h].at = "session" => call[h].rows[call[h].bot].address = NoAddress
  /\ call[h].at \in {"send", "sending", "save"} =>
       call[h].rows[call[h].bot].session # NoKey
  /\ call[h].at = "await" =>
       status[call[h].tx] # "none" /\ call[h].bot = tx[call[h].tx].bot
  /\ call[h].at = "sending" => status[call[h].tx] # "none"

\* What is handed out is a recovery only where a request prepares one.
LEMMA RecoveryAsked ==
  ASSUME Typed, [Next]_vars, NEW t \in Tx, tx'[t].recovery, tx'[t] # tx[t]
  PROVE  \E h \in Handler, read \in Readable : PrepareRecover(h, t, read)
<1>1. PICK u \in Tx : Hand(u)
  BY Hands
<1>2. ASSUME NEW x, NEW as, NewTx(u, x, as)
      PROVE  u = t /\ x.recovery
  BY <1>2 DEF NewTx, Typed
<1>3. ASSUME NEW h, NEW a, NEW s, Offer(h, u, a, s)
      PROVE  FALSE
  <2> DEFINE x == [RegisterAgent(a) EXCEPT !.create = ~open, !.fund = s, !.bot = call[h].bot]
  <2>1. NewTx(u, x, "prepared")
    BY <1>3 DEF Offer
  <2>2. ~x.recovery
    BY DEF RegisterAgent, Empty
  <2> QED BY <1>2, <2>1, <2>2, Zenon
<1>4. ASSUME NEW h \in Handler, FinalizeSend(h, u)
      PROVE  FALSE
  <2>1. \E x : NewTx(u, CreateSession(x), "sent")
    <3>1. tx' # tx
      OBVIOUS
    <3> QED BY <1>4, <3>1 DEF FinalizeSend
  <2> QED BY <1>2, <2>1 DEF CreateSession, Empty
<1>5. ASSUME NEW h \in Handler, NEW k \in Key,
             PrepareRegister(h, u, k) \/ PrepareSession(h, u, k)
      PROVE  FALSE
  <2>1. \/ NewTx(u, RegisterAgent(k), "prepared")
        \/ \E x : NewTx(u, CreateSession(x), "prepared")
    <3>1. tx' # tx
      OBVIOUS
    <3> QED BY <1>5, <3>1 DEF PrepareRegister, PrepareSession
  <2>2. ~RegisterAgent(k).recovery /\ \A x : ~CreateSession(x).recovery
    BY DEF RegisterAgent, CreateSession, Empty
  <2> QED BY <1>2, <2>1, <2>2, Zenon
<1>6. ASSUME NEW h \in Handler, NEW k \in Key, SetupAgain(h, u) \/ SetupAfresh(h, u, k)
      PROVE  FALSE
  BY <1>3, <1>6 DEF SetupAgain, SetupAfresh
<1>7. ASSUME NEW h \in Handler, SetupAgain(h, u)
      PROVE  FALSE
  BY <1>3, <1>7 DEF SetupAgain
<1> QED BY <1>1, <1>2, <1>4, <1>5, <1>6, <1>7 DEF Hand

LEMMA PermittedStep ==
  ASSUME Typed, Targets, Permitted, [Next]_vars
  PROVE  Permitted'
<1>1. ASSUME NEW t \in Tx, tx'[t].recovery
      PROVE  "recover" \in ops'
  <2>1. CASE tx'[t] = tx[t]
    BY <1>1, <2>1, Moves DEF Permitted
  <2>2. CASE tx'[t] # tx[t]
    <3>1. \E h \in Handler : call[h].at = "recover"
      BY <1>1, <2>2, RecoveryAsked DEF PrepareRecover, Recover
    <3> QED BY <3>1, Moves DEF Permitted
  <2> QED BY <2>1, <2>2
<1>2. ASSUME NEW h \in Handler
      PROVE  /\ call'[h].at \in {"register", "session", "setup", "revoke", "recover", "withdraw"}
                  => call'[h].at \in ops'
             /\ call'[h].at \in {"user", "bots"} => "recover" \in ops'
  <2>1. CASE call'[h] = call[h]
    BY <2>1, Moves DEF Permitted
  <2>2. CASE Move(h)
    <3>1. call[h].at = "await" => call[h].tx \in Tx
      BY DEF Targets
    <3>2. call'[h] = Idle => call'[h].at = "idle"
      BY DEF Idle
    <3> QED BY <2>2, <3>1, <3>2, Moves DEF Move, Starts, Continues, Submits, Begins, Goes, Permitted
  <2> QED BY <2>1, <2>2, Moves DEF Move
<1> QED BY <1>1, <1>2 DEF Permitted

LEMMA AloneStep ==
  ASSUME Typed, Alone, [Next]_vars
  PROVE  Alone'
<1> SUFFICES ASSUME "overlap" \notin ops,
                    NEW h \in Handler, NEW i \in Handler, call'[h] # Idle, call'[i] # Idle
             PROVE  h = i
  BY Moves DEF Alone
<1>1. CASE UNCHANGED call
  BY <1>1 DEF Alone
<1>2. ASSUME NEW j \in Handler, Move(j)
      PROVE  h = i
  <2>1. \A g \in Handler : g # j => call'[g] = call[g]
    BY <1>2 DEF Move
  <2>2. call'[j] = Idle \/ call[j].at # "idle" \/ Free(j)
    BY <1>2 DEF Move, Starts, Continues, Submits, Begins, Goes
  <2>3. Idle.at = "idle"
    BY DEF Idle
  <2> QED BY <2>1, <2>2, <2>3 DEF Alone, Free
<1> QED BY <1>1, <1>2, Moves

LEMMA TargetsStep ==
  ASSUME Typed, Targets, Asked, [Next]_vars
  PROVE  Targets'
<1> SUFFICES ASSUME NEW h \in Handler
             PROVE  /\ call'[h].at \in Bound => call'[h].bot \in Bot
                    /\ call'[h].at \in {"await", "sending"} => call'[h].tx \in Tx
  BY DEF Targets
<1>1. CASE call'[h] = call[h]
  BY <1>1 DEF Targets
<1>2. CASE Move(h)
  <2>1. Idle.at \notin Bound \cup {"await", "sending"}
    BY DEF Idle, Bound
  <2>2. call[h].at = "await" /\ tx[call[h].tx].bot # NoBot => call[h].bot \in Bot
    BY DEF Targets, Asked, Typed, Contents
  <2>3. CASE Starts(h) \/ Submits(h)
    BY <2>3 DEF Starts, Submits, Begins, Bound
  <2>4. CASE Continues(h)
    BY <2>2, <2>4 DEF Continues, Goes, Targets, Bound
  <2> QED BY <1>2, <2>1, <2>3, <2>4 DEF Move
<1> QED BY <1>1, <1>2, Moves DEF Move

LEMMA AskedStep ==
  ASSUME Typed, Targets, Asked, [Next]_vars
  PROVE  Asked'
<1> SUFFICES ASSUME NEW h \in Handler
             PROVE  /\ call'[h].at = "register" => call'[h].rows[call'[h].bot].agent = NoKey
                    /\ call'[h].at = "session" => call'[h].rows[call'[h].bot].address = NoAddress
                    /\ call'[h].at \in {"send", "sending", "save"} =>
                         call'[h].rows[call'[h].bot].session # NoKey
                    /\ call'[h].at = "await" =>
                         status'[call'[h].tx] # "none" /\ call'[h].bot = tx'[call'[h].tx].bot
                    /\ call'[h].at = "sending" => status'[call'[h].tx] # "none"
  BY DEF Asked
<1>1. CASE call'[h] = call[h]
  BY <1>1, Lasting DEF Asked, Targets
<1>2. CASE Move(h)
  <2>1. Idle.at = "idle"
    BY DEF Idle
  <2>2. CASE Starts(h)
    BY <2>2 DEF Starts, Begins
  <2>3. CASE Continues(h)
    <3>1. call'[h].at = "sending" =>
            call'[h].rows = call[h].rows /\ call'[h].bot = call[h].bot /\ call[h].at = "send"
      BY <2>3 DEF Continues, Goes
    <3> QED BY <2>3, <3>1 DEF Continues, Goes, Asked
  <2>4. CASE Submits(h)
    BY <2>4 DEF Submits
  <2> QED BY <1>2, <2>1, <2>2, <2>3, <2>4 DEF Move
<1> QED BY <1>1, <1>2, Moves DEF Move

Reading == {"register", "session", "setup", "revoke", "recover", "send", "sending", "save"}

\* While requests do not overlap, a request knows the rows as they are, but for a bot
\* deleted meanwhile.
Snapshots ==
  "overlap" \notin ops => \A h \in Handler : call[h].at \in Reading =>
    \A b \in Bot : \/ call[h].rows[b] = row[b]
                   \/ "delete" \in ops /\ row[b].session = NoKey

RowsWhole ==
  "overlap" \notin ops => \A b \in Bot : row[b].session # NoKey =>
    /\ row[b].agent # NoKey /\ row[b].secret # NoKey
    /\ "revoke" \notin ops => row[b].address # NoAddress

LEMMA SnapshotsStep ==
  ASSUME Typed, Alone, Snapshots, [Next]_vars
  PROVE  Snapshots'
<1> SUFFICES ASSUME "overlap" \notin ops, NEW h \in Handler, call'[h].at \in Reading,
                    NEW b \in Bot
             PROVE  \/ call'[h].rows[b] = row'[b]
                    \/ "delete" \in ops /\ row'[b].session = NoKey
  BY Moves DEF Snapshots
<1>1. Idle.at = "idle" /\ Idle.at \notin Reading
  BY DEF Idle, Reading
<1>2. CASE UNCHANGED row
  <2>1. CASE call'[h] = call[h]
    BY <1>2, <2>1 DEF Snapshots
  <2>2. CASE Move(h)
    <3>1. CASE Starts(h) \/ Submits(h)
      BY <1>2, <3>1 DEF Starts, Submits, Begins, Reading
    <3>2. CASE Continues(h)
      BY <1>2, <3>2 DEF Continues, Goes, Snapshots, Reading
    <3> QED BY <1>1, <2>2, <3>1, <3>2 DEF Move
  <2> QED BY <2>1, <2>2, Moves DEF Move
<1>3. ASSUME NEW i \in Handler, Ends(i), call[i] # Idle
      PROVE  FALSE
  <2>1. call'[i] = Idle /\ (h # i => call'[h] = call[h])
    BY <1>3 DEF Ends, Typed
  <2> QED BY <1>1, <1>3, <2>1 DEF Alone
<1>4. CASE \E c \in Bot : DeleteBot(c)
  <2>1. PICK c \in Bot : DeleteBot(c)
    BY <1>4
  <2>2. call' = call /\ "delete" \in ops
    BY <2>1 DEF DeleteBot
  <2>3. row'[b] = row[b] \/ row'[b].session = NoKey
    BY <2>1 DEF DeleteBot, Typed, EmptyRow
  <2> QED BY <2>2, <2>3 DEF Snapshots
<1>5. CASE Write /\ ~(\E c \in Bot : DeleteBot(c))
  <2>1. \E i \in Handler : Ends(i) /\ call[i].at # "idle"
    <3>1. ASSUME NEW i \in Handler, NEW t, NEW k,
                 \/ FinalizeSave(i) \/ EraseBots(i) \/ PrepareRevoke(i, t)
                 \/ PrepareRegister(i, t, k) \/ PrepareSession(i, t, k)
          PROVE  Ends(i) /\ call[i].at # "idle"
      BY <3>1 DEF FinalizeSave, EraseBots, PrepareRevoke, PrepareRegister, PrepareSession
    <3>2. ASSUME NEW i \in Handler, NEW t, NEW k, SetupAgain(i, t) \/ SetupAfresh(i, t, k)
          PROVE  Ends(i) /\ call[i].at # "idle"
      BY <3>2 DEF SetupAgain, SetupAfresh, Offer
    <3> QED BY <1>5, <3>1, <3>2 DEF Write
  <2> QED BY <1>1, <1>3, <2>1
<1> QED BY <1>2, <1>4, <1>5, Writes

\* What a request writes into the row of a bot.
Wrote(h, b) ==
  LET r == call[h].rows[b]
      was == row[b]
      is == row'[b]
  IN  \/ /\ call[h].bot = b
         /\ \/ /\ call[h].at = "register" /\ is.agent \in Key
               /\ is.secret = was.secret /\ is.session = was.session /\ is.address = was.address
            \/ /\ is.agent = was.agent /\ is.secret = was.secret /\ is.session = was.session
               /\ \/ call[h].at = "session" /\ \E k \in Key : is.address = << r.agent, k >>
                  \/ call[h].at = "revoke" /\ is.address = NoAddress
                  \/ call[h].at = "save" /\ is.address = << r.agent, r.session >>
            \/ /\ call[h].at = "setup"
               /\ is.secret = is.agent /\ is.address = << is.agent, is.session >>
               /\ \/ /\ ~Complete(r) /\ is.agent = is.session /\ is.session \in Key
                     /\ made[is.session] = "none" /\ made'[is.session] = "server"
                  \/ Complete(r) /\ is.agent = r.secret /\ is.session = r.session
      \/ call[h].at = "bots" /\ is = EmptyRow

LEMMA RowWritten ==
  ASSUME Typed, Write, NEW b \in Bot, row'[b] # row[b]
  PROVE  \/ \E h \in Handler : Wrote(h, b)
         \/ DeleteBot(b) /\ row'[b] = [EmptyRow EXCEPT !.agent = row[b].agent]
<1>1. ASSUME NEW h \in Handler, NEW t \in Tx, NEW k \in Key, PrepareRegister(h, t, k)
      PROVE  Wrote(h, b)
  <2>1. call[h].bot = b /\ row'[b] = [row[b] EXCEPT !.agent = k]
    BY <1>1 DEF PrepareRegister, Typed
  <2> QED BY <1>1, <2>1 DEF Wrote, PrepareRegister, Typed, Rows
<1>2. ASSUME NEW h \in Handler, NEW t \in Tx, NEW k \in Key, PrepareSession(h, t, k)
      PROVE  Wrote(h, b)
  <2>1. call[h].bot = b /\ row'[b] = [row[b] EXCEPT !.address = << call[h].rows[b].agent, k >>]
    BY <1>2 DEF PrepareSession, Typed
  <2> QED BY <1>2, <2>1 DEF Wrote, PrepareSession, Typed, Rows
<1>3. ASSUME NEW h \in Handler, NEW t, NEW a, NEW s, Offer(h, t, a, s)
      PROVE  /\ call[h].bot = b
             /\ row'[b] = [agent |-> a, secret |-> a, address |-> << a, s >>, session |-> s]
  BY <1>3 DEF Offer, Typed
<1>4. ASSUME NEW h \in Handler, NEW t \in Tx, NEW k \in Key, SetupAfresh(h, t, k)
      PROVE  Wrote(h, b)
  <2>1. Offer(h, t, k, k)
    BY <1>4 DEF SetupAfresh
  <2>2. /\ call[h].bot = b
        /\ row'[b] = [agent |-> k, secret |-> k, address |-> << k, k >>, session |-> k]
    BY <1>3, <2>1
  <2>3. /\ call[h].at = "setup" /\ ~Complete(call[h].rows[b])
        /\ made[k] = "none" /\ made'[k] = "server"
    BY <1>4, <2>2 DEF SetupAfresh, Typed
  <2> QED BY <2>2, <2>3 DEF Wrote
<1>5. ASSUME NEW h \in Handler, NEW t \in Tx, SetupAgain(h, t)
      PROVE  Wrote(h, b)
  <2> DEFINE r == call[h].rows[call[h].bot]
  <2>1. Offer(h, t, r.secret, r.session)
    BY <1>5 DEF SetupAgain
  <2>2. /\ call[h].bot = b
        /\ row'[b] = [agent |-> r.secret, secret |-> r.secret,
                      address |-> << r.secret, r.session >>, session |-> r.session]
    BY <1>3, <2>1
  <2>3. call[h].at = "setup" /\ Complete(call[h].rows[b])
    BY <1>5, <2>2 DEF SetupAgain
  <2> QED BY <2>2, <2>3 DEF Wrote
<1>6. ASSUME NEW h \in Handler, NEW t \in Tx, PrepareRevoke(h, t)
      PROVE  Wrote(h, b)
  <2>1. call[h].bot = b /\ row'[b] = [row[b] EXCEPT !.address = NoAddress]
    BY <1>6 DEF PrepareRevoke, Typed
  <2> QED BY <1>6, <2>1 DEF Wrote, PrepareRevoke, Typed, Rows
<1>7. ASSUME NEW h \in Handler, FinalizeSave(h)
      PROVE  Wrote(h, b)
  <2>1. /\ call[h].bot = b
        /\ row'[b] = [row[b] EXCEPT !.address =
             << call[h].rows[b].agent, call[h].rows[b].session >>]
    BY <1>7 DEF FinalizeSave, Typed
  <2> QED BY <1>7, <2>1 DEF Wrote, FinalizeSave, Typed, Rows
<1>8. ASSUME NEW h \in Handler, EraseBots(h)
      PROVE  Wrote(h, b)
  BY <1>8 DEF EraseBots, Wrote
<1>9. ASSUME NEW c \in Bot, DeleteBot(c)
      PROVE  DeleteBot(b) /\ row'[b] = [EmptyRow EXCEPT !.agent = row[b].agent]
  <2>1. c = b /\ row'[b] = [EmptyRow EXCEPT !.agent = row[b].agent]
    BY <1>9 DEF DeleteBot, Typed
  <2> QED BY <1>9, <2>1
<1> QED BY <1>1, <1>2, <1>4, <1>5, <1>6, <1>7, <1>8, <1>9 DEF Write

\* What else changes, and by which steps.
LEMMA Rest ==
  ASSUME Typed, [Next]_vars
  PROVE  /\ UNCHANGED accounts \/ (\E t \in Tx : Land(t)) \/ \E k \in Key : Trade(k)
         /\ \/ UNCHANGED chain \/ (\E t \in Tx : Land(t)) \/ \E k \in Key : Trade(k)
            \/ \E h \in Handler, t \in Tx, read \in Readable : PrepareRecover(h, t, read)
         /\ UNCHANGED recorded \/ recorded' = TRUE \/ \E h \in Handler : EraseUser(h)
         /\ \/ UNCHANGED made
            \/ \E h \in Handler, t \in Tx, k \in Key :
                 PrepareRegister(h, t, k) \/ PrepareSession(h, t, k) \/ SetupAfresh(h, t, k)
<1> DEFINE Plain == UNCHANGED << recorded, made, chain >>
<1>1. ASSUME NEW h \in Handler, NEW b \in Bot,
             BeginRegister(h, b) \/ BeginSession(h, b) \/ BeginRevoke(h, b)
      PROVE  Plain
  BY <1>1 DEF BeginRegister, BeginSession, BeginRevoke, rows
<1>2. ASSUME NEW h \in Handler, NEW b \in Bot, BeginSetup(h, b)
      PROVE  UNCHANGED << made, chain >> /\ recorded' = TRUE
  BY <1>2 DEF BeginSetup
<1>3. ASSUME NEW h \in Handler,
             \/ BeginRecover(h) \/ BeginWithdraw(h) \/ SetupOnward(h) \/ FinalizeRead(h)
             \/ FinalizeSent(h) \/ FinalizeSave(h) \/ Confirmed(h) \/ NotConfirmed(h)
             \/ EraseBots(h) \/ Fail(h)
      PROVE  Plain
  BY <1>3 DEF BeginRecover, BeginWithdraw, SetupOnward, FinalizeRead, FinalizeSent,
              FinalizeSave, Confirmed, NotConfirmed, EraseBots, Fail, rows
<1>4. ASSUME NEW h \in Handler, EraseUser(h)
      PROVE  UNCHANGED << made, chain >>
  BY <1>4 DEF EraseUser
<1>5. ASSUME NEW h \in Handler, NEW t \in Tx, NEW bots, NEW read, NEW found,
             \/ PrepareRevoke(h, t) \/ WithdrawSome(h, t, bots)
             \/ WithdrawAll(h, t, bots, read, found) \/ FinalizeSend(h, t)
             \/ SetupAgain(h, t) \/ Submit(h, t)
      PROVE  Plain
  BY <1>5 DEF PrepareRevoke, WithdrawSome, WithdrawAll, FinalizeSend,
              SetupAgain, Submit, rows
<1>6. ASSUME NEW h \in Handler, NEW t \in Tx, NEW k \in Key,
             PrepareRegister(h, t, k) \/ PrepareSession(h, t, k) \/ SetupAfresh(h, t, k)
      PROVE  UNCHANGED << recorded, chain >>
  BY <1>6 DEF PrepareRegister, PrepareSession, SetupAfresh
<1>7. ASSUME NEW t \in Tx, PrepareCreate(t)
      PROVE  UNCHANGED << made, chain >> /\ recorded' = TRUE
  BY <1>7 DEF PrepareCreate
<1>8. ASSUME NEW t \in Tx, Land(t)
      PROVE  UNCHANGED << recorded, made >>
  BY <1>8 DEF Land, rows
<1>9. ASSUME NEW b \in Bot, DeleteBot(b)
      PROVE  Plain
  BY <1>9 DEF DeleteBot
<1>10. ASSUME NEW k \in Key, Trade(k)
       PROVE  UNCHANGED << recorded, made >>
  BY <1>10 DEF Trade, rows
<1>11. ASSUME NEW h \in Handler, NEW t \in Tx, NEW read, PrepareRecover(h, t, read)
       PROVE  UNCHANGED << recorded, made, accounts >>
  BY <1>11 DEF PrepareRecover, Recover, rows
<1>12. CASE UNCHANGED vars
  BY <1>12 DEF vars, rows, chain
<1>13. UNCHANGED chain => UNCHANGED accounts
  BY DEF chain
<1> QED
  BY <1>1, <1>2, <1>3, <1>4, <1>5, <1>6, <1>7, <1>8, <1>9, <1>10, <1>11,
     <1>12, <1>13
  DEF Next

\* A key that becomes the server's is written into the row of the bot it was made for.
LEMMA ServerKeys ==
  ASSUME Typed, Targets, [Next]_vars, NEW k \in Key, made[k] # "server", made'[k] = "server"
  PROVE  \E b \in Bot : row'[b].session = k
<1>1. ASSUME NEW h \in Handler, NEW t \in Tx, NEW j \in Key,
             PrepareRegister(h, t, j) \/ PrepareSession(h, t, j)
      PROVE  FALSE
  BY <1>1 DEF PrepareRegister, PrepareSession, Typed
<1>2. ASSUME NEW h \in Handler, NEW t \in Tx, NEW j \in Key, SetupAfresh(h, t, j)
      PROVE  \E b \in Bot : row'[b].session = k
  <2>1. j = k
    BY <1>2 DEF SetupAfresh, Typed
  <2>2. call[h].bot \in Bot
    BY <1>2 DEF SetupAfresh, Targets, Bound
  <2>3. row'[call[h].bot].session = j
    BY <1>2, <2>2 DEF SetupAfresh, Offer, Typed
  <2> QED BY <2>1, <2>2, <2>3
<1> QED BY <1>1, <1>2, Rest

LEMMA RowsWholeStep ==
  ASSUME Typed, Targets, Permitted, Asked, RowsWhole, [Next]_vars
  PROVE  RowsWhole'
<1> SUFFICES ASSUME "overlap" \notin ops, NEW b \in Bot, row'[b].session # NoKey
             PROVE  /\ row'[b].agent # NoKey /\ row'[b].secret # NoKey
                    /\ "revoke" \notin ops => row'[b].address # NoAddress
  BY Moves DEF RowsWhole
<1>1. CASE row'[b] = row[b]
  BY <1>1 DEF RowsWhole
<1>2. CASE row'[b] # row[b]
  <2>1. PICK h \in Handler : Wrote(h, b)
    BY <1>2, RowWritten, Writes DEF EmptyRow
  <2>2. NoKey \notin Key /\ \A a, k : k # NoKey => << a, k >> # NoAddress
    BY WalletAssumption DEF NoAddress
  <2>3. row[b].session # NoKey \/ call[h].at = "setup"
    BY <2>1 DEF Wrote, EmptyRow
  <2>4. CASE call[h].at = "setup"
    BY <2>1, <2>2, <2>4 DEF Wrote, Complete
  <2>5. CASE call[h].at = "register"
    BY <2>1, <2>2, <2>3, <2>5 DEF Wrote, RowsWhole
  <2>6. CASE call[h].at = "save"
    <3>1. call[h].bot = b => call[h].rows[b].session # NoKey
      BY <2>6 DEF Asked
    <3> QED BY <2>1, <2>2, <2>3, <2>6, <3>1 DEF Wrote, RowsWhole
  <2>7. CASE call[h].at = "session"
    BY <2>1, <2>2, <2>3, <2>7 DEF Wrote, RowsWhole
  <2>8. CASE call[h].at = "revoke"
    BY <2>1, <2>3, <2>8 DEF Wrote, RowsWhole, Permitted
  <2> QED BY <2>1, <2>4, <2>5, <2>6, <2>7, <2>8 DEF Wrote, EmptyRow
<1> QED BY <1>1, <1>2

\* The session keys of rows, of what was read of them and of the transactions that pay
\* a signer are the server's own, and no other signer holds anything.
KeysMade ==
  /\ \A b \in Bot : row[b].session # NoKey => made[row[b].session] = "server"
  /\ \A h \in Handler, b \in Bot :
       call[h].rows[b].session # NoKey => made[call[h].rows[b].session] = "server"
  /\ \A t \in Tx : tx[t].fund # NoKey => made[tx[t].fund] = "server"
  /\ \A k \in Key : funds[k] > 0 => made[k] = "server"

\* A transaction that pays a signer or registers an agent is one of setup-live, or
\* registers an agent of the app.
LEMMA OfferTx ==
  ASSUME Typed, [Next]_vars, NEW t \in Tx, tx'[t] # tx[t],
         tx'[t].fund # NoKey \/ tx'[t].register # NoKey
  PROVE  \/ \E h \in Handler : \E a, s :
              /\ call[h].at = "setup" /\ Offer(h, t, a, s)
              /\ tx'[t].fund = s /\ tx'[t].register = a
              /\ \/ \E k \in Key : a = k /\ s = k /\ made'[k] = "server"
                 \/ LET r == call[h].rows[call[h].bot]
                    IN  Complete(r) /\ a = r.secret /\ s = r.session
         \/ /\ tx'[t].fund = NoKey /\ made'[tx'[t].register] = "app"
            /\ \E h \in Handler : call[h].at = "register"
<1>1. PICK u \in Tx : Hand(u)
  BY Hands
<1>2. ASSUME NEW x, NEW as, NewTx(u, x, as)
      PROVE  u = t /\ tx'[t] = x
  BY <1>2 DEF NewTx, Typed
<1>3. ASSUME NEW x, NEW as, NewTx(u, x, as), x.fund = NoKey, x.register = NoKey
      PROVE  FALSE
  BY <1>2, <1>3
<1>4. ASSUME NEW h \in Handler, NEW a, NEW s, Offer(h, u, a, s)
      PROVE  u = t /\ tx'[t].fund = s /\ tx'[t].register = a
  <2> DEFINE x == [RegisterAgent(a) EXCEPT !.create = ~open, !.fund = s, !.bot = call[h].bot]
  <2>1. NewTx(u, x, "prepared")
    BY <1>4 DEF Offer
  <2>2. x.fund = s /\ x.register = a
    BY DEF RegisterAgent, Empty
  <2> HIDE DEF x
  <2> QED BY <1>2, <2>1, <2>2
<1>5. \A y : CreateSession(y).fund = NoKey /\ CreateSession(y).register = NoKey
  BY DEF CreateSession, Empty
<1>6. \A k : RegisterAgent(k).fund = NoKey /\ RegisterAgent(k).register = k
  BY DEF RegisterAgent, Empty
<1>7. ASSUME NEW h \in Handler, FinalizeSend(h, u)
      PROVE  FALSE
  <2>1. \E y : NewTx(u, CreateSession(y), "sent")
    <3>1. tx' # tx
      OBVIOUS
    <3> QED BY <1>7, <3>1 DEF FinalizeSend
  <2> QED BY <1>3, <1>5, <2>1
<1>8. ASSUME NEW h \in Handler, NEW k \in Key, PrepareSession(h, u, k)
      PROVE  FALSE
  <2>1. \E y : NewTx(u, CreateSession(y), "prepared")
    <3>1. tx' # tx
      OBVIOUS
    <3> QED BY <1>8, <3>1 DEF PrepareSession
  <2> QED BY <1>3, <1>5, <2>1
<1>9. ASSUME NEW h \in Handler, NEW k \in Key, PrepareRegister(h, u, k)
      PROVE  tx'[t].fund = NoKey /\ made'[tx'[t].register] = "app" /\ call[h].at = "register"
  <2>1. NewTx(u, RegisterAgent(k), "prepared") /\ made' = [made EXCEPT ![k] = "app"]
    <3>1. tx' # tx
      OBVIOUS
    <3> QED BY <1>9, <3>1 DEF PrepareRegister
  <2>2. made'[k] = "app"
    BY <2>1 DEF Typed
  <2> QED BY <1>2, <1>6, <1>9, <2>1, <2>2 DEF PrepareRegister
<1>10. ASSUME NEW h \in Handler, NEW k \in Key, SetupAfresh(h, u, k)
       PROVE  /\ call[h].at = "setup" /\ Offer(h, t, k, k)
              /\ tx'[t].fund = k /\ tx'[t].register = k /\ made'[k] = "server"
  BY <1>4, <1>10 DEF SetupAfresh, Typed
<1>11. ASSUME NEW h \in Handler, SetupAgain(h, u)
       PROVE  LET r == call[h].rows[call[h].bot]
              IN  /\ call[h].at = "setup" /\ Offer(h, t, r.secret, r.session) /\ Complete(r)
                  /\ tx'[t].fund = r.session /\ tx'[t].register = r.secret
  BY <1>4, <1>11 DEF SetupAgain
<1> QED BY <1>1, <1>3, <1>7, <1>8, <1>9, <1>10, <1>11 DEF Hand

LEMMA KeysMadeStep ==
  ASSUME Typed, Targets, KeysMade, [Next]_vars
  PROVE  KeysMade'
<1> DEFINE Ours(k) == k # NoKey => made[k] = "server"
           OursNext(k) == k # NoKey => made'[k] = "server"
<1>1. \A k \in Keys : Ours(k) => OursNext(k)
  BY Lasting DEF Keys
<1>2. ASSUME NEW b \in Bot
      PROVE  OursNext(row'[b].session)
  <2>1. row[b].session \in Keys /\ \A h \in Handler : call[h].rows[b].session \in Keys
    BY DEF Typed, Requests, Rows
  <2>2. CASE row'[b].session = row[b].session
    BY <1>1, <2>1, <2>2 DEF KeysMade
  <2>3. CASE row'[b].session # row[b].session
    <3>1. CASE row'[b].session = NoKey
      BY <3>1
    <3>2. CASE row'[b].session # NoKey
      <4>1. PICK h \in Handler : Wrote(h, b)
        BY <2>3, <3>2, RowWritten, Writes DEF EmptyRow
      <4>2. CASE Complete(call[h].rows[b]) /\ row'[b].session = call[h].rows[b].session
        BY <1>1, <2>1, <4>2 DEF KeysMade
      <4> QED BY <2>3, <3>2, <4>1, <4>2 DEF Wrote, EmptyRow
    <3> QED BY <3>1, <3>2
  <2> QED BY <2>2, <2>3
<1>3. ASSUME NEW h \in Handler, NEW b \in Bot
      PROVE  OursNext(call'[h].rows[b].session)
  <2>1. /\ call[h].rows[b].session \in Keys /\ row[b].session \in Keys
        /\ Ours(call[h].rows[b].session) /\ Ours(row[b].session)
    BY DEF Typed, Requests, Rows, KeysMade
  <2>2. CASE call'[h] = call[h]
    BY <1>1, <2>1, <2>2
  <2>3. CASE Move(h)
    <3>1. Idle.rows[b].session = NoKey
      BY DEF Idle, EmptyRow
    <3>2. call'[h].rows \in {Idle.rows, row, call[h].rows}
      BY <2>3 DEF Move, Starts, Continues, Submits, Begins, Goes
    <3> QED BY <1>1, <2>1, <3>1, <3>2
  <2> QED BY <2>2, <2>3, Moves DEF Move
<1>4. ASSUME NEW t \in Tx
      PROVE  OursNext(tx'[t].fund)
  <2>1. tx[t].fund \in Keys /\ Ours(tx[t].fund)
    BY DEF Typed, Contents, KeysMade
  <2>2. CASE tx'[t] = tx[t]
    BY <1>1, <2>1, <2>2
  <2>3. ASSUME NEW h \in Handler, call[h].at = "setup",
               tx'[t].fund = call[h].rows[call[h].bot].session
        PROVE  OursNext(tx'[t].fund)
    <3>1. call[h].bot \in Bot
      BY <2>3 DEF Targets, Bound
    <3>2. call[h].rows[call[h].bot].session \in Keys /\ Ours(call[h].rows[call[h].bot].session)
      BY <3>1 DEF Typed, Requests, Rows, KeysMade
    <3> QED BY <1>1, <2>3, <3>2
  <2> QED BY <2>2, <2>3, OfferTx
<1>5. ASSUME NEW k \in Key, funds'[k] > 0
      PROVE  made'[k] = "server"
  <2>1. made[k] = "server" => made'[k] = "server"
    BY Lasting
  <2>2. CASE funds'[k] = funds[k]
    BY <1>5, <2>1, <2>2 DEF KeysMade
  <2>3. CASE \E t \in Tx : Land(t) /\ k = tx[t].fund
    <3>1. k # NoKey
      BY WalletAssumption
    <3> QED BY <2>1, <2>3, <3>1 DEF KeysMade
  <2>4. CASE \E t \in Tx : Land(t) /\ Valid(tx[t]) /\ k # tx[t].fund
    <3>1. PICK t \in Tx : Land(t) /\ Valid(tx[t]) /\ k # tx[t].fund
      BY <2>4
    <3>2. funds'[k] = funds[k] - tx[t].drain[k]
      BY <3>1 DEF Land
    <3>3. funds[k] \in 0 .. MaxFunds /\ tx[t].drain[k] \in 0 .. MaxFunds
      BY DEF Typed, Contents
    <3>4. funds[k] > 0
      BY <1>5, <3>2, <3>3, WalletAssumption
    <3> QED BY <2>1, <3>4 DEF KeysMade
  <2>5. CASE \E j \in Key : Trade(j) /\ funds'[k] # funds[k]
    BY <2>1, <2>5 DEF Trade, Typed
  <2> QED BY <2>2, <2>3, <2>4, <2>5, Rest DEF chain, accounts, Land
<1> QED BY <1>2, <1>3, <1>4, <1>5 DEF KeysMade

\* Every key the server made is in a row.
KeysHeld ==
  Without({"overlap", "revoke", "recover", "delete"}) =>
    \A k \in Key : made[k] = "server" => \E b \in Bot : row[b].session = k

\* Where nothing overlaps and no bot is deleted, a request for a bot knows its row.
LEMMA RowKnown ==
  ASSUME Snapshots, "overlap" \notin ops, "delete" \notin ops,
         NEW h \in Handler, call[h].at \in Reading, NEW b \in Bot
  PROVE  call[h].rows[b] = row[b]
<1> QED BY DEF Snapshots

\* What such a behaviour does leaves the signer of a bot as it is.
LEMMA SessionStays ==
  ASSUME Typed, Permitted, Snapshots, RowsWhole, [Next]_vars,
         Without({"overlap", "revoke", "recover", "delete"}),
         NEW b \in Bot, row[b].session # NoKey
  PROVE  row'[b].session = row[b].session
<1>1. \A x \in {"overlap", "revoke", "recover", "delete"} : x \notin ops
  BY DEF Without
<1>2. CASE row'[b] = row[b]
  BY <1>2
<1>3. CASE row'[b] # row[b]
  <2>1. ~DeleteBot(b)
    BY <1>1 DEF DeleteBot
  <2>2. PICK h \in Handler : Wrote(h, b)
    BY <1>3, <2>1, RowWritten, Writes
  <2>3. call[h].at # "bots"
    BY <1>1 DEF Permitted
  <2>4. CASE call[h].at = "setup"
    <3>1. call[h].rows[b] = row[b]
      BY <1>1, <2>4, RowKnown DEF Reading
    <3>2. Complete(row[b])
      BY <1>1 DEF RowsWhole, Complete
    <3> QED BY <2>2, <2>4, <3>1, <3>2 DEF Wrote
  <2> QED BY <2>2, <2>3, <2>4 DEF Wrote
<1> QED BY <1>2, <1>3

LEMMA KeysHeldStep ==
  ASSUME Typed, Targets, Permitted, Snapshots, RowsWhole, KeysHeld, [Next]_vars
  PROVE  KeysHeld'
<1> SUFFICES ASSUME Without({"overlap", "revoke", "recover", "delete"}),
                    NEW k \in Key, made'[k] = "server"
             PROVE  \E b \in Bot : row'[b].session = k
  BY Moves DEF KeysHeld, Without
<1>1. CASE made[k] = "server"
  <2>1. PICK b \in Bot : row[b].session = k
    BY <1>1 DEF KeysHeld
  <2>2. k # NoKey
    BY WalletAssumption
  <2> QED BY <2>1, <2>2, SessionStays
<1>2. CASE made[k] # "server"
  BY <1>2, ServerKeys
<1> QED BY <1>1, <1>2

\* The operations that may take the agent of a bot out of its row.
Calm == Without({"overlap", "revoke", "recover", "delete", "register"})

\* Every agent that is registered, or may yet be, is in a row.
AgentsHeld ==
  Calm =>
    /\ \A b \in Bot : IF row[b].session = NoKey THEN row[b].agent = NoKey
                                                ELSE row[b].agent = row[b].secret
    /\ \A t \in Tx : tx[t].register # NoKey => \E b \in Bot : row[b].agent = tx[t].register
    /\ \A a \in agents : \E b \in Bot : row[b].agent = a

LEMMA AgentStays ==
  ASSUME Typed, Permitted, Snapshots, RowsWhole, AgentsHeld, [Next]_vars, Calm, NEW b \in Bot
  PROVE  /\ row[b].agent # NoKey => row'[b].agent = row[b].agent
         /\ IF row'[b].session = NoKey THEN row'[b].agent = NoKey
                                       ELSE row'[b].agent = row'[b].secret
<1>1. \A x \in {"overlap", "revoke", "recover", "delete", "register"} : x \notin ops
  BY DEF Without, Calm
<1>2. CASE row'[b] = row[b]
  BY <1>2 DEF AgentsHeld
<1>3. CASE row'[b] # row[b]
  <2>1. ~DeleteBot(b)
    BY <1>1 DEF DeleteBot
  <2>2. PICK h \in Handler : Wrote(h, b)
    BY <1>3, <2>1, RowWritten, Writes
  <2>3. call[h].at # "bots" /\ call[h].at # "register"
    BY <1>1 DEF Permitted
  <2>4. CASE call[h].at = "setup"
    <3>1. call[h].rows[b] = row[b]
      BY <1>1, <2>4, RowKnown DEF Reading
    <3>2. row[b].session # NoKey => Complete(row[b])
      BY <1>1 DEF RowsWhole, Complete
    <3>3. row'[b].session # NoKey
      BY <2>2, <2>4, <3>1, WalletAssumption DEF Wrote, Complete
    <3> QED BY <2>2, <2>4, <3>1, <3>2, <3>3 DEF Wrote, AgentsHeld, Complete
  <2>5. CASE call[h].at \in {"session", "revoke", "save"}
    BY <2>2, <2>5 DEF Wrote, AgentsHeld
  <2> QED BY <2>2, <2>3, <2>4, <2>5 DEF Wrote
<1> QED BY <1>2, <1>3

LEMMA AgentsHeldStep ==
  ASSUME Typed, Targets, Permitted, Snapshots, RowsWhole, AgentsHeld, [Next]_vars
  PROVE  AgentsHeld'
<1> SUFFICES ASSUME Calm
             PROVE  /\ \A b \in Bot : IF row'[b].session = NoKey
                         THEN row'[b].agent = NoKey ELSE row'[b].agent = row'[b].secret
                    /\ \A t \in Tx : tx'[t].register # NoKey =>
                         \E b \in Bot : row'[b].agent = tx'[t].register
                    /\ \A a \in agents' : \E b \in Bot : row'[b].agent = a
  BY Moves DEF AgentsHeld, Calm, Without
<1>1. ASSUME NEW a, a # NoKey, \E b \in Bot : row[b].agent = a
      PROVE  \E b \in Bot : row'[b].agent = a
  BY <1>1, AgentStays
<1>2. ASSUME NEW t \in Tx, tx'[t].register # NoKey
      PROVE  \E b \in Bot : row'[b].agent = tx'[t].register
  <2>1. CASE tx'[t] = tx[t]
    BY <1>1, <1>2, <2>1 DEF AgentsHeld
  <2>2. ASSUME NEW h \in Handler, NEW a, NEW s, call[h].at = "setup", Offer(h, t, a, s)
        PROVE  \E b \in Bot : row'[b].agent = a
    <3>1. call[h].bot \in Bot
      BY <2>2 DEF Targets, Bound
    <3>2. row'[call[h].bot].agent = a
      BY <2>2, <3>1 DEF Offer, Typed
    <3> QED BY <3>1, <3>2
  <2>3. ~\E h \in Handler : call[h].at = "register"
    BY DEF Calm, Without, Permitted
  <2> QED BY <1>2, <2>1, <2>2, <2>3, OfferTx
<1>3. ASSUME NEW a \in agents'
      PROVE  \E b \in Bot : row'[b].agent = a
  <2>1. a \in agents \/ \E t \in Tx : Land(t) /\ a = tx[t].register /\ a # NoKey
    <3>1. ASSUME NEW t \in Tx, Land(t)
          PROVE  a \in agents \/ (a = tx[t].register /\ a # NoKey)
      BY <1>3, <3>1 DEF Land, chain, accounts
    <3>2. ASSUME NEW k \in Key, Trade(k)
          PROVE  a \in agents
      BY <1>3, <3>2 DEF Trade
    <3>3. CASE UNCHANGED accounts
      BY <1>3, <3>3 DEF chain, accounts
    <3> QED BY <3>1, <3>2, <3>3, Rest
  <2>2. a # NoKey
    BY <2>1, WalletAssumption DEF Typed
  <2>3. \E b \in Bot : row[b].agent = a
    BY <2>1 DEF AgentsHeld
  <2> QED BY <1>1, <2>2, <2>3
<1> QED BY <1>2, <1>3, AgentStays

\* The session a row names is that of its keys.
Matched ==
  "overlap" \notin ops /\ ~({"revoke", "session"} \subseteq ops) =>
    \A b \in Bot : row[b].session # NoKey /\ row[b].address # NoAddress =>
      row[b].address = << row[b].agent, row[b].session >>

LEMMA MatchedStep ==
  ASSUME Typed, Targets, Permitted, Asked, Snapshots, RowsWhole, Matched, [Next]_vars
  PROVE  Matched'
<1> SUFFICES ASSUME "overlap" \notin ops, "revoke" \notin ops \/ "session" \notin ops,
                    NEW b \in Bot, row'[b].session # NoKey, row'[b].address # NoAddress
             PROVE  row'[b].address = << row'[b].agent, row'[b].session >>
  BY Moves DEF Matched
<1>1. CASE row'[b] = row[b]
  BY <1>1 DEF Matched
<1>2. CASE row'[b] # row[b]
  <2>1. PICK h \in Handler : Wrote(h, b)
    BY <1>2, RowWritten, Writes DEF EmptyRow
  <2>2. CASE call[h].at = "setup"
    BY <2>1, <2>2 DEF Wrote
  <2>3. CASE call[h].at # "setup"
    <3>1. call[h].bot = b /\ row[b].session # NoKey
          /\ call[h].at \in {"register", "session", "save"}
      BY <2>1, <2>3 DEF Wrote, EmptyRow
    <3>2. call[h].rows[b] = row[b]
      BY <3>1 DEF Snapshots, Reading
    <3>3. call[h].at # "register"
      BY <3>1, <3>2 DEF Asked, RowsWhole
    <3>4. call[h].at # "session"
      BY <3>1, <3>2 DEF Asked, RowsWhole, Permitted
    <3> QED BY <2>1, <3>1, <3>2, <3>3, <3>4 DEF Wrote
  <2> QED BY <2>2, <2>3
<1> QED BY <1>1, <1>2

\* The address of the wallet is recorded before the keys of a signer are, and erased
\* before they are.
Recorded ==
  "overlap" \notin ops =>
    /\ \A h \in Handler : call[h].at = "setup" => recorded
    /\ ~({"recover", "fail"} \subseteq ops) =>
         \/ recorded \/ \E h \in Handler : call[h].at = "bots"
         \/ \A b \in Bot : row[b].session = NoKey

\* A recovery that is about to erase the rows does so or breaks off.
LEMMA BotsMove ==
  ASSUME Typed, Targets, Alone, "overlap" \notin ops, [Next]_vars,
         NEW h \in Handler, call[h].at = "bots"
  PROVE  call'[h] = call[h] \/ EraseBots(h) \/ Fail(h)
<1>1. call[h] # Idle
  BY DEF Idle
<1>2. ASSUME NEW i \in Handler, Move(i), call[i].at # "bots"
      PROVE  call'[h] = call[h]
  BY <1>2 DEF Move
<1>3. \A i \in Handler : ~Free(i)
  BY <1>1 DEF Free
<1>4. \A i \in Handler : call[i].at # "idle" => i = h
  BY <1>1 DEF Alone, Idle
<1>5. ASSUME NEW i \in Handler, NEW b \in Bot,
             BeginRegister(i, b) \/ BeginSession(i, b) \/ BeginSetup(i, b) \/ BeginRevoke(i, b)
      PROVE  FALSE
  BY <1>3, <1>5 DEF BeginRegister, BeginSession, BeginSetup, BeginRevoke, Begin
<1>6. ASSUME NEW i \in Handler, BeginRecover(i) \/ BeginWithdraw(i)
      PROVE  FALSE
  BY <1>3, <1>6 DEF BeginRecover, BeginWithdraw, Begin
<1>7. ASSUME NEW i \in Handler,
             \/ SetupOnward(i) \/ FinalizeRead(i) \/ FinalizeSent(i) \/ FinalizeSave(i)
             \/ Confirmed(i) \/ NotConfirmed(i) \/ EraseUser(i)
      PROVE  FALSE
  BY <1>4, <1>7 DEF SetupOnward, FinalizeRead, FinalizeSent, FinalizeSave, Confirmed,
                    NotConfirmed, EraseUser
<1>8. ASSUME NEW i \in Handler, EraseBots(i) \/ Fail(i)
      PROVE  EraseBots(h) \/ Fail(h)
  <2>1. call[i] # Idle
    BY <1>8 DEF EraseBots, Fail, Idle
  <2>2. i = h
    BY <1>1, <2>1 DEF Alone
  <2> QED BY <1>8, <2>2
<1>9. ASSUME NEW i \in Handler, NEW t \in Tx, NEW k, NEW bots, NEW read, NEW found,
             \/ SetupAgain(i, t) \/ FinalizeSend(i, t) \/ PrepareRevoke(i, t) \/ Submit(i, t)
             \/ PrepareRecover(i, t, read) \/ PrepareRegister(i, t, k)
             \/ PrepareSession(i, t, k) \/ SetupAfresh(i, t, k) \/ WithdrawSome(i, t, bots)
             \/ WithdrawAll(i, t, bots, read, found)
      PROVE  FALSE
  BY <1>3, <1>4, <1>9
  DEF SetupAgain, FinalizeSend, PrepareRevoke, Submit, PrepareRecover, Recover, PrepareRegister,
      PrepareSession, SetupAfresh, WithdrawSome, WithdrawAll
<1>10. ASSUME NEW t \in Tx, PrepareCreate(t) \/ Land(t)
       PROVE  call' = call
  BY <1>10 DEF PrepareCreate, Land
<1>11. ASSUME NEW b, DeleteBot(b)
       PROVE  call' = call
  BY <1>11 DEF DeleteBot
<1>12. ASSUME NEW k, Trade(k)
       PROVE  call' = call
  BY <1>12 DEF Trade
<1>13. CASE UNCHANGED vars
  BY <1>13 DEF vars
<1> QED
  BY <1>5, <1>6, <1>7, <1>8, <1>9, <1>10, <1>11, <1>12, <1>13 DEF Next

LEMMA RecordedStep ==
  ASSUME Typed, Targets, Permitted, Alone, Recorded, [Next]_vars
  PROVE  Recorded'
<1> SUFFICES ASSUME "overlap" \notin ops
             PROVE  /\ \A h \in Handler : call'[h].at = "setup" => recorded'
                    /\ ~({"recover", "fail"} \subseteq ops) =>
                         \/ recorded' \/ \E h \in Handler : call'[h].at = "bots"
                         \/ \A b \in Bot : row'[b].session = NoKey
  BY Moves DEF Recorded
<1>1. \A h, i \in Handler : call[h].at # "idle" /\ call[i].at # "idle" => h = i
  BY DEF Alone, Idle
<1>2. recorded => recorded' \/ \E i \in Handler : EraseUser(i)
  BY Rest DEF Typed
<1>3. ASSUME NEW h \in Handler, call'[h].at = "setup"
      PROVE  recorded'
  <2>1. CASE call'[h] = call[h]
    BY <1>1, <1>2, <1>3, <2>1 DEF Recorded, EraseUser
  <2>2. CASE Move(h)
    BY <1>3, <2>2 DEF Move, Starts, Continues, Submits, Begins, Goes, Idle
  <2> QED BY <2>1, <2>2, Moves DEF Move
<1>4. ASSUME ~({"recover", "fail"} \subseteq ops)
      PROVE  \/ recorded' \/ \E h \in Handler : call'[h].at = "bots"
             \/ \A b \in Bot : row'[b].session = NoKey
  <2>1. CASE recorded
    <3>1. ASSUME NEW i \in Handler, EraseUser(i)
          PROVE  call'[i].at = "bots"
      BY <3>1 DEF EraseUser, Typed, Requests
    <3> QED BY <1>2, <2>1, <3>1
  <2>2. ASSUME NEW h \in Handler, call[h].at = "bots"
        PROVE  call'[h].at = "bots" \/ \A b \in Bot : row'[b].session = NoKey
    <3>1. ~Fail(h)
      BY <1>4, <2>2 DEF Fail, Permitted
    <3>2. CASE EraseBots(h)
      BY <3>2 DEF EraseBots, EmptyRow
    <3> QED BY <2>2, <3>1, <3>2, BotsMove
  <2>3. CASE ~recorded /\ \A b \in Bot : row[b].session = NoKey
    <3> SUFFICES ASSUME NEW b \in Bot, row'[b].session # NoKey
                 PROVE  FALSE
      OBVIOUS
    <3>1. PICK h \in Handler : Wrote(h, b)
      BY <2>3, RowWritten, Writes DEF EmptyRow
    <3>2. call[h].at = "setup"
      BY <2>3, <3>1 DEF Wrote, EmptyRow
    <3> QED BY <2>3, <3>2 DEF Recorded
  <2> QED BY <1>4, <2>1, <2>2, <2>3 DEF Recorded
<1> QED BY <1>3, <1>4

\* The sessions there are, and those that transactions create, are of an agent and a key.
SessionsNamed ==
  /\ \A t \in Tx : tx[t].session = NoAddress \/ tx[t].session \in Key \X Key
  /\ sessions \subseteq Key \X Key

LEMMA SessionsNamedStep ==
  ASSUME Typed, Targets, Asked, SessionsNamed, [Next]_vars
  PROVE  SessionsNamed'
<1>1. ASSUME NEW t \in Tx, tx'[t] # tx[t]
      PROVE  tx'[t].session = NoAddress \/ tx'[t].session \in Key \X Key
  <2>1. PICK u \in Tx : Hand(u)
    BY <1>1, Hands
  <2>2. ASSUME NEW x, NEW as, NewTx(u, x, as)
        PROVE  tx'[t] = x
    BY <1>1, <2>2 DEF NewTx, Typed
  <2>3. ASSUME NEW h \in Handler, NEW a, NEW s, Offer(h, u, a, s)
        PROVE  tx'[t].session = NoAddress
    <3> DEFINE x == [RegisterAgent(a) EXCEPT !.create = ~open, !.fund = s, !.bot = call[h].bot]
    <3>1. NewTx(u, x, "prepared")
      BY <2>3 DEF Offer
    <3>2. x.session = NoAddress
      BY DEF RegisterAgent, Empty
    <3> HIDE DEF x
    <3> QED BY <2>2, <3>1, <3>2
  <2>4. \A k : RegisterAgent(k).session = NoAddress
    BY DEF RegisterAgent, Empty
  <2>5. \A y : CreateSession(y).session = y
    BY DEF CreateSession, Empty
  <2>6. tx' # tx
    BY <1>1
  <2>7. ASSUME NEW h \in Handler, FinalizeSend(h, u)
        PROVE  tx'[t].session \in Key \X Key
    <3> DEFINE r == call[h].rows[call[h].bot]
    <3>1. /\ NewTx(u, CreateSession(<< r.agent, r.session >>), "sent") /\ r.agent \in agents
          /\ call[h].at = "send"
      BY <2>6, <2>7 DEF FinalizeSend
    <3>2. r.session \in Keys /\ r.session # NoKey
      BY <3>1 DEF Targets, Bound, Asked, Typed, Requests, Rows
    <3>3. << r.agent, r.session >> \in Key \X Key
      BY <3>1, <3>2 DEF Typed, Keys
    <3>4. tx'[t].session = << r.agent, r.session >>
      BY <2>2, <2>5, <3>1
    <3> QED BY <3>3, <3>4
  <2>8. ASSUME NEW h \in Handler, NEW k \in Key, PrepareSession(h, u, k)
        PROVE  tx'[t].session \in Key \X Key
    <3> DEFINE y == << call[h].rows[call[h].bot].agent, k >>
    <3>1. NewTx(u, CreateSession(y), "prepared") /\ y[1] \in agents
      BY <2>6, <2>8 DEF PrepareSession
    <3>2. tx'[t].session = y
      BY <2>2, <2>5, <3>1
    <3> QED BY <3>1, <3>2 DEF Typed
  <2>9. ASSUME NEW h \in Handler, NEW k \in Key, PrepareRegister(h, u, k)
        PROVE  tx'[t].session = NoAddress
    <3>1. NewTx(u, RegisterAgent(k), "prepared")
      BY <2>6, <2>9 DEF PrepareRegister
    <3> QED BY <2>2, <2>4, <3>1
  <2>10. ASSUME NEW h \in Handler, NEW k \in Key, SetupAgain(h, u) \/ SetupAfresh(h, u, k)
         PROVE  tx'[t].session = NoAddress
    BY <2>3, <2>10 DEF SetupAgain, SetupAfresh
  <2>11. ASSUME NEW h \in Handler, SetupAgain(h, u)
         PROVE  tx'[t].session = NoAddress
    BY <2>3, <2>11 DEF SetupAgain
  <2> QED BY <2>1, <2>2, <2>7, <2>8, <2>9, <2>10, <2>11 DEF Hand
<1>2. sessions' \subseteq Key \X Key
  <2>1. ASSUME NEW t \in Tx, Land(t)
        PROVE  sessions' \subseteq Key \X Key
    BY <2>1 DEF Land, chain, accounts, SessionsNamed
  <2>2. ASSUME NEW k \in Key, Trade(k)
        PROVE  sessions' \subseteq Key \X Key
    BY <2>2 DEF Trade, SessionsNamed
  <2>3. CASE UNCHANGED accounts
    BY <2>3 DEF chain, accounts, SessionsNamed
  <2> QED BY <2>1, <2>2, <2>3, Rest
<1> QED BY <1>1, <1>2 DEF SessionsNamed

-----------------------------------------------------------------------------
(* What recoveries empty, and whose purses are whose *)

\* The keys of a session signer in a row are all of one keypair.
Pure(r) == r.session # NoKey => r.agent = r.session /\ r.secret = r.session

\* The requests that decide by the rows they have read whom to pay or to drain.
Planning == {"setup", "recover"}

PureRows == "overlap" \notin ops =>
  /\ \A b \in Bot : Pure(row[b])
  /\ \A h \in Handler, b \in Bot : call[h].at \in Planning => Pure(call[h].rows[b])

LEMMA PureRowsStep ==
  ASSUME Typed, Targets, Asked, Snapshots, RowsWhole, PureRows, [Next]_vars
  PROVE  PureRows'
<1> SUFFICES ASSUME "overlap" \notin ops
             PROVE  /\ \A b \in Bot : Pure(row'[b])
                    /\ \A h \in Handler, b \in Bot :
                         call'[h].at \in Planning => Pure(call'[h].rows[b])
  BY Moves DEF PureRows, Pure
<1>1. ASSUME NEW b \in Bot
      PROVE  Pure(row'[b])
  <2>1. CASE row'[b] = row[b]
    BY <2>1 DEF PureRows
  <2>2. CASE row'[b] # row[b] /\ row'[b].session # NoKey
    <3>1. PICK h \in Handler : Wrote(h, b)
      BY <2>2, RowWritten, Writes DEF EmptyRow
    <3>2. CASE call[h].at = "setup"
      <4>1. Pure(call[h].rows[b])
        BY <3>2 DEF PureRows, Planning
      <4> QED BY <2>2, <3>1, <3>2, <4>1 DEF Wrote, EmptyRow, Pure, Complete
    <3>3. CASE call[h].at = "register" /\ call[h].bot = b
      <4>1. call[h].rows[b].agent = NoKey
        BY <3>3 DEF Asked
      <4>2. call[h].rows[b] = row[b] \/ row[b].session = NoKey
        BY <3>3 DEF Snapshots, Reading
      <4>3. row[b].session = NoKey
        BY <4>1, <4>2 DEF RowsWhole
      <4> QED BY <2>2, <3>1, <3>3, <4>3 DEF Wrote, EmptyRow
    <3>4. CASE call[h].at \in {"session", "revoke", "save"}
      BY <3>1, <3>4 DEF Wrote, PureRows, Pure
    <3> QED BY <2>2, <3>1, <3>2, <3>3, <3>4 DEF Wrote, EmptyRow
  <2> QED BY <2>1, <2>2 DEF Pure
<1>2. ASSUME NEW h \in Handler, NEW b \in Bot, call'[h].at \in Planning
      PROVE  Pure(call'[h].rows[b])
  <2>1. CASE call'[h] = call[h]
    BY <1>2, <2>1 DEF PureRows
  <2>2. CASE Move(h)
    <3>1. call'[h] # Idle
      BY <1>2 DEF Planning, Idle
    <3>2. call'[h].rows = row
      BY <1>2, <2>2, <3>1 DEF Move, Starts, Continues, Submits, Begins, Goes, Planning
    <3> QED BY <3>2 DEF PureRows
  <2> QED BY <2>1, <2>2, Moves DEF Move
<1> QED BY <1>1, <1>2

\* What becomes of the transactions, and by which steps.
LEMMA Statuses ==
  ASSUME [Next]_vars
  PROVE  \/ UNCHANGED status
         \/ \E u \in Tx : \E as \in {"prepared", "sent"} :
              status[u] = "none" /\ status' = [status EXCEPT ![u] = as]
         \/ \E u \in Tx : Land(u)
         \/ \E h \in Handler, u \in Tx : Submit(h, u)
<1>1. ASSUME NEW h \in Handler, NEW b \in Bot,
             BeginRegister(h, b) \/ BeginSession(h, b) \/ BeginSetup(h, b) \/ BeginRevoke(h, b)
      PROVE  UNCHANGED status
  BY <1>1 DEF BeginRegister, BeginSession, BeginSetup, BeginRevoke
<1>2. ASSUME NEW h \in Handler,
             \/ BeginRecover(h) \/ BeginWithdraw(h) \/ SetupOnward(h) \/ FinalizeRead(h)
             \/ FinalizeSent(h) \/ FinalizeSave(h) \/ Confirmed(h) \/ NotConfirmed(h)
             \/ EraseUser(h) \/ EraseBots(h) \/ Fail(h)
      PROVE  UNCHANGED << tx, status, made >>
  BY <1>2 DEF BeginRecover, BeginWithdraw, SetupOnward, FinalizeRead, FinalizeSent,
              FinalizeSave, Confirmed, NotConfirmed, EraseUser, EraseBots, Fail
<1> DEFINE Handed == \E u \in Tx : \E as \in {"prepared", "sent"} :
                       status[u] = "none" /\ status' = [status EXCEPT ![u] = as]
<1>3. ASSUME NEW h \in Handler, NEW u \in Tx, NEW bots, NEW read, NEW found,
             \/ PrepareRevoke(h, u) \/ PrepareRecover(h, u, read) \/ WithdrawSome(h, u, bots)
             \/ WithdrawAll(h, u, bots, read, found) \/ FinalizeSend(h, u)
      PROVE  UNCHANGED status \/ Handed
  BY <1>3 DEF PrepareRevoke, PrepareRecover, Recover, WithdrawSome, WithdrawAll, FinalizeSend, NewTx
<1>4. ASSUME NEW h \in Handler, NEW u \in Tx, NEW k \in Key,
             PrepareRegister(h, u, k) \/ PrepareSession(h, u, k) \/ SetupAfresh(h, u, k)
      PROVE  UNCHANGED status \/ Handed
  BY <1>4 DEF PrepareRegister, PrepareSession, SetupAfresh, Offer, NewTx
<1>5. ASSUME NEW h \in Handler, NEW u \in Tx, SetupAgain(h, u)
      PROVE  Handed
  BY <1>5 DEF SetupAgain, Offer, NewTx
<1>6. ASSUME NEW u \in Tx, PrepareCreate(u)
      PROVE  Handed
  BY <1>6 DEF PrepareCreate, NewTx
<1>7. ASSUME NEW b \in Bot, DeleteBot(b)
      PROVE  UNCHANGED status
  BY <1>7 DEF DeleteBot
<1>8. ASSUME NEW k \in Key, Trade(k)
      PROVE  UNCHANGED status
  BY <1>8 DEF Trade
<1>9. CASE UNCHANGED vars
  BY <1>9 DEF vars
<1> HIDE DEF Handed
<1>10. ASSUME Next
      PROVE  \/ UNCHANGED status \/ Handed \/ \E u \in Tx : Land(u)
             \/ \E h \in Handler, u \in Tx : Submit(h, u)
  BY <1>1, <1>2, <1>3, <1>4, <1>5, <1>6, <1>7, <1>8, <1>10 DEF Next
<1> QED BY <1>9, <1>10 DEF Handed

\* A transaction that was handed out is signed, or takes effect, or nothing becomes of it.
LEMMA StatusStep ==
  ASSUME Typed, [Next]_vars, NEW t \in Tx, status[t] # "none"
  PROVE  \/ status'[t] = status[t] \/ Land(t)
         \/ status[t] = "prepared" /\ status'[t] = "sent"
<1>1. ASSUME NEW u \in Tx, Land(u)
      PROVE  u = t \/ status'[t] = status[t]
  BY <1>1 DEF Land, Typed
<1>2. ASSUME NEW h \in Handler, NEW u \in Tx, Submit(h, u)
      PROVE  status'[t] = status[t] \/ (status[t] = "prepared" /\ status'[t] = "sent")
  BY <1>2 DEF Submit, Typed
<1>3. ASSUME NEW u \in Tx, NEW as \in {"prepared", "sent"},
             status[u] = "none", status' = [status EXCEPT ![u] = as]
      PROVE  status'[t] = status[t]
  BY <1>3 DEF Typed
<1> QED BY <1>1, <1>2, <1>3, Statuses

\* What was paid to an agent signer was paid to that of a key the server made: it is
\* the key of the session signer the same transaction pays.
PursesMade == "overlap" \notin ops =>
  /\ \A t \in Tx : tx[t].fund # NoKey => tx[t].register = tx[t].fund
  /\ \A k \in purses : made[k] = "server"

LEMMA PursesMadeStep ==
  ASSUME Typed, Targets, KeysMade, PureRows, PursesMade, [Next]_vars
  PROVE  PursesMade'
<1> SUFFICES ASSUME "overlap" \notin ops
             PROVE  /\ \A t \in Tx : tx'[t].fund # NoKey => tx'[t].register = tx'[t].fund
                    /\ \A k \in purses' : made'[k] = "server"
  BY Moves DEF PursesMade
<1>1. ASSUME NEW t \in Tx, tx'[t].fund # NoKey
      PROVE  tx'[t].register = tx'[t].fund
  <2>1. CASE tx'[t] = tx[t]
    BY <1>1, <2>1 DEF PursesMade
  <2>2. ASSUME NEW h \in Handler, call[h].at = "setup", Complete(call[h].rows[call[h].bot])
        PROVE  call[h].rows[call[h].bot].secret = call[h].rows[call[h].bot].session
    BY <2>2 DEF Targets, Bound, PureRows, Pure, Planning, Complete
  <2> QED BY <1>1, <2>1, <2>2, OfferTx
<1>2. ASSUME NEW k \in purses'
      PROVE  made'[k] = "server"
  <2>1. k \in Key /\ made[k] = "server" => made'[k] = "server"
    BY Lasting
  <2>2. ASSUME NEW t \in Tx, Land(t)
        PROVE  k \in purses \/ (tx[t].fund # NoKey /\ k = tx[t].register)
    BY <1>2, <2>2 DEF Land, chain, accounts
  <2>3. ASSUME NEW t \in Tx, tx[t].fund # NoKey, k = tx[t].register
        PROVE  k \in Key /\ made[k] = "server"
    <3>1. k = tx[t].fund /\ tx[t].fund \in Keys
      BY <2>3 DEF PursesMade, Typed, Contents
    <3> QED BY <2>3, <3>1 DEF KeysMade, Keys
  <2>4. k \in purses => k \in Key /\ made[k] = "server"
    BY DEF PursesMade, Typed
  <2>5. ASSUME NEW j \in Key, Trade(j)
        PROVE  k \in purses
    BY <1>2, <2>5 DEF Trade
  <2>6. CASE UNCHANGED accounts
    BY <1>2, <2>1, <2>4, <2>6 DEF accounts
  <2> QED BY <2>1, <2>2, <2>3, <2>4, <2>5, <2>6, Rest
<1> QED BY <1>1, <1>2

\* A recovery that was handed out drains a signer of all it holds, and leaves it nothing
\* when it takes effect, unless it missed it.
Kept == \A t \in Tx : tx[t].recovery =>
  /\ status[t] # "none"
  /\ \A k \in Key \ missed[t] :
       /\ status[t] \in {"prepared", "sent"} => funds[k] <= tx[t].drain[k]
       /\ status[t] = "landed" => funds[k] = 0

\* A recovery as it is handed out.
LEMMA KeptFresh ==
  ASSUME Typed, NEW h \in Handler, NEW t \in Tx, NEW read, PrepareRecover(h, t, read),
         NEW u \in Tx, tx'[u] # tx[u]
  PROVE  /\ u = t /\ status'[u] = "prepared" /\ UNCHANGED funds
         /\ \A k \in Key \ missed'[u] : funds[k] <= tx'[u].drain[k]
<1> DEFINE r == call[h].rows
           known == { k \in read : \E b \in Bot : r[b].session = k }
           drain == Balances(r, Bot, read)
           x == [CloseWallet(drain, open, { r[b].agent : b \in Bot } \cap agents)
                   EXCEPT !.recovery = TRUE]
<1>1. NewTx(t, x, "prepared") /\ missed' = [missed EXCEPT ![t] = Key \ known]
      /\ UNCHANGED accounts
  <2>1. tx' # tx
    OBVIOUS
  <2> QED BY <2>1 DEF PrepareRecover, Recover
<1>2. x.drain = drain
  BY DEF CloseWallet, Empty
<1>3. \A k \in Key : k \in known => drain[k] = funds[k]
  BY DEF Balances
<1>4. \A k \in Key : funds[k] <= funds[k]
  BY WalletAssumption DEF Typed
<1> HIDE DEF x, drain, known
<1>5. u = t /\ tx'[u] = x /\ status'[u] = "prepared" /\ missed'[u] = Key \ known
  BY <1>1 DEF NewTx, Typed
<1> QED BY <1>1, <1>2, <1>3, <1>4, <1>5 DEF accounts

\* A signer that no recovery has missed is not paid, so it holds no more than before;
\* what the recovery drains it of is what it held.
LEMMA KeptLanding ==
  ASSUME Typed, Kept, NEW u \in Tx, Land(u), NEW t \in Tx, tx[t].recovery,
         NEW k \in Key \ missed'[t]
  PROVE  /\ k \notin missed[t]
         /\ funds'[k] \in 0 .. funds[k]
         /\ u = t /\ status'[t] = "landed" => funds'[k] = 0
<1> DEFINE x == tx[u]
<1>1. /\ k \in Key /\ funds[k] \in 0 .. MaxFunds /\ x.drain[k] \in 0 .. MaxFunds
      /\ MaxFunds \in Nat
  BY WalletAssumption DEF Typed, Contents
<1>2. CASE ~Valid(x)
  <2>1. UNCHANGED chain /\ status' = [status EXCEPT ![u] = "failed"]
    BY <1>2 DEF Land
  <2>2. missed' = missed /\ funds' = funds
    BY <2>1 DEF chain, accounts
  <2>3. u = t => status'[t] # "landed"
    BY <2>1 DEF Typed
  <2> QED BY <1>1, <2>2, <2>3
<1>3. CASE Valid(x)
  <2>1. Paid({x.fund} \ {NoKey})
    BY <1>3 DEF Land
  <2>2. k \notin missed[t] /\ k # x.fund
    <3>1. missed'[t] = missed[t] \cup ({x.fund} \ {NoKey})
      BY <2>1 DEF Paid
    <3> QED BY <1>1, <3>1, WalletAssumption
  <2>3. funds'[k] = funds[k] - x.drain[k]
    BY <1>1, <1>3, <2>2 DEF Land
  <2>4. x.drain[k] <= funds[k]
    BY <1>1, <1>3 DEF Valid
  <2>5. u = t => funds[k] <= x.drain[k]
    <3>1. status[u] = "sent"
      BY DEF Land
    <3> QED BY <1>1, <2>2, <3>1 DEF Kept
  <2> QED BY <1>1, <2>2, <2>3, <2>4, <2>5
<1> QED BY <1>2, <1>3

LEMMA KeptTrading ==
  ASSUME Typed, NEW j \in Key, Trade(j), NEW t \in Tx, tx[t].recovery,
         NEW k \in Key \ missed'[t]
  PROVE  k \notin missed[t] /\ funds'[k] \in 0 .. funds[k]
<1>1. PICK n \in 0 .. MaxFunds : /\ funds' = [funds EXCEPT ![j] = n]
                                /\ Paid(IF n > funds[j] THEN {j} ELSE {})
  BY DEF Trade
<1>2. k \in Key /\ funds[k] \in 0 .. MaxFunds /\ MaxFunds \in Nat /\ n \in Nat
  BY WalletAssumption DEF Typed
<1>3. missed'[t] = missed[t] \cup (IF n > funds[j] THEN {j} ELSE {})
  BY <1>1 DEF Paid
<1>4. k = j => ~(n > funds[j])
  BY <1>2, <1>3
<1> QED BY <1>1, <1>2, <1>3, <1>4 DEF Typed

LEMMA KeptStep ==
  ASSUME Typed, Kept, [Next]_vars
  PROVE  Kept'
<1> SUFFICES ASSUME NEW t \in Tx, tx'[t].recovery
             PROVE  /\ status'[t] # "none"
                    /\ \A k \in Key \ missed'[t] :
                         /\ status'[t] \in {"prepared", "sent"} => funds'[k] <= tx'[t].drain[k]
                         /\ status'[t] = "landed" => funds'[k] = 0
  BY DEF Kept
<1>1. CASE tx'[t] # tx[t]
  <2>1. PICK h \in Handler, read \in Readable : PrepareRecover(h, t, read)
    BY <1>1, RecoveryAsked
  <2> QED BY <1>1, <2>1, KeptFresh
<1>2. CASE tx'[t] = tx[t]
  <2>1. tx[t].recovery /\ status[t] # "none" /\ status'[t] # "none"
    BY <1>2, Lasting DEF Kept
  <2> SUFFICES ASSUME NEW k \in Key \ missed'[t]
               PROVE  /\ status'[t] \in {"prepared", "sent"} => funds'[k] <= tx[t].drain[k]
                      /\ status'[t] = "landed" => funds'[k] = 0
    BY <1>2, <2>1
  <2>2. funds[k] \in Nat /\ tx[t].drain[k] \in Nat
    BY WalletAssumption DEF Typed, Contents
  <2>3. k \notin missed[t] /\ funds'[k] \in 0 .. funds[k]
    <3>1. ASSUME NEW u \in Tx, Land(u)
          PROVE  k \notin missed[t] /\ funds'[k] \in 0 .. funds[k]
      BY <2>1, <3>1, KeptLanding
    <3>2. ASSUME NEW j \in Key, Trade(j)
          PROVE  k \notin missed[t] /\ funds'[k] \in 0 .. funds[k]
      BY <2>1, <3>2, KeptTrading
    <3>3. CASE UNCHANGED chain
      BY <2>2, <3>3 DEF chain, accounts
    <3>4. ASSUME NEW h \in Handler, NEW u \in Tx, NEW read, PrepareRecover(h, u, read)
          PROVE  k \notin missed[t] /\ funds'[k] \in 0 .. funds[k]
      <4>1. UNCHANGED accounts
        BY <3>4 DEF PrepareRecover, Recover
      <4>2. missed' = missed \/ (status[u] = "none" /\ \E s : missed' = [missed EXCEPT ![u] = s])
        BY <3>4 DEF PrepareRecover, Recover, NewTx
      <4>3. missed'[t] = missed[t] /\ UNCHANGED funds
        BY <2>1, <4>1, <4>2 DEF accounts, Typed
      <4> QED BY <2>2, <4>3
    <3> QED BY <3>1, <3>2, <3>3, <3>4, Rest
  <2>4. /\ status[t] \in {"prepared", "sent"} => funds[k] <= tx[t].drain[k]
        /\ status[t] = "landed" => funds[k] = 0
    BY <2>1, <2>3 DEF Kept
  <2>5. CASE Land(t)
    <3>1. status[t] = "sent" /\ status'[t] \in {"landed", "failed"}
      BY <2>5 DEF Land, Typed
    <3> QED BY <2>1, <2>5, <3>1, KeptLanding
  <2>6. CASE status'[t] = status[t] \/ (status[t] = "prepared" /\ status'[t] = "sent")
    BY <2>2, <2>3, <2>4, <2>6
  <2> QED BY <2>1, <2>5, <2>6, StatusStep
<1> QED BY <1>1, <1>2

\* A request that erases the rows has seen its recovery take effect.
Erasing == \A h \in Handler : call[h].at \in {"user", "bots"} =>
  call[h].tx \in Tx /\ tx[call[h].tx].recovery /\ status[call[h].tx] = "landed"

LEMMA ErasingStep ==
  ASSUME Typed, Targets, Erasing, [Next]_vars
  PROVE  Erasing'
<1> SUFFICES ASSUME NEW h \in Handler, call'[h].at \in {"user", "bots"}
             PROVE  /\ call'[h].tx \in Tx /\ tx'[call'[h].tx].recovery
                    /\ status'[call'[h].tx] = "landed"
  BY DEF Erasing
<1>1. /\ call'[h].tx \in Tx /\ tx[call'[h].tx].recovery
      /\ status[call'[h].tx] = "landed"
  <2>1. CASE call'[h] = call[h]
    BY <2>1 DEF Erasing
  <2>2. CASE Move(h)
    <3>1. call'[h] # Idle
      BY DEF Idle
    <3>2. /\ call[h].at \in {"await", "user"} /\ call'[h].tx = call[h].tx
          /\ call[h].at = "await" =>
               tx[call[h].tx].recovery /\ status[call[h].tx] = "landed"
      BY <2>2, <3>1 DEF Move, Starts, Continues, Submits, Begins, Goes
    <3> QED BY <3>2 DEF Erasing, Targets
  <2> QED BY <2>1, <2>2, Moves DEF Move
<1>2. \A t \in Tx : status[t] = "landed" => status'[t] = "landed" /\ tx'[t] = tx[t]
  <2>1. \A t \in Tx : Land(t) => status[t] = "sent"
    BY DEF Land
  <2> QED BY <2>1, StatusStep, Lasting
<1> QED BY <1>1, <1>2

-----------------------------------------------------------------------------
(* The theorems *)

IInv ==
  /\ Typed /\ Targets /\ Asked /\ Permitted /\ Alone
  /\ Snapshots /\ RowsWhole /\ KeysMade /\ KeysHeld
  /\ AgentsHeld /\ Matched /\ Recorded /\ SessionsNamed
  /\ PureRows /\ PursesMade /\ Kept /\ Erasing

LEMMA InvInit == Init => IInv
<1> SUFFICES ASSUME Init PROVE IInv
  OBVIOUS
<1>1. Typed
  BY TypedInit
<1>2. \A h \in Handler : call[h] = Idle /\ call[h].at = "idle"
  BY DEF Init, Idle
<1>3. \A b \in Bot : /\ row[b] = EmptyRow /\ row[b].session = NoKey /\ row[b].agent = NoKey
                     /\ Idle.rows[b].session = NoKey
  BY DEF Init, Idle, EmptyRow
<1>4. \A t \in Tx : /\ tx[t].fund = NoKey /\ tx[t].register = NoKey
                    /\ tx[t].session = NoAddress /\ ~tx[t].recovery
  BY DEF Init, Empty
<1>5. Targets /\ Asked /\ Alone
  BY <1>2 DEF Targets, Bound, Asked, Alone
<1>6. Permitted
  BY <1>2, <1>4 DEF Permitted
<1>7. Snapshots /\ RowsWhole /\ Matched /\ Recorded
  BY <1>2, <1>3 DEF Snapshots, Reading, RowsWhole, Matched, Recorded
<1>8. (\A k \in Key : ~(funds[k] > 0) /\ made[k] = "none") /\ agents = {} /\ sessions = {}
  BY DEF Init
<1>9. KeysMade /\ KeysHeld /\ AgentsHeld /\ SessionsNamed
  BY <1>2, <1>3, <1>4, <1>8 DEF KeysMade, KeysHeld, AgentsHeld, SessionsNamed
<1>10. PureRows /\ PursesMade /\ Kept /\ Erasing
  <2>1. purses = {}
    BY DEF Init
  <2> QED BY <1>2, <1>3, <1>4, <2>1 DEF PureRows, Pure, Planning, PursesMade, Kept, Erasing
<1> QED BY <1>1, <1>5, <1>6, <1>7, <1>9, <1>10 DEF IInv

LEMMA InvStep == IInv /\ [Next]_vars => IInv'
<1> SUFFICES ASSUME IInv, [Next]_vars PROVE IInv'
  OBVIOUS
<1> USE DEF IInv
<1>1. Typed' /\ Targets' /\ Asked'
  BY TypedStep, TargetsStep, AskedStep
<1>2. Permitted' /\ Alone' /\ Snapshots'
  BY PermittedStep, AloneStep, SnapshotsStep
<1>3. RowsWhole' /\ KeysMade' /\ KeysHeld'
  BY RowsWholeStep, KeysMadeStep, KeysHeldStep
<1>4. AgentsHeld' /\ Matched'
  BY AgentsHeldStep, MatchedStep
<1>5. Recorded' /\ SessionsNamed'
  BY RecordedStep, SessionsNamedStep
<1>6. PureRows' /\ PursesMade'
  BY PureRowsStep, PursesMadeStep
<1>7. Kept' /\ Erasing'
  BY KeptStep, ErasingStep
<1> QED BY <1>1, <1>2, <1>3, <1>4, <1>5, <1>6, <1>7

\* The three facts above make IInv an invariant.
LEMMA Invariance == Spec => []IInv
<1> QED BY InvInit, InvStep, PTL DEF Spec

\* Every variable keeps its type (the handlers of wallet.ts write records of the shape
\* that the rows of the bots have).
THEOREM TypeCorrect == Spec => []TypeOK
<1>1. IInv => TypeOK
  BY DEF IInv, Typed, SessionsNamed, TypeOK, Requests, Places, Contents
<1> QED BY <1>1, Invariance, PTL

\* Whatever a session signer holds, its key is in the row of a bot, and so is that of an
\* agent signer that was paid, unless requests overlap, a session is revoked, a wallet
\* recovered or a bot deleted (wallet.ts:1359-1425, 1502-1522).
THEOREM FundsAreReachable == Spec => []FundsReachable
<1>1. ASSUME IInv, Without({"overlap", "revoke", "recover", "delete"})
      PROVE  /\ \A k \in Key : funds[k] > 0 => \E b \in Bot : row[b].session = k
             /\ \A k \in purses : \E b \in Bot : row[b].secret = k
  <2>1. \A k \in Key : made[k] = "server" => \E b \in Bot : row[b].session = k
    BY <1>1 DEF IInv, KeysHeld
  <2>2. \A k \in Key : funds[k] > 0 => made[k] = "server"
    BY <1>1 DEF IInv, KeysMade
  <2>3. ASSUME NEW k \in purses
        PROVE  \E b \in Bot : row[b].secret = k
    <3>1. "overlap" \notin ops
      BY <1>1 DEF Without
    <3>2. k \in Key /\ made[k] = "server" /\ k # NoKey
      BY <1>1, <3>1, WalletAssumption DEF IInv, Typed, PursesMade
    <3>3. \A b \in Bot : Pure(row[b])
      BY <1>1, <3>1 DEF IInv, PureRows
    <3> QED BY <2>1, <3>2, <3>3 DEF Pure
  <2> QED BY <2>1, <2>2, <2>3
<1>2. IInv => FundsReachable
  BY <1>1 DEF FundsReachable
<1> QED BY <1>2, Invariance, PTL

\* Every registered agent is in the row of a bot, unless one of these happens or an app
\* registers agents of its own (wallet.ts:1386-1425).
THEOREM AgentsAreKnown == Spec => []AgentsKnown
<1>1. IInv => AgentsKnown
  BY DEF IInv, AgentsHeld, Calm, AgentsKnown
<1> QED BY <1>1, Invariance, PTL

\* The session a row names is that of the keys in it, and the address of the wallet is
\* recorded for as long as there is one, if requests do not overlap (wallet.ts:866-872,
\* wallet.ts:1544-1554, wallet.ts:2184-2207).
THEOREM RowsMatchKeys == Spec => []RowMatchesKeys
<1>1. IInv => RowMatchesKeys
  BY DEF IInv, Matched, Recorded, RowMatchesKeys, Without
<1> QED BY <1>1, Invariance, PTL

\* Whatever else happens, a recovery erases no key of a session signer that still holds
\* something but of one that it missed: one that was not in the rows it read, whose balance it
\* could not read, or that was paid after that (wallet.ts:2184-2207).  Until it takes
\* effect it drains every other signer of at least what that holds, so it empties them.
THEOREM ErasureLosesNothing == Spec => []EraseLosesNothing
<1>1. IInv => EraseLosesNothing
  <2> SUFFICES ASSUME IInv,
                      NEW h \in Handler, call[h].at \in {"user", "bots"},
                      NEW b \in Bot, row[b].session # NoKey,
                      row[b].session \notin missed[call[h].tx]
               PROVE  funds[row[b].session] = 0
    BY DEF EraseLosesNothing
  <2>1. row[b].session \in Key
    BY DEF IInv, Typed, Rows, Keys
  <2> QED BY <2>1 DEF IInv, Erasing, Kept
<1> QED BY <1>1, Invariance, PTL

===============================================================================
