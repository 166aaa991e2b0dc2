SPECIFICATION Spec
CONSTANTS
  Bot = {b1, b2}
  Key = {k1, k2}
  Handler = {h1, h2}
  Tx = {t1, t2, t3, t4}
  Deposit = 1
  MaxFunds = 2
  Scenarios <- MCScenarios
  NoKey = NoKey
  NoBot = NoBot
  NoTx = NoTx
SYMMETRY Symmetry
INVARIANTS
  FundsReachable
  AgentsKnown
  RowMatchesKeys
  EraseLosesNothing
CHECK_DEADLOCK FALSE
