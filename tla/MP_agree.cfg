SPECIFICATION MCSpec
CONSTANTS
  Node = {1, 2, 3}
  Duty = {d1, d2}
  Policy = {p}
  Default = Default
  Traffic = {"unlink", "restart", "forget", "stranger"}
  Unstable = {1}
  MaxEdits = 2
  MaxLinks = 2
  NoStats = NoStats
  Fingerprint = {1, 2}
  TrustTraffic = {"trust", "crash", "env", "full"}
  BudgetTraffic = {"tokens", "crash"}
  MaxTrustCmds = 3
  MaxBudgetCmds = 4
  MaxStateFaults = 2
  MaxTurns = 5
  MaxRebuilds = 2
CHECK_DEADLOCK FALSE
INVARIANT LinkedAgree
INVARIANT DispatchedAsShown
INVARIANT OperatorsWord
INVARIANT PeersKnowBudget
INVARIANT BeaconsSettle
PROPERTY OnlyTheLostMoves
