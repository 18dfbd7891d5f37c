SPECIFICATION MCSpec
CONSTANTS
  k = k
  Executor = {e1, e2}
  Dispatch = {1}
  Key = {k}
  KeyOf <- SameKey
  Distrusting = {e1, e2}
  MaxTombs = 1
  Traffic = {"drop", "timeout"}
  MaxExtensions = 0
  MaxLinks = 2
  Nobody = Nobody
  NoEntry = NoEntry
  Idle = Idle
  Host = Host
CHECK_DEADLOCK FALSE
PROPERTY ActOnce
