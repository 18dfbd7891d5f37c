SPECIFICATION MCSpec
CONSTANTS
  k = k
  Executor = {e1}
  Dispatch = {1, 2}
  Key = {k}
  KeyOf <- SameKey
  Distrusting = {e1}
  MaxTombs = 1
  Traffic = {"drop", "timeout", "late", "giveup", "crash", "reap", "operator"}
  MaxExtensions = 1
  MaxLinks = 2
  Nobody = Nobody
  NoEntry = NoEntry
  Idle = Idle
  Host = Host
CHECK_DEADLOCK FALSE
INVARIANT ActsAtMostOnce
PROPERTY ClosedIsClosed
PROPERTY HonestSpared
