SPECIFICATION MCSpec
CONSTANTS
  Proc = {1, 2, 3}
  Traffic = {"old", "stop", "quit", "crash", "recycle", "update"}
  MaxStarts = 2
  Pane = {1}
  MaxBackoff = 3
  Ttl = 2
  Retry = 1
  Keep = 2
  Every = 1
  Span = 2
  MaxTime = 5
  MaxJobs = 2
  job1 = job1
  NoClaim = NoClaim
  NoRoute = NoRoute
  e1 = e1
  Nobody = Nobody
  NoEntry = NoEntry
  Unoccupied = Unoccupied
  Host = Host
CHECK_DEADLOCK FALSE
PROPERTY HandsOver
INVARIANT SoleInstance
INVARIANT InnocentsSpared
PROPERTY PairSuppressionEnds
PROPERTY ForeignExchangesEnd
PROPERTY NudgeIsDue
INVARIANT RealIsFresh
INVARIANT LedgerKept
