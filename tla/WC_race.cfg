SPECIFICATION MCSpec
CONSTANTS
  Node = {1, 2}
  Key = {k}
  Personal <- Everyone
  Scans = {TRUE}
  Cap = 1
  Joined = TRUE
  Traffic = {"connect", "drop", "timeout", "refuse"}
  Callers = {}
  MaxEpoch = 2
  MaxJobs = 1
  MaxSpawns = 2
  MaxSeq = 0
  NoClaim = NoClaim
  NoRoute = NoRoute
CHECK_DEADLOCK FALSE
INVARIANT CopiesAgree
INVARIANT OneAgentPerHost
INVARIANT SentinelIsOwn
PROPERTY NobodyYieldsToNobody
INVARIANT HolderBacked
