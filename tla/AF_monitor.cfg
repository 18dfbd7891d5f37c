CONSTANTS
  Mine = {1}
  Theirs = {2}
  Banned = {}
  Agents = {1, 2}
  Traffic = {"click", "mesh", "restart", "raise", "spawnfail", "ps", "killed"}
  MaxEvents = 2
  MaxFaults = 1
  NoCache = NoCache
  NoRecord = NoRecord
SPECIFICATION MCSpec
CHECK_DEADLOCK FALSE
PROPERTY OnlyYoungMissed
PROPERTY BackoffKept
PROPERTY OwedIsDispatched
