SPECIFICATION MCSpec
CONSTANTS
  emu = emu
  box = box
  Device = {emu, box}
  Apple = {}
  Vega = {box}
  Agent = {a1, a2}
  Call = {c1, c2}
  Slot = {1,2,3}
  Quota = 1
  Requirements <- Emulators
  AutoRepair = FALSE
  Sequential = TRUE
  UserRunning = {emu}
  Traffic = {"kill", "claim", "change", "sigterm", "exit"}
  NoDevice = NoDevice
  NoAgent = NoAgent
  NoCall = NoCall
  NoId = NoId
  NoLease = NoLease
  author = author
  other = other
  Daemon = {1, 2}
  Client = {a1, a2}
  Login = {author, other}
  DaemonFaults = {"crash", "leave", "slow", "unban", "tear", "misread"}
  MaxBanFaults = 1
  Thread = {1, 2}
  SetupTraffic = {"npm", "restart", "timeout"}
  MaxWrites = 1
  MaxSetupFaults = 1
  MaxStarts = 2
  a1 = a1
  a2 = a2
SYMMETRY Symmetry
INVARIANT SoleDaemon
INVARIANT BansKept
INVARIANT ConfigKept
INVARIANT ChoiceStands
PROPERTY AdmitUnderQuota
PROPERTY StopsOnlyFree
CHECK_DEADLOCK FALSE
