SPECIFICATION ProgressSpec
CONSTANTS
  sim = sim
  emu = emu
  Device = {sim}
  Apple = {sim}
  Vega = {}
  Agent = {a1, a2}
  Call = {c1, c2}
  Slot = {1, 2, 3}
  Quota = 1
  Requirements <- Simulators
  AutoRepair = FALSE
  Sequential = TRUE
  UserRunning = {}
  Traffic = {"change", "broken", "death"}
  NoDevice = NoDevice
  NoAgent = NoAgent
  NoCall = NoCall
  NoId = NoId
  NoLease = NoLease
  NoFile = NoFile
  Unoccupied = Unoccupied
PROPERTY DeadOwnersReclaimed
PROPERTY CallsAnswered
PROPERTY ViewCatchesUp
CHECK_DEADLOCK FALSE
