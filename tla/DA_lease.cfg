SPECIFICATION MCSpec
CONSTANTS
  sim = sim
  emu = emu
  Device = {sim, emu}
  Apple = {sim}
  Vega = {}
  Agent = {a1, a2}
  Call = {c1, c2}
  Slot = {1, 2, 3, 4}
  Quota = 2
  Requirements <- AnyDevice
  AutoRepair = FALSE
  Sequential = TRUE
  UserRunning = {}
  Traffic = {"claim", "release", "exit", "death", "crash"}
  NoDevice = NoDevice
  NoAgent = NoAgent
  NoCall = NoCall
  NoId = NoId
  NoLease = NoLease
SYMMETRY Symmetry
INVARIANT ToldIsHeld
INVARIANT SavedCoversTable
PROPERTY ImplementsLeaseService
PROPERTY QuarantineHolds
