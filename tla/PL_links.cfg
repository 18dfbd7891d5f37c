SPECIFICATION MCSpec
CONSTANTS
  Node = {1, 2, 3}
  Near <- ViaThree
  Secret <- OneSecret
  Allowed <- FirstKeys
  MaxPeers = 2
  Conn = {1, 2}
  Unstable = {3}
  Traffic = {"restart", "rekey", "gossip", "beacon", "fault"}
  MaxEpoch = 2
  MaxFaults = 1
  MaxWire = 1
  NoConn = NoConn
  NoKey = NoKey
CHECK_DEADLOCK FALSE
INVARIANT PersonalHoldsKey
PROPERTY RoomyLinksHeal
