SPECIFICATION Spec
CONSTANTS
  Daemon = {1, 2, 3}
  Client = {c1, c2}
  Login = {author}
  Faults = {"crash"}
  MaxFaults = 0
CHECK_DEADLOCK FALSE
INVARIANT NoSplitBrain
