SPECIFICATION Spec
CONSTANTS
  Daemon = {1}
  Client = {c1, c2}
  Login = {author, other}
  Faults = {"misread"}
  MaxFaults = 1
CHECK_DEADLOCK FALSE
INVARIANT NoBanWiped
