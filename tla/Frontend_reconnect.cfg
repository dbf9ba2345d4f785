CONSTANTS
  Sessions = {s1, s2}
  Users = {u}
  None = None
  MaxPackets = 1
  MaxRequests = 1
SPECIFICATION Spec
PROPERTY KeepsReconnected
CHECK_DEADLOCK FALSE
