\* Clients and their messages are bounded, so a behaviour may end.
CONSTANTS
  Sessions = {s1, s2}
  Users = {u}
  None = None
  MaxPackets = 1
  MaxRequests = 1
  Keys = {k1}
  MaxFaults = 1
  Requests = 2
  BufferSize = 1
  TaskBuffer = 1
  MaxBeats = 1
  IDs = {1, 127, 128, 16383, 16384, 2000000}
  Limit = 2
  Interval = 3
  MaxTime = 9
SPECIFICATION MCSpec
SYMMETRY Symmetry
INVARIANT SetWorks
CHECK_DEADLOCK FALSE
