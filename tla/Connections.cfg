\* Clients and their messages are bounded, so a behaviour may end.
CONSTANTS
  Sessions = {s1}
  Users = {u}
  None = None
  MaxPackets = 2
  MaxRequests = 2
  Requests = 1
  BufferSize = 1
  TaskBuffer = 1
  MaxBeats = 1
  ProxyProtocol = TRUE
  Clients = {c1, c2}
  MaxErrors = 1
  Frontends = {f1, f2}
  NoBinding = NoBinding
  MaxBinds = 3
  MaxGrants = 2
  MaxRefusals = 1
  Peers = {p1}
  NoUser = NoUser
  BadUser = BadUser
  Buffer = 1
SPECIFICATION MCSpec
PROPERTIES SessionsEnd SilentPeerEnds AcceptorServes LeaseRegained StopCompletes
CHECK_DEADLOCK FALSE
