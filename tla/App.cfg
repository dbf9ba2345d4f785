\* Calls, messages and faults are bounded, so a behaviour may end.
CONSTANTS
  Names = {room, lobby}
  Users = {u1, u2}
  Leases = {l1, l2}
  NoLease = NoLease
  Missing = Missing
  Callers = {c1, c2}
  None = None
  DeleteDuringAdd = FALSE
  Calling = {k1, k2}
  Msgs = {m1, m2}
  MaxMail = 1
  MaxOps = 2
  TaskBuffer = 1
  MaxFaults = 1
  MaxRegistrations = 2
  Outside = outside
  MaxRefused = 1
  NoError = NoError
  MaxCrashes = 1
  MaxAcceptors = 1
  MaxClients = 2
  MaxCommands = 5
  MaxPushes = 1
SPECIFICATION MCSpec
SYMMETRY MessageSymmetry
INVARIANTS    ServedAsRegistered  
INVARIANTS  GenerationsApart 
 
CHECK_DEADLOCK FALSE
