\* Leases and changes are bounded and the process ends, so a
\* behaviour may end.
CONSTANTS
  UserModules <- MCUserModules
  Callers = {c1}
  MaxLeases = 2
  grantLeaseMaxRetries = 2
  None = None
  Absent = Absent
  Bad = Bad
  Default = Default
  Own = own
  Others = {app}
  MaxChanges = 2
  MaxErrors = 1
  MaxPanics = 1
  Self = s1
  Rivals = {s2}
  MaxRivalKeys = 1
  MaxFaults = 1
  ChanSize = 10
SPECIFICATION MCSpec
INVARIANTS RegisteredWhenReady ReloadsSound
PROPERTIES NoHalfLife ConfigConverges Campaigns
CHECK_DEADLOCK FALSE
