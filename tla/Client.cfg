CONSTANTS
  Gens = {1, 2}
  Calls = {c1, c2}
  None = None
  InflightLimit = 1
SPECIFICATION FairSpec
INVARIANTS SlotsMatch OneOutcome OneConnection
PROPERTY CallersReturn
CHECK_DEADLOCK FALSE
