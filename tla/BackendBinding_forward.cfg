CONSTANTS
  g1 = g1
  g2 = g2
  c1 = c1
  game = game
  chat = chat
  Servers <- MCServers
  Types <- MCTypes
  Type <- MCType
  Sessions = {s1, s2, s3, s4, s5}
  Callers = {k1, k2}
  None = None
  MaxMail = 1
  MaxOps = 3
SPECIFICATION Spec
SYMMETRY Symmetry
INVARIANT AlreadyBoundIsTrue
CHECK_DEADLOCK FALSE
