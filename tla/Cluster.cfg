\* Calls and messages are bounded, so a behaviour may end.
CONSTANTS
  kself = kself  ka = ka  kb = kb  kjunk = kjunk
  self = self  a = a  b = b
  game = game  room = room  hidden = hidden
  Keys <- WideKeys
  KeyType <- WideType
  KeyId <- WideId
  KeyRank <- WideRank
  Batches <- WideBatches
  Malformed = {kjunk}
  Blacklist = {hidden}
  Self = self
  SelfKey = kself
  Docs = {v1, v2}
  Bad = Bad
  None = None
  MaxRevision = 3
  MaxFailures = 1
  Calls = {k1, k2}
  MaxClients = 2
  NoRegion = NoRegion
  Regions = {r1, r2}
  Here = r1
  Lazy = TRUE
  Frontends = {f1}
  Backend = b1
  User = u1
  Users = {u1}
  Nil = Nil
  Buffer = 1
  MaxCalls = 1
  MaxFaults = 1
  Peers = {p1}
  NoUser = NoUser
  BadUser = BadUser
  MaxRequests = 3
  TaskBuffer = 1
  Servers = {w1, w2}
  Topics = {t1}
  Fork = fork
  Groups = {q1}
  NoGroup = NoGroup
  Publications = {m1}
  MaxObservers = 2
SPECIFICATION MCSpec
SYMMETRY DocSymmetry
INVARIANTS CacheExact ListenersInSync QuietAfterShutdown
INVARIANTS RemoteCallsExact TopicExact CallsServed 
PROPERTY RevisionsAdvance
CHECK_DEADLOCK FALSE
