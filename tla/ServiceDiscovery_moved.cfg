CONSTANTS
  kself = kself  ka = ka  kb = kb  kjunk = kjunk
  self = self  a = a  b = b
  game = game  room = room  hidden = hidden
  Keys <- MovedKeys
  KeyType <- MovedType
  KeyId <- MovedId
  KeyRank <- MovedRank
  Batches <- MovedBatches
  Malformed = {}
  Blacklist = {}
  Self = self
  SelfKey = kself
  Docs = {v1}
  Bad = Bad
  None = None
  MaxRevision = 3
  MaxFailures = 1
SPECIFICATION FairSpec
INVARIANTS IndexesAgree
PROPERTIES Converges ShutdownReturns
