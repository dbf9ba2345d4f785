CONSTANTS
  Acceptors <- Secure
  ProxyProtocol = FALSE
  Clients = {c1}
  MaxErrors = 0
SPECIFICATION FairSpec
PROPERTY AppStarts
CHECK_DEADLOCK FALSE
