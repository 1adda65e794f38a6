CONSTANTS
  Conn = {x1}
  Bundle = {b1, b2}
  TxQueueLength = 1
  Key = {k1}
  Kinds = {"tcpclv3"}
  PeerName <- SameName
  MaxTries = 0
  MaxStarts = 1
  NULL = NULL
SPECIFICATION FairSpec
PROPERTY DisconnectCompletes
CHECK_DEADLOCK FALSE
