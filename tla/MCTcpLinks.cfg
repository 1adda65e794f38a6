CONSTANTS
  Conn = {x1, x2}
  Bundle = {b1, b2}
  TxQueueLength = 1
  Key = {k1}
  Kinds = {"tcpclv3", "mtcp", "single"}
  PeerName <- SameName
  MaxTries = 0
  MaxStarts = 2
  NULL = NULL
SPECIFICATION Spec
INVARIANTS TypeOK AssertsHold TableIsLive PlannedIsPrimary NoBundleStranded
CHECK_DEADLOCK FALSE
SYMMETRY Symmetry
