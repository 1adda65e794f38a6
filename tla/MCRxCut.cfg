SPECIFICATION Spec
CONSTANTS
  Quota = 200
  RxBufferSize = 24
  ChunkSizes = {1, 2, 5, 24}
  Kinds = {"mtcp", "tcpclv3", "tcpspp"}
  Plans <- MCPlans
INVARIANTS
  NothingLost
CHECK_DEADLOCK FALSE
