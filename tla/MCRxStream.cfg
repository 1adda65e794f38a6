SPECIFICATION Spec
CONSTANTS
  Quota = 200
  RxBufferSize = 24
  ChunkSizes = {1, 2, 5, 24}
  Kinds = {"mtcp", "tcpclv3", "tcpspp"}
  Plans <- MCPlans
INVARIANTS
  TypeOK
  AssertsHold
  RoomToRead
  DeliveredIntact
  ConnectionComplete
  AnnouncedLengthExact
CHECK_DEADLOCK FALSE
