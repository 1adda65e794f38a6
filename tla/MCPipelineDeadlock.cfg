SPECIFICATION Spec
CONSTANTS
  Kinds <- AllKinds
  BpLength = 3
  RouterLength = 2
  MaxInputs = 2
  MaxId = 4
  MaxDrops = 1
  MaxTime = 1
INVARIANT NoDeadlock
CHECK_DEADLOCK FALSE
