SPECIFICATION Spec
CONSTANTS
  c1 = c1
  c2 = c2
  c3 = c3
  n1 = n1
  n2 = n2
  Contact = {c1, c2, c3}
  Node = {n1, n2}
  NodeOf <- MCNodeOf
  From <- MCFrom
  To <- MCTo
  Bundle = {b1}
  MaxConcurrent = 2
  QueueLength = 1
  MaxPeriod = 2
  Unreachable = {}
  Commands <- MCCommands
  MaxTime = 3
  MaxCommands = 3
  MaxLinkUps = 1
  NULL = NULL
  Dangling = Dangling
INVARIANTS
  TypeOK
  NoDanglingPointers
  NoBundleLost
  ScheduleFeasible
  ContactOverOnce
  ListOrdered
