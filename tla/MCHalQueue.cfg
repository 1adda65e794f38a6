\* A blocking pusher, a pusher with a timeout, the waker of the contact
\* manager and one receiver on a queue of two slots.
CONSTANTS
  Length = 2
  Item = {upd, both}
  Recheck = both
  Pusher = {p1, p2}
  Waker = {w}
  Popper = {r}
  Timed = {p2, r}
SPECIFICATION Spec
INVARIANTS TypeOK MutexHeld TokensConserved RingConsistent
PROPERTIES ImplementsBoundedQueue NoStall
