SPECIFICATION Spec
CONSTANTS
  Adu = {a1, a2}
  AduLength = 4
  Fragment <- AllFragments
  MaxArrivals = 4
INVARIANTS TypeOK PayloadIntact  
CHECK_DEADLOCK FALSE
