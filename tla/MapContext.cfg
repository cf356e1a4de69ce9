CONSTANTS
  Size = 4
  MaxWire = 3
  Bad = {2}
SPECIFICATION Spec
INVARIANTS AtMostOnce Complete
PROPERTIES InOrder
