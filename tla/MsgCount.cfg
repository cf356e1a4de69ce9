CONSTANTS
  PingCounted = TRUE
  MaxSent = 4
  MaxWire = 3
  MaxStale = 4
SPECIFICATION CountSpec
INVARIANTS CountExact NothingMissing
PROPERTIES ExactlyOnceInOrder
