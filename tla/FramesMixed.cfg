SPECIFICATION Spec
CONSTANTS
  main = main
  heartbeat = heartbeat
  w1 = w1
  None = None
  Threads = {main, heartbeat}
  Workers = {w1}
  MaxSends = 3
INVARIANTS
  DecodedIsIntact
PROPERTIES
  AloneArrives
CHECK_DEADLOCK FALSE
