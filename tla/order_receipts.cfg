SPECIFICATION Spec
CONSTANTS
  a = a
  b = b
  s1 = s1
  s2 = s2
  Sessions = {s1, s2}
  Lines = {a, b}
  Ordered <- Two
  Policies <- Mixes
  Contents <- Deliveries
  MaxReceipts = 2
  MaxRequests = 6
SYMMETRY AnySession
INVARIANTS AutoCloseMeansReceived OneOpenPerLine
CHECK_DEADLOCK FALSE
