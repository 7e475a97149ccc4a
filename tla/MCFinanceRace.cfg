SPECIFICATION Spec
CONSTANTS
  w1 = w1
  w2 = w2
  p1 = p1
  p2 = p2
  Workers = {w1, w2}
  Payloads = {p1, p2}
  MaxLength = 3
INVARIANT EmittedIsConsistent
CHECK_DEADLOCK FALSE
