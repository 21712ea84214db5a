SPECIFICATION Spec
CONSTANTS
  p1 = p1
  p2 = p2
  p3 = p3
  b1 = b1
  b2 = b2
  b3 = b3
  v1 = v1
  v2 = v2
  NoVal = NoVal
  Val = {v1, v2}
  Proc = {p1, p2, p3}
  Block = {b1, b2, b3}
  MAXOPBLOCKS = 1
  LOGSIZE = 3
  NLog = 3
  MaxCrashes = 0
INVARIANT NoPanic
