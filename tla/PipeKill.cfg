SPECIFICATION Spec
CONSTANTS
  r1 = r1
  r2 = r2
  w1 = w1
  w2 = w2
  a = a
  b = b
  NoProc = NoProc
  Reader = {r1}
  Writer = {w1, w2}
  Byte = {a, b}
  PIPESIZE = 2
  UMOD = 4
  MaxN = 3
  Killable = {w1}
INVARIANT ReadersAwake
