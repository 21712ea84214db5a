CONSTANTS
  Proc = {p1, p2, p3}
  NoProc = NoProc
  Block = {1, 2, 3}
  Val = {v1, v2}
  NBUF = 2
SYMMETRY Symmetry
SPECIFICATION Spec
INVARIANTS
  TypeOK
  OneBufferPerBlock
  Exclusive
  Coherent
  SleepersHaveOwner
  RefsExact
