CONSTANTS
  CPU = {c1, c2}
  NPROC = 2
  Tickets = {1, 2}
  RMAX = 4
  IMOD = 64
  Garbage = {0, 6}
  MaxTotal = 5
  None = None
SYMMETRY Symmetry
SPECIFICATION Spec
CHECK_DEADLOCK FALSE
INVARIANTS
  TypeOK
  ChanceToWin
  DispatchOnce
