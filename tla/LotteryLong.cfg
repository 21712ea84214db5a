CONSTANTS
  CPU = {c1}
  NPROC = 3
  Tickets = {1}
  RMAX = 4
  IMOD = 64
  Garbage = {0}
  MaxTotal = 8
  None = None
SPECIFICATION Spec
CHECK_DEADLOCK FALSE
INVARIANTS
  EveryTicketCounts
