SPECIFICATION FairSpec
CONSTANTS
  p1 = p1
  p2 = p2
  p3 = p3
  b1 = b1
  b2 = b2
  b3 = b3
  v1 = v1
  v2 = v2
  NoVal = NoVal
  Val = {v1, v2}
  Proc = {p1, p2}
  Block = {b1, b2}
  MAXOPBLOCKS = 2
  LOGSIZE = 5
  NLog = 4
  MaxCrashes = 2
INVARIANTS TypeOK NoLostWakeup ReservationHolds CommitAlone
PROPERTIES CrashAtomic WriteAhead RecoveryEnds
