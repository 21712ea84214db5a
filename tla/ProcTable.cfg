SPECIFICATION Spec
CONSTANTS
  c1 = c1
  c2 = c2
  CPU = {c1, c2}
  NoCpu = NoCpu
  NPROC = 3
  MaxPid = 4
  KillPid = {2, 3, 4}
SYMMETRY CpuSymmetry
INVARIANTS TypeOK OneCpu FreedOffCpu NoLostExit ParentAlive KilledWasAsked
