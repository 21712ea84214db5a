SPECIFICATION Spec
CONSTANTS
  c1 = c1
  c2 = c2
  CPU = {c1, c2}
  NoCpu = NoCpu
  NPROC = 3
  MaxPid = 4
  KillPid = {0}
SYMMETRY CpuSymmetry
INVARIANT KilledWasAsked
