CONSTANTS
  CPU = {c1, c2}
  Thread = {t1, t2, t3}
  Hart0 = c1
  Lock = {1, 2}
  Irq = {1, 2}
  Tick = 1
  None = None
SYMMETRY Symmetry
SPECIFICATION Spec
INVARIANT MyprocIsSelf
