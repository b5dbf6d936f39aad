SPECIFICATION Spec
CONSTANTS
  Controller = {1, 2}
  Task = {t1, t2}
  MaxChances = 2
  Races = {"stopped"}
INVARIANT StopTearsDown
CHECK_DEADLOCK FALSE
SYMMETRY MCSymmetry
