\* Two controllers, two callbacks at a time, two chances; every race is gone on
\* from but those in which a callback clears, or looks beside, another's leader.
SPECIFICATION Spec
CONSTANTS
  Controller = {1, 2}
  Task = {t1, t2}
  MaxChances = 2
  Races = {"stale", "early", "late", "lost", "stopped"}
INVARIANTS
  SessionsAccounted
  RestIsConnected
  StoppedHoldsNothing
CHECK_DEADLOCK FALSE
SYMMETRY MCSymmetry
