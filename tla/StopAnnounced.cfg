CONSTANTS
  Node = {1, 2}
  Stamps = {1, 2, 3}
  MaxWake = 2
  Mortal = {}
  Stoppable = {2}
  MaxStops = 1
  Announcers = {}
  Apps = FALSE
  Faults = {}
SPECIFICATION Spec
INVARIANT
  StoppedNotLeader
CHECK_DEADLOCK FALSE
