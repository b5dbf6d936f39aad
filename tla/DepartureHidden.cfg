CONSTANTS
  Node = {1, 2}
  Stamps = {1, 2, 3}
  MaxWake = 2
  Mortal = {2}
  Stoppable = {}
  MaxStops = 1
  Announcers = {}
  Apps = TRUE
  Faults = {}
SPECIFICATION Spec
INVARIANT
  DepartureNoticed
CHECK_DEADLOCK FALSE
