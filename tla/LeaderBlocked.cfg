CONSTANTS
  Node = {1, 2, 3}
  Stamps = {1, 2, 3}
  MaxWake = 2
  Mortal = {3}
  Stoppable = {}
  MaxStops = 1
  Announcers = {}
  Apps = FALSE
  Faults = {}
  MaxInFlight = 3
  MaxDepartures = 3
CONSTRAINTS FewInFlight FewDepartures
SPECIFICATION SettledSpec
INVARIANT
  LeaderResumes
CHECK_DEADLOCK FALSE
