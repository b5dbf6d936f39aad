CONSTANTS
  Node = {1, 2, 3}
  Stamps = {1, 2, 3}
  MaxWake = 1
  Mortal = {2}
  Stoppable = {2, 3}
  MaxStops = 1
  Announcers = {1}
  Apps = TRUE
  Faults = {"danglingName"}
  MaxInFlight = 1
  MaxDepartures = 2
CONSTRAINTS FewInFlight FewDepartures
SPECIFICATION SettledSpec
INVARIANTS
  UpdatesBlockedByChallengeOnly
  FollowerIsPassive
  CoupsGoUp
CHECK_DEADLOCK FALSE
