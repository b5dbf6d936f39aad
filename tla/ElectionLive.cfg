CONSTANTS
  Node = {1, 2}
  Stamps = {1, 2, 3}
  MaxWake = 2
  Mortal = {2}
  Stoppable = {}
  MaxStops = 0
  Announcers = {}
  Apps = FALSE
  Faults = {"methodCall", "timeout"}
SPECIFICATION FairSpec
INVARIANTS
  NoLostWakeup
  NoSessionForgotten
  QuietIsSettled
PROPERTIES
  ImplementsHandover
  EventuallySettled
CHECK_DEADLOCK FALSE
