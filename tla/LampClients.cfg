SPECIFICATION FairSpec
CONSTANTS
  Lamp = {a}
  MaxLamps = 1
  MaxBus = 2
  SessionId = {1, 2, 3, 4}
  MaxToggles = 1
  Hasty = FALSE
  MaxRequests = 1
  Stoppable = TRUE
  Faults = {"join", "lost", "already", "joinCall"}
INVARIANTS
  NoLostWork
  FirstConnectedHasSession
  SessionsAccounted
PROPERTY
  JoinsSettle
CHECK_DEADLOCK FALSE
