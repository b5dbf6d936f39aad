SPECIFICATION Spec
CONSTANTS
  Lamp = {a}
  MaxLamps = 1
  MaxBus = 1
  SessionId = {1, 2}
  MaxToggles = 0
  Hasty = FALSE
  MaxRequests = 0
  Stoppable = FALSE
  Faults = {"setup"}
INVARIANT
  ConnectedHasSession
CHECK_DEADLOCK FALSE
