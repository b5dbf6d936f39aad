SPECIFICATION Spec
CONSTANTS
  Lamp = {a}
  MaxLamps = 1
  MaxBus = 1
  SessionId = {1, 2}
  MaxToggles = 1
  Hasty = FALSE
  MaxRequests = 0
  Stoppable = FALSE
  Faults = {"already"}
INVARIANT
  RetryScheduled
CHECK_DEADLOCK FALSE
