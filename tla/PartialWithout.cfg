SPECIFICATION Spec
CONSTANTS
  Call = {c1}
  Lamp = {a, b}
  Queries = {}
  MaxElements = 1
  MaxQueue = 1
  MaxToggles = 0
  None = None
INVARIANT
  PartialMeansSome
CHECK_DEADLOCK FALSE
