SPECIFICATION Spec
CONSTANTS
  Kinds = {"pulse"}
  Bodies <- MCPulses
  Names = {"n"}
  IdOrder <- MCIdOrder
  CurrentState = "CURRENT_STATE"
  MaxCalls = 3
INVARIANTS
  PulsesKept
CHECK_DEADLOCK FALSE
