SPECIFICATION Spec
CONSTANTS
  Kinds = {"preset", "transition", "pulse", "group", "element", "master", "elements", "scene", "updates"}
  Bodies <- MCBodies
  Names = {"n"}
  IdOrder <- MCIdOrder
  CurrentState = "CURRENT_STATE"
  MaxCalls = 3
INVARIANTS
  Kept
  Answered
CHECK_DEADLOCK FALSE
