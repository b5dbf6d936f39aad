SPECIFICATION Spec
CONSTANT
  Slot = {1, 2, 3}
INVARIANTS
  EffectAnswered
CHECK_DEADLOCK FALSE
