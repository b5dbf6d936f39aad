SPECIFICATION Spec
CONSTANT
  Slot = {1, 2, 3}
INVARIANTS
  UndisturbedTold
  AnswersFit
PROPERTY
  CallsSettle
CHECK_DEADLOCK FALSE
