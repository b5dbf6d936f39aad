SPECIFICATION Spec
CONSTANTS
  Session = {1, 2}
  Value = {0, 1}
  Dictionary <- MCDictionary
  Vendor = TRUE
INVARIANTS
  Durable
  NewestTold
  AnswerTrue
PROPERTY
  ResetForgets
CHECK_DEADLOCK FALSE
