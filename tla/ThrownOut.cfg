SPECIFICATION Spec
CONSTANTS
  Session = {1}
  Value = {0, 1}
  Dictionary <- MCDictionary
  Vendor = FALSE
INVARIANT ThrownOut
CHECK_DEADLOCK FALSE
