CONSTANTS
  Times = {0, 1, 2, 5}
  Ceiling = 6
SPECIFICATION FairSpec
INVARIANT NotEarly
PROPERTY ArmedAlarmExpires
CHECK_DEADLOCK FALSE
