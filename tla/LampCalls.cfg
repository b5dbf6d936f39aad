SPECIFICATION FairSpec
CONSTANTS
  Call = {c1, c2}
  Lamp = {a}
  Queries = {c2}
  MaxElements = 2
  MaxQueue = 1
  MaxToggles = 1
  None = None
INVARIANTS
  FreedLast
  CountersCover
  AnswersTell
PROPERTY
  CallsAnswered
CHECK_DEADLOCK FALSE
