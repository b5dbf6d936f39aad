SPECIFICATION Spec
CONSTANTS
  Node = {a, b}
  NoLeader = NoLeader
  MaxUpdates = 1
  Resets = FALSE
  MaxClock = 1
  Wrap = 4
  Candidates = {a}
  Busy = {}
  Mortal = {}
  Unplugged = {}
  MaxDowns = 1
  MaxMsgs = 1
CONSTRAINT FewMessages
INVARIANT NewFileIsInitial
CHECK_DEADLOCK FALSE
