SPECIFICATION FairSpec
CONSTANTS
  Node = {a, b}
  NoLeader = NoLeader
  MaxUpdates = 2
  Resets = TRUE
  MaxClock = 2
  Wrap = 4
  Candidates = {a}
  Busy = {b}
  Mortal = {a}
  Unplugged = {a}
  MaxDowns = 1
  MaxMsgs = 1
CONSTRAINT FewMessages
INVARIANTS
  MemoryOnDisk
  WorkIsSignalled
PROPERTIES
  NoRequestDropped
  ChangesAreSaved
CHECK_DEADLOCK FALSE
