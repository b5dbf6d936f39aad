SPECIFICATION Spec
CONSTANTS
  Kinds = {"lampGroup", "preset", "transitionEffect", "pulseEffect", "sceneElement", "scene", "masterScene"}
  Id = {1, 2, 3}
  Default = 9
  Lens = {1, 4}
  IdLen = 2
  SentinelLen = 3
  MaxEntities = 3
  MaxFileLen = 24
  Wrap = 128
  Blobs <- MCBlobs
  MaxOps = 5
INVARIANTS
  LengthCovers
CHECK_DEADLOCK FALSE
