SPECIFICATION Spec
CONSTANTS
  l1 = l1
  l2 = l2
  g1 = g1
  g2 = g2
  p1 = p1
  t1 = t1
  u1 = u1
  e1 = e1
  e2 = e2
  s1 = s1
  m1 = m1
  Lamp = {l1, l2}
  Group = {g1, g2, g3}
  Preset = {p1, p2}
  Transition = {t1, t2, t3}
  Pulse = {u1, u2}
  Element = {e1, e2, e3}
  Scene = {s1, s2, s3}
  Master = {m1, m2}
  AllLamps = AllLamps
  DefaultState = DefaultState
  GroupBodies <- MCGroupBodies
  EffectBodies <- MCEffectBodies
  ElementBodies <- MCElementBodies
  SceneBodies <- MCSceneBodies
  ElementLists <- MCElementLists
  MasterBodies <- MCMasterBodies
  State = {0, 1}
  Stored <- MCStored
  MaxEntities = 2
  NumLamps = 256
  Call = {c1}
  MaxCalls = 2
  None = None
INVARIANT NothingLeftBehind
CHECK_DEADLOCK FALSE
