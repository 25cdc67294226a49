SPECIFICATION FairSpec
CONSTANTS
  c1 = c1
  c2 = c2
  s1 = s1
  s2 = s2
  variant = variant
  v0 = v0
  Callers <- MCCallers
  NoCaller = NoCaller
  MaxCalls = 5
  Tasks <- MCOne
  NoTask = NoTask
  Infinite <- MCOne
  Options <- MCOptions
  Values <- MCValues
  Default = v0
  Awaiting <- MCNone
  Variant = variant
  MaxInfo = 0
INVARIANTS
  HostAgrees
  SessionsEndOnce
PROPERTIES
  CallsReturn
CHECK_DEADLOCK FALSE
