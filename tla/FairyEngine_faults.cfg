SPECIFICATION Spec
CONSTANTS
  analysis = analysis
  play = play
  third = third
  variant = variant
  threads = threads
  multipv = multipv
  skill = skill
  v0 = v0
  v1 = v1
  v2 = v2
  keep = keep
  NoTask = NoTask
  Unset = Unset
  Tasks <- MCTasks
  Infinite <- MCInfinite
  Options <- MCOptions
  Values <- MCValues
  Default = v0
  Awaiting <- MCAwaiting
  Variant = variant
  MaxInfo = 1
  Kind <- MCKindNewGame
  Over <- MCNone
  Want <- MCWant
  Keep = keep
  MayTimeOut = TRUE
  MayClose = TRUE
  MaxStops = 0
INVARIANTS
  QuietUnlessLeaked
  OwnAnswer
  RightSetup
PROPERTIES
  ImplementsContract
CHECK_DEADLOCK FALSE
