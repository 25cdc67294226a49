SPECIFICATION FairSpec
CONSTANTS
  analysis = analysis
  play = play
  third = third
  variant = variant
  threads = threads
  multipv = multipv
  skill = skill
  v0 = v0
  v1 = v1
  v2 = v2
  keep = keep
  NoTask = NoTask
  Unset = Unset
  Tasks <- MCTasks
  Infinite <- MCInfinite
  Options <- MCOptions
  Values <- MCValues
  Default = v0
  Awaiting <- MCAwaiting
  Variant = variant
  MaxInfo = 1
  Kind <- MCKindSearch
  Over <- MCOver
  Want <- MCWantAlike
  Keep = keep
  MayTimeOut = FALSE
  MayClose = FALSE
  MaxStops = 1
INVARIANTS
  TypeOK
PROPERTIES
  CancelReleases
  ServedIfCancelled
  StopLands
CHECK_DEADLOCK FALSE
