SPECIFICATION FairSpec
CONSTANTS
  start = start
  mid = mid
  mate = mate
  start2 = start2
  Positions <- MCPositions
  Start = start
  Over <- MCOver
  StateKey <- MCStateKey
  NoPosition = NoPosition
  Budgets <- MCBudgets
  Unlimited = 0
  CacheSize = 1
  Others = TRUE
  MayFail = TRUE
  MayDie = TRUE
  MaxSnaps = 1
  MaxActs = 3
INVARIANTS
  ShownFitsKey
  ControllerAgrees
  NeverOwnCut
  FullStrength
PROPERTIES
  AnalysedAtLast
CHECK_DEADLOCK FALSE
