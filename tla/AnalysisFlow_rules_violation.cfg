SPECIFICATION Spec
CONSTANTS
  start = start
  mid = mid
  mate = mate
  start2 = start2
  Positions <- MCRulesPositions
  Over <- MCNone
  StateKey <- MCRulesKey
  Others = FALSE
  MayFail = FALSE
  MayDie = FALSE
  MaxActs = 2
  Start = start
  NoPosition = NoPosition
  Budgets <- MCBudgets
  Unlimited = 0
  CacheSize = 1
  MaxSnaps = 1
INVARIANT ShownFitsBoard
CHECK_DEADLOCK FALSE
