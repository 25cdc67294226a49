SPECIFICATION Spec
CONSTANTS
  Moves <- MCMoves
  Values <- MCValues
  Generated <- MCGenerated
  MultiPv = 3
  WinRate <- MCWinRate
  WindowFrom = 2
  MaxDepth = 2
  MaxWiden = 1
INVARIANTS
  LinesAreFresh
  FinalIsWhole
  VerdictsFollow
CHECK_DEADLOCK FALSE
