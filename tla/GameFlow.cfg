SPECIFICATION FairSpec
CONSTANTS
  m = m
  k = k
  Moves <- MCMoves
  Mating <- MCMating
  NoMove = NoMove
  Human = "han"
  MayFail = TRUE
  MayDie = TRUE
  MaxPly = 4
  MaxActs = 3
  MayLeave = TRUE
INVARIANTS
  ScreenAgrees
  UsesWholeSearches
  VerdictsFit
PROPERTIES
  NoStrayMove
  AiReplies
  ReviewedAtLast
CHECK_DEADLOCK FALSE
