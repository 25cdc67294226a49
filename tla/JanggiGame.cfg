SPECIFICATION Spec
CONSTANTS
  Starts <- MCStarts
  RuleSets <- MCRules
  MaxPliesDraw = 8
  Horizon = 3
INVARIANTS
  PositionIsReplay
  TablesAgree
  RepetitionIsWhole
  SearchEndsWithGame
  KeysDecide
PROPERTY BikjangIsAnswered
