SPECIFICATION MCSpec
CONSTANTS
  c1 = c1
  c2 = c2
  r1 = r1
  Nobody = Nobody
  Clients <- MCClients
  Leavers <- MCLeavers
  Requests <- MCRequests
  MayFail = TRUE
  MaxJobs = 2
  MaxUpdates = 1
  Games <- MCGames
  Depths = {4}
  MaxSteps = 2
INVARIANTS
  SessionsAgree
  InOrder
  MatesAreReal
CHECK_DEADLOCK FALSE
PROPERTIES
  RestServed
  LeaversRelease
  FinalsCome
