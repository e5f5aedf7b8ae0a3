SPECIFICATION MCSpec
CONSTANTS
  boat = boat
  shed = shed
  screen = screen
  b1 = b1
  b2 = b2
  BrokenImage = BrokenImage
  Servers <- TwoServers
  Callers <- OneCaller
  Engines <- TwoEngines
  Boards <- TwoBoards
  BoardOf <- OneEach
  Wireless <- SecondAlone
  MaxBuild = 3
  Broken <- BrokenImage
  Versions = {1, 2, 3}
  Bad = {2}
  RollbackAfter = 3
  GiveUpAfter = 5
  MaxFaults = 3
  TwoAtOnce = FALSE
INVARIANTS
  SessionFollows
  StateFollows
  WholeVersionLeft
PROPERTIES
  Reconnects
  HelmGoesLast
  FlashedAsMeant
  UpdateAllEnds
  ReleasesSettle
