CONSTANTS
  f1 = f1
  Names = {"C1", "C2"}
  EngineNames <- MCEngineNames
  Others <- MCOthers
  NoName = "-"
  Frames = {f1}
  StaticCount = 5
  GameNames <- MCGameNames
  TableSizes = {5, 6}
  GlueNames <- MCGlueNames
  GlueCount = 1
  ChatIds = {2}
  UnitMax = 4
  Watched = {1}
  Spares = 1
  MaxReserved = 2
  Margin = 0
  MaxBuilds = 3
SPECIFICATION EventSpec
INVARIANTS ClaimsAreOurs SubscribersAreHeard
PROPERTIES LiveChainsDoNotMove FirstRegistrationClaimsAll
CHECK_DEADLOCK FALSE
