CONSTANTS
  a1 = a1
  a2 = a2
  x1 = x1
  x2 = x2
  y = y
  None = None
  Items = {a1, a2, x1}
  Cells = {1, 2, 3}
  Kinds = {"A", "X"}
  Junk = {}
  NoFamily = "any"
  BagFamily <- MCFamily
  KindOf <- MCKindOf
  ItemID <- MCItemID
  Rank <- MCRank
  FamilyOf <- MCFamilyOf
  MaxStack <- MCMaxStack
  Scopes <- MCAll
  TieOrders <- MCOneTie
  SettleTime = 1
  Sweeps = TRUE
  MaxMoves = 1
  MaxWire = 1
  MaxReloads = 1
SPECIFICATION FairSpec
INVARIANTS StragglersAreReleased
PROPERTIES SortEnds
