CONSTANTS
  a1 = a1
  a2 = a2
  x1 = x1
  x2 = x2
  y = y
  None = None
  Items = {a1, a2, x1, x2, y}
  Cells = {1, 2, 3, 4, 5, 6}
  Kinds = {"A", "X", "Y"}
  Junk = {"A"}
  NoFamily = "any"
  BagFamily <- MCFamily
  KindOf <- MCKindOf
  ItemID <- MCItemID
  Rank <- MCRank
  FamilyOf <- MCFamilyOf
  MaxStack <- MCMaxStack
  Scopes <- MCBags
  TieOrders <- MCTies
  SettleTime = 1
  Sweeps = FALSE
  MaxMoves = 0
  MaxWire = 0
  MaxReloads = 0
SPECIFICATION CalmSpec
INVARIANTS
  NoRequestIsRefused
  NoLockIsLeftOver
  BagsAreSorted
  SecondSortIsQuiet
