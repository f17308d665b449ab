CONSTANTS
  NumCells = 3
  General <- MCGeneral
  Kinds = {"A"}
  MaxStack = 3
  Quantities = {1, 2}
  Totals = {1, 2}
  MaxWait = 1
  MaxJobs = 2
  MaxMoves = 1
  MaxWire = 0
SPECIFICATION FairSpec
INVARIANTS CountIsHonest PostedAsAsked
PROPERTIES JobEnds
CHECK_DEADLOCK FALSE
