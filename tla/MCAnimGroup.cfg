CONSTANTS
  Regions = {"frame", "texture"}
  Frame = "frame"
  Groups = {"ends", "bounces"}
  RegionOf <- OnTheFrame
  LoopType <- Loops
  FinalAlpha = {"ends"}
  Change <- Changes
  OrderCount = 2
  Span = 2
  Opaque = 6
  Alphas = {3}
  MaxCalls = 4
SPECIFICATION AnimFairSpec
INVARIANTS PlayIsInOrder AlphaComesBack
PROPERTIES NothingBuildsUp FinishEnds
CHECK_DEADLOCK FALSE
