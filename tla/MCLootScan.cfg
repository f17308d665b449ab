CONSTANTS
  Corpses = {"c1", "c2"}
  Full = {"c1"}
  StepTimeout = 1
  ItemTicks = 1
  MaxWalks = 2
  MaxHands = 1
  MaxChanges = 1
SPECIFICATION FairSpec
INVARIANTS OneCompletionPerWalk SkippedIsEmpty NothingIsLeftHeld
PROPERTIES WalkEnds
CHECK_DEADLOCK FALSE
