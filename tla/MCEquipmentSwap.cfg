CONSTANTS
  Items <- MCItems
  None = "empty"
  Ignored = "leave"
  SlotCount = 3
  CombatSlots = {3}
  Bags = {4, 5}
  Bank = {6}
  Fits <- MCFits
  Sets <- MCSets
  SettleTime = 0
  MaxUses = 2
  MaxActs = 1
SPECIFICATION SwapFairSpec
INVARIANTS OthersAreLeftAlone
PROPERTIES ResultIsHonest SwapEnds
CHECK_DEADLOCK FALSE
