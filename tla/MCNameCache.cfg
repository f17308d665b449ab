CONSTANTS
  Realms = {"east", "west"}
  NoRealm = "none"
  Guids = {1, 2}
  Names = {"anna", "bert"}
  V4Names <- V4OfOne
  MaxNews = 3
  MaxTrouble = 2
SPECIFICATION NameSpec
INVARIANTS OneCopyPerPlayer NothingIsForgotten
PROPERTIES SavesLoseNobody
CHECK_DEADLOCK FALSE
