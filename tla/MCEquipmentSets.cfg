CONSTANTS
  Chars = {anna, bert}
  NoChar = NoChar
  Slots = {1, 2}
  MaxSets = 2
  MaxTrouble = 1
SPECIFICATION Spec
INVARIANTS BarIsKept SetsStayWithTheirCharacter
PROPERTIES ButtonsComeBack
CHECK_DEADLOCK FALSE
