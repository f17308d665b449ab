CONSTANTS
  Players <- MCPlayers
  A = A
  B = B
  Kinds = {A, B}
  MaxMissStreak = 2
  MaxPendingSplits = 2
  MaxCount = 2
  MaxGuid = 3
  MaxActs = 3
SPECIFICATION Spec
INVARIANTS NewIsWhatWasAcquired PictureIsCurrent FlagsFade
SYMMETRY Symmetry
CHECK_DEADLOCK FALSE
