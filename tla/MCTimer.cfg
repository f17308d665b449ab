SPECIFICATION FairSpec
CONSTANTS
  Delays <- MCDelays
  Iterations <- MCIterations
  MaxID = 3
  MaxTime = 3
INVARIANTS NextDeadlineIsLowerBound RegistryMatchesQueue
PROPERTIES KeepsPromise DueTimersAreCalled
CHECK_DEADLOCK FALSE
