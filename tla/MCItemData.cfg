CONSTANTS
  Items = {"carried", "other", "unknown"}
  Known = {"carried", "other"}
  Carried = {"carried"}
  MaxPending = 2
  OwnedPerTick = 1
  Spacing = 1
  Settle = 1
  Resend = 1
  MaxTimeouts = 2
  MaxAsks = 2
  MaxTurns = 1
SPECIFICATION FairSpec
INVARIANTS QueueIsWhatIsOwed
PROPERTIES FailureIsHonest EveryAskIsAnswered
CHECK_DEADLOCK FALSE
