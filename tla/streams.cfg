SPECIFICATION FairSpec
CONSTANTS
  Backends = {"memory", "redis"}
  QueueSize = 2
  WireSize = 1
  LastMoment = 1
  MaxTakes = 2
  MaxTokens = 2
  MaxPolls = 2
  MaxAsks = 1
  MaxFaults = 1
INVARIANT CompleteTextIsWhole
PROPERTY PageSeesTheEnd
CHECK_DEADLOCK FALSE
