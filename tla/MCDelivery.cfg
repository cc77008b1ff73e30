SPECIFICATION FairSpec
CONSTANTS
  Last = 3
  WithId = {1}
  Tokens <- MCTokens
  TooLarge = {3}
  QueueDepth = 1
  MaxBatch = 2
  Attempts = {0, 2}
  BusDepth = 1
  Burst = 1
  MaxFailures = 1
  MaxTurnedAway = 1
  MaxOthers = 1
INVARIANTS TypeOK OkIsComplete StoredOnce TwiceOnlyAfterFull NoOvertaking
PROPERTIES EventuallyReported
CHECK_DEADLOCK FALSE
