SPECIFICATION FairSpec
CONSTANTS
  Watchers <- OneOfEach
  MaxLogs = 3
  MaxReorgs = 1
  Latest = Latest
CHECK_DEADLOCK FALSE
INVARIANT YieldsInOrder
INVARIANT NothingPassedOver
PROPERTY EveryQueuedEventYielded
