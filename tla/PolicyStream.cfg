SPECIFICATION FairSpec
CONSTANTS
  NoTarget = NoTarget
  Targets = {0, 2}
  Latency = 1
  PolicyTimeout = 2
  ChunkLength = 4
  Oldest <- MCOldest
INVARIANT TypeOK
INVARIANT ScheduleInOrder
INVARIANT FutureWhenQueued
PROPERTY QuietAfterExit
PROPERTY LeavingEnds
