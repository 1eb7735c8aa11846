SPECIFICATION FairSpec
CONSTANTS
  MaxEpisodes = 2
  MaxRequests = 2
INVARIANT SyncTypeOK
INVARIANT RequestDeletesOnce
PROPERTY DeletesNewestCompleted
PROPERTY RobotFollows
