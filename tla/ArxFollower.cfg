\* An arm's runner and the neck's, with the operator, the monitor and the Vision Pro.
SPECIFICATION FairSpec
CONSTANTS
  Wait = 2
  MoveTime = 1
INVARIANTS TypeOK SuspendedHolds OneLatePose HeadAfterNeck
PROPERTY StopEnds
