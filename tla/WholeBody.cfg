SPECIFICATION FairSpec
CONSTANTS
  None = None
  Track = 1
  CommandTimeout = 2
  JoinTimeout = 3
  FullSpeed = 2
  SocketTimeout = 2
  Requests = 2
INVARIANT TypeOK
INVARIANT WheelsStop
INVARIANT BaseAtRest
INVARIANT ReplyIsOwn
PROPERTY StopEnds
