SPECIFICATION FairSpec
CONSTANTS
  MaxEpisodes = 1
  MaxRequests = 1
PROPERTY TripleTapDeletesLast
