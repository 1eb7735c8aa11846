SPECIFICATION FairSpec
CONSTANTS
  MaxEpisodes = 3
  Loggers = {"arm", "camera"}
  Flaky = {}
  Crashes = FALSE
  IoFaults = FALSE
  Prompt = TRUE
  Grace = TRUE
INVARIANT TypeOK
INVARIANT LoggersFollow
INVARIANT NothingLost
PROPERTY ImplementsLifecycle
PROPERTY QuitLeadsToShutdown
