SPECIFICATION Spec
CONSTANTS
  MaxEpisodes = 2
  Loggers = {"arm", "camera"}
  Flaky = {"camera"}
  Crashes = TRUE
  IoFaults = TRUE
  Prompt = FALSE
  Grace = FALSE
INVARIANT RecordingMatchesEpisode
INVARIANT DeleteTargetsLastRecording
PROPERTY NeverReopened
