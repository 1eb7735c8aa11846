SPECIFICATION Spec
CONSTANTS
  MaxEpisodes = 1
  Loggers = {"arm", "camera"}
  Flaky = {"camera"}
  Crashes = FALSE
  IoFaults = FALSE
  Prompt = TRUE
  Grace = FALSE
PROPERTY QuitAtAnyPointShutsDown
