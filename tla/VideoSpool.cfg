SPECIFICATION Spec
CONSTANTS
  None = None
  Cameras = 2
  ChunkFrames = 2
  Frames = 4
INVARIANT TypeOK
INVARIANT VideoIsTheRecording
INVARIANT FramesAreKept
INVARIANT CleanIsFinalized
CHECK_DEADLOCK FALSE
