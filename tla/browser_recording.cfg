SPECIFICATION Spec
CONSTANTS
  Turns <- TwoTurns
  Frames <- ThreeFramesThenNone
  FramesPerChunk = 2
  MaxInflight = 1
  Credits = 1
  MaxHeld = 3
  MaxTurn = 3
  MaxDrift = 1
  MaxSafe = 1000000
  Modes = {"pcm", "batch"}
  NoPress = 0
  Manual = 9
INVARIANTS
  ServerTakesWhatIsSent
  MicrophoneIsOwned
  VerdictIsTrue
  RecordingIsBound
PROPERTIES
  PressSettles
CHECK_DEADLOCK FALSE
