\* Two uploads and a transcript race for one attempt.
SPECIFICATION Spec
CONSTANTS
  Uploads = {u1, u2}
  Manuals = {m1}
  Channels = 3
  NoOne = NoOne
INVARIANTS
  OneReading
  CheckedCommitsAreLegal
PROPERTIES
  SealedLogIsFinal
  NoOverdueCommit
  LoneAudioEnds
CHECK_DEADLOCK FALSE
