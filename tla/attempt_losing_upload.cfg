\* A losing upload takes the winner's deadline with it.
SPECIFICATION Spec
CONSTANTS
  Uploads = {u1, u2}
  Manuals = {}
  Channels = 1
  NoOne = NoOne
PROPERTIES
  AudioAttemptEnds
CHECK_DEADLOCK FALSE
