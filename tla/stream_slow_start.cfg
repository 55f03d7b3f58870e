\* The start timer runs out while audio.start is handled.
SPECIFICATION Spec
CONSTANTS
  c1 = c1
  c2 = c2
  Conns = {c1}
  Rival = Rival
  NoOne = NoOne
  MaxMessages <- OneMessage
  Pipelined <- OnePipeline
  SlowStart = {c1}
PROPERTIES
  StreamAttemptEnds
CHECK_DEADLOCK FALSE
