SPECIFICATION TranscriptionSpec
CONSTANTS
  Identities = {mine, other}
  MaxSafe = 8
  Times = {0, 1}
  Sequences = {1, 2, 4}
  ChunkFrames = {1, 2}
  ChunkBytes = {2, 4}
  Totals = {0, 1, 2, 3, 4, 6, 8}
  LossCounts = {0, 1}
  LossBytes = {0, 2}
  MaxQueuedChunks = 2
  MaxPartials = 1
INVARIANTS
  CompleteMeansWhole
  ReceiptCoheres
  TranscriptCoversTheSpool
PROPERTIES
  TranscriptionEnds
CHECK_DEADLOCK FALSE
