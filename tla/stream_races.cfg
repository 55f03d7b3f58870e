\* A patient connection of up to three messages, and one that sends two at once and
\* may be slow to start.
SPECIFICATION Spec
CONSTANTS
  c1 = c1
  c2 = c2
  Conns = {c1, c2}
  Rival = Rival
  NoOne = NoOne
  MaxMessages <- TwoMessages
  Pipelined <- TwoPipelines
  SlowStart = {c2}
INVARIANTS
  NothingAfterTheVerdict
  FinalizedMeansResult
  OnlyCompleteStreamsAreAnalysed
PROPERTIES
  OnlyTheOwnerSeals
  TimelyStreamEnds
  ConnectionsLeave
CHECK_DEADLOCK FALSE
