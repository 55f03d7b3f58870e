SPECIFICATION PipelineSpec
CONSTANTS
  Requests = {j1, j2}
  Probes = {p1}
  MaxPending = 1
  Cancellable = {j1}
INVARIANTS
  OneModel
  NobodyWaitsOnTheDead
  SlotOutlastsWork
PROPERTIES
  EverythingRests
CHECK_DEADLOCK FALSE
