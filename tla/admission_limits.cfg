SPECIFICATION Spec
CONSTANTS
  Uploads = {u1, u2}
  Streams = {s1}
  MaxIngressLeases = 2
  MaxIngressBytes = 9
  MaxPipelines = 2
  MaxPipelineBytes = 8
  MaxBody = 3
  MaxDecoded = 2
  LogLine = 1
  Header = 1
  ChunkSizes = {0, 1, 2}
INVARIANTS
  AccountsCoverMemory
  CapacityFollowsWork

  
CHECK_DEADLOCK FALSE
