\* Two attempts of up to four events, one broken connection, a response that buffers one.
SPECIFICATION FollowSpec
CONSTANTS
  Types <- Followed
  MaxEvents = 4
  MaxAttempts = 2
  MaxDrops = 1
  MaxBuffered = 1
INVARIANTS
  ViewIsFaithful
PROPERTIES
  ViewCatchesUp
CHECK_DEADLOCK FALSE
