CONSTANTS
  Ids = {s1, s2, s3}
  Creators = {c1, c2, c3}
  MaxSessions = 2
  MaxTombstones = 1
  IdleTtl = 1
  TerminalRetention = 2
  RetryHorizon = 3
  MaxTime = 5
  NoId = NoId
SYMMETRY Symmetry
SPECIFICATION Spec
INVARIANTS CreationsAgree
PROPERTIES IdentityIsNotReused LiveSessionsStay ReceiptKeepsItsAttempt
CHECK_DEADLOCK FALSE
