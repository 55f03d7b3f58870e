\* Two sessions share a directory with room for one receipt.
SPECIFICATION WriterSpec
CONSTANTS
  Sessions = {s1, s2}
  NoSession = NoSession
  MaxFiles = 1
  Retention = 1
  TempAge = 1
  MaxEvents = 2
  MaxClock = 1
  MaxCrashes = 1
INVARIANTS
  RetentionHolds
PROPERTIES
  ImplementsDirectory
  WritesSettle
CHECK_DEADLOCK FALSE
