\* Two sessions hand the speaker to one another until it is shut down.
SPECIFICATION SpeechSpec
CONSTANTS
  Keys = {k1, k2}
  NoKey = NoKey
  MaxTasks = 2
  Waiters = {w1, w2}
INVARIANTS
  OneSpokenTurn
  OneVoice
PROPERTIES
  ImplementsSlot
  SpokenTurnsEnd
CHECK_DEADLOCK FALSE
