\* Two symbols that share the capital, one seeded session and two live ones.
SPECIFICATION Spec
CONSTANTS
  Symbols = {1, 2}
  Batches <- SomeBatches
  SessionBuckets = 3
  SeedSessions = 1
  Sessions = 3
  WindowSize = 3
  WARMUP_BARS = 1
  RVOL_MIN_OBSERVATIONS = 1
  RVOL_PRIOR_SESSIONS = 2
  Slots = 1
  Flatten = FALSE
  MaxFaults = 1
INVARIANTS
  MemoryIsState
  StateIsReplay
  NoLookAhead
PROPERTIES
  ImplementsLog
CHECK_DEADLOCK FALSE
