\* Two symbols over one session, two exceptions or ends of the process.
SPECIFICATION Spec
CONSTANTS
  Symbols = {1, 2}
  Minutes = 2
  SessionBuckets = 4
  Sessions = 1
  Slots = 1
  Grace = 0
  Policies = {"overnight", "flatten"}
  MaxFaults = 2
  MaxLag <- SecondIsLate
INVARIANTS
  MemoryIsJournal
  DecidedOnce
  CapitalAtTheOpen
  NextObservedBar
  FlattenedAtClose
PROPERTIES
  FailureStaysVisible
