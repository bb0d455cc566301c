\* One run, two workers that may both believe they hold it, two faults.
SPECIFICATION Spec
CONSTANTS
  Jobs = {j1}
  Workers = {w1, w2}
  MaxAttempts = 2
  MaxFaults = 2
  ChildPhases <- AllPhases
  ExitFailures = {"execution_failed"}
SYMMETRY Symmetric
INVARIANTS
  WorkerTypeOK
  ServedResultIsPublished
  LostOnlyAfterLastAttempt
  NothingLeftBehind
  PublishedByCleanExit
PROPERTIES
  EndedStaysEnded
  CancelBeforeLastCheckWins
  ImplementsLifecycle
