\* Two runs that wait for one worker which may crash once, under fairness.
SPECIFICATION LiveSpec
CONSTANTS
  Jobs = {j1, j2}
  Workers = {w1}
  MaxAttempts = 2
  MaxFaults = 1
  ChildPhases <- NoPhases
  ExitFailures = {}
PROPERTIES
  EveryRunEnds
  CancelIsAnswered
  FirstComeFirstServed
