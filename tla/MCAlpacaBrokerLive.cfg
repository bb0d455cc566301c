\* Entries that fill at once: lost calls do not keep a fill out of the journal.
SPECIFICATION LiveSpec
CONSTANTS
  NVDA = NVDA
  AMD = AMD
  e1 = e1
  e2 = e2
  e3 = e3
  Tickers = {NVDA}
  Entries = {e1}
  TickerOf <- OneTicker
  ExitKinds = {"exit1"}
  Qty = 2
  InPieces = FALSE
  SessionEnds = TRUE
  MaxErrors = 1
  MaxCrashes = 0
PROPERTIES
  FillsReachTheJournal
INVARIANTS
  FillsCountedOnce
