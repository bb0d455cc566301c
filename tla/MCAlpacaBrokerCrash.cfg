\* A crash before the legs are linked keeps their fills out for good.
SPECIFICATION LiveSpec
CONSTANTS
  NVDA = NVDA
  AMD = AMD
  e1 = e1
  e2 = e2
  e3 = e3
  Tickers = {NVDA}
  Entries = {e1}
  TickerOf <- OneTicker
  ExitKinds = {"exit1"}
  Qty = 1
  InPieces = FALSE
  SessionEnds = TRUE
  MaxErrors = 0
  MaxCrashes = 1
PROPERTIES
  FillsReachTheJournal
