\* An entry seen half filled, then closed by a leg before it is seen full.
SPECIFICATION Spec
CONSTANTS
  NVDA = NVDA
  AMD = AMD
  e1 = e1
  e2 = e2
  e3 = e3
  Tickers = {NVDA}
  Entries = {e1}
  TickerOf <- OneTicker
  ExitKinds = {"exit1"}
  Qty = 2
  InPieces = TRUE
  SessionEnds = TRUE
  MaxErrors = 0
  MaxCrashes = 0
INVARIANTS
  FillsCountedOnce
