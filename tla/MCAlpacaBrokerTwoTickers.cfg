\* Two tickers and one lost call: an uncertain order stops all entries.
SPECIFICATION Spec
CONSTANTS
  NVDA = NVDA
  AMD = AMD
  e1 = e1
  e2 = e2
  e3 = e3
  Tickers = {NVDA, AMD}
  Entries = {e1, e2, e3}
  TickerOf <- TwoTickers
  ExitKinds = {}
  Qty = 1
  InPieces = FALSE
  SessionEnds = FALSE
  MaxErrors = 1
  MaxCrashes = 0
INVARIANTS
  OnePositionPerTicker
PROPERTIES
  UncertainBlocksEntries
