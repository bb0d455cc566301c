\* One bracket of two shares, filled share by share, one lost call, one crash.
SPECIFICATION Spec
CONSTANTS
  NVDA = NVDA
  AMD = AMD
  e1 = e1
  e2 = e2
  e3 = e3
  Tickers = {NVDA}
  Entries = {e1}
  TickerOf <- OneTicker
  ExitKinds = {"exit1"}
  Qty = 2
  InPieces = TRUE
  SessionEnds = TRUE
  MaxErrors = 1
  MaxCrashes = 1
INVARIANTS
  ConfirmedIsProtected
  PositionNeverFlips
  ExitIsAlone
  NeverSentTwice
