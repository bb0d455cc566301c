\* One distribution with six revisions, four payments, two sides and a borrow fee.
SPECIFICATION Spec
CONSTANTS
  CENT = 3
  Holdings <- SomeHoldings
  Actions <- SomeActions
  Settlements <- SomeSettlements
  Interval <- SomeInterval
  Bars = {0, 2}
  Modes = {"causal_capital_rerun", "fixed_trade_restatement"}
  Coverage = {1}
  Horizon = 2
  MaxFacts = 3
  MaxCopies = 1
INVARIANTS
  LedgerIsBook
  OverlayIsLedger
  BookIsSound
PROPERTIES
  CausalViewIsStable
CHECK_DEADLOCK FALSE
