--------------------------- MODULE MCAlpacaBroker ---------------------------
(* Instances of AlpacaBroker.tla for TLC. *)
EXTENDS PositionState, TLC

CONSTANTS NVDA, AMD, e1, e2, e3
OneTicker == [e \in Entries |-> NVDA]
TwoTickers == e1 :> NVDA @@ e2 :> AMD @@ e3 :> NVDA
=============================================================================
