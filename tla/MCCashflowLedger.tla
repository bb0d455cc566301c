-------------------------- MODULE MCCashflowLedger --------------------------
(* Instances of CashflowLedger.tla for TLC. *)
EXTENDS CashflowLedger

Lot(id, side, quantity, exit) ==
  [lot_id |-> id, side |-> side, quantity |-> quantity, entry_at |-> 0, exit_at |-> exit]
SomeHoldings == {Lot(1, "LONG", 1, None), Lot(2, "LONG", 2, 1), Lot(3, "SHORT", 1, None)}

Action(revision, supersedes, rate, cancelled) ==
  [action_id |-> 1, ex_at |-> 1, per_share |-> rate, currency |-> TRUE, cancelled |-> cancelled,
   revision_id |-> revision, supersedes |-> supersedes]
SomeActions ==
  {Action(1, None, 4, FALSE),      \* the first announcement,
   Action(2, 1, 2, FALSE),         \* a correction of it,
   Action(3, None, 5, FALSE),      \* one that names no predecessor,
   Action(4, 1, None, TRUE),       \* a cancellation,
   [Action(5, 1, 4, FALSE) EXCEPT !.ex_at = 0],   \* an earlier day, when nobody held it,
   [Action(6, 1, 4, FALSE) EXCEPT !.ex_at = 2]}   \* and a later one.

Settled(id, of, side, amount, at, kind) ==
  [payment_id |-> id, action_id |-> of, side |-> side, amount |-> amount, occurred_at |-> at,
   kind |-> kind, currency |-> TRUE]
SomeSettlements ==
  {Settled(11, 1, "LONG", 12, 0, "payment"),     \* paid early, as the last is,
   Settled(12, 1, "SHORT", 3, 1, "payment"), Settled(13, 1, Both, 3, 2, "refund"),
   Settled(12, 7, "SHORT", 3, 1, "payment")}     \* with the id of another.

SomeInterval ==
  [interval_id |-> 7, quantity |-> 1, daily |-> 2, days |-> 2, currency |-> TRUE,
   knowledge_at |-> 0]
=============================================================================
