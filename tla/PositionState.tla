---------------------------- MODULE PositionState ----------------------------
(***************************************************************************)
(* What src/dashboard/position_state.py reads from the journal of          *)
(* AlpacaBroker.tla: whether the protection of an open position is         *)
(* "confirmed".  The dashboard reads one snapshot of the journal at any    *)
(* moment, between any two steps of the worker and of the broker.          *)
(*                                                                         *)
(* The ages of the rows and of the last observation are left out: they can *)
(* only turn "confirmed" into "unconfirmed", and what holds without them   *)
(* holds with them.                                                        *)
(***************************************************************************)
EXTENDS AlpacaBroker

ACTIVE == {"new", "accepted", "partially_filled"}

parent(e) == linked[<<e, "entry">>] /\ ostate[<<e, "entry">>] = "filled"

(* A child row of the parent that carries the trade id. *)
child(e, kind) == linked[<<e, kind>>] /\ ostate[<<e, kind>>] # "absent"
covered(e, kind) ==
  LET o == <<e, kind>> IN broker_qty[o] # NoQty /\ broker_qty[o] - applied[o] = remaining[e]
active(e, kind) == child(e, kind) /\ ostate[<<e, kind>>] \in ACTIVE /\ covered(e, kind)

(* Market exits that are not terminal, and an exit that is intended. *)
exits(e) == {k \in ExitKinds : linked[<<e, k>>] /\ Open(<<e, k>>)}
pending_exitMutant(e) == FALSE      \* Mutant: an intended exit is not looked at.
pending_exit(e) == pending[e] \/ flatten[e]

confirmed(e) ==
  /\ trade[e] = "open" /\ parent(e) /\ remaining[e] > 0
  /\ \A kind \in Legs : active(e, kind)
  /\ ~pending_exit(e) /\ exits(e) = {}

(* What the dashboard calls confirmed is protected at the broker itself,   *)
(* although the rows it reads are older than the broker's state: whatever  *)
(* of the position is left is covered by both legs to the share, neither   *)
(* of them canceled, and no market exit is at work beside them.            *)
ConfirmedIsProtected ==
  \A e \in Entries :
    confirmed(e) =>
      /\ \A k \in ExitKinds : bstate[<<e, k>>] \notin Working
      /\ LET left == holding[TickerOf[e]] IN
         left > 0 => \A k \in Legs :
           bstate[<<e, k>>] \in Working /\ bqty[<<e, k>>] - filled[<<e, k>>] = left
=============================================================================
