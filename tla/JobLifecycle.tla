---------------------------- MODULE JobLifecycle ----------------------------
(***************************************************************************)
(* What the job API promises of every run it accepts: the states a reader  *)
(* of GET /runs may see, in which order, and that a result exists exactly  *)
(* when the run is completed.  No worker, lease, file or clock is visible  *)
(* here.  One step may settle several runs (a recovery does).              *)
(***************************************************************************)
EXTENDS Naturals

CONSTANTS Runs,
          Tries   \* a run is started at most this often

VARIABLES status, starts, served

Active == {"running", "cancel_requested"}
Ended == {"completed", "failed", "cancelled"}

Init ==
  /\ status = [r \in Runs |-> "absent"]
  /\ starts = [r \in Runs |-> 0]
  /\ served = [r \in Runs |-> FALSE]

(* The moves of one run: from its state to the next one. *)
Submit(r) == status[r] = "absent" /\ status'[r] = "queued" /\ starts'[r] = starts[r]
Start(r) == status[r] = "queued" /\ status'[r] = "running" /\ starts'[r] = starts[r] + 1
GiveBack(r) ==
  /\ status[r] = "running" /\ starts[r] < Tries
  /\ status'[r] = "queued" /\ starts'[r] = starts[r]
AskToStop(r) == status[r] = "running" /\ status'[r] = "cancel_requested" /\ starts'[r] = starts[r]
Finish(r) == status[r] \in Active /\ status'[r] \in {"completed", "failed"} /\ starts'[r] = starts[r]
Stop(r) ==
  /\ status[r] \in {"queued", "cancel_requested"}
  /\ status'[r] = "cancelled" /\ starts'[r] = starts[r]

Move(r) == Submit(r) \/ Start(r) \/ GiveBack(r) \/ AskToStop(r) \/ Finish(r) \/ Stop(r)
Stay(r) == status'[r] = status[r] /\ starts'[r] = starts[r]

Next ==
  /\ \A r \in Runs : Move(r) \/ Stay(r)
  /\ \A r \in Runs : starts'[r] <= Tries
  /\ \A r \in Runs : served'[r] = (status'[r] = "completed")

Spec == Init /\ [][Next]_<<status, starts, served>>
=============================================================================
