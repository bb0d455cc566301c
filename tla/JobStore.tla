------------------------------ MODULE JobStore ------------------------------
(***************************************************************************)
(* The durable queue of demo replay jobs: class JobStore of                *)
(* src/demo/jobs.py.  Every mutation of the code runs in one BEGIN         *)
(* IMMEDIATE transaction, so every operator below is one step.  A row of   *)
(* demo_jobs is spread over one function per column.                       *)
(*                                                                         *)
(* A lease token is a fresh UUID drawn by each claim.  A claim also adds 1 *)
(* to the attempt of the job, so the attempt number names the claim, and   *)
(* it stands for the token; NoLease is the NULL column.  What the code     *)
(* does with the clock is compare it with lease_expires_at: lapsed[j] says *)
(* that lease_expires_at < now, and LeaseLapses is the passing of time.    *)
(*                                                                         *)
(* The operators named ...Mutant, here and in the other modules, are what  *)
(* a plausible slip would make of the definition that follows them; no     *)
(* specification uses them (README, "Mutants").                            *)
(***************************************************************************)
EXTENDS Naturals, FiniteSets

CONSTANTS Jobs,          \* the jobs that may ever be submitted
          MaxAttempts    \* MAX_ATTEMPTS: claims a job may have before worker_lost

ASSUME MaxAttemptsAssumption == MaxAttempts \in Nat \ {0}
ASSUME JobsAssumption == IsFiniteSet(Jobs)

VARIABLES state,             \* column state, "absent" before the INSERT
          phase,             \* column phase, "none" for NULL
          attempt,           \* column attempt
          lease,             \* column lease_token
          lapsed,            \* lease_expires_at < now
          seq,               \* column seq, 0 before the INSERT
          cancel_requested,  \* column cancel_requested_at IS NOT NULL
          failure,           \* the code in column failure_json
          result             \* demo_job_results: the attempt that produced it

store == <<state, phase, attempt, lease, lapsed, seq, cancel_requested,
           failure, result>>

ActiveStates == {"running", "cancel_requested"}
TerminalStates == {"completed", "failed", "cancelled"}
States == {"absent", "queued"} \cup ActiveStates \cup TerminalStates

Phases == {"validating", "replaying", "exporting", "verifying"}
FailureCodes == {"validation_failed", "input_unavailable", "execution_failed",
                 "timeout", "artifact_invalid", "worker_lost"}

Attempts == 1..MaxAttempts
NoLease == 0
NoResult == 0

TypeOK ==
  /\ state \in [Jobs -> States]
  /\ phase \in [Jobs -> Phases \cup {"none"}]
  /\ attempt \in [Jobs -> 0..MaxAttempts]
  /\ lease \in [Jobs -> Attempts \cup {NoLease}]
  /\ lapsed \in [Jobs -> BOOLEAN]
  /\ seq \in [Jobs -> Nat]
  /\ cancel_requested \in [Jobs -> BOOLEAN]
  /\ failure \in [Jobs -> FailureCodes \cup {"none"}]
  /\ result \in [Jobs -> Attempts \cup {NoResult}]

Init ==
  /\ state = [j \in Jobs |-> "absent"]
  /\ phase = [j \in Jobs |-> "none"]
  /\ attempt = [j \in Jobs |-> 0]
  /\ lease = [j \in Jobs |-> NoLease]
  /\ lapsed = [j \in Jobs |-> FALSE]
  /\ seq = [j \in Jobs |-> 0]
  /\ cancel_requested = [j \in Jobs |-> FALSE]
  /\ failure = [j \in Jobs |-> "none"]
  /\ result = [j \in Jobs |-> NoResult]

Submitted == {j \in Jobs : state[j] # "absent"}

(* The INSERT of submit; which request gets which job is JobSubmission.tla. *)
Submit(j) ==
  /\ state[j] = "absent"
  /\ state' = [state EXCEPT ![j] = "queued"]
  /\ seq' = [seq EXCEPT ![j] = Cardinality(Submitted) + 1]
  /\ UNCHANGED <<phase, attempt, lease, lapsed, cancel_requested, failure, result>>

(* Mutant: the state of the row is not looked at. *)
RequestCancelMutant(j) ==
  /\ state[j] # "absent"
  /\ state' = [state EXCEPT ![j] =
                 IF @ = "queued" THEN "cancelled" ELSE "cancel_requested"]
  /\ cancel_requested' = [cancel_requested EXCEPT ![j] = TRUE]
  /\ UNCHANGED <<phase, attempt, lease, lapsed, seq, failure, result>>

(* A queued job is cancelled on the spot; a running one is asked to stop.  *)
(* In any other state the code changes nothing.                            *)
RequestCancel(j) ==
  /\ state[j] \in {"queued", "running"}
  /\ state' = [state EXCEPT ![j] =
                 IF @ = "queued" THEN "cancelled" ELSE "cancel_requested"]
  /\ cancel_requested' = [cancel_requested EXCEPT ![j] = TRUE]
  /\ UNCHANGED <<phase, attempt, lease, lapsed, seq, failure, result>>

(* Mutant: ORDER BY attempt, seq, so that a run put back has to wait for   *)
(* the younger ones that were never started.                               *)
OldestQueuedMutant(j) ==
  /\ state[j] = "queued"
  /\ \A k \in Jobs : state[k] = "queued" =>
       attempt[j] < attempt[k] \/ (attempt[j] = attempt[k] /\ seq[j] <= seq[k])

OldestQueued(j) ==
  /\ state[j] = "queued"
  /\ \A k \in Jobs : state[k] = "queued" => seq[j] <= seq[k]

NothingQueued == \A j \in Jobs : state[j] # "queued"

ClaimNext(j) ==
  /\ OldestQueued(j)
  /\ state' = [state EXCEPT ![j] = "running"]
  /\ phase' = [phase EXCEPT ![j] = "validating"]
  /\ attempt' = [attempt EXCEPT ![j] = @ + 1]
  /\ lease' = [lease EXCEPT ![j] = attempt[j] + 1]
  /\ lapsed' = [lapsed EXCEPT ![j] = FALSE]
  /\ UNCHANGED <<seq, cancel_requested, failure, result>>

(* _leased_row without and with the clock.  A caller whose row does not    *)
(* qualify gets LeaseLost and changes nothing.                             *)
Leased(j, token) == state[j] \in ActiveStates /\ lease[j] = token
LiveLease(j, token) == Leased(j, token) /\ ~lapsed[j]

(* p is the phase read from the attempt directory, "none" when it cannot be *)
(* read: COALESCE then keeps the old one.                                   *)
Heartbeat(j, token, p) ==
  /\ LiveLease(j, token)
  /\ phase' = [phase EXCEPT ![j] = IF p = "none" THEN @ ELSE p]
  /\ lapsed' = [lapsed EXCEPT ![j] = FALSE]
  /\ UNCHANGED <<state, attempt, lease, seq, cancel_requested, failure, result>>

(* The end of a job clears its lease. *)
EndJob(j, s) ==
  /\ state' = [state EXCEPT ![j] = s]
  /\ lease' = [lease EXCEPT ![j] = NoLease]
  /\ lapsed' = [lapsed EXCEPT ![j] = FALSE]
  /\ UNCHANGED <<phase, attempt, seq, cancel_requested>>

(* Mutant: the result is recorded for whatever attempt is running. *)
CompleteMutant(j, token) ==
  /\ state[j] \in ActiveStates
  /\ EndJob(j, "completed")
  /\ result' = [result EXCEPT ![j] = token]
  /\ UNCHANGED failure

(* complete does not look at the clock: a matching token proves that       *)
(* recovery has not run.  The result row is part of the transaction.       *)
Complete(j, token) ==
  /\ Leased(j, token)
  /\ EndJob(j, "completed")
  /\ result' = [result EXCEPT ![j] = token]
  /\ UNCHANGED failure

Fail(j, token, code) ==
  /\ LiveLease(j, token)
  /\ EndJob(j, "failed")
  /\ failure' = [failure EXCEPT ![j] = code]
  /\ UNCHANGED result

ConfirmCancelled(j, token) ==
  /\ LiveLease(j, token)
  /\ state[j] = "cancel_requested"
  /\ EndJob(j, "cancelled")
  /\ UNCHANGED <<failure, result>>

(* Mutant: only running rows are looked for. *)
ExpiredMutant == {j \in Jobs : state[j] = "running" /\ lapsed[j]}

Expired == {j \in Jobs : state[j] \in ActiveStates /\ lapsed[j]}

(* Mutants: an attempt too many, one too few, and a cancel forgotten. *)
RecoveredLateMutant(j) ==
  IF state[j] = "cancel_requested" THEN "cancelled"
  ELSE IF attempt[j] <= MaxAttempts THEN "queued" ELSE "failed"
RecoveredEarlyMutant(j) ==
  IF state[j] = "cancel_requested" THEN "cancelled"
  ELSE IF attempt[j] + 1 < MaxAttempts THEN "queued" ELSE "failed"
RecoveredMutant(j) == IF attempt[j] < MaxAttempts THEN "queued" ELSE "failed"

Recovered(j) ==
  CASE state[j] = "cancel_requested"                               -> "cancelled"
    [] state[j] # "cancel_requested" /\ attempt[j] < MaxAttempts   -> "queued"
    [] state[j] # "cancel_requested" /\ ~(attempt[j] < MaxAttempts) -> "failed"

(* One transaction settles every lease that has run out. *)
RecoverExpiredLeases ==
  /\ state' = [j \in Jobs |-> IF j \in Expired THEN Recovered(j) ELSE state[j]]
  /\ phase' = [j \in Jobs |->
                 IF j \in Expired /\ Recovered(j) = "queued" THEN "none" ELSE phase[j]]
  /\ lease' = [j \in Jobs |-> IF j \in Expired THEN NoLease ELSE lease[j]]
  /\ lapsed' = [j \in Jobs |-> IF j \in Expired THEN FALSE ELSE lapsed[j]]
  /\ failure' = [j \in Jobs |->
                   IF j \in Expired /\ Recovered(j) = "failed" THEN "worker_lost" ELSE failure[j]]
  /\ UNCHANGED <<attempt, seq, cancel_requested, result>>

(* Time passes lease_expires_at without a heartbeat. *)
LeaseLapses(j) ==
  /\ state[j] \in ActiveStates
  /\ ~lapsed[j]
  /\ lapsed' = [lapsed EXCEPT ![j] = TRUE]
  /\ UNCHANGED <<state, phase, attempt, lease, seq, cancel_requested, failure, result>>
=============================================================================
