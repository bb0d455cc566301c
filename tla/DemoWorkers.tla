---------------------------- MODULE DemoWorkers ----------------------------
(***************************************************************************)
(* The supervising workers of src/demo/worker.py over the queue of         *)
(* JobStore.tla, with what they keep on disk, the child process of each    *)
(* attempt, and the two clients of the HTTP API that submit and cancel.    *)
(*                                                                         *)
(* A worker runs run_once over and over.  pc[w] is the call it makes next: *)
(* between two calls another worker, a client, a child, time or a crash    *)
(* may step.  An attempt is a pair <<job, token>>; its attempt directory,  *)
(* child, staging directory and published directory are named by it.       *)
(*                                                                         *)
(* MaxFaults bounds, over a behaviour, the crashes, the terminations and   *)
(* the I/O errors together; nothing else is bounded.                       *)
(***************************************************************************)
EXTENDS JobStore, Sequences

CONSTANTS Workers,
          MaxFaults,
          ChildPhases,  \* what a child writes to its phase file, in order
          ExitFailures  \* the failure codes of CHILD_FAILURES and its default

ASSUME MaxFaultsAssumption == MaxFaults \in Nat
ASSUME WorkersAssumption == IsFiniteSet(Workers)
ASSUME ChildAssumption == /\ ChildPhases \in Seq(Phases \ {"verifying"})
                          /\ ExitFailures \subseteq FailureCodes \ {"worker_lost"}

VARIABLES pc,           \* the next call of each worker
          job,          \* the job a worker has claimed, NoJob before
          token,        \* the lease token of that claim
          reason,       \* why supervision ended, then the failure code to record
          child,        \* the process of each attempt
          childPhase,   \* the phase file of each attempt: entries of ChildPhases written
          attempt_dirs, \* attempts/<token>
          staging,      \* results/.staging-<id>
          published,    \* results/<id>
          faults        \* crashes, terminations and I/O errors so far

worker == <<pc, job, token, reason>>
disk == <<child, childPhase, attempt_dirs, staging, published>>
vars == <<store, worker, disk, faults>>

NoJob == "no job"
ASSUME NoJobAssumption == NoJob \notin Jobs

AllAttempts == Jobs \X Attempts
ChildStates == {"none", "running", "exit_0", "stopped"} \cup ExitFailures
PCs == {"idle", "claiming", "preparing", "supervising", "stopping", "failing",
        "confirming", "verifying", "checking", "staging", "renaming", "syncing",
        "completing", "discarding", "cleanup"}
Reasons == {"none", "timeout", "cancel", "lost", "exited"} \cup FailureCodes

WorkerTypeOK ==
  /\ TypeOK
  /\ pc \in [Workers -> PCs]
  /\ job \in [Workers -> Jobs \cup {NoJob}]
  /\ token \in [Workers -> Attempts \cup {NoLease}]
  /\ reason \in [Workers -> Reasons]
  /\ child \in [AllAttempts -> ChildStates]
  /\ childPhase \in [AllAttempts -> 0..Len(ChildPhases)]
  /\ attempt_dirs \subseteq AllAttempts
  /\ staging \subseteq AllAttempts
  /\ published \subseteq AllAttempts
  /\ faults \in 0..MaxFaults

WInit ==
  /\ Init
  /\ pc = [w \in Workers |-> "idle"]
  /\ job = [w \in Workers |-> NoJob]
  /\ token = [w \in Workers |-> NoLease]
  /\ reason = [w \in Workers |-> "none"]
  /\ child = [a \in AllAttempts |-> "none"]
  /\ childPhase = [a \in AllAttempts |-> 0]
  /\ attempt_dirs = {}
  /\ staging = {}
  /\ published = {}
  /\ faults = 0

Mine(w) == <<job[w], token[w]>>

Goto(w, l) == pc' = [pc EXCEPT ![w] = l]
GotoFor(w, l, why) == Goto(w, l) /\ reason' = [reason EXCEPT ![w] = why]
Fault == faults < MaxFaults /\ faults' = faults + 1

-----------------------------------------------------------------------------
(* run_once: recover, then claim. *)

Recover(w) ==
  /\ pc[w] = "idle"
  /\ RecoverExpiredLeases
  /\ Goto(w, "claiming")
  /\ UNCHANGED <<job, token, reason, disk, faults>>

Claim(w) ==
  /\ pc[w] = "claiming"
  /\ \/ /\ NothingQueued
        /\ Goto(w, "idle")
        /\ UNCHANGED <<store, job, token>>
     \/ \E j \in Jobs :
          /\ ClaimNext(j)
          /\ Goto(w, "preparing")
          /\ job' = [job EXCEPT ![w] = j]
          /\ token' = [token EXCEPT ![w] = attempt[j] + 1]
  /\ UNCHANGED <<reason, disk, faults>>

(* The attempt directory, job.json and the child. *)
StartChild(w) ==
  /\ pc[w] = "preparing"
  /\ attempt_dirs' = attempt_dirs \cup {Mine(w)}
  /\ child' = [child EXCEPT ![Mine(w)] = "running"]
  /\ Goto(w, "supervising")
  /\ UNCHANGED <<store, job, token, reason, childPhase, staging, published, faults>>

-----------------------------------------------------------------------------
(* The loop of _supervise.  Each way out of it goes through _stop. *)

ChildExited(w) ==
  /\ pc[w] = "supervising"
  /\ child[Mine(w)] # "running"
  /\ GotoFor(w, "stopping", "exited")
  /\ UNCHANGED <<store, job, token, disk, faults>>

(* Mutant: the time limit is looked at only when the child has exited. *)
DeadlineReachedMutant(w) ==
  /\ pc[w] = "supervising"
  /\ child[Mine(w)] # "running"
  /\ GotoFor(w, "stopping", "timeout")
  /\ UNCHANGED <<store, job, token, disk, faults>>

DeadlineReached(w) ==
  /\ pc[w] = "supervising"
  /\ child[Mine(w)] = "running"
  /\ GotoFor(w, "stopping", "timeout")
  /\ UNCHANGED <<store, job, token, disk, faults>>

ReportedPhase(w) ==
  LET n == childPhase[Mine(w)] IN IF n = 0 THEN "none" ELSE ChildPhases[n]

(* The state a heartbeat returns is the one read in its transaction. *)
Supervise(w) ==
  /\ pc[w] = "supervising"
  /\ child[Mine(w)] = "running"
  /\ \/ /\ Heartbeat(job[w], token[w], ReportedPhase(w))
        /\ IF state[job[w]] = "cancel_requested"
             THEN GotoFor(w, "stopping", "cancel")
             ELSE UNCHANGED <<pc, reason>>
     \/ /\ ~LiveLease(job[w], token[w])
        /\ GotoFor(w, "stopping", "lost")
        /\ UNCHANGED store
  /\ UNCHANGED <<job, token, disk, faults>>

(* Mutant: any exit leads to verification. *)
StopChildMutant(w) ==
  /\ pc[w] = "stopping"
  /\ child' = [child EXCEPT ![Mine(w)] = IF @ = "running" THEN "stopped" ELSE @]
  /\ \/ reason[w] = "timeout" /\ GotoFor(w, "failing", "timeout")
     \/ reason[w] = "cancel" /\ GotoFor(w, "confirming", "none")
     \/ reason[w] = "lost" /\ GotoFor(w, "cleanup", "none")
     \/ reason[w] = "exited" /\ GotoFor(w, "verifying", "none")
  /\ UNCHANGED <<store, job, token, childPhase, attempt_dirs, staging, published, faults>>

StopChild(w) ==
  /\ pc[w] = "stopping"
  /\ child' = [child EXCEPT ![Mine(w)] = IF @ = "running" THEN "stopped" ELSE @]
  /\ \/ reason[w] = "timeout" /\ GotoFor(w, "failing", "timeout")
     \/ reason[w] = "cancel" /\ GotoFor(w, "confirming", "none")
     \/ reason[w] = "lost" /\ GotoFor(w, "cleanup", "none")
     \/ /\ reason[w] = "exited"
        /\ IF child[Mine(w)] = "exit_0"
             THEN GotoFor(w, "verifying", "none")
             ELSE GotoFor(w, "failing", child[Mine(w)])
  /\ UNCHANGED <<store, job, token, childPhase, attempt_dirs, staging, published, faults>>

-----------------------------------------------------------------------------
(* What follows the loop.  A call that raises LeaseLost leaves for cleanup. *)

RecordFailure(w) ==
  /\ pc[w] = "failing"
  /\ \/ Fail(job[w], token[w], reason[w])
     \/ ~LiveLease(job[w], token[w]) /\ UNCHANGED store
  /\ GotoFor(w, "cleanup", "none")
  /\ UNCHANGED <<job, token, disk, faults>>

ConfirmCancel(w) ==
  /\ pc[w] = "confirming"
  /\ \/ ConfirmCancelled(job[w], token[w])
     \/ /\ ~(LiveLease(job[w], token[w]) /\ state[job[w]] = "cancel_requested")
        /\ UNCHANGED store
  /\ Goto(w, "cleanup")
  /\ UNCHANGED <<job, token, reason, disk, faults>>

(* Mutant: the state that the heartbeat returns is not looked at. *)
LastHeartbeatMutant(w) ==
  /\ pc[w] = "verifying"
  /\ \/ Heartbeat(job[w], token[w], "verifying") /\ Goto(w, "checking")
     \/ ~LiveLease(job[w], token[w]) /\ UNCHANGED store /\ Goto(w, "cleanup")
  /\ UNCHANGED <<job, token, reason, disk, faults>>

(* The last look at a pending cancel. *)
LastHeartbeat(w) ==
  /\ pc[w] = "verifying"
  /\ \/ /\ Heartbeat(job[w], token[w], "verifying")
        /\ Goto(w, IF state[job[w]] = "cancel_requested" THEN "confirming" ELSE "checking")
     \/ /\ ~LiveLease(job[w], token[w])
        /\ UNCHANGED store
        /\ Goto(w, "cleanup")
  /\ UNCHANGED <<job, token, reason, disk, faults>>

(* _verified_output accepts what the child wrote or raises. *)
VerifyOutput(w) ==
  /\ pc[w] = "checking"
  /\ \/ GotoFor(w, "staging", "none")
     \/ GotoFor(w, "failing", "artifact_invalid")
  /\ UNCHANGED <<store, job, token, disk, faults>>

(* _publish: write the staging directory, rename it, sync the parent.  An  *)
(* OSError before the rename removes the staging directory, one after it   *)
(* leaves the published directory where it is.                             *)
Stage(w) ==
  /\ pc[w] = "staging"
  /\ staging' = staging \cup {Mine(w)}
  /\ Goto(w, "renaming")
  /\ UNCHANGED <<store, job, token, reason, child, childPhase, attempt_dirs, published, faults>>

Rename(w) ==
  /\ pc[w] = "renaming"
  /\ staging' = staging \ {Mine(w)}
  /\ \/ /\ published' = published \cup {Mine(w)}
        /\ Goto(w, "syncing")
        /\ UNCHANGED <<reason, faults>>
     \/ /\ Fault
        /\ GotoFor(w, "failing", "execution_failed")
        /\ UNCHANGED published
  /\ UNCHANGED <<store, job, token, child, childPhase, attempt_dirs>>

SyncParent(w) ==
  /\ pc[w] = "syncing"
  /\ \/ Goto(w, "completing") /\ UNCHANGED <<reason, faults>>
     \/ Fault /\ GotoFor(w, "failing", "execution_failed")
  /\ UNCHANGED <<store, job, token, disk>>

(* Mutant: a lost lease leaves the published directory where it is. *)
RecordResultMutant(w) ==
  /\ pc[w] = "completing"
  /\ Complete(job[w], token[w]) \/ (~Leased(job[w], token[w]) /\ UNCHANGED store)
  /\ Goto(w, "cleanup")
  /\ UNCHANGED <<job, token, reason, disk, faults>>

RecordResult(w) ==
  /\ pc[w] = "completing"
  /\ \/ Complete(job[w], token[w]) /\ Goto(w, "cleanup")
     \/ ~Leased(job[w], token[w]) /\ UNCHANGED store /\ Goto(w, "discarding")
  /\ UNCHANGED <<job, token, reason, disk, faults>>

Discard(w) ==
  /\ pc[w] = "discarding"
  /\ published' = published \ {Mine(w)}
  /\ Goto(w, "cleanup")
  /\ UNCHANGED <<store, job, token, reason, child, childPhase, attempt_dirs, staging, faults>>

(* The finally block of run_once. *)
Forget(w) ==
  /\ job' = [job EXCEPT ![w] = NoJob]
  /\ token' = [token EXCEPT ![w] = NoLease]
  /\ GotoFor(w, "idle", "none")

Cleanup(w) ==
  /\ pc[w] = "cleanup"
  /\ attempt_dirs' = attempt_dirs \ {Mine(w)}
  /\ Forget(w)
  /\ UNCHANGED <<store, child, childPhase, staging, published, faults>>

-----------------------------------------------------------------------------
(* SIGKILL or power loss: nothing on disk is cleaned and the child goes on. *)
Crash(w) ==
  /\ pc[w] # "idle"
  /\ Fault
  /\ Forget(w)
  /\ UNCHANGED <<store, disk>>

(* SIGTERM, or an exception that nobody catches (a busy database, a failed *)
(* Popen): the finally blocks run, the process ends and is started again.  *)
(* A signal that lands in _stop itself may leave the child running.        *)
Terminate(w) ==
  /\ pc[w] # "idle"
  /\ Fault
  /\ attempt_dirs' = attempt_dirs \ {Mine(w)}
  /\ staging' = staging \ {Mine(w)}
  /\ \/ /\ pc[w] \in {"supervising", "stopping"}
        /\ child' = [child EXCEPT ![Mine(w)] = IF @ = "running" THEN "stopped" ELSE @]
     \/ pc[w] # "supervising" /\ UNCHANGED child
  /\ Forget(w)
  /\ UNCHANGED <<store, childPhase, published>>

(* The replay child: it reports its phases in order and exits. *)
ChildReports(a) ==
  /\ child[a] = "running"
  /\ childPhase[a] < Len(ChildPhases)
  /\ childPhase' = [childPhase EXCEPT ![a] = @ + 1]
  /\ UNCHANGED <<store, worker, child, attempt_dirs, staging, published, faults>>

ChildExits(a) ==
  /\ child[a] = "running"
  /\ \/ childPhase[a] = Len(ChildPhases) /\ child' = [child EXCEPT ![a] = "exit_0"]
     \/ \E e \in ExitFailures : child' = [child EXCEPT ![a] = e]
  /\ UNCHANGED <<store, worker, childPhase, attempt_dirs, staging, published, faults>>

Client == \E j \in Jobs : Submit(j) \/ RequestCancel(j)
Time == \E j \in Jobs : LeaseLapses(j)

WorkerStep(w) ==
  \/ Recover(w) \/ Claim(w) \/ StartChild(w)
  \/ ChildExited(w) \/ DeadlineReached(w) \/ Supervise(w) \/ StopChild(w)
  \/ RecordFailure(w) \/ ConfirmCancel(w) \/ LastHeartbeat(w)
  \/ VerifyOutput(w) \/ Stage(w) \/ Rename(w) \/ SyncParent(w)
  \/ RecordResult(w) \/ Discard(w) \/ Cleanup(w)

Next ==
  \/ \E w \in Workers : WorkerStep(w) \/ Crash(w) \/ Terminate(w)
  \/ \E a \in AllAttempts : ChildReports(a) \/ ChildExits(a)
  \/ (Client \/ Time) /\ UNCHANGED <<worker, disk, faults>>

Spec == WInit /\ [][Next]_vars

(* A worker process is scheduled and restarted; its time limit passes; and *)
(* the lease of a job no live worker holds runs out.                       *)
HeldByWorker(j) == \E w \in Workers : Mine(w) = <<j, lease[j]>>
Fairness ==
  /\ \A w \in Workers : WF_vars(WorkerStep(w)) /\ WF_vars(DeadlineReached(w))
  /\ \A j \in Jobs : WF_vars(/\ LeaseLapses(j) /\ ~HeldByWorker(j)
                             /\ UNCHANGED <<worker, disk, faults>>)
LiveSpec == Spec /\ Fairness

-----------------------------------------------------------------------------
(* Properties. *)

PastLastCheck(j) ==
  \E w \in Workers : /\ Mine(w) = <<j, lease[j]>>
                     /\ pc[w] \in {"checking", "staging", "renaming", "syncing", "completing"}

(* A run has a result exactly when it is completed, it is the output of    *)
(* its last attempt, and the directory it names is in place: no crash, no  *)
(* lost lease and no discard by a rival attempt takes it away (complete,   *)
(* _publish, the rmtree after LeaseLost).                                  *)
ServedResultIsPublished ==
  \A j \in Jobs :
    /\ state[j] = "completed" <=> result[j] # NoResult
    /\ state[j] = "completed" => result[j] = attempt[j] /\ <<j, result[j]>> \in published

(* A run is given up as worker_lost only after its last permitted attempt, *)
(* and a run that still may be tried has an attempt left.                  *)
LostOnlyAfterLastAttempt ==
  \A j \in Jobs : /\ failure[j] = "worker_lost" => attempt[j] = MaxAttempts
                  /\ state[j] = "queued" => attempt[j] < MaxAttempts

(* The queue is first come, first served: who comes later stands behind    *)
(* everybody who is there, nobody's place ever changes, and while a run    *)
(* waits, one that recovery has put back included, no worker starts a      *)
(* younger one (the ORDER BY of claim_next over what submit and            *)
(* recover_expired_leases write).                                          *)
FirstComeFirstServed ==
  [][\A j, k \in Jobs :
       /\ (state[j] # "absent" /\ state[k] = "absent" /\ state'[k] # "absent")
            => seq'[j] < seq'[k]
       /\ (state[j] # "absent" /\ state[k] # "absent")
            => (seq'[j] < seq'[k] <=> seq[j] < seq[k])
       /\ (state[j] = "queued" /\ state'[j] = "queued" /\ seq[j] < seq[k])
            => attempt'[k] = attempt[k]]_vars

(* As long as nothing crashed and no I/O failed, whatever is on disk or    *)
(* running belongs to a worker at work or is a served result: every path   *)
(* of run_once, losing the lease included, cleans up after itself.         *)
NothingLeftBehind ==
  faults = 0 =>
    \A a \in AllAttempts :
      a \in attempt_dirs \cup staging \/ child[a] = "running"
        \/ (a \in published /\ result[a[1]] # a[2])
      => \E w \in Workers : Mine(w) = a

(* An orphaned child cannot publish: each published directory comes from a *)
(* child that exited cleanly, after all of its phases.                     *)
PublishedByCleanExit ==
  \A a \in published : child[a] = "exit_0" /\ childPhase[a] = Len(ChildPhases)

(* An ended run never changes again, whatever stale workers still call.    *)
EndedStaysEnded ==
  [][\A j \in Jobs : state[j] \in TerminalStates =>
       <<state[j], result[j], failure[j], attempt[j]>>'
         = <<state[j], result[j], failure[j], attempt[j]>>]_vars

(* A cancel that is there when the worker checks for the last time wins:   *)
(* the worker of that run does not go on to publish.                       *)
CancelBeforeLastCheckWins ==
  [][\A j \in Jobs : state[j] = "cancel_requested" /\ ~PastLastCheck(j)
                       => ~PastLastCheck(j)']_vars

(* Every accepted run ends, and a requested cancel is answered. *)
EveryRunEnds == \A j \in Jobs : state[j] = "queued" ~> state[j] \in TerminalStates
CancelIsAnswered ==
  \A j \in Jobs : state[j] = "cancel_requested" ~> state[j] \in TerminalStates

(* The queue, its workers and their crashes implement the life of a run    *)
(* that the API promises.                                                  *)
Lifecycle == INSTANCE JobLifecycle WITH
               Runs <- Jobs, Tries <- MaxAttempts, status <- state, starts <- attempt,
               served <- [j \in Jobs |-> result[j] # NoResult]
ImplementsLifecycle == Lifecycle!Spec
=============================================================================
