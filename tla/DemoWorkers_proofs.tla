------------------------- MODULE DemoWorkers_proofs -------------------------
(***************************************************************************)
(* Theorems about DemoWorkers.tla, for every number of jobs, workers,      *)
(* attempts and faults: first what every operation of JobStore.tla keeps   *)
(* true of its rows, then which worker holds which attempt, and what it    *)
(* has on disk when it reports it.                                         *)
(***************************************************************************)
EXTENDS DemoWorkers, FiniteSetTheorems, TLAPS

-----------------------------------------------------------------------------
(* The rows of the store.                                                  *)

(* A row is leased exactly while its job is active, to the claim counted   *)
(* last; a queued job has an attempt left; a result belongs to a completed *)
(* job and a failure to a failed one, worker_lost after the last attempt.  *)
RowInv(j) ==
  /\ state[j] \in ActiveStates <=> lease[j] # NoLease
  /\ lease[j] # NoLease => lease[j] = attempt[j]
  /\ state[j] = "absent" => attempt[j] = 0
  /\ state[j] = "queued" => attempt[j] < MaxAttempts
  /\ state[j] = "completed" <=> result[j] # NoResult
  /\ state[j] = "completed" => result[j] = attempt[j]
  /\ failure[j] # "none" => state[j] = "failed"
  /\ failure[j] = "worker_lost" => attempt[j] = MaxAttempts

StoreInv == TypeOK /\ \A j \in Jobs : RowInv(j)

(* How a step may move a row from one state to the next. *)
StateMoves(j) ==
  \/ state'[j] = state[j] /\ attempt'[j] = attempt[j]
  \/ state[j] = "absent" /\ state'[j] = "queued" /\ attempt'[j] = attempt[j]
  \/ state[j] = "queued" /\ state'[j] = "running" /\ attempt'[j] = attempt[j] + 1
  \/ /\ state[j] = "running" /\ state'[j] = "queued"
     /\ attempt[j] < MaxAttempts /\ attempt'[j] = attempt[j]
  \/ state[j] = "running" /\ state'[j] = "cancel_requested" /\ attempt'[j] = attempt[j]
  \/ /\ state[j] \in ActiveStates /\ state'[j] \in {"completed", "failed"}
     /\ attempt'[j] = attempt[j]
  \/ /\ state[j] \in {"queued", "cancel_requested"} /\ state'[j] = "cancelled"
     /\ attempt'[j] = attempt[j]

(* What a step never does to the rows: it takes no attempt back, changes   *)
(* no ended job, moves no job but as above, and gives a result only to the *)
(* attempt that holds the lease.                                           *)
RowMoves(j) ==
  /\ attempt[j] <= attempt'[j]
  /\ StateMoves(j)
  /\ state[j] \in TerminalStates =>
       <<state[j], result[j], failure[j], attempt[j]>>'
         = <<state[j], result[j], failure[j], attempt[j]>>
  /\ result'[j] # result[j] => result'[j] = lease[j] /\ lease[j] # NoLease

(* Every store starts in order. *)
LEMMA StoreInit == Init => StoreInv
  BY MaxAttemptsAssumption
  DEF Init, StoreInv, TypeOK, RowInv, States, ActiveStates, TerminalStates, Phases,
      FailureCodes, Attempts, NoLease, NoResult

(* The rows keep in order when nothing touches them. *)
LEMMA StoreStutters ==
  ASSUME StoreInv, UNCHANGED store
  PROVE  StoreInv' /\ \A j \in Jobs : RowMoves(j)
  BY DEF StoreInv, TypeOK, RowInv, RowMoves, StateMoves, store

(* The seq given to a new row is a number: the table is finite. *)
LEMMA NextSeqIsNat == Cardinality(Submitted) + 1 \in Nat
<1>1. Submitted \subseteq Jobs
  BY DEF Submitted
<1>2. IsFiniteSet(Submitted)
  BY <1>1, JobsAssumption, FS_Subset
<1> QED
  BY <1>2, FS_CardinalityType

(* submit *)
LEMMA SubmitKeeps ==
  ASSUME StoreInv, NEW j \in Jobs, Submit(j)
  PROVE  StoreInv' /\ \A k \in Jobs : RowMoves(k)
  BY MaxAttemptsAssumption, NextSeqIsNat
  DEF StoreInv, TypeOK, RowInv, RowMoves, StateMoves, Submit, States, ActiveStates, TerminalStates,
      NoLease, NoResult

(* request_cancel *)
LEMMA RequestCancelKeeps ==
  ASSUME StoreInv, NEW j \in Jobs, RequestCancel(j)
  PROVE  StoreInv' /\ \A k \in Jobs : RowMoves(k)
  BY DEF StoreInv, TypeOK, RowInv, RowMoves, StateMoves, RequestCancel, States, ActiveStates,
         TerminalStates, NoLease, NoResult

(* claim_next *)
LEMMA ClaimNextKeeps ==
  ASSUME StoreInv, NEW j \in Jobs, ClaimNext(j)
  PROVE  StoreInv' /\ \A k \in Jobs : RowMoves(k)
  BY MaxAttemptsAssumption
  DEF StoreInv, TypeOK, RowInv, RowMoves, StateMoves, ClaimNext, OldestQueued, States, ActiveStates,
      TerminalStates, Phases, Attempts, NoLease, NoResult

(* heartbeat *)
LEMMA HeartbeatKeeps ==
  ASSUME StoreInv, NEW j \in Jobs, NEW t, NEW p \in Phases \cup {"none"}, Heartbeat(j, t, p)
  PROVE  StoreInv' /\ \A k \in Jobs : RowMoves(k)
  BY DEF StoreInv, TypeOK, RowInv, RowMoves, StateMoves, Heartbeat

(* complete *)
LEMMA CompleteKeeps ==
  ASSUME StoreInv, NEW j \in Jobs, NEW t, Complete(j, t)
  PROVE  StoreInv' /\ \A k \in Jobs : RowMoves(k)
  BY DEF StoreInv, TypeOK, RowInv, RowMoves, StateMoves, Complete, Leased, EndJob, States,
         ActiveStates,
         TerminalStates, Attempts, NoLease, NoResult

(* fail *)
LEMMA FailKeeps ==
  ASSUME StoreInv, NEW j \in Jobs, NEW t, NEW code \in FailureCodes \ {"worker_lost"},
         Fail(j, t, code)
  PROVE  StoreInv' /\ \A k \in Jobs : RowMoves(k)
  BY DEF StoreInv, TypeOK, RowInv, RowMoves, StateMoves, Fail, LiveLease, Leased, EndJob, States,
         ActiveStates, TerminalStates, NoLease, NoResult

(* confirm_cancelled *)
LEMMA ConfirmCancelledKeeps ==
  ASSUME StoreInv, NEW j \in Jobs, NEW t, ConfirmCancelled(j, t)
  PROVE  StoreInv' /\ \A k \in Jobs : RowMoves(k)
  BY DEF StoreInv, TypeOK, RowInv, RowMoves, StateMoves, ConfirmCancelled, LiveLease, Leased,
         EndJob,
         States, ActiveStates, TerminalStates, NoLease, NoResult

(* recover_expired_leases: a row is settled or left alone *)
LEMMA RecoverKeeps ==
  ASSUME StoreInv, RecoverExpiredLeases
  PROVE  StoreInv' /\ \A k \in Jobs : RowMoves(k)
<1>1. ASSUME NEW j \in Jobs, j \notin Expired
      PROVE  /\ state'[j] = state[j] /\ phase'[j] = phase[j] /\ attempt'[j] = attempt[j]
             /\ lease'[j] = lease[j] /\ lapsed'[j] = lapsed[j]
             /\ failure'[j] = failure[j] /\ result'[j] = result[j]
  BY <1>1 DEF RecoverExpiredLeases
<1>2. ASSUME NEW j \in Jobs, j \in Expired
      PROVE  /\ state[j] \in ActiveStates
             /\ lease'[j] = NoLease /\ lapsed'[j] = FALSE
             /\ attempt'[j] = attempt[j] /\ result'[j] = result[j]
             /\ \/ /\ state[j] = "cancel_requested"
                   /\ state'[j] = "cancelled" /\ failure'[j] = failure[j] /\ phase'[j] = phase[j]
                \/ /\ state[j] = "running"
                   /\ state'[j] = "queued" /\ failure'[j] = failure[j] /\ phase'[j] = "none"
                   /\ attempt[j] < MaxAttempts
                \/ /\ state'[j] = "failed" /\ failure'[j] = "worker_lost"
                   /\ phase'[j] = phase[j] /\ ~(attempt[j] < MaxAttempts)
  <2>1. state[j] \in ActiveStates
    BY <1>2 DEF Expired
  <2>2. CASE state[j] = "cancel_requested"
    BY <1>2, <2>1, <2>2 DEF RecoverExpiredLeases, Recovered
  <2>3. CASE state[j] # "cancel_requested" /\ attempt[j] < MaxAttempts
    BY <1>2, <2>1, <2>3 DEF RecoverExpiredLeases, Recovered, ActiveStates
  <2>4. CASE state[j] # "cancel_requested" /\ ~(attempt[j] < MaxAttempts)
    BY <1>2, <2>1, <2>4 DEF RecoverExpiredLeases, Recovered, ActiveStates
  <2> QED
    BY <2>2, <2>3, <2>4
<1>3. ASSUME NEW j \in Jobs
      PROVE  RowInv(j)' /\ RowMoves(j)
  <2>1. CASE j \in Expired
    <3>1. /\ RowInv(j)
          /\ attempt[j] \in 0..MaxAttempts
          /\ state[j] \in ActiveStates
          /\ failure[j] = "none" /\ result[j] = NoResult
      BY <1>2, <2>1 DEF StoreInv, TypeOK, RowInv, ActiveStates
    <3>2. lease'[j] = NoLease /\ attempt'[j] = attempt[j] /\ result'[j] = result[j]
      BY <1>2, <2>1
    <3>3. CASE /\ state[j] = "cancel_requested" /\ state'[j] = "cancelled"
               /\ failure'[j] = failure[j]
      BY <3>1, <3>2, <3>3 DEF RowInv, RowMoves, StateMoves, ActiveStates, TerminalStates, NoLease
    <3>4. CASE /\ state[j] = "running" /\ state'[j] = "queued"
               /\ failure'[j] = failure[j] /\ attempt[j] < MaxAttempts
      BY <3>1, <3>2, <3>4 DEF RowInv, RowMoves, StateMoves, ActiveStates, TerminalStates, NoLease
    <3>5. CASE state'[j] = "failed" /\ failure'[j] = "worker_lost" /\ ~(attempt[j] < MaxAttempts)
      BY <3>1, <3>2, <3>5, MaxAttemptsAssumption DEF RowInv, RowMoves, StateMoves, ActiveStates,
        TerminalStates, NoLease
    <3> QED
      BY <1>2, <2>1, <3>3, <3>4, <3>5
  <2>2. CASE j \notin Expired
    BY <1>1, <2>2 DEF StoreInv, RowInv, RowMoves, StateMoves, TypeOK
  <2> QED
    BY <2>1, <2>2
<1>4. TypeOK'
  <2>1. ASSUME NEW j \in Jobs
        PROVE  /\ state'[j] \in States /\ phase'[j] \in Phases \cup {"none"}
               /\ lease'[j] \in Attempts \cup {NoLease} /\ lapsed'[j] \in BOOLEAN
               /\ failure'[j] \in FailureCodes \cup {"none"}
    BY <1>1, <1>2 DEF StoreInv, TypeOK, States, TerminalStates, FailureCodes
  <2>2. state' \in [Jobs -> States]
    BY <2>1 DEF RecoverExpiredLeases
  <2>3. phase' \in [Jobs -> Phases \cup {"none"}]
    BY <2>1 DEF RecoverExpiredLeases
  <2>4. lease' \in [Jobs -> Attempts \cup {NoLease}] /\ lapsed' \in [Jobs -> BOOLEAN]
    BY <2>1 DEF RecoverExpiredLeases
  <2>5. failure' \in [Jobs -> FailureCodes \cup {"none"}]
    BY <2>1 DEF RecoverExpiredLeases
  <2> QED
    BY <2>2, <2>3, <2>4, <2>5 DEF StoreInv, TypeOK, RecoverExpiredLeases
<1> QED
  BY <1>3, <1>4 DEF StoreInv

(* time *)
LEMMA LapseKeeps ==
  ASSUME StoreInv, NEW j \in Jobs, LeaseLapses(j)
  PROVE  StoreInv' /\ \A k \in Jobs : RowMoves(k)
  BY DEF StoreInv, TypeOK, RowInv, RowMoves, StateMoves, LeaseLapses

-----------------------------------------------------------------------------
(* The workers.                                                            *)

Free == {"idle", "claiming"}
Busy == PCs \ Free
PublishedPCs == {"syncing", "completing"}
FailureReasons == {"timeout", "artifact_invalid", "execution_failed"} \cup ExitFailures

(* A worker holds an attempt that was claimed, from its claim to its       *)
(* cleanup, and no two workers hold the same.                              *)
Held(w) ==
  \/ pc[w] \in Free /\ job[w] = NoJob /\ token[w] = NoLease
  \/ pc[w] \in Busy /\ job[w] \in Jobs /\ token[w] \in 1..attempt[job[w]]
HeldOnce == \A v, w \in Workers : job[v] \in Jobs /\ Mine(v) = Mine(w) => v = w

(* The process of the attempt a worker supervises is its own, and has a    *)
(* failure code to report when it failed.                                  *)
ChildInv(w) ==
  /\ pc[w] = "supervising" => child[Mine(w)] \in {"running", "exit_0"} \cup ExitFailures
  /\ pc[w] = "stopping" /\ reason[w] = "exited" => child[Mine(w)] \in {"exit_0"} \cup ExitFailures
  /\ pc[w] = "stopping" => reason[w] \in {"timeout", "cancel", "lost", "exited"}
  /\ pc[w] = "failing" => reason[w] \in FailureReasons

(* A worker about to record a result has its directory in place; a result  *)
(* is recorded by nobody else, and its directory is touched no more.       *)
DiskInv(w) ==
  /\ pc[w] \in PublishedPCs => Mine(w) \in published
  /\ job[w] \in Jobs /\ pc[w] # "cleanup" => result[job[w]] # token[w]
ServedInv == \A j \in Jobs : state[j] = "completed" => <<j, result[j]>> \in published

IInv ==
  /\ WorkerTypeOK
  /\ StoreInv
  /\ \A w \in Workers : Held(w) /\ ChildInv(w) /\ DiskInv(w)
  /\ HeldOnce
  /\ ServedInv

-----------------------------------------------------------------------------
(* The rows. *)

(* What a worker reads from the phase file is a phase or nothing. *)
LEMMA ReportedPhaseType ==
  ASSUME WorkerTypeOK, NEW w \in Workers, job[w] \in Jobs, token[w] \in Attempts
  PROVE  ReportedPhase(w) \in Phases \cup {"none"}
<1>1. childPhase[Mine(w)] \in 0..Len(ChildPhases)
  BY DEF WorkerTypeOK, Mine, AllAttempts
<1>2. \A n \in 1..Len(ChildPhases) : ChildPhases[n] \in Phases
  BY ChildAssumption
<1> QED
  BY <1>1, <1>2, ChildAssumption DEF ReportedPhase

(* A busy worker has a job, and a token some claim has drawn. *)
LEMMA BusyHolds ==
  ASSUME IInv, NEW w \in Workers, pc[w] \in Busy
  PROVE  job[w] \in Jobs /\ token[w] \in 1..attempt[job[w]] /\ token[w] \in Attempts
<1>1. job[w] \in Jobs /\ token[w] \in 1..attempt[job[w]]
  BY DEF IInv, Held, Busy, Free
<1>2. attempt[job[w]] \in 0..MaxAttempts
  BY <1>1 DEF IInv, StoreInv, TypeOK
<1> QED
  BY <1>1, <1>2, MaxAttemptsAssumption DEF Attempts

(* Every step keeps the rows in order. *)
LEMMA StoreStep ==
  ASSUME IInv, [Next]_vars
  PROVE  StoreInv' /\ \A j \in Jobs : RowMoves(j)
<1> USE DEF IInv
<1>1. CASE UNCHANGED store
  BY <1>1, StoreStutters
<1>2. ASSUME NEW w \in Workers, Recover(w)
      PROVE  StoreInv' /\ \A j \in Jobs : RowMoves(j)
  BY <1>2, RecoverKeeps DEF Recover
<1>3. ASSUME NEW w \in Workers, Claim(w)
      PROVE  StoreInv' /\ \A j \in Jobs : RowMoves(j)
  BY <1>3, <1>1, ClaimNextKeeps DEF Claim
<1>4. ASSUME NEW w \in Workers, Supervise(w)
      PROVE  StoreInv' /\ \A j \in Jobs : RowMoves(j)
  <2>1. job[w] \in Jobs /\ token[w] \in Attempts
    BY <1>4, BusyHolds DEF Supervise, Busy, Free, PCs
  <2>2. ReportedPhase(w) \in Phases \cup {"none"}
    BY <2>1, ReportedPhaseType
  <2> QED
    BY <1>4, <1>1, <2>1, <2>2, HeartbeatKeeps DEF Supervise
<1>5. ASSUME NEW w \in Workers, RecordFailure(w)
      PROVE  StoreInv' /\ \A j \in Jobs : RowMoves(j)
  <2>1. job[w] \in Jobs
    BY <1>5, BusyHolds DEF RecordFailure, Busy, Free, PCs
  <2>2. reason[w] \in FailureCodes \ {"worker_lost"}
    BY <1>5, ChildAssumption DEF RecordFailure, ChildInv, FailureReasons, FailureCodes
  <2> QED
    BY <1>5, <1>1, <2>1, <2>2, FailKeeps DEF RecordFailure
<1>6. ASSUME NEW w \in Workers, ConfirmCancel(w)
      PROVE  StoreInv' /\ \A j \in Jobs : RowMoves(j)
  <2>1. job[w] \in Jobs
    BY <1>6, BusyHolds DEF ConfirmCancel, Busy, Free, PCs
  <2> QED
    BY <1>6, <1>1, <2>1, ConfirmCancelledKeeps DEF ConfirmCancel
<1>7. ASSUME NEW w \in Workers, LastHeartbeat(w)
      PROVE  StoreInv' /\ \A j \in Jobs : RowMoves(j)
  <2>1. job[w] \in Jobs
    BY <1>7, BusyHolds DEF LastHeartbeat, Busy, Free, PCs
  <2>2. "verifying" \in Phases \cup {"none"}
    BY DEF Phases
  <2> QED
    BY <1>7, <1>1, <2>1, <2>2, HeartbeatKeeps DEF LastHeartbeat
<1>8. ASSUME NEW w \in Workers, RecordResult(w)
      PROVE  StoreInv' /\ \A j \in Jobs : RowMoves(j)
  <2>1. job[w] \in Jobs
    BY <1>8, BusyHolds DEF RecordResult, Busy, Free, PCs
  <2> QED
    BY <1>8, <1>1, <2>1, CompleteKeeps DEF RecordResult
<1>9. CASE Client \/ Time
  BY <1>9, SubmitKeeps, RequestCancelKeeps, LapseKeeps DEF Client, Time
<1>10. CASE UNCHANGED vars
  BY <1>10, <1>1 DEF vars
<1>11. ASSUME NEW w \in Workers, WorkerStep(w) \/ Crash(w) \/ Terminate(w)
       PROVE  StoreInv' /\ \A j \in Jobs : RowMoves(j)
  BY <1>11, <1>1, <1>2, <1>3, <1>4, <1>5, <1>6, <1>7, <1>8
  DEF WorkerStep, StartChild, ChildExited, DeadlineReached, StopChild, VerifyOutput, Stage,
      Rename, SyncParent, Discard, Cleanup, Crash, Terminate
<1>12. ASSUME NEW a \in AllAttempts, ChildReports(a) \/ ChildExits(a)
       PROVE  StoreInv' /\ \A j \in Jobs : RowMoves(j)
  BY <1>12, <1>1 DEF ChildReports, ChildExits
<1> QED
  BY <1>9, <1>10, <1>11, <1>12 DEF Next

-----------------------------------------------------------------------------
(* The types. *)

(* What every worker step leaves of the types of the workers' own state,   *)
(* with what it does to the disk.                                          *)
LEMMA TypeStep ==
  ASSUME IInv, [Next]_vars
  PROVE  WorkerTypeOK'
<1>1. TypeOK'
  BY StoreStep DEF StoreInv
<1>2. WorkerTypeOK /\ TypeOK /\ MaxFaults \in Nat /\ ExitFailures \subseteq FailureCodes
  BY MaxFaultsAssumption, ChildAssumption DEF IInv, WorkerTypeOK
<1> USE <1>1, <1>2 DEF WorkerTypeOK, GotoFor, Goto, PCs, Reasons
<1>3. ASSUME NEW w \in Workers, Recover(w) \/ Claim(w)
      PROVE  WorkerTypeOK'
  <2>1. CASE Recover(w)
    BY <2>1 DEF Recover, disk
  <2>2. CASE Claim(w) /\ UNCHANGED <<job, token>>
    BY <2>2 DEF Claim, disk
  <2>3. CASE \E j \in Jobs : ClaimNext(j) /\ Claim(w) /\ job' = [job EXCEPT ![w] = j]
                              /\ token' = [token EXCEPT ![w] = attempt[j] + 1]
    <3>1. PICK j \in Jobs : ClaimNext(j) /\ Claim(w) /\ job' = [job EXCEPT ![w] = j]
                            /\ token' = [token EXCEPT ![w] = attempt[j] + 1]
      BY <2>3
    <3>2. attempt[j] + 1 \in Attempts
      BY <3>1, MaxAttemptsAssumption
      DEF IInv, StoreInv, RowInv, ClaimNext, OldestQueued, TypeOK, Attempts
    <3>3. pc' \in [Workers -> PCs]
      <4>1. PICK l \in {"idle", "preparing"} : pc' = [pc EXCEPT ![w] = l]
        BY <3>1 DEF Claim
      <4> QED
        BY <4>1
    <3> QED
      BY <3>1, <3>2, <3>3 DEF Claim, disk
  <2> QED
    BY <1>3, <2>1, <2>2, <2>3 DEF Claim
<1>4. ASSUME NEW w \in Workers,
             \/ ChildExited(w) \/ DeadlineReached(w) \/ Supervise(w)
             \/ ConfirmCancel(w) \/ LastHeartbeat(w) \/ RecordFailure(w)
             \/ VerifyOutput(w) \/ SyncParent(w) \/ RecordResult(w)
      PROVE  WorkerTypeOK'
  <2>1. CASE ChildExited(w) \/ DeadlineReached(w)
    BY <2>1 DEF ChildExited, DeadlineReached, disk
  <2>2. CASE Supervise(w)
    BY <2>2 DEF Supervise, disk
  <2>3. CASE ConfirmCancel(w) \/ LastHeartbeat(w) \/ RecordFailure(w)
    BY <2>3 DEF ConfirmCancel, LastHeartbeat, RecordFailure, disk
  <2>4. CASE VerifyOutput(w) \/ RecordResult(w)
    BY <2>4 DEF VerifyOutput, RecordResult, disk, FailureCodes
  <2>5. CASE SyncParent(w)
    BY <2>5 DEF SyncParent, disk, Fault, FailureCodes
  <2> QED
    BY <1>4, <2>1, <2>2, <2>3, <2>4, <2>5
<1>5. ASSUME NEW w \in Workers, StartChild(w) \/ Stage(w) \/ Rename(w) \/ Discard(w) \/ StopChild(w)
      PROVE  WorkerTypeOK'
  <2>1. Mine(w) \in AllAttempts /\ ChildInv(w)
    BY <1>5, BusyHolds
    DEF StartChild, Stage, Rename, Discard, StopChild, Busy, Free, Mine, AllAttempts, IInv
  <2>2. CASE StartChild(w)
    BY <2>1, <2>2 DEF StartChild, ChildStates
  <2>3. CASE Stage(w) \/ Discard(w)
    BY <2>1, <2>3 DEF Stage, Discard
  <2>4. CASE Rename(w)
    BY <2>1, <2>4 DEF Rename, Fault, FailureCodes
  <2>5. CASE StopChild(w)
    BY <2>1, <2>5 DEF StopChild, ChildInv, ChildStates
  <2> QED
    BY <1>5, <2>2, <2>3, <2>4, <2>5
<1>6. ASSUME NEW w \in Workers, Cleanup(w) \/ Crash(w) \/ Terminate(w)
      PROVE  WorkerTypeOK'
  BY <1>6 DEF Cleanup, Crash, Terminate, Forget, Fault, disk, ChildStates
<1>7. ASSUME NEW a \in AllAttempts, ChildReports(a) \/ ChildExits(a)
      PROVE  WorkerTypeOK'
  <2>1. Len(ChildPhases) \in Nat
    BY ChildAssumption
  <2> QED
    BY <1>7, <2>1 DEF ChildReports, ChildExits, store, worker, ChildStates
<1>8. CASE UNCHANGED <<worker, disk, faults>>
  BY <1>8 DEF worker, disk
<1> QED
  BY <1>3, <1>4, <1>5, <1>6, <1>7, <1>8 DEF Next, WorkerStep, vars

-----------------------------------------------------------------------------
(* Who holds what. *)

Waits(w) == pc[w] \in Free /\ \E l \in Free : Goto(w, l) /\ UNCHANGED <<job, token>>
Works(w) == pc[w] \in Busy \ {"cleanup"} /\ \E l \in Busy : Goto(w, l) /\ UNCHANGED <<job, token>>
Takes(w) ==
  /\ pc[w] = "claiming"
  /\ \E j \in Jobs : /\ ClaimNext(j) /\ Goto(w, "preparing")
                    /\ job' = [job EXCEPT ![w] = j]
                    /\ token' = [token EXCEPT ![w] = attempt[j] + 1]

(* To the claims, a step is one of five kinds. *)
LEMMA StepKinds ==
  ASSUME IInv, [Next]_vars
  PROVE  \/ UNCHANGED <<pc, job, token>>
         \/ \E w \in Workers : Waits(w) \/ Works(w) \/ Takes(w) \/ Forget(w)
<1> USE DEF Goto, GotoFor, Free, Busy, PCs
<1>1. ASSUME NEW w \in Workers, Recover(w) \/ Claim(w)
      PROVE  Waits(w) \/ Takes(w)
  BY <1>1 DEF Recover, Claim, Waits, Takes
<1>2. ASSUME NEW w \in Workers, StartChild(w) \/ ChildExited(w) \/ DeadlineReached(w)
      PROVE  Works(w)
  BY <1>2 DEF StartChild, ChildExited, DeadlineReached, Works
<1>3. ASSUME NEW w \in Workers, Supervise(w)
      PROVE  Works(w) \/ UNCHANGED <<pc, job, token>>
  BY <1>3 DEF Supervise, Works
<1>4. ASSUME NEW w \in Workers, StopChild(w)
      PROVE  Works(w)
  BY <1>4 DEF StopChild, Works
<1>5. ASSUME NEW w \in Workers, RecordFailure(w) \/ ConfirmCancel(w) \/ LastHeartbeat(w)
      PROVE  Works(w)
  BY <1>5 DEF RecordFailure, ConfirmCancel, LastHeartbeat, Works
<1>6. ASSUME NEW w \in Workers, VerifyOutput(w) \/ Stage(w) \/ Rename(w) \/ SyncParent(w)
      PROVE  Works(w)
  BY <1>6 DEF VerifyOutput, Stage, Rename, SyncParent, Works
<1>7. ASSUME NEW w \in Workers, RecordResult(w) \/ Discard(w)
      PROVE  Works(w)
  BY <1>7 DEF RecordResult, Discard, Works
<1>8. ASSUME NEW w \in Workers, Cleanup(w) \/ Crash(w) \/ Terminate(w)
      PROVE  Forget(w)
  BY <1>8 DEF Cleanup, Crash, Terminate
<1>9. ASSUME NEW a \in AllAttempts, ChildReports(a) \/ ChildExits(a)
      PROVE  UNCHANGED <<pc, job, token>>
  BY <1>9 DEF ChildReports, ChildExits, worker
<1> QED
  BY <1>1, <1>2, <1>3, <1>4, <1>5, <1>6, <1>7, <1>8, <1>9 DEF Next, WorkerStep, worker, vars

(* Claims stay apart: a new claim draws a token that nobody holds yet. *)
LEMMA HeldStep ==
  ASSUME IInv, [Next]_vars
  PROVE  (\A w \in Workers : Held(w)') /\ HeldOnce'
<1>1. /\ pc \in [Workers -> PCs] /\ job \in [Workers -> Jobs \cup {NoJob}]
      /\ token \in [Workers -> Attempts \cup {NoLease}]
      /\ attempt \in [Jobs -> 0..MaxAttempts]
      /\ \A w \in Workers : Held(w)
      /\ HeldOnce
  BY DEF IInv, WorkerTypeOK, TypeOK
<1>2. \A j \in Jobs : attempt[j] <= attempt'[j] /\ attempt'[j] \in 0..MaxAttempts
  BY StoreStep, TypeStep DEF RowMoves, WorkerTypeOK, TypeOK
<1>3. MaxAttempts \in Nat /\ NoJob \notin Jobs
  BY MaxAttemptsAssumption, NoJobAssumption
<1>4. CASE UNCHANGED <<pc, job, token>>
  BY <1>1, <1>2, <1>3, <1>4 DEF Held, HeldOnce, Mine
<1>5. ASSUME NEW w \in Workers, Waits(w) \/ Works(w)
      PROVE  (\A v \in Workers : Held(v)') /\ HeldOnce'
  <2>1. UNCHANGED <<job, token>> /\ \A v \in Workers : pc'[v] \in Free <=> pc[v] \in Free
    BY <1>1, <1>5 DEF Waits, Works, Goto, Free, Busy, PCs
  <2>2. \A v \in Workers : pc'[v] \in PCs
    BY TypeStep DEF WorkerTypeOK
  <2> QED
    BY <1>1, <1>2, <1>3, <2>1, <2>2 DEF Held, HeldOnce, Mine, Busy
<1>6. ASSUME NEW w \in Workers, Takes(w)
      PROVE  (\A v \in Workers : Held(v)') /\ HeldOnce'
  <2>1. PICK j \in Jobs : /\ ClaimNext(j) /\ Goto(w, "preparing")
                          /\ job' = [job EXCEPT ![w] = j]
                          /\ token' = [token EXCEPT ![w] = attempt[j] + 1]
    BY <1>6 DEF Takes
  <2>2. attempt'[j] = attempt[j] + 1
    BY <1>1, <2>1 DEF ClaimNext
  <2>3. Held(w)'
    BY <1>1, <1>2, <1>3, <2>1, <2>2 DEF Held, Goto, Busy, Free, PCs
  <2>4. ASSUME NEW v \in Workers, v # w
        PROVE  pc'[v] = pc[v] /\ job'[v] = job[v] /\ token'[v] = token[v]
    BY <1>1, <2>1, <2>4 DEF Goto
  <2>5. ASSUME NEW v \in Workers, v # w
        PROVE  Held(v)' /\ ~(job'[v] = j /\ token'[v] = attempt[j] + 1)
    BY <1>1, <1>2, <1>3, <2>4, <2>5 DEF Held
  <2>6. job'[w] = j /\ token'[w] = attempt[j] + 1
    BY <1>1, <2>1
  <2>7. HeldOnce'
    BY <1>1, <2>4, <2>5, <2>6 DEF HeldOnce, Mine
  <2> QED
    BY <2>3, <2>5, <2>7
<1>7. ASSUME NEW w \in Workers, Forget(w)
      PROVE  (\A v \in Workers : Held(v)') /\ HeldOnce'
  <2>1. job'[w] = NoJob /\ token'[w] = NoLease /\ pc'[w] = "idle"
    BY <1>1, <1>7 DEF Forget, GotoFor, Goto
  <2>2. ASSUME NEW v \in Workers, v # w
        PROVE  pc'[v] = pc[v] /\ job'[v] = job[v] /\ token'[v] = token[v]
    BY <1>1, <1>7, <2>2 DEF Forget, GotoFor, Goto
  <2>3. \A v \in Workers : Held(v)'
    BY <1>1, <1>2, <1>3, <2>1, <2>2 DEF Held, Free
  <2>4. HeldOnce'
    BY <1>1, <1>3, <2>1, <2>2 DEF HeldOnce, Mine
  <2> QED
    BY <2>3, <2>4
<1> QED
  BY <1>4, <1>5, <1>6, <1>7, StepKinds

-----------------------------------------------------------------------------
(* The child of an attempt. *)

(* A step of worker w leaves the others, and their processes, alone. *)
LEMMA OthersStay ==
  ASSUME IInv, [Next]_vars, NEW w \in Workers, WorkerStep(w) \/ Crash(w) \/ Terminate(w),
         NEW v \in Workers, v # w
  PROVE  /\ pc'[v] = pc[v] /\ job'[v] = job[v] /\ token'[v] = token[v] /\ reason'[v] = reason[v]
         /\ pc[v] \in Busy => child'[Mine(v)] = child[Mine(v)]
<1>1. /\ pc \in [Workers -> PCs] /\ job \in [Workers -> Jobs \cup {NoJob}]
      /\ token \in [Workers -> Attempts \cup {NoLease}] /\ reason \in [Workers -> Reasons]
      /\ child \in [AllAttempts -> ChildStates]
  BY DEF IInv, WorkerTypeOK
<1>2. pc'[v] = pc[v] /\ job'[v] = job[v] /\ token'[v] = token[v]
  <2>1. CASE Recover(w) \/ Claim(w) \/ StartChild(w) \/ ChildExited(w) \/ DeadlineReached(w)
    BY <1>1, <2>1 DEF Recover, Claim, StartChild, ChildExited, DeadlineReached, Goto, GotoFor
  <2>2. CASE Supervise(w) \/ StopChild(w) \/ RecordFailure(w) \/ ConfirmCancel(w)
    BY <1>1, <2>2 DEF Supervise, StopChild, RecordFailure, ConfirmCancel, Goto, GotoFor
  <2>3. CASE LastHeartbeat(w) \/ VerifyOutput(w) \/ Stage(w) \/ Rename(w) \/ SyncParent(w)
    BY <1>1, <2>3 DEF LastHeartbeat, VerifyOutput, Stage, Rename, SyncParent, Goto, GotoFor
  <2>4. CASE RecordResult(w) \/ Discard(w) \/ Cleanup(w) \/ Crash(w) \/ Terminate(w)
    BY <1>1, <2>4 DEF RecordResult, Discard, Cleanup, Crash, Terminate, Forget, Goto, GotoFor
  <2> QED
    BY <2>1, <2>2, <2>3, <2>4 DEF WorkerStep
<1>3. reason'[v] = reason[v]
  <2>1. CASE Recover(w) \/ Claim(w) \/ StartChild(w) \/ ChildExited(w) \/ DeadlineReached(w)
    BY <1>1, <2>1 DEF Recover, Claim, StartChild, ChildExited, DeadlineReached, GotoFor
  <2>2. CASE Supervise(w) \/ StopChild(w) \/ RecordFailure(w) \/ ConfirmCancel(w)
    BY <1>1, <2>2 DEF Supervise, StopChild, RecordFailure, ConfirmCancel, GotoFor
  <2>3. CASE LastHeartbeat(w) \/ VerifyOutput(w) \/ Stage(w) \/ Rename(w) \/ SyncParent(w)
    BY <1>1, <2>3 DEF LastHeartbeat, VerifyOutput, Stage, Rename, SyncParent, GotoFor
  <2>4. CASE RecordResult(w) \/ Discard(w) \/ Cleanup(w) \/ Crash(w) \/ Terminate(w)
    BY <1>1, <2>4 DEF RecordResult, Discard, Cleanup, Crash, Terminate, Forget, GotoFor
  <2> QED
    BY <2>1, <2>2, <2>3, <2>4 DEF WorkerStep
<1>4. ASSUME pc[v] \in Busy
      PROVE  child'[Mine(v)] = child[Mine(v)]
  <2>1. Mine(v) \in AllAttempts /\ Mine(v) # Mine(w)
    BY <1>4, BusyHolds DEF IInv, HeldOnce, Mine, AllAttempts
  <2>2. CASE StartChild(w) \/ StopChild(w) \/ Terminate(w)
    BY <1>1, <2>1, <2>2 DEF StartChild, StopChild, Terminate
  <2>3. CASE UNCHANGED child
    BY <2>3
  <2> QED
    BY <2>2, <2>3
    DEF WorkerStep, Recover, Claim, ChildExited, DeadlineReached, Supervise, RecordFailure,
        ConfirmCancel, LastHeartbeat, VerifyOutput, Stage, Rename, SyncParent, RecordResult,
        Discard, Cleanup, Crash, disk
<1> QED
  BY <1>2, <1>3, <1>4

(* Nobody verifies, or puts a code to, a process that is not its own. *)
LEMMA ChildStep ==
  ASSUME IInv, [Next]_vars
  PROVE  \A w \in Workers : ChildInv(w)'
<1>1. /\ pc \in [Workers -> PCs] /\ reason \in [Workers -> Reasons]
      /\ child \in [AllAttempts -> ChildStates]
      /\ \A w \in Workers : ChildInv(w)
  BY DEF IInv, WorkerTypeOK
<1>2. ASSUME NEW w \in Workers, NEW v \in Workers, v # w,
             WorkerStep(w) \/ Crash(w) \/ Terminate(w)
      PROVE  ChildInv(v)'
  <2>1. /\ pc'[v] = pc[v] /\ job'[v] = job[v] /\ token'[v] = token[v] /\ reason'[v] = reason[v]
        /\ pc[v] \in Busy => child'[Mine(v)] = child[Mine(v)]
    BY <1>2, OthersStay
  <2>2. Mine(v)' = Mine(v)
    BY <2>1 DEF Mine
  <2>3. {"supervising", "stopping", "failing"} \subseteq Busy
    BY DEF Busy, Free, PCs
  <2> QED
    BY <1>1, <2>1, <2>2, <2>3 DEF ChildInv
<1>3. ASSUME NEW w \in Workers, WorkerStep(w) \/ Crash(w) \/ Terminate(w)
      PROVE  ChildInv(w)'
  <2> USE DEF ChildInv, GotoFor, Goto
  <2>1. CASE Recover(w) \/ Claim(w) \/ Cleanup(w) \/ Crash(w) \/ Terminate(w)
    BY <1>1, <2>1 DEF Recover, Claim, Cleanup, Crash, Terminate, Forget
  <2>2. CASE StartChild(w)
    <3>1. Mine(w) \in AllAttempts
      BY <2>2, BusyHolds DEF StartChild, Busy, Free, PCs, Mine, AllAttempts
    <3> QED
      BY <1>1, <2>2, <3>1 DEF StartChild, Mine
  <2>3. CASE ChildExited(w) \/ DeadlineReached(w)
    BY <1>1, <2>3 DEF ChildExited, DeadlineReached, disk, Mine
  <2>4. CASE Supervise(w)
    BY <1>1, <2>4 DEF Supervise, disk, Mine
  <2>5. CASE StopChild(w)
    BY <1>1, <2>5 DEF StopChild, FailureReasons
  <2>6. CASE RecordFailure(w) \/ ConfirmCancel(w) \/ LastHeartbeat(w) \/ RecordResult(w)
    BY <1>1, <2>6 DEF RecordFailure, ConfirmCancel, LastHeartbeat, RecordResult
  <2>7. CASE VerifyOutput(w) \/ Stage(w) \/ Rename(w) \/ SyncParent(w) \/ Discard(w)
    BY <1>1, <2>7 DEF VerifyOutput, Stage, Rename, SyncParent, Discard, FailureReasons
  <2> QED
    BY <1>3, <2>1, <2>2, <2>3, <2>4, <2>5, <2>6, <2>7 DEF WorkerStep
<1>4. ASSUME NEW a \in AllAttempts, ChildReports(a) \/ ChildExits(a), NEW v \in Workers
      PROVE  ChildInv(v)'
  <2>1. CASE ChildReports(a)
    BY <1>1, <2>1 DEF ChildReports, worker, ChildInv, Mine
  <2>2. CASE ChildExits(a)
    <3>1. \A b \in AllAttempts :
            \/ child'[b] = child[b]
            \/ child[b] = "running" /\ child'[b] \in {"exit_0"} \cup ExitFailures
      BY <1>1, <2>2 DEF ChildExits
    <3>2. pc[v] \in Busy => Mine(v) \in AllAttempts
      BY BusyHolds DEF Mine, AllAttempts
    <3>3. "running" \notin {"exit_0"} \cup ExitFailures
      BY ChildAssumption DEF FailureCodes
    <3>4. UNCHANGED <<pc, reason>> /\ Mine(v)' = Mine(v)
      BY <2>2 DEF ChildExits, worker, Mine
    <3> QED
      BY <1>1, <3>1, <3>2, <3>3, <3>4 DEF ChildInv, Busy, Free, PCs
  <2> QED
    BY <1>4, <2>1, <2>2
<1>5. ASSUME UNCHANGED <<worker, disk>>, NEW v \in Workers
      PROVE  ChildInv(v)'
  BY <1>1, <1>5 DEF ChildInv, worker, disk, Mine
<1> QED
  BY <1>2, <1>3, <1>4, <1>5 DEF Next, vars

-----------------------------------------------------------------------------
(* What is published. *)

(* A result is recorded by RecordResult only, for the attempt it holds. *)
LEMMA ResultStep ==
  ASSUME IInv, [Next]_vars
  PROVE  \/ UNCHANGED result
         \/ \E w \in Workers : /\ RecordResult(w) /\ job[w] \in Jobs /\ pc'[w] = "cleanup"
                              /\ result' = [result EXCEPT ![job[w]] = token[w]]
<1>1. pc \in [Workers -> PCs]
  BY DEF IInv, WorkerTypeOK
<1>2. ASSUME NEW w \in Workers, WorkerStep(w), ~RecordResult(w)
      PROVE  UNCHANGED result
  BY <1>2
  DEF WorkerStep, Recover, Claim, StartChild, ChildExited, DeadlineReached, Supervise, StopChild,
      RecordFailure, ConfirmCancel, LastHeartbeat, VerifyOutput, Stage, Rename, SyncParent,
      Discard, Cleanup, store, RecoverExpiredLeases, ClaimNext, Heartbeat, Fail, ConfirmCancelled
<1>3. ASSUME NEW w \in Workers, RecordResult(w)
      PROVE  \/ UNCHANGED result
             \/ /\ job[w] \in Jobs /\ pc'[w] = "cleanup"
                /\ result' = [result EXCEPT ![job[w]] = token[w]]
  <2>1. job[w] \in Jobs
    BY <1>3, BusyHolds DEF RecordResult, Busy, Free, PCs
  <2> QED
    BY <1>1, <1>3, <2>1 DEF RecordResult, Complete, Goto, store
<1>4. ASSUME NEW w \in Workers, Crash(w) \/ Terminate(w)
      PROVE  UNCHANGED result
  BY <1>4 DEF Crash, Terminate, store
<1>5. ASSUME NEW a \in AllAttempts, ChildReports(a) \/ ChildExits(a)
      PROVE  UNCHANGED result
  BY <1>5 DEF ChildReports, ChildExits, store
<1>6. CASE Client \/ Time
  BY <1>6 DEF Client, Time, Submit, RequestCancel, LeaseLapses
<1> QED
  BY <1>2, <1>3, <1>4, <1>5, <1>6 DEF Next, vars, store

(* Only a discard takes a published directory away, the worker's own. *)
LEMMA PublishedStep ==
  ASSUME IInv, [Next]_vars
  PROVE  \/ published \subseteq published'
         \/ \E w \in Workers : Discard(w)
  BY DEF Next, WorkerStep, Recover, Claim, StartChild, ChildExited, DeadlineReached, Supervise,
         StopChild, RecordFailure, ConfirmCancel, LastHeartbeat, VerifyOutput, Stage, Rename,
         SyncParent, RecordResult, Cleanup, Crash, Terminate, ChildReports, ChildExits, disk, vars

(* An attempt in the hands of a worker is not the one that was recorded,   *)
(* unless the worker has recorded it itself.                               *)
LEMMA DiskStep ==
  ASSUME IInv, [Next]_vars
  PROVE  \A w \in Workers : DiskInv(w)'
<1>1. /\ pc \in [Workers -> PCs] /\ result \in [Jobs -> Attempts \cup {NoResult}]
      /\ \A w \in Workers : DiskInv(w) /\ Held(w) /\ Held(w)'
      /\ HeldOnce /\ HeldOnce'
  BY HeldStep DEF IInv, WorkerTypeOK, TypeOK
<1>2. ASSUME NEW v \in Workers, pc'[v] \in PublishedPCs
      PROVE  Mine(v)' \in published'
  <2>1. ASSUME NEW w \in Workers, v # w, WorkerStep(w) \/ Crash(w) \/ Terminate(w)
        PROVE  Mine(v)' \in published'
    <3>1. Mine(v)' = Mine(v) /\ pc[v] \in PublishedPCs
      BY <1>2, <2>1, OthersStay DEF Mine
    <3>2. Mine(v) \in published
      BY <1>1, <3>1 DEF DiskInv
    <3>3. CASE Discard(w)
      <4>1. Mine(v) # Mine(w)
        BY <1>1, <2>1, <3>1, BusyHolds DEF HeldOnce, PublishedPCs, Busy, Free, PCs
      <4> QED
        BY <3>1, <3>2, <3>3, <4>1 DEF Discard
    <3>4. CASE ~Discard(w)
      BY <2>1, <3>1, <3>2, <3>4
      DEF WorkerStep, Recover, Claim, StartChild, ChildExited, DeadlineReached, Supervise,
          StopChild, RecordFailure, ConfirmCancel, LastHeartbeat, VerifyOutput, Stage, Rename,
          SyncParent, RecordResult, Cleanup, Crash, Terminate, disk
    <3> QED
      BY <3>3, <3>4
  <2>2. ASSUME WorkerStep(v) \/ Crash(v) \/ Terminate(v)
        PROVE  Mine(v)' \in published'
    <3>1. CASE Rename(v) \/ SyncParent(v)
      BY <1>1, <1>2, <3>1 DEF Rename, SyncParent, Goto, GotoFor, DiskInv, PublishedPCs, Mine, disk
    <3>2. CASE Recover(v) \/ Claim(v) \/ StartChild(v) \/ ChildExited(v) \/ DeadlineReached(v)
      BY <1>1, <1>2, <3>2
      DEF Recover, Claim, StartChild, ChildExited, DeadlineReached, Goto, GotoFor, PublishedPCs
    <3>3. CASE Supervise(v) \/ StopChild(v) \/ RecordFailure(v) \/ ConfirmCancel(v)
      BY <1>1, <1>2, <3>3
      DEF Supervise, StopChild, RecordFailure, ConfirmCancel, Goto, GotoFor, PublishedPCs
    <3>4. CASE LastHeartbeat(v) \/ VerifyOutput(v) \/ Stage(v) \/ RecordResult(v) \/ Discard(v)
      BY <1>1, <1>2, <3>4
      DEF LastHeartbeat, VerifyOutput, Stage, RecordResult, Discard, Goto, GotoFor, PublishedPCs
    <3>5. CASE Cleanup(v) \/ Crash(v) \/ Terminate(v)
      BY <1>1, <1>2, <3>5 DEF Cleanup, Crash, Terminate, Forget, Goto, GotoFor, PublishedPCs
    <3> QED
      BY <2>2, <3>1, <3>2, <3>3, <3>4, <3>5 DEF WorkerStep
  <2>3. ASSUME NEW a \in AllAttempts, ChildReports(a) \/ ChildExits(a)
        PROVE  Mine(v)' \in published'
    BY <1>1, <1>2, <2>3 DEF ChildReports, ChildExits, worker, DiskInv, Mine
  <2>4. ASSUME UNCHANGED <<worker, disk>>
        PROVE  Mine(v)' \in published'
    BY <1>1, <1>2, <2>4 DEF worker, disk, DiskInv, Mine
  <2> QED
    BY <2>1, <2>2, <2>3, <2>4 DEF Next, vars
<1>3. ASSUME NEW v \in Workers, job'[v] \in Jobs, pc'[v] # "cleanup"
      PROVE  result'[job'[v]] # token'[v]
  <2>1. CASE UNCHANGED result
    <3>1. CASE UNCHANGED <<pc, job, token>>
      BY <1>1, <1>3, <2>1, <3>1 DEF DiskInv
    <3>2. ASSUME NEW w \in Workers, Takes(w)
          PROVE  result'[job'[v]] # token'[v]
      <4>1. PICK j \in Jobs : /\ ClaimNext(j) /\ Goto(w, "preparing")
                              /\ job' = [job EXCEPT ![w] = j]
                              /\ token' = [token EXCEPT ![w] = attempt[j] + 1]
        BY <3>2 DEF Takes
      <4>2. /\ job \in [Workers -> Jobs \cup {NoJob}] /\ attempt[j] \in Nat
            /\ token \in [Workers -> Attempts \cup {NoLease}]
        BY DEF IInv, WorkerTypeOK, TypeOK
      <4>3. result[j] = 0
        BY <4>1 DEF IInv, StoreInv, RowInv, ClaimNext, OldestQueued, NoResult
      <4>4. CASE v = w
        BY <2>1, <4>1, <4>2, <4>3, <4>4
      <4>5. CASE v # w
        BY <1>1, <1>3, <2>1, <4>1, <4>2, <4>5 DEF DiskInv, Goto
      <4> QED
        BY <4>4, <4>5
    <3>3. ASSUME NEW w \in Workers, Waits(w) \/ Forget(w)
          PROVE  result'[job'[v]] # token'[v]
      <4>1. /\ job \in [Workers -> Jobs \cup {NoJob}]
            /\ token \in [Workers -> Attempts \cup {NoLease}]
        BY DEF IInv, WorkerTypeOK
      <4> QED
        BY <1>1, <1>3, <2>1, <3>3, <4>1, NoJobAssumption
        DEF Waits, Forget, Goto, GotoFor, DiskInv, Held, Free, Busy
    <3>4. ASSUME NEW w \in Workers, Works(w)
          PROVE  result'[job'[v]] # token'[v]
      <4>1. CASE pc[v] # "cleanup"
        BY <1>1, <1>3, <2>1, <3>4, <4>1 DEF Works, DiskInv
      <4>2. CASE pc[v] = "cleanup"
        <5>1. v = w
          BY <1>1, <1>3, <3>4, <4>2 DEF Works, Goto
        <5> QED
          BY <3>4, <4>2, <5>1 DEF Works
      <4> QED
        BY <4>1, <4>2
    <3> QED
      BY <3>1, <3>2, <3>3, <3>4, StepKinds
  <2>2. ASSUME NEW w \in Workers, RecordResult(w), job[w] \in Jobs, pc'[w] = "cleanup",
               result' = [result EXCEPT ![job[w]] = token[w]]
        PROVE  result'[job'[v]] # token'[v]
    <3>1. UNCHANGED <<job, token>> /\ v # w
      BY <1>3, <2>2 DEF RecordResult
    <3>2. pc'[v] = pc[v]
      BY <2>2, <3>1, OthersStay DEF WorkerStep
    <3>3. ~(job[v] = job[w] /\ token[v] = token[w])
      BY <1>1, <2>2, <3>1 DEF HeldOnce, Mine
    <3> QED
      BY <1>1, <1>3, <2>2, <3>1, <3>2, <3>3 DEF DiskInv
  <2> QED
    BY <2>1, <2>2, ResultStep
<1> QED
  BY <1>2, <1>3 DEF DiskInv, Mine

(* The directory of a recorded result stays: no worker discards it, and    *)
(* it is in place when the result is recorded.                             *)
LEMMA ServedStep ==
  ASSUME IInv, [Next]_vars
  PROVE  ServedInv'
<1>1. /\ result \in [Jobs -> Attempts \cup {NoResult}]
      /\ \A w \in Workers : DiskInv(w) /\ Held(w)
      /\ ServedInv
      /\ \A j \in Jobs : state[j] = "completed" <=> result[j] # NoResult
  BY DEF IInv, WorkerTypeOK, TypeOK, StoreInv, RowInv
<1>2. \A j \in Jobs : state'[j] = "completed" <=> result'[j] # NoResult
  BY StoreStep DEF StoreInv, RowInv
<1>3. SUFFICES ASSUME NEW j \in Jobs, result'[j] # NoResult
               PROVE  <<j, result'[j]>> \in published'
  BY <1>2 DEF ServedInv
<1>4. ASSUME NEW w \in Workers, RecordResult(w), job[w] \in Jobs,
             result' = [result EXCEPT ![job[w]] = token[w]]
      PROVE  <<j, result'[j]>> \in published'
  <2>1. published' = published /\ <<job[w], token[w]>> \in published
    BY <1>1, <1>4 DEF RecordResult, disk, DiskInv, PublishedPCs, Mine
  <2>2. CASE j = job[w]
    BY <1>1, <1>4, <2>1, <2>2
  <2>3. CASE j # job[w]
    BY <1>1, <1>3, <1>4, <2>1, <2>3 DEF ServedInv
  <2> QED
    BY <2>2, <2>3
<1>5. CASE UNCHANGED result
  <2>1. <<j, result[j]>> \in published
    BY <1>1, <1>3, <1>5 DEF ServedInv
  <2>2. CASE published \subseteq published'
    BY <1>5, <2>1, <2>2
  <2>3. ASSUME NEW w \in Workers, Discard(w)
        PROVE  <<j, result'[j]>> \in published'
    <3>1. job[w] \in Jobs
      BY <2>3, BusyHolds DEF Discard, Busy, Free, PCs
    <3>2. Mine(w) # <<j, result[j]>>
      BY <1>1, <2>3, <3>1 DEF Discard, DiskInv, Mine
    <3> QED
      BY <1>5, <2>1, <2>3, <3>2 DEF Discard
  <2> QED
    BY <2>2, <2>3, PublishedStep
<1> QED
  BY <1>4, <1>5, ResultStep

-----------------------------------------------------------------------------
(* The order of the rows. *)

(* No row has a number above the number of rows, so the next one is new.   *)
OrderInv ==
  \A j \in Jobs : /\ state[j] = "absent" <=> seq[j] = 0
                  /\ seq[j] <= Cardinality(Submitted)

(* What every step but a submission leaves of the order, and who is claimed. *)
Orderly(k) ==
  /\ seq'[k] = seq[k]
  /\ state'[k] = "absent" <=> state[k] = "absent"
  /\ attempt'[k] # attempt[k] => OldestQueued(k)

LEMMA StepIsOrderly ==
  ASSUME IInv, [Next]_vars
  PROVE  (\A k \in Jobs : Orderly(k)) \/ \E j \in Jobs : Submit(j)
<1>1. state \in [Jobs -> States] /\ attempt \in [Jobs -> 0..MaxAttempts]
  BY DEF IInv, WorkerTypeOK, TypeOK
<1>2. ASSUME UNCHANGED store PROVE \A k \in Jobs : Orderly(k)
  BY <1>2 DEF store, Orderly
<1>3. ASSUME RecoverExpiredLeases PROVE \A k \in Jobs : Orderly(k)
  BY <1>1, <1>3 DEF RecoverExpiredLeases, Expired, Recovered, ActiveStates, Orderly
<1>4. ASSUME NEW j \in Jobs, ClaimNext(j) PROVE \A k \in Jobs : Orderly(k)
  BY <1>1, <1>4 DEF ClaimNext, OldestQueued, Orderly
<1>5. ASSUME NEW j \in Jobs, NEW t, NEW p, Heartbeat(j, t, p) PROVE \A k \in Jobs : Orderly(k)
  BY <1>1, <1>5 DEF Heartbeat, Orderly
<1>6. ASSUME NEW j \in Jobs, NEW t, NEW c, Fail(j, t, c) \/ ConfirmCancelled(j, t) \/ Complete(j, t)
      PROVE  \A k \in Jobs : Orderly(k)
  BY <1>1, <1>6
  DEF Fail, ConfirmCancelled, Complete, LiveLease, Leased, EndJob, ActiveStates, Orderly
<1>7. ASSUME NEW j \in Jobs, RequestCancel(j) \/ LeaseLapses(j) PROVE \A k \in Jobs : Orderly(k)
  BY <1>1, <1>7 DEF RequestCancel, LeaseLapses, ActiveStates, Orderly
<1>8. ASSUME NEW w \in Workers, WorkerStep(w) PROVE \A k \in Jobs : Orderly(k)
  <2>1. CASE Recover(w) \/ Claim(w)
    BY <2>1, <1>2, <1>3, <1>4 DEF Recover, Claim
  <2>2. CASE Supervise(w) \/ LastHeartbeat(w)
    <3>1. job[w] \in Jobs
      BY <2>2, BusyHolds DEF Supervise, LastHeartbeat, Busy, Free, PCs
    <3> QED
      BY <2>2, <3>1, <1>2, <1>5 DEF Supervise, LastHeartbeat
  <2>3. CASE RecordFailure(w) \/ ConfirmCancel(w) \/ RecordResult(w)
    <3>1. job[w] \in Jobs
      BY <2>3, BusyHolds DEF RecordFailure, ConfirmCancel, RecordResult, Busy, Free, PCs
    <3> QED
      BY <2>3, <3>1, <1>2, <1>6 DEF RecordFailure, ConfirmCancel, RecordResult
  <2> QED
    BY <1>8, <1>2, <2>1, <2>2, <2>3
    DEF WorkerStep, StartChild, ChildExited, DeadlineReached, StopChild, VerifyOutput, Stage,
        Rename, SyncParent, Discard, Cleanup
<1>9. ASSUME NEW w \in Workers, Crash(w) \/ Terminate(w) PROVE \A k \in Jobs : Orderly(k)
  BY <1>9, <1>2 DEF Crash, Terminate
<1>10. ASSUME NEW a \in AllAttempts, ChildReports(a) \/ ChildExits(a) PROVE \A k \in Jobs : Orderly(k)
  BY <1>10, <1>2 DEF ChildReports, ChildExits
<1>11. CASE UNCHANGED vars
  BY <1>11, <1>2 DEF vars
<1>12. CASE Client \/ Time
  BY <1>12, <1>7 DEF Client, Time
<1> QED
  BY <1>8, <1>9, <1>10, <1>11, <1>12 DEF Next

(* The numbers before and after a submission. *)
LEMMA SubmissionIsLast ==
  ASSUME IInv, OrderInv, NEW j \in Jobs, Submit(j)
  PROVE  /\ OrderInv'
         /\ state[j] = "absent" /\ seq'[j] \in Nat
         /\ \A k \in Jobs : k # j => /\ seq'[k] = seq[k] /\ state'[k] = state[k]
                                    /\ seq[k] \in Nat /\ seq[k] < seq'[j]
         /\ attempt' = attempt
<1>1. state \in [Jobs -> States] /\ seq \in [Jobs -> Nat]
  BY DEF IInv, WorkerTypeOK, TypeOK
<1>2. /\ state[j] = "absent" /\ state' = [state EXCEPT ![j] = "queued"]
      /\ seq' = [seq EXCEPT ![j] = Cardinality(Submitted) + 1] /\ UNCHANGED attempt
  BY DEF Submit
<1>3. Submitted' = Submitted \cup {j} /\ j \notin Submitted
  BY <1>1, <1>2 DEF Submitted
<1>4. IsFiniteSet(Submitted) /\ Cardinality(Submitted) \in Nat
  BY JobsAssumption, FS_Subset, FS_CardinalityType DEF Submitted
<1>5. Cardinality(Submitted') = Cardinality(Submitted) + 1
  BY <1>3, <1>4, FS_AddElement
<1>6. \A k \in Jobs : k # j => seq'[k] = seq[k] /\ state'[k] = state[k]
  BY <1>1, <1>2
<1>7. seq'[j] = Cardinality(Submitted) + 1 /\ state'[j] = "queued"
  BY <1>1, <1>2
<1>8. \A k \in Jobs : /\ state'[k] = "absent" <=> seq'[k] = 0
                      /\ seq'[k] <= Cardinality(Submitted')
  BY <1>1, <1>4, <1>5, <1>6, <1>7 DEF OrderInv
<1>9. Cardinality(Submitted') = Cardinality(Submitted)'
  OBVIOUS
<1>10. OrderInv'
  BY <1>8, <1>9 DEF OrderInv
<1> QED
  BY <1>1, <1>2, <1>4, <1>6, <1>7, <1>10 DEF OrderInv

LEMMA OrderStep ==
  ASSUME IInv, OrderInv, [Next]_vars
  PROVE  OrderInv'
<1>1. CASE \A k \in Jobs : Orderly(k)
  <2>1. Submitted' = Submitted
    BY <1>1 DEF Orderly, Submitted
  <2> QED
    BY <1>1, <2>1 DEF Orderly, OrderInv
<1>2. CASE \E j \in Jobs : Submit(j)
  BY <1>2, SubmissionIsLast
<1> QED
  BY <1>1, <1>2, StepIsOrderly

(* Whom a step starts, and where it puts who is new. *)
LEMMA ServedInOrder ==
  ASSUME IInv, OrderInv, [Next]_vars, NEW j \in Jobs, NEW k \in Jobs
  PROVE  /\ (state[j] # "absent" /\ state[k] = "absent" /\ state'[k] # "absent")
              => seq'[j] < seq'[k]
         /\ (state[j] # "absent" /\ state[k] # "absent")
              => (seq'[j] < seq'[k] <=> seq[j] < seq[k])
         /\ (state[j] = "queued" /\ state'[j] = "queued" /\ seq[j] < seq[k])
              => attempt'[k] = attempt[k]
<1>1. seq[j] \in Nat /\ seq[k] \in Nat
  BY DEF IInv, WorkerTypeOK, TypeOK
<1>2. CASE \A i \in Jobs : Orderly(i)
  BY <1>1, <1>2 DEF Orderly, OldestQueued
<1>3. ASSUME NEW i \in Jobs, Submit(i)
      PROVE  /\ (state[j] # "absent" /\ state[k] = "absent" /\ state'[k] # "absent")
                  => seq'[j] < seq'[k]
             /\ (state[j] # "absent" /\ state[k] # "absent")
                  => (seq'[j] < seq'[k] <=> seq[j] < seq[k])
             /\ (state[j] = "queued" /\ state'[j] = "queued" /\ seq[j] < seq[k])
                  => attempt'[k] = attempt[k]
  BY <1>1, <1>3, SubmissionIsLast
<1> QED
  BY <1>2, <1>3, StepIsOrderly

-----------------------------------------------------------------------------
(* What is left behind. *)

Verified == {"verifying", "checking", "staging", "renaming", "syncing", "completing", "discarding"}
Served(a) == result[a[1]] = a[2]
Trace(a) ==
  a \in attempt_dirs \cup staging \/ child[a] = "running" \/ (a \in published /\ ~Served(a))

(* An attempt that was not claimed yet has left no trace, and a worker has *)
(* on disk and running what its next call needs and nothing more.  What it *)
(* forgets at the end of cleanup is then a served result or nothing.       *)
NoTraceYet ==
  \A j \in Jobs, t \in Attempts :
    t > attempt[j] => /\ <<j, t>> \notin attempt_dirs \cup staging \cup published
                      /\ child[<<j, t>>] = "none"
Tidy(w) ==
  pc[w] \in Busy =>
    /\ pc[w] = "preparing" => child[Mine(w)] = "none"
    /\ pc[w] \notin {"supervising", "stopping"} => child[Mine(w)] # "running"
    /\ pc[w] \in Verified => child[Mine(w)] = "exit_0"
    /\ pc[w] # "renaming" => Mine(w) \notin staging
    /\ pc[w] \notin {"syncing", "completing", "discarding"} /\ Mine(w) \in published =>
         faults > 0 \/ (pc[w] = "cleanup" /\ Served(Mine(w)))
ExitIsLast == \A a \in AllAttempts : child[a] = "exit_0" => childPhase[a] = Len(ChildPhases)
TidyInv ==
  /\ NoTraceYet
  /\ \A w \in Workers : Tidy(w)
  /\ \A a \in published : child[a] = "exit_0"
  /\ ExitIsLast
  /\ NothingLeftBehind

(* A worker touches the disk and the process of its own attempt only. *)
Untouched(a) ==
  /\ child'[a] = child[a] /\ childPhase'[a] = childPhase[a]
  /\ a \in attempt_dirs' <=> a \in attempt_dirs
  /\ a \in staging' <=> a \in staging
  /\ a \in published' <=> a \in published

LEMMA OwnTraceOnly ==
  ASSUME IInv, NEW w \in Workers, WorkerStep(w) \/ Crash(w) \/ Terminate(w),
         NEW a \in AllAttempts, a # Mine(w)
  PROVE  Untouched(a)
<1>1. child \in [AllAttempts -> ChildStates]
  BY DEF IInv, WorkerTypeOK
<1>2. CASE UNCHANGED disk
  BY <1>2 DEF disk, Untouched
<1>3. CASE StartChild(w) \/ StopChild(w) \/ Stage(w) \/ Rename(w) \/ Discard(w) \/ Cleanup(w)
  BY <1>1, <1>3 DEF StartChild, StopChild, Stage, Rename, Discard, Cleanup, Untouched
<1>4. CASE Terminate(w)
  BY <1>1, <1>4 DEF Terminate, Untouched
<1> QED
  BY <1>2, <1>3, <1>4
  DEF WorkerStep, Recover, Claim, ChildExited, DeadlineReached, Supervise, RecordFailure,
      ConfirmCancel, LastHeartbeat, VerifyOutput, SyncParent, RecordResult, Crash

(* A child that runs may report or exit; nothing else of it changes. *)
LEMMA ChildMoves ==
  ASSUME IInv, NEW b \in AllAttempts, ChildReports(b) \/ ChildExits(b)
  PROVE  /\ UNCHANGED <<store, worker, attempt_dirs, staging, published, faults>>
         /\ \A a \in AllAttempts :
              \/ Untouched(a)
              \/ child[a] = "running" /\ child'[a] = "running"
              \/ /\ child[a] = "running" /\ child'[a] \in {"exit_0"} \cup ExitFailures
                 /\ child'[a] = "exit_0" => childPhase[a] = Len(ChildPhases)
                 /\ childPhase'[a] = childPhase[a]
<1>1. child \in [AllAttempts -> ChildStates] /\ "exit_0" \notin ExitFailures
  BY ChildAssumption DEF IInv, WorkerTypeOK, FailureCodes
<1>2. CASE ChildReports(b)
  <2>1. \A a \in AllAttempts : a # b => childPhase'[a] = childPhase[a]
    BY <1>2 DEF ChildReports, IInv, WorkerTypeOK
  <2> QED
    BY <1>2, <2>1 DEF ChildReports, Untouched
<1>3. CASE ChildExits(b)
  <2>1. \A a \in AllAttempts : a # b => child'[a] = child[a]
    BY <1>1, <1>3 DEF ChildExits
  <2>2. \/ child'[b] = "exit_0" /\ childPhase[b] = Len(ChildPhases)
        \/ child'[b] \in ExitFailures
    BY <1>1, <1>3 DEF ChildExits
  <2> QED
    BY <1>1, <1>3, <2>1, <2>2 DEF ChildExits, Untouched
<1> QED
  BY <1>2, <1>3

(* A served result stays served. *)
LEMMA ServedStays ==
  ASSUME IInv, [Next]_vars, NEW a \in AllAttempts, Served(a)
  PROVE  Served(a)'
<1>1. PICK j \in Jobs, t \in Attempts : a = <<j, t>>
  BY DEF AllAttempts
<1>2. result[j] = t /\ t # NoResult
  BY <1>1 DEF Served, Attempts, NoResult
<1>3. state[j] = "completed" /\ RowMoves(j)
  BY <1>2, StoreStep DEF IInv, StoreInv, RowInv
<1>4. result'[j] = result[j]
  BY <1>3 DEF RowMoves, TerminalStates
<1> QED
  BY <1>1, <1>2, <1>4 DEF Served

(* What every step of a worker leaves: its own attempt when it is busy. *)
LEMMA BusyIsOwn ==
  ASSUME IInv, NEW w \in Workers
  PROVE  /\ pc[w] \in Busy => Mine(w) \in AllAttempts /\ token[w] <= attempt[job[w]]
         /\ Mine(w) \in AllAttempts => pc[w] \in Busy
<1>1. pc[w] \in Busy => Mine(w) \in AllAttempts /\ token[w] <= attempt[job[w]]
  <2> SUFFICES ASSUME pc[w] \in Busy
               PROVE  Mine(w) \in AllAttempts /\ token[w] <= attempt[job[w]]
    OBVIOUS
  <2>1. /\ job[w] \in Jobs /\ token[w] \in 1..attempt[job[w]] /\ token[w] \in Attempts
        /\ attempt[job[w]] \in 0..MaxAttempts
    BY BusyHolds DEF IInv, WorkerTypeOK, TypeOK
  <2> QED
    BY <2>1, MaxAttemptsAssumption DEF Mine, AllAttempts
<1>2. Mine(w) \in AllAttempts => pc[w] \in Busy
  BY NoJobAssumption DEF IInv, Held, Mine, AllAttempts
<1> QED
  BY <1>1, <1>2

LEMMA NoTraceYetStep ==
  ASSUME IInv, TidyInv, [Next]_vars
  PROVE  NoTraceYet'
<1> SUFFICES ASSUME NEW j \in Jobs, NEW t \in Attempts, t > attempt'[j]
             PROVE  /\ <<j, t>> \notin (attempt_dirs \cup staging \cup published)'
                    /\ child'[<<j, t>>] = "none"
  BY DEF NoTraceYet
<1>1. t > attempt[j] /\ <<j, t>> \in AllAttempts
  <2>1. attempt[j] \in Nat /\ attempt'[j] \in Nat
    <3>1. attempt[j] \in 0..MaxAttempts /\ attempt'[j] \in 0..MaxAttempts
      BY TypeStep DEF WorkerTypeOK, TypeOK, IInv
    <3> QED
      BY <3>1, MaxAttemptsAssumption
  <2>2. t \in Nat
    BY MaxAttemptsAssumption DEF Attempts
  <2>3. attempt[j] <= attempt'[j]
    BY StoreStep DEF RowMoves
  <2> QED
    BY <2>1, <2>2, <2>3 DEF AllAttempts
<1>2. <<j, t>> \notin attempt_dirs \cup staging \cup published /\ child[<<j, t>>] = "none"
  BY <1>1 DEF TidyInv, NoTraceYet
<1>3. CASE Untouched(<<j, t>>)
  BY <1>2, <1>3 DEF Untouched
<1>4. ASSUME NEW w \in Workers, WorkerStep(w) \/ Crash(w) \/ Terminate(w)
      PROVE  Untouched(<<j, t>>)
  <2>1. Mine(w) # <<j, t>>
    <3>1. ASSUME Mine(w) = <<j, t>> PROVE FALSE
      <4>1. job[w] = j /\ token[w] = t /\ pc[w] \in Busy
        BY <1>1, <3>1, BusyIsOwn DEF Mine
      <4>2. t <= attempt[j] /\ t \in Nat /\ attempt[j] \in Nat
        BY <4>1, BusyIsOwn, MaxAttemptsAssumption DEF IInv, WorkerTypeOK, TypeOK, Attempts
      <4> QED
        BY <1>1, <4>2
    <3> QED
      BY <3>1
  <2> QED
    BY <1>1, <1>4, <2>1, OwnTraceOnly
<1>5. ASSUME NEW b \in AllAttempts, ChildReports(b) \/ ChildExits(b)
      PROVE  Untouched(<<j, t>>)
  BY <1>1, <1>2, <1>5, ChildMoves
<1>6. CASE UNCHANGED <<worker, disk>>
  BY <1>2, <1>6 DEF disk
<1> QED
  BY <1>3, <1>4, <1>5, <1>6 DEF Next, vars

(* The children of published attempts have exited, after all their phases. *)
LEMMA ExitStep ==
  ASSUME IInv, TidyInv, [Next]_vars
  PROVE  ExitIsLast' /\ \A a \in published' : child'[a] = "exit_0"
<1>1. /\ child \in [AllAttempts -> ChildStates] /\ published \subseteq AllAttempts
      /\ \A a \in AllAttempts : child[a] = "exit_0" => childPhase[a] = Len(ChildPhases)
      /\ \A a \in published : child[a] = "exit_0"
  BY DEF IInv, WorkerTypeOK, TidyInv, ExitIsLast
<1>2. SUFFICES ASSUME NEW a \in AllAttempts
               PROVE  /\ child'[a] = "exit_0" => childPhase'[a] = Len(ChildPhases)
                      /\ a \in published' => child'[a] = "exit_0"
  <2>1. published' \subseteq AllAttempts
    BY TypeStep DEF WorkerTypeOK
  <2> QED
    BY <2>1 DEF ExitIsLast
<1>3. CASE Untouched(a)
  BY <1>1, <1>3 DEF Untouched
<1>4. ASSUME NEW w \in Workers, WorkerStep(w) \/ Crash(w) \/ Terminate(w), a = Mine(w)
      PROVE  /\ child'[a] = "exit_0" => childPhase'[a] = Len(ChildPhases)
             /\ a \in published' => child'[a] = "exit_0"
  <2>1. pc[w] \in Busy /\ Tidy(w)
    BY <1>4, BusyIsOwn DEF TidyInv
  <2>2. CASE UNCHANGED disk
    BY <1>1, <2>2 DEF disk
  <2>3. CASE StartChild(w)
    BY <1>1, <1>4, <2>1, <2>3 DEF StartChild, Tidy
  <2>4. CASE StopChild(w) \/ Terminate(w)
    BY <1>1, <1>4, <2>4 DEF StopChild, Terminate
  <2>5. CASE Stage(w) \/ Rename(w) \/ Discard(w) \/ Cleanup(w)
    BY <1>1, <1>4, <2>1, <2>5 DEF Stage, Rename, Discard, Cleanup, Tidy, Verified
  <2> QED
    BY <1>4, <2>2, <2>3, <2>4, <2>5
    DEF WorkerStep, Recover, Claim, ChildExited, DeadlineReached, Supervise, RecordFailure,
        ConfirmCancel, LastHeartbeat, VerifyOutput, SyncParent, RecordResult, Crash
<1>5. ASSUME NEW w \in Workers, WorkerStep(w) \/ Crash(w) \/ Terminate(w), a # Mine(w)
      PROVE  Untouched(a)
  BY <1>5, OwnTraceOnly
<1>6. ASSUME NEW b \in AllAttempts, ChildReports(b) \/ ChildExits(b), ~Untouched(a)
      PROVE  /\ child'[a] = "exit_0" => childPhase'[a] = Len(ChildPhases)
             /\ a \in published' => child'[a] = "exit_0"
  <2>1. child[a] = "running" /\ UNCHANGED published
    BY <1>6, ChildMoves
  <2>2. a \notin published'
    BY <1>1, <2>1
  <2>3. child'[a] = "exit_0" => childPhase'[a] = Len(ChildPhases)
    BY <1>6, ChildMoves
  <2> QED
    BY <2>2, <2>3
<1>7. CASE UNCHANGED <<worker, disk>>
  BY <1>7, <1>3 DEF disk, Untouched
<1> QED
  BY <1>3, <1>4, <1>5, <1>6, <1>7 DEF Next, vars

(* What a worker has is what its next call needs. *)
LEMMA TidyStep ==
  ASSUME IInv, TidyInv, [Next]_vars
  PROVE  \A v \in Workers : Tidy(v)'
<1>1. /\ pc \in [Workers -> PCs] /\ child \in [AllAttempts -> ChildStates]
      /\ faults \in Nat /\ faults' \in Nat /\ faults <= faults'
      /\ \A w \in Workers : Tidy(w) /\ Held(w) /\ ChildInv(w)
  <2>1. faults \in Nat /\ faults' \in Nat
    BY TypeStep, MaxFaultsAssumption DEF IInv, WorkerTypeOK
  <2>2. faults' = faults \/ faults' = faults + 1
    BY DEF Next, WorkerStep, Recover, Claim, StartChild, ChildExited, DeadlineReached, Supervise,
           StopChild, RecordFailure, ConfirmCancel, LastHeartbeat, VerifyOutput, Stage, Rename,
           SyncParent, RecordResult, Discard, Cleanup, Crash, Terminate, Fault, ChildReports,
           ChildExits, vars
  <2> QED
    BY <2>1, <2>2 DEF IInv, WorkerTypeOK, TidyInv
<1>2. ASSUME NEW v \in Workers, pc'[v] = pc[v], Mine(v)' = Mine(v),
             pc[v] \in Busy => Untouched(Mine(v))
      PROVE  Tidy(v)'
  <2> SUFFICES ASSUME pc[v] \in Busy PROVE Tidy(v)'
    BY <1>2 DEF Tidy
  <2>1. PICK a \in AllAttempts : a = Mine(v)
    BY BusyIsOwn
  <2>2. Served(Mine(v)) => Served(Mine(v))'
    <3>1. Served(a) => Served(a)'
      BY ServedStays
    <3> QED
      BY <1>2, <2>1, <3>1 DEF Served
  <2> QED
    BY <1>1, <1>2, <2>2 DEF Tidy, Untouched
<1>3. ASSUME NEW w \in Workers, NEW v \in Workers, v # w,
             WorkerStep(w) \/ Crash(w) \/ Terminate(w)
      PROVE  Tidy(v)'
  <2>1. pc'[v] = pc[v] /\ Mine(v)' = Mine(v)
    BY <1>3, OthersStay DEF Mine
  <2>2. ASSUME pc[v] \in Busy PROVE Untouched(Mine(v))
    <3>1. Mine(v) \in AllAttempts /\ Mine(v) # Mine(w)
      BY <1>3, <2>2, BusyIsOwn, BusyHolds DEF IInv, HeldOnce
    <3> QED
      BY <1>3, <3>1, OwnTraceOnly
  <2> QED
    BY <1>2, <2>1, <2>2
<1>4. ASSUME NEW w \in Workers, Recover(w) \/ Cleanup(w) \/ Crash(w) \/ Terminate(w)
      PROVE  Tidy(w)'
  <2>1. pc'[w] \in Free
    BY <1>1, <1>4 DEF Recover, Cleanup, Crash, Terminate, Forget, GotoFor, Goto, Free
  <2> QED
    BY <2>1 DEF Tidy, Busy
<1>5. ASSUME NEW w \in Workers, Claim(w)
      PROVE  Tidy(w)'
  <2>1. CASE pc'[w] = "idle"
    BY <2>1 DEF Tidy, Busy, Free
  <2>2. CASE pc'[w] # "idle"
    <3>1. PICK j \in Jobs : ClaimNext(j) /\ pc'[w] = "preparing" /\ Mine(w)' = <<j, attempt[j] + 1>>
      BY <1>1, <1>5, <2>2 DEF Claim, Goto, Mine, IInv, WorkerTypeOK
    <3>2. attempt[j] \in Nat /\ attempt[j] + 1 \in Attempts
      BY <3>1, MaxAttemptsAssumption
      DEF ClaimNext, OldestQueued, IInv, StoreInv, RowInv, TypeOK, Attempts
    <3>3. attempt[j] + 1 > attempt[j]
      BY <3>2
    <3>4. /\ <<j, attempt[j] + 1>> \notin attempt_dirs \cup staging \cup published
          /\ child[<<j, attempt[j] + 1>>] = "none"
      BY <3>2, <3>3 DEF TidyInv, NoTraceYet
    <3>5. UNCHANGED disk
      BY <1>5 DEF Claim
    <3> QED
      BY <3>1, <3>4, <3>5 DEF Tidy, disk, Verified
  <2> QED
    BY <2>1, <2>2
<1>6. ASSUME NEW w \in Workers, WorkerStep(w), pc[w] \in Busy
      PROVE  Tidy(w)'
  <2>1. Mine(w) \in AllAttempts /\ Tidy(w) /\ ChildInv(w)
    BY <1>1, <1>6, BusyIsOwn
  <2>2. ASSUME UNCHANGED <<job, token>>
        PROVE  /\ Mine(w)' = Mine(w)
               /\ Served(Mine(w)) => Served(Mine(w))'
    BY <2>1, <2>2, ServedStays DEF Mine
  <2> USE DEF Tidy, Goto, GotoFor, Verified
  <2>3. CASE StartChild(w)
    BY <1>1, <2>1, <2>2, <2>3 DEF StartChild, Busy, Free, PCs
  <2>4. CASE ChildExited(w) \/ DeadlineReached(w)
    BY <1>1, <2>1, <2>2, <2>4 DEF ChildExited, DeadlineReached, disk, Busy, Free, PCs
  <2>5. CASE Supervise(w)
    BY <1>1, <2>1, <2>2, <2>5 DEF Supervise, disk, Busy, Free, PCs
  <2>6. CASE StopChild(w)
    BY <1>1, <2>1, <2>2, <2>6 DEF StopChild, ChildInv, Busy, Free, PCs
  <2>7. CASE RecordFailure(w) \/ ConfirmCancel(w)
    BY <1>1, <2>1, <2>2, <2>7 DEF RecordFailure, ConfirmCancel, disk, Busy, Free, PCs
  <2>8. CASE LastHeartbeat(w) \/ VerifyOutput(w)
    BY <1>1, <2>1, <2>2, <2>8 DEF LastHeartbeat, VerifyOutput, disk, Busy, Free, PCs
  <2>9. CASE Stage(w) \/ Rename(w) \/ SyncParent(w)
    BY <1>1, <2>1, <2>2, <2>9 DEF Stage, Rename, SyncParent, Fault, disk, Busy, Free, PCs
  <2>10. CASE RecordResult(w)
    <3>1. Complete(job[w], token[w]) => Served(Mine(w))'
      BY <2>1, <2>2, <2>10 DEF RecordResult, Complete, Served, Mine, AllAttempts, IInv, WorkerTypeOK, TypeOK
    <3> QED
      BY <1>1, <2>1, <2>2, <2>10, <3>1 DEF RecordResult, disk, Busy, Free, PCs
  <2>11. CASE Discard(w)
    BY <1>1, <2>1, <2>2, <2>11 DEF Discard, Busy, Free, PCs
  <2>12. CASE Cleanup(w)
    BY <1>4, <2>12
  <2>13. ~Recover(w) /\ ~Claim(w)
    BY <1>6 DEF Recover, Claim, Busy, Free
  <2> QED
    BY <1>6, <2>3, <2>4, <2>5, <2>6, <2>7, <2>8, <2>9, <2>10, <2>11, <2>12, <2>13 DEF WorkerStep
<1>7. ASSUME NEW b \in AllAttempts, ChildReports(b) \/ ChildExits(b), NEW v \in Workers
      PROVE  Tidy(v)'
  <2>1. pc'[v] = pc[v] /\ Mine(v)' = Mine(v) /\ UNCHANGED <<staging, published, faults, result>>
    BY <1>7, ChildMoves DEF worker, Mine, store
  <2> SUFFICES ASSUME pc[v] \in Busy PROVE Tidy(v)'
    BY <2>1 DEF Tidy
  <2>2. Mine(v) \in AllAttempts /\ Tidy(v)
    BY <1>1, BusyIsOwn
  <2>3. CASE Untouched(Mine(v))
    BY <1>2, <2>1, <2>3
  <2>4. CASE child[Mine(v)] = "running"
    BY <2>1, <2>2, <2>4 DEF Tidy, Verified, Served
  <2> QED
    BY <1>7, <2>2, <2>3, <2>4, ChildMoves
<1>8. CASE UNCHANGED <<worker, disk>>
  BY <1>2, <1>8 DEF worker, disk, Mine, Untouched
<1>9. ASSUME NEW w \in Workers, WorkerStep(w) \/ Crash(w) \/ Terminate(w)
      PROVE  Tidy(w)'
  BY <1>4, <1>5, <1>6, <1>9
  DEF WorkerStep, StartChild, ChildExited, DeadlineReached, Supervise, StopChild, RecordFailure,
      ConfirmCancel, LastHeartbeat, VerifyOutput, Stage, Rename, SyncParent, RecordResult,
      Discard, Busy, Free, PCs
<1> QED
  BY <1>3, <1>7, <1>8, <1>9 DEF Next, vars

(* What is left belongs to a worker at work, or something failed. *)
LEMMA LeftBehindStep ==
  ASSUME IInv, TidyInv, [Next]_vars
  PROVE  NothingLeftBehind'
<1>1. /\ job \in [Workers -> Jobs \cup {NoJob}] /\ faults \in Nat /\ faults' \in Nat
      /\ \A w \in Workers : Tidy(w)
  BY TypeStep, MaxFaultsAssumption DEF IInv, WorkerTypeOK, TidyInv
<1>2. SUFFICES ASSUME faults' = 0, NEW a \in AllAttempts, Trace(a)'
               PROVE  \E w \in Workers : Mine(w)' = a
  BY DEF NothingLeftBehind, Trace, Served
<1>3. ASSUME faults = 0, Trace(a)
      PROVE  \E w \in Workers : Mine(w) = a
  BY <1>3 DEF TidyInv, NothingLeftBehind, Trace, Served
<1>4. ASSUME [Next]_vars, Untouched(a)
      PROVE  Trace(a)
  BY <1>2, <1>4, ServedStays DEF Trace, Untouched
<1>5. ASSUME NEW w \in Workers, WorkerStep(w) \/ Crash(w) \/ Terminate(w)
      PROVE  \E v \in Workers : Mine(v)' = a
  <2>1. faults = 0 /\ WorkerStep(w)
    <3>1. ~Crash(w) /\ ~Terminate(w)
      BY <1>1, <1>2 DEF Crash, Terminate, Fault
    <3>2. faults' = faults \/ faults' = faults + 1
      BY <1>5, <3>1
      DEF WorkerStep, Recover, Claim, StartChild, ChildExited, DeadlineReached, Supervise,
          StopChild, RecordFailure, ConfirmCancel, LastHeartbeat, VerifyOutput, Stage, Rename,
          SyncParent, RecordResult, Discard, Cleanup, Fault
    <3> QED
      BY <1>1, <1>2, <1>5, <3>1, <3>2
  <2>2. CASE a = Mine(w)
    <3>1. pc[w] \in Busy /\ Tidy(w)
      BY <1>1, <2>2, BusyIsOwn
    <3>2. ~Cleanup(w)
      <4>1. ASSUME Cleanup(w) PROVE FALSE
        <5>1. /\ child[a] # "running" /\ a \notin staging
              /\ a \in published => Served(a)
          BY <2>1, <2>2, <3>1, <4>1, <1>1 DEF Cleanup, Tidy
        <5>2. /\ child' = child /\ staging' = staging /\ published' = published
              /\ a \notin attempt_dirs'
          BY <2>2, <4>1 DEF Cleanup
        <5>3. Served(a) => Served(a)'
          BY ServedStays
        <5> QED
          BY <1>2, <5>1, <5>2, <5>3 DEF Trace
      <4> QED
        BY <4>1
    <3>3. UNCHANGED <<job, token>>
      BY <2>1, <3>1, <3>2
      DEF WorkerStep, Recover, Claim, StartChild, ChildExited, DeadlineReached, Supervise,
          StopChild, RecordFailure, ConfirmCancel, LastHeartbeat, VerifyOutput, Stage, Rename,
          SyncParent, RecordResult, Discard, Busy, Free
    <3> QED
      BY <2>2, <3>3 DEF Mine
  <2>3. CASE a # Mine(w)
    <3>1. Untouched(a)
      BY <2>1, <2>3, OwnTraceOnly
    <3>2. PICK v \in Workers : Mine(v) = a
      BY <1>3, <1>4, <2>1, <3>1
    <3>3. Mine(v)' = Mine(v)
      BY <1>5, <2>3, <3>2, OthersStay DEF Mine
    <3> QED
      BY <3>2, <3>3
  <2> QED
    BY <2>2, <2>3
<1>6. ASSUME NEW b \in AllAttempts, ChildReports(b) \/ ChildExits(b)
      PROVE  \E v \in Workers : Mine(v)' = a
  <2>1. Trace(a) /\ faults = 0
    BY <1>2, <1>4, <1>6, ChildMoves DEF Trace
  <2>2. \A v \in Workers : Mine(v)' = Mine(v)
    BY <1>6, ChildMoves DEF worker, Mine
  <2> QED
    BY <1>3, <2>1, <2>2
<1>7. CASE UNCHANGED <<worker, disk, faults>>
  <2>1. Untouched(a) /\ faults = 0 /\ \A v \in Workers : Mine(v)' = Mine(v)
    BY <1>2, <1>7 DEF disk, Untouched, worker, Mine
  <2> QED
    BY <1>3, <1>4, <2>1
<1> QED
  BY <1>5, <1>6, <1>7 DEF Next, vars

-----------------------------------------------------------------------------
(* Theorems. *)

LEMMA InvInit == WInit => IInv
<1> SUFFICES ASSUME WInit PROVE IInv
  OBVIOUS
<1>1. StoreInv
  BY StoreInit DEF WInit
<1>2. WorkerTypeOK
  BY <1>1, MaxFaultsAssumption, ChildAssumption
  DEF WInit, WorkerTypeOK, StoreInv, PCs, Reasons, ChildStates
<1>3. \A w \in Workers : Held(w) /\ ChildInv(w) /\ DiskInv(w)
  BY NoJobAssumption DEF WInit, Held, Free, ChildInv, DiskInv, PublishedPCs
<1>4. HeldOnce
  BY NoJobAssumption DEF WInit, HeldOnce
<1>5. ServedInv
  BY DEF WInit, Init, ServedInv
<1> QED
  BY <1>1, <1>2, <1>3, <1>4, <1>5 DEF IInv

LEMMA InvStep == IInv /\ [Next]_vars => IInv'
  BY StoreStep, TypeStep, HeldStep, ChildStep, DiskStep, ServedStep DEF IInv

(* The invariant that carries the others: every row is in order, no two    *)
(* workers hold the same attempt of a run, and a worker that is about to   *)
(* record a result still has its directory.                                *)
THEOREM Invariance == Spec => []IInv
<1>1. WInit => IInv
  BY InvInit
<1>2. IInv /\ [Next]_vars => IInv'
  BY InvStep
<1> QED
  BY <1>1, <1>2, PTL DEF Spec

(* Every variable keeps its type; in particular no run is claimed more     *)
(* than MaxAttempts times.                                                 *)
THEOREM TypeCorrect == Spec => []WorkerTypeOK
<1>1. IInv => WorkerTypeOK
  BY DEF IInv
<1> QED
  BY <1>1, Invariance, PTL

(* A run is completed exactly when it has a result; the result is that of  *)
(* its last attempt and its directory is in place, however many workers,   *)
(* lapsed leases, crashes and I/O errors there are.                        *)
THEOREM ServedSafely == Spec => []ServedResultIsPublished
<1>1. IInv => ServedResultIsPublished
  BY DEF IInv, StoreInv, RowInv, ServedInv, ServedResultIsPublished
<1> QED
  BY <1>1, Invariance, PTL

(* A run is given up as worker_lost only when its attempts are used up,    *)
(* and a run that waits has one left.                                      *)
THEOREM LostOnlyWhenUsedUp == Spec => []LostOnlyAfterLastAttempt
<1>1. IInv => LostOnlyAfterLastAttempt
  BY DEF IInv, StoreInv, RowInv, LostOnlyAfterLastAttempt
<1> QED
  BY <1>1, Invariance, PTL

(* Nobody who waits is overtaken, neither a run that was never started nor *)
(* one that recovery has put back, whatever workers claim, crash and       *)
(* recover: a younger run is started only when no older one is queued.     *)
THEOREM FirstComeFirstServedHolds == Spec => FirstComeFirstServed
<1>1. WInit => OrderInv
  <2> SUFFICES ASSUME WInit PROVE OrderInv
    OBVIOUS
  <2>1. Submitted = {}
    BY DEF WInit, Init, Submitted
  <2>2. Cardinality(Submitted) = 0
    BY <2>1, FS_EmptySet
  <2> QED
    BY <2>2 DEF WInit, Init, OrderInv
<1>2. IInv /\ OrderInv /\ [Next]_vars => OrderInv'
  BY OrderStep
<1>3. IInv /\ OrderInv /\ [Next]_vars =>
        [\A j, k \in Jobs :
           /\ (state[j] # "absent" /\ state[k] = "absent" /\ state'[k] # "absent")
                => seq'[j] < seq'[k]
           /\ (state[j] # "absent" /\ state[k] # "absent")
                => (seq'[j] < seq'[k] <=> seq[j] < seq[k])
           /\ (state[j] = "queued" /\ state'[j] = "queued" /\ seq[j] < seq[k])
                => attempt'[k] = attempt[k]]_vars
  BY ServedInOrder
<1> QED
  BY <1>1, <1>2, <1>3, Invariance, PTL DEF Spec, FirstComeFirstServed

(* What the workers have on disk and running is what their next calls      *)
(* need: the invariant behind the two theorems that follow.                *)
THEOREM WorkersAreTidy == Spec => []TidyInv
<1>1. WInit => TidyInv
  BY DEF WInit, Init, TidyInv, NoTraceYet, Tidy, ExitIsLast, NothingLeftBehind, Busy, Free,
         AllAttempts
<1>2. IInv /\ TidyInv /\ [Next]_vars => TidyInv'
  <2>1. IInv /\ TidyInv /\ [Next]_vars => NoTraceYet'
    BY NoTraceYetStep
  <2>2. IInv /\ TidyInv /\ [Next]_vars => ExitIsLast' /\ \A a \in published' : child'[a] = "exit_0"
    BY ExitStep
  <2>3. IInv /\ TidyInv /\ [Next]_vars => \A v \in Workers : Tidy(v)'
    BY TidyStep
  <2>4. IInv /\ TidyInv /\ [Next]_vars => NothingLeftBehind'
    BY LeftBehindStep
  <2> QED
    BY <2>1, <2>2, <2>3, <2>4 DEF TidyInv
<1> QED
  BY <1>1, <1>2, Invariance, PTL DEF Spec

(* Without a fault, an attempt directory, a staging directory, a child or  *)
(* a published directory that is not served belongs to a worker at work:   *)
(* every path of run_once cleans up after itself.                          *)
THEOREM NothingLeftBehindHolds == Spec => []NothingLeftBehind
<1>1. TidyInv => NothingLeftBehind
  BY DEF TidyInv
<1> QED
  BY <1>1, WorkersAreTidy, PTL

(* Each published directory comes from a child that exited cleanly, after  *)
(* all of its phases; no orphan of a crash or of a lost lease publishes.   *)
THEOREM PublishedByCleanExitHolds == Spec => []PublishedByCleanExit
<1>1. IInv /\ TidyInv => PublishedByCleanExit
  BY DEF IInv, WorkerTypeOK, TidyInv, ExitIsLast, PublishedByCleanExit
<1> QED
  BY <1>1, Invariance, WorkersAreTidy, PTL

(* No step of any worker, client, child or of time changes a run that has  *)
(* ended: stale workers get LeaseLost and leave it alone.                  *)
THEOREM EndedForGood == Spec => EndedStaysEnded
<1>1. IInv /\ [Next]_vars =>
        [\A j \in Jobs : state[j] \in TerminalStates =>
           <<state[j], result[j], failure[j], attempt[j]>>'
             = <<state[j], result[j], failure[j], attempt[j]>>]_vars
  BY StoreStep DEF RowMoves
<1> QED
  BY <1>1, Invariance, PTL DEF Spec, EndedStaysEnded

(* A cancel that is pending when the worker of the run looks for the last  *)
(* time keeps it from publishing: no step takes a worker of that run past  *)
(* its last check.                                                         *)
THEOREM CancelBeforeLastCheckWinsHolds == Spec => CancelBeforeLastCheckWins
<1>1. ASSUME IInv, [Next]_vars, NEW j \in Jobs, state[j] = "cancel_requested", PastLastCheck(j)'
      PROVE  PastLastCheck(j)
  <2> DEFINE Past == {"checking", "staging", "renaming", "syncing", "completing"}
  <2>1. PICK w \in Workers : Mine(w)' = <<j, lease'[j]>> /\ pc'[w] \in Past
    BY <1>1 DEF PastLastCheck
  <2>2. lease'[j] = lease[j] \/ lease'[j] = NoLease
    BY <1>1, StoreStep DEF IInv, StoreInv, RowInv, RowMoves, StateMoves, ActiveStates
  <2>3. lease'[j] = lease[j]
    <3>1. token'[w] \in 1..attempt'[job'[w]]
      BY <1>1, <2>1, HeldStep DEF Held, Free
    <3>2. token'[w] # NoLease /\ token'[w] = lease'[j]
      <4>1. job'[w] = j /\ attempt'[j] \in 0..MaxAttempts
        BY <1>1, <2>1, TypeStep DEF Mine, WorkerTypeOK, TypeOK
      <4> QED
        BY <2>1, <3>1, <4>1, MaxAttemptsAssumption DEF NoLease, Mine
    <3> QED
      BY <2>2, <3>2
  <2>4. CASE UNCHANGED <<pc, job, token>>
    BY <2>1, <2>3, <2>4 DEF PastLastCheck, Mine
  <2>5. ASSUME NEW v \in Workers, v # w, WorkerStep(v) \/ Crash(v) \/ Terminate(v)
        PROVE  PastLastCheck(j)
    BY <1>1, <2>1, <2>3, <2>5, OthersStay DEF PastLastCheck, Mine
  <2>6. CASE WorkerStep(w) \/ Crash(w) \/ Terminate(w)
    <3>1. pc \in [Workers -> PCs]
      BY <1>1 DEF IInv, WorkerTypeOK
    <3> USE DEF Goto, GotoFor
    <3>2. CASE Recover(w) \/ Claim(w) \/ StartChild(w) \/ ChildExited(w) \/ DeadlineReached(w)
      BY <2>1, <3>1, <3>2 DEF Recover, Claim, StartChild, ChildExited, DeadlineReached
    <3>3. CASE StopChild(w) \/ RecordFailure(w) \/ ConfirmCancel(w) \/ Discard(w)
      BY <2>1, <3>1, <3>3 DEF StopChild, RecordFailure, ConfirmCancel, Discard
    <3>4. CASE Cleanup(w) \/ Crash(w) \/ Terminate(w)
      BY <2>1, <3>1, <3>4 DEF Cleanup, Crash, Terminate, Forget
    <3>5. CASE Supervise(w)
      BY <2>1, <3>1, <3>5 DEF Supervise
    <3>6. CASE LastHeartbeat(w)
      <4>1. job[w] = j
        BY <2>1, <3>6 DEF LastHeartbeat, Mine
      <4> QED
        BY <1>1, <2>1, <3>1, <3>6, <4>1 DEF LastHeartbeat
    <3>7. CASE VerifyOutput(w) \/ Stage(w) \/ Rename(w) \/ SyncParent(w) \/ RecordResult(w)
      <4>1. pc[w] \in Past /\ UNCHANGED <<job, token>>
        BY <3>7 DEF VerifyOutput, Stage, Rename, SyncParent, RecordResult
      <4> QED
        BY <2>1, <2>3, <4>1 DEF PastLastCheck, Mine
    <3> QED
      BY <2>6, <3>2, <3>3, <3>4, <3>5, <3>6, <3>7 DEF WorkerStep
  <2> QED
    BY <1>1, <2>4, <2>5, <2>6 DEF Next, worker, vars, ChildReports, ChildExits
<1>2. IInv /\ [Next]_vars =>
        [\A j \in Jobs : state[j] = "cancel_requested" /\ ~PastLastCheck(j)
                          => ~PastLastCheck(j)']_vars
  BY <1>1
<1> QED
  BY <1>2, Invariance, PTL DEF Spec, CancelBeforeLastCheckWins

(* What the API promises of a run holds of the queue and its workers: each *)
(* of their steps moves every run as JobLifecycle allows, or not at all.   *)
THEOREM Implements == Spec => ImplementsLifecycle
<1>1. WInit => Lifecycle!Init
  <2> SUFFICES ASSUME WInit PROVE Lifecycle!Init
    OBVIOUS
  <2>1. \A j \in Jobs : (result[j] # NoResult) = FALSE
    BY DEF WInit, Init, NoResult
  <2>2. [j \in Jobs |-> result[j] # NoResult] = [j \in Jobs |-> FALSE]
    BY ONLY <2>1, Zenon
  <2> QED
    BY <2>2 DEF WInit, Init, Lifecycle!Init
<1>2. ASSUME IInv, [Next]_vars
      PROVE  Lifecycle!Next
  <2>1. StoreInv' /\ \A j \in Jobs : RowMoves(j)
    BY <1>2, StoreStep
  <2>2. \A j \in Jobs : Lifecycle!Move(j) \/ Lifecycle!Stay(j)
    BY <2>1
    DEF RowMoves, StateMoves, ActiveStates, Lifecycle!Move, Lifecycle!Stay, Lifecycle!Submit,
        Lifecycle!Start, Lifecycle!GiveBack, Lifecycle!AskToStop, Lifecycle!Finish,
        Lifecycle!Stop, Lifecycle!Active
  <2>3. \A j \in Jobs : attempt'[j] <= MaxAttempts
    BY <2>1, MaxAttemptsAssumption DEF StoreInv, TypeOK
  <2>4. \A j \in Jobs : (result'[j] # NoResult) = (state'[j] = "completed")
    BY <2>1 DEF StoreInv, RowInv, NoResult
  <2> QED
    BY <2>2, <2>3, <2>4 DEF Lifecycle!Next, NoResult
<1> QED
  BY <1>1, <1>2, Invariance, PTL DEF Spec, ImplementsLifecycle, Lifecycle!Spec
=============================================================================
