---------------------------- MODULE LivePipeline ----------------------------
(***************************************************************************)
(* The bar pipeline of src/live/trader.py on the local paper broker, run   *)
(* by the one thread of src/live/worker.py: minute bars become five-minute *)
(* buckets, complete buckets of one start time become a batch, a batch     *)
(* fills pending entries, checks exits and decides new entries.            *)
(*                                                                         *)
(* Every action is one journal transaction with the memory it goes with,   *)
(* so that an exception or a crash may come between any two of them.  The  *)
(* queue of the thread is the choice of the minute it handles next: the    *)
(* minutes of a symbol come in order, some of them are never delivered.    *)
(*                                                                         *)
(* Buckets are numbered on; `Minutes` minutes stand for the five of a      *)
(* bucket.  A night lies between two sessions: no minute falls in it.      *)
(* Whether a bar triggers an exit and whether a signal asks for an entry   *)
(* is left open; prices and sizes are left out, and capital is `Slots`,    *)
(* the number of positions it can carry.  MaxFaults bounds the exceptions, *)
(* the ends of the process and the minutes that are never delivered, and   *)
(* MaxLag how far the minutes of each symbol fall behind the clock.        *)
(***************************************************************************)
EXTENDS Integers, FiniteSets

CONSTANTS Symbols, Minutes, SessionBuckets, Sessions, Slots,
          Grace,       \* whole minutes of config.BAR_LATENESS_SECONDS
          Policies,    \* the values config.SESSION_POLICY may have
          MaxFaults, MaxLag

ASSUME SymbolsAssumption == Symbols \subseteq Nat   \* tickers, in sorted order
ASSUME SizesAssumption ==
  /\ Minutes \in Nat \ {0} /\ SessionBuckets \in Nat \ {0}
  /\ Sessions \in Nat \ {0} /\ Slots \in Nat /\ Grace \in Nat
ASSUME PolicyAssumption == Policies \subseteq {"overnight", "flatten"}
ASSUME BoundsAssumption == MaxFaults \in Nat /\ MaxLag \in [Symbols -> Nat]

VARIABLES
  \* the journal
  trades,        \* rows of table trades
  signals,       \* how many rows of table signals each symbol and bar has
  local_pending, \* table local_pending: the bar that decided the entry
  status,        \* runtime_status.status
  \* the memory of the trader and its broker
  last_minute, last_closed, buckets, ready, processed, watermark, pending,
  positions,     \* broker.open_positions
  blocked, failures, recovery_required,
  \* what the thread is doing
  pc, arg, force, bar, batch, todo, exited, filling,
  \* the environment
  now,           \* minutes that have passed
  connected,     \* the first minute the stream delivers
  faults,
  SESSION_POLICY

journal == <<trades, signals, local_pending, status>>
execution == <<pending, positions, blocked, failures, recovery_required>>
aggregation == <<last_minute, last_closed, buckets, ready, processed, watermark>>
control == <<pc, arg, force, bar, batch, todo, exited, filling>>
environment == <<now, connected, faults, SESSION_POLICY>>
vars == <<journal, execution, aggregation, control, environment>>

Buckets == 0..(SessionBuckets * Sessions - 1)
AllMinutes == 0..(SessionBuckets * Sessions * Minutes - 1)
None == -1
NoMinute == <<None, None>>
NoBucket == [start |-> None, minutes |-> {}]
First(S) == CHOOSE x \in S : \A y \in S : x <= y

(* floor_5min and the calendar. *)
Bucket(m) == m \div Minutes
End(b) == (b + 1) * Minutes
session(b) == b \div SessionBuckets
BarsLeft(b) == SessionBuckets - 1 - (b % SessionBuckets)
executable(b) == BarsLeft(b) > 0                      \* decision_at < close
Flatten == SESSION_POLICY = "flatten"
flatten_due(b) == Flatten /\ BarsLeft(b) = 1          \* at the decision of bar b
Closing(b) == Flatten /\ BarsLeft(b) \in {1, 2}       \* decision_at >= close - 10

(* A trade row; `exit` is None while its outcome is OPEN, `id` is None     *)
(* while the position is only in memory.  `decided` is its signal.         *)
Position(id, s, decided, at) ==
  [id |-> id, s |-> s, decided |-> decided, at |-> at, exit |-> None,
   pending_exit |-> FALSE]
OpenRows == {r \in trades : r.exit = None}
has_open(s) == \E p \in positions : p.s = s
position(s) == CHOOSE p \in positions : p.s = s

Init ==
  /\ trades = {} /\ status = "none"
  /\ signals = [x \in Symbols \X Buckets |-> 0]
  /\ local_pending = [s \in Symbols |-> None]
  /\ last_minute = [s \in Symbols |-> None]
  /\ last_closed = [s \in Symbols |-> None]
  /\ buckets = [s \in Symbols |-> NoBucket]
  /\ ready = {} /\ watermark = None
  /\ processed = [s \in Symbols |-> None]
  /\ pending = [s \in Symbols |-> None]
  /\ positions = {} /\ blocked = FALSE /\ failures = 0 /\ recovery_required = FALSE
  /\ pc = "idle" /\ arg = NoMinute /\ force = FALSE /\ bar = None
  /\ batch = {} /\ todo = {} /\ exited = {} /\ filling = None
  /\ now = 0 /\ connected = 0 /\ faults = 0
  /\ SESSION_POLICY \in Policies

-----------------------------------------------------------------------------
(* Exceptions. *)

(* An exception leaves every call at once and reaches the loop of _run. *)
Raise ==
  /\ faults < MaxFaults /\ faults' = faults + 1
  /\ pc' = "raised"
  /\ UNCHANGED <<arg, force, bar, batch, todo, exited, filling, now, connected, SESSION_POLICY>>

Goto(step) == pc' = step /\ UNCHANGED environment

(* record_worker_error, and the status, which may fail to be written. *)
record_worker_error ==
  /\ pc = "raised"
  /\ failures' = failures + 1 /\ recovery_required' = TRUE /\ blocked' = TRUE
  /\ \/ status' = "blocked" /\ UNCHANGED faults
     \/ faults < MaxFaults /\ faults' = faults + 1 /\ UNCHANGED status
  /\ pc' = "idle" /\ arg' = NoMinute /\ force' = FALSE /\ bar' = None
  /\ batch' = {} /\ todo' = {} /\ exited' = {} /\ filling' = None
  /\ UNCHANGED <<trades, signals, local_pending, pending, positions, aggregation,
                 now, connected, SESSION_POLICY>>

(* The next minute of s in the queue, if none was lost.  One that was      *)
(* taken by a turn whose recovery fails is lost.                           *)
Expected(s) == IF last_minute[s] >= connected THEN last_minute[s] + 1 ELSE connected
MinuteLost ==
  /\ \/ UNCHANGED last_minute
     \/ \E s \in Symbols :
          Expected(s) \in AllMinutes /\ Expected(s) < now
            /\ last_minute' = [last_minute EXCEPT ![s] = Expected(s)]
  /\ UNCHANGED <<last_closed, buckets, ready, processed, watermark>>


(* Mutant: the pending entries are not read again. *)
recover_worker_errorMutant ==
  /\ pc = "idle" /\ recovery_required
  /\ positions' = OpenRows /\ blocked' = FALSE /\ recovery_required' = FALSE
  /\ UNCHANGED <<pending, failures, control, environment, aggregation, journal>>

(* The next turn of the loop starts with the recovery: the broker is built *)
(* anew from the open rows, the pending entries are read again.            *)
recover_worker_error ==
  /\ pc = "idle" /\ recovery_required
  /\ \/ /\ positions' = OpenRows /\ pending' = local_pending
        /\ blocked' = FALSE /\ recovery_required' = FALSE
        /\ UNCHANGED <<failures, control, environment>>
        /\ UNCHANGED aggregation
     \/ Raise /\ MinuteLost /\ UNCHANGED execution
  /\ UNCHANGED journal

-----------------------------------------------------------------------------
(* Aggregation. *)

Complete(b) == Cardinality(b.minutes) = Minutes
AddMinute(s, m) ==
  buckets' = [buckets EXCEPT ![s] =
    [start |-> Bucket(m),
     minutes |-> (IF @.start = Bucket(m) THEN @.minutes ELSE {}) \cup {m}]]

(* _finish for the bucket of s: it is closed whatever follows; an          *)
(* incomplete one is dropped with a status, a complete one is ready.       *)
IncompleteStatusMutant == "incomplete"     \* Mutant: hides earlier failures.
IncompleteStatus == IF failures > 0 THEN "blocked" ELSE "incomplete"
Closed(s) ==
  /\ buckets' = [buckets EXCEPT ![s] = NoBucket]
  /\ last_closed' = [last_closed EXCEPT ![s] = buckets[s].start]
finish(s) ==
  /\ Closed(s)
  /\ ready' = IF Complete(buckets[s]) THEN ready \cup {<<buckets[s].start, s>>} ELSE ready
  /\ status' = IF Complete(buckets[s]) THEN status ELSE IncompleteStatus
  /\ UNCHANGED <<trades, signals, local_pending>>
finish_raises(s) ==
  /\ Closed(s) /\ ~Complete(buckets[s])
  /\ faults < MaxFaults /\ faults' = faults + 1 /\ pc' = "raised"
  /\ UNCHANGED <<ready, journal>>

(* on_minute_bar, up to the batches it may have to process first.  The     *)
(* minute is added to its bucket only after them.  Minutes of the symbol   *)
(* that were passed over are lost.                                         *)
on_minute_bar(s, m) ==
  /\ pc = "idle" /\ ~recovery_required
  /\ m < now /\ m >= Expected(s) /\ faults + (m - Expected(s)) <= MaxFaults
  /\ last_minute' = [last_minute EXCEPT ![s] = m]
  /\ \/ /\ faults' = faults + (m - Expected(s))
        /\ \/ /\ Bucket(m) <= last_closed[s]
              /\ UNCHANGED <<journal, last_closed, buckets, ready, pc, arg>>
           \/ /\ Bucket(m) > last_closed[s] /\ buckets[s].start \in {None, Bucket(m)}
              /\ AddMinute(s, m)
              /\ UNCHANGED <<journal, last_closed, ready, pc, arg>>
           \/ /\ Bucket(m) > last_closed[s] /\ buckets[s].start \notin {None, Bucket(m)}
              /\ finish(s) /\ pc' = "drain" /\ arg' = <<s, m>>
     \/ /\ m = Expected(s)
        /\ Bucket(m) > last_closed[s] /\ buckets[s].start \notin {None, Bucket(m)}
        /\ finish_raises(s) /\ UNCHANGED arg
  /\ UNCHANGED <<execution, processed, watermark, force, bar, batch, todo, exited, filling,
                 now, connected, SESSION_POLICY>>

(* tick finishes the buckets whose time is over, one after the other, then *)
(* drains whatever is ready.                                               *)
Overdue == {s \in Symbols : buckets[s].start # None /\ now > End(buckets[s].start) + Grace}
tick == \/ pc = "idle" /\ ~recovery_required /\ now > 0
        \/ pc = "tick"
tick_finish ==
  /\ tick
  /\ IF Overdue = {}
     THEN /\ Goto(IF ready = {} THEN "flatten" ELSE "drain") /\ force' = TRUE
          /\ UNCHANGED <<journal, last_closed, buckets, ready>>
     ELSE LET s == First(Overdue) IN
          /\ \/ finish(s) /\ UNCHANGED faults
                /\ pc' = IF Complete(buckets[s]) THEN "drain" ELSE "tick"
             \/ finish_raises(s)
          /\ UNCHANGED <<force, now, connected, SESSION_POLICY>>
  /\ UNCHANGED <<execution, last_minute, processed, watermark, arg, bar, batch, todo, exited, filling>>

(* _drain_ready: the batches in order of time, complete ones only unless   *)
(* forced; process_batch drops bars that were processed, and a batch that  *)
(* is not after the watermark.  Then back to the caller.                   *)
Batch(b) == {s \in Symbols : <<b, s>> \in ready}
FreshMutant(b) == {s \in Batch(b) : b > processed[s]}     \* Mutant: no watermark.
Fresh(b) == IF b <= watermark THEN {} ELSE {s \in Batch(b) : b > processed[s]}
(* Mutant: nothing is marked before the batch has completed. *)
TakeMutant(b) == UNCHANGED <<ready, watermark, processed>>
Take(b) ==
  /\ ready' = {x \in ready : x[1] # b}
  /\ watermark' = IF Fresh(b) = {} THEN watermark ELSE b
  /\ processed' = [s \in Symbols |-> IF s \in Fresh(b) THEN b ELSE processed[s]]
drain_ready ==
  /\ pc = "drain"
  /\ LET b == First({x[1] : x \in ready})
         drained == IF ready = {} THEN TRUE ELSE ~force /\ Batch(b) # Symbols
     IN
     \/ /\ ~drained /\ Take(b)
        /\ IF Fresh(b) = {} THEN UNCHANGED <<control, environment>>
           ELSE /\ Goto("entries") /\ bar' = b /\ batch' = Fresh(b) /\ todo' = Fresh(b)
                /\ UNCHANGED <<arg, force, exited, filling>>
        /\ UNCHANGED <<last_minute, last_closed, buckets>>
     \/ /\ drained /\ arg # NoMinute          \* back in on_minute_bar
        /\ AddMinute(arg[1], arg[2]) /\ arg' = NoMinute /\ Goto("idle")
        /\ UNCHANGED <<last_minute, last_closed, ready, processed, watermark,
                       force, bar, batch, todo, exited, filling>>
     \/ /\ drained /\ arg = NoMinute          \* back in tick
        /\ Goto(IF force THEN "flatten" ELSE "tick")
        /\ UNCHANGED <<aggregation, arg, force, bar, batch, todo, exited, filling>>
  /\ UNCHANGED <<journal, execution>>

(* The end of tick: under the flatten policy every position is marked in   *)
(* the last bucket of a session, each in its own transaction; then the     *)
(* heartbeat.                                                              *)
Marked(p) == [p EXCEPT !.pending_exit = TRUE]
Unmarked == {p \in positions : ~p.pending_exit}
SessionCloses == Flatten /\ Bucket(now) \in Buckets /\ BarsLeft(Bucket(now)) = 0
tick_flatten ==
  /\ pc = "flatten" /\ SessionCloses /\ Unmarked # {}
  /\ \E p \in Unmarked :
       /\ positions' = (positions \ {p}) \cup {Marked(p)}
       /\ \/ /\ trades' = {IF r.id = p.id THEN Marked(r) ELSE r : r \in trades}
             /\ UNCHANGED <<control, environment>>
          \/ Raise /\ UNCHANGED trades
  /\ UNCHANGED <<signals, local_pending, status, pending, blocked, failures,
                 recovery_required, aggregation>>

Heartbeat ==
  IF (\E p \in positions : p.pending_exit) /\ ~blocked /\ failures = 0 THEN "unresolved"
  ELSE IF failures > 0 \/ blocked THEN "blocked" ELSE "running"
tick_status ==
  /\ pc = "flatten" /\ ~(SessionCloses /\ Unmarked # {})
  /\ \/ /\ status' = Heartbeat /\ Goto("idle") /\ force' = FALSE
        /\ UNCHANGED <<arg, bar, batch, todo, exited, filling>>
     \/ Raise /\ UNCHANGED status
  /\ UNCHANGED <<trades, signals, local_pending, execution, aggregation>>

-----------------------------------------------------------------------------
(* process_batch, for the bar `bar` of the symbols `todo`, in sorted order. *)

s0 == First(todo)
Advance(step, next) ==
  /\ Goto(IF todo = {s0} THEN next ELSE step)
  /\ todo' = IF todo = {s0} THEN batch ELSE todo \ {s0}

(* The pending entry is popped and its row deleted; then it may be filled, *)
(* on the bar after its decision or the next but one, in the same session. *)
Fillable(s, decided) ==
  /\ decided # None /\ executable(bar) /\ ~has_open(s) /\ ~blocked
  /\ session(decided) = session(bar) /\ bar - (decided + 1) \in {0, 1}
  /\ ~flatten_due(bar)
(* Mutant: the row of an entry that is filled is kept. *)
pop_pendingMutant ==
  /\ pc = "entries"
  /\ pending' = [pending EXCEPT ![s0] = None]
  /\ IF Fillable(s0, pending[s0])
     THEN Goto("open") /\ filling' = pending[s0] /\ UNCHANGED <<todo, local_pending>>
     ELSE /\ Advance("entries", "exits") /\ UNCHANGED filling
          /\ local_pending' = [local_pending EXCEPT ![s0] = None]
  /\ UNCHANGED <<arg, force, bar, batch, exited, trades, signals, status, positions, blocked,
                 failures, recovery_required, aggregation>>

pop_pending ==
  /\ pc = "entries"
  /\ pending' = [pending EXCEPT ![s0] = None]
  /\ \/ /\ local_pending' = [local_pending EXCEPT ![s0] = None]
        /\ IF Fillable(s0, pending[s0])
           THEN Goto("open") /\ filling' = pending[s0] /\ UNCHANGED todo
           ELSE Advance("entries", "exits") /\ UNCHANGED filling
        /\ UNCHANGED <<arg, force, bar, batch, exited>>
     \/ Raise /\ UNCHANGED local_pending
  /\ UNCHANGED <<trades, signals, status, positions, blocked, failures, recovery_required,
                 aggregation>>

(* Mutant: an entry that finds no capital is kept for the next bar. *)
open_positionMutant ==
  /\ pc = "open"
  /\ LET opened == Position(Cardinality(trades), s0, filling, bar)
         fits == Cardinality(positions) < Slots
     IN /\ positions' = IF fits THEN positions \cup {opened} ELSE positions
        /\ trades' = IF fits THEN trades \cup {opened} ELSE trades
        /\ pending' = [pending EXCEPT ![s0] = IF fits THEN @ ELSE filling]
        /\ local_pending' = [local_pending EXCEPT ![s0] = IF fits THEN @ ELSE filling]
  /\ Advance("entries", "exits") /\ filling' = None
  /\ UNCHANGED <<arg, force, bar, batch, exited, signals, status, blocked, failures,
                 recovery_required, aggregation>>

(* open_position, which takes the capital the open positions leave, and    *)
(* log_trade_open.                                                         *)
open_position ==
  /\ pc = "open"
  /\ LET opened == Position(Cardinality(trades), s0, filling, bar)
         fits == Cardinality(positions) < Slots
     IN  \/ /\ fits
            /\ positions' = positions \cup {opened} /\ trades' = trades \cup {opened}
            /\ Advance("entries", "exits") /\ filling' = None /\ UNCHANGED <<arg, force, bar, batch, exited>>
         \/ /\ fits /\ Raise
            /\ positions' = positions \cup {[opened EXCEPT !.id = None]}
            /\ UNCHANGED trades
         \/ /\ ~fits
            /\ Advance("entries", "exits") /\ filling' = None
            /\ UNCHANGED <<arg, force, bar, batch, exited, positions, trades>>
  /\ UNCHANGED <<signals, local_pending, status, pending, blocked, failures,
                 recovery_required, aggregation>>

(* The exits of the touching bar, and the deferred ones at its close.  A   *)
(* position is closed in memory before close_trade; one that stays open is *)
(* saved.                                                                  *)
ExitsMutant(p, triggered) == triggered \/ (executable(bar) /\ p.pending_exit)  \* Mutant: waits for a mark.
Exits(p, triggered) ==
  triggered \/ (executable(bar) /\ (p.pending_exit \/ flatten_due(bar)))
check_exits ==
  /\ pc = "exits"
  /\ \/ /\ ~has_open(s0) /\ Advance("exits", "signals")
        /\ UNCHANGED <<trades, positions, exited, arg, force, bar, batch, filling>>
     \/ /\ has_open(s0)
        /\ LET p == position(s0) IN
           \E triggered \in BOOLEAN :
             LET exits == Exits(p, triggered) IN
             /\ positions' = IF exits THEN positions \ {p} ELSE positions
             /\ \/ /\ trades' = IF exits THEN {IF r.id = p.id THEN [r EXCEPT !.exit = bar] ELSE r :
                                              r \in trades} ELSE trades
                   /\ exited' = IF exits THEN exited \cup {s0} ELSE exited
                   /\ Advance("exits", "signals") /\ UNCHANGED <<arg, force, bar, batch, filling>>
                \/ Raise /\ UNCHANGED trades
  /\ UNCHANGED <<signals, local_pending, status, pending, blocked, failures,
                 recovery_required, aggregation>>

(* The decisions at the close of the bar: a signal row each, and a pending *)
(* entry unless there is a reason to skip.                                 *)
Skips(s) ==
  ~executable(bar) \/ has_open(s) \/ s \in exited \/ blocked \/ Closing(bar)
log_signal ==
  /\ pc = "signals"
  /\ \/ /\ signals' = [signals EXCEPT ![<<s0, bar>>] = @ + 1]
        /\ \/ Advance("signals", "completed")
           \/ ~Skips(s0) /\ Goto("queue") /\ UNCHANGED todo
        /\ UNCHANGED <<arg, force, bar, batch, exited, filling>>
     \/ Raise /\ UNCHANGED signals
  /\ UNCHANGED <<trades, local_pending, status, execution, aggregation>>

queue_entry ==
  /\ pc = "queue"
  /\ pending' = [pending EXCEPT ![s0] = bar]
  /\ \/ /\ local_pending' = [local_pending EXCEPT ![s0] = bar]
        /\ Advance("signals", "completed")
        /\ UNCHANGED <<arg, force, bar, batch, exited, filling>>
     \/ Raise /\ UNCHANGED local_pending
  /\ UNCHANGED <<trades, signals, status, positions, blocked, failures, recovery_required,
                 aggregation>>

(* The end of a batch clears the failures, if execution has recovered. *)
batch_completed ==
  /\ pc = "completed"
  /\ \/ /\ status' = IF (recovery_required /\ failures > 0) \/ blocked THEN "blocked" ELSE "running"
        /\ failures' = IF recovery_required THEN failures ELSE 0
        /\ Goto("drain") /\ bar' = None /\ batch' = {} /\ todo' = {} /\ exited' = {}
        /\ UNCHANGED <<arg, force, filling>>
     \/ Raise /\ UNCHANGED <<status, failures>>
  /\ UNCHANGED <<trades, signals, local_pending, pending, positions, blocked,
                 recovery_required, aggregation>>

-----------------------------------------------------------------------------
(* Time, stops and crashes.  Nothing reads the clock within a turn but its *)
(* beginning, so it stands still there.                                    *)

Time ==
  /\ pc = "idle" /\ now - Grace <= End(SessionBuckets * Sessions - 1)
  /\ \A s \in Symbols : now - Expected(s) < MaxLag[s]
  /\ now' = now + 1
  /\ UNCHANGED <<journal, execution, aggregation, control, connected, faults, SESSION_POLICY>>

(* The process ends, in the middle of anything or in order, and another is *)
(* started: the open rows and pending entries are read, the windows seeded *)
(* with every bar that is over, and the stream connected again.  A minute  *)
(* that has just ended may still come.                                     *)
Restart ==
  /\ faults < MaxFaults /\ faults' = faults + 1
  /\ status' = IF pc = "idle" THEN "stopped" ELSE status
  /\ positions' = OpenRows /\ pending' = local_pending
  /\ blocked' = FALSE /\ failures' = 0 /\ recovery_required' = FALSE
  /\ last_minute' = [s \in Symbols |-> None]
  /\ last_closed' = [s \in Symbols |->
       LET over == {b \in Buckets : End(b) + Grace < now} IN
       IF over = {} THEN None ELSE Cardinality(over) - 1]
  /\ buckets' = [s \in Symbols |-> NoBucket] /\ ready' = {} /\ watermark' = None
  /\ processed' = [s \in Symbols |-> None]
  /\ pc' = "idle" /\ arg' = NoMinute /\ force' = FALSE /\ bar' = None
  /\ batch' = {} /\ todo' = {} /\ exited' = {} /\ filling' = None
  /\ connected' = IF now = 0 THEN 0 ELSE now - 1
  /\ UNCHANGED <<trades, signals, local_pending, now, SESSION_POLICY>>

process_batch ==
  \/ pop_pending \/ open_position \/ check_exits \/ log_signal \/ queue_entry
  \/ batch_completed
Turn ==
  \/ recover_worker_error \/ record_worker_error \/ drain_ready \/ process_batch
  \/ tick_finish \/ tick_flatten \/ tick_status

Next ==
  \/ \E s \in Symbols, m \in AllMinutes : on_minute_bar(s, m)
  \/ Turn
  \/ Time \/ Restart

Spec == Init /\ [][Next]_vars

-----------------------------------------------------------------------------
(* Properties. *)

TypeOK ==
  /\ trades \subseteq [id : Nat, s : Symbols, decided : Buckets, at : Buckets,
                       exit : Buckets \cup {None}, pending_exit : BOOLEAN]
  /\ signals \in [Symbols \X Buckets -> Nat]
  /\ \A f \in {local_pending, pending, processed, last_closed} :
       f \in [Symbols -> Buckets \cup {None}]
  /\ status \in {"none", "running", "blocked", "incomplete", "unresolved", "stopped"}
  /\ ready \subseteq Buckets \X Symbols
  /\ \A p \in positions : p.s \in Symbols /\ p.at \in Buckets /\ p.exit = None
  /\ watermark \in Buckets \cup {None} /\ bar \in Buckets \cup {None}
  /\ pc \in {"idle", "raised", "tick", "flatten", "drain", "entries", "open", "exits",
             "signals", "queue", "completed"}
  /\ batch \subseteq Symbols /\ todo \subseteq Symbols /\ exited \subseteq Symbols

(* Between two turns, unless a failure waits for its recovery, the trader  *)
(* holds in memory exactly the positions and pending entries the journal   *)
(* has, whatever failed or ended before.                                   *)
MemoryIsJournal ==
  /\ TypeOK
  /\ pc = "idle" /\ ~recovery_required => positions = OpenRows /\ pending = local_pending

(* A bar decides at most once, and an accepted signal opens at most one    *)
(* position: late bars, forced batches and failures never bring a bar to a *)
(* second decision, an end of the process between the DELETE and the       *)
(* INSERT none to a second fill, and never are two positions of one ticker *)
(* open.                                                                   *)
DecidedOnce ==
  /\ \A x \in Symbols \X Buckets : signals[x] <= 1
  /\ \A r, q \in trades :
       r.id # q.id /\ r.s = q.s =>
         r.decided # q.decided /\ ~(r.exit = None /\ q.exit = None)

(* Capital that an intrabar exit releases never funds an entry of the same *)
(* bar: the positions that touch a bar fit the capital together.           *)
CapitalAtTheOpen ==
  \A b \in Buckets :
    Cardinality({r \in trades : r.at <= b /\ (r.exit = None \/ r.exit >= b)}) <= Slots

(* An entry is filled on the next bar of its ticker that was decided, or   *)
(* never: no retry carries it over a bar.                                  *)
NextObservedBar ==
  \A r \in trades, b \in Buckets :
    r.decided < b /\ b < r.at => signals[<<r.s, b>>] = 0

(* While worker failures are outstanding, no status but "blocked" is       *)
(* written: neither the heartbeat nor an incomplete bucket hides them.     *)
FailureStaysVisible ==
  [][failures' > 0 /\ status' # status => status' = "blocked"]_vars

(* Under the flatten policy no position survives the bar that flattens its *)
(* session once that bar was decided.                                      *)
FlattenedAtClose ==
  Flatten =>
    \A r \in OpenRows, b \in Buckets :
      b >= r.at /\ BarsLeft(b) = 1 => signals[<<r.s, b>>] = 0
=============================================================================
