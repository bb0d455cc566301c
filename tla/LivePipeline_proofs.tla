------------------------ MODULE LivePipeline_proofs -------------------------
(***************************************************************************)
(* Theorems about LivePipeline.tla, for every set of symbols, every number *)
(* of minutes, buckets, sessions, slots and faults, and every delay.       *)
(***************************************************************************)
EXTENDS LivePipeline, FiniteSetTheorems, WellFoundedInduction, TLAPS

OrNone(S) == S \cup {None}
Row == [id : Nat, s : Symbols, decided : Buckets, at : Buckets, exit : OrNone(Buckets),
        pending_exit : BOOLEAN]
Held == [id : OrNone(Nat), s : Symbols, decided : Buckets, at : Buckets, exit : {None},
         pending_exit : BOOLEAN]

JournalTypes ==
  /\ trades \subseteq Row
  /\ signals \in [Symbols \X Buckets -> Nat]
  /\ local_pending \in [Symbols -> OrNone(Buckets)]
  /\ status \in {"none", "running", "blocked", "incomplete", "unresolved", "stopped"}
ExecutionTypes ==
  /\ pending \in [Symbols -> OrNone(Buckets)]
  /\ positions \subseteq Held
  /\ blocked \in BOOLEAN /\ recovery_required \in BOOLEAN /\ failures \in Nat
AggregationTypes ==
  /\ last_minute \in [Symbols -> OrNone(AllMinutes)]
  /\ last_closed \in [Symbols -> OrNone(Buckets)]
  /\ processed \in [Symbols -> OrNone(Buckets)]
  /\ buckets \in [Symbols -> [start : OrNone(Buckets), minutes : SUBSET AllMinutes]]
  /\ ready \subseteq Buckets \X Symbols
  /\ watermark \in OrNone(Buckets)
ControlTypes ==
  /\ pc \in {"idle", "raised", "tick", "flatten", "drain", "entries", "open", "exits",
             "signals", "queue", "completed"}
  /\ arg \in (Symbols \X AllMinutes) \cup {NoMinute}
  /\ force \in BOOLEAN
  /\ bar \in OrNone(Buckets) /\ filling \in OrNone(Buckets)
  /\ batch \subseteq Symbols /\ todo \subseteq Symbols /\ exited \subseteq Symbols
EnvironmentTypes ==
  now \in Nat /\ connected \in Nat /\ faults \in Nat /\ SESSION_POLICY \in Policies
Types == JournalTypes /\ ExecutionTypes /\ AggregationTypes /\ ControlTypes /\ EnvironmentTypes

(* Where the thread is: a batch is processed from its first symbol to its  *)
(* last, and then again, and nothing is once a failure is known.           *)
Batching == {"entries", "open", "exits", "signals", "queue", "completed"}
Control ==
  /\ recovery_required => pc \in {"idle", "raised"}
  /\ pc \in Batching => /\ bar \in Buckets /\ bar = watermark
                        /\ todo # {} /\ todo \subseteq batch
  /\ pc = "open" => filling # None

(* The minutes of a bucket that is not over, or of a bar that is ready,    *)
(* came since the process started; a bar is ready after its end only.      *)
Aggregation ==
  /\ connected = 0 \/ connected < now
  /\ \A s \in Symbols :
       /\ last_minute[s] < now
       /\ buckets[s].start # None =>
            connected < End(buckets[s].start) /\ buckets[s].start * Minutes <= last_minute[s]
  /\ arg # NoMinute => connected <= arg[2] /\ arg[2] <= last_minute[arg[1]]
  /\ \A x \in ready : connected < End(x[1]) /\ End(x[1]) < now
  /\ watermark # None => End(watermark) < now
  /\ pc \in Batching => connected < End(bar)

(* The ids of the rows, and the memory unless something has failed.        *)
Settled == pc # "raised" /\ ~recovery_required
Memory ==
  /\ IsFiniteSet(trades)
  /\ \A r \in trades : r.id < Cardinality(trades)
  /\ \A r, q \in trades : r.id = q.id => r = q
  /\ Settled => positions = OpenRows /\ pending = local_pending

MInv == Types /\ Control /\ Aggregation /\ Memory

(* What the journal says of a bar lies before every bar that may come.     *)
Recorded(b) ==
  \/ \E s \in Symbols : signals[<<s, b>>] > 0 \/ local_pending[s] = b
  \/ \E r \in trades : b \in {r.decided, r.at, r.exit}
History ==
  \A b \in Buckets : Recorded(b) =>
    /\ b <= watermark \/ End(b) <= connected
    /\ pc \in Batching => b <= bar

(* The symbols of the batch are decided one by one, after their pending    *)
(* entries were taken and their exits checked.                             *)
Undecided == IF pc \in {"entries", "open", "exits"} THEN Symbols
             ELSE IF pc = "signals" THEN todo
             ELSE IF pc = "queue" THEN todo \ {s0} ELSE {}
Popped == IF pc \in {"entries", "open"} THEN batch \ todo
          ELSE IF pc = "exits" THEN batch
          ELSE IF pc \in {"signals", "queue"} THEN todo ELSE {}
Checked == IF pc = "exits" THEN batch \ todo
           ELSE IF pc \in {"signals", "queue"} THEN batch ELSE {}
Phases ==
  /\ \A s \in Undecided : signals[<<s, bar>>] = 0
  /\ \A s \in Popped : local_pending[s] = None
  /\ pc \in {"entries", "open"} => \A r \in trades : r.exit # bar
  /\ Flatten /\ BarsLeft(bar) = 1 => \A r \in OpenRows : r.s \notin Checked

(* An entry that waits was decided once, for no row yet, and its symbol    *)
(* has not decided since.                                                  *)
Waiting(s, d) ==
  /\ \A r \in trades : r.s = s => r.decided # d
  /\ \A b \in Buckets : d < b => signals[<<s, b>>] = 0
Entering ==
  /\ \A s \in Symbols : local_pending[s] # None => Waiting(s, local_pending[s])
  /\ pc = "open" => /\ filling \in Buckets /\ filling < bar /\ Waiting(s0, filling)
                    /\ local_pending[s0] = None
                    /\ \A r \in OpenRows : r.s # s0

Once ==
  /\ \A x \in Symbols \X Buckets : signals[x] <= 1
  /\ \A r \in trades : r.decided < r.at
  /\ \A r, q \in trades : r # q /\ r.s = q.s =>
       r.decided # q.decided /\ ~(r.exit = None /\ q.exit = None)

Touching(b) == {r \in trades : r.at <= b /\ (r.exit = None \/ r.exit >= b)}
Capital ==
  /\ Cardinality(OpenRows) <= Slots
  /\ \A b \in Buckets : Cardinality(Touching(b)) <= Slots

BInv ==
  /\ MInv /\ History /\ Phases /\ Entering /\ Once /\ Capital
  /\ NextObservedBar /\ FlattenedAtClose

-----------------------------------------------------------------------------
(* Minutes and buckets. *)

(* Among the subsets of a finite set, every family has a minimal member.   *)
Minimal(x, T) == \A y \in T : y \subseteq x => y = x

LEMMA MinimalSubset ==
  ASSUME NEW S, IsFiniteSet(S), NEW T, T \subseteq SUBSET S, T # {}
  PROVE  \E x \in T : Minimal(x, T)
<1>1. IsWellFoundedOn(StrictSubsetOrdering(S), FiniteSubsetsOf(S))
  BY FS_StrictSubsetOrderingWellFounded
<1>2. FiniteSubsetsOf(S) = SUBSET S
  BY FS_FiniteSubsetsOfFinite
<1>3. PICK x \in T : \A y \in T : ~ (<<y, x>> \in StrictSubsetOrdering(S))
  BY <1>1, <1>2, WFMin
<1> QED
  BY <1>3 DEF StrictSubsetOrdering, Minimal

(* The first of a set of numbers is in it.                                 *)
LEMMA FirstOf ==
  ASSUME NEW S, S \subseteq Nat, S # {}
  PROVE  First(S) \in S /\ \A y \in S : First(S) <= y
<1>1. PICK n : n \in S
  OBVIOUS
<1> DEFINE Upto(i) == S \cap (0..i)
           F == 0..n
           T == {Upto(i) : i \in S \cap F}
<1>2. IsFiniteSet(F)
  BY <1>1, FS_Interval
<1>3. T \subseteq SUBSET F /\ T # {}
  <2>1. n \in S \cap F
    BY <1>1
  <2>2. \A i \in S \cap F : Upto(i) \subseteq F
    BY <1>1
  <2> QED BY <2>1, <2>2
<1>4. PICK x \in T : Minimal(x, T)
  <2> HIDE DEF T, F
  <2> QED BY <1>2, <1>3, MinimalSubset
<1>5. PICK i \in S \cap F : x = Upto(i)
  BY <1>4
<1>6. ASSUME NEW j \in S, j < i PROVE FALSE
  <2>1. j \in S \cap F /\ Upto(j) \subseteq Upto(i) /\ i \in Upto(i) /\ i \notin Upto(j)
    BY <1>1, <1>6
  <2> QED BY <1>4, <1>5, <2>1 DEF Minimal
<1>7. i \in S /\ \A y \in S : i <= y
  BY <1>6
<1> QED BY <1>7 DEF First

LEMMA BucketOf ==
  ASSUME NEW m \in AllMinutes
  PROVE  /\ m \in Nat /\ Bucket(m) \in Buckets
         /\ Bucket(m) * Minutes <= m /\ m < End(Bucket(m))
<1>1. m \in Nat /\ Minutes \in Nat \ {0} /\ SessionBuckets * Sessions \in Nat
  BY SizesAssumption DEF AllMinutes
<1>2. m < (SessionBuckets * Sessions) * Minutes
  BY <1>1, SizesAssumption DEF AllMinutes
<1> DEFINE q == m \div Minutes
           n == SessionBuckets * Sessions
<1>3. q \in Nat /\ q * Minutes <= m /\ m < (q + 1) * Minutes
  BY <1>1
<1> HIDE DEF q
<1>4. q * Minutes < n * Minutes
  BY <1>1, <1>2, <1>3
<1> HIDE DEF n
<1>5. n \in Nat
  BY <1>1 DEF n
<1>6. q < n
  BY <1>1, <1>3, <1>4, <1>5
<1> QED BY <1>1, <1>3, <1>5, <1>6 DEF Bucket, End, Buckets, q, n

LEMMA Ends ==
  ASSUME NEW b \in Int, NEW c \in Int
  PROVE  /\ End(b) \in Int
         /\ b < c <=> End(b) < End(c)
         /\ b \in Nat => End(b) >= 1
  BY SizesAssumption DEF End

(* A minute of another bucket that comes after a minute of b comes after b.*)
LEMMA AfterBucket ==
  ASSUME NEW m \in AllMinutes, NEW b \in Nat, NEW l \in Int, b * Minutes <= l, l < m, Bucket(m) # b
  PROVE  End(b) <= m
<1>1. m \in Nat /\ Bucket(m) \in Nat /\ Bucket(m) * Minutes <= m /\ m < (Bucket(m) + 1) * Minutes
  BY BucketOf DEF End, Buckets
<1>2. Minutes \in Nat \ {0}
  BY SizesAssumption
<1> DEFINE q == Bucket(m)
<1> HIDE DEF q
<1>3. ~(q < b)
  <2> SUFFICES ASSUME q < b PROVE FALSE
    OBVIOUS
  <2>1. q \in Nat /\ q + 1 <= b /\ m < (q + 1) * Minutes
    BY <1>1 DEF q
  <2>2. (q + 1) * Minutes <= b * Minutes
    BY <1>2, <2>1
  <2> QED BY <1>1, <1>2, <2>1, <2>2
<1>4. b + 1 <= q /\ q \in Nat /\ q * Minutes <= m
  BY <1>1, <1>3 DEF q
<1>5. (b + 1) * Minutes <= q * Minutes
  BY <1>2, <1>4
<1> QED BY <1>1, <1>2, <1>4, <1>5 DEF End

LEMMA NoneIsNone ==
  /\ None \notin Nat /\ None \in Int
  /\ \A b \in Buckets : b \in Nat /\ b # None
  /\ \A m \in AllMinutes : m \in Nat /\ m # None
  /\ NoMinute \notin Symbols \X AllMinutes
  BY SizesAssumption DEF None, Buckets, AllMinutes, NoMinute

-----------------------------------------------------------------------------
(* The thread. *)

LEMMA InBatch ==
  ASSUME Types, Control, pc \in Batching
  PROVE  s0 \in todo /\ s0 \in Symbols /\ s0 \in batch /\ bar \in Buckets /\ bar \in Nat
<1>1. todo # {} /\ todo \subseteq Nat /\ todo \subseteq Symbols /\ todo \subseteq batch /\ bar \in Buckets
  BY SymbolsAssumption DEF Types, ControlTypes, Control
<1>2. First(todo) \in todo
  BY <1>1, FirstOf
<1> QED BY <1>1, <1>2, NoneIsNone DEF s0

LEMMA AdvanceMoves ==
  ASSUME Types, Control, pc \in Batching, NEW step, NEW next, Advance(step, next)
  PROVE  /\ pc' = IF todo = {s0} THEN next ELSE step
         /\ todo' = IF todo = {s0} THEN batch ELSE todo \ {s0}
         /\ todo' # {} /\ todo' \subseteq batch /\ UNCHANGED environment
<1>1. s0 \in todo /\ todo \subseteq batch
  BY InBatch DEF Control
<1>2. /\ pc' = IF todo = {s0} THEN next ELSE step
      /\ todo' = IF todo = {s0} THEN batch ELSE todo \ {s0}
      /\ UNCHANGED environment
  BY DEF Advance, Goto
<1> QED BY <1>1, <1>2

(* What the steps of a batch do to the thread. *)
BatchMoves ==
  /\ UNCHANGED <<arg, force, now, connected, SESSION_POLICY, last_minute, last_closed, buckets, ready, processed, watermark>>
  /\ faults' \in {faults, faults + 1}
  /\ \/ /\ pc' \in Batching /\ UNCHANGED <<bar, batch>>
        /\ todo' # {} /\ todo' \subseteq batch /\ todo' \subseteq Symbols
        /\ exited' \subseteq Symbols
     \/ pc' = "raised" /\ UNCHANGED <<bar, batch, todo, exited>>
     \/ pc' = "drain" /\ bar' = None /\ batch' = {} /\ todo' = {} /\ exited' = {}

LEMMA InBatchMoves ==
  ASSUME Types, Control, process_batch
  PROVE  pc \in Batching /\ BatchMoves
<1>1. pc \in Batching
  BY DEF process_batch, pop_pending, open_position, check_exits, log_signal, queue_entry, batch_completed, Batching
<1>2. /\ s0 \in Symbols /\ todo \subseteq Symbols /\ batch \subseteq Symbols /\ exited \subseteq Symbols
      /\ todo # {} /\ todo \subseteq batch
  BY <1>1, InBatch DEF Types, ControlTypes, Control
<1>3. ASSUME Raise PROVE /\ faults' = faults + 1 /\ pc' = "raised"
                         /\ UNCHANGED <<arg, force, bar, batch, todo, exited, filling, now, connected, SESSION_POLICY>>
  BY <1>3 DEF Raise
<1>4. ASSUME NEW step \in Batching, NEW next \in Batching, Advance(step, next)
      PROVE  /\ pc' \in Batching /\ todo' # {} /\ todo' \subseteq batch /\ todo' \subseteq Symbols
             /\ UNCHANGED <<faults, now, connected, SESSION_POLICY>>
  BY <1>1, <1>2, <1>4, AdvanceMoves DEF environment
<1>5. CASE pop_pending
  BY <1>2, <1>3, <1>4, <1>5 DEF pop_pending, BatchMoves, aggregation, Goto, environment, Batching
<1>6. CASE open_position
  BY <1>2, <1>3, <1>4, <1>6 DEF open_position, BatchMoves, aggregation, Batching
<1>7. CASE check_exits
  <2>1. UNCHANGED aggregation
    BY <1>7 DEF check_exits
  <2>2. \/ Raise
        \/ Advance("exits", "signals") /\ UNCHANGED <<arg, force, bar, batch, filling>> /\ exited' \in {exited, exited \cup {s0}}
    BY <1>7 DEF check_exits
  <2>3. UNCHANGED <<last_minute, last_closed, buckets, ready, processed, watermark>>
    BY <2>1 DEF aggregation
  <2>4. CASE Raise
    BY <1>1, <1>3, <2>3, <2>4 DEF BatchMoves
  <2>5. CASE Advance("exits", "signals") /\ UNCHANGED <<arg, force, bar, batch, filling>> /\ exited' \in {exited, exited \cup {s0}}
    <3>1. "exits" \in Batching /\ "signals" \in Batching
      BY DEF Batching
    <3>2. exited' \subseteq Symbols
      BY <1>2, <2>5
    <3> QED BY <1>1, <1>4, <2>3, <2>5, <3>1, <3>2 DEF BatchMoves
  <2> QED BY <2>2, <2>4, <2>5
<1>8. CASE log_signal
  BY <1>2, <1>3, <1>4, <1>8 DEF log_signal, BatchMoves, aggregation, Goto, environment, Batching
<1>9. CASE queue_entry
  BY <1>2, <1>3, <1>4, <1>9 DEF queue_entry, BatchMoves, aggregation, Batching
<1>10. CASE batch_completed
  <2>1. UNCHANGED <<last_minute, last_closed, buckets, ready, processed, watermark>>
    BY <1>10 DEF batch_completed, aggregation
  <2>2. CASE Raise
    BY <1>1, <1>3, <2>1, <2>2 DEF BatchMoves
  <2>3. CASE /\ Goto("drain") /\ bar' = None /\ batch' = {} /\ todo' = {} /\ exited' = {}
             /\ UNCHANGED <<arg, force, filling>>
    BY <1>1, <2>1, <2>3 DEF BatchMoves, Goto, environment
  <2> QED BY <1>10, <2>2, <2>3 DEF batch_completed
<1> QED BY <1>1, <1>5, <1>6, <1>7, <1>8, <1>9, <1>10 DEF process_batch

LEMMA ControlNext ==
  ASSUME Types, Control, Next
  PROVE  Control'
<1>1. ASSUME NEW s \in Symbols, NEW m \in AllMinutes, on_minute_bar(s, m) PROVE Control'
  BY <1>1 DEF on_minute_bar, finish_raises, execution, Control, Batching
<1>2. CASE record_worker_error
  BY <1>2 DEF record_worker_error, Control, Batching
<1>3. CASE recover_worker_error
  BY <1>3 DEF recover_worker_error, execution, control, Raise, Control, Batching
<1>4. CASE drain_ready
  <2>0. pc' # "open"
    BY <1>4 DEF drain_ready, Goto, control
  <2>1. ~recovery_required /\ UNCHANGED recovery_required
    BY <1>4 DEF drain_ready, execution, Control
  <2>2. ASSUME Take(First({x[1] : x \in ready})), Fresh(First({x[1] : x \in ready})) # {}, ready # {},
               bar' = First({x[1] : x \in ready}),
               batch' = Fresh(First({x[1] : x \in ready})), todo' = Fresh(First({x[1] : x \in ready}))
        PROVE  Control'
    <3> DEFINE S == {x[1] : x \in ready}
               b == First(S)
    <3>1. S \subseteq Nat /\ S # {} /\ S \subseteq Buckets
      BY <2>2, NoneIsNone DEF Types, AggregationTypes
    <3>2. b \in Buckets
      <4> HIDE DEF S
      <4> QED BY <3>1, FirstOf
    <3>3. watermark' = b
      BY <2>2 DEF Take
    <3> QED BY <2>0, <2>1, <2>2, <3>2, <3>3 DEF Control
  <2>3. pc' \in Batching => /\ Take(First({x[1] : x \in ready})) /\ Fresh(First({x[1] : x \in ready})) # {} /\ ready # {}
                            /\ bar' = First({x[1] : x \in ready})
                            /\ batch' = Fresh(First({x[1] : x \in ready})) /\ todo' = Fresh(First({x[1] : x \in ready}))
    BY <1>4 DEF drain_ready, Goto, control, Batching
  <2> QED BY <2>0, <2>1, <2>2, <2>3 DEF Control
<1>5. CASE process_batch
  <2>1. UNCHANGED recovery_required
    BY <1>5 DEF process_batch, pop_pending, open_position, check_exits, log_signal, queue_entry, batch_completed, execution
  <2>2. pc \in Batching /\ BatchMoves
    BY <1>5, InBatchMoves
  <2>3. pc' = "open" => filling' # None
    <3>1. ASSUME NEW step \in Batching \ {"open"}, NEW next \in Batching \ {"open"}, Advance(step, next)
          PROVE  pc' # "open"
      BY <3>1 DEF Advance, Goto
    <3>2. ASSUME Raise PROVE pc' # "open"
      BY <3>2 DEF Raise
    <3> QED BY <1>5, <3>1, <3>2 DEF process_batch, pop_pending, Fillable, open_position, check_exits,
                                   log_signal, queue_entry, batch_completed, Goto, Batching
  <2> QED BY <2>1, <2>2, <2>3 DEF BatchMoves, Control, Batching
<1>6. CASE tick_finish
  <2>1. ~recovery_required /\ UNCHANGED recovery_required /\ pc' \notin Batching
    BY <1>6 DEF tick_finish, tick, finish_raises, execution, Control, Goto, Batching
  <2> QED BY <2>1 DEF Control, Batching
<1>7. CASE tick_flatten \/ tick_status
  <2>1. ~recovery_required /\ UNCHANGED recovery_required /\ pc' \notin Batching
    BY <1>7 DEF tick_flatten, tick_status, execution, control, Control, Goto, Raise, Batching
  <2> QED BY <2>1 DEF Control, Batching
<1>8. CASE Time \/ Restart
  BY <1>8 DEF Time, Restart, execution, control, Control, Batching
<1> QED BY <1>1, <1>2, <1>3, <1>4, <1>5, <1>6, <1>7, <1>8 DEF Next, Turn

-----------------------------------------------------------------------------
(* Types. *)

LEMMA RowsMove ==
  ASSUME Types, NEW p
  PROVE  /\ {IF r.id = p.id THEN Marked(r) ELSE r : r \in trades} \subseteq Row
         /\ \A b \in Buckets :
              {IF r.id = p.id THEN [r EXCEPT !.exit = b] ELSE r : r \in trades} \subseteq Row
<1>1. trades \subseteq Row
  BY DEF Types, JournalTypes
<1>2. \A r \in trades : Marked(r) \in Row
  BY <1>1 DEF Row, Marked
<1>3. \A r \in trades, b \in Buckets : [r EXCEPT !.exit = b] \in Row
  BY <1>1 DEF Row, OrNone
<1> QED BY <1>1, <1>2, <1>3

LEMMA JournalTypesNext ==
  ASSUME Types, Control, Memory, Next
  PROVE  JournalTypes'
<1>1. JournalTypes
  BY DEF Types
<1>2. CASE UNCHANGED <<trades, signals, local_pending>> /\ (status' = status \/ status' \in {"running", "blocked", "incomplete", "unresolved", "stopped"})
  BY <1>1, <1>2 DEF JournalTypes
<1>3. CASE \E s \in Symbols, m \in AllMinutes : on_minute_bar(s, m)
  <2>1. PICK s \in Symbols, m \in AllMinutes : on_minute_bar(s, m)
    BY <1>3
  <2> QED BY <1>2, <2>1 DEF on_minute_bar, finish, finish_raises, journal, IncompleteStatus
<1>4. CASE recover_worker_error \/ record_worker_error \/ drain_ready \/ Time \/ Restart
  BY <1>2, <1>4 DEF recover_worker_error, record_worker_error, drain_ready, Time, Restart, journal
<1>5. CASE tick_finish
  BY <1>2, <1>5 DEF tick_finish, finish, finish_raises, journal, IncompleteStatus
<1>6. CASE tick_status
  BY <1>2, <1>6 DEF tick_status, Heartbeat
<1>7. CASE batch_completed
  BY <1>2, <1>7 DEF batch_completed
<1>8. CASE tick_flatten
  <2>1. UNCHANGED <<signals, local_pending, status>>
    BY <1>8 DEF tick_flatten
  <2>2. trades' \subseteq Row
    <3>1. \/ trades' = trades
          \/ \E p \in Unmarked : trades' = {IF r.id = p.id THEN Marked(r) ELSE r : r \in trades}
      BY <1>8 DEF tick_flatten
    <3> QED BY <1>1, <3>1, RowsMove DEF JournalTypes
  <2> QED BY <1>1, <2>1, <2>2 DEF JournalTypes
<1>9. CASE check_exits
  <2>1. UNCHANGED <<signals, local_pending, status>> /\ bar \in Buckets
    BY <1>9, InBatch DEF check_exits, Batching
  <2>2. trades' \subseteq Row
    <3>1. \/ trades' = trades
          \/ \E p : trades' = {IF r.id = p.id THEN [r EXCEPT !.exit = bar] ELSE r : r \in trades}
      BY <1>9 DEF check_exits
    <3> QED BY <1>1, <2>1, <3>1, RowsMove DEF JournalTypes
  <2> QED BY <1>1, <2>1, <2>2 DEF JournalTypes
<1>10. CASE open_position
  <2>1. UNCHANGED <<signals, local_pending, status>> /\ bar \in Buckets /\ s0 \in Symbols
    BY <1>10, InBatch DEF open_position, Batching
  <2>2. filling \in Buckets
    BY <1>10 DEF open_position, Control, Types, ControlTypes, OrNone
  <2>3. Cardinality(trades) \in Nat
    BY FS_CardinalityType DEF Memory
  <2>4. Position(Cardinality(trades), s0, filling, bar) \in Row
    BY <2>1, <2>2, <2>3 DEF Position, Row, OrNone
  <2>5. trades' \in {trades, trades \cup {Position(Cardinality(trades), s0, filling, bar)}}
    BY <1>10 DEF open_position
  <2> QED BY <1>1, <2>1, <2>4, <2>5 DEF JournalTypes
<1>11. CASE pop_pending
  <2>1. s0 \in Symbols
    BY <1>11, InBatch DEF pop_pending, Batching
  <2>2. UNCHANGED <<trades, signals, status>> /\ local_pending' \in {local_pending, [local_pending EXCEPT ![s0] = None]}
    BY <1>11 DEF pop_pending
  <2> QED BY <1>1, <2>1, <2>2 DEF JournalTypes, OrNone
<1>12. CASE queue_entry
  <2>1. s0 \in Symbols /\ bar \in Buckets
    BY <1>12, InBatch DEF queue_entry, Batching
  <2>2. UNCHANGED <<trades, signals, status>> /\ local_pending' \in {local_pending, [local_pending EXCEPT ![s0] = bar]}
    BY <1>12 DEF queue_entry
  <2> QED BY <1>1, <2>1, <2>2 DEF JournalTypes, OrNone
<1>13. CASE log_signal
  <2>1. s0 \in Symbols /\ bar \in Buckets
    BY <1>13, InBatch DEF log_signal, Batching
  <2>2. UNCHANGED <<trades, local_pending, status>> /\ signals' \in {signals, [signals EXCEPT ![<<s0, bar>>] = @ + 1]}
    BY <1>13 DEF log_signal
  <2>3. [signals EXCEPT ![<<s0, bar>>] = @ + 1] \in [Symbols \X Buckets -> Nat]
    BY <1>1, <2>1 DEF JournalTypes
  <2> QED BY <1>1, <2>2, <2>3 DEF JournalTypes
<1> QED BY <1>3, <1>4, <1>5, <1>6, <1>7, <1>8, <1>9, <1>10, <1>11, <1>12, <1>13 DEF Next, Turn, process_batch

LEMMA EnvironmentTypesNext ==
  ASSUME Types, Next
  PROVE  EnvironmentTypes'
<1>1. EnvironmentTypes
  BY DEF Types
<1>2. CASE \E s \in Symbols, m \in AllMinutes : on_minute_bar(s, m)
  <2>1. PICK s \in Symbols, m \in AllMinutes : on_minute_bar(s, m)
    BY <1>2
  <2>2. m \in Nat /\ Expected(s) \in Int /\ m >= Expected(s)
    BY <1>1, <2>1, NoneIsNone DEF on_minute_bar, Expected, EnvironmentTypes, Types, AggregationTypes, OrNone
  <2>3. UNCHANGED <<now, connected, SESSION_POLICY>> /\ faults' \in {faults + 1, faults + (m - Expected(s))}
    BY <2>1 DEF on_minute_bar, finish_raises
  <2> QED BY <1>1, <2>2, <2>3 DEF EnvironmentTypes
<1>3. CASE Time
  BY <1>1, <1>3 DEF Time, EnvironmentTypes
<1>4. CASE Restart
  BY <1>1, <1>4 DEF Restart, EnvironmentTypes
<1>5. CASE Turn
  <2>1. UNCHANGED <<now, connected, SESSION_POLICY>> /\ faults' \in {faults, faults + 1}
    <3>1. ASSUME NEW step, NEW next, Advance(step, next)
          PROVE  UNCHANGED <<now, connected, SESSION_POLICY>> /\ faults' \in {faults, faults + 1}
      BY <3>1 DEF Advance, Goto, environment
    <3>2. ASSUME Raise
          PROVE  UNCHANGED <<now, connected, SESSION_POLICY>> /\ faults' \in {faults, faults + 1}
      BY <3>2 DEF Raise
    <3>3. CASE process_batch
      BY <1>5, <3>1, <3>2, <3>3 DEF process_batch, pop_pending, open_position, check_exits,
           log_signal, queue_entry, batch_completed, Goto, environment
    <3>4. CASE tick_finish
      BY <3>4 DEF tick_finish, finish_raises, Goto, environment
    <3>5. CASE drain_ready \/ tick_flatten \/ tick_status
      BY <3>2, <3>5 DEF drain_ready, tick_flatten, tick_status, Goto, environment
    <3>6. CASE recover_worker_error \/ record_worker_error
      BY <3>2, <3>6 DEF recover_worker_error, record_worker_error, environment
    <3> QED BY <1>5, <3>3, <3>4, <3>5, <3>6 DEF Turn
  <2> QED BY <1>1, <2>1 DEF EnvironmentTypes
<1> QED BY <1>2, <1>3, <1>4, <1>5 DEF Next

LEMMA FirstReady ==
  ASSUME Types, ready # {}
  PROVE  /\ First({x[1] : x \in ready}) \in Buckets
         /\ \E s \in Symbols : <<First({x[1] : x \in ready}), s>> \in ready
<1> DEFINE S == {x[1] : x \in ready}
<1>1. S \subseteq Nat /\ S # {} /\ S \subseteq Buckets
  BY NoneIsNone DEF Types, AggregationTypes
<1> HIDE DEF S
<1>2. First(S) \in S
  BY <1>1, FirstOf
<1>3. PICK x \in ready : First(S) = x[1]
  BY <1>2 DEF S
<1>4. \E s \in Symbols : x = <<x[1], s>>
  BY DEF Types, AggregationTypes
<1> QED BY <1>1, <1>2, <1>3, <1>4 DEF S

LEMMA AddMinuteTypes ==
  ASSUME Types, NEW s \in Symbols, NEW m \in AllMinutes, AddMinute(s, m)
  PROVE  buckets' \in [Symbols -> [start : OrNone(Buckets), minutes : SUBSET AllMinutes]]
<1>1. Bucket(m) \in Buckets
  BY BucketOf
<1>2. buckets[s].minutes \subseteq AllMinutes
  BY DEF Types, AggregationTypes
<1> DEFINE old == IF buckets[s].start = Bucket(m) THEN buckets[s].minutes ELSE {}
           new == [start |-> Bucket(m), minutes |-> old \cup {m}]
<1>3. new \in [start : OrNone(Buckets), minutes : SUBSET AllMinutes]
  BY <1>1, <1>2 DEF OrNone
<1>4. buckets' = [buckets EXCEPT ![s] = new]
  BY DEF AddMinute
<1> HIDE DEF new
<1> QED BY <1>3, <1>4 DEF Types, AggregationTypes

LEMMA FinishTypes ==
  ASSUME Types, NEW s \in Symbols, buckets[s].start # None, finish(s) \/ finish_raises(s)
  PROVE  /\ last_closed' \in [Symbols -> OrNone(Buckets)]
         /\ buckets' \in [Symbols -> [start : OrNone(Buckets), minutes : SUBSET AllMinutes]]
         /\ ready' \subseteq Buckets \X Symbols
<1>1. buckets[s].start \in Buckets
  BY DEF Types, AggregationTypes, OrNone
<1>2. /\ last_closed' = [last_closed EXCEPT ![s] = buckets[s].start]
      /\ buckets' = [buckets EXCEPT ![s] = NoBucket]
      /\ ready' \in {ready, ready \cup {<<buckets[s].start, s>>}}
  BY DEF finish, finish_raises, Closed
<1>3. NoBucket \in [start : OrNone(Buckets), minutes : SUBSET AllMinutes]
  BY DEF NoBucket, OrNone
<1> QED BY <1>1, <1>2, <1>3 DEF Types, AggregationTypes, OrNone

LEMMA OverBuckets ==
  ASSUME NEW over, over \subseteq Buckets, over # {}
  PROVE  Cardinality(over) - 1 \in Buckets
<1> DEFINE n == SessionBuckets * Sessions
<1>1. n \in Nat
  BY SizesAssumption
<1>2. Buckets = 0..(n - 1)
  BY DEF Buckets
<1> HIDE DEF n
<1>3. IsFiniteSet(Buckets) /\ Cardinality(Buckets) = n
  BY <1>1, <1>2, FS_Interval
<1>4. IsFiniteSet(over) /\ Cardinality(over) <= n
  BY <1>3, FS_Subset
<1>5. Cardinality(over) \in Nat /\ Cardinality(over) # 0
  BY <1>4, FS_CardinalityType, FS_EmptySet
<1> QED BY <1>1, <1>2, <1>4, <1>5

LEMMA AggregationTypesNext ==
  ASSUME Types, Control, Next
  PROVE  AggregationTypes'
<1>1. AggregationTypes
  BY DEF Types
<1>2. CASE UNCHANGED aggregation
  BY <1>1, <1>2 DEF AggregationTypes, aggregation
<1>3. CASE \E s \in Symbols, m \in AllMinutes : on_minute_bar(s, m)
  <2>1. PICK s \in Symbols, m \in AllMinutes : on_minute_bar(s, m)
    BY <1>3
  <2>2. /\ last_minute' \in [Symbols -> OrNone(AllMinutes)]
        /\ UNCHANGED <<processed, watermark>>
    BY <1>1, <2>1 DEF on_minute_bar, AggregationTypes, OrNone
  <2>3. \/ UNCHANGED <<last_closed, buckets, ready>>
        \/ AddMinute(s, m) /\ UNCHANGED <<last_closed, ready>>
        \/ buckets[s].start # None /\ (finish(s) \/ finish_raises(s))
    BY <2>1 DEF on_minute_bar
  <2>4. CASE AddMinute(s, m) /\ UNCHANGED <<last_closed, ready>>
    BY <1>1, <2>2, <2>4, AddMinuteTypes DEF AggregationTypes
  <2>5. CASE buckets[s].start # None /\ (finish(s) \/ finish_raises(s))
    BY <1>1, <2>2, <2>5, FinishTypes DEF AggregationTypes
  <2> QED BY <1>1, <2>2, <2>3, <2>4, <2>5 DEF AggregationTypes
<1>4. CASE tick_finish
  <2>1. UNCHANGED <<last_minute, processed, watermark>>
    BY <1>4 DEF tick_finish
  <2>2. CASE Overdue = {}
    BY <1>1, <1>4, <2>1, <2>2 DEF tick_finish, AggregationTypes
  <2>3. CASE Overdue # {}
    <3>1. Overdue \subseteq Nat /\ Overdue \subseteq Symbols
      BY SymbolsAssumption DEF Overdue
    <3>2. First(Overdue) \in Overdue
      BY <2>3, <3>1, FirstOf
    <3>3. PICK s \in Symbols : s = First(Overdue) /\ buckets[s].start # None
      BY <3>1, <3>2 DEF Overdue
    <3>4. finish(s) \/ finish_raises(s)
      BY <1>4, <2>3, <3>3 DEF tick_finish
    <3> QED BY <1>1, <2>1, <3>3, <3>4, FinishTypes DEF AggregationTypes
  <2> QED BY <2>2, <2>3
<1>5. CASE drain_ready
  <2>1. CASE ready # {} /\ Take(First({x[1] : x \in ready})) /\ UNCHANGED <<last_minute, last_closed, buckets>>
    <3>1. PICK b \in Buckets : b = First({x[1] : x \in ready})
      BY <2>1, FirstReady
    <3>2. Take(b)
      BY <2>1, <3>1
    <3>3. /\ ready' \subseteq ready /\ watermark' \in {watermark, b}
          /\ processed' \in [Symbols -> OrNone(Buckets)]
      BY <1>1, <3>2 DEF Take, AggregationTypes, OrNone
    <3> QED BY <1>1, <2>1, <3>3 DEF AggregationTypes, OrNone
  <2>2. CASE /\ arg # NoMinute /\ AddMinute(arg[1], arg[2])
             /\ UNCHANGED <<last_minute, last_closed, ready, processed, watermark>>
    <3>1. arg[1] \in Symbols /\ arg[2] \in AllMinutes
      BY <2>2 DEF Types, ControlTypes
    <3> QED BY <1>1, <2>2, <3>1, AddMinuteTypes DEF AggregationTypes
  <2> QED BY <1>2, <1>5, <2>1, <2>2 DEF drain_ready
<1>6. CASE recover_worker_error
  <2>1. CASE MinuteLost
    <3>1. /\ UNCHANGED <<last_closed, buckets, ready, processed, watermark>>
          /\ last_minute' \in [Symbols -> OrNone(AllMinutes)]
      BY <1>1, <2>1 DEF MinuteLost, AggregationTypes, OrNone
    <3> QED BY <1>1, <3>1 DEF AggregationTypes
  <2> QED BY <1>2, <1>6, <2>1 DEF recover_worker_error
<1>7. CASE Restart
  <2> DEFINE over == {b \in Buckets : End(b) + Grace < now}
             last == IF over = {} THEN None ELSE Cardinality(over) - 1
  <2>1. last \in OrNone(Buckets)
    <3>1. over \subseteq Buckets
      OBVIOUS
    <3> HIDE DEF over
    <3> QED BY <3>1, OverBuckets DEF OrNone
  <2>2. last_closed' = [s \in Symbols |-> last]
    BY <1>7 DEF Restart
  <2> HIDE DEF last
  <2>3. last_closed' \in [Symbols -> OrNone(Buckets)]
    BY <2>1, <2>2
  <2>4. /\ last_minute' = [s \in Symbols |-> None] /\ processed' = [s \in Symbols |-> None]
        /\ buckets' = [s \in Symbols |-> NoBucket] /\ ready' = {} /\ watermark' = None
    BY <1>7 DEF Restart
  <2> QED BY <2>3, <2>4 DEF AggregationTypes, OrNone, NoBucket
<1>8. CASE process_batch \/ record_worker_error \/ tick_flatten \/ tick_status \/ Time
  BY <1>2, <1>8 DEF process_batch, pop_pending, open_position, check_exits, log_signal, queue_entry,
       batch_completed, record_worker_error, tick_flatten, tick_status, Time
<1> QED BY <1>3, <1>4, <1>5, <1>6, <1>7, <1>8 DEF Next, Turn

LEMMA ControlTypesNext ==
  ASSUME Types, Control, Next
  PROVE  ControlTypes'
<1>1. ControlTypes
  BY DEF Types
<1>2. CASE UNCHANGED <<arg, force, bar, batch, todo, exited, filling>> /\ pc' \in {"idle", "raised", "tick", "flatten", "drain", pc}
  BY <1>1, <1>2 DEF ControlTypes
<1>3. CASE \E s \in Symbols, m \in AllMinutes : on_minute_bar(s, m)
  <2>1. PICK s \in Symbols, m \in AllMinutes : on_minute_bar(s, m)
    BY <1>3
  <2>2. /\ UNCHANGED <<force, bar, batch, todo, exited, filling>> /\ pc' \in {"raised", "drain", pc}
        /\ arg' \in {arg, <<s, m>>}
    BY <2>1 DEF on_minute_bar, finish_raises
  <2> QED BY <1>1, <2>2 DEF ControlTypes
<1>4. CASE Time
  BY <1>2, <1>4 DEF Time, control
<1>5. CASE record_worker_error \/ Restart
  BY <1>5 DEF record_worker_error, Restart, ControlTypes, OrNone
<1>6. CASE recover_worker_error
  BY <1>2, <1>6 DEF recover_worker_error, control, Raise
<1>7. CASE drain_ready
  <2>1. CASE /\ ready # {} /\ bar' = First({x[1] : x \in ready})
             /\ batch' = Fresh(First({x[1] : x \in ready})) /\ todo' = Fresh(First({x[1] : x \in ready}))
             /\ pc' = "entries" /\ UNCHANGED <<arg, force, exited, filling>>
    <3>1. PICK b \in Buckets : b = First({x[1] : x \in ready})
      BY <2>1, FirstReady
    <3>2. Fresh(b) \subseteq Symbols
      BY DEF Fresh, Batch
    <3> QED BY <1>1, <2>1, <3>1, <3>2 DEF ControlTypes, OrNone
  <2>2. CASE UNCHANGED control
    BY <1>2, <2>2 DEF control
  <2>3. CASE UNCHANGED <<force, bar, batch, todo, exited, filling>> /\ pc' = "idle" /\ arg' = NoMinute
    BY <1>1, <2>3 DEF ControlTypes
  <2>4. CASE UNCHANGED <<arg, force, bar, batch, todo, exited, filling>> /\ pc' \in {"flatten", "tick"}
    BY <1>2, <2>4
  <2> QED BY <1>7, <2>1, <2>2, <2>3, <2>4 DEF drain_ready, Goto
<1>8. CASE tick_finish
  <2>1. /\ pc' \in {"flatten", "drain", "tick", "raised"} /\ force' \in {force, TRUE}
        /\ UNCHANGED <<arg, bar, batch, todo, exited, filling>>
    BY <1>8 DEF tick_finish, finish_raises, Goto
  <2> QED BY <1>1, <2>1 DEF ControlTypes
<1>9. CASE tick_flatten
  BY <1>2, <1>9 DEF tick_flatten, control, Raise
<1>10. CASE tick_status
  <2>1. CASE Raise
    BY <1>2, <2>1 DEF Raise
  <2>2. CASE pc' = "idle" /\ force' = FALSE /\ UNCHANGED <<arg, bar, batch, todo, exited, filling>>
    BY <1>1, <2>2 DEF ControlTypes
  <2> QED BY <1>10, <2>1, <2>2 DEF tick_status, Goto
<1>11. CASE process_batch
  <2>1. pc \in Batching /\ BatchMoves
    BY <1>11, InBatchMoves
  <2>2. filling' \in OrNone(Buckets)
    <3>1. filling' \in {filling, None, pending[s0]}
      BY <1>11 DEF process_batch, pop_pending, open_position, check_exits, log_signal, queue_entry,
           batch_completed, Raise
    <3>2. s0 \in Symbols
      BY <2>1, InBatch
    <3> QED BY <3>1, <3>2 DEF Types, ControlTypes, ExecutionTypes, OrNone
  <2>3. pc' \in {"idle", "raised", "tick", "flatten", "drain", "entries", "open", "exits",
             "signals", "queue", "completed"} /\ bar' \in OrNone(Buckets)
    BY <1>1, <2>1 DEF BatchMoves, Batching, ControlTypes, OrNone
  <2>4. batch' \subseteq Symbols /\ todo' \subseteq Symbols /\ exited' \subseteq Symbols
    BY <1>1, <2>1 DEF BatchMoves, ControlTypes
  <2>5. UNCHANGED <<arg, force>>
    BY <2>1 DEF BatchMoves
  <2> QED BY <1>1, <2>2, <2>3, <2>4, <2>5 DEF ControlTypes
<1> QED BY <1>3, <1>4, <1>5, <1>6, <1>7, <1>8, <1>9, <1>10, <1>11 DEF Next, Turn

LEMMA OpenIsHeld ==
  ASSUME Types
  PROVE  OpenRows \subseteq Held
  BY DEF OpenRows, Types, JournalTypes, Row, Held, OrNone

LEMMA ExecutionTypesNext ==
  ASSUME Types, Control, Memory, Next
  PROVE  ExecutionTypes'
<1>1. ExecutionTypes
  BY DEF Types
<1>2. CASE UNCHANGED execution
  BY <1>1, <1>2 DEF ExecutionTypes, execution
<1>3. CASE recover_worker_error
  <2>1. local_pending \in [Symbols -> OrNone(Buckets)]
    BY DEF Types, JournalTypes
  <2>2. CASE /\ positions' = OpenRows /\ pending' = local_pending
             /\ blocked' = FALSE /\ recovery_required' = FALSE /\ UNCHANGED failures
    BY <1>1, <2>1, <2>2, OpenIsHeld DEF ExecutionTypes
  <2> QED BY <1>2, <1>3, <2>2 DEF recover_worker_error
<1>4. CASE record_worker_error
  <2>1. failures' = failures + 1 /\ recovery_required' = TRUE /\ blocked' = TRUE /\ UNCHANGED <<pending, positions>>
    BY <1>4 DEF record_worker_error
  <2> QED BY <1>1, <2>1 DEF ExecutionTypes
<1>5. CASE Restart
  <2>1. local_pending \in [Symbols -> OrNone(Buckets)]
    BY DEF Types, JournalTypes
  <2>2. /\ positions' = OpenRows /\ pending' = local_pending
        /\ blocked' = FALSE /\ failures' = 0 /\ recovery_required' = FALSE
    BY <1>5 DEF Restart
  <2> QED BY <2>1, <2>2, OpenIsHeld DEF ExecutionTypes
<1>6. CASE tick_flatten
  <2>1. PICK p \in positions : positions' = (positions \ {p}) \cup {Marked(p)}
    BY <1>6 DEF tick_flatten, Unmarked
  <2>2. Marked(p) \in Held
    BY <1>1 DEF ExecutionTypes, Marked, Held
  <2>3. UNCHANGED <<pending, blocked, failures, recovery_required>>
    BY <1>6 DEF tick_flatten
  <2>4. positions' \subseteq Held
    BY <1>1, <2>1, <2>2 DEF ExecutionTypes
  <2> QED BY <1>1, <2>3, <2>4 DEF ExecutionTypes
<1>7. CASE process_batch
  <2>1. s0 \in Symbols /\ bar \in Buckets
    BY <1>7, InBatchMoves, InBatch
  <2>2. UNCHANGED <<blocked, recovery_required>> /\ failures' \in {failures, 0}
    BY <1>7 DEF process_batch, pop_pending, open_position, check_exits, log_signal, queue_entry,
         batch_completed, execution
  <2>3. pending' \in [Symbols -> OrNone(Buckets)]
    <3>1. pending' \in {pending, [pending EXCEPT ![s0] = None], [pending EXCEPT ![s0] = bar]}
      BY <1>7 DEF process_batch, pop_pending, open_position, check_exits, log_signal, queue_entry,
           batch_completed, execution
    <3> QED BY <1>1, <2>1, <3>1 DEF ExecutionTypes, OrNone
  <2>4. positions' \subseteq Held
    <3>1. CASE open_position
      <4> DEFINE opened == Position(Cardinality(trades), s0, filling, bar)
      <4>1. filling \in Buckets
        BY <3>1 DEF open_position, Control, Types, ControlTypes, OrNone
      <4>2. Cardinality(trades) \in Nat
        BY FS_CardinalityType DEF Memory
      <4>3. opened \in Held /\ [opened EXCEPT !.id = None] \in Held
        BY <2>1, <4>1, <4>2 DEF Position, Held, OrNone
      <4>4. positions' \in {positions, positions \cup {opened}, positions \cup {[opened EXCEPT !.id = None]}}
        BY <3>1 DEF open_position
      <4> HIDE DEF opened
      <4> QED BY <1>1, <4>3, <4>4 DEF ExecutionTypes
    <3>2. CASE ~open_position
      <4>1. positions' \subseteq positions
        BY <1>7, <3>2 DEF process_batch, pop_pending, check_exits, log_signal, queue_entry,
           batch_completed, execution
      <4> QED BY <1>1, <4>1 DEF ExecutionTypes
    <3> QED BY <3>1, <3>2
  <2> QED BY <1>1, <2>2, <2>3, <2>4 DEF ExecutionTypes
<1>8. CASE \E s \in Symbols, m \in AllMinutes : on_minute_bar(s, m)
  BY <1>2, <1>8 DEF on_minute_bar
<1>9. CASE drain_ready \/ tick_finish \/ tick_status \/ Time
  BY <1>2, <1>9 DEF drain_ready, tick_finish, tick_status, Time
<1> QED BY <1>3, <1>4, <1>5, <1>6, <1>7, <1>8, <1>9 DEF Next, Turn

LEMMA TypesNext ==
  ASSUME Types, Control, Memory, Next
  PROVE  Types'
BY JournalTypesNext, ExecutionTypesNext, AggregationTypesNext, ControlTypesNext, EnvironmentTypesNext DEF Types

-----------------------------------------------------------------------------
(* Aggregation. *)

LEMMA AggregationNext ==
  ASSUME Types, Control, Aggregation, Next
  PROVE  Aggregation'
<1> USE NoneIsNone
<1>1. /\ now \in Nat /\ connected \in Nat
      /\ last_minute \in [Symbols -> OrNone(AllMinutes)]
      /\ buckets \in [Symbols -> [start : OrNone(Buckets), minutes : SUBSET AllMinutes]]
      /\ ready \subseteq Buckets \X Symbols
      /\ \A b \in Buckets : End(b) \in Int /\ b \in Nat
  BY Ends DEF Types, EnvironmentTypes, AggregationTypes
<1>2. CASE /\ UNCHANGED <<now, connected, last_minute, buckets, ready, watermark>> /\ arg' \in {arg, NoMinute}
           /\ pc' \in Batching => bar' = bar /\ pc \in Batching
  BY <1>2 DEF Aggregation
<1>3. CASE process_batch
  <2>1. pc \in Batching /\ BatchMoves
    BY <1>3, InBatchMoves
  <2> QED BY <1>2, <2>1 DEF BatchMoves, Batching
<1>4. CASE record_worker_error \/ tick_flatten \/ tick_status
  <2>1. UNCHANGED <<now, connected>> /\ UNCHANGED aggregation /\ arg' \in {arg, NoMinute} /\ pc' \notin Batching
    BY <1>4 DEF record_worker_error, tick_flatten, tick_status, Goto, Raise, environment, control, Batching
  <2> QED BY <1>2, <2>1 DEF aggregation
<1>5. CASE Time
  <2>1. now' = now + 1 /\ UNCHANGED <<aggregation, control, connected>>
    BY <1>5 DEF Time
  <2>2. UNCHANGED <<last_minute, buckets, ready, watermark, arg, pc, bar>>
    BY <2>1 DEF aggregation, control
  <2> QED BY <1>1, <2>1, <2>2 DEF Aggregation, OrNone, Types, AggregationTypes
<1>6. CASE Restart
  <2>1. /\ connected' = (IF now = 0 THEN 0 ELSE now - 1) /\ now' = now /\ arg' = NoMinute /\ ready' = {}
        /\ watermark' = None /\ pc' = "idle" /\ last_minute' = [s \in Symbols |-> None]
        /\ buckets' = [s \in Symbols |-> NoBucket]
    BY <1>6 DEF Restart
  <2> QED BY <1>1, <2>1 DEF Aggregation, NoBucket, Batching, None
<1>7. CASE recover_worker_error
  <2>1. CASE MinuteLost /\ Raise
    <3>1. /\ UNCHANGED <<now, connected, buckets, ready, watermark, arg>> /\ pc' = "raised"
      BY <2>1 DEF MinuteLost, Raise
    <3>2. \A s \in Symbols : last_minute[s] <= last_minute'[s] /\ last_minute'[s] < now
      <4>1. CASE UNCHANGED last_minute
        BY <1>1, <4>1 DEF Aggregation, OrNone
      <4>2. CASE \E s \in Symbols : Expected(s) \in AllMinutes /\ Expected(s) < now /\ last_minute' = [last_minute EXCEPT ![s] = Expected(s)]
        <5>1. PICK s \in Symbols : Expected(s) \in AllMinutes /\ Expected(s) < now /\ last_minute' = [last_minute EXCEPT ![s] = Expected(s)]
          BY <4>2
        <5>2. last_minute[s] <= Expected(s)
          BY <1>1 DEF Expected, OrNone, None
        <5> QED BY <1>1, <5>1, <5>2 DEF Aggregation, OrNone
      <4> QED BY <2>1, <4>1, <4>2 DEF MinuteLost
    <3>3. last_minute' \in [Symbols -> OrNone(AllMinutes)]
      BY AggregationTypesNext DEF AggregationTypes
    <3>4. \A s \in Symbols : buckets[s].start # None => buckets[s].start * Minutes \in Int
      BY <1>1, SizesAssumption DEF OrNone
    <3>5. \A s \in Symbols : buckets[s].start # None => buckets[s].start * Minutes <= last_minute'[s]
      BY <1>1, <3>2, <3>3, <3>4 DEF Aggregation, OrNone
    <3>6. arg # NoMinute => arg[2] <= last_minute'[arg[1]]
      <4>1. arg # NoMinute => arg[1] \in Symbols /\ arg[2] \in AllMinutes
        BY DEF Types, ControlTypes
      <4> QED BY <1>1, <3>2, <3>3, <4>1 DEF Aggregation, OrNone
    <3> QED BY <3>1, <3>2, <3>5, <3>6 DEF Aggregation, Batching
  <2>2. CASE UNCHANGED <<aggregation, environment, control>>
    BY <1>2, <2>2 DEF aggregation, environment, control
  <2> QED BY <1>7, <2>1, <2>2 DEF recover_worker_error

<1>8. ASSUME NEW s \in Symbols, NEW m \in AllMinutes, on_minute_bar(s, m) PROVE Aggregation'
  <2>1. /\ m < now /\ last_minute[s] < m /\ connected <= m
        /\ last_minute' = [last_minute EXCEPT ![s] = m]
        /\ UNCHANGED <<now, connected, watermark>> /\ pc' \notin Batching
    <3>1. m \in Nat /\ last_minute[s] \in Int /\ m < now /\ m >= Expected(s)
      BY <1>1, <1>8 DEF on_minute_bar, OrNone
    <3>2. last_minute' = [last_minute EXCEPT ![s] = m] /\ UNCHANGED <<now, connected, watermark>> /\ pc' \notin Batching
      BY <1>8 DEF on_minute_bar, finish_raises, Batching
    <3> QED BY <1>1, <3>1, <3>2 DEF Expected
  <2>2. \A t \in Symbols : last_minute[t] <= last_minute'[t] /\ last_minute'[t] < now
    BY <1>1, <2>1 DEF Aggregation, OrNone
  <2>3. arg' # NoMinute => connected <= arg'[2] /\ arg'[2] <= last_minute'[arg'[1]]
    <3>1. arg # NoMinute => arg[1] \in Symbols /\ arg[2] \in AllMinutes
      BY DEF Types, ControlTypes
    <3>2. arg' \in {arg, <<s, m>>}
      BY <1>8 DEF on_minute_bar
    <3>3. last_minute' \in [Symbols -> OrNone(AllMinutes)]
      BY <1>1, <2>1 DEF OrNone
    <3> QED BY <1>1, <2>1, <2>2, <3>1, <3>2, <3>3 DEF Aggregation, OrNone
  <2>4. \A t \in Symbols : buckets'[t].start # None =>
           connected < End(buckets'[t].start) /\ buckets'[t].start * Minutes <= last_minute'[t]
    <3>1. SUFFICES ASSUME NEW t \in Symbols, buckets'[t].start # None
                   PROVE  connected < End(buckets'[t].start) /\ buckets'[t].start * Minutes <= last_minute'[t]
      OBVIOUS
    <3>2. \/ buckets'[t].start = buckets[t].start
          \/ t = s /\ buckets'[t].start = Bucket(m)
      BY <1>1, <1>8, <3>1 DEF on_minute_bar, AddMinute, finish, finish_raises, Closed, NoBucket
    <3>3. CASE buckets'[t].start = buckets[t].start
      <4>1. buckets[t].start * Minutes \in Int
        BY <1>1, <3>1, <3>3, SizesAssumption DEF OrNone
      <4>2. last_minute[t] \in Int /\ last_minute'[t] \in Int
        BY <1>1, <2>1 DEF OrNone
      <4> QED BY <2>2, <3>1, <3>3, <4>1, <4>2 DEF Aggregation
    <3>4. CASE t = s /\ buckets'[t].start = Bucket(m)
      <4>1. Bucket(m) \in Buckets /\ Bucket(m) * Minutes <= m /\ m < End(Bucket(m))
        BY BucketOf
      <4> QED BY <1>1, <2>1, <3>4, <4>1
    <3> QED BY <3>2, <3>3, <3>4
  <2>5. \A x \in ready' : connected < End(x[1]) /\ End(x[1]) < now
    <3>1. CASE ready' = ready
      BY <3>1 DEF Aggregation
    <3>2. CASE buckets[s].start \notin {None, Bucket(m)} /\ ready' = ready \cup {<<buckets[s].start, s>>}
      <4>1. buckets[s].start \in Buckets /\ buckets[s].start # None
        BY <1>1, <3>2 DEF OrNone
      <4>2. buckets[s].start * Minutes <= last_minute[s] /\ connected < End(buckets[s].start)
        BY <4>1 DEF Aggregation
      <4>3. last_minute[s] \in Int
        BY <1>1 DEF OrNone
      <4>4. End(buckets[s].start) <= m
        BY <1>1, <2>1, <3>2, <4>1, <4>2, <4>3, AfterBucket
      <4>5. End(buckets[s].start) < now
        BY <1>1, <2>1, <4>1, <4>4
      <4> QED BY <3>2, <4>2, <4>5 DEF Aggregation
    <3> QED BY <1>8, <3>1, <3>2 DEF on_minute_bar, finish, finish_raises
  <2>6. watermark' # None => End(watermark') < now'
    BY <2>1 DEF Aggregation
  <2>7. connected' = 0 \/ connected' < now'
    BY <2>1 DEF Aggregation
  <2> QED BY <2>1, <2>2, <2>3, <2>4, <2>5, <2>6, <2>7 DEF Aggregation
<1>9. CASE tick_finish
  <2>1. UNCHANGED <<now, connected, last_minute, watermark, arg>> /\ pc' \notin Batching
    BY <1>9 DEF tick_finish, finish_raises, Goto, environment, Batching
  <2>2. CASE Overdue = {}
    BY <1>2, <1>9, <2>1, <2>2 DEF tick_finish
  <2>3. CASE Overdue # {}
    <3>1. Overdue \subseteq Nat /\ Overdue \subseteq Symbols
      BY SymbolsAssumption DEF Overdue
    <3>2. First(Overdue) \in Overdue
      BY <2>3, <3>1, FirstOf
    <3>3. PICK s \in Symbols : /\ s = First(Overdue) /\ buckets[s].start # None
                               /\ now > End(buckets[s].start) + Grace
      BY <3>1, <3>2 DEF Overdue
    <3>4. /\ buckets' = [buckets EXCEPT ![s] = NoBucket]
          /\ ready' \in {ready, ready \cup {<<buckets[s].start, s>>}}
      BY <1>9, <2>3, <3>3 DEF tick_finish, finish, finish_raises, Closed
    <3>5. buckets[s].start \in Buckets
      BY <1>1, <3>3 DEF OrNone
    <3>6. connected < End(buckets[s].start) /\ End(buckets[s].start) < now
      BY <1>1, <3>3, <3>5, SizesAssumption DEF Aggregation
    <3>7. \A x \in ready' : connected < End(x[1]) /\ End(x[1]) < now
      BY <3>4, <3>6 DEF Aggregation
    <3>8. \A t \in Symbols : buckets'[t].start # None => buckets'[t] = buckets[t]
      BY <1>1, <3>4 DEF NoBucket
    <3> QED BY <2>1, <3>7, <3>8 DEF Aggregation
  <2> QED BY <2>2, <2>3
<1>10. CASE drain_ready
  <2>1. UNCHANGED <<now, connected>> /\ UNCHANGED last_minute
    BY <1>10 DEF drain_ready, Goto, environment, aggregation
  <2>2. CASE /\ ready # {} /\ Take(First({x[1] : x \in ready})) /\ UNCHANGED <<last_minute, last_closed, buckets>>
             /\ arg' = arg /\ (pc' \in Batching => bar' = First({x[1] : x \in ready}))
    <3>1. PICK b \in Buckets, s \in Symbols : b = First({x[1] : x \in ready}) /\ <<b, s>> \in ready
      BY <2>2, FirstReady
    <3>2. connected < End(b) /\ End(b) < now
      BY <3>1 DEF Aggregation
    <3>3. watermark' \in {watermark, b} /\ ready' \subseteq ready
      BY <2>2, <3>1 DEF Take
    <3> QED BY <2>1, <2>2, <3>1, <3>2, <3>3 DEF Aggregation
  <2>3. CASE /\ arg # NoMinute /\ AddMinute(arg[1], arg[2]) /\ arg' = NoMinute /\ pc' = "idle"
             /\ UNCHANGED <<last_minute, last_closed, ready, processed, watermark>>
    <3>1. PICK s \in Symbols, m \in AllMinutes : s = arg[1] /\ m = arg[2]
      BY <2>3 DEF Types, ControlTypes
    <3>2. connected <= m /\ m <= last_minute[s]
      BY <2>3, <3>1 DEF Aggregation
    <3>3. Bucket(m) \in Buckets /\ Bucket(m) * Minutes <= m /\ m < End(Bucket(m))
      BY BucketOf
    <3>4. \A t \in Symbols : \/ buckets'[t].start = buckets[t].start
                             \/ t = s /\ buckets'[t].start = Bucket(m)
      <4>1. AddMinute(s, m)
        BY <2>3, <3>1
      <4> QED BY <1>1, <4>1 DEF AddMinute
    <3>5. last_minute[s] \in Int /\ Bucket(m) * Minutes \in Int
      BY <1>1, <3>3, SizesAssumption DEF OrNone
    <3>6. connected < End(Bucket(m)) /\ Bucket(m) * Minutes <= last_minute[s]
      BY <1>1, <3>2, <3>3, <3>5
    <3>7. \A t \in Symbols : buckets'[t].start # None =>
           connected < End(buckets'[t].start) /\ buckets'[t].start * Minutes <= last_minute[t]
      BY <3>4, <3>6 DEF Aggregation
    <3> QED BY <2>1, <2>3, <3>7 DEF Aggregation, Batching
  <2>4. CASE UNCHANGED aggregation /\ UNCHANGED <<arg, bar>> /\ pc' \notin Batching
    BY <1>2, <2>1, <2>4 DEF aggregation
  <2> QED BY <1>10, <2>2, <2>3, <2>4 DEF drain_ready, Goto, control, Batching
<1> QED BY <1>3, <1>4, <1>5, <1>6, <1>7, <1>8, <1>9, <1>10 DEF Next, Turn

-----------------------------------------------------------------------------
(* The journal and the memory. *)

(* A row that is written again: it keeps its id, so that it is one row.    *)
Replaced(p, q) == (trades \ {p}) \cup {q}

LEMMA RowReplaced ==
  ASSUME Types, Memory, NEW p \in trades
  PROVE  /\ {IF r.id = p.id THEN Marked(r) ELSE r : r \in trades} = Replaced(p, Marked(p))
         /\ \A b : {IF r.id = p.id THEN [r EXCEPT !.exit = b] ELSE r : r \in trades}
                     = Replaced(p, [p EXCEPT !.exit = b])
<1>1. \A r \in trades : r.id = p.id <=> r = p
  BY DEF Memory
<1> QED BY <1>1 DEF Replaced

LEMMA ReplacedRows ==
  ASSUME Types, Memory, NEW p \in trades, NEW q, q.id = p.id
  PROVE  /\ IsFiniteSet(Replaced(p, q)) /\ Cardinality(Replaced(p, q)) = Cardinality(trades)
         /\ \A r \in Replaced(p, q) : r.id < Cardinality(trades)
         /\ \A r, t \in Replaced(p, q) : r.id = t.id => r = t
         /\ q \notin trades \ {p}
<1>1. \A r \in trades : r.id = p.id => r = p
  BY DEF Memory
<1>2. q \notin trades \ {p}
  BY <1>1
<1> DEFINE T == trades \ {p}
<1>3. IsFiniteSet(T) /\ Cardinality(T) = Cardinality(trades) - 1
  BY FS_RemoveElement DEF Memory
<1>4. Cardinality(trades) \in Nat
  BY FS_CardinalityType DEF Memory
<1>5. IsFiniteSet(T \cup {q}) /\ Cardinality(T \cup {q}) = Cardinality(T) + 1
  <2> HIDE DEF T
  <2> QED BY <1>2, <1>3, FS_AddElement DEF T
<1> QED BY <1>1, <1>2, <1>3, <1>4, <1>5 DEF Memory, Replaced

LEMMA SettledAt ==
  ASSUME Control, Memory, pc \in Batching \/ pc \in {"flatten", "tick", "drain"}
  PROVE  Settled /\ positions = OpenRows /\ pending = local_pending
BY DEF Control, Settled, Memory, Batching

(* The symbol's position while its exits are checked.                      *)
LEMMA PositionOf ==
  ASSUME Types, Control, Memory, pc \in Batching, has_open(s0)
  PROVE  position(s0) \in OpenRows /\ position(s0) \in trades /\ position(s0).s = s0
<1>1. positions = OpenRows
  BY SettledAt
<1>2. \E p \in positions : p.s = s0
  BY DEF has_open
<1>3. position(s0) \in positions /\ position(s0).s = s0
  BY <1>2 DEF position
<1> QED BY <1>1, <1>3 DEF OpenRows

(* What the two actions that write a row again do.                         *)
LEMMA RowMarked ==
  ASSUME Types, Control, Memory, tick_flatten
  PROVE  \/ trades' = trades /\ pc' = "raised"
         \/ \E p \in OpenRows : /\ trades' = Replaced(p, Marked(p)) /\ positions' = (positions \ {p}) \cup {Marked(p)}
                                /\ UNCHANGED <<control, environment>>
<1>1. positions = OpenRows
  BY SettledAt DEF tick_flatten
<1>2. PICK p \in Unmarked :
        /\ positions' = (positions \ {p}) \cup {Marked(p)}
        /\ \/ /\ trades' = {IF r.id = p.id THEN Marked(r) ELSE r : r \in trades}
              /\ UNCHANGED <<control, environment>>
           \/ Raise /\ UNCHANGED trades
  BY DEF tick_flatten
<1>3. p \in OpenRows /\ p \in trades
  BY <1>1 DEF Unmarked, OpenRows
<1> QED BY <1>2, <1>3, RowReplaced DEF Raise

LEMMA ExitChecked ==
  ASSUME Types, Control, Memory, check_exits
  PROVE  \/ pc' = "raised" /\ trades' = trades
         \/ /\ ~has_open(s0) /\ UNCHANGED <<trades, positions, exited>> /\ Advance("exits", "signals")
         \/ /\ has_open(s0) /\ Advance("exits", "signals")
            /\ \/ UNCHANGED <<trades, positions, exited>> /\ ~Exits(position(s0), FALSE)
               \/ /\ trades' = Replaced(position(s0), [position(s0) EXCEPT !.exit = bar])
                  /\ positions' = positions \ {position(s0)} /\ exited' = exited \cup {s0}
<1>1. pc \in Batching
  BY DEF check_exits, Batching
<1>2. CASE ~has_open(s0)
  BY <1>2 DEF check_exits
<1>3. CASE has_open(s0)
  <2>1. PICK triggered \in BOOLEAN :
             LET exits == Exits(position(s0), triggered) IN
             /\ positions' = IF exits THEN positions \ {position(s0)} ELSE positions
             /\ \/ /\ trades' = IF exits THEN {IF r.id = position(s0).id THEN [r EXCEPT !.exit = bar] ELSE r :
                                              r \in trades} ELSE trades
                   /\ exited' = IF exits THEN exited \cup {s0} ELSE exited
                   /\ Advance("exits", "signals") /\ UNCHANGED <<arg, force, bar, batch, filling>>
                \/ Raise /\ UNCHANGED trades
    BY <1>3 DEF check_exits
  <2>2. position(s0) \in trades
    BY <1>1, <1>3, PositionOf
  <2>3. {IF r.id = position(s0).id THEN [r EXCEPT !.exit = bar] ELSE r : r \in trades}
          = Replaced(position(s0), [position(s0) EXCEPT !.exit = bar])
    BY <2>2, RowReplaced
  <2>4. CASE Exits(position(s0), triggered)
    BY <1>3, <2>1, <2>3, <2>4 DEF Raise
  <2>5. CASE ~Exits(position(s0), triggered)
    <3>1. ~Exits(position(s0), FALSE)
      BY <2>5 DEF Exits
    <3> QED BY <1>3, <2>1, <2>5, <3>1 DEF Raise
  <2> QED BY <2>4, <2>5
<1> QED BY <1>2, <1>3

(* What the step that fills an entry does.                                 *)
Opened == Position(Cardinality(trades), s0, filling, bar)
LEMMA PositionOpened ==
  ASSUME open_position
  PROVE  \/ pc' = "raised" /\ trades' = trades
         \/ UNCHANGED <<trades, positions>> /\ Advance("entries", "exits")
         \/ /\ Cardinality(positions) < Slots
            /\ trades' = trades \cup {Opened} /\ positions' = positions \cup {Opened}
            /\ Advance("entries", "exits")
BY DEF open_position, Opened, Raise

LEMMA OpenedRows ==
  ASSUME Types, Memory
  PROVE  /\ IsFiniteSet(trades \cup {Opened}) /\ Cardinality(trades \cup {Opened}) = Cardinality(trades) + 1
         /\ Opened \notin trades /\ Opened.id = Cardinality(trades) /\ Cardinality(trades) \in Nat
         /\ \A r \in trades : r.id \in Nat /\ r.id # Opened.id
<1>1. Cardinality(trades) \in Nat
  BY FS_CardinalityType DEF Memory
<1>2. Opened.id = Cardinality(trades)
  BY DEF Opened, Position
<1>3. \A r \in trades : r.id \in Nat /\ r.id # Opened.id
  BY <1>1, <1>2 DEF Memory, Types, JournalTypes, Row
<1>4. Opened \notin trades
  BY <1>3
<1> QED BY <1>1, <1>2, <1>3, <1>4, FS_AddElement DEF Memory

LEMMA MemoryNext ==
  ASSUME Types, Control, Memory, Next
  PROVE  Memory'
<1>1. CASE trades' = trades /\ (Settled' => positions' = OpenRows /\ pending' = local_pending')
  BY <1>1 DEF Memory, OpenRows
<1>2. CASE UNCHANGED <<trades, local_pending, positions, pending>> /\ (Settled' => Settled)
  BY <1>1, <1>2 DEF Memory
<1>3. ASSUME NEW s \in Symbols, NEW m \in AllMinutes, on_minute_bar(s, m) PROVE Memory'
  <2>1. UNCHANGED <<trades, local_pending, positions, pending, recovery_required>> /\ pc # "raised"
    BY <1>3 DEF on_minute_bar, finish, finish_raises, execution, journal
  <2> QED BY <1>2, <2>1 DEF Settled
<1>4. CASE recover_worker_error \/ Restart
  BY <1>1, <1>4 DEF recover_worker_error, Restart, Raise, Settled, journal, execution
<1>5. CASE record_worker_error
  BY <1>1, <1>5 DEF record_worker_error, Settled
<1>6. CASE drain_ready \/ tick_finish \/ tick_status \/ Time
  <2>1. UNCHANGED <<trades, local_pending, positions, pending, recovery_required>> /\ pc # "raised"
    BY <1>6 DEF drain_ready, tick_finish, tick, tick_status, Time, finish, finish_raises, execution, journal
  <2> QED BY <1>2, <2>1 DEF Settled
<1>7. CASE tick_flatten
  <2>1. UNCHANGED <<local_pending, pending, recovery_required>> /\ Settled /\ positions = OpenRows /\ pending = local_pending
    BY <1>7, SettledAt DEF tick_flatten
  <2>2. CASE trades' = trades /\ pc' = "raised"
    BY <1>1, <2>2 DEF Settled
  <2>3. CASE \E p \in OpenRows : trades' = Replaced(p, Marked(p)) /\ positions' = (positions \ {p}) \cup {Marked(p)}
    <3>1. PICK p \in OpenRows : trades' = Replaced(p, Marked(p)) /\ positions' = (positions \ {p}) \cup {Marked(p)}
      BY <2>3
    <3>2. p \in trades /\ p.exit = None /\ Marked(p).id = p.id /\ Marked(p).exit = None
      BY DEF OpenRows, Marked, Types, JournalTypes, Row
    <3>3. /\ IsFiniteSet(trades') /\ Cardinality(trades') = Cardinality(trades)
          /\ \A r \in trades' : r.id < Cardinality(trades)
          /\ \A r, t \in trades' : r.id = t.id => r = t
      BY <3>1, <3>2, ReplacedRows
    <3>4. OpenRows' = positions'
      BY <2>1, <3>1, <3>2 DEF OpenRows, Replaced
    <3> QED BY <2>1, <3>3, <3>4 DEF Memory
  <2> QED BY <1>7, <2>2, <2>3, RowMarked
<1>8. CASE check_exits
  <2>1. UNCHANGED <<local_pending, pending, recovery_required>> /\ Settled /\ positions = OpenRows /\ pending = local_pending
    BY <1>8, SettledAt DEF check_exits, Batching
  <2>2. CASE trades' = trades /\ pc' = "raised"
    BY <1>1, <2>2 DEF Settled
  <2>3. CASE UNCHANGED <<trades, positions>>
    BY <1>1, <2>1, <2>3
  <2>4. CASE /\ has_open(s0) /\ trades' = Replaced(position(s0), [position(s0) EXCEPT !.exit = bar])
             /\ positions' = positions \ {position(s0)}
    <3>1. PICK p \in OpenRows : p = position(s0) /\ p \in trades
      BY <1>8, <2>4, PositionOf DEF check_exits, Batching
    <3>2. bar # None /\ bar \in Buckets
      BY <1>8, InBatch, NoneIsNone DEF check_exits, Batching
    <3>3. [p EXCEPT !.exit = bar].id = p.id /\ [p EXCEPT !.exit = bar].exit = bar
      BY <3>1 DEF Types, JournalTypes, Row
    <3>4. trades' = Replaced(p, [p EXCEPT !.exit = bar])
      BY <2>4, <3>1
    <3>5. /\ IsFiniteSet(trades') /\ Cardinality(trades') = Cardinality(trades)
          /\ \A r \in trades' : r.id < Cardinality(trades)
          /\ \A r, t \in trades' : r.id = t.id => r = t
      <4>1. PICK q : q = [p EXCEPT !.exit = bar]
        OBVIOUS
      <4>2. q.id = p.id /\ trades' = Replaced(p, q)
        BY <3>3, <3>4, <4>1
      <4> QED BY <3>1, <4>2, ReplacedRows
    <3>6. OpenRows' = positions'
      BY <2>1, <2>4, <3>1, <3>2, <3>3, <3>4 DEF OpenRows, Replaced
    <3> QED BY <2>1, <3>5, <3>6 DEF Memory
  <2> QED BY <1>8, <2>2, <2>3, <2>4, ExitChecked
<1>9. CASE open_position
  <2>1. UNCHANGED <<local_pending, pending, recovery_required>> /\ Settled /\ positions = OpenRows /\ pending = local_pending
    BY <1>9, SettledAt DEF open_position, Batching
  <2>2. CASE trades' = trades /\ pc' = "raised"
    BY <1>1, <2>2 DEF Settled
  <2>3. CASE UNCHANGED <<trades, positions>>
    BY <1>1, <2>1, <2>3
  <2>4. CASE trades' = trades \cup {Opened} /\ positions' = positions \cup {Opened}
    <3>1. Opened.exit = None
      BY DEF Opened, Position
    <3>2. OpenRows' = positions'
      BY <2>1, <2>4, <3>1 DEF OpenRows
    <3> DEFINE n == Cardinality(trades)
    <3>3. \A r \in trades : r.id \in Nat /\ r.id < n
      BY OpenedRows DEF Memory
    <3>4. Cardinality(trades') = n + 1 /\ IsFiniteSet(trades') /\ n \in Nat /\ Opened.id = n
      BY <2>4, OpenedRows
    <3> HIDE DEF n
    <3>5. \A r \in trades' : r.id < n + 1
      BY <2>4, <3>3, <3>4
    <3>6. \A r, q \in trades' : r.id = q.id => r = q
      BY <2>4, OpenedRows DEF Memory
    <3> QED BY <2>1, <3>2, <3>4, <3>5, <3>6 DEF Memory
  <2> QED BY <1>9, <2>2, <2>3, <2>4, PositionOpened
<1>10. CASE pop_pending \/ queue_entry
  <2>1. trades' = trades /\ positions' = positions /\ positions = OpenRows /\ pending = local_pending
    BY <1>10, SettledAt DEF pop_pending, queue_entry, Batching
  <2>2. Settled' => pending' = local_pending'
    BY <1>10, <2>1 DEF pop_pending, queue_entry, Raise, Settled
  <2> QED BY <1>1, <2>1, <2>2
<1>11. CASE log_signal \/ batch_completed
  <2>1. UNCHANGED <<trades, local_pending, positions, pending>> /\ positions = OpenRows /\ pending = local_pending
    BY <1>11, SettledAt DEF log_signal, batch_completed, execution, Batching
  <2> QED BY <1>1, <2>1
<1> QED BY <1>3, <1>4, <1>5, <1>6, <1>7, <1>8, <1>9, <1>10, <1>11 DEF Next, Turn, process_batch

LEMMA MInit ==
  ASSUME Init
  PROVE  MInv
<1> USE NoneIsNone DEF Init
<1>1. Types
  <2>1. JournalTypes
    BY DEF JournalTypes, OrNone
  <2>2. ExecutionTypes
    BY DEF ExecutionTypes, OrNone
  <2>3. AggregationTypes
    BY DEF AggregationTypes, OrNone, NoBucket
  <2>4. ControlTypes /\ EnvironmentTypes
    BY DEF ControlTypes, EnvironmentTypes, OrNone
  <2> QED BY <2>1, <2>2, <2>3, <2>4 DEF Types
<1>2. Control
  BY DEF Control, Batching
<1>3. Aggregation
  BY DEF Aggregation, Batching, NoBucket, None
<1>4. Memory
  BY FS_EmptySet DEF Memory, OpenRows
<1> QED BY <1>1, <1>2, <1>3, <1>4 DEF MInv

LEMMA MNext ==
  ASSUME MInv, [Next]_vars
  PROVE  MInv'
<1>1. CASE Next
  BY <1>1, TypesNext, ControlNext, AggregationNext, MemoryNext DEF MInv
<1>2. CASE UNCHANGED vars
  <2>1. UNCHANGED <<trades, signals, local_pending, status, pending, positions, blocked, failures, recovery_required>>
    BY <1>2 DEF vars, journal, execution
  <2>2. UNCHANGED <<last_minute, last_closed, buckets, ready, processed, watermark>>
    BY <1>2 DEF vars, aggregation
  <2>3. UNCHANGED <<pc, arg, force, bar, batch, todo, exited, filling, now, connected, faults, SESSION_POLICY>>
    BY <1>2 DEF vars, control, environment
  <2>4. Types'
    BY <2>1, <2>2, <2>3 DEF MInv, Types, JournalTypes, ExecutionTypes, AggregationTypes, ControlTypes, EnvironmentTypes
  <2>5. Control' /\ Aggregation'
    BY <2>1, <2>2, <2>3 DEF MInv, Control, Aggregation
  <2>6. Memory'
    BY <2>1, <2>3 DEF MInv, Memory, Settled, OpenRows
  <2> QED BY <2>4, <2>5, <2>6 DEF MInv
<1> QED BY <1>1, <1>2

-----------------------------------------------------------------------------
(* The steps as the journal sees them. *)

Quiet == UNCHANGED <<trades, signals, local_pending>>

(* A batch is taken: the first bar that is ready.                          *)
Taken(b) ==
  /\ Fresh(b) # {} /\ Take(b)
  /\ pc' = "entries" /\ bar' = b /\ batch' = Fresh(b) /\ todo' = Fresh(b)
  /\ \E s \in Symbols : <<b, s>> \in ready
  /\ Quiet /\ UNCHANGED <<connected, SESSION_POLICY>>

LEMMA Steps ==
  ASSUME MInv, [Next]_vars
  PROVE  \/ Quiet /\ pc' \notin Batching /\ UNCHANGED <<watermark, connected, SESSION_POLICY>>
         \/ Quiet /\ UNCHANGED <<watermark, connected, SESSION_POLICY, pc, bar, batch, todo, filling>>
         \/ Restart
         \/ \E b \in Buckets : Taken(b)
         \/ tick_flatten
         \/ process_batch
<1> DEFINE Silent == Quiet /\ pc' \notin Batching /\ UNCHANGED <<watermark, connected, SESSION_POLICY>>
<1>1. CASE UNCHANGED vars
  BY <1>1 DEF vars, journal, aggregation, control, environment, Quiet
<1>2. ASSUME NEW s \in Symbols, NEW m \in AllMinutes, on_minute_bar(s, m) PROVE Silent
  BY <1>2 DEF on_minute_bar, finish, finish_raises, journal, Quiet, Batching
<1>3. CASE recover_worker_error
  BY <1>3 DEF recover_worker_error, Raise, MinuteLost, journal, control, environment, aggregation, Quiet, Batching
<1>4. CASE record_worker_error
  BY <1>4 DEF record_worker_error, aggregation, Quiet, Batching
<1>5. CASE tick_finish
  BY <1>5 DEF tick_finish, finish, finish_raises, Goto, environment, journal, Quiet, Batching
<1>6. CASE tick_status
  BY <1>6 DEF tick_status, Raise, Goto, environment, aggregation, Quiet, Batching
<1>7. CASE Time
  BY <1>7 DEF Time, journal, aggregation, control, Quiet
<1>8. CASE drain_ready
  <2>1. Quiet /\ UNCHANGED <<connected, SESSION_POLICY>>
    BY <1>8 DEF drain_ready, Goto, environment, journal, Quiet
  <2>2. CASE /\ ready # {} /\ Take(First({x[1] : x \in ready})) /\ Fresh(First({x[1] : x \in ready})) # {}
             /\ pc' = "entries" /\ bar' = First({x[1] : x \in ready})
             /\ batch' = Fresh(First({x[1] : x \in ready})) /\ todo' = Fresh(First({x[1] : x \in ready}))
    <3>1. PICK b \in Buckets : b = First({x[1] : x \in ready}) /\ \E s \in Symbols : <<b, s>> \in ready
      BY <2>2, FirstReady DEF MInv
    <3> QED BY <2>1, <2>2, <3>1 DEF Taken
  <2>3. CASE pc' = pc /\ pc = "drain" /\ watermark' = watermark
    BY <2>1, <2>3 DEF Batching
  <2>4. CASE pc' \in {"idle", "flatten", "tick"} /\ watermark' = watermark
    BY <2>1, <2>4 DEF Batching
  <2> QED BY <1>8, <2>2, <2>3, <2>4 DEF drain_ready, Take, Goto, control, aggregation
<1> QED BY <1>1, <1>2, <1>3, <1>4, <1>5, <1>6, <1>7, <1>8 DEF Next, Turn

LEMMA Monotone ==
  ASSUME NEW b \in Nat, NEW c \in Nat
  PROVE  End(b) \in Int /\ End(b) >= 1 /\ (b <= c <=> End(b) <= End(c)) /\ (b < c <=> End(b) < End(c))
<1>1. End(b) \in Int /\ End(c) \in Int /\ End(b) >= 1 /\ (b < c <=> End(b) < End(c)) /\ (c < b <=> End(c) < End(b))
  BY Ends
<1> QED BY <1>1

(* A batch that is taken is after everything the journal says.             *)
LEMMA NewBar ==
  ASSUME MInv, History, NEW b \in Buckets, Taken(b), NEW c \in Buckets, Recorded(c)
  PROVE  c < b
<1>1. b \in Nat /\ c \in Nat
  BY NoneIsNone
<1>2. watermark \in OrNone(Buckets) /\ connected \in Nat
  BY DEF MInv, Types, AggregationTypes, EnvironmentTypes
<1>3. ~(b <= watermark)
  BY DEF Taken, Fresh
<1>4. connected < End(b)
  BY DEF MInv, Aggregation, Taken
<1>5. c <= watermark \/ End(c) <= connected
  BY DEF History
<1>6. CASE c <= watermark
  BY <1>1, <1>2, <1>3, <1>6, NoneIsNone DEF OrNone
<1>7. CASE End(c) <= connected
  BY <1>1, <1>2, <1>4, <1>7, Monotone
<1> QED BY <1>5, <1>6, <1>7

(* What a row that is written again keeps.                                 *)
LEMMA RowKeeps ==
  ASSUME Types, NEW p \in trades
  PROVE  /\ \A b : LET q == [p EXCEPT !.exit = b] IN
                   /\ q.id = p.id /\ q.s = p.s /\ q.decided = p.decided /\ q.at = p.at /\ q.exit = b
         /\ LET q == Marked(p) IN
                   /\ q.id = p.id /\ q.s = p.s /\ q.decided = p.decided /\ q.at = p.at /\ q.exit = p.exit
BY DEF Types, JournalTypes, Row, Marked

LEMMA RecordedMoves ==
  ASSUME MInv, Entering, tick_flatten \/ process_batch, NEW b \in Buckets, Recorded(b)'
  PROVE  Recorded(b) \/ (process_batch /\ b <= bar)
<1>1. b # None /\ b \in Nat /\ Types /\ Control /\ Memory
  BY NoneIsNone DEF MInv
<1>2. CASE Quiet
  BY <1>2 DEF Quiet, Recorded
<1>3. CASE tick_flatten
  <2>1. UNCHANGED <<signals, local_pending>>
    BY <1>3 DEF tick_flatten
  <2>2. CASE trades' = trades
    BY <1>2, <2>1, <2>2 DEF Quiet
  <2>3. CASE \E p \in OpenRows : trades' = Replaced(p, Marked(p))
    <3>1. PICK p \in OpenRows : trades' = Replaced(p, Marked(p))
      BY <2>3
    <3>2. p \in trades
      BY DEF OpenRows
    <3>3. \A r \in trades' : \E t \in trades : r.decided = t.decided /\ r.at = t.at /\ r.exit = t.exit
      BY <1>1, <3>1, <3>2, RowKeeps DEF Replaced
    <3> QED BY <2>1, <3>3 DEF Recorded
  <2> QED BY <1>1, <1>3, <2>2, <2>3, RowMarked
<1>4. CASE process_batch
  <2>1. bar \in Nat /\ s0 \in Symbols /\ bar <= bar
    BY <1>1, <1>4, InBatchMoves, InBatch
  <2>2. CASE pop_pending
    <3>1. UNCHANGED <<trades, signals>> /\ local_pending' \in {local_pending, [local_pending EXCEPT ![s0] = None]}
      BY <2>2 DEF pop_pending
    <3> QED BY <1>1, <3>1 DEF Recorded, Types, JournalTypes
  <2>3. CASE queue_entry
    <3>1. UNCHANGED <<trades, signals>> /\ local_pending' \in {local_pending, [local_pending EXCEPT ![s0] = bar]}
      BY <2>3 DEF queue_entry
    <3> QED BY <1>1, <1>4, <2>1, <3>1 DEF Recorded, Types, JournalTypes
  <2>4. CASE log_signal
    <3>1. UNCHANGED <<trades, local_pending>> /\ signals' \in {signals, [signals EXCEPT ![<<s0, bar>>] = @ + 1]}
      BY <2>4 DEF log_signal
    <3>2. b = bar \/ \A s \in Symbols : signals'[<<s, b>>] = signals[<<s, b>>]
      BY <1>1, <3>1 DEF Types, JournalTypes
    <3> QED BY <1>4, <2>1, <3>1, <3>2 DEF Recorded
  <2>5. CASE open_position
    <3>1. UNCHANGED <<signals, local_pending>> /\ filling \in Buckets /\ filling < bar
      BY <2>5 DEF open_position, Entering
    <3>2. Opened.decided = filling /\ Opened.at = bar /\ Opened.exit = None
      BY DEF Opened, Position
    <3>3. trades' \in {trades, trades \cup {Opened}}
      BY <2>5, PositionOpened
    <3> QED BY <1>1, <1>4, <2>1, <3>1, <3>2, <3>3, NoneIsNone DEF Recorded
  <2>6. CASE check_exits
    <3>1. UNCHANGED <<signals, local_pending>>
      BY <2>6 DEF check_exits
    <3>2. CASE trades' = trades
      BY <1>2, <3>1, <3>2 DEF Quiet
    <3>3. CASE has_open(s0) /\ trades' = Replaced(position(s0), [position(s0) EXCEPT !.exit = bar])
      <4>1. PICK p \in trades : p = position(s0)
        BY <1>1, <2>6, <3>3, PositionOf DEF check_exits, Batching
      <4>2. PICK q : q = [p EXCEPT !.exit = bar]
        OBVIOUS
      <4>3. q.decided = p.decided /\ q.at = p.at /\ q.exit = bar
        BY <1>1, <4>2, RowKeeps
      <4>4. trades' = Replaced(p, q)
        BY <3>3, <4>1, <4>2
      <4>5. \A r \in trades' : r \in trades \/ r = q
        BY <4>4 DEF Replaced
      <4> QED BY <1>4, <2>1, <3>1, <4>1, <4>3, <4>5 DEF Recorded
    <3> QED BY <1>1, <2>6, <3>2, <3>3, ExitChecked
  <2>7. CASE batch_completed
    BY <1>2, <2>7 DEF batch_completed, Quiet
  <2> QED BY <1>4, <2>2, <2>3, <2>4, <2>5, <2>6, <2>7 DEF process_batch
<1> QED BY <1>3, <1>4

LEMMA HistoryNext ==
  ASSUME MInv, History, Entering, [Next]_vars
  PROVE  History'
<1>1. /\ watermark \in OrNone(Buckets) /\ connected \in Nat /\ now \in Nat
      /\ \A b \in Buckets : b \in Nat /\ b # None
  BY NoneIsNone DEF MInv, Types, AggregationTypes, EnvironmentTypes
<1>2. CASE Quiet /\ UNCHANGED <<watermark, connected>> /\ (pc' \in Batching => pc \in Batching /\ bar' = bar)
  BY <1>2 DEF Quiet, History, Recorded
<1>3. CASE Restart
  <2>1. SUFFICES ASSUME NEW b \in Buckets, Recorded(b) PROVE End(b) <= connected'
    <3>1. Quiet /\ pc' = "idle"
      BY <1>3 DEF Restart, Quiet
    <3> QED BY <2>1, <3>1 DEF History, Recorded, Quiet, Batching
  <2>2. connected' = IF now = 0 THEN 0 ELSE now - 1
    BY <1>3 DEF Restart
  <2>3. b \in Nat /\ End(b) \in Int /\ End(b) >= 1 /\ (b <= watermark \/ End(b) <= connected)
    BY <1>1, <2>1, Monotone DEF History
  <2>4. CASE b <= watermark
    <3>1. watermark \in Nat /\ watermark # None
      BY <1>1, <2>3, <2>4 DEF OrNone, None
    <3>2. End(watermark) < now
      BY <3>1 DEF MInv, Aggregation
    <3> QED BY <1>1, <2>2, <2>3, <2>4, <3>1, <3>2, Monotone
  <2>5. CASE End(b) <= connected
    <3>1. connected < now
      BY <1>1, <2>3, <2>5 DEF MInv, Aggregation
    <3> QED BY <1>1, <2>2, <2>3, <2>5, <3>1
  <2> QED BY <2>3, <2>4, <2>5
<1>4. CASE \E b \in Buckets : Taken(b)
  <2>1. PICK b \in Buckets : Taken(b)
    BY <1>4
  <2>2. watermark' = b /\ bar' = b /\ Quiet
    BY <2>1 DEF Taken, Take
  <2>3. \A c \in Buckets : Recorded(c) => c < b
    BY <2>1, NewBar
  <2> QED BY <1>1, <2>2, <2>3 DEF History, Recorded, Quiet
<1>5. CASE tick_flatten
  <2>1. UNCHANGED <<watermark, connected>> /\ pc' \notin Batching
    BY <1>5 DEF tick_flatten, Raise, control, environment, aggregation, Batching
  <2>2. \A b \in Buckets : Recorded(b)' => Recorded(b)
    <3>1. ~process_batch
      BY <1>5 DEF tick_flatten, process_batch, pop_pending, open_position, check_exits, log_signal, queue_entry, batch_completed
    <3> QED BY <1>5, <3>1, RecordedMoves
  <2> QED BY <2>1, <2>2 DEF History
<1>6. CASE process_batch
  <2>1. pc \in Batching /\ BatchMoves /\ bar \in Nat /\ bar = watermark
    BY <1>6, InBatchMoves, InBatch DEF MInv, Control
  <2>2. UNCHANGED <<watermark, connected>> /\ (pc' \in Batching => bar' = bar)
    BY <2>1 DEF BatchMoves, Batching
  <2>3. \A b \in Buckets : Recorded(b)' => Recorded(b) \/ b <= bar
    BY <1>6, RecordedMoves
  <2> QED BY <2>1, <2>2, <2>3 DEF History
<1> QED BY <1>2, <1>3, <1>4, <1>5, <1>6, Steps

-----------------------------------------------------------------------------
(* The steps of a batch as the journal sees them. *)

Popping ==
  /\ pc = "entries" /\ local_pending' = [local_pending EXCEPT ![s0] = None] /\ UNCHANGED <<trades, signals>>
  /\ \/ Advance("entries", "exits")
     \/ /\ pc' = "open" /\ todo' = todo /\ filling' = local_pending[s0]
        /\ Fillable(s0, local_pending[s0])
Opening ==
  /\ pc = "open" /\ UNCHANGED <<signals, local_pending>> /\ Advance("entries", "exits")
  /\ \/ trades' = trades
     \/ Cardinality(positions) < Slots /\ trades' = trades \cup {Opened}
Exited(p) == p.s = s0 /\ trades' = Replaced(p, [p EXCEPT !.exit = bar])
Exiting ==
  /\ pc = "exits" /\ UNCHANGED <<signals, local_pending>> /\ Advance("exits", "signals")
  /\ \/ trades' = trades /\ (has_open(s0) => ~(executable(bar) /\ flatten_due(bar)))
     \/ \E p \in OpenRows : Exited(p)
Signalling ==
  /\ pc = "signals" /\ UNCHANGED <<trades, local_pending>>
  /\ signals' = [signals EXCEPT ![<<s0, bar>>] = @ + 1]
  /\ \/ Advance("signals", "completed")
     \/ pc' = "queue" /\ todo' = todo
Queueing ==
  /\ pc = "queue" /\ UNCHANGED <<trades, signals>> /\ Advance("signals", "completed")
  /\ local_pending' = [local_pending EXCEPT ![s0] = bar]
Marking == UNCHANGED <<signals, local_pending>> /\ \E p \in OpenRows : trades' = Replaced(p, Marked(p))
InTheBatch ==
  /\ s0 \in todo /\ s0 \in Symbols /\ s0 \in batch /\ todo \subseteq batch /\ bar \in Buckets /\ bar \in Nat
  /\ UNCHANGED <<bar, batch>>

LEMMA BatchSteps ==
  ASSUME MInv, process_batch
  PROVE  \/ Quiet /\ pc' \notin Batching
         \/ InTheBatch /\ (Popping \/ Opening \/ Exiting \/ Signalling \/ Queueing)
<1> DEFINE Goal == \/ Quiet /\ pc' \notin Batching
                   \/ InTheBatch /\ (Popping \/ Opening \/ Exiting \/ Signalling \/ Queueing)
<1> SUFFICES Goal
  OBVIOUS
<1>1. Types /\ Control /\ Memory /\ pc \in Batching /\ BatchMoves
  BY InBatchMoves DEF MInv
<1>2. pc' \in Batching => InTheBatch
  <2>1. pc' \in Batching => UNCHANGED <<bar, batch>>
    BY <1>1 DEF BatchMoves, Batching
  <2> QED BY <1>1, <2>1, InBatch DEF InTheBatch, Control
<1>3. positions = OpenRows /\ pending = local_pending
  BY <1>1, SettledAt
<1>4. ASSUME Raise PROVE pc' \notin Batching
  BY <1>4 DEF Raise, Batching
<1>5. ASSUME NEW step \in Batching, NEW next \in Batching, Advance(step, next) PROVE pc' \in Batching
  BY <1>5 DEF Advance, Goto
<1>6. /\ "entries" \in Batching /\ "exits" \in Batching /\ "open" \in Batching /\ "signals" \in Batching
      /\ "queue" \in Batching /\ "completed" \in Batching /\ "drain" \notin Batching /\ "raised" \notin Batching
  BY DEF Batching
<1>7. CASE pop_pending
  <2>1. (Popping /\ pc' \in Batching) \/ (Quiet /\ pc' \notin Batching)
    BY <1>3, <1>4, <1>5, <1>6, <1>7 DEF pop_pending, Goto, Popping, Quiet
  <2> QED BY <1>2, <2>1
<1>8. CASE open_position
  <2>1. pc = "open" /\ UNCHANGED <<signals, local_pending>>
    BY <1>8 DEF open_position
  <2>2. (Opening /\ pc' \in Batching) \/ (Quiet /\ pc' \notin Batching)
    BY <1>5, <1>6, <1>8, <2>1, PositionOpened DEF Opening, Quiet
  <2> QED BY <1>2, <2>2
<1>9. CASE check_exits
  <2>1. pc = "exits" /\ UNCHANGED <<signals, local_pending>>
    BY <1>9 DEF check_exits
  <2>2. CASE pc' = "raised" /\ trades' = trades
    BY <1>6, <2>1, <2>2 DEF Quiet
  <2>3. CASE ~has_open(s0) /\ UNCHANGED <<trades, positions, exited>> /\ Advance("exits", "signals")
    <3>1. Exiting /\ pc' \in Batching
      BY <1>5, <1>6, <2>1, <2>3 DEF Exiting
    <3> QED BY <1>2, <3>1
  <2>4. CASE has_open(s0) /\ Advance("exits", "signals") /\ trades' = trades /\ ~Exits(position(s0), FALSE)
    <3>1. Exiting /\ pc' \in Batching
      BY <1>5, <1>6, <2>1, <2>4 DEF Exiting, Exits
    <3> QED BY <1>2, <3>1
  <2>5. CASE /\ has_open(s0) /\ Advance("exits", "signals")
             /\ trades' = Replaced(position(s0), [position(s0) EXCEPT !.exit = bar])
    <3>1. position(s0) \in OpenRows /\ position(s0).s = s0
      BY <1>1, <2>5, PositionOf
    <3>2. \E p \in OpenRows : Exited(p)
      <4>1. PICK p \in OpenRows : p = position(s0)
        BY <3>1
      <4> QED BY <2>5, <3>1, <4>1 DEF Exited
    <3>3. Exiting /\ pc' \in Batching
      BY <1>5, <1>6, <2>1, <2>5, <3>2 DEF Exiting
    <3> QED BY <1>2, <3>3
  <2> QED BY <1>1, <1>9, <2>2, <2>3, <2>4, <2>5, ExitChecked
<1>10. CASE log_signal
  <2>1. (Signalling /\ pc' \in Batching) \/ (Quiet /\ pc' \notin Batching)
    BY <1>4, <1>5, <1>6, <1>10 DEF log_signal, Goto, Signalling, Quiet
  <2> QED BY <1>2, <2>1
<1>11. CASE queue_entry
  <2>1. (Queueing /\ pc' \in Batching) \/ (Quiet /\ pc' \notin Batching)
    BY <1>4, <1>5, <1>6, <1>11 DEF queue_entry, Queueing, Quiet
  <2> QED BY <1>2, <2>1
<1>12. CASE batch_completed
  BY <1>4, <1>6, <1>12 DEF batch_completed, Goto, Quiet
<1> QED BY <1>7, <1>8, <1>9, <1>10, <1>11, <1>12 DEF process_batch

(* Every step is one of these.                                             *)
LEMMA JournalSteps ==
  ASSUME MInv, [Next]_vars
  PROVE  /\ SESSION_POLICY' = SESSION_POLICY
         /\ \/ Quiet /\ pc' \notin Batching
            \/ Quiet /\ UNCHANGED <<pc, bar, batch, todo, filling>>
            \/ \E b \in Buckets : Taken(b)
            \/ Marking /\ pc' \notin Batching
            \/ InTheBatch /\ (Popping \/ Opening \/ Exiting \/ Signalling \/ Queueing)
<1>1. CASE Restart
  BY <1>1 DEF Restart, Quiet, Batching
<1>2. CASE tick_flatten
  <2>1. Types /\ Control /\ Memory
    BY DEF MInv
  <2>2. UNCHANGED <<signals, local_pending>> /\ pc' \notin Batching /\ SESSION_POLICY' = SESSION_POLICY
    BY <1>2 DEF tick_flatten, Raise, control, environment, Batching
  <2> QED BY <1>2, <2>1, <2>2, RowMarked DEF Marking, Quiet
<1>3. CASE process_batch
  <2>1. SESSION_POLICY' = SESSION_POLICY
    BY <1>3, InBatchMoves DEF MInv, BatchMoves
  <2> QED BY <1>3, <2>1, BatchSteps
<1>4. CASE \E b \in Buckets : Taken(b)
  BY <1>4 DEF Taken
<1> QED BY <1>1, <1>2, <1>3, <1>4, Steps

LEMMA MarkedRows ==
  ASSUME MInv, Marking
  PROVE  \A r \in trades' : \E t \in trades : /\ r.s = t.s /\ r.decided = t.decided /\ r.at = t.at /\ r.exit = t.exit
                                              /\ r.id = t.id
<1>1. PICK p \in OpenRows : trades' = Replaced(p, Marked(p))
  BY DEF Marking
<1>2. p \in trades
  BY DEF OpenRows
<1> QED BY <1>1, <1>2, RowKeeps DEF MInv, Replaced

LEMMA ExitedRows ==
  ASSUME MInv, NEW p \in OpenRows, Exited(p), bar \in Buckets
  PROVE  /\ p \in trades /\ p.exit = None
         /\ \E q : /\ trades' = Replaced(p, q) /\ q.exit = bar /\ q.s = p.s /\ q.at = p.at /\ q.decided = p.decided
                   /\ q.id = p.id
         /\ OpenRows' = OpenRows \ {p}
         /\ \A r \in trades' : \E t \in trades : /\ r.s = t.s /\ r.decided = t.decided /\ r.at = t.at
                                                 /\ r.id = t.id /\ (r.exit = t.exit \/ (t = p /\ r.exit = bar))
<1>1. p \in trades /\ p.exit = None
  BY DEF OpenRows
<1>2. PICK q : q = [p EXCEPT !.exit = bar]
  OBVIOUS
<1>3. q.exit = bar /\ q.s = p.s /\ q.at = p.at /\ q.decided = p.decided /\ q.id = p.id
  BY <1>1, <1>2, RowKeeps DEF MInv
<1>4. trades' = Replaced(p, q)
  BY <1>2 DEF Exited
<1>5. OpenRows' = OpenRows \ {p}
  BY <1>1, <1>3, <1>4, NoneIsNone DEF OpenRows, Replaced
<1>6. \A r \in trades' : r = q \/ r \in trades
  BY <1>4 DEF Replaced
<1> QED BY <1>1, <1>3, <1>4, <1>5, <1>6

LEMMA OpenedIs ==
  /\ Opened.s = s0 /\ Opened.decided = filling /\ Opened.at = bar /\ Opened.exit = None
  /\ Opened.id = Cardinality(trades)
BY DEF Opened, Position

LEMMA PhasesNext ==
  ASSUME BInv, [Next]_vars
  PROVE  Phases'
<1>1. MInv /\ Phases /\ Types /\ Control /\ Memory /\ SESSION_POLICY' = SESSION_POLICY
  BY JournalSteps DEF BInv, MInv
<1>2. CASE pc' \notin Batching
  BY <1>2 DEF Phases, Undecided, Popped, Checked, Batching
<1>3. CASE Quiet /\ UNCHANGED <<pc, bar, batch, todo, filling>>
  BY <1>1, <1>3 DEF Quiet, Phases, Undecided, Popped, Checked, s0, Flatten, OpenRows
<1>4. CASE \E b \in Buckets : Taken(b)
  <2>1. PICK b \in Buckets : Taken(b)
    BY <1>4
  <2>2. pc' = "entries" /\ bar' = b /\ batch' = todo' /\ Quiet /\ b \in Nat /\ ~(b < b)
    BY <2>1, NoneIsNone DEF Taken
  <2>3. ~Recorded(b)
    BY <2>1, <2>2, NewBar DEF BInv
  <2>4. \A s \in Symbols : signals[<<s, b>>] = 0
    <3>1. \A s \in Symbols : signals[<<s, b>>] \in Nat
      BY <1>1 DEF Types, JournalTypes
    <3> QED BY <2>3, <3>1 DEF Recorded
  <2>5. \A r \in trades : r.exit # b
    BY <2>3 DEF Recorded
  <2> QED BY <2>2, <2>4, <2>5 DEF Quiet, Phases, Undecided, Popped, Checked
<1>5. CASE InTheBatch /\ Popping
  <2>1. pc = "entries" /\ local_pending' = [local_pending EXCEPT ![s0] = None] /\ UNCHANGED <<trades, signals, bar, batch>>
        /\ s0 \in todo
    BY <1>5 DEF Popping, InTheBatch
  <2>2. \A s \in Symbols : signals[<<s, bar>>] = 0
    BY <1>1, <2>1 DEF Phases, Undecided
  <2>3. (\A s \in batch \ todo : local_pending[s] = None) /\ \A r \in trades : r.exit # bar
    BY <1>1, <2>1 DEF Phases, Popped
  <2>4. \A s \in (batch \ todo) \cup {s0} : local_pending'[s] = None
    BY <1>1, <2>1, <2>3 DEF Types, JournalTypes, ControlTypes
  <2>5. \/ pc' = "open" /\ todo' = todo
        \/ pc' = "entries" /\ todo' = todo \ {s0}
        \/ pc' = "exits" /\ todo' = batch /\ todo = {s0}
    BY <1>1, <1>5, <2>1, AdvanceMoves DEF Popping, Batching
  <2> QED BY <2>1, <2>2, <2>3, <2>4, <2>5 DEF Phases, Undecided, Popped, Checked
<1>6. CASE InTheBatch /\ Opening
  <2>1. pc = "open" /\ UNCHANGED <<signals, local_pending, bar, batch>> /\ s0 \in todo /\ bar \in Buckets
    BY <1>6 DEF Opening, InTheBatch
  <2>2. \A s \in Symbols : signals[<<s, bar>>] = 0
    BY <1>1, <2>1 DEF Phases, Undecided
  <2>3. (\A s \in batch \ todo : local_pending[s] = None) /\ \A r \in trades : r.exit # bar
    BY <1>1, <2>1 DEF Phases, Popped
  <2>4. \A s \in (batch \ todo) \cup {s0} : local_pending'[s] = None
    BY <2>1, <2>3 DEF BInv, Entering
  <2>5. \/ pc' = "entries" /\ todo' = todo \ {s0}
        \/ pc' = "exits" /\ todo' = batch /\ todo = {s0}
    BY <1>1, <1>6, <2>1, AdvanceMoves DEF Opening, Batching
  <2>6. \A r \in trades' : r.exit # bar
    BY <1>6, <2>1, <2>3, OpenedIs, NoneIsNone DEF Opening
  <2> QED BY <2>1, <2>2, <2>3, <2>4, <2>5, <2>6 DEF Phases, Undecided, Popped, Checked
<1>7. CASE InTheBatch /\ Exiting
  <2>1. pc = "exits" /\ UNCHANGED <<signals, local_pending, bar, batch>> /\ s0 \in todo /\ bar \in Buckets
        /\ s0 \in Symbols
    BY <1>7 DEF Exiting, InTheBatch
  <2>2. \A s \in Symbols : signals[<<s, bar>>] = 0
    BY <1>1, <2>1 DEF Phases, Undecided
  <2>3. \A s \in batch : local_pending[s] = None
    BY <1>1, <2>1 DEF Phases, Popped
  <2>4. \/ pc' = "exits" /\ todo' = todo \ {s0}
        \/ pc' = "signals" /\ todo' = batch /\ todo = {s0}
    BY <1>1, <1>7, <2>1, AdvanceMoves DEF Exiting, Batching
  <2>5. Flatten /\ BarsLeft(bar) = 1 => \A r \in OpenRows' : r.s \notin (batch \ todo) \cup {s0}
    <3>1. SUFFICES ASSUME Flatten, BarsLeft(bar) = 1, NEW r \in OpenRows', r.s \in (batch \ todo) \cup {s0} PROVE FALSE
      OBVIOUS
    <3>2. \A t \in OpenRows : t.s \notin batch \ todo
      BY <1>1, <2>1, <3>1 DEF Phases, Checked
    <3>3. CASE trades' = trades /\ (has_open(s0) => ~(executable(bar) /\ flatten_due(bar)))
      <4>1. executable(bar) /\ flatten_due(bar)
        BY <3>1 DEF executable, flatten_due
      <4>2. positions = OpenRows /\ OpenRows' = OpenRows
        BY <1>1, <2>1, <3>3, SettledAt DEF Batching, OpenRows
      <4> QED BY <3>1, <3>2, <3>3, <4>1, <4>2 DEF has_open
    <3>4. CASE \E p \in OpenRows : Exited(p)
      <4>1. PICK p \in OpenRows : Exited(p)
        BY <3>4
      <4>2. OpenRows' = OpenRows \ {p} /\ p.s = s0 /\ p \in trades /\ p.exit = None
        BY <1>1, <2>1, <4>1, ExitedRows DEF Exited
      <4>3. \A t \in OpenRows : t # p => t.s # s0
        BY <4>2 DEF BInv, Once, OpenRows
      <4> QED BY <3>1, <3>2, <4>2, <4>3
    <3> QED BY <1>7, <3>3, <3>4 DEF Exiting
  <2>6. Checked' \subseteq (batch \ todo) \cup {s0}
    BY <2>1, <2>4 DEF Checked
  <2>7. Flatten' <=> Flatten
    BY <1>1 DEF Flatten
  <2>8. Flatten' /\ BarsLeft(bar') = 1 => \A r \in OpenRows' : r.s \notin Checked'
    BY <2>1, <2>5, <2>6, <2>7
  <2>9. (\A s \in Undecided' : signals'[<<s, bar'>>] = 0) /\ (\A s \in Popped' : local_pending'[s] = None)
    <3>1. Undecided' \subseteq Symbols
      BY <1>1, <2>1, <2>4 DEF Undecided, Types, ControlTypes
    <3>2. Popped' \subseteq batch
      BY <2>1, <2>4 DEF Popped
    <3> QED BY <2>1, <2>2, <2>3, <3>1, <3>2
  <2> QED BY <2>4, <2>8, <2>9 DEF Phases
<1>8. CASE InTheBatch /\ (Signalling \/ Queueing)
  <2>1. pc \in {"signals", "queue"} /\ UNCHANGED <<trades, bar, batch>> /\ s0 \in todo /\ s0 \in Symbols /\ bar \in Buckets
    BY <1>8 DEF Signalling, Queueing, InTheBatch
  <2>2. \/ pc' = "signals" /\ todo' = todo \ {s0}
        \/ pc' = "completed" /\ todo' = batch /\ todo = {s0}
        \/ pc' = "queue" /\ todo' = todo /\ s0' = s0
    BY <1>1, <1>8, <2>1, AdvanceMoves DEF Signalling, Queueing, Batching, s0
  <2>3. Undecided' \subseteq todo \ {s0} /\ Popped' \subseteq todo /\ (s0 \in Popped' => pc' = "queue") /\ Checked' \subseteq batch
    BY <2>1, <2>2 DEF Undecided, Popped, Checked
  <2>4. \A s \in todo \ {s0} : signals'[<<s, bar>>] = 0
    <3>1. \A s \in todo \ {s0} : signals[<<s, bar>>] = 0
      BY <1>1, <2>1 DEF Phases, Undecided
    <3>2. CASE Queueing
      BY <3>1, <3>2 DEF Queueing
    <3>3. CASE Signalling
      <4>1. \E n : signals' = [signals EXCEPT ![<<s0, bar>>] = n]
        BY <3>3 DEF Signalling
      <4> QED BY <1>1, <3>1, <4>1 DEF Types, JournalTypes, ControlTypes
    <3> QED BY <1>8, <3>2, <3>3
  <2>5. \A s \in Popped' : local_pending'[s] = None
    <3>1. \A s \in todo : local_pending[s] = None
      BY <1>1, <2>1 DEF Phases, Popped
    <3>2. CASE Signalling
      BY <2>3, <3>1, <3>2 DEF Signalling
    <3>3. CASE Queueing
      <4>1. pc' # "queue" /\ local_pending' = [local_pending EXCEPT ![s0] = bar]
        BY <1>1, <3>3, AdvanceMoves DEF Queueing, Batching
      <4> QED BY <1>1, <2>3, <3>1, <4>1 DEF Types, JournalTypes, ControlTypes
    <3> QED BY <1>8, <3>2, <3>3
  <2>6. Flatten' /\ BarsLeft(bar') = 1 => \A r \in OpenRows' : r.s \notin Checked'
    <3>1. Flatten /\ BarsLeft(bar) = 1 => \A r \in OpenRows : r.s \notin batch
      BY <1>1, <2>1 DEF Phases, Checked
    <3>2. OpenRows' = OpenRows /\ (Flatten' <=> Flatten)
      BY <1>1, <2>1 DEF OpenRows, Flatten
    <3> QED BY <2>1, <2>3, <3>1, <3>2
  <2> QED BY <2>1, <2>2, <2>3, <2>4, <2>5, <2>6 DEF Phases
<1> QED BY <1>1, <1>2, <1>3, <1>4, <1>5, <1>6, <1>7, <1>8, JournalSteps

(* What has been written for a bar of the batch is at most that bar.       *)
LEMMA NotAfterBar ==
  ASSUME MInv, History, pc \in Batching, bar \in Buckets
  PROVE  /\ \A s \in Symbols, b \in Buckets : bar < b => signals[<<s, b>>] = 0
         /\ \A r \in trades : r.at <= bar /\ r.decided <= bar /\ (r.exit # None => r.exit <= bar)
<1>1. \A b \in Buckets : Recorded(b) => b <= bar /\ ~(bar < b)
  BY NoneIsNone DEF History
<1>2. \A s \in Symbols, b \in Buckets : signals[<<s, b>>] \in Nat /\ (signals[<<s, b>>] > 0 => Recorded(b))
  BY DEF MInv, Types, JournalTypes, Recorded
<1>3. \A r \in trades : /\ r.at \in Buckets /\ r.decided \in Buckets /\ (r.exit # None => r.exit \in Buckets)
                        /\ Recorded(r.at) /\ Recorded(r.decided) /\ Recorded(r.exit)
  BY DEF MInv, Types, JournalTypes, Row, OrNone, Recorded
<1> QED BY <1>1, <1>2, <1>3

LEMMA EnteringNext ==
  ASSUME BInv, [Next]_vars
  PROVE  Entering'
<1>1. MInv /\ Entering /\ Types /\ Control /\ Memory
  BY DEF BInv, MInv
<1>2. CASE pc' \notin Batching /\ Quiet
  BY <1>1, <1>2 DEF Quiet, Entering, Waiting, Batching
<1>3. CASE Quiet /\ UNCHANGED <<pc, bar, batch, todo, filling>>
  BY <1>1, <1>3 DEF Quiet, Entering, Waiting, s0, OpenRows
<1>4. CASE \E b \in Buckets : Taken(b)
  BY <1>1, <1>4 DEF Taken, Quiet, Entering, Waiting
<1>5. CASE Marking /\ pc' \notin Batching
  <2>1. \A s, d : Waiting(s, d) => Waiting(s, d)'
    BY <1>1, <1>5, MarkedRows DEF Marking, Waiting
  <2> QED BY <1>1, <1>5, <2>1 DEF Marking, Entering, Batching
<1>6. CASE InTheBatch /\ Popping
  <2>1. pc = "entries" /\ local_pending' = [local_pending EXCEPT ![s0] = None] /\ UNCHANGED <<trades, signals, bar, batch>>
        /\ s0 \in Symbols /\ bar \in Buckets
    BY <1>6 DEF Popping, InTheBatch
  <2>2. \A s, d : Waiting(s, d) => Waiting(s, d)'
    BY <2>1 DEF Waiting
  <2>3. \A s \in Symbols : local_pending'[s] = None \/ local_pending'[s] = local_pending[s]
    BY <1>1, <2>1 DEF Types, JournalTypes
  <2>4. \A s \in Symbols : local_pending'[s] # None => Waiting(s, local_pending[s])'
    <3>1. SUFFICES ASSUME NEW s \in Symbols, local_pending'[s] # None PROVE Waiting(s, local_pending[s])'
      OBVIOUS
    <3>2. PICK d : d = local_pending'[s]
      OBVIOUS
    <3>3. Waiting(s, d)'
      BY <1>1, <2>2, <2>3, <3>1, <3>2 DEF Entering
    <3> QED BY <2>1, <3>2, <3>3 DEF Waiting
  <2>5. CASE Advance("entries", "exits")
    <3>1. pc' # "open"
      BY <2>5 DEF Advance, Goto
    <3> QED BY <2>4, <3>1 DEF Entering
  <2>6. CASE /\ pc' = "open" /\ todo' = todo /\ filling' = local_pending[s0]
             /\ Fillable(s0, local_pending[s0])
    <3>1. PICK d : d = local_pending[s0]
      OBVIOUS
    <3>2. d # None /\ ~has_open(s0) /\ bar - (d + 1) \in {0, 1}
      BY <2>6, <3>1 DEF Fillable
    <3>3. d \in Buckets /\ Waiting(s0, d)
      BY <1>1, <2>1, <3>1, <3>2 DEF Types, JournalTypes, OrNone, Entering
    <3>4. d < bar
      BY <2>1, <3>2, <3>3, NoneIsNone
    <3>5. s0' = s0
      BY <2>6 DEF s0
    <3>6. \A r \in OpenRows : r.s # s0
      BY <1>1, <2>1, <3>2, SettledAt DEF Batching, has_open
    <3>7. OpenRows' = OpenRows /\ local_pending'[s0] = None
      BY <1>1, <2>1 DEF OpenRows, Types, JournalTypes
    <3>8. Waiting(s0, d)'
      <4>1. PICK t : t = s0
        OBVIOUS
      <4>2. Waiting(t, d)'
        BY <2>2, <3>3, <4>1
      <4> QED BY <3>5, <4>1, <4>2
    <3>9. filling' = d
      BY <2>6, <3>1
    <3>10. Waiting(s0, filling)'
      BY <3>8, <3>9 DEF Waiting
    <3> QED BY <2>1, <2>4, <3>3, <3>4, <3>5, <3>6, <3>7, <3>9, <3>10 DEF Entering
  <2> QED BY <1>6, <2>5, <2>6 DEF Popping
<1>7. CASE InTheBatch /\ Opening
  <2>1. pc = "open" /\ UNCHANGED <<signals, local_pending, bar, batch>> /\ s0 \in Symbols /\ pc' # "open"
    BY <1>7 DEF Opening, InTheBatch, Advance, Goto
  <2>2. local_pending[s0] = None
    BY <1>1, <2>1 DEF Entering
  <2>3. \A s \in Symbols : local_pending[s] # None => s # s0 /\ Waiting(s, local_pending[s])
    BY <1>1, <2>2 DEF Entering
  <2>4. \A r \in trades' : r \in trades \/ r.s = s0
    BY <1>7, OpenedIs DEF Opening
  <2> QED BY <2>1, <2>3, <2>4 DEF Entering, Waiting
<1>8. CASE InTheBatch /\ Exiting
  <2>1. pc = "exits" /\ UNCHANGED <<signals, local_pending, bar, batch>> /\ s0 \in Symbols /\ pc' # "open" /\ bar \in Buckets
    BY <1>8 DEF Exiting, InTheBatch, Advance, Goto
  <2>2. \A r \in trades' : \E t \in trades : r.s = t.s /\ r.decided = t.decided
    <3>1. CASE trades' = trades
      BY <3>1
    <3>2. CASE \E p \in OpenRows : Exited(p)
      BY <1>1, <2>1, <3>2, ExitedRows
    <3> QED BY <1>8, <3>1, <3>2 DEF Exiting
  <2> QED BY <1>1, <2>1, <2>2 DEF Entering, Waiting
<1>9. CASE InTheBatch /\ Signalling
  <2>1. pc = "signals" /\ UNCHANGED <<trades, local_pending>> /\ s0 \in Symbols /\ s0 \in todo /\ bar \in Buckets
    BY <1>9 DEF Signalling, InTheBatch
  <2>2. pc' # "open"
    BY <1>9 DEF Signalling, Advance, Goto
  <2>3. local_pending[s0] = None
    BY <2>1 DEF BInv, Phases, Popped
  <2>4. \A s \in Symbols, b \in Buckets : s # s0 => signals'[<<s, b>>] = signals[<<s, b>>]
    <3>1. \E n : signals' = [signals EXCEPT ![<<s0, bar>>] = n]
      BY <1>9 DEF Signalling
    <3> QED BY <1>1, <2>1, <3>1 DEF Types, JournalTypes
  <2> QED BY <1>1, <2>1, <2>2, <2>3, <2>4 DEF Entering, Waiting
<1>10. CASE InTheBatch /\ Queueing
  <2>1. pc = "queue" /\ UNCHANGED <<trades, signals>> /\ s0 \in Symbols /\ bar \in Buckets
        /\ local_pending' = [local_pending EXCEPT ![s0] = bar]
    BY <1>10 DEF Queueing, InTheBatch
  <2>2. pc' # "open"
    BY <1>10 DEF Queueing, Advance, Goto
  <2>3. Waiting(s0, bar)
    <3>1. \A b \in Buckets : bar < b => signals[<<s0, b>>] = 0
      BY <1>1, <2>1, NotAfterBar DEF BInv, Batching
    <3>2. \A r \in trades : r.decided # bar
      <4>1. \A r \in trades : r.at <= bar /\ r.decided < r.at /\ r.at \in Nat /\ r.decided \in Nat
        BY <1>1, <2>1, NotAfterBar, NoneIsNone DEF BInv, Batching, Once, Types, JournalTypes, Row
      <4> QED BY <2>1, <4>1, NoneIsNone
    <3> QED BY <3>1, <3>2 DEF Waiting
  <2>4. \A s \in Symbols : local_pending'[s] # None => Waiting(s, local_pending[s])'
    <3>1. \A s \in Symbols : \A d : Waiting(s, d) => Waiting(s, d)'
      BY <2>1 DEF Waiting
    <3>2. SUFFICES ASSUME NEW s \in Symbols, local_pending'[s] # None PROVE Waiting(s, local_pending[s])'
      OBVIOUS
    <3>3. PICK d : d = local_pending'[s]
      OBVIOUS
    <3>4. Waiting(s, d)
      <4>1. (s = s0 /\ d = bar) \/ (s # s0 /\ d = local_pending[s])
        BY <1>1, <2>1, <3>3 DEF Types, JournalTypes
      <4> QED BY <1>1, <2>3, <3>2, <3>3, <4>1 DEF Entering
    <3> QED BY <3>1, <3>3, <3>4 DEF Waiting
  <2> QED BY <2>2, <2>4 DEF Entering
<1> QED BY <1>1, <1>2, <1>3, <1>4, <1>5, <1>6, <1>7, <1>8, <1>9, <1>10, JournalSteps

LEMMA OnceNext ==
  ASSUME BInv, [Next]_vars
  PROVE  Once'
<1>1. MInv /\ Once /\ Types /\ Control /\ Memory
  BY DEF BInv, MInv
<1>2. CASE Quiet
  BY <1>1, <1>2 DEF Quiet, Once
<1>3. CASE \E b \in Buckets : Taken(b)
  BY <1>2, <1>3 DEF Taken
<1>4. ASSUME signals' = signals,
             \A r \in trades' : \E t \in trades : /\ r.s = t.s /\ r.decided = t.decided /\ r.at = t.at /\ r.id = t.id
                                                  /\ (r.exit = None => t.exit = None),
             \A r, q \in trades' : r.id = q.id => r = q
      PROVE  Once'
  BY <1>1, <1>4 DEF Once, Memory
<1>5. \A r, q \in trades' : r.id = q.id => r = q
  BY <1>1, MNext DEF MInv, Memory
<1>6. CASE Marking
  BY <1>1, <1>4, <1>5, <1>6, MarkedRows DEF Marking
<1>7. CASE InTheBatch /\ Exiting
  <2>1. CASE trades' = trades
    BY <1>1, <1>7, <2>1 DEF Exiting, Once
  <2>2. CASE \E p \in OpenRows : Exited(p)
    BY <1>1, <1>4, <1>5, <1>7, <2>2, ExitedRows, NoneIsNone DEF Exiting, InTheBatch
  <2> QED BY <1>7, <2>1, <2>2 DEF Exiting
<1>8. CASE InTheBatch /\ (Popping \/ Queueing)
  BY <1>1, <1>8 DEF Popping, Queueing, Once
<1>9. CASE InTheBatch /\ Opening
  <2>1. UNCHANGED signals /\ pc = "open" /\ s0 \in Symbols /\ bar \in Buckets
    BY <1>9 DEF Opening, InTheBatch
  <2>2. CASE trades' = trades
    BY <1>1, <2>1, <2>2 DEF Once
  <2>3. CASE trades' = trades \cup {Opened}
    <3>1. filling < bar /\ Waiting(s0, filling) /\ \A r \in OpenRows : r.s # s0
      BY <2>1 DEF BInv, Entering
    <3>2. \A r \in trades : r.s = s0 => r.decided # filling /\ r.exit # None
      BY <3>1 DEF Waiting, OpenRows
    <3>3. \A r \in trades' : r.decided < r.at
      BY <1>1, <2>3, <3>1, OpenedIs DEF Once
    <3> QED BY <1>1, <2>1, <2>3, <3>2, <3>3, OpenedIs DEF Once
  <2> QED BY <1>9, <2>2, <2>3 DEF Opening
<1>10. CASE InTheBatch /\ Signalling
  <2>1. /\ UNCHANGED trades /\ signals' = [signals EXCEPT ![<<s0, bar>>] = signals[<<s0, bar>>] + 1]
        /\ s0 \in Symbols /\ s0 \in todo /\ bar \in Buckets /\ pc = "signals"
    BY <1>10 DEF Signalling, InTheBatch
  <2>2. signals[<<s0, bar>>] = 0
    BY <2>1 DEF BInv, Phases, Undecided
  <2>3. signals' = [signals EXCEPT ![<<s0, bar>>] = 1]
    BY <2>1, <2>2
  <2>4. \A x \in Symbols \X Buckets : signals'[x] <= 1
    BY <1>1, <2>3 DEF Once, Types, JournalTypes
  <2> QED BY <1>1, <2>1, <2>4 DEF Once
<1> QED BY <1>1, <1>2, <1>3, <1>6, <1>7, <1>8, <1>9, <1>10, JournalSteps

-----------------------------------------------------------------------------
(* Capital. *)

LEMMA Swapped ==
  ASSUME NEW S, IsFiniteSet(S), NEW p, NEW q, NEW T, T \subseteq (S \ {p}) \cup {q}, p \in S \/ q \notin T
  PROVE  IsFiniteSet(T) /\ Cardinality(T) <= Cardinality(S)
<1>1. CASE p \in S
  <2> DEFINE R == S \ {p}
  <2>1. IsFiniteSet(R) /\ Cardinality(R) = Cardinality(S) - 1
    BY <1>1, FS_RemoveElement
  <2>2. T \subseteq R \cup {q}
    OBVIOUS
  <2> HIDE DEF R
  <2>3. IsFiniteSet(R \cup {q}) /\ (Cardinality(R \cup {q}) = Cardinality(R) \/ Cardinality(R \cup {q}) = Cardinality(R) + 1)
    BY <2>1, FS_AddElement
  <2>4. Cardinality(R) \in Nat /\ Cardinality(S) \in Nat
    BY <2>1, FS_CardinalityType
  <2>5. IsFiniteSet(T) /\ Cardinality(T) <= Cardinality(R \cup {q})
    BY <2>2, <2>3, FS_Subset
  <2>6. Cardinality(T) \in Nat
    BY <2>5, FS_CardinalityType
  <2> QED BY <2>1, <2>3, <2>4, <2>5, <2>6
<1>2. CASE q \notin T
  <2>1. T \subseteq S
    BY <1>2
  <2> QED BY <2>1, FS_Subset
<1> QED BY <1>1, <1>2

(* Rows that are written again, open ones to open or closed ones at a bar  *)
(* that is not past, leave the capital as it was.                          *)
LEMMA CapitalReplaced ==
  ASSUME MInv, Capital, NEW p \in OpenRows, NEW q, trades' = Replaced(p, q), q.at = p.at
  PROVE  Capital'
<1>1. IsFiniteSet(trades) /\ p \in trades /\ p.exit = None /\ Slots \in Nat
  BY SizesAssumption DEF MInv, Memory, OpenRows
<1>2. IsFiniteSet(OpenRows) /\ OpenRows' \subseteq (OpenRows \ {p}) \cup {q}
  <2>1. OpenRows \subseteq trades
    BY DEF OpenRows
  <2> QED BY <1>1, <2>1, FS_Subset DEF OpenRows, Replaced
<1>3. IsFiniteSet(OpenRows') /\ Cardinality(OpenRows') <= Cardinality(OpenRows)
  <2>1. PICK T : T = OpenRows'
    OBVIOUS
  <2>2. PICK S : S = OpenRows
    OBVIOUS
  <2> QED BY <1>2, <2>1, <2>2, Swapped
<1>4. ASSUME NEW b \in Buckets
      PROVE  Cardinality(Touching(b)') <= Cardinality(Touching(b)) /\ IsFiniteSet(Touching(b)') /\ IsFiniteSet(Touching(b))
  <2>1. PICK T : T = Touching(b)'
    OBVIOUS
  <2>2. PICK S : S = Touching(b)
    OBVIOUS
  <2>3. S \subseteq trades
    BY <2>2 DEF Touching
  <2>4. IsFiniteSet(S)
    BY <1>1, <2>3, FS_Subset
  <2>5. T \subseteq (S \ {p}) \cup {q}
    BY <2>1, <2>2 DEF Touching, Replaced
  <2>6. q \in T => p \in S
    BY <1>1, <2>1, <2>2 DEF Touching
  <2> QED BY <2>1, <2>2, <2>4, <2>5, <2>6, Swapped
<1>5. Cardinality(OpenRows) \in Nat /\ Cardinality(OpenRows') \in Nat
  BY <1>2, <1>3, FS_CardinalityType
<1>6. \A b \in Buckets : Cardinality(Touching(b)) \in Nat /\ Cardinality(Touching(b)') \in Nat
  BY <1>4, FS_CardinalityType
<1>7. Cardinality(OpenRows') <= Slots
  BY <1>1, <1>3, <1>5 DEF Capital
<1>8. \A b \in Buckets : Cardinality(Touching(b)') <= Slots
  BY <1>1, <1>4, <1>6 DEF Capital
<1> QED BY <1>7, <1>8 DEF Capital

LEMMA CapitalNext ==
  ASSUME BInv, [Next]_vars
  PROVE  Capital'
<1>1. MInv /\ Capital /\ Types /\ Control /\ Memory
  BY DEF BInv, MInv
<1>2. CASE trades' = trades
  BY <1>1, <1>2 DEF Capital, OpenRows, Touching
<1>3. CASE Marking
  <2>1. PICK p \in OpenRows : trades' = Replaced(p, Marked(p))
    BY <1>3 DEF Marking
  <2>2. p \in trades
    BY DEF OpenRows
  <2>3. PICK q : q = Marked(p)
    OBVIOUS
  <2>4. q.at = p.at /\ trades' = Replaced(p, q)
    BY <1>1, <2>1, <2>2, <2>3, RowKeeps
  <2> QED BY <1>1, <2>4, CapitalReplaced
<1>4. CASE InTheBatch /\ \E p \in OpenRows : Exited(p)
  <2>1. PICK p \in OpenRows : Exited(p)
    BY <1>4
  <2>2. PICK q : trades' = Replaced(p, q) /\ q.at = p.at
    BY <1>1, <1>4, <2>1, ExitedRows DEF InTheBatch
  <2> QED BY <1>1, <2>2, CapitalReplaced
<1>5. CASE InTheBatch /\ pc = "open" /\ Cardinality(positions) < Slots /\ trades' = trades \cup {Opened}
  <2>1. bar \in Buckets /\ positions = OpenRows
    BY <1>1, <1>5, SettledAt DEF InTheBatch, Batching
  <2>2. IsFiniteSet(trades) /\ OpenRows \subseteq trades /\ Slots \in Nat
    BY <1>1, SizesAssumption DEF Memory, OpenRows
  <2>3. IsFiniteSet(OpenRows) /\ Opened \notin OpenRows
    BY <1>1, <2>2, FS_Subset, OpenedRows
  <2>4. Cardinality(OpenRows) \in Nat
    BY <2>3, FS_CardinalityType
  <2>5. OpenRows' = OpenRows \cup {Opened}
    BY <1>5, OpenedIs DEF OpenRows
  <2>6. IsFiniteSet(OpenRows') /\ Cardinality(OpenRows') = Cardinality(OpenRows) + 1
    BY <2>3, <2>5, FS_AddElement
  <2>7. Cardinality(OpenRows') <= Slots
    BY <1>5, <2>1, <2>2, <2>4, <2>6
  <2>8. ASSUME NEW b \in Buckets PROVE Cardinality(Touching(b)') <= Slots
    <3>1. b \in Nat /\ bar \in Nat
      BY <2>1, NoneIsNone
    <3>2. CASE b < bar
      <4>1. Touching(b)' = Touching(b)
        BY <1>5, <3>1, <3>2, OpenedIs DEF Touching
      <4> QED BY <1>1, <4>1 DEF Capital
    <3>3. CASE bar <= b
      <4>1. \A r \in trades : r.exit # None => r.exit \in Nat /\ r.exit < bar
        <5>1. \A r \in trades : r.exit # None => r.exit \in Nat /\ r.exit <= bar
          BY <1>1, <1>5, <2>1, NotAfterBar, NoneIsNone DEF BInv, Batching, Types, JournalTypes, Row, OrNone
        <5>2. \A r \in trades : r.exit # bar
          BY <1>5 DEF BInv, Phases
        <5> QED BY <3>1, <5>1, <5>2
      <4>2. \A r \in Touching(b) : r \in OpenRows
        BY <3>1, <3>3, <4>1 DEF Touching, OpenRows
      <4>3. Touching(b)' \subseteq OpenRows'
        <5>1. Touching(b)' \subseteq Touching(b) \cup {Opened}
          BY <1>5 DEF Touching
        <5> QED BY <2>5, <4>2, <5>1
      <4>4. IsFiniteSet(Touching(b)') /\ Cardinality(Touching(b)') <= Cardinality(OpenRows')
        BY <2>6, <4>3, FS_Subset
      <4>5. Cardinality(Touching(b)') \in Nat /\ Cardinality(OpenRows') \in Nat
        BY <2>6, <4>4, FS_CardinalityType
      <4> QED BY <2>2, <2>7, <4>4, <4>5
    <3> QED BY <3>1, <3>2, <3>3
  <2> QED BY <2>7, <2>8 DEF Capital
<1>6. \/ trades' = trades
      \/ Marking
      \/ InTheBatch /\ \E p \in OpenRows : Exited(p)
      \/ InTheBatch /\ pc = "open" /\ Cardinality(positions) < Slots /\ trades' = trades \cup {Opened}
  BY <1>1, JournalSteps DEF Quiet, Taken, Popping, Opening, Exiting, Signalling, Queueing
<1> QED BY <1>2, <1>3, <1>4, <1>5, <1>6

-----------------------------------------------------------------------------
(* Fills and the end of a session. *)

LEMMA NextObservedBarNext ==
  ASSUME BInv, [Next]_vars
  PROVE  NextObservedBar'
<1>1. MInv /\ NextObservedBar /\ Types /\ Control /\ Memory
  BY DEF BInv, MInv
<1>2. ASSUME signals' = signals,
             \A r \in trades' : \E t \in trades : r.s = t.s /\ r.decided = t.decided /\ r.at = t.at
      PROVE  NextObservedBar'
  BY <1>1, <1>2 DEF NextObservedBar
<1>3. CASE UNCHANGED <<trades, signals>>
  BY <1>1, <1>3 DEF NextObservedBar
<1>4. CASE Marking
  BY <1>1, <1>2, <1>4, MarkedRows DEF Marking
<1>5. CASE InTheBatch /\ Exiting
  <2>1. CASE \E p \in OpenRows : Exited(p)
    BY <1>1, <1>2, <1>5, <2>1, ExitedRows DEF Exiting, InTheBatch
  <2> QED BY <1>3, <1>5, <2>1 DEF Exiting
<1>6. CASE InTheBatch /\ Opening
  <2>1. CASE trades' = trades \cup {Opened}
    <3>1. pc = "open" /\ signals' = signals
      BY <1>6 DEF Opening
    <3>2. \A b \in Buckets : filling < b => signals[<<s0, b>>] = 0
      BY <3>1 DEF BInv, Entering, Waiting
    <3> QED BY <1>1, <2>1, <3>1, <3>2, OpenedIs DEF NextObservedBar
  <2> QED BY <1>3, <1>6, <2>1 DEF Opening
<1>7. CASE InTheBatch /\ Signalling
  <2>1. /\ UNCHANGED trades /\ s0 \in Symbols /\ bar \in Buckets /\ pc = "signals" /\ bar \in Nat
        /\ \E n : signals' = [signals EXCEPT ![<<s0, bar>>] = n]
    BY <1>7 DEF Signalling, InTheBatch
  <2>2. \A s \in Symbols, b \in Buckets : signals'[<<s, b>>] = signals[<<s, b>>] \/ b = bar
    BY <1>1, <2>1 DEF Types, JournalTypes
  <2>3. \A r \in trades : r.at <= bar /\ r.at \in Nat /\ r.s \in Symbols
    BY <1>1, <2>1, NotAfterBar, NoneIsNone DEF BInv, Batching, Types, JournalTypes, Row
  <2> QED BY <1>1, <2>1, <2>2, <2>3 DEF NextObservedBar
<1>8. CASE InTheBatch /\ (Popping \/ Queueing)
  BY <1>3, <1>8 DEF Popping, Queueing
<1> QED BY <1>1, <1>3, <1>4, <1>5, <1>6, <1>7, <1>8, JournalSteps DEF Quiet, Taken

LEMMA FlattenedAtCloseNext ==
  ASSUME BInv, [Next]_vars
  PROVE  FlattenedAtClose'
<1>1. MInv /\ FlattenedAtClose /\ Types /\ Control /\ Memory
  BY DEF BInv, MInv
<1>2. Flatten' <=> Flatten
  BY <1>1, JournalSteps DEF Flatten
<1>3. ASSUME signals' = signals,
             \A r \in trades' : \E t \in trades : r.s = t.s /\ r.at = t.at /\ (r.exit = None => t.exit = None)
      PROVE  FlattenedAtClose'
  BY <1>1, <1>2, <1>3 DEF FlattenedAtClose, OpenRows
<1>4. CASE UNCHANGED <<trades, signals>>
  BY <1>3, <1>4
<1>5. CASE Marking
  BY <1>1, <1>3, <1>5, MarkedRows DEF Marking
<1>6. CASE InTheBatch /\ Exiting
  <2>1. CASE \E p \in OpenRows : Exited(p)
    BY <1>1, <1>3, <1>6, <2>1, ExitedRows, NoneIsNone DEF Exiting, InTheBatch
  <2> QED BY <1>4, <1>6, <2>1 DEF Exiting
<1>7. CASE InTheBatch /\ Opening
  <2>1. CASE trades' = trades \cup {Opened}
    <3>1. pc = "open" /\ signals' = signals /\ bar \in Buckets /\ bar \in Nat /\ s0 \in Symbols
      BY <1>7 DEF Opening, InTheBatch
    <3>2. signals[<<s0, bar>>] = 0
      BY <3>1 DEF BInv, Phases, Undecided
    <3>3. \A b \in Buckets : bar < b => signals[<<s0, b>>] = 0
      BY <1>1, <3>1, NotAfterBar DEF BInv, Batching
    <3>4. \A b \in Buckets : b >= bar => signals[<<s0, b>>] = 0
      <4>1. \A b \in Buckets : b >= bar => b = bar \/ bar < b
        BY <3>1, NoneIsNone
      <4> QED BY <3>2, <3>3, <4>1
    <3>5. OpenRows' \subseteq OpenRows \cup {Opened}
      BY <2>1 DEF OpenRows
    <3> QED BY <1>1, <1>2, <3>1, <3>4, <3>5, OpenedIs DEF FlattenedAtClose
  <2> QED BY <1>4, <1>7, <2>1 DEF Opening
<1>8. CASE InTheBatch /\ Signalling
  <2>1. /\ UNCHANGED trades /\ s0 \in Symbols /\ s0 \in batch /\ bar \in Buckets /\ pc = "signals"
        /\ \E n : signals' = [signals EXCEPT ![<<s0, bar>>] = n]
    BY <1>8 DEF Signalling, InTheBatch
  <2>2. \A s \in Symbols, b \in Buckets : signals'[<<s, b>>] = signals[<<s, b>>] \/ (s = s0 /\ b = bar)
    BY <1>1, <2>1 DEF Types, JournalTypes
  <2>3. Flatten /\ BarsLeft(bar) = 1 => \A r \in OpenRows : r.s # s0
    BY <2>1 DEF BInv, Phases, Checked
  <2>4. OpenRows' = OpenRows /\ \A r \in OpenRows : r.s \in Symbols
    BY <1>1, <2>1 DEF OpenRows, Types, JournalTypes, Row
  <2> QED BY <1>1, <1>2, <2>2, <2>3, <2>4 DEF FlattenedAtClose
<1>9. CASE InTheBatch /\ (Popping \/ Queueing)
  BY <1>4, <1>9 DEF Popping, Queueing
<1> QED BY <1>1, <1>4, <1>5, <1>6, <1>7, <1>8, <1>9, JournalSteps DEF Quiet, Taken

-----------------------------------------------------------------------------
(* Theorems. *)

LEMMA BInit ==
  ASSUME Init
  PROVE  BInv
<1>1. MInv
  BY MInit
<1>2. \A b \in Buckets : ~Recorded(b)
  <2>1. trades = {} /\ \A s \in Symbols : local_pending[s] = None
    BY DEF Init
  <2>2. \A s \in Symbols, b \in Buckets : signals[<<s, b>>] = 0
    BY DEF Init
  <2>3. ASSUME NEW b \in Buckets, Recorded(b) PROVE FALSE
    <3>1. b # None
      BY NoneIsNone
    <3>2. ASSUME NEW s \in Symbols, signals[<<s, b>>] > 0 PROVE FALSE
      <4>1. signals[<<s, b>>] = 0
        BY <2>2
      <4> QED BY <3>2, <4>1
    <3> QED BY <2>1, <2>3, <3>1, <3>2 DEF Recorded
  <2> QED BY <2>3
<1>3. Capital
  <2>1. OpenRows = {} /\ \A b \in Buckets : Touching(b) = {}
    BY DEF Init, OpenRows, Touching
  <2>2. Cardinality({}) = 0 /\ 0 <= Slots
    BY FS_EmptySet, SizesAssumption
  <2> QED BY <2>1, <2>2 DEF Capital
<1>4. History /\ Phases /\ Entering /\ Once
  BY <1>2 DEF Init, History, Phases, Undecided, Popped, Checked, Entering, Once
<1>5. NextObservedBar /\ FlattenedAtClose
  BY DEF Init, NextObservedBar, FlattenedAtClose, OpenRows
<1> QED BY <1>1, <1>3, <1>4, <1>5 DEF BInv

(* The memory of the trader: what aggregation, execution and the thread    *)
(* hold, in particular that every position and pending entry in memory has *)
(* its row unless a failure waits for the recovery.                        *)
THEOREM PipelineInvariant == Spec => []MInv
<1>1. Init => MInv
  BY MInit
<1>2. MInv /\ [Next]_vars => MInv'
  BY MNext
<1> QED BY <1>1, <1>2, PTL DEF Spec

(* What each bar has decided, filled and closed: the invariant the four    *)
(* properties of decisions and capital follow from.                        *)
THEOREM DecisionInvariant == Spec => []BInv
<1>1. Init => BInv
  BY BInit
<1>2. BInv /\ [Next]_vars => BInv'
  <2> SUFFICES ASSUME BInv, [Next]_vars PROVE BInv'
    OBVIOUS
  <2>1. MInv' /\ History'
    BY MNext, HistoryNext DEF BInv
  <2>2. Phases' /\ Entering' /\ Once' /\ Capital' /\ NextObservedBar' /\ FlattenedAtClose'
    BY PhasesNext, EnteringNext, OnceNext, CapitalNext, NextObservedBarNext, FlattenedAtCloseNext
  <2> QED BY <2>1, <2>2 DEF BInv
<1> QED BY <1>1, <1>2, PTL DEF Spec

(* Between two turns of the worker thread, memory is the journal, whatever *)
(* failed or ended before.                                                 *)
THEOREM MemoryIsJournalHolds == Spec => []MemoryIsJournal
<1>1. MInv => MemoryIsJournal
  <2> SUFFICES ASSUME MInv PROVE MemoryIsJournal
    OBVIOUS
  <2>1. TypeOK
    <3>1. /\ trades \subseteq Row /\ positions \subseteq Held
      BY DEF MInv, Types, JournalTypes, ExecutionTypes
    <3>2. \A p \in positions : p.s \in Symbols /\ p.at \in Buckets /\ p.exit = None
      BY <3>1 DEF Held
    <3> QED BY <3>1, <3>2 DEF MInv, Types, JournalTypes, ExecutionTypes, AggregationTypes, ControlTypes, TypeOK, Row, OrNone
  <2>2. pc = "idle" /\ ~recovery_required => positions = OpenRows /\ pending = local_pending
    BY DEF MInv, Memory, Settled
  <2> QED BY <2>1, <2>2 DEF MemoryIsJournal
<1> QED BY <1>1, PipelineInvariant, PTL

(* No bar decides twice, no signal opens two positions and no ticker has   *)
(* two open ones.                                                          *)
THEOREM DecidedOnceHolds == Spec => []DecidedOnce
<1>1. BInv => DecidedOnce
  BY DEF BInv, Once, DecidedOnce
<1> QED BY <1>1, DecisionInvariant, PTL

(* The positions that touch a bar fit the capital together: an exit inside *)
(* a bar never funds an entry of the same bar.                             *)
THEOREM CapitalAtTheOpenHolds == Spec => []CapitalAtTheOpen
<1>1. BInv => CapitalAtTheOpen
  BY DEF BInv, Capital, Touching, CapitalAtTheOpen
<1> QED BY <1>1, DecisionInvariant, PTL

(* An entry is filled on the next bar of its ticker that was decided, or   *)
(* never.                                                                  *)
THEOREM NextObservedBarHolds == Spec => []NextObservedBar
<1>1. BInv => NextObservedBar
  BY DEF BInv
<1> QED BY <1>1, DecisionInvariant, PTL

(* Under the flatten policy no position survives the bar that flattens its *)
(* session.                                                                *)
THEOREM FlattenedAtCloseHolds == Spec => []FlattenedAtClose
<1>1. BInv => FlattenedAtClose
  BY DEF BInv
<1> QED BY <1>1, DecisionInvariant, PTL

(* While failures are outstanding, no status but "blocked" is written: a   *)
(* status is computed from the failures that are still outstanding after   *)
(* the step.                                                               *)
THEOREM FailureStaysVisibleHolds == Spec => FailureStaysVisible
<1>1. MInv /\ [Next]_vars => [failures' > 0 /\ status' # status => status' = "blocked"]_vars
  <2> SUFFICES ASSUME MInv, Next, failures' > 0, status' # status PROVE status' = "blocked"
    OBVIOUS
  <2>1. failures \in Nat
    BY DEF MInv, Types, ExecutionTypes
  <2>2. CASE \E s \in Symbols, m \in AllMinutes : on_minute_bar(s, m)
    BY <2>1, <2>2 DEF on_minute_bar, finish, finish_raises, journal, execution, IncompleteStatus
  <2>3. CASE tick_finish
    BY <2>1, <2>3 DEF tick_finish, finish, finish_raises, journal, execution, IncompleteStatus
  <2>4. CASE tick_status
    BY <2>1, <2>4 DEF tick_status, Heartbeat, execution
  <2>5. CASE batch_completed
    BY <2>1, <2>5 DEF batch_completed
  <2>6. CASE record_worker_error \/ Restart
    BY <2>6 DEF record_worker_error, Restart
  <2>7. CASE recover_worker_error \/ drain_ready \/ tick_flatten \/ Time
    BY <2>7 DEF recover_worker_error, drain_ready, tick_flatten, Time, journal
  <2>8. CASE pop_pending \/ open_position \/ check_exits \/ log_signal \/ queue_entry
    BY <2>8 DEF pop_pending, open_position, check_exits, log_signal, queue_entry
  <2> QED BY <2>2, <2>3, <2>4, <2>5, <2>6, <2>7, <2>8 DEF Next, Turn, process_batch
<1> QED BY <1>1, PipelineInvariant, PTL DEF Spec, FailureStaysVisible

=============================================================================
