---------------------------- MODULE ShadowRunner ----------------------------
(***************************************************************************)
(* A prospective shadow run of src/research/shadow.py: completed batches   *)
(* of bars drive two local portfolios, "baseline" and "rvol", that never   *)
(* trade.  One runner holds the state in memory and works on it in place;  *)
(* a batch is one database transaction, and an exception anywhere in it    *)
(* restores the memory from a snapshot while the transaction rolls back.   *)
(*                                                                         *)
(* `mem` is the memory, `db` what is committed, `tx` what the open         *)
(* transaction sees.  The code is stepped where an exception or a crash    *)
(* leaves something different behind.  Times are numbers of buckets; the   *)
(* first SeedSessions sessions lie before prospective_start.  A bar is     *)
(* what it does: whether it touches the exit of a position (`hit`), is a   *)
(* candidate (`wants`) and has a volume above the threshold (`loud`).      *)
(* Prices are left out; the capital carries Slots positions per variant.   *)
(* MaxFaults bounds the exceptions and crashes.                            *)
(***************************************************************************)
EXTENDS Integers, Sequences, FiniteSets

CONSTANTS Symbols, Batches, SessionBuckets, SeedSessions, Sessions,
          WindowSize, WARMUP_BARS, RVOL_MIN_OBSERVATIONS, RVOL_PRIOR_SESSIONS,
          Slots, Flatten, MaxFaults

Bar == [hit : BOOLEAN, wants : BOOLEAN, loud : BOOLEAN]

ASSUME SymbolsAssumption == Symbols \subseteq Nat     \* in sorted order
ASSUME BatchesAssumption == Batches \subseteq [bars : [Symbols -> Bar], stale : BOOLEAN]
ASSUME SessionsAssumption ==
  /\ SessionBuckets \in Nat \ {0} /\ Sessions \in Nat /\ SeedSessions \in 0..Sessions
ASSUME PolicyAssumption ==
  /\ WindowSize \in Nat \ {0} /\ WARMUP_BARS \in Nat /\ Slots \in Nat
  /\ RVOL_MIN_OBSERVATIONS \in Nat /\ RVOL_PRIOR_SESSIONS \in Nat
ASSUME SwitchAssumption == Flatten \in BOOLEAN /\ MaxFaults \in Nat

VARIABLES mem, db, tx, snapshot, pc, event, faults
vars == <<mem, db, tx, snapshot, pc, event, faults>>

VARIANTS == {"baseline", "rvol"}
None == -1
Days == 0..(Sessions - 1)
Times == 0..(SessionBuckets * Sessions - 1)
Day(t) == t \div SessionBuckets
BucketsOf(day) == {t \in Times : Day(t) = day}
Left(t) == SessionBuckets - 1 - (t % SessionBuckets)    \* bars left after t
executable(t) == Left(t) > 0
Start == SeedSessions * SessionBuckets                  \* prospective_start
Events == [ts : Times, bars : [Symbols -> Bar], stale : BOOLEAN]
NoEvent == [ts |-> None, bars |-> <<>>, stale |-> FALSE]

(* One portfolio, and the state that _save writes and the constructor reads. *)
EmptyVariant ==
  [open |-> {}, pending |-> [s \in Symbols |-> None], closed |-> {}, count |-> 0]
InitialState ==
  [window |-> <<>>, watermark |-> None, current_day |-> None,
   variants |-> [v \in VARIANTS |-> EmptyVariant]]
EmptyDb ==
  [state |-> InitialState, events |-> <<>>, history |-> {}, sessions |-> {}, seeded |-> {},
   initialized |-> FALSE, candidates |-> {}, positions |-> {}, marks |-> {}, issues |-> {}]

(* The constructor on an existing run. *)
LoadMutant(state) ==      \* Mutant: queued candidates are not read back.
  [state EXCEPT !.variants = [v \in VARIANTS |->
     [state.variants[v] EXCEPT !.pending = [s \in Symbols |-> None]]]]
Load(state) == state

Init ==
  /\ db = EmptyDb /\ mem = Load(EmptyDb.state)
  /\ tx = EmptyDb /\ snapshot = InitialState /\ pc = "idle" /\ event = NoEvent /\ faults = 0

-----------------------------------------------------------------------------
(* run_variant, as a function of the portfolio. *)

flattens(t) == Flatten /\ Left(t) = 1                   \* flatten_due(decision)

(* Positions are observed first: a marked one leaves at the close of an    *)
(* executable bar, a bar that touches the exit marks it.                   *)
Exiting(x, e) ==
  {p \in x.open : ~e.stale /\ executable(e.ts) /\ (p.pending_exit \/ flattens(e.ts))}
Observed(x, e) ==
  [x EXCEPT
     !.closed = @ \cup {[s |-> p.s, at |-> p.at, exit |-> e.ts] : p \in Exiting(x, e)},
     !.open = {[p EXCEPT !.pending_exit = @ \/ (~e.stale /\ e.bars[p.s].hit)] :
                 p \in @ \ Exiting(x, e)}]

(* Then queued candidates enter, in the order of the symbols, while the    *)
(* capital lasts: on one of the two bars after their decision, in the same *)
(* session.  Whether they enter or not, they are popped.                   *)
has_open(x, s) == \E p \in x.open : p.s = s
Timely(t, decided) ==
  decided # None /\ t - decided \in {1, 2} /\ Day(t) = Day(decided)
Enterable(x, e, exited) ==
  {s \in Symbols :
     /\ ~e.stale /\ executable(e.ts) /\ Timely(e.ts, x.pending[s]) /\ ~flattens(e.ts)
     /\ ~has_open(x, s) /\ s \notin exited}
Entering(x, e, exited) ==
  LET E == Enterable(x, e, exited) IN
  {s \in E : Cardinality({r \in E : r < s}) < Slots - Cardinality(x.open)}
Entered(x, e, exited) ==
  [x EXCEPT
     !.open = @ \cup {[s |-> s, at |-> e.ts, pending_exit |-> FALSE] :
                        s \in Entering(x, e, exited)},
     !.pending = [s \in Symbols |-> None]]

(* _rvol: the prior sessions its median is taken from, those that were     *)
(* captured whole or seeded; it passes nothing when they are too few.      *)
ObservationsMutant(t, sessions) == {d \in sessions : d <= Day(t)} \cup {Day(t)}  \* Mutant: today counts.
Observations(t, sessions) ==
  {d \in sessions : d < Day(t) /\ d >= Day(t) - RVOL_PRIOR_SESSIONS}
gate(v, s, e, sessions) ==
  \/ v = "baseline"
  \/ /\ Cardinality(Observations(e.ts, sessions)) >= RVOL_MIN_OBSERVATIONS
     /\ e.bars[s].loud

Queued(v, x, e, exited, warm, sessions) ==
  {s \in Symbols :
     /\ warm /\ e.bars[s].wants /\ ~e.stale /\ executable(e.ts)
     /\ ~has_open(x, s) /\ s \notin exited
     /\ ~(Flatten /\ Left(e.ts) <= 2) /\ gate(v, s, e, sessions)}

(* The portfolio after the batch, and the rows the batch leaves; the gate  *)
(* that is stored with a candidate of "rvol" has what it was judged by.    *)
Warm(state) == Len(state.window) >= WARMUP_BARS
Run(v, x, e, warm, sessions) ==
  LET exited == {p.s : p \in Exiting(x, e)}
      seen == Observed(x, e)
      filled == Entered(seen, e, exited)
      queued == Queued(v, filled, e, exited, warm, sessions)
  IN  [portfolio |->
         [filled EXCEPT !.pending = [s \in Symbols |-> IF s \in queued THEN e.ts ELSE None]],
       positions |->
         {<<v, e.ts, s, "close">> : s \in exited}
           \cup {<<v, e.ts, s, "open">> : s \in Entering(seen, e, exited)},
       candidates |->
         IF warm THEN {<<v, e.ts, s, IF s \in queued THEN "queued" ELSE "rejected",
                         IF v = "rvol" THEN Observations(e.ts, sessions) ELSE {}>> :
                         s \in Symbols} ELSE {}]

-----------------------------------------------------------------------------
(* One batch. *)

Last(seq, n) == IF Len(seq) <= n THEN seq ELSE SubSeq(seq, Len(seq) - n + 1, Len(seq))
Captured(state, e) ==
  [state EXCEPT
     !.window = Last(Append(@, e.ts), WindowSize),
     !.variants = [v \in VARIANTS |-> [state.variants[v] EXCEPT !.count = @ + 1]],
     !.watermark = e.ts, !.current_day = Day(e.ts)]

(* _complete_session: a session is whole, or an issue is recorded. *)
CompleteSessionMutant(d, day, at) ==        \* Mutant: the last bucket is enough.
  [d EXCEPT !.sessions = @ \cup {day}]
CompleteSession(d, day, at) ==
  IF BucketsOf(day) \subseteq d.history
  THEN [d EXCEPT !.sessions = @ \cup {day}]
  ELSE [d EXCEPT !.issues = @ \cup {<<day, at>>}]

(* A batch that is a duplicate, conflicts with the one of its time, or is  *)
(* out of order changes nothing.                                           *)
Known(t) == \E i \in DOMAIN db.events : db.events[i].ts = t
AcceptableMutant(t) == t >= Start /\ ~Known(t)    \* Mutant: late batches are taken.
Acceptable(t) == t >= Start /\ ~Known(t) /\ t > mem.watermark
process_completed_batch(t, b) ==
  /\ pc = "idle" /\ Acceptable(t)
  /\ event' = [ts |-> t, bars |-> b.bars, stale |-> b.stale]
  /\ snapshot' = mem /\ tx' = db /\ pc' = "capture"
  /\ UNCHANGED <<mem, db, faults>>

capture ==
  /\ pc = "capture"
  /\ LET before == mem.current_day
         closed == IF before # None /\ before # Day(event.ts)
                   THEN CompleteSession(tx, before, event.ts) ELSE tx
     IN tx' = [closed EXCEPT !.events = Append(@, event), !.history = @ \cup {event.ts}]
  /\ mem' = Captured(mem, event)
  /\ pc' = "baseline"
  /\ UNCHANGED <<db, snapshot, event, faults>>

run_variant(v) ==
  /\ pc = v
  /\ LET run == Run(v, mem.variants[v], event, Warm(mem), tx.sessions \cup tx.seeded)
     IN /\ mem' = [mem EXCEPT !.variants[v] = run.portfolio]
        /\ tx' = [tx EXCEPT !.positions = @ \cup run.positions,
                            !.candidates = @ \cup run.candidates,
                            !.marks = @ \cup {<<v, event.ts>>}]
  /\ pc' = IF v = "baseline" THEN "rvol" ELSE "finish"
  /\ UNCHANGED <<db, snapshot, event, faults>>

(* The final bucket completes its session; the state is saved. *)
finish ==
  /\ pc = "finish"
  /\ LET closed == IF Left(event.ts) = 0 THEN CompleteSession(tx, Day(event.ts), event.ts) ELSE tx
     IN  tx' = [closed EXCEPT !.state = mem]
  /\ pc' = "commit"
  /\ UNCHANGED <<mem, db, snapshot, event, faults>>

(* initialize_history: once, before the first batch, with whole sessions   *)
(* that closed before prospective_start.                                   *)
TimesOf(days) == {t \in Times : Day(t) \in days}
Sorted(T) == [i \in 1..Cardinality(T) |-> CHOOSE t \in T : Cardinality({r \in T : r < t}) = i - 1]
SeededState(state, days) ==
  [state EXCEPT !.window = Last(Sorted(TimesOf(days)), WindowSize)]
initialize_history(days) ==
  /\ pc = "idle" /\ mem.watermark = None
  /\ ~db.initialized /\ db.history = {}
  /\ snapshot' = mem /\ mem' = SeededState(mem, days)
  /\ tx' = [db EXCEPT !.history = TimesOf(days), !.seeded = days, !.initialized = TRUE,
                      !.state = mem']
  /\ pc' = "commit"
  /\ UNCHANGED <<db, event, faults>>

-----------------------------------------------------------------------------
(* How a transaction ends. *)

Idle == tx' = db' /\ pc' = "idle" /\ event' = NoEvent /\ snapshot' = InitialState
Commit == pc = "commit" /\ db' = tx /\ Idle /\ UNCHANGED <<mem, faults>>

(* Mutants: the memory is not restored; what was written so far is kept. *)
FailMutant ==
  /\ pc # "idle" /\ faults < MaxFaults /\ faults' = faults + 1
  /\ db' = db /\ Idle /\ UNCHANGED mem
FailKeptMutant ==
  /\ pc # "idle" /\ faults < MaxFaults /\ faults' = faults + 1
  /\ mem' = snapshot /\ db' = tx /\ Idle
(* An exception, of a variant, of the database or of its commit. *)
Fail ==
  /\ pc # "idle" /\ faults < MaxFaults /\ faults' = faults + 1
  /\ mem' = snapshot /\ db' = db /\ Idle

Crash ==
  /\ faults < MaxFaults /\ faults' = faults + 1
  /\ mem' = Load(db.state) /\ db' = db /\ Idle

Next ==
  \/ \E t \in Times, b \in Batches : process_completed_batch(t, b)
  \/ \E days \in SUBSET (0..(SeedSessions - 1)) : initialize_history(days)
  \/ capture \/ finish \/ Commit
  \/ \E v \in VARIANTS : run_variant(v)
  \/ Fail \/ Crash

Spec == Init /\ [][Next]_vars

-----------------------------------------------------------------------------
(* Properties. *)

TypeOK ==
  /\ pc \in {"idle", "capture", "finish", "commit"} \cup VARIANTS
  /\ \A d \in {db, tx} :
       /\ \A i \in DOMAIN d.events : d.events[i] \in Events
       /\ d.history \subseteq Times /\ d.sessions \subseteq Days /\ d.seeded \subseteq Days
       /\ d.marks \subseteq VARIANTS \X Times
  /\ \A m \in {mem, db.state, snapshot} :
       /\ m.watermark \in Times \cup {None} /\ m.current_day \in Days \cup {None}
       /\ Len(m.window) <= WindowSize
       /\ \A v \in VARIANTS : m.variants[v].pending \in [Symbols -> Times \cup {None}]

(* Between two batches the memory is the committed state, whatever failed. *)
MemoryIsState == TypeOK /\ (pc = "idle" => mem = Load(db.state))

(* The committed state, sessions and rows are what a fresh run would have  *)
(* computed from the accepted batches: nothing of a failed batch, and      *)
(* nothing a restart forgot, ever leaks into a portfolio.  Both variants   *)
(* have seen every accepted batch once, and a position is open in a saved  *)
(* portfolio if its rows say so.                                           *)
Fresh(seeded) ==
  [state |-> SeededState(InitialState, seeded), history |-> TimesOf(seeded),
   sessions |-> {}, positions |-> {}]
Applied(w, e, seeded) ==
  LET state == Captured(w.state, e)
      day == w.state.current_day
      d == IF day # None /\ day # Day(e.ts) /\ BucketsOf(day) \subseteq w.history
           THEN w.sessions \cup {day} ELSE w.sessions
      history == w.history \cup {e.ts}
      run == [v \in VARIANTS |->
                Run(v, state.variants[v], e, Warm(state), d \cup seeded)]
  IN  [state |-> [state EXCEPT !.variants = [v \in VARIANTS |-> run[v].portfolio]],
       history |-> history,
       sessions |-> IF Left(e.ts) = 0 /\ BucketsOf(Day(e.ts)) \subseteq history
                    THEN d \cup {Day(e.ts)} ELSE d,
       positions |-> w.positions \cup run["baseline"].positions \cup run["rvol"].positions]
Replay(events, seeded) ==
  LET world[n \in 0..Len(events)] ==
        IF n = 0 THEN Fresh(seeded) ELSE Applied(world[n - 1], events[n], seeded)
  IN  world[Len(events)]
StateIsReplay ==
  pc = "idle" =>
    LET fresh == Replay(db.events, db.seeded)
        n(v, s, kind) ==
          Cardinality({r \in db.positions : r[1] = v /\ r[3] = s /\ r[4] = kind})
    IN  /\ db.state = fresh.state
        /\ db.sessions = fresh.sessions /\ db.positions = fresh.positions
        /\ db.marks = {<<v, db.events[i].ts>> : v \in VARIANTS, i \in DOMAIN db.events}
        /\ \A v \in VARIANTS, s \in Symbols :
             n(v, s, "open") - n(v, s, "close")
               = IF has_open(db.state.variants[v], s) THEN 1 ELSE 0

(* The rvol gate compares a bar with the past only.  A session counts from *)
(* its last bucket on, and only if all of its buckets were captured; what  *)
(* a candidate was judged by is exactly the complete ones among the prior  *)
(* sessions, never its own or one completed later by a late or repeated    *)
(* batch, and it is queued only if they are enough.                        *)
NoLookAhead ==
  /\ db.sessions = {day \in Days : day >= SeedSessions /\ BucketsOf(day) \subseteq db.history}
  /\ \A c \in db.candidates :
       c[1] = "rvol" =>
         /\ c[5] = {d \in db.sessions \cup db.seeded :
                      d < Day(c[2]) /\ d >= Day(c[2]) - RVOL_PRIOR_SESSIONS}
         /\ c[4] = "queued" => Cardinality(c[5]) >= RVOL_MIN_OBSERVATIONS

(* What is promised of the log of accepted batches. *)
Log == INSTANCE ShadowLog WITH log <- db.events
ImplementsLog == Log!Spec
=============================================================================
