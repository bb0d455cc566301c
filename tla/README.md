# Verification of stock-signal

TLA+ models of the parts of stock-signal that run concurrently, survive crashes,
depend on answers that may be lost or must keep two records of one thing equal,
with the TLC configurations that check them and proofs for the TLA+ proof
system.

- [The system](#the-system): its parts, their state, their hard behaviours
- [Modules](#modules): what models what, and how
- [Runs](#runs): what each configuration checks, its bounds and its fairness
- [Where the code disagrees](#where-the-code-disagrees) and [what else we
  saw](#what-else-we-saw)
- [Proofs](#proofs)
- [Mutants](#mutants)
- [What is not modelled](#what-is-not-modelled) and [the plan](#plan)

Run `tlc -config X.cfg M` and `tlapm M_proofs.tla` in this directory.
`PROJECT.json` lists components, runs, mutants, hazards and theorems, and maps
every definition to the source lines it stands for.

## The system

stock-signal turns minute bars into signals and signals into paper trades, in
four settings: live (a stream, one worker thread, a local or an Alpaca paper
broker), replay, research comparison, and a demo that replays approved datasets
on request. The parts below keep state; the rest computes.

| Part | State | Operations | Hard behaviour | What makes it correct |
|---|---|---|---|---|
| Job queue `demo/jobs.py` | `demo_jobs`, results, artifacts (SQLite) | submit, list, cancel, claim, heartbeat, complete, fail, confirm, recover | several processes; leases that lapse; a repeat that races the first | one run per key; an ended run stays ended; a run is tried at most `MAX_ATTEMPTS` times; a result exists exactly when a run is completed |
| Worker `demo/worker.py`, child `demo/replay_child.py` | attempt, staging and result directories, a child process | run_once, supervise, verify, publish | crash or signal anywhere; a paused worker that outlives its lease; I/O errors around a rename; a cancel during publishing | what is served is complete and in place; nothing left behind; every run ends, every cancel is answered |
| Alpaca adapter `trades/alpaca_broker.py` | `orders`, `trades` (SQLite), open positions and `blocked` in memory | open, close, reconcile, request flatten | the broker acts between any two calls; answers get lost; the process dies between two transactions | never sends twice; never goes short by racing an exit with a leg; counts each fill once; stops entries while unsure |
| Live trader `live/trader.py`, thread `live/worker.py` | buckets, ready batches, watermark, windows, pending entries, error flags; journal rows of positions and pending entries | minute bar, tick, process_batch, record and recover a failure | late and missing minutes; a batch that fails half way; an end of the process between two rows | memory is the journal whenever it trades; no bar decides twice; entries precede intrabar exits; flat at the close; a failure stays visible |
| Local broker `trades/executor.py` | capital, open positions, accounting overlay | open, close, apply posting, restore | a posting that fails half way | capital at the open; overlay equals ledger |
| Accounting `trades/cashflows.py`, `db/logger.py`, `backtest.py` | append-only postings, conflicts | calculate, make events, record, apply, summarise | revised, repeated and conflicting events; window boundaries; rounding | each cash flow once; cents add up; no knowledge from later |
| Shadow runs `research/shadow.py` | events, sessions, two portfolios, snapshot, saved state | seed, completed batch, save, load | late, repeated, conflicting and failing batches; restart | memory is the saved state; the saved state is a replay of the log |
| Evidence index `demo/artifacts.py` | imports, results, files | import directory, resolve | two importers; a directory edited while it is read | an import is one state of its directory; one import per evidence |
| Dashboard `dashboard/position_state.py` and web | none (a view), caches | read state, poll | rows of different ages | "confirmed" protection is real |

They meet in a few places. The HTTP API and the workers share only the job
database. Worker and child share the attempt directory. The trading thread and
the broker share nothing: the adapter learns of a fill by asking. The dashboard
reads the journal the adapter writes. A replay drives the trader's
`process_batch` itself and posts accounting events around each batch.

## Modules

### JobStore, DemoWorkers, JobLifecycle

`JobStore` has one operator per mutation of the queue; each is one `BEGIN
IMMEDIATE` transaction in the code and so one step. A row is one entry in a
function per column. A lease token is a fresh UUID per claim; a claim also adds
one to the attempt of its row, so the attempt number stands for the token. The
clock is only ever compared with `lease_expires_at`: `lapsed` holds the outcome
and `LeaseLapses` is the passing of time, free to happen at any moment, so that
a worker may be paused anywhere.

`DemoWorkers` adds the workers. `pc[w]` names the call a worker makes next;
between two calls anything may happen. `run_once` is `Recover`, `Claim`,
`StartChild`, the loop of `_supervise` (`ChildExited`, `DeadlineReached`,
`Supervise`, each of which leaves through `StopChild`, as in the `finally`), the
two endings `RecordFailure` and `ConfirmCancel`, the last look at a cancel
(`LastHeartbeat`), `VerifyOutput`, the publication in three steps (`Stage`,
`Rename`, `SyncParent`), `RecordResult`, `Discard`, `Cleanup`. `Crash` is SIGKILL
or power loss: nothing is cleaned and the child goes on as an orphan. `Terminate`
is SIGTERM or an uncaught exception: the `finally` blocks run. Leases are kept by
tokens, not by locks: a worker that was paused past its lease may still run its
child next to its successor's, and the properties say what that cannot do.

`JobLifecycle` is the abstract specification: the states of a run a reader of
the API sees, how often it may be started, and that a result is there exactly
when the run is completed. `DemoWorkers` refines it
(`status <- state, starts <- attempt, served <- a result row exists`).

### JobSubmission

The code that hands out rows: the lookup of a key before the write lock, the
slow build of the request, the second lookup and the INSERT in one transaction;
and the paging of `list_jobs`. It is apart from `JobStore` because its questions
need several owners, keys and requests but no workers. The datasets a request is
built from may come and go (`CatalogChanges`). `created` counts how many answers
called a row new: what is answered is a set, which would not tell two such answers
of one row apart.

### AlpacaBroker

One worker thread and one broker. An order is a pair of an entry and a kind: the
market parent, its two legs, the market exits that may follow. Each of the
code's transactions and calls is a step; `cur`, `todo`, `task` and `toclose` are
the local variables of the call chain (the row being processed, the rows left in
a loop, who called, the positions left in a tick). `open_position`, `Send`,
`Request`, `DiscoverLegs` and `ApplyLeg` are the submission; `reconcile`,
`sync_order`, `cancel_flatten_entry` and `observe` one reconciliation; `tick`,
`close_position`, `close_decision` and `cancel_active` what a tick closes.
`Crash` stands for the end of the process and for an exception that ends a turn:
both resume with the reload and the reconcile of the constructor or of
`recover_worker_error`.

The broker is external and modelled from what the code asks of it and handles:
market orders fill at once or share by share, legs rest until the entry is
complete, a share of one leg is one less for the other, a cancel is acknowledged
first and takes effect later, if at all, and may take the sibling along. It may
do any of this between any two steps of the thread. What the code expects of
Alpaca beyond that, and what follows from it, is out of reach of a model of this
repository: that both legs of a bracket fill at once is left out.

Prices, profit and side are left out: entries are long, and a holding below zero
is a position that flipped.

### LivePipeline

The path from a minute bar to a position, on the local broker. Every action is
one journal transaction together with the memory that goes with it, so that an
exception or the end of the process may come between any two. `on_minute_bar`
either adds the minute or first finishes the previous bucket; `tick` finishes the
overdue buckets one by one and then forces the drain; both call `drain_ready`,
whose batches go through `pop_pending` and `open_position` per symbol,
`check_exits` per symbol, `log_signal` and `queue_entry` per symbol, and
`batch_completed`; `tick_flatten` and `tick_status` end a tick. `arg` and `force`
say which caller a drain returns to, `todo` and `filling` are the loop's place.

`Raise` is an exception in any of these; what the action had done to the memory
by then stays. `record_worker_error` and `recover_worker_error` are the two
halves of the answer, in different turns of the thread, and either may fail
again. `Restart` is the end of the process and the constructor: memory is read
back from the journal, buckets and windows are seeded, minutes up to then are
not delivered. Minutes of one symbol come in order but may be lost; symbols and
clock are independent, so that a bar may be overdue while its minutes are still
queued (`MaxLag`).

Two minutes stand for the five of a bucket: what matters is "some are missing".
Whether a bar touches an exit and whether a signal asks for an entry is free;
prices and sizes are left out and capital is a number of slots.

### Cashflows, CashflowLedger

`Cashflows` translates the calculations: `calculate_distributions` for one action
id and side, `calculate_borrow`, and what they rest on (`allocate_cents` by
largest remainder, the supersession chain, the de-duplication of payments, the
window with its opening balances, what is known by a decision time). Amounts are
integers in parts of a cent (`CENT` of them make one), so that rounding and its
ties happen; a currency is right or missing.

`CashflowLedger` runs them. A scenario's author learns facts (revisions of an
action, payments, refunds) at times of his choice, and `Post` turns every result
that changed into an event through the adapters of `backtest.py`, with the
difference to the result before; `GiveAgain` lists an event twice, altered or
not. Then `run_portfolio` orders the events and posts those that are due before
and after each bar: `Status` is the answer of the journal (inserted, duplicate,
conflict), `apply` what the broker's overlay takes. A posting that would make a
balance negative stops the replay and leaves the fields that were set before that
one (`SetInTurn`). The author is external; he gives the events in the way the
adapters' documentation asks for.

### ShadowRunner, ShadowLog

`mem` is the runner's memory, `db` what is committed, `tx` what the open
transaction sees, `snapshot` what a failure restores. One batch is
`process_completed_batch` (the checks and the snapshot), `capture`,
`run_variant` for each portfolio, `finish` (the session and the saved state),
`Commit`. `Fail` and `Crash` may come at each of these points; after a crash the
constructor loads what was saved. A portfolio's step is one function, `Run`, since
nothing can be observed inside it. `ShadowLog` is the abstract specification: the
accepted batches form a log that grows only at its end, in order of time, one
entry per time; `ShadowRunner` refines it with `log <- db.events`.
`Replay` is the reference for recovery: what a fresh runner makes of the accepted
batches, one after the other (`Applied`), with no failure anywhere. A candidate
carries the sessions it was judged by. Whether its volume is above the reference
of these sessions (`loud`) is free, whether there are enough of them is not.

### ArtifactIndex

Importers read a directory file by file, in the order of the code, read each
file again, then look for earlier imports with three queries and insert. A step
is one read or one query: no lock is held before the INSERT. Somebody edits or
removes files all the while. A file's content is the number of its version and a
file never takes a content back: two contents are never equal again, nor their
hashes. Imports are numbered as they begin and a report carries the number, so
that two reports of one row are two. What the code demands of several files at
once (comparison rows against per-run metrics, manifests against the protocol)
is one agreement of two versions.

### PositionState

The predicate behind "confirmed" in `dashboard/position_state.py`, over the
journal variables of `AlpacaBroker`. The ages of the rows and of the last
observation are left out: they only turn "confirmed" into "unconfirmed", so that
what holds without them holds with them.

## Runs

| Run | Instance | Distinct states | What it shows |
|---|---|---|---|
| `MCDemoWorkers` | 1 run, 2 workers, 2 attempts, 2 faults, all phases | 405k | the safety of the queue with its workers, and the refinement of `JobLifecycle` |
| `MCDemoWorkersLive` | 2 runs, 1 worker, 1 fault, fairness | 545k | every run ends, every cancel is answered, first come first served |
| `MCJobSubmission` | 2 clients, 2 owners, 2 keys, 2 requests, pages of 1, 3 rows | 634k | idempotent submission, paging |
| `MCAlpacaBroker` | 1 bracket of 2 shares, share by share, 1 lost call, 1 crash, session end | 1.3M | never short, exits alone, nothing sent twice, "confirmed" is protected |
| `MCAlpacaBrokerTwoTickers` | 3 entries on 2 tickers, 1 lost call, no session end | 1.1M | one position per ticker, uncertainty stops entries |
| `MCAlpacaBrokerLive` | 1 bracket of 2 shares filled at once, 1 lost call, fairness | 184k | every fill reaches the journal, once |
| `MCAlpacaBrokerCrash` | 1 bracket of 1 share, 1 crash, fairness | | violated, see below |
| `MCAlpacaBrokerPieces` | 1 bracket of 2 shares, share by share | | violated, see below |
| `MCLivePipeline` | 2 symbols, 1 session of 4 buckets of 2 minutes, the second symbol up to 3 minutes late, both session policies, 1 slot, 2 faults | 3.5M | memory and journal, each bar decided once, capital at the open, flat at the close, failures visible |
| `MCCashflowLedger` | 3 lots, 6 revisions of an action, 4 payments, 1 borrow; 3 facts, 1 repeated event, 2 bars | 788k | ledger, overlay and book agree; causal views; windows and cents add up; corrections move no cash |
| `MCShadowRunner` | 2 symbols, 3 sessions of 3 bars, 1 of them seeded, 3 batches per time, 1 fault | 147k | memory, saved state and replay agree; no look ahead; refinement of `ShadowLog` |
| `MCArtifactIndex` | 2 importers, 2 directories, 2 owners, 2 edits, 2 imports, 1 read | 1.24M | an import is one state of its directory, one per evidence, reports are true |

**Bounds.** Two workers are enough for a stale holder and its successor; with
two attempts and two faults each attempt can be lost, so the paths "requeued",
"given up" and "orphaned child" all occur, and a third fault only repeats one of
them. Rows interact through the order of the queue alone, which takes two. For
the broker, two shares make a partial fill and a partial exit possible; one lost
call and one crash, each at any point, already separate every pair of adjacent
steps. The bounds are constants: `MaxFaults`, `MaxRows`, `MaxErrors`,
`MaxCrashes`, `Qty`, `ExitKinds` (market exits per entry), `PageSize`. They are
parameters of the theorems, which hold for every value of them. A session of
four buckets is the shortest in which a bar decides, fills, is flattened and has
a bar after it; two faults reach a failure during the answer to a failure and a
restart after one. `Grace` is the whole minutes of the lateness (none, of 35
seconds). `MaxLag` lets the first symbol be on time and the second three minutes
late, so that a batch is forced without it and its bar comes after the
watermark, and a minute comes after its bucket was closed. Three facts are the
least for an action, its revision or cancellation and a payment in any order;
two bars leave a gap for events that are due between them and one that is due
after the last. Shadow batches differ in what gates and exits look at; three
sessions are a seeded one, one that completes and one that looks back on it. Two
edits are the least that take a directory from a consistent state through an
inconsistent one to a consistent one, and two imports race. All bounds are
constants: besides those above `MaxFacts`, `MaxCopies`, `Horizon`, `MaxEdits`,
`MaxImports`, `MaxReads`. Of the six revisions of `MCCashflowLedger` one moves
the ex-date to a day when nobody held the stock and one to a later day, and of
the payments one is dated before the ex-date.

`CHECK_DEADLOCK FALSE` stands in three configurations whose systems really stop:
a replay that has ended (`MCCashflowLedger`), a shadow run whose sessions are
over (`MCShadowRunner`), an index whose edits and imports are used up
(`MCArtifactIndex`).

**Symmetry** is used in the safety runs of the workers, of the submission and of
the index, over processes, owners or keys the modules do not tell apart, and never
in a run with liveness.

**Fairness.** Workers: a process that can take a step takes one (a loop that
polls, restarted by whoever runs it), the supervising loop notices its deadline
(`time.monotonic` moves on), and the lease of a row whose holder is gone runs
out. Clients, children and the lease of a live holder are not fair: a child may
hang for ever. Alpaca: only the trading thread is fair (it ticks every five
seconds). Nothing is assumed of the broker: it need not fill or cancel anything.

## Where the code disagrees

Two runs violate a sentence of `docs/execution/issue-99-step-4.md` (lines
16-18): "Children are durable exit orders linked by parent identity and trade
ID. ... Only confirmed cumulative fills change exposure or P&L; repeated
observations and restarts apply each fill once."

- **A crash before the legs are linked** (`MCAlpacaBrokerCrash`,
  `FillsReachTheJournal`). Legs are usually discovered with the answer to the
  submission, before the entry has filled, so their `trade_id` is NULL. When a
  reconcile then commits the parent as filled and the process ends before
  `_discover_legs` runs again, `_needs_broker_sync` never asks for the parent
  again: it is terminal and both of its legs are known. The fill of a leg then
  fails in `_apply_exit_fill` at every tick, for want of a trade, and the
  account stays blocked. An exception in the same place is harmless, because it
  marks the parent unresolved; only the end of the process is not.
- **A parent observed in pieces** (`MCAlpacaBrokerPieces`, `FillsCountedOnce`).
  A reconcile asks for the parent and then for each leg. If the parent is seen
  half filled, completes, and a leg fills before that leg is asked for, the leg
  closes the trade for the half that is known; the next observation of the
  parent sets `remaining_shares` to the full quantity, and the exit fill no
  longer counts. With entries that fill at once the property holds
  (`MCAlpacaBrokerLive`).

A third disagreement is the exception of a property rather than a run. It is
with `docs/experiments/accounting-contract.md` (lines 436-438): "A correction
changes `D` and posts the difference from the prior derived balances atomically; it
does not change `S` or cash." Lines 423-426 say what follows: a corrected ex-date
reverses the old attribution, and a decrease after payment creates a repayment
liability for a long.

- **A paid action whose ex-date moves** (`LedgerIsBook` with its part
  `CorrectionsMoveNoCash`). A long is paid 12; a revision moves the ex-date to a day when nobody held the stock.
  `_distribution_for_side` (`cashflows.py:481`) then returns early with nothing
  settled, and `distribution_result_posting` (`backtest.py:149`) takes the
  difference to the result before as cash: an accrual with cash of -12 and no
  repayment liability. When a further revision moves the date back, the payment is
  new again, its event has the identity of the first (`backtest.py:164`), and the
  journal calls it a duplicate (or a conflict, when the amounts differ): the cash
  stays reversed. `Steady` keeps this case out of the property; without that
  hypothesis TLC finds the first half of it on the instance of `MCCashflowLedger`
  after two facts.

## What else we saw

Noted while translating, not claimed as findings: no document says otherwise, or
the case lies outside what a module models.

- `cashflows.py:411`: a distribution that is cancelled, or ex after the end of a
  window, while a rate is still given and a lot qualifies, calls
  `allocate_cents` with a target of zero; the exact amounts do not reconcile with
  it and the calculation raises. The model gives such a result the status `raised`:
  no event can be made of it.
- `backtest.py:252`: events are sorted by time and `logical_key`; two at one time,
  one with a key of its own and one with `None`, cannot be compared, and the replay
  raises before it starts (`Sortable`, pc = `refused`).
- `backtest.py:230`: adapter events without `knowledge_at` get the key
  `None:unknown-knowledge`; the second of them is a conflict with the first.
- `backtest.py:216`: an event carries the difference to the result before it, and
  may be scheduled earlier than the event it was computed after (a payment dated
  before its ex-date, say). No overlay becomes negative by that as long as what
  became known is `Steady`; this is part of `LedgerIsBook`.
- `cashflows.py:481`: a payment dated before the ex-date of an action that nobody
  is entitled to is counted by a window that ends between the two, since the
  ex-date is then still to come, and by no window that includes the ex-date. Two
  windows that meet there add up to more than one window; `Unearned` is this
  exception of `BookIsSound`.
- `executor.py:101-108`: a posting that would make a balance negative is refused
  after the fields before it were set, and after the journal has inserted the row.
  The replay ends there, with an overlay that is neither the old nor the new one.
- A borrow charge that is revised after its payment repeats the payment's id with
  another delta, and is quarantined as a conflict.
- The overlay ignores the deltas of an event that says it is unavailable; the
  adapters give none. A coverage row given twice counts once in the journal and
  twice in the broker.
- `shadow.py:505`: the comment "Match LiveTrader: existing positions are observed
  before a queued candidate can enter" is not what `trader.py:420-460` does, where
  entries precede exits. Both modules follow their code. An incomplete session can
  get two `incomplete_session` issues.
- `artifacts.py:349`: the query for another owner's import is neither in the
  transaction of the INSERT nor backed by a constraint; two owners' importers can
  both pass it. `OneImportPerEvidence` therefore speaks of a directory and of one
  owner's evidence, which the two UNIQUE constraints protect. The loser of a race
  over one directory gets an `IntegrityError`, not the report of the winner. A
  file that is optional and was absent when it was looked for is not looked for
  again.
- `worker.py:35`: a minute that is taken by a turn whose recovery fails is lost, and
  so is the minute that finishes a bucket whose batch raises; the next bucket
  of that symbol ends incomplete.

## Proofs

Eight modules hold the proofs. `Cashflows_proofs` is a library of lemmas about the
pure calculations: sums over finite sets, rounding to cents, `allocate_cents`,
what `_distribution_for_side` may return. The others prove properties of the
specification of one module each.
A theorem `SomethingHolds` states `Spec => []Something`, or `Spec => Something`
for an action property, of a property that a run checks on a small instance.
All proofs go the same way: an invariant of named parts that is inductive, a
lemma for each part and kind of step, and the property as a consequence.

| Module | Inductive invariant (theorem) | Properties (theorem) |
|---|---|---|
| `DemoWorkers_proofs` | `IInv` (`Invariance`), `OrderInv`, `TidyInv` (`WorkersAreTidy`) | `WorkerTypeOK` (`TypeCorrect`), `ServedResultIsPublished` (`ServedSafely`), `LostOnlyAfterLastAttempt` (`LostOnlyWhenUsedUp`), `FirstComeFirstServed`, `NothingLeftBehind`, `PublishedByCleanExit`, `EndedStaysEnded` (`EndedForGood`), `CancelBeforeLastCheckWins`, the refinement `ImplementsLifecycle` (`Implements`) |
| `JobSubmission_proofs` | `SubmissionInv` (`SubmissionInvariant`) | `OneRunPerKey`, `RepeatGetsItsRun`, `ConflictIsReal`, `PagingIsComplete` |
| `AlpacaBroker_proofs` | `JInv` (`JournalInvariant`), `AInv` (`AccountInvariant`), `CInv` (`CountingInvariant`) | `NeverSentTwice`, `OnePositionPerTicker`, `UncertainBlocksEntries`; `PositionNeverFlips`, `ExitIsAlone`, `ConfirmedIsProtected` (of `PositionState`); `FillsCountedOnce` |
| `LivePipeline_proofs` | `MInv` (`PipelineInvariant`), `BInv` (`DecisionInvariant`) | `MemoryIsJournal`; `DecidedOnce`, `CapitalAtTheOpen`, `NextObservedBar`, `FlattenedAtClose`; `FailureStaysVisible` |
| `ShadowRunner_proofs` | `RunnerInv` (`RunnerInvariant`), `ReplayInv` (`ReplayInvariant`) | `MemoryIsState`, `NoLookAhead`, the refinement `ImplementsLog`; `StateIsReplay` |
| `CashflowLedger_proofs` | `ScenarioInv`, `Told`, `Replayed` (`LedgerInvariant`), `Kept` (`KeptInvariant`) | `CausalViewIsStable`, `BookIsSound`, `OverlayIsLedger`; `LedgerIsBook`, `CorrectionsMoveNoCash` |
| `ArtifactIndex_proofs` | `IndexInv` (`IndexInvariant`) | `EvidenceIsOneInstant`, `OneImportPerEvidence`, `ReportIsTruthful` |

**Assumptions.** The named `ASSUME`s of the modules and nothing else: jobs,
workers and the kinds of market exit are finite sets, sizes and limits are
natural numbers, tickers of the pipelines are numbers in their sorted order, a
missing value is not a value. `CashflowLedger` assumes of its inputs what the
validation of the records checks (`HoldingsAssumption` to `IntervalAssumption`:
no quantity, rate or amount is negative; times lie within the horizon of a
window). All bounds of the runs (rows, attempts, shares, crashes, edits,
sessions, faults) are parameters of the theorems. Two properties have a
hypothesis: `FillsCountedOnceHolds` assumes `~InPieces`, that entries fill at
once; with entries in pieces the property is false, as `MCAlpacaBrokerPieces`
shows. `LedgerIsBook` itself begins with `Steady(facts) =>`, a condition on what
became known in a behaviour, not on the constants: the accepted inputs are those
of the code, and `MCCashflowLedger` has facts that are not `Steady` among them.
It says that the revisions of an action agree, for each side, on whether anybody
is entitled, a payment id is of one action and side, and no action has the id of
the borrow interval. Nothing in the code enforces the first, and without it the
property is false (the third case under where the code disagrees). The inductive
invariant `Kept` says it of every steady set of facts that includes the known
ones, since what is known only grows. `BookIsSound` has the exception `Unearned`.

**Workers.** That a served result is in place is not inductive: a step
that records a result must know that the directory is still there, and a step
that removes a directory must know that nobody serves it. `IInv` therefore adds
(1) `StoreInv`: a row has a lease exactly while it is active, and it is that of
its last claim, so a stale token matches nothing; (2) `Held` and `HeldOnce`: a
busy worker holds an attempt some claim handed out, and no two workers hold the
same; (3) `ChildInv`: why a worker stops its child and what it will report is
one of the codes the store accepts; (4) `DiskInv`: a worker about to record a
result has its directory, and until it cleans up its attempt is not the result
of its row, so neither its discard nor its staging can touch what is served.
`Recover` needs (1), since it settles any number of rows at once; `Claim` needs
`HeldOnce` only through the attempt number, which each claim raises. The
refinement follows from `StateMoves`, the moves of a row. For the order of
service (`OrderInv`) a row has a number exactly when it was submitted, and none above
the number of rows, so a new row comes last (`SubmissionIsLast`). Only `Claim` changes
an attempt, and it takes the oldest row that is queued (`ServedInOrder`), whether that
is new or was put back by recovery, which leaves the numbers alone. For what is left
behind (`TidyInv`) every label of a worker says what its attempt has on disk and
running, and an attempt that was not claimed yet has no trace; a child that
exited cleanly has been through all phases.

**Submission.** `KeysAreUnique` is the constraint of the table, kept because the
second lookup and the INSERT are one transaction; every answer names the row of
its request for ever (`AnswersNameRuns`), since rows do not change. Exactly one
answer called a row new (`OneCreatorEach`): a row is counted in the step that
inserts it, and every later answer comes from a lookup. A walk shows no row
twice, has a cursor only while something is left, and leaves no gap
(`WalkLeavesNoGap`): what its owner has between the cursor and the newest row it
was shown, it was shown. New rows come above the newest, and a page takes the
greatest rows below the cursor, which `PageIsTheNewest` proves of the code's
`ORDER BY ... LIMIT`.

**Broker, the journal** (`JInv`). It says of each label what the worker has in hand
(`Control`, `Current`); that an order which the journal does not call sent is not
with the broker (`Unsent`), whence nothing is sent twice; that a bracket reaches the
broker as one request (`Together`) and both legs are known before anything can
close its trade (`Traded`); that an entry has taken its ticker while anything of
it is open or in hand, and that only one entry has (`OneTaken`); that the worker is
blocked by an order of unknown fate or is about to look at it (`Certain`).

**Broker, the account** (`AInv`). `PositionNeverFlips` needs that all that works
at the broker can together sell no more than is held. That is a statement about
the broker (`Shape`, `Capacity`: a leg at work can sell exactly what is held,
and each share of one takes one from the other; `ExitOK`: a market exit is sent,
placed and working alone) which the worker keeps up by what it knows: what the
journal calls ended has ended at the broker with the same fills (`Row`), legs it
was told of as ended have not moved since (`Told`), it cancels only what is to
be closed (`Purpose`) and calls the account safe only after a look at it
(`Account`). `Protected` is what "confirmed" promises on the dashboard.

**Broker, the counting** (`CInv`). What is applied was filled, and the shares of a trade
are its entry's fills less the sum of what its exits applied. The sum over an
entry's orders is written by counting: for every quantity, how many exits applied
more than that; one more share raises exactly one of these numbers by one.

**Pipeline.** `MInv` covers control, buckets, watermark and memory: outside of a
failure that is not answered, positions and pending entries are those of the
journal (`Memory`), and a minute, a bucket and a ready bar are newer than the start
of the process and older than now (`Aggregation`). `BInv` adds what the journal knows
of bars: all it has recorded lies at or before the watermark or the restart
(`History`), so the next batch is new; which symbols of a batch are still to be
popped, checked and decided (`Phases`); that an entry that waits was decided
once and its symbol has decided nothing since (`Entering`), whence it is filled on the
next bar that was decided; no two rows of one decision (`Once`); and the capital of each
bar (`Capital`), which holds because in a batch entries come before any exit.

**Shadow runs.** A database between transactions is `Sound`: no batch after the
watermark, sessions exactly those that are whole, and every candidate judged by
exactly the whole sessions before its own (`JudgedBy`, `Grounded`). A batch that
comes later makes none of these whole or incomplete (`DaysPass`,
`GroundedStays`). `RunnerInv` ties memory, transaction and snapshot to it per
label. `StateIsReplay` is stronger: the saved state, history, sessions and
positions are those that a fresh run over the accepted batches computes
(`Faithful`), and a transaction has the part of it of the portfolios that have
run (`Underway`). The replay is a recursive function over the log; that it goes
on by one batch when the log does is proved from the first batch at which two
such functions would differ (`ReplaysExist`, `ReplaysAgree`, `ReplayGoesOn`).
That the rows of a symbol say whether it is open needs that a bar opens or
closes at most one position of a symbol, and that its rows are new
(`RunOpensAndCloses`, `RowsAreCounted`).

**Accounting.** A calculation depends on nothing but what is known at its decision
(`DistributionsAreCausal`, `BorrowIsCausal`), and what the author learns is never
known before he learns it (`NewsIsNotKnownBefore`): views of earlier decisions
stay.

*The results* (`BookIsSound`). `allocate_cents` ranks the lots by remainder and
gives one cent to as many as there are cents left; the ranks of the lots of a
finite set are 0 to its size less one, each once (`DistributionAllocates` and the
lemmas before it), so the cents given are the cents left. Two windows that meet
take disjoint parts of the payments, whose nets add up (`NetOfWindows`); what the
first closes with is the net the second opens with, whether it is handed on as
balances or as a target (`TargetInWindows`, `NothingInWindows`). The daily postings
of a borrow fee telescope (`Telescope`, `PostingsAddUp`).

*The replay* (`OverlayIsLedger`). Whether an event is applied to the overlay and
whether it becomes a row are decided at two places of the code.
`LedgerInvariant` says that they agree: every event has integer amounts and a
time (`Told`, which needs that every result has balances that are not negative,
`ViewIsOK`), and broker and journal have been told the same (`Booked`), since a
row that is inserted is new, so the sum grows by exactly its amounts
(`TotalGrows`). What a bar's open has seen was due by then because the earliest
event is always posted first (`FirstEventIsThere`, `Timely`).

*The book* (`LedgerIsBook`). While the scenario is told, `AuthorOK` says of each
key what its last result has settled (nothing, or the one payment there is:
`KeyIs`), and of each event what it was made of (`EventIs`): its payment, or an
accepted revision whose balances still hold or which has been superseded since.
So a later event of the same name has nothing to add, or is of another payment,
revision or time (`PostingFollows`); this is where `Steady` is needed. Balances
may not become negative on the way although events are posted by their schedule
and not as they were made: for each key there is a chain of balances (`Chain`),
none negative, from what the journal has of the key through the events that will
still count (`Moves`) to its last result. A result appends to the chain
(`ChainGrows`), an event that is given again or that the journal already has
does not count (`AccountsOfCopy`), and the first event by schedule is the first
of its key that counts, so that posting it takes the first link off
(`FirstIsFirst`, `ChainShrinks`). When no event is left the chain has one link:
the journal is the result. `KeyIs` also says why corrections move no cash: what
a key has settled is what its one payment was, so that a result without a new
payment settles what the one before it did. No sum over several keys is negative
(`SolventIn`), so that no posting is refused.

**Index.** That an import is one state of its directory, though nothing is locked,
rests on the second reading. All files that were read had their contents at some
one moment, except those that were changed since and are still to be read again
(`InstantOf`); contents never come back, so a file that is found the same has
not changed in between. One import per directory and per owner's evidence are the
constraints of the table; a report names the row that says what was read because
rows are never changed (`ReportNamesRow`), and exactly one report of a row is new
(`OneIsNew`), where an import has a number of its own and one report (`NumbersInv`).

**Where recursion would be needed.** Maxima of sets, sums over orders, and replays
are handled without induction over data: the library's well-foundedness of the
natural numbers or of the finite subsets gives the least one at which a claim
would fail, and there it does not. Sums over finite sets are of this kind
(`SmallestFailure`: a least subset whose sum is wrong).

**Model-checked only.**

- `EveryRunEnds`, `CancelIsAnswered`, `FillsReachTheJournal`: liveness under
  fairness, which the prover does not do.

## Mutants

Next to a definition there may be an operator whose name ends in `Mutant`, with a
comment that says which slip it stands for: a lookup left out, a cursor off by
one, a state not looked at. No specification uses them. `PROJECT.json` pairs
each property of each passing run with one of them; put in place of the
definition it follows, it must break that property on the instance of the run,
which shows that the property does depend on the code.

## What is not modelled

- Data: prices, profit, messages, result records, redaction of logs, the content
  of published files (`VerifyOutput` accepts or rejects), statistics.
- In the Alpaca adapter: orders from before `bracket_v1` (they follow bar
  triggers), short positions, the observation row for the dashboard, the
  statuses a broker may invent, a fill of both legs, two journals of one account.
- In the live trader: the warm-up (`trader.py:519` skips the signal of a symbol
  with too few bars; here every bar that is processed gets one), the evaluation
  window and indicator cache of a replay, the event feed, stopping the thread
  with work left, the supervision of the stream.
- In the accounting: validation of single records; the restoration of an overlay
  from a previous run's summary. `OverlayIsLedger` compares the overlay with the
  same totals the summary reads.
- In the shadow runner: the reference volumes as numbers; which sessions they are
  taken from is modelled.
- Bars after the last one of the clock in `LivePipeline`.
- A crash in the run of `FillsCountedOnce` (`MCAlpacaBrokerLive` has `MaxCrashes` = 0,
  for the sake of its liveness property): restarts are covered by the theorem.
- Two processes that run one shadow run id: the code supposes one, and the last
  to save would win.
- SQLite itself: a transaction is atomic and durable. A busy database is an
  exception, covered by `Terminate`, `Raise`, `Fail` and `Crash`.
- Research comparison, signals, indicators, metrics, reports, alerts, scripts, the
  read service, the web pages: functions of their inputs, I/O or layout.

## Plan

The state machines named above are written, and every safety and action property
of theirs is proved. What is left, in this order:

1. The hazards of `PROJECT.json` that no property covers: each has a note that says
   what of the outside world a property would have to assume.
2. `LedgerIsBook` for facts that are not `Steady`: first a revision that takes the
   entitlement away has to keep what was settled (`cashflows.py:481`), and the second
   settlement of one payment needs an identity of its own (`backtest.py:164`).
