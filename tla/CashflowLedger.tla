--------------------------- MODULE CashflowLedger ---------------------------
(***************************************************************************)
(* Cash-flow accounting of a replay: what becomes known of distributions,  *)
(* borrow fees and payments is turned into accounting events, one for each *)
(* change of a result (the adapters of src/backtest.py); the replay posts  *)
(* them to the journal between its bars (src/db/logger.py), where an event *)
(* counts once, and applies them to the capital of the local broker        *)
(* (src/trades/executor.py).                                               *)
(*                                                                         *)
(* First the author of a scenario learns facts as `clock` advances, then   *)
(* run_portfolio replays the bars with the events, some of them given      *)
(* twice.  Times are bars.  MaxFacts bounds the facts of a scenario and    *)
(* MaxCopies the events that are given twice.                              *)
(***************************************************************************)
EXTENDS Cashflows, Sequences

CONSTANTS Holdings, Actions, Settlements, Interval, Bars, Modes, Coverage,
          Horizon, MaxFacts, MaxCopies

ASSUME BarsAssumption == Horizon \in Nat /\ Bars \subseteq 0..Horizon
ASSUME ModesAssumption == Modes \subseteq {"causal_capital_rerun", "fixed_trade_restatement"}
(* What the records accept: no quantity, rate or amount is negative.  A     *)
(* rate, an amount or the time of an exit may be missing.                  *)
ASSUME HoldingsAssumption ==
  /\ IsFiniteSet(Holdings)
  /\ Holdings \subseteq [lot_id : Nat, side : SIDES, quantity : Nat, entry_at : Nat,
                         exit_at : Nat \cup {None}]
ASSUME ActionsAssumption ==
  Actions \subseteq [action_id : Nat, ex_at : 0..Forever, per_share : Nat \cup {None},
                    currency : BOOLEAN, cancelled : BOOLEAN, revision_id : Nat,
                    supersedes : Nat \cup {None}]
ASSUME SettlementsAssumption ==
  Settlements \subseteq [payment_id : Nat, action_id : Nat, side : SIDES \cup {Both},
                        amount : Nat \cup {None}, occurred_at : 0..Forever,
                        kind : {"payment", "refund"}, currency : BOOLEAN]
ASSUME IntervalAssumption ==
  Interval \in [interval_id : Nat, quantity : Nat, daily : Nat \cup {None}, days : 0..Forever,
                currency : BOOLEAN, knowledge_at : Nat \cup {None}]
ASSUME BoundsAssumption == MaxFacts \in Nat /\ MaxCopies \in Nat
  /\ IsFiniteSet(Coverage) /\ Coverage \subseteq Nat

VARIABLES
  pc,
  mode,         \* accounting_mode, "none" before the replay
  clock,        \* the scenario's time, then the bar of the replay
  facts,        \* actions and settlements that are known, with knowledge_at
  posted,       \* the last result of each key that became an event: `prior`
  events,       \* accounting_events, in the order given; then what is left
  copies,
  postings, conflicts, coverage,         \* the journal
  overlay, accounting_unavailable        \* the broker of the accounting
vars == <<pc, mode, clock, facts, posted, events, copies, postings, conflicts, coverage,
          overlay, accounting_unavailable>>

Facts == Actions \cup Settlements
Dated(f, t) == [x \in DOMAIN f \cup {"knowledge_at"} |-> IF x = "knowledge_at" THEN t ELSE f[x]]
Undated(f) == [x \in DOMAIN f \ {"knowledge_at"} |-> f[x]]
IsAction(f) == "revision_id" \in DOMAIN f
Known(all) == {f \in all : IsAction(f)}
Paid(all) == {f \in all : ~IsAction(f)}
Ids == {a.action_id : a \in Actions}
BorrowKey == <<Interval.interval_id, "SHORT">>
Keys == (Ids \X SIDES) \cup {BorrowKey}

(* The result of a key in the view of time t. *)
View(all, key, t, w) ==
  IF key = BorrowKey
  THEN calculate_borrow(Interval, Paid(all), w, t, 0, 0, 0)
  ELSE calculate_distributions(Holdings, Known(all), Paid(all), key[1], key[2], t, w)

-----------------------------------------------------------------------------
(* The scenario: facts become known, and the adapters turn each new result *)
(* into an event with the difference to the one before.                    *)

Minus(a, b) == [c \in DOMAIN a |-> a[c] - b[c]]
Plus(a, b) == [c \in DOMAIN a |-> a[c] + b[c]]

(* The part of a result that the next event is computed from. *)
prior(result) ==
  [status |-> result.status, settled |-> result.settled, balances |-> result.balances]

(* The revision a result rests on, and the latest time it speaks of. *)
revision_key(key) ==
  LET accepted == Accepted(Known(facts), key[1])
  IN  IF accepted = {} THEN None ELSE (CHOOSE a \in accepted : TRUE).revision_id
Latest(key, result) ==
  LET paid == {s.occurred_at : s \in {x \in Paid(facts) : x.payment_id \in result.payments}}
      due == IF key = BorrowKey THEN {Interval.days}
             ELSE {a.ex_at : a \in Revisions(Known(facts), key[1])}
  IN  CHOOSE t \in paid \cup due : \A u \in paid \cup due : u <= t

(* Only a settlement that is new carries the identity of its payment. *)
PaymentOf(key, result) ==
  IF \/ result.payments = {}
     \/ key # BorrowKey /\ result.settled = posted[key].settled
  THEN None
  ELSE CHOOSE p \in result.payments : TRUE

result_posting(key, result) ==
  LET payment == PaymentOf(key, result)
      kind == IF key = BorrowKey THEN "borrow" ELSE "distribution"
      settled == result.settled - posted[key].settled
  IN  IF result.status = "unknown"
      THEN [key |-> key, revision |-> revision_key(key), knowledge_at |-> clock,
            kind |-> <<kind, "unavailable">>, payment |-> None, named |-> TRUE,
            occurred_at |-> clock, unavailable |-> TRUE, deltas |-> NoBalances]
      ELSE [key |-> key, revision |-> revision_key(key), knowledge_at |-> clock,
            kind |-> <<kind, IF payment = None THEN "accrual" ELSE "settlement">>,
            payment |-> payment, named |-> FALSE,
            occurred_at |-> Latest(key, result), unavailable |-> FALSE,
            deltas |->
              [Minus(result.balances, posted[key].balances) EXCEPT
                 !.cash = IF key = BorrowKey THEN result.cash_delta
                          ELSE Sign(key[2]) * settled]]

(* The results an event can be made of: the adapters refuse a result with  *)
(* more than one payment, and a calculation that raised has none.          *)
Postable(result) ==
  \/ result.status = "unknown"
  \/ result.status = "known" /\ Cardinality(result.payments) <= 1
Now(key) == View(facts, key, clock, Whole)
Changed(key) ==
  LET result == Now(key)
  IN  /\ Postable(result) /\ prior(result) # posted[key]
      /\ result.status = "known" \/ posted[key].status # "unknown"
Due == {key \in Keys : Changed(key)}

Scenario == <<mode, copies, postings, conflicts, coverage, overlay, accounting_unavailable>>

Learn(f) ==
  /\ pc = "scenario" /\ Cardinality(facts) < MaxFacts
  /\ f \notin {Undated(g) : g \in facts}
  /\ facts' = facts \cup {Dated(f, clock)}
  /\ UNCHANGED <<pc, clock, posted, events, Scenario>>

Post ==
  /\ pc = "scenario" /\ Due # {}
  /\ LET key == CHOOSE k \in Due : TRUE
         result == Now(key)
     IN /\ events' = Append(events, result_posting(key, result))
        /\ posted' = [posted EXCEPT ![key] =
             IF result.status = "known" THEN prior(result) ELSE [@ EXCEPT !.status = "unknown"]]
  /\ UNCHANGED <<pc, clock, facts, Scenario>>

Tick ==
  /\ pc = "scenario" /\ Due = {}
  /\ IF clock < Horizon THEN clock' = clock + 1 /\ UNCHANGED pc
                         ELSE pc' = "told" /\ UNCHANGED clock
  /\ UNCHANGED <<facts, posted, events, Scenario>>

(* An event is given again: a settlement under another revision, or with   *)
(* another amount.                                                         *)
Copy(event, altered) ==
  IF altered THEN [event EXCEPT !.deltas.cash = @ + CENT]
  ELSE IF event.payment = None THEN event ELSE [event EXCEPT !.revision = @ + 1]
GiveAgain(i, altered) ==
  /\ pc = "told" /\ copies < MaxCopies /\ copies' = copies + 1
  /\ altered => events[i].payment # None
  /\ events' = Append(events, Copy(events[i], altered))
  /\ UNCHANGED <<pc, mode, clock, facts, posted, postings, conflicts, coverage, overlay,
                 accounting_unavailable>>

-----------------------------------------------------------------------------
(* run_portfolio. *)

Scheduled(event, m) ==
  IF m = "causal_capital_rerun" THEN Larger(event.occurred_at, event.knowledge_at)
                                ELSE event.occurred_at
scheduled_at(event) == Scheduled(event, mode)
(* The events are sorted by time and logical key.  The comparison of an    *)
(* absent key with a given one is an exception, before the replay starts.  *)
Sortable(m) ==
  \A i, j \in DOMAIN events :
    Scheduled(events[i], m) = Scheduled(events[j], m) => events[i].named = events[j].named

start(m) ==
  /\ pc = "told" /\ mode' = m /\ clock' = 0 /\ coverage' = Coverage
  /\ accounting_unavailable' =
       IF m = "causal_capital_rerun" THEN Cardinality(Coverage) ELSE 0
  /\ pc' = IF Sortable(m) THEN "before" ELSE "refused"
  /\ UNCHANGED <<facts, posted, events, copies, postings, conflicts, overlay>>

(* stable_cashflow_key, unless the event names its key itself. *)
logical_key(event) ==
  IF event.named THEN <<event.kind, event.key, event.revision, None>>
  ELSE IF event.payment # None THEN <<event.kind, event.payment, None, None>>
  ELSE <<event.kind, event.key, event.revision, scheduled_at(event)>>
Row(event) ==
  [x \in DOMAIN event \cup {"at", "logical_key"} |->
     IF x = "at" THEN scheduled_at(event)
     ELSE IF x = "logical_key" THEN logical_key(event) ELSE event[x]]

payment_matches(row, values) ==
  /\ row.payment = values.payment /\ row.kind = values.kind /\ row.at = values.at
  /\ row.key = values.key /\ row.deltas = values.deltas

(* record_cashflow_posting: the status of an event, and its row. *)
Recorded(event) == {row \in postings : row.logical_key = logical_key(event)}
Payments(event) == {row \in postings : event.payment # None /\ row.payment = event.payment}
StatusMutant(event) ==            \* Mutant: only the exact payload is a duplicate.
  IF Row(event) \in postings THEN "duplicate" ELSE "inserted"
Status(event) ==
  LET values == Row(event)
      same(row) == row = values \/ (event.payment # None /\ payment_matches(row, values))
  IN  IF Recorded(event) # {}
      THEN IF \E row \in Recorded(event) : same(row) THEN "duplicate" ELSE "conflict"
      ELSE IF Payments(event) # {}
      THEN IF \E row \in Payments(event) : payment_matches(row, values)
           THEN "duplicate" ELSE "conflict"
      ELSE "inserted"

(* apply_accounting_posting: negative balances are refused.  The columns    *)
(* are set one by one, and those before the negative one stay set.         *)
Negative(balances) == \E c \in DOMAIN balances \ {"cash"} : balances[c] < 0
nth == [cash |-> 1, receivable |-> 2, payable |-> 3, borrow |-> 4, refund |-> 5, repayment |-> 6]
SetInTurn(balances, after) ==
  [c \in DOMAIN balances |->
     IF \E d \in DOMAIN balances \ {"cash"} : nth[d] <= nth[c] /\ after[d] < 0
     THEN balances[c] ELSE after[c]]
FirstEvent ==                     \* by time; the sort is stable
  CHOOSE i \in DOMAIN events :
    /\ \A j \in DOMAIN events : scheduled_at(events[i]) <= scheduled_at(events[j])
    /\ \A j \in 1..(i - 1) : scheduled_at(events[j]) > scheduled_at(events[i])
Without(i) == SubSeq(events, 1, i - 1) \o SubSeq(events, i + 1, Len(events))
DueBy(t) == events # <<>> /\ scheduled_at(events[FirstEvent]) <= t

applyMutant(event, status) ==     \* Mutant: what was recorded before is applied again.
  status \in {"inserted", "duplicate"}
apply(event, status) == status = "inserted"
post_event ==
  LET i == FirstEvent
      event == events[i]
      status == Status(event)
      after == Plus(overlay, event.deltas)
  IN  /\ events' = Without(i)
      /\ postings' = IF status = "inserted" THEN postings \cup {Row(event)} ELSE postings
      /\ conflicts' = IF status = "conflict" THEN conflicts \cup {Row(event)} ELSE conflicts
      /\ IF ~apply(event, status)
         THEN UNCHANGED <<overlay, accounting_unavailable, pc>>
         ELSE IF event.unavailable
         THEN /\ accounting_unavailable' = accounting_unavailable + 1
              /\ UNCHANGED <<overlay, pc>>
         ELSE /\ overlay' = SetInTurn(overlay, after)
              /\ pc' = IF Negative(after) THEN "raised" ELSE pc
              /\ UNCHANGED accounting_unavailable

ThroughMutant(t) == t + 1         \* Mutant: what the bar will bring funds its open.
Through(t) == t
_apply_accounting_events ==
  /\ \/ pc = "before" /\ DueBy(Through(clock))
     \/ pc = "after" /\ DueBy(clock + 1)
  /\ post_event
  /\ UNCHANGED <<mode, clock, facts, posted, copies, coverage>>

Replaying == <<mode, facts, posted, events, copies, postings, conflicts, coverage, overlay,
               accounting_unavailable>>
(* The trader sizes its entries; then the events up to the bar's end; then *)
(* the next bar there is.                                                  *)
Later == {t \in Bars : t > clock}
process_batch ==
  /\ pc = "before" /\ clock \in Bars /\ ~DueBy(Through(clock))
  /\ pc' = "after" /\ UNCHANGED <<clock, Replaying>>
next_bar ==
  /\ \/ pc = "before" /\ clock \notin Bars
     \/ pc = "after" /\ ~DueBy(clock + 1)
  /\ IF Later = {} THEN pc' = "done" /\ UNCHANGED clock
     ELSE /\ pc' = "before"
          /\ clock' = CHOOSE t \in Later : \A u \in Later : t <= u
  /\ UNCHANGED Replaying

-----------------------------------------------------------------------------

Init ==
  /\ pc = "scenario" /\ mode = "none" /\ clock = 0
  /\ facts = {} /\ posted = [key \in Keys |-> prior(NothingOwed)] /\ events = <<>> /\ copies = 0
  /\ postings = {} /\ conflicts = {} /\ coverage = {}
  /\ overlay = NoBalances /\ accounting_unavailable = 0

Next ==
  \/ \E f \in Facts : Learn(f)
  \/ Post \/ Tick
  \/ \E i \in DOMAIN events, altered \in BOOLEAN : GiveAgain(i, altered)
  \/ \E m \in Modes : start(m)
  \/ _apply_accounting_events \/ process_batch \/ next_bar

Spec == Init /\ [][Next]_vars

-----------------------------------------------------------------------------
(* Properties. *)

TypeOK ==
  /\ pc \in {"scenario", "told", "before", "after", "done", "refused", "raised"}
  /\ mode \in Modes \cup {"none"} /\ clock \in 0..Horizon /\ accounting_unavailable \in Nat
  /\ \A f \in facts : Undated(f) \in Facts /\ f.knowledge_at \in 0..Horizon
  /\ \A row \in postings : row.key \in Keys /\ DOMAIN row.deltas = DOMAIN NoBalances
  /\ ~Negative(overlay)

(* What became known is about the same things: no revision of an action    *)
(* says that somebody is entitled and another that nobody is, no payment   *)
(* id stands for payments of two actions or sides, and no action has the   *)
(* id of the borrow interval.                                              *)
Steady(known) ==
  /\ \A a, b \in Known(known), side \in SIDES :
       a.action_id = b.action_id /\ Entitled(Holdings, a, side) # {} =>
         Entitled(Holdings, b, side) # {}
  /\ \A s, t \in Paid(known) :
       s.payment_id = t.payment_id => s.action_id = t.action_id /\ s.side = t.side
  /\ \A a \in Known(known) : a.action_id # Interval.interval_id

(* A correction moves balances and never cash: cash belongs to an event    *)
(* that names its payment, which is how the journal tells a payment that   *)
(* is given twice, be it paid or refunded, and whatever was revised since. *)
CorrectionsMoveNoCash ==
  \A i \in DOMAIN events : events[i].payment = None => events[i].deltas.cash = 0

(* Every cash flow is in the journal exactly once: when the replay has     *)
(* posted all events, the rows of each entitlement add up to what the      *)
(* calculation says of everything that became known, whatever was revised, *)
(* cancelled, paid early or given twice.  What it cannot say freezes the   *)
(* capital.  On the way no balance would become negative and cash moves    *)
(* only with a payment.  The exceptions are the facts that are not Steady. *)
Total(rows, c) == SumFunction([row \in rows |-> row.deltas[c]])
LedgerIsBook ==
  Steady(facts) =>
    /\ pc # "raised" /\ CorrectionsMoveNoCash
    /\ pc = "done" /\ events = <<>> =>
      \A key \in Keys :
        LET result == View(facts, key, Horizon, Whole)
            book == [result.balances EXCEPT !.cash = result.cash_delta]
            rows == {row \in postings : row.key = key}
        IN  Postable(result) =>
              IF result.status = "known"
              THEN \A c \in DOMAIN NoBalances : Total(rows, c) = book[c]
              ELSE \E row \in rows : row.unavailable

(* The broker's overlay is the journal, at every moment until a posting is *)
(* refused: none is applied twice or left out, what the summary would      *)
(* restore is what the broker holds, and only what was known by the open   *)
(* of a bar can fund its entries.                                          *)
OverlayIsLedger ==
  /\ TypeOK
  /\ pc # "raised" => \A c \in DOMAIN NoBalances : overlay[c] = Total(postings, c)
  /\ mode = "causal_capital_rerun" =>
       accounting_unavailable
         = Cardinality({row \in postings : row.unavailable}) + Cardinality(coverage)
  /\ pc = "before" => \A row \in postings : row.at <= clock

(* What becomes known later never changes what an earlier decision saw.    *)
CausalViewIsStable ==
  [][facts' # facts => \A key \in Keys : \A t \in 0..(clock - 1) :
       View(facts', key, t, Whole) = View(facts, key, t, Whole)]_vars

(* Lots get the rounded total to the cent, each of them its own share to   *)
(* within a cent.                                                          *)
Shares(key) ==
  ExactByLot(Entitled(Holdings, CHOOSE a \in Accepted(Known(facts), key[1]) : TRUE, key[2]),
             CHOOSE a \in Accepted(Known(facts), key[1]) : TRUE)
AllocationAddsUp ==
  \A key \in Keys \ {BorrowKey} :
    LET lots == Now(key).lot_allocations IN
    lots # <<>> =>
      /\ SumFunction(lots) = Now(key).target
      /\ \A lot \in DOMAIN lots : Now(key).target > 0 =>
           lots[lot] - Shares(key)[lot] \in (-CENT + 1)..(CENT - 1)

(* Two windows that meet give together what one window gives: no balance   *)
(* disappears at the boundary and nothing is counted on both sides of it.  *)
(* The first window hands on its balances or, when there are none, its     *)
(* target and what was settled.  The exception is a payment before the     *)
(* ex-date of an action that nobody is entitled to: a window that ends in  *)
(* between counts it.                                                      *)
Unearned(known, key) ==
  \E a \in Accepted(Known(known), key[1]) :
    /\ Entitled(Holdings, a, key[2]) = {}
    /\ \E s \in Matched(Paid(known), a, key[2]) : s.occurred_at < a.ex_at
Closing(result) ==
  IF result.balances = NoBalances
  THEN [Opening EXCEPT !.target = result.target, !.settled = result.settled]
  ELSE [Opening EXCEPT !.receivable = result.balances.receivable,
          !.payable = result.balances.payable + result.balances.borrow,
          !.refund = result.balances.refund, !.repayment = result.balances.repayment]
Adds(first, second, whole) ==
  {first.status, second.status, whole.status} = {"known"} =>
    /\ second.balances = whole.balances
    /\ first.cash_delta + second.cash_delta = whole.cash_delta
    /\ first.economic_income + second.economic_income = whole.economic_income
UpTo(t) == [Whole EXCEPT !.end = t]
From(t, result) == [Whole EXCEPT !.start = t, !.opening = Closing(result)]
WindowsCompose ==
  \A key \in Keys \ {BorrowKey}, t \in 0..Horizon :
    LET first == View(facts, key, Eventually, UpTo(t))
    IN  ~Unearned(facts, key) =>
          Adds(first, View(facts, key, Eventually, From(t, first)),
               View(facts, key, Eventually, Whole))
Part(days, w, exact, target) ==
  calculate_borrow([Interval EXCEPT !.days = days], Paid(facts), w, Eventually, exact, target, 0)
BorrowCarriesOn ==
  \A days \in 1..(Interval.days - 1) :
    LET first == Part(days, UpTo(days), 0, 0)
        second == Part(Interval.days - days, From(days, first), days * Interval.daily, first.target)
        whole == Part(Interval.days, Whole, 0, 0)
    IN  /\ Adds(first, second, whole)
        /\ {first.status, second.status, whole.status} = {"known"} =>
             SumFunction(first.lot_allocations) + SumFunction(second.lot_allocations) = whole.target

(* The calculations agree with themselves, on everything that may be known. *)
BookIsSound ==
  pc = "scenario" => AllocationAddsUp /\ WindowsCompose /\ BorrowCarriesOn
=============================================================================
