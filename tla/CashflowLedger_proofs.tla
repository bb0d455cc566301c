------------------------ MODULE CashflowLedger_proofs ------------------------
(***************************************************************************)
(* Proofs about CashflowLedger.tla, for any holdings, actions and payments *)
(* and any order in which they become known: what a decision may see, that *)
(* the results add up, that the broker's overlay is the journal, and that  *)
(* the journal is the book of what became known, when that is Steady.      *)
(***************************************************************************)
EXTENDS CashflowLedger, Cashflows_proofs, SequenceTheorems

-----------------------------------------------------------------------------
(* A calculation depends on what is known at its decision, and on nothing  *)
(* else of the facts.                                                      *)

Visible(x, t) == {f \in x : _known_by(f, t)}

(* Of two sets of facts the same is known at t.                            *)
SameAt(all, more, t) ==
  /\ Visible(Known(all), t) = Visible(Known(more), t)
  /\ Visible(Paid(all), t) = Visible(Paid(more), t)

LEMMA DistributionsAreCausal ==
  ASSUME NEW holdings, NEW actions, NEW others, NEW settlements, NEW payments, NEW id, NEW side,
         NEW t, NEW w, Visible(actions, t) = Visible(others, t),
         Visible(settlements, t) = Visible(payments, t)
  PROVE  calculate_distributions(holdings, actions, settlements, id, side, t, w)
           = calculate_distributions(holdings, others, payments, id, side, t, w)
<1> DEFINE Of(known, paid) ==
             IF Revisions(known, id) = {} THEN NothingOwed
             ELSE IF Accepted(known, id) = {} THEN Unknown("unknown")
             ELSE _distribution_for_side(holdings, CHOOSE a \in Accepted(known, id) : TRUE, side,
                                         paid, w)
<1>1. calculate_distributions(holdings, actions, settlements, id, side, t, w)
        = Of(Visible(actions, t), Visible(settlements, t))
  BY DEF calculate_distributions, Visible
<1>2. calculate_distributions(holdings, others, payments, id, side, t, w)
        = Of(Visible(others, t), Visible(payments, t))
  BY DEF calculate_distributions, Visible
<1> HIDE DEF Of
<1> QED
  BY <1>1, <1>2

LEMMA BorrowIsCausal ==
  ASSUME NEW interval, NEW settlements, NEW payments, NEW w, NEW t, NEW exact, NEW target,
         NEW settled, Visible(settlements, t) = Visible(payments, t)
  PROVE  calculate_borrow(interval, settlements, w, t, exact, target, settled)
           = calculate_borrow(interval, payments, w, t, exact, target, settled)
<1> DEFINE Counted(all) == {s \in {x \in all : x.action_id = interval.interval_id} :
                              _known_by(s, t) /\ contains(w, s.occurred_at)}
<1>1. Counted(settlements) = Counted(payments)
  <2>1. \A s : s \in settlements /\ _known_by(s, t) <=> s \in payments /\ _known_by(s, t)
    BY DEF Visible
  <2> HIDE DEF _known_by, contains
  <2> QED
    BY <2>1
<1> QED
  BY <1>1, Zenon DEF calculate_borrow

LEMMA ViewsAreCausal ==
  ASSUME NEW all, NEW more, NEW key, NEW t, NEW w, SameAt(all, more, t)
  PROVE  View(all, key, t, w) = View(more, key, t, w)
<1>1. CASE key = BorrowKey
  BY <1>1, BorrowIsCausal DEF View, SameAt
<1>2. CASE key # BorrowKey
  BY <1>2, DistributionsAreCausal DEF View, SameAt
<1> QED
  BY <1>1, <1>2

(* What becomes known at a time is not known before.                       *)
LEMMA NewsIsNotKnownBefore ==
  ASSUME NEW all, NEW f, NEW now \in Nat, NEW t \in 0..(now - 1)
  PROVE  SameAt(all \cup {Dated(f, now)}, all, t)
<1>1. PICK g : g = Dated(f, now)
  OBVIOUS
<1>2. g.knowledge_at = now
  BY <1>1 DEF Dated
<1>3. ~ _known_by(g, t)
  BY <1>2 DEF _known_by, Eventually, None
<1>4. \A x : x \in all \cup {g} /\ _known_by(x, t) <=> x \in all /\ _known_by(x, t)
  BY <1>3
<1> QED
  BY <1>1, <1>4 DEF SameAt, Visible, Known, Paid

-----------------------------------------------------------------------------
(* The facts grow only while the scenario is told.                         *)

FactsOK(all, now) ==
  IsFiniteSet(all) /\ \A f \in all : \E g \in Facts, t \in 0..now : f = Dated(g, t)
ScenarioInv ==
  /\ FactsOK(facts, Horizon)
  /\ pc = "scenario" => clock \in 0..Horizon /\ FactsOK(facts, clock)

LEMMA ScenarioInit == Init => ScenarioInv
  BY FS_EmptySet, BarsAssumption DEF Init, ScenarioInv, FactsOK

LEMMA ScenarioStep == ScenarioInv /\ [Next]_vars => ScenarioInv'
<1> SUFFICES ASSUME ScenarioInv, [Next]_vars PROVE ScenarioInv'
  OBVIOUS
<1>1. CASE UNCHANGED vars
  BY <1>1 DEF vars, ScenarioInv
<1>2. ASSUME NEW f \in Facts, Learn(f) PROVE ScenarioInv'
  <2>1. /\ facts' = facts \cup {Dated(f, clock)} /\ clock' = clock /\ clock \in 0..Horizon
        /\ FactsOK(facts, clock) /\ FactsOK(facts, Horizon) /\ pc' = pc
    BY <1>2 DEF Learn, ScenarioInv
  <2>2. PICK all, g : all = facts /\ g = Dated(f, clock)
    OBVIOUS
  <2>3. FactsOK(all \cup {g}, clock) /\ FactsOK(all \cup {g}, Horizon)
    <3>1. IsFiniteSet(all \cup {g})
      BY <2>1, <2>2, FS_AddElement DEF FactsOK
    <3> QED
      BY <2>1, <2>2, <3>1 DEF FactsOK
  <2> QED
    BY <2>1, <2>2, <2>3 DEF ScenarioInv
<1>3. CASE Post
  BY <1>3 DEF Post, ScenarioInv
<1>4. CASE Tick
  <2>1. /\ facts' = facts /\ clock \in 0..Horizon /\ FactsOK(facts, clock)
        /\ FactsOK(facts, Horizon) /\ \/ pc' = "told"
                                      \/ clock < Horizon /\ clock' = clock + 1
    BY <1>4 DEF Tick, ScenarioInv
  <2>2. CASE pc' = "told"
    BY <2>1, <2>2 DEF ScenarioInv
  <2>3. CASE clock < Horizon /\ clock' = clock + 1
    <3>1. clock + 1 \in 0..Horizon /\ \A t \in 0..clock : t \in 0..(clock + 1)
      BY <2>1, <2>3, BarsAssumption
    <3>2. FactsOK(facts, clock + 1)
      BY <2>1, <3>1 DEF FactsOK
    <3> QED
      BY <2>1, <2>3, <3>1, <3>2 DEF ScenarioInv
  <2> QED
    BY <2>1, <2>2, <2>3
<1>5. ASSUME NEW i \in DOMAIN events, NEW altered \in BOOLEAN, GiveAgain(i, altered)
      PROVE  ScenarioInv'
  BY <1>5 DEF GiveAgain, ScenarioInv
<1>6. ASSUME NEW m \in Modes, start(m) PROVE ScenarioInv'
  BY <1>6 DEF start, ScenarioInv
<1>7. CASE _apply_accounting_events
  BY <1>7 DEF _apply_accounting_events, post_event, ScenarioInv
<1>8. CASE process_batch \/ next_bar
  BY <1>8 DEF process_batch, next_bar, Replaying, ScenarioInv
<1> QED
  BY <1>1, <1>2, <1>3, <1>4, <1>5, <1>6, <1>7, <1>8 DEF Next

THEOREM ScenarioInvariant == Spec => []ScenarioInv
  BY ScenarioInit, ScenarioStep, PTL DEF Spec

LEMMA FactsAreLearned ==
  ASSUME [Next]_vars, facts' # facts
  PROVE  pc = "scenario" /\ \E f \in Facts : facts' = facts \cup {Dated(f, clock)}
<1>1. CASE \E f \in Facts : Learn(f)
  BY <1>1 DEF Learn
<1>2. Post \/ Tick => UNCHANGED facts
  BY DEF Post, Tick
<1>3. ASSUME NEW i, NEW altered, GiveAgain(i, altered) PROVE UNCHANGED facts
  BY <1>3 DEF GiveAgain
<1>4. ASSUME NEW m, start(m) PROVE UNCHANGED facts
  BY <1>4 DEF start
<1>5. _apply_accounting_events \/ process_batch \/ next_bar => UNCHANGED facts
  BY DEF _apply_accounting_events, process_batch, next_bar, Replaying
<1>6. UNCHANGED vars => UNCHANGED facts
  BY DEF vars
<1> QED
  BY <1>1, <1>2, <1>3, <1>4, <1>5, <1>6 DEF Next

(* A fact that becomes known now (a revision, a cancellation, a payment)   *)
(* leaves every view of an earlier decision as it was: what the causal     *)
(* replay did on it stays right.                                           *)
THEOREM CausalViewIsStableHolds == Spec => CausalViewIsStable
<1> DEFINE Stable == facts' # facts => \A key \in Keys : \A t \in 0..(clock - 1) :
                       View(facts', key, t, Whole) = View(facts, key, t, Whole)
<1>1. ScenarioInv /\ [Next]_vars => Stable
  <2> SUFFICES ASSUME ScenarioInv, [Next]_vars, facts' # facts,
                      NEW key \in Keys, NEW t \in 0..(clock - 1)
               PROVE  View(facts', key, t, Whole) = View(facts, key, t, Whole)
    OBVIOUS
  <2>1. PICK f \in Facts : pc = "scenario" /\ facts' = facts \cup {Dated(f, clock)}
    BY FactsAreLearned
  <2>2. PICK now \in Nat : now = clock
    BY <2>1, BarsAssumption DEF ScenarioInv
  <2>3. PICK old, new : old = facts /\ new = facts'
    OBVIOUS
  <2>4. SameAt(new, old, t)
    BY <2>1, <2>2, <2>3, NewsIsNotKnownBefore
  <2> QED
    BY <2>3, <2>4, ViewsAreCausal
<1>2. Stable => [Stable]_vars
  OBVIOUS
<1> QED
  BY <1>1, ScenarioInvariant, PTL DEF Spec, CausalViewIsStable
-----------------------------------------------------------------------------
(* Windows that meet.  Only one of them sees the ex-date; what the first   *)
(* leaves open the second starts from.                                     *)

LEMMA ForeverIsNat == Forever \in Nat
  BY SMT DEF Forever

LEMMA WindowFields ==
  ASSUME NEW t, NEW r
  PROVE  /\ Whole.start = None /\ Whole.end = Forever /\ Whole.opening = Opening
         /\ UpTo(t).start = None /\ UpTo(t).end = t /\ UpTo(t).opening = Opening
         /\ From(t, r).start = t /\ From(t, r).end = Forever /\ From(t, r).opening = Closing(r)
  BY DEF Whole, UpTo, From

LEMMA OpeningIsNothing ==
  /\ Opening.receivable = 0 /\ Opening.payable = 0 /\ Opening.refund = 0 /\ Opening.repayment = 0
  /\ Opening.target = None /\ Opening.settled = 0
  BY DEF Opening

LEMMA ClosingFields ==
  ASSUME NEW r
  PROVE  /\ r.balances = NoBalances =>
              /\ Closing(r).receivable = 0 /\ Closing(r).payable = 0 /\ Closing(r).refund = 0
              /\ Closing(r).repayment = 0 /\ Closing(r).target = r.target
              /\ Closing(r).settled = r.settled
         /\ r.balances # NoBalances =>
              /\ Closing(r).receivable = r.balances.receivable
              /\ Closing(r).payable = r.balances.payable + r.balances.borrow
              /\ Closing(r).refund = r.balances.refund
              /\ Closing(r).repayment = r.balances.repayment
              /\ Closing(r).target = None /\ Closing(r).settled = 0
  BY DEF Closing, Opening

(* A known result in its parts, with net payments n.                       *)
IsKnown(r, lots, action, side, w, n) ==
  /\ n \in Int /\ Target(lots, action, w) \in Nat /\ OpeningNet(side, w) \in Int
  /\ Delta(lots, action, w) \in Int
  /\ r.balances = Owed(side, OpeningNet(side, w) + Delta(lots, action, w) - n)
  /\ r.cash_delta = Sign(side) * n /\ r.target = Target(lots, action, w)
  /\ r.settled = w.opening.settled + n
  /\ r.economic_income =
       IF contains(w, action.ex_at) THEN Sign(side) * Target(lots, action, w) ELSE 0

LEMMA KnownParts ==
  ASSUME NEW holdings, HoldingsOK(holdings), NEW action, ActionOK(action), NEW side,
         NEW settlements, PaymentsOK(settlements), NEW w, OpeningOK(w),
         ~Unusable(Taken(settlements, action, side, w))
  PROVE  IsKnown(KnownResult(holdings, action, side, settlements, w),
                 Entitled(holdings, action, side), action, side, w,
                 Net(Taken(settlements, action, side, w)))
<1> DEFINE lots == Entitled(holdings, action, side)
           payments == Taken(settlements, action, side, w)
           r == KnownResult(holdings, action, side, settlements, w)
<1>1. Net(payments) \in Int
  <2>1. payments \in SUBSET settlements
    BY DEF Taken, Matched
  <2>2. PaymentsOK(payments)
    BY <2>1, FS_Subset DEF PaymentsOK
  <2> QED
    BY <2>2, NetIsInt
<1>2. Target(lots, action, w) \in Nat
  BY TargetIsCents
<1>3. OpeningNet(side, w) \in Int /\ w.opening.target \in Int
  BY DEF OpeningOK, OpeningNet
<1>4. /\ Delta(lots, action, w) = Target(lots, action, w)
                                    - IF Revised(action, w) THEN w.opening.target ELSE 0
      /\ Delta(lots, action, w) \in Int
  <2> HIDE DEF lots
  <2> QED
    BY <1>2, <1>3 DEF Delta
<1>5. /\ r.balances = Owed(side, OpeningNet(side, w) + Delta(lots, action, w) - Net(payments))
      /\ r.cash_delta = Sign(side) * Net(payments) /\ r.target = Target(lots, action, w)
      /\ r.settled = w.opening.settled + Net(payments)
      /\ r.economic_income =
           IF contains(w, action.ex_at) THEN Sign(side) * Target(lots, action, w) ELSE 0
  BY ResultFields DEF KnownResult
<1> HIDE DEF lots, payments, r
<1> QED
  BY <1>1, <1>2, <1>3, <1>4, <1>5 DEF lots, payments, r, IsKnown
LEMMA PaymentsOfWindows ==
  ASSUME NEW settlements, PaymentsOK(settlements), NEW action, NEW side, NEW t \in Nat, NEW r
  PROVE  LET early == Taken(settlements, action, side, UpTo(t))
             late == Taken(settlements, action, side, From(t, r))
             all == Taken(settlements, action, side, Whole)
         IN  /\ early \cup late = all /\ early \cap late = {} /\ PaymentsOK(all)
             /\ ~Unusable(all) => Net(all) = Net(early) + Net(late)
<1> DEFINE early == Taken(settlements, action, side, UpTo(t))
           late == Taken(settlements, action, side, From(t, r))
           all == Taken(settlements, action, side, Whole)
<1>1. \A s \in settlements : /\ contains(Whole, s.occurred_at)
                             /\ contains(UpTo(t), s.occurred_at) <=> s.occurred_at <= t
                             /\ contains(From(t, r), s.occurred_at) <=> s.occurred_at > t
  BY WindowFields, ForeverIsNat DEF contains, PaymentsOK, None
<1>2. \A s \in settlements : s.occurred_at <= t <=> ~ (s.occurred_at > t)
  BY ForeverIsNat DEF PaymentsOK
<1>3. all \in SUBSET settlements /\ early \cup late = all /\ early \cap late = {}
  BY <1>1, <1>2 DEF Taken, Matched
<1>4. PaymentsOK(all)
  <2> HIDE DEF all
  <2> QED
    BY <1>3, FS_Subset DEF PaymentsOK
<1>5. ~Unusable(all) => Net(all) = Net(early) + Net(late)
  <2> HIDE DEF all, early, late
  <2> QED
    BY <1>3, <1>4, NetOfWindows
<1> QED
  BY <1>3, <1>4, <1>5

LEMMA KnownCases ==
  ASSUME NEW holdings, NEW action, NEW side, NEW settlements, NEW w,
         _distribution_for_side(holdings, action, side, settlements, w).status = "known"
  PROVE  LET r == _distribution_for_side(holdings, action, side, settlements, w)
             lots == Entitled(holdings, action, side)
         IN  \/ Idle(lots, action, w) /\ r = NothingOwed
             \/ /\ ~Idle(lots, action, w)
                /\ ~Unusable(Taken(settlements, action, side, w))
                /\ r = KnownResult(holdings, action, side, settlements, w)
<1>1. Unknown("unknown").status # "known" /\ Unknown("raised").status # "known"
  BY ResultFields DEF Unknown
<1> QED
  BY <1>1, DistributionCases

LEMMA WindowsAreOK ==
  ASSUME NEW action, ActionOK(action), NEW t \in Nat, NEW r, ResultOK(r)
  PROVE  /\ OpeningOK(Whole) /\ OpeningOK(UpTo(t)) /\ OpeningOK(From(t, r))
         /\ ~Inherited(Whole) /\ ~Inherited(UpTo(t))
         /\ Inherited(From(t, r)) <=> r.balances # NoBalances /\ r.balances.receivable
              + r.balances.payable + r.balances.borrow + r.balances.refund + r.balances.repayment # 0
         /\ ~Future(action, Whole) /\ ~Future(action, From(t, r))
         /\ Future(action, UpTo(t)) <=> action.ex_at > t
         /\ contains(Whole, action.ex_at)
         /\ contains(UpTo(t), action.ex_at) <=> ~ (action.ex_at > t)
         /\ contains(From(t, r), action.ex_at) <=> action.ex_at > t
         /\ \A side : OpeningNet(side, Whole) = 0 /\ OpeningNet(side, UpTo(t)) = 0
         /\ ~Revised(action, Whole) /\ ~Revised(action, UpTo(t))
<1>1. /\ OpeningOK(Whole) /\ OpeningOK(UpTo(t)) /\ ~Inherited(Whole) /\ ~Inherited(UpTo(t))
      /\ \A side : OpeningNet(side, Whole) = 0 /\ OpeningNet(side, UpTo(t)) = 0
      /\ ~Revised(action, Whole) /\ ~Revised(action, UpTo(t))
  <2>1. Whole.opening = Opening /\ UpTo(t).opening = Opening
    BY WindowFields
  <2>2. OpeningOK(Whole) /\ OpeningOK(UpTo(t))
    BY <2>1, OpeningIsNothing DEF OpeningOK, None
  <2>3. ~Inherited(Whole) /\ ~Inherited(UpTo(t))
    BY <2>1, OpeningIsNothing DEF Inherited
  <2>4. \A side : OpeningNet(side, Whole) = 0 /\ OpeningNet(side, UpTo(t)) = 0
    BY <2>1, OpeningIsNothing DEF OpeningNet
  <2>5. ~Revised(action, Whole) /\ ~Revised(action, UpTo(t))
    BY <2>1, OpeningIsNothing DEF Revised
  <2> QED
    BY <2>2, <2>3, <2>4, <2>5
<1>2. PICK b \in Balances : b = r.balances
  BY DEF ResultOK
<1>3. /\ b.receivable \in Nat /\ b.payable \in Nat /\ b.borrow \in Nat /\ b.refund \in Nat
      /\ b.repayment \in Nat
  BY <1>2 DEF Balances
<1>4. PICK o : o = Closing(r)
  OBVIOUS
<1>5. From(t, r).opening = o
  BY <1>4, WindowFields
<1>6. /\ OpeningOK(From(t, r))
      /\ Inherited(From(t, r)) <=> r.balances # NoBalances /\ r.balances.receivable
           + r.balances.payable + r.balances.borrow + r.balances.refund + r.balances.repayment # 0
  <2>1. CASE r.balances = NoBalances
    BY <1>4, <1>5, <2>1, ClosingFields DEF OpeningOK, Inherited, ResultOK
  <2>2. CASE r.balances # NoBalances
    <3>1. /\ o.receivable = b.receivable /\ o.payable = b.payable + b.borrow
          /\ o.refund = b.refund /\ o.repayment = b.repayment /\ o.target = None /\ o.settled = 0
      BY <1>2, <1>4, <2>2, ClosingFields
    <3> QED
      BY <1>2, <1>3, <1>5, <2>2, <3>1 DEF OpeningOK, Inherited, None
  <2> QED
    BY <2>1, <2>2
<1>7. /\ ~Future(action, Whole) /\ ~Future(action, From(t, r))
      /\ Future(action, UpTo(t)) <=> action.ex_at > t
      /\ contains(Whole, action.ex_at)
      /\ contains(UpTo(t), action.ex_at) <=> ~ (action.ex_at > t)
      /\ contains(From(t, r), action.ex_at) <=> action.ex_at > t
  BY WindowFields, ForeverIsNat DEF Future, contains, ActionOK, None
<1> QED
  BY <1>1, <1>6, <1>7
LEMMA NothingOwedFields ==
  /\ NothingOwed.status = "known" /\ NothingOwed.balances = NoBalances /\ NothingOwed.target = 0
  /\ NothingOwed.settled = 0 /\ NothingOwed.cash_delta = 0 /\ NothingOwed.economic_income = 0
  /\ NothingOwed.lot_allocations = <<>> /\ NothingOwed.payments = {}
  BY ResultFields DEF NothingOwed

(* Nobody is entitled: neither window holds anything. *)
LEMMA NothingInWindows ==
  ASSUME NEW holdings, HoldingsOK(holdings), NEW action, ActionOK(action), NEW side,
         NEW settlements, PaymentsOK(settlements), NEW t \in Nat,
         \A s \in Matched(settlements, action, side) : s.occurred_at >= action.ex_at,
         Entitled(holdings, action, side) = {},
         _distribution_for_side(holdings, action, side, settlements, UpTo(t)).status = "known"
  PROVE  LET first == _distribution_for_side(holdings, action, side, settlements, UpTo(t))
         IN  Adds(first,
                  _distribution_for_side(holdings, action, side, settlements, From(t, first)),
                  _distribution_for_side(holdings, action, side, settlements, Whole))
<1> DEFINE R(w) == _distribution_for_side(holdings, action, side, settlements, w)
           lots == Entitled(holdings, action, side)
           early == Taken(settlements, action, side, UpTo(t))
<1>1. PICK first : first = R(UpTo(t)) /\ ResultOK(first)
  <2>1. OpeningOK(UpTo(t))
    BY WindowFields, OpeningIsNothing DEF OpeningOK, None
  <2> QED
    BY <2>1, DistributionIsOK
<1>2. first.balances = NoBalances /\ first.cash_delta = 0 /\ first.economic_income = 0
  <2>1. CASE Idle(lots, action, UpTo(t))
    <3>1. first = NothingOwed
      BY <1>1, <2>1, KnownCases
    <3> QED
      BY <3>1, NothingOwedFields
  <2>2. CASE ~Idle(lots, action, UpTo(t))
    <3>1. Future(action, UpTo(t)) /\ action.ex_at > t
      BY <1>1, <2>2, WindowsAreOK DEF Idle
    <3>2. first = KnownResult(holdings, action, side, settlements, UpTo(t)) /\ ~Unusable(early)
      BY <1>1, <2>2, KnownCases
    <3>3. early = {}
      <4>1. \A s \in Matched(settlements, action, side) : ~contains(UpTo(t), s.occurred_at)
        <5>1. \A s \in Matched(settlements, action, side) :
                s.occurred_at \in Nat /\ s.occurred_at >= action.ex_at
          BY ForeverIsNat DEF Matched, PaymentsOK
        <5> QED
          BY <3>1, <5>1, WindowFields, ForeverIsNat DEF contains, ActionOK
      <4> QED
        BY <4>1 DEF Taken
    <3>4. Net(early) = 0
      <4>1. DOMAIN NetOf(early) = {}
        BY <3>3 DEF NetOf
      <4> QED
        BY <4>1, SumIs, SumOfNothing, FS_EmptySet DEF Net, NetOf
    <3>5. Target(lots, action, UpTo(t)) = 0
      BY <3>1 DEF Target, Rated
    <3>6. /\ OpeningOK(UpTo(t)) /\ ~Revised(action, UpTo(t)) /\ OpeningNet(side, UpTo(t)) = 0
          /\ ~contains(UpTo(t), action.ex_at)
      BY <1>1, <3>1, WindowsAreOK
    <3>7. /\ first.balances = Owed(side, 0 + (0 - 0) - 0) /\ first.cash_delta = Sign(side) * 0
          /\ first.economic_income = 0
      <4>1. Delta(lots, action, UpTo(t)) = 0 - 0
        <5> HIDE DEF lots
        <5> QED
          BY <3>5, <3>6 DEF Delta
      <4>2. IsKnown(KnownResult(holdings, action, side, settlements, UpTo(t)), lots, action, side,
                    UpTo(t), Net(early))
        BY <3>2, <3>6, KnownParts
      <4> HIDE DEF early, lots
      <4> QED
        BY <3>2, <3>4, <3>6, <4>1, <4>2 DEF IsKnown
    <3> QED
      BY <3>7, OwedIsBalances DEF Sign
  <2> QED
    BY <2>1, <2>2
<1>3. Idle(lots, action, From(t, first)) /\ Idle(lots, action, Whole)
  BY <1>1, <1>2, WindowsAreOK DEF Idle
<1>4. R(From(t, first)) = NothingOwed \/ R(From(t, first)).status # "known"
  BY <1>3, KnownCases
<1>5. R(Whole) = NothingOwed \/ R(Whole).status # "known"
  BY <1>3, KnownCases
<1>6. Adds(first, R(From(t, first)), R(Whole))
  <2>1. PICK second, whole : second = R(From(t, first)) /\ whole = R(Whole)
    OBVIOUS
  <2> HIDE DEF R
  <2>2. ASSUME second.status = "known", whole.status = "known"
        PROVE  /\ second.balances = whole.balances
               /\ first.cash_delta + second.cash_delta = whole.cash_delta
               /\ first.economic_income + second.economic_income = whole.economic_income
    BY <1>2, <1>4, <1>5, <2>1, <2>2, NothingOwedFields
  <2>3. Adds(first, second, whole)
    BY <2>2 DEF Adds
  <2> QED
    BY <2>1, <2>3
<1> QED
  BY <1>1, <1>6

(* What the first window hands on is what is owed at its end.              *)
LEMMA OpeningIsHandedOn ==
  ASSUME NEW side, NEW d \in Int, NEW r, r.balances = Owed(side, d), NEW t
  PROVE  OpeningNet(side, From(t, r)) = d
<1>1. PICK next : next = From(t, r)
  OBVIOUS
<1>2. PICK b \in Balances : b = r.balances
  BY OwedIsBalances
<1>3. /\ b.receivable \in Nat /\ b.payable \in Nat /\ b.borrow = 0 /\ b.refund \in Nat
      /\ b.repayment \in Nat
      /\ side = "LONG" => b.receivable - b.repayment = d
      /\ side # "LONG" => b.payable - b.refund = d
      /\ b = NoBalances <=> d = 0
  BY <1>2, OwedIsBalances DEF Balances
<1>4. CASE d = 0
  <2>1. /\ next.opening.receivable = 0 /\ next.opening.payable = 0
        /\ next.opening.refund = 0 /\ next.opening.repayment = 0
    BY <1>1, <1>2, <1>3, <1>4, WindowFields, ClosingFields
  <2> QED
    BY <1>1, <1>4, <2>1 DEF OpeningNet
<1>5. CASE d # 0
  <2>1. /\ next.opening.receivable = b.receivable /\ next.opening.payable = b.payable + b.borrow
        /\ next.opening.refund = b.refund /\ next.opening.repayment = b.repayment
    BY <1>1, <1>2, <1>3, <1>5, WindowFields, ClosingFields
  <2>2. b.payable + b.borrow = b.payable
    BY <1>3
  <2> QED
    BY <1>1, <1>3, <2>1, <2>2 DEF OpeningNet
<1> QED
  BY <1>4, <1>5

(* Somebody is: the target falls into one of the windows.                  *)
LEMMA TargetInWindows ==
  ASSUME NEW holdings, HoldingsOK(holdings), NEW action, ActionOK(action), NEW side,
         NEW settlements, PaymentsOK(settlements), NEW t \in Nat,
         Entitled(holdings, action, side) # {}
  PROVE  LET first == _distribution_for_side(holdings, action, side, settlements, UpTo(t))
         IN  Adds(first,
                  _distribution_for_side(holdings, action, side, settlements, From(t, first)),
                  _distribution_for_side(holdings, action, side, settlements, Whole))
<1> DEFINE R(w) == _distribution_for_side(holdings, action, side, settlements, w)
           K(w) == KnownResult(holdings, action, side, settlements, w)
           lots == Entitled(holdings, action, side)
           N(w) == Net(Taken(settlements, action, side, w))
           T(w) == Target(lots, action, w)
<1>1. PICK first : first = R(UpTo(t)) /\ ResultOK(first)
  <2>1. OpeningOK(UpTo(t))
    BY WindowFields, OpeningIsNothing DEF OpeningOK, None
  <2> QED
    BY <2>1, DistributionIsOK
<1>2. PICK next : next = From(t, first)
  OBVIOUS
<1> SUFFICES ASSUME first.status = "known", R(next).status = "known", R(Whole).status = "known"
             PROVE  /\ R(next).balances = R(Whole).balances
                    /\ first.cash_delta + R(next).cash_delta = R(Whole).cash_delta
                    /\ first.economic_income + R(next).economic_income = R(Whole).economic_income
  <2> HIDE DEF R
  <2> QED
    BY <1>1, <1>2 DEF Adds, R
<1>3. \A w : ~Idle(lots, action, w)
  BY DEF Idle
<1>4. /\ first = K(UpTo(t)) /\ R(next) = K(next) /\ R(Whole) = K(Whole)
      /\ ~Unusable(Taken(settlements, action, side, UpTo(t)))
      /\ ~Unusable(Taken(settlements, action, side, next))
      /\ ~Unusable(Taken(settlements, action, side, Whole))
  <2>1. first.status = "known" => /\ first = K(UpTo(t))
                                  /\ ~Unusable(Taken(settlements, action, side, UpTo(t)))
    BY <1>1, <1>3, KnownCases
  <2>2. R(next).status = "known" => /\ R(next) = K(next)
                                    /\ ~Unusable(Taken(settlements, action, side, next))
    BY <1>3, KnownCases
  <2>3. R(Whole).status = "known" => /\ R(Whole) = K(Whole)
                                     /\ ~Unusable(Taken(settlements, action, side, Whole))
    BY <1>3, KnownCases
  <2> HIDE DEF R, K
  <2> QED
    BY <2>1, <2>2, <2>3
<1>5. /\ OpeningOK(Whole) /\ OpeningOK(UpTo(t)) /\ OpeningOK(next)
      /\ ~Inherited(Whole) /\ ~Inherited(UpTo(t)) /\ ~Future(action, Whole) /\ ~Future(action, next)
      /\ Future(action, UpTo(t)) <=> action.ex_at > t
      /\ contains(Whole, action.ex_at)
      /\ contains(UpTo(t), action.ex_at) <=> ~ (action.ex_at > t)
      /\ contains(next, action.ex_at) <=> action.ex_at > t
      /\ OpeningNet(side, Whole) = 0 /\ OpeningNet(side, UpTo(t)) = 0
      /\ ~Revised(action, Whole) /\ ~Revised(action, UpTo(t))
  BY <1>1, <1>2, WindowsAreOK
<1> DEFINE Carry(w) ==
             OpeningNet(side, w) + (T(w) - IF Revised(action, w) THEN w.opening.target ELSE 0)
           Parts(w) ==
             /\ N(w) \in Int /\ T(w) \in Nat /\ OpeningNet(side, w) \in Int
             /\ K(w).balances = Owed(side, Carry(w) - N(w))
             /\ K(w).cash_delta = Sign(side) * N(w) /\ K(w).target = T(w)
             /\ K(w).economic_income = IF contains(w, action.ex_at) THEN Sign(side) * T(w) ELSE 0
<1>6. Parts(Whole) /\ Parts(UpTo(t)) /\ Parts(next)
  <2> SUFFICES ASSUME NEW w \in {Whole, UpTo(t), next}
               PROVE  Parts(w)
    <3> HIDE DEF Parts
    <3> QED
      OBVIOUS
  <2>1. OpeningOK(w) /\ ~Unusable(Taken(settlements, action, side, w))
    BY <1>4, <1>5
  <2>2. Delta(lots, action, w) = T(w) - IF Revised(action, w) THEN w.opening.target ELSE 0
    BY DEF Delta
  <2>3. IsKnown(K(w), lots, action, side, w, N(w))
    BY <2>1, KnownParts
  <2> HIDE DEF N, K, lots
  <2> QED
    BY <2>2, <2>3 DEF IsKnown
<1>7. N(Whole) = N(UpTo(t)) + N(next)
  BY <1>2, <1>4, PaymentsOfWindows
<1>8. Rated(action, Whole) <=> ~action.cancelled
  BY <1>5 DEF Rated, Carried
<1> DEFINE x == Sign(side)
<1>9. x \in {1, -1}
  BY DEF Sign
<1>10. CASE ~ (action.ex_at > t)
  <2>1. T(UpTo(t)) = T(Whole)
    BY <1>5, <1>8, <1>10 DEF Target, Rated, Carried
  <2>2. /\ first.balances = Owed(side, 0 + (T(Whole) - 0) - N(UpTo(t)))
        /\ first.target = T(Whole) /\ first.cash_delta = x * N(UpTo(t))
        /\ first.economic_income = x * T(Whole)
    <3> HIDE DEF K, N, T
    <3> QED
      BY <1>4, <1>5, <1>6, <1>10, <2>1
  <2>3. Carry(next) = T(Whole) - N(UpTo(t))
    <3>1. PICK d \in Int : d = T(Whole) - N(UpTo(t)) /\ first.balances = Owed(side, d)
      <4>1. T(Whole) - N(UpTo(t)) \in Int /\ 0 + (T(Whole) - 0) - N(UpTo(t)) = T(Whole) - N(UpTo(t))
        <5> HIDE DEF T, N
        <5> QED
          BY <1>6
      <4> QED
        BY <2>2, <4>1
    <3>2. CASE first.balances = NoBalances
      <4>1. d = 0 /\ next.opening.target = T(Whole) /\ OpeningNet(side, next) = 0
        BY <1>2, <2>2, <3>1, <3>2, OwedIsBalances, WindowFields, ClosingFields DEF OpeningNet
      <4>2. ~Inherited(next)
        BY <1>1, <1>2, <3>2, WindowsAreOK
      <4>3. T(next) = T(Whole)
        BY <1>5, <1>8, <4>2 DEF Target, Rated, Carried
      <4>4. Revised(action, next)
        BY <1>5, <1>6, <1>10, <4>1 DEF Revised, None
      <4> HIDE DEF T, N
      <4> QED
        BY <1>6, <3>1, <4>1, <4>3, <4>4
    <3>3. CASE first.balances # NoBalances
      <4>1. d # 0 /\ next.opening.target = None /\ OpeningNet(side, next) = d
        <5>1. d # 0
          BY <3>1, <3>3, OwedIsBalances
        <5>2. PICK b \in Balances : b = first.balances
          BY <3>1, OwedIsBalances
        <5>3. /\ next.opening.receivable = b.receivable
              /\ next.opening.payable = b.payable + b.borrow /\ next.opening.refund = b.refund
              /\ next.opening.repayment = b.repayment /\ next.opening.target = None
          BY <1>2, <3>3, <5>2, WindowFields, ClosingFields
        <5>4. /\ b.borrow = 0 /\ b.payable + 0 = b.payable
              /\ side = "LONG" => b.receivable - b.repayment = d
              /\ side # "LONG" => b.payable - b.refund = d
          BY <3>1, <5>2, OwedIsBalances DEF Balances
        <5> QED
          BY <5>1, <5>3, <5>4 DEF OpeningNet
      <4>2. Inherited(next)
        <5>1. PICK b \in Balances : b = first.balances
          BY <3>1, OwedIsBalances
        <5>2. b.receivable + b.payable + b.borrow + b.refund + b.repayment # 0
          <6>1. b.receivable # 0 \/ b.payable # 0 \/ b.refund # 0 \/ b.repayment # 0
            BY <3>1, <4>1, <5>1, OwedIsBalances
          <6>2. /\ b.receivable \in Nat /\ b.payable \in Nat /\ b.borrow \in Nat
                /\ b.refund \in Nat /\ b.repayment \in Nat
            BY DEF Balances
          <6>3. PICK i \in Nat, j \in Nat, k \in Nat, l \in Nat, m \in Nat :
                  /\ i = b.receivable /\ j = b.payable /\ k = b.borrow /\ l = b.refund
                  /\ m = b.repayment
            BY <6>2
          <6>4. i # 0 \/ j # 0 \/ l # 0 \/ m # 0
            BY <6>1, <6>3
          <6>5. i + j + k + l + m # 0
            BY <6>4
          <6> QED
            BY <6>3, <6>5
        <5> QED
          BY <1>1, <1>2, <3>3, <5>1, <5>2, WindowsAreOK
      <4>3. T(next) = 0 /\ ~Revised(action, next)
        BY <1>5, <1>10, <4>1, <4>2 DEF Target, Rated, Carried, Revised
      <4> HIDE DEF T, N
      <4> QED
        BY <3>1, <4>1, <4>3
    <3> QED
      BY <3>2, <3>3
  <2>4. /\ K(next).balances = Owed(side, T(Whole) - N(UpTo(t)) - N(next))
        /\ K(next).cash_delta = x * N(next) /\ K(next).economic_income = 0
        /\ K(Whole).balances = Owed(side, 0 + (T(Whole) - 0) - N(Whole))
        /\ K(Whole).cash_delta = x * N(Whole) /\ K(Whole).economic_income = x * T(Whole)
    <3> HIDE DEF K, T, N
    <3>1. /\ K(next).balances = Owed(side, T(Whole) - N(UpTo(t)) - N(next))
          /\ K(next).cash_delta = x * N(next) /\ K(next).economic_income = 0
      <4> DEFINE e == Carry(next)
      <4>1. /\ K(next).balances = Owed(side, e - N(next))
            /\ K(next).cash_delta = Sign(side) * N(next)
            /\ K(next).economic_income =
                 IF contains(next, action.ex_at) THEN Sign(side) * T(next) ELSE 0
        BY <1>6
      <4>2. e = T(Whole) - N(UpTo(t))
        BY <2>3
      <4> HIDE DEF e
      <4> QED
        BY <1>5, <1>10, <4>1, <4>2
    <3>2. /\ K(Whole).balances = Owed(side, 0 + (T(Whole) - 0) - N(Whole))
          /\ K(Whole).cash_delta = x * N(Whole) /\ K(Whole).economic_income = x * T(Whole)
      BY <1>5, <1>6
    <3> QED
      BY <3>1, <3>2
  <2>5. PICK p \in Int, q \in Int, s \in Int, m \in Nat :
          /\ p = N(UpTo(t)) /\ q = N(next) /\ s = N(Whole) /\ s = p + q /\ m = T(Whole)
    <3> HIDE DEF T, N
    <3> QED
      BY <1>6, <1>7
  <2>6. /\ m - p - q = 0 + (m - 0) - s /\ x * p + x * q = x * s /\ x * m + 0 = x * m
    BY <1>9, <2>5
  <2> HIDE DEF K, T, N, R
  <2> QED
    BY <1>4, <2>2, <2>4, <2>5, <2>6
<1>11. CASE action.ex_at > t
  <2>1. T(UpTo(t)) = 0
    BY <1>5, <1>11 DEF Target, Rated
  <2>2. /\ first.balances = Owed(side, 0 + (0 - 0) - N(UpTo(t)))
        /\ first.cash_delta = x * N(UpTo(t)) /\ first.economic_income = 0
    <3> HIDE DEF K, N, T
    <3> QED
      BY <1>4, <1>5, <1>6, <1>11, <2>1
  <2>3. PICK p \in Int, q \in Int, s \in Int, m \in Nat :
          /\ p = N(UpTo(t)) /\ q = N(next) /\ s = N(Whole) /\ s = p + q /\ m = T(Whole)
    <3> HIDE DEF T, N
    <3> QED
      BY <1>6, <1>7
  <2>4. OpeningNet(side, next) = -p
    <3>1. -p \in Int /\ 0 + (0 - 0) - p = -p
      BY <2>3
    <3>2. first.balances = Owed(side, -p)
      <4> HIDE DEF N
      <4> QED
        BY <2>2, <2>3, <3>1
    <3> QED
      BY <1>2, <3>1, <3>2, OpeningIsHandedOn
  <2>5. ~Revised(action, next)
    BY <1>5, <1>11 DEF Revised
  <2>6. T(next) = T(Whole)
    BY <1>5, <1>8, <1>11 DEF Target, Rated, Carried
  <2>7. /\ K(next).balances = Owed(side, -p + (m - 0) - q)
        /\ K(next).cash_delta = x * q /\ K(next).economic_income = x * m
        /\ K(Whole).balances = Owed(side, 0 + (m - 0) - s)
        /\ K(Whole).cash_delta = x * s /\ K(Whole).economic_income = x * m
    <3> HIDE DEF K, T, N
    <3> QED
      BY <1>5, <1>6, <1>11, <2>3, <2>4, <2>5, <2>6
  <2>8. /\ -p + (m - 0) - q = 0 + (m - 0) - s /\ x * p + x * q = x * s /\ 0 + x * m = x * m
    BY <1>9, <2>3
  <2> HIDE DEF K, T, N, R
  <2> QED
    BY <1>4, <2>2, <2>3, <2>7, <2>8
<1> QED
  BY <1>10, <1>11
-----------------------------------------------------------------------------
(* Facts and views. *)

Chosen(all, id) == CHOOSE a \in Accepted(Known(all), id) : TRUE

LEMMA FactFields ==
  /\ \A g \in Actions : \A t :
       /\ DOMAIN g = {"action_id", "ex_at", "per_share", "currency", "cancelled", "revision_id",
                      "supersedes"}
       /\ IsAction(Dated(g, t)) /\ Dated(g, t).knowledge_at = t /\ Undated(Dated(g, t)) = g
       /\ Dated(g, t).action_id = g.action_id /\ Dated(g, t).ex_at = g.ex_at
       /\ Dated(g, t).per_share = g.per_share
  /\ \A g \in Settlements : \A t :
       /\ DOMAIN g = {"payment_id", "action_id", "side", "amount", "occurred_at", "kind", "currency"}
       /\ ~IsAction(Dated(g, t)) /\ Dated(g, t).knowledge_at = t /\ Undated(Dated(g, t)) = g
       /\ Dated(g, t).action_id = g.action_id /\ Dated(g, t).occurred_at = g.occurred_at
       /\ Dated(g, t).amount = g.amount
<1>1. ASSUME NEW g \in Actions, NEW t
      PROVE  /\ DOMAIN g = {"action_id", "ex_at", "per_share", "currency", "cancelled",
                            "revision_id", "supersedes"}
             /\ IsAction(Dated(g, t)) /\ Dated(g, t).knowledge_at = t /\ Undated(Dated(g, t)) = g
             /\ Dated(g, t).action_id = g.action_id /\ Dated(g, t).ex_at = g.ex_at
             /\ Dated(g, t).per_share = g.per_share
  <2>1. /\ DOMAIN g = {"action_id", "ex_at", "per_share", "currency", "cancelled", "revision_id",
                       "supersedes"}
        /\ g = [x \in DOMAIN g |-> g[x]]
    BY ActionsAssumption
  <2> QED
    BY <2>1 DEF Dated, Undated, IsAction
<1>2. ASSUME NEW g \in Settlements, NEW t
      PROVE  /\ DOMAIN g = {"payment_id", "action_id", "side", "amount", "occurred_at", "kind",
                            "currency"}
             /\ ~IsAction(Dated(g, t)) /\ Dated(g, t).knowledge_at = t /\ Undated(Dated(g, t)) = g
             /\ Dated(g, t).action_id = g.action_id /\ Dated(g, t).occurred_at = g.occurred_at
             /\ Dated(g, t).amount = g.amount
  <2>1. /\ DOMAIN g = {"payment_id", "action_id", "side", "amount", "occurred_at", "kind",
                       "currency"}
        /\ g = [x \in DOMAIN g |-> g[x]]
    BY SettlementsAssumption
  <2> QED
    BY <2>1 DEF Dated, Undated, IsAction
<1> QED
  BY <1>1, <1>2

LEMMA FactsAreTyped ==
  ASSUME NEW all, NEW now \in Nat, FactsOK(all, now)
  PROVE  /\ IsFiniteSet(Known(all)) /\ PaymentsOK(Paid(all))
         /\ \A a \in Known(all) : ActionOK(a) /\ a.knowledge_at \in 0..now
         /\ \A s \in Paid(all) : s.knowledge_at \in 0..now
<1>1. ASSUME NEW a \in Known(all)
      PROVE  \E g \in Actions, t \in 0..now : a = Dated(g, t)
  BY FactFields DEF Known, FactsOK, Facts
<1>2. ASSUME NEW s \in Paid(all)
      PROVE  \E g \in Settlements, t \in 0..now : s = Dated(g, t)
  BY FactFields DEF Paid, FactsOK, Facts
<1>3. IsFiniteSet(Known(all)) /\ IsFiniteSet(Paid(all))
  <2>1. Known(all) \in SUBSET all /\ Paid(all) \in SUBSET all
    BY DEF Known, Paid
  <2> QED
    BY <2>1, FS_Subset DEF FactsOK
<1>4. ASSUME NEW a \in Known(all) PROVE ActionOK(a) /\ a.knowledge_at \in 0..now
  <2>1. PICK g \in Actions, t \in 0..now : a = Dated(g, t)
    BY <1>1
  <2>2. g.ex_at \in 0..Forever /\ g.per_share \in Nat \cup {None}
    BY ActionsAssumption
  <2> QED
    BY <2>1, <2>2, FactFields DEF ActionOK
<1>5. ASSUME NEW s \in Paid(all)
      PROVE  /\ s.amount \in Nat \cup {None} /\ s.occurred_at \in 0..Forever
             /\ s.knowledge_at \in 0..now
  <2>1. PICK g \in Settlements, t \in 0..now : s = Dated(g, t)
    BY <1>2
  <2>2. g.amount \in Nat \cup {None} /\ g.occurred_at \in 0..Forever
    BY SettlementsAssumption
  <2>3. s.amount = g.amount /\ s.occurred_at = g.occurred_at /\ s.knowledge_at = t
    BY <2>1, FactFields
  <2> QED
    BY <2>2, <2>3
<1> QED
  BY <1>3, <1>4, <1>5 DEF PaymentsOK

LEMMA AcceptedAreRevisions ==
  ASSUME NEW actions, IsFiniteSet(actions), NEW id
  PROVE  Accepted(actions, id) \subseteq Revisions(actions, id)
<1> DEFINE all == Revisions(actions, id)
           n == Cardinality(all)
<1>1. IsFiniteSet(all) /\ n \in Nat
  <2>1. all \in SUBSET actions
    BY DEF Revisions
  <2> QED
    BY <2>1, FS_Subset, FS_CardinalityType
<1>2. ~ (n <= 1) => \A f \in Chains(all) : f[n] \in all
  <2> HIDE DEF all
  <2> QED
    BY <1>1 DEF Chains
<1> HIDE DEF all, n
<1> QED
  BY <1>2 DEF Accepted, all, n

(* By the eventual view, or now, everything is known.                      *)
LEMMA ViewCases ==
  ASSUME NEW all, NEW now \in Nat, FactsOK(all, now), NEW t \in {Eventually, now}, NEW key,
         key # BorrowKey
  PROVE  \/ \A w : View(all, key, t, w) = NothingOwed /\ Revisions(Known(all), key[1]) = {}
         \/ \A w : View(all, key, t, w) = Unknown("unknown")
         \/ /\ Chosen(all, key[1]) \in Known(all) /\ Chosen(all, key[1]).action_id = key[1]
            /\ Accepted(Known(all), key[1]) # {}
            /\ \A w : View(all, key, t, w) =
                 _distribution_for_side(Holdings, Chosen(all, key[1]), key[2], Paid(all), w)
<1>1. {a \in Known(all) : _known_by(a, t)} = Known(all)
  BY FactsAreTyped DEF _known_by, Eventually, None
<1>2. {s \in Paid(all) : _known_by(s, t)} = Paid(all)
  BY FactsAreTyped DEF _known_by, Eventually, None
<1>3. \A w : View(all, key, t, w) =
        IF Revisions(Known(all), key[1]) = {} THEN NothingOwed
        ELSE IF Accepted(Known(all), key[1]) = {} THEN Unknown("unknown")
        ELSE _distribution_for_side(Holdings, Chosen(all, key[1]), key[2], Paid(all), w)
  <2> SUFFICES ASSUME NEW w
               PROVE  View(all, key, t, w) =
                 IF Revisions(Known(all), key[1]) = {} THEN NothingOwed
                 ELSE IF Accepted(Known(all), key[1]) = {} THEN Unknown("unknown")
                 ELSE _distribution_for_side(Holdings, Chosen(all, key[1]), key[2], Paid(all), w)
    OBVIOUS
  <2>1. PICK known, paid : known = Known(all) /\ paid = Paid(all)
    OBVIOUS
  <2>2. View(all, key, t, w)
          = calculate_distributions(Holdings, known, paid, key[1], key[2], t, w)
    BY <2>1 DEF View
  <2>3. {a \in known : _known_by(a, t)} = known /\ {s \in paid : _known_by(s, t)} = paid
    BY <1>1, <1>2, <2>1
  <2> DEFINE Of(k, p) ==
        IF Revisions(k, key[1]) = {} THEN NothingOwed
        ELSE IF Accepted(k, key[1]) = {} THEN Unknown("unknown")
        ELSE _distribution_for_side(Holdings, CHOOSE a \in Accepted(k, key[1]) : TRUE,
                                    key[2], p, w)
  <2>4. calculate_distributions(Holdings, known, paid, key[1], key[2], t, w) = Of(known, paid)
    <3>1. calculate_distributions(Holdings, known, paid, key[1], key[2], t, w)
            = Of({a \in known : _known_by(a, t)}, {s \in paid : _known_by(s, t)})
      BY DEF calculate_distributions
    <3> HIDE DEF Of
    <3> QED
      BY <2>3, <3>1
  <2> QED
    BY <2>1, <2>2, <2>4 DEF Chosen
<1>4. Accepted(Known(all), key[1]) # {} =>
        Chosen(all, key[1]) \in Known(all) /\ Chosen(all, key[1]).action_id = key[1]
  <2>1. Accepted(Known(all), key[1]) \subseteq Revisions(Known(all), key[1])
    BY FactsAreTyped, AcceptedAreRevisions
  <2>2. Accepted(Known(all), key[1]) # {} => Chosen(all, key[1]) \in Accepted(Known(all), key[1])
    BY DEF Chosen
  <2> QED
    BY <2>1, <2>2 DEF Revisions
<1> QED
  BY <1>3, <1>4

LEMMA HoldingsAreOK == HoldingsOK(Holdings)
  BY HoldingsAssumption DEF HoldingsOK
-----------------------------------------------------------------------------
(* The calculations agree with themselves.                                 *)

LEMMA AllocationsAddUp ==
  ASSUME clock \in Nat, FactsOK(facts, clock)
  PROVE  AllocationAddsUp
<1> SUFFICES ASSUME NEW key \in Keys \ {BorrowKey}, Now(key).lot_allocations # <<>>
             PROVE  /\ SumFunction(Now(key).lot_allocations) = Now(key).target
                    /\ \A lot \in DOMAIN Now(key).lot_allocations : Now(key).target > 0 =>
                         Now(key).lot_allocations[lot] - Shares(key)[lot]
                           \in (-CENT + 1)..(CENT - 1)
  BY Zenon DEF AllocationAddsUp
<1>0. PICK all, now : all = facts /\ now = clock
  OBVIOUS
<1>1. all = facts /\ now = clock /\ now \in Nat /\ FactsOK(all, now)
  BY <1>0
<1>2. PICK action : action = Chosen(all, key[1])
  OBVIOUS
<1>3. Shares(key) = ExactByLot(Entitled(Holdings, action, key[2]), action)
  BY <1>1, <1>2 DEF Shares, Chosen
<1>4. PICK r : r = Now(key)
  OBVIOUS
<1>5. r = View(all, key, now, Whole)
  BY <1>1, <1>4 DEF Now
<1>6. r # NothingOwed /\ r # Unknown("unknown")
  <2>1. r.lot_allocations # <<>>
    BY <1>4
  <2> QED
    BY <2>1, NothingOwedFields, ResultFields DEF Unknown
<1>7. /\ action \in Known(all)
      /\ r = _distribution_for_side(Holdings, action, key[2], Paid(all), Whole)
  BY <1>1, <1>2, <1>5, <1>6, ViewCases
<1>8. ActionOK(action) /\ HoldingsOK(Holdings)
  BY <1>1, <1>7, FactsAreTyped, HoldingsAreOK
<1>9. r.lot_allocations # <<>> =>
        /\ SumFunction(r.lot_allocations) = r.target
        /\ \A lot \in DOMAIN r.lot_allocations : r.target > 0 =>
             r.lot_allocations[lot] - Shares(key)[lot] \in (-CENT + 1)..(CENT - 1)
  BY <1>3, <1>7, <1>8, DistributionAllocates
<1> QED
  BY <1>4, <1>9

LEMMA WindowsMeet ==
  ASSUME NEW all, NEW now \in Nat, FactsOK(all, now), NEW key, key # BorrowKey, NEW t \in Nat,
         ~Unearned(all, key)
  PROVE  LET first == View(all, key, Eventually, UpTo(t))
         IN  Adds(first, View(all, key, Eventually, From(t, first)),
                  View(all, key, Eventually, Whole))
<1> DEFINE V(w) == View(all, key, Eventually, w)
<1>1. CASE \A w : V(w) = NothingOwed
  <2>1. Adds(NothingOwed, NothingOwed, NothingOwed)
    BY NothingOwedFields DEF Adds
  <2> HIDE DEF V
  <2>2. Adds(V(UpTo(t)), V(From(t, V(UpTo(t)))), V(Whole))
    BY <1>1, <2>1
  <2> QED
    BY <2>2 DEF V
<1>2. CASE V(UpTo(t)).status # "known"
  BY <1>2 DEF Adds
<1>3. ASSUME \E w : V(w) # NothingOwed, V(UpTo(t)).status = "known"
      PROVE  Adds(V(UpTo(t)), V(From(t, V(UpTo(t)))), V(Whole))
  <2>1. Unknown("unknown").status # "known"
    BY ResultFields DEF Unknown
  <2>2. PICK action, side, paid :
          /\ action = Chosen(all, key[1]) /\ action \in Known(all) /\ side = key[2]
          /\ paid = Paid(all) /\ Accepted(Known(all), key[1]) # {}
          /\ \A w : V(w) = _distribution_for_side(Holdings, action, side, paid, w)
    BY <1>3, <2>1, ViewCases
  <2>3. HoldingsOK(Holdings) /\ ActionOK(action) /\ PaymentsOK(paid)
    BY <2>2, HoldingsAreOK, FactsAreTyped
  <2>8. Entitled(Holdings, action, side) = {} =>
          \A s \in Matched(paid, action, side) : s.occurred_at >= action.ex_at
    <3>1. action \in Accepted(Known(all), key[1])
      BY <2>2 DEF Chosen
    <3>2. \A s \in Matched(paid, action, side) : s.occurred_at \in Nat /\ action.ex_at \in Nat
      BY <2>3, ForeverIsNat DEF Matched, PaymentsOK, ActionOK
    <3> QED
      BY <2>2, <3>1, <3>2 DEF Unearned
  <2> DEFINE R(w) == _distribution_for_side(Holdings, action, side, paid, w)
  <2>4. R(UpTo(t)).status = "known"
    BY <1>3, <2>2
  <2>5. Adds(R(UpTo(t)), R(From(t, R(UpTo(t)))), R(Whole))
    <3>1. CASE Entitled(Holdings, action, side) = {}
      BY <2>3, <2>4, <2>8, <3>1, NothingInWindows
    <3>2. CASE Entitled(Holdings, action, side) # {}
      BY <2>3, <3>2, TargetInWindows
    <3> QED
      BY <3>1, <3>2
  <2>6. \A w : V(w) = R(w)
    BY <2>2
  <2> HIDE DEF V, R
  <2> QED
    BY <2>5, <2>6
<1> QED
  BY <1>1, <1>2, <1>3
-----------------------------------------------------------------------------
(* Borrow fees.                                                            *)

Fees(interval, settlements, w, t) ==
  {s \in {x \in settlements : x.action_id = interval.interval_id} :
     _known_by(s, t) /\ contains(w, s.occurred_at)}
FeeDue(interval, exact) == round_cents(exact + interval.days * interval.daily)
FeeOwed(interval, w, exact, target, net) ==
  IF w = Whole THEN FeeDue(interval, exact) - (0 + net)
  ELSE w.opening.payable - w.opening.refund
         + (FeeDue(interval, exact) - round_cents(target)) - net
KnownFee(interval, settlements, w, t, exact, target) ==
  LET payments == Fees(interval, settlements, w, t)
      owed == FeeOwed(interval, w, exact, target, Net(payments))
  IN  Result("known", interval.quantity, FeeDue(interval, exact), 0 + Net(payments),
             -Net(payments), -(FeeDue(interval, exact) - round_cents(target)),
             [NoBalances EXCEPT !.borrow = positive(owed), !.refund = positive(-owed)],
             cumulative_postings(interval.daily, interval.days, exact, target),
             {p.payment_id : p \in payments})

LEMMA BorrowCases ==
  ASSUME NEW interval, NEW settlements, NEW w, NEW t, NEW exact, NEW target
  PROVE  LET r == calculate_borrow(interval, settlements, w, t, exact, target, 0)
             nothing == interval.days = 0 \/ interval.quantity = 0
         IN  \/ nothing /\ r = NothingOwed
             \/ ~nothing /\ r = Unknown("unknown")
             \/ /\ ~nothing /\ interval.daily # None
                /\ ~Unusable(Fees(interval, settlements, w, t))
                /\ r = KnownFee(interval, settlements, w, t, exact, target)
  BY Zenon DEF calculate_borrow, KnownFee, Fees, FeeDue, FeeOwed

(* Differences add up to the difference of the ends.                       *)
LEMMA Telescope ==
  ASSUME NEW n \in Nat, NEW f, NEW G, DOMAIN f = 1..n, \A i \in 0..n : G[i] \in Int,
         \A i \in 1..n : f[i] = G[i] - G[i - 1]
  PROVE  SumFunction(f) = G[n] - G[0]
<1> DEFINE P(k) == Sum(f, 1..k) = G[k] - G[0]
           Bad == {k \in 0..n : ~P(k)}
<1>1. IntOn(f, 1..n)
  <2>1. IsFiniteSet(1..n)
    BY FS_Interval
  <2>2. \A i \in 1..n : i \in 0..n /\ i - 1 \in 0..n
    OBVIOUS
  <2>3. \A i \in 1..n : f[i] \in Int
    BY <2>2
  <2> QED
    BY <2>1, <2>3 DEF IntOn
<1>2. ASSUME NEW k \in Nat, Least(Bad, k) PROVE FALSE
  <2>1. k \in 0..n /\ ~P(k) /\ (k # 0 => k - 1 \in 0..n /\ P(k - 1))
    BY <1>2 DEF Least
  <2>2. CASE k = 0
    <3>1. 1..0 = {} /\ G[0] \in Int
      OBVIOUS
    <3>2. Sum(f, {}) = 0
      BY <1>1, SumOfNothing DEF IntOn
    <3>3. Sum(f, 1..0) = G[0] - G[0]
      BY <3>1, <3>2
    <3> QED
      BY <2>1, <2>2, <3>3
  <2>3. CASE k # 0
    <3>1. 1..k = (1..(k - 1)) \cup {k} /\ k \notin 1..(k - 1) /\ 1..k \subseteq 1..n
      BY <2>1, <2>3
    <3>2. IntOn(f, (1..(k - 1)) \cup {k})
      BY <1>1, <3>1 DEF IntOn
    <3>3. Sum(f, 1..k) = Sum(f, 1..(k - 1)) + f[k]
      <4>1. PICK s : s = 1..(k - 1)
        OBVIOUS
      <4>2. IntOn(f, s \cup {k}) /\ k \notin s
        BY <3>1, <3>2, <4>1
      <4>3. Sum(f, s \cup {k}) = Sum(f, s) + f[k]
        BY <4>2, SumGrows
      <4> QED
        BY <3>1, <4>1, <4>3
    <3>4. G[k] \in Int /\ G[k - 1] \in Int /\ G[0] \in Int /\ f[k] = G[k] - G[k - 1]
      BY <2>1, <2>3
    <3>5. Sum(f, 1..(k - 1)) = G[k - 1] - G[0]
      BY <2>1, <2>3
    <3>6. Sum(f, 1..k) = G[k] - G[0]
      BY <3>3, <3>4, <3>5
    <3> QED
      BY <2>1, <3>6
  <2> QED
    BY <2>2, <2>3
<1>3. Bad = {}
  <2>1. Bad \subseteq Nat
    OBVIOUS
  <2> HIDE DEF Bad
  <2> QED
    BY <1>2, <2>1, LeastOf
<1>4. P(n)
  BY <1>3
<1> QED
  BY <1>4, SumIs

LEMMA PostingsAddUp ==
  ASSUME NEW daily \in Nat, NEW days \in Nat \ {0}, NEW exact \in Int, NEW target \in Int,
         round_cents(target) = round_cents(exact)
  PROVE  SumFunction(cumulative_postings(daily, days, exact, target))
           = round_cents(exact + days * daily) - round_cents(target)
<1> DEFINE G == [i \in 0..days |-> round_cents(exact + i * daily)]
           f == cumulative_postings(daily, days, exact, target)
<1>1. \A i \in 0..days : G[i] \in Int
  <2> SUFFICES ASSUME NEW i \in 0..days PROVE round_cents(exact + i * daily) \in Int
    OBVIOUS
  <2>1. exact + i * daily \in Int
    OBVIOUS
  <2> QED
    BY <2>1, Rounding
<1>2. DOMAIN f = 1..days
  BY DEF cumulative_postings
<1>3. \A i \in 1..days : f[i] = G[i] - G[i - 1]
  <2> SUFFICES ASSUME NEW i \in 1..days PROVE f[i] = G[i] - G[i - 1]
    OBVIOUS
  <2>1. i \in 0..days /\ i - 1 \in 0..days
    OBVIOUS
  <2>2. f[i] = round_cents(exact + i * daily)
                 - IF i = 1 THEN round_cents(target) ELSE round_cents(exact + (i - 1) * daily)
    BY DEF cumulative_postings
  <2>3. i = 1 => exact + (i - 1) * daily = exact
    OBVIOUS
  <2> QED
    BY <2>1, <2>2, <2>3
<1>4. G[days] = round_cents(exact + days * daily) /\ G[0] = round_cents(exact)
  <2>1. exact + 0 * daily = exact /\ days \in 0..days /\ 0 \in 0..days
    OBVIOUS
  <2> QED
    BY <2>1
<1> HIDE DEF G, f
<1>5. SumFunction(f) = G[days] - G[0]
  BY <1>1, <1>2, <1>3, Telescope
<1> QED
  BY <1>4, <1>5 DEF f
FeeBalances(owed) == [NoBalances EXCEPT !.borrow = positive(owed), !.refund = positive(-owed)]

LEMMA FeeBalancesAreOK ==
  ASSUME NEW owed \in Int
  PROVE  /\ FeeBalances(owed) \in Balances /\ (FeeBalances(owed) = NoBalances <=> owed = 0)
         /\ FeeBalances(owed).borrow - FeeBalances(owed).refund = owed
         /\ FeeBalances(owed).payable = 0 /\ FeeBalances(owed).receivable = 0
         /\ FeeBalances(owed).repayment = 0
<1>1. PICK b \in Nat, r \in Nat : b = positive(owed) /\ r = positive(-owed)
  BY DEF positive, Larger
<1>2. b - r = owed /\ (b = 0 /\ r = 0 <=> owed = 0)
  BY <1>1 DEF positive, Larger
<1>3. FeeBalances(owed) = [NoBalances EXCEPT !.borrow = b, !.refund = r]
  BY <1>1 DEF FeeBalances
<1>4. FeeBalances(owed) = [cash |-> 0, receivable |-> 0, payable |-> 0, borrow |-> b,
                           refund |-> r, repayment |-> 0]
  BY <1>3 DEF NoBalances
<1> QED
  BY <1>2, <1>4 DEF Balances, NoBalances

LEMMA FeeFields ==
  ASSUME NEW interval, NEW settlements, NEW w, NEW t, NEW exact, NEW target
  PROVE  LET r == KnownFee(interval, settlements, w, t, exact, target)
             net == Net(Fees(interval, settlements, w, t))
         IN  /\ r.status = "known" /\ r.target = FeeDue(interval, exact) /\ r.cash_delta = -net
             /\ r.economic_income = -(FeeDue(interval, exact) - round_cents(target))
             /\ r.balances = FeeBalances(FeeOwed(interval, w, exact, target, net))
             /\ r.lot_allocations
                  = cumulative_postings(interval.daily, interval.days, exact, target)
             /\ r.settled = 0 + net
  BY ResultFields DEF KnownFee, FeeBalances

(* The same interval, of other days. *)
For(days) == [Interval EXCEPT !.days = days]

LEMMA ForFields ==
  ASSUME NEW d
  PROVE  /\ For(d).days = d /\ For(d).quantity = Interval.quantity
         /\ For(d).daily = Interval.daily /\ For(d).interval_id = Interval.interval_id
  BY IntervalAssumption DEF For

LEMMA FeesOfParts ==
  ASSUME NEW paid, PaymentsOK(paid), NEW d \in 1..(Interval.days - 1), NEW r,
         NEW i \in Nat, NEW j \in Nat, NEW k \in Nat
  PROVE  LET early == Fees(For(i), paid, UpTo(d), Eventually)
             late == Fees(For(j), paid, From(d, r), Eventually)
             all == Fees(For(k), paid, Whole, Eventually)
         IN  /\ ~Unusable(all) => /\ Net(all) = Net(early) + Net(late)
                                 /\ Net(early) \in Int /\ Net(late) \in Int
             /\ UpTo(d) # Whole /\ From(d, r) # Whole
<1> DEFINE early == Fees(For(i), paid, UpTo(d), Eventually)
           late == Fees(For(j), paid, From(d, r), Eventually)
           all == Fees(For(k), paid, Whole, Eventually)
<1>1. Interval.days \in 0..Forever /\ d \in Nat /\ d < Interval.days /\ d # Forever
  BY IntervalAssumption, ForeverIsNat
<1>2. \A s \in paid : /\ contains(Whole, s.occurred_at)
                      /\ contains(UpTo(d), s.occurred_at) <=> s.occurred_at <= d
                      /\ contains(From(d, r), s.occurred_at) <=> ~ (s.occurred_at <= d)
  BY <1>1, WindowFields, ForeverIsNat DEF contains, PaymentsOK, None
<1>3. all \in SUBSET paid /\ early \cup late = all /\ early \cap late = {}
  BY <1>2, ForFields DEF Fees, _known_by
<1>4. ~Unusable(all) => /\ Net(all) = Net(early) + Net(late)
                        /\ Net(early) \in Int /\ Net(late) \in Int
  <2> HIDE DEF all, early, late
  <2>1. PaymentsOK(all) /\ PaymentsOK(early) /\ PaymentsOK(late)
    BY <1>3, FS_Subset DEF PaymentsOK
  <2>2. ~Unusable(all) => ~Unusable(early) /\ ~Unusable(late)
    BY <1>3 DEF Unusable, Conflicting
  <2> QED
    BY <1>3, <2>1, <2>2, NetOfWindows, NetIsInt
<1>5. UpTo(d) # Whole /\ From(d, r) # Whole
  <2>1. d # Forever /\ d # None
    BY <1>1 DEF None
  <2> QED
    BY <2>1, WindowFields
<1> QED
  BY <1>4, <1>5

(* Each cent of the fee falls into one of the two parts.                   *)
LEMMA BorrowIsCarriedOn ==
  ASSUME clock \in Nat, FactsOK(facts, clock)
  PROVE  BorrowCarriesOn
<1> SUFFICES ASSUME NEW days \in 1..(Interval.days - 1)
             PROVE  LET first == Part(days, UpTo(days), 0, 0)
                        second == Part(Interval.days - days, From(days, first),
                                       days * Interval.daily, first.target)
                        whole == Part(Interval.days, Whole, 0, 0)
                    IN  /\ Adds(first, second, whole)
                        /\ {first.status, second.status, whole.status} = {"known"} =>
                             SumFunction(first.lot_allocations)
                               + SumFunction(second.lot_allocations) = whole.target
  BY Zenon DEF BorrowCarriesOn
<1>1. PICK paid, rest, first, second, whole :
        /\ paid = Paid(facts) /\ rest = Interval.days - days
        /\ first = Part(days, UpTo(days), 0, 0)
        /\ second = Part(rest, From(days, first), days * Interval.daily, first.target)
        /\ whole = Part(Interval.days, Whole, 0, 0)
  OBVIOUS
<1> SUFFICES /\ Adds(first, second, whole)
             /\ {first.status, second.status, whole.status} = {"known"} =>
                  SumFunction(first.lot_allocations) + SumFunction(second.lot_allocations)
                    = whole.target
  BY <1>1
<1> SUFFICES ASSUME first.status = "known", second.status = "known", whole.status = "known"
             PROVE  /\ second.balances = whole.balances
                    /\ first.cash_delta + second.cash_delta = whole.cash_delta
                    /\ first.economic_income + second.economic_income = whole.economic_income
                    /\ SumFunction(first.lot_allocations) + SumFunction(second.lot_allocations)
                         = whole.target
  BY DEF Adds
<1>2. PaymentsOK(paid)
  <2>1. PICK all, now : all = facts /\ now = clock
    OBVIOUS
  <2>2. now \in Nat /\ FactsOK(all, now) /\ paid = Paid(all)
    BY <1>1, <2>1
  <2> QED
    BY <2>2, FactsAreTyped
<1>3. PICK n \in Nat : n = Interval.days /\ days \in Nat \ {0} /\ rest \in Nat \ {0} /\ n # 0
                       /\ days + rest = n
  <2>1. Interval.days \in Nat
    BY IntervalAssumption, ForeverIsNat
  <2> QED
    BY <1>1, <2>1
<1>4. CASE Interval.quantity = 0
  <2>1. first = NothingOwed /\ second = NothingOwed /\ whole = NothingOwed
    BY <1>1, <1>4, ForFields, Zenon DEF Part, calculate_borrow, For
  <2>2. SumFunction(<<>>) = 0
    <3>1. DOMAIN <<>> = {}
      OBVIOUS
    <3> QED
      BY <3>1, SumIs, SumOfNothing, FS_EmptySet
  <2> QED
    BY <2>1, <2>2, NothingOwedFields
<1>5. CASE Interval.quantity # 0
  <2>1. Unknown("unknown").status # "known"
    BY ResultFields DEF Unknown
  <2>2. /\ Interval.daily # None
        /\ first = KnownFee(For(days), paid, UpTo(days), Eventually, 0, 0)
        /\ ~Unusable(Fees(For(days), paid, UpTo(days), Eventually))
    <3>1. first = calculate_borrow(For(days), paid, UpTo(days), Eventually, 0, 0, 0)
      BY <1>1 DEF Part, For
    <3> QED
      BY <1>3, <1>5, <2>1, <3>1, ForFields, BorrowCases
  <2>3. PICK exact, target : exact = days * Interval.daily /\ target = first.target
    OBVIOUS
  <2>4. /\ second = KnownFee(For(rest), paid, From(days, first), Eventually, exact, target)
        /\ ~Unusable(Fees(For(rest), paid, From(days, first), Eventually))
    <3>1. second = calculate_borrow(For(rest), paid, From(days, first), Eventually, exact, target,
                                    0)
      BY <1>1, <2>3 DEF Part, For
    <3> QED
      BY <1>3, <1>5, <2>1, <3>1, ForFields, BorrowCases
  <2>5. /\ whole = KnownFee(For(n), paid, Whole, Eventually, 0, 0)
        /\ ~Unusable(Fees(For(n), paid, Whole, Eventually))
    <3>1. whole = calculate_borrow(For(n), paid, Whole, Eventually, 0, 0, 0)
      BY <1>1, <1>3 DEF Part, For
    <3> QED
      BY <1>3, <1>5, <2>1, <3>1, ForFields, BorrowCases
  <2>6. PICK daily \in Nat : daily = Interval.daily
    BY <2>2, IntervalAssumption
  <2>7. PICK net \in Int, past \in Int, left \in Int :
          /\ net = Net(Fees(For(n), paid, Whole, Eventually))
          /\ past = Net(Fees(For(days), paid, UpTo(days), Eventually))
          /\ left = Net(Fees(For(rest), paid, From(days, first), Eventually))
          /\ net = past + left
    <3>1. days \in Nat /\ rest \in Nat
      BY <1>3
    <3>2. PICK p, q, m : /\ m = Net(Fees(For(n), paid, Whole, Eventually))
                         /\ p = Net(Fees(For(days), paid, UpTo(days), Eventually))
                         /\ q = Net(Fees(For(rest), paid, From(days, first), Eventually))
      OBVIOUS
    <3>3. m = p + q /\ p \in Int /\ q \in Int
      BY <1>2, <1>3, <2>5, <3>1, <3>2, FeesOfParts
    <3> QED
      BY <3>2, <3>3
  <2>9. UpTo(days) # Whole /\ From(days, first) # Whole
    BY <1>2, <1>3, FeesOfParts
  <2>10. PICK due \in Int, all \in Int :
           /\ due = round_cents(exact) /\ all = round_cents(n * daily)
           /\ exact \in Int /\ exact + rest * daily = n * daily
           /\ FeeDue(For(days), 0) = due /\ FeeDue(For(rest), exact) = all
           /\ FeeDue(For(n), 0) = all /\ target = due /\ round_cents(due) = due
    <3>1. /\ exact \in Int /\ exact + rest * daily = n * daily /\ n * daily \in Int
          /\ 0 + days * daily = exact /\ 0 + n * daily = n * daily
      <4>1. exact = days * daily
        BY <2>3, <2>6
      <4>2. days * daily \in Int /\ rest * daily \in Int /\ n * daily \in Int
        BY <1>3
      <4>3. days * daily + rest * daily = (days + rest) * daily
        BY <1>3
      <4> QED
        BY <1>3, <4>1, <4>2, <4>3
    <3>2. round_cents(exact) \in Int /\ round_cents(n * daily) \in Int
          /\ round_cents(round_cents(exact)) = round_cents(exact)
      BY <3>1, Rounding, RoundingOfCents
    <3>3. /\ FeeDue(For(days), 0) = round_cents(exact)
          /\ FeeDue(For(rest), exact) = round_cents(n * daily)
          /\ FeeDue(For(n), 0) = round_cents(n * daily)
      BY <2>6, <3>1, ForFields DEF FeeDue
    <3>4. target = round_cents(exact)
      BY <2>2, <2>3, <3>3, FeeFields
    <3> QED
      BY <3>1, <3>2, <3>3, <3>4
  <2>11. round_cents(0) = 0
    BY ZeroIsCents
  <2>12. PICK o : o = From(days, first).opening /\ o.payable - o.refund = due - past
    <3>0. PICK owed \in Int : owed = due - past
      OBVIOUS
    <3>1. first.balances = FeeBalances(owed)
      <4>1. FeeOwed(For(days), UpTo(days), 0, 0, past) = 0 - 0 + (due - 0) - past
        BY <2>9, <2>10, <2>11, WindowFields, OpeningIsNothing DEF FeeOwed
      <4>2. 0 - 0 + (due - 0) - past = owed
        BY <3>0
      <4> QED
        BY <2>2, <2>7, <4>1, <4>2, FeeFields
    <3>2. CASE first.balances = NoBalances
      <4>1. owed = 0
        BY <3>1, <3>2, FeeBalancesAreOK
      <4> QED
        BY <3>0, <3>2, <4>1, WindowFields, ClosingFields
    <3>3. CASE first.balances # NoBalances
      <4>1. PICK b \in Balances : b = FeeBalances(owed)
        BY FeeBalancesAreOK
      <4>2. b.payable = 0 /\ b.borrow \in Nat /\ b.refund \in Nat /\ b.borrow - b.refund = owed
        BY <4>1, FeeBalancesAreOK DEF Balances
      <4>3. 0 + b.borrow - b.refund = owed
        BY <4>2
      <4> QED
        BY <3>0, <3>1, <3>3, <4>1, <4>2, <4>3, WindowFields, ClosingFields
    <3> QED
      BY <3>2, <3>3
  <2>16. /\ whole.balances = FeeBalances(FeeOwed(For(n), Whole, 0, 0, net))
         /\ whole.cash_delta = -net
         /\ whole.economic_income = -(FeeDue(For(n), 0) - round_cents(0))
    <3>1. PICK w, fees : w = Whole /\ fees = Net(Fees(For(n), paid, w, Eventually))
      OBVIOUS
    <3>2. whole = KnownFee(For(n), paid, w, Eventually, 0, 0) /\ fees = net
      BY <2>5, <2>7, <3>1
    <3>3. /\ whole.balances = FeeBalances(FeeOwed(For(n), w, 0, 0, fees))
          /\ whole.cash_delta = -fees
          /\ whole.economic_income = -(FeeDue(For(n), 0) - round_cents(0))
      <4>1. PICK i, z : i = For(n) /\ z = 0
        OBVIOUS
      <4>2. whole = KnownFee(i, paid, w, Eventually, z, z)
        BY <3>2, <4>1
      <4>3. /\ whole.balances
                 = FeeBalances(FeeOwed(i, w, z, z, Net(Fees(i, paid, w, Eventually))))
            /\ whole.cash_delta = -Net(Fees(i, paid, w, Eventually))
            /\ whole.economic_income = -(FeeDue(i, z) - round_cents(z))
        BY <4>2, FeeFields
      <4> QED
        BY <3>1, <3>2, <4>1, <4>3
    <3> QED
      BY <3>1, <3>2, <3>3
  <2>13. second.balances = whole.balances
    <3>1. FeeOwed(For(rest), From(days, first), exact, target, left)
            = (due - past) + (all - due) - left
      BY <2>9, <2>10, <2>12 DEF FeeOwed
    <3>2. FeeOwed(For(n), Whole, 0, 0, net) = all - (0 + net)
      BY <2>10 DEF FeeOwed
    <3>3. (due - past) + (all - due) - left = all - (0 + net)
      BY <2>7
    <3>4. second.balances = FeeBalances(FeeOwed(For(rest), From(days, first), exact, target, left))
      BY <2>4, <2>7, FeeFields
    <3>5. whole.balances = FeeBalances(FeeOwed(For(n), Whole, 0, 0, net))
      BY <2>16
    <3> QED
      BY <3>1, <3>2, <3>3, <3>4, <3>5
  <2>14. /\ first.cash_delta + second.cash_delta = whole.cash_delta
         /\ first.economic_income + second.economic_income = whole.economic_income
    <3>1. /\ first.cash_delta = -past /\ second.cash_delta = -left /\ whole.cash_delta = -net
          /\ first.economic_income = -(due - 0) /\ second.economic_income = -(all - due)
          /\ whole.economic_income = -(all - 0)
      <4>1. first.cash_delta = -past /\ first.economic_income = -(due - 0)
        BY <2>2, <2>7, <2>10, <2>11, FeeFields
      <4>2. second.cash_delta = -left /\ second.economic_income = -(all - due)
        BY <2>4, <2>7, <2>10, FeeFields
      <4>3. whole.cash_delta = -net /\ whole.economic_income = -(all - 0)
        BY <2>10, <2>11, <2>16
      <4> QED
        BY <4>1, <4>2, <4>3
    <3> QED
      BY <2>7, <3>1
  <2>15. SumFunction(first.lot_allocations) + SumFunction(second.lot_allocations) = whole.target
    <3>1. SumFunction(first.lot_allocations) = due - 0
      <4>1. SumFunction(cumulative_postings(daily, days, 0, 0))
              = round_cents(0 + days * daily) - round_cents(0)
        <5>1. 0 \in Int /\ days \in Nat \ {0} /\ round_cents(0) = round_cents(0)
          BY <1>3
        <5> QED
          BY <5>1, PostingsAddUp, Zenon
      <4>2. round_cents(0 + days * daily) = due
        BY <2>6, <2>10, ForFields DEF FeeDue
      <4> QED
        BY <2>2, <2>6, <2>11, <4>1, <4>2, FeeFields, ForFields
    <3>2. SumFunction(second.lot_allocations) = all - due
      <4>1. SumFunction(cumulative_postings(daily, rest, exact, target))
              = round_cents(exact + rest * daily) - round_cents(target)
        <5>1. /\ exact \in Int /\ target \in Int /\ rest \in Nat \ {0}
              /\ round_cents(target) = round_cents(exact)
          BY <1>3, <2>10
        <5> QED
          BY <5>1, PostingsAddUp, Zenon
      <4> QED
        BY <2>4, <2>6, <2>10, <4>1, FeeFields, ForFields
    <3>3. whole.target = all
      BY <2>5, <2>10, FeeFields
    <3> QED
      BY <3>1, <3>2, <3>3
  <2> QED
    BY <2>13, <2>14, <2>15
<1> QED
  BY <1>4, <1>5
(* While facts become known, whichever and in whatever order: the lots get *)
(* the rounded total to the cent, two windows that meet give what one      *)
(* window gives, and so do two parts of a borrow fee.                      *)
THEOREM BookIsSoundHolds == Spec => []BookIsSound
<1>1. ScenarioInv => BookIsSound
  <2> SUFFICES ASSUME ScenarioInv, pc = "scenario"
               PROVE  AllocationAddsUp /\ WindowsCompose /\ BorrowCarriesOn
    BY DEF BookIsSound
  <2>1. clock \in Nat /\ FactsOK(facts, clock)
    BY BarsAssumption DEF ScenarioInv
  <2>2. WindowsCompose
    <3>1. PICK all, now : all = facts /\ now = clock
      OBVIOUS
    <3>2. now \in Nat /\ FactsOK(all, now)
      BY <2>1, <3>1
    <3>3. ASSUME NEW key \in Keys \ {BorrowKey}, NEW t \in 0..Horizon, ~Unearned(all, key)
          PROVE  LET first == View(all, key, Eventually, UpTo(t))
                 IN  Adds(first, View(all, key, Eventually, From(t, first)),
                          View(all, key, Eventually, Whole))
      BY <3>2, <3>3, BarsAssumption, WindowsMeet
    <3> QED
      BY <3>1, <3>3 DEF WindowsCompose
  <2> QED
    BY <2>1, <2>2, AllocationsAddUp, BorrowIsCarriedOn
<1> QED
  BY <1>1, ScenarioInvariant, PTL
-----------------------------------------------------------------------------
(* What the adapters make of a result.                                     *)

Columns == {"cash", "receivable", "payable", "borrow", "refund", "repayment"}
Deltas == [Columns -> Int]
EventFields == {"key", "revision", "knowledge_at", "kind", "payment", "named", "occurred_at",
                "unavailable", "deltas"}
EventOK(e) ==
  /\ DOMAIN e = EventFields /\ e = [x \in EventFields |-> e[x]]
  /\ e.key \in Keys /\ e.knowledge_at \in Nat /\ e.occurred_at \in Nat /\ e.deltas \in Deltas
  /\ e.unavailable \in BOOLEAN /\ (e.unavailable => e.deltas = NoBalances /\ e.payment = None)
Prior == [status : {"known", "unknown"}, settled : Int, balances : Balances]
PostedOK ==
  /\ posted \in [Keys -> Prior]
  /\ \A key \in Keys : key # BorrowKey /\ Revisions(Known(facts), key[1]) = {} =>
       posted[key] = prior(NothingOwed)

LEMMA BalancesAreDeltas ==
  /\ Balances \subseteq Deltas /\ NoBalances \in Deltas /\ DOMAIN NoBalances = Columns
  /\ NoBalances \in Balances
  /\ \A c \in Columns : NoBalances[c] = 0
<1>1. NoBalances = [c \in Columns |-> 0]
  BY DEF NoBalances, Columns
<1>2. ASSUME NEW b \in Balances PROVE b \in Deltas
  BY DEF Balances, Deltas, Columns
<1>3. NoBalances \in Balances
  BY DEF NoBalances, Balances
<1> QED
  BY <1>1, <1>2, <1>3 DEF Deltas

LEMMA DeltasAdd ==
  ASSUME NEW a \in Deltas, NEW b \in Deltas, NEW x \in Int
  PROVE  /\ Plus(a, b) \in Deltas /\ Minus(a, b) \in Deltas
         /\ \A c \in Columns : Plus(a, b)[c] = a[c] + b[c]
         /\ [Minus(a, b) EXCEPT !.cash = x] \in Deltas
         /\ [a EXCEPT !.cash = x] \in Deltas
<1>1. /\ Plus(a, b) = [c \in Columns |-> a[c] + b[c]]
      /\ Minus(a, b) = [c \in Columns |-> a[c] - b[c]]
      /\ \A c \in Columns : a[c] \in Int /\ b[c] \in Int
  BY DEF Plus, Minus, Deltas
<1>2. \A c \in Columns : a[c] + b[c] \in Int /\ a[c] - b[c] \in Int
  BY <1>1
<1>3. Plus(a, b) \in Deltas /\ Minus(a, b) \in Deltas
  BY <1>1, <1>2 DEF Deltas
<1>4. ASSUME NEW d \in Deltas PROVE [d EXCEPT !.cash = x] \in Deltas
  BY DEF Deltas
<1> QED
  BY <1>1, <1>3, <1>4

LEMMA FeesAreOK ==
  ASSUME NEW paid, PaymentsOK(paid), NEW t
  PROVE  ResultOK(calculate_borrow(Interval, paid, Whole, t, 0, 0, 0))
<1> DEFINE r == calculate_borrow(Interval, paid, Whole, t, 0, 0, 0)
<1>1. CASE r = NothingOwed
  BY <1>1, NothingOwedFields, BalancesAreDeltas DEF ResultOK
<1>2. CASE r = Unknown("unknown")
  BY <1>2, ResultFields, BalancesAreDeltas DEF ResultOK, Unknown
<1>3. ASSUME r # NothingOwed, r # Unknown("unknown") PROVE ResultOK(r)
  <2>1. PICK fees, z : fees = Fees(Interval, paid, Whole, t) /\ z = 0
    OBVIOUS
  <2>2. /\ r = KnownFee(Interval, paid, Whole, t, z, z) /\ Interval.daily # None
        /\ ~Unusable(fees)
    BY <1>3, <2>1, BorrowCases
  <2>3. PICK net \in Int : net = Net(fees)
    <3>1. fees \in SUBSET paid
      BY <2>1 DEF Fees
    <3>2. PaymentsOK(fees)
      BY <3>1, FS_Subset DEF PaymentsOK
    <3> QED
      BY <2>2, <3>2, NetIsInt
  <2>4. PICK due \in Int : due = FeeDue(Interval, z)
    <3>1. PICK daily \in Nat, days \in Nat : daily = Interval.daily /\ days = Interval.days
      BY <2>2, IntervalAssumption, ForeverIsNat
    <3>2. z + days * daily \in Int
      BY <2>1
    <3> QED
      BY <3>1, <3>2, Rounding DEF FeeDue
  <2>5. round_cents(z) = 0
    BY <2>1, ZeroIsCents
  <2>6. PICK owed \in Int : owed = FeeOwed(Interval, Whole, z, z, net)
    <3>1. FeeOwed(Interval, Whole, z, z, net) = due - (0 + net)
      BY <2>4 DEF FeeOwed
    <3> QED
      BY <3>1
  <2>7. /\ r.status = "known" /\ r.target = due /\ r.cash_delta = -net
        /\ r.economic_income = -(due - 0) /\ r.balances = FeeBalances(owed)
        /\ r.settled = 0 + net
    BY <2>1, <2>2, <2>3, <2>4, <2>5, <2>6, FeeFields
  <2> HIDE DEF r
  <2>8. r.cash_delta \in Int /\ r.economic_income \in Int /\ r.settled \in Int
    BY <2>7
  <2> QED
    BY <2>7, <2>8, FeeBalancesAreOK DEF ResultOK
<1> QED
  BY <1>1, <1>2, <1>3

LEMMA ViewIsOK ==
  ASSUME NEW all, NEW now \in Nat, FactsOK(all, now), NEW key
  PROVE  /\ ResultOK(View(all, key, now, Whole))
         /\ key # BorrowKey /\ Revisions(Known(all), key[1]) = {} =>
              View(all, key, now, Whole) = NothingOwed
<1>1. CASE key = BorrowKey
  BY <1>1, FactsAreTyped, FeesAreOK DEF View
<1>2. ASSUME key # BorrowKey PROVE ResultOK(View(all, key, now, Whole))
  <2>1. ResultOK(NothingOwed) /\ ResultOK(Unknown("unknown"))
    BY NothingOwedFields, ResultFields, BalancesAreDeltas DEF ResultOK, Unknown
  <2>2. ASSUME NEW action \in Known(all)
        PROVE  ResultOK(_distribution_for_side(Holdings, action, key[2], Paid(all), Whole))
    <3>1. OpeningOK(Whole)
      BY WindowFields, OpeningIsNothing DEF OpeningOK, None
    <3>2. ActionOK(action) /\ PaymentsOK(Paid(all)) /\ HoldingsOK(Holdings)
      BY FactsAreTyped, HoldingsAreOK
    <3> QED
      BY <3>1, <3>2, DistributionIsOK
  <2>3. now \in {Eventually, now}
    OBVIOUS
  <2> QED
    BY <1>2, <2>1, <2>2, <2>3, ViewCases
<1>3. ASSUME key # BorrowKey, Revisions(Known(all), key[1]) = {}
      PROVE  View(all, key, now, Whole) = NothingOwed
  <2>1. {a \in Known(all) : _known_by(a, now)} = Known(all)
    BY FactsAreTyped DEF _known_by, Eventually, None
  <2> QED
    BY <1>3, <2>1, Zenon DEF View, calculate_distributions
<1> QED
  BY <1>1, <1>2, <1>3
LEMMA GreatestOf ==
  ASSUME NEW n \in Nat, NEW S, S \subseteq 0..n, S # {}
  PROVE  \E t \in S : \A u \in S : u <= t
<1> DEFINE T == {n - t : t \in S}
<1>1. T \subseteq Nat /\ T # {}
  <2>1. \A t \in S : n - t \in Nat
    OBVIOUS
  <2> QED
    BY <2>1
<1>2. PICK i \in Nat : Least(T, i)
  <2> HIDE DEF T
  <2> QED
    BY <1>1, LeastOf
<1>3. PICK t \in S : i = n - t
  BY <1>2 DEF Least
<1>4. \A u \in S : n - t <= n - u
  BY <1>2, <1>3 DEF Least
<1>5. \A u \in S : u <= t
  BY <1>4
<1> QED
  BY <1>5

LEMMA LatestIsATime ==
  ASSUME clock \in Nat, FactsOK(facts, clock), NEW key, NEW result,
         key = BorrowKey \/ Revisions(Known(facts), key[1]) # {}
  PROVE  Latest(key, result) \in Nat
<1>1. PICK all, now : all = facts /\ now = clock
  OBVIOUS
<1>2. now \in Nat /\ FactsOK(all, now)
  BY <1>1
<1> DEFINE paid == {s.occurred_at : s \in {x \in Paid(all) : x.payment_id \in result.payments}}
           due == IF key = BorrowKey THEN {Interval.days}
                  ELSE {a.ex_at : a \in Revisions(Known(all), key[1])}
           times == paid \cup due
<1>3. paid \subseteq 0..Forever
  BY <1>2, FactsAreTyped DEF PaymentsOK
<1>4. due \subseteq 0..Forever /\ due # {}
  <2>1. CASE key = BorrowKey
    BY <2>1, IntervalAssumption
  <2>2. CASE key # BorrowKey
    BY <1>1, <1>2, <2>2, FactsAreTyped DEF Revisions, ActionOK
  <2> QED
    BY <2>1, <2>2
<1>5. times \subseteq 0..Forever /\ times # {}
  BY <1>3, <1>4
<1>6. Latest(key, result) = CHOOSE t \in times : \A u \in times : u <= t
  BY <1>1 DEF Latest
<1> HIDE DEF times
<1>7. \E t \in times : \A u \in times : u <= t
  BY <1>5, ForeverIsNat, GreatestOf
<1>8. PICK t \in times : t = Latest(key, result)
  BY <1>6, <1>7
<1>9. PICK n \in Nat : n = Forever
  BY ForeverIsNat
<1>10. t \in 0..n
  BY <1>5, <1>8, <1>9
<1> QED
  BY <1>8, <1>9, <1>10

(* A posting that is made of a result that changed. *)
LEMMA PostingIsAnEvent ==
  ASSUME clock \in Nat, FactsOK(facts, clock), PostedOK, NEW key \in Keys, Changed(key)
  PROVE  EventOK(result_posting(key, Now(key)))
<1>1. PICK r : r = Now(key)
  OBVIOUS
<1>2. ResultOK(r) /\ (r.status = "known" => key = BorrowKey \/ Revisions(Known(facts), key[1]) # {})
  <2>1. PICK all, now : all = facts /\ now = clock
    OBVIOUS
  <2>2. now \in Nat /\ FactsOK(all, now) /\ r = View(all, key, now, Whole)
    BY <1>1, <2>1 DEF Now
  <2>3. ResultOK(r)
    BY <2>2, ViewIsOK
  <2>4. key # BorrowKey /\ Revisions(Known(all), key[1]) = {} =>
          r = NothingOwed /\ posted[key] = prior(NothingOwed)
    BY <2>1, <2>2, ViewIsOK DEF PostedOK
  <2>5. prior(r) # posted[key]
    BY <1>1 DEF Changed
  <2> QED
    BY <2>1, <2>3, <2>4, <2>5
<1>3. PICK p \in Prior : p = posted[key]
  BY DEF PostedOK
<1>4. r.balances \in Deltas /\ p.balances \in Deltas /\ p.settled \in Int /\ r.settled \in Int
      /\ r.cash_delta \in Int
  BY <1>2, BalancesAreDeltas DEF ResultOK, Prior
<1>5. CASE r.status = "unknown"
  <2> DEFINE kind == IF key = BorrowKey THEN "borrow" ELSE "distribution"
  <2>1. result_posting(key, r)
          = [key |-> key, revision |-> revision_key(key), knowledge_at |-> clock,
             kind |-> <<kind, "unavailable">>, payment |-> None, named |-> TRUE,
             occurred_at |-> clock, unavailable |-> TRUE, deltas |-> NoBalances]
    BY <1>5 DEF result_posting
  <2> HIDE DEF kind
  <2>2. PICK e, now, k, rev : e = result_posting(key, r) /\ now = clock
                                /\ k = <<kind, "unavailable">> /\ rev = revision_key(key)
    BY Zenon
  <2>3. e = [key |-> key, revision |-> rev, knowledge_at |-> now, kind |-> k, payment |-> None,
             named |-> TRUE, occurred_at |-> now, unavailable |-> TRUE, deltas |-> NoBalances]
    BY <2>1, <2>2
  <2>4. EventOK(e)
    <3>1. NoBalances \in Deltas /\ now \in Nat
      BY <2>2, BalancesAreDeltas
    <3>2. DOMAIN e = EventFields /\ e = [x \in EventFields |-> e[x]]
      BY <2>3 DEF EventFields
    <3>3. /\ e.key = key /\ e.knowledge_at = now /\ e.payment = None /\ e.occurred_at = now
          /\ e.unavailable = TRUE /\ e.deltas = NoBalances
      BY <2>3
    <3> QED
      BY <3>1, <3>2, <3>3 DEF EventOK
  <2> QED
    BY <1>1, <2>2, <2>4
<1>6. CASE r.status # "unknown"
  <2>1. r.status = "known"
    BY <1>1, <1>6 DEF Changed, Postable
  <2>2. PICK at \in Nat : at = Latest(key, r)
    BY <1>2, <2>1, LatestIsATime
  <2> DEFINE payment == PaymentOf(key, r)
             kind == <<IF key = BorrowKey THEN "borrow" ELSE "distribution",
                       IF payment = None THEN "accrual" ELSE "settlement">>
             cash == IF key = BorrowKey THEN r.cash_delta
                     ELSE Sign(key[2]) * (r.settled - posted[key].settled)
             deltas == [Minus(r.balances, posted[key].balances) EXCEPT !.cash = cash]
  <2>3. result_posting(key, r)
          = [key |-> key, revision |-> revision_key(key), knowledge_at |-> clock,
             kind |-> kind, payment |-> payment, named |-> FALSE,
             occurred_at |-> at, unavailable |-> FALSE, deltas |-> deltas]
    BY <1>6, <2>2 DEF result_posting
  <2>4. cash \in Int
    <3>1. Sign(key[2]) \in Int
      BY DEF Sign
    <3>2. r.settled - p.settled \in Int
      BY <1>4
    <3> QED
      BY <1>3, <1>4, <3>1, <3>2
  <2>5. deltas \in Deltas
    <3> HIDE DEF cash
    <3> QED
      BY <1>3, <1>4, <2>4, DeltasAdd
  <2> HIDE DEF kind, payment, deltas
  <2> QED
    BY <1>1, <2>3, <2>5 DEF EventOK, EventFields
<1> QED
  BY <1>5, <1>6

LEMMA CopyIsAnEvent ==
  ASSUME NEW e, EventOK(e), NEW altered \in BOOLEAN, altered => e.payment # None
  PROVE  EventOK(Copy(e, altered))
<1>1. CASE altered
  <2>1. PICK d \in Deltas : d = [e.deltas EXCEPT !.cash = @ + CENT]
    <3>1. e.deltas.cash + CENT \in Int
      BY CentAssumption DEF EventOK, Deltas, Columns
    <3> QED
      BY <3>1, DeltasAdd DEF EventOK
  <2>2. PICK f : f = Copy(e, altered) /\ f = [e EXCEPT !.deltas = d]
    BY <1>1, <2>1 DEF Copy
  <2>3. ~e.unavailable
    BY <1>1 DEF EventOK
  <2>4. /\ DOMAIN f = EventFields /\ f = [x \in EventFields |-> f[x]]
        /\ f.deltas = d /\ f.key = e.key /\ f.knowledge_at = e.knowledge_at
        /\ f.occurred_at = e.occurred_at /\ f.unavailable = e.unavailable
    BY <2>2 DEF EventOK, EventFields
  <2> QED
    BY <2>2, <2>3, <2>4 DEF EventOK
<1>2. CASE ~altered
  <2>1. CASE e.payment = None
    BY <1>2, <2>1 DEF Copy
  <2>2. CASE e.payment # None
    <3>1. PICK f, i : f = Copy(e, altered) /\ f = [e EXCEPT !.revision = i]
      BY <1>2, <2>2 DEF Copy
    <3>2. /\ DOMAIN f = EventFields /\ f = [x \in EventFields |-> f[x]]
          /\ f.deltas = e.deltas /\ f.key = e.key /\ f.knowledge_at = e.knowledge_at
          /\ f.occurred_at = e.occurred_at /\ f.unavailable = e.unavailable
          /\ f.payment = e.payment
      BY <3>1 DEF EventOK, EventFields
    <3> QED
      BY <3>1, <3>2 DEF EventOK
  <2> QED
    BY <2>1, <2>2
<1> QED
  BY <1>1, <1>2
-----------------------------------------------------------------------------
(* The journal.                                                            *)

EventsIn(S) == events \in Seq(S) /\ \A e \in S : EventOK(e)
EventsOK == \E S : EventsIn(S)
RowOK(row) ==
  /\ row.key \in Keys /\ row.deltas \in Deltas /\ row.at \in Nat /\ row.unavailable \in BOOLEAN
  /\ row.unavailable => row.deltas = NoBalances
RowsOK(rows) == IsFiniteSet(rows) /\ \A row \in rows : RowOK(row)

LEMMA RowFields ==
  ASSUME NEW event, EventOK(event)
  PROVE  /\ RowOK(Row(event)) /\ scheduled_at(event) \in Nat
         /\ Row(event).at = scheduled_at(event) /\ Row(event).deltas = event.deltas
         /\ Row(event).unavailable = event.unavailable
         /\ Row(event).logical_key = logical_key(event)
<1>1. scheduled_at(event) \in Nat
  BY DEF EventOK, scheduled_at, Scheduled, Larger
<1>2. /\ Row(event).at = scheduled_at(event) /\ Row(event).deltas = event.deltas
      /\ Row(event).unavailable = event.unavailable /\ Row(event).key = event.key
      /\ Row(event).logical_key = logical_key(event)
  <2>1. DOMAIN event = EventFields
    BY DEF EventOK
  <2>2. PICK at, name : at = scheduled_at(event) /\ name = logical_key(event)
    OBVIOUS
  <2>3. PICK row : row = Row(event)
    OBVIOUS
  <2>4. row = [x \in EventFields \cup {"at", "logical_key"} |->
                 IF x = "at" THEN at ELSE IF x = "logical_key" THEN name ELSE event[x]]
    BY <2>1, <2>2, <2>3 DEF Row
  <2> QED
    BY <2>2, <2>3, <2>4 DEF EventFields
<1> QED
  BY <1>1, <1>2 DEF EventOK, RowOK

LEMMA TotalOfNothing == ASSUME NEW c PROVE Total({}, c) = 0
<1> DEFINE f == [row \in {} |-> row.deltas[c]]
<1>1. DOMAIN f = {} /\ IsFiniteSet({})
  BY FS_EmptySet
<1> HIDE DEF f
<1>2. SumFunction(f) = 0
  BY <1>1, SumIs, SumOfNothing
<1> QED
  BY <1>2 DEF Total, f

LEMMA TotalGrows ==
  ASSUME NEW rows, NEW row, RowsOK(rows \cup {row}), row \notin rows, NEW c \in Columns
  PROVE  /\ Total(rows \cup {row}, c) = Total(rows, c) + row.deltas[c]
         /\ Total(rows, c) \in Int /\ row.deltas[c] \in Int
<1> DEFINE f == [r \in rows \cup {row} |-> r.deltas[c]]
           g == [r \in rows |-> r.deltas[c]]
<1>1. \A r \in rows \cup {row} : r.deltas[c] \in Int
  BY DEF RowsOK, RowOK, Deltas
<1>2. IsFiniteSet(rows \cup {row}) /\ IsFiniteSet(rows)
  <2>1. rows \in SUBSET (rows \cup {row})
    OBVIOUS
  <2> QED
    BY <2>1, FS_Subset DEF RowsOK
<1>3. DOMAIN f = rows \cup {row} /\ DOMAIN g = rows
  OBVIOUS
<1>4. IntOn(f, rows \cup {row}) /\ IntOn(g, rows)
  BY <1>1, <1>2 DEF IntOn
<1>5. f[row] = row.deltas[c] /\ \A r \in rows : g[r] = f[r]
  OBVIOUS
<1> HIDE DEF f, g
<1>6. SumFunction(f) = Sum(f, rows) + f[row]
  BY <1>3, <1>4, SumIs, SumGrows
<1>7. SumFunction(g) = Sum(f, rows)
  BY <1>3, <1>4, <1>5, SumOverPart
<1>8. SumFunction(g) \in Int
  BY <1>3, <1>4, SumFunctionIsInt
<1> QED
  BY <1>1, <1>5, <1>6, <1>7, <1>8 DEF Total, f, g

LEMMA FirstEventIsThere ==
  ASSUME NEW S, EventsIn(S), events # <<>>
  PROVE  /\ FirstEvent \in DOMAIN events /\ events[FirstEvent] \in S
         /\ \A j \in 1..(FirstEvent - 1) :
              scheduled_at(events[j]) > scheduled_at(events[FirstEvent])
<1> DEFINE at(i) == scheduled_at(events[i])
           times == {at(i) : i \in DOMAIN events}
<1>1. /\ Len(events) \in Nat \ {0} /\ DOMAIN events = 1..Len(events)
      /\ \A i \in DOMAIN events : events[i] \in S
  BY EmptySeq, LenProperties, ElementOfSeq DEF EventsIn
<1>2. \A i \in DOMAIN events : at(i) \in Nat
  BY <1>1, RowFields DEF EventsIn
<1>3. PICK t \in Nat : Least(times, t)
  <2>1. times \subseteq Nat /\ times # {}
    <3> HIDE DEF at
    <3>1. 1 \in DOMAIN events
      BY <1>1
    <3> QED
      BY <1>2, <3>1
  <2> HIDE DEF times
  <2> QED
    BY <2>1, LeastOf
<1> DEFINE at_t == {i \in DOMAIN events : at(i) = t}
<1>4. PICK i \in Nat : Least(at_t, i)
  <2>1. at_t \subseteq Nat /\ at_t # {}
    BY <1>1, <1>3 DEF Least
  <2> HIDE DEF at_t
  <2> QED
    BY <2>1, LeastOf
<1>5. i \in DOMAIN events /\ at(i) = t
  BY <1>4 DEF Least
<1>6. \A j \in DOMAIN events : at(i) <= at(j)
  BY <1>3, <1>5 DEF Least
<1>7. \A j \in 1..(i - 1) : at(j) > at(i)
  <2> SUFFICES ASSUME NEW j \in 1..(i - 1) PROVE at(j) > at(i)
    OBVIOUS
  <2>1. j \in DOMAIN events
    BY <1>1, <1>5
  <2>2. at(j) # t
    BY <1>4, <2>1 DEF Least
  <2>3. at(j) \in Nat /\ at(i) \in Nat /\ at(i) <= at(j) /\ at(j) # at(i)
    BY <1>2, <1>5, <1>6, <2>1, <2>2
  <2> HIDE DEF at
  <2> QED
    BY <2>3
<1> HIDE DEF at
<1>8. /\ FirstEvent \in DOMAIN events
      /\ \A j \in 1..(FirstEvent - 1) :
           scheduled_at(events[j]) > scheduled_at(events[FirstEvent])
  BY <1>5, <1>6, <1>7, Zenon DEF FirstEvent, at
<1> QED
  BY <1>1, <1>8

LEMMA EventsAreLeft ==
  ASSUME NEW S, EventsIn(S), NEW i \in DOMAIN events
  PROVE  Without(i) \in Seq(S)
<1>1. /\ Len(events) \in Nat /\ DOMAIN events = 1..Len(events)
      /\ \A j \in 1..Len(events) : events[j] \in S
  BY LenProperties, ElementOfSeq DEF EventsIn
<1>2. /\ \A j \in 1..(i - 1) : events[j] \in S
      /\ \A j \in (i + 1)..Len(events) : events[j] \in S
      /\ 1 \in Int /\ i - 1 \in Int /\ i + 1 \in Int /\ Len(events) \in Int
  BY <1>1
<1>3. SubSeq(events, 1, i - 1) \in Seq(S) /\ SubSeq(events, i + 1, Len(events)) \in Seq(S)
  BY <1>2, SubSeqProperties
<1> QED
  BY <1>3, ConcatProperties DEF Without
-----------------------------------------------------------------------------
(* The inductive invariant of the scenario and of the replay.              *)

Told == PostedOK /\ EventsOK
Phases ==
  /\ pc \in {"scenario", "told", "before", "after", "done", "refused", "raised"}
  /\ mode \in Modes \cup {"none"} /\ clock \in 0..Horizon
  /\ pc \in {"scenario", "told"} => mode = "none" /\ postings = {} /\ overlay = NoBalances
JournalOK ==
  /\ RowsOK(postings) /\ overlay \in Deltas /\ ~Negative(overlay)
  /\ accounting_unavailable \in Nat /\ IsFiniteSet(coverage)
Booked ==
  /\ pc # "raised" => \A c \in Columns : overlay[c] = Total(postings, c)
  /\ mode = "causal_capital_rerun" =>
       accounting_unavailable
         = Cardinality({row \in postings : row.unavailable}) + Cardinality(coverage)
Timely ==
  /\ pc = "before" => \A row \in postings : row.at <= clock
  /\ pc = "after" => \A row \in postings : row.at <= clock + 1
Replayed == Phases /\ JournalOK /\ Booked /\ Timely

LEMMA EventsGrow ==
  ASSUME NEW S, EventsIn(S), NEW e, EventOK(e), events' = Append(events, e)
  PROVE  EventsOK'
<1>1. events \in Seq(S \cup {e})
  BY SeqMonotonic DEF EventsIn
<1>2. Append(events, e) \in Seq(S \cup {e})
  BY <1>1, AppendProperties
<1>3. \A x \in S \cup {e} : EventOK(x)
  BY DEF EventsIn
<1>4. events' \in Seq(S \cup {e}) /\ \A x \in S \cup {e} : EventOK(x)
  BY <1>2, <1>3
<1>5. \E T : events' \in Seq(T) /\ \A x \in T : EventOK(x)
  BY <1>4
<1> QED
  BY <1>5 DEF EventsOK, EventsIn

LEMMA EventsAreSame == ASSUME EventsOK, events' = events PROVE EventsOK'
<1>1. PICK S : EventsIn(S)
  BY DEF EventsOK
<1>2. \E T : events' \in Seq(T) /\ \A x \in T : EventOK(x)
  BY <1>1 DEF EventsIn
<1> QED
  BY <1>2 DEF EventsOK, EventsIn

LEMMA ToldInit == Init => Told
<1> SUFFICES ASSUME Init PROVE Told
  OBVIOUS
<1>1. EventsOK
  <2>1. EventsIn({})
    BY EmptySeq DEF Init, EventsIn
  <2> QED
    BY <2>1 DEF EventsOK
<1>2. prior(NothingOwed) \in Prior
  BY NothingOwedFields, BalancesAreDeltas DEF prior, Prior
<1>3. PostedOK
  BY <1>2 DEF Init, PostedOK
<1> QED
  BY <1>1, <1>3 DEF Told

LEMMA ToldStep == ScenarioInv /\ Told /\ [Next]_vars => Told'
<1> SUFFICES ASSUME ScenarioInv, Told, [Next]_vars PROVE Told'
  OBVIOUS
<1>1. PICK S : EventsIn(S)
  BY DEF Told, EventsOK
<1>2. ASSUME UNCHANGED <<facts, posted, events>> PROVE Told'
  <2>1. PostedOK'
    BY <1>2 DEF Told, PostedOK
  <2> QED
    BY <1>2, <2>1, EventsAreSame DEF Told
<1>3. CASE UNCHANGED vars
  BY <1>2, <1>3 DEF vars
<1>4. ASSUME NEW f \in Facts, Learn(f) PROVE Told'
  <2>1. facts' = facts \cup {Dated(f, clock)} /\ posted' = posted /\ events' = events
    BY <1>4 DEF Learn
  <2>2. \A id : Revisions(Known(facts'), id) = {} => Revisions(Known(facts), id) = {}
    BY <2>1 DEF Revisions, Known
  <2>3. PostedOK'
    BY <2>1, <2>2 DEF Told, PostedOK
  <2> QED
    BY <2>1, <2>3, EventsAreSame DEF Told
<1>5. CASE Post
  <2>1. PICK key : key = CHOOSE k \in Due : TRUE
    OBVIOUS
  <2>2. key \in Keys /\ Changed(key)
    BY <1>5, <2>1 DEF Post, Due
  <2>3. PICK r : r = Now(key)
    OBVIOUS
  <2>4. /\ events' = Append(events, result_posting(key, r)) /\ facts' = facts
        /\ posted' = [posted EXCEPT ![key] =
             IF r.status = "known" THEN prior(r) ELSE [@ EXCEPT !.status = "unknown"]]
    BY <1>5, <2>1, <2>3 DEF Post
  <2>5. PICK all, now : all = facts /\ now = clock
    OBVIOUS
  <2>6. now \in Nat /\ FactsOK(all, now) /\ PostedOK
    BY <1>5, <2>5, BarsAssumption DEF Post, ScenarioInv, Told
  <2>7. EventOK(result_posting(key, r))
    BY <2>2, <2>3, <2>5, <2>6, PostingIsAnEvent
  <2>8. r = View(all, key, now, Whole)
    BY <2>3, <2>5 DEF Now
  <2>9. IF r.status = "known" THEN prior(r) \in Prior
        ELSE [posted[key] EXCEPT !.status = "unknown"] \in Prior
    <3>1. ResultOK(r)
      BY <2>6, <2>8, ViewIsOK
    <3>2. CASE r.status = "known"
      BY <3>1, <3>2 DEF ResultOK, prior, Prior
    <3>3. CASE r.status # "known"
      <4>1. posted[key] \in Prior
        BY <2>2, <2>6 DEF PostedOK
      <4> QED
        BY <3>3, <4>1 DEF Prior
    <3> QED
      BY <3>2, <3>3
  <2>10. posted' \in [Keys -> Prior]
    BY <2>2, <2>4, <2>6, <2>9 DEF PostedOK
  <2>11. ASSUME NEW k \in Keys, k # BorrowKey, Revisions(Known(facts), k[1]) = {}
         PROVE  posted'[k] = prior(NothingOwed)
    <3>1. posted[k] = prior(NothingOwed)
      BY <2>6, <2>11 DEF PostedOK
    <3>2. k # key
      <4>1. k = key => r = NothingOwed
        BY <2>5, <2>6, <2>8, <2>11, ViewIsOK
      <4> QED
        BY <2>2, <2>3, <3>1, <4>1 DEF Changed
    <3> QED
      BY <2>4, <2>6, <3>1, <3>2 DEF PostedOK
  <2>12. PostedOK'
    BY <2>4, <2>10, <2>11 DEF PostedOK
  <2> QED
    BY <1>1, <2>4, <2>7, <2>12, EventsGrow DEF Told
<1>6. CASE Tick
  BY <1>2, <1>6 DEF Tick
<1>7. ASSUME NEW i \in DOMAIN events, NEW altered \in BOOLEAN, GiveAgain(i, altered)
      PROVE  Told'
  <2>1. /\ events' = Append(events, Copy(events[i], altered)) /\ UNCHANGED <<facts, posted>>
        /\ altered => events[i].payment # None
    BY <1>7 DEF GiveAgain
  <2>2. EventOK(events[i])
    BY <1>1, LenProperties, ElementOfSeq DEF EventsIn
  <2>3. EventOK(Copy(events[i], altered))
    BY <2>1, <2>2, CopyIsAnEvent
  <2>4. PostedOK'
    BY <2>1 DEF Told, PostedOK
  <2> QED
    BY <1>1, <2>1, <2>3, <2>4, EventsGrow DEF Told
<1>8. ASSUME NEW m \in Modes, start(m) PROVE Told'
  BY <1>2, <1>8 DEF start
<1>9. CASE _apply_accounting_events
  <2>1. /\ events # <<>> /\ events' = Without(FirstEvent) /\ UNCHANGED <<facts, posted>>
    BY <1>9 DEF _apply_accounting_events, post_event, DueBy
  <2>2. events' \in Seq(S)
    BY <1>1, <2>1, FirstEventIsThere, EventsAreLeft
  <2>3. \E T : events' \in Seq(T) /\ \A x \in T : EventOK(x)
    BY <1>1, <2>2 DEF EventsIn
  <2>4. PostedOK'
    BY <2>1 DEF Told, PostedOK
  <2> QED
    BY <2>3, <2>4 DEF Told, EventsOK, EventsIn
<1>10. CASE process_batch \/ next_bar
  BY <1>2, <1>10 DEF process_batch, next_bar, Replaying
<1> QED
  BY <1>3, <1>4, <1>5, <1>6, <1>7, <1>8, <1>9, <1>10 DEF Next
LEMMA ReplayedInit == Init => Replayed
<1> SUFFICES ASSUME Init PROVE Replayed
  OBVIOUS
<1>1. NoBalances \in Deltas /\ DOMAIN NoBalances = Columns /\ \A c \in Columns : NoBalances[c] = 0
  BY BalancesAreDeltas
<1>2. JournalOK
  BY <1>1, FS_EmptySet DEF Init, JournalOK, RowsOK, Negative
<1>3. Booked
  BY <1>1, TotalOfNothing, ModesAssumption DEF Init, Booked
<1>4. Phases /\ Timely
  BY BarsAssumption DEF Init, Phases, Timely
<1> QED
  BY <1>2, <1>3, <1>4 DEF Replayed

(* The journal and the broker change together, or neither does.            *)
Book == <<mode, postings, coverage, overlay, accounting_unavailable>>
LEMMA BookIsSame ==
  ASSUME Replayed, UNCHANGED Book, pc = "raised" <=> pc' = "raised"
  PROVE  JournalOK' /\ Booked'
<1>1. JournalOK'
  BY DEF Replayed, JournalOK, Book, Negative
<1>2. Booked'
  BY DEF Replayed, Booked, Book, Total
<1> QED
  BY <1>1, <1>2

(* A posting that is refused leaves columns set, but none of them negative. *)
LEMMA ColumnsAreSet ==
  ASSUME NEW before \in Deltas, NEW after \in Deltas, ~Negative(before), NEW new,
         new = SetInTurn(before, after)
  PROVE  new \in Deltas /\ ~Negative(new) /\ (~Negative(after) => new = after)
<1>1. DOMAIN before = Columns /\ DOMAIN after = Columns
  BY DEF Deltas
<1>2. new = [c \in Columns |->
               IF \E d \in Columns \ {"cash"} : nth[d] <= nth[c] /\ after[d] < 0
               THEN before[c] ELSE after[c]]
  BY <1>1, Zenon DEF SetInTurn
<1>3. new \in Deltas
  BY <1>2 DEF Deltas
<1>4. ASSUME NEW c \in Columns \ {"cash"} PROVE ~(new[c] < 0)
  <2>1. nth[c] <= nth[c]
    BY DEF nth, Columns
  <2>2. CASE after[c] < 0
    <3>1. new[c] = before[c]
      BY <1>2, <2>1, <2>2
    <3> QED
      BY <1>1, <3>1 DEF Negative
  <2>3. CASE ~(after[c] < 0)
    <3>1. new[c] \in {before[c], after[c]}
      BY <1>2
    <3> QED
      BY <1>1, <2>3, <3>1 DEF Negative
  <2> QED
    BY <2>2, <2>3
<1>5. DOMAIN new = Columns
  BY <1>2
<1>6. ASSUME ~Negative(after) PROVE new = after
  <2>1. \A d \in Columns \ {"cash"} : ~(after[d] < 0)
    BY <1>1, <1>6 DEF Negative
  <2>2. new = [c \in Columns |-> after[c]]
    BY <1>2, <2>1
  <2> QED
    BY <2>2 DEF Deltas
<1> QED
  BY <1>3, <1>4, <1>5, <1>6 DEF Negative

(* A posting is applied: what the first event that is due does.            *)
LEMMA PostingIsBooked ==
  ASSUME Replayed, Told, post_event, mode' = mode, coverage' = coverage, pc # "raised",
         events # <<>>
  PROVE  /\ JournalOK' /\ Booked' /\ (pc' = pc \/ pc' = "raised")
         /\ \A row \in postings' \ postings : row.at = scheduled_at(events[FirstEvent])
<1>1. PICK S : EventsIn(S)
  BY DEF Told, EventsOK
<1>2. PICK e : e = events[FirstEvent] /\ EventOK(e)
  BY <1>1, FirstEventIsThere DEF EventsIn
<1>3. PICK status, row, after :
        status = Status(e) /\ row = Row(e) /\ after = Plus(overlay, e.deltas)
  OBVIOUS
<1>4. /\ RowOK(row) /\ row.at = scheduled_at(e) /\ row.deltas = e.deltas
      /\ row.unavailable = e.unavailable /\ row.logical_key = logical_key(e)
  BY <1>2, <1>3, RowFields
<1>5. /\ postings' = IF status = "inserted" THEN postings \cup {row} ELSE postings
      /\ status # "inserted" => UNCHANGED <<overlay, accounting_unavailable, pc>>
      /\ status = "inserted" /\ e.unavailable =>
           accounting_unavailable' = accounting_unavailable + 1 /\ UNCHANGED <<overlay, pc>>
      /\ status = "inserted" /\ ~e.unavailable =>
           /\ overlay' = SetInTurn(overlay, after)
           /\ pc' = IF Negative(after) THEN "raised" ELSE pc
           /\ UNCHANGED accounting_unavailable
  BY <1>2, <1>3, Zenon DEF post_event, apply
<1>6. /\ RowsOK(postings) /\ overlay \in Deltas /\ ~Negative(overlay)
      /\ accounting_unavailable \in Nat /\ IsFiniteSet(coverage)
  BY DEF Replayed, JournalOK
<1>7. CASE status # "inserted"
  BY <1>5, <1>7, BookIsSame DEF Book
<1>8. CASE status = "inserted"
  <2>1. row \notin postings
    <3>1. Recorded(e) = {}
      BY <1>3, <1>8 DEF Status
    <3> QED
      BY <1>4, <3>1 DEF Recorded
  <2>2. RowsOK(postings \cup {row})
    <3>1. IsFiniteSet(postings \cup {row})
      BY <1>6, FS_AddElement DEF RowsOK
    <3> QED
      BY <1>4, <1>6, <3>1 DEF RowsOK
  <2>3. \A c \in Columns : /\ Total(postings \cup {row}, c) = Total(postings, c) + row.deltas[c]
                           /\ Total(postings, c) \in Int /\ row.deltas[c] \in Int
    BY <2>1, <2>2, TotalGrows
  <2>4. \A c \in Columns : overlay[c] = Total(postings, c)
    BY DEF Replayed, Booked
  <2>5. postings' = postings \cup {row}
    BY <1>5, <1>8
  <2>6. /\ overlay' \in Deltas /\ ~Negative(overlay') /\ (pc' = pc \/ pc' = "raised")
        /\ ~e.unavailable /\ pc' # "raised" => overlay' = after
    <3>1. after \in Deltas
      <4>1. PICK o \in Deltas, d \in Deltas : o = overlay /\ d = e.deltas
        BY <1>2, <1>6 DEF EventOK
      <4>2. Plus(o, d) \in Deltas
        BY 0 \in Int, DeltasAdd
      <4> QED
        BY <1>3, <4>1, <4>2
    <3>2. PICK new : new = SetInTurn(overlay, after)
      OBVIOUS
    <3>3. new \in Deltas /\ ~Negative(new) /\ (~Negative(after) => new = after)
      <4>1. PICK o \in Deltas : o = overlay /\ ~Negative(o)
        BY <1>6
      <4> QED
        BY <3>1, <3>2, <4>1, ColumnsAreSet
    <3> QED
      BY <1>2, <1>5, <1>6, <1>8, <3>2, <3>3 DEF EventOK
  <2>7. ASSUME pc' # "raised", NEW c \in Columns PROVE overlay'[c] = Total(postings', c)
    <3>1. CASE e.unavailable
      <4>1. row.deltas[c] = 0 /\ overlay' = overlay
        BY <1>2, <1>4, <1>5, <1>8, <3>1, BalancesAreDeltas DEF EventOK
      <4>2. PICK t \in Int : t = Total(postings, c) /\ Total(postings \cup {row}, c) = t + 0
        BY <2>3, <4>1
      <4> QED
        BY <2>4, <2>5, <4>1, <4>2
    <3>2. CASE ~e.unavailable
      <4>1. overlay' = after
        BY <2>6, <2>7, <3>2
      <4>2. after[c] = overlay[c] + row.deltas[c]
        <5>1. PICK o \in Deltas, d \in Deltas : o = overlay /\ d = e.deltas
          BY <1>2, <1>6 DEF EventOK
        <5>2. Plus(o, d)[c] = o[c] + d[c]
          BY 0 \in Int, DeltasAdd
        <5> QED
          BY <1>3, <1>4, <5>1, <5>2
      <4> QED
        BY <2>3, <2>4, <2>5, <4>1, <4>2
    <3> QED
      BY <3>1, <3>2
  <2> DEFINE missing == {r \in postings : r.unavailable}
  <2>8. IsFiniteSet(missing) /\ Cardinality(missing) \in Nat /\ Cardinality(coverage) \in Nat
        /\ row \notin missing
    <3>1. missing \in SUBSET postings
      OBVIOUS
    <3> QED
      BY <1>6, <2>1, <3>1, FS_Subset, FS_CardinalityType DEF RowsOK
  <2>9. CASE e.unavailable
    <3>1. {r \in postings \cup {row} : r.unavailable} = missing \cup {row}
      BY <1>4, <2>9
    <3>2. Cardinality(missing \cup {row}) = Cardinality(missing) + 1
      <4> HIDE DEF missing
      <4> QED
        BY <2>8, FS_AddElement
    <3>3. accounting_unavailable' = accounting_unavailable + 1
      BY <1>5, <1>8, <2>9
    <3>4. mode = "causal_capital_rerun" =>
            accounting_unavailable = Cardinality(missing) + Cardinality(coverage)
      BY DEF Replayed, Booked
    <3>5. mode' = "causal_capital_rerun" =>
            accounting_unavailable'
              = Cardinality({r \in postings' : r.unavailable}) + Cardinality(coverage')
      <4>1. {r \in postings' : r.unavailable} = missing \cup {row}
        BY <2>5, <3>1
      <4> HIDE DEF missing
      <4> QED
        <5>1. PICK n \in Nat, m \in Nat : n = Cardinality(missing) /\ m = Cardinality(coverage)
          BY <2>8
        <5>2. mode = "causal_capital_rerun" => accounting_unavailable + 1 = (n + 1) + m
          BY <3>4, <5>1
        <5> QED
          BY <3>2, <3>3, <4>1, <5>1, <5>2
    <3>6. JournalOK'
      BY <1>6, <2>2, <2>5, <2>6, <3>3 DEF JournalOK, Negative
    <3>7. Booked'
      BY <2>7, <3>5 DEF Booked
    <3> QED
      BY <1>2, <1>4, <2>5, <2>6, <3>6, <3>7
  <2>10. CASE ~e.unavailable
    <3>1. {r \in postings \cup {row} : r.unavailable} = missing
      BY <1>4, <2>10
    <3>2. accounting_unavailable' = accounting_unavailable
      BY <1>5, <1>8, <2>10
    <3>3. mode' = "causal_capital_rerun" =>
            accounting_unavailable'
              = Cardinality({r \in postings' : r.unavailable}) + Cardinality(coverage')
      BY <2>5, <3>1, <3>2 DEF Replayed, Booked
    <3>4. JournalOK'
      BY <1>6, <2>2, <2>5, <2>6, <3>2 DEF JournalOK, Negative
    <3>5. Booked'
      BY <2>7, <3>3 DEF Booked
    <3> QED
      BY <1>2, <1>4, <2>5, <2>6, <3>4, <3>5
  <2> QED
    BY <2>9, <2>10 DEF EventOK
<1> QED
  BY <1>7, <1>8
LEMMA NextBarIsLater ==
  ASSUME clock \in 0..Horizon, Later # {}
  PROVE  LET t == CHOOSE t \in Later : \A u \in Later : t <= u
         IN  t \in 0..Horizon /\ clock + 1 <= t
<1>0. PICK n \in Nat, h \in Nat : n = clock /\ h = Horizon
  BY BarsAssumption
<1>1. Later \subseteq Nat /\ \A t \in Later : t \in 0..h /\ t > n
  <2>1. \A t \in Later : t \in 0..h /\ t > n
    BY <1>0, BarsAssumption DEF Later
  <2> QED
    BY <2>1
<1>2. PICK i \in Nat : Least(Later, i)
  BY <1>1, LeastOf
<1>3. \E t \in Later : \A u \in Later : t <= u
  BY <1>2 DEF Least
<1>4. PICK t \in Later : t = CHOOSE u \in Later : \A v \in Later : u <= v
  BY <1>3
<1>5. t \in 0..Horizon /\ clock + 1 <= t
  <2>1. t \in 0..h /\ t > n
    BY <1>1
  <2>2. n + 1 <= t
    BY <2>1
  <2> QED
    BY <1>0, <2>1, <2>2
<1> QED
  BY <1>4, <1>5

LEMMA ReplayedStep == Told /\ Replayed /\ [Next]_vars => Replayed'
<1> SUFFICES ASSUME Told, Replayed, [Next]_vars PROVE Replayed'
  OBVIOUS
<1>0. /\ pc \in {"scenario", "told", "before", "after", "done", "refused", "raised"}
      /\ mode \in Modes \cup {"none"} /\ clock \in 0..Horizon /\ Horizon \in Nat
      /\ pc \in {"scenario", "told"} => mode = "none" /\ postings = {} /\ overlay = NoBalances
  BY BarsAssumption DEF Replayed, Phases
<1>1. ASSUME UNCHANGED Book, UNCHANGED <<pc, clock>> PROVE Replayed'
  <2>1. JournalOK' /\ Booked'
    BY <1>1, BookIsSame
  <2>2. Phases' /\ Timely'
    BY <1>1 DEF Book, Phases, Timely, Replayed
  <2> QED
    BY <2>1, <2>2 DEF Replayed
<1>2. CASE UNCHANGED vars
  BY <1>1, <1>2 DEF vars, Book
<1>3. ASSUME NEW f \in Facts, Learn(f) PROVE Replayed'
  BY <1>1, <1>3 DEF Learn, Scenario, Book
<1>4. CASE Post
  BY <1>1, <1>4 DEF Post, Scenario, Book
<1>5. CASE Tick
  <2>1. UNCHANGED Book /\ pc = "scenario"
    BY <1>5 DEF Tick, Scenario, Book
  <2>2. pc' \in {"scenario", "told"} /\ clock' \in 0..Horizon
    BY <1>0, <1>5 DEF Tick
  <2>3. JournalOK' /\ Booked'
    BY <2>1, <2>2, BookIsSame
  <2>4. Phases' /\ Timely'
    BY <1>0, <2>1, <2>2 DEF Phases, Timely, Book
  <2> QED
    BY <2>3, <2>4 DEF Replayed
<1>6. ASSUME NEW i \in DOMAIN events, NEW altered \in BOOLEAN, GiveAgain(i, altered)
      PROVE  Replayed'
  BY <1>1, <1>6 DEF GiveAgain, Book
<1>7. ASSUME NEW m \in Modes, start(m) PROVE Replayed'
  <2>1. /\ pc = "told" /\ mode' = m /\ clock' = 0 /\ coverage' = Coverage
        /\ accounting_unavailable' =
             IF m = "causal_capital_rerun" THEN Cardinality(Coverage) ELSE 0
        /\ pc' \in {"before", "refused"} /\ UNCHANGED <<postings, overlay>>
    BY <1>7 DEF start
  <2>2. postings = {} /\ overlay = NoBalances
    BY <1>0, <2>1
  <2>3. Cardinality(Coverage) \in Nat /\ IsFiniteSet(Coverage)
    BY BoundsAssumption, FS_CardinalityType
  <2>4. JournalOK'
    BY <2>1, <2>3 DEF Replayed, JournalOK, Negative
  <2>5. Booked'
    <3>1. \A c \in Columns : overlay[c] = Total(postings, c)
      BY <2>1 DEF Replayed, Booked
    <3>2. {row \in postings : row.unavailable} = {} /\ Cardinality({}) = 0
      BY <2>2, FS_EmptySet
    <3> QED
      BY <2>1, <2>3, <3>1, <3>2 DEF Booked, Total
  <2>6. Phases' /\ Timely'
    BY <1>0, <2>1, <2>2 DEF Phases, Timely
  <2> QED
    BY <2>4, <2>5, <2>6 DEF Replayed
<1>8. CASE _apply_accounting_events
  <2>1. /\ post_event /\ UNCHANGED <<mode, clock, coverage>> /\ events # <<>>
        /\ \/ pc = "before" /\ scheduled_at(events[FirstEvent]) <= clock
           \/ pc = "after" /\ scheduled_at(events[FirstEvent]) <= clock + 1
    BY <1>8 DEF _apply_accounting_events, DueBy, Through
  <2>2. /\ JournalOK' /\ Booked' /\ (pc' = pc \/ pc' = "raised")
        /\ \A row \in postings' \ postings : row.at = scheduled_at(events[FirstEvent])
    BY <2>1, PostingIsBooked
  <2>3. Phases'
    BY <1>0, <2>1, <2>2 DEF Phases
  <2>4. Timely'
    BY <2>1, <2>2 DEF Timely, Replayed
  <2> QED
    BY <2>2, <2>3, <2>4 DEF Replayed
<1>9. CASE process_batch
  <2>1. pc = "before" /\ pc' = "after" /\ clock' = clock /\ UNCHANGED Book
    BY <1>9 DEF process_batch, Replaying, Book
  <2>2. JournalOK' /\ Booked'
    BY <2>1, BookIsSame
  <2>3. Timely'
    <3>1. \A row \in postings : row.at <= clock /\ row.at \in Nat
      BY <2>1 DEF Timely, Replayed, JournalOK, RowsOK, RowOK
    <3>2. \A row \in postings : row.at <= clock + 1
      BY <1>0, <3>1
    <3> QED
      BY <2>1, <3>2 DEF Timely, Book
  <2>4. Phases'
    BY <1>0, <2>1 DEF Phases, Book
  <2> QED
    BY <2>2, <2>3, <2>4 DEF Replayed
<1>10. CASE next_bar
  <2>1. pc \in {"before", "after"} /\ UNCHANGED Book /\ pc' \in {"before", "done"}
    BY <1>10 DEF next_bar, Replaying, Book
  <2>2. JournalOK' /\ Booked'
    BY <2>1, BookIsSame
  <2>3. \A row \in postings : row.at <= clock + 1 /\ row.at \in Nat
    <3>1. \A row \in postings : row.at \in Nat
      BY DEF Replayed, JournalOK, RowsOK, RowOK
    <3>2. \A row \in postings : row.at <= clock \/ row.at <= clock + 1
      BY <2>1 DEF Timely, Replayed
    <3> QED
      BY <1>0, <3>1, <3>2
  <2>4. CASE pc' = "done"
    <3>1. clock' = clock
      BY <1>10, <2>4 DEF next_bar
    <3> QED
      BY <1>0, <2>1, <2>2, <2>4, <3>1 DEF Replayed, Phases, Timely, Book
  <2>5. CASE pc' = "before"
    <3>1. clock' \in 0..Horizon /\ clock + 1 <= clock'
      BY <1>0, <1>10, <2>5, NextBarIsLater DEF next_bar
    <3>2. \A row \in postings : row.at <= clock'
      BY <1>0, <2>3, <3>1
    <3> QED
      BY <1>0, <2>1, <2>2, <2>5, <3>1, <3>2 DEF Replayed, Phases, Timely, Book
  <2> QED
    BY <2>1, <2>4, <2>5
<1> QED
  BY <1>2, <1>3, <1>4, <1>5, <1>6, <1>7, <1>8, <1>9, <1>10 DEF Next

THEOREM LedgerInvariant == Spec => [](ScenarioInv /\ Told /\ Replayed)
<1>1. Init => ScenarioInv /\ Told /\ Replayed
  BY ScenarioInit, ToldInit, ReplayedInit
<1>2. (ScenarioInv /\ Told /\ Replayed) /\ [Next]_vars => (ScenarioInv /\ Told /\ Replayed)'
  BY ScenarioStep, ToldStep, ReplayedStep
<1> QED
  BY <1>1, <1>2, PTL DEF Spec

(* Whatever becomes known and whatever is given twice, the broker's        *)
(* overlay is the sum of the journal until a posting is refused, no        *)
(* balance becomes negative, capital is frozen by as many postings as the  *)
(* journal holds without an amount, and an open sees nothing later than    *)
(* itself.                                                                 *)
THEOREM OverlayIsLedgerHolds == Spec => []OverlayIsLedger
<1>1. ScenarioInv /\ Told /\ Replayed => OverlayIsLedger
  <2> SUFFICES ASSUME ScenarioInv, Told, Replayed PROVE OverlayIsLedger
    OBVIOUS
  <2>1. \A f \in facts : Undated(f) \in Facts /\ f.knowledge_at \in 0..Horizon
    <3> SUFFICES ASSUME NEW f \in facts
                 PROVE  Undated(f) \in Facts /\ f.knowledge_at \in 0..Horizon
      OBVIOUS
    <3>1. PICK g \in Facts, t \in 0..Horizon : f = Dated(g, t)
      BY DEF ScenarioInv, FactsOK
    <3>2. Undated(f) = g /\ f.knowledge_at = t
      BY <3>1, FactFields DEF Facts
    <3> QED
      BY <3>1, <3>2
  <2>2. \A row \in postings : row.key \in Keys /\ DOMAIN row.deltas = DOMAIN NoBalances
    BY BalancesAreDeltas DEF Replayed, JournalOK, RowsOK, RowOK, Deltas
  <2>3. TypeOK
    BY <2>1, <2>2 DEF TypeOK, Replayed, Phases, JournalOK
  <2> QED
    BY <2>3, BalancesAreDeltas DEF OverlayIsLedger, Replayed, Booked, Timely
<1> QED
  BY <1>1, LedgerInvariant, PTL

-----------------------------------------------------------------------------
(* Every cash flow once.  What is owed of a key depends on the accepted    *)
(* revision and on the payments of the key, of which a result that becomes *)
(* an event has at most one.                                               *)

Entitles(F, key) ==
  IF key = BorrowKey THEN Interval.days # 0 /\ Interval.quantity # 0
  ELSE \E a \in Known(F) : a.action_id = key[1] /\ Entitled(Holdings, a, key[2]) # {}
PaidFor(all, key) ==
  {s \in Paid(all) : s.action_id = key[1] /\ (key = BorrowKey \/ s.side \in {key[2], Both})}
Owing(a, key, settled) ==
  IF key = BorrowKey THEN FeeBalances(FeeDue(Interval, 0) - settled)
  ELSE Owed(key[2], Target(Entitled(Holdings, a, key[2]), a, Whole) - settled)
Superseded(all, a) ==
  \E b \in Known(all) : b # a /\ b.action_id = a.action_id /\ b.supersedes = a.revision_id
(* A payment of both sides is of the one that is entitled.                 *)
OneOnly(F, s, key) ==
  s.side = Both /\ key # BorrowKey =>
    \A k \in Keys : k # BorrowKey /\ k # key /\ k[1] = key[1] => ~Entitles(F, k)

LEMMA FactIds ==
  ASSUME NEW all, NEW now, FactsOK(all, now)
  PROVE  /\ \A a \in Known(all) : \E g \in Actions, t \in 0..now :
              /\ a = Dated(g, t) /\ a.action_id = g.action_id /\ a.ex_at = g.ex_at
              /\ a.revision_id = g.revision_id /\ a.supersedes = g.supersedes
              /\ a.revision_id \in Nat /\ a.supersedes \in Nat \cup {None}
         /\ \A s \in Paid(all) : \E g \in Settlements, t \in 0..now :
              /\ s = Dated(g, t) /\ s.action_id = g.action_id /\ s.side = g.side
              /\ s.payment_id = g.payment_id /\ s.kind = g.kind
              /\ s.occurred_at = g.occurred_at /\ s.amount = g.amount
<1>1. ASSUME NEW g \in Actions, NEW t
      PROVE  /\ IsAction(Dated(g, t)) /\ Dated(g, t).action_id = g.action_id
             /\ Dated(g, t).ex_at = g.ex_at /\ Dated(g, t).revision_id = g.revision_id
             /\ Dated(g, t).supersedes = g.supersedes
             /\ g.revision_id \in Nat /\ g.supersedes \in Nat \cup {None}
  <2>1. /\ DOMAIN g = {"action_id", "ex_at", "per_share", "currency", "cancelled", "revision_id",
                       "supersedes"}
        /\ g.revision_id \in Nat /\ g.supersedes \in Nat \cup {None}
    BY ActionsAssumption
  <2> QED
    BY <2>1 DEF Dated, IsAction
<1>2. ASSUME NEW g \in Settlements, NEW t
      PROVE  /\ ~IsAction(Dated(g, t)) /\ Dated(g, t).action_id = g.action_id
             /\ Dated(g, t).side = g.side /\ Dated(g, t).payment_id = g.payment_id
             /\ Dated(g, t).kind = g.kind /\ Dated(g, t).occurred_at = g.occurred_at
             /\ Dated(g, t).amount = g.amount
  <2>1. DOMAIN g = {"payment_id", "action_id", "side", "amount", "occurred_at", "kind",
                    "currency"}
    BY SettlementsAssumption
  <2> QED
    BY <2>1 DEF Dated, IsAction
<1>3. \A f \in all : \E g \in Actions \cup Settlements, t \in 0..now : f = Dated(g, t)
  BY DEF FactsOK, Facts
<1>4. ASSUME NEW a \in Known(all)
      PROVE  \E g \in Actions, t \in 0..now :
              /\ a = Dated(g, t) /\ a.action_id = g.action_id /\ a.ex_at = g.ex_at
              /\ a.revision_id = g.revision_id /\ a.supersedes = g.supersedes
              /\ a.revision_id \in Nat /\ a.supersedes \in Nat \cup {None}
  <2>1. PICK g \in Actions \cup Settlements, t \in 0..now : a = Dated(g, t) /\ IsAction(a)
    BY <1>3 DEF Known
  <2>2. g \in Actions
    BY <1>2, <2>1
  <2>3. /\ a = Dated(g, t) /\ a.action_id = g.action_id /\ a.ex_at = g.ex_at
        /\ a.revision_id = g.revision_id /\ a.supersedes = g.supersedes
        /\ a.revision_id \in Nat /\ a.supersedes \in Nat \cup {None}
    BY <1>1, <2>1, <2>2
  <2> QED
    BY <2>2, <2>3
<1>5. ASSUME NEW s \in Paid(all)
      PROVE  \E g \in Settlements, t \in 0..now :
              /\ s = Dated(g, t) /\ s.action_id = g.action_id /\ s.side = g.side
              /\ s.payment_id = g.payment_id /\ s.kind = g.kind
              /\ s.occurred_at = g.occurred_at /\ s.amount = g.amount
  <2>1. PICK g \in Actions \cup Settlements, t \in 0..now : s = Dated(g, t) /\ ~IsAction(s)
    BY <1>3 DEF Paid
  <2>2. g \in Settlements
    BY <1>1, <2>1
  <2>3. /\ s = Dated(g, t) /\ s.action_id = g.action_id /\ s.side = g.side
        /\ s.payment_id = g.payment_id /\ s.kind = g.kind
        /\ s.occurred_at = g.occurred_at /\ s.amount = g.amount
    BY <1>2, <2>1, <2>2
  <2> QED
    BY <2>2, <2>3
<1> QED
  BY <1>4, <1>5

(* The tip of a chain has no successor, and every other link has one.      *)
LEMMA ChainsCoverAll ==
  ASSUME NEW A, IsFiniteSet(A), NEW id, NEW a \in Accepted(A, id), NEW b \in Revisions(A, id), b # a
  PROVE  LET all == Revisions(A, id)
             n == Cardinality(all)
         IN  /\ n \in Nat /\ \A r, s \in all : r.revision_id = s.revision_id => r = s
             /\ \E f \in Chains(all) : a = f[n] /\ \A r \in all : \E i \in 1..n : r = f[i]
<1> DEFINE all == Revisions(A, id)
           n == Cardinality(all)
<1>1. IsFiniteSet(all) /\ n \in Nat
  <2>1. all \in SUBSET A
    BY DEF Revisions
  <2> QED
    BY <2>1, FS_Subset, FS_CardinalityType
<1>2. a \in all
  BY AcceptedAreRevisions
<1>3. ~ (n <= 1)
  <2>1. {a, b} \in SUBSET all
    BY <1>2
  <2>2. Cardinality({a} \cup {b}) = 2
    <3>1. IsFiniteSet({a}) /\ Cardinality({a}) = 1 /\ b \notin {a}
      BY FS_Singleton
    <3> QED
      BY <3>1, FS_AddElement
  <2>3. {a, b} = {a} \cup {b}
    OBVIOUS
  <2> HIDE DEF all
  <2>4. 2 <= n
    BY <1>1, <2>1, <2>2, <2>3, FS_Subset
  <2> QED
    BY <1>1, <2>4
<1>4. /\ \A r, s \in all : r.revision_id = s.revision_id => r = s
      /\ a \in {f[n] : f \in Chains(all)}
  <2> HIDE DEF all, n
  <2>1. Accepted(A, id) =
          LET clash == \E r, s \in all : r # s /\ r.revision_id = s.revision_id
          IN  CASE clash -> {}
                [] ~clash /\ n <= 1 -> all
                [] OTHER -> {f[n] : f \in Chains(all)}
    BY DEF Accepted, all, n
  <2> QED
    BY <1>3, <2>1
<1>5. PICK f \in Chains(all) : a = f[n]
  BY <1>4
<1>6. \A r \in all : \E i \in 1..n : r = f[i]
  <2> HIDE DEF all
  <2>1. f \in [1..n -> all] /\ \A i, j \in 1..n : f[i] = f[j] => i = j
    BY <1>5 DEF Chains
  <2>2. f \in Injection(1..n, all)
    BY <2>1 DEF Injection, IsInjective
  <2>3. Cardinality(1..n) = n
    <3>1. 1 \in Int /\ n \in Int
      BY <1>1
    <3>2. Cardinality(1..n) = IF 1 > n THEN 0 ELSE n - 1 + 1
      BY <3>1, FS_Interval
    <3> QED
      BY <1>1, <3>2
  <2>4. f \in Surjection(1..n, all)
    BY <1>1, <2>2, <2>3, FS_Injection
  <2> QED
    BY <2>4 DEF Surjection
<1> QED
  BY <1>1, <1>4, <1>5, <1>6

LEMMA TipHasNoSuccessor ==
  ASSUME NEW A, IsFiniteSet(A), NEW id, NEW a \in Accepted(A, id), NEW b \in Revisions(A, id),
         b # a, b.supersedes = a.revision_id, b.supersedes # None
  PROVE  FALSE
<1>0. Cardinality(Revisions(A, id)) \in Nat
  BY ChainsCoverAll
<1>1. PICK all, n : all = Revisions(A, id) /\ n = Cardinality(all) /\ n \in Nat
  BY <1>0
<1>2. PICK f \in Chains(all) : a = f[n] /\ \A r \in all : \E i \in 1..n : r = f[i]
  BY <1>1, ChainsCoverAll
<1>3. \A r, s \in all : r.revision_id = s.revision_id => r = s
  BY <1>1, ChainsCoverAll
<1>4. /\ f \in [1..n -> all] /\ f[1].supersedes = None
      /\ \A i \in 1..(n - 1) : {r \in all : Supersedes(r, f[i])} = {f[i + 1]}
      /\ \A i, j \in 1..n : i # j => f[i] # f[j]
  <2>1. f \in [1..n -> all]
    BY <1>1, <1>2, Zenon DEF Chains
  <2>2. f[1].supersedes = None
    BY <1>1, <1>2, Zenon DEF Chains
  <2>3. \A i \in 1..(n - 1) : {r \in all : Supersedes(r, f[i])} = {f[i + 1]}
    BY <1>1, <1>2, Zenon DEF Chains
  <2>4. \A i, j \in 1..n : i # j => f[i] # f[j]
    BY <1>1, <1>2, Zenon DEF Chains
  <2> QED
    BY <2>1, <2>2, <2>3, <2>4
<1>5. PICK j \in 1..n : b = f[j]
  BY <1>1, <1>2
<1>6. j - 1 \in 1..(n - 1) /\ (j - 1) + 1 = j /\ j - 1 \in 1..n /\ n \in 1..n /\ j - 1 # n
  <2>1. j # 1
    BY <1>4, <1>5
  <2> QED
    BY <1>1, <2>1
<1>7. b \in {r \in all : Supersedes(r, f[j - 1])}
  BY <1>4, <1>5, <1>6
<1>8. f[j - 1].revision_id = f[n].revision_id
  BY <1>2, <1>7 DEF Supersedes
<1>9. f[j - 1] = f[n]
  BY <1>3, <1>4, <1>6, <1>8
<1> QED
  BY <1>4, <1>6, <1>9

LEMMA OthersAreSuperseded ==
  ASSUME NEW A, IsFiniteSet(A), NEW id, NEW a \in Accepted(A, id), NEW b \in Revisions(A, id),
         b # a
  PROVE  \E c \in Revisions(A, id) : c # b /\ c.supersedes = b.revision_id
<1>0. Cardinality(Revisions(A, id)) \in Nat
  BY ChainsCoverAll
<1>1. PICK all, n : all = Revisions(A, id) /\ n = Cardinality(all) /\ n \in Nat
  BY <1>0
<1>2. PICK f \in Chains(all) : a = f[n] /\ \A r \in all : \E i \in 1..n : r = f[i]
  BY <1>1, ChainsCoverAll
<1>3. /\ f \in [1..n -> all]
      /\ \A i \in 1..(n - 1) : {r \in all : Supersedes(r, f[i])} = {f[i + 1]}
      /\ \A i, j \in 1..n : i # j => f[i] # f[j]
  BY <1>1, <1>2 DEF Chains
<1>4. PICK j \in 1..n : b = f[j]
  BY <1>1, <1>2
<1>5. j \in 1..(n - 1) /\ j + 1 \in 1..n /\ j # j + 1
  <2>1. j # n
    BY <1>2, <1>4
  <2> QED
    BY <1>1, <2>1
<1>6. f[j + 1] \in all /\ f[j + 1] # f[j] /\ Supersedes(f[j + 1], f[j])
  BY <1>3, <1>5
<1> QED
  BY <1>1, <1>4, <1>6 DEF Supersedes

LEMMA KeyFacts ==
  ASSUME NEW key \in Keys
  PROVE  /\ BorrowKey[1] = Interval.interval_id /\ BorrowKey[2] = "SHORT"
         /\ key # BorrowKey => key[2] \in SIDES /\ key = <<key[1], key[2]>>
  BY DEF BorrowKey, Keys

(* Every revision of an action says of a side what Entitles says.          *)
LEMMA RevisionsAgree ==
  ASSUME NEW F, Steady(F), NEW key \in Keys, key # BorrowKey, NEW a \in Known(F),
         a.action_id = key[1]
  PROVE  Entitles(F, key) <=> Entitled(Holdings, a, key[2]) # {}
<1>1. key[2] \in SIDES
  BY KeyFacts
<1>2. ASSUME NEW b \in Known(F), b.action_id = a.action_id, Entitled(Holdings, b, key[2]) # {}
      PROVE  Entitled(Holdings, a, key[2]) # {}
  BY <1>1, <1>2 DEF Steady
<1> QED
  BY <1>2 DEF Entitles

LEMMA Unambiguous ==
  ASSUME NEW holdings, NEW action, NEW side, NEW settlements, NEW w,
         _distribution_for_side(holdings, action, side, settlements, w).status = "known",
         ~Idle(Entitled(holdings, action, side), action, w)
  PROVE  ~Ambiguous(holdings, action, side, Matched(settlements, action, side))
<1>1. Unknown("unknown").status # "known"
  BY ResultFields DEF Unknown
<1> QED
  BY <1>1, Zenon DEF _distribution_for_side, Idle

(* The payments that a calculation takes, without a window.                *)
LEMMA TakenArePaid ==
  ASSUME NEW all, NEW now \in Nat, FactsOK(all, now)
  PROVE  /\ \A key, a : key # BorrowKey /\ a.action_id = key[1] =>
              /\ Taken(Paid(all), a, key[2], Whole) = PaidFor(all, key)
              /\ Matched(Paid(all), a, key[2]) = PaidFor(all, key)
         /\ Fees(Interval, Paid(all), Whole, now) = PaidFor(all, BorrowKey)
         /\ \A key : PaymentsOK(PaidFor(all, key))
<1>1. \A s \in Paid(all) : contains(Whole, s.occurred_at) /\ _known_by(s, now)
  <2>1. \A s \in Paid(all) : s.occurred_at \in 0..Forever /\ s.knowledge_at \in 0..now
    BY FactsAreTyped DEF PaymentsOK
  <2>2. None \notin Nat
    BY DEF None
  <2> QED
    BY <2>1, <2>2, WindowFields, ForeverIsNat DEF contains, _known_by, None
<1>2. BorrowKey[1] = Interval.interval_id
  BY DEF BorrowKey
<1>3. \A key : PaymentsOK(PaidFor(all, key))
  <2> TAKE key
  <2>1. PaidFor(all, key) \in SUBSET Paid(all)
    BY DEF PaidFor
  <2> QED
    BY <2>1, FactsAreTyped, FS_Subset DEF PaymentsOK
<1> QED
  BY <1>1, <1>2, <1>3 DEF Taken, Matched, PaidFor, Fees

(* A known result of somebody entitled, in its parts.                      *)
IsOf(F, r, all, now, key) ==
  LET net == Net(PaidFor(all, key))
  IN  /\ ~Unusable(PaidFor(all, key)) /\ net \in Int
      /\ r.payments = {s.payment_id : s \in PaidFor(all, key)}
      /\ r.settled = net /\ r.cash_delta = Sign(key[2]) * net
      /\ r.balances = Owing(Chosen(all, key[1]), key, net)
      /\ key # BorrowKey =>
           /\ Chosen(all, key[1]) \in Accepted(Known(all), key[1])
           /\ \A s \in PaidFor(all, key) : OneOnly(F, s, key)
      /\ key = BorrowKey =>
           Interval.daily # None /\ Interval.currency /\ _known_by(Interval, now)

LEMMA DistributionParts ==
  ASSUME NEW side, NEW action, NEW settlements, PaymentsOK(settlements), ActionOK(action),
         ~Unusable(Taken(settlements, action, side, Whole))
  PROVE  LET r == KnownResult(Holdings, action, side, settlements, Whole)
             n == Net(Taken(settlements, action, side, Whole))
         IN  /\ n \in Int /\ r.settled = n /\ r.cash_delta = Sign(side) * n
             /\ r.balances = Owed(side, Target(Entitled(Holdings, action, side), action, Whole) - n)
             /\ r.payments = {s.payment_id : s \in Taken(settlements, action, side, Whole)}
<1> DEFINE r == KnownResult(Holdings, action, side, settlements, Whole)
           n == Net(Taken(settlements, action, side, Whole))
           lots == Entitled(Holdings, action, side)
           t == Target(lots, action, Whole)
<1>1. OpeningOK(Whole)
  BY WindowFields, OpeningIsNothing DEF OpeningOK, None
<1>2. IsKnown(r, lots, action, side, Whole, n)
  BY <1>1, HoldingsAreOK, KnownParts
<1>3. r.payments = {s.payment_id : s \in Taken(settlements, action, side, Whole)}
  BY ResultFields DEF KnownResult
<1>4. OpeningNet(side, Whole) = 0 /\ Whole.opening.settled = 0 /\ ~Revised(action, Whole)
  BY WindowFields, OpeningIsNothing DEF OpeningNet, Revised
<1> HIDE DEF r, n, lots
<1>5. Delta(lots, action, Whole) = t - 0
  BY <1>4 DEF Delta
<1>6. n \in Int /\ t \in Nat
  BY <1>2 DEF IsKnown
<1>7. 0 + (t - 0) - n = t - n /\ 0 + n = n
  <2> HIDE DEF t
  <2> QED
    BY <1>6
<1> HIDE DEF t
<1>8. r.settled = n /\ r.cash_delta = Sign(side) * n /\ r.balances = Owed(side, t - n)
  BY <1>2, <1>4, <1>5, <1>7 DEF IsKnown
<1> QED
  BY <1>3, <1>6, <1>8 DEF r, n, lots, t

LEMMA DistributionIsOf ==
  ASSUME NEW F, Steady(F), NEW all, all \subseteq F, NEW now \in Nat, FactsOK(all, now),
         NEW key \in Keys, key # BorrowKey, NEW r, r = View(all, key, now, Whole)
  PROVE  /\ ~Entitles(F, key) => r \in {NothingOwed, Unknown("unknown")}
         /\ r.status = "known" /\ Entitles(F, key) /\ Revisions(Known(all), key[1]) # {} =>
              IsOf(F, r, all, now, key)
<1> DEFINE a == Chosen(all, key[1])
           of == _distribution_for_side(Holdings, a, key[2], Paid(all), Whole)
<1>1. \/ r = NothingOwed /\ Revisions(Known(all), key[1]) = {}
      \/ r = Unknown("unknown")
      \/ a \in Known(all) /\ a.action_id = key[1] /\ r = of
  <2>1. now \in {Eventually, now}
    OBVIOUS
  <2> QED
    BY <2>1, ViewCases
<1>2. Unknown("unknown").status # "known"
  BY ResultFields DEF Unknown
<1>3. ASSUME a \in Known(all), a.action_id = key[1], r = of
      PROVE  /\ ~Entitles(F, key) => r = NothingOwed
             /\ r.status = "known" /\ Entitles(F, key) /\ Revisions(Known(all), key[1]) # {} =>
                  IsOf(F, r, all, now, key)
  <2>1. ActionOK(a) /\ a \in Known(F)
    BY <1>3, FactsAreTyped DEF Known
  <2>2. Entitles(F, key) <=> Entitled(Holdings, a, key[2]) # {}
    <3> HIDE DEF a
    <3> QED
      BY <1>3, <2>1, RevisionsAgree
  <2>3. ~Inherited(Whole) /\ ~Future(a, Whole)
    <3>1. 0 + 0 + 0 + 0 = 0
      OBVIOUS
    <3>2. a.ex_at \in 0..Forever /\ Forever \in Nat
      BY <2>1, ForeverIsNat DEF ActionOK
    <3> QED
      BY <3>1, <3>2, WindowFields, OpeningIsNothing DEF Inherited, Future
  <2>4. Idle(Entitled(Holdings, a, key[2]), a, Whole) <=> ~Entitles(F, key)
    BY <2>2, <2>3 DEF Idle
  <2>5. ~Entitles(F, key) => r = NothingOwed
    <3>1. Idle(Entitled(Holdings, a, key[2]), a, Whole) => of = NothingOwed
      BY DistributionCases
    <3> QED
      BY <1>3, <2>4, <3>1
  <2>6. ASSUME r.status = "known", Entitles(F, key), Revisions(Known(all), key[1]) # {}
        PROVE  IsOf(F, r, all, now, key)
    <3>1. /\ ~Unusable(Taken(Paid(all), a, key[2], Whole))
          /\ r = KnownResult(Holdings, a, key[2], Paid(all), Whole)
      <4> HIDE DEF a
      <4> QED
        BY <1>3, <2>4, <2>6, KnownCases
    <3>2. Taken(Paid(all), a, key[2], Whole) = PaidFor(all, key)
          /\ Matched(Paid(all), a, key[2]) = PaidFor(all, key)
      <4> HIDE DEF a
      <4> QED
        BY <1>3, TakenArePaid
    <3>3. PaymentsOK(Paid(all))
      BY FactsAreTyped
    <3>4. /\ Net(PaidFor(all, key)) \in Int /\ r.settled = Net(PaidFor(all, key))
          /\ r.cash_delta = Sign(key[2]) * Net(PaidFor(all, key))
          /\ r.balances = Owed(key[2], Target(Entitled(Holdings, a, key[2]), a, Whole)
                                         - Net(PaidFor(all, key)))
          /\ r.payments = {s.payment_id : s \in PaidFor(all, key)}
      <4> HIDE DEF a
      <4> QED
        BY <2>1, <3>1, <3>2, <3>3, DistributionParts
    <3>5. r.balances = Owing(a, key, Net(PaidFor(all, key)))
      BY <3>4 DEF Owing
    <3>6. a \in Accepted(Known(all), key[1])
      <4>1. Accepted(Known(all), key[1]) = {} => r = Unknown("unknown")
        <5>1. {x \in Known(all) : _known_by(x, now)} = Known(all)
          BY FactsAreTyped DEF _known_by, Eventually, None
        <5> QED
          BY <2>6, <5>1, Zenon DEF View, calculate_distributions
      <4> QED
        BY <1>2, <2>6, <4>1 DEF Chosen
    <3>7. ASSUME NEW s \in PaidFor(all, key) PROVE OneOnly(F, s, key)
      <4> SUFFICES ASSUME s.side = Both, NEW k \in Keys, k # BorrowKey, k # key, k[1] = key[1],
                          Entitles(F, k)
                   PROVE  FALSE
        BY DEF OneOnly
      <4>1. ~Ambiguous(Holdings, a, key[2], PaidFor(all, key))
        <5> HIDE DEF a
        <5> QED
          BY <1>3, <2>4, <2>6, <3>2, Unambiguous
      <4>2. \A h \in Holdings : h.side # key[2] => ~_qualified(h, a)
        BY <4>1 DEF Ambiguous
      <4>3. k[2] # key[2] /\ Entitled(Holdings, a, k[2]) # {}
        <5>1. k[2] # key[2]
          BY KeyFacts
        <5> HIDE DEF a
        <5> QED
          BY <1>3, <2>1, <5>1, RevisionsAgree
      <4>4. PICK h \in Entitled(Holdings, a, k[2]) : TRUE
        BY <4>3
      <4>5. h \in Holdings /\ h.side = k[2] /\ _qualified(h, a)
        BY <4>4 DEF Entitled
      <4> QED
        BY <4>2, <4>3, <4>5
    <3> HIDE DEF a
    <3> QED
      BY <3>1, <3>2, <3>4, <3>5, <3>6, <3>7 DEF IsOf, a
  <2> QED
    BY <2>5, <2>6
<1> QED
  BY <1>1, <1>2, <1>3

LEMMA FeeIs ==
  ASSUME NEW interval, NEW settlements, NEW w, NEW t, NEW exact, NEW target
  PROVE  calculate_borrow(interval, settlements, w, t, exact, target, 0) =
           IF interval.days = 0 \/ interval.quantity = 0 THEN NothingOwed
           ELSE IF \/ ~_known_by(interval, t) \/ interval.daily = None \/ ~interval.currency
                   \/ Unusable(Fees(interval, settlements, w, t))
           THEN Unknown("unknown")
           ELSE KnownFee(interval, settlements, w, t, exact, target)
  BY Zenon DEF calculate_borrow, KnownFee, Fees, FeeDue, FeeOwed

LEMMA BorrowIsOf ==
  ASSUME NEW F, NEW all, NEW now \in Nat, FactsOK(all, now), NEW r,
         r = View(all, BorrowKey, now, Whole)
  PROVE  /\ ~Entitles(F, BorrowKey) => r = NothingOwed
         /\ Entitles(F, BorrowKey) /\ r.status = "known" => IsOf(F, r, all, now, BorrowKey)
         /\ Entitles(F, BorrowKey) /\ Interval.daily # None /\ Interval.currency
              /\ _known_by(Interval, now) /\ r.status # "known" => Unusable(PaidFor(all, BorrowKey))
<1>1. PICK fees, z : fees = PaidFor(all, BorrowKey) /\ z = 0
  OBVIOUS
<1>2. r = calculate_borrow(Interval, Paid(all), Whole, now, z, z, 0)
  BY <1>1 DEF View
<1>3. fees = Fees(Interval, Paid(all), Whole, now) /\ PaymentsOK(fees)
  BY <1>1, TakenArePaid
<1>4. ~Entitles(F, BorrowKey) => r = NothingOwed
  BY <1>2, FeeIs DEF Entitles
<1>5. ASSUME Entitles(F, BorrowKey)
      PROVE  \/ /\ r = Unknown("unknown")
                /\ \/ ~_known_by(Interval, now) \/ Interval.daily = None \/ ~Interval.currency
                   \/ Unusable(fees)
             \/ /\ _known_by(Interval, now) /\ Interval.daily # None /\ Interval.currency
                /\ ~Unusable(fees) /\ r = KnownFee(Interval, Paid(all), Whole, now, z, z)
  <2>1. Interval.days # 0 /\ Interval.quantity # 0
    BY <1>5 DEF Entitles
  <2> QED
    BY <1>2, <1>3, <2>1, FeeIs
<1>6. ASSUME Entitles(F, BorrowKey), r.status = "known" PROVE IsOf(F, r, all, now, BorrowKey)
  <2>1. Unknown("unknown").status # "known"
    BY ResultFields DEF Unknown
  <2>2. /\ _known_by(Interval, now) /\ Interval.daily # None /\ Interval.currency
        /\ ~Unusable(fees) /\ r = KnownFee(Interval, Paid(all), Whole, now, z, z)
    BY <1>5, <1>6, <2>1
  <2>3. PICK net \in Int : net = Net(fees)
    BY <1>3, <2>2, NetIsInt
  <2>4. /\ r.cash_delta = -net /\ r.settled = 0 + net
        /\ r.balances = FeeBalances(FeeOwed(Interval, Whole, z, z, net))
        /\ r.payments = {s.payment_id : s \in fees}
    <3>1. r.payments = {s.payment_id : s \in fees}
      BY <1>3, <2>2, ResultFields DEF KnownFee
    <3> QED
      BY <1>3, <2>2, <2>3, <3>1, FeeFields
  <2>5. PICK due \in Int : due = FeeDue(Interval, z)
    <3>1. PICK daily \in Nat, days \in Nat : daily = Interval.daily /\ days = Interval.days
      BY <2>2, IntervalAssumption, ForeverIsNat
    <3>2. z + days * daily \in Int
      BY <1>1
    <3> QED
      BY <3>1, <3>2, Rounding DEF FeeDue
  <2>6. FeeOwed(Interval, Whole, z, z, net) = due - net /\ 0 + net = net
    <3>1. FeeOwed(Interval, Whole, z, z, net) = due - (0 + net)
      BY <2>5 DEF FeeOwed
    <3> QED
      BY <3>1
  <2>7. Sign(BorrowKey[2]) * net = -net
    BY DEF Sign, BorrowKey
  <2>8. Owing(Chosen(all, BorrowKey[1]), BorrowKey, net) = FeeBalances(due - net)
    BY <1>1, <2>5 DEF Owing
  <2> QED
    BY <1>1, <2>2, <2>3, <2>4, <2>6, <2>7, <2>8 DEF IsOf
<1>7. KnownFee(Interval, Paid(all), Whole, now, z, z).status = "known"
  BY FeeFields
<1> QED
  BY <1>1, <1>4, <1>5, <1>6, <1>7
(* A result that becomes an event has one payment, or none. *)
One(all, key, r) ==
  \/ PaidFor(all, key) = {} /\ r.payments = {} /\ r.settled = 0
  \/ \E s \in PaidFor(all, key) :
       PaidFor(all, key) = {s} /\ r.payments = {s.payment_id} /\ r.settled = Signed(s)

LEMMA NetOfFew ==
  /\ Net({}) = 0
  /\ \A s : Signed(s) \in Int => Net({s}) = Signed(s)
<1>1. Net({}) = 0
  <2>1. PICK f : f = [p \in {} |-> Signed(p)]
    OBVIOUS
  <2>2. DOMAIN f = {} /\ IsFiniteSet({})
    BY <2>1, FS_EmptySet
  <2>3. SumFunction(f) = 0
    BY <2>2, SumIs, SumOfNothing
  <2> QED
    BY <2>1, <2>3 DEF Net
<1>2. ASSUME NEW s, Signed(s) \in Int PROVE Net({s}) = Signed(s)
  <2>1. PICK f, x : f = [p \in {s} |-> Signed(p)] /\ x = Signed(s)
    OBVIOUS
  <2>2. DOMAIN f = {s} /\ f[s] = x /\ IsFiniteSet({s}) /\ x \in Int
    BY <1>2, <2>1, FS_Singleton
  <2>3. IntOn(f, {s})
    BY <2>2 DEF IntOn
  <2>4. Sum(f, {s}) = f[s] + Sum(f, {s} \ {s})
    BY <2>3, SumSplits
  <2>5. {s} \ {s} = {} /\ Sum(f, {}) = 0
    BY <2>2, SumOfNothing
  <2>6. SumFunction(f) = Sum(f, {s})
    BY <2>2, SumIs
  <2>7. SumFunction(f) = x
    BY <2>2, <2>4, <2>5, <2>6
  <2> QED
    BY <2>1, <2>7 DEF Net
<1> QED
  BY <1>1, <1>2

LEMMA OnePayment ==
  ASSUME NEW F, NEW all, NEW now \in Nat, FactsOK(all, now), NEW key, NEW r,
         IsOf(F, r, all, now, key), Cardinality(r.payments) <= 1
  PROVE  One(all, key, r)
<1>1. PICK paid, ids : paid = PaidFor(all, key) /\ ids = {s.payment_id : s \in paid}
  OBVIOUS
<1>2. /\ r.payments = ids /\ r.settled = Net(paid) /\ ~Unusable(paid)
  BY <1>1 DEF IsOf
<1>3. PaymentsOK(paid)
  BY <1>1, TakenArePaid
<1>4. IsFiniteSet(ids)
  <2>1. [s \in paid |-> s.payment_id] \in Surjection(paid, ids)
    BY <1>1 DEF Surjection
  <2> QED
    BY <1>3, <2>1, FS_Surjection DEF PaymentsOK
<1>5. ASSUME NEW s \in paid, NEW t \in paid, s # t PROVE FALSE
  <2>1. s.payment_id # t.payment_id
    BY <1>2, <1>5 DEF Unusable, Conflicting
  <2>2. PICK i, j : i = s.payment_id /\ j = t.payment_id
    OBVIOUS
  <2>3. i \in ids /\ j \in ids /\ i # j
    BY <1>1, <2>1, <2>2
  <2>4. Cardinality({i}) = 1 /\ IsFiniteSet({i}) /\ j \notin {i}
    BY <2>3, FS_Singleton
  <2>5. Cardinality({i} \cup {j}) = 2
    BY <2>4, FS_AddElement
  <2>6. ({i} \cup {j}) \in SUBSET ids
    BY <2>3
  <2>7. 2 <= Cardinality(ids) /\ Cardinality(ids) \in Nat
    BY <1>4, <2>5, <2>6, FS_Subset, FS_CardinalityType
  <2> QED
    BY <1>2, <2>7
<1>6. CASE paid = {}
  BY <1>1, <1>2, <1>6, NetOfFew DEF One
<1>7. ASSUME NEW s \in paid PROVE One(all, key, r)
  <2>1. paid = {s} /\ ids = {s.payment_id}
    BY <1>1, <1>5
  <2>2. Signed(s) \in Int
    BY <1>2, <1>3 DEF PaymentsOK, Unusable, Signed
  <2>3. Net({s}) = Signed(s)
    BY <2>2, NetOfFew
  <2>4. r.settled = Signed(s)
    BY <1>2, <2>1, <2>3
  <2> QED
    BY <1>1, <1>2, <2>1, <2>4 DEF One
<1> QED
  BY <1>6, <1>7

(* What a known result of a key is, of which something is known.           *)
LEMMA ResultIs ==
  ASSUME NEW F, Steady(F), NEW all, all \subseteq F, NEW now \in Nat, FactsOK(all, now),
         NEW key \in Keys, NEW r, r = View(all, key, now, Whole), r.status = "known",
         Cardinality(r.payments) <= 1,
         key = BorrowKey \/ Revisions(Known(all), key[1]) # {}
  PROVE  \/ ~Entitles(F, key) /\ r = NothingOwed
         \/ Entitles(F, key) /\ IsOf(F, r, all, now, key) /\ One(all, key, r)
<1>1. Unknown("unknown").status # "known"
  BY ResultFields DEF Unknown
<1>2. ~Entitles(F, key) => r = NothingOwed
  <2>1. CASE key = BorrowKey
    BY <2>1, BorrowIsOf
  <2>2. CASE key # BorrowKey
    BY <1>1, <2>2, DistributionIsOf
  <2> QED
    BY <2>1, <2>2
<1>3. ASSUME Entitles(F, key) PROVE IsOf(F, r, all, now, key)
  <2>1. CASE key = BorrowKey
    BY <1>3, <2>1, BorrowIsOf
  <2>2. CASE key # BorrowKey
    BY <1>3, <2>2, DistributionIsOf
  <2> QED
    BY <2>1, <2>2
<1> QED
  BY <1>2, <1>3, OnePayment
-----------------------------------------------------------------------------
(* The author's invariant: what holds of the last result p of a key, and   *)
(* of an event x that was made of such results.                            *)

Kind(key) == IF key = BorrowKey THEN "borrow" ELSE "distribution"
Shape(x) ==
  /\ x.named = x.unavailable
  /\ x.kind = <<Kind(x.key), IF x.named THEN "unavailable"
                             ELSE IF x.payment = None THEN "accrual" ELSE "settlement">>
(* Once something was posted of it the fee is known, until payments        *)
(* disagree.                                                               *)
Sure(all, now, p) ==
  /\ Interval.daily # None /\ Interval.currency /\ _known_by(Interval, now)
  /\ p.balances = Owing(None, BorrowKey, p.settled)
  /\ p.status = "unknown" => Unusable(PaidFor(all, BorrowKey))
IsPaid(all, key, p) == \E s \in PaidFor(all, key) : p.settled = Signed(s)
KeyIs(F, all, now, key, p) ==
  /\ ~Entitles(F, key) => p.balances = NoBalances /\ p.settled = 0
  /\ p.settled = 0 \/ IsPaid(all, key, p)
  /\ key = BorrowKey /\ p.settled # 0 => Sure(all, now, p)
Pays(F, all, x, p) ==
  \E s \in PaidFor(all, x.key) :
    s.payment_id = x.payment /\ p.settled = Signed(s) /\ OneOnly(F, s, x.key)
(* What an accrual says still holds, or its revision does not.             *)
Accrues(all, x, p) ==
  \E a \in Known(all) :
    /\ a.action_id = x.key[1] /\ a.revision_id = x.revision
    /\ p.balances = Owing(a, x.key, p.settled) \/ Superseded(all, a)
(* The times that the events of a key may have. *)
TimesFor(all, key) ==
  {s.occurred_at : s \in PaidFor(all, key)}
    \cup IF key = BorrowKey THEN {Interval.days}
         ELSE {a.ex_at : a \in Revisions(Known(all), key[1])}
EventIs(F, all, now, x, p) ==
  /\ Shape(x) /\ x.knowledge_at <= now
  /\ ~x.named /\ ~Entitles(F, x.key) => x.deltas = NoBalances /\ x.payment = None
  /\ x.payment # None => Pays(F, all, x, p)
  /\ ~x.named /\ Entitles(F, x.key) => x.occurred_at \in TimesFor(all, x.key)
  /\ ~x.named /\ Entitles(F, x.key) /\ x.key = BorrowKey => Sure(all, now, p)
  /\ ~x.named /\ Entitles(F, x.key) /\ x.key # BorrowKey /\ x.payment = None => Accrues(all, x, p)
(* Of two events, the one that was made first.                             *)
InOrder(F, x, y) ==
  /\ x.payment # None => x.payment # y.payment
  /\ x.key = y.key /\ ~x.named /\ ~y.named /\ Entitles(F, x.key) =>
       x.occurred_at <= y.occurred_at /\ x.knowledge_at <= y.knowledge_at

LEMMA MoreIsKnown ==
  ASSUME NEW F, NEW all, NEW all2, all \subseteq all2, NEW now \in Nat, NEW now2 \in Nat,
         now <= now2
  PROVE  /\ \A key, p : KeyIs(F, all, now, key, p) => KeyIs(F, all2, now2, key, p)
         /\ \A x, p : x.knowledge_at \in Nat /\ EventIs(F, all, now, x, p) => EventIs(F, all2, now2, x, p)
<1>1. Known(all) \subseteq Known(all2) /\ \A key : PaidFor(all, key) \subseteq PaidFor(all2, key)
  BY DEF Known, Paid, PaidFor
<1>2. \A p : Sure(all, now, p) => Sure(all2, now2, p)
  <2>1. _known_by(Interval, now) => _known_by(Interval, now2)
    <3>1. Interval.knowledge_at \in Nat \cup {None} /\ None \notin Nat
      BY IntervalAssumption DEF None
    <3> QED
      BY <3>1 DEF _known_by, Eventually
  <2>2. Unusable(PaidFor(all, BorrowKey)) => Unusable(PaidFor(all2, BorrowKey))
    BY <1>1 DEF Unusable, Conflicting
  <2> QED
    BY <2>1, <2>2 DEF Sure
<1>3. \A key, p : IsPaid(all, key, p) => IsPaid(all2, key, p)
  BY <1>1 DEF IsPaid
<1>4. \A key, p : KeyIs(F, all, now, key, p) => KeyIs(F, all2, now2, key, p)
  BY <1>2, <1>3 DEF KeyIs
<1>5. \A x, p : Pays(F, all, x, p) => Pays(F, all2, x, p)
  BY <1>1 DEF Pays
<1>6. \A key : TimesFor(all, key) \subseteq TimesFor(all2, key)
  BY <1>1 DEF TimesFor, Revisions
<1>7. \A a : Superseded(all, a) => Superseded(all2, a)
  BY <1>1 DEF Superseded
<1>8. \A x, p : Accrues(all, x, p) => Accrues(all2, x, p)
  BY <1>1, <1>7 DEF Accrues
<1>9. ASSUME NEW x, NEW p, x.knowledge_at \in Nat, EventIs(F, all, now, x, p)
      PROVE  EventIs(F, all2, now2, x, p)
  <2>1. x.knowledge_at <= now2
    BY <1>9 DEF EventIs
  <2> QED
    BY <1>2, <1>5, <1>6, <1>8, <1>9, <2>1 DEF EventIs
<1> QED
  BY <1>4, <1>9
-----------------------------------------------------------------------------
(* An event e that is made of a known result r of a key, after q.          *)

TimesOf(all, key, r) ==
  {s.occurred_at : s \in {x \in Paid(all) : x.payment_id \in r.payments}}
    \cup IF key = BorrowKey THEN {Interval.days}
         ELSE {a.ex_at : a \in Revisions(Known(all), key[1])}
Made(all, now, key, r, q, e) ==
  /\ e.key = key /\ e.knowledge_at = now /\ e.named = FALSE /\ e.unavailable = FALSE
  /\ Shape(e)
  /\ e.payment = IF r.payments = {} \/ (key # BorrowKey /\ r.settled = q.settled) THEN None
                 ELSE CHOOSE p \in r.payments : TRUE
  /\ Accepted(Known(all), key[1]) # {} => e.revision = Chosen(all, key[1]).revision_id
  /\ e.occurred_at =
       CHOOSE t \in TimesOf(all, key, r) : \A u \in TimesOf(all, key, r) : u <= t
  /\ e.deltas = [Minus(r.balances, q.balances) EXCEPT
                   !.cash = IF key = BorrowKey THEN r.cash_delta
                            ELSE Sign(key[2]) * (r.settled - q.settled)]

LEMMA PostingIsMade ==
  ASSUME NEW key, NEW r, r.status = "known"
  PROVE  Made(facts, clock, key, r, posted[key], result_posting(key, r))
<1>1. PICK payment, deltas, at, rev, kind :
        /\ payment = PaymentOf(key, r)
        /\ deltas = [Minus(r.balances, posted[key].balances) EXCEPT
                       !.cash = IF key = BorrowKey THEN r.cash_delta
                                ELSE Sign(key[2]) * (r.settled - posted[key].settled)]
        /\ at = Latest(key, r) /\ rev = revision_key(key)
        /\ kind = <<IF key = BorrowKey THEN "borrow" ELSE "distribution",
                    IF payment = None THEN "accrual" ELSE "settlement">>
  BY Zenon
<1>2. PICK e : e = result_posting(key, r)
  OBVIOUS
<1>3. e = [key |-> key, revision |-> rev, knowledge_at |-> clock, kind |-> kind,
           payment |-> payment, named |-> FALSE, occurred_at |-> at, unavailable |-> FALSE,
           deltas |-> deltas]
  <2>1. r.status # "unknown"
    OBVIOUS
  <2> QED
    BY <1>1, <1>2, <2>1 DEF result_posting
<1>4. /\ e.key = key /\ e.knowledge_at = clock /\ e.named = FALSE /\ e.unavailable = FALSE
      /\ e.revision = rev /\ e.kind = kind /\ e.payment = payment /\ e.occurred_at = at
      /\ e.deltas = deltas
  BY <1>3
<1>5. Shape(e)
  BY <1>1, <1>4 DEF Shape, Kind
<1>6. payment = IF r.payments = {} \/ (key # BorrowKey /\ r.settled = posted[key].settled)
                THEN None ELSE CHOOSE p \in r.payments : TRUE
  BY <1>1 DEF PaymentOf
<1>7. Accepted(Known(facts), key[1]) # {} => rev = Chosen(facts, key[1]).revision_id
  BY <1>1 DEF revision_key, Chosen
<1>8. at = CHOOSE t \in TimesOf(facts, key, r) : \A u \in TimesOf(facts, key, r) : u <= t
  BY <1>1 DEF Latest, TimesOf
<1>9. Made(facts, clock, key, r, posted[key], e)
  BY <1>1, <1>4, <1>5, <1>6, <1>7, <1>8 DEF Made
<1> QED
  BY <1>2, <1>9

LEMMA TimesAreOfKey ==
  ASSUME NEW F, Steady(F), NEW all, all \subseteq F, NEW key, NEW r, One(all, key, r)
  PROVE  TimesOf(all, key, r) = TimesFor(all, key)
<1>1. {x \in Paid(all) : x.payment_id \in r.payments} = PaidFor(all, key)
  <2>1. CASE PaidFor(all, key) = {} /\ r.payments = {}
    BY <2>1
  <2>2. ASSUME NEW s \in PaidFor(all, key), PaidFor(all, key) = {s}, r.payments = {s.payment_id}
        PROVE  {x \in Paid(all) : x.payment_id \in r.payments} = PaidFor(all, key)
    <3>1. /\ s \in Paid(all) /\ s \in Paid(F) /\ s.action_id = key[1]
          /\ key = BorrowKey \/ s.side \in {key[2], Both}
      BY DEF PaidFor, Paid
    <3>2. ASSUME NEW x \in Paid(all), x.payment_id = s.payment_id PROVE x = s
      <4>1. x \in Paid(F)
        BY DEF Paid
      <4>2. x.action_id = s.action_id /\ x.side = s.side
        BY <3>1, <3>2, <4>1 DEF Steady
      <4>3. x \in PaidFor(all, key)
        BY <3>1, <4>2 DEF PaidFor
      <4> QED
        BY <2>2, <4>3
    <3> QED
      BY <2>2, <3>1, <3>2
  <2> QED
    BY <2>1, <2>2 DEF One
<1> QED
  BY <1>1, Zenon DEF TimesOf, TimesFor

(* An event is of the latest time there is.                                *)
LEMMA MadeAtTheLatest ==
  ASSUME NEW F, Steady(F), NEW all, all \subseteq F, NEW now \in Nat, FactsOK(all, now),
         NEW key, NEW r, One(all, key, r), key = BorrowKey \/ Revisions(Known(all), key[1]) # {},
         NEW q, NEW e, Made(all, now, key, r, q, e)
  PROVE  /\ e.occurred_at \in TimesFor(all, key)
         /\ \A t \in TimesFor(all, key) : t <= e.occurred_at
<1> DEFINE times == TimesFor(all, key)
<1>1. TimesOf(all, key, r) = times
  BY TimesAreOfKey
<1>2. e.occurred_at = CHOOSE t \in times : \A u \in times : u <= t
  BY <1>1 DEF Made
<1>3. times \subseteq 0..Forever /\ times # {}
  <2>1. \A s \in PaidFor(all, key) : s.occurred_at \in 0..Forever
    BY FactsAreTyped DEF PaidFor, PaymentsOK
  <2>2. CASE key = BorrowKey
    BY <2>1, <2>2, IntervalAssumption DEF TimesFor
  <2>3. CASE key # BorrowKey
    <3>1. \A a \in Revisions(Known(all), key[1]) : a.ex_at \in 0..Forever
      BY FactsAreTyped DEF Revisions, ActionOK
    <3> QED
      BY <2>1, <2>3, <3>1 DEF TimesFor
  <2> QED
    BY <2>2, <2>3
<1> HIDE DEF times
<1>4. \E t \in times : \A u \in times : u <= t
  BY <1>3, ForeverIsNat, GreatestOf
<1>5. e.occurred_at \in times /\ \A t \in times : t <= e.occurred_at
  BY <1>2, <1>4
<1> QED
  BY <1>5 DEF times

(* What was owed and what was paid of a key, as one amount for each        *)
(* column of the journal.                                                  *)
FullOf(p, key) == [p.balances EXCEPT !.cash = Sign(key[2]) * p.settled]

LEMMA DifferencesAdd ==
  ASSUME NEW key, NEW q \in Prior, NEW r, r.balances \in Balances, r.settled \in Int,
         NEW deltas,
         deltas = [Minus(r.balances, q.balances) EXCEPT !.cash = Sign(key[2]) * (r.settled - q.settled)]
  PROVE  /\ Plus(FullOf(q, key), deltas) = FullOf(prior(r), key)
         /\ FullOf(q, key) \in Deltas /\ deltas \in Deltas /\ FullOf(prior(r), key) \in Deltas
         /\ r.balances = q.balances /\ r.settled = q.settled => deltas = NoBalances
<1>1. PICK sg \in {1, -1}, x \in Int, y \in Int : sg = Sign(key[2]) /\ x = q.settled /\ y = r.settled
  BY DEF Sign, Prior
<1>2. PICK a \in Balances, b \in Balances : a = q.balances /\ b = r.balances
  BY DEF Prior
<1>3. /\ a \in Deltas /\ b \in Deltas /\ DOMAIN NoBalances = Columns /\ NoBalances \in Deltas
      /\ \A c \in Columns : NoBalances[c] = 0
  BY BalancesAreDeltas
<1>4. sg * x \in Int /\ sg * y \in Int /\ sg * (y - x) \in Int /\ sg * x + sg * (y - x) = sg * y
  BY <1>1
<1>5. PICK f, g, d : /\ f = [a EXCEPT !.cash = sg * x] /\ g = [b EXCEPT !.cash = sg * y]
                     /\ d = [Minus(b, a) EXCEPT !.cash = sg * (y - x)]
  OBVIOUS
<1>6. f \in Deltas /\ g \in Deltas /\ d \in Deltas
  BY <1>3, <1>4, <1>5, DeltasAdd
<1>7. /\ f["cash"] = sg * x /\ g["cash"] = sg * y /\ d["cash"] = sg * (y - x)
      /\ \A c \in Columns \ {"cash"} : f[c] = a[c] /\ g[c] = b[c] /\ d[c] = b[c] - a[c]
  BY <1>3, <1>5 DEF Deltas, Minus, Columns
<1>8. Plus(f, d) = g
  <2>1. Plus(f, d) \in Deltas /\ \A c \in Columns : Plus(f, d)[c] = f[c] + d[c]
    BY <1>6, 0 \in Int, DeltasAdd
  <2>2. ASSUME NEW c \in Columns PROVE f[c] + d[c] = g[c]
    <3>1. CASE c = "cash"
      BY <1>4, <1>7, <3>1
    <3>2. CASE c # "cash"
      <4>1. PICK i \in Int, j \in Int : i = a[c] /\ j = b[c]
        BY <1>3 DEF Deltas
      <4> QED
        BY <1>7, <3>2, <4>1
    <3> QED
      BY <3>1, <3>2
  <2> QED
    BY <1>6, <2>1, <2>2 DEF Deltas
<1>9. a = b /\ x = y => d = NoBalances
  <2> SUFFICES ASSUME a = b, x = y PROVE d = NoBalances
    OBVIOUS
  <2>1. sg * (y - x) = 0
    BY <1>1
  <2>2. \A c \in Columns : d[c] = 0
    BY <1>3, <1>7, <2>1 DEF Deltas
  <2> QED
    BY <1>3, <1>6, <2>2 DEF Deltas
<1>10. FullOf(q, key) = f /\ FullOf(prior(r), key) = g /\ deltas = d
  BY <1>1, <1>2, <1>5 DEF FullOf, prior
<1> QED
  BY <1>1, <1>2, <1>6, <1>8, <1>9, <1>10

(* What an event that is posted of a key leaves true, and adds.            *)
Follows(F, all, now, key, q, e, p) ==
  /\ KeyIs(F, all, now, key, p) /\ EventIs(F, all, now, e, p)
  /\ \A x : EventOK(x) /\ x.key = key /\ EventIs(F, all, now, x, q) => EventIs(F, all, now, x, p)
  /\ Plus(FullOf(q, key), e.deltas) = FullOf(p, key)
  /\ \A x, y : EventOK(x) /\ EventIs(F, all, now, x, y) /\ (x.key = key => y = q) =>
       /\ InOrder(F, x, e)
       /\ x.key = key /\ x.named = FALSE /\ x.payment = None /\ e.payment = None
            /\ x.revision = e.revision => e.deltas = NoBalances

LEMMA PostsNothing ==
  ASSUME NEW F, NEW all, NEW now \in Nat, NEW key \in Keys, ~Entitles(F, key), NEW q \in Prior,
         KeyIs(F, all, now, key, q), NEW e, Made(all, now, key, NothingOwed, q, e)
  PROVE  Follows(F, all, now, key, q, e, prior(NothingOwed))
<1>1. PICK r, p : r = NothingOwed /\ p = prior(r)
  OBVIOUS
<1>2. /\ r.balances = NoBalances /\ r.settled = 0 /\ r.payments = {} /\ r.cash_delta = 0
      /\ p.balances = NoBalances /\ p.settled = 0 /\ p.status = "known"
  BY <1>1, ResultFields DEF NothingOwed, prior
<1>3. q.balances = NoBalances /\ q.settled = 0
  BY DEF KeyIs
<1>4. /\ e.key = key /\ e.named = FALSE /\ e.payment = None /\ Shape(e) /\ e.knowledge_at = now
  BY <1>1, <1>2 DEF Made
<1>5. e.deltas = [Minus(r.balances, q.balances) EXCEPT !.cash = Sign(key[2]) * (r.settled - q.settled)]
  <2>1. Sign(key[2]) * (0 - 0) = 0
    BY DEF Sign
  <2> QED
    BY <1>1, <1>2, <1>3, <2>1 DEF Made
<1>6. e.deltas = NoBalances /\ Plus(FullOf(q, key), e.deltas) = FullOf(p, key)
  <2>1. r.balances \in Balances /\ r.settled \in Int
    BY <1>2, BalancesAreDeltas
  <2>2. r.balances = q.balances /\ r.settled = q.settled
    BY <1>2, <1>3
  <2>3. /\ Plus(FullOf(q, key), e.deltas) = FullOf(prior(r), key)
        /\ r.balances = q.balances /\ r.settled = q.settled => e.deltas = NoBalances
    BY <1>5, <2>1, DifferencesAdd
  <2> QED
    BY <1>1, <2>2, <2>3
<1>7. KeyIs(F, all, now, key, p)
  BY <1>2 DEF KeyIs
<1>8. EventIs(F, all, now, e, p)
  BY <1>4, <1>6 DEF EventIs
<1>9. ASSUME NEW x, EventOK(x), x.key = key, EventIs(F, all, now, x, q) PROVE EventIs(F, all, now, x, p)
  <2>1. x.payment = None
    BY <1>9 DEF EventIs, EventOK, Shape
  <2> QED
    BY <1>9, <2>1 DEF EventIs
<1>10. ASSUME NEW x, x.key \in Keys PROVE InOrder(F, x, e)
  BY <1>4 DEF InOrder
<1>11. Follows(F, all, now, key, q, e, p)
  BY <1>6, <1>7, <1>8, <1>9, <1>10 DEF Follows, EventOK
<1> QED
  BY <1>1, <1>11
LEMMA SettledOnce ==
  ASSUME NEW all, NEW now \in Nat, FactsOK(all, now), NEW key, NEW r, One(all, key, r), NEW q,
         q.settled = 0 \/ IsPaid(all, key, q)
  PROVE  /\ \A s \in PaidFor(all, key) : r.settled = Signed(s)
         /\ r.payments = {} => r.settled = q.settled
         /\ r.settled = 0 \/ IsPaid(all, key, prior(r))
         /\ prior(r).settled = r.settled /\ prior(r).balances = r.balances
         /\ prior(r).status = r.status
         /\ r.payments # {} =>
              \E s \in PaidFor(all, key) :
                /\ PaidFor(all, key) = {s} /\ r.payments = {s.payment_id}
                /\ (CHOOSE p \in r.payments : TRUE) = s.payment_id /\ s.payment_id # None
                /\ r.settled = Signed(s) /\ (r.settled # q.settled => q.settled = 0)
<1>0. prior(r).settled = r.settled /\ prior(r).balances = r.balances /\ prior(r).status = r.status
  BY DEF prior
<1>1. q.settled = 0 \/ \E s \in PaidFor(all, key) : q.settled = Signed(s)
  BY DEF IsPaid
<1>2. CASE PaidFor(all, key) = {} /\ r.payments = {} /\ r.settled = 0
  BY <1>0, <1>1, <1>2
<1>3. ASSUME NEW s \in PaidFor(all, key), PaidFor(all, key) = {s}, r.payments = {s.payment_id},
             r.settled = Signed(s)
      PROVE  /\ \A t \in PaidFor(all, key) : r.settled = Signed(t)
             /\ r.payments # {} /\ IsPaid(all, key, prior(r))
             /\ (CHOOSE p \in r.payments : TRUE) = s.payment_id /\ s.payment_id # None
             /\ (r.settled # q.settled => q.settled = 0)
  <2>1. s.payment_id # None
    <3>1. PICK g \in Settlements : s.payment_id = g.payment_id
      BY FactIds DEF PaidFor
    <3> QED
      BY <3>1, SettlementsAssumption DEF None
  <2>2. (CHOOSE p \in r.payments : TRUE) = s.payment_id
    BY <1>3
  <2> QED
    BY <1>0, <1>1, <1>3, <2>1, <2>2 DEF IsPaid
<1> QED
  BY <1>0, <1>2, <1>3 DEF One

(* A payment is of one action and side.                                    *)
LEMMA PaymentsAreApart ==
  ASSUME NEW F, Steady(F), NEW all, all \subseteq F, NEW key \in Keys, NEW k \in Keys,
         NEW s \in PaidFor(all, key), NEW t \in PaidFor(all, k), s.payment_id = t.payment_id,
         OneOnly(F, t, k), Entitles(F, key), Entitles(F, k)
  PROVE  k = key
<1> SUFFICES ASSUME k # key PROVE FALSE
  OBVIOUS
<1>1. s.action_id = t.action_id /\ s.side = t.side
  <2>1. s \in Paid(F) /\ t \in Paid(F)
    BY DEF PaidFor, Paid
  <2> QED
    BY <2>1 DEF Steady
<1>2. key[1] = k[1]
  BY <1>1 DEF PaidFor
<1>3. ASSUME NEW y \in Keys, y # BorrowKey, Entitles(F, y) PROVE y[1] # BorrowKey[1]
  <2>1. PICK a \in Known(F) : a.action_id = y[1]
    BY <1>3 DEF Entitles
  <2> QED
    BY <2>1, KeyFacts DEF Steady
<1>4. key # BorrowKey /\ k # BorrowKey
  BY <1>2, <1>3
<1>5. key[2] # k[2]
  BY <1>2, <1>4, KeyFacts
<1>6. t.side = Both
  <2>1. s.side \in {key[2], Both} /\ t.side \in {k[2], Both}
    BY <1>4 DEF PaidFor
  <2> QED
    BY <1>1, <1>5, <2>1
<1> QED
  BY <1>2, <1>4, <1>6 DEF OneOnly

LEMMA PostsDistribution ==
  ASSUME NEW F, Steady(F), NEW all, all \subseteq F, NEW now \in Nat, FactsOK(all, now),
         NEW key \in Keys, key # BorrowKey, Entitles(F, key),
         NEW r, IsOf(F, r, all, now, key), One(all, key, r), r.balances \in Balances,
         NEW q \in Prior, KeyIs(F, all, now, key, q), NEW e, Made(all, now, key, r, q, e)
  PROVE  Follows(F, all, now, key, q, e, prior(r))
<1>1. PICK p, a : p = prior(r) /\ a = Chosen(all, key[1])
  OBVIOUS
<1>2. /\ p.settled = r.settled /\ p.balances = r.balances
      /\ \A s \in PaidFor(all, key) : r.settled = Signed(s)
      /\ r.payments = {} => r.settled = q.settled
      /\ r.settled = 0 \/ IsPaid(all, key, p)
  <2>1. q.settled = 0 \/ IsPaid(all, key, q)
    BY <1>1 DEF KeyIs
  <2> QED
    BY <1>1, <2>1, SettledOnce
<1>3. /\ a \in Accepted(Known(all), key[1]) /\ a \in Revisions(Known(all), key[1])
      /\ IsFiniteSet(Known(all)) /\ a \in Known(all) /\ a.action_id = key[1]
      /\ a.revision_id \in Nat /\ e.revision = a.revision_id
  <2>1. a \in Accepted(Known(all), key[1])
    BY <1>1 DEF IsOf
  <2>2. IsFiniteSet(Known(all))
    BY FactsAreTyped
  <2>3. a \in Revisions(Known(all), key[1])
    BY <2>1, <2>2, AcceptedAreRevisions
  <2>4. a \in Known(all) /\ a.action_id = key[1]
    BY <2>3 DEF Revisions
  <2> QED
    BY <1>1, <2>1, <2>2, <2>3, <2>4, FactIds DEF Made
<1>4. r.balances = Owing(a, key, r.settled) /\ r.settled \in Int
  BY <1>1 DEF IsOf
<1>5. \/ e.payment = None /\ r.settled = q.settled
      \/ \E s \in PaidFor(all, key) :
           /\ PaidFor(all, key) = {s} /\ e.payment = s.payment_id /\ s.payment_id # None
           /\ r.settled = Signed(s) /\ q.settled = 0 /\ r.settled # 0
  <2>1. CASE r.settled = q.settled
    BY <2>1 DEF Made
  <2>2. CASE r.settled # q.settled
    <3>1. r.payments # {}
      BY <1>2, <2>2
    <3>2. e.payment = CHOOSE i \in r.payments : TRUE
      BY <2>2, <3>1 DEF Made
    <3>3. PICK s \in PaidFor(all, key) :
                /\ PaidFor(all, key) = {s} /\ r.payments = {s.payment_id}
                /\ (CHOOSE i \in r.payments : TRUE) = s.payment_id /\ s.payment_id # None
                /\ r.settled = Signed(s) /\ (r.settled # q.settled => q.settled = 0)
      <4>1. q.settled = 0 \/ IsPaid(all, key, q)
        BY <1>1 DEF KeyIs
      <4> QED
        BY <3>1, <4>1, SettledOnce
    <3> QED
      BY <2>2, <3>2, <3>3
  <2> QED
    BY <2>1, <2>2
<1>6. /\ e.key = key /\ e.named = FALSE /\ Shape(e) /\ e.knowledge_at = now
  BY DEF Made
<1>7. /\ e.occurred_at \in TimesFor(all, key)
      /\ \A t \in TimesFor(all, key) : t <= e.occurred_at
  <2>1. Revisions(Known(all), key[1]) # {}
    BY <1>3
  <2> QED
    BY <2>1, MadeAtTheLatest
<1>8. /\ Plus(FullOf(q, key), e.deltas) = FullOf(p, key)
      /\ r.balances = q.balances /\ r.settled = q.settled => e.deltas = NoBalances
  <2>1. e.deltas = [Minus(r.balances, q.balances) EXCEPT
                      !.cash = Sign(key[2]) * (r.settled - q.settled)]
    BY DEF Made
  <2>2. PICK d : d = e.deltas
    OBVIOUS
  <2>3. d = [Minus(r.balances, q.balances) EXCEPT !.cash = Sign(key[2]) * (r.settled - q.settled)]
    BY <2>1, <2>2
  <2>4. /\ Plus(FullOf(q, key), d) = FullOf(prior(r), key)
        /\ r.balances = q.balances /\ r.settled = q.settled => d = NoBalances
    <3>1. q \in Prior /\ r.balances \in Balances /\ r.settled \in Int
      BY <1>4
    <3>2. PICK f : f = [Minus(r.balances, q.balances) EXCEPT
                          !.cash = Sign(key[2]) * (r.settled - q.settled)]
      OBVIOUS
    <3>3. /\ Plus(FullOf(q, key), f) = FullOf(prior(r), key)
          /\ r.balances = q.balances /\ r.settled = q.settled => f = NoBalances
      BY <3>1, <3>2, DifferencesAdd
    <3>4. d = f
      BY <2>3, <3>2
    <3> QED
      BY <3>3, <3>4
  <2> QED
    BY <1>1, <2>2, <2>4
<1>9. KeyIs(F, all, now, key, p)
  BY <1>2 DEF KeyIs
<1>10. EventIs(F, all, now, e, p)
  <2>1. e.payment # None => Pays(F, all, e, p)
    <3> SUFFICES ASSUME e.payment # None PROVE Pays(F, all, e, p)
      OBVIOUS
    <3>1. PICK s \in PaidFor(all, key) : e.payment = s.payment_id /\ r.settled = Signed(s)
      BY <1>5
    <3>2. OneOnly(F, s, key)
      BY DEF IsOf
    <3> QED
      BY <1>2, <1>6, <3>1, <3>2 DEF Pays
  <2>2. e.occurred_at \in TimesFor(all, e.key)
    BY <1>6, <1>7
  <2>3. Accrues(all, e, p)
    BY <1>2, <1>3, <1>4, <1>6 DEF Accrues
  <2>4. e.knowledge_at <= now
    BY <1>6
  <2> QED
    BY <1>6, <2>1, <2>2, <2>3, <2>4 DEF EventIs
<1>11. ASSUME NEW x, EventOK(x), x.key = key, EventIs(F, all, now, x, q) PROVE EventIs(F, all, now, x, p)
  <2>1. Pays(F, all, x, q) => Pays(F, all, x, p)
    BY <1>2, <1>11 DEF Pays
  <2>2. Accrues(all, x, q) => Accrues(all, x, p)
    <3> SUFFICES ASSUME Accrues(all, x, q) PROVE Accrues(all, x, p)
      OBVIOUS
    <3>1. PICK b \in Known(all) : b.action_id = x.key[1] /\ b.revision_id = x.revision
      BY DEF Accrues
    <3>2. CASE b = a
      BY <1>2, <1>4, <1>11, <3>1, <3>2 DEF Accrues
    <3>3. CASE b # a
      <4>1. b \in Revisions(Known(all), key[1])
        BY <1>11, <3>1 DEF Revisions
      <4>2. PICK c \in Revisions(Known(all), key[1]) : c # b /\ c.supersedes = b.revision_id
        BY <1>3, <3>3, <4>1, OthersAreSuperseded
      <4>3. Superseded(all, b)
        BY <1>11, <3>1, <4>2 DEF Superseded, Revisions
      <4> QED
        BY <3>1, <4>3 DEF Accrues
    <3> QED
      BY <3>2, <3>3
  <2> QED
    BY <1>11, <2>1, <2>2 DEF EventIs
<1>12. ASSUME NEW x, NEW y, EventOK(x), EventIs(F, all, now, x, y), x.key = key => y = q
       PROVE  InOrder(F, x, e)
  <2>1. ASSUME x.payment # None, x.payment = e.payment PROVE FALSE
    <3>1. PICK s \in PaidFor(all, key) :
           /\ PaidFor(all, key) = {s} /\ e.payment = s.payment_id
           /\ r.settled = Signed(s) /\ q.settled = 0 /\ r.settled # 0
      BY <1>5, <2>1
    <3>2. PICK t \in PaidFor(all, x.key) :
            t.payment_id = x.payment /\ y.settled = Signed(t) /\ OneOnly(F, t, x.key)
      BY <1>12, <2>1 DEF EventIs, Pays
    <3>3. CASE x.key = key
      BY <1>12, <3>1, <3>2, <3>3
    <3>4. CASE x.key # key
      <4>1. x.key \in Keys /\ Entitles(F, x.key)
        BY <1>12, <2>1 DEF EventOK, EventIs, Shape
      <4> QED
        BY <2>1, <3>1, <3>2, <3>4, <4>1, PaymentsAreApart
    <3> QED
      BY <3>3, <3>4
  <2>2. ASSUME x.key = key, ~x.named, Entitles(F, x.key)
        PROVE  x.occurred_at <= e.occurred_at /\ x.knowledge_at <= e.knowledge_at
    <3>1. x.occurred_at \in TimesFor(all, key) /\ x.knowledge_at <= now
      BY <1>12, <2>2 DEF EventIs
    <3> QED
      BY <1>6, <1>7, <3>1
  <2> QED
    BY <1>6, <2>1, <2>2 DEF InOrder
<1>13. ASSUME NEW x, EventIs(F, all, now, x, q), x.key = key, x.named = FALSE, x.payment = None,
              e.payment = None, x.revision = e.revision
       PROVE  e.deltas = NoBalances
  <2>1. PICK b \in Known(all) :
          /\ b.action_id = key[1] /\ b.revision_id = x.revision
          /\ q.balances = Owing(b, key, q.settled) \/ Superseded(all, b)
    BY <1>13 DEF EventIs, Accrues
  <2>2. b \in Revisions(Known(all), key[1])
    BY <2>1 DEF Revisions
  <2>3. b = a
    <3> SUFFICES ASSUME b # a PROVE FALSE
      OBVIOUS
    <3>1. \A u, v \in Revisions(Known(all), key[1]) : u.revision_id = v.revision_id => u = v
      BY <1>3, <2>2, ChainsCoverAll
    <3> QED
      BY <1>3, <1>13, <2>1, <2>2, <3>1
  <2>4. ~Superseded(all, a)
    <3> SUFFICES ASSUME NEW c \in Known(all), c # a, c.action_id = a.action_id,
                        c.supersedes = a.revision_id
                 PROVE  FALSE
      BY DEF Superseded
    <3>1. c \in Revisions(Known(all), key[1]) /\ c.supersedes # None
      BY <1>3 DEF Revisions, None
    <3> QED
      BY <1>3, <3>1, TipHasNoSuccessor
  <2>5. q.balances = Owing(a, key, q.settled)
    BY <2>1, <2>3, <2>4
  <2>6. r.settled = q.settled
    BY <1>5, <1>13
  <2> QED
    BY <1>4, <1>8, <2>5, <2>6
<1>14. Follows(F, all, now, key, q, e, p)
  <2>1. ASSUME NEW x, NEW y, EventOK(x), EventIs(F, all, now, x, y), x.key = key => y = q,
               x.key = key, x.named = FALSE, x.payment = None, e.payment = None,
               x.revision = e.revision
        PROVE  e.deltas = NoBalances
    BY <1>13, <2>1
  <2> QED
    BY <1>8, <1>9, <1>10, <1>11, <1>12, <2>1 DEF Follows
<1> QED
  BY <1>1, <1>14
LEMMA PostsFee ==
  ASSUME NEW F, Steady(F), NEW all, all \subseteq F, NEW now \in Nat, FactsOK(all, now),
         Entitles(F, BorrowKey), NEW r, IsOf(F, r, all, now, BorrowKey), One(all, BorrowKey, r),
         r.balances \in Balances,
         r.status = "known", NEW q \in Prior, KeyIs(F, all, now, BorrowKey, q), prior(r) # q,
         NEW e, Made(all, now, BorrowKey, r, q, e)
  PROVE  Follows(F, all, now, BorrowKey, q, e, prior(r))
<1>0. BorrowKey \in Keys
  BY DEF Keys
<1>1. PICK p, key : p = prior(r) /\ key = BorrowKey
  OBVIOUS
<1>2. /\ p.settled = r.settled /\ p.balances = r.balances /\ p.status = "known"
      /\ \A s \in PaidFor(all, key) : r.settled = Signed(s)
      /\ r.payments = {} => r.settled = q.settled
      /\ r.settled = 0 \/ IsPaid(all, key, p)
  <2>1. q.settled = 0 \/ IsPaid(all, key, q)
    BY <1>1 DEF KeyIs
  <2> QED
    BY <1>1, <2>1, SettledOnce
<1>3. /\ ~Unusable(PaidFor(all, key)) /\ r.settled \in Int
      /\ r.cash_delta = Sign(key[2]) * r.settled
      /\ Interval.daily # None /\ Interval.currency /\ _known_by(Interval, now)
      /\ \A x : x = r.settled => r.balances = Owing(None, key, x)
  BY <1>1 DEF IsOf, Owing
<1>4. Sure(all, now, p)
  BY <1>1, <1>2, <1>3 DEF Sure
<1>5. Sure(all, now, q) => r.settled # q.settled
  <2> SUFFICES ASSUME Sure(all, now, q), r.settled = q.settled PROVE FALSE
    OBVIOUS
  <2>1. q.status = "known" /\ q.balances = r.balances
    BY <1>1, <1>3 DEF Sure, Prior
  <2>2. q = [status |-> "known", settled |-> r.settled, balances |-> r.balances]
    BY <2>1 DEF Prior
  <2> QED
    BY <2>2 DEF prior
<1>6. /\ r.payments # {} => \E s \in PaidFor(all, key) :
           /\ PaidFor(all, key) = {s} /\ e.payment = s.payment_id /\ s.payment_id # None
           /\ r.settled = Signed(s) /\ (r.settled # q.settled => q.settled = 0)
      /\ r.payments = {} => e.payment = None
  <2>1. e.payment = IF r.payments = {} THEN None ELSE CHOOSE i \in r.payments : TRUE
    BY DEF Made
  <2>2. q.settled = 0 \/ IsPaid(all, key, q)
    BY <1>1 DEF KeyIs
  <2> QED
    BY <1>1, <2>1, <2>2, SettledOnce
<1>7. q.settled = 0
  <2>1. q.settled # 0 => Sure(all, now, q)
    BY DEF KeyIs
  <2> QED
    BY <1>2, <1>5, <1>6, <2>1
<1>8. /\ e.key = key /\ e.named = FALSE /\ Shape(e) /\ e.knowledge_at = now
  BY <1>1 DEF Made
<1>9. /\ e.occurred_at \in TimesFor(all, key)
      /\ \A t \in TimesFor(all, key) : t <= e.occurred_at
  <2>1. One(all, key, r) /\ Made(all, now, key, r, q, e)
    BY <1>1
  <2> QED
    BY <1>1, <2>1, MadeAtTheLatest
<1>10. Plus(FullOf(q, key), e.deltas) = FullOf(p, key)
  <2>1. Sign(key[2]) * (r.settled - 0) = Sign(key[2]) * r.settled
    BY <1>3
  <2>2. PICK d : d = [Minus(r.balances, q.balances) EXCEPT !.cash = Sign(key[2]) * (r.settled - q.settled)]
    OBVIOUS
  <2>3. Plus(FullOf(q, key), d) = FullOf(prior(r), key)
    BY <1>3, <2>2, DifferencesAdd
  <2>4. e.deltas = [Minus(r.balances, q.balances) EXCEPT !.cash = r.cash_delta]
    BY DEF Made
  <2>5. e.deltas = d
    BY <1>3, <1>7, <2>1, <2>2, <2>4
  <2> QED
    BY <1>1, <2>3, <2>5
<1>11. KeyIs(F, all, now, key, p)
  BY <1>1, <1>2, <1>4 DEF KeyIs
<1>12. EventIs(F, all, now, e, p)
  <2>1. e.payment # None => Pays(F, all, e, p)
    <3> SUFFICES ASSUME e.payment # None PROVE Pays(F, all, e, p)
      OBVIOUS
    <3>1. PICK s \in PaidFor(all, key) : e.payment = s.payment_id /\ r.settled = Signed(s)
      BY <1>6
    <3> QED
      BY <1>1, <1>2, <1>8, <3>1 DEF Pays, OneOnly
  <2>2. e.occurred_at \in TimesFor(all, e.key)
    BY <1>8, <1>9
  <2>3. e.knowledge_at <= now
    BY <1>8
  <2> QED
    BY <1>1, <1>4, <1>8, <2>1, <2>2, <2>3 DEF EventIs
<1>13. ASSUME NEW x, EventOK(x), x.key = key, EventIs(F, all, now, x, q) PROVE EventIs(F, all, now, x, p)
  <2>1. Pays(F, all, x, q) => Pays(F, all, x, p)
    BY <1>2, <1>13 DEF Pays
  <2> QED
    BY <1>1, <1>4, <1>13, <2>1 DEF EventIs
<1>14. ASSUME NEW x, NEW y, EventOK(x), EventIs(F, all, now, x, y), x.key = key => y = q
       PROVE  InOrder(F, x, e)
  <2>1. ASSUME x.payment # None, x.payment = e.payment PROVE FALSE
    <3>1. PICK s \in PaidFor(all, key) : e.payment = s.payment_id
      BY <1>6, <2>1
    <3>2. PICK t \in PaidFor(all, x.key) :
            t.payment_id = x.payment /\ y.settled = Signed(t) /\ OneOnly(F, t, x.key)
      BY <1>14, <2>1 DEF EventIs, Pays
    <3>3. CASE x.key = key
      <4>1. x.named = FALSE
        BY <1>14, <2>1 DEF EventOK, EventIs, Shape
      <4>2. Sure(all, now, q)
        BY <1>1, <1>14, <3>3, <4>1 DEF EventIs
      <4> QED
        BY <1>2, <1>5, <1>14, <3>2, <3>3, <4>2
    <3>4. CASE x.key # key
      <4>1. x.key \in Keys /\ Entitles(F, x.key)
        BY <1>14, <2>1 DEF EventOK, EventIs, Shape
      <4> QED
        BY <1>0, <1>1, <2>1, <3>1, <3>2, <3>4, <4>1, PaymentsAreApart
    <3> QED
      BY <3>3, <3>4
  <2>2. ASSUME x.key = key, ~x.named, Entitles(F, x.key)
        PROVE  x.occurred_at <= e.occurred_at /\ x.knowledge_at <= e.knowledge_at
    <3>1. x.occurred_at \in TimesFor(all, key) /\ x.knowledge_at <= now
      BY <1>14, <2>2 DEF EventIs
    <3> QED
      BY <1>8, <1>9, <3>1
  <2> QED
    BY <1>8, <2>1, <2>2 DEF InOrder
<1>15. ASSUME NEW x, EventIs(F, all, now, x, q), x.key = key, x.named = FALSE, e.payment = None
       PROVE  FALSE
  <2>1. Sure(all, now, q)
    BY <1>1, <1>15 DEF EventIs
  <2> QED
    BY <1>2, <1>5, <1>6, <1>15, <2>1
<1>16. Follows(F, all, now, key, q, e, p)
  <2>1. ASSUME NEW x, NEW y, EventIs(F, all, now, x, y), x.key = key => y = q,
               x.key = key, x.named = FALSE, e.payment = None
        PROVE  FALSE
    BY <1>15, <2>1
  <2> QED
    BY <1>10, <1>11, <1>12, <1>13, <1>14, <2>1 DEF Follows
<1> QED
  BY <1>1, <1>16

(* A result that became unknown takes nothing back.                        *)
LEMMA PostsUnknown ==
  ASSUME NEW F, NEW all, NEW now \in Nat, FactsOK(all, now), NEW key \in Keys, NEW r,
         r = View(all, key, now, Whole), r.status = "unknown", NEW q \in Prior,
         KeyIs(F, all, now, key, q), NEW e, e.key = key, e.knowledge_at = now, e.named = TRUE,
         e.payment = None, e.deltas = NoBalances, Shape(e), NEW p,
         p = [q EXCEPT !.status = "unknown"]
  PROVE  Follows(F, all, now, key, q, e, p)
<1>1. p.settled = q.settled /\ p.balances = q.balances
  BY DEF Prior
<1>2. ASSUME key = BorrowKey, Entitles(F, key), Sure(all, now, q) PROVE Sure(all, now, p)
  <2>1. Unusable(PaidFor(all, BorrowKey))
    BY <1>2, BorrowIsOf DEF Sure
  <2> QED
    BY <1>1, <1>2, <2>1 DEF Sure
<1>3. KeyIs(F, all, now, key, p)
  BY <1>1, <1>2 DEF KeyIs, IsPaid
<1>4. EventIs(F, all, now, e, p)
  BY DEF EventIs
<1>5. ASSUME NEW x, x.key = key, EventIs(F, all, now, x, q) PROVE EventIs(F, all, now, x, p)
  <2>1. Pays(F, all, x, q) => Pays(F, all, x, p)
    BY <1>1 DEF Pays
  <2>2. Accrues(all, x, q) => Accrues(all, x, p)
    BY <1>1 DEF Accrues
  <2> QED
    BY <1>2, <1>5, <2>1, <2>2 DEF EventIs
<1>6. Plus(FullOf(q, key), e.deltas) = FullOf(p, key)
  <2>1. PICK f, n : f = FullOf(q, key) /\ n = NoBalances
    OBVIOUS
  <2>2. FullOf(p, key) = f
    BY <1>1, <2>1 DEF FullOf
  <2>3. f \in Deltas /\ n \in Deltas /\ \A c \in Columns : n[c] = 0
    <3>1. q.balances \in Deltas
      BY BalancesAreDeltas DEF Prior
    <3>2. PICK x \in Int : x = Sign(key[2]) * q.settled
      BY DEF Sign, Prior
    <3>3. f = [q.balances EXCEPT !.cash = x]
      BY <2>1, <3>2 DEF FullOf
    <3>4. [q.balances EXCEPT !.cash = x] \in Deltas
      BY <3>1, DeltasAdd
    <3> QED
      BY <2>1, <3>3, <3>4, BalancesAreDeltas
  <2>4. Plus(f, n) \in Deltas /\ \A c \in Columns : Plus(f, n)[c] = f[c] + n[c]
    BY <2>3, 0 \in Int, DeltasAdd
  <2>5. Plus(f, n) = f
    BY <2>3, <2>4 DEF Deltas
  <2> QED
    BY <2>1, <2>2, <2>5
<1>7. \A x : InOrder(F, x, e)
  BY DEF InOrder
<1> QED
  BY <1>3, <1>4, <1>5, <1>6, <1>7 DEF Follows
(* Every posting. *)
LEMMA PostingFollows ==
  ASSUME NEW F, Steady(F), facts \subseteq F, clock \in Nat, FactsOK(facts, clock), PostedOK,
         NEW key \in Keys, Changed(key),
         KeyIs(F, facts, clock, key, posted[key]), NEW r, r = Now(key), NEW p,
         p = IF r.status = "known" THEN prior(r) ELSE [posted[key] EXCEPT !.status = "unknown"]
  PROVE  /\ Follows(F, facts, clock, key, posted[key], result_posting(key, r), p)
         /\ r.status # "known" => p.status = "unknown" /\ result_posting(key, r).unavailable
<1>1. PICK all, now, q, e :
        all = facts /\ now = clock /\ q = posted[key] /\ e = result_posting(key, r)
  OBVIOUS
<1>2. /\ now \in Nat /\ FactsOK(all, now) /\ all \subseteq F /\ KeyIs(F, all, now, key, q)
      /\ r = View(all, key, now, Whole)
  BY <1>1 DEF Now
<1>3. q \in Prior
  BY <1>1 DEF PostedOK
<1>4. /\ prior(r) # q
      /\ \/ r.status = "unknown"
         \/ r.status = "known" /\ Cardinality(r.payments) <= 1
  BY <1>1 DEF Changed, Postable
<1>5. r.balances \in Balances
  BY <1>2, ViewIsOK DEF ResultOK
<1>6. CASE r.status = "known"
  <2>1. p = prior(r)
    BY <1>6
  <2>2. Made(all, now, key, r, q, e)
    BY <1>1, <1>6, PostingIsMade
  <2>3. key = BorrowKey \/ Revisions(Known(all), key[1]) # {}
    <3>1. key # BorrowKey /\ Revisions(Known(all), key[1]) = {} =>
            r = NothingOwed /\ q = prior(NothingOwed)
      BY <1>1, <1>2, ViewIsOK DEF PostedOK
    <3> QED
      BY <1>4, <3>1
  <2>4. \/ ~Entitles(F, key) /\ r = NothingOwed
        \/ Entitles(F, key) /\ IsOf(F, r, all, now, key) /\ One(all, key, r)
    BY <1>2, <1>4, <1>6, <2>3, ResultIs
  <2>5. CASE ~Entitles(F, key) /\ r = NothingOwed
    BY <1>1, <1>2, <1>3, <1>6, <2>1, <2>2, <2>5, PostsNothing
  <2>6. CASE Entitles(F, key) /\ IsOf(F, r, all, now, key) /\ One(all, key, r) /\ key = BorrowKey
    BY <1>1, <1>2, <1>3, <1>4, <1>5, <1>6, <2>1, <2>2, <2>6, PostsFee
  <2>7. CASE Entitles(F, key) /\ IsOf(F, r, all, now, key) /\ One(all, key, r) /\ key # BorrowKey
    BY <1>1, <1>2, <1>3, <1>5, <1>6, <2>1, <2>2, <2>7, PostsDistribution
  <2> QED
    BY <2>4, <2>5, <2>6, <2>7
<1>7. CASE r.status = "unknown"
  <2>1. p = [q EXCEPT !.status = "unknown"] /\ p.status = "unknown"
    BY <1>1, <1>3, <1>7 DEF Prior
  <2>2. PICK k, rev : k = <<IF key = BorrowKey THEN "borrow" ELSE "distribution", "unavailable">>
                      /\ rev = revision_key(key)
    BY Zenon
  <2>3. e = [key |-> key, revision |-> rev, knowledge_at |-> now, kind |-> k, payment |-> None,
             named |-> TRUE, occurred_at |-> now, unavailable |-> TRUE, deltas |-> NoBalances]
    BY <1>1, <1>7, <2>2 DEF result_posting
  <2>4. /\ e.key = key /\ e.knowledge_at = now /\ e.named = TRUE /\ e.payment = None
        /\ e.deltas = NoBalances /\ e.unavailable = TRUE /\ e.kind = k
    BY <2>3
  <2>5. Shape(e)
    BY <2>2, <2>4 DEF Shape, Kind
  <2>6. Follows(F, all, now, key, q, e, p)
    BY <1>2, <1>3, <1>7, <2>1, <2>4, <2>5, PostsUnknown
  <2> QED
    BY <1>1, <2>1, <2>4, <2>6
<1> QED
  BY <1>4, <1>6, <1>7
-----------------------------------------------------------------------------
(* What an event adds to the journal in mode m.  The first event of a name *)
(* counts, unless the journal has it.                                      *)

Name(x, m) ==
  IF x.named THEN <<x.kind, x.key, x.revision, None>>
  ELSE IF x.payment # None THEN <<x.kind, x.payment, None, None>>
  ELSE <<x.kind, x.key, x.revision, Scheduled(x, m)>>
Counts(es, rows, i, m) ==
  /\ ~es[i].named
  /\ \A j \in 1..(i - 1) : Name(es[j], m) # Name(es[i], m)
  /\ \A row \in rows : row.logical_key # Name(es[i], m)
Moves(es, rows, i, key, m) ==
  Counts(es, rows, i, m) /\ es[i].key = key /\ es[i].deltas # NoBalances
RowsOf(rows, T) == {row \in rows : row.key \in T}

(* The balances b that the rows and the events es of a key lead through,   *)
(* up to what was owed and paid in the end.                                *)
Chain(es, rows, key, m, b, full) ==
  /\ \A i \in 0..Len(es) : b[i] \in Deltas /\ ~Negative(b[i])
  /\ \A c \in Columns : b[0][c] = Total(RowsOf(rows, {key}), c)
  /\ \A i \in 1..Len(es) : Moves(es, rows, i, key, m) => b[i] = Plus(b[i - 1], es[i].deltas)
  /\ \A i, j \in 0..Len(es) :
       i <= j /\ (\A x \in (i + 1)..j : ~Moves(es, rows, x, key, m)) => b[i] = b[j]
  /\ b[Len(es)] = full
MovesInOrder(es, rows, m) ==
  \A i, j \in 1..Len(es), key \in Keys :
    i < j /\ Moves(es, rows, i, key, m) /\ Moves(es, rows, j, key, m) =>
      es[i].occurred_at <= es[j].occurred_at /\ es[i].knowledge_at <= es[j].knowledge_at
Accounts(es, rows, m, last) ==
  /\ MovesInOrder(es, rows, m)
  /\ \A key \in Keys : \E b : Chain(es, rows, key, m, b, FullOf(last[key], key))

LEMMA NothingMoves ==
  ASSUME NEW rows, NEW m, NEW i, NEW key, NEW n \in Nat, NEW es, NEW es2,
         \A j \in 1..n : es2[j] = es[j], i \in 1..n
  PROVE  Moves(es2, rows, i, key, m) <=> Moves(es, rows, i, key, m)
<1>1. \A j \in 1..(i - 1) : j \in 1..n
  OBVIOUS
<1> QED
  BY <1>1, Zenon DEF Moves, Counts

(* An event more. *)
LEMMA ChainGrows ==
  ASSUME NEW es, NEW n \in Nat, n = Len(es), NEW es2, Len(es2) = n + 1,
         \A i \in 1..n : es2[i] = es[i],
         NEW rows, NEW key, NEW m, NEW b, NEW full, Chain(es, rows, key, m, b, full),
         NEW new \in Deltas, ~Negative(new),
         IF Moves(es2, rows, n + 1, key, m) THEN new = Plus(full, es2[n + 1].deltas)
                                            ELSE new = full
  PROVE  \E b2 : Chain(es2, rows, key, m, b2, new)
<1>1. PICK b2 : b2 = [i \in 0..(n + 1) |-> IF i = n + 1 THEN new ELSE b[i]]
  OBVIOUS
<1>2. \A i \in 0..n : b2[i] = b[i] /\ i # n + 1
  BY <1>1
<1>3. b2[n + 1] = new
  BY <1>1
<1>4. \A i \in 1..n : Moves(es2, rows, i, key, m) <=> Moves(es, rows, i, key, m)
  BY NothingMoves
<1>5. /\ \A i \in 0..n : b[i] \in Deltas /\ ~Negative(b[i])
      /\ \A c \in Columns : b[0][c] = Total(RowsOf(rows, {key}), c)
      /\ \A i \in 1..n : Moves(es, rows, i, key, m) => b[i] = Plus(b[i - 1], es[i].deltas)
      /\ \A i, j \in 0..n :
           i <= j /\ (\A x \in (i + 1)..j : ~Moves(es, rows, x, key, m)) => b[i] = b[j]
      /\ b[n] = full
  BY DEF Chain
<1>6. \A i \in 0..(n + 1) : b2[i] \in Deltas /\ ~Negative(b2[i])
  <2> SUFFICES ASSUME NEW i \in 0..(n + 1) PROVE b2[i] \in Deltas /\ ~Negative(b2[i])
    OBVIOUS
  <2>1. i \in 0..n \/ i = n + 1
    OBVIOUS
  <2> QED
    BY <1>2, <1>3, <1>5, <2>1
<1>7. \A c \in Columns : b2[0][c] = Total(RowsOf(rows, {key}), c)
  <2>1. 0 \in 0..n
    OBVIOUS
  <2> QED
    BY <1>2, <1>5, <2>1
<1>8. ASSUME NEW i \in 1..(n + 1), Moves(es2, rows, i, key, m)
      PROVE  b2[i] = Plus(b2[i - 1], es2[i].deltas)
  <2>1. CASE i = n + 1
    <3>1. b2[i - 1] = full
      BY <1>2, <1>5, <2>1
    <3> QED
      BY <1>3, <1>8, <2>1, <3>1
  <2>2. CASE i # n + 1
    <3>1. i \in 1..n /\ i - 1 \in 0..n /\ i \in 0..n
      BY <2>2
    <3> QED
      BY <1>2, <1>4, <1>5, <1>8, <3>1
  <2> QED
    BY <2>1, <2>2
<1>9. ASSUME NEW i \in 0..(n + 1), NEW j \in 0..(n + 1), i <= j,
             \A x \in (i + 1)..j : ~Moves(es2, rows, x, key, m)
      PROVE  b2[i] = b2[j]
  <2>1. CASE j # n + 1
    <3>1. i \in 0..n /\ j \in 0..n /\ \A x \in (i + 1)..j : x \in 1..n
      BY <1>9, <2>1
    <3>2. \A x \in (i + 1)..j : ~Moves(es, rows, x, key, m)
      BY <1>4, <1>9, <3>1
    <3> QED
      BY <1>2, <1>5, <1>9, <3>1, <3>2
  <2>2. CASE j = n + 1 /\ i = n + 1
    BY <2>2
  <2>3. CASE j = n + 1 /\ i # n + 1
    <3>1. i \in 0..n /\ n \in 0..n /\ i <= n /\ n + 1 \in (i + 1)..j
      BY <1>9, <2>3
    <3>2. \A x \in (i + 1)..n : x \in 1..n /\ x \in (i + 1)..j
      BY <2>3, <3>1
    <3>3. \A x \in (i + 1)..n : ~Moves(es, rows, x, key, m)
      BY <1>4, <1>9, <3>2
    <3>4. b[i] = b[n]
      BY <1>5, <3>1, <3>3
    <3>5. new = full
      BY <1>9, <3>1
    <3> QED
      BY <1>2, <1>3, <1>5, <2>3, <3>1, <3>4, <3>5
  <2> QED
    BY <2>1, <2>2, <2>3
<1>10. Chain(es2, rows, key, m, b2, new)
  BY <1>3, <1>6, <1>7, <1>8, <1>9, Zenon DEF Chain
<1> QED
  BY <1>10
(* The event at k is taken from es, and its row is in the journal, or one  *)
(* that has its name.                                                      *)
TakesOut(es, es2, k, rows, rows2, row, m) ==
  /\ Len(es2) = Len(es) - 1
  /\ \A i \in 1..(k - 1) : es2[i] = es[i]
  /\ \A i \in k..(Len(es) - 1) : es2[i] = es[i + 1]
  /\ row.key = es[k].key /\ row.deltas = es[k].deltas /\ row.logical_key = Name(es[k], m)
  /\ rows2 = IF \A r \in rows : r.logical_key # Name(es[k], m) THEN rows \cup {row} ELSE rows
  /\ \A j \in 1..(k - 1) : ~es[j].named \/ ~es[k].named => Name(es[j], m) # Name(es[k], m)
  /\ \A j \in 1..(k - 1), key \in Keys :
       Moves(es, rows, k, key, m) => ~Moves(es, rows, j, key, m)
  /\ es[k].named => es[k].deltas = NoBalances
WasAt(k, i) == IF i < k THEN i ELSE i + 1

LEMMA OthersMove ==
  ASSUME NEW es, NEW n \in Nat, n = Len(es), NEW es2, NEW k \in 1..n, NEW rows, NEW rows2, NEW row,
         NEW m, TakesOut(es, es2, k, rows, rows2, row, m), NEW i \in 1..(n - 1), NEW key
  PROVE  Moves(es2, rows2, i, key, m) <=> Moves(es, rows, WasAt(k, i), key, m)
<1>1. PICK o : o = WasAt(k, i)
  OBVIOUS
<1>2. PICK x, y : x = es[o] /\ y = es[k]
  OBVIOUS
<1>3. /\ \A j \in 1..(k - 1) : es2[j] = es[j]
      /\ \A j \in k..(n - 1) : es2[j] = es[j + 1]
      /\ rows2 = IF \A r \in rows : r.logical_key # Name(y, m) THEN rows \cup {row} ELSE rows
      /\ row.logical_key = Name(y, m)
      /\ \A j \in 1..(k - 1) : ~es[j].named \/ ~y.named => Name(es[j], m) # Name(y, m)
  BY <1>2 DEF TakesOut
<1>4. es2[i] = x
  BY <1>1, <1>2, <1>3 DEF WasAt
<1>5. \E r \in rows2 : r.logical_key = Name(y, m)
  BY <1>3
<1>6. \A r \in rows2 : r \in rows \/ r.logical_key = Name(y, m)
  BY <1>3
<1>7. rows \subseteq rows2
  BY <1>3
<1>8. ASSUME NEW z, ~x.named, z = Name(x, m)
      PROVE  (/\ \A j \in 1..(i - 1) : Name(es2[j], m) # z
              /\ \A r \in rows2 : r.logical_key # z)
             <=> (/\ \A j \in 1..(o - 1) : Name(es[j], m) # z
                  /\ \A r \in rows : r.logical_key # z)
  <2>1. CASE i < k
    <3>1. o = i /\ i \in 1..(k - 1)
      BY <1>1, <2>1 DEF WasAt
    <3>2. z # Name(y, m)
      BY <1>2, <1>3, <1>8, <3>1
    <3>3. \A j \in 1..(i - 1) : j \in 1..(k - 1)
      BY <3>1
    <3>4. \A j \in 1..(i - 1) : es2[j] = es[j]
      BY <1>3, <3>3
    <3> QED
      BY <1>6, <1>7, <3>1, <3>2, <3>4
  <2>2. CASE ~(i < k)
    <3>1. o = i + 1 /\ k \in 1..(o - 1) /\ i \in k..(n - 1) /\ o - 1 = i
      BY <1>1, <2>2 DEF WasAt
    <3>2. ASSUME \A j \in 1..(i - 1) : Name(es2[j], m) # z, \A r \in rows2 : r.logical_key # z
          PROVE  /\ \A j \in 1..(o - 1) : Name(es[j], m) # z
                 /\ \A r \in rows : r.logical_key # z
      <4>1. Name(y, m) # z
        BY <1>5, <3>2
      <4>2. ASSUME NEW j \in 1..(o - 1) PROVE Name(es[j], m) # z
        <5>1. CASE j < k
          <6>1. j \in 1..(k - 1) /\ j \in 1..(i - 1)
            BY <3>1, <5>1
          <6> QED
            BY <1>3, <3>2, <6>1
        <5>2. CASE j = k
          BY <1>2, <4>1, <5>2
        <5>3. CASE j > k
          <6>1. j - 1 \in k..(n - 1) /\ j - 1 \in 1..(i - 1) /\ (j - 1) + 1 = j
            BY <3>1, <5>3
          <6>2. es2[j - 1] = es[j]
            BY <1>3, <6>1
          <6> QED
            BY <3>2, <6>1, <6>2
        <5> QED
          BY <5>1, <5>2, <5>3
      <4> QED
        BY <1>7, <3>2, <4>2
    <3>3. ASSUME \A j \in 1..(o - 1) : Name(es[j], m) # z, \A r \in rows : r.logical_key # z
          PROVE  /\ \A j \in 1..(i - 1) : Name(es2[j], m) # z
                 /\ \A r \in rows2 : r.logical_key # z
      <4>1. Name(y, m) # z
        BY <1>2, <3>1, <3>3
      <4>2. ASSUME NEW j \in 1..(i - 1) PROVE Name(es2[j], m) # z
        <5>1. CASE j < k
          <6>1. j \in 1..(k - 1) /\ j \in 1..(o - 1)
            BY <3>1, <5>1
          <6> QED
            BY <1>3, <3>3, <6>1
        <5>2. CASE ~(j < k)
          <6>1. j \in k..(n - 1) /\ j + 1 \in 1..(o - 1)
            BY <3>1, <5>2
          <6> QED
            BY <1>3, <3>3, <6>1
        <5> QED
          BY <5>1, <5>2
      <4> QED
        BY <1>6, <3>3, <4>1, <4>2
    <3> QED
      BY <3>2, <3>3
  <2> QED
    BY <2>1, <2>2
<1>9. Counts(es2, rows2, i, m) <=> Counts(es, rows, o, m)
  <2>1. PICK z : z = Name(x, m)
    OBVIOUS
  <2>2. Counts(es, rows, o, m) <=>
          /\ ~x.named
          /\ \A j \in 1..(o - 1) : Name(es[j], m) # z
          /\ \A r \in rows : r.logical_key # z
    BY <1>2, <2>1 DEF Counts
  <2>3. Counts(es2, rows2, i, m) <=>
          /\ ~x.named
          /\ \A j \in 1..(i - 1) : Name(es2[j], m) # z
          /\ \A r \in rows2 : r.logical_key # z
    BY <1>4, <2>1 DEF Counts
  <2> QED
    BY <1>8, <2>1, <2>2, <2>3
<1> QED
  BY <1>1, <1>2, <1>4, <1>9 DEF Moves
LEMMA RowsOfKeys ==
  ASSUME NEW rows, RowsOK(rows), NEW row, RowOK(row), row \notin rows, NEW rows2,
         rows2 = rows \cup {row}, NEW T
  PROVE  /\ RowsOK(RowsOf(rows, T)) /\ RowsOK(rows2) /\ row \notin RowsOf(rows, T)
         /\ row.key \in T => RowsOf(rows2, T) = RowsOf(rows, T) \cup {row}
         /\ row.key \notin T => RowsOf(rows2, T) = RowsOf(rows, T)
<1>1. RowsOf(rows, T) \in SUBSET rows
  BY DEF RowsOf
<1>2. RowsOK(RowsOf(rows, T)) /\ RowsOK(rows \cup {row})
  BY <1>1, FS_Subset, FS_AddElement DEF RowsOK
<1>3. /\ row.key \in T => RowsOf(rows \cup {row}, T) = RowsOf(rows, T) \cup {row}
      /\ row.key \notin T => RowsOf(rows \cup {row}, T) = RowsOf(rows, T)
  BY DEF RowsOf
<1> QED
  BY <1>1, <1>2, <1>3

LEMMA TotalOfKeys ==
  ASSUME NEW rows, RowsOK(rows), NEW row, RowOK(row), row \notin rows, NEW rows2,
         rows2 = rows \cup {row}, NEW T, row.key \in T, NEW c \in Columns
  PROVE  Total(RowsOf(rows2, T), c) = Total(RowsOf(rows, T), c) + row.deltas[c]
<1>1. PICK some : some = RowsOf(rows, T)
  OBVIOUS
<1>2. row \notin some /\ RowsOf(rows2, T) = some \cup {row} /\ RowsOK(some)
  BY <1>1, RowsOfKeys
<1>3. RowsOK(some \cup {row})
  BY <1>2, FS_AddElement DEF RowsOK
<1>4. Total(some \cup {row}, c) = Total(some, c) + row.deltas[c]
  BY <1>2, <1>3, TotalGrows
<1> QED
  BY <1>1, <1>2, <1>4

LEMMA ChainShrinks ==
  ASSUME NEW es, NEW n \in Nat, n = Len(es), NEW es2, NEW k \in 1..n, NEW rows, NEW rows2, NEW row,
         NEW m, TakesOut(es, es2, k, rows, rows2, row, m), RowsOK(rows), RowOK(row),
         \A i \in 1..n : es[i].deltas \in Deltas,
         NEW key \in Keys, NEW b, NEW full, Chain(es, rows, key, m, b, full)
  PROVE  \E b2 : Chain(es2, rows2, key, m, b2, full)
<1>1. /\ \A i \in 0..n : b[i] \in Deltas /\ ~Negative(b[i])
      /\ \A c \in Columns : b[0][c] = Total(RowsOf(rows, {key}), c)
      /\ \A i \in 1..n : Moves(es, rows, i, key, m) => b[i] = Plus(b[i - 1], es[i].deltas)
      /\ \A i, j \in 0..n :
           i <= j /\ (\A x \in (i + 1)..j : ~Moves(es, rows, x, key, m)) => b[i] = b[j]
      /\ b[n] = full
  BY DEF Chain
<1>2. PICK moved : moved = Moves(es, rows, k, key, m)
  OBVIOUS
<1>3. PICK b2 : b2 = [i \in 0..(n - 1) |-> IF i < k THEN (IF moved THEN b[k] ELSE b[i]) ELSE b[i + 1]]
  OBVIOUS
<1>4. \A i \in 1..(n - 1) : Moves(es2, rows2, i, key, m) <=> Moves(es, rows, WasAt(k, i), key, m)
  BY OthersMove
<1>5. /\ \A j \in 1..(k - 1) : es2[j] = es[j]
      /\ \A j \in k..(n - 1) : es2[j] = es[j + 1]
      /\ Len(es2) = n - 1 /\ n - 1 \in Nat
      /\ moved => \A j \in 1..(k - 1) : ~Moves(es, rows, j, key, m)
  <2>1. \A j \in 1..(k - 1) : Moves(es, rows, k, key, m) => ~Moves(es, rows, j, key, m)
    BY DEF TakesOut
  <2>2. /\ \A j \in 1..(k - 1) : es2[j] = es[j]
        /\ \A j \in k..(n - 1) : es2[j] = es[j + 1]
        /\ Len(es2) = n - 1
    BY DEF TakesOut
  <2>3. moved => \A j \in 1..(k - 1) : ~Moves(es, rows, j, key, m)
    BY <1>2, <2>1
  <2> QED
    BY <2>2, <2>3
<1>6. k \in 0..n /\ k - 1 \in 0..n /\ k - 1 <= k /\ k \in Nat
  OBVIOUS
<1>7. ~moved => b[k - 1] = b[k]
  <2>1. \A x \in ((k - 1) + 1)..k : x = k
    OBVIOUS
  <2> QED
    BY <1>1, <1>2, <1>6, <2>1
<1>8. \A i \in 0..(n - 1) :
        /\ i < k /\ moved => b2[i] = b[k]
        /\ i < k /\ ~moved => b2[i] = b[i]
        /\ ~(i < k) => b2[i] = b[i + 1]
  BY <1>3
<1>9. \A i \in 0..(n - 1) : b2[i] \in Deltas /\ ~Negative(b2[i])
  <2> SUFFICES ASSUME NEW i \in 0..(n - 1) PROVE b2[i] \in Deltas /\ ~Negative(b2[i])
    OBVIOUS
  <2>1. i \in 0..n /\ i + 1 \in 0..n
    OBVIOUS
  <2> QED
    BY <1>1, <1>6, <1>8, <2>1
<1>10. ASSUME NEW c \in Columns PROVE b2[0][c] = Total(RowsOf(rows2, {key}), c)
  <2>1. PICK some, y : some = RowsOf(rows, {key}) /\ y = es[k]
    OBVIOUS
  <2>2. /\ row.key = y.key /\ row.deltas = y.deltas /\ row.logical_key = Name(y, m)
        /\ rows2 = IF \A r \in rows : r.logical_key # Name(y, m) THEN rows \cup {row} ELSE rows
        /\ \A j \in 1..(k - 1) : ~es[j].named \/ ~y.named => Name(es[j], m) # Name(y, m)
        /\ y.named => y.deltas = NoBalances
    BY <2>1 DEF TakesOut
  <2>3. b[0][c] = Total(some, c) /\ 0 < k /\ 0 \in 0..(n - 1) /\ b[0] \in Deltas
    <3>1. 0 < k /\ 0 \in 0..(n - 1) /\ 0 \in 0..n
      OBVIOUS
    <3> QED
      BY <1>1, <2>1, <3>1
  <2>6. PICK T : T = {key}
    OBVIOUS
  <2>4. CASE moved
    <3>1. /\ Counts(es, rows, k, m) /\ y.key = key
      BY <1>2, <2>1, <2>4 DEF Moves
    <3>2. \A r \in rows : r.logical_key # Name(y, m)
      BY <2>1, <3>1 DEF Counts
    <3>3. row \notin rows /\ rows2 = rows \cup {row} /\ row.key \in {key}
      BY <2>2, <3>1, <3>2
    <3>4. Total(RowsOf(rows2, {key}), c) = Total(some, c) + row.deltas[c]
      <4>1. row.key \in T
        BY <2>6, <3>3
      <4>2. Total(RowsOf(rows \cup {row}, T), c) = Total(RowsOf(rows, T), c) + row.deltas[c]
        BY <3>3, <4>1, TotalOfKeys
      <4> QED
        BY <2>1, <2>6, <3>3, <4>2
    <3>5. b[0] = b[k - 1]
      <4>1. \A x \in (0 + 1)..(k - 1) : x \in 1..(k - 1)
        OBVIOUS
      <4>2. 0 \in 0..n /\ 0 <= k - 1
        OBVIOUS
      <4>3. \A x \in (0 + 1)..(k - 1) : ~Moves(es, rows, x, key, m)
        BY <1>5, <2>4, <4>1
      <4> QED
        BY <1>1, <1>6, <4>2, <4>3
    <3>6. b[k] = Plus(b[0], y.deltas)
      BY <1>1, <1>2, <2>1, <2>4, <3>5
    <3>7. y.deltas \in Deltas
      BY <2>1
    <3>8. b[k][c] = b[0][c] + y.deltas[c]
      <4>1. PICK u \in Deltas, v \in Deltas : u = b[0] /\ v = y.deltas
        BY <2>3, <3>7
      <4>2. Plus(u, v)[c] = u[c] + v[c]
        BY 0 \in Int, DeltasAdd
      <4> QED
        BY <3>6, <4>1, <4>2
    <3> QED
      BY <1>8, <2>2, <2>3, <2>4, <3>4, <3>8
  <2>5. CASE ~moved
    <3>1. Total(RowsOf(rows2, {key}), c) = Total(some, c)
      <4>1. CASE rows2 = rows
        BY <2>1, <4>1
      <4>2. CASE rows2 # rows
        <5>1. rows2 = rows \cup {row} /\ \A r \in rows : r.logical_key # Name(y, m)
          BY <2>2, <4>2
        <5>2. row \notin rows
          BY <2>2, <5>1
        <5>3. CASE y.key # key
          <6>1. row.key \notin T
            BY <2>2, <2>6, <5>3
          <6>2. RowsOf(rows2, T) = RowsOf(rows, T)
            BY <5>1, <5>2, <6>1, RowsOfKeys
          <6> QED
            BY <2>1, <2>6, <5>1, <6>2
        <5>4. CASE y.key = key
          <6>1. y.deltas = NoBalances
            <7> SUFFICES ASSUME ~y.named, y.deltas # NoBalances PROVE FALSE
              BY <2>2
            <7>1. Counts(es, rows, k, m)
              BY <2>1, <2>2, <5>1 DEF Counts
            <7> QED
              BY <1>2, <2>1, <2>5, <5>4, <7>1 DEF Moves
          <6>2. row.deltas[c] = 0
            BY <2>2, <6>1, BalancesAreDeltas
          <6>3. Total(RowsOf(rows2, {key}), c) = Total(some, c) + row.deltas[c]
            <7>1. row.key \in T
              BY <2>2, <2>6, <5>4
            <7>2. Total(RowsOf(rows2, T), c) = Total(RowsOf(rows, T), c) + row.deltas[c]
              BY <5>1, <5>2, <7>1, TotalOfKeys
            <7> QED
              BY <2>1, <2>6, <5>1, <7>2
          <6>4. Total(some, c) \in Int
            BY <2>3 DEF Deltas
          <6> QED
            BY <6>2, <6>3, <6>4
        <5> QED
          BY <5>3, <5>4
      <4> QED
        BY <4>1, <4>2
    <3> QED
      BY <1>8, <2>3, <2>5, <3>1
  <2> QED
    BY <2>4, <2>5
<1>11. ASSUME NEW i \in 1..(n - 1), Moves(es2, rows2, i, key, m)
       PROVE  b2[i] = Plus(b2[i - 1], es2[i].deltas)
  <2>0. i \in 0..(n - 1) /\ i - 1 \in 0..(n - 1)
    OBVIOUS
  <2>1. CASE i < k
    <3>1. Moves(es, rows, i, key, m)
      BY <1>4, <1>11, <2>1 DEF WasAt
    <3>2. ~moved
      BY <1>5, <2>1, <3>1
    <3>3. b2[i] = b[i] /\ b2[i - 1] = b[i - 1]
      <4>1. i - 1 < k
        BY <2>1
      <4> QED
        BY <1>8, <2>0, <2>1, <3>2, <4>1
    <3>4. es2[i] = es[i] /\ i \in 1..n
      BY <1>5, <2>1
    <3> QED
      BY <1>1, <3>1, <3>3, <3>4
  <2>2. CASE ~(i < k)
    <3>1. Moves(es, rows, i + 1, key, m)
      BY <1>4, <1>11, <2>2 DEF WasAt
    <3>2. b[i + 1] = Plus(b[i], es[i + 1].deltas)
      <4>1. i + 1 \in 1..n /\ (i + 1) - 1 = i
        OBVIOUS
      <4> QED
        BY <1>1, <3>1, <4>1
    <3>3. es2[i] = es[i + 1] /\ b2[i] = b[i + 1]
      <4>1. i \in k..(n - 1)
        BY <2>2
      <4> QED
        BY <1>5, <1>8, <2>0, <2>2, <4>1
    <3>4. b2[i - 1] = b[i]
      <4>1. CASE i = k
        <5>1. i - 1 < k /\ i - 1 = k - 1
          BY <4>1
        <5> QED
          BY <1>7, <1>8, <2>0, <4>1, <5>1
      <4>2. CASE i # k
        <5>1. ~(i - 1 < k) /\ (i - 1) + 1 = i
          BY <2>2, <4>2
        <5> QED
          BY <1>8, <2>0, <5>1
      <4> QED
        BY <4>1, <4>2
    <3> QED
      BY <3>2, <3>3, <3>4
  <2> QED
    BY <2>1, <2>2
<1>12. ASSUME NEW i \in 0..(n - 1), NEW j \in 0..(n - 1), i <= j,
              \A x \in (i + 1)..j : ~Moves(es2, rows2, x, key, m)
       PROVE  b2[i] = b2[j]
  <2>1. \A x \in 1..(n - 1) : x \in (i + 1)..j => ~Moves(es, rows, WasAt(k, x), key, m)
    BY <1>4, <1>12
  <2>2. CASE j < k
    <3>1. CASE moved
      BY <1>8, <1>12, <2>2, <3>1
    <3>2. CASE ~moved
      <4>1. \A x \in (i + 1)..j : x \in 1..(n - 1) /\ x < k
        BY <2>2
      <4>2. \A x \in (i + 1)..j : ~Moves(es, rows, x, key, m)
        BY <2>1, <4>1 DEF WasAt
      <4>3. i \in 0..n /\ j \in 0..n /\ i < k
        BY <1>12, <2>2
      <4>4. b[i] = b[j]
        BY <1>1, <1>12, <4>2, <4>3
      <4> QED
        BY <1>8, <2>2, <3>2, <4>3, <4>4
    <3> QED
      BY <3>1, <3>2
  <2>3. CASE ~(j < k)
    <3>1. \A x \in (k + 1)..(j + 1) : x > i + 1 => ~Moves(es, rows, x, key, m)
      <4> SUFFICES ASSUME NEW x \in (k + 1)..(j + 1), x > i + 1
                   PROVE  ~Moves(es, rows, x, key, m)
        OBVIOUS
      <4>1. x - 1 \in 1..(n - 1) /\ x - 1 \in (i + 1)..j /\ ~(x - 1 < k) /\ (x - 1) + 1 = x
        OBVIOUS
      <4> QED
        BY <2>1, <4>1 DEF WasAt
    <3>2. b2[j] = b[j + 1] /\ j + 1 \in 0..n
      BY <1>8, <2>3
    <3>3. CASE ~(i < k)
      <4>1. \A x \in ((i + 1) + 1)..(j + 1) : x \in (k + 1)..(j + 1) /\ x > i + 1
        BY <3>3
      <4>2. \A x \in ((i + 1) + 1)..(j + 1) : ~Moves(es, rows, x, key, m)
        BY <3>1, <4>1
      <4>3. i + 1 \in 0..n /\ i + 1 <= j + 1
        BY <1>12
      <4>4. b[i + 1] = b[j + 1]
        BY <1>1, <3>2, <4>2, <4>3
      <4> QED
        BY <1>8, <3>2, <3>3, <4>4
    <3>4. CASE i < k /\ moved
      <4>1. \A x \in (k + 1)..(j + 1) : x > i + 1
        BY <3>4
      <4>2. \A x \in (k + 1)..(j + 1) : ~Moves(es, rows, x, key, m)
        BY <3>1, <4>1
      <4>3. k <= j + 1
        BY <2>3
      <4>4. b[k] = b[j + 1]
        BY <1>1, <1>6, <3>2, <4>2, <4>3
      <4> QED
        BY <1>8, <3>2, <3>4, <4>4
    <3>5. CASE i < k /\ ~moved
      <4>1. ASSUME NEW x \in (i + 1)..(j + 1) PROVE ~Moves(es, rows, x, key, m)
        <5>1. CASE x < k
          <6>1. x \in 1..(n - 1) /\ x \in (i + 1)..j
            BY <2>3, <5>1
          <6> QED
            BY <2>1, <5>1, <6>1 DEF WasAt
        <5>2. CASE x = k
          BY <1>2, <3>5, <5>2
        <5>3. CASE x > k
          <6>1. x \in (k + 1)..(j + 1) /\ x > i + 1
            BY <3>5, <5>3
          <6> QED
            BY <3>1, <6>1
        <5> QED
          BY <5>1, <5>2, <5>3
      <4>2. i \in 0..n /\ i <= j + 1
        BY <1>12
      <4>3. b[i] = b[j + 1]
        BY <1>1, <3>2, <4>1, <4>2
      <4> QED
        BY <1>8, <3>2, <3>5, <4>3
    <3> QED
      BY <3>3, <3>4, <3>5
  <2> QED
    BY <2>2, <2>3
<1>13. b2[n - 1] = full
  <2>1. n - 1 \in 0..(n - 1) /\ (n - 1) + 1 = n
    OBVIOUS
  <2>2. CASE n = k
    <3>1. n - 1 < k /\ n - 1 = k - 1
      BY <2>2
    <3> QED
      BY <1>1, <1>7, <1>8, <2>1, <2>2, <3>1
  <2>3. CASE n # k
    <3>1. ~(n - 1 < k)
      BY <2>3
    <3> QED
      BY <1>1, <1>8, <2>1, <3>1
  <2> QED
    BY <2>2, <2>3
<1>14. Chain(es2, rows2, key, m, b2, full)
  BY <1>5, <1>9, <1>10, <1>11, <1>12, <1>13, Zenon DEF Chain
<1> QED
  BY <1>14
-----------------------------------------------------------------------------
(* The events and rows as they are. *)

LEMMA EventsAt ==
  ASSUME NEW S, EventsIn(S)
  PROVE  /\ Len(events) \in Nat /\ DOMAIN events = 1..Len(events)
         /\ \A i \in 1..Len(events) : EventOK(events[i]) /\ events[i] \in S
  BY LenProperties, ElementOfSeq DEF EventsIn

LEMMA EventIsAppended ==
  ASSUME NEW S, EventsIn(S), NEW e, EventOK(e), events' = Append(events, e)
  PROVE  /\ Len(events') = Len(events) + 1 /\ events'[Len(events) + 1] = e
         /\ \A i \in 1..Len(events) : events'[i] = events[i]
<1>1. events \in Seq(S \cup {e}) /\ e \in S \cup {e}
  BY SeqMonotonic DEF EventsIn
<1> QED
  BY <1>1, AppendProperties

LEMMA EventIsTaken ==
  ASSUME NEW S, EventsIn(S), NEW k \in 1..Len(events)
  PROVE  /\ Len(Without(k)) = Len(events) - 1
         /\ \A i \in 1..(k - 1) : Without(k)[i] = events[i]
         /\ \A i \in k..(Len(events) - 1) : Without(k)[i] = events[i + 1]
<1>1. /\ Len(events) \in Nat /\ \A i \in 1..Len(events) : events[i] \in S
  BY EventsAt
<1>2. PICK n \in Nat : n = Len(events)
  BY <1>1
<1>3. PICK a, b : a = SubSeq(events, 1, k - 1) /\ b = SubSeq(events, k + 1, n)
  OBVIOUS
<1>4. /\ a \in Seq(S) /\ Len(a) = k - 1 /\ \A i \in 1..(k - 1) : a[i] = events[i]
  <2>1. 1 \in Int /\ k - 1 \in Int /\ \A i \in 1..(k - 1) : events[i] \in S
    BY <1>1, <1>2
  <2>2. /\ a \in Seq(S) /\ Len(a) = IF 1 <= k - 1 THEN k - 1 - 1 + 1 ELSE 0
        /\ \A i \in 1..(k - 1 - 1 + 1) : a[i] = events[1 + i - 1]
    BY <1>3, <2>1, SubSeqProperties
  <2>3. Len(a) = k - 1 /\ \A i \in 1..(k - 1) : i \in 1..(k - 1 - 1 + 1) /\ 1 + i - 1 = i
    BY <2>2
  <2> QED
    BY <2>2, <2>3
<1>5. /\ b \in Seq(S) /\ Len(b) = n - k /\ \A i \in 1..(n - k) : b[i] = events[k + i]
  <2>1. n \in Int /\ k + 1 \in Int /\ \A i \in (k + 1)..n : events[i] \in S
    BY <1>1, <1>2
  <2>2. /\ b \in Seq(S) /\ Len(b) = IF k + 1 <= n THEN n - (k + 1) + 1 ELSE 0
        /\ \A i \in 1..(n - (k + 1) + 1) : b[i] = events[(k + 1) + i - 1]
    BY <1>3, <2>1, SubSeqProperties
  <2>3. Len(b) = n - k /\ \A i \in 1..(n - k) : i \in 1..(n - (k + 1) + 1) /\ (k + 1) + i - 1 = k + i
    BY <1>2, <2>2
  <2> QED
    BY <2>2, <2>3
<1>6. PICK c : c = Without(k) /\ c = a \o b
  BY <1>2, <1>3 DEF Without
<1>7. /\ Len(c) = Len(a) + Len(b)
      /\ \A i \in 1..(Len(a) + Len(b)) : c[i] = IF i <= Len(a) THEN a[i] ELSE b[i - Len(a)]
  <2>1. a \in Seq(S) /\ b \in Seq(S)
    BY <1>4, <1>5
  <2>2. Len(a \o b) = Len(a) + Len(b)
    BY <2>1, ConcatProperties
  <2>3. \A i \in 1..(Len(a) + Len(b)) : (a \o b)[i] = IF i <= Len(a) THEN a[i] ELSE b[i - Len(a)]
    BY <2>1, ConcatProperties
  <2> QED
    BY <1>6, <2>2, <2>3
<1>8. Len(c) = n - 1
  BY <1>2, <1>4, <1>5, <1>7
<1>9. ASSUME NEW i \in 1..(k - 1) PROVE c[i] = events[i]
  <2>1. i \in 1..((k - 1) + (n - k)) /\ i <= k - 1
    BY <1>2
  <2>2. c[i] = a[i]
    BY <1>4, <1>5, <1>7, <2>1
  <2> QED
    BY <1>4, <2>2
<1>10. ASSUME NEW i \in k..(n - 1) PROVE c[i] = events[i + 1]
  <2>1. i \in 1..((k - 1) + (n - k)) /\ ~(i <= k - 1) /\ i - (k - 1) \in 1..(n - k)
        /\ k + (i - (k - 1)) = i + 1
    BY <1>2
  <2> QED
    BY <1>4, <1>5, <1>7, <2>1
<1> QED
  BY <1>2, <1>6, <1>8, <1>9, <1>10

LEMMA RowIs ==
  ASSUME NEW e, EventOK(e)
  PROVE  LET row == Row(e)
         IN  /\ row.key = e.key /\ row.deltas = e.deltas /\ row.named = e.named
             /\ row.unavailable = e.unavailable /\ row.payment = e.payment /\ row.kind = e.kind
             /\ row.occurred_at = e.occurred_at /\ row.knowledge_at = e.knowledge_at
             /\ row.logical_key = Name(e, mode) /\ \A m : Name(row, m) = Name(e, m)
             /\ Shape(row) <=> Shape(e)
<1>1. PICK row, at, l : row = Row(e) /\ at = scheduled_at(e) /\ l = logical_key(e)
  OBVIOUS
<1>2. row = [x \in EventFields \cup {"at", "logical_key"} |->
               IF x = "at" THEN at ELSE IF x = "logical_key" THEN l ELSE e[x]]
  BY <1>1 DEF Row, EventOK
<1>3. /\ row.key = e.key /\ row.deltas = e.deltas /\ row.named = e.named
      /\ row.unavailable = e.unavailable /\ row.payment = e.payment /\ row.kind = e.kind
      /\ row.occurred_at = e.occurred_at /\ row.knowledge_at = e.knowledge_at
      /\ row.revision = e.revision /\ row.logical_key = l
  BY <1>2 DEF EventFields
<1>4. l = Name(e, mode)
  BY <1>1, Zenon DEF logical_key, Name, scheduled_at
<1>5. \A m : Scheduled(row, m) = Scheduled(e, m)
  BY <1>3, Zenon DEF Scheduled
<1>6. \A m : Name(row, m) = Name(e, m)
  BY <1>3, <1>5, Zenon DEF Name
<1>7. Shape(row) <=> Shape(e)
  BY <1>3, Zenon DEF Shape
<1> QED
  BY <1>1, <1>3, <1>4, <1>6, <1>7

-----------------------------------------------------------------------------
(* The events and rows together.                                           *)

AuthorOK(F, all, now, es, last) ==
  /\ \A key \in Keys : KeyIs(F, all, now, key, last[key])
  /\ \A i \in 1..Len(es) : EventIs(F, all, now, es[i], last[es[i].key])
  /\ \A i, j \in 1..Len(es) : i < j => InOrder(F, es[i], es[j])
(* A payment is one cash flow, whoever gives it again.                     *)
SamePayment(x, y) ==
  x.payment # None /\ x.payment = y.payment =>
    /\ x.key = y.key /\ x.kind = y.kind
    /\ x.occurred_at = y.occurred_at /\ x.knowledge_at = y.knowledge_at
PapersOK(all, rows, m, last) ==
  /\ \A x \in all : Shape(x) /\ (x.named => x.payment = None)
  /\ \A x, y \in all : SamePayment(x, y)
  /\ \A row \in rows : row.logical_key = Name(row, m)
  /\ \A key \in Keys : last[key].status = "unknown" => \E x \in all : x.unavailable /\ x.key = key

LEMMA SameName ==
  ASSUME NEW x, NEW y, Shape(x), Shape(y), NEW m, Name(x, m) = Name(y, m)
  PROVE  /\ x.kind = y.kind /\ (x.named <=> y.named)
         /\ x.named => x.key = y.key
         /\ ~x.named => (x.payment = None <=> y.payment = None)
         /\ ~x.named /\ x.payment # None => x.payment = y.payment
         /\ ~x.named /\ x.payment = None =>
              x.key = y.key /\ x.revision = y.revision /\ Scheduled(x, m) = Scheduled(y, m)
<1>1. x.kind = y.kind
  BY Zenon DEF Name
<1>2. (x.named <=> y.named) /\ (~x.named => (x.payment = None <=> y.payment = None))
  <2>1. ASSUME NEW z, Shape(z)
        PROVE  z.kind[2] = IF z.named THEN "unavailable"
                           ELSE IF z.payment = None THEN "accrual" ELSE "settlement"
    BY <2>1 DEF Shape
  <2>2. /\ x.kind[2] = IF x.named THEN "unavailable"
                       ELSE IF x.payment = None THEN "accrual" ELSE "settlement"
        /\ y.kind[2] = IF y.named THEN "unavailable"
                       ELSE IF y.payment = None THEN "accrual" ELSE "settlement"
    BY <2>1
  <2> QED
    BY <1>1, <2>2
<1>3. PICK s, t : s = Scheduled(x, m) /\ t = Scheduled(y, m)
  OBVIOUS
<1>4. IF x.named THEN x.key = y.key
      ELSE IF x.payment # None THEN x.payment = y.payment
      ELSE x.key = y.key /\ x.revision = y.revision /\ s = t
  BY <1>2, <1>3 DEF Name
<1> QED
  BY <1>1, <1>2, <1>3, <1>4

LEMMA FullIs ==
  ASSUME NEW p \in Prior, NEW key
  PROVE  FullOf(p, key) \in Deltas /\ ~Negative(FullOf(p, key))
<1>1. PICK a \in Balances, x \in Int : a = p.balances /\ x = Sign(key[2]) * p.settled
  BY DEF Prior, Sign
<1>2. PICK f : f = FullOf(p, key) /\ f = [a EXCEPT !.cash = x]
  BY <1>1 DEF FullOf
<1>3. f \in Deltas
  <2>1. a \in Deltas
    BY BalancesAreDeltas
  <2>2. [a EXCEPT !.cash = x] \in Deltas
    BY <2>1, DeltasAdd
  <2> QED
    BY <1>2, <2>2
<1>4. \A c \in Columns \ {"cash"} : f[c] \in Nat
  BY <1>2 DEF Balances, Columns
<1>5. DOMAIN f = Columns
  BY <1>3 DEF Deltas
<1> QED
  BY <1>2, <1>3, <1>4, <1>5 DEF Negative

LEMMA PlusNothing == \A a \in Deltas : Plus(a, NoBalances) = a
<1> SUFFICES ASSUME NEW a \in Deltas PROVE Plus(a, NoBalances) = a
  OBVIOUS
<1>1. PICK b \in Deltas : b = NoBalances /\ \A c \in Columns : b[c] = 0
  BY BalancesAreDeltas
<1>2. Plus(a, b) \in Deltas /\ \A c \in Columns : Plus(a, b)[c] = a[c] + b[c]
  BY 0 \in Int, DeltasAdd
<1>3. \A c \in Columns : Plus(a, b)[c] = a[c]
  BY <1>1, <1>2 DEF Deltas
<1>4. Plus(a, b) = a
  BY <1>2, <1>3 DEF Deltas
<1> QED
  BY <1>1, <1>4
(* An event more, in the accounts of every key. *)
Grows(es, es2, n, rows, m, last, last2) ==
  /\ n = Len(es) /\ Len(es2) = n + 1 /\ \A i \in 1..n : es2[i] = es[i]
  /\ \A key \in Keys :
       FullOf(last2[key], key) =
         IF Moves(es2, rows, n + 1, key, m)
         THEN Plus(FullOf(last[key], key), es2[n + 1].deltas) ELSE FullOf(last[key], key)
  /\ \A i \in 1..n, key \in Keys :
       Moves(es2, rows, i, key, m) /\ Moves(es2, rows, n + 1, key, m) =>
         /\ es2[i].occurred_at <= es2[n + 1].occurred_at
         /\ es2[i].knowledge_at <= es2[n + 1].knowledge_at

LEMMA AccountsGrow ==
  ASSUME NEW es, NEW n \in Nat, NEW es2, NEW rows, NEW m, NEW last, NEW last2,
         Accounts(es, rows, m, last), last2 \in [Keys -> Prior],
         Grows(es, es2, n, rows, m, last, last2)
  PROVE  Accounts(es2, rows, m, last2)
<1>0. /\ n = Len(es) /\ Len(es2) = n + 1 /\ \A i \in 1..n : es2[i] = es[i]
      /\ \A key \in Keys :
           FullOf(last2[key], key) =
             IF Moves(es2, rows, n + 1, key, m)
             THEN Plus(FullOf(last[key], key), es2[n + 1].deltas) ELSE FullOf(last[key], key)
      /\ \A i \in 1..n, key \in Keys :
           Moves(es2, rows, i, key, m) /\ Moves(es2, rows, n + 1, key, m) =>
             /\ es2[i].occurred_at <= es2[n + 1].occurred_at
             /\ es2[i].knowledge_at <= es2[n + 1].knowledge_at
  BY DEF Grows
<1>1. ASSUME NEW key \in Keys
      PROVE  \E b : Chain(es2, rows, key, m, b, FullOf(last2[key], key))
  <2>1. PICK b : Chain(es, rows, key, m, b, FullOf(last[key], key))
    BY DEF Accounts
  <2>2. PICK full, new : full = FullOf(last[key], key) /\ new = FullOf(last2[key], key)
    OBVIOUS
  <2>3. new \in Deltas /\ ~Negative(new)
    BY <2>2, FullIs
  <2>4. IF Moves(es2, rows, n + 1, key, m) THEN new = Plus(full, es2[n + 1].deltas) ELSE new = full
    BY <1>0, <2>2
  <2>5. Chain(es, rows, key, m, b, full)
    BY <2>1, <2>2
  <2>6. \E b2 : Chain(es2, rows, key, m, b2, new)
    BY <1>0, <2>3, <2>4, <2>5, ChainGrows
  <2> QED
    BY <2>2, <2>6
<1>2. MovesInOrder(es2, rows, m)
  <2> SUFFICES ASSUME NEW i \in 1..(n + 1), NEW j \in 1..(n + 1), NEW key \in Keys, i < j,
                      Moves(es2, rows, i, key, m), Moves(es2, rows, j, key, m)
               PROVE  /\ es2[i].occurred_at <= es2[j].occurred_at
                      /\ es2[i].knowledge_at <= es2[j].knowledge_at
    BY <1>0 DEF MovesInOrder
  <2>1. i \in 1..n
    OBVIOUS
  <2>2. CASE j = n + 1
    BY <1>0, <2>1, <2>2
  <2>3. CASE j # n + 1
    <3>1. j \in 1..n
      BY <2>3
    <3>2. Moves(es, rows, i, key, m) /\ Moves(es, rows, j, key, m)
      BY <1>0, <2>1, <3>1, NothingMoves
    <3>3. MovesInOrder(es, rows, m)
      BY DEF Accounts
    <3>4. es[i].occurred_at <= es[j].occurred_at /\ es[i].knowledge_at <= es[j].knowledge_at
      BY <1>0, <2>1, <3>1, <3>2, <3>3 DEF MovesInOrder
    <3> QED
      BY <1>0, <2>1, <3>1, <3>4
  <2> QED
    BY <2>2, <2>3
<1> QED
  BY <1>1, <1>2 DEF Accounts

(* An event less. *)
LEMMA AccountsShrink ==
  ASSUME NEW es, NEW n \in Nat, n = Len(es), NEW es2, NEW k \in 1..n, NEW rows, NEW rows2, NEW row,
         NEW m, TakesOut(es, es2, k, rows, rows2, row, m), RowsOK(rows), RowOK(row),
         \A i \in 1..n : es[i].deltas \in Deltas, NEW last, Accounts(es, rows, m, last)
  PROVE  Accounts(es2, rows2, m, last)
<1>1. ASSUME NEW key \in Keys
      PROVE  \E b : Chain(es2, rows2, key, m, b, FullOf(last[key], key))
  <2>1. PICK b, full : Chain(es, rows, key, m, b, full) /\ full = FullOf(last[key], key)
    BY DEF Accounts
  <2>2. \E b2 : Chain(es2, rows2, key, m, b2, full)
    BY <2>1, ChainShrinks
  <2> QED
    BY <2>1, <2>2
<1>2. MovesInOrder(es2, rows2, m)
  <2>0. Len(es2) = n - 1
    BY DEF TakesOut
  <2> SUFFICES ASSUME NEW i \in 1..(n - 1), NEW j \in 1..(n - 1), NEW key \in Keys, i < j,
                      Moves(es2, rows2, i, key, m), Moves(es2, rows2, j, key, m)
               PROVE  /\ es2[i].occurred_at <= es2[j].occurred_at
                      /\ es2[i].knowledge_at <= es2[j].knowledge_at
    BY <2>0 DEF MovesInOrder
  <2>1. PICK i1, j1 : i1 = WasAt(k, i) /\ j1 = WasAt(k, j)
    OBVIOUS
  <2>2. i1 \in 1..n /\ j1 \in 1..n /\ i1 < j1
    BY <2>1 DEF WasAt
  <2>3. es2[i] = es[i1] /\ es2[j] = es[j1]
    <3>1. \A x \in 1..(n - 1) : es2[x] = es[WasAt(k, x)]
      <4> TAKE x \in 1..(n - 1)
      <4>1. CASE x < k
        BY <4>1 DEF TakesOut, WasAt
      <4>2. CASE ~(x < k)
        BY <4>2 DEF TakesOut, WasAt
      <4> QED
        BY <4>1, <4>2
    <3> QED
      BY <2>1, <3>1
  <2>4. Moves(es, rows, i1, key, m) /\ Moves(es, rows, j1, key, m)
    BY <2>1, OthersMove
  <2>5. es[i1].occurred_at <= es[j1].occurred_at /\ es[i1].knowledge_at <= es[j1].knowledge_at
    BY <2>2, <2>4 DEF Accounts, MovesInOrder
  <2> QED
    BY <2>3, <2>5
<1> QED
  BY <1>1, <1>2 DEF Accounts

(* An event e that is made of a new result, p, of a key, after q.          *)
IsPosted(F, all, now, es, n, es2, last, key, q, e, p, last2) ==
  /\ n = Len(es) /\ Len(es2) = n + 1 /\ \A i \in 1..n : es2[i] = es[i] /\ EventOK(es[i])
  /\ AuthorOK(F, all, now, es, last) /\ q = last[key] /\ e = es2[n + 1] /\ EventOK(e) /\ e.key = key
  /\ Follows(F, all, now, key, q, e, p) /\ last2 = [last EXCEPT ![key] = p]

LEMMA AuthorPosts ==
  ASSUME NEW F, NEW all, NEW now, NEW es, NEW n \in Nat, NEW es2, NEW last \in [Keys -> Prior],
         NEW key \in Keys, NEW q, NEW e, NEW p \in Prior, NEW last2,
         IsPosted(F, all, now, es, n, es2, last, key, q, e, p, last2)
  PROVE  AuthorOK(F, all, now, es2, last2)
<1>0. /\ n = Len(es) /\ Len(es2) = n + 1 /\ \A i \in 1..n : es2[i] = es[i] /\ EventOK(es[i])
      /\ AuthorOK(F, all, now, es, last) /\ q = last[key] /\ e = es2[n + 1] /\ EventOK(e) /\ e.key = key
      /\ Follows(F, all, now, key, q, e, p) /\ last2 = [last EXCEPT ![key] = p]
  BY DEF IsPosted
<1> USE <1>0
<1>1. last2[key] = p /\ \A k \in Keys : k # key => last2[k] = last[k]
  OBVIOUS
<1>2. ASSUME NEW k \in Keys PROVE KeyIs(F, all, now, k, last2[k])
  BY <1>1 DEF AuthorOK, Follows
<1>3. ASSUME NEW i \in 1..(n + 1) PROVE EventIs(F, all, now, es2[i], last2[es2[i].key])
  <2>1. CASE i = n + 1
    BY <1>1, <2>1 DEF Follows
  <2>2. CASE i # n + 1
    <3>1. i \in 1..n
      BY <2>2
    <3>2. PICK x : x = es2[i] /\ EventOK(x) /\ EventIs(F, all, now, x, last[x.key])
      BY <3>1 DEF AuthorOK
    <3>3. x.key \in Keys
      BY <3>2 DEF EventOK
    <3>4. CASE x.key = key
      <4>1. EventIs(F, all, now, x, p)
        BY <3>2, <3>4 DEF Follows
      <4> QED
        BY <1>1, <3>2, <3>4, <4>1
    <3>5. CASE x.key # key
      BY <1>1, <3>2, <3>3, <3>5
    <3> QED
      BY <3>4, <3>5
  <2> QED
    BY <2>1, <2>2
<1>4. ASSUME NEW i \in 1..(n + 1), NEW j \in 1..(n + 1), i < j PROVE InOrder(F, es2[i], es2[j])
  <2>1. i \in 1..n
    BY <1>4
  <2>2. CASE j = n + 1
    <3>1. PICK x, y : x = es2[i] /\ y = last[x.key] /\ EventOK(x) /\ EventIs(F, all, now, x, y)
      BY <2>1 DEF AuthorOK
    <3>2. InOrder(F, x, e)
      BY <3>1 DEF Follows
    <3> QED
      BY <2>2, <3>1, <3>2
  <2>3. CASE j # n + 1
    <3>1. j \in 1..n
      BY <2>3
    <3> QED
      BY <1>4, <2>1, <3>1 DEF AuthorOK
  <2> QED
    BY <2>2, <2>3
<1> QED
  BY <1>2, <1>3, <1>4 DEF AuthorOK

LEMMA AccountsOfAuthor ==
  ASSUME NEW F, NEW all, NEW now, NEW es, NEW n \in Nat, NEW es2, NEW last \in [Keys -> Prior],
         NEW key \in Keys, NEW q, NEW e, NEW p \in Prior, NEW last2,
         IsPosted(F, all, now, es, n, es2, last, key, q, e, p, last2),
         NEW m, Accounts(es, {}, m, last)
  PROVE  Accounts(es2, {}, m, last2)
<1>0. /\ n = Len(es) /\ Len(es2) = n + 1 /\ \A i \in 1..n : es2[i] = es[i] /\ EventOK(es[i])
      /\ AuthorOK(F, all, now, es, last) /\ q = last[key] /\ e = es2[n + 1] /\ EventOK(e) /\ e.key = key
      /\ Follows(F, all, now, key, q, e, p) /\ last2 = [last EXCEPT ![key] = p]
  BY DEF IsPosted
<1> USE <1>0
<1>1. last2[key] = p /\ last2 \in [Keys -> Prior] /\ \A k \in Keys : k # key => last2[k] = last[k]
  OBVIOUS
<1>2. /\ Shape(e) /\ e.deltas \in Deltas /\ (e.named => e.deltas = NoBalances)
      /\ EventIs(F, all, now, e, p)
  BY DEF Follows, EventIs, EventOK, Shape
<1>3. ASSUME NEW i \in 1..n
      PROVE  /\ Shape(es2[i]) /\ InOrder(F, es2[i], e)
             /\ es2[i].key = key /\ es2[i].named = FALSE /\ es2[i].payment = None
                /\ e.payment = None /\ es2[i].revision = e.revision => e.deltas = NoBalances
             /\ (~es2[i].named => es2[i].named = FALSE)
  <2>1. PICK x, y : x = es2[i] /\ y = last[x.key] /\ EventOK(x) /\ EventIs(F, all, now, x, y)
    BY DEF AuthorOK
  <2>2. Shape(x) /\ x.unavailable \in BOOLEAN
    BY <2>1 DEF EventIs, EventOK
  <2>3. ~x.named => x.named = FALSE
    BY <2>2 DEF Shape
  <2>4. InOrder(F, x, e) /\ (x.key = key /\ x.named = FALSE /\ x.payment = None /\ e.payment = None
                            /\ x.revision = e.revision => e.deltas = NoBalances)
    BY <2>1 DEF Follows
  <2> QED
    BY <2>1, <2>2, <2>3, <2>4
<1>4. Moves(es2, {}, n + 1, key, m) <=> e.deltas # NoBalances
  <2>1. ASSUME e.deltas # NoBalances, NEW i \in 1..n, Name(es2[i], m) = Name(e, m) PROVE FALSE
    <3>1. PICK x : x = es2[i]
      OBVIOUS
    <3>2. Shape(x) /\ Name(x, m) = Name(e, m)
      BY <1>3, <2>1, <3>1
    <3>3. /\ x.named <=> e.named
          /\ ~x.named => (x.payment = None <=> e.payment = None)
          /\ ~x.named /\ x.payment # None => x.payment = e.payment
          /\ ~x.named /\ x.payment = None => x.key = e.key /\ x.revision = e.revision
      BY <1>2, <3>2, SameName
    <3>4. ~x.named
      BY <1>2, <2>1, <3>3
    <3>5. x.payment = None
      BY <1>3, <3>1, <3>3, <3>4 DEF InOrder
    <3> QED
      BY <1>3, <2>1, <3>1, <3>3, <3>4, <3>5
  <2>2. (n + 1) - 1 = n
    OBVIOUS
  <2>3. e.deltas # NoBalances => Counts(es2, {}, n + 1, m)
    BY <1>2, <2>1, <2>2, Zenon DEF Counts
  <2> QED
    BY <2>3 DEF Moves
<1>5. \A k \in Keys : k # key => ~Moves(es2, {}, n + 1, k, m)
  BY DEF Moves
<1>6. Plus(FullOf(q, key), e.deltas) = FullOf(p, key) /\ FullOf(q, key) \in Deltas
  <2>1. q \in Prior
    OBVIOUS
  <2> QED
    BY <2>1, FullIs DEF Follows
<1>7. ASSUME NEW k \in Keys
      PROVE  FullOf(last2[k], k) =
               IF Moves(es2, {}, n + 1, k, m)
               THEN Plus(FullOf(last[k], k), es2[n + 1].deltas) ELSE FullOf(last[k], k)
  <2>1. CASE k # key
    BY <1>1, <1>5, <2>1
  <2>2. CASE k = key
    <3>1. CASE e.deltas = NoBalances
      <4>1. FullOf(p, key) = FullOf(q, key)
        BY <1>6, <3>1, PlusNothing
      <4> QED
        BY <1>1, <1>4, <2>2, <3>1, <4>1
    <3>2. CASE e.deltas # NoBalances
      BY <1>1, <1>4, <1>6, <2>2, <3>2
    <3> QED
      BY <3>1, <3>2
  <2> QED
    BY <2>1, <2>2
<1>8. ASSUME NEW i \in 1..n, NEW k \in Keys, Moves(es2, {}, i, k, m), Moves(es2, {}, n + 1, k, m)
      PROVE  /\ es2[i].occurred_at <= es2[n + 1].occurred_at
             /\ es2[i].knowledge_at <= es2[n + 1].knowledge_at
  <2>1. k = key /\ es2[i].key = key /\ ~es2[i].named /\ ~e.named /\ e.deltas # NoBalances
    BY <1>5, <1>8 DEF Moves, Counts
  <2>2. Entitles(F, key)
    BY <1>2, <2>1 DEF EventIs
  <2> QED
    BY <1>3, <2>1, <2>2 DEF InOrder
<1>9. Grows(es, es2, n, {}, m, last, last2)
  BY <1>7, <1>8, Zenon DEF Grows
<1> QED
  BY <1>1, <1>9, AccountsGrow

(* An event that is given again. *)
LEMMA AccountsOfCopy ==
  ASSUME NEW es, NEW n \in Nat, n = Len(es), NEW es2, Len(es2) = n + 1,
         \A i \in 1..n : es2[i] = es[i], NEW last \in [Keys -> Prior], NEW rows, NEW m,
         Accounts(es, rows, m, last), es2[n + 1].named \/ \E i \in 1..n : Name(es[i], m) = Name(es2[n + 1], m)
  PROVE  Accounts(es2, rows, m, last)
<1>1. \A k : ~Moves(es2, rows, n + 1, k, m)
  <2>1. (n + 1) - 1 = n
    OBVIOUS
  <2>2. ~Counts(es2, rows, n + 1, m)
    BY <2>1, Zenon DEF Counts
  <2> QED
    BY <2>2 DEF Moves
<1>2. Grows(es, es2, n, rows, m, last, last)
  BY <1>1, Zenon DEF Grows
<1> QED
  BY <1>2, AccountsGrow

-----------------------------------------------------------------------------
(* The replay posts the first event there is. *)

Everything(es, rows) == {es[i] : i \in 1..Len(es)} \cup rows

LEMMA SchedulesInOrder ==
  ASSUME NEW x, NEW y, x.occurred_at \in Nat, x.knowledge_at \in Nat, y.occurred_at \in Nat,
         y.knowledge_at \in Nat, NEW m
  PROVE  /\ x.occurred_at <= y.occurred_at /\ x.knowledge_at <= y.knowledge_at =>
              Scheduled(x, m) <= Scheduled(y, m)
         /\ Scheduled(x, m) \in Nat
  BY DEF Scheduled, Larger

LEMMA InsertedOnce ==
  ASSUME NEW all, NEW last, PapersOK(all, postings, mode, last), NEW e \in all, EventOK(e),
         postings \subseteq all
  PROVE  Status(e) = "inserted" <=> \A r \in postings : r.logical_key # Name(e, mode)
<1>1. logical_key(e) = Name(e, mode)
  BY RowIs, RowFields
<1>2. ASSUME NEW row \in Payments(e) PROVE Recorded(e) # {}
  <2>1. row \in postings /\ e.payment # None /\ row.payment = e.payment
    BY <1>2 DEF Payments
  <2>2. row.kind = e.kind /\ ~row.named /\ ~e.named
    BY <2>1, Zenon DEF PapersOK, SamePayment
  <2>3. Name(row, mode) = Name(e, mode)
    BY <2>1, <2>2 DEF Name
  <2>4. row.logical_key = Name(row, mode)
    BY <2>1 DEF PapersOK
  <2> QED
    BY <1>1, <2>1, <2>3, <2>4 DEF Recorded
<1>3. Status(e) = "inserted" <=> Recorded(e) = {}
  BY <1>2, Zenon DEF Status
<1> QED
  BY <1>1, <1>3 DEF Recorded

LEMMA FirstIsFirst ==
  ASSUME NEW S, EventsIn(S), events # <<>>, NEW k, k = FirstEvent, NEW last,
         PapersOK(Everything(events, postings), postings, mode, last),
         MovesInOrder(events, postings, mode), post_event
  PROVE  /\ k \in 1..Len(events)
         /\ TakesOut(events, events', k, postings, postings', Row(events[k]), mode)
<1>1. PICK n \in Nat : n = Len(events) /\ DOMAIN events = 1..n
  BY EventsAt
<1>2. PICK es : es = events /\ \A i \in 1..n : EventOK(es[i]) /\ es[i] \in Everything(es, postings)
  BY <1>1, EventsAt DEF Everything
<1>3. k \in 1..n /\ \A j \in 1..(k - 1) : scheduled_at(es[j]) > scheduled_at(es[k])
  BY <1>1, <1>2, FirstEventIsThere
<1>4. PICK e : e = es[k] /\ EventOK(e) /\ e \in Everything(es, postings)
  BY <1>2, <1>3
<1>5. PICK row : row = Row(e)
  OBVIOUS
<1>6. events' = Without(k)
  BY Zenon DEF post_event
<1>7. /\ Len(events') = n - 1 /\ \A i \in 1..(k - 1) : events'[i] = es[i]
      /\ \A i \in k..(n - 1) : events'[i] = es[i + 1]
  BY <1>1, <1>2, <1>3, <1>6, EventIsTaken
<1>8. row.key = e.key /\ row.deltas = e.deltas /\ row.logical_key = Name(e, mode)
  BY <1>4, <1>5, RowIs
<1>9. postings' = IF \A r \in postings : r.logical_key # Name(e, mode)
                  THEN postings \cup {row} ELSE postings
  <2>1. postings \subseteq Everything(es, postings)
    BY DEF Everything
  <2>2. Status(e) = "inserted" <=> \A r \in postings : r.logical_key # Name(e, mode)
    BY <1>2, <1>4, <2>1, InsertedOnce
  <2>3. postings' = IF Status(e) = "inserted" THEN postings \cup {Row(e)} ELSE postings
    BY <1>2, <1>4, Zenon DEF post_event
  <2> QED
    BY <1>5, <2>2, <2>3
<1>10. \A i \in 1..n : /\ Shape(es[i]) /\ (es[i].named => es[i].payment = None)
                       /\ es[i].occurred_at \in Nat /\ es[i].knowledge_at \in Nat
  BY <1>2 DEF PapersOK, EventOK
<1>11. ASSUME NEW j \in 1..(k - 1) PROVE ~(Scheduled(es[j], mode) <= Scheduled(es[k], mode))
  <2>1. j \in 1..n
    BY <1>3
  <2>2. Scheduled(es[j], mode) \in Nat /\ Scheduled(es[k], mode) \in Nat
    BY <1>3, <1>10, <2>1, SchedulesInOrder
  <2>3. Scheduled(es[j], mode) > Scheduled(es[k], mode)
    BY <1>3 DEF scheduled_at
  <2> QED
    BY <2>2, <2>3
<1>12. ASSUME NEW j \in 1..(k - 1), ~es[j].named \/ ~es[k].named, Name(es[j], mode) = Name(es[k], mode)
       PROVE  FALSE
  <2>1. j \in 1..n
    BY <1>3
  <2>2. PICK x, y : x = es[j] /\ y = es[k] /\ Shape(x) /\ Shape(y)
    BY <1>3, <1>10, <2>1
  <2>3. /\ x.named <=> y.named
        /\ ~x.named /\ x.payment # None => x.payment = y.payment
        /\ ~x.named /\ x.payment = None => Scheduled(x, mode) = Scheduled(y, mode)
    BY <1>12, <2>2, SameName
  <2>4. SamePayment(x, y)
    BY <1>2, <1>3, <2>1, <2>2 DEF PapersOK
  <2>5. x.occurred_at \in Nat /\ x.knowledge_at \in Nat /\ y.occurred_at \in Nat
        /\ y.knowledge_at \in Nat
    BY <1>3, <1>10, <2>1, <2>2
  <2>6. Scheduled(x, mode) = Scheduled(y, mode)
    BY <1>12, <2>2, <2>3, <2>4 DEF SamePayment, Scheduled
  <2>7. Scheduled(x, mode) <= Scheduled(y, mode)
    BY <2>5, <2>6, SchedulesInOrder
  <2> QED
    BY <1>11, <2>2, <2>7
<1>13. ASSUME NEW j \in 1..(k - 1), NEW key \in Keys, Moves(es, postings, k, key, mode),
              Moves(es, postings, j, key, mode)
       PROVE  FALSE
  <2>1. j \in 1..n /\ j < k
    BY <1>3
  <2>2. es[j].occurred_at <= es[k].occurred_at /\ es[j].knowledge_at <= es[k].knowledge_at
    BY <1>1, <1>2, <1>3, <1>13, <2>1 DEF MovesInOrder
  <2>3. Scheduled(es[j], mode) <= Scheduled(es[k], mode)
    BY <1>3, <1>10, <2>1, <2>2, SchedulesInOrder
  <2> QED
    BY <1>11, <2>3
<1>14. e.named => e.deltas = NoBalances
  BY <1>3, <1>4, <1>10 DEF Shape, EventOK
<1> HIDE DEF TakesOut
<1>15. TakesOut(es, events', k, postings, postings', row, mode)
  BY <1>1, <1>2, <1>4, <1>7, <1>8, <1>9, <1>12, <1>13, <1>14, Zenon DEF TakesOut
<1> QED
  BY <1>1, <1>2, <1>3, <1>4, <1>5, <1>15
(* What was said of the payments stays said. *)
Alike(x, y) ==
  /\ x.key = y.key /\ x.named = y.named /\ x.unavailable = y.unavailable
  /\ x.payment = y.payment /\ x.kind = y.kind
  /\ x.occurred_at = y.occurred_at /\ x.knowledge_at = y.knowledge_at

LEMMA PapersStay ==
  ASSUME NEW all, NEW all2, NEW rows, NEW rows2, NEW m, NEW last, PapersOK(all, rows, m, last),
         \A x \in all2 : \E y \in all : Alike(x, y),
         \A row \in rows2 : row.logical_key = Name(row, m),
         \A x \in all : x.unavailable => \E y \in all2 : y.unavailable /\ y.key = x.key
  PROVE  PapersOK(all2, rows2, m, last)
<1>1. ASSUME NEW x \in all2 PROVE Shape(x) /\ (x.named => x.payment = None)
  <2>1. PICK y \in all : Alike(x, y)
    OBVIOUS
  <2>2. Shape(y) /\ (y.named => y.payment = None)
    BY DEF PapersOK
  <2> QED
    BY <2>1, <2>2 DEF Alike, Shape
<1>2. ASSUME NEW x \in all2, NEW y \in all2 PROVE SamePayment(x, y)
  <2>1. PICK u \in all, v \in all : Alike(x, u) /\ Alike(y, v)
    OBVIOUS
  <2>2. SamePayment(u, v)
    BY DEF PapersOK
  <2> QED
    BY <2>1, <2>2 DEF Alike, SamePayment
<1>3. ASSUME NEW key \in Keys, last[key].status = "unknown"
      PROVE  \E x \in all2 : x.unavailable /\ x.key = key
  <2>1. PICK x \in all : x.unavailable /\ x.key = key
    BY <1>3 DEF PapersOK
  <2> QED
    BY <2>1
<1> QED
  BY <1>1, <1>2, <1>3 DEF PapersOK

LEMMA PapersShrink ==
  ASSUME NEW es, NEW n \in Nat, n = Len(es), NEW es2, NEW k \in 1..n, NEW rows, NEW rows2, NEW row,
         NEW m, TakesOut(es, es2, k, rows, rows2, row, m), NEW e, e = es[k], Alike(row, e),
         row.logical_key = Name(row, m), NEW last, PapersOK(Everything(es, rows), rows, m, last)
  PROVE  PapersOK(Everything(es2, rows2), rows2, m, last)
<1>1. /\ Len(es2) = n - 1 /\ \A i \in 1..(k - 1) : es2[i] = es[i]
      /\ \A i \in k..(n - 1) : es2[i] = es[i + 1]
      /\ rows2 = IF \A r \in rows : r.logical_key # Name(e, m) THEN rows \cup {row} ELSE rows
  BY DEF TakesOut
<1>2. e \in Everything(es, rows) /\ rows \subseteq Everything(es, rows)
  BY DEF Everything
<1>3. \A x : Alike(x, x)
  BY DEF Alike
<1>4. ASSUME NEW x \in Everything(es2, rows2) PROVE \E y \in Everything(es, rows) : Alike(x, y)
  <2>1. CASE x \in rows2
    BY <1>1, <1>2, <1>3, <2>1
  <2>2. CASE x \notin rows2
    <3>1. PICK i \in 1..(n - 1) : x = es2[i]
      BY <1>1, <2>2 DEF Everything
    <3>2. CASE i < k
      <4>1. i \in 1..n /\ x = es[i]
        BY <1>1, <3>1, <3>2
      <4> QED
        BY <1>3, <4>1 DEF Everything
    <3>3. CASE ~(i < k)
      <4>1. i + 1 \in 1..n /\ x = es[i + 1]
        BY <1>1, <3>1, <3>3
      <4> QED
        BY <1>3, <4>1 DEF Everything
    <3> QED
      BY <3>2, <3>3
  <2> QED
    BY <2>1, <2>2
<1>5. \A r \in rows2 : r.logical_key = Name(r, m)
  BY <1>1 DEF PapersOK
<1>6. ASSUME NEW x \in Everything(es, rows), x.unavailable
      PROVE  \E y \in Everything(es2, rows2) : y.unavailable /\ y.key = x.key
  <2>1. CASE x \in rows
    BY <1>1, <1>6, <2>1 DEF Everything
  <2>2. CASE x \notin rows
    <3>1. PICK i \in 1..n : x = es[i]
      BY <2>2 DEF Everything
    <3>2. CASE i < k
      <4>1. i \in 1..(n - 1) /\ x = es2[i]
        BY <1>1, <3>1, <3>2
      <4> QED
        BY <1>1, <1>6, <4>1 DEF Everything
    <3>3. CASE i > k
      <4>1. i - 1 \in 1..(n - 1) /\ i - 1 \in k..(n - 1) /\ (i - 1) + 1 = i
        BY <3>3
      <4>2. x = es2[i - 1]
        BY <1>1, <3>1, <4>1
      <4> QED
        BY <1>1, <1>6, <4>1, <4>2 DEF Everything
    <3>4. CASE i = k
      <4>1. CASE rows2 = rows \cup {row}
        <5>1. row.unavailable /\ row.key = x.key
          BY <1>6, <3>1, <3>4 DEF Alike
        <5> QED
          BY <4>1, <5>1 DEF Everything
      <4>2. CASE rows2 # rows \cup {row}
        <5>1. PICK r \in rows : r.logical_key = Name(e, m) /\ rows2 = rows
          BY <1>1, <4>2
        <5>2. Shape(r) /\ Shape(e) /\ Name(r, m) = Name(e, m)
          BY <1>2, <5>1 DEF PapersOK
        <5>3. (e.named <=> r.named) /\ (e.named => e.key = r.key)
          BY <5>2, SameName
        <5>4. e.named /\ x = e
          BY <1>6, <3>1, <3>4, <5>2, Zenon DEF Shape
        <5>5. r.unavailable /\ r.key = x.key
          BY <5>2, <5>3, <5>4, Zenon DEF Shape
        <5> QED
          BY <5>1, <5>5 DEF Everything
      <4> QED
        BY <4>1, <4>2
    <3> QED
      BY <3>2, <3>3, <3>4
  <2> QED
    BY <2>1, <2>2
<1> QED
  BY <1>4, <1>5, <1>6, PapersStay

(* No key owes more than the journal holds of it, so no balance of several *)
(* keys becomes negative either.                                           *)
SolventIn(rows) ==
  \A T \in SUBSET Keys, c \in Columns \ {"cash"} : 0 <= Total(RowsOf(rows, T), c)

LEMMA TotalOfBoth ==
  ASSUME NEW rows, RowsOK(rows), NEW T, NEW U, T \cap U = {}, NEW c \in Columns
  PROVE  /\ Total(RowsOf(rows, T \cup U), c) = Total(RowsOf(rows, T), c) + Total(RowsOf(rows, U), c)
         /\ Total(RowsOf(rows, T), c) \in Int /\ Total(RowsOf(rows, U), c) \in Int
<1> DEFINE f == [row \in rows |-> row.deltas[c]]
<1>1. IntOn(f, rows)
  BY DEF IntOn, RowsOK, RowOK, Deltas
<1>2. ASSUME NEW V PROVE Total(RowsOf(rows, V), c) = Sum(f, RowsOf(rows, V)) /\ IntOn(f, RowsOf(rows, V))
  <2> DEFINE part == RowsOf(rows, V)
             g == [row \in part |-> row.deltas[c]]
  <2>1. part \in SUBSET rows
    BY DEF RowsOf
  <2>2. IsFiniteSet(part)
    BY <2>1, FS_Subset DEF RowsOK
  <2>3. IntOn(f, part) /\ IntOn(g, part) /\ DOMAIN g = part /\ \A x \in part : g[x] = f[x]
    BY <1>1, <2>1, <2>2 DEF IntOn
  <2> HIDE DEF f, g, part
  <2>4. SumFunction(g) = Sum(f, part)
    BY <2>3, SumIs, SumsAgree
  <2> QED
    BY <2>3, <2>4 DEF Total, g, part
<1>3. PICK a, b, ab : a = RowsOf(rows, T) /\ b = RowsOf(rows, U) /\ ab = RowsOf(rows, T \cup U)
  OBVIOUS
<1>4. ab = a \cup b /\ a \cap b = {}
  BY <1>3 DEF RowsOf
<1>5. IntOn(f, a) /\ IntOn(f, b) /\ IntOn(f, a \cup b)
  BY <1>2, <1>3, <1>4
<1> HIDE DEF f
<1>6. Sum(f, a \cup b) = Sum(f, a) + Sum(f, b) /\ Sum(f, a) \in Int /\ Sum(f, b) \in Int
  BY <1>4, <1>5, SumOfUnion, SumIsInt
<1> QED
  BY <1>2, <1>3, <1>4, <1>6

LEMMA TotalWithKey ==
  ASSUME NEW rows, RowsOK(rows), NEW T, NEW key \in T, NEW c \in Columns,
         0 <= Total(RowsOf(rows, T \ {key}), c), 0 <= Total(RowsOf(rows, {key}), c)
  PROVE  0 <= Total(RowsOf(rows, T), c)
<1>1. PICK U, V : U = T \ {key} /\ V = {key}
  OBVIOUS
<1>2. T = U \cup V /\ U \cap V = {}
  BY <1>1
<1>3. /\ Total(RowsOf(rows, U \cup V), c) = Total(RowsOf(rows, U), c) + Total(RowsOf(rows, V), c)
      /\ Total(RowsOf(rows, U), c) \in Int /\ Total(RowsOf(rows, V), c) \in Int
  BY <1>2, TotalOfBoth
<1>4. Total(RowsOf(rows, T), c) = Total(RowsOf(rows, U), c) + Total(RowsOf(rows, V), c)
  BY <1>2, <1>3, Zenon
<1>5. 0 <= Total(RowsOf(rows, U), c) /\ 0 <= Total(RowsOf(rows, V), c)
  BY <1>1
<1> QED
  BY <1>3, <1>4, <1>5

LEMMA SolventStays ==
  ASSUME NEW rows, RowsOK(rows), SolventIn(rows), NEW row, RowOK(row), row \notin rows, NEW rows2,
         rows2 = rows \cup {row}, NEW key, key = row.key, NEW es, NEW m, NEW b, NEW full,
         Chain(es, rows2, key, m, b, full), Len(es) \in Nat
  PROVE  SolventIn(rows2)
<1>1. RowsOK(rows2) /\ \A T : row.key \notin T => RowsOf(rows2, T) = RowsOf(rows, T)
  <2>1. ASSUME NEW T
        PROVE  RowsOK(rows2) /\ (row.key \notin T => RowsOf(rows2, T) = RowsOf(rows, T))
    BY RowsOfKeys
  <2> QED
    BY <2>1
<1>2. ASSUME NEW T \in SUBSET Keys, NEW c \in Columns, c # "cash"
      PROVE  0 <= Total(RowsOf(rows2, T), c)
  <2>1. CASE key \notin T
    BY <1>1, <1>2, <2>1 DEF SolventIn
  <2>2. CASE key \in T
    <3>1. T \ {key} \in SUBSET Keys /\ row.key \notin T \ {key}
      OBVIOUS
    <3>2. 0 <= Total(RowsOf(rows2, T \ {key}), c)
      BY <1>1, <1>2, <3>1 DEF SolventIn
    <3>3. 0 <= Total(RowsOf(rows2, {key}), c)
      <4>1. 0 \in 0..Len(es)
        OBVIOUS
      <4>2. b[0] \in Deltas /\ ~Negative(b[0]) /\ b[0][c] = Total(RowsOf(rows2, {key}), c)
        BY <4>1 DEF Chain
      <4>3. ~(b[0][c] < 0) /\ b[0][c] \in Int
        BY <1>2, <4>2 DEF Negative, Deltas
      <4> QED
        BY <4>2, <4>3
    <3>4. RowsOK(rows2)
      BY <1>1
    <3> QED
      BY <2>2, <3>2, <3>3, <3>4, TotalWithKey
  <2> QED
    BY <2>1, <2>2
<1> QED
  BY <1>2 DEF SolventIn

LEMMA CopyIsAlike ==
  ASSUME NEW e, EventOK(e), NEW altered \in BOOLEAN, altered => e.payment # None,
         e.named => e.payment = None
  PROVE  Alike(Copy(e, altered), e) /\ \A m : Name(Copy(e, altered), m) = Name(e, m)
<1>1. PICK f : f = Copy(e, altered)
  OBVIOUS
<1>2. /\ f.key = e.key /\ f.named = e.named /\ f.unavailable = e.unavailable
      /\ f.payment = e.payment /\ f.kind = e.kind
      /\ f.occurred_at = e.occurred_at /\ f.knowledge_at = e.knowledge_at
      /\ e.payment = None => f = e
  <2>1. CASE altered
    <3>1. PICK d : f = [e EXCEPT !.deltas = d]
      BY <1>1, <2>1 DEF Copy
    <3> QED
      BY <2>1, <3>1 DEF EventOK, EventFields
  <2>2. CASE ~altered
    <3>1. CASE e.payment = None
      BY <1>1, <2>2, <3>1 DEF Copy
    <3>2. CASE e.payment # None
      <4>1. PICK i : f = [e EXCEPT !.revision = i]
        BY <1>1, <2>2, <3>2 DEF Copy
      <4> QED
        BY <3>2, <4>1 DEF EventOK, EventFields
    <3> QED
      BY <3>1, <3>2
  <2> QED
    BY <2>1, <2>2
<1>3. ASSUME NEW m PROVE Name(f, m) = Name(e, m)
  BY <1>2, Zenon DEF Name
<1> QED
  BY <1>1, <1>2, <1>3 DEF Alike

-----------------------------------------------------------------------------
(* What holds of the scenario and the replay together.                     *)

Agrees(all, key, p) ==
  LET r == View(all, key, Horizon, Whole)
  IN  Postable(r) => IF r.status = "known" THEN prior(r) = p ELSE p.status = "unknown"
Accounted ==
  \A m \in Modes : pc \in {"scenario", "told"} \/ m = mode => Accounts(events, postings, m, posted)
KeptFor(F) ==
  /\ pc = "scenario" => AuthorOK(F, facts, clock, events, posted)
  /\ PapersOK(Everything(events, postings), postings, mode, posted)
  /\ SolventIn(postings)
  /\ Accounted
  /\ pc # "scenario" => \A key \in Keys : Agrees(facts, key, posted[key])
  /\ pc \notin {"scenario", "told"} => mode \in Modes /\ pc # "raised"

LEMMA KeptInit ==
  ASSUME NEW F, Init
  PROVE  KeptFor(F)
<1>1. PICK p : p = prior(NothingOwed)
  OBVIOUS
<1>2. p.status = "known" /\ p.settled = 0 /\ p.balances = NoBalances
  BY <1>1, NothingOwedFields DEF prior
<1>3. /\ pc = "scenario" /\ \A key \in Keys : posted[key] = p
      /\ postings = {} /\ events = <<>> /\ Len(events) = 0 /\ 1..Len(events) = {}
  BY <1>1 DEF Init
<1>4. AuthorOK(F, facts, clock, events, posted)
  BY <1>2, <1>3 DEF AuthorOK, KeyIs
<1>5. PapersOK(Everything(events, postings), postings, mode, posted)
  BY <1>2, <1>3 DEF PapersOK, Everything
<1>6. \A T, c : Total(RowsOf(postings, T), c) = 0
  <2>1. \A T : RowsOf(postings, T) = {}
    BY <1>3 DEF RowsOf
  <2> QED
    BY <2>1, TotalOfNothing
<1>7. ASSUME NEW key \in Keys
      PROVE  FullOf(p, key) = NoBalances
  <2>1. Sign(key[2]) * p.settled = 0
    BY <1>2 DEF Sign
  <2>2. NoBalances = [NoBalances EXCEPT !.cash = 0]
    BY DEF NoBalances
  <2> QED
    BY <1>2, <2>1, <2>2 DEF FullOf
<1>8. ASSUME NEW m PROVE Accounts(events, postings, m, posted)
  <2>1. MovesInOrder(events, postings, m)
    BY <1>3 DEF MovesInOrder
  <2>2. ASSUME NEW key \in Keys
        PROVE  \E b : Chain(events, postings, key, m, b, FullOf(posted[key], key))
    <3>1. PICK b : b = [i \in 0..0 |-> NoBalances]
      OBVIOUS
    <3>2. /\ \A i \in 0..Len(events) : b[i] = NoBalances /\ b[Len(events)] = NoBalances
          /\ b[0] = NoBalances
      BY <1>3, <3>1
    <3>3. NoBalances \in Deltas /\ ~Negative(NoBalances)
      BY BalancesAreDeltas DEF Negative
    <3>4. \A c \in Columns : b[0][c] = Total(RowsOf(postings, {key}), c)
      BY <1>6, <3>2, BalancesAreDeltas
    <3>5. FullOf(posted[key], key) = b[Len(events)]
      BY <1>3, <1>7, <3>1
    <3>6. Chain(events, postings, key, m, b, FullOf(posted[key], key))
      BY <1>3, <3>2, <3>3, <3>4, <3>5 DEF Chain
    <3> QED
      BY <3>6
  <2> QED
    BY <2>1, <2>2 DEF Accounts
<1> QED
  BY <1>3, <1>4, <1>5, <1>6, <1>8 DEF KeptFor, SolventIn, Accounted

(* Steps that leave the journal and the events alone. *)
LEMMA KeptStays ==
  ASSUME NEW F, KeptFor(F), UNCHANGED <<mode, facts, posted, events, postings>>,
         \/ UNCHANGED <<pc, clock>>
         \/ {pc, pc'} \cap {"scenario", "told", "raised"} = {}
  PROVE  KeptFor(F)'
  BY DEF KeptFor, Accounted, Agrees

LEMMA LearnKeeps ==
  ASSUME NEW F, ScenarioInv, Told, KeptFor(F), NEW f \in Facts, Learn(f)
  PROVE  KeptFor(F)'
<1>1. /\ pc = "scenario" /\ facts \subseteq facts' /\ UNCHANGED <<pc, mode, clock, posted, events, postings>>
      /\ clock \in Nat
  BY BarsAssumption DEF Learn, Scenario, ScenarioInv
<1>2. PICK S : EventsIn(S)
  BY DEF Told, EventsOK
<1>3. PICK all, all2, now : now \in Nat /\ all = facts /\ all2 = facts' /\ now = clock
  BY <1>1
<1>4. AuthorOK(F, all2, now, events, posted)
  <2>1. AuthorOK(F, all, now, events, posted)
    BY <1>1, <1>3 DEF KeptFor
  <2>2. /\ \A key, p : KeyIs(F, all, now, key, p) => KeyIs(F, all2, now, key, p)
        /\ \A x, p : x.knowledge_at \in Nat /\ EventIs(F, all, now, x, p) => EventIs(F, all2, now, x, p)
    BY <1>1, <1>3, MoreIsKnown
  <2>3. \A i \in 1..Len(events) : events[i].knowledge_at \in Nat
    BY <1>2, EventsAt DEF EventOK
  <2> QED
    BY <2>1, <2>2, <2>3 DEF AuthorOK
<1>5. (pc = "scenario" => AuthorOK(F, facts, clock, events, posted))'
  BY <1>1, <1>3, <1>4
<1> QED
  BY <1>1, <1>5 DEF KeptFor, Accounted

LEMMA TickKeeps ==
  ASSUME NEW F, ScenarioInv, Told, KeptFor(F), Tick
  PROVE  KeptFor(F)'
<1>1. /\ pc = "scenario" /\ UNCHANGED <<mode, facts, posted, events, postings>>
      /\ clock \in 0..Horizon /\ Horizon \in Nat /\ Due = {}
  BY BarsAssumption DEF Tick, Scenario, ScenarioInv
<1>2. CASE clock < Horizon
  <2>1. clock' = clock + 1 /\ pc' = pc
    BY <1>2 DEF Tick
  <2>2. PICK S : EventsIn(S)
    BY DEF Told, EventsOK
  <2>3. PICK all, now, now2 : /\ now \in Nat /\ now2 \in Nat /\ all = facts /\ now = clock
                                /\ now2 = clock' /\ now <= now2
    BY <1>1, <2>1
  <2>4. AuthorOK(F, all, now2, events, posted)
    <3>1. AuthorOK(F, all, now, events, posted)
      BY <1>1, <2>3 DEF KeptFor
    <3>2. /\ \A key, p : KeyIs(F, all, now, key, p) => KeyIs(F, all, now2, key, p)
          /\ \A x, p : x.knowledge_at \in Nat /\ EventIs(F, all, now, x, p) => EventIs(F, all, now2, x, p)
      BY <2>3, MoreIsKnown
    <3>3. \A i \in 1..Len(events) : events[i].knowledge_at \in Nat
      BY <2>2, EventsAt DEF EventOK
    <3> QED
      BY <3>1, <3>2, <3>3 DEF AuthorOK
  <2>5. (pc = "scenario" => AuthorOK(F, facts, clock, events, posted))'
    BY <1>1, <2>3, <2>4
  <2> QED
    BY <1>1, <2>1, <2>5 DEF KeptFor, Accounted
<1>3. CASE ~(clock < Horizon)
  <2>1. pc' = "told" /\ clock = Horizon
    BY <1>1, <1>3 DEF Tick
  <2>2. ASSUME NEW key \in Keys PROVE Agrees(facts, key, posted[key])
    <3>1. PICK r : r = View(facts, key, Horizon, Whole)
      OBVIOUS
    <3>2. ~Changed(key) /\ r = Now(key)
      BY <1>1, <2>1, <3>1 DEF Due, Now
    <3>3. prior(r).status = r.status
      BY DEF prior
    <3>4. Postable(r) => r.status \in {"known", "unknown"}
      BY DEF Postable
    <3>5. Postable(r) =>
            \/ prior(r) = posted[key]
            \/ r.status # "known" /\ posted[key].status = "unknown"
      BY <3>2, Zenon DEF Changed
    <3>6. Postable(r) => IF r.status = "known" THEN prior(r) = posted[key]
                                               ELSE posted[key].status = "unknown"
      BY <3>3, <3>4, <3>5
    <3> QED
      BY <3>1, <3>6, Zenon DEF Agrees
  <2> QED
    BY <1>1, <2>1, <2>2 DEF KeptFor, Accounted, Agrees
<1> QED
  BY <1>2, <1>3

(* The events with one more. *)
LEMMA EverythingGrows ==
  ASSUME NEW es, NEW n \in Nat, n = Len(es), NEW es2, Len(es2) = n + 1,
         \A i \in 1..n : es2[i] = es[i], NEW rows
  PROVE  Everything(es2, rows) = Everything(es, rows) \cup {es2[n + 1]}
<1>1. 1..(n + 1) = 1..n \cup {n + 1}
  OBVIOUS
<1> QED
  BY <1>1 DEF Everything

LEMMA PapersPosted ==
  ASSUME NEW F, NEW all, NEW now, NEW es, NEW n \in Nat, NEW es2, NEW last \in [Keys -> Prior],
         NEW key \in Keys, NEW q, NEW e, NEW p \in Prior, NEW last2,
         IsPosted(F, all, now, es, n, es2, last, key, q, e, p, last2),
         AuthorOK(F, all, now, es2, last2), NEW m, PapersOK(Everything(es, {}), {}, m, last),
         p.status = "unknown" => e.unavailable
  PROVE  PapersOK(Everything(es2, {}), {}, m, last2)
<1>0. /\ n = Len(es) /\ Len(es2) = n + 1 /\ \A i \in 1..n : es2[i] = es[i]
      /\ \A i \in 1..(n + 1) : EventOK(es2[i])
      /\ \A k \in Keys : k # key => last2[k] = last[k]
      /\ last2[key].status = "unknown" => es2[n + 1].unavailable /\ es2[n + 1].key = key
  <2>1. /\ n = Len(es) /\ Len(es2) = n + 1 /\ \A i \in 1..n : es2[i] = es[i] /\ EventOK(es[i])
        /\ e = es2[n + 1] /\ EventOK(e) /\ e.key = key
    BY DEF IsPosted
  <2>2. \A i \in 1..(n + 1) : EventOK(es2[i])
    BY <2>1
  <2>3. last2[key] = p /\ \A k \in Keys : k # key => last2[k] = last[k]
    BY DEF IsPosted
  <2> QED
    BY <2>1, <2>2, <2>3
<1> USE <1>0
<1>1. Everything(es2, {}) = Everything(es, {}) \cup {es2[n + 1]}
      /\ \A x \in Everything(es2, {}) : \E i \in 1..(n + 1) : x = es2[i]
  BY EverythingGrows DEF Everything
<1>2. ASSUME NEW x \in Everything(es2, {}) PROVE Shape(x) /\ (x.named => x.payment = None)
  <2>1. PICK i \in 1..(n + 1) : x = es2[i]
    BY <1>1
  <2>2. Shape(x) /\ EventOK(x)
    BY <2>1 DEF AuthorOK, EventIs
  <2> QED
    BY <2>2, Zenon DEF Shape, EventOK
<1>3. ASSUME NEW x \in Everything(es2, {}), NEW y \in Everything(es2, {}) PROVE SamePayment(x, y)
  <2>0. PICK i \in 1..(n + 1) : x = es2[i]
    BY <1>1
  <2>1. PICK j \in 1..(n + 1) : y = es2[j]
    BY <1>1
  <2>2. i < j \/ j < i \/ i = j
    OBVIOUS
  <2>3. i < j => InOrder(F, x, y)
    BY <2>0, <2>1 DEF AuthorOK
  <2>4. j < i => InOrder(F, y, x)
    BY <2>0, <2>1 DEF AuthorOK
  <2>5. i = j => x = y
    BY <2>0, <2>1
  <2> QED
    BY <2>2, <2>3, <2>4, <2>5, Zenon DEF SamePayment, InOrder
<1>4. ASSUME NEW k \in Keys, last2[k].status = "unknown"
      PROVE  \E x \in Everything(es2, {}) : x.unavailable /\ x.key = k
  <2>1. CASE k = key
    BY <1>1, <1>4, <2>1
  <2>2. CASE k # key
    BY <1>1, <1>4, <2>2 DEF PapersOK
  <2> QED
    BY <2>1, <2>2
<1> QED
  BY <1>2, <1>3, <1>4 DEF PapersOK

LEMMA PostKeeps ==
  ASSUME NEW F, Steady(F), facts \subseteq F, ScenarioInv, Told, Replayed, KeptFor(F), Post
  PROVE  KeptFor(F)'
<1>1. PICK key, r, e, p : /\ key \in Keys /\ Changed(key) /\ r = Now(key) /\ e = result_posting(key, r)
                          /\ p = IF r.status = "known" THEN prior(r)
                                 ELSE [posted[key] EXCEPT !.status = "unknown"]
                          /\ events' = Append(events, e) /\ posted' = [posted EXCEPT ![key] = p]
  <2>1. PICK key : key = CHOOSE k \in Due : TRUE
    OBVIOUS
  <2>2. key \in Keys /\ Changed(key)
    BY <2>1 DEF Post, Due
  <2>3. /\ events' = Append(events, result_posting(key, Now(key)))
        /\ posted' = [posted EXCEPT ![key] =
             IF Now(key).status = "known" THEN prior(Now(key))
             ELSE [posted[key] EXCEPT !.status = "unknown"]]
    BY <2>1, Zenon DEF Post
  <2> QED
    BY <2>2, <2>3
<1>2. /\ pc = "scenario" /\ UNCHANGED <<pc, mode, clock, facts, postings>> /\ clock \in Nat
      /\ FactsOK(facts, clock) /\ PostedOK /\ postings = {}
  BY BarsAssumption DEF Post, Scenario, ScenarioInv, Told, Replayed, Phases
<1>3. PICK S : EventsIn(S)
  BY DEF Told, EventsOK
<1>4. PICK all, now, n, es, es2, last, last2 :
        /\ all = facts /\ now = clock /\ n = Len(events) /\ es = events /\ es2 = events'
        /\ last = posted /\ last2 = posted'
  OBVIOUS
<1>5. EventOK(e) /\ e.key = key
  <2>1. EventOK(e)
    BY <1>1, <1>2, PostingIsAnEvent
  <2>2. e.key = key
    BY <1>1, Zenon DEF result_posting
  <2> QED
    BY <2>1, <2>2
<1>6. /\ n \in Nat /\ n = Len(es) /\ Len(es2) = n + 1 /\ e = es2[n + 1]
      /\ \A i \in 1..n : es2[i] = es[i] /\ EventOK(es[i])
  BY <1>1, <1>3, <1>4, <1>5, EventsAt, EventIsAppended
<1>7. last \in [Keys -> Prior] /\ last2 = [last EXCEPT ![key] = p]
  BY <1>1, <1>2, <1>4 DEF PostedOK
<1>8. p \in Prior /\ last2 \in [Keys -> Prior]
  <2>1. PostedOK'
    BY ToldStep DEF Next, Told
  <2>2. last2 \in [Keys -> Prior]
    BY <1>4, <2>1 DEF PostedOK
  <2> QED
    BY <1>1, <1>7, <2>2
<1>9. AuthorOK(F, all, now, es, last)
  BY <1>2, <1>4 DEF KeptFor
<1>10. /\ Follows(F, all, now, key, last[key], e, p)
       /\ r.status # "known" => p.status = "unknown" /\ e.unavailable
  <2>1. KeyIs(F, facts, clock, key, posted[key])
    BY <1>1, <1>4, <1>9 DEF AuthorOK
  <2>2. /\ Follows(F, facts, clock, key, posted[key], result_posting(key, r), p)
        /\ r.status # "known" => p.status = "unknown" /\ result_posting(key, r).unavailable
    BY <1>1, <1>2, <2>1, PostingFollows
  <2> QED
    BY <1>1, <1>4, <2>2
<1>17. key \in Keys /\ IsPosted(F, all, now, es, n, es2, last, key, last[key], e, p, last2)
  BY <1>1, <1>5, <1>6, <1>7, <1>9, <1>10, Zenon DEF IsPosted
<1>11. AuthorOK(F, all, now, es2, last2)
  BY <1>6, <1>7, <1>8, <1>17, AuthorPosts
<1>12. PapersOK(Everything(es2, {}), {}, mode, last2)
  <2>1. PapersOK(Everything(es, {}), {}, mode, last)
    BY <1>2, <1>4 DEF KeptFor
  <2>2. p.status = "unknown" => e.unavailable
    <3>1. r.status = "known" => p.status = r.status
      BY <1>1 DEF prior
    <3> QED
      BY <1>10, <3>1
  <2> QED
    BY <1>6, <1>7, <1>8, <1>11, <1>17, <2>1, <2>2, PapersPosted
<1>13. ASSUME NEW m \in Modes PROVE Accounts(es2, {}, m, last2)
  <2>1. Accounts(es, {}, m, last)
    BY <1>2, <1>4 DEF KeptFor, Accounted
  <2> QED
    <3> QED
      BY <1>6, <1>7, <1>8, <1>17, <2>1, AccountsOfAuthor
<1>14. Accounted'
  BY <1>2, <1>4, <1>13 DEF Accounted
<1>15. PapersOK(Everything(events, postings), postings, mode, posted)'
  BY <1>2, <1>4, <1>12
<1>16. (pc = "scenario" => AuthorOK(F, facts, clock, events, posted))'
  BY <1>2, <1>4, <1>11
<1> QED
  BY <1>2, <1>14, <1>15, <1>16 DEF KeptFor

LEMMA GiveAgainKeeps ==
  ASSUME NEW F, ScenarioInv, Told, Replayed, KeptFor(F), NEW i \in DOMAIN events,
         NEW altered \in BOOLEAN,
         GiveAgain(i, altered)
  PROVE  KeptFor(F)'
<1>1. /\ pc = "told" /\ UNCHANGED <<pc, mode, clock, facts, posted, postings>> /\ postings = {}
      /\ posted \in [Keys -> Prior]
  BY DEF GiveAgain, Replayed, Phases, Told, PostedOK
<1>2. PICK S : EventsIn(S)
  BY DEF Told, EventsOK
<1>3. PICK x, e : x = events[i] /\ e = Copy(x, altered)
  OBVIOUS
<1>4. EventOK(x) /\ i \in 1..Len(events) /\ x \in Everything(events, postings)
  BY <1>2, <1>3, EventsAt DEF Everything
<1>5. events' = Append(events, e) /\ (altered => x.payment # None)
  BY <1>3 DEF GiveAgain
<1>6. EventOK(e)
  BY <1>3, <1>4, <1>5, CopyIsAnEvent
<1>7. Alike(e, x) /\ \A m : Name(e, m) = Name(x, m)
  <2>1. x.named => x.payment = None
    BY <1>4 DEF KeptFor, PapersOK
  <2> QED
    BY <1>3, <1>4, <1>5, <2>1, CopyIsAlike
<1>8. PICK n, es, es2, last : n = Len(events) /\ es = events /\ es2 = events' /\ last = posted
  OBVIOUS
<1>9. /\ n \in Nat /\ n = Len(es) /\ Len(es2) = n + 1 /\ e = es2[n + 1]
      /\ \A j \in 1..n : es2[j] = es[j]
  BY <1>2, <1>5, <1>6, <1>8, EventsAt, EventIsAppended
<1>10. PapersOK(Everything(es2, {}), {}, mode, last)
  <2>1. Everything(es2, {}) = Everything(es, {}) \cup {e}
    BY <1>9, EverythingGrows
  <2>2. PapersOK(Everything(es, {}), {}, mode, last) /\ x \in Everything(es, {})
    BY <1>1, <1>4, <1>8 DEF KeptFor
  <2>3. \A y : Alike(y, y)
    BY DEF Alike
  <2>4. \A y \in Everything(es2, {}) : \E z \in Everything(es, {}) : Alike(y, z)
    BY <1>7, <2>1, <2>2, <2>3
  <2>5. \A y \in Everything(es, {}) : y.unavailable =>
          \E z \in Everything(es2, {}) : z.unavailable /\ z.key = y.key
    BY <2>1
  <2>6. \A row \in {} : row.logical_key = Name(row, mode)
    OBVIOUS
  <2> QED
    BY <2>2, <2>4, <2>5, <2>6, PapersStay
<1>11. ASSUME NEW m \in Modes PROVE Accounts(es2, {}, m, last)
  <2>1. Accounts(es, {}, m, last) /\ last \in [Keys -> Prior]
    BY <1>1, <1>8 DEF KeptFor, Accounted
  <2>2. \E j \in 1..n : Name(es[j], m) = Name(es2[n + 1], m)
    BY <1>3, <1>4, <1>7, <1>8, <1>9
  <2> QED
    BY <1>9, <2>1, <2>2, AccountsOfCopy
<1>12. Accounted'
  BY <1>1, <1>8, <1>11 DEF Accounted
<1>13. PapersOK(Everything(events, postings), postings, mode, posted)'
  BY <1>1, <1>8, <1>10
<1> QED
  BY <1>1, <1>12, <1>13 DEF KeptFor, Agrees

LEMMA StartKeeps ==
  ASSUME NEW F, Replayed, KeptFor(F), NEW m \in Modes, start(m)
  PROVE  KeptFor(F)'
<1>1. /\ pc = "told" /\ UNCHANGED <<facts, posted, events, postings>> /\ postings = {}
      /\ mode' = m /\ pc' \in {"before", "refused"}
  BY DEF start, Replayed, Phases
<1>2. PapersOK(Everything(events, postings), postings, m, posted)
  BY <1>1 DEF KeptFor, PapersOK
<1>3. Accounts(events, postings, m, posted)
  BY <1>1 DEF KeptFor, Accounted
<1> QED
  BY <1>1, <1>2, <1>3 DEF KeptFor, Accounted, Agrees

LEMMA ApplyKeeps ==
  ASSUME NEW F, Told, Replayed, KeptFor(F), _apply_accounting_events
  PROVE  KeptFor(F)'
<1>1. /\ pc \in {"before", "after"} /\ mode \in Modes /\ events # <<>> /\ post_event
      /\ UNCHANGED <<mode, facts, posted>> /\ posted \in [Keys -> Prior]
  BY DEF _apply_accounting_events, DueBy, KeptFor, Told, PostedOK
<1>2. PICK S : EventsIn(S)
  BY DEF Told, EventsOK
<1>3. PICK n, es, es2, rows, rows2, last :
        /\ n = Len(events) /\ es = events /\ es2 = events' /\ rows = postings /\ rows2 = postings'
        /\ last = posted
  OBVIOUS
<1>4. RowsOK(rows) /\ overlay \in Deltas /\ ~Negative(overlay)
      /\ \A c \in Columns : overlay[c] = Total(rows, c)
  BY <1>1, <1>3 DEF Replayed, JournalOK, Booked
<1>5. n \in Nat /\ n = Len(es) /\ \A i \in 1..n : EventOK(es[i]) /\ es[i].deltas \in Deltas
  BY <1>2, <1>3, EventsAt DEF EventOK
<1>6. /\ PapersOK(Everything(es, rows), rows, mode, last) /\ Accounts(es, rows, mode, last)
      /\ SolventIn(rows)
  BY <1>1, <1>3 DEF KeptFor, Accounted
<1>7. PICK k : k = FirstEvent
  OBVIOUS
<1>8. PICK e, row : e = es[k] /\ row = Row(e)
  OBVIOUS
<1>9. k \in 1..n /\ TakesOut(es, es2, k, rows, rows2, row, mode)
  <2>1. PapersOK(Everything(events, postings), postings, mode, posted)
        /\ MovesInOrder(events, postings, mode)
    BY <1>3, <1>6 DEF Accounts
  <2> QED
    BY <1>1, <1>2, <1>3, <1>7, <1>8, <2>1, FirstIsFirst
<1>10. EventOK(e)
  BY <1>5, <1>8, <1>9
<1>11. /\ RowOK(row) /\ Alike(row, e) /\ row.logical_key = Name(row, mode) /\ row.deltas = e.deltas
       /\ row.logical_key = Name(e, mode) /\ row.key \in Keys
  BY <1>8, <1>10, RowIs, RowFields DEF Alike, RowOK
<1>12. Accounts(es2, rows2, mode, last)
  BY <1>4, <1>5, <1>6, <1>9, <1>11, AccountsShrink
<1>13. PapersOK(Everything(es2, rows2), rows2, mode, last)
  BY <1>5, <1>6, <1>8, <1>9, <1>11, PapersShrink
<1>14. rows2 = rows \/ (rows2 = rows \cup {row} /\ row \notin rows)
  <2>1. rows2 = IF \A r \in rows : r.logical_key # Name(e, mode) THEN rows \cup {row} ELSE rows
    BY <1>8, <1>9, Zenon DEF TakesOut
  <2>2. (\A r \in rows : r.logical_key # Name(e, mode)) => row \notin rows
    BY <1>11, Zenon
  <2> QED
    BY <2>1, <2>2
<1>15. SolventIn(rows2)
  <2>1. CASE rows2 = rows
    BY <1>6, <2>1
  <2>2. CASE rows2 = rows \cup {row} /\ row \notin rows
    <3>1. PICK key, b, full : key = row.key /\ Chain(es2, rows2, key, mode, b, full)
      BY <1>11, <1>12 DEF Accounts
    <3>2. Len(es2) \in Nat
      BY <1>5, <1>9 DEF TakesOut
    <3> QED
      BY <1>4, <1>6, <1>11, <2>2, <3>1, <3>2, SolventStays
  <2> QED
    BY <1>14, <2>1, <2>2
<1>16. pc' = pc
  <2>1. PICK status, after : status = Status(e) /\ after = Plus(overlay, e.deltas)
    OBVIOUS
  <2>2. /\ status # "inserted" \/ e.unavailable => pc' = pc
        /\ ~Negative(after) => pc' = pc
        /\ status = "inserted" => rows2 = rows \cup {row}
    BY <1>1, <1>3, <1>7, <1>8, <2>1, Zenon DEF post_event, apply
  <2>3. ASSUME status = "inserted", NEW c \in Columns, c # "cash" PROVE ~(after[c] < 0)
    <3>1. rows2 = rows \cup {row} /\ row \notin rows
      <4>1. Recorded(e) = {}
        BY <2>1, <2>3 DEF Status
      <4>2. row.logical_key = logical_key(e)
        BY <1>8, <1>10, RowFields
      <4> QED
        BY <1>3, <2>2, <2>3, <4>1, <4>2 DEF Recorded
    <3>2. RowsOK(rows2) /\ RowsOf(rows2, Keys) = rows2
      <4>1. RowsOK(rows2)
        BY <1>4, <1>11, <3>1, RowsOfKeys
      <4> QED
        BY <4>1 DEF RowsOf, RowsOK, RowOK
    <3>3. Total(rows2, c) = Total(rows, c) + row.deltas[c]
      BY <3>1, <3>2, TotalGrows
    <3>4. 0 <= Total(rows2, c)
      <4>1. Keys \in SUBSET Keys
        OBVIOUS
      <4> QED
        BY <1>15, <2>3, <3>2, <4>1 DEF SolventIn
    <3>5. after[c] = overlay[c] + row.deltas[c] /\ after[c] \in Int
      <4>1. PICK o \in Deltas, d \in Deltas : o = overlay /\ d = row.deltas
        BY <1>4, <1>11 DEF RowOK
      <4>2. Plus(o, d)[c] = o[c] + d[c] /\ Plus(o, d) \in Deltas
        BY 0 \in Int, DeltasAdd
      <4> QED
        BY <1>11, <2>1, <4>1, <4>2 DEF Deltas
    <3>6. after[c] = Total(rows2, c)
      BY <1>4, <3>3, <3>5
    <3> QED
      BY <3>4, <3>5, <3>6
  <2>4. DOMAIN after = Columns
    BY <1>4, <2>1 DEF Plus, Deltas
  <2>5. status = "inserted" => ~Negative(after)
    BY <2>3, <2>4 DEF Negative
  <2> QED
    BY <2>2, <2>5
<1>17. Accounted'
  BY <1>1, <1>3, <1>12, <1>16 DEF Accounted
<1>18. PapersOK(Everything(events, postings), postings, mode, posted)'
  BY <1>1, <1>3, <1>13
<1>19. SolventIn(postings')
  BY <1>3, <1>15
<1> QED
  BY <1>1, <1>16, <1>17, <1>18, <1>19 DEF KeptFor, Agrees

LEMMA KeptStep ==
  ASSUME NEW F, Steady(F), facts \subseteq F, ScenarioInv, Told, Replayed, KeptFor(F), [Next]_vars
  PROVE  KeptFor(F)'
<1>1. CASE UNCHANGED vars
  BY <1>1, KeptStays DEF vars
<1>2. ASSUME NEW f \in Facts, Learn(f) PROVE KeptFor(F)'
  BY <1>2, LearnKeeps
<1>3. CASE Post
  BY <1>3, PostKeeps
<1>4. CASE Tick
  BY <1>4, TickKeeps
<1>5. ASSUME NEW i \in DOMAIN events, NEW altered \in BOOLEAN, GiveAgain(i, altered) PROVE KeptFor(F)'
  BY <1>5, GiveAgainKeeps
<1>6. ASSUME NEW m \in Modes, start(m) PROVE KeptFor(F)'
  BY <1>6, StartKeeps
<1>7. CASE _apply_accounting_events
  BY <1>7, ApplyKeeps
<1>8. CASE process_batch \/ next_bar
  <2>1. /\ UNCHANGED <<mode, facts, posted, events, postings>>
        /\ {pc, pc'} \cap {"scenario", "told", "raised"} = {}
    BY <1>8 DEF process_batch, next_bar, Replaying
  <2> QED
    BY <2>1, KeptStays
<1> QED
  BY <1>1, <1>2, <1>3, <1>4, <1>5, <1>6, <1>7, <1>8 DEF Next

(* The cash of a result is what was paid or received of its key.           *)
LEMMA CashIsSettled ==
  ASSUME NEW F, Steady(F), NEW all, all \subseteq F, FactsOK(all, Horizon), NEW key \in Keys,
         NEW r, r = View(all, key, Horizon, Whole), r.status = "known", Cardinality(r.payments) <= 1
  PROVE  r.cash_delta = Sign(key[2]) * r.settled
<1>1. Horizon \in Nat
  BY BarsAssumption
<1>2. r = NothingOwed => r.cash_delta = Sign(key[2]) * r.settled
  BY NothingOwedFields DEF Sign
<1>3. CASE key = BorrowKey \/ Revisions(Known(all), key[1]) # {}
  <2>1. r = NothingOwed \/ IsOf(F, r, all, Horizon, key)
    BY <1>1, <1>3, ResultIs
  <2> QED
    BY <1>2, <2>1 DEF IsOf
<1>4. CASE key # BorrowKey /\ Revisions(Known(all), key[1]) = {}
  BY <1>1, <1>2, <1>4, ViewIsOK
<1> QED
  BY <1>3, <1>4

(* What may become known is not known before, but as long as the facts     *)
(* stay in a Steady set their accounts are kept.                           *)
Kept == \A F : facts \subseteq F /\ Steady(F) => KeptFor(F)

(* Whatever the author learns that is Steady, and whatever is given twice, *)
(* the events that are left and the rows of the journal lead each key to   *)
(* its result.                                                             *)
THEOREM KeptInvariant == Spec => []Kept
<1>1. Init => Kept
  BY KeptInit DEF Kept
<1>2. (ScenarioInv /\ Told /\ Replayed /\ Kept) /\ [Next]_vars => Kept'
  <2> SUFFICES ASSUME ScenarioInv, Told, Replayed, Kept, [Next]_vars, NEW F, facts' \subseteq F,
                      Steady(F)
               PROVE  KeptFor(F)'
    BY DEF Kept
  <2>1. facts \subseteq F
    BY FactsAreLearned
  <2> QED
    BY <2>1, KeptStep DEF Kept
<1> QED
  BY <1>1, <1>2, LedgerInvariant, PTL DEF Spec

-----------------------------------------------------------------------------
(* Cash and payments.                                                      *)

Still(e) == e.payment = None => e.deltas.cash = 0

(* An event without a payment is of a result that settles what the result  *)
(* before it settled.                                                      *)
LEMMA AccrualsAreStill ==
  ASSUME NEW F, Steady(F), NEW all, all \subseteq F, NEW now \in Nat, FactsOK(all, now),
         NEW key \in Keys, NEW r, r = View(all, key, now, Whole), r.status = "known",
         Cardinality(r.payments) <= 1, key = BorrowKey \/ Revisions(Known(all), key[1]) # {},
         NEW q \in Prior, KeyIs(F, all, now, key, q), NEW e, Made(all, now, key, r, q, e)
  PROVE  Still(e)
<1> SUFFICES ASSUME e.payment = None PROVE e.deltas.cash = 0
  BY DEF Still
<1>1. \/ ~Entitles(F, key) /\ r = NothingOwed
      \/ Entitles(F, key) /\ IsOf(F, r, all, now, key) /\ One(all, key, r)
  BY ResultIs
<1>2. /\ key # BorrowKey => r.settled = q.settled
      /\ key = BorrowKey => r.cash_delta = 0
  <2>1. CASE ~Entitles(F, key) /\ r = NothingOwed
    BY <2>1, NothingOwedFields DEF KeyIs
  <2>2. CASE Entitles(F, key) /\ IsOf(F, r, all, now, key) /\ One(all, key, r)
    <3>1. q.settled = 0 \/ IsPaid(all, key, q)
      BY DEF KeyIs
    <3>2. /\ r.payments = {} => r.settled = q.settled
          /\ r.payments # {} => (CHOOSE p \in r.payments : TRUE) # None
      BY <2>2, <3>1, SettledOnce
    <3>3. r.payments = {} \/ (key # BorrowKey /\ r.settled = q.settled)
      BY <3>2 DEF Made
    <3>4. key = BorrowKey => r.settled = 0 /\ r.cash_delta = Sign(key[2]) * r.settled
      BY <2>2, <3>3 DEF One, IsOf
    <3> QED
      BY <3>2, <3>3, <3>4 DEF Sign
  <2> QED
    BY <1>1, <2>1, <2>2
<1>3. PICK x : x = IF key = BorrowKey THEN r.cash_delta ELSE Sign(key[2]) * (r.settled - q.settled)
  OBVIOUS
<1>4. x = 0
  <2>1. q.settled \in Int
    BY DEF Prior
  <2> QED
    BY <1>2, <1>3, <2>1 DEF Sign
<1>5. e.deltas = [Minus(r.balances, q.balances) EXCEPT !.cash = x]
  BY <1>3 DEF Made
<1>6. r.balances \in Balances /\ q.balances \in Balances
  BY ViewIsOK DEF ResultOK, Prior
<1>7. PICK d : d = Minus(r.balances, q.balances)
  OBVIOUS
<1>8. d \in Deltas
  <2>1. r.balances \in Deltas /\ q.balances \in Deltas
    BY <1>6, BalancesAreDeltas
  <2> QED
    BY <1>7, <2>1, 0 \in Int, DeltasAdd
<1>9. "cash" \in DOMAIN d
  BY <1>8 DEF Deltas, Columns
<1>10. e.deltas = [d EXCEPT !.cash = x]
  BY <1>5, <1>7
<1> QED
  BY <1>4, <1>9, <1>10

LEMMA PostIsStill ==
  ASSUME Steady(facts), ScenarioInv, Told, Replayed, KeptFor(facts), Post
  PROVE  \E e : Still(e) /\ EventOK(e) /\ events' = Append(events, e)
<1>1. PICK key, r, e : /\ key \in Keys /\ Changed(key) /\ r = Now(key) /\ e = result_posting(key, r)
                       /\ events' = Append(events, e)
  <2>1. PICK key : key = CHOOSE k \in Due : TRUE
    OBVIOUS
  <2>2. key \in Keys /\ Changed(key)
    BY <2>1 DEF Post, Due
  <2>3. events' = Append(events, result_posting(key, Now(key)))
    BY <2>1, Zenon DEF Post
  <2> QED
    BY <2>2, <2>3
<1>2. /\ pc = "scenario" /\ clock \in Nat /\ FactsOK(facts, clock) /\ PostedOK
  BY BarsAssumption DEF Post, ScenarioInv, Told
<1>3. PICK all, now, q : all = facts /\ now = clock /\ q = posted[key]
  OBVIOUS
<1>4. q \in Prior /\ KeyIs(all, all, now, key, q) /\ r = View(all, key, now, Whole)
  BY <1>1, <1>2, <1>3 DEF PostedOK, KeptFor, AuthorOK, Now
<1>5. EventOK(e)
  BY <1>1, <1>2, PostingIsAnEvent
<1>6. CASE r.status = "known"
  <2>1. Made(all, now, key, r, q, e)
    BY <1>1, <1>3, <1>6, PostingIsMade
  <2>2. prior(r) # q /\ Cardinality(r.payments) <= 1
    BY <1>1, <1>3, <1>6 DEF Changed, Postable
  <2>3. key = BorrowKey \/ Revisions(Known(all), key[1]) # {}
    <3>1. key # BorrowKey /\ Revisions(Known(all), key[1]) = {} =>
            r = NothingOwed /\ q = prior(NothingOwed)
      BY <1>1, <1>2, <1>3, <1>4, ViewIsOK DEF PostedOK
    <3> QED
      BY <2>2, <3>1
  <2>4. Still(e)
    BY <1>1, <1>2, <1>3, <1>4, <1>6, <2>1, <2>2, <2>3, AccrualsAreStill
  <2> QED
    BY <1>1, <1>5, <2>4
<1>7. CASE r.status # "known"
  <2>1. r.status = "unknown"
    BY <1>1, <1>7 DEF Changed, Postable
  <2>2. PICK k, rev : k = <<IF key = BorrowKey THEN "borrow" ELSE "distribution", "unavailable">>
                      /\ rev = revision_key(key)
    BY Zenon
  <2>3. e = [key |-> key, revision |-> rev, knowledge_at |-> clock, kind |-> k, payment |-> None,
             named |-> TRUE, occurred_at |-> clock, unavailable |-> TRUE, deltas |-> NoBalances]
    BY <1>1, <2>1, <2>2 DEF result_posting
  <2>4. e.deltas.cash = 0
    BY <2>3 DEF NoBalances
  <2> QED
    BY <1>1, <1>5, <2>4 DEF Still
<1> QED
  BY <1>6, <1>7

Stills == Steady(facts) => \A i \in 1..Len(events) : Still(events[i])

LEMMA StillsStep ==
  ScenarioInv /\ Told /\ Replayed /\ Kept /\ Stills /\ [Next]_vars => Stills'
<1> SUFFICES ASSUME ScenarioInv, Told, Replayed, Kept, Stills, [Next]_vars, Steady(facts')
             PROVE  \A i \in 1..Len(events') : Still(events'[i])
  BY DEF Stills
<1>1. Steady(facts)
  <2>1. facts \subseteq facts'
    BY FactsAreLearned
  <2>2. Known(facts) \subseteq Known(facts') /\ Paid(facts) \subseteq Paid(facts')
    BY <2>1 DEF Known, Paid
  <2> QED
    BY <2>2 DEF Steady
<1>2. KeptFor(facts) /\ \A i \in 1..Len(events) : Still(events[i])
  BY <1>1 DEF Kept, Stills
<1>3. PICK S : EventsIn(S)
  BY DEF Told, EventsOK
<1>4. Len(events) \in Nat /\ DOMAIN events = 1..Len(events)
  BY <1>3, EventsAt
<1>5. ASSUME NEW e, Still(e), EventOK(e), events' = Append(events, e)
      PROVE  \A i \in 1..Len(events') : Still(events'[i])
  <2>1. /\ Len(events') = Len(events) + 1 /\ events'[Len(events) + 1] = e
        /\ \A i \in 1..Len(events) : events'[i] = events[i]
    BY <1>3, <1>5, EventIsAppended
  <2>2. ASSUME NEW i \in 1..Len(events') PROVE Still(events'[i])
    <3>1. i \in 1..Len(events) \/ i = Len(events) + 1
      BY <1>4, <2>1
    <3> QED
      BY <1>2, <1>5, <2>1, <3>1
  <2> QED
    BY <2>2
<1>6. CASE Post
  BY <1>1, <1>2, <1>5, <1>6, PostIsStill
<1>7. ASSUME NEW i \in DOMAIN events, NEW altered \in BOOLEAN, GiveAgain(i, altered)
      PROVE  \A j \in 1..Len(events') : Still(events'[j])
  <2>1. PICK x, e : x = events[i] /\ e = Copy(x, altered)
    OBVIOUS
  <2>2. EventOK(x) /\ Still(x) /\ events' = Append(events, e) /\ (altered => x.payment # None)
    BY <1>2, <1>3, <1>4, <1>7, <2>1, EventsAt DEF GiveAgain
  <2>3. EventOK(e)
    BY <2>1, <2>2, CopyIsAnEvent
  <2>4. Still(e)
    <3>1. x.payment = None => e = x
      BY <2>1, <2>2 DEF Copy
    <3>2. x.payment # None => e.payment # None
      <4>1. x.named => x.payment = None
        <5>1. x \in Everything(events, postings)
          BY <1>4, <2>1 DEF Everything
        <5> QED
          BY <1>2, <5>1 DEF KeptFor, PapersOK
      <4>2. Alike(e, x)
        BY <2>1, <2>2, <4>1, CopyIsAlike
      <4> QED
        BY <4>2 DEF Alike
    <3> QED
      BY <2>2, <3>1, <3>2 DEF Still
  <2> QED
    BY <1>5, <2>2, <2>3, <2>4
<1>8. CASE _apply_accounting_events
  <2>1. events # <<>> /\ post_event
    BY <1>8 DEF _apply_accounting_events, DueBy
  <2>2. PICK k : k = FirstEvent /\ k \in 1..Len(events)
    BY <1>3, <1>4, <2>1, FirstEventIsThere
  <2>3. events' = Without(k)
    BY <2>1, <2>2, Zenon DEF post_event
  <2>4. /\ Len(events') = Len(events) - 1
        /\ \A i \in 1..(k - 1) : events'[i] = events[i]
        /\ \A i \in k..(Len(events) - 1) : events'[i] = events[i + 1]
    BY <1>3, <2>2, <2>3, EventIsTaken
  <2>5. ASSUME NEW i \in 1..Len(events') PROVE Still(events'[i])
    <3>1. \E j \in 1..Len(events) : events'[i] = events[j]
      <4>1. CASE i < k
        BY <1>4, <2>2, <2>4, <4>1
      <4>2. CASE i >= k
        <5>1. i \in k..(Len(events) - 1) /\ i + 1 \in 1..Len(events)
          BY <1>4, <2>2, <2>4, <4>2
        <5> QED
          BY <2>4, <5>1
      <4> QED
        BY <2>2, <4>1, <4>2
    <3> QED
      BY <1>2, <3>1
  <2> QED
    BY <2>5
<1>9. CASE UNCHANGED events
  BY <1>2, <1>9
<1>10. ASSUME NEW f \in Facts, Learn(f) PROVE UNCHANGED events
  BY <1>10 DEF Learn
<1>11. ASSUME NEW m \in Modes, start(m) PROVE UNCHANGED events
  BY <1>11 DEF start
<1>12. Tick \/ process_batch \/ next_bar \/ UNCHANGED vars => UNCHANGED events
  BY DEF Tick, process_batch, next_bar, Replaying, vars
<1> QED
  BY <1>6, <1>7, <1>8, <1>9, <1>10, <1>11, <1>12 DEF Next

(* While what became known is Steady, whatever is revised or cancelled     *)
(* after a payment, an event without a payment moves no cash.              *)
THEOREM CorrectionsMoveNoCashHolds == Spec => [](Steady(facts) => CorrectionsMoveNoCash)
<1>1. Init => Stills
  BY EmptySeq DEF Init, Stills
<1>2. ScenarioInv /\ Told /\ Replayed /\ Kept /\ Stills /\ [Next]_vars => Stills'
  BY StillsStep
<1>3. Told /\ Stills => (Steady(facts) => CorrectionsMoveNoCash)
  <2> SUFFICES ASSUME Told, Stills, Steady(facts) PROVE CorrectionsMoveNoCash
    OBVIOUS
  <2>1. DOMAIN events = 1..Len(events)
    BY EventsAt DEF Told, EventsOK
  <2> QED
    BY <2>1 DEF CorrectionsMoveNoCash, Stills, Still
<1> QED
  BY <1>1, <1>2, <1>3, KeptInvariant, LedgerInvariant, PTL DEF Spec

(* When what became known is Steady and the replay has posted all events,  *)
(* the journal has the entitlement of each key once, as the calculation    *)
(* says it of everything that became known, or a posting that freezes the  *)
(* capital; none of the postings was refused, and a correction moved no    *)
(* cash.                                                                   *)
THEOREM LedgerIsBookHolds == Spec => []LedgerIsBook
<1>1. ScenarioInv /\ Told /\ Replayed /\ Kept /\ (Steady(facts) => CorrectionsMoveNoCash) => LedgerIsBook
  <2> SUFFICES ASSUME ScenarioInv, Told, Replayed, Kept, Steady(facts), CorrectionsMoveNoCash
               PROVE  LedgerIsBook
    BY DEF LedgerIsBook
  <2>0. PICK F : F = facts /\ Steady(F) /\ KeptFor(F)
    BY DEF Kept
  <2>1. pc # "raised"
    BY <2>0 DEF KeptFor
  <2>2. ASSUME pc = "done", events = <<>>, NEW key \in Keys, NEW r,
               r = View(facts, key, Horizon, Whole), Postable(r)
        PROVE  IF r.status = "known"
               THEN \A c \in Columns : Total(RowsOf(postings, {key}), c)
                                         = [r.balances EXCEPT !.cash = r.cash_delta][c]
               ELSE \E row \in RowsOf(postings, {key}) : row.unavailable
    <3>1. IF r.status = "known" THEN prior(r) = posted[key] ELSE posted[key].status = "unknown"
      BY <2>0, <2>2, Zenon DEF KeptFor, Agrees
    <3>2. CASE r.status = "known"
      <4>1. Accounts(events, postings, mode, posted) /\ Len(events) = 0
        BY <2>0, <2>2 DEF KeptFor, Accounted
      <4>2. PICK b, full : /\ full = FullOf(posted[key], key)
                           /\ Chain(events, postings, key, mode, b, full)
        BY <4>1 DEF Accounts
      <4>3. \A c \in Columns : full[c] = Total(RowsOf(postings, {key}), c)
        BY <4>1, <4>2 DEF Chain
      <4>4. r.cash_delta = Sign(key[2]) * r.settled
        <5>1. PICK all : all = facts /\ FactsOK(all, Horizon)
          BY DEF ScenarioInv
        <5>2. Cardinality(r.payments) <= 1
          BY <2>2, <3>2 DEF Postable
        <5> QED
          BY <2>2, <3>2, <5>1, <5>2, CashIsSettled
      <4>5. posted[key].balances = r.balances /\ posted[key].settled = r.settled
        BY <3>1, <3>2 DEF prior
      <4>6. full = [r.balances EXCEPT !.cash = r.cash_delta]
        BY <4>2, <4>4, <4>5 DEF FullOf
      <4> QED
        BY <3>2, <4>3, <4>6
    <3>3. CASE r.status # "known"
      <4>1. PICK x \in Everything(events, postings) : x.unavailable /\ x.key = key
        BY <2>0, <2>2, <3>1, <3>3 DEF KeptFor, PapersOK
      <4>2. x \in postings
        BY <2>2 DEF Everything
      <4>3. x \in RowsOf(postings, {key})
        BY <4>1, <4>2 DEF RowsOf
      <4> QED
        BY <3>3, <4>1, <4>3
    <3> QED
      BY <3>2, <3>3
  <2>3. \A key : RowsOf(postings, {key}) = {row \in postings : row.key = key}
    BY DEF RowsOf
  <2>4. ASSUME pc = "done", events = <<>>, NEW key \in Keys, NEW r,
               r = View(facts, key, Horizon, Whole), Postable(r)
        PROVE  IF r.status = "known"
               THEN \A c \in DOMAIN NoBalances : Total({row \in postings : row.key = key}, c)
                                                   = [r.balances EXCEPT !.cash = r.cash_delta][c]
               ELSE \E row \in {x \in postings : x.key = key} : row.unavailable
    <3>1. DOMAIN NoBalances = Columns
      BY BalancesAreDeltas
    <3>2. PICK rows : rows = RowsOf(postings, {key}) /\ rows = {row \in postings : row.key = key}
      BY <2>3
    <3>3. IF r.status = "known"
          THEN \A c \in Columns : Total(rows, c) = [r.balances EXCEPT !.cash = r.cash_delta][c]
          ELSE \E row \in rows : row.unavailable
      BY <2>2, <2>4, <3>2
    <3> QED
      BY <3>1, <3>2, <3>3
  <2> QED
    BY <2>1, <2>4, Zenon DEF LedgerIsBook
<1> QED
  BY <1>1, KeptInvariant, LedgerInvariant, CorrectionsMoveNoCashHolds, PTL
=============================================================================
