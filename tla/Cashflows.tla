------------------------------ MODULE Cashflows ------------------------------
(***************************************************************************)
(* The cash-flow calculations of src/trades/cashflows.py, as operators.    *)
(*                                                                         *)
(* Amounts are integers in a unit finer than the cent, CENT units to one   *)
(* cent; None stands for an amount or a time that is missing.  There is    *)
(* one symbol.  Whether a currency is given and matches is a BOOLEAN, and  *)
(* the rate, base and day count of a borrow interval are its exact fee     *)
(* per day.  A calculation that the code answers with an exception is      *)
(* "raised".                                                               *)
(***************************************************************************)
EXTENDS Integers, FiniteSets, Functions

CONSTANT CENT
ASSUME CentAssumption == CENT \in Nat \ {0}

None == -1
Both == "both"          \* the side of a settlement that names none
SIDES == {"LONG", "SHORT"}
Larger(a, b) == IF a >= b THEN a ELSE b
positive(a) == Larger(a, 0)

-----------------------------------------------------------------------------
(* Cents. *)

(* Half up, symmetric in the sign. *)
round_cents(a) ==
  LET magnitude == IF a >= 0 THEN a ELSE -a
      rounded == ((2 * magnitude + CENT) \div (2 * CENT)) * CENT
  IN  IF a >= 0 THEN rounded ELSE -rounded

(* allocate_cents: floors first, then the cents that are left to the lots  *)
(* with the largest remainders, the smaller lot id first.                  *)
Held(exact) == {lot \in DOMAIN exact : exact[lot] > 0}
Floor(a) == a - (a % CENT)
CentsLeft(exact, target) ==
  (target - SumFunction([lot \in Held(exact) |-> Floor(exact[lot])])) \div CENT
Before(exact, k, lot) ==
  \/ exact[k] % CENT > exact[lot] % CENT
  \/ exact[k] % CENT = exact[lot] % CENT /\ k < lot
Reconciles(exact, target) ==
  Held(exact) # {} => CentsLeft(exact, target) \in 0..Cardinality(Held(exact))
allocate_cents(exact, target) ==
  [lot \in Held(exact) |->
     Floor(exact[lot]) +
       IF Cardinality({k \in Held(exact) : Before(exact, k, lot)}) < CentsLeft(exact, target)
       THEN CENT ELSE 0]

-----------------------------------------------------------------------------
(* What is known, and which revision of an action counts. *)

Eventually == None      \* no decision time: the eventual view
_known_byMutant(x, decision) == TRUE        \* Mutant: late knowledge is used.
_known_by(x, decision) ==
  decision = Eventually \/ (x.knowledge_at # None /\ x.knowledge_at <= decision)

(* Two different payloads under one payment id. *)
Conflicting(payments) ==
  \E p, q \in payments : p # q /\ p.payment_id = q.payment_id
Signed(payment) == IF payment.kind = "payment" THEN payment.amount ELSE -payment.amount
Net(payments) == SumFunction([p \in payments |-> Signed(p)])

(* A chain of supersession from one root to one tip, without a branch.     *)
Supersedes(r, prior) == r.supersedes = prior.revision_id
Chains(revisions) ==
  {f \in [1..Cardinality(revisions) -> revisions] :
     /\ f[1].supersedes = None
     /\ \A r \in revisions \ {f[1]} : r.supersedes # None
     /\ \A i \in 1..(Cardinality(revisions) - 1) :
          {r \in revisions : Supersedes(r, f[i])} = {f[i + 1]}
     /\ \A i, j \in DOMAIN f : i # j => f[i] # f[j]}
Revisions(actions, id) == {a \in actions : a.action_id = id}
Accepted(actions, id) ==
  LET all == Revisions(actions, id)
      clash == \E r, s \in all : r # s /\ r.revision_id = s.revision_id
  IN  CASE clash -> {}
        [] ~clash /\ Cardinality(all) <= 1 -> all
        [] OTHER -> {f[Cardinality(all)] : f \in Chains(all)}

(* Entry at the cutoff is too late, exit at the cutoff keeps the claim. *)
_qualified(h, action) ==
  /\ h.quantity > 0 /\ h.entry_at < action.ex_at
  /\ h.exit_at = None \/ h.exit_at >= action.ex_at

-----------------------------------------------------------------------------
(* One action and one side. *)

(* A window takes the flows of (start, end] and the balances it opens with *)
(* for this action and side; without a window everything is taken.         *)
Opening == [receivable |-> 0, payable |-> 0, refund |-> 0, repayment |-> 0,
            target |-> None, settled |-> 0]
Forever == 1000000
Whole == [start |-> None, end |-> Forever, opening |-> Opening]
containsMutant(w, t) == w.start <= t /\ t <= w.end   \* Mutant: the boundary belongs to both.
contains(w, t) == w.start < t /\ t <= w.end
Inherited(w) ==
  w.opening.receivable + w.opening.payable + w.opening.refund + w.opening.repayment # 0

NoBalances == [cash |-> 0, receivable |-> 0, payable |-> 0, borrow |-> 0, refund |-> 0,
               repayment |-> 0]
Result(status, quantity, target, settled, cash, income, balances, lots, payments) ==
  [status |-> status, quantity |-> quantity, target |-> target, settled |-> settled,
   cash_delta |-> cash, economic_income |-> income, balances |-> balances,
   lot_allocations |-> lots, payments |-> payments]
Unknown(status) == Result(status, 0, 0, 0, 0, 0, NoBalances, <<>>, {})
NothingOwed == Result("known", 0, 0, 0, 0, 0, NoBalances, <<>>, {})

(* What is owed, on the accounts of the side: long receivables and what is *)
(* to be paid back, short payables and what is to be refunded.             *)
Owed(side, net) ==
  IF side = "LONG"
  THEN [NoBalances EXCEPT !.receivable = positive(net), !.repayment = positive(-net)]
  ELSE [NoBalances EXCEPT !.payable = positive(net), !.refund = positive(-net)]
OpeningNet(side, w) ==
  IF side = "LONG" THEN w.opening.receivable - w.opening.repayment
                   ELSE w.opening.payable - w.opening.refund
Sign(side) == IF side = "LONG" THEN 1 ELSE -1

(* The rate of the action is needed unless the window opens later, carries *)
(* the balance already, or the action was cancelled.                       *)
Carried(action, w) == ~contains(w, action.ex_at) /\ Inherited(w)
Future(action, w) == action.ex_at > w.end
Rated(action, w) == ~Future(action, w) /\ ~action.cancelled /\ ~Carried(action, w)

Entitled(holdings, action, side) ==
  {h \in holdings : h.side = side /\ _qualified(h, action)}
ExactByLot(lots, action) ==
  [id \in {h.lot_id : h \in lots} |->
     (CHOOSE h \in lots : h.lot_id = id).quantity * action.per_share]
Matched(settlements, action, side) ==
  {s \in settlements : s.action_id = action.action_id /\ s.side \in {side, Both}}
Ambiguous(holdings, action, side, matched) ==
  \E s \in matched : s.side = Both
    /\ \E h \in holdings : h.side # side /\ _qualified(h, action)
Unusable(payments) ==
  Conflicting(payments) \/ \E p \in payments : p.amount = None \/ ~p.currency

_distribution_for_side(holdings, action, side, settlements, w) ==
  LET lots == Entitled(holdings, action, side)
      exact == IF action.per_share = None THEN <<>> ELSE ExactByLot(lots, action)
      target == IF Rated(action, w) THEN round_cents(SumFunction(exact)) ELSE 0
      matched == Matched(settlements, action, side)
      payments == {s \in matched : contains(w, s.occurred_at)}
      revised == w.opening.target # None /\ ~contains(w, action.ex_at)
      delta == target - IF revised THEN w.opening.target ELSE 0
      net == Net(payments)
  IN CASE lots = {} /\ ~Inherited(w) /\ ~Future(action, w) -> NothingOwed
       [] OTHER ->
         IF \/ Rated(action, w) /\ (action.per_share = None \/ ~action.currency)
            \/ Ambiguous(holdings, action, side, matched)
            \/ Unusable(payments) \/ (~action.currency /\ payments # {})
         THEN Unknown("unknown")
         ELSE IF ~Reconciles(exact, target) THEN Unknown("raised")
         ELSE Result("known",
                SumFunction([h \in lots |-> h.quantity]), target,
                w.opening.settled + net, Sign(side) * net,
                IF contains(w, action.ex_at) THEN Sign(side) * target ELSE 0,
                Owed(side, OpeningNet(side, w) + delta - net),
                allocate_cents(exact, target), {p.payment_id : p \in payments})

(* calculate_distributions, for one action and side: from what is known at *)
(* the decision.  Revisions that do not form a chain are a conflict.       *)
calculate_distributions(holdings, actions, settlements, id, side, decision, w) ==
  LET known == {a \in actions : _known_by(a, decision)}
      accepted == Accepted(known, id)
      paid == {s \in settlements : _known_by(s, decision)}
  IN  IF Revisions(known, id) = {} THEN NothingOwed
      ELSE IF accepted = {} THEN Unknown("unknown")
      ELSE _distribution_for_side(holdings, CHOOSE a \in accepted : TRUE, side, paid, w)

-----------------------------------------------------------------------------
(* Borrow fees: cents are posted as the rounded running total advances.    *)

cumulative_postings(daily, days, previous_exact, previous_target) ==
  [day \in 1..days |->
     round_cents(previous_exact + day * daily)
       - IF day = 1 THEN round_cents(previous_target)
         ELSE round_cents(previous_exact + (day - 1) * daily)]

(* w = Whole stands for no window: prior_settled counts only then. *)
calculate_borrow(interval, settlements, w, decision, previous_exact, previous_target, prior_settled) ==
  LET relevant == {s \in settlements : s.action_id = interval.interval_id}
      payments == {s \in relevant : _known_by(s, decision) /\ contains(w, s.occurred_at)}
      target == round_cents(previous_exact + interval.days * interval.daily)
      delta == target - round_cents(previous_target)
      net == Net(payments)
      owed == IF w = Whole THEN target - (prior_settled + net)
              ELSE w.opening.payable - w.opening.refund + delta - net
  IN  IF interval.days = 0 \/ interval.quantity = 0 THEN NothingOwed
      ELSE IF \/ ~_known_by(interval, decision) \/ interval.daily = None \/ ~interval.currency
              \/ Unusable(payments)
      THEN Unknown("unknown")
      ELSE Result("known", interval.quantity, target, prior_settled + net, -net, -delta,
             [NoBalances EXCEPT !.borrow = positive(owed), !.refund = positive(-owed)],
             cumulative_postings(interval.daily, interval.days, previous_exact, previous_target),
             {p.payment_id : p \in payments})
=============================================================================
