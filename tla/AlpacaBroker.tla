---------------------------- MODULE AlpacaBroker ----------------------------
(***************************************************************************)
(* The durable paper orders of src/trades/alpaca_broker.py: one worker     *)
(* thread that journals an intent, sends it, and afterwards learns what    *)
(* became of it only by asking; and the broker it asks (external), which   *)
(* fills, cancels and rejects at any moment in between.                    *)
(*                                                                         *)
(* An entry is a bracket: a market parent with a take-profit and a stop    *)
(* leg.  An order is a pair <<entry, kind>>; the kinds of the market exits *)
(* that may follow are ExitKinds.  Every order row and every trade row is  *)
(* durable; what the process holds in memory (pc, cur, todo, task, toclose,*)
(* snapshot, blocked, safe_to_flatten) is lost by a crash.                 *)
(*                                                                         *)
(* A step is one journal transaction or one call to the broker with the    *)
(* transaction that follows it.  Prices, profit and the direction are left *)
(* out: entries are LONG, so a holding below 0 is a position that flipped. *)
(*                                                                         *)
(* MaxErrors bounds the calls that fail or lose their answer, MaxCrashes   *)
(* the crashes, and the set ExitKinds the market exits per entry.          *)
(***************************************************************************)
EXTENDS Integers, FiniteSets

CONSTANTS Tickers, Entries,
          TickerOf,    \* the ticker of each entry
          ExitKinds,
          Qty,         \* shares of an entry
          InPieces,    \* whether an entry may be filled share by share
          SessionEnds, \* whether the time to flatten comes (and goes) at all
          MaxErrors, MaxCrashes

Legs == {"target", "stop"}
Kinds == {"entry"} \cup Legs \cup ExitKinds

ASSUME QtyAssumption == Qty \in Nat \ {0}
ASSUME TickerAssumption == TickerOf \in [Entries -> Tickers]
ASSUME SwitchAssumption == InPieces \in BOOLEAN /\ SessionEnds \in BOOLEAN
ASSUME BoundsAssumption == MaxErrors \in Nat /\ MaxCrashes \in Nat
ASSUME KindsAssumption ==
  ExitKinds \cap ({"entry", "none"} \cup Legs) = {} /\ IsFiniteSet(ExitKinds)  \* "none" is in NoOrder

VARIABLES
  \* the journal: table orders
  ostate,      \* column state, "absent" before the INSERT
  applied,     \* column applied_qty
  known,       \* column broker_id IS NOT NULL
  linked,      \* column trade_id IS NOT NULL
  requested,   \* column requested_qty
  broker_qty,  \* payload broker_qty of a leg, NoQty before it is observed
  flatten,     \* payload pending_exit of an entry
  \* the journal: table trades
  trade, remaining,
  pending,     \* column state_json: pending_exit of the position
  \* the memory of the worker
  pc, cur, todo, task, toclose, snapshot, blocked, safe_to_flatten,
  \* the broker
  bstate, filled, bqty, canceling,
  holding,     \* its position per ticker
  \* the rest of the environment
  flatten_due, errors, crashes

orders == <<ostate, applied, known, linked, requested, broker_qty, flatten>>
trades == <<trade, remaining, pending>>
journal == <<orders, trades>>
memory == <<pc, cur, todo, task, toclose, snapshot, blocked, safe_to_flatten>>
broker == <<bstate, filled, bqty, canceling, holding>>
environment == <<flatten_due, errors, crashes>>
vars == <<journal, memory, broker, environment>>

Orders == Entries \X Kinds
Entry(o) == <<o[1], "entry">>
Leg(o, k) == <<o[1], k>>
IsEntry(o) == o[2] = "entry"
IsLeg(o) == o[2] \in Legs
Ticker(o) == TickerOf[o[1]]

NoQty == -1
NoOrder == <<"none", "none">>
Terminal == {"filled", "canceled", "rejected"}    \* expired is canceled here
Working == {"held", "new", "partially_filled"}
OrderStates == {"absent", "pending_submission", "unresolved"} \cup Working \cup Terminal

TypeOK ==
  /\ ostate \in [Orders -> OrderStates]
  /\ applied \in [Orders -> 0..Qty]
  /\ known \in [Orders -> BOOLEAN]
  /\ linked \in [Orders -> BOOLEAN]
  /\ requested \in [Orders -> 0..Qty]
  /\ broker_qty \in [Orders -> 0..Qty \cup {NoQty}]
  /\ flatten \in [Entries -> BOOLEAN]
  /\ trade \in [Entries -> {"none", "open", "closed"}]
  /\ remaining \in [Entries -> 0..Qty]
  /\ pending \in [Entries -> BOOLEAN]
  /\ pc \in {"idle", "send", "request", "link", "leg_target", "leg_stop",
             "reconcile", "sync", "cancel", "observe", "next", "close", "cancel_legs"}
  /\ cur \in Orders \cup {NoOrder}
  /\ todo \subseteq Orders
  /\ task \in {"none", "entry", "exit", "start", "tick", "close"}
  /\ toclose \subseteq Entries
  /\ snapshot \in [Legs -> [state : OrderStates, filled : 0..Qty, qty : 0..Qty]]
  /\ blocked \in BOOLEAN /\ safe_to_flatten \in BOOLEAN
  /\ bstate \in [Orders -> {"none"} \cup Working \cup Terminal]
  /\ filled \in [Orders -> 0..Qty]
  /\ bqty \in [Orders -> 0..Qty]
  /\ canceling \in [Orders -> BOOLEAN]
  /\ holding \in [Tickers -> Int]
  /\ flatten_due \in BOOLEAN
  /\ errors \in 0..MaxErrors /\ crashes \in 0..MaxCrashes

NoSnapshot == [k \in Legs |-> [state |-> "absent", filled |-> 0, qty |-> 0]]

Init ==
  /\ ostate = [o \in Orders |-> "absent"]
  /\ applied = [o \in Orders |-> 0]
  /\ known = [o \in Orders |-> FALSE]
  /\ linked = [o \in Orders |-> FALSE]
  /\ requested = [o \in Orders |-> 0]
  /\ broker_qty = [o \in Orders |-> NoQty]
  /\ flatten = [e \in Entries |-> FALSE]
  /\ trade = [e \in Entries |-> "none"]
  /\ remaining = [e \in Entries |-> 0]
  /\ pending = [e \in Entries |-> FALSE]
  /\ pc = "reconcile" /\ cur = NoOrder /\ todo = {} /\ task = "start" /\ toclose = {}
  /\ snapshot = NoSnapshot
  /\ blocked = FALSE /\ safe_to_flatten = FALSE
  /\ bstate = [o \in Orders |-> "none"]
  /\ filled = [o \in Orders |-> 0]
  /\ bqty = [o \in Orders |-> 0]
  /\ canceling = [o \in Orders |-> FALSE]
  /\ holding = [t \in Tickers |-> 0]
  /\ flatten_due = FALSE /\ errors = 0 /\ crashes = 0

-----------------------------------------------------------------------------
(* What the code reads from the journal. *)

Open(o) == ostate[o] \notin Terminal \cup {"absent"}
OpenOrders(t) == {o \in Orders : Ticker(o) = t /\ Open(o)}
OpenTrades(t) == {e \in Entries : TickerOf[e] = t /\ trade[e] = "open"}
(* Mutant: only positions count, not the orders under way. *)
has_openMutant(t) == OpenTrades(t) # {}

has_open(t) == OpenTrades(t) # {} \/ OpenOrders(t) # {}

KnownLegs(e) == {k \in Legs : ostate[<<e, k>>] # "absent"}
Rank(o) == CASE IsEntry(o) -> 1 [] o[2] = "target" -> 2 [] o[2] = "stop" -> 3 [] OTHER -> 4
(* Rows come in the order of their creation. *)
First(S) == {o \in S : \A p \in S : p[1] = o[1] => Rank(o) <= Rank(p)}

(* Mutant: legs are seen only through their parent. *)
needs_broker_syncMutant(o) ==
  \/ Open(o) /\ ~IsLeg(o)
  \/ IsEntry(o) /\ ostate[o] \in Terminal /\ applied[o] > 0 /\ Cardinality(KnownLegs(o[1])) # 2

needs_broker_sync(o) ==
  \/ Open(o)
  \/ IsEntry(o) /\ ostate[o] \in Terminal /\ applied[o] > 0 /\ Cardinality(KnownLegs(o[1])) # 2

(* _cancel_flatten_entries: a marked entry and its legs. *)
FlattenCancels == {o \in Orders : (IsEntry(o) \/ IsLeg(o)) /\ flatten[o[1]] /\ Open(o)}

Position(t) == IF OpenTrades(t) = {} THEN 0
               ELSE remaining[CHOOSE e \in OpenTrades(t) : TRUE]
exposure_mismatch == \E t \in Tickers : holding[t] # Position(t)
unsettled_orders == \E o \in Orders : Open(o) /\ ~(IsLeg(o) /\ ostate[o] \in Working)

(* The protection of a position: two open legs that carry its trade id,    *)
(* each for the shares that remain, under a filled parent.                 *)
Protecting(e) == {o \in {e} \X Legs : linked[o] /\ Open(o)}
incomplete_protection ==
  \E e \in Entries :
    /\ trade[e] = "open"
    /\ \/ Cardinality(Protecting(e)) # 2
       \/ ostate[<<e, "entry">>] # "filled"
       \/ \E o \in Protecting(e) : broker_qty[o] - applied[o] # remaining[e]

-----------------------------------------------------------------------------
(* Applying what the broker reports of an order. *)

Back == /\ cur' = NoOrder
        /\ snapshot' = NoSnapshot
        /\ IF task = "entry" THEN pc' = "idle" /\ task' = "none" /\ UNCHANGED toclose
           ELSE IF task = "exit"
             THEN /\ pc' = "next" /\ task' = "tick"
                  /\ toclose' = toclose \ {cur[1]}
             ELSE pc' = "sync" /\ UNCHANGED <<task, toclose>>

MarkUnresolved(o) ==
  /\ ostate' = [ostate EXCEPT ![o] = "unresolved"]
  /\ blocked' = TRUE
  /\ UNCHANGED <<applied, known, linked, requested, broker_qty, flatten, trades>>

(* The broker reports cumulative quantities: what is new in one of them.   *)
(* Mutant: a part of an order is taken for the whole.                      *)
DeltaMutant(o, q) == requested[o] - applied[o]
Delta(o, q) == q - applied[o]

(* An exit fill needs the trade of its row and shares left in it: without  *)
(* a trade id the lookup of the row fails, beyond the shares it raises.    *)
Fits(o, q) == \/ IsEntry(o) \/ q = applied[o]
              \/ linked[o] /\ Delta(o, q) <= remaining[o[1]]

(* One transaction for the order row and the trade row. *)
ApplyOrderState(o, s, q, size) ==
  LET e == o[1] IN
  /\ Fits(o, q)
  /\ ostate' = [ostate EXCEPT ![o] = s]
  /\ applied' = [applied EXCEPT ![o] = q]
  /\ known' = [known EXCEPT ![o] = TRUE]
  /\ broker_qty' = [broker_qty EXCEPT ![o] = IF IsLeg(o) THEN size ELSE @]
  /\ \/ q = applied[o] /\ UNCHANGED <<linked, trade, remaining>>
     \/ /\ q > applied[o] /\ IsEntry(o)
        /\ linked' = [linked EXCEPT ![o] = TRUE]
        /\ trade' = [trade EXCEPT ![e] = IF @ = "none" THEN "open" ELSE @]
        /\ remaining' = [remaining EXCEPT ![e] = q]
     \/ /\ q > applied[o] /\ ~IsEntry(o)
        /\ remaining' = [remaining EXCEPT ![e] = @ - Delta(o, q)]
        /\ trade' = [trade EXCEPT ![e] = IF remaining'[e] = 0 THEN "closed" ELSE @]
        /\ UNCHANGED linked
  /\ UNCHANGED <<requested, flatten, pending>>

(* The legs in a nested answer. *)
NestedLegs(e) ==
  [k \in Legs |-> [state |-> bstate'[<<e, k>>], filled |-> filled'[<<e, k>>],
                   qty |-> bqty'[<<e, k>>]]]

CallFails == errors < MaxErrors /\ errors' = errors + 1

(* _discover_legs: the rows of both legs in one transaction ... *)
DiscoverLegs ==
  /\ pc = "link"
  /\ LET e == cur[1]
         legs == {e} \X Legs
         new == {o \in legs : ostate[o] = "absent"}
     IN  /\ ostate' = [o \in Orders |-> IF o \in new THEN "new" ELSE ostate[o]]
         /\ known' = [o \in Orders |-> o \in new \/ known[o]]
         /\ requested' = [o \in Orders |-> IF o \in new THEN requested[cur] ELSE requested[o]]
         /\ linked' = [o \in Orders |-> linked[o] \/ (o \in legs /\ linked[cur])]
  /\ pc' = "leg_target"
  /\ UNCHANGED <<applied, broker_qty, flatten, trades, cur, todo, task, toclose, snapshot,
                 blocked, safe_to_flatten, broker, environment>>

LegStep == [target |-> "leg_target", stop |-> "leg_stop"]

(* ... then each leg in its own.  What goes wrong with a leg is put down   *)
(* to the entry that is being processed.                                   *)
ApplyLeg(k) ==
  /\ pc = LegStep[k]
  /\ LET o == Leg(cur, k) IN
     \/ /\ ApplyOrderState(o, snapshot[k].state, snapshot[k].filled, snapshot[k].qty)
        /\ UNCHANGED blocked
        /\ IF k = "target" THEN pc' = "leg_stop" /\ UNCHANGED <<cur, task, toclose, snapshot>>
           ELSE Back
     \/ /\ ~Fits(o, snapshot[k].filled)
        /\ MarkUnresolved(cur)
        /\ Back
  /\ UNCHANGED <<todo, safe_to_flatten, broker, environment>>

-----------------------------------------------------------------------------
(* Sending an order: the intent, the mark that it may have been sent, the  *)
(* call.                                                                   *)

(* Mutant: blocked is not looked at. *)
open_positionMutant(e) ==
  LET o == <<e, "entry">> IN
  /\ pc = "idle" /\ ~flatten_due
  /\ ostate[o] = "absent"
  /\ ~has_open(TickerOf[e])
  /\ ostate' = [ostate EXCEPT ![o] = "pending_submission"]
  /\ requested' = [requested EXCEPT ![o] = Qty]
  /\ pc' = "send" /\ cur' = o /\ task' = "entry"
  /\ UNCHANGED <<applied, known, linked, broker_qty, flatten, trades, todo, toclose,
                 snapshot, blocked, safe_to_flatten, broker, environment>>

open_position(e) ==
  LET o == <<e, "entry">> IN
  /\ pc = "idle" /\ ~flatten_due
  /\ ostate[o] = "absent"
  /\ ~has_open(TickerOf[e])
  /\ ~blocked
  /\ ostate' = [ostate EXCEPT ![o] = "pending_submission"]
  /\ requested' = [requested EXCEPT ![o] = Qty]
  /\ pc' = "send" /\ cur' = o /\ task' = "entry"
  /\ UNCHANGED <<applied, known, linked, broker_qty, flatten, trades, todo, toclose,
                 snapshot, blocked, safe_to_flatten, broker, environment>>

(* Mutant: the order is not marked before the request leaves. *)
SendMutant ==
  /\ pc = "send"
  /\ pc' = "request"
  /\ UNCHANGED <<journal, cur, todo, task, toclose, snapshot, blocked, safe_to_flatten,
                 broker, environment>>

Send ==
  /\ pc = "send"
  /\ ostate' = [ostate EXCEPT ![cur] = "unresolved"]
  /\ pc' = "request"
  /\ UNCHANGED <<applied, known, linked, requested, broker_qty, flatten, trades, cur, todo,
                 task, toclose, snapshot, blocked, safe_to_flatten, broker, environment>>

(* What the broker does with a request it has not seen before. *)
Accept(o) ==
  LET legs == IF IsEntry(o) THEN {o[1]} \X Legs ELSE {} IN
  /\ bstate[o] = "none"
  /\ bstate' = [p \in Orders |-> IF p = o THEN "new" ELSE IF p \in legs THEN "held" ELSE bstate[p]]
  /\ bqty' = [p \in Orders |-> IF p = o \/ p \in legs THEN requested[o] ELSE bqty[p]]
  /\ UNCHANGED <<filled, canceling, holding>>

Request ==
  /\ pc = "request"
  /\ \/ /\ Accept(cur)
        /\ ApplyOrderState(cur, "new", 0, requested[cur])
        /\ IF IsEntry(cur)
             THEN /\ pc' = "link" /\ snapshot' = NestedLegs(cur[1])
                  /\ UNCHANGED <<cur, task, toclose>>
             ELSE Back
        /\ UNCHANGED <<blocked, errors>>
     \/ /\ CallFails
        /\ Accept(cur) \/ UNCHANGED broker
        /\ MarkUnresolved(cur)
        /\ Back
  /\ UNCHANGED <<todo, safe_to_flatten, flatten_due, crashes>>

-----------------------------------------------------------------------------
(* reconcile. *)

reconcile ==
  /\ pc = "reconcile"
  /\ blocked' = FALSE /\ safe_to_flatten' = FALSE
  /\ todo' = {o \in Orders : needs_broker_sync(o)}
  /\ pc' = "sync"
  /\ UNCHANGED <<journal, cur, task, toclose, snapshot, broker, environment>>

(* A broker order is asked for by its broker id, or by the client id it    *)
(* was sent with; the latter does not return the legs.                     *)
Fetch(o) ==
  \/ /\ bstate[o] # "none"
     /\ ApplyOrderState(o, bstate[o], filled[o], bqty[o])
     /\ IF IsEntry(o) /\ known[o]
          THEN pc' = "link" /\ cur' = o /\ snapshot' = NestedLegs(o[1])
          ELSE UNCHANGED <<pc, cur, snapshot>>
     /\ UNCHANGED <<blocked, errors>>
  \/ /\ bstate[o] = "none" \/ ~Fits(o, filled[o])
     /\ MarkUnresolved(o)
     /\ UNCHANGED <<pc, cur, snapshot, errors>>
  \/ /\ CallFails
     /\ MarkUnresolved(o)
     /\ UNCHANGED <<pc, cur, snapshot>>

sync_order(o) ==
  /\ pc = "sync" /\ o \in First(todo)
  /\ todo' = todo \ {o}
  /\ UNCHANGED <<task, toclose, safe_to_flatten, broker, flatten_due, crashes>>
  /\ \/ /\ ostate[o] = "pending_submission"
        /\ IF IsEntry(o) /\ flatten[o[1]]
             THEN /\ ostate' = [ostate EXCEPT ![o] = "canceled"]
                  /\ UNCHANGED <<pc, cur>>
             ELSE pc' = "send" /\ cur' = o /\ UNCHANGED ostate
        /\ UNCHANGED <<applied, known, linked, requested, broker_qty, flatten, trades,
                       snapshot, blocked, errors>>
     \/ ostate[o] # "pending_submission" /\ Fetch(o)

synced ==
  /\ pc = "sync" /\ todo = {}
  /\ pc' = "cancel" /\ todo' = FlattenCancels
  /\ UNCHANGED <<journal, cur, task, toclose, snapshot, blocked, safe_to_flatten, broker,
                 environment>>

(* cancel_order_by_id: the broker refuses it for an order that ended.      *)
CancelCall(o, answered) ==
  \/ /\ answered
     /\ bstate[o] \in Working
     /\ canceling' = [canceling EXCEPT ![o] = TRUE]
     /\ UNCHANGED errors
  \/ /\ ~answered
     /\ bstate[o] \notin Working
     /\ UNCHANGED <<canceling, errors>>
  \/ /\ ~answered
     /\ CallFails
     /\ canceling' = [canceling EXCEPT ![o] = bstate[o] \in Working] \/ UNCHANGED canceling

cancel_flatten_entry(o) ==
  /\ pc = "cancel" /\ o \in First(todo)
  /\ todo' = todo \ {o}
  /\ \/ /\ ~known[o]
        /\ blocked' = TRUE
        /\ UNCHANGED <<journal, canceling, errors>>
     \/ /\ known[o]
        /\ \/ CancelCall(o, TRUE) /\ UNCHANGED <<journal, blocked>>
           \/ CancelCall(o, FALSE) /\ MarkUnresolved(o)
  /\ UNCHANGED <<pc, cur, task, toclose, snapshot, safe_to_flatten, bstate, filled, bqty,
                 holding, flatten_due, crashes>>

cancels_sent ==
  /\ pc = "cancel" /\ todo = {}
  /\ pc' = "observe"
  /\ UNCHANGED <<journal, cur, todo, task, toclose, snapshot, blocked, safe_to_flatten,
                 broker, environment>>

(* The positions of the account, compared with the journal; then the       *)
(* caller goes on: the constructor is done, a tick closes what wants to be *)
(* closed, close_position decides.                                         *)
WantsClose == {e \in Entries : trade[e] = "open"
                               /\ (pending[e] \/ flatten[e] \/ flatten_due)}

observe ==
  /\ pc = "observe"
  /\ \/ /\ CallFails
        /\ blocked' = TRUE /\ UNCHANGED safe_to_flatten
     \/ LET unsafe == blocked \/ exposure_mismatch \/ unsettled_orders IN
          /\ safe_to_flatten' = ~unsafe
          /\ blocked' = (unsafe \/ incomplete_protection)
          /\ UNCHANGED errors
  /\ \/ task = "start" /\ pc' = "idle" /\ task' = "none" /\ UNCHANGED toclose
     \/ task = "tick" /\ pc' = "next" /\ toclose' = WantsClose /\ UNCHANGED task
     \/ task = "close" /\ pc' = "close" /\ UNCHANGED <<task, toclose>>
  /\ UNCHANGED <<journal, cur, todo, snapshot, broker, flatten_due, crashes>>

-----------------------------------------------------------------------------
(* tick and close_position. *)

tick ==
  /\ pc = "idle"
  /\ flatten' = [e \in Entries |-> flatten[e] \/ (flatten_due /\ Open(<<e, "entry">>))]
  /\ pc' = "reconcile" /\ task' = "tick"
  /\ UNCHANGED <<ostate, applied, known, linked, requested, broker_qty, trades, cur, todo,
                 toclose, snapshot, blocked, safe_to_flatten, broker, environment>>

Closing == CHOOSE e \in toclose : TRUE

ticked ==
  /\ pc = "next" /\ toclose = {}
  /\ pc' = "idle" /\ task' = "none"
  /\ UNCHANGED <<journal, cur, todo, toclose, snapshot, blocked, safe_to_flatten, broker,
                 environment>>

(* The intent to close is saved before the account is looked at again. *)
close_position ==
  /\ pc = "next" /\ toclose # {}
  /\ IF trade[Closing] = "open"
       THEN /\ pending' = [pending EXCEPT ![Closing] = TRUE]
            /\ pc' = "reconcile" /\ task' = "close"
            /\ UNCHANGED toclose
       ELSE toclose' = toclose \ {Closing} /\ UNCHANGED <<pending, pc, task>>
  /\ UNCHANGED <<orders, trade, remaining, cur, todo, snapshot, blocked, safe_to_flatten,
                 broker, environment>>

GiveUp == /\ pc' = "next" /\ task' = "tick" /\ toclose' = toclose \ {Closing}

ActiveFor(e) == {o \in OpenOrders(TickerOf[e]) : (o[1] = e /\ linked[o]) \/ o = <<e, "entry">>}

(* The decision: cancel what is still active, or send the market exit. *)
close_decision ==
  LET e == Closing
      active == ActiveFor(e)
      sure == /\ trade[e] = "open"
              /\ KnownLegs(e) = Legs
  IN
  /\ pc = "close"
  /\ blocked' = (blocked \/ (trade[e] = "open" /\ KnownLegs(e) # Legs))
  /\ \/ /\ sure /\ active # {}
        /\ pc' = "cancel_legs" /\ todo' = active
        /\ UNCHANGED <<orders, cur, task, toclose>>
     \/ /\ sure /\ active = {} /\ safe_to_flatten /\ OpenOrders(TickerOf[e]) = {}
        /\ \E k \in ExitKinds :
             /\ ostate[<<e, k>>] = "absent"
             /\ ostate' = [ostate EXCEPT ![<<e, k>>] = "pending_submission"]
             /\ requested' = [requested EXCEPT ![<<e, k>>] = remaining[e]]
             /\ linked' = [linked EXCEPT ![<<e, k>>] = TRUE]
             /\ cur' = <<e, k>>
        /\ pc' = "send" /\ task' = "exit"
        /\ UNCHANGED <<applied, known, broker_qty, flatten, todo, toclose>>
     \/ /\ \/ ~sure
           \/ active = {} /\ ~(safe_to_flatten /\ OpenOrders(TickerOf[e]) = {})
           \/ active = {} /\ \A k \in ExitKinds : ostate[<<e, k>>] # "absent"  \* the bound
        /\ GiveUp
        /\ UNCHANGED <<orders, cur, todo>>
  /\ UNCHANGED <<trades, snapshot, safe_to_flatten, broker, environment>>

(* Mutant: the acknowledgement of a cancel is taken for the cancel. *)
cancel_activeMutant(o) ==
  /\ pc = "cancel_legs" /\ o \in First(todo)
  /\ o[2] \notin ExitKinds /\ CancelCall(o, TRUE)
  /\ ostate' = [ostate EXCEPT ![o] = "canceled"]
  /\ todo' = todo \ {o}
  /\ UNCHANGED <<applied, known, linked, requested, broker_qty, flatten, trades, blocked, pc,
                 task, toclose, cur, snapshot, safe_to_flatten, bstate, filled, bqty, holding,
                 flatten_due, crashes>>

cancel_active(o) ==
  /\ pc = "cancel_legs" /\ o \in First(todo)
  /\ \/ /\ o[2] \in ExitKinds
        /\ GiveUp /\ todo' = {}
        /\ UNCHANGED <<journal, blocked, canceling, errors>>
     \/ /\ o[2] \notin ExitKinds /\ CancelCall(o, TRUE)
        /\ todo' = todo \ {o}
        /\ UNCHANGED <<journal, blocked, pc, task, toclose>>
     \/ /\ o[2] \notin ExitKinds /\ CancelCall(o, FALSE)
        /\ MarkUnresolved(o)
        /\ GiveUp /\ todo' = {}
  /\ UNCHANGED <<cur, snapshot, safe_to_flatten, bstate, filled, bqty, holding, flatten_due,
                 crashes>>

(* A successful cancel is only an acknowledgement: the next tick looks again. *)
active_canceled ==
  /\ pc = "cancel_legs" /\ todo = {}
  /\ GiveUp
  /\ UNCHANGED <<journal, cur, todo, snapshot, blocked, safe_to_flatten, broker, environment>>

-----------------------------------------------------------------------------
(* The broker (external): it moves at any time, also while a cancel is on  *)
(* its way.  The legs rest until the entry is filled completely; a share   *)
(* filled by one leg is a share less for the other.                        *)

Sibling(o) == <<o[1], CHOOSE k \in Legs : k # o[2]>>
BrokerOnly == UNCHANGED <<journal, memory, environment>>

EntryFills(o) ==
  LET n == IF InPieces THEN 1 ELSE bqty[o]
      full == filled[o] + n = bqty[o]
  IN
  /\ IsEntry(o) /\ bstate[o] \in {"new", "partially_filled"}
  /\ filled' = [filled EXCEPT ![o] = @ + n]
  /\ holding' = [holding EXCEPT ![Ticker(o)] = @ + n]
  /\ bstate' = [p \in Orders |->
                  IF p = o THEN (IF full THEN "filled" ELSE "partially_filled")
                  ELSE IF p \in {o[1]} \X Legs /\ full /\ bstate[p] = "held" THEN "new"
                  ELSE bstate[p]]
  /\ UNCHANGED <<bqty, canceling>> /\ BrokerOnly

LegFills(o) ==
  LET full == filled[o] + 1 = bqty[o]
      other == Sibling(o)
  IN
  /\ IsLeg(o) /\ bstate[o] \in {"new", "partially_filled"}
  /\ filled' = [filled EXCEPT ![o] = @ + 1]
  /\ holding' = [holding EXCEPT ![Ticker(o)] = @ - 1]
  /\ bstate' = [bstate EXCEPT ![o] = IF full THEN "filled" ELSE "partially_filled",
                              ![other] = IF full /\ @ \in Working THEN "canceled" ELSE @]
  /\ bqty' = [bqty EXCEPT ![other] = IF bstate[other] \in Working /\ ~full THEN @ - 1 ELSE @]
  /\ UNCHANGED canceling /\ BrokerOnly

ExitFills(o) ==
  /\ o[2] \in ExitKinds /\ bstate[o] \in {"new", "partially_filled"}
  /\ filled' = [filled EXCEPT ![o] = @ + 1]
  /\ holding' = [holding EXCEPT ![Ticker(o)] = @ - 1]
  /\ bstate' = [bstate EXCEPT ![o] = IF filled[o] + 1 = bqty[o] THEN "filled"
                                     ELSE "partially_filled"]
  /\ UNCHANGED <<bqty, canceling>> /\ BrokerOnly

(* A canceled entry takes its legs along, or leaves them active for the    *)
(* shares it got.  A canceled leg may take the other one along.            *)
CancelTakesEffect(o) ==
  /\ canceling[o] /\ bstate[o] \in Working
  /\ \/ bstate' = [bstate EXCEPT ![o] = "canceled"] /\ ~IsEntry(o) /\ UNCHANGED bqty
     \/ /\ IsLeg(o)
        /\ bstate' = [bstate EXCEPT ![o] = "canceled",
                                    ![Sibling(o)] = IF @ \in Working THEN "canceled" ELSE @]
        /\ UNCHANGED bqty
     \/ /\ IsEntry(o)
        /\ bstate' = [p \in Orders |->
             IF p = o \/ (p \in {o[1]} \X Legs /\ bstate[p] \in Working) THEN "canceled"
             ELSE bstate[p]]
        /\ UNCHANGED bqty
     \/ /\ IsEntry(o) /\ filled[o] > 0
        /\ bstate' = [p \in Orders |->
             IF p = o THEN "canceled"
             ELSE IF p \in {o[1]} \X Legs /\ bstate[p] = "held" THEN "new" ELSE bstate[p]]
        /\ bqty' = [p \in Orders |-> IF p \in {o[1]} \X Legs THEN filled[o] ELSE bqty[p]]
  /\ UNCHANGED <<filled, canceling, holding>> /\ BrokerOnly

(* A market order is rejected, or expires at the end of its day. *)
Reject(o) ==
  /\ ~IsLeg(o) /\ bstate[o] = "new"
  /\ bstate' = [p \in Orders |->
       IF p = o THEN "rejected"
       ELSE IF IsEntry(o) /\ p \in {o[1]} \X Legs THEN "canceled" ELSE bstate[p]]
  /\ UNCHANGED <<filled, bqty, canceling, holding>> /\ BrokerOnly

Expire(o) ==
  /\ o[2] \in ExitKinds /\ bstate[o] \in Working
  /\ bstate' = [bstate EXCEPT ![o] = "canceled"]
  /\ UNCHANGED <<filled, bqty, canceling, holding>> /\ BrokerOnly

Fills(o) == EntryFills(o) \/ LegFills(o) \/ ExitFills(o)

(* A tick reads the clock once. *)
SessionClock ==
  /\ SessionEnds
  /\ pc = "idle"
  /\ flatten_due' = ~flatten_due
  /\ UNCHANGED <<journal, memory, broker, errors, crashes>>

(* A crash, or an exception that ends the worker's turn: both go on with   *)
(* the reload and the reconcile of the constructor or of the recovery.  A  *)
(* crash in the middle of a request may leave it with the broker.          *)
Crash ==
  /\ crashes < MaxCrashes /\ crashes' = crashes + 1
  /\ pc' = "reconcile" /\ task' = "start"
  /\ cur' = NoOrder /\ todo' = {} /\ toclose' = {} /\ snapshot' = NoSnapshot
  /\ blocked' = FALSE /\ safe_to_flatten' = FALSE
  /\ (pc = "request" /\ Accept(cur)) \/ UNCHANGED broker
  /\ UNCHANGED <<journal, flatten_due, errors>>

WorkerStep ==
  \/ Send \/ Request \/ DiscoverLegs \/ (\E k \in Legs : ApplyLeg(k))
  \/ reconcile \/ (\E o \in Orders : sync_order(o)) \/ synced
  \/ (\E o \in Orders : cancel_flatten_entry(o)) \/ cancels_sent \/ observe
  \/ tick \/ ticked \/ close_position \/ close_decision
  \/ (\E o \in Orders : cancel_active(o)) \/ active_canceled

Next ==
  \/ WorkerStep
  \/ \E e \in Entries : open_position(e)
  \/ \E o \in Orders : Fills(o) \/ CancelTakesEffect(o) \/ Reject(o) \/ Expire(o)
  \/ SessionClock
  \/ Crash

Spec == Init /\ [][Next]_vars

(* The worker thread takes its turns; it ticks every five seconds. *)
LiveSpec == Spec /\ WF_vars(WorkerStep)

-----------------------------------------------------------------------------
(* Properties. *)

(* The account never goes short: no market exit is in the market together  *)
(* with a leg, and none is sent twice, whatever is lost in between.        *)
PositionNeverFlips == TypeOK /\ \A t \in Tickers : holding[t] >= 0

(* A market exit is decided only when the broker itself can no longer fill *)
(* anything else of the bracket, and for exactly the shares it holds.      *)
ExitIsAlone ==
  \A o \in Orders :
    o[2] \in ExitKinds /\ ostate[o] \in {"pending_submission", "unresolved"} /\ bstate[o] = "none"
      => /\ \A p \in Orders : Ticker(p) = Ticker(o) /\ p # o => bstate[p] \notin Working
         /\ holding[Ticker(o)] = requested[o]

(* The shares of a trade are the entry fills less the exit fills that were *)
(* applied: a fill is counted once, across restarts and repeated reports.  *)
Applied(e, kinds) ==
  LET n == [q \in 0..Qty |-> Cardinality({k \in kinds : applied[<<e, k>>] > q})] 
      sum[q \in 0..Qty] == n[q] + (IF q = 0 THEN 0 ELSE sum[q - 1])
  IN  sum[Qty]
FillsCountedOnce ==
  \A e \in Entries :
    /\ trade[e] # "none" =>
         remaining[e] = applied[<<e, "entry">>] - Applied(e, Kinds \ {"entry"})
    /\ \A k \in Kinds : applied[<<e, k>>] <= filled[<<e, k>>]

(* A request that may have reached the broker is never sent again. *)
NeverSentTwice == pc = "request" => bstate[cur] = "none"

(* One position per ticker: a second entry never begins while an order of  *)
(* the first could still fill.                                             *)
OnePositionPerTicker ==
  \A t \in Tickers :
    Cardinality({o[1] : o \in OpenOrders(t)} \cup OpenTrades(t)) <= 1

(* While any order is unresolved, no new entry is accepted. *)
UncertainBlocksEntries ==
  [][\A e \in Entries :
       ostate[<<e, "entry">>] = "absent" /\ ostate'[<<e, "entry">>] # "absent"
         => \A o \in Orders : ostate[o] \notin {"pending_submission", "unresolved"}]_vars

(* Whatever the broker fills is in the journal in the end: no answer that  *)
(* was lost and no restart keeps a fill out of it.                         *)
FillsReachTheJournal ==
  \A o \in Orders : filled[o] > applied[o] ~> filled[o] = applied[o]
=============================================================================
