------------------------ MODULE AlpacaBroker_proofs -------------------------
(***************************************************************************)
(* Theorems about AlpacaBroker.tla and PositionState.tla, for every number *)
(* of entries, tickers, shares, market exits, failing calls and crashes.   *)
(***************************************************************************)
EXTENDS PositionState, FiniteSetTheorems, WellFoundedInduction, TLAPS

Processing == {"send", "request", "link", "leg_target", "leg_stop"}
Linking == {"link", "leg_target", "leg_stop"}
Uncertain(o) == ostate[o] \in {"pending_submission", "unresolved"}
E(e) == <<e, "entry">>
Rows(e) == {e} \X Kinds

(* The types, the quantities aside. *)
JournalTypes ==
  /\ ostate \in [Orders -> OrderStates]
  /\ applied \in [Orders -> Nat]
  /\ known \in [Orders -> BOOLEAN]
  /\ linked \in [Orders -> BOOLEAN]
  /\ requested \in [Orders -> Int]
  /\ broker_qty \in [Orders -> Int]
  /\ flatten \in [Entries -> BOOLEAN]
  /\ trade \in [Entries -> {"none", "open", "closed"}]
  /\ remaining \in [Entries -> Nat]
  /\ pending \in [Entries -> BOOLEAN]
MemoryTypes ==
  /\ pc \in {"idle", "send", "request", "link", "leg_target", "leg_stop",
             "reconcile", "sync", "cancel", "observe", "next", "close", "cancel_legs"}
  /\ cur \in Orders \cup {NoOrder}
  /\ todo \subseteq Orders
  /\ task \in {"none", "entry", "exit", "start", "tick", "close"}
  /\ toclose \subseteq Entries
  /\ snapshot \in [Legs -> [state : OrderStates, filled : Int, qty : Int]]
  /\ blocked \in BOOLEAN /\ safe_to_flatten \in BOOLEAN
BrokerTypes ==
  /\ bstate \in [Orders -> {"none"} \cup Working \cup Terminal]
  /\ filled \in [Orders -> Int]
  /\ bqty \in [Orders -> Int]
  /\ canceling \in [Orders -> BOOLEAN]
  /\ holding \in [Tickers -> Int]
  /\ flatten_due \in BOOLEAN
  /\ errors \in 0..MaxErrors /\ crashes \in 0..MaxCrashes
Types == JournalTypes /\ MemoryTypes /\ BrokerTypes

(* What the worker has in hand at each point of its program. *)
Control ==
  /\ pc \in Processing <=> cur \in Orders
  /\ todo # {} => pc \in {"sync", "cancel", "cancel_legs"} \cup Processing
  /\ pc \in Processing /\ task \in {"entry", "exit"} => todo = {}
  /\ \A o \in todo : ostate[o] # "absent"
  /\ pc = "idle" => task = "none"
  /\ pc = "next" => task = "tick"
  /\ pc \in {"close", "cancel_legs"} => task = "close"
  /\ pc \in Processing => task # "none"
  /\ pc \in {"reconcile", "sync", "cancel", "observe"} => task \in {"start", "tick", "close"}
  /\ task = "close" => toclose # {}

(* The order in hand: what may be sent was never sent. *)
Current ==
  /\ pc = "send" => ostate[cur] = "pending_submission"
  /\ pc = "request" => ostate[cur] = "unresolved" /\ bstate[cur] = "none" /\ ~IsLeg(cur)
  /\ pc \in Linking =>
       /\ IsEntry(cur) /\ ~Uncertain(cur) /\ ostate[cur] # "absent"
       /\ \A k \in Legs : snapshot[k].state \in Working \cup Terminal
  /\ pc \in {"leg_target", "leg_stop"} => \A k \in Legs : ostate[Leg(cur, k)] # "absent"

(* An order that the journal does not call sent is not with the broker. *)
Unsent(o) ==
  /\ IsLeg(o) => ostate[o] # "pending_submission"
  /\ ~IsLeg(o) /\ ostate[o] \in {"absent", "pending_submission"} => bstate[o] = "none"

(* A bracket reaches the broker as one request.                            *)
Together(e) == \A k \in Legs : bstate[<<e, k>>] = "none" <=> bstate[E(e)] = "none"

(* A trade exists from the first share on, and both legs are known before  *)
(* anything can close it.                                                  *)
Traded(e) ==
  /\ \A k \in Kinds \ {"entry"} : linked[<<e, k>>] => KnownLegs(e) = Legs
  /\ applied[E(e)] > 0 <=> trade[e] # "none"
  /\ trade[e] = "none" => remaining[e] = 0
  /\ trade[e] = "closed" => KnownLegs(e) = Legs

(* An entry has taken its ticker while its trade is open or an order of it *)
(* is open or in the worker's hand; one entry at a time has.               *)
Taken(e) == trade[e] = "open" \/ \E o \in Rows(e) : Open(o) \/ o \in todo \/ o = cur
OneTaken == \A e, f \in Entries : Taken(e) /\ Taken(f) /\ TickerOf[e] = TickerOf[f] => e = f

(* An order of which it is not known whether it was sent blocks the worker *)
(* unless it is about to be looked at.                                     *)
Certain ==
  pc # "reconcile" => \A o \in Orders : Uncertain(o) =>
    \/ blocked
    \/ o = cur /\ pc \in {"send", "request"}
    \/ o \in todo /\ pc \in {"sync"} \cup Processing

JInv ==
  /\ Types /\ Control /\ Current
  /\ \A o \in Orders : Unsent(o)
  /\ \A e \in Entries : Together(e) /\ Traded(e)
  /\ OneTaken /\ Certain

-----------------------------------------------------------------------------
(* Orders. *)

LEMMA OrderParts ==
  ASSUME NEW o \in Orders
  PROVE  /\ o[1] \in Entries /\ o[2] \in Kinds /\ o = <<o[1], o[2]>>
         /\ o \in Rows(o[1])
         /\ E(o[1]) \in Orders /\ \A k \in Legs : <<o[1], k>> \in Orders
  BY DEF Orders, Kinds, E, Rows

LEMMA KindsOfOrders ==
  ASSUME NEW e \in Entries, NEW k \in Kinds
  PROVE  /\ <<e, k>> \in Orders /\ <<e, k>>[1] = e /\ <<e, k>>[2] = k
         /\ IsEntry(<<e, k>>) <=> k = "entry"
         /\ IsLeg(<<e, k>>) <=> k \in Legs
  BY DEF Orders, Kinds, IsEntry, IsLeg

LEMMA NoOrderIsNone == NoOrder \notin Orders
  BY KindsAssumption DEF NoOrder, Orders, Kinds, Legs

-----------------------------------------------------------------------------
(* The types. *)

LEMMA SnapshotTypes ==
  /\ NoSnapshot \in [Legs -> [state : OrderStates, filled : Int, qty : Int]]
  /\ \A k \in Legs : NoSnapshot[k].state = "absent"
  BY DEF NoSnapshot, OrderStates

LEMMA ApplyTypes ==
  ASSUME Types, NEW o \in Orders, NEW s \in OrderStates, NEW q \in Int, NEW size \in Int,
         ApplyOrderState(o, s, q, size)
  PROVE  JournalTypes'
<1>1. o[1] \in Entries
  BY OrderParts
<1>2. q \in Nat /\ applied' \in [Orders -> Nat]
  BY DEF Types, JournalTypes, ApplyOrderState
<1>3. remaining' \in [Entries -> Nat]
  <2>1. CASE IsEntry(o) \/ q = applied[o]
    BY <1>1, <1>2, <2>1 DEF Types, JournalTypes, ApplyOrderState
  <2>2. CASE ~IsEntry(o) /\ q > applied[o]
    <3>1. remaining[o[1]] \in Nat /\ applied[o] \in Nat /\ q - applied[o] <= remaining[o[1]]
      BY <1>1, <1>2, <2>2 DEF Types, JournalTypes, ApplyOrderState, Fits, Delta
    <3>2. remaining[o[1]] - (q - applied[o]) \in Nat
      BY <3>1, <1>2
    <3>3. remaining' = [remaining EXCEPT ![o[1]] = @ - Delta(o, q)]
      BY <2>2 DEF ApplyOrderState
    <3> QED BY <3>2, <3>3, <1>1 DEF Types, JournalTypes, Delta
  <2> QED BY <2>1, <2>2, <1>2 DEF ApplyOrderState, Types, JournalTypes
<1>4. /\ ostate' \in [Orders -> OrderStates] /\ known' \in [Orders -> BOOLEAN]
      /\ linked' \in [Orders -> BOOLEAN] /\ requested' \in [Orders -> Int]
      /\ broker_qty' \in [Orders -> Int] /\ flatten' \in [Entries -> BOOLEAN]
      /\ pending' \in [Entries -> BOOLEAN]
  BY DEF Types, JournalTypes, ApplyOrderState
<1>5. trade' \in [Entries -> {"none", "open", "closed"}]
  BY DEF Types, JournalTypes, ApplyOrderState
<1> QED BY <1>2, <1>3, <1>4, <1>5 DEF JournalTypes

LEMMA MarkTypes ==
  ASSUME Types, NEW o \in Orders, MarkUnresolved(o)
  PROVE  JournalTypes' /\ blocked' = TRUE
  BY DEF Types, JournalTypes, MarkUnresolved, trades, OrderStates

LEMMA BackTypes ==
  ASSUME Types, Back
  PROVE  /\ pc' \in {"idle", "next", "sync"} /\ cur' = NoOrder /\ snapshot' = NoSnapshot
         /\ task' \in {"none", "entry", "exit", "start", "tick", "close"}
         /\ toclose' \subseteq Entries
  BY DEF Types, MemoryTypes, Back

LEMMA AcceptTypes ==
  ASSUME Types, NEW o \in Orders, Accept(o) \/ UNCHANGED broker, 
         UNCHANGED <<flatten_due, crashes>>, UNCHANGED errors \/ CallFails
  PROVE  BrokerTypes'
<1>1. errors' \in 0..MaxErrors /\ flatten_due' \in BOOLEAN /\ crashes' \in 0..MaxCrashes
  BY BoundsAssumption DEF Types, BrokerTypes, CallFails
<1>2. CASE UNCHANGED broker
  BY <1>1, <1>2 DEF Types, BrokerTypes, broker
<1>3. CASE Accept(o)
  BY <1>1, <1>3 DEF Types, BrokerTypes, JournalTypes, Accept, Working
<1> QED BY <1>2, <1>3

(* What the worker is told of an order is a state of the journal.  *)
LEMMA ReportTypes ==
  ASSUME JInv, NEW o \in Orders
  PROVE  /\ bstate[o] # "none" => bstate[o] \in OrderStates
         /\ filled[o] \in Int /\ bqty[o] \in Int /\ requested[o] \in Int
         /\ \A k \in Legs : /\ snapshot[k].state \in OrderStates
                            /\ snapshot[k].filled \in Int /\ snapshot[k].qty \in Int
  BY DEF JInv, Types, JournalTypes, BrokerTypes, MemoryTypes, OrderStates

LEMMA NestedTypes ==
  ASSUME JInv, BrokerTypes', NEW e \in Entries, 
         \A k \in Legs : bstate'[<<e, k>>] # "none"
  PROVE  /\ NestedLegs(e) \in [Legs -> [state : OrderStates, filled : Int, qty : Int]]
         /\ \A k \in Legs : NestedLegs(e)[k].state \in Working \cup Terminal
<1>1. \A k \in Legs : <<e, k>> \in Orders
  BY DEF Orders, Kinds
<1> QED BY <1>1 DEF NestedLegs, BrokerTypes, OrderStates

LEMMA TypesOfSending ==
  ASSUME JInv, Send \/ Request \/ \E e \in Entries : open_position(e)
  PROVE  Types'
<1> USE DEF JInv, Control, Processing
<1>1. CASE Send
  BY <1>1 DEF Send, Types, JournalTypes, MemoryTypes, BrokerTypes, broker, environment, trades, OrderStates
<1>2. CASE \E e \in Entries : open_position(e)
  BY <1>2, KindsOfOrders, QtyAssumption
  DEF open_position, Types, JournalTypes, MemoryTypes, BrokerTypes, broker, environment, trades, OrderStates, Kinds
<1>3. CASE Request
  <2>1. cur \in Orders /\ pc = "request"
    BY <1>3 DEF Request
  <2>2. BrokerTypes'
    BY <1>3, <2>1, AcceptTypes DEF Request
  <2>3. CASE Accept(cur) /\ ApplyOrderState(cur, "new", 0, requested[cur])
             /\ (IF IsEntry(cur)
                   THEN /\ pc' = "link" /\ snapshot' = NestedLegs(cur[1])
                        /\ UNCHANGED <<cur, task, toclose>>
                   ELSE Back)
             /\ UNCHANGED <<blocked, todo, safe_to_flatten>>
    <3>1. JournalTypes'
      BY <2>1, <2>3, ApplyTypes, ReportTypes DEF OrderStates, Working
    <3>2. CASE IsEntry(cur)
      <4>1. \A k \in Legs : bstate'[<<cur[1], k>>] # "none"
        BY <2>1, <2>3, <3>2, OrderParts DEF Accept
      <4>2. snapshot' \in [Legs -> [state : OrderStates, filled : Int, qty : Int]]
        BY <2>1, <2>2, <2>3, <3>2, <4>1, NestedTypes, OrderParts
      <4> QED BY <2>2, <2>3, <3>1, <3>2, <4>2 DEF Types, MemoryTypes
    <3>3. CASE ~IsEntry(cur)
      BY <2>2, <2>3, <3>1, <3>3, BackTypes, SnapshotTypes DEF Types, MemoryTypes
    <3> QED BY <3>2, <3>3
  <2>4. CASE MarkUnresolved(cur) /\ Back /\ UNCHANGED <<todo, safe_to_flatten>>
    BY <2>1, <2>2, <2>4, MarkTypes, BackTypes, SnapshotTypes DEF Types, MemoryTypes
  <2> QED BY <1>3, <2>3, <2>4 DEF Request
<1> QED BY <1>1, <1>2, <1>3

LEMMA TypesOfLegs ==
  ASSUME JInv, DiscoverLegs \/ \E k \in Legs : ApplyLeg(k)
  PROVE  Types'
<1> USE DEF JInv, Control, Processing
<1>1. CASE DiscoverLegs
  <2>1. cur \in Orders
    BY <1>1 DEF DiscoverLegs
  <2>2. JournalTypes'
    BY <1>1, <2>1 DEF DiscoverLegs, Types, JournalTypes, trades, OrderStates, Working
  <2> QED BY <1>1, <2>2 DEF DiscoverLegs, Types, MemoryTypes, BrokerTypes, broker, environment
<1>2. ASSUME NEW k \in Legs, ApplyLeg(k) PROVE Types'
  <2>1. cur \in Orders /\ Leg(cur, k) \in Orders
    BY <1>2, OrderParts DEF ApplyLeg, LegStep, Leg, Legs
  <2>2. BrokerTypes'
    BY <1>2 DEF ApplyLeg, Types, BrokerTypes, broker, environment
  <2>3. CASE /\ ApplyOrderState(Leg(cur, k), snapshot[k].state, snapshot[k].filled, snapshot[k].qty)
             /\ UNCHANGED <<blocked, todo, safe_to_flatten>>
             /\ \/ pc' = "leg_stop" /\ UNCHANGED <<cur, task, toclose, snapshot>>
                \/ Back
    BY <2>1, <2>2, <2>3, ApplyTypes, ReportTypes, BackTypes, SnapshotTypes DEF Types, MemoryTypes
  <2>4. CASE MarkUnresolved(cur) /\ Back /\ UNCHANGED <<todo, safe_to_flatten>>
    BY <2>1, <2>2, <2>4, MarkTypes, BackTypes, SnapshotTypes DEF Types, MemoryTypes
  <2> QED BY <1>2, <2>3, <2>4 DEF ApplyLeg
<1> QED BY <1>1, <1>2

LEMMA CancelTypes ==
  ASSUME JInv, NEW o \in Orders,
         UNCHANGED canceling \/ CancelCall(o, TRUE) \/ CancelCall(o, FALSE)
  PROVE  canceling' \in [Orders -> BOOLEAN]
<1> DEFINE works == bstate[o] \in Working
<1>1. works \in BOOLEAN
  OBVIOUS
<1>2. \/ UNCHANGED canceling \/ canceling' = [canceling EXCEPT ![o] = TRUE]
      \/ canceling' = [canceling EXCEPT ![o] = works]
  BY DEF CancelCall
<1>3. canceling \in [Orders -> BOOLEAN]
  BY DEF JInv, Types, BrokerTypes
<1> HIDE DEF works
<1> QED BY <1>1, <1>2, <1>3

LEMMA TypesOfReconcile ==
  ASSUME JInv, 
         \/ reconcile \/ (\E o \in Orders : sync_order(o)) \/ synced
         \/ (\E o \in Orders : cancel_flatten_entry(o)) \/ cancels_sent \/ observe
  PROVE  Types'
<1> USE DEF JInv, Control, Processing
<1>1. CASE reconcile \/ synced \/ cancels_sent
  BY <1>1
  DEF reconcile, synced, cancels_sent, FlattenCancels, Types, JournalTypes, MemoryTypes, BrokerTypes,
      journal, orders, trades, broker, environment
<1>4. CASE observe
  <2>1. errors' \in 0..MaxErrors
    BY <1>4, BoundsAssumption DEF observe, CallFails, Types, BrokerTypes
  <2>2. blocked' \in BOOLEAN /\ safe_to_flatten' \in BOOLEAN
    BY <1>4 DEF observe, Types, MemoryTypes
  <2> QED BY <1>4, <2>1, <2>2 
      DEF observe, WantsClose, Types, JournalTypes, MemoryTypes, BrokerTypes, journal, orders, trades, broker
<1>2. ASSUME NEW o \in Orders, sync_order(o) PROVE Types'
  <2>1. CASE ostate[o] = "pending_submission" /\ ~ Fetch(o)
    BY <1>2, <2>1 DEF sync_order, Types, JournalTypes, MemoryTypes, BrokerTypes, broker, trades, OrderStates, Terminal
  <2>2. CASE Fetch(o)
    <3>1. BrokerTypes'
      BY <1>2, <2>2, AcceptTypes DEF sync_order, Fetch
    <3>2. /\ todo' \subseteq Orders /\ UNCHANGED <<task, toclose, safe_to_flatten>>
          /\ UNCHANGED broker
      BY <1>2 DEF sync_order, Types, MemoryTypes
    <3>3. CASE /\ bstate[o] # "none"
               /\ ApplyOrderState(o, bstate[o], filled[o], bqty[o])
               /\ IF IsEntry(o) /\ known[o]
                    THEN pc' = "link" /\ cur' = o /\ snapshot' = NestedLegs(o[1])
                    ELSE UNCHANGED <<pc, cur, snapshot>>
               /\ UNCHANGED blocked
      <4>1. JournalTypes'
        BY <3>3, ApplyTypes, ReportTypes
      <4>2. CASE IsEntry(o) /\ known[o]
        <5>1. \A k \in Legs : bstate'[<<o[1], k>>] # "none"
          <6>1. E(o[1]) = o /\ o[1] \in Entries
            BY <4>2, OrderParts DEF E, IsEntry
          <6>2. \A k \in Legs : bstate[<<o[1], k>>] # "none"
            BY <3>3, <6>1 DEF Together
          <6> QED BY <3>2, <6>2 DEF broker
        <5>2. snapshot' \in [Legs -> [state : OrderStates, filled : Int, qty : Int]]
          BY <3>1, <3>3, <4>2, <5>1, NestedTypes, OrderParts
        <5> QED BY <3>1, <3>2, <3>3, <4>1, <4>2, <5>2 DEF Types, MemoryTypes
      <4>3. CASE ~(IsEntry(o) /\ known[o])
        BY <3>1, <3>2, <3>3, <4>1, <4>3 DEF Types, MemoryTypes
      <4> QED BY <4>2, <4>3
    <3>4. CASE MarkUnresolved(o) /\ UNCHANGED <<pc, cur, snapshot>>
      BY <3>1, <3>2, <3>4, MarkTypes DEF Types, MemoryTypes
    <3> QED BY <2>2, <3>3, <3>4 DEF Fetch
  <2> QED BY <1>2, <2>1, <2>2 DEF sync_order
<1>3. ASSUME NEW o \in Orders, cancel_flatten_entry(o) PROVE Types'
  <2>1. BrokerTypes'
    <3>1. errors' \in 0..MaxErrors
      BY <1>3, BoundsAssumption DEF cancel_flatten_entry, CancelCall, CallFails, Types, BrokerTypes
    <3>2. canceling' \in [Orders -> BOOLEAN]
      BY <1>3, CancelTypes DEF cancel_flatten_entry
    <3> QED BY <1>3, <3>1, <3>2 DEF cancel_flatten_entry, Types, BrokerTypes
  <2>2. JournalTypes' /\ blocked' \in BOOLEAN
    BY <1>3, MarkTypes DEF cancel_flatten_entry, Types, JournalTypes, MemoryTypes, journal, orders, trades
  <2> QED BY <1>3, <2>1, <2>2 DEF cancel_flatten_entry, Types, MemoryTypes
<1> QED BY <1>1, <1>2, <1>3, <1>4

LEMMA TypesOfClosing ==
  ASSUME JInv, 
         \/ tick \/ ticked \/ close_position \/ close_decision
         \/ (\E o \in Orders : cancel_active(o)) \/ active_canceled
         \/ SessionClock \/ Crash
  PROVE  Types'
<1> USE DEF JInv, Control, Processing
<1>1. CASE tick
  BY <1>1
  DEF tick, Types, JournalTypes, MemoryTypes, BrokerTypes, trades, broker, environment
<1>6. CASE ticked
  BY <1>6 DEF ticked, Types, JournalTypes, MemoryTypes, BrokerTypes, journal, orders, trades, broker,
              environment
<1>7. CASE SessionClock
  BY <1>7 DEF SessionClock, Types, JournalTypes, MemoryTypes, BrokerTypes, journal, orders, trades,
              memory, broker
<1>8. CASE active_canceled
  BY <1>8 DEF active_canceled, GiveUp, Types, JournalTypes, MemoryTypes, BrokerTypes, journal,
              orders, trades, broker, environment
<1>2. CASE close_position
  <2>1. toclose # {} => Closing \in Entries
    BY DEF Closing, Types, MemoryTypes
  <2> QED BY <1>2, <2>1
      DEF close_position, Types, JournalTypes, MemoryTypes, BrokerTypes, orders, broker, environment
<1>3. CASE close_decision
  <2>1. Closing \in Entries
    BY <1>3 DEF Closing, Types, MemoryTypes, close_decision
  <2>2. \A k \in ExitKinds : <<Closing, k>> \in Orders
    BY <2>1 DEF Orders, Kinds
  <2>3. ActiveFor(Closing) \subseteq Orders
    BY DEF ActiveFor, OpenOrders
  <2>4. BrokerTypes' /\ blocked' \in BOOLEAN
    BY <1>3 DEF close_decision, Types, BrokerTypes, MemoryTypes, broker, environment
  <2>5. UNCHANGED <<trades, snapshot, safe_to_flatten>>
    BY <1>3 DEF close_decision
  <2>6. CASE UNCHANGED <<orders, cur>> /\ todo' = ActiveFor(Closing) /\ pc' = "cancel_legs"
             /\ UNCHANGED <<task, toclose>>
    BY <2>3, <2>4, <2>5, <2>6 DEF Types, JournalTypes, MemoryTypes, trades, orders
  <2>7. CASE UNCHANGED <<orders, cur, todo>> /\ GiveUp
    BY <2>4, <2>5, <2>7 DEF GiveUp, Types, JournalTypes, MemoryTypes, trades, orders
  <2>8. ASSUME NEW k \in ExitKinds,
               /\ ostate' = [ostate EXCEPT ![<<Closing, k>>] = "pending_submission"]
               /\ requested' = [requested EXCEPT ![<<Closing, k>>] = remaining[Closing]]
               /\ linked' = [linked EXCEPT ![<<Closing, k>>] = TRUE]
               /\ cur' = <<Closing, k>> /\ pc' = "send" /\ task' = "exit"
               /\ UNCHANGED <<applied, known, broker_qty, flatten, todo, toclose>>
        PROVE  Types'
    <3>1. JournalTypes'
      BY <2>1, <2>2, <2>5, <2>8 DEF Types, JournalTypes, trades, OrderStates
    <3> QED BY <2>2, <2>4, <2>5, <2>8, <3>1 DEF Types, MemoryTypes
  <2> QED BY <1>3, <2>6, <2>7, <2>8 DEF close_decision
<1>4. ASSUME NEW o \in Orders, cancel_active(o) PROVE Types'
  <2>1. BrokerTypes'
    <3>1. errors' \in 0..MaxErrors
      BY <1>4, BoundsAssumption DEF cancel_active, CancelCall, CallFails, Types, BrokerTypes
    <3>2. canceling' \in [Orders -> BOOLEAN]
      BY <1>4, CancelTypes DEF cancel_active
    <3> QED BY <1>4, <3>1, <3>2 DEF cancel_active, Types, BrokerTypes
  <2>2. JournalTypes' /\ blocked' \in BOOLEAN
    BY <1>4, MarkTypes DEF cancel_active, Types, JournalTypes, MemoryTypes, journal, orders, trades
  <2> QED BY <1>4, <2>1, <2>2 DEF cancel_active, GiveUp, Types, MemoryTypes
<1>5. CASE Crash
  <2>1. BrokerTypes'
    <3>1. pc = "request" => cur \in Orders
      OBVIOUS
    <3>2. crashes' \in 0..MaxCrashes /\ flatten_due' \in BOOLEAN /\ errors' \in 0..MaxErrors
      BY <1>5, BoundsAssumption DEF Crash, Types, BrokerTypes
    <3> QED BY <1>5, <3>1, <3>2 DEF Crash, Accept, Types, BrokerTypes, JournalTypes, Working, broker
  <2> QED BY <1>5, <2>1, SnapshotTypes DEF Crash, Types, JournalTypes, MemoryTypes, journal, orders, trades
<1> QED BY <1>1, <1>2, <1>3, <1>4, <1>5, <1>6, <1>7, <1>8

LEMMA TypesOfBroker ==
  ASSUME JInv, NEW o \in Orders, Fills(o) \/ CancelTakesEffect(o) \/ Reject(o) \/ Expire(o)
  PROVE  Types'
<1>1. JournalTypes' /\ MemoryTypes' /\ flatten_due' \in BOOLEAN 
      /\ errors' \in 0..MaxErrors /\ crashes' \in 0..MaxCrashes
  BY DEF Fills, EntryFills, LegFills, ExitFills, CancelTakesEffect, Reject, Expire, BrokerOnly, JInv, Types, 
     JournalTypes, MemoryTypes, BrokerTypes, journal, orders, trades, memory, environment
<1>2. Sibling(o) \in Orders \/ ~IsLeg(o)
  BY DEF Sibling, Legs, Orders, Kinds, IsLeg
<1>3. Ticker(o) \in Tickers
  BY TickerAssumption, OrderParts DEF Ticker
<1>4. bstate' \in [Orders -> {"none"} \cup Working \cup Terminal]
  BY DEF Fills, EntryFills, LegFills, ExitFills, CancelTakesEffect, Reject, Expire, JInv, Types, BrokerTypes,
     Working, Terminal
<1>5. filled' \in [Orders -> Int] /\ bqty' \in [Orders -> Int] /\ canceling' \in [Orders -> BOOLEAN]
  BY DEF Fills, EntryFills, LegFills, ExitFills, CancelTakesEffect, Reject, Expire, JInv, Types, BrokerTypes
<1>6. holding' \in [Tickers -> Int]
  BY <1>3 DEF Fills, EntryFills, LegFills, ExitFills, CancelTakesEffect, Reject, Expire, JInv, Types, BrokerTypes
<1> QED BY <1>1, <1>4, <1>5, <1>6 DEF Types, BrokerTypes

LEMMA TypesNext ==
  ASSUME JInv, Next
  PROVE  Types'
  BY TypesOfSending, TypesOfLegs, TypesOfReconcile, TypesOfClosing, TypesOfBroker DEF Next, WorkerStep

-----------------------------------------------------------------------------
(* The worker's program. *)

LEMMA BackControl ==
  ASSUME JInv, pc \in Processing, Back, UNCHANGED todo,
         \A o \in todo : ostate'[o] # "absent"
  PROVE  Control'
<1>1. cur' \notin Orders
  BY NoOrderIsNone DEF Back
<1>2. CASE task = "entry"
  BY <1>1, <1>2 DEF JInv, Control, Back, Processing
<1>3. CASE task = "exit"
  BY <1>1, <1>3 DEF JInv, Control, Back, Processing
<1>4. CASE task \notin {"entry", "exit"}
  BY <1>1, <1>4 DEF JInv, Control, Back, Processing, Types, MemoryTypes
<1> QED BY <1>2, <1>3, <1>4

LEMMA ControlOfSending ==
  ASSUME JInv, Types', Send \/ Request \/ \E e \in Entries : open_position(e)
  PROVE  Control'
<1> USE DEF JInv
<1>1. CASE Send
  BY <1>1 DEF Send, Control, Processing, Types, JournalTypes, MemoryTypes
<1>2. ASSUME NEW e \in Entries, open_position(e) PROVE Control'
  BY <1>2, KindsOfOrders DEF open_position, Control, Processing, Kinds
<1>3. CASE Request
  <2>1. cur \in Orders /\ pc \in Processing /\ UNCHANGED todo
    BY <1>3 DEF Request, Control, Processing
  <2>2. \A o \in todo : ostate'[o] # "absent"
    BY <1>3, <2>1 DEF Request, ApplyOrderState, MarkUnresolved, Control, Types, JournalTypes, MemoryTypes
  <2>3. CASE Back
    BY <2>1, <2>2, <2>3, BackControl
  <2>4. CASE pc' = "link" /\ UNCHANGED <<cur, task, toclose>>
    BY <2>1, <2>2, <2>4 DEF Control, Processing
  <2> QED BY <1>3, <2>3, <2>4 DEF Request
<1> QED BY <1>1, <1>2, <1>3

LEMMA ControlOfLegs ==
  ASSUME JInv, Types', DiscoverLegs \/ \E k \in Legs : ApplyLeg(k)
  PROVE  Control'
<1> USE DEF JInv
<1>1. CASE DiscoverLegs
  BY <1>1 DEF DiscoverLegs, Control, Processing, Types, MemoryTypes
<1>2. ASSUME NEW k \in Legs, ApplyLeg(k) PROVE Control'
  <2>1. cur \in Orders /\ Leg(cur, k) \in Orders /\ pc \in Processing
    BY <1>2, OrderParts DEF ApplyLeg, LegStep, Leg, Legs, Control, Processing
  <2>2. \A o \in todo : ostate'[o] # "absent"
    <3>1. snapshot[k].state # "absent"
      BY <1>2 DEF ApplyLeg, LegStep, Legs, Current, Linking, Working, Terminal
    <3> QED BY <1>2, <2>1, <3>1 
        DEF ApplyLeg, ApplyOrderState, MarkUnresolved, Control, Types, JournalTypes, MemoryTypes
  <2>3. CASE Back
    BY <1>2, <2>1, <2>2, <2>3, BackControl DEF ApplyLeg
  <2>4. CASE pc' = "leg_stop" /\ UNCHANGED <<cur, task, toclose, todo>>
    BY <2>1, <2>2, <2>4 DEF Control, Processing
  <2> QED BY <1>2, <2>3, <2>4 DEF ApplyLeg
<1> QED BY <1>1, <1>2

LEMMA ControlOfReconcile ==
  ASSUME JInv, Types',
         \/ reconcile \/ (\E o \in Orders : sync_order(o)) \/ synced
         \/ (\E o \in Orders : cancel_flatten_entry(o)) \/ cancels_sent \/ observe
  PROVE  Control'
<1> USE DEF JInv
<1>1. CASE reconcile
  BY <1>1 DEF reconcile, needs_broker_sync, Open, Terminal, Control, Processing, journal, orders
<1>2. CASE synced
  BY <1>2 DEF synced, FlattenCancels, Open, Control, Processing, journal, orders
<1>3. CASE cancels_sent
  BY <1>3 DEF cancels_sent, Control, Processing, journal, orders
<1>4. CASE observe
  BY <1>4 DEF observe, Control, Processing, journal, orders
<1>5. ASSUME NEW o \in Orders, sync_order(o) PROVE Control'
  <2>1. pc = "sync" /\ todo' = todo \ {o} /\ cur \notin Orders /\ UNCHANGED <<task, toclose>>
        /\ task \in {"start", "tick", "close"}
    BY <1>5 DEF sync_order, Control, Processing
  <2>2. \A p \in todo' : ostate'[p] # "absent"
    BY <1>5, <2>1 
    DEF sync_order, Fetch, ApplyOrderState, MarkUnresolved, Control, Types, JournalTypes, MemoryTypes
  <2>3. (pc' = "sync" /\ UNCHANGED cur) \/ (pc' \in Processing /\ cur' = o)
    <3>1. CASE ostate[o] = "pending_submission"
      BY <1>5, <2>1, <3>1 DEF sync_order, Processing
    <3>2. CASE Fetch(o)
      BY <2>1, <3>2 DEF Fetch, Processing
    <3> QED BY <1>5, <3>1, <3>2 DEF sync_order
  <2> QED BY <2>1, <2>2, <2>3 DEF Control, Processing
<1>6. ASSUME NEW o \in Orders, cancel_flatten_entry(o) PROVE Control'
  <2>1. \A p \in todo' : ostate'[p] # "absent"
    BY <1>6 DEF cancel_flatten_entry, MarkUnresolved, Control, Types, JournalTypes, MemoryTypes, journal, orders
  <2> QED BY <1>6, <2>1 DEF cancel_flatten_entry, Control, Processing
<1> QED BY <1>1, <1>2, <1>3, <1>4, <1>5, <1>6

LEMMA ControlOfClosing ==
  ASSUME JInv, Types',
         \/ tick \/ ticked \/ close_position \/ close_decision
         \/ (\E o \in Orders : cancel_active(o)) \/ active_canceled
         \/ SessionClock \/ Crash
  PROVE  Control'
<1> USE DEF JInv
<1>1. CASE tick \/ ticked \/ active_canceled \/ SessionClock \/ Crash
  BY <1>1, NoOrderIsNone
  DEF tick, ticked, active_canceled, SessionClock, Crash, GiveUp, Control, Processing, journal, orders, memory
<1>2. CASE close_position
  BY <1>2 DEF close_position, Control, Processing, orders
<1>3. CASE close_decision
  <2>1. pc = "close" /\ todo = {} /\ cur \notin Orders /\ task = "close"
    BY <1>3 DEF close_decision, Control, Processing
  <2>2. CASE UNCHANGED <<orders, cur>> /\ todo' = ActiveFor(Closing) /\ pc' = "cancel_legs"
             /\ UNCHANGED <<task, toclose>>
    <3>1. \A o \in ActiveFor(Closing) : ostate[o] # "absent"
      BY DEF ActiveFor, OpenOrders, Open
    <3> QED BY <2>1, <2>2, <3>1 DEF Control, Processing, orders
  <2>3. CASE UNCHANGED <<orders, cur, todo>> /\ GiveUp
    BY <2>1, <2>3 DEF GiveUp, Control, Processing, orders
  <2>4. ASSUME NEW k \in ExitKinds, 
               cur' = <<Closing, k>> /\ pc' = "send" /\ task' = "exit" /\ UNCHANGED todo
        PROVE  Control'
    <3>1. Closing \in Entries
      BY <1>3 DEF Closing, Types, MemoryTypes, close_decision, Control
    <3> QED BY <2>1, <2>4, <3>1, KindsOfOrders DEF Control, Processing, Kinds
  <2> QED BY <1>3, <2>2, <2>3, <2>4 DEF close_decision
<1>4. ASSUME NEW o \in Orders, cancel_active(o) PROVE Control'
  <2>1. \A p \in todo' : ostate'[p] # "absent"
    BY <1>4 DEF cancel_active, MarkUnresolved, Control, Types, JournalTypes, MemoryTypes, journal, orders
  <2> QED BY <1>4, <2>1 DEF cancel_active, GiveUp, Control, Processing
<1> QED BY <1>1, <1>2, <1>3, <1>4

LEMMA BrokerMoves ==
  ASSUME NEW o \in Orders, Fills(o) \/ CancelTakesEffect(o) \/ Reject(o) \/ Expire(o)
  PROVE  UNCHANGED <<ostate, applied, known, linked, requested, broker_qty, flatten,
                     trade, remaining, pending, pc, cur, todo, task, toclose, snapshot, blocked,
                     safe_to_flatten, flatten_due, errors, crashes>>
  BY DEF Fills, EntryFills, LegFills, ExitFills, CancelTakesEffect, Reject, Expire, BrokerOnly, 
     journal, orders, trades, memory, environment

LEMMA ControlNext ==
  ASSUME JInv, Types', Next
  PROVE  Control'
<1>1. ASSUME NEW o \in Orders, Fills(o) \/ CancelTakesEffect(o) \/ Reject(o) \/ Expire(o)
      PROVE  Control'
  BY <1>1, BrokerMoves DEF JInv, Control
<1> QED BY <1>1, ControlOfSending, ControlOfLegs, ControlOfReconcile, ControlOfClosing DEF Next, WorkerStep

-----------------------------------------------------------------------------
(* What a step may do to a row of the journal: nothing, write the intent   *)
(* of an order that is sent next, or write what became of an order that    *)
(* the worker has in hand.                                                 *)

InHand(o) == o \in todo \/ o = cur \/ (pc \in Linking /\ IsLeg(o) /\ o[1] = cur[1])
Intended(o) == /\ ostate[o] = "absent" /\ ~IsLeg(o) /\ pc' = "send" /\ cur' = o
               /\ IsEntry(o) => open_position(o[1])
RowMove(o) ==
  \/ ostate'[o] = ostate[o]
  \/ Intended(o) /\ ostate'[o] = "pending_submission"
  \/ InHand(o) /\ ostate'[o] \notin {"absent", "pending_submission"}

LEMMA ApplyMove ==
  ASSUME JInv, NEW o \in Orders, NEW s, NEW q, NEW size, ApplyOrderState(o, s, q, size) \/ MarkUnresolved(o),
         InHand(o), s \notin {"absent", "pending_submission"}
  PROVE  \A p \in Orders : RowMove(p)
  BY DEF ApplyOrderState, MarkUnresolved, RowMove, JInv, Types, JournalTypes

LEMMA RowMoves ==
  ASSUME JInv, Next
  PROVE  \A p \in Orders : RowMove(p)
<1> USE DEF JInv
<1>1. CASE UNCHANGED ostate
  BY <1>1 DEF RowMove
<1>2. CASE Send
  BY <1>2 DEF Send, RowMove, InHand, Control, Processing, Types, JournalTypes
<1>3. ASSUME NEW e \in Entries, open_position(e) PROVE \A p \in Orders : RowMove(p)
  <2>1. /\ ostate[<<e, "entry">>] = "absent" /\ pc' = "send" /\ cur' = <<e, "entry">>
        /\ ostate' = [ostate EXCEPT ![<<e, "entry">>] = "pending_submission"]
    BY <1>3 DEF open_position
  <2>2. ~IsLeg(<<e, "entry">>)
    BY DEF IsLeg, Legs
  <2>3. <<e, "entry">>[1] = e
    OBVIOUS
  <2> QED BY <1>3, <2>1, <2>2, <2>3 DEF RowMove, Intended, Types, JournalTypes
<1>4. CASE Request
  <2>1. cur \in Orders /\ InHand(cur)
    BY <1>4 DEF Request, Control, Processing, InHand
  <2>2. ApplyOrderState(cur, "new", 0, requested[cur]) \/ MarkUnresolved(cur)
    BY <1>4 DEF Request
  <2> QED BY <2>1, <2>2, ApplyMove
<1>5. CASE DiscoverLegs
  BY <1>5 DEF DiscoverLegs, RowMove, InHand, Linking, IsLeg, Types, JournalTypes, Orders
<1>6. ASSUME NEW k \in Legs, ApplyLeg(k) PROVE \A p \in Orders : RowMove(p)
  <2>1. cur \in Orders /\ Leg(cur, k) \in Orders /\ pc \in Linking
    <3>1. pc \in {"leg_target", "leg_stop"}
      BY <1>6 DEF ApplyLeg, LegStep, Legs
    <3> QED BY <3>1, OrderParts DEF Leg, Control, Processing, Linking
  <2>2. InHand(cur) /\ InHand(Leg(cur, k)) 
    BY <2>1 DEF InHand, IsLeg, Leg
  <2>3. snapshot[k].state \notin {"absent", "pending_submission"}
    BY <2>1 DEF Current, Working, Terminal
  <2> QED BY <1>6, <2>1, <2>2, <2>3, ApplyMove DEF ApplyLeg
<1>7. ASSUME NEW o \in Orders, sync_order(o) PROVE \A p \in Orders : RowMove(p)
  <2>1. InHand(o)
    BY <1>7 DEF sync_order, First, InHand
  <2>2. CASE Fetch(o) /\ bstate[o] # "none"
    <3>1. bstate[o] \notin {"absent", "pending_submission"}
      BY <2>2 DEF Types, BrokerTypes, Working, Terminal
    <3> QED BY <2>1, <2>2, <3>1, ApplyMove DEF Fetch
  <2>3. CASE Fetch(o) /\ bstate[o] = "none"
    <3>1. MarkUnresolved(o)
      BY <2>3 DEF Fetch
    <3> QED BY <2>1, <3>1 DEF MarkUnresolved, RowMove, Types, JournalTypes
  <2>4. CASE ostate[o] = "pending_submission"
    BY <1>7, <2>1, <2>4 DEF sync_order, RowMove, Types, JournalTypes
  <2> QED BY <1>7, <2>2, <2>3, <2>4 DEF sync_order
<1>8. ASSUME NEW o \in Orders, cancel_flatten_entry(o) \/ cancel_active(o)
      PROVE  \A p \in Orders : RowMove(p)
  <2>1. InHand(o)
    BY <1>8 DEF cancel_flatten_entry, cancel_active, First, InHand
  <2>2. UNCHANGED ostate \/ MarkUnresolved(o)
    BY <1>8 DEF cancel_flatten_entry, cancel_active, journal, orders
  <2> QED BY <2>1, <2>2 DEF MarkUnresolved, RowMove, Types, JournalTypes
<1>9. CASE close_decision
  <2>1. Closing \in Entries
    BY <1>9 DEF Closing, Types, MemoryTypes, close_decision, Control
  <2>2. ASSUME NEW k \in ExitKinds, ostate[<<Closing, k>>] = "absent", 
               ostate' = [ostate EXCEPT ![<<Closing, k>>] = "pending_submission"],
               cur' = <<Closing, k>>, pc' = "send"
        PROVE  \A p \in Orders : RowMove(p)
    <3>1. ~IsLeg(<<Closing, k>>) /\ ~IsEntry(<<Closing, k>>)
      BY KindsAssumption DEF IsLeg, IsEntry
    <3> QED BY <2>2, <3>1 DEF RowMove, Intended, Types, JournalTypes
  <2> QED BY <1>1, <1>9, <2>1, <2>2 DEF close_decision, orders
<1>10. ASSUME NEW o \in Orders, Fills(o) \/ CancelTakesEffect(o) \/ Reject(o) \/ Expire(o)
       PROVE UNCHANGED ostate
  BY <1>10, BrokerMoves
<1>11. reconcile \/ synced \/ cancels_sent \/ observe \/ tick \/ ticked \/ close_position 
       \/ active_canceled \/ SessionClock \/ Crash => UNCHANGED ostate
  BY DEF reconcile, synced, cancels_sent, observe, tick, ticked, close_position, active_canceled, SessionClock,
         Crash, journal, orders
<1> QED BY <1>1, <1>2, <1>3, <1>4, <1>5, <1>6, <1>7, <1>8, <1>9, <1>10, <1>11 DEF Next, WorkerStep

LEMMA KnownStays ==
  ASSUME JInv, Next, NEW e \in Entries
  PROVE  /\ \A o \in Orders : ostate[o] # "absent" => ostate'[o] # "absent"
         /\ KnownLegs(e) = Legs => KnownLegs(e)' = Legs
<1>1. \A o \in Orders : ostate[o] # "absent" => ostate'[o] # "absent"
  BY RowMoves DEF RowMove
<1>2. \A k \in Legs : <<e, k>> \in Orders
  BY DEF Orders, Kinds
<1> QED BY <1>1, <1>2 DEF KnownLegs

-----------------------------------------------------------------------------
(* What was sent to the broker. *)

LEMMA BrokerSent ==
  ASSUME JInv, NEW o \in Orders, Fills(o) \/ CancelTakesEffect(o) \/ Reject(o) \/ Expire(o)
  PROVE  \A p \in Orders : bstate'[p] = "none" <=> bstate[p] = "none"
<1> USE DEF JInv
<1>1. CASE Fills(o) \/ CancelTakesEffect(o) \/ Expire(o)
  BY <1>1 DEF Fills, EntryFills, LegFills, ExitFills, CancelTakesEffect, Expire, Types, BrokerTypes, Working
<1>2. CASE Reject(o)
  <2>1. IsEntry(o) => \A k \in Legs : bstate[<<o[1], k>>] # "none"
    <3>1. Together(o[1]) /\ o = <<o[1], o[2]>> /\ bstate[o] = "new"
      BY <1>2, OrderParts DEF Reject
    <3> QED BY <3>1 DEF Together, E, IsEntry
  <2>2. \A p \in {o[1]} \X Legs : p = <<o[1], p[2]>> /\ p[2] \in Legs
    OBVIOUS
  <2> QED BY <1>2, <2>1, <2>2 DEF Reject
<1> QED BY <1>1, <1>2

LEMMA SentMoves ==
  ASSUME JInv, Next
  PROVE  \/ pc = "request" /\ Accept(cur)
         \/ \A o \in Orders : bstate'[o] = "none" <=> bstate[o] = "none"
<1> USE DEF JInv
<1>1. CASE UNCHANGED bstate
  BY <1>1
<1>3. ASSUME NEW o \in Orders, Fills(o) \/ CancelTakesEffect(o) \/ Reject(o) \/ Expire(o)
      PROVE  \A p \in Orders : bstate'[p] = "none" <=> bstate[p] = "none"
  BY <1>3, BrokerSent
<1>4. Request \/ Crash => UNCHANGED bstate \/ (pc = "request" /\ Accept(cur))
  BY DEF Request, Crash, broker
<1>5. WorkerStep /\ ~Request => UNCHANGED bstate
  BY DEF WorkerStep, Send, DiscoverLegs, ApplyLeg, reconcile, sync_order, synced, cancel_flatten_entry, 
         cancels_sent, observe, tick, ticked, close_position, close_decision, cancel_active, active_canceled, broker
<1>6. SessionClock \/ (\E e \in Entries : open_position(e)) => UNCHANGED bstate
  BY DEF SessionClock, open_position, broker
<1> QED BY <1>1, <1>3, <1>4, <1>5, <1>6 DEF Next

LEMMA UnsentNext ==
  ASSUME JInv, Next
  PROVE  /\ \A o \in Orders : Unsent(o)'
         /\ \A e \in Entries : Together(e)'
<1> USE DEF JInv
<1>1. CASE \A o \in Orders : bstate'[o] = "none" <=> bstate[o] = "none"
  <2>1. \A e \in Entries : Together(e)'
    <3>1. \A e \in Entries : E(e) \in Orders /\ \A k \in Legs : <<e, k>> \in Orders
      BY DEF Orders, Kinds, E
    <3> QED BY <1>1, <3>1 DEF Together, E
  <2>2. \A o \in Orders : Unsent(o)'
    BY <1>1, RowMoves DEF Unsent, RowMove, Intended
  <2> QED BY <2>1, <2>2
<1>2. CASE pc = "request" /\ Accept(cur)
  <2>1. cur \in Orders /\ ~IsLeg(cur) /\ ostate[cur] = "unresolved"
    BY <1>2 DEF Control, Current, Processing
  <2>2. ostate'[cur] \notin {"absent", "pending_submission"}
    BY <2>1, RowMoves DEF RowMove, Intended
  <2>3. ASSUME NEW e \in Entries PROVE Together(e)'
    <3>1. E(e) \in Orders /\ \A k \in Legs : <<e, k>> \in Orders /\ <<e, k>>[1] = e /\ <<e, k>> # cur
      BY <2>1 DEF IsLeg, Orders, Kinds, E
    <3>2. CASE cur = E(e)
      BY <1>2, <3>1, <3>2 DEF Accept, IsEntry, E, Together
    <3>3. CASE cur # E(e)
      <4>1. IsEntry(cur) => cur[1] # e
        BY <2>1, <3>3, OrderParts DEF IsEntry, E
      <4>2. bstate'[E(e)] = "none" <=> bstate[E(e)] = "none"
        BY <1>2, <3>1, <3>3 DEF Accept, E, Legs
      <4>3. \A k \in Legs : bstate'[<<e, k>>] = "none" <=> bstate[<<e, k>>] = "none"
        BY <1>2, <3>1, <4>1 DEF Accept
      <4> QED BY <4>2, <4>3 DEF Together, E
    <3> QED BY <3>2, <3>3
  <2>4. ASSUME NEW o \in Orders PROVE Unsent(o)'
    <3>1. IsLeg(o) => ostate'[o] # "pending_submission"
      BY RowMoves DEF RowMove, Intended, Unsent
    <3>2. ~IsLeg(o) /\ ostate'[o] \in {"absent", "pending_submission"} => bstate'[o] = "none"
      <4>1. SUFFICES ASSUME ~IsLeg(o), ostate'[o] \in {"absent", "pending_submission"}
                     PROVE  bstate'[o] = "none"
        OBVIOUS
      <4>2. bstate[o] = "none" /\ o # cur
        BY <2>2, <4>1, RowMoves DEF RowMove, Intended, Unsent
      <4>3. o \notin {cur[1]} \X Legs
        BY <4>1 DEF IsLeg
      <4> QED BY <1>2, <4>2, <4>3 DEF Accept
    <3> QED BY <3>1, <3>2 DEF Unsent, IsLeg
  <2> QED BY <2>3, <2>4
<1> QED BY <1>1, <1>2, SentMoves

LEMMA CurrentNext ==
  ASSUME JInv, Types', Next
  PROVE  Current'
<1> USE DEF JInv
<1>1. CASE Send
  <2>1. cur \in Orders /\ ~IsLeg(cur) /\ bstate[cur] = "none"
    BY <1>1 DEF Send, Control, Processing, Current, Unsent
  <2> QED BY <1>1, <2>1 DEF Send, Current, Linking, IsLeg, broker, Types, JournalTypes
<1>2. ASSUME NEW e \in Entries, open_position(e) PROVE Current'
  BY <1>2, KindsOfOrders DEF open_position, Current, Linking, Kinds, Types, JournalTypes
<1>3. CASE Request
  <2>1. cur \in Orders /\ pc = "request"
    BY <1>3 DEF Request, Control, Processing
  <2>2. CASE Back
    BY <2>2 DEF Back, Current, Linking, Types, MemoryTypes
  <2>3. CASE Accept(cur) /\ ApplyOrderState(cur, "new", 0, requested[cur]) /\ IsEntry(cur)
             /\ pc' = "link" /\ snapshot' = NestedLegs(cur[1]) /\ UNCHANGED cur
    <3>1. \A k \in Legs : bstate'[<<cur[1], k>>] # "none"
      BY <2>1, <2>3, OrderParts DEF Accept
    <3>2. \A k \in Legs : snapshot'[k].state \in Working \cup Terminal
      BY <2>1, <2>3, <3>1, NestedTypes, OrderParts DEF Types
    <3>3. ostate'[cur] = "new"
      BY <2>1, <2>3 DEF ApplyOrderState, Types, JournalTypes
    <3> QED BY <2>3, <3>2, <3>3 DEF Current, Linking, Uncertain, IsEntry
  <2> QED BY <1>3, <2>2, <2>3 DEF Request, Back
<1>4. CASE DiscoverLegs
  <2>1. cur \in Orders /\ pc = "link" /\ IsEntry(cur)
    BY <1>4 DEF DiscoverLegs, Control, Processing, Current, Linking
  <2>2. cur \notin {cur[1]} \X Legs
    BY <2>1 DEF IsEntry, Legs
  <2>3. ostate'[cur] = ostate[cur]
    BY <1>4, <2>1, <2>2 DEF DiscoverLegs
  <2>4. \A k \in Legs : ostate'[Leg(cur, k)] # "absent"
    BY <1>4, <2>1, OrderParts DEF DiscoverLegs, Leg
  <2> QED BY <1>4, <2>1, <2>3, <2>4 DEF DiscoverLegs, Current, Linking, Uncertain, IsEntry, Leg
<1>5. ASSUME NEW k \in Legs, ApplyLeg(k) PROVE Current'
  <2>1. CASE Back
    BY <2>1 DEF Back, Current, Linking, Types, MemoryTypes
  <2>2. CASE ~Back
    <3>1. pc = "leg_target" /\ pc' = "leg_stop" /\ UNCHANGED <<cur, snapshot>>
          /\ ApplyOrderState(Leg(cur, k), snapshot[k].state, snapshot[k].filled, snapshot[k].qty)
      BY <1>5, <2>2 DEF ApplyLeg, LegStep, Legs
    <3>2. cur \in Orders /\ IsEntry(cur)
      BY <3>1 DEF Control, Processing, Current, Linking
    <3>3. Leg(cur, k) # cur
      BY <3>2 DEF IsEntry, Leg, Legs
    <3>4. ostate'[cur] = ostate[cur]
      BY <3>1, <3>2, <3>3 DEF ApplyOrderState, Types, JournalTypes
    <3>5. \A l \in Legs : ostate'[Leg(cur, l)] # "absent"
      BY <3>1, <3>2, KnownStays, OrderParts DEF Current, Leg
    <3> QED BY <3>1, <3>2, <3>4, <3>5 DEF Current, Linking, Uncertain, IsEntry, Leg
  <2> QED BY <2>1, <2>2
<1>6. ASSUME NEW o \in Orders, sync_order(o) PROVE Current'
  <2>1. CASE UNCHANGED pc
    BY <1>6, <2>1 DEF sync_order, Current, Linking
  <2>2. CASE pc' = "send"
    <3>1. ostate[o] = "pending_submission" /\ cur' = o /\ UNCHANGED ostate
      BY <1>6, <2>2 DEF sync_order, Fetch
    <3> QED BY <2>2, <3>1 DEF Current, Linking
  <2>3. CASE pc' = "link"
    <3>1. /\ bstate[o] # "none" /\ ApplyOrderState(o, bstate[o], filled[o], bqty[o])
          /\ IsEntry(o) /\ cur' = o /\ snapshot' = NestedLegs(o[1]) /\ UNCHANGED broker
      BY <1>6, <2>3 DEF sync_order, Fetch
    <3>2. ostate'[o] \in Working \cup Terminal
      BY <3>1 DEF ApplyOrderState, Types, JournalTypes, BrokerTypes
    <3>3. E(o[1]) = o /\ o[1] \in Entries
      BY <3>1, OrderParts DEF E, IsEntry
    <3>4. \A k \in Legs : bstate'[<<o[1], k>>] # "none"
      BY <3>1, <3>3 DEF Together, broker
    <3>5. \A k \in Legs : snapshot'[k].state \in Working \cup Terminal
      BY <3>1, <3>3, <3>4, NestedTypes DEF Types
    <3> QED BY <2>3, <3>1, <3>2, <3>5 DEF Current, Linking, Uncertain, IsEntry, Working, Terminal
  <2> QED BY <1>6, <2>1, <2>2, <2>3 DEF sync_order, Fetch
<1>7. CASE close_decision
  <2>1. CASE pc' = "send"
    <3>1. Closing \in Entries
      BY <1>7 DEF Closing, Types, MemoryTypes, close_decision, Control
    <3>2. PICK k \in ExitKinds : ostate' = [ostate EXCEPT ![<<Closing, k>>] = "pending_submission"]
                                 /\ cur' = <<Closing, k>>
      BY <1>7, <2>1 DEF close_decision, GiveUp
    <3>3. <<Closing, k>> \in Orders
      BY <3>1 DEF Orders, Kinds
    <3> QED BY <2>1, <3>2, <3>3 DEF Current, Linking, Types, JournalTypes
  <2>2. CASE pc' # "send"
    <3>1. pc' \in {"cancel_legs", "next"}
      BY <1>7, <2>2 DEF close_decision, GiveUp
    <3> QED BY <3>1 DEF Current, Linking
  <2> QED BY <2>1, <2>2
<1>8. ASSUME NEW o \in Orders, Fills(o) \/ CancelTakesEffect(o) \/ Reject(o) \/ Expire(o)
      PROVE Current'
  <2>1. UNCHANGED <<ostate, pc, cur, snapshot>>
    BY <1>8, BrokerMoves
  <2>2. pc = "request" => bstate'[cur] = "none"
    BY <1>8, BrokerSent DEF Current, Control, Processing
  <2> QED BY <2>1, <2>2 DEF Current, Linking, Uncertain, IsLeg, IsEntry, Leg
<1>9. reconcile \/ synced \/ cancels_sent \/ observe \/ tick \/ ticked \/ close_position \/ active_canceled
      \/ (\E o \in Orders : cancel_flatten_entry(o) \/ cancel_active(o)) \/ SessionClock \/ Crash
      => pc' \in {"idle", "reconcile", "sync", "cancel", "observe", "next", "close", "cancel_legs"}
  BY DEF reconcile, synced, cancels_sent, observe, tick, ticked, close_position, active_canceled, GiveUp,
         cancel_flatten_entry, cancel_active, SessionClock, Crash, memory
<1>10. pc' \in {"idle", "reconcile", "sync", "cancel", "observe", "next", "close", "cancel_legs"} => Current'
  BY DEF Current, Linking
<1> QED BY <1>1, <1>2, <1>3, <1>4, <1>5, <1>6, <1>7, <1>8, <1>9, <1>10 DEF Next, WorkerStep

-----------------------------------------------------------------------------
(* The trades. *)

(* An exit fill finds a trade that is open. *)
LEMMA ApplyTrades ==
  ASSUME JInv, Next, NEW o \in Orders, NEW s, NEW q \in Int, NEW size, ApplyOrderState(o, s, q, size),
         NEW e \in Entries
  PROVE  /\ Traded(e)'
         /\ trade'[e] # trade[e] => e = o[1] /\ (trade'[e] = "open" => IsEntry(o))
<1> USE DEF JInv
<1>0. o[1] \in Entries /\ o[2] \in Kinds /\ o = <<o[1], o[2]>> /\ E(e) \in Orders
  BY OrderParts DEF E, Orders, Kinds
<1>1. KnownLegs(e) = Legs => KnownLegs(e)' = Legs
  BY KnownStays
<1>2. \A k \in Kinds \ {"entry"} : linked'[<<e, k>>] => linked[<<e, k>>]
  <2>1. UNCHANGED linked \/ (linked' = [linked EXCEPT ![o] = TRUE] /\ IsEntry(o))
    BY DEF ApplyOrderState
  <2>2. \A k \in Kinds \ {"entry"} : <<e, k>> \in Orders /\ (IsEntry(o) => <<e, k>> # o)
    BY DEF Orders, IsEntry
  <2> QED BY <2>1, <2>2 DEF Types, JournalTypes
<1>3. applied[E(e)] \in Nat /\ applied[o] \in Nat /\ remaining[e] \in Nat /\ remaining[o[1]] \in Nat
      /\ trade[e] \in {"none", "open", "closed"}
  BY <1>0 DEF Types, JournalTypes
<1>4. Traded(e)
  OBVIOUS
<1>5. CASE q = applied[o]
  <2>1. UNCHANGED <<linked, trade, remaining>> 
    BY <1>3, <1>5 DEF ApplyOrderState
  <2>2. applied'[E(e)] = applied[E(e)]
    BY <1>0, <1>5 DEF ApplyOrderState, Types, JournalTypes
  <2> QED BY <1>1, <1>2, <1>4, <2>1, <2>2 DEF Traded, E
<1>6. CASE q > applied[o] /\ IsEntry(o)
  <2>1. /\ applied' = [applied EXCEPT ![o] = q]
        /\ trade' = [trade EXCEPT ![o[1]] = IF @ = "none" THEN "open" ELSE @]
        /\ remaining' = [remaining EXCEPT ![o[1]] = q]
    BY <1>3, <1>6 DEF ApplyOrderState
  <2>2. CASE e = o[1]
    <3>1. E(e) = o
      BY <1>0, <1>6, <2>2 DEF E, IsEntry
    <3>2. applied'[E(e)] = q /\ trade'[e] = (IF trade[e] = "none" THEN "open" ELSE trade[e])
      BY <1>0, <2>1, <2>2, <3>1 DEF Types, JournalTypes
    <3> QED BY <1>1, <1>2, <1>3, <1>4, <1>6, <2>2, <3>2 DEF Traded, E
  <2>3. CASE e # o[1]
    <3>1. applied'[E(e)] = applied[E(e)] /\ trade'[e] = trade[e] /\ remaining'[e] = remaining[e]
      BY <1>0, <2>1, <2>3 DEF Types, JournalTypes, E
    <3> QED BY <1>1, <1>2, <1>4, <2>3, <3>1 DEF Traded, E
  <2> QED BY <2>2, <2>3
<1>7. CASE q > applied[o] /\ ~IsEntry(o)
  <2>1. /\ applied' = [applied EXCEPT ![o] = q]
        /\ remaining' = [remaining EXCEPT ![o[1]] = @ - Delta(o, q)]
        /\ trade' = [trade EXCEPT ![o[1]] = IF remaining'[o[1]] = 0 THEN "closed" ELSE @]
    BY <1>3, <1>7 DEF ApplyOrderState
  <2>2. linked[o] /\ q - applied[o] <= remaining[o[1]]
    BY <1>3, <1>7 DEF ApplyOrderState, Fits, Delta
  <2>3. E(e) # o
    BY <1>7 DEF E, IsEntry
  <2>4. applied'[E(e)] = applied[E(e)]
    BY <1>0, <2>1, <2>3 DEF Types, JournalTypes
  <2>5. CASE e = o[1]
    <3>1. trade[e] # "none" /\ remaining[e] > 0
      BY <1>3, <1>4, <1>7, <2>2, <2>5 DEF Traded
    <3>2. trade'[e] \in {trade[e], "closed"}
      BY <1>0, <2>1, <2>5 DEF Types, JournalTypes
    <3>3. KnownLegs(e) = Legs
      BY <1>0, <1>4, <1>7, <2>2, <2>5 DEF Traded, IsEntry
    <3> QED BY <1>1, <1>2, <1>3, <1>4, <2>4, <2>5, <3>1, <3>2, <3>3 DEF Traded, E
  <2>6. CASE e # o[1]
    <3>1. trade'[e] = trade[e] /\ remaining'[e] = remaining[e]
      BY <1>0, <2>1, <2>6 DEF Types, JournalTypes
    <3> QED BY <1>1, <1>2, <1>4, <2>4, <2>6, <3>1 DEF Traded, E
  <2> QED BY <2>5, <2>6
<1> QED BY <1>3, <1>5, <1>6, <1>7 DEF ApplyOrderState

(* Every other step leaves the trades alone, and links an order only when  *)
(* both legs are known.                                                    *)
LEMMA QuietTrades ==
  ASSUME JInv, Next, UNCHANGED <<applied, trade, remaining>>, NEW e \in Entries,
         \A k \in Kinds \ {"entry"} : linked'[<<e, k>>] => linked[<<e, k>>] \/ KnownLegs(e)' = Legs
  PROVE  Traded(e)'
<1>1. KnownLegs(e) = Legs => KnownLegs(e)' = Legs
  BY KnownStays
<1> QED BY <1>1 DEF JInv, Traded, E

ApplyStep(o) == \E s \in OrderStates, q, size \in Int : ApplyOrderState(o, s, q, size)

(* Which steps touch a trade. *)
LEMMA TradeMoves ==
  ASSUME JInv, Next
  PROVE  \/ UNCHANGED <<applied, trade, remaining>>
         \/ \E o \in Orders : InHand(o) /\ ApplyStep(o)
<1> USE DEF JInv
<1>1. CASE Request
  <2>1. cur \in Orders /\ InHand(cur) /\ requested[cur] \in Int
    BY <1>1 DEF Request, Control, Processing, InHand, Types, JournalTypes
  <2>2. ApplyOrderState(cur, "new", 0, requested[cur]) \/ MarkUnresolved(cur)
    BY <1>1 DEF Request
  <2> QED BY <2>1, <2>2 DEF ApplyStep, MarkUnresolved, trades, OrderStates, Working
<1>2. ASSUME NEW k \in Legs, ApplyLeg(k)
      PROVE  UNCHANGED <<applied, trade, remaining>> \/ \E o \in Orders : InHand(o) /\ ApplyStep(o)
  <2>1. pc \in {"leg_target", "leg_stop"}
    BY <1>2 DEF ApplyLeg, LegStep, Legs
  <2>2. Leg(cur, k) \in Orders /\ InHand(Leg(cur, k))
    BY <2>1, OrderParts DEF Leg, Control, Processing, Linking, InHand, IsLeg
  <2>3. MarkUnresolved(cur) \/ ApplyStep(Leg(cur, k))
    <3>1. snapshot[k].state \in OrderStates /\ snapshot[k].filled \in Int /\ snapshot[k].qty \in Int
      BY DEF Types, MemoryTypes
    <3>2. \/ MarkUnresolved(cur)
          \/ ApplyOrderState(Leg(cur, k), snapshot[k].state, snapshot[k].filled, snapshot[k].qty)
      BY <1>2 DEF ApplyLeg
    <3> QED BY <3>1, <3>2 DEF ApplyStep
  <2> QED BY <2>2, <2>3 DEF MarkUnresolved, trades
<1>3. ASSUME NEW o \in Orders, sync_order(o)
      PROVE  UNCHANGED <<applied, trade, remaining>> \/ (InHand(o) /\ ApplyStep(o))
  <2>1. InHand(o)
    BY <1>3 DEF sync_order, First, InHand
  <2>2. CASE ostate[o] = "pending_submission" 
    BY <1>3, <2>2 DEF sync_order, trades
  <2>3. CASE Fetch(o)
    <3>1. MarkUnresolved(o) \/ ApplyStep(o)
      BY <2>3, ReportTypes DEF Fetch, ApplyStep
    <3> QED BY <2>1, <3>1 DEF MarkUnresolved, trades
  <2> QED BY <1>3, <2>2, <2>3 DEF sync_order
<1>4. ASSUME NEW o \in Orders, cancel_flatten_entry(o) \/ cancel_active(o)
      PROVE  UNCHANGED <<applied, trade, remaining>>
  BY <1>4 DEF cancel_flatten_entry, cancel_active, MarkUnresolved, journal, orders, trades
<1>5. ASSUME NEW o \in Orders, Fills(o) \/ CancelTakesEffect(o) \/ Reject(o) \/ Expire(o)
      PROVE UNCHANGED <<applied, trade, remaining>>
  BY <1>5, BrokerMoves
<1>6. Send \/ DiscoverLegs \/ (\E e \in Entries : open_position(e)) \/ close_decision
      \/ reconcile \/ synced \/ cancels_sent \/ observe \/ tick \/ ticked \/ close_position 
      \/ active_canceled \/ SessionClock \/ Crash => UNCHANGED <<applied, trade, remaining>>
  BY DEF Send, DiscoverLegs, open_position, close_decision, 
         reconcile, synced, cancels_sent, observe, tick, ticked, close_position, active_canceled, SessionClock,
         Crash, journal, orders, trades
<1> QED BY <1>1, <1>2, <1>3, <1>4, <1>5, <1>6 DEF Next, WorkerStep

(* Which steps link an order. *)
LEMMA LinkMoves ==
  ASSUME JInv, Next, NEW e \in Entries, NEW k \in Kinds \ {"entry"}, linked'[<<e, k>>], ~linked[<<e, k>>]
  PROVE  KnownLegs(e)' = Legs
<1> USE DEF JInv
<1>0. <<e, k>> \in Orders /\ linked' # linked
  BY DEF Orders
<1>1. CASE DiscoverLegs
  <2>1. cur \in Orders
    BY <1>1 DEF DiscoverLegs, Control, Processing
  <2>2. e = cur[1]
    BY <1>0, <1>1 DEF DiscoverLegs
  <2>3. \A l \in Legs : ostate'[<<e, l>>] # "absent"
    BY <1>1, <2>1, <2>2, OrderParts DEF DiscoverLegs
  <2> QED BY <2>3 DEF KnownLegs
<1>2. CASE close_decision
  <2>1. Closing \in Entries
    BY <1>2 DEF Closing, Types, MemoryTypes, close_decision, Control
  <2>2. KnownLegs(Closing) = Legs /\ \E l \in ExitKinds : linked' = [linked EXCEPT ![<<Closing, l>>] = TRUE]
    BY <1>0, <1>2 DEF close_decision, orders
  <2>3. e = Closing
    BY <1>0, <2>1, <2>2 DEF Types, JournalTypes
  <2> QED BY <2>2, <2>3, KnownStays
<1>3. ASSUME NEW o \in Orders, NEW s, NEW q, NEW size, ApplyOrderState(o, s, q, size)
      PROVE  FALSE
  <2>1. linked' = [linked EXCEPT ![o] = TRUE] /\ IsEntry(o)
    BY <1>0, <1>3 DEF ApplyOrderState
  <2>2. o # <<e, k>>
    BY <2>1 DEF IsEntry
  <2> QED BY <1>0, <2>1, <2>2 DEF Types, JournalTypes
<1>4. ASSUME NEW o \in Orders, MarkUnresolved(o) PROVE FALSE
  BY <1>0, <1>4 DEF MarkUnresolved
<1>5. CASE Request \/ (\E l \in Legs : ApplyLeg(l)) \/ \E o \in Orders : sync_order(o)
  <2>1. ASSUME NEW l \in Legs, ApplyLeg(l) PROVE cur \in Orders /\ Leg(cur, l) \in Orders
    <3>1. pc \in {"leg_target", "leg_stop"}
      BY <2>1 DEF ApplyLeg, LegStep, Legs
    <3> QED BY <3>1, OrderParts DEF Leg, Control, Processing
  <2>2. Request => cur \in Orders
    BY DEF Request, Control, Processing
  <2> QED BY <1>0, <1>3, <1>4, <1>5, <2>1, <2>2 DEF Request, ApplyLeg, sync_order, Fetch
<1>6. ASSUME NEW o \in Orders, cancel_flatten_entry(o) \/ cancel_active(o) PROVE FALSE
  BY <1>0, <1>6 DEF cancel_flatten_entry, cancel_active, MarkUnresolved, journal, orders
<1>7. ASSUME NEW o \in Orders, Fills(o) \/ CancelTakesEffect(o) \/ Reject(o) \/ Expire(o)
      PROVE FALSE
  BY <1>0, <1>7, BrokerMoves
<1>8. Send \/ (\E f \in Entries : open_position(f))
      \/ reconcile \/ synced \/ cancels_sent \/ observe \/ tick \/ ticked \/ close_position 
      \/ active_canceled \/ SessionClock \/ Crash => UNCHANGED linked
  BY DEF Send, open_position, 
         reconcile, synced, cancels_sent, observe, tick, ticked, close_position, active_canceled, SessionClock,
         Crash, journal, orders
<1> QED BY <1>0, <1>1, <1>2, <1>5, <1>6, <1>7, <1>8 DEF Next, WorkerStep

LEMMA TradedNext ==
  ASSUME JInv, Next, NEW e \in Entries
  PROVE  Traded(e)'
<1>1. CASE UNCHANGED <<applied, trade, remaining>>
  BY <1>1, QuietTrades, LinkMoves
<1>2. CASE \E o \in Orders : ApplyStep(o)
  BY <1>2, ApplyTrades DEF ApplyStep
<1> QED BY <1>1, <1>2, TradeMoves

-----------------------------------------------------------------------------
(* One entry at a time. *)

LEMMA TwoLegs == Cardinality(Legs) = 2
<1>1. IsFiniteSet({"target"}) /\ Cardinality({"target"}) = 1
  BY FS_Singleton
<1>2. Legs = {"target"} \cup {"stop"} /\ "stop" \notin {"target"}
  BY DEF Legs
<1> QED BY <1>1, <1>2, FS_AddElement

LEMMA InHandTaken ==
  ASSUME NEW o \in Orders, JInv, InHand(o)
  PROVE  Taken(o[1])
<1>1. o \in Rows(o[1])
  BY OrderParts
<1>2. CASE o \in todo \/ o = cur
  BY <1>1, <1>2 DEF Taken
<1>3. CASE pc \in Linking /\ o[1] = cur[1]
  <2>1. cur \in Orders
    BY <1>3 DEF JInv, Control, Processing, Linking
  <2> QED BY <1>3, <2>1, OrderParts DEF Taken
<1> QED BY <1>2, <1>3 DEF InHand

LEMMA OpenTaken ==
  ASSUME NEW o \in Orders, Open(o)
  PROVE  Taken(o[1])
  BY OrderParts DEF Taken

(* The reconcile of an order finds it open, or its trade.  *)
LEMMA SyncedTaken ==
  ASSUME JInv, NEW o \in Orders, needs_broker_sync(o)
  PROVE  Taken(o[1])
<1>1. CASE Open(o)
  BY <1>1, OpenTaken
<1>2. CASE IsEntry(o) /\ applied[o] > 0 /\ Cardinality(KnownLegs(o[1])) # 2
  <2>1. o[1] \in Entries /\ E(o[1]) = o
    BY <1>2, OrderParts DEF E, IsEntry
  <2>2. trade[o[1]] # "none" /\ trade[o[1]] # "closed"
    BY <1>2, <2>1, TwoLegs DEF JInv, Traded
  <2> QED BY <2>1, <2>2 DEF Taken, JInv, Types, JournalTypes
<1> QED BY <1>1, <1>2 DEF needs_broker_sync

LEMMA HandMoves ==
  ASSUME JInv, Next, NEW o \in Orders, o \in todo' \/ o = cur'
  PROVE  Taken(o[1]) \/ open_position(o[1])
<1> USE DEF JInv
<1>1. CASE o \in todo \/ o = cur
  BY <1>1, InHandTaken DEF InHand
<1>2. CASE reconcile
  BY <1>1, <1>2, SyncedTaken DEF reconcile
<1>3. CASE synced
  BY <1>1, <1>3, OpenTaken DEF synced, FlattenCancels
<1>4. ASSUME NEW p \in Orders, sync_order(p) PROVE Taken(o[1])
  <2>1. todo' \subseteq todo /\ p \in todo
    BY <1>4 DEF sync_order, First
  <2>2. cur' \in {cur, p}
    BY <1>4 DEF sync_order, Fetch
  <2> QED BY <1>1, <2>1, <2>2, InHandTaken DEF InHand
<1>5. ASSUME NEW e \in Entries, open_position(e) PROVE o \in todo \/ o = cur \/ open_position(o[1])
  <2>1. cur' = <<e, "entry">> /\ todo' = todo
    BY <1>5 DEF open_position
  <2>2. o = cur' => o[1] = e
    BY <2>1
  <2> QED BY <1>5, <2>1, <2>2
<1>6. CASE close_decision
  <2>1. Closing \in Entries
    BY <1>6 DEF Closing, Types, MemoryTypes, close_decision, Control
  <2>2. todo' \in {todo, ActiveFor(Closing)}
    BY <1>6 DEF close_decision
  <2>3. o \in ActiveFor(Closing) => Taken(o[1])
    BY OpenTaken DEF ActiveFor, OpenOrders
  <2>4. cur' = cur \/ (trade[Closing] = "open" /\ \E k \in ExitKinds : cur' = <<Closing, k>>)
    BY <1>6 DEF close_decision
  <2> QED BY <1>1, <2>1, <2>2, <2>3, <2>4 DEF Taken
<1>7. ASSUME NEW p \in Orders, Fills(p) \/ CancelTakesEffect(p) \/ Reject(p) \/ Expire(p)
      PROVE UNCHANGED <<todo, cur>>
  BY <1>7, BrokerMoves
<1>8. ASSUME NEW p \in Orders, cancel_flatten_entry(p) \/ cancel_active(p)
      PROVE  todo' \subseteq todo /\ UNCHANGED cur
  BY <1>8 DEF cancel_flatten_entry, cancel_active
<1>9. Send \/ Request \/ DiscoverLegs \/ (\E k \in Legs : ApplyLeg(k))
      \/ cancels_sent \/ observe \/ tick \/ ticked \/ close_position \/ active_canceled \/ SessionClock 
      => UNCHANGED todo /\ cur' \in {cur, NoOrder}
  BY DEF Send, Request, DiscoverLegs, ApplyLeg, Back, cancels_sent, observe, tick, ticked, close_position,
         active_canceled, SessionClock, memory
<1>10. Crash => todo' = {} /\ cur' = NoOrder
  BY DEF Crash
<1> QED BY <1>1, <1>2, <1>3, <1>4, <1>5, <1>6, <1>7, <1>8, <1>9, <1>10, NoOrderIsNone DEF Next, WorkerStep

(* An entry takes its ticker in open_position, and in no other step. *)
LEMMA TakenMoves ==
  ASSUME JInv, Next, NEW e \in Entries, Taken(e)'
  PROVE  Taken(e) \/ open_position(e)
<1>1. CASE trade'[e] = "open"
  <2>1. CASE UNCHANGED trade
    BY <1>1, <2>1 DEF Taken
  <2>2. ASSUME NEW o \in Orders, InHand(o), ApplyStep(o) PROVE Taken(e)
    <3>1. CASE trade[e] = "open"
      BY <3>1 DEF Taken
    <3>2. CASE trade[e] # "open"
      <4>1. e = o[1]
        BY <1>1, <2>2, <3>2, ApplyTrades DEF ApplyStep
      <4> QED BY <2>2, <4>1, InHandTaken
    <3> QED BY <3>1, <3>2
  <2> QED BY <2>1, <2>2, TradeMoves
<1>2. ASSUME NEW o \in Rows(e)', Open(o)' PROVE Taken(e) \/ open_position(e)
  <2>1. o \in Orders /\ o[1] = e
    BY <1>2 DEF Rows, Orders
  <2>2. CASE ostate'[o] = ostate[o]
    BY <1>2, <2>1, <2>2, OpenTaken DEF Open
  <2>3. CASE InHand(o)
    BY <2>1, <2>3, InHandTaken
  <2>4. CASE Intended(o)
    BY <2>1, <2>4, HandMoves DEF Intended
  <2> QED BY <2>1, <2>2, <2>3, <2>4, RowMoves DEF RowMove
<1>3. ASSUME NEW o \in Rows(e)', o \in todo' \/ o = cur' PROVE Taken(e) \/ open_position(e)
  <2>1. o \in Orders /\ o[1] = e
    BY <1>3 DEF Rows, Orders
  <2> QED BY <1>3, <2>1, HandMoves
<1> QED BY <1>1, <1>2, <1>3 DEF Taken

(* No entry of a ticker has taken it when another opens. *)
LEMMA OpensFree ==
  ASSUME JInv, NEW e \in Entries, open_position(e), NEW f \in Entries, TickerOf[f] = TickerOf[e]
  PROVE  ~Taken(f)
<1>1. todo = {} /\ cur \notin Orders
  BY DEF open_position, JInv, Control, Processing
<1>2. trade[f] # "open"
  BY DEF open_position, has_open, OpenTrades
<1>3. ASSUME NEW o \in Rows(f) PROVE ~Open(o) /\ o \in Orders
  <2>1. o \in Orders /\ o[1] = f
    BY DEF Rows, Orders
  <2> QED BY <2>1 DEF open_position, has_open, OpenOrders, Ticker
<1> QED BY <1>1, <1>2, <1>3 DEF Taken

LEMMA OneTakenNext ==
  ASSUME JInv, Next
  PROVE  OneTaken'
<1>1. SUFFICES ASSUME NEW e \in Entries, NEW f \in Entries, Taken(e)', Taken(f)', TickerOf[e] = TickerOf[f]
               PROVE  e = f
  BY DEF OneTaken
<1>2. (Taken(e) \/ open_position(e)) /\ (Taken(f) \/ open_position(f))
  BY <1>1, TakenMoves
<1>3. CASE Taken(e) /\ Taken(f)
  BY <1>1, <1>3 DEF JInv, OneTaken
<1>4. CASE open_position(e)
  <2>1. ~Taken(f)
    BY <1>1, <1>4, OpensFree
  <2>2. open_position(f)
    BY <1>2, <2>1
  <2>3. cur' = <<e, "entry">> /\ cur' = <<f, "entry">>
    BY <1>4, <2>2 DEF open_position
  <2> QED BY <2>3
<1>5. CASE open_position(f)
  <2>1. ~Taken(e)
    BY <1>1, <1>5, OpensFree
  <2>2. open_position(e)
    BY <1>2, <2>1
  <2> QED BY <1>4, <2>2
<1> QED BY <1>2, <1>3, <1>4, <1>5

(* Whatever is uncertain after a step was uncertain before it, or has just *)
(* been found to be: then the worker is blocked, or it is the next to send.*)
LEMMA CertainNext ==
  ASSUME JInv, Types', Next
  PROVE  Certain'
<1> USE DEF JInv
<1> SUFFICES ASSUME pc' # "reconcile", NEW o \in Orders, Uncertain(o)'
             PROVE  \/ blocked'
                    \/ o = cur' /\ pc' \in {"send", "request"}
                    \/ o \in todo' /\ pc' \in {"sync"} \cup Processing
  BY DEF Certain
<1> DEFINE Fine == \/ blocked
                   \/ o = cur /\ pc \in {"send", "request"}
                   \/ o \in todo /\ pc \in {"sync"} \cup Processing
<1>0. pc # "reconcile" /\ ostate'[o] = ostate[o] => Fine
  BY DEF Certain, Uncertain
<1>1. CASE Send
  <2>1. cur \in Orders
    BY <1>1 DEF Send, Control, Processing
  <2> QED BY <1>0, <1>1, <2>1 DEF Send, Uncertain, Processing, Types, JournalTypes
<1>2. ASSUME NEW e \in Entries, open_position(e) PROVE Fine' \/ (o = cur' /\ pc' = "send")
  <2>1. o # <<e, "entry">> => ostate'[o] = ostate[o]
    BY <1>2 DEF open_position, Types, JournalTypes
  <2> QED BY <1>0, <1>2, <2>1 DEF open_position, Uncertain, Processing, Control
<1>3. CASE Request
  <2>1. cur \in Orders /\ pc = "request"
    BY <1>3 DEF Request, Control, Processing
  <2>2. CASE MarkUnresolved(cur)
    BY <2>2 DEF MarkUnresolved
  <2>3. CASE ApplyOrderState(cur, "new", 0, requested[cur]) /\ (pc' = "link" \/ Back)
             /\ UNCHANGED <<blocked, todo>>
    <3>1. o # cur /\ ostate'[o] = ostate[o]
      BY <2>1, <2>3 DEF ApplyOrderState, Uncertain, Types, JournalTypes
    <3>2. pc' = "link" \/ pc' = "sync" \/ todo = {}
      BY <2>1, <2>3 DEF Back, Control, Processing
    <3> QED BY <1>0, <2>1, <2>3, <3>1, <3>2 DEF Processing
  <2> QED BY <1>3, <2>2, <2>3 DEF Request
<1>4. CASE DiscoverLegs
  <2>1. ostate'[o] = ostate[o]
    BY <1>4 DEF DiscoverLegs, Uncertain
  <2> QED BY <1>0, <1>4, <2>1 DEF DiscoverLegs, Processing
<1>5. ASSUME NEW k \in Legs, ApplyLeg(k) 
      PROVE Fine' 
  <2>1. cur \in Orders /\ Leg(cur, k) \in Orders /\ pc \in Linking
    <3>1. pc \in {"leg_target", "leg_stop"}
      BY <1>5 DEF ApplyLeg, LegStep, Legs
    <3> QED BY <3>1, OrderParts DEF Leg, Control, Processing, Linking
  <2>2. CASE MarkUnresolved(cur)
    BY <2>2 DEF MarkUnresolved
  <2>3. CASE ApplyOrderState(Leg(cur, k), snapshot[k].state, snapshot[k].filled, snapshot[k].qty)
             /\ (pc' = "leg_stop" \/ Back) /\ UNCHANGED <<blocked, todo>>
    <3>1. snapshot[k].state \notin {"pending_submission", "unresolved"}
      BY <2>1 DEF Current, Working, Terminal
    <3>2. ostate'[o] = ostate[o]
      BY <2>1, <2>3, <3>1 DEF ApplyOrderState, Uncertain, Types, JournalTypes
    <3>3. pc' = "leg_stop" \/ pc' = "sync" \/ todo = {}
      BY <2>1, <2>3 DEF Back, Control, Processing, Linking
    <3> QED BY <1>0, <2>1, <2>3, <3>2, <3>3 DEF Processing, Linking
  <2> QED BY <1>5, <2>2, <2>3 DEF ApplyLeg
<1>6. CASE reconcile
  BY <1>6 DEF reconcile, needs_broker_sync, Open, Uncertain, Terminal, journal, orders
<1>7. ASSUME NEW p \in Orders, sync_order(p) PROVE Fine'
  <2>1. pc = "sync" /\ todo' = todo \ {p} /\ UNCHANGED task
    BY <1>7 DEF sync_order
  <2>2. CASE o # p
    <3>1. ostate'[o] = ostate[o]
      BY <1>7, <2>2 DEF sync_order, Fetch, ApplyOrderState, MarkUnresolved, Types, JournalTypes
    <3>2. o \in todo' \/ blocked
      BY <1>0, <2>1, <2>2, <3>1
    <3>3. blocked => blocked'
      BY <1>7 DEF sync_order, Fetch, MarkUnresolved
    <3>4. pc' \in {"sync"} \cup Processing
      BY <1>7, <2>1 DEF sync_order, Fetch, Processing
    <3> QED BY <3>2, <3>3, <3>4 
  <2>3. CASE o = p
    <3>1. CASE ostate[p] = "pending_submission"
      BY <1>7, <2>3, <3>1 DEF sync_order, Uncertain, Types, JournalTypes
    <3>2. CASE Fetch(p)
      <4>1. CASE MarkUnresolved(p)
        BY <4>1 DEF MarkUnresolved
      <4>2. CASE ApplyOrderState(p, bstate[p], filled[p], bqty[p])
        <5>1. ostate'[o] = bstate[p] 
          BY <2>3, <4>2 DEF ApplyOrderState, Types, JournalTypes
        <5> QED BY <5>1 DEF Uncertain, Types, BrokerTypes, Working, Terminal
      <4> QED BY <3>2, <4>1, <4>2 DEF Fetch
    <3> QED BY <1>7, <3>1, <3>2 DEF sync_order
  <2> QED BY <2>2, <2>3
<1>8. ASSUME NEW p \in Orders, cancel_flatten_entry(p) \/ cancel_active(p) PROVE Fine'
  <2>1. CASE UNCHANGED ostate
    <3>1. pc \in {"cancel", "cancel_legs"} /\ (blocked => blocked')
      <4>1. pc \in {"cancel", "cancel_legs"}
        BY <1>8 DEF cancel_flatten_entry, cancel_active
      <4>2. cancel_flatten_entry(p) => UNCHANGED blocked \/ blocked' = TRUE
        BY DEF cancel_flatten_entry, MarkUnresolved
      <4>3. cancel_active(p) => UNCHANGED blocked \/ blocked' = TRUE
        BY DEF cancel_active, MarkUnresolved
      <4> QED BY <1>8, <4>1, <4>2, <4>3
    <3>2. Fine
      BY <1>0, <2>1, <3>1
    <3> QED BY <3>1, <3>2 DEF Processing
  <2>2. CASE MarkUnresolved(p)
    BY <2>2 DEF MarkUnresolved
  <2> QED BY <1>8, <2>1, <2>2 DEF cancel_flatten_entry, cancel_active, journal, orders
<1>9. CASE observe
  <2>1. UNCHANGED ostate 
    BY <1>9 DEF observe, journal, orders
  <2>2. unsettled_orders
    BY <2>1 DEF unsettled_orders, Uncertain, Open, Terminal, Working
  <2> QED BY <1>9, <2>2 DEF observe
<1>10. CASE close_decision
  <2>1. Closing \in Entries
    BY <1>10 DEF Closing, Types, MemoryTypes, close_decision, Control
  <2>2. blocked => blocked'
    BY <1>10 DEF close_decision
  <2>3. CASE UNCHANGED ostate
    BY <1>0, <1>10, <2>2, <2>3 DEF close_decision, Processing
  <2>4. CASE ~UNCHANGED ostate
    <3>1. PICK k \in ExitKinds : ostate' = [ostate EXCEPT ![<<Closing, k>>] = "pending_submission"]
                                 /\ cur' = <<Closing, k>> /\ pc' = "send"
      BY <1>10, <2>4 DEF close_decision, orders
    <3>2. o # cur' => ostate'[o] = ostate[o]
      BY <3>1 DEF Types, JournalTypes
    <3> QED BY <1>0, <1>10, <2>2, <3>1, <3>2 DEF close_decision, Processing
  <2> QED BY <2>3, <2>4
<1>11. ASSUME NEW p \in Orders, Fills(p) \/ CancelTakesEffect(p) \/ Reject(p) \/ Expire(p)
      PROVE Fine'
  <2>1. UNCHANGED <<ostate, blocked, cur, pc, todo>>
    BY <1>11, BrokerMoves
  <2> QED BY <1>0, <2>1
<1>12. CASE synced \/ cancels_sent \/ ticked \/ active_canceled \/ SessionClock \/ close_position
  <2>1. UNCHANGED <<ostate, blocked>> /\ (pc = "sync" => todo = {}) 
        /\ pc \in {"sync", "cancel", "next", "cancel_legs", "idle"}
    BY <1>12 DEF synced, cancels_sent, ticked, active_canceled, SessionClock, close_position, journal, orders, memory
  <2> QED BY <1>0, <2>1 DEF Processing
<1>13. tick \/ Crash => pc' = "reconcile"
  BY DEF tick, Crash
<1> QED BY <1>1, <1>2, <1>3, <1>4, <1>5, <1>6, <1>7, <1>8, <1>9, <1>10, <1>11, <1>12, <1>13 DEF Next, WorkerStep

-----------------------------------------------------------------------------
(* The invariant of the journal. *)

LEMMA JInit == Init => JInv
<1> SUFFICES ASSUME Init PROVE JInv
  OBVIOUS
<1>1. Types
  <2>1. JournalTypes
    BY DEF Init, JournalTypes, OrderStates, NoQty
  <2>2. MemoryTypes
    BY SnapshotTypes DEF Init, MemoryTypes
  <2>3. BrokerTypes
    <3>1. 0 \in 0..MaxErrors /\ 0 \in 0..MaxCrashes
      BY BoundsAssumption
    <3>2. bstate \in [Orders -> {"none"} \cup Working \cup Terminal]
      BY DEF Init
    <3>3. filled \in [Orders -> Int] /\ bqty \in [Orders -> Int] /\ holding \in [Tickers -> Int]
      BY DEF Init
    <3>4. canceling \in [Orders -> BOOLEAN] /\ flatten_due \in BOOLEAN
      BY DEF Init
    <3> QED BY <3>1, <3>2, <3>3, <3>4 DEF Init, BrokerTypes
  <2> QED BY <2>1, <2>2, <2>3 DEF Types
<1>2. Control /\ Current /\ Certain
  BY NoOrderIsNone DEF Init, Control, Current, Certain, Processing, Linking
<1>3. ASSUME NEW e \in Entries PROVE Together(e) /\ Traded(e) /\ ~Taken(e)
  <2>1. \A k \in Kinds : <<e, k>> \in Orders
    BY DEF Orders
  <2>2. E(e) \in Orders /\ \A k \in Legs : <<e, k>> \in Orders
    BY DEF Orders, Kinds, E
  <2>3. Together(e) /\ Traded(e)
    BY <2>1, <2>2 DEF Init, Together, Traded
  <2>4. ~Taken(e)
    BY NoOrderIsNone DEF Init, Taken, Rows, Open, Orders
  <2> QED BY <2>3, <2>4
<1>4. \A o \in Orders : Unsent(o)
  BY DEF Init, Unsent
<1> QED BY <1>1, <1>2, <1>3, <1>4 DEF JInv, OneTaken

LEMMA JStutter ==
  ASSUME JInv, UNCHANGED vars
  PROVE  JInv'
  BY DEF JInv, Types, JournalTypes, MemoryTypes, BrokerTypes, Control, Current, Unsent, Together, Traded, OneTaken, 
         Taken, Certain, Uncertain, Open, KnownLegs, IsLeg, IsEntry, Leg, E, Rows,
         vars, journal, orders, trades, memory, broker, environment

LEMMA JNext ==
  ASSUME JInv, Next
  PROVE  JInv'
<1>1. Types'
  BY TypesNext
<1> QED BY <1>1, ControlNext, CurrentNext, UnsentNext, TradedNext, OneTakenNext, CertainNext DEF JInv

(* The worker has at most one entry of a ticker in hand, what it may send  *)
(* was never sent, and what it does not know blocks it.                    *)
THEOREM JournalInvariant == Spec => []JInv
<1>1. JInv /\ [Next]_vars => JInv'
  BY JNext, JStutter
<1> QED BY <1>1, JInit, PTL DEF Spec

(* A request that may have reached the broker is never sent again: what is *)
(* about to be sent is new to the broker, across every lost answer, crash  *)
(* and reconcile.                                                          *)
THEOREM NeverSentTwiceHolds == Spec => []NeverSentTwice
<1>1. JInv => NeverSentTwice
  BY DEF JInv, Current, NeverSentTwice
<1> QED BY <1>1, JournalInvariant, PTL

(* At most one entry of a ticker has an open trade or an open order.       *)
THEOREM OnePositionPerTickerHolds == Spec => []OnePositionPerTicker
<1>1. ASSUME JInv, NEW t \in Tickers
      PROVE  Cardinality({o[1] : o \in OpenOrders(t)} \cup OpenTrades(t)) <= 1
  <2> DEFINE S == {o[1] : o \in OpenOrders(t)} \cup OpenTrades(t)
  <2>1. ASSUME NEW e \in S PROVE e \in Entries /\ Taken(e) /\ TickerOf[e] = t
    <3>1. ASSUME NEW o \in OpenOrders(t), e = o[1] PROVE e \in Entries /\ Taken(e) /\ TickerOf[e] = t
      BY <3>1, OpenTaken, OrderParts DEF OpenOrders, Ticker
    <3>2. ASSUME e \in OpenTrades(t) PROVE e \in Entries /\ Taken(e) /\ TickerOf[e] = t
      BY <3>2 DEF OpenTrades, Taken
    <3> QED BY <3>1, <3>2
  <2>2. \A e, f \in S : e = f
    BY <1>1, <2>1 DEF JInv, OneTaken
  <2>3. S = {} \/ \E e : S = {e}
    <3> HIDE DEF S
    <3> QED BY <2>2
  <2>4. Cardinality(S) \in {0, 1}
    <3> HIDE DEF S
    <3> QED BY <2>3, FS_EmptySet, FS_Singleton
  <2> QED BY <2>4
<1>2. JInv => OnePositionPerTicker
  BY <1>1 DEF OnePositionPerTicker
<1> QED BY <1>2, JournalInvariant, PTL

(* While it is not known of any order whether it was sent, no entry of any *)
(* ticker is accepted.                                                     *)
THEOREM UncertainBlocksEntriesHolds == Spec => UncertainBlocksEntries
<1>1. ASSUME JInv, Next, NEW e \in Entries, ostate[<<e, "entry">>] = "absent",
             ostate'[<<e, "entry">>] # "absent", NEW o \in Orders
      PROVE  ostate[o] \notin {"pending_submission", "unresolved"}
  <2>1. <<e, "entry">> \in Orders /\ IsEntry(<<e, "entry">>) /\ ~IsLeg(<<e, "entry">>)
    BY DEF Orders, Kinds, IsEntry, IsLeg, Legs
  <2>2. ~InHand(<<e, "entry">>)
    BY <1>1, <2>1 DEF InHand, JInv, Control, Current, Processing, Linking
  <2>3. Intended(<<e, "entry">>)
    BY <1>1, <2>1, <2>2, RowMoves DEF RowMove
  <2>4. pc = "idle" /\ ~blocked
    <3>1. <<e, "entry">>[1] = e
      OBVIOUS
    <3>2. open_position(e)
      BY <2>1, <2>3, <3>1 DEF Intended
    <3> QED BY <3>2 DEF open_position
  <2> QED BY <1>1, <2>4 DEF JInv, Certain, Uncertain, Processing
<1>2. JInv /\ [Next]_vars => 
        [\A e \in Entries :
           ostate[<<e, "entry">>] = "absent" /\ ostate'[<<e, "entry">>] # "absent"
             => \A o \in Orders : ostate[o] \notin {"pending_submission", "unresolved"}]_vars
  BY <1>1
<1> QED BY <1>2, JournalInvariant, PTL DEF Spec, UncertainBlocksEntries

-----------------------------------------------------------------------------
(* The journal against the broker, and the account against both.           *)

Ended(o) == bstate[o] \notin Working
Unplaced(o) == Uncertain(o) /\ bstate[o] = "none"
Unfilled(o) == bqty[o] - filled[o]
Held(e) == holding[TickerOf[e]]

Quantities ==
  /\ applied \in [Orders -> 0..Qty]
  /\ requested \in [Orders -> 0..Qty]
  /\ broker_qty \in [Orders -> 0..Qty \cup {NoQty}]
  /\ remaining \in [Entries -> 0..Qty]
  /\ snapshot \in [Legs -> [state : OrderStates, filled : 0..Qty, qty : 0..Qty]]
  /\ filled \in [Orders -> 0..Qty]
  /\ bqty \in [Orders -> 0..Qty]

(* What the worker cancels was to be flattened or closed, and it calls the *)
(* account safe only after it has looked.                                  *)
Purpose ==
  /\ pc = "cancel" => \A o \in todo : flatten[o[1]]
  /\ pc = "cancel_legs" => \A o \in todo : Open(o) /\ o[1] = Closing
  /\ task = "close" => pending[Closing]
  /\ \/ pc \in {"sync", "cancel", "observe"}
     \/ pc \in Processing /\ task \notin {"entry", "exit"}
     => ~safe_to_flatten

(* The legs it was told of have not moved since if they had ended.         *)
Told ==
  pc \in Linking =>
    /\ bstate[cur] # "none"
    /\ task \in {"entry", "exit"} => ostate[cur] = "new"
    /\ \A k \in Legs :
         snapshot[k].state \in Terminal =>
           /\ bstate[Leg(cur, k)] = snapshot[k].state
           /\ filled[Leg(cur, k)] = snapshot[k].filled

(* What the journal calls ended has ended at the broker as well, with the  *)
(* same fills.                                                             *)
Row(o) ==
  /\ bstate[o] = "none" =>
       /\ filled[o] = 0 /\ applied[o] = 0
       /\ ostate[o] \in {"absent", "pending_submission", "unresolved"}
          \/ (IsEntry(o) /\ ostate[o] = "canceled")
  /\ bstate[o] # "none" /\ ostate[o] \in Terminal => bstate[o] = ostate[o] /\ applied[o] = filled[o]
  /\ IsLeg(o) /\ ostate[o] # "absent" => bstate[o] # "none"
  /\ IsEntry(o) /\ ostate[o] # "absent" => requested[o] = Qty
  /\ o[2] \in ExitKinds /\ ostate[o] # "absent" => linked[o] /\ pending[o[1]] /\ requested[o] >= 1
  /\ canceling[o] => flatten[o[1]] \/ pending[o[1]]

(* A bracket at the broker: the legs rest while the entry works.           *)
Shape(e) ==
  /\ bstate[E(e)] # "held"
  /\ bstate[E(e)] = "new" => filled[E(e)] = 0
  /\ bstate[E(e)] = "partially_filled" => InPieces
  /\ bstate[E(e)] \in {"new", "partially_filled"} =>
       /\ filled[E(e)] < Qty /\ bqty[E(e)] = Qty
       /\ \A k \in Legs : /\ bstate[<<e, k>>] \in {"held", "canceled"}
                          /\ filled[<<e, k>>] = 0 /\ bqty[<<e, k>>] = Qty
  /\ bstate[E(e)] \in Terminal =>
       /\ \A k \in Legs : bstate[<<e, k>>] # "held"
       /\ filled[E(e)] = 0 => \A k \in Legs : Ended(<<e, k>>)

(* Whatever works at the broker can fill no more than the position holds;  *)
(* a market exit is the last order of its entry that does.                 *)
Alone(o) == \A p \in Rows(o[1]) : p # o => Ended(p) /\ ~Unplaced(p)
Capacity(e) ==
  /\ bstate[E(e)] = "none" => Held(e) = 0
  /\ bstate[E(e)] \in {"new", "partially_filled"} => Held(e) = filled[E(e)]
  /\ bstate[E(e)] \in Terminal =>
       \A k \in Legs : ~Ended(<<e, k>>) => Unfilled(<<e, k>>) = Held(e) /\ Held(e) >= 1
ExitOK(o) ==
  /\ ~Ended(o) => /\ bstate[o] # "held" /\ Alone(o)
                  /\ Unfilled(o) = Held(o[1]) /\ Held(o[1]) >= 1
  /\ Unplaced(o) => Alone(o) /\ requested[o] = Held(o[1])
(* Until it is to be flattened or closed, what it holds is protected.      *)
Protected(e) ==
  ~flatten[e] /\ ~pending[e] =>
    /\ bstate[E(e)] \in {"new", "partially_filled"} => \A k \in Legs : bstate[<<e, k>>] = "held"
    /\ bstate[E(e)] = "filled" => Held(e) = 0 \/ \A k \in Legs : ~Ended(<<e, k>>)
Bracket(e) == Capacity(e) /\ (\A k \in ExitKinds : ExitOK(<<e, k>>)) /\ Protected(e)

(* The account between an observation and the next reconcile.              *)
Observed ==
  \/ pc \in {"idle", "next", "close", "cancel_legs"}
  \/ pc \in Processing /\ task \in {"entry", "exit"}
Free(t) == \A e \in Entries : TickerOf[e] = t => ~Taken(e)
Account ==
  /\ \A t \in Tickers : holding[t] >= 0
  /\ Observed /\ ~blocked => \A t \in Tickers : Free(t) => holding[t] = 0
  /\ pc = "close" /\ safe_to_flatten =>
       \A e \in Entries : trade[e] = "open" /\ KnownLegs(e) = Legs /\ OpenOrders(TickerOf[e]) = {}
                            => Held(e) = remaining[e]

AInv ==
  /\ JInv /\ Quantities /\ Purpose /\ Told
  /\ \A o \in Orders : Row(o)
  /\ \A e \in Entries : /\ Shape(e)
                        /\ trade[e] = "open" => remaining[e] >= 1
                        /\ Taken(e) => Bracket(e)
  /\ Account

(* The orders of an entry. *)
LEMMA RowsOf ==
  ASSUME NEW e \in Entries
  PROVE  /\ E(e) \in Orders /\ IsEntry(E(e)) /\ ~IsLeg(E(e)) /\ E(e)[1] = e /\ E(e)[2] = "entry"
         /\ E(e) \in Rows(e) /\ Ticker(E(e)) = TickerOf[e]
         /\ \A k \in Legs : /\ <<e, k>> \in Orders /\ <<e, k>> \in Rows(e) /\ <<e, k>> # E(e)
                            /\ IsLeg(<<e, k>>) /\ ~IsEntry(<<e, k>>) /\ k \notin ExitKinds
                            /\ <<e, k>>[1] = e /\ <<e, k>>[2] = k
         /\ \A k \in ExitKinds : /\ <<e, k>> \in Orders /\ <<e, k>> \in Rows(e) /\ <<e, k>> # E(e)
                                 /\ ~IsLeg(<<e, k>>) /\ ~IsEntry(<<e, k>>) /\ k \notin Legs
                                 /\ <<e, k>>[1] = e /\ <<e, k>>[2] = k
         /\ \A p \in Rows(e) : /\ p \in Orders /\ p[1] = e
                               /\ p = E(e) \/ (\E k \in Legs : p = <<e, k>>)
                                           \/ (\E k \in ExitKinds : p = <<e, k>>)
         /\ \A p \in Orders : p[1] = e => p \in Rows(e)
<1>1. /\ E(e) \in Orders /\ IsEntry(E(e)) /\ ~IsLeg(E(e)) /\ E(e)[1] = e /\ E(e)[2] = "entry"
      /\ E(e) \in Rows(e) /\ Ticker(E(e)) = TickerOf[e]
  BY DEF E, Orders, Kinds, IsEntry, IsLeg, Legs, Rows, Ticker
<1>2. ASSUME NEW k \in Legs
      PROVE  /\ <<e, k>> \in Orders /\ <<e, k>> \in Rows(e) /\ <<e, k>> # E(e)
             /\ IsLeg(<<e, k>>) /\ ~IsEntry(<<e, k>>) /\ k \notin ExitKinds
             /\ <<e, k>>[1] = e /\ <<e, k>>[2] = k
  BY KindsAssumption DEF E, Orders, Kinds, IsEntry, IsLeg, Legs, Rows
<1>3. ASSUME NEW k \in ExitKinds
      PROVE  /\ <<e, k>> \in Orders /\ <<e, k>> \in Rows(e) /\ <<e, k>> # E(e)
             /\ ~IsLeg(<<e, k>>) /\ ~IsEntry(<<e, k>>) /\ k \notin Legs
             /\ <<e, k>>[1] = e /\ <<e, k>>[2] = k
  BY KindsAssumption DEF E, Orders, Kinds, IsEntry, IsLeg, Legs, Rows
<1>4. ASSUME NEW p \in Rows(e)
      PROVE  /\ p \in Orders /\ p[1] = e
             /\ p = E(e) \/ (\E k \in Legs : p = <<e, k>>) \/ (\E k \in ExitKinds : p = <<e, k>>)
  BY DEF E, Orders, Kinds, Rows
<1>5. ASSUME NEW p \in Orders, p[1] = e PROVE p \in Rows(e)
  BY <1>5 DEF Orders, Rows
<1> QED BY <1>1, <1>2, <1>3, <1>4, <1>5

LEMMA KindOf ==
  ASSUME NEW o \in Orders
  PROVE  /\ o[1] \in Entries /\ o \in Rows(o[1]) /\ TickerOf[o[1]] \in Tickers /\ Ticker(o) = TickerOf[o[1]]
         /\ IsEntry(o) => o = E(o[1])
         /\ IsLeg(o) => o = <<o[1], o[2]>> /\ o[2] \in Legs
         /\ IsEntry(o) \/ IsLeg(o) \/ o[2] \in ExitKinds
  BY OrderParts, TickerAssumption DEF IsEntry, IsLeg, E, Ticker, Kinds

(* An order that works at the broker is open in the journal, or a leg that *)
(* the journal has not heard of. *)
LEMMA WorkingOpen ==
  ASSUME AInv, NEW o \in Orders, ~Ended(o)
  PROVE  Open(o) \/ (IsLeg(o) /\ ostate[o] = "absent")
<1>1. bstate[o] \in Working /\ Row(o) /\ Unsent(o)
  BY DEF AInv, JInv, Ended
<1> QED BY <1>1 DEF Row, Unsent, Open, Terminal, Working

(* What works at the broker belongs to the entry that has taken the ticker.*)
LEMMA WorkingTaken ==
  ASSUME AInv, NEW o \in Orders, ~Ended(o)
  PROVE  Taken(o[1])
<1> DEFINE e == o[1]
<1>1. e \in Entries /\ o \in Rows(e) /\ E(e) \in Orders
  BY OrderParts
<1>2. CASE Open(o)
  BY <1>2, OpenTaken
<1>3. CASE IsLeg(o) /\ ostate[o] = "absent"
  <2>1. o = <<e, o[2]>> /\ o[2] \in Legs
    BY <1>3, OrderParts DEF IsLeg
  <2>2. bstate[E(e)] # "none"
    <3>1. bstate[o] # "none"
      BY DEF Ended, Working
    <3> QED BY <1>1, <2>1, <3>1 DEF AInv, JInv, Together
  <2>3. IsEntry(E(e)) /\ ~IsLeg(E(e))
    BY DEF IsEntry, IsLeg, E, Legs
  <2>4. ostate[E(e)] # "absent"
    BY <1>1, <2>2, <2>3 DEF AInv, JInv, Unsent
  <2>5. CASE Open(E(e))
    <3>1. E(e)[1] = e
      BY DEF E
    <3> QED BY <1>1, <2>5, <3>1, OpenTaken
  <2>6. CASE ostate[E(e)] \in Terminal
    <3>1. bstate[E(e)] \in Terminal /\ applied[E(e)] = filled[E(e)]
      BY <1>1, <2>2, <2>6 DEF AInv, Row
    <3>2. filled[E(e)] # 0
      BY <1>1, <2>1, <3>1 DEF AInv, Shape
    <3>3. applied[E(e)] > 0
      BY <1>1, <3>1, <3>2 DEF AInv, JInv, Types, JournalTypes
    <3>4. KnownLegs(e) # Legs
      BY <1>3, <2>1 DEF KnownLegs
    <3>5. trade[e] = "open"
      BY <1>1, <3>3, <3>4 DEF AInv, JInv, Traded, Types, JournalTypes
    <3> QED BY <3>5 DEF Taken
  <2> QED BY <2>4, <2>5, <2>6 DEF Open
<1> QED BY <1>2, <1>3, WorkingOpen

LEMMA WorkingBracket ==
  ASSUME AInv, NEW o \in Orders, ~Ended(o)
  PROVE  /\ Taken(o[1]) /\ Bracket(o[1])
         /\ \A e \in Entries : Taken(e) /\ TickerOf[e] = Ticker(o) => e = o[1]
<1>1. o[1] \in Entries /\ Taken(o[1])
  BY WorkingTaken, OrderParts
<1> QED BY <1>1 DEF AInv, JInv, OneTaken, Ticker

-----------------------------------------------------------------------------
(* The moves of the broker. *)

Ranges(e) == \A p \in Rows(e) : filled[p] \in 0..Qty /\ bqty[p] \in 0..Qty
Kept(e) == Shape(e)' /\ Bracket(e)' /\ Ranges(e)' /\ Held(e)' >= 0

LEMMA RangesHold ==
  ASSUME AInv, NEW e \in Entries
  PROVE  /\ Ranges(e) /\ Held(e) \in Nat /\ TickerOf[e] \in Tickers
         /\ \A p \in Rows(e) : p \in Orders
  BY TickerAssumption, RowsOf DEF AInv, Quantities, Ranges, Held, Account, JInv, Types, BrokerTypes

LEMMA EntryFillsKeeps ==
  ASSUME AInv, NEW o \in Orders, EntryFills(o)
  PROVE  Kept(o[1])
<1> DEFINE e == o[1]
           n == IF InPieces THEN 1 ELSE bqty[o]
           full == filled[o] + n = bqty[o]
<1>1. e \in Entries /\ o = E(e) /\ bstate[o] \in {"new", "partially_filled"}
  BY KindOf DEF EntryFills
<1>2. ~Ended(o) /\ Shape(e) /\ Bracket(e)
  <2>1. ~Ended(o)
    BY <1>1 DEF Ended, Working
  <2> QED BY <1>1, <2>1, WorkingBracket DEF AInv
<1>3. /\ filled[o] \in Nat /\ filled[o] < Qty /\ bqty[o] = Qty /\ Held(e) = filled[o] /\ Qty \in Nat
      /\ \A k \in Legs : /\ bstate[<<e, k>>] \in {"held", "canceled"}
                         /\ filled[<<e, k>>] = 0 /\ bqty[<<e, k>>] = Qty
  BY <1>1, <1>2, QtyAssumption DEF Shape, Bracket, Capacity, AInv, Quantities
<1>4. n \in Nat /\ n >= 1 /\ filled[o] + n <= Qty /\ (~full => InPieces)
  BY <1>1, <1>2, <1>3, QtyAssumption DEF Shape
<1>5. \A k \in ExitKinds : Ended(<<e, k>>) /\ ~Unplaced(<<e, k>>)
  BY <1>1, <1>2, RowsOf DEF Bracket, ExitOK, Alone
<1>6. /\ filled'[o] = filled[o] + n /\ Held(e)' = Held(e) + n
      /\ bstate'[o] = IF full THEN "filled" ELSE "partially_filled"
      /\ \A p \in Rows(e) : p # o => filled'[p] = filled[p]
      /\ UNCHANGED <<bqty, ostate, flatten, pending, requested>>
  <2>1. UNCHANGED <<bqty, ostate, flatten, pending, requested>>
    BY DEF EntryFills, BrokerOnly, journal, orders, trades
  <2>2. filled' = [filled EXCEPT ![o] = @ + n] /\ holding' = [holding EXCEPT ![Ticker(o)] = @ + n]
        /\ bstate'[o] = IF full THEN "filled" ELSE "partially_filled"
    BY DEF EntryFills
  <2>3. filled \in [Orders -> Int] /\ holding \in [Tickers -> Int] /\ Ticker(o) = TickerOf[e]
        /\ TickerOf[e] \in Tickers
    BY <1>1, TickerAssumption DEF AInv, JInv, Types, BrokerTypes, Ticker
  <2> QED BY <1>1, <2>1, <2>2, <2>3, RowsOf DEF Held
<1>7. /\ \A k \in Legs : bstate'[<<e, k>>] = IF full /\ bstate[<<e, k>>] = "held" THEN "new" ELSE bstate[<<e, k>>]
      /\ \A k \in ExitKinds : bstate'[<<e, k>>] = bstate[<<e, k>>]
  <2>1. \A k \in Legs : <<e, k>> \in Orders /\ <<e, k>> # o /\ <<e, k>> \in {e} \X Legs
    BY <1>1, RowsOf
  <2>2. \A k \in ExitKinds : <<e, k>> \in Orders /\ <<e, k>> # o /\ <<e, k>> \notin {e} \X Legs
    BY <1>1, RowsOf
  <2> QED BY <2>1, <2>2 DEF EntryFills
<1> HIDE DEF n
<1>8. Shape(e)'
  BY <1>1, <1>3, <1>4, <1>6, <1>7, RowsOf DEF Shape, E, Ended, Working, Terminal
<1>9. Capacity(e)'
  BY <1>1, <1>3, <1>4, <1>6, <1>7, RowsOf DEF Capacity, E, Ended, Working, Terminal, Unfilled
<1>10. ASSUME NEW k \in ExitKinds PROVE ExitOK(<<e, k>>)'
  <2>1. Ended(<<e, k>>)' /\ ~Unplaced(<<e, k>>)'
    BY <1>5, <1>6, <1>7 DEF Ended, Unplaced, Uncertain
  <2> QED BY <2>1 DEF ExitOK
<1>11. Protected(e)'
  BY <1>1, <1>2, <1>3, <1>4, <1>6, <1>7 DEF Bracket, Protected, E, Ended, Working
<1>12. Ranges(e)' /\ Held(e)' >= 0
  BY <1>1, <1>3, <1>4, <1>6, RangesHold DEF Ranges, Rows
<1> QED BY <1>8, <1>9, <1>10, <1>11, <1>12 DEF Kept, Bracket

LEMMA SiblingOf ==
  ASSUME NEW e \in Entries, NEW k \in Legs
  PROVE  \E l \in Legs : /\ Sibling(<<e, k>>) = <<e, l>> /\ l # k
                         /\ \A m \in Legs : m = k \/ m = l
<1>1. \E l \in Legs : l # k
  BY DEF Legs
<1>2. PICK l \in Legs : l = CHOOSE m \in Legs : m # k
  BY <1>1
<1>3. l # k
  BY <1>1, <1>2
<1>4. \A m \in Legs : m = k \/ m = l
  BY <1>3 DEF Legs
<1> QED BY <1>2, <1>3, <1>4 DEF Sibling

(* A leg that works: its entry has ended, and nothing else of the entry    *)
(* works but the other leg.                                                *)
LEMMA LegWorks ==
  ASSUME AInv, NEW e \in Entries, NEW k \in Legs, bstate[<<e, k>>] \in {"new", "partially_filled"}
  PROVE  /\ Shape(e) /\ Bracket(e) /\ bstate[E(e)] \in Terminal
         /\ \A l \in ExitKinds : Ended(<<e, l>>) /\ ~Unplaced(<<e, l>>)
<1>1. <<e, k>> \in Orders /\ ~Ended(<<e, k>>) /\ <<e, k>>[1] = e
  BY RowsOf DEF Ended, Working
<1>2. Shape(e) /\ Bracket(e)
  BY <1>1, WorkingBracket DEF AInv
<1>3. bstate[E(e)] \in Terminal
  <2>1. bstate[E(e)] # "none"
    BY DEF AInv, JInv, Together
  <2>2. bstate[E(e)] \in {"none"} \cup Working \cup Terminal
    BY RowsOf DEF AInv, JInv, Types, BrokerTypes
  <2> QED BY <1>2, <2>1, <2>2 DEF Shape, Working
<1>4. \A l \in ExitKinds : Ended(<<e, l>>) /\ ~Unplaced(<<e, l>>)
  BY <1>1, <1>2, RowsOf DEF Bracket, ExitOK, Alone
<1> QED BY <1>2, <1>3, <1>4

LEMMA LegFillsKeeps ==
  ASSUME AInv, NEW o \in Orders, LegFills(o)
  PROVE  Kept(o[1])
<1> DEFINE e == o[1]
           k == o[2]
           full == filled[o] + 1 = bqty[o]
<1>1. e \in Entries /\ k \in Legs /\ o = <<e, k>> /\ bstate[o] \in {"new", "partially_filled"}
  BY KindOf DEF LegFills
<1>2. /\ Shape(e) /\ Bracket(e) /\ bstate[E(e)] \in Terminal
      /\ \A l \in ExitKinds : Ended(<<e, l>>) /\ ~Unplaced(<<e, l>>)
  BY <1>1, LegWorks
<1>3. PICK l \in Legs : Sibling(o) = <<e, l>> /\ l # k /\ \A m \in Legs : m = k \/ m = l
  BY <1>1, SiblingOf
<1>4. /\ Qty \in Nat /\ filled[o] \in 0..Qty /\ bqty[o] \in 0..Qty
      /\ filled[<<e, l>>] \in 0..Qty /\ bqty[<<e, l>>] \in 0..Qty /\ Held(e) \in Nat
  BY <1>1, RangesHold, RowsOf, QtyAssumption DEF Ranges
<1>5. /\ bqty[o] - filled[o] = Held(e) /\ Held(e) >= 1
      /\ ~Ended(<<e, l>>) => bqty[<<e, l>>] - filled[<<e, l>>] = Held(e)
  BY <1>1, <1>2 DEF Bracket, Capacity, Unfilled, Ended, Working
<1>6. /\ UNCHANGED <<ostate, flatten, pending, requested>>
      /\ filled' = [filled EXCEPT ![o] = @ + 1]
      /\ holding' = [holding EXCEPT ![Ticker(o)] = @ - 1]
      /\ bstate' = [bstate EXCEPT ![o] = IF full THEN "filled" ELSE "partially_filled",
                                  ![<<e, l>>] = IF full /\ @ \in Working THEN "canceled" ELSE @]
      /\ bqty' = [bqty EXCEPT ![<<e, l>>] = IF bstate[<<e, l>>] \in Working /\ ~full THEN @ - 1 ELSE @]
  BY <1>3 DEF LegFills, BrokerOnly, journal, orders, trades
<1>7. /\ <<e, l>> \in Orders /\ <<e, l>> # o /\ E(e) \in Orders /\ E(e) # o /\ E(e) # <<e, l>>
      /\ \A p \in Rows(e) : p \in Orders
      /\ \A x \in ExitKinds : <<e, x>> \in Orders /\ <<e, x>> # o /\ <<e, x>> # <<e, l>>
      /\ Ticker(o) = TickerOf[e] /\ TickerOf[e] \in Tickers
  BY <1>1, <1>3, RowsOf, KindOf
<1>8. /\ filled'[o] = filled[o] + 1 /\ Held(e)' = Held(e) - 1
      /\ bstate'[o] = IF full THEN "filled" ELSE "partially_filled"
      /\ bstate'[<<e, l>>] = IF full /\ ~Ended(<<e, l>>) THEN "canceled" ELSE bstate[<<e, l>>]
      /\ bqty'[<<e, l>>] = IF ~Ended(<<e, l>>) /\ ~full THEN bqty[<<e, l>>] - 1 ELSE bqty[<<e, l>>]
      /\ \A p \in Rows(e) : p # o => filled'[p] = filled[p]
      /\ \A p \in Rows(e) : p # <<e, l>> => bqty'[p] = bqty[p]
      /\ \A p \in Rows(e) : p # o /\ p # <<e, l>> => bstate'[p] = bstate[p]
  <2>1. /\ filled \in [Orders -> Int] /\ holding \in [Tickers -> Int] /\ bqty \in [Orders -> Int]
        /\ bstate \in [Orders -> {"none"} \cup Working \cup Terminal]
    BY DEF AInv, JInv, Types, BrokerTypes
  <2> HIDE DEF full
  <2>2. filled'[o] = filled[o] + 1 /\ Held(e)' = Held(e) - 1
        /\ \A p \in Rows(e) : p # o => filled'[p] = filled[p]
    BY <1>6, <1>7, <2>1 DEF Held
  <2>3. /\ bqty'[<<e, l>>] = IF ~Ended(<<e, l>>) /\ ~full THEN bqty[<<e, l>>] - 1 ELSE bqty[<<e, l>>]
        /\ \A p \in Rows(e) : p # <<e, l>> => bqty'[p] = bqty[p]
    BY <1>6, <1>7, <2>1 DEF Ended
  <2>4. /\ bstate'[o] = IF full THEN "filled" ELSE "partially_filled"
        /\ bstate'[<<e, l>>] = IF full /\ ~Ended(<<e, l>>) THEN "canceled" ELSE bstate[<<e, l>>]
        /\ \A p \in Rows(e) : p # o /\ p # <<e, l>> => bstate'[p] = bstate[p]
    BY <1>6, <1>7, <2>1 DEF Ended
  <2> QED BY <2>2, <2>3, <2>4
<1>9. E(e) \in Rows(e) /\ \A x \in ExitKinds : <<e, x>> \in Rows(e)
  BY <1>1, RowsOf
<1>10. bstate'[E(e)] = bstate[E(e)] /\ filled'[E(e)] = filled[E(e)]
  BY <1>7, <1>8, <1>9
<1>11. Ended(<<e, k>>)' <=> full
  BY <1>1, <1>8 DEF Ended, Working
<1>12. Ended(<<e, l>>)' <=> Ended(<<e, l>>) \/ full
  BY <1>8 DEF Ended, Working
<1>13. full <=> Held(e) = 1
  BY <1>4, <1>5
<1>14. Shape(e)'
  <2>1. filled[E(e)] # 0
    BY <1>1, <1>2 DEF Shape, Ended, Working
  <2>2. \A m \in Legs : bstate'[<<e, m>>] # "held"
    BY <1>1, <1>2, <1>3, <1>8 DEF Shape
  <2> QED BY <1>2, <1>10, <2>1, <2>2 DEF Shape, E, Terminal
<1>15. Capacity(e)'
  <2> SUFFICES ASSUME NEW m \in Legs, ~Ended(<<e, m>>)'
               PROVE  Unfilled(<<e, m>>)' = Held(e)' /\ Held(e)' >= 1
    BY <1>2, <1>10 DEF Capacity, E, Terminal
  <2>1. ~full /\ Held(e) >= 2
    BY <1>1, <1>3, <1>4, <1>5, <1>11, <1>12, <1>13
  <2>2. CASE m = k
    <3>1. bqty'[o] = bqty[o]
      BY <1>1, <1>7, <1>8, RowsOf
    <3> QED BY <1>1, <1>4, <1>5, <1>8, <2>1, <2>2, <3>1 DEF Unfilled
  <2>3. CASE m = l
    <3>1. filled'[<<e, l>>] = filled[<<e, l>>]
      BY <1>1, <1>7, <1>8, RowsOf
    <3>2. ~Ended(<<e, l>>)
      BY <1>12, <2>3
    <3> QED BY <1>4, <1>5, <1>8, <2>1, <2>3, <3>1, <3>2 DEF Unfilled
  <2> QED BY <1>3, <2>2, <2>3
<1>16. ASSUME NEW x \in ExitKinds PROVE ExitOK(<<e, x>>)'
  <2>1. bstate'[<<e, x>>] = bstate[<<e, x>>]
    BY <1>7, <1>8, <1>9
  <2>2. Ended(<<e, x>>)' /\ ~Unplaced(<<e, x>>)'
    BY <1>2, <1>6, <2>1 DEF Ended, Unplaced, Uncertain
  <2> QED BY <2>2 DEF ExitOK
<1>17. Protected(e)'
  <2> SUFFICES ASSUME ~flatten[e], ~pending[e], bstate[E(e)] = "filled"
               PROVE  Held(e)' = 0 \/ \A m \in Legs : ~Ended(<<e, m>>)'
    BY <1>2, <1>6, <1>10 DEF Protected, E, Terminal
  <2>1. \A m \in Legs : ~Ended(<<e, m>>)
    BY <1>2, <1>5 DEF Bracket, Protected
  <2> QED BY <1>1, <1>3, <1>4, <1>5, <1>8, <1>11, <1>12, <1>13, <2>1
<1>18. Ranges(e)' /\ Held(e)' >= 0
  <2>1. \A p \in Rows(e) : filled[p] \in 0..Qty /\ bqty[p] \in 0..Qty
    BY <1>1, RangesHold DEF Ranges
  <2>2. filled[o] + 1 \in 0..Qty /\ Held(e) - 1 >= 0
    BY <1>4, <1>5
  <2>3. ~Ended(<<e, l>>) => bqty[<<e, l>>] - 1 \in 0..Qty
    BY <1>4, <1>5
  <2> HIDE DEF full
  <2>4. \A p \in Rows(e) : filled'[p] \in 0..Qty
    BY <1>8, <2>1, <2>2
  <2>5. \A p \in Rows(e) : bqty'[p] \in 0..Qty
    BY <1>8, <2>1, <2>3
  <2> QED BY <1>8, <2>2, <2>4, <2>5 DEF Ranges, Rows
<1> QED BY <1>14, <1>15, <1>16, <1>17, <1>18 DEF Kept, Bracket

LEMMA ExitKnown ==
  ASSUME AInv, NEW e \in Entries, NEW k \in ExitKinds, ostate[<<e, k>>] # "absent"
  PROVE  /\ bstate[E(e)] # "none" /\ pending[e] /\ requested[<<e, k>>] >= 1
         /\ \A l \in Legs : ostate[<<e, l>>] # "absent"
<1>1. /\ linked[<<e, k>>] /\ pending[e] /\ requested[<<e, k>>] >= 1
  BY RowsOf DEF AInv, Row
<1>2. KnownLegs(e) = Legs
  BY <1>1, KindsAssumption DEF AInv, JInv, Traded, Kinds
<1>3. \A l \in Legs : ostate[<<e, l>>] # "absent"
  BY <1>2 DEF KnownLegs
<1>4. bstate[<<e, "stop">>] # "none"
  BY <1>3, RowsOf DEF AInv, Row, Legs
<1> QED BY <1>1, <1>3, <1>4 DEF AInv, JInv, Together, Legs

(* A market exit that works or is about to be sent is the last order of    *)
(* its entry.                                                              *)
LEMMA ExitWorks ==
  ASSUME AInv, NEW e \in Entries, NEW k \in ExitKinds, ~Ended(<<e, k>>) \/ Unplaced(<<e, k>>)
  PROVE  /\ Shape(e) /\ Bracket(e) /\ bstate[E(e)] \in Terminal /\ pending[e]
         /\ \A l \in Legs : Ended(<<e, l>>)
         /\ \A l \in ExitKinds : l # k => Ended(<<e, l>>) /\ ~Unplaced(<<e, l>>)
<1>1. <<e, k>> \in Orders /\ <<e, k>>[1] = e /\ ~IsLeg(<<e, k>>)
  BY RowsOf
<1>2. Taken(e)
  <2>1. CASE ~Ended(<<e, k>>)
    BY <1>1, <2>1, WorkingTaken
  <2>2. CASE Unplaced(<<e, k>>)
    <3>1. Open(<<e, k>>)
      BY <2>2 DEF Unplaced, Uncertain, Open, Terminal
    <3> QED BY <1>1, <3>1, OpenTaken
  <2> QED BY <2>1, <2>2
<1>3. Shape(e) /\ Bracket(e)
  BY <1>2 DEF AInv
<1>4. Alone(<<e, k>>)
  BY <1>3 DEF Bracket, ExitOK
<1>5. ostate[<<e, k>>] # "absent"
  <2>1. ostate[<<e, k>>] = "absent" => bstate[<<e, k>>] = "none"
    BY <1>1 DEF AInv, JInv, Unsent
  <2> QED BY <2>1 DEF Ended, Unplaced, Uncertain, Working
<1>6. bstate[E(e)] # "none" /\ pending[e]
  BY <1>5, ExitKnown
<1>7. Ended(E(e)) /\ \A p \in Rows(e) : p # <<e, k>> => Ended(p) /\ ~Unplaced(p)
  BY <1>1, <1>4, RowsOf DEF Alone
<1>8. bstate[E(e)] \in Terminal
  BY <1>6, <1>7, RowsOf DEF Ended, AInv, JInv, Types, BrokerTypes
<1>9. \A l \in Legs : <<e, l>> \in Rows(e) /\ <<e, l>> # <<e, k>>
  BY RowsOf
<1>10. \A l \in ExitKinds : <<e, l>> \in Rows(e)
  BY RowsOf
<1> QED BY <1>3, <1>6, <1>7, <1>8, <1>9, <1>10

(* An exit that is the last order of its entry moves alone. *)
LEMMA ExitMoves ==
  ASSUME AInv, NEW e \in Entries, NEW k \in ExitKinds, ~Ended(<<e, k>>),
         UNCHANGED <<ostate, flatten, pending, requested, bqty>>,
         \A p \in Rows(e) : p # <<e, k>> => bstate'[p] = bstate[p] /\ filled'[p] = filled[p],
         bstate'[<<e, k>>] \in Terminal \cup {"new", "partially_filled"},
         filled'[<<e, k>>] \in 0..Qty, Held(e)' \in Nat,
         bstate'[<<e, k>>] \notin Terminal => Unfilled(<<e, k>>)' = Held(e)' /\ Held(e)' >= 1
  PROVE  Kept(e)
<1> DEFINE o == <<e, k>>
<1>1. /\ Shape(e) /\ Bracket(e) /\ bstate[E(e)] \in Terminal /\ pending[e]
      /\ \A l \in Legs : Ended(<<e, l>>)
      /\ \A l \in ExitKinds : l # k => Ended(<<e, l>>) /\ ~Unplaced(<<e, l>>)
  BY ExitWorks
<1>2. /\ E(e) \in Rows(e) /\ E(e) # o
      /\ \A l \in Legs : <<e, l>> \in Rows(e) /\ <<e, l>> # o
      /\ \A l \in ExitKinds : <<e, l>> \in Rows(e) /\ (l # k => <<e, l>> # o)
  BY RowsOf
<1>3. bstate'[E(e)] = bstate[E(e)] /\ filled'[E(e)] = filled[E(e)]
      /\ \A l \in Legs : bstate'[<<e, l>>] = bstate[<<e, l>>] /\ filled'[<<e, l>>] = filled[<<e, l>>]
  BY <1>2
<1>4. Shape(e)'
  BY <1>1, <1>3 DEF Shape, E, Ended, Terminal
<1>5. \A l \in Legs : Ended(<<e, l>>)'
  BY <1>1, <1>3 DEF Ended
<1>6. Capacity(e)' /\ Protected(e)'
  BY <1>1, <1>3, <1>5 DEF Capacity, Protected, E, Terminal
<1>7. ASSUME NEW l \in ExitKinds, l # k PROVE Ended(<<e, l>>)' /\ ~Unplaced(<<e, l>>)'
  BY <1>1, <1>2, <1>7 DEF Ended, Unplaced, Uncertain
<1>8. Ended(E(e))' /\ ~Unplaced(E(e))'
  BY <1>1, <1>3 DEF Ended, Unplaced, Working, Terminal, E
<1>9. \A l \in Legs : ~Unplaced(<<e, l>>)'
  <2>1. \A l \in Legs : bstate[<<e, l>>] # "none"
    BY <1>1 DEF AInv, JInv, Together, Terminal
  <2> QED BY <1>3, <2>1 DEF Unplaced
<1>10. Alone(o)'
  <2> SUFFICES ASSUME NEW p \in Rows(e), p # o PROVE Ended(p)' /\ ~Unplaced(p)'
    BY DEF Alone, Rows
  <2> QED BY <1>5, <1>7, <1>8, <1>9, RowsOf
<1>11. ASSUME NEW l \in ExitKinds PROVE ExitOK(<<e, l>>)'
  <2>1. CASE l # k
    BY <1>7, <2>1 DEF ExitOK
  <2>2. CASE l = k
    <3>1. ~Unplaced(o)'
      BY DEF Unplaced, Terminal
    <3>2. ~Ended(o)' => bstate'[o] # "held" /\ Unfilled(o)' = Held(e)' /\ Held(e)' >= 1
      BY DEF Ended, Working, Terminal
    <3>3. o[1] = e
      OBVIOUS
    <3> QED BY <1>10, <2>2, <3>1, <3>2, <3>3 DEF ExitOK
  <2> QED BY <2>1, <2>2
<1>12. Ranges(e)' /\ Held(e)' >= 0
  <2>1. \A p \in Rows(e) : filled[p] \in 0..Qty /\ bqty[p] \in 0..Qty
    BY RangesHold DEF Ranges
  <2>2. \A p \in Rows(e) : filled'[p] \in 0..Qty /\ bqty'[p] \in 0..Qty
    BY <2>1
  <2> QED BY <2>2 DEF Ranges, Rows
<1> QED BY <1>4, <1>6, <1>11, <1>12 DEF Kept, Bracket

LEMMA ExitMovesKeep ==
  ASSUME AInv, NEW o \in Orders, o[2] \in ExitKinds,
         ExitFills(o) \/ CancelTakesEffect(o) \/ Reject(o) \/ Expire(o)
  PROVE  Kept(o[1])
<1> DEFINE e == o[1]
           k == o[2]
<1>1. e \in Entries /\ o = <<e, k>> /\ k \in ExitKinds /\ ~IsLeg(o) /\ ~IsEntry(o)
      /\ Ticker(o) = TickerOf[e] /\ TickerOf[e] \in Tickers /\ \A p \in Rows(e) : p \in Orders
  BY OrderParts, KindOf, RowsOf
<1>2. ~Ended(o) 
  BY DEF ExitFills, CancelTakesEffect, Reject, Expire, Ended, Working
<1>3. UNCHANGED <<ostate, flatten, pending, requested>>
  BY BrokerMoves DEF Fills
<1>4. /\ filled \in [Orders -> Int] /\ holding \in [Tickers -> Int]
      /\ bstate \in [Orders -> {"none"} \cup Working \cup Terminal]
      /\ filled[o] \in 0..Qty /\ bqty[o] \in 0..Qty /\ Held(e) \in Nat /\ Qty \in Nat
  BY <1>1, RangesHold, RowsOf, QtyAssumption DEF AInv, JInv, Types, BrokerTypes, Ranges
<1>5. Unfilled(o) = Held(e) /\ Held(e) >= 1
  BY <1>1, <1>2, WorkingBracket DEF Bracket, ExitOK
<1>6. CASE ExitFills(o)
  <2>1. /\ filled' = [filled EXCEPT ![o] = @ + 1] /\ holding' = [holding EXCEPT ![Ticker(o)] = @ - 1]
        /\ bstate' = [bstate EXCEPT ![o] = IF filled[o] + 1 = bqty[o] THEN "filled" ELSE "partially_filled"]
        /\ UNCHANGED bqty
    BY <1>6 DEF ExitFills
  <2>2. Held(e)' = Held(e) - 1 /\ filled'[o] = filled[o] + 1
    BY <1>1, <1>4, <2>1 DEF Held
  <2>3. \A p \in Rows(e) : p # o => bstate'[p] = bstate[p] /\ filled'[p] = filled[p]
    BY <1>1, <1>4, <2>1
  <2>4. bstate'[o] = IF filled[o] + 1 = bqty[o] THEN "filled" ELSE "partially_filled"
    BY <1>4, <2>1
  <2>5. filled'[o] \in 0..Qty /\ Held(e)' \in Nat
    BY <1>4, <1>5, <2>2 DEF Unfilled
  <2>6. bstate'[o] \notin Terminal => Unfilled(o)' = Held(e)' /\ Held(e)' >= 1
    BY <1>4, <1>5, <2>1, <2>2, <2>4 DEF Unfilled, Terminal
  <2>7. bstate'[o] \in Terminal \cup {"new", "partially_filled"}
    BY <2>4 DEF Terminal
  <2> QED BY <1>1, <1>2, <1>3, <2>1, <2>3, <2>5, <2>6, <2>7, ExitMoves
<1>7. CASE CancelTakesEffect(o) \/ Reject(o) \/ Expire(o)
  <2>1. UNCHANGED <<filled, holding, bqty>>
    BY <1>1, <1>7 DEF CancelTakesEffect, Reject, Expire
  <2>2. bstate'[o] \in Terminal /\ \A p \in Rows(e) : p # o => bstate'[p] = bstate[p]
    <3>1. CASE CancelTakesEffect(o) \/ Expire(o)
      <4>1. bstate' = [bstate EXCEPT ![o] = "canceled"]
        BY <1>1, <3>1 DEF CancelTakesEffect, Expire
      <4> QED BY <1>1, <1>4, <4>1 DEF Terminal
    <3>2. CASE Reject(o)
      BY <1>1, <3>2 DEF Reject, Terminal
    <3> QED BY <1>7, <3>1, <3>2
  <2>3. filled'[o] \in 0..Qty /\ Held(e)' \in Nat
    BY <1>4, <2>1 DEF Held
  <2> QED BY <1>1, <1>2, <1>3, <2>1, <2>2, <2>3, ExitMoves
<1> QED BY <1>6, <1>7

(* While an entry works no market exit of it is in sight. *)
LEMMA EntryWorks ==
  ASSUME AInv, NEW e \in Entries, ~Ended(E(e))
  PROVE  /\ Shape(e) /\ Bracket(e) /\ bstate[E(e)] \in {"new", "partially_filled"}
         /\ \A k \in ExitKinds : Ended(<<e, k>>) /\ ~Unplaced(<<e, k>>)
<1>1. Shape(e) /\ Bracket(e)
  BY RowsOf, WorkingBracket DEF AInv
<1>2. bstate[E(e)] \in {"new", "partially_filled"}
  BY <1>1 DEF Ended, Working, Shape
<1> QED BY <1>1, <1>2, RowsOf DEF Bracket, ExitOK, Alone

LEMMA LegCancelKeeps ==
  ASSUME AInv, NEW o \in Orders, CancelTakesEffect(o), IsLeg(o)
  PROVE  Kept(o[1])
<1> DEFINE e == o[1]
           k == o[2]
<1>1. e \in Entries /\ k \in Legs /\ o = <<e, k>> /\ ~IsEntry(o)
  BY KindOf, RowsOf
<1>2. ~Ended(o) /\ Shape(e) /\ Bracket(e) /\ (flatten[e] \/ pending[e])
  <2>1. ~Ended(o) /\ canceling[o]
    BY DEF CancelTakesEffect, Ended
  <2> QED BY <1>1, <2>1, WorkingBracket DEF AInv, Row
<1>3. PICK l \in Legs : Sibling(o) = <<e, l>> /\ l # k /\ \A m \in Legs : m = k \/ m = l
  BY <1>1, SiblingOf
<1>4. UNCHANGED <<ostate, flatten, pending, requested, filled, bqty, holding>>
  BY <1>1, BrokerMoves DEF CancelTakesEffect
<1>5. /\ bstate'[o] = "canceled"
      /\ \A p \in Orders : p # o => \/ bstate'[p] = bstate[p]
                                    \/ p = <<e, l>> /\ ~Ended(p) /\ bstate'[p] = "canceled"
  <2>1. bstate \in [Orders -> {"none"} \cup Working \cup Terminal]
    BY DEF AInv, JInv, Types, BrokerTypes
  <2>2. \/ bstate' = [bstate EXCEPT ![o] = "canceled"]
        \/ bstate' = [bstate EXCEPT ![o] = "canceled", ![<<e, l>>] = IF @ \in Working THEN "canceled" ELSE @]
    BY <1>1, <1>3 DEF CancelTakesEffect
  <2>3. <<e, l>> \in Orders /\ <<e, l>> # o
    BY <1>1, <1>3, RowsOf
  <2> QED BY <2>1, <2>2, <2>3 DEF Ended
<1>6. /\ E(e) \in Orders /\ E(e) # o /\ E(e) # <<e, l>>
      /\ \A x \in ExitKinds : <<e, x>> \in Orders /\ <<e, x>> # o /\ <<e, x>> # <<e, l>>
      /\ \A p \in Rows(e) : p \in Orders
  BY <1>1, RowsOf
<1>7. bstate'[E(e)] = bstate[E(e)] /\ \A x \in ExitKinds : bstate'[<<e, x>>] = bstate[<<e, x>>]
  BY <1>5, <1>6
<1>8. \A m \in Legs : \/ bstate'[<<e, m>>] = bstate[<<e, m>>]
                      \/ bstate'[<<e, m>>] = "canceled" /\ ~Ended(<<e, m>>)
  BY <1>1, <1>2, <1>5, RowsOf
<1>9. \A m \in Legs : Ended(<<e, m>>) => Ended(<<e, m>>)'
  BY <1>8 DEF Ended
<1>10. Shape(e)'
  BY <1>2, <1>4, <1>7, <1>8, <1>9 DEF Shape, E
<1>11. Capacity(e)'
  BY <1>2, <1>4, <1>7, <1>9 DEF Bracket, Capacity, E, Held, Unfilled
<1>12. Protected(e)'
  BY <1>2, <1>4 DEF Protected
<1>13. \A x \in ExitKinds : Ended(<<e, x>>) /\ ~Unplaced(<<e, x>>)
  <2>1. o \in Rows(e) /\ \A x \in ExitKinds : <<e, x>>[1] = e /\ <<e, x>> # o
    BY <1>1, RowsOf
  <2> QED BY <1>2, <2>1 DEF Bracket, ExitOK, Alone
<1>14. \A x \in ExitKinds : ExitOK(<<e, x>>)'
  BY <1>4, <1>7, <1>13 DEF ExitOK, Ended, Unplaced, Uncertain
<1>15. Ranges(e)' /\ Held(e)' >= 0
  BY <1>1, <1>4, RangesHold DEF Ranges, Rows, Held
<1> QED BY <1>10, <1>11, <1>12, <1>14, <1>15 DEF Kept, Bracket

LEMMA EntryEndsKeeps ==
  ASSUME AInv, NEW o \in Orders, CancelTakesEffect(o) \/ Reject(o), IsEntry(o)
  PROVE  Kept(o[1])
<1> DEFINE e == o[1]
<1>1. e \in Entries /\ o = E(e) /\ ~IsLeg(o)
  BY KindOf, RowsOf
<1>2. ~Ended(o)
  BY DEF CancelTakesEffect, Reject, Ended, Working
<1>3. /\ Shape(e) /\ Bracket(e) /\ bstate[E(e)] \in {"new", "partially_filled"}
      /\ \A k \in ExitKinds : Ended(<<e, k>>) /\ ~Unplaced(<<e, k>>)
  BY <1>1, <1>2, EntryWorks
<1>4. UNCHANGED <<ostate, flatten, pending, requested, filled, holding>>
  BY <1>1, BrokerMoves DEF CancelTakesEffect, Reject
<1>5. /\ \A k \in Legs : <<e, k>> \in Orders /\ <<e, k>> # o /\ <<e, k>> \in {o[1]} \X Legs /\ <<e, k>> \in Rows(e)
      /\ \A k \in ExitKinds : <<e, k>> \in Orders /\ <<e, k>> # o /\ <<e, k>> \notin {o[1]} \X Legs
      /\ \A p \in Rows(e) : p \in Orders
  BY <1>1, RowsOf
<1>6. /\ \A k \in Legs : bstate[<<e, k>>] \in {"held", "canceled"} /\ filled[<<e, k>>] = 0
      /\ Held(e) = filled[E(e)] /\ filled[E(e)] \in 0..Qty /\ Qty \in Nat
  BY <1>1, <1>3, RangesHold, RowsOf, QtyAssumption DEF Shape, Bracket, Capacity, Ranges
<1>7. /\ bstate'[o] \in {"canceled", "rejected"}
      /\ \A k \in ExitKinds : bstate'[<<e, k>>] = bstate[<<e, k>>]
      /\ \/ \A k \in Legs : bstate'[<<e, k>>] = "canceled" /\ UNCHANGED bqty
         \/ /\ filled[o] > 0
            /\ \A k \in Legs : bstate'[<<e, k>>] = IF bstate[<<e, k>>] = "held" THEN "new" ELSE bstate[<<e, k>>]
            /\ bqty' = [p \in Orders |-> IF p \in {o[1]} \X Legs THEN filled[o] ELSE bqty[p]]
  <2>1. CASE Reject(o)
    BY <1>1, <1>5, <2>1 DEF Reject
  <2>2. CASE CancelTakesEffect(o)
    <3>1. CASE /\ bstate' = [p \in Orders |->
                     IF p = o \/ (p \in {o[1]} \X Legs /\ bstate[p] \in Working) THEN "canceled" ELSE bstate[p]]
               /\ UNCHANGED bqty
      <4>1. \A k \in Legs : bstate'[<<e, k>>] = "canceled"
        BY <1>5, <1>6, <3>1 DEF Working
      <4> QED BY <1>1, <1>5, <3>1, <4>1
    <3>2. CASE /\ filled[o] > 0
               /\ bstate' = [p \in Orders |->
                    IF p = o THEN "canceled"
                    ELSE IF p \in {o[1]} \X Legs /\ bstate[p] = "held" THEN "new" ELSE bstate[p]]
               /\ bqty' = [p \in Orders |-> IF p \in {o[1]} \X Legs THEN filled[o] ELSE bqty[p]]
      BY <1>1, <1>5, <3>2
    <3> QED BY <1>1, <2>2, <3>1, <3>2 DEF CancelTakesEffect
  <2> QED BY <2>1, <2>2
<1>8. filled[E(e)] = 0 => \A k \in Legs : bstate'[<<e, k>>] = "canceled"
  BY <1>1, <1>6, <1>7
<1>9. Shape(e)'
  BY <1>1, <1>4, <1>6, <1>7, <1>8 DEF Shape, E, Ended, Working, Terminal
<1>10. Capacity(e)'
  <2> SUFFICES ASSUME NEW k \in Legs, ~Ended(<<e, k>>)'
               PROVE  Unfilled(<<e, k>>)' = Held(e)' /\ Held(e)' >= 1
    BY <1>1, <1>7 DEF Capacity, E
  <2>1. filled[o] > 0 /\ bqty'[<<e, k>>] = filled[o]
    BY <1>5, <1>7 DEF Ended, Working
  <2> QED BY <1>1, <1>4, <1>6, <2>1 DEF Unfilled, Held
<1>11. Protected(e)'
  <2>1. CASE CancelTakesEffect(o)
    <3>1. canceling[o]
      BY <2>1 DEF CancelTakesEffect
    <3>2. flatten[e] \/ pending[e]
      BY <3>1 DEF AInv, Row
    <3> QED BY <1>4, <3>2 DEF Protected
  <2>2. CASE Reject(o)
    <3>1. bstate'[E(e)] = "rejected"
      BY <1>1, <2>2 DEF Reject
    <3> QED BY <3>1 DEF Protected, E
  <2> QED BY <2>1, <2>2
<1>12. \A k \in ExitKinds : ExitOK(<<e, k>>)'
  BY <1>3, <1>4, <1>7 DEF ExitOK, Ended, Unplaced, Uncertain
<1>13. Ranges(e)' /\ Held(e)' >= 0
  <2>1. \A p \in Rows(e) : filled[p] \in 0..Qty /\ bqty[p] \in 0..Qty
    BY <1>1, RangesHold DEF Ranges
  <2>2. \A p \in Rows(e) : bqty'[p] \in 0..Qty
    <3>1. filled[o] \in 0..Qty
      BY <1>1, <1>6
    <3>2. CASE UNCHANGED bqty
      BY <2>1, <3>2
    <3>3. CASE bqty' = [p \in Orders |-> IF p \in {o[1]} \X Legs THEN filled[o] ELSE bqty[p]]
      <4>1. \A p \in Orders : bqty'[p] = filled[o] \/ bqty'[p] = bqty[p]
        BY <3>3
      <4> QED BY <1>5, <2>1, <3>1, <4>1
    <3>4. "stop" \in Legs
      BY DEF Legs
    <3> QED BY <1>7, <3>2, <3>3, <3>4
  <2>3. Held(e) \in Nat
    BY <1>1, RangesHold
  <2> QED BY <1>4, <2>1, <2>2, <2>3 DEF Ranges, Rows, Held
<1> QED BY <1>9, <1>10, <1>11, <1>12, <1>13 DEF Kept, Bracket

LEMMA BrokerKeeps ==
  ASSUME AInv, NEW o \in Orders, Fills(o) \/ CancelTakesEffect(o) \/ Reject(o) \/ Expire(o)
  PROVE  Kept(o[1]) /\ ~Ended(o)
<1>1. ~Ended(o)
  BY DEF Fills, EntryFills, LegFills, ExitFills, CancelTakesEffect, Reject, Expire, Ended, Working
<1>2. CASE EntryFills(o)
  BY <1>1, <1>2, EntryFillsKeeps
<1>3. CASE LegFills(o)
  BY <1>1, <1>3, LegFillsKeeps
<1>4. CASE o[2] \in ExitKinds /\ (ExitFills(o) \/ CancelTakesEffect(o) \/ Reject(o) \/ Expire(o))
  BY <1>1, <1>4, ExitMovesKeep
<1>5. CASE IsLeg(o) /\ CancelTakesEffect(o)
  BY <1>1, <1>5, LegCancelKeeps
<1>6. CASE IsEntry(o) /\ (CancelTakesEffect(o) \/ Reject(o))
  BY <1>1, <1>6, EntryEndsKeeps
<1>7. ExitFills(o) \/ Expire(o) => o[2] \in ExitKinds
  BY DEF ExitFills, Expire
<1>8. Reject(o) => ~IsLeg(o)
  BY DEF Reject
<1> QED BY <1>1, <1>2, <1>3, <1>4, <1>5, <1>6, <1>7, <1>8, KindOf DEF Fills

(* What ended at the broker does not move, nor does what it never saw, nor *)
(* anything of another entry. *)
LEMMA BrokerLeaves ==
  ASSUME AInv, NEW o \in Orders, Fills(o) \/ CancelTakesEffect(o) \/ Reject(o) \/ Expire(o)
  PROVE  /\ \A p \in Orders : bstate[p] \in Terminal => bstate'[p] = bstate[p] /\ filled'[p] = filled[p]
         /\ \A p \in Orders : bstate[p] = "none" => filled'[p] = filled[p]
         /\ \A p \in Orders : p[1] # o[1] =>
              bstate'[p] = bstate[p] /\ filled'[p] = filled[p] /\ bqty'[p] = bqty[p]
         /\ \A t \in Tickers : t # Ticker(o) => holding'[t] = holding[t]
<1>1. /\ bstate \in [Orders -> {"none"} \cup Working \cup Terminal]
      /\ filled \in [Orders -> Int] /\ bqty \in [Orders -> Int] /\ holding \in [Tickers -> Int]
  BY DEF AInv, JInv, Types, BrokerTypes
<1>2. bstate[o] \in Working
  BY DEF Fills, EntryFills, LegFills, ExitFills, CancelTakesEffect, Reject, Expire, Working
<1>3. IsLeg(o) => \E l \in Legs : Sibling(o) = <<o[1], l>>
  BY KindOf, SiblingOf
<1>4. \A p \in {o[1]} \X Legs : p[1] = o[1]
  OBVIOUS
<1>5. \/ UNCHANGED <<filled, holding>>
      \/ \E f, h : filled' = [filled EXCEPT ![o] = f] /\ holding' = [holding EXCEPT ![Ticker(o)] = h]
  BY DEF Fills, EntryFills, LegFills, ExitFills, CancelTakesEffect, Reject, Expire
<1>6. /\ \A p \in Orders : p # o => filled'[p] = filled[p]
      /\ \A t \in Tickers : t # Ticker(o) => holding'[t] = holding[t]
  BY <1>1, <1>5
<1>7. \A p \in Orders : p[1] # o[1] => bqty'[p] = bqty[p]
  <2>1. CASE LegFills(o)
    BY <1>1, <1>3, <2>1 DEF LegFills
  <2>2. CASE CancelTakesEffect(o)
    BY <1>1, <1>4, <2>2 DEF CancelTakesEffect
  <2>3. CASE EntryFills(o) \/ ExitFills(o) \/ Reject(o) \/ Expire(o)
    BY <2>3 DEF EntryFills, ExitFills, Reject, Expire
  <2> QED BY <2>1, <2>2, <2>3 DEF Fills
<1>8. \A p \in Orders : p[1] # o[1] => bstate'[p] = bstate[p]
  <2>1. CASE LegFills(o)
    BY <1>1, <1>3, <2>1 DEF LegFills
  <2>2. CASE CancelTakesEffect(o)
    BY <1>1, <1>3, <1>4, <2>2 DEF CancelTakesEffect
  <2>3. CASE EntryFills(o) \/ ExitFills(o) \/ Reject(o) \/ Expire(o)
    BY <1>1, <1>4, <2>3 DEF EntryFills, ExitFills, Reject, Expire
  <2> QED BY <2>1, <2>2, <2>3 DEF Fills
<1>9. \A p \in Orders : bstate[p] \in Terminal => bstate'[p] = bstate[p]
  <2> SUFFICES ASSUME NEW p \in Orders, bstate[p] \in Terminal PROVE bstate'[p] = bstate[p]
    OBVIOUS
  <2>1. p # o /\ bstate[p] \notin Working
    BY <1>2 DEF Working, Terminal
  <2>2. CASE LegFills(o)
    BY <1>1, <1>3, <2>1, <2>2 DEF LegFills
  <2>3. CASE CancelTakesEffect(o)
    BY <1>1, <1>3, <2>1, <2>3 DEF CancelTakesEffect, Working
  <2>4. CASE EntryFills(o) \/ ExitFills(o) \/ Expire(o)
    BY <1>1, <2>1, <2>4 DEF EntryFills, ExitFills, Expire, Terminal, Working
  <2>5. CASE Reject(o)
    <3>1. CASE IsEntry(o) /\ p \in {o[1]} \X Legs
      <4>1. o[1] \in Entries /\ o = E(o[1]) /\ p = <<o[1], p[2]>> /\ p[2] \in Legs
        BY <3>1, KindOf
      <4>2. bstate[p] \in {"held", "canceled"}
        BY <2>5, <4>1 DEF Reject, AInv, Shape
      <4>3. bstate'[p] = "canceled"
        BY <2>1, <2>5, <3>1 DEF Reject
      <4> QED BY <2>1, <4>2, <4>3 DEF Working
    <3>2. CASE ~(IsEntry(o) /\ p \in {o[1]} \X Legs)
      BY <2>1, <2>5, <3>2 DEF Reject
    <3> QED BY <3>1, <3>2
  <2> QED BY <2>2, <2>3, <2>4, <2>5 DEF Fills
<1>10. bstate[o] \notin Terminal /\ bstate[o] # "none"
  BY <1>2 DEF Working, Terminal
<1> QED BY <1>6, <1>7, <1>8, <1>9, <1>10

LEMMA BrokerStep ==
  ASSUME AInv, JInv', NEW o \in Orders, Fills(o) \/ CancelTakesEffect(o) \/ Reject(o) \/ Expire(o)
  PROVE  AInv'
<1>1. UNCHANGED <<ostate, applied, known, linked, requested, broker_qty, flatten,
                  trade, remaining, pending, pc, cur, todo, task, toclose, snapshot, blocked,
                  safe_to_flatten, canceling>>
  <2>1. UNCHANGED canceling
    BY DEF Fills, EntryFills, LegFills, ExitFills, CancelTakesEffect, Reject, Expire
  <2> QED BY <2>1, BrokerMoves
<1>2. Kept(o[1]) /\ ~Ended(o) /\ o[1] \in Entries /\ TickerOf[o[1]] \in Tickers /\ Ticker(o) = TickerOf[o[1]]
  BY BrokerKeeps, KindOf
<1>3. /\ Taken(o[1]) 
      /\ \A e \in Entries : Taken(e) /\ TickerOf[e] = TickerOf[o[1]] => e = o[1]
  BY <1>2, WorkingBracket
<1>4. Quantities'
  <2>1. \A p \in Orders : filled'[p] \in 0..Qty /\ bqty'[p] \in 0..Qty
    <3>1. ASSUME NEW p \in Orders, p[1] # o[1] PROVE filled'[p] \in 0..Qty /\ bqty'[p] \in 0..Qty
      BY <3>1, BrokerLeaves DEF AInv, Quantities
    <3>2. ASSUME NEW p \in Orders, p[1] = o[1] PROVE filled'[p] \in 0..Qty /\ bqty'[p] \in 0..Qty
      BY <1>2, <3>2, RowsOf DEF Kept, Ranges, Rows
    <3> QED BY <3>1, <3>2
  <2>2. filled' \in [Orders -> Int] /\ bqty' \in [Orders -> Int]
    BY DEF JInv, Types, BrokerTypes
  <2>3. filled' \in [Orders -> 0..Qty] /\ bqty' \in [Orders -> 0..Qty]
    BY <2>1, <2>2
  <2> QED BY <1>1, <2>3 DEF AInv, Quantities
<1>5. Purpose'
  BY <1>1 DEF AInv, Purpose, Open, Closing
<1>6. Told'
  <2> SUFFICES ASSUME pc \in Linking PROVE Told'
    BY <1>1 DEF Told
  <2>1. cur \in Orders /\ \A k \in Legs : Leg(cur, k) \in Orders
    BY OrderParts DEF AInv, JInv, Control, Processing, Linking, Leg
  <2>2. bstate'[cur] # "none"
    BY <2>1, BrokerSent DEF AInv, Told
  <2>3. \A k \in Legs : snapshot[k].state \in Terminal =>
           /\ bstate'[Leg(cur, k)] = snapshot[k].state
           /\ filled'[Leg(cur, k)] = snapshot[k].filled
    BY <2>1, BrokerLeaves DEF AInv, Told
  <2> QED BY <1>1, <2>2, <2>3 DEF AInv, Told, Leg
<1>7. ASSUME NEW p \in Orders PROVE Row(p)'
  <2>1. bstate'[p] = "none" <=> bstate[p] = "none"
    BY BrokerSent DEF AInv
  <2>2. bstate[p] = "none" => filled'[p] = filled[p]
    BY BrokerLeaves
  <2>3. ostate[p] \in Terminal /\ bstate[p] # "none" => bstate'[p] = bstate[p] /\ filled'[p] = filled[p]
    <3>1. ostate[p] \in Terminal /\ bstate[p] # "none" => bstate[p] \in Terminal
      BY DEF AInv, Row
    <3> QED BY <3>1, BrokerLeaves
  <2>4. Row(p)
    BY DEF AInv
  <2> QED BY <1>1, <2>1, <2>2, <2>3, <2>4 DEF Row, IsLeg, IsEntry
<1>8. ASSUME NEW e \in Entries, e # o[1]
      PROVE  /\ \A p \in Rows(e) : bstate'[p] = bstate[p] /\ filled'[p] = filled[p] /\ bqty'[p] = bqty[p]
             /\ Taken(e) => Held(e)' = Held(e)
  <2>1. \A p \in Rows(e) : p \in Orders /\ p[1] = e
    BY RowsOf
  <2>2. Taken(e) => TickerOf[e] # Ticker(o)
    BY <1>2, <1>3, <1>8
  <2> QED BY <1>8, <2>1, <2>2, BrokerLeaves, TickerAssumption DEF Held
<1>9. ASSUME NEW e \in Entries PROVE Taken(e)' <=> Taken(e)
  BY <1>1 DEF Taken, Open, Rows
<1>10. ASSUME NEW e \in Entries 
       PROVE  Shape(e)' /\ (trade'[e] = "open" => remaining'[e] >= 1) /\ (Taken(e)' => Bracket(e)')
  <2>1. CASE e = o[1]
    BY <1>1, <1>2, <2>1 DEF Kept, AInv
  <2>2. CASE e # o[1]
    <3>1. /\ E(e) \in Rows(e) /\ \A k \in Legs : <<e, k>> \in Rows(e)
          /\ \A k \in ExitKinds : <<e, k>> \in Rows(e) /\ <<e, k>>[1] = e
      BY RowsOf
    <3>2. \A p \in Rows(e) : (Ended(p)' <=> Ended(p)) /\ (Unplaced(p)' <=> Unplaced(p)) /\ Unfilled(p)' = Unfilled(p)
      BY <1>1, <1>8, <2>2 DEF Ended, Unplaced, Uncertain, Unfilled
    <3>3. Shape(e)'
      BY <1>1, <1>8, <2>2, <3>1, <3>2 DEF AInv, Shape, E
    <3>4. Taken(e) => Bracket(e)'
      <4> SUFFICES ASSUME Taken(e) PROVE Bracket(e)'
        OBVIOUS
      <4>1. Bracket(e) /\ Held(e)' = Held(e)
        BY <1>8, <2>2 DEF AInv
      <4>2. Capacity(e)' /\ Protected(e)'
        BY <1>1, <1>8, <2>2, <3>1, <3>2, <4>1 DEF Bracket, Capacity, Protected, E
      <4>3. ASSUME NEW k \in ExitKinds PROVE ExitOK(<<e, k>>)'
        <5>1. Alone(<<e, k>>) => Alone(<<e, k>>)'
          BY <3>1, <3>2 DEF Alone, Rows
        <5>2. ExitOK(<<e, k>>)
          BY <4>1 DEF Bracket
        <5> QED BY <1>1, <1>8, <2>2, <3>1, <3>2, <4>1, <5>1, <5>2 DEF ExitOK
      <4> QED BY <4>2, <4>3 DEF Bracket
    <3> QED BY <1>1, <1>9, <3>3, <3>4 DEF AInv
  <2> QED BY <2>1, <2>2
<1>11. Account'
  <2>1. ASSUME NEW t \in Tickers PROVE holding'[t] >= 0 /\ (Free(t) => holding'[t] = holding[t])
    <3>1. CASE t = Ticker(o)
      BY <1>2, <1>3, <3>1 DEF Kept, Held, Free
    <3>2. CASE t # Ticker(o)
      BY <3>2, BrokerLeaves DEF AInv, Account
    <3> QED BY <3>1, <3>2
  <2>2. \A t \in Tickers : Free(t)' <=> Free(t)
    BY <1>9 DEF Free
  <2>3. ASSUME NEW e \in Entries, trade[e] = "open", KnownLegs(e) = Legs, OpenOrders(TickerOf[e]) = {}
        PROVE  Held(e)' = Held(e)
    <3>1. Taken(e)
      BY <2>3 DEF Taken
    <3>2. e # o[1]
      <4>1. SUFFICES ASSUME e = o[1] PROVE FALSE
        OBVIOUS
      <4>2. ~(IsLeg(o) /\ ostate[o] = "absent")
        BY <2>3, <4>1, KindOf DEF KnownLegs
      <4>3. Open(o)
        BY <1>2, <4>2, WorkingOpen
      <4> QED BY <1>2, <2>3, <4>1, <4>3 DEF OpenOrders
    <3> QED BY <1>8, <3>1, <3>2
  <2>4. \A e \in Entries : OpenOrders(TickerOf[e])' = OpenOrders(TickerOf[e]) /\ KnownLegs(e)' = KnownLegs(e)
    BY <1>1 DEF OpenOrders, KnownLegs, Open
  <2>5. Observed' <=> Observed
    BY <1>1 DEF Observed
  <2> QED BY <1>1, <2>1, <2>2, <2>3, <2>4, <2>5 DEF AInv, Account
<1> QED BY <1>4, <1>5, <1>6, <1>7, <1>10, <1>11 DEF AInv

-----------------------------------------------------------------------------
(* The steps of the worker. *)

Works == WorkerStep \/ (\E e \in Entries : open_position(e)) \/ SessionClock \/ Crash

(* Only a request changes what is with the broker, and only a cancel asks  *)
(* for the end of an order. *)
LEMMA WorksAtBroker ==
  ASSUME AInv, Works
  PROVE  /\ UNCHANGED <<filled, holding>>
         /\ (pc = "request" /\ Accept(cur)) \/ UNCHANGED <<bstate, bqty>>
         /\ \A o \in Orders : canceling'[o] => canceling[o] \/ (pc \in {"cancel", "cancel_legs"} /\ o \in todo)
<1>1. ASSUME NEW o \in Orders, cancel_flatten_entry(o) \/ cancel_active(o)
      PROVE  /\ UNCHANGED <<filled, holding, bstate, bqty>> /\ pc \in {"cancel", "cancel_legs"} /\ o \in todo
             /\ \A p \in Orders : p # o => canceling'[p] = canceling[p]
  <2>1. UNCHANGED <<filled, holding, bstate, bqty>> /\ pc \in {"cancel", "cancel_legs"} /\ o \in todo
    BY <1>1 DEF cancel_flatten_entry, cancel_active, First
  <2>2. UNCHANGED canceling \/ CancelCall(o, TRUE) \/ CancelCall(o, FALSE)
    BY <1>1 DEF cancel_flatten_entry, cancel_active
  <2>3. UNCHANGED canceling \/ \E x : canceling' = [canceling EXCEPT ![o] = x]
    BY <2>2 DEF CancelCall
  <2>4. canceling \in [Orders -> BOOLEAN]
    BY DEF AInv, JInv, Types, BrokerTypes
  <2> QED BY <2>1, <2>3, <2>4
<1>2. CASE Request \/ Crash
  <2>1. UNCHANGED broker \/ (pc = "request" /\ Accept(cur))
    BY <1>2 DEF Request, Crash
  <2> QED BY <2>1 DEF broker, Accept
<1>3. CASE UNCHANGED broker
  BY <1>3 DEF broker
<1>4. WorkerStep => \/ UNCHANGED broker \/ Request
                    \/ \E o \in Orders : cancel_flatten_entry(o) \/ cancel_active(o)
  BY DEF WorkerStep, Send, DiscoverLegs, ApplyLeg, reconcile, sync_order, synced,
         cancels_sent, observe, tick, ticked, close_position, close_decision, active_canceled
<1>5. SessionClock \/ (\E e \in Entries : open_position(e)) => UNCHANGED broker
  BY DEF SessionClock, open_position
<1> QED BY <1>1, <1>2, <1>3, <1>4, <1>5 DEF Works

(* What an accepted request does. *)
LEMMA Placed ==
  ASSUME AInv, pc = "request", Accept(cur)
  PROVE  /\ cur \in Orders /\ ~IsLeg(cur) /\ bstate[cur] = "none" /\ ostate[cur] = "unresolved" /\ Unplaced(cur)
         /\ bstate'[cur] = "new" /\ bqty'[cur] = requested[cur]
         /\ \A p \in Orders : p # cur =>
              IF IsEntry(cur) /\ IsLeg(p) /\ p[1] = cur[1]
                THEN bstate'[p] = "held" /\ bqty'[p] = requested[cur] /\ bstate[p] = "none"
                ELSE bstate'[p] = bstate[p] /\ bqty'[p] = bqty[p]
<1>1. cur \in Orders /\ ~IsLeg(cur) /\ bstate[cur] = "none" /\ ostate[cur] = "unresolved" /\ Unplaced(cur)
  BY DEF AInv, JInv, Control, Current, Processing, Unplaced, Uncertain
<1>2. \A p \in Orders : p \in {cur[1]} \X Legs <=> IsLeg(p) /\ p[1] = cur[1]
  BY OrderParts DEF IsLeg
<1>3. IsEntry(cur) => \A p \in Orders : IsLeg(p) /\ p[1] = cur[1] => bstate[p] = "none"
  <2> SUFFICES ASSUME IsEntry(cur), NEW p \in Orders, IsLeg(p), p[1] = cur[1] PROVE bstate[p] = "none"
    OBVIOUS
  <2>1. cur = E(p[1]) /\ p = <<p[1], p[2]>> /\ p[2] \in Legs /\ p[1] \in Entries
    BY <1>1, KindOf
  <2> QED BY <1>1, <2>1 DEF AInv, JInv, Together
<1> QED BY <1>1, <1>2, <1>3 DEF Accept

(* What a step may write into a row. *)
RowTold(o) ==
  \/ ostate'[o] = ostate[o] /\ applied'[o] = applied[o]
  \/ ostate'[o] = "unresolved" /\ applied'[o] = applied[o] /\ ostate[o] # "absent"
  \/ Intended(o) /\ ostate'[o] = "pending_submission" /\ applied'[o] = applied[o]
  \/ /\ IsEntry(o) /\ bstate[o] = "none" /\ ostate[o] = "pending_submission"
     /\ ostate'[o] = "canceled" /\ applied'[o] = applied[o]
  \/ IsLeg(o) /\ bstate[o] # "none" /\ ostate'[o] = "new" /\ applied'[o] = applied[o]
  \/ /\ bstate'[o] # "none" /\ ostate[o] # "absent"
     /\ ostate'[o] \in Working \cup Terminal
     /\ ostate'[o] \in Terminal => bstate'[o] = ostate'[o] /\ applied'[o] = filled'[o]

LEMMA ApplyTold ==
  ASSUME AInv, NEW o \in Orders, NEW s \in Working \cup Terminal, NEW q \in Int, NEW size,
         ApplyOrderState(o, s, q, size), bstate'[o] # "none", ostate[o] # "absent",
         s \in Terminal => bstate'[o] = s /\ filled'[o] = q
  PROVE  \A p \in Orders : RowTold(p)
<1>1. /\ ostate' = [ostate EXCEPT ![o] = s] /\ applied' = [applied EXCEPT ![o] = q]
      /\ ostate \in [Orders -> OrderStates] /\ applied \in [Orders -> Nat]
  BY DEF ApplyOrderState, AInv, JInv, Types, JournalTypes
<1>2. ostate'[o] = s /\ applied'[o] = q /\ \A p \in Orders : p # o => ostate'[p] = ostate[p] /\ applied'[p] = applied[p]
  BY <1>1
<1> QED BY <1>2 DEF RowTold

LEMMA MarkTold ==
  ASSUME AInv, NEW o \in Orders, MarkUnresolved(o), ostate[o] # "absent"
  PROVE  \A p \in Orders : RowTold(p)
  BY DEF MarkUnresolved, RowTold, AInv, JInv, Types, JournalTypes

LEMMA RowsTold ==
  ASSUME AInv, Works
  PROVE  \A p \in Orders : RowTold(p)
<1> USE DEF AInv, JInv
<1>1. CASE UNCHANGED <<ostate, applied>>
  BY <1>1 DEF RowTold
<1>2. CASE Send
  BY <1>2 DEF Send, RowTold, Control, Current, Processing, Types, JournalTypes
<1>3. ASSUME NEW e \in Entries, open_position(e) PROVE \A p \in Orders : RowTold(p)
  <2>1. /\ ostate[<<e, "entry">>] = "absent" /\ pc' = "send" /\ cur' = <<e, "entry">>
        /\ ostate' = [ostate EXCEPT ![<<e, "entry">>] = "pending_submission"] /\ UNCHANGED applied
    BY <1>3 DEF open_position
  <2>2. ~IsLeg(<<e, "entry">>) /\ <<e, "entry">>[1] = e
    BY DEF IsLeg, Legs
  <2> QED BY <1>3, <2>1, <2>2 DEF RowTold, Intended, Types, JournalTypes
<1>4. CASE Request
  <2>1. cur \in Orders /\ ostate[cur] # "absent"
    BY <1>4 DEF Request, Control, Processing, Current
  <2>2. CASE Accept(cur) /\ ApplyOrderState(cur, "new", 0, requested[cur])
    <3>1. bstate'[cur] # "none"
      BY <2>1, <2>2 DEF Accept
    <3> QED BY <2>1, <2>2, <3>1, ApplyTold DEF Working, Terminal
  <2> QED BY <1>4, <2>1, <2>2, MarkTold DEF Request
<1>5. CASE DiscoverLegs
  <2>1. cur \in Orders /\ IsEntry(cur) /\ bstate[cur] # "none"
    BY <1>5 DEF DiscoverLegs, Control, Processing, Current, Linking, Told
  <2>2. \A o \in {cur[1]} \X Legs : IsLeg(o) /\ bstate[o] # "none"
    BY <2>1, KindOf DEF Together, IsLeg
  <2>3. \A o \in Orders : (o \in {cur[1]} \X Legs /\ ostate'[o] = "new") \/ ostate'[o] = ostate[o]
    BY <1>5 DEF DiscoverLegs
  <2>4. UNCHANGED applied
    BY <1>5 DEF DiscoverLegs
  <2> QED BY <2>2, <2>3, <2>4 DEF RowTold
<1>6. ASSUME NEW k \in Legs, ApplyLeg(k) PROVE \A p \in Orders : RowTold(p)
  <2>1. pc \in {"leg_target", "leg_stop"}
    BY <1>6 DEF ApplyLeg, LegStep, Legs
  <2>2. /\ cur \in Orders /\ Leg(cur, k) \in Orders /\ IsEntry(cur) /\ bstate[cur] # "none"
        /\ snapshot[k].state \in Working \cup Terminal /\ snapshot[k].filled \in Int
        /\ ostate[cur] # "absent" /\ ostate[Leg(cur, k)] # "absent"
        /\ snapshot[k].state \in Terminal => 
             bstate[Leg(cur, k)] = snapshot[k].state /\ filled[Leg(cur, k)] = snapshot[k].filled
    BY <2>1, OrderParts DEF Leg, Control, Current, Processing, Linking, Told, Types, MemoryTypes
  <2>3. bstate[Leg(cur, k)] # "none"
    BY <2>2, KindOf DEF Together, Leg
  <2>4. UNCHANGED broker
    BY <1>6 DEF ApplyLeg
  <2>5. CASE MarkUnresolved(cur)
    BY <2>2, <2>5, MarkTold
  <2>6. CASE ApplyOrderState(Leg(cur, k), snapshot[k].state, snapshot[k].filled, snapshot[k].qty)
    BY <2>2, <2>3, <2>4, <2>6, ApplyTold DEF broker
  <2> QED BY <1>6, <2>5, <2>6 DEF ApplyLeg
<1>7. ASSUME NEW o \in Orders, sync_order(o) PROVE \A p \in Orders : RowTold(p)
  <2>1. ostate[o] # "absent" /\ UNCHANGED broker
    BY <1>7 DEF sync_order, First, Control
  <2>2. CASE MarkUnresolved(o)
    BY <2>1, <2>2, MarkTold
  <2>3. CASE bstate[o] # "none" /\ ApplyOrderState(o, bstate[o], filled[o], bqty[o])
    <3>1. bstate[o] \in Working \cup Terminal /\ filled[o] \in Int /\ bstate'[o] = bstate[o] /\ filled'[o] = filled[o]
      BY <2>1, <2>3 DEF Types, BrokerTypes, broker
    <3> QED BY <2>1, <2>3, <3>1, ApplyTold
  <2>4. CASE ostate[o] = "pending_submission"
    <3>1. UNCHANGED applied /\ (UNCHANGED ostate \/ (IsEntry(o) /\ ostate' = [ostate EXCEPT ![o] = "canceled"]))
      BY <1>7, <2>4 DEF sync_order
    <3>2. bstate[o] = "none"
      BY <2>4 DEF Unsent
    <3> QED BY <2>1, <2>4, <3>1, <3>2 DEF RowTold, Types, JournalTypes
  <2> QED BY <1>7, <2>2, <2>3, <2>4 DEF sync_order, Fetch
<1>8. ASSUME NEW o \in Orders, cancel_flatten_entry(o) \/ cancel_active(o)
      PROVE  \A p \in Orders : RowTold(p)
  <2>1. ostate[o] # "absent"
    BY <1>8 DEF cancel_flatten_entry, cancel_active, First, Control
  <2>2. UNCHANGED <<ostate, applied>> \/ MarkUnresolved(o)
    BY <1>8 DEF cancel_flatten_entry, cancel_active, journal, orders
  <2> QED BY <1>1, <2>1, <2>2, MarkTold
<1>9. CASE close_decision
  <2>1. Closing \in Entries
    BY <1>9 DEF Closing, Types, MemoryTypes, close_decision, Control
  <2>2. ASSUME NEW k \in ExitKinds, ostate[<<Closing, k>>] = "absent", UNCHANGED applied,
               ostate' = [ostate EXCEPT ![<<Closing, k>>] = "pending_submission"],
               cur' = <<Closing, k>>, pc' = "send"
        PROVE  \A p \in Orders : RowTold(p)
    <3>1. ~IsLeg(<<Closing, k>>) /\ ~IsEntry(<<Closing, k>>)
      BY KindsAssumption DEF IsLeg, IsEntry
    <3> QED BY <2>2, <3>1 DEF RowTold, Intended, Types, JournalTypes
  <2> QED BY <1>1, <1>9, <2>1, <2>2 DEF close_decision, orders
<1>10. reconcile \/ synced \/ cancels_sent \/ observe \/ tick \/ ticked \/ close_position 
       \/ active_canceled \/ SessionClock \/ Crash => UNCHANGED <<ostate, applied>>
  BY DEF reconcile, synced, cancels_sent, observe, tick, ticked, close_position, active_canceled, SessionClock,
         Crash, journal, orders
<1> QED BY <1>1, <1>2, <1>3, <1>4, <1>5, <1>6, <1>7, <1>8, <1>9, <1>10 DEF Works, WorkerStep

(* The intents to flatten and to close stay, and so does the trade id. *)
LEMMA MarksStay ==
  ASSUME AInv, Works
  PROVE  /\ \A e \in Entries : (flatten[e] => flatten'[e]) /\ (pending[e] => pending'[e])
         /\ \A o \in Orders : linked[o] => linked'[o]
         /\ \A o \in Orders : ~IsLeg(o) /\ requested'[o] # requested[o] => Intended(o)
<1> USE DEF AInv, JInv
<1> DEFINE Goal == /\ \A e \in Entries : (flatten[e] => flatten'[e]) /\ (pending[e] => pending'[e])
                   /\ \A o \in Orders : linked[o] => linked'[o]
                   /\ \A o \in Orders : ~IsLeg(o) /\ requested'[o] # requested[o] => Intended(o)
<1> SUFFICES Goal
  OBVIOUS
<1>1. CASE UNCHANGED <<flatten, pending, linked, requested>>
  BY <1>1
<1>2. ASSUME NEW o \in Orders, NEW s, NEW q, NEW size, ApplyOrderState(o, s, q, size) PROVE Goal
  BY <1>2 DEF ApplyOrderState, Types, JournalTypes
<1>3. ASSUME NEW o \in Orders, MarkUnresolved(o) PROVE Goal
  BY <1>3 DEF MarkUnresolved, trades
<1>4. ASSUME NEW e \in Entries, open_position(e) PROVE Goal
  <2>1. /\ ostate[<<e, "entry">>] = "absent" /\ pc' = "send" /\ cur' = <<e, "entry">>
        /\ requested' = [requested EXCEPT ![<<e, "entry">>] = Qty] /\ UNCHANGED <<flatten, pending, linked>>
    BY <1>4 DEF open_position, trades
  <2>2. ~IsLeg(<<e, "entry">>) /\ <<e, "entry">>[1] = e
    BY DEF IsLeg, Legs
  <2> QED BY <1>4, <2>1, <2>2 DEF Intended, Types, JournalTypes
<1>5. CASE DiscoverLegs
  <2>1. cur \in Orders /\ UNCHANGED <<flatten, pending>>
    BY <1>5 DEF DiscoverLegs, Control, Processing, trades
  <2>2. \A o \in {cur[1]} \X Legs : IsLeg(o)
    BY DEF IsLeg
  <2> QED BY <1>5, <2>1, <2>2 DEF DiscoverLegs
<1>6. CASE close_decision
  <2>1. Closing \in Entries
    BY <1>6 DEF Closing, Types, MemoryTypes, close_decision, Control
  <2>2. ASSUME NEW k \in ExitKinds, ostate[<<Closing, k>>] = "absent",
               cur' = <<Closing, k>>, pc' = "send", UNCHANGED <<flatten, pending>>,
               requested' = [requested EXCEPT ![<<Closing, k>>] = remaining[Closing]],
               linked' = [linked EXCEPT ![<<Closing, k>>] = TRUE]
        PROVE  Goal
    <3>1. ~IsLeg(<<Closing, k>>) /\ ~IsEntry(<<Closing, k>>) /\ <<Closing, k>> \in Orders
      BY <2>1, RowsOf
    <3> QED BY <2>2, <3>1 DEF Intended, Types, JournalTypes
  <2> QED BY <1>1, <1>6, <2>1, <2>2 DEF close_decision, orders, trades
<1>7. CASE close_position
  <2>1. UNCHANGED <<flatten, linked, requested>>
    BY <1>7 DEF close_position, orders
  <2>2. UNCHANGED pending \/ pending' = [pending EXCEPT ![Closing] = TRUE]
    BY <1>7 DEF close_position
  <2> QED BY <2>1, <2>2 DEF Types, JournalTypes
<1>8. CASE tick
  BY <1>8 DEF tick, trades
<1>9. CASE Request \/ (\E k \in Legs : ApplyLeg(k))
  <2>1. ASSUME NEW k \in Legs, ApplyLeg(k) PROVE cur \in Orders /\ Leg(cur, k) \in Orders
    <3>1. pc \in {"leg_target", "leg_stop"}
      BY <2>1 DEF ApplyLeg, LegStep, Legs
    <3> QED BY <3>1, OrderParts DEF Leg, Control, Processing
  <2>2. Request => cur \in Orders
    BY DEF Request, Control, Processing
  <2>3. CASE Request
    BY <1>2, <1>3, <2>2, <2>3 DEF Request
  <2>4. ASSUME NEW k \in Legs, ApplyLeg(k) PROVE Goal
    <3>1. MarkUnresolved(cur) \/ ApplyOrderState(Leg(cur, k), snapshot[k].state, snapshot[k].filled, snapshot[k].qty)
      BY <2>4 DEF ApplyLeg
    <3> QED BY <1>2, <1>3, <2>1, <2>4, <3>1
  <2> QED BY <1>9, <2>3, <2>4
<1>10. ASSUME NEW o \in Orders, sync_order(o) \/ cancel_flatten_entry(o) \/ cancel_active(o) PROVE Goal
  <2>1. \/ UNCHANGED <<flatten, pending, linked, requested>>
        \/ MarkUnresolved(o)
        \/ ApplyOrderState(o, bstate[o], filled[o], bqty[o])
    BY <1>10 DEF sync_order, Fetch, cancel_flatten_entry, cancel_active, journal, orders, trades
  <2> QED BY <1>1, <1>2, <1>3, <2>1
<1>11. Send \/ reconcile \/ synced \/ cancels_sent \/ observe \/ ticked
       \/ active_canceled \/ SessionClock \/ Crash => UNCHANGED <<flatten, pending, linked, requested>>
  BY DEF Send, reconcile, synced, cancels_sent, observe, ticked, active_canceled, SessionClock,
         Crash, journal, orders, trades
<1>12. CASE WorkerStep
  <2> HIDE DEF Goal
  <2> DEFINE Quiet == UNCHANGED <<flatten, pending, linked, requested>>
             OfAnOrder == \E o \in Orders : sync_order(o) \/ cancel_flatten_entry(o) \/ cancel_active(o)
  <2>1. Send \/ reconcile \/ synced \/ cancels_sent \/ observe \/ ticked \/ active_canceled => Quiet
    BY <1>11
  <2>2. OfAnOrder => Goal
    BY <1>10
  <2>3. (\E o \in Orders : sync_order(o)) \/ (\E o \in Orders : cancel_flatten_entry(o))
        \/ (\E o \in Orders : cancel_active(o)) => OfAnOrder
    OBVIOUS
  <2>4. Quiet => Goal
    BY <1>1
  <2> HIDE DEF Quiet, OfAnOrder
  <2> QED BY <1>5, <1>6, <1>7, <1>8, <1>9, <1>12, <2>1, <2>2, <2>3, <2>4 DEF WorkerStep
<1> QED BY <1>1, <1>4, <1>11, <1>12 DEF Works

(* A market exit is intended for what remains, with nothing else open. *)
LEMMA ExitIntended ==
  ASSUME AInv, Works, NEW o \in Orders, Intended(o), ~IsEntry(o)
  PROVE  /\ o[1] = Closing /\ pc = "close" /\ task = "close" /\ safe_to_flatten
         /\ trade[o[1]] = "open" /\ KnownLegs(o[1]) = Legs /\ OpenOrders(TickerOf[o[1]]) = {}
         /\ linked'[o] /\ requested'[o] = remaining[o[1]]
         /\ UNCHANGED <<bstate, filled, bqty, holding>>
<1> USE DEF AInv, JInv
<1>1. CASE close_decision
  <2>1. PICK k \in ExitKinds : /\ cur' = <<Closing, k>>
                               /\ linked' = [linked EXCEPT ![<<Closing, k>>] = TRUE]
                               /\ requested' = [requested EXCEPT ![<<Closing, k>>] = remaining[Closing]]
                               /\ trade[Closing] = "open" /\ KnownLegs(Closing) = Legs /\ safe_to_flatten
                               /\ OpenOrders(TickerOf[Closing]) = {}
    BY <1>1 DEF close_decision, GiveUp, Intended, Control, Processing
  <2>2. o = <<Closing, k>> /\ o[1] = Closing
    BY <2>1 DEF Intended
  <2>3. pc = "close" /\ task = "close" /\ UNCHANGED broker
    BY <1>1 DEF close_decision, Control
  <2> QED BY <2>1, <2>2, <2>3 DEF Types, JournalTypes, broker
<1>2. ASSUME NEW p \in Orders, sync_order(p) PROVE FALSE
  <2>1. p \in todo /\ cur \notin Orders
    BY <1>2 DEF sync_order, First, Control, Processing
  <2>2. o = p
    BY <1>2, <2>1 DEF sync_order, Fetch, Intended
  <2> QED BY <2>1, <2>2 DEF Intended, Control
<1>3. ASSUME NEW e \in Entries, open_position(e) PROVE FALSE
  <2>1. o = <<e, "entry">>
    BY <1>3 DEF open_position, Intended
  <2> QED BY <2>1 DEF IsEntry
<1>4. \/ Send \/ Request \/ DiscoverLegs \/ (\E k \in Legs : ApplyLeg(k)) \/ reconcile \/ synced 
      \/ (\E p \in Orders : cancel_flatten_entry(p) \/ cancel_active(p)) \/ cancels_sent \/ observe
      \/ tick \/ ticked \/ close_position \/ active_canceled \/ SessionClock \/ Crash
      => pc' # "send"
  BY DEF Send, Request, DiscoverLegs, ApplyLeg, Back, reconcile, synced, cancel_flatten_entry, cancel_active, GiveUp,
         cancels_sent, observe, tick, ticked, close_position, active_canceled, SessionClock, Crash, memory
<1> QED BY <1>1, <1>2, <1>3, <1>4 DEF Works, WorkerStep, Intended

LEMMA WorksIsNext ==
  ASSUME Works
  PROVE  Next
  BY DEF Works, Next

LEMMA RowNext ==
  ASSUME AInv, Works, NEW o \in Orders
  PROVE  Row(o)'
<1>0. Row(o) /\ RowTold(o) /\ Unsent(o) /\ o[1] \in Entries
  BY RowsTold, OrderParts DEF AInv, JInv
<1>1. filled' = filled
  BY WorksAtBroker
<1>2. bstate[o] # "none" => bstate'[o] = bstate[o]
  BY WorksAtBroker, Placed
<1>3. bstate[o] = "none" /\ bstate'[o] # "none" => 
        (o = cur /\ ostate[o] = "unresolved") \/ (IsLeg(o) /\ ostate[o] = "absent")
  <2>1. IsLeg(o) /\ bstate[o] = "none" => ostate[o] = "absent"
    BY <1>0 DEF Row
  <2> QED BY <2>1, WorksAtBroker, Placed
<1>4. bstate'[o] = "none" =>
       /\ filled'[o] = 0 /\ applied'[o] = 0
       /\ ostate'[o] \in {"absent", "pending_submission", "unresolved"}
          \/ (IsEntry(o) /\ ostate'[o] = "canceled")
  BY <1>0, <1>1, <1>2 DEF Row, RowTold
<1>5. bstate'[o] # "none" /\ ostate'[o] \in Terminal => bstate'[o] = ostate'[o] /\ applied'[o] = filled'[o]
  BY <1>0, <1>1, <1>2, <1>3 DEF Row, RowTold, Terminal, Working
<1>6. IsLeg(o) /\ ostate'[o] # "absent" => bstate'[o] # "none"
  BY <1>0, <1>2 DEF Row, RowTold, IsLeg, IsEntry, Legs, Intended
<1>7. ostate'[o] # "absent" => ostate[o] # "absent" \/ IsLeg(o) \/ Intended(o)
  BY <1>0 DEF RowTold
<1>8. Intended(o) => ostate[o] = "absent"
  BY DEF Intended
<1>9. IsEntry(o) => ~IsLeg(o)
  BY DEF IsEntry, IsLeg, Legs
<1>10. IsEntry(o) /\ ostate'[o] # "absent" => requested'[o] = Qty
  <2>1. CASE Intended(o) /\ IsEntry(o)
    <3>1. open_position(o[1]) /\ o = <<o[1], "entry">>
      BY <2>1, KindOf DEF Intended, E
    <3> QED BY <3>1 DEF open_position, AInv, JInv, Types, JournalTypes
  <2>2. CASE IsEntry(o) /\ ostate[o] # "absent"
    BY <1>0, <1>8, <1>9, <2>2, MarksStay DEF Row
  <2> QED BY <1>7, <1>9, <2>1, <2>2
<1>11. o[2] \in ExitKinds /\ ostate'[o] # "absent" => linked'[o] /\ pending'[o[1]] /\ requested'[o] >= 1
  <2> SUFFICES ASSUME o[2] \in ExitKinds, ostate'[o] # "absent"
               PROVE  linked'[o] /\ pending'[o[1]] /\ requested'[o] >= 1
    OBVIOUS
  <2>0. ~IsLeg(o) /\ ~IsEntry(o)
    BY KindsAssumption DEF IsLeg, IsEntry
  <2>1. CASE Intended(o)
    <3>1. /\ linked'[o] /\ requested'[o] = remaining[o[1]] /\ task = "close" /\ o[1] = Closing
          /\ trade[o[1]] = "open"
      BY <2>0, <2>1, ExitIntended
    <3>2. pending[o[1]] /\ remaining[o[1]] >= 1
      BY <1>0, <3>1 DEF AInv, Purpose
    <3> QED BY <1>0, <3>1, <3>2, MarksStay
  <2>2. CASE ostate[o] # "absent"
    BY <1>0, <1>8, <2>0, <2>2, MarksStay DEF Row
  <2> QED BY <1>7, <2>0, <2>1, <2>2
<1>12. canceling'[o] => flatten'[o[1]] \/ pending'[o[1]]
  <2>1. CASE canceling[o]
    BY <1>0, <2>1, MarksStay DEF Row
  <2>2. CASE pc \in {"cancel", "cancel_legs"} /\ o \in todo
    <3>1. flatten[o[1]] \/ pending[o[1]]
      BY <2>2 DEF AInv, Purpose, JInv, Control
    <3> QED BY <1>0, <3>1, MarksStay
  <2> QED BY <2>1, <2>2, WorksAtBroker
<1> QED BY <1>4, <1>5, <1>6, <1>10, <1>11, <1>12 DEF Row, IsLeg, IsEntry

(* An entry and its legs at the broker move in the worker's steps when the *)
(* entry is accepted, and in no other.                                     *)
EntryRests(e) == \A k \in {"entry"} \cup Legs :
                   UNCHANGED <<bstate[<<e, k>>], filled[<<e, k>>], bqty[<<e, k>>]>>
EntryPlaced(e) ==
  /\ bstate[E(e)] = "none" /\ bstate'[E(e)] = "new" /\ bqty'[E(e)] = Qty /\ filled'[E(e)] = 0
  /\ \A k \in Legs : bstate'[<<e, k>>] = "held" /\ bqty'[<<e, k>>] = Qty /\ filled'[<<e, k>>] = 0

LEMMA EntryRows ==
  ASSUME AInv, Works, NEW e \in Entries
  PROVE  EntryRests(e) \/ (EntryPlaced(e) /\ cur = E(e))
<1>0. filled' = filled
  BY WorksAtBroker
<1>1. CASE UNCHANGED <<bstate, bqty>>
  BY <1>0, <1>1 DEF EntryRests
<1>2. CASE pc = "request" /\ Accept(cur)
  <2>1. CASE IsEntry(cur) /\ cur[1] = e
    <3>1. cur = E(e)
      BY <1>2, <2>1, Placed, KindOf
    <3>2. \A k \in Legs : <<e, k>> # cur /\ IsLeg(<<e, k>>) /\ <<e, k>>[1] = e /\ <<e, k>> \in Orders
      BY <3>1, RowsOf
    <3>3. requested[cur] = Qty
      BY <1>2, <2>1, Placed DEF AInv, Row
    <3>4. bstate'[cur] = "new" /\ bqty'[cur] = Qty /\ bstate[cur] = "none" /\ cur \in Orders
      BY <1>2, <3>3, Placed
    <3>5. \A k \in Legs : bstate'[<<e, k>>] = "held" /\ bqty'[<<e, k>>] = Qty /\ bstate[<<e, k>>] = "none"
      BY <1>2, <2>1, <3>2, <3>3, Placed
    <3>6. filled[cur] = 0 /\ \A k \in Legs : filled[<<e, k>>] = 0
      BY <3>2, <3>4, <3>5 DEF AInv, Row
    <3> QED BY <1>0, <3>1, <3>4, <3>5, <3>6 DEF EntryPlaced
  <2>2. CASE ~(IsEntry(cur) /\ cur[1] = e)
    <3>1. \A k \in {"entry"} \cup Legs : <<e, k>> \in Orders /\ <<e, k>> # cur
                                         /\ ~(IsEntry(cur) /\ IsLeg(<<e, k>>) /\ <<e, k>>[1] = cur[1])
      <4>1. E(e) # cur /\ E(e) \in Orders /\ ~IsLeg(E(e))
        BY <2>2, RowsOf
      <4>2. ~IsLeg(cur)
        BY <1>2, Placed
      <4>3. \A k \in Legs : <<e, k>> \in Orders /\ <<e, k>> # cur /\ <<e, k>>[1] = e
        BY <4>2, RowsOf
      <4> QED BY <2>2, <4>1, <4>3 DEF E
    <3> QED BY <1>0, <1>2, <3>1, Placed DEF EntryRests
  <2> QED BY <2>1, <2>2
<1> QED BY <1>1, <1>2, WorksAtBroker

LEMMA ShapeNext ==
  ASSUME AInv, Works, NEW e \in Entries
  PROVE  Shape(e)'
<1>1. Shape(e)
  BY DEF AInv
<1>2. CASE EntryRests(e)
  <2>1. UNCHANGED <<bstate[E(e)], filled[E(e)], bqty[E(e)]>>
    BY <1>2 DEF EntryRests, E
  <2>2. \A k \in Legs : UNCHANGED <<bstate[<<e, k>>], filled[<<e, k>>], bqty[<<e, k>>]>>
    BY <1>2 DEF EntryRests
  <2> QED BY <1>1, <2>1, <2>2 DEF Shape, Ended
<1>3. CASE EntryPlaced(e)
  BY <1>3, QtyAssumption DEF Shape, EntryPlaced, Terminal
<1> QED BY <1>2, <1>3, EntryRows

LEMMA CapacityNext ==
  ASSUME AInv, Works, NEW e \in Entries, Bracket(e)
  PROVE  Capacity(e)' /\ Protected(e)'
<1>1. Capacity(e) /\ Protected(e) /\ Held(e)' = Held(e)
  BY WorksAtBroker DEF Bracket, Held
<1>2. /\ flatten[e] => flatten'[e]
      /\ pending[e] => pending'[e]
  BY MarksStay
<1>3. CASE EntryRests(e)
  <2>1. UNCHANGED <<bstate[E(e)], filled[E(e)]>>
    BY <1>3 DEF EntryRests, E
  <2>2. \A k \in Legs : UNCHANGED <<bstate[<<e, k>>], filled[<<e, k>>], bqty[<<e, k>>]>>
    BY <1>3 DEF EntryRests
  <2>3. Capacity(e)'
    BY <1>1, <2>1, <2>2 DEF Capacity, Ended, Unfilled
  <2>4. Protected(e)'
    BY <1>1, <1>2, <2>1, <2>2 DEF Protected, Ended
  <2> QED BY <2>3, <2>4
<1>4. CASE EntryPlaced(e)
  <2>1. Held(e)' = 0
    BY <1>1, <1>4 DEF Capacity, EntryPlaced
  <2> QED BY <1>4, <2>1 DEF Capacity, Protected, EntryPlaced, Terminal
<1> QED BY <1>3, <1>4, EntryRows

(* An exit is not with the broker, and may yet be sent, only once intended.*)
LEMMA ExitUnplaced ==
  ASSUME AInv, Works, NEW e \in Entries, NEW k \in ExitKinds, Unplaced(<<e, k>>)'
  PROVE  Unplaced(<<e, k>>) \/ Intended(<<e, k>>)
<1> DEFINE o == <<e, k>>
<1>1. o \in Orders /\ ~IsLeg(o) /\ ~IsEntry(o)
  BY RowsOf
<1>2. bstate'[o] = "none" /\ ostate'[o] \in {"pending_submission", "unresolved"}
  BY DEF Unplaced, Uncertain
<1>3. bstate[o] = "none"
  BY <1>1, <1>2, WorksAtBroker, Placed
<1>4. ostate[o] \in {"absent", "pending_submission", "unresolved"}
  BY <1>1, <1>3 DEF AInv, Row
<1>5. RowTold(o)
  BY <1>1, RowsTold
<1> HIDE DEF o
<1>6. ostate[o] # "absent" \/ Intended(o)
  BY <1>1, <1>2, <1>5 DEF RowTold
<1>7. Unplaced(o) \/ Intended(o)
  BY <1>3, <1>4, <1>6 DEF Unplaced, Uncertain
<1> QED BY <1>7 DEF o

(* While an exit of an entry works, or is about to be sent, nothing else of*)
(* the entry is sent. *)
LEMMA ExitStaysAlone ==
  ASSUME AInv, Works, NEW e \in Entries, NEW k \in ExitKinds, ~Ended(<<e, k>>) \/ Unplaced(<<e, k>>),
         NEW p \in Rows(e), p # <<e, k>>
  PROVE  bstate'[p] = bstate[p] /\ Ended(p)' /\ ~Unplaced(p)'
<1>1. /\ bstate[E(e)] \in Terminal /\ \A l \in Legs : Ended(<<e, l>>)
      /\ \A l \in ExitKinds : l # k => Ended(<<e, l>>) /\ ~Unplaced(<<e, l>>)
  BY ExitWorks
<1>2. p \in Orders /\ p[1] = e /\ <<e, k>> \in Orders /\ ~IsLeg(<<e, k>>) /\ ~IsEntry(<<e, k>>) /\ <<e, k>>[1] = e
  BY RowsOf
<1>3. p = E(e) \/ (\E l \in Legs : p = <<e, l>>) \/ (\E l \in ExitKinds \ {k} : p = <<e, l>>)
  BY RowsOf
<1>4. CASE \E l \in Legs \cup {"entry"} : p = <<e, l>>
  <2>1. EntryRests(e)
    BY <1>1, EntryRows DEF EntryPlaced, Terminal
  <2>2. bstate'[p] = bstate[p]
    BY <1>4, <2>1 DEF EntryRests
  <2>3. bstate[p] # "none"
    <3>1. bstate[E(e)] # "none"
      BY <1>1 DEF Terminal
    <3> QED BY <1>4, <3>1 DEF AInv, JInv, Together, E
  <2>4. Ended(p)
    BY <1>1, <1>4 DEF Ended, E, Terminal, Working
  <2> QED BY <2>2, <2>3, <2>4 DEF Ended, Unplaced
<1>5. CASE \E l \in ExitKinds \ {k} : p = <<e, l>>
  <2>1. PICK l \in ExitKinds : p = <<e, l>> /\ l # k
    BY <1>5
  <2>2. Ended(p) /\ ~Unplaced(p)
    BY <1>1, <2>1
  <2>3. ~IsLeg(p) /\ ~IsEntry(p)
    BY <2>1, RowsOf
  <2>4. bstate'[p] = bstate[p]
    BY <1>2, <2>2, <2>3, WorksAtBroker, Placed
  <2>5. ~Intended(p)
    <3>1. Open(<<e, k>>)
      BY <1>2, WorkingOpen DEF Unplaced, Uncertain, Open, Terminal
    <3>2. <<e, k>> \in OpenOrders(TickerOf[p[1]])
      BY <1>2, <3>1 DEF OpenOrders, Ticker
    <3> QED BY <1>2, <2>3, <3>2, ExitIntended
  <2>6. ~Unplaced(p)'
    BY <2>1, <2>2, <2>5, ExitUnplaced
  <2> QED BY <2>2, <2>4, <2>6 DEF Ended
<1> QED BY <1>3, <1>4, <1>5 DEF E

(* What an exit is intended for is all that its entry can still trade.     *)
LEMMA IntendedAlone ==
  ASSUME AInv, Works, NEW e \in Entries, NEW k \in ExitKinds, Intended(<<e, k>>)
  PROVE  /\ \A p \in Rows(e) : Ended(p)'
         /\ Alone(<<e, k>>)' /\ requested'[<<e, k>>] = Held(e)'
<1> DEFINE o == <<e, k>>
<1>1. o \in Orders /\ ~IsLeg(o) /\ ~IsEntry(o) /\ o[1] = e
  BY RowsOf
<1>2. /\ e = Closing /\ pc = "close" /\ safe_to_flatten
      /\ trade[e] = "open" /\ KnownLegs(e) = Legs /\ OpenOrders(TickerOf[e]) = {}
      /\ requested'[o] = remaining[e] /\ UNCHANGED <<bstate, filled, bqty, holding>>
  BY <1>1, ExitIntended
<1>3. \A p \in Rows(e) : p \in Orders /\ ~Open(p)
  BY <1>2, RowsOf DEF OpenOrders, Ticker
<1>4. \A l \in Legs : ostate[<<e, l>>] # "absent"
  BY <1>2 DEF KnownLegs
<1>5. \A p \in Rows(e) : IsLeg(p) => ostate[p] # "absent"
  <2>1. \A p \in Rows(e) : IsLeg(p) => p = <<e, p[2]>> /\ p[2] \in Legs
    BY KindOf, RowsOf
  <2> QED BY <1>4, <2>1
<1>6. \A p \in Rows(e) : Ended(p)
  BY <1>3, <1>5, WorkingOpen
<1>7. \A p \in Rows(e) : ~Unplaced(p)
  BY <1>3 DEF Unplaced, Uncertain, Open, Terminal
<1>8. \A l \in Legs : bstate[<<e, l>>] # "none"
  BY <1>4, RowsOf DEF AInv, Row
<1>9. bstate[E(e)] # "none"
  BY <1>8 DEF AInv, JInv, Together, Legs
<1>10. ASSUME NEW p \in Rows(e), p # o PROVE ~Unplaced(p)'
  <2>1. CASE p = E(e) \/ \E l \in Legs : p = <<e, l>>
    BY <1>2, <1>8, <1>9, <2>1 DEF Unplaced
  <2>2. ASSUME NEW l \in ExitKinds, p = <<e, l>> PROVE ~Unplaced(p)'
    <3>1. ~Intended(p)
      BY <1>10 DEF Intended
    <3> QED BY <1>7, <2>2, <3>1, ExitUnplaced
  <2> QED BY <2>1, <2>2, RowsOf
<1>11. requested'[o] = Held(e)'
  BY <1>2 DEF AInv, Account, Held
<1> QED BY <1>1, <1>2, <1>6, <1>10, <1>11 DEF Ended, Alone

LEMMA ExitNext ==
  ASSUME AInv, Works, NEW e \in Entries, Bracket(e), NEW k \in ExitKinds
  PROVE  ExitOK(<<e, k>>)'
<1> DEFINE o == <<e, k>>
<1>1. o \in Orders /\ ~IsLeg(o) /\ ~IsEntry(o) /\ o[1] = e /\ o \in Rows(e)
  BY RowsOf
<1>2. ExitOK(o)
  BY DEF Bracket
<1>3. UNCHANGED <<filled, holding>> /\ Held(e)' = Held(e)
  BY WorksAtBroker DEF Held
<1>4. Unplaced(o) \/ ~Ended(o) => Alone(o)'
  BY <1>1, ExitStaysAlone DEF Alone
<1> HIDE DEF o
<1>5. Unplaced(o)' => Unplaced(o) \/ Intended(o)
  BY ExitUnplaced DEF o
<1>6. CASE Intended(o)
  <2>1. Ended(o)' /\ Alone(o)' /\ requested'[o] = Held(e)'
    BY <1>1, <1>6, IntendedAlone DEF o
  <2> QED BY <1>1, <2>1 DEF ExitOK, o
<1>7. CASE Unplaced(o) /\ ~Intended(o)
  <2>1. bstate[o] = "none" /\ Alone(o)' /\ requested[o] = Held(e) /\ requested'[o] = requested[o]
    BY <1>1, <1>2, <1>4, <1>7, MarksStay DEF ExitOK, Unplaced
  <2>2. CASE cur = o /\ pc = "request" /\ Accept(cur)
    <3>1. bstate'[o] = "new" /\ bqty'[o] = requested[o]
      BY <2>2, Placed
    <3>2. filled'[o] = 0 /\ requested[o] >= 1 /\ requested[o] \in Int
      <4>1. ostate[o] # "absent" /\ o[2] = k
        BY <1>7 DEF Unplaced, Uncertain, o
      <4> QED BY <1>1, <1>3, <2>1, <4>1 DEF AInv, Row, JInv, Types, JournalTypes
    <3> QED BY <1>1, <1>3, <2>1, <3>1, <3>2 DEF ExitOK, Unplaced, Unfilled, o
  <2>3. CASE bstate'[o] = bstate[o]
    BY <1>1, <1>3, <2>1, <2>3 DEF ExitOK, Ended, Working, o
  <2> QED BY <1>1, <2>2, <2>3, WorksAtBroker, Placed
<1>8. CASE ~Ended(o)
  <2>1. bstate[o] # "none"
    BY <1>8 DEF Ended, Working
  <2>2. UNCHANGED <<bstate[o], bqty[o]>>
    BY <1>1, <2>1, WorksAtBroker, Placed
  <2>3. Alone(o)' /\ bstate[o] # "held" /\ Unfilled(o) = Held(e) /\ Held(e) >= 1
    BY <1>1, <1>2, <1>4, <1>8 DEF ExitOK
  <2> QED BY <1>1, <1>3, <2>1, <2>2, <2>3 DEF ExitOK, Unplaced, Unfilled, o
<1>9. CASE Ended(o) /\ ~Unplaced(o) /\ ~Intended(o)
  <2>1. bstate'[o] = bstate[o]
    BY <1>1, <1>9, WorksAtBroker, Placed
  <2> QED BY <1>5, <1>9, <2>1 DEF ExitOK, Ended, o
<1> QED BY <1>6, <1>7, <1>8, <1>9

(* An entry begins where nothing is held.                                  *)
LEMMA OpensBracket ==
  ASSUME AInv, Works, NEW e \in Entries, open_position(e)
  PROVE  Bracket(e)'
<1>1. /\ pc = "idle" /\ ~blocked /\ ostate[E(e)] = "absent" /\ UNCHANGED broker
      /\ ostate' = [ostate EXCEPT ![E(e)] = "pending_submission"]
  BY DEF open_position, E
<1>2. \A f \in Entries : TickerOf[f] = TickerOf[e] => ~Taken(f)
  BY OpensFree DEF AInv
<1>3. Held(e) = 0
  <2>1. TickerOf[e] \in Tickers /\ Free(TickerOf[e])
    BY <1>2, TickerAssumption DEF Free
  <2> QED BY <1>1, <2>1 DEF AInv, Account, Observed, Held
<1>4. bstate[E(e)] = "none"
  BY <1>1, RowsOf DEF AInv, JInv, Unsent
<1>5. \A k \in ExitKinds : ostate[<<e, k>>] = "absent"
  BY <1>4, ExitKnown
<1>6. \A k \in ExitKinds : bstate[<<e, k>>] = "none" /\ ostate'[<<e, k>>] = "absent"
  BY <1>1, <1>5, RowsOf DEF AInv, JInv, Unsent, Types, JournalTypes
<1>7. \A k \in ExitKinds : ExitOK(<<e, k>>)'
  BY <1>1, <1>6 DEF ExitOK, Ended, Unplaced, Uncertain, broker, Working
<1>8. Capacity(e)' /\ Protected(e)'
  BY <1>1, <1>3, <1>4 DEF Capacity, Protected, broker, Held, Terminal
<1> QED BY <1>7, <1>8 DEF Bracket

LEMMA BracketNext ==
  ASSUME AInv, Works, NEW e \in Entries, Taken(e)'
  PROVE  Bracket(e)'
<1>1. CASE Taken(e)
  <2>1. Bracket(e)
    BY <1>1 DEF AInv
  <2> QED BY <2>1, CapacityNext, ExitNext DEF Bracket
<1>2. CASE open_position(e)
  BY <1>2, OpensBracket
<1>3. JInv /\ Next
  BY WorksIsNext DEF AInv
<1> QED BY <1>1, <1>2, <1>3, TakenMoves

-----------------------------------------------------------------------------
(* The quantities. *)

AppliesReport == \E o \in Orders, s \in OrderStates, q, size \in 0..Qty : ApplyOrderState(o, s, q, size)

LEMMA Reports ==
  ASSUME AInv, Works
  PROVE  UNCHANGED <<applied, broker_qty, trade, remaining>> \/ AppliesReport
<1> USE DEF AInv, JInv
<1> DEFINE Quiet == UNCHANGED <<applied, broker_qty, trade, remaining>>
<1>1. CASE Request
  <2>1. cur \in Orders /\ requested[cur] \in 0..Qty /\ 0 \in 0..Qty /\ "new" \in OrderStates
    BY <1>1, QtyAssumption DEF Request, Control, Processing, Quantities, OrderStates, Working
  <2>2. ApplyOrderState(cur, "new", 0, requested[cur]) \/ Quiet
    BY <1>1 DEF Request, MarkUnresolved, trades
  <2> HIDE DEF Quiet
  <2>3. AppliesReport \/ Quiet
    BY <2>1, <2>2 DEF AppliesReport
  <2> QED BY <2>3 DEF Quiet
<1>2. ASSUME NEW k \in Legs, ApplyLeg(k) PROVE AppliesReport \/ Quiet
  <2>1. pc \in {"leg_target", "leg_stop"}
    BY <1>2 DEF ApplyLeg, LegStep, Legs
  <2>2. Leg(cur, k) \in Orders /\ snapshot[k].state \in OrderStates /\ snapshot[k].filled \in 0..Qty /\ snapshot[k].qty \in 0..Qty
    BY <2>1, OrderParts DEF Leg, Control, Processing, Quantities
  <2>3. ApplyOrderState(Leg(cur, k), snapshot[k].state, snapshot[k].filled, snapshot[k].qty) \/ Quiet
    BY <1>2 DEF ApplyLeg, MarkUnresolved, trades
  <2> HIDE DEF Quiet
  <2> QED BY <2>2, <2>3 DEF AppliesReport
<1>3. ASSUME NEW o \in Orders, sync_order(o) PROVE AppliesReport \/ Quiet
  <2>1. \/ Quiet
        \/ bstate[o] # "none" /\ ApplyOrderState(o, bstate[o], filled[o], bqty[o])
    BY <1>3 DEF sync_order, Fetch, MarkUnresolved, trades
  <2>2. bstate[o] # "none" => bstate[o] \in OrderStates /\ filled[o] \in 0..Qty /\ bqty[o] \in 0..Qty
    BY DEF Quantities, Types, BrokerTypes, OrderStates
  <2> HIDE DEF Quiet
  <2> QED BY <2>1, <2>2 DEF AppliesReport
<1>4. ASSUME NEW o \in Orders, cancel_flatten_entry(o) \/ cancel_active(o) PROVE Quiet
  BY <1>4 DEF cancel_flatten_entry, cancel_active, MarkUnresolved, journal, orders, trades
<1>5. Send \/ DiscoverLegs \/ reconcile \/ synced \/ cancels_sent \/ observe \/ tick \/ ticked \/ close_position
      \/ close_decision \/ active_canceled \/ SessionClock \/ Crash => Quiet
  BY DEF Send, DiscoverLegs, reconcile, synced, cancels_sent, observe, tick, ticked, close_position, close_decision,
         active_canceled, SessionClock, Crash, journal, orders, trades
<1>6. ASSUME NEW e \in Entries, open_position(e) PROVE Quiet
  BY <1>6 DEF open_position, trades
<1> HIDE DEF Quiet
<1>7. AppliesReport \/ Quiet
  <2>1. CASE WorkerStep
    BY <1>1, <1>2, <1>3, <1>4, <1>5, <2>1 DEF WorkerStep, Quiet
  <2> QED BY <1>5, <1>6, <2>1 DEF Works
<1> QED BY <1>7 DEF Quiet

LEMMA ReportsRange ==
  ASSUME AInv, JInv', AppliesReport
  PROVE  /\ applied' \in [Orders -> 0..Qty] /\ broker_qty' \in [Orders -> 0..Qty \cup {NoQty}]
         /\ remaining' \in [Entries -> 0..Qty]
         /\ \A e \in Entries : trade'[e] = "open" => remaining'[e] >= 1
<1>1. PICK o \in Orders, s \in OrderStates, q \in 0..Qty, size \in 0..Qty : ApplyOrderState(o, s, q, size)
  BY DEF AppliesReport
<1>2. /\ applied \in [Orders -> 0..Qty] /\ broker_qty \in [Orders -> 0..Qty \cup {NoQty}]
      /\ remaining \in [Entries -> 0..Qty] /\ trade \in [Entries -> {"none", "open", "closed"}]
      /\ \A e \in Entries : trade[e] = "open" => remaining[e] >= 1
      /\ remaining' \in [Entries -> Nat] /\ o[1] \in Entries
  BY OrderParts DEF AInv, JInv, Types, JournalTypes, Quantities
<1>3. applied' \in [Orders -> 0..Qty] /\ broker_qty' \in [Orders -> 0..Qty \cup {NoQty}]
  BY <1>1, <1>2 DEF ApplyOrderState
<1>4. CASE UNCHANGED <<trade, remaining>>
  BY <1>2, <1>3, <1>4
<1>5. CASE q > applied[o] /\ IsEntry(o)
  <2>1. /\ remaining' = [remaining EXCEPT ![o[1]] = q] /\ q >= 1
        /\ trade' = [trade EXCEPT ![o[1]] = IF @ = "none" THEN "open" ELSE @]
    BY <1>1, <1>2, <1>5 DEF ApplyOrderState
  <2> QED BY <1>2, <1>3, <2>1
<1>6. CASE q > applied[o] /\ ~IsEntry(o)
  <2>1. /\ remaining' = [remaining EXCEPT ![o[1]] = @ - Delta(o, q)]
        /\ trade' = [trade EXCEPT ![o[1]] = IF remaining'[o[1]] = 0 THEN "closed" ELSE @]
    BY <1>1, <1>6 DEF ApplyOrderState
  <2>2. remaining'[o[1]] \in Nat /\ remaining'[o[1]] < remaining[o[1]]
    BY <1>2, <1>6, <2>1 DEF Delta
  <2>3. remaining' \in [Entries -> 0..Qty]
    <3>1. remaining'[o[1]] \in 0..Qty /\ remaining[o[1]] \in 0..Qty
      BY <1>2, <2>2, QtyAssumption
    <3>2. \E x : remaining' = [remaining EXCEPT ![o[1]] = x]
      BY <2>1
    <3> QED BY <1>2, <3>1, <3>2
  <2>4. ASSUME NEW e \in Entries, trade'[e] = "open" PROVE remaining'[e] >= 1
    BY <1>2, <2>1, <2>2, <2>4
  <2> QED BY <1>3, <2>3, <2>4
<1> QED BY <1>1, <1>4, <1>5, <1>6 DEF ApplyOrderState

LEMMA RequestedRange ==
  ASSUME AInv, Works
  PROVE  requested' \in [Orders -> 0..Qty]
<1> USE DEF AInv, JInv
<1> DEFINE Goal == requested' \in [Orders -> 0..Qty]
<1> SUFFICES Goal
  OBVIOUS
<1>1. UNCHANGED requested => Goal
  BY DEF Quantities
<1>2. ASSUME NEW e \in Entries, open_position(e) PROVE Goal
  <2>1. Qty \in 0..Qty /\ requested \in [Orders -> 0..Qty]
    BY QtyAssumption DEF Quantities
  <2> QED BY <1>2, <2>1 DEF open_position
<1>3. CASE DiscoverLegs
  <2>1. cur \in Orders
    BY <1>3 DEF DiscoverLegs, Control, Processing
  <2> QED BY <1>3, <2>1 DEF DiscoverLegs, Quantities
<1>4. CASE close_decision
  <2>1. Closing \in Entries
    BY <1>4 DEF Closing, Types, MemoryTypes, close_decision, Control
  <2>2. \/ UNCHANGED requested
        \/ \E k \in ExitKinds : requested' = [requested EXCEPT ![<<Closing, k>>] = remaining[Closing]]
    BY <1>4 DEF close_decision, orders
  <2>3. ASSUME NEW k \in ExitKinds, requested' = [requested EXCEPT ![<<Closing, k>>] = remaining[Closing]]
        PROVE  Goal
    BY <2>1, <2>3 DEF Quantities
  <2> QED BY <1>1, <2>2, <2>3
<1>5. ASSUME NEW o \in Orders, sync_order(o) \/ cancel_flatten_entry(o) \/ cancel_active(o) PROVE UNCHANGED requested
  BY <1>5 DEF sync_order, Fetch, ApplyOrderState, cancel_flatten_entry, cancel_active, MarkUnresolved, journal, orders
<1>6. Send \/ Request \/ (\E k \in Legs : ApplyLeg(k)) \/ reconcile \/ synced \/ cancels_sent \/ observe \/ tick \/ ticked
      \/ close_position \/ active_canceled \/ SessionClock \/ Crash => UNCHANGED requested
  BY DEF Send, Request, ApplyLeg, ApplyOrderState, MarkUnresolved, reconcile, synced, cancels_sent, observe, tick, ticked,
         close_position, active_canceled, SessionClock, Crash, journal, orders
<1> HIDE DEF Goal
<1>7. CASE WorkerStep
  BY <1>1, <1>3, <1>4, <1>5, <1>6, <1>7 DEF WorkerStep
<1> QED BY <1>1, <1>2, <1>6, <1>7 DEF Works

LEMMA SnapshotMoves ==
  ASSUME AInv, Works
  PROVE  \/ UNCHANGED snapshot
         \/ snapshot' = NoSnapshot
         \/ \E e \in Entries : snapshot' = NestedLegs(e)
<1> USE DEF AInv, JInv
<1> DEFINE Goal == UNCHANGED snapshot \/ snapshot' = NoSnapshot \/ \E e \in Entries : snapshot' = NestedLegs(e)
<1> SUFFICES Goal
  OBVIOUS
<1>1. CASE Request
  <2>1. cur[1] \in Entries
    BY <1>1, OrderParts DEF Request, Control, Processing
  <2>2. snapshot' = NestedLegs(cur[1]) \/ snapshot' = NoSnapshot
    BY <1>1 DEF Request, Back
  <2> QED BY <2>1, <2>2
<1>2. ASSUME NEW o \in Orders, sync_order(o) PROVE Goal
  <2>1. snapshot' = NestedLegs(o[1]) \/ UNCHANGED snapshot
    BY <1>2 DEF sync_order, Fetch
  <2> QED BY <2>1, OrderParts
<1>3. (\E k \in Legs : ApplyLeg(k)) \/ Crash => UNCHANGED snapshot \/ snapshot' = NoSnapshot
  BY DEF ApplyLeg, Back, Crash
<1>4. ASSUME NEW o \in Orders, cancel_flatten_entry(o) \/ cancel_active(o) PROVE UNCHANGED snapshot
  BY <1>4 DEF cancel_flatten_entry, cancel_active
<1>5. Send \/ DiscoverLegs \/ reconcile \/ synced \/ cancels_sent \/ observe \/ tick \/ ticked \/ close_position
      \/ close_decision \/ active_canceled \/ SessionClock \/ (\E e \in Entries : open_position(e)) => UNCHANGED snapshot
  BY DEF Send, DiscoverLegs, reconcile, synced, cancels_sent, observe, tick, ticked, close_position, close_decision,
         active_canceled, SessionClock, open_position, memory
<1>6. UNCHANGED snapshot \/ snapshot' = NoSnapshot => Goal
  OBVIOUS
<1> HIDE DEF Goal
<1>7. CASE WorkerStep
  BY <1>1, <1>2, <1>3, <1>4, <1>5, <1>6, <1>7 DEF WorkerStep
<1> QED BY <1>3, <1>5, <1>6, <1>7 DEF Works

LEMMA QuantitiesNext ==
  ASSUME AInv, JInv', Works
  PROVE  Quantities' /\ \A e \in Entries : trade'[e] = "open" => remaining'[e] >= 1
<1>1. /\ applied' \in [Orders -> 0..Qty] /\ broker_qty' \in [Orders -> 0..Qty \cup {NoQty}]
      /\ remaining' \in [Entries -> 0..Qty]
      /\ \A e \in Entries : trade'[e] = "open" => remaining'[e] >= 1
  BY Reports, ReportsRange DEF AInv, Quantities
<1>2. requested' \in [Orders -> 0..Qty]
  BY RequestedRange
<1>3. filled' \in [Orders -> 0..Qty]
  BY WorksAtBroker DEF AInv, Quantities
<1>4. bqty' \in [Orders -> 0..Qty]
  <2>1. CASE Accept(cur) /\ pc = "request"
    <3>1. cur \in Orders /\ requested[cur] \in 0..Qty
      BY <2>1, Placed DEF AInv, Quantities
    <3>2. \A p \in Orders : bqty'[p] \in {requested[cur], bqty[p]}
      BY <2>1 DEF Accept
    <3>3. bqty' \in [Orders -> Int]
      BY DEF JInv, Types, BrokerTypes
    <3> QED BY <3>1, <3>2, <3>3 DEF AInv, Quantities
  <2> QED BY <2>1, WorksAtBroker DEF AInv, Quantities
<1>5. snapshot' \in [Legs -> [state : OrderStates, filled : 0..Qty, qty : 0..Qty]]
  <2>1. snapshot' \in [Legs -> [state : OrderStates, filled : Int, qty : Int]]
    BY DEF JInv, Types, MemoryTypes
  <2>2. CASE UNCHANGED snapshot
    BY <2>2 DEF AInv, Quantities
  <2>3. CASE snapshot' = NoSnapshot
    BY <2>3, QtyAssumption DEF NoSnapshot, OrderStates
  <2>4. ASSUME NEW e \in Entries, snapshot' = NestedLegs(e) PROVE snapshot' \in [Legs -> [state : OrderStates, filled : 0..Qty, qty : 0..Qty]]
    <3>1. \A k \in Legs : <<e, k>> \in Orders
      BY RowsOf
    <3>2. \A k \in Legs : snapshot'[k].filled \in 0..Qty /\ snapshot'[k].qty \in 0..Qty
      BY <1>3, <1>4, <2>4, <3>1 DEF NestedLegs
    <3>3. \A k \in Legs : snapshot'[k] \in [state : OrderStates, filled : 0..Qty, qty : 0..Qty]
      BY <2>1, <3>2
    <3>4. DOMAIN snapshot' = Legs /\ snapshot' = [k \in Legs |-> snapshot'[k]]
      BY <2>1
    <3> QED BY <3>3, <3>4
  <2> QED BY <2>2, <2>3, <2>4, SnapshotMoves
<1> QED BY <1>1, <1>2, <1>3, <1>4, <1>5 DEF Quantities

-----------------------------------------------------------------------------
(* The program of the worker. *)

Looking == pc \in {"sync", "cancel", "observe"} \/ (pc \in Processing /\ task \notin {"entry", "exit"})

LEMMA CancelsCome ==
  ASSUME Works
  PROVE  /\ pc' = "cancel" => synced \/ \E o \in Orders : cancel_flatten_entry(o)
         /\ pc' = "cancel_legs" => close_decision \/ \E o \in Orders : cancel_active(o)
<1>1. Send \/ Request \/ DiscoverLegs \/ (\E k \in Legs : ApplyLeg(k)) \/ reconcile \/ cancels_sent \/ observe \/ tick
      \/ ticked \/ active_canceled \/ SessionClock \/ Crash \/ (\E e \in Entries : open_position(e))
      => pc' \notin {"cancel", "cancel_legs"}
  BY DEF Send, Request, DiscoverLegs, ApplyLeg, Back, reconcile, cancels_sent, observe, tick, ticked,
         active_canceled, GiveUp, SessionClock, Crash, open_position, memory
<1>2. close_position => pc' \notin {"cancel", "cancel_legs"}
  BY DEF close_position
<1>3. ASSUME NEW o \in Orders, sync_order(o) PROVE pc' \notin {"cancel", "cancel_legs"}
  BY <1>3 DEF sync_order, Fetch
<1>4. (synced => pc' # "cancel_legs") /\ (close_decision => pc' # "cancel")
  BY DEF synced, close_decision, GiveUp
<1>5. ASSUME NEW o \in Orders, cancel_flatten_entry(o) PROVE pc' # "cancel_legs"
  BY <1>5 DEF cancel_flatten_entry
<1>6. ASSUME NEW o \in Orders, cancel_active(o) PROVE pc' # "cancel"
  BY <1>6 DEF cancel_active, GiveUp
<1>7. CASE WorkerStep
  BY <1>1, <1>2, <1>3, <1>4, <1>5, <1>6, <1>7 DEF WorkerStep
<1> QED BY <1>1, <1>7 DEF Works

LEMMA CloseStays ==
  ASSUME AInv, Works, task' = "close"
  PROVE  close_position \/ (task = "close" /\ UNCHANGED toclose)
<1> DEFINE Stays == task = "close" /\ UNCHANGED toclose
<1> SUFFICES close_position \/ Stays
  OBVIOUS
<1>1. Send \/ DiscoverLegs \/ reconcile \/ synced \/ cancels_sent \/ observe
      \/ close_decision \/ SessionClock => Stays
  BY DEF Send, DiscoverLegs, reconcile, synced, cancels_sent, observe, GiveUp, close_decision, SessionClock, memory
<1>2. ~(tick \/ ticked \/ active_canceled \/ Crash \/ (\E e \in Entries : open_position(e)))
  BY DEF tick, ticked, active_canceled, GiveUp, Crash, open_position
<1>3. Request \/ (\E k \in Legs : ApplyLeg(k)) => Stays
  BY DEF Request, ApplyLeg, Back
<1>4. ASSUME NEW o \in Orders, sync_order(o) \/ cancel_flatten_entry(o) \/ cancel_active(o) PROVE Stays
  BY <1>4 DEF sync_order, cancel_flatten_entry, cancel_active, GiveUp
<1> HIDE DEF Stays
<1>5. CASE WorkerStep
  BY <1>1, <1>2, <1>3, <1>4, <1>5 DEF WorkerStep
<1> QED BY <1>1, <1>2, <1>5 DEF Works

LEMMA LookingMoves ==
  ASSUME AInv, Works, Looking'
  PROVE  reconcile \/ (Looking /\ UNCHANGED safe_to_flatten)
<1> USE DEF AInv, JInv
<1> DEFINE Stays == Looking /\ UNCHANGED safe_to_flatten
<1> SUFFICES reconcile \/ Stays
  OBVIOUS
<1>1. Send \/ DiscoverLegs \/ synced \/ cancels_sent => Stays
  BY DEF Send, DiscoverLegs, synced, cancels_sent, Looking, Processing, memory
<1>2. ~(observe \/ tick \/ ticked \/ active_canceled \/ Crash)
  BY DEF observe, tick, ticked, active_canceled, GiveUp, Crash, Looking, Processing
<1>3. ~close_position /\ ~close_decision /\ ~\E e \in Entries : open_position(e)
  BY DEF close_position, close_decision, open_position, GiveUp, Control, Looking, Processing
<1>4. ~SessionClock
  BY DEF SessionClock, memory, Looking, Processing
<1>5. CASE Request \/ (\E k \in Legs : ApplyLeg(k))
  <2>1. pc \in Processing /\ UNCHANGED safe_to_flatten
    BY <1>5 DEF Request, ApplyLeg, LegStep, Legs, Processing
  <2>2. Back \/ (UNCHANGED task /\ pc' \in Processing)
    BY <1>5 DEF Request, ApplyLeg, Processing
  <2>3. Back /\ task \in {"entry", "exit"} => pc' \in {"idle", "next"}
    BY DEF Back
  <2>4. task \notin {"entry", "exit"}
    BY <2>2, <2>3 DEF Looking, Processing
  <2> QED BY <2>1, <2>4 DEF Looking
<1>6. ASSUME NEW o \in Orders, sync_order(o) \/ cancel_flatten_entry(o) PROVE Stays
  BY <1>6 DEF sync_order, cancel_flatten_entry, Looking
<1>7. ASSUME NEW o \in Orders, cancel_active(o) PROVE FALSE
  BY <1>7 DEF cancel_active, GiveUp, Looking, Processing
<1> HIDE DEF Stays
<1>8. CASE WorkerStep
  BY <1>1, <1>2, <1>3, <1>5, <1>6, <1>7, <1>8 DEF WorkerStep
<1> QED BY <1>2, <1>3, <1>4, <1>8 DEF Works

LEMMA ClosingIsEntry ==
  ASSUME toclose # {}, toclose \subseteq Entries
  PROVE  Closing \in toclose /\ Closing \in Entries
  BY DEF Closing

LEMMA PurposeNext ==
  ASSUME AInv, Works
  PROVE  Purpose'
<1> USE DEF AInv, JInv
<1>1. ASSUME pc' = "cancel", NEW o \in todo' PROVE flatten'[o[1]]
  <2>1. CASE synced
    BY <1>1, <2>1 DEF synced, FlattenCancels, journal, orders
  <2>2. ASSUME NEW p \in Orders, cancel_flatten_entry(p) PROVE flatten'[o[1]]
    <3>1. o \in todo /\ pc = "cancel" /\ o[1] \in Entries
      BY <1>1, <2>2, OrderParts DEF cancel_flatten_entry, Types, MemoryTypes
    <3> QED BY <3>1, MarksStay DEF Purpose
  <2> QED BY <1>1, <2>1, <2>2, CancelsCome
<1>2. ASSUME pc' = "cancel_legs", NEW o \in todo' PROVE Open(o)' /\ o[1] = Closing'
  <2>1. CASE close_decision
    <3>1. todo' = ActiveFor(Closing) /\ UNCHANGED <<orders, toclose>>
      BY <1>2, <2>1 DEF close_decision, GiveUp
    <3>2. Closing' = Closing
      BY <3>1 DEF Closing
    <3>3. o[1] = Closing /\ Open(o)
      BY <1>2, <3>1 DEF ActiveFor, OpenOrders
    <3> QED BY <3>1, <3>2, <3>3 DEF Open, orders
  <2>2. ASSUME NEW p \in Orders, cancel_active(p) PROVE Open(o)' /\ o[1] = Closing'
    <3>1. o \in todo /\ pc = "cancel_legs" /\ UNCHANGED <<journal, toclose>>
      BY <1>2, <2>2 DEF cancel_active, GiveUp
    <3>2. Closing' = Closing
      BY <3>1 DEF Closing
    <3> QED BY <3>1, <3>2 DEF Purpose, Open, journal, orders
  <2> QED BY <1>2, <2>1, <2>2, CancelsCome
<1>3. ASSUME task' = "close" PROVE pending'[Closing']
  <2>1. CASE close_position
    <3>1. pending' = [pending EXCEPT ![Closing] = TRUE] /\ UNCHANGED toclose /\ toclose # {}
      BY <1>3, <2>1 DEF close_position, Control
    <3>2. Closing' = Closing /\ Closing \in Entries
      BY <3>1 DEF Closing, Types, MemoryTypes
    <3> QED BY <3>1, <3>2 DEF Types, JournalTypes
  <2>2. CASE task = "close" /\ UNCHANGED toclose
    <3>1. Closing' = Closing /\ Closing \in Entries
      BY <2>2, ClosingIsEntry DEF Closing, Types, MemoryTypes, Control
    <3> QED BY <2>2, <3>1, MarksStay DEF Purpose
  <2> QED BY <1>3, <2>1, <2>2, CloseStays
<1>4. ASSUME Looking' PROVE ~safe_to_flatten'
  <2>1. CASE reconcile
    BY <2>1 DEF reconcile
  <2> QED BY <1>4, <2>1, LookingMoves DEF Looking, Purpose
<1> QED BY <1>1, <1>2, <1>3, <1>4 DEF Purpose, Looking, Processing

LEMMA LinkingComes ==
  ASSUME Works, pc' \in Linking
  PROVE  \/ Request \/ DiscoverLegs \/ (\E k \in Legs : ApplyLeg(k))
         \/ \E o \in Orders : sync_order(o)
<1>1. Send \/ reconcile \/ synced \/ cancels_sent \/ observe \/ tick \/ ticked \/ close_decision \/ active_canceled
      \/ SessionClock \/ Crash \/ (\E e \in Entries : open_position(e)) => pc' \notin Linking
  BY DEF Send, reconcile, synced, cancels_sent, observe, tick, ticked, close_decision,
         active_canceled, GiveUp, SessionClock, Crash, open_position, memory, Linking
<1>2. close_position => pc' \notin Linking
  BY DEF close_position, Linking
<1>3. ASSUME NEW o \in Orders, cancel_flatten_entry(o) \/ cancel_active(o) PROVE pc' \notin Linking
  BY <1>3 DEF cancel_flatten_entry, cancel_active, GiveUp, Linking
<1>4. CASE WorkerStep
  BY <1>1, <1>2, <1>3, <1>4 DEF WorkerStep
<1> QED BY <1>1, <1>4 DEF Works

LEMMA ToldNext ==
  ASSUME AInv, Works
  PROVE  Told'
<1> USE DEF AInv, JInv
<1> SUFFICES ASSUME pc' \in Linking PROVE Told'
  BY DEF Told
<1>0. ~Back
  BY DEF Back, Linking
<1>1. CASE Request
  <2>1. /\ pc = "request" /\ Accept(cur) /\ ApplyOrderState(cur, "new", 0, requested[cur]) /\ IsEntry(cur)
        /\ snapshot' = NestedLegs(cur[1]) /\ cur' = cur
    BY <1>0, <1>1 DEF Request
  <2>2. /\ cur \in Orders /\ bstate'[cur] = "new" /\ cur = E(cur[1]) /\ cur[1] \in Entries
    BY <2>1, Placed, KindOf
  <2>3. ostate'[cur] = "new"
    BY <2>1, <2>2 DEF ApplyOrderState, Types, JournalTypes
  <2>4. \A k \in Legs : bstate'[<<cur[1], k>>] = "held"
    <3>1. \A k \in Legs : <<cur[1], k>> \in Orders /\ <<cur[1], k>> # cur /\ IsLeg(<<cur[1], k>>) /\ <<cur[1], k>>[1] = cur[1]
      BY <2>2, RowsOf
    <3> QED BY <2>1, <3>1, Placed
  <2>5. \A k \in Legs : snapshot'[k].state = "held"
    BY <2>1, <2>4 DEF NestedLegs
  <2> QED BY <2>1, <2>2, <2>3, <2>5 DEF Told, Terminal
<1>2. CASE DiscoverLegs
  <2>1. cur \in Orders /\ pc \in Linking /\ IsEntry(cur) /\ UNCHANGED <<cur, task, snapshot, bstate, filled>>
    BY <1>2 DEF DiscoverLegs, Control, Processing, Current, Linking, broker
  <2>2. ostate'[cur] = ostate[cur]
    <3>1. cur \notin {cur[1]} \X Legs
      BY <2>1, RowsOf, KindOf
    <3> QED BY <1>2, <2>1, <3>1 DEF DiscoverLegs
  <2> QED BY <2>1, <2>2 DEF Told, Leg
<1>3. ASSUME NEW k \in Legs, ApplyLeg(k) PROVE Told'
  <2>1. pc \in Linking /\ UNCHANGED <<bstate, filled>>
    BY <1>3 DEF ApplyLeg, LegStep, Legs, Linking, broker
  <2>2. /\ cur \in Orders /\ IsEntry(cur) /\ UNCHANGED <<cur, task, snapshot>>
        /\ ApplyOrderState(Leg(cur, k), snapshot[k].state, snapshot[k].filled, snapshot[k].qty)
    BY <1>0, <1>3, <2>1 DEF ApplyLeg, Control, Processing, Current, Linking
  <2>3. cur # Leg(cur, k)
    BY <2>2, KindOf, RowsOf DEF Leg
  <2>4. ostate'[cur] = ostate[cur]
    BY <2>2, <2>3 DEF ApplyOrderState, Types, JournalTypes
  <2> QED BY <2>1, <2>2, <2>4 DEF Told, Leg
<1>4. ASSUME NEW o \in Orders, sync_order(o) PROVE Told'
  <2>1. pc = "sync" /\ task \notin {"entry", "exit"} /\ UNCHANGED <<task, bstate, filled>>
    BY <1>4 DEF sync_order, Control, broker
  <2>2. ostate[o] # "pending_submission"
    BY <1>4, <2>1 DEF sync_order, Linking
  <2>3. bstate[o] # "none" /\ cur' = o /\ snapshot' = NestedLegs(o[1])
    BY <1>4, <2>1, <2>2 DEF sync_order, Fetch, Linking
  <2>4. \A k \in Legs : /\ snapshot'[k].state = bstate'[Leg(cur', k)]
                        /\ snapshot'[k].filled = filled'[Leg(cur', k)]
    BY <2>3 DEF NestedLegs, Leg
  <2> QED BY <2>1, <2>3, <2>4 DEF Told, Leg
<1> QED BY <1>1, <1>2, <1>3, <1>4, LinkingComes

-----------------------------------------------------------------------------
(* The account. *)

LEMMA CloseComes ==
  ASSUME Works, pc' = "close"
  PROVE  observe
<1>1. ~(Send \/ Request \/ DiscoverLegs \/ (\E k \in Legs : ApplyLeg(k)) \/ reconcile \/ synced \/ cancels_sent \/ tick
      \/ ticked \/ active_canceled \/ SessionClock \/ Crash \/ (\E e \in Entries : open_position(e)))
  BY DEF Send, Request, DiscoverLegs, ApplyLeg, Back, reconcile, synced, cancels_sent, tick, ticked,
         active_canceled, GiveUp, SessionClock, Crash, open_position, memory
<1>2. ~close_position /\ ~close_decision
  BY DEF close_position, close_decision, GiveUp
<1>3. ASSUME NEW o \in Orders, sync_order(o) \/ cancel_flatten_entry(o) \/ cancel_active(o) PROVE FALSE
  BY <1>3 DEF sync_order, Fetch, cancel_flatten_entry, cancel_active, GiveUp
<1>4. CASE WorkerStep
  BY <1>1, <1>2, <1>3, <1>4 DEF WorkerStep
<1> QED BY <1>1, <1>4 DEF Works

LEMMA ObservedMoves ==
  ASSUME AInv, Works, Observed'
  PROVE  observe \/ (Observed /\ (blocked => blocked'))
<1> USE DEF AInv, JInv
<1> DEFINE Stays == Observed /\ (blocked => blocked')
<1> SUFFICES observe \/ Stays
  OBVIOUS
<1>1. Send \/ DiscoverLegs \/ ticked \/ active_canceled \/ SessionClock => Stays
  BY DEF Send, DiscoverLegs, ticked, active_canceled, SessionClock, GiveUp, Observed, Processing, memory
<1>2. ~(reconcile \/ synced \/ cancels_sent \/ tick \/ Crash)
  BY DEF reconcile, synced, cancels_sent, tick, Crash, Observed, Processing
<1>3. close_position \/ close_decision \/ (\E e \in Entries : open_position(e)) => Stays
  <2>1. close_decision => (blocked => blocked')
    BY Zenon DEF close_decision
  <2>2. close_position \/ (\E e \in Entries : open_position(e)) => (blocked => blocked')
    BY DEF close_position, open_position
  <2>3. close_position \/ close_decision \/ (\E e \in Entries : open_position(e)) => pc \in {"idle", "next", "close"}
    BY DEF close_position, close_decision, open_position
  <2> QED BY <2>1, <2>2, <2>3 DEF Observed
<1>4. CASE Request \/ (\E k \in Legs : ApplyLeg(k))
  <2>1. pc \in Processing /\ (UNCHANGED blocked \/ blocked' = TRUE)
    BY <1>4 DEF Request, ApplyLeg, LegStep, Legs, Processing, MarkUnresolved
  <2>2. Back \/ (UNCHANGED task /\ pc' \in Processing)
    BY <1>4 DEF Request, ApplyLeg, Processing
  <2>3. Back /\ task \notin {"entry", "exit"} => pc' = "sync"
    BY DEF Back
  <2>4. task \in {"entry", "exit"}
    BY <2>2, <2>3 DEF Observed, Processing
  <2> QED BY <2>1, <2>4 DEF Observed
<1>5. ASSUME NEW o \in Orders, sync_order(o) \/ cancel_flatten_entry(o) PROVE FALSE
  <2>1. pc' = "cancel" \/ (pc = "sync" /\ task' = task)
    BY <1>5 DEF sync_order, cancel_flatten_entry
  <2>2. CASE sync_order(o)
    BY <2>2 DEF sync_order, Fetch, Observed, Processing, Control
  <2> QED BY <1>5, <2>2 DEF cancel_flatten_entry, Observed, Processing
<1>6. ASSUME NEW o \in Orders, cancel_active(o) PROVE Stays
  <2>1. UNCHANGED blocked \/ blocked' = TRUE
    BY <1>6 DEF cancel_active, MarkUnresolved
  <2> QED BY <1>6, <2>1 DEF cancel_active, Observed
<1> HIDE DEF Stays
<1>7. CASE WorkerStep
  BY <1>1, <1>2, <1>3, <1>4, <1>5, <1>6, <1>7 DEF WorkerStep
<1> QED BY <1>1, <1>2, <1>3, <1>7 DEF Works

(* An entry that has taken its ticker shows in the journal. *)
Shows(e) == trade[e] = "open" \/ \E o \in Rows(e) : Open(o)

LEMMA ObservedShows ==
  ASSUME AInv, Observed, NEW e \in Entries, Taken(e)
  PROVE  Shows(e)
<1> USE DEF AInv, JInv
<1>1. ASSUME NEW o \in todo PROVE Open(o)
  <2>1. pc = "cancel_legs"
    BY <1>1 DEF Observed, Control, Processing
  <2> QED BY <1>1, <2>1 DEF Purpose
<1>2. ASSUME cur \in Orders PROVE Open(cur)
  <2>1. pc \in Processing /\ task \in {"entry", "exit"}
    BY <1>2 DEF Observed, Control, Processing
  <2>2. pc = "send" => ostate[cur] = "pending_submission"
    BY DEF Current
  <2>3. pc = "request" => ostate[cur] = "unresolved"
    BY DEF Current
  <2>4. pc \in Linking => ostate[cur] = "new"
    BY <2>1 DEF Told
  <2> QED BY <2>1, <2>2, <2>3, <2>4 DEF Processing, Linking, Open, Terminal
<1>3. \A o \in Rows(e) : o \in Orders
  BY RowsOf
<1> QED BY <1>1, <1>2, <1>3 DEF Taken, Shows

LEMMA ShowsStays ==
  ASSUME AInv, Works, Observed, NEW e \in Entries, Shows(e)
  PROVE  Shows(e)'
<1> USE DEF AInv, JInv
<1>0. /\ pc \notin {"sync", "cancel", "observe", "reconcile"}
      /\ ostate \in [Orders -> OrderStates] /\ trade \in [Entries -> {"none", "open", "closed"}]
      /\ Rows(e) = Rows(e)'
  BY DEF Observed, Processing, Types, JournalTypes, Rows
<1>1. ASSUME UNCHANGED trade, \A o \in Orders : Open(o) => Open(o)' PROVE Shows(e)'
  <2>1. \A o \in Rows(e) : o \in Orders
    BY RowsOf
  <2> QED BY <1>0, <1>1, <2>1 DEF Shows
<1>2. ASSUME NEW o \in Orders, MarkUnresolved(o) PROVE Shows(e)'
  <2>1. UNCHANGED trade /\ \A p \in Orders : Open(p) => Open(p)'
    BY <1>0, <1>2 DEF MarkUnresolved, trades, Open, Terminal
  <2> QED BY <1>1, <2>1
<1>3. CASE UNCHANGED <<ostate, trade>>
  BY <1>1, <1>3 DEF Open
<1>4. ASSUME NEW o \in Orders, NEW s \in {"pending_submission", "unresolved", "new"},
             ostate' = [ostate EXCEPT ![o] = s], UNCHANGED trade
      PROVE  Shows(e)'
  <2>1. \A p \in Orders : Open(p) => Open(p)'
    BY <1>0, <1>4 DEF Open, Terminal
  <2> QED BY <1>1, <1>4, <2>1
<1>5. CASE Send
  BY <1>4, <1>5 DEF Send, Control, Processing, trades
<1>6. ASSUME NEW f \in Entries, open_position(f) PROVE Shows(e)'
  <2>1. <<f, "entry">> \in Orders
    BY RowsOf DEF E
  <2> QED BY <1>4, <1>6, <2>1 DEF open_position, trades
<1>7. CASE Request
  <2>1. cur \in Orders /\ applied[cur] \in Nat
    BY <1>7 DEF Request, Control, Processing, Types, JournalTypes
  <2>2. CASE ApplyOrderState(cur, "new", 0, requested[cur])
    <3>1. UNCHANGED trade /\ ostate' = [ostate EXCEPT ![cur] = "new"]
      BY <2>1, <2>2 DEF ApplyOrderState
    <3> QED BY <1>4, <2>1, <3>1
  <2> QED BY <1>2, <1>7, <2>1, <2>2 DEF Request
<1>8. CASE DiscoverLegs
  <2>1. UNCHANGED trade /\ \A p \in Orders : Open(p) => Open(p)'
    BY <1>8 DEF DiscoverLegs, trades, Open, Terminal
  <2> QED BY <1>1, <2>1
<1>9. ASSUME NEW k \in Legs, ApplyLeg(k) PROVE Shows(e)'
  <2>1. pc \in Linking /\ cur \in Orders /\ IsEntry(cur)
    BY <1>9 DEF ApplyLeg, LegStep, Legs, Linking, Control, Processing, Current
  <2>2. ostate[cur] = "new" /\ cur # Leg(cur, k) /\ cur \in Rows(cur[1]) /\ cur[1] \in Entries
    BY <2>1, KindOf, RowsOf DEF Told, Observed, Linking, Processing, Leg
  <2>3. CASE ApplyOrderState(Leg(cur, k), snapshot[k].state, snapshot[k].filled, snapshot[k].qty)
    <3>1. ostate' = [ostate EXCEPT ![Leg(cur, k)] = snapshot[k].state] /\ Leg(cur, k)[1] = cur[1]
      BY <2>3 DEF ApplyOrderState, Leg
    <3>2. \A p \in Orders : p # Leg(cur, k) => ostate'[p] = ostate[p]
      BY <1>0, <3>1
    <3>3. CASE e = cur[1]
      <4>1. \E p \in Rows(e) : ostate'[p] = "new"
        BY <2>1, <2>2, <3>2, <3>3
      <4> QED BY <1>0, <4>1 DEF Shows, Open, Terminal
    <3>4. CASE e # cur[1]
      <4>1. trade'[e] = trade[e]
        BY <1>0, <2>3, <3>1, <3>4 DEF ApplyOrderState
      <4>2. \A p \in Rows(e) : p \in Orders /\ p # Leg(cur, k)
        BY <3>1, <3>4, RowsOf
      <4>3. \A p \in Rows(e) : Open(p) => Open(p)'
        BY <3>2, <4>2 DEF Open
      <4> QED BY <1>0, <4>1, <4>3 DEF Shows
    <3> QED BY <3>3, <3>4
  <2> QED BY <1>2, <1>9, <2>1, <2>3 DEF ApplyLeg
<1>10. CASE close_decision
  <2>1. Closing \in Entries /\ UNCHANGED trade
    BY <1>10 DEF Closing, Types, MemoryTypes, close_decision, Control, trades
  <2>2. \A k \in ExitKinds : <<Closing, k>> \in Orders
    BY <2>1, RowsOf
  <2>3. \/ UNCHANGED ostate
        \/ \E k \in ExitKinds : ostate' = [ostate EXCEPT ![<<Closing, k>>] = "pending_submission"]
    BY <1>10 DEF close_decision, orders
  <2>4. ASSUME NEW k \in ExitKinds, ostate' = [ostate EXCEPT ![<<Closing, k>>] = "pending_submission"]
        PROVE  Shows(e)'
    BY <1>4, <2>1, <2>2, <2>4
  <2> QED BY <1>3, <2>1, <2>3, <2>4
<1>11. ASSUME NEW o \in Orders, cancel_active(o) PROVE Shows(e)'
  <2>1. UNCHANGED <<ostate, trade>> \/ MarkUnresolved(o)
    BY <1>11 DEF cancel_active, journal, orders, trades
  <2> QED BY <1>2, <1>3, <2>1
<1>12. tick \/ ticked \/ close_position \/ active_canceled \/ SessionClock \/ Crash => UNCHANGED <<ostate, trade>>
  BY DEF tick, ticked, close_position, active_canceled, SessionClock, Crash, journal, orders, trades
<1>13. ~(reconcile \/ synced \/ cancels_sent \/ observe)
  BY <1>0 DEF reconcile, synced, cancels_sent, observe
<1>14. ASSUME NEW o \in Orders, sync_order(o) \/ cancel_flatten_entry(o) PROVE FALSE
  BY <1>0, <1>14 DEF sync_order, cancel_flatten_entry
<1>15. CASE WorkerStep
  BY <1>3, <1>5, <1>7, <1>8, <1>9, <1>10, <1>11, <1>12, <1>13, <1>14, <1>15 DEF WorkerStep
<1> QED BY <1>3, <1>6, <1>12, <1>15 DEF Works

LEMMA AccountNext ==
  ASSUME AInv, Works
  PROVE  Account'
<1>1. UNCHANGED holding
  BY WorksAtBroker
<1>2. ASSUME observe, NEW t \in Tickers, exposure_mismatch = FALSE
      PROVE  holding[t] = Position(t)
  BY <1>2 DEF exposure_mismatch
<1>3. ASSUME Observed', ~blocked', NEW t \in Tickers, Free(t)' PROVE holding[t] = 0
  <2>1. CASE observe
    <3>1. exposure_mismatch = FALSE /\ UNCHANGED trade
      BY <1>3, <2>1 DEF observe, journal, trades, exposure_mismatch
    <3>2. OpenTrades(t) = {}
      BY <1>3, <3>1 DEF Free, Taken, OpenTrades
    <3> QED BY <1>2, <2>1, <3>1, <3>2 DEF Position
  <2>2. CASE Observed /\ ~blocked
    <3>1. ASSUME NEW e \in Entries, TickerOf[e] = t PROVE ~Taken(e)
      <4>1. Taken(e) => Shows(e)'
        BY <2>2, ObservedShows, ShowsStays
      <4>2. Shows(e)' => Taken(e)'
        BY DEF Shows, Taken
      <4> QED BY <1>3, <3>1, <4>1, <4>2 DEF Free
    <3>2. Free(t)
      BY <3>1 DEF Free
    <3> QED BY <2>2, <3>2 DEF AInv, Account
  <2> QED BY <1>3, <2>1, <2>2, ObservedMoves
<1>4. ASSUME pc' = "close", safe_to_flatten', NEW e \in Entries, trade'[e] = "open" PROVE Held(e) = remaining'[e]
  <2>1. observe
    BY <1>4, CloseComes
  <2>2. ~safe_to_flatten /\ UNCHANGED <<trade, remaining>>
    BY <2>1 DEF observe, AInv, Purpose, journal, trades
  <2>3. exposure_mismatch = FALSE
    BY <1>4, <2>1, <2>2 DEF observe, exposure_mismatch
  <2>4. TickerOf[e] \in Tickers /\ e \in OpenTrades(TickerOf[e])
    BY <1>4, <2>2, TickerAssumption DEF OpenTrades
  <2>5. \A f \in OpenTrades(TickerOf[e]) : f = e
    BY <1>4, <2>2 DEF OpenTrades, AInv, JInv, OneTaken, Taken
  <2>6. Position(TickerOf[e]) = remaining[e]
    <3>1. OpenTrades(TickerOf[e]) = {e}
      BY <2>4, <2>5
    <3> QED BY <3>1 DEF Position
  <2> QED BY <1>2, <2>1, <2>2, <2>3, <2>4, <2>6 DEF Held
<1> QED BY <1>1, <1>3, <1>4 DEF AInv, Account, Held

-----------------------------------------------------------------------------
(* The invariant of the account, and what follows from it.                 *)

LEMMA AInit == Init => AInv
<1> SUFFICES ASSUME Init PROVE AInv
  OBVIOUS
<1>1. JInv
  BY JInit
<1>2. Quantities
  <2>1. 0 \in 0..Qty
    BY QtyAssumption
  <2>2. NoSnapshot \in [Legs -> [state : OrderStates, filled : 0..Qty, qty : 0..Qty]]
    BY <2>1 DEF NoSnapshot, OrderStates
  <2> QED BY <2>1, <2>2 DEF Init, Quantities
<1>3. Purpose /\ Told
  BY DEF Init, Purpose, Told, Linking
<1>4. \A o \in Orders : Row(o)
  BY KindsAssumption DEF Init, Row, IsLeg, IsEntry, Legs
<1>5. ASSUME NEW e \in Entries PROVE Shape(e) /\ ~Taken(e) /\ trade[e] # "open"
  <2>1. Shape(e)
    BY RowsOf DEF Init, Shape, Terminal
  <2>2. ~Taken(e)
    BY NoOrderIsNone, RowsOf DEF Init, Taken, Open
  <2> QED BY <2>1, <2>2 DEF Taken
<1>6. Account
  BY DEF Init, Account, Observed, Processing
<1> QED BY <1>1, <1>2, <1>3, <1>4, <1>5, <1>6 DEF AInv

LEMMA AStutter ==
  ASSUME AInv, UNCHANGED vars
  PROVE  AInv'
<1>1. UNCHANGED <<ostate, applied, known, linked, requested, broker_qty, flatten, trade, remaining, pending, pc, cur,
                  todo, task, toclose, snapshot, blocked, safe_to_flatten, bstate, filled, bqty, canceling, holding>>
  BY DEF vars, journal, orders, trades, memory, broker
<1>2. JInv' /\ Quantities' /\ Purpose' /\ Told'
  BY <1>1, JStutter DEF AInv, Quantities, Purpose, Told, Open, Closing, Leg
<1>3. \A o \in Orders : Row(o)'
  BY <1>1 DEF AInv, Row, IsLeg, IsEntry
<1>4. ASSUME NEW e \in Entries
      PROVE  /\ Shape(e)'
             /\ trade'[e] = "open" => remaining'[e] >= 1
             /\ Taken(e)' => Bracket(e)'
  <2>1. Shape(e)'
    BY <1>1 DEF AInv, Shape, Ended, E
  <2>2. Taken(e)' <=> Taken(e)
    BY <1>1 DEF Taken, Rows, Open
  <2>3. Bracket(e) => Bracket(e)'
    BY <1>1 DEF Bracket, Capacity, ExitOK, Protected, Ended, Unplaced, Uncertain, Unfilled, Held, Alone, Rows, E
  <2> QED BY <1>1, <2>1, <2>2, <2>3 DEF AInv
<1>5. Account'
  <2>1. \A t \in Tickers : Free(t)' <=> Free(t)
    BY <1>1 DEF Free, Taken, Rows, Open
  <2> QED BY <1>1, <2>1 DEF AInv, Account, Observed, Held, KnownLegs, OpenOrders, Open, Ticker
<1> QED BY <1>2, <1>3, <1>4, <1>5 DEF AInv

LEMMA ANext ==
  ASSUME AInv, Next
  PROVE  AInv'
<1>1. JInv'
  BY JNext DEF AInv
<1>2. CASE Works
  BY <1>1, <1>2, QuantitiesNext, PurposeNext, ToldNext, RowNext, ShapeNext, BracketNext, AccountNext DEF AInv
<1>3. ASSUME NEW o \in Orders, Fills(o) \/ CancelTakesEffect(o) \/ Reject(o) \/ Expire(o) PROVE AInv'
  BY <1>1, <1>3, BrokerStep
<1> QED BY <1>2, <1>3 DEF Next, Works

(* Whatever the broker fills, cancels or rejects between any two steps of  *)
(* the worker, and whatever answer is lost: what the journal calls ended   *)
(* has ended, what works at the broker can trade no more than is held, and *)
(* what the journal and the account agreed on they still agree on.         *)
THEOREM AccountInvariant == Spec => []AInv
<1>1. AInv /\ [Next]_vars => AInv'
  BY ANext, AStutter
<1> QED BY <1>1, AInit, PTL DEF Spec

(* The account never goes short.                                           *)
THEOREM PositionNeverFlipsHolds == Spec => []PositionNeverFlips
<1>1. AInv => TypeOK
  BY DEF AInv, JInv, Quantities, Types, JournalTypes, MemoryTypes, BrokerTypes, TypeOK
<1>2. AInv => PositionNeverFlips
  BY <1>1 DEF AInv, Account, PositionNeverFlips
<1> QED BY <1>2, AccountInvariant, PTL

(* A market exit that may yet be sent is for exactly what the account      *)
(* holds of its ticker, and nothing else of the ticker can fill.           *)
THEOREM ExitIsAloneHolds == Spec => []ExitIsAlone
<1>1. ASSUME AInv, NEW o \in Orders, o[2] \in ExitKinds, Unplaced(o)
      PROVE  /\ \A p \in Orders : Ticker(p) = Ticker(o) /\ p # o => bstate[p] \notin Working
             /\ holding[Ticker(o)] = requested[o]
  <2>1. o[1] \in Entries /\ o = <<o[1], o[2]>> /\ Ticker(o) = TickerOf[o[1]]
    BY KindOf, OrderParts
  <2>2. Taken(o[1])
    BY <1>1, OpenTaken DEF Unplaced, Uncertain, Open, Terminal
  <2>3. ExitOK(o)
    BY <1>1, <2>1, <2>2 DEF AInv, Bracket
  <2>4. Alone(o) /\ requested[o] = holding[Ticker(o)]
    BY <1>1, <2>1, <2>3 DEF ExitOK, Held
  <2>5. ASSUME NEW p \in Orders, Ticker(p) = Ticker(o), p # o, ~Ended(p) PROVE FALSE
    <3>1. o[1] = p[1]
      BY <1>1, <2>1, <2>2, <2>5, WorkingBracket
    <3>2. p \in Rows(o[1])
      BY <2>1, <3>1, RowsOf
    <3> QED BY <2>4, <2>5, <3>2 DEF Alone
  <2> QED BY <2>4, <2>5 DEF Ended
<1>2. AInv => ExitIsAlone
  BY <1>1 DEF ExitIsAlone, Unplaced, Uncertain
<1> QED BY <1>2, AccountInvariant, PTL

(* What the dashboard calls confirmed is protected at the broker.          *)
THEOREM ConfirmedIsProtectedHolds == Spec => []ConfirmedIsProtected
<1>1. ASSUME AInv, NEW e \in Entries, confirmed(e)
      PROVE  /\ \A k \in ExitKinds : bstate[<<e, k>>] \notin Working
             /\ holding[TickerOf[e]] > 0 => \A k \in Legs :
                  bstate[<<e, k>>] \in Working /\ bqty[<<e, k>>] - filled[<<e, k>>] = holding[TickerOf[e]]
  <2>1. trade[e] = "open" /\ ostate[E(e)] = "filled" /\ ~pending[e] /\ ~flatten[e]
    BY <1>1 DEF confirmed, parent, pending_exit, E
  <2>2. Bracket(e)
    BY <1>1, <2>1 DEF AInv, Taken
  <2>3. bstate[E(e)] = "filled"
    BY <1>1, <2>1, RowsOf DEF AInv, Row, Terminal
  <2>4. \A k \in ExitKinds : Ended(<<e, k>>)
    BY <1>1, <2>1, ExitWorks
  <2>5. holding[TickerOf[e]] > 0 => \A k \in Legs : ~Ended(<<e, k>>)
    BY <2>1, <2>2, <2>3 DEF Bracket, Protected, Held
  <2>6. \A k \in Legs : ~Ended(<<e, k>>) => Unfilled(<<e, k>>) = Held(e)
    BY <2>2, <2>3 DEF Bracket, Capacity, Terminal
  <2> QED BY <2>4, <2>5, <2>6 DEF Ended, Unfilled, Held
<1>2. AInv => ConfirmedIsProtected
  BY <1>1 DEF ConfirmedIsProtected
<1> QED BY <1>2, AccountInvariant, PTL

-----------------------------------------------------------------------------
(* Fills, counted.  Applied adds up by layers: the exits whose applied     *)
(* quantity is above q, for each q; raising one quantity from a to b adds  *)
(* one to the layers a..b-1.                                               *)

Least(S, i) == i \in S /\ \A j \in S : i <= j

LEMMA LeastOf ==
  ASSUME NEW S, S \subseteq Nat, S # {}
  PROVE  \E i \in Nat : Least(S, i)
<1>1. PICK n : n \in S
  OBVIOUS
<1> DEFINE Upto(i) == S \cap (0..i)
           F == 0..n
           T == {Upto(i) : i \in S \cap F}
<1>2. IsFiniteSet(F)
  BY <1>1, FS_Interval
<1>3. T \subseteq SUBSET F /\ T # {}
  <2>1. n \in S \cap F
    BY <1>1
  <2>2. \A i \in S \cap F : Upto(i) \subseteq F
    BY <1>1
  <2> QED BY <2>1, <2>2
<1>4. IsWellFoundedOn(StrictSubsetOrdering(F), FiniteSubsetsOf(F)) /\ FiniteSubsetsOf(F) = SUBSET F
  <2> HIDE DEF F
  <2> QED BY <1>2, FS_StrictSubsetOrderingWellFounded, FS_FiniteSubsetsOfFinite
<1>5. PICK x \in T : \A y \in T : ~ (<<y, x>> \in StrictSubsetOrdering(F))
  <2> HIDE DEF T, F
  <2> QED BY <1>3, <1>4, WFMin
<1>6. PICK i \in S \cap F : x = Upto(i)
  BY <1>5
<1>7. ASSUME NEW j \in S, j < i PROVE FALSE
  <2>1. j \in S \cap F /\ Upto(j) \subseteq Upto(i) /\ i \in Upto(i) /\ i \notin Upto(j)
    BY <1>1, <1>7
  <2>2. Upto(j) \in T /\ Upto(j) # Upto(i) /\ Upto(j) \subseteq F /\ Upto(i) \subseteq F
    BY <2>1, <1>3, <1>6
  <2> QED BY <1>5, <1>6, <2>1, <2>2 DEF StrictSubsetOrdering
<1>8. i \in Nat /\ Least(S, i)
  BY <1>7 DEF Least
<1> QED BY <1>8

Adds(f, n, m) == \A q \in 0..m : f[q] = n[q] + (IF q = 0 THEN 0 ELSE f[q - 1])
Total(n) == LET sum[q \in 0..Qty] == n[q] + (IF q = 0 THEN 0 ELSE sum[q - 1])
            IN  sum[Qty]
Above(a, e, q) == {k \in Kinds \ {"entry"} : a[<<e, k>>] > q}
Counts(a, e) == [q \in 0..Qty |-> Cardinality(Above(a, e, q))]

(* Sums up to every m exist.                                               *)
LEMMA SumsExist ==
  ASSUME NEW n \in [0..Qty -> Nat], NEW m \in 0..Qty
  PROVE  \E f \in [0..m -> Nat] : Adds(f, n, m)
<1> DEFINE P(i) == \E f \in [0..i -> Nat] : Adds(f, n, i)
           Bad == {i \in 0..Qty : ~P(i)}
<1>1. SUFFICES ASSUME Bad # {} PROVE FALSE
  <2> HIDE DEF P
  <2>1. P(m)
    BY <1>1
  <2> QED BY <2>1 DEF P
<1>2. PICK i \in Nat : Least(Bad, i)
  <2>1. Bad \subseteq Nat
    BY QtyAssumption
  <2> HIDE DEF Bad
  <2> QED BY <1>1, <2>1, LeastOf
<1>3. i \in 0..Qty /\ ~P(i) /\ \A j \in 0..Qty : j < i => P(j)
  <2> HIDE DEF P
  <2> QED BY <1>2, QtyAssumption DEF Least
<1>4. CASE i = 0
  <2>1. [q \in 0..0 |-> n[0]] \in [0..0 -> Nat] /\ Adds([q \in 0..0 |-> n[0]], n, 0)
    BY <1>3, <1>4 DEF Adds
  <2> QED BY <1>3, <1>4, <2>1
<1>5. CASE i # 0
  <2>1. P(i - 1) /\ i - 1 \in Nat
    <3> HIDE DEF P
    <3> QED BY <1>3, <1>5, QtyAssumption
  <2>2. PICK f \in [0..(i - 1) -> Nat] : Adds(f, n, i - 1)
    BY <2>1
  <2> DEFINE g == [q \in 0..i |-> IF q = i THEN n[i] + f[i - 1] ELSE f[q]]
  <2>3. g \in [0..i -> Nat]
    <3>1. i \in Nat /\ n[i] \in Nat /\ f[i - 1] \in Nat
      BY <1>3, <2>1, <2>2
    <3>2. n[i] + f[i - 1] \in Nat
      BY <3>1
    <3>3. \A q \in 0..i : q # i => f[q] \in Nat
      <4>1. \A q \in 0..i : q # i => q \in 0..(i - 1)
        BY <3>1
      <4> QED BY <2>2, <4>1
    <3> QED BY <3>2, <3>3
  <2>4. ASSUME NEW q \in 0..i PROVE g[q] = n[q] + (IF q = 0 THEN 0 ELSE g[q - 1])
    <3>1. CASE q = i
      BY <1>5, <2>1, <3>1
    <3>2. CASE q # i
      <4>1. q \in 0..(i - 1) /\ (q # 0 => q - 1 \in 0..i /\ q - 1 # i)
        BY <1>3, <2>4, <3>2
      <4> QED BY <2>2, <3>2, <4>1 DEF Adds
    <3> QED BY <3>1, <3>2
  <2>5. Adds(g, n, i)
    BY <2>4 DEF Adds
  <2> QED BY <1>3, <2>3, <2>5
<1> QED BY <1>4, <1>5

LEMMA TotalAdds ==
  ASSUME NEW n \in [0..Qty -> Nat]
  PROVE  \E f : Adds(f, n, Qty) /\ f[Qty] = Total(n)
<1>1. PICK g \in [0..Qty -> Nat] : Adds(g, n, Qty)
  <2>1. Qty \in 0..Qty
    BY QtyAssumption
  <2> QED BY <2>1, SumsExist
<1>2. g = [q \in 0..Qty |-> n[q] + (IF q = 0 THEN 0 ELSE g[q - 1])]
  BY <1>1 DEF Adds
<1> DEFINE f == CHOOSE f : f = [q \in 0..Qty |-> n[q] + (IF q = 0 THEN 0 ELSE f[q - 1])]
<1>3. f = [q \in 0..Qty |-> n[q] + (IF q = 0 THEN 0 ELSE f[q - 1])]
  BY <1>2
<1>4. Total(n) = f[Qty]
  BY Zenon DEF Total
<1> HIDE DEF f
<1>5. Adds(f, n, Qty)
  BY <1>3 DEF Adds
<1> QED BY <1>4, <1>5

(* What one quantity adds, from a to b, to the sum of the layers up to q.  *)
Part(a, b, q) == IF q < a THEN 0 ELSE IF q < b THEN q + 1 - a ELSE b - a
Raised(n, l, a, b) == \A q \in 0..Qty : l[q] = n[q] + (IF a <= q /\ q < b THEN 1 ELSE 0)

Summed(n, l, a, b, f, g) ==
  /\ n \in [0..Qty -> Nat] /\ l \in [0..Qty -> Nat] /\ a \in 0..Qty /\ b \in 0..Qty /\ a <= b
  /\ Raised(n, l, a, b) /\ Adds(f, n, Qty) /\ Adds(g, l, Qty)

LEMMA SumStep ==
  ASSUME NEW p \in Nat, NEW q \in Nat, NEW v \in Int, NEW d \in Int
  PROVE  p + q \in Nat /\ (p + d) + (q + v) = (p + q) + (v + d)
  OBVIOUS

LEMMA SumsDiffer ==
  ASSUME NEW n, NEW l, NEW a, NEW b, NEW f, NEW g, Summed(n, l, a, b, f, g), NEW m \in 0..Qty
  PROVE  f[m] \in Nat /\ g[m] = f[m] + Part(a, b, m)
<1> DEFINE P(i) == f[i] \in Nat /\ g[i] = f[i] + Part(a, b, i)
           Bad == {i \in 0..Qty : ~P(i)}
<1>0. /\ n \in [0..Qty -> Nat] /\ l \in [0..Qty -> Nat] /\ a \in 0..Qty /\ b \in 0..Qty /\ a <= b
      /\ Raised(n, l, a, b) /\ Adds(f, n, Qty) /\ Adds(g, l, Qty)
  BY DEF Summed
<1>1. SUFFICES ASSUME Bad # {} PROVE FALSE
  <2> HIDE DEF P
  <2>1. P(m)
    BY <1>1
  <2> QED BY <2>1 DEF P
<1>2. PICK i \in Nat : Least(Bad, i)
  <2>1. Bad \subseteq Nat
    BY QtyAssumption
  <2> HIDE DEF Bad
  <2> QED BY <1>1, <2>1, LeastOf
<1>3. i \in 0..Qty /\ ~P(i) /\ \A j \in 0..Qty : j < i => P(j)
  <2> HIDE DEF P
  <2> QED BY <1>2, QtyAssumption DEF Least
<1>4. /\ f[i] = n[i] + (IF i = 0 THEN 0 ELSE f[i - 1])
      /\ g[i] = l[i] + (IF i = 0 THEN 0 ELSE g[i - 1])
      /\ n[i] \in Nat /\ l[i] = n[i] + (IF a <= i /\ i < b THEN 1 ELSE 0)
  BY <1>0, <1>3 DEF Adds, Raised
<1>5. CASE i = 0
  BY <1>0, <1>3, <1>4, <1>5, QtyAssumption DEF Part
<1>6. CASE i # 0
  <2>1. i - 1 \in 0..Qty /\ i - 1 < i
    BY <1>3, <1>6, QtyAssumption
  <2>2. P(i - 1)
    <3> HIDE DEF P
    <3> QED BY <1>3, <2>1
  <2>3. i \in Nat /\ a \in Nat /\ b \in Nat /\ a <= b
    BY <1>0, QtyAssumption
  <2>4. /\ Part(a, b, i) = Part(a, b, i - 1) + (IF a <= i /\ i < b THEN 1 ELSE 0)
        /\ Part(a, b, i - 1) \in Int
    BY <1>6, <2>3 DEF Part
  <2> DEFINE v == Part(a, b, i - 1)
             w == Part(a, b, i)
  <2> HIDE DEF v, w
  <2>5. w = v + (IF a <= i /\ i < b THEN 1 ELSE 0) /\ v \in Int
    BY <2>4 DEF v, w
  <2>6. f[i - 1] \in Nat /\ g[i - 1] = f[i - 1] + v
    BY <2>2 DEF v
  <2>7. f[i] \in Nat /\ g[i] = f[i] + w
    <3>1. f[i] = n[i] + f[i - 1] /\ g[i] = l[i] + g[i - 1] /\ n[i] \in Nat
      BY <1>4, <1>6
    <3>2. l[i] = n[i] + (IF a <= i /\ i < b THEN 1 ELSE 0)
      BY <1>4
    <3> HIDE DEF P, Bad
    <3> DEFINE d == IF a <= i /\ i < b THEN 1 ELSE 0
    <3>3. d \in Int
      OBVIOUS
    <3>4. l[i] = n[i] + d /\ w = v + d
      BY <2>5, <3>2
    <3> HIDE DEF d
    <3>5. n[i] + f[i - 1] \in Nat /\ (n[i] + d) + (f[i - 1] + v) = (n[i] + f[i - 1]) + (v + d)
      BY <2>5, <2>6, <3>1, <3>3, SumStep
    <3> QED BY <2>6, <3>1, <3>4, <3>5
  <2> QED BY <1>3, <2>7 DEF w
<1> QED BY <1>5, <1>6

LEMMA CountsAreNumbers ==
  ASSUME NEW a, NEW e
  PROVE  /\ Counts(a, e) \in [0..Qty -> Nat]
         /\ \A q : IsFiniteSet(Above(a, e, q))
<1>1. IsFiniteSet(Legs)
  <2>1. Legs = {"target"} \cup {"stop"}
    BY DEF Legs
  <2> QED BY <2>1, FS_Singleton, FS_Union
<1>2. IsFiniteSet(Legs \cup ExitKinds)
  BY <1>1, KindsAssumption, FS_Union
<1>3. ASSUME NEW q PROVE IsFiniteSet(Above(a, e, q)) /\ Cardinality(Above(a, e, q)) \in Nat
  <2>1. Above(a, e, q) \subseteq Legs \cup ExitKinds
    BY DEF Above, Kinds
  <2> QED BY <1>2, <2>1, FS_Subset, FS_CardinalityType
<1> QED BY <1>3 DEF Counts

LEMMA TotalRises ==
  ASSUME NEW a \in [Orders -> 0..Qty], NEW e \in Entries, NEW k \in Kinds \ {"entry"}, NEW b \in 0..Qty,
         a[<<e, k>>] <= b
  PROVE  Total(Counts([a EXCEPT ![<<e, k>>] = b], e)) = Total(Counts(a, e)) + (b - a[<<e, k>>])
<1> DEFINE o == <<e, k>>
           x == a[o]
           c == [a EXCEPT ![<<e, k>>] = b]
<1>1. o \in Orders /\ x \in 0..Qty /\ \A j \in Kinds \ {"entry"} : <<e, j>> \in Orders /\ (j # k => <<e, j>> # o)
  BY DEF Orders
<1>2. c[o] = b /\ \A j \in Kinds \ {"entry"} : j # k => c[<<e, j>>] = a[<<e, j>>]
  BY <1>1
<1>3. ASSUME NEW q \in 0..Qty
      PROVE  Counts(c, e)[q] = Counts(a, e)[q] + (IF x <= q /\ q < b THEN 1 ELSE 0)
  <2>1. CASE x <= q /\ q < b
    <3>1. Above(c, e, q) = Above(a, e, q) \cup {k} /\ k \notin Above(a, e, q)
      BY <1>1, <1>2, <2>1, QtyAssumption DEF Above
    <3> QED BY <1>3, <2>1, <3>1, CountsAreNumbers, FS_AddElement DEF Counts
  <2>2. CASE ~(x <= q /\ q < b)
    <3>1. Above(c, e, q) = Above(a, e, q)
      BY <1>1, <1>2, <2>2, QtyAssumption DEF Above
    <3> QED BY <2>2, <3>1, CountsAreNumbers DEF Counts
  <2> QED BY <2>1, <2>2
<1>4. PICK f : Adds(f, Counts(a, e), Qty) /\ f[Qty] = Total(Counts(a, e))
  BY TotalAdds, CountsAreNumbers
<1>5. PICK g : Adds(g, Counts(c, e), Qty) /\ g[Qty] = Total(Counts(c, e))
  BY TotalAdds, CountsAreNumbers
<1>6. f[Qty] \in Nat /\ g[Qty] = f[Qty] + Part(x, b, Qty)
  <2>1. Qty \in 0..Qty
    BY QtyAssumption
  <2>2. x \in 0..Qty /\ x <= b
    BY <1>1 DEF x
  <2> DEFINE n == Counts(a, e)
             l == Counts(c, e)
             y == x
  <2>3. Summed(n, l, y, b, f, g)
    BY <1>3, <1>4, <1>5, <2>2, CountsAreNumbers DEF Raised, Summed
  <2> HIDE DEF n, l, y
  <2>6. f[Qty] \in Nat /\ g[Qty] = f[Qty] + Part(y, b, Qty)
    BY <2>1, <2>3, SumsDiffer
  <2>4. f[Qty] \in Nat /\ g[Qty] = f[Qty] + Part(x, b, Qty)
    BY <2>6 DEF y
  <2> QED BY <2>4
<1>7. Part(x, b, Qty) = b - x
  BY <1>1, QtyAssumption DEF Part, x
<1> QED BY <1>4, <1>5, <1>6, <1>7 DEF x

LEMMA TotalIsNumber ==
  ASSUME NEW a, NEW e
  PROVE  Total(Counts(a, e)) \in Nat
<1> DEFINE n == Counts(a, e)
<1>1. n \in [0..Qty -> Nat]
  BY CountsAreNumbers
<1> HIDE DEF n
<1>2. PICK f : Adds(f, n, Qty) /\ f[Qty] = Total(n)
  BY <1>1, TotalAdds
<1>3. Summed(n, n, 0, 0, f, f)
  BY <1>1, <1>2, QtyAssumption DEF Summed, Raised
<1>4. Qty \in 0..Qty
  BY QtyAssumption
<1> QED BY <1>2, <1>3, <1>4, SumsDiffer DEF n

LEMMA TotalOfNothing ==
  ASSUME NEW a, NEW e, \A k \in Kinds \ {"entry"} : a[<<e, k>>] = 0
  PROVE  Total(Counts(a, e)) = 0
<1>1. \A q \in 0..Qty : Counts(a, e)[q] = 0
  <2> SUFFICES ASSUME NEW q \in 0..Qty PROVE Counts(a, e)[q] = 0
    OBVIOUS
  <2>1. Above(a, e, q) = {}
    BY QtyAssumption DEF Above
  <2> QED BY <2>1, FS_EmptySet DEF Counts
<1>2. PICK f : Adds(f, Counts(a, e), Qty) /\ f[Qty] = Total(Counts(a, e))
  BY TotalAdds, CountsAreNumbers
<1> DEFINE Bad == {i \in 0..Qty : f[i] # 0}
<1>3. SUFFICES ASSUME Bad # {} PROVE FALSE
  BY <1>2, QtyAssumption
<1>4. PICK i \in Nat : Least(Bad, i)
  <2>1. Bad \subseteq Nat
    BY QtyAssumption
  <2> HIDE DEF Bad
  <2> QED BY <1>3, <2>1, LeastOf
<1>5. i \in 0..Qty /\ f[i] # 0 /\ (i # 0 => f[i - 1] = 0)
  BY <1>4, QtyAssumption DEF Least
<1> QED BY <1>1, <1>2, <1>5 DEF Adds

LEMMA AppliedIsTotal ==
  ASSUME NEW e
  PROVE  /\ Applied(e, Kinds \ {"entry"}) = Total(Counts(applied, e))
         /\ Applied(e, Kinds \ {"entry"})' = Total(Counts(applied', e))
  BY DEF Applied, Total, Counts, Above

(* What is known of an order was filled before it was known; an exit has   *)
(* been applied only to a trade; and an entry that is not filled in pieces *)
(* is applied as a whole, so that no exit can be applied before it.        *)
Whole(q) == InPieces \/ q \in {0, Qty}
Shares(e) ==
  /\ trade[e] = "none" => \A k \in Kinds \ {"entry"} : applied[<<e, k>>] = 0
  /\ Whole(filled[E(e)]) /\ Whole(applied[E(e)])
  /\ InPieces \/ trade[e] = "none" \/ remaining[e] = applied[E(e)] - Total(Counts(applied, e))
Heard == pc \in Linking => \A k \in Legs : snapshot[k].filled <= filled[Leg(cur, k)]
CInv ==
  /\ AInv /\ Heard
  /\ \A o \in Orders : applied[o] <= filled[o]
  /\ \A e \in Entries : Shares(e)

LEMMA CInit == Init => CInv
<1> SUFFICES ASSUME Init PROVE CInv
  OBVIOUS
<1>1. Heard
  BY DEF Init, Heard, Linking
<1>2. ASSUME NEW e \in Entries PROVE Shares(e)
  <2>1. E(e) \in Orders /\ \A k \in Kinds : <<e, k>> \in Orders
    BY DEF E, Orders, Kinds
  <2> QED BY <2>1 DEF Init, Shares, Whole
<1> QED BY <1>1, <1>2, AInit DEF Init, CInv

(* What is reported of an order is what was filled when it was asked for. *)
ReportOf(o) == \E s, q, size : /\ ApplyOrderState(o, s, q, size) /\ q \in 0..Qty /\ q <= filled[o]
                               /\ IsEntry(o) => q \in {0, filled[o]}
LEMMA ReportsAreTrue ==
  ASSUME CInv, Works
  PROVE  UNCHANGED <<applied, trade, remaining>> \/ \E o \in Orders : ReportOf(o)
<1> USE DEF CInv, AInv, JInv
<1> DEFINE Quiet == UNCHANGED <<applied, trade, remaining>>
<1>1. CASE Request
  <2>1. cur \in Orders /\ filled[cur] \in 0..Qty /\ 0 \in 0..Qty
    BY <1>1, QtyAssumption DEF Request, Control, Processing, Quantities
  <2>2. ApplyOrderState(cur, "new", 0, requested[cur]) \/ Quiet
    BY <1>1 DEF Request, MarkUnresolved, trades
  <2> HIDE DEF Quiet
  <2>3. Quiet \/ ReportOf(cur)
    BY <2>1, <2>2 DEF ReportOf
  <2> QED BY <2>1, <2>3 DEF Quiet
<1>2. ASSUME NEW k \in Legs, ApplyLeg(k) PROVE Quiet \/ ReportOf(Leg(cur, k))
  <2>1. pc \in Linking /\ pc \in {"leg_target", "leg_stop"}
    BY <1>2 DEF ApplyLeg, LegStep, Legs, Linking
  <2>2. /\ snapshot[k].filled \in 0..Qty /\ snapshot[k].filled <= filled[Leg(cur, k)]
        /\ ~IsEntry(Leg(cur, k))
    BY <2>1 DEF Quantities, Heard, Leg, IsEntry, Legs
  <2>3. ApplyOrderState(Leg(cur, k), snapshot[k].state, snapshot[k].filled, snapshot[k].qty) \/ Quiet
    BY <1>2 DEF ApplyLeg, MarkUnresolved, trades
  <2> HIDE DEF Quiet
  <2> QED BY <2>2, <2>3 DEF ReportOf
<1>3. ASSUME NEW k \in Legs, ApplyLeg(k) PROVE Leg(cur, k) \in Orders
  <2>1. pc \in {"leg_target", "leg_stop"}
    BY <1>3 DEF ApplyLeg, LegStep, Legs
  <2> QED BY <2>1, OrderParts DEF Leg, Control, Processing
<1>4. ASSUME NEW o \in Orders, sync_order(o) PROVE Quiet \/ ReportOf(o)
  <2>1. \/ Quiet
        \/ bstate[o] # "none" /\ ApplyOrderState(o, bstate[o], filled[o], bqty[o])
    BY <1>4 DEF sync_order, Fetch, MarkUnresolved, trades
  <2>2. filled[o] \in 0..Qty /\ filled[o] <= filled[o]
    BY DEF Quantities
  <2> HIDE DEF Quiet
  <2> QED BY <2>1, <2>2 DEF ReportOf
<1>5. ASSUME NEW o \in Orders, cancel_flatten_entry(o) \/ cancel_active(o) PROVE Quiet
  BY <1>5 DEF cancel_flatten_entry, cancel_active, MarkUnresolved, journal, orders, trades
<1>6. Send \/ DiscoverLegs \/ reconcile \/ synced \/ cancels_sent \/ observe \/ tick \/ ticked \/ close_position
      \/ close_decision \/ active_canceled \/ SessionClock \/ Crash => Quiet
  BY DEF Send, DiscoverLegs, reconcile, synced, cancels_sent, observe, tick, ticked, close_position, close_decision,
         active_canceled, SessionClock, Crash, journal, orders, trades
<1>7. ASSUME NEW e \in Entries, open_position(e) PROVE Quiet
  BY <1>7 DEF open_position, trades
<1> DEFINE Goal == Quiet \/ \E o \in Orders : ReportOf(o)
<1> SUFFICES Goal
  OBVIOUS
<1>8. Quiet => Goal
  OBVIOUS
<1>9. (\E k \in Legs : ApplyLeg(k)) \/ (\E o \in Orders : sync_order(o)) => Goal
  <2> HIDE DEF Quiet
  <2> QED BY <1>2, <1>3, <1>4
<1>10. Request => Goal
  BY <1>1
<1> HIDE DEF Quiet, Goal, CInv, AInv, JInv
<1>11. CASE WorkerStep
  BY <1>5, <1>6, <1>8, <1>9, <1>10, <1>11 DEF WorkerStep
<1> QED BY <1>6, <1>7, <1>8, <1>11 DEF Works

(* One report, applied: its shares are counted once.                       *)
LEMMA ReportCounts ==
  ASSUME CInv, Works, NEW o \in Orders, ReportOf(o)
  PROVE  /\ \A p \in Orders : applied'[p] <= filled'[p]
         /\ \A e \in Entries : Shares(e)'
<1> USE DEF CInv, AInv, JInv
<1>1. PICK s, q, size : /\ ApplyOrderState(o, s, q, size) /\ q \in 0..Qty /\ q <= filled[o]
                        /\ IsEntry(o) => q \in {0, filled[o]}
  BY DEF ReportOf
<1>2. /\ applied \in [Orders -> 0..Qty] /\ remaining \in [Entries -> 0..Qty]
      /\ trade \in [Entries -> {"none", "open", "closed"}] /\ UNCHANGED filled
  BY WorksAtBroker DEF Quantities, Types, JournalTypes
<1>3. /\ applied' = [applied EXCEPT ![o] = q] /\ applied'[o] = q
      /\ \A p \in Orders : p # o => applied'[p] = applied[p]
  BY <1>1, <1>2 DEF ApplyOrderState
<1>4. \A p \in Orders : applied'[p] <= filled'[p]
  BY <1>1, <1>2, <1>3
<1>5. o[1] \in Entries /\ o[2] \in Kinds /\ o = <<o[1], o[2]>> /\ (IsEntry(o) <=> o[2] = "entry")
      /\ (IsEntry(o) <=> o = E(o[1]))
  BY OrderParts DEF IsEntry, E
<1>6. \A e \in Entries : e # o[1] => trade'[e] = trade[e] /\ remaining'[e] = remaining[e]
  BY <1>1, <1>2, <1>5 DEF ApplyOrderState
<1>7. ASSUME NEW e \in Entries, e # o[1] PROVE Shares(e)'
  <2>1. \A k \in Kinds : <<e, k>> \in Orders /\ <<e, k>> # o
    BY <1>5, <1>7 DEF Orders
  <2>2. E(e) \in Orders /\ E(e) # o
    BY <2>1 DEF E, Kinds
  <2>3. \A k \in Kinds : applied'[<<e, k>>] = applied[<<e, k>>]
    BY <1>3, <2>1
  <2>4. Counts(applied', e) = Counts(applied, e)
    <3>1. \A x : Above(applied', e, x) = Above(applied, e, x)
      BY <2>3 DEF Above
    <3> QED BY <3>1 DEF Counts
  <2>5. applied'[E(e)] = applied[E(e)] /\ filled'[E(e)] = filled[E(e)]
    BY <1>2, <1>3, <2>2
  <2>6. Shares(e)
    OBVIOUS
  <2> QED BY <1>6, <1>7, <2>3, <2>4, <2>5, <2>6 DEF Shares, Whole
<1>8. PICK e \in Entries : e = o[1]
  BY <1>5
<1>9. Shares(e) /\ Traded(e) /\ E(e) \in Orders /\ \A k \in Kinds : <<e, k>> \in Orders
  BY <1>8 DEF E, Orders, Kinds
<1>10. ASSUME q = applied[o] PROVE Shares(e)'
  <2>1. applied' = applied /\ UNCHANGED <<trade, remaining>>
    BY <1>1, <1>2, <1>3, <1>10 DEF ApplyOrderState
  <2> QED BY <1>2, <1>9, <2>1 DEF Shares, Whole
<1>11. ASSUME q > applied[o], IsEntry(o) PROVE Shares(e)'
  <2>1. o = E(e) /\ \A k \in Kinds \ {"entry"} : <<e, k>> # o
    BY <1>5, <1>8, <1>11 DEF E
  <2>2. q \in Nat /\ q >= 1 /\ Whole(q) /\ filled'[o] = filled[o]
    <3>1. q \in Nat /\ applied[o] \in Nat
      BY <1>1, <1>2
    <3>2. q = filled[o]
      BY <1>1, <1>11, <3>1
    <3> QED BY <1>2, <1>9, <1>11, <2>1, <3>1, <3>2 DEF Shares
  <2>3. /\ remaining' = [remaining EXCEPT ![e] = q]
        /\ trade' = [trade EXCEPT ![e] = IF @ = "none" THEN "open" ELSE @]
    BY <1>1, <1>8, <1>11 DEF ApplyOrderState
  <2>4. trade'[e] # "none" /\ remaining'[e] = q
    BY <1>2, <2>3
  <2>5. InPieces \/ trade[e] = "none"
    <3>1. applied[o] > 0 <=> trade[e] # "none"
      BY <1>9, <2>1 DEF Traded
    <3>2. InPieces \/ applied[o] \in {0, Qty}
      BY <1>9, <2>1 DEF Shares, Whole
    <3> QED BY <1>1, <1>11, <3>1, <3>2, QtyAssumption
  <2>6. InPieces \/ Total(Counts(applied', e)) = 0
    <3>1. InPieces \/ \A k \in Kinds \ {"entry"} : applied'[<<e, k>>] = 0
      BY <1>3, <1>9, <2>1, <2>5 DEF Shares
    <3> QED BY <3>1, TotalOfNothing
  <2>7. Whole(filled'[E(e)]) /\ Whole(applied'[E(e)]) /\ applied'[E(e)] = q
    BY <1>3, <1>9, <2>1, <2>2 DEF Shares
  <2>8. InPieces \/ remaining'[e] = applied'[E(e)] - Total(Counts(applied', e))
    BY <2>2, <2>4, <2>6, <2>7
  <2> QED BY <2>4, <2>7, <2>8 DEF Shares, Whole
<1>12. ASSUME q > applied[o], ~IsEntry(o) PROVE Shares(e)'
  <2>1. PICK k \in Kinds \ {"entry"} : o = <<e, k>>
    BY <1>5, <1>8, <1>12
  <2>2. PICK d \in Int : d = q - applied[o]
    BY <1>1, <1>2
  <2>3. d >= 1 /\ d <= remaining[e]
    BY <1>1, <1>2, <1>8, <1>12, <2>2 DEF ApplyOrderState, Fits, Delta
  <2>4. /\ remaining' = [remaining EXCEPT ![e] = remaining[e] - d]
        /\ trade' = [trade EXCEPT ![e] = IF remaining'[e] = 0 THEN "closed" ELSE @]
    BY <1>1, <1>2, <1>8, <1>12, <2>2 DEF ApplyOrderState, Delta
  <2>5. trade[e] # "none"
    BY <1>2, <1>9, <2>3 DEF Traded
  <2>6. trade'[e] # "none" /\ remaining'[e] = remaining[e] - d /\ remaining[e] \in Nat
    BY <1>2, <2>4, <2>5
  <2>7. Total(Counts(applied', e)) = Total(Counts(applied, e)) + d
    <3>1. applied[<<e, k>>] <= q /\ applied' = [applied EXCEPT ![<<e, k>>] = q]
      <4>1. applied[o] <= q /\ applied' = [applied EXCEPT ![o] = q]
        BY <1>1, <1>2, <1>3, <1>12
      <4> QED BY <2>1, <4>1
    <3>2. d = q - applied[<<e, k>>] /\ q \in 0..Qty
      BY <1>1, <2>1, <2>2
    <3>3. Total(Counts([applied EXCEPT ![<<e, k>>] = q], e)) = Total(Counts(applied, e)) + (q - applied[<<e, k>>])
      BY <1>2, <3>1, <3>2, TotalRises
    <3> QED BY <3>1, <3>2, <3>3
  <2>8. E(e) # o
    BY <2>1 DEF E
  <2>9. applied'[E(e)] = applied[E(e)] /\ filled'[E(e)] = filled[E(e)] /\ applied[E(e)] \in Nat
    BY <1>2, <1>3, <1>9, <2>8
  <2>10. InPieces \/ remaining'[e] = applied'[E(e)] - Total(Counts(applied', e))
    <3>1. InPieces \/ remaining[e] = applied[E(e)] - Total(Counts(applied, e))
      BY <1>9, <2>5 DEF Shares
    <3>2. Total(Counts(applied, e)) \in Int
      BY TotalIsNumber
    <3> QED BY <2>6, <2>7, <2>9, <3>1, <3>2
  <2>11. Whole(filled'[E(e)]) /\ Whole(applied'[E(e)])
    BY <1>9, <2>9 DEF Shares
  <2> QED BY <2>6, <2>10, <2>11 DEF Shares, Whole
<1>13. Shares(e)'
  BY <1>1, <1>10, <1>11, <1>12 DEF ApplyOrderState
<1> QED BY <1>4, <1>7, <1>8, <1>13

LEMMA HeardNext ==
  ASSUME CInv, Works
  PROVE  Heard'
<1> USE DEF CInv, AInv, JInv
<1> DEFINE Goal == Heard'
<1>0. SUFFICES ASSUME pc' \in Linking PROVE Goal
  BY DEF Heard
<1>1. UNCHANGED filled /\ ~Back
  BY <1>0, WorksAtBroker DEF Back, Linking
<1>2. ASSUME snapshot' = NestedLegs(cur'[1]) PROVE Goal
  <2>1. /\ \A k \in Legs : snapshot'[k].filled = filled'[Leg(cur', k)]
        /\ \A k \in Legs : Leg(cur', k) \in Orders
        /\ \A o \in Orders : filled'[o] \in Int
    <3>1. cur' \in Orders /\ JInv'
      <4>1. JInv'
        BY JNext, WorksIsNext
      <4> QED BY <1>0, <4>1 DEF Control, Processing, Linking
    <3> QED BY <1>1, <1>2, <3>1, OrderParts DEF NestedLegs, Leg, Types, BrokerTypes
  <2> QED BY <2>1 DEF Heard
<1>3. ASSUME pc \in Linking, UNCHANGED <<cur, snapshot>> PROVE Goal
  BY <1>1, <1>3 DEF Heard, Leg
<1>4. Request => snapshot' = NestedLegs(cur'[1])
  BY <1>1 DEF Request
<1>5. DiscoverLegs => pc \in Linking /\ UNCHANGED <<cur, snapshot>>
  BY DEF DiscoverLegs, Linking
<1>6. ASSUME NEW k \in Legs, ApplyLeg(k) PROVE pc \in Linking /\ UNCHANGED <<cur, snapshot>>
  <2>1. pc \in Linking
    BY <1>6 DEF ApplyLeg, LegStep, Legs, Linking
  <2> QED BY <1>1, <1>6, <2>1 DEF ApplyLeg
<1>7. ASSUME NEW o \in Orders, sync_order(o) PROVE snapshot' = NestedLegs(cur'[1])
  BY <1>0, <1>7 DEF sync_order, Fetch, Linking
<1> HIDE DEF Goal
<1> QED BY <1>0, <1>2, <1>3, <1>4, <1>5, <1>6, <1>7, LinkingComes

(* The broker only adds to what is filled, at once if not in pieces.       *)
LEMMA BrokerAdds ==
  ASSUME AInv, NEW o \in Orders, Fills(o) \/ CancelTakesEffect(o) \/ Reject(o) \/ Expire(o)
  PROVE  /\ \A p \in Orders : filled'[p] >= filled[p]
         /\ \A e \in Entries : Whole(filled[E(e)]) => Whole(filled'[E(e)])
<1> USE DEF AInv
<1>1. filled \in [Orders -> 0..Qty] /\ \A p \in Orders : filled[p] \in Int
  BY DEF Quantities
<1>2. CASE EntryFills(o)
  <2>1. o = E(o[1]) /\ o[1] \in Entries
    BY <1>2, KindOf DEF EntryFills
  <2>2. bqty[o] = Qty /\ (InPieces \/ filled[o] = 0)
    BY <1>2, <2>1 DEF EntryFills, Shape
  <2>3. filled' = [filled EXCEPT ![o] = filled[o] + (IF InPieces THEN 1 ELSE Qty)]
    BY <1>2, <2>2 DEF EntryFills
  <2>4. \A p \in Orders : filled'[p] >= filled[p]
    <3>1. filled[o] + (IF InPieces THEN 1 ELSE Qty) >= filled[o]
      BY <1>1, QtyAssumption
    <3> QED BY <1>1, <2>3, <3>1
  <2>5. ASSUME NEW e \in Entries, Whole(filled[E(e)]) PROVE Whole(filled'[E(e)])
    <3>1. E(e) \in Orders
      BY RowsOf
    <3>2. CASE E(e) = o
      <4>1. InPieces \/ filled'[E(e)] = Qty
        BY <1>1, <2>2, <2>3, <3>1, <3>2, QtyAssumption
      <4> QED BY <4>1 DEF Whole
    <3>3. CASE E(e) # o
      BY <1>1, <2>3, <2>5, <3>1, <3>3
    <3> QED BY <3>2, <3>3
  <2> QED BY <2>4, <2>5
<1>3. CASE LegFills(o) \/ ExitFills(o)
  <2>1. filled' = [filled EXCEPT ![o] = filled[o] + 1] /\ ~IsEntry(o)
    <3>1. IsLeg(o) \/ o[2] \in ExitKinds
      BY <1>3 DEF LegFills, ExitFills
    <3> QED BY <1>3, <3>1, KindsAssumption DEF LegFills, ExitFills, IsLeg, IsEntry, Legs
  <2>2. \A e \in Entries : E(e) # o /\ E(e) \in Orders
    BY <2>1, RowsOf
  <2>3. filled[o] + 1 >= filled[o]
    BY <1>1
  <2> QED BY <1>1, <2>1, <2>2, <2>3
<1>4. CASE CancelTakesEffect(o) \/ Reject(o) \/ Expire(o)
  <2>1. UNCHANGED filled
    BY <1>4 DEF CancelTakesEffect, Reject, Expire
  <2> QED BY <1>1, <2>1
<1> QED BY <1>2, <1>3, <1>4 DEF Fills

LEMMA CNext ==
  ASSUME CInv, [Next]_vars
  PROVE  CInv'
<1>1. AInv'
  BY ANext, AStutter DEF CInv
<1>2. /\ \A o \in Orders : applied[o] \in Int /\ filled[o] \in Int /\ filled'[o] \in Int
      /\ \A e \in Entries : E(e) \in Orders
  <2>1. filled \in [Orders -> Int] /\ applied \in [Orders -> Nat]
    BY DEF CInv, AInv, JInv, Types, BrokerTypes, JournalTypes
  <2>2. filled' \in [Orders -> Int]
    BY <1>1 DEF AInv, JInv, Types, BrokerTypes
  <2> QED BY <2>1, <2>2, RowsOf
<1>3. CASE Works
  <2>1. UNCHANGED filled
    BY <1>3, WorksAtBroker DEF CInv
  <2>2. CASE UNCHANGED <<applied, trade, remaining>>
    <3>1. \A e \in Entries : Shares(e)'
      BY <2>1, <2>2 DEF CInv, Shares
    <3>2. \A o \in Orders : applied'[o] <= filled'[o]
      BY <2>1, <2>2 DEF CInv
    <3> QED BY <1>1, <1>3, <3>1, <3>2, HeardNext DEF CInv
  <2>3. CASE \E o \in Orders : ReportOf(o)
    <3>1. (\A o \in Orders : applied'[o] <= filled'[o]) /\ \A e \in Entries : Shares(e)'
      BY <1>3, <2>3, ReportCounts
    <3> QED BY <1>1, <1>3, <3>1, HeardNext DEF CInv
  <2> QED BY <1>3, <2>2, <2>3, ReportsAreTrue
<1>4. ASSUME NEW o \in Orders, Fills(o) \/ CancelTakesEffect(o) \/ Reject(o) \/ Expire(o) PROVE CInv'
  <2>1. UNCHANGED <<applied, trade, remaining, pc, cur, snapshot>>
    BY <1>4, BrokerMoves
  <2>2. (\A p \in Orders : filled'[p] >= filled[p]) /\ \A e \in Entries : Whole(filled[E(e)]) => Whole(filled'[E(e)])
    BY <1>4, BrokerAdds DEF CInv
  <2>3. \A p \in Orders : applied'[p] <= filled'[p]
    BY <1>2, <2>1, <2>2 DEF CInv
  <2>4. ASSUME NEW e \in Entries PROVE Shares(e)'
    <3>1. Shares(e)
      BY DEF CInv
    <3> QED BY <2>1, <2>2, <3>1 DEF Shares
  <2>5. Heard'
    <3>1. ASSUME pc \in Linking, NEW k \in Legs PROVE snapshot[k].filled <= filled'[Leg(cur, k)]
      <4>1. Leg(cur, k) \in Orders /\ snapshot[k].filled \in Int
        BY <3>1, OrderParts DEF CInv, AInv, JInv, Control, Processing, Linking, Leg, Types, MemoryTypes
      <4> QED BY <1>2, <2>2, <3>1, <4>1 DEF CInv, Heard
    <3> QED BY <2>1, <3>1 DEF Heard, Leg
  <2> QED BY <1>1, <2>3, <2>4, <2>5 DEF CInv
<1>5. CASE UNCHANGED vars
  <2>1. UNCHANGED <<applied, filled, trade, remaining, pc, cur, snapshot>>
    BY <1>5 DEF vars, journal, orders, trades, memory, broker
  <2>2. Heard'
    BY <2>1 DEF CInv, Heard, Leg
  <2>3. (\A p \in Orders : applied'[p] <= filled'[p]) /\ \A e \in Entries : Shares(e)'
    BY <2>1 DEF CInv, Shares
  <2> QED BY <1>1, <2>2, <2>3 DEF CInv
<1> QED BY <1>3, <1>4, <1>5 DEF Next, Works

(* What a report says of an order has been filled, and an entry that fills *)
(* at once is applied before any exit of it can be.                        *)
THEOREM CountingInvariant == Spec => []CInv
<1> QED BY CInit, CNext, PTL DEF Spec

(* Where entries fill at once, the shares of a trade are the entry fills   *)
(* less the exit fills: none is counted twice, none is left out.  (Filled  *)
(* in pieces they are not: MCAlpacaBrokerPieces shows how.)                *)
THEOREM FillsCountedOnceHolds == ASSUME ~InPieces PROVE Spec => []FillsCountedOnce
<1>1. ASSUME CInv, NEW e \in Entries
      PROVE  /\ trade[e] # "none" => remaining[e] = applied[<<e, "entry">>] - Applied(e, Kinds \ {"entry"})
             /\ \A k \in Kinds : applied[<<e, k>>] <= filled[<<e, k>>]
  <2>1. Shares(e) /\ \A k \in Kinds : <<e, k>> \in Orders
    BY <1>1 DEF CInv, Orders
  <2>2. Applied(e, Kinds \ {"entry"}) = Total(Counts(applied, e))
    BY AppliedIsTotal
  <2> QED BY <1>1, <2>1, <2>2 DEF CInv, Shares, E
<1>2. CInv => FillsCountedOnce
  BY <1>1 DEF FillsCountedOnce
<1> QED BY <1>2, CountingInvariant, PTL

=============================================================================
