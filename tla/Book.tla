-------------------------------- MODULE Book --------------------------------
(***************************************************************************)
(* One symbol's order book: engine/src/book.cpp, stops.cpp, the levels and *)
(* validation of book_levels.cpp, and engine/include/engine/book.hpp.      *)
(*                                                                         *)
(* A Book is called by one worker thread, one call at a time.  A call runs *)
(* a long loop (the walk of the opposite side, then the cascade of stops   *)
(* its trades wake, each of which walks again), so a call is a sequence of *)
(* steps and pc says where in the call the book is:                        *)
(*                                                                         *)
(*   idle   no call is running                                             *)
(*   enter  add_order_core is about to validate its order                  *)
(*   match  the order walks the opposite side, one fill per step           *)
(*   settle the walk is over and the remainder is to rest or to expire     *)
(*   wake   check_and_trigger_stops collects the stops the trades reached  *)
(*   fire   the drain loop of check_and_trigger_stops                      *)
(*   done   the call has its result and the worker drains the events       *)
(*                                                                         *)
(* plan_match computes the whole plan first and add_order_core then walks  *)
(* it.  Nothing the walk changes is read by the rest of the plan, so here  *)
(* the two are one lazy walk.  Sequence numbers and timestamps of events,  *)
(* and trade ids are not kept.                                             *)
(***************************************************************************)
EXTENDS RestingOrders, FiniteSets

CONSTANTS
  Owners,          \* owner ids
  BandBps,         \* band_bps_
  CollarBps,       \* market_collar_bps_, 0 = no collar
  GracePeriod,     \* grace_period_ms_
  HaltDuration,    \* halt_duration_ms_
  NewOrders,       \* the orders the callers send
  NewStops,        \* the stops the callers send
  Targets,         \* whom their cancels and modifies name: an id and a requester
  Amendments,      \* prices and quantities of modify_order
  StopAmendments,  \* prices and quantities of modify_stop_order
  Times,           \* the timestamps the worker passes
  MaxPriority      \* bound: entries into the back of the stop queue

Types == {"Limit", "Market"}
Prices == Int \cup {None}

Opposite(side) == IF side = "Buy" THEN "Sell" ELSE "Buy"

Order == [id : Ids, owner : Owners, side : Sides, type : Types,
          price : Prices, quantity : Int, filled : Nat]

StopOrder == [id : Ids, owner : Owners, side : Sides, stop_price : Int,
              limit_price : Prices, quantity : Int]

DormantStop == [stop : StopOrder, priority : Int]

TradeRange == [low : Int, high : Int, last : Int]

RejectReason == {"None", "InvalidPrice", "InvalidQuantity", "SelfTrade", "PoolExhausted",
                 "SymbolHalted", "UnknownOrder", "DuplicateOrderId", "TooLate",
                 "PriceBand", "PriceCollar", "StopWouldTrigger"}

EventKind == {"Accepted", "Rested", "Trade", "Cancelled", "Modified", "Replaced",
              "StopAccepted", "StopTriggered", "StopCancelled", "StopModified",
              "Halted", "Resumed", "Rejected", "Expired"}

EngineEvent == [kind : EventKind, id : Ids \cup {None}, passive_id : Ids \cup {None},
                owner : Owners \cup {None}, other_owner : Owners \cup {None},
                side : Sides, price : Prices, quantity : Int, limit_price : Prices,
                reject_reason : RejectReason]

OrderResult == [id : Ids, call : {"add", "modify", "cancel", "stop"},
                reject_reason : RejectReason, unaccepted_quantity : Int,
                rested_price : Prices]

ASSUME ConstantsAssumption ==
  /\ None \notin Int
  /\ None \notin Ids
  /\ None \notin Owners
  /\ None \notin Order \cup DormantStop \cup TradeRange \cup OrderResult
  /\ PoolCapacity \in Nat
  /\ BandBps \in 1 .. 9999
  /\ CollarBps \in 0 .. 9999
  /\ GracePeriod \in Nat
  /\ HaltDuration \in Nat
  /\ NewOrders \subseteq {order \in Order : order.filled = 0}
  /\ NewStops \subseteq StopOrder
  /\ Targets \subseteq [id : Ids, requester : Owners]
  /\ Amendments \subseteq [price : Int, quantity : Int]
  /\ StopAmendments \subseteq [stop_price : Int, limit_price : Prices, quantity : Int]
  /\ Times \subseteq Nat
  /\ MaxPriority \in Nat

VARIABLES
  finished_orders,       \* id -> "None", "Filled" or "Cancelled"
  owner_of,              \* owner_of_: id -> owner, or None
  stop_ids_seen,         \* stop_ids_seen_
  dormant,               \* sell_stops_, buy_stops_, stop_index_: stop and priority, or None
  next_back_priority,    \* relative to kPriorityMid
  next_front_priority,   \* relative to kPriorityMid
  triggered_stops,       \* triggered_stops_: FIFO of woken stops
  draining_stops,
  reference_price,       \* reference_price_ = last_trade_price_, None before a trade
  outside_band_since,
  halted,
  halt_until,
  now,                   \* the call's timestamp; the worker never passes a smaller one
  pc,
  incoming,              \* the order add_order_core is working on
  origin,                \* who entered it: a new order, a modify, a fired stop
  verdict,               \* why the walk stopped, "None" if it ran to its end
  breach_level,
  trades,                \* lowest, highest and last price of result.trades, or None
  result,                \* what the call returns
  events                 \* events_

recordVars == <<finished_orders, owner_of, stop_ids_seen>>
stopVars == <<dormant, next_back_priority, next_front_priority>>
queueVars == <<triggered_stops, draining_stops>>
bandVars == <<outside_band_since, halted, halt_until>>
walkVars == <<verdict, breach_level, trades>>
entryVars == <<incoming, origin, walkVars, queueVars, reference_price>>
vars == <<bookVars, recordVars, stopVars, queueVars, bandVars, walkVars, reference_price,
          now, pc, incoming, origin, result, events>>

-----------------------------------------------------------------------------
(* Prices and bands *)

\* p is at least as good as q for an order resting on this side.
AtLeastAsGood(side, p, q) == IF side = "Buy" THEN p >= q ELSE p <= q

lower_limit(bps) == (reference_price * (10000 - bps) + 9999) \div 10000

upper_limit(bps) == (reference_price * (10000 + bps)) \div 10000

within_band(p) ==
  reference_price # None => p \in lower_limit(BandBps) .. upper_limit(BandBps)

inside_collar(order, p) ==
  (order.type = "Market" /\ CollarBps > 0 /\ reference_price # None) =>
     IF order.side = "Buy" THEN p <= upper_limit(CollarBps) ELSE p >= lower_limit(CollarBps)

IsBest(side, p) ==
  /\ p \in DOMAIN levels[side]
  /\ \A q \in DOMAIN levels[side] : AtLeastAsGood(side, p, q)

-----------------------------------------------------------------------------
(* Events *)

OrderEvent(kind, order) ==
  [kind |-> kind, id |-> order.id, passive_id |-> None, owner |-> order.owner,
   other_owner |-> None, side |-> order.side, price |-> order.price,
   quantity |-> order.quantity, limit_price |-> None, reject_reason |-> "None"]

StopEvent(kind, stop) ==
  [kind |-> kind, id |-> stop.id, passive_id |-> None, owner |-> stop.owner,
   other_owner |-> None, side |-> stop.side, price |-> stop.stop_price,
   quantity |-> stop.quantity, limit_price |-> stop.limit_price, reject_reason |-> "None"]

TradeEvent(aggressor, passive, quantity) ==
  [kind |-> "Trade", id |-> aggressor.id, passive_id |-> passive.id,
   owner |-> IF aggressor.side = "Buy" THEN aggressor.owner ELSE passive.owner,
   other_owner |-> IF aggressor.side = "Sell" THEN aggressor.owner ELSE passive.owner,
   side |-> aggressor.side, price |-> passive.price, quantity |-> quantity,
   limit_price |-> None, reject_reason |-> "None"]

ResumedEvent ==
  [kind |-> "Resumed", id |-> None, passive_id |-> None, owner |-> None,
   other_owner |-> None, side |-> "Buy", price |-> None, quantity |-> 0,
   limit_price |-> None, reject_reason |-> "None"]

Emit(event) == events' = Append(events, event)

\* Emitting Accepted or StopAccepted records the owner; the first accept wins.
RecordOwner(accepted) ==
  owner_of' = [owner_of EXCEPT ![accepted.id] = IF @ = None THEN accepted.owner ELSE @]

-----------------------------------------------------------------------------
(* Validation *)

validate_order_fields(order) ==
  IF \/ order.type = "Limit" /\ (order.price = None \/ order.price \notin Nat \ {0})
     \/ order.type = "Market" /\ order.price # None
  THEN "InvalidPrice"
  ELSE IF order.quantity <= 0 THEN "InvalidQuantity" ELSE "None"

validate_stop_fields(stop) ==
  IF stop.quantity <= 0 THEN "InvalidQuantity"
  ELSE IF stop.stop_price <= 0 \/ (stop.limit_price # None /\ stop.limit_price \notin Nat \ {0})
       THEN "InvalidPrice"
       ELSE "None"

\* Fault: a finished id may be used again.
id_in_use_ForgetsFinished(id) == resting[id] # None \/ dormant[id] # None

\* Fault: the id of a stop that fired counts as used.
id_in_use_RemembersStops(id) ==
  resting[id] # None \/ finished_orders[id] # "None" \/ id \in stop_ids_seen

id_in_use(id) ==
  resting[id] # None \/ finished_orders[id] # "None" \/ dormant[id] # None

owned_by(id, requester) == owner_of[id] # None /\ owner_of[id] = requester

would_trigger_now(side, stop_price) ==
  /\ reference_price # None
  /\ IF side = "Sell" THEN reference_price <= stop_price ELSE reference_price >= stop_price

\* Fault: the last tick of a halt counts as over.
StillHalted_EndsEarly(t) == halted /\ t + 1 < halt_until

StillHalted(t) == halted /\ t < halt_until

\* validate_new_order lifts a halt whose time is over, whatever it answers.
HaltIsOver(t) == halted /\ t >= halt_until

Resume(t) ==
  /\ halted' = (halted /\ ~HaltIsOver(t))
  /\ outside_band_since' = IF HaltIsOver(t) THEN None ELSE outside_band_since
  /\ UNCHANGED halt_until

EventsAfterResume(t) == IF HaltIsOver(t) THEN Append(events, ResumedEvent) ELSE events

\* What add_order_core says of an order before it accepts it.
EntryRefusal(order) ==
  IF StillHalted(now) THEN "SymbolHalted"
  ELSE IF validate_order_fields(order) # "None" THEN validate_order_fields(order)
  ELSE IF id_in_use(order.id) THEN "DuplicateOrderId" ELSE "None"

GoneReason(id) == IF finished_orders[id] # "None" THEN "TooLate" ELSE "UnknownOrder"

stop_gone_reason(id) == IF id \in stop_ids_seen THEN "TooLate" ELSE "UnknownOrder"

-----------------------------------------------------------------------------
Init ==
  /\ resting = [id \in Ids |-> None]
  /\ levels = [side \in Sides |-> <<>>]
  /\ free_nodes = PoolCapacity
  /\ finished_orders = [id \in Ids |-> "None"]
  /\ owner_of = [id \in Ids |-> None]
  /\ stop_ids_seen = {}
  /\ dormant = [id \in Ids |-> None]
  /\ next_back_priority = 0
  /\ next_front_priority = -1
  /\ triggered_stops = <<>>
  /\ draining_stops = FALSE
  /\ reference_price = None
  /\ outside_band_since = None
  /\ halted = FALSE
  /\ halt_until = 0
  /\ now = 0
  /\ pc = "idle"
  /\ incoming = None
  /\ origin = "new"
  /\ verdict = "None"
  /\ breach_level = None
  /\ trades = None
  /\ result = None
  /\ events = <<>>

-----------------------------------------------------------------------------
(* The calls *)

Call(t) ==
  /\ pc = "idle"
  /\ t >= now
  /\ now' = t

Answer(call, id, reason, unaccepted) ==
  result' = [id |-> id, call |-> call, reject_reason |-> reason,
             unaccepted_quantity |-> unaccepted, rested_price |-> None]

\* The call ends here with its answer, having entered no order.
Finish(call, id, reason, unaccepted) ==
  /\ pc' = "done"
  /\ Answer(call, id, reason, unaccepted)
  /\ UNCHANGED entryVars

Refuse(call, id, reason, unaccepted, t) ==
  /\ Call(t)
  /\ reason # "None"
  /\ Finish(call, id, reason, unaccepted)
  /\ UNCHANGED <<bookVars, recordVars, stopVars, bandVars, events>>

Enter(order, why) ==
  /\ pc' = "enter"
  /\ incoming' = order
  /\ origin' = why

add_order(order, t) ==
  /\ Call(t)
  /\ Enter(order, "new")
  /\ UNCHANGED <<bookVars, recordVars, stopVars, queueVars, bandVars, walkVars,
                 reference_price, result, events>>

CancelRefusal(id, requester) ==
  IF ~owned_by(id, requester) THEN "UnknownOrder"
  ELSE IF resting[id] = None THEN GoneReason(id) ELSE "None"

cancel_order_refused(id, requester, t) ==
  Refuse("cancel", id, CancelRefusal(id, requester), 0, t)

\* Emitting Cancelled records the id as finished.
CancelRest(id) ==
  /\ Emit(OrderEvent("Cancelled", resting[id]))
  /\ finished_orders' = [finished_orders EXCEPT ![id] = "Cancelled"]
  /\ remove_resting(id)
  /\ UNCHANGED <<owner_of, stop_ids_seen, stopVars, bandVars>>

cancel_order(id, requester, t) ==
  /\ Call(t)
  /\ CancelRefusal(id, requester) = "None"
  /\ CancelRest(id)
  /\ Finish("cancel", id, "None", 0)

\* modify_order: a.quantity is the total the client now wants, fills included.
NewRemaining(id, a) == a.quantity - resting[id].filled

Requested(id, a) == [resting[id] EXCEPT !.price = a.price, !.quantity = a.quantity]

Amended(id, a) == [resting[id] EXCEPT !.price = a.price, !.quantity = NewRemaining(id, a)]

\* Fault: a bigger order keeps its place.
KeepsPlace_WhenBigger(id, a) == a.price = resting[id].price

KeepsPlace(id, a) == a.price = resting[id].price /\ NewRemaining(id, a) <= resting[id].quantity

MustReenter(id, a) == NewRemaining(id, a) > 0 /\ ~KeepsPlace(id, a)

\* Fault: the halt is left for add_order_core to find, after the removal.
ModifyRefusal_IgnoresHalt(id, requester, a, t) ==
  IF CancelRefusal(id, requester) # "None" THEN CancelRefusal(id, requester)
  ELSE validate_order_fields(Requested(id, a))

ModifyRefusal(id, requester, a, t) ==
  IF CancelRefusal(id, requester) # "None" THEN CancelRefusal(id, requester)
  ELSE IF validate_order_fields(Requested(id, a)) # "None"
       THEN validate_order_fields(Requested(id, a))
  ELSE IF MustReenter(id, a) /\ StillHalted(t) THEN "SymbolHalted" ELSE "None"

modify_order_refused(id, requester, a, t) ==
  Refuse("modify", id, ModifyRefusal(id, requester, a, t), a.quantity, t)

\* In-flight fill: the client already has what it now wants.
modify_order_cancels(id, requester, a, t) ==
  /\ Call(t)
  /\ ModifyRefusal(id, requester, a, t) = "None"
  /\ NewRemaining(id, a) <= 0
  /\ CancelRest(id)
  /\ Finish("modify", id, "None", 0)

modify_order_in_place(id, requester, a, t) ==
  /\ Call(t)
  /\ ModifyRefusal(id, requester, a, t) = "None"
  /\ NewRemaining(id, a) > 0
  /\ KeepsPlace(id, a)
  /\ resting' = [resting EXCEPT ![id] = Amended(id, a)]
  /\ Emit(OrderEvent("Modified", Amended(id, a)))
  /\ Finish("modify", id, "None", 0)
  /\ UNCHANGED <<levels, free_nodes, recordVars, stopVars, bandVars>>

modify_order_replaces(id, requester, a, t) ==
  /\ Call(t)
  /\ ModifyRefusal(id, requester, a, t) = "None"
  /\ MustReenter(id, a)
  /\ Resume(t)
  /\ events' = Append(EventsAfterResume(t), OrderEvent("Replaced", resting[id]))
  /\ remove_resting(id)
  /\ Enter(Amended(id, a), "modify")
  /\ UNCHANGED <<recordVars, stopVars, queueVars, walkVars, reference_price, result>>

-----------------------------------------------------------------------------
(* Stop entry, cancel and modify *)

DormantAt(stop, priority) == [stop |-> stop, priority |-> priority]

PlaceRefusal(stop) ==
  IF validate_stop_fields(stop) # "None" THEN validate_stop_fields(stop)
  ELSE IF id_in_use(stop.id) THEN "DuplicateOrderId"
  ELSE IF would_trigger_now(stop.side, stop.stop_price) THEN "StopWouldTrigger" ELSE "None"

place_stop_order_refused(stop, t) ==
  /\ Call(t)
  /\ PlaceRefusal(stop) # "None"
  /\ Emit([StopEvent("Rejected", stop) EXCEPT !.reject_reason = PlaceRefusal(stop)])
  /\ Finish("stop", stop.id, PlaceRefusal(stop), 0)
  /\ UNCHANGED <<bookVars, recordVars, stopVars, bandVars>>

place_stop_order(stop, t) ==
  /\ Call(t)
  /\ next_back_priority < MaxPriority
  /\ PlaceRefusal(stop) = "None"
  /\ dormant' = [dormant EXCEPT ![stop.id] = DormantAt(stop, next_back_priority)]
  /\ next_back_priority' = next_back_priority + 1
  /\ stop_ids_seen' = stop_ids_seen \cup {stop.id}
  /\ RecordOwner(stop)
  /\ Emit(StopEvent("StopAccepted", stop))
  /\ Finish("stop", stop.id, "None", 0)
  /\ UNCHANGED <<bookVars, finished_orders, next_front_priority, bandVars>>

CancelStopRefusal(id, requester) ==
  IF ~owned_by(id, requester) THEN "UnknownOrder"
  ELSE IF dormant[id] = None THEN stop_gone_reason(id) ELSE "None"

cancel_stop_order_refused(id, requester, t) ==
  Refuse("stop", id, CancelStopRefusal(id, requester), 0, t)

cancel_stop_order(id, requester, t) ==
  /\ Call(t)
  /\ CancelStopRefusal(id, requester) = "None"
  /\ dormant' = [dormant EXCEPT ![id] = None]
  /\ finished_orders' = [finished_orders EXCEPT ![id] = "Cancelled"]
  /\ Emit(StopEvent("StopCancelled", dormant[id].stop))
  /\ Finish("stop", id, "None", 0)
  /\ UNCHANGED <<bookVars, owner_of, stop_ids_seen, next_back_priority,
                 next_front_priority, bandVars>>

AmendedStop(id, a) ==
  [dormant[id].stop EXCEPT !.stop_price = a.stop_price, !.limit_price = a.limit_price,
                           !.quantity = a.quantity]

StopKeepsPlace(id, a) ==
  LET old == dormant[id].stop IN
  /\ a.stop_price = old.stop_price
  /\ a.limit_price = old.limit_price
  /\ a.quantity <= old.quantity

ModifyStopRefusal(id, requester, a) ==
  IF CancelStopRefusal(id, requester) # "None" THEN CancelStopRefusal(id, requester)
  ELSE IF validate_stop_fields(AmendedStop(id, a)) # "None"
       THEN validate_stop_fields(AmendedStop(id, a))
  ELSE IF would_trigger_now(dormant[id].stop.side, a.stop_price) THEN "StopWouldTrigger"
       ELSE "None"

modify_stop_order_refused(id, requester, a, t) ==
  Refuse("stop", id, ModifyStopRefusal(id, requester, a), 0, t)

modify_stop_order(id, requester, a, t) ==
  LET back == ~StopKeepsPlace(id, a) IN
  /\ Call(t)
  /\ ModifyStopRefusal(id, requester, a) = "None"
  /\ back => next_back_priority < MaxPriority
  /\ dormant' = [dormant EXCEPT ![id] =
       DormantAt(AmendedStop(id, a), IF back THEN next_back_priority ELSE @.priority)]
  /\ next_back_priority' = IF back THEN next_back_priority + 1 ELSE next_back_priority
  /\ Emit(StopEvent("StopModified", AmendedStop(id, a)))
  /\ Finish("stop", id, "None", 0)
  /\ UNCHANGED <<bookVars, recordVars, next_front_priority, bandVars>>

-----------------------------------------------------------------------------
(* add_order_core *)

\* Where a call goes on when add_order_core returns: a fired stop's goes back
\* to the drain loop.
AfterEntry == IF draining_stops THEN "fire" ELSE "done"

\* Fault: an unaccepted quantity is reported only with a reason.
AnswerEntry_NeedsReason(reason, unaccepted, rested) ==
  result' = IF origin = "stop" THEN result
            ELSE [id |-> incoming.id, call |-> IF origin = "new" THEN "add" ELSE "modify",
                  reject_reason |-> reason, rested_price |-> rested,
                  unaccepted_quantity |-> IF reason = "None" THEN 0 ELSE unaccepted]

\* Only a new order's result and a replacement's is the call's result.
AnswerEntry(reason, unaccepted, rested) ==
  result' = IF origin = "stop" THEN result
            ELSE [id |-> incoming.id, call |-> IF origin = "new" THEN "add" ELSE "modify",
                  reject_reason |-> reason, unaccepted_quantity |-> unaccepted,
                  rested_price |-> rested]

\* A refused re-entry (of a replacement or a fired stop) would leave no event.
EnterRefused ==
  /\ pc = "enter"
  /\ EntryRefusal(incoming) # "None"
  /\ Resume(now)
  /\ events' =
       IF origin = "new"
       THEN Append(EventsAfterResume(now),
                   [OrderEvent("Rejected", incoming) EXCEPT !.reject_reason = EntryRefusal(incoming)])
       ELSE EventsAfterResume(now)
  /\ AnswerEntry(EntryRefusal(incoming), incoming.quantity, None)
  /\ pc' = AfterEntry
  /\ incoming' = None
  /\ UNCHANGED <<bookVars, recordVars, stopVars, queueVars, walkVars, reference_price,
                 now, origin>>

EnterAccepted ==
  /\ pc = "enter"
  /\ EntryRefusal(incoming) = "None"
  /\ Resume(now)
  /\ events' = Append(EventsAfterResume(now), OrderEvent("Accepted", incoming))
  /\ RecordOwner(incoming)
  /\ pc' = "match"
  /\ UNCHANGED <<bookVars, finished_orders, stop_ids_seen, stopVars, queueVars, walkVars,
                 reference_price, now, incoming, origin, result>>

-----------------------------------------------------------------------------
(* The walk *)

\* p is the level the walk is at: the best of the other side, still crossed.
AtLevel(p) ==
  /\ pc = "match"
  /\ incoming.quantity > 0
  /\ IsBest(Opposite(incoming.side), p)
  /\ incoming.type = "Limit" => AtLeastAsGood(incoming.side, incoming.price, p)

HeadOf(p) == resting[Head(levels[Opposite(incoming.side)][p])]

Offered(p) == inside_collar(incoming, p) /\ HeadOf(p).owner # incoming.owner

OutOfGrace == outside_band_since # None /\ now - outside_band_since >= GracePeriod

\* One breach level per call: another level outside the band ends the walk.
PastBreach(p) == outside_band_since # None /\ breach_level # None /\ p # breach_level

Stop(why) ==
  /\ pc' = "settle"
  /\ verdict' = why
  /\ UNCHANGED <<bookVars, recordVars, stopVars, queueVars, outside_band_since, breach_level,
                 trades, reference_price, now, incoming, origin, result>>

StopQuietly(why) == Stop(why) /\ UNCHANGED <<halted, halt_until, events>>

WalkEnds ==
  /\ pc = "match"
  /\ \A p \in DOMAIN levels[Opposite(incoming.side)] : ~AtLevel(p)
  /\ StopQuietly("None")

CollarStops(p) ==
  /\ AtLevel(p)
  /\ ~inside_collar(incoming, p)
  /\ StopQuietly("PriceCollar")

SelfTradeStops(p) ==
  /\ AtLevel(p)
  /\ inside_collar(incoming, p)
  /\ HeadOf(p).owner = incoming.owner
  /\ StopQuietly("SelfTrade")

BandHalts(p) ==
  /\ AtLevel(p)
  /\ Offered(p)
  /\ ~within_band(p)
  /\ OutOfGrace
  /\ halted' = TRUE
  /\ halt_until' = now + HaltDuration
  /\ Emit([OrderEvent("Halted", incoming) EXCEPT !.price = p])
  /\ Stop("SymbolHalted")

BandStops(p) ==
  /\ AtLevel(p)
  /\ Offered(p)
  /\ ~within_band(p)
  /\ ~OutOfGrace
  /\ PastBreach(p)
  /\ StopQuietly("PriceBand")

\* The band's clock and the breach level after a fill at p.
NoteBand(p) ==
  /\ UNCHANGED <<halted, halt_until>>
  /\ IF within_band(p)
     THEN outside_band_since' = None /\ UNCHANGED breach_level
     ELSE /\ outside_band_since' = IF outside_band_since = None THEN now ELSE outside_band_since
          /\ breach_level' = p

AddTrade(p) ==
  trades' = IF trades = None THEN [low |-> p, high |-> p, last |-> p]
            ELSE [low |-> IF p < trades.low THEN p ELSE trades.low,
                  high |-> IF p > trades.high THEN p ELSE trades.high,
                  last |-> p]

\* Fault: the quantity is not reduced.
Taken_KeepsQuantity(order, quantity) == [order EXCEPT !.filled = @ + quantity]

Taken(order, quantity) ==
  [order EXCEPT !.quantity = @ - quantity, !.filled = @ + quantity]

Fill(p) ==
  LET passive == HeadOf(p)
      quantity == IF incoming.quantity < passive.quantity
                  THEN incoming.quantity ELSE passive.quantity
  IN
  /\ AtLevel(p)
  /\ Offered(p)
  /\ ~within_band(p) => ~OutOfGrace /\ ~PastBreach(p)
  /\ NoteBand(p)
  /\ AddTrade(p)
  /\ Emit(TradeEvent(incoming, passive, quantity))
  /\ incoming' = Taken(incoming, quantity)
  /\ IF quantity = passive.quantity
     THEN /\ remove_resting(passive.id)
          /\ finished_orders' = [finished_orders EXCEPT ![passive.id] = "Filled"]
     ELSE /\ resting' = [resting EXCEPT ![passive.id] = Taken(passive, quantity)]
          /\ UNCHANGED <<levels, free_nodes, finished_orders>>
  /\ UNCHANGED <<owner_of, stop_ids_seen, stopVars, queueVars, verdict, reference_price,
                 now, pc, origin, result>>

-----------------------------------------------------------------------------
(* What becomes of the remainder *)

StoppedByBand == verdict \in {"SymbolHalted", "PriceBand"}

\* Fault: the remainder rests at its own limit.
RestPrice_KeepsLimit == incoming.price

\* A limit remainder stopped by the band is pulled back to the band's edge.
RestPrice ==
  LET edge == IF incoming.side = "Buy" THEN upper_limit(BandBps) ELSE lower_limit(BandBps) IN
  IF StoppedByBand /\ incoming.type = "Limit" /\ AtLeastAsGood(incoming.side, incoming.price, edge)
  THEN edge ELSE incoming.price

\* Fault: the remainder rests across the own order that stopped it.
MayRest_AfterSelfTrade == incoming.type = "Limit" /\ free_nodes > 0

MayRest == incoming.type = "Limit" /\ verdict # "SelfTrade" /\ free_nodes > 0

ExpiryReason ==
  IF verdict # "None" THEN verdict
  ELSE IF incoming.type = "Limit" THEN "PoolExhausted" ELSE "None"

\* The last trade is the new reference, and the trades' range wakes stops
\* unless the book is halted.
Settle ==
  /\ pc = "settle"
  /\ reference_price' = IF trades = None THEN reference_price ELSE trades.last
  /\ pc' = IF trades # None /\ ~halted THEN "wake" ELSE AfterEntry
  /\ trades' = IF halted THEN None ELSE trades
  /\ incoming' = None
  /\ verdict' = "None"
  /\ breach_level' = None
  /\ UNCHANGED <<owner_of, stop_ids_seen, stopVars, queueVars, bandVars, now, origin>>

SettleFilled ==
  /\ Settle
  /\ incoming.quantity = 0
  /\ finished_orders' = [finished_orders EXCEPT ![incoming.id] = "Filled"]
  /\ AnswerEntry("None", 0, None)
  /\ UNCHANGED <<bookVars, events>>

SettleRests ==
  LET order == [incoming EXCEPT !.price = RestPrice] IN
  /\ Settle
  /\ incoming.quantity > 0
  /\ MayRest
  /\ Rest(order)
  /\ Emit(OrderEvent("Rested", order))
  /\ AnswerEntry("None", 0, IF StoppedByBand THEN order.price ELSE None)
  /\ UNCHANGED finished_orders

SettleExpires ==
  /\ Settle
  /\ incoming.quantity > 0
  /\ ~MayRest
  /\ Emit(OrderEvent("Expired", [incoming EXCEPT !.price = RestPrice]))
  /\ finished_orders' = [finished_orders EXCEPT ![incoming.id] = "Cancelled"]
  /\ AnswerEntry(ExpiryReason, incoming.quantity, None)
  /\ UNCHANGED bookVars

-----------------------------------------------------------------------------
(* check_and_trigger_stops *)

Reached(stop, low, high) ==
  IF stop.side = "Sell" THEN stop.stop_price >= low ELSE stop.stop_price <= high

\* Fault: only the last price of the sweep wakes stops.
Woken_ByLastPrice ==
  {id \in Ids : dormant[id] # None /\ Reached(dormant[id].stop, trades.last, trades.last)}

Woken == {id \in Ids : dormant[id] # None /\ Reached(dormant[id].stop, trades.low, trades.high)}

\* Fault: woken stops are not sorted.
IsNextWoken_Unsorted(id) == id \in Woken

\* Stops woken together join the queue in priority order, across both sides.
IsNextWoken(id) ==
  id \in Woken /\ \A other \in Woken : dormant[id].priority <= dormant[other].priority

WakeNext(id) ==
  /\ pc = "wake"
  /\ IsNextWoken(id)
  /\ triggered_stops' = Append(triggered_stops, dormant[id].stop)
  /\ dormant' = [dormant EXCEPT ![id] = None]
  /\ UNCHANGED <<bookVars, recordVars, next_back_priority, next_front_priority, draining_stops,
                 bandVars, walkVars, reference_price, now, pc, incoming, origin, result, events>>

\* A nested call returns to the outer loop, the outermost one starts it.
WakeEnds ==
  /\ pc = "wake"
  /\ Woken = {}
  /\ draining_stops' = TRUE
  /\ trades' = None
  /\ pc' = "fire"
  /\ UNCHANGED <<bookVars, recordVars, stopVars, triggered_stops, bandVars, verdict,
                 breach_level, reference_price, now, incoming, origin, result, events>>

FireNext ==
  LET stop == Head(triggered_stops) IN
  /\ pc = "fire"
  /\ triggered_stops # <<>>
  /\ ~halted
  /\ triggered_stops' = Tail(triggered_stops)
  /\ Emit(StopEvent("StopTriggered", stop))
  /\ Enter([id |-> stop.id, owner |-> stop.owner, side |-> stop.side,
            type |-> IF stop.limit_price = None THEN "Market" ELSE "Limit",
            price |-> stop.limit_price, quantity |-> stop.quantity, filled |-> 0], "stop")
  /\ UNCHANGED <<bookVars, recordVars, stopVars, draining_stops, bandVars, walkVars,
                 reference_price, now, result>>

\* Fault: every stop sent back gets the same priority.
InsertAtFront_SameKey(stop) ==
  /\ dormant' = [dormant EXCEPT ![stop.id] = DormantAt(stop, next_front_priority)]
  /\ UNCHANGED next_front_priority

InsertAtFront(stop) ==
  /\ dormant' = [dormant EXCEPT ![stop.id] = DormantAt(stop, next_front_priority)]
  /\ next_front_priority' = next_front_priority - 1

\* Fault: the loop goes round without taking anything off the queue.
SendBack_Spins == pc = "fire" /\ triggered_stops # <<>> /\ halted /\ UNCHANGED vars

\* The halted book puts its unfired stops back, last first, in front of all others.
SendBack ==
  LET stop == Last(triggered_stops) IN
  /\ pc = "fire"
  /\ triggered_stops # <<>>
  /\ halted
  /\ triggered_stops' = Front(triggered_stops)
  /\ InsertAtFront(stop)
  /\ UNCHANGED <<bookVars, recordVars, next_back_priority, draining_stops, bandVars, walkVars,
                 reference_price, now, pc, incoming, origin, result, events>>

FireEnds ==
  /\ pc = "fire"
  /\ triggered_stops = <<>>
  /\ draining_stops' = FALSE
  /\ pc' = "done"
  /\ UNCHANGED <<bookVars, recordVars, stopVars, triggered_stops, bandVars, walkVars,
                 reference_price, now, incoming, origin, result, events>>

\* The worker takes the result and drains the events: drain_events.
Return ==
  /\ pc = "done"
  /\ pc' = "idle"
  /\ origin' = "new"
  /\ result' = None
  /\ events' = <<>>
  /\ UNCHANGED <<bookVars, recordVars, stopVars, queueVars, bandVars, walkVars,
                 reference_price, now, incoming>>

-----------------------------------------------------------------------------
OrderCall(t) ==
  \/ \E order \in NewOrders : add_order(order, t)
  \/ \E target \in Targets :
       \/ cancel_order_refused(target.id, target.requester, t)
       \/ cancel_order(target.id, target.requester, t)
       \/ \E a \in Amendments :
            \/ modify_order_refused(target.id, target.requester, a, t)
            \/ modify_order_cancels(target.id, target.requester, a, t)
            \/ modify_order_in_place(target.id, target.requester, a, t)
            \/ modify_order_replaces(target.id, target.requester, a, t)

StopCall(t) ==
  \/ \E stop \in NewStops :
       \/ place_stop_order_refused(stop, t)
       \/ place_stop_order(stop, t)
  \/ \E target \in Targets :
       \/ cancel_stop_order_refused(target.id, target.requester, t)
       \/ cancel_stop_order(target.id, target.requester, t)
       \/ \E a \in StopAmendments :
            \/ modify_stop_order_refused(target.id, target.requester, a, t)
            \/ modify_stop_order(target.id, target.requester, a, t)

Walk ==
  \/ WalkEnds
  \/ \E p \in UNION {DOMAIN levels[side] : side \in Sides} :
       \/ CollarStops(p)
       \/ SelfTradeStops(p)
       \/ BandHalts(p)
       \/ BandStops(p)
       \/ Fill(p)

\* The steps of a call that has begun.
Step ==
  \/ EnterRefused
  \/ EnterAccepted
  \/ Walk
  \/ SettleFilled
  \/ SettleRests
  \/ SettleExpires
  \/ \E id \in Ids : WakeNext(id)
  \/ WakeEnds
  \/ FireNext
  \/ SendBack
  \/ FireEnds
  \/ Return

Next ==
  \/ \E t \in Times : OrderCall(t) \/ StopCall(t)
  \/ Step

Spec == Init /\ [][Next]_vars

\* The worker's thread goes on with the call it runs.
FairSpec == Spec /\ WF_vars(Step)

=============================================================================
