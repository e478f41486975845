---------------------------- MODULE BookProperties ----------------------------
(***************************************************************************)
(* What the order book promises: its type, the agreement of its parts, the *)
(* life cycle of an order or stop, and the order in which stops fire.      *)
(***************************************************************************)
EXTENDS Book

-----------------------------------------------------------------------------
(* Type correctness *)

LevelsTypeOK ==
  /\ DOMAIN levels = Sides
  /\ \A side \in Sides :
       /\ DOMAIN levels[side] \subseteq Int
       /\ \A p \in DOMAIN levels[side] : levels[side][p] \in Seq(Ids)

BookTypeOK ==
  /\ resting \in [Ids -> Order \cup {None}]
  /\ LevelsTypeOK
  /\ free_nodes \in Nat

RecordsTypeOK ==
  /\ finished_orders \in [Ids -> {"None", "Filled", "Cancelled"}]
  /\ owner_of \in [Ids -> Owners \cup {None}]
  /\ stop_ids_seen \subseteq Ids

StopsTypeOK ==
  /\ dormant \in [Ids -> DormantStop \cup {None}]
  /\ next_back_priority \in Nat
  /\ next_front_priority \in Int
  /\ triggered_stops \in Seq(StopOrder)

BandTypeOK ==
  /\ reference_price \in Prices
  /\ outside_band_since \in Nat \cup {None}
  /\ halt_until \in Nat
  /\ now \in Nat

FlagsTypeOK == halted \in BOOLEAN /\ draining_stops \in BOOLEAN

CallTypeOK ==
  /\ pc \in {"idle", "enter", "match", "settle", "wake", "fire", "done"}
  /\ incoming \in Order \cup {None}
  /\ pc \in {"enter", "match", "settle"} <=> incoming # None
  /\ origin \in {"new", "modify", "stop"}
  /\ verdict \in RejectReason
  /\ breach_level \in Prices
  /\ trades \in TradeRange \cup {None}
  /\ pc = "wake" => trades # None
  /\ result \in OrderResult \cup {None}
  /\ events \in Seq(EngineEvent)

\* Every variable holds a value of the type the code declares for it, and an
\* order is being worked on exactly in the steps of add_order_core.
TypeOK ==
  /\ BookTypeOK
  /\ RecordsTypeOK
  /\ StopsTypeOK
  /\ BandTypeOK
  /\ FlagsTypeOK
  /\ CallTypeOK

-----------------------------------------------------------------------------
(* The parts of the book agree *)

IsResting(id) == resting[id] # None
IsDormant(id) == dormant[id] # None
IsTriggered(id) == \E i \in DOMAIN triggered_stops : triggered_stops[i].id = id
IsFinished(id) == finished_orders[id] # "None"

\* The order add_order_core works on, once its id is taken.
IsInFlight(id) ==
  /\ incoming # None
  /\ incoming.id = id
  /\ ~(pc = "enter" /\ origin = "new")

LevelEntries ==
  \A side \in Sides : \A p \in DOMAIN levels[side] :
    /\ levels[side][p] # <<>>
    /\ \A i \in DOMAIN levels[side][p] :
         LET order == resting[levels[side][p][i]] IN
         /\ order # None
         /\ order.id = levels[side][p][i]
         /\ order.side = side
         /\ order.price = p
    /\ \A i, j \in DOMAIN levels[side][p] : levels[side][p][i] = levels[side][p][j] => i = j

RestingEntries ==
  \A id \in Ids : IsResting(id) =>
    LET order == resting[id] IN
    /\ order.quantity > 0
    /\ order.price \in DOMAIN levels[order.side]
    /\ \E i \in DOMAIN levels[order.side][order.price] : levels[order.side][order.price][i] = id

\* check_invariants (book_levels.cpp): no empty level, every order of a level
\* is indexed with the level's side and price, and every indexed order has
\* something left and is in its level exactly once.
LevelsAgree == LevelEntries /\ RestingEntries

\* A replacement has a node to rest in: modify_order gave the old one back, so
\* a modify never loses the order to a full pool (book.cpp:101, 242-248).
ReplacementHasNode == incoming # None /\ origin = "modify" => free_nodes > 0

OnePlace(id) ==
  /\ owner_of[id] # None <=>
       IsResting(id) \/ IsDormant(id) \/ IsTriggered(id) \/ IsInFlight(id) \/ IsFinished(id)
  /\ IsResting(id) => ~(IsDormant(id) \/ IsTriggered(id) \/ IsInFlight(id) \/ IsFinished(id))
  /\ IsDormant(id) => ~(IsTriggered(id) \/ IsInFlight(id) \/ IsFinished(id))
  /\ IsTriggered(id) => ~(IsInFlight(id) \/ IsFinished(id))
  /\ IsInFlight(id) => ~IsFinished(id)

TriggeredOnce ==
  \A i, j \in DOMAIN triggered_stops : triggered_stops[i].id = triggered_stops[j].id => i = j

\* An accepted id is in exactly one place: resting, dormant, woken and not yet
\* fired, in flight, or finished; an id never accepted is in none.  No order
\* or stop is lost or doubled by any path of a call.
LifeCycle == TriggeredOnce /\ \A id \in Ids : OnePlace(id)

OwnerAgrees(id) ==
  /\ IsResting(id) => resting[id].owner = owner_of[id]
  /\ IsDormant(id) => dormant[id].stop.owner = owner_of[id]
  /\ IsInFlight(id) => incoming.owner = owner_of[id]
  /\ \A i \in DOMAIN triggered_stops :
       triggered_stops[i].id = id => triggered_stops[i].owner = owner_of[id]

\* The owner recorded for an id is the owner of the order or stop that lives
\* under it, so no one else's cancel or modify reaches it (owned_by).
OwnersAgree == \A id \in Ids : OwnerAgrees(id)

\* A replacement or a fired stop passes the validation of add_order_core: it
\* has no event to report a refusal with, and would vanish (book.cpp:116-120).
ReentryNeverRefused ==
  pc = "enter" /\ origin # "new" => EntryRefusal(incoming) = "None"

\* A final state is final: a finished id stays as it finished.
FinalStateIsFinal ==
  [][\A id \in Ids : IsFinished(id) => finished_orders'[id] = finished_orders[id]]_vars

-----------------------------------------------------------------------------
(* Time priority and prices *)

Ahead(a, b) ==
  \E side \in Sides : \E p \in DOMAIN levels[side] :
    \E i, j \in DOMAIN levels[side][p] :
      i < j /\ levels[side][p][i] = a /\ levels[side][p][j] = b

\* Orders of a level keep their order for as long as both rest there, and an
\* order that grows or moves does not keep its place (modify_order).
PlaceIsKept ==
  [][\A a, b \in Ids : Ahead(a, b) /\ IsResting(a)' /\ IsResting(b)' =>
       /\ Ahead(a, b)'
       /\ resting'[a].quantity <= resting[a].quantity]_vars

\* No bid at or above an ask: the last check of check_invariants.
NeverCrossed ==
  \A bid \in DOMAIN levels["Buy"], ask \in DOMAIN levels["Sell"] : bid < ask

\* A halted book trades nothing until a call that finds the halt over.
NoTradeWhileHalted ==
  [][halted => \A i \in DOMAIN events' \ DOMAIN events :
       events'[i].kind \notin {"Trade", "StopTriggered"}]_vars

-----------------------------------------------------------------------------
(* Stops *)

\* A call that ends unhalted leaves no stop behind that one of its trades
\* reached: every trade of a sweep and of the cascade after it wakes.
NoStopMissed ==
  pc = "done" /\ ~halted =>
    \A i \in DOMAIN events : events[i].kind = "Trade" =>
      \A id \in Ids : IsDormant(id) =>
        ~Reached(dormant[id].stop, events[i].price, events[i].price)

\* No two dormant stops have one priority, which with the price is the key of
\* their map: insert_dormant_stop's emplace never drops a stop.
StopKeysUnique ==
  \A a, b \in Ids : IsDormant(a) /\ IsDormant(b) /\ a # b =>
    dormant[a].priority # dormant[b].priority

FiresBefore(a, b) ==
  \/ /\ IsDormant(a) /\ IsDormant(b)
     /\ dormant[a].priority < dormant[b].priority
  \/ IsTriggered(a) /\ IsDormant(b)
  \/ \E i, j \in DOMAIN triggered_stops :
       i < j /\ triggered_stops[i].id = a /\ triggered_stops[j].id = b

IsWaiting(id) == IsDormant(id) \/ IsTriggered(id)

\* The order in which stops fire is kept by everything but a modify that is
\* more than a size reduction: through waking, and through a halt that sends
\* woken stops back (a stop only overtakes one its sweep did not reach).
FiringOrderKept ==
  [][\A a, b \in Ids : FiresBefore(a, b) /\ IsWaiting(a)' /\ IsWaiting(b)' =>
       \/ FiresBefore(a, b)'
       \/ pc = "idle" /\ dormant'[a].priority > dormant[a].priority
            /\ ~StopKeepsPlace(a, dormant'[a].stop)
       \/ pc = "wake" /\ a \notin Woken]_vars

-----------------------------------------------------------------------------
(* The inductive invariant *)

ValidPrice(price) == price # None /\ price \in Nat \ {0}

RestingValid ==
  \A id \in Ids : IsResting(id) => resting[id].type = "Limit" /\ ValidPrice(resting[id].price)

StopsValid ==
  /\ \A id \in Ids : IsDormant(id) =>
       dormant[id].stop.id = id /\ validate_stop_fields(dormant[id].stop) = "None"
  /\ \A i \in DOMAIN triggered_stops : validate_stop_fields(triggered_stops[i]) = "None"

\* An accepted order, or a re-entry, passed the validation of its fields.
IncomingValid ==
  pc \in {"match", "settle"} \/ (pc = "enter" /\ origin # "new") =>
    /\ incoming.quantity >= 0
    /\ incoming.type = "Limit" => ValidPrice(incoming.price)
    /\ incoming.type = "Market" => incoming.price = None

\* A re-entry has something to enter, and finds no halt.
ReentryReady == pc = "enter" /\ origin # "new" => incoming.quantity > 0 /\ ~halted

\* The queue of woken stops holds something only while it is filled or drained.
QueueInCall ==
  /\ ~draining_stops /\ pc # "wake" => triggered_stops = <<>>
  /\ pc \in {"idle", "done"} => ~draining_stops
  /\ pc = "fire" => draining_stops
  /\ pc \in {"enter", "match", "settle"} => (draining_stops <=> origin = "stop")

\* The keys in use lie between the two counters.
KeysBetweenCounters ==
  /\ next_front_priority < next_back_priority
  /\ \A id \in Ids : IsDormant(id) =>
       next_front_priority < dormant[id].priority /\ dormant[id].priority < next_back_priority

\* The reference is the price of a trade, and so valid like the resting
\* order's; and only a band with a reference stops a walk.
ReferenceValid ==
  /\ reference_price # None => ValidPrice(reference_price)
  /\ trades # None => ValidPrice(trades.last)
  /\ StoppedByBand => reference_price # None

\* Of the resting orders.
RestingInv == BookTypeOK /\ LevelsAgree /\ RestingValid

\* Of the stops.
StopsInv ==
  /\ StopsTypeOK
  /\ StopsValid
  /\ KeysBetweenCounters
  /\ StopKeysUnique

\* Of where each id is.
PlacesInv == RecordsTypeOK /\ LifeCycle /\ OwnersAgree

\* Of the call in progress.
CallInv ==
  /\ BandTypeOK
  /\ FlagsTypeOK
  /\ CallTypeOK
  /\ IncomingValid
  /\ ReentryReady
  /\ QueueInCall
  /\ ReferenceValid
  /\ ReplacementHasNode

\* What every step of a call preserves: the book's parts agree, nothing is
\* lost or doubled, and what re-enters is fit to.
BookInv == RestingInv /\ StopsInv /\ PlacesInv /\ CallInv

-----------------------------------------------------------------------------
(* Quantities and answers *)

Counted(e, kinds, id) == IF e.kind \in kinds /\ e.id = id THEN e.quantity ELSE 0

Total(log, kinds, id) ==
  LET sum[n \in 0 .. Len(log)] ==
        IF n = 0 THEN 0 ELSE sum[n - 1] + Counted(log[n], kinds, id)
  IN sum[Len(log)]

\* What the call's events of these kinds add up to under an id.
Quantities(kinds, id) == Total(events, kinds, id)

\* What a call accepts under an id it trades, rests or expires, to the last
\* unit.  (A Trade event's id is the aggressor's.)
QuantityConserved ==
  pc = "done" => \A id \in Ids :
    Quantities({"Accepted"}, id) = Quantities({"Trade", "Rested", "Expired"}, id)

\* The answer of an order entry tells its fate: the quantity it reports as
\* not accepted is the quantity of the Rejected or Expired event of the order.
AnswerTellsFate ==
  pc = "done" /\ result.call = "add" =>
    result.unaccepted_quantity = Quantities({"Rejected", "Expired"}, result.id)

\* What the order in flight has left of what was accepted.
Unsettled(id) == IF pc \in {"match", "settle"} /\ incoming.id = id THEN incoming.quantity ELSE 0

QuantitiesBalance ==
  \A id \in Ids :
    Quantities({"Accepted"}, id) = Quantities({"Trade", "Rested", "Expired"}, id) + Unsettled(id)

CallStartsEmpty == pc = "idle" => result = None /\ events = <<>>

\* The order of the call itself, or its replacement, is on its way.
FirstEntry == pc \in {"enter", "match", "settle"} /\ origin # "stop"

NothingToldYet ==
  FirstEntry => result = None /\ \A id \in Ids : Quantities({"Rejected", "Expired"}, id) = 0

AnswerIsGiven == pc # "idle" /\ ~FirstEntry => result # None

FateIsTold ==
  result # None /\ result.call = "add" =>
    result.unaccepted_quantity = Quantities({"Rejected", "Expired"}, result.id)

\* The cascade behind an entered order fires other ids than its own.
AnsweredIsSettled ==
  result # None /\ result.call = "add" /\ pc # "done" =>
    IsResting(result.id) \/ IsFinished(result.id)

\* In every state of a call: what the events say of an accepted quantity and
\* what the order in flight has left make up the whole, and an answer once
\* given stays true while the stops behind it fire.
AccountsInv ==
  /\ QuantitiesBalance
  /\ CallStartsEmpty
  /\ NothingToldYet
  /\ AnswerIsGiven
  /\ FateIsTold
  /\ AnsweredIsSettled

-----------------------------------------------------------------------------
(* Where the book may be crossed *)

\* The price is better for the order in flight than any price of the band.
BeforeBand(p) ==
  /\ reference_price # None
  /\ IF incoming.side = "Buy" THEN p < lower_limit(BandBps) ELSE p > upper_limit(BandBps)

\* The band stopped a limit order, and a level left on the other side is not
\* past the band's edge, as book.cpp:188-190 takes it to be, but before the band.
StoppedBeforeBand ==
  /\ pc = "settle" /\ StoppedByBand /\ incoming.type = "Limit"
  /\ \E p \in DOMAIN levels[Opposite(incoming.side)] : BeforeBand(p)

\* Nothing crosses the book but an order that rests after it was stopped there.
CrossedOnlyThere == [][NeverCrossed => NeverCrossed' \/ StoppedBeforeBand]_vars

\* How the walk of a limit order that has something left ended: nothing left
\* is crossed, or its own order or a level outside the band is in the way.
WalkIsOver ==
  pc = "settle" /\ incoming.type = "Limit" /\ incoming.quantity > 0 =>
    /\ verdict \in {"None", "SelfTrade", "SymbolHalted", "PriceBand"}
    /\ verdict = "None" =>
         \A p \in DOMAIN levels[Opposite(incoming.side)] :
           ~AtLeastAsGood(incoming.side, incoming.price, p)
    /\ StoppedByBand =>
         \E p \in DOMAIN levels[Opposite(incoming.side)] :
           IsBest(Opposite(incoming.side), p) /\ ~within_band(p)

-----------------------------------------------------------------------------
(* Termination *)

\* Every call returns: no cascade of stops goes on for ever.
CallReturns == pc # "idle" ~> pc = "idle"

-----------------------------------------------------------------------------
(* Said of the band *)

OutsideBand(p) == ~within_band(p)

TradeLevelsOutside ==
  {events[i].price : i \in {j \in DOMAIN events :
     events[j].kind = "Trade" /\ events[j].id = incoming.id /\ OutsideBand(events[j].price)}}

\* "One order may trade at only one out-of-band price level" (README.md:182).
OneBreachLevel == pc = "match" => Cardinality(TradeLevelsOutside) <= 1

=============================================================================
