--------------------------- MODULE BookActionProofs ---------------------------
(***************************************************************************)
(* What no step of the order book does, for every value of its constants:  *)
(* change a final state, trade while the book is halted, let an order pass *)
(* another of its level, or a stop another that fires before it; that no   *)
(* call leaves a stop behind that one of its trades reached; that what a   *)
(* call accepts is accounted for by its events and by its answer; that the *)
(* book does to its resting orders what RestingOrders allows; and where    *)
(* alone it may be crossed.                                                *)
(***************************************************************************)
EXTENDS BookProofs, WellFoundedInduction

-----------------------------------------------------------------------------
(* Final states *)

\* Nothing finishes, or one id does that was live.
Finishes ==
  \/ UNCHANGED finished_orders
  \/ \E id \in Ids : \E state \in {"Filled", "Cancelled"} :
       /\ ~IsFinished(id)
       /\ finished_orders' = [finished_orders EXCEPT ![id] = state]

\* A resting order, a dormant stop and the order in flight are not finished.
LEMMA LiveIsNotFinished ==
  ASSUME BookInv, NEW id \in Ids, IsResting(id) \/ IsDormant(id) \/ IsInFlight(id)
  PROVE  ~IsFinished(id)
BY DEF BookInv, PlacesInv, LifeCycle, OnePlace

LEMMA CancelRestFinishes ==
  ASSUME BookInv, NEW id \in Ids, resting[id] # None, CancelRest(id)
  PROVE  Finishes
BY LiveIsNotFinished DEF CancelRest, IsResting, Finishes

LEMMA OrderCallFinishes ==
  ASSUME BookInv, NEW t \in Times, OrderCall(t)
  PROVE  Finishes
<1>1. CASE \E order \in NewOrders : add_order(order, t)
  BY <1>1 DEF add_order, recordVars, Finishes
<1>2. ASSUME NEW target \in Targets, cancel_order_refused(target.id, target.requester, t)
      PROVE  Finishes
  BY <1>2 DEF cancel_order_refused, Refuse, recordVars, Finishes
<1>3. ASSUME NEW target \in Targets, cancel_order(target.id, target.requester, t)
      PROVE  Finishes
  <2>1. target.id \in Ids
    BY ArgumentsTyped
  <2>2. resting[target.id] # None /\ CancelRest(target.id)
    BY <1>3 DEF cancel_order, CancelRefusal, GoneReason
  <2> QED  BY <2>1, <2>2, CancelRestFinishes
<1>4. ASSUME NEW target \in Targets, NEW a \in Amendments,
             modify_order_refused(target.id, target.requester, a, t)
      PROVE  Finishes
  BY <1>4 DEF modify_order_refused, Refuse, recordVars, Finishes
<1>5. ASSUME NEW target \in Targets, NEW a \in Amendments,
             modify_order_cancels(target.id, target.requester, a, t)
      PROVE  Finishes
  <2>1. target.id \in Ids
    BY ArgumentsTyped
  <2>2. CancelRefusal(target.id, target.requester) = "None" /\ CancelRest(target.id)
    BY <1>5 DEF modify_order_cancels, ModifyRefusal
  <2>3. resting[target.id] # None
    BY <2>2 DEF CancelRefusal, GoneReason
  <2> QED  BY <2>1, <2>2, <2>3, CancelRestFinishes
<1>6. ASSUME NEW target \in Targets, NEW a \in Amendments,
             modify_order_in_place(target.id, target.requester, a, t)
      PROVE  Finishes
  BY <1>6 DEF modify_order_in_place, recordVars, Finishes
<1>7. ASSUME NEW target \in Targets, NEW a \in Amendments,
             modify_order_replaces(target.id, target.requester, a, t)
      PROVE  Finishes
  BY <1>7 DEF modify_order_replaces, recordVars, Finishes
<1> QED  BY <1>1, <1>2, <1>3, <1>4, <1>5, <1>6, <1>7 DEF OrderCall

LEMMA StopCallFinishes ==
  ASSUME BookInv, NEW t \in Times, StopCall(t)
  PROVE  Finishes
<1>1. ASSUME NEW stop \in NewStops,
             place_stop_order_refused(stop, t) \/ place_stop_order(stop, t)
      PROVE  Finishes
  BY <1>1 DEF place_stop_order_refused, place_stop_order, recordVars, Finishes
<1>2. ASSUME NEW target \in Targets, cancel_stop_order_refused(target.id, target.requester, t)
      PROVE  Finishes
  BY <1>2 DEF cancel_stop_order_refused, Refuse, recordVars, Finishes
<1>3. ASSUME NEW target \in Targets, cancel_stop_order(target.id, target.requester, t)
      PROVE  Finishes
  <2>1. target.id \in Ids
    BY ArgumentsTyped
  <2>2. dormant[target.id] # None
    BY <1>3 DEF cancel_stop_order, CancelStopRefusal, stop_gone_reason
  <2>3. ~IsFinished(target.id)
    BY <2>1, <2>2, LiveIsNotFinished DEF IsDormant
  <2> QED  BY <1>3, <2>1, <2>3 DEF cancel_stop_order, Finishes
<1>4. ASSUME NEW target \in Targets, NEW a \in StopAmendments,
             \/ modify_stop_order_refused(target.id, target.requester, a, t)
             \/ modify_stop_order(target.id, target.requester, a, t)
      PROVE  Finishes
  BY <1>4 DEF modify_stop_order_refused, modify_stop_order, Refuse, recordVars, Finishes
<1> QED  BY <1>1, <1>2, <1>3, <1>4 DEF StopCall

\* A fill finishes the passive order when it takes all of it.
LEMMA FillFinishes ==
  ASSUME BookInv, NEW p, Fill(p)
  PROVE  Finishes
<1>1. AtLevel(p)
  BY DEF Fill
<1> DEFINE id == HeadOf(p).id
<1>2. id \in Ids /\ resting[id] # None
  BY <1>1, LevelHasHead
<1>3. ~IsFinished(id)
  BY <1>2, LiveIsNotFinished DEF IsResting
<1>4. \/ UNCHANGED finished_orders
      \/ finished_orders' = [finished_orders EXCEPT ![id] = "Filled"]
  BY DEF Fill
<1> QED  BY <1>2, <1>3, <1>4 DEF Finishes

\* add_order_core finishes its order when nothing of it remains to rest.
LEMMA SettleFinishes ==
  ASSUME BookInv, SettleFilled \/ SettleRests \/ SettleExpires
  PROVE  Finishes
<1>1. pc = "settle"
  BY DEF SettleFilled, SettleRests, SettleExpires, Settle
<1>2. incoming # None /\ incoming.id \in Ids
  BY <1>1, EntryFacts DEF BookInv
<1>3. ~IsFinished(incoming.id)
  BY <1>1, <1>2, LiveIsNotFinished DEF IsInFlight
<1> QED  BY <1>2, <1>3 DEF SettleFilled, SettleRests, SettleExpires, Finishes

LEMMA StepFinishes ==
  ASSUME BookInv, Step
  PROVE  Finishes
<1>1. CASE EnterRefused \/ EnterAccepted
  BY <1>1 DEF EnterRefused, EnterAccepted, recordVars, Finishes
<1>2. CASE WalkEnds
  BY <1>2 DEF WalkEnds, StopQuietly, Stop, recordVars, Finishes
<1>3. ASSUME NEW p, CollarStops(p) \/ SelfTradeStops(p) \/ BandHalts(p) \/ BandStops(p)
      PROVE  Finishes
  BY <1>3 DEF CollarStops, SelfTradeStops, BandHalts, BandStops, StopQuietly, Stop, recordVars,
              Finishes
<1>4. ASSUME NEW id \in Ids, WakeNext(id) PROVE Finishes
  BY <1>4 DEF WakeNext, recordVars, Finishes
<1>5. CASE WakeEnds \/ FireNext \/ SendBack \/ FireEnds \/ Return
  BY <1>5 DEF WakeEnds, FireNext, SendBack, FireEnds, Return, recordVars, Finishes
<1> QED  BY <1>1, <1>2, <1>3, <1>4, <1>5, FillFinishes, SettleFinishes DEF Step, Walk

\* Every step keeps the final states there are.
LEMMA FinalStateKept ==
  ASSUME BookInv, [Next]_vars
  PROVE  \A id \in Ids : IsFinished(id) => finished_orders'[id] = finished_orders[id]
<1>1. Finishes
  <2>1. CASE UNCHANGED vars
    BY <2>1 DEF vars, recordVars, Finishes
  <2> QED  BY <2>1, OrderCallFinishes, StopCallFinishes, StepFinishes DEF Next
<1>2. finished_orders \in [Ids -> {"None", "Filled", "Cancelled"}]
  BY DEF BookInv, PlacesInv, RecordsTypeOK
<1> QED  BY <1>1, <1>2 DEF Finishes

\* No path of a call finishes an id twice, or brings a finished one back: not a
\* fill, a cancel, an expiry, nor an id that comes again (finished_orders_).
THEOREM FinalStatesStay == Spec => FinalStateIsFinal
<1>1. BookInv /\ [Next]_vars =>
        [\A id \in Ids : IsFinished(id) => finished_orders'[id] = finished_orders[id]]_vars
  BY FinalStateKept
<1> QED  BY <1>1, BookInvariant, PTL DEF Spec, FinalStateIsFinal

-----------------------------------------------------------------------------
(* Halts *)

\* The walk of a call finds the halt over, and ends where a new one begins.
WalkUnhalted == pc = "match" => ~halted

HaltInv == BookInv /\ WalkUnhalted

\* add_order_core refuses every order while the halt lasts.
LEMMA EnterAcceptedUnhalts ==
  ASSUME BookInv, EnterAccepted
  PROVE  ~halted'
<1>1. now \in Nat /\ halt_until \in Nat /\ halted \in BOOLEAN
  BY DEF BookInv, CallInv, BandTypeOK, FlagsTypeOK
<1>2. ~StillHalted(now)
  BY DEF EnterAccepted, EntryRefusal
<1>3. halted' = (halted /\ ~HaltIsOver(now))
  BY DEF EnterAccepted, Resume
<1>4. halted => HaltIsOver(now)
  BY <1>1, <1>2 DEF StillHalted, HaltIsOver
<1> QED  BY <1>3, <1>4, Zenon

LEMMA CallsKeepWalkUnhalted ==
  ASSUME NEW t, OrderCall(t) \/ StopCall(t)
  PROVE  pc' \in {"enter", "done"}
<1>1. ASSUME NEW order, add_order(order, t) PROVE pc' = "enter"
  BY <1>1 DEF add_order, Enter
<1>2. ASSUME NEW id, NEW requester,
             cancel_order_refused(id, requester, t) \/ cancel_order(id, requester, t)
      PROVE  pc' = "done"
  BY <1>2 DEF cancel_order_refused, cancel_order, Refuse, Finish
<1>3. ASSUME NEW id, NEW requester, NEW a,
             \/ modify_order_refused(id, requester, a, t)
             \/ modify_order_cancels(id, requester, a, t)
             \/ modify_order_in_place(id, requester, a, t)
             \/ modify_order_replaces(id, requester, a, t)
      PROVE  pc' \in {"enter", "done"}
  BY <1>3 DEF modify_order_refused, modify_order_cancels, modify_order_in_place,
              modify_order_replaces, Refuse, Finish, Enter
<1>4. ASSUME NEW stop, place_stop_order_refused(stop, t) \/ place_stop_order(stop, t)
      PROVE  pc' = "done"
  BY <1>4 DEF place_stop_order_refused, place_stop_order, Finish
<1>5. ASSUME NEW id, NEW requester,
             cancel_stop_order_refused(id, requester, t) \/ cancel_stop_order(id, requester, t)
      PROVE  pc' = "done"
  BY <1>5 DEF cancel_stop_order_refused, cancel_stop_order, Refuse, Finish
<1>6. ASSUME NEW id, NEW requester, NEW a,
             \/ modify_stop_order_refused(id, requester, a, t)
             \/ modify_stop_order(id, requester, a, t)
      PROVE  pc' = "done"
  BY <1>6 DEF modify_stop_order_refused, modify_stop_order, Refuse, Finish
<1> QED  BY <1>1, <1>2, <1>3, <1>4, <1>5, <1>6 DEF OrderCall, StopCall

LEMMA WalkStaysUnhalted ==
  ASSUME HaltInv, [Next]_vars
  PROVE  WalkUnhalted'
<1>1. CASE UNCHANGED vars
  BY <1>1 DEF vars, bandVars, HaltInv, WalkUnhalted
<1>2. CASE EnterAccepted
  BY <1>2, EnterAcceptedUnhalts DEF HaltInv, WalkUnhalted
<1>3. ASSUME NEW p, Fill(p) PROVE WalkUnhalted'
  BY <1>3 DEF Fill, NoteBand, AtLevel, HaltInv, WalkUnhalted
<1>4. ASSUME NEW p, CollarStops(p) \/ SelfTradeStops(p) \/ BandHalts(p) \/ BandStops(p)
      PROVE  pc' # "match"
  BY <1>4 DEF CollarStops, SelfTradeStops, BandHalts, BandStops, StopQuietly, Stop
<1>5. CASE WalkEnds
  BY <1>5 DEF WalkEnds, StopQuietly, Stop, WalkUnhalted
<1>6. CASE EnterRefused
  BY <1>6 DEF EnterRefused, AfterEntry, WalkUnhalted
<1>7. CASE SettleFilled \/ SettleRests \/ SettleExpires
  BY <1>7 DEF SettleFilled, SettleRests, SettleExpires, Settle, AfterEntry, WalkUnhalted
<1>8. ASSUME NEW id, WakeNext(id) PROVE pc' # "match"
  BY <1>8 DEF WakeNext
<1>9. CASE WakeEnds \/ FireNext \/ SendBack \/ FireEnds \/ Return
  BY <1>9 DEF WakeEnds, FireNext, Enter, SendBack, FireEnds, Return, WalkUnhalted
<1>10. CASE Step
  BY <1>2, <1>3, <1>4, <1>5, <1>6, <1>7, <1>8, <1>9, <1>10 DEF Step, Walk, WalkUnhalted
<1> QED  BY <1>1, <1>10, CallsKeepWalkUnhalted DEF Next, WalkUnhalted

LEMMA HaltInvariant == Spec => []HaltInv
<1>1. Init => HaltInv
  BY InitEstablishesInv DEF Init, HaltInv, WalkUnhalted
<1>2. HaltInv /\ [Next]_vars => HaltInv'
  BY NextKeepsInv, WalkStaysUnhalted DEF HaltInv
<1> QED  BY <1>1, <1>2, PTL DEF Spec

-----------------------------------------------------------------------------
(* What a halted book emits *)

Trading == {"Trade", "StopTriggered"}

NoNewTrade == \A i \in DOMAIN events' \ DOMAIN events : events'[i].kind \notin Trading

LEMMA EmitsNoTrade ==
  ASSUME BookInv, NEW e, e.kind \notin Trading, Emit(e)
  PROVE  NoNewTrade
<1>1. events \in Seq(EngineEvent) /\ events' = Append(events, e)
  BY DEF BookInv, CallInv, CallTypeOK, Emit
<1> QED  BY <1>1 DEF NoNewTrade

\* The event of an entry, after the one of a halt that is over.
LEMMA EntryEmitsNoTrade ==
  ASSUME BookInv, NEW t, NEW e, e.kind \notin Trading,
         events' \in {EventsAfterResume(t), Append(EventsAfterResume(t), e)}
  PROVE  NoNewTrade
<1>1. events \in Seq(EngineEvent)
  BY DEF BookInv, CallInv, CallTypeOK
<1>2. ResumedEvent.kind = "Resumed" /\ ResumedEvent.kind \notin Trading
  BY DEF ResumedEvent, Trading
<1>3. ResumedEvent \in EngineEvent
  BY DEF ResumedEvent, EngineEvent, EventKind, Sides, Prices, RejectReason
<1>4. EventsAfterResume(t) \in Seq(EngineEvent)
  BY <1>1, <1>3 DEF EventsAfterResume
<1>5. \A i \in DOMAIN EventsAfterResume(t) \ DOMAIN events :
        EventsAfterResume(t)[i].kind \notin Trading
  BY <1>1, <1>2 DEF EventsAfterResume
<1> QED  BY <1>4, <1>5 DEF NoNewTrade

LEMMA OrderCallTradesNot ==
  ASSUME BookInv, NEW t \in Times, OrderCall(t)
  PROVE  NoNewTrade
<1>1. CASE \E order \in NewOrders : add_order(order, t)
  BY <1>1 DEF add_order, NoNewTrade
<1>2. ASSUME NEW id, NEW requester, cancel_order_refused(id, requester, t)
      PROVE  NoNewTrade
  BY <1>2 DEF cancel_order_refused, Refuse, NoNewTrade
<1>3. ASSUME NEW id, CancelRest(id) PROVE NoNewTrade
  <2>1. OrderEvent("Cancelled", resting[id]).kind \notin Trading
    BY DEF OrderEvent, Trading
  <2> QED  BY <1>3, <2>1, EmitsNoTrade DEF CancelRest
<1>4. ASSUME NEW id, NEW requester, NEW a, modify_order_in_place(id, requester, a, t)
      PROVE  NoNewTrade
  <2>1. OrderEvent("Modified", Amended(id, a)).kind \notin Trading
    BY DEF OrderEvent, Trading
  <2> QED  BY <1>4, <2>1, EmitsNoTrade DEF modify_order_in_place
<1>5. ASSUME NEW id, NEW requester, NEW a, modify_order_replaces(id, requester, a, t)
      PROVE  NoNewTrade
  <2>1. OrderEvent("Replaced", resting[id]).kind \notin Trading
    BY DEF OrderEvent, Trading
  <2> QED  BY <1>5, <2>1, EntryEmitsNoTrade DEF modify_order_replaces
<1>6. ASSUME NEW id, NEW requester, NEW a, modify_order_refused(id, requester, a, t)
      PROVE  NoNewTrade
  BY <1>6 DEF modify_order_refused, Refuse, NoNewTrade
<1> QED
  BY <1>1, <1>2, <1>3, <1>4, <1>5, <1>6 DEF OrderCall, cancel_order, modify_order_cancels

LEMMA StopCallTradesNot ==
  ASSUME BookInv, NEW t \in Times, StopCall(t)
  PROVE  NoNewTrade
<1>1. ASSUME NEW stop, place_stop_order_refused(stop, t) PROVE NoNewTrade
  <2> DEFINE e == [StopEvent("Rejected", stop) EXCEPT !.reject_reason = PlaceRefusal(stop)]
  <2>1. e.kind \notin Trading
    BY DEF StopEvent, Trading
  <2>2. Emit(e)
    BY <1>1 DEF place_stop_order_refused
  <2> QED  BY <2>1, <2>2, EmitsNoTrade
<1>2. ASSUME NEW stop, place_stop_order(stop, t) PROVE NoNewTrade
  <2>1. StopEvent("StopAccepted", stop).kind \notin Trading
    BY DEF StopEvent, Trading
  <2> QED  BY <1>2, <2>1, EmitsNoTrade DEF place_stop_order
<1>3. ASSUME NEW id, NEW requester, cancel_stop_order_refused(id, requester, t)
      PROVE  NoNewTrade
  BY <1>3 DEF cancel_stop_order_refused, Refuse, NoNewTrade
<1>4. ASSUME NEW id, NEW requester, cancel_stop_order(id, requester, t) PROVE NoNewTrade
  <2>1. StopEvent("StopCancelled", dormant[id].stop).kind \notin Trading
    BY DEF StopEvent, Trading
  <2> QED  BY <1>4, <2>1, EmitsNoTrade DEF cancel_stop_order
<1>5. ASSUME NEW id, NEW requester, NEW a, modify_stop_order_refused(id, requester, a, t)
      PROVE  NoNewTrade
  BY <1>5 DEF modify_stop_order_refused, Refuse, NoNewTrade
<1>6. ASSUME NEW id, NEW requester, NEW a, modify_stop_order(id, requester, a, t)
      PROVE  NoNewTrade
  <2>1. StopEvent("StopModified", AmendedStop(id, a)).kind \notin Trading
    BY DEF StopEvent, Trading
  <2> QED  BY <1>6, <2>1, EmitsNoTrade DEF modify_stop_order
<1> QED  BY <1>1, <1>2, <1>3, <1>4, <1>5, <1>6 DEF StopCall

LEMMA HaltedStepTradesNot ==
  ASSUME HaltInv, halted, Step
  PROVE  NoNewTrade
<1>0. BookInv /\ pc # "match"
  BY DEF HaltInv, WalkUnhalted
<1>1. CASE EnterRefused
  <2> DEFINE e == [OrderEvent("Rejected", incoming) EXCEPT !.reject_reason = EntryRefusal(incoming)]
  <2>1. e.kind \notin Trading
    BY DEF OrderEvent, Trading
  <2>2. events' \in {EventsAfterResume(now), Append(EventsAfterResume(now), e)}
    BY <1>1 DEF EnterRefused
  <2> QED  BY <1>0, <2>1, <2>2, EntryEmitsNoTrade
<1>2. CASE EnterAccepted
  <2>1. OrderEvent("Accepted", incoming).kind \notin Trading
    BY DEF OrderEvent, Trading
  <2> QED  BY <1>0, <1>2, <2>1, EntryEmitsNoTrade DEF EnterAccepted
<1>3. ~Walk
  BY <1>0 DEF Walk, WalkEnds, CollarStops, SelfTradeStops, BandHalts, BandStops, Fill, AtLevel
<1>4. CASE SettleFilled
  BY <1>4 DEF SettleFilled, NoNewTrade
<1>5. CASE SettleRests
  <2> DEFINE e == OrderEvent("Rested", [incoming EXCEPT !.price = RestPrice])
  <2>1. e.kind \notin Trading
    BY DEF OrderEvent, Trading
  <2>2. Emit(e)
    BY <1>5 DEF SettleRests
  <2> QED  BY <1>0, <2>1, <2>2, EmitsNoTrade
<1>6. CASE SettleExpires
  <2> DEFINE e == OrderEvent("Expired", [incoming EXCEPT !.price = RestPrice])
  <2>1. e.kind \notin Trading
    BY DEF OrderEvent, Trading
  <2>2. Emit(e)
    BY <1>6 DEF SettleExpires
  <2> QED  BY <1>0, <2>1, <2>2, EmitsNoTrade
<1>7. ASSUME NEW id, WakeNext(id) PROVE NoNewTrade
  BY <1>7 DEF WakeNext, NoNewTrade
<1>8. CASE WakeEnds \/ SendBack \/ FireEnds \/ Return
  BY <1>8 DEF WakeEnds, SendBack, FireEnds, Return, NoNewTrade
<1>9. ~FireNext
  BY DEF FireNext
<1> QED  BY <1>1, <1>2, <1>3, <1>4, <1>5, <1>6, <1>7, <1>8, <1>9 DEF Step

\* While a book is halted it neither trades nor fires a stop, whoever asks: a new
\* order, a modify that would enter again, or a cascade that the halt broke off.
THEOREM HaltedBookTradesNot == Spec => NoTradeWhileHalted
<1>1. HaltInv /\ [Next]_vars =>
        [halted => \A i \in DOMAIN events' \ DOMAIN events :
           events'[i].kind \notin {"Trade", "StopTriggered"}]_vars
  BY OrderCallTradesNot, StopCallTradesNot, HaltedStepTradesNot
     DEF Next, HaltInv, NoNewTrade, Trading
<1> QED  BY <1>1, HaltInvariant, PTL DEF Spec, NoTradeWhileHalted

-----------------------------------------------------------------------------
(* Places in a level *)

\* Whoever was ahead of another is so still, and no bigger, if both still rest.
PlaceKept ==
  \A a, b \in Ids : Ahead(a, b) /\ IsResting(a)' /\ IsResting(b)' =>
    Ahead(a, b)' /\ resting'[a].quantity <= resting[a].quantity

\* Nothing moves, and no order grows.
LEMMA InPlaceKeepsPlace ==
  ASSUME BookInv, UNCHANGED levels,
         \A a \in Ids : IsResting(a) /\ IsResting(a)' => resting'[a].quantity <= resting[a].quantity
  PROVE  PlaceKept
<1> SUFFICES ASSUME NEW a \in Ids, NEW b \in Ids, Ahead(a, b), IsResting(a)'
             PROVE  Ahead(a, b)' /\ resting'[a].quantity <= resting[a].quantity
  BY DEF PlaceKept
<1>1. Ahead(a, b)'
  BY DEF Ahead
<1>2. IsResting(a)
  BY DEF Ahead, IsResting, BookInv, RestingInv, LevelsAgree, LevelEntries
<1> QED  BY <1>1, <1>2

\* An order that is no longer there, and others as they were.
LEMMA QuantityTyped ==
  ASSUME BookInv, NEW id \in Ids, IsResting(id)
  PROVE  resting[id] \in Order /\ resting[id].quantity \in Int /\ resting[id].id = id
BY DEF BookInv, RestingInv, BookTypeOK, IsResting, LevelsAgree, RestingEntries, LevelEntries, Order

LEMMA UnchangedKeepsPlace ==
  ASSUME BookInv, UNCHANGED <<resting, levels>>
  PROVE  PlaceKept
BY InPlaceKeepsPlace, QuantityTyped DEF IsResting

\* An order with less to trade keeps its place (modify_order in place, a partial fill).
LEMMA ShrinkKeepsPlace ==
  ASSUME BookInv, NEW id \in Ids, IsResting(id), NEW order, order.quantity <= resting[id].quantity,
         resting' = [resting EXCEPT ![id] = order], UNCHANGED levels
  PROVE  PlaceKept
<1>1. \A a \in Ids : IsResting(a) => resting'[a].quantity <= resting[a].quantity
  BY QuantityTyped DEF BookInv, RestingInv, BookTypeOK
<1> QED  BY <1>1, InPlaceKeepsPlace

\* An order that joins goes behind all others of its level.
LEMMA RestKeepsPlace ==
  ASSUME BookInv, NEW order \in Order, order.price \in Int,
         resting[order.id] = None, Rest(order)
  PROVE  PlaceKept
<1> DEFINE id == order.id
           s == order.side
           m == levels[s]
           new == Link(m, order.price, id)
<1>1. id \in Ids /\ s \in Sides
  BY DEF Order
<1>2. resting' = [resting EXCEPT ![id] = order] /\ levels' = [levels EXCEPT ![s] = new]
  BY DEF Rest
<1>3. DOMAIN levels = Sides /\ \A q \in DOMAIN m : m[q] \in Seq(Ids)
  BY <1>1 DEF BookInv, RestingInv, BookTypeOK, LevelsTypeOK
<1>4. Joined(m, order.price, id, new)
  BY <1>1, <1>3, LinkElements
<1>5. \A p \in DOMAIN m : /\ p \in DOMAIN new
                          /\ DOMAIN m[p] \subseteq DOMAIN new[p]
                          /\ \A i \in DOMAIN m[p] : new[p][i] = m[p][i]
  <2> SUFFICES ASSUME NEW p \in DOMAIN m
               PROVE  /\ p \in DOMAIN new
                      /\ DOMAIN m[p] \subseteq DOMAIN new[p]
                      /\ \A i \in DOMAIN m[p] : new[p][i] = m[p][i]
    OBVIOUS
  <2>1. m[p] \in Seq(Ids)
    BY <1>3
  <2> HIDE DEF m, new
  <2> QED  BY <1>4, <2>1 DEF Joined, LevelAt
<1> SUFFICES ASSUME NEW a \in Ids, NEW b \in Ids, Ahead(a, b)
             PROVE  Ahead(a, b)' /\ resting'[a].quantity <= resting[a].quantity
  BY DEF PlaceKept
<1>6. Ahead(a, b)'
  <2>1. PICK side \in Sides : \E p \in DOMAIN levels[side] : \E i, j \in DOMAIN levels[side][p] :
          i < j /\ levels[side][p][i] = a /\ levels[side][p][j] = b
    BY DEF Ahead
  <2>2. PICK p \in DOMAIN levels[side] : \E i, j \in DOMAIN levels[side][p] :
          i < j /\ levels[side][p][i] = a /\ levels[side][p][j] = b
    BY <2>1
  <2>3. /\ p \in DOMAIN levels'[side]
        /\ DOMAIN levels[side][p] \subseteq DOMAIN levels'[side][p]
        /\ \A i \in DOMAIN levels[side][p] : levels'[side][p][i] = levels[side][p][i]
    <3> HIDE DEF new
    <3>1. CASE side = s
      BY <3>1, <1>2, <1>3, <1>5
    <3>2. CASE side # s
      BY <3>2, <1>2, <1>3
    <3> QED  BY <3>1, <3>2
  <2> QED  BY <2>2, <2>3 DEF Ahead
<1>7. IsResting(a)
  BY DEF Ahead, IsResting, BookInv, RestingInv, LevelsAgree, LevelEntries
<1>8. resting'[a] = resting[a]
  BY <1>2, <1>7 DEF IsResting, BookInv, RestingInv, BookTypeOK
<1> QED  BY <1>6, <1>7, <1>8, QuantityTyped

\* The orders behind one that leaves move up together (unlink).
LEMMA RemoveKeepsPlace ==
  ASSUME BookInv, NEW id \in Ids, resting[id] # None, remove_resting(id)
  PROVE  PlaceKept
<1> DEFINE s == resting[id].side
           q == resting[id].price
           m == levels[s]
           left == Unlink(m, q, id)
           k == Position(m[q], id)
<1>1. resting' = [resting EXCEPT ![id] = None] /\ levels' = [levels EXCEPT ![s] = left]
  BY DEF remove_resting
<1>2. s \in Sides /\ DOMAIN levels = Sides /\ \A p \in DOMAIN m : m[p] \in Seq(Ids)
  BY QuantityTyped DEF IsResting, Order, BookInv, RestingInv, BookTypeOK, LevelsTypeOK
<1>3. q \in DOMAIN m /\ \E i \in DOMAIN m[q] : m[q][i] = id
  <2>1. IsResting(id) /\ LevelsAgree
    BY DEF IsResting, BookInv, RestingInv
  <2> QED  BY <2>1 DEF LevelsAgree, RestingEntries
<1>4. Departed(m, q, id, left)
  <2> HIDE DEF m, q
  <2>1. \A p \in DOMAIN m : m[p] \in Seq(Ids)
    BY <1>2, Zenon
  <2> QED  BY <1>3, <2>1, UnlinkElements, Zenon
<1>5. k \in 1 .. Len(m[q]) /\ m[q][k] = id /\ Len(m[q]) \in Nat /\ DOMAIN m[q] = 1 .. Len(m[q])
  <2>1. k \in 1 .. Len(m[q]) /\ m[q][k] = id
    BY <1>4, Zenon DEF Departed
  <2> HIDE DEF m, q
  <2>2. m[q] \in Seq(Ids)
    BY <1>2, <1>3, Zenon
  <2>3. Len(m[q]) \in Nat /\ DOMAIN m[q] = 1 .. Len(m[q])
    BY <2>2
  <2> QED  BY <2>1, <2>3, Zenon
<1> SUFFICES ASSUME NEW a \in Ids, NEW b \in Ids, Ahead(a, b), IsResting(a)', IsResting(b)'
             PROVE  Ahead(a, b)' /\ resting'[a].quantity <= resting[a].quantity
  BY DEF PlaceKept
<1>6. a # id /\ b # id /\ resting'[a] = resting[a]
  BY <1>1 DEF IsResting, BookInv, RestingInv, BookTypeOK
<1>7. Ahead(a, b)'
  <2>1. PICK side \in Sides : \E p \in DOMAIN levels[side] : \E i, j \in DOMAIN levels[side][p] :
          i < j /\ levels[side][p][i] = a /\ levels[side][p][j] = b
    BY DEF Ahead
  <2>2. PICK p \in DOMAIN levels[side] : \E i, j \in DOMAIN levels[side][p] :
          i < j /\ levels[side][p][i] = a /\ levels[side][p][j] = b
    BY <2>1
  <2>3. PICK i \in DOMAIN levels[side][p], j \in DOMAIN levels[side][p] :
          i < j /\ levels[side][p][i] = a /\ levels[side][p][j] = b
    BY <2>2
  <2>4. CASE side # s \/ p # q
    <3>1. p \in DOMAIN levels'[side] /\ levels'[side][p] = levels[side][p]
      <4> HIDE DEF left
      <4>1. CASE side # s
        BY <4>1, <1>1
      <4>2. CASE side = s
        BY <4>2, <2>4, <1>1, <1>2, <1>4 DEF Departed
      <4> QED  BY <4>1, <4>2
    <3>2. /\ p \in DOMAIN levels'[side]
          /\ i \in DOMAIN levels'[side][p] /\ j \in DOMAIN levels'[side][p]
          /\ levels'[side][p][i] = a /\ levels'[side][p][j] = b /\ i < j
      BY <2>3, <3>1
    <3> QED  BY <3>2 DEF Ahead
  <2>5. CASE side = s /\ p = q
    <3> DEFINE new == left[q]
    <3>1. i \in 1 .. Len(m[q]) /\ j \in 1 .. Len(m[q]) /\ i # k /\ j # k /\ i < j
          /\ m[q][i] = a /\ m[q][j] = b
      BY <2>3, <2>5, <1>5, <1>6
    <3>2. /\ q \in DOMAIN left /\ new \in Seq(Ids) /\ Len(new) = Len(m[q]) - 1
          /\ \A n \in 1 .. Len(m[q]) - 1 : new[n] = IF n < k THEN m[q][n] ELSE m[q][n + 1]
      <4>1. Len(m[q]) > 1
        BY <3>1, <1>5
      <4> QED  BY <4>1, <1>4, Zenon DEF Departed
    <3>3. DOMAIN new = 1 .. Len(m[q]) - 1
      BY <3>2
    <3>4. levels'[s] = left
      BY <1>1, <1>2
    <3> HIDE DEF k, left, new
    <3>5. \E i2, j2 \in 1 .. Len(m[q]) - 1 : i2 < j2 /\ new[i2] = a /\ new[j2] = b
      <4> DEFINE shift(n) == IF n < k THEN n ELSE n - 1
      <4>1. ASSUME NEW x \in 1 .. Len(m[q]), x # k
            PROVE  shift(x) \in 1 .. Len(m[q]) - 1 /\ new[shift(x)] = m[q][x]
        <5>1. CASE x < k
          <6>1. x \in 1 .. Len(m[q]) - 1 /\ shift(x) = x
            BY <5>1, <1>5
          <6> QED  BY <5>1, <6>1, <3>2
        <5>2. CASE x > k
          <6>1. PICK y \in 1 .. Len(m[q]) - 1 : y = x - 1 /\ shift(x) = y /\ y + 1 = x /\ ~(y < k)
            BY <5>2, <1>5
          <6> QED  BY <6>1, <3>2
        <5> QED  BY <4>1, <5>1, <5>2, <1>5
      <4>2. shift(i) < shift(j)
        BY <3>1, <1>5
      <4> HIDE DEF shift
      <4> QED  BY <3>1, <4>1, <4>2
    <3>6. new = levels'[s][q] /\ q \in DOMAIN levels'[s]
      BY <3>2, <3>4 DEF new
    <3>7. PICK i2, j2 \in 1 .. Len(m[q]) - 1 : i2 < j2 /\ new[i2] = a /\ new[j2] = b
      BY <3>5
    <3>8. /\ i2 \in DOMAIN levels'[s][q] /\ j2 \in DOMAIN levels'[s][q]
          /\ i2 < j2 /\ levels'[s][q][i2] = a /\ levels'[s][q][j2] = b
      BY <3>3, <3>6, <3>7
    <3> HIDE DEF s, q, m
    <3> QED  BY <1>2, <3>6, <3>8 DEF Ahead
  <2> QED  BY <2>4, <2>5
<1>8. resting'[a].quantity <= resting[a].quantity
  BY <1>6, QuantityTyped DEF IsResting
<1> QED  BY <1>7, <1>8

LEMMA CancelRestKeepsPlace ==
  ASSUME BookInv, NEW id \in Ids, resting[id] # None, CancelRest(id)
  PROVE  PlaceKept
BY RemoveKeepsPlace DEF CancelRest

LEMMA OrderCallKeepsPlace ==
  ASSUME BookInv, NEW t \in Times, OrderCall(t)
  PROVE  PlaceKept
<1>0. ASSUME NEW target \in Targets PROVE target.id \in Ids /\ target.requester \in Owners
  BY <1>0, ArgumentsTyped
<1>1. ASSUME NEW order, add_order(order, t) PROVE PlaceKept
  BY <1>1, UnchangedKeepsPlace DEF add_order, bookVars
<1>2. ASSUME NEW id, NEW requester, cancel_order_refused(id, requester, t) PROVE PlaceKept
  BY <1>2, UnchangedKeepsPlace DEF cancel_order_refused, Refuse, bookVars
<1>3. ASSUME NEW id \in Ids, NEW requester, cancel_order(id, requester, t) PROVE PlaceKept
  <2>1. resting[id] # None
    BY <1>3 DEF cancel_order, CancelRefusal, GoneReason
  <2> QED  BY <1>3, <2>1, CancelRestKeepsPlace DEF cancel_order
<1>4. ASSUME NEW id, NEW requester, NEW a, modify_order_refused(id, requester, a, t)
      PROVE  PlaceKept
  BY <1>4, UnchangedKeepsPlace DEF modify_order_refused, Refuse, bookVars
<1>5. ASSUME NEW id \in Ids, NEW requester \in Owners, NEW a \in Amendments,
             modify_order_cancels(id, requester, a, t)
      PROVE  PlaceKept
  <2>1. Modifiable(id, a, t)
    BY <1>5, ModifyAccepted DEF modify_order_cancels
  <2> QED  BY <1>5, <2>1, CancelRestKeepsPlace DEF modify_order_cancels, Modifiable
<1>6. ASSUME NEW id \in Ids, NEW requester \in Owners, NEW a \in Amendments,
             modify_order_in_place(id, requester, a, t)
      PROVE  PlaceKept
  <2>1. Modifiable(id, a, t)
    BY <1>6, ModifyAccepted DEF modify_order_in_place
  <2>2. Amended(id, a).quantity = NewRemaining(id, a)
    BY <2>1 DEF Modifiable, Order
  <2>3. NewRemaining(id, a) <= resting[id].quantity
    BY <1>6 DEF modify_order_in_place, KeepsPlace
  <2>4. resting' = [resting EXCEPT ![id] = Amended(id, a)] /\ UNCHANGED levels
    BY <1>6 DEF modify_order_in_place
  <2> QED  BY <2>1, <2>2, <2>3, <2>4, ShrinkKeepsPlace DEF Modifiable, IsResting
<1>7. ASSUME NEW id \in Ids, NEW requester \in Owners, NEW a \in Amendments,
             modify_order_replaces(id, requester, a, t)
      PROVE  PlaceKept
  <2>1. Modifiable(id, a, t)
    BY <1>7, ModifyAccepted DEF modify_order_replaces
  <2> QED  BY <1>7, <2>1, RemoveKeepsPlace DEF modify_order_replaces, Modifiable
<1> QED  BY <1>0, <1>1, <1>2, <1>3, <1>4, <1>5, <1>6, <1>7 DEF OrderCall

LEMMA StopCallKeepsPlace ==
  ASSUME BookInv, NEW t \in Times, StopCall(t)
  PROVE  PlaceKept
<1>1. UNCHANGED bookVars
  BY DEF StopCall, place_stop_order_refused, place_stop_order, cancel_stop_order_refused,
         cancel_stop_order, modify_stop_order_refused, modify_stop_order, Refuse
<1> QED  BY <1>1, UnchangedKeepsPlace DEF bookVars

\* A fill takes from the head of a level, or takes the head away.
LEMMA FillKeepsPlace ==
  ASSUME BookInv, NEW p, Fill(p)
  PROVE  PlaceKept
<1>1. AtLevel(p) /\ pc = "match"
  BY DEF Fill, AtLevel
<1>2. incoming \in Order /\ incoming.quantity > 0
  BY <1>1, EntryFacts DEF AtLevel, BookInv
<1> DEFINE passive == HeadOf(p)
           id == passive.id
           n == IF incoming.quantity < passive.quantity THEN incoming.quantity ELSE passive.quantity
<1>3. passive \in Order /\ id \in Ids /\ resting[id] = passive /\ passive # None
  BY <1>1, LevelHasHead
<1>4. passive.quantity \in Int /\ n \in Nat /\ passive.quantity > 0
  BY <1>1, <1>2, <1>3, LevelHasHead DEF Order
<1>5. CASE n = passive.quantity
  <2>1. remove_resting(id)
    BY <1>5 DEF Fill
  <2> QED  BY <1>3, <2>1, RemoveKeepsPlace
<1>6. CASE n # passive.quantity
  <2>1. resting' = [resting EXCEPT ![id] = Taken(passive, n)] /\ UNCHANGED levels
    BY <1>6 DEF Fill
  <2>2. Taken(passive, n).quantity = passive.quantity - n
    BY <1>3, <1>4, TakenType
  <2>3. Taken(passive, n).quantity <= resting[id].quantity
    BY <1>3, <1>4, <2>2
  <2> QED  BY <1>3, <2>1, <2>3, ShrinkKeepsPlace DEF IsResting
<1> QED  BY <1>5, <1>6

LEMMA SettleRestsKeepsPlace ==
  ASSUME BookInv, SettleRests
  PROVE  PlaceKept
<1>1. pc = "settle" /\ incoming.type = "Limit" /\ MayRest
  BY DEF SettleRests, Settle, MayRest
<1>2. incoming \in Order /\ incoming # None /\ incoming.id \in Ids
  BY <1>1, EntryFacts DEF BookInv
<1>3. PICK price \in Int : price = RestPrice
  BY <1>1, RestPriceValid DEF BookInv
<1> DEFINE order == [incoming EXCEPT !.price = price]
<1>4. order \in Order /\ order.id = incoming.id /\ order.price = price
  BY <1>2 DEF Order, Prices
<1>5. resting[incoming.id] = None
  BY <1>1, <1>2 DEF IsInFlight, IsResting, BookInv, PlacesInv, LifeCycle, OnePlace
<1>6. Rest(order)
  BY <1>3 DEF SettleRests
<1> HIDE DEF order
<1> QED  BY <1>4, <1>5, <1>6, RestKeepsPlace

LEMMA StepKeepsPlace ==
  ASSUME BookInv, Step
  PROVE  PlaceKept
<1>1. CASE EnterRefused \/ EnterAccepted
  BY <1>1, UnchangedKeepsPlace DEF EnterRefused, EnterAccepted, bookVars
<1>2. CASE WalkEnds
  BY <1>2, UnchangedKeepsPlace DEF WalkEnds, StopQuietly, Stop, bookVars
<1>3. ASSUME NEW p, CollarStops(p) \/ SelfTradeStops(p) \/ BandHalts(p) \/ BandStops(p)
      PROVE  PlaceKept
  BY <1>3, UnchangedKeepsPlace
     DEF CollarStops, SelfTradeStops, BandHalts, BandStops, StopQuietly, Stop, bookVars
<1>4. CASE SettleFilled \/ SettleExpires
  BY <1>4, UnchangedKeepsPlace DEF SettleFilled, SettleExpires, bookVars
<1>5. ASSUME NEW id, WakeNext(id) PROVE PlaceKept
  BY <1>5, UnchangedKeepsPlace DEF WakeNext, bookVars
<1>6. CASE WakeEnds \/ FireNext \/ SendBack \/ FireEnds \/ Return
  BY <1>6, UnchangedKeepsPlace DEF WakeEnds, FireNext, SendBack, FireEnds, Return, bookVars
<1> QED  BY <1>1, <1>2, <1>3, <1>4, <1>5, <1>6, FillKeepsPlace, SettleRestsKeepsPlace DEF Step, Walk

\* No fill, cancel or modify lets an order pass another of its level, and one that
\* grows or moves goes behind (get_or_create_level, unlink, modify_order).
THEOREM PlacesAreKept == Spec => PlaceIsKept
<1>1. ASSUME BookInv, [Next]_vars PROVE PlaceKept
  <2>1. CASE UNCHANGED vars
    BY <1>1, <2>1, UnchangedKeepsPlace DEF vars, bookVars
  <2> QED  BY <1>1, <2>1, OrderCallKeepsPlace, StopCallKeepsPlace, StepKeepsPlace DEF Next
<1>2. BookInv /\ [Next]_vars =>
        [\A a, b \in Ids : Ahead(a, b) /\ IsResting(a)' /\ IsResting(b)' =>
           /\ Ahead(a, b)'
           /\ resting'[a].quantity <= resting[a].quantity]_vars
  BY <1>1 DEF PlaceKept
<1> QED  BY <1>2, BookInvariant, PTL DEF Spec, PlaceIsKept

-----------------------------------------------------------------------------
(* The order in which stops fire *)

FiringKept ==
  \A a, b \in Ids : FiresBefore(a, b) /\ IsWaiting(a)' /\ IsWaiting(b)' =>
    \/ FiresBefore(a, b)'
    \/ pc = "idle" /\ dormant'[a].priority > dormant[a].priority
         /\ ~StopKeepsPlace(a, dormant'[a].stop)
    \/ pc = "wake" /\ a \notin Woken

LEMMA SameStopsKeepFiring ==
  ASSUME UNCHANGED <<dormant, triggered_stops>>
  PROVE  FiringKept
BY DEF FiringKept, FiresBefore, IsDormant, IsTriggered

\* Stops, their keys and the queue, with their types.
LEMMA StopFacts ==
  ASSUME BookInv
  PROVE  /\ dormant \in [Ids -> DormantStop \cup {None}]
         /\ triggered_stops \in Seq(StopOrder)
         /\ next_back_priority \in Nat /\ next_front_priority \in Int
         /\ \A id \in Ids : IsDormant(id) =>
              /\ dormant[id].priority \in Int
              /\ next_front_priority < dormant[id].priority
              /\ dormant[id].priority < next_back_priority
         /\ \A id \in Ids : ~(IsDormant(id) /\ IsTriggered(id))
         /\ TriggeredOnce
BY DEF BookInv, StopsInv, StopsTypeOK, KeysBetweenCounters, PlacesInv, LifeCycle, OnePlace,
       IsDormant, DormantStop

\* Between calls no stop is woken.
LEMMA IdleFiresByKey ==
  ASSUME BookInv, pc = "idle", NEW a, NEW b, FiresBefore(a, b)
  PROVE  IsDormant(a) /\ IsDormant(b) /\ dormant[a].priority < dormant[b].priority
<1>1. triggered_stops = <<>>
  BY DEF BookInv, CallInv, QueueInCall
<1> QED  BY <1>1 DEF FiresBefore, IsTriggered

LEMMA PlaceStopKeepsFiring ==
  ASSUME BookInv, NEW stop \in StopOrder, NEW t, place_stop_order(stop, t)
  PROVE  FiringKept
<1>1. pc = "idle" /\ dormant[stop.id] = None
  BY DEF place_stop_order, Call, PlaceRefusal, id_in_use
<1>2. dormant' = [dormant EXCEPT ![stop.id] = DormantAt(stop, next_back_priority)]
  BY DEF place_stop_order
<1>3. \A id \in Ids : IsDormant(id) => dormant'[id] = dormant[id]
  BY <1>1, <1>2, StopFacts DEF IsDormant
<1> QED  BY <1>1, <1>3, IdleFiresByKey DEF FiringKept, FiresBefore, IsDormant

LEMMA CancelStopKeepsFiring ==
  ASSUME BookInv, NEW id \in Ids, NEW requester, NEW t, cancel_stop_order(id, requester, t)
  PROVE  FiringKept
<1>1. pc = "idle" /\ dormant' = [dormant EXCEPT ![id] = None]
  BY DEF cancel_stop_order, Call
<1>2. triggered_stops' = <<>>
  BY <1>1 DEF cancel_stop_order, Finish, entryVars, queueVars, BookInv, CallInv, QueueInCall
<1>3. \A x \in Ids : IsWaiting(x)' => dormant'[x] = dormant[x] /\ dormant'[x] # None
  BY <1>1, <1>2, StopFacts DEF IsWaiting, IsDormant, IsTriggered
<1> QED  BY <1>1, <1>3, IdleFiresByKey DEF FiringKept, FiresBefore, IsDormant

\* A modify keeps the key, or goes behind all.
LEMMA ModifyStopKeepsFiring ==
  ASSUME BookInv, NEW id \in Ids, NEW requester, NEW c \in StopAmendments, NEW t,
         modify_stop_order(id, requester, c, t)
  PROVE  FiringKept
<1> DEFINE back == ~StopKeepsPlace(id, c)
           key == IF back THEN next_back_priority ELSE dormant[id].priority
           stop == AmendedStop(id, c)
<1>1. pc = "idle" /\ dormant' = [dormant EXCEPT ![id] = DormantAt(stop, key)]
  BY StopFacts DEF modify_stop_order, Call
<1>2. dormant[id] # None
  BY DEF modify_stop_order, ModifyStopRefusal, CancelStopRefusal, stop_gone_reason
<1>3. dormant[id].stop \in StopOrder /\ c \in [stop_price : Int, limit_price : Prices, quantity : Int]
  BY <1>2, StopFacts, ArgumentsTyped DEF DormantStop
<1>4. /\ stop.stop_price = c.stop_price /\ stop.limit_price = c.limit_price
      /\ stop.quantity = c.quantity
  BY <1>3 DEF AmendedStop, StopOrder
<1>5. back => ~StopKeepsPlace(id, stop)
  BY <1>4 DEF StopKeepsPlace
<1> HIDE DEF back, key, stop
<1>6. /\ dormant'[id].stop = stop /\ dormant'[id].priority = key /\ dormant'[id] # None
      /\ \A x \in Ids : x # id => dormant'[x] = dormant[x]
  <2>1. dormant'[id] = DormantAt(stop, key)
    BY <1>1, StopFacts
  <2>2. stop \in StopOrder
    BY <1>3 DEF stop, AmendedStop, StopOrder
  <2>4. key \in Int
    BY <1>2, StopFacts DEF key, IsDormant
  <2>3. DormantAt(stop, key) \in DormantStop
    BY <2>2, <2>4 DEF DormantAt, DormantStop
  <2> QED  BY <1>1, <2>1, <2>3, StopFacts, NoneIsApart DEF DormantAt
<1>7. key = dormant[id].priority \/ (back /\ key = next_back_priority)
  BY DEF key
<1> SUFFICES ASSUME NEW a \in Ids, NEW b \in Ids, FiresBefore(a, b)
             PROVE  \/ FiresBefore(a, b)'
                    \/ /\ dormant'[a].priority > dormant[a].priority
                       /\ ~StopKeepsPlace(a, dormant'[a].stop)
  BY <1>1 DEF FiringKept
<1>8. IsDormant(a) /\ IsDormant(b) /\ dormant[a].priority < dormant[b].priority
  BY <1>1, IdleFiresByKey
<1>9. IsDormant(a)' /\ IsDormant(b)'
  BY <1>6, <1>8 DEF IsDormant
<1>10. CASE key = dormant[id].priority
  BY <1>6, <1>8, <1>9, <1>10 DEF FiresBefore
<1>11. CASE back /\ key = next_back_priority
  <2>1. CASE a = id
    BY <2>1, <1>5, <1>6, <1>8, <1>11, StopFacts
  <2>2. CASE a # id
    <3>1. dormant'[a].priority < dormant'[b].priority
      BY <2>2, <1>6, <1>8, <1>11, StopFacts
    <3> QED  BY <3>1, <1>9 DEF FiresBefore
  <2> QED  BY <2>1, <2>2
<1> QED  BY <1>7, <1>10, <1>11

\* The next stop to wake goes to the end of the queue; the woken ones before it
\* in order are in the queue already.
LEMMA WakeKeepsFiring ==
  ASSUME BookInv, NEW id \in Ids, WakeNext(id)
  PROVE  FiringKept
<1>1. /\ pc = "wake" /\ id \in Woken
      /\ \A other \in Woken : dormant[id].priority <= dormant[other].priority
      /\ triggered_stops' = Append(triggered_stops, dormant[id].stop)
      /\ dormant' = [dormant EXCEPT ![id] = None]
  BY DEF WakeNext, IsNextWoken
<1>2. IsDormant(id) /\ dormant[id].stop.id = id /\ dormant[id].stop \in StopOrder
  BY <1>1, StopFacts DEF Woken, IsDormant, DormantStop, BookInv, StopsInv, StopsValid
<1> DEFINE last == Len(triggered_stops) + 1
<1>3. /\ DOMAIN triggered_stops = 1 .. Len(triggered_stops) /\ Len(triggered_stops) \in Nat
      /\ DOMAIN triggered_stops' = 1 .. last
      /\ \A i \in DOMAIN triggered_stops : triggered_stops'[i] = triggered_stops[i]
      /\ triggered_stops'[last].id = id
  BY <1>1, <1>2, StopFacts
<1>4. \A x \in Ids : x # id => dormant'[x] = dormant[x]
  BY <1>1, StopFacts
<1>5. IsTriggered(id)' /\ \A x \in Ids : IsTriggered(x) => IsTriggered(x)'
  BY <1>3 DEF IsTriggered
<1> SUFFICES ASSUME NEW a \in Ids, NEW b \in Ids, FiresBefore(a, b)
             PROVE  FiresBefore(a, b)' \/ a \notin Woken
  BY <1>1 DEF FiringKept
<1>6. CASE IsDormant(a) /\ IsDormant(b) /\ dormant[a].priority < dormant[b].priority
  <2>1. CASE a = id
    <3>1. b # id /\ IsDormant(b)'
      BY <2>1, <1>4, <1>6, StopFacts DEF IsDormant
    <3> QED  BY <2>1, <3>1, <1>5 DEF FiresBefore
  <2>2. CASE b = id
    BY <2>2, <1>1, <1>6, StopFacts
  <2>3. CASE a # id /\ b # id
    BY <2>3, <1>4, <1>6 DEF FiresBefore, IsDormant
  <2> QED  BY <2>1, <2>2, <2>3
<1>7. CASE IsTriggered(a) /\ IsDormant(b)
  <2>1. CASE b = id
    <3>1. PICK i \in DOMAIN triggered_stops : triggered_stops[i].id = a
      BY <1>7 DEF IsTriggered
    <3>2. i \in DOMAIN triggered_stops' /\ last \in DOMAIN triggered_stops' /\ i < last
      BY <3>1, <1>3
    <3>3. triggered_stops'[i].id = a /\ triggered_stops'[last].id = b
      BY <2>1, <3>1, <1>3
    <3> QED  BY <3>2, <3>3 DEF FiresBefore
  <2>2. CASE b # id
    BY <2>2, <1>4, <1>5, <1>7 DEF FiresBefore, IsDormant
  <2> QED  BY <2>1, <2>2
<1>8. CASE \E i, j \in DOMAIN triggered_stops :
             i < j /\ triggered_stops[i].id = a /\ triggered_stops[j].id = b
  <2>1. DOMAIN triggered_stops \subseteq DOMAIN triggered_stops'
    BY <1>3
  <2> QED  BY <1>3, <1>8, <2>1 DEF FiresBefore
<1> QED  BY <1>6, <1>7, <1>8 DEF FiresBefore

\* The head of the queue fires, and the others move up.
LEMMA FireKeepsFiring ==
  ASSUME BookInv, FireNext
  PROVE  FiringKept
<1>1. /\ triggered_stops # <<>>
      /\ triggered_stops' = Tail(triggered_stops)
      /\ UNCHANGED dormant
  BY DEF FireNext, stopVars
<1>2. PICK n \in Nat : n = Len(triggered_stops) - 1
  BY <1>1, StopFacts
<1>3. /\ DOMAIN triggered_stops = 1 .. n + 1
      /\ DOMAIN triggered_stops' = 1 .. n
      /\ \A i \in 1 .. n : triggered_stops'[i] = triggered_stops[i + 1]
  BY <1>1, <1>2, StopFacts
<1>4. ASSUME NEW i \in DOMAIN triggered_stops, NEW a \in Ids, triggered_stops[i].id = a, IsWaiting(a)'
      PROVE  /\ i - 1 \in DOMAIN triggered_stops' /\ triggered_stops'[i - 1].id = a
             /\ IsTriggered(a)'
  <2>1. IsTriggered(a) /\ ~IsDormant(a)'
    BY <1>1, <1>4, StopFacts DEF IsTriggered, IsDormant
  <2>2. PICK k \in 1 .. n : triggered_stops'[k].id = a
    BY <1>3, <1>4, <2>1 DEF IsWaiting, IsTriggered
  <2>3. k + 1 \in DOMAIN triggered_stops /\ triggered_stops[k + 1].id = a
    BY <2>2, <1>3
  <2>4. i = k + 1
    BY <1>4, <2>3, StopFacts DEF TriggeredOnce
  <2> QED  BY <1>3, <2>2, <2>4 DEF IsTriggered
<1> SUFFICES ASSUME NEW a \in Ids, NEW b \in Ids, FiresBefore(a, b), IsWaiting(a)', IsWaiting(b)'
             PROVE  FiresBefore(a, b)'
  BY DEF FiringKept
<1>5. CASE IsDormant(a) /\ IsDormant(b) /\ dormant[a].priority < dormant[b].priority
  BY <1>1, <1>5 DEF FiresBefore, IsDormant
<1>6. CASE IsTriggered(a) /\ IsDormant(b)
  <2>1. IsTriggered(a)'
    BY <1>4, <1>6 DEF IsTriggered
  <2> QED  BY <1>1, <1>6, <2>1 DEF FiresBefore, IsDormant
<1>7. ASSUME NEW i \in DOMAIN triggered_stops, NEW j \in DOMAIN triggered_stops,
             i < j, triggered_stops[i].id = a, triggered_stops[j].id = b
      PROVE  FiresBefore(a, b)'
  <2>1. /\ i - 1 \in DOMAIN triggered_stops' /\ triggered_stops'[i - 1].id = a
        /\ j - 1 \in DOMAIN triggered_stops' /\ triggered_stops'[j - 1].id = b
    BY <1>4, <1>7
  <2>2. i - 1 < j - 1
    BY <1>3, <1>7
  <2> QED  BY <2>1, <2>2 DEF FiresBefore
<1> QED  BY <1>5, <1>6, <1>7 DEF FiresBefore

\* A stop that is sent back is last in the queue, and first among the dormant.
LEMMA SendBackKeepsFiring ==
  ASSUME BookInv, SendBack
  PROVE  FiringKept
<1> DEFINE stop == Last(triggered_stops)
<1>1. /\ triggered_stops # <<>>
      /\ triggered_stops' = Front(triggered_stops)
      /\ dormant' = [dormant EXCEPT ![stop.id] = DormantAt(stop, next_front_priority)]
  BY DEF SendBack, InsertAtFront
<1>2. PICK n \in Nat : n = Len(triggered_stops) - 1
  <2>1. Len(triggered_stops) \in Nat /\ Len(triggered_stops) > 0
    BY <1>1, StopFacts
  <2>2. Len(triggered_stops) - 1 \in Nat
    BY <2>1
  <2> QED  BY <2>2
<1>3. /\ DOMAIN triggered_stops = 1 .. n + 1
      /\ DOMAIN triggered_stops' = 1 .. n
      /\ \A i \in 1 .. n : triggered_stops'[i] = triggered_stops[i]
      /\ stop \in StopOrder /\ stop = triggered_stops[n + 1]
  BY <1>1, <1>2, StopFacts, FrontElements
<1> HIDE DEF stop
<1>4. stop.id \in Ids /\ IsTriggered(stop.id) /\ ~IsDormant(stop.id)
  <2>1. stop.id \in Ids
    BY <1>3 DEF StopOrder
  <2>2. IsTriggered(stop.id)
    <3>1. n + 1 \in DOMAIN triggered_stops /\ triggered_stops[n + 1].id = stop.id
      BY <1>3
    <3> QED  BY <3>1 DEF IsTriggered
  <2> QED  BY <2>1, <2>2, StopFacts
<1>5. /\ dormant'[stop.id] # None /\ dormant'[stop.id].priority = next_front_priority
      /\ \A x \in Ids : x # stop.id => dormant'[x] = dormant[x]
  <2>1. dormant'[stop.id] = DormantAt(stop, next_front_priority)
    BY <1>1, <1>4, StopFacts
  <2>2. DormantAt(stop, next_front_priority) \in DormantStop
    BY <1>3, StopFacts DEF DormantAt, DormantStop
  <2> QED  BY <1>1, <1>4, <2>1, <2>2, StopFacts, NoneIsApart DEF DormantAt
<1>6. \A x \in Ids : IsDormant(x) => x # stop.id /\ IsDormant(x)' /\ dormant'[x] = dormant[x]
  BY <1>4, <1>5 DEF IsDormant
<1> SUFFICES ASSUME NEW a \in Ids, NEW b \in Ids, FiresBefore(a, b)
             PROVE  FiresBefore(a, b)'
  BY DEF FiringKept
<1>7. CASE IsDormant(a) /\ IsDormant(b) /\ dormant[a].priority < dormant[b].priority
  BY <1>6, <1>7 DEF FiresBefore
<1>8. CASE IsTriggered(a) /\ IsDormant(b)
  <2>1. CASE a = stop.id
    <3>1. next_front_priority < dormant[b].priority
      BY <1>8, StopFacts
    <3>2. IsDormant(a)'
      BY <2>1, <1>5 DEF IsDormant
    <3> QED  BY <2>1, <3>1, <3>2, <1>5, <1>6, <1>8 DEF FiresBefore
  <2>2. CASE a # stop.id
    <3>1. PICK i \in 1 .. n + 1 : triggered_stops[i].id = a
      BY <1>3, <1>8 DEF IsTriggered
    <3>2. i # n + 1
      BY <2>2, <3>1, <1>3
    <3>3. i \in 1 .. n
      BY <3>1, <3>2
    <3> QED  BY <3>1, <3>3, <1>3, <1>6, <1>8 DEF FiresBefore, IsTriggered
  <2> QED  BY <2>1, <2>2
<1>9. ASSUME NEW i \in 1 .. n + 1, NEW j \in 1 .. n + 1,
             i < j, triggered_stops[i].id = a, triggered_stops[j].id = b
      PROVE  FiresBefore(a, b)'
  <2>1. i \in 1 .. n /\ triggered_stops'[i].id = a
    BY <1>3, <1>9
  <2>2. CASE j = n + 1
    <3>1. b = stop.id
      BY <2>2, <1>3, <1>9
    <3> QED  BY <2>1, <3>1, <1>3, <1>5 DEF FiresBefore, IsTriggered, IsDormant
  <2>3. CASE j # n + 1
    BY <2>1, <2>3, <1>3, <1>9 DEF FiresBefore
  <2> QED  BY <2>2, <2>3
<1> QED  BY <1>3, <1>7, <1>8, <1>9 DEF FiresBefore

LEMMA OrderCallKeepsFiring ==
  ASSUME NEW t \in Times, OrderCall(t)
  PROVE  FiringKept
<1>1. UNCHANGED <<dormant, triggered_stops>>
  BY DEF OrderCall, add_order, cancel_order_refused, cancel_order, modify_order_refused,
         modify_order_cancels, modify_order_in_place, modify_order_replaces, CancelRest, Refuse,
         Finish, entryVars, stopVars, queueVars
<1> QED  BY <1>1, SameStopsKeepFiring

LEMMA StopCallKeepsFiring ==
  ASSUME BookInv, NEW t \in Times, StopCall(t)
  PROVE  FiringKept
<1>1. ASSUME NEW stop \in NewStops, place_stop_order(stop, t) PROVE FiringKept
  BY <1>1, ArgumentsTyped, PlaceStopKeepsFiring
<1>2. ASSUME NEW target \in Targets, cancel_stop_order(target.id, target.requester, t)
      PROVE  FiringKept
  BY <1>2, ArgumentsTyped, CancelStopKeepsFiring
<1>3. ASSUME NEW target \in Targets, NEW a \in StopAmendments,
             modify_stop_order(target.id, target.requester, a, t)
      PROVE  FiringKept
  BY <1>3, ArgumentsTyped, ModifyStopKeepsFiring
<1>4. ASSUME NEW stop, place_stop_order_refused(stop, t) PROVE FiringKept
  BY <1>4, SameStopsKeepFiring
     DEF place_stop_order_refused, Finish, entryVars, stopVars, queueVars
<1>5. ASSUME NEW id, NEW requester, cancel_stop_order_refused(id, requester, t) PROVE FiringKept
  BY <1>5, SameStopsKeepFiring
     DEF cancel_stop_order_refused, Refuse, Finish, entryVars, stopVars, queueVars
<1>6. ASSUME NEW id, NEW requester, NEW a, modify_stop_order_refused(id, requester, a, t)
      PROVE  FiringKept
  BY <1>6, SameStopsKeepFiring
     DEF modify_stop_order_refused, Refuse, Finish, entryVars, stopVars, queueVars
<1> QED  BY <1>1, <1>2, <1>3, <1>4, <1>5, <1>6 DEF StopCall

LEMMA StepKeepsFiring ==
  ASSUME BookInv, Step
  PROVE  FiringKept
<1>1. CASE EnterRefused \/ EnterAccepted
  BY <1>1, SameStopsKeepFiring DEF EnterRefused, EnterAccepted, stopVars, queueVars
<1>2. CASE Walk
  <2>1. UNCHANGED <<dormant, triggered_stops>>
    BY <1>2 DEF Walk, WalkEnds, CollarStops, SelfTradeStops, BandHalts, BandStops, Fill, StopQuietly,
                Stop, stopVars, queueVars
  <2> QED  BY <2>1, SameStopsKeepFiring
<1>3. CASE SettleFilled \/ SettleRests \/ SettleExpires
  BY <1>3, SameStopsKeepFiring
     DEF SettleFilled, SettleRests, SettleExpires, Settle, stopVars, queueVars
<1>4. CASE WakeEnds \/ FireEnds \/ Return
  BY <1>4, SameStopsKeepFiring DEF WakeEnds, FireEnds, Return, stopVars, queueVars
<1> QED
  BY <1>1, <1>2, <1>3, <1>4, WakeKeepsFiring, FireKeepsFiring, SendBackKeepsFiring DEF Step

\* Stops fire in the order of their keys, through waking, a halt in the middle of
\* a cascade and the way back (check_and_trigger_stops, insert_dormant_stop).
THEOREM StopsFireInOrder == Spec => FiringOrderKept
<1>1. ASSUME BookInv, [Next]_vars PROVE FiringKept
  <2>1. CASE UNCHANGED vars
    BY <2>1, SameStopsKeepFiring DEF vars, stopVars, queueVars
  <2> QED  BY <1>1, <2>1, OrderCallKeepsFiring, StopCallKeepsFiring, StepKeepsFiring DEF Next
<1>2. BookInv /\ [Next]_vars =>
        [\A a, b \in Ids : FiresBefore(a, b) /\ IsWaiting(a)' /\ IsWaiting(b)' =>
           \/ FiresBefore(a, b)'
           \/ pc = "idle" /\ dormant'[a].priority > dormant[a].priority
                /\ ~StopKeepsPlace(a, dormant'[a].stop)
           \/ pc = "wake" /\ a \notin Woken]_vars
  BY <1>1 DEF FiringKept
<1> QED  BY <1>2, BookInvariant, PTL DEF Spec, FiringOrderKept

-----------------------------------------------------------------------------
(* Stops that trades reach *)

\* The prices of the call's trades so far.
TradePrices == {events[i].price : i \in {j \in DOMAIN events : events[j].kind = "Trade"}}

\* The walk that traded at p has not woken its stops yet.
StillToWake(p) ==
  /\ pc \in {"match", "settle", "wake"}
  /\ trades # None
  /\ trades.low <= p /\ p <= trades.high

CallStartsClean == pc = "idle" => events = <<>>

\* Only the entry that begins a call finds a halt.
HaltedEntryClean == pc = "enter" /\ halted => TradePrices = {}

\* A dormant stop that a trade of the call reached is in the range of the walk.
ReachedAreWoken ==
  /\ TradePrices \subseteq Int
  /\ ~halted => \A p \in TradePrices : \A id \in Ids :
       IsDormant(id) /\ Reached(dormant[id].stop, p, p) => StillToWake(p)

SweepInv == HaltInv /\ CallStartsClean /\ HaltedEntryClean /\ ReachedAreWoken

\* An event joins the events of the call.
LEMMA EmitsPrice ==
  ASSUME BookInv, NEW e, Emit(e)
  PROVE  /\ TradePrices' \subseteq TradePrices \cup {e.price}
         /\ e.kind # "Trade" => TradePrices' \subseteq TradePrices
<1>1. events \in Seq(EngineEvent) /\ events' = Append(events, e)
  BY DEF BookInv, CallInv, CallTypeOK, Emit
<1>2. /\ DOMAIN events' = DOMAIN events \cup {Len(events) + 1}
      /\ \A i \in DOMAIN events : events'[i] = events[i]
      /\ events'[Len(events) + 1] = e
  BY <1>1
<1> QED  BY <1>2 DEF TradePrices

LEMMA EntryEmitsNoPrice ==
  ASSUME BookInv, NEW t, NEW e, e.kind # "Trade",
         events' \in {EventsAfterResume(t), Append(EventsAfterResume(t), e)}
  PROVE  TradePrices' \subseteq TradePrices
<1> DEFINE resumed == EventsAfterResume(t)
<1>1. events \in Seq(EngineEvent) /\ ResumedEvent.kind = "Resumed"
  BY DEF BookInv, CallInv, CallTypeOK, ResumedEvent
<1>2. ResumedEvent \in EngineEvent
  BY DEF ResumedEvent, EngineEvent, EventKind, Sides, Prices, RejectReason
<1>3. /\ resumed \in Seq(EngineEvent)
      /\ \A i \in DOMAIN resumed : resumed[i].kind = "Trade" =>
           i \in DOMAIN events /\ resumed[i] = events[i]
  BY <1>1, <1>2 DEF EventsAfterResume
<1> HIDE DEF resumed
<1>4. ASSUME NEW i \in DOMAIN events', events'[i].kind = "Trade"
      PROVE  i \in DOMAIN events /\ events'[i] = events[i]
  BY <1>3, <1>4 DEF resumed
<1> QED  BY <1>4 DEF TradePrices

\* A call begins without events, and its first step neither trades nor walks.
LEMMA CallsKeepSweep ==
  ASSUME SweepInv, NEW t \in Times, OrderCall(t) \/ StopCall(t)
  PROVE  CallStartsClean' /\ HaltedEntryClean' /\ ReachedAreWoken'
<1>1. BookInv /\ pc = "idle"
  BY DEF SweepInv, HaltInv, OrderCall, StopCall, Call, add_order, cancel_order_refused, cancel_order,
         modify_order_refused, modify_order_cancels, modify_order_in_place, modify_order_replaces,
         place_stop_order_refused, place_stop_order, cancel_stop_order_refused, cancel_stop_order,
         modify_stop_order_refused, modify_stop_order, Refuse
<1>2. events = <<>>
  BY <1>1 DEF SweepInv, CallStartsClean
<1>3. NoNewTrade
  BY <1>1, OrderCallTradesNot, StopCallTradesNot
<1>4. TradePrices' = {}
  BY <1>2, <1>3 DEF TradePrices, NoNewTrade, Trading
<1>5. pc' \in {"enter", "done"}
  BY CallsKeepWalkUnhalted
<1> QED  BY <1>4, <1>5 DEF CallStartsClean, HaltedEntryClean, ReachedAreWoken

\* Nothing trades, no stop is added, and no halt ends: what was reached is woken
\* as before, if the walk and its range are still there.
LEMMA QuietKeepsSweep ==
  ASSUME SweepInv, TradePrices' \subseteq TradePrices, UNCHANGED dormant,
         halted => halted' \/ TradePrices = {},
         \/ \A p \in TradePrices : StillToWake(p) => StillToWake(p)'
         \/ halted'
         \/ \A p \in TradePrices : ~StillToWake(p)
  PROVE  ReachedAreWoken'
<1>1. halted \in BOOLEAN
  BY DEF SweepInv, HaltInv, BookInv, CallInv, FlagsTypeOK
<1>2. TradePrices \subseteq Int
  BY DEF SweepInv, ReachedAreWoken
<1>3. ASSUME ~halted', NEW p \in TradePrices', NEW id \in Ids, IsDormant(id)',
             Reached(dormant'[id].stop, p, p)
      PROVE  StillToWake(p)'
  <2>1. p \in TradePrices /\ ~halted
    BY <1>3
  <2>2. IsDormant(id) /\ Reached(dormant[id].stop, p, p)
    BY <1>3 DEF IsDormant
  <2>3. StillToWake(p)
    BY <2>1, <2>2 DEF SweepInv, ReachedAreWoken
  <2> QED  BY <1>3, <2>1, <2>3
<1> QED  BY <1>2, <1>3 DEF ReachedAreWoken, Reached

LEMMA EntryKeepsSweep ==
  ASSUME SweepInv, EnterRefused \/ EnterAccepted
  PROVE  CallStartsClean' /\ HaltedEntryClean' /\ ReachedAreWoken'
<1>1. BookInv /\ pc = "enter" /\ UNCHANGED dormant
  BY DEF SweepInv, HaltInv, EnterRefused, EnterAccepted, stopVars
<1>2. TradePrices' \subseteq TradePrices
  <2> DEFINE rejected == [OrderEvent("Rejected", incoming) EXCEPT !.reject_reason = EntryRefusal(incoming)]
  <2>1. rejected.kind # "Trade" /\ OrderEvent("Accepted", incoming).kind # "Trade"
    BY DEF OrderEvent
  <2>2. CASE EnterRefused
    <3>1. events' \in {EventsAfterResume(now), Append(EventsAfterResume(now), rejected)}
      BY <2>2 DEF EnterRefused
    <3> QED  BY <1>1, <2>1, <3>1, EntryEmitsNoPrice
  <2>3. CASE EnterAccepted
    BY <1>1, <2>1, <2>3, EntryEmitsNoPrice DEF EnterAccepted
  <2> QED  BY <2>2, <2>3
<1>3. halted' = (halted /\ ~HaltIsOver(now)) /\ halted \in BOOLEAN
  BY DEF EnterRefused, EnterAccepted, Resume, SweepInv, HaltInv, BookInv, CallInv, FlagsTypeOK
<1>4. pc' \in {"match", "fire", "done"}
  BY DEF EnterRefused, EnterAccepted, AfterEntry
<1>5. halted => TradePrices = {}
  BY <1>1 DEF SweepInv, HaltedEntryClean
<1>6. \A p \in TradePrices : ~StillToWake(p)
  BY <1>1 DEF StillToWake
<1>7. ReachedAreWoken'
  BY <1>1, <1>2, <1>3, <1>5, <1>6, QuietKeepsSweep
<1> QED  BY <1>4, <1>7 DEF CallStartsClean, HaltedEntryClean

\* A walk that stops leaves its range to the stops it has reached.
LEMMA StopKeepsSweep ==
  ASSUME SweepInv, NEW p,
         WalkEnds \/ CollarStops(p) \/ SelfTradeStops(p) \/ BandHalts(p) \/ BandStops(p)
  PROVE  CallStartsClean' /\ HaltedEntryClean' /\ ReachedAreWoken'
<1>1. BookInv /\ pc = "match" /\ pc' = "settle" /\ UNCHANGED <<dormant, trades>> /\ ~halted
  BY DEF SweepInv, HaltInv, WalkUnhalted, WalkEnds, CollarStops, SelfTradeStops, BandHalts, BandStops, AtLevel,
         StopQuietly, Stop, stopVars
<1>2. TradePrices' \subseteq TradePrices
  <2> DEFINE e == [OrderEvent("Halted", incoming) EXCEPT !.price = p]
  <2>1. e.kind # "Trade"
    BY DEF OrderEvent
  <2>2. CASE BandHalts(p)
    <3>1. Emit(e)
      BY <2>2 DEF BandHalts
    <3> QED  BY <1>1, <2>1, <3>1, EmitsPrice
  <2>3. CASE ~BandHalts(p)
    <3>1. UNCHANGED events
      BY <2>3 DEF WalkEnds, CollarStops, SelfTradeStops, BandStops, StopQuietly
    <3> QED  BY <3>1 DEF TradePrices
  <2> QED  BY <2>2, <2>3
<1>3. \A q \in TradePrices : StillToWake(q) => StillToWake(q)'
  BY <1>1 DEF StillToWake
<1>4. ReachedAreWoken'
  BY <1>1, <1>2, <1>3, QuietKeepsSweep
<1> QED  BY <1>1, <1>4 DEF CallStartsClean, HaltedEntryClean

\* A fill widens the range to its price.
LEMMA FillKeepsSweep ==
  ASSUME SweepInv, NEW p, Fill(p)
  PROVE  CallStartsClean' /\ HaltedEntryClean' /\ ReachedAreWoken'
<1>1. BookInv /\ AtLevel(p) /\ pc = "match" /\ pc' = "match" /\ UNCHANGED <<dormant, halted>> /\ ~halted
  BY DEF SweepInv, HaltInv, WalkUnhalted, Fill, AtLevel, NoteBand, stopVars
<1>2. p \in Int /\ HeadOf(p).price = p
  BY <1>1, LevelHasHead
<1>3. trades \in TradeRange \cup {None} /\ TradePrices \subseteq Int
  BY <1>1 DEF BookInv, CallInv, CallTypeOK, SweepInv, ReachedAreWoken
<1>4. TradePrices' \subseteq TradePrices \cup {p}
  <2> DEFINE passive == HeadOf(p)
             quantity == IF incoming.quantity < passive.quantity
                         THEN incoming.quantity ELSE passive.quantity
             e == TradeEvent(incoming, passive, quantity)
  <2>1. Emit(e)
    BY DEF Fill
  <2>2. e.price = p
    BY <1>2 DEF TradeEvent
  <2> HIDE DEF e
  <2> QED  BY <1>1, <2>1, <2>2, EmitsPrice
<1>5. /\ trades' # None /\ trades'.low \in Int /\ trades'.high \in Int
      /\ trades'.low <= p /\ p <= trades'.high
      /\ trades # None => trades'.low <= trades.low /\ trades.high <= trades'.high
                            /\ trades.low \in Int /\ trades.high \in Int
  BY <1>2, <1>3, NoneIsApart DEF Fill, AddTrade, TradeRange
<1>6. ASSUME NEW q \in TradePrices', NEW id \in Ids, IsDormant(id), Reached(dormant[id].stop, q, q)
      PROVE  StillToWake(q)'
  <2>1. CASE q = p
    BY <1>1, <1>5, <2>1 DEF StillToWake
  <2>2. CASE q # p
    <3>1. q \in TradePrices /\ q \in Int
      BY <1>3, <1>4, <2>2
    <3>2. StillToWake(q)
      BY <1>1, <1>6, <3>1 DEF SweepInv, ReachedAreWoken
    <3> QED  BY <1>1, <1>5, <3>1, <3>2 DEF StillToWake
  <2> QED  BY <2>1, <2>2
<1>7. TradePrices' \subseteq Int
  BY <1>2, <1>3, <1>4
<1>8. ReachedAreWoken'
  BY <1>1, <1>6, <1>7 DEF ReachedAreWoken, IsDormant, Reached
<1> QED  BY <1>1, <1>8 DEF CallStartsClean, HaltedEntryClean

\* The trades of an unhalted walk go on to wake, if there are any.
LEMMA SettleKeepsSweep ==
  ASSUME SweepInv, SettleFilled \/ SettleRests \/ SettleExpires
  PROVE  CallStartsClean' /\ HaltedEntryClean' /\ ReachedAreWoken'
<1>1. /\ BookInv /\ pc = "settle" /\ UNCHANGED <<dormant, halted>>
      /\ trades' = IF halted THEN None ELSE trades
      /\ pc' = IF trades # None /\ ~halted THEN "wake" ELSE AfterEntry
  BY DEF SweepInv, HaltInv, SettleFilled, SettleRests, SettleExpires, Settle, stopVars, bandVars
<1>2. TradePrices' \subseteq TradePrices
  <2> DEFINE rested == OrderEvent("Rested", [incoming EXCEPT !.price = RestPrice])
             expired == OrderEvent("Expired", [incoming EXCEPT !.price = RestPrice])
  <2>1. rested.kind # "Trade" /\ expired.kind # "Trade"
    BY DEF OrderEvent
  <2>2. Emit(rested) \/ Emit(expired) \/ UNCHANGED events
    BY DEF SettleFilled, SettleRests, SettleExpires
  <2>3. CASE UNCHANGED events
    BY <2>3 DEF TradePrices
  <2> HIDE DEF rested, expired
  <2> QED  BY <1>1, <2>1, <2>2, <2>3, EmitsPrice
<1>3. halted' \/ \A p \in TradePrices : StillToWake(p) => StillToWake(p)'
  BY <1>1 DEF StillToWake
<1>4. ReachedAreWoken'
  BY <1>1, <1>2, <1>3, QuietKeepsSweep
<1>5. pc' \in {"wake", "fire", "done"}
  BY <1>1 DEF AfterEntry
<1> QED  BY <1>4, <1>5 DEF CallStartsClean, HaltedEntryClean

\* Waking ends when no stop within the range is dormant.
LEMMA WakeKeepsSweep ==
  ASSUME SweepInv, WakeEnds \/ \E id \in Ids : WakeNext(id)
  PROVE  CallStartsClean' /\ HaltedEntryClean' /\ ReachedAreWoken'
<1>1. BookInv /\ pc = "wake" /\ UNCHANGED <<halted, events>>
  BY DEF SweepInv, HaltInv, WakeEnds, WakeNext, bandVars
<1>2. TradePrices' = TradePrices /\ TradePrices \subseteq Int
  BY <1>1 DEF TradePrices, SweepInv, ReachedAreWoken
<1>3. CASE WakeEnds
  <2>1. trades \in TradeRange /\ Woken = {} /\ pc' = "fire" /\ UNCHANGED dormant
    BY <1>1, <1>3 DEF WakeEnds, BookInv, CallInv, CallTypeOK, stopVars
  <2>2. ASSUME ~halted, NEW p \in TradePrices, NEW id \in Ids, IsDormant(id),
               Reached(dormant[id].stop, p, p)
        PROVE  FALSE
    <3>1. StillToWake(p)
      BY <2>2 DEF SweepInv, ReachedAreWoken
    <3>2. dormant[id].stop.stop_price \in Int
      BY <1>1, <2>2, NoneIsApart
         DEF BookInv, StopsInv, StopsTypeOK, DormantStop, StopOrder, IsDormant
    <3>3. trades.low \in Int /\ trades.high \in Int /\ p \in Int
      BY <1>2, <2>1, <2>2 DEF TradeRange
    <3>4. Reached(dormant[id].stop, trades.low, trades.high)
      BY <2>2, <3>1, <3>2, <3>3 DEF StillToWake, Reached
    <3> QED  BY <2>1, <2>2, <3>4 DEF Woken, IsDormant
  <2>3. ReachedAreWoken'
    BY <1>1, <1>2, <2>1, <2>2 DEF ReachedAreWoken, IsDormant, Reached
  <2> QED  BY <2>1, <2>3 DEF CallStartsClean, HaltedEntryClean
<1>4. ASSUME NEW woken \in Ids, WakeNext(woken)
      PROVE  CallStartsClean' /\ HaltedEntryClean' /\ ReachedAreWoken'
  <2>1. /\ UNCHANGED <<pc, trades>> /\ dormant' = [dormant EXCEPT ![woken] = None]
        /\ dormant \in [Ids -> DormantStop \cup {None}]
    BY <1>1, <1>4 DEF WakeNext, walkVars, BookInv, StopsInv, StopsTypeOK
  <2>2. ASSUME ~halted, NEW p \in TradePrices, NEW id \in Ids, dormant'[id] # None,
               Reached(dormant'[id].stop, p, p)
        PROVE  StillToWake(p)'
    <3>1. dormant'[id] = dormant[id]
      BY <2>1, <2>2
    <3>2. StillToWake(p)
      BY <2>2, <3>1 DEF SweepInv, ReachedAreWoken, IsDormant
    <3> QED  BY <2>1, <3>2 DEF StillToWake
  <2>3. ReachedAreWoken'
    BY <1>1, <1>2, <2>2 DEF ReachedAreWoken, IsDormant, Reached
  <2> QED  BY <1>1, <2>1, <2>3 DEF CallStartsClean, HaltedEntryClean
<1> QED  BY <1>3, <1>4

\* The drain loop runs when everything reached is woken, or else the book is halted.
LEMMA DrainKeepsSweep ==
  ASSUME SweepInv, FireNext \/ SendBack \/ FireEnds
  PROVE  CallStartsClean' /\ HaltedEntryClean' /\ ReachedAreWoken'
<1>1. BookInv /\ pc = "fire" /\ UNCHANGED halted
  BY DEF SweepInv, HaltInv, FireNext, SendBack, FireEnds, bandVars
<1>2. \A p \in TradePrices : ~StillToWake(p)
  BY <1>1 DEF StillToWake
<1>3. TradePrices' \subseteq TradePrices
  <2>1. CASE FireNext
    <3>1. StopEvent("StopTriggered", Head(triggered_stops)).kind # "Trade"
      BY DEF StopEvent
    <3> QED  BY <1>1, <2>1, <3>1, EmitsPrice DEF FireNext
  <2>2. CASE ~FireNext
    <3>1. UNCHANGED events
      BY <2>2 DEF SendBack, FireEnds
    <3> QED  BY <3>1 DEF TradePrices
  <2> QED  BY <2>1, <2>2
<1>4. CASE SendBack
  <2>1. halted' /\ pc' = "fire" /\ TradePrices \subseteq Int
    BY <1>1, <1>4 DEF SendBack, SweepInv, ReachedAreWoken
  <2> QED  BY <1>3, <2>1 DEF CallStartsClean, HaltedEntryClean, ReachedAreWoken
<1>5. CASE FireNext \/ FireEnds
  <2>1. UNCHANGED dormant /\ pc' \in {"enter", "done"} /\ (pc' = "enter" => ~halted)
    BY <1>5 DEF FireNext, FireEnds, Enter, stopVars
  <2>2. ReachedAreWoken'
    BY <1>1, <1>2, <1>3, <2>1, QuietKeepsSweep
  <2> QED  BY <1>1, <2>1, <2>2 DEF CallStartsClean, HaltedEntryClean
<1> QED  BY <1>4, <1>5

LEMMA NextKeepsSweep == SweepInv /\ [Next]_vars => SweepInv'
<1> SUFFICES ASSUME SweepInv, [Next]_vars PROVE SweepInv'
  OBVIOUS
<1>1. HaltInv'
  BY NextKeepsInv, WalkStaysUnhalted DEF SweepInv, HaltInv
<1>2. CASE UNCHANGED vars
  <2>1. UNCHANGED <<pc, events, halted, dormant, trades>>
    BY <1>2 DEF vars, bandVars, stopVars, walkVars
  <2> QED
    BY <1>1, <2>1 DEF SweepInv, CallStartsClean, HaltedEntryClean, ReachedAreWoken, TradePrices,
                      IsDormant, Reached, StillToWake
<1>3. CASE Return
  <2>1. events' = <<>> /\ pc' = "idle" /\ TradePrices' = {}
    BY <1>3 DEF Return, TradePrices
  <2> QED  BY <1>1, <2>1 DEF SweepInv, CallStartsClean, HaltedEntryClean, ReachedAreWoken
<1>4. CASE Step /\ ~Return
  BY <1>1, <1>4, EntryKeepsSweep, StopKeepsSweep, FillKeepsSweep, SettleKeepsSweep, WakeKeepsSweep,
     DrainKeepsSweep DEF Step, Walk, SweepInv
<1>5. CASE \E t \in Times : OrderCall(t) \/ StopCall(t)
  BY <1>1, <1>5, CallsKeepSweep DEF SweepInv
<1> QED  BY <1>2, <1>3, <1>4, <1>5 DEF Next

\* SweepInv holds in every state: a dormant stop that a trade of the call reached
\* is in the range that is still to wake, unless the book is halted.
THEOREM SweepInvariant == Spec => []SweepInv
<1>1. Init => SweepInv
  BY InitEstablishesInv
     DEF Init, SweepInv, HaltInv, WalkUnhalted, CallStartsClean, HaltedEntryClean, ReachedAreWoken,
         TradePrices
<1> QED  BY <1>1, NextKeepsSweep, PTL DEF Spec

\* No trade of a call, of the order itself or of the cascade behind it, leaves a
\* stop dormant that it reached, unless a halt broke the call off
\* (check_and_trigger_stops).
THEOREM NoStopIsMissed == Spec => []NoStopMissed
<1>1. SweepInv => NoStopMissed
  BY DEF SweepInv, ReachedAreWoken, NoStopMissed, StillToWake, TradePrices, IsDormant
<1> QED  BY <1>1, SweepInvariant, PTL

-----------------------------------------------------------------------------
(* What the events add up to *)

IsSum(sum, log, kinds, id) ==
  sum = [n \in 0 .. Len(log) |->
           IF n = 0 THEN 0 ELSE sum[n - 1] + Counted(log[n], kinds, id)]

\* The running sums over the log exist, and all end with v.
AddsUpTo(log, kinds, id, v) ==
  /\ \E sum : IsSum(sum, log, kinds, id)
  /\ \A sum : IsSum(sum, log, kinds, id) => sum[Len(log)] = v

LEMMA SumIsTotal ==
  ASSUME NEW log, NEW kinds, NEW id, NEW v, AddsUpTo(log, kinds, id, v)
  PROVE  Total(log, kinds, id) = v
<1> DEFINE S(f) == IsSum(f, log, kinds, id)
<1>1. Total(log, kinds, id) = (CHOOSE f : S(f))[Len(log)]
  BY Zenon DEF Total, IsSum
<1>2. S(CHOOSE f : S(f))
  <2>1. \E f : S(f)
    BY DEF AddsUpTo
  <2> HIDE DEF S
  <2> QED  BY <2>1
<1>3. \A f : S(f) => f[Len(log)] = v
  BY DEF AddsUpTo
<1> HIDE DEF S
<1> QED  BY <1>1, <1>2, <1>3

LEMMA NothingAddsUp ==
  ASSUME NEW kinds, NEW id
  PROVE  AddsUpTo(<<>>, kinds, id, 0)
<1>1. Len(<<>>) = 0 /\ \A n \in 0 .. 0 : n = 0
  OBVIOUS
<1>2. IsSum([n \in 0 .. 0 |-> 0], <<>>, kinds, id)
  <2> DEFINE zero == [n \in 0 .. 0 |-> 0]
             sums == [n \in 0 .. 0 |-> IF n = 0 THEN 0 ELSE zero[n - 1] + Counted(<<>>[n], kinds, id)]
  <2>1. zero = sums
    BY <1>1
  <2> QED  BY <1>1, <2>1 DEF IsSum
<1>3. ASSUME NEW sum, IsSum(sum, <<>>, kinds, id) PROVE sum[0] = 0
  <2>1. sum = [n \in 0 .. 0 |-> IF n = 0 THEN 0 ELSE sum[n - 1] + Counted(<<>>[n], kinds, id)]
    BY <1>1, <1>3 DEF IsSum
  <2> QED  BY <2>1
<1> QED  BY <1>1, <1>2, <1>3 DEF AddsUpTo

LEMMA SumGrows ==
  ASSUME NEW S, NEW log \in Seq(S), NEW e \in S, NEW kinds, NEW id, NEW v,
         AddsUpTo(log, kinds, id, v)
  PROVE  AddsUpTo(Append(log, e), kinds, id, v + Counted(e, kinds, id))
<1>0. PICK k \in Nat : k = Len(log)
  OBVIOUS
<1>1. PICK longer : longer = Append(log, e)
  OBVIOUS
<1>2. /\ Len(longer) = k + 1 /\ longer[k + 1] = e
      /\ \A n \in 1 .. k : longer[n] = log[n]
  BY <1>0, <1>1
<1>3. PICK c : c = [n \in 1 .. k + 1 |-> Counted(longer[n], kinds, id)]
  OBVIOUS
<1>4. c[k + 1] = Counted(e, kinds, id) /\ \A n \in 1 .. k : c[n] = Counted(log[n], kinds, id)
  <2>1. \A n \in 1 .. k + 1 : c[n] = Counted(longer[n], kinds, id)
    BY <1>3
  <2>2. k + 1 \in 1 .. k + 1 /\ \A n \in 1 .. k : n \in 1 .. k + 1
    OBVIOUS
  <2> QED  BY <1>2, <2>1, <2>2
<1>5. \A f : IsSum(f, log, kinds, id) <=> f = [n \in 0 .. k |-> IF n = 0 THEN 0 ELSE f[n - 1] + c[n]]
  <2> SUFFICES ASSUME NEW f
               PROVE  [n \in 0 .. k |-> IF n = 0 THEN 0 ELSE f[n - 1] + c[n]]
                        = [n \in 0 .. k |-> IF n = 0 THEN 0 ELSE f[n - 1] + Counted(log[n], kinds, id)]
    BY <1>0, Zenon DEF IsSum
  <2>1. \A n \in 0 .. k : n = 0 \/ n \in 1 .. k
    OBVIOUS
  <2> QED  BY <1>4, <2>1
<1>6. \A f : IsSum(f, longer, kinds, id) <=>
               f = [n \in 0 .. k + 1 |-> IF n = 0 THEN 0 ELSE f[n - 1] + c[n]]
  <2>1. ASSUME NEW f
        PROVE  [n \in 0 .. k + 1 |-> IF n = 0 THEN 0 ELSE f[n - 1] + c[n]]
                 = [n \in 0 .. k + 1 |->
                      IF n = 0 THEN 0 ELSE f[n - 1] + Counted(longer[n], kinds, id)]
    <3>1. \A n \in 0 .. k + 1 : n = 0 \/ n \in 1 .. k + 1
      OBVIOUS
    <3> QED  BY <1>3, <3>1
  <2>2. ASSUME NEW f
        PROVE  IsSum(f, longer, kinds, id) <=>
                 f = [n \in 0 .. k + 1 |-> IF n = 0 THEN 0 ELSE f[n - 1] + c[n]]
    <3>1. Len(longer) = k + 1
      BY <1>2
    <3> QED  BY ONLY <2>1, <3>1 DEF IsSum
  <2> QED  BY <2>2
<1>7. PICK f : IsSum(f, log, kinds, id)
  BY DEF AddsUpTo
<1>8. /\ DOMAIN f = 0 .. k /\ f[k] = v
      /\ \A n \in 0 .. k : f[n] = IF n = 0 THEN 0 ELSE f[n - 1] + c[n]
  BY <1>0, <1>5, <1>7 DEF AddsUpTo
<1> DEFINE g == [n \in 0 .. k + 1 |-> IF n = k + 1 THEN v + c[k + 1] ELSE f[n]]
<1>9. IsSum(g, longer, kinds, id)
  <2>1. ASSUME NEW n \in 0 .. k + 1
        PROVE  g[n] = IF n = 0 THEN 0 ELSE g[n - 1] + c[n]
    <3>1. CASE n = k + 1
      <4>1. n - 1 = k /\ k \in 0 .. k + 1 /\ k # k + 1 /\ n # 0
        BY <3>1
      <4>2. g[n] = v + c[k + 1] /\ g[k] = f[k]
        BY <3>1, <4>1
      <4> QED  BY <1>8, <3>1, <4>1, <4>2
    <3>2. CASE n # k + 1
      <4>1. n \in 0 .. k /\ g[n] = f[n]
        BY <3>2
      <4>2. n # 0 => n - 1 \in 0 .. k + 1 /\ n - 1 # k + 1
        BY <3>2
      <4>3. n # 0 => g[n - 1] = f[n - 1]
        BY <4>2
      <4> QED  BY <1>8, <4>1, <4>3
    <3> QED  BY <3>1, <3>2
  <2>2. g = [n \in 0 .. k + 1 |-> IF n = 0 THEN 0 ELSE g[n - 1] + c[n]]
    BY <2>1
  <2> QED  BY <1>6, <2>2
<1>10. ASSUME NEW h, IsSum(h, longer, kinds, id) PROVE h[k + 1] = v + c[k + 1]
  <2>1. \A n \in 0 .. k + 1 : h[n] = IF n = 0 THEN 0 ELSE h[n - 1] + c[n]
    BY <1>6, <1>10
  <2> DEFINE r == [n \in 0 .. k |-> h[n]]
  <2>2. ASSUME NEW n \in 0 .. k PROVE r[n] = IF n = 0 THEN 0 ELSE r[n - 1] + c[n]
    <3>1. n \in 0 .. k + 1 /\ (n # 0 => n - 1 \in 0 .. k)
      OBVIOUS
    <3> QED  BY <2>1, <3>1
  <2>3. r = [n \in 0 .. k |-> IF n = 0 THEN 0 ELSE r[n - 1] + c[n]]
    BY <2>2
  <2>4. IsSum(r, log, kinds, id)
    BY <1>5, <2>3
  <2>5. r[k] = v /\ r[k] = h[k]
    BY <1>0, <2>4 DEF AddsUpTo
  <2>6. k + 1 \in 0 .. k + 1 /\ k + 1 # 0 /\ (k + 1) - 1 = k
    OBVIOUS
  <2> QED  BY <2>1, <2>5, <2>6
<1>11. AddsUpTo(longer, kinds, id, v + c[k + 1])
  <2> HIDE DEF g
  <2> QED  BY <1>2, <1>9, <1>10 DEF AddsUpTo
<1> QED  BY <1>1, <1>4, <1>11

\* The log adds up under every id.
Summed(log) == \A kinds, id : \E v \in Int : AddsUpTo(log, kinds, id, v)

LEMMA TotalGrows ==
  ASSUME NEW log \in Seq(EngineEvent), NEW e \in EngineEvent, Summed(log)
  PROVE  /\ Summed(Append(log, e))
         /\ \A kinds, id : /\ Total(log, kinds, id) \in Int
                           /\ Total(Append(log, e), kinds, id)
                                = Total(log, kinds, id) + Counted(e, kinds, id)
<1>1. ASSUME NEW kinds, NEW id
      PROVE  /\ \E v \in Int : AddsUpTo(Append(log, e), kinds, id, v)
             /\ Total(log, kinds, id) \in Int
             /\ Total(Append(log, e), kinds, id) = Total(log, kinds, id) + Counted(e, kinds, id)
  <2>1. PICK v \in Int : AddsUpTo(log, kinds, id, v)
    BY DEF Summed
  <2>2. AddsUpTo(Append(log, e), kinds, id, v + Counted(e, kinds, id))
    BY <2>1, SumGrows
  <2>3. Total(log, kinds, id) = v
    BY <2>1, SumIsTotal
  <2>4. Total(Append(log, e), kinds, id) = v + Counted(e, kinds, id)
    BY <2>2, SumIsTotal
  <2>5. v + Counted(e, kinds, id) \in Int
    BY DEF Counted, EngineEvent
  <2> QED  BY <2>2, <2>3, <2>4, <2>5
<1> QED  BY <1>1 DEF Summed

LEMMA NothingTotals ==
  Summed(<<>>) /\ \A kinds, id : Total(<<>>, kinds, id) = 0
BY NothingAddsUp, SumIsTotal DEF Summed

\* What the log says was accepted under an id, what became of it, and what of
\* it was refused.
AcceptedIn(log, id) == Total(log, {"Accepted"}, id)
SettledIn(log, id) == Total(log, {"Trade", "Rested", "Expired"}, id)
RefusedIn(log, id) == Total(log, {"Rejected", "Expired"}, id)

\* The log has become longer by e, as far as accounts go.
Gains(log, longer, e) ==
  /\ Summed(longer)
  /\ \A id \in Ids :
       LET n == IF e.id = id THEN e.quantity ELSE 0 IN
       /\ AcceptedIn(log, id) \in Int /\ SettledIn(log, id) \in Int /\ RefusedIn(log, id) \in Int
       /\ AcceptedIn(longer, id) = AcceptedIn(log, id) + (IF e.kind = "Accepted" THEN n ELSE 0)
       /\ SettledIn(longer, id) = SettledIn(log, id)
            + (IF e.kind \in {"Trade", "Rested", "Expired"} THEN n ELSE 0)
       /\ RefusedIn(longer, id) = RefusedIn(log, id)
            + (IF e.kind \in {"Rejected", "Expired"} THEN n ELSE 0)

LEMMA LogGains ==
  ASSUME NEW log \in Seq(EngineEvent), NEW e \in EngineEvent, Summed(log)
  PROVE  Gains(log, Append(log, e), e)
<1>1. PICK longer : longer = Append(log, e)
  OBVIOUS
<1>2. /\ Summed(longer)
      /\ \A kinds, id : /\ Total(log, kinds, id) \in Int
                        /\ Total(longer, kinds, id) = Total(log, kinds, id) + Counted(e, kinds, id)
  BY <1>1, TotalGrows
<1>3. ASSUME NEW id \in Ids, NEW n, n = IF e.id = id THEN e.quantity ELSE 0
      PROVE  /\ AcceptedIn(log, id) \in Int /\ SettledIn(log, id) \in Int
             /\ RefusedIn(log, id) \in Int
             /\ AcceptedIn(longer, id) = AcceptedIn(log, id) + (IF e.kind = "Accepted" THEN n ELSE 0)
             /\ SettledIn(longer, id) = SettledIn(log, id)
                  + (IF e.kind \in {"Trade", "Rested", "Expired"} THEN n ELSE 0)
             /\ RefusedIn(longer, id) = RefusedIn(log, id)
                  + (IF e.kind \in {"Rejected", "Expired"} THEN n ELSE 0)
  <2>1. \A kinds : Counted(e, kinds, id) = IF e.kind \in kinds THEN n ELSE 0
    BY <1>3 DEF Counted
  <2>2. /\ AcceptedIn(longer, id) = AcceptedIn(log, id) + Counted(e, {"Accepted"}, id)
        /\ SettledIn(longer, id) = SettledIn(log, id) + Counted(e, {"Trade", "Rested", "Expired"}, id)
        /\ RefusedIn(longer, id) = RefusedIn(log, id) + Counted(e, {"Rejected", "Expired"}, id)
        /\ AcceptedIn(log, id) \in Int /\ SettledIn(log, id) \in Int /\ RefusedIn(log, id) \in Int
    BY <1>2 DEF AcceptedIn, SettledIn, RefusedIn
  <2> QED  BY <2>1, <2>2
<1>4. Gains(log, longer, e)
  BY <1>2, <1>3 DEF Gains
<1> QED  BY <1>1, <1>4

\* The accounts of two logs are the same.
SameAccounts(log, longer) ==
  /\ Summed(longer)
  /\ \A id \in Ids : /\ AcceptedIn(longer, id) = AcceptedIn(log, id)
                     /\ SettledIn(longer, id) = SettledIn(log, id)
                     /\ RefusedIn(longer, id) = RefusedIn(log, id)

Accounted == {"Accepted", "Trade", "Rested", "Expired", "Rejected"}

LEMMA GainsNothing ==
  ASSUME NEW log, NEW longer, NEW e, Gains(log, longer, e), e.kind \notin Accounted
  PROVE  SameAccounts(log, longer)
BY DEF Gains, SameAccounts, Accounted

\* The invariant, and that the call's events add up.
LedgerInv == BookInv /\ Summed(events) /\ AccountsInv

LEMMA NoEventSameAccounts ==
  ASSUME LedgerInv, UNCHANGED events
  PROVE  SameAccounts(events, events')
BY DEF LedgerInv, SameAccounts

LEMMA EmitGains ==
  ASSUME LedgerInv, BookInv', NEW e, Emit(e)
  PROVE  Gains(events, events', e)
<1>1. events \in Seq(EngineEvent) /\ events' \in Seq(EngineEvent) /\ events' = Append(events, e)
  BY DEF LedgerInv, BookInv, CallInv, CallTypeOK, Emit
<1>2. e \in EngineEvent
  <2>1. events'[Len(events) + 1] = e /\ Len(events) + 1 \in DOMAIN events'
    BY <1>1
  <2> QED  BY <1>1, <2>1
<1> QED  BY <1>1, <1>2, LogGains DEF LedgerInv

\* The event of an entry, after the one of a halt that is over.
LEMMA EntryGains ==
  ASSUME LedgerInv, BookInv', NEW t, NEW e, events' = Append(EventsAfterResume(t), e)
  PROVE  Gains(events, events', e)
<1>1. CASE ~HaltIsOver(t)
  BY <1>1, EmitGains DEF EventsAfterResume, Emit
<1>2. CASE HaltIsOver(t)
  <2>1. PICK resumed : resumed = Append(events, ResumedEvent)
    OBVIOUS
  <2>2. ResumedEvent \in EngineEvent /\ ResumedEvent.kind = "Resumed"
    BY DEF ResumedEvent, EngineEvent, EventKind, Sides, Prices, RejectReason
  <2>3. events \in Seq(EngineEvent) /\ events' \in Seq(EngineEvent) /\ events' = Append(resumed, e)
    BY <1>2, <2>1 DEF LedgerInv, BookInv, CallInv, CallTypeOK, EventsAfterResume
  <2>4. resumed \in Seq(EngineEvent)
    BY <2>1, <2>2, <2>3
  <2>5. e \in EngineEvent
    <3>1. events'[Len(resumed) + 1] = e /\ Len(resumed) + 1 \in DOMAIN events'
      BY <2>3, <2>4
    <3> QED  BY <2>3, <3>1
  <2>6. Gains(events, resumed, ResumedEvent)
    BY <2>1, <2>2, <2>3, LogGains DEF LedgerInv
  <2>7. SameAccounts(events, resumed)
    BY <2>2, <2>6, GainsNothing DEF Accounted
  <2>8. Gains(resumed, events', e)
    BY <2>3, <2>4, <2>5, <2>7, LogGains DEF SameAccounts
  <2> QED  BY <2>7, <2>8 DEF SameAccounts, Gains
<1> QED  BY <1>1, <1>2

\* The parts of AccountsInv, said of the log.
LEMMA AccountsOfLog ==
  ASSUME NEW id
  PROVE  /\ Quantities({"Accepted"}, id) = AcceptedIn(events, id)
         /\ Quantities({"Trade", "Rested", "Expired"}, id) = SettledIn(events, id)
         /\ Quantities({"Rejected", "Expired"}, id) = RefusedIn(events, id)
         /\ Quantities({"Accepted"}, id)' = AcceptedIn(events', id)
         /\ Quantities({"Trade", "Rested", "Expired"}, id)' = SettledIn(events', id)
         /\ Quantities({"Rejected", "Expired"}, id)' = RefusedIn(events', id)
BY DEF Quantities, AcceptedIn, SettledIn, RefusedIn

LEMMA AccountsNow ==
  ASSUME LedgerInv
  PROVE  /\ \A id \in Ids : AcceptedIn(events, id) = SettledIn(events, id) + Unsettled(id)
         /\ FirstEntry => result = None /\ \A id \in Ids : RefusedIn(events, id) = 0
         /\ result # None /\ result.call = "add" =>
              result.unaccepted_quantity = RefusedIn(events, result.id)
BY AccountsOfLog DEF LedgerInv, AccountsInv, QuantitiesBalance, NothingToldYet, FateIsTold

LEMMA AccountsNext ==
  ASSUME \A id \in Ids : AcceptedIn(events', id) = SettledIn(events', id) + Unsettled(id)',
         FirstEntry' => result' = None /\ \A id \in Ids : RefusedIn(events', id) = 0,
         result' # None /\ result'.call = "add" =>
           result'.unaccepted_quantity = RefusedIn(events', result'.id)
  PROVE  QuantitiesBalance' /\ NothingToldYet' /\ FateIsTold'
<1>1. QuantitiesBalance'
  BY AccountsOfLog DEF QuantitiesBalance
<1>2. NothingToldYet'
  BY AccountsOfLog DEF NothingToldYet
<1>3. FateIsTold'
  BY AccountsOfLog DEF FateIsTold
<1> QED  BY <1>1, <1>2, <1>3

LEMMA ResultTyped ==
  ASSUME BookInv, result # None
  PROVE  result.id \in Ids
BY DEF BookInv, CallInv, CallTypeOK, OrderResult

\* A settled id stays settled: only its own call takes it out of the book, as finished.
StaysSettled == \A id \in Ids : IsResting(id) \/ IsFinished(id) => (IsResting(id) \/ IsFinished(id))'

\* A step of a call that adds nothing to the accounts and leaves the answer alone.
LEMMA QuietKeepsAccounts ==
  ASSUME LedgerInv, SameAccounts(events, events'), pc # "idle", pc # "done", pc' # "idle",
         \A id \in Ids : Unsettled(id)' = Unsettled(id), FirstEntry' <=> FirstEntry,
         UNCHANGED result, StaysSettled
  PROVE  AccountsInv'
<1>1. \A id \in Ids : /\ AcceptedIn(events', id) = AcceptedIn(events, id)
                      /\ SettledIn(events', id) = SettledIn(events, id)
                      /\ RefusedIn(events', id) = RefusedIn(events, id)
  BY DEF SameAccounts
<1>2. result # None => result.id \in Ids
  BY ResultTyped DEF LedgerInv
<1>3. QuantitiesBalance' /\ NothingToldYet' /\ FateIsTold'
  <2>1. \A id \in Ids : AcceptedIn(events', id) = SettledIn(events', id) + Unsettled(id)'
    BY <1>1, AccountsNow
  <2>2. FirstEntry' => result' = None /\ \A id \in Ids : RefusedIn(events', id) = 0
    BY <1>1, AccountsNow
  <2>3. result' # None /\ result'.call = "add" =>
          result'.unaccepted_quantity = RefusedIn(events', result'.id)
    BY <1>1, <1>2, AccountsNow
  <2> QED  BY <2>1, <2>2, <2>3, AccountsNext
<1>4. CallStartsEmpty'
  BY DEF CallStartsEmpty
<1>5. AnswerIsGiven'
  BY DEF LedgerInv, AccountsInv, AnswerIsGiven
<1>6. AnsweredIsSettled'
  BY <1>2 DEF LedgerInv, AccountsInv, AnsweredIsSettled, StaysSettled
<1> QED  BY <1>3, <1>4, <1>5, <1>6 DEF AccountsInv

\* What a call that begins leaves to the accounts: an answer that is no order
\* entry's, or an entry under way.
CallBegins ==
  /\ Summed(events')
  /\ \A id \in Ids : AcceptedIn(events', id) = SettledIn(events', id)
  /\ \/ pc' = "done" /\ result' # None /\ result'.call # "add"
     \/ /\ pc' = "enter" /\ origin' # "stop" /\ UNCHANGED result
        /\ \A id \in Ids : RefusedIn(events', id) = 0

LEMMA CallKeepsAccounts ==
  ASSUME LedgerInv, pc = "idle", CallBegins
  PROVE  AccountsInv'
<1>1. result = None
  BY DEF LedgerInv, AccountsInv, CallStartsEmpty
<1>2. \A id \in Ids : Unsettled(id)' = 0 /\ SettledIn(events', id) \in Int
  <2>1. ASSUME NEW id \in Ids PROVE SettledIn(events', id) \in Int
    <3>1. PICK v \in Int : AddsUpTo(events', {"Trade", "Rested", "Expired"}, id, v)
      BY DEF CallBegins, Summed
    <3> QED  BY <3>1, SumIsTotal DEF SettledIn
  <2> QED  BY <2>1 DEF CallBegins, Unsettled
<1>3. \A id \in Ids : AcceptedIn(events', id) = SettledIn(events', id) + Unsettled(id)'
  BY <1>2 DEF CallBegins
<1>4. FirstEntry' => result' = None /\ \A id \in Ids : RefusedIn(events', id) = 0
  BY <1>1 DEF CallBegins, FirstEntry
<1>5. ~(result' # None /\ result'.call = "add")
  BY <1>1 DEF CallBegins
<1>6. QuantitiesBalance' /\ NothingToldYet' /\ FateIsTold'
  BY <1>3, <1>4, <1>5, AccountsNext
<1>7. CallStartsEmpty' /\ AnswerIsGiven' /\ AnsweredIsSettled'
  BY <1>1, <1>5 DEF CallBegins, CallStartsEmpty, AnswerIsGiven, AnsweredIsSettled, FirstEntry
<1> QED  BY <1>6, <1>7 DEF AccountsInv

\* Between calls the accounts are empty.
LEMMA IdleAccounts ==
  ASSUME LedgerInv, pc = "idle"
  PROVE  \A id \in Ids : /\ AcceptedIn(events, id) = 0 /\ SettledIn(events, id) = 0
                         /\ RefusedIn(events, id) = 0
<1>1. events = <<>>
  BY DEF LedgerInv, AccountsInv, CallStartsEmpty
<1> QED  BY <1>1, NothingTotals DEF AcceptedIn, SettledIn, RefusedIn

\* A call that ends at once, with at most one event that is no entry's.
LEMMA AnsweredAtOnce ==
  ASSUME LedgerInv, BookInv', pc = "idle", NEW call \in {"cancel", "modify", "stop"}, NEW id \in Ids,
         NEW reason \in RejectReason, NEW unaccepted \in Int, Finish(call, id, reason, unaccepted),
         \/ UNCHANGED events
         \/ \E e : Emit(e) /\ e.kind \notin {"Accepted", "Trade", "Rested", "Expired"}
  PROVE  CallBegins
<1>1. /\ pc' = "done"
      /\ result' = [id |-> id, call |-> call, reject_reason |-> reason,
                    unaccepted_quantity |-> unaccepted, rested_price |-> None]
  BY DEF Finish, Answer
<1>2. result' # None
  <2>1. result' \in OrderResult
    BY <1>1 DEF OrderResult, Prices
  <2> QED  BY <2>1, NoneIsApart
<1>3. result'.call # "add"
  BY <1>1
<1>4. Summed(events') /\ \A x \in Ids : AcceptedIn(events', x) = SettledIn(events', x)
  <2>1. CASE UNCHANGED events
    BY <2>1, IdleAccounts DEF LedgerInv
  <2>2. ASSUME NEW e, Emit(e), e.kind \notin {"Accepted", "Trade", "Rested", "Expired"}
        PROVE  Summed(events') /\ \A x \in Ids : AcceptedIn(events', x) = SettledIn(events', x)
    <3>1. Gains(events, events', e)
      BY <2>2, EmitGains
    <3> QED  BY <2>2, <3>1, IdleAccounts DEF Gains
  <2> QED  BY <2>1, <2>2
<1> QED  BY <1>1, <1>2, <1>3, <1>4 DEF CallBegins

LEMMA RefusedAtOnce ==
  ASSUME LedgerInv, BookInv', NEW call \in {"cancel", "modify", "stop"}, NEW id \in Ids,
         NEW reason \in RejectReason, NEW unaccepted \in Int, NEW t,
         Refuse(call, id, reason, unaccepted, t)
  PROVE  CallBegins
<1>1. pc = "idle" /\ Finish(call, id, reason, unaccepted) /\ UNCHANGED events
  BY DEF Refuse, Call
<1> QED  BY <1>1, AnsweredAtOnce

LEMMA CancelRestAtOnce ==
  ASSUME LedgerInv, BookInv', pc = "idle", NEW call \in {"cancel", "modify"}, NEW id \in Ids,
         CancelRest(id), Finish(call, id, "None", 0)
  PROVE  CallBegins
<1>1. PICK e : e = OrderEvent("Cancelled", resting[id])
  OBVIOUS
<1>2. Emit(e) /\ e.kind = "Cancelled"
  BY <1>1 DEF CancelRest, OrderEvent
<1>3. "None" \in RejectReason
  BY DEF RejectReason
<1> QED  BY <1>2, <1>3, AnsweredAtOnce

LEMMA ModifyBegins ==
  ASSUME LedgerInv, BookInv', NEW id \in Ids, NEW requester \in Owners, NEW a \in Amendments,
         NEW t \in Times,
         \/ modify_order_refused(id, requester, a, t)
         \/ modify_order_cancels(id, requester, a, t)
         \/ modify_order_in_place(id, requester, a, t)
         \/ modify_order_replaces(id, requester, a, t)
  PROVE  CallBegins
<1>1. CASE modify_order_refused(id, requester, a, t)
  <2>1. a.quantity \in Int
    BY ArgumentsTyped
  <2>2. ModifyRefusal(id, requester, a, t) \in RejectReason
    BY RefusalReasons
  <2> QED  BY <1>1, <2>1, <2>2, RefusedAtOnce DEF modify_order_refused
<1>2. CASE modify_order_cancels(id, requester, a, t)
  BY <1>2, CancelRestAtOnce DEF modify_order_cancels, Call
<1>3. CASE modify_order_in_place(id, requester, a, t)
  <2>1. PICK e : e = OrderEvent("Modified", Amended(id, a))
    OBVIOUS
  <2>2. Emit(e) /\ e.kind = "Modified" /\ pc = "idle" /\ Finish("modify", id, "None", 0)
    BY <1>3, <2>1 DEF modify_order_in_place, OrderEvent, Call
  <2>3. "None" \in RejectReason
    BY DEF RejectReason
  <2> QED  BY <2>2, <2>3, AnsweredAtOnce
<1>4. CASE modify_order_replaces(id, requester, a, t)
  <2>1. PICK e : e = OrderEvent("Replaced", resting[id])
    OBVIOUS
  <2>2. /\ events' = Append(EventsAfterResume(t), e) /\ e.kind = "Replaced" /\ pc = "idle"
        /\ pc' = "enter" /\ origin' = "modify" /\ UNCHANGED result
    BY <1>4, <2>1 DEF modify_order_replaces, OrderEvent, Call, Enter
  <2>3. SameAccounts(events, events')
    <3>1. Gains(events, events', e)
      BY <2>2, EntryGains
    <3> QED  BY <2>2, <3>1, GainsNothing DEF Accounted
  <2> QED  BY <2>2, <2>3, IdleAccounts DEF SameAccounts, CallBegins
<1> QED  BY <1>1, <1>2, <1>3, <1>4

LEMMA OrderCallBegins ==
  ASSUME LedgerInv, BookInv', NEW t \in Times, OrderCall(t)
  PROVE  CallBegins
<1>1. ASSUME NEW order \in NewOrders, add_order(order, t) PROVE CallBegins
  <2>1. pc = "idle" /\ pc' = "enter" /\ origin' = "new" /\ UNCHANGED <<result, events>>
    BY <1>1 DEF add_order, Call, Enter
  <2> QED  BY <2>1, IdleAccounts DEF CallBegins, LedgerInv
<1>2. ASSUME NEW target \in Targets,
             \/ cancel_order_refused(target.id, target.requester, t)
             \/ cancel_order(target.id, target.requester, t)
      PROVE  CallBegins
  <2>1. target.id \in Ids /\ 0 \in Int
    BY ArgumentsTyped
  <2>2. CASE cancel_order_refused(target.id, target.requester, t)
    <3>1. CancelRefusal(target.id, target.requester) \in RejectReason
      BY RefusalReasons
    <3> QED  BY <2>1, <2>2, <3>1, RefusedAtOnce DEF cancel_order_refused
  <2>3. CASE cancel_order(target.id, target.requester, t)
    BY <2>1, <2>3, CancelRestAtOnce DEF cancel_order, Call
  <2> QED  BY <1>2, <2>2, <2>3
<1>3. ASSUME NEW target \in Targets, NEW a \in Amendments,
             \/ modify_order_refused(target.id, target.requester, a, t)
             \/ modify_order_cancels(target.id, target.requester, a, t)
             \/ modify_order_in_place(target.id, target.requester, a, t)
             \/ modify_order_replaces(target.id, target.requester, a, t)
      PROVE  CallBegins
  <2>1. target.id \in Ids /\ target.requester \in Owners
    BY ArgumentsTyped
  <2> QED  BY <1>3, <2>1, ModifyBegins
<1> QED  BY <1>1, <1>2, <1>3 DEF OrderCall

\* A stop call ends at once, and enters no order.
LEMMA StopCallBegins ==
  ASSUME LedgerInv, BookInv', NEW t \in Times, StopCall(t)
  PROVE  CallBegins
<1>1. ASSUME NEW stop \in NewStops, place_stop_order_refused(stop, t) PROVE CallBegins
  <2>1. PICK e : e = [StopEvent("Rejected", stop) EXCEPT !.reject_reason = PlaceRefusal(stop)]
    OBVIOUS
  <2>2. /\ Emit(e) /\ e.kind = "Rejected" /\ pc = "idle"
        /\ Finish("stop", stop.id, PlaceRefusal(stop), 0)
    BY <1>1, <2>1 DEF place_stop_order_refused, StopEvent, Call
  <2>3. stop.id \in Ids /\ PlaceRefusal(stop) \in RejectReason
    BY ArgumentsTyped, RefusalReasons DEF StopOrder
  <2> QED  BY <2>2, <2>3, AnsweredAtOnce
<1>2. ASSUME NEW stop \in NewStops, place_stop_order(stop, t) PROVE CallBegins
  <2>1. PICK e : e = StopEvent("StopAccepted", stop)
    OBVIOUS
  <2>2. Emit(e) /\ e.kind = "StopAccepted" /\ pc = "idle" /\ Finish("stop", stop.id, "None", 0)
    BY <1>2, <2>1 DEF place_stop_order, StopEvent, Call
  <2>3. stop.id \in Ids /\ "None" \in RejectReason
    BY ArgumentsTyped DEF StopOrder, RejectReason
  <2> QED  BY <2>2, <2>3, AnsweredAtOnce
<1>3. ASSUME NEW target \in Targets,
             \/ cancel_stop_order_refused(target.id, target.requester, t)
             \/ cancel_stop_order(target.id, target.requester, t)
      PROVE  CallBegins
  <2>1. target.id \in Ids /\ 0 \in Int
    BY ArgumentsTyped
  <2>2. CASE cancel_stop_order_refused(target.id, target.requester, t)
    <3>1. CancelStopRefusal(target.id, target.requester) \in RejectReason
      BY RefusalReasons
    <3> QED  BY <2>1, <2>2, <3>1, RefusedAtOnce DEF cancel_stop_order_refused
  <2>3. CASE cancel_stop_order(target.id, target.requester, t)
    <3>1. PICK e : e = StopEvent("StopCancelled", dormant[target.id].stop)
      OBVIOUS
    <3>2. Emit(e) /\ e.kind = "StopCancelled" /\ pc = "idle" /\ Finish("stop", target.id, "None", 0)
      BY <2>3, <3>1 DEF cancel_stop_order, StopEvent, Call
    <3>3. "None" \in RejectReason
      BY DEF RejectReason
    <3> QED  BY <2>1, <3>2, <3>3, AnsweredAtOnce
  <2> QED  BY <1>3, <2>2, <2>3
<1>4. ASSUME NEW target \in Targets, NEW a \in StopAmendments,
             \/ modify_stop_order_refused(target.id, target.requester, a, t)
             \/ modify_stop_order(target.id, target.requester, a, t)
      PROVE  CallBegins
  <2>1. target.id \in Ids /\ 0 \in Int
    BY ArgumentsTyped
  <2>2. CASE modify_stop_order_refused(target.id, target.requester, a, t)
    <3>1. ModifyStopRefusal(target.id, target.requester, a) \in RejectReason
      BY RefusalReasons
    <3> QED  BY <2>1, <2>2, <3>1, RefusedAtOnce DEF modify_stop_order_refused
  <2>3. CASE modify_stop_order(target.id, target.requester, a, t)
    <3>1. PICK e : e = StopEvent("StopModified", AmendedStop(target.id, a))
      OBVIOUS
    <3>2. Emit(e) /\ e.kind = "StopModified" /\ pc = "idle" /\ Finish("stop", target.id, "None", 0)
      BY <2>3, <3>1 DEF modify_stop_order, StopEvent, Call
    <3>3. "None" \in RejectReason
      BY DEF RejectReason
    <3> QED  BY <2>1, <3>2, <3>3, AnsweredAtOnce
  <2> QED  BY <1>4, <2>2, <2>3
<1> QED  BY <1>1, <1>2, <1>3, <1>4 DEF StopCall

\* What an entry answers is a result, unless it is a fired stop's.
LEMMA AnswerIsResult ==
  ASSUME BookInv, pc \in {"enter", "settle"}, NEW reason \in RejectReason, NEW unaccepted \in Int,
         NEW rested \in Prices, AnswerEntry(reason, unaccepted, rested), origin # "stop"
  PROVE  /\ result' # None /\ result'.id = incoming.id /\ result'.unaccepted_quantity = unaccepted
         /\ origin = "new" <=> result'.call = "add"
<1>1. incoming \in Order
  BY EntryFacts DEF BookInv
<1>2. PICK call \in {"add", "modify"} : call = IF origin = "new" THEN "add" ELSE "modify"
  OBVIOUS
<1>3. result' = [id |-> incoming.id, call |-> call, reject_reason |-> reason,
                 unaccepted_quantity |-> unaccepted, rested_price |-> rested]
  BY <1>2 DEF AnswerEntry
<1>4. result' \in OrderResult
  BY <1>1, <1>3 DEF OrderResult, Order
<1>5. result' # None
  BY <1>4, NoneIsApart
<1> QED  BY <1>2, <1>3, <1>5

LEMMA SameOrdersStaySettled ==
  UNCHANGED <<resting, finished_orders>> => StaysSettled
BY DEF StaysSettled, IsResting, IsFinished

\* A refused entry ends its call with the whole quantity refused.
LEMMA EnterRefusedKeepsAccounts ==
  ASSUME LedgerInv, BookInv', EnterRefused
  PROVE  AccountsInv'
<1>1. BookInv /\ pc = "enter" /\ EntryRefusal(incoming) # "None"
  BY DEF LedgerInv, EnterRefused
<1>2. origin = "new" /\ FirstEntry
  BY <1>1, ReentryAccepted DEF ReentryNeverRefused, FirstEntry, BookInv, CallInv, CallTypeOK
<1>3. pc' = "done"
  BY <1>1, <1>2 DEF EnterRefused, AfterEntry, BookInv, CallInv, QueueInCall
<1>4. incoming \in Order
  BY <1>1, EntryFacts DEF BookInv
<1>5. PICK e : e = [OrderEvent("Rejected", incoming) EXCEPT !.reject_reason = EntryRefusal(incoming)]
  OBVIOUS
<1>6. e.kind = "Rejected" /\ e.id = incoming.id /\ e.quantity = incoming.quantity
  BY <1>5 DEF OrderEvent
<1>7. Gains(events, events', e)
  <2>1. events' = Append(EventsAfterResume(now), e)
    BY <1>2, <1>5 DEF EnterRefused
  <2> QED  BY <2>1, EntryGains
<1>8. /\ result' # None /\ result'.id = incoming.id /\ result'.unaccepted_quantity = incoming.quantity
  <2>1. EntryRefusal(incoming) \in RejectReason /\ None \in Prices /\ incoming.quantity \in Int
    BY <1>4, RefusalReasons DEF Prices, Order
  <2> QED  BY <1>1, <1>2, <2>1, AnswerIsResult DEF EnterRefused
<1>9. \A id \in Ids : AcceptedIn(events', id) = SettledIn(events', id) + Unsettled(id)'
  <2>1. \A id \in Ids : Unsettled(id) = 0 /\ Unsettled(id)' = 0
    BY <1>1, <1>3 DEF Unsettled
  <2>2. \A id \in Ids : AcceptedIn(events', id) = AcceptedIn(events, id)
                        /\ SettledIn(events', id) = SettledIn(events, id)
    BY <1>6, <1>7 DEF Gains
  <2> QED  BY <2>1, <2>2, AccountsNow
<1>10. ~FirstEntry'
  BY <1>3 DEF FirstEntry
<1>11. result'.unaccepted_quantity = RefusedIn(events', result'.id)
  <2>1. incoming.id \in Ids /\ incoming.quantity \in Int
    BY <1>4 DEF Order
  <2>2. RefusedIn(events, incoming.id) = 0
    BY <1>2, <2>1, AccountsNow
  <2>3. RefusedIn(events', incoming.id) = RefusedIn(events, incoming.id) + incoming.quantity
    BY <1>6, <1>7, <2>1 DEF Gains
  <2> QED  BY <1>8, <2>1, <2>2, <2>3
<1>12. QuantitiesBalance' /\ NothingToldYet' /\ FateIsTold'
  BY <1>9, <1>10, <1>11, AccountsNext
<1> QED
  BY <1>3, <1>8, <1>12 DEF AccountsInv, CallStartsEmpty, AnswerIsGiven, AnsweredIsSettled

\* An accepted order is in flight with its whole quantity.
LEMMA EnterAcceptedKeepsAccounts ==
  ASSUME LedgerInv, BookInv', EnterAccepted
  PROVE  AccountsInv'
<1>1. /\ BookInv /\ pc = "enter" /\ pc' = "match"
      /\ UNCHANGED <<incoming, origin, result, resting, finished_orders>>
  BY DEF LedgerInv, EnterAccepted, bookVars
<1>2. incoming \in Order
  BY <1>1, EntryFacts DEF BookInv
<1>3. PICK e : e = OrderEvent("Accepted", incoming)
  OBVIOUS
<1>4. e.kind = "Accepted" /\ e.id = incoming.id /\ e.quantity = incoming.quantity
  BY <1>3 DEF OrderEvent
<1>5. Gains(events, events', e)
  <2>1. events' = Append(EventsAfterResume(now), e)
    BY <1>3 DEF EnterAccepted
  <2> QED  BY <2>1, EntryGains
<1>6. FirstEntry' <=> FirstEntry
  BY <1>1 DEF FirstEntry
<1>7. ASSUME NEW id \in Ids
      PROVE  /\ AcceptedIn(events', id) = SettledIn(events', id) + Unsettled(id)'
             /\ RefusedIn(events', id) = RefusedIn(events, id)
  <2>1. Unsettled(id) = 0 /\ Unsettled(id)' = IF e.id = id THEN e.quantity ELSE 0
    BY <1>1, <1>4 DEF Unsettled
  <2>2. AcceptedIn(events, id) = SettledIn(events, id) + Unsettled(id)
    BY AccountsNow
  <2>3. e.quantity \in Int
    BY <1>2, <1>4 DEF Order
  <2> QED  BY <1>4, <1>5, <2>1, <2>2, <2>3 DEF Gains
<1>8. result # None => result.id \in Ids
  BY <1>1, ResultTyped
<1>9. QuantitiesBalance' /\ NothingToldYet' /\ FateIsTold'
  <2>1. FirstEntry' => result' = None /\ \A id \in Ids : RefusedIn(events', id) = 0
    BY <1>1, <1>6, <1>7, AccountsNow
  <2>2. result' # None /\ result'.call = "add" =>
          result'.unaccepted_quantity = RefusedIn(events', result'.id)
    BY <1>1, <1>7, <1>8, AccountsNow
  <2> QED  BY <1>7, <2>1, <2>2, AccountsNext
<1>10. AnswerIsGiven'
  BY <1>1, <1>6 DEF LedgerInv, AccountsInv, AnswerIsGiven
<1>11. AnsweredIsSettled'
  BY <1>1, <1>8, SameOrdersStaySettled DEF LedgerInv, AccountsInv, AnsweredIsSettled, StaysSettled
<1> QED  BY <1>1, <1>9, <1>10, <1>11 DEF AccountsInv, CallStartsEmpty

\* A walk that stops leaves the accounts alone.
LEMMA StopKeepsAccounts ==
  ASSUME LedgerInv, BookInv', NEW p,
         WalkEnds \/ CollarStops(p) \/ SelfTradeStops(p) \/ BandHalts(p) \/ BandStops(p)
  PROVE  AccountsInv'
<1>1. /\ pc = "match" /\ pc' = "settle"
      /\ UNCHANGED <<incoming, origin, result, resting, finished_orders>>
  BY DEF WalkEnds, CollarStops, SelfTradeStops, BandHalts, BandStops, AtLevel, StopQuietly, Stop,
         bookVars, recordVars
<1>2. SameAccounts(events, events')
  <2>1. CASE BandHalts(p)
    <3>1. PICK e : e = [OrderEvent("Halted", incoming) EXCEPT !.price = p]
      OBVIOUS
    <3>2. Emit(e) /\ e.kind = "Halted"
      BY <2>1, <3>1 DEF BandHalts, OrderEvent
    <3>3. Gains(events, events', e)
      BY <3>2, EmitGains
    <3> QED  BY <3>2, <3>3, GainsNothing DEF Accounted
  <2>2. CASE ~BandHalts(p)
    <3>1. UNCHANGED events
      BY <2>2 DEF WalkEnds, CollarStops, SelfTradeStops, BandStops, StopQuietly
    <3> QED  BY <3>1, NoEventSameAccounts
  <2> QED  BY <2>1, <2>2
<1>3. \A id \in Ids : Unsettled(id)' = Unsettled(id)
  BY <1>1 DEF Unsettled
<1>4. (FirstEntry' <=> FirstEntry) /\ StaysSettled
  BY <1>1, SameOrdersStaySettled DEF FirstEntry
<1> QED  BY <1>1, <1>2, <1>3, <1>4, QuietKeepsAccounts

\* A fill takes from the order in flight what its trade says.
LEMMA FillKeepsAccounts ==
  ASSUME LedgerInv, BookInv', NEW p, Fill(p)
  PROVE  AccountsInv'
<1>1. /\ BookInv /\ AtLevel(p) /\ pc = "match" /\ pc' = "match"
      /\ UNCHANGED <<origin, result>>
  BY DEF LedgerInv, Fill, AtLevel
<1>2. PICK passive : passive = HeadOf(p)
  OBVIOUS
<1>3. passive \in Order /\ passive.id \in Ids /\ passive.quantity > 0
  BY <1>1, <1>2, LevelHasHead
<1>4. incoming \in Order /\ incoming.quantity \in Int /\ incoming.quantity > 0
  BY <1>1, EntryFacts DEF BookInv, AtLevel, Order
<1>5. PICK quantity \in Nat : quantity = IF incoming.quantity < passive.quantity
                                         THEN incoming.quantity ELSE passive.quantity
  BY <1>3, <1>4 DEF Order
<1>6. PICK e : e = TradeEvent(incoming, passive, quantity)
  OBVIOUS
<1>7. e.kind = "Trade" /\ e.id = incoming.id /\ e.quantity = quantity
  BY <1>6 DEF TradeEvent
<1>8. Emit(e) /\ incoming' = Taken(incoming, quantity)
  BY <1>2, <1>5, <1>6 DEF Fill
<1>9. Gains(events, events', e)
  BY <1>8, EmitGains
<1>10. incoming'.id = incoming.id /\ incoming'.quantity = incoming.quantity - quantity
  BY <1>4, <1>8, TakenType
<1>11. ASSUME NEW id \in Ids
       PROVE  /\ AcceptedIn(events', id) = SettledIn(events', id) + Unsettled(id)'
              /\ RefusedIn(events', id) = RefusedIn(events, id)
  <2>1. /\ AcceptedIn(events, id) = SettledIn(events, id) + Unsettled(id)
        /\ AcceptedIn(events, id) \in Int /\ SettledIn(events, id) \in Int
        /\ RefusedIn(events, id) \in Int
    BY <1>9, AccountsNow DEF Gains
  <2>2. /\ AcceptedIn(events', id) = AcceptedIn(events, id) + 0
        /\ SettledIn(events', id) = SettledIn(events, id) + (IF incoming.id = id THEN quantity ELSE 0)
        /\ RefusedIn(events', id) = RefusedIn(events, id) + 0
    BY <1>7, <1>9 DEF Gains
  <2>3. /\ Unsettled(id) = IF incoming.id = id THEN incoming.quantity ELSE 0
        /\ Unsettled(id)' = IF incoming.id = id THEN incoming.quantity - quantity ELSE 0
    BY <1>1, <1>10 DEF Unsettled
  <2> QED  BY <1>4, <2>1, <2>2, <2>3
<1>12. StaysSettled
  <2>1. \/ UNCHANGED finished_orders /\ resting' = [resting EXCEPT ![passive.id] = Taken(passive, quantity)]
        \/ /\ resting' = [resting EXCEPT ![passive.id] = None]
           /\ finished_orders' = [finished_orders EXCEPT ![passive.id] = "Filled"]
    BY <1>2, <1>5 DEF Fill, remove_resting
  <2>2. Taken(passive, quantity) # None
    BY <1>3, TakenType, NoneIsApart
  <2>3. /\ resting \in [Ids -> Order \cup {None}]
        /\ finished_orders \in [Ids -> {"None", "Filled", "Cancelled"}]
    BY <1>1 DEF BookInv, RestingInv, BookTypeOK, PlacesInv, RecordsTypeOK
  <2>4. ASSUME NEW id \in Ids, IsResting(id) \/ IsFinished(id)
        PROVE  resting'[id] # None \/ finished_orders'[id] # "None"
    BY <1>3, <2>1, <2>2, <2>3, <2>4 DEF IsResting, IsFinished
  <2> QED  BY <2>4 DEF StaysSettled, IsResting, IsFinished
<1>13. result # None => result.id \in Ids
  BY <1>1, ResultTyped
<1>14. FirstEntry' <=> FirstEntry
  BY <1>1 DEF FirstEntry
<1>15. QuantitiesBalance' /\ NothingToldYet' /\ FateIsTold'
  <2>1. FirstEntry' => result' = None /\ \A id \in Ids : RefusedIn(events', id) = 0
    BY <1>1, <1>11, <1>14, AccountsNow
  <2>2. result' # None /\ result'.call = "add" =>
          result'.unaccepted_quantity = RefusedIn(events', result'.id)
    BY <1>1, <1>11, <1>13, AccountsNow
  <2> QED  BY <1>11, <2>1, <2>2, AccountsNext
<1>16. AnswerIsGiven'
  BY <1>1, <1>14 DEF LedgerInv, AccountsInv, AnswerIsGiven
<1>17. AnsweredIsSettled'
  BY <1>1, <1>12, <1>13 DEF LedgerInv, AccountsInv, AnsweredIsSettled, StaysSettled
<1> QED  BY <1>1, <1>15, <1>16, <1>17 DEF AccountsInv, CallStartsEmpty

\* The remainder of an entry is told: the order in flight settles as finished or resting,
\* with what is left of it (n) in an event or nothing, and the answer says what expired.
LEMMA SettleKeepsAccounts ==
  ASSUME LedgerInv, BookInv', Settle, NEW n \in Int, n = incoming.quantity,
         NEW reason \in RejectReason, NEW expired \in {0, n}, NEW rested \in Prices,
         AnswerEntry(reason, expired, rested), Summed(events'),
         \A id \in Ids :
           /\ AcceptedIn(events', id) = AcceptedIn(events, id)
           /\ SettledIn(events', id) = SettledIn(events, id) + (IF id = incoming.id THEN n ELSE 0)
           /\ RefusedIn(events', id)
                = RefusedIn(events, id) + (IF id = incoming.id THEN expired ELSE 0),
         (resting'[incoming.id] # None \/ finished_orders'[incoming.id] # "None"), StaysSettled,
         \A id \in Ids : SettledIn(events, id) \in Int /\ RefusedIn(events, id) \in Int
  PROVE  AccountsInv'
<1>1. /\ BookInv /\ pc = "settle" /\ pc' \in {"wake", "fire", "done"} /\ UNCHANGED origin
      /\ incoming \in Order /\ incoming # None /\ incoming.id \in Ids /\ expired \in Int
  BY EntryFacts DEF LedgerInv, Settle, AfterEntry, BookInv
<1>2. \A id \in Ids : AcceptedIn(events', id) = SettledIn(events', id) + Unsettled(id)'
  <2> SUFFICES ASSUME NEW id \in Ids
               PROVE  AcceptedIn(events', id) = SettledIn(events', id) + Unsettled(id)'
    OBVIOUS
  <2>1. /\ Unsettled(id)' = 0
        /\ Unsettled(id) = IF id = incoming.id THEN n ELSE 0
    BY <1>1 DEF Unsettled
  <2>2. AcceptedIn(events, id) = SettledIn(events, id) + Unsettled(id) /\ SettledIn(events, id) \in Int
    BY AccountsNow
  <2>3. /\ AcceptedIn(events', id) = AcceptedIn(events, id)
        /\ SettledIn(events', id) = SettledIn(events, id) + (IF id = incoming.id THEN n ELSE 0)
    OBVIOUS
  <2> QED  BY <2>1, <2>2, <2>3
<1>3. ~FirstEntry'
  BY <1>1 DEF FirstEntry
<1>4. CASE origin # "stop"
  <2>1. FirstEntry
    BY <1>1, <1>4 DEF FirstEntry
  <2>2. result' # None /\ result'.id = incoming.id /\ result'.unaccepted_quantity = expired
    BY <1>1, <1>4, AnswerIsResult
  <2>3. RefusedIn(events', incoming.id) = expired
    <3>1. RefusedIn(events, incoming.id) = 0
      BY <1>1, <2>1, AccountsNow
    <3>2. RefusedIn(events', incoming.id) = RefusedIn(events, incoming.id) + expired
      BY <1>1
    <3> QED  BY <1>1, <3>1, <3>2
  <2>4. result'.unaccepted_quantity = RefusedIn(events', result'.id)
    BY <2>2, <2>3
  <2>5. QuantitiesBalance' /\ NothingToldYet' /\ FateIsTold'
    BY <1>2, <1>3, <2>4, AccountsNext
  <2>6. AnsweredIsSettled'
    BY <2>2 DEF AnsweredIsSettled, IsResting, IsFinished
  <2> QED  BY <1>1, <2>2, <2>5, <2>6 DEF AccountsInv, CallStartsEmpty, AnswerIsGiven
<1>5. CASE origin = "stop"
  <2>1. result' = result
    BY <1>5 DEF AnswerEntry
  <2>2. ~FirstEntry /\ result # None
    BY <1>1, <1>5 DEF FirstEntry, LedgerInv, AccountsInv, AnswerIsGiven
  <2>3. result.id \in Ids
    BY <1>1, <2>2, ResultTyped
  <2>4. ASSUME result.call = "add"
        PROVE  result.id # incoming.id /\ (IsResting(result.id) \/ IsFinished(result.id))
    <3>1. IsResting(result.id) \/ IsFinished(result.id)
      BY <1>1, <2>2, <2>4 DEF LedgerInv, AccountsInv, AnsweredIsSettled
    <3>2. IsInFlight(incoming.id) /\ OnePlace(incoming.id)
      BY <1>1 DEF IsInFlight, BookInv, PlacesInv, LifeCycle
    <3>3. ~IsResting(incoming.id) /\ ~IsFinished(incoming.id)
      BY <3>2 DEF OnePlace
    <3> QED  BY <3>1, <3>3
  <2>5. result.call = "add" => result.unaccepted_quantity = RefusedIn(events', result.id)
    <3> SUFFICES ASSUME result.call = "add"
                 PROVE  result.unaccepted_quantity = RefusedIn(events', result.id)
      OBVIOUS
    <3>1. result.unaccepted_quantity = RefusedIn(events, result.id)
      BY <2>2, AccountsNow
    <3>2. result.id # incoming.id
      BY <2>4
    <3>3. RefusedIn(events', result.id) = RefusedIn(events, result.id) + 0
      BY <2>3, <3>2
    <3>4. RefusedIn(events, result.id) \in Int
      BY <2>3
    <3> QED  BY <3>1, <3>3, <3>4
  <2>6. QuantitiesBalance' /\ NothingToldYet' /\ FateIsTold'
    BY <1>2, <1>3, <2>1, <2>5, AccountsNext
  <2>7. AnsweredIsSettled'
    BY <2>1, <2>3, <2>4 DEF AnsweredIsSettled, StaysSettled
  <2> QED  BY <1>1, <2>1, <2>2, <2>6, <2>7 DEF AccountsInv, CallStartsEmpty, AnswerIsGiven
<1> QED  BY <1>4, <1>5

\* The accounts of a log that adds up are numbers.
LEMMA AccountsAreNumbers ==
  ASSUME NEW log, Summed(log), NEW id
  PROVE  SettledIn(log, id) \in Int /\ RefusedIn(log, id) \in Int
<1>1. ASSUME NEW kinds PROVE Total(log, kinds, id) \in Int
  <2>1. PICK v \in Int : AddsUpTo(log, kinds, id, v)
    BY DEF Summed
  <2> QED  BY <2>1, SumIsTotal
<1> QED  BY <1>1 DEF SettledIn, RefusedIn

\* An entry's remainder is finished as filled or expired.
LEMMA FinishSettles ==
  ASSUME BookInv, NEW state \in {"Filled", "Cancelled"}, incoming.id \in Ids, UNCHANGED resting,
         finished_orders' = [finished_orders EXCEPT ![incoming.id] = state]
  PROVE  (resting'[incoming.id] # None \/ finished_orders'[incoming.id] # "None") /\ StaysSettled
<1>1. finished_orders \in [Ids -> {"None", "Filled", "Cancelled"}]
  BY DEF BookInv, PlacesInv, RecordsTypeOK
<1>2. finished_orders'[incoming.id] # "None"
  BY <1>1
<1>3. \A id \in Ids : finished_orders[id] # "None" => finished_orders'[id] # "None"
  BY <1>1
<1> QED  BY <1>2, <1>3 DEF IsResting, IsFinished, StaysSettled

LEMMA SettleFilledKeepsAccounts ==
  ASSUME LedgerInv, BookInv', SettleFilled
  PROVE  AccountsInv'
<1>1. BookInv /\ Settle /\ pc = "settle" /\ incoming.quantity = 0
  BY DEF LedgerInv, SettleFilled, Settle
<1>2. incoming.id \in Ids
  BY <1>1, EntryFacts DEF BookInv
<1>3. (resting'[incoming.id] # None \/ finished_orders'[incoming.id] # "None") /\ StaysSettled
  BY <1>1, <1>2, FinishSettles DEF SettleFilled, bookVars
<1>4. \A id \in Ids : SettledIn(events, id) \in Int /\ RefusedIn(events, id) \in Int
  BY AccountsAreNumbers DEF LedgerInv
<1>5. PICK n \in Int : n = 0
  OBVIOUS
<1>6. UNCHANGED events
  BY DEF SettleFilled
<1>7. \A id \in Ids :
        /\ AcceptedIn(events', id) = AcceptedIn(events, id)
        /\ SettledIn(events', id) = SettledIn(events, id) + (IF id = incoming.id THEN n ELSE 0)
        /\ RefusedIn(events', id) = RefusedIn(events, id) + (IF id = incoming.id THEN 0 ELSE 0)
  BY <1>4, <1>5, <1>6
<1>8. AnswerEntry("None", 0, None) /\ "None" \in RejectReason /\ None \in Prices
  BY DEF SettleFilled, RejectReason, Prices
<1>9. Summed(events') /\ n = incoming.quantity /\ 0 \in {0, n}
  BY <1>1, <1>5, <1>6 DEF LedgerInv
<1> QED  BY <1>1, <1>3, <1>4, <1>7, <1>8, <1>9, SettleKeepsAccounts

LEMMA SettleRestsKeepsAccounts ==
  ASSUME LedgerInv, BookInv', SettleRests
  PROVE  AccountsInv'
<1>1. /\ BookInv /\ Settle /\ pc = "settle" /\ incoming.type = "Limit"
      /\ CallInv
  BY DEF LedgerInv, SettleRests, Settle, MayRest, BookInv
<1>2. incoming \in Order /\ incoming.id \in Ids /\ incoming.quantity \in Int
  BY <1>1, EntryFacts DEF Order
<1>3. PICK price \in Int : price = RestPrice
  BY <1>1, RestPriceValid
<1>4. PICK order \in Order : order = [incoming EXCEPT !.price = price]
  BY <1>2 DEF Order, Prices
<1>5. order.id = incoming.id /\ order.quantity = incoming.quantity /\ order.price = price
  BY <1>2, <1>4 DEF Order
<1>6. PICK n \in Int : n = incoming.quantity
  BY <1>2
<1>7. PICK e : e = OrderEvent("Rested", order)
  OBVIOUS
<1>8. e.kind = "Rested" /\ e.id = incoming.id /\ e.quantity = n
  BY <1>5, <1>6, <1>7 DEF OrderEvent
<1>9. PICK rested \in Prices : rested = IF StoppedByBand THEN price ELSE None
  BY DEF Prices
<1>10. /\ Rest(order) /\ Emit(e) /\ UNCHANGED finished_orders
       /\ AnswerEntry("None", 0, rested)
  BY <1>3, <1>4, <1>5, <1>7, <1>9 DEF SettleRests
<1>11. Gains(events, events', e)
  BY <1>10, EmitGains
<1>12. \A id \in Ids : SettledIn(events, id) \in Int /\ RefusedIn(events, id) \in Int
  BY AccountsAreNumbers DEF LedgerInv
<1>13. \A id \in Ids :
         /\ AcceptedIn(events', id) = AcceptedIn(events, id)
         /\ SettledIn(events', id) = SettledIn(events, id) + (IF id = incoming.id THEN n ELSE 0)
         /\ RefusedIn(events', id) = RefusedIn(events, id) + (IF id = incoming.id THEN 0 ELSE 0)
  BY <1>8, <1>11 DEF Gains
<1>14. (resting'[incoming.id] # None \/ finished_orders'[incoming.id] # "None") /\ StaysSettled
  <2>1. resting' = [resting EXCEPT ![incoming.id] = order] /\ order # None
    BY <1>5, <1>10, NoneIsApart DEF Rest
  <2>2. resting \in [Ids -> Order \cup {None}]
    BY <1>1 DEF BookInv, RestingInv, BookTypeOK
  <2>3. \A id \in Ids : resting[id] # None => resting'[id] # None
    BY <2>1, <2>2
  <2>4. resting'[incoming.id] # None
    BY <1>2, <2>1, <2>2
  <2> QED  BY <1>10, <2>3, <2>4 DEF IsResting, IsFinished, StaysSettled
<1>15. "None" \in RejectReason /\ 0 \in {0, n} /\ Summed(events')
  BY <1>11 DEF RejectReason, Gains
<1> QED  BY <1>1, <1>6, <1>10, <1>12, <1>13, <1>14, <1>15, SettleKeepsAccounts

LEMMA SettleExpiresKeepsAccounts ==
  ASSUME LedgerInv, BookInv', SettleExpires
  PROVE  AccountsInv'
<1>1. BookInv /\ Settle /\ pc = "settle" /\ CallInv
  BY DEF LedgerInv, SettleExpires, Settle, BookInv
<1>2. incoming \in Order /\ incoming.id \in Ids /\ incoming.quantity \in Int
  BY <1>1, EntryFacts DEF Order
<1>3. PICK price : price = RestPrice
  OBVIOUS
<1>4. PICK order : order = [incoming EXCEPT !.price = price]
  OBVIOUS
<1>5. order.id = incoming.id /\ order.quantity = incoming.quantity
  BY <1>2, <1>4 DEF Order
<1>6. PICK n \in Int : n = incoming.quantity
  BY <1>2
<1>7. PICK e : e = OrderEvent("Expired", order)
  OBVIOUS
<1>8. e.kind = "Expired" /\ e.id = incoming.id /\ e.quantity = n
  BY <1>5, <1>6, <1>7 DEF OrderEvent
<1>9. Emit(e) /\ AnswerEntry(ExpiryReason, n, None)
  BY <1>3, <1>4, <1>6, <1>7 DEF SettleExpires
<1>10. Gains(events, events', e)
  BY <1>9, EmitGains
<1>11. \A id \in Ids : SettledIn(events, id) \in Int /\ RefusedIn(events, id) \in Int
  BY AccountsAreNumbers DEF LedgerInv
<1>12. \A id \in Ids :
         /\ AcceptedIn(events', id) = AcceptedIn(events, id)
         /\ SettledIn(events', id) = SettledIn(events, id) + (IF id = incoming.id THEN n ELSE 0)
         /\ RefusedIn(events', id) = RefusedIn(events, id) + (IF id = incoming.id THEN n ELSE 0)
  BY <1>8, <1>10 DEF Gains
<1>13. (resting'[incoming.id] # None \/ finished_orders'[incoming.id] # "None") /\ StaysSettled
  BY <1>1, <1>2, FinishSettles DEF SettleExpires, bookVars
<1>14. ExpiryReason \in RejectReason /\ None \in Prices
  BY <1>1 DEF CallInv, CallTypeOK, ExpiryReason, RejectReason, Prices
<1>15. n \in {0, n} /\ Summed(events')
  BY <1>10 DEF Gains
<1> QED  BY <1>1, <1>6, <1>9, <1>11, <1>12, <1>13, <1>14, <1>15, SettleKeepsAccounts

\* Waking and firing stops leaves the accounts alone.
LEMMA CascadeKeepsAccounts ==
  ASSUME LedgerInv, BookInv',
         WakeEnds \/ FireNext \/ SendBack \/ FireEnds \/ \E id \in Ids : WakeNext(id)
  PROVE  AccountsInv'
<1>1. /\ pc \in {"wake", "fire"} /\ pc' \in {"wake", "fire", "enter", "done"}
      /\ pc' = "enter" => origin' = "stop"
      /\ UNCHANGED <<result, resting, finished_orders>>
  BY DEF WakeEnds, FireNext, SendBack, FireEnds, WakeNext, Enter, bookVars, recordVars
<1>2. SameAccounts(events, events')
  <2>1. CASE FireNext
    <3>1. PICK e : e = StopEvent("StopTriggered", Head(triggered_stops))
      OBVIOUS
    <3>2. Emit(e) /\ e.kind = "StopTriggered"
      BY <2>1, <3>1 DEF FireNext, StopEvent
    <3>3. Gains(events, events', e)
      BY <3>2, EmitGains
    <3> QED  BY <3>2, <3>3, GainsNothing DEF Accounted
  <2>2. CASE ~FireNext
    <3>1. UNCHANGED events
      BY <2>2 DEF WakeEnds, SendBack, FireEnds, WakeNext
    <3> QED  BY <3>1, NoEventSameAccounts
  <2> QED  BY <2>1, <2>2
<1>3. \A id \in Ids : Unsettled(id)' = Unsettled(id)
  BY <1>1 DEF Unsettled
<1>4. (FirstEntry' <=> FirstEntry) /\ StaysSettled
  BY <1>1, SameOrdersStaySettled DEF FirstEntry
<1> QED  BY <1>1, <1>2, <1>3, <1>4, QuietKeepsAccounts

LEMMA ReturnKeepsAccounts ==
  ASSUME Return
  PROVE  Summed(events') /\ AccountsInv'
<1>1. events' = <<>> /\ pc' = "idle" /\ result' = None
  BY DEF Return
<1>2. \A kinds, id : Quantities(kinds, id)' = 0
  BY <1>1, NothingTotals DEF Quantities
<1> QED
  BY <1>1, <1>2, NothingTotals
     DEF AccountsInv, QuantitiesBalance, CallStartsEmpty, NothingToldYet, AnswerIsGiven, FateIsTold,
         AnsweredIsSettled, FirstEntry, Unsettled

\* The events still add up after every step of a call.
LEMMA StepKeepsSummed ==
  ASSUME LedgerInv, BookInv', Step
  PROVE  Summed(events')
<1>1. CASE UNCHANGED events
  BY <1>1, NoEventSameAccounts DEF SameAccounts
<1>2. ASSUME NEW e, Emit(e) PROVE Summed(events')
  BY <1>2, EmitGains DEF Gains
<1>3. ASSUME NEW t, NEW e, events' = Append(EventsAfterResume(t), e) PROVE Summed(events')
  BY <1>3, EntryGains DEF Gains
<1>4. CASE EnterRefused
  <2>1. origin = "new"
    BY <1>4, ReentryAccepted
       DEF EnterRefused, ReentryNeverRefused, LedgerInv, BookInv, CallInv, CallTypeOK
  <2> QED  BY <1>3, <1>4, <2>1 DEF EnterRefused
<1>5. CASE EnterAccepted
  BY <1>3, <1>5 DEF EnterAccepted
<1>6. CASE Walk
  <2>1. CASE WalkEnds
    BY <1>1, <2>1 DEF WalkEnds, StopQuietly
  <2>2. ASSUME NEW p, CollarStops(p) \/ SelfTradeStops(p) \/ BandStops(p) PROVE Summed(events')
    BY <1>1, <2>2 DEF CollarStops, SelfTradeStops, BandStops, StopQuietly
  <2>3. ASSUME NEW p, BandHalts(p) \/ Fill(p) PROVE Summed(events')
    BY <1>2, <2>3 DEF BandHalts, Fill
  <2> QED  BY <1>6, <2>1, <2>2, <2>3 DEF Walk
<1>7. CASE SettleRests \/ SettleExpires \/ FireNext
  BY <1>2, <1>7 DEF SettleRests, SettleExpires, FireNext
<1>8. CASE SettleFilled \/ WakeEnds \/ SendBack \/ FireEnds \/ \E id \in Ids : WakeNext(id)
  BY <1>1, <1>8 DEF SettleFilled, WakeEnds, SendBack, FireEnds, WakeNext
<1>9. CASE Return
  BY <1>9, ReturnKeepsAccounts
<1> QED  BY <1>4, <1>5, <1>6, <1>7, <1>8, <1>9 DEF Step

LEMMA StepKeepsAccounts ==
  ASSUME LedgerInv, BookInv', Step
  PROVE  AccountsInv'
<1>1. CASE EnterRefused
  BY <1>1, EnterRefusedKeepsAccounts
<1>2. CASE EnterAccepted
  BY <1>2, EnterAcceptedKeepsAccounts
<1>3. CASE Walk
  BY <1>3, StopKeepsAccounts, FillKeepsAccounts DEF Walk
<1>4. CASE SettleFilled
  BY <1>4, SettleFilledKeepsAccounts
<1>5. CASE SettleRests
  BY <1>5, SettleRestsKeepsAccounts
<1>6. CASE SettleExpires
  BY <1>6, SettleExpiresKeepsAccounts
<1>7. CASE WakeEnds \/ FireNext \/ SendBack \/ FireEnds \/ \E id \in Ids : WakeNext(id)
  BY <1>7, CascadeKeepsAccounts
<1>8. CASE Return
  BY <1>8, ReturnKeepsAccounts
<1> QED  BY <1>1, <1>2, <1>3, <1>4, <1>5, <1>6, <1>7, <1>8 DEF Step

\* Every call, every step of a call and every stutter preserves LedgerInv.
LEMMA NextKeepsLedger == LedgerInv /\ [Next]_vars => LedgerInv'
<1> SUFFICES ASSUME LedgerInv, [Next]_vars PROVE LedgerInv'
  OBVIOUS
<1>1. BookInv'
  BY NextKeepsInv DEF LedgerInv
<1>2. CASE Step
  BY <1>1, <1>2, StepKeepsSummed, StepKeepsAccounts DEF LedgerInv
<1>3. ASSUME NEW t \in Times, OrderCall(t) \/ StopCall(t) PROVE LedgerInv'
  <2>1. pc = "idle"
    BY <1>3 DEF OrderCall, StopCall, Call, add_order, cancel_order_refused, cancel_order,
                modify_order_refused, modify_order_cancels, modify_order_in_place,
                modify_order_replaces, place_stop_order_refused, place_stop_order,
                cancel_stop_order_refused, cancel_stop_order, modify_stop_order_refused,
                modify_stop_order, Refuse
  <2>2. CallBegins
    BY <1>1, <1>3, OrderCallBegins, StopCallBegins
  <2>3. AccountsInv'
    BY <2>1, <2>2, CallKeepsAccounts
  <2> QED  BY <1>1, <2>2, <2>3 DEF LedgerInv, CallBegins
<1>4. CASE UNCHANGED vars
  <2>1. UNCHANGED <<events, result, pc, origin, incoming, resting, finished_orders>>
    BY <1>4 DEF vars, bookVars, recordVars
  <2>2. Summed(events')
    BY <2>1 DEF LedgerInv
  <2>3. /\ \A id \in Ids : AcceptedIn(events', id) = SettledIn(events', id) + Unsettled(id)'
        /\ FirstEntry' => result' = None /\ \A id \in Ids : RefusedIn(events', id) = 0
        /\ result' # None /\ result'.call = "add" =>
             result'.unaccepted_quantity = RefusedIn(events', result'.id)
    BY <2>1, AccountsNow DEF Unsettled, FirstEntry
  <2>4. QuantitiesBalance' /\ NothingToldYet' /\ FateIsTold'
    BY <2>3, AccountsNext
  <2>5. CallStartsEmpty' /\ AnswerIsGiven' /\ AnsweredIsSettled'
    BY <2>1 DEF LedgerInv, AccountsInv, CallStartsEmpty, AnswerIsGiven, AnsweredIsSettled,
                FirstEntry, IsResting, IsFinished
  <2> QED  BY <1>1, <2>2, <2>4, <2>5 DEF LedgerInv, AccountsInv
<1> QED  BY <1>2, <1>3, <1>4 DEF Next

\* LedgerInv holds in every state: in the middle of a call, what its events say of an
\* accepted quantity and what the order in flight has left make up the whole.
THEOREM LedgerInvariant == Spec => []LedgerInv
<1>1. ASSUME Init PROVE LedgerInv
  <2>1. events = <<>> /\ pc = "idle" /\ result = None
    BY <1>1 DEF Init
  <2>2. \A kinds, id : Quantities(kinds, id) = 0
    BY <2>1, NothingTotals DEF Quantities
  <2>3. AccountsInv
    BY <2>1, <2>2
       DEF AccountsInv, QuantitiesBalance, CallStartsEmpty, NothingToldYet, AnswerIsGiven,
           FateIsTold, AnsweredIsSettled, FirstEntry, Unsettled
  <2> QED  BY <1>1, <2>1, <2>3, InitEstablishesInv, NothingTotals DEF LedgerInv
<1> QED  BY <1>1, NextKeepsLedger, PTL DEF Spec

\* What a call accepts under an id, of the order itself or of a stop that fired,
\* is traded, rests or expires, to the last unit (add_order_core).
THEOREM QuantitiesConserved == Spec => []QuantityConserved
<1>1. ASSUME LedgerInv PROVE QuantityConserved
  <2> SUFFICES ASSUME pc = "done", NEW id \in Ids
               PROVE  Quantities({"Accepted"}, id) = Quantities({"Trade", "Rested", "Expired"}, id)
    BY DEF QuantityConserved
  <2>1. AcceptedIn(events, id) = SettledIn(events, id) + Unsettled(id) /\ Unsettled(id) = 0
    BY <1>1, AccountsNow DEF Unsettled
  <2>2. SettledIn(events, id) \in Int
    BY <1>1, AccountsAreNumbers DEF LedgerInv
  <2> QED  BY <2>1, <2>2, AccountsOfLog
<1> QED  BY <1>1, LedgerInvariant, PTL

\* The quantity that the answer of add_order reports as not accepted is what the
\* Rejected or Expired event of the order says, and the cascade of stops behind it
\* does not change that.
THEOREM AnswersTellFate == Spec => []AnswerTellsFate
<1>1. ASSUME LedgerInv PROVE AnswerTellsFate
  <2>1. pc = "done" => result # None
    BY <1>1 DEF LedgerInv, AccountsInv, AnswerIsGiven, FirstEntry
  <2> QED  BY <1>1, <2>1 DEF LedgerInv, AccountsInv, FateIsTold, AnswerTellsFate
<1> QED  BY <1>1, LedgerInvariant, PTL

-----------------------------------------------------------------------------
(* What happens to the resting orders *)

\* One resting order leaves, or keeps its place with less left, or nothing happens.
Thins ==
  \/ UNCHANGED bookVars
  \/ \E id \in Ids :
       /\ resting[id] # None
       /\ remove_resting(id) \/ (resting'[id] # None /\ Reduce(id, resting'[id]))

\* An order with less left, and otherwise as it was, is what reduce_resting leaves.
LEMMA ShrinkThins ==
  ASSUME BookInv, NEW id \in Ids, resting[id] # None,
         NEW order \in Order, order = [resting[id] EXCEPT !.quantity = order.quantity,
                                                          !.filled = order.filled],
         order.quantity \in 1 .. resting[id].quantity,
         resting' = [resting EXCEPT ![id] = order], UNCHANGED <<levels, free_nodes>>
  PROVE  Thins
<1>1. resting'[id] = order /\ order # None
  BY NoneIsApart DEF BookInv, RestingInv, BookTypeOK
<1>2. Reduce(id, order)
  BY DEF Reduce
<1> QED  BY <1>1, <1>2 DEF Thins

\* A cancel takes the order off the book.
LEMMA CancelRestThins ==
  ASSUME NEW id \in Ids, resting[id] # None, CancelRest(id)
  PROVE  Thins
BY DEF CancelRest, Thins

\* The calls about orders only take resting orders out or reduce them.
LEMMA OrderCallThins ==
  ASSUME BookInv, NEW t \in Times, OrderCall(t)
  PROVE  Thins
<1>0. ASSUME NEW target \in Targets PROVE target.id \in Ids /\ target.requester \in Owners
  BY <1>0, ArgumentsTyped
<1>1. ASSUME NEW order, add_order(order, t) PROVE Thins
  BY <1>1 DEF add_order, Thins
<1>2. ASSUME NEW id, NEW requester, cancel_order_refused(id, requester, t) PROVE Thins
  BY <1>2 DEF cancel_order_refused, Refuse, Thins
<1>3. ASSUME NEW id \in Ids, NEW requester, cancel_order(id, requester, t) PROVE Thins
  <2>1. resting[id] # None
    BY <1>3 DEF cancel_order, CancelRefusal, GoneReason
  <2> QED  BY <1>3, <2>1, CancelRestThins DEF cancel_order
<1>4. ASSUME NEW id, NEW requester, NEW a, modify_order_refused(id, requester, a, t)
      PROVE  Thins
  BY <1>4 DEF modify_order_refused, Refuse, Thins
<1>5. ASSUME NEW id \in Ids, NEW requester \in Owners, NEW a \in Amendments,
             modify_order_cancels(id, requester, a, t)
      PROVE  Thins
  <2>1. Modifiable(id, a, t)
    BY <1>5, ModifyAccepted DEF modify_order_cancels
  <2> QED  BY <1>5, <2>1, CancelRestThins DEF modify_order_cancels, Modifiable
<1>6. ASSUME NEW id \in Ids, NEW requester \in Owners, NEW a \in Amendments,
             modify_order_in_place(id, requester, a, t)
      PROVE  Thins
  <2>1. Modifiable(id, a, t)
    BY <1>6, ModifyAccepted DEF modify_order_in_place
  <2>2. /\ resting[id] # None /\ resting[id] \in Order
        /\ Amended(id, a) \in Order
        /\ NewRemaining(id, a) > 0 /\ NewRemaining(id, a) <= resting[id].quantity
        /\ a.price = resting[id].price
        /\ resting' = [resting EXCEPT ![id] = Amended(id, a)]
        /\ UNCHANGED <<levels, free_nodes>>
    BY <1>6, <2>1 DEF modify_order_in_place, KeepsPlace, Modifiable
  <2>3. PICK n \in Int : n = NewRemaining(id, a)
    BY <2>1 DEF Modifiable
  <2>4. PICK order \in Order : order = Amended(id, a)
    BY <2>2
  <2>5. order = [resting[id] EXCEPT !.price = a.price, !.quantity = n]
    BY <2>3, <2>4 DEF Amended
  <2>6. order.quantity = n /\ order.filled = resting[id].filled
    BY <2>2, <2>5 DEF Order
  <2>7. order = [resting[id] EXCEPT !.quantity = order.quantity, !.filled = order.filled]
    BY <2>2, <2>5, <2>6 DEF Order
  <2>8. order.quantity \in 1 .. resting[id].quantity
    BY <2>2, <2>3, <2>6 DEF Order
  <2> QED  BY <2>2, <2>4, <2>7, <2>8, ShrinkThins
<1>7. ASSUME NEW id \in Ids, NEW requester \in Owners, NEW a \in Amendments,
             modify_order_replaces(id, requester, a, t)
      PROVE  Thins
  <2>1. Modifiable(id, a, t)
    BY <1>7, ModifyAccepted DEF modify_order_replaces
  <2> QED  BY <1>7, <2>1 DEF modify_order_replaces, Modifiable, Thins
<1> QED  BY <1>0, <1>1, <1>2, <1>3, <1>4, <1>5, <1>6, <1>7 DEF OrderCall

\* The calls about stops leave the resting orders alone.
LEMMA StopCallThins ==
  ASSUME NEW t \in Times, StopCall(t)
  PROVE  Thins
<1>1. UNCHANGED bookVars
  BY DEF StopCall, place_stop_order_refused, place_stop_order, cancel_stop_order_refused,
         cancel_stop_order, modify_stop_order_refused, modify_stop_order, Refuse
<1> QED  BY <1>1 DEF Thins

\* A fill reduces the first order of the level, or takes it off the book.
LEMMA FillThins ==
  ASSUME BookInv, NEW p, Fill(p)
  PROVE  Thins
<1>1. AtLevel(p) /\ pc = "match"
  BY DEF Fill, AtLevel
<1>2. incoming \in Order /\ incoming.quantity > 0 /\ incoming.quantity \in Int
  BY <1>1, EntryFacts DEF AtLevel, BookInv, Order
<1>3. PICK passive : passive = HeadOf(p)
  OBVIOUS
<1>4. PICK id : id = passive.id
  OBVIOUS
<1>5. passive \in Order /\ id \in Ids /\ resting[id] = passive /\ passive # None
  BY <1>1, <1>3, <1>4, LevelHasHead
<1>6. PICK left \in Int : left = passive.quantity /\ left > 0
  BY <1>1, <1>3, <1>5, LevelHasHead DEF Order
<1>7. PICK n \in Nat : /\ n = IF incoming.quantity < left THEN incoming.quantity ELSE left
                       /\ n > 0 /\ n <= left
  BY <1>2, <1>6
<1>8. CASE n = left
  <2>1. remove_resting(id)
    BY <1>3, <1>4, <1>6, <1>7, <1>8 DEF Fill
  <2> QED  BY <1>5, <2>1 DEF Thins
<1>9. CASE n # left
  <2>1. resting' = [resting EXCEPT ![id] = Taken(passive, n)] /\ UNCHANGED <<levels, free_nodes>>
    BY <1>3, <1>4, <1>6, <1>7, <1>9 DEF Fill
  <2>2. PICK order \in Order : order = Taken(passive, n)
    BY <1>5, TakenType
  <2>3. order.quantity = left - n
    BY <1>5, <1>6, <2>2, TakenType
  <2>4. order = [passive EXCEPT !.quantity = order.quantity, !.filled = order.filled]
    BY <1>5, <2>2 DEF Taken, Order
  <2>5. order.quantity \in 1 .. left
    BY <1>6, <1>7, <1>9, <2>3
  <2> QED  BY <1>5, <1>6, <2>1, <2>2, <2>4, <2>5, ShrinkThins
<1> QED  BY <1>8, <1>9

\* An order joins the resting ones nowhere but where its remainder rests.
LEMMA StepThins ==
  ASSUME BookInv, [Next]_vars, ~SettleRests
  PROVE  Thins
<1>1. CASE EnterRefused \/ EnterAccepted
  BY <1>1 DEF EnterRefused, EnterAccepted, Thins
<1>2. CASE WalkEnds
  BY <1>2 DEF WalkEnds, StopQuietly, Stop, Thins
<1>3. ASSUME NEW p, CollarStops(p) \/ SelfTradeStops(p) \/ BandHalts(p) \/ BandStops(p)
      PROVE  Thins
  BY <1>3 DEF CollarStops, SelfTradeStops, BandHalts, BandStops, StopQuietly, Stop, Thins
<1>4. CASE SettleFilled \/ SettleExpires
  BY <1>4 DEF SettleFilled, SettleExpires, Thins
<1>5. ASSUME NEW id, WakeNext(id) PROVE Thins
  BY <1>5 DEF WakeNext, Thins
<1>6. CASE WakeEnds \/ FireNext \/ SendBack \/ FireEnds \/ Return
  BY <1>6 DEF WakeEnds, FireNext, SendBack, FireEnds, Return, Thins
<1>7. CASE UNCHANGED vars
  BY <1>7 DEF vars, bookVars, Thins
<1>8. CASE Step
  BY <1>1, <1>2, <1>3, <1>4, <1>5, <1>6, <1>8, FillThins DEF Step, Walk
<1> QED  BY <1>7, <1>8, OrderCallThins, StopCallThins DEF Next

\* What SettleRests does to the resting orders: the remainder, at a valid price,
\* takes a node; its id is in no other place.
LEMMA RemainderRests ==
  ASSUME BookInv, SettleRests
  PROVE  \E order \in Order :
           /\ order.id = incoming.id /\ order.side = incoming.side /\ order.price = RestPrice
           /\ order.price \in Int
           /\ resting[order.id] = None /\ free_nodes > 0
           /\ Rest(order)
<1>1. pc = "settle" /\ incoming.type = "Limit" /\ MayRest
  BY DEF SettleRests, Settle, MayRest
<1>2. incoming \in Order /\ incoming # None /\ incoming.id \in Ids
  BY <1>1, EntryFacts DEF BookInv
<1>3. PICK price \in Int : price = RestPrice
  BY <1>1, RestPriceValid DEF BookInv
<1>4. PICK order \in Order : order = [incoming EXCEPT !.price = price]
  BY <1>2 DEF Order, Prices
<1>a. order.id = incoming.id /\ order.side = incoming.side /\ order.price = price
  BY <1>2, <1>4 DEF Order
<1>5. resting[incoming.id] = None
  BY <1>1, <1>2 DEF IsInFlight, IsResting, BookInv, PlacesInv, LifeCycle, OnePlace
<1>6. Rest(order)
  BY <1>3, <1>4 DEF SettleRests
<1> QED  BY <1>1, <1>3, <1>5, <1>6, <1>a DEF MayRest

\* The book does to its resting orders, levels and pool what RestingOrders allows, whatever
\* the calls are: so the linked nodes of BookLevels can stand in for them.
THEOREM BookMovesRestingOrders == Spec => RestingSpec
<1>1. Init => RestingInit
  BY DEF Init, RestingInit
<1>2. ASSUME BookInv, [Next]_vars PROVE [RestingNext]_bookVars
  <2>1. CASE SettleRests
    <3>1. PICK order \in Order : /\ resting[order.id] = None /\ free_nodes > 0
                                 /\ Rest(order)
      BY <1>2, <2>1, RemainderRests
    <3>2. order.id \in Ids /\ order # None
      BY NoneIsApart DEF Order
    <3>3. resting'[order.id] = order
      BY <1>2, <3>1, <3>2 DEF Rest, BookInv, RestingInv, BookTypeOK
    <3> QED  BY <3>1, <3>2, <3>3 DEF RestingNext
  <2>2. CASE ~SettleRests
    BY <1>2, <2>2, StepThins DEF Thins, RestingNext
  <2> QED  BY <2>1, <2>2
<1> QED  BY <1>1, <1>2, BookInvariant, PTL DEF Spec, RestingSpec

-----------------------------------------------------------------------------
(* Crossing *)

\* Prices of levels are valid, and there is a highest they can have.
LevelsBounded ==
  \E m \in Nat : \A side \in Sides : \A p \in DOMAIN levels[side] : p <= m

\* What the walk leaves, in every state.
CrossInv == BookInv /\ LevelsBounded /\ WalkIsOver

\* A level's price is valid, being that of its orders.
LEMMA LevelPrices ==
  ASSUME BookInv, NEW side \in Sides, NEW p \in DOMAIN levels[side]
  PROVE  p \in Nat \ {0}
<1>1. RestingInv
  BY DEF BookInv
<1>2. levels[side][p] \in Seq(Ids) /\ levels[side][p] # <<>> /\ p \in Int
  BY <1>1 DEF RestingInv, BookTypeOK, LevelsTypeOK, LevelsAgree, LevelEntries
<1>3. 1 \in DOMAIN levels[side][p] /\ levels[side][p][1] \in Ids
  BY <1>2
<1>4. resting[levels[side][p][1]] # None /\ resting[levels[side][p][1]].price = p
  BY <1>1, <1>3 DEF RestingInv, LevelsAgree, LevelEntries
<1> QED  BY <1>1, <1>3, <1>4 DEF RestingInv, RestingValid, IsResting, ValidPrice

\* A set of prices that is not empty has a least one.
LEMMA LeastNumber ==
  ASSUME NEW T, T \subseteq Nat, T # {}
  PROVE  \E n \in T : \A m \in T : n <= m
<1> DEFINE Below == OpToRel(<, Nat)
<1>1. \A m, n \in Nat : <<m, n>> \in Below <=> m < n
  BY DEF OpToRel
<1>2. IsWellFoundedOn(Below, Nat)
  BY NatLessThanWellFounded
<1> HIDE DEF Below
<1>3. PICK n \in T : \A m \in T : ~(<<m, n>> \in Below)
  BY <1>2, WFMin
<1>4. n \in Nat /\ \A m \in T : m \in Nat /\ ~(m < n)
  BY <1>1, <1>3
<1> QED  BY <1>4

\* A side that has a level has a best one (the first of the map).
LEMMA BestExists ==
  ASSUME BookInv, LevelsBounded, NEW side \in Sides, DOMAIN levels[side] # {}
  PROVE  \E p : IsBest(side, p)
<1> DEFINE S == DOMAIN levels[side]
<1>1. \A p \in S : p \in Nat
  BY LevelPrices
<1>2. PICK m \in Nat : \A p \in S : p <= m
  BY DEF LevelsBounded
<1>3. PICK q : q \in S
  OBVIOUS
<1>4. CASE side = "Buy"
  <2> DEFINE T == {m - p : p \in S}
  <2>1. T \subseteq Nat /\ T # {}
    BY <1>1, <1>2, <1>3
  <2>2. PICK t \in T : \A u \in T : t <= u
    BY <2>1, LeastNumber
  <2>3. PICK p \in S : t = m - p
    OBVIOUS
  <2>4. \A r \in S : p >= r
    <3> SUFFICES ASSUME NEW r \in S PROVE p >= r
      OBVIOUS
    <3>1. t <= m - r
      BY <2>2
    <3> QED  BY <1>1, <2>3, <3>1
  <2> QED  BY <1>4, <2>4 DEF IsBest, AtLeastAsGood
<1>5. CASE side # "Buy"
  <2>1. S \subseteq Nat /\ S # {}
    BY <1>1
  <2>2. PICK p \in S : \A r \in S : p <= r
    BY <2>1, LeastNumber
  <2> QED  BY <1>5, <2>2 DEF IsBest, AtLeastAsGood
<1> QED  BY <1>4, <1>5

\* Taking an order out or reducing it adds no level.
LEMMA ThinsLevels ==
  ASSUME BookInv, Thins
  PROVE  \A side \in Sides : DOMAIN levels'[side] \subseteq DOMAIN levels[side]
<1>1. CASE UNCHANGED levels
  BY <1>1
<1>2. ASSUME NEW id \in Ids, resting[id] # None, remove_resting(id)
      PROVE  \A side \in Sides : DOMAIN levels'[side] \subseteq DOMAIN levels[side]
  <2>1. resting[id] \in Order /\ resting[id].side \in Sides /\ DOMAIN levels = Sides
    BY <1>2 DEF BookInv, RestingInv, BookTypeOK, LevelsTypeOK, Order
  <2>2. PICK s \in Sides : s = resting[id].side
    BY <2>1
  <2>3. PICK q : q = resting[id].price
    OBVIOUS
  <2>4. levels' = [levels EXCEPT ![s] = Unlink(levels[s], q, id)]
    BY <1>2, <2>2, <2>3 DEF remove_resting
  <2>5. DOMAIN Unlink(levels[s], q, id) \subseteq DOMAIN levels[s]
    BY DEF Unlink
  <2> HIDE DEF Unlink
  <2> QED  BY <2>1, <2>4, <2>5
<1> QED  BY <1>1, <1>2 DEF Thins, Reduce, bookVars

\* A resting order adds at most the level of its price.
LEMMA RestLevels ==
  ASSUME BookInv, NEW order \in Order, Rest(order)
  PROVE  \A side \in Sides : \A p \in DOMAIN levels'[side] :
           p \in DOMAIN levels[side] \/ (side = order.side /\ p = order.price)
<1>1. order.side \in Sides /\ DOMAIN levels = Sides
  BY DEF BookInv, RestingInv, BookTypeOK, LevelsTypeOK, Order
<1>2. PICK s \in Sides : s = order.side
  BY <1>1
<1>3. PICK q : q = order.price
  OBVIOUS
<1>4. PICK new : new = Link(levels[s], q, order.id)
  OBVIOUS
<1>5. levels' = [levels EXCEPT ![s] = new]
  BY <1>2, <1>3, <1>4 DEF Rest
<1>6. DOMAIN new = DOMAIN levels[s] \cup {q}
  BY <1>4 DEF Link
<1> QED  BY <1>1, <1>2, <1>3, <1>5, <1>6

\* Every level has a price below some number, also after a step.
LEMMA LevelsStayBounded ==
  ASSUME BookInv, LevelsBounded, [Next]_vars
  PROVE  LevelsBounded'
<1>1. PICK m \in Nat : \A side \in Sides : \A p \in DOMAIN levels[side] : p <= m
  BY DEF LevelsBounded
<1>2. CASE SettleRests
  <2>1. PICK order \in Order : order.price \in Int /\ Rest(order)
    BY <1>2, RemainderRests
  <2>2. PICK q \in Int : q = order.price
    BY <2>1
  <2>3. PICK n \in Nat : n >= m /\ n >= q
    <3>1. CASE q >= m
      BY <3>1
    <3>2. CASE ~(q >= m)
      BY <3>2
    <3> QED  BY <3>1, <3>2
  <2>4. \A side \in Sides : \A p \in DOMAIN levels'[side] : p <= n
    <3> SUFFICES ASSUME NEW side \in Sides, NEW p \in DOMAIN levels'[side] PROVE p <= n
      OBVIOUS
    <3>1. CASE p \in DOMAIN levels[side]
      <4>1. p \in Nat /\ p <= m
        BY <1>1, <3>1, LevelPrices
      <4> QED  BY <2>3, <4>1
    <3>2. CASE p \notin DOMAIN levels[side]
      <4>1. p = q
        BY <2>1, <2>2, <3>2, RestLevels
      <4> QED  BY <2>3, <4>1
    <3> QED  BY <3>1, <3>2
  <2> QED  BY <2>4 DEF LevelsBounded
<1>3. CASE ~SettleRests
  <2>1. \A side \in Sides : DOMAIN levels'[side] \subseteq DOMAIN levels[side]
    BY <1>3, StepThins, ThinsLevels
  <2> QED  BY <1>1, <2>1 DEF LevelsBounded
<1> QED  BY <1>2, <1>3


\* A walk that ends leaves no level that its limit price crosses: there is no best one
\* that does (the loop of plan_match).
LEMMA WalkEndsUncrossed ==
  ASSUME BookInv, LevelsBounded, WalkEnds, incoming.quantity > 0, incoming.type = "Limit",
         NEW p \in DOMAIN levels[Opposite(incoming.side)]
  PROVE  ~AtLeastAsGood(incoming.side, incoming.price, p)
<1>1. pc = "match" /\ \A q \in DOMAIN levels[Opposite(incoming.side)] : ~AtLevel(q)
  BY DEF WalkEnds
<1>2. PICK side \in Sides : side = Opposite(incoming.side)
  BY DEF Opposite, Sides
<1>3. PICK best : IsBest(side, best)
  BY <1>2, BestExists
<1>4. best \in DOMAIN levels[side] /\ AtLeastAsGood(side, best, p)
  BY <1>2, <1>3 DEF IsBest
<1>5. ~AtLeastAsGood(incoming.side, incoming.price, best)
  BY <1>1, <1>2, <1>3, <1>4 DEF AtLevel
<1>6. best \in Int /\ p \in Int
  BY <1>2, <1>4, LevelPrices
<1>7. incoming.price \in Int
  BY <1>1, EntryFacts DEF BookInv, CallInv, IncomingValid, ValidPrice
<1> QED  BY <1>2, <1>4, <1>5, <1>6, <1>7 DEF AtLeastAsGood, Opposite

\* A walk that stops leaves the order and the levels as they were.
LEMMA StopIsOver ==
  ASSUME BookInv, NEW why, Stop(why), pc = "match",
         incoming.type = "Limit" => why \in {"None", "SelfTrade", "SymbolHalted", "PriceBand"},
         incoming.type = "Limit" /\ incoming.quantity > 0 /\ why = "None" =>
           \A p \in DOMAIN levels[Opposite(incoming.side)] :
             ~AtLeastAsGood(incoming.side, incoming.price, p),
         why \in {"SymbolHalted", "PriceBand"} =>
           \E p \in DOMAIN levels[Opposite(incoming.side)] :
             IsBest(Opposite(incoming.side), p) /\ ~within_band(p)
  PROVE  WalkIsOver'
<1>1. /\ verdict' = why /\ UNCHANGED <<levels, incoming, reference_price>>
  BY DEF Stop, bookVars
<1>2. \A p : (IsBest(Opposite(incoming.side), p) <=> IsBest(Opposite(incoming.side), p)')
  BY <1>1 DEF IsBest
<1>3. \A p : within_band(p) <=> within_band(p)'
  BY <1>1 DEF within_band, lower_limit, upper_limit
<1> QED  BY <1>1, <1>2, <1>3 DEF WalkIsOver, StoppedByBand

\* Each way in which a walk ends leaves what WalkIsOver says of it.
LEMMA WalkEndsOver ==
  ASSUME BookInv, LevelsBounded, WalkIsOver, [Next]_vars
  PROVE  WalkIsOver'
<1>1. CASE WalkEnds
  <2>1. pc = "match" /\ Stop("None")
    BY <1>1 DEF WalkEnds, StopQuietly
  <2> QED  BY <1>1, <2>1, WalkEndsUncrossed, StopIsOver
<1>2. ASSUME NEW p, CollarStops(p) PROVE WalkIsOver'
  <2>1. pc = "match" /\ Stop("PriceCollar") /\ incoming.type # "Limit"
    BY <1>2 DEF CollarStops, StopQuietly, AtLevel, inside_collar
  <2> QED  BY <2>1, StopIsOver
<1>3. ASSUME NEW p, SelfTradeStops(p) PROVE WalkIsOver'
  <2>1. pc = "match" /\ Stop("SelfTrade")
    BY <1>3 DEF SelfTradeStops, StopQuietly, AtLevel
  <2> QED  BY <2>1, StopIsOver
<1>4. ASSUME NEW p, BandHalts(p) PROVE WalkIsOver'
  <2>1. pc = "match" /\ Stop("SymbolHalted") /\ AtLevel(p) /\ ~within_band(p)
    BY <1>4 DEF BandHalts, AtLevel
  <2>2. \E q \in DOMAIN levels[Opposite(incoming.side)] :
          IsBest(Opposite(incoming.side), q) /\ ~within_band(q)
    BY <2>1 DEF AtLevel, IsBest
  <2> QED  BY <2>1, <2>2, StopIsOver
<1>5. ASSUME NEW p, BandStops(p) PROVE WalkIsOver'
  <2>1. pc = "match" /\ Stop("PriceBand") /\ AtLevel(p) /\ ~within_band(p)
    BY <1>5 DEF BandStops, StopQuietly, AtLevel
  <2>2. \E q \in DOMAIN levels[Opposite(incoming.side)] :
          IsBest(Opposite(incoming.side), q) /\ ~within_band(q)
    BY <2>1 DEF AtLevel, IsBest
  <2> QED  BY <2>1, <2>2, StopIsOver
<1>6. CASE pc' # "settle"
  BY <1>6 DEF WalkIsOver
<1>7. CASE UNCHANGED vars
  BY <1>7 DEF vars, bookVars, walkVars, WalkIsOver, StoppedByBand, IsBest, within_band, lower_limit,
              upper_limit
<1>8. ASSUME NEW t \in Times, OrderCall(t) \/ StopCall(t) PROVE pc' # "settle"
  BY <1>8 DEF OrderCall, StopCall, add_order, cancel_order_refused, cancel_order,
     modify_order_refused, modify_order_cancels, modify_order_in_place, modify_order_replaces,
     place_stop_order_refused, place_stop_order, cancel_stop_order_refused, cancel_stop_order,
     modify_stop_order_refused, modify_stop_order, Refuse, Finish, Enter
<1>9. CASE \/ EnterRefused \/ EnterAccepted \/ SettleFilled \/ SettleRests \/ SettleExpires
           \/ WakeEnds \/ FireNext \/ SendBack \/ FireEnds \/ Return
           \/ (\E p : Fill(p)) \/ (\E id \in Ids : WakeNext(id))
  <2>1. pc' # "settle"
    BY <1>9 DEF EnterRefused, EnterAccepted, SettleFilled, SettleRests, SettleExpires, Settle,
       AfterEntry, WakeEnds, FireNext, Enter, SendBack, FireEnds, Return, Fill, AtLevel, WakeNext
  <2> QED  BY <1>6, <2>1
<1> QED  BY <1>1, <1>2, <1>3, <1>4, <1>5, <1>6, <1>7, <1>8, <1>9 DEF Next, Step, Walk

\* CrossInv is inductive.
LEMMA NextKeepsCross == CrossInv /\ [Next]_vars => CrossInv'
BY NextKeepsInv, LevelsStayBounded, WalkEndsOver DEF CrossInv

\* In every state the levels have a best, and a walk that is over has left nothing its
\* limit crosses unless its own order or the band stopped it.
THEOREM CrossInvariant == Spec => []CrossInv
<1>1. Init => CrossInv
  <2> SUFFICES ASSUME Init PROVE CrossInv
    OBVIOUS
  <2>1. \A side \in Sides : \A p \in DOMAIN levels[side] : p <= 0
    BY DEF Init
  <2>2. LevelsBounded
    BY <2>1 DEF LevelsBounded
  <2>3. WalkIsOver
    BY DEF Init, WalkIsOver
  <2> QED  BY <2>2, <2>3, InitEstablishesInv DEF CrossInv
<1> QED  BY <1>1, NextKeepsCross, PTL DEF Spec

\* A remainder rests on its own side of all that is left on the other, unless the band
\* stopped it at a level before the band.
LEMMA RestPriceBehind ==
  ASSUME CrossInv, SettleRests, ~StoppedBeforeBand,
         NEW p \in DOMAIN levels[Opposite(incoming.side)]
  PROVE  ~AtLeastAsGood(incoming.side, RestPrice, p)
<1>1. /\ pc = "settle" /\ incoming.type = "Limit" /\ incoming.quantity > 0
      /\ verdict # "SelfTrade"
  BY DEF SettleRests, Settle, MayRest
<1>2. BookInv /\ WalkIsOver
  BY DEF CrossInv
<1>3. PICK side \in Sides : side = Opposite(incoming.side)
  BY DEF Opposite, Sides
<1>4. CASE verdict = "None"
  <2>1. RestPrice = incoming.price
    BY <1>4 DEF RestPrice, StoppedByBand
  <2> QED  BY <1>1, <1>2, <1>4, <2>1 DEF WalkIsOver
<1>5. CASE StoppedByBand
  <2>1. PICK best \in DOMAIN levels[side] : IsBest(side, best) /\ ~within_band(best)
    BY <1>1, <1>2, <1>3, <1>5 DEF WalkIsOver
  <2>2. best \in Int /\ p \in Int
    BY <1>2, <1>3, <2>1, LevelPrices
  <2>3. reference_price # None /\ reference_price \in Nat \ {0}
    BY <1>2, <1>5 DEF BookInv, CallInv, ReferenceValid, ValidPrice
  <2>4. PICK upper \in Int : upper = upper_limit(BandBps)
    BY <2>3, EdgesValid
  <2>5. PICK lower \in Int : lower = lower_limit(BandBps)
    BY <2>3, EdgesValid
  <2>6. ~(lower <= best /\ best <= upper)
    BY <2>1, <2>2, <2>4, <2>5 DEF within_band
  <2>7. ~BeforeBand(best)
    BY <1>1, <1>3, <1>5, <2>1 DEF StoppedBeforeBand
  <2>8. IF incoming.side = "Buy" THEN best >= lower ELSE best <= upper
    BY <2>2, <2>3, <2>4, <2>5, <2>7 DEF BeforeBand
  <2>9. AtLeastAsGood(side, best, p)
    BY <1>3, <2>1 DEF IsBest
  <2>10. PICK price \in Int : price = incoming.price
    BY <1>1, <1>2, EntryFacts DEF BookInv, CallInv, IncomingValid, ValidPrice
  <2>11. PICK edge \in Int : edge = IF incoming.side = "Buy" THEN upper ELSE lower
    OBVIOUS
  <2>12. RestPrice = IF AtLeastAsGood(incoming.side, price, edge) THEN edge ELSE price
    BY <1>1, <1>5, <2>4, <2>5, <2>10, <2>11 DEF RestPrice
  <2> QED  BY <1>3, <2>2, <2>6, <2>8, <2>9, <2>11, <2>12 DEF AtLeastAsGood, Opposite
<1> QED  BY <1>1, <1>2, <1>4, <1>5 DEF WalkIsOver, StoppedByBand

\* A step crosses an uncrossed book only where the band stopped the order before the band.
LEMMA StepKeepsUncrossed ==
  ASSUME CrossInv, [Next]_vars, NeverCrossed, ~StoppedBeforeBand
  PROVE  NeverCrossed'
<1>0. BookInv
  BY DEF CrossInv
<1>1. CASE ~SettleRests
  <2>1. \A side \in Sides : DOMAIN levels'[side] \subseteq DOMAIN levels[side]
    BY <1>0, <1>1, StepThins, ThinsLevels
  <2> QED  BY <2>1 DEF NeverCrossed, Sides
<1>2. CASE SettleRests
  <2>1. PICK order \in Order : /\ order.side = incoming.side /\ order.price = RestPrice
                               /\ order.price \in Int /\ Rest(order)
    BY <1>0, <1>2, RemainderRests
  <2>2. PICK q \in Int : q = RestPrice
    BY <2>1
  <2>3. order.side \in Sides
    BY DEF Order
  <2>4. \A side \in Sides : \A p \in DOMAIN levels'[side] :
          p \in DOMAIN levels[side] \/ (side = incoming.side /\ p = q)
    BY <1>0, <2>1, <2>2, RestLevels
  <2>5. \A p \in DOMAIN levels[Opposite(incoming.side)] : ~AtLeastAsGood(incoming.side, q, p)
    BY <1>2, <2>2, RestPriceBehind
  <2>6. \A side \in Sides : \A p \in DOMAIN levels[side] : p \in Int
    BY <1>0, LevelPrices
  <2> SUFFICES ASSUME NEW bid \in DOMAIN levels'["Buy"], NEW ask \in DOMAIN levels'["Sell"]
               PROVE  bid < ask
    BY DEF NeverCrossed
  <2>7. CASE bid \in DOMAIN levels["Buy"] /\ ask \in DOMAIN levels["Sell"]
    BY <2>7 DEF NeverCrossed
  <2>8. CASE bid \notin DOMAIN levels["Buy"]
    <3>1. incoming.side = "Buy" /\ bid = q /\ ask \in DOMAIN levels["Sell"]
      BY <2>4, <2>8 DEF Sides
    <3> QED  BY <2>5, <2>6, <3>1 DEF AtLeastAsGood, Opposite, Sides
  <2>9. CASE ask \notin DOMAIN levels["Sell"]
    <3>1. incoming.side = "Sell" /\ ask = q /\ bid \in DOMAIN levels["Buy"]
      BY <2>4, <2>9 DEF Sides
    <3> QED  BY <2>5, <2>6, <3>1 DEF AtLeastAsGood, Opposite, Sides
  <2> QED  BY <2>7, <2>8, <2>9
<1> QED  BY <1>1, <1>2

\* No call and no step crosses an uncrossed book (the last check of check_invariants) but
\* one: the rest of a remainder that the band stopped before the band, book.cpp:194.
THEOREM OnlyTheBandCrosses == Spec => CrossedOnlyThere
<1>1. CrossInv /\ [Next]_vars => [NeverCrossed => NeverCrossed' \/ StoppedBeforeBand]_vars
  BY StepKeepsUncrossed
<1> QED  BY <1>1, CrossInvariant, PTL DEF Spec, CrossedOnlyThere

\* As long as the band stops no limit order before the band, no bid is at or above an ask:
\* the comment at book.cpp:188-190 holds wherever its reason does.
THEOREM UncrossedOtherwise == Spec /\ [](~StoppedBeforeBand) => []NeverCrossed
<1>1. Init => NeverCrossed
  BY DEF Init, NeverCrossed, Sides
<1>2. CrossInv /\ [Next]_vars /\ ~StoppedBeforeBand /\ NeverCrossed => NeverCrossed'
  BY StepKeepsUncrossed
<1> QED  BY <1>1, <1>2, CrossInvariant, PTL DEF Spec

=============================================================================
