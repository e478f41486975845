--------------------------- MODULE EngineFeedProofs ---------------------------
(***************************************************************************)
(* The seats of the gateways, for every value of the constants: the maps   *)
(* of the publisher agree in every state, and a stream that ends frees its *)
(* own seat and no other.                                                  *)
(***************************************************************************)
EXTENDS EngineFeedProperties, SequenceTheorems, TLAPS

-----------------------------------------------------------------------------
(* The inductive invariant *)

\* An object with the fields of a Subscription.
IsSubscription(sub) ==
  /\ sub = [gateway |-> sub.gateway, items |-> sub.items, end_reason |-> sub.end_reason,
            capacity |-> sub.capacity]
  /\ sub.gateway \in Gateways

\* An object with the fields of a Subscriber.
IsSubscriber(entry) ==
  /\ entry = [kind |-> entry.kind, symbols |-> entry.symbols]
  /\ entry.kind \in Kinds

\* The fields of a handler's state that matter here.
IsStream(x) == {"pc", "id"} \subseteq DOMAIN x

\* Ids are given in order, and only given ids are in the registry.
RegistryOK ==
  /\ next_id \in Nat \ {0}
  /\ subscription = [id \in 1 .. next_id - 1 |-> subscription[id]]
  /\ \A id \in 1 .. next_id - 1 : IsSubscription(subscription[id])
  /\ subscribers = [id \in DOMAIN subscribers |-> subscribers[id]]
  /\ DOMAIN subscribers \subseteq 1 .. next_id - 1
  /\ \A id \in DOMAIN subscribers : IsSubscriber(subscribers[id])

RegistryInv == RegistryOK /\ SeatsAgree

\* A handler that has not called subscribe has no id, and the others have given ones.
StreamsOK ==
  /\ stream = [r \in Streams |-> stream[r]]
  /\ \A r \in Streams :
       /\ IsStream(stream[r])
       /\ stream[r].id \in 0 .. next_id - 1
       /\ At(r, "none") => stream[r].id = 0

SeatsInv == RegistryInv /\ StreamsOK /\ LeaveFreesOwnSeat

-----------------------------------------------------------------------------
(* Operators of Publisher *)

\* What Append does to the subscriptions.
LEMMA AppendIs ==
  ASSUME NEW n \in Nat, NEW f, f = [i \in 1 .. n |-> f[i]], NEW x
  PROVE  Append(f, x) = [i \in 1 .. n + 1 |-> IF i = n + 1 THEN x ELSE f[i]]
<1> DEFINE S == {f[i] : i \in 1 .. n} \cup {x}
<1>1. f \in [1 .. n -> S]
  OBVIOUS
<1>2. f \in Seq(S)
  BY <1>1
<1>3. Len(f) = n
  BY <1>1, <1>2
<1> QED  BY <1>2, <1>3

\* A push changes neither the gateway nor the end of a subscription (try_push).
LEMMA PushedKeeps ==
  ASSUME NEW sub, IsSubscription(sub), NEW item
  PROVE  /\ IsSubscription(Pushed(sub, item))
         /\ Pushed(sub, item).gateway = sub.gateway
         /\ Pushed(sub, item).end_reason = sub.end_reason
<1>0. PICK g, i, e, c : sub = [gateway |-> g, items |-> i, end_reason |-> e, capacity |-> c]
  BY DEF IsSubscription
<1>1. CASE HasEnded(sub) \/ IsFull(sub)
  BY <1>1 DEF Pushed
<1>2. CASE ~(HasEnded(sub) \/ IsFull(sub))
  <2> DEFINE items == Append(sub.items, item)
  <2>1. Pushed(sub, item) = [sub EXCEPT !.items = items]
    BY <1>2 DEF Pushed
  <2> HIDE DEF items
  <2>2. [sub EXCEPT !.items = items] =
          [gateway |-> sub.gateway, items |-> items, end_reason |-> sub.end_reason,
           capacity |-> sub.capacity]
    BY <1>0
  <2> QED  BY <2>1, <2>2 DEF IsSubscription
<1> QED  BY <1>1, <1>2

\* The first reason of an end stays, and an end keeps the gateway (end).
LEMMA EndedKeeps ==
  ASSUME NEW sub, IsSubscription(sub), NEW reason
  PROVE  /\ IsSubscription(Ended(sub, reason))
         /\ Ended(sub, reason).gateway = sub.gateway
         /\ Ended(sub, reason).end_reason = IF HasEnded(sub) THEN sub.end_reason ELSE reason
<1>0. PICK g, i, e, c : sub = [gateway |-> g, items |-> i, end_reason |-> e, capacity |-> c]
  BY DEF IsSubscription
<1>1. CASE HasEnded(sub)
  BY <1>1 DEF Ended
<1>2. CASE ~HasEnded(sub)
  <2> DEFINE items == IF reason = "SlowConsumer" THEN <<>> ELSE sub.items
  <2>1. Ended(sub, reason) = [sub EXCEPT !.end_reason = reason, !.items = items]
    BY <1>2 DEF Ended
  <2> HIDE DEF items
  <2> DEFINE marked == [sub EXCEPT !.end_reason = reason]
  <2>2. Ended(sub, reason) = [marked EXCEPT !.items = items]
    BY <2>1
  <2>3. marked = [gateway |-> g, items |-> i, end_reason |-> reason, capacity |-> c]
    BY <1>0
  <2> HIDE DEF marked
  <2>4. Ended(sub, reason) = [gateway |-> g, items |-> items, end_reason |-> reason, capacity |-> c]
    BY <2>2, <2>3
  <2> QED  BY <1>0, <1>2, <2>4 DEF IsSubscription
<1> QED  BY <1>1, <1>2

-----------------------------------------------------------------------------
(* The registry and the seats *)

\* What a step may do to subscriptions, if it ends none as Unsubscribed.
Quiet ==
  /\ next_id' \in Nat /\ next_id <= next_id'
  /\ DOMAIN subscribers' \subseteq DOMAIN subscribers \cup next_id .. next_id' - 1
  /\ \A id \in DOMAIN subscription' : subscription'[id].end_reason = "Unsubscribed" =>
       id \in DOMAIN subscription /\ subscription[id].end_reason = "Unsubscribed"

\* If no gateway, kind or end changes, nothing changes for the seats.
LEMMA SameSeats ==
  ASSUME RegistryInv,
         UNCHANGED <<market_by_gateway, replies_by_gateway, next_id>>,
         subscription' = [id \in DOMAIN subscription |-> subscription'[id]],
         \A id \in DOMAIN subscription :
           /\ IsSubscription(subscription'[id])
           /\ subscription'[id].gateway = subscription[id].gateway
           /\ subscription'[id].end_reason = subscription[id].end_reason,
         subscribers' = [id \in DOMAIN subscribers |-> subscribers'[id]],
         \A id \in DOMAIN subscribers :
           /\ IsSubscriber(subscribers'[id])
           /\ subscribers'[id].kind = subscribers[id].kind
  PROVE  RegistryInv' /\ Quiet
<1>1. DOMAIN subscription = 1 .. next_id - 1
  BY DEF RegistryInv, RegistryOK
<1>2. DOMAIN subscription' = DOMAIN subscription /\ DOMAIN subscribers' = DOMAIN subscribers
  OBVIOUS
<1>3. RegistryOK'
  BY <1>1, <1>2 DEF RegistryInv, RegistryOK, IsSubscription, IsSubscriber
<1>4. SeatsAgree'
  <2>1. /\ \A kind \in Kinds : SeatsOf(kind)' = SeatsOf(kind)
        /\ \A id \in DOMAIN subscribers : subscribers[id].kind \in Kinds
    BY DEF SeatsOf, RegistryInv, RegistryOK, IsSubscriber
  <2>2. DOMAIN subscribers \subseteq DOMAIN subscription
    BY <1>1 DEF RegistryInv, RegistryOK
  <2>3. SeatsAreTaken'
    BY <1>2, <2>1, <2>2 DEF RegistryInv, SeatsAgree, SeatsAreTaken
  <2>4. SubscribersAreSeated'
    BY <1>2, <2>1, <2>2 DEF RegistryInv, SeatsAgree, SubscribersAreSeated
  <2>5. OpenAreRegistered'
    BY <1>2 DEF RegistryInv, SeatsAgree, OpenAreRegistered, HasEnded
  <2> QED  BY <2>3, <2>4, <2>5 DEF SeatsAgree
<1>5. Quiet
  BY <1>1, <1>2 DEF RegistryInv, RegistryOK, Quiet
<1> QED  BY <1>3, <1>4, <1>5 DEF RegistryInv

\* A new subscriber takes a seat that was free (subscribe, subscribe_replies).
LEMMA RegisterKeeps ==
  ASSUME RegistryInv,
         NEW kind \in Kinds, NEW symbols, NEW queue,
         IsSubscription(queue), queue.end_reason = "None",
         Register(kind, symbols, queue),
         queue.gateway \notin DOMAIN SeatsOf(kind),
         kind = "Market" =>
           /\ market_by_gateway' = Extended(market_by_gateway, queue.gateway, next_id)
           /\ UNCHANGED replies_by_gateway,
         kind = "Replies" =>
           /\ replies_by_gateway' = Extended(replies_by_gateway, queue.gateway, next_id)
           /\ UNCHANGED market_by_gateway
  PROVE  RegistryInv' /\ Quiet /\ next_id' = next_id + 1
<1> DEFINE entry == [kind |-> kind, symbols |-> symbols]
<1>1. /\ next_id \in Nat \ {0}
      /\ DOMAIN subscription = 1 .. next_id - 1
      /\ DOMAIN subscribers \subseteq 1 .. next_id - 1
  BY DEF RegistryInv, RegistryOK
<1>2. next_id' = next_id + 1
  BY DEF Register
<1>3. subscription' = [id \in 1 .. next_id |-> IF id = next_id THEN queue ELSE subscription[id]]
  <2>1. subscription = [id \in 1 .. next_id - 1 |-> subscription[id]]
    BY DEF RegistryInv, RegistryOK
  <2>2. next_id - 1 \in Nat /\ next_id - 1 + 1 = next_id
    BY <1>1
  <2> QED  BY <2>1, <2>2, AppendIs DEF Register
<1>4. subscribers' = [id \in DOMAIN subscribers \cup {next_id} |->
                        IF id = next_id THEN entry ELSE subscribers[id]]
  BY DEF Register, Extended
<1>5. IsSubscriber(entry) /\ entry.kind = kind
  BY DEF IsSubscriber
<1> HIDE DEF entry
<1>6. RegistryOK'
  <2>1. next_id' \in Nat \ {0} /\ next_id' - 1 = next_id
    BY <1>1, <1>2
  <2>2. \A id \in 1 .. next_id : IsSubscription(subscription'[id])
    BY <1>1, <1>3 DEF RegistryInv, RegistryOK
  <2>3. \A id \in DOMAIN subscribers' : IsSubscriber(subscribers'[id])
    BY <1>4, <1>5 DEF RegistryInv, RegistryOK
  <2>4. DOMAIN subscribers' \subseteq 1 .. next_id
    BY <1>1, <1>4
  <2>5. subscription' = [id \in 1 .. next_id |-> subscription'[id]]
    BY <1>3
  <2>6. subscribers' = [id \in DOMAIN subscribers' |-> subscribers'[id]]
    BY <1>4
  <2> QED  BY <2>1, <2>2, <2>3, <2>4, <2>5, <2>6 DEF RegistryOK, IsSubscription, IsSubscriber
<1>7. SeatsAgree'
  <2>1. \A g \in DOMAIN SeatsOf(kind)' :
          SeatsOf(kind)'[g] = IF g = queue.gateway THEN next_id ELSE SeatsOf(kind)[g]
    BY DEF SeatsOf, Extended, Kinds
  <2>2. DOMAIN SeatsOf(kind)' = DOMAIN SeatsOf(kind) \cup {queue.gateway}
    BY DEF SeatsOf, Extended, Kinds
  <2>3. \A k \in Kinds \ {kind} : SeatsOf(k)' = SeatsOf(k)
    BY DEF SeatsOf, Kinds
  <2>4. SeatsAreTaken'
    <3> SUFFICES ASSUME NEW k \in Kinds, NEW g \in DOMAIN SeatsOf(k)'
                 PROVE  /\ SeatsOf(k)'[g] \in DOMAIN subscribers'
                        /\ subscribers'[SeatsOf(k)'[g]].kind = k
                        /\ subscription'[SeatsOf(k)'[g]].gateway = g
      BY DEF SeatsAreTaken
    <3>1. CASE k = kind /\ g = queue.gateway
      BY <1>1, <1>3, <1>4, <1>5, <2>1, <3>1
    <3>2. CASE ~(k = kind /\ g = queue.gateway)
      BY <1>1, <1>3, <1>4, <2>1, <2>2, <2>3, <3>2 DEF RegistryInv, SeatsAgree, SeatsAreTaken
    <3> QED  BY <3>1, <3>2
  <2>5. SubscribersAreSeated'
    <3> SUFFICES ASSUME NEW k \in Kinds, NEW id \in DOMAIN subscribers', subscribers'[id].kind = k
                 PROVE  /\ subscription'[id].gateway \in DOMAIN SeatsOf(k)'
                        /\ SeatsOf(k)'[subscription'[id].gateway] = id
      BY DEF SubscribersAreSeated
    <3>1. CASE id = next_id
      BY <1>1, <1>3, <1>4, <1>5, <2>1, <2>2, <3>1
    <3>2. CASE id # next_id
      BY <1>1, <1>3, <1>4, <2>1, <2>2, <2>3, <3>2 DEF RegistryInv, SeatsAgree, SubscribersAreSeated
    <3> QED  BY <3>1, <3>2
  <2>6. OpenAreRegistered'
    BY <1>1, <1>3, <1>4 DEF RegistryInv, SeatsAgree, OpenAreRegistered, HasEnded
  <2> QED  BY <2>4, <2>5, <2>6 DEF SeatsAgree
<1>8. Quiet
  BY <1>1, <1>2, <1>3, <1>4 DEF Quiet
<1> QED  BY <1>2, <1>6, <1>7, <1>8 DEF RegistryInv

LEMMA SameRegistry ==
  ASSUME RegistryInv,
         UNCHANGED <<subscription, subscribers, market_by_gateway, replies_by_gateway, next_id>>
  PROVE  RegistryInv' /\ Quiet
<1>1. \A id \in DOMAIN subscription : IsSubscription(subscription[id])
  BY DEF RegistryInv, RegistryOK
<1>2. \A id \in DOMAIN subscribers : IsSubscriber(subscribers[id])
  BY DEF RegistryInv, RegistryOK
<1>3. /\ subscription = [id \in DOMAIN subscription |-> subscription[id]]
      /\ subscribers = [id \in DOMAIN subscribers |-> subscribers[id]]
  BY DEF RegistryInv, RegistryOK
<1> QED  BY <1>1, <1>2, <1>3, SameSeats

\* The end of a subscriber frees its seat, and ends no other (drop).
LEMMA DropKeeps ==
  ASSUME RegistryInv, NEW id, NEW reason, reason # "None", Drop(id, reason), UNCHANGED next_id
  PROVE  /\ RegistryInv'
         /\ DOMAIN subscribers' = DOMAIN subscribers \ {id}
         /\ DOMAIN subscription' = DOMAIN subscription
         /\ \A i \in DOMAIN subscription :
              \/ subscription'[i].end_reason = subscription[i].end_reason
              \/ i = id /\ subscription'[i].end_reason = reason
<1>1. /\ next_id \in Nat \ {0}
      /\ DOMAIN subscription = 1 .. next_id - 1
      /\ DOMAIN subscribers \subseteq 1 .. next_id - 1
  BY DEF RegistryInv, RegistryOK
<1>2. CASE id \notin DOMAIN subscribers
  <2>1. UNCHANGED <<subscription, subscribers, market_by_gateway, replies_by_gateway>>
    BY <1>2 DEF Drop
  <2>2. RegistryInv'
    BY <2>1, SameRegistry
  <2> QED  BY <1>2, <2>1, <2>2
<1>3. CASE id \in DOMAIN subscribers
  <2>1. PICK kind, gateway : kind = subscribers[id].kind /\ gateway = subscription[id].gateway
    OBVIOUS
  <2> DEFINE sub == Ended(subscription[id], reason)
  <2>2. IsSubscription(subscription[id]) /\ kind \in Kinds
    BY <1>1, <1>3, <2>1 DEF RegistryInv, RegistryOK, IsSubscriber
  <2>3. ~HasEnded(subscription[id])
    BY <1>1, <1>3 DEF RegistryInv, SeatsAgree, OpenAreRegistered
  <2>4. IsSubscription(sub) /\ sub.gateway = gateway /\ sub.end_reason = reason
    BY <2>1, <2>2, <2>3, EndedKeeps
  <2>5. subscription' = [subscription EXCEPT ![id] = sub]
    BY <1>3 DEF Drop
  <2>6. subscribers' = [i \in DOMAIN subscribers \ {id} |-> subscribers[i]]
    BY <1>3 DEF Drop, Without
  <2>7. SeatsOf(kind)' = [g \in DOMAIN SeatsOf(kind) \ {gateway} |-> SeatsOf(kind)[g]]
    BY <1>3, <2>1, <2>2 DEF Drop, Without, SeatsOf, Kinds
  <2>8. \A k \in Kinds \ {kind} : SeatsOf(k)' = SeatsOf(k)
    BY <1>3, <2>1, <2>2 DEF Drop, SeatsOf, Kinds
  <2>9. SeatsOf(kind)[gateway] = id
    BY <1>3, <2>1, <2>2 DEF RegistryInv, SeatsAgree, SubscribersAreSeated
  <2> HIDE DEF sub
  <2>10. \A i \in DOMAIN subscription :
           subscription'[i] = IF i = id THEN sub ELSE subscription[i]
    BY <2>5
  <2>11. DOMAIN subscription' = DOMAIN subscription /\ id \in DOMAIN subscription
    BY <1>1, <1>3, <2>5
  <2>12. RegistryOK'
    <3>1. subscription' = [i \in 1 .. next_id - 1 |-> subscription'[i]]
      BY <1>1, <2>5
    <3>2. \A i \in 1 .. next_id - 1 : IsSubscription(subscription'[i])
      BY <1>1, <2>4, <2>10 DEF RegistryInv, RegistryOK
    <3>3. \A i \in DOMAIN subscribers' : IsSubscriber(subscribers'[i])
      BY <2>6 DEF RegistryInv, RegistryOK
    <3> QED  BY <1>1, <2>6, <3>1, <3>2, <3>3 DEF RegistryOK, IsSubscription, IsSubscriber
  <2>13. SeatsAreTaken'
    <3> SUFFICES ASSUME NEW k \in Kinds, NEW g \in DOMAIN SeatsOf(k)'
                 PROVE  /\ SeatsOf(k)'[g] \in DOMAIN subscribers'
                        /\ subscribers'[SeatsOf(k)'[g]].kind = k
                        /\ subscription'[SeatsOf(k)'[g]].gateway = g
      BY DEF SeatsAreTaken
    <3>1. SeatsOf(k)'[g] = SeatsOf(k)[g] /\ g \in DOMAIN SeatsOf(k)
      BY <2>7, <2>8
    <3>2. /\ SeatsOf(k)[g] \in DOMAIN subscribers
          /\ subscribers[SeatsOf(k)[g]].kind = k
          /\ subscription[SeatsOf(k)[g]].gateway = g
      BY <3>1 DEF RegistryInv, SeatsAgree, SeatsAreTaken
    <3>3. SeatsOf(k)[g] # id
      BY <2>1, <2>7, <3>2
    <3> QED  BY <1>1, <2>6, <2>10, <3>1, <3>2, <3>3
  <2>14. SubscribersAreSeated'
    BY <1>1, <2>6, <2>7, <2>8, <2>9, <2>10 DEF RegistryInv, SeatsAgree, SubscribersAreSeated
  <2>15. OpenAreRegistered'
    BY <2>4, <2>6, <2>10, <2>11 DEF RegistryInv, SeatsAgree, OpenAreRegistered, HasEnded
  <2> QED  BY <2>4, <2>6, <2>10, <2>11, <2>12, <2>13, <2>14, <2>15 DEF RegistryInv, SeatsAgree
<1> QED  BY <1>2, <1>3

\* The close ends every subscriber and empties all three maps (run).
LEMMA CloseKeeps ==
  ASSUME RegistryInv, Close
  PROVE  RegistryInv' /\ Quiet
<1>1. /\ next_id \in Nat \ {0}
      /\ DOMAIN subscription = 1 .. next_id - 1
  BY DEF RegistryInv, RegistryOK
<1>2. /\ DOMAIN subscribers' = {} /\ DOMAIN market_by_gateway' = {}
      /\ DOMAIN replies_by_gateway' = {} /\ next_id' = next_id
      /\ subscribers' = [id \in {} |-> subscribers'[id]]
  BY DEF Close
<1>3. subscription' = [id \in DOMAIN subscription |->
                         IF id \in DOMAIN subscribers
                         THEN Ended(subscription[id], "Shutdown") ELSE subscription[id]]
  BY DEF Close
<1>4. \A id \in DOMAIN subscription :
        /\ IsSubscription(subscription'[id])
        /\ subscription'[id].end_reason =
             IF id \in DOMAIN subscribers THEN "Shutdown" ELSE subscription[id].end_reason
        /\ id \notin DOMAIN subscribers => HasEnded(subscription[id])
  <2> SUFFICES ASSUME NEW id \in DOMAIN subscription
               PROVE  /\ IsSubscription(subscription'[id])
                      /\ subscription'[id].end_reason =
                           IF id \in DOMAIN subscribers THEN "Shutdown" ELSE subscription[id].end_reason
                      /\ id \notin DOMAIN subscribers => HasEnded(subscription[id])
    OBVIOUS
  <2>1. IsSubscription(subscription[id])
    BY <1>1 DEF RegistryInv, RegistryOK
  <2>2. id \in DOMAIN subscribers <=> ~HasEnded(subscription[id])
    BY DEF RegistryInv, SeatsAgree, OpenAreRegistered
  <2> QED  BY <1>3, <2>1, <2>2, EndedKeeps
<1>5. RegistryOK'
  BY <1>1, <1>2, <1>3, <1>4 DEF RegistryOK, IsSubscription, IsSubscriber
<1>6. SeatsAreTaken' /\ SubscribersAreSeated'
  BY <1>2 DEF SeatsAreTaken, SubscribersAreSeated, SeatsOf
<1>7. OpenAreRegistered'
  BY <1>2, <1>3, <1>4 DEF OpenAreRegistered, HasEnded
<1>8. Quiet
  BY <1>1, <1>2, <1>3, <1>4 DEF Quiet
<1> QED  BY <1>5, <1>6, <1>7, <1>8 DEF RegistryInv, SeatsAgree

-----------------------------------------------------------------------------
(* The operations of the publisher *)

LEMMA NewIsSubscription ==
  ASSUME NEW gateway \in Gateways, NEW capacity, NEW items
  PROVE  LET queue == NewSubscription(gateway, capacity, items) IN
         /\ IsSubscription(queue)
         /\ queue.gateway = gateway
         /\ queue.end_reason = "None"
BY DEF NewSubscription, IsSubscription

LEMMA SubscribeKeeps ==
  ASSUME RegistryInv, NEW q \in MarketRequests, subscribe(q)
  PROVE  RegistryInv' /\ Quiet /\ next_id' = next_id + 1
<1> DEFINE queue == NewSubscription(q.gateway, QueueCapacity + Len(Replay(q)), Replay(q))
           symbols == [s \in Asked(q) |-> StartOf(q, s)]
<1>1. q.gateway # None /\ q.gateway \notin DOMAIN market_by_gateway
  BY DEF subscribe, SubscribeError
<1>2. q.gateway \in Gateways
  BY <1>1, PublisherAssumption
<1>3. IsSubscription(queue) /\ queue.gateway = q.gateway /\ queue.end_reason = "None"
  BY <1>2, NewIsSubscription
<1>4. /\ Register("Market", symbols, queue)
      /\ market_by_gateway' = Extended(market_by_gateway, q.gateway, next_id)
      /\ UNCHANGED replies_by_gateway
  BY DEF subscribe
<1> HIDE DEF queue, symbols
<1>5. queue.gateway \notin DOMAIN SeatsOf("Market") /\ "Market" \in Kinds
  BY <1>1, <1>3 DEF SeatsOf, Kinds
<1> QED  BY <1>3, <1>4, <1>5, RegisterKeeps

LEMMA SubscribeRepliesKeeps ==
  ASSUME RegistryInv, NEW gateway \in RepliesGateways, subscribe_replies(gateway)
  PROVE  RegistryInv' /\ Quiet /\ next_id' = next_id + 1
<1> DEFINE queue == NewSubscription(gateway, QueueCapacity, <<>>)
<1>1. gateway # None /\ gateway \notin DOMAIN replies_by_gateway
  BY DEF subscribe_replies, SubscribeRepliesError
<1>2. gateway \in Gateways
  BY <1>1, EngineFeedAssumption
<1>3. IsSubscription(queue) /\ queue.gateway = gateway /\ queue.end_reason = "None"
  BY <1>2, NewIsSubscription
<1>4. /\ Register("Replies", <<>>, queue)
      /\ replies_by_gateway' = Extended(replies_by_gateway, gateway, next_id)
      /\ UNCHANGED market_by_gateway
  BY DEF subscribe_replies
<1> HIDE DEF queue
<1>5. queue.gateway \notin DOMAIN SeatsOf("Replies") /\ "Replies" \in Kinds
  BY <1>1, <1>3 DEF SeatsOf, Kinds
<1> QED  BY <1>3, <1>4, <1>5, RegisterKeeps

\* A push to any queues, with or without the symbol of a snapshot going live.
LEMMA PushKeeps ==
  ASSUME RegistryInv, NEW ids, NEW item, PushTo(ids, item),
         UNCHANGED <<market_by_gateway, replies_by_gateway, next_id>>,
         subscribers' = [id \in DOMAIN subscribers |-> subscribers'[id]],
         \A id \in DOMAIN subscribers :
           IsSubscriber(subscribers'[id]) /\ subscribers'[id].kind = subscribers[id].kind
  PROVE  RegistryInv' /\ Quiet
<1>1. subscription' = [id \in DOMAIN subscription |->
                         IF id \in ids THEN Pushed(subscription[id], item) ELSE subscription[id]]
  BY DEF PushTo
<1>2. \A id \in DOMAIN subscription :
        /\ IsSubscription(subscription'[id])
        /\ subscription'[id].gateway = subscription[id].gateway
        /\ subscription'[id].end_reason = subscription[id].end_reason
  <2> SUFFICES ASSUME NEW id \in DOMAIN subscription
               PROVE  /\ IsSubscription(subscription'[id])
                      /\ subscription'[id].gateway = subscription[id].gateway
                      /\ subscription'[id].end_reason = subscription[id].end_reason
    OBVIOUS
  <2>1. IsSubscription(subscription[id])
    BY DEF RegistryInv, RegistryOK
  <2> QED  BY <1>1, <2>1, PushedKeeps
<1>3. subscription' = [id \in DOMAIN subscription |-> subscription'[id]]
  BY <1>1
<1> QED  BY <1>2, <1>3, SameSeats

LEMMA RouteEventKeeps ==
  ASSUME RegistryInv, NEW event, RouteEvent(event)
  PROVE  RegistryInv' /\ Quiet
<1>1. /\ subscribers = [id \in DOMAIN subscribers |-> subscribers[id]]
      /\ \A id \in DOMAIN subscribers : IsSubscriber(subscribers[id])
  BY DEF RegistryInv, RegistryOK
<1>2. /\ PushTo({id \in DOMAIN subscribers : Takes(id, event)}, event)
      /\ UNCHANGED <<subscribers, market_by_gateway, replies_by_gateway, next_id>>
  BY DEF RouteEvent
<1> QED  BY <1>1, <1>2, PushKeeps

LEMMA RouteReplyKeeps ==
  ASSUME RegistryInv, NEW reply, RouteReply(reply)
  PROVE  RegistryInv' /\ Quiet
<1>1. /\ subscribers = [id \in DOMAIN subscribers |-> subscribers[id]]
      /\ \A id \in DOMAIN subscribers : IsSubscriber(subscribers[id])
  BY DEF RegistryInv, RegistryOK
<1>2. PICK ids : PushTo(ids, reply)
  BY DEF RouteReply
<1>3. UNCHANGED <<subscribers, market_by_gateway, replies_by_gateway, next_id>>
  BY DEF RouteReply
<1>4. /\ subscribers' = [id \in DOMAIN subscribers |-> subscribers'[id]]
      /\ DOMAIN subscribers' = DOMAIN subscribers
      /\ \A id \in DOMAIN subscribers : IsSubscriber(subscribers'[id])
  BY <1>1, <1>3
<1> QED  BY <1>1, <1>2, <1>3, <1>4, PushKeeps

LEMMA RouteSnapshotKeeps ==
  ASSUME RegistryInv, NEW ready, RouteSnapshot(ready)
  PROVE  RegistryInv' /\ Quiet
<1> DEFINE id == ready.subscriber
<1>1. UNCHANGED <<market_by_gateway, replies_by_gateway, next_id>>
  BY DEF RouteSnapshot
<1>2. CASE ~Awaits(id, ready.symbol)
  BY <1>1, <1>2, SameRegistry DEF RouteSnapshot
<1>3. CASE Awaits(id, ready.symbol)
  <2>1. /\ subscribers' = [subscribers EXCEPT ![id].symbols[ready.symbol].live = TRUE]
        /\ PushTo({id}, ready)
    BY <1>3 DEF RouteSnapshot
  <2>2. PICK symbols : subscribers' = [subscribers EXCEPT ![id] = [@ EXCEPT !.symbols = symbols]]
    BY <2>1
  <2>3. id \in DOMAIN subscribers
    BY <1>3 DEF Awaits
  <2>4. PICK k, x : subscribers[id] = [kind |-> k, symbols |-> x] /\ k \in Kinds
    BY <2>3 DEF RegistryInv, RegistryOK, IsSubscriber
  <2>5. subscribers'[id] = [kind |-> k, symbols |-> symbols]
    BY <2>2, <2>3, <2>4
  <2>6. IsSubscriber(subscribers'[id]) /\ subscribers'[id].kind = subscribers[id].kind
    BY <2>4, <2>5 DEF IsSubscriber
  <2>7. \A i \in DOMAIN subscribers \ {id} :
          subscribers'[i] = subscribers[i] /\ IsSubscriber(subscribers[i])
    BY <2>2 DEF RegistryInv, RegistryOK
  <2>8. subscribers' = [i \in DOMAIN subscribers |-> subscribers'[i]]
    BY <2>2
  <2>9. \A i \in DOMAIN subscribers :
          IsSubscriber(subscribers'[i]) /\ subscribers'[i].kind = subscribers[i].kind
    BY <2>6, <2>7
  <2> QED  BY <1>1, <2>1, <2>8, <2>9, PushKeeps
<1> QED  BY <1>2, <1>3

LEMMA DropSlowKeeps ==
  ASSUME RegistryInv, NEW id, DropSlow(id)
  PROVE  RegistryInv' /\ Quiet
<1>1. Drop(id, "SlowConsumer") /\ UNCHANGED next_id
  BY DEF DropSlow
<1>2. /\ RegistryInv'
      /\ DOMAIN subscribers' \subseteq DOMAIN subscribers
      /\ DOMAIN subscription' = DOMAIN subscription
      /\ \A i \in DOMAIN subscription :
           \/ subscription'[i].end_reason = subscription[i].end_reason
           \/ subscription'[i].end_reason = "SlowConsumer"
  BY <1>1, DropKeeps
<1>3. next_id' \in Nat /\ next_id <= next_id'
  BY <1>1 DEF RegistryInv, RegistryOK
<1> QED  BY <1>2, <1>3 DEF Quiet

LEMMA NextForKeeps ==
  ASSUME RegistryInv, NEW r \in Streams, NextFor(r)
  PROVE  RegistryInv' /\ Quiet
<1>1. UNCHANGED <<subscribers, market_by_gateway, replies_by_gateway, next_id>>
  BY DEF NextFor
<1>2. CASE UNCHANGED subscription
  BY <1>1, <1>2, SameRegistry
<1>3. CASE ~UNCHANGED subscription
  <2>1. PICK id, items : subscription' = [subscription EXCEPT ![id].items = items]
    BY <1>3 DEF NextFor
  <2>2. \A i \in DOMAIN subscription :
          /\ IsSubscription(subscription'[i])
          /\ subscription'[i].gateway = subscription[i].gateway
          /\ subscription'[i].end_reason = subscription[i].end_reason
    <3> SUFFICES ASSUME NEW i \in DOMAIN subscription
                 PROVE  /\ IsSubscription(subscription'[i])
                        /\ subscription'[i].gateway = subscription[i].gateway
                        /\ subscription'[i].end_reason = subscription[i].end_reason
      OBVIOUS
    <3>1. IsSubscription(subscription[i])
      BY DEF RegistryInv, RegistryOK
    <3>2. PICK g, x, e, c :
            subscription[i] = [gateway |-> g, items |-> x, end_reason |-> e, capacity |-> c]
      BY <3>1 DEF IsSubscription
    <3>3. CASE i = id
      <4>1. subscription'[i] = [gateway |-> g, items |-> items, end_reason |-> e, capacity |-> c]
        BY <2>1, <3>2, <3>3
      <4> QED  BY <3>1, <3>2, <4>1 DEF IsSubscription
    <3>4. CASE i # id
      BY <2>1, <3>1, <3>4
    <3> QED  BY <3>3, <3>4
  <2>3. subscription' = [i \in DOMAIN subscription |-> subscription'[i]]
    BY <2>1
  <2>4. /\ subscribers = [i \in DOMAIN subscribers |-> subscribers[i]]
        /\ \A i \in DOMAIN subscribers : IsSubscriber(subscribers[i])
    BY DEF RegistryInv, RegistryOK
  <2> QED  BY <1>1, <2>2, <2>3, <2>4, SameSeats
<1> QED  BY <1>2, <1>3

-----------------------------------------------------------------------------
(* The handlers *)

\* The state of the handler of r moves to pc, and r keeps its id.
Moves(r, pc) ==
  /\ stream' = [q \in Streams |-> stream'[q]]
  /\ IsStream(stream'[r]) /\ stream'[r].pc = pc /\ stream'[r].id = stream[r].id
  /\ \A q \in Streams \ {r} : stream'[q] = stream[q]

\* A step that ends nobody as Unsubscribed frees no seat of a stream that is done
\* with, and gives a new id only to a handler that had none.
LEMMA StreamsKeep ==
  ASSUME SeatsInv, Quiet,
         stream' = [r \in Streams |-> stream'[r]],
         \A r \in Streams :
           /\ IsStream(stream'[r])
           /\ stream'[r].id \in 0 .. next_id' - 1
           /\ stream'[r].pc = "none" => stream'[r].id = 0
           /\ stream[r].pc = "done" => stream'[r] = stream[r]
           /\ stream'[r].pc = "done" /\ stream[r].pc # "done" => stream'[r].id = 0
  PROVE  StreamsOK' /\ LeaveFreesOwnSeat'
<1>1. StreamsOK'
  BY DEF StreamsOK, At, IsStream
<1>2. next_id \in Nat /\ \A r \in Streams : stream[r].id < next_id /\ stream[r].id \in Nat
  BY DEF SeatsInv, RegistryInv, RegistryOK, StreamsOK
<1>3. ASSUME NEW r \in Streams, stream'[r].pc = "done", stream'[r].id # 0
      PROVE  stream'[r].id \notin DOMAIN subscribers'
  <2>1. stream'[r] = stream[r] /\ stream[r].pc = "done"
    BY <1>3
  <2>2. stream[r].id \notin DOMAIN subscribers
    BY <1>3, <2>1 DEF SeatsInv, LeaveFreesOwnSeat, At
  <2> QED  BY <1>2, <2>1, <2>2 DEF Quiet
<1>4. ASSUME NEW id \in DOMAIN subscription', subscription'[id].end_reason = "Unsubscribed"
      PROVE  \E r \in Streams : stream'[r].pc = "done" /\ stream'[r].id = id
  <2>1. id \in DOMAIN subscription /\ subscription[id].end_reason = "Unsubscribed"
    BY <1>4 DEF Quiet
  <2>2. PICK r \in Streams : stream[r].pc = "done" /\ stream[r].id = id
    BY <2>1 DEF SeatsInv, LeaveFreesOwnSeat, At
  <2> QED  BY <2>2
<1> QED  BY <1>1, <1>3, <1>4 DEF LeaveFreesOwnSeat, At

LEMMA SameStreams ==
  ASSUME SeatsInv, Quiet, UNCHANGED stream
  PROVE  StreamsOK' /\ LeaveFreesOwnSeat'
<1>1. next_id \in Nat /\ next_id' \in Nat /\ next_id <= next_id'
  BY DEF SeatsInv, RegistryInv, RegistryOK, Quiet
<1>2. \A r \in Streams : /\ stream[r].id \in 0 .. next_id' - 1
                         /\ stream[r].pc = "none" => stream[r].id = 0
                         /\ IsStream(stream[r])
  BY <1>1 DEF SeatsInv, StreamsOK, At
<1>3. stream = [r \in Streams |-> stream[r]]
  BY DEF SeatsInv, StreamsOK
<1> QED  BY <1>2, <1>3, StreamsKeep

LEMMA MovesKeep ==
  ASSUME SeatsInv, Quiet, NEW r \in Streams, stream[r].pc # "done",
         NEW pc, pc \notin {"none", "done"}, Moves(r, pc)
  PROVE  StreamsOK' /\ LeaveFreesOwnSeat'
<1>1. next_id \in Nat /\ next_id' \in Nat /\ next_id <= next_id'
  BY DEF SeatsInv, RegistryInv, RegistryOK, Quiet
<1>2. \A q \in Streams : /\ stream[q].id \in 0 .. next_id' - 1
                         /\ stream[q].pc = "none" => stream[q].id = 0
                         /\ IsStream(stream[q])
  BY <1>1 DEF SeatsInv, StreamsOK, At
<1> QED  BY <1>2, StreamsKeep DEF Moves

LEMMA GotoMoves ==
  ASSUME StreamsOK, NEW r \in Streams, NEW pc, Goto(r, pc)
  PROVE  Moves(r, pc)
BY DEF StreamsOK, Goto, Moves, IsStream

LEMMA LeaveWithMoves ==
  ASSUME StreamsOK, NEW r \in Streams, NEW status, LeaveWith(r, status)
  PROVE  Moves(r, "leave")
BY DEF StreamsOK, LeaveWith, Moves, IsStream

-----------------------------------------------------------------------------
(* Every step preserves the invariant *)

LEMMA InitEstablishesSeats == Init => SeatsInv
<1> SUFFICES ASSUME Init PROVE SeatsInv
  OBVIOUS
<1>1. /\ next_id = 1
      /\ subscription = <<>> /\ subscribers = <<>>
      /\ market_by_gateway = <<>> /\ replies_by_gateway = <<>>
  BY DEF Init, PublisherInit
<1>2. RegistryOK
  BY <1>1 DEF RegistryOK
<1>3. SeatsAgree
  BY <1>1 DEF SeatsAgree, SeatsAreTaken, SubscribersAreSeated, OpenAreRegistered, SeatsOf
<1>4. stream = [r \in Streams |-> NoStream]
  BY DEF Init
<1>5. IsStream(NoStream) /\ NoStream.id = 0 /\ NoStream.pc = "none"
  BY DEF NoStream, IsStream
<1>6. StreamsOK
  BY <1>1, <1>4, <1>5 DEF StreamsOK, At
<1>7. LeaveFreesOwnSeat
  BY <1>1, <1>4, <1>5 DEF LeaveFreesOwnSeat, At
<1> QED  BY <1>2, <1>3, <1>6, <1>7 DEF SeatsInv, RegistryInv

\* Steps of the workers, of main and of clients leave the registry and the handlers alone.
LEMMA ElsewhereKeeps ==
  ASSUME SeatsInv, UNCHANGED <<publisherVars, stream>>
  PROVE  SeatsInv'
<1>1. RegistryInv' /\ Quiet
  BY SameRegistry DEF SeatsInv, publisherVars
<1>2. UNCHANGED stream
  OBVIOUS
<1> QED  BY <1>1, <1>2, SameStreams DEF SeatsInv

LEMMA PublisherKeeps ==
  ASSUME SeatsInv, PublisherStep
  PROVE  SeatsInv'
<1>1. CASE PublisherPops
  BY <1>1, ElsewhereKeeps DEF PublisherPops, streamVars
<1>2. CASE PublisherRoutes
  <2>1. RegistryInv' /\ Quiet
    BY <1>2, RouteEventKeeps, RouteReplyKeeps, RouteSnapshotKeeps, CloseKeeps
    DEF SeatsInv, PublisherRoutes
  <2>2. UNCHANGED stream
    BY <1>2 DEF PublisherRoutes, streamVars
  <2> QED  BY <2>1, <2>2, SameStreams DEF SeatsInv
<1>3. CASE PublisherDrops
  <2>1. RegistryInv' /\ Quiet
    BY <1>3, DropSlowKeeps DEF SeatsInv, PublisherDrops
  <2>2. UNCHANGED stream
    BY <1>3 DEF PublisherDrops, streamVars
  <2> QED  BY <2>1, <2>2, SameStreams DEF SeatsInv
<1> QED  BY <1>1, <1>2, <1>3 DEF PublisherStep

\* A handler that does not touch the registry moves on.
LEMMA PumpKeeps ==
  ASSUME SeatsInv, UNCHANGED publisherVars, NEW r \in Streams, stream[r].pc # "done",
         NEW pc, pc \notin {"none", "done"}, Moves(r, pc)
  PROVE  SeatsInv'
<1>1. RegistryInv' /\ Quiet
  BY SameRegistry DEF SeatsInv, publisherVars
<1> QED  BY <1>1, MovesKeep DEF SeatsInv

LEMMA RequestSnapshotKeeps ==
  ASSUME SeatsInv, NEW r \in Streams, RequestSnapshot(r)
  PROVE  SeatsInv'
<1>1. stream[r].pc = "request" /\ UNCHANGED publisherVars /\ StreamsOK
  BY DEF RequestSnapshot, At, SeatsInv
<1>2. CASE Goto(r, "check")
  BY <1>1, <1>2, GotoMoves, PumpKeeps
<1>3. CASE ~Goto(r, "check")
  <2>1. PICK rest : stream' = [stream EXCEPT ![r].snapshots = rest]
    BY <1>3 DEF RequestSnapshot
  <2>2. Moves(r, "request")
    BY <1>1, <2>1 DEF StreamsOK, Moves, IsStream
  <2> QED  BY <1>1, <2>2, PumpKeeps
<1> QED  BY <1>2, <1>3

LEMMA CheckCancelledKeeps ==
  ASSUME SeatsInv, NEW r \in Streams, CheckCancelled(r)
  PROVE  SeatsInv'
<1>1. stream[r].pc = "check" /\ UNCHANGED publisherVars /\ StreamsOK
  BY DEF CheckCancelled, At, SeatsInv
<1>2. Moves(r, "leave") \/ Moves(r, "next")
  BY <1>1, GotoMoves, LeaveWithMoves DEF CheckCancelled
<1> QED  BY <1>1, <1>2, PumpKeeps

LEMMA CheckEndedKeeps ==
  ASSUME SeatsInv, NEW r \in Streams, CheckEnded(r)
  PROVE  SeatsInv'
<1>1. stream[r].pc = "empty" /\ UNCHANGED publisherVars /\ StreamsOK
  BY DEF CheckEnded, At, SeatsInv
<1>2. Moves(r, "leave") \/ Moves(r, "check")
  BY <1>1, GotoMoves, LeaveWithMoves DEF CheckEnded
<1> QED  BY <1>1, <1>2, PumpKeeps

LEMMA WritesKeep ==
  ASSUME SeatsInv, NEW r \in Streams, Write(r) \/ WriteFails(r)
  PROVE  SeatsInv'
<1>1. stream[r].pc = "write" /\ UNCHANGED publisherVars /\ StreamsOK
  BY DEF Write, WriteFails, At, SeatsInv
<1>2. CASE Write(r)
  <2>1. Moves(r, "check")
    BY <1>1, <1>2 DEF Write, StreamsOK, Moves, IsStream
  <2> QED  BY <1>1, <2>1, PumpKeeps
<1>3. CASE WriteFails(r)
  BY <1>1, <1>3, LeaveWithMoves, PumpKeeps DEF WriteFails
<1> QED  BY <1>2, <1>3

LEMMA NextForKeepsAll ==
  ASSUME SeatsInv, NEW r \in Streams, NextFor(r)
  PROVE  SeatsInv'
<1>1. stream[r].pc = "next" /\ StreamsOK
  BY DEF NextFor, At, SeatsInv
<1>2. RegistryInv' /\ Quiet
  BY NextForKeeps DEF SeatsInv
<1>3. CASE Goto(r, "empty")
  BY <1>1, <1>2, <1>3, GotoMoves, MovesKeep DEF SeatsInv
<1>4. CASE ~Goto(r, "empty")
  <2>1. PICK item : stream' = [stream EXCEPT ![r].pc = "write", ![r].item = item]
    BY <1>4 DEF NextFor
  <2>2. Moves(r, "write")
    BY <1>1, <2>1 DEF StreamsOK, Moves, IsStream
  <2> QED  BY <1>1, <1>2, <2>2, MovesKeep DEF SeatsInv
<1> QED  BY <1>3, <1>4

\* The handler leaves: it ends its own subscription, if that is still open.
LEMMA LeaveStreamKeeps ==
  ASSUME SeatsInv, NEW r \in Streams, LeaveStream(r)
  PROVE  SeatsInv'
<1> DEFINE id == stream[r].id
<1>1. stream[r].pc = "leave" /\ StreamsOK /\ Moves(r, "done")
  BY GotoMoves DEF LeaveStream, At, SeatsInv
<1>2. Drop(id, "Unsubscribed") /\ UNCHANGED next_id
  BY DEF LeaveStream, unsubscribe
<1> HIDE DEF id
<1>3. /\ RegistryInv'
      /\ DOMAIN subscribers' = DOMAIN subscribers \ {id}
      /\ DOMAIN subscription' = DOMAIN subscription
      /\ \A i \in DOMAIN subscription :
           subscription'[i].end_reason = subscription[i].end_reason \/ i = id
  BY <1>2, DropKeeps DEF SeatsInv
<1>4. stream'[r].pc = "done" /\ stream'[r].id = id
  BY <1>1 DEF Moves, id
<1>5. \A q \in Streams \ {r} : stream'[q] = stream[q]
  BY <1>1 DEF Moves
<1>6. StreamsOK'
  BY <1>1, <1>2, <1>4, <1>5 DEF StreamsOK, Moves, At, id, IsStream
<1>7. ASSUME NEW q \in Streams, stream'[q].pc = "done", stream'[q].id # 0
      PROVE  stream'[q].id \notin DOMAIN subscribers'
  <2>1. CASE q = r
    BY <1>3, <1>4, <2>1
  <2>2. CASE q # r
    BY <1>3, <1>5, <1>7, <2>2 DEF SeatsInv, LeaveFreesOwnSeat, At
  <2> QED  BY <2>1, <2>2
<1>8. ASSUME NEW i \in DOMAIN subscription', subscription'[i].end_reason = "Unsubscribed"
      PROVE  \E q \in Streams : stream'[q].pc = "done" /\ stream'[q].id = i
  <2>1. CASE i = id
    BY <1>4, <2>1
  <2>2. CASE i # id
    <3>1. subscription[i].end_reason = "Unsubscribed" /\ i \in DOMAIN subscription
      BY <1>3, <1>8, <2>2
    <3>2. PICK q \in Streams : stream[q].pc = "done" /\ stream[q].id = i
      BY <3>1 DEF SeatsInv, LeaveFreesOwnSeat, At
    <3> QED  BY <1>1, <1>5, <3>2
  <2> QED  BY <2>1, <2>2
<1>9. LeaveFreesOwnSeat'
  BY <1>7, <1>8 DEF LeaveFreesOwnSeat, At
<1> QED  BY <1>3, <1>6, <1>9 DEF SeatsInv

\* A handler that had no id gets the next one.
LEMMA AcceptedKeeps ==
  ASSUME SeatsInv, RegistryInv', Quiet, next_id' = next_id + 1,
         NEW r \in Streams, stream[r].pc = "none",
         NEW kind, NEW request, NEW snapshots,
         NEW pc, pc \notin {"none", "done"}, Accepted(r, kind, request, pc, snapshots)
  PROVE  SeatsInv'
<1>1. stream = [q \in Streams |-> stream[q]] /\ IsStream(stream[r])
  BY DEF SeatsInv, StreamsOK
<1>2. stream' = [stream EXCEPT ![r] = [stream[r] EXCEPT !.pc = pc, !.kind = kind,
                   !.request = request, !.id = next_id, !.snapshots = snapshots]]
  BY <1>1 DEF Accepted
<1>3. stream' = [q \in Streams |-> stream'[q]]
  BY <1>1, <1>2
<1>4. IsStream(stream'[r]) /\ stream'[r].pc = pc /\ stream'[r].id = next_id
  BY <1>1, <1>2 DEF IsStream
<1>5. \A q \in Streams \ {r} : stream'[q] = stream[q]
  BY <1>1, <1>2
<1>6. next_id \in Nat /\ next_id' \in Nat
  BY DEF SeatsInv, RegistryInv, RegistryOK, Quiet
<1>7. \A q \in Streams : /\ IsStream(stream[q])
                         /\ stream[q].id \in 0 .. next_id - 1
                         /\ stream[q].pc = "none" => stream[q].id = 0
  BY DEF SeatsInv, StreamsOK, At
<1>8. \A q \in Streams : /\ IsStream(stream'[q])
                         /\ stream'[q].id \in 0 .. next_id' - 1
                         /\ stream'[q].pc = "none" => stream'[q].id = 0
                         /\ stream[q].pc = "done" => stream'[q] = stream[q]
                         /\ stream'[q].pc = "done" /\ stream[q].pc # "done" => stream'[q].id = 0
  BY <1>4, <1>5, <1>6, <1>7
<1> QED  BY <1>3, <1>8, StreamsKeep DEF SeatsInv

\* A handler whose request is refused is done without an id.
LEMMA RefusedKeeps ==
  ASSUME SeatsInv, NEW r \in Streams, stream[r].pc = "none", NEW error, Refused(r, error)
  PROVE  SeatsInv'
<1>1. RegistryInv' /\ Quiet
  BY SameRegistry DEF SeatsInv, Refused, publisherVars
<1>2. stream = [q \in Streams |-> stream[q]] /\ IsStream(stream[r])
  BY DEF SeatsInv, StreamsOK
<1>3. PICK status : stream' = [stream EXCEPT ![r].pc = "done", ![r].status = status]
  BY DEF Refused
<1>4. /\ stream' = [q \in Streams |-> stream'[q]]
      /\ IsStream(stream'[r]) /\ stream'[r].pc = "done" /\ stream'[r].id = stream[r].id
      /\ \A q \in Streams \ {r} : stream'[q] = stream[q]
  BY <1>2, <1>3 DEF IsStream
<1>5. next_id' = next_id
  BY DEF Refused, publisherVars
<1>6. \A q \in Streams : /\ IsStream(stream[q])
                         /\ stream[q].id \in 0 .. next_id - 1
                         /\ stream[q].pc = "none" => stream[q].id = 0
  BY DEF SeatsInv, StreamsOK, At
<1> QED  BY <1>1, <1>4, <1>5, <1>6, StreamsKeep DEF SeatsInv

LEMMA SubscribeStepKeeps ==
  ASSUME SeatsInv, NEW r \in Streams, NEW q \in MarketRequests, Subscribe(r, q)
  PROVE  SeatsInv'
<1>1. stream[r].pc = "none"
  BY DEF Subscribe, At
<1>2. CASE subscribe(q) /\ Accepted(r, "Market", q, "request", Snapshots(q))
  BY <1>1, <1>2, SubscribeKeeps, AcceptedKeeps DEF SeatsInv
<1>3. CASE Refused(r, SubscribeError(q))
  BY <1>1, <1>3, RefusedKeeps
<1> QED  BY <1>2, <1>3 DEF Subscribe

LEMMA SubscribeRepliesStepKeeps ==
  ASSUME SeatsInv, NEW r \in Streams, NEW gateway \in RepliesGateways, SubscribeReplies(r, gateway)
  PROVE  SeatsInv'
<1>1. stream[r].pc = "none"
  BY DEF SubscribeReplies, At
<1>2. CASE subscribe_replies(gateway) /\ Accepted(r, "Replies", gateway, "check", {})
  BY <1>1, <1>2, SubscribeRepliesKeeps, AcceptedKeeps DEF SeatsInv
<1>3. CASE Refused(r, SubscribeRepliesError(gateway))
  BY <1>1, <1>3, RefusedKeeps
<1> QED  BY <1>2, <1>3 DEF SubscribeReplies

LEMMA HandlersKeep ==
  ASSUME SeatsInv, NEW r \in Streams, HandlerStep(r)
  PROVE  SeatsInv'
BY RequestSnapshotKeeps, CheckCancelledKeeps, NextForKeepsAll, CheckEndedKeeps, WritesKeep,
   LeaveStreamKeeps DEF HandlerStep

LEMMA WorkersKeep ==
  ASSUME SeatsInv, NEW w \in Workers, WorkerStep(w)
  PROVE  SeatsInv'
<1>1. CASE WorkerTakes(w)
  BY <1>1, ElsewhereKeeps DEF WorkerTakes, streamVars
<1>2. CASE WorkerPushes(w)
  BY <1>2, ElsewhereKeeps DEF WorkerPushes, streamVars
<1> QED  BY <1>1, <1>2 DEF WorkerStep

LEMMA MainKeeps ==
  ASSUME SeatsInv, MainStep
  PROVE  SeatsInv'
<1>1. ASSUME NEW w \in Workers, StopWorker(w) PROVE SeatsInv'
  BY <1>1, ElsewhereKeeps DEF StopWorker, streamVars
<1>2. CASE CloseOutbox
  BY <1>2, ElsewhereKeeps DEF CloseOutbox, streamVars
<1>3. CASE StopServer
  BY <1>3, ElsewhereKeeps DEF StopServer, streamVars
<1>4. CASE GraceOver
  BY <1>4, ElsewhereKeeps DEF GraceOver
<1>5. CASE ServerStopped
  BY <1>5, ElsewhereKeeps DEF ServerStopped, streamVars
<1> QED  BY <1>1, <1>2, <1>3, <1>4, <1>5 DEF MainStep

LEMMA EnvironmentKeeps ==
  ASSUME SeatsInv, Environment
  PROVE  SeatsInv'
<1>1. ASSUME NEW s \in Symbols, NEW gateway \in Gateways, FeedSubmits(s, gateway) PROVE SeatsInv'
  BY <1>1, ElsewhereKeeps DEF FeedSubmits, streamVars
<1>2. ASSUME NEW r \in Streams, ClientLeaves(r) PROVE SeatsInv'
  BY <1>2, ElsewhereKeeps DEF ClientLeaves
<1>3. CASE FeedsStop
  BY <1>3, ElsewhereKeeps DEF FeedsStop, streamVars
<1> QED
  BY <1>1, <1>2, <1>3, SubscribeStepKeeps, SubscribeRepliesStepKeeps, WritesKeep DEF Environment

LEMMA NextKeepsSeats == SeatsInv /\ [Next]_vars => SeatsInv'
<1> SUFFICES ASSUME SeatsInv, [Next]_vars PROVE SeatsInv'
  OBVIOUS
<1>1. CASE UNCHANGED vars
  BY <1>1, ElsewhereKeeps DEF vars, streamVars
<1>2. CASE Next
  BY <1>2, WorkersKeep, PublisherKeeps, HandlersKeep, MainKeeps, EnvironmentKeeps DEF Next
<1> QED  BY <1>1, <1>2

-----------------------------------------------------------------------------
(* The theorems *)

\* SeatsInv holds in every state: the registry and the handlers fit together.
THEOREM SeatsInvariant == Spec => []SeatsInv
<1> QED  BY InitEstablishesSeats, NextKeepsSeats, PTL DEF Spec

\* The maps of the publisher and the ends of the subscriptions agree after every
\* step of any number of threads, streams and gateways (subscribe, drop, run).
THEOREM SeatsAlwaysAgree == Spec => []SeatsAgree
<1>1. SeatsInv => SeatsAgree
  BY DEF SeatsInv, RegistryInv
<1> QED  BY <1>1, SeatsInvariant, PTL

\* A handler that is done has freed its seat, and only the own handler of a
\* subscription ends it as Unsubscribed (~Leave, unsubscribe).
THEOREM LeaveAlwaysFreesOwnSeat == Spec => []LeaveFreesOwnSeat
<1>1. SeatsInv => LeaveFreesOwnSeat
  BY DEF SeatsInv
<1> QED  BY <1>1, SeatsInvariant, PTL

=============================================================================
