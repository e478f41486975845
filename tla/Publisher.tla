------------------------------ MODULE Publisher ------------------------------
(***************************************************************************)
(* The market data publisher: it takes the outputs of the workers and      *)
(* gives each to the queues of the subscribers it concerns.  Events are    *)
(* public, per symbol; a snapshot is for the subscriber that asked for it; *)
(* a reply is for the replies subscriber of its gateway.                   *)
(*                                                                         *)
(* This module has the publisher's state and its operations under mutex_,  *)
(* each atomic.  EngineFeed adds the threads that call them.               *)
(*                                                                         *)
(* An event is known by its symbol and sequence number, a snapshot by its  *)
(* symbol and the number of the last event in it, a reply by the symbol,    *)
(* the gateway and the number of its command.                              *)
(***************************************************************************)
EXTENDS Integers, FiniteSets, SequencesExt

CONSTANTS
  Symbols,         \* symbols_, the sorted symbol_list_
  Gateways,        \* gateway ids
  None,            \* an empty gateway id, no item, no number
  QueueCapacity,   \* options_.queue_capacity
  ReplayWindow,    \* options_.replay_window
  MarketRequests   \* requests for market streams: a gateway, symbols (none: all of them),
                   \* and for some symbols the number of the first event wanted

ASSUME PublisherAssumption ==
  /\ Symbols \subseteq Int /\ IsFiniteSet(Symbols)
  /\ None \notin Gateways
  /\ None \notin Nat
  /\ None \notin [kind : {"event"}, symbol : Symbols, seq : Nat]
  /\ None \notin [kind : {"snapshot"}, symbol : Symbols, seq : Nat, subscriber : Nat]
  /\ None \notin [kind : {"reply"}, symbol : Symbols, gateway : Gateways, number : Nat]
  /\ QueueCapacity \in Nat \ {0}
  /\ ReplayWindow \in Nat
  /\ \A q \in MarketRequests :
       /\ q = [gateway |-> q.gateway, symbols |-> q.symbols, from_seq |-> q.from_seq]
       /\ q.gateway \in Gateways \cup {None}
       /\ q.symbols \subseteq Int
       /\ DOMAIN q.from_seq \subseteq Int
       /\ \A s \in DOMAIN q.from_seq : q.from_seq[s] \in Nat

VARIABLES
  subscribers,         \* subscribers_: id -> kind and state per symbol
  market_by_gateway,   \* market_by_gateway_
  replies_by_gateway,  \* replies_by_gateway_
  next_id,             \* next_id_
  closed,              \* closed_
  history,             \* history_: symbol -> numbers of the events kept
  last_seq,            \* last_seq_: symbol -> the highest number seen, or 0
  subscription,        \* id -> the Subscription shared with the stream's handler
  too_slow             \* too_slow: subscribers that route() still has to drop

publisherVars == <<subscribers, market_by_gateway, replies_by_gateway, next_id, closed,
                   history, last_seq, subscription, too_slow>>

-----------------------------------------------------------------------------
(* Items *)

Event(symbol, seq) == [kind |-> "event", symbol |-> symbol, seq |-> seq]

SnapshotReady(symbol, as_of, id) ==
  [kind |-> "snapshot", symbol |-> symbol, seq |-> as_of, subscriber |-> id]

Reply(symbol, gateway, number) ==
  [kind |-> "reply", symbol |-> symbol, gateway |-> gateway, number |-> number]

OutboxClosed == [kind |-> "closed"]

-----------------------------------------------------------------------------
(* Subscription: the queue between the publisher and a stream *)

NewSubscription(gateway, capacity, items) ==
  [gateway |-> gateway, items |-> items, end_reason |-> "None", capacity |-> capacity]

HasEnded(sub) == sub.end_reason # "None"

\* try_push returns false.
IsFull(sub) == ~HasEnded(sub) /\ Len(sub.items) >= sub.capacity

\* try_push, whatever it returns.
Pushed(sub, item) ==
  IF HasEnded(sub) \/ IsFull(sub) THEN sub ELSE [sub EXCEPT !.items = Append(@, item)]

\* end: the first reason wins, and a slow consumer loses its queue.
Ended(sub, reason) ==
  IF HasEnded(sub)
  THEN sub
  ELSE [sub EXCEPT !.end_reason = reason, !.items = IF reason = "SlowConsumer" THEN <<>> ELSE @]

-----------------------------------------------------------------------------
(* The registry *)

PublisherInit ==
  /\ subscribers = <<>>
  /\ market_by_gateway = <<>>
  /\ replies_by_gateway = <<>>
  /\ next_id = 1
  /\ closed = FALSE
  /\ history = [s \in Symbols |-> <<>>]
  /\ last_seq = [s \in Symbols |-> 0]
  /\ subscription = <<>>
  /\ too_slow = {}

\* mutex_ is free: route() holds it until it has dropped the slow subscribers.
Unlocked == too_slow = {}

Extended(f, x, v) == [y \in DOMAIN f \cup {x} |-> IF y = x THEN v ELSE f[y]]

Without(f, xs) == [y \in DOMAIN f \ xs |-> f[y]]

\* Fault: the seat of a replies stream is looked for among the market streams.
Drop_OneKind(id, reason) ==
  IF id \in DOMAIN subscribers
  THEN /\ subscription' = [subscription EXCEPT ![id] = Ended(@, reason)]
       /\ subscribers' = Without(subscribers, {id})
       /\ market_by_gateway' = Without(market_by_gateway, {subscription[id].gateway})
       /\ UNCHANGED replies_by_gateway
  ELSE UNCHANGED <<subscription, subscribers, market_by_gateway, replies_by_gateway>>

\* drop: the subscription ends and its seat is free.
Drop(id, reason) ==
  IF id \in DOMAIN subscribers
  THEN LET seat == {subscription[id].gateway} IN
       /\ subscription' = [subscription EXCEPT ![id] = Ended(@, reason)]
       /\ subscribers' = Without(subscribers, {id})
       /\ IF subscribers[id].kind = "Replies"
          THEN /\ replies_by_gateway' = Without(replies_by_gateway, seat)
               /\ UNCHANGED market_by_gateway
          ELSE /\ market_by_gateway' = Without(market_by_gateway, seat)
               /\ UNCHANGED replies_by_gateway
  ELSE UNCHANGED <<subscription, subscribers, market_by_gateway, replies_by_gateway>>

\* Fault: the next id is not advanced.
Register_SameId(kind, symbols, queue) ==
  /\ UNCHANGED next_id
  /\ subscription' = Append(subscription, queue)
  /\ subscribers' = Extended(subscribers, next_id, [kind |-> kind, symbols |-> symbols])

\* A new subscriber gets the next id.
Register(kind, symbols, queue) ==
  /\ next_id' = next_id + 1
  /\ subscription' = Append(subscription, queue)
  /\ subscribers' = Extended(subscribers, next_id, [kind |-> kind, symbols |-> symbols])

-----------------------------------------------------------------------------
(* subscribe *)

Asked(q) == IF q.symbols = {} THEN Symbols ELSE q.symbols

\* The oldest event that can be replayed, or the next one.
Oldest(s) == IF history[s] = <<>> THEN last_seq[s] + 1 ELSE Head(history[s])

TooOld(s, wanted) == wanted <= last_seq[s] /\ wanted < Oldest(s)

\* The checks of subscribe, in the code's order.
SubscribeError(q) ==
  IF q.gateway = None THEN "EmptyGatewayId"
  ELSE IF ~ Asked(q) \subseteq Symbols THEN "UnknownSymbol"
  ELSE IF \E s \in DOMAIN q.from_seq : s \notin Asked(q) \/ q.from_seq[s] < 1 THEN "BadFromSeq"
  ELSE IF closed THEN "Closed"
  ELSE IF q.gateway \in DOMAIN market_by_gateway THEN "GatewayAlreadySubscribed"
  ELSE IF \E s \in DOMAIN q.from_seq : TooOld(s, q.from_seq[s]) THEN "TooOld"
  ELSE "None"

\* The kept events that the request wants, each by its symbol and its place.
Wanted(q) ==
  UNION {{s} \X {i \in DOMAIN history[s] : history[s][i] >= q.from_seq[s]} : s \in DOMAIN q.from_seq}

\* One symbol after the other, and the events of each as they were kept.
Earlier(a, b) == a[1] < b[1] \/ (a[1] = b[1] /\ a[2] < b[2])

InOrder(W, f) ==
  /\ f \in [1 .. Cardinality(W) -> W]
  /\ \A i, j \in 1 .. Cardinality(W) : i < j => Earlier(f[i], f[j])

Replay(q) ==
  LET order == CHOOSE f \in [1 .. Cardinality(Wanted(q)) -> Wanted(q)] : InOrder(Wanted(q), f)
  IN  [k \in DOMAIN order |-> Event(order[k][1], history[order[k][1]][order[k][2]])]

\* Fault: the list as the client sent it; an empty one stands for all symbols.
Snapshots_AsSent(q) == q.symbols \ DOMAIN q.from_seq

\* The symbols whose snapshots subscribe asks for, once it has released mutex_.
Snapshots(q) == Asked(q) \ DOMAIN q.from_seq

\* A symbol that is replayed is live at once, the others when their snapshot comes.
StartOf(q, s) ==
  IF s \in DOMAIN q.from_seq
  THEN [live |-> TRUE, skip_below |-> q.from_seq[s]]
  ELSE [live |-> FALSE, skip_below |-> 0]

subscribe(q) ==
  /\ Unlocked
  /\ SubscribeError(q) = "None"
  /\ Register("Market", [s \in Asked(q) |-> StartOf(q, s)],
              NewSubscription(q.gateway, QueueCapacity + Len(Replay(q)), Replay(q)))
  /\ market_by_gateway' = Extended(market_by_gateway, q.gateway, next_id)
  /\ UNCHANGED <<replies_by_gateway, closed, history, last_seq, too_slow>>

SubscribeRepliesError(gateway) ==
  IF gateway = None THEN "EmptyGatewayId"
  ELSE IF closed THEN "Closed"
  ELSE IF gateway \in DOMAIN replies_by_gateway THEN "GatewayAlreadySubscribed"
  ELSE "None"

subscribe_replies(gateway) ==
  /\ Unlocked
  /\ SubscribeRepliesError(gateway) = "None"
  /\ Register("Replies", <<>>, NewSubscription(gateway, QueueCapacity, <<>>))
  /\ replies_by_gateway' = Extended(replies_by_gateway, gateway, next_id)
  /\ UNCHANGED <<market_by_gateway, closed, history, last_seq, too_slow>>

\* Fault: it ends whoever has the gateway's seat by now.
unsubscribe_ByGateway(id) ==
  /\ Unlocked
  /\ LET gateway == subscription[id].gateway IN
     IF gateway \in DOMAIN replies_by_gateway
     THEN Drop(replies_by_gateway[gateway], "Unsubscribed")
     ELSE Drop(id, "Unsubscribed")
  /\ UNCHANGED <<next_id, closed, history, last_seq, too_slow>>

unsubscribe(id) ==
  /\ Unlocked
  /\ Drop(id, "Unsubscribed")
  /\ UNCHANGED <<next_id, closed, history, last_seq, too_slow>>

-----------------------------------------------------------------------------
(* route: one output of the outbox.  It pushes to every queue concerned, and  *)
(* then drops the subscribers whose queue was full, one by one.               *)

\* Fault: one event more than the window is kept.
Remembered_OneMore(kept, seq) ==
  IF ReplayWindow = 0 THEN <<>>
  ELSE IF Len(kept) > ReplayWindow THEN Append(Tail(kept), seq)
  ELSE Append(kept, seq)

\* The window of the last events, and the number of the last.
Remembered(kept, seq) ==
  IF ReplayWindow = 0 THEN <<>>
  ELSE IF Len(kept) >= ReplayWindow THEN Append(Tail(kept), seq)
  ELSE Append(kept, seq)

\* Fault: events before the one asked for are not skipped.
Takes_Early(id, event) ==
  /\ event.symbol \in DOMAIN subscribers[id].symbols
  /\ subscribers[id].symbols[event.symbol].live

Takes(id, event) ==
  LET symbols == subscribers[id].symbols IN
  /\ event.symbol \in DOMAIN symbols
  /\ symbols[event.symbol].live
  /\ event.seq >= symbols[event.symbol].skip_below

\* Fault: what does not fit is lost, and the subscriber stays.
PushTo_Lossy(ids, item) ==
  /\ subscription' = [id \in DOMAIN subscription |->
                        IF id \in ids THEN Pushed(subscription[id], item) ELSE subscription[id]]
  /\ UNCHANGED too_slow

PushTo(ids, item) ==
  /\ subscription' = [id \in DOMAIN subscription |->
                        IF id \in ids THEN Pushed(subscription[id], item) ELSE subscription[id]]
  /\ too_slow' = {id \in ids : IsFull(subscription[id])}

RouteEvent(event) ==
  /\ event.kind = "event"
  /\ history' = [history EXCEPT ![event.symbol] = Remembered(@, event.seq)]
  /\ last_seq' = [last_seq EXCEPT ![event.symbol] = event.seq]
  /\ PushTo({id \in DOMAIN subscribers : Takes(id, event)}, event)
  /\ UNCHANGED <<subscribers, market_by_gateway, replies_by_gateway, next_id, closed>>

\* Fault: every replies subscriber gets the reply.
RouteReply_ToAll(reply) ==
  /\ reply.kind = "reply"
  /\ PushTo({id \in DOMAIN subscribers : subscribers[id].kind = "Replies"}, reply)
  /\ UNCHANGED <<subscribers, market_by_gateway, replies_by_gateway, next_id, closed,
                 history, last_seq>>

RouteReply(reply) ==
  /\ reply.kind = "reply"
  /\ PushTo({id \in DOMAIN subscribers : /\ reply.gateway \in DOMAIN replies_by_gateway
                                         /\ id = replies_by_gateway[reply.gateway]}, reply)
  /\ UNCHANGED <<subscribers, market_by_gateway, replies_by_gateway, next_id, closed,
                 history, last_seq>>

\* The subscriber is still there and waits for this snapshot.
Awaits(id, symbol) ==
  /\ id \in DOMAIN subscribers
  /\ symbol \in DOMAIN subscribers[id].symbols
  /\ ~subscribers[id].symbols[symbol].live

\* Fault: the symbol does not go live.
RouteSnapshot_NotLive(ready) ==
  /\ ready.kind = "snapshot"
  /\ IF Awaits(ready.subscriber, ready.symbol)
     THEN PushTo({ready.subscriber}, ready)
     ELSE UNCHANGED <<subscription, too_slow>>
  /\ UNCHANGED <<subscribers, market_by_gateway, replies_by_gateway, next_id, closed,
                 history, last_seq>>

RouteSnapshot(ready) ==
  /\ ready.kind = "snapshot"
  /\ IF Awaits(ready.subscriber, ready.symbol)
     THEN /\ subscribers' = [subscribers EXCEPT ![ready.subscriber].symbols[ready.symbol].live = TRUE]
          /\ PushTo({ready.subscriber}, ready)
     ELSE UNCHANGED <<subscribers, subscription, too_slow>>
  /\ UNCHANGED <<market_by_gateway, replies_by_gateway, next_id, closed, history, last_seq>>

DropSlow(id) ==
  /\ id \in too_slow
  /\ too_slow' = too_slow \ {id}
  /\ Drop(id, "SlowConsumer")
  /\ UNCHANGED <<next_id, closed, history, last_seq>>

\* OutboxClosed: every subscription ends, and no new one is taken.
Close ==
  /\ Unlocked
  /\ closed' = TRUE
  /\ subscription' = [id \in DOMAIN subscription |->
                        IF id \in DOMAIN subscribers
                        THEN Ended(subscription[id], "Shutdown") ELSE subscription[id]]
  /\ subscribers' = <<>>
  /\ market_by_gateway' = <<>>
  /\ replies_by_gateway' = <<>>
  /\ UNCHANGED <<next_id, history, last_seq, too_slow>>

=============================================================================
