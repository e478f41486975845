----------------------------- MODULE EngineFeed -----------------------------
(***************************************************************************)
(* The output side of an engine node, thread by thread: the workers, which *)
(* run commands and put events, replies and snapshots in the outbox; the   *)
(* publisher's thread, which routes them; the handlers of the streams,     *)
(* which subscribe and send what is queued; and main, which shuts all of   *)
(* them down in order.  The commands and the clients are the environment.  *)
(*                                                                         *)
(* A step is what a thread does under one lock, or between two.            *)
(***************************************************************************)
EXTENDS Publisher

CONSTANTS
  WorkerCount,        \* instruments.partitions
  WorkerOf,           \* worker_of
  Streams,            \* the calls of Subscribe and SubscribeReplies
  RepliesGateways,    \* gateways, or None, that ask for a replies stream
  MaxCommands,        \* bound: commands handed to the workers
  MaxEvents           \* bound: events of one command

Workers == 1 .. WorkerCount

ASSUME EngineFeedAssumption ==
  /\ WorkerCount \in Nat \ {0}
  /\ WorkerOf \in [Symbols -> Workers]
  /\ RepliesGateways \subseteq Gateways \cup {None}
  /\ MaxCommands \in Nat
  /\ MaxEvents \in Nat

VARIABLES
  inbox,          \* inbox_ of each worker
  pushing,        \* what a worker has still to put in the outbox for the item it took
  returned,       \* workers whose run() has returned
  as_of,          \* the sequence number of each book
  commands,       \* the commands handed over so far: symbol and gateway
  outbox,
  routing,        \* the output that run() of the publisher has popped, or None
  stream,         \* the state of each handler
  sent,           \* the items each stream has written to its client
  cancelled,      \* streams whose context IsCancelled
  pilled,         \* workers with stopped_: they were sent Shutdown
  phase           \* where main is in its shutdown

workerVars == <<inbox, pushing, returned, as_of, commands>>
streamVars == <<stream, sent, cancelled>>
mainVars == <<pilled, phase>>
vars == <<publisherVars, workerVars, outbox, routing, streamVars, mainVars>>

NoStream == [pc |-> "none", kind |-> "None", request |-> None, id |-> 0, snapshots |-> {},
             item |-> None, status |-> "None"]

Init ==
  /\ PublisherInit
  /\ inbox = [w \in Workers |-> <<>>]
  /\ pushing = [w \in Workers |-> <<>>]
  /\ returned = {}
  /\ as_of = [s \in Symbols |-> 0]
  /\ commands = <<>>
  /\ outbox = <<>>
  /\ routing = None
  /\ stream = [r \in Streams |-> NoStream]
  /\ sent = [r \in Streams |-> <<>>]
  /\ cancelled = {}
  /\ pilled = {}
  /\ phase = "running"

-----------------------------------------------------------------------------
(* The workers *)

Shutdown == [kind |-> "shutdown"]

TakeSnapshot(s, id) == [kind |-> "snapshot", symbol |-> s, subscriber |-> id]

Command(s, gateway, number) ==
  [kind |-> "command", symbol |-> s, gateway |-> gateway, number |-> number]

Submit(w, item) == inbox' = [inbox EXCEPT ![w] = Append(@, item)]

\* A feed hands over a command of a gateway; feeds run until main stops them.
FeedSubmits(s, gateway) ==
  /\ phase = "running"
  /\ Len(commands) < MaxCommands
  /\ commands' = Append(commands, [symbol |-> s, gateway |-> gateway])
  /\ Submit(WorkerOf[s], Command(s, gateway, Len(commands) + 1))
  /\ UNCHANGED <<publisherVars, pushing, returned, as_of, outbox, routing, streamVars, mainVars>>

\* Fault: the number of an event is taken after the count has gone up.
OutputsOf_Ahead(item, n) ==
  [i \in 1 .. n |-> Event(item.symbol, as_of[item.symbol] + i + 1)]
    \o <<Reply(item.symbol, item.gateway, item.number)>>

\* The book's events of a call, then its reply.
OutputsOf(item, n) ==
  [i \in 1 .. n |-> Event(item.symbol, as_of[item.symbol] + i)]
    \o <<Reply(item.symbol, item.gateway, item.number)>>

\* run takes an item: Shutdown ends the worker, TakeSnapshot reads the book,
\* and a command makes the book emit some events.
WorkerTakes(w) ==
  /\ w \notin returned
  /\ pushing[w] = <<>>
  /\ inbox[w] # <<>>
  /\ inbox' = [inbox EXCEPT ![w] = Tail(@)]
  /\ LET item == Head(inbox[w]) IN
     \/ /\ item.kind = "shutdown"
        /\ returned' = returned \cup {w}
        /\ UNCHANGED <<pushing, as_of>>
     \/ /\ item.kind = "snapshot"
        /\ pushing' = [pushing EXCEPT ![w] =
                         <<SnapshotReady(item.symbol, as_of[item.symbol], item.subscriber)>>]
        /\ UNCHANGED <<returned, as_of>>
     \/ /\ item.kind = "command"
        /\ \E n \in 0 .. MaxEvents :
             /\ pushing' = [pushing EXCEPT ![w] = OutputsOf(item, n)]
             /\ as_of' = [as_of EXCEPT ![item.symbol] = @ + n]
        /\ UNCHANGED returned
  /\ UNCHANGED <<publisherVars, commands, outbox, routing, streamVars, mainVars>>

\* publish and reply put one output after the other in the outbox that all share.
WorkerPushes(w) ==
  /\ pushing[w] # <<>>
  /\ outbox' = Append(outbox, Head(pushing[w]))
  /\ pushing' = [pushing EXCEPT ![w] = Tail(@)]
  /\ UNCHANGED <<publisherVars, inbox, returned, as_of, commands, routing, streamVars, mainVars>>

-----------------------------------------------------------------------------
(* The publisher's thread *)

PublisherPops ==
  /\ routing = None
  /\ Unlocked
  /\ outbox # <<>>
  /\ routing' = Head(outbox)
  /\ outbox' = Tail(outbox)
  /\ UNCHANGED <<publisherVars, workerVars, streamVars, mainVars>>

\* run returns after it has closed: routing keeps OutboxClosed.
PublisherRoutes ==
  /\ routing # None
  /\ Unlocked
  /\ ~closed
  /\ \/ RouteEvent(routing) /\ routing' = None
     \/ RouteReply(routing) /\ routing' = None
     \/ RouteSnapshot(routing) /\ routing' = None
     \/ routing = OutboxClosed /\ Close /\ UNCHANGED routing
  /\ UNCHANGED <<workerVars, outbox, streamVars, mainVars>>

PublisherDrops ==
  /\ \E id \in too_slow : DropSlow(id)
  /\ UNCHANGED <<workerVars, outbox, routing, streamVars, mainVars>>

-----------------------------------------------------------------------------
(* The handlers of the streams *)

StatusOf(error) ==
  CASE error \in {"EmptyGatewayId", "BadFromSeq"} -> "INVALID_ARGUMENT"
    [] error = "GatewayAlreadySubscribed" -> "ALREADY_EXISTS"
    [] error = "UnknownSymbol" -> "NOT_FOUND"
    [] error = "Closed" -> "UNAVAILABLE"
    [] error = "TooOld" -> "OUT_OF_RANGE"

\* The server takes new calls until it is told to shut down.
Serving == phase \in {"running", "workers", "publisher"}

At(r, pc) == stream[r].pc = pc

Goto(r, pc) == stream' = [stream EXCEPT ![r].pc = pc]

\* The handler returns this status, and its Leave frees the seat.
LeaveWith(r, status) ==
  stream' = [stream EXCEPT ![r].pc = "leave", ![r].item = None, ![r].status = status]

Accepted(r, kind, request, pc, snapshots) ==
  stream' = [stream EXCEPT ![r] = [@ EXCEPT !.pc = pc, !.kind = kind, !.request = request,
                                            !.id = next_id, !.snapshots = snapshots]]

Refused(r, error) ==
  /\ stream' = [stream EXCEPT ![r].pc = "done", ![r].status = StatusOf(error)]
  /\ UNCHANGED publisherVars

Subscribe(r, q) ==
  /\ At(r, "none")
  /\ Serving
  /\ \/ /\ subscribe(q)
        /\ Accepted(r, "Market", q, "request", Snapshots(q))
     \/ /\ Unlocked
        /\ SubscribeError(q) # "None"
        /\ Refused(r, SubscribeError(q))
  /\ UNCHANGED <<workerVars, outbox, routing, sent, cancelled, mainVars>>

SubscribeReplies(r, gateway) ==
  /\ At(r, "none")
  /\ Serving
  /\ \/ /\ subscribe_replies(gateway)
        /\ Accepted(r, "Replies", gateway, "check", {})
     \/ /\ Unlocked
        /\ SubscribeRepliesError(gateway) # "None"
        /\ Refused(r, SubscribeRepliesError(gateway))
  /\ UNCHANGED <<workerVars, outbox, routing, sent, cancelled, mainVars>>

\* The end of subscribe: snapshots are asked for, in the order of the symbols,
\* when the subscriber is registered.
RequestSnapshot(r) ==
  /\ At(r, "request")
  /\ \/ /\ stream[r].snapshots = {}
        /\ Goto(r, "check")
        /\ UNCHANGED inbox
     \/ \E s \in stream[r].snapshots :
          /\ \A other \in stream[r].snapshots : s <= other
          /\ Submit(WorkerOf[s], TakeSnapshot(s, stream[r].id))
          /\ stream' = [stream EXCEPT ![r].snapshots = @ \ {s}]
  /\ UNCHANGED <<publisherVars, pushing, returned, as_of, commands, outbox, routing,
                 sent, cancelled, mainVars>>

\* Fault: the pump does not ask whether the client is gone.
CheckCancelled_Never(r) ==
  /\ At(r, "check")
  /\ Goto(r, "next")
  /\ UNCHANGED <<publisherVars, workerVars, outbox, routing, sent, cancelled, mainVars>>

\* pump: the head of its loop.
CheckCancelled(r) ==
  /\ At(r, "check")
  /\ IF r \in cancelled THEN LeaveWith(r, "CANCELLED") ELSE Goto(r, "next")
  /\ UNCHANGED <<publisherVars, workerVars, outbox, routing, sent, cancelled, mainVars>>

\* next_for: an item, or nothing after the end of the stream or the timeout.
NextFor(r) ==
  /\ At(r, "next")
  /\ LET id == stream[r].id
         items == subscription[id].items IN
     \/ /\ items # <<>>
        /\ subscription' = [subscription EXCEPT ![id].items = Tail(@)]
        /\ stream' = [stream EXCEPT ![r].pc = "write", ![r].item = Head(items)]
     \/ /\ items = <<>>
        /\ Goto(r, "empty")
        /\ UNCHANGED subscription
  /\ UNCHANGED <<subscribers, market_by_gateway, replies_by_gateway, next_id, closed, history,
                 last_seq, too_slow, workerVars, outbox, routing, sent, cancelled, mainVars>>

EndStatus(reason) ==
  CASE reason = "SlowConsumer" -> "RESOURCE_EXHAUSTED"
    [] reason = "Shutdown" -> "UNAVAILABLE"
    [] reason = "Unsubscribed" -> "CANCELLED"

\* pump, after next_for came back with nothing: has the stream ended?
CheckEnded(r) ==
  /\ At(r, "empty")
  /\ LET sub == subscription[stream[r].id] IN
     IF HasEnded(sub) THEN LeaveWith(r, EndStatus(sub.end_reason)) ELSE Goto(r, "check")
  /\ UNCHANGED <<publisherVars, workerVars, outbox, routing, sent, cancelled, mainVars>>

\* Write blocks until the client takes the item.
Write(r) ==
  /\ At(r, "write")
  /\ r \notin cancelled
  /\ sent' = [sent EXCEPT ![r] = Append(@, stream[r].item)]
  /\ stream' = [stream EXCEPT ![r].pc = "check", ![r].item = None]
  /\ UNCHANGED <<publisherVars, workerVars, outbox, routing, cancelled, mainVars>>

\* Write returns false: the stream broke.
WriteFails(r) ==
  /\ At(r, "write")
  /\ r \in cancelled
  /\ LeaveWith(r, "CANCELLED")
  /\ UNCHANGED <<publisherVars, workerVars, outbox, routing, sent, cancelled, mainVars>>

\* ~Leave.
LeaveStream(r) ==
  /\ At(r, "leave")
  /\ unsubscribe(stream[r].id)
  /\ Goto(r, "done")
  /\ UNCHANGED <<workerVars, outbox, routing, sent, cancelled, mainVars>>

\* A client cancels its call or its connection breaks.
ClientLeaves(r) ==
  /\ stream[r].pc \notin {"none", "leave", "done"}
  /\ r \notin cancelled
  /\ cancelled' = cancelled \cup {r}
  /\ UNCHANGED <<publisherVars, workerVars, outbox, routing, stream, sent, mainVars>>

-----------------------------------------------------------------------------
(* main: ShutdownInOrder *)

\* A signal: the feeds stop, and their threads with them.
FeedsStop ==
  /\ phase = "running"
  /\ phase' = "workers"
  /\ UNCHANGED <<publisherVars, workerVars, outbox, routing, streamVars, pilled>>

\* Worker::stop, one worker after the other: push Shutdown, and join.
StopWorker(w) ==
  /\ phase = "workers"
  /\ w \notin pilled
  /\ \A v \in 1 .. w - 1 : v \in returned
  /\ pilled' = pilled \cup {w}
  /\ Submit(w, Shutdown)
  /\ UNCHANGED <<publisherVars, pushing, returned, as_of, commands, outbox, routing,
                 streamVars, phase>>

\* Fault: the workers are told to stop and not joined.
CloseOutbox_Early ==
  /\ phase = "workers"
  /\ pilled = Workers
  /\ phase' = "publisher"
  /\ outbox' = Append(outbox, OutboxClosed)
  /\ UNCHANGED <<publisherVars, workerVars, routing, streamVars, pilled>>

CloseOutbox ==
  /\ phase = "workers"
  /\ returned = Workers
  /\ phase' = "publisher"
  /\ outbox' = Append(outbox, OutboxClosed)
  /\ UNCHANGED <<publisherVars, workerVars, routing, streamVars, pilled>>

\* publisher.join returns, and feed_server.stop begins the grace period.
StopServer ==
  /\ phase = "publisher"
  /\ closed
  /\ phase' = "server"
  /\ UNCHANGED <<publisherVars, workerVars, outbox, routing, streamVars, pilled>>

Open == {r \in Streams : stream[r].pc \notin {"none", "done"}}

\* Fault: the server waits for its clients without a deadline.
GraceOver_Patient ==
  /\ phase = "server"
  /\ Open # {}
  /\ phase' = "cancelled"
  /\ UNCHANGED <<publisherVars, workerVars, outbox, routing, streamVars, pilled>>

\* The grace period is over: open calls are cancelled.
GraceOver ==
  /\ phase = "server"
  /\ Open # {}
  /\ phase' = "cancelled"
  /\ cancelled' = cancelled \cup Open
  /\ UNCHANGED <<publisherVars, workerVars, outbox, routing, stream, sent, pilled>>

\* Wait returns when no call is open.
ServerStopped ==
  /\ phase \in {"server", "cancelled"}
  /\ Open = {}
  /\ phase' = "stopped"
  /\ UNCHANGED <<publisherVars, workerVars, outbox, routing, streamVars, pilled>>

-----------------------------------------------------------------------------

WorkerStep(w) == WorkerTakes(w) \/ WorkerPushes(w)

PublisherStep == PublisherPops \/ PublisherRoutes \/ PublisherDrops

\* What a handler does without waiting for its client.
HandlerStep(r) ==
  \/ RequestSnapshot(r)
  \/ CheckCancelled(r)
  \/ NextFor(r)
  \/ CheckEnded(r)
  \/ WriteFails(r)
  \/ LeaveStream(r)

MainStep ==
  \/ \E w \in Workers : StopWorker(w)
  \/ CloseOutbox
  \/ StopServer
  \/ GraceOver
  \/ ServerStopped

Environment ==
  \/ \E s \in Symbols, gateway \in Gateways : FeedSubmits(s, gateway)
  \/ \E r \in Streams, q \in MarketRequests : Subscribe(r, q)
  \/ \E r \in Streams, gateway \in RepliesGateways : SubscribeReplies(r, gateway)
  \/ \E r \in Streams : Write(r) \/ ClientLeaves(r)
  \/ FeedsStop

Next ==
  \/ \E w \in Workers : WorkerStep(w)
  \/ PublisherStep
  \/ \E r \in Streams : HandlerStep(r)
  \/ MainStep
  \/ Environment

Spec == Init /\ [][Next]_vars

\* Threads that can run do, and main's joins return; nothing is asked of clients.
FairSpec ==
  /\ Spec
  /\ \A w \in Workers : WF_vars(WorkerStep(w))
  /\ WF_vars(PublisherStep)
  /\ \A r \in Streams : WF_vars(HandlerStep(r))
  /\ WF_vars(MainStep)

=============================================================================
