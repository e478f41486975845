------------------------ MODULE EngineFeedProperties ------------------------
(***************************************************************************)
(* What makes the output side of an engine node correct.                   *)
(***************************************************************************)
EXTENDS EngineFeed

-----------------------------------------------------------------------------
(* Types *)

Kinds == {"Market", "Replies"}

EndReasons == {"None", "Unsubscribed", "SlowConsumer", "Shutdown"}

StatusCodes == {"None", "INVALID_ARGUMENT", "ALREADY_EXISTS", "NOT_FOUND", "UNAVAILABLE",
                "OUT_OF_RANGE", "CANCELLED", "RESOURCE_EXHAUSTED"}

EventItem == [kind : {"event"}, symbol : Symbols, seq : Nat]

SnapshotItem == [kind : {"snapshot"}, symbol : Symbols, seq : Nat, subscriber : Nat]

ReplyItem == [kind : {"reply"}, symbol : Symbols, gateway : Gateways, number : Nat]

FeedItem == EventItem \cup SnapshotItem \cup ReplyItem

Output == FeedItem \cup {OutboxClosed}

InboxItem ==
  [kind : {"command"}, symbol : Symbols, gateway : Gateways, number : Nat]
    \cup [kind : {"snapshot"}, symbol : Symbols, subscriber : Nat]
    \cup {Shutdown}

SeatsTypeOK(seats) ==
  /\ DOMAIN seats \subseteq Gateways
  /\ \A g \in DOMAIN seats : seats[g] \in DOMAIN subscription

SubscriberTypeOK(entry) ==
  /\ entry.kind \in Kinds
  /\ DOMAIN entry.symbols \subseteq Symbols
  /\ \A s \in DOMAIN entry.symbols :
       entry.symbols[s] \in [live : BOOLEAN, skip_below : Nat]

PublisherTypeOK ==
  /\ DOMAIN subscribers \subseteq DOMAIN subscription
  /\ \A id \in DOMAIN subscribers : SubscriberTypeOK(subscribers[id])
  /\ SeatsTypeOK(market_by_gateway)
  /\ SeatsTypeOK(replies_by_gateway)
  /\ subscription \in Seq([gateway : Gateways, items : Seq(FeedItem), end_reason : EndReasons,
                            capacity : Nat])
  /\ next_id = Len(subscription) + 1
  /\ closed \in BOOLEAN
  /\ history \in [Symbols -> Seq(Nat)]
  /\ last_seq \in [Symbols -> Nat]
  /\ too_slow \subseteq DOMAIN subscribers

StreamTypeOK(r) ==
  LET x == stream[r] IN
  /\ x.pc \in {"none", "request", "check", "next", "empty", "write", "leave", "done"}
  /\ x.kind \in Kinds \cup {"None"}
  /\ x.id \in DOMAIN subscription \cup {0}
  /\ x.snapshots \subseteq Symbols
  /\ x.item \in FeedItem \cup {None}
  /\ x.status \in StatusCodes

\* Every variable holds a value of the type the code declares for it, and ids
\* are given in order.
TypeOK ==
  /\ PublisherTypeOK
  /\ inbox \in [Workers -> Seq(InboxItem)]
  /\ pushing \in [Workers -> Seq(FeedItem)]
  /\ returned \subseteq pilled /\ pilled \subseteq Workers
  /\ as_of \in [Symbols -> Nat]
  /\ commands \in Seq([symbol : Symbols, gateway : Gateways])
  /\ outbox \in Seq(Output)
  /\ routing \in Output \cup {None}
  /\ \A r \in Streams : StreamTypeOK(r)
  /\ sent \in [Streams -> Seq(FeedItem)]
  /\ cancelled \subseteq Streams
  /\ phase \in {"running", "workers", "publisher", "server", "cancelled", "stopped"}

-----------------------------------------------------------------------------
(* The registry and the seats *)

SeatsOf(kind) == IF kind = "Market" THEN market_by_gateway ELSE replies_by_gateway

\* A seat names an open subscriber of its kind and gateway.
SeatsAreTaken ==
  \A kind \in Kinds : \A g \in DOMAIN SeatsOf(kind) :
    /\ SeatsOf(kind)[g] \in DOMAIN subscribers
    /\ subscribers[SeatsOf(kind)[g]].kind = kind
    /\ subscription[SeatsOf(kind)[g]].gateway = g

\* Every open subscriber has its seat.
SubscribersAreSeated ==
  \A kind \in Kinds : \A id \in DOMAIN subscribers : subscribers[id].kind = kind =>
    /\ subscription[id].gateway \in DOMAIN SeatsOf(kind)
    /\ SeatsOf(kind)[subscription[id].gateway] = id

\* A subscription is open as long as it is in the registry.
OpenAreRegistered ==
  \A id \in DOMAIN subscription : id \in DOMAIN subscribers <=> ~HasEnded(subscription[id])

\* The three maps of the publisher agree with each other and with the ends of the
\* subscriptions, after every step of every thread (drop, subscribe, the close in run).
SeatsAgree == SeatsAreTaken /\ SubscribersAreSeated /\ OpenAreRegistered

\* Only its own handler ends a subscription as Unsubscribed: the Leave of an old
\* stream never frees the seat of the gateway's new stream; and a handler that
\* is done has freed its seat (pump's Leave, drop).
LeaveFreesOwnSeat ==
  /\ \A r \in Streams :
       At(r, "done") /\ stream[r].id # 0 => stream[r].id \notin DOMAIN subscribers
  /\ \A id \in DOMAIN subscription : subscription[id].end_reason = "Unsubscribed" =>
       \E r \in Streams : At(r, "done") /\ stream[r].id = id

-----------------------------------------------------------------------------
(* What a stream gets *)

Following(r) == stream[r].pc \in {"request", "check", "next", "empty", "write"}

\* The stream is open and the publisher still serves it.
Served(r) == Following(r) /\ stream[r].id \in DOMAIN subscribers \ too_slow

\* All a stream has been given: sent, in the handler's hand, and queued; what a
\* handler that leaves has not sent is lost.
Given(r) ==
  IF Following(r)
  THEN sent[r]
         \o (IF stream[r].item = None THEN <<>> ELSE <<stream[r].item>>)
         \o subscription[stream[r].id].items
  ELSE sent[r]

\* The item tells the client the state of s up to item.seq.
About(item, s) == item.kind \in {"event", "snapshot"} /\ item.symbol = s

\* Place i has the last item about s before place j.
IsLatest(x, i, j, s) ==
  /\ i \in 1 .. j - 1
  /\ About(x[i], s)
  /\ \A k \in i + 1 .. j - 1 : ~About(x[k], s)

IsReplayed(r, s) == s \in DOMAIN stream[r].request.from_seq

\* What a market stream may be given about s first.
IsStart(r, item, s) ==
  IF IsReplayed(r, s)
  THEN item = Event(s, stream[r].request.from_seq[s])
  ELSE item.kind = "snapshot" /\ item.subscriber = stream[r].id

\* Of a symbol a market stream gets one snapshot, or the first event it asked
\* for, and from there each event once and in order (README, engine feed): no
\* gap and no duplicate, whatever ends the stream.
NoGap ==
  \A r \in Streams : stream[r].kind = "Market" => \A s \in Symbols :
    LET x == Given(r) IN
    \A j \in DOMAIN x : About(x[j], s) =>
      /\ s \in Asked(stream[r].request)
      /\ (\A i \in 1 .. j - 1 : ~About(x[i], s)) => IsStart(r, x[j], s)
      /\ \A i \in 1 .. j - 1 : IsLatest(x, i, j, s) => x[j] = Event(s, x[i].seq + 1)

\* As long as it is served, a stream that is live for a symbol has been given
\* everything routed so far, up to the last event: what others do, leave
\* undone or lose costs it nothing (route).
NothingMissed ==
  \A r \in Streams : Served(r) => \A s \in DOMAIN subscribers[stream[r].id].symbols :
    LET x == Given(r)
        state == subscribers[stream[r].id].symbols[s]
    IN  state.live =>
          \/ /\ \A i \in DOMAIN x : ~About(x[i], s)
             /\ last_seq[s] < state.skip_below
          \/ \E i \in DOMAIN x : IsLatest(x, i, Len(x) + 1, s) /\ x[i].seq = last_seq[s]

\* A replies stream gets only replies of its own gateway, and those to commands
\* for one symbol in the order of the commands, each once; a market stream
\* never gets a reply (route, fill).
RepliesPrivate ==
  \A r \in Streams :
    LET x == Given(r) IN
    /\ stream[r].kind = "Market" => \A i \in DOMAIN x : x[i].kind # "reply"
    /\ stream[r].kind = "Replies" =>
         /\ \A i \in DOMAIN x : x[i].kind = "reply" /\ x[i].gateway = stream[r].request
         /\ \A i, j \in DOMAIN x : i < j /\ x[i].symbol = x[j].symbol => x[i].number < x[j].number

Carries(item, number) == item.kind \in {"command", "reply"} /\ item.number = number

\* The command or its reply is still on its way to the publisher's queues.
Travelling(number) ==
  \/ \E w \in Workers :
       \/ \E i \in DOMAIN inbox[w] : Carries(inbox[w][i], number)
       \/ \E i \in DOMAIN pushing[w] : Carries(pushing[w][i], number)
  \/ \E i \in DOMAIN outbox : Carries(outbox[i], number)
  \/ routing # None /\ Carries(routing, number)

\* Once a replies stream that is served has got a reply, it has got every later
\* one of its gateway and the symbol that is not on its way yet.
RepliesComplete ==
  \A r \in Streams : Served(r) /\ stream[r].kind = "Replies" =>
    \A i \in DOMAIN Given(r), k \in DOMAIN commands :
      LET reply == Given(r)[i] IN
      /\ k > reply.number
      /\ commands[k] = [symbol |-> reply.symbol, gateway |-> stream[r].request]
      /\ ~Travelling(k)
      => \E j \in DOMAIN Given(r) : Given(r)[j].number = k

\* The events kept of a symbol are the last ones, without a hole (remember): the
\* window a stream may resume from.
HistoryIsWindow ==
  \A s \in Symbols :
    /\ Len(history[s]) = Min({ReplayWindow, last_seq[s]})
    /\ \A i \in DOMAIN history[s] : history[s][i] = last_seq[s] - Len(history[s]) + i

-----------------------------------------------------------------------------
(* Shutdown *)

\* When the publisher has closed, nothing accepted before is left behind: every
\* command was run, and every event and reply was routed (ShutdownInOrder).
NothingLeftAtClose ==
  closed =>
    /\ \A w \in Workers : pushing[w] = <<>> /\ \A i \in DOMAIN inbox[w] : inbox[w][i].kind = "snapshot"
    /\ outbox = <<>>
    /\ last_seq = as_of

\* A stream that the shutdown of the engine ends has been sent all its queue:
\* "ended and fully drained" (engine_feed_server.cpp:110).
DrainedAtShutdown ==
  \A r \in Streams :
    stream[r].id # 0 /\ stream[r].status = "UNAVAILABLE" => subscription[stream[r].id].items = <<>>

-----------------------------------------------------------------------------
(* The promise to the clients *)

\* The number of the last event of s in what the stream has sent.
Seen(r, s) ==
  LET x == sent[r] IN
  IF \A i \in DOMAIN x : ~About(x[i], s)
  THEN None
  ELSE x[CHOOSE i \in DOMAIN x : IsLatest(x, i, Len(x) + 1, s)].seq

View == INSTANCE FeedView WITH
  published <- as_of,
  seen <- [r \in Streams |-> [s \in Symbols |-> Seen(r, s)]],
  over <- {r \in Streams : At(r, "leave") \/ At(r, "done")}

\* The threads together keep the promise of FeedView: a client sees a first
\* state of a symbol, and then one event after the other.
KeepsPromise == View!Spec

-----------------------------------------------------------------------------
(* Liveness *)

\* Once main has begun to shut down it comes to its end, whatever the clients
\* do: no join and no Wait hangs (ShutdownInOrder, EngineFeedServer::stop).
ShutdownEnds == phase # "running" ~> phase = "stopped"

\* A subscriber that waits for the snapshot of a symbol gets it, or its stream
\* ends (subscribe registers before it asks; Worker::run).
SnapshotComes ==
  \A r \in Streams, s \in Symbols :
    stream[r].id # 0 /\ Awaits(stream[r].id, s) ~> ~Awaits(stream[r].id, s)

\* A stream whose client is gone ends, and frees its seat (pump).
SeatIsFreed ==
  \A r \in Streams : r \in cancelled ~> At(r, "done")

\* If the clients read, each sees every event of a symbol it follows, up to any
\* number that the book has reached, or its stream ends.
ClientsRead == \A r \in Streams : WF_vars(Write(r))

HasSeen(r, s, n) == Seen(r, s) # None /\ Seen(r, s) >= n

CatchesUp ==
  ClientsRead =>
    \A r \in Streams, s \in Symbols : \A n \in 1 .. MaxCommands * MaxEvents :
      HasSeen(r, s, 0) /\ as_of[s] >= n ~> ~Following(r) \/ HasSeen(r, s, n)

=============================================================================
