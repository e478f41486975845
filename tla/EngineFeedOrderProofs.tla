------------------------ MODULE EngineFeedOrderProofs ------------------------
(***************************************************************************)
(* The way of an event from its book to the publisher, for every value of  *)
(* the constants: through the worker, the outbox that all workers share    *)
(* and the publisher's hand, no event is lost, doubled or overtaken.       *)
(***************************************************************************)
EXTENDS EngineFeedProofs

-----------------------------------------------------------------------------
(* Where the events of a symbol are *)

\* The events of s that its worker has still to put in the outbox.
ToPush(s) ==
  LET p == pushing[WorkerOf[s]] IN IF p # <<>> /\ Last(p).symbol = s THEN Len(p) - 1 ELSE 0

\* The number of the last event of s that was put in the outbox.
PutOut(s) == as_of[s] - ToPush(s)

IsRouting(s) == routing # None /\ routing.kind = "event" /\ routing.symbol = s

\* The number of the last event of s that was taken from the outbox.
TakenOut(s) == IF IsRouting(s) THEN last_seq[s] + 1 ELSE last_seq[s]

\* The i-th output of the outbox is an event of s.
EventAt(i, s) == outbox[i].kind = "event" /\ outbox[i].symbol = s

-----------------------------------------------------------------------------
(* The inductive invariant *)

LineTypeOK ==
  /\ inbox \in [Workers -> Seq(InboxItem)]
  /\ pushing \in [Workers -> Seq(FeedItem)]
  /\ outbox \in Seq(Output)
  /\ routing \in Output \cup {None}
  /\ as_of \in [Symbols -> Nat]
  /\ last_seq \in [Symbols -> Nat]
  /\ history \in [Symbols -> Seq(Nat)]
  /\ commands \in Seq([symbol : Symbols, gateway : Gateways])

\* A handler asks for snapshots of known symbols.
SnapshotsOK ==
  \A r \in Streams : "snapshots" \in DOMAIN stream[r] /\ stream[r].snapshots \subseteq Symbols

\* A command is in the inbox of the worker of its symbol.
InboxOfWorker ==
  \A w \in Workers : \A i \in DOMAIN inbox[w] :
    inbox[w][i].kind = "command" => WorkerOf[inbox[w][i].symbol] = w

\* A worker has in hand the last events of one of its books, and what follows them.
PushingInOrder ==
  \A w \in Workers : pushing[w] # <<>> =>
    LET k == Len(pushing[w]) - 1
        s == Last(pushing[w]).symbol
    IN  /\ Last(pushing[w]).kind # "event"
        /\ \A i \in 1 .. k : WorkerOf[s] = w /\ pushing[w][i] = Event(s, as_of[s] - k + i)

\* The outbox holds the events of s between the two numbers, in order.
OutboxInOrder(s) ==
  /\ TakenOut(s) <= PutOut(s)
  /\ \A i \in DOMAIN outbox : EventAt(i, s) =>
       TakenOut(s) < outbox[i].seq /\ outbox[i].seq <= PutOut(s)
  /\ \A i, j \in DOMAIN outbox : i < j /\ EventAt(i, s) /\ EventAt(j, s) =>
       outbox[i].seq < outbox[j].seq
  /\ \A n \in TakenOut(s) + 1 .. PutOut(s) :
       \E i \in DOMAIN outbox : EventAt(i, s) /\ outbox[i].seq = n

RoutingIsNext == \A s \in Symbols : IsRouting(s) => routing.seq = last_seq[s] + 1

\* No event is lost, doubled or overtaken between its book and the window.
EventsInOrder ==
  /\ PushingInOrder
  /\ \A s \in Symbols : OutboxInOrder(s)
  /\ RoutingIsNext
  /\ HistoryIsWindow

Stopping == phase \notin {"running", "workers"}

\* Behind the pill of a worker there are only requests for snapshots, and a
\* worker that has returned has done all the rest.
PillIsLast ==
  /\ phase = "running" => pilled = {}
  /\ returned \subseteq pilled /\ pilled \subseteq Workers
  /\ \A w \in Workers : \A i \in DOMAIN inbox[w] : inbox[w][i].kind = "shutdown" =>
       /\ w \in pilled
       /\ \A j \in DOMAIN inbox[w] : i < j => inbox[w][j].kind = "snapshot"
  /\ \A w \in returned :
       /\ pushing[w] = <<>>
       /\ \A i \in DOMAIN inbox[w] : inbox[w][i].kind = "snapshot"
  /\ Stopping => returned = Workers

\* The outbox is closed behind its last output, when the workers have returned.
ClosedIsLast ==
  /\ \A i \in DOMAIN outbox : outbox[i].kind = "closed" => Stopping /\ i = Len(outbox)
  /\ routing # None /\ routing.kind = "closed" => Stopping /\ outbox = <<>>
  /\ closed => routing # None /\ routing.kind = "closed"

LineInv ==
  /\ LineTypeOK
  /\ SnapshotsOK
  /\ InboxOfWorker
  /\ EventsInOrder
  /\ PillIsLast
  /\ ClosedIsLast

OrderInv == SeatsInv /\ LineInv

-----------------------------------------------------------------------------
(* What the definitions say *)

\* The kinds of what is on its way, and the events among it.
LEMMA KindsApart ==
  /\ \A x \in FeedItem : x \in Output /\ x.kind \in {"event", "snapshot", "reply"}
  /\ \A x \in Output : x.kind \in {"event", "snapshot", "reply", "closed"}
  /\ \A x \in Output : x.kind = "event" =>
       x.symbol \in Symbols /\ x.seq \in Nat /\ x = Event(x.symbol, x.seq) /\ x # None
  /\ \A x \in Output : x.kind = "closed" => x = OutboxClosed
  /\ \A x \in InboxItem : x.kind \in {"command", "snapshot", "shutdown"}
  /\ \A x \in InboxItem : x.kind = "command" =>
       x.symbol \in Symbols /\ x.gateway \in Gateways /\ x.number \in Nat
  /\ \A x \in InboxItem : x.kind = "snapshot" => x.symbol \in Symbols /\ x.subscriber \in Nat
  /\ OutboxClosed \in Output /\ Shutdown \in InboxItem
  /\ OutboxClosed.kind = "closed" /\ Shutdown.kind = "shutdown"
BY PublisherAssumption DEF FeedItem, EventItem, SnapshotItem, ReplyItem, Output, OutboxClosed,
   InboxItem, Shutdown, Event

LEMMA MadeItems ==
  ASSUME NEW s \in Symbols
  PROVE  /\ \A n \in Nat : Event(s, n) \in FeedItem /\ Event(s, n).kind = "event"
                             /\ Event(s, n).symbol = s /\ Event(s, n).seq = n
         /\ \A n \in Nat, id \in Nat :
              /\ SnapshotReady(s, n, id) \in FeedItem
              /\ SnapshotReady(s, n, id).kind = "snapshot"
         /\ \A g \in Gateways, n \in Nat :
              /\ Reply(s, g, n) \in FeedItem
              /\ Reply(s, g, n).kind = "reply" /\ Reply(s, g, n).symbol = s
         /\ \A id \in Nat : /\ TakeSnapshot(s, id) \in InboxItem
                            /\ TakeSnapshot(s, id).kind = "snapshot"
         /\ \A g \in Gateways, n \in Nat :
              /\ Command(s, g, n) \in InboxItem
              /\ Command(s, g, n).kind = "command" /\ Command(s, g, n).symbol = s
BY DEF FeedItem, EventItem, SnapshotItem, ReplyItem, InboxItem, Event, SnapshotReady, Reply,
   TakeSnapshot, Command

\* An element joins a queue at its end.
LEMMA Appended ==
  ASSUME NEW S, NEW q \in Seq(S), NEW x \in S
  PROVE  /\ Append(q, x) \in Seq(S) /\ Append(q, x) # <<>>
         /\ Len(q) \in Nat /\ Len(Append(q, x)) = Len(q) + 1
         /\ DOMAIN q = 1 .. Len(q)
         /\ DOMAIN Append(q, x) = 1 .. Len(q) + 1
         /\ \A i \in 1 .. Len(q) : Append(q, x)[i] = q[i]
         /\ Append(q, x)[Len(q) + 1] = x
OBVIOUS

\* The first element leaves a queue.
LEMMA Taken ==
  ASSUME NEW S, NEW q \in Seq(S), q # <<>>
  PROVE  /\ Head(q) \in S /\ Head(q) = q[1]
         /\ Len(q) \in Nat \ {0} /\ DOMAIN q = 1 .. Len(q)
         /\ Tail(q) \in Seq(S) /\ Len(Tail(q)) = Len(q) - 1
         /\ DOMAIN Tail(q) = 1 .. Len(q) - 1
         /\ \A i \in 1 .. Len(q) - 1 : Tail(q)[i] = q[i + 1]
OBVIOUS

LEMMA LastOfTail ==
  ASSUME NEW S, NEW q \in Seq(S), Len(q) - 1 # 0, q # <<>>
  PROVE  Tail(q) # <<>> /\ Last(Tail(q)) = Last(q)
<1>1. PICK k \in Nat \ {0} : Len(q) = k + 1
  <2>1. Len(q) \in Nat \ {0}
    BY Taken
  <2>2. /\ Len(q) - 1 \in Nat \ {0}
        /\ Len(q) = (Len(q) - 1) + 1
    BY <2>1
  <2> QED  BY <2>2
<1>2. /\ Tail(q) \in Seq(S) /\ Len(Tail(q)) = k
      /\ \A i \in 1 .. k : Tail(q)[i] = q[i + 1]
  BY <1>1, Taken
<1>3. Tail(q)[k] = q[k + 1]
  BY <1>2
<1>4. Tail(q) # <<>>
  BY <1>2, Len(<<>>) = 0
<1> QED  BY <1>1, <1>2, <1>3, <1>4 DEF Last

LEMMA MinOfTwo ==
  ASSUME NEW a \in Nat, NEW b \in Nat
  PROVE  Min({a, b}) = IF a <= b THEN a ELSE b
BY DEF Min

-----------------------------------------------------------------------------
(* The window *)

\* The numbers kept when n was the last.
IsWindow(kept, n) ==
  /\ kept \in Seq(Nat)
  /\ Len(kept) = Min({ReplayWindow, n})
  /\ \A i \in DOMAIN kept : kept[i] = n - Len(kept) + i

\* The next event in the window (remember).
LEMMA RememberedIsWindow ==
  ASSUME NEW kept, NEW n \in Nat, IsWindow(kept, n)
  PROVE  IsWindow(Remembered(kept, n + 1), n + 1)
<1> DEFINE new == Remembered(kept, n + 1)
<1>1. kept \in Seq(Nat)
  BY DEF IsWindow
<1>2. /\ ReplayWindow \in Nat
      /\ Len(kept) = IF ReplayWindow <= n THEN ReplayWindow ELSE n
      /\ Min({ReplayWindow, n + 1}) = IF ReplayWindow <= n + 1 THEN ReplayWindow ELSE n + 1
  <2>1. ReplayWindow \in Nat /\ n + 1 \in Nat
    BY PublisherAssumption
  <2>2. Len(kept) = Min({ReplayWindow, n})
    BY DEF IsWindow
  <2> QED  BY <2>1, <2>2, MinOfTwo
<1>3. PICK m \in Nat : m = Len(kept)
  BY <1>1
<1>4. DOMAIN kept = 1 .. m
  BY <1>1, <1>3
<1>5. \A i \in 1 .. m : kept[i] = n - m + i
  BY <1>3, <1>4 DEF IsWindow
<1>6. CASE ReplayWindow = 0
  <2>1. new = <<>>
    BY <1>6 DEF Remembered
  <2> HIDE DEF new
  <2>2. new \in Seq(Nat) /\ Len(new) = Min({ReplayWindow, n + 1}) /\ DOMAIN new = {}
    BY <1>2, <1>6, <2>1
  <2>3. IsWindow(new, n + 1)
    BY <2>2 DEF IsWindow
  <2> QED  BY <2>3 DEF new
<1>7. CASE ReplayWindow # 0 /\ Len(kept) >= ReplayWindow
  <2>1. kept # <<>> /\ Len(kept) = ReplayWindow /\ ReplayWindow <= n
    BY <1>1, <1>2, <1>7
  <2>2. new = Append(Tail(kept), n + 1)
    BY <1>7 DEF Remembered
  <2> HIDE DEF new
  <2>3. /\ Tail(kept) \in Seq(Nat) /\ Len(Tail(kept)) = ReplayWindow - 1
        /\ \A i \in 1 .. ReplayWindow - 1 : Tail(kept)[i] = kept[i + 1]
    BY <1>1, <2>1, Taken
  <2>4. /\ new \in Seq(Nat) /\ Len(new) = ReplayWindow /\ DOMAIN new = 1 .. ReplayWindow
        /\ \A i \in 1 .. ReplayWindow - 1 : new[i] = Tail(kept)[i]
        /\ new[ReplayWindow] = n + 1
    BY <1>2, <2>2, <2>3, Appended
  <2>5. ASSUME NEW i \in 1 .. ReplayWindow PROVE new[i] = n + 1 - ReplayWindow + i
    <3>1. CASE i = ReplayWindow
      BY <1>2, <2>4, <3>1
    <3>2. CASE i # ReplayWindow
      <4>1. i \in 1 .. ReplayWindow - 1 /\ i + 1 \in 1 .. m /\ m = ReplayWindow
        BY <1>2, <1>3, <2>1, <3>2
      <4>2. new[i] = kept[i + 1]
        BY <4>1, <2>3, <2>4
      <4>3. kept[i + 1] = n - m + (i + 1)
        BY <1>5, <4>1
      <4> QED  BY <1>2, <4>1, <4>2, <4>3
    <3> QED  BY <3>1, <3>2
  <2>6. \A i \in DOMAIN new : new[i] = (n + 1) - Len(new) + i
    BY <2>4, <2>5
  <2>7. Len(new) = Min({ReplayWindow, n + 1})
    BY <1>2, <2>1, <2>4
  <2>8. IsWindow(new, n + 1)
    BY <2>4, <2>6, <2>7 DEF IsWindow
  <2> QED  BY <2>8 DEF new
<1>8. CASE ReplayWindow # 0 /\ Len(kept) < ReplayWindow
  <2>1. Len(kept) = n /\ ReplayWindow > n /\ m = n
    BY <1>2, <1>3, <1>8
  <2>2. new = Append(kept, n + 1)
    <3>1. ~(ReplayWindow = 0) /\ ~(Len(kept) >= ReplayWindow)
      BY <1>2, <1>8, <2>1
    <3> QED  BY <3>1 DEF Remembered
  <2> HIDE DEF new
  <2>3. /\ new \in Seq(Nat) /\ Len(new) = n + 1 /\ DOMAIN new = 1 .. n + 1
        /\ \A i \in 1 .. n : new[i] = kept[i]
        /\ new[n + 1] = n + 1
    BY <1>1, <2>1, <2>2, Appended
  <2>4. Len(new) = Min({ReplayWindow, n + 1})
    BY <1>2, <2>1, <2>3
  <2>5. ASSUME NEW i \in 1 .. n PROVE new[i] = i
    <3>1. kept[i] = n - m + i
      BY <1>5, <2>1
    <3>2. kept[i] = i
      BY <2>1, <3>1
    <3> QED  BY <2>3, <3>2
  <2>6. \A i \in DOMAIN new : new[i] = (n + 1) - Len(new) + i
    BY <2>3, <2>5
  <2>7. IsWindow(new, n + 1)
    BY <2>3, <2>4, <2>6 DEF IsWindow
  <2> QED  BY <2>7 DEF new
<1>9. Len(kept) \in Nat
  BY <1>1
<1> QED  BY <1>2, <1>6, <1>7, <1>8, <1>9

-----------------------------------------------------------------------------
(* The order of the outbox *)

LEMMA SameLine ==
  ASSUME EventsInOrder, UNCHANGED <<pushing, as_of, outbox, routing, last_seq, history>>
  PROVE  EventsInOrder'
<1>1. \A s \in Symbols : PutOut(s)' = PutOut(s) /\ TakenOut(s)' = TakenOut(s)
  BY DEF PutOut, ToPush, TakenOut, IsRouting
<1>2. \A s \in Symbols : OutboxInOrder(s)'
  BY <1>1 DEF EventsInOrder, OutboxInOrder, EventAt
<1> QED  BY <1>2 DEF EventsInOrder, PushingInOrder, RoutingIsNext, IsRouting, HistoryIsWindow

\* What stays between the two numbers stays in order.
LEMMA SameOutbox ==
  ASSUME NEW s \in Symbols, OutboxInOrder(s), UNCHANGED outbox,
         PutOut(s)' = PutOut(s), TakenOut(s)' = TakenOut(s)
  PROVE  OutboxInOrder(s)'
BY DEF OutboxInOrder, EventAt

\* An output that is no event of s joins the outbox.
LEMMA OtherJoins ==
  ASSUME LineTypeOK, NEW s \in Symbols, OutboxInOrder(s),
         NEW x \in Output, outbox' = Append(outbox, x), ~(x.kind = "event" /\ x.symbol = s),
         PutOut(s)' = PutOut(s), TakenOut(s)' = TakenOut(s)
  PROVE  OutboxInOrder(s)'
<1>1. outbox \in Seq(Output)
  BY DEF LineTypeOK
<1>2. /\ Len(outbox) \in Nat /\ DOMAIN outbox = 1 .. Len(outbox)
      /\ DOMAIN outbox' = 1 .. Len(outbox) + 1
      /\ \A i \in 1 .. Len(outbox) : outbox'[i] = outbox[i]
      /\ outbox'[Len(outbox) + 1] = x
  BY <1>1, Appended
<1>3. \A i \in DOMAIN outbox' : EventAt(i, s)' => i \in DOMAIN outbox /\ EventAt(i, s)
  BY <1>2 DEF EventAt
<1>4. \A i \in DOMAIN outbox : i \in DOMAIN outbox' /\ outbox'[i] = outbox[i]
  BY <1>2
<1> QED  BY <1>3, <1>4 DEF OutboxInOrder, EventAt

\* The next event of s joins the outbox.
LEMMA NextJoins ==
  ASSUME LineTypeOK, NEW s \in Symbols, OutboxInOrder(s), PutOut(s) \in Int, TakenOut(s) \in Int,
         NEW x \in Output, outbox' = Append(outbox, x), x.kind = "event", x.symbol = s,
         x.seq = PutOut(s) + 1, PutOut(s)' = PutOut(s) + 1, TakenOut(s)' = TakenOut(s)
  PROVE  OutboxInOrder(s)'
<1>1. outbox \in Seq(Output)
  BY DEF LineTypeOK
<1>2. PICK n \in Nat : n = Len(outbox)
  BY <1>1
<1>3. /\ DOMAIN outbox = 1 .. n
      /\ DOMAIN outbox' = 1 .. n + 1
      /\ \A i \in 1 .. n : outbox'[i] = outbox[i]
      /\ outbox'[n + 1] = x
  BY <1>1, <1>2, Appended
<1>4. /\ TakenOut(s) <= PutOut(s)
      /\ \A i \in 1 .. n : EventAt(i, s) => TakenOut(s) < outbox[i].seq /\ outbox[i].seq <= PutOut(s)
      /\ \A i, j \in 1 .. n : i < j /\ EventAt(i, s) /\ EventAt(j, s) => outbox[i].seq < outbox[j].seq
      /\ \A k \in TakenOut(s) + 1 .. PutOut(s) : \E i \in 1 .. n : EventAt(i, s) /\ outbox[i].seq = k
  BY <1>3 DEF OutboxInOrder
<1>5. /\ \A i \in 1 .. n : EventAt(i, s)' <=> EventAt(i, s)
      /\ EventAt(n + 1, s)'
  BY <1>3 DEF EventAt
<1>6. outbox \in Seq(Output) /\ \A i \in 1 .. n : EventAt(i, s) => outbox[i].seq \in Nat
  BY <1>1, <1>3, KindsApart DEF EventAt
<1>7. \A i \in 1 .. n + 1 : EventAt(i, s)' =>
        TakenOut(s)' < outbox'[i].seq /\ outbox'[i].seq <= PutOut(s)'
  BY <1>3, <1>4, <1>5, <1>6
<1>8. \A i, j \in 1 .. n + 1 : i < j /\ EventAt(i, s)' /\ EventAt(j, s)' =>
        outbox'[i].seq < outbox'[j].seq
  BY <1>3, <1>4, <1>5, <1>6
<1>9. ASSUME NEW k \in TakenOut(s)' + 1 .. PutOut(s)'
      PROVE  \E i \in 1 .. n + 1 : EventAt(i, s)' /\ outbox'[i].seq = k
  <2>1. CASE k = PutOut(s) + 1
    BY <1>3, <1>5, <2>1
  <2>2. CASE k # PutOut(s) + 1
    <3>1. k \in TakenOut(s) + 1 .. PutOut(s)
      BY <2>2
    <3>2. PICK i \in 1 .. n : EventAt(i, s) /\ outbox[i].seq = k
      BY <1>4, <3>1
    <3> QED  BY <1>3, <1>5, <3>2
  <2> QED  BY <2>1, <2>2
<1>10. TakenOut(s)' <= PutOut(s)'
  BY <1>4
<1> QED  BY <1>3, <1>7, <1>8, <1>9, <1>10 DEF OutboxInOrder

-----------------------------------------------------------------------------
(* The workers *)

\* A worker that runs a command has its events in hand, and then its reply.
LEMMA OutputsAre ==
  ASSUME LineTypeOK, NEW item \in InboxItem, item.kind = "command", NEW n \in Nat
  PROVE  LET p == OutputsOf(item, n)
             s == item.symbol
         IN  /\ p \in Seq(FeedItem) /\ p # <<>> /\ Len(p) = n + 1
             /\ Last(p) = Reply(s, item.gateway, item.number)
             /\ Last(p).kind = "reply" /\ Last(p).symbol = s
             /\ \A i \in 1 .. n : p[i] = Event(s, as_of[s] + i)
<1> DEFINE s == item.symbol
           reply == Reply(s, item.gateway, item.number)
           x == [i \in 1 .. n |-> Event(s, as_of[s] + i)]
           p == OutputsOf(item, n)
<1>1. s \in Symbols /\ as_of[s] \in Nat /\ reply \in FeedItem /\ reply.kind = "reply" /\ reply.symbol = s
  BY KindsApart, MadeItems DEF LineTypeOK
<1>2. \A i \in 1 .. n : as_of[s] + i \in Nat
  BY <1>1
<1>3. \A i \in 1 .. n : Event(s, as_of[s] + i) \in FeedItem
  BY <1>1, <1>2, MadeItems
<1>4. p = x \o <<reply>>
  BY DEF OutputsOf
<1>5. x \in Seq(FeedItem) /\ Len(x) = n
  BY <1>3
<1>6. \A i \in 1 .. n : x[i] = Event(s, as_of[s] + i)
  OBVIOUS
<1> HIDE DEF x, p, reply
<1>7. /\ p \in Seq(FeedItem) /\ Len(p) = n + 1
      /\ \A i \in 1 .. n : p[i] = x[i]
      /\ p[n + 1] = reply
  <2>1. <<reply>> \in Seq(FeedItem) /\ Len(<<reply>>) = 1 /\ <<reply>>[1] = reply
    BY <1>1
  <2>2. p \in Seq(FeedItem) /\ Len(p) = n + 1
    BY <1>4, <1>5, <2>1
  <2>3. ASSUME NEW i \in 1 .. n PROVE p[i] = x[i]
    BY <1>4, <1>5, <2>1
  <2>4. p[n + 1] = reply
    BY <1>4, <1>5, <2>1
  <2> QED  BY <2>2, <2>3, <2>4
<1>8. p # <<>> /\ Last(p) = reply
  BY <1>7 DEF Last
<1> QED  BY <1>1, <1>6, <1>7, <1>8 DEF p, reply

\* The next item of an inbox, and what it can be.
LEMMA NextItem ==
  ASSUME LineTypeOK, InboxOfWorker, NEW w \in Workers, inbox[w] # <<>>
  PROVE  /\ Head(inbox[w]) \in InboxItem
         /\ Head(inbox[w]).kind = "command" => WorkerOf[Head(inbox[w]).symbol] = w
<1>1. inbox[w] \in Seq(InboxItem)
  BY DEF LineTypeOK
<1>2. Head(inbox[w]) = inbox[w][1] /\ 1 \in DOMAIN inbox[w] /\ Head(inbox[w]) \in InboxItem
  BY <1>1, Taken
<1> QED  BY <1>2 DEF InboxOfWorker

LEMMA NumbersTyped ==
  ASSUME LineTypeOK, NEW s \in Symbols
  PROVE  /\ WorkerOf[s] \in Workers
         /\ ToPush(s) \in Nat /\ PutOut(s) \in Int /\ TakenOut(s) \in Nat /\ as_of[s] \in Nat
<1>1. WorkerOf[s] \in Workers
  BY EngineFeedAssumption
<1>2. pushing[WorkerOf[s]] \in Seq(FeedItem) /\ as_of[s] \in Nat /\ last_seq[s] \in Nat
  BY <1>1 DEF LineTypeOK
<1>3. ToPush(s) \in Nat
  BY <1>2 DEF ToPush
<1> QED  BY <1>1, <1>2, <1>3 DEF PutOut, TakenOut

\* A command that is run puts nothing in the outbox yet.
LEMMA RunsKeepNumbers ==
  ASSUME LineTypeOK, NEW w \in Workers, pushing[w] = <<>>,
         NEW item \in InboxItem, item.kind = "command", WorkerOf[item.symbol] = w, NEW n \in Nat,
         pushing' = [pushing EXCEPT ![w] = OutputsOf(item, n)],
         as_of' = [as_of EXCEPT ![item.symbol] = @ + n]
  PROVE  \A s \in Symbols : PutOut(s)' = PutOut(s)
<1> DEFINE p == OutputsOf(item, n)
           own == item.symbol
<1>1. own \in Symbols /\ as_of[own] \in Nat
  BY KindsApart DEF LineTypeOK
<1>2. p # <<>> /\ Len(p) = n + 1 /\ Last(p).symbol = own
  BY OutputsAre
<1> HIDE DEF p
<1>3. /\ pushing'[w] = p /\ \A v \in Workers \ {w} : pushing'[v] = pushing[v]
      /\ as_of'[own] = as_of[own] + n /\ \A s \in Symbols \ {own} : as_of'[s] = as_of[s]
  BY <1>1 DEF LineTypeOK, p
<1> SUFFICES ASSUME NEW s \in Symbols PROVE PutOut(s)' = PutOut(s)
  OBVIOUS
<1>4. CASE s = own
  <2>1. ToPush(s) = 0 /\ ToPush(s)' = n
    BY <1>2, <1>3, <1>4 DEF ToPush
  <2> QED  BY <1>1, <1>3, <1>4, <2>1 DEF PutOut
<1>5. CASE s # own /\ WorkerOf[s] = w
  <2>1. ToPush(s) = 0 /\ ToPush(s)' = 0
    BY <1>2, <1>3, <1>5 DEF ToPush
  <2> QED  BY <1>3, <1>5, <2>1 DEF PutOut
<1>6. CASE s # own /\ WorkerOf[s] # w
  BY <1>3, <1>6, NumbersTyped DEF ToPush, PutOut
<1> QED  BY <1>4, <1>5, <1>6

LEMMA RunsKeepOrder ==
  ASSUME LineTypeOK, EventsInOrder, NEW w \in Workers, pushing[w] = <<>>,
         NEW item \in InboxItem, item.kind = "command", WorkerOf[item.symbol] = w, NEW n \in Nat,
         pushing' = [pushing EXCEPT ![w] = OutputsOf(item, n)],
         as_of' = [as_of EXCEPT ![item.symbol] = @ + n],
         UNCHANGED <<outbox, routing, last_seq, history>>
  PROVE  EventsInOrder'
<1> DEFINE p == OutputsOf(item, n)
           own == item.symbol
<1>1. own \in Symbols /\ as_of[own] \in Nat
  BY KindsApart DEF LineTypeOK
<1>2. /\ p # <<>> /\ Len(p) = n + 1 /\ Last(p).kind = "reply" /\ Last(p).symbol = own
      /\ \A i \in 1 .. n : p[i] = Event(own, as_of[own] + i)
  BY OutputsAre
<1> HIDE DEF p
<1>3. /\ pushing'[w] = p /\ \A v \in Workers \ {w} : pushing'[v] = pushing[v]
      /\ as_of'[own] = as_of[own] + n /\ \A s \in Symbols \ {own} : as_of'[s] = as_of[s]
  BY <1>1 DEF LineTypeOK, p
<1>4. PushingInOrder'
  <2> SUFFICES ASSUME NEW v \in Workers, pushing'[v] # <<>>
               PROVE  LET k == Len(pushing'[v]) - 1
                          s == Last(pushing'[v]).symbol
                      IN  /\ Last(pushing'[v]).kind # "event"
                          /\ \A i \in 1 .. k : /\ WorkerOf[s] = v
                                               /\ pushing'[v][i] = Event(s, as_of'[s] - k + i)
    BY DEF PushingInOrder
  <2>1. CASE v = w
    <3>1. Len(pushing'[v]) - 1 = n
      BY <1>2, <1>3, <2>1
    <3>2. \A i \in 1 .. n : as_of'[own] - n + i = as_of[own] + i
      BY <1>1, <1>3
    <3> QED  BY <1>2, <1>3, <2>1, <3>1, <3>2
  <2>2. CASE v # w
    <3> DEFINE k == Len(pushing[v]) - 1
               s == Last(pushing[v]).symbol
    <3>1. pushing'[v] = pushing[v] /\ pushing[v] \in Seq(FeedItem)
      BY <1>3, <2>2 DEF LineTypeOK
    <3>2. /\ Last(pushing[v]).kind # "event"
          /\ \A i \in 1 .. k : WorkerOf[s] = v /\ pushing[v][i] = Event(s, as_of[s] - k + i)
      BY <3>1 DEF EventsInOrder, PushingInOrder
    <3>3. s \in Symbols
      <4>1. Last(pushing[v]) \in FeedItem
        BY <3>1 DEF Last
      <4> QED  BY <4>1 DEF FeedItem, EventItem, SnapshotItem, ReplyItem
    <3>4. ASSUME NEW i \in 1 .. k
          PROVE  WorkerOf[s] = v /\ pushing'[v][i] = Event(s, as_of'[s] - k + i)
      BY <1>3, <2>2, <3>1, <3>2, <3>3
    <3> QED  BY <3>1, <3>2, <3>4
  <2> QED  BY <2>1, <2>2
<1>5. ASSUME NEW s \in Symbols PROVE OutboxInOrder(s)'
  <2>1. PutOut(s)' = PutOut(s)
    BY RunsKeepNumbers
  <2>2. TakenOut(s)' = TakenOut(s)
    BY DEF TakenOut, IsRouting
  <2> QED  BY <2>1, <2>2, SameOutbox DEF EventsInOrder
<1>6. RoutingIsNext' /\ HistoryIsWindow'
  BY DEF EventsInOrder, RoutingIsNext, IsRouting, HistoryIsWindow
<1> QED  BY <1>4, <1>5, <1>6 DEF EventsInOrder

LEMMA SnapshotKeepsNumbers ==
  ASSUME LineTypeOK, NEW w \in Workers, pushing[w] = <<>>,
         NEW x \in FeedItem, pushing' = [pushing EXCEPT ![w] = <<x>>], UNCHANGED as_of
  PROVE  \A s \in Symbols : PutOut(s)' = PutOut(s)
<1>1. pushing'[w] = <<x>> /\ \A v \in Workers \ {w} : pushing'[v] = pushing[v]
  BY DEF LineTypeOK
<1>2. Len(pushing'[w]) - 1 = 0
  BY <1>1
<1> SUFFICES ASSUME NEW s \in Symbols PROVE ToPush(s)' = ToPush(s)
  BY DEF PutOut
<1>3. CASE WorkerOf[s] = w
  BY <1>2, <1>3 DEF ToPush
<1>4. CASE WorkerOf[s] # w
  BY <1>1, <1>4, NumbersTyped DEF ToPush
<1> QED  BY <1>3, <1>4

LEMMA SnapshotKeepsOrder ==
  ASSUME LineTypeOK, EventsInOrder, NEW w \in Workers, pushing[w] = <<>>,
         NEW x \in FeedItem, x.kind = "snapshot", pushing' = [pushing EXCEPT ![w] = <<x>>],
         UNCHANGED <<as_of, outbox, routing, last_seq, history>>
  PROVE  EventsInOrder'
<1>1. pushing'[w] = <<x>> /\ \A v \in Workers \ {w} : pushing'[v] = pushing[v]
  BY DEF LineTypeOK
<1>2. Len(pushing'[w]) - 1 = 0 /\ pushing'[w] # <<>> /\ Last(pushing'[w]) = x
  BY <1>1 DEF Last
<1>3. PushingInOrder'
  BY <1>1, <1>2 DEF EventsInOrder, PushingInOrder
<1>4. ASSUME NEW s \in Symbols PROVE OutboxInOrder(s)'
  <2>1. PutOut(s)' = PutOut(s) /\ TakenOut(s)' = TakenOut(s)
    BY SnapshotKeepsNumbers DEF TakenOut, IsRouting
  <2> QED  BY <2>1, SameOutbox DEF EventsInOrder
<1>5. RoutingIsNext' /\ HistoryIsWindow'
  BY DEF EventsInOrder, RoutingIsNext, IsRouting, HistoryIsWindow
<1> QED  BY <1>3, <1>4, <1>5 DEF EventsInOrder

\* The output is the next event of s, or no event of s.
IsPut(x, s) ==
  IF x.kind = "event" /\ x.symbol = s
  THEN x.seq = PutOut(s) + 1 /\ PutOut(s)' = PutOut(s) + 1
  ELSE PutOut(s)' = PutOut(s)

LEMMA PushPuts ==
  ASSUME LineTypeOK, PushingInOrder, NEW w \in Workers, pushing[w] # <<>>,
         pushing' = [pushing EXCEPT ![w] = Tail(pushing[w])], UNCHANGED as_of
  PROVE  \A s \in Symbols : IsPut(Head(pushing[w]), s)
<1> DEFINE p == pushing[w]
           own == Last(p).symbol
<1>1. p \in Seq(FeedItem)
  BY DEF LineTypeOK
<1>2. PICK k \in Nat : k = Len(p) - 1
  <2>1. Len(p) \in Nat \ {0}
    BY <1>1, Taken
  <2>2. Len(p) - 1 \in Nat
    BY <2>1
  <2> QED  BY <2>2
<1>3. /\ Head(p) \in FeedItem /\ Head(p) = p[1] /\ Len(p) = k + 1
      /\ Tail(p) \in Seq(FeedItem) /\ Len(Tail(p)) = k
      /\ \A i \in 1 .. k : Tail(p)[i] = p[i + 1]
  BY <1>1, <1>2, Taken
<1>4. Last(p) = p[k + 1] /\ Last(p) \in FeedItem
  BY <1>1, <1>3 DEF Last
<1>5. own \in Symbols
  BY <1>4 DEF FeedItem, EventItem, SnapshotItem, ReplyItem
<1>6. k # 0 => Tail(p) # <<>> /\ Last(Tail(p)) = Last(p)
  BY <1>1, <1>3, LastOfTail
<1>7. k = 0 => Tail(p) = <<>> /\ Head(p) = Last(p)
  <2>1. k = 0 => Tail(p) = <<>>
    BY <1>3, EmptySeq
  <2>2. k = 0 => k + 1 = 1
    OBVIOUS
  <2> QED  BY <1>3, <1>4, <2>1, <2>2
<1>8. /\ Last(p).kind # "event"
      /\ \A i \in 1 .. k : WorkerOf[own] = w /\ p[i] = Event(own, as_of[own] - k + i)
  BY <1>2 DEF PushingInOrder
<1>9. pushing'[w] = Tail(p) /\ \A v \in Workers \ {w} : pushing'[v] = pushing[v]
  BY DEF LineTypeOK
<1> HIDE DEF p, own
<1> SUFFICES ASSUME NEW s \in Symbols PROVE IsPut(Head(p), s)
  BY DEF p
<1>10. PutOut(s) \in Int /\ as_of[s] \in Nat /\ WorkerOf[s] \in Workers
  BY NumbersTyped
<1>11. CASE s = own /\ k # 0
  <2>1. WorkerOf[s] = w /\ Head(p) = Event(s, as_of[s] - k + 1)
    BY <1>3, <1>8, <1>11
  <2>2. ToPush(s) = k
    BY <1>2, <1>11, <2>1 DEF ToPush, p, own
  <2>3. ToPush(s)' = k - 1
    BY <1>3, <1>6, <1>9, <1>11, <2>1 DEF ToPush, own
  <2>4. PutOut(s) = as_of[s] - k /\ PutOut(s)' = as_of[s] - k + 1
    BY <1>10, <2>2, <2>3 DEF PutOut
  <2>5. Head(p).kind = "event" /\ Head(p).symbol = s /\ Head(p).seq = PutOut(s) + 1
    BY <2>1, <2>4 DEF Event
  <2>6. PutOut(s)' = PutOut(s) + 1
    BY <2>4
  <2> QED  BY <2>5, <2>6 DEF IsPut
<1>12. CASE ~(s = own /\ k # 0)
  <2>1. ToPush(s)' = ToPush(s)
    <3>1. CASE WorkerOf[s] # w
      BY <1>9, <1>10, <3>1 DEF ToPush
    <3>2. CASE WorkerOf[s] = w /\ k = 0
      <4>1. ToPush(s) = 0
        BY <1>3, <3>2 DEF ToPush, p
      <4>2. ToPush(s)' = 0
        BY <1>7, <1>9, <3>2 DEF ToPush
      <4> QED  BY <4>1, <4>2
    <3>3. CASE WorkerOf[s] = w /\ k # 0
      <4>1. s # own
        BY <1>12, <3>3
      <4>2. ToPush(s) = 0
        BY <3>3, <4>1 DEF ToPush, p, own
      <4>3. ToPush(s)' = 0
        BY <1>6, <1>9, <3>3, <4>1 DEF ToPush, own
      <4> QED  BY <4>2, <4>3
    <3> QED  BY <3>1, <3>2, <3>3
  <2>2. ~(Head(p).kind = "event" /\ Head(p).symbol = s)
    <3>1. CASE k = 0
      BY <1>7, <1>8, <3>1
    <3>2. CASE k # 0
      <4>1. 1 \in 1 .. k
        BY <3>2
      <4>2. Head(p) = Event(own, as_of[own] - k + 1) /\ s # own
        BY <1>3, <1>8, <1>12, <3>2, <4>1
      <4> QED  BY <4>2 DEF Event
    <3> QED  BY <3>1, <3>2
  <2> QED  BY <2>1, <2>2 DEF IsPut, PutOut
<1> QED  BY <1>11, <1>12

LEMMA PushKeepsOrder ==
  ASSUME LineTypeOK, EventsInOrder, NEW w \in Workers, pushing[w] # <<>>,
         outbox' = Append(outbox, Head(pushing[w])),
         pushing' = [pushing EXCEPT ![w] = Tail(pushing[w])],
         UNCHANGED <<as_of, routing, last_seq, history>>
  PROVE  EventsInOrder'
<1> DEFINE p == pushing[w]
           own == Last(p).symbol
<1>1. p \in Seq(FeedItem)
  BY DEF LineTypeOK
<1>2. PICK k \in Nat : k = Len(p) - 1
  <2>1. Len(p) \in Nat \ {0}
    BY <1>1, Taken
  <2>2. Len(p) - 1 \in Nat
    BY <2>1
  <2> QED  BY <2>2
<1>3. /\ Head(p) \in FeedItem /\ Head(p) = p[1] /\ Len(p) = k + 1
      /\ Tail(p) \in Seq(FeedItem) /\ Len(Tail(p)) = k
      /\ \A i \in 1 .. k : Tail(p)[i] = p[i + 1]
  BY <1>1, <1>2, Taken
<1>4. Last(p) = p[k + 1] /\ Last(p) \in FeedItem
  BY <1>1, <1>3 DEF Last
<1>5. own \in Symbols
  BY <1>4 DEF FeedItem, EventItem, SnapshotItem, ReplyItem
<1>6. k # 0 => Tail(p) # <<>> /\ Last(Tail(p)) = Last(p)
  BY <1>1, <1>3, LastOfTail
<1>7. k = 0 => Tail(p) = <<>> /\ Head(p) = Last(p)
  <2>1. k = 0 => Tail(p) = <<>>
    BY <1>3, EmptySeq
  <2>2. k = 0 => k + 1 = 1
    OBVIOUS
  <2> QED  BY <1>3, <1>4, <2>1, <2>2
<1>8. /\ Last(p).kind # "event"
      /\ \A i \in 1 .. k : WorkerOf[own] = w /\ p[i] = Event(own, as_of[own] - k + i)
  BY <1>2 DEF EventsInOrder, PushingInOrder
<1>9. pushing'[w] = Tail(p) /\ \A v \in Workers \ {w} : pushing'[v] = pushing[v]
  BY DEF LineTypeOK
<1>10. Head(p) \in Output
  BY <1>3, KindsApart
<1>11. as_of[own] \in Nat
  BY <1>5 DEF LineTypeOK
<1> HIDE DEF p, own
<1>12. PushingInOrder'
  <2> SUFFICES ASSUME NEW v \in Workers, pushing'[v] # <<>>
               PROVE  LET m == Len(pushing'[v]) - 1
                          s == Last(pushing'[v]).symbol
                      IN  /\ Last(pushing'[v]).kind # "event"
                          /\ \A i \in 1 .. m : /\ WorkerOf[s] = v
                                               /\ pushing'[v][i] = Event(s, as_of[s] - m + i)
    BY DEF PushingInOrder
  <2>1. CASE v = w
    <3>1. /\ Last(pushing'[v]) = Last(p) /\ Len(pushing'[v]) - 1 = k - 1
          /\ Last(pushing'[v]).symbol = own
      BY <1>3, <1>6, <1>7, <1>9, <2>1 DEF own
    <3>2. ASSUME NEW i \in 1 .. k - 1
          PROVE  WorkerOf[own] = w /\ Tail(p)[i] = Event(own, as_of[own] - (k - 1) + i)
      <4>1. i \in 1 .. k /\ i + 1 \in 1 .. k
        OBVIOUS
      <4>2. Tail(p)[i] = Event(own, as_of[own] - k + (i + 1)) /\ WorkerOf[own] = w
        BY <1>3, <1>8, <4>1
      <4>3. as_of[own] - k + (i + 1) = as_of[own] - (k - 1) + i
        <5>1. PICK a \in Nat : a = as_of[own]
          BY <1>11
        <5>2. a - k + (i + 1) = a - (k - 1) + i
          OBVIOUS
        <5> QED  BY <5>1, <5>2
      <4> QED  BY <4>2, <4>3
    <3> QED  BY <1>8, <1>9, <2>1, <3>1, <3>2
  <2>2. CASE v # w
    BY <1>9, <2>2 DEF EventsInOrder, PushingInOrder
  <2> QED  BY <2>1, <2>2
<1>13. ASSUME NEW s \in Symbols PROVE OutboxInOrder(s)'
  <2>1. /\ TakenOut(s)' = TakenOut(s)
        /\ PutOut(s) \in Int /\ TakenOut(s) \in Int
        /\ OutboxInOrder(s)
    BY NumbersTyped DEF TakenOut, IsRouting, EventsInOrder
  <2>2. IsPut(Head(p), s)
    BY PushPuts DEF EventsInOrder, p
  <2>3. CASE Head(p).kind = "event" /\ Head(p).symbol = s
    BY <1>10, <2>1, <2>2, <2>3, NextJoins DEF IsPut, p
  <2>4. CASE ~(Head(p).kind = "event" /\ Head(p).symbol = s)
    BY <1>10, <2>1, <2>2, <2>4, OtherJoins DEF IsPut, p
  <2> QED  BY <2>3, <2>4
<1>14. RoutingIsNext' /\ HistoryIsWindow'
  BY DEF EventsInOrder, RoutingIsNext, IsRouting, HistoryIsWindow
<1> QED  BY <1>12, <1>13, <1>14 DEF EventsInOrder

-----------------------------------------------------------------------------
(* The publisher's thread *)

\* The first event of s in the outbox is the next one.
LEMMA FirstIsNext ==
  ASSUME LineTypeOK, NEW s \in Symbols, OutboxInOrder(s), outbox # <<>>, EventAt(1, s)
  PROVE  outbox[1].seq = TakenOut(s) + 1
<1>1. outbox \in Seq(Output) /\ TakenOut(s) \in Nat /\ PutOut(s) \in Int
  BY NumbersTyped DEF LineTypeOK
<1>2. 1 \in DOMAIN outbox /\ outbox[1] \in Output
  BY <1>1, Taken
<1>3. outbox[1].seq \in Nat
  BY <1>2, KindsApart DEF EventAt
<1>4. TakenOut(s) < outbox[1].seq /\ outbox[1].seq <= PutOut(s)
  BY <1>2 DEF OutboxInOrder
<1>5. TakenOut(s) + 1 \in TakenOut(s) + 1 .. PutOut(s)
  BY <1>1, <1>3, <1>4
<1>6. PICK i \in DOMAIN outbox : EventAt(i, s) /\ outbox[i].seq = TakenOut(s) + 1
  BY <1>5 DEF OutboxInOrder
<1>7. i = 1 \/ 1 < i
  BY <1>1, <1>6
<1>8. 1 < i => outbox[1].seq < outbox[i].seq
  BY <1>2, <1>6 DEF OutboxInOrder
<1> QED  BY <1>1, <1>3, <1>4, <1>6, <1>7, <1>8

\* The first output leaves the outbox, and TakenOut counts it.
LEMMA FirstLeaves ==
  ASSUME LineTypeOK, NEW s \in Symbols, OutboxInOrder(s), outbox # <<>>,
         outbox' = Tail(outbox), PutOut(s)' = PutOut(s),
         TakenOut(s)' = IF EventAt(1, s) THEN TakenOut(s) + 1 ELSE TakenOut(s)
  PROVE  OutboxInOrder(s)'
<1>1. outbox \in Seq(Output) /\ TakenOut(s) \in Nat /\ PutOut(s) \in Int
  BY NumbersTyped DEF LineTypeOK
<1>2. PICK n \in Nat : n = Len(outbox) - 1
  BY <1>1
<1>3. /\ DOMAIN outbox = 1 .. n + 1 /\ DOMAIN outbox' = 1 .. n
      /\ \A i \in 1 .. n : outbox'[i] = outbox[i + 1]
  BY <1>1, <1>2, Taken
<1>4. /\ TakenOut(s) <= PutOut(s)
      /\ \A i \in 1 .. n + 1 : EventAt(i, s) => TakenOut(s) < outbox[i].seq /\ outbox[i].seq <= PutOut(s)
      /\ \A i, j \in 1 .. n + 1 : i < j /\ EventAt(i, s) /\ EventAt(j, s) => outbox[i].seq < outbox[j].seq
      /\ \A k \in TakenOut(s) + 1 .. PutOut(s) :
           \E i \in 1 .. n + 1 : EventAt(i, s) /\ outbox[i].seq = k
  BY <1>3 DEF OutboxInOrder
<1>5. \A i \in 1 .. n : i + 1 \in 1 .. n + 1 /\ (EventAt(i, s)' <=> EventAt(i + 1, s))
  BY <1>3 DEF EventAt
<1>6. \A i \in 1 .. n + 1 : EventAt(i, s) => outbox[i].seq \in Nat
  BY <1>1, <1>3, KindsApart DEF EventAt
<1>7. EventAt(1, s) => outbox[1].seq = TakenOut(s) + 1
  BY FirstIsNext
<1>8. 1 \in 1 .. n + 1
  OBVIOUS
<1>9. TakenOut(s)' <= PutOut(s)'
  BY <1>1, <1>4, <1>6, <1>7, <1>8
<1>10. ASSUME NEW i \in 1 .. n, EventAt(i, s)'
       PROVE  TakenOut(s)' < outbox'[i].seq /\ outbox'[i].seq <= PutOut(s)'
  <2>1. i + 1 \in 1 .. n + 1 /\ EventAt(i + 1, s) /\ outbox'[i] = outbox[i + 1] /\ 1 < i + 1
    BY <1>3, <1>5, <1>10
  <2>2. TakenOut(s) < outbox[i + 1].seq /\ outbox[i + 1].seq <= PutOut(s) /\ outbox[i + 1].seq \in Nat
    BY <1>4, <1>6, <2>1
  <2>3. EventAt(1, s) => outbox[1].seq < outbox[i + 1].seq
    BY <1>4, <1>8, <2>1
  <2> QED  BY <1>1, <1>7, <2>1, <2>2, <2>3
<1>11. ASSUME NEW i \in 1 .. n, NEW j \in 1 .. n, i < j, EventAt(i, s)', EventAt(j, s)'
       PROVE  outbox'[i].seq < outbox'[j].seq
  <2>1. i + 1 < j + 1 /\ i + 1 \in 1 .. n + 1 /\ j + 1 \in 1 .. n + 1
    BY <1>11
  <2> QED  BY <1>3, <1>4, <1>5, <1>11, <2>1
<1>12. ASSUME NEW k \in TakenOut(s)' + 1 .. PutOut(s)'
       PROVE  \E i \in 1 .. n : EventAt(i, s)' /\ outbox'[i].seq = k
  <2>1. k \in TakenOut(s) + 1 .. PutOut(s)
    BY <1>1
  <2>2. PICK i \in 1 .. n + 1 : EventAt(i, s) /\ outbox[i].seq = k
    BY <1>4, <2>1
  <2>3. i # 1
    BY <1>1, <1>7, <2>2
  <2>4. i - 1 \in 1 .. n /\ i - 1 + 1 = i
    BY <2>3
  <2> QED  BY <1>3, <1>5, <2>2, <2>4
<1> QED  BY <1>3, <1>9, <1>10, <1>11, <1>12 DEF OutboxInOrder

LEMMA PopKeepsOrder ==
  ASSUME LineTypeOK, EventsInOrder, routing = None, outbox # <<>>,
         routing' = Head(outbox), outbox' = Tail(outbox),
         UNCHANGED <<pushing, as_of, last_seq, history>>
  PROVE  EventsInOrder'
<1>1. outbox \in Seq(Output)
  BY DEF LineTypeOK
<1>2. Head(outbox) \in Output /\ Head(outbox) = outbox[1]
  BY <1>1, Taken
<1>3. \A s \in Symbols : IsRouting(s)' <=> EventAt(1, s)
  BY <1>2, KindsApart DEF IsRouting, EventAt
<1>4. ASSUME NEW s \in Symbols PROVE OutboxInOrder(s)'
  <2>1. PutOut(s)' = PutOut(s)
    BY DEF PutOut, ToPush
  <2>2. TakenOut(s) = last_seq[s]
    BY DEF TakenOut, IsRouting
  <2>3. TakenOut(s)' = IF EventAt(1, s) THEN TakenOut(s) + 1 ELSE TakenOut(s)
    BY <1>3, <2>2 DEF TakenOut
  <2> QED  BY <2>1, <2>3, FirstLeaves DEF EventsInOrder
<1>5. RoutingIsNext'
  <2> SUFFICES ASSUME NEW s \in Symbols, IsRouting(s)' PROVE routing'.seq = last_seq[s] + 1
    BY DEF RoutingIsNext
  <2>1. EventAt(1, s) /\ OutboxInOrder(s)
    BY <1>3 DEF EventsInOrder
  <2>2. outbox[1].seq = TakenOut(s) + 1
    BY <2>1, FirstIsNext
  <2>3. TakenOut(s) = last_seq[s]
    BY DEF TakenOut, IsRouting
  <2> QED  BY <1>2, <2>2, <2>3
<1>6. PushingInOrder' /\ HistoryIsWindow'
  BY DEF EventsInOrder, PushingInOrder, HistoryIsWindow
<1> QED  BY <1>4, <1>5, <1>6 DEF EventsInOrder

LEMMA RouteKeepsOrder ==
  ASSUME LineTypeOK, EventsInOrder, routing # None, routing.kind = "event", RouteEvent(routing),
         routing' = None, UNCHANGED <<pushing, as_of, outbox>>
  PROVE  EventsInOrder' /\ last_seq' \in [Symbols -> Nat] /\ history' \in [Symbols -> Seq(Nat)]
<1> DEFINE own == routing.symbol
           n == last_seq[own]
<1>1. own \in Symbols /\ routing.seq \in Nat
  BY KindsApart DEF LineTypeOK
<1>2. IsRouting(own) /\ \A s \in Symbols \ {own} : ~IsRouting(s)
  BY <1>1 DEF IsRouting
<1>3. n \in Nat /\ history[own] \in Seq(Nat) /\ routing.seq = n + 1
  BY <1>1, <1>2 DEF LineTypeOK, EventsInOrder, RoutingIsNext
<1> HIDE DEF own, n
<1>4. /\ history' = [history EXCEPT ![own] = Remembered(history[own], n + 1)]
      /\ last_seq' = [last_seq EXCEPT ![own] = n + 1]
  BY <1>1, <1>3 DEF RouteEvent, own, LineTypeOK
<1>5. /\ history'[own] = Remembered(history[own], n + 1) /\ last_seq'[own] = n + 1
      /\ \A s \in Symbols \ {own} : history'[s] = history[s] /\ last_seq'[s] = last_seq[s]
  BY <1>1, <1>4 DEF LineTypeOK
<1>6. IsWindow(history[own], n)
  BY <1>1, <1>3 DEF EventsInOrder, HistoryIsWindow, IsWindow, n
<1>7. IsWindow(history'[own], last_seq'[own]) /\ history'[own] \in Seq(Nat)
  <2>1. IsWindow(Remembered(history[own], n + 1), n + 1)
    BY <1>3, <1>6, RememberedIsWindow
  <2>2. IsWindow(history'[own], last_seq'[own])
    BY <1>5, <2>1
  <2> QED  BY <2>2 DEF IsWindow
<1>8. HistoryIsWindow'
  <2> SUFFICES ASSUME NEW s \in Symbols
               PROVE  /\ Len(history'[s]) = Min({ReplayWindow, last_seq'[s]})
                      /\ \A i \in DOMAIN history'[s] : history'[s][i] = last_seq'[s] - Len(history'[s]) + i
    BY DEF HistoryIsWindow
  <2>1. CASE s = own
    <3>1. IsWindow(history'[s], last_seq'[s])
      BY <1>7, <2>1
    <3> QED  BY <3>1 DEF IsWindow
  <2>2. CASE s # own
    <3>1. history'[s] = history[s] /\ last_seq'[s] = last_seq[s]
      BY <1>5, <2>2
    <3> QED  BY <3>1 DEF EventsInOrder, HistoryIsWindow
  <2> QED  BY <2>1, <2>2
<1>9. \A s \in Symbols : ~IsRouting(s)'
  BY DEF IsRouting
<1>10. ASSUME NEW s \in Symbols PROVE OutboxInOrder(s)'
  <2>1. PutOut(s)' = PutOut(s)
    BY DEF PutOut, ToPush
  <2>2. TakenOut(s)' = TakenOut(s)
    <3>1. CASE s = own
      BY <1>2, <1>5, <1>9, <3>1 DEF TakenOut, n
    <3>2. CASE s # own
      BY <1>2, <1>5, <1>9, <3>2 DEF TakenOut
    <3> QED  BY <3>1, <3>2
  <2> QED  BY <2>1, <2>2, SameOutbox DEF EventsInOrder
<1>11. PushingInOrder' /\ RoutingIsNext'
  BY <1>9 DEF EventsInOrder, PushingInOrder, RoutingIsNext
<1>12. last_seq' \in [Symbols -> Nat] /\ history' \in [Symbols -> Seq(Nat)]
  <2>1. \A s \in Symbols : last_seq'[s] \in Nat /\ history'[s] \in Seq(Nat)
    <3> SUFFICES ASSUME NEW s \in Symbols PROVE last_seq'[s] \in Nat /\ history'[s] \in Seq(Nat)
      OBVIOUS
    <3>1. CASE s = own
      BY <1>3, <1>5, <1>7, <3>1
    <3>2. CASE s # own
      BY <1>5, <3>2 DEF LineTypeOK
    <3> QED  BY <3>1, <3>2
  <2>2. /\ history' = [s \in Symbols |-> history'[s]]
        /\ last_seq' = [s \in Symbols |-> last_seq'[s]]
    BY <1>4 DEF LineTypeOK
  <2> QED  BY <2>1, <2>2
<1> QED  BY <1>8, <1>10, <1>11, <1>12 DEF EventsInOrder

\* Anything else the publisher has routed is no event.
LEMMA OtherRouted ==
  ASSUME EventsInOrder, routing # None, routing.kind # "event", routing' = None \/ routing' = routing,
         UNCHANGED <<pushing, as_of, outbox, last_seq, history>>
  PROVE  EventsInOrder'
<1>1. \A s \in Symbols : ~IsRouting(s) /\ ~IsRouting(s)'
  BY DEF IsRouting
<1>2. \A s \in Symbols : PutOut(s)' = PutOut(s) /\ TakenOut(s)' = TakenOut(s)
  BY <1>1 DEF PutOut, ToPush, TakenOut
<1>3. \A s \in Symbols : OutboxInOrder(s)'
  BY <1>2, SameOutbox DEF EventsInOrder
<1> QED  BY <1>1, <1>3 DEF EventsInOrder, PushingInOrder, RoutingIsNext, HistoryIsWindow

-----------------------------------------------------------------------------
(* The inboxes *)

InboxInv ==
  /\ inbox \in [Workers -> Seq(InboxItem)]
  /\ InboxOfWorker
  /\ PillIsLast

\* A command comes while the node runs, a request for a snapshot at any time.
LEMMA SubmitKeepsInbox ==
  ASSUME InboxInv, NEW w \in Workers, NEW item \in InboxItem, Submit(w, item),
         \/ item.kind = "command" /\ WorkerOf[item.symbol] = w /\ phase = "running"
         \/ item.kind = "snapshot",
         UNCHANGED <<pushing, returned, pilled, phase>>
  PROVE  InboxInv'
<1>1. inbox[w] \in Seq(InboxItem) /\ inbox' = [inbox EXCEPT ![w] = Append(inbox[w], item)]
  BY DEF InboxInv, Submit
<1>2. /\ inbox' \in [Workers -> Seq(InboxItem)]
      /\ inbox'[w] = Append(inbox[w], item)
      /\ \A v \in Workers \ {w} : inbox'[v] = inbox[v]
  BY <1>1 DEF InboxInv
<1>3. PICK n \in Nat : n = Len(inbox[w])
  BY <1>1
<1>4. /\ DOMAIN inbox[w] = 1 .. n /\ DOMAIN inbox'[w] = 1 .. n + 1
      /\ \A i \in 1 .. n : inbox'[w][i] = inbox[w][i]
      /\ inbox'[w][n + 1] = item
  BY <1>1, <1>2, <1>3, Appended
<1>5. InboxOfWorker'
  <2> SUFFICES ASSUME NEW v \in Workers, NEW i \in DOMAIN inbox'[v], inbox'[v][i].kind = "command"
               PROVE  WorkerOf[inbox'[v][i].symbol] = v
    BY DEF InboxOfWorker
  <2>1. CASE v = w /\ i = n + 1
    BY <1>4, <2>1
  <2>2. CASE ~(v = w /\ i = n + 1)
    <3>1. i \in DOMAIN inbox[v] /\ inbox'[v][i] = inbox[v][i]
      BY <1>2, <1>4, <2>2
    <3> QED  BY <3>1 DEF InboxInv, InboxOfWorker
  <2> QED  BY <2>1, <2>2
<1>6. CASE item.kind = "command"
  <2>1. pilled = {} /\ returned = {} /\ phase = "running"
    BY <1>6 DEF InboxInv, PillIsLast
  <2>2. \A v \in Workers : \A i \in DOMAIN inbox[v] : inbox[v][i].kind # "shutdown"
    BY <2>1 DEF InboxInv, PillIsLast
  <2>3. \A v \in Workers : \A i \in DOMAIN inbox'[v] : inbox'[v][i].kind # "shutdown"
    <3> SUFFICES ASSUME NEW v \in Workers, NEW i \in DOMAIN inbox'[v]
                 PROVE  inbox'[v][i].kind # "shutdown"
      OBVIOUS
    <3>1. CASE v = w /\ i = n + 1
      BY <1>4, <1>6, <3>1
    <3>2. CASE ~(v = w /\ i = n + 1)
      <4>1. i \in DOMAIN inbox[v] /\ inbox'[v][i] = inbox[v][i]
        BY <1>2, <1>4, <3>2
      <4> QED  BY <2>2, <4>1
    <3> QED  BY <3>1, <3>2
  <2>4. PillIsLast'
    BY <2>1, <2>3 DEF PillIsLast, InboxInv, Stopping
  <2> QED  BY <1>2, <1>5, <2>4 DEF InboxInv
<1>7. CASE item.kind = "snapshot"
  <2>1. ASSUME NEW v \in Workers, NEW i \in DOMAIN inbox'[v], inbox'[v][i].kind = "shutdown"
        PROVE  /\ v \in pilled
               /\ \A j \in DOMAIN inbox'[v] : i < j => inbox'[v][j].kind = "snapshot"
    <3>1. i \in DOMAIN inbox[v] /\ inbox'[v][i] = inbox[v][i]
      BY <1>2, <1>4, <1>7, <2>1
    <3>2. /\ v \in pilled
          /\ \A j \in DOMAIN inbox[v] : i < j => inbox[v][j].kind = "snapshot"
      BY <2>1, <3>1 DEF InboxInv, PillIsLast
    <3>3. CASE v = w
      BY <1>4, <1>7, <3>2, <3>3
    <3>4. CASE v # w
      BY <1>2, <3>2, <3>4
    <3> QED  BY <3>3, <3>4
  <2>2. ASSUME NEW v \in returned, NEW i \in DOMAIN inbox'[v]
        PROVE  inbox'[v][i].kind = "snapshot"
    <3>1. v \in Workers /\ \A j \in DOMAIN inbox[v] : inbox[v][j].kind = "snapshot"
      BY DEF InboxInv, PillIsLast
    <3> QED  BY <1>2, <1>4, <1>7, <3>1
  <2>3. PillIsLast'
    BY <2>1, <2>2 DEF PillIsLast, InboxInv, Stopping
  <2> QED  BY <1>2, <1>5, <2>3 DEF InboxInv
<1> QED  BY <1>6, <1>7

LEMMA StopWorkerKeepsInbox ==
  ASSUME InboxInv, NEW w \in Workers, StopWorker(w)
  PROVE  InboxInv'
<1>1. /\ inbox[w] \in Seq(InboxItem) /\ inbox' = [inbox EXCEPT ![w] = Append(inbox[w], Shutdown)]
      /\ w \notin pilled /\ pilled' = pilled \cup {w} /\ phase = "workers"
      /\ UNCHANGED <<pushing, returned, phase>>
  BY DEF InboxInv, StopWorker, Submit
<1>2. /\ inbox' \in [Workers -> Seq(InboxItem)]
      /\ inbox'[w] = Append(inbox[w], Shutdown)
      /\ \A v \in Workers \ {w} : inbox'[v] = inbox[v]
      /\ Shutdown.kind = "shutdown"
  BY <1>1, KindsApart DEF InboxInv
<1>3. PICK n \in Nat : n = Len(inbox[w])
  BY <1>1
<1>4. /\ DOMAIN inbox[w] = 1 .. n /\ DOMAIN inbox'[w] = 1 .. n + 1
      /\ \A i \in 1 .. n : inbox'[w][i] = inbox[w][i]
      /\ inbox'[w][n + 1] = Shutdown
  BY <1>1, <1>2, <1>3, KindsApart, Appended
<1>5. \A i \in 1 .. n : inbox[w][i].kind # "shutdown"
  BY <1>1, <1>4 DEF InboxInv, PillIsLast
<1>6. InboxOfWorker'
  <2> SUFFICES ASSUME NEW v \in Workers, NEW i \in DOMAIN inbox'[v], inbox'[v][i].kind = "command"
               PROVE  WorkerOf[inbox'[v][i].symbol] = v
    BY DEF InboxOfWorker
  <2>1. i \in DOMAIN inbox[v] /\ inbox'[v][i] = inbox[v][i]
    BY <1>2, <1>4
  <2>2. inbox[v][i].kind = "command" => WorkerOf[inbox[v][i].symbol] = v
    BY <2>1 DEF InboxInv, InboxOfWorker
  <2> QED  BY <2>1, <2>2
<1>7. ASSUME NEW v \in Workers, NEW i \in DOMAIN inbox'[v], inbox'[v][i].kind = "shutdown"
      PROVE  /\ v \in pilled'
             /\ \A j \in DOMAIN inbox'[v] : i < j => inbox'[v][j].kind = "snapshot"
  <2>1. CASE v = w
    <3>1. i = n + 1
      BY <1>4, <1>5, <1>7, <2>1
    <3> QED  BY <1>1, <1>4, <2>1, <3>1
  <2>2. CASE v # w
    BY <1>1, <1>2, <1>7, <2>2 DEF InboxInv, PillIsLast
  <2> QED  BY <2>1, <2>2
<1>8. w \notin returned
  BY <1>1 DEF InboxInv, PillIsLast
<1>9. \A v \in returned : \A i \in DOMAIN inbox'[v] : inbox'[v][i].kind = "snapshot"
  <2> SUFFICES ASSUME NEW v \in returned
               PROVE  \A i \in DOMAIN inbox'[v] : inbox'[v][i].kind = "snapshot"
    OBVIOUS
  <2>1. v \in Workers /\ \A i \in DOMAIN inbox[v] : inbox[v][i].kind = "snapshot"
    BY DEF InboxInv, PillIsLast
  <2>2. inbox'[v] = inbox[v]
    BY <1>2, <1>8, <2>1
  <2> QED  BY <2>1, <2>2
<1>10. PillIsLast'
  BY <1>1, <1>7, <1>9 DEF PillIsLast, InboxInv, Stopping
<1> QED  BY <1>2, <1>6, <1>10 DEF InboxInv

LEMMA TakeKeepsInbox ==
  ASSUME InboxInv, NEW w \in Workers, WorkerTakes(w)
  PROVE  InboxInv'
<1>1. /\ inbox[w] \in Seq(InboxItem) /\ inbox[w] # <<>> /\ pushing[w] = <<>> /\ w \notin returned
      /\ inbox' = [inbox EXCEPT ![w] = Tail(inbox[w])]
      /\ UNCHANGED <<pilled, phase>>
  BY DEF InboxInv, WorkerTakes, mainVars
<1>2. PICK n \in Nat : n = Len(inbox[w]) - 1
  <2>1. Len(inbox[w]) \in Nat \ {0}
    BY <1>1, Taken
  <2>2. Len(inbox[w]) - 1 \in Nat
    BY <2>1
  <2> QED  BY <2>2
<1>3. /\ Tail(inbox[w]) \in Seq(InboxItem) /\ Head(inbox[w]) = inbox[w][1]
      /\ DOMAIN inbox[w] = 1 .. n + 1 /\ DOMAIN Tail(inbox[w]) = 1 .. n
      /\ \A i \in 1 .. n : Tail(inbox[w])[i] = inbox[w][i + 1]
  BY <1>1, <1>2, Taken
<1>4. /\ inbox' \in [Workers -> Seq(InboxItem)]
      /\ inbox'[w] = Tail(inbox[w])
      /\ \A v \in Workers \ {w} : inbox'[v] = inbox[v]
  BY <1>1, <1>3 DEF InboxInv
<1>5. \A i \in DOMAIN inbox'[w] : i + 1 \in DOMAIN inbox[w] /\ inbox'[w][i] = inbox[w][i + 1]
  BY <1>3, <1>4
<1>6. InboxOfWorker'
  <2> SUFFICES ASSUME NEW v \in Workers, NEW i \in DOMAIN inbox'[v], inbox'[v][i].kind = "command"
               PROVE  WorkerOf[inbox'[v][i].symbol] = v
    BY DEF InboxOfWorker
  <2>1. CASE v = w
    <3>1. i + 1 \in DOMAIN inbox[w] /\ inbox'[w][i] = inbox[w][i + 1]
      BY <1>5, <2>1
    <3> QED  BY <2>1, <3>1 DEF InboxInv, InboxOfWorker
  <2>2. CASE v # w
    BY <1>4, <2>2 DEF InboxInv, InboxOfWorker
  <2> QED  BY <2>1, <2>2
<1>7. ASSUME NEW v \in Workers, NEW i \in DOMAIN inbox'[v], inbox'[v][i].kind = "shutdown"
      PROVE  /\ v \in pilled
             /\ \A j \in DOMAIN inbox'[v] : i < j => inbox'[v][j].kind = "snapshot"
  <2>1. CASE v = w
    <3>1. /\ w \in pilled
          /\ \A j \in DOMAIN inbox[w] : i + 1 < j => inbox[w][j].kind = "snapshot"
      BY <1>5, <1>7, <2>1 DEF InboxInv, PillIsLast
    <3>2. ASSUME NEW j \in 1 .. n, i < j PROVE inbox'[w][j].kind = "snapshot"
      <4>1. i \in 1 .. n /\ i + 1 < j + 1 /\ j + 1 \in DOMAIN inbox[w]
        BY <1>3, <1>4, <2>1, <3>2
      <4>2. inbox'[w][j] = inbox[w][j + 1]
        BY <1>3, <1>4
      <4> QED  BY <3>1, <4>1, <4>2
    <3> QED  BY <1>3, <1>4, <2>1, <3>1, <3>2
  <2>2. CASE v # w
    BY <1>4, <1>7, <2>2 DEF InboxInv, PillIsLast
  <2> QED  BY <2>1, <2>2
<1>8. \A v \in returned : pushing[v] = <<>> /\ \A i \in DOMAIN inbox'[v] : inbox'[v][i].kind = "snapshot"
  BY <1>1, <1>4 DEF InboxInv, PillIsLast
<1>9. ~Stopping
  BY <1>1 DEF InboxInv, PillIsLast
<1>10. CASE Head(inbox[w]).kind = "shutdown"
  <2>1. returned' = returned \cup {w} /\ UNCHANGED pushing
    BY <1>10 DEF WorkerTakes
  <2>2. w \in pilled /\ \A j \in DOMAIN inbox[w] : 1 < j => inbox[w][j].kind = "snapshot"
    BY <1>3, <1>10 DEF InboxInv, PillIsLast
  <2>3. \A i \in DOMAIN inbox'[w] : inbox'[w][i].kind = "snapshot"
    <3> SUFFICES ASSUME NEW i \in 1 .. n PROVE inbox'[w][i].kind = "snapshot"
      BY <1>3, <1>4
    <3>1. i + 1 \in DOMAIN inbox[w] /\ 1 < i + 1
      BY <1>3
    <3> QED  BY <1>3, <1>4, <2>2, <3>1
  <2>4. PillIsLast'
    BY <1>1, <1>7, <1>8, <1>9, <2>1, <2>2, <2>3 DEF PillIsLast, InboxInv, Stopping
  <2> QED  BY <1>4, <1>6, <2>4 DEF InboxInv
<1>11. CASE Head(inbox[w]).kind # "shutdown"
  <2>1. PICK p : pushing' = [pushing EXCEPT ![w] = p]
    BY <1>11 DEF WorkerTakes
  <2>2. UNCHANGED returned
    BY <1>11 DEF WorkerTakes
  <2>3. \A v \in returned : pushing'[v] = pushing[v]
    BY <1>1, <2>1
  <2>4. ASSUME NEW v \in returned'
        PROVE  pushing'[v] = <<>> /\ \A i \in DOMAIN inbox'[v] : inbox'[v][i].kind = "snapshot"
    BY <1>8, <2>2, <2>3
  <2>5. PillIsLast'
    BY <1>1, <1>7, <1>9, <2>2, <2>4 DEF PillIsLast, InboxInv, Stopping
  <2> QED  BY <1>4, <1>6, <2>5 DEF InboxInv
<1> QED  BY <1>10, <1>11

-----------------------------------------------------------------------------
(* The end of the outbox *)

LEMMA SameEnd ==
  ASSUME ClosedIsLast, UNCHANGED <<outbox, routing, closed>>, Stopping => Stopping'
  PROVE  ClosedIsLast'
BY DEF ClosedIsLast

\* While a worker has something in hand the outbox is open.
LEMMA PushKeepsEnd ==
  ASSUME ClosedIsLast, PillIsLast, LineTypeOK, NEW w \in Workers, pushing[w] # <<>>,
         NEW x \in FeedItem, outbox' = Append(outbox, x), UNCHANGED <<routing, closed, phase>>
  PROVE  ClosedIsLast'
<1>1. ~Stopping
  BY DEF PillIsLast
<1>2. x.kind # "closed" /\ x \in Output /\ outbox \in Seq(Output)
  BY KindsApart DEF LineTypeOK
<1>3. \A i \in DOMAIN outbox' : outbox'[i].kind # "closed"
  <2>1. /\ DOMAIN outbox = 1 .. Len(outbox) /\ Len(outbox) \in Nat
        /\ DOMAIN outbox' = 1 .. Len(outbox) + 1
        /\ \A i \in 1 .. Len(outbox) : outbox'[i] = outbox[i]
        /\ outbox'[Len(outbox) + 1] = x
    BY <1>2, Appended
  <2>2. \A i \in 1 .. Len(outbox) : outbox[i].kind # "closed"
    BY <1>1, <2>1 DEF ClosedIsLast
  <2> QED  BY <1>2, <2>1, <2>2
<1> QED  BY <1>1, <1>3 DEF ClosedIsLast

LEMMA CloseOutboxKeepsEnd ==
  ASSUME ClosedIsLast, LineTypeOK, phase = "workers", phase' = "publisher",
         outbox' = Append(outbox, OutboxClosed), UNCHANGED <<routing, closed>>
  PROVE  ClosedIsLast'
<1>1. ~Stopping /\ Stopping'
  BY DEF Stopping
<1>2. outbox \in Seq(Output) /\ OutboxClosed \in Output
  BY KindsApart DEF LineTypeOK
<1>3. /\ DOMAIN outbox = 1 .. Len(outbox) /\ Len(outbox) \in Nat
      /\ DOMAIN outbox' = 1 .. Len(outbox) + 1 /\ Len(outbox') = Len(outbox) + 1
      /\ \A i \in 1 .. Len(outbox) : outbox'[i] = outbox[i]
  BY <1>2, Appended
<1>4. \A i \in 1 .. Len(outbox) : outbox'[i].kind # "closed"
  BY <1>1, <1>3 DEF ClosedIsLast
<1>5. \A i \in DOMAIN outbox' : outbox'[i].kind = "closed" => i = Len(outbox')
  BY <1>3, <1>4
<1> QED  BY <1>1, <1>5 DEF ClosedIsLast

LEMMA PopKeepsEnd ==
  ASSUME ClosedIsLast, LineTypeOK, routing = None, outbox # <<>>,
         routing' = Head(outbox), outbox' = Tail(outbox), UNCHANGED <<closed, phase>>
  PROVE  ClosedIsLast'
<1>1. outbox \in Seq(Output)
  BY DEF LineTypeOK
<1>2. PICK n \in Nat : n = Len(outbox) - 1
  <2>1. Len(outbox) \in Nat \ {0}
    BY <1>1, Taken
  <2>2. Len(outbox) - 1 \in Nat
    BY <2>1
  <2> QED  BY <2>2
<1>3. /\ Head(outbox) = outbox[1] /\ Len(outbox) = n + 1 /\ Len(outbox') = n
      /\ DOMAIN outbox = 1 .. n + 1 /\ DOMAIN outbox' = 1 .. n
      /\ \A i \in 1 .. n : outbox'[i] = outbox[i + 1]
      /\ outbox' \in Seq(Output)
  BY <1>1, <1>2, Taken
<1>4. ASSUME NEW i \in DOMAIN outbox', outbox'[i].kind = "closed" PROVE Stopping /\ i = n
  <2>1. i + 1 \in DOMAIN outbox /\ outbox[i + 1].kind = "closed"
    BY <1>3, <1>4
  <2>2. Stopping /\ i + 1 = n + 1
    BY <1>3, <2>1 DEF ClosedIsLast
  <2> QED  BY <1>3, <2>2
<1>5. routing'.kind = "closed" => Stopping /\ outbox' = <<>>
  <2> SUFFICES ASSUME outbox[1].kind = "closed" PROVE Stopping /\ outbox' = <<>>
    BY <1>3
  <2>1. Stopping /\ 1 = n + 1
    BY <1>3 DEF ClosedIsLast
  <2>2. Len(outbox') = 0
    BY <1>3, <2>1
  <2> QED  BY <1>3, <2>1, <2>2, EmptySeq
<1>6. ~closed
  BY DEF ClosedIsLast
<1>7. Stopping' = Stopping
  BY DEF Stopping
<1> QED  BY <1>3, <1>4, <1>5, <1>6, <1>7 DEF ClosedIsLast

-----------------------------------------------------------------------------
(* Every step preserves the invariant *)

\* Steps that are not about the line of events.
LEMMA Elsewhere ==
  ASSUME LineInv, SnapshotsOK',
         UNCHANGED <<inbox, pushing, returned, as_of, commands, outbox, routing, closed, history,
                     last_seq, mainVars>>
  PROVE  LineInv'
<1>1. UNCHANGED <<pilled, phase>>
  BY DEF mainVars
<1>2. LineTypeOK' /\ InboxOfWorker'
  BY DEF LineInv, LineTypeOK, InboxOfWorker
<1>3. EventsInOrder'
  BY SameLine DEF LineInv
<1>4. PillIsLast'
  BY <1>1 DEF LineInv, PillIsLast, Stopping
<1>5. ClosedIsLast'
  BY <1>1, SameEnd DEF LineInv, Stopping
<1> QED  BY <1>2, <1>3, <1>4, <1>5 DEF LineInv

LEMMA WorkersKeepLine ==
  ASSUME LineInv, NEW w \in Workers, WorkerStep(w)
  PROVE  LineInv'
<1>1. CASE WorkerTakes(w)
  <2> DEFINE item == Head(inbox[w])
  <2>1. /\ pushing[w] = <<>> /\ inbox[w] # <<>>
        /\ UNCHANGED <<commands, outbox, routing, closed, history, last_seq, stream, phase>>
    BY <1>1 DEF WorkerTakes, publisherVars, streamVars, mainVars
  <2>2. item \in InboxItem /\ (item.kind = "command" => WorkerOf[item.symbol] = w)
    BY <2>1, NextItem DEF LineInv
  <2>3. InboxInv'
    BY <1>1, TakeKeepsInbox DEF LineInv, LineTypeOK, InboxInv
  <2>4. SnapshotsOK' /\ ClosedIsLast'
    BY <2>1, SameEnd DEF LineInv, SnapshotsOK, Stopping
  <2> HIDE DEF item
  <2>5. CASE item.kind = "shutdown"
    <3>1. UNCHANGED <<pushing, as_of>>
      BY <1>1, <2>5 DEF WorkerTakes, item
    <3>2. EventsInOrder'
      BY <2>1, <3>1, SameLine DEF LineInv
    <3>3. LineTypeOK'
      BY <2>1, <2>3, <3>1 DEF LineInv, LineTypeOK, InboxInv
    <3> QED  BY <2>3, <2>4, <3>2, <3>3 DEF LineInv, InboxInv
  <2>6. CASE item.kind = "snapshot"
    <3> DEFINE x == SnapshotReady(item.symbol, as_of[item.symbol], item.subscriber)
    <3>1. pushing' = [pushing EXCEPT ![w] = <<x>>] /\ UNCHANGED as_of
      BY <1>1, <2>6 DEF WorkerTakes, item
    <3>2. item.symbol \in Symbols /\ item.subscriber \in Nat
      BY <2>2, <2>6, KindsApart
    <3>3. as_of[item.symbol] \in Nat
      BY <3>2 DEF LineInv, LineTypeOK
    <3>4. x \in FeedItem /\ x.kind = "snapshot"
      BY <3>2, <3>3, MadeItems
    <3> HIDE DEF x
    <3>5. EventsInOrder'
      BY <2>1, <3>1, <3>4, SnapshotKeepsOrder DEF LineInv
    <3>6. LineTypeOK'
      <4>1. <<x>> \in Seq(FeedItem)
        BY <3>4
      <4> QED  BY <2>1, <2>3, <3>1, <4>1 DEF LineInv, LineTypeOK, InboxInv
    <3> QED  BY <2>3, <2>4, <3>5, <3>6 DEF LineInv, InboxInv
  <2>7. CASE item.kind = "command"
    <3>1. PICK n \in 0 .. MaxEvents : /\ pushing' = [pushing EXCEPT ![w] = OutputsOf(item, n)]
                                      /\ as_of' = [as_of EXCEPT ![item.symbol] = @ + n]
      BY <1>1, <2>7 DEF WorkerTakes, item
    <3>2. n \in Nat /\ item.symbol \in Symbols
      BY <2>2, <2>7, KindsApart, EngineFeedAssumption
    <3>3. EventsInOrder'
      BY <2>1, <2>2, <2>7, <3>1, <3>2, RunsKeepOrder DEF LineInv
    <3>4. LineTypeOK'
      <4>1. OutputsOf(item, n) \in Seq(FeedItem)
        BY <2>2, <2>7, <3>2, OutputsAre DEF LineInv
      <4>2. pushing' \in [Workers -> Seq(FeedItem)] /\ as_of' \in [Symbols -> Nat]
        BY <3>1, <3>2, <4>1 DEF LineInv, LineTypeOK
      <4> QED  BY <2>1, <2>3, <4>2 DEF LineInv, LineTypeOK, InboxInv
    <3> QED  BY <2>3, <2>4, <3>3, <3>4 DEF LineInv, InboxInv
  <2> QED  BY <2>2, <2>5, <2>6, <2>7, KindsApart
<1>2. CASE WorkerPushes(w)
  <2>1. /\ pushing[w] # <<>>
        /\ outbox' = Append(outbox, Head(pushing[w]))
        /\ pushing' = [pushing EXCEPT ![w] = Tail(pushing[w])]
        /\ UNCHANGED <<inbox, returned, as_of, commands, routing, closed, history, last_seq, stream,
                       pilled, phase>>
    BY <1>2 DEF WorkerPushes, publisherVars, streamVars, mainVars, LineInv, LineTypeOK
  <2>2. pushing[w] \in Seq(FeedItem)
    BY DEF LineInv, LineTypeOK
  <2>3. Head(pushing[w]) \in FeedItem /\ Tail(pushing[w]) \in Seq(FeedItem)
    BY <2>1, <2>2, Taken
  <2>4. EventsInOrder'
    BY <2>1, PushKeepsOrder DEF LineInv
  <2>5. ClosedIsLast'
    BY <2>1, <2>3, PushKeepsEnd DEF LineInv
  <2>6. LineTypeOK'
    <3>1. outbox' \in Seq(Output)
      BY <2>1, <2>3, KindsApart, Appended DEF LineInv, LineTypeOK
    <3> QED  BY <2>1, <2>3, <3>1 DEF LineInv, LineTypeOK
  <2>7. PillIsLast'
    <3>1. \A v \in returned : v # w
      BY <2>1 DEF LineInv, PillIsLast
    <3>2. \A v \in returned : pushing'[v] = pushing[v]
      BY <2>1, <3>1
    <3> QED  BY <2>1, <3>2 DEF LineInv, PillIsLast, Stopping
  <2>8. SnapshotsOK' /\ InboxOfWorker'
    BY <2>1 DEF LineInv, SnapshotsOK, InboxOfWorker
  <2> QED  BY <2>4, <2>5, <2>6, <2>7, <2>8 DEF LineInv
<1> QED  BY <1>1, <1>2 DEF WorkerStep

LEMMA PublisherKeepsLine ==
  ASSUME LineInv, PublisherStep
  PROVE  LineInv'
<1>1. UNCHANGED <<inbox, pushing, returned, as_of, commands, stream, pilled, phase>>
  BY DEF PublisherStep, PublisherPops, PublisherRoutes, PublisherDrops, workerVars, streamVars, mainVars
<1>2. SnapshotsOK' /\ InboxOfWorker' /\ PillIsLast'
  BY <1>1 DEF LineInv, SnapshotsOK, InboxOfWorker, PillIsLast, Stopping
<1>3. CASE PublisherPops
  <2>1. /\ routing = None /\ outbox # <<>> /\ routing' = Head(outbox) /\ outbox' = Tail(outbox)
        /\ UNCHANGED <<closed, last_seq, history>>
    BY <1>3 DEF PublisherPops, publisherVars
  <2>2. EventsInOrder'
    BY <1>1, <2>1, PopKeepsOrder DEF LineInv
  <2>3. ClosedIsLast'
    BY <1>1, <2>1, PopKeepsEnd DEF LineInv
  <2>4. LineTypeOK'
    <3>1. Head(outbox) \in Output /\ Tail(outbox) \in Seq(Output)
      BY <2>1, Taken DEF LineInv, LineTypeOK
    <3> QED  BY <1>1, <2>1, <3>1 DEF LineInv, LineTypeOK
  <2> QED  BY <1>2, <2>2, <2>3, <2>4 DEF LineInv
<1>4. CASE PublisherRoutes
  <2>1. routing # None /\ ~closed /\ UNCHANGED outbox
    BY <1>4 DEF PublisherRoutes
  <2>2. CASE RouteEvent(routing) /\ routing' = None
    <3>1. routing.kind = "event" /\ UNCHANGED closed
      BY <2>2 DEF RouteEvent
    <3>2. EventsInOrder' /\ last_seq' \in [Symbols -> Nat] /\ history' \in [Symbols -> Seq(Nat)]
      BY <1>1, <2>1, <2>2, <3>1, RouteKeepsOrder DEF LineInv
    <3>3. LineTypeOK'
      BY <1>1, <2>1, <2>2, <3>2 DEF LineInv, LineTypeOK
    <3>4. ClosedIsLast'
      BY <1>1, <2>1, <2>2, <3>1 DEF LineInv, ClosedIsLast, Stopping
    <3> QED  BY <1>2, <3>2, <3>3, <3>4 DEF LineInv
  <2>3. CASE (RouteReply(routing) \/ RouteSnapshot(routing)) /\ routing' = None
    <3>1. routing.kind \in {"reply", "snapshot"} /\ UNCHANGED <<closed, last_seq, history>>
      BY <2>3 DEF RouteReply, RouteSnapshot
    <3>2. EventsInOrder'
      BY <1>1, <2>1, <2>3, <3>1, OtherRouted DEF LineInv
    <3>3. LineTypeOK'
      BY <1>1, <2>1, <2>3, <3>1 DEF LineInv, LineTypeOK
    <3>4. ClosedIsLast'
      BY <1>1, <2>1, <2>3, <3>1 DEF LineInv, ClosedIsLast, Stopping
    <3> QED  BY <1>2, <3>2, <3>3, <3>4 DEF LineInv
  <2>4. CASE routing = OutboxClosed /\ Close /\ UNCHANGED routing
    <3>1. routing.kind = "closed" /\ UNCHANGED <<last_seq, history>>
      BY <2>4, KindsApart DEF Close
    <3>2. EventsInOrder'
      BY <1>1, <2>1, <2>4, <3>1, OtherRouted DEF LineInv
    <3>3. LineTypeOK'
      BY <1>1, <2>1, <2>4, <3>1 DEF LineInv, LineTypeOK
    <3>4. ClosedIsLast'
      BY <1>1, <2>1, <2>4, <3>1 DEF LineInv, ClosedIsLast, Stopping
    <3> QED  BY <1>2, <3>2, <3>3, <3>4 DEF LineInv
  <2> QED  BY <1>4, <2>2, <2>3, <2>4 DEF PublisherRoutes
<1>5. CASE PublisherDrops
  <2>1. UNCHANGED <<outbox, routing, closed, last_seq, history>>
    BY <1>5 DEF PublisherDrops, DropSlow
  <2> QED  BY <1>1, <1>2, <2>1, Elsewhere DEF mainVars
<1> QED  BY <1>3, <1>4, <1>5 DEF PublisherStep

\* A handler that moves on keeps the list of snapshots to ask for.
LEMMA MovesKeepSnapshots ==
  ASSUME StreamsOK, SnapshotsOK, NEW r \in Streams,
         \/ \E pc : Goto(r, pc)
         \/ \E status : LeaveWith(r, status)
         \/ \E item : stream' = [stream EXCEPT ![r].pc = "write", ![r].item = item]
         \/ stream' = [stream EXCEPT ![r].pc = "check", ![r].item = None]
         \/ \E status : stream' = [stream EXCEPT ![r].pc = "done", ![r].status = status]
  PROVE  SnapshotsOK'
<1> DEFINE Kept == /\ \A q \in Streams \ {r} : stream'[q] = stream[q]
                   /\ DOMAIN stream'[r] = DOMAIN stream[r]
                   /\ stream'[r].snapshots = stream[r].snapshots
<1>1. stream = [q \in Streams |-> stream[q]]
  BY DEF StreamsOK
<1>2. Kept
  <2>1. ASSUME NEW pc, Goto(r, pc) PROVE Kept
    BY <1>1, <2>1 DEF SnapshotsOK, Goto
  <2>2. ASSUME NEW status, LeaveWith(r, status) PROVE Kept
    BY <1>1, <2>2 DEF SnapshotsOK, LeaveWith
  <2>3. ASSUME NEW item, stream' = [stream EXCEPT ![r].pc = "write", ![r].item = item] PROVE Kept
    BY <1>1, <2>3 DEF SnapshotsOK
  <2>4. CASE stream' = [stream EXCEPT ![r].pc = "check", ![r].item = None]
    BY <1>1, <2>4 DEF SnapshotsOK
  <2>5. ASSUME NEW status, stream' = [stream EXCEPT ![r].pc = "done", ![r].status = status] PROVE Kept
    BY <1>1, <2>5 DEF SnapshotsOK
  <2> QED  BY <2>1, <2>2, <2>3, <2>4, <2>5
<1> QED  BY <1>2 DEF SnapshotsOK

LEMMA HandlersKeepLine ==
  ASSUME OrderInv, NEW r \in Streams, HandlerStep(r) \/ Write(r)
  PROVE  LineInv'
<1>1. StreamsOK /\ SnapshotsOK /\ LineInv
  BY DEF OrderInv, LineInv, SeatsInv
<1>2. CASE CheckCancelled(r) \/ NextFor(r) \/ CheckEnded(r) \/ WriteFails(r) \/ LeaveStream(r) \/ Write(r)
  <2>1. UNCHANGED <<inbox, pushing, returned, as_of, commands, outbox, routing, closed, history,
                    last_seq, mainVars>>
    BY <1>2 DEF CheckCancelled, NextFor, CheckEnded, WriteFails, LeaveStream, Write, unsubscribe,
                publisherVars, workerVars
  <2>2. \/ \E pc : Goto(r, pc)
        \/ \E status : LeaveWith(r, status)
        \/ \E item : stream' = [stream EXCEPT ![r].pc = "write", ![r].item = item]
        \/ stream' = [stream EXCEPT ![r].pc = "check", ![r].item = None]
    BY <1>2 DEF CheckCancelled, NextFor, CheckEnded, WriteFails, LeaveStream, Write
  <2>3. SnapshotsOK'
    BY <1>1, <2>2, MovesKeepSnapshots
  <2> QED  BY <1>1, <2>1, <2>3, Elsewhere
<1>3. CASE RequestSnapshot(r) /\ stream[r].snapshots = {}
  <2>1. /\ UNCHANGED <<inbox, pushing, returned, as_of, commands, outbox, routing, closed, history,
                       last_seq, mainVars>>
        /\ Goto(r, "check")
    BY <1>3 DEF RequestSnapshot, publisherVars
  <2>2. SnapshotsOK'
    BY <1>1, <2>1, MovesKeepSnapshots
  <2> QED  BY <1>1, <2>1, <2>2, Elsewhere
<1>4. CASE RequestSnapshot(r) /\ ~(stream[r].snapshots = {})
  <2>0. PICK s \in stream[r].snapshots :
             /\ Submit(WorkerOf[s], TakeSnapshot(s, stream[r].id))
             /\ stream' = [stream EXCEPT ![r].snapshots = @ \ {s}]
    BY <1>4 DEF RequestSnapshot
  <2> DEFINE item == TakeSnapshot(s, stream[r].id)
  <2>1. /\ UNCHANGED <<pushing, returned, as_of, commands, outbox, routing, closed, history, last_seq,
                       pilled, phase>>
        /\ Submit(WorkerOf[s], item)
        /\ stream' = [stream EXCEPT ![r].snapshots = stream[r].snapshots \ {s}]
    BY <1>1, <1>4, <2>0 DEF RequestSnapshot, publisherVars, mainVars, StreamsOK
  <2>2. s \in Symbols
    BY <1>1 DEF SnapshotsOK
  <2>3. stream[r].id \in Nat
    BY DEF OrderInv, SeatsInv, StreamsOK, RegistryInv, RegistryOK
  <2>4. item \in InboxItem /\ item.kind = "snapshot" /\ WorkerOf[s] \in Workers
    BY <2>2, <2>3, MadeItems, EngineFeedAssumption
  <2> HIDE DEF item
  <2>5. InboxInv'
    BY <1>1, <2>1, <2>4, SubmitKeepsInbox DEF LineInv, LineTypeOK, InboxInv
  <2>6. EventsInOrder' /\ ClosedIsLast'
    BY <1>1, <2>1, SameLine, SameEnd DEF LineInv, Stopping
  <2>7. LineTypeOK'
    BY <1>1, <2>1, <2>5 DEF LineInv, LineTypeOK, InboxInv
  <2>8. SnapshotsOK'
    BY <1>1, <2>1 DEF StreamsOK, SnapshotsOK
  <2> QED  BY <2>5, <2>6, <2>7, <2>8 DEF LineInv, InboxInv
<1> QED  BY <1>2, <1>3, <1>4 DEF HandlerStep

LEMMA MainKeepsLine ==
  ASSUME LineInv, MainStep \/ FeedsStop
  PROVE  LineInv'
<1>1. UNCHANGED <<pushing, returned, as_of, commands, routing, closed, history, last_seq, stream>>
  BY DEF MainStep, FeedsStop, StopWorker, CloseOutbox, StopServer, GraceOver, ServerStopped,
         publisherVars, workerVars, streamVars
<1>2. SnapshotsOK'
  BY <1>1 DEF LineInv, SnapshotsOK
<1>3. ASSUME NEW w \in Workers, StopWorker(w) PROVE LineInv'
  <2>1. UNCHANGED <<outbox, phase>>
    BY <1>3 DEF StopWorker
  <2>2. InboxInv'
    BY <1>3, StopWorkerKeepsInbox DEF LineInv, LineTypeOK, InboxInv
  <2>3. EventsInOrder' /\ ClosedIsLast'
    BY <1>1, <2>1, SameLine, SameEnd DEF LineInv, Stopping
  <2>4. LineTypeOK'
    BY <1>1, <2>1, <2>2 DEF LineInv, LineTypeOK, InboxInv
  <2> QED  BY <1>2, <2>2, <2>3, <2>4 DEF LineInv, InboxInv
<1>4. CASE CloseOutbox
  <2>1. /\ phase = "workers" /\ phase' = "publisher" /\ returned = Workers
        /\ outbox' = Append(outbox, OutboxClosed)
        /\ UNCHANGED <<inbox, pilled>>
    BY <1>4 DEF CloseOutbox, workerVars
  <2>2. OutboxClosed \in Output /\ OutboxClosed.kind = "closed" /\ outbox \in Seq(Output)
    BY KindsApart DEF LineInv, LineTypeOK
  <2>3. outbox' \in Seq(Output)
    BY <2>1, <2>2, Appended
  <2>4. LineTypeOK' /\ InboxOfWorker'
    BY <1>1, <2>1, <2>3 DEF LineInv, LineTypeOK, InboxOfWorker
  <2>5. EventsInOrder'
    <3>1. \A s \in Symbols : PutOut(s)' = PutOut(s) /\ TakenOut(s)' = TakenOut(s)
      BY <1>1 DEF PutOut, ToPush, TakenOut, IsRouting
    <3>2. \A s \in Symbols : OutboxInOrder(s)'
      BY <2>1, <2>2, <3>1, OtherJoins DEF LineInv, EventsInOrder
    <3> QED  BY <1>1, <3>2 DEF LineInv, EventsInOrder, PushingInOrder, RoutingIsNext, IsRouting,
                               HistoryIsWindow
  <2>6. ClosedIsLast'
    BY <1>1, <2>1, CloseOutboxKeepsEnd DEF LineInv
  <2>7. PillIsLast'
    BY <1>1, <2>1 DEF LineInv, PillIsLast, Stopping
  <2> QED  BY <1>2, <2>4, <2>5, <2>6, <2>7 DEF LineInv
<1>5. CASE FeedsStop \/ StopServer \/ GraceOver \/ ServerStopped
  <2>1. /\ UNCHANGED <<inbox, outbox, pilled>>
        /\ \/ phase = "running" /\ phase' = "workers"
           \/ /\ phase \in {"publisher", "server", "cancelled"}
              /\ phase' \in {"server", "cancelled", "stopped"}
    BY <1>5 DEF FeedsStop, StopServer, GraceOver, ServerStopped, workerVars
  <2>2. Stopping' <=> Stopping
    BY <2>1 DEF Stopping
  <2>3. phase' # "running"
    BY <2>1
  <2>4. LineTypeOK' /\ InboxOfWorker'
    BY <1>1, <2>1 DEF LineInv, LineTypeOK, InboxOfWorker
  <2>5. EventsInOrder' /\ ClosedIsLast'
    BY <1>1, <2>1, <2>2, SameLine, SameEnd DEF LineInv
  <2>6. PillIsLast'
    BY <1>1, <2>1, <2>2, <2>3 DEF LineInv, PillIsLast
  <2> QED  BY <1>2, <2>4, <2>5, <2>6 DEF LineInv
<1> QED  BY <1>3, <1>4, <1>5 DEF MainStep

LEMMA SubmitKeepsLine ==
  ASSUME LineInv, NEW s \in Symbols, NEW gateway \in Gateways, FeedSubmits(s, gateway)
  PROVE  LineInv'
<1> DEFINE item == Command(s, gateway, Len(commands) + 1)
<1>1. /\ phase = "running" /\ Submit(WorkerOf[s], item)
      /\ commands' = Append(commands, [symbol |-> s, gateway |-> gateway])
      /\ UNCHANGED <<pushing, returned, as_of, outbox, routing, closed, history, last_seq, stream,
                     pilled, phase>>
  BY DEF FeedSubmits, publisherVars, streamVars, mainVars
<1>2. commands \in Seq([symbol : Symbols, gateway : Gateways])
  BY DEF LineInv, LineTypeOK
<1>3. Len(commands) + 1 \in Nat
  BY <1>2
<1>4. item \in InboxItem /\ item.kind = "command" /\ item.symbol = s /\ WorkerOf[s] \in Workers
  BY <1>3, MadeItems, EngineFeedAssumption
<1> HIDE DEF item
<1>5. InboxInv'
  BY <1>1, <1>4, SubmitKeepsInbox DEF LineInv, LineTypeOK, InboxInv
<1>6. EventsInOrder' /\ ClosedIsLast'
  BY <1>1, SameLine, SameEnd DEF LineInv, Stopping
<1>7. LineTypeOK'
  <2>1. commands' \in Seq([symbol : Symbols, gateway : Gateways])
    BY <1>1, <1>2
  <2> QED  BY <1>1, <1>5, <2>1 DEF LineInv, LineTypeOK, InboxInv
<1>8. SnapshotsOK'
  BY <1>1 DEF LineInv, SnapshotsOK
<1> QED  BY <1>5, <1>6, <1>7, <1>8 DEF LineInv, InboxInv

LEMMA SubscribesKeepLine ==
  ASSUME OrderInv, NEW r \in Streams,
         \/ \E q \in MarketRequests : Subscribe(r, q)
         \/ \E gateway \in RepliesGateways : SubscribeReplies(r, gateway)
  PROVE  LineInv'
<1>1. StreamsOK /\ SnapshotsOK /\ LineInv
  BY DEF OrderInv, LineInv, SeatsInv
<1>2. UNCHANGED <<inbox, pushing, returned, as_of, commands, outbox, routing, closed, history,
                  last_seq, mainVars>>
  BY DEF Subscribe, SubscribeReplies, subscribe, subscribe_replies, Refused, publisherVars, workerVars
<1>3. SnapshotsOK'
  <2>1. CASE \E error : Refused(r, error)
    BY <1>1, <2>1, MovesKeepSnapshots DEF Refused
  <2>2. ASSUME NEW kind, NEW request, NEW pc, NEW wanted \in SUBSET Symbols,
               Accepted(r, kind, request, pc, wanted)
        PROVE  SnapshotsOK'
    <3>1. stream = [q \in Streams |-> stream[q]]
      BY <1>1 DEF StreamsOK
    <3>2. /\ \A q \in Streams \ {r} : stream'[q] = stream[q]
          /\ DOMAIN stream'[r] = DOMAIN stream[r] /\ stream'[r].snapshots = wanted
      BY <1>1, <2>2, <3>1 DEF SnapshotsOK, Accepted
    <3> QED  BY <1>1, <3>2 DEF SnapshotsOK
  <2>3. ASSUME NEW q \in MarketRequests, subscribe(q) PROVE Snapshots(q) \in SUBSET Symbols
    BY <2>3 DEF subscribe, SubscribeError, Snapshots
  <2> QED  BY <2>1, <2>2, <2>3 DEF Subscribe, SubscribeReplies
<1> QED  BY <1>1, <1>2, <1>3, Elsewhere

LEMMA NextKeepsOrder == OrderInv /\ [Next]_vars => OrderInv'
<1> SUFFICES ASSUME OrderInv, [Next]_vars PROVE LineInv'
  BY NextKeepsSeats DEF OrderInv
<1>1. CASE UNCHANGED vars
  <2>1. SnapshotsOK'
    BY <1>1 DEF OrderInv, LineInv, SnapshotsOK, vars, streamVars
  <2> QED  BY <1>1, <2>1, Elsewhere DEF OrderInv, vars, publisherVars, workerVars
<1>2. ASSUME NEW r \in Streams, ClientLeaves(r) PROVE LineInv'
  <2>1. SnapshotsOK'
    BY <1>2 DEF OrderInv, LineInv, SnapshotsOK, ClientLeaves
  <2> QED  BY <1>2, <2>1, Elsewhere DEF OrderInv, ClientLeaves, publisherVars, workerVars
<1>3. CASE Environment
  BY <1>2, <1>3, SubmitKeepsLine, SubscribesKeepLine, HandlersKeepLine, MainKeepsLine
  DEF Environment, OrderInv
<1>4. CASE Next
  BY <1>3, <1>4, WorkersKeepLine, PublisherKeepsLine, HandlersKeepLine, MainKeepsLine
  DEF Next, OrderInv
<1> QED  BY <1>1, <1>4

LEMMA InitEstablishesOrder == Init => OrderInv
<1> SUFFICES ASSUME Init PROVE LineInv
  BY InitEstablishesSeats DEF OrderInv
<1>1. /\ inbox = [w \in Workers |-> <<>>] /\ pushing = [w \in Workers |-> <<>>]
      /\ outbox = <<>> /\ routing = None /\ commands = <<>>
      /\ as_of = [s \in Symbols |-> 0] /\ last_seq = [s \in Symbols |-> 0]
      /\ history = [s \in Symbols |-> <<>>]
      /\ returned = {} /\ pilled = {} /\ phase = "running" /\ ~closed
      /\ stream = [r \in Streams |-> NoStream]
  BY DEF Init, PublisherInit
<1>2. LineTypeOK
  BY <1>1 DEF LineTypeOK
<1>3. SnapshotsOK
  BY <1>1 DEF SnapshotsOK, NoStream
<1>4. InboxOfWorker /\ PushingInOrder /\ PillIsLast /\ ClosedIsLast
  BY <1>1 DEF InboxOfWorker, PushingInOrder, PillIsLast, ClosedIsLast, Stopping
<1>5. \A s \in Symbols : ~IsRouting(s)
  BY <1>1 DEF IsRouting
<1>6. \A s \in Symbols : TakenOut(s) = 0 /\ PutOut(s) = 0
  <2> SUFFICES ASSUME NEW s \in Symbols PROVE TakenOut(s) = 0 /\ PutOut(s) = 0
    OBVIOUS
  <2>1. WorkerOf[s] \in Workers
    BY EngineFeedAssumption
  <2> QED  BY <1>1, <1>5, <2>1 DEF TakenOut, PutOut, ToPush
<1>7. \A s \in Symbols : OutboxInOrder(s)
  BY <1>1, <1>6 DEF OutboxInOrder
<1>8. RoutingIsNext
  BY <1>5 DEF RoutingIsNext
<1>9. HistoryIsWindow
  <2>1. Min({ReplayWindow, 0}) = 0
    BY PublisherAssumption, MinOfTwo
  <2> QED  BY <1>1, <2>1 DEF HistoryIsWindow
<1> QED  BY <1>2, <1>3, <1>4, <1>7, <1>8, <1>9 DEF LineInv, EventsInOrder

-----------------------------------------------------------------------------
(* The theorems *)

\* OrderInv holds in every state: each event is in one place on its way, and in order.
THEOREM OrderInvariant == Spec => []OrderInv
<1> QED  BY InitEstablishesOrder, NextKeepsOrder, PTL DEF Spec

\* Whatever the workers, the outbox they share and the streams do, the publisher keeps
\* of each symbol the last events without a hole (remember, route).
THEOREM WindowIsLastEvents == Spec => []HistoryIsWindow
<1>1. OrderInv => HistoryIsWindow
  BY DEF OrderInv, LineInv, EventsInOrder
<1> QED  BY <1>1, OrderInvariant, PTL

\* A publisher that has closed leaves no command unrun and no event or reply unrouted,
\* for any number of workers and commands and any time of the signal (ShutdownInOrder).
THEOREM CloseLeavesNothing == Spec => []NothingLeftAtClose
<1>1. OrderInv => NothingLeftAtClose
  <2> SUFFICES ASSUME OrderInv, closed PROVE
          /\ \A w \in Workers : pushing[w] = <<>> /\ \A i \in DOMAIN inbox[w] : inbox[w][i].kind = "snapshot"
          /\ outbox = <<>>
          /\ last_seq = as_of
    BY DEF NothingLeftAtClose
  <2>1. routing # None /\ routing.kind = "closed" /\ Stopping /\ outbox = <<>> /\ returned = Workers
    BY DEF OrderInv, LineInv, ClosedIsLast, PillIsLast
  <2>2. \A w \in Workers : pushing[w] = <<>> /\ \A i \in DOMAIN inbox[w] : inbox[w][i].kind = "snapshot"
    BY <2>1 DEF OrderInv, LineInv, PillIsLast
  <2>3. ASSUME NEW s \in Symbols PROVE last_seq[s] = as_of[s]
    <3>1. LineTypeOK /\ OutboxInOrder(s)
      BY DEF OrderInv, LineInv, EventsInOrder
    <3>2. TakenOut(s) = last_seq[s]
      BY <2>1 DEF TakenOut, IsRouting
    <3>3. PutOut(s) = as_of[s] /\ PutOut(s) \in Int /\ TakenOut(s) \in Nat
      BY <2>2, <3>1, NumbersTyped DEF PutOut, ToPush
    <3>4. DOMAIN outbox = {}
      BY <2>1
    <3>5. TakenOut(s) <= PutOut(s) /\ \A n \in TakenOut(s) + 1 .. PutOut(s) : FALSE
      BY <3>1, <3>4 DEF OutboxInOrder
    <3> QED  BY <3>2, <3>3, <3>5
  <2>4. last_seq = as_of
    BY <2>3 DEF OrderInv, LineInv, LineTypeOK
  <2> QED  BY <2>1, <2>2, <2>4
<1> QED  BY <1>1, OrderInvariant, PTL

=============================================================================
