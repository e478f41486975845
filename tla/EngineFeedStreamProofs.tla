------------------------ MODULE EngineFeedStreamProofs ------------------------
(***************************************************************************)
(* What the streams get, for every value of the constants.  Snapshots and  *)
(* replies keep their place in the line to the publisher; the handlers,    *)
(* the registry and the queues keep their types; what each stream was      *)
(* sent, has in hand and has queued is what it was promised, after every   *)
(* step of every thread; and so the output side implements FeedView.       *)
(***************************************************************************)
EXTENDS EngineFeedOrderProofs, FiniteSetTheorems, FunctionTheorems, SequenceTheorems,
        WellFoundedInduction

-----------------------------------------------------------------------------
(* Queues *)

\* The places of what stays when the first element leaves.
LEMMA TakenPlaces ==
  ASSUME NEW S, NEW q \in Seq(S), q # <<>>
  PROVE  \E k \in Nat : /\ Len(q) = k + 1 /\ Len(Tail(q)) = k
                        /\ DOMAIN q = 1 .. k + 1 /\ DOMAIN Tail(q) = 1 .. k
                        /\ Head(q) = q[1]
                        /\ \A i \in 1 .. k : Tail(q)[i] = q[i + 1]
<1>1. Len(q) \in Nat \ {0}
  BY Taken
<1>2. Len(q) - 1 \in Nat /\ Len(q) = (Len(q) - 1) + 1
  BY <1>1
<1> QED  BY <1>2, Taken

\* What is in a queue stays in it, but for the first, and joins it at its end.
LEMMA PartTaken ==
  ASSUME NEW S, NEW q \in Seq(S), q # <<>>
  PROVE  \A i \in DOMAIN Tail(q) : \E j \in DOMAIN q : Tail(q)[i] = q[j]
<1>1. PICK k \in Nat : /\ DOMAIN q = 1 .. k + 1 /\ DOMAIN Tail(q) = 1 .. k
                       /\ \A i \in 1 .. k : Tail(q)[i] = q[i + 1]
  BY TakenPlaces
<1>2. \A i \in 1 .. k : i + 1 \in 1 .. k + 1
  OBVIOUS
<1> QED  BY <1>1, <1>2

LEMMA PartAppended ==
  ASSUME NEW S, NEW q \in Seq(S), NEW x \in S
  PROVE  \A i \in DOMAIN Append(q, x) :
           Append(q, x)[i] = x \/ \E j \in DOMAIN q : Append(q, x)[i] = q[j]
<1>1. /\ DOMAIN q = 1 .. Len(q) /\ DOMAIN Append(q, x) = 1 .. Len(q) + 1
      /\ \A i \in 1 .. Len(q) : Append(q, x)[i] = q[i]
      /\ Append(q, x)[Len(q) + 1] = x /\ Len(q) \in Nat
  BY Appended
<1>2. \A i \in 1 .. Len(q) + 1 : i \in 1 .. Len(q) \/ i = Len(q) + 1
  BY <1>1
<1> QED  BY <1>1, <1>2

-----------------------------------------------------------------------------
(* Numbers of commands in a queue *)

\* A command for s, or the reply to one.
CarriesFor(x, s) == x.kind \in {"command", "reply"} /\ x.symbol = s

NumberIs(x, s, n) == CarriesFor(x, s) /\ x.number = n

Holds(q, s, n) == \E i \in DOMAIN q : NumberIs(q[i], s, n)

\* The commands for s in q are in order, each once.
Rising(q, s) ==
  \A i, j \in DOMAIN q : i < j /\ CarriesFor(q[i], s) /\ CarriesFor(q[j], s) =>
    q[i].number < q[j].number

LEMMA HoldsAppended ==
  ASSUME NEW S, NEW q \in Seq(S), NEW x \in S, NEW s
  PROVE  \A n : Holds(Append(q, x), s, n) <=> Holds(q, s, n) \/ NumberIs(x, s, n)
<1>1. PICK k \in Nat : k = Len(q)
  OBVIOUS
<1>2. /\ DOMAIN q = 1 .. k /\ DOMAIN Append(q, x) = 1 .. k + 1
      /\ \A i \in 1 .. k : Append(q, x)[i] = q[i]
      /\ Append(q, x)[k + 1] = x
  BY <1>1, Appended
<1>3. \A i \in 1 .. k + 1 : i \in 1 .. k \/ i = k + 1
  BY <1>1
<1>4. 1 .. k \subseteq 1 .. k + 1 /\ k + 1 \in 1 .. k + 1
  BY <1>1
<1> QED  BY <1>2, <1>3, <1>4 DEF Holds

LEMMA HoldsTaken ==
  ASSUME NEW S, NEW q \in Seq(S), q # <<>>, NEW s
  PROVE  \A n : Holds(q, s, n) <=> NumberIs(Head(q), s, n) \/ Holds(Tail(q), s, n)
<1>2. PICK k \in Nat : /\ DOMAIN q = 1 .. k + 1 /\ DOMAIN Tail(q) = 1 .. k /\ Head(q) = q[1]
                       /\ \A i \in 1 .. k : Tail(q)[i] = q[i + 1]
  BY TakenPlaces
<1> SUFFICES ASSUME NEW n
             PROVE  Holds(q, s, n) <=> NumberIs(Head(q), s, n) \/ Holds(Tail(q), s, n)
  OBVIOUS
<1>3. ASSUME Holds(q, s, n) PROVE NumberIs(Head(q), s, n) \/ Holds(Tail(q), s, n)
  <2>1. PICK i \in 1 .. k + 1 : NumberIs(q[i], s, n)
    BY <1>2, <1>3 DEF Holds
  <2>2. CASE i = 1
    BY <1>2, <2>1, <2>2
  <2>3. CASE i # 1
    <3>1. i - 1 \in 1 .. k /\ (i - 1) + 1 = i
      BY <2>3
    <3> QED  BY <1>2, <2>1, <3>1 DEF Holds
  <2> QED  BY <2>2, <2>3
<1>4. ASSUME Holds(Tail(q), s, n) PROVE Holds(q, s, n)
  <2>1. PICK i \in 1 .. k : NumberIs(Tail(q)[i], s, n)
    BY <1>2, <1>4 DEF Holds
  <2>2. i + 1 \in 1 .. k + 1
    OBVIOUS
  <2> QED  BY <1>2, <2>1, <2>2 DEF Holds
<1>5. ASSUME NumberIs(Head(q), s, n) PROVE Holds(q, s, n)
  <2>1. 1 \in 1 .. k + 1
    OBVIOUS
  <2> QED  BY <1>2, <1>5, <2>1 DEF Holds
<1> QED  BY <1>3, <1>4, <1>5

LEMMA RisingAppended ==
  ASSUME NEW S, NEW q \in Seq(S), NEW x \in S, NEW s, Rising(q, s),
         \A n : Holds(q, s, n) /\ CarriesFor(x, s) => n < x.number
  PROVE  Rising(Append(q, x), s)
<1>1. PICK k \in Nat : k = Len(q)
  OBVIOUS
<1>2. /\ DOMAIN q = 1 .. k /\ DOMAIN Append(q, x) = 1 .. k + 1
      /\ \A i \in 1 .. k : Append(q, x)[i] = q[i]
      /\ Append(q, x)[k + 1] = x
  BY <1>1, Appended
<1> SUFFICES ASSUME NEW i \in 1 .. k + 1, NEW j \in 1 .. k + 1, i < j,
                    CarriesFor(Append(q, x)[i], s), CarriesFor(Append(q, x)[j], s)
             PROVE  Append(q, x)[i].number < Append(q, x)[j].number
  BY <1>2 DEF Rising
<1>3. i \in 1 .. k
  OBVIOUS
<1>4. CASE j \in 1 .. k
  BY <1>2, <1>3, <1>4 DEF Rising
<1>5. CASE j = k + 1
  <2>1. Holds(q, s, q[i].number)
    BY <1>2, <1>3 DEF Holds, NumberIs
  <2> QED  BY <1>2, <1>3, <1>5, <2>1
<1>6. j \in 1 .. k \/ j = k + 1
  OBVIOUS
<1> QED  BY <1>4, <1>5, <1>6

LEMMA RisingTaken ==
  ASSUME NEW S, NEW q \in Seq(S), q # <<>>, NEW s, Rising(q, s)
  PROVE  /\ Rising(Tail(q), s)
         /\ \A m, n : NumberIs(Head(q), s, m) /\ Holds(Tail(q), s, n) => m < n
<1>2. PICK k \in Nat : /\ DOMAIN q = 1 .. k + 1 /\ DOMAIN Tail(q) = 1 .. k /\ Head(q) = q[1]
                       /\ \A i \in 1 .. k : Tail(q)[i] = q[i + 1]
  BY TakenPlaces
<1>3. Rising(Tail(q), s)
  <2> SUFFICES ASSUME NEW i \in 1 .. k, NEW j \in 1 .. k, i < j,
                      CarriesFor(Tail(q)[i], s), CarriesFor(Tail(q)[j], s)
               PROVE  Tail(q)[i].number < Tail(q)[j].number
    BY <1>2 DEF Rising
  <2>1. i + 1 \in 1 .. k + 1 /\ j + 1 \in 1 .. k + 1 /\ i + 1 < j + 1
    OBVIOUS
  <2> QED  BY <1>2, <2>1 DEF Rising
<1>4. ASSUME NEW m, NEW n, NumberIs(Head(q), s, m), Holds(Tail(q), s, n)
      PROVE  m < n
  <2>1. PICK i \in 1 .. k : NumberIs(Tail(q)[i], s, n)
    BY <1>2, <1>4 DEF Holds
  <2>2. 1 \in 1 .. k + 1 /\ i + 1 \in 1 .. k + 1 /\ 1 < i + 1
    OBVIOUS
  <2> QED  BY <1>2, <1>4, <2>1, <2>2 DEF Rising, NumberIs
<1> QED  BY <1>3, <1>4

-----------------------------------------------------------------------------
(* Snapshots and replies on their way *)

IsSnapshotOf(x, s) == x.kind = "snapshot" /\ x.symbol = s

\* A snapshot in the outbox stands between the events in it and those after it.
SnapshotsPlaced(s) ==
  \A i \in DOMAIN outbox : IsSnapshotOf(outbox[i], s) =>
    /\ TakenOut(s) <= outbox[i].seq /\ outbox[i].seq <= PutOut(s)
    /\ \A j \in DOMAIN outbox : EventAt(j, s) =>
         IF j < i THEN outbox[j].seq <= outbox[i].seq ELSE outbox[i].seq < outbox[j].seq

\* What a worker has in hand is of a symbol of its own, and a snapshot is up to date.
HandOfWorker ==
  \A w \in Workers : pushing[w] # <<>> =>
    LET x == Last(pushing[w]) IN
    /\ WorkerOf[x.symbol] = w
    /\ x.kind = "snapshot" => Len(pushing[w]) = 1 /\ x.seq = as_of[x.symbol]

\* A request for a snapshot is in the inbox of the worker of its symbol.
RequestOfWorker ==
  \A w \in Workers : \A i \in DOMAIN inbox[w] :
    inbox[w][i].kind = "snapshot" => WorkerOf[inbox[w][i].symbol] = w

\* When its turn comes a snapshot is as old as the window.
SnapshotIsNext ==
  routing # None /\ routing.kind = "snapshot" => routing.seq = last_seq[routing.symbol]

SnapshotsInLine ==
  /\ HandOfWorker
  /\ RequestOfWorker
  /\ \A s \in Symbols : SnapshotsPlaced(s)
  /\ SnapshotIsNext

\* What the publisher has in hand, as a queue.
InHand == IF routing = None THEN <<>> ELSE <<routing>>

\* The number is of a command for s that its worker has still to run, or of a
\* reply on its way to the queues.
OnTheWay(s, n) ==
  \/ Holds(InHand, s, n)
  \/ Holds(outbox, s, n)
  \/ Holds(pushing[WorkerOf[s]], s, n)
  \/ Holds(inbox[WorkerOf[s]], s, n)

\* All of s in p was commanded before all of s in q.
Before(p, q, s) == \A m, n : Holds(p, s, m) /\ Holds(q, s, n) => m < n

\* The commands for s and their replies keep the order of the commands, each once.
RepliesOrdered(s) ==
  LET hand == pushing[WorkerOf[s]]
      todo == inbox[WorkerOf[s]]
  IN
  /\ Rising(outbox, s) /\ Rising(hand, s) /\ Rising(todo, s)
  /\ Before(InHand, outbox, s) /\ Before(InHand, hand, s) /\ Before(InHand, todo, s)
  /\ Before(outbox, hand, s) /\ Before(outbox, todo, s)
  /\ Before(hand, todo, s)

\* None is lost: if one is on its way, so are the later ones.
RepliesTogether(s) ==
  \A m : \A n \in DOMAIN commands :
    OnTheWay(s, m) /\ m < n /\ commands[n].symbol = s => OnTheWay(s, n)

\* The number is the one the command got, with c the commands so far.
IsCommandOf(x, c) ==
  x.kind \in {"command", "reply"} =>
    x.number \in DOMAIN c /\ c[x.number] = [symbol |-> x.symbol, gateway |-> x.gateway]

Known(q, c) == \A i \in DOMAIN q : IsCommandOf(q[i], c)

RepliesInLine ==
  /\ \A w \in Workers : Known(inbox[w], commands) /\ Known(pushing[w], commands)
  /\ Known(outbox, commands) /\ Known(InHand, commands)
  /\ \A s \in Symbols : RepliesOrdered(s) /\ RepliesTogether(s)

WayInv == OrderInv /\ SnapshotsInLine /\ RepliesInLine

-----------------------------------------------------------------------------
(* A snapshot keeps its place *)

LEMMA PlacedStays ==
  ASSUME NEW s \in Symbols, SnapshotsPlaced(s), UNCHANGED outbox,
         PutOut(s)' = PutOut(s), TakenOut(s)' = TakenOut(s)
  PROVE  SnapshotsPlaced(s)'
BY DEF SnapshotsPlaced, EventAt

\* The next event, or a snapshot that holds all before it, or something else.
LEMMA PlacedJoins ==
  ASSUME LineTypeOK, NEW s \in Symbols, OutboxInOrder(s), SnapshotsPlaced(s),
         NEW x \in Output, outbox' = Append(outbox, x), TakenOut(s)' = TakenOut(s), IsPut(x, s),
         IsSnapshotOf(x, s) => x.seq = PutOut(s)
  PROVE  SnapshotsPlaced(s)'
<1>1. outbox \in Seq(Output) /\ PutOut(s) \in Int /\ TakenOut(s) \in Nat
  BY NumbersTyped DEF LineTypeOK
<1>2. PICK k \in Nat : k = Len(outbox)
  BY <1>1
<1>3. /\ DOMAIN outbox = 1 .. k /\ DOMAIN outbox' = 1 .. k + 1
      /\ \A i \in 1 .. k : outbox'[i] = outbox[i]
      /\ outbox'[k + 1] = x
  BY <1>1, <1>2, Appended
<1>4. TakenOut(s) <= PutOut(s) /\ PutOut(s) <= PutOut(s)' /\ PutOut(s)' \in Int
  BY <1>1 DEF OutboxInOrder, IsPut
<1>5. \A i \in 1 .. k : outbox[i].kind = "event" /\ outbox[i].symbol = s => outbox[i].seq <= PutOut(s)
  BY <1>3 DEF OutboxInOrder, EventAt
<1>6. \A i \in 1 .. k : IsSnapshotOf(outbox[i], s) =>
        /\ TakenOut(s) <= outbox[i].seq /\ outbox[i].seq <= PutOut(s)
        /\ \A j \in 1 .. k : outbox[j].kind = "event" /\ outbox[j].symbol = s =>
             IF j < i THEN outbox[j].seq <= outbox[i].seq ELSE outbox[i].seq < outbox[j].seq
  BY <1>3 DEF SnapshotsPlaced, EventAt
<1>7. \A i \in 1 .. k : outbox[i].kind = "snapshot" => outbox[i].seq \in Nat
  BY <1>1, <1>3 DEF Output, FeedItem, EventItem, SnapshotItem, ReplyItem, OutboxClosed
<1>8. x.kind = "event" /\ x.symbol = s => x.seq = PutOut(s) + 1
  BY DEF IsPut
<1> SUFFICES ASSUME NEW i \in 1 .. k + 1, IsSnapshotOf(outbox'[i], s)
             PROVE  /\ TakenOut(s) <= outbox'[i].seq /\ outbox'[i].seq <= PutOut(s)'
                    /\ \A j \in 1 .. k + 1 : outbox'[j].kind = "event" /\ outbox'[j].symbol = s =>
                         IF j < i THEN outbox'[j].seq <= outbox'[i].seq
                         ELSE outbox'[i].seq < outbox'[j].seq
  BY <1>3 DEF SnapshotsPlaced, EventAt
<1>9. CASE i \in 1 .. k
  <2>1. /\ outbox'[i] = outbox[i] /\ outbox[i].seq \in Nat
        /\ TakenOut(s) <= outbox[i].seq /\ outbox[i].seq <= PutOut(s)
    BY <1>3, <1>6, <1>7, <1>9 DEF IsSnapshotOf
  <2>2. ASSUME NEW j \in 1 .. k + 1, outbox'[j].kind = "event", outbox'[j].symbol = s
        PROVE  IF j < i THEN outbox'[j].seq <= outbox'[i].seq ELSE outbox'[i].seq < outbox'[j].seq
    <3>1. CASE j \in 1 .. k
      BY <1>3, <1>6, <1>9, <2>1, <2>2, <3>1
    <3>2. CASE j = k + 1
      <4>1. ~(j < i) /\ outbox'[j].seq = PutOut(s) + 1
        BY <1>3, <1>8, <1>9, <2>2, <3>2
      <4> QED  BY <1>1, <2>1, <4>1
    <3>3. j \in 1 .. k \/ j = k + 1
      OBVIOUS
    <3> QED  BY <3>1, <3>2, <3>3
  <2>3. outbox'[i].seq <= PutOut(s)'
    BY <1>1, <1>4, <2>1
  <2> QED  BY <2>1, <2>2, <2>3
<1>10. CASE i = k + 1
  <2>1. outbox'[i] = x /\ x.seq = PutOut(s) /\ x.kind = "snapshot"
    BY <1>3, <1>10 DEF IsSnapshotOf
  <2>2. ASSUME NEW j \in 1 .. k + 1, outbox'[j].kind = "event", outbox'[j].symbol = s
        PROVE  j < i /\ outbox'[j].seq <= PutOut(s)
    <3>1. j # k + 1
      BY <1>3, <2>1, <2>2
    <3>2. j \in 1 .. k /\ j < i
      BY <1>10, <3>1
    <3> QED  BY <1>3, <1>5, <2>2, <3>2
  <2> QED  BY <1>4, <2>1, <2>2
<1>11. i \in 1 .. k \/ i = k + 1
  OBVIOUS
<1> QED  BY <1>9, <1>10, <1>11

LEMMA PlacedLeaves ==
  ASSUME LineTypeOK, NEW s \in Symbols, OutboxInOrder(s), SnapshotsPlaced(s), outbox # <<>>,
         outbox' = Tail(outbox), PutOut(s)' = PutOut(s),
         TakenOut(s)' = IF EventAt(1, s) THEN TakenOut(s) + 1 ELSE TakenOut(s)
  PROVE  SnapshotsPlaced(s)'
<1>1. outbox \in Seq(Output) /\ TakenOut(s) \in Nat /\ PutOut(s) \in Int
  BY NumbersTyped DEF LineTypeOK
<1>3. PICK k \in Nat : /\ DOMAIN outbox = 1 .. k + 1 /\ DOMAIN outbox' = 1 .. k
                       /\ \A i \in 1 .. k : outbox'[i] = outbox[i + 1]
  BY <1>1, TakenPlaces
<1>4. \A i \in 1 .. k : i + 1 \in 1 .. k + 1
  OBVIOUS
<1> SUFFICES ASSUME NEW i \in 1 .. k, IsSnapshotOf(outbox[i + 1], s)
             PROVE  /\ TakenOut(s)' <= outbox[i + 1].seq /\ outbox[i + 1].seq <= PutOut(s)
                    /\ \A j \in 1 .. k : EventAt(j + 1, s) =>
                         IF j < i THEN outbox[j + 1].seq <= outbox[i + 1].seq
                         ELSE outbox[i + 1].seq < outbox[j + 1].seq
  BY <1>3, <1>4 DEF SnapshotsPlaced, EventAt
<1>5. /\ TakenOut(s) <= outbox[i + 1].seq /\ outbox[i + 1].seq <= PutOut(s)
      /\ \A j \in 1 .. k + 1 : EventAt(j, s) =>
           IF j < i + 1 THEN outbox[j].seq <= outbox[i + 1].seq ELSE outbox[i + 1].seq < outbox[j].seq
  BY <1>3, <1>4 DEF SnapshotsPlaced
<1>6. TakenOut(s)' <= outbox[i + 1].seq
  <2>1. CASE EventAt(1, s)
    <3>1. outbox[1].seq = TakenOut(s) + 1
      BY <2>1, FirstIsNext
    <3>2. 1 \in 1 .. k + 1 /\ 1 < i + 1
      OBVIOUS
    <3> QED  BY <1>5, <2>1, <3>1, <3>2
  <2>2. CASE ~EventAt(1, s)
    BY <1>5, <2>2
  <2> QED  BY <2>1, <2>2
<1>7. \A j \in 1 .. k : j + 1 \in 1 .. k + 1 /\ (j + 1 < i + 1 <=> j < i)
  OBVIOUS
<1> QED  BY <1>5, <1>6, <1>7

\* The first output of the outbox, if it is a snapshot, is as old as the window.
LEMMA FirstIsCurrent ==
  ASSUME LineTypeOK, NEW s \in Symbols, OutboxInOrder(s), SnapshotsPlaced(s), outbox # <<>>,
         IsSnapshotOf(outbox[1], s)
  PROVE  outbox[1].seq = TakenOut(s)
<1>1. outbox \in Seq(Output) /\ TakenOut(s) \in Nat /\ PutOut(s) \in Int
  BY NumbersTyped DEF LineTypeOK
<1>2. 1 \in DOMAIN outbox /\ outbox[1] \in Output /\ DOMAIN outbox \subseteq Nat \ {0}
  BY <1>1, Taken
<1>3. outbox[1].seq \in Nat
  BY <1>2 DEF IsSnapshotOf, Output, FeedItem, EventItem, SnapshotItem, ReplyItem, OutboxClosed
<1>4. /\ TakenOut(s) <= outbox[1].seq /\ outbox[1].seq <= PutOut(s)
      /\ \A j \in DOMAIN outbox : EventAt(j, s) /\ ~(j < 1) => outbox[1].seq < outbox[j].seq
  BY <1>2 DEF SnapshotsPlaced
<1> SUFFICES ASSUME TakenOut(s) + 1 <= outbox[1].seq PROVE FALSE
  BY <1>1, <1>3, <1>4
<1>5. TakenOut(s) + 1 \in TakenOut(s) + 1 .. PutOut(s)
  BY <1>1, <1>3, <1>4
<1>6. PICK j \in DOMAIN outbox : EventAt(j, s) /\ outbox[j].seq = TakenOut(s) + 1
  BY <1>5 DEF OutboxInOrder
<1>7. ~(j < 1)
  BY <1>2
<1> QED  BY <1>1, <1>3, <1>4, <1>6, <1>7

\* The workers run requests of their own, and none of another changes their hand.
LEMMA TakeKeepsSnapshots ==
  ASSUME LineInv, SnapshotsInLine, NEW w \in Workers, WorkerTakes(w)
  PROVE  SnapshotsInLine'
<1> DEFINE item == Head(inbox[w])
<1>1. /\ pushing[w] = <<>> /\ inbox[w] # <<>> /\ inbox' = [inbox EXCEPT ![w] = Tail(inbox[w])]
      /\ UNCHANGED <<outbox, routing, last_seq>>
      /\ LineTypeOK
  BY DEF WorkerTakes, publisherVars, LineInv
<1>2. inbox[w] \in Seq(InboxItem)
  BY DEF LineInv, LineTypeOK
<1>3. item \in InboxItem /\ (item.kind = "command" => WorkerOf[item.symbol] = w)
  BY <1>1, NextItem DEF LineInv
<1>4. item.kind = "snapshot" => WorkerOf[item.symbol] = w
  BY <1>1, <1>2, Taken DEF SnapshotsInLine, RequestOfWorker
<1> HIDE DEF item
<1>5. RequestOfWorker'
  <2>1. /\ inbox'[w] = Tail(inbox[w]) /\ \A v \in Workers \ {w} : inbox'[v] = inbox[v]
    BY <1>1 DEF LineInv, LineTypeOK
  <2>2. \A i \in DOMAIN Tail(inbox[w]) : \E j \in DOMAIN inbox[w] : Tail(inbox[w])[i] = inbox[w][j]
    BY <1>1, <1>2, PartTaken
  <2> SUFFICES ASSUME NEW v \in Workers, NEW i \in DOMAIN inbox'[v], inbox'[v][i].kind = "snapshot"
               PROVE  WorkerOf[inbox'[v][i].symbol] = v
    BY DEF RequestOfWorker
  <2>3. PICK j \in DOMAIN inbox[v] : inbox'[v][i] = inbox[v][j]
    BY <2>1, <2>2
  <2> QED  BY <2>3 DEF SnapshotsInLine, RequestOfWorker
<1>6. SnapshotIsNext'
  BY <1>1 DEF SnapshotsInLine, SnapshotIsNext
<1>7. \A s \in Symbols : TakenOut(s)' = TakenOut(s)
  BY <1>1 DEF TakenOut, IsRouting
<1>8. ASSUME \A s \in Symbols : PutOut(s)' = PutOut(s)
      PROVE  \A s \in Symbols : SnapshotsPlaced(s)'
  BY <1>1, <1>7, <1>8, PlacedStays DEF SnapshotsInLine
<1>9. \A v \in Workers : pushing[v] # <<>> => Last(pushing[v]).symbol \in Symbols
  <2> SUFFICES ASSUME NEW v \in Workers, pushing[v] # <<>> PROVE Last(pushing[v]).symbol \in Symbols
    OBVIOUS
  <2>1. pushing[v] \in Seq(FeedItem)
    BY <1>1 DEF LineTypeOK
  <2>2. Last(pushing[v]) \in FeedItem
    BY <2>1 DEF Last
  <2> QED  BY <2>2 DEF FeedItem, EventItem, SnapshotItem, ReplyItem
<1>10. CASE item.kind = "shutdown"
  <2>1. UNCHANGED <<pushing, as_of>>
    BY <1>10 DEF WorkerTakes, item
  <2>2. HandOfWorker'
    BY <2>1 DEF SnapshotsInLine, HandOfWorker
  <2>3. \A s \in Symbols : PutOut(s)' = PutOut(s)
    BY <2>1 DEF PutOut, ToPush
  <2> QED  BY <1>5, <1>6, <1>8, <2>2, <2>3 DEF SnapshotsInLine
<1>11. CASE item.kind = "snapshot"
  <2> DEFINE x == SnapshotReady(item.symbol, as_of[item.symbol], item.subscriber)
  <2>1. pushing' = [pushing EXCEPT ![w] = <<x>>] /\ UNCHANGED as_of
    BY <1>11 DEF WorkerTakes, item
  <2>2. item.symbol \in Symbols /\ item.subscriber \in Nat
    BY <1>3, <1>11, KindsApart
  <2>3. as_of[item.symbol] \in Nat
    BY <1>1, <2>2 DEF LineTypeOK
  <2>4. x \in FeedItem /\ x.symbol = item.symbol /\ x.seq = as_of[item.symbol]
    BY <2>2, <2>3, MadeItems DEF SnapshotReady
  <2> HIDE DEF x
  <2>5. \A s \in Symbols : PutOut(s)' = PutOut(s)
    BY <1>1, <2>1, <2>4, SnapshotKeepsNumbers
  <2>6. /\ pushing'[w] = <<x>> /\ Last(<<x>>) = x /\ Len(<<x>>) = 1
        /\ \A v \in Workers \ {w} : pushing'[v] = pushing[v]
    BY <1>1, <2>1 DEF LineTypeOK, Last
  <2>7. HandOfWorker'
    BY <1>4, <1>11, <2>1, <2>4, <2>6 DEF SnapshotsInLine, HandOfWorker
  <2> QED  BY <1>5, <1>6, <1>8, <2>5, <2>7 DEF SnapshotsInLine
<1>12. CASE item.kind = "command"
  <2>1. PICK n \in 0 .. MaxEvents : /\ pushing' = [pushing EXCEPT ![w] = OutputsOf(item, n)]
                                    /\ as_of' = [as_of EXCEPT ![item.symbol] = @ + n]
    BY <1>12 DEF WorkerTakes, item
  <2>2. n \in Nat /\ item.symbol \in Symbols
    BY <1>3, <1>12, KindsApart, EngineFeedAssumption
  <2>3. \A s \in Symbols : PutOut(s)' = PutOut(s)
    BY <1>1, <1>3, <1>12, <2>1, <2>2, RunsKeepNumbers
  <2>4. Last(OutputsOf(item, n)).kind = "reply" /\ Last(OutputsOf(item, n)).symbol = item.symbol
    BY <1>1, <1>3, <1>12, <2>2, OutputsAre
  <2>5. /\ pushing'[w] = OutputsOf(item, n)
        /\ \A v \in Workers \ {w} : pushing'[v] = pushing[v]
        /\ \A s \in Symbols \ {item.symbol} : as_of'[s] = as_of[s]
    BY <1>1, <2>1 DEF LineTypeOK
  <2>6. HandOfWorker'
    <3> SUFFICES ASSUME NEW v \in Workers, pushing'[v] # <<>>
                 PROVE  LET x == Last(pushing'[v]) IN
                        /\ WorkerOf[x.symbol] = v
                        /\ x.kind = "snapshot" => Len(pushing'[v]) = 1 /\ x.seq = as_of'[x.symbol]
      BY DEF HandOfWorker
    <3>1. CASE v = w
      BY <1>3, <1>12, <2>4, <2>5, <3>1
    <3>2. CASE v # w
      <4>1. /\ WorkerOf[Last(pushing[v]).symbol] = v /\ pushing'[v] = pushing[v]
            /\ Last(pushing[v]).kind = "snapshot" =>
                 Len(pushing[v]) = 1 /\ Last(pushing[v]).seq = as_of[Last(pushing[v]).symbol]
        BY <2>5, <3>2 DEF SnapshotsInLine, HandOfWorker
      <4>2. Last(pushing[v]).symbol \in Symbols \ {item.symbol}
        BY <1>3, <1>9, <1>12, <2>5, <3>2, <4>1
      <4> QED  BY <2>5, <4>1, <4>2
    <3> QED  BY <3>1, <3>2
  <2> QED  BY <1>5, <1>6, <1>8, <2>3, <2>6 DEF SnapshotsInLine
<1> QED  BY <1>3, <1>10, <1>11, <1>12, KindsApart

LEMMA PushKeepsSnapshots ==
  ASSUME LineInv, SnapshotsInLine, NEW w \in Workers, WorkerPushes(w)
  PROVE  SnapshotsInLine'
<1> DEFINE p == pushing[w]
           x == Head(p)
<1>1. /\ p # <<>> /\ outbox' = Append(outbox, x)
      /\ pushing' = [pushing EXCEPT ![w] = Tail(p)]
      /\ UNCHANGED <<inbox, as_of, routing, last_seq>>
      /\ LineTypeOK /\ PushingInOrder
  BY DEF WorkerPushes, publisherVars, LineInv, EventsInOrder
<1>2. p \in Seq(FeedItem)
  BY DEF LineInv, LineTypeOK
<1>3. x \in FeedItem /\ x = p[1]
  BY <1>1, <1>2, Taken
<1>4. RequestOfWorker' /\ SnapshotIsNext'
  BY <1>1 DEF SnapshotsInLine, RequestOfWorker, SnapshotIsNext
<1>5. PICK k \in Nat : Len(p) = k + 1 /\ Len(Tail(p)) = k
  BY <1>1, <1>2, TakenPlaces
<1>6. ASSUME k # 0 PROVE Tail(p) # <<>> /\ Last(Tail(p)) = Last(p)
  <2>1. Len(p) - 1 # 0
    BY <1>5, <1>6
  <2> HIDE DEF p
  <2> QED  BY <1>1, <1>2, <2>1, LastOfTail
<1>7. k = 0 => Tail(p) = <<>> /\ x = Last(p)
  <2>1. Tail(p) \in Seq(FeedItem)
    BY <1>1, <1>2, Taken
  <2>2. k = 0 => Tail(p) = <<>>
    BY <1>5, <2>1, EmptySeq
  <2>3. k = 0 => Len(p) = 1
    BY <1>5
  <2> QED  BY <1>3, <2>2, <2>3 DEF Last
<1>8. /\ WorkerOf[Last(p).symbol] = w
      /\ Last(p).kind = "snapshot" => Len(p) = 1 /\ Last(p).seq = as_of[Last(p).symbol]
  BY <1>1 DEF SnapshotsInLine, HandOfWorker
<1>9. /\ pushing'[w] = Tail(p) /\ \A v \in Workers \ {w} : pushing'[v] = pushing[v]
  BY <1>1 DEF LineTypeOK
<1>10. HandOfWorker'
  <2> SUFFICES ASSUME NEW v \in Workers, pushing'[v] # <<>>
               PROVE  LET y == Last(pushing'[v]) IN
                      /\ WorkerOf[y.symbol] = v
                      /\ y.kind = "snapshot" => Len(pushing'[v]) = 1 /\ y.seq = as_of'[y.symbol]
    BY DEF HandOfWorker
  <2>1. CASE v = w
    <3>1. k # 0 /\ Last(pushing'[v]) = Last(p)
      BY <1>6, <1>7, <1>9, <2>1
    <3>2. Last(p).kind # "snapshot"
      BY <1>5, <1>8, <3>1
    <3> QED  BY <1>8, <2>1, <3>1, <3>2
  <2>2. CASE v # w
    BY <1>1, <1>9, <2>2 DEF SnapshotsInLine, HandOfWorker
  <2> QED  BY <2>1, <2>2
<1>11. k # 0 => x.kind = "event"
  <2> SUFFICES ASSUME k # 0 PROVE x.kind = "event"
    OBVIOUS
  <2>1. 1 \in 1 .. Len(p) - 1
    BY <1>5
  <2>2. \A i \in 1 .. Len(p) - 1 :
          p[i] = Event(Last(p).symbol, as_of[Last(p).symbol] - (Len(p) - 1) + i)
    BY <1>1 DEF PushingInOrder
  <2>3. p[1] = Event(Last(p).symbol, as_of[Last(p).symbol] - (Len(p) - 1) + 1)
    BY <2>1, <2>2
  <2> QED  BY <1>3, <2>3 DEF Event
<1>12. ASSUME NEW s \in Symbols PROVE SnapshotsPlaced(s)'
  <2>1. IsPut(x, s) /\ TakenOut(s)' = TakenOut(s)
    BY <1>1, PushPuts DEF TakenOut, IsRouting
  <2>2. ASSUME IsSnapshotOf(x, s) PROVE x.seq = PutOut(s)
    <3>1. k = 0 /\ x = Last(p)
      BY <1>7, <1>11, <2>2 DEF IsSnapshotOf
    <3>2. x.seq = as_of[s] /\ WorkerOf[s] = w
      BY <1>8, <2>2, <3>1 DEF IsSnapshotOf
    <3>3. ToPush(s) = 0
      BY <1>5, <3>1, <3>2 DEF ToPush
    <3>4. as_of[s] \in Nat
      BY <1>1 DEF LineTypeOK
    <3> QED  BY <3>2, <3>3, <3>4 DEF PutOut
  <2>3. x \in Output /\ OutboxInOrder(s) /\ SnapshotsPlaced(s)
    BY <1>3, KindsApart DEF LineInv, EventsInOrder, SnapshotsInLine
  <2> HIDE DEF x
  <2> QED  BY <1>1, <2>1, <2>2, <2>3, PlacedJoins
<1> QED  BY <1>4, <1>10, <1>12 DEF SnapshotsInLine

\* Elsewhere nothing is on its way.
LEMMA SnapshotsStay ==
  ASSUME SnapshotsInLine, UNCHANGED <<pushing, as_of, outbox, routing, last_seq>>,
         UNCHANGED inbox \/ RequestOfWorker'
  PROVE  SnapshotsInLine'
<1>1. \A s \in Symbols : PutOut(s)' = PutOut(s) /\ TakenOut(s)' = TakenOut(s)
  BY DEF PutOut, ToPush, TakenOut, IsRouting
<1>2. \A s \in Symbols : SnapshotsPlaced(s)'
  BY <1>1, PlacedStays DEF SnapshotsInLine
<1>3. HandOfWorker' /\ SnapshotIsNext'
  BY DEF SnapshotsInLine, HandOfWorker, SnapshotIsNext
<1>4. RequestOfWorker'
  BY DEF SnapshotsInLine, RequestOfWorker
<1> QED  BY <1>2, <1>3, <1>4 DEF SnapshotsInLine

LEMMA PopKeepsSnapshots ==
  ASSUME LineInv, SnapshotsInLine, PublisherPops
  PROVE  SnapshotsInLine'
<1>1. /\ routing = None /\ outbox # <<>> /\ routing' = Head(outbox) /\ outbox' = Tail(outbox)
      /\ UNCHANGED <<inbox, pushing, as_of, last_seq>>
      /\ LineTypeOK /\ outbox \in Seq(Output)
  BY DEF PublisherPops, publisherVars, workerVars, LineInv, LineTypeOK
<1>2. Head(outbox) \in Output /\ Head(outbox) = outbox[1]
  BY <1>1, Taken
<1>3. HandOfWorker' /\ RequestOfWorker'
  BY <1>1 DEF SnapshotsInLine, HandOfWorker, RequestOfWorker
<1>4. ASSUME NEW s \in Symbols
      PROVE  /\ PutOut(s)' = PutOut(s) /\ TakenOut(s) = last_seq[s]
             /\ TakenOut(s)' = IF EventAt(1, s) THEN TakenOut(s) + 1 ELSE TakenOut(s)
             /\ OutboxInOrder(s) /\ SnapshotsPlaced(s)
  <2>1. PutOut(s)' = PutOut(s) /\ TakenOut(s) = last_seq[s]
    BY <1>1 DEF PutOut, ToPush, TakenOut, IsRouting
  <2>2. IsRouting(s)' <=> EventAt(1, s)
    BY <1>1, <1>2, KindsApart DEF IsRouting, EventAt
  <2>3. TakenOut(s)' = IF EventAt(1, s) THEN TakenOut(s) + 1 ELSE TakenOut(s)
    BY <1>1, <2>1, <2>2 DEF TakenOut
  <2> QED  BY <2>1, <2>3 DEF LineInv, EventsInOrder, SnapshotsInLine
<1>5. \A s \in Symbols : SnapshotsPlaced(s)'
  BY <1>1, <1>4, PlacedLeaves
<1>6. SnapshotIsNext'
  <2> SUFFICES ASSUME outbox[1].kind = "snapshot" PROVE outbox[1].seq = last_seq[outbox[1].symbol]
    BY <1>1, <1>2 DEF SnapshotIsNext
  <2>1. PICK s \in Symbols : s = outbox[1].symbol
    BY <1>2 DEF Output, FeedItem, EventItem, SnapshotItem, ReplyItem, OutboxClosed
  <2> QED  BY <1>1, <1>4, <2>1, FirstIsCurrent DEF IsSnapshotOf
<1> QED  BY <1>3, <1>5, <1>6 DEF SnapshotsInLine

LEMMA RouteKeepsSnapshots ==
  ASSUME LineInv, SnapshotsInLine, PublisherRoutes
  PROVE  SnapshotsInLine'
<1>1. UNCHANGED <<inbox, pushing, as_of, outbox>> /\ LineTypeOK /\ routing # None
  BY DEF PublisherRoutes, workerVars, LineInv
<1>2. HandOfWorker' /\ RequestOfWorker'
  BY <1>1 DEF SnapshotsInLine, HandOfWorker, RequestOfWorker
<1>3. ASSUME NEW s \in Symbols PROVE PutOut(s)' = PutOut(s)
  BY <1>1 DEF PutOut, ToPush
<1>4. \/ routing' = None
      \/ UNCHANGED <<routing, last_seq>>
  BY DEF PublisherRoutes, Close
<1>5. SnapshotIsNext'
  BY <1>4 DEF SnapshotsInLine, SnapshotIsNext
<1>6. ASSUME NEW s \in Symbols PROVE TakenOut(s)' = TakenOut(s)
  <2>1. CASE RouteEvent(routing) /\ routing' = None
    <3>1. routing.kind = "event" /\ last_seq' = [last_seq EXCEPT ![routing.symbol] = routing.seq]
      BY <2>1 DEF RouteEvent
    <3>2. ~IsRouting(s)'
      BY <2>1 DEF IsRouting
    <3>3. CASE routing.symbol = s
      <4>1. IsRouting(s) /\ routing.seq = last_seq[s] + 1
        BY <1>1, <3>1, <3>3 DEF LineInv, EventsInOrder, RoutingIsNext, IsRouting
      <4>2. last_seq'[s] = last_seq[s] + 1
        BY <1>1, <3>1, <3>3, <4>1 DEF LineTypeOK
      <4> QED  BY <3>2, <4>1, <4>2 DEF TakenOut
    <3>4. CASE routing.symbol # s
      <4>1. ~IsRouting(s) /\ last_seq'[s] = last_seq[s]
        BY <1>1, <3>1, <3>4 DEF LineTypeOK, IsRouting
      <4> QED  BY <3>2, <4>1 DEF TakenOut
    <3> QED  BY <3>3, <3>4
  <2>2. CASE (RouteReply(routing) \/ RouteSnapshot(routing)) /\ routing' = None
    BY <2>2 DEF RouteReply, RouteSnapshot, TakenOut, IsRouting
  <2>3. CASE Close /\ UNCHANGED routing
    BY <2>3 DEF Close, TakenOut, IsRouting
  <2> QED  BY <2>1, <2>2, <2>3 DEF PublisherRoutes
<1>7. \A s \in Symbols : SnapshotsPlaced(s)'
  BY <1>1, <1>3, <1>6, PlacedStays DEF SnapshotsInLine
<1> QED  BY <1>2, <1>5, <1>7 DEF SnapshotsInLine

\* A new item joins the inbox of the worker of its symbol.
LEMMA SubmitKeepsRequests ==
  ASSUME LineTypeOK, RequestOfWorker, NEW w \in Workers, NEW item \in InboxItem, Submit(w, item),
         item.kind = "snapshot" => WorkerOf[item.symbol] = w
  PROVE  RequestOfWorker'
<1>1. inbox[w] \in Seq(InboxItem) /\ inbox' = [inbox EXCEPT ![w] = Append(inbox[w], item)]
  BY DEF LineTypeOK, Submit
<1>2. inbox'[w] = Append(inbox[w], item) /\ \A v \in Workers \ {w} : inbox'[v] = inbox[v]
  BY <1>1 DEF LineTypeOK
<1>3. \A i \in DOMAIN Append(inbox[w], item) :
        \/ Append(inbox[w], item)[i] = item
        \/ \E j \in DOMAIN inbox[w] : Append(inbox[w], item)[i] = inbox[w][j]
  BY <1>1, PartAppended
<1> SUFFICES ASSUME NEW v \in Workers, NEW i \in DOMAIN inbox'[v], inbox'[v][i].kind = "snapshot"
             PROVE  WorkerOf[inbox'[v][i].symbol] = v
  BY DEF RequestOfWorker
<1>4. (inbox'[v][i] = item /\ v = w) \/ \E j \in DOMAIN inbox[v] : inbox'[v][i] = inbox[v][j]
  BY <1>2, <1>3
<1> QED  BY <1>4 DEF RequestOfWorker

LEMMA CloseOutboxKeepsSnapshots ==
  ASSUME LineInv, SnapshotsInLine, CloseOutbox
  PROVE  SnapshotsInLine'
<1>1. /\ outbox' = Append(outbox, OutboxClosed) /\ LineTypeOK
      /\ UNCHANGED <<inbox, pushing, as_of, routing, last_seq>>
  BY DEF CloseOutbox, publisherVars, workerVars, LineInv
<1>2. HandOfWorker' /\ RequestOfWorker' /\ SnapshotIsNext'
  BY <1>1 DEF SnapshotsInLine, HandOfWorker, RequestOfWorker, SnapshotIsNext
<1>3. \A s \in Symbols : PutOut(s)' = PutOut(s) /\ TakenOut(s)' = TakenOut(s)
  BY <1>1 DEF PutOut, ToPush, TakenOut, IsRouting
<1>4. ASSUME NEW s \in Symbols PROVE SnapshotsPlaced(s)'
  <2>1. IsPut(OutboxClosed, s) /\ ~IsSnapshotOf(OutboxClosed, s) /\ OutboxClosed \in Output
    BY <1>3, KindsApart DEF IsPut, IsSnapshotOf
  <2>2. OutboxInOrder(s) /\ SnapshotsPlaced(s)
    BY DEF LineInv, EventsInOrder, SnapshotsInLine
  <2> QED  BY <1>1, <1>3, <2>1, <2>2, PlacedJoins
<1> QED  BY <1>2, <1>4 DEF SnapshotsInLine

LEMMA NextKeepsSnapshots == OrderInv /\ SnapshotsInLine /\ [Next]_vars => SnapshotsInLine'
<1> SUFFICES ASSUME OrderInv, SnapshotsInLine, [Next]_vars PROVE SnapshotsInLine'
  OBVIOUS
<1>1. LineInv /\ LineTypeOK /\ RequestOfWorker /\ StreamsOK /\ SnapshotsOK
  BY DEF OrderInv, LineInv, SnapshotsInLine, SeatsInv
<1>2. ASSUME NEW w \in Workers, WorkerStep(w) PROVE SnapshotsInLine'
  BY <1>1, <1>2, TakeKeepsSnapshots, PushKeepsSnapshots DEF WorkerStep
<1>3. CASE PublisherStep
  <2>1. CASE PublisherDrops
    BY <2>1, SnapshotsStay DEF PublisherDrops, DropSlow, workerVars
  <2> QED  BY <1>1, <1>3, <2>1, PopKeepsSnapshots, RouteKeepsSnapshots DEF PublisherStep
<1>4. ASSUME NEW r \in Streams, RequestSnapshot(r) PROVE SnapshotsInLine'
  <2>1. UNCHANGED <<pushing, as_of, outbox, routing, last_seq>>
    BY <1>4 DEF RequestSnapshot, publisherVars
  <2>2. CASE UNCHANGED inbox
    BY <2>1, <2>2, SnapshotsStay
  <2>3. CASE ~UNCHANGED inbox
    <3>1. PICK s \in stream[r].snapshots : Submit(WorkerOf[s], TakeSnapshot(s, stream[r].id))
      BY <1>4, <2>3 DEF RequestSnapshot
    <3>2. s \in Symbols /\ stream[r].id \in Nat /\ WorkerOf[s] \in Workers
      BY <1>1, EngineFeedAssumption DEF SnapshotsOK, StreamsOK, OrderInv, SeatsInv, RegistryInv, RegistryOK
    <3>3. /\ TakeSnapshot(s, stream[r].id) \in InboxItem
          /\ TakeSnapshot(s, stream[r].id).symbol = s
      BY <3>2, MadeItems DEF TakeSnapshot
    <3>4. RequestOfWorker'
      BY <1>1, <3>1, <3>2, <3>3, SubmitKeepsRequests
    <3> QED  BY <2>1, <3>4, SnapshotsStay
  <2> QED  BY <2>2, <2>3
<1>5. ASSUME NEW r \in Streams, HandlerStep(r) \/ Write(r) \/ ClientLeaves(r) PROVE SnapshotsInLine'
  <2>1. CASE ~RequestSnapshot(r)
    <3>1. UNCHANGED <<inbox, pushing, as_of, outbox, routing, last_seq>>
      BY <1>5, <2>1 DEF HandlerStep, CheckCancelled, NextFor, CheckEnded, WriteFails, LeaveStream, Write,
         ClientLeaves, unsubscribe, publisherVars, workerVars
    <3> QED  BY <3>1, SnapshotsStay
  <2> QED  BY <1>4, <2>1
<1>6. ASSUME NEW w \in Workers, StopWorker(w) PROVE SnapshotsInLine'
  <2>1. Submit(w, Shutdown) /\ UNCHANGED <<pushing, as_of, outbox, routing, last_seq>>
    BY <1>6 DEF StopWorker, publisherVars
  <2>2. Shutdown \in InboxItem /\ Shutdown.kind # "snapshot"
    BY KindsApart
  <2>3. RequestOfWorker'
    BY <1>1, <2>1, <2>2, SubmitKeepsRequests
  <2> QED  BY <2>1, <2>3, SnapshotsStay
<1>7. ASSUME NEW s \in Symbols, NEW gateway \in Gateways, FeedSubmits(s, gateway) PROVE SnapshotsInLine'
  <2> DEFINE item == Command(s, gateway, Len(commands) + 1)
  <2>1. Submit(WorkerOf[s], item) /\ UNCHANGED <<pushing, as_of, outbox, routing, last_seq>>
    BY <1>7 DEF FeedSubmits, publisherVars
  <2>2. Len(commands) + 1 \in Nat /\ WorkerOf[s] \in Workers
    BY <1>1, EngineFeedAssumption DEF LineTypeOK
  <2>3. item \in InboxItem /\ item.kind # "snapshot"
    BY <2>2, MadeItems
  <2> HIDE DEF item
  <2>4. RequestOfWorker'
    BY <1>1, <2>1, <2>2, <2>3, SubmitKeepsRequests
  <2> QED  BY <2>1, <2>4, SnapshotsStay
<1>8. CASE MainStep \/ FeedsStop
  <2>1. CASE StopServer \/ GraceOver \/ ServerStopped \/ FeedsStop
    <3>1. UNCHANGED <<inbox, pushing, as_of, outbox, routing, last_seq>>
      BY <2>1 DEF StopServer, GraceOver, ServerStopped, FeedsStop, publisherVars, workerVars
    <3> QED  BY <3>1, SnapshotsStay
  <2> QED  BY <1>1, <1>6, <1>8, <2>1, CloseOutboxKeepsSnapshots DEF MainStep
<1>9. CASE Environment
  <2>1. ASSUME NEW r \in Streams,
               \/ \E q \in MarketRequests : Subscribe(r, q)
               \/ \E gateway \in RepliesGateways : SubscribeReplies(r, gateway)
        PROVE  SnapshotsInLine'
    <3>1. UNCHANGED <<inbox, pushing, as_of, outbox, routing, last_seq>>
      BY <2>1 DEF Subscribe, SubscribeReplies, subscribe, subscribe_replies, Refused, publisherVars, workerVars
    <3> QED  BY <3>1, SnapshotsStay
  <2> QED  BY <1>5, <1>7, <1>8, <1>9, <2>1 DEF Environment
<1>10. CASE UNCHANGED vars
  <2>1. UNCHANGED <<inbox, pushing, as_of, outbox, routing, last_seq>>
    BY <1>10 DEF vars, publisherVars, workerVars
  <2> QED  BY <2>1, SnapshotsStay
<1> QED  BY <1>2, <1>3, <1>5, <1>8, <1>9, <1>10 DEF Next

-----------------------------------------------------------------------------
(* A reply keeps the number of its command *)

\* A worker that has run a command has its reply in hand, and no other.
LEMMA OutputsHold ==
  ASSUME LineTypeOK, NEW item \in InboxItem, item.kind = "command", NEW n \in Nat, NEW s, NEW c
  PROVE  /\ \A m : Holds(OutputsOf(item, n), s, m) <=> NumberIs(item, s, m)
         /\ Rising(OutputsOf(item, n), s)
         /\ IsCommandOf(item, c) => Known(OutputsOf(item, n), c)
<1> DEFINE p == OutputsOf(item, n)
           own == item.symbol
<1>1. /\ p \in Seq(FeedItem) /\ Len(p) = n + 1 /\ p # <<>>
      /\ Last(p) = Reply(own, item.gateway, item.number)
      /\ \A i \in 1 .. n : p[i] = Event(own, as_of[own] + i)
  BY OutputsAre
<1> HIDE DEF p, own
<1>2. DOMAIN p = 1 .. n + 1 /\ p[n + 1] = Reply(own, item.gateway, item.number)
  BY <1>1 DEF Last
<1>3. \A i \in 1 .. n + 1 : i = n + 1 \/ i \in 1 .. n
  OBVIOUS
<1>4. \A i \in DOMAIN p : i = n + 1 \/ p[i].kind = "event"
  <2>1. \A k : Event(own, k).kind = "event"
    BY DEF Event
  <2>2. \A i \in 1 .. n : p[i].kind = "event"
    BY <1>1, <2>1
  <2> QED  BY <1>2, <1>3, <2>2
<1>5. n + 1 \in DOMAIN p
  BY <1>2
<1>6. /\ p[n + 1].kind = "reply" /\ p[n + 1].symbol = own /\ p[n + 1].number = item.number
      /\ p[n + 1].gateway = item.gateway
  BY <1>2 DEF Reply
<1>7. ASSUME NEW m PROVE Holds(p, s, m) <=> NumberIs(item, s, m)
  BY <1>4, <1>5, <1>6 DEF Holds, NumberIs, CarriesFor, own
<1>8. Rising(p, s)
  BY <1>2, <1>4 DEF Rising, CarriesFor
<1>9. ASSUME IsCommandOf(item, c) PROVE Known(p, c)
  BY <1>4, <1>6, <1>9 DEF IsCommandOf, Known, own
<1> QED  BY <1>7, <1>8, <1>9 DEF p

LEMMA KnownAppended ==
  ASSUME NEW S, NEW q \in Seq(S), NEW x \in S, NEW c, Known(q, c), IsCommandOf(x, c)
  PROVE  Known(Append(q, x), c)
BY PartAppended DEF Known

LEMMA KnownTaken ==
  ASSUME NEW S, NEW q \in Seq(S), q # <<>>, NEW c, Known(q, c)
  PROVE  Known(Tail(q), c) /\ IsCommandOf(Head(q), c)
<1>1. 1 \in DOMAIN q /\ Head(q) = q[1]
  BY Taken
<1> QED  BY <1>1, PartTaken DEF Known

LEMMA NothingHeld ==
  ASSUME NEW s, NEW c
  PROVE  /\ \A n : ~Holds(<<>>, s, n)
         /\ Rising(<<>>, s) /\ Known(<<>>, c)
         /\ \A x, n : Holds(<<x>>, s, n) <=> NumberIs(x, s, n)
         /\ \A x : Rising(<<x>>, s) /\ (Known(<<x>>, c) <=> IsCommandOf(x, c))
BY DEF Holds, Rising, Known

\* No command gets on its way, and no reply arrives.
SameWay == \A s \in Symbols : \A n : OnTheWay(s, n)' <=> OnTheWay(s, n)

\* Elsewhere the commands and their replies stay where they are.
LEMMA RepliesStay ==
  ASSUME RepliesInLine, UNCHANGED <<inbox, pushing, outbox, routing, commands>>
  PROVE  RepliesInLine' /\ SameWay
<1>1. InHand' = InHand
  BY DEF InHand
<1>2. \A s : /\ \A n : OnTheWay(s, n)' <=> OnTheWay(s, n)
             /\ RepliesOrdered(s)' <=> RepliesOrdered(s)
  BY <1>1 DEF OnTheWay, RepliesOrdered, Before
<1>3. \A s \in Symbols : RepliesTogether(s)'
  BY <1>2 DEF RepliesInLine, RepliesTogether
<1> QED  BY <1>1, <1>2, <1>3 DEF RepliesInLine, SameWay

\* A number in a queue is the one of a command for the symbol.
LEMMA HeldKnown ==
  ASSUME NEW q, NEW c, Known(q, c), NEW s, NEW n, Holds(q, s, n)
  PROVE  n \in DOMAIN c /\ c[n].symbol = s
<1>1. PICK i \in DOMAIN q : NumberIs(q[i], s, n)
  BY DEF Holds
<1>2. q[i].kind \in {"command", "reply"} /\ q[i].symbol = s /\ q[i].number = n
  BY <1>1 DEF NumberIs, CarriesFor
<1>3. n \in DOMAIN c /\ c[n] = [symbol |-> s, gateway |-> q[i].gateway]
  BY <1>2 DEF Known, IsCommandOf
<1> QED  BY <1>3

LEMMA OnTheWayKnown ==
  ASSUME RepliesInLine, NEW s \in Symbols, NEW n, OnTheWay(s, n)
  PROVE  n \in DOMAIN commands /\ commands[n].symbol = s
<1>1. WorkerOf[s] \in Workers
  BY EngineFeedAssumption
<1>2. /\ Known(InHand, commands) /\ Known(outbox, commands)
      /\ Known(pushing[WorkerOf[s]], commands) /\ Known(inbox[WorkerOf[s]], commands)
  BY <1>1 DEF RepliesInLine
<1> QED  BY <1>2, HeldKnown DEF OnTheWay

\* What only moves on stays on the way.
LEMMA StillTogether ==
  ASSUME NEW s, RepliesTogether(s), UNCHANGED commands, \A n : OnTheWay(s, n)' <=> OnTheWay(s, n)
  PROVE  RepliesTogether(s)'
BY DEF RepliesTogether

\* A new item that is no command joins an inbox.
LEMMA RequestKeepsReplies ==
  ASSUME LineTypeOK, RepliesInLine, NEW w \in Workers, NEW item \in InboxItem, Submit(w, item),
         item.kind # "command", UNCHANGED <<pushing, outbox, routing, commands>>
  PROVE  RepliesInLine' /\ SameWay
<1>1. inbox[w] \in Seq(InboxItem) /\ inbox' = [inbox EXCEPT ![w] = Append(inbox[w], item)]
  BY DEF LineTypeOK, Submit
<1>2. inbox'[w] = Append(inbox[w], item) /\ \A v \in Workers \ {w} : inbox'[v] = inbox[v]
  BY <1>1 DEF LineTypeOK
<1>3. item.kind \notin {"command", "reply"}
  BY KindsApart
<1>4. \A s, n : ~CarriesFor(item, s) /\ ~NumberIs(item, s, n)
  BY <1>3 DEF NumberIs, CarriesFor
<1>5. \A v \in Workers : \A s, n : Holds(inbox'[v], s, n) <=> Holds(inbox[v], s, n)
  BY <1>1, <1>2, <1>4, HoldsAppended
<1>6. \A v \in Workers : \A s : Rising(inbox[v], s) => Rising(inbox'[v], s)
  BY <1>1, <1>2, <1>4, RisingAppended
<1>7. \A v \in Workers : Known(inbox'[v], commands)
  <2>1. IsCommandOf(item, commands)
    BY <1>3 DEF IsCommandOf
  <2>2. Known(inbox'[w], commands)
    BY <1>1, <1>2, <2>1, KnownAppended DEF RepliesInLine
  <2> QED  BY <1>2, <2>2 DEF RepliesInLine
<1>8. InHand' = InHand
  BY DEF InHand
<1>9. ASSUME NEW s \in Symbols
      PROVE  RepliesOrdered(s)' /\ RepliesTogether(s)' /\ \A n : OnTheWay(s, n)' <=> OnTheWay(s, n)
  <2>1. WorkerOf[s] \in Workers /\ RepliesOrdered(s) /\ RepliesTogether(s)
    BY EngineFeedAssumption DEF RepliesInLine
  <2>2. RepliesOrdered(s)'
    BY <1>5, <1>6, <1>8, <2>1 DEF RepliesOrdered, Before
  <2>3. \A n : OnTheWay(s, n)' <=> OnTheWay(s, n)
    BY <1>5, <1>8, <2>1 DEF OnTheWay
  <2> QED  BY <2>1, <2>2, <2>3, StillTogether
<1> QED  BY <1>7, <1>8, <1>9 DEF RepliesInLine, SameWay

\* A new command is the last one, and joins the inbox of its worker.
LEMMA CommandKeepsReplies ==
  ASSUME LineTypeOK, RepliesInLine, NEW s \in Symbols, NEW gateway \in Gateways,
         FeedSubmits(s, gateway)
  PROVE  /\ RepliesInLine'
         /\ \A x \in Symbols : \A n :
              OnTheWay(x, n)' <=> OnTheWay(x, n) \/ (x = s /\ n = Len(commands) + 1)
<1> DEFINE w == WorkerOf[s]
<1>0. PICK last, item : last = Len(commands) + 1 /\ item = Command(s, gateway, last)
  OBVIOUS
<1>1. /\ commands \in Seq([symbol : Symbols, gateway : Gateways])
      /\ commands' = Append(commands, [symbol |-> s, gateway |-> gateway])
      /\ UNCHANGED <<pushing, outbox, routing>>
      /\ Submit(w, item)
  BY <1>0 DEF FeedSubmits, LineTypeOK
<1>2. /\ last \in Nat /\ DOMAIN commands = 1 .. Len(commands) /\ DOMAIN commands' = 1 .. last
      /\ \A n \in 1 .. Len(commands) : commands'[n] = commands[n]
      /\ commands'[last] = [symbol |-> s, gateway |-> gateway]
      /\ Len(commands) \in Nat
  BY <1>0, <1>1
<1>3. w \in Workers /\ item \in InboxItem
  BY <1>0, <1>2, MadeItems, EngineFeedAssumption
<1>4. inbox[w] \in Seq(InboxItem) /\ inbox' = [inbox EXCEPT ![w] = Append(inbox[w], item)]
  BY <1>1, <1>3 DEF LineTypeOK, Submit
<1>5. inbox'[w] = Append(inbox[w], item) /\ \A v \in Workers \ {w} : inbox'[v] = inbox[v]
  BY <1>3, <1>4 DEF LineTypeOK
<1>6. \A x, n : NumberIs(item, x, n) <=> x = s /\ n = last
  BY <1>0 DEF Command, NumberIs, CarriesFor
<1>7. \A x : CarriesFor(item, x) => item.number = last /\ x = s
  BY <1>0 DEF Command, CarriesFor
<1>8. item.number = last /\ item.symbol = s /\ item.gateway = gateway
  BY <1>0 DEF Command
<1>9. \A n \in DOMAIN commands : n \in DOMAIN commands' /\ commands'[n] = commands[n] /\ n < last /\ n \in Nat
  BY <1>0, <1>2
<1>10. \A n \in DOMAIN commands' : n = last \/ n \in DOMAIN commands
  BY <1>0, <1>2
<1> HIDE DEF w
<1>11. \A q : Known(q, commands) => Known(q, commands')
  BY <1>9 DEF IsCommandOf, Known
<1>12. IsCommandOf(item, commands')
  <2>1. last \in 1 .. last
    BY <1>0, <1>2
  <2> QED  BY <1>2, <1>8, <2>1, Zenon DEF IsCommandOf
<1>13. InHand' = InHand
  BY <1>1 DEF InHand
<1>14. \A v \in Workers : Known(inbox'[v], commands') /\ Known(pushing'[v], commands')
  <2>1. Known(inbox[w], commands')
    BY <1>3, <1>11 DEF RepliesInLine
  <2>2. Known(inbox'[w], commands')
    BY <1>3, <1>4, <1>5, <1>12, <2>1, KnownAppended
  <2> QED  BY <1>1, <1>5, <1>11, <2>2 DEF RepliesInLine
<1>15. Known(outbox', commands') /\ Known(InHand', commands')
  BY <1>1, <1>11, <1>13 DEF RepliesInLine
<1>16. ASSUME NEW x \in Symbols
       PROVE  /\ RepliesOrdered(x)' /\ RepliesTogether(x)'
              /\ \A n : OnTheWay(x, n)' <=> OnTheWay(x, n) \/ (x = s /\ n = last)
  <2>1. WorkerOf[x] \in Workers /\ RepliesOrdered(x) /\ RepliesTogether(x)
    BY EngineFeedAssumption DEF RepliesInLine
  <2>2. \A n : OnTheWay(x, n) => n \in DOMAIN commands /\ n < last /\ n \in Nat
    BY <1>9, OnTheWayKnown
  <2>3. CASE x # s
    <3>1. \A n : Holds(inbox'[WorkerOf[x]], x, n) <=> Holds(inbox[WorkerOf[x]], x, n)
      BY <1>4, <1>5, <1>3, <1>6, <2>1, <2>3, HoldsAppended
    <3>2. Rising(inbox'[WorkerOf[x]], x)
      BY <1>4, <1>5, <1>3, <1>7, <2>1, <2>3, RisingAppended DEF RepliesOrdered
    <3>3. RepliesOrdered(x)'
      BY <1>1, <1>13, <2>1, <3>1, <3>2 DEF RepliesOrdered, Before
    <3>4. \A n : OnTheWay(x, n)' <=> OnTheWay(x, n)
      BY <1>1, <1>13, <3>1 DEF OnTheWay
    <3>5. RepliesTogether(x)'
      BY <1>2, <1>9, <1>10, <2>1, <2>3, <3>4 DEF RepliesTogether
    <3> QED  BY <2>3, <3>3, <3>4, <3>5
  <2>4. CASE x = s
    <3>1. \A n : Holds(inbox'[w], x, n) <=> Holds(inbox[w], x, n) \/ n = last
      BY <1>4, <1>5, <1>3, <1>6, <2>4, HoldsAppended
    <3>2. WorkerOf[x] = w
      BY <2>4 DEF w
    <3>3. Rising(inbox'[w], x)
      <4>1. \A n : Holds(inbox[w], x, n) => n < item.number
        BY <1>8, <2>2, <3>2 DEF OnTheWay
      <4>2. Rising(inbox[w], x)
        BY <2>1, <3>2 DEF RepliesOrdered
      <4> QED  BY <1>3, <1>4, <1>5, <4>1, <4>2, RisingAppended
    <3>4. RepliesOrdered(x)'
      BY <1>1, <1>13, <2>1, <2>2, <3>1, <3>2, <3>3 DEF RepliesOrdered, Before, OnTheWay
    <3>5. \A n : OnTheWay(x, n)' <=> OnTheWay(x, n) \/ n = last
      BY <1>1, <1>13, <3>1, <3>2 DEF OnTheWay
    <3>6. RepliesTogether(x)'
      <4> SUFFICES ASSUME NEW m, NEW n \in DOMAIN commands',
                          OnTheWay(x, m)', m < n, commands'[n].symbol = x
                   PROVE  OnTheWay(x, n)'
        BY DEF RepliesTogether
      <4>1. CASE n = last
        BY <3>5, <4>1
      <4>2. CASE n # last
        <5>1. n \in DOMAIN commands /\ n < last /\ n \in Nat /\ commands[n].symbol = x
          BY <1>9, <1>10, <4>2
        <5>2. m # last
          BY <1>2, <5>1
        <5>3. OnTheWay(x, m)
          BY <3>5, <5>2
        <5> QED  BY <2>1, <3>5, <5>1, <5>3 DEF RepliesTogether
      <4> QED  BY <4>1, <4>2
    <3> QED  BY <2>4, <3>4, <3>5, <3>6
  <2> QED  BY <2>3, <2>4
<1> QED  BY <1>0, <1>14, <1>15, <1>16 DEF RepliesInLine

\* A worker takes a command, and holds the reply to it.
LEMMA TakeKeepsReplies ==
  ASSUME LineTypeOK, RepliesInLine, NEW w \in Workers, WorkerTakes(w)
  PROVE  RepliesInLine' /\ SameWay
<1>0. PICK item : item = Head(inbox[w])
  OBVIOUS
<1>1. /\ pushing[w] = <<>> /\ inbox[w] # <<>> /\ inbox[w] \in Seq(InboxItem)
      /\ inbox' = [inbox EXCEPT ![w] = Tail(inbox[w])]
      /\ UNCHANGED <<outbox, routing, commands>>
  BY DEF WorkerTakes, LineTypeOK
<1>2. item \in InboxItem /\ Tail(inbox[w]) \in Seq(InboxItem)
  BY <1>0, <1>1, Taken
<1>3. inbox'[w] = Tail(inbox[w]) /\ \A v \in Workers \ {w} : inbox'[v] = inbox[v]
  BY <1>1 DEF LineTypeOK
<1>4. /\ Known(inbox[w], commands) /\ IsCommandOf(item, commands)
      /\ Known(inbox'[w], commands)
  BY <1>0, <1>1, <1>3, KnownTaken DEF RepliesInLine
<1>5. /\ \A s, n : Holds(pushing'[w], s, n) <=> NumberIs(item, s, n)
      /\ \A s : Rising(pushing'[w], s)
      /\ Known(pushing'[w], commands)
      /\ \A v \in Workers \ {w} : pushing'[v] = pushing[v]
  <2>1. CASE item.kind = "shutdown"
    <3>1. UNCHANGED pushing
      BY <1>0, <2>1 DEF WorkerTakes
    <3>2. \A s, n : ~NumberIs(item, s, n)
      BY <2>1 DEF NumberIs, CarriesFor
    <3> QED  BY <1>1, <3>1, <3>2, NothingHeld
  <2>2. CASE item.kind = "snapshot"
    <3>1. PICK x : /\ x = SnapshotReady(item.symbol, as_of[item.symbol], item.subscriber)
                   /\ pushing' = [pushing EXCEPT ![w] = <<x>>]
      BY <1>0, <2>2 DEF WorkerTakes
    <3>2. pushing'[w] = <<x>> /\ \A v \in Workers \ {w} : pushing'[v] = pushing[v]
      BY <3>1 DEF LineTypeOK
    <3>3. \A s, n : ~NumberIs(item, s, n) /\ ~NumberIs(x, s, n)
      BY <2>2, <3>1 DEF NumberIs, CarriesFor, SnapshotReady
    <3>4. IsCommandOf(x, commands)
      BY <3>1 DEF IsCommandOf, SnapshotReady
    <3> QED  BY <3>2, <3>3, <3>4, NothingHeld
  <2>3. CASE item.kind = "command"
    <3>1. PICK n \in 0 .. MaxEvents : pushing' = [pushing EXCEPT ![w] = OutputsOf(item, n)]
      BY <1>0, <2>3 DEF WorkerTakes
    <3>2. /\ pushing'[w] = OutputsOf(item, n)
          /\ \A v \in Workers \ {w} : pushing'[v] = pushing[v]
      BY <3>1 DEF LineTypeOK
    <3>3. n \in Nat
      BY EngineFeedAssumption
    <3> QED  BY <1>2, <1>4, <2>3, <3>2, <3>3, OutputsHold
  <2> QED  BY <1>2, <2>1, <2>2, <2>3, KindsApart
<1>6. InHand' = InHand
  BY <1>1 DEF InHand
<1>7. ASSUME NEW s \in Symbols
      PROVE  RepliesOrdered(s)' /\ RepliesTogether(s)' /\ \A n : OnTheWay(s, n)' <=> OnTheWay(s, n)
  <2>1. WorkerOf[s] \in Workers /\ RepliesOrdered(s) /\ RepliesTogether(s)
    BY EngineFeedAssumption DEF RepliesInLine
  <2>2. CASE WorkerOf[s] # w
    <3>1. UNCHANGED <<inbox[WorkerOf[s]], pushing[WorkerOf[s]]>>
      BY <1>3, <1>5, <2>1, <2>2
    <3>2. RepliesOrdered(s)'
      BY <1>1, <1>6, <2>1, <3>1 DEF RepliesOrdered, Before
    <3>3. \A n : OnTheWay(s, n)' <=> OnTheWay(s, n)
      BY <1>1, <1>6, <3>1 DEF OnTheWay
    <3> QED  BY <1>1, <2>1, <3>2, <3>3, StillTogether
  <2>3. CASE WorkerOf[s] = w
    <3>1. \A n : Holds(inbox[w], s, n) <=> Holds(pushing'[w], s, n) \/ Holds(inbox'[w], s, n)
      BY <1>0, <1>1, <1>3, <1>5, HoldsTaken
    <3>2. /\ Rising(inbox'[w], s) /\ Rising(pushing'[w], s)
          /\ \A m, n : Holds(pushing'[w], s, m) /\ Holds(inbox'[w], s, n) => m < n
      BY <1>0, <1>1, <1>3, <1>5, <2>1, <2>3, RisingTaken DEF RepliesOrdered
    <3>3. \A n : ~Holds(pushing[w], s, n)
      BY <1>1, NothingHeld
    <3>4. RepliesOrdered(s)'
      BY <1>1, <1>6, <2>1, <2>3, <3>1, <3>2 DEF RepliesOrdered, Before
    <3>5. \A n : OnTheWay(s, n)' <=> OnTheWay(s, n)
      BY <1>1, <1>6, <2>3, <3>1, <3>3 DEF OnTheWay
    <3> QED  BY <1>1, <2>1, <3>4, <3>5, StillTogether
  <2> QED  BY <2>2, <2>3
<1>8. \A v \in Workers : Known(inbox'[v], commands') /\ Known(pushing'[v], commands')
  BY <1>1, <1>3, <1>4, <1>5 DEF RepliesInLine
<1>9. Known(outbox', commands') /\ Known(InHand', commands')
  BY <1>1, <1>6 DEF RepliesInLine
<1> QED  BY <1>7, <1>8, <1>9 DEF RepliesInLine, SameWay

\* A worker puts a reply in the outbox: it is of a symbol of its own.
LEMMA PushKeepsReplies ==
  ASSUME LineTypeOK, PushingInOrder, HandOfWorker, RepliesInLine, NEW w \in Workers, WorkerPushes(w)
  PROVE  RepliesInLine' /\ SameWay
<1>0. PICK x : x = Head(pushing[w])
  OBVIOUS
<1>1. /\ pushing[w] # <<>> /\ pushing[w] \in Seq(FeedItem)
      /\ outbox' = Append(outbox, x) /\ outbox \in Seq(Output)
      /\ pushing' = [pushing EXCEPT ![w] = Tail(pushing[w])]
      /\ UNCHANGED <<inbox, routing, commands>>
  BY <1>0 DEF WorkerPushes, LineTypeOK
<1>2. x \in FeedItem /\ x \in Output
  BY <1>0, <1>1, Taken, KindsApart
<1>3. pushing'[w] = Tail(pushing[w]) /\ \A v \in Workers \ {w} : pushing'[v] = pushing[v]
  BY <1>1 DEF LineTypeOK
<1>4. /\ IsCommandOf(x, commands)
      /\ Known(pushing'[w], commands)
      /\ Known(outbox', commands)
  <2>1. Known(pushing[w], commands) /\ Known(outbox, commands)
    BY DEF RepliesInLine
  <2>2. IsCommandOf(x, commands) /\ Known(pushing'[w], commands)
    BY <1>0, <1>1, <1>3, <2>1, KnownTaken
  <2> QED  BY <1>1, <1>2, <2>1, <2>2, KnownAppended
<1>5. x.kind = "reply" => WorkerOf[x.symbol] = w
  <2>1. PICK k \in Nat : /\ Len(pushing[w]) = k + 1 /\ DOMAIN pushing[w] = 1 .. k + 1 /\ x = pushing[w][1]
    BY <1>0, <1>1, TakenPlaces
  <2>2. CASE k = 0
    <3>1. x = Last(pushing[w])
      BY <2>1, <2>2 DEF Last
    <3> QED  BY <1>1, <3>1 DEF HandOfWorker
  <2>3. CASE k # 0
    <3>1. 1 \in 1 .. Len(pushing[w]) - 1
      BY <2>1, <2>3
    <3>2. pushing[w][1] = Event(Last(pushing[w]).symbol, as_of[Last(pushing[w]).symbol] - (Len(pushing[w]) - 1) + 1)
      BY <1>1, <3>1 DEF PushingInOrder
    <3> QED  BY <2>1, <3>2 DEF Event
  <2> QED  BY <2>2, <2>3
<1>6. InHand' = InHand
  BY <1>1 DEF InHand
<1>7. ASSUME NEW s \in Symbols
      PROVE  RepliesOrdered(s)' /\ RepliesTogether(s)' /\ \A n : OnTheWay(s, n)' <=> OnTheWay(s, n)
  <2>1. WorkerOf[s] \in Workers /\ RepliesOrdered(s) /\ RepliesTogether(s)
    BY EngineFeedAssumption DEF RepliesInLine
  <2>2. \A n : Holds(outbox', s, n) <=> Holds(outbox, s, n) \/ NumberIs(x, s, n)
    BY <1>1, <1>2, HoldsAppended
  <2>3. CASE WorkerOf[s] # w
    <3>1. UNCHANGED <<inbox[WorkerOf[s]], pushing[WorkerOf[s]]>>
      BY <1>1, <1>3, <2>1, <2>3
    <3>2. \A n : ~NumberIs(x, s, n) /\ ~CarriesFor(x, s)
      BY <1>2, <1>5, <2>3, KindsApart DEF NumberIs, CarriesFor
    <3>3. Rising(outbox', s)
      BY <1>1, <1>2, <2>1, <3>2, RisingAppended DEF RepliesOrdered
    <3>4. RepliesOrdered(s)'
      BY <1>6, <2>1, <2>2, <3>1, <3>2, <3>3 DEF RepliesOrdered, Before
    <3>5. \A n : OnTheWay(s, n)' <=> OnTheWay(s, n)
      BY <1>6, <2>2, <3>1, <3>2 DEF OnTheWay
    <3> QED  BY <1>1, <2>1, <3>4, <3>5, StillTogether
  <2>4. CASE WorkerOf[s] = w
    <3>1. \A n : Holds(pushing[w], s, n) <=> NumberIs(x, s, n) \/ Holds(pushing'[w], s, n)
      BY <1>0, <1>1, <1>3, HoldsTaken
    <3>2. /\ Rising(pushing'[w], s)
          /\ \A m, n : NumberIs(x, s, m) /\ Holds(pushing'[w], s, n) => m < n
      BY <1>0, <1>1, <1>3, <2>1, <2>4, RisingTaken DEF RepliesOrdered
    <3>3. Rising(outbox', s)
      <4>1. ASSUME NEW n, Holds(outbox, s, n), CarriesFor(x, s) PROVE n < x.number
        <5>1. Holds(pushing[w], s, x.number)
          BY <3>1, <4>1 DEF NumberIs
        <5> QED  BY <2>1, <2>4, <4>1, <5>1 DEF RepliesOrdered, Before
      <4>2. Rising(outbox, s)
        BY <2>1 DEF RepliesOrdered
      <4> QED  BY <1>1, <1>2, <4>1, <4>2, RisingAppended
    <3>4. RepliesOrdered(s)'
      BY <1>1, <1>6, <2>1, <2>2, <2>4, <3>1, <3>2, <3>3 DEF RepliesOrdered, Before
    <3>5. \A n : OnTheWay(s, n)' <=> OnTheWay(s, n)
      BY <1>1, <1>6, <2>2, <2>4, <3>1 DEF OnTheWay
    <3> QED  BY <1>1, <2>1, <3>4, <3>5, StillTogether
  <2> QED  BY <2>3, <2>4
<1>8. \A v \in Workers : Known(inbox'[v], commands') /\ Known(pushing'[v], commands')
  BY <1>1, <1>3, <1>4 DEF RepliesInLine
<1>9. Known(outbox', commands') /\ Known(InHand', commands')
  BY <1>1, <1>4, <1>6 DEF RepliesInLine
<1> QED  BY <1>7, <1>8, <1>9 DEF RepliesInLine, SameWay

\* The publisher takes the first output in hand.
LEMMA PopKeepsReplies ==
  ASSUME LineTypeOK, RepliesInLine, PublisherPops
  PROVE  RepliesInLine' /\ SameWay
<1>0. PICK x : x = Head(outbox)
  OBVIOUS
<1>1. /\ routing = None /\ outbox # <<>> /\ routing' = x /\ outbox' = Tail(outbox)
      /\ UNCHANGED <<inbox, pushing, commands>>
      /\ outbox \in Seq(Output)
  BY <1>0 DEF PublisherPops, workerVars, LineTypeOK
<1>2. InHand = <<>>
  BY <1>1 DEF InHand
<1>3. Known(outbox', commands) /\ IsCommandOf(x, commands)
  BY <1>0, <1>1, KnownTaken DEF RepliesInLine
<1>4. /\ \A s, n : Holds(InHand', s, n) <=> NumberIs(x, s, n)
      /\ Known(InHand', commands)
  <2>1. CASE x = None
    <3>1. x \in Output /\ x \notin FeedItem
      BY <1>0, <1>1, <2>1, Taken, PublisherAssumption DEF FeedItem, EventItem, SnapshotItem, ReplyItem
    <3>2. x = OutboxClosed
      BY <3>1 DEF Output
    <3>3. \A s, n : ~NumberIs(x, s, n)
      BY <3>2 DEF NumberIs, CarriesFor, OutboxClosed
    <3>4. InHand' = <<>>
      BY <1>1, <2>1 DEF InHand
    <3> QED  BY <3>3, <3>4, NothingHeld
  <2>2. CASE x # None
    <3>1. InHand' = <<x>>
      BY <1>1, <2>2 DEF InHand
    <3> QED  BY <1>3, <3>1, NothingHeld
  <2> QED  BY <2>1, <2>2
<1>5. ASSUME NEW s \in Symbols
      PROVE  RepliesOrdered(s)' /\ RepliesTogether(s)' /\ \A n : OnTheWay(s, n)' <=> OnTheWay(s, n)
  <2>1. RepliesOrdered(s) /\ RepliesTogether(s)
    BY DEF RepliesInLine
  <2>2. \A n : Holds(outbox, s, n) <=> Holds(InHand', s, n) \/ Holds(outbox', s, n)
    BY <1>0, <1>1, <1>4, HoldsTaken
  <2>3. /\ Rising(outbox', s)
        /\ \A m, n : Holds(InHand', s, m) /\ Holds(outbox', s, n) => m < n
    BY <1>0, <1>1, <1>4, <2>1, RisingTaken DEF RepliesOrdered
  <2>4. \A n : ~Holds(InHand, s, n)
    BY <1>2, NothingHeld
  <2>5. RepliesOrdered(s)'
    BY <1>1, <2>1, <2>2, <2>3 DEF RepliesOrdered, Before
  <2>6. \A n : OnTheWay(s, n)' <=> OnTheWay(s, n)
    BY <1>1, <2>2, <2>4 DEF OnTheWay
  <2> QED  BY <1>1, <2>1, <2>5, <2>6, StillTogether
<1> QED  BY <1>1, <1>3, <1>4, <1>5 DEF RepliesInLine, SameWay

\* The reply in hand is the first of those on their way, and goes to its queue.
LEMMA RouteKeepsReplies ==
  ASSUME LineTypeOK, RepliesInLine, UNCHANGED <<inbox, pushing, outbox, commands>>, routing' = None
  PROVE  /\ RepliesInLine'
         /\ \A s, n : OnTheWay(s, n) <=> (NumberIs(routing, s, n) /\ routing # None) \/ OnTheWay(s, n)'
<1>1. InHand' = <<>>
  BY DEF InHand
<1>2. \A s, n : /\ ~Holds(InHand', s, n)
                /\ Holds(InHand, s, n) <=> NumberIs(routing, s, n) /\ routing # None
  BY <1>1, NothingHeld DEF InHand
<1>3. Known(InHand', commands)
  BY <1>1, NothingHeld
<1>4. \A s, n : OnTheWay(s, n) <=> Holds(InHand, s, n) \/ OnTheWay(s, n)'
  BY <1>2 DEF OnTheWay
<1>5. ASSUME NEW s \in Symbols PROVE RepliesOrdered(s)' /\ RepliesTogether(s)'
  <2>1. RepliesOrdered(s) /\ RepliesTogether(s)
    BY DEF RepliesInLine
  <2>2. RepliesOrdered(s)'
    BY <1>2, <2>1 DEF RepliesOrdered, Before
  <2>3. \A m, n : Holds(InHand, s, m) /\ OnTheWay(s, n)' => m < n
    BY <1>2, <2>1 DEF RepliesOrdered, Before, OnTheWay
  <2>4. RepliesTogether(s)'
    <3> SUFFICES ASSUME NEW m, NEW n \in DOMAIN commands,
                        OnTheWay(s, m)', m < n, commands[n].symbol = s
                 PROVE  OnTheWay(s, n)'
      BY DEF RepliesTogether
    <3>1. OnTheWay(s, m) /\ OnTheWay(s, n)
      BY <1>4, <2>1 DEF RepliesTogether
    <3>2. Holds(InHand, s, n) => n < m
      BY <2>3
    <3>3. m \in Nat /\ n \in Nat
      <4>1. m \in DOMAIN commands
        BY <3>1, OnTheWayKnown
      <4>2. PICK k \in Nat : DOMAIN commands = 1 .. k
        <5>1. commands \in Seq([symbol : Symbols, gateway : Gateways])
          BY DEF LineTypeOK
        <5> QED  BY <5>1, Len(commands) \in Nat
      <4> QED  BY <4>1, <4>2
    <3>4. ~Holds(InHand, s, n)
      BY <3>2, <3>3
    <3> QED  BY <1>4, <3>1, <3>4
  <2> QED  BY <2>2, <2>4
<1>6. \A s, n : OnTheWay(s, n) <=> (NumberIs(routing, s, n) /\ routing # None) \/ OnTheWay(s, n)'
  BY <1>2, <1>4
<1>7. RepliesInLine'
  BY <1>3, <1>5 DEF RepliesInLine
<1> QED  BY <1>6, <1>7

LEMMA CloseOutboxKeepsReplies ==
  ASSUME LineTypeOK, RepliesInLine, CloseOutbox
  PROVE  RepliesInLine' /\ SameWay
<1>1. /\ outbox' = Append(outbox, OutboxClosed) /\ outbox \in Seq(Output) /\ OutboxClosed \in Output
      /\ UNCHANGED <<inbox, pushing, routing, commands>>
  BY KindsApart DEF CloseOutbox, workerVars, LineTypeOK
<1>2. \A s, n : ~NumberIs(OutboxClosed, s, n) /\ ~CarriesFor(OutboxClosed, s)
  BY DEF NumberIs, CarriesFor, OutboxClosed
<1>3. \A s, n : Holds(outbox', s, n) <=> Holds(outbox, s, n)
  BY <1>1, <1>2, HoldsAppended
<1>4. \A s : Rising(outbox, s) => Rising(outbox', s)
  BY <1>1, <1>2, RisingAppended
<1>5. Known(outbox', commands)
  <2>1. IsCommandOf(OutboxClosed, commands)
    BY DEF IsCommandOf, OutboxClosed
  <2> QED  BY <1>1, <2>1, KnownAppended DEF RepliesInLine
<1>6. InHand' = InHand
  BY <1>1 DEF InHand
<1>7. ASSUME NEW s \in Symbols
      PROVE  RepliesOrdered(s)' /\ RepliesTogether(s)' /\ \A n : OnTheWay(s, n)' <=> OnTheWay(s, n)
  <2>1. RepliesOrdered(s) /\ RepliesTogether(s)
    BY DEF RepliesInLine
  <2>2. RepliesOrdered(s)'
    BY <1>1, <1>3, <1>4, <1>6, <2>1 DEF RepliesOrdered, Before
  <2>3. \A n : OnTheWay(s, n)' <=> OnTheWay(s, n)
    BY <1>1, <1>3, <1>6 DEF OnTheWay
  <2> QED  BY <1>1, <2>1, <2>2, <2>3, StillTogether
<1> QED  BY <1>1, <1>5, <1>6, <1>7 DEF RepliesInLine, SameWay

\* What is no new command and no output routed leaves the replies on their way.
LEMMA OthersKeepReplies ==
  ASSUME OrderInv, SnapshotsInLine, RepliesInLine, [Next]_vars, ~PublisherRoutes,
         ~ \E s \in Symbols, gateway \in Gateways : FeedSubmits(s, gateway)
  PROVE  RepliesInLine' /\ SameWay
<1>1. LineTypeOK /\ PushingInOrder /\ HandOfWorker /\ StreamsOK /\ SnapshotsOK
  BY DEF OrderInv, LineInv, EventsInOrder, SnapshotsInLine, SeatsInv
<1>2. ASSUME NEW w \in Workers, WorkerStep(w) PROVE RepliesInLine' /\ SameWay
  BY <1>1, <1>2, TakeKeepsReplies, PushKeepsReplies DEF WorkerStep
<1>3. CASE PublisherStep
  <2>1. CASE PublisherDrops
    BY <2>1, RepliesStay DEF PublisherDrops, workerVars
  <2> QED  BY <1>1, <1>3, <2>1, PopKeepsReplies DEF PublisherStep
<1>4. ASSUME NEW r \in Streams, RequestSnapshot(r) PROVE RepliesInLine' /\ SameWay
  <2>1. UNCHANGED <<pushing, outbox, routing, commands>>
    BY <1>4 DEF RequestSnapshot
  <2>2. CASE UNCHANGED inbox
    BY <2>1, <2>2, RepliesStay
  <2>3. CASE ~UNCHANGED inbox
    <3>1. PICK s \in stream[r].snapshots : Submit(WorkerOf[s], TakeSnapshot(s, stream[r].id))
      BY <1>4, <2>3 DEF RequestSnapshot
    <3>2. s \in Symbols /\ stream[r].id \in Nat /\ WorkerOf[s] \in Workers
      BY <1>1, EngineFeedAssumption DEF SnapshotsOK, StreamsOK, OrderInv, SeatsInv, RegistryInv, RegistryOK
    <3>3. /\ TakeSnapshot(s, stream[r].id) \in InboxItem
          /\ TakeSnapshot(s, stream[r].id).kind # "command"
      BY <3>2, MadeItems
    <3> QED  BY <1>1, <2>1, <3>1, <3>2, <3>3, RequestKeepsReplies
  <2> QED  BY <2>2, <2>3
<1>5. ASSUME NEW r \in Streams, HandlerStep(r) \/ Write(r) \/ ClientLeaves(r)
      PROVE  RepliesInLine' /\ SameWay
  <2>1. CASE ~RequestSnapshot(r)
    <3>1. UNCHANGED <<inbox, pushing, outbox, routing, commands>>
      BY <1>5, <2>1 DEF HandlerStep, CheckCancelled, NextFor, CheckEnded, WriteFails, LeaveStream, Write,
         ClientLeaves, workerVars
    <3> QED  BY <3>1, RepliesStay
  <2> QED  BY <1>4, <2>1
<1>6. ASSUME NEW w \in Workers, StopWorker(w) PROVE RepliesInLine' /\ SameWay
  <2>1. Submit(w, Shutdown) /\ UNCHANGED <<pushing, outbox, routing, commands>>
    BY <1>6 DEF StopWorker
  <2>2. Shutdown \in InboxItem /\ Shutdown.kind # "command"
    BY KindsApart
  <2> QED  BY <1>1, <2>1, <2>2, RequestKeepsReplies
<1>7. CASE MainStep \/ FeedsStop
  <2>1. CASE StopServer \/ GraceOver \/ ServerStopped \/ FeedsStop
    <3>1. UNCHANGED <<inbox, pushing, outbox, routing, commands>>
      BY <2>1 DEF StopServer, GraceOver, ServerStopped, FeedsStop, workerVars
    <3> QED  BY <3>1, RepliesStay
  <2> QED  BY <1>1, <1>6, <1>7, <2>1, CloseOutboxKeepsReplies DEF MainStep
<1>8. CASE Environment
  <2>1. ASSUME NEW r \in Streams,
               \/ \E q \in MarketRequests : Subscribe(r, q)
               \/ \E gateway \in RepliesGateways : SubscribeReplies(r, gateway)
        PROVE  RepliesInLine' /\ SameWay
    <3>1. UNCHANGED <<inbox, pushing, outbox, routing, commands>>
      BY <2>1 DEF Subscribe, SubscribeReplies, workerVars
    <3> QED  BY <3>1, RepliesStay
  <2> QED  BY <1>5, <1>7, <1>8, <2>1 DEF Environment
<1>9. CASE UNCHANGED vars
  BY <1>9, RepliesStay DEF vars, workerVars
<1> QED  BY <1>2, <1>3, <1>5, <1>7, <1>8, <1>9 DEF Next

LEMMA NextKeepsReplies == OrderInv /\ SnapshotsInLine /\ RepliesInLine /\ [Next]_vars => RepliesInLine'
<1> SUFFICES ASSUME OrderInv, SnapshotsInLine, RepliesInLine, [Next]_vars PROVE RepliesInLine'
  OBVIOUS
<1>1. LineTypeOK
  BY DEF OrderInv, LineInv
<1>2. CASE PublisherRoutes
  <2>1. UNCHANGED <<inbox, pushing, outbox, commands>>
    BY <1>2 DEF PublisherRoutes, workerVars
  <2>2. routing' = None \/ UNCHANGED routing
    BY <1>2 DEF PublisherRoutes
  <2> QED  BY <1>1, <2>1, <2>2, RouteKeepsReplies, RepliesStay
<1>3. ASSUME NEW s \in Symbols, NEW gateway \in Gateways, FeedSubmits(s, gateway) PROVE RepliesInLine'
  BY <1>1, <1>3, CommandKeepsReplies
<1> QED  BY <1>2, <1>3, OthersKeepReplies

LEMMA NextKeepsWay == WayInv /\ [Next]_vars => WayInv'
BY NextKeepsOrder, NextKeepsSnapshots, NextKeepsReplies DEF WayInv

LEMMA InitEstablishesWay == Init => WayInv
<1> SUFFICES ASSUME Init PROVE WayInv
  OBVIOUS
<1>1. /\ inbox = [w \in Workers |-> <<>>] /\ pushing = [w \in Workers |-> <<>>]
      /\ outbox = <<>> /\ routing = None
  BY DEF Init
<1>2. OrderInv
  BY InitEstablishesOrder
<1>3. SnapshotsInLine
  BY <1>1 DEF SnapshotsInLine, HandOfWorker, RequestOfWorker, SnapshotsPlaced, SnapshotIsNext
<1>4. InHand = <<>>
  BY <1>1 DEF InHand
<1>5. ASSUME NEW s \in Symbols PROVE RepliesOrdered(s) /\ RepliesTogether(s)
  <2>1. WorkerOf[s] \in Workers
    BY EngineFeedAssumption
  <2>2. inbox[WorkerOf[s]] = <<>> /\ pushing[WorkerOf[s]] = <<>>
    BY <1>1, <2>1
  <2> QED  BY <1>1, <1>4, <2>2, NothingHeld DEF RepliesOrdered, RepliesTogether, Before, OnTheWay
<1>6. RepliesInLine
  BY <1>1, <1>4, <1>5, NothingHeld DEF RepliesInLine
<1> QED  BY <1>2, <1>3, <1>6 DEF WayInv

\* In every behaviour snapshots and replies keep their place among the events and the commands.
THEOREM WayInvariant == Spec => []WayInv
<1>1. Init => WayInv
  BY InitEstablishesWay
<1>2. WayInv /\ [Next]_vars => WayInv'
  BY NextKeepsWay
<1> QED  BY <1>1, <1>2, PTL DEF Spec

-----------------------------------------------------------------------------
(* The types of the handlers and of the queues *)

Places == {"none", "request", "check", "next", "empty", "write", "leave", "done"}

\* A Subscription holds items, and has ended for one of the reasons, or not.
IsQueue(sub) ==
  /\ sub.items \in Seq(FeedItem)
  /\ sub.end_reason \in EndReasons
  /\ sub.capacity \in Nat

SymbolState == [live : BOOLEAN, skip_below : Nat]

\* A Subscriber has the state of some symbols.
HasStates(entry) == \E known \in SUBSET Symbols : entry.symbols \in [known -> SymbolState]

RegistryTyped ==
  /\ \A id \in 1 .. next_id - 1 : IsQueue(subscription[id])
  /\ \A id \in DOMAIN subscribers : HasStates(subscribers[id])
  /\ too_slow \subseteq DOMAIN subscribers

\* The state of a handler: one that has no id is not yet, or never, a subscriber.
IsHandler(x) ==
  /\ x = [pc |-> x.pc, kind |-> x.kind, request |-> x.request, id |-> x.id,
          snapshots |-> x.snapshots, item |-> x.item, status |-> x.status]
  /\ x.pc \in Places
  /\ x.kind \in Kinds \cup {"None"}
  /\ IF x.id = 0 THEN x.kind = "None" /\ x.pc \in {"none", "done"} ELSE x.kind # "None" /\ x.pc # "none"
  /\ IF x.pc = "write" THEN x.item \in FeedItem ELSE x.item = None
  /\ x.status \in StatusCodes
  /\ x.kind = "Market" => x.request \in MarketRequests /\ Asked(x.request) \subseteq Symbols
  /\ x.kind = "Replies" => x.request \in Gateways

HandlersTyped ==
  /\ \A r \in Streams : IsHandler(stream[r])
  /\ sent \in [Streams -> Seq(FeedItem)]
  /\ \A r \in Streams : stream[r].id = 0 => sent[r] = <<>>
  /\ \A r, q \in Streams : stream[r].id = stream[q].id /\ stream[r].id # 0 => r = q

MainTyped ==
  /\ closed \in BOOLEAN
  /\ cancelled \subseteq Streams
  /\ phase \in {"running", "workers", "publisher", "server", "cancelled", "stopped"}

TypedInv == RegistryTyped /\ HandlersTyped /\ MainTyped

\* An item joins a queue that has not ended and is not full (try_push).
LEMMA PushedItems ==
  ASSUME NEW sub, IsSubscription(sub), IsQueue(sub), NEW item \in FeedItem
  PROVE  /\ IsQueue(Pushed(sub, item))
         /\ Pushed(sub, item).items =
              IF HasEnded(sub) \/ IsFull(sub) THEN sub.items ELSE Append(sub.items, item)
<1>0. PICK g, i, e, c : sub = [gateway |-> g, items |-> i, end_reason |-> e, capacity |-> c]
  BY DEF IsSubscription
<1>1. CASE HasEnded(sub) \/ IsFull(sub)
  BY <1>1 DEF Pushed
<1>2. CASE ~(HasEnded(sub) \/ IsFull(sub))
  <2>0. Append(sub.items, item) \in Seq(FeedItem)
    BY DEF IsQueue
  <2>1. PICK items : items = Append(sub.items, item) /\ items \in Seq(FeedItem)
    BY <2>0
  <2>2. Pushed(sub, item) = [sub EXCEPT !.items = items]
    BY <1>2, <2>1 DEF Pushed
  <2>3. [sub EXCEPT !.items = items] =
          [gateway |-> g, items |-> items, end_reason |-> e, capacity |-> c]
    BY <1>0
  <2> QED  BY <1>0, <1>2, <2>1, <2>2, <2>3 DEF IsQueue
<1> QED  BY <1>1, <1>2

\* A queue that ends keeps its items, but for a slow consumer (end).
LEMMA EndedItems ==
  ASSUME NEW sub, IsSubscription(sub), IsQueue(sub), NEW reason \in EndReasons
  PROVE  /\ IsQueue(Ended(sub, reason))
         /\ Ended(sub, reason).items =
              IF ~HasEnded(sub) /\ reason = "SlowConsumer" THEN <<>> ELSE sub.items
<1>0. PICK g, i, e, c : sub = [gateway |-> g, items |-> i, end_reason |-> e, capacity |-> c]
  BY DEF IsSubscription
<1>1. CASE HasEnded(sub)
  BY <1>1 DEF Ended
<1>2. CASE ~HasEnded(sub)
  <2>1. PICK items : items = IF reason = "SlowConsumer" THEN <<>> ELSE sub.items
    OBVIOUS
  <2>2. PICK marked : marked = [sub EXCEPT !.end_reason = reason]
    OBVIOUS
  <2>3. Ended(sub, reason) = [marked EXCEPT !.items = items]
    BY <1>2, <2>1, <2>2 DEF Ended
  <2>4. marked = [gateway |-> g, items |-> i, end_reason |-> reason, capacity |-> c]
    BY <1>0, <2>2
  <2>5. Ended(sub, reason) = [gateway |-> g, items |-> items, end_reason |-> reason, capacity |-> c]
    BY <2>3, <2>4
  <2>6. items \in Seq(FeedItem)
    BY <2>1 DEF IsQueue
  <2>7. c \in Nat
    BY <1>0 DEF IsQueue
  <2>8. IsQueue(Ended(sub, reason)) /\ Ended(sub, reason).items = items
    BY <2>5, <2>6, <2>7 DEF IsQueue
  <2> QED  BY <1>2, <2>1, <2>8
<1> QED  BY <1>1, <1>2

\* What the registry is when the invariants hold.
LEMMA RegistryIs ==
  ASSUME RegistryInv, RegistryTyped
  PROVE  /\ next_id \in Nat \ {0}
         /\ DOMAIN subscription = 1 .. next_id - 1
         /\ DOMAIN subscribers \subseteq DOMAIN subscription
         /\ too_slow \subseteq DOMAIN subscribers
         /\ \A id \in DOMAIN subscription : IsSubscription(subscription[id]) /\ IsQueue(subscription[id])
         /\ \A id \in DOMAIN subscribers : IsSubscriber(subscribers[id]) /\ HasStates(subscribers[id])
         /\ \A id \in DOMAIN subscription : id \in DOMAIN subscribers <=> ~HasEnded(subscription[id])
BY DEF RegistryInv, RegistryOK, RegistryTyped, SeatsAgree, OpenAreRegistered

\* Items are pushed to some subscribers, and some of those are too slow.
LEMMA PushKeepsTyped ==
  ASSUME RegistryInv, RegistryTyped, NEW ids, ids \subseteq DOMAIN subscribers, NEW item \in FeedItem,
         PushTo(ids, item), UNCHANGED next_id, DOMAIN subscribers' = DOMAIN subscribers,
         \A id \in DOMAIN subscribers' : HasStates(subscribers'[id])
  PROVE  RegistryTyped'
<1>1. /\ subscription' = [id \in DOMAIN subscription |->
                            IF id \in ids THEN Pushed(subscription[id], item) ELSE subscription[id]]
      /\ too_slow' \subseteq ids
  BY DEF PushTo
<1>2. \A id \in DOMAIN subscription : IsQueue(subscription'[id])
  BY <1>1, RegistryIs, PushedItems
<1> QED  BY <1>1, <1>2, RegistryIs DEF RegistryTyped

\* One subscriber ends, and is no longer in the registry (drop).
LEMMA DropKeepsTyped ==
  ASSUME RegistryInv, RegistryTyped, NEW id, NEW reason \in EndReasons, Drop(id, reason),
         UNCHANGED next_id, too_slow' \subseteq DOMAIN subscribers \ {id}
  PROVE  RegistryTyped'
<1>1. CASE id \notin DOMAIN subscribers
  BY <1>1, RegistryIs DEF Drop, RegistryTyped
<1>2. CASE id \in DOMAIN subscribers
  <2>1. /\ subscription' = [subscription EXCEPT ![id] = Ended(subscription[id], reason)]
        /\ subscribers' = [i \in DOMAIN subscribers \ {id} |-> subscribers[i]]
    BY <1>2 DEF Drop, Without
  <2>2. \A i \in DOMAIN subscription : IsQueue(subscription'[i])
    <3>1. IsQueue(Ended(subscription[id], reason))
      BY <1>2, RegistryIs, EndedItems
    <3> QED  BY <2>1, <3>1, RegistryIs
  <2>3. \A i \in DOMAIN subscribers' : HasStates(subscribers'[i])
    BY <2>1, RegistryIs DEF HasStates
  <2> QED  BY <2>1, <2>2, <2>3, RegistryIs DEF RegistryTyped
<1> QED  BY <1>1, <1>2

LEMMA CloseKeepsTyped ==
  ASSUME RegistryInv, RegistryTyped, Close
  PROVE  RegistryTyped'
<1>1. /\ subscription' = [id \in DOMAIN subscription |->
                            IF id \in DOMAIN subscribers
                            THEN Ended(subscription[id], "Shutdown") ELSE subscription[id]]
      /\ DOMAIN subscribers' = {} /\ too_slow' = {} /\ next_id' = next_id
  BY DEF Close, Unlocked
<1>2. \A id \in DOMAIN subscription : IsQueue(subscription'[id])
  BY <1>1, RegistryIs, EndedItems DEF EndReasons
<1> QED  BY <1>1, <1>2, RegistryIs DEF RegistryTyped

\* A new subscriber has a queue and the states of some symbols.
LEMMA RegisterKeepsTyped ==
  ASSUME RegistryInv, RegistryTyped, UNCHANGED too_slow,
         NEW kind, NEW symbols, NEW queue, Register(kind, symbols, queue), IsQueue(queue),
         NEW known \in SUBSET Symbols, symbols \in [known -> SymbolState]
  PROVE  RegistryTyped' /\ subscription'[next_id] = queue
<1>1. next_id' = next_id + 1 /\ next_id \in Nat \ {0}
  BY RegistryIs DEF Register
<1>2. subscription' = [id \in 1 .. next_id |-> IF id = next_id THEN queue ELSE subscription[id]]
  <2>1. subscription = [id \in 1 .. next_id - 1 |-> subscription[id]]
    BY DEF RegistryInv, RegistryOK
  <2>2. next_id - 1 \in Nat /\ next_id - 1 + 1 = next_id
    BY <1>1
  <2> QED  BY <2>1, <2>2, AppendIs DEF Register
<1>3. PICK entry : entry = [kind |-> kind, symbols |-> symbols]
  OBVIOUS
<1>4. subscribers' = [id \in DOMAIN subscribers \cup {next_id} |->
                        IF id = next_id THEN entry ELSE subscribers[id]]
  BY <1>3 DEF Register, Extended
<1>5. HasStates(entry)
  BY <1>3 DEF HasStates
<1>6. \A id \in 1 .. next_id : IsQueue(subscription'[id])
  BY <1>1, <1>2 DEF RegistryTyped
<1>7. \A id \in DOMAIN subscribers' : HasStates(subscribers'[id])
  BY <1>4, <1>5 DEF RegistryTyped
<1>8. too_slow' \subseteq DOMAIN subscribers'
  BY <1>4 DEF RegistryTyped
<1>9. next_id' - 1 = next_id /\ next_id \in 1 .. next_id
  BY <1>1
<1> QED  BY <1>2, <1>6, <1>7, <1>8, <1>9 DEF RegistryTyped

-----------------------------------------------------------------------------
(* The events of a replay, in order *)

\* m is the last of W.
IsLastOf(W, m) == m \in W /\ \A a \in W : a = m \/ Earlier(a, m)

\* f lists all of W in order.
Listed(W, f) == InOrder(W, f) /\ \A a \in W : \E i \in 1 .. Cardinality(W) : f[i] = a

\* Among sets of elements of a finite one there is a smallest.
LEMMA SmallestSet ==
  ASSUME NEW W, IsFiniteSet(W), NEW T \in SUBSET SUBSET W, T # {}
  PROVE  \E U \in T : \A V \in T : V \subseteq U => V = U
<1>1. T \subseteq FiniteSubsetsOf(W)
  BY FS_FiniteSubsetsOfFinite
<1>2. PICK U \in T : \A V \in T : ~(<<V, U>> \in StrictSubsetOrdering(W))
  BY <1>1, FS_StrictSubsetOrderingWellFounded, WFMin
<1> QED  BY <1>2 DEF StrictSubsetOrdering

\* A finite set has a last element.
LEMMA LastExists ==
  ASSUME NEW W \in SUBSET (Int \X Int), IsFiniteSet(W), W # {}
  PROVE  \E m \in W : IsLastOf(W, m)
<1> DEFINE T == {U \in SUBSET W : U # {} /\ ~ \E m \in U : IsLastOf(U, m)}
<1> SUFFICES ASSUME T # {} PROVE FALSE
  OBVIOUS
<1>0. T \in SUBSET SUBSET W
  OBVIOUS
<1>1. PICK U \in T : \A V \in T : V \subseteq U => V = U
  <2> HIDE DEF T
  <2> QED  BY <1>0, SmallestSet
<1>2. PICK x \in U : TRUE
  OBVIOUS
<1>3. U \ {x} \notin T
  BY <1>1, <1>2
<1>4. CASE U \ {x} = {}
  BY <1>2, <1>4 DEF IsLastOf
<1>5. CASE U \ {x} # {}
  <2>1. PICK m \in U \ {x} : IsLastOf(U \ {x}, m)
    BY <1>3, <1>5
  <2>2. m \in Int \X Int /\ x \in Int \X Int /\ U \subseteq Int \X Int
    BY <2>1
  <2>3. CASE Earlier(x, m)
    BY <2>1, <2>3 DEF IsLastOf
  <2>4. CASE ~Earlier(x, m)
    <3>1. Earlier(m, x)
      BY <2>1, <2>2, <2>4 DEF Earlier
    <3>2. \A a \in U : a = x \/ Earlier(a, x)
      BY <2>1, <2>2, <3>1 DEF IsLastOf, Earlier
    <3> QED  BY <1>2, <3>2 DEF IsLastOf
  <2> QED  BY <2>3, <2>4
<1> QED  BY <1>4, <1>5

\* A finite set can be listed.
LEMMA ListExists ==
  ASSUME NEW W \in SUBSET (Int \X Int), IsFiniteSet(W)
  PROVE  \E f : Listed(W, f)
<1> DEFINE T == {U \in SUBSET W : ~ \E f : Listed(U, f)}
<1> SUFFICES ASSUME T # {} PROVE FALSE
  OBVIOUS
<1>0. T \in SUBSET SUBSET W
  OBVIOUS
<1>1. PICK U \in T : \A V \in T : V \subseteq U => V = U
  <2> HIDE DEF T
  <2> QED  BY <1>0, SmallestSet
<1>2. IsFiniteSet(U) /\ U \subseteq Int \X Int
  BY <1>1, FS_Subset
<1>3. U # {}
  <2>1. Cardinality({}) = 0
    BY FS_EmptySet
  <2>2. Listed({}, [i \in 1 .. 0 |-> 0])
    BY <2>1 DEF Listed, InOrder
  <2> QED  BY <1>1, <2>2
<1>4. PICK m \in U : IsLastOf(U, m)
  BY <1>2, <1>3, LastExists
<1>5. PICK f : Listed(U \ {m}, f)
  <2>1. U \ {m} \in SUBSET W /\ U \ {m} \subseteq U /\ U \ {m} # U
    BY <1>1, <1>4
  <2>2. U \ {m} \notin T
    <3> HIDE DEF T
    <3> QED  BY <1>1, <2>1
  <2> QED  BY <2>1, <2>2
<1>6. PICK n \in Nat : n = Cardinality(U \ {m}) /\ Cardinality(U) = n + 1
  <2>1. Cardinality(U \ {m}) = Cardinality(U) - 1 /\ IsFiniteSet(U \ {m})
    BY <1>2, <1>4, FS_RemoveElement
  <2>2. Cardinality(U) \in Nat /\ Cardinality(U \ {m}) \in Nat
    BY <1>2, <2>1, FS_CardinalityType
  <2> QED  BY <2>1, <2>2
<1> DEFINE g == [i \in 1 .. n + 1 |-> IF i = n + 1 THEN m ELSE f[i]]
<1>7. /\ f \in [1 .. n -> U \ {m}]
      /\ \A i, j \in 1 .. n : i < j => Earlier(f[i], f[j])
      /\ \A a \in U \ {m} : \E i \in 1 .. n : f[i] = a
  BY <1>5, <1>6 DEF Listed, InOrder
<1>8. \A i \in 1 .. n + 1 : g[i] = IF i = n + 1 THEN m ELSE f[i]
  OBVIOUS
<1>9. g \in [1 .. n + 1 -> U]
  BY <1>7
<1> HIDE DEF g
<1>10. \A i, j \in 1 .. n + 1 : i < j => Earlier(g[i], g[j])
  <2> SUFFICES ASSUME NEW i \in 1 .. n + 1, NEW j \in 1 .. n + 1, i < j
               PROVE  Earlier(g[i], g[j])
    OBVIOUS
  <2>1. i \in 1 .. n /\ g[i] = f[i] /\ f[i] \in U \ {m}
    <3>1. i \in 1 .. n /\ i # n + 1
      OBVIOUS
    <3> QED  BY <1>7, <1>8, <3>1
  <2>2. CASE j = n + 1
    <3>1. g[j] = m
      BY <1>8, <2>2
    <3>2. Earlier(f[i], m)
      BY <1>4, <2>1 DEF IsLastOf
    <3> QED  BY <2>1, <3>1, <3>2
  <2>3. CASE j # n + 1
    <3>1. j \in 1 .. n /\ g[j] = f[j]
      BY <1>8, <2>3
    <3> QED  BY <1>7, <2>1, <3>1
  <2> QED  BY <2>2, <2>3
<1>11. \A a \in U : \E i \in 1 .. n + 1 : g[i] = a
  <2> SUFFICES ASSUME NEW a \in U PROVE \E i \in 1 .. n + 1 : g[i] = a
    OBVIOUS
  <2>1. CASE a = m
    BY <1>8, <2>1
  <2>2. CASE a # m
    BY <1>7, <1>8, <2>2
  <2> QED  BY <2>1, <2>2
<1>12. Listed(U, g)
  BY <1>6, <1>9, <1>10, <1>11 DEF Listed, InOrder
<1> QED  BY <1>1, <1>12

\* Any list in order lists all.
LEMMA InOrderListsAll ==
  ASSUME NEW W \in SUBSET (Int \X Int), IsFiniteSet(W), NEW f, InOrder(W, f)
  PROVE  \A a \in W : \E i \in 1 .. Cardinality(W) : f[i] = a
<1>1. Cardinality(W) \in Nat
  BY FS_CardinalityType
<1>2. \A i, j \in 1 .. Cardinality(W) : i < j => f[i] # f[j]
  BY <1>1 DEF InOrder, Earlier
<1>3. f \in Injection(1 .. Cardinality(W), W)
  BY <1>1, <1>2 DEF InOrder, Injection, IsInjective
<1>4. Cardinality(1 .. Cardinality(W)) = Cardinality(W)
  BY <1>1, FS_Interval
<1>5. f \in Surjection(1 .. Cardinality(W), W)
  BY <1>3, <1>4, FS_Injection
<1> QED  BY <1>5 DEF Surjection

-----------------------------------------------------------------------------
(* What a stream has been given of a symbol *)

\* Nothing in x is about s.
Silent(x, s) == \A i \in DOMAIN x : ~About(x[i], s)

\* The last item about s in x is the event, or the state, with this number.
EndsWith(x, s, n) == \E i \in DOMAIN x : IsLatest(x, i, Len(x) + 1, s) /\ x[i].seq = n

\* What the subscriber id with the request q may be given about s first.
IsFirst(q, id, item, s) ==
  IF s \in DOMAIN q.from_seq
  THEN item = Event(s, q.from_seq[s])
  ELSE item.kind = "snapshot" /\ item.subscriber = id

\* Of s it has been given a start, and then one event after the other.
Gapless(q, id, x, s) ==
  \A j \in DOMAIN x : About(x[j], s) =>
    /\ s \in Asked(q)
    /\ (\A i \in 1 .. j - 1 : ~About(x[i], s)) => IsFirst(q, id, x[j], s)
    /\ \A i \in 1 .. j - 1 : IsLatest(x, i, j, s) => x[j] = Event(s, x[i].seq + 1)

\* Nothing about s in x is newer than n.
UpTo(x, s, n) == \A i \in DOMAIN x : About(x[i], s) => x[i].seq <= n

\* The window of a symbol by its places.
LEMMA WindowIs ==
  ASSUME LineTypeOK, HistoryIsWindow, NEW s \in Symbols
  PROVE  \E k \in Nat, n \in Nat :
           /\ n = last_seq[s] /\ k = Len(history[s]) /\ k <= n /\ k <= ReplayWindow
           /\ DOMAIN history[s] = 1 .. k
           /\ \A i \in 1 .. k : history[s][i] = n - k + i
           /\ Oldest(s) = n - k + 1
<1>1. history[s] \in Seq(Nat) /\ last_seq[s] \in Nat /\ ReplayWindow \in Nat
  BY PublisherAssumption DEF LineTypeOK
<1>2. PICK k \in Nat, n \in Nat : n = last_seq[s] /\ k = Len(history[s])
  BY <1>1
<1>3. DOMAIN history[s] = 1 .. k /\ \A i \in 1 .. k : history[s][i] = n - k + i
  <2>1. DOMAIN history[s] = 1 .. k
    BY <1>1, <1>2
  <2>2. \A i \in DOMAIN history[s] : history[s][i] = last_seq[s] - Len(history[s]) + i
    BY DEF HistoryIsWindow
  <2> QED  BY <1>2, <2>1, <2>2
<1>4. k <= n /\ k <= ReplayWindow
  <2>1. k = Min({ReplayWindow, n})
    BY <1>2 DEF HistoryIsWindow
  <2>2. Min({ReplayWindow, n}) = IF ReplayWindow <= n THEN ReplayWindow ELSE n
    BY <1>1, MinOfTwo
  <2> QED  BY <1>1, <2>1, <2>2
<1>5. Oldest(s) = n - k + 1
  <2>1. CASE history[s] = <<>>
    BY <1>2, <2>1 DEF Oldest
  <2>2. CASE history[s] # <<>>
    <3>1. k # 0 /\ Head(history[s]) = history[s][1]
      BY <1>1, <1>2, <2>2, EmptySeq, Taken
    <3>2. history[s][1] = n - k + 1
      BY <1>3, <3>1
    <3> QED  BY <2>2, <3>1, <3>2 DEF Oldest
  <2> QED  BY <2>1, <2>2
<1> QED  BY <1>2, <1>3, <1>4, <1>5

\* The events a request wants are finitely many.
LEMMA WantedIsFinite ==
  ASSUME LineTypeOK, HistoryIsWindow, NEW q \in MarketRequests, DOMAIN q.from_seq \subseteq Symbols
  PROVE  Wanted(q) \in SUBSET (Int \X Int) /\ IsFiniteSet(Wanted(q))
<1>1. IsFiniteSet(Symbols) /\ Symbols \subseteq Int /\ ReplayWindow \in Nat
  BY PublisherAssumption
<1>2. Wanted(q) \subseteq Symbols \X (1 .. ReplayWindow)
  <2> SUFFICES ASSUME NEW s \in DOMAIN q.from_seq, NEW i \in DOMAIN history[s]
               PROVE  <<s, i>> \in Symbols \X (1 .. ReplayWindow)
    BY DEF Wanted
  <2>1. PICK k \in Nat : k <= ReplayWindow /\ DOMAIN history[s] = 1 .. k
    BY WindowIs
  <2>2. i \in 1 .. ReplayWindow
    BY <1>1, <2>1
  <2> QED  BY <2>2
<1>3. IsFiniteSet(1 .. ReplayWindow)
  BY <1>1, FS_Interval
<1>4. IsFiniteSet(Symbols \X (1 .. ReplayWindow))
  BY <1>1, <1>3, FS_Product
<1>5. IsFiniteSet(Wanted(q))
  BY <1>2, <1>4, FS_Subset
<1>6. 1 .. ReplayWindow \subseteq Int
  OBVIOUS
<1>7. Symbols \X (1 .. ReplayWindow) \subseteq Int \X Int
  BY <1>1, <1>6
<1> QED  BY <1>2, <1>5, <1>7

\* Each kept event that is wanted has its place in the replay, and they are in order.
LEMMA ReplayPlaces ==
  ASSUME LineTypeOK, HistoryIsWindow, NEW q \in MarketRequests, DOMAIN q.from_seq \subseteq Symbols
  PROVE  \E n \in Nat : \E f \in [1 .. n -> Wanted(q)] :
           /\ \A i, j \in 1 .. n : i < j => Earlier(f[i], f[j])
           /\ \A a \in Wanted(q) : \E i \in 1 .. n : f[i] = a
           /\ Replay(q) = [k \in 1 .. n |-> Event(f[k][1], history[f[k][1]][f[k][2]])]
<1>1. Wanted(q) \in SUBSET (Int \X Int) /\ IsFiniteSet(Wanted(q))
  BY WantedIsFinite
<1>2. PICK n \in Nat : n = Cardinality(Wanted(q))
  BY <1>1, FS_CardinalityType
<1>3. \E f \in [1 .. n -> Wanted(q)] : InOrder(Wanted(q), f)
  BY <1>1, <1>2, ListExists DEF Listed, InOrder
<1> DEFINE f == CHOOSE g \in [1 .. Cardinality(Wanted(q)) -> Wanted(q)] : InOrder(Wanted(q), g)
<1>4. Replay(q) = [k \in DOMAIN f |-> Event(f[k][1], history[f[k][1]][f[k][2]])]
  BY DEF Replay
<1>5. f \in [1 .. n -> Wanted(q)] /\ InOrder(Wanted(q), f)
  BY <1>2, <1>3
<1> HIDE DEF f
<1>6. \A a \in Wanted(q) : \E i \in 1 .. n : f[i] = a
  BY <1>1, <1>2, <1>5, InOrderListsAll
<1>7. \A i, j \in 1 .. n : i < j => Earlier(f[i], f[j])
  BY <1>2, <1>5 DEF InOrder
<1>8. DOMAIN f = 1 .. n
  BY <1>5
<1> QED  BY <1>4, <1>5, <1>6, <1>7, <1>8

\* A replay has the kept events from the number asked for to the last one, and
\* nothing of the other symbols.
LEMMA ReplayIs ==
  ASSUME LineTypeOK, HistoryIsWindow, NEW q \in MarketRequests, SubscribeError(q) = "None"
  PROVE  /\ Replay(q) \in Seq(FeedItem)
         /\ \A i \in DOMAIN Replay(q) : Replay(q)[i].kind = "event"
         /\ \A s \in Symbols : \A id :
              /\ Gapless(q, id, Replay(q), s)
              /\ UpTo(Replay(q), s, last_seq[s])
              /\ IF s \in DOMAIN q.from_seq /\ q.from_seq[s] <= last_seq[s]
                 THEN EndsWith(Replay(q), s, last_seq[s])
                 ELSE Silent(Replay(q), s)
<1>1. /\ Asked(q) \subseteq Symbols
      /\ \A s \in DOMAIN q.from_seq :
           s \in Asked(q) /\ q.from_seq[s] \in Nat /\ ~TooOld(s, q.from_seq[s])
  BY PublisherAssumption DEF SubscribeError
<1>2. DOMAIN q.from_seq \subseteq Symbols
  BY <1>1
<1>0. PICK n \in Nat : \E f \in [1 .. n -> Wanted(q)] :
           /\ \A i, j \in 1 .. n : i < j => Earlier(f[i], f[j])
           /\ \A a \in Wanted(q) : \E i \in 1 .. n : f[i] = a
           /\ Replay(q) = [k \in 1 .. n |-> Event(f[k][1], history[f[k][1]][f[k][2]])]
  BY <1>2, ReplayPlaces
<1>3. PICK f \in [1 .. n -> Wanted(q)] :
           /\ \A i, j \in 1 .. n : i < j => Earlier(f[i], f[j])
           /\ \A a \in Wanted(q) : \E i \in 1 .. n : f[i] = a
           /\ Replay(q) = [k \in 1 .. n |-> Event(f[k][1], history[f[k][1]][f[k][2]])]
  BY <1>0
<1>4. PICK x : x = Replay(q)
  OBVIOUS
<1>5. DOMAIN x = 1 .. n /\ \A k \in 1 .. n : x[k] = Event(f[k][1], history[f[k][1]][f[k][2]])
  BY <1>3, <1>4
<1>6. \A k \in 1 .. n : /\ f[k] = <<f[k][1], f[k][2]>>
                        /\ f[k][1] \in DOMAIN q.from_seq
                        /\ f[k][2] \in DOMAIN history[f[k][1]]
                        /\ history[f[k][1]][f[k][2]] >= q.from_seq[f[k][1]]
  BY DEF Wanted
<1>7. \A k \in 1 .. n : x[k].kind = "event" /\ x[k].symbol = f[k][1] /\ x[k] \in FeedItem
  <2> SUFFICES ASSUME NEW k \in 1 .. n
               PROVE  x[k].kind = "event" /\ x[k].symbol = f[k][1] /\ x[k] \in FeedItem
    OBVIOUS
  <2>1. f[k][1] \in Symbols /\ f[k][2] \in DOMAIN history[f[k][1]]
    BY <1>2, <1>6
  <2>2. history[f[k][1]][f[k][2]] \in Nat
    BY <2>1 DEF LineTypeOK
  <2> QED  BY <1>5, <2>1, <2>2, MadeItems
<1>8. x \in Seq(FeedItem) /\ Len(x) = n
  <2>1. x = [k \in 1 .. n |-> x[k]]
    BY <1>3, <1>4
  <2> QED  BY <1>7, <2>1
<1>9. \A k \in 1 .. n : \A s : About(x[k], s) <=> s = f[k][1]
  BY <1>7 DEF About
<1>10. ASSUME NEW s \in Symbols, NEW id
       PROVE  /\ Gapless(q, id, x, s)
              /\ UpTo(x, s, last_seq[s])
              /\ IF s \in DOMAIN q.from_seq /\ q.from_seq[s] <= last_seq[s]
                 THEN EndsWith(x, s, last_seq[s])
                 ELSE Silent(x, s)
  <2>1. CASE s \notin DOMAIN q.from_seq
    <3>1. Silent(x, s)
      BY <1>5, <1>6, <1>9, <2>1 DEF Silent
    <3> QED  BY <2>1, <3>1 DEF Silent, Gapless, UpTo
  <2>2. CASE s \in DOMAIN q.from_seq
    <3>1. PICK k \in Nat, last \in Nat :
             /\ last = last_seq[s] /\ k <= last
             /\ DOMAIN history[s] = 1 .. k
             /\ \A i \in 1 .. k : history[s][i] = last - k + i
             /\ Oldest(s) = last - k + 1
      BY WindowIs
    <3>2. PICK from \in Nat : from = q.from_seq[s]
      BY <1>1, <2>2
    <3>3. from <= last => from >= last - k + 1
      BY <1>1, <2>2, <3>1, <3>2 DEF TooOld
    \* The places of the events of s in the window.
    <3>4. \A j \in 1 .. n : About(x[j], s) =>
            /\ f[j] = <<s, f[j][2]>> /\ f[j][2] \in 1 .. k
            /\ x[j] = Event(s, last - k + f[j][2])
            /\ last - k + f[j][2] >= from
      <4> SUFFICES ASSUME NEW j \in 1 .. n, About(x[j], s)
                   PROVE  /\ f[j] = <<s, f[j][2]>> /\ f[j][2] \in 1 .. k
                          /\ x[j] = Event(s, last - k + f[j][2])
                          /\ last - k + f[j][2] >= from
        OBVIOUS
      <4>1. f[j][1] = s
        BY <1>9
      <4>2. f[j] = <<s, f[j][2]>> /\ f[j][2] \in 1 .. k /\ history[s][f[j][2]] >= from
        BY <1>6, <3>1, <3>2, <4>1
      <4>3. x[j] = Event(s, history[s][f[j][2]])
        BY <1>5, <4>1
      <4>4. history[s][f[j][2]] = last - k + f[j][2]
        BY <3>1, <4>2
      <4> QED  BY <4>2, <4>3, <4>4
    <3>5. \A p \in 1 .. k : last - k + p >= from =>
            \E j \in 1 .. n : f[j] = <<s, p>> /\ About(x[j], s)
      <4> SUFFICES ASSUME NEW p \in 1 .. k, last - k + p >= from
                   PROVE  \E j \in 1 .. n : f[j] = <<s, p>> /\ About(x[j], s)
        OBVIOUS
      <4>1. p \in DOMAIN history[s] /\ history[s][p] >= from
        BY <3>1
      <4>2. <<s, p>> \in Wanted(q)
        BY <2>2, <3>2, <4>1 DEF Wanted
      <4>3. PICK j \in 1 .. n : f[j] = <<s, p>>
        BY <1>3, <4>2
      <4> QED  BY <1>9, <4>3
    <3>6. \A i, j \in 1 .. n : About(x[i], s) /\ About(x[j], s) => (i < j <=> f[i][2] < f[j][2])
      <4> SUFFICES ASSUME NEW i \in 1 .. n, NEW j \in 1 .. n, About(x[i], s), About(x[j], s)
                   PROVE  i < j <=> f[i][2] < f[j][2]
        OBVIOUS
      <4>1. f[i] = <<s, f[i][2]>> /\ f[j] = <<s, f[j][2]>> /\ f[i][2] \in 1 .. k /\ f[j][2] \in 1 .. k
        BY <3>4
      <4>2. s \in Int
        BY PublisherAssumption
      <4>3. i < j => f[i][2] < f[j][2]
        BY <1>3, <4>1, <4>2 DEF Earlier
      <4>4. j < i => f[j][2] < f[i][2]
        BY <1>3, <4>1, <4>2 DEF Earlier
      <4> QED  BY <4>1, <4>3, <4>4
    <3>7. Gapless(q, id, x, s)
      <4> SUFFICES ASSUME NEW j \in 1 .. n, About(x[j], s)
                   PROVE  /\ s \in Asked(q)
                          /\ (\A i \in 1 .. j - 1 : ~About(x[i], s)) => x[j] = Event(s, from)
                          /\ \A i \in 1 .. j - 1 : IsLatest(x, i, j, s) => x[j] = Event(s, x[i].seq + 1)
        BY <1>5, <2>2, <3>2 DEF Gapless, IsFirst
      <4>1. PICK p \in 1 .. k : /\ p = f[j][2] /\ x[j] = Event(s, last - k + p)
                                /\ last - k + p >= from
        BY <3>4
      <4>2. ASSUME \A i \in 1 .. j - 1 : ~About(x[i], s) PROVE last - k + p = from
        <5> SUFFICES ASSUME last - k + p > from PROVE FALSE
          BY <4>1
        <5>1. p - 1 \in 1 .. k /\ last - k + (p - 1) >= from
          BY <3>1, <3>3
        <5>2. PICK i \in 1 .. n : f[i] = <<s, p - 1>> /\ About(x[i], s)
          BY <3>5, <5>1
        <5>3. f[i][2] < f[j][2]
          BY <4>1, <5>2
        <5>4. i < j
          BY <3>6, <5>2, <5>3
        <5> QED  BY <4>2, <5>2, <5>4
      <4>3. ASSUME NEW i \in 1 .. j - 1, IsLatest(x, i, j, s) PROVE x[j] = Event(s, x[i].seq + 1)
        <5>1. i \in 1 .. n /\ About(x[i], s)
          BY <4>3 DEF IsLatest
        <5>2. PICK o \in 1 .. k : /\ o = f[i][2] /\ x[i] = Event(s, last - k + o)
                                  /\ last - k + o >= from
          BY <3>4, <5>1
        <5>3. o < p
          BY <3>6, <4>1, <5>1, <5>2
        <5>4. ASSUME o + 1 # p PROVE FALSE
          <6>1. o + 1 \in 1 .. k /\ last - k + (o + 1) >= from
            BY <5>2, <5>3
          <6>2. PICK m \in 1 .. n : f[m] = <<s, o + 1>> /\ About(x[m], s)
            BY <3>5, <6>1
          <6>3. f[m][2] = o + 1
            BY <6>2
          <6>4. f[i][2] < f[m][2] /\ f[m][2] < f[j][2]
            <7>1. o \in Int /\ p \in Int
              OBVIOUS
            <7>2. o < o + 1 /\ o + 1 < p
              BY <5>3, <5>4, <7>1
            <7>3. f[i][2] = o /\ f[j][2] = p
              BY <4>1, <5>2
            <7> QED  BY <6>3, <7>2, <7>3
          <6>5. i < m /\ m < j
            BY <3>6, <5>1, <6>2, <6>4
          <6> QED  BY <4>3, <6>2, <6>5 DEF IsLatest
        <5>5. x[i].seq = last - k + o
          BY <5>2 DEF Event
        <5>6. last - k + p = x[i].seq + 1
          BY <5>3, <5>4, <5>5
        <5> QED  BY <4>1, <5>6
      <4> QED  BY <1>1, <2>2, <4>1, <4>2, <4>3
    <3>8. UpTo(x, s, last_seq[s])
      <4> SUFFICES ASSUME NEW j \in 1 .. n, About(x[j], s) PROVE x[j].seq <= last
        BY <1>5, <3>1 DEF UpTo
      <4>1. PICK p \in 1 .. k : x[j] = Event(s, last - k + p)
        BY <3>4
      <4>2. x[j].seq = last - k + p
        BY <4>1 DEF Event
      <4> QED  BY <4>2
    <3>9. CASE from <= last
      <4>1. k \in 1 .. k /\ last - k + k >= from /\ last - k + k = last
        BY <3>3, <3>9
      <4>2. PICK i \in 1 .. n : f[i] = <<s, k>> /\ About(x[i], s)
        BY <3>5, <4>1
      <4>3. f[i][2] = k
        BY <4>2
      <4>4. x[i].seq = last
        <5>1. x[i] = Event(s, last - k + f[i][2])
          BY <3>4, <4>2
        <5> QED  BY <4>1, <4>3, <5>1 DEF Event
      <4>5. \A m \in i + 1 .. n : ~About(x[m], s)
        <5> SUFFICES ASSUME NEW m \in i + 1 .. n, About(x[m], s) PROVE FALSE
          OBVIOUS
        <5>1. m \in 1 .. n /\ i < m
          OBVIOUS
        <5>2. f[i][2] < f[m][2] /\ f[m][2] \in 1 .. k
          BY <3>4, <3>6, <4>2, <5>1
        <5> QED  BY <4>3, <5>2
      <4>6. n + 1 - 1 = n
        OBVIOUS
      <4>7. IsLatest(x, i, Len(x) + 1, s)
        BY <1>8, <4>2, <4>5, <4>6 DEF IsLatest
      <4>8. EndsWith(x, s, last_seq[s])
        BY <1>5, <3>1, <4>4, <4>7 DEF EndsWith
      <4> QED  BY <3>1, <3>2, <3>7, <3>8, <3>9, <2>2, <4>8
    <3>10. CASE ~(from <= last)
      <4>1. Silent(x, s)
        <5> SUFFICES ASSUME NEW j \in 1 .. n, About(x[j], s) PROVE FALSE
          BY <1>5 DEF Silent
        <5>1. f[j][2] \in 1 .. k /\ last - k + f[j][2] >= from
          BY <3>4
        <5> QED  BY <3>10, <5>1
      <4> QED  BY <3>1, <3>2, <3>7, <3>8, <3>10, <4>1
    <3> QED  BY <3>9, <3>10
  <2> QED  BY <2>1, <2>2
<1>11. \A i \in DOMAIN x : x[i].kind = "event"
  BY <1>5, <1>7
<1> QED  BY <1>4, <1>8, <1>10, <1>11

-----------------------------------------------------------------------------
(* The handlers *)

\* The handler of r goes on, for the same request.
Turns(r, pc, rest, item, status) ==
  stream' = [q \in Streams |->
               IF q = r
               THEN [pc |-> pc, kind |-> stream[r].kind, request |-> stream[r].request,
                     id |-> stream[r].id, snapshots |-> rest, item |-> item, status |-> status]
               ELSE stream[q]]

\* The state of one handler with one field set.
LEMMA HandlerSet ==
  ASSUME NEW h, h = [q \in Streams |-> h[q]], NEW r \in Streams, NEW y, NEW g, g = [h EXCEPT ![r] = y]
  PROVE  g = [q \in Streams |-> g[q]] /\ g[r] = y /\ \A q \in Streams \ {r} : g[q] = h[q]
OBVIOUS

\* The changes that the steps of a handler make to its state.
LEMMA HandlerTurns ==
  ASSUME StreamsOK, HandlersTyped, NEW r \in Streams, NEW pc, NEW item, NEW status, NEW rest
  PROVE  /\ Goto(r, pc) => Turns(r, pc, stream[r].snapshots, stream[r].item, stream[r].status)
         /\ stream' = [stream EXCEPT ![r].pc = pc, ![r].item = item] =>
              Turns(r, pc, stream[r].snapshots, item, stream[r].status)
         /\ stream' = [stream EXCEPT ![r].pc = pc, ![r].status = status] =>
              Turns(r, pc, stream[r].snapshots, stream[r].item, status)
         /\ stream' = [stream EXCEPT ![r].snapshots = rest] =>
              Turns(r, stream[r].pc, rest, stream[r].item, stream[r].status)
         /\ LeaveWith(r, status) => Turns(r, "leave", stream[r].snapshots, None, status)
<1>1. stream = [q \in Streams |-> stream[q]] /\ IsHandler(stream[r])
  BY DEF StreamsOK, HandlersTyped
<1>2. PICK p, k, q, i, s, x, e :
        stream[r] = [pc |-> p, kind |-> k, request |-> q, id |-> i, snapshots |-> s, item |-> x, status |-> e]
  BY <1>1 DEF IsHandler
<1>3. ASSUME NEW a, NEW b, NEW c, NEW d,
             stream' = [o \in Streams |-> stream'[o]],
             stream'[r] = [pc |-> a, kind |-> k, request |-> q, id |-> i, snapshots |-> b, item |-> c, status |-> d],
             \A o \in Streams \ {r} : stream'[o] = stream[o]
      PROVE  Turns(r, a, b, c, d)
  BY <1>2, <1>3 DEF Turns
<1>4. PICK y : y = [stream[r] EXCEPT !.pc = pc]
  OBVIOUS
<1>5. y = [pc |-> pc, kind |-> k, request |-> q, id |-> i, snapshots |-> s, item |-> x, status |-> e]
  BY <1>2, <1>4
<1>6. PICK a : a = [stream EXCEPT ![r] = y]
  OBVIOUS
<1>7. a = [o \in Streams |-> a[o]] /\ a[r] = y /\ \A o \in Streams \ {r} : a[o] = stream[o]
  BY <1>1, <1>6, HandlerSet
<1>8. ASSUME Goto(r, pc) PROVE Turns(r, pc, stream[r].snapshots, stream[r].item, stream[r].status)
  <2>1. stream' = a
    BY <1>4, <1>6, <1>8 DEF Goto
  <2> QED  BY <1>2, <1>3, <1>5, <1>7, <2>1
<1>9. ASSUME stream' = [stream EXCEPT ![r].pc = pc, ![r].item = item]
      PROVE  Turns(r, pc, stream[r].snapshots, item, stream[r].status)
  <2>1. PICK z : z = [y EXCEPT !.item = item]
    OBVIOUS
  <2>2. z = [pc |-> pc, kind |-> k, request |-> q, id |-> i, snapshots |-> s, item |-> item, status |-> e]
    BY <1>5, <2>1
  <2>3. stream' = [a EXCEPT ![r] = z]
    BY <1>4, <1>6, <1>7, <1>9, <2>1
  <2>4. stream' = [o \in Streams |-> stream'[o]] /\ stream'[r] = z
        /\ \A o \in Streams \ {r} : stream'[o] = a[o]
    BY <1>7, <2>3, HandlerSet
  <2> QED  BY <1>2, <1>3, <1>7, <2>2, <2>4
<1>10. ASSUME stream' = [stream EXCEPT ![r].pc = pc, ![r].status = status]
      PROVE  Turns(r, pc, stream[r].snapshots, stream[r].item, status)
  <2>1. PICK z : z = [y EXCEPT !.status = status]
    OBVIOUS
  <2>2. z = [pc |-> pc, kind |-> k, request |-> q, id |-> i, snapshots |-> s, item |-> x, status |-> status]
    BY <1>5, <2>1
  <2>3. stream' = [a EXCEPT ![r] = z]
    BY <1>4, <1>6, <1>7, <1>10, <2>1
  <2>4. stream' = [o \in Streams |-> stream'[o]] /\ stream'[r] = z
        /\ \A o \in Streams \ {r} : stream'[o] = a[o]
    BY <1>7, <2>3, HandlerSet
  <2> QED  BY <1>2, <1>3, <1>7, <2>2, <2>4
<1>11. ASSUME stream' = [stream EXCEPT ![r].snapshots = rest]
       PROVE  Turns(r, stream[r].pc, rest, stream[r].item, stream[r].status)
  <2>1. PICK z : z = [stream[r] EXCEPT !.snapshots = rest]
    OBVIOUS
  <2>2. z = [pc |-> p, kind |-> k, request |-> q, id |-> i, snapshots |-> rest, item |-> x, status |-> e]
    BY <1>2, <2>1
  <2>3. stream' = [stream EXCEPT ![r] = z]
    BY <1>11, <2>1
  <2>4. stream' = [o \in Streams |-> stream'[o]] /\ stream'[r] = z
        /\ \A o \in Streams \ {r} : stream'[o] = stream[o]
    BY <1>1, <2>3, HandlerSet
  <2> QED  BY <1>2, <1>3, <2>2, <2>4
<1>12. ASSUME LeaveWith(r, status) PROVE Turns(r, "leave", stream[r].snapshots, None, status)
  <2>1. PICK a1 : a1 = [stream[r] EXCEPT !.pc = "leave"]
    OBVIOUS
  <2>2. a1 = [pc |-> "leave", kind |-> k, request |-> q, id |-> i, snapshots |-> s, item |-> x, status |-> e]
    BY <1>2, <2>1
  <2>3. PICK a2 : a2 = [a1 EXCEPT !.item = None]
    OBVIOUS
  <2>4. a2 = [pc |-> "leave", kind |-> k, request |-> q, id |-> i, snapshots |-> s, item |-> None, status |-> e]
    BY <2>2, <2>3
  <2>5. PICK z : z = [a2 EXCEPT !.status = status]
    OBVIOUS
  <2>6. z = [pc |-> "leave", kind |-> k, request |-> q, id |-> i, snapshots |-> s, item |-> None, status |-> status]
    BY <2>4, <2>5
  <2>7. stream' = [stream EXCEPT ![r] = z]
    BY <1>1, <1>12, <2>1, <2>3, <2>5 DEF LeaveWith
  <2>8. stream' = [o \in Streams |-> stream'[o]] /\ stream'[r] = z
        /\ \A o \in Streams \ {r} : stream'[o] = stream[o]
    BY <1>1, <2>7, HandlerSet
  <2> QED  BY <1>2, <1>3, <2>6, <2>8
<1> QED  BY <1>8, <1>9, <1>10, <1>11, <1>12

\* A state of a handler, put together.
LEMMA HandlerMade ==
  ASSUME NEW pc \in Places, NEW kind \in Kinds \cup {"None"}, NEW request, NEW id, NEW rest, NEW item,
         NEW status \in StatusCodes,
         IF id = 0 THEN kind = "None" /\ pc \in {"none", "done"} ELSE kind # "None" /\ pc # "none",
         IF pc = "write" THEN item \in FeedItem ELSE item = None,
         kind = "Market" => request \in MarketRequests /\ Asked(request) \subseteq Symbols,
         kind = "Replies" => request \in Gateways
  PROVE  IsHandler([pc |-> pc, kind |-> kind, request |-> request, id |-> id, snapshots |-> rest,
                    item |-> item, status |-> status])
<1> DEFINE y == [pc |-> pc, kind |-> kind, request |-> request, id |-> id, snapshots |-> rest,
                 item |-> item, status |-> status]
<1>1. /\ y.pc = pc /\ y.kind = kind /\ y.request = request /\ y.id = id /\ y.snapshots = rest
      /\ y.item = item /\ y.status = status
  OBVIOUS
<1>2. y = [pc |-> y.pc, kind |-> y.kind, request |-> y.request, id |-> y.id, snapshots |-> y.snapshots,
           item |-> y.item, status |-> y.status]
  BY <1>1
<1> HIDE DEF y
<1>3. IsHandler(y)
  BY <1>1, <1>2 DEF IsHandler
<1> QED  BY <1>3 DEF y

LEMMA TurnKeepsTyped ==
  ASSUME HandlersTyped, NEW r \in Streams, NEW pc \in Places \ {"none"}, NEW rest, NEW item,
         NEW status \in StatusCodes, Turns(r, pc, rest, item, status),
         IF pc = "write" THEN item \in FeedItem ELSE item = None,
         stream[r].id = 0 => pc = "done",
         \/ UNCHANGED sent
         \/ stream[r].id # 0 /\ \E x \in FeedItem : sent' = [sent EXCEPT ![r] = Append(@, x)]
  PROVE  HandlersTyped'
<1>1. /\ stream'[r] = [pc |-> pc, kind |-> stream[r].kind, request |-> stream[r].request,
                       id |-> stream[r].id, snapshots |-> rest, item |-> item, status |-> status]
      /\ \A q \in Streams \ {r} : stream'[q] = stream[q]
  BY DEF Turns
<1>2. \A q \in Streams : IsHandler(stream[q])
  BY DEF HandlersTyped
<1>3. IsHandler(stream'[r])
  <2>1. /\ stream[r].kind \in Kinds \cup {"None"}
        /\ stream[r].id = 0 <=> stream[r].kind = "None"
        /\ stream[r].kind = "Market" =>
             stream[r].request \in MarketRequests /\ Asked(stream[r].request) \subseteq Symbols
        /\ stream[r].kind = "Replies" => stream[r].request \in Gateways
    BY <1>2 DEF IsHandler
  <2> QED  BY <1>1, <2>1, HandlerMade
<1>4. \A q \in Streams : IsHandler(stream'[q]) /\ stream'[q].id = stream[q].id
  BY <1>1, <1>2, <1>3
<1>5. /\ sent' \in [Streams -> Seq(FeedItem)]
      /\ \A q \in Streams : stream'[q].id = 0 => sent'[q] = <<>>
  <2>1. CASE UNCHANGED sent
    BY <1>4, <2>1 DEF HandlersTyped
  <2>2. CASE stream[r].id # 0 /\ \E x \in FeedItem : sent' = [sent EXCEPT ![r] = Append(@, x)]
    <3>1. PICK x \in FeedItem : sent' = [sent EXCEPT ![r] = Append(sent[r], x)]
      BY <2>2
    <3>2. Append(sent[r], x) \in Seq(FeedItem)
      BY DEF HandlersTyped
    <3>3. sent' \in [Streams -> Seq(FeedItem)] /\ \A q \in Streams \ {r} : sent'[q] = sent[q]
      BY <3>1, <3>2 DEF HandlersTyped
    <3> QED  BY <1>4, <2>2, <3>3 DEF HandlersTyped
  <2> QED  BY <2>1, <2>2
<1>6. \A q, p \in Streams : stream'[q].id = stream'[p].id /\ stream'[q].id # 0 => q = p
  BY <1>4 DEF HandlersTyped
<1> QED  BY <1>4, <1>5, <1>6 DEF HandlersTyped

\* A new subscriber's handler.
LEMMA AcceptedIs ==
  ASSUME StreamsOK, HandlersTyped, NEW r \in Streams, stream[r].pc = "none",
         NEW kind, NEW request, NEW pc, NEW snapshots, Accepted(r, kind, request, pc, snapshots)
  PROVE  /\ stream'[r] = [pc |-> pc, kind |-> kind, request |-> request, id |-> next_id,
                          snapshots |-> snapshots, item |-> None, status |-> stream[r].status]
         /\ \A q \in Streams \ {r} : stream'[q] = stream[q]
<1>1. stream = [q \in Streams |-> stream[q]] /\ IsHandler(stream[r])
  BY DEF StreamsOK, HandlersTyped
<1>2. PICK p, k, q, i, s, x, e :
        stream[r] = [pc |-> p, kind |-> k, request |-> q, id |-> i, snapshots |-> s, item |-> x, status |-> e]
  BY <1>1 DEF IsHandler
<1>3. x = None
  BY <1>1, <1>2 DEF IsHandler
<1>4. stream'[r] = [stream[r] EXCEPT !.pc = pc, !.kind = kind, !.request = request, !.id = next_id,
                                     !.snapshots = snapshots]
  BY <1>1 DEF Accepted
<1>5. stream'[r] = [pc |-> pc, kind |-> kind, request |-> request, id |-> next_id,
                    snapshots |-> snapshots, item |-> x, status |-> e]
  <2>1. PICK a1 : a1 = [stream[r] EXCEPT !.pc = pc]
    OBVIOUS
  <2>2. a1 = [pc |-> pc, kind |-> k, request |-> q, id |-> i, snapshots |-> s, item |-> x, status |-> e]
    BY <1>2, <2>1
  <2>3. PICK a2 : a2 = [a1 EXCEPT !.kind = kind]
    OBVIOUS
  <2>4. a2 = [pc |-> pc, kind |-> kind, request |-> q, id |-> i, snapshots |-> s, item |-> x, status |-> e]
    BY <2>2, <2>3
  <2>5. PICK a3 : a3 = [a2 EXCEPT !.request = request]
    OBVIOUS
  <2>6. a3 = [pc |-> pc, kind |-> kind, request |-> request, id |-> i, snapshots |-> s, item |-> x, status |-> e]
    BY <2>4, <2>5
  <2>7. PICK a4 : a4 = [a3 EXCEPT !.id = next_id]
    OBVIOUS
  <2>8. a4 = [pc |-> pc, kind |-> kind, request |-> request, id |-> next_id, snapshots |-> s, item |-> x, status |-> e]
    BY <2>6, <2>7
  <2>9. PICK a5 : a5 = [a4 EXCEPT !.snapshots = snapshots]
    OBVIOUS
  <2>10. a5 = [pc |-> pc, kind |-> kind, request |-> request, id |-> next_id, snapshots |-> snapshots, item |-> x, status |-> e]
    BY <2>8, <2>9
  <2>11. stream'[r] = a5
    BY <1>4, <2>1, <2>3, <2>5, <2>7, <2>9
  <2> QED  BY <2>10, <2>11
<1>6. \A p2 \in Streams \ {r} : stream'[p2] = stream[p2]
  BY <1>1 DEF Accepted
<1> QED  BY <1>2, <1>3, <1>5, <1>6

LEMMA AcceptedKeepsTyped ==
  ASSUME SeatsInv, HandlersTyped, NEW r \in Streams, stream[r].pc = "none", UNCHANGED sent,
         NEW kind \in Kinds, NEW request, NEW pc \in Places \ {"none", "done", "write"}, NEW snapshots,
         Accepted(r, kind, request, pc, snapshots),
         kind = "Market" => request \in MarketRequests /\ Asked(request) \subseteq Symbols,
         kind = "Replies" => request \in Gateways
  PROVE  HandlersTyped'
<1>1. /\ stream'[r] = [pc |-> pc, kind |-> kind, request |-> request, id |-> next_id,
                       snapshots |-> snapshots, item |-> None, status |-> stream[r].status]
      /\ \A q \in Streams \ {r} : stream'[q] = stream[q]
  BY AcceptedIs DEF SeatsInv
<1>2. \A q \in Streams : IsHandler(stream[q]) /\ stream[q].id \in 0 .. next_id - 1
  BY DEF HandlersTyped, SeatsInv, StreamsOK
<1>3. next_id \in Nat \ {0} /\ kind # "None"
  BY DEF SeatsInv, RegistryInv, RegistryOK, Kinds
<1>4. IsHandler(stream'[r]) /\ stream'[r].id = next_id
  <2>1. stream[r].status \in StatusCodes /\ None = None
    BY <1>2 DEF IsHandler
  <2>2. stream'[r].id = next_id
    BY <1>1
  <2> QED  BY <1>1, <1>3, <2>1, <2>2, HandlerMade
<1>5. \A q \in Streams : IsHandler(stream'[q])
  BY <1>1, <1>2, <1>4
<1>6. \A q \in Streams : stream'[q].id = 0 => stream[q].id = 0
  BY <1>1, <1>3, <1>4
<1>7. \A q, p \in Streams : stream'[q].id = stream'[p].id /\ stream'[q].id # 0 => q = p
  <2>1. \A q \in Streams \ {r} : stream'[q].id # next_id
    BY <1>1, <1>2, <1>3
  <2> QED  BY <1>1, <1>4, <2>1 DEF HandlersTyped
<1> QED  BY <1>5, <1>6, <1>7 DEF HandlersTyped

-----------------------------------------------------------------------------
(* Every step keeps the types *)

\* The handler of an open stream.
LEMMA HandlerAt ==
  ASSUME SeatsInv, TypedInv, NEW r \in Streams, stream[r].pc \notin {"none", "done"}
  PROVE  /\ stream[r].id # 0 /\ stream[r].id \in DOMAIN subscription
         /\ stream[r].status \in StatusCodes
         /\ IF stream[r].pc = "write" THEN stream[r].item \in FeedItem ELSE stream[r].item = None
<1>1. IsHandler(stream[r])
  BY DEF TypedInv, HandlersTyped
<1>2. stream[r].id \in 0 .. next_id - 1 /\ DOMAIN subscription = 1 .. next_id - 1 /\ next_id \in Nat \ {0}
  BY RegistryIs DEF SeatsInv, StreamsOK, TypedInv
<1> QED  BY <1>1, <1>2 DEF IsHandler

LEMMA SameTyped ==
  ASSUME TypedInv
  PROVE  /\ UNCHANGED <<subscription, subscribers, next_id, too_slow>> => RegistryTyped'
         /\ UNCHANGED <<stream, sent>> => HandlersTyped'
         /\ UNCHANGED <<closed, cancelled, phase>> => MainTyped'
BY DEF TypedInv, RegistryTyped, HandlersTyped, MainTyped

\* What a queue is without its first item.
LEMMA QueueTaken ==
  ASSUME NEW sub, IsSubscription(sub), IsQueue(sub), sub.items # <<>>
  PROVE  LET left == [sub EXCEPT !.items = Tail(@)] IN
         /\ IsQueue(left) /\ left.items = Tail(sub.items) /\ Head(sub.items) \in FeedItem
         /\ left.gateway = sub.gateway /\ left.capacity = sub.capacity /\ left.end_reason = sub.end_reason
<1>0. PICK g, i, e, c : sub = [gateway |-> g, items |-> i, end_reason |-> e, capacity |-> c]
  BY DEF IsSubscription
<1>1. Tail(i) \in Seq(FeedItem) /\ Head(i) \in FeedItem
  BY <1>0, Taken DEF IsQueue
<1>2. PICK rest : rest = Tail(i)
  OBVIOUS
<1>3. PICK left : left = [sub EXCEPT !.items = rest]
  OBVIOUS
<1>4. left = [gateway |-> g, items |-> rest, end_reason |-> e, capacity |-> c]
  BY <1>0, <1>3
<1>5. [sub EXCEPT !.items = Tail(@)] = left
  BY <1>0, <1>2, <1>3
<1> QED  BY <1>0, <1>1, <1>2, <1>4, <1>5 DEF IsQueue

LEMMA NextForKeepsTyped ==
  ASSUME SeatsInv, TypedInv, NEW r \in Streams, NextFor(r)
  PROVE  TypedInv'
<1>1. /\ stream[r].pc = "next" /\ stream[r].id # 0 /\ stream[r].id \in DOMAIN subscription
      /\ stream[r].status \in StatusCodes /\ stream[r].item = None
  BY HandlerAt DEF NextFor, At
<1>2. StreamsOK /\ HandlersTyped /\ RegistryInv
  BY DEF SeatsInv, TypedInv
<1>3. PICK id : id = stream[r].id
  OBVIOUS
<1>4. IsSubscription(subscription[id]) /\ IsQueue(subscription[id])
  BY <1>1, <1>2, <1>3, RegistryIs DEF TypedInv
<1>5. UNCHANGED sent /\ MainTyped'
  BY SameTyped DEF NextFor, mainVars
<1>6. CASE subscription[id].items # <<>>
  <2>1. PICK left : left = [subscription[id] EXCEPT !.items = Tail(@)]
    OBVIOUS
  <2>2. PICK item : item = Head(subscription[id].items)
    OBVIOUS
  <2>3. /\ subscription' = [subscription EXCEPT ![id] = left]
        /\ stream' = [stream EXCEPT ![r].pc = "write", ![r].item = item]
        /\ UNCHANGED <<subscribers, next_id, too_slow>>
    BY <1>3, <1>6, <2>1, <2>2 DEF NextFor
  <2>4. IsQueue(left) /\ item \in FeedItem
    BY <1>4, <1>6, <2>1, <2>2, QueueTaken
  <2>5. RegistryTyped'
    BY <2>3, <2>4 DEF RegistryTyped, TypedInv, SeatsInv, RegistryInv, RegistryOK
  <2>6. Turns(r, "write", stream[r].snapshots, item, stream[r].status)
    BY <1>2, <2>3, HandlerTurns
  <2>7. HandlersTyped'
    BY <1>1, <1>2, <1>5, <2>4, <2>6, TurnKeepsTyped DEF Places
  <2> QED  BY <1>5, <2>5, <2>7 DEF TypedInv
<1>7. CASE subscription[id].items = <<>>
  <2>1. Goto(r, "empty") /\ UNCHANGED <<subscription, subscribers, next_id, too_slow>>
    BY <1>3, <1>7 DEF NextFor
  <2>2. Turns(r, "empty", stream[r].snapshots, None, stream[r].status)
    BY <1>1, <1>2, <2>1, HandlerTurns
  <2>3. HandlersTyped'
    BY <1>1, <1>2, <1>5, <2>2, TurnKeepsTyped DEF Places
  <2> QED  BY <1>5, <2>1, <2>3, SameTyped DEF TypedInv
<1> QED  BY <1>6, <1>7

LEMMA LeaveKeepsTyped ==
  ASSUME SeatsInv, TypedInv, NEW r \in Streams, LeaveStream(r)
  PROVE  TypedInv'
<1>1. /\ stream[r].pc = "leave" /\ stream[r].id # 0
      /\ stream[r].status \in StatusCodes /\ stream[r].item = None
  BY HandlerAt DEF LeaveStream, At
<1>2. StreamsOK /\ HandlersTyped /\ RegistryInv /\ RegistryTyped
  BY DEF SeatsInv, TypedInv
<1>3. UNCHANGED sent /\ MainTyped'
  BY SameTyped DEF LeaveStream, unsubscribe, mainVars
<1>4. Goto(r, "done") /\ Unlocked /\ UNCHANGED <<next_id, too_slow>> /\ Drop(stream[r].id, "Unsubscribed")
  BY DEF LeaveStream, unsubscribe
<1>5. RegistryTyped'
  BY <1>2, <1>4, DropKeepsTyped DEF Unlocked, EndReasons
<1>6. Turns(r, "done", stream[r].snapshots, None, stream[r].status)
  BY <1>1, <1>2, <1>4, HandlerTurns
<1>7. HandlersTyped'
  BY <1>1, <1>2, <1>3, <1>6, TurnKeepsTyped DEF Places
<1> QED  BY <1>3, <1>5, <1>7 DEF TypedInv

\* A handler goes on, and the publisher's state stays.
LEMMA PumpKeepsTyped ==
  ASSUME SeatsInv, TypedInv, NEW r \in Streams, UNCHANGED publisherVars, UNCHANGED mainVars,
         UNCHANGED cancelled, stream[r].pc \notin {"none", "done"},
         \/ /\ UNCHANGED sent
            /\ \/ stream[r].pc # "write" /\ \E pc \in {"check", "next"} : Goto(r, pc)
               \/ \E status \in StatusCodes : LeaveWith(r, status)
               \/ \E rest : stream' = [stream EXCEPT ![r].snapshots = rest]
         \/ /\ stream[r].pc = "write"
            /\ stream' = [stream EXCEPT ![r].pc = "check", ![r].item = None]
            /\ sent' = [sent EXCEPT ![r] = Append(@, stream[r].item)]
  PROVE  TypedInv'
<1>1. /\ stream[r].id # 0 /\ stream[r].status \in StatusCodes
      /\ IF stream[r].pc = "write" THEN stream[r].item \in FeedItem ELSE stream[r].item = None
  BY HandlerAt
<1>2. StreamsOK /\ HandlersTyped /\ stream[r].pc \in Places
  BY DEF SeatsInv, TypedInv, HandlersTyped, IsHandler
<1>3. RegistryTyped' /\ MainTyped'
  BY SameTyped DEF publisherVars, mainVars
<1>4. ASSUME UNCHANGED sent, stream[r].pc # "write", NEW pc \in {"check", "next"}, Goto(r, pc)
      PROVE  HandlersTyped'
  <2>1. Turns(r, pc, stream[r].snapshots, None, stream[r].status)
    BY <1>1, <1>2, <1>4, HandlerTurns
  <2> QED  BY <1>1, <1>2, <1>4, <2>1, TurnKeepsTyped DEF Places
<1>5. ASSUME UNCHANGED sent, NEW status \in StatusCodes, LeaveWith(r, status)
      PROVE  HandlersTyped'
  <2>1. Turns(r, "leave", stream[r].snapshots, None, status)
    BY <1>2, <1>5, HandlerTurns
  <2> QED  BY <1>1, <1>2, <1>5, <2>1, TurnKeepsTyped DEF Places
<1>6. ASSUME UNCHANGED sent, NEW rest, stream' = [stream EXCEPT ![r].snapshots = rest]
      PROVE  HandlersTyped'
  <2>1. Turns(r, stream[r].pc, rest, stream[r].item, stream[r].status)
    BY <1>2, <1>6, HandlerTurns
  <2> QED  BY <1>1, <1>2, <1>6, <2>1, TurnKeepsTyped
<1>7. ASSUME stream[r].pc = "write", stream' = [stream EXCEPT ![r].pc = "check", ![r].item = None],
             sent' = [sent EXCEPT ![r] = Append(@, stream[r].item)]
      PROVE  HandlersTyped'
  <2>1. Turns(r, "check", stream[r].snapshots, None, stream[r].status)
    BY <1>2, <1>7, HandlerTurns
  <2> QED  BY <1>1, <1>2, <1>7, <2>1, TurnKeepsTyped DEF Places
<1> QED  BY <1>3, <1>4, <1>5, <1>6, <1>7 DEF TypedInv

LEMMA HandlersKeepTyped ==
  ASSUME SeatsInv, TypedInv, NEW r \in Streams, HandlerStep(r) \/ Write(r)
  PROVE  TypedInv'
<1>1. CASE RequestSnapshot(r)
  <2>1. /\ stream[r].pc = "request" /\ UNCHANGED <<publisherVars, mainVars, sent, cancelled>>
        /\ Goto(r, "check") \/ \E rest : stream' = [stream EXCEPT ![r].snapshots = rest]
    BY <1>1 DEF RequestSnapshot, At
  <2> QED  BY <2>1, PumpKeepsTyped
<1>2. CASE CheckCancelled(r)
  <2>1. /\ stream[r].pc = "check" /\ UNCHANGED <<publisherVars, mainVars, sent, cancelled>>
        /\ Goto(r, "next") \/ LeaveWith(r, "CANCELLED")
    BY <1>2 DEF CheckCancelled, At
  <2> QED  BY <2>1, PumpKeepsTyped DEF StatusCodes
<1>3. CASE CheckEnded(r)
  <2>1. PICK sub : sub = subscription[stream[r].id]
    OBVIOUS
  <2>2. /\ stream[r].pc = "empty" /\ UNCHANGED <<publisherVars, mainVars, sent, cancelled>>
        /\ Goto(r, "check") \/ (HasEnded(sub) /\ LeaveWith(r, EndStatus(sub.end_reason)))
    BY <1>3, <2>1 DEF CheckEnded, At
  <2>3. sub.end_reason \in EndReasons
    BY <2>1, <2>2, HandlerAt, RegistryIs DEF SeatsInv, TypedInv, IsQueue
  <2>4. HasEnded(sub) => EndStatus(sub.end_reason) \in StatusCodes
    BY <2>3 DEF HasEnded, EndReasons, EndStatus, StatusCodes
  <2> QED  BY <2>2, <2>4, PumpKeepsTyped
<1>4. CASE WriteFails(r)
  <2>1. /\ stream[r].pc = "write" /\ UNCHANGED <<publisherVars, mainVars, sent, cancelled>>
        /\ LeaveWith(r, "CANCELLED")
    BY <1>4 DEF WriteFails, At
  <2> QED  BY <2>1, PumpKeepsTyped DEF StatusCodes
<1>5. CASE Write(r)
  <2>1. /\ stream[r].pc = "write" /\ UNCHANGED <<publisherVars, mainVars, cancelled>>
        /\ sent' = [sent EXCEPT ![r] = Append(@, stream[r].item)]
        /\ stream' = [stream EXCEPT ![r].pc = "check", ![r].item = None]
    BY <1>5 DEF Write, At
  <2> QED  BY <2>1, PumpKeepsTyped
<1> QED  BY <1>1, <1>2, <1>3, <1>4, <1>5, NextForKeepsTyped, LeaveKeepsTyped DEF HandlerStep

\* A request that subscribe does not refuse.
LEMMA RequestIsGood ==
  ASSUME NEW q \in MarketRequests, SubscribeError(q) = "None"
  PROVE  /\ q.gateway \in Gateways /\ q.gateway \notin DOMAIN market_by_gateway /\ ~closed
         /\ Asked(q) \subseteq Symbols
         /\ DOMAIN q.from_seq \subseteq Asked(q)
         /\ \A s \in DOMAIN q.from_seq :
              q.from_seq[s] \in Nat \ {0} /\ ~TooOld(s, q.from_seq[s])
<1>1. q.gateway \in Gateways \cup {None} /\ \A s \in DOMAIN q.from_seq : q.from_seq[s] \in Nat
  BY PublisherAssumption
<1>2. /\ q.gateway # None /\ Asked(q) \subseteq Symbols
      /\ ~ \E s \in DOMAIN q.from_seq : s \notin Asked(q) \/ q.from_seq[s] < 1
      /\ ~closed /\ q.gateway \notin DOMAIN market_by_gateway
      /\ ~ \E s \in DOMAIN q.from_seq : TooOld(s, q.from_seq[s])
  BY DEF SubscribeError
<1> QED  BY <1>1, <1>2

LEMMA StartIs ==
  ASSUME NEW q \in MarketRequests, SubscribeError(q) = "None"
  PROVE  [s \in Asked(q) |-> StartOf(q, s)] \in [Asked(q) -> SymbolState]
<1> SUFFICES ASSUME NEW s \in Asked(q) PROVE StartOf(q, s) \in SymbolState
  OBVIOUS
<1>1. CASE s \in DOMAIN q.from_seq
  BY <1>1, RequestIsGood DEF StartOf, SymbolState
<1>2. CASE s \notin DOMAIN q.from_seq
  BY <1>2 DEF StartOf, SymbolState
<1> QED  BY <1>1, <1>2

LEMMA NewIsQueue ==
  ASSUME NEW gateway, NEW capacity \in Nat, NEW items \in Seq(FeedItem)
  PROVE  /\ IsQueue(NewSubscription(gateway, capacity, items))
         /\ NewSubscription(gateway, capacity, items).items = items
BY DEF NewSubscription, IsQueue, EndReasons

\* A call of subscribe that is refused ends its handler.
LEMMA RefusedKeepsTyped ==
  ASSUME SeatsInv, TypedInv, NEW r \in Streams, stream[r].pc = "none", UNCHANGED sent,
         UNCHANGED mainVars, UNCHANGED cancelled,
         NEW error \in {"EmptyGatewayId", "BadFromSeq", "GatewayAlreadySubscribed", "UnknownSymbol",
                        "Closed", "TooOld"}, Refused(r, error)
  PROVE  TypedInv'
<1>1. StatusOf(error) \in StatusCodes
  BY DEF StatusOf, StatusCodes
<1>2. StreamsOK /\ HandlersTyped /\ stream[r].id = 0 /\ stream[r].item = None
  BY DEF SeatsInv, TypedInv, HandlersTyped, IsHandler, StreamsOK, At
<1>3. Turns(r, "done", stream[r].snapshots, None, StatusOf(error))
  BY <1>2, HandlerTurns DEF Refused
<1>4. HandlersTyped'
  BY <1>1, <1>2, <1>3, TurnKeepsTyped DEF Places
<1> QED  BY <1>4, SameTyped DEF Refused, publisherVars, mainVars, TypedInv

LEMMA SubscribeKeepsTyped ==
  ASSUME OrderInv, TypedInv, NEW r \in Streams, NEW q \in MarketRequests, Subscribe(r, q)
  PROVE  TypedInv'
<1>1. /\ stream[r].pc = "none" /\ UNCHANGED <<sent, cancelled, mainVars>>
      /\ SeatsInv /\ RegistryInv /\ RegistryTyped /\ HandlersTyped /\ LineTypeOK /\ HistoryIsWindow
  BY DEF Subscribe, At, OrderInv, SeatsInv, LineInv, EventsInOrder, TypedInv
<1>2. CASE subscribe(q) /\ Accepted(r, "Market", q, "request", Snapshots(q))
  <2>1. SubscribeError(q) = "None" /\ UNCHANGED <<closed, too_slow>>
    BY <1>2 DEF subscribe
  <2>2. PICK items : items = Replay(q)
    OBVIOUS
  <2>3. items \in Seq(FeedItem)
    BY <1>1, <2>1, <2>2, ReplayIs
  <2>4. QueueCapacity + Len(items) \in Nat
    BY <2>3, PublisherAssumption
  <2>5. PICK queue : queue = NewSubscription(q.gateway, QueueCapacity + Len(items), items)
    OBVIOUS
  <2>6. PICK symbols : symbols = [s \in Asked(q) |-> StartOf(q, s)]
    OBVIOUS
  <2>7. IsQueue(queue)
    BY <2>3, <2>4, <2>5, NewIsQueue
  <2>8. symbols \in [Asked(q) -> SymbolState] /\ Asked(q) \in SUBSET Symbols
    BY <2>1, <2>6, StartIs, RequestIsGood
  <2>9. Register("Market", symbols, queue)
    BY <1>2, <2>2, <2>5, <2>6 DEF subscribe
  <2>10. RegistryTyped'
    BY <1>1, <2>1, <2>7, <2>8, <2>9, RegisterKeepsTyped
  <2>11. HandlersTyped'
    BY <1>1, <1>2, <2>8, AcceptedKeepsTyped DEF Kinds, Places
  <2> QED  BY <1>1, <2>1, <2>10, <2>11, SameTyped DEF mainVars, TypedInv
<1>3. CASE SubscribeError(q) # "None" /\ Refused(r, SubscribeError(q))
  <2>1. SubscribeError(q) \in {"EmptyGatewayId", "BadFromSeq", "GatewayAlreadySubscribed", "UnknownSymbol",
                               "Closed", "TooOld"}
    BY <1>3 DEF SubscribeError
  <2> QED  BY <1>1, <1>3, <2>1, RefusedKeepsTyped
<1> QED  BY <1>2, <1>3 DEF Subscribe

LEMMA SubscribeRepliesKeepsTyped ==
  ASSUME OrderInv, TypedInv, NEW r \in Streams, NEW gateway \in RepliesGateways, SubscribeReplies(r, gateway)
  PROVE  TypedInv'
<1>1. /\ stream[r].pc = "none" /\ UNCHANGED <<sent, cancelled, mainVars>>
      /\ SeatsInv /\ RegistryInv /\ RegistryTyped /\ HandlersTyped
  BY DEF SubscribeReplies, At, OrderInv, SeatsInv, TypedInv
<1>2. CASE subscribe_replies(gateway) /\ Accepted(r, "Replies", gateway, "check", {})
  <2>1. UNCHANGED <<closed, too_slow>> /\ gateway \in Gateways
    BY <1>2, EngineFeedAssumption DEF subscribe_replies, SubscribeRepliesError
  <2>2. PICK queue : queue = NewSubscription(gateway, QueueCapacity, <<>>)
    OBVIOUS
  <2>3. QueueCapacity \in Nat /\ <<>> \in Seq(FeedItem)
    BY PublisherAssumption
  <2>4. IsQueue(queue)
    BY <2>2, <2>3, NewIsQueue
  <2>5. Register("Replies", <<>>, queue)
    BY <1>2, <2>2 DEF subscribe_replies
  <2>6. <<>> \in [{} -> SymbolState] /\ {} \in SUBSET Symbols
    OBVIOUS
  <2>7. RegistryTyped'
    BY <1>1, <2>1, <2>4, <2>5, <2>6, RegisterKeepsTyped
  <2>8. HandlersTyped'
    BY <1>1, <1>2, <2>1, AcceptedKeepsTyped DEF Kinds, Places
  <2> QED  BY <1>1, <2>1, <2>7, <2>8, SameTyped DEF mainVars, TypedInv
<1>3. CASE SubscribeRepliesError(gateway) # "None" /\ Refused(r, SubscribeRepliesError(gateway))
  <2>1. SubscribeRepliesError(gateway) \in {"EmptyGatewayId", "GatewayAlreadySubscribed", "Closed"}
    BY <1>3 DEF SubscribeRepliesError
  <2> QED  BY <1>1, <1>3, <2>1, RefusedKeepsTyped
<1> QED  BY <1>2, <1>3 DEF SubscribeReplies

\* The symbol of a snapshot goes live.
LEMMA LiveKeepsStates ==
  ASSUME NEW entry, IsSubscriber(entry), HasStates(entry), NEW s
  PROVE  LET new == [entry EXCEPT !.symbols[s].live = TRUE] IN
         /\ HasStates(new) /\ new.kind = entry.kind
         /\ s \in DOMAIN entry.symbols =>
              new.symbols = [entry.symbols EXCEPT
                ![s] = [live |-> TRUE, skip_below |-> entry.symbols[s].skip_below]]
<1>1. PICK kind, states : entry = [kind |-> kind, symbols |-> states]
  BY DEF IsSubscriber
<1>2. PICK known \in SUBSET Symbols : states \in [known -> SymbolState]
  BY <1>1 DEF HasStates
<1>3. PICK state : state = [states[s] EXCEPT !.live = TRUE]
  OBVIOUS
<1>4. s \in known =>
        state = [live |-> TRUE, skip_below |-> states[s].skip_below] /\ state \in SymbolState
  BY <1>2, <1>3 DEF SymbolState
<1>5. PICK new : new = [states EXCEPT ![s] = state]
  OBVIOUS
<1>6. new \in [known -> SymbolState]
  BY <1>2, <1>4, <1>5
<1>7. PICK went : went = [entry EXCEPT !.symbols[s].live = TRUE]
  OBVIOUS
<1>8. went = [entry EXCEPT !.symbols = new]
  BY <1>1, <1>3, <1>5, <1>7
<1>9. went = [kind |-> kind, symbols |-> new]
  BY <1>1, <1>8
<1>10. went.symbols = new /\ went.kind = kind /\ entry.kind = kind /\ entry.symbols = states
  BY <1>1, <1>9
<1>11. s \in DOMAIN entry.symbols =>
         new = [entry.symbols EXCEPT ![s] = [live |-> TRUE, skip_below |-> entry.symbols[s].skip_below]]
  BY <1>2, <1>4, <1>5, <1>10
<1>12. HasStates(went)
  BY <1>6, <1>10 DEF HasStates
<1> QED  BY <1>7, <1>10, <1>11, <1>12

LEMMA RouteKeepsTyped ==
  ASSUME OrderInv, TypedInv, PublisherRoutes
  PROVE  TypedInv'
<1>1. /\ routing \in Output /\ UNCHANGED <<stream, sent, cancelled, phase>>
      /\ RegistryInv /\ RegistryTyped
  BY DEF PublisherRoutes, OrderInv, LineInv, LineTypeOK, SeatsInv, TypedInv, streamVars, mainVars
<1>2. HandlersTyped'
  BY <1>1, SameTyped
<1>3. CASE routing = OutboxClosed /\ Close
  BY <1>1, <1>2, <1>3, CloseKeepsTyped DEF TypedInv, MainTyped, Close
<1>4. ASSUME routing # OutboxClosed PROVE routing \in FeedItem
  BY <1>1, <1>4 DEF Output
<1>5. CASE RouteEvent(routing)
  <2>1. routing \in FeedItem
    BY <1>4, <1>5 DEF RouteEvent, OutboxClosed
  <2>2. /\ PushTo({id \in DOMAIN subscribers : Takes(id, routing)}, routing)
        /\ UNCHANGED <<subscribers, next_id, closed>>
    BY <1>5 DEF RouteEvent
  <2>3. RegistryTyped'
    BY <1>1, <2>1, <2>2, PushKeepsTyped DEF RegistryTyped
  <2> QED  BY <1>1, <1>2, <2>2, <2>3 DEF TypedInv, MainTyped
<1>6. CASE RouteReply(routing)
  <2>1. routing \in FeedItem
    BY <1>4, <1>6 DEF RouteReply, OutboxClosed
  <2>2. PICK ids \in SUBSET DOMAIN subscribers :
          PushTo(ids, routing) /\ UNCHANGED <<subscribers, next_id, closed>>
    BY <1>6 DEF RouteReply
  <2>3. RegistryTyped'
    BY <1>1, <2>1, <2>2, PushKeepsTyped DEF RegistryTyped
  <2> QED  BY <1>1, <1>2, <2>2, <2>3 DEF TypedInv, MainTyped
<1>7. CASE RouteSnapshot(routing)
  <2>1. UNCHANGED <<next_id, closed>> /\ routing \in FeedItem
    BY <1>4, <1>7 DEF RouteSnapshot, OutboxClosed
  <2>2. CASE Awaits(routing.subscriber, routing.symbol)
    <3>1. PICK id, s : id = routing.subscriber /\ s = routing.symbol
      OBVIOUS
    <3>2. /\ id \in DOMAIN subscribers
          /\ subscribers' = [subscribers EXCEPT ![id].symbols[s].live = TRUE]
          /\ PushTo({id}, routing)
      BY <1>7, <2>2, <3>1 DEF RouteSnapshot, Awaits
    <3>3. HasStates(subscribers'[id])
      BY <1>1, <3>2, LiveKeepsStates DEF RegistryTyped, RegistryInv, RegistryOK
    <3>4. /\ DOMAIN subscribers' = DOMAIN subscribers
          /\ \A i \in DOMAIN subscribers : HasStates(subscribers'[i])
      BY <1>1, <3>2, <3>3 DEF RegistryTyped, RegistryInv, RegistryOK
    <3>5. RegistryTyped'
      BY <1>1, <2>1, <3>2, <3>4, PushKeepsTyped
    <3> QED  BY <1>1, <1>2, <2>1, <3>5 DEF TypedInv, MainTyped
  <2>3. CASE ~Awaits(routing.subscriber, routing.symbol)
    <3>1. UNCHANGED <<subscribers, subscription, too_slow>>
      BY <1>7, <2>3 DEF RouteSnapshot
    <3> QED  BY <1>1, <1>2, <2>1, <3>1, SameTyped DEF TypedInv, MainTyped
  <2> QED  BY <2>2, <2>3
<1> QED  BY <1>3, <1>5, <1>6, <1>7 DEF PublisherRoutes

LEMMA NextKeepsTyped == OrderInv /\ TypedInv /\ [Next]_vars => TypedInv'
<1> SUFFICES ASSUME OrderInv, TypedInv, [Next]_vars PROVE TypedInv'
  OBVIOUS
<1>0. SeatsInv
  BY DEF OrderInv
<1>1. CASE UNCHANGED vars
  BY <1>1, SameTyped DEF vars, publisherVars, streamVars, mainVars, TypedInv
<1>2. ASSUME NEW w \in Workers, WorkerStep(w) PROVE TypedInv'
  BY <1>2, SameTyped DEF WorkerStep, WorkerTakes, WorkerPushes, publisherVars, streamVars, mainVars, TypedInv
<1>3. CASE PublisherPops
  BY <1>3, SameTyped DEF PublisherPops, publisherVars, streamVars, mainVars, TypedInv
<1>4. CASE PublisherDrops
  <2>1. PICK id \in too_slow : DropSlow(id)
    BY <1>4 DEF PublisherDrops
  <2>2. /\ Drop(id, "SlowConsumer") /\ too_slow' = too_slow \ {id}
        /\ UNCHANGED <<next_id, closed, stream, sent, cancelled, phase>>
    BY <1>4, <2>1 DEF DropSlow, PublisherDrops, streamVars, mainVars
  <2>3. too_slow' \subseteq DOMAIN subscribers \ {id}
    BY <2>2 DEF TypedInv, RegistryTyped
  <2>4. RegistryTyped'
    BY <1>0, <2>2, <2>3, DropKeepsTyped DEF SeatsInv, TypedInv, EndReasons
  <2> QED  BY <2>2, <2>4, SameTyped DEF TypedInv
<1>5. CASE MainStep \/ FeedsStop
  <2>1. /\ UNCHANGED <<publisherVars, stream, sent>>
        /\ \/ UNCHANGED phase
           \/ phase' \in {"workers", "publisher", "server", "cancelled", "stopped"}
        /\ UNCHANGED cancelled \/ cancelled' = cancelled \cup Open
    BY <1>5 DEF MainStep, FeedsStop, StopWorker, CloseOutbox, StopServer, GraceOver, ServerStopped,
                streamVars, mainVars
  <2>2. MainTyped'
    BY <2>1 DEF TypedInv, MainTyped, Open, publisherVars
  <2> QED  BY <2>1, <2>2, SameTyped DEF publisherVars, TypedInv
<1>6. ASSUME NEW s \in Symbols, NEW gateway \in Gateways, FeedSubmits(s, gateway) PROVE TypedInv'
  BY <1>6, SameTyped DEF FeedSubmits, publisherVars, streamVars, mainVars, TypedInv
<1>7. ASSUME NEW r \in Streams, ClientLeaves(r) PROVE TypedInv'
  <2>1. UNCHANGED <<publisherVars, mainVars, stream, sent>> /\ cancelled' = cancelled \cup {r}
    BY <1>7 DEF ClientLeaves
  <2>2. MainTyped'
    BY <2>1 DEF TypedInv, MainTyped, mainVars, publisherVars
  <2> QED  BY <2>1, <2>2, SameTyped DEF publisherVars, TypedInv
<1>8. CASE PublisherStep
  BY <1>3, <1>4, <1>8, RouteKeepsTyped DEF PublisherStep
<1>9. CASE Environment
  BY <1>0, <1>5, <1>6, <1>7, <1>9, SubscribeKeepsTyped, SubscribeRepliesKeepsTyped, HandlersKeepTyped
     DEF Environment
<1> QED  BY <1>0, <1>1, <1>2, <1>5, <1>8, <1>9, HandlersKeepTyped DEF Next

LEMMA InitEstablishesTyped == Init => TypedInv
<1> SUFFICES ASSUME Init PROVE TypedInv
  OBVIOUS
<1>1. DOMAIN subscribers = {} /\ next_id = 1 /\ too_slow = {} /\ closed = FALSE
  BY DEF Init, PublisherInit
<1>2. RegistryTyped /\ MainTyped
  <2>1. 1 .. next_id - 1 = {}
    BY <1>1
  <2>2. cancelled = {} /\ phase = "running"
    BY DEF Init
  <2> QED  BY <1>1, <2>1, <2>2 DEF RegistryTyped, MainTyped
<1>3. IsHandler(NoStream)
  BY DEF IsHandler, NoStream, Places, StatusCodes
<1>4. /\ \A r \in Streams : stream[r] = NoStream /\ sent[r] = <<>>
      /\ sent \in [Streams -> Seq(FeedItem)] /\ NoStream.id = 0
  BY DEF Init, NoStream
<1>5. HandlersTyped
  BY <1>3, <1>4 DEF HandlersTyped
<1> QED  BY <1>2, <1>5 DEF TypedInv

\* Every variable has its type.
LEMMA TypesFollow ==
  ASSUME OrderInv, TypedInv
  PROVE  TypeOK
<1>1. /\ next_id \in Nat \ {0} /\ RegistryInv /\ RegistryTyped /\ HandlersTyped /\ LineTypeOK
      /\ StreamsOK /\ SnapshotsOK /\ PillIsLast
  BY RegistryIs DEF OrderInv, SeatsInv, LineInv, TypedInv
<1>2. subscription \in Seq([gateway : Gateways, items : Seq(FeedItem), end_reason : EndReasons,
                            capacity : Nat])
  <2> DEFINE T == [gateway : Gateways, items : Seq(FeedItem), end_reason : EndReasons, capacity : Nat]
  <2>1. ASSUME NEW id \in 1 .. next_id - 1 PROVE subscription[id] \in T
    <3>1. IsSubscription(subscription[id]) /\ IsQueue(subscription[id])
      BY <1>1, RegistryIs
    <3> QED  BY <3>1 DEF IsSubscription, IsQueue
  <2> HIDE DEF T
  <2>2. next_id - 1 \in Nat /\ subscription = [id \in 1 .. next_id - 1 |-> subscription[id]]
    BY <1>1 DEF RegistryInv, RegistryOK
  <2>3. subscription \in [1 .. next_id - 1 -> T]
    BY <2>1, <2>2
  <2>4. subscription \in Seq(T)
    BY <2>2, <2>3
  <2> QED  BY <2>4 DEF T
<1>3. DOMAIN subscription = 1 .. next_id - 1 /\ next_id = Len(subscription) + 1
  BY <1>1, <1>2, RegistryIs
<1>4. \A id \in DOMAIN subscribers : SubscriberTypeOK(subscribers[id])
  <2> SUFFICES ASSUME NEW id \in DOMAIN subscribers PROVE SubscriberTypeOK(subscribers[id])
    OBVIOUS
  <2>1. subscribers[id].kind \in Kinds /\ HasStates(subscribers[id])
    BY <1>1, RegistryIs DEF IsSubscriber
  <2> QED  BY <2>1 DEF SubscriberTypeOK, HasStates, SymbolState
<1>5. SeatsTypeOK(market_by_gateway) /\ SeatsTypeOK(replies_by_gateway)
  <2>1. \A kind \in Kinds : \A g \in DOMAIN SeatsOf(kind) :
          /\ SeatsOf(kind)[g] \in DOMAIN subscribers
          /\ subscription[SeatsOf(kind)[g]].gateway = g
    BY <1>1 DEF RegistryInv, SeatsAgree, SeatsAreTaken
  <2>2. \A id \in DOMAIN subscribers : id \in DOMAIN subscription /\ subscription[id].gateway \in Gateways
    BY <1>1, RegistryIs DEF IsSubscription
  <2>3. \A kind \in Kinds : SeatsTypeOK(SeatsOf(kind))
    BY <2>1, <2>2 DEF SeatsTypeOK
  <2>4. SeatsTypeOK(SeatsOf("Market")) /\ SeatsTypeOK(SeatsOf("Replies"))
    BY <2>3 DEF Kinds
  <2>5. SeatsOf("Market") = market_by_gateway /\ SeatsOf("Replies") = replies_by_gateway
    BY DEF SeatsOf
  <2> QED  BY <2>4, <2>5
<1>6. PublisherTypeOK
  BY <1>1, <1>2, <1>3, <1>4, <1>5, RegistryIs DEF PublisherTypeOK, LineTypeOK, TypedInv, MainTyped
<1>7. ASSUME NEW r \in Streams PROVE StreamTypeOK(r)
  <2>1. IsHandler(stream[r]) /\ stream[r].id \in 0 .. next_id - 1 /\ stream[r].snapshots \subseteq Symbols
    BY <1>1 DEF HandlersTyped, StreamsOK, SnapshotsOK
  <2>2. stream[r].item \in FeedItem \cup {None}
    BY <2>1 DEF IsHandler
  <2>3. stream[r].id \in DOMAIN subscription \cup {0}
    BY <1>1, <1>3, <2>1
  <2> QED  BY <2>1, <2>2, <2>3 DEF StreamTypeOK, IsHandler, Places
<1> QED  BY <1>1, <1>6, <1>7 DEF TypeOK, LineTypeOK, PillIsLast, HandlersTyped, TypedInv, MainTyped

\* The types hold in every state of the node, with what they rest on.
THEOREM TypedInvariant == Spec => [](OrderInv /\ TypedInv)
<1>1. Init => OrderInv /\ TypedInv
  BY InitEstablishesOrder, InitEstablishesTyped
<1>2. OrderInv /\ TypedInv /\ [Next]_vars => (OrderInv /\ TypedInv)'
  BY NextKeepsOrder, NextKeepsTyped
<1> QED  BY <1>1, <1>2, PTL DEF Spec

\* Every variable of the publisher, the workers, the handlers and main keeps to the
\* type that the code declares for it, and ids are given in order.
THEOREM TypesHold == Spec => []TypeOK
<1>1. OrderInv /\ TypedInv => TypeOK
  BY TypesFollow
<1> QED  BY <1>1, TypedInvariant, PTL

-----------------------------------------------------------------------------
(* The streams *)

\* What a market stream is given, with last the numbers of the last events routed.
MarketOK(q, id, x, last) ==
  /\ x \in Seq(FeedItem)
  /\ \A i \in DOMAIN x : x[i].kind # "reply"
  /\ \A s \in Symbols : Gapless(q, id, x, s) /\ UpTo(x, s, last[s])

\* A symbol of a market stream that is served: nothing before it is live, and from
\* then on everything from the first event wanted.
Follows(q, x, state, s, last) ==
  /\ IF s \in DOMAIN q.from_seq
     THEN state.live /\ state.skip_below = q.from_seq[s]
     ELSE state.skip_below = 0
  /\ IF state.live
     THEN \/ Silent(x, s) /\ last < state.skip_below
          \/ EndsWith(x, s, last) /\ state.skip_below <= last
     ELSE Silent(x, s)

MarketServed(q, x, entry, last) ==
  /\ entry.kind = "Market"
  /\ entry.symbols \in [Asked(q) -> SymbolState]
  /\ \A s \in Asked(q) : Follows(q, x, entry.symbols[s], s, last[s])

\* What a replies stream is given: what is still on its way comes later.
RepliesOK(g, x) ==
  /\ x \in Seq(FeedItem)
  /\ \A i \in DOMAIN x : x[i].kind = "reply" /\ x[i].gateway = g /\ IsCommandOf(x[i], commands)
  /\ \A i, j \in DOMAIN x : i < j /\ x[i].symbol = x[j].symbol => x[i].number < x[j].number
  /\ \A i \in DOMAIN x : \A n \in DOMAIN commands : OnTheWay(x[i].symbol, n) => x[i].number < n

\* Of the later commands of the gateway, x has every reply that is not on its way.
HasLater(g, x) ==
  \A i \in DOMAIN x, k \in DOMAIN commands :
    /\ k > x[i].number
    /\ commands[k] = [symbol |-> x[i].symbol, gateway |-> g]
    /\ ~OnTheWay(x[i].symbol, k)
    => \E j \in DOMAIN x : x[j].number = k

RepliesServed(g, x, entry, sub) ==
  /\ entry.kind = "Replies" /\ entry.symbols = <<>>
  /\ sub.gateway = g
  /\ HasLater(g, x)

StreamOK(r) ==
  LET x == Given(r)
      q == stream[r].request
      id == stream[r].id
  IN
  /\ stream[r].kind = "Market" =>
       /\ MarketOK(q, id, x, last_seq)
       /\ Served(r) => MarketServed(q, x, subscribers[id], last_seq)
  /\ stream[r].kind = "Replies" =>
       /\ RepliesOK(q, x)
       /\ Served(r) => RepliesServed(q, x, subscribers[id], subscription[id])

StreamsInv == \A r \in Streams : StreamOK(r)

\* An item at the end of the queue is at the end of the whole.
LEMMA JoinAppended ==
  ASSUME NEW S, NEW a \in Seq(S), NEW h \in Seq(S), NEW b \in Seq(S), NEW e \in S
  PROVE  a \o h \o Append(b, e) = Append(a \o h \o b, e)
<1>1. a \o h \in Seq(S) /\ <<e>> \in Seq(S) /\ (a \o h) \o b \in Seq(S)
  BY ConcatProperties
<1>2. Append(b, e) = b \o <<e>> /\ Append((a \o h) \o b, e) = ((a \o h) \o b) \o <<e>>
  BY <1>1, AppendIsConcat
<1>3. ((a \o h) \o b) \o <<e>> = (a \o h) \o (b \o <<e>>)
  BY <1>1, ConcatAssociative
<1> QED  BY <1>2, <1>3

\* The first item of the queue goes to the hand, and from there it is sent.
LEMMA JoinMoved ==
  ASSUME NEW S, NEW a \in Seq(S), NEW b \in Seq(S), NEW e \in S
  PROVE  /\ Append(a, e) \o <<>> \o b = a \o <<e>> \o b
         /\ b # <<>> => a \o <<Head(b)>> \o Tail(b) = a \o <<>> \o b
<1>1. <<e>> \in Seq(S) /\ <<>> \in Seq(S) /\ Append(a, e) \in Seq(S)
  OBVIOUS
<1>2. Append(a, e) \o <<>> = a \o <<e>>
  BY <1>1, ConcatEmptySeq, AppendIsConcat
<1>3. ASSUME b # <<>> PROVE a \o <<Head(b)>> \o Tail(b) = a \o <<>> \o b
  <2>1. Head(b) \in S /\ Tail(b) \in Seq(S) /\ <<Head(b)>> \in Seq(S)
    BY <1>3, HeadTailProperties
  <2>2. <<Head(b)>> \o Tail(b) = b
    <3>1. PICK p : p = <<Head(b)>>
      OBVIOUS
    <3>2. PICK t : t = Tail(b)
      OBVIOUS
    <3>3. p \in Seq(S) /\ Len(p) = 1 /\ p[1] = b[1] /\ t \in Seq(S)
      BY <1>3, <2>1, <3>1, <3>2
    <3>4. \E k \in Nat : Len(b) = k + 1 /\ Len(t) = k /\ \A i \in 1 .. k : t[i] = b[i + 1]
      BY <1>3, <3>2, TakenPlaces
    <3>5. PICK k \in Nat : Len(b) = k + 1 /\ Len(t) = k /\ \A i \in 1 .. k : t[i] = b[i + 1]
      BY <3>4
    <3>9. /\ p \o t \in Seq(S) /\ Len(p \o t) = Len(p) + Len(t)
          /\ \A i \in 1 .. Len(p) + Len(t) : (p \o t)[i] = IF i <= Len(p) THEN p[i] ELSE t[i - Len(p)]
      BY <3>3, ConcatProperties
    <3>6. /\ p \o t \in Seq(S) /\ Len(p \o t) = k + 1
          /\ \A i \in 1 .. k + 1 : (p \o t)[i] = IF i <= 1 THEN p[i] ELSE t[i - 1]
      BY <3>3, <3>5, <3>9
    <3>7. \A i \in 1 .. k + 1 : (p \o t)[i] = b[i]
      BY <3>3, <3>5, <3>6
    <3>8. p \o t = b
      BY <3>5, <3>6, <3>7, SeqEqual
    <3> QED  BY <3>1, <3>2, <3>8
  <2>3. a \o <<Head(b)>> \o Tail(b) = a \o (<<Head(b)>> \o Tail(b))
    BY <2>1, ConcatAssociative
  <2>4. a \o <<>> = a
    BY ConcatEmptySeq
  <2> QED  BY <2>2, <2>3, <2>4
<1> QED  BY <1>2, <1>3

\* y is x, or what x was before its last items came.
Begins(y, x) == Len(y) <= Len(x) /\ \A i \in DOMAIN y : y[i] = x[i]

LEMMA JoinBegins ==
  ASSUME NEW S, NEW c \in Seq(S), NEW d \in Seq(S)
  PROVE  c \o d \in Seq(S) /\ Begins(c, c \o d)
<1>1. /\ c \o d \in Seq(S) /\ Len(c \o d) = Len(c) + Len(d)
      /\ \A i \in 1 .. Len(c) + Len(d) : (c \o d)[i] = IF i <= Len(c) THEN c[i] ELSE d[i - Len(c)]
  BY ConcatProperties
<1>2. Len(c) \in Nat /\ Len(d) \in Nat /\ DOMAIN c = 1 .. Len(c)
  OBVIOUS
<1>3. PICK j : j = c \o d
  OBVIOUS
<1>4. Begins(c, j)
  BY <1>1, <1>2, <1>3 DEF Begins
<1> QED  BY <1>1, <1>3, <1>4

LEMMA BeginsTwice ==
  ASSUME NEW S, NEW a \in Seq(S), NEW b \in Seq(S), NEW c \in Seq(S), Begins(a, b), Begins(b, c)
  PROVE  Begins(a, c)
BY DEF Begins

LEMMA BeginsIs ==
  ASSUME NEW S, NEW a \in Seq(S), NEW h \in Seq(S), NEW b \in Seq(S)
  PROVE  /\ Begins(a, a) /\ Begins(a, a \o h \o b)
         /\ a \o h \o <<>> \in Seq(S) /\ Begins(a \o h \o <<>>, a \o h \o b)
<1>1. PICK c : c = a \o h
  OBVIOUS
<1>2. c \in Seq(S) /\ Begins(a, c)
  BY <1>1, JoinBegins
<1>3. c \o b \in Seq(S) /\ Begins(c, c \o b)
  BY <1>2, JoinBegins
<1>4. Begins(a, c \o b)
  BY <1>2, <1>3, BeginsTwice
<1>5. c \o <<>> = c
  BY <1>2, ConcatEmptySeq
<1>6. Begins(a, a)
  BY DEF Begins
<1> QED  BY <1>1, <1>2, <1>3, <1>4, <1>5, <1>6

\* What the handler of r has in hand.
Hand(r) == IF stream[r].item = None THEN <<>> ELSE <<stream[r].item>>

LEMMA GivenIs ==
  ASSUME SeatsInv, TypedInv, NEW r \in Streams
  PROVE  /\ sent[r] \in Seq(FeedItem) /\ Hand(r) \in Seq(FeedItem)
         /\ Given(r) \in Seq(FeedItem) /\ Begins(sent[r], Given(r))
         /\ Following(r) =>
              /\ stream[r].id # 0 /\ stream[r].id \in DOMAIN subscription
              /\ subscription[stream[r].id].items \in Seq(FeedItem)
              /\ Given(r) = sent[r] \o Hand(r) \o subscription[stream[r].id].items
         /\ ~Following(r) => Given(r) = sent[r]
<1>1. sent[r] \in Seq(FeedItem) /\ IsHandler(stream[r])
  BY DEF TypedInv, HandlersTyped
<1>2. Hand(r) \in Seq(FeedItem)
  <2>1. stream[r].item # None => stream[r].item \in FeedItem
    BY <1>1 DEF IsHandler
  <2> QED  BY <2>1 DEF Hand
<1>3. CASE Following(r)
  <2>1. stream[r].id # 0 /\ stream[r].id \in DOMAIN subscription
    BY <1>3, HandlerAt DEF Following
  <2>2. subscription[stream[r].id].items \in Seq(FeedItem)
    BY <2>1, RegistryIs DEF SeatsInv, TypedInv, IsQueue
  <2>3. Given(r) = sent[r] \o Hand(r) \o subscription[stream[r].id].items
    BY <1>3 DEF Given, Hand
  <2>4. PICK a, h, b : a = sent[r] /\ h = Hand(r) /\ b = subscription[stream[r].id].items
    OBVIOUS
  <2>5. a \o h \o b \in Seq(FeedItem) /\ Begins(a, a \o h \o b)
    <3>1. a \in Seq(FeedItem) /\ h \in Seq(FeedItem) /\ b \in Seq(FeedItem)
      BY <1>1, <1>2, <2>2, <2>4
    <3>2. a \o h \in Seq(FeedItem)
      BY <3>1, ConcatProperties
    <3> QED  BY <3>1, <3>2, ConcatProperties, BeginsIs
  <2> QED  BY <1>1, <1>2, <1>3, <2>1, <2>2, <2>3, <2>4, <2>5
<1>4. CASE ~Following(r)
  <2>1. Given(r) = sent[r]
    BY <1>4 DEF Given
  <2> QED  BY <1>1, <1>2, <1>4, <2>1, BeginsIs
<1> QED  BY <1>3, <1>4

\* What a stream is given when neither its handler nor its queue changes.
LEMMA GivenStays ==
  ASSUME NEW r \in Streams, stream'[r] = stream[r], sent'[r] = sent[r],
         Following(r) => subscription'[stream[r].id].items = subscription[stream[r].id].items
  PROVE  Given(r)' = Given(r) /\ Following(r)' = Following(r)
BY DEF Given, Following

\* A served stream to which an item is pushed has been given it, or was too slow.
LEMMA PushGives ==
  ASSUME SeatsInv, TypedInv, NEW ids \in SUBSET DOMAIN subscribers, NEW item \in FeedItem,
         PushTo(ids, item), UNCHANGED <<stream, sent>>, NEW r \in Streams
  PROVE  /\ IF Following(r) /\ stream[r].id \in ids /\ stream[r].id \notin too_slow'
            THEN Given(r)' = Append(Given(r), item)
            ELSE Given(r)' = Given(r)
         /\ Following(r)' = Following(r)
         /\ Following(r) => subscription'[stream[r].id].gateway = subscription[stream[r].id].gateway
<1>1. /\ subscription' = [i \in DOMAIN subscription |->
                            IF i \in ids THEN Pushed(subscription[i], item) ELSE subscription[i]]
      /\ too_slow' = {i \in ids : IsFull(subscription[i])}
  BY DEF PushTo
<1>2. PICK id, sub : id = stream[r].id /\ sub = subscription[id]
  OBVIOUS
<1>3. CASE Following(r) /\ id \in ids
  <2>1. IsSubscription(sub) /\ IsQueue(sub) /\ ~HasEnded(sub) /\ id \in DOMAIN subscription
    BY <1>2, <1>3, GivenIs, RegistryIs DEF SeatsInv, TypedInv
  <2>2. subscription'[id] = Pushed(sub, item) /\ (id \in too_slow' <=> IsFull(sub))
    BY <1>1, <1>2, <1>3, <2>1
  <2>3. /\ subscription'[id].items = IF IsFull(sub) THEN sub.items ELSE Append(sub.items, item)
        /\ subscription'[id].gateway = sub.gateway
    BY <2>1, <2>2, PushedItems, PushedKeeps
  <2>4. CASE IsFull(sub)
    <3>1. Given(r)' = Given(r) /\ Following(r)' = Following(r)
      BY <1>2, <2>3, <2>4, GivenStays
    <3> QED  BY <1>2, <2>2, <2>3, <2>4, <3>1
  <2>5. CASE ~IsFull(sub)
    <3>1. PICK a, h, b : a = sent[r] /\ h = Hand(r) /\ b = sub.items
      OBVIOUS
    <3>2. /\ a \in Seq(FeedItem) /\ h \in Seq(FeedItem) /\ b \in Seq(FeedItem)
          /\ Given(r) = a \o h \o b
      BY <1>2, <1>3, <3>1, GivenIs
    <3>3. Given(r)' = a \o h \o Append(b, item)
      BY <1>2, <1>3, <2>3, <2>5, <3>1 DEF Given, Following, Hand
    <3>4. Given(r)' = Append(Given(r), item)
      BY <3>2, <3>3, JoinAppended
    <3>5. Following(r)' = Following(r)
      BY DEF Following
    <3> QED  BY <1>2, <1>3, <2>2, <2>3, <2>5, <3>4, <3>5
  <2> QED  BY <2>4, <2>5
<1>4. CASE ~(Following(r) /\ id \in ids)
  <2>1. Following(r) => subscription'[id] = subscription[id]
    BY <1>1, <1>2, <1>4, GivenIs
  <2>2. Given(r)' = Given(r) /\ Following(r)' = Following(r)
    BY <1>2, <2>1, GivenStays
  <2> QED  BY <1>2, <1>4, <2>1, <2>2
<1> QED  BY <1>3, <1>4

\* One more item, about s or not.
LEMMA AboutAppended ==
  ASSUME NEW x \in Seq(FeedItem), NEW item \in FeedItem, NEW s \in Symbols
  PROVE  LET y == Append(x, item) IN
         /\ Silent(x, s) /\ ~About(item, s) => Silent(y, s)
         /\ \A n : EndsWith(x, s, n) /\ ~About(item, s) => EndsWith(y, s, n)
         /\ About(item, s) => EndsWith(y, s, item.seq)
         /\ \A m, n \in Nat : /\ UpTo(x, s, m) /\ m <= n
                              /\ About(item, s) => item.seq <= n
                              => UpTo(y, s, n)
<1>1. PICK y, k : y = Append(x, item) /\ k = Len(x)
  OBVIOUS
<1>2. /\ k \in Nat /\ Len(y) = k + 1 /\ DOMAIN x = 1 .. k /\ DOMAIN y = 1 .. k + 1
      /\ (\A i \in 1 .. k : y[i] = x[i]) /\ y[k + 1] = item
  BY <1>1, Appended
<1>3. \A i \in 1 .. k : About(x[i], s) => x[i].seq \in Nat
  <2> SUFFICES ASSUME NEW i \in 1 .. k, About(x[i], s) PROVE x[i].seq \in Nat
    OBVIOUS
  <2>1. x[i] \in FeedItem
    BY <1>2
  <2> QED  BY <2>1 DEF About, FeedItem, EventItem, SnapshotItem, ReplyItem
<1>4. Silent(x, s) /\ ~About(item, s) => Silent(y, s)
  BY <1>2 DEF Silent
<1>5. ASSUME NEW n, EndsWith(x, s, n), ~About(item, s) PROVE EndsWith(y, s, n)
  <2>1. PICK i \in 1 .. k : IsLatest(x, i, k + 1, s) /\ x[i].seq = n
    BY <1>1, <1>2, <1>5 DEF EndsWith
  <2>2. \A j \in i + 1 .. k : ~About(x[j], s)
    BY <1>2, <2>1 DEF IsLatest
  <2>3. \A j \in i + 1 .. k + 1 : ~About(y[j], s)
    BY <1>2, <1>5, <2>2
  <2>4. IsLatest(y, i, k + 2, s)
    BY <1>2, <2>1, <2>3 DEF IsLatest
  <2> QED  BY <1>2, <2>1, <2>4 DEF EndsWith
<1>6. ASSUME About(item, s) PROVE EndsWith(y, s, item.seq)
  <2>1. IsLatest(y, k + 1, k + 2, s)
    BY <1>2, <1>6 DEF IsLatest
  <2> QED  BY <1>2, <2>1 DEF EndsWith
<1>7. ASSUME NEW m \in Nat, NEW n \in Nat, UpTo(x, s, m), m <= n, About(item, s) => item.seq <= n
      PROVE  UpTo(y, s, n)
  <2> SUFFICES ASSUME NEW i \in 1 .. k + 1, About(y[i], s) PROVE y[i].seq <= n
    BY <1>2 DEF UpTo
  <2>1. CASE i = k + 1
    BY <1>2, <1>7, <2>1
  <2>2. CASE i \in 1 .. k
    BY <1>2, <1>3, <1>7, <2>2 DEF UpTo
  <2> QED  BY <1>2, <2>1, <2>2
<1> QED  BY <1>1, <1>4, <1>5, <1>6, <1>7

LEMMA GaplessAppended ==
  ASSUME NEW x \in Seq(FeedItem), NEW item \in FeedItem, NEW s \in Symbols, NEW q, NEW id,
         Gapless(q, id, x, s),
         About(item, s) =>
           /\ s \in Asked(q)
           /\ \/ Silent(x, s) /\ IsFirst(q, id, item, s)
              \/ \E n : EndsWith(x, s, n) /\ item = Event(s, n + 1)
  PROVE  Gapless(q, id, Append(x, item), s)
<1>1. PICK y, k : y = Append(x, item) /\ k = Len(x)
  OBVIOUS
<1>2. /\ k \in Nat /\ Len(y) = k + 1 /\ DOMAIN x = 1 .. k /\ DOMAIN y = 1 .. k + 1
      /\ (\A i \in 1 .. k : y[i] = x[i]) /\ y[k + 1] = item
  BY <1>1, Appended
<1>3. ASSUME NEW j \in 1 .. k, About(y[j], s)
      PROVE  /\ s \in Asked(q)
             /\ (\A i \in 1 .. j - 1 : ~About(y[i], s)) => IsFirst(q, id, y[j], s)
             /\ \A i \in 1 .. j - 1 : IsLatest(y, i, j, s) => y[j] = Event(s, y[i].seq + 1)
  <2>1. \A i \in 1 .. j : y[i] = x[i]
    BY <1>2
  <2>2. /\ s \in Asked(q)
        /\ (\A i \in 1 .. j - 1 : ~About(x[i], s)) => IsFirst(q, id, x[j], s)
        /\ \A i \in 1 .. j - 1 : IsLatest(x, i, j, s) => x[j] = Event(s, x[i].seq + 1)
    BY <1>2, <1>3, <2>1 DEF Gapless
  <2>3. \A i \in 1 .. j - 1 : IsLatest(y, i, j, s) => IsLatest(x, i, j, s)
    BY <1>2, <2>1 DEF IsLatest
  <2> QED  BY <2>1, <2>2, <2>3
<1>4. ASSUME About(item, s)
      PROVE  /\ s \in Asked(q)
             /\ (\A i \in 1 .. k : ~About(y[i], s)) => IsFirst(q, id, item, s)
             /\ \A i \in 1 .. k : IsLatest(y, i, k + 1, s) => item = Event(s, y[i].seq + 1)
  <2>1. CASE Silent(x, s) /\ IsFirst(q, id, item, s)
    BY <1>2, <1>4, <2>1 DEF Silent, IsLatest
  <2>2. ASSUME NEW n, EndsWith(x, s, n), item = Event(s, n + 1)
        PROVE  /\ \E i \in 1 .. k : About(y[i], s)
               /\ \A i \in 1 .. k : IsLatest(y, i, k + 1, s) => item = Event(s, y[i].seq + 1)
    <3>1. PICK i \in 1 .. k : IsLatest(x, i, k + 1, s) /\ x[i].seq = n
      BY <1>1, <1>2, <2>2 DEF EndsWith
    <3>2. About(y[i], s) /\ \A j \in i + 1 .. k : ~About(y[j], s)
      BY <1>2, <3>1 DEF IsLatest
    <3>3. \A j \in 1 .. k : IsLatest(y, j, k + 1, s) => j = i
      BY <1>2, <3>2 DEF IsLatest
    <3> QED  BY <1>2, <2>2, <3>1, <3>2, <3>3
  <2> QED  BY <1>4, <2>1, <2>2
<1>5. \A j \in 1 .. k + 1 : j \in 1 .. k \/ (j = k + 1 /\ j - 1 = k /\ y[j] = item)
  BY <1>2
<1> QED  BY <1>1, <1>2, <1>3, <1>4, <1>5 DEF Gapless

\* What a stream was given before has what all it is given has.
LEMMA BegunKeeps ==
  ASSUME NEW x \in Seq(FeedItem), NEW y \in Seq(FeedItem), Begins(y, x)
  PROVE  /\ \A q, id, last : MarketOK(q, id, x, last) => MarketOK(q, id, y, last)
         /\ \A g : RepliesOK(g, x) => RepliesOK(g, y)
<1>1. PICK k, n \in Nat : k = Len(y) /\ n = Len(x) /\ DOMAIN y = 1 .. k /\ DOMAIN x = 1 .. n /\ k <= n
  BY DEF Begins
<1>2. \A i \in 1 .. k : i \in 1 .. n /\ y[i] = x[i]
  BY <1>1 DEF Begins
<1>3. ASSUME NEW q, NEW id, NEW s, Gapless(q, id, x, s) PROVE Gapless(q, id, y, s)
  <2> SUFFICES ASSUME NEW j \in 1 .. k, About(y[j], s)
               PROVE  /\ s \in Asked(q)
                      /\ (\A i \in 1 .. j - 1 : ~About(y[i], s)) => IsFirst(q, id, y[j], s)
                      /\ \A i \in 1 .. j - 1 : IsLatest(y, i, j, s) => y[j] = Event(s, y[i].seq + 1)
    BY <1>1 DEF Gapless
  <2>1. \A i \in 1 .. j : y[i] = x[i]
    BY <1>1, <1>2
  <2>2. /\ s \in Asked(q)
        /\ (\A i \in 1 .. j - 1 : ~About(x[i], s)) => IsFirst(q, id, x[j], s)
        /\ \A i \in 1 .. j - 1 : IsLatest(x, i, j, s) => x[j] = Event(s, x[i].seq + 1)
    BY <1>1, <1>2, <1>3, <2>1 DEF Gapless
  <2>3. \A i \in 1 .. j - 1 : IsLatest(y, i, j, s) => IsLatest(x, i, j, s)
    BY <1>1, <2>1 DEF IsLatest
  <2> QED  BY <1>1, <2>1, <2>2, <2>3
<1>4. ASSUME NEW s, NEW m, UpTo(x, s, m) PROVE UpTo(y, s, m)
  BY <1>1, <1>2, <1>4 DEF UpTo
<1>5. ASSUME NEW q, NEW id, NEW last, MarketOK(q, id, x, last) PROVE MarketOK(q, id, y, last)
  BY <1>1, <1>2, <1>3, <1>4, <1>5 DEF MarketOK
<1>6. ASSUME NEW g, RepliesOK(g, x) PROVE RepliesOK(g, y)
  BY <1>1, <1>2, <1>6 DEF RepliesOK
<1> QED  BY <1>5, <1>6

-----------------------------------------------------------------------------
(* Market streams *)

\* Later, what a stream was given is still right.
LEMMA MarketOKLater ==
  ASSUME NEW q, NEW id, NEW x, NEW last \in [Symbols -> Nat], NEW later \in [Symbols -> Nat],
         MarketOK(q, id, x, last), \A s \in Symbols : last[s] <= later[s]
  PROVE  MarketOK(q, id, x, later)
<1> SUFFICES ASSUME NEW s \in Symbols, NEW i \in DOMAIN x, About(x[i], s) PROVE x[i].seq <= later[s]
  BY DEF MarketOK, UpTo
<1>1. x[i] \in FeedItem
  BY DEF MarketOK
<1>2. x[i].seq \in Nat
  BY <1>1 DEF About, FeedItem, EventItem, SnapshotItem, ReplyItem
<1>3. x[i].seq <= last[s]
  BY DEF MarketOK, UpTo
<1> QED  BY <1>2, <1>3

\* The next event of a symbol that the stream takes.
LEMMA EventTaken ==
  ASSUME NEW q, Asked(q) \subseteq Symbols, \A t \in DOMAIN q.from_seq : q.from_seq[t] \in Nat,
         NEW id, NEW x, NEW entry, NEW last \in [Symbols -> Nat],
         MarketOK(q, id, x, last), MarketServed(q, x, entry, last),
         NEW s \in Asked(q), entry.symbols[s].live, last[s] + 1 >= entry.symbols[s].skip_below,
         NEW later, later = [last EXCEPT ![s] = last[s] + 1]
  PROVE  LET y == Append(x, Event(s, last[s] + 1)) IN
         MarketOK(q, id, y, later) /\ MarketServed(q, y, entry, later)
<1>1. PICK item, n, y : n = last[s] + 1 /\ item = Event(s, n) /\ y = Append(x, item)
  OBVIOUS
<1>2. /\ n \in Nat /\ last[s] \in Nat /\ later \in [Symbols -> Nat] /\ later[s] = n
      /\ \A t \in Symbols \ {s} : later[t] = last[t]
  BY <1>1
<1>3. item \in FeedItem /\ item.kind = "event" /\ item.symbol = s /\ item.seq = n
  BY <1>1, <1>2, MadeItems
<1>4. /\ x \in Seq(FeedItem) /\ y \in Seq(FeedItem) /\ Len(x) \in Nat
      /\ DOMAIN x = 1 .. Len(x) /\ DOMAIN y = 1 .. Len(x) + 1
      /\ (\A i \in 1 .. Len(x) : y[i] = x[i]) /\ y[Len(x) + 1] = item
  BY <1>1, <1>3, Appended DEF MarketOK
<1>5. \A t \in Symbols : About(item, t) <=> t = s
  BY <1>3 DEF About
<1>6. \A i \in DOMAIN y : y[i].kind # "reply"
  BY <1>3, <1>4 DEF MarketOK
<1>7. Follows(q, x, entry.symbols[s], s, last[s]) /\ entry.symbols[s].skip_below \in Nat
  BY DEF MarketServed, SymbolState
<1>8. \/ Silent(x, s) /\ IsFirst(q, id, item, s)
      \/ EndsWith(x, s, last[s]) /\ item = Event(s, last[s] + 1)
  <2>1. CASE Silent(x, s) /\ last[s] < entry.symbols[s].skip_below
    <3>1. s \in DOMAIN q.from_seq /\ entry.symbols[s].skip_below = q.from_seq[s]
      BY <1>2, <1>7, <2>1 DEF Follows
    <3>2. q.from_seq[s] = n
      BY <1>1, <1>2, <1>7, <2>1, <3>1
    <3> QED  BY <1>1, <2>1, <3>1, <3>2 DEF IsFirst
  <2>2. CASE EndsWith(x, s, last[s])
    BY <1>1, <2>2
  <2> QED  BY <1>7, <2>1, <2>2 DEF Follows
<1>9. \A t \in Symbols : Gapless(q, id, y, t)
  <2> SUFFICES ASSUME NEW t \in Symbols PROVE Gapless(q, id, y, t)
    OBVIOUS
  <2>1. Gapless(q, id, x, t)
    BY DEF MarketOK
  <2>2. CASE t = s
    BY <1>1, <1>3, <1>4, <1>8, <2>1, <2>2, GaplessAppended
  <2>3. CASE t # s
    BY <1>1, <1>3, <1>4, <1>5, <2>1, <2>3, GaplessAppended
  <2> QED  BY <2>2, <2>3
<1>10. \A t \in Symbols : UpTo(y, t, later[t])
  <2> SUFFICES ASSUME NEW t \in Symbols PROVE UpTo(y, t, later[t])
    OBVIOUS
  <2>1. /\ UpTo(x, t, last[t]) /\ last[t] \in Nat /\ later[t] \in Nat /\ last[t] <= later[t]
        /\ About(item, t) => item.seq <= later[t]
    BY <1>1, <1>2, <1>3, <1>5 DEF MarketOK
  <2> QED  BY <1>1, <1>3, <1>4, <2>1, AboutAppended
<1>11. \A t \in Asked(q) : Follows(q, y, entry.symbols[t], t, later[t])
  <2> SUFFICES ASSUME NEW t \in Asked(q) PROVE Follows(q, y, entry.symbols[t], t, later[t])
    OBVIOUS
  <2>1. Follows(q, x, entry.symbols[t], t, last[t])
    BY DEF MarketServed
  <2>2. CASE t = s
    <3>1. EndsWith(y, s, n)
      BY <1>1, <1>3, <1>4, <1>5, AboutAppended
    <3> QED  BY <1>1, <1>2, <1>7, <2>1, <2>2, <3>1 DEF Follows
  <2>3. CASE t # s
    <3>1. /\ Silent(x, t) => Silent(y, t)
          /\ EndsWith(x, t, last[t]) => EndsWith(y, t, last[t])
      BY <1>1, <1>3, <1>4, <1>5, <2>3, AboutAppended
    <3> QED  BY <1>2, <2>1, <2>3, <3>1 DEF Follows
  <2> QED  BY <2>2, <2>3
<1> QED  BY <1>1, <1>4, <1>6, <1>9, <1>10, <1>11 DEF MarketOK, MarketServed

\* The next event of a symbol that the stream skips.
LEMMA EventSkipped ==
  ASSUME NEW q, Asked(q) \subseteq Symbols, NEW x, NEW entry, NEW last \in [Symbols -> Nat],
         MarketServed(q, x, entry, last), NEW s \in Symbols,
         ~(/\ s \in DOMAIN entry.symbols
           /\ entry.symbols[s].live
           /\ last[s] + 1 >= entry.symbols[s].skip_below),
         NEW later, later = [last EXCEPT ![s] = last[s] + 1]
  PROVE  MarketServed(q, x, entry, later)
<1> SUFFICES ASSUME NEW t \in Asked(q) PROVE Follows(q, x, entry.symbols[t], t, later[t])
  BY DEF MarketServed
<1>1. /\ Follows(q, x, entry.symbols[t], t, last[t]) /\ entry.symbols[t] \in SymbolState
      /\ DOMAIN entry.symbols = Asked(q)
  BY DEF MarketServed
<1>2. CASE t # s
  BY <1>1, <1>2 DEF Follows
<1>3. CASE t = s
  <2>1. /\ entry.symbols[s].live => last[s] + 1 < entry.symbols[s].skip_below
        /\ later[s] = last[s] + 1 /\ last[s] \in Nat /\ entry.symbols[s].skip_below \in Nat
    BY <1>1, <1>3 DEF SymbolState
  <2> QED  BY <1>1, <1>3, <2>1 DEF Follows
<1> QED  BY <1>2, <1>3

\* The states of a subscriber once s has gone live.
GoneLive(states, s) == [states EXCEPT ![s] = [live |-> TRUE, skip_below |-> states[s].skip_below]]

\* The snapshot of a symbol that the stream waits for.
LEMMA SnapshotTaken ==
  ASSUME NEW q, Asked(q) \subseteq Symbols, NEW id, NEW x, NEW entry, NEW last \in [Symbols -> Nat],
         MarketOK(q, id, x, last), MarketServed(q, x, entry, last),
         NEW s \in Asked(q), ~entry.symbols[s].live,
         NEW item \in FeedItem, item.kind = "snapshot", item.symbol = s, item.subscriber = id,
         item.seq = last[s],
         NEW new, new.kind = entry.kind,
         new.symbols = GoneLive(entry.symbols, s)
  PROVE  LET y == Append(x, item) IN
         MarketOK(q, id, y, last) /\ MarketServed(q, y, new, last)
<1>1. PICK y : y = Append(x, item)
  OBVIOUS
<1>2. last[s] \in Nat
  OBVIOUS
<1>3. new.symbols = [entry.symbols EXCEPT
        ![s] = [live |-> TRUE, skip_below |-> entry.symbols[s].skip_below]]
  BY DEF GoneLive
<1>4. /\ x \in Seq(FeedItem) /\ y \in Seq(FeedItem) /\ Len(x) \in Nat
      /\ DOMAIN x = 1 .. Len(x) /\ DOMAIN y = 1 .. Len(x) + 1
      /\ (\A i \in 1 .. Len(x) : y[i] = x[i]) /\ y[Len(x) + 1] = item
  BY <1>1, Appended DEF MarketOK
<1>5. \A t \in Symbols : About(item, t) <=> t = s
  BY DEF About
<1>6. \A i \in DOMAIN y : y[i].kind # "reply"
  BY <1>4 DEF MarketOK
<1>7. Follows(q, x, entry.symbols[s], s, last[s]) /\ entry.symbols[s] \in SymbolState
  BY DEF MarketServed
<1>8. /\ Silent(x, s) /\ s \notin DOMAIN q.from_seq /\ entry.symbols[s].skip_below = 0
      /\ IsFirst(q, id, item, s)
  BY <1>7 DEF Follows, IsFirst
<1>9. \A t \in Symbols : Gapless(q, id, y, t)
  <2> SUFFICES ASSUME NEW t \in Symbols PROVE Gapless(q, id, y, t)
    OBVIOUS
  <2>1. Gapless(q, id, x, t)
    BY DEF MarketOK
  <2>2. CASE t = s
    BY <1>1, <1>4, <1>8, <2>1, <2>2, GaplessAppended
  <2>3. CASE t # s
    BY <1>1, <1>4, <1>5, <2>1, <2>3, GaplessAppended
  <2> QED  BY <2>2, <2>3
<1>10. \A t \in Symbols : UpTo(y, t, last[t])
  <2> SUFFICES ASSUME NEW t \in Symbols PROVE UpTo(y, t, last[t])
    OBVIOUS
  <2>1. /\ UpTo(x, t, last[t]) /\ last[t] \in Nat /\ last[t] <= last[t]
        /\ About(item, t) => item.seq <= last[t]
    BY <1>5 DEF MarketOK
  <2> QED  BY <1>1, <1>4, <2>1, AboutAppended
<1>11. \A t \in Asked(q) : Follows(q, y, new.symbols[t], t, last[t])
  <2> SUFFICES ASSUME NEW t \in Asked(q) PROVE Follows(q, y, new.symbols[t], t, last[t])
    OBVIOUS
  <2>1. Follows(q, x, entry.symbols[t], t, last[t]) /\ DOMAIN entry.symbols = Asked(q)
    BY DEF MarketServed
  <2>2. CASE t = s
    <3>1. EndsWith(y, s, last[s])
      BY <1>1, <1>4, <1>5, AboutAppended
    <3>2. new.symbols[s] = [live |-> TRUE, skip_below |-> 0]
      BY <1>3, <1>8, <2>1
    <3> QED  BY <1>2, <1>8, <2>2, <3>1, <3>2 DEF Follows
  <2>3. CASE t # s
    <3>1. /\ Silent(x, t) => Silent(y, t)
          /\ EndsWith(x, t, last[t]) => EndsWith(y, t, last[t])
      BY <1>1, <1>4, <1>5, <2>3, AboutAppended
    <3>2. new.symbols[t] = entry.symbols[t]
      BY <1>3, <2>1, <2>3
    <3> QED  BY <2>1, <3>1, <3>2 DEF Follows
  <2> QED  BY <2>2, <2>3
<1>12. new.symbols \in [Asked(q) -> SymbolState] /\ new.kind = "Market"
  BY <1>3, <1>7 DEF MarketServed, SymbolState
<1> QED  BY <1>1, <1>4, <1>6, <1>9, <1>10, <1>11, <1>12 DEF MarketOK, MarketServed

\* A new stream has been given the replay it asked for.
LEMMA MarketStarts ==
  ASSUME LineTypeOK, HistoryIsWindow, NEW q \in MarketRequests, SubscribeError(q) = "None", NEW id,
         NEW entry, entry.kind = "Market", entry.symbols = [s \in Asked(q) |-> StartOf(q, s)]
  PROVE  MarketOK(q, id, Replay(q), last_seq) /\ MarketServed(q, Replay(q), entry, last_seq)
<1>1. PICK x : x = Replay(q)
  OBVIOUS
<1>2. MarketOK(q, id, x, last_seq)
  BY <1>1, ReplayIs DEF MarketOK
<1>3. entry.symbols \in [Asked(q) -> SymbolState] /\ Asked(q) \subseteq Symbols
  BY StartIs, RequestIsGood
<1>4. ASSUME NEW s \in Asked(q) PROVE Follows(q, x, entry.symbols[s], s, last_seq[s])
  <2>1. /\ entry.symbols[s] = StartOf(q, s) /\ last_seq[s] \in Nat
        /\ s \in DOMAIN q.from_seq => q.from_seq[s] \in Nat
    BY <1>3, RequestIsGood DEF LineTypeOK
  <2>2. IF s \in DOMAIN q.from_seq /\ q.from_seq[s] <= last_seq[s]
        THEN EndsWith(x, s, last_seq[s])
        ELSE Silent(x, s)
    BY <1>1, <1>3, ReplayIs
  <2> QED  BY <2>1, <2>2 DEF Follows, StartOf
<1> QED  BY <1>1, <1>2, <1>3, <1>4 DEF MarketServed

-----------------------------------------------------------------------------
(* Replies streams *)

\* A reply a stream has been given.
LEMMA ReplyIs ==
  ASSUME NEW g, NEW x, RepliesOK(g, x), NEW i \in DOMAIN x
  PROVE  x[i] \in ReplyItem /\ x[i].symbol \in Symbols /\ x[i].number \in Nat /\ x[i].number \in DOMAIN commands
<1>1. x[i] \in FeedItem /\ x[i].kind = "reply" /\ IsCommandOf(x[i], commands)
  BY DEF RepliesOK
<1>2. x[i] \in ReplyItem
  BY <1>1 DEF FeedItem, EventItem, SnapshotItem, ReplyItem
<1> QED  BY <1>1, <1>2 DEF ReplyItem, IsCommandOf

\* Fewer replies are on their way, and of those of the stream's gateway none less.
LEMMA RepliesOKLater ==
  ASSUME NEW g, NEW x, RepliesOK(g, x), UNCHANGED commands,
         \A s \in Symbols : \A n : OnTheWay(s, n)' => OnTheWay(s, n)
  PROVE  /\ RepliesOK(g, x)'
         /\ /\ HasLater(g, x)
            /\ \A s \in Symbols : \A n \in DOMAIN commands :
                 OnTheWay(s, n) /\ commands[n].gateway = g => OnTheWay(s, n)'
            => HasLater(g, x)'
<1>1. RepliesOK(g, x)'
  BY ReplyIs DEF RepliesOK
<1>2. ASSUME HasLater(g, x),
             \A s \in Symbols : \A n \in DOMAIN commands :
               OnTheWay(s, n) /\ commands[n].gateway = g => OnTheWay(s, n)'
      PROVE  HasLater(g, x)'
  <2> SUFFICES ASSUME NEW i \in DOMAIN x, NEW k \in DOMAIN commands, k > x[i].number,
                      commands[k] = [symbol |-> x[i].symbol, gateway |-> g], ~OnTheWay(x[i].symbol, k)'
               PROVE  \E j \in DOMAIN x : x[j].number = k
    BY DEF HasLater
  <2>1. commands[k].gateway = g /\ x[i].symbol \in Symbols
    BY ReplyIs
  <2>2. ~OnTheWay(x[i].symbol, k)
    BY <1>2, <2>1
  <2> QED  BY <1>2, <2>2 DEF HasLater
<1> QED  BY <1>1, <1>2

\* A new command is later than all replies, and on its way.
LEMMA RepliesOKCommanded ==
  ASSUME LineTypeOK, RepliesInLine, NEW s \in Symbols, NEW gateway \in Gateways, FeedSubmits(s, gateway),
         NEW g, NEW x, RepliesOK(g, x)
  PROVE  RepliesOK(g, x)' /\ (HasLater(g, x) => HasLater(g, x)')
<1>1. PICK last : last = Len(commands) + 1
  OBVIOUS
<1>2. /\ commands \in Seq([symbol : Symbols, gateway : Gateways])
      /\ commands' = Append(commands, [symbol |-> s, gateway |-> gateway])
  BY DEF FeedSubmits, LineTypeOK
<1>3. /\ DOMAIN commands = 1 .. last - 1 /\ DOMAIN commands' = 1 .. last /\ last \in Nat
      /\ \A n \in 1 .. last - 1 : commands'[n] = commands[n]
      /\ commands'[last] = [symbol |-> s, gateway |-> gateway]
  BY <1>1, <1>2
<1>4. \A t \in Symbols : \A n : OnTheWay(t, n)' <=> OnTheWay(t, n) \/ (t = s /\ n = last)
  BY <1>1, CommandKeepsReplies
<1>5. \A i \in DOMAIN x : /\ x[i].symbol \in Symbols /\ x[i].number \in 1 .. last - 1
                          /\ IsCommandOf(x[i], commands) /\ x[i].kind = "reply"
  BY <1>3, ReplyIs DEF RepliesOK
<1>6. RepliesOK(g, x)'
  <2>1. \A i \in DOMAIN x : IsCommandOf(x[i], commands')
    BY <1>3, <1>5 DEF IsCommandOf
  <2>2. ASSUME NEW i \in DOMAIN x, NEW n \in DOMAIN commands', OnTheWay(x[i].symbol, n)'
        PROVE  x[i].number < n
    <3>1. CASE n = last
      BY <1>3, <1>5, <3>1
    <3>2. CASE n # last
      <4>1. n \in DOMAIN commands
        BY <1>3, <3>2
      <4>2. OnTheWay(x[i].symbol, n)
        BY <1>4, <1>5, <2>2, <3>2
      <4> QED  BY <4>1, <4>2 DEF RepliesOK
    <3> QED  BY <3>1, <3>2
  <2> QED  BY <2>1, <2>2 DEF RepliesOK
<1>7. ASSUME HasLater(g, x) PROVE HasLater(g, x)'
  <2> SUFFICES ASSUME NEW i \in DOMAIN x, NEW k \in DOMAIN commands', k > x[i].number,
                      commands'[k] = [symbol |-> x[i].symbol, gateway |-> g], ~OnTheWay(x[i].symbol, k)'
               PROVE  \E j \in DOMAIN x : x[j].number = k
    BY DEF HasLater
  <2>1. k # last
    <3>1. CASE k = last
      <4>1. x[i].symbol = s
        BY <1>3, <3>1
      <4> QED  BY <1>4, <1>5, <3>1, <4>1
    <3> QED  BY <3>1
  <2>2. k \in DOMAIN commands /\ commands[k] = [symbol |-> x[i].symbol, gateway |-> g]
    BY <1>3, <2>1
  <2>3. ~OnTheWay(x[i].symbol, k)
    BY <1>4, <1>5
  <2> QED  BY <1>7, <2>2, <2>3 DEF HasLater
<1> QED  BY <1>6, <1>7

\* The reply in hand is the next one of its symbol for the stream of its gateway.
LEMMA ReplyTaken ==
  ASSUME LineTypeOK, RepliesInLine, UNCHANGED <<inbox, pushing, outbox, commands>>, routing' = None,
         NEW item \in FeedItem, item = routing, item.kind = "reply", routing # None,
         NEW x, RepliesOK(item.gateway, x)
  PROVE  /\ RepliesOK(item.gateway, Append(x, item))'
         /\ HasLater(item.gateway, x) => HasLater(item.gateway, Append(x, item))'
<1>1. PICK g, s, m, y : g = item.gateway /\ s = item.symbol /\ m = item.number /\ y = Append(x, item)
  OBVIOUS
<1>2. item \in ReplyItem
  BY DEF FeedItem, EventItem, SnapshotItem, ReplyItem
<1>3. s \in Symbols /\ m \in Nat
  BY <1>1, <1>2 DEF ReplyItem
<1>4. \A t, n : NumberIs(item, t, n) <=> t = s /\ n = m
  BY <1>1 DEF NumberIs, CarriesFor
<1>5. \A t, n : OnTheWay(t, n) <=> (t = s /\ n = m) \/ OnTheWay(t, n)'
  BY <1>4, RouteKeepsReplies
<1>6. m \in DOMAIN commands /\ commands[m] = [symbol |-> s, gateway |-> g]
  <2>1. Known(<<item>>, commands)
    BY DEF RepliesInLine, InHand
  <2>2. IsCommandOf(item, commands)
    BY <2>1, NothingHeld
  <2> QED  BY <1>1, <2>2 DEF IsCommandOf
<1>7. \A n : OnTheWay(s, n)' => m < n
  <2>1. Holds(InHand, s, m)
    BY <1>4 DEF InHand, Holds
  <2>2. ~Holds(InHand', s, m) /\ \A n : ~Holds(InHand', s, n)
    BY NothingHeld DEF InHand
  <2>3. RepliesOrdered(s)
    BY <1>3 DEF RepliesInLine
  <2> QED  BY <2>1, <2>2, <2>3 DEF RepliesOrdered, Before, OnTheWay
<1>8. /\ x \in Seq(FeedItem) /\ y \in Seq(FeedItem) /\ Len(x) \in Nat
      /\ DOMAIN x = 1 .. Len(x) /\ DOMAIN y = 1 .. Len(x) + 1
      /\ (\A i \in 1 .. Len(x) : y[i] = x[i]) /\ y[Len(x) + 1] = item
  BY <1>1, Appended DEF RepliesOK
<1>9. \A i \in 1 .. Len(x) :
        /\ x[i].kind = "reply" /\ x[i].gateway = g /\ IsCommandOf(x[i], commands)
        /\ x[i].symbol \in Symbols /\ x[i].number \in Nat
        /\ x[i].symbol = s => x[i].number < m
        /\ \A n \in DOMAIN commands : OnTheWay(x[i].symbol, n) => x[i].number < n
  BY <1>1, <1>5, <1>6, <1>8, ReplyIs DEF RepliesOK
<1>10. \A i \in DOMAIN y : y[i].kind = "reply" /\ y[i].gateway = g /\ IsCommandOf(y[i], commands)
  <2>1. IsCommandOf(item, commands)
    BY <1>1, <1>6 DEF IsCommandOf
  <2> QED  BY <1>1, <1>8, <1>9, <2>1
<1>11. \A i, j \in DOMAIN y : i < j /\ y[i].symbol = y[j].symbol => y[i].number < y[j].number
  <2> SUFFICES ASSUME NEW i \in 1 .. Len(x), NEW j \in 1 .. Len(x) + 1, i < j, y[i].symbol = y[j].symbol
               PROVE  y[i].number < y[j].number
    BY <1>8
  <2>1. CASE j = Len(x) + 1
    BY <1>1, <1>8, <1>9, <2>1
  <2>2. CASE j \in 1 .. Len(x)
    BY <1>8, <2>2 DEF RepliesOK
  <2> QED  BY <1>8, <2>1, <2>2
<1>12. \A i \in DOMAIN y : \A n \in DOMAIN commands : OnTheWay(y[i].symbol, n)' => y[i].number < n
  <2> SUFFICES ASSUME NEW i \in 1 .. Len(x) + 1, NEW n \in DOMAIN commands, OnTheWay(y[i].symbol, n)'
               PROVE  y[i].number < n
    BY <1>8
  <2>1. CASE i = Len(x) + 1
    BY <1>1, <1>7, <1>8, <2>1
  <2>2. CASE i \in 1 .. Len(x)
    BY <1>5, <1>8, <1>9, <2>2
  <2> QED  BY <1>8, <2>1, <2>2
<1>13. RepliesOK(g, y)'
  BY <1>8, <1>10, <1>11, <1>12 DEF RepliesOK
<1>14. ASSUME HasLater(g, x) PROVE HasLater(g, y)'
  <2> SUFFICES ASSUME NEW i \in 1 .. Len(x) + 1, NEW k \in DOMAIN commands, k > y[i].number,
                      commands[k] = [symbol |-> y[i].symbol, gateway |-> g], ~OnTheWay(y[i].symbol, k)'
               PROVE  \E j \in DOMAIN y : y[j].number = k
    BY <1>8 DEF HasLater
  <2>1. CASE i = Len(x) + 1
    <3>1. k > m /\ y[i].symbol = s /\ commands[k].symbol = s
      BY <1>1, <1>8, <2>1
    <3>2. OnTheWay(s, m) /\ RepliesTogether(s) /\ m < k
      <4>1. k \in Nat
        BY DEF LineTypeOK
      <4> QED  BY <1>3, <1>5, <3>1, <4>1 DEF RepliesInLine
    <3>3. OnTheWay(s, k)
      BY <3>1, <3>2 DEF RepliesTogether
    <3>4. k # m
      BY <1>3, <3>2
    <3> QED  BY <1>5, <3>1, <3>3, <3>4
  <2>2. CASE i \in 1 .. Len(x) /\ ~OnTheWay(x[i].symbol, k)
    <3>1. \E j \in DOMAIN x : x[j].number = k
      BY <1>8, <1>14, <2>2 DEF HasLater
    <3> QED  BY <1>8, <3>1
  <2>3. CASE i \in 1 .. Len(x) /\ OnTheWay(x[i].symbol, k)
    <3>1. k = m
      BY <1>5, <1>8, <2>3
    <3>2. y[Len(x) + 1].number = k /\ Len(x) + 1 \in DOMAIN y
      BY <1>1, <1>8, <3>1
    <3> QED  BY <3>2
  <2> QED  BY <1>8, <2>1, <2>2, <2>3
<1> QED  BY <1>1, <1>13, <1>14

-----------------------------------------------------------------------------
(* Every step keeps the streams *)

\* What a stream is after a step.
LEMMA StreamAt ==
  ASSUME NEW r, NEW x, NEW q, NEW id, x = Given(r)', q = stream'[r].request, id = stream'[r].id,
         stream'[r].kind = "Market" =>
           /\ MarketOK(q, id, x, last_seq')
           /\ Served(r)' => MarketServed(q, x, subscribers'[id], last_seq'),
         stream'[r].kind = "Replies" =>
           /\ RepliesOK(q, x)'
           /\ Served(r)' => /\ subscribers'[id].kind = "Replies" /\ subscribers'[id].symbols = <<>>
                            /\ subscription'[id].gateway = q
                            /\ HasLater(q, x)'
  PROVE  StreamOK(r)'
BY DEF StreamOK, MarketOK, MarketServed, RepliesOK, RepliesServed, HasLater, OnTheWay

\* Nothing new is given to a stream: it goes on as it was, or is no longer served.
LEMMA StreamOKLater ==
  ASSUME LineTypeOK, NEW r \in Streams, StreamOK(r), UNCHANGED <<last_seq, commands>>, SameWay,
         NEW x, NEW y, x = Given(r), y = Given(r)', x \in Seq(FeedItem), y \in Seq(FeedItem), Begins(y, x),
         stream'[r].kind = stream[r].kind, stream'[r].request = stream[r].request, stream'[r].id = stream[r].id,
         Served(r)' =>
           /\ Served(r) /\ y = x
           /\ subscribers'[stream[r].id] = subscribers[stream[r].id]
           /\ subscription'[stream[r].id].gateway = subscription[stream[r].id].gateway
  PROVE  StreamOK(r)'
<1>1. PICK q, id : q = stream[r].request /\ id = stream[r].id
  OBVIOUS
<1>2. ASSUME stream[r].kind = "Market"
      PROVE  /\ MarketOK(q, id, y, last_seq)
             /\ Served(r)' => MarketServed(q, y, subscribers[id], last_seq)
  BY <1>1, <1>2, BegunKeeps DEF StreamOK
<1>3. ASSUME stream[r].kind = "Replies"
      PROVE  /\ RepliesOK(q, y)'
             /\ Served(r)' => /\ subscribers[id].kind = "Replies" /\ subscribers[id].symbols = <<>>
                              /\ subscription[id].gateway = q
                              /\ HasLater(q, y)'
  <2>1. RepliesOK(q, x) /\ (Served(r) => RepliesServed(q, x, subscribers[id], subscription[id]))
    BY <1>1, <1>3 DEF StreamOK
  <2>2. RepliesOK(q, y)
    BY <2>1, BegunKeeps
  <2>3. RepliesOK(q, y)' /\ (HasLater(q, y) => HasLater(q, y)')
    BY <2>2, RepliesOKLater DEF SameWay
  <2> QED  BY <2>1, <2>3 DEF RepliesServed
<1> QED  BY <1>1, <1>2, <1>3, StreamAt

LEMMA GivenSeqs == SeatsInv /\ TypedInv => \A r \in Streams : Given(r) \in Seq(FeedItem)
BY GivenIs

LEMMA GivenSeqsNext == (SeatsInv /\ TypedInv)' => \A r \in Streams : Given(r)' \in Seq(FeedItem)
<1>1. (SeatsInv /\ TypedInv)' => (\A r \in Streams : Given(r) \in Seq(FeedItem))'
  BY GivenSeqs, PTL
<1> QED  BY <1>1

\* A stream whose handler, queue and entry stay.
LEMMA StreamOKStays ==
  ASSUME SeatsInv, TypedInv, LineTypeOK, NEW r \in Streams, StreamOK(r),
         UNCHANGED <<last_seq, commands>>, SameWay, stream'[r] = stream[r], sent'[r] = sent[r],
         Following(r) =>
           /\ subscription'[stream[r].id].items = subscription[stream[r].id].items
           /\ subscription'[stream[r].id].gateway = subscription[stream[r].id].gateway
           /\ stream[r].id \in DOMAIN subscribers' \ too_slow' =>
                /\ stream[r].id \in DOMAIN subscribers \ too_slow
                /\ subscribers'[stream[r].id] = subscribers[stream[r].id]
  PROVE  StreamOK(r)'
<1>1. PICK x : x = Given(r) /\ x \in Seq(FeedItem)
  BY GivenIs
<1>2. x = Given(r)' /\ Following(r)' = Following(r)
  BY <1>1, GivenStays
<1>3. Begins(x, x)
  BY <1>1, BeginsIs
<1>4. Served(r)' => /\ Served(r) /\ subscribers'[stream[r].id] = subscribers[stream[r].id]
                    /\ subscription'[stream[r].id].gateway = subscription[stream[r].id].gateway
  BY <1>2 DEF Served
<1> QED  BY <1>1, <1>2, <1>3, <1>4, StreamOKLater

\* A subscriber is dropped: its stream has lost what was queued, or still has it.
LEMMA DropKeepsStream ==
  ASSUME SeatsInv, TypedInv, LineTypeOK, NEW r \in Streams, StreamOK(r), Given(r)' \in Seq(FeedItem),
         UNCHANGED <<last_seq, commands>>, SameWay, stream'[r] = stream[r], sent'[r] = sent[r],
         NEW id, NEW reason \in EndReasons, Drop(id, reason), too_slow \ {id} \subseteq too_slow'
  PROVE  StreamOK(r)'
<1>1. CASE id \notin DOMAIN subscribers
  <2>1. UNCHANGED <<subscription, subscribers>> /\ too_slow \subseteq too_slow'
    BY <1>1, RegistryIs DEF Drop, SeatsInv, TypedInv
  <2> QED  BY <2>1, StreamOKStays
<1>2. CASE id \in DOMAIN subscribers
  <2>1. /\ subscription' = [subscription EXCEPT ![id] = Ended(subscription[id], reason)]
        /\ subscribers' = [i \in DOMAIN subscribers \ {id} |-> subscribers[i]]
    BY <1>2 DEF Drop, Without
  <2>2. CASE ~Following(r) \/ stream[r].id # id
    <3>1. Following(r) => subscription'[stream[r].id] = subscription[stream[r].id]
      BY <2>1, <2>2
    <3>2. stream[r].id \in DOMAIN subscribers' \ too_slow' /\ Following(r) =>
            /\ stream[r].id \in DOMAIN subscribers \ too_slow
            /\ subscribers'[stream[r].id] = subscribers[stream[r].id]
      BY <2>1, <2>2
    <3> QED  BY <3>1, <3>2, StreamOKStays
  <2>3. CASE Following(r) /\ stream[r].id = id
    <3>1. PICK a, h, b : a = sent[r] /\ h = Hand(r) /\ b = subscription[id].items
      OBVIOUS
    <3>2. /\ a \in Seq(FeedItem) /\ h \in Seq(FeedItem) /\ b \in Seq(FeedItem)
          /\ Given(r) = a \o h \o b /\ id \in DOMAIN subscription
      BY <2>3, <3>1, GivenIs
    <3>3. PICK c : c = subscription'[id].items
      OBVIOUS
    <3>4. c = b \/ c = <<>>
      <4>1. IsSubscription(subscription[id]) /\ IsQueue(subscription[id])
        BY <3>2, RegistryIs DEF SeatsInv, TypedInv
      <4> QED  BY <2>1, <3>1, <3>2, <3>3, <4>1, EndedItems
    <3>5. Given(r)' = a \o h \o c
      BY <2>3, <3>1, <3>3 DEF Given, Following, Hand
    <3>6. PICK x, y : x = Given(r) /\ y = Given(r)'
      OBVIOUS
    <3>7. x \in Seq(FeedItem) /\ y \in Seq(FeedItem) /\ Begins(y, x)
      <4>1. x \in Seq(FeedItem) /\ y \in Seq(FeedItem)
        BY <3>6, GivenIs
      <4>2. Begins(x, x) /\ Begins(a \o h \o <<>>, a \o h \o b)
        BY <3>2, <4>1, BeginsIs
      <4> QED  BY <3>2, <3>4, <3>5, <3>6, <4>1, <4>2
    <3>8. ~Served(r)'
      BY <2>1, <2>3 DEF Served
    <3> QED  BY <3>6, <3>7, <3>8, StreamOKLater
  <2> QED  BY <2>2, <2>3
<1> QED  BY <1>1, <1>2

\* All subscriptions end, with what is queued.
LEMMA CloseKeepsStream ==
  ASSUME SeatsInv, TypedInv, LineTypeOK, NEW r \in Streams, StreamOK(r),
         UNCHANGED <<commands, stream, sent>>, SameWay, Close
  PROVE  StreamOK(r)'
<1>1. /\ subscription' = [id \in DOMAIN subscription |->
                            IF id \in DOMAIN subscribers
                            THEN Ended(subscription[id], "Shutdown") ELSE subscription[id]]
      /\ DOMAIN subscribers' = {} /\ UNCHANGED last_seq
  BY DEF Close
<1>2. ASSUME NEW id \in DOMAIN subscription
      PROVE  /\ subscription'[id].items = subscription[id].items
             /\ subscription'[id].gateway = subscription[id].gateway
  <2>1. IsSubscription(subscription[id]) /\ IsQueue(subscription[id])
    BY RegistryIs DEF SeatsInv, TypedInv
  <2>2. /\ Ended(subscription[id], "Shutdown").items = subscription[id].items
        /\ Ended(subscription[id], "Shutdown").gateway = subscription[id].gateway
    BY <2>1, EndedItems, EndedKeeps DEF EndReasons
  <2> QED  BY <1>1, <2>2
<1> QED  BY <1>1, <1>2, GivenIs, StreamOKStays

\* The handler of r goes on, and what the stream has been given stays, or begins it.
LEMMA TurnKeepsStream ==
  ASSUME SeatsInv, TypedInv, LineTypeOK, NEW r \in Streams, StreamOK(r), Given(r)' \in Seq(FeedItem),
         UNCHANGED <<last_seq, commands>>, SameWay, UNCHANGED <<subscribers, too_slow>>,
         NEW pc, NEW rest, NEW item, NEW status, Turns(r, pc, rest, item, status),
         subscription'[stream[r].id].gateway = subscription[stream[r].id].gateway,
         \/ Following(r) /\ Given(r)' = Given(r)
         \/ ~Following(r)' /\ sent'[r] = sent[r]
  PROVE  StreamOK(r)'
<1>1. /\ stream'[r].kind = stream[r].kind /\ stream'[r].request = stream[r].request
      /\ stream'[r].id = stream[r].id
  BY DEF Turns
<1>2. PICK x, y : x = Given(r) /\ y = Given(r)'
  OBVIOUS
<1>3. x \in Seq(FeedItem) /\ y \in Seq(FeedItem) /\ Begins(x, x)
  BY <1>2, GivenIs, BeginsIs
<1>4. CASE Following(r) /\ Given(r)' = Given(r)
  <2>1. Served(r)' => Served(r)
    BY <1>1, <1>4 DEF Served
  <2> QED  BY <1>1, <1>2, <1>3, <1>4, <2>1, StreamOKLater
<1>5. CASE ~Following(r)' /\ sent'[r] = sent[r]
  <2>1. y = sent[r]
    BY <1>2, <1>5 DEF Given
  <2>2. Begins(y, x)
    BY <1>2, <2>1, GivenIs
  <2>3. ~Served(r)'
    BY <1>5 DEF Served
  <2> QED  BY <1>1, <1>2, <1>3, <2>2, <2>3, StreamOKLater
<1> QED  BY <1>4, <1>5

\* The pump goes from one place to the next with what it has in hand.
LEMMA PumpKeepsStream ==
  ASSUME SeatsInv, TypedInv, LineTypeOK, NEW r \in Streams, StreamOK(r), Given(r)' \in Seq(FeedItem),
         UNCHANGED <<last_seq, commands>>, SameWay, UNCHANGED <<subscribers, too_slow, subscription, sent>>,
         Following(r),
         NEW pc, NEW rest, NEW item, NEW status, Turns(r, pc, rest, item, status),
         \/ pc \in {"request", "check", "next", "empty"} /\ item = stream[r].item
         \/ pc = "leave"
  PROVE  StreamOK(r)'
<1>1. stream'[r].pc = pc /\ stream'[r].item = item /\ stream'[r].id = stream[r].id
  BY DEF Turns
<1>2. CASE pc \in {"request", "check", "next", "empty"} /\ item = stream[r].item
  <2>1. Given(r)' = Given(r)
    BY <1>1, <1>2 DEF Given, Following
  <2> QED  BY <2>1, TurnKeepsStream
<1>3. CASE pc = "leave"
  <2>1. ~Following(r)'
    BY <1>1, <1>3 DEF Following
  <2> QED  BY <2>1, TurnKeepsStream
<1> QED  BY <1>2, <1>3

\* The first item of the queue goes to the hand of the handler.
LEMMA NextForKeepsStream ==
  ASSUME SeatsInv, TypedInv, LineTypeOK, NEW r \in Streams, StreamOK(r), Given(r)' \in Seq(FeedItem),
         UNCHANGED <<last_seq, commands>>, SameWay, NextFor(r)
  PROVE  StreamOK(r)'
<1>1. /\ stream[r].pc = "next" /\ stream[r].item = None /\ stream[r].id \in DOMAIN subscription
      /\ Following(r)
      /\ UNCHANGED <<subscribers, too_slow, sent>>
  BY HandlerAt DEF NextFor, At, Following
<1>2. StreamsOK /\ HandlersTyped
  BY DEF SeatsInv, TypedInv
<1>3. PICK id : id = stream[r].id
  OBVIOUS
<1>4. IsSubscription(subscription[id]) /\ IsQueue(subscription[id])
  BY <1>1, <1>3, RegistryIs DEF SeatsInv, TypedInv
<1>5. CASE subscription[id].items = <<>>
  <2>1. Goto(r, "empty") /\ UNCHANGED subscription
    BY <1>3, <1>5 DEF NextFor
  <2>2. Turns(r, "empty", stream[r].snapshots, stream[r].item, stream[r].status)
    BY <1>2, <2>1, HandlerTurns
  <2> QED  BY <1>1, <2>1, <2>2, PumpKeepsStream
<1>6. CASE subscription[id].items # <<>>
  <2>1. PICK left : left = [subscription[id] EXCEPT !.items = Tail(@)]
    OBVIOUS
  <2>2. PICK item, b : item = Head(b) /\ b = subscription[id].items
    OBVIOUS
  <2>3. /\ subscription' = [subscription EXCEPT ![id] = left]
        /\ stream' = [stream EXCEPT ![r].pc = "write", ![r].item = item]
    BY <1>3, <1>6, <2>1, <2>2 DEF NextFor
  <2>4. left.items = Tail(b) /\ left.gateway = subscription[id].gateway /\ item \in FeedItem
    BY <1>4, <1>6, <2>1, <2>2, QueueTaken
  <2>5. subscription'[id] = left
    BY <1>1, <1>3, <2>3
  <2>6. Turns(r, "write", stream[r].snapshots, item, stream[r].status)
    BY <1>2, <2>3, HandlerTurns
  <2>7. stream'[r].pc = "write" /\ stream'[r].item = item /\ stream'[r].id = id
    BY <1>3, <2>6 DEF Turns
  <2>8. item # None
    BY <2>4, PublisherAssumption DEF FeedItem, EventItem, SnapshotItem, ReplyItem
  <2>9. PICK a : a = sent[r] /\ a \in Seq(FeedItem) /\ b \in Seq(FeedItem)
    BY <1>4, <2>2, GivenIs DEF IsQueue
  <2>10. Given(r)' = a \o <<item>> \o Tail(b)
    BY <1>1, <2>4, <2>5, <2>7, <2>8, <2>9 DEF Given, Following
  <2>11. Given(r) = a \o <<>> \o b
    BY <1>1, <1>3, <2>2, <2>9 DEF Given
  <2>12. b # <<>>
    BY <1>6, <2>2
  <2>13. Given(r)' = Given(r)
    <3>1. a \o <<Head(b)>> \o Tail(b) = a \o <<>> \o b
      BY <2>4, <2>9, <2>12, JoinMoved
    <3>2. item = Head(b)
      BY <2>2
    <3>3. Given(r)' = a \o <<Head(b)>> \o Tail(b)
      BY <2>10, <3>2
    <3> QED  BY <2>11, <3>1, <3>3
  <2> QED  BY <1>1, <1>3, <2>4, <2>5, <2>6, <2>13, TurnKeepsStream
<1> QED  BY <1>5, <1>6

\* The item in hand is sent.
LEMMA WriteKeepsStream ==
  ASSUME SeatsInv, TypedInv, LineTypeOK, NEW r \in Streams, StreamOK(r), Given(r)' \in Seq(FeedItem),
         UNCHANGED <<last_seq, commands>>, SameWay, Write(r)
  PROVE  StreamOK(r)'
<1>1. /\ stream[r].pc = "write" /\ stream[r].item \in FeedItem /\ stream[r].id \in DOMAIN subscription
      /\ Following(r)
      /\ UNCHANGED <<subscribers, too_slow, subscription>>
      /\ stream' = [stream EXCEPT ![r].pc = "check", ![r].item = None]
      /\ sent' = [sent EXCEPT ![r] = Append(sent[r], stream[r].item)]
  BY HandlerAt DEF Write, At, Following, publisherVars
<1>2. StreamsOK /\ HandlersTyped
  BY DEF SeatsInv, TypedInv
<1>3. Turns(r, "check", stream[r].snapshots, None, stream[r].status)
  BY <1>1, <1>2, HandlerTurns
<1>4. PICK a, e, b : a = sent[r] /\ e = stream[r].item /\ b = subscription[stream[r].id].items
  OBVIOUS
<1>5. a \in Seq(FeedItem) /\ e \in FeedItem /\ b \in Seq(FeedItem)
  BY <1>1, <1>4, GivenIs
<1>6. e # None
  BY <1>5, PublisherAssumption DEF FeedItem, EventItem, SnapshotItem, ReplyItem
<1>7. sent'[r] = Append(a, e)
  BY <1>1, <1>2, <1>4 DEF HandlersTyped
<1>8. stream'[r].pc = "check" /\ stream'[r].item = None /\ stream'[r].id = stream[r].id
  BY <1>3 DEF Turns
<1>9. Given(r)' = Append(a, e) \o <<>> \o b
  BY <1>1, <1>4, <1>7, <1>8 DEF Given, Following
<1>10. Given(r) = a \o <<e>> \o b
  BY <1>1, <1>4, <1>6 DEF Given
<1>11. Given(r)' = Given(r)
  BY <1>5, <1>9, <1>10, JoinMoved
<1> QED  BY <1>1, <1>3, <1>11, TurnKeepsStream

\* A step of the handler of r.
LEMMA HandlerKeepsStream ==
  ASSUME SeatsInv, TypedInv, LineTypeOK, NEW r \in Streams, StreamOK(r), Given(r)' \in Seq(FeedItem),
         UNCHANGED <<last_seq, commands>>, SameWay, HandlerStep(r) \/ Write(r)
  PROVE  StreamOK(r)'
<1>1. StreamsOK /\ HandlersTyped
  BY DEF SeatsInv, TypedInv
<1>2. CASE RequestSnapshot(r)
  <2>1. /\ stream[r].pc = "request" /\ Following(r) /\ UNCHANGED <<subscribers, too_slow, subscription, sent>>
        /\ Goto(r, "check") \/ \E rest : stream' = [stream EXCEPT ![r].snapshots = rest]
    BY <1>2 DEF RequestSnapshot, At, Following, publisherVars
  <2>2. CASE Goto(r, "check")
    <3>1. Turns(r, "check", stream[r].snapshots, stream[r].item, stream[r].status)
      BY <1>1, <2>2, HandlerTurns
    <3> QED  BY <2>1, <3>1, PumpKeepsStream
  <2>3. ASSUME NEW rest, stream' = [stream EXCEPT ![r].snapshots = rest] PROVE StreamOK(r)'
    <3>1. Turns(r, "request", rest, stream[r].item, stream[r].status)
      BY <1>1, <2>1, <2>3, HandlerTurns
    <3> QED  BY <2>1, <3>1, PumpKeepsStream
  <2> QED  BY <2>1, <2>2, <2>3
<1>3. CASE CheckCancelled(r) \/ CheckEnded(r) \/ WriteFails(r)
  <2>1. /\ Following(r) /\ UNCHANGED <<subscribers, too_slow, subscription, sent>>
        /\ \/ \E pc \in {"check", "next"} : Goto(r, pc)
           \/ \E status : LeaveWith(r, status)
    BY <1>3 DEF CheckCancelled, CheckEnded, WriteFails, At, Following, publisherVars
  <2>2. ASSUME NEW pc \in {"check", "next"}, Goto(r, pc) PROVE StreamOK(r)'
    <3>1. Turns(r, pc, stream[r].snapshots, stream[r].item, stream[r].status)
      BY <1>1, <2>2, HandlerTurns
    <3> QED  BY <2>1, <3>1, PumpKeepsStream
  <2>3. ASSUME NEW status, LeaveWith(r, status) PROVE StreamOK(r)'
    <3>1. Turns(r, "leave", stream[r].snapshots, None, status)
      BY <1>1, <2>3, HandlerTurns
    <3> QED  BY <2>1, <3>1, PumpKeepsStream
  <2> QED  BY <2>1, <2>2, <2>3
<1>4. CASE LeaveStream(r)
  <2>1. /\ stream[r].pc = "leave" /\ Goto(r, "done") /\ UNCHANGED sent
        /\ Drop(stream[r].id, "Unsubscribed")
    BY <1>4 DEF LeaveStream, At, unsubscribe
  <2>2. Turns(r, "done", stream[r].snapshots, stream[r].item, stream[r].status)
    BY <1>1, <2>1, HandlerTurns
  <2>3. /\ stream'[r].pc = "done" /\ stream'[r].kind = stream[r].kind
        /\ stream'[r].request = stream[r].request /\ stream'[r].id = stream[r].id
    BY <2>2 DEF Turns
  <2>4. PICK x : x = Given(r) /\ x = Given(r)' /\ ~Served(r)'
    BY <2>1, <2>3 DEF Given, Following, Served
  <2>5. x \in Seq(FeedItem) /\ Begins(x, x)
    BY <2>4, GivenIs, BeginsIs
  <2> QED  BY <2>3, <2>4, <2>5, StreamOKLater
<1> QED  BY <1>2, <1>3, <1>4, NextForKeepsStream, WriteKeepsStream DEF HandlerStep

\* A step of another handler.
LEMMA HandlerKeepsOthers ==
  ASSUME SeatsInv, TypedInv, LineTypeOK, NEW r \in Streams, NEW q \in Streams, q # r, StreamOK(q),
         Given(q)' \in Seq(FeedItem), UNCHANGED <<last_seq, commands>>, SameWay, HandlerStep(r) \/ Write(r)
  PROVE  StreamOK(q)'
<1>1. stream'[q] = stream[q] /\ sent'[q] = sent[q]
  <2>1. stream = [p \in Streams |-> stream[p]] /\ sent \in [Streams -> Seq(FeedItem)]
    BY DEF SeatsInv, StreamsOK, TypedInv, HandlersTyped
  <2> QED  BY <2>1 DEF HandlerStep, RequestSnapshot, CheckCancelled, NextFor, CheckEnded, WriteFails,
              LeaveStream, Write, Goto, LeaveWith
<1>2. CASE LeaveStream(r)
  <2>1. Drop(stream[r].id, "Unsubscribed") /\ UNCHANGED too_slow
    BY <1>2 DEF LeaveStream, unsubscribe
  <2> QED  BY <1>1, <2>1, DropKeepsStream DEF EndReasons
<1>3. CASE ~LeaveStream(r)
  <2>1. /\ UNCHANGED <<subscribers, too_slow>>
        /\ UNCHANGED subscription \/ NextFor(r)
    BY <1>3 DEF HandlerStep, RequestSnapshot, CheckCancelled, NextFor, CheckEnded, WriteFails,
       Write, publisherVars
  <2>2. ASSUME Following(q) PROVE subscription'[stream[q].id] = subscription[stream[q].id]
    <3>1. stream[q].id # stream[r].id /\ stream[q].id \in DOMAIN subscription
      BY <2>2, GivenIs DEF TypedInv, HandlersTyped
    <3>2. NextFor(r) => UNCHANGED subscription
                        \/ \E left : subscription' = [subscription EXCEPT ![stream[r].id] = left]
      BY DEF NextFor
    <3>3. subscription = [id \in 1 .. next_id - 1 |-> subscription[id]]
      BY DEF SeatsInv, RegistryInv, RegistryOK
    <3> QED  BY <2>1, <3>1, <3>2, <3>3
  <2> QED  BY <1>1, <2>1, <2>2, StreamOKStays
<1> QED  BY <1>2, <1>3

\* What the stream of an open subscriber is.
LEMMA ServedIs ==
  ASSUME SeatsInv, TypedInv, Unlocked, NEW r \in Streams, StreamOK(r), Following(r),
         NEW id, id = stream[r].id, id \in DOMAIN subscribers
  PROVE  /\ Served(r) /\ IsHandler(stream[r]) /\ stream[r].kind \in Kinds
         /\ subscribers[id].kind = stream[r].kind
         /\ stream[r].kind = "Market" =>
              MarketServed(stream[r].request, Given(r), subscribers[id], last_seq)
         /\ stream[r].kind = "Replies" =>
              RepliesServed(stream[r].request, Given(r), subscribers[id], subscription[id])
<1>1. Served(r)
  BY DEF Served, Unlocked
<1>2. IsHandler(stream[r]) /\ stream[r].id # 0
  BY GivenIs DEF TypedInv, HandlersTyped
<1>3. stream[r].kind \in Kinds
  BY <1>2 DEF IsHandler
<1> QED  BY <1>1, <1>2, <1>3 DEF StreamOK, MarketServed, RepliesServed, Kinds

\* A request of a market stream.
LEMMA RequestIs ==
  ASSUME TypedInv, NEW r \in Streams, stream[r].kind = "Market", NEW q, q = stream[r].request
  PROVE  /\ Asked(q) \subseteq Symbols
         /\ \A t \in DOMAIN q.from_seq : q.from_seq[t] \in Nat
BY PublisherAssumption DEF TypedInv, HandlersTyped, IsHandler

\* What is no reply leaves the replies on their way.
LEMMA RouteKeepsWay ==
  ASSUME LineTypeOK, RepliesInLine, UNCHANGED <<inbox, pushing, outbox, commands>>, routing' = None,
         routing.kind # "reply", routing.kind # "command"
  PROVE  SameWay
<1>1. \A s, n : ~NumberIs(routing, s, n)
  BY DEF NumberIs, CarriesFor
<1> QED  BY <1>1, RouteKeepsReplies DEF SameWay

\* An event is routed.
LEMMA RouteEventKeepsStream ==
  ASSUME SeatsInv, TypedInv, LineTypeOK, EventsInOrder, RepliesInLine, Unlocked, routing # None,
         RouteEvent(routing), routing' = None, UNCHANGED <<inbox, pushing, outbox, commands, stream, sent>>,
         NEW r \in Streams, StreamOK(r)
  PROVE  StreamOK(r)'
<1>0. PICK item, s, n : item = routing /\ s = item.symbol /\ n = item.seq
  OBVIOUS
<1>1. item \in FeedItem /\ item.kind = "event" /\ s \in Symbols /\ item = Event(s, n)
  BY <1>0, KindsApart DEF RouteEvent, LineTypeOK, Output, OutboxClosed
<1>2. n = last_seq[s] + 1 /\ last_seq \in [Symbols -> Nat]
  BY <1>0, <1>1 DEF EventsInOrder, RoutingIsNext, IsRouting, LineTypeOK
<1>3. PICK ids \in SUBSET DOMAIN subscribers : ids = {id \in DOMAIN subscribers : Takes(id, item)}
  OBVIOUS
<1>4. /\ PushTo(ids, item) /\ last_seq' = [last_seq EXCEPT ![s] = last_seq[s] + 1]
      /\ UNCHANGED subscribers
  BY <1>0, <1>2, <1>3 DEF RouteEvent
<1>5. PICK later : later = [last_seq EXCEPT ![s] = last_seq[s] + 1]
  OBVIOUS
<1>6. SameWay
  BY <1>0, <1>1, RouteKeepsWay
<1>7. PICK x, y, id, q : x = Given(r) /\ y = Given(r)' /\ id = stream[r].id /\ q = stream[r].request
  OBVIOUS
<1>8. /\ IF Following(r) /\ id \in ids /\ id \notin too_slow' THEN y = Append(x, item) ELSE y = x
      /\ Following(r)' = Following(r)
      /\ Following(r) => subscription'[id].gateway = subscription[id].gateway
  BY <1>1, <1>4, <1>7, PushGives
<1>9. /\ Served(r)' <=> Following(r) /\ id \in DOMAIN subscribers /\ id \notin too_slow'
      /\ id \in ids <=> id \in DOMAIN subscribers /\ Takes(id, item)
      /\ ~Takes(id, item) => id \notin too_slow'
  BY <1>3, <1>4, <1>7, <1>8 DEF Served, PushTo
<1>10. ASSUME stream[r].kind = "Market"
       PROVE  /\ MarketOK(q, id, y, later)
              /\ Served(r)' => MarketServed(q, y, subscribers[id], later)
  <2>1. MarketOK(q, id, x, last_seq) /\ Asked(q) \subseteq Symbols
        /\ \A t \in DOMAIN q.from_seq : q.from_seq[t] \in Nat
    BY <1>7, <1>10, RequestIs DEF StreamOK
  <2>2. Following(r) /\ id \in DOMAIN subscribers => MarketServed(q, x, subscribers[id], last_seq)
    BY <1>7, <1>10, ServedIs
  <2>3. later \in [Symbols -> Nat] /\ \A t \in Symbols : last_seq[t] <= later[t]
    BY <1>1, <1>2, <1>5
  <2>4. CASE Following(r) /\ id \in ids /\ id \notin too_slow'
    <3>1. PICK entry : entry = subscribers[id]
      OBVIOUS
    <3>2. /\ MarketServed(q, x, entry, last_seq) /\ y = Append(x, Event(s, last_seq[s] + 1))
          /\ s \in Asked(q) /\ entry.symbols[s].live
          /\ last_seq[s] + 1 >= entry.symbols[s].skip_below
      BY <1>0, <1>1, <1>2, <1>8, <1>9, <2>2, <2>4, <3>1 DEF Takes, MarketServed
    <3> QED  BY <1>1, <1>2, <1>5, <2>1, <3>1, <3>2, EventTaken
  <2>5. CASE ~(Following(r) /\ id \in ids /\ id \notin too_slow')
    <3>1. MarketOK(q, id, y, later)
      BY <1>2, <1>8, <2>1, <2>3, <2>5, MarketOKLater
    <3>2. ASSUME Served(r)' PROVE MarketServed(q, y, subscribers[id], later)
      <4>1. PICK entry : entry = subscribers[id]
        OBVIOUS
      <4>2. MarketServed(q, x, entry, last_seq) /\ ~Takes(id, item) /\ y = x
        BY <1>8, <1>9, <2>2, <2>5, <3>2, <4>1
      <4>3. ~(/\ s \in DOMAIN entry.symbols
              /\ entry.symbols[s].live
              /\ last_seq[s] + 1 >= entry.symbols[s].skip_below)
        BY <1>0, <1>2, <4>1, <4>2 DEF Takes
      <4> QED  BY <1>1, <1>2, <1>5, <2>1, <4>1, <4>2, <4>3, EventSkipped
    <3> QED  BY <3>1, <3>2
  <2> QED  BY <2>4, <2>5
<1>11. ASSUME stream[r].kind = "Replies"
       PROVE  /\ RepliesOK(q, y)'
              /\ Served(r)' => /\ subscribers[id].kind = "Replies" /\ subscribers[id].symbols = <<>>
                               /\ subscription'[id].gateway = q
                               /\ HasLater(q, y)'
  <2>1. RepliesOK(q, x)
    BY <1>7, <1>11 DEF StreamOK
  <2>2. Following(r) /\ id \in DOMAIN subscribers => RepliesServed(q, x, subscribers[id], subscription[id])
    BY <1>7, <1>11, ServedIs
  <2>3. Following(r) => id \notin ids
    BY <1>9, <2>2 DEF RepliesServed, Takes
  <2>4. RepliesOK(q, x)' /\ (HasLater(q, x) => HasLater(q, x)')
    BY <1>6, <2>1, RepliesOKLater DEF SameWay
  <2> QED  BY <1>8, <1>9, <2>2, <2>3, <2>4 DEF RepliesServed
<1> QED  BY <1>4, <1>5, <1>7, <1>10, <1>11, StreamAt

\* A reply is routed.
LEMMA RouteReplyKeepsStream ==
  ASSUME SeatsInv, TypedInv, LineTypeOK, RepliesInLine, Unlocked, routing # None,
         RouteReply(routing), routing' = None, UNCHANGED <<inbox, pushing, outbox, commands, stream, sent>>,
         NEW r \in Streams, StreamOK(r)
  PROVE  StreamOK(r)'
<1>0. PICK item, g : item = routing /\ g = item.gateway
  OBVIOUS
<1>1. item \in FeedItem /\ item.kind = "reply"
  BY <1>0 DEF RouteReply, LineTypeOK, Output, OutboxClosed
<1>3. PICK ids \in SUBSET DOMAIN subscribers :
        ids = {id \in DOMAIN subscribers : g \in DOMAIN replies_by_gateway /\ id = replies_by_gateway[g]}
  OBVIOUS
<1>4. PushTo(ids, item) /\ UNCHANGED <<subscribers, last_seq>>
  BY <1>0, <1>3 DEF RouteReply
<1>5. SeatsAreTaken /\ SubscribersAreSeated
  BY DEF SeatsInv, RegistryInv, SeatsAgree
<1>6. \A i \in ids : subscribers[i].kind = "Replies" /\ subscription[i].gateway = g
  BY <1>3, <1>5 DEF SeatsAreTaken, SeatsOf, Kinds
<1>7. PICK x, y, id, q : x = Given(r) /\ y = Given(r)' /\ id = stream[r].id /\ q = stream[r].request
  OBVIOUS
<1>8. /\ IF Following(r) /\ id \in ids /\ id \notin too_slow' THEN y = Append(x, item) ELSE y = x
      /\ Following(r)' = Following(r)
      /\ Following(r) => subscription'[id].gateway = subscription[id].gateway
  BY <1>1, <1>4, <1>7, PushGives
<1>9. Served(r)' <=> Following(r) /\ id \in DOMAIN subscribers /\ id \notin too_slow'
  BY <1>4, <1>7, <1>8 DEF Served
<1>10. ASSUME stream[r].kind = "Market"
       PROVE  /\ MarketOK(q, id, y, last_seq)
              /\ Served(r)' => MarketServed(q, y, subscribers[id], last_seq)
  <2>1. MarketOK(q, id, x, last_seq)
    BY <1>7, <1>10 DEF StreamOK
  <2>2. Following(r) /\ id \in DOMAIN subscribers => MarketServed(q, x, subscribers[id], last_seq)
    BY <1>7, <1>10, ServedIs
  <2>3. Following(r) => id \notin ids
    BY <1>6, <2>2 DEF MarketServed
  <2> QED  BY <1>8, <1>9, <2>1, <2>2, <2>3
<1>11. ASSUME stream[r].kind = "Replies"
       PROVE  /\ RepliesOK(q, y)'
              /\ Served(r)' => /\ subscribers[id].kind = "Replies" /\ subscribers[id].symbols = <<>>
                               /\ subscription'[id].gateway = q
                               /\ HasLater(q, y)'
  <2>1. RepliesOK(q, x)
    BY <1>7, <1>11 DEF StreamOK
  <2>2. Following(r) /\ id \in DOMAIN subscribers => RepliesServed(q, x, subscribers[id], subscription[id])
    BY <1>7, <1>11, ServedIs
  <2>3. CASE Following(r) /\ id \in ids /\ id \notin too_slow'
    <3>1. q = g /\ HasLater(q, x) /\ subscribers[id].kind = "Replies" /\ subscribers[id].symbols = <<>>
          /\ subscription'[id].gateway = q
      BY <1>6, <1>8, <2>2, <2>3 DEF RepliesServed
    <3>2. y = Append(x, item) /\ RepliesOK(item.gateway, x) /\ HasLater(item.gateway, x)
      BY <1>0, <1>8, <2>1, <2>3, <3>1
    <3>3. RepliesOK(item.gateway, y)' /\ HasLater(item.gateway, y)'
      BY <1>0, <1>1, <3>2, ReplyTaken
    <3> QED  BY <1>0, <3>1, <3>3
  <2>4. CASE ~(Following(r) /\ id \in ids /\ id \notin too_slow')
    <3>1. /\ \A t \in Symbols : \A n : OnTheWay(t, n)' => OnTheWay(t, n)
          /\ \A t \in Symbols : \A n : OnTheWay(t, n) => OnTheWay(t, n)' \/ NumberIs(item, t, n)
      BY <1>0, RouteKeepsReplies
    <3>2. RepliesOK(q, x)' /\ y = x
      BY <1>8, <2>1, <2>4, <3>1, RepliesOKLater
    <3>3. ASSUME Served(r)'
          PROVE  /\ subscribers[id].kind = "Replies" /\ subscribers[id].symbols = <<>>
                 /\ subscription'[id].gateway = q
                 /\ HasLater(q, x)'
      <4>1. /\ Following(r) /\ id \in DOMAIN subscribers /\ id \notin ids
            /\ subscribers[id].kind = "Replies" /\ subscribers[id].symbols = <<>>
            /\ subscription[id].gateway = q /\ subscription'[id].gateway = q
            /\ HasLater(q, x)
        BY <1>8, <1>9, <2>2, <2>4, <3>3 DEF RepliesServed
      <4>2. g # q
        <5>1. q \in DOMAIN replies_by_gateway /\ replies_by_gateway[q] = id
          BY <1>5, <4>1 DEF SubscribersAreSeated, SeatsOf, Kinds
        <5> QED  BY <1>3, <4>1, <5>1
      <4>3. IsCommandOf(item, commands)
        <5>1. Known(<<item>>, commands)
          BY <1>0 DEF RepliesInLine, InHand
        <5> QED  BY <5>1, NothingHeld
      <4>4. \A t \in Symbols : \A n \in DOMAIN commands :
              OnTheWay(t, n) /\ commands[n].gateway = q => OnTheWay(t, n)'
        <5>1. \A t, n : NumberIs(item, t, n) => commands[n].gateway = g
          BY <1>0, <1>1, <4>3 DEF NumberIs, IsCommandOf
        <5> QED  BY <3>1, <4>2, <5>1
      <4>5. HasLater(q, x)'
        BY <2>1, <3>1, <4>1, <4>4, RepliesOKLater
      <4> QED  BY <4>1, <4>5
    <3> QED  BY <3>2, <3>3
  <2> QED  BY <2>3, <2>4
<1> QED  BY <1>4, <1>7, <1>10, <1>11, StreamAt

\* A snapshot is routed.
LEMMA RouteSnapshotKeepsStream ==
  ASSUME SeatsInv, TypedInv, LineTypeOK, SnapshotIsNext, RepliesInLine, Unlocked, routing # None,
         RouteSnapshot(routing), routing' = None, UNCHANGED <<inbox, pushing, outbox, commands, stream, sent>>,
         NEW r \in Streams, StreamOK(r)
  PROVE  StreamOK(r)'
<1>0. PICK item, s, to : item = routing /\ s = item.symbol /\ to = item.subscriber
  OBVIOUS
<1>1. item \in FeedItem /\ item.kind = "snapshot" /\ item.seq = last_seq[s] /\ UNCHANGED last_seq
  BY <1>0 DEF RouteSnapshot, LineTypeOK, Output, OutboxClosed, SnapshotIsNext
<1>2. SameWay
  BY <1>0, <1>1, RouteKeepsWay
<1>3. CASE ~Awaits(to, s)
  <2>1. UNCHANGED <<subscribers, subscription, too_slow>>
    BY <1>0, <1>3 DEF RouteSnapshot
  <2> QED  BY <1>1, <1>2, <2>1, StreamOKStays
<1>4. CASE Awaits(to, s)
  <2>1. /\ to \in DOMAIN subscribers /\ s \in DOMAIN subscribers[to].symbols /\ ~subscribers[to].symbols[s].live
        /\ subscribers' = [subscribers EXCEPT ![to].symbols[s].live = TRUE]
        /\ PushTo({to}, item)
    BY <1>0, <1>4 DEF RouteSnapshot, Awaits
  <2>2. PICK ids \in SUBSET DOMAIN subscribers : ids = {to} /\ PushTo(ids, item)
    BY <2>1
  <2>3. PICK x, y, id, q : x = Given(r) /\ y = Given(r)' /\ id = stream[r].id /\ q = stream[r].request
    OBVIOUS
  <2>4. /\ IF Following(r) /\ id = to /\ id \notin too_slow' THEN y = Append(x, item) ELSE y = x
        /\ Following(r)' = Following(r)
        /\ Following(r) => subscription'[id].gateway = subscription[id].gateway
    BY <1>1, <2>2, <2>3, PushGives
  <2>5. /\ DOMAIN subscribers' = DOMAIN subscribers
        /\ \A i \in DOMAIN subscribers \ {to} : subscribers'[i] = subscribers[i]
        /\ subscribers'[to] = [subscribers[to] EXCEPT !.symbols[s].live = TRUE]
    <3>1. subscribers = [i \in DOMAIN subscribers |-> subscribers[i]]
      BY DEF SeatsInv, RegistryInv, RegistryOK
    <3> QED  BY <2>1, <3>1
  <2>6. Served(r)' <=> Following(r) /\ id \in DOMAIN subscribers /\ id \notin too_slow'
    BY <2>3, <2>4, <2>5 DEF Served
  <2>7. ASSUME stream[r].kind = "Market"
        PROVE  /\ MarketOK(q, id, y, last_seq)
               /\ Served(r)' => MarketServed(q, y, subscribers'[id], last_seq)
    <3>1. MarketOK(q, id, x, last_seq) /\ Asked(q) \subseteq Symbols
          /\ \A t \in DOMAIN q.from_seq : q.from_seq[t] \in Nat
      BY <2>3, <2>7, RequestIs DEF StreamOK
    <3>2. Following(r) /\ id \in DOMAIN subscribers => MarketServed(q, x, subscribers[id], last_seq)
      BY <2>3, <2>7, ServedIs
    <3>3. CASE Following(r) /\ id = to /\ id \notin too_slow'
      <4>1. PICK entry, new : entry = subscribers[to] /\ new = [entry EXCEPT !.symbols[s].live = TRUE]
        OBVIOUS
      <4>2. new = subscribers'[id]
        BY <2>5, <3>3, <4>1
      <4>3. /\ MarketServed(q, x, entry, last_seq) /\ y = Append(x, item)
            /\ s \in Asked(q) /\ ~entry.symbols[s].live
        BY <2>1, <2>4, <3>2, <3>3, <4>1 DEF MarketServed
      <4>4. IsSubscriber(entry) /\ HasStates(entry)
        BY <2>1, <4>1, RegistryIs DEF SeatsInv, TypedInv
      <4>5. /\ new.kind = entry.kind
            /\ new.symbols = GoneLive(entry.symbols, s)
        BY <2>1, <4>1, <4>4, LiveKeepsStates DEF GoneLive
      <4>6. last_seq \in [Symbols -> Nat] /\ item.subscriber = id /\ item.symbol = s
        BY <1>0, <3>3 DEF LineTypeOK
      <4>7. PICK last : last = last_seq
        OBVIOUS
      <4>8. /\ last \in [Symbols -> Nat] /\ MarketOK(q, id, x, last) /\ MarketServed(q, x, entry, last)
            /\ item.seq = last[s] /\ Asked(q) \subseteq Symbols
        BY <1>1, <3>1, <4>3, <4>6, <4>7
      <4>9. MarketOK(q, id, Append(x, item), last) /\ MarketServed(q, Append(x, item), new, last)
        BY <1>1, <4>3, <4>5, <4>6, <4>8, SnapshotTaken
      <4> QED  BY <4>2, <4>3, <4>7, <4>9
    <3>4. CASE ~(Following(r) /\ id = to /\ id \notin too_slow')
      <4>1. Served(r)' => Following(r) /\ id \in DOMAIN subscribers \ {to}
        BY <2>6, <3>4
      <4> QED  BY <2>4, <2>5, <3>1, <3>2, <3>4, <4>1
    <3> QED  BY <3>3, <3>4
  <2>8. ASSUME stream[r].kind = "Replies"
        PROVE  /\ RepliesOK(q, y)'
               /\ Served(r)' => /\ subscribers'[id].kind = "Replies" /\ subscribers'[id].symbols = <<>>
                                /\ subscription'[id].gateway = q
                                /\ HasLater(q, y)'
    <3>1. RepliesOK(q, x)
      BY <2>3, <2>8 DEF StreamOK
    <3>2. Following(r) /\ id \in DOMAIN subscribers => RepliesServed(q, x, subscribers[id], subscription[id])
      BY <2>3, <2>8, ServedIs
    <3>3. Following(r) => id # to
      BY <2>1, <3>2 DEF RepliesServed
    <3>4. RepliesOK(q, x)' /\ (HasLater(q, x) => HasLater(q, x)')
      BY <1>2, <3>1, RepliesOKLater DEF SameWay
    <3>5. Following(r) /\ id \in DOMAIN subscribers => subscribers'[id] = subscribers[id]
      BY <2>5, <3>3
    <3> QED  BY <2>4, <2>6, <3>2, <3>3, <3>4, <3>5 DEF RepliesServed
  <2> QED  BY <1>1, <2>3, <2>7, <2>8, StreamAt
<1> QED  BY <1>3, <1>4

\* A new subscriber has the next id, and the others stay.
LEMMA RegisterIs ==
  ASSUME RegistryInv, NEW kind, NEW symbols, NEW queue, Register(kind, symbols, queue)
  PROVE  /\ subscription'[next_id] = queue
         /\ subscribers'[next_id] = [kind |-> kind, symbols |-> symbols]
         /\ next_id \in DOMAIN subscribers'
         /\ \A id \in DOMAIN subscription :
              /\ subscription'[id] = subscription[id]
              /\ id \in DOMAIN subscribers' => id \in DOMAIN subscribers /\ subscribers'[id] = subscribers[id]
<1>1. next_id \in Nat \ {0} /\ DOMAIN subscription = 1 .. next_id - 1
  BY DEF RegistryInv, RegistryOK
<1>2. subscription' = [id \in 1 .. next_id |-> IF id = next_id THEN queue ELSE subscription[id]]
  <2>1. subscription = [id \in 1 .. next_id - 1 |-> subscription[id]]
    BY DEF RegistryInv, RegistryOK
  <2>2. next_id - 1 \in Nat /\ next_id - 1 + 1 = next_id
    BY <1>1
  <2> QED  BY <2>1, <2>2, AppendIs DEF Register
<1>3. PICK entry : entry = [kind |-> kind, symbols |-> symbols]
  OBVIOUS
<1>4. subscribers' = [id \in DOMAIN subscribers \cup {next_id} |->
                        IF id = next_id THEN entry ELSE subscribers[id]]
  BY <1>3 DEF Register, Extended
<1>5. next_id \in 1 .. next_id /\ \A id \in 1 .. next_id - 1 : id # next_id /\ id \in 1 .. next_id
  BY <1>1
<1> QED  BY <1>1, <1>2, <1>3, <1>4, <1>5

\* A handler registers its subscriber, and the other streams stay.
LEMMA RegisterKeepsOthers ==
  ASSUME SeatsInv, TypedInv, LineTypeOK, UNCHANGED <<last_seq, commands, sent, too_slow>>, SameWay,
         NEW kind, NEW symbols, NEW queue, Register(kind, symbols, queue),
         NEW r \in Streams, NEW q \in Streams, q # r, StreamOK(q),
         NEW y, stream' = [stream EXCEPT ![r] = y]
  PROVE  StreamOK(q)'
<1>1. stream'[q] = stream[q] /\ sent'[q] = sent[q] /\ RegistryInv
  BY DEF SeatsInv, StreamsOK
<1>2. ASSUME Following(q)
      PROVE  /\ subscription'[stream[q].id] = subscription[stream[q].id]
             /\ stream[q].id \in DOMAIN subscribers' \ too_slow' =>
                  /\ stream[q].id \in DOMAIN subscribers \ too_slow
                  /\ subscribers'[stream[q].id] = subscribers[stream[q].id]
  <2>1. stream[q].id \in DOMAIN subscription
    BY <1>2, GivenIs
  <2> QED  BY <1>1, <2>1, RegisterIs
<1> QED  BY <1>1, <1>2, StreamOKStays

\* What the new stream is given.
LEMMA NewGiven ==
  ASSUME StreamsOK, HandlersTyped, NEW r \in Streams, stream[r].pc = "none", UNCHANGED sent,
         NEW kind, NEW request, NEW pc \in {"request", "check"}, NEW snapshots,
         Accepted(r, kind, request, pc, snapshots), NEW items \in Seq(FeedItem),
         subscription'[next_id].items = items
  PROVE  /\ Given(r)' = items /\ stream'[r].id = next_id
         /\ stream'[r].kind = kind /\ stream'[r].request = request
<1>1. stream'[r] = [pc |-> pc, kind |-> kind, request |-> request, id |-> next_id,
                    snapshots |-> snapshots, item |-> None, status |-> stream[r].status]
  BY AcceptedIs
<1>2. /\ stream'[r].pc = pc /\ stream'[r].id = next_id /\ stream'[r].item = None
      /\ stream'[r].kind = kind /\ stream'[r].request = request
  BY <1>1
<1>3. sent'[r] = <<>>
  BY DEF StreamsOK, HandlersTyped, At
<1>4. Given(r)' = <<>> \o <<>> \o items
  BY <1>2, <1>3 DEF Given, Following
<1>5. <<>> \o <<>> \o items = items
  <2>1. <<>> \in Seq(FeedItem)
    OBVIOUS
  <2> QED  BY <2>1, ConcatEmptySeq
<1> QED  BY <1>2, <1>4, <1>5

\* A handler whose call is refused has no stream.
LEMMA RefusedKeepsStreams ==
  ASSUME SeatsInv, TypedInv, LineTypeOK, UNCHANGED <<commands, sent>>, SameWay,
         NEW r \in Streams, stream[r].pc = "none", NEW error, Refused(r, error),
         NEW q \in Streams, StreamOK(q)
  PROVE  StreamOK(q)'
<1>1. StreamsOK /\ HandlersTyped /\ UNCHANGED <<subscription, subscribers, too_slow, last_seq>>
  BY DEF SeatsInv, TypedInv, Refused, publisherVars
<1>2. Turns(r, "done", stream[r].snapshots, stream[r].item, StatusOf(error))
  BY <1>1, HandlerTurns DEF Refused
<1>3. CASE q # r
  <2>1. stream'[q] = stream[q]
    BY <1>2, <1>3 DEF Turns
  <2> QED  BY <1>1, <2>1, StreamOKStays
<1>4. CASE q = r
  <2>1. stream[r].kind = "None"
    BY <1>1 DEF StreamsOK, HandlersTyped, IsHandler, At
  <2>2. stream'[q].kind = "None"
    BY <1>2, <1>4, <2>1 DEF Turns
  <2> QED  BY <2>2 DEF StreamOK
<1> QED  BY <1>3, <1>4

\* A market stream begins.
LEMMA SubscribeKeepsStreams ==
  ASSUME OrderInv, TypedInv, SameWay, NEW r \in Streams, NEW q \in MarketRequests, Subscribe(r, q),
         NEW other \in Streams, StreamOK(other)
  PROVE  StreamOK(other)'
<1>1. /\ stream[r].pc = "none" /\ UNCHANGED <<sent, commands>>
      /\ SeatsInv /\ RegistryInv /\ StreamsOK /\ HandlersTyped /\ LineTypeOK /\ HistoryIsWindow
  BY DEF Subscribe, At, OrderInv, SeatsInv, LineInv, EventsInOrder, TypedInv, workerVars
<1>2. CASE subscribe(q) /\ Accepted(r, "Market", q, "request", Snapshots(q))
  <2>1. SubscribeError(q) = "None" /\ UNCHANGED <<last_seq, too_slow>>
    BY <1>2 DEF subscribe
  <2>2. PICK items : items = Replay(q)
    OBVIOUS
  <2>3. items \in Seq(FeedItem)
    BY <1>1, <2>1, <2>2, ReplayIs
  <2>4. QueueCapacity + Len(items) \in Nat
    BY <2>3, PublisherAssumption
  <2>5. PICK queue : queue = NewSubscription(q.gateway, QueueCapacity + Len(items), items)
    OBVIOUS
  <2>6. PICK symbols : symbols = [s \in Asked(q) |-> StartOf(q, s)]
    OBVIOUS
  <2>7. Register("Market", symbols, queue)
    BY <1>2, <2>2, <2>5, <2>6 DEF subscribe
  <2>8. CASE other # r
    <3>1. \E y : stream' = [stream EXCEPT ![r] = y]
      BY <1>2 DEF Accepted
    <3> QED  BY <1>1, <2>1, <2>7, <2>8, <3>1, RegisterKeepsOthers
  <2>9. CASE other = r
    <3>1. PICK id : id = next_id
      OBVIOUS
    <3>2. subscription'[id] = queue /\ subscribers'[id] = [kind |-> "Market", symbols |-> symbols]
      BY <1>1, <2>7, <3>1, RegisterIs
    <3>3. queue.items = items
      BY <2>3, <2>4, <2>5, NewIsQueue
    <3>4. Given(r)' = items /\ stream'[r].id = id /\ stream'[r].kind = "Market" /\ stream'[r].request = q
      BY <1>1, <1>2, <2>3, <3>1, <3>2, <3>3, NewGiven
    <3>5. PICK entry : entry = subscribers'[id] /\ entry.kind = "Market" /\ entry.symbols = symbols
      BY <3>2
    <3>6. MarketOK(q, id, items, last_seq) /\ MarketServed(q, items, entry, last_seq)
      BY <1>1, <2>1, <2>2, <2>6, <3>5, MarketStarts
    <3> QED  BY <2>1, <2>9, <3>4, <3>5, <3>6, StreamAt
  <2> QED  BY <2>8, <2>9
<1>3. CASE Refused(r, SubscribeError(q))
  BY <1>1, <1>3, RefusedKeepsStreams
<1> QED  BY <1>2, <1>3 DEF Subscribe

\* A replies stream begins with nothing.
LEMMA SubscribeRepliesKeepsStreams ==
  ASSUME OrderInv, TypedInv, SameWay, NEW r \in Streams, NEW gateway \in RepliesGateways,
         SubscribeReplies(r, gateway), NEW other \in Streams, StreamOK(other)
  PROVE  StreamOK(other)'
<1>1. /\ stream[r].pc = "none" /\ UNCHANGED <<sent, commands>>
      /\ SeatsInv /\ RegistryInv /\ StreamsOK /\ HandlersTyped /\ LineTypeOK
  BY DEF SubscribeReplies, At, OrderInv, SeatsInv, LineInv, TypedInv, workerVars
<1>2. CASE subscribe_replies(gateway) /\ Accepted(r, "Replies", gateway, "check", {})
  <2>1. UNCHANGED <<last_seq, too_slow>> /\ QueueCapacity \in Nat
    BY <1>2, PublisherAssumption DEF subscribe_replies
  <2>2. PICK queue : queue = NewSubscription(gateway, QueueCapacity, <<>>)
    OBVIOUS
  <2>3. Register("Replies", <<>>, queue)
    BY <1>2, <2>2 DEF subscribe_replies
  <2>4. CASE other # r
    <3>1. \E y : stream' = [stream EXCEPT ![r] = y]
      BY <1>2 DEF Accepted
    <3> QED  BY <1>1, <2>1, <2>3, <2>4, <3>1, RegisterKeepsOthers
  <2>5. CASE other = r
    <3>1. PICK id : id = next_id
      OBVIOUS
    <3>2. subscription'[id] = queue /\ subscribers'[id] = [kind |-> "Replies", symbols |-> <<>>]
      BY <1>1, <2>3, <3>1, RegisterIs
    <3>3. queue.items = <<>> /\ queue.gateway = gateway /\ <<>> \in Seq(FeedItem)
      BY <2>2 DEF NewSubscription
    <3>4. /\ Given(r)' = <<>> /\ stream'[r].id = id /\ stream'[r].kind = "Replies"
          /\ stream'[r].request = gateway
      <4>1. subscription'[next_id].items = <<>>
        BY <3>1, <3>2, <3>3
      <4>2. Accepted(r, "Replies", gateway, "check", {})
        BY <1>2
      <4>3. /\ Given(r)' = <<>> /\ stream'[r].id = next_id /\ stream'[r].kind = "Replies"
            /\ stream'[r].request = gateway
        BY <1>1, <3>3, <4>1, <4>2, NewGiven
      <4> QED  BY <3>1, <4>3
    <3>5. RepliesOK(gateway, <<>>)' /\ HasLater(gateway, <<>>)'
      BY DEF RepliesOK, HasLater
    <3> QED  BY <2>5, <3>2, <3>3, <3>4, <3>5, StreamAt
  <2> QED  BY <2>4, <2>5
<1>3. CASE Refused(r, SubscribeRepliesError(gateway))
  BY <1>1, <1>3, RefusedKeepsStreams
<1> QED  BY <1>2, <1>3 DEF SubscribeReplies

\* A command of some gateway leaves what the streams were given.
LEMMA CommandKeepsStream ==
  ASSUME LineTypeOK, RepliesInLine, NEW s \in Symbols, NEW gateway \in Gateways, FeedSubmits(s, gateway),
         NEW r \in Streams, StreamOK(r)
  PROVE  StreamOK(r)'
<1>1. UNCHANGED <<subscription, subscribers, too_slow, last_seq, stream, sent>>
  BY DEF FeedSubmits, publisherVars, streamVars
<1>2. PICK x, id, q : x = Given(r) /\ id = stream[r].id /\ q = stream[r].request
  OBVIOUS
<1>3. x = Given(r)' /\ Served(r)' = Served(r)
  BY <1>1, <1>2 DEF Given, Served, Following
<1>4. ASSUME stream[r].kind = "Market"
      PROVE  /\ MarketOK(q, id, x, last_seq)
             /\ Served(r) => MarketServed(q, x, subscribers[id], last_seq)
  BY <1>2, <1>4 DEF StreamOK
<1>5. ASSUME stream[r].kind = "Replies"
      PROVE  /\ RepliesOK(q, x)'
             /\ Served(r) => /\ subscribers[id].kind = "Replies" /\ subscribers[id].symbols = <<>>
                             /\ subscription[id].gateway = q
                             /\ HasLater(q, x)'
  <2>1. RepliesOK(q, x) /\ (Served(r) => RepliesServed(q, x, subscribers[id], subscription[id]))
    BY <1>2, <1>5 DEF StreamOK
  <2>2. RepliesOK(q, x)' /\ (HasLater(q, x) => HasLater(q, x)')
    BY <2>1, RepliesOKCommanded
  <2> QED  BY <2>1, <2>2 DEF RepliesServed
<1> QED  BY <1>1, <1>2, <1>3, <1>4, <1>5, StreamAt

\* What the clients are given is right: an inductive invariant of the feed.
ClientInv == WayInv /\ TypedInv /\ StreamsInv

LEMMA NextKeepsStreams == ClientInv /\ WayInv' /\ TypedInv' /\ [Next]_vars => StreamsInv'
<1> SUFFICES ASSUME ClientInv, WayInv', TypedInv', [Next]_vars, NEW x \in Streams PROVE StreamOK(x)'
  BY DEF StreamsInv
<1>1. /\ OrderInv /\ SeatsInv /\ LineTypeOK /\ EventsInOrder /\ SnapshotsInLine /\ SnapshotIsNext
      /\ RepliesInLine /\ TypedInv /\ StreamOK(x)
  BY DEF ClientInv, WayInv, OrderInv, LineInv, SnapshotsInLine, StreamsInv
<1>2. Given(x)' \in Seq(FeedItem)
  <2>1. SeatsInv'
    BY DEF WayInv, OrderInv
  <2> QED  BY <2>1, GivenSeqsNext
<1>3. ASSUME NEW s \in Symbols, NEW gateway \in Gateways, FeedSubmits(s, gateway) PROVE StreamOK(x)'
  BY <1>1, <1>3, CommandKeepsStream
<1>4. CASE PublisherRoutes
  <2>1. /\ routing # None /\ Unlocked /\ UNCHANGED <<inbox, pushing, outbox, commands, stream, sent>>
    BY <1>4 DEF PublisherRoutes, workerVars, streamVars
  <2>2. CASE RouteEvent(routing) /\ routing' = None
    BY <1>1, <2>1, <2>2, RouteEventKeepsStream
  <2>3. CASE RouteReply(routing) /\ routing' = None
    BY <1>1, <2>1, <2>3, RouteReplyKeepsStream
  <2>4. CASE RouteSnapshot(routing) /\ routing' = None
    BY <1>1, <2>1, <2>4, RouteSnapshotKeepsStream
  <2>5. CASE Close /\ UNCHANGED routing
    <3>1. SameWay
      BY <1>1, <2>1, <2>5, RepliesStay
    <3> QED  BY <1>1, <2>1, <2>5, <3>1, CloseKeepsStream
  <2> QED  BY <1>4, <2>2, <2>3, <2>4, <2>5 DEF PublisherRoutes
<1>5. ASSUME ~PublisherRoutes, ~ \E s \in Symbols, gateway \in Gateways : FeedSubmits(s, gateway)
      PROVE  StreamOK(x)'
  <2>1. SameWay
    BY <1>1, <1>5, OthersKeepReplies
  <2>2. CASE UNCHANGED <<publisherVars, stream, sent, commands>>
    <3>1. UNCHANGED <<last_seq, subscription, subscribers, too_slow>>
      BY <2>2 DEF publisherVars
    <3> QED  BY <1>1, <2>1, <2>2, <3>1, StreamOKStays
  <2>3. ASSUME NEW w \in Workers, WorkerStep(w) PROVE StreamOK(x)'
    BY <2>2, <2>3 DEF WorkerStep, WorkerTakes, WorkerPushes, streamVars
  <2>4. CASE PublisherPops
    BY <2>2, <2>4 DEF PublisherPops, workerVars, streamVars
  <2>5. CASE PublisherDrops
    <3>1. PICK id \in too_slow : DropSlow(id) /\ UNCHANGED <<stream, sent, commands>>
      BY <2>5 DEF PublisherDrops, workerVars, streamVars
    <3>2. Drop(id, "SlowConsumer") /\ too_slow' = too_slow \ {id} /\ UNCHANGED last_seq
      BY <3>1 DEF DropSlow
    <3> QED  BY <1>1, <1>2, <2>1, <3>1, <3>2, DropKeepsStream DEF EndReasons
  <2>6. ASSUME NEW r \in Streams, HandlerStep(r) \/ Write(r) PROVE StreamOK(x)'
    <3>1. UNCHANGED <<last_seq, commands>>
      BY <2>6 DEF HandlerStep, RequestSnapshot, CheckCancelled, NextFor, CheckEnded, WriteFails, LeaveStream,
                  unsubscribe, Write, publisherVars, workerVars
    <3> QED  BY <1>1, <1>2, <2>1, <2>6, <3>1, HandlerKeepsStream, HandlerKeepsOthers
  <2>7. CASE MainStep \/ FeedsStop
    BY <2>2, <2>7 DEF MainStep, FeedsStop, StopWorker, CloseOutbox, StopServer, GraceOver, ServerStopped,
                      workerVars, streamVars
  <2>8. ASSUME NEW r \in Streams, ClientLeaves(r) PROVE StreamOK(x)'
    BY <2>2, <2>8 DEF ClientLeaves, workerVars
  <2>9. ASSUME NEW r \in Streams, NEW q \in MarketRequests, Subscribe(r, q) PROVE StreamOK(x)'
    BY <1>1, <2>1, <2>9, SubscribeKeepsStreams
  <2>10. ASSUME NEW r \in Streams, NEW gateway \in RepliesGateways, SubscribeReplies(r, gateway)
         PROVE  StreamOK(x)'
    BY <1>1, <2>1, <2>10, SubscribeRepliesKeepsStreams
  <2>11. CASE UNCHANGED vars
    BY <2>2, <2>11 DEF vars, workerVars, streamVars
  <2>12. CASE Environment
    BY <1>5, <2>6, <2>7, <2>8, <2>9, <2>10, <2>12 DEF Environment
  <2>13. CASE PublisherStep
    BY <1>5, <2>4, <2>5, <2>13 DEF PublisherStep
  <2> QED  BY <2>3, <2>6, <2>7, <2>11, <2>12, <2>13 DEF Next
<1> QED  BY <1>3, <1>4, <1>5

LEMMA InitEstablishesStreams == Init => StreamsInv
<1> SUFFICES ASSUME Init, NEW r \in Streams PROVE StreamOK(r)
  BY DEF StreamsInv
<1>1. stream[r].kind = "None"
  BY DEF Init, NoStream
<1> QED  BY <1>1 DEF StreamOK

\* In every behaviour, what each stream was sent, has in hand and has queued is what its
\* request promises, and a stream that is served misses nothing.
THEOREM ClientInvariant == Spec => []ClientInv
<1>1. Init => ClientInv
  BY InitEstablishesWay, InitEstablishesTyped, InitEstablishesStreams DEF ClientInv
<1>2. ClientInv /\ [Next]_vars => ClientInv'
  <2>1. ClientInv /\ [Next]_vars => WayInv' /\ TypedInv'
    BY NextKeepsWay, NextKeepsTyped DEF ClientInv, WayInv
  <2> QED  BY <2>1, NextKeepsStreams DEF ClientInv
<1> QED  BY <1>1, <1>2, PTL DEF Spec


-----------------------------------------------------------------------------
(* The properties of the streams *)

\* A handler that follows a stream is of one of the kinds of stream.
LEMMA FollowingIs ==
  ASSUME SeatsInv, TypedInv, NEW r \in Streams, Following(r)
  PROVE  IsHandler(stream[r]) /\ stream[r].id # 0 /\ stream[r].kind \in Kinds
<1>1. stream[r].id # 0
  BY HandlerAt DEF Following
<1> QED  BY <1>1 DEF TypedInv, HandlersTyped, IsHandler

LEMMA NoGapFollows == ClientInv => NoGap
<1> SUFFICES ASSUME ClientInv, NEW r \in Streams, stream[r].kind = "Market", NEW s \in Symbols,
                    NEW x, x = Given(r), NEW j \in DOMAIN x, About(x[j], s)
             PROVE  /\ s \in Asked(stream[r].request)
                    /\ (\A i \in 1 .. j - 1 : ~About(x[i], s)) => IsStart(r, x[j], s)
                    /\ \A i \in 1 .. j - 1 : IsLatest(x, i, j, s) => x[j] = Event(s, x[i].seq + 1)
  BY DEF NoGap
<1>1. Gapless(stream[r].request, stream[r].id, x, s)
  BY DEF ClientInv, StreamsInv, StreamOK, MarketOK
<1>2. IsFirst(stream[r].request, stream[r].id, x[j], s) => IsStart(r, x[j], s)
  BY DEF IsFirst, IsStart, IsReplayed
<1> QED  BY <1>1, <1>2 DEF Gapless

\* Whatever ends a market stream, of each symbol it has been given one start, the snapshot
\* it asked for or the first event it wanted, and then each event once and in order.
THEOREM NoGapHolds == Spec => []NoGap
BY NoGapFollows, ClientInvariant, PTL

LEMMA NothingMissedFollows == ClientInv => NothingMissed
<1> SUFFICES ASSUME ClientInv, NEW r \in Streams, Served(r), NEW x, x = Given(r),
                    NEW entry, entry = subscribers[stream[r].id], NEW s \in DOMAIN entry.symbols,
                    entry.symbols[s].live
             PROVE  \/ Silent(x, s) /\ last_seq[s] < entry.symbols[s].skip_below
                    \/ EndsWith(x, s, last_seq[s])
  BY DEF NothingMissed, Silent, EndsWith
<1>1. SeatsInv /\ TypedInv /\ StreamOK(r) /\ Following(r)
  BY DEF ClientInv, WayInv, OrderInv, StreamsInv, Served
<1>2. stream[r].kind \in Kinds
  BY <1>1, FollowingIs
<1>3. CASE stream[r].kind = "Market"
  <2>1. PICK q : q = stream[r].request
    OBVIOUS
  <2>2. MarketServed(q, x, entry, last_seq)
    BY <1>1, <1>3, <2>1 DEF StreamOK
  <2>3. s \in Asked(q) /\ Follows(q, x, entry.symbols[s], s, last_seq[s])
    BY <2>2 DEF MarketServed
  <2> QED  BY <2>3 DEF Follows
<1>4. CASE stream[r].kind = "Replies"
  <2>1. entry.symbols = <<>>
    BY <1>1, <1>4 DEF StreamOK, RepliesServed
  <2> QED  BY <2>1
<1> QED  BY <1>2, <1>3, <1>4 DEF Kinds

\* A stream that is served and live for a symbol has been given everything up to the last
\* event that was routed: no slow, leaving or new subscriber costs it anything (route).
THEOREM NothingMissedHolds == Spec => []NothingMissed
BY NothingMissedFollows, ClientInvariant, PTL

LEMMA RepliesPrivateFollows == ClientInv => RepliesPrivate
<1> SUFFICES ASSUME ClientInv, NEW r \in Streams, NEW x, x = Given(r)
             PROVE  /\ stream[r].kind = "Market" => \A i \in DOMAIN x : x[i].kind # "reply"
                    /\ stream[r].kind = "Replies" =>
                         /\ \A i \in DOMAIN x : x[i].kind = "reply" /\ x[i].gateway = stream[r].request
                         /\ \A i, j \in DOMAIN x :
                              i < j /\ x[i].symbol = x[j].symbol => x[i].number < x[j].number
  BY DEF RepliesPrivate
<1>1. StreamOK(r)
  BY DEF ClientInv, StreamsInv
<1>2. stream[r].kind = "Market" => MarketOK(stream[r].request, stream[r].id, x, last_seq)
  BY <1>1 DEF StreamOK
<1>3. stream[r].kind = "Replies" => RepliesOK(stream[r].request, x)
  BY <1>1 DEF StreamOK
<1> QED  BY <1>2, <1>3 DEF MarketOK, RepliesOK

\* Replies go to the replies stream of their gateway and to no other, those of one symbol
\* in the order of the commands (route, fill).
THEOREM RepliesPrivateHolds == Spec => []RepliesPrivate
BY RepliesPrivateFollows, ClientInvariant, PTL

\* A number on its way for a symbol is travelling.
LEMMA WayIsTravelled ==
  ASSUME NEW s \in Symbols, NEW n, OnTheWay(s, n)
  PROVE  Travelling(n)
<1>1. PICK w \in Workers : w = WorkerOf[s]
  BY EngineFeedAssumption
<1>2. \A y : NumberIs(y, s, n) => Carries(y, n)
  BY DEF NumberIs, CarriesFor, Carries
<1>3. \A q : Holds(q, s, n) => \E i \in DOMAIN q : Carries(q[i], n)
  BY <1>2 DEF Holds
<1>4. CASE Holds(InHand, s, n)
  <2>1. PICK i \in DOMAIN InHand : Carries(InHand[i], n)
    BY <1>3, <1>4
  <2>2. routing # None
    BY <2>1 DEF InHand
  <2>3. InHand = <<routing>> /\ i = 1
    BY <2>1, <2>2 DEF InHand
  <2>4. Carries(routing, n)
    BY <2>1, <2>3
  <2> QED  BY <2>2, <2>4 DEF Travelling
<1>5. CASE Holds(outbox, s, n)
  BY <1>3, <1>5 DEF Travelling
<1>6. CASE Holds(pushing[w], s, n)
  BY <1>3, <1>6 DEF Travelling
<1>7. CASE Holds(inbox[w], s, n)
  BY <1>3, <1>7 DEF Travelling
<1> QED  BY <1>1, <1>4, <1>5, <1>6, <1>7 DEF OnTheWay

LEMMA RepliesCompleteFollows == ClientInv => RepliesComplete
<1> SUFFICES ASSUME ClientInv, NEW r \in Streams, Served(r), stream[r].kind = "Replies",
                    NEW x, x = Given(r), NEW i \in DOMAIN x, NEW k \in DOMAIN commands,
                    k > x[i].number,
                    commands[k] = [symbol |-> x[i].symbol, gateway |-> stream[r].request],
                    ~Travelling(k)
             PROVE  \E j \in DOMAIN x : x[j].number = k
  BY DEF RepliesComplete
<1>1. PICK g : g = stream[r].request
  OBVIOUS
<1>2. RepliesOK(g, x) /\ HasLater(g, x)
  BY <1>1 DEF ClientInv, StreamsInv, StreamOK, RepliesServed
<1>3. x[i].symbol \in Symbols
  BY <1>2, ReplyIs
<1>4. ~OnTheWay(x[i].symbol, k)
  BY <1>3, WayIsTravelled
<1> QED  BY <1>1, <1>2, <1>4 DEF HasLater

\* Once a replies stream that is served has got a reply, none of the later ones for the
\* symbol and its gateway is lost on the way through workers, outbox and publisher.
THEOREM RepliesCompleteHolds == Spec => []RepliesComplete
BY RepliesCompleteFollows, ClientInvariant, PTL


-----------------------------------------------------------------------------
(* The promise to the clients *)

\* A client that was sent something about s was sent something last.
LEMMA SilentOrEnds ==
  ASSUME NEW x \in Seq(FeedItem), NEW s
  PROVE  Silent(x, s) \/ \E n \in Nat : EndsWith(x, s, n)
<1> SUFFICES ASSUME ~Silent(x, s) PROVE \E n \in Nat : EndsWith(x, s, n)
  OBVIOUS
<1>1. PICK k \in Nat : k = Len(x) /\ DOMAIN x = 1 .. k
  OBVIOUS
<1>2. PICK P : P = {i \in 1 .. k : About(x[i], s)}
  OBVIOUS
<1>3. IsFiniteSet(P) /\ P \subseteq 1 .. k /\ P # {}
  <2>1. IsFiniteSet(1 .. k)
    BY FS_Interval
  <2> QED  BY <1>1, <1>2, <2>1, FS_Subset DEF Silent
<1>4. PICK W : W = P \X {0}
  OBVIOUS
<1>5. W \in SUBSET (Int \X Int) /\ IsFiniteSet(W) /\ W # {}
  <2>1. IsFiniteSet({0})
    BY FS_Singleton
  <2>2. IsFiniteSet(P \X {0})
    BY <1>3, <2>1, FS_Product
  <2>3. P \X {0} \subseteq Int \X Int
    <3>1. P \subseteq Int /\ 0 \in Int
      BY <1>3
    <3> SUFFICES ASSUME NEW z \in P \X {0} PROVE z \in Int \X Int
      OBVIOUS
    <3>2. PICK i \in P : z = <<i, 0>>
      OBVIOUS
    <3>3. i \in Int
      BY <3>1
    <3> QED  BY <3>1, <3>2, <3>3
  <2>4. P \X {0} # {}
    <3>1. PICK i \in P : TRUE
      BY <1>3
    <3>2. <<i, 0>> \in P \X {0}
      BY <3>1
    <3> QED  BY <3>2
  <2> QED  BY <1>4, <2>2, <2>3, <2>4
<1>6. PICK m \in W : IsLastOf(W, m)
  BY <1>5, LastExists
<1>7. PICK i \in P : m = <<i, 0>>
  BY <1>4
<1>8. ASSUME NEW j \in P PROVE j <= i
  <2>1. <<j, 0>> \in W
    BY <1>4
  <2>2. <<j, 0>> = m \/ Earlier(<<j, 0>>, m)
    BY <1>6, <2>1 DEF IsLastOf
  <2> QED  BY <1>3, <1>7, <2>2 DEF Earlier
<1>9. IsLatest(x, i, k + 1, s)
  BY <1>2, <1>3, <1>8 DEF IsLatest
<1>10. x[i].seq \in Nat
  <2>1. x[i] \in FeedItem /\ About(x[i], s)
    BY <1>1, <1>2
  <2> QED  BY <2>1 DEF About, FeedItem, EventItem, SnapshotItem, ReplyItem
<1> QED  BY <1>1, <1>3, <1>9, <1>10 DEF EndsWith

\* What a client that was sent x has seen of s last.
SeenIn(x, s) ==
  IF \A i \in DOMAIN x : ~About(x[i], s)
  THEN None
  ELSE x[CHOOSE i \in DOMAIN x : IsLatest(x, i, Len(x) + 1, s)].seq

LEMMA SeenInIs ==
  ASSUME NEW x \in Seq(FeedItem), NEW s
  PROVE  /\ Silent(x, s) => SeenIn(x, s) = None
         /\ \A n : EndsWith(x, s, n) => SeenIn(x, s) = n
<1>1. Silent(x, s) => SeenIn(x, s) = None
  BY DEF Silent, SeenIn
<1>2. ASSUME NEW n, EndsWith(x, s, n) PROVE SeenIn(x, s) = n
  <2>1. PICK k \in Nat : k = Len(x) /\ DOMAIN x = 1 .. k
    OBVIOUS
  <2>2. PICK i \in 1 .. k : IsLatest(x, i, k + 1, s) /\ x[i].seq = n
    BY <1>2, <2>1 DEF EndsWith
  <2>3. \A j \in 1 .. k : IsLatest(x, j, k + 1, s) => j = i
    BY <2>2 DEF IsLatest
  <2>4. (CHOOSE j \in 1 .. k : IsLatest(x, j, k + 1, s)) = i
    BY <2>2, <2>3
  <2>5. About(x[i], s)
    BY <2>2 DEF IsLatest
  <2> QED  BY <2>1, <2>2, <2>4, <2>5 DEF SeenIn
<1> QED  BY <1>1, <1>2

\* Nothing is routed that no book has reached.
LEMMA RoutedIsPublished ==
  ASSUME LineInv, NEW s \in Symbols
  PROVE  last_seq[s] \in Nat /\ as_of[s] \in Nat /\ last_seq[s] <= as_of[s]
<1>1. LineTypeOK /\ OutboxInOrder(s)
  BY DEF LineInv, EventsInOrder
<1>2. last_seq[s] \in Nat /\ last_seq[s] <= TakenOut(s)
  BY <1>1 DEF LineTypeOK, TakenOut
<1>3. ToPush(s) \in Nat /\ as_of[s] \in Nat /\ TakenOut(s) \in Nat
  BY <1>1, NumbersTyped
<1>4. TakenOut(s) <= as_of[s] - ToPush(s)
  BY <1>1 DEF OutboxInOrder, PutOut
<1> QED  BY <1>2, <1>3, <1>4

\* Of one symbol y shows a first state that x does not, or the next event, and of the
\* others what x shows.
ShowsNext(x, y) ==
  \E t \in Symbols, n \in Nat :
    /\ n <= as_of[t] /\ SeenIn(y, t) = n
    /\ \/ SeenIn(x, t) = None
       \/ SeenIn(x, t) \in Nat /\ n = SeenIn(x, t) + 1
    /\ \A s \in Symbols \ {t} : SeenIn(y, s) = SeenIn(x, s)

\* What a client sees when an item of its market stream comes.
LEMMA ItemShows ==
  ASSUME LineInv, NEW q, NEW id, NEW x \in Seq(FeedItem), NEW e \in FeedItem,
         NEW y, y = Append(x, e), MarketOK(q, id, y, last_seq)
  PROVE  ShowsNext(x, y)
<1>1. PICK k \in Nat : /\ k = Len(x) /\ DOMAIN x = 1 .. k /\ DOMAIN y = 1 .. k + 1
                       /\ (\A i \in 1 .. k : y[i] = x[i]) /\ y[k + 1] = e
  BY Appended
<1>2. k + 1 \in 1 .. k + 1 /\ 1 .. (k + 1) - 1 = 1 .. k
  OBVIOUS
<1>3. e.kind # "reply" /\ y \in Seq(FeedItem)
  BY <1>1, <1>2 DEF MarketOK
<1>4. e.kind \in {"event", "snapshot"} /\ e.symbol \in Symbols /\ e.seq \in Nat
  BY <1>3 DEF FeedItem, EventItem, SnapshotItem, ReplyItem
<1>5. PICK t \in Symbols, n \in Nat : t = e.symbol /\ n = e.seq
  BY <1>4
<1>6. About(e, t) /\ \A s \in Symbols \ {t} : ~About(e, s)
  BY <1>4, <1>5 DEF About
<1>7. SeenIn(y, t) = n
  <2>1. EndsWith(y, t, n)
    BY <1>5, <1>6, AboutAppended
  <2> QED  BY <1>3, <2>1, SeenInIs
<1>8. n <= as_of[t]
  <2>1. n <= last_seq[t]
    BY <1>1, <1>2, <1>5, <1>6 DEF MarketOK, UpTo
  <2> QED  BY <2>1, RoutedIsPublished
<1>9. SeenIn(x, t) = None \/ (SeenIn(x, t) \in Nat /\ n = SeenIn(x, t) + 1)
  <2>1. CASE Silent(x, t)
    BY <2>1, SeenInIs
  <2>2. ASSUME NEW m \in Nat, EndsWith(x, t, m) PROVE SeenIn(x, t) = m /\ n = m + 1
    <3>1. PICK i \in 1 .. k : IsLatest(x, i, k + 1, t) /\ x[i].seq = m
      BY <1>1, <2>2 DEF EndsWith
    <3>2. IsLatest(y, i, k + 1, t) /\ y[i].seq = m
      BY <1>1, <3>1 DEF IsLatest
    <3>3. Gapless(q, id, y, t)
      BY DEF MarketOK
    <3>4. e = Event(t, m + 1)
      BY <1>1, <1>2, <1>6, <3>2, <3>3 DEF Gapless
    <3> QED  BY <1>5, <2>2, <3>4, SeenInIs DEF Event
  <2> QED  BY <2>1, <2>2, SilentOrEnds
<1>10. ASSUME NEW s \in Symbols \ {t} PROVE SeenIn(y, s) = SeenIn(x, s)
  <2>1. CASE Silent(x, s)
    <3>1. Silent(y, s)
      BY <1>6, <2>1, AboutAppended
    <3> QED  BY <1>3, <2>1, <3>1, SeenInIs
  <2>2. ASSUME NEW m \in Nat, EndsWith(x, s, m) PROVE SeenIn(y, s) = SeenIn(x, s)
    <3>1. EndsWith(y, s, m)
      BY <1>6, <2>2, AboutAppended
    <3> QED  BY <1>3, <2>2, <3>1, SeenInIs
  <2> QED  BY <2>1, <2>2, SilentOrEnds
<1> QED  BY <1>7, <1>8, <1>9, <1>10 DEF ShowsNext

\* A client that gets a reply sees nothing of a book.
LEMMA ReplyShowsNothing ==
  ASSUME NEW x \in Seq(FeedItem), NEW e \in FeedItem, e.kind = "reply",
         NEW y, y = Append(x, e), NEW s \in Symbols
  PROVE  SeenIn(y, s) = SeenIn(x, s)
<1>1. ~About(e, s) /\ y \in Seq(FeedItem)
  BY DEF About
<1>2. CASE Silent(x, s)
  <2>1. Silent(y, s)
    BY <1>1, <1>2, AboutAppended
  <2> QED  BY <1>1, <1>2, <2>1, SeenInIs
<1>3. ASSUME NEW m \in Nat, EndsWith(x, s, m) PROVE SeenIn(y, s) = SeenIn(x, s)
  <2>1. EndsWith(y, s, m)
    BY <1>1, <1>3, AboutAppended
  <2> QED  BY <1>1, <1>3, <2>1, SeenInIs
<1> QED  BY <1>2, <1>3, SilentOrEnds


\* What the clients see, and the streams that are over.
Views == [r \in Streams |-> [s \in Symbols |-> Seen(r, s)]]

Over == {r \in Streams : At(r, "leave") \/ At(r, "done")}

\* A step that changes nothing of what FeedView speaks of.
LEMMA ViewStays ==
  ASSUME UNCHANGED <<as_of, sent>>, Over' = Over
  PROVE  UNCHANGED View!vars
<1>1. Views' = Views
  BY DEF Views, Seen
<1> QED  BY <1>1 DEF View!vars, Views, Over

\* Only the handler of r moves: it goes on, or its stream is over.
LEMMA HandlerShows ==
  ASSUME StreamsOK, NEW r \in Streams, UNCHANGED <<as_of, sent>>,
         \A o \in Streams \ {r} : stream'[o] = stream[o],
         stream'[r].pc \in {"leave", "done"} \/ stream[r].pc \notin {"leave", "done"}
  PROVE  [View!Next]_View!vars
<1>1. CASE stream'[r].pc \in {"leave", "done"}
  <2>1. Over' = Over \cup {r}
    BY <1>1 DEF Over, At
  <2>2. Views' = Views
    BY DEF Views, Seen
  <2>3. View!End(r)
    BY <2>1, <2>2 DEF View!End, Views, Over
  <2> QED  BY <2>3 DEF View!Next
<1>2. CASE stream'[r].pc \notin {"leave", "done"}
  <2>1. Over' = Over
    BY <1>2 DEF Over, At
  <2> QED  BY <2>1, ViewStays
<1> QED  BY <1>1, <1>2

\* A command that emits events makes the state of its book a later one.
LEMMA RunShows ==
  ASSUME LineTypeOK, NEW w \in Workers, WorkerTakes(w)
  PROVE  [View!Next]_View!vars
<1>1. /\ UNCHANGED <<stream, sent>>
      /\ inbox[w] # <<>> /\ inbox[w] \in Seq(InboxItem)
  BY DEF WorkerTakes, LineTypeOK, streamVars
<1>2. Over' = Over /\ Views' = Views
  BY <1>1 DEF Over, At, Views, Seen
<1>3. PICK item : item = Head(inbox[w])
  OBVIOUS
<1>4. item \in InboxItem
  BY <1>1, <1>3, Taken
<1>5. CASE UNCHANGED as_of
  BY <1>1, <1>2, <1>5, ViewStays
<1>6. ASSUME item.kind = "command", NEW n \in 0 .. MaxEvents,
             as_of' = [as_of EXCEPT ![item.symbol] = @ + n]
      PROVE  [View!Next]_View!vars
  <2>1. PICK s \in Symbols : s = item.symbol
    BY <1>4, <1>6, KindsApart DEF InboxItem, Shutdown
  <2>2. as_of \in [Symbols -> Nat] /\ n \in Nat
    BY EngineFeedAssumption DEF LineTypeOK
  <2>3. as_of' = [as_of EXCEPT ![s] = as_of[s] + n] /\ as_of'[s] = as_of[s] + n
    BY <1>6, <2>1, <2>2
  <2>4. CASE n = 0
    <3>1. as_of' = as_of
      BY <2>2, <2>3, <2>4
    <3> QED  BY <1>5, <3>1
  <2>5. CASE n # 0
    <3>1. as_of'[s] > as_of[s] /\ as_of' = [as_of EXCEPT ![s] = as_of'[s]]
      BY <2>2, <2>3, <2>5
    <3>2. View!Publish(s)
      BY <1>2, <3>1 DEF View!Publish, Views, Over
    <3> QED  BY <3>2 DEF View!Next
  <2> QED  BY <2>4, <2>5
<1> QED  BY <1>3, <1>5, <1>6 DEF WorkerTakes

\* An item that is written gives its client a first state or the next one of a book.
LEMMA WriteShows ==
  ASSUME ClientInv, NEW r \in Streams, Write(r)
  PROVE  [View!Next]_View!vars
<1>1. PICK a, e, y : a = sent[r] /\ e = stream[r].item /\ y = Append(a, e)
  OBVIOUS
<1>2. SeatsInv /\ TypedInv /\ HandlersTyped /\ StreamsOK /\ LineInv /\ StreamOK(r)
  BY DEF ClientInv, WayInv, OrderInv, SeatsInv, TypedInv, StreamsInv
<1>3. /\ stream[r].pc = "write" /\ Following(r) /\ UNCHANGED as_of
      /\ stream' = [stream EXCEPT ![r].pc = "check", ![r].item = None]
      /\ sent' = [sent EXCEPT ![r] = y]
  BY <1>1 DEF Write, At, Following, workerVars
<1>4. a \in Seq(FeedItem) /\ e \in FeedItem
  BY <1>1, <1>2, <1>3, HandlerAt DEF HandlersTyped
<1>5. y \in Seq(FeedItem) /\ sent'[r] = y /\ \A o \in Streams \ {r} : sent'[o] = sent[o]
  BY <1>1, <1>2, <1>3, <1>4 DEF HandlersTyped
<1>6. Turns(r, "check", stream[r].snapshots, None, stream[r].status)
  BY <1>2, <1>3, HandlerTurns
<1>7. stream'[r].pc = "check" /\ \A o \in Streams \ {r} : stream'[o] = stream[o]
  BY <1>6 DEF Turns
<1>8. Over' = Over /\ r \notin Over
  BY <1>3, <1>7 DEF Over, At
<1>9. \A o \in Streams, s \in Symbols :
        Seen(o, s) = SeenIn(sent[o], s) /\ Seen(o, s)' = SeenIn(sent'[o], s)
  BY DEF Seen, SeenIn
<1>10. \A s \in Symbols : Seen(r, s) = SeenIn(a, s) /\ Seen(r, s)' = SeenIn(y, s)
  BY <1>1, <1>5, <1>9
<1>11. \A o \in Streams \ {r}, s \in Symbols : Seen(o, s)' = Seen(o, s)
  BY <1>5, <1>9
<1>12. Begins(y, Given(r))
  <2>1. PICK b : b = subscription[stream[r].id].items
    OBVIOUS
  <2>2. b \in Seq(FeedItem) /\ Given(r) = a \o Hand(r) \o b
    BY <1>1, <1>2, <1>3, <2>1, GivenIs
  <2>3. Hand(r) = <<e>>
    BY <1>1, <1>4, PublisherAssumption DEF Hand, FeedItem, EventItem, SnapshotItem, ReplyItem
  <2>4. Given(r) = y \o <<>> \o b
    BY <1>1, <1>4, <2>2, <2>3, JoinMoved
  <2>5. <<>> \in Seq(FeedItem)
    OBVIOUS
  <2>6. Begins(y, y \o <<>> \o b)
    BY <1>5, <2>2, <2>5, BeginsIs
  <2> QED  BY <2>4, <2>6
<1>13. CASE stream[r].kind = "Market"
  <2>1. PICK q, id : q = stream[r].request /\ id = stream[r].id
    OBVIOUS
  <2>2. MarketOK(q, id, Given(r), last_seq)
    BY <1>2, <1>13, <2>1 DEF StreamOK
  <2>3. MarketOK(q, id, y, last_seq)
    BY <1>2, <1>5, <1>12, <2>2, GivenIs, BegunKeeps
  <2>4. PICK t \in Symbols, n \in Nat :
          /\ n <= as_of[t] /\ SeenIn(y, t) = n
          /\ \/ SeenIn(a, t) = None
             \/ SeenIn(a, t) \in Nat /\ n = SeenIn(a, t) + 1
          /\ \A s \in Symbols \ {t} : SeenIn(y, s) = SeenIn(a, s)
    <3>1. LineInv /\ y = Append(a, e)
      BY <1>1, <1>2
    <3>2. ShowsNext(a, y)
      BY <1>4, <2>3, <3>1, ItemShows
    <3> QED  BY <3>2 DEF ShowsNext
  <2>5. Views' = [Views EXCEPT ![r][t] = n]
    <3>1. Views[r] = [s \in Symbols |-> SeenIn(a, s)] /\ Views'[r] = [s \in Symbols |-> SeenIn(y, s)]
      BY <1>10 DEF Views
    <3>2. Views'[r] = [Views[r] EXCEPT ![t] = n]
      BY <2>4, <3>1
    <3>3. \A o \in Streams \ {r} : Views'[o] = Views[o]
      BY <1>11 DEF Views
    <3>4. Views = [o \in Streams |-> Views[o]] /\ Views' = [o \in Streams |-> Views'[o]]
      BY DEF Views
    <3> QED  BY <3>2, <3>3, <3>4
  <2>6. View!See(r, t, n)
    BY <1>3, <1>8, <2>5 DEF View!See, Views, Over
  <2>7. Views[r][t] = SeenIn(a, t)
    BY <1>10 DEF Views
  <2>8. CASE SeenIn(a, t) = None
    <3>1. as_of[t] \in Nat
      BY <1>2, RoutedIsPublished
    <3>2. n \in 0 .. as_of[t]
      BY <2>4, <3>1
    <3>3. View!Start(r, t)
      BY <2>6, <2>7, <2>8, <3>2 DEF View!Start, Views
    <3> QED  BY <3>3 DEF View!Next
  <2>9. CASE SeenIn(a, t) \in Nat /\ n = SeenIn(a, t) + 1
    <3>1. as_of[t] \in Nat
      BY <1>2, RoutedIsPublished
    <3>2. Views[r][t] # None /\ Views[r][t] < as_of[t] /\ n = Views[r][t] + 1
      BY <2>4, <2>7, <2>9, <3>1, PublisherAssumption
    <3>3. View!Follow(r, t)
      BY <2>6, <3>2 DEF View!Follow, Views
    <3> QED  BY <3>3 DEF View!Next
  <2> QED  BY <2>4, <2>8, <2>9
<1>14. CASE stream[r].kind = "Replies"
  <2>1. RepliesOK(stream[r].request, y)
    BY <1>2, <1>5, <1>12, <1>14, GivenIs, BegunKeeps DEF StreamOK
  <2>2. PICK k \in Nat : DOMAIN y = 1 .. k + 1 /\ y[k + 1] = e
    BY <1>1, <1>4, Appended
  <2>3. e.kind = "reply"
    BY <2>1, <2>2 DEF RepliesOK
  <2>4. \A s \in Symbols : Seen(r, s)' = Seen(r, s)
    BY <1>1, <1>4, <1>10, <2>3, ReplyShowsNothing
  <2>5. Views' = Views
    BY <1>11, <2>4 DEF Views
  <2> QED  BY <1>3, <1>8, <2>5 DEF View!vars, Views, Over
<1>15. stream[r].kind \in Kinds
  BY <1>2, <1>3, FollowingIs
<1> QED  BY <1>13, <1>14, <1>15 DEF Kinds


\* The handler of r goes on or leaves, or begins.
LEMMA PumpShows ==
  ASSUME OrderInv, TypedInv, NEW r \in Streams, HandlerStep(r)
  PROVE  [View!Next]_View!vars
<1>1. /\ StreamsOK /\ HandlersTyped /\ stream[r].pc \notin {"none", "done"}
      /\ UNCHANGED <<as_of, sent>>
  BY DEF OrderInv, SeatsInv, TypedInv, HandlerStep, RequestSnapshot, CheckCancelled, NextFor, CheckEnded,
         WriteFails, LeaveStream, At, workerVars
<1>2. ASSUME NEW pc, NEW rest, NEW item, NEW status, Turns(r, pc, rest, item, status),
             pc \in {"leave", "done"} \/ stream[r].pc # "leave"
      PROVE  [View!Next]_View!vars
  <2>1. stream'[r].pc = pc /\ \A o \in Streams \ {r} : stream'[o] = stream[o]
    BY <1>2 DEF Turns
  <2> QED  BY <1>1, <1>2, <2>1, HandlerShows
<1>3. ASSUME NEW pc, Goto(r, pc), pc = "done" \/ stream[r].pc # "leave"
      PROVE  [View!Next]_View!vars
  <2>1. Turns(r, pc, stream[r].snapshots, stream[r].item, stream[r].status)
    BY <1>1, <1>3, HandlerTurns
  <2> QED  BY <1>2, <1>3, <2>1
<1>4. ASSUME NEW status, LeaveWith(r, status) PROVE [View!Next]_View!vars
  <2>1. Turns(r, "leave", stream[r].snapshots, None, status)
    BY <1>1, <1>4, HandlerTurns
  <2> QED  BY <1>2, <2>1
<1>5. CASE RequestSnapshot(r)
  <2>1. stream[r].pc = "request"
    BY <1>5 DEF RequestSnapshot, At
  <2>2. ASSUME NEW rest, stream' = [stream EXCEPT ![r].snapshots = rest] PROVE [View!Next]_View!vars
    <3>1. Turns(r, "request", rest, stream[r].item, stream[r].status)
      BY <1>1, <2>1, <2>2, HandlerTurns
    <3> QED  BY <1>2, <2>1, <3>1
  <2>3. Goto(r, "check") \/ \E rest : stream' = [stream EXCEPT ![r].snapshots = rest]
    BY <1>5 DEF RequestSnapshot
  <2> QED  BY <1>3, <2>1, <2>2, <2>3
<1>6. CASE CheckCancelled(r)
  <2>1. stream[r].pc = "check" /\ (Goto(r, "next") \/ LeaveWith(r, "CANCELLED"))
    BY <1>6 DEF CheckCancelled, At
  <2> QED  BY <1>3, <1>4, <2>1
<1>7. CASE NextFor(r)
  <2>1. stream[r].pc = "next"
    BY <1>7 DEF NextFor, At
  <2>2. ASSUME NEW item, stream' = [stream EXCEPT ![r].pc = "write", ![r].item = item]
        PROVE  [View!Next]_View!vars
    <3>1. Turns(r, "write", stream[r].snapshots, item, stream[r].status)
      BY <1>1, <2>2, HandlerTurns
    <3> QED  BY <1>2, <2>1, <3>1
  <2>3. Goto(r, "empty") \/ \E item : stream' = [stream EXCEPT ![r].pc = "write", ![r].item = item]
    BY <1>7 DEF NextFor
  <2> QED  BY <1>3, <2>1, <2>2, <2>3
<1>8. CASE CheckEnded(r)
  <2>1. stream[r].pc = "empty" /\ (Goto(r, "check") \/ \E status : LeaveWith(r, status))
    BY <1>8 DEF CheckEnded, At
  <2> QED  BY <1>3, <1>4, <2>1
<1>9. CASE WriteFails(r)
  BY <1>4, <1>9 DEF WriteFails
<1>10. CASE LeaveStream(r)
  BY <1>3, <1>10 DEF LeaveStream
<1> QED  BY <1>5, <1>6, <1>7, <1>8, <1>9, <1>10 DEF HandlerStep

\* A stream begins, or is refused.
LEMMA SubscribeShows ==
  ASSUME OrderInv, TypedInv, NEW r \in Streams, stream[r].pc = "none", UNCHANGED <<as_of, sent>>,
         \/ \E kind, request, pc, snapshots : Accepted(r, kind, request, pc, snapshots)
         \/ \E error : Refused(r, error)
  PROVE  [View!Next]_View!vars
<1>1. StreamsOK /\ HandlersTyped
  BY DEF OrderInv, SeatsInv, TypedInv
<1>2. ASSUME NEW kind, NEW request, NEW pc, NEW snapshots, Accepted(r, kind, request, pc, snapshots)
      PROVE  [View!Next]_View!vars
  <2>1. \A o \in Streams \ {r} : stream'[o] = stream[o]
    BY <1>1, <1>2, AcceptedIs
  <2> QED  BY <1>1, <2>1, HandlerShows
<1>3. ASSUME NEW error, Refused(r, error) PROVE [View!Next]_View!vars
  <2>1. PICK status : status = StatusOf(error)
    OBVIOUS
  <2>2. stream' = [stream EXCEPT ![r].pc = "done", ![r].status = status]
    BY <1>3, <2>1 DEF Refused
  <2>3. Turns(r, "done", stream[r].snapshots, stream[r].item, status)
    BY <1>1, <2>2, HandlerTurns
  <2>4. \A o \in Streams \ {r} : stream'[o] = stream[o]
    BY <2>3 DEF Turns
  <2> QED  BY <1>1, <2>4, HandlerShows
<1> QED  BY <1>2, <1>3

\* Every step of every thread is a step of FeedView, or shows the clients nothing.
LEMMA NextShows ==
  ASSUME ClientInv, [Next]_vars
  PROVE  [View!Next]_View!vars
<1>1. OrderInv /\ TypedInv /\ LineTypeOK
  BY DEF ClientInv, WayInv, OrderInv, LineInv
<1>2. ASSUME UNCHANGED <<as_of, sent, stream>> PROVE [View!Next]_View!vars
  <2>1. Over' = Over
    BY <1>2 DEF Over, At
  <2> QED  BY <1>2, <2>1, ViewStays
<1>3. ASSUME NEW w \in Workers, WorkerStep(w) PROVE [View!Next]_View!vars
  <2>1. CASE WorkerTakes(w)
    BY <1>1, <2>1, RunShows
  <2>2. CASE WorkerPushes(w)
    BY <1>2, <2>2 DEF WorkerPushes, streamVars
  <2> QED  BY <1>3, <2>1, <2>2 DEF WorkerStep
<1>4. CASE PublisherStep
  BY <1>2, <1>4 DEF PublisherStep, PublisherPops, PublisherRoutes, PublisherDrops, workerVars, streamVars
<1>5. ASSUME NEW r \in Streams, HandlerStep(r) PROVE [View!Next]_View!vars
  BY <1>1, <1>5, PumpShows
<1>6. CASE MainStep \/ FeedsStop
  BY <1>2, <1>6 DEF MainStep, FeedsStop, StopWorker, CloseOutbox, StopServer, GraceOver, ServerStopped,
                    workerVars, streamVars
<1>7. ASSUME NEW s \in Symbols, NEW gateway \in Gateways, FeedSubmits(s, gateway)
      PROVE  [View!Next]_View!vars
  BY <1>2, <1>7 DEF FeedSubmits, streamVars
<1>8. ASSUME NEW r \in Streams, NEW q \in MarketRequests, Subscribe(r, q) PROVE [View!Next]_View!vars
  <2>1. /\ stream[r].pc = "none" /\ UNCHANGED <<as_of, sent>>
        /\ \/ \E kind, request, pc, snapshots : Accepted(r, kind, request, pc, snapshots)
           \/ \E error : Refused(r, error)
    BY <1>8 DEF Subscribe, At, workerVars
  <2> QED  BY <1>1, <2>1, SubscribeShows
<1>9. ASSUME NEW r \in Streams, NEW gateway \in RepliesGateways, SubscribeReplies(r, gateway)
      PROVE  [View!Next]_View!vars
  <2>1. /\ stream[r].pc = "none" /\ UNCHANGED <<as_of, sent>>
        /\ \/ \E kind, request, pc, snapshots : Accepted(r, kind, request, pc, snapshots)
           \/ \E error : Refused(r, error)
    BY <1>9 DEF SubscribeReplies, At, workerVars
  <2> QED  BY <1>1, <2>1, SubscribeShows
<1>10. ASSUME NEW r \in Streams, Write(r) PROVE [View!Next]_View!vars
  BY <1>10, WriteShows
<1>11. ASSUME NEW r \in Streams, ClientLeaves(r) PROVE [View!Next]_View!vars
  BY <1>2, <1>11 DEF ClientLeaves, workerVars
<1>12. CASE UNCHANGED vars
  BY <1>2, <1>12 DEF vars, workerVars, streamVars
<1>13. CASE Environment
  BY <1>6, <1>7, <1>8, <1>9, <1>10, <1>11, <1>13 DEF Environment
<1> QED  BY <1>3, <1>4, <1>5, <1>6, <1>12, <1>13 DEF Next

LEMMA InitShows == Init => View!Init
<1> SUFFICES ASSUME Init PROVE View!Init
  OBVIOUS
<1>1. as_of = [s \in Symbols |-> 0] /\ \A r \in Streams : sent[r] = <<>> /\ stream[r].pc = "none"
  BY DEF Init, NoStream
<1>2. \A r \in Streams, s \in Symbols : Seen(r, s) = None
  BY <1>1 DEF Seen
<1>3. Views = [r \in Streams |-> [s \in Symbols |-> None]]
  BY <1>2 DEF Views
<1>4. Over = {}
  BY <1>1 DEF Over, At
<1> QED  BY <1>1, <1>3, <1>4 DEF View!Init, Views, Over

\* The threads of an engine node implement FeedView: whatever order workers, publisher and
\* handlers run in, and however a stream ends, its client sees of each book a first state
\* and from there one event after the other.
THEOREM FeedKeepsPromise == Spec => KeepsPromise
<1>1. Init => View!Init
  BY InitShows
<1>2. ClientInv /\ [Next]_vars => [View!Next]_View!vars
  BY NextShows
<1> QED  BY <1>1, <1>2, ClientInvariant, PTL DEF Spec, KeepsPromise, View!Spec

=============================================================================
