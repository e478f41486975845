------------------------- MODULE ExchangeServerProofs -------------------------
(***************************************************************************)
(* The console server, for any number of producers, workers and symbols.   *)
(* The clock of a book never goes back, whatever order commands are queued *)
(* in; and every command is answered once, with its events printed in      *)
(* order, and none missing once the server has ended.                      *)
(***************************************************************************)
EXTENDS ExchangeServerProperties, SequenceTheorems, TLAPS

\* What a producer is submitting: its time may still be missing.
Submission == [seq : Given, symbol : Symbols, ts : Nat \cup {-1}]

\* An inbox keeps what it has when one more item goes in (push).
LEMMA PushKeepsRoutes ==
  ASSUME ClockInv, NEW w \in Workers, NEW item \in Items \cup {Shutdown},
         item # Shutdown => routes[item.symbol] = w,
         Push(w, item)
  PROVE  /\ inbox' \in [Workers -> Seq(Items \cup {Shutdown})]
         /\ \A v \in Workers : \A i \in DOMAIN inbox'[v] :
              inbox'[v][i] # Shutdown => routes[inbox'[v][i].symbol] = v
<1> DEFINE Any == Items \cup {Shutdown}
<1>1. inbox \in [Workers -> Seq(Any)] /\ item \in Any
  BY DEF ClockInv
<1>2. inbox' = [inbox EXCEPT ![w] = Append(inbox[w], item)]
  BY DEF Push
<1>3. inbox[w] \in Seq(Any)
  BY <1>1
<1>4. /\ Append(inbox[w], item) \in Seq(Any)
      /\ DOMAIN Append(inbox[w], item) = 1 .. Len(inbox[w]) + 1
      /\ \A i \in 1 .. Len(inbox[w]) : Append(inbox[w], item)[i] = inbox[w][i]
      /\ Append(inbox[w], item)[Len(inbox[w]) + 1] = item
      /\ DOMAIN inbox[w] = 1 .. Len(inbox[w])
      /\ Len(inbox[w]) \in Nat
  <2> HIDE DEF Any
  <2> QED  BY <1>1, <1>3
<1>5. inbox' \in [Workers -> Seq(Any)]
  <2> HIDE DEF Any
  <2> QED  BY <1>1, <1>2, <1>4
<1>6. \A i \in DOMAIN inbox'[w] : inbox'[w][i] # Shutdown => routes[inbox'[w][i].symbol] = w
  <2> SUFFICES ASSUME NEW i \in DOMAIN inbox'[w], inbox'[w][i] # Shutdown
               PROVE  routes[inbox'[w][i].symbol] = w
    OBVIOUS
  <2>1. inbox'[w] = Append(inbox[w], item)
    BY <1>1, <1>2
  <2>2. i \in 1 .. Len(inbox[w]) \/ i = Len(inbox[w]) + 1
    BY <1>4, <2>1
  <2>3. CASE i \in 1 .. Len(inbox[w])
    BY <1>4, <2>1, <2>3 DEF ClockInv
  <2>4. CASE i = Len(inbox[w]) + 1
    BY <1>4, <2>1, <2>4
  <2> QED  BY <2>2, <2>3, <2>4
<1>7. \A v \in Workers \ {w} : inbox'[v] = inbox[v]
  BY <1>1, <1>2
<1>8. \A v \in Workers : \A i \in DOMAIN inbox'[v] :
        inbox'[v][i] # Shutdown => routes[inbox'[v][i].symbol] = v
  <2> SUFFICES ASSUME NEW v \in Workers
               PROVE  \A i \in DOMAIN inbox'[v] :
                        inbox'[v][i] # Shutdown => routes[inbox'[v][i].symbol] = v
    OBVIOUS
  <2>1. CASE v = w
    BY <1>6, <2>1
  <2>2. CASE v # w
    BY <1>7, <2>2 DEF ClockInv
  <2> QED  BY <2>1, <2>2
<1> QED  BY <1>5, <1>8

\* A worker's step: it takes the first item of its inbox, and a book's call is at
\* a time neither before the worker's last nor before the book's last (run).
LEMMA TakesInOrder ==
  ASSUME ClockInv, NEW w \in Workers, WorkerTakes(w)
  PROVE  /\ ClockInv'
         /\ \A s \in Symbols : book_ts'[s] >= book_ts[s]
<1> DEFINE Any == Items \cup {Shutdown}
           item == Head(inbox[w])
<1>1. inbox[w] \in Seq(Any) /\ inbox[w] # <<>>
  BY DEF ClockInv, WorkerTakes
<1>2. /\ item \in Any /\ item = inbox[w][1] /\ 1 \in DOMAIN inbox[w]
      /\ Tail(inbox[w]) \in Seq(Any)
      /\ \A i \in DOMAIN Tail(inbox[w]) :
           i + 1 \in DOMAIN inbox[w] /\ Tail(inbox[w])[i] = inbox[w][i + 1]
  <2> HIDE DEF Any
  <2> QED  BY <1>1, HeadTailProperties
<1>3. inbox' = [inbox EXCEPT ![w] = Tail(inbox[w])]
  BY DEF WorkerTakes
<1>4. inbox' \in [Workers -> Seq(Any)]
  BY <1>2, <1>3 DEF ClockInv
<1>5. \A v \in Workers : \A i \in DOMAIN inbox'[v] :
        inbox'[v][i] # Shutdown => routes[inbox'[v][i].symbol] = v
  <2> SUFFICES ASSUME NEW v \in Workers, NEW i \in DOMAIN inbox'[v], inbox'[v][i] # Shutdown
               PROVE  routes[inbox'[v][i].symbol] = v
    OBVIOUS
  <2>1. CASE v = w
    <3>1. inbox'[w] = Tail(inbox[w])
      BY <1>3 DEF ClockInv
    <3>2. i \in DOMAIN Tail(inbox[w])
      BY <2>1, <3>1
    <3>3. i + 1 \in DOMAIN inbox[w] /\ Tail(inbox[w])[i] = inbox[w][i + 1]
      BY <1>2, <3>2
    <3> QED  BY <2>1, <3>1, <3>3 DEF ClockInv
  <2>2. CASE v # w
    BY <1>3, <2>2 DEF ClockInv
  <2> QED  BY <2>1, <2>2
<1>6. UNCHANGED <<clock, next_seq, submitting>>
  BY DEF WorkerTakes, producerVars
<1>7. /\ last_ts' \in [Workers -> Nat]
      /\ book_ts' \in [Symbols -> Nat]
      /\ \A s \in Symbols : book_ts'[s] <= last_ts'[routes[s]]
      /\ \A s \in Symbols : book_ts'[s] >= book_ts[s]
  <2>1. CASE item = Shutdown
    <3>1. UNCHANGED <<last_ts, book_ts>>
      BY <2>1 DEF WorkerTakes
    <3> QED  BY <3>1 DEF ClockInv
  <2>2. CASE item # Shutdown
    <3>1. item \in Items /\ routes[item.symbol] = w
      BY <1>2, <2>2 DEF ClockInv
    <3>2. PICK n \in 0 .. MaxEvents : Runs(w, item, n)
      BY <2>2 DEF WorkerTakes
    <3>3. /\ last_ts' = [last_ts EXCEPT ![w] = CallTime(w, item)]
          /\ book_ts' = [book_ts EXCEPT ![item.symbol] = CallTime(w, item)]
      BY <3>2 DEF Runs
    <3>4. item.symbol \in Symbols /\ item.ts \in Nat
      BY <3>1 DEF Items
    <3>5. CallTime(w, item) \in Nat /\ CallTime(w, item) >= last_ts[w]
      BY <3>4 DEF CallTime, ClockInv
    <3>6. routes \in [Symbols -> Workers]
      BY ExchangeServerAssumption
    <3>7. last_ts \in [Workers -> Nat] /\ book_ts \in [Symbols -> Nat]
          /\ \A s \in Symbols : book_ts[s] <= last_ts[routes[s]]
      BY DEF ClockInv
    <3>8. PICK t \in Nat : t = CallTime(w, item) /\ t >= last_ts[w]
      BY <3>5
    <3>9. /\ last_ts' = [last_ts EXCEPT ![w] = t]
          /\ book_ts' = [book_ts EXCEPT ![item.symbol] = t]
      BY <3>3, <3>8
    <3> HIDE DEF item
    <3>10. last_ts' \in [Workers -> Nat] /\ book_ts' \in [Symbols -> Nat]
      BY <3>4, <3>7, <3>9
    <3>11. ASSUME NEW s \in Symbols
           PROVE  book_ts'[s] <= last_ts'[routes[s]] /\ book_ts'[s] >= book_ts[s]
      <4>1. book_ts[s] \in Nat /\ last_ts[routes[s]] \in Nat /\ routes[s] \in Workers
            /\ book_ts[s] <= last_ts[routes[s]]
        BY <3>6, <3>7
      <4>2. CASE s = item.symbol
        BY <3>1, <3>7, <3>8, <3>9, <4>1, <4>2
      <4>3. CASE s # item.symbol
        BY <3>7, <3>8, <3>9, <4>1, <4>3
      <4> QED  BY <4>2, <4>3
    <3> QED  BY <3>10, <3>11
  <2> QED  BY <2>1, <2>2
<1>8. ClockInv'
  BY <1>4, <1>5, <1>6, <1>7 DEF ClockInv
<1> QED  BY <1>7, <1>8

\* Every other step leaves the times of workers and books alone.
LEMMA OthersKeepTimes ==
  ASSUME ClockInv, Next, \A w \in Workers : ~WorkerTakes(w)
  PROVE  UNCHANGED <<last_ts, book_ts>>
<1>1. UNCHANGED workerVars => UNCHANGED <<last_ts, book_ts>>
  BY DEF workerVars
<1>2. MainSteps => UNCHANGED workerVars
  BY DEF MainSteps
<1>3. CASE Tick
  BY <1>1, <1>3 DEF Tick
<1>4. CASE \E p \in Producers, s \in Symbols : Sequence(p, s)
  BY <1>1, <1>4 DEF Sequence
<1>5. CASE \E p \in Producers : Submits(p)
  BY <1>1, <1>5 DEF Submits, Stamp, Queue
<1>6. CASE \E w \in Workers : Works(w)
  BY <1>6 DEF Works, WorkerPushes
<1>7. CASE PublisherPops
  BY <1>1, <1>7 DEF PublisherPops
<1>8. CASE Start \/ ShutdownBegins \/ ShutsDown
  BY <1>1, <1>2, <1>8 DEF Start, ShutdownBegins, ShutsDown, StopWorker, JoinWorker, CloseOutbox,
     JoinPublisher
<1> QED  BY <1>3, <1>4, <1>5, <1>6, <1>7, <1>8 DEF Next

\* Every other step keeps commands in the inboxes of their symbols' workers.
LEMMA OthersKeepRoutes ==
  ASSUME ClockInv, Next, \A w \in Workers : ~WorkerTakes(w)
  PROVE  /\ clock' \in Nat
         /\ next_seq' \in Nat \ {0}
         /\ submitting' \in [Producers -> Submission \cup {None}]
         /\ inbox' \in [Workers -> Seq(Items \cup {Shutdown})]
         /\ \A w \in Workers : \A i \in DOMAIN inbox'[w] :
              inbox'[w][i] # Shutdown => routes[inbox'[w][i].symbol] = w
<1>a. /\ clock \in Nat
      /\ next_seq \in Nat \ {0}
      /\ submitting \in [Producers -> Submission \cup {None}]
  BY DEF ClockInv, Submission
<1>b. UNCHANGED inbox =>
        /\ inbox' \in [Workers -> Seq(Items \cup {Shutdown})]
        /\ \A w \in Workers : \A i \in DOMAIN inbox'[w] :
             inbox'[w][i] # Shutdown => routes[inbox'[w][i].symbol] = w
  BY DEF ClockInv
<1>c. UNCHANGED producerVars => UNCHANGED <<next_seq, submitting>>
  BY DEF producerVars
<1>d. MainSteps => UNCHANGED <<clock, producerVars>>
  BY DEF MainSteps
<1>1. CASE Tick
  BY <1>a, <1>b, <1>c, <1>1 DEF Tick
<1>2. CASE \E p \in Producers, s \in Symbols : Sequence(p, s)
  <2>1. PICK p \in Producers, s \in Symbols : Sequence(p, s)
    BY <1>2
  <2>2. next_seq \in Given
    BY <1>a, <2>1, ExchangeServerAssumption DEF Sequence, Given
  <2>3. [seq |-> next_seq, symbol |-> s, ts |-> -1] \in Submission
    BY <2>2 DEF Submission
  <2>4. next_seq' \in Nat \ {0}
    BY <1>a, <2>1 DEF Sequence
  <2> QED  BY <1>a, <1>b, <2>1, <2>3, <2>4 DEF Sequence
<1>3. CASE \E p \in Producers : Submits(p)
  <2>1. PICK p \in Producers : Submits(p)
    BY <1>3
  <2>2. CASE Stamp(p)
    <3>1. submitting[p] \in Submission
      BY <1>a, <2>2 DEF Stamp
    <3>2. [submitting[p] EXCEPT !.ts = clock] \in Submission
      BY <1>a, <3>1 DEF Submission
    <3> QED  BY <1>a, <1>b, <2>2, <3>2 DEF Stamp
  <2>3. CASE Queue(p)
    <3>1. submitting[p] \in Submission /\ submitting[p].ts # -1
      BY <1>a, <2>3 DEF Queue
    <3>2. submitting[p] \in Items /\ submitting[p].symbol \in Symbols
      BY <3>1 DEF Submission, Items
    <3>3. routes[submitting[p].symbol] \in Workers
      BY <3>2, ExchangeServerAssumption
    <3>4. Push(routes[submitting[p].symbol], submitting[p])
      BY <2>3 DEF Queue
    <3>5. /\ inbox' \in [Workers -> Seq(Items \cup {Shutdown})]
          /\ \A w \in Workers : \A i \in DOMAIN inbox'[w] :
               inbox'[w][i] # Shutdown => routes[inbox'[w][i].symbol] = w
      BY <3>2, <3>3, <3>4, PushKeepsRoutes
    <3> QED  BY <1>a, <2>3, <3>5 DEF Queue
  <2> QED  BY <2>1, <2>2, <2>3 DEF Submits
<1>4. CASE \E w \in Workers : Works(w)
  BY <1>a, <1>b, <1>c, <1>4 DEF Works, WorkerPushes
<1>5. CASE PublisherPops
  BY <1>a, <1>b, <1>c, <1>5 DEF PublisherPops
<1>6. CASE Start \/ ShutdownBegins \/ JoinWorker \/ CloseOutbox \/ JoinPublisher
  BY <1>a, <1>b, <1>c, <1>d, <1>6 DEF Start, ShutdownBegins, JoinWorker, CloseOutbox, JoinPublisher
<1>7. CASE StopWorker
  <2>1. at \in Workers /\ Push(at, Shutdown)
    BY <1>7 DEF StopWorker
  <2>2. /\ inbox' \in [Workers -> Seq(Items \cup {Shutdown})]
        /\ \A w \in Workers : \A i \in DOMAIN inbox'[w] :
             inbox'[w][i] # Shutdown => routes[inbox'[w][i].symbol] = w
    BY <2>1, PushKeepsRoutes
  <2> QED  BY <1>a, <1>c, <1>d, <1>7, <2>2 DEF StopWorker
<1> QED  BY <1>1, <1>2, <1>3, <1>4, <1>5, <1>6, <1>7 DEF Next, ShutsDown

\* Every step keeps the invariant, and no book's time goes back.
LEMMA ClockStep ==
  ASSUME ClockInv, [Next]_vars
  PROVE  ClockInv' /\ \A s \in Symbols : book_ts'[s] >= book_ts[s]
<1>1. CASE \E w \in Workers : WorkerTakes(w)
  BY <1>1, TakesInOrder
<1>2. CASE Next /\ \A w \in Workers : ~WorkerTakes(w)
  <2>1. UNCHANGED <<last_ts, book_ts>>
    BY <1>2, OthersKeepTimes
  <2>2. \A s \in Symbols : book_ts[s] \in Nat
    BY DEF ClockInv
  <2>3. ClockInv'
    BY <1>2, <2>1, OthersKeepRoutes DEF ClockInv, Submission
  <2> QED  BY <2>1, <2>2, <2>3
<1>3. CASE UNCHANGED vars
  <2>1. UNCHANGED <<clock, next_seq, submitting, inbox, last_ts, book_ts>>
    BY <1>3 DEF vars, producerVars, workerVars
  <2>2. \A s \in Symbols : book_ts[s] \in Nat
    BY DEF ClockInv
  <2> QED  BY <2>1, <2>2 DEF ClockInv
<1> QED  BY <1>1, <1>2, <1>3

\* Commands stay with the workers of their symbols, in every behaviour.
THEOREM ClockInvariant == Spec => []ClockInv
<1>1. Init => ClockInv
  <2> SUFFICES ASSUME Init PROVE ClockInv
    OBVIOUS
  <2>1. routes \in [Symbols -> Workers]
    BY ExchangeServerAssumption
  <2>2. \A s \in Symbols : book_ts[s] <= last_ts[routes[s]]
    BY <2>1 DEF Init
  <2>3. inbox \in [Workers -> Seq(Items \cup {Shutdown})]
    BY DEF Init
  <2>4. \A w \in Workers : DOMAIN inbox[w] = {}
    BY DEF Init
  <2> QED  BY <2>2, <2>3, <2>4 DEF Init, ClockInv
<1>2. ClockInv /\ [Next]_vars => ClockInv'
  BY ClockStep
<1> QED  BY <1>1, <1>2, PTL DEF Spec

\* The time of a book never goes back, however the clock's times and the queue's
\* order cross (the max in Worker::run).
THEOREM ClockNeverGoesBack == Spec => ClockNeverBack
<1>1. ClockInv /\ [Next]_vars => [\A s \in Symbols : book_ts'[s] >= book_ts[s]]_vars
  BY ClockStep
<1> QED  BY <1>1, ClockInvariant, PTL DEF Spec, ClockNeverBack

-----------------------------------------------------------------------------
(* Queues *)

LEMMA Appended ==
  ASSUME NEW S, NEW q \in Seq(S), NEW x \in S
  PROVE  /\ Append(q, x) \in Seq(S) /\ Append(q, x) # <<>>
         /\ Len(q) \in Nat /\ Len(Append(q, x)) = Len(q) + 1
         /\ DOMAIN q = 1 .. Len(q)
         /\ DOMAIN Append(q, x) = 1 .. Len(q) + 1
         /\ \A i \in 1 .. Len(q) : Append(q, x)[i] = q[i]
         /\ Append(q, x)[Len(q) + 1] = x
OBVIOUS

LEMMA AppendTyped ==
  ASSUME NEW S, NEW q \in Seq(S), NEW x \in S
  PROVE  Append(q, x) \in Seq(S)
BY Appended

\* A queue gets an element: k is how many it had.
LEMMA JoinedPlaces ==
  ASSUME NEW S, NEW q \in Seq(S), NEW x \in S
  PROVE  \E k \in Nat : /\ DOMAIN q = 1 .. k /\ DOMAIN Append(q, x) = 1 .. k + 1
                        /\ Len(Append(q, x)) = k + 1
                        /\ \A i \in 1 .. k : Append(q, x)[i] = q[i]
                        /\ Append(q, x)[k + 1] = x
<1>1. PICK k \in Nat : k = Len(q)
  OBVIOUS
<1> QED  BY <1>1, Appended

LEMMA Taken ==
  ASSUME NEW S, NEW q \in Seq(S), q # <<>>
  PROVE  /\ Head(q) \in S /\ Head(q) = q[1]
         /\ Len(q) \in Nat \ {0} /\ DOMAIN q = 1 .. Len(q)
         /\ Tail(q) \in Seq(S) /\ Len(Tail(q)) = Len(q) - 1
         /\ DOMAIN Tail(q) = 1 .. Len(q) - 1
         /\ \A i \in 1 .. Len(q) - 1 : Tail(q)[i] = q[i + 1]
OBVIOUS

\* The first element leaves: k is how many stay.
LEMMA LeftPlaces ==
  ASSUME NEW S, NEW q \in Seq(S), q # <<>>
  PROVE  \E k \in Nat : /\ DOMAIN q = 1 .. k + 1 /\ DOMAIN Tail(q) = 1 .. k
                        /\ Len(q) = k + 1 /\ Len(Tail(q)) = k
                        /\ Head(q) = q[1]
                        /\ \A i \in 1 .. k : Tail(q)[i] = q[i + 1]
<1>1. PICK k \in Nat : k = Len(q) - 1
  BY Taken
<1>2. Len(q) = k + 1
  BY <1>1
<1> QED  BY <1>1, <1>2, Taken

LEMMA HasAppended ==
  ASSUME NEW S, NEW q \in Seq(S), NEW x \in S, NEW items
  PROVE  /\ Has(Append(q, x), items) <=> Has(q, items) \/ x \in items
         /\ HasOnce(q, items) /\ (x \in items => ~Has(q, items)) =>
              HasOnce(Append(q, x), items)
<1>1. PICK k \in Nat : /\ DOMAIN q = 1 .. k /\ DOMAIN Append(q, x) = 1 .. k + 1
                       /\ \A i \in 1 .. k : Append(q, x)[i] = q[i]
                       /\ Append(q, x)[k + 1] = x
  BY JoinedPlaces
<1>2. \A i \in 1 .. k + 1 : i \in 1 .. k \/ i = k + 1
  OBVIOUS
<1>3. \A i \in 1 .. k : i \in 1 .. k + 1
  OBVIOUS
<1>4. k + 1 \in 1 .. k + 1
  OBVIOUS
<1> DEFINE r == Append(q, x)
<1> HIDE DEF r
<1>5. /\ DOMAIN r = 1 .. k + 1 /\ \A i \in 1 .. k : r[i] = q[i]
      /\ r[k + 1] = x
  BY <1>1 DEF r
<1>6. Has(r, items) <=> Has(q, items) \/ x \in items
  BY <1>1, <1>2, <1>3, <1>4, <1>5 DEF Has
<1>7. ASSUME HasOnce(q, items), x \in items => ~Has(q, items)
      PROVE  HasOnce(r, items)
  <2> SUFFICES ASSUME NEW i \in 1 .. k + 1, NEW j \in 1 .. k + 1, r[i] \in items, r[j] \in items
               PROVE  i = j
    BY <1>5 DEF HasOnce
  <2> QED  BY <1>1, <1>2, <1>5, <1>7 DEF HasOnce, Has
<1> QED  BY <1>6, <1>7 DEF r

Gains(q, r, x, items) ==
  /\ Has(r, items) <=> Has(q, items) \/ x \in items
  /\ HasOnce(q, items) /\ (x \in items => ~Has(q, items)) => HasOnce(r, items)

LEMMA AppendGains ==
  ASSUME NEW S, NEW q \in Seq(S), NEW x \in S, NEW items
  PROVE  Gains(q, Append(q, x), x, items)
BY HasAppended DEF Gains

LEMMA HasTaken ==
  ASSUME NEW S, NEW q \in Seq(S), q # <<>>, NEW items
  PROVE  /\ Has(q, items) <=> Has(Tail(q), items) \/ Head(q) \in items
         /\ HasOnce(q, items) =>
              /\ HasOnce(Tail(q), items)
              /\ Head(q) \in items => ~Has(Tail(q), items)
<1>1. PICK k \in Nat : /\ DOMAIN q = 1 .. k + 1 /\ DOMAIN Tail(q) = 1 .. k
                       /\ Head(q) = q[1]
                       /\ \A i \in 1 .. k : Tail(q)[i] = q[i + 1]
  BY LeftPlaces
<1> DEFINE r == Tail(q)
           h == Head(q)
<1> HIDE DEF r, h
<1>2. /\ DOMAIN q = 1 .. k + 1 /\ DOMAIN r = 1 .. k
      /\ h = q[1] /\ \A i \in 1 .. k : r[i] = q[i + 1]
  BY <1>1 DEF r, h
<1>3. \A i \in 1 .. k : i + 1 \in 1 .. k + 1 /\ i + 1 # 1
  OBVIOUS
<1>4. \A i \in 1 .. k + 1 : i = 1 \/ \E j \in 1 .. k : i = j + 1
  <2> SUFFICES ASSUME NEW i \in 1 .. k + 1, i # 1 PROVE \E j \in 1 .. k : i = j + 1
    OBVIOUS
  <2>1. i - 1 \in 1 .. k /\ i = (i - 1) + 1
    OBVIOUS
  <2> QED  BY <2>1
<1>5. 1 \in 1 .. k + 1
  OBVIOUS
<1>6. Has(q, items) <=> Has(r, items) \/ h \in items
  <2>1. ASSUME Has(q, items) PROVE Has(r, items) \/ h \in items
    BY <1>2, <1>4, <2>1 DEF Has
  <2>2. ASSUME Has(r, items) PROVE Has(q, items)
    BY <1>2, <1>3, <2>2 DEF Has
  <2>3. ASSUME h \in items PROVE Has(q, items)
    BY <1>2, <1>5, <2>3 DEF Has
  <2> QED  BY <2>1, <2>2, <2>3
<1>7. ASSUME HasOnce(q, items) PROVE HasOnce(r, items)
  <2> SUFFICES ASSUME NEW i \in 1 .. k, NEW j \in 1 .. k, r[i] \in items, r[j] \in items
               PROVE  i = j
    BY <1>2 DEF HasOnce
  <2>1. i + 1 = j + 1
    BY <1>2, <1>3, <1>7 DEF HasOnce
  <2> QED  BY <2>1
<1>8. ASSUME HasOnce(q, items), h \in items PROVE ~Has(r, items)
  BY <1>2, <1>3, <1>5, <1>8 DEF HasOnce, Has
<1> QED  BY <1>6, <1>7, <1>8 DEF r, h

Loses(q, r, x, items) ==
  /\ Has(q, items) <=> Has(r, items) \/ x \in items
  /\ HasOnce(q, items) => HasOnce(r, items) /\ (x \in items => ~Has(r, items))

LEMMA TailLoses ==
  ASSUME NEW S, NEW q \in Seq(S), q # <<>>, NEW items
  PROVE  Loses(q, Tail(q), Head(q), items)
BY HasTaken DEF Loses

LEMMA HasEmpty ==
  ASSUME NEW items
  PROVE  ~Has(<<>>, items) /\ HasOnce(<<>>, items)
<1>1. DOMAIN <<>> = {}
  OBVIOUS
<1> QED  BY <1>1 DEF Has, HasOnce

-----------------------------------------------------------------------------
(* Events in a queue *)

\* What an output is.
LEMMA OutputForms ==
  ASSUME NEW x \in Outputs
  PROVE  /\ \/ x.kind = "event" /\ x = Event(x.symbol, x.number) /\ x.number \in Nat
            \/ x.kind = "reply" /\ x = Reply(x.symbol, x.number) /\ x.number \in Given
         /\ x.symbol \in Symbols
         /\ x # Closed
         /\ \A n : x \in Answers(n) <=> x.kind = "reply" /\ x.number = n
<1>1. /\ \/ x.kind = "event" /\ x = Event(x.symbol, x.number) /\ x.number \in Nat
         \/ x.kind = "reply" /\ x = Reply(x.symbol, x.number) /\ x.number \in Given
      /\ x.symbol \in Symbols
  BY DEF Outputs, Event, Reply
<1>2. x # Closed
  BY <1>1 DEF Closed
<1>3. ASSUME NEW n
      PROVE  x \in Answers(n) <=> x.kind = "reply" /\ x.number = n
  <2>1. ASSUME x \in Answers(n)
        PROVE  x.kind = "reply" /\ x.number = n
    BY <2>1 DEF Answers, Reply
  <2>2. ASSUME x.kind = "reply", x.number = n
        PROVE  x \in Answers(n)
    BY <1>1, <2>2 DEF Answers
  <2> QED  BY <2>1, <2>2
<1> QED  BY <1>1, <1>2, <1>3

\* Another item changes nothing of the events of s.
LEMMA EventsBeside ==
  ASSUME NEW S, NEW q \in Seq(S), NEW x \in S, NEW s, NEW a, NEW b,
         EventsOf(q, s, a, b), ~EventFor(x, s)
  PROVE  EventsOf(Append(q, x), s, a, b)
<1>1. PICK k \in Nat : /\ DOMAIN q = 1 .. k /\ DOMAIN Append(q, x) = 1 .. k + 1
                       /\ \A i \in 1 .. k : Append(q, x)[i] = q[i]
                       /\ Append(q, x)[k + 1] = x
  BY JoinedPlaces
<1> DEFINE r == Append(q, x)
<1> HIDE DEF r
<1>2. /\ DOMAIN q = 1 .. k /\ DOMAIN r = 1 .. k + 1
      /\ \A i \in 1 .. k : r[i] = q[i]
      /\ r[k + 1] = x
  BY <1>1 DEF r
<1>3. \A i \in 1 .. k + 1 : i \in 1 .. k \/ i = k + 1
  OBVIOUS
<1>4. \A i \in 1 .. k : i \in 1 .. k + 1
  OBVIOUS
<1>5. \A i \in 1 .. k + 1 : EventFor(r[i], s) => i \in 1 .. k
  BY <1>2, <1>3
<1>6. EventsOf(r, s, a, b)
  BY <1>2, <1>4, <1>5 DEF EventsOf, EventFor
<1> QED  BY <1>6 DEF r

\* r is q with x at its end: k is how many q has.
Joins(q, x, r, k) ==
  /\ DOMAIN q = 1 .. k /\ DOMAIN r = 1 .. k + 1
  /\ \A i \in 1 .. k : r[i] = q[i]
  /\ r[k + 1] = x

LEMMA AppendJoins ==
  ASSUME NEW S, NEW q \in Seq(S), NEW x \in S
  PROVE  \E k \in Nat : Joins(q, x, Append(q, x), k)
<1>1. PICK k \in Nat : /\ DOMAIN q = 1 .. k /\ DOMAIN Append(q, x) = 1 .. k + 1
                       /\ \A i \in 1 .. k : Append(q, x)[i] = q[i]
                       /\ Append(q, x)[k + 1] = x
  BY JoinedPlaces
<1>2. Joins(q, x, Append(q, x), k)
  BY <1>1, Zenon DEF Joins
<1> QED  BY <1>2

\* The next event joins.
LEMMA EventJoins ==
  ASSUME NEW q, NEW x, NEW r, NEW k \in Nat, Joins(q, x, r, k),
         NEW s, NEW a \in Nat, NEW b \in Nat, a <= b,
         EventsOf(q, s, a, b), x = Event(s, b + 1)
  PROVE  EventsOf(r, s, a, b + 1)
<1>0. x = Event(s, b + 1)
  OBVIOUS
<1>1. /\ DOMAIN q = 1 .. k /\ DOMAIN r = 1 .. k + 1
      /\ \A i \in 1 .. k : r[i] = q[i]
      /\ r[k + 1] = x
  BY DEF Joins
<1>2. x.kind = "event" /\ x.symbol = s /\ x.number = b + 1
  BY <1>0 DEF Event
<1>3. \A i \in 1 .. k + 1 : i \in 1 .. k \/ i = k + 1
  OBVIOUS
<1>4. \A i \in 1 .. k : i \in 1 .. k + 1
  OBVIOUS
<1>5. ASSUME NEW n \in a + 1 .. b + 1
      PROVE  \E i \in DOMAIN r : r[i] = Event(s, n)
  <2>1. CASE n = b + 1
    <3>1. k + 1 \in DOMAIN r
      BY <1>1
    <3> QED  BY <1>0, <1>1, <2>1, <3>1
  <2>2. CASE n # b + 1
    <3>1. n \in a + 1 .. b
      BY <2>2
    <3>2. PICK i \in 1 .. k : q[i] = Event(s, n)
      BY <1>1, <3>1 DEF EventsOf
    <3> QED  BY <1>1, <1>4, <3>2
  <2> QED  BY <2>1, <2>2
<1>6. ASSUME NEW i \in DOMAIN r, EventFor(r[i], s)
      PROVE  /\ r[i].number \in a + 1 .. b + 1
             /\ \A j \in DOMAIN r : j > i /\ EventFor(r[j], s) => r[j].number > r[i].number
  <2>1. CASE i = k + 1
    <3>1. \A j \in DOMAIN r : ~(j > i)
      BY <1>1, <2>1
    <3>2. b + 1 \in a + 1 .. b + 1
      OBVIOUS
    <3> QED  BY <1>1, <1>2, <2>1, <3>1, <3>2
  <2>2. CASE i \in 1 .. k
    <3>1. q[i] = r[i] /\ q[i].number \in a + 1 .. b
      BY <1>1, <1>6, <2>2 DEF EventsOf, EventFor
    <3>2. ASSUME NEW j \in DOMAIN r, j > i, EventFor(r[j], s)
          PROVE  r[j].number > r[i].number
      <4>1. CASE j = k + 1
        BY <1>1, <1>2, <3>1, <4>1
      <4>2. CASE j \in 1 .. k
        BY <1>1, <1>6, <2>2, <3>2, <4>2 DEF EventsOf, EventFor
      <4> QED  BY <1>1, <1>3, <4>1, <4>2
    <3>3. r[i].number \in a + 1 .. b + 1
      BY <3>1
    <3> QED  BY <3>2, <3>3
  <2> QED  BY <1>1, <1>3, <2>1, <2>2
<1>7. EventsOf(r, s, a, b + 1)
  BY <1>5, <1>6 DEF EventsOf, EventFor
<1> QED  BY <1>7

LEMMA EventsJoin ==
  ASSUME NEW S, NEW q \in Seq(S), NEW s, NEW a \in Nat, NEW b \in Nat, a <= b,
         EventsOf(q, s, a, b), Event(s, b + 1) \in S
  PROVE  EventsOf(Append(q, Event(s, b + 1)), s, a, b + 1)
<1>1. PICK x \in S : x = Event(s, b + 1)
  OBVIOUS
<1>2. PICK k \in Nat : Joins(q, x, Append(q, x), k)
  BY AppendJoins
<1>3. EventsOf(Append(q, x), s, a, b + 1)
  BY <1>1, <1>2, EventJoins
<1> QED  BY <1>1, <1>3

\* An item that is no event of s leaves.
LEMMA EventsStay ==
  ASSUME NEW S, NEW q \in Seq(S), q # <<>>, NEW s, NEW a \in Nat, NEW b \in Nat,
         EventsOf(q, s, a, b), ~EventFor(Head(q), s)
  PROVE  EventsOf(Tail(q), s, a, b)
<1> DEFINE r == Tail(q)
           h == Head(q)
<1>1. PICK k \in Nat : /\ DOMAIN q = 1 .. k + 1 /\ DOMAIN r = 1 .. k
                       /\ h = q[1] /\ \A i \in 1 .. k : r[i] = q[i + 1]
  BY LeftPlaces
<1>2. ~EventFor(h, s)
  OBVIOUS
<1> HIDE DEF r, h
<1>3. \A i \in 1 .. k : i + 1 \in 1 .. k + 1
  OBVIOUS
<1>4. \A i \in 1 .. k + 1 : i = 1 \/ \E j \in 1 .. k : i = j + 1
  <2> SUFFICES ASSUME NEW i \in 1 .. k + 1, i # 1 PROVE \E j \in 1 .. k : i = j + 1
    OBVIOUS
  <2>1. i - 1 \in 1 .. k /\ i = (i - 1) + 1
    OBVIOUS
  <2> QED  BY <2>1
<1>5. ASSUME NEW n \in a + 1 .. b
      PROVE  \E i \in DOMAIN r : r[i] = Event(s, n)
  <2>1. PICK i \in 1 .. k + 1 : q[i] = Event(s, n)
    BY <1>1 DEF EventsOf
  <2>2. EventFor(q[i], s)
    BY <2>1 DEF EventFor, Event
  <2>3. i # 1
    BY <1>1, <1>2, <2>2
  <2>4. PICK j \in 1 .. k : i = j + 1
    BY <1>4, <2>3
  <2> QED  BY <1>1, <2>1, <2>4
<1>6. ASSUME NEW i \in DOMAIN r, EventFor(r[i], s)
      PROVE  /\ r[i].number \in a + 1 .. b
             /\ \A j \in DOMAIN r : j > i /\ EventFor(r[j], s) => r[j].number > r[i].number
  <2>1. i \in 1 .. k /\ i + 1 \in DOMAIN q /\ r[i] = q[i + 1]
    BY <1>1, <1>3
  <2>2. r[i].number \in a + 1 .. b
    BY <1>6, <2>1 DEF EventsOf, EventFor
  <2>3. ASSUME NEW j \in DOMAIN r, j > i, EventFor(r[j], s)
        PROVE  r[j].number > r[i].number
    <3>1. j + 1 \in DOMAIN q /\ r[j] = q[j + 1] /\ j + 1 > i + 1
      BY <1>1, <1>3, <2>1, <2>3
    <3> QED  BY <1>6, <2>1, <2>3, <3>1 DEF EventsOf, EventFor
  <2> QED  BY <2>2, <2>3
<1>7. EventsOf(r, s, a, b)
  BY <1>5, <1>6 DEF EventsOf, EventFor
<1> QED  BY <1>7 DEF r

\* The first event leaves: it is the one after the first number.
LEMMA EventsLeave ==
  ASSUME NEW S, NEW q \in Seq(S), q # <<>>, NEW s, NEW a \in Nat, NEW b \in Nat,
         EventsOf(q, s, a, b), EventFor(Head(q), s)
  PROVE  /\ a + 1 <= b
         /\ Head(q).number = a + 1
         /\ EventsOf(Tail(q), s, a + 1, b)
<1> DEFINE r == Tail(q)
           h == Head(q)
<1>1. PICK k \in Nat : /\ DOMAIN q = 1 .. k + 1 /\ DOMAIN r = 1 .. k
                       /\ h = q[1] /\ \A i \in 1 .. k : r[i] = q[i + 1]
  BY LeftPlaces
<1>2. EventFor(h, s)
  OBVIOUS
<1> HIDE DEF r, h
<1>3. \A i \in 1 .. k : i + 1 \in 1 .. k + 1 /\ i + 1 > 1
  OBVIOUS
<1>4. \A i \in 1 .. k + 1 : i = 1 \/ (i > 1 /\ \E j \in 1 .. k : i = j + 1)
  <2> SUFFICES ASSUME NEW i \in 1 .. k + 1, i # 1 PROVE i > 1 /\ \E j \in 1 .. k : i = j + 1
    OBVIOUS
  <2>1. i > 1 /\ i - 1 \in 1 .. k /\ i = (i - 1) + 1
    OBVIOUS
  <2> QED  BY <2>1
<1>5. 1 \in DOMAIN q /\ h.number \in a + 1 .. b
  BY <1>1, <1>2 DEF EventsOf, EventFor
<1>6. \A j \in DOMAIN q : j > 1 /\ EventFor(q[j], s) => q[j].number > h.number
  BY <1>1, <1>2, <1>5 DEF EventsOf, EventFor
<1>7. a + 1 <= b /\ a + 1 \in a + 1 .. b
  BY <1>5
<1>8. h.number = a + 1
  <2>1. PICK i \in 1 .. k + 1 : q[i] = Event(s, a + 1)
    BY <1>1, <1>7 DEF EventsOf
  <2>2. EventFor(q[i], s) /\ q[i].number = a + 1
    BY <2>1 DEF EventFor, Event
  <2>3. i = 1
    <3> SUFFICES ASSUME i > 1 PROVE FALSE
      BY <1>4
    <3>1. a + 1 > h.number
      BY <1>1, <1>6, <2>2
    <3> QED  BY <1>5, <3>1
  <2> QED  BY <1>1, <2>2, <2>3
<1>9. ASSUME NEW n \in a + 1 + 1 .. b
      PROVE  \E i \in DOMAIN r : r[i] = Event(s, n)
  <2>1. n \in a + 1 .. b /\ n # a + 1
    OBVIOUS
  <2>2. PICK i \in 1 .. k + 1 : q[i] = Event(s, n)
    BY <1>1, <2>1 DEF EventsOf
  <2>3. q[i].number = n
    BY <2>2 DEF Event
  <2>4. i # 1
    BY <1>1, <1>8, <2>1, <2>3
  <2>5. PICK j \in 1 .. k : i = j + 1
    BY <1>4, <2>4
  <2> QED  BY <1>1, <2>2, <2>5
<1>10. ASSUME NEW i \in DOMAIN r, EventFor(r[i], s)
       PROVE  /\ r[i].number \in a + 1 + 1 .. b
              /\ \A j \in DOMAIN r : j > i /\ EventFor(r[j], s) => r[j].number > r[i].number
  <2>1. i \in 1 .. k /\ i + 1 \in DOMAIN q /\ i + 1 > 1 /\ r[i] = q[i + 1]
    BY <1>1, <1>3
  <2>2. r[i].number \in a + 1 .. b
    BY <1>10, <2>1 DEF EventsOf, EventFor
  <2>3. r[i].number > a + 1
    BY <1>6, <1>8, <1>10, <2>1
  <2>4. r[i].number \in a + 1 + 1 .. b
    BY <2>2, <2>3
  <2>5. ASSUME NEW j \in DOMAIN r, j > i, EventFor(r[j], s)
        PROVE  r[j].number > r[i].number
    <3>1. j + 1 \in DOMAIN q /\ r[j] = q[j + 1] /\ j + 1 > i + 1
      BY <1>1, <1>3, <2>1, <2>5
    <3> QED  BY <1>10, <2>1, <2>5, <3>1 DEF EventsOf, EventFor
  <2> QED  BY <2>4, <2>5
<1>11. EventsOf(r, s, a + 1, b)
  BY <1>9, <1>10 DEF EventsOf, EventFor
<1> QED  BY <1>7, <1>8, <1>11 DEF r, h

LEMMA EventsEmpty ==
  ASSUME NEW s, NEW a \in Nat, NEW b \in Nat
  PROVE  /\ EventsOf(<<>>, s, a, a)
         /\ EventsOf(<<>>, s, a, b) /\ a <= b => a = b
<1>1. DOMAIN <<>> = {} /\ a + 1 .. a = {}
  OBVIOUS
<1>2. EventsOf(<<>>, s, a, a)
  BY <1>1 DEF EventsOf
<1>3. ASSUME EventsOf(<<>>, s, a, b), a <= b, a # b PROVE FALSE
  <2>1. a + 1 \in a + 1 .. b
    BY <1>3
  <2> QED  BY <1>1, <1>3, <2>1 DEF EventsOf
<1> QED  BY <1>2, <1>3

\* What a worker has in hand after it ran a command for s: n events after the a it
\* had, and the reply.
HandOf(s, n, a, m) == [i \in 1 .. n |-> Event(s, a + i)] \o <<Reply(s, m)>>

\* It is the next n events of s, none of another symbol, and no reply but to m.
Follows(q, s, n, a, m) ==
  /\ q \in Seq(Outputs) /\ q # <<>>
  /\ EventsOf(q, s, a, a + n)
  /\ \A t \in Symbols \ {s}, b \in Nat : EventsOf(q, t, b, b)
  /\ \A k : (Has(q, Answers(k)) <=> k = m) /\ HasOnce(q, Answers(k))

LEMMA HandAfter ==
  ASSUME NEW s \in Symbols, NEW n \in Nat, NEW a \in Nat, NEW m \in Given, NEW q,
         q = HandOf(s, n, a, m)
  PROVE  Follows(q, s, n, a, m)
<1> DEFINE e == [i \in 1 .. n |-> Event(s, a + i)]
           x == Reply(s, m)
<1>1. \A i \in 1 .. n : Event(s, a + i) \in Outputs
  BY DEF Event, Outputs
<1>2. x \in Outputs
  BY DEF Reply, Outputs
<1>3. e \in Seq(Outputs) /\ Len(e) = n
  BY <1>1
<1>4. q = Append(e, x)
  <2> HIDE DEF e, x
  <2>1. q = e \o <<x>>
    BY DEF e, x, HandOf
  <2> QED  BY <1>2, <1>3, <2>1
<1>5. \A i \in 1 .. n : e[i] = Event(s, a + i)
  OBVIOUS
<1> HIDE DEF e, x
<1>6. /\ q \in Seq(Outputs) /\ q # <<>> /\ DOMAIN q = 1 .. n + 1
      /\ \A i \in 1 .. n : q[i] = e[i]
      /\ q[n + 1] = x
  <2>1. /\ Append(e, x) \in Seq(Outputs) /\ Append(e, x) # <<>>
        /\ DOMAIN Append(e, x) = 1 .. Len(e) + 1
        /\ \A i \in 1 .. Len(e) : Append(e, x)[i] = e[i]
        /\ Append(e, x)[Len(e) + 1] = x
    BY <1>2, <1>3, Appended
  <2> QED  BY <1>3, <1>4, <2>1
<1>7. /\ x.kind = "reply" /\ x.number = m
      /\ \A i \in 1 .. n : q[i].kind = "event" /\ q[i].symbol = s /\ q[i].number = a + i
      /\ q[n + 1].kind = "reply" /\ q[n + 1].number = m
  <2>1. x.kind = "reply" /\ x.number = m
    BY DEF x, Reply
  <2>2. ASSUME NEW i \in 1 .. n
        PROVE  q[i].kind = "event" /\ q[i].symbol = s /\ q[i].number = a + i
    <3>1. q[i] = Event(s, a + i)
      BY <1>5, <1>6
    <3> QED  BY <3>1 DEF Event
  <2> QED  BY <1>6, <2>1, <2>2
<1>8. \A i \in 1 .. n + 1 : i \in 1 .. n \/ i = n + 1
  OBVIOUS
<1>9. EventsOf(q, s, a, a + n)
  <2>1. ASSUME NEW k \in a + 1 .. a + n
        PROVE  \E i \in DOMAIN q : q[i] = Event(s, k)
    <3>1. k - a \in 1 .. n /\ k - a \in 1 .. n + 1 /\ a + (k - a) = k
      OBVIOUS
    <3> QED  BY <1>5, <1>6, <3>1
  <2>2. ASSUME NEW i \in DOMAIN q, EventFor(q[i], s)
        PROVE  /\ q[i].number \in a + 1 .. a + n
               /\ \A j \in DOMAIN q : j > i /\ EventFor(q[j], s) => q[j].number > q[i].number
    <3>1. \A j \in DOMAIN q : EventFor(q[j], s) => j \in 1 .. n
      BY <1>6, <1>7, <1>8 DEF EventFor
    <3>2. i \in 1 .. n /\ q[i].number = a + i
      BY <1>7, <2>2, <3>1
    <3>3. a + i \in a + 1 .. a + n
      BY <3>2
    <3>4. ASSUME NEW j \in DOMAIN q, j > i, EventFor(q[j], s)
          PROVE  q[j].number > q[i].number
      <4>1. j \in 1 .. n /\ q[j].number = a + j
        BY <1>7, <3>1, <3>4
      <4> QED  BY <3>2, <3>4, <4>1
    <3> QED  BY <3>2, <3>3, <3>4
  <2> QED  BY <2>1, <2>2 DEF EventsOf, EventFor
<1>10. ASSUME NEW t \in Symbols \ {s}, NEW b \in Nat
       PROVE  EventsOf(q, t, b, b)
  <2>1. b + 1 .. b = {}
    OBVIOUS
  <2>2. \A i \in DOMAIN q : ~EventFor(q[i], t)
    BY <1>6, <1>7, <1>8 DEF EventFor
  <2> QED  BY <2>1, <2>2 DEF EventsOf
<1>11. ASSUME NEW k
       PROVE  (Has(q, Answers(k)) <=> k = m) /\ HasOnce(q, Answers(k))
  <2>1. \A i \in 1 .. n + 1 : q[i] \in Outputs
    BY <1>6, ElementOfSeq
  <2>2. \A i \in 1 .. n + 1 : q[i] \in Answers(k) <=> q[i].kind = "reply" /\ q[i].number = k
    BY <2>1, OutputForms
  <2>3. \A i \in 1 .. n + 1 : q[i] \in Answers(k) <=> i = n + 1 /\ k = m
    BY <1>7, <1>8, <2>2
  <2>4. n + 1 \in 1 .. n + 1
    OBVIOUS
  <2>5. Has(q, Answers(k)) <=> k = m
    <3> DEFINE answers == Answers(k)
    <3> HIDE DEF answers
    <3>1. \A i \in DOMAIN q : q[i] \in answers <=> i = n + 1 /\ k = m
      BY <1>6, <2>3 DEF answers
    <3>2. Has(q, answers) <=> k = m
      BY <1>6, <2>4, <3>1 DEF Has
    <3> QED  BY <3>2 DEF answers
  <2>6. \A i, j \in DOMAIN q : q[i] \in Answers(k) /\ q[j] \in Answers(k) => i = j
    <3> DEFINE answers == Answers(k)
    <3> HIDE DEF answers
    <3>1. \A i \in DOMAIN q : q[i] \in answers => i = n + 1
      BY <1>6, <2>3 DEF answers
    <3>2. \A i, j \in DOMAIN q : q[i] \in answers /\ q[j] \in answers => i = j
      BY <3>1
    <3> QED  BY <3>2 DEF answers
  <2>7. HasOnce(q, Answers(k))
    BY <2>6 DEF HasOnce
  <2> QED  BY <2>5, <2>7
<1> QED  BY <1>6, <1>9, <1>10, <1>11 DEF Follows

-----------------------------------------------------------------------------
(* Places of a number *)

\* The places, one by one.
LEMMA PlaceForms ==
  /\ \A a \in Places : \/ \E w \in Workers : a = <<"inbox", w>> \/ a = <<"hand", w>>
                       \/ a = <<"outbox", 0>>
                       \/ a = <<"printed", 0>>
  /\ \A w \in Workers : <<"inbox", w>> \in Places /\ <<"hand", w>> \in Places
  /\ <<"outbox", 0>> \in Places /\ <<"printed", 0>> \in Places
  /\ \A w, v \in Workers :
       /\ <<"inbox", w>> # <<"hand", v>> /\ <<"inbox", w>> # <<"outbox", 0>>
       /\ <<"inbox", w>> # <<"printed", 0>> /\ <<"hand", w>> # <<"outbox", 0>>
       /\ <<"hand", w>> # <<"printed", 0>>
       /\ <<"inbox", w>> = <<"inbox", v>> => w = v
       /\ <<"hand", w>> = <<"hand", v>> => w = v
  /\ <<"outbox", 0>> # <<"printed", 0>>
BY DEF Places

\* What it means to be in one of them, now and after a step.
LEMMA AtForms ==
  ASSUME NEW n
  PROVE  /\ \A w : /\ IsAt(<<"inbox", w>>, n) <=> Has(inbox[w], Commands(n))
                   /\ IsAt(<<"hand", w>>, n) <=> Has(pushing[w], Answers(n))
         /\ IsAt(<<"outbox", 0>>, n) <=> Has(outbox, Answers(n))
         /\ IsAt(<<"printed", 0>>, n) <=> Has(printed, Answers(n))
BY DEF IsAt

LEMMA AtFormsNext ==
  ASSUME NEW n
  PROVE  /\ \A w : /\ IsAt(<<"inbox", w>>, n)' <=> Has(inbox'[w], Commands(n))
                   /\ IsAt(<<"hand", w>>, n)' <=> Has(pushing'[w], Answers(n))
         /\ IsAt(<<"outbox", 0>>, n)' <=> Has(outbox', Answers(n))
         /\ IsAt(<<"printed", 0>>, n)' <=> Has(printed', Answers(n))
BY DEF IsAt, Has, Commands, Answers, Reply

LEMMA OnceNext ==
  ASSUME NEW n,
         \A w \in Workers : HasOnce(inbox'[w], Commands(n)) /\ HasOnce(pushing'[w], Answers(n)),
         HasOnce(outbox', Answers(n)), HasOnce(printed', Answers(n))
  PROVE  EachOnce(n)'
<1>1. EachOnce(n)' = (/\ \A w \in Workers : /\ HasOnce(inbox'[w], Commands(n))
                                            /\ HasOnce(pushing'[w], Answers(n))
                      /\ HasOnce(outbox', Answers(n)) /\ HasOnce(printed', Answers(n)))
  BY DEF EachOnce, HasOnce, Commands, Answers, Reply
<1> QED  BY <1>1

\* m is not in a and not in b but by this step.
Same(m, a, b) ==
  \A n \in Given, c \in Places : ~(n = m /\ c \in {a, b}) => (IsAt(c, n)' <=> IsAt(c, n))

\* A number goes from a to b.
LEMMA NumberMoves ==
  ASSUME InOnePlace, queued' = queued, NEW m, NEW a \in Places, NEW b \in Places, a # b,
         IsAt(a, m), ~IsAt(a, m)', IsAt(b, m)', Same(m, a, b),
         \A n \in Given : EachOnce(n)'
  PROVE  InOnePlace'
<1> SUFFICES ASSUME NEW n \in Given
             PROVE  /\ n \in queued <=> \E c \in Places : IsAt(c, n)'
                    /\ \A c, d \in Places : IsAt(c, n)' /\ IsAt(d, n)' => c = d
  BY DEF InOnePlace
<1> DEFINE X(c) == IsAt(c, n)
           Y(c) == IsAt(c, n)'
<1>1. /\ n \in queued <=> \E c \in Places : X(c)
      /\ \A c, d \in Places : X(c) /\ X(d) => c = d
  BY DEF InOnePlace
<1>2. CASE n = m
  <2>1. X(a) /\ ~Y(a) /\ Y(b) /\ \A c \in Places \ {a, b} : Y(c) <=> X(c)
    BY <1>2 DEF Same
  <2> HIDE DEF X, Y
  <2>2. \A c \in Places : Y(c) <=> c = b
    BY <1>1, <2>1
  <2>3. /\ n \in queued <=> \E c \in Places : Y(c)
        /\ \A c, d \in Places : Y(c) /\ Y(d) => c = d
    BY <1>1, <2>1, <2>2
  <2> QED  BY <2>3 DEF Y
<1>3. CASE n # m
  <2>1. \A c \in Places : Y(c) <=> X(c)
    BY <1>3 DEF Same
  <2> HIDE DEF X, Y
  <2>2. /\ n \in queued <=> \E c \in Places : Y(c)
        /\ \A c, d \in Places : Y(c) /\ Y(d) => c = d
    BY <1>1, <2>1
  <2> QED  BY <2>2 DEF Y
<1> QED  BY <1>2, <1>3

\* A number comes in at a.
LEMMA NumberComes ==
  ASSUME InOnePlace, NEW m \in Given, m \notin queued, queued' = queued \cup {m},
         NEW a \in Places, IsAt(a, m)', Same(m, a, a),
         \A n \in Given : EachOnce(n)'
  PROVE  InOnePlace'
<1> SUFFICES ASSUME NEW n \in Given
             PROVE  /\ n \in queued' <=> \E c \in Places : IsAt(c, n)'
                    /\ \A c, d \in Places : IsAt(c, n)' /\ IsAt(d, n)' => c = d
  BY DEF InOnePlace
<1> DEFINE X(c) == IsAt(c, n)
           Y(c) == IsAt(c, n)'
<1>1. /\ n \in queued <=> \E c \in Places : X(c)
      /\ \A c, d \in Places : X(c) /\ X(d) => c = d
  BY DEF InOnePlace
<1>2. CASE n = m
  <2>1. Y(a) /\ \A c \in Places \ {a} : Y(c) <=> X(c)
    BY <1>2 DEF Same
  <2> HIDE DEF X, Y
  <2>2. \A c \in Places : ~X(c)
    BY <1>1, <1>2
  <2>3. \A c \in Places : Y(c) <=> c = a
    BY <2>1, <2>2
  <2>4. /\ n \in queued' <=> \E c \in Places : Y(c)
        /\ \A c, d \in Places : Y(c) /\ Y(d) => c = d
    BY <1>2, <2>1, <2>3
  <2> QED  BY <2>4 DEF Y
<1>3. CASE n # m
  <2>1. \A c \in Places : Y(c) <=> X(c)
    BY <1>3 DEF Same
  <2> HIDE DEF X, Y
  <2>2. /\ n \in queued' <=> \E c \in Places : Y(c)
        /\ \A c, d \in Places : Y(c) /\ Y(d) => c = d
    BY <1>1, <1>3, <2>1
  <2> QED  BY <2>2 DEF Y
<1> QED  BY <1>2, <1>3

\* No number goes anywhere.
LEMMA NumbersStay ==
  ASSUME InOnePlace, queued' = queued,
         \A n \in Given, c \in Places : IsAt(c, n)' <=> IsAt(c, n),
         \A n \in Given : EachOnce(n)'
  PROVE  InOnePlace'
<1> SUFFICES ASSUME NEW n \in Given
             PROVE  /\ n \in queued <=> \E c \in Places : IsAt(c, n)'
                    /\ \A c, d \in Places : IsAt(c, n)' /\ IsAt(d, n)' => c = d
  BY DEF InOnePlace
<1> DEFINE X(c) == IsAt(c, n)
           Y(c) == IsAt(c, n)'
<1>1. /\ n \in queued <=> \E c \in Places : X(c)
      /\ \A c, d \in Places : X(c) /\ X(d) => c = d
      /\ \A c \in Places : Y(c) <=> X(c)
  BY DEF InOnePlace
<1> HIDE DEF X, Y
<1>2. /\ n \in queued <=> \E c \in Places : Y(c)
      /\ \A c, d \in Places : Y(c) /\ Y(d) => c = d
  BY <1>1
<1> QED  BY <1>2 DEF Y

\* What a step does to the queues it does to the places.
LEMMA PlacesFollow ==
  ASSUME NEW m, NEW a, NEW b,
         \A n \in Given :
           /\ \A w \in Workers :
                /\ ~(n = m /\ <<"inbox", w>> \in {a, b}) =>
                     (Has(inbox'[w], Commands(n)) <=> Has(inbox[w], Commands(n)))
                /\ ~(n = m /\ <<"hand", w>> \in {a, b}) =>
                     (Has(pushing'[w], Answers(n)) <=> Has(pushing[w], Answers(n)))
           /\ ~(n = m /\ <<"outbox", 0>> \in {a, b}) =>
                (Has(outbox', Answers(n)) <=> Has(outbox, Answers(n)))
           /\ ~(n = m /\ <<"printed", 0>> \in {a, b}) =>
                (Has(printed', Answers(n)) <=> Has(printed, Answers(n)))
  PROVE  Same(m, a, b)
<1> SUFFICES ASSUME NEW n \in Given, NEW c \in Places, ~(n = m /\ c \in {a, b})
             PROVE  IsAt(c, n)' <=> IsAt(c, n)
  BY DEF Same
<1>1. CASE \E w \in Workers : c = <<"inbox", w>>
  <2>1. PICK w \in Workers : c = <<"inbox", w>>
    BY <1>1
  <2>2. /\ IsAt(c, n) <=> Has(inbox[w], Commands(n))
        /\ IsAt(c, n)' <=> Has(inbox'[w], Commands(n))
    BY <2>1, AtForms, AtFormsNext
  <2> QED  BY <2>1, <2>2
<1>2. CASE \E w \in Workers : c = <<"hand", w>>
  <2>1. PICK w \in Workers : c = <<"hand", w>>
    BY <1>2
  <2>2. /\ IsAt(c, n) <=> Has(pushing[w], Answers(n))
        /\ IsAt(c, n)' <=> Has(pushing'[w], Answers(n))
    BY <2>1, AtForms, AtFormsNext
  <2> QED  BY <2>1, <2>2
<1>3. CASE c = <<"outbox", 0>>
  <2>1. /\ IsAt(c, n) <=> Has(outbox, Answers(n))
        /\ IsAt(c, n)' <=> Has(outbox', Answers(n))
    BY <1>3, AtForms, AtFormsNext
  <2> QED  BY <1>3, <2>1
<1>4. CASE c = <<"printed", 0>>
  <2>1. /\ IsAt(c, n) <=> Has(printed, Answers(n))
        /\ IsAt(c, n)' <=> Has(printed', Answers(n))
    BY <1>4, AtForms, AtFormsNext
  <2> QED  BY <1>4, <2>1
<1> QED  BY <1>1, <1>2, <1>3, <1>4, PlaceForms

\* What the invariant says of a number n, queue by queue.
LEMMA PlacesApart ==
  ASSUME InOnePlace, NEW n \in Given
  PROVE  /\ \A w \in Workers :
              /\ Has(inbox[w], Commands(n)) =>
                   /\ n \in queued
                   /\ \A v \in Workers : ~Has(pushing[v], Answers(n))
                   /\ \A v \in Workers \ {w} : ~Has(inbox[v], Commands(n))
                   /\ ~Has(outbox, Answers(n)) /\ ~Has(printed, Answers(n))
              /\ Has(pushing[w], Answers(n)) =>
                   /\ n \in queued
                   /\ ~Has(outbox, Answers(n)) /\ ~Has(printed, Answers(n))
         /\ Has(outbox, Answers(n)) => n \in queued /\ ~Has(printed, Answers(n))
         /\ Has(printed, Answers(n)) => n \in queued
         /\ n \in queued =>
              \/ \E w \in Workers : Has(inbox[w], Commands(n)) \/ Has(pushing[w], Answers(n))
              \/ Has(outbox, Answers(n))
              \/ Has(printed, Answers(n))
<1> DEFINE X(c) == IsAt(c, n)
<1>1. /\ n \in queued <=> \E c \in Places : X(c)
      /\ \A c, d \in Places : X(c) /\ X(d) => c = d
  BY DEF InOnePlace
<1>2. /\ \A w : /\ X(<<"inbox", w>>) <=> Has(inbox[w], Commands(n))
                /\ X(<<"hand", w>>) <=> Has(pushing[w], Answers(n))
      /\ X(<<"outbox", 0>>) <=> Has(outbox, Answers(n))
      /\ X(<<"printed", 0>>) <=> Has(printed, Answers(n))
  BY AtForms
<1> HIDE DEF X
<1> DEFINE I(w) == <<"inbox", w>>
           H(w) == <<"hand", w>>
           O == <<"outbox", 0>>
           P == <<"printed", 0>>
<1>3. /\ \A c \in Places : (\E w \in Workers : c = I(w) \/ c = H(w)) \/ c = O \/ c = P
      /\ \A w \in Workers : I(w) \in Places /\ H(w) \in Places
      /\ O \in Places /\ P \in Places
      /\ \A w, v \in Workers : /\ I(w) # H(v) /\ I(w) # O /\ I(w) # P /\ H(w) # O /\ H(w) # P
                               /\ I(w) = I(v) => w = v
      /\ O # P
  BY PlaceForms
<1>4. /\ \A w : (X(I(w)) <=> Has(inbox[w], Commands(n))) /\ (X(H(w)) <=> Has(pushing[w], Answers(n)))
      /\ X(O) <=> Has(outbox, Answers(n))
      /\ X(P) <=> Has(printed, Answers(n))
  BY <1>2
<1> HIDE DEF I, H, O, P
<1>5. ASSUME NEW w \in Workers, X(I(w))
      PROVE  /\ n \in queued
             /\ \A v \in Workers : ~X(H(v))
             /\ \A v \in Workers \ {w} : ~X(I(v))
             /\ ~X(O) /\ ~X(P)
  BY <1>1, <1>3, <1>5
<1>6. ASSUME NEW w \in Workers, X(H(w))
      PROVE  n \in queued /\ ~X(O) /\ ~X(P)
  BY <1>1, <1>3, <1>6
<1>7. (X(O) => n \in queued /\ ~X(P)) /\ (X(P) => n \in queued)
  BY <1>1, <1>3
<1>8. n \in queued => (\E w \in Workers : X(I(w)) \/ X(H(w))) \/ X(O) \/ X(P)
  BY <1>1, <1>3
<1> QED  BY <1>4, <1>5, <1>6, <1>7, <1>8

\* The numbers of items.
LEMMA CommandForms ==
  ASSUME NEW n
  PROVE  /\ \A x \in Items : x \in Commands(n) <=> x.seq = n
         /\ Shutdown \notin Commands(n)
         /\ Shutdown \notin Items
         /\ Closed \notin Answers(n)
         /\ ~\E s : EventFor(Closed, s)
<1>1. None \notin Symbols
  BY ExchangeServerAssumption
<1>2. Shutdown.symbol = None
  BY DEF Shutdown
<1>3. \A x \in Commands(n) : x.symbol \in Symbols
  BY DEF Commands
<1>4. \A x \in Items : x.symbol \in Symbols
  BY DEF Items
<1>5. Shutdown \notin Commands(n) /\ Shutdown \notin Items
  BY <1>1, <1>2, <1>3, <1>4
<1>6. \A x \in Items : x \in Commands(n) <=> x.seq = n
  BY DEF Items, Commands
<1>7. Closed.kind = "closed"
  BY DEF Closed
<1>8. \A x \in Answers(n) : x.kind = "reply"
  BY DEF Answers, Reply
<1>9. Closed \notin Answers(n)
  BY <1>7, <1>8
<1>10. ~\E s : EventFor(Closed, s)
  BY <1>7 DEF EventFor
<1> QED  BY <1>5, <1>6, <1>9, <1>10

\* Nothing changes for a part whose variables keep their values.
LEMMA PlacesFrame ==
  InOnePlace /\ UNCHANGED <<queued, inbox, pushing, outbox, printed>> => InOnePlace'
<1> SUFFICES ASSUME InOnePlace, UNCHANGED <<queued, inbox, pushing, outbox, printed>>
             PROVE  InOnePlace'
  OBVIOUS
<1>1. \A n \in Given, c \in Places : IsAt(c, n)' <=> IsAt(c, n)
  <2>1. Same(0, 0, 0)
    BY PlacesFollow
  <2>2. \A n \in Given : n # 0
    BY ExchangeServerAssumption DEF Given
  <2> QED  BY <2>1, <2>2 DEF Same
<1>2. ASSUME NEW n \in Given PROVE EachOnce(n)'
  <2>1. EachOnce(n)
    BY DEF InOnePlace
  <2> QED  BY <2>1 DEF EachOnce, HasOnce, Commands, Answers, Reply
<1> QED  BY <1>1, <1>2, NumbersStay

LEMMA EventsFrame ==
  EventsInLine /\ UNCHANGED <<as_of, printed, outbox, pushing>> => EventsInLine'
BY DEF EventsInLine, Cut

LEMMA TypedFrame ==
  LineTyped /\ UNCHANGED <<queued, next_seq, as_of, pushing, outbox, printed>> => LineTyped'
BY DEF LineTyped, Outputs, Closed

LEMMA PillsFrame ==
  PillsLast /\ UNCHANGED <<inbox, returned, pushing, at, main, outbox, publisher>> => PillsLast'
BY DEF PillsLast, Has, Shutdown, Closed

LEMMA ShutdownFrame ==
  ShutdownInOrder /\ UNCHANGED <<at, running, main, submitting, publisher>> => ShutdownInOrder'
BY DEF ShutdownInOrder

LEMMA SubmissionsFrame ==
  SubmissionsNew /\ UNCHANGED <<submitting, next_seq, queued>> => SubmissionsNew'
BY DEF SubmissionsNew

\* All of the invariant but the clock's part.
AnswerParts ==
  LineTyped /\ SubmissionsNew /\ InOnePlace /\ EventsInLine /\ PillsLast /\ ShutdownInOrder

-----------------------------------------------------------------------------
(* Producers *)

\* While the server serves, no worker has had its pill.
LEMMA ServingHasNoPill ==
  ASSUME PillsLast, ShutdownInOrder, main \in {"setup", "serving"}
  PROVE  \A w \in Workers : w \notin returned /\ ~Has(inbox[w], {Shutdown})
<1>1. at = 1
  BY DEF ShutdownInOrder
<1>2. \A w \in Workers : ~(w < at) /\ ~(w = at /\ main = "joining")
  BY <1>1, ExchangeServerAssumption DEF Workers
<1> QED  BY <1>2 DEF PillsLast

LEMMA SequenceKeeps ==
  ASSUME ClockInv, AnswerParts, NEW p \in Producers, NEW s \in Symbols, Sequence(p, s)
  PROVE  AnswerParts'
<1>0. /\ LineTyped /\ SubmissionsNew /\ InOnePlace /\ EventsInLine /\ PillsLast /\ ShutdownInOrder
      /\ next_seq \in Nat \ {0} /\ submitting \in [Producers -> Submission \cup {None}]
  BY DEF AnswerParts, ClockInv, Submission
<1>1. UNCHANGED <<queued, inbox, as_of, pushing, returned, outbox, printed, publisher, running,
                  main, at>>
  BY DEF Sequence, workerVars, mainVars
<1>2. InOnePlace' /\ EventsInLine' /\ PillsLast'
  BY <1>0, <1>1, PlacesFrame, EventsFrame, PillsFrame
<1>3. PICK item : item = [seq |-> next_seq, symbol |-> s, ts |-> -1]
  OBVIOUS
<1>4. /\ running /\ next_seq' = next_seq + 1
      /\ submitting' = [submitting EXCEPT ![p] = item]
      /\ item.seq = next_seq
  BY <1>3 DEF Sequence
<1>5. LineTyped'
  BY <1>0, <1>1, <1>4 DEF LineTyped, Outputs, Closed
<1>6. ShutdownInOrder'
  BY <1>0, <1>1, <1>4 DEF ShutdownInOrder
<1>7. SubmissionsNew'
  <2> SUFFICES ASSUME NEW r \in Producers, submitting'[r] # None
               PROVE  /\ submitting'[r].seq < next_seq'
                      /\ submitting'[r].seq \notin queued
                      /\ \A t \in Producers \ {r} : submitting'[t] # None =>
                           submitting'[t].seq # submitting'[r].seq
    BY <1>1 DEF SubmissionsNew
  <2>1. next_seq \notin queued
    BY <1>0 DEF LineTyped
  <2>2. \A t \in Producers \ {p} : submitting'[t] = submitting[t]
    BY <1>0, <1>4
  <2>3. submitting'[p] = item
    BY <1>0, <1>4
  <2>4. \A t \in Producers \ {p} : submitting[t] # None =>
          submitting[t].seq < next_seq /\ submitting[t].seq \in Nat
    BY <1>0 DEF SubmissionsNew, Submission, Given
  <2>5. CASE r = p
    <3>1. \A t \in Producers \ {p} : submitting[t] # None => submitting[t].seq # next_seq
      BY <1>0, <2>4
    <3> QED  BY <1>0, <1>4, <2>1, <2>2, <2>3, <2>5, <3>1
  <2>6. CASE r # p
    <3>1. submitting[r].seq < next_seq + 1 /\ submitting[r].seq # next_seq
      BY <1>0, <2>2, <2>4, <2>6
    <3> QED  BY <1>0, <1>4, <2>2, <2>3, <2>6, <3>1 DEF SubmissionsNew
  <2> QED  BY <2>5, <2>6
<1> QED  BY <1>2, <1>5, <1>6, <1>7 DEF AnswerParts

LEMMA StampKeeps ==
  ASSUME ClockInv, AnswerParts, NEW p \in Producers, Stamp(p)
  PROVE  AnswerParts'
<1>0. /\ LineTyped /\ SubmissionsNew /\ InOnePlace /\ EventsInLine /\ PillsLast /\ ShutdownInOrder
      /\ submitting \in [Producers -> Submission \cup {None}]
  BY DEF AnswerParts, ClockInv, Submission
<1>1. UNCHANGED <<next_seq, queued, inbox, as_of, pushing, returned, outbox, printed, publisher,
                  running, main, at>>
  BY DEF Stamp, workerVars, mainVars
<1>2. LineTyped' /\ InOnePlace' /\ EventsInLine' /\ PillsLast'
  BY <1>0, <1>1, TypedFrame, PlacesFrame, EventsFrame, PillsFrame
<1>3. PICK item : item = [submitting[p] EXCEPT !.ts = clock]
  OBVIOUS
<1>4. submitting[p] # None /\ submitting' = [submitting EXCEPT ![p] = item]
  BY <1>3 DEF Stamp
<1>5. item.seq = submitting[p].seq
  <2>1. submitting[p] \in Submission
    BY <1>0, <1>4
  <2> QED  BY <1>3, <2>1 DEF Submission
<1>6. /\ \A t \in Producers \ {p} : submitting'[t] = submitting[t]
      /\ submitting'[p] = item
  BY <1>0, <1>4
<1>7. \A t \in Producers : submitting'[t] # None =>
        submitting[t] # None /\ submitting'[t].seq = submitting[t].seq
  BY <1>4, <1>5, <1>6
<1>8. SubmissionsNew'
  BY <1>0, <1>1, <1>7 DEF SubmissionsNew
<1>9. ShutdownInOrder'
  <2>1. main = "serving"
    BY <1>0, <1>4 DEF ShutdownInOrder
  <2> QED  BY <1>0, <1>1, <2>1 DEF ShutdownInOrder
<1> QED  BY <1>2, <1>8, <1>9 DEF AnswerParts

\* A command joins the inbox of its symbol's worker.
LEMMA QueueKeeps ==
  ASSUME ClockInv, AnswerParts, NEW p \in Producers, Queue(p)
  PROVE  AnswerParts'
<1>0. /\ LineTyped /\ SubmissionsNew /\ InOnePlace /\ EventsInLine /\ PillsLast /\ ShutdownInOrder
      /\ submitting \in [Producers -> Submission \cup {None}]
      /\ inbox \in [Workers -> Seq(Items \cup {Shutdown})]
  BY DEF AnswerParts, ClockInv, Submission
<1>1. UNCHANGED <<next_seq, as_of, pushing, returned, outbox, printed, publisher, running, main, at>>
  BY DEF Queue, workerVars, mainVars
<1>2. PICK item, m, w : item = submitting[p] /\ m = item.seq /\ w = routes[item.symbol]
  OBVIOUS
<1>3. /\ item # None /\ item \in Items /\ w \in Workers /\ m \in Given
      /\ item \in Items \cup {Shutdown}
  <2>1. item \in Submission /\ item.ts # -1 /\ item # None
    BY <1>0, <1>2 DEF Queue
  <2>2. item \in Items
    BY <2>1 DEF Submission, Items
  <2> QED  BY <1>2, <2>1, <2>2, ExchangeServerAssumption DEF Items
<1>4. /\ inbox' = [inbox EXCEPT ![w] = Append(inbox[w], item)]
      /\ queued' = queued \cup {m}
      /\ submitting' = [submitting EXCEPT ![p] = None]
  BY <1>2 DEF Queue, Push
<1>5. /\ inbox'[w] = Append(inbox[w], item)
      /\ \A v \in Workers \ {w} : inbox'[v] = inbox[v]
      /\ inbox[w] \in Seq(Items \cup {Shutdown})
  BY <1>0, <1>3, <1>4
<1>6. m \notin queued /\ m < next_seq
  BY <1>0, <1>2, <1>3 DEF SubmissionsNew
<1>7. main = "serving"
  BY <1>0, <1>2, <1>3 DEF ShutdownInOrder
<1>8. EventsInLine'
  BY <1>0, <1>1, EventsFrame
<1>9. ShutdownInOrder'
  BY <1>0, <1>1, <1>7 DEF ShutdownInOrder
<1>10. LineTyped'
  <2>1. queued' \subseteq Given \cap 1 .. next_seq - 1
    <3>1. m \in 1 .. next_seq - 1
      BY <1>3, <1>6, ExchangeServerAssumption DEF Given, ClockInv
    <3> QED  BY <1>0, <1>3, <1>4, <3>1 DEF LineTyped
  <2> QED  BY <1>0, <1>1, <2>1 DEF LineTyped, Outputs, Closed
<1>11. SubmissionsNew'
  <2>1. /\ \A t \in Producers \ {p} : submitting'[t] = submitting[t]
        /\ submitting'[p] = None
    BY <1>0, <1>4
  <2>2. \A t \in Producers \ {p} : submitting[t] # None => submitting[t].seq # m
    BY <1>0, <1>2, <1>3 DEF SubmissionsNew
  <2> QED  BY <1>0, <1>1, <1>4, <2>1, <2>2 DEF SubmissionsNew
<1>12. InOnePlace'
  <2>1. \A n \in Given : /\ item \in Commands(n) <=> n = m
                         /\ Has(inbox'[w], Commands(n)) <=> Has(inbox[w], Commands(n)) \/ n = m
    BY <1>2, <1>3, <1>5, CommandForms, HasAppended
  <2>2. ~Has(inbox[w], Commands(m))
    BY <1>0, <1>3, <1>6, PlacesApart
  <2>3. \A n \in Given : HasOnce(inbox'[w], Commands(n))
    <3> SUFFICES ASSUME NEW n \in Given PROVE HasOnce(inbox'[w], Commands(n))
      OBVIOUS
    <3>1. HasOnce(inbox[w], Commands(n))
      BY <1>0, <1>3 DEF InOnePlace, EachOnce
    <3>2. item \in Commands(n) => ~Has(inbox[w], Commands(n))
      BY <2>1, <2>2
    <3> QED  BY <1>3, <1>5, <3>1, <3>2, HasAppended
  <2>4. \A n \in Given : EachOnce(n)'
    <3> SUFFICES ASSUME NEW n \in Given PROVE EachOnce(n)'
      OBVIOUS
    <3>1. EachOnce(n)
      BY <1>0 DEF InOnePlace
    <3>2. \A v \in Workers : HasOnce(inbox'[v], Commands(n)) /\ HasOnce(pushing'[v], Answers(n))
      BY <1>1, <1>5, <2>3, <3>1 DEF EachOnce
    <3>3. HasOnce(outbox', Answers(n)) /\ HasOnce(printed', Answers(n))
      BY <1>1, <3>1 DEF EachOnce
    <3> QED  BY <3>2, <3>3, OnceNext
  <2> DEFINE a == <<"inbox", w>>
  <2>5. Same(m, a, a)
    <3>1. \A n \in Given, v \in Workers :
            ~(n = m /\ <<"inbox", v>> \in {a, a}) =>
              (Has(inbox'[v], Commands(n)) <=> Has(inbox[v], Commands(n)))
      BY <1>5, <2>1
    <3> QED  BY <1>1, <3>1, PlacesFollow
  <2>6. a \in Places /\ IsAt(a, m)'
    BY <1>3, <2>1, PlaceForms, AtFormsNext
  <2> HIDE DEF a
  <2> QED  BY <1>0, <1>3, <1>4, <1>6, <2>4, <2>5, <2>6, NumberComes
<1>13. PillsLast'
  <2>1. \A v \in Workers : v \notin returned /\ ~Has(inbox[v], {Shutdown})
    BY <1>0, <1>7, ServingHasNoPill
  <2>2. item # Shutdown
    BY <1>3, CommandForms
  <2>3. ~Has(inbox'[w], {Shutdown})
    <3>1. Has(Append(inbox[w], item), {Shutdown}) <=>
            Has(inbox[w], {Shutdown}) \/ item \in {Shutdown}
      BY <1>3, <1>5, HasAppended
    <3> QED  BY <1>3, <1>5, <2>1, <2>2, <3>1
  <2>4. \A v \in Workers : ~Has(inbox'[v], {Shutdown})
    BY <1>5, <2>1, <2>3
  <2>5. \A v \in Workers : \A i \in DOMAIN inbox'[v] : inbox'[v][i] # Shutdown
    BY <2>4 DEF Has
  <2> QED  BY <1>0, <1>1, <2>1, <2>4, <2>5 DEF PillsLast, Shutdown, Closed
<1> QED  BY <1>8, <1>9, <1>10, <1>11, <1>12, <1>13 DEF AnswerParts

-----------------------------------------------------------------------------
(* Workers *)

\* A command goes from the inbox of its worker to its hand, as the reply to it; the
\* events the book made of it come before.
LEMMA RunKeepsPlaces ==
  ASSUME InOnePlace, UNCHANGED <<queued, outbox, printed>>,
         NEW w \in Workers, NEW item \in Items, NEW q,
         inbox[w] \in Seq(Items \cup {Shutdown}), inbox[w] # <<>>, Head(inbox[w]) = item,
         inbox'[w] = Tail(inbox[w]), \A v \in Workers \ {w} : inbox'[v] = inbox[v],
         pushing[w] = <<>>, pushing'[w] = q, \A v \in Workers \ {w} : pushing'[v] = pushing[v],
         \A k : (Has(q, Answers(k)) <=> k = item.seq) /\ HasOnce(q, Answers(k))
  PROVE  InOnePlace'
<1>1. PICK m : m = item.seq
  OBVIOUS
<1>2. m \in Given
  BY <1>1 DEF Items
<1>3. \A n \in Given : item \in Commands(n) <=> n = m
  BY <1>1, CommandForms
<1>4. \A n \in Given : Has(inbox[w], Commands(n)) <=> Has(inbox'[w], Commands(n)) \/ n = m
  BY <1>3, HasTaken
<1>5. \A n \in Given : HasOnce(inbox[w], Commands(n))
  BY DEF InOnePlace, EachOnce
<1>6. /\ \A n \in Given : HasOnce(inbox'[w], Commands(n))
      /\ ~Has(inbox'[w], Commands(m))
  BY <1>2, <1>3, <1>5, HasTaken
<1>7. \A n : ~Has(pushing[w], Answers(n))
  BY HasEmpty
<1>8. \A n : Has(pushing'[w], Answers(n)) <=> n = m
  BY <1>1
<1> DEFINE a == <<"inbox", w>>
           b == <<"hand", w>>
<1>9. a \in Places /\ b \in Places /\ a # b
  BY PlaceForms
<1>10. IsAt(a, m) /\ ~IsAt(a, m)' /\ IsAt(b, m)'
  BY <1>2, <1>4, <1>6, <1>8, AtForms, AtFormsNext
<1>11. Same(m, a, b)
  <2>1. \A n \in Given, v \in Workers : ~(n = m /\ <<"inbox", v>> \in {a, b}) =>
          (Has(inbox'[v], Commands(n)) <=> Has(inbox[v], Commands(n)))
    BY <1>4
  <2>2. \A n \in Given, v \in Workers : ~(n = m /\ <<"hand", v>> \in {a, b}) =>
          (Has(pushing'[v], Answers(n)) <=> Has(pushing[v], Answers(n)))
    BY <1>7, <1>8
  <2> QED  BY <2>1, <2>2, PlacesFollow
<1>12. ASSUME NEW n \in Given PROVE EachOnce(n)'
  <2>1. EachOnce(n)
    BY DEF InOnePlace
  <2>2. \A v \in Workers : HasOnce(inbox'[v], Commands(n)) /\ HasOnce(pushing'[v], Answers(n))
    BY <1>6, <2>1 DEF EachOnce
  <2>3. HasOnce(outbox', Answers(n)) /\ HasOnce(printed', Answers(n))
    BY <2>1 DEF EachOnce
  <2> QED  BY <2>2, <2>3, OnceNext
<1> HIDE DEF a, b
<1> QED  BY <1>9, <1>10, <1>11, <1>12, NumberMoves

\* The numbers where the events of s are cut.
LEMMA CutIs ==
  ASSUME EventsInLine, as_of \in [Symbols -> Nat], NEW s \in Symbols
  PROVE  \E p \in Nat, o \in Nat :
           /\ as_of[s] \in Nat /\ p <= o /\ o <= as_of[s]
           /\ EventsOf(printed, s, 0, p) /\ EventsOf(outbox, s, p, o)
           /\ EventsOf(pushing[routes[s]], s, o, as_of[s])
<1>1. PICK p \in 0 .. as_of[s], o \in 0 .. as_of[s] : Cut(s, p, o)
  BY DEF EventsInLine
<1>2. as_of[s] \in Nat /\ p \in Nat /\ o \in Nat
  OBVIOUS
<1> QED  BY <1>1, <1>2 DEF Cut

LEMMA CutNext ==
  ASSUME NEW s, NEW p \in Nat, NEW o \in Nat, as_of'[s] \in Nat, p <= o, o <= as_of'[s],
         EventsOf(printed', s, 0, p), EventsOf(outbox', s, p, o),
         EventsOf(pushing'[routes[s]], s, o, as_of'[s])
  PROVE  \E k, l \in 0 .. as_of'[s] : Cut(s, k, l)'
<1>1. Cut(s, p, o)'
  <2>1. Cut(s, p, o)' = (/\ p <= o /\ o <= as_of'[s]
                         /\ EventsOf(printed', s, 0, p)
                         /\ EventsOf(outbox', s, p, o)
                         /\ EventsOf(pushing'[routes[s]], s, o, as_of'[s]))
    BY DEF Cut, EventsOf, EventFor, Event
  <2> QED  BY <2>1
<1>2. p \in 0 .. as_of'[s] /\ o \in 0 .. as_of'[s]
  OBVIOUS
<1> QED  BY <1>1, <1>2

LEMMA EventsNext ==
  ASSUME \A s \in Symbols :
           /\ \A w \in Workers \ {routes[s]} : EventsOf(pushing'[w], s, 0, 0)
           /\ \E p, o \in 0 .. as_of'[s] : Cut(s, p, o)'
  PROVE  EventsInLine'
<1>1. EventsInLine' = (\A s \in Symbols :
         /\ \A w \in Workers \ {routes[s]} : EventsOf(pushing'[w], s, 0, 0)
         /\ \E p, o \in 0 .. as_of'[s] : Cut(s, p, o)')
  BY DEF EventsInLine, EventsOf, EventFor, Event
<1> QED  BY <1>1

\* The events a book makes follow the ones it made before.
LEMMA RunKeepsEvents ==
  ASSUME EventsInLine, UNCHANGED <<outbox, printed>>, as_of \in [Symbols -> Nat],
         NEW w \in Workers, NEW s \in Symbols, routes[s] = w, NEW n \in Nat, NEW q,
         as_of' = [as_of EXCEPT ![s] = as_of[s] + n],
         pushing[w] = <<>>, pushing'[w] = q, \A v \in Workers \ {w} : pushing'[v] = pushing[v],
         EventsOf(q, s, as_of[s], as_of[s] + n),
         \A t \in Symbols \ {s}, b \in Nat : EventsOf(q, t, b, b)
  PROVE  EventsInLine'
<1> SUFFICES ASSUME NEW t \in Symbols
             PROVE  /\ \A v \in Workers \ {routes[t]} : EventsOf(pushing'[v], t, 0, 0)
                    /\ \E p, o \in 0 .. as_of'[t] : Cut(t, p, o)'
  BY EventsNext
<1>1. ASSUME NEW v \in Workers \ {routes[t]}
      PROVE  EventsOf(pushing'[v], t, 0, 0)
  <2>1. CASE v = w
    <3>1. t \in Symbols \ {s}
      BY <2>1
    <3> QED  BY <2>1, <3>1
  <2>2. CASE v # w
    BY <2>2 DEF EventsInLine
  <2> QED  BY <2>1, <2>2
<1>2. PICK p \in Nat, o \in Nat :
        /\ as_of[t] \in Nat /\ p <= o /\ o <= as_of[t]
        /\ EventsOf(printed, t, 0, p) /\ EventsOf(outbox, t, p, o)
        /\ EventsOf(pushing[routes[t]], t, o, as_of[t])
  BY CutIs
<1>3. EventsOf(printed', t, 0, p) /\ EventsOf(outbox', t, p, o)
  BY <1>2
<1>4. routes[t] \in Workers
  BY ExchangeServerAssumption
<1>5. CASE t = s
  <2>1. o = as_of[s]
    <3>1. EventsOf(<<>>, t, o, as_of[t])
      BY <1>2, <1>5
    <3> QED  BY <1>2, <1>5, <3>1, EventsEmpty
  <2>2. as_of'[t] = as_of[s] + n /\ as_of'[t] \in Nat /\ o <= as_of'[t]
    BY <1>2, <1>5, <2>1
  <2>3. EventsOf(pushing'[routes[t]], t, o, as_of'[t])
    BY <1>5, <2>1, <2>2
  <2> QED  BY <1>1, <1>2, <1>3, <2>2, <2>3, CutNext
<1>6. CASE t # s
  <2>1. as_of'[t] = as_of[t]
    BY <1>6
  <2>2. EventsOf(pushing'[routes[t]], t, o, as_of[t])
    <3>1. CASE routes[t] = w
      <4>1. o = as_of[t]
        <5>1. EventsOf(<<>>, t, o, as_of[t])
          BY <1>2, <3>1
        <5> QED  BY <1>2, <5>1, EventsEmpty
      <4>2. t \in Symbols \ {s}
        BY <1>6
      <4> QED  BY <1>2, <3>1, <4>1, <4>2
    <3>2. CASE routes[t] # w
      BY <1>2, <1>4, <3>2
    <3> QED  BY <3>1, <3>2
  <2> QED  BY <1>1, <1>2, <1>3, <2>1, <2>2, CutNext
<1> QED  BY <1>5, <1>6

\* What a worker's next item leaves behind in its inbox.
LEMMA InboxTaken ==
  ASSUME ClockInv, PillsLast, NEW w \in Workers, WorkerTakes(w)
  PROVE  /\ w \notin returned /\ pushing[w] = <<>> /\ inbox[w] # <<>>
         /\ inbox[w] \in Seq(Items \cup {Shutdown})
         /\ Head(inbox[w]) \in Items \cup {Shutdown}
         /\ Head(inbox[w]) \in Items => routes[Head(inbox[w]).symbol] = w
         /\ inbox'[w] = Tail(inbox[w])
         /\ \A v \in Workers \ {w} : inbox'[v] = inbox[v]
         /\ Head(inbox[w]) = Shutdown => inbox'[w] = <<>>
         /\ \A i \in DOMAIN inbox'[w] : inbox'[w][i] = Shutdown => i = Len(inbox'[w])
         /\ Has(inbox'[w], {Shutdown}) => Has(inbox[w], {Shutdown})
<1>0. /\ w \notin returned /\ pushing[w] = <<>> /\ inbox[w] # <<>>
      /\ inbox' = [inbox EXCEPT ![w] = Tail(inbox[w])]
  BY DEF WorkerTakes
<1>1. inbox \in [Workers -> Seq(Items \cup {Shutdown})]
  BY DEF ClockInv
<1>2. PICK S : S = Items \cup {Shutdown}
  OBVIOUS
<1>3. inbox[w] \in Seq(S) /\ inbox'[w] = Tail(inbox[w])
      /\ \A v \in Workers \ {w} : inbox'[v] = inbox[v]
  BY <1>0, <1>1, <1>2
<1>4. PICK k \in Nat : /\ DOMAIN inbox[w] = 1 .. k + 1 /\ DOMAIN Tail(inbox[w]) = 1 .. k
                       /\ Len(inbox[w]) = k + 1 /\ Len(Tail(inbox[w])) = k
                       /\ Head(inbox[w]) = inbox[w][1]
                       /\ \A i \in 1 .. k : Tail(inbox[w])[i] = inbox[w][i + 1]
  BY <1>0, <1>3, LeftPlaces
<1>5. Head(inbox[w]) \in S /\ Tail(inbox[w]) \in Seq(S)
  BY <1>0, <1>3, Taken
<1>6. \A i \in 1 .. k + 1 : inbox[w][i] = Shutdown => i = k + 1
  BY <1>4 DEF PillsLast
<1>7. 1 \in 1 .. k + 1 /\ \A i \in 1 .. k : i + 1 \in 1 .. k + 1
  OBVIOUS
<1>8. Head(inbox[w]) = Shutdown => inbox'[w] = <<>>
  <2> SUFFICES ASSUME inbox[w][1] = Shutdown PROVE Tail(inbox[w]) = <<>>
    BY <1>3, <1>4
  <2>1. k = 0
    BY <1>6, <1>7
  <2>2. Len(Tail(inbox[w])) = 0
    BY <1>4, <2>1
  <2> QED  BY <1>5, <2>2, EmptySeq
<1>9. \A i \in DOMAIN inbox'[w] : inbox'[w][i] = Shutdown => i = Len(inbox'[w])
  <2> SUFFICES ASSUME NEW i \in 1 .. k, inbox[w][i + 1] = Shutdown PROVE i = k
    BY <1>3, <1>4
  <2>1. i + 1 = k + 1
    BY <1>6, <1>7
  <2> QED  BY <2>1
<1>10. Has(inbox'[w], {Shutdown}) => Has(inbox[w], {Shutdown})
  BY <1>0, <1>3, HasTaken
<1>11. Head(inbox[w]) \in Items => routes[Head(inbox[w]).symbol] = w
  <2>1. Head(inbox[w]) \in Items => Head(inbox[w]) # Shutdown
    BY CommandForms
  <2> QED  BY <1>4, <1>7, <2>1 DEF ClockInv
<1> QED  BY <1>0, <1>1, <1>2, <1>3, <1>5, <1>8, <1>9, <1>10, <1>11

\* What a worker took keeps pills last: it returns only on a pill, with empty hands.
LEMMA PillsNext ==
  ASSUME PillsLast, UNCHANGED <<outbox, publisher, main, at>>,
         NEW w \in Workers, w \notin returned,
         \A v \in Workers \ {w} : inbox'[v] = inbox[v] /\ pushing'[v] = pushing[v],
         \A i \in DOMAIN inbox'[w] : inbox'[w][i] = Shutdown => i = Len(inbox'[w]),
         Has(inbox'[w], {Shutdown}) => Has(inbox[w], {Shutdown}),
         \/ returned' = returned
         \/ /\ returned' = returned \cup {w}
            /\ inbox'[w] = <<>> /\ pushing'[w] = <<>> /\ Has(inbox[w], {Shutdown})
  PROVE  PillsLast'
<1>1. ASSUME NEW v \in Workers
      PROVE  /\ \A i \in DOMAIN inbox'[v] : inbox'[v][i] = Shutdown => i = Len(inbox'[v])
             /\ v \in returned' => inbox'[v] = <<>> /\ pushing'[v] = <<>>
             /\ (Has(inbox'[v], {Shutdown}) \/ v \in returned') =>
                  v < at \/ (v = at /\ main = "joining")
             /\ v < at => v \in returned'
  <2>1. CASE v = w
    BY <2>1 DEF PillsLast
  <2>2. CASE v # w
    BY <2>2 DEF PillsLast
  <2> QED  BY <2>1, <2>2
<1> QED  BY <1>1 DEF PillsLast, Has, Shutdown, Closed

\* A worker takes its pill or runs a command.
LEMMA TakesKeeps ==
  ASSUME ClockInv, AnswerParts, NEW w \in Workers, WorkerTakes(w)
  PROVE  AnswerParts'
<1>0. /\ LineTyped /\ SubmissionsNew /\ InOnePlace /\ EventsInLine /\ PillsLast /\ ShutdownInOrder
  BY DEF AnswerParts
<1>1. UNCHANGED <<next_seq, submitting, queued, outbox, printed, publisher, running, main, at>>
  BY DEF WorkerTakes, producerVars, mainVars
<1>2. PICK item : item = Head(inbox[w])
  OBVIOUS
<1>3. /\ w \notin returned /\ pushing[w] = <<>> /\ inbox[w] # <<>>
      /\ inbox[w] \in Seq(Items \cup {Shutdown})
      /\ item \in Items \cup {Shutdown}
      /\ item \in Items => routes[item.symbol] = w
      /\ inbox'[w] = Tail(inbox[w])
      /\ \A v \in Workers \ {w} : inbox'[v] = inbox[v]
      /\ item = Shutdown => inbox'[w] = <<>>
      /\ \A i \in DOMAIN inbox'[w] : inbox'[w][i] = Shutdown => i = Len(inbox'[w])
      /\ Has(inbox'[w], {Shutdown}) => Has(inbox[w], {Shutdown})
  BY <1>0, <1>2, InboxTaken
<1>4. as_of \in [Symbols -> Nat] /\ pushing \in [Workers -> Seq(Outputs)]
  BY <1>0 DEF LineTyped
<1>5. SubmissionsNew' /\ ShutdownInOrder'
  BY <1>0, <1>1, SubmissionsFrame, ShutdownFrame
<1>6. CASE item = Shutdown
  <2>1. returned' = returned \cup {w} /\ UNCHANGED <<as_of, pushing>>
    BY <1>2, <1>6 DEF WorkerTakes
  <2>2. LineTyped' /\ EventsInLine'
    BY <1>0, <1>1, <2>1, TypedFrame, EventsFrame
  <2>3. InOnePlace'
    <3>1. \A n \in Given : Has(inbox[w], Commands(n)) <=> Has(inbox'[w], Commands(n))
      <4> SUFFICES ASSUME NEW n \in Given
                   PROVE  Has(inbox[w], Commands(n)) <=> Has(inbox'[w], Commands(n))
        OBVIOUS
      <4>1. Has(inbox[w], Commands(n)) <=>
              Has(Tail(inbox[w]), Commands(n)) \/ Head(inbox[w]) \in Commands(n)
        BY <1>3, HasTaken
      <4>2. Head(inbox[w]) \notin Commands(n)
        BY <1>2, <1>6, CommandForms
      <4> QED  BY <1>3, <4>1, <4>2
    <3>2. Same(0, 0, 0)
      <4>1. \A n \in Given, v \in Workers :
              Has(inbox'[v], Commands(n)) <=> Has(inbox[v], Commands(n))
        BY <1>3, <3>1
      <4> QED  BY <1>1, <2>1, <4>1, PlacesFollow
    <3>3. \A n \in Given, c \in Places : IsAt(c, n)' <=> IsAt(c, n)
      <4>1. \A n \in Given : n # 0
        BY ExchangeServerAssumption DEF Given
      <4> QED  BY <3>2, <4>1 DEF Same
    <3>4. ASSUME NEW n \in Given PROVE EachOnce(n)'
      <4>1. EachOnce(n)
        BY <1>0 DEF InOnePlace
      <4>2. HasOnce(inbox'[w], Commands(n))
        BY <1>3, <1>6, HasEmpty
      <4>3. \A v \in Workers : HasOnce(inbox'[v], Commands(n)) /\ HasOnce(pushing'[v], Answers(n))
        BY <1>3, <2>1, <4>1, <4>2 DEF EachOnce
      <4>4. HasOnce(outbox', Answers(n)) /\ HasOnce(printed', Answers(n))
        BY <1>1, <4>1 DEF EachOnce
      <4> QED  BY <4>3, <4>4, OnceNext
    <3> QED  BY <1>0, <1>1, <3>3, <3>4, NumbersStay
  <2>4. PillsLast'
    <3>1. Has(inbox[w], {Shutdown})
      <4>1. Has(inbox[w], {Shutdown}) <=>
              Has(Tail(inbox[w]), {Shutdown}) \/ Head(inbox[w]) \in {Shutdown}
        BY <1>3, HasTaken
      <4> QED  BY <1>2, <1>6, <4>1
    <3> QED  BY <1>0, <1>1, <1>3, <1>6, <2>1, <3>1, PillsNext
  <2> QED  BY <1>5, <2>2, <2>3, <2>4 DEF AnswerParts
<1>7. CASE item # Shutdown
  <2>1. PICK n \in 0 .. MaxEvents : Runs(w, item, n)
    BY <1>2, <1>7 DEF WorkerTakes
  <2>2. item \in Items
    BY <1>3, <1>7
  <2>3. PICK s, m, q : /\ s = item.symbol /\ m = item.seq
                       /\ q = [i \in 1 .. n |-> Event(s, as_of[s] + i)] \o <<Reply(s, m)>>
    OBVIOUS
  <2>4. /\ returned' = returned
        /\ as_of' = [as_of EXCEPT ![s] = as_of[s] + n]
        /\ pushing' = [pushing EXCEPT ![w] = q]
    BY <2>1, <2>3 DEF Runs
  <2>5. /\ s \in Symbols /\ m \in Given /\ routes[s] = w
        /\ n \in Nat /\ as_of[s] \in Nat /\ as_of[s] + n \in Nat
    <3>1. s \in Symbols /\ m \in Given
      BY <2>2, <2>3 DEF Items
    <3>2. n \in Nat
      BY <2>1, ExchangeServerAssumption
    <3> QED  BY <1>3, <1>4, <2>2, <2>3, <3>1, <3>2
  <2>6. /\ q \in Seq(Outputs) /\ q # <<>>
        /\ EventsOf(q, s, as_of[s], as_of[s] + n)
        /\ \A t \in Symbols \ {s}, b \in Nat : EventsOf(q, t, b, b)
        /\ \A k : (Has(q, Answers(k)) <=> k = m) /\ HasOnce(q, Answers(k))
    <3>1. PICK a \in Nat : a = as_of[s]
      BY <2>5
    <3>2. q = HandOf(s, n, a, m)
      BY <2>3, <3>1 DEF HandOf
    <3>3. Follows(q, s, n, a, m)
      BY <2>5, <3>2, HandAfter
    <3> QED  BY <3>1, <3>3 DEF Follows
  <2>7. pushing'[w] = q /\ \A v \in Workers \ {w} : pushing'[v] = pushing[v]
    BY <1>4, <2>4
  <2>8. LineTyped'
    <3>1. as_of' \in [Symbols -> Nat] /\ pushing' \in [Workers -> Seq(Outputs)]
      BY <1>4, <2>4, <2>5, <2>6
    <3> QED  BY <1>0, <1>1, <3>1 DEF LineTyped, Outputs, Closed
  <2>9. InOnePlace'
    <3>1. InOnePlace /\ UNCHANGED <<queued, outbox, printed>>
      BY <1>0, <1>1
    <3>2. /\ inbox[w] \in Seq(Items \cup {Shutdown}) /\ inbox[w] # <<>> /\ Head(inbox[w]) = item
          /\ inbox'[w] = Tail(inbox[w]) /\ \A v \in Workers \ {w} : inbox'[v] = inbox[v]
          /\ pushing[w] = <<>>
      BY <1>1, <1>2, <1>3
    <3>3. \A k : (Has(q, Answers(k)) <=> k = item.seq) /\ HasOnce(q, Answers(k))
      BY <2>3, <2>6
    <3> QED  BY <2>2, <2>7, <3>1, <3>2, <3>3, RunKeepsPlaces
  <2>10. EventsInLine'
    BY <1>0, <1>1, <1>3, <1>4, <2>4, <2>5, <2>6, <2>7, RunKeepsEvents
  <2>11. PillsLast'
    BY <1>0, <1>1, <1>3, <2>4, <2>7, PillsNext
  <2> QED  BY <1>5, <2>8, <2>9, <2>10, <2>11 DEF AnswerParts
<1> QED  BY <1>6, <1>7

\* A worker that still has something to put in the outbox has not returned, so the
\* outbox is open.
LEMMA OutboxIsOpen ==
  ASSUME PillsLast, ShutdownInOrder, NEW w \in Workers, pushing[w] # <<>>
  PROVE  /\ w \notin returned /\ publisher # "returned"
         /\ \A i \in DOMAIN outbox : outbox[i] # Closed
<1>1. w \notin returned
  BY DEF PillsLast
<1>2. main \notin {"closed", "ended"}
  <2> SUFFICES ASSUME main \in {"closed", "ended"} PROVE FALSE
    OBVIOUS
  <2>1. at = WorkerCount + 1
    BY DEF ShutdownInOrder
  <2>2. w < at
    BY <2>1, ExchangeServerAssumption DEF Workers
  <2> QED  BY <1>1, <2>2 DEF PillsLast
<1> QED  BY <1>1, <1>2 DEF PillsLast

\* An output leaves the hand of its worker for the outbox.
LEMMA PushesKeeps ==
  ASSUME ClockInv, AnswerParts, NEW w \in Workers, WorkerPushes(w)
  PROVE  AnswerParts'
<1>0. /\ LineTyped /\ SubmissionsNew /\ InOnePlace /\ EventsInLine /\ PillsLast /\ ShutdownInOrder
  BY DEF AnswerParts
<1>1. UNCHANGED <<next_seq, submitting, queued, inbox, as_of, returned, printed, publisher, running,
                  main, at>>
  BY DEF WorkerPushes, producerVars, mainVars
<1>2. PICK x : x = Head(pushing[w])
  OBVIOUS
<1>3. /\ pushing[w] # <<>>
      /\ outbox' = Append(outbox, x)
      /\ pushing' = [pushing EXCEPT ![w] = Tail(pushing[w])]
  BY <1>2 DEF WorkerPushes
<1>4. /\ as_of \in [Symbols -> Nat] /\ pushing \in [Workers -> Seq(Outputs)]
      /\ pushing[w] \in Seq(Outputs) /\ outbox \in Seq(Outputs \cup {Closed})
  BY <1>0 DEF LineTyped
<1>5. /\ x \in Outputs /\ x \in Outputs \cup {Closed}
      /\ pushing'[w] = Tail(pushing[w]) /\ pushing'[w] \in Seq(Outputs)
      /\ \A v \in Workers \ {w} : pushing'[v] = pushing[v]
  BY <1>2, <1>3, <1>4, Taken
<1>6. /\ w \notin returned /\ publisher # "returned"
      /\ \A i \in DOMAIN outbox : outbox[i] # Closed
  BY <1>0, <1>3, OutboxIsOpen
<1>7. SubmissionsNew' /\ ShutdownInOrder'
  BY <1>0, <1>1, SubmissionsFrame, ShutdownFrame
<1>8. LineTyped'
  <2>1. pushing' \in [Workers -> Seq(Outputs)]
    BY <1>3, <1>4, <1>5
  <2>2. outbox' \in Seq(Outputs \cup {Closed})
    BY <1>3, <1>4, <1>5, Appended
  <2> QED  BY <1>0, <1>1, <2>1, <2>2 DEF LineTyped, Outputs, Closed
<1>9. PillsLast'
  <2>1. \A i \in DOMAIN outbox' : outbox'[i] # Closed
    <3>1. PICK k \in Nat : /\ DOMAIN outbox = 1 .. k /\ DOMAIN Append(outbox, x) = 1 .. k + 1
                           /\ \A i \in 1 .. k : Append(outbox, x)[i] = outbox[i]
                           /\ Append(outbox, x)[k + 1] = x
      <4> DEFINE T == Outputs \cup {Closed}
      <4>1. outbox \in Seq(T) /\ x \in T
        BY <1>4, <1>5
      <4> HIDE DEF T
      <4> QED  BY <4>1, JoinedPlaces
    <3>2. \A i \in 1 .. k + 1 : i \in 1 .. k \/ i = k + 1
      OBVIOUS
    <3>3. x # Closed
      BY <1>5, OutputForms
    <3> QED  BY <1>3, <1>6, <3>1, <3>2, <3>3
  <2>2. \A v \in Workers : v \in returned => pushing'[v] = <<>>
    BY <1>0, <1>5, <1>6 DEF PillsLast
  <2> QED  BY <1>0, <1>1, <1>6, <2>1, <2>2 DEF PillsLast, Has, Shutdown, Closed
<1>10. InOnePlace'
  <2>1. \A n \in Given :
          /\ Has(pushing[w], Answers(n)) <=> Has(pushing'[w], Answers(n)) \/ x \in Answers(n)
          /\ HasOnce(pushing'[w], Answers(n))
          /\ x \in Answers(n) => ~Has(pushing'[w], Answers(n))
    <3> SUFFICES ASSUME NEW n \in Given
                 PROVE  /\ Has(pushing[w], Answers(n)) <=>
                             Has(pushing'[w], Answers(n)) \/ x \in Answers(n)
                        /\ HasOnce(pushing'[w], Answers(n))
                        /\ x \in Answers(n) => ~Has(pushing'[w], Answers(n))
      OBVIOUS
    <3>1. HasOnce(pushing[w], Answers(n))
      BY <1>0 DEF InOnePlace, EachOnce
    <3>2. /\ Has(pushing[w], Answers(n)) <=>
               Has(Tail(pushing[w]), Answers(n)) \/ Head(pushing[w]) \in Answers(n)
          /\ HasOnce(Tail(pushing[w]), Answers(n))
          /\ Head(pushing[w]) \in Answers(n) => ~Has(Tail(pushing[w]), Answers(n))
      BY <1>3, <1>4, <3>1, HasTaken
    <3> QED  BY <1>2, <1>5, <3>2
  <2>2. \A n \in Given :
          /\ Has(outbox', Answers(n)) <=> Has(outbox, Answers(n)) \/ x \in Answers(n)
          /\ HasOnce(outbox', Answers(n))
    <3> SUFFICES ASSUME NEW n \in Given
                 PROVE  /\ Has(outbox', Answers(n)) <=> Has(outbox, Answers(n)) \/ x \in Answers(n)
                        /\ HasOnce(outbox', Answers(n))
      OBVIOUS
    <3>1. HasOnce(outbox, Answers(n))
      BY <1>0 DEF InOnePlace, EachOnce
    <3>2. x \in Answers(n) => ~Has(outbox, Answers(n))
      BY <1>0, <2>1, PlacesApart
    <3>3. Gains(outbox, Append(outbox, x), x, Answers(n))
      BY <1>4, <1>5, AppendGains
    <3> QED  BY <1>3, <3>1, <3>2, <3>3 DEF Gains
  <2>3. ASSUME NEW n \in Given PROVE EachOnce(n)'
    <3>1. EachOnce(n)
      BY <1>0 DEF InOnePlace
    <3>2. \A v \in Workers : HasOnce(inbox'[v], Commands(n)) /\ HasOnce(pushing'[v], Answers(n))
      BY <1>1, <1>5, <2>1, <3>1 DEF EachOnce
    <3>3. HasOnce(outbox', Answers(n)) /\ HasOnce(printed', Answers(n))
      BY <1>1, <2>2, <3>1 DEF EachOnce
    <3> QED  BY <3>2, <3>3, OnceNext
  <2> DEFINE a == <<"hand", w>>
             b == <<"outbox", 0>>
  <2>4. a \in Places /\ b \in Places /\ a # b
    BY PlaceForms
  <2>5. PICK m : m = IF x.kind = "reply" THEN x.number ELSE 0
    OBVIOUS
  <2>6. \A n \in Given : x \in Answers(n) <=> n = m
    <3>1. \A n \in Given : n # 0
      BY ExchangeServerAssumption DEF Given
    <3> QED  BY <1>5, <2>5, <3>1, OutputForms
  <2>7. Same(m, a, b)
    <3>1. \A n \in Given, v \in Workers : ~(n = m /\ <<"hand", v>> \in {a, b}) =>
            (Has(pushing'[v], Answers(n)) <=> Has(pushing[v], Answers(n)))
      BY <1>5, <2>1, <2>6
    <3>2. \A n \in Given : ~(n = m /\ <<"outbox", 0>> \in {a, b}) =>
            (Has(outbox', Answers(n)) <=> Has(outbox, Answers(n)))
      BY <2>2, <2>6
    <3> QED  BY <1>1, <3>1, <3>2, PlacesFollow
  <2>8. CASE m \in Given
    <3>1. IsAt(a, m) /\ ~IsAt(a, m)' /\ IsAt(b, m)'
      BY <2>1, <2>2, <2>6, <2>8, AtForms, AtFormsNext
    <3> HIDE DEF a, b
    <3> QED  BY <1>0, <1>1, <2>3, <2>4, <2>7, <3>1, NumberMoves
  <2>9. CASE m \notin Given
    <3>1. \A n \in Given, c \in Places : IsAt(c, n)' <=> IsAt(c, n)
      BY <2>7, <2>9 DEF Same
    <3> QED  BY <1>0, <1>1, <2>3, <3>1, NumbersStay
  <2> QED  BY <2>8, <2>9
<1>11. EventsInLine'
  <2> SUFFICES ASSUME NEW t \in Symbols
               PROVE  /\ \A v \in Workers \ {routes[t]} : EventsOf(pushing'[v], t, 0, 0)
                      /\ \E p, o \in 0 .. as_of'[t] : Cut(t, p, o)'
    BY EventsNext
  <2>1. \A v \in Workers \ {routes[t]} : EventsOf(pushing[v], t, 0, 0)
    BY <1>0 DEF EventsInLine
  <2>2. PICK p \in Nat, o \in Nat :
          /\ as_of[t] \in Nat /\ p <= o /\ o <= as_of[t]
          /\ EventsOf(printed, t, 0, p) /\ EventsOf(outbox, t, p, o)
          /\ EventsOf(pushing[routes[t]], t, o, as_of[t])
    BY <1>0, <1>4, CutIs
  <2>3. routes[t] \in Workers
    BY ExchangeServerAssumption
  <2>4. EventFor(x, t) => routes[t] = w
    <3> SUFFICES ASSUME EventFor(Head(pushing[w]), t), routes[t] # w PROVE FALSE
      BY <1>2
    <3>1. EventsOf(pushing[w], t, 0, 0)
      BY <2>1
    <3>2. 0 + 1 <= 0
      BY <1>3, <1>4, <3>1, EventsLeave
    <3> QED  BY <3>2
  <2>5. \A v \in Workers \ {routes[t]} : EventsOf(pushing'[v], t, 0, 0)
    <3> SUFFICES ASSUME NEW v \in Workers \ {routes[t]} PROVE EventsOf(pushing'[v], t, 0, 0)
      OBVIOUS
    <3>1. CASE v = w
      <4>1. EventsOf(pushing[w], t, 0, 0) /\ ~EventFor(Head(pushing[w]), t)
        BY <1>2, <2>1, <2>4, <3>1
      <4>2. EventsOf(Tail(pushing[w]), t, 0, 0)
        BY <1>3, <1>4, <4>1, EventsStay
      <4> QED  BY <1>5, <3>1, <4>2
    <3>2. CASE v # w
      BY <1>5, <2>1, <3>2
    <3> QED  BY <3>1, <3>2
  <2>6. CASE EventFor(x, t)
    <3>1. routes[t] = w
      BY <2>4, <2>6
    <3>2. EventsOf(pushing[w], t, o, as_of[t]) /\ EventFor(Head(pushing[w]), t)
      BY <1>2, <2>2, <2>6, <3>1
    <3>3. /\ o + 1 <= as_of[t] /\ Head(pushing[w]).number = o + 1
          /\ EventsOf(Tail(pushing[w]), t, o + 1, as_of[t])
      BY <1>3, <1>4, <2>2, <3>2, EventsLeave
    <3>4. x = Event(t, o + 1)
      BY <1>2, <1>5, <2>6, <3>3, OutputForms DEF EventFor
    <3>5. EventsOf(outbox', t, p, o + 1)
      <4>1. Event(t, o + 1) \in Outputs \cup {Closed}
        BY <1>5, <3>4
      <4>2. EventsOf(Append(outbox, Event(t, o + 1)), t, p, o + 1)
        BY <1>4, <2>2, <4>1, EventsJoin
      <4> QED  BY <1>3, <3>4, <4>2
    <3>6. EventsOf(pushing'[routes[t]], t, o + 1, as_of'[t])
      BY <1>1, <1>5, <3>1, <3>3
    <3>7. /\ o + 1 \in Nat /\ p <= o + 1 /\ o + 1 <= as_of'[t] /\ as_of'[t] \in Nat
      BY <1>1, <2>2, <3>3
    <3>8. EventsOf(printed', t, 0, p)
      BY <1>1, <2>2
    <3> QED  BY <2>5, <3>5, <3>6, <3>7, <3>8, CutNext
  <2>7. CASE ~EventFor(x, t)
    <3>1. EventsOf(outbox', t, p, o)
      BY <1>3, <1>4, <1>5, <2>2, <2>7, EventsBeside
    <3>2. EventsOf(pushing'[routes[t]], t, o, as_of'[t])
      <4>1. CASE routes[t] = w
        <5>1. EventsOf(pushing[w], t, o, as_of[t]) /\ ~EventFor(Head(pushing[w]), t)
          BY <1>2, <2>2, <2>7, <4>1
        <5>2. EventsOf(Tail(pushing[w]), t, o, as_of[t])
          BY <1>3, <1>4, <2>2, <5>1, EventsStay
        <5> QED  BY <1>1, <1>5, <4>1, <5>2
      <4>2. CASE routes[t] # w
        BY <1>1, <1>5, <2>2, <2>3, <4>2
      <4> QED  BY <4>1, <4>2
    <3>3. as_of'[t] \in Nat /\ o <= as_of'[t] /\ EventsOf(printed', t, 0, p)
      BY <1>1, <2>2
    <3> QED  BY <2>2, <2>5, <3>1, <3>2, <3>3, CutNext
  <2> QED  BY <2>6, <2>7
<1> QED  BY <1>7, <1>8, <1>9, <1>10, <1>11 DEF AnswerParts

-----------------------------------------------------------------------------
(* The publisher's thread *)

\* What leaves the outbox: its first item, and if that is the pill nothing is left.
LEMMA OutboxTaken ==
  ASSUME LineTyped, PillsLast, PublisherPops
  PROVE  /\ outbox # <<>> /\ outbox \in Seq(Outputs \cup {Closed})
         /\ Head(outbox) \in Outputs \cup {Closed}
         /\ outbox' = Tail(outbox) /\ outbox' \in Seq(Outputs \cup {Closed})
         /\ Head(outbox) = Closed => outbox' = <<>> /\ main \in {"closed", "ended"}
         /\ \A i \in DOMAIN outbox' : outbox'[i] = Closed =>
              i = Len(outbox') /\ main \in {"closed", "ended"}
<1>1. PICK S : S = Outputs \cup {Closed}
  OBVIOUS
<1>2. outbox # <<>> /\ outbox \in Seq(S) /\ outbox' = Tail(outbox)
  BY <1>1 DEF LineTyped, PublisherPops
<1>3. Head(outbox) \in S /\ Tail(outbox) \in Seq(S)
  BY <1>2, Taken
<1>4. PICK k \in Nat : /\ DOMAIN outbox = 1 .. k + 1 /\ DOMAIN Tail(outbox) = 1 .. k
                       /\ Len(outbox) = k + 1 /\ Len(Tail(outbox)) = k
                       /\ Head(outbox) = outbox[1]
                       /\ \A i \in 1 .. k : Tail(outbox)[i] = outbox[i + 1]
  BY <1>2, LeftPlaces
<1>5. 1 \in 1 .. k + 1 /\ \A i \in 1 .. k : i + 1 \in 1 .. k + 1
  OBVIOUS
<1>6. \A i \in 1 .. k + 1 : outbox[i] = Closed => i = k + 1 /\ main \in {"closed", "ended"}
  BY <1>4 DEF PillsLast
<1>7. Head(outbox) = Closed => outbox' = <<>> /\ main \in {"closed", "ended"}
  <2> SUFFICES ASSUME outbox[1] = Closed PROVE outbox' = <<>> /\ main \in {"closed", "ended"}
    BY <1>4
  <2>1. k = 0 /\ main \in {"closed", "ended"}
    BY <1>5, <1>6
  <2>2. Len(Tail(outbox)) = 0
    BY <1>4, <2>1
  <2> QED  BY <1>2, <1>3, <2>1, <2>2, EmptySeq
<1>8. \A i \in DOMAIN outbox' : outbox'[i] = Closed =>
        i = Len(outbox') /\ main \in {"closed", "ended"}
  <2> SUFFICES ASSUME NEW i \in 1 .. k, outbox[i + 1] = Closed
               PROVE  i = k /\ main \in {"closed", "ended"}
    BY <1>2, <1>4
  <2>1. i + 1 = k + 1 /\ main \in {"closed", "ended"}
    BY <1>5, <1>6
  <2> QED  BY <2>1
<1> QED  BY <1>1, <1>2, <1>3, <1>7, <1>8

\* An output is printed, or the publisher returns on its pill.
LEMMA PopsKeeps ==
  ASSUME ClockInv, AnswerParts, PublisherPops
  PROVE  AnswerParts'
<1>0. /\ LineTyped /\ SubmissionsNew /\ InOnePlace /\ EventsInLine /\ PillsLast /\ ShutdownInOrder
  BY DEF AnswerParts
<1>1. UNCHANGED <<next_seq, submitting, queued, inbox, as_of, pushing, returned, running, main, at>>
  BY DEF PublisherPops, producerVars, workerVars, mainVars
<1>2. PICK x : x = Head(outbox)
  OBVIOUS
<1>3. /\ outbox # <<>> /\ outbox \in Seq(Outputs \cup {Closed})
      /\ x \in Outputs \cup {Closed}
      /\ outbox' = Tail(outbox) /\ outbox' \in Seq(Outputs \cup {Closed})
      /\ x = Closed => outbox' = <<>> /\ main \in {"closed", "ended"}
      /\ \A i \in DOMAIN outbox' : outbox'[i] = Closed =>
           i = Len(outbox') /\ main \in {"closed", "ended"}
  BY <1>0, <1>2, OutboxTaken
<1>4. IF x = Closed
      THEN publisher' = "returned" /\ printed' = printed
      ELSE printed' = Append(printed, x) /\ publisher' = publisher
  BY <1>2 DEF PublisherPops
<1>5. SubmissionsNew'
  BY <1>0, <1>1, SubmissionsFrame
<1>6. ShutdownInOrder'
  BY <1>0, <1>1, <1>4 DEF ShutdownInOrder
<1>7. as_of \in [Symbols -> Nat] /\ printed \in Seq(Outputs)
  BY <1>0 DEF LineTyped
<1>8. PillsLast'
  <2>1. publisher' = "returned" => outbox' = <<>> /\ main \in {"closed", "ended"}
    <3>1. CASE x = Closed
      BY <1>3, <3>1
    <3>2. CASE x # Closed
      BY <1>0, <1>3, <1>4, <3>2 DEF PillsLast
    <3> QED  BY <3>1, <3>2
  <2> QED  BY <1>0, <1>1, <1>3, <2>1 DEF PillsLast, Has, Shutdown, Closed
<1>9. LineTyped'
  <2>1. printed' \in Seq(Outputs)
    <3>1. CASE x = Closed
      BY <1>4, <1>7, <3>1
    <3>2. CASE x # Closed
      <4>1. Append(printed, x) \in Seq(Outputs)
        BY <1>3, <1>7, <3>2, AppendTyped
      <4> QED  BY <1>4, <3>2, <4>1
    <3> QED  BY <3>1, <3>2
  <2> QED  BY <1>0, <1>1, <1>3, <2>1 DEF LineTyped, Outputs, Closed
<1>10. \A n \in Given :
         /\ Has(outbox, Answers(n)) <=> Has(outbox', Answers(n)) \/ x \in Answers(n)
         /\ HasOnce(outbox', Answers(n))
         /\ x \in Answers(n) => ~Has(outbox', Answers(n))
  <2> SUFFICES ASSUME NEW n \in Given
               PROVE  /\ Has(outbox, Answers(n)) <=> Has(outbox', Answers(n)) \/ x \in Answers(n)
                      /\ HasOnce(outbox', Answers(n))
                      /\ x \in Answers(n) => ~Has(outbox', Answers(n))
    OBVIOUS
  <2>1. HasOnce(outbox, Answers(n))
    BY <1>0 DEF InOnePlace, EachOnce
  <2>2. Loses(outbox, Tail(outbox), Head(outbox), Answers(n))
    BY <1>3, TailLoses
  <2> QED  BY <1>2, <1>3, <2>1, <2>2 DEF Loses
<1>11. \A n \in Given :
         /\ Has(printed', Answers(n)) <=> Has(printed, Answers(n)) \/ x \in Answers(n)
         /\ HasOnce(printed', Answers(n))
  <2> SUFFICES ASSUME NEW n \in Given
               PROVE  /\ Has(printed', Answers(n)) <=> Has(printed, Answers(n)) \/ x \in Answers(n)
                      /\ HasOnce(printed', Answers(n))
    OBVIOUS
  <2>1. HasOnce(printed, Answers(n))
    BY <1>0 DEF InOnePlace, EachOnce
  <2>2. x \in Answers(n) => ~Has(printed, Answers(n))
    BY <1>0, <1>10, PlacesApart
  <2>3. CASE x = Closed
    BY <1>4, <2>1, <2>3, CommandForms
  <2>4. CASE x # Closed
    <3>1. Gains(printed, Append(printed, x), x, Answers(n))
      BY <1>3, <1>7, <2>4, AppendGains
    <3> QED  BY <1>4, <2>1, <2>2, <2>4, <3>1 DEF Gains
  <2> QED  BY <2>3, <2>4
<1>12. InOnePlace'
  <2>1. ASSUME NEW n \in Given PROVE EachOnce(n)'
    <3>1. EachOnce(n)
      BY <1>0 DEF InOnePlace
    <3>2. \A v \in Workers : HasOnce(inbox'[v], Commands(n)) /\ HasOnce(pushing'[v], Answers(n))
      BY <1>1, <3>1 DEF EachOnce
    <3> QED  BY <1>10, <1>11, <3>2, OnceNext
  <2> DEFINE a == <<"outbox", 0>>
             b == <<"printed", 0>>
  <2>2. a \in Places /\ b \in Places /\ a # b
    BY PlaceForms
  <2>3. PICK m : m = IF x \in Outputs /\ x.kind = "reply" THEN x.number ELSE 0
    OBVIOUS
  <2>4. \A n \in Given : x \in Answers(n) <=> n = m
    <3>1. \A n \in Given : n # 0
      BY ExchangeServerAssumption DEF Given
    <3>2. CASE x \in Outputs
      BY <2>3, <3>1, <3>2, OutputForms
    <3>3. CASE x \notin Outputs
      <4>1. x = Closed /\ m = 0
        BY <1>3, <2>3, <3>3
      <4> QED  BY <3>1, <4>1, CommandForms
    <3> QED  BY <3>2, <3>3
  <2>5. Same(m, a, b)
    <3>1. \A n \in Given : ~(n = m /\ <<"outbox", 0>> \in {a, b}) =>
            (Has(outbox', Answers(n)) <=> Has(outbox, Answers(n)))
      BY <1>10, <2>4
    <3>2. \A n \in Given : ~(n = m /\ <<"printed", 0>> \in {a, b}) =>
            (Has(printed', Answers(n)) <=> Has(printed, Answers(n)))
      BY <1>11, <2>4
    <3> QED  BY <1>1, <3>1, <3>2, PlacesFollow
  <2>6. CASE m \in Given
    <3>1. IsAt(a, m) /\ ~IsAt(a, m)' /\ IsAt(b, m)'
      BY <1>10, <1>11, <2>4, <2>6, AtForms, AtFormsNext
    <3> HIDE DEF a, b
    <3> QED  BY <1>0, <1>1, <2>1, <2>2, <2>5, <3>1, NumberMoves
  <2>7. CASE m \notin Given
    <3>1. \A n \in Given, c \in Places : IsAt(c, n)' <=> IsAt(c, n)
      BY <2>5, <2>7 DEF Same
    <3> QED  BY <1>0, <1>1, <2>1, <3>1, NumbersStay
  <2> QED  BY <2>6, <2>7
<1>13. EventsInLine'
  <2> SUFFICES ASSUME NEW t \in Symbols
               PROVE  /\ \A v \in Workers \ {routes[t]} : EventsOf(pushing'[v], t, 0, 0)
                      /\ \E p, o \in 0 .. as_of'[t] : Cut(t, p, o)'
    BY EventsNext
  <2>1. \A v \in Workers \ {routes[t]} : EventsOf(pushing'[v], t, 0, 0)
    BY <1>0, <1>1 DEF EventsInLine
  <2>2. PICK p \in Nat, o \in Nat :
          /\ as_of[t] \in Nat /\ p <= o /\ o <= as_of[t]
          /\ EventsOf(printed, t, 0, p) /\ EventsOf(outbox, t, p, o)
          /\ EventsOf(pushing[routes[t]], t, o, as_of[t])
    BY <1>0, <1>7, CutIs
  <2>3. as_of'[t] \in Nat /\ o <= as_of'[t] /\ EventsOf(pushing'[routes[t]], t, o, as_of'[t])
    BY <1>1, <2>2
  <2>4. CASE EventFor(x, t)
    <3>1. x # Closed /\ x \in Outputs
      BY <1>3, <2>4, CommandForms
    <3>2. /\ p + 1 <= o /\ Head(outbox).number = p + 1
          /\ EventsOf(Tail(outbox), t, p + 1, o)
      BY <1>2, <1>3, <2>2, <2>4, EventsLeave
    <3>3. x = Event(t, p + 1)
      BY <1>2, <2>4, <3>1, <3>2, OutputForms DEF EventFor
    <3>4. EventsOf(printed', t, 0, p + 1)
      <4>1. EventsOf(Append(printed, Event(t, p + 1)), t, 0, p + 1)
        <5>1. Event(t, p + 1) \in Outputs
          BY <3>1, <3>3
        <5> QED  BY <1>7, <2>2, <5>1, EventsJoin
      <4> QED  BY <1>4, <3>1, <3>3, <4>1
    <3>5. EventsOf(outbox', t, p + 1, o)
      BY <1>3, <3>2
    <3> QED  BY <2>1, <2>2, <2>3, <3>2, <3>4, <3>5, CutNext
  <2>5. CASE ~EventFor(x, t)
    <3>1. EventsOf(outbox', t, p, o)
      BY <1>2, <1>3, <2>2, <2>5, EventsStay
    <3>2. EventsOf(printed', t, 0, p)
      <4>1. CASE x = Closed
        BY <1>4, <2>2, <4>1
      <4>2. CASE x # Closed
        BY <1>3, <1>4, <1>7, <2>2, <2>5, <4>2, EventsBeside
      <4> QED  BY <4>1, <4>2
    <3> QED  BY <2>1, <2>2, <2>3, <3>1, <3>2, CutNext
  <2> QED  BY <2>4, <2>5
<1> QED  BY <1>5, <1>6, <1>8, <1>9, <1>12, <1>13 DEF AnswerParts

-----------------------------------------------------------------------------
(* main *)

\* A step of main that only changes where it is.
LEMMA MainKeeps ==
  ASSUME AnswerParts, MainSteps, UNCHANGED <<inbox, outbox>>
  PROVE  LineTyped' /\ SubmissionsNew' /\ InOnePlace' /\ EventsInLine'
<1>1. /\ LineTyped /\ SubmissionsNew /\ InOnePlace /\ EventsInLine
      /\ UNCHANGED <<next_seq, submitting, queued, as_of, pushing, returned, printed>>
  BY DEF AnswerParts, MainSteps, producerVars, workerVars
<1> QED  BY <1>1, TypedFrame, SubmissionsFrame, PlacesFrame, EventsFrame

LEMMA StartKeeps ==
  ASSUME AnswerParts, Start \/ ShutdownBegins
  PROVE  AnswerParts'
<1>0. PillsLast /\ ShutdownInOrder
  BY DEF AnswerParts
<1>1. /\ UNCHANGED <<at, inbox, outbox, submitting, pushing, returned, publisher>>
      /\ MainSteps /\ main \in {"setup", "serving"}
  BY DEF Start, ShutdownBegins, MainSteps, producerVars, workerVars
<1>2. LineTyped' /\ SubmissionsNew' /\ InOnePlace' /\ EventsInLine'
  BY <1>1, MainKeeps
<1>3. ShutdownInOrder'
  BY <1>0, <1>1 DEF ShutdownInOrder, Start, ShutdownBegins, IntakeStopped
<1>4. at = 1
  BY <1>0, <1>1 DEF ShutdownInOrder
<1>5. PillsLast'
  <2>1. \A w \in Workers : w \notin returned /\ ~Has(inbox[w], {Shutdown})
    BY <1>0, <1>1, ServingHasNoPill
  <2>2. \A w \in Workers : ~(w < at)
    BY <1>4, ExchangeServerAssumption DEF Workers
  <2>3. publisher # "returned" /\ \A i \in DOMAIN outbox : outbox[i] # Closed
    BY <1>0, <1>1 DEF PillsLast
  <2> QED  BY <1>0, <1>1, <2>1, <2>2, <2>3 DEF PillsLast, Has, Shutdown, Closed
<1> QED  BY <1>2, <1>3, <1>5 DEF AnswerParts

\* The pill goes behind all that was queued.
LEMMA StopKeeps ==
  ASSUME ClockInv, AnswerParts, StopWorker
  PROVE  AnswerParts'
<1>0. /\ LineTyped /\ SubmissionsNew /\ InOnePlace /\ EventsInLine /\ PillsLast /\ ShutdownInOrder
      /\ inbox \in [Workers -> Seq(Items \cup {Shutdown})]
  BY DEF AnswerParts, ClockInv
<1>1. /\ UNCHANGED <<next_seq, submitting, queued, as_of, pushing, returned, printed, outbox,
                     publisher, running, at>>
      /\ main = "stopping" /\ main' = "joining" /\ at \in Workers
      /\ inbox' = [inbox EXCEPT ![at] = Append(inbox[at], Shutdown)]
  BY DEF StopWorker, MainSteps, producerVars, workerVars, Push
<1>2. LineTyped' /\ SubmissionsNew' /\ EventsInLine'
  BY <1>0, <1>1, TypedFrame, SubmissionsFrame, EventsFrame
<1>3. ShutdownInOrder'
  BY <1>0, <1>1 DEF ShutdownInOrder
<1>4. /\ inbox'[at] = Append(inbox[at], Shutdown)
      /\ \A v \in Workers \ {at} : inbox'[v] = inbox[v]
      /\ inbox[at] \in Seq(Items \cup {Shutdown})
      /\ Shutdown \in Items \cup {Shutdown}
  BY <1>0, <1>1
<1>5. at \notin returned /\ ~Has(inbox[at], {Shutdown})
  <2>1. ~(at < at) /\ ~(at = at /\ main = "joining")
    BY <1>1, ExchangeServerAssumption DEF Workers
  <2> QED  BY <1>0, <1>1, <2>1 DEF PillsLast
<1>6. PillsLast'
  <2>1. \A i \in DOMAIN inbox'[at] : inbox'[at][i] = Shutdown => i = Len(inbox'[at])
    <3>0. PICK q : q = inbox[at]
      OBVIOUS
    <3>1. PICK k \in Nat : /\ DOMAIN q = 1 .. k
                           /\ DOMAIN Append(q, Shutdown) = 1 .. k + 1
                           /\ Len(Append(q, Shutdown)) = k + 1
                           /\ \A i \in 1 .. k : Append(q, Shutdown)[i] = q[i]
      <4>1. q \in Seq(Items \cup {Shutdown})
        BY <1>4, <3>0
      <4> QED  BY <1>4, <4>1, JoinedPlaces
    <3>2. \A i \in 1 .. k + 1 : i \in 1 .. k \/ i = k + 1
      OBVIOUS
    <3>3. \A i \in 1 .. k : q[i] # Shutdown
      BY <1>5, <3>0, <3>1 DEF Has
    <3> QED  BY <1>4, <3>0, <3>1, <3>2, <3>3
  <2>2. ASSUME NEW v \in Workers
        PROVE  /\ \A i \in DOMAIN inbox'[v] : inbox'[v][i] = Shutdown => i = Len(inbox'[v])
               /\ v \in returned => inbox'[v] = <<>> /\ pushing[v] = <<>>
               /\ (Has(inbox'[v], {Shutdown}) \/ v \in returned) => v < at \/ v = at
               /\ v < at => v \in returned
    <3>1. CASE v = at
      <4>1. ~(v < at)
        BY <1>1, <3>1, ExchangeServerAssumption DEF Workers
      <4> QED  BY <1>5, <2>1, <3>1, <4>1
    <3>2. CASE v # at
      BY <1>0, <1>4, <3>2 DEF PillsLast
    <3> QED  BY <3>1, <3>2
  <2>3. /\ \A i \in DOMAIN outbox : outbox[i] # Closed
        /\ publisher # "returned"
    BY <1>0, <1>1 DEF PillsLast
  <2> QED  BY <1>1, <2>2, <2>3 DEF PillsLast, Has, Shutdown, Closed
<1>7. InOnePlace'
  <2>1. \A n \in Given :
          /\ Has(inbox'[at], Commands(n)) <=> Has(inbox[at], Commands(n))
          /\ HasOnce(inbox'[at], Commands(n))
    <3> SUFFICES ASSUME NEW n \in Given
                 PROVE  /\ Has(inbox'[at], Commands(n)) <=> Has(inbox[at], Commands(n))
                        /\ HasOnce(inbox'[at], Commands(n))
      OBVIOUS
    <3>1. Gains(inbox[at], Append(inbox[at], Shutdown), Shutdown, Commands(n))
      BY <1>4, AppendGains
    <3>2. Shutdown \notin Commands(n) /\ HasOnce(inbox[at], Commands(n))
      BY <1>0, <1>1, CommandForms DEF InOnePlace, EachOnce
    <3> QED  BY <1>4, <3>1, <3>2 DEF Gains
  <2>2. Same(0, 0, 0)
    <3>1. \A n \in Given, v \in Workers :
            Has(inbox'[v], Commands(n)) <=> Has(inbox[v], Commands(n))
      BY <1>4, <2>1
    <3> QED  BY <1>1, <3>1, PlacesFollow
  <2>3. \A n \in Given, c \in Places : IsAt(c, n)' <=> IsAt(c, n)
    <3>1. \A n \in Given : n # 0
      BY ExchangeServerAssumption DEF Given
    <3> QED  BY <2>2, <3>1 DEF Same
  <2>4. ASSUME NEW n \in Given PROVE EachOnce(n)'
    <3>1. EachOnce(n)
      BY <1>0 DEF InOnePlace
    <3>2. \A v \in Workers : HasOnce(inbox'[v], Commands(n)) /\ HasOnce(pushing'[v], Answers(n))
      BY <1>1, <1>4, <2>1, <3>1 DEF EachOnce
    <3>3. HasOnce(outbox', Answers(n)) /\ HasOnce(printed', Answers(n))
      BY <1>1, <3>1 DEF EachOnce
    <3> QED  BY <3>2, <3>3, OnceNext
  <2> QED  BY <1>0, <1>1, <2>3, <2>4, NumbersStay
<1> QED  BY <1>2, <1>3, <1>6, <1>7 DEF AnswerParts

LEMMA JoinKeeps ==
  ASSUME AnswerParts, JoinWorker
  PROVE  AnswerParts'
<1>0. PillsLast /\ ShutdownInOrder
  BY DEF AnswerParts
<1>1. /\ UNCHANGED <<running, inbox, outbox, submitting, pushing, returned, publisher>>
      /\ MainSteps /\ main = "joining" /\ main' = "stopping" /\ at \in returned /\ at' = at + 1
  BY DEF JoinWorker, MainSteps, producerVars, workerVars
<1>2. LineTyped' /\ SubmissionsNew' /\ InOnePlace' /\ EventsInLine'
  BY <1>1, MainKeeps
<1>3. at \in Workers
  BY <1>0, <1>1 DEF ShutdownInOrder
<1>4. ShutdownInOrder'
  <2>1. at' \in 1 .. WorkerCount + 1
    BY <1>1, <1>3, ExchangeServerAssumption DEF Workers
  <2> QED  BY <1>0, <1>1, <2>1 DEF ShutdownInOrder
<1>5. PillsLast'
  <2>1. \A w \in Workers : (w < at \/ w = at <=> w < at')
    BY <1>1, <1>3, ExchangeServerAssumption DEF Workers
  <2>2. ASSUME NEW w \in Workers
        PROVE  /\ \A i \in DOMAIN inbox[w] : inbox[w][i] = Shutdown => i = Len(inbox[w])
               /\ w \in returned => inbox[w] = <<>> /\ pushing[w] = <<>>
               /\ (Has(inbox[w], {Shutdown}) \/ w \in returned) => w < at'
               /\ w < at' => w \in returned
    BY <1>0, <1>1, <2>1 DEF PillsLast
  <2>3. publisher # "returned" /\ \A i \in DOMAIN outbox : outbox[i] # Closed
    BY <1>0, <1>1 DEF PillsLast
  <2> QED  BY <1>1, <2>2, <2>3 DEF PillsLast, Has, Shutdown, Closed
<1> QED  BY <1>2, <1>4, <1>5 DEF AnswerParts

\* The publisher's pill goes behind all that any worker put out.
LEMMA CloseKeeps ==
  ASSUME AnswerParts, CloseOutbox
  PROVE  AnswerParts'
<1>0. /\ LineTyped /\ SubmissionsNew /\ InOnePlace /\ EventsInLine /\ PillsLast /\ ShutdownInOrder
  BY DEF AnswerParts
<1>1. /\ UNCHANGED <<next_seq, submitting, queued, as_of, pushing, returned, printed, inbox,
                     publisher, running, at>>
      /\ main = "stopping" /\ main' = "closed" /\ at \notin Workers
      /\ outbox' = Append(outbox, Closed)
  BY DEF CloseOutbox, MainSteps, producerVars, workerVars
<1>2. SubmissionsNew'
  BY <1>0, <1>1, SubmissionsFrame
<1>3. at = WorkerCount + 1
  BY <1>0, <1>1, ExchangeServerAssumption DEF ShutdownInOrder, Workers
<1>4. ShutdownInOrder'
  BY <1>0, <1>1, <1>3 DEF ShutdownInOrder
<1>5. /\ outbox \in Seq(Outputs \cup {Closed}) /\ Closed \in Outputs \cup {Closed}
      /\ as_of \in [Symbols -> Nat]
  BY <1>0 DEF LineTyped
<1>6. LineTyped'
  <2>1. outbox' \in Seq(Outputs \cup {Closed})
    BY <1>1, <1>5, AppendTyped
  <2> QED  BY <1>0, <1>1, <2>1 DEF LineTyped, Outputs, Closed
<1>7. PillsLast'
  <2>1. \A i \in DOMAIN outbox' : outbox'[i] = Closed => i = Len(outbox')
    <3>1. PICK k \in Nat : /\ DOMAIN outbox = 1 .. k /\ DOMAIN Append(outbox, Closed) = 1 .. k + 1
                           /\ Len(Append(outbox, Closed)) = k + 1
                           /\ \A i \in 1 .. k : Append(outbox, Closed)[i] = outbox[i]
      BY <1>5, JoinedPlaces
    <3>2. \A i \in 1 .. k + 1 : i \in 1 .. k \/ i = k + 1
      OBVIOUS
    <3>3. \A i \in 1 .. k : outbox[i] # Closed
      BY <1>0, <1>1, <3>1 DEF PillsLast
    <3> QED  BY <1>1, <3>1, <3>2, <3>3
  <2>2. publisher # "returned"
    BY <1>0, <1>1 DEF PillsLast
  <2> QED  BY <1>0, <1>1, <2>1, <2>2 DEF PillsLast, Has, Shutdown, Closed
<1>8. InOnePlace'
  <2>1. \A n \in Given :
          /\ Has(outbox', Answers(n)) <=> Has(outbox, Answers(n))
          /\ HasOnce(outbox', Answers(n))
    <3> SUFFICES ASSUME NEW n \in Given
                 PROVE  /\ Has(outbox', Answers(n)) <=> Has(outbox, Answers(n))
                        /\ HasOnce(outbox', Answers(n))
      OBVIOUS
    <3>1. Gains(outbox, Append(outbox, Closed), Closed, Answers(n))
      BY <1>5, AppendGains
    <3>2. Closed \notin Answers(n) /\ HasOnce(outbox, Answers(n))
      BY <1>0, CommandForms DEF InOnePlace, EachOnce
    <3> QED  BY <1>1, <3>1, <3>2 DEF Gains
  <2>2. Same(0, 0, 0)
    BY <1>1, <2>1, PlacesFollow
  <2>3. \A n \in Given, c \in Places : IsAt(c, n)' <=> IsAt(c, n)
    <3>1. \A n \in Given : n # 0
      BY ExchangeServerAssumption DEF Given
    <3> QED  BY <2>2, <3>1 DEF Same
  <2>4. ASSUME NEW n \in Given PROVE EachOnce(n)'
    <3>1. EachOnce(n)
      BY <1>0 DEF InOnePlace
    <3>2. \A v \in Workers : HasOnce(inbox'[v], Commands(n)) /\ HasOnce(pushing'[v], Answers(n))
      BY <1>1, <3>1 DEF EachOnce
    <3>3. HasOnce(outbox', Answers(n)) /\ HasOnce(printed', Answers(n))
      BY <1>1, <2>1, <3>1 DEF EachOnce
    <3> QED  BY <3>2, <3>3, OnceNext
  <2> QED  BY <1>0, <1>1, <2>3, <2>4, NumbersStay
<1>9. EventsInLine'
  <2> SUFFICES ASSUME NEW t \in Symbols
               PROVE  /\ \A v \in Workers \ {routes[t]} : EventsOf(pushing'[v], t, 0, 0)
                      /\ \E p, o \in 0 .. as_of'[t] : Cut(t, p, o)'
    BY EventsNext
  <2>1. \A v \in Workers \ {routes[t]} : EventsOf(pushing'[v], t, 0, 0)
    BY <1>0, <1>1 DEF EventsInLine
  <2>2. PICK p \in Nat, o \in Nat :
          /\ as_of[t] \in Nat /\ p <= o /\ o <= as_of[t]
          /\ EventsOf(printed, t, 0, p) /\ EventsOf(outbox, t, p, o)
          /\ EventsOf(pushing[routes[t]], t, o, as_of[t])
    BY <1>0, <1>5, CutIs
  <2>3. ~EventFor(Closed, t)
    BY CommandForms
  <2>4. EventsOf(outbox', t, p, o)
    BY <1>1, <1>5, <2>2, <2>3, EventsBeside
  <2>5. /\ as_of'[t] \in Nat /\ o <= as_of'[t] /\ EventsOf(printed', t, 0, p)
        /\ EventsOf(pushing'[routes[t]], t, o, as_of'[t])
    BY <1>1, <2>2
  <2> QED  BY <2>1, <2>2, <2>4, <2>5, CutNext
<1> QED  BY <1>2, <1>4, <1>6, <1>7, <1>8, <1>9 DEF AnswerParts

LEMMA EndKeeps ==
  ASSUME AnswerParts, JoinPublisher
  PROVE  AnswerParts'
<1>0. PillsLast /\ ShutdownInOrder
  BY DEF AnswerParts
<1>1. /\ UNCHANGED <<running, at, inbox, outbox, submitting, pushing, returned, publisher>>
      /\ MainSteps /\ main = "closed" /\ main' = "ended" /\ publisher = "returned"
  BY DEF JoinPublisher, MainSteps, producerVars, workerVars
<1>2. LineTyped' /\ SubmissionsNew' /\ InOnePlace' /\ EventsInLine'
  BY <1>1, MainKeeps
<1>3. ShutdownInOrder'
  BY <1>0, <1>1 DEF ShutdownInOrder
<1>4. PillsLast'
  BY <1>0, <1>1 DEF PillsLast, Has, Shutdown, Closed
<1> QED  BY <1>2, <1>3, <1>4 DEF AnswerParts

-----------------------------------------------------------------------------
(* Every command is answered once *)

LEMMA AnswersStep == AnswersInv /\ [Next]_vars => AnswersInv'
<1> SUFFICES ASSUME ClockInv, AnswerParts, [Next]_vars PROVE AnswerParts'
  <2>1. AnswersInv => ClockInv /\ AnswerParts
    BY DEF AnswersInv, AnswerParts
  <2>2. ClockInv /\ [Next]_vars => ClockInv'
    BY ClockStep
  <2>3. ClockInv' /\ AnswerParts' => AnswersInv'
    BY DEF AnswersInv, AnswerParts
  <2> QED  BY <2>1, <2>2, <2>3
<1>1. UNCHANGED <<next_seq, submitting, queued, inbox, as_of, pushing, returned, outbox, printed,
                  publisher, running, main, at>> => AnswerParts'
  BY TypedFrame, SubmissionsFrame, PlacesFrame, EventsFrame, PillsFrame, ShutdownFrame
     DEF AnswerParts
<1>2. CASE UNCHANGED vars
  BY <1>1, <1>2 DEF vars, producerVars, workerVars, mainVars
<1>3. CASE Tick
  BY <1>1, <1>3 DEF Tick, producerVars, workerVars, mainVars
<1>4. CASE \E p \in Producers, s \in Symbols : Sequence(p, s)
  BY <1>4, SequenceKeeps
<1>5. CASE \E p \in Producers : Submits(p)
  BY <1>5, StampKeeps, QueueKeeps DEF Submits
<1>6. CASE \E w \in Workers : Works(w)
  BY <1>6, TakesKeeps, PushesKeeps DEF Works
<1>7. CASE PublisherPops
  BY <1>7, PopsKeeps
<1>8. CASE Start \/ ShutdownBegins
  BY <1>8, StartKeeps
<1>9. CASE ShutsDown
  BY <1>9, StopKeeps, JoinKeeps, CloseKeeps, EndKeeps DEF ShutsDown
<1> QED  BY <1>2, <1>3, <1>4, <1>5, <1>6, <1>7, <1>8, <1>9 DEF Next

LEMMA InitAnswers == Init => AnswerParts
<1> SUFFICES ASSUME Init PROVE AnswerParts
  OBVIOUS
<1>1. /\ \A w \in Workers : inbox[w] = <<>> /\ pushing[w] = <<>>
      /\ outbox = <<>> /\ printed = <<>> /\ queued = {} /\ next_seq = 1
      /\ \A s \in Symbols : as_of[s] = 0
      /\ returned = {} /\ at = 1 /\ main = "setup" /\ running = FALSE /\ publisher = "running"
      /\ \A p \in Producers : submitting[p] = None
  BY DEF Init
<1>2. LineTyped
  <2>1. as_of \in [Symbols -> Nat] /\ pushing \in [Workers -> Seq(Outputs)]
    BY DEF Init
  <2> QED  BY <1>1, <2>1 DEF LineTyped
<1>3. SubmissionsNew
  BY <1>1 DEF SubmissionsNew
<1>4. InOnePlace
  <2> SUFFICES ASSUME NEW n \in Given
               PROVE  EachOnce(n) /\ \A a \in Places : ~IsAt(a, n)
    BY <1>1 DEF InOnePlace
  <2>1. EachOnce(n)
    BY <1>1, HasEmpty DEF EachOnce
  <2>2. ASSUME NEW a \in Places PROVE ~IsAt(a, n)
    <3>1. CASE \E w \in Workers : a = <<"inbox", w>> \/ a = <<"hand", w>>
      BY <1>1, <3>1, AtForms, HasEmpty
    <3>2. CASE a = <<"outbox", 0>> \/ a = <<"printed", 0>>
      BY <1>1, <3>2, AtForms, HasEmpty
    <3> QED  BY <3>1, <3>2, PlaceForms
  <2> QED  BY <2>1, <2>2
<1>5. EventsInLine
  <2> SUFFICES ASSUME NEW s \in Symbols
               PROVE  /\ \A w \in Workers \ {routes[s]} : EventsOf(pushing[w], s, 0, 0)
                      /\ \E p, o \in 0 .. as_of[s] : Cut(s, p, o)
    BY DEF EventsInLine
  <2>1. EventsOf(<<>>, s, 0, 0)
    BY EventsEmpty
  <2>2. routes[s] \in Workers
    BY ExchangeServerAssumption
  <2>3. Cut(s, 0, 0)
    BY <1>1, <2>1, <2>2 DEF Cut
  <2>4. 0 \in 0 .. as_of[s]
    BY <1>1
  <2> QED  BY <1>1, <2>1, <2>3, <2>4
<1>6. PillsLast
  <2>1. \A w \in Workers : ~(w < 1) /\ DOMAIN inbox[w] = {}
    BY <1>1, ExchangeServerAssumption DEF Workers
  <2> QED  BY <1>1, <2>1 DEF PillsLast, Has
<1>7. ShutdownInOrder
  BY <1>1, ExchangeServerAssumption DEF ShutdownInOrder
<1> QED  BY <1>2, <1>3, <1>4, <1>5, <1>6, <1>7 DEF AnswerParts

\* A number that was queued is in one place, events follow each other, and nothing
\* stands behind a pill, in every state (submit, Worker::run, the publisher's loop
\* and ShutdownInOrder).
THEOREM AnswersInvariant == Spec => []AnswersInv
<1>1. ClockInv /\ AnswerParts => AnswersInv
  BY DEF AnswersInv, AnswerParts
<1>2. Init => AnswerParts
  BY InitAnswers
<1>3. AnswersInv /\ [Next]_vars => AnswersInv'
  BY AnswersStep
<1>4. Init /\ ClockInv => AnswersInv
  BY <1>1, <1>2
<1> QED  BY <1>3, <1>4, ClockInvariant, PTL DEF Spec

\* Once main is at its end all queues are empty.
LEMMA EndIsEmpty ==
  ASSUME PillsLast, ShutdownInOrder, main = "ended"
  PROVE  outbox = <<>> /\ \A w \in Workers : inbox[w] = <<>> /\ pushing[w] = <<>>
<1>1. publisher = "returned" /\ at = WorkerCount + 1
  BY DEF ShutdownInOrder
<1>2. \A w \in Workers : w < at
  BY <1>1, ExchangeServerAssumption DEF Workers
<1> QED  BY <1>1, <1>2 DEF PillsLast

LEMMA AnswersFollow == AnswersInv => AnsweredOnce
<1> SUFFICES ASSUME AnswersInv PROVE AnsweredOnce
  OBVIOUS
<1>0. LineTyped /\ InOnePlace /\ EventsInLine /\ PillsLast /\ ShutdownInOrder
  BY DEF AnswersInv
<1>1. /\ as_of \in [Symbols -> Nat] /\ queued \subseteq Given
      /\ \A i \in DOMAIN printed : printed[i] \in Outputs
  BY <1>0, ElementOfSeq DEF LineTyped
<1>2. ASSUME NEW i \in Replies
      PROVE  /\ i \in DOMAIN printed /\ printed[i].number \in Given
             /\ \A n : printed[i] \in Answers(n) <=> printed[i].number = n
  <2>1. i \in DOMAIN printed /\ printed[i].kind = "reply" /\ printed[i] \in Outputs
    BY <1>1 DEF Replies
  <2> QED  BY <2>1, OutputForms
<1>3. \A i, j \in Replies : printed[i].number = printed[j].number => i = j
  <2> SUFFICES ASSUME NEW i \in Replies, NEW j \in Replies, printed[i].number = printed[j].number
               PROVE  i = j
    OBVIOUS
  <2>1. PICK n \in Given : n = printed[i].number
    BY <1>2
  <2>2. HasOnce(printed, Answers(n))
    BY <1>0 DEF InOnePlace, EachOnce
  <2>3. /\ i \in DOMAIN printed /\ printed[i] \in Answers(n)
        /\ j \in DOMAIN printed /\ printed[j] \in Answers(n)
    BY <1>2, <2>1
  <2> QED  BY <2>2, <2>3 DEF HasOnce
<1>4. RepliedTo \subseteq queued
  <2> SUFFICES ASSUME NEW i \in Replies PROVE printed[i].number \in queued
    BY DEF RepliedTo
  <2>1. PICK n \in Given : n = printed[i].number
    BY <1>2
  <2>2. Has(printed, Answers(n))
    BY <1>2, <2>1 DEF Has
  <2> QED  BY <1>0, <2>1, <2>2, PlacesApart
<1>5. ASSUME NEW s \in Symbols
      PROVE  \E n \in 0 .. as_of[s] : EventsOf(printed, s, 0, n)
  BY <1>0 DEF EventsInLine, Cut
<1>6. ASSUME main = "ended" PROVE queued \subseteq RepliedTo
  <2> SUFFICES ASSUME NEW n \in queued PROVE n \in RepliedTo
    OBVIOUS
  <2>1. n \in Given
    BY <1>1
  <2>2. outbox = <<>> /\ \A w \in Workers : inbox[w] = <<>> /\ pushing[w] = <<>>
    BY <1>0, <1>6, EndIsEmpty
  <2>3. Has(printed, Answers(n))
    BY <1>0, <2>1, <2>2, PlacesApart, HasEmpty
  <2>4. PICK i \in DOMAIN printed : printed[i] \in Answers(n)
    BY <2>3 DEF Has
  <2>5. printed[i].kind = "reply" /\ printed[i].number = n
    BY <1>1, <2>4, OutputForms
  <2> QED  BY <2>5 DEF RepliedTo, Replies
<1>7. ASSUME main = "ended", NEW s \in Symbols PROVE EventsOf(printed, s, 0, as_of[s])
  <2>1. PICK p \in Nat, o \in Nat :
          /\ as_of[s] \in Nat /\ p <= o /\ o <= as_of[s]
          /\ EventsOf(printed, s, 0, p) /\ EventsOf(outbox, s, p, o)
          /\ EventsOf(pushing[routes[s]], s, o, as_of[s])
    BY <1>0, <1>1, CutIs
  <2>2. outbox = <<>> /\ pushing[routes[s]] = <<>>
    BY <1>0, <1>7, EndIsEmpty, ExchangeServerAssumption
  <2>3. EventsOf(<<>>, s, p, o) /\ EventsOf(<<>>, s, o, as_of[s])
    BY <2>1, <2>2
  <2>4. p = o /\ o = as_of[s]
    BY <2>1, <2>3, EventsEmpty
  <2> QED  BY <2>1, <2>4
<1> QED  BY <1>3, <1>4, <1>5, <1>6, <1>7 DEF AnsweredOnce

\* Every command that was queued is answered once, and its events are printed in
\* order; at the end of the server none is missing (ShutdownInOrder).
THEOREM EveryCommandAnsweredOnce == Spec => []AnsweredOnce
<1>1. AnswersInv => AnsweredOnce
  BY AnswersFollow
<1> QED  BY <1>1, AnswersInvariant, PTL

=============================================================================
