---------------------------- MODULE ExchangeServer ----------------------------
(***************************************************************************)
(* The console server, thread by thread: producers, which submit commands  *)
(* to the router (main.cpp has one, the router's interface and its tests   *)
(* several); the workers; the publisher's thread, which prints what comes  *)
(* out of the outbox; and main, which shuts them down in order.            *)
(*                                                                         *)
(* A step is what a thread does at once: one access to an atomic, to the   *)
(* clock or to a queue.  A submit that is refused changes nothing, so it    *)
(* is no step.  What a book makes of a command is some events and a reply. *)
(***************************************************************************)
EXTENDS Integers, Sequences, FiniteSets

CONSTANTS
  Producers,      \* the threads that submit
  WorkerCount,    \* instruments.partitions
  Symbols,        \* the symbols that have a route
  routes,         \* routes_: symbol -> worker
  None,
  MaxRequests,    \* bound: commands submitted
  MaxTime,        \* bound: what the clock shows
  MaxEvents       \* bound: events of one command

Workers == 1 .. WorkerCount

ASSUME ExchangeServerAssumption ==
  /\ WorkerCount \in Nat \ {0}
  /\ None \notin Symbols
  /\ routes \in [Symbols -> Workers]
  /\ MaxRequests \in Nat
  /\ MaxTime \in Nat
  /\ MaxEvents \in Nat
  /\ None \notin [seq : Nat, symbol : Symbols, ts : Nat \cup {-1}]

VARIABLES
  clock,        \* what clock_() would return
  next_seq,     \* next_seq_
  running,      \* running_
  submitting,   \* what each producer is submitting: a Stamped without its
                \* time (-1) or with it; None between two calls
  queued,       \* the sequence numbers for which submit returned Queued
  inbox,        \* inbox_ of each worker
  last_ts,      \* last_ts_ of each worker
  book_ts,      \* the time of the last call of each book
  as_of,        \* the sequence number of the last event of each book
  pushing,      \* what a worker has still to put in the outbox
  returned,     \* workers whose run() has returned
  outbox,       \* outbox_
  printed,      \* what the publisher has printed
  publisher,    \* its thread runs, or has returned
  main,         \* where main is
  at            \* the worker that shutdown is at

producerVars == <<next_seq, submitting, queued>>
workerVars == <<last_ts, book_ts, as_of, pushing, returned>>
mainVars == <<running, main, at>>
vars == <<clock, producerVars, inbox, workerVars, outbox, printed, publisher, mainVars>>

Shutdown == [seq |-> 0, symbol |-> None, ts |-> 0]

Closed == [kind |-> "closed", symbol |-> None, number |-> 0]

Event(s, n) == [kind |-> "event", symbol |-> s, number |-> n]

Reply(s, seq) == [kind |-> "reply", symbol |-> s, number |-> seq]

Init ==
  /\ clock = 0
  /\ next_seq = 1
  /\ running = FALSE
  /\ submitting = [p \in Producers |-> None]
  /\ queued = {}
  /\ inbox = [w \in Workers |-> <<>>]
  /\ last_ts = [w \in Workers |-> 0]
  /\ book_ts = [s \in Symbols |-> 0]
  /\ as_of = [s \in Symbols |-> 0]
  /\ pushing = [w \in Workers |-> <<>>]
  /\ returned = {}
  /\ outbox = <<>>
  /\ printed = <<>>
  /\ publisher = "running"
  /\ main = "setup"
  /\ at = 1

-----------------------------------------------------------------------------
(* Producers: Router::submit *)

Tick ==
  /\ clock < MaxTime
  /\ clock' = clock + 1
  /\ UNCHANGED <<producerVars, inbox, workerVars, outbox, printed, publisher, mainVars>>

\* The router runs and knows the symbol; the command gets its number.
Sequence(p, s) ==
  /\ running
  /\ submitting[p] = None
  /\ next_seq <= MaxRequests
  /\ submitting' = [submitting EXCEPT ![p] = [seq |-> next_seq, symbol |-> s, ts |-> -1]]
  /\ next_seq' = next_seq + 1
  /\ UNCHANGED <<clock, queued, inbox, workerVars, outbox, printed, publisher, mainVars>>

Stamp(p) ==
  /\ submitting[p] # None
  /\ submitting[p].ts = -1
  /\ submitting' = [submitting EXCEPT ![p].ts = clock]
  /\ UNCHANGED <<clock, next_seq, queued, inbox, workerVars, outbox, printed, publisher, mainVars>>

Push(w, item) == inbox' = [inbox EXCEPT ![w] = Append(@, item)]

Queue(p) ==
  /\ submitting[p] # None
  /\ submitting[p].ts # -1
  /\ Push(routes[submitting[p].symbol], submitting[p])
  /\ queued' = queued \cup {submitting[p].seq}
  /\ submitting' = [submitting EXCEPT ![p] = None]
  /\ UNCHANGED <<clock, next_seq, workerVars, outbox, printed, publisher, mainVars>>

-----------------------------------------------------------------------------
(* Workers: Worker::run *)

\* Fault: the book gets the time of the item.
CallTime_OfItem(w, item) == item.ts

\* The worker's time does not go back, whatever the item's is.
CallTime(w, item) == IF item.ts > last_ts[w] THEN item.ts ELSE last_ts[w]

\* A command: the book makes n events of it, and the reply comes last.
Runs(w, item, n) ==
  LET s == item.symbol IN
  /\ last_ts' = [last_ts EXCEPT ![w] = CallTime(w, item)]
  /\ book_ts' = [book_ts EXCEPT ![s] = CallTime(w, item)]
  /\ as_of' = [as_of EXCEPT ![s] = @ + n]
  /\ pushing' = [pushing EXCEPT ![w] =
       [i \in 1 .. n |-> Event(s, as_of[s] + i)] \o <<Reply(s, item.seq)>>]
  /\ UNCHANGED returned

WorkerTakes(w) ==
  /\ w \notin returned
  /\ pushing[w] = <<>>
  /\ inbox[w] # <<>>
  /\ inbox' = [inbox EXCEPT ![w] = Tail(@)]
  /\ IF Head(inbox[w]) = Shutdown
     THEN returned' = returned \cup {w} /\ UNCHANGED <<last_ts, book_ts, as_of, pushing>>
     ELSE \E n \in 0 .. MaxEvents : Runs(w, Head(inbox[w]), n)
  /\ UNCHANGED <<clock, producerVars, outbox, printed, publisher, mainVars>>

\* publish and reply put the outputs in the outbox one by one.
WorkerPushes(w) ==
  /\ pushing[w] # <<>>
  /\ outbox' = Append(outbox, Head(pushing[w]))
  /\ pushing' = [pushing EXCEPT ![w] = Tail(@)]
  /\ UNCHANGED <<clock, producerVars, inbox, last_ts, book_ts, as_of, returned, printed, publisher,
                 mainVars>>

-----------------------------------------------------------------------------
(* The publisher's thread *)

PublisherPops ==
  /\ publisher = "running"
  /\ outbox # <<>>
  /\ outbox' = Tail(outbox)
  /\ IF Head(outbox) = Closed
     THEN publisher' = "returned" /\ UNCHANGED printed
     ELSE printed' = Append(printed, Head(outbox)) /\ UNCHANGED publisher
  /\ UNCHANGED <<clock, producerVars, inbox, workerVars, mainVars>>

-----------------------------------------------------------------------------
(* main: start, and ShutdownInOrder *)

MainSteps ==
  UNCHANGED <<clock, producerVars, workerVars, printed, publisher>>

Start ==
  /\ main = "setup"
  /\ main' = "serving"
  /\ running' = TRUE
  /\ UNCHANGED <<at, inbox, outbox>>
  /\ MainSteps

\* Fault: a producer may be in the middle of a submit.
IntakeStopped_Assumed == TRUE

\* Whoever shuts the router down has its producers stop first.
IntakeStopped == \A p \in Producers : submitting[p] = None

ShutdownBegins ==
  /\ main = "serving"
  /\ IntakeStopped
  /\ running' = FALSE
  /\ main' = "stopping"
  /\ UNCHANGED <<at, inbox, outbox>>
  /\ MainSteps

\* Worker::stop of one worker after the other: the pill, then the join.
StopWorker ==
  /\ main = "stopping"
  /\ at \in Workers
  /\ main' = "joining"
  /\ Push(at, Shutdown)
  /\ UNCHANGED <<running, at, outbox>>
  /\ MainSteps

JoinWorker ==
  /\ main = "joining"
  /\ at \in returned
  /\ main' = "stopping"
  /\ at' = at + 1
  /\ UNCHANGED <<running, inbox, outbox>>
  /\ MainSteps

\* Fault: the publisher gets no pill.
CloseOutbox_Forgotten ==
  /\ main = "stopping"
  /\ at \notin Workers
  /\ main' = "closed"
  /\ UNCHANGED <<running, at, inbox, outbox>>
  /\ MainSteps

\* The publisher's pill goes in last.
CloseOutbox ==
  /\ main = "stopping"
  /\ at \notin Workers
  /\ main' = "closed"
  /\ outbox' = Append(outbox, Closed)
  /\ UNCHANGED <<running, at, inbox>>
  /\ MainSteps

JoinPublisher ==
  /\ main = "closed"
  /\ publisher = "returned"
  /\ main' = "ended"
  /\ UNCHANGED <<running, at, inbox, outbox>>
  /\ MainSteps

-----------------------------------------------------------------------------

Submits(p) == Stamp(p) \/ Queue(p)

Works(w) == WorkerTakes(w) \/ WorkerPushes(w)

ShutsDown == StopWorker \/ JoinWorker \/ CloseOutbox \/ JoinPublisher

Next ==
  \/ Tick
  \/ \E p \in Producers, s \in Symbols : Sequence(p, s)
  \/ \E p \in Producers : Submits(p)
  \/ \E w \in Workers : Works(w)
  \/ PublisherPops
  \/ Start
  \/ ShutdownBegins
  \/ ShutsDown

Spec == Init /\ [][Next]_vars

\* Threads run; whether anybody quits is left open.
FairSpec ==
  /\ Spec
  /\ \A p \in Producers : WF_vars(Submits(p))
  /\ \A w \in Workers : WF_vars(Works(w))
  /\ WF_vars(PublisherPops)
  /\ WF_vars(ShutsDown)

=============================================================================
