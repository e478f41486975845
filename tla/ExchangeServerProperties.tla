----------------------- MODULE ExchangeServerProperties -----------------------
(* What the console server promises. *)
EXTENDS ExchangeServer

EventFor(x, s) == x.kind = "event" /\ x.symbol = s

\* Of the events of s, q has those after first up to last, in order, each once.
EventsOf(q, s, first, last) ==
  /\ \A n \in first + 1 .. last : \E i \in DOMAIN q : q[i] = Event(s, n)
  /\ \A i \in DOMAIN q : EventFor(q[i], s) =>
       /\ q[i].number \in first + 1 .. last
       /\ \A j \in DOMAIN q : j > i /\ EventFor(q[j], s) => q[j].number > q[i].number

Replies == {i \in DOMAIN printed : printed[i].kind = "reply"}

RepliedTo == {printed[i].number : i \in Replies}

\* No command is answered twice and none that was not queued; the events of each
\* symbol are printed without a gap; and once main is at its end every queued
\* command has its reply and every event is printed (submit, run, and the
\* destructor of ShutdownInOrder).
AnsweredOnce ==
  /\ \A i, j \in Replies : printed[i].number = printed[j].number => i = j
  /\ RepliedTo \subseteq queued
  /\ \A s \in Symbols : \E n \in 0 .. as_of[s] : EventsOf(printed, s, 0, n)
  /\ main = "ended" =>
       /\ queued = RepliedTo
       /\ \A s \in Symbols : EventsOf(printed, s, 0, as_of[s])

\* Producers may take numbers and times in one order and queue in another, but a
\* book never gets an earlier time than before (the max in run), which is what
\* Book takes for granted: a halt that is over stays over.
ClockNeverBack == [][\A s \in Symbols : book_ts'[s] >= book_ts[s]]_vars

\* The numbers a router gives.
Given == 1 .. MaxRequests

\* What submit makes, from its number to the queue of the symbol's worker.
Items == [seq : Given, symbol : Symbols, ts : Nat]

\* Why the clock holds: every command is in the inbox of its symbol's worker, so
\* that no book was ever called at a time its worker has not reached.
ClockInv ==
  /\ clock \in Nat
  /\ next_seq \in Nat \ {0}
  /\ submitting \in [Producers -> [seq : Given, symbol : Symbols, ts : Nat \cup {-1}] \cup {None}]
  /\ inbox \in [Workers -> Seq(Items \cup {Shutdown})]
  /\ \A w \in Workers : \A i \in DOMAIN inbox[w] :
       inbox[w][i] # Shutdown => routes[inbox[w][i].symbol] = w
  /\ last_ts \in [Workers -> Nat]
  /\ book_ts \in [Symbols -> Nat]
  /\ \A s \in Symbols : book_ts[s] <= last_ts[routes[s]]

Outputs ==
  [kind : {"event"}, symbol : Symbols, number : Nat]
    \cup [kind : {"reply"}, symbol : Symbols, number : Given]

\* The queues hold what their names say, and only numbers given are queued.
LineTyped ==
  /\ queued \subseteq Given \cap 1 .. next_seq - 1
  /\ as_of \in [Symbols -> Nat]
  /\ pushing \in [Workers -> Seq(Outputs)]
  /\ outbox \in Seq(Outputs \cup {Closed})
  /\ printed \in Seq(Outputs)

\* Producers have numbers of their own, which no queue has seen.
SubmissionsNew ==
  \A p \in Producers : submitting[p] # None =>
    /\ submitting[p].seq < next_seq
    /\ submitting[p].seq \notin queued
    /\ \A r \in Producers \ {p} : submitting[r] # None => submitting[r].seq # submitting[p].seq

\* The commands with this number, and the replies to them.
Commands(n) == [seq : {n}, symbol : Symbols, ts : Nat]

Answers(n) == {Reply(s, n) : s \in Symbols}

Has(q, items) == \E i \in DOMAIN q : q[i] \in items

HasOnce(q, items) == \A i, j \in DOMAIN q : q[i] \in items /\ q[j] \in items => i = j

\* Where a number can be between submit and the console.
Places == ({"inbox", "hand"} \X Workers) \cup ({"outbox", "printed"} \X {0})

IsAt(place, n) ==
  CASE place[1] = "inbox" -> Has(inbox[place[2]], Commands(n))
    [] place[1] = "hand" -> Has(pushing[place[2]], Answers(n))
    [] place[1] = "outbox" -> Has(outbox, Answers(n))
    [] place[1] = "printed" -> Has(printed, Answers(n))

\* No queue has the number twice.
EachOnce(n) ==
  /\ \A w \in Workers : HasOnce(inbox[w], Commands(n)) /\ HasOnce(pushing[w], Answers(n))
  /\ HasOnce(outbox, Answers(n)) /\ HasOnce(printed, Answers(n))

\* A number that was queued is in one place, and there once.
InOnePlace ==
  \A n \in Given :
    /\ n \in queued <=> \E a \in Places : IsAt(a, n)
    /\ \A a, b \in Places : IsAt(a, n) /\ IsAt(b, n) => a = b
    /\ EachOnce(n)

\* The events of a symbol are cut in three: up to p they are printed, up to o in the
\* outbox, and the others in the hand of its worker.
Cut(s, p, o) ==
  /\ p <= o /\ o <= as_of[s]
  /\ EventsOf(printed, s, 0, p)
  /\ EventsOf(outbox, s, p, o)
  /\ EventsOf(pushing[routes[s]], s, o, as_of[s])

EventsInLine ==
  \A s \in Symbols :
    /\ \A w \in Workers \ {routes[s]} : EventsOf(pushing[w], s, 0, 0)
    /\ \E p, o \in 0 .. as_of[s] : Cut(s, p, o)

\* A pill is the last item of its queue, and a worker that took it is empty-handed.
PillsLast ==
  /\ \A w \in Workers :
       /\ \A i \in DOMAIN inbox[w] : inbox[w][i] = Shutdown => i = Len(inbox[w])
       /\ w \in returned => inbox[w] = <<>> /\ pushing[w] = <<>>
       /\ (Has(inbox[w], {Shutdown}) \/ w \in returned) =>
            w < at \/ (w = at /\ main = "joining")
       /\ w < at => w \in returned
  /\ \A i \in DOMAIN outbox : outbox[i] = Closed =>
       i = Len(outbox) /\ main \in {"closed", "ended"}
  /\ publisher = "returned" => outbox = <<>> /\ main \in {"closed", "ended"}

\* How far the shutdown is.
ShutdownInOrder ==
  /\ at \in 1 .. WorkerCount + 1
  /\ running <=> main = "serving"
  /\ main # "serving" => \A p \in Producers : submitting[p] = None
  /\ main \in {"setup", "serving"} => at = 1
  /\ main = "joining" => at \in Workers
  /\ main \in {"closed", "ended"} => at = WorkerCount + 1
  /\ main = "ended" => publisher = "returned"

\* Why every command is answered once: its number moves from place to place and is
\* nowhere twice, events follow each other, and nothing stands behind a pill.
AnswersInv ==
  /\ ClockInv
  /\ LineTyped
  /\ SubmissionsNew
  /\ InOnePlace
  /\ EventsInLine
  /\ PillsLast
  /\ ShutdownInOrder

\* A shutdown comes to its end, and a queued command is answered: nobody waits
\* for a queue that nobody fills (stop, pop, ShutdownInOrder).
ServerEnds ==
  /\ main = "stopping" ~> main = "ended"
  /\ \A seq \in 1 .. MaxRequests : seq \in queued ~> seq \in RepliedTo

=============================================================================
