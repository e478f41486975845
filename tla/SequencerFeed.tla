---------------------------- MODULE SequencerFeed ----------------------------
(***************************************************************************)
(* The input side of an engine node, for one partition: the feed's thread, *)
(* which subscribes to the sequencer again and again and hands what it     *)
(* reads to the partition's worker, and main, which starts the feed, waits  *)
(* for a signal and stops the feed and then the worker.                    *)
(*                                                                         *)
(* The sequencer is another program.  It numbers the partition's commands, *)
(* has one seat for their subscriber, and may refuse, break off, restart   *)
(* without its past or send a wrong number.                                *)
(***************************************************************************)
EXTENDS Integers, Sequences

CONSTANTS
  FromSeq,       \* options.from_seq
  MaxRetries,    \* options.max_already_exists_retries
  MaxLog,        \* bound: commands of the partition
  MaxFaults      \* bound: streams broken, calls failed, numbers mistaken, restarts

ASSUME SequencerFeedAssumption ==
  /\ FromSeq \in Nat \ {0}
  /\ MaxRetries \in Nat
  /\ MaxLog \in Nat
  /\ MaxFaults \in Nat

VARIABLES
  (* the sequencer *)
  log,         \* the kinds of the partition's commands, in order
  first,       \* the first command it can still serve
  configured,  \* it knows the partition
  seat,        \* who holds the subscriber's seat: nobody, our stream, our
               \* last stream though it is gone, or a rival
  sending,     \* the number our open stream sends next
  mistaken,    \* it has got that number wrong
  refusals,    \* how many of its last answers were ALREADY_EXISTS, in a row
  faults,      \* how many faults there have been
  (* the feed *)
  feed,                    \* where its thread is
  last,                    \* last: the last command dealt with
  already_exists_retries,
  status,                  \* what Finish returns
  failure_reason,          \* failure_reason; "None" while not failed
  stopping,
  current_context,         \* whether a context is registered
  cancelled,               \* whether the context was cancelled
  (* the worker and main *)
  inbox,       \* the commands given to the worker
  stopped,     \* the worker was sent Shutdown
  signal,      \* a SIGTERM is pending
  main         \* where main is

sequencerVars == <<log, first, configured, seat, sending, mistaken, refusals, faults>>
feedVars == <<feed, last, already_exists_retries, status, failure_reason, stopping,
              current_context, cancelled>>
mainVars == <<inbox, stopped, signal, main>>
vars == <<sequencerVars, feedVars, mainVars>>

\* A command decodes, does not decode, or is for a symbol of another worker.
Kinds == {"good", "junk", "foreign"}

failed == failure_reason # "None"

\* The commands before from_seq are taken for granted.
Init ==
  /\ log = [n \in 1 .. FromSeq - 1 |-> "good"]
  /\ first = 1
  /\ configured \in BOOLEAN
  /\ seat = "free"
  /\ sending = 0
  /\ mistaken = FALSE
  /\ refusals = 0
  /\ faults = 0
  /\ feed = "none"
  /\ last = FromSeq - 1
  /\ already_exists_retries = 0
  /\ status = "None"
  /\ failure_reason = "None"
  /\ stopping = FALSE
  /\ current_context = FALSE
  /\ cancelled = FALSE
  /\ inbox = <<>>
  /\ stopped = FALSE
  /\ signal = FALSE
  /\ main = "setup"

-----------------------------------------------------------------------------
(* The sequencer *)

Order(kind) ==
  /\ Len(log) < MaxLog
  /\ log' = Append(log, kind)
  /\ UNCHANGED <<first, configured, seat, sending, mistaken, refusals, faults, feedVars, mainVars>>

\* It has noticed that our last stream is gone.
SeatReleased ==
  /\ seat = "stale"
  /\ seat' = "free"
  /\ UNCHANGED <<log, first, configured, sending, mistaken, refusals, faults, feedVars, mainVars>>

RivalComes ==
  /\ seat = "free"
  /\ seat' = "rival"
  /\ UNCHANGED <<log, first, configured, sending, mistaken, refusals, faults, feedVars, mainVars>>

RivalLeaves ==
  /\ seat = "rival"
  /\ seat' = "free"
  /\ UNCHANGED <<log, first, configured, sending, mistaken, refusals, faults, feedVars, mainVars>>

Fault ==
  /\ faults < MaxFaults
  /\ faults' = faults + 1

\* It leaves a command out, or sends one again.
Misnumbers ==
  /\ Fault
  /\ feed = "reading"
  /\ sending' \in {sending - 1, sending + 1} \cap (1 .. Len(log))
  /\ mistaken' = TRUE
  /\ UNCHANGED <<log, first, configured, seat, refusals, feedVars, mainVars>>

\* It forgets the commands so far, and who was subscribed.
Restarts ==
  /\ Fault
  /\ first' = Len(log) + 1
  /\ seat' = "free"
  /\ IF feed = "reading"
     THEN status' = "UNAVAILABLE" /\ feed' = "ended"
     ELSE UNCHANGED <<status, feed>>
  /\ UNCHANGED <<log, configured, sending, mistaken, refusals, last,
                 already_exists_retries, failure_reason, stopping, current_context, cancelled,
                 mainVars>>

-----------------------------------------------------------------------------
(* The feed's thread *)

\* The head of the loop: stop, or register a new context.
Register ==
  /\ feed = "loop"
  /\ IF stopping \/ failed
     THEN feed' = "done" /\ UNCHANGED <<current_context, cancelled>>
     ELSE feed' = "calling" /\ current_context' = TRUE /\ cancelled' = FALSE
  /\ UNCHANGED <<sequencerVars, last, already_exists_retries, status, failure_reason, stopping,
                 mainVars>>

\* Subscribe from last + 1, accepted.
Accepted ==
  /\ feed = "calling"
  /\ configured
  /\ seat = "free"
  /\ first <= last + 1
  /\ feed' = "reading"
  /\ seat' = "ours"
  /\ sending' = last + 1
  /\ mistaken' = FALSE
  /\ refusals' = 0
  /\ UNCHANGED <<log, first, configured, faults, last, already_exists_retries, status,
                 failure_reason, stopping, current_context, cancelled, mainVars>>

\* Why the sequencer refuses a call.  NOT_FOUND stands for INVALID_ARGUMENT too: the
\* feed does not tell them apart.
Refusal ==
  IF ~configured THEN "NOT_FOUND"
  ELSE IF seat # "free" THEN "ALREADY_EXISTS"
  ELSE IF first > last + 1 THEN "OUT_OF_RANGE"
  ELSE "None"

Refused ==
  /\ feed = "calling"
  /\ Refusal # "None"
  /\ status' = Refusal
  /\ refusals' = IF Refusal = "ALREADY_EXISTS" THEN refusals + 1 ELSE 0
  /\ feed' = "ended"
  /\ UNCHANGED <<log, first, configured, seat, sending, mistaken, faults, last,
                 already_exists_retries, failure_reason, stopping, current_context, cancelled, mainVars>>

\* The call fails, or the open stream breaks; the sequencer may not know yet.
Breaks ==
  /\ Fault
  /\ feed \in {"calling", "reading"}
  /\ status' = "UNAVAILABLE"
  /\ refusals' = 0
  /\ seat' = IF seat = "ours" THEN "stale" ELSE seat
  /\ feed' = "ended"
  /\ UNCHANGED <<log, first, configured, sending, mistaken, last, already_exists_retries, failure_reason,
                 stopping, current_context, cancelled, mainVars>>

\* A cancelled context ends its call.
CancelledEnds ==
  /\ cancelled
  /\ feed \in {"calling", "reading"}
  /\ status' = "CANCELLED"
  /\ seat' = IF seat = "ours" THEN "stale" ELSE seat
  /\ feed' = "ended"
  /\ UNCHANGED <<log, first, configured, sending, mistaken, refusals, faults, last,
                 already_exists_retries, failure_reason, stopping, current_context, cancelled,
                 mainVars>>

\* fail: on_fatal comes next, on this thread.
Fails(reason) ==
  /\ failure_reason' = reason
  /\ feed' = "fatal"

\* Read returns the next command.
Arrives(kind) ==
  /\ feed = "reading"
  /\ sending <= Len(log)
  /\ log[sending] = kind
  /\ sending' = sending + 1

IsExpected == sending = last + 1

ReadGap ==
  /\ \E kind \in Kinds : Arrives(kind)
  /\ ~IsExpected
  /\ Fails("gap")
  /\ UNCHANGED <<log, first, configured, seat, mistaken, refusals, faults, last,
                 already_exists_retries, status, stopping, current_context, cancelled, mainVars>>

ReadForeign ==
  /\ Arrives("foreign")
  /\ IsExpected
  /\ Fails("not_owned")
  /\ UNCHANGED <<log, first, configured, seat, mistaken, refusals, faults, last,
                 already_exists_retries, status, stopping, current_context, cancelled, mainVars>>

\* The command is dealt with.
Counts(kind) ==
  /\ last' = sending
  /\ already_exists_retries' = 0

\* A body that does not decode is skipped.
ReadJunk ==
  /\ Arrives("junk")
  /\ IsExpected
  /\ Counts("junk")
  /\ UNCHANGED <<log, first, configured, seat, mistaken, refusals, faults, feed, status, failure_reason,
                 stopping, current_context, cancelled, mainVars>>

ReadGood ==
  /\ Arrives("good")
  /\ IsExpected
  /\ inbox' = Append(inbox, sending)
  /\ Counts("good")
  /\ UNCHANGED <<log, first, configured, seat, mistaken, refusals, faults, feed, status, failure_reason,
                 stopping, current_context, cancelled, stopped, signal, main>>

\* stop, up to the join: the context that is registered is cancelled.
RequestStop ==
  /\ stopping' = TRUE
  /\ cancelled' = (cancelled \/ current_context)

\* Fault: on_fatal's stop joins the thread it runs on.
OnFatalStops_Joins ==
  /\ feed = "fatal"
  /\ RequestStop
  /\ feed' = "joining_itself"
  /\ UNCHANGED <<sequencerVars, last, already_exists_retries, status, failure_reason,
                 current_context, mainVars>>

\* on_fatal may call stop, which on this thread only asks.
OnFatalStops ==
  /\ feed = "fatal"
  /\ RequestStop
  /\ feed' = "hanging_up"
  /\ UNCHANGED <<sequencerVars, last, already_exists_retries, status, failure_reason,
                 current_context, mainVars>>

\* The on_fatal of engine_node.
OnFatalKills ==
  /\ feed = "fatal"
  /\ signal' = TRUE
  /\ feed' = "hanging_up"
  /\ UNCHANGED <<sequencerVars, last, already_exists_retries, status, failure_reason, stopping,
                 current_context, cancelled, inbox, stopped, main>>

\* After a failure: cancel what is open, and return.
HangsUp ==
  /\ feed = "hanging_up"
  /\ feed' = "done"
  /\ seat' = IF seat = "ours" THEN "stale" ELSE seat
  /\ current_context' = FALSE
  /\ UNCHANGED <<log, first, configured, sending, mistaken, refusals, faults, last,
                 already_exists_retries, status, failure_reason, stopping, cancelled, mainVars>>

\* Finish has returned; the context is cleared, and then the status judged.
Ended ==
  /\ feed = "ended"
  /\ current_context' = FALSE
  /\ UNCHANGED <<sequencerVars, last, status, stopping, cancelled, mainVars>>

EndedByStop ==
  /\ Ended
  /\ stopping
  /\ feed' = "done"
  /\ UNCHANGED <<already_exists_retries, failure_reason>>

EndedForGood ==
  /\ Ended
  /\ ~stopping
  /\ \/ status = "OUT_OF_RANGE" /\ Fails("cannot_serve")
     \/ status = "NOT_FOUND" /\ Fails("configuration")
  /\ UNCHANGED already_exists_retries

\* Usually our last stream still has the seat.
EndedTaken ==
  /\ Ended
  /\ ~stopping
  /\ status = "ALREADY_EXISTS"
  /\ already_exists_retries' = already_exists_retries + 1
  /\ IF already_exists_retries' > MaxRetries
     THEN Fails("another_subscriber")
     ELSE feed' = "waiting" /\ UNCHANGED failure_reason

\* Fault: the refusals before are not forgotten.
EndedOtherwise_Counting ==
  /\ Ended
  /\ ~stopping
  /\ status \notin {"OUT_OF_RANGE", "NOT_FOUND", "ALREADY_EXISTS"}
  /\ feed' = "waiting"
  /\ UNCHANGED <<already_exists_retries, failure_reason>>

EndedOtherwise ==
  /\ Ended
  /\ ~stopping
  /\ status \notin {"OUT_OF_RANGE", "NOT_FOUND", "ALREADY_EXISTS"}
  /\ already_exists_retries' = 0
  /\ feed' = "waiting"
  /\ UNCHANGED failure_reason

\* Fault: the thread returns when the delay is over.
WaitToRetry_Inverted ==
  /\ feed = "waiting"
  /\ feed' = IF stopping THEN "loop" ELSE "done"
  /\ UNCHANGED <<sequencerVars, last, already_exists_retries, status, failure_reason, stopping,
                 current_context, cancelled, mainVars>>

\* wait_to_retry: the delay is over, or stop has woken it.
WaitToRetry ==
  /\ feed = "waiting"
  /\ feed' = IF stopping THEN "done" ELSE "loop"
  /\ UNCHANGED <<sequencerVars, last, already_exists_retries, status, failure_reason, stopping,
                 current_context, cancelled, mainVars>>

-----------------------------------------------------------------------------
(* main of engine_node *)

Start ==
  /\ main = "setup"
  /\ main' = "waiting"
  /\ feed' = "loop"
  /\ UNCHANGED <<sequencerVars, last, already_exists_retries, status, failure_reason, stopping,
                 current_context, cancelled, inbox, stopped, signal>>

Signal ==
  /\ signal' = TRUE
  /\ UNCHANGED <<sequencerVars, feedVars, inbox, stopped, main>>

\* The guard's destructor stops the feed: at a signal, or when setup throws.
StopFeed ==
  /\ \/ main = "waiting" /\ signal
     \/ main = "setup"
  /\ RequestStop
  /\ main' = "joining"
  /\ UNCHANGED <<sequencerVars, feed, last, already_exists_retries, status, failure_reason,
                 current_context, inbox, stopped, signal>>

\* Fault: stop does not wait for the thread.
Join_AtOnce ==
  /\ main = "joining"
  /\ main' = "joined"
  /\ UNCHANGED <<sequencerVars, feedVars, inbox, stopped, signal>>

\* stop joins the feed's thread, if there is one.
Join ==
  /\ main = "joining"
  /\ feed \in {"none", "done"}
  /\ main' = "joined"
  /\ UNCHANGED <<sequencerVars, feedVars, inbox, stopped, signal>>

StopWorker ==
  /\ main = "joined"
  /\ stopped' = TRUE
  /\ main' = "ended"
  /\ UNCHANGED <<sequencerVars, feedVars, inbox, signal>>

-----------------------------------------------------------------------------

SequencerSteps ==
  \/ \E kind \in Kinds : Order(kind)
  \/ SeatReleased
  \/ RivalComes
  \/ RivalLeaves
  \/ Misnumbers
  \/ Restarts

\* A call is answered, and what an open stream has to send arrives.
FeedReads ==
  \/ Accepted
  \/ Refused
  \/ CancelledEnds
  \/ ReadGap
  \/ ReadForeign
  \/ ReadJunk
  \/ ReadGood

FeedActs ==
  \/ Register
  \/ OnFatalStops
  \/ OnFatalKills
  \/ HangsUp
  \/ EndedByStop
  \/ EndedForGood
  \/ EndedTaken
  \/ EndedOtherwise
  \/ WaitToRetry

MainActs ==
  \/ Start
  \/ StopFeed
  \/ Join
  \/ StopWorker

Next ==
  \/ SequencerSteps
  \/ FeedReads
  \/ FeedActs
  \/ Breaks
  \/ MainActs
  \/ Signal

Spec == Init /\ [][Next]_vars

\* Threads run, calls are answered, cancelled calls end, and the sequencer
\* notices that a stream is gone.
FairSpec ==
  /\ Spec
  /\ WF_vars(FeedReads)
  /\ WF_vars(CancelledEnds)
  /\ WF_vars(FeedActs)
  /\ WF_vars(MainActs)
  /\ WF_vars(SeatReleased)

=============================================================================
