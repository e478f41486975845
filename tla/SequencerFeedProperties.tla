----------------------- MODULE SequencerFeedProperties -----------------------
(* What the feed of a partition promises. *)
EXTENDS SequencerFeed

TypeOK ==
  /\ log \in Seq(Kinds)
  /\ first \in Nat
  /\ configured \in BOOLEAN
  /\ seat \in {"free", "ours", "stale", "rival"}
  /\ sending \in Nat
  /\ mistaken \in BOOLEAN
  /\ refusals \in Nat
  /\ faults \in Nat
  /\ feed \in {"none", "loop", "calling", "reading", "ended", "waiting", "fatal", "hanging_up",
              "done"}
  /\ last \in Nat
  /\ already_exists_retries \in Nat
  /\ status \in {"None", "UNAVAILABLE", "CANCELLED", "OUT_OF_RANGE", "NOT_FOUND", "ALREADY_EXISTS"}
  /\ failure_reason \in {"None", "gap", "not_owned", "cannot_serve", "configuration",
                        "another_subscriber"}
  /\ stopping \in BOOLEAN
  /\ current_context \in BOOLEAN
  /\ cancelled \in BOOLEAN
  /\ inbox \in Seq(Nat)
  /\ stopped \in BOOLEAN
  /\ signal \in BOOLEAN
  /\ main \in {"setup", "waiting", "joining", "joined", "ended"}

\* Over any number of streams, the worker gets each command of the partition
\* once and in order, except those whose body does not decode, and gets none
\* after it was sent Shutdown: run and stop of SequencerFeed, and the order of
\* ShutdownInOrder.
D == INSTANCE Delivery WITH taken <- last, given <- inbox, over <- stopped

KeepsOrder == D!Spec

\* The feed gives up only when the sequencer gives it cause: a wrong number, a
\* command for somebody else, commands that are lost, a partition it does not
\* know, or a seat refused more often in a row than the retries allow.
OnlyForCause ==
  /\ failure_reason = "gap" => mistaken
  /\ failure_reason = "not_owned" => last < Len(log) /\ log[last + 1] = "foreign"
  /\ failure_reason = "cannot_serve" => first > last + 1
  /\ failure_reason = "configuration" => ~configured
  /\ failure_reason = "another_subscriber" => refusals > MaxRetries

\* Where each actor may be while the others are where they are.
PhasesAgree ==
  /\ main = "setup" => feed = "none"
  /\ main \in {"joined", "ended"} => feed \in {"none", "done"}
  /\ stopped => main = "ended"
  /\ failed => feed \in {"fatal", "hanging_up", "done"}

\* What an answer of the sequencer says is still so when the feed judges it.
AnswersHold ==
  /\ last <= Len(log)
  /\ first <= Len(log) + 1
  /\ feed = "reading" /\ ~mistaken => sending = last + 1
  /\ feed = "ended" /\ status = "NOT_FOUND" => ~configured
  /\ feed = "ended" /\ status = "OUT_OF_RANGE" => first > last + 1
  /\ feed = "ended" /\ status = "ALREADY_EXISTS" => already_exists_retries < refusals
  /\ feed \in {"none", "loop", "calling", "waiting"} => already_exists_retries <= refusals

\* The inductive invariant of the feed.
FeedInv == TypeOK /\ PhasesAgree /\ AnswersHold /\ OnlyForCause

\* stop ends the thread, from whatever thread it is called and wherever the
\* feed is; so does a failure; and a signal ends the node.
StopEnds ==
  /\ stopping ~> feed \in {"none", "done"}
  /\ failed ~> feed = "done"
  /\ signal ~> main = "ended"

\* Whatever breaks and whoever holds the seat for a while, each command comes to
\* the worker or is skipped, or the feed fails, or it was told to stop.
EveryCommandDealtWith ==
  \A n \in 1 .. MaxLog : Len(log) >= n ~> (last >= n \/ failed \/ stopping)

=============================================================================
