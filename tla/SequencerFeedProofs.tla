------------------------- MODULE SequencerFeedProofs -------------------------
(***************************************************************************)
(* The feed of a partition, for every value of the constants: it gives up  *)
(* only for cause, and it implements Delivery.                             *)
(***************************************************************************)
EXTENDS SequencerFeedProperties, SequenceTheorems, TLAPS

-----------------------------------------------------------------------------
(* The inductive invariant *)

\* The variables of the sequencer and of the feed, one by one.
LEMMA UnchangedOneByOne ==
  /\ UNCHANGED sequencerVars =>
       /\ log' = log /\ first' = first /\ configured' = configured /\ seat' = seat
       /\ sending' = sending /\ mistaken' = mistaken /\ refusals' = refusals /\ faults' = faults
  /\ UNCHANGED feedVars =>
       /\ feed' = feed /\ last' = last /\ status' = status /\ failure_reason' = failure_reason
       /\ already_exists_retries' = already_exists_retries
       /\ stopping' = stopping /\ current_context' = current_context /\ cancelled' = cancelled
  /\ UNCHANGED mainVars =>
       inbox' = inbox /\ stopped' = stopped /\ signal' = signal /\ main' = main
BY DEF sequencerVars, feedVars, mainVars

\* The partition's log keeps its commands when one is added.
LEMMA OrderKeepsLog ==
  ASSUME log \in Seq(Kinds), NEW kind \in Kinds, Order(kind)
  PROVE  /\ log' \in Seq(Kinds)
         /\ Len(log') = Len(log) + 1
         /\ \A n \in 1 .. Len(log) : log'[n] = log[n]
BY DEF Order

\* The first state of the feed satisfies its invariant (the constructor of Impl).
LEMMA FeedInvInit ==
  ASSUME Init
  PROVE  FeedInv
<1>1. FromSeq \in Nat /\ FromSeq >= 1
  BY SequencerFeedAssumption
<1>2. log \in [1 .. FromSeq - 1 -> Kinds]
  BY DEF Init, Kinds
<1>3. log \in Seq(Kinds) /\ Len(log) = FromSeq - 1
  BY <1>1, <1>2
<1>4. inbox \in Seq(Nat)
  BY DEF Init
<1>5. last \in Nat /\ first \in Nat
  BY <1>1 DEF Init
<1>6. TypeOK
  BY <1>3, <1>4, <1>5 DEF TypeOK, Init
<1>7. PhasesAgree
  BY DEF PhasesAgree, Init, failed
<1>8. AnswersHold
  BY <1>1, <1>3 DEF AnswersHold, Init
<1>9. OnlyForCause
  BY DEF OnlyForCause, Init
<1> QED  BY <1>6, <1>7, <1>8, <1>9 DEF FeedInv

\* What the sequencer does by itself keeps the invariant.
LEMMA SequencerKeepsInv ==
  ASSUME FeedInv, SequencerSteps
  PROVE  FeedInv'
<1> USE DEF FeedInv, failed
<1>1. ASSUME NEW kind \in Kinds, Order(kind)
      PROVE  FeedInv'
  <2>1. /\ log' \in Seq(Kinds) /\ Len(log') = Len(log) + 1 /\ Len(log) \in Nat
        /\ \A n \in 1 .. Len(log) : log'[n] = log[n]
    BY <1>1, OrderKeepsLog DEF TypeOK
  <2>2. UNCHANGED <<first, configured, seat, sending, mistaken, refusals, faults, feedVars, mainVars>>
    BY <1>1 DEF Order
  <2>3. TypeOK'
    BY <2>1, <2>2 DEF TypeOK, feedVars, mainVars
  <2>4. PhasesAgree'
    BY <2>2 DEF PhasesAgree, feedVars, mainVars
  <2>5. AnswersHold'
    <3>1. /\ last' = last /\ first' = first /\ feed' = feed /\ mistaken' = mistaken
          /\ sending' = sending /\ status' = status /\ configured' = configured
          /\ already_exists_retries' = already_exists_retries /\ refusals' = refusals
      BY <2>2, UnchangedOneByOne
    <3> QED  BY <2>1, <3>1 DEF AnswersHold, TypeOK
  <2>6. OnlyForCause'
    <3>1. last + 1 \in 1 .. Len(log) \/ ~(last < Len(log))
      BY <2>1 DEF TypeOK
    <3>2. /\ failure_reason' = failure_reason /\ last' = last /\ mistaken' = mistaken
          /\ first' = first /\ configured' = configured /\ refusals' = refusals
      BY <2>2, UnchangedOneByOne
    <3> QED  BY <2>1, <3>1, <3>2 DEF OnlyForCause, TypeOK
  <2> QED  BY <2>3, <2>4, <2>5, <2>6
<1>2. CASE SeatReleased \/ RivalComes \/ RivalLeaves
  <2>1. seat' \in {"free", "rival"}
    BY <1>2 DEF SeatReleased, RivalComes, RivalLeaves
  <2>2. UNCHANGED <<log, first, configured, sending, mistaken, refusals, faults, feedVars, mainVars>>
    BY <1>2 DEF SeatReleased, RivalComes, RivalLeaves
  <2> QED  BY <2>1, <2>2 DEF TypeOK, PhasesAgree, AnswersHold, OnlyForCause, feedVars, mainVars
<1>3. CASE Misnumbers
  <2>1. sending' \in Nat
    BY <1>3 DEF Misnumbers, TypeOK
  <2> QED  BY <1>3, <2>1 DEF Misnumbers, Fault, TypeOK, PhasesAgree, AnswersHold, OnlyForCause,
              feedVars, mainVars
<1>4. CASE Restarts
  <2>1. Len(log) \in Nat
    BY DEF TypeOK
  <2> QED  BY <1>4, <2>1 DEF Restarts, Fault, TypeOK, PhasesAgree, AnswersHold, OnlyForCause, mainVars
<1> QED  BY <1>1, <1>2, <1>3, <1>4 DEF SequencerSteps

\* What is read from a stream, or answers a call, keeps it (run).
LEMMA ReadingKeepsInv ==
  ASSUME FeedInv, FeedReads \/ Breaks
  PROVE  FeedInv'
<1> USE DEF FeedInv, failed, TypeOK, PhasesAgree, AnswersHold, OnlyForCause
<1>1. CASE Accepted
  <2> USE <1>1 DEF Accepted, mainVars
  <2>5. sending' \in Nat /\ refusals' \in Nat
    OBVIOUS
  <2>6. seat' = "ours" /\ feed' = "reading"
    OBVIOUS
  <2>7. mistaken' \in BOOLEAN
    OBVIOUS
  <2>a. TypeOK'
    BY <2>5, <2>6, <2>7
  <2>b. PhasesAgree'
    OBVIOUS
  <2>c. AnswersHold'
    OBVIOUS
  <2>d. OnlyForCause'
    OBVIOUS
  <2> QED  BY <2>a, <2>b, <2>c, <2>d
<1>2. CASE Refused
  BY <1>2 DEF Refused, Refusal, mainVars
<1>3. CASE CancelledEnds
  BY <1>3 DEF CancelledEnds, mainVars
<1>4. CASE ReadGap
  BY <1>4 DEF ReadGap, Arrives, IsExpected, Fails, mainVars
<1>5. CASE ReadForeign
  BY <1>5 DEF ReadForeign, Arrives, IsExpected, Fails, mainVars
<1>6. CASE ReadJunk
  BY <1>6 DEF ReadJunk, Arrives, IsExpected, Counts, mainVars
<1>7. CASE ReadGood
  <2>1. inbox' \in Seq(Nat)
    BY <1>7 DEF ReadGood
  <2> QED  BY <1>7, <2>1 DEF ReadGood, Arrives, IsExpected, Counts
<1>8. CASE Breaks
  BY <1>8 DEF Breaks, Fault, mainVars
<1> QED  BY <1>1, <1>2, <1>3, <1>4, <1>5, <1>6, <1>7, <1>8 DEF FeedReads

\* What the thread does without the sequencer keeps it (run, fail, wait_to_retry).
LEMMA ActingKeepsInv ==
  ASSUME FeedInv, FeedActs
  PROVE  FeedInv'
<1> USE DEF FeedInv, failed, TypeOK, PhasesAgree, AnswersHold, OnlyForCause, mainVars, sequencerVars
<1>1. CASE Register
  <2> USE <1>1 DEF Register
  <2>5. feed' \in {"calling", "done"}
    OBVIOUS
  <2>6. current_context' \in BOOLEAN /\ cancelled' \in BOOLEAN
    OBVIOUS
  <2>a. TypeOK'
    BY <2>5, <2>6
  <2>b. PhasesAgree'
    OBVIOUS
  <2>c. AnswersHold'
    OBVIOUS
  <2>d. OnlyForCause'
    OBVIOUS
  <2> QED  BY <2>a, <2>b, <2>c, <2>d
<1>2. CASE OnFatalStops
  BY <1>2 DEF OnFatalStops, RequestStop
<1>3. CASE OnFatalKills
  BY <1>3 DEF OnFatalKills
<1>4. CASE HangsUp
  <2> USE <1>4 DEF HangsUp
  <2>5. seat' \in {"free", "ours", "stale", "rival"}
    OBVIOUS
  <2>6. current_context' \in BOOLEAN
    OBVIOUS
  <2>a. TypeOK'
    BY <2>5, <2>6
  <2>b. PhasesAgree'
    OBVIOUS
  <2>c. AnswersHold'
    OBVIOUS
  <2>d. OnlyForCause'
    OBVIOUS
  <2> QED  BY <2>a, <2>b, <2>c, <2>d
<1>5. CASE EndedByStop
  <2> USE <1>5 DEF EndedByStop, Ended
  <2>5. current_context' \in BOOLEAN /\ feed' = "done"
    OBVIOUS
  <2>a. TypeOK'
    BY <2>5
  <2>b. PhasesAgree'
    BY <2>5
  <2>c. AnswersHold'
    BY <2>5
  <2>d. OnlyForCause'
    OBVIOUS
  <2> QED  BY <2>a, <2>b, <2>c, <2>d
<1>6. CASE EndedForGood
  <2> USE <1>6 DEF EndedForGood, Ended, Fails
  <2>5. current_context' \in BOOLEAN /\ feed' = "fatal"
    OBVIOUS
  <2>6. failure_reason' \in {"cannot_serve", "configuration"}
    OBVIOUS
  <2>a. TypeOK'
    BY <2>5, <2>6
  <2>b. PhasesAgree'
    BY <2>5
  <2>c. AnswersHold'
    BY <2>5
  <2>d. OnlyForCause'
    OBVIOUS
  <2> QED  BY <2>a, <2>b, <2>c, <2>d
<1>7. CASE EndedTaken
  <2>1. MaxRetries \in Nat
    BY SequencerFeedAssumption
  <2> USE <1>7, <2>1 DEF EndedTaken, Ended, Fails
  <2>5. already_exists_retries' \in Nat
    OBVIOUS
  <2>6. feed' \in {"fatal", "waiting"}
    OBVIOUS
  <2>7. failure_reason' \in {failure_reason, "another_subscriber"}
    OBVIOUS
  <2>8. current_context' \in BOOLEAN
    OBVIOUS
  <2>a. TypeOK'
    BY <2>5, <2>6, <2>7, <2>8
  <2>b. PhasesAgree'
    OBVIOUS
  <2>c. AnswersHold'
    OBVIOUS
  <2>d. OnlyForCause'
    OBVIOUS
  <2> QED  BY <2>a, <2>b, <2>c, <2>d
<1>8. CASE EndedOtherwise
  <2> USE <1>8 DEF EndedOtherwise, Ended
  <2>5. feed' = "waiting" /\ current_context' \in BOOLEAN /\ already_exists_retries' \in Nat
    OBVIOUS
  <2>a. TypeOK'
    BY <2>5
  <2>b. PhasesAgree'
    OBVIOUS
  <2>c. AnswersHold'
    OBVIOUS
  <2>d. OnlyForCause'
    OBVIOUS
  <2> QED  BY <2>a, <2>b, <2>c, <2>d
<1>9. CASE WaitToRetry
  BY <1>9 DEF WaitToRetry
<1> QED  BY <1>1, <1>2, <1>3, <1>4, <1>5, <1>6, <1>7, <1>8, <1>9 DEF FeedActs

\* What main does keeps it (start, stop, ShutdownInOrder).
LEMMA MainKeepsInv ==
  ASSUME FeedInv, MainActs \/ Signal
  PROVE  FeedInv'
<1> USE DEF FeedInv, failed, TypeOK, PhasesAgree, AnswersHold, OnlyForCause
<1>1. CASE Start
  BY <1>1, UnchangedOneByOne DEF Start
<1>2. CASE StopFeed
  BY <1>2, UnchangedOneByOne DEF StopFeed, RequestStop
<1>3. CASE Join
  BY <1>3, UnchangedOneByOne DEF Join
<1>4. CASE StopWorker
  BY <1>4, UnchangedOneByOne DEF StopWorker
<1>5. CASE Signal
  BY <1>5, UnchangedOneByOne DEF Signal
<1> QED  BY <1>1, <1>2, <1>3, <1>4, <1>5 DEF MainActs

\* A step that changes nothing keeps it.
LEMMA UnchangedKeepsInv ==
  ASSUME FeedInv, UNCHANGED vars
  PROVE  FeedInv'
<1>1. UNCHANGED sequencerVars /\ UNCHANGED feedVars /\ UNCHANGED mainVars
  BY DEF vars
<1>2. TypeOK'
  BY <1>1, UnchangedOneByOne DEF FeedInv, TypeOK
<1>3. PhasesAgree'
  BY <1>1, UnchangedOneByOne DEF FeedInv, PhasesAgree, failed
<1>4. AnswersHold'
  BY <1>1, UnchangedOneByOne DEF FeedInv, AnswersHold
<1>5. OnlyForCause'
  BY <1>1, UnchangedOneByOne DEF FeedInv, OnlyForCause
<1> QED  BY <1>2, <1>3, <1>4, <1>5 DEF FeedInv

\* The inductive invariant holds in every state of the feed: phases of the
\* threads agree, answers hold until they are judged, and failures have causes.
THEOREM FeedInvariant == Spec => []FeedInv
<1>1. Init => FeedInv
  BY FeedInvInit
<1>2. FeedInv /\ [Next]_vars => FeedInv'
  <2> SUFFICES ASSUME FeedInv, [Next]_vars
               PROVE  FeedInv'
    OBVIOUS
  <2>1. CASE Next
    BY <2>1, SequencerKeepsInv, ReadingKeepsInv, ActingKeepsInv, MainKeepsInv DEF Next
  <2>2. CASE UNCHANGED vars
    BY <2>2, UnchangedKeepsInv
  <2> QED  BY <2>1, <2>2
<1> QED  BY <1>1, <1>2, PTL DEF Spec

\* The feed never gives up without a cause (fail and its callers in run).
THEOREM NeverFailsWithoutCause == Spec => []OnlyForCause
<1>1. FeedInv => OnlyForCause
  BY DEF FeedInv
<1> QED  BY <1>1, FeedInvariant, PTL

-----------------------------------------------------------------------------
(* The refinement *)

\* A command that is read is given or skipped, and before the worker is stopped.
LEMMA ReadingImplements ==
  ASSUME FeedInv, FeedReads \/ Breaks
  PROVE  [D!Next]_D!vars
<1> USE DEF D!vars, mainVars
<1>1. CASE ReadJunk
  <2>1. ~stopped
    BY <1>1 DEF ReadJunk, Arrives, FeedInv, PhasesAgree, TypeOK
  <2> sending \in Nat /\ sending <= Len(log) /\ Len(log) \in Nat /\ sending = last + 1 /\ last \in Nat
    BY <1>1 DEF ReadJunk, Arrives, IsExpected, Counts, FeedInv, TypeOK
  <2>2. D!Skip
    BY <1>1, <2>1 DEF ReadJunk, Arrives, IsExpected, Counts, D!Skip
  <2> QED  BY <2>2 DEF D!Next
<1>2. CASE ReadGood
  <2>1. ~stopped
    BY <1>2 DEF ReadGood, Arrives, FeedInv, PhasesAgree, TypeOK
  <2> sending \in Nat /\ sending <= Len(log) /\ Len(log) \in Nat /\ sending = last + 1 /\ last \in Nat
    BY <1>2 DEF ReadGood, Arrives, IsExpected, Counts, FeedInv, TypeOK
  <2>2. D!Give
    BY <1>2, <2>1 DEF ReadGood, Arrives, IsExpected, Counts, D!Give
  <2> QED  BY <2>2 DEF D!Next
<1>3. CASE Accepted \/ Refused \/ CancelledEnds \/ ReadGap \/ ReadForeign \/ Breaks
  BY <1>3 DEF Accepted, Refused, CancelledEnds, ReadGap, ReadForeign, Breaks
<1> QED  BY <1>1, <1>2, <1>3 DEF FeedReads

\* Every step of the feed is a step of Delivery or changes nothing of it.
LEMMA StepImplements ==
  ASSUME FeedInv, [Next]_vars
  PROVE  [D!Next]_D!vars
<1> USE DEF D!vars
<1>1. CASE SequencerSteps
  <2>1. ASSUME NEW kind \in Kinds, Order(kind)
        PROVE  D!Next
    BY <2>1 DEF Order, feedVars, mainVars, D!Next, D!Order, Kinds
  <2>2. CASE SeatReleased \/ RivalComes \/ RivalLeaves \/ Misnumbers \/ Restarts
    BY <2>2 DEF SeatReleased, RivalComes, RivalLeaves, Misnumbers, Restarts, feedVars, mainVars
  <2> QED  BY <1>1, <2>1, <2>2 DEF SequencerSteps
<1>2. CASE FeedReads \/ Breaks
  BY <1>2, ReadingImplements
<1>3. CASE FeedActs
  BY <1>3 DEF FeedActs, Register, OnFatalStops, OnFatalKills, HangsUp, EndedByStop, EndedForGood,
              EndedTaken, EndedOtherwise, Ended, WaitToRetry, sequencerVars, mainVars
<1>4. CASE Start \/ StopFeed \/ Join \/ Signal
  BY <1>4 DEF Start, StopFeed, Join, Signal, sequencerVars, feedVars
<1>5. CASE StopWorker
  BY <1>5 DEF StopWorker, D!Next, D!End, sequencerVars, feedVars
<1>6. CASE UNCHANGED vars
  BY <1>6 DEF vars, sequencerVars, feedVars, mainVars
<1> QED  BY <1>1, <1>2, <1>3, <1>4, <1>5, <1>6 DEF Next, MainActs

\* The feed implements Delivery: over any number of streams, faults and
\* restarts, the worker gets the partition's commands once and in order, and
\* none after Shutdown (run, stop, and the order of ShutdownInOrder).
THEOREM FeedKeepsOrder == Spec => KeepsOrder
<1>1. Init => D!Init
  BY DEF Init, D!Init
<1>2. FeedInv /\ [Next]_vars => [D!Next]_D!vars
  BY StepImplements
<1> QED  BY <1>1, <1>2, FeedInvariant, PTL DEF Spec, KeepsOrder, D!Spec

=============================================================================
