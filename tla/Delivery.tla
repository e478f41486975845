------------------------------- MODULE Delivery -------------------------------
(***************************************************************************)
(* What a feed promises its worker: the commands of one partition, each     *)
(* once and in the sequencer's order, without those whose body does not    *)
(* decode; and none once the worker has been told to stop.                 *)
(***************************************************************************)
EXTENDS Naturals, Sequences

CONSTANT FromSeq   \* the first command wanted

VARIABLES
  log,     \* the kinds of the partition's commands so far
  taken,   \* the commands dealt with: all up to this number
  given,   \* the numbers of those given to the worker
  over     \* the worker has been told to stop

vars == <<log, taken, given, over>>

Init ==
  /\ log = [n \in 1 .. FromSeq - 1 |-> "good"]
  /\ taken = FromSeq - 1
  /\ given = <<>>
  /\ over = FALSE

Order(kind) ==
  /\ log' = Append(log, kind)
  /\ UNCHANGED <<taken, given, over>>

Give ==
  /\ ~over
  /\ taken < Len(log)
  /\ log[taken + 1] = "good"
  /\ taken' = taken + 1
  /\ given' = Append(given, taken + 1)
  /\ UNCHANGED <<log, over>>

Skip ==
  /\ ~over
  /\ taken < Len(log)
  /\ log[taken + 1] = "junk"
  /\ taken' = taken + 1
  /\ UNCHANGED <<log, given, over>>

End ==
  /\ over' = TRUE
  /\ UNCHANGED <<log, taken, given>>

Next ==
  \/ \E kind \in {"good", "junk", "foreign"} : Order(kind)
  \/ Give
  \/ Skip
  \/ End

Spec == Init /\ [][Next]_vars

=============================================================================
