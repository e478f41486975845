------------------------------ MODULE FeedView ------------------------------
(***************************************************************************)
(* What the engine feed promises the client of a stream: of each symbol it *)
(* sees a first state, and from there every event in its order, one after  *)
(* the other, until the stream is over.                                    *)
(***************************************************************************)
EXTENDS Integers

CONSTANTS Symbols, Streams, None

VARIABLES
  published,   \* symbol -> number of its last event
  seen,        \* stream, symbol -> number of the last event the client knows of, or None
  over         \* streams that are over

vars == <<published, seen, over>>

Init ==
  /\ published = [s \in Symbols |-> 0]
  /\ seen = [r \in Streams |-> [s \in Symbols |-> None]]
  /\ over = {}

Publish(s) ==
  /\ published' = [published EXCEPT ![s] = published'[s]]
  /\ published'[s] > published[s]
  /\ UNCHANGED <<seen, over>>

See(r, s, n) ==
  /\ r \notin over
  /\ seen' = [seen EXCEPT ![r][s] = n]
  /\ UNCHANGED <<published, over>>

\* A snapshot, or the first event of a replay.
Start(r, s) ==
  /\ seen[r][s] = None
  /\ \E n \in 0 .. published[s] : See(r, s, n)

Follow(r, s) ==
  /\ seen[r][s] # None
  /\ seen[r][s] < published[s]
  /\ See(r, s, seen[r][s] + 1)

End(r) ==
  /\ over' = over \cup {r}
  /\ UNCHANGED <<published, seen>>

Next ==
  \/ \E s \in Symbols : Publish(s)
  \/ \E r \in Streams, s \in Symbols : Start(r, s) \/ Follow(r, s)
  \/ \E r \in Streams : End(r)

Spec == Init /\ [][Next]_vars

=============================================================================
