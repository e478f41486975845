--------------------------- MODULE MCExchangeServer ---------------------------
(* The console server, for TLC. *)
EXTENDS ExchangeServerProperties, TLC

CONSTANTS p1, p2

\* Each symbol on a worker of its own; two producers may use the same.
TwoRoutes == [s \in 1 .. 2 |-> s]

=============================================================================
