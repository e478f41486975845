-------------------------------- MODULE MCBook --------------------------------
(* Values of the constants of Book for the runs. *)
EXTENDS BookProperties

CONSTANTS
  o1, o2,                      \* the owners
  i1, i2, i3, i4, i5, i6, i7   \* the ids

Symmetry == Permutations(Ids) \cup Permutations(Owners)

Limit(id, owner, side, price, quantity) ==
  [id |-> id, owner |-> owner, side |-> side, type |-> "Limit", price |-> price,
   quantity |-> quantity, filled |-> 0]

Market(id, owner, side, quantity) ==
  [Limit(id, owner, side, None, quantity) EXCEPT !.type = "Market"]

Stop1(id, owner, side, price, limit) ==
  [id |-> id, owner |-> owner, side |-> side, stop_price |-> price,
   limit_price |-> limit, quantity |-> 1]

-----------------------------------------------------------------------------
(* book_matching: the band [1, 2p - 1] never bites, the collar keeps a      *)
(* market order within one tick of the reference.                           *)
MatchingOrders ==
  {Limit(id, o, side, p, q) : id \in Ids, o \in Owners, side \in Sides, p \in {3, 4}, q \in {1, 2}}
    \cup {Market(id, o, side, 2) : id \in Ids, o \in Owners, side \in Sides}
    \cup {Limit(id, o, "Buy", 0, 1) : id \in Ids, o \in Owners}
MatchingTargets == [id : Ids, requester : Owners]
MatchingAmendments == [price : {3, 4}, quantity : {1, 2, 3}]

-----------------------------------------------------------------------------
(* With band_bps 2500 the band of 4 is [3, 5], of 8 is [6, 10].             *)

\* book_halts: i1 and i2 make the reference 4, i4 breaches the band at 8 and
\* may not go on to 12, and i5's sell at 4 after the grace period halts.
HaltOrders ==
  {Limit(i1, o1, "Buy", 4, 2), Limit(i2, o2, "Sell", 4, 1), Limit(i3, o2, "Sell", 8, 1),
   Limit(i6, o2, "Sell", 12, 1), Limit(i4, o1, "Buy", 12, 3), Market(i4, o1, "Buy", 3),
   Limit(i5, o2, "Sell", 4, 2), Market(i5, o2, "Sell", 1)}
HaltStops == {Stop1(i3, o2, "Sell", 4, None), Stop1(i6, o1, "Buy", 8, 8)}
HaltTargets == {[id |-> i1, requester |-> o1], [id |-> i5, requester |-> o2]}
HaltAmendments == [price : {8}, quantity : {2}]

\* book_stops: each id is one order or stop, sent at any time, in any order.
\* A sell at 3 sweeps i1 and i2 and wakes stops at both prices; with no grace
\* the second breach of a call halts it: i4 buys i3 at 8, and the next sell
\* would hit i1 at 4.
StopsOrders ==
  {Limit(i1, o1, "Buy", 4, 2), Limit(i2, o2, "Sell", 4, 1), Limit(i2, o1, "Buy", 3, 2),
   Limit(i3, o2, "Sell", 8, 1), Limit(i3, o2, "Sell", 3, 3)}
StopsStops ==
  {Stop1(i4, o1, "Buy", 4, None), Stop1(i5, o2, "Sell", 4, None), Stop1(i5, o2, "Sell", 3, 4),
   Stop1(i6, o2, "Sell", 8, 4), Stop1(i7, o1, "Buy", 4, None)}
StopsTargets == {[id |-> i1, requester |-> o1]} \cup [id : {i5, i6}, requester : {o2}]
StopsAmendments ==
  {[stop_price |-> 3, limit_price |-> None, quantity |-> 1],
   [stop_price |-> 4, limit_price |-> 4, quantity |-> 1]}

\* book_crossed: i1 and i2 make the reference 4, i3 and i4 sell far below the band.
CrossedOrders ==
  {Limit(i1, o1, "Buy", 4, 1), Limit(i2, o2, "Sell", 4, 1), Limit(i3, o2, "Sell", 1, 1),
   Limit(i4, o2, "Sell", 2, 1), Limit(i5, o1, "Buy", 4, 2)}

\* book_two_breaches: i6 sweeps 1 (below the band), 4 (inside) and 8 (above).
TwoBreachOrders ==
  {Limit(i1, o1, "Buy", 4, 1), Limit(i2, o2, "Sell", 4, 1), Limit(i3, o2, "Sell", 1, 1),
   Limit(i4, o2, "Sell", 4, 1), Limit(i5, o2, "Sell", 8, 1), Limit(i6, o1, "Buy", 8, 3)}

=============================================================================
