----------------------------- MODULE MCBookLevels -----------------------------
(* The nodes of a book, for TLC. *)
EXTENDS BookLevelsProperties

CONSTANTS i1, i2, i3, i4

New(id, side, price, quantity) ==
  [id |-> id, side |-> side, price |-> price, quantity |-> quantity, filled |-> 0]

\* Three orders in one level, or in two levels of a side and one of the other;
\* a fourth finds the pool empty.
Orders ==
  {New(id, "Buy", 1, 2) : id \in Ids} \cup {New(i1, "Buy", 1, 1)}
    \cup {New(id, "Buy", 2, 1) : id \in {i2, i3}} \cup {New(i4, "Sell", 3, 2)}

=============================================================================
