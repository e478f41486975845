----------------------------- MODULE RestingOrders -----------------------------
(***************************************************************************)
(* The orders that rest on a book, as the rest of the book sees them: each *)
(* side is a function from the prices that have a level to the level's     *)
(* orders, first in first, and the pool has nodes for so many of them.     *)
(* Book works on these; BookLevels is how the code keeps them.             *)
(***************************************************************************)
EXTENDS Integers, SequencesExt

CONSTANTS
  Ids,             \* order and stop ids
  None,            \* std::nullopt
  PoolCapacity     \* nodes in node_pool_

VARIABLES
  resting,      \* id_index_ and the nodes it points at: the order, or None
  levels,       \* bids_ and asks_: per side, price -> FIFO of ids
  free_nodes    \* free nodes of node_pool_

bookVars == <<resting, levels, free_nodes>>

Sides == {"Buy", "Sell"}

Position(level, id) == CHOOSE i \in DOMAIN level : level[i] = id

LevelAt(side_map, p) == IF p \in DOMAIN side_map THEN side_map[p] ELSE <<>>

\* get_or_create_level, and the order joins the back of the level
Link(side_map, p, id) ==
  [q \in DOMAIN side_map \cup {p} |->
     IF q = p THEN Append(LevelAt(side_map, p), id) ELSE side_map[q]]

\* Fault: the level stays when its last order leaves.
Unlink_KeepsLevel(side_map, p, id) ==
  [side_map EXCEPT ![p] = RemoveAt(@, Position(@, id))]

\* unlink_and_maybe_erase_from_level
Unlink(side_map, p, id) ==
  LET level == RemoveAt(side_map[p], Position(side_map[p], id))
  IN  [q \in {r \in DOMAIN side_map : r # p \/ level # <<>>} |->
         IF q # p THEN side_map[q] ELSE level]

\* A node of the pool takes the order and joins the back of its level.
Rest(order) ==
  /\ resting' = [resting EXCEPT ![order.id] = order]
  /\ levels' = [levels EXCEPT ![order.side] = Link(@, order.price, order.id)]
  /\ free_nodes' = free_nodes - 1

remove_resting(id) ==
  /\ resting' = [resting EXCEPT ![id] = None]
  /\ levels' = [levels EXCEPT ![resting[id].side] = Unlink(@, resting[id].price, id)]
  /\ free_nodes' = free_nodes + 1

\* reduce_resting: the order keeps its place with a smaller quantity.
Reduce(id, order) ==
  /\ order = [resting[id] EXCEPT !.quantity = order.quantity, !.filled = order.filled]
  /\ order.quantity \in 1 .. resting[id].quantity
  /\ resting' = [resting EXCEPT ![id] = order]
  /\ UNCHANGED <<levels, free_nodes>>

-----------------------------------------------------------------------------
(* What may happen to the resting orders *)

RestingInit ==
  /\ resting = [id \in Ids |-> None]
  /\ levels = [side \in Sides |-> <<>>]
  /\ free_nodes = PoolCapacity

RestingNext ==
  \E id \in Ids :
    \/ resting[id] = None /\ resting'[id] # None /\ free_nodes > 0 /\ Rest(resting'[id])
    \/ resting[id] # None /\ resting'[id] # None /\ Reduce(id, resting'[id])
    \/ resting[id] # None /\ remove_resting(id)

RestingSpec == RestingInit /\ [][RestingNext]_bookVars

=============================================================================
