------------------------------ MODULE BookLevels ------------------------------
(***************************************************************************)
(* How a book keeps its resting orders: nodes of a fixed pool, linked both  *)
(* ways in the queues of their levels while they rest and one way in the   *)
(* free list otherwise, with a running total and count per level:          *)
(* book_levels.cpp, pool.hpp, level.hpp and node.hpp.                      *)
(*                                                                         *)
(* An operation is what the book does to one order without reading another  *)
(* in between: rest it, take a fill off it, reduce it, or remove it.       *)
(***************************************************************************)
EXTENDS Integers, FiniteSetsExt, SequencesExt

CONSTANTS
  Ids,
  None,           \* no order: Order{} of a node that is free
  PoolCapacity,
  NewOrders       \* the orders that come to rest

ASSUME BookLevelsAssumption ==
  /\ None \notin [id : Ids, side : {"Buy", "Sell"}, price : Int, quantity : Int, filled : Nat]
  /\ PoolCapacity \in Nat
  /\ NewOrders \subseteq [id : Ids, side : {"Buy", "Sell"}, price : Int,
                          quantity : Nat \ {0}, filled : {0}]

Sides == {"Buy", "Sell"}

Nodes == 1 .. PoolCapacity

Null == 0

\* A price level is known by its side and its key in the side's map.
NoLevel == <<>>

LevelOf(o) == <<o.side, o.price>>

VARIABLES
  order,        \* Node::order
  next,         \* Node::next, in a level and in the free list
  prev,         \* Node::prev
  level,        \* Node::level
  free_head,    \* free_head_
  level_map,    \* bids_ and asks_: the levels there are, with head, tail,
                \* total_quantity and order_count
  id_index      \* id_index_

vars == <<order, next, prev, level, free_head, level_map, id_index>>

\* NodePool(capacity)
Init ==
  /\ order = [n \in Nodes |-> None]
  /\ next = [n \in Nodes |-> IF n < PoolCapacity THEN n + 1 ELSE Null]
  /\ prev = [n \in Nodes |-> Null]
  /\ level = [n \in Nodes |-> NoLevel]
  /\ free_head = IF PoolCapacity > 0 THEN 1 ELSE Null
  /\ level_map = <<>>
  /\ id_index = [id \in Ids |-> Null]

-----------------------------------------------------------------------------
(* Functions that grow and shrink: level_map *)

Put(map, key, value) == [k \in DOMAIN map \cup {key} |-> IF k = key THEN value ELSE map[k]]

Erase(map, key) == [k \in DOMAIN map \ {key} |-> map[k]]

\* A link written to a node; writing through Null does nothing.
SetLink(links, n, to) == [m \in Nodes |-> IF m = n THEN to ELSE links[m]]

-----------------------------------------------------------------------------
(* The operations *)

Found(o) == LevelOf(o) \in DOMAIN level_map

\* The level of an order before it joins: found, or empty and new.
LevelBefore(o) ==
  IF Found(o) THEN level_map[LevelOf(o)]
  ELSE [head |-> Null, tail |-> Null, total_quantity |-> 0, order_count |-> 0]

\* acquire, get_or_create_level and the index
Rest(o) ==
  LET n == free_head
      before == LevelBefore(o)
  IN
  /\ free_head # Null
  /\ id_index[o.id] = Null
  /\ free_head' = next[n]
  /\ order' = [order EXCEPT ![n] = o]
  /\ next' = SetLink(SetLink(next, n, Null), before.tail, n)
  /\ prev' = [prev EXCEPT ![n] = before.tail]
  /\ level' = [level EXCEPT ![n] = LevelOf(o)]
  /\ level_map' = Put(level_map, LevelOf(o),
       [head |-> IF before.head = Null THEN n ELSE before.head,
        tail |-> n,
        total_quantity |-> before.total_quantity + o.quantity,
        order_count |-> before.order_count + 1])
  /\ id_index' = [id_index EXCEPT ![o.id] = n]

\* Fault: the total of the level stays.
Reduced_KeepsTotal(n, by) == level_map

\* reduce_resting, as far as the level goes
Reduced(n, by) == [level_map EXCEPT ![level[n]].total_quantity = @ - by]

\* Fault: the tail of the level is not moved.
Without_KeepsTail(n, by) ==
  LET old == Reduced(n, by)[level[n]] IN
  [head |-> IF old.head = n THEN next[n] ELSE old.head,
   tail |-> old.tail,
   total_quantity |-> old.total_quantity - (order[n].quantity - by),
   order_count |-> old.order_count - 1]

\* The level of a node once the node has lost this much and left it.
Without(n, by) ==
  LET old == Reduced(n, by)[level[n]] IN
  [head |-> IF old.head = n THEN next[n] ELSE old.head,
   tail |-> IF old.tail = n THEN prev[n] ELSE old.tail,
   total_quantity |-> old.total_quantity - (order[n].quantity - by),
   order_count |-> old.order_count - 1]

\* Fault: the node behind keeps its way back.
PrevAfter_Kept(n) == SetLink(prev, n, Null)

\* unlink, then release
PrevAfter(n) == SetLink(SetLink(prev, next[n], prev[n]), n, Null)

NextAfter(n) == SetLink(SetLink(next, prev[n], next[n]), n, free_head)

\* remove_resting of a node that has lost this much: unlink, index, release.
\* Only acquire clears the order of a node.
RemoveAfter(n, by) ==
  /\ prev' = PrevAfter(n)
  /\ next' = NextAfter(n)
  /\ free_head' = n
  /\ level' = [level EXCEPT ![n] = NoLevel]
  /\ level_map' = IF Without(n, by).head = Null THEN Erase(level_map, level[n])
                  ELSE Put(level_map, level[n], Without(n, by))
  /\ id_index' = [id_index EXCEPT ![order[n].id] = Null]

Indexed == {id \in Ids : id_index[id] # Null}

\* cancel_order, or modify_order before it enters the order again
remove_resting(id) ==
  /\ RemoveAfter(id_index[id], 0)
  /\ UNCHANGED order

\* modify_order in place
Shrink(id, by) ==
  LET n == id_index[id] IN
  /\ by \in 1 .. order[n].quantity - 1
  /\ order' = [order EXCEPT ![n].quantity = @ - by]
  /\ level_map' = Reduced(n, by)
  /\ UNCHANGED <<next, prev, level, free_head, id_index>>

\* A fill of the order at the head of the best level of its side.
IsBest(key) ==
  /\ key \in DOMAIN level_map
  /\ \A other \in DOMAIN level_map :
       other[1] = key[1] => IF key[1] = "Buy" THEN key[2] >= other[2] ELSE key[2] <= other[2]

Fill(key, by) ==
  LET n == level_map[key].head IN
  /\ IsBest(key)
  /\ by \in 1 .. order[n].quantity
  /\ order' = [order EXCEPT ![n].quantity = @ - by, ![n].filled = @ + by]
  /\ IF by = order[n].quantity
     THEN RemoveAfter(n, by)
     ELSE /\ level_map' = Reduced(n, by)
          /\ UNCHANGED <<next, prev, level, free_head, id_index>>

Next ==
  \/ \E o \in NewOrders : Rest(o)
  \/ \E id \in Indexed : remove_resting(id)
  \/ \E id \in Indexed : \E by \in 1 .. order[id_index[id]].quantity : Shrink(id, by)
  \/ \E key \in DOMAIN level_map :
       \E by \in 1 .. order[level_map[key].head].quantity : Fill(key, by)

Spec == Init /\ [][Next]_vars

-----------------------------------------------------------------------------
(* What the code reads *)

\* The nodes reached from n by these links: as many steps as there are nodes.
Walk(links, n) ==
  LET at[k \in 1 .. PoolCapacity] ==
        IF k = 1 THEN n ELSE IF at[k - 1] = Null THEN Null ELSE links[at[k - 1]]
  IN  [k \in 1 .. Cardinality({m \in 1 .. PoolCapacity : at[m] # Null}) |-> at[k]]

Chain(n) == Walk(next, n)

\* The orders of a level, first in first, as snapshot walks them.
Queue(key) == [i \in DOMAIN Chain(level_map[key].head) |-> order[Chain(level_map[key].head)[i]]]

\* A sum as a loop adds it up.
Total(quantities) ==
  LET sum[k \in 0 .. Len(quantities)] ==
        IF k = 0 THEN 0 ELSE sum[k - 1] + quantities[k]
  IN  sum[Len(quantities)]

\* depth and check_invariants agree on what a level holds.
LevelOK(key) ==
  LET this == level_map[key]
      nodes == Chain(this.head)
  IN
  /\ this.head # Null /\ this.tail # Null
  /\ next[this.tail] = Null
  /\ nodes[Len(nodes)] = this.tail
  /\ \A i \in DOMAIN nodes :
       /\ prev[nodes[i]] = IF i = 1 THEN Null ELSE nodes[i - 1]
       /\ LevelOf(order[nodes[i]]) = key
       /\ order[nodes[i]].quantity > 0
       /\ level[nodes[i]] = key
       /\ id_index[order[nodes[i]].id] = nodes[i]
  /\ this.total_quantity = Total([i \in DOMAIN nodes |-> order[nodes[i]].quantity])
  /\ this.order_count = Len(nodes)

\* check_invariants, without the stops and the crossing of the sides
check_invariants ==
  /\ \A key \in DOMAIN level_map : LevelOK(key)
  /\ Cardinality(Indexed) = MapThenSumSet(LAMBDA key : level_map[key].order_count, DOMAIN level_map)

=============================================================================
