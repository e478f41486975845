------------------------- MODULE BookLevelsProperties -------------------------
(* What the nodes, links and totals of a book promise. *)
EXTENDS BookLevels

Keys == Sides \X Int

TypeOK ==
  /\ order \in [Nodes -> [id : Ids, side : Sides, price : Int, quantity : Nat, filled : Nat]
                           \cup {None}]
  /\ next \in [Nodes -> Nodes \cup {Null}]
  /\ prev \in [Nodes -> Nodes \cup {Null}]
  /\ level \in [Nodes -> Keys \cup {NoLevel}]
  /\ free_head \in Nodes \cup {Null}
  /\ DOMAIN level_map \subseteq Keys
  /\ \A key \in DOMAIN level_map :
       level_map[key] \in [head : Nodes \cup {Null}, tail : Nodes \cup {Null},
                           total_quantity : Int, order_count : Int]
  /\ id_index \in [Ids -> Nodes \cup {Null}]

Linked(n) == level[n] # NoLevel

\* A node that rests: in its order's level, under its order's id, with links that
\* lead to neighbours in that level and back, and Null exactly at its ends.
NodeAgrees(n) ==
  /\ order[n] # None
  /\ level[n] \in DOMAIN level_map
  /\ level[n] = LevelOf(order[n])
  /\ id_index[order[n].id] = n
  /\ next[n] # Null => level[next[n]] = level[n] /\ prev[next[n]] = n
  /\ prev[n] # Null => level[prev[n]] = level[n] /\ next[prev[n]] = n
  /\ prev[n] = Null <=> level_map[level[n]].head = n
  /\ next[n] = Null <=> level_map[level[n]].tail = n

EndsAgree(key) ==
  /\ level_map[key].head \in Nodes /\ level[level_map[key].head] = key
  /\ level_map[key].tail \in Nodes /\ level[level_map[key].tail] = key

IndexAgrees(id) ==
  id_index[id] # Null => Linked(id_index[id]) /\ order[id_index[id]].id = id

FreeAgrees ==
  /\ free_head # Null => ~Linked(free_head)
  /\ \A n \in Nodes : ~Linked(n) /\ next[n] # Null => ~Linked(next[n])

\* The two directions of the links agree wherever a node is reached from, a
\* level's ends are its own nodes, and a node rests exactly while its id leads
\* to it; free nodes lead only to free nodes (get_or_create_level,
\* unlink_and_maybe_erase_from_level, acquire and release).
LinksAgree ==
  /\ \A n \in Nodes : Linked(n) => NodeAgrees(n)
  /\ \A key \in DOMAIN level_map : EndsAgree(key)
  /\ \A id \in Ids : IndexAgrees(id)
  /\ FreeAgrees

\* The free list never meets itself.
FreeListOK ==
  \A m, n \in Nodes : ~Linked(m) /\ ~Linked(n) /\ next[m] # Null =>
    /\ next[m] # free_head
    /\ next[m] = next[n] => m = n

\* The nodes of a level can be numbered from its head to its tail, and next leads
\* to the next number: a level has no loop and no node apart.
InOrder(ticket) ==
  \A m, n \in Nodes : Linked(m) /\ Linked(n) /\ level[m] = level[n] =>
    /\ ticket[m] = ticket[n] => m = n
    /\ level_map[level[m]].head = m => ticket[m] <= ticket[n]
    /\ level_map[level[m]].tail = m => ticket[n] <= ticket[m]
    /\ next[m] # Null =>
         /\ ticket[m] < ticket[next[m]]
         /\ ticket[m] < ticket[n] => ticket[next[m]] <= ticket[n]

QueuesOrdered ==
  \E ticket \in [Nodes -> Nat], last \in Nat :
    /\ \A n \in Nodes : ticket[n] < last
    /\ InOrder(ticket)

\* The inductive invariant of the links.
LinksInv == TypeOK /\ LinksAgree /\ FreeListOK /\ QueuesOrdered

\* q is all that a walk from n meets, each node once: the walk ends.
IsWalk(links, n, q) ==
  /\ q \in Seq(Nodes)
  /\ n = IF q = <<>> THEN Null ELSE q[1]
  /\ \A i \in DOMAIN q : links[q[i]] = IF i = Len(q) THEN Null ELSE q[i + 1]
  /\ \A i, j \in DOMAIN q : q[i] = q[j] => i = j

Quantities(orders, q) == [i \in DOMAIN q |-> orders[q[i]].quantity]

\* A level's walk meets its nodes and no other, and its totals are of what it meets.
LevelWalk(key, q) ==
  /\ IsWalk(next, level_map[key].head, q)
  /\ \A n \in Nodes : level[n] = key <=> n \in Range(q)
  /\ level_map[key].total_quantity = Total(Quantities(order, q))
  /\ level_map[key].order_count = Len(q)

\* The walk from free_head meets the free nodes and no other.
FreeWalk(q) ==
  /\ IsWalk(next, free_head, q)
  /\ \A n \in Nodes : ~Linked(n) <=> n \in Range(q)

\* Every list of nodes that the code walks ends, and the nodes it meets are those
\* that belong to it: the inductive invariant of what is read from the links.
WalksInv ==
  /\ \A key \in DOMAIN level_map : LevelWalk(key, Chain(level_map[key].head))
  /\ FreeWalk(Chain(free_head))
  /\ \A n \in Nodes : Linked(n) => order[n].quantity > 0

\* What the nodes, read by walking their links, are to the rest of the book.
RestingOf == [id \in Ids |-> IF id_index[id] = Null THEN None ELSE order[id_index[id]]]

PricesOf(side) == {key[2] : key \in {k \in DOMAIN level_map : k[1] = side}}

LevelsOf ==
  [side \in Sides |->
     [p \in PricesOf(side) |->
        [i \in DOMAIN Queue(<<side, p>>) |-> Queue(<<side, p>>)[i].id]]]

FreeOf == Len(Chain(free_head))

\* The nodes, read by walking their links, are the queues, the orders and the
\* free nodes that the rest of the book works on: no operation on the links
\* loses an order, moves one in its queue or leaks a node.
R == INSTANCE RestingOrders WITH
  resting <- RestingOf, levels <- LevelsOf, free_nodes <- FreeOf

KeepsQueues == R!RestingSpec

=============================================================================
