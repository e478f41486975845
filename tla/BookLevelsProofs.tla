--------------------------- MODULE BookLevelsProofs ---------------------------
(***************************************************************************)
(* The links of a book, for a pool of any size and any orders: levels have *)
(* no loops, no loose ends and no lost nodes, and nodes in use and free    *)
(* nodes never mix (LinksInv).  Every walk along the links therefore ends  *)
(* and meets just the nodes it should, and the totals and counts are of    *)
(* what it meets (WalksInv): the code's own audit never fails, and what is *)
(* read from the nodes is the book of queues that Book works on.           *)
(***************************************************************************)
EXTENDS BookLevelsProperties, FiniteSetTheorems, WellFoundedInduction, TLAPS

-----------------------------------------------------------------------------
(* Nodes, keys and orders *)

OrderType == [id : Ids, side : Sides, price : Int, quantity : Nat, filled : Nat]

LevelType == [head : Nodes \cup {Null}, tail : Nodes \cup {Null},
              total_quantity : Int, order_count : Int]

\* Null is no node (a null Node*).
LEMMA NullIsNoNode == Null \notin Nodes
BY DEF Null, Nodes

\* The key of a level is never NoLevel (node->level is null only off the levels).
LEMMA KeyOfOrder ==
  ASSUME NEW o \in OrderType
  PROVE  LevelOf(o) \in Keys /\ LevelOf(o) # NoLevel /\ o.id \in Ids
<1>1. <<o.side, o.price>> # <<>>
  BY Len(<<o.side, o.price>>) = 2, Len(<<>>) = 0
<1> QED  BY <1>1 DEF LevelOf, Keys, NoLevel, OrderType

\* No key of a level is NoLevel (node->level of a node that rests is not null).
LEMMA KeyIsLevel == \A key \in Keys : key # NoLevel
<1> SUFFICES ASSUME NEW a \in Sides, NEW b \in Int PROVE <<a, b>> # <<>>
  BY DEF Keys, NoLevel
<1> QED  BY Len(<<a, b>>) = 2, Len(<<>>) = 0

\* What comes to rest is an order with a quantity (rest_limit_order).
LEMMA NewOrderType == \A o \in NewOrders : o \in OrderType /\ o.quantity > 0
BY BookLevelsAssumption DEF OrderType, Sides

\* The order of a node that rests is an order of its level (NodeAgrees, TypeOK).
LEMMA LinkedOrder ==
  ASSUME LinksInv, NEW n \in Nodes, Linked(n)
  PROVE  /\ NodeAgrees(n)
         /\ order[n] \in OrderType
         /\ order[n].id \in Ids
         /\ level[n] \in Keys
         /\ level[n] \in DOMAIN level_map
         /\ level_map[level[n]] \in LevelType
<1>1. NodeAgrees(n)
  BY DEF LinksInv, LinksAgree
<1>2. order[n] \in OrderType
  BY <1>1 DEF LinksInv, TypeOK, NodeAgrees, OrderType
<1> QED  BY <1>1, <1>2 DEF LinksInv, TypeOK, NodeAgrees, LevelType, OrderType

-----------------------------------------------------------------------------
(* What Rest does, node by node (acquire and get_or_create_level) *)

\* Node n takes order o and joins the level under key behind node t, or, if t is
\* Null, as the only node of a new level.
Joined(o, n, key, t) ==
  /\ n \in Nodes /\ ~Linked(n) /\ free_head = n
  /\ o \in OrderType
  /\ key \in Keys /\ key = LevelOf(o)
  /\ id_index[o.id] = Null
  /\ t = Null <=> key \notin DOMAIN level_map
  /\ t # Null => /\ t \in Nodes /\ t # n /\ level[t] = key /\ next[t] = Null
                 /\ level_map[key].tail = t
  /\ free_head' = next[n]
  /\ order' = [order EXCEPT ![n] = o]
  /\ level' = [level EXCEPT ![n] = key]
  /\ prev' = [prev EXCEPT ![n] = t]
  /\ next' \in [Nodes -> Nodes \cup {Null}]
  /\ next'[n] = Null
  /\ t # Null => next'[t] = n
  /\ \A m \in Nodes : m # n /\ m # t => next'[m] = next[m]
  /\ DOMAIN level_map' = DOMAIN level_map \cup {key}
  /\ level_map'[key] \in LevelType
  /\ level_map'[key].head = IF key \in DOMAIN level_map THEN level_map[key].head ELSE n
  /\ level_map'[key].tail = n
  /\ \A k \in DOMAIN level_map : k # key => level_map'[k] = level_map[k]
  /\ id_index' = [id_index EXCEPT ![o.id] = n]

\* acquire and get_or_create_level are a node joining behind the tail of its
\* level.
LEMMA RestJoins ==
  ASSUME LinksInv, NEW o \in NewOrders, Rest(o)
  PROVE  Joined(o, free_head, LevelOf(o), LevelBefore(o).tail)
<1> DEFINE n == free_head
           key == LevelOf(o)
           t == LevelBefore(o).tail
           before == LevelBefore(o)
           entry == [head |-> IF before.head = Null THEN n ELSE before.head,
                     tail |-> n,
                     total_quantity |-> before.total_quantity + o.quantity,
                     order_count |-> before.order_count + 1]
<1>1. /\ n \in Nodes /\ ~Linked(n) /\ n # Null
  BY DEF LinksInv, TypeOK, LinksAgree, FreeAgrees, Rest
<1>2. o \in OrderType /\ key \in Keys /\ key # NoLevel
  BY NewOrderType, KeyOfOrder
<1>5. /\ t = Null <=> key \notin DOMAIN level_map
      /\ t # Null => /\ t \in Nodes /\ t # n /\ level[t] = key /\ next[t] = Null
                     /\ level_map[key].tail = t
      /\ entry \in LevelType
      /\ entry.head = IF key \in DOMAIN level_map THEN level_map[key].head ELSE n
  <2>1. CASE key \in DOMAIN level_map
    <3>1. before = level_map[key]
      BY <2>1 DEF LevelBefore, Found
    <3>2. before \in LevelType
      BY <2>1, <3>1 DEF LinksInv, TypeOK, LevelType
    <3>3. EndsAgree(key)
      BY <2>1 DEF LinksInv, LinksAgree
    <3>4. before.head # Null /\ t \in Nodes /\ level[t] = key /\ level_map[key].tail = t
      BY <3>1, <3>3, NullIsNoNode DEF EndsAgree
    <3>5. Linked(t)
      BY <3>4, <1>2 DEF Linked
    <3>6. NodeAgrees(t)
      BY <3>4, <3>5 DEF LinksInv, LinksAgree
    <3>7. t # n /\ next[t] = Null
      BY <1>1, <3>4, <3>5, <3>6 DEF NodeAgrees
    <3>8. entry \in LevelType
      BY <1>1, <1>2, <3>2, <3>4 DEF LevelType, OrderType
    <3> QED  BY <2>1, <3>1, <3>4, <3>7, <3>8, NullIsNoNode
  <2>2. CASE key \notin DOMAIN level_map
    <3>1. before = [head |-> Null, tail |-> Null, total_quantity |-> 0, order_count |-> 0]
      BY <2>2 DEF LevelBefore, Found
    <3>2. entry \in LevelType /\ entry.head = n /\ t = Null
      BY <1>1, <1>2, <3>1 DEF LevelType, OrderType
    <3> QED  BY <2>2, <3>2
  <2> QED  BY <2>1, <2>2
<1>6. /\ id_index[o.id] = Null
      /\ free_head' = next[n]
      /\ order' = [order EXCEPT ![n] = o]
      /\ level' = [level EXCEPT ![n] = key]
      /\ prev' = [prev EXCEPT ![n] = t]
      /\ id_index' = [id_index EXCEPT ![o.id] = n]
  BY DEF Rest
<1>7. /\ next' \in [Nodes -> Nodes \cup {Null}]
      /\ next'[n] = Null
      /\ t # Null => next'[t] = n
      /\ \A m \in Nodes : m # n /\ m # t => next'[m] = next[m]
  <2>1. next' = SetLink(SetLink(next, n, Null), t, n)
    BY DEF Rest
  <2>2. next \in [Nodes -> Nodes \cup {Null}]
    BY DEF LinksInv, TypeOK
  <2> QED  BY <1>1, <1>5, <2>1, <2>2 DEF SetLink
<1>8. level_map' = Put(level_map, key, entry)
  BY DEF Rest
<1>9. /\ DOMAIN level_map' = DOMAIN level_map \cup {key}
      /\ level_map'[key] = entry
      /\ \A k \in DOMAIN level_map : k # key => level_map'[k] = level_map[k]
  BY <1>8 DEF Put
<1> QED  BY <1>1, <1>2, <1>5, <1>6, <1>7, <1>9 DEF Joined

\* A node that joins keeps the types.
LEMMA JoinedKeepsType ==
  ASSUME LinksInv, NEW o, NEW n, NEW key, NEW t, Joined(o, n, key, t)
  PROVE  TypeOK'
<1>1. /\ order' \in [Nodes -> OrderType \cup {None}]
      /\ next' \in [Nodes -> Nodes \cup {Null}]
      /\ prev' \in [Nodes -> Nodes \cup {Null}]
      /\ level' \in [Nodes -> Keys \cup {NoLevel}]
      /\ free_head' \in Nodes \cup {Null}
  BY DEF Joined, LinksInv, TypeOK, OrderType
<1>2. id_index' \in [Ids -> Nodes \cup {Null}]
  BY DEF Joined, LinksInv, TypeOK
<1>3. DOMAIN level_map' \subseteq Keys
  BY DEF Joined, LinksInv, TypeOK
<1>4. \A k \in DOMAIN level_map' : level_map'[k] \in LevelType
  BY DEF Joined, LinksInv, TypeOK, LevelType
<1> QED  BY <1>1, <1>2, <1>3, <1>4 DEF TypeOK, OrderType, LevelType

\* A node that joins agrees with its neighbours, and every other node still does.
LEMMA JoinedKeepsLinks ==
  ASSUME LinksInv, NEW o, NEW n, NEW key, NEW t, Joined(o, n, key, t)
  PROVE  LinksAgree'
<1>a. /\ n \in Nodes /\ ~Linked(n) /\ n # Null /\ o.id \in Ids /\ o # None
      /\ key # NoLevel
      /\ order \in [Nodes -> OrderType \cup {None}]
      /\ prev \in [Nodes -> Nodes \cup {Null}]
      /\ next \in [Nodes -> Nodes \cup {Null}]
      /\ level \in [Nodes -> Keys \cup {NoLevel}]
      /\ id_index \in [Ids -> Nodes \cup {Null}]
  BY NullIsNoNode, KeyOfOrder, BookLevelsAssumption
     DEF Joined, LinksInv, TypeOK, OrderType, Sides
<1>b. \A m \in Nodes : m # n => /\ level'[m] = level[m]
                                /\ order'[m] = order[m]
                                /\ prev'[m] = prev[m]
  BY <1>a DEF Joined
<1>c. /\ level'[n] = key /\ order'[n] = o /\ prev'[n] = t /\ next'[n] = Null
      /\ id_index'[o.id] = n
      /\ \A id \in Ids : id # o.id => id_index'[id] = id_index[id]
  BY <1>a DEF Joined
<1>1. \A m \in Nodes : Linked(m)' => NodeAgrees(m)'
  <2> SUFFICES ASSUME NEW m \in Nodes, level'[m] # NoLevel
               PROVE  NodeAgrees(m)'
    BY DEF Linked
  <2>1. CASE m = n
    <3>1. /\ t # Null => level'[t] = key /\ next'[t] = n
          /\ t = Null <=> level_map'[key].head = n
      <4>1. CASE t = Null
        BY <1>a, <4>1 DEF Joined
      <4>2. CASE t # Null
        <5>1. level_map[key].head # n
          <6>1. key \in DOMAIN level_map
            BY <4>2 DEF Joined
          <6>2. level[level_map[key].head] = key
            BY <6>1 DEF LinksInv, LinksAgree, EndsAgree
          <6> QED  BY <1>a, <6>2 DEF Linked
        <5> QED  BY <1>b, <4>2, <5>1 DEF Joined
      <4> QED  BY <4>1, <4>2
    <3>2. key \in DOMAIN level_map' /\ level_map'[key].tail = n /\ key = LevelOf(o)
      BY DEF Joined
    <3> QED  BY <1>a, <1>c, <2>1, <3>1, <3>2 DEF NodeAgrees, LevelOf
  <2>2. CASE m # n
    <3>1. Linked(m) /\ NodeAgrees(m)
      BY <1>b, <2>2 DEF Linked, LinksInv, LinksAgree
    <3>2. level_map'[level[m]].head = level_map[level[m]].head
      BY <3>1 DEF Joined, NodeAgrees
    <3>3. /\ level'[m] \in DOMAIN level_map'
          /\ level'[m] = LevelOf(order'[m])
          /\ order'[m] # None
      BY <1>b, <2>2, <3>1 DEF Joined, NodeAgrees
    <3>4. id_index'[order'[m].id] = m
      <4>1. order[m].id # o.id
        BY <2>2, <3>1, NullIsNoNode DEF Joined, NodeAgrees
      <4>2. order[m].id \in Ids
        BY <3>1, LinkedOrder
      <4> QED  BY <1>b, <1>c, <2>2, <3>1, <4>1, <4>2 DEF NodeAgrees
    <3>5. prev'[m] = Null <=> level_map'[level'[m]].head = m
      BY <1>b, <2>2, <3>1, <3>2 DEF NodeAgrees
    <3>6. prev'[m] # Null => level'[prev'[m]] = level'[m] /\ next'[prev'[m]] = m
      <4> SUFFICES ASSUME prev[m] # Null
                   PROVE  level'[prev[m]] = level[m] /\ next'[prev[m]] = m
        BY <1>b, <2>2
      <4>1. prev[m] \in Nodes /\ level[prev[m]] = level[m] /\ next[prev[m]] = m
        BY <1>a, <3>1 DEF NodeAgrees
      <4>2. prev[m] # n
        BY <1>a, <3>1, <4>1 DEF Linked
      <4>3. prev[m] # t
        BY <4>1, NullIsNoNode DEF Joined
      <4> QED  BY <1>b, <4>1, <4>2, <4>3 DEF Joined
    <3>7. CASE m = t
      <4>1. next'[m] = n /\ level'[n] = level'[m] /\ prev'[n] = m
        BY <1>b, <1>c, <2>2, <3>7, NullIsNoNode DEF Joined
      <4>2. level_map'[level'[m]].tail # m
        BY <1>b, <2>2, <3>7, NullIsNoNode DEF Joined
      <4> QED  BY <1>a, <3>3, <3>4, <3>5, <3>6, <4>1, <4>2 DEF NodeAgrees, LevelOf
    <3>8. CASE m # t
      <4>1. next'[m] = next[m]
        BY <2>2, <3>8 DEF Joined
      <4>2. next[m] # Null => level'[next[m]] = level[m] /\ prev'[next[m]] = m
        <5> SUFFICES ASSUME next[m] # Null
                     PROVE  level'[next[m]] = level[m] /\ prev'[next[m]] = m
          OBVIOUS
        <5>1. next[m] \in Nodes /\ level[next[m]] = level[m] /\ prev[next[m]] = m
          BY <1>a, <3>1 DEF NodeAgrees
        <5>2. next[m] # n
          BY <1>a, <3>1, <5>1 DEF Linked
        <5> QED  BY <1>b, <5>1, <5>2
      <4>3. next[m] = Null <=> level_map'[level[m]].tail = m
        <5>1. CASE level[m] = key
          BY <2>2, <3>1, <3>8, <5>1 DEF Joined, NodeAgrees
        <5>2. CASE level[m] # key
          BY <3>1, <5>2 DEF Joined, NodeAgrees
        <5> QED  BY <5>1, <5>2
      <4> QED  BY <1>b, <2>2, <3>3, <3>4, <3>5, <3>6, <4>1, <4>2, <4>3 DEF NodeAgrees, LevelOf
    <3> QED  BY <3>7, <3>8
  <2> QED  BY <2>1, <2>2
<1>2. \A k \in DOMAIN level_map' : EndsAgree(k)'
  <2> SUFFICES ASSUME NEW k \in DOMAIN level_map'
               PROVE  EndsAgree(k)'
    OBVIOUS
  <2>1. CASE k \in DOMAIN level_map
    <3>1. EndsAgree(k)
      BY <2>1 DEF LinksInv, LinksAgree
    <3>2. k # NoLevel
      BY <2>1, KeyIsLevel DEF LinksInv, TypeOK
    <3>3. level_map'[k].head = level_map[k].head
      BY <2>1 DEF Joined
    <3>4. level_map'[k].tail = level_map[k].tail \/ (k = key /\ level_map'[k].tail = n)
      BY <2>1 DEF Joined
    <3> QED  BY <1>a, <1>b, <1>c, <3>1, <3>2, <3>3, <3>4 DEF EndsAgree, Linked
  <2>2. CASE k \notin DOMAIN level_map
    BY <1>a, <1>c, <2>2 DEF Joined, EndsAgree
  <2> QED  BY <2>1, <2>2
<1>3. \A id \in Ids : IndexAgrees(id)'
  <2> SUFFICES ASSUME NEW id \in Ids, id_index'[id] # Null
               PROVE  level'[id_index'[id]] # NoLevel /\ order'[id_index'[id]].id = id
    BY DEF IndexAgrees, Linked
  <2>1. CASE id = o.id
    BY <1>a, <1>c, <2>1
  <2>2. CASE id # o.id
    <3>1. id_index'[id] = id_index[id] /\ id_index[id] \in Nodes
      BY <1>a, <1>c, <2>2
    <3>2. Linked(id_index[id]) /\ order[id_index[id]].id = id
      BY <3>1, NullIsNoNode DEF LinksInv, LinksAgree, IndexAgrees
    <3>3. id_index[id] # n
      BY <1>a, <3>2
    <3> QED  BY <1>b, <3>1, <3>2, <3>3 DEF Linked
  <2> QED  BY <2>1, <2>2
<1>4. FreeAgrees'
  <2>1. free_head' # Null => free_head' # n /\ ~Linked(free_head')
    BY <1>a DEF Joined, LinksInv, LinksAgree, FreeAgrees, FreeListOK
  <2>2. free_head' # Null => level'[free_head'] = NoLevel
    BY <1>a, <1>b, <2>1 DEF Joined, Linked
  <2>3. ASSUME NEW m \in Nodes, level'[m] = NoLevel, next'[m] # Null
        PROVE  level'[next'[m]] = NoLevel
    <3>1. m # n
      BY <1>a, <1>c, <2>3
    <3>2. ~Linked(m)
      BY <1>b, <2>3, <3>1 DEF Linked
    <3>3. m # t
      BY <1>a, <3>2, NullIsNoNode DEF Joined, Linked
    <3>4. next'[m] = next[m]
      BY <3>1, <3>3 DEF Joined
    <3>5. next[m] \in Nodes /\ next[m] # n /\ ~Linked(next[m])
      BY <1>a, <2>3, <3>2, <3>4 DEF Joined, LinksInv, LinksAgree, FreeAgrees, FreeListOK
    <3> QED  BY <1>b, <3>4, <3>5 DEF Linked
  <2> QED  BY <2>2, <2>3 DEF FreeAgrees, Linked
<1> QED  BY <1>1, <1>2, <1>3, <1>4 DEF LinksAgree

\* The free list without its first node (acquire).
LEMMA JoinedKeepsFreeList ==
  ASSUME LinksInv, NEW o, NEW n, NEW key, NEW t, Joined(o, n, key, t)
  PROVE  FreeListOK'
<1>1. /\ n \in Nodes /\ ~Linked(n) /\ n = free_head
      /\ level \in [Nodes -> Keys \cup {NoLevel}]
      /\ key # NoLevel
  BY KeyIsLevel DEF Joined, LinksInv, TypeOK
<1>2. \A m \in Nodes : level'[m] = NoLevel => m # n /\ ~Linked(m) /\ m # t
  BY <1>1, NullIsNoNode DEF Joined, Linked
<1>3. \A m \in Nodes : level'[m] = NoLevel => next'[m] = next[m]
  BY <1>2 DEF Joined
<1> SUFFICES ASSUME NEW m \in Nodes, NEW k \in Nodes,
                    level'[m] = NoLevel, level'[k] = NoLevel, next[m] # Null
             PROVE  next[m] # next[n] /\ (next[m] = next[k] => m = k)
  BY <1>3 DEF FreeListOK, Linked, Joined
<1> QED  BY <1>1, <1>2 DEF FreeListOK, LinksInv

\* The node that joins gets a number higher than any before (the back of the level).
LEMMA JoinedKeepsOrder ==
  ASSUME LinksInv, NEW o, NEW n, NEW key, NEW t, Joined(o, n, key, t)
  PROVE  QueuesOrdered'
<1>1. PICK ticket \in [Nodes -> Nat], last \in Nat :
        (\A m \in Nodes : ticket[m] < last) /\ InOrder(ticket)
  BY DEF LinksInv, QueuesOrdered
<1> DEFINE new == [ticket EXCEPT ![n] = last]
<1>2. n \in Nodes /\ ~Linked(n) /\ key # NoLevel
  BY KeyIsLevel DEF Joined
<1>3. new \in [Nodes -> Nat] /\ \A m \in Nodes : new[m] < last + 1
  BY <1>1, <1>2
<1>4. new[n] = last /\ \A m \in Nodes : m # n => new[m] = ticket[m] /\ new[m] < last
  BY <1>1, <1>2
<1>5. /\ level'[n] = key /\ next'[n] = Null
      /\ \A m \in Nodes : m # n => level'[m] = level[m]
  BY <1>2 DEF Joined, LinksInv, TypeOK
<1> HIDE DEF new
<1>6. InOrder(new)'
  <2> SUFFICES ASSUME NEW m \in Nodes, NEW k \in Nodes,
                      level'[m] # NoLevel, level'[k] = level'[m]
               PROVE  /\ new[m] = new[k] => m = k
                      /\ level_map'[level'[m]].head = m => new[m] <= new[k]
                      /\ level_map'[level'[m]].tail = m => new[k] <= new[m]
                      /\ next'[m] # Null =>
                           /\ new[m] < new[next'[m]]
                           /\ new[m] < new[k] => new[next'[m]] <= new[k]
    BY DEF InOrder, Linked
  <2>1. CASE m = n
    <3>1. new[m] = new[k] => m = k
      BY <1>4, <2>1, <1>3
    <3>2. level_map'[level'[m]].tail = m => new[k] <= new[m]
      BY <1>3, <1>4, <2>1
    <3>3. level_map'[level'[m]].head = m => new[m] <= new[k]
      <4> SUFFICES ASSUME level_map'[key].head = n, k # n
                   PROVE  FALSE
        BY <1>3, <1>4, <1>5, <2>1
      <4>1. level[k] = key /\ Linked(k)
        BY <1>5, <2>1, <1>2 DEF Linked
      <4>2. key \in DOMAIN level_map
        BY <4>1, LinkedOrder
      <4>3. level_map[key].head = n
        BY <4>2 DEF Joined
      <4>4. level[n] = key
        BY <4>2, <4>3 DEF LinksInv, LinksAgree, EndsAgree
      <4> QED  BY <1>2, <4>4 DEF Linked
    <3> QED  BY <1>5, <2>1, <3>1, <3>2, <3>3
  <2>2. CASE m # n
    <3>1. Linked(m) /\ level'[m] = level[m] /\ NodeAgrees(m) /\ level[m] \in DOMAIN level_map
      BY <1>5, <2>2, LinkedOrder DEF Linked
    <3>2. k # n => Linked(k) /\ level[k] = level[m]
      BY <1>5, <2>2 DEF Linked
    <3>3. new[m] = new[k] => m = k
      BY <1>1, <1>3, <1>4, <2>2, <3>1, <3>2 DEF InOrder
    <3>4. level_map'[level'[m]].head = m => new[m] <= new[k]
      <4>1. level_map'[level'[m]].head = level_map[level[m]].head
        BY <3>1 DEF Joined
      <4>2. CASE k = n
        BY <1>3, <1>4, <2>2, <4>2
      <4>3. CASE k # n
        BY <1>1, <1>4, <2>2, <3>1, <3>2, <4>1, <4>3 DEF InOrder
      <4> QED  BY <4>2, <4>3
    <3>5. level_map'[level'[m]].tail = m => new[k] <= new[m]
      <4>1. CASE level[m] = key
        BY <2>2, <3>1, <4>1 DEF Joined
      <4>2. CASE level[m] # key
        <5>1. level_map'[level'[m]].tail = level_map[level[m]].tail
          BY <3>1, <4>2 DEF Joined
        <5>2. k # n
          BY <1>5, <3>1, <4>2
        <5> QED  BY <1>1, <1>4, <2>2, <3>1, <3>2, <5>1, <5>2 DEF InOrder
      <4> QED  BY <4>1, <4>2
    <3>6. next'[m] # Null =>
            /\ new[m] < new[next'[m]]
            /\ new[m] < new[k] => new[next'[m]] <= new[k]
      <4>1. CASE m = t
        <5>1. next'[m] = n /\ level_map[level[m]].tail = m
          BY <2>2, <3>1, <4>1, NullIsNoNode DEF Joined
        <5>2. k # n => new[k] <= new[m]
          BY <1>1, <1>4, <2>2, <3>1, <3>2, <5>1 DEF InOrder
        <5> QED  BY <1>2, <1>3, <1>4, <2>2, <5>1, <5>2
      <4>2. CASE m # t
        <5>1. next'[m] = next[m]
          BY <2>2, <4>2 DEF Joined
        <5> SUFFICES ASSUME next[m] # Null
                     PROVE  /\ new[m] < new[next[m]]
                            /\ new[m] < new[k] => new[next[m]] <= new[k]
          BY <5>1
        <5>2. next[m] \in Nodes /\ level[next[m]] = level[m]
          BY <3>1 DEF NodeAgrees, LinksInv, TypeOK
        <5>3. next[m] # n
          BY <1>2, <3>1, <5>2 DEF Linked
        <5>4. ticket[m] < ticket[next[m]]
          BY <1>1, <3>1 DEF InOrder
        <5>5. CASE k = n
          BY <1>3, <1>4, <2>2, <5>2, <5>3, <5>4, <5>5
        <5>6. CASE k # n
          BY <1>1, <1>4, <2>2, <3>1, <3>2, <5>2, <5>3, <5>4, <5>6 DEF InOrder
        <5> QED  BY <5>5, <5>6
      <4> QED  BY <4>1, <4>2
    <3> QED  BY <3>3, <3>4, <3>5, <3>6
  <2> QED  BY <2>1, <2>2
<1> QED  BY <1>3, <1>6 DEF QueuesOrdered

-----------------------------------------------------------------------------
(* What leaving a level does, node by node (remove_resting) *)

\* Node n, between p and k in the level under key, goes to the free list, and the
\* level goes if it was its only node.
Left(n, key, p, k, id) ==
  /\ n \in Nodes /\ Linked(n)
  /\ key = level[n] /\ p = prev[n] /\ k = next[n] /\ id = order[n].id
  /\ p # n /\ k # n /\ (p # Null => p # k)
  /\ free_head' = n
  /\ order' \in [Nodes -> OrderType \cup {None}]
  /\ \A m \in Nodes : m # n => order'[m] = order[m]
  /\ next' \in [Nodes -> Nodes \cup {Null}]
  /\ next'[n] = free_head
  /\ p # Null => next'[p] = k
  /\ \A m \in Nodes : m # n /\ m # p => next'[m] = next[m]
  /\ prev' \in [Nodes -> Nodes \cup {Null}]
  /\ prev'[n] = Null
  /\ k # Null => prev'[k] = p
  /\ \A m \in Nodes : m # n /\ m # k => prev'[m] = prev[m]
  /\ level' = [level EXCEPT ![n] = NoLevel]
  /\ id_index' = [id_index EXCEPT ![id] = Null]
  /\ DOMAIN level_map' \in {DOMAIN level_map, DOMAIN level_map \ {key}}
  /\ \A other \in DOMAIN level_map : other # key => level_map'[other] = level_map[other]
  /\ key \in DOMAIN level_map' =>
       /\ level_map'[key] \in LevelType
       /\ level_map'[key].head # Null
       /\ level_map'[key].head = IF level_map[key].head = n THEN k ELSE level_map[key].head
       /\ level_map'[key].tail = IF level_map[key].tail = n THEN p ELSE level_map[key].tail
  /\ key \notin DOMAIN level_map' => \A m \in Nodes : level[m] = key => m = n

\* The neighbours of a node are other nodes than itself, and two.
LEMMA Neighbours ==
  ASSUME LinksInv, NEW n \in Nodes, Linked(n)
  PROVE  /\ prev[n] # n /\ next[n] # n
         /\ prev[n] # Null => prev[n] # next[n]
         /\ level_map[level[n]].head = n /\ next[n] = Null =>
              \A m \in Nodes : level[m] = level[n] => m = n
<1>1. PICK ticket \in [Nodes -> Nat], last \in Nat : InOrder(ticket)
  BY DEF LinksInv, QueuesOrdered
<1>2. NodeAgrees(n) /\ next[n] \in Nodes \cup {Null} /\ prev[n] \in Nodes \cup {Null}
  BY LinkedOrder DEF LinksInv, TypeOK
<1>3. next[n] # Null => ticket[n] < ticket[next[n]]
  BY <1>1 DEF InOrder
<1>4. prev[n] # Null => ticket[prev[n]] < ticket[n]
  <2> SUFFICES ASSUME prev[n] # Null PROVE ticket[prev[n]] < ticket[n]
    OBVIOUS
  <2>1. prev[n] \in Nodes /\ level[prev[n]] = level[n] /\ next[prev[n]] = n
    BY <1>2 DEF NodeAgrees
  <2>2. Linked(prev[n])
    BY <2>1 DEF Linked
  <2>3. next[prev[n]] # Null
    BY <2>1, NullIsNoNode
  <2>4. ticket[prev[n]] < ticket[next[prev[n]]]
    BY <1>1, <2>1, <2>2, <2>3 DEF InOrder
  <2> QED  BY <2>1, <2>4
<1>5. level_map[level[n]].head = n /\ next[n] = Null =>
        \A m \in Nodes : level[m] = level[n] => m = n
  <2> SUFFICES ASSUME level_map[level[n]].head = n, next[n] = Null,
                      NEW m \in Nodes, level[m] = level[n]
               PROVE  m = n
    OBVIOUS
  <2>1. level_map[level[n]].tail = n
    BY <1>2 DEF NodeAgrees
  <2>2. ticket[n] <= ticket[m] /\ ticket[m] <= ticket[n]
    BY <1>1, <2>1 DEF InOrder, Linked
  <2>3. ticket[n] = ticket[m]
    BY <1>1, <2>2
  <2> QED  BY <1>1, <2>3 DEF InOrder, Linked
<1>6. ticket[n] \in Nat /\ (next[n] # Null => ticket[next[n]] \in Nat)
      /\ (prev[n] # Null => ticket[prev[n]] \in Nat)
  BY <1>1, <1>2
<1>7. prev[n] # n /\ next[n] # n
  BY <1>3, <1>4, <1>6, NullIsNoNode
<1>8. prev[n] # Null => prev[n] # next[n]
  BY <1>3, <1>4, <1>6
<1> QED  BY <1>5, <1>7, <1>8

\* unlink, the erase of an empty level, and release.
LEMMA RemoveLeaves ==
  ASSUME LinksInv, NEW n \in Nodes, Linked(n), NEW by \in Int, RemoveAfter(n, by),
         order' \in [Nodes -> OrderType \cup {None}],
         \A m \in Nodes : m # n => order'[m] = order[m]
  PROVE  Left(n, level[n], prev[n], next[n], order[n].id)
<1> DEFINE key == level[n]
           p == prev[n]
           k == next[n]
           old == level_map[key]
<1>1. /\ NodeAgrees(n) /\ order[n] \in OrderType /\ key \in DOMAIN level_map
      /\ old \in LevelType
  BY LinkedOrder
<1>2. /\ next \in [Nodes -> Nodes \cup {Null}]
      /\ prev \in [Nodes -> Nodes \cup {Null}]
      /\ free_head \in Nodes \cup {Null}
      /\ k \in Nodes \cup {Null} /\ p \in Nodes \cup {Null}
  BY DEF LinksInv, TypeOK
<1>3. p # n /\ k # n /\ (p # Null => p # k) /\ n # Null
  BY Neighbours, NullIsNoNode
<1>4. /\ next' \in [Nodes -> Nodes \cup {Null}]
      /\ next'[n] = free_head
      /\ p # Null => next'[p] = k
      /\ \A m \in Nodes : m # n /\ m # p => next'[m] = next[m]
  BY <1>2, <1>3 DEF RemoveAfter, NextAfter, SetLink
<1>5. /\ prev' \in [Nodes -> Nodes \cup {Null}]
      /\ prev'[n] = Null
      /\ k # Null => prev'[k] = p
      /\ \A m \in Nodes : m # n /\ m # k => prev'[m] = prev[m]
  BY <1>2, <1>3 DEF RemoveAfter, PrevAfter, SetLink, Null
<1>6. Reduced(n, by)[key] = [old EXCEPT !.total_quantity = @ - by]
  BY <1>1 DEF Reduced
<1>7. /\ Without(n, by) \in LevelType
      /\ Without(n, by).head = IF old.head = n THEN k ELSE old.head
      /\ Without(n, by).tail = IF old.tail = n THEN p ELSE old.tail
  BY <1>1, <1>2, <1>6 DEF Without, LevelType, OrderType
<1>8. CASE Without(n, by).head = Null
  <2>1. EndsAgree(key)
    BY <1>1 DEF LinksInv, LinksAgree
  <2>2. old.head = n /\ k = Null
    BY <1>7, <1>8, <2>1, NullIsNoNode DEF EndsAgree
  <2>3. \A m \in Nodes : level[m] = key => m = n
    BY <2>2, Neighbours
  <2>4. level_map' = Erase(level_map, key)
    BY <1>8 DEF RemoveAfter
  <2>5. /\ DOMAIN level_map' = DOMAIN level_map \ {key}
        /\ \A other \in DOMAIN level_map : other # key => level_map'[other] = level_map[other]
    BY <2>4 DEF Erase
  <2> QED  BY <1>3, <1>4, <1>5, <2>3, <2>5 DEF Left, RemoveAfter
<1>9. CASE Without(n, by).head # Null
  <2>1. level_map' = Put(level_map, key, Without(n, by))
    BY <1>9 DEF RemoveAfter
  <2>2. /\ DOMAIN level_map' = DOMAIN level_map
        /\ level_map'[key] = Without(n, by)
        /\ \A other \in DOMAIN level_map : other # key => level_map'[other] = level_map[other]
    BY <1>1, <2>1 DEF Put
  <2> QED  BY <1>1, <1>3, <1>4, <1>5, <1>7, <1>9, <2>2 DEF Left, RemoveAfter
<1> QED  BY <1>8, <1>9

\* A node that leaves keeps the types.
LEMMA LeftKeepsType ==
  ASSUME LinksInv, NEW n, NEW key, NEW p, NEW k, NEW id, Left(n, key, p, k, id)
  PROVE  TypeOK'
<1>1. /\ order' \in [Nodes -> OrderType \cup {None}]
      /\ next' \in [Nodes -> Nodes \cup {Null}]
      /\ prev' \in [Nodes -> Nodes \cup {Null}]
      /\ level' \in [Nodes -> Keys \cup {NoLevel}]
      /\ free_head' \in Nodes \cup {Null}
  BY DEF Left, LinksInv, TypeOK
<1>2. id_index' \in [Ids -> Nodes \cup {Null}]
  BY DEF Left, LinksInv, TypeOK
<1>3. DOMAIN level_map' \subseteq DOMAIN level_map
  BY DEF Left
<1>4. \A other \in DOMAIN level_map' : level_map'[other] \in LevelType
  <2> SUFFICES ASSUME NEW other \in DOMAIN level_map'
               PROVE  level_map'[other] \in LevelType
    OBVIOUS
  <2>1. CASE other = key
    BY <2>1 DEF Left
  <2>2. CASE other # key
    BY <1>3, <2>2 DEF Left, LinksInv, TypeOK, LevelType
  <2> QED  BY <2>1, <2>2
<1>5. DOMAIN level_map' \subseteq Keys
  BY <1>3 DEF LinksInv, TypeOK
<1> QED  BY <1>1, <1>2, <1>4, <1>5 DEF TypeOK, OrderType, LevelType

\* When a node leaves, its neighbours agree with each other, and all else stays.
LEMMA LeftKeepsLinks ==
  ASSUME LinksInv, NEW n, NEW key, NEW p, NEW k, NEW id, Left(n, key, p, k, id)
  PROVE  LinksAgree'
<1>a. /\ n \in Nodes /\ Linked(n) /\ n # Null /\ key # NoLevel
      /\ NodeAgrees(n) /\ id \in Ids /\ key \in DOMAIN level_map
      /\ prev \in [Nodes -> Nodes \cup {Null}]
      /\ next \in [Nodes -> Nodes \cup {Null}]
      /\ level \in [Nodes -> Keys \cup {NoLevel}]
      /\ id_index \in [Ids -> Nodes \cup {Null}]
      /\ p \in Nodes \cup {Null} /\ k \in Nodes \cup {Null}
  BY NullIsNoNode, LinkedOrder DEF Left, LinksInv, TypeOK, Linked
<1>b. /\ level'[n] = NoLevel
      /\ \A m \in Nodes : m # n => level'[m] = level[m]
      /\ id_index'[id] = Null
      /\ \A other \in Ids : other # id => id_index'[other] = id_index[other]
  BY <1>a DEF Left
<1>c. /\ p # Null => level[p] = key /\ next[p] = n
      /\ k # Null => level[k] = key /\ prev[k] = n
      /\ p = Null <=> level_map[key].head = n
      /\ k = Null <=> level_map[key].tail = n
  BY <1>a DEF Left, NodeAgrees
<1>1. \A m \in Nodes : Linked(m)' => NodeAgrees(m)'
  <2> SUFFICES ASSUME NEW m \in Nodes, level'[m] # NoLevel
               PROVE  NodeAgrees(m)'
    BY DEF Linked
  <2>1. m # n /\ level'[m] = level[m] /\ Linked(m) /\ order'[m] = order[m]
    BY <1>b DEF Linked, Left
  <2>2. /\ NodeAgrees(m) /\ order[m].id \in Ids /\ level[m] \in DOMAIN level_map
        /\ level[m] \in Keys
    BY <2>1, LinkedOrder
  <2>3. level[m] \in DOMAIN level_map' /\ level[m] = LevelOf(order'[m]) /\ order'[m] # None
    BY <2>1, <2>2 DEF Left, NodeAgrees
  <2>4. id_index'[order'[m].id] = m
    <3>1. order[m].id # id
      BY <1>a, <2>1, <2>2 DEF Left, NodeAgrees
    <3> QED  BY <1>b, <2>1, <2>2, <3>1 DEF NodeAgrees
  <2>5. next'[m] # Null => level'[next'[m]] = level[m] /\ prev'[next'[m]] = m
    <3> SUFFICES ASSUME next'[m] # Null
                 PROVE  level'[next'[m]] = level[m] /\ prev'[next'[m]] = m
      OBVIOUS
    <3>1. CASE m = p
      BY <1>a, <1>b, <1>c, <2>1, <3>1, NullIsNoNode DEF Left
    <3>2. CASE m # p
      <4>1. next'[m] = next[m] /\ next[m] \in Nodes /\ level[next[m]] = level[m]
            /\ prev[next[m]] = m
        BY <1>a, <2>1, <2>2, <3>2 DEF Left, NodeAgrees
      <4>2. next[m] # n
        BY <3>2, <4>1 DEF Left
      <4>3. next[m] # k
        BY <1>a, <1>c, <2>1, <4>1, NullIsNoNode
      <4> QED  BY <1>b, <4>1, <4>2, <4>3 DEF Left
    <3> QED  BY <3>1, <3>2
  <2>6. prev'[m] # Null => level'[prev'[m]] = level[m] /\ next'[prev'[m]] = m
    <3> SUFFICES ASSUME prev'[m] # Null
                 PROVE  level'[prev'[m]] = level[m] /\ next'[prev'[m]] = m
      OBVIOUS
    <3>1. CASE m = k
      BY <1>a, <1>b, <1>c, <2>1, <3>1, NullIsNoNode DEF Left
    <3>2. CASE m # k
      <4>1. prev'[m] = prev[m] /\ prev[m] \in Nodes /\ level[prev[m]] = level[m]
            /\ next[prev[m]] = m
        BY <1>a, <2>1, <2>2, <3>2 DEF Left, NodeAgrees
      <4>2. prev[m] # n
        BY <3>2, <4>1 DEF Left
      <4>3. prev[m] # p
        BY <1>a, <1>c, <2>1, <4>1, NullIsNoNode
      <4> QED  BY <1>b, <4>1, <4>2, <4>3 DEF Left
    <3> QED  BY <3>1, <3>2
  <2>7. prev'[m] = Null <=> level_map'[level[m]].head = m
    <3>1. CASE level[m] # key
      <4>1. level_map'[level[m]] = level_map[level[m]]
        BY <2>2, <3>1 DEF Left
      <4>2. prev'[m] = prev[m]
        BY <1>a, <1>c, <2>1, <3>1, NullIsNoNode DEF Left
      <4> QED  BY <2>2, <4>1, <4>2 DEF NodeAgrees
    <3>2. CASE level[m] = key
      <4>1. level_map'[key].head = IF level_map[key].head = n THEN k ELSE level_map[key].head
        BY <2>3, <3>2 DEF Left
      <4>2. CASE m = k
        BY <1>a, <1>c, <2>1, <2>2, <3>2, <4>1, <4>2, NullIsNoNode DEF Left, NodeAgrees
      <4>3. CASE m # k
        <5>1. prev'[m] = prev[m]
          BY <2>1, <4>3 DEF Left
        <5>2. prev[m] = Null <=> level_map[key].head = m
          BY <2>2, <3>2 DEF NodeAgrees
        <5> QED  BY <2>1, <3>2, <4>1, <4>3, <5>1, <5>2
      <4> QED  BY <4>2, <4>3
    <3> QED  BY <3>1, <3>2
  <2>8. next'[m] = Null <=> level_map'[level[m]].tail = m
    <3>1. CASE level[m] # key
      <4>1. level_map'[level[m]] = level_map[level[m]]
        BY <2>2, <3>1 DEF Left
      <4>2. next'[m] = next[m]
        BY <1>a, <1>c, <2>1, <3>1, NullIsNoNode DEF Left
      <4> QED  BY <2>2, <4>1, <4>2 DEF NodeAgrees
    <3>2. CASE level[m] = key
      <4>1. level_map'[key].tail = IF level_map[key].tail = n THEN p ELSE level_map[key].tail
        BY <2>3, <3>2 DEF Left
      <4>2. CASE m = p
        BY <1>a, <1>c, <2>1, <2>2, <3>2, <4>1, <4>2, NullIsNoNode DEF Left, NodeAgrees
      <4>3. CASE m # p
        <5>1. next'[m] = next[m]
          BY <2>1, <4>3 DEF Left
        <5>2. next[m] = Null <=> level_map[key].tail = m
          BY <2>2, <3>2 DEF NodeAgrees
        <5> QED  BY <2>1, <3>2, <4>1, <4>3, <5>1, <5>2
      <4> QED  BY <4>2, <4>3
    <3> QED  BY <3>1, <3>2
  <2> QED  BY <2>1, <2>3, <2>4, <2>5, <2>6, <2>7, <2>8 DEF NodeAgrees, LevelOf
<1>2. \A other \in DOMAIN level_map' : EndsAgree(other)'
  <2> SUFFICES ASSUME NEW other \in DOMAIN level_map'
               PROVE  EndsAgree(other)'
    OBVIOUS
  <2>1. other \in DOMAIN level_map /\ other # NoLevel
    BY KeyIsLevel DEF Left, LinksInv, TypeOK
  <2>2. EndsAgree(other)
    BY <2>1 DEF LinksInv, LinksAgree
  <2>3. CASE other # key
    <3>1. level_map'[other] = level_map[other]
      BY <2>1, <2>3 DEF Left
    <3>2. level_map[other].head # n /\ level_map[other].tail # n
      BY <2>2, <2>3 DEF EndsAgree, Left
    <3> QED  BY <1>b, <2>2, <3>1, <3>2 DEF EndsAgree
  <2>4. CASE other = key
    <3>1. /\ level_map'[key].head # Null
          /\ level_map'[key].head = IF level_map[key].head = n THEN k ELSE level_map[key].head
          /\ level_map'[key].tail = IF level_map[key].tail = n THEN p ELSE level_map[key].tail
      BY <2>4 DEF Left
    <3>2. level_map'[key].head \in Nodes /\ level'[level_map'[key].head] = key
      BY <1>a, <1>b, <1>c, <2>2, <2>4, <3>1 DEF EndsAgree, Left
    <3>3. level_map'[key].tail \in Nodes /\ level'[level_map'[key].tail] = key
      <4>1. CASE level_map[key].tail = n
        <5>1. p # Null
          BY <1>c, <3>1, <4>1
        <5> QED  BY <1>a, <1>b, <1>c, <3>1, <4>1, <5>1 DEF Left
      <4>2. CASE level_map[key].tail # n
        BY <1>b, <2>2, <2>4, <3>1, <4>2 DEF EndsAgree
      <4> QED  BY <4>1, <4>2
    <3> QED  BY <2>4, <3>2, <3>3 DEF EndsAgree
  <2> QED  BY <2>3, <2>4
<1>3. \A other \in Ids : IndexAgrees(other)'
  <2> SUFFICES ASSUME NEW other \in Ids, id_index'[other] # Null
               PROVE  level'[id_index'[other]] # NoLevel /\ order'[id_index'[other]].id = other
    BY DEF IndexAgrees, Linked
  <2>1. other # id /\ id_index'[other] = id_index[other] /\ id_index[other] \in Nodes
    BY <1>a, <1>b
  <2>2. Linked(id_index[other]) /\ order[id_index[other]].id = other
    BY <2>1, NullIsNoNode DEF LinksInv, LinksAgree, IndexAgrees
  <2>3. id_index[other] # n
    BY <2>1, <2>2 DEF Left
  <2> QED  BY <1>b, <2>1, <2>2, <2>3 DEF Linked, Left
<1>4. FreeAgrees'
  <2>1. level'[free_head'] = NoLevel
    BY <1>b DEF Left
  <2>2. ASSUME NEW m \in Nodes, level'[m] = NoLevel, next'[m] # Null
        PROVE  level'[next'[m]] = NoLevel
    <3>1. CASE m = n
      <4>1. next'[m] = free_head /\ free_head \in Nodes
        BY <2>2, <3>1 DEF Left, LinksInv, TypeOK
      <4>2. level[free_head] = NoLevel
        BY <2>2, <4>1 DEF LinksInv, LinksAgree, FreeAgrees, Linked
      <4>3. free_head # n
        BY <1>a, <4>2 DEF Linked
      <4> QED  BY <1>b, <4>1, <4>2, <4>3
    <3>2. CASE m # n
      <4>1. level[m] = NoLevel /\ m # p
        BY <1>a, <1>b, <1>c, <2>2, <3>2, NullIsNoNode
      <4>2. next'[m] = next[m] /\ next[m] \in Nodes /\ level[next[m]] = NoLevel
        BY <1>a, <2>2, <3>2, <4>1 DEF Left, LinksInv, LinksAgree, FreeAgrees, Linked
      <4>3. next[m] # n
        BY <1>a, <4>2 DEF Linked
      <4> QED  BY <1>b, <4>2, <4>3
    <3> QED  BY <3>1, <3>2
  <2> QED  BY <2>1, <2>2 DEF FreeAgrees, Linked
<1> QED  BY <1>1, <1>2, <1>3, <1>4 DEF LinksAgree

\* The free list with one more node in front (release).
LEMMA LeftKeepsFreeList ==
  ASSUME LinksInv, NEW n, NEW key, NEW p, NEW k, NEW id, Left(n, key, p, k, id)
  PROVE  FreeListOK'
<1>1. /\ n \in Nodes /\ Linked(n) /\ NodeAgrees(n)
      /\ next \in [Nodes -> Nodes \cup {Null}]
      /\ level \in [Nodes -> Keys \cup {NoLevel}]
      /\ p # Null => level[p] # NoLevel
      /\ free_head # n
  <2>1. n \in Nodes /\ Linked(n) /\ NodeAgrees(n)
    BY LinkedOrder DEF Left
  <2>2. p # Null => level[p] # NoLevel
    BY <2>1 DEF Left, NodeAgrees, Linked
  <2>3. free_head # n
    BY <2>1, NullIsNoNode DEF LinksInv, LinksAgree, FreeAgrees
  <2> QED  BY <2>1, <2>2, <2>3 DEF LinksInv, TypeOK
<1>2. \A m \in Nodes : m # n /\ level'[m] = NoLevel =>
        /\ ~Linked(m)
        /\ next'[m] = next[m]
        /\ next[m] # n
  <2> SUFFICES ASSUME NEW m \in Nodes, m # n, level'[m] = NoLevel
               PROVE  ~Linked(m) /\ next'[m] = next[m] /\ next[m] # n
    OBVIOUS
  <2>1. level[m] = NoLevel
    BY <1>1 DEF Left
  <2>2. m # p
    BY <1>1, <2>1, NullIsNoNode
  <2>3. next[m] # n
    BY <1>1, <2>1, NullIsNoNode DEF LinksInv, LinksAgree, FreeAgrees, Linked
  <2> QED  BY <2>1, <2>2, <2>3 DEF Left, Linked
<1>3. next'[n] = free_head /\ free_head' = n
  BY DEF Left
<1> SUFFICES ASSUME NEW m \in Nodes, NEW o \in Nodes,
                    level'[m] = NoLevel, level'[o] = NoLevel, next'[m] # Null
             PROVE  next'[m] # free_head' /\ (next'[m] = next'[o] => m = o)
  BY DEF FreeListOK, Linked
<1>4. next'[m] # free_head'
  BY <1>1, <1>2, <1>3
<1>5. next'[m] = next'[o] => m = o
  <2>1. CASE m # n /\ o # n
    BY <1>2, <2>1 DEF FreeListOK, LinksInv
  <2>2. CASE m = n /\ o # n
    BY <1>2, <1>3, <2>2 DEF FreeListOK, LinksInv
  <2>3. CASE m # n /\ o = n
    BY <1>2, <1>3, <2>3 DEF FreeListOK, LinksInv
  <2> QED  BY <2>1, <2>2, <2>3
<1> QED  BY <1>4, <1>5

\* The numbers of the nodes that stay are still in order, and the two neighbours
\* are now next to each other.
LEMMA LeftKeepsOrder ==
  ASSUME LinksInv, NEW n, NEW key, NEW p, NEW k, NEW id, Left(n, key, p, k, id)
  PROVE  QueuesOrdered'
<1>1. PICK ticket \in [Nodes -> Nat], last \in Nat :
        (\A m \in Nodes : ticket[m] < last) /\ InOrder(ticket)
  BY DEF LinksInv, QueuesOrdered
<1>2. /\ n \in Nodes /\ Linked(n) /\ NodeAgrees(n) /\ key \in DOMAIN level_map
      /\ p \in Nodes \cup {Null} /\ k \in Nodes \cup {Null} /\ n # Null
  BY LinkedOrder, NullIsNoNode DEF Left, LinksInv, TypeOK
<1>3. /\ level'[n] = NoLevel
      /\ \A m \in Nodes : m # n => level'[m] = level[m]
  BY <1>2 DEF Left, LinksInv, TypeOK
<1>4. /\ p # Null => level[p] = key /\ next[p] = n /\ Linked(p)
      /\ k # Null => level[k] = key /\ prev[k] = n /\ Linked(k)
      /\ p = Null <=> level_map[key].head = n
      /\ k = Null <=> level_map[key].tail = n
  BY <1>2 DEF Left, NodeAgrees, Linked
<1>5. InOrder(ticket)'
  <2> SUFFICES ASSUME NEW m \in Nodes, NEW o \in Nodes,
                      level'[m] # NoLevel, level'[o] = level'[m]
               PROVE  /\ ticket[m] = ticket[o] => m = o
                      /\ level_map'[level'[m]].head = m => ticket[m] <= ticket[o]
                      /\ level_map'[level'[m]].tail = m => ticket[o] <= ticket[m]
                      /\ next'[m] # Null =>
                           /\ ticket[m] < ticket[next'[m]]
                           /\ ticket[m] < ticket[o] => ticket[next'[m]] <= ticket[o]
    BY DEF InOrder, Linked
  <2>1. /\ m # n /\ o # n /\ Linked(m) /\ Linked(o)
        /\ level'[m] = level[m] /\ level[o] = level[m]
    BY <1>3 DEF Linked
  <2>2. NodeAgrees(m) /\ level[m] \in DOMAIN level_map
    BY <2>1, LinkedOrder
  <2>3. /\ ticket[m] \in Nat /\ ticket[o] \in Nat /\ ticket[n] \in Nat
        /\ k # Null => ticket[k] \in Nat
        /\ p # Null => ticket[p] \in Nat
    BY <1>1, <1>2
  <2>4. ticket[m] = ticket[o] => m = o
    BY <1>1, <2>1 DEF InOrder
  <2>5. level_map'[level'[m]].head = m => ticket[m] <= ticket[o]
    <3> SUFFICES ASSUME level_map'[level[m]].head = m
                 PROVE  ticket[m] <= ticket[o]
      BY <2>1
    <3>1. CASE level[m] # key
      <4>1. level_map'[level[m]] = level_map[level[m]]
        BY <2>2, <3>1 DEF Left
      <4> QED  BY <1>1, <2>1, <4>1 DEF InOrder
    <3>2. CASE level[m] = key
      <4>1. key \in DOMAIN level_map'
        BY <2>1, <3>2 DEF Left
      <4>2. m = IF level_map[key].head = n THEN k ELSE level_map[key].head
        BY <3>2, <4>1 DEF Left
      <4>3. CASE level_map[key].head = n
        <5>1. next[n] = m /\ next[n] # Null
          BY <4>2, <4>3, NullIsNoNode DEF Left
        <5>2. ticket[n] <= ticket[o] /\ ticket[n] # ticket[o]
          BY <1>1, <1>2, <2>1, <3>2, <4>3 DEF InOrder, Left
        <5>3. ticket[n] < ticket[o]
          BY <2>3, <5>2
        <5> QED  BY <1>1, <1>2, <2>1, <3>2, <5>1, <5>3 DEF InOrder, Left
      <4>4. CASE level_map[key].head # n
        BY <1>1, <2>1, <3>2, <4>2, <4>4 DEF InOrder
      <4> QED  BY <4>3, <4>4
    <3> QED  BY <3>1, <3>2
  <2>6. level_map'[level'[m]].tail = m => ticket[o] <= ticket[m]
    <3> SUFFICES ASSUME level_map'[level[m]].tail = m
                 PROVE  ticket[o] <= ticket[m]
      BY <2>1
    <3>1. CASE level[m] # key
      <4>1. level_map'[level[m]] = level_map[level[m]]
        BY <2>2, <3>1 DEF Left
      <4> QED  BY <1>1, <2>1, <4>1 DEF InOrder
    <3>2. CASE level[m] = key
      <4>1. key \in DOMAIN level_map'
        BY <2>1, <3>2 DEF Left
      <4>2. m = IF level_map[key].tail = n THEN p ELSE level_map[key].tail
        BY <3>2, <4>1 DEF Left
      <4>3. CASE level_map[key].tail = n
        <5>1. m = p /\ next[m] = n /\ next[m] # Null
          BY <1>2, <1>4, <4>2, <4>3, NullIsNoNode
        <5>2. ticket[o] <= ticket[n] /\ ticket[n] # ticket[o]
          BY <1>1, <1>2, <2>1, <3>2, <4>3 DEF InOrder, Left
        <5>3. ticket[m] < ticket[o] => ticket[n] <= ticket[o]
          BY <1>1, <2>1, <5>1 DEF InOrder
        <5> QED  BY <2>3, <5>2, <5>3
      <4>4. CASE level_map[key].tail # n
        BY <1>1, <2>1, <3>2, <4>2, <4>4 DEF InOrder
      <4> QED  BY <4>3, <4>4
    <3> QED  BY <3>1, <3>2
  <2>7. next'[m] # Null =>
          /\ ticket[m] < ticket[next'[m]]
          /\ ticket[m] < ticket[o] => ticket[next'[m]] <= ticket[o]
    <3>1. CASE m # p
      <4>1. next'[m] = next[m]
        BY <2>1, <3>1 DEF Left
      <4> QED  BY <1>1, <2>1, <4>1 DEF InOrder
    <3>2. CASE m = p
      <4>1. next'[m] = k /\ next[m] = n /\ level[m] = key /\ next[m] # Null
        BY <1>2, <1>4, <3>2, NullIsNoNode DEF Left
      <4> SUFFICES ASSUME k # Null
                   PROVE  /\ ticket[m] < ticket[k]
                          /\ ticket[m] < ticket[o] => ticket[k] <= ticket[o]
        BY <4>1
      <4>2. ticket[m] < ticket[n] /\ (ticket[m] < ticket[o] => ticket[n] <= ticket[o])
        BY <1>1, <2>1, <4>1 DEF InOrder
      <4>3. ticket[n] # ticket[o]
        BY <1>1, <1>2, <2>1, <4>1 DEF InOrder, Left
      <4>4. ticket[n] < ticket[k] /\ (ticket[n] < ticket[o] => ticket[k] <= ticket[o])
        BY <1>1, <1>2, <2>1, <4>1 DEF InOrder, Left
      <4> QED  BY <2>3, <4>2, <4>3, <4>4
    <3> QED  BY <3>1, <3>2
  <2> QED  BY <2>4, <2>5, <2>6, <2>7
<1> QED  BY <1>1, <1>5 DEF QueuesOrdered

-----------------------------------------------------------------------------
(* What an order in place does: nothing to the links (reduce_resting) *)

\* An order that loses quantity in place leaves every link as it was
\* (reduce_resting).
LEMMA InPlaceKeepsInv ==
  ASSUME LinksInv, NEW n \in Nodes, Linked(n), NEW by \in Int,
         level_map' = Reduced(n, by),
         order' \in [Nodes -> OrderType \cup {None}],
         order'[n] \in OrderType,
         order'[n].id = order[n].id, LevelOf(order'[n]) = LevelOf(order[n]),
         \A m \in Nodes : m # n => order'[m] = order[m],
         UNCHANGED <<next, prev, level, free_head, id_index>>
  PROVE  LinksInv'
<1>1. /\ level[n] \in DOMAIN level_map /\ level_map[level[n]] \in LevelType
      /\ order[n] \in OrderType
  BY LinkedOrder
<1>2. /\ DOMAIN level_map' = DOMAIN level_map
      /\ \A key \in DOMAIN level_map :
           level_map'[key] \in LevelType
           /\ level_map'[key].head = level_map[key].head
           /\ level_map'[key].tail = level_map[key].tail
  <2>1. DOMAIN level_map' = DOMAIN level_map
    BY DEF Reduced
  <2>2. SUFFICES ASSUME NEW key \in DOMAIN level_map
                 PROVE  /\ level_map'[key] \in LevelType
                        /\ level_map'[key].head = level_map[key].head
                        /\ level_map'[key].tail = level_map[key].tail
    BY <2>1
  <2>3. level_map[key] \in LevelType
    BY DEF LinksInv, TypeOK, LevelType
  <2>4. CASE key = level[n]
    <3>1. level_map'[key] = [level_map[key] EXCEPT !.total_quantity = @ - by]
      BY <2>4 DEF Reduced
    <3> QED  BY <2>3, <3>1 DEF LevelType
  <2>5. CASE key # level[n]
    BY <2>3, <2>5 DEF Reduced
  <2> QED  BY <2>4, <2>5
<1>3. TypeOK'
  <2>1. \A key \in DOMAIN level_map' : level_map'[key] \in LevelType
    BY <1>2
  <2>2. DOMAIN level_map' \subseteq Keys
    BY <1>2 DEF LinksInv, TypeOK
  <2> QED  BY <2>1, <2>2 DEF LinksInv, TypeOK, OrderType, LevelType
<1>4. \A m \in Nodes : order'[m].id = order[m].id /\ LevelOf(order'[m]) = LevelOf(order[m])
  OBVIOUS
<1>5. LinksAgree'
  <2>1. \A m \in Nodes : Linked(m)' => NodeAgrees(m)'
    <3> SUFFICES ASSUME NEW m \in Nodes, Linked(m)
                 PROVE  NodeAgrees(m)'
      BY DEF Linked
    <3>1. NodeAgrees(m)
      BY LinkedOrder
    <3>2. order'[m] # None
      BY <3>1, BookLevelsAssumption DEF NodeAgrees, OrderType, Sides
    <3>3. /\ level'[m] \in DOMAIN level_map'
          /\ level'[m] = LevelOf(order'[m])
          /\ id_index'[order'[m].id] = m
      BY <1>2, <1>4, <3>1 DEF NodeAgrees
    <3>4. /\ level_map'[level'[m]].head = level_map[level[m]].head
          /\ level_map'[level'[m]].tail = level_map[level[m]].tail
      BY <1>2, <3>1 DEF NodeAgrees
    <3> QED  BY <3>1, <3>2, <3>3, <3>4 DEF NodeAgrees, LevelOf
  <2>2. \A key \in DOMAIN level_map' : EndsAgree(key)'
    BY <1>2 DEF LinksInv, LinksAgree, EndsAgree
  <2>3. \A id \in Ids : IndexAgrees(id)'
    <3> SUFFICES ASSUME NEW id \in Ids, id_index[id] # Null
                 PROVE  Linked(id_index[id]) /\ order'[id_index[id]].id = id
      BY DEF IndexAgrees, Linked
    <3>1. Linked(id_index[id]) /\ order[id_index[id]].id = id
      BY DEF LinksInv, LinksAgree, IndexAgrees
    <3>2. id_index[id] \in Nodes
      BY DEF LinksInv, TypeOK
    <3> QED  BY <1>4, <3>1, <3>2
  <2>4. FreeAgrees'
    BY DEF LinksInv, LinksAgree, FreeAgrees, Linked
  <2> QED  BY <2>1, <2>2, <2>3, <2>4 DEF LinksAgree
<1>6. FreeListOK'
  BY DEF LinksInv, FreeListOK, Linked
<1>7. QueuesOrdered'
  <2>1. PICK ticket \in [Nodes -> Nat], last \in Nat :
          (\A m \in Nodes : ticket[m] < last) /\ InOrder(ticket)
    BY DEF LinksInv, QueuesOrdered
  <2>2. InOrder(ticket)'
    <3> SUFFICES ASSUME NEW m \in Nodes, NEW o \in Nodes,
                        Linked(m), Linked(o), level[m] = level[o]
                 PROVE  /\ ticket[m] = ticket[o] => m = o
                        /\ level_map'[level[m]].head = m => ticket[m] <= ticket[o]
                        /\ level_map'[level[m]].tail = m => ticket[o] <= ticket[m]
                        /\ next[m] # Null =>
                             /\ ticket[m] < ticket[next[m]]
                             /\ ticket[m] < ticket[o] => ticket[next[m]] <= ticket[o]
      BY DEF InOrder, Linked
    <3>1. level[m] \in DOMAIN level_map
      BY LinkedOrder
    <3> QED  BY <1>2, <2>1, <3>1 DEF InOrder
  <2> QED  BY <2>1, <2>2 DEF QueuesOrdered
<1> QED  BY <1>3, <1>5, <1>6, <1>7 DEF LinksInv

-----------------------------------------------------------------------------
(* The operations *)

\* The links hold after acquire and get_or_create_level.
LEMMA RestKeepsInv ==
  ASSUME LinksInv, NEW o \in NewOrders, Rest(o)
  PROVE  LinksInv'
<1>1. Joined(o, free_head, LevelOf(o), LevelBefore(o).tail)
  BY RestJoins
<1>2. TypeOK'
  BY <1>1, JoinedKeepsType
<1>3. LinksAgree'
  BY <1>1, JoinedKeepsLinks
<1>4. FreeListOK'
  BY <1>1, JoinedKeepsFreeList
<1>5. QueuesOrdered'
  BY <1>1, JoinedKeepsOrder
<1> QED  BY <1>2, <1>3, <1>4, <1>5 DEF LinksInv

\* The links hold after unlink_and_maybe_erase_from_level and release.
LEMMA RemoveKeepsInv ==
  ASSUME LinksInv, NEW n \in Nodes, Linked(n), NEW by \in Int, RemoveAfter(n, by),
         order' \in [Nodes -> OrderType \cup {None}],
         \A m \in Nodes : m # n => order'[m] = order[m]
  PROVE  LinksInv'
<1>1. Left(n, level[n], prev[n], next[n], order[n].id)
  BY RemoveLeaves
<1>2. TypeOK'
  BY <1>1, LeftKeepsType
<1>3. LinksAgree'
  BY <1>1, LeftKeepsLinks
<1>4. FreeListOK'
  BY <1>1, LeftKeepsFreeList
<1>5. QueuesOrdered'
  BY <1>1, LeftKeepsOrder
<1> QED  BY <1>2, <1>3, <1>4, <1>5 DEF LinksInv

\* The node an id leads to rests (id_index_).
LEMMA IndexedNode ==
  ASSUME LinksInv, NEW id \in Indexed
  PROVE  id_index[id] \in Nodes /\ Linked(id_index[id])
BY DEF Indexed, LinksInv, TypeOK, LinksAgree, IndexAgrees

\* The first node of a level rests.
LEMMA HeadNode ==
  ASSUME LinksInv, NEW key \in DOMAIN level_map
  PROVE  level_map[key].head \in Nodes /\ Linked(level_map[key].head)
<1>1. EndsAgree(key) /\ key # NoLevel
  BY KeyIsLevel DEF LinksInv, LinksAgree, TypeOK
<1> QED  BY <1>1 DEF EndsAgree, Linked

\* A node's order after it has lost a quantity, part of it by a fill.
LEMMA ReducedOrder ==
  ASSUME LinksInv, NEW n \in Nodes, Linked(n), NEW by \in 1 .. order[n].quantity,
         \/ order' = [order EXCEPT ![n].quantity = @ - by]
         \/ order' = [order EXCEPT ![n].quantity = @ - by, ![n].filled = @ + by]
  PROVE  /\ order' \in [Nodes -> OrderType \cup {None}]
         /\ order'[n] \in OrderType
         /\ order'[n].id = order[n].id
         /\ LevelOf(order'[n]) = LevelOf(order[n])
         /\ \A m \in Nodes : m # n => order'[m] = order[m]
<1>1. order \in [Nodes -> OrderType \cup {None}]
  BY DEF LinksInv, TypeOK, OrderType
<1>2. order[n] \in OrderType
  BY LinkedOrder
<1>3. order[n].quantity - by \in Nat /\ order[n].filled + by \in Nat
  BY <1>2 DEF OrderType
<1> DEFINE less == [order[n] EXCEPT !.quantity = order[n].quantity - by]
           taken == [less EXCEPT !.filled = order[n].filled + by]
<1>4. less \in OrderType /\ less.id = order[n].id /\ LevelOf(less) = LevelOf(order[n])
  BY <1>2, <1>3 DEF OrderType, LevelOf
<1>5. taken \in OrderType /\ taken.id = order[n].id /\ LevelOf(taken) = LevelOf(order[n])
  BY <1>2, <1>3 DEF OrderType, LevelOf
<1>6. order' = [order EXCEPT ![n] = less] \/ order' = [order EXCEPT ![n] = taken]
  BY <1>1, <1>2 DEF OrderType
<1> HIDE DEF less, taken
<1>7. (order'[n] = less \/ order'[n] = taken) /\ \A m \in Nodes : m # n => order'[m] = order[m]
  BY <1>1, <1>6
<1> QED  BY <1>1, <1>4, <1>5, <1>6, <1>7

\* Every step keeps the invariant.
LEMMA LinksStep ==
  ASSUME LinksInv, [Next]_vars
  PROVE  LinksInv'
<1>1. CASE \E o \in NewOrders : Rest(o)
  BY <1>1, RestKeepsInv
<1>2. CASE \E id \in Indexed : remove_resting(id)
  <2>1. PICK id \in Indexed : remove_resting(id)
    BY <1>2
  <2>2. RemoveAfter(id_index[id], 0) /\ UNCHANGED order
    BY <2>1 DEF remove_resting
  <2>3. order' \in [Nodes -> OrderType \cup {None}]
    BY <2>2 DEF LinksInv, TypeOK, OrderType
  <2> QED  BY <2>2, <2>3, IndexedNode, RemoveKeepsInv
<1>3. CASE \E id \in Indexed : \E by \in 1 .. order[id_index[id]].quantity : Shrink(id, by)
  <2>1. PICK id \in Indexed : \E by \in 1 .. order[id_index[id]].quantity : Shrink(id, by)
    BY <1>3
  <2>2. PICK by \in 1 .. order[id_index[id]].quantity : Shrink(id, by)
    BY <2>1
  <2> DEFINE n == id_index[id]
  <2>3. n \in Nodes /\ Linked(n)
    BY IndexedNode
  <2>4. order' = [order EXCEPT ![n].quantity = @ - by]
    BY <2>2 DEF Shrink
  <2>5. level_map' = Reduced(n, by) /\ UNCHANGED <<next, prev, level, free_head, id_index>>
    BY <2>2 DEF Shrink
  <2> HIDE DEF n
  <2>6. by \in 1 .. order[n].quantity
    BY DEF n
  <2>7. /\ order' \in [Nodes -> OrderType \cup {None}]
        /\ order'[n] \in OrderType
        /\ order'[n].id = order[n].id
        /\ LevelOf(order'[n]) = LevelOf(order[n])
        /\ \A m \in Nodes : m # n => order'[m] = order[m]
    BY <2>3, <2>4, <2>6, ReducedOrder
  <2>8. by \in Int
    BY <2>3, <2>6, LinkedOrder DEF OrderType
  <2> QED  BY <2>3, <2>5, <2>7, <2>8, InPlaceKeepsInv
<1>4. CASE \E key \in DOMAIN level_map :
             \E by \in 1 .. order[level_map[key].head].quantity : Fill(key, by)
  <2>1. PICK key \in DOMAIN level_map :
          \E by \in 1 .. order[level_map[key].head].quantity : Fill(key, by)
    BY <1>4
  <2>2. PICK by \in 1 .. order[level_map[key].head].quantity : Fill(key, by)
    BY <2>1
  <2> DEFINE n == level_map[key].head
  <2>3. n \in Nodes /\ Linked(n)
    BY HeadNode
  <2>4. order' = [order EXCEPT ![n].quantity = @ - by, ![n].filled = @ + by]
    BY <2>2 DEF Fill
  <2>5. \/ RemoveAfter(n, by)
        \/ level_map' = Reduced(n, by) /\ UNCHANGED <<next, prev, level, free_head, id_index>>
    BY <2>2 DEF Fill
  <2> HIDE DEF n
  <2>6. by \in 1 .. order[n].quantity
    BY DEF n
  <2>7. /\ order' \in [Nodes -> OrderType \cup {None}]
        /\ order'[n] \in OrderType
        /\ order'[n].id = order[n].id
        /\ LevelOf(order'[n]) = LevelOf(order[n])
        /\ \A m \in Nodes : m # n => order'[m] = order[m]
    BY <2>3, <2>4, <2>6, ReducedOrder
  <2>8. by \in Int
    BY <2>3, <2>6, LinkedOrder DEF OrderType
  <2>9. CASE RemoveAfter(n, by)
    BY <2>3, <2>7, <2>8, <2>9, RemoveKeepsInv
  <2>10. CASE /\ level_map' = Reduced(n, by)
              /\ UNCHANGED <<next, prev, level, free_head, id_index>>
    BY <2>3, <2>7, <2>8, <2>10, InPlaceKeepsInv
  <2> QED  BY <2>5, <2>9, <2>10
<1>5. CASE UNCHANGED vars
  <2>1. UNCHANGED <<order, next, prev, level, free_head, level_map, id_index>>
    BY <1>5 DEF vars
  <2>2. TypeOK' /\ FreeListOK'
    BY <2>1 DEF LinksInv, TypeOK, FreeListOK, Linked
  <2>3. LinksAgree'
    BY <2>1 DEF LinksInv, LinksAgree, NodeAgrees, EndsAgree, IndexAgrees, FreeAgrees, Linked
  <2>4. QueuesOrdered'
    BY <2>1 DEF LinksInv, QueuesOrdered, InOrder, Linked
  <2> QED  BY <2>2, <2>3, <2>4 DEF LinksInv
<1> QED  BY <1>1, <1>2, <1>3, <1>4, <1>5 DEF Next

\* A new pool has all its nodes in the free list, and no level (NodePool's constructor).
LEMMA LinksInit ==
  ASSUME Init
  PROVE  LinksInv
<1>1. PoolCapacity \in Nat
  BY BookLevelsAssumption
<1>2. TypeOK
  BY <1>1 DEF Init, TypeOK, Nodes, Null
<1>3. LinksAgree
  BY <1>1, <1>2 DEF Init, LinksAgree, EndsAgree, IndexAgrees, FreeAgrees, Linked, TypeOK
<1>4. FreeListOK
  BY <1>1 DEF Init, FreeListOK, Nodes, Null
<1>5. QueuesOrdered
  <2>1. [n \in Nodes |-> 0] \in [Nodes -> Nat]
    OBVIOUS
  <2>2. InOrder([n \in Nodes |-> 0])
    BY DEF Init, InOrder, Linked
  <2>3. \A m \in Nodes : [n \in Nodes |-> 0][m] < 1
    OBVIOUS
  <2> QED  BY <2>1, <2>2, <2>3 DEF QueuesOrdered
<1> QED  BY <1>2, <1>3, <1>4, <1>5 DEF LinksInv

\* The links of a book are in order after every operation.
THEOREM LinksInvariant == Spec => []LinksInv
<1>1. Init => LinksInv
  BY LinksInit
<1>2. LinksInv /\ [Next]_vars => LinksInv'
  BY LinksStep
<1> QED  BY <1>1, <1>2, PTL DEF Spec

\* No operation leaves a link that leads out of its level, to a free node, or back
\* to another node than it came from, and every id leads to its own node
\* (get_or_create_level, unlink_and_maybe_erase_from_level, acquire and release).
THEOREM LinksAlwaysAgree == Spec => []LinksAgree
<1>1. LinksInv => LinksAgree
  BY DEF LinksInv
<1> QED  BY <1>1, LinksInvariant, PTL

-----------------------------------------------------------------------------
(* Numbers: the least of a set, and what holds of 0 and of each next number *)

\* A set of numbers that is not empty has a least one.
LEMMA Least ==
  ASSUME NEW T, T \subseteq Nat, T # {}
  PROVE  \E n \in T : \A m \in T : n <= m
<1> DEFINE Before == OpToRel(<, Nat)
<1>1. IsWellFoundedOn(Before, Nat)
  BY NatLessThanWellFounded
<1>2. \A m, n \in Nat : <<m, n>> \in Before <=> m < n
  BY DEF OpToRel
<1> HIDE DEF Before
<1>3. PICK n \in T : \A m \in T : ~(<<m, n>> \in Before)
  BY <1>1, WFMin
<1>4. ASSUME NEW m \in T PROVE n <= m
  <2>1. ~(<<m, n>> \in Before) /\ m \in Nat /\ n \in Nat
    BY <1>3
  <2>2. ~(m < n)
    BY <1>2, <2>1
  <2> QED  BY <2>1, <2>2
<1> QED  BY <1>3, <1>4

\* A set that has 0 and with each number the next has them all.
LEMMA Induction ==
  ASSUME NEW T, 0 \in T, \A n \in Nat : n \in T => n + 1 \in T
  PROVE  Nat \subseteq T
<1> DEFINE U == {n \in Nat : n \notin T}
<1> SUFFICES ASSUME U # {} PROVE FALSE
  OBVIOUS
<1>1. U \subseteq Nat
  OBVIOUS
<1> HIDE DEF U
<1>2. PICK n \in U : \A m \in U : n <= m
  BY <1>1, Least
<1> USE DEF U
<1>3. n # 0 /\ n - 1 \in Nat /\ n - 1 \notin U
  BY <1>2
<1> QED  BY <1>3

-----------------------------------------------------------------------------
(* A walk *)

\* What a walk reads: the nodes of q, then nothing.
Read(q) == [k \in 1 .. PoolCapacity |-> IF k \in DOMAIN q THEN q[k] ELSE Null]

\* at is every step from n by these links.
StepsOf(links, n, at) ==
  at = [k \in 1 .. PoolCapacity |->
          IF k = 1 THEN n ELSE IF at[k - 1] = Null THEN Null ELSE links[at[k - 1]]]

\* There are n numbers from 1 to n.
LEMMA Interval == \A n \in Nat : IsFiniteSet(1 .. n) /\ Cardinality(1 .. n) = n
<1> SUFFICES ASSUME NEW n \in Nat PROVE IsFiniteSet(1 .. n) /\ Cardinality(1 .. n) = n
  OBVIOUS
<1>1. /\ IsFiniteSet(1 .. n)
      /\ Cardinality(1 .. n) = IF 1 > n THEN 0 ELSE n - 1 + 1
  BY FS_Interval
<1>2. (IF 1 > n THEN 0 ELSE n - 1 + 1) = n
  OBVIOUS
<1> QED  BY <1>1, <1>2

\* A walk that ends meets no more nodes than the pool has.
LEMMA WalkIsShort ==
  ASSUME NEW links, NEW n, NEW q, IsWalk(links, n, q)
  PROVE  Len(q) \in 0 .. PoolCapacity /\ DOMAIN q = 1 .. Len(q)
<1>1. /\ q \in [1 .. Len(q) -> Nodes] /\ Len(q) \in Nat /\ PoolCapacity \in Nat
      /\ \A i, j \in 1 .. Len(q) : q[i] = q[j] => i = j
  BY BookLevelsAssumption DEF IsWalk
<1>2. IsFiniteSet(Nodes) /\ Cardinality(Nodes) = PoolCapacity
  BY <1>1, Interval DEF Nodes
<1>3. IsFiniteSet(1 .. Len(q)) /\ Cardinality(1 .. Len(q)) = Len(q)
  BY <1>1, Interval
<1>4. q \in Injection(1 .. Len(q), Nodes)
  BY <1>1 DEF Injection, IsInjective
<1>5. Cardinality(1 .. Len(q)) <= Cardinality(Nodes)
  BY <1>2, <1>4, FS_Injection
<1> QED  BY <1>1, <1>2, <1>3, <1>5

\* The steps along a walk that ends are its nodes, and then Null.
LEMMA ReadsWalk ==
  ASSUME NEW links, NEW n, NEW q, IsWalk(links, n, q)
  PROVE  StepsOf(links, n, Read(q))
<1> DEFINE at == Read(q)
           f == [k \in 1 .. PoolCapacity |->
                  IF k = 1 THEN n ELSE IF at[k - 1] = Null THEN Null ELSE links[at[k - 1]]]
<1>1. /\ q \in Seq(Nodes) /\ Len(q) \in Nat /\ PoolCapacity \in Nat
      /\ DOMAIN q = 1 .. Len(q)
  BY WalkIsShort, BookLevelsAssumption DEF IsWalk
<1>2. ASSUME NEW k \in 1 .. PoolCapacity
      PROVE  at[k] = f[k]
  <2>1. CASE k = 1
    <3>1. q = <<>> <=> Len(q) = 0
      BY <1>1
    <3> QED  BY <1>1, <2>1, <3>1 DEF IsWalk, Read
  <2>2. CASE k # 1
    <3>1. k - 1 \in 1 .. PoolCapacity
      BY <1>1, <2>2
    <3>2. at[k - 1] = IF k - 1 \in DOMAIN q THEN q[k - 1] ELSE Null
      BY <3>1 DEF Read
    <3>3. CASE k - 1 \notin DOMAIN q
      BY <1>1, <2>2, <3>2, <3>3 DEF Read
    <3>4. CASE k - 1 \in DOMAIN q
      <4>1. q[k - 1] \in Nodes /\ q[k - 1] # Null
        BY <1>1, <3>4, NullIsNoNode
      <4>2. links[q[k - 1]] = IF k - 1 = Len(q) THEN Null ELSE q[k]
        BY <2>2, <3>4 DEF IsWalk
      <4>3. at[k] = IF k - 1 = Len(q) THEN Null ELSE q[k]
        BY <1>1, <2>2, <3>4 DEF Read
      <4> QED  BY <2>2, <3>2, <3>4, <4>1, <4>2, <4>3
    <3> QED  BY <3>3, <3>4
  <2> QED  BY <2>1, <2>2
<1>3. at = [k \in 1 .. PoolCapacity |-> at[k]]
  BY DEF Read
<1>4. f = [k \in 1 .. PoolCapacity |-> f[k]]
  OBVIOUS
<1>5. at = f
  <2> HIDE DEF f, at
  <2> QED BY <1>2, <1>3, <1>4, Zenon
<1> QED  BY <1>5 DEF StepsOf

\* The links and the start determine every step.
LEMMA OneReading ==
  ASSUME NEW links, NEW n, NEW f, NEW g, StepsOf(links, n, f), StepsOf(links, n, g)
  PROVE  f = g
<1> DEFINE T == {k \in Nat : k + 1 \in 1 .. PoolCapacity => f[k + 1] = g[k + 1]}
<1>a. PoolCapacity \in Nat
  BY BookLevelsAssumption
<1>b. /\ \A k \in 1 .. PoolCapacity :
           f[k] = IF k = 1 THEN n ELSE IF f[k - 1] = Null THEN Null ELSE links[f[k - 1]]
      /\ \A k \in 1 .. PoolCapacity :
           g[k] = IF k = 1 THEN n ELSE IF g[k - 1] = Null THEN Null ELSE links[g[k - 1]]
      /\ f = [k \in 1 .. PoolCapacity |-> f[k]]
      /\ g = [k \in 1 .. PoolCapacity |-> g[k]]
  <2>1. /\ f = [k \in 1 .. PoolCapacity |->
                  IF k = 1 THEN n ELSE IF f[k - 1] = Null THEN Null ELSE links[f[k - 1]]]
        /\ g = [k \in 1 .. PoolCapacity |->
                  IF k = 1 THEN n ELSE IF g[k - 1] = Null THEN Null ELSE links[g[k - 1]]]
    BY DEF StepsOf
  <2> QED  BY <2>1, Zenon
<1>c. \A k \in 1 .. PoolCapacity :
        /\ f[k] = IF k = 1 THEN n ELSE IF f[k - 1] = Null THEN Null ELSE links[f[k - 1]]
        /\ g[k] = IF k = 1 THEN n ELSE IF g[k - 1] = Null THEN Null ELSE links[g[k - 1]]
  BY <1>b
<1>1. 0 \in T
  <2> SUFFICES ASSUME 1 \in 1 .. PoolCapacity PROVE f[1] = g[1]
    OBVIOUS
  <2> QED  BY <1>c
<1>2. ASSUME NEW k \in Nat, k \in T
      PROVE  k + 1 \in T
  <2> SUFFICES ASSUME k + 2 \in 1 .. PoolCapacity PROVE f[k + 2] = g[k + 2]
    OBVIOUS
  <2>1. k + 1 \in 1 .. PoolCapacity /\ (k + 2) - 1 = k + 1 /\ k + 2 # 1
    BY <1>a
  <2>2. f[k + 1] = g[k + 1]
    BY <1>2, <2>1
  <2>3. /\ f[k + 2] = IF f[k + 1] = Null THEN Null ELSE links[f[k + 1]]
        /\ g[k + 2] = IF g[k + 1] = Null THEN Null ELSE links[g[k + 1]]
    <3> DEFINE j == k + 2
    <3>1. j \in 1 .. PoolCapacity /\ j # 1 /\ j - 1 = k + 1
      BY <2>1
    <3> HIDE DEF j
    <3>2. /\ f[j] = IF f[k + 1] = Null THEN Null ELSE links[f[k + 1]]
          /\ g[j] = IF g[k + 1] = Null THEN Null ELSE links[g[k + 1]]
      BY <1>c, <3>1
    <3> QED  BY <3>2 DEF j
  <2> QED  BY <2>2, <2>3
<1>3. Nat \subseteq T
  <2> HIDE DEF T
  <2> QED  BY <1>1, <1>2, Induction
<1>4. ASSUME NEW k \in 1 .. PoolCapacity PROVE f[k] = g[k]
  <2>1. k - 1 \in T /\ (k - 1) + 1 = k
    BY <1>3, <1>a
  <2> QED  BY <2>1
<1> QED  BY <1>b, <1>4, Zenon

\* A walk that ends is what following the links reads (the loops over node->next).
LEMMA WalkRead ==
  ASSUME NEW links, NEW n, NEW q, IsWalk(links, n, q)
  PROVE  Walk(links, n) = q
<1> DEFINE at == CHOOSE f : StepsOf(links, n, f)
<1>1. at = Read(q)
  BY ReadsWalk, OneReading
<1>2. Walk(links, n) = [k \in 1 .. Cardinality({m \in 1 .. PoolCapacity : at[m] # Null}) |-> at[k]]
  BY DEF Walk, StepsOf
<1>3. Len(q) \in 0 .. PoolCapacity /\ DOMAIN q = 1 .. Len(q) /\ q \in Seq(Nodes)
      /\ PoolCapacity \in Nat
  BY WalkIsShort, BookLevelsAssumption DEF IsWalk
<1> HIDE DEF at
<1>8. \A m \in 1 .. PoolCapacity : at[m] = IF m \in 1 .. Len(q) THEN q[m] ELSE Null
  BY <1>1, <1>3 DEF Read
<1>9. \A m \in 1 .. Len(q) : q[m] # Null /\ m \in 1 .. PoolCapacity
  BY <1>3, NullIsNoNode
<1>4. {m \in 1 .. PoolCapacity : at[m] # Null} = 1 .. Len(q)
  BY <1>8, <1>9
<1>5. Cardinality(1 .. Len(q)) = Len(q)
  BY <1>3, Interval
<1>6. \A k \in 1 .. Len(q) : at[k] = q[k]
  BY <1>8, <1>9
<1>7. q = [k \in 1 .. Len(q) |-> q[k]]
  BY <1>3
<1> QED  BY <1>2, <1>4, <1>5, <1>6, <1>7

-----------------------------------------------------------------------------
(* Sums *)

\* s is the sum so far at each step of the loop.
SumsOf(q, s) ==
  /\ DOMAIN s = 0 .. Len(q)
  /\ s = [k \in 0 .. Len(q) |-> s[k]]
  /\ s[0] = 0
  /\ \A k \in 1 .. Len(q) : s[k] = s[k - 1] + q[k]

\* The sums so far are a solution of the equation that Total is defined by.
LEMMA SumsEquation ==
  ASSUME NEW q, Len(q) \in Nat, NEW s
  PROVE  SumsOf(q, s) <=>
           s = [k \in 0 .. Len(q) |-> IF k = 0 THEN 0 ELSE s[k - 1] + q[k]]
<1> DEFINE f == [k \in 0 .. Len(q) |-> IF k = 0 THEN 0 ELSE s[k - 1] + q[k]]
<1>1. ASSUME SumsOf(q, s) PROVE s = f
  <2>1. \A k \in 0 .. Len(q) : s[k] = IF k = 0 THEN 0 ELSE s[k - 1] + q[k]
    BY <1>1 DEF SumsOf
  <2>2. s = [k \in 0 .. Len(q) |-> s[k]]
    BY <1>1 DEF SumsOf
  <2> QED  BY <2>1, <2>2, Zenon
<1>2. ASSUME s = f PROVE SumsOf(q, s)
  <2>1. \A k \in 0 .. Len(q) : s[k] = f[k]
    BY <1>2
  <2>2. \A k \in 0 .. Len(q) : f[k] = IF k = 0 THEN 0 ELSE s[k - 1] + q[k]
    OBVIOUS
  <2>3. s = [k \in 0 .. Len(q) |-> s[k]] /\ DOMAIN s = 0 .. Len(q)
    BY <1>2, Zenon
  <2> HIDE DEF f
  <2>4. s[0] = 0 /\ \A k \in 1 .. Len(q) : s[k] = s[k - 1] + q[k]
    BY <2>1, <2>2
  <2> QED  BY <2>3, <2>4 DEF SumsOf
<1> QED  BY <1>1, <1>2

\* A sequence of integers has sums so far.
LEMMA SumsExist ==
  ASSUME NEW q \in Seq(Int)
  PROVE  \E s \in [0 .. Len(q) -> Int] : SumsOf(q, s)
<1> DEFINE T == {n \in Nat : \A r \in Seq(Int) :
                   Len(r) = n => \E s \in [0 .. n -> Int] : SumsOf(r, s)}
<1>1. 0 \in T
  <2> SUFFICES ASSUME NEW r \in Seq(Int), Len(r) = 0
               PROVE  \E s \in [0 .. 0 -> Int] : SumsOf(r, s)
    OBVIOUS
  <2>1. SumsOf(r, [k \in 0 .. 0 |-> 0])
    BY DEF SumsOf
  <2> QED  BY <2>1
<1>2. ASSUME NEW n \in Nat, n \in T
      PROVE  n + 1 \in T
  <2> SUFFICES ASSUME NEW r \in Seq(Int), Len(r) = n + 1
               PROVE  \E s \in [0 .. n + 1 -> Int] : SumsOf(r, s)
    OBVIOUS
  <2> DEFINE front == [k \in 1 .. n |-> r[k]]
  <2>1. front \in Seq(Int) /\ Len(front) = n
    <3>1. \A k \in 1 .. n : r[k] \in Int
      OBVIOUS
    <3> QED  BY <3>1
  <2>2. PICK s \in [0 .. n -> Int] : SumsOf(front, s)
    <3> HIDE DEF front
    <3> QED  BY <1>2, <2>1
  <2> DEFINE u == [k \in 0 .. n + 1 |-> IF k = n + 1 THEN s[n] + r[n + 1] ELSE s[k]]
  <2>3. u \in [0 .. n + 1 -> Int]
    BY <2>2
  <2>4. s[0] = 0 /\ \A k \in 1 .. n : s[k] = s[k - 1] + r[k]
    BY <2>1, <2>2 DEF SumsOf
  <2>5. u[0] = 0 /\ \A k \in 1 .. n + 1 : u[k] = u[k - 1] + r[k]
    <3>1. u[n + 1] = s[n] + r[n + 1] /\ \A k \in 0 .. n : u[k] = s[k]
      OBVIOUS
    <3>2. u[0] = 0
      BY <2>4, <3>1
    <3> HIDE DEF u
    <3>3. ASSUME NEW k \in 1 .. n + 1 PROVE u[k] = u[k - 1] + r[k]
      <4>1. CASE k = n + 1
        BY <3>1, <4>1
      <4>2. CASE k # n + 1
        <5>1. k \in 1 .. n /\ k \in 0 .. n /\ k - 1 \in 0 .. n
          BY <4>2
        <5> QED  BY <2>4, <3>1, <5>1
      <4> QED  BY <4>1, <4>2
    <3> QED  BY <3>2, <3>3
  <2>6. SumsOf(r, u)
    BY <2>5 DEF SumsOf
  <2> HIDE DEF u
  <2> QED  BY <2>3, <2>6
<1>3. Nat \subseteq T
  <2> HIDE DEF T
  <2> QED  BY <1>1, <1>2, Induction
<1>4. Len(q) \in T
  BY <1>3
<1> QED  BY <1>4

\* It has only these.
LEMMA OneSum ==
  ASSUME NEW q, Len(q) \in Nat, NEW s, NEW u, SumsOf(q, s), SumsOf(q, u)
  PROVE  s = u
<1> DEFINE T == {k \in Nat : k \in 0 .. Len(q) => s[k] = u[k]}
<1>1. 0 \in T
  BY DEF SumsOf
<1>2. ASSUME NEW k \in Nat, k \in T
      PROVE  k + 1 \in T
  <2> SUFFICES ASSUME k + 1 \in 0 .. Len(q) PROVE s[k + 1] = u[k + 1]
    OBVIOUS
  <2> DEFINE j == k + 1
  <2>1. j \in 1 .. Len(q) /\ j - 1 = k
    OBVIOUS
  <2>2. s[k] = u[k]
    BY <1>2
  <2> HIDE DEF j
  <2>3. s[j] = u[j]
    BY <2>1, <2>2 DEF SumsOf
  <2> QED  BY <2>3 DEF j
<1>3. Nat \subseteq T
  <2> HIDE DEF T
  <2> QED  BY <1>1, <1>2, Induction
<1>4. \A k \in 0 .. Len(q) : s[k] = u[k]
  BY <1>3
<1>5. s = [k \in 0 .. Len(q) |-> s[k]] /\ u = [k \in 0 .. Len(q) |-> u[k]]
  BY DEF SumsOf
<1> QED  BY <1>4, <1>5, Zenon

\* Total is the last of the sums so far (sum += quantity).
LEMMA TotalIs ==
  ASSUME NEW q, Len(q) \in Nat, NEW s, SumsOf(q, s)
  PROVE  Total(q) = s[Len(q)]
<1> DEFINE u == CHOOSE f : f = [k \in 0 .. Len(q) |-> IF k = 0 THEN 0 ELSE f[k - 1] + q[k]]
<1>1. u = [k \in 0 .. Len(q) |-> IF k = 0 THEN 0 ELSE u[k - 1] + q[k]]
  BY SumsEquation
<1>2. Total(q) = u[Len(q)]
  BY DEF Total
<1> HIDE DEF u
<1>3. SumsOf(q, u)
  BY <1>1, SumsEquation
<1>4. u = s
  BY <1>3, OneSum
<1> QED  BY <1>2, <1>4

\* The total of integers is one.
LEMMA TotalType ==
  ASSUME NEW q \in Seq(Int)
  PROVE  Total(q) \in Int
<1>1. PICK s \in [0 .. Len(q) -> Int] : SumsOf(q, s)
  BY SumsExist
<1>2. Len(q) \in Nat /\ Total(q) = s[Len(q)]
  BY <1>1, TotalIs
<1> QED  BY <1>1, <1>2

\* A loop over nothing adds up to 0.
LEMMA TotalEmpty == Total(<<>>) = 0
<1>1. SumsOf(<<>>, [k \in 0 .. 0 |-> 0])
  BY DEF SumsOf
<1>2. Len(<<>>) = 0
  OBVIOUS
<1> QED  BY <1>1, <1>2, TotalIs

LEMMA TotalAppend ==
  ASSUME NEW q \in Seq(Int), NEW x \in Int
  PROVE  Total(Append(q, x)) = Total(q) + x
<1>1. PICK s \in [0 .. Len(q) -> Int] : SumsOf(q, s)
  BY SumsExist
<1> DEFINE n == Len(q)
           u == [k \in 0 .. n + 1 |-> IF k = n + 1 THEN s[n] + x ELSE s[k]]
           r == Append(q, x)
<1>2. n \in Nat /\ Len(r) = n + 1 /\ r[n + 1] = x /\ \A k \in 1 .. n : r[k] = q[k]
  OBVIOUS
<1>3. s[0] = 0 /\ \A k \in 1 .. n : s[k] = s[k - 1] + q[k]
  BY <1>1 DEF SumsOf
<1>4. u[n + 1] = s[n] + x /\ (\A k \in 0 .. n : u[k] = s[k]) /\ DOMAIN u = 0 .. n + 1
      /\ u = [k \in 0 .. n + 1 |-> u[k]]
  BY <1>2
<1> HIDE DEF n, u, r
<1>5. u[0] = 0 /\ \A k \in 1 .. n + 1 : u[k] = u[k - 1] + r[k]
  <2>1. u[0] = 0
    <3>1. 0 \in 0 .. n
      BY <1>2
    <3> QED  BY <1>3, <1>4, <3>1
  <2>2. ASSUME NEW k \in 1 .. n + 1 PROVE u[k] = u[k - 1] + r[k]
    <3>1. CASE k = n + 1
      <4>1. k - 1 = n /\ n \in 0 .. n
        BY <1>2, <3>1
      <4>2. u[k - 1] = s[n]
        BY <1>4, <4>1
      <4> QED  BY <1>2, <1>4, <3>1, <4>2
    <3>2. CASE k # n + 1
      <4>1. k \in 1 .. n /\ k \in 0 .. n /\ k - 1 \in 0 .. n
        BY <1>2, <3>2
      <4> QED  BY <1>2, <1>3, <1>4, <4>1
    <3> QED  BY <3>1, <3>2
  <2> QED  BY <2>1, <2>2
<1>6. SumsOf(r, u)
  BY <1>2, <1>4, <1>5 DEF SumsOf
<1>7. Total(r) = u[n + 1]
  BY <1>2, <1>6, TotalIs
<1>8. Total(q) = s[n]
  BY <1>1, <1>2, TotalIs DEF n
<1> QED  BY <1>4, <1>7, <1>8 DEF r

\* The sum when one number is left out.
LEMMA TotalWithout ==
  ASSUME NEW q \in Seq(Int), NEW i \in 1 .. Len(q), NEW r,
         Len(r) = Len(q) - 1,
         \A k \in 1 .. Len(q) - 1 : r[k] = IF k < i THEN q[k] ELSE q[k + 1]
  PROVE  Total(r) = Total(q) - q[i]
<1>1. PICK s \in [0 .. Len(q) -> Int] : SumsOf(q, s)
  BY SumsExist
<1> DEFINE n == Len(q)
           u == [k \in 0 .. n - 1 |-> IF k < i THEN s[k] ELSE s[k + 1] - q[i]]
<1>2. n \in Nat /\ Len(r) = n - 1 /\ n - 1 \in Nat /\ i \in 1 .. n
      /\ \A k \in 1 .. n : q[k] \in Int
  OBVIOUS
<1>3. s[0] = 0 /\ (\A k \in 1 .. n : s[k] = s[k - 1] + q[k]) /\ \A k \in 0 .. n : s[k] \in Int
  BY <1>1 DEF SumsOf
<1>4. (\A k \in 0 .. n - 1 : u[k] = IF k < i THEN s[k] ELSE s[k + 1] - q[i])
      /\ DOMAIN u = 0 .. n - 1 /\ u = [k \in 0 .. n - 1 |-> u[k]]
  BY <1>2
<1>5. \A k \in 1 .. n - 1 : r[k] = IF k < i THEN q[k] ELSE q[k + 1]
  OBVIOUS
<1> HIDE DEF n, u
<1>6. u[0] = 0
  BY <1>2, <1>3, <1>4
<1>7. ASSUME NEW k \in 1 .. n - 1 PROVE u[k] = u[k - 1] + r[k]
  <2>1. k \in 0 .. n - 1 /\ k - 1 \in 0 .. n - 1 /\ k \in 1 .. n /\ k + 1 \in 1 .. n
    BY <1>2
  <2>2. s[k] = s[k - 1] + q[k] /\ s[k + 1] = s[k] + q[k + 1]
    <3> DEFINE j == k + 1
    <3>1. j \in 1 .. n /\ j - 1 = k
      BY <2>1
    <3> HIDE DEF j
    <3>2. s[j] = s[k] + q[j]
      BY <1>3, <3>1
    <3> QED  BY <1>3, <2>1, <3>2 DEF j
  <2>3. q[k] \in Int /\ q[k + 1] \in Int /\ q[i] \in Int /\ s[k] \in Int
        /\ s[k - 1] \in Int /\ s[k + 1] \in Int
    <3>1. k \in 0 .. n /\ k - 1 \in 0 .. n /\ k + 1 \in 0 .. n
      BY <1>2, <2>1
    <3> QED  BY <1>2, <1>3, <2>1, <3>1
  <2>4. CASE k < i
    <3>1. u[k] = s[k] /\ u[k - 1] = s[k - 1] /\ r[k] = q[k]
      BY <1>2, <1>4, <1>5, <2>1, <2>4
    <3> QED  BY <2>2, <3>1
  <2>5. CASE k = i
    <3>1. u[k] = s[k + 1] - q[i] /\ u[k - 1] = s[k - 1] /\ r[k] = q[k + 1]
      BY <1>2, <1>4, <1>5, <2>1, <2>5
    <3>2. s[k + 1] - q[k] = s[k - 1] + q[k + 1]
      <4>1. PICK a \in Int, b \in Int, c \in Int, x \in Int, y \in Int :
              a = s[k - 1] /\ b = s[k] /\ c = s[k + 1] /\ x = q[k] /\ y = q[k + 1]
        BY <2>3
      <4>2. b = a + x /\ c = b + y
        BY <2>2, <4>1
      <4>3. c - x = a + y
        BY <4>2
      <4> QED  BY <4>1, <4>3
    <3> QED  BY <2>5, <3>1, <3>2, Zenon
  <2>6. CASE k > i
    <3> ~(k < i)
      BY <1>2, <2>6
    <3>1. u[k] = s[k + 1] - q[i] /\ r[k] = q[k + 1]
      BY <1>4, <1>5, <2>1
    <3>2. u[k - 1] = s[k] - q[i]
      <4> DEFINE j == k - 1
      <4>1. j \in 0 .. n - 1 /\ ~(j < i) /\ j + 1 = k
        BY <1>2, <2>1, <2>6
      <4> HIDE DEF j
      <4>2. u[j] = s[k] - q[i]
        BY <1>4, <4>1
      <4> QED  BY <4>2 DEF j
    <3>3. s[k + 1] - q[i] = (s[k] - q[i]) + q[k + 1]
      <4>1. PICK b \in Int, c \in Int, x \in Int, y \in Int :
              b = s[k] /\ c = s[k + 1] /\ x = q[i] /\ y = q[k + 1]
        BY <2>3
      <4>2. c = b + y
        BY <2>2, <4>1
      <4>3. c - x = (b - x) + y
        BY <4>2
      <4> QED  BY <4>1, <4>3
    <3> QED  BY <3>1, <3>2, <3>3
  <2> QED  BY <1>2, <2>4, <2>5, <2>6
<1>8. SumsOf(r, u)
  BY <1>2, <1>4, <1>6, <1>7 DEF SumsOf
<1>9. Total(r) = u[n - 1]
  BY <1>2, <1>8, TotalIs
<1>10. Total(q) = s[n]
  BY <1>1, <1>2, TotalIs DEF n
<1>11. u[n - 1] = s[n] - q[i]
  <2>1. n \in 1 .. n /\ n - 1 \in 0 .. n - 1 /\ (n - 1) + 1 = n
    BY <1>2
  <2>2. s[n] = s[n - 1] + q[n] /\ s[n - 1] \in Int /\ q[n] \in Int
    BY <1>2, <1>3, <2>1
  <2> QED  BY <1>2, <1>4, <2>1, <2>2
<1> QED  BY <1>9, <1>10, <1>11

\* The sum when one number gets smaller.
LEMMA TotalLess ==
  ASSUME NEW q \in Seq(Int), NEW i \in 1 .. Len(q), NEW by \in Int, NEW r,
         Len(r) = Len(q),
         \A k \in 1 .. Len(q) : r[k] = IF k = i THEN q[k] - by ELSE q[k]
  PROVE  Total(r) = Total(q) - by
<1>1. PICK s \in [0 .. Len(q) -> Int] : SumsOf(q, s)
  BY SumsExist
<1> DEFINE n == Len(q)
           u == [k \in 0 .. n |-> IF k < i THEN s[k] ELSE s[k] - by]
<1>2. n \in Nat /\ Len(r) = n /\ i \in 1 .. n /\ \A k \in 1 .. n : q[k] \in Int
  OBVIOUS
<1>3. s[0] = 0 /\ (\A k \in 1 .. n : s[k] = s[k - 1] + q[k]) /\ \A k \in 0 .. n : s[k] \in Int
  BY <1>1 DEF SumsOf
<1>4. (\A k \in 0 .. n : u[k] = IF k < i THEN s[k] ELSE s[k] - by)
      /\ DOMAIN u = 0 .. n /\ u = [k \in 0 .. n |-> u[k]]
  BY <1>2
<1>11. 0 \in 0 .. n /\ 0 < i
  BY <1>2
<1>5. \A k \in 1 .. n : r[k] = IF k = i THEN q[k] - by ELSE q[k]
  OBVIOUS
<1> HIDE DEF n, u
<1>6. u[0] = 0
  BY <1>3, <1>4, <1>11
<1>7. ASSUME NEW k \in 1 .. n PROVE u[k] = u[k - 1] + r[k]
  <2>1. k \in 0 .. n /\ k - 1 \in 0 .. n
    BY <1>2
  <2>2. s[k] = s[k - 1] + q[k] /\ q[k] \in Int /\ s[k - 1] \in Int
    BY <1>2, <1>3, <2>1
  <2>3. /\ u[k] = IF k < i THEN s[k] ELSE s[k] - by
        /\ u[k - 1] = IF k - 1 < i THEN s[k - 1] ELSE s[k - 1] - by
        /\ r[k] = IF k = i THEN q[k] - by ELSE q[k]
    BY <1>4, <1>5, <2>1
  <2>4. CASE k < i
    <3>1. u[k] = s[k] /\ u[k - 1] = s[k - 1] /\ r[k] = q[k]
      BY <1>2, <2>3, <2>4
    <3> QED  BY <2>2, <3>1
  <2>5. CASE k = i
    <3>1. u[k] = s[k] - by /\ u[k - 1] = s[k - 1] /\ r[k] = q[k] - by
      BY <1>2, <2>3, <2>5
    <3> QED  BY <2>2, <3>1
  <2>6. CASE k > i
    <3>1. u[k] = s[k] - by /\ u[k - 1] = s[k - 1] - by /\ r[k] = q[k]
      BY <1>2, <2>3, <2>6
    <3> QED  BY <2>2, <3>1
  <2> QED  BY <1>2, <2>4, <2>5, <2>6
<1>8. SumsOf(r, u)
  BY <1>2, <1>4, <1>6, <1>7 DEF SumsOf
<1>9. Total(r) = u[n]
  BY <1>2, <1>8, TotalIs
<1>10. Total(q) = s[n]
  BY <1>1, <1>2, TotalIs DEF n
<1> QED  BY <1>2, <1>4, <1>9, <1>10

-----------------------------------------------------------------------------
(* Counts *)

\* The nodes of these levels.
NodesUnder(keys) == {n \in Nodes : level[n] \in keys}

\* c is the sum of the counts of each set of levels.
CountsOf(keys, c) ==
  c = [some \in SUBSET keys |->
         IF some = {} THEN 0
         ELSE level_map[CHOOSE key \in some : TRUE].order_count
                + c[some \ {CHOOSE key \in some : TRUE}]]

\* The sum of the counts is by the equation that the fold over levels is defined
\* by.
LEMMA SumIs ==
  MapThenSumSet(LAMBDA key : level_map[key].order_count, DOMAIN level_map)
    = (CHOOSE c : CountsOf(DOMAIN level_map, c))[DOMAIN level_map]
BY DEF MapThenSumSet, MapThenFoldSet, CountsOf

\* Any nodes of the pool can be counted.
LEMMA FiniteNodes ==
  ASSUME NEW T, T \subseteq Nodes
  PROVE  IsFiniteSet(T) /\ Cardinality(T) \in Nat
<1>1. PoolCapacity \in Nat
  BY BookLevelsAssumption
<1>2. IsFiniteSet(Nodes)
  BY <1>1, Interval DEF Nodes
<1> QED  BY <1>2, FS_Subset, FS_CardinalityType

\* Every level's count is the number of its nodes.
Counted == \A key \in DOMAIN level_map :
             level_map[key].order_count = Cardinality(NodesUnder({key}))

\* If every level counts its nodes, the nodes under a set of levels are the sum of
\* its counts.
LEMMA CountsNodes ==
  ASSUME Counted
  PROVE  CountsOf(DOMAIN level_map, [some \in SUBSET DOMAIN level_map |-> Cardinality(NodesUnder(some))])
<1> DEFINE keys == DOMAIN level_map
           c == [some \in SUBSET keys |-> Cardinality(NodesUnder(some))]
           f == [some \in SUBSET keys |->
                  IF some = {} THEN 0
                  ELSE level_map[CHOOSE key \in some : TRUE].order_count
                         + c[some \ {CHOOSE key \in some : TRUE}]]
<1>1. ASSUME NEW some \in SUBSET keys
      PROVE  c[some] = f[some]
  <2>1. CASE some = {}
    <3>1. NodesUnder(some) = {}
      BY <2>1 DEF NodesUnder
    <3>2. c[some] = 0
      BY <3>1, FS_EmptySet
    <3> QED  BY <2>1, <3>2
  <2>2. CASE some # {}
    <3> DEFINE key == CHOOSE key \in some : TRUE
               rest == some \ {key}
    <3>1. key \in some /\ rest \in SUBSET keys /\ key \in keys
      BY <2>2
    <3>2. f[some] = level_map[key].order_count + c[rest]
      BY <2>2
    <3>3. c[rest] = Cardinality(NodesUnder(rest)) /\ c[some] = Cardinality(NodesUnder(some))
      BY <3>1
    <3> HIDE DEF key, c, f
    <3>4. /\ NodesUnder(some) = NodesUnder({key}) \cup NodesUnder(rest)
          /\ NodesUnder({key}) \cap NodesUnder(rest) = {}
          /\ NodesUnder(some) \subseteq Nodes
          /\ NodesUnder({key}) \subseteq Nodes
          /\ NodesUnder(rest) \subseteq Nodes
      BY <3>1 DEF NodesUnder
    <3> HIDE DEF rest
    <3>5. /\ IsFiniteSet(NodesUnder({key})) /\ Cardinality(NodesUnder({key})) \in Nat
          /\ IsFiniteSet(NodesUnder(rest)) /\ Cardinality(NodesUnder(rest)) \in Nat
      BY <3>4, FiniteNodes
    <3>6. Cardinality(NodesUnder(some)) =
            Cardinality(NodesUnder({key})) + Cardinality(NodesUnder(rest)) - Cardinality({})
      BY <3>4, <3>5, FS_Union
    <3>7. level_map[key].order_count = Cardinality(NodesUnder({key}))
      BY <3>1 DEF Counted
    <3> QED  BY <3>2, <3>3, <3>5, <3>6, <3>7, FS_EmptySet
  <2> QED  BY <2>1, <2>2
<1>2. c = [some \in SUBSET keys |-> c[some]] /\ f = [some \in SUBSET keys |-> f[some]]
  OBVIOUS
<1>3. c = f
  <2> HIDE DEF c, f
  <2> QED  BY <1>1, <1>2, Zenon
<1> QED  BY <1>3 DEF CountsOf

\* The counts determine the sum.
LEMMA OneCount ==
  ASSUME NEW keys, IsFiniteSet(keys), NEW c, NEW d, CountsOf(keys, c), CountsOf(keys, d)
  PROVE  c = d
<1> DEFINE T == {n \in Nat : \A some \in SUBSET keys : Cardinality(some) = n => c[some] = d[some]}
<1>a. /\ \A some \in SUBSET keys :
           c[some] = IF some = {} THEN 0
                     ELSE level_map[CHOOSE key \in some : TRUE].order_count
                            + c[some \ {CHOOSE key \in some : TRUE}]
      /\ \A some \in SUBSET keys :
           d[some] = IF some = {} THEN 0
                     ELSE level_map[CHOOSE key \in some : TRUE].order_count
                            + d[some \ {CHOOSE key \in some : TRUE}]
      /\ c = [some \in SUBSET keys |-> c[some]]
      /\ d = [some \in SUBSET keys |-> d[some]]
  <2>1. /\ c = [some \in SUBSET keys |->
                  IF some = {} THEN 0
                  ELSE level_map[CHOOSE key \in some : TRUE].order_count
                         + c[some \ {CHOOSE key \in some : TRUE}]]
        /\ d = [some \in SUBSET keys |->
                  IF some = {} THEN 0
                  ELSE level_map[CHOOSE key \in some : TRUE].order_count
                         + d[some \ {CHOOSE key \in some : TRUE}]]
    BY DEF CountsOf
  <2> QED  BY <2>1, Zenon
<1>b. \A some \in SUBSET keys : IsFiniteSet(some) /\ Cardinality(some) \in Nat
  BY FS_Subset, FS_CardinalityType
<1>1. 0 \in T
  <2> SUFFICES ASSUME NEW some \in SUBSET keys, Cardinality(some) = 0
               PROVE  c[some] = d[some]
    OBVIOUS
  <2>1. some = {}
    BY <1>b, FS_EmptySet
  <2> QED  BY <1>a, <2>1
<1>2. ASSUME NEW n \in Nat, n \in T
      PROVE  n + 1 \in T
  <2> SUFFICES ASSUME NEW some \in SUBSET keys, Cardinality(some) = n + 1
               PROVE  c[some] = d[some]
    OBVIOUS
  <2>1. some # {}
    BY FS_EmptySet
  <2> DEFINE key == CHOOSE key \in some : TRUE
             rest == some \ {key}
  <2>2. key \in some /\ rest \in SUBSET keys
    BY <2>1
  <2>3. /\ c[some] = level_map[key].order_count + c[rest]
        /\ d[some] = level_map[key].order_count + d[rest]
    BY <1>a, <2>1
  <2> HIDE DEF key
  <2>4. Cardinality(rest) = n
    <3>1. Cardinality(rest) = Cardinality(some) - 1
      BY <1>b, <2>2, FS_RemoveElement
    <3> QED  BY <3>1
  <2> HIDE DEF rest
  <2>5. c[rest] = d[rest]
    BY <1>2, <2>2, <2>4
  <2> QED  BY <2>3, <2>5
<1>3. Nat \subseteq T
  <2> HIDE DEF T
  <2> QED  BY <1>1, <1>2, Induction
<1>4. \A some \in SUBSET keys : c[some] = d[some]
  BY <1>b, <1>3
<1> QED  BY <1>a, <1>4, Zenon

\* check_invariants adds up the counts of the levels: the number of nodes in levels.
LEMMA CountsAddUp ==
  ASSUME LinksInv, Counted
  PROVE  MapThenSumSet(LAMBDA key : level_map[key].order_count, DOMAIN level_map)
           = Cardinality(NodesUnder(DOMAIN level_map))
<1> DEFINE keys == DOMAIN level_map
           c == [some \in SUBSET keys |-> Cardinality(NodesUnder(some))]
           d == CHOOSE f : CountsOf(keys, f)
<1>1. IsFiniteSet(keys)
  <2> DEFINE head == [key \in keys |-> level_map[key].head]
  <2>1. ASSUME NEW key \in keys
        PROVE  head[key] \in Nodes /\ level[head[key]] = key
    BY DEF LinksInv, LinksAgree, EndsAgree
  <2>2. head = [key \in keys |-> head[key]]
    OBVIOUS
  <2> HIDE DEF head
  <2>3. head \in [keys -> Nodes]
    BY <2>1, <2>2, Zenon
  <2>4. \A a, b \in keys : head[a] = head[b] => a = b
    BY <2>1
  <2>5. head \in Injection(keys, Nodes)
    BY <2>3, <2>4 DEF Injection, IsInjective
  <2>6. IsFiniteSet(Nodes)
    BY FiniteNodes
  <2> QED  BY <2>5, <2>6, FS_Injection
<1>2. CountsOf(keys, c)
  BY CountsNodes
<1> HIDE DEF c
<1>3. CountsOf(keys, d)
  BY <1>2
<1> HIDE DEF d, keys
<1>4. d = c
  BY <1>1, <1>2, <1>3, OneCount
<1>5. c[keys] = Cardinality(NodesUnder(keys))
  BY DEF c
<1> QED  BY <1>4, <1>5, SumIs DEF d, keys

\* The ids in the index and the nodes in levels are as many.
LEMMA IndexCounts ==
  ASSUME LinksInv
  PROVE  Cardinality(Indexed) = Cardinality(NodesUnder(DOMAIN level_map))
<1> DEFINE nodes == NodesUnder(DOMAIN level_map)
           f == [n \in nodes |-> order[n].id]
<1>1. ASSUME NEW n \in nodes
      PROVE  n \in Nodes /\ n # Null /\ order[n].id \in Ids /\ id_index[order[n].id] = n
  <2>1. n \in Nodes /\ level[n] \in DOMAIN level_map
    BY DEF NodesUnder
  <2>2. Linked(n)
    BY <2>1, KeyIsLevel DEF LinksInv, TypeOK, Linked
  <2> QED  BY <2>1, <2>2, LinkedOrder, NullIsNoNode DEF NodeAgrees
<1>2. ASSUME NEW id \in Indexed
      PROVE  id_index[id] \in nodes /\ order[id_index[id]].id = id
  <2>1. id_index[id] \in Nodes /\ Linked(id_index[id])
    BY IndexedNode
  <2>2. level[id_index[id]] \in DOMAIN level_map
    BY <2>1, LinkedOrder
  <2> QED  BY <2>1, <2>2 DEF NodesUnder, Indexed, LinksInv, LinksAgree, IndexAgrees
<1>3. IsFiniteSet(nodes)
  BY FiniteNodes DEF NodesUnder
<1> HIDE DEF nodes
<1>4. f \in Bijection(nodes, Indexed)
  <2>1. \A n \in nodes : f[n] = order[n].id
    OBVIOUS
  <2>2. \A n \in nodes : f[n] \in Indexed
    BY <1>1, <2>1 DEF Indexed
  <2>3. f = [n \in nodes |-> f[n]]
    OBVIOUS
  <2> HIDE DEF f
  <2>4. f \in [nodes -> Indexed]
    BY <2>2, <2>3, Zenon
  <2>5. \A a, b \in nodes : f[a] = f[b] => a = b
    BY <1>1, <2>1
  <2>6. \A id \in Indexed : \E n \in nodes : f[n] = id
    BY <1>2, <2>1
  <2> QED  BY <2>4, <2>5, <2>6 DEF Bijection, Injection, Surjection, IsInjective
<1>5. ExistsBijection(nodes, Indexed)
  BY <1>4 DEF ExistsBijection
<1>6. Cardinality(Indexed) = Cardinality(nodes)
  BY <1>3, <1>5, FS_Bijection
<1> QED  BY <1>6 DEF nodes

-----------------------------------------------------------------------------
(* Walks that grow and shrink *)

\* RemoveAt, element by element.
LEMMA Removed ==
  ASSUME NEW S, NEW q \in Seq(S), NEW i \in 1 .. Len(q)
  PROVE  /\ RemoveAt(q, i) \in Seq(S)
         /\ Len(RemoveAt(q, i)) = Len(q) - 1
         /\ \A k \in 1 .. Len(q) - 1 : RemoveAt(q, i)[k] = IF k < i THEN q[k] ELSE q[k + 1]
<1> DEFINE a == SubSeq(q, 1, i - 1)
           b == SubSeq(q, i + 1, Len(q))
<1>1. a \in Seq(S) /\ Len(a) = i - 1 /\ \A k \in 1 .. i - 1 : a[k] = q[k]
  OBVIOUS
<1>2. b \in Seq(S) /\ Len(b) = Len(q) - i /\ \A k \in 1 .. Len(q) - i : b[k] = q[i + k]
  OBVIOUS
<1>3. RemoveAt(q, i) = a \o b
  BY DEF RemoveAt
<1> HIDE DEF a, b
<1>4. a \o b \in Seq(S) /\ Len(a \o b) = Len(q) - 1
  <2>1. a \o b \in Seq(S)
    BY <1>1, <1>2
  <2>2. Len(a \o b) = Len(a) + Len(b)
    <3>1. a \in Seq(S) /\ b \in Seq(S)
      BY <1>1, <1>2
    <3> QED  BY <3>1
  <2>3. (i - 1) + (Len(q) - i) = Len(q) - 1
    OBVIOUS
  <2> QED  BY <1>1, <1>2, <2>1, <2>2, <2>3
<1>5. ASSUME NEW k \in 1 .. Len(q) - 1
      PROVE  (a \o b)[k] = IF k < i THEN q[k] ELSE q[k + 1]
  <2>1. CASE k < i
    <3>1. k \in 1 .. i - 1
      BY <2>1
    <3> QED  BY <1>1, <1>2, <2>1, <3>1
  <2>2. CASE ~(k < i)
    <3>1. k - (i - 1) \in 1 .. Len(q) - i /\ i + (k - (i - 1)) = k + 1
      BY <2>2
    <3>2. (a \o b)[k] = b[k - (i - 1)]
      BY <1>1, <1>2, <2>2
    <3>3. b[k - (i - 1)] = q[k + 1]
      <4> DEFINE j == k - (i - 1)
      <4>1. j \in 1 .. Len(q) - i /\ i + j = k + 1
        BY <3>1
      <4> HIDE DEF j
      <4>2. b[j] = q[k + 1]
        BY <1>2, <4>1
      <4> QED  BY <4>2 DEF j
    <3> QED  BY <2>2, <3>2, <3>3
  <2> QED  BY <2>1, <2>2
<1> QED  BY <1>3, <1>4, <1>5

\* What a walk that ends says of each step.
LEMMA Walked ==
  ASSUME NEW links, NEW n, NEW q, IsWalk(links, n, q)
  PROVE  /\ q \in Seq(Nodes) /\ Len(q) \in Nat /\ DOMAIN q = 1 .. Len(q)
         /\ \A i \in 1 .. Len(q) : q[i] \in Nodes /\ q[i] # Null /\ q[i] \in Range(q)
         /\ q = <<>> <=> Len(q) = 0
         /\ n = IF Len(q) = 0 THEN Null ELSE q[1]
         /\ \A i \in 1 .. Len(q) : links[q[i]] = IF i = Len(q) THEN Null ELSE q[i + 1]
         /\ \A i, j \in 1 .. Len(q) : q[i] = q[j] => i = j
         /\ Range(q) \subseteq Nodes
<1>1. q \in Seq(Nodes)
  BY DEF IsWalk
<1>2. /\ Len(q) \in Nat /\ DOMAIN q = 1 .. Len(q) /\ (q = <<>> <=> Len(q) = 0)
      /\ \A i \in 1 .. Len(q) : q[i] \in Nodes
  BY <1>1
<1>3. Range(q) \subseteq Nodes /\ \A i \in 1 .. Len(q) : q[i] \in Range(q) /\ q[i] # Null
  BY <1>2, NullIsNoNode DEF Range
<1> QED  BY <1>1, <1>2, <1>3 DEF IsWalk

\* Links that are not on the way may change.
LEMMA WalkStays ==
  ASSUME NEW links, NEW n, NEW q, IsWalk(links, n, q), NEW to,
         \A m \in Range(q) : to[m] = links[m]
  PROVE  IsWalk(to, n, q)
<1>1. \A i \in DOMAIN q : q[i] \in Range(q)
  BY DEF Range
<1> QED  BY <1>1 DEF IsWalk

\* A node joins at the end.
LEMMA WalkGrows ==
  ASSUME NEW links, NEW h, NEW q, IsWalk(links, h, q), NEW m \in Nodes, m \notin Range(q),
         NEW to, to[m] = Null,
         \A i \in 1 .. Len(q) : to[q[i]] = IF i = Len(q) THEN m ELSE links[q[i]],
         NEW g, g = IF Len(q) = 0 THEN m ELSE h
  PROVE  IsWalk(to, g, Append(q, m))
<1> DEFINE r == Append(q, m)
           n == Len(q)
<1>1. /\ q \in Seq(Nodes) /\ n \in Nat
      /\ \A i \in 1 .. n : q[i] \in Nodes /\ q[i] # m
      /\ h = IF n = 0 THEN Null ELSE q[1]
      /\ \A i \in 1 .. n : links[q[i]] = IF i = n THEN Null ELSE q[i + 1]
      /\ \A i, j \in 1 .. n : q[i] = q[j] => i = j
      /\ \A i \in 1 .. n : to[q[i]] = IF i = n THEN m ELSE links[q[i]]
  BY Walked
<1>2. r \in Seq(Nodes) /\ Len(r) = n + 1 /\ DOMAIN r = 1 .. n + 1 /\ r # <<>>
      /\ r[n + 1] = m /\ \A i \in 1 .. n : r[i] = q[i]
  BY <1>1
<1> HIDE DEF r, n
<1>3. g = r[1]
  BY <1>1, <1>2 DEF n
<1>4. ASSUME NEW i \in 1 .. n + 1
      PROVE  to[r[i]] = IF i = n + 1 THEN Null ELSE r[i + 1]
  <2>1. CASE i = n + 1
    BY <1>2, <2>1
  <2>2. CASE i = n
    <3>1. i \in 1 .. n /\ i # n + 1 /\ r[i] = q[i]
      BY <1>1, <1>2, <2>2
    <3> QED  BY <1>1, <1>2, <2>2, <3>1
  <2>3. CASE i < n
    <3>1. i \in 1 .. n /\ i + 1 \in 1 .. n /\ i # n /\ i # n + 1
      BY <1>1, <2>3
    <3>2. to[q[i]] = q[i + 1]
      BY <1>1, <3>1
    <3> QED  BY <1>2, <3>1, <3>2
  <2> QED  BY <1>1, <2>1, <2>2, <2>3
<1>5. ASSUME NEW i \in 1 .. n + 1, NEW j \in 1 .. n + 1, r[i] = r[j]
      PROVE  i = j
  <2>1. i = n + 1 \/ i \in 1 .. n
    BY <1>1
  <2>2. j = n + 1 \/ j \in 1 .. n
    BY <1>1
  <2> QED  BY <1>1, <1>2, <1>5, <2>1, <2>2
<1> QED  BY <1>2, <1>3, <1>4, <1>5 DEF IsWalk, r

\* A node leaves, and the one before it, or the start, leads on to the one after.
LEMMA WalkShrinks ==
  ASSUME NEW links, NEW h, NEW q, IsWalk(links, h, q), NEW i \in 1 .. Len(q),
         NEW to, \A j \in 1 .. Len(q) :
                   j # i => to[q[j]] = IF j = i - 1 THEN links[q[i]] ELSE links[q[j]],
         NEW g, g = IF i = 1 THEN links[q[i]] ELSE h
  PROVE  IsWalk(to, g, RemoveAt(q, i))
<1> DEFINE r == RemoveAt(q, i)
           n == Len(q)
<1>1. /\ q \in Seq(Nodes) /\ n \in Nat /\ i \in 1 .. n
      /\ \A j \in 1 .. n : q[j] \in Nodes
      /\ h = IF n = 0 THEN Null ELSE q[1]
      /\ \A j \in 1 .. n : links[q[j]] = IF j = n THEN Null ELSE q[j + 1]
      /\ \A j, k \in 1 .. n : q[j] = q[k] => j = k
      /\ \A j \in 1 .. n : j # i => to[q[j]] = IF j = i - 1 THEN links[q[i]] ELSE links[q[j]]
  BY Walked
<1>2. r \in Seq(Nodes) /\ Len(r) = n - 1 /\ DOMAIN r = 1 .. n - 1
      /\ \A k \in 1 .. n - 1 : r[k] = IF k < i THEN q[k] ELSE q[k + 1]
  BY <1>1, Removed
<1>3. r = <<>> <=> n = 1
  BY <1>1, <1>2
<1> HIDE DEF r, n
<1>4. g = IF r = <<>> THEN Null ELSE r[1]
  <2>1. CASE i = 1
    <3>1. 1 \in 1 .. n
      BY <1>1
    <3>2. g = IF n = 1 THEN Null ELSE q[2]
      BY <1>1, <2>1, <3>1
    <3>3. n # 1 => 1 \in 1 .. n - 1 /\ r[1] = q[2]
      BY <1>1, <1>2, <2>1
    <3> QED  BY <1>3, <3>2, <3>3
  <2>2. CASE i # 1
    <3>1. n # 1 /\ n # 0 /\ 1 \in 1 .. n - 1 /\ 1 < i
      BY <1>1, <2>2
    <3> QED  BY <1>1, <1>2, <1>3, <2>2, <3>1
  <2> QED  BY <2>1, <2>2
<1>5. ASSUME NEW k \in 1 .. n - 1
      PROVE  to[r[k]] = IF k = n - 1 THEN Null ELSE r[k + 1]
  <2>1. k \in 1 .. n /\ k + 1 \in 1 .. n /\ k # n
    BY <1>1
  <2>2. CASE k < i - 1
    <3>1. k + 1 \in 1 .. n - 1 /\ k < i /\ k + 1 < i /\ k # n - 1
      BY <1>1, <2>2
    <3>2. r[k] = q[k] /\ r[k + 1] = q[k + 1]
      BY <1>2, <3>1
    <3>3. to[q[k]] = q[k + 1]
      BY <1>1, <2>1, <2>2, <3>1
    <3> QED  BY <3>1, <3>2, <3>3
  <2>3. CASE k = i - 1
    <3>1. k < i /\ k # i /\ r[k] = q[k]
      BY <1>1, <1>2, <2>3
    <3>2. to[q[k]] = IF i = n THEN Null ELSE q[i + 1]
      BY <1>1, <2>1, <2>3, <3>1
    <3>3. CASE i = n
      <4>1. k = n - 1
        BY <2>3, <3>3
      <4> QED  BY <3>1, <3>2, <3>3, <4>1
    <3>4. CASE i # n
      <4>1. k # n - 1 /\ k + 1 \in 1 .. n - 1 /\ ~(k + 1 < i) /\ (k + 1) + 1 = i + 1
        BY <1>1, <2>3, <3>4
      <4>2. r[k + 1] = q[i + 1]
        BY <1>2, <4>1
      <4> QED  BY <3>1, <3>2, <3>4, <4>1, <4>2
    <3> QED  BY <3>3, <3>4
  <2>4. CASE k > i - 1
    <3>1. ~(k < i) /\ k + 1 # i /\ k + 1 # i - 1
      BY <1>1, <2>4
    <3>2. r[k] = q[k + 1]
      BY <1>2, <3>1
    <3>3. to[q[k + 1]] = IF k + 1 = n THEN Null ELSE q[(k + 1) + 1]
      <4> DEFINE j == k + 1
      <4>1. j \in 1 .. n /\ j # i /\ j # i - 1
        BY <2>1, <3>1
      <4> HIDE DEF j
      <4>2. to[q[j]] = IF j = n THEN Null ELSE q[j + 1]
        BY <1>1, <4>1
      <4> QED  BY <4>2 DEF j
    <3>4. CASE k = n - 1
      <4>1. k + 1 = n
        BY <1>1, <3>4
      <4> QED  BY <3>2, <3>3, <3>4, <4>1
    <3>5. CASE k # n - 1
      <4>1. k + 1 # n /\ k + 1 \in 1 .. n - 1 /\ ~(k + 1 < i)
        BY <1>1, <2>4, <3>5
      <4>2. r[k + 1] = q[(k + 1) + 1]
        BY <1>2, <4>1
      <4> QED  BY <3>2, <3>3, <3>5, <4>1, <4>2
    <3> QED  BY <3>4, <3>5
  <2> QED  BY <1>1, <2>2, <2>3, <2>4
<1>6. ASSUME NEW j \in 1 .. n - 1, NEW k \in 1 .. n - 1, r[j] = r[k]
      PROVE  j = k
  <2> DEFINE a == IF j < i THEN j ELSE j + 1
             b == IF k < i THEN k ELSE k + 1
  <2>1. a \in 1 .. n /\ b \in 1 .. n
    BY <1>1
  <2>2. r[j] = q[a] /\ r[k] = q[b]
    BY <1>2
  <2>3. j \in Int /\ k \in Int /\ i \in Int
    BY <1>1
  <2> HIDE DEF a, b
  <2>4. \A x, y \in 1 .. n : q[x] = q[y] => x = y
    BY <1>1
  <2>5. a = b
    BY <1>6, <2>1, <2>2, <2>4
  <2> QED  BY <2>3, <2>5 DEF a, b
<1>7. Len(r) = n - 1
  BY <1>2
<1> QED  BY <1>2, <1>4, <1>5, <1>6, <1>7 DEF IsWalk, r

\* A node joins in front (release).
LEMMA WalkInFront ==
  ASSUME NEW links, NEW h, NEW q, IsWalk(links, h, q), NEW m \in Nodes, m \notin Range(q),
         NEW to, to[m] = h, \A k \in Range(q) : to[k] = links[k]
  PROVE  IsWalk(to, m, <<m>> \o q)
<1> DEFINE r == <<m>> \o q
           n == Len(q)
<1>1. /\ q \in Seq(Nodes) /\ n \in Nat
      /\ \A i \in 1 .. n : q[i] \in Nodes /\ q[i] # m
      /\ h = IF n = 0 THEN Null ELSE q[1]
      /\ \A i \in 1 .. n : to[q[i]] = IF i = n THEN Null ELSE q[i + 1]
      /\ \A i, j \in 1 .. n : q[i] = q[j] => i = j
  BY Walked
<1>2. r \in Seq(Nodes) /\ Len(r) = n + 1 /\ DOMAIN r = 1 .. n + 1 /\ r # <<>>
      /\ r[1] = m /\ \A i \in 2 .. n + 1 : r[i] = q[i - 1]
  BY <1>1
<1> HIDE DEF r, n
<1>4. ASSUME NEW i \in 1 .. n + 1
      PROVE  to[r[i]] = IF i = n + 1 THEN Null ELSE r[i + 1]
  <2>1. CASE i = 1
    <3>1. n # 0 => 2 \in 2 .. n + 1 /\ r[2] = q[1]
      BY <1>1, <1>2
    <3> QED  BY <1>1, <1>2, <2>1, <3>1
  <2>2. CASE i # 1
    <3> DEFINE j == i - 1
    <3>1. j \in 1 .. n /\ i \in 2 .. n + 1 /\ i = j + 1 /\ (j = n <=> i = n + 1)
      BY <1>1, <2>2
    <3>2. r[i] = q[j]
      BY <1>2, <3>1
    <3>3. i # n + 1 => r[i + 1] = q[i]
      <4> DEFINE k == i + 1
      <4>1. i # n + 1 => k \in 2 .. n + 1 /\ k - 1 = i
        BY <1>1
      <4> HIDE DEF k
      <4>2. i # n + 1 => r[k] = q[i]
        BY <1>2, <4>1
      <4> QED  BY <4>2 DEF k
    <3> HIDE DEF j
    <3>4. to[q[j]] = IF j = n THEN Null ELSE q[j + 1]
      BY <1>1, <3>1
    <3> QED  BY <3>1, <3>2, <3>3, <3>4
  <2> QED  BY <2>1, <2>2
<1>5. ASSUME NEW i \in 1 .. n + 1, NEW j \in 1 .. n + 1, r[i] = r[j]
      PROVE  i = j
  <2>1. i = 1 \/ (i - 1 \in 1 .. n /\ r[i] = q[i - 1])
    BY <1>1, <1>2
  <2>2. j = 1 \/ (j - 1 \in 1 .. n /\ r[j] = q[j - 1])
    BY <1>1, <1>2
  <2>3. CASE i = 1 \/ j = 1
    BY <1>1, <1>2, <1>5, <2>1, <2>2, <2>3
  <2>4. CASE i # 1 /\ j # 1
    <3>1. i - 1 = j - 1
      BY <1>1, <1>5, <2>1, <2>2, <2>4
    <3> QED  BY <1>1, <3>1
  <2> QED  BY <2>3, <2>4
<1> QED  BY <1>2, <1>4, <1>5 DEF IsWalk, r

\* The first node leaves (acquire).
LEMMA WalkFromSecond ==
  ASSUME NEW links, NEW h, NEW q, IsWalk(links, h, q), Len(q) # 0,
         NEW to, \A k \in Range(q) : k # h => to[k] = links[k]
  PROVE  IsWalk(to, links[h], RemoveAt(q, 1))
<1>1. /\ Len(q) \in Nat /\ 1 \in 1 .. Len(q) /\ h = q[1]
      /\ \A j \in 1 .. Len(q) : q[j] \in Range(q) /\ (j # 1 => q[j] # h)
  BY Walked
<1>2. \A j \in 1 .. Len(q) : j # 1 => to[q[j]] = IF j = 0 THEN links[q[1]] ELSE links[q[j]]
  BY <1>1
<1>3. 1 - 1 = 0
  OBVIOUS
<1> QED  BY <1>1, <1>2, <1>3, WalkShrinks

\* What a walk meets when a node has joined.
LEMMA RangeWith ==
  ASSUME NEW q \in Seq(Nodes), NEW m \in Nodes
  PROVE  /\ Range(Append(q, m)) = Range(q) \cup {m}
         /\ Range(<<m>> \o q) = Range(q) \cup {m}
<1> DEFINE n == Len(q)
<1>1. n \in Nat /\ DOMAIN q = 1 .. n
  OBVIOUS
<1>2. Range(Append(q, m)) = Range(q) \cup {m}
  <2> DEFINE r == Append(q, m)
  <2>1. DOMAIN r = 1 .. n + 1 /\ r[n + 1] = m /\ \A k \in 1 .. n : r[k] = q[k]
    BY <1>1
  <2> HIDE DEF r, n
  <2>2. Range(r) = {r[k] : k \in 1 .. n + 1} /\ Range(q) = {q[k] : k \in 1 .. n}
    BY <1>1, <2>1 DEF Range
  <2>3. 1 .. n + 1 = (1 .. n) \cup {n + 1}
    BY <1>1
  <2> QED  BY <2>1, <2>2, <2>3 DEF r
<1>3. Range(<<m>> \o q) = Range(q) \cup {m}
  <2> DEFINE r == <<m>> \o q
  <2>1. DOMAIN r = 1 .. n + 1 /\ r[1] = m /\ \A k \in 2 .. n + 1 : r[k] = q[k - 1]
    BY <1>1
  <2> HIDE DEF r, n
  <2>2. Range(r) = {r[k] : k \in 1 .. n + 1} /\ Range(q) = {q[k] : k \in 1 .. n}
    BY <1>1, <2>1 DEF Range
  <2>3. ASSUME NEW x \in Range(r) PROVE x \in Range(q) \cup {m}
    <3>1. PICK k \in 1 .. n + 1 : x = r[k]
      BY <2>2
    <3>2. k = 1 \/ (k \in 2 .. n + 1 /\ k - 1 \in 1 .. n)
      BY <1>1
    <3> QED  BY <2>1, <2>2, <3>1, <3>2
  <2>4. ASSUME NEW x \in Range(q) PROVE x \in Range(r)
    <3>1. PICK k \in 1 .. n : x = q[k]
      BY <2>2
    <3> DEFINE j == k + 1
    <3>2. j \in 2 .. n + 1 /\ j \in 1 .. n + 1 /\ j - 1 = k
      BY <1>1
    <3> HIDE DEF j
    <3>3. r[j] = x
      BY <2>1, <3>1, <3>2
    <3> QED  BY <2>2, <3>2, <3>3
  <2>5. m \in Range(r)
    <3>1. 1 \in 1 .. n + 1
      BY <1>1
    <3> QED  BY <2>1, <2>2, <3>1
  <2>6. Range(r) = Range(q) \cup {m}
    BY <2>3, <2>4, <2>5
  <2> QED  BY <2>6 DEF r
<1> QED  BY <1>2, <1>3

\* What a walk meets when a node has left.
LEMMA RangeWithout ==
  ASSUME NEW q \in Seq(Nodes), NEW i \in 1 .. Len(q),
         \A j, k \in 1 .. Len(q) : q[j] = q[k] => j = k
  PROVE  Range(RemoveAt(q, i)) = Range(q) \ {q[i]}
<1> DEFINE n == Len(q)
           r == RemoveAt(q, i)
<1>1. n \in Nat /\ DOMAIN q = 1 .. n
  OBVIOUS
<1>2. i \in 1 .. n
  BY <1>1
<1>3. /\ r \in Seq(Nodes) /\ Len(r) = n - 1
      /\ \A k \in 1 .. n - 1 : r[k] = IF k < i THEN q[k] ELSE q[k + 1]
  BY <1>2, Removed
<1>4. DOMAIN r = 1 .. n - 1
  BY <1>1, <1>3
<1>5. \A j, k \in 1 .. n : q[j] = q[k] => j = k
  OBVIOUS
<1> HIDE DEF r, n
<1>6. Range(r) = {r[k] : k \in 1 .. n - 1} /\ Range(q) = {q[k] : k \in 1 .. n}
  BY <1>1, <1>4 DEF Range
<1>7. ASSUME NEW x \in Range(r) PROVE x \in Range(q) \ {q[i]}
  <2>1. PICK k \in 1 .. n - 1 : x = r[k]
    BY <1>6
  <2>2. k \in 1 .. n /\ k + 1 \in 1 .. n
    BY <1>1
  <2>3. CASE k < i
    <3>1. x = q[k] /\ k # i
      BY <1>2, <1>3, <2>1, <2>3
    <3> QED  BY <1>5, <1>2, <1>6, <2>2, <3>1
  <2>4. CASE ~(k < i)
    <3>1. x = q[k + 1] /\ k + 1 # i
      BY <1>1, <1>2, <1>3, <2>1, <2>4
    <3> QED  BY <1>5, <1>2, <1>6, <2>2, <3>1
  <2> QED  BY <2>3, <2>4
<1>8. ASSUME NEW x \in Range(q), x # q[i] PROVE x \in Range(r)
  <2>1. PICK k \in 1 .. n : x = q[k]
    BY <1>6
  <2>2. k # i
    BY <1>8, <2>1
  <2>3. CASE k < i
    <3>1. k \in 1 .. n - 1 /\ r[k] = x
      BY <1>1, <1>2, <1>3, <2>1, <2>3
    <3> QED  BY <1>6, <3>1
  <2>4. CASE ~(k < i)
    <3> DEFINE j == k - 1
    <3>1. j \in 1 .. n - 1 /\ ~(j < i) /\ j + 1 = k
      BY <1>1, <1>2, <2>2, <2>4
    <3> HIDE DEF j
    <3>2. r[j] = x
      BY <1>3, <2>1, <3>1
    <3> QED  BY <1>6, <3>1, <3>2
  <2> QED  BY <2>3, <2>4
<1>9. Range(r) = Range(q) \ {q[i]}
  BY <1>7, <1>8
<1> QED  BY <1>9 DEF r

-----------------------------------------------------------------------------
(* The walks of the book: each level's, and that of the free list *)

\* The nodes of a level, none if there is no such level.
NodesOf(key) == IF key \in DOMAIN level_map THEN Chain(level_map[key].head) ELSE <<>>

FreeNodes == Chain(free_head)

\* The quantities in a queue, one by one.
LEMMA NumbersOf ==
  ASSUME NEW orders, NEW q \in Seq(Nodes),
         \A i \in 1 .. Len(q) : orders[q[i]].quantity \in Int
  PROVE  /\ Quantities(orders, q) \in Seq(Int)
         /\ Len(Quantities(orders, q)) = Len(q)
         /\ \A i \in 1 .. Len(q) : Quantities(orders, q)[i] = orders[q[i]].quantity
<1> DEFINE r == Quantities(orders, q)
<1>1. DOMAIN q = 1 .. Len(q) /\ Len(q) \in Nat
  OBVIOUS
<1>2. r = [i \in 1 .. Len(q) |-> orders[q[i]].quantity]
  BY <1>1 DEF Quantities
<1>3. r \in [1 .. Len(q) -> Int]
  BY <1>2
<1>4. r \in Seq(Int) /\ Len(r) = Len(q)
  BY <1>1, <1>2, <1>3
<1> QED  BY <1>2, <1>4

\* What is known of a level's walk: both ends, both directions, no node twice.
LEMMA LevelFacts ==
  ASSUME LinksInv, NEW key \in DOMAIN level_map, NEW q, LevelWalk(key, q)
  PROVE  /\ key \in Keys /\ key # NoLevel
         /\ q \in Seq(Nodes) /\ Len(q) \in Nat /\ Len(q) # 0 /\ DOMAIN q = 1 .. Len(q)
         /\ level_map[key].head = q[1] /\ level_map[key].tail = q[Len(q)]
         /\ \A i \in 1 .. Len(q) :
              /\ q[i] \in Nodes /\ q[i] # Null /\ q[i] \in Range(q)
              /\ level[q[i]] = key /\ Linked(q[i])
              /\ order[q[i]].quantity \in Int
              /\ next[q[i]] = IF i = Len(q) THEN Null ELSE q[i + 1]
              /\ prev[q[i]] = IF i = 1 THEN Null ELSE q[i - 1]
         /\ \A i, j \in 1 .. Len(q) : q[i] = q[j] => i = j
         /\ Range(q) \subseteq Nodes
<1> DEFINE n == Len(q)
<1>1. key \in Keys /\ key # NoLevel
  BY KeyIsLevel DEF LinksInv, TypeOK
<1>2. EndsAgree(key)
  BY DEF LinksInv, LinksAgree
<1>3. IsWalk(next, level_map[key].head, q)
  BY DEF LevelWalk
<1>4. /\ q \in Seq(Nodes) /\ n \in Nat /\ DOMAIN q = 1 .. n
      /\ \A i \in 1 .. n : q[i] \in Nodes /\ q[i] # Null /\ q[i] \in Range(q)
      /\ level_map[key].head = IF n = 0 THEN Null ELSE q[1]
      /\ \A i \in 1 .. n : next[q[i]] = IF i = n THEN Null ELSE q[i + 1]
      /\ \A i, j \in 1 .. n : q[i] = q[j] => i = j
      /\ Range(q) \subseteq Nodes
  BY <1>3, Walked
<1> HIDE DEF n
<1>5. n # 0
  BY <1>2, <1>4, NullIsNoNode DEF EndsAgree
<1>6. \A i \in 1 .. n : level[q[i]] = key
  BY <1>4 DEF LevelWalk
<1>7. \A i \in 1 .. n : Linked(q[i]) /\ NodeAgrees(q[i]) /\ order[q[i]].quantity \in Int
  BY <1>1, <1>4, <1>6, LinkedOrder DEF Linked, OrderType
<1>8. level_map[key].tail = q[n]
  <2>1. n \in 1 .. n
    BY <1>4, <1>5
  <2>2. next[q[n]] = Null
    BY <1>4, <2>1
  <2> QED  BY <1>6, <1>7, <2>1, <2>2 DEF NodeAgrees
<1>9. ASSUME NEW i \in 1 .. n PROVE prev[q[i]] = IF i = 1 THEN Null ELSE q[i - 1]
  <2>1. CASE i = 1
    BY <1>4, <1>5, <1>6, <1>7, <2>1 DEF NodeAgrees
  <2>2. CASE i # 1
    <3> DEFINE j == i - 1
    <3>1. j \in 1 .. n /\ j + 1 = i /\ j # n
      BY <1>4, <2>2
    <3> HIDE DEF j
    <3>2. next[q[j]] = q[i]
      BY <1>4, <3>1
    <3>3. prev[q[i]] = q[j]
      BY <1>4, <1>7, <3>1, <3>2 DEF NodeAgrees
    <3> QED  BY <2>2, <3>3 DEF j
  <2> QED  BY <2>1, <2>2
<1> QED  BY <1>1, <1>4, <1>5, <1>6, <1>7, <1>8, <1>9 DEF n

\* What is known of the walk through the free list.
LEMMA FreeFacts ==
  ASSUME LinksInv, NEW q, FreeWalk(q)
  PROVE  /\ q \in Seq(Nodes) /\ Len(q) \in Nat /\ DOMAIN q = 1 .. Len(q)
         /\ free_head = IF Len(q) = 0 THEN Null ELSE q[1]
         /\ \A i \in 1 .. Len(q) : q[i] \in Nodes /\ ~Linked(q[i]) /\ q[i] \in Range(q)
         /\ \A i, j \in 1 .. Len(q) : q[i] = q[j] => i = j
         /\ Range(q) \subseteq Nodes
<1>1. IsWalk(next, free_head, q)
  BY DEF FreeWalk
<1>2. /\ q \in Seq(Nodes) /\ Len(q) \in Nat /\ DOMAIN q = 1 .. Len(q)
      /\ free_head = IF Len(q) = 0 THEN Null ELSE q[1]
      /\ \A i \in 1 .. Len(q) : q[i] \in Nodes /\ q[i] \in Range(q)
      /\ \A i, j \in 1 .. Len(q) : q[i] = q[j] => i = j
      /\ Range(q) \subseteq Nodes
  BY <1>1, Walked
<1>3. \A i \in 1 .. Len(q) : ~Linked(q[i])
  BY <1>2 DEF FreeWalk
<1> QED  BY <1>2, <1>3

\* The walk after a step is the one whose links lead on as the step left them.
LEMMA LevelReadNext ==
  ASSUME NEW key, key \in DOMAIN level_map', NEW q, LevelWalk(key, q)'
  PROVE  NodesOf(key)' = q /\ LevelWalk(key, Chain(level_map[key].head))'
<1>1. IsWalk(next', level_map'[key].head, q)
  BY DEF LevelWalk
<1>2. Walk(next', level_map'[key].head) = q
  BY <1>1, WalkRead
<1>3. Chain(level_map[key].head)' = q
  BY <1>2 DEF Chain
<1>4. NodesOf(key)' = q
  BY <1>3 DEF NodesOf
<1> QED  BY <1>3, <1>4

\* The same of the free list.
LEMMA FreeReadNext ==
  ASSUME NEW q, FreeWalk(q)'
  PROVE  FreeNodes' = q /\ FreeWalk(Chain(free_head))'
<1>1. IsWalk(next', free_head', q)
  BY DEF FreeWalk
<1>2. Walk(next', free_head') = q
  BY <1>1, WalkRead
<1>3. Chain(free_head)' = q
  BY <1>2 DEF Chain
<1> QED  BY <1>3 DEF FreeNodes

\* A level that a step leaves alone.
LEMMA LevelStays ==
  ASSUME LinksInv, NEW key \in DOMAIN level_map, NEW q, LevelWalk(key, q),
         level_map'[key] = level_map[key],
         \A m \in Nodes : level'[m] = key <=> level[m] = key,
         \A m \in Nodes : level[m] = key => next'[m] = next[m] /\ order'[m] = order[m]
  PROVE  LevelWalk(key, q)'
<1>1. /\ q \in Seq(Nodes) /\ DOMAIN q = 1 .. Len(q)
      /\ \A i \in 1 .. Len(q) : q[i] \in Nodes /\ level[q[i]] = key
      /\ Range(q) \subseteq Nodes
  BY LevelFacts
<1>2. IsWalk(next, level_map[key].head, q) /\ \A m \in Range(q) : next'[m] = next[m]
  BY <1>1 DEF LevelWalk
<1>3. IsWalk(next', level_map[key].head, q)
  BY <1>2, WalkStays
<1>4. Quantities(order', q) = Quantities(order, q)
  BY <1>1 DEF Quantities
<1> QED  BY <1>3, <1>4 DEF LevelWalk

\* An order that comes to rest joins the end of its level's walk.
LEMMA RestWalksLevel ==
  ASSUME LinksInv, WalksInv, NEW o \in NewOrders, Rest(o),
         NEW n, n = free_head, NEW key, key = LevelOf(o), NEW q, q = NodesOf(key)
  PROVE  /\ LevelWalk(key, Append(q, n))'
         /\ q \in Seq(Nodes) /\ n \in Nodes
         /\ \A i \in 1 .. Len(q) : q[i] \in Nodes /\ Linked(q[i]) /\ level[q[i]] = key
<1> DEFINE t == LevelBefore(o).tail
           r == Append(q, n)
           h == IF key \in DOMAIN level_map THEN level_map[key].head ELSE Null
<1>1. Joined(o, n, key, t)
  BY RestJoins
<1>2. /\ n \in Nodes /\ ~Linked(n) /\ n # Null /\ key # NoLevel /\ o.quantity \in Int
      /\ level \in [Nodes -> Keys \cup {NoLevel}]
      /\ order \in [Nodes -> OrderType \cup {None}]
      /\ level'[n] = key /\ order'[n] = o
      /\ \A m \in Nodes : m # n => level'[m] = level[m] /\ order'[m] = order[m]
  BY <1>1, NullIsNoNode, KeyIsLevel DEF Joined, LinksInv, TypeOK, OrderType
<1>3. key \in DOMAIN level_map => LevelWalk(key, q)
  BY DEF WalksInv, NodesOf
<1>4. /\ IsWalk(next, h, q)
      /\ \A m \in Nodes : level[m] = key <=> m \in Range(q)
      /\ \A i \in 1 .. Len(q) : order[q[i]].quantity \in Int
      /\ t = IF Len(q) = 0 THEN Null ELSE q[Len(q)]
      /\ LevelBefore(o).total_quantity = Total(Quantities(order, q))
      /\ LevelBefore(o).order_count = Len(q)
      /\ key \in DOMAIN level_map <=> Len(q) # 0
  <2>1. CASE key \in DOMAIN level_map
    <3>1. LevelWalk(key, q)
      BY <1>3, <2>1
    <3>2. LevelBefore(o) = level_map[key]
      BY <2>1 DEF LevelBefore, Found
    <3>3. /\ Len(q) # 0 /\ level_map[key].tail = q[Len(q)]
          /\ \A i \in 1 .. Len(q) : order[q[i]].quantity \in Int
      BY <2>1, <3>1, LevelFacts
    <3> QED  BY <2>1, <3>1, <3>2, <3>3 DEF LevelWalk
  <2>2. CASE key \notin DOMAIN level_map
    <3>1. q = <<>> /\ Len(q) = 0 /\ Range(q) = {}
      BY <2>2 DEF NodesOf, Range
    <3>2. LevelBefore(o) = [head |-> Null, tail |-> Null, total_quantity |-> 0, order_count |-> 0]
      BY <2>2 DEF LevelBefore, Found
    <3>3. IsWalk(next, h, q)
      BY <2>2, <3>1 DEF IsWalk
    <3>4. \A m \in Nodes : level[m] # key
      <4>1. \A m \in Nodes : Linked(m) => level[m] \in DOMAIN level_map
        BY LinkedOrder
      <4> QED  BY <1>2, <2>2, <4>1 DEF Linked
    <3>5. Quantities(order, q) = <<>>
      BY <3>1 DEF Quantities
    <3> QED  BY <2>2, <3>1, <3>2, <3>3, <3>4, <3>5, TotalEmpty
  <2> QED  BY <2>1, <2>2
<1>5. /\ q \in Seq(Nodes) /\ Len(q) \in Nat
      /\ \A i \in 1 .. Len(q) : q[i] \in Nodes /\ q[i] \in Range(q)
      /\ \A i, j \in 1 .. Len(q) : q[i] = q[j] => i = j
      /\ h = IF Len(q) = 0 THEN Null ELSE q[1]
      /\ Range(q) \subseteq Nodes
  BY <1>4, Walked
<1>6. n \notin Range(q) /\ \A i \in 1 .. Len(q) : q[i] # n /\ level[q[i]] = key /\ Linked(q[i])
  BY <1>2, <1>4, <1>5 DEF Linked
<1>7. IsWalk(next', level_map'[key].head, r)
  <2>1. next'[n] = Null
    BY <1>1 DEF Joined
  <2>2. \A i \in 1 .. Len(q) : next'[q[i]] = IF i = Len(q) THEN n ELSE next[q[i]]
    <3> SUFFICES ASSUME NEW i \in 1 .. Len(q)
                 PROVE  next'[q[i]] = IF i = Len(q) THEN n ELSE next[q[i]]
      OBVIOUS
    <3>1. Len(q) # 0 /\ Len(q) \in 1 .. Len(q)
      BY <1>5
    <3>2. CASE i = Len(q)
      BY <1>1, <1>4, <1>5, <3>1, <3>2, NullIsNoNode DEF Joined
    <3>3. CASE i # Len(q)
      <4>1. q[i] # q[Len(q)]
        BY <1>5, <3>1, <3>3
      <4> QED  BY <1>1, <1>4, <1>5, <1>6, <3>1, <3>3, <4>1 DEF Joined
    <3> QED  BY <3>2, <3>3
  <2>3. level_map'[key].head = IF Len(q) = 0 THEN n ELSE h
    BY <1>1, <1>4 DEF Joined
  <2> HIDE DEF h
  <2> QED  BY <1>2, <1>4, <1>6, <2>1, <2>2, <2>3, WalkGrows
<1>8. \A m \in Nodes : level'[m] = key <=> m \in Range(r)
  <2>1. Range(r) = Range(q) \cup {n}
    BY <1>2, <1>5, RangeWith
  <2> QED  BY <1>2, <1>4, <2>1
<1>9. /\ level_map'[key].total_quantity = LevelBefore(o).total_quantity + o.quantity
      /\ level_map'[key].order_count = LevelBefore(o).order_count + 1
  <2> DEFINE entry == [head |-> IF LevelBefore(o).head = Null THEN n ELSE LevelBefore(o).head,
                       tail |-> n,
                       total_quantity |-> LevelBefore(o).total_quantity + o.quantity,
                       order_count |-> LevelBefore(o).order_count + 1]
  <2>1. level_map' = Put(level_map, key, entry)
    BY DEF Rest
  <2>2. level_map'[key] = entry
    <3> HIDE DEF entry
    <3> QED  BY <2>1 DEF Put
  <2> QED  BY <2>2
<1>10. Total(Quantities(order', r)) = Total(Quantities(order, q)) + o.quantity
  <2>1. /\ Quantities(order, q) \in Seq(Int) /\ Len(Quantities(order, q)) = Len(q)
        /\ \A i \in 1 .. Len(q) : Quantities(order, q)[i] = order[q[i]].quantity
    BY <1>4, <1>5, NumbersOf
  <2>2. DOMAIN r = 1 .. Len(q) + 1 /\ r[Len(q) + 1] = n /\ \A i \in 1 .. Len(q) : r[i] = q[i]
    BY <1>5
  <2> DEFINE a == Quantities(order', r)
             b == Append(Quantities(order, q), o.quantity)
  <2>3. a = [i \in 1 .. Len(q) + 1 |-> order'[r[i]].quantity]
    BY <2>2 DEF Quantities
  <2>4. b = [i \in 1 .. Len(q) + 1 |-> b[i]]
    BY <1>2, <2>1
  <2>5. \A i \in 1 .. Len(q) + 1 : order'[r[i]].quantity = b[i]
    <3> SUFFICES ASSUME NEW i \in 1 .. Len(q) + 1 PROVE order'[r[i]].quantity = b[i]
      OBVIOUS
    <3>1. CASE i = Len(q) + 1
      BY <1>2, <2>1, <2>2, <3>1
    <3>2. CASE i # Len(q) + 1
      <4>1. i \in 1 .. Len(q)
        BY <1>5, <3>2
      <4>2. b[i] = order[q[i]].quantity
        BY <1>2, <2>1, <4>1
      <4>3. r[i] = q[i] /\ q[i] \in Nodes /\ q[i] # n
        BY <1>5, <1>6, <2>2, <4>1
      <4> QED  BY <1>2, <4>2, <4>3
    <3> QED  BY <3>1, <3>2
  <2>6. a = b
    <3> HIDE DEF a, b, r
    <3> QED  BY <2>3, <2>4, <2>5, Zenon
  <2> QED  BY <1>2, <2>1, <2>6, TotalAppend
<1>11. Len(r) = Len(q) + 1
  BY <1>5
<1> HIDE DEF r, h, t
<1>12. LevelWalk(key, r)'
  BY <1>4, <1>7, <1>8, <1>9, <1>10, <1>11 DEF LevelWalk
<1> QED  BY <1>2, <1>5, <1>6, <1>12 DEF r

\* Rest takes the first node of the free list.
LEMMA RestWalksFree ==
  ASSUME LinksInv, WalksInv, NEW o \in NewOrders, Rest(o), NEW f, f = FreeNodes
  PROVE  FreeWalk(RemoveAt(f, 1))' /\ f \in Seq(Nodes) /\ Len(f) # 0
<1> DEFINE n == free_head
           key == LevelOf(o)
           t == LevelBefore(o).tail
<1>1. Joined(o, n, key, t)
  BY RestJoins
<1>2. FreeWalk(f)
  BY DEF WalksInv, FreeNodes
<1>3. /\ f \in Seq(Nodes) /\ Len(f) \in Nat
      /\ free_head = IF Len(f) = 0 THEN Null ELSE f[1]
      /\ \A i \in 1 .. Len(f) : f[i] \in Nodes /\ ~Linked(f[i]) /\ f[i] \in Range(f)
      /\ \A i, j \in 1 .. Len(f) : f[i] = f[j] => i = j
      /\ Range(f) \subseteq Nodes
  BY <1>2, FreeFacts
<1>4. n \in Nodes /\ n # Null /\ key # NoLevel /\ level \in [Nodes -> Keys \cup {NoLevel}]
  BY <1>1, NullIsNoNode, KeyIsLevel DEF Joined, LinksInv, TypeOK
<1>5. Len(f) # 0 /\ 1 \in 1 .. Len(f) /\ f[1] = n
  BY <1>3, <1>4
<1>6. IsWalk(next', free_head', RemoveAt(f, 1))
  <2>1. \A k \in Range(f) : k # n => next'[k] = next[k]
    <3> SUFFICES ASSUME NEW k \in Range(f), k # n PROVE next'[k] = next[k]
      OBVIOUS
    <3>1. k \in Nodes /\ ~Linked(k)
      BY <1>2, <1>3 DEF FreeWalk
    <3>2. k # t
      BY <1>1, <1>4, <3>1, NullIsNoNode DEF Joined, Linked
    <3> QED  BY <1>1, <3>1, <3>2 DEF Joined
  <2>2. free_head' = next[n]
    BY <1>1 DEF Joined
  <2>3. IsWalk(next, n, f)
    BY <1>2 DEF FreeWalk
  <2> HIDE DEF n
  <2> QED  BY <1>5, <2>1, <2>2, <2>3, WalkFromSecond
<1>7. \A m \in Nodes : ~Linked(m)' <=> m \in Range(RemoveAt(f, 1))
  <2>1. Range(RemoveAt(f, 1)) = Range(f) \ {n}
    BY <1>3, <1>5, RangeWithout
  <2>2. \A m \in Nodes : ~Linked(m) <=> m \in Range(f)
    BY <1>2 DEF FreeWalk
  <2>3. level'[n] = key /\ \A m \in Nodes : m # n => level'[m] = level[m]
    BY <1>1, <1>4 DEF Joined
  <2> QED  BY <1>4, <2>1, <2>2, <2>3 DEF Linked
<1>8. FreeWalk(RemoveAt(f, 1))'
  BY <1>6, <1>7 DEF FreeWalk
<1> QED  BY <1>3, <1>5, <1>8

\* What the walks are after an order has come to rest.
LEMMA RestWalks ==
  ASSUME LinksInv, WalksInv, NEW o \in NewOrders, Rest(o),
         NEW n, n = free_head, NEW key, key = LevelOf(o),
         NEW q, q = NodesOf(key), NEW f, f = FreeNodes
  PROVE  /\ WalksInv'
         /\ NodesOf(key)' = Append(q, n)
         /\ \A k \in DOMAIN level_map : k # key => Chain(level_map[k].head)' = Chain(level_map[k].head)
         /\ FreeNodes' = RemoveAt(f, 1)
<1> DEFINE t == LevelBefore(o).tail
<1>1. Joined(o, n, key, t)
  BY RestJoins
<1>2. /\ n \in Nodes /\ ~Linked(n) /\ n # Null /\ key # NoLevel
      /\ level'[n] = key /\ order'[n] = o
      /\ \A m \in Nodes : m # n => level'[m] = level[m] /\ order'[m] = order[m]
      /\ DOMAIN level_map' = DOMAIN level_map \cup {key}
  BY <1>1, NullIsNoNode, KeyIsLevel DEF Joined, LinksInv, TypeOK
<1>3. LevelWalk(key, Append(q, n))'
  BY RestWalksLevel
<1>4. NodesOf(key)' = Append(q, n) /\ LevelWalk(key, Chain(level_map[key].head))'
  BY <1>2, <1>3, LevelReadNext
<1>5. FreeWalk(RemoveAt(f, 1))'
  BY RestWalksFree
<1>6. FreeNodes' = RemoveAt(f, 1) /\ FreeWalk(Chain(free_head))'
  BY <1>5, FreeReadNext
<1>7. ASSUME NEW k \in DOMAIN level_map, k # key
      PROVE  /\ LevelWalk(k, Chain(level_map[k].head))'
             /\ Chain(level_map[k].head)' = Chain(level_map[k].head)
  <2>1. PICK r : r = Chain(level_map[k].head)
    OBVIOUS
  <2>2. LevelWalk(k, r)
    BY <2>1 DEF WalksInv
  <2>3. k \in Keys /\ k # NoLevel
    BY KeyIsLevel DEF LinksInv, TypeOK
  <2>4. level_map'[k] = level_map[k]
    BY <1>1, <1>7 DEF Joined
  <2>5. \A m \in Nodes : level'[m] = k <=> level[m] = k
    BY <1>2, <1>7, <2>3 DEF Linked
  <2>6. \A m \in Nodes : level[m] = k => next'[m] = next[m] /\ order'[m] = order[m]
    <3> SUFFICES ASSUME NEW m \in Nodes, level[m] = k
                 PROVE  next'[m] = next[m] /\ order'[m] = order[m]
      OBVIOUS
    <3>1. m # n /\ m # t
      BY <1>1, <1>2, <1>7, <2>3, NullIsNoNode DEF Joined, Linked
    <3> QED  BY <1>1, <1>2, <3>1 DEF Joined
  <2>7. LevelWalk(k, r)'
    BY <2>2, <2>4, <2>5, <2>6, LevelStays
  <2>8. NodesOf(k)' = r /\ LevelWalk(k, Chain(level_map[k].head))'
    BY <1>2, <2>7, LevelReadNext
  <2> QED  BY <1>2, <2>1, <2>8 DEF NodesOf
<1>8. ASSUME NEW m \in Nodes, Linked(m)' PROVE order'[m].quantity > 0
  <2>1. CASE m = n
    BY <1>2, <2>1, NewOrderType
  <2>2. CASE m # n
    BY <1>2, <1>8, <2>2 DEF WalksInv, Linked
  <2> QED  BY <2>1, <2>2
<1>9. WalksInv'
  <2>1. \A k \in DOMAIN level_map' : LevelWalk(k, Chain(level_map[k].head))'
    BY <1>2, <1>4, <1>7
  <2> QED  BY <1>6, <1>8, <2>1 DEF WalksInv
<1> QED  BY <1>4, <1>6, <1>7, <1>9

\* A node that leaves is taken out of its level's walk, wherever it is.
LEMMA RemoveWalksLevel ==
  ASSUME LinksInv, WalksInv, NEW n \in Nodes, Linked(n), NEW by \in Int, RemoveAfter(n, by),
         order' \in [Nodes -> OrderType \cup {None}],
         \A m \in Nodes : m # n => order'[m] = order[m],
         NEW key, key = level[n], NEW q, q = NodesOf(key)
  PROVE  /\ key \in DOMAIN level_map /\ LevelWalk(key, q)
         /\ key \in DOMAIN level_map' <=> Len(q) # 1
         /\ \E i \in 1 .. Len(q) :
              q[i] = n /\ (key \in DOMAIN level_map' => LevelWalk(key, RemoveAt(q, i))')
<1> DEFINE p == prev[n]
           k == next[n]
           old == level_map[key]
<1>1. Left(n, key, p, k, order[n].id)
  BY RemoveLeaves
<1>2. /\ NodeAgrees(n) /\ order[n] \in OrderType /\ key \in DOMAIN level_map
      /\ old \in LevelType /\ key # NoLevel /\ n # Null
      /\ level \in [Nodes -> Keys \cup {NoLevel}]
  BY LinkedOrder, NullIsNoNode DEF LinksInv, TypeOK, Linked
<1>3. LevelWalk(key, q)
  BY <1>2 DEF WalksInv, NodesOf
<1>4. /\ q \in Seq(Nodes) /\ Len(q) \in Nat /\ Len(q) # 0 /\ DOMAIN q = 1 .. Len(q)
      /\ old.head = q[1] /\ old.tail = q[Len(q)]
      /\ \A i \in 1 .. Len(q) :
           /\ q[i] \in Nodes /\ q[i] # Null /\ q[i] \in Range(q)
           /\ level[q[i]] = key
           /\ order[q[i]].quantity \in Int
           /\ next[q[i]] = IF i = Len(q) THEN Null ELSE q[i + 1]
           /\ prev[q[i]] = IF i = 1 THEN Null ELSE q[i - 1]
      /\ \A i, j \in 1 .. Len(q) : q[i] = q[j] => i = j
      /\ Range(q) \subseteq Nodes
  BY <1>2, <1>3, LevelFacts
<1>a. q \in Seq(Nodes) /\ Len(q) \in Nat /\ Len(q) # 0
  BY <1>4
<1>b. \A i, j \in 1 .. Len(q) : q[i] = q[j] => i = j
  BY <1>4
<1>c. \A i \in 1 .. Len(q) : order[q[i]].quantity \in Int
  BY <1>4
<1>5. PICK i \in 1 .. Len(q) : q[i] = n
  <2>1. n \in Range(q)
    BY <1>3 DEF LevelWalk
  <2> QED  BY <1>4, <2>1 DEF Range
<1>6. /\ p = IF i = 1 THEN Null ELSE q[i - 1]
      /\ k = IF i = Len(q) THEN Null ELSE q[i + 1]
  BY <1>4, <1>5
<1>7. key \in DOMAIN level_map' <=> Len(q) # 1
  <2>1. ASSUME key \notin DOMAIN level_map' PROVE Len(q) = 1
    <3>1. 1 \in 1 .. Len(q) /\ Len(q) \in 1 .. Len(q)
      BY <1>4
    <3>2. q[1] = n /\ q[Len(q)] = n
      BY <1>1, <1>4, <2>1, <3>1 DEF Left
    <3> DEFINE last == Len(q)
    <3>3. 1 \in 1 .. Len(q) /\ last \in 1 .. Len(q) /\ q[1] = q[last]
      BY <3>1, <3>2
    <3> HIDE DEF last
    <3>4. 1 = last
      BY <1>b, <3>3
    <3> QED  BY <3>4 DEF last
  <2>2. ASSUME Len(q) = 1 PROVE key \notin DOMAIN level_map'
    <3>1. i = 1 /\ old.head = n /\ k = Null
      BY <1>4, <1>5, <1>6, <2>2
    <3> QED  BY <1>1, <3>1 DEF Left
  <2> QED  BY <2>1, <2>2
<1>8. ASSUME key \in DOMAIN level_map'
      PROVE  LevelWalk(key, RemoveAt(q, i))'
  <2> DEFINE r == RemoveAt(q, i)
  <2>1. IsWalk(next', level_map'[key].head, r)
    <3>1. IsWalk(next, old.head, q)
      BY <1>3 DEF LevelWalk
    <3>2. \A j \in 1 .. Len(q) :
            j # i => next'[q[j]] = IF j = i - 1 THEN next[q[i]] ELSE next[q[j]]
      <4> SUFFICES ASSUME NEW j \in 1 .. Len(q), j # i
                   PROVE  next'[q[j]] = IF j = i - 1 THEN next[q[i]] ELSE next[q[j]]
        OBVIOUS
      <4>1. q[j] # n /\ q[j] \in Nodes /\ q[j] # Null
        BY <1>4, <1>5
      <4>2. CASE j = i - 1
        <5>1. p = q[j]
          BY <1>4, <1>6, <4>2
        <5> QED  BY <1>1, <1>5, <4>1, <4>2, <5>1 DEF Left
      <4>3. CASE j # i - 1
        <5>1. q[j] # p
          <6>1. CASE i = 1
            BY <1>6, <4>1, <6>1
          <6>2. CASE i # 1
            <7>1. i - 1 \in 1 .. Len(q) /\ p = q[i - 1]
              BY <1>4, <1>6, <6>2
            <7> QED  BY <1>4, <4>3, <7>1
          <6> QED  BY <6>1, <6>2
        <5> QED  BY <1>1, <4>1, <4>3, <5>1 DEF Left
      <4> QED  BY <4>2, <4>3
    <3>3. level_map'[key].head = IF i = 1 THEN next[q[i]] ELSE old.head
      <4>1. old.head = n <=> i = 1
        <5>1. 1 \in 1 .. Len(q) /\ old.head = q[1]
          BY <1>4
        <5>2. q[1] = q[i] <=> i = 1
          BY <1>b, <5>1
        <5> QED  BY <1>5, <5>1, <5>2
      <4> QED  BY <1>1, <1>5, <1>8, <4>1 DEF Left
    <3>4. PICK h, g : h = old.head /\ g = level_map'[key].head
      OBVIOUS
    <3>5. IsWalk(next, h, q) /\ g = IF i = 1 THEN next[q[i]] ELSE h
      BY <3>1, <3>3, <3>4
    <3>6. IsWalk(next', g, RemoveAt(q, i))
      BY <3>2, <3>5, WalkShrinks
    <3> QED  BY <3>4, <3>6
  <2>2. /\ r \in Seq(Nodes) /\ Len(r) = Len(q) - 1 /\ DOMAIN r = 1 .. Len(q) - 1
        /\ \A j \in 1 .. Len(q) - 1 : r[j] = IF j < i THEN q[j] ELSE q[j + 1]
    <3>1. /\ r \in Seq(Nodes) /\ Len(r) = Len(q) - 1
          /\ \A j \in 1 .. Len(q) - 1 : r[j] = IF j < i THEN q[j] ELSE q[j + 1]
      BY <1>a, Removed
    <3> HIDE DEF r
    <3>2. DOMAIN r = 1 .. Len(r)
      BY <3>1
    <3> QED  BY <3>1, <3>2
  <2>3. Range(r) = Range(q) \ {n}
    BY <1>a, <1>b, <1>5, RangeWithout
  <2>4. \A m \in Nodes : level'[m] = key <=> m \in Range(r)
    <3>1. level'[n] = NoLevel /\ \A m \in Nodes : m # n => level'[m] = level[m]
      BY <1>1, <1>2 DEF Left
    <3>2. \A m \in Nodes : level[m] = key <=> m \in Range(q)
      BY <1>3 DEF LevelWalk
    <3> QED  BY <1>2, <2>3, <3>1, <3>2
  <2>5. /\ Quantities(order, q) \in Seq(Int) /\ Len(Quantities(order, q)) = Len(q)
        /\ \A j \in 1 .. Len(q) : Quantities(order, q)[j] = order[q[j]].quantity
    BY <1>a, <1>c, NumbersOf
  <2>6. Total(Quantities(order', r)) = Total(Quantities(order, q)) - order[n].quantity
    <3> DEFINE a == Quantities(order, q)
               b == Quantities(order', r)
    <3>1. b = [j \in 1 .. Len(q) - 1 |-> order'[r[j]].quantity]
      BY <2>2 DEF Quantities
    <3>2. Len(b) = Len(q) - 1
      <4>1. Len(q) - 1 \in Nat
        BY <1>4
      <4> QED  BY <3>1, <4>1
    <3>3. \A j \in 1 .. Len(q) - 1 : b[j] = IF j < i THEN a[j] ELSE a[j + 1]
      <4> SUFFICES ASSUME NEW j \in 1 .. Len(q) - 1
                   PROVE  b[j] = IF j < i THEN a[j] ELSE a[j + 1]
        OBVIOUS
      <4>1. j \in 1 .. Len(q) /\ j + 1 \in 1 .. Len(q)
        BY <1>4
      <4>2. b[j] = order'[r[j]].quantity
        BY <3>1
      <4>3. CASE j < i
        <5>1. r[j] = q[j] /\ q[j] # n /\ q[j] \in Nodes
          BY <1>4, <1>5, <2>2, <4>1, <4>3
        <5> QED  BY <2>5, <4>1, <4>2, <4>3, <5>1
      <4>4. CASE ~(j < i)
        <5>1. r[j] = q[j + 1] /\ j + 1 # i /\ j + 1 \in 1 .. Len(q)
          BY <1>a, <2>2, <4>4
        <5>2. q[j + 1] # n /\ q[j + 1] \in Nodes
          BY <1>4, <1>5, <5>1
        <5> QED  BY <2>5, <4>1, <4>2, <4>4, <5>1, <5>2
      <4> QED  BY <4>3, <4>4
    <3>4. a[i] = order[n].quantity /\ Len(a) = Len(q) /\ a \in Seq(Int)
      BY <1>5, <2>5
    <3> HIDE DEF a, b, r
    <3>5. Total(b) = Total(a) - a[i]
      BY <3>2, <3>3, <3>4, TotalWithout
    <3> QED  BY <3>4, <3>5 DEF a, b
  <2>7. /\ level_map'[key].total_quantity = old.total_quantity - order[n].quantity
        /\ level_map'[key].order_count = old.order_count - 1
    <3>1. Without(n, by).head # Null
      <4> SUFFICES ASSUME Without(n, by).head = Null PROVE FALSE
        OBVIOUS
      <4>1. level_map' = Erase(level_map, key)
        BY DEF RemoveAfter
      <4> QED  BY <1>8, <4>1 DEF Erase
    <3>2. level_map' = Put(level_map, key, Without(n, by))
      BY <3>1 DEF RemoveAfter
    <3>3. level_map'[key] = Without(n, by)
      BY <1>2, <3>2 DEF Put
    <3>4. Reduced(n, by)[key] = [old EXCEPT !.total_quantity = @ - by]
      BY <1>2 DEF Reduced
    <3>5. /\ Reduced(n, by)[key].total_quantity = old.total_quantity - by
          /\ Reduced(n, by)[key].order_count = old.order_count
      BY <1>2, <3>4 DEF LevelType
    <3>6. /\ Without(n, by).total_quantity = (old.total_quantity - by) - (order[n].quantity - by)
          /\ Without(n, by).order_count = old.order_count - 1
      BY <3>5 DEF Without
    <3>7. old.total_quantity \in Int /\ order[n].quantity \in Int
      BY <1>2 DEF LevelType, OrderType
    <3>8. (old.total_quantity - by) - (order[n].quantity - by) = old.total_quantity - order[n].quantity
      BY <3>7
    <3> QED  BY <3>3, <3>6, <3>8
  <2>8. old.total_quantity = Total(Quantities(order, q)) /\ old.order_count = Len(q)
    BY <1>3 DEF LevelWalk
  <2> HIDE DEF r
  <2>9. LevelWalk(key, r)'
    BY <2>1, <2>2, <2>4, <2>6, <2>7, <2>8 DEF LevelWalk
  <2> QED  BY <2>9 DEF r
<1> QED  BY <1>2, <1>3, <1>5, <1>7, <1>8

\* A node that leaves goes to the front of the free list.
LEMMA RemoveWalksFree ==
  ASSUME LinksInv, WalksInv, NEW n \in Nodes, Linked(n), NEW by \in Int, RemoveAfter(n, by),
         order' \in [Nodes -> OrderType \cup {None}],
         \A m \in Nodes : m # n => order'[m] = order[m],
         NEW f, f = FreeNodes
  PROVE  FreeWalk(<<n>> \o f)' /\ f \in Seq(Nodes)
<1> DEFINE p == prev[n]
           k == next[n]
<1>1. Left(n, level[n], p, k, order[n].id)
  BY RemoveLeaves
<1>2. FreeWalk(f)
  BY DEF WalksInv, FreeNodes
<1>3. f \in Seq(Nodes) /\ Len(f) \in Nat /\ Range(f) \subseteq Nodes
  BY <1>2, FreeFacts
<1>4. \A m \in Nodes : ~Linked(m) <=> m \in Range(f)
  BY <1>2 DEF FreeWalk
<1>5. NodeAgrees(n) /\ p \in Nodes \cup {Null} /\ level \in [Nodes -> Keys \cup {NoLevel}]
  BY LinkedOrder DEF LinksInv, TypeOK
<1>6. \A m \in Range(f) : next'[m] = next[m]
  <2> SUFFICES ASSUME NEW m \in Range(f) PROVE next'[m] = next[m]
    OBVIOUS
  <2>1. m \in Nodes /\ ~Linked(m) /\ m # n
    BY <1>3, <1>4
  <2>2. m # p
    BY <1>5, <2>1, NullIsNoNode DEF NodeAgrees, Linked
  <2> QED  BY <1>1, <2>1, <2>2 DEF Left
<1>7. IsWalk(next', n, <<n>> \o f)
  <2>1. IsWalk(next, free_head, f) /\ n \notin Range(f) /\ next'[n] = free_head
    BY <1>1, <1>2, <1>4 DEF FreeWalk, Left
  <2> QED  BY <1>6, <2>1, WalkInFront
<1>8. Range(<<n>> \o f) = Range(f) \cup {n}
  BY <1>3, RangeWith
<1>9. level'[n] = NoLevel /\ \A m \in Nodes : m # n => level'[m] = level[m]
  BY <1>1, <1>5 DEF Left
<1>10. free_head' = n
  BY <1>1 DEF Left
<1>11. FreeWalk(<<n>> \o f)'
  BY <1>4, <1>7, <1>8, <1>9, <1>10 DEF FreeWalk, Linked
<1> QED  BY <1>3, <1>11

\* The queue q of this level loses node n where it stands, an emptied level goes,
\* and the other levels stay.
LosesNode(key, q, n) ==
  /\ \E i \in 1 .. Len(q) : q[i] = n /\ NodesOf(key)' = RemoveAt(q, i)
  /\ \A k \in DOMAIN level_map : k # key => Chain(level_map[k].head)' = Chain(level_map[k].head)
  /\ \A k : k \in DOMAIN level_map' <=> k \in DOMAIN level_map /\ (k # key \/ Len(q) # 1)

\* What the walks are after a node has left.
LEMMA RemoveWalks ==
  ASSUME LinksInv, WalksInv, NEW n \in Nodes, Linked(n), NEW by \in Int, RemoveAfter(n, by),
         order' \in [Nodes -> OrderType \cup {None}],
         \A m \in Nodes : m # n => order'[m] = order[m],
         NEW key, key = level[n], NEW q, q = NodesOf(key), NEW f, f = FreeNodes
  PROVE  WalksInv' /\ FreeNodes' = <<n>> \o f /\ LosesNode(key, q, n)
<1> DEFINE p == prev[n]
           s == next[n]
<1>1. Left(n, key, p, s, order[n].id)
  BY RemoveLeaves
<1>2. /\ key \in DOMAIN level_map /\ LevelWalk(key, q)
      /\ key \in DOMAIN level_map' <=> Len(q) # 1
      /\ \E i \in 1 .. Len(q) :
           q[i] = n /\ (key \in DOMAIN level_map' => LevelWalk(key, RemoveAt(q, i))')
  BY RemoveWalksLevel
<1>3. PICK i \in 1 .. Len(q) :
        q[i] = n /\ (key \in DOMAIN level_map' => LevelWalk(key, RemoveAt(q, i))')
  BY <1>2
<1>4. /\ \A k : k \in DOMAIN level_map' <=> k \in DOMAIN level_map /\ (k # key \/ Len(q) # 1)
      /\ DOMAIN level_map' \subseteq DOMAIN level_map
  BY <1>1, <1>2 DEF Left
<1>5. /\ key # NoLevel
      /\ level' = [level EXCEPT ![n] = NoLevel] /\ level \in [Nodes -> Keys \cup {NoLevel}]
      /\ NodeAgrees(n) /\ p \in Nodes \cup {Null}
  BY <1>1, LinkedOrder DEF Linked, Left, LinksInv, TypeOK
<1>6. FreeNodes' = <<n>> \o f /\ FreeWalk(Chain(free_head))'
  <2>1. FreeWalk(<<n>> \o f)'
    BY RemoveWalksFree
  <2> QED  BY <2>1, FreeReadNext
<1>7. /\ NodesOf(key)' = RemoveAt(q, i)
      /\ key \in DOMAIN level_map' => LevelWalk(key, Chain(level_map[key].head))'
  <2>1. CASE key \in DOMAIN level_map'
    <3>1. LevelWalk(key, RemoveAt(q, i))'
      BY <1>3, <2>1
    <3> QED  BY <2>1, <3>1, LevelReadNext
  <2>2. CASE key \notin DOMAIN level_map'
    <3>1. q \in Seq(Nodes) /\ Len(q) = 1
      BY <1>2, <2>2, LevelFacts
    <3>2. RemoveAt(q, i) \in Seq(Nodes) /\ Len(RemoveAt(q, i)) = Len(q) - 1
      BY <3>1, Removed
    <3>3. RemoveAt(q, i) = <<>>
      BY <3>1, <3>2
    <3> QED  BY <2>2, <3>3 DEF NodesOf
  <2> QED  BY <2>1, <2>2
<1>8. ASSUME NEW k \in DOMAIN level_map, k # key
      PROVE  /\ LevelWalk(k, Chain(level_map[k].head))'
             /\ Chain(level_map[k].head)' = Chain(level_map[k].head)
  <2>1. PICK r : r = Chain(level_map[k].head)
    OBVIOUS
  <2>2. LevelWalk(k, r)
    BY <2>1 DEF WalksInv
  <2>3. k \in Keys /\ k # NoLevel /\ k \in DOMAIN level_map'
    BY <1>4, <1>8, KeyIsLevel DEF LinksInv, TypeOK
  <2>4. level_map'[k] = level_map[k]
    BY <1>1, <1>8 DEF Left
  <2>5. \A m \in Nodes : level'[m] = k <=> level[m] = k
    BY <1>5, <1>8, <2>3
  <2>6. \A m \in Nodes : level[m] = k => next'[m] = next[m] /\ order'[m] = order[m]
    <3> SUFFICES ASSUME NEW m \in Nodes, level[m] = k
                 PROVE  next'[m] = next[m] /\ order'[m] = order[m]
      OBVIOUS
    <3>1. m # n /\ m # p
      BY <1>5, <1>8, NullIsNoNode DEF NodeAgrees
    <3> QED  BY <1>1, <3>1 DEF Left
  <2>7. LevelWalk(k, r)'
    BY <2>2, <2>4, <2>5, <2>6, LevelStays
  <2>8. NodesOf(k)' = r /\ LevelWalk(k, Chain(level_map[k].head))'
    BY <2>3, <2>7, LevelReadNext
  <2> QED  BY <2>1, <2>3, <2>8 DEF NodesOf
<1>9. ASSUME NEW m \in Nodes, Linked(m)' PROVE order'[m].quantity > 0
  <2>1. m # n /\ Linked(m)
    BY <1>5, <1>9 DEF Linked
  <2> QED  BY <2>1 DEF WalksInv
<1>10. WalksInv'
  <2>1. \A k \in DOMAIN level_map' : LevelWalk(k, Chain(level_map[k].head))'
    <3> SUFFICES ASSUME NEW k \in DOMAIN level_map'
                 PROVE  LevelWalk(k, Chain(level_map[k].head))'
      OBVIOUS
    <3>1. CASE k = key
      BY <1>7, <3>1
    <3>2. CASE k # key
      BY <1>4, <1>8, <3>2
    <3> QED  BY <3>1, <3>2
  <2> QED  BY <1>6, <1>9, <2>1 DEF WalksInv
<1>11. LosesNode(key, q, n)
  BY <1>3, <1>4, <1>7, <1>8 DEF LosesNode
<1> QED  BY <1>6, <1>10, <1>11

\* An order that loses quantity keeps its place, and the total goes down with it.
LEMMA InPlaceWalks ==
  ASSUME LinksInv, WalksInv, NEW n \in Nodes, Linked(n), NEW by \in Int,
         level_map' = Reduced(n, by),
         \A m \in Nodes : m # n => order'[m] = order[m],
         order'[n].quantity = order[n].quantity - by, order'[n].quantity > 0,
         UNCHANGED <<next, prev, level, free_head, id_index>>
  PROVE  /\ WalksInv'
         /\ DOMAIN level_map' = DOMAIN level_map
         /\ \A k \in DOMAIN level_map : Chain(level_map[k].head)' = Chain(level_map[k].head)
         /\ FreeNodes' = FreeNodes
<1> DEFINE key == level[n]
<1>1. /\ key \in DOMAIN level_map /\ level_map[key] \in LevelType
      /\ order[n] \in OrderType
  BY LinkedOrder
<1>2. /\ DOMAIN level_map' = DOMAIN level_map
      /\ level_map'[key] = [level_map[key] EXCEPT !.total_quantity = @ - by]
      /\ \A k \in DOMAIN level_map : k # key => level_map'[k] = level_map[k]
  BY <1>1 DEF Reduced
<1>3. /\ level_map'[key].head = level_map[key].head
      /\ level_map'[key].order_count = level_map[key].order_count
      /\ level_map'[key].total_quantity = level_map[key].total_quantity - by
  BY <1>1, <1>2 DEF LevelType
<1>4. ASSUME NEW k \in DOMAIN level_map
      PROVE  Chain(level_map[k].head)' = Chain(level_map[k].head)
  <2>1. level_map'[k].head = level_map[k].head
    BY <1>2, <1>3
  <2>2. next' = next
    OBVIOUS
  <2>3. Walk(next', level_map'[k].head) = Walk(next, level_map[k].head)
    BY <2>1, <2>2
  <2> QED  BY <2>3 DEF Chain
<1>5. Chain(free_head)' = Chain(free_head)
  <2>1. next' = next /\ free_head' = free_head
    OBVIOUS
  <2>2. Walk(next', free_head') = Walk(next, free_head)
    BY <2>1
  <2> QED  BY <2>2 DEF Chain
<1>6. ASSUME NEW k \in DOMAIN level_map
      PROVE  LevelWalk(k, Chain(level_map[k].head))'
  <2>1. PICK q : q = Chain(level_map[k].head)
    OBVIOUS
  <2>2. LevelWalk(k, q)
    BY <2>1 DEF WalksInv
  <2>3. CASE k # key
    <3>1. \A m \in Nodes : level[m] = k => order'[m] = order[m]
      BY <2>3
    <3>2. LevelWalk(k, q)'
      BY <1>2, <2>2, <2>3, <3>1, LevelStays
    <3> QED  BY <1>4, <2>1, <3>2
  <2>4. CASE k = key
    <3>1. /\ q \in Seq(Nodes) /\ Len(q) \in Nat
          /\ \A i \in 1 .. Len(q) : q[i] \in Nodes
          /\ \A i \in 1 .. Len(q) : order[q[i]].quantity \in Int
          /\ \A i, j \in 1 .. Len(q) : q[i] = q[j] => i = j
      BY <2>2, LevelFacts
    <3>2. PICK i \in 1 .. Len(q) : q[i] = n
      <4>1. n \in Range(q)
        BY <2>2, <2>4 DEF LevelWalk
      <4> QED  BY <3>1, <4>1 DEF Range
    <3> DEFINE a == Quantities(order, q)
               b == Quantities(order', q)
    <3>3. /\ a \in Seq(Int) /\ Len(a) = Len(q)
          /\ \A j \in 1 .. Len(q) : a[j] = order[q[j]].quantity
      BY <3>1, NumbersOf
    <3>4. /\ Len(b) = Len(q)
          /\ \A j \in 1 .. Len(q) : b[j] = order'[q[j]].quantity
      <4>1. b = [j \in 1 .. Len(q) |-> order'[q[j]].quantity]
        BY <3>1 DEF Quantities
      <4> QED  BY <3>1, <4>1
    <3>5. \A j \in 1 .. Len(q) : b[j] = IF j = i THEN a[j] - by ELSE a[j]
      <4> SUFFICES ASSUME NEW j \in 1 .. Len(q)
                   PROVE  b[j] = IF j = i THEN a[j] - by ELSE a[j]
        OBVIOUS
      <4>1. CASE j = i
        BY <3>2, <3>3, <3>4, <4>1
      <4>2. CASE j # i
        <5>1. q[j] # n /\ q[j] \in Nodes
          BY <3>1, <3>2, <4>2
        <5>2. order'[q[j]] = order[q[j]]
          BY <5>1
        <5> QED  BY <3>3, <3>4, <4>2, <5>2
      <4> QED  BY <4>1, <4>2
    <3>6. Total(b) = Total(a) - by
      <4> HIDE DEF a, b
      <4> QED  BY <3>3, <3>4, <3>5, TotalLess
    <3>7. LevelWalk(k, q)'
      BY <1>3, <2>2, <2>4, <3>6 DEF LevelWalk
    <3> QED  BY <1>4, <2>1, <3>7
  <2> QED  BY <2>3, <2>4
<1>7. FreeWalk(Chain(free_head))'
  <2>1. FreeWalk(Chain(free_head))
    BY DEF WalksInv
  <2>2. PICK f : f = Chain(free_head)
    OBVIOUS
  <2>3. FreeWalk(f)'
    BY <2>1, <2>2 DEF FreeWalk, Linked
  <2> QED  BY <1>5, <2>2, <2>3
<1>8. ASSUME NEW m \in Nodes, Linked(m)' PROVE order'[m].quantity > 0
  BY <1>8 DEF WalksInv, Linked
<1>9. WalksInv'
  BY <1>2, <1>6, <1>7, <1>8 DEF WalksInv
<1> QED  BY <1>2, <1>4, <1>5, <1>9 DEF FreeNodes

-----------------------------------------------------------------------------
(* The steps of a book are four *)

\* Node n leaves its level with what its order had left but for this much.
Removes(n, by) ==
  /\ Linked(n)
  /\ RemoveAfter(n, by)
  /\ order' \in [Nodes -> OrderType \cup {None}]
  /\ \A m \in Nodes : m # n => order'[m] = order[m]

\* The order of node n loses this much, as filled or not, and keeps the rest.
Reduces(n, by) ==
  /\ Linked(n) /\ by > 0
  /\ level_map' = Reduced(n, by)
  /\ order' \in [Nodes -> OrderType \cup {None}]
  /\ order'[n] \in OrderType
  /\ order'[n].quantity = order[n].quantity - by /\ order'[n].quantity > 0
  /\ order'[n] = [order[n] EXCEPT !.quantity = order'[n].quantity, !.filled = order'[n].filled]
  /\ \A m \in Nodes : m # n => order'[m] = order[m]
  /\ UNCHANGED <<next, prev, level, free_head, id_index>>

\* A reduced or filled order is the same but for what it lost and what it filled.
LEMMA LessOrder ==
  ASSUME LinksInv, NEW n \in Nodes, Linked(n), NEW by \in 1 .. order[n].quantity,
         \/ order' = [order EXCEPT ![n].quantity = @ - by]
         \/ order' = [order EXCEPT ![n].quantity = @ - by, ![n].filled = @ + by]
  PROVE  /\ order'[n].quantity = order[n].quantity - by
         /\ order'[n] = [order[n] EXCEPT !.quantity = order'[n].quantity, !.filled = order'[n].filled]
<1>1. order \in [Nodes -> OrderType \cup {None}] /\ order[n] \in OrderType
  BY LinkedOrder DEF LinksInv, TypeOK, OrderType
<1> DEFINE less == [order[n] EXCEPT !.quantity = order[n].quantity - by]
           taken == [less EXCEPT !.filled = order[n].filled + by]
<1>2. /\ less.quantity = order[n].quantity - by
      /\ less = [order[n] EXCEPT !.quantity = less.quantity, !.filled = less.filled]
  BY <1>1 DEF OrderType
<1>3. /\ taken.quantity = order[n].quantity - by
      /\ taken = [order[n] EXCEPT !.quantity = taken.quantity, !.filled = taken.filled]
  BY <1>1 DEF OrderType
<1>4. order' = [order EXCEPT ![n] = less] \/ order' = [order EXCEPT ![n] = taken]
  BY <1>1 DEF OrderType
<1> HIDE DEF less, taken
<1>5. order'[n] = less \/ order'[n] = taken
  BY <1>1, <1>4
<1> QED  BY <1>2, <1>3, <1>5

\* Every operation rests an order, removes one or reduces one in place.
LEMMA StepKinds ==
  ASSUME LinksInv, [Next]_vars
  PROVE  \/ \E o \in NewOrders : Rest(o)
         \/ \E n \in Nodes, by \in Int : Removes(n, by)
         \/ \E n \in Nodes, by \in Int : Reduces(n, by)
         \/ UNCHANGED vars
<1>1. ASSUME NEW id \in Indexed, remove_resting(id)
      PROVE  \E n \in Nodes, by \in Int : Removes(n, by)
  <2>1. RemoveAfter(id_index[id], 0) /\ UNCHANGED order
    BY <1>1 DEF remove_resting
  <2>2. order' \in [Nodes -> OrderType \cup {None}]
    BY <2>1 DEF LinksInv, TypeOK, OrderType
  <2>3. id_index[id] \in Nodes /\ Linked(id_index[id])
    BY IndexedNode
  <2>4. Removes(id_index[id], 0)
    BY <2>1, <2>2, <2>3 DEF Removes
  <2> QED  BY <2>3, <2>4
<1>2. ASSUME NEW n \in Nodes, Linked(n), NEW by \in 1 .. order[n].quantity,
             \/ order' = [order EXCEPT ![n].quantity = @ - by]
             \/ order' = [order EXCEPT ![n].quantity = @ - by, ![n].filled = @ + by],
             \/ RemoveAfter(n, by)
             \/ /\ by # order[n].quantity
                /\ level_map' = Reduced(n, by)
                /\ UNCHANGED <<next, prev, level, free_head, id_index>>
      PROVE  Removes(n, by) \/ Reduces(n, by)
  <2>1. /\ order' \in [Nodes -> OrderType \cup {None}]
        /\ order'[n] \in OrderType
        /\ \A m \in Nodes : m # n => order'[m] = order[m]
    BY <1>2, ReducedOrder
  <2>2. /\ order'[n].quantity = order[n].quantity - by
        /\ order'[n] = [order[n] EXCEPT !.quantity = order'[n].quantity, !.filled = order'[n].filled]
    BY <1>2, LessOrder
  <2>3. CASE RemoveAfter(n, by)
    BY <1>2, <2>1, <2>3 DEF Removes
  <2>4. CASE /\ by # order[n].quantity
             /\ level_map' = Reduced(n, by)
             /\ UNCHANGED <<next, prev, level, free_head, id_index>>
    <3>1. order'[n].quantity > 0
      <4>1. order[n].quantity \in Nat
        BY <1>2, LinkedOrder DEF OrderType
      <4> QED  BY <2>2, <2>4, <4>1
    <3>2. by > 0
      BY <1>2, LinkedOrder DEF OrderType
    <3> QED  BY <1>2, <2>1, <2>2, <2>4, <3>1, <3>2 DEF Reduces
  <2> QED  BY <1>2, <2>3, <2>4
<1>3. ASSUME NEW id \in Indexed, NEW by \in 1 .. order[id_index[id]].quantity, Shrink(id, by)
      PROVE  \E n \in Nodes, b \in Int : Removes(n, b) \/ Reduces(n, b)
  <2>1. id_index[id] \in Nodes /\ Linked(id_index[id])
    BY IndexedNode
  <2>2. order[id_index[id]].quantity \in Nat
    BY <2>1, LinkedOrder DEF OrderType
  <2>3. /\ by # order[id_index[id]].quantity
        /\ order' = [order EXCEPT ![id_index[id]].quantity = @ - by]
        /\ level_map' = Reduced(id_index[id], by)
        /\ UNCHANGED <<next, prev, level, free_head, id_index>>
    BY <1>3, <2>2 DEF Shrink
  <2>4. Removes(id_index[id], by) \/ Reduces(id_index[id], by)
    BY <1>2, <2>1, <2>3
  <2> QED  BY <2>1, <2>2, <2>4
<1>4. ASSUME NEW key \in DOMAIN level_map, NEW by \in 1 .. order[level_map[key].head].quantity,
             Fill(key, by)
      PROVE  \E n \in Nodes, b \in Int : Removes(n, b) \/ Reduces(n, b)
  <2> DEFINE n == level_map[key].head
  <2>1. n \in Nodes /\ Linked(n)
    BY HeadNode
  <2>2. order[n].quantity \in Nat
    BY <2>1, LinkedOrder DEF OrderType
  <2>3. /\ order' = [order EXCEPT ![n].quantity = @ - by, ![n].filled = @ + by]
        /\ \/ RemoveAfter(n, by)
           \/ /\ by # order[n].quantity
              /\ level_map' = Reduced(n, by)
              /\ UNCHANGED <<next, prev, level, free_head, id_index>>
    BY <1>4 DEF Fill
  <2>4. Removes(n, by) \/ Reduces(n, by)
    BY <1>2, <2>1, <2>3
  <2> QED  BY <2>1, <2>2, <2>4
<1>5. CASE UNCHANGED vars
  BY <1>5
<1> QED  BY <1>1, <1>3, <1>4, <1>5 DEF Next

\* A new pool's free list has all nodes (NodePool's constructor).
LEMMA WalksInit ==
  ASSUME Init
  PROVE  WalksInv /\ Len(FreeNodes) = PoolCapacity
<1> DEFINE q == [i \in 1 .. PoolCapacity |-> i]
<1>1. PoolCapacity \in Nat
  BY BookLevelsAssumption
<1>2. q \in Seq(Nodes) /\ Len(q) = PoolCapacity /\ DOMAIN q = 1 .. PoolCapacity
      /\ \A i \in 1 .. PoolCapacity : q[i] = i
  BY <1>1 DEF Nodes
<1>3. q = <<>> <=> PoolCapacity = 0
  BY <1>1, <1>2
<1>4. \A i \in 1 .. PoolCapacity : next[i] = IF i = PoolCapacity THEN Null ELSE i + 1
  BY <1>1 DEF Init, Nodes
<1>5. free_head = IF PoolCapacity = 0 THEN Null ELSE 1
  BY <1>1 DEF Init
<1> HIDE DEF q
<1>6. IsWalk(next, free_head, q)
  <2>1. \A i \in 1 .. PoolCapacity : i # PoolCapacity => i + 1 \in 1 .. PoolCapacity
    BY <1>1
  <2>2. \A i \in 1 .. PoolCapacity : next[q[i]] = IF i = PoolCapacity THEN Null ELSE q[i + 1]
    BY <1>2, <1>4, <2>1
  <2>3. free_head = IF q = <<>> THEN Null ELSE q[1]
    BY <1>1, <1>2, <1>3, <1>5
  <2> QED  BY <1>2, <2>2, <2>3 DEF IsWalk
<1>7. \A n \in Nodes : n \in Range(q) /\ ~Linked(n)
  BY <1>2 DEF Range, Nodes, Init, Linked
<1>8. FreeWalk(q)
  BY <1>6, <1>7 DEF FreeWalk
<1>9. Chain(free_head) = q
  BY <1>6, WalkRead DEF Chain
<1>10. DOMAIN level_map = {}
  BY DEF Init
<1> QED  BY <1>2, <1>7, <1>8, <1>9, <1>10 DEF WalksInv, FreeNodes

\* Every operation keeps the walks.
LEMMA WalksStep ==
  ASSUME LinksInv, WalksInv, [Next]_vars
  PROVE  WalksInv'
<1>1. CASE \E o \in NewOrders : Rest(o)
  BY <1>1, RestWalks
<1>2. CASE \E n \in Nodes, by \in Int : Removes(n, by)
  BY <1>2, RemoveWalks DEF Removes
<1>3. CASE \E n \in Nodes, by \in Int : Reduces(n, by)
  BY <1>3, InPlaceWalks DEF Reduces
<1>4. CASE UNCHANGED vars
  <2>1. UNCHANGED <<order, next, prev, level, free_head, level_map, id_index>>
    BY <1>4 DEF vars
  <2>2. \A k \in DOMAIN level_map :
          Walk(next', level_map'[k].head) = Walk(next, level_map[k].head)
    BY <2>1
  <2>3. Walk(next', free_head') = Walk(next, free_head)
    BY <2>1
  <2>4. \A k \in DOMAIN level_map :
          LevelWalk(k, Walk(next, level_map[k].head)) => LevelWalk(k, Walk(next, level_map[k].head))'
    BY <2>1 DEF LevelWalk
  <2>5. FreeWalk(Walk(next, free_head)) => FreeWalk(Walk(next, free_head))'
    BY <2>1 DEF FreeWalk, Linked
  <2> QED  BY <2>1, <2>4, <2>5 DEF WalksInv, Chain, Linked
<1> QED  BY <1>1, <1>2, <1>3, <1>4, StepKinds

\* Every list that the code walks ends and has just its own nodes, and the totals
\* and counts of levels are of what the walks meet, after every operation.
THEOREM WalksInvariant == Spec => [](LinksInv /\ WalksInv)
<1>1. Init => LinksInv /\ WalksInv
  BY LinksInit, WalksInit
<1>2. LinksInv /\ WalksInv /\ [Next]_vars => (LinksInv /\ WalksInv)'
  BY LinksStep, WalksStep
<1> QED  BY <1>1, <1>2, PTL DEF Spec

\* A level whose walk ends and meets its nodes passes the audit, with its count.
LEMMA LevelAudited ==
  ASSUME LinksInv, WalksInv, NEW key \in DOMAIN level_map
  PROVE  LevelOK(key) /\ level_map[key].order_count = Cardinality(NodesUnder({key}))
<1> DEFINE q == Chain(level_map[key].head)
           n == Len(q)
<1>1. LevelWalk(key, q)
  BY DEF WalksInv
<1> HIDE DEF q
<1>2. /\ q \in Seq(Nodes) /\ n \in Nat /\ n # 0 /\ DOMAIN q = 1 .. n
      /\ level_map[key].head = q[1] /\ level_map[key].tail = q[n]
      /\ \A i \in 1 .. n :
           /\ q[i] \in Nodes /\ q[i] # Null /\ q[i] \in Range(q)
           /\ level[q[i]] = key /\ Linked(q[i])
           /\ next[q[i]] = IF i = n THEN Null ELSE q[i + 1]
           /\ prev[q[i]] = IF i = 1 THEN Null ELSE q[i - 1]
      /\ \A i, j \in 1 .. n : q[i] = q[j] => i = j
      /\ Range(q) \subseteq Nodes
  BY <1>1, LevelFacts
<1>3. \A i \in 1 .. n : NodeAgrees(q[i]) /\ order[q[i]].quantity > 0
  BY <1>2 DEF LinksInv, LinksAgree, WalksInv
<1>4. 1 \in 1 .. n /\ n \in 1 .. n
  <2>1. n \in Nat /\ n # 0
    BY <1>2
  <2> QED  BY <2>1
<1>5. \A i \in 1 .. n :
        /\ prev[q[i]] = IF i = 1 THEN Null ELSE q[i - 1]
        /\ LevelOf(order[q[i]]) = key
        /\ order[q[i]].quantity > 0
        /\ level[q[i]] = key
        /\ id_index[order[q[i]].id] = q[i]
  BY <1>2, <1>3 DEF NodeAgrees
<1>6. /\ level_map[key].total_quantity = Total([i \in DOMAIN q |-> order[q[i]].quantity])
      /\ level_map[key].order_count = Len(q)
  BY <1>1 DEF LevelWalk, Quantities
<1>7. LevelOK(key)
  BY <1>2, <1>4, <1>5, <1>6 DEF LevelOK, q
<1>8. Cardinality(NodesUnder({key})) = Len(q)
  <2>1. NodesUnder({key}) = Range(q)
    BY <1>1, <1>2 DEF NodesUnder, LevelWalk
  <2>2. q \in Bijection(1 .. n, Range(q))
    <3>1. q \in [1 .. n -> Range(q)] /\ \A x \in Range(q) : \E i \in 1 .. n : q[i] = x
      BY <1>2 DEF Range
    <3> QED  BY <1>2, <3>1 DEF Bijection, Injection, Surjection, IsInjective
  <2>3. ExistsBijection(1 .. n, Range(q))
    BY <2>2 DEF ExistsBijection
  <2>4. IsFiniteSet(1 .. n) /\ Cardinality(1 .. n) = n
    BY <1>2, Interval
  <2> QED  BY <2>1, <2>3, <2>4, FS_Bijection
<1> QED  BY <1>6, <1>7, <1>8

\* The code's own audit of its levels never fails: no level is empty, its links
\* lead both ways and from end to end, its orders are its own, its totals are
\* their sum and number, and as many orders are in levels as the index has
\* (Book::check_invariants).
THEOREM AuditNeverFails == Spec => []check_invariants
<1>1. LinksInv /\ WalksInv => check_invariants
  <2> SUFFICES ASSUME LinksInv, WalksInv PROVE check_invariants
    OBVIOUS
  <2>1. \A key \in DOMAIN level_map : LevelOK(key)
    BY LevelAudited
  <2>2. Counted
    BY LevelAudited DEF Counted
  <2>3. Cardinality(Indexed) =
          MapThenSumSet(LAMBDA key : level_map[key].order_count, DOMAIN level_map)
    BY <2>2, CountsAddUp, IndexCounts
  <2> QED  BY <2>1, <2>3 DEF check_invariants
<1> QED  BY <1>1, WalksInvariant, PTL

-----------------------------------------------------------------------------
(* The links implement the queues *)

IdsOf(orders, q) == [i \in DOMAIN q |-> orders[q[i]].id]

\* The ids in a queue, one by one.
LEMMA QueueFunction ==
  ASSUME NEW orders, NEW q \in Seq(Nodes), \A i \in 1 .. Len(q) : orders[q[i]].id \in Ids
  PROVE  /\ IdsOf(orders, q) \in Seq(Ids)
         /\ Len(IdsOf(orders, q)) = Len(q)
         /\ \A i \in 1 .. Len(q) : IdsOf(orders, q)[i] = orders[q[i]].id
         /\ IdsOf(orders, q) = [i \in 1 .. Len(q) |-> orders[q[i]].id]
<1> DEFINE r == IdsOf(orders, q)
<1>1. DOMAIN q = 1 .. Len(q) /\ Len(q) \in Nat
  OBVIOUS
<1>2. r = [i \in 1 .. Len(q) |-> orders[q[i]].id]
  BY <1>1 DEF IdsOf
<1>3. r \in [1 .. Len(q) -> Ids]
  BY <1>2
<1>4. r \in Seq(Ids) /\ Len(r) = Len(q)
  BY <1>1, <1>2, <1>3
<1> QED  BY <1>2, <1>4

\* A price of a side is a level of the side.
LEMMA PriceIsLevel ==
  ASSUME TypeOK, NEW side \in Sides, NEW p
  PROVE  p \in PricesOf(side) <=> <<side, p>> \in DOMAIN level_map
<1>1. \A key \in DOMAIN level_map : key = <<key[1], key[2]>>
  BY DEF TypeOK, Keys
<1> QED  BY <1>1 DEF PricesOf

\* What the book reads of its levels, as it stands.
LEMMA LevelsRead ==
  ASSUME TypeOK
  PROVE  LevelsOf = [side \in Sides |->
                       [p \in PricesOf(side) |-> IdsOf(order, NodesOf(<<side, p>>))]]
<1>1. ASSUME NEW side \in Sides, NEW p \in PricesOf(side)
      PROVE  [i \in DOMAIN Queue(<<side, p>>) |-> Queue(<<side, p>>)[i].id]
               = IdsOf(order, NodesOf(<<side, p>>))
  <2>1. <<side, p>> \in DOMAIN level_map
    BY PriceIsLevel
  <2> DEFINE q == Chain(level_map[<<side, p>>].head)
  <2>2. NodesOf(<<side, p>>) = q
    BY <2>1 DEF NodesOf
  <2>3. Queue(<<side, p>>) = [i \in DOMAIN q |-> order[q[i]]]
    BY DEF Queue
  <2> HIDE DEF q
  <2>4. [i \in DOMAIN Queue(<<side, p>>) |-> Queue(<<side, p>>)[i].id]
          = [i \in DOMAIN q |-> order[q[i]].id]
    BY <2>3
  <2> QED  BY <2>2, <2>4 DEF IdsOf
<1> QED  BY <1>1 DEF LevelsOf

\* What the book reads of its levels after a step.
LEMMA LevelsReadNext ==
  ASSUME TypeOK'
  PROVE  LevelsOf' = [side \in Sides |->
                        [p \in PricesOf(side)' |-> IdsOf(order', NodesOf(<<side, p>>)')]]
<1>1. (TypeOK => LevelsOf = [side \in Sides |->
                       [p \in PricesOf(side) |-> IdsOf(order, NodesOf(<<side, p>>))]])'
  BY LevelsRead, PTL
<1> QED  BY <1>1

\* The nodes of a level are in it, and their ids are different.
LEMMA NodesOfLevel ==
  ASSUME LinksInv, WalksInv, NEW key, NEW q, q = NodesOf(key)
  PROVE  /\ q \in Seq(Nodes) /\ Len(q) \in Nat
         /\ \A i \in 1 .. Len(q) :
              /\ q[i] \in Nodes /\ Linked(q[i]) /\ level[q[i]] = key
              /\ order[q[i]].id \in Ids /\ id_index[order[q[i]].id] = q[i]
         /\ \A i, j \in 1 .. Len(q) : q[i] = q[j] => i = j
<1>1. CASE key \in DOMAIN level_map
  <2>1. LevelWalk(key, q)
    BY <1>1 DEF WalksInv, NodesOf
  <2>2. /\ q \in Seq(Nodes) /\ Len(q) \in Nat
        /\ \A i \in 1 .. Len(q) : q[i] \in Nodes /\ Linked(q[i]) /\ level[q[i]] = key
        /\ \A i, j \in 1 .. Len(q) : q[i] = q[j] => i = j
    BY <1>1, <2>1, LevelFacts
  <2>3. \A n \in Nodes : Linked(n) => order[n].id \in Ids /\ id_index[order[n].id] = n
    BY LinkedOrder DEF NodeAgrees
  <2> QED  BY <2>2, <2>3
<1>2. CASE key \notin DOMAIN level_map
  <2>1. q = <<>>
    BY <1>2 DEF NodesOf
  <2> QED  BY <2>1
<1> QED  BY <1>1, <1>2

\* The ids in a level none of whose nodes changes its order's id.
LEMMA IdsStay ==
  ASSUME LinksInv, WalksInv, NEW key, NEW q, q = NodesOf(key),
         \A m \in Nodes : level[m] = key => order'[m].id = order[m].id
  PROVE  IdsOf(order', q) = IdsOf(order, q)
<1>1. /\ q \in Seq(Nodes)
      /\ \A i \in 1 .. Len(q) : q[i] \in Nodes /\ level[q[i]] = key
  BY NodesOfLevel
<1>2. \A i \in DOMAIN q : order'[q[i]].id = order[q[i]].id
  BY <1>1
<1> QED  BY <1>2 DEF IdsOf

\* Outside this level the queues and the ids in them are as before.
SameElsewhere(side, price) ==
  /\ \A s \in Sides : \A p :
       s # side \/ p # price =>
         /\ p \in PricesOf(s)' <=> p \in PricesOf(s)
         /\ p \in PricesOf(s) => NodesOf(<<s, p>>)' = NodesOf(<<s, p>>)
  /\ \A m \in Nodes : Linked(m) /\ level[m] # <<side, price>> => order'[m].id = order[m].id

\* Levels before and after differ in one side at one price.
LEMMA OneLevelChanges ==
  ASSUME LinksInv, WalksInv, TypeOK', NEW side \in Sides, NEW price,
         NEW one, SameElsewhere(side, price),
         one = [p \in PricesOf(side)' |->
                  IF p = price THEN IdsOf(order', NodesOf(<<side, p>>)') ELSE LevelsOf[side][p]]
  PROVE  LevelsOf' = [LevelsOf EXCEPT ![side] = one]
<1>1. LevelsOf = [s \in Sides |-> [p \in PricesOf(s) |-> IdsOf(order, NodesOf(<<s, p>>))]]
  BY LevelsRead DEF LinksInv
<1>2. LevelsOf' = [s \in Sides |-> [p \in PricesOf(s)' |-> IdsOf(order', NodesOf(<<s, p>>)')]]
  BY LevelsReadNext
<1>3. ASSUME NEW s \in Sides, NEW p \in PricesOf(s), s # side \/ p # price
      PROVE  IdsOf(order', NodesOf(<<s, p>>)') = IdsOf(order, NodesOf(<<s, p>>))
  <2> DEFINE q == NodesOf(<<s, p>>)
  <2>1. q' = q
    BY <1>3 DEF SameElsewhere
  <2>2. <<s, p>> \in Keys
    BY PriceIsLevel DEF LinksInv, TypeOK
  <2>3. <<s, p>> # NoLevel /\ <<s, p>> # <<side, price>>
    BY <1>3, <2>2, KeyIsLevel
  <2>4. \A m \in Nodes : level[m] = <<s, p>> => order'[m].id = order[m].id
    BY <2>3 DEF Linked, SameElsewhere
  <2>5. IdsOf(order', q) = IdsOf(order, q)
    BY <2>4, IdsStay
  <2> QED  BY <2>1, <2>5
<1>4. ASSUME NEW s \in Sides, s # side
      PROVE  [p \in PricesOf(s)' |-> IdsOf(order', NodesOf(<<s, p>>)')] = LevelsOf[s]
  <2>1. \A p : p \in PricesOf(s)' <=> p \in PricesOf(s)
    BY <1>4 DEF SameElsewhere
  <2>2. PricesOf(s)' = PricesOf(s)
    BY <2>1
  <2>3. \A p \in PricesOf(s) : IdsOf(order', NodesOf(<<s, p>>)') = IdsOf(order, NodesOf(<<s, p>>))
    BY <1>3, <1>4
  <2>4. LevelsOf[s] = [p \in PricesOf(s) |-> IdsOf(order, NodesOf(<<s, p>>))]
    BY <1>1
  <2> QED  BY <2>2, <2>3, <2>4
<1>5. [p \in PricesOf(side)' |-> IdsOf(order', NodesOf(<<side, p>>)')] = one
  <2>1. \A p \in PricesOf(side)' : p # price =>
          IdsOf(order', NodesOf(<<side, p>>)') = LevelsOf[side][p]
    <3> SUFFICES ASSUME NEW p \in PricesOf(side)', p # price
                 PROVE  IdsOf(order', NodesOf(<<side, p>>)') = LevelsOf[side][p]
      OBVIOUS
    <3>1. p \in PricesOf(side)
      BY DEF SameElsewhere
    <3>2. LevelsOf[side] = [r \in PricesOf(side) |-> IdsOf(order, NodesOf(<<side, r>>))]
      BY <1>1
    <3> QED  BY <1>3, <3>1, <3>2
  <2> QED  BY <2>1
<1>6. LevelsOf' = [s \in Sides |-> IF s = side THEN one ELSE LevelsOf[s]]
  <2>1. \A s \in Sides : [p \in PricesOf(s)' |-> IdsOf(order', NodesOf(<<s, p>>)')]
                          = IF s = side THEN one ELSE LevelsOf[s]
    BY <1>4, <1>5
  <2> QED  BY <1>2, <2>1
<1>7. DOMAIN LevelsOf = Sides /\ LevelsOf = [s \in Sides |-> LevelsOf[s]]
  <2> DEFINE l == LevelsOf
             F(s) == [p \in PricesOf(s) |-> IdsOf(order, NodesOf(<<s, p>>))]
  <2>1. l = [s \in Sides |-> F(s)]
    BY <1>1
  <2> HIDE DEF l, F
  <2>2. DOMAIN l = Sides /\ l = [s \in Sides |-> l[s]]
    BY <2>1
  <2> QED  BY <2>2 DEF l
<1> QED  BY <1>6, <1>7

\* What the book reads of one side.
LEMMA SideRead ==
  ASSUME TypeOK, NEW side \in Sides
  PROVE  /\ DOMAIN LevelsOf[side] = PricesOf(side)
         /\ \A p \in PricesOf(side) : LevelsOf[side][p] = IdsOf(order, NodesOf(<<side, p>>))
<1>1. LevelsOf[side] = [p \in PricesOf(side) |-> IdsOf(order, NodesOf(<<side, p>>))]
  BY LevelsRead
<1> QED  BY <1>1

\* The prices of a side after a step.
LEMMA PriceIsLevelNext ==
  ASSUME TypeOK', NEW side \in Sides, NEW p
  PROVE  p \in PricesOf(side)' <=> <<side, p>> \in DOMAIN level_map'
<1>1. \A key \in DOMAIN level_map' : key = <<key[1], key[2]>>
  BY DEF TypeOK, Keys
<1> QED  BY <1>1 DEF PricesOf

\* The order a node takes is a resting order that was not, and no other changes.
LEMMA RestedOrder ==
  ASSUME LinksInv, NEW o \in NewOrders, Rest(o)
  PROVE  /\ o.id \in Ids /\ o.side \in Sides /\ o.price \in Int /\ o # None
         /\ RestingOf[o.id] = None
         /\ RestingOf' = [RestingOf EXCEPT ![o.id] = o]
         /\ order'[free_head] = o
         /\ \A m \in Nodes : Linked(m) => order'[m] = order[m]
<1> DEFINE n == free_head
<1>1. Joined(o, n, LevelOf(o), LevelBefore(o).tail)
  BY RestJoins
<1>2. /\ n \in Nodes /\ ~Linked(n) /\ n # Null
      /\ o \in OrderType /\ id_index[o.id] = Null
      /\ order' = [order EXCEPT ![n] = o]
      /\ id_index' = [id_index EXCEPT ![o.id] = n]
      /\ o # None
  BY <1>1, NullIsNoNode, BookLevelsAssumption DEF Joined, OrderType, Sides
<1>3. /\ order \in [Nodes -> OrderType \cup {None}]
      /\ id_index \in [Ids -> Nodes \cup {Null}]
      /\ o.id \in Ids /\ o.side \in Sides /\ o.price \in Int
  BY <1>2 DEF LinksInv, TypeOK, OrderType
<1>4. \A id \in Ids : id_index[id] # Null => id_index[id] \in Nodes /\ Linked(id_index[id])
  BY IndexedNode DEF Indexed
<1>5. order'[n] = o /\ \A m \in Nodes : m # n => order'[m] = order[m]
  BY <1>2, <1>3
<1>6. \A m \in Nodes : Linked(m) => order'[m] = order[m]
  BY <1>2, <1>5
<1>7. id_index'[o.id] = n /\ \A id \in Ids : id # o.id => id_index'[id] = id_index[id]
  BY <1>2, <1>3
<1>8. RestingOf' = [id \in Ids |-> IF id_index'[id] = Null THEN None ELSE order'[id_index'[id]]]
  BY DEF RestingOf
<1>9. \A id \in Ids : (IF id_index'[id] = Null THEN None ELSE order'[id_index'[id]])
        = IF id = o.id THEN o ELSE RestingOf[id]
  BY <1>2, <1>4, <1>5, <1>6, <1>7 DEF RestingOf
<1>10. RestingOf' = [id \in Ids |-> IF id = o.id THEN o ELSE RestingOf[id]]
  BY <1>8, <1>9
<1>11. RestingOf' = [RestingOf EXCEPT ![o.id] = o]
  BY <1>10 DEF RestingOf
<1>12. RestingOf[o.id] = None
  BY <1>2, <1>3 DEF RestingOf
<1> QED  BY <1>2, <1>3, <1>5, <1>6, <1>11, <1>12

\* The order joins the back of the queue at its price, the only one that changes.
LEMMA RestedLevels ==
  ASSUME LinksInv, WalksInv, NEW o \in NewOrders, Rest(o)
  PROVE  LevelsOf' = [LevelsOf EXCEPT ![o.side] = R!Link(LevelsOf[o.side], o.price, o.id)]
<1> DEFINE n == free_head
           key == LevelOf(o)
           side == o.side
           price == o.price
           q == NodesOf(key)
           one == R!Link(LevelsOf[side], price, o.id)
<1>1. /\ o.id \in Ids /\ side \in Sides /\ price \in Int
      /\ order'[n] = o
      /\ \A m \in Nodes : Linked(m) => order'[m] = order[m]
  BY RestedOrder
<1>2. key = <<side, price>>
  BY DEF LevelOf
<1>3. TypeOK /\ TypeOK'
  BY RestKeepsInv DEF LinksInv
<1>4. /\ NodesOf(key)' = Append(q, n)
      /\ \A k \in DOMAIN level_map : k # key => Chain(level_map[k].head)' = Chain(level_map[k].head)
  BY RestWalks
<1>5. DOMAIN level_map' = DOMAIN level_map \cup {key}
  BY RestJoins DEF Joined
<1>6. n \in Nodes
  BY RestJoins DEF Joined
<1>7. /\ q \in Seq(Nodes) /\ Len(q) \in Nat
      /\ \A i \in 1 .. Len(q) : q[i] \in Nodes /\ Linked(q[i]) /\ order[q[i]].id \in Ids
  BY NodesOfLevel
<1>8. IdsOf(order', Append(q, n)) = Append(IdsOf(order, q), o.id)
  <2> DEFINE a == IdsOf(order, q)
             r == Append(q, n)
             b == IdsOf(order', r)
             c == Append(a, o.id)
  <2>1. /\ r \in Seq(Nodes) /\ Len(r) = Len(q) + 1 /\ r[Len(q) + 1] = n
        /\ \A i \in 1 .. Len(q) : r[i] = q[i]
    BY <1>6, <1>7
  <2>2. \A i \in 1 .. Len(r) : i \in 1 .. Len(q) \/ i = Len(q) + 1
    BY <1>7, <2>1
  <2>3. \A i \in 1 .. Len(q) : order'[r[i]].id = order[q[i]].id
    BY <1>1, <1>7, <2>1
  <2>4. \A i \in 1 .. Len(r) : order'[r[i]].id \in Ids
    BY <1>1, <1>7, <2>1, <2>2, <2>3
  <2>5. /\ b \in Seq(Ids) /\ Len(b) = Len(r)
        /\ \A i \in 1 .. Len(r) : b[i] = order'[r[i]].id
    <3> HIDE DEF r
    <3> QED  BY <2>1, <2>4, QueueFunction
  <2>6. /\ a \in Seq(Ids) /\ Len(a) = Len(q)
        /\ \A i \in 1 .. Len(q) : a[i] = order[q[i]].id
    BY <1>7, QueueFunction
  <2> HIDE DEF a, b, r
  <2>7. /\ c \in Seq(Ids) /\ Len(c) = Len(q) + 1 /\ c[Len(q) + 1] = o.id
        /\ \A i \in 1 .. Len(q) : c[i] = a[i]
    BY <1>1, <1>7, <2>6
  <2> HIDE DEF c
  <2>8. \A i \in 1 .. Len(b) : b[i] = c[i]
    <3>1. b[Len(q) + 1] = o.id
      BY <1>1, <1>7, <2>1, <2>5
    <3>2. \A i \in 1 .. Len(q) : b[i] = c[i]
      BY <1>7, <2>1, <2>3, <2>5, <2>6, <2>7
    <3> QED  BY <2>1, <2>2, <2>5, <2>7, <3>1, <3>2
  <2>9. b = c
    BY <2>1, <2>5, <2>7, <2>8
  <2> QED  BY <2>9 DEF b, c, r, a
<1>9. \A s \in Sides : \A p :
        /\ p \in PricesOf(s) <=> <<s, p>> \in DOMAIN level_map
        /\ p \in PricesOf(s)' <=> <<s, p>> \in DOMAIN level_map'
  BY <1>3, PriceIsLevel, PriceIsLevelNext
<1>10. PricesOf(side)' = PricesOf(side) \cup {price}
  <2>1. ASSUME NEW p
        PROVE  p \in PricesOf(side)' <=> p \in PricesOf(side) \/ p = price
    <3>1. <<side, p>> = key <=> p = price
      BY <1>2
    <3> QED  BY <1>1, <1>5, <1>9, <3>1
  <2> QED  BY <2>1
<1>11. \A s \in Sides : \A p : s # side \/ p # price =>
         /\ p \in PricesOf(s)' <=> p \in PricesOf(s)
         /\ p \in PricesOf(s) => NodesOf(<<s, p>>)' = NodesOf(<<s, p>>)
  <2> SUFFICES ASSUME NEW s \in Sides, NEW p, s # side \/ p # price
               PROVE  /\ p \in PricesOf(s)' <=> p \in PricesOf(s)
                      /\ p \in PricesOf(s) => NodesOf(<<s, p>>)' = NodesOf(<<s, p>>)
    OBVIOUS
  <2> DEFINE k == <<s, p>>
  <2>1. k # key
    BY <1>2
  <2>2. p \in PricesOf(s) => k \in DOMAIN level_map /\ k \in DOMAIN level_map'
    BY <1>5, <1>9
  <2>3. p \in PricesOf(s)' <=> p \in PricesOf(s)
    BY <1>5, <1>9, <2>1
  <2> QED  BY <1>4, <2>1, <2>2, <2>3 DEF NodesOf
<1>12. one = [p \in PricesOf(side)' |->
                IF p = price THEN IdsOf(order', NodesOf(<<side, p>>)') ELSE LevelsOf[side][p]]
  <2>1. DOMAIN LevelsOf[side] = PricesOf(side)
        /\ \A p \in PricesOf(side) : LevelsOf[side][p] = IdsOf(order, NodesOf(<<side, p>>))
    BY <1>1, <1>3, SideRead
  <2>2. R!LevelAt(LevelsOf[side], price) = IdsOf(order, q)
    <3>1. CASE price \in PricesOf(side)
      BY <1>2, <2>1, <3>1 DEF R!LevelAt
    <3>2. CASE price \notin PricesOf(side)
      <4>1. q = <<>>
        BY <1>1, <1>2, <1>9, <3>2 DEF NodesOf
      <4>2. IdsOf(order, <<>>) = <<>>
        BY DEF IdsOf
      <4> QED  BY <2>1, <3>2, <4>1, <4>2 DEF R!LevelAt
    <3> QED  BY <3>1, <3>2
  <2>3. Append(R!LevelAt(LevelsOf[side], price), o.id) = IdsOf(order', NodesOf(<<side, price>>)')
    BY <1>2, <1>4, <1>8, <2>2
  <2>4. one = [p \in PricesOf(side) \cup {price} |->
                 IF p = price THEN Append(R!LevelAt(LevelsOf[side], price), o.id)
                 ELSE LevelsOf[side][p]]
    BY <2>1 DEF R!Link
  <2> QED  BY <1>10, <2>3, <2>4
<1>13. \A m \in Nodes : Linked(m) /\ level[m] # <<side, price>> => order'[m].id = order[m].id
  BY <1>1
<1> HIDE DEF one
<1>15. SameElsewhere(side, price)
  BY <1>11, <1>13 DEF SameElsewhere
<1>14. LevelsOf' = [LevelsOf EXCEPT ![side] = one]
  BY <1>1, <1>3, <1>12, <1>15, OneLevelChanges
<1> QED  BY <1>14 DEF one

\* The order of a node that leaves rests no more, and no other changes.
LEMMA RemovedOrder ==
  ASSUME LinksInv, NEW n \in Nodes, NEW by \in Int, Removes(n, by), NEW id, id = order[n].id
  PROVE  /\ id \in Ids /\ order[n].side \in Sides
         /\ level[n] = <<order[n].side, order[n].price>>
         /\ RestingOf[id] = order[n] /\ order[n] # None
         /\ RestingOf' = [RestingOf EXCEPT ![id] = None]
<1>1. /\ order[n] \in OrderType /\ NodeAgrees(n) /\ id \in Ids
  BY LinkedOrder DEF Removes
<1>2. /\ id_index[id] = n /\ n # Null /\ order[n] # None
      /\ level[n] = <<order[n].side, order[n].price>> /\ order[n].side \in Sides
  BY <1>1, NullIsNoNode DEF NodeAgrees, LevelOf, OrderType
<1>3. id_index \in [Ids -> Nodes \cup {Null}]
  BY DEF LinksInv, TypeOK
<1>4. id_index' = [id_index EXCEPT ![id] = Null]
  BY DEF Removes, RemoveAfter
<1>5. \A other \in Ids : id_index[other] # Null =>
        id_index[other] \in Nodes /\ order[id_index[other]].id = other
  BY IndexedNode DEF Indexed, LinksInv, LinksAgree, IndexAgrees
<1>6. \A other \in Ids : other # id /\ id_index[other] # Null =>
        order'[id_index[other]] = order[id_index[other]]
  BY <1>5 DEF Removes
<1>7. RestingOf' = [other \in Ids |->
                      IF id_index'[other] = Null THEN None ELSE order'[id_index'[other]]]
  BY DEF RestingOf
<1>8. \A other \in Ids :
        (IF id_index'[other] = Null THEN None ELSE order'[id_index'[other]])
          = IF other = id THEN None ELSE RestingOf[other]
  BY <1>1, <1>3, <1>4, <1>6 DEF RestingOf
<1>9. RestingOf' = [other \in Ids |-> IF other = id THEN None ELSE RestingOf[other]]
  BY <1>7, <1>8
<1>10. RestingOf' = [RestingOf EXCEPT ![id] = None]
  BY <1>9 DEF RestingOf
<1>11. RestingOf[id] = order[n]
  BY <1>1, <1>2 DEF RestingOf
<1> QED  BY <1>1, <1>2, <1>10, <1>11

\* The ids of a queue that loses a node are its ids without that node's.
LEMMA IdsWithout ==
  ASSUME LinksInv, WalksInv, NEW key, NEW q, q = NodesOf(key),
         NEW i \in 1 .. Len(q),
         \A m \in Nodes : m # q[i] => order'[m] = order[m]
  PROVE  LET a == IdsOf(order, q) IN
         /\ R!Position(a, order[q[i]].id) = i
         /\ IdsOf(order', RemoveAt(q, i)) = RemoveAt(a, i)
         /\ RemoveAt(a, i) = <<>> <=> Len(q) = 1
<1> DEFINE a == IdsOf(order, q)
           r == RemoveAt(q, i)
           b == IdsOf(order', r)
           c == RemoveAt(a, i)
<1>1. /\ q \in Seq(Nodes) /\ Len(q) \in Nat
      /\ \A j \in 1 .. Len(q) :
           /\ q[j] \in Nodes /\ order[q[j]].id \in Ids /\ id_index[order[q[j]].id] = q[j]
      /\ \A j, k \in 1 .. Len(q) : q[j] = q[k] => j = k
  BY NodesOfLevel
<1>2. /\ a \in Seq(Ids) /\ Len(a) = Len(q) /\ DOMAIN a = 1 .. Len(q)
      /\ \A j \in 1 .. Len(q) : a[j] = order[q[j]].id
  BY <1>1, QueueFunction
<1> HIDE DEF a
<1>3. R!Position(a, order[q[i]].id) = i
  <2>1. \A j \in 1 .. Len(q) : a[j] = order[q[i]].id <=> j = i
    BY <1>1, <1>2
  <2> QED  BY <1>2, <2>1 DEF R!Position
<1>4. /\ r \in Seq(Nodes) /\ Len(r) = Len(q) - 1
      /\ \A k \in 1 .. Len(q) - 1 : r[k] = IF k < i THEN q[k] ELSE q[k + 1]
  <2>1. q \in Seq(Nodes) /\ i \in 1 .. Len(q)
    BY <1>1
  <2> QED  BY <2>1, Removed
<1>5. /\ c \in Seq(Ids) /\ Len(c) = Len(q) - 1
      /\ \A k \in 1 .. Len(q) - 1 : c[k] = IF k < i THEN a[k] ELSE a[k + 1]
  <2>1. a \in Seq(Ids) /\ i \in 1 .. Len(a) /\ Len(a) = Len(q)
    BY <1>2
  <2>2. /\ RemoveAt(a, i) \in Seq(Ids)
        /\ Len(RemoveAt(a, i)) = Len(a) - 1
        /\ \A k \in 1 .. Len(a) - 1 : RemoveAt(a, i)[k] = IF k < i THEN a[k] ELSE a[k + 1]
    BY <2>1, Removed
  <2> QED  BY <2>1, <2>2
<1> HIDE DEF r, c
<1>6. ASSUME NEW k \in 1 .. Len(q) - 1
      PROVE  order'[r[k]].id = c[k] /\ order'[r[k]].id \in Ids
  <2> DEFINE j == IF k < i THEN k ELSE k + 1
  <2>1. j \in 1 .. Len(q) /\ j # i
    BY <1>1
  <2>2. r[k] = q[j] /\ c[k] = a[j]
    BY <1>4, <1>5
  <2> HIDE DEF j
  <2>3. q[j] \in Nodes /\ q[j] # q[i]
    BY <1>1, <2>1
  <2> QED  BY <1>1, <1>2, <2>1, <2>2, <2>3
<1>7. /\ b \in Seq(Ids) /\ Len(b) = Len(r)
      /\ \A k \in 1 .. Len(r) : b[k] = order'[r[k]].id
  BY <1>4, <1>6, QueueFunction
<1> HIDE DEF b
<1>8. b = c
  BY <1>4, <1>5, <1>6, <1>7
<1>9. c = <<>> <=> Len(q) = 1
  BY <1>1, <1>5
<1> QED  BY <1>3, <1>8, <1>9 DEF a, b, c, r

\* The queues after a removal.
LEMMA RemovedQueues ==
  ASSUME LinksInv, WalksInv, NEW n \in Nodes, NEW by \in Int, Removes(n, by),
         NEW key, key = level[n], NEW q, q = NodesOf(key), NEW f, f = FreeNodes
  PROVE  LosesNode(key, q, n)
BY RemoveWalks DEF Removes

\* The order leaves its queue where it stands, and an emptied queue goes with it.
LEMMA RemovedLevels ==
  ASSUME LinksInv, WalksInv, NEW n \in Nodes, NEW by \in Int, Removes(n, by),
         NEW id, id = order[n].id, NEW side, side = order[n].side,
         NEW price, price = order[n].price, NEW key, key = level[n],
         NEW q, q = NodesOf(key), NEW f, f = FreeNodes
  PROVE  LevelsOf' = [LevelsOf EXCEPT ![side] = R!Unlink(LevelsOf[side], price, id)]
<1> DEFINE one == R!Unlink(LevelsOf[side], price, id)
<1>1. id \in Ids /\ side \in Sides /\ key = <<side, price>>
  BY RemovedOrder
<1>2. /\ Linked(n) /\ RemoveAfter(n, by)
      /\ order' \in [Nodes -> OrderType \cup {None}]
      /\ \A m \in Nodes : m # n => order'[m] = order[m]
  BY DEF Removes
<1>3. TypeOK /\ TypeOK'
  BY <1>2, RemoveKeepsInv DEF LinksInv
<1>4. /\ \E i \in 1 .. Len(q) : q[i] = n /\ NodesOf(key)' = RemoveAt(q, i)
      /\ \A k \in DOMAIN level_map : k # key => Chain(level_map[k].head)' = Chain(level_map[k].head)
      /\ \A k : k \in DOMAIN level_map' <=> k \in DOMAIN level_map /\ (k # key \/ Len(q) # 1)
  BY RemovedQueues DEF LosesNode
<1>5. PICK i \in 1 .. Len(q) : q[i] = n /\ NodesOf(key)' = RemoveAt(q, i)
  BY <1>4
<1>6. /\ R!Position(IdsOf(order, q), id) = i
      /\ IdsOf(order', RemoveAt(q, i)) = RemoveAt(IdsOf(order, q), i)
      /\ RemoveAt(IdsOf(order, q), i) = <<>> <=> Len(q) = 1
  BY <1>2, <1>5, IdsWithout
<1>7. key \in DOMAIN level_map
  BY <1>2, LinkedOrder
<1>8. \A s \in Sides : \A p :
        /\ p \in PricesOf(s) <=> <<s, p>> \in DOMAIN level_map
        /\ p \in PricesOf(s)' <=> <<s, p>> \in DOMAIN level_map'
  BY <1>3, PriceIsLevel, PriceIsLevelNext
<1>9. \A s \in Sides : \A p : s # side \/ p # price =>
         /\ p \in PricesOf(s)' <=> p \in PricesOf(s)
         /\ p \in PricesOf(s) => NodesOf(<<s, p>>)' = NodesOf(<<s, p>>)
  <2> SUFFICES ASSUME NEW s \in Sides, NEW p, s # side \/ p # price
               PROVE  /\ p \in PricesOf(s)' <=> p \in PricesOf(s)
                      /\ p \in PricesOf(s) => NodesOf(<<s, p>>)' = NodesOf(<<s, p>>)
    OBVIOUS
  <2> DEFINE k == <<s, p>>
  <2>1. k # key
    BY <1>1
  <2>2. p \in PricesOf(s) => k \in DOMAIN level_map /\ k \in DOMAIN level_map'
    BY <1>4, <1>8, <2>1
  <2>3. p \in PricesOf(s)' <=> p \in PricesOf(s)
    BY <1>4, <1>8, <2>1
  <2> QED  BY <1>4, <2>1, <2>2, <2>3 DEF NodesOf
<1>10. PricesOf(side)' = {p \in PricesOf(side) : p # price \/ RemoveAt(IdsOf(order, q), i) # <<>>}
  <2>1. ASSUME NEW p
        PROVE  p \in PricesOf(side)' <=> p \in PricesOf(side) /\ (p # price \/ Len(q) # 1)
    <3>1. <<side, p>> = key <=> p = price
      BY <1>1
    <3> QED  BY <1>1, <1>4, <1>8, <3>1
  <2> QED  BY <1>6, <2>1
<1>11. one = [p \in PricesOf(side)' |->
                IF p = price THEN IdsOf(order', NodesOf(<<side, p>>)') ELSE LevelsOf[side][p]]
  <2> DEFINE map == LevelsOf[side]
             a == IdsOf(order, q)
             rest == RemoveAt(a, i)
  <2>1. price \in PricesOf(side)
    BY <1>1, <1>7, <1>8
  <2>2. DOMAIN map = PricesOf(side) /\ map[price] = a
    BY <1>1, <1>3, <2>1, SideRead
  <2>3. R!RemoveAt(map[price], R!Position(map[price], id)) = rest
    BY <1>6, <2>2 DEF R!RemoveAt, RemoveAt
  <2>4. one = [p \in {r \in PricesOf(side) : r # price \/ rest # <<>>} |->
                 IF p # price THEN map[p] ELSE rest]
    <3> HIDE DEF map, rest
    <3> QED  BY <2>2, <2>3 DEF R!Unlink, map
  <2>5. rest = IdsOf(order', NodesOf(<<side, price>>)')
    BY <1>1, <1>5, <1>6
  <2> QED  BY <1>10, <2>4, <2>5
<1>12. \A m \in Nodes : Linked(m) /\ level[m] # <<side, price>> => order'[m].id = order[m].id
  BY <1>1, <1>2
<1> HIDE DEF one
<1>15. SameElsewhere(side, price)
  BY <1>9, <1>12 DEF SameElsewhere
<1>13. LevelsOf' = [LevelsOf EXCEPT ![side] = one]
  BY <1>1, <1>3, <1>11, <1>15, OneLevelChanges
<1> QED  BY <1>13 DEF one

\* A reduced order keeps its place, and so does every other.
LEMMA ReducedQueues ==
  ASSUME LinksInv, WalksInv, NEW n \in Nodes, NEW by \in Int, Reduces(n, by),
         NEW id, id = order[n].id
  PROVE  /\ id \in Ids /\ RestingOf[id] = order[n] /\ order[n] # None
         /\ RestingOf' = [RestingOf EXCEPT ![id] = order'[n]]
         /\ UNCHANGED <<LevelsOf, FreeOf>>
<1>1. /\ order[n] \in OrderType /\ NodeAgrees(n) /\ id \in Ids
  BY LinkedOrder DEF Reduces
<1>2. id_index[id] = n /\ n # Null /\ order[n] # None
  BY <1>1, NullIsNoNode DEF NodeAgrees
<1>3. order'[n].id = id
  BY <1>1 DEF Reduces, OrderType
<1>4. /\ level_map' = Reduced(n, by) /\ Linked(n)
      /\ \A m \in Nodes : m # n => order'[m] = order[m]
      /\ order'[n].quantity = order[n].quantity - by /\ order'[n].quantity > 0
      /\ UNCHANGED <<next, prev, level, free_head, id_index>>
  BY DEF Reduces
<1>5. /\ DOMAIN level_map' = DOMAIN level_map
      /\ \A k \in DOMAIN level_map : Chain(level_map[k].head)' = Chain(level_map[k].head)
      /\ FreeNodes' = FreeNodes
  BY <1>4, InPlaceWalks
<1>6. FreeOf' = FreeOf
  BY <1>5 DEF FreeOf, FreeNodes
<1>7. \A other \in Ids : id_index[other] # Null =>
        id_index[other] \in Nodes /\ order[id_index[other]].id = other
  BY IndexedNode DEF Indexed, LinksInv, LinksAgree, IndexAgrees
<1>8. \A other \in Ids :
        (IF id_index'[other] = Null THEN None ELSE order'[id_index'[other]])
          = IF other = id THEN order'[n] ELSE RestingOf[other]
  BY <1>1, <1>2, <1>4, <1>7 DEF RestingOf
<1>9. RestingOf' = [other \in Ids |-> IF other = id THEN order'[n] ELSE RestingOf[other]]
  <2>1. RestingOf' = [other \in Ids |->
                        IF id_index'[other] = Null THEN None ELSE order'[id_index'[other]]]
    BY DEF RestingOf
  <2> QED  BY <1>8, <2>1
<1>10. RestingOf' = [RestingOf EXCEPT ![id] = order'[n]]
  BY <1>9 DEF RestingOf
<1>11. RestingOf[id] = order[n]
  BY <1>1, <1>2 DEF RestingOf
<1>12. LevelsOf' = LevelsOf
  <2>1. TypeOK /\ TypeOK'
    <3>1. /\ order' \in [Nodes -> OrderType \cup {None}]
          /\ order'[n] \in OrderType
          /\ LevelOf(order'[n]) = LevelOf(order[n])
      BY <1>1 DEF Reduces, OrderType, LevelOf
    <3> QED  BY <1>3, <1>4, <3>1, InPlaceKeepsInv DEF LinksInv
  <2>2. \A s \in Sides : PricesOf(s)' = PricesOf(s)
    BY <1>5 DEF PricesOf
  <2>3. \A s \in Sides : \A p : NodesOf(<<s, p>>)' = NodesOf(<<s, p>>)
    BY <1>5 DEF NodesOf
  <2>4. \A m \in Nodes : order'[m].id = order[m].id
    BY <1>3, <1>4
  <2>5. \A s \in Sides : \A p : IdsOf(order', NodesOf(<<s, p>>)) = IdsOf(order, NodesOf(<<s, p>>))
    BY <2>4, IdsStay
  <2>6. LevelsOf' = [s \in Sides |-> [p \in PricesOf(s) |-> IdsOf(order, NodesOf(<<s, p>>))]]
    <3>1. LevelsOf' = [s \in Sides |-> [p \in PricesOf(s)' |-> IdsOf(order', NodesOf(<<s, p>>)')]]
      BY <2>1, LevelsReadNext
    <3> QED  BY <2>2, <2>3, <2>5, <3>1
  <2> QED  BY <2>1, <2>6, LevelsRead
<1> QED  BY <1>1, <1>2, <1>6, <1>10, <1>11, <1>12

\* acquire, get_or_create_level and the index rest an order.
LEMMA RestRefines ==
  ASSUME LinksInv, WalksInv, NEW o \in NewOrders, Rest(o)
  PROVE  R!RestingNext
<1>1. /\ o.id \in Ids /\ o # None
      /\ RestingOf[o.id] = None
      /\ RestingOf' = [RestingOf EXCEPT ![o.id] = o]
  BY RestedOrder
<1>2. LevelsOf' = [LevelsOf EXCEPT ![o.side] = R!Link(LevelsOf[o.side], o.price, o.id)]
  BY RestedLevels
<1>3. FreeOf > 0 /\ FreeOf' = FreeOf - 1
  <2>1. PICK n, key, q, f : n = free_head /\ key = LevelOf(o) /\ q = NodesOf(key) /\ f = FreeNodes
    OBVIOUS
  <2>2. FreeNodes' = RemoveAt(f, 1)
    BY <2>1, RestWalks
  <2>3. f \in Seq(Nodes) /\ Len(f) # 0
    BY <2>1, RestWalksFree
  <2>4. 1 \in 1 .. Len(f)
    BY <2>3
  <2>5. Len(RemoveAt(f, 1)) = Len(f) - 1
    BY <2>3, <2>4, Removed
  <2> QED  BY <2>1, <2>2, <2>3, <2>5 DEF FreeOf, FreeNodes
<1>4. RestingOf'[o.id] = o
  BY <1>1 DEF RestingOf
<1> QED  BY <1>1, <1>2, <1>3, <1>4 DEF R!RestingNext, R!Rest

\* unlink_and_maybe_erase_from_level, the index and release remove one.
LEMMA RemoveRefines ==
  ASSUME LinksInv, WalksInv, NEW n \in Nodes, NEW by \in Int, Removes(n, by)
  PROVE  R!RestingNext
<1>1. PICK id, side, price, key, q, f :
        /\ id = order[n].id /\ side = order[n].side /\ price = order[n].price
        /\ key = level[n] /\ q = NodesOf(key) /\ f = FreeNodes
  OBVIOUS
<1>2. /\ id \in Ids
      /\ RestingOf[id] = order[n] /\ order[n] # None
      /\ RestingOf' = [RestingOf EXCEPT ![id] = None]
  BY <1>1, RemovedOrder
<1>3. LevelsOf' = [LevelsOf EXCEPT ![side] = R!Unlink(LevelsOf[side], price, id)]
  BY <1>1, RemovedLevels
<1>4. FreeOf' = FreeOf + 1
  <2>1. FreeNodes' = <<n>> \o f
    BY <1>1, RemoveWalks DEF Removes
  <2>2. f \in Seq(Nodes)
    BY <1>1, RemoveWalksFree DEF Removes
  <2>3. Len(<<n>> \o f) = Len(f) + 1
    BY <2>2
  <2> QED  BY <1>1, <2>1, <2>3 DEF FreeOf, FreeNodes
<1>5. R!remove_resting(id)
  BY <1>1, <1>2, <1>3, <1>4 DEF R!remove_resting
<1> QED  BY <1>2, <1>5 DEF R!RestingNext

\* A fill of part of an order, or reduce_resting, reduces one.
LEMMA ReduceRefines ==
  ASSUME LinksInv, WalksInv, NEW n \in Nodes, NEW by \in Int, Reduces(n, by)
  PROVE  R!RestingNext
<1>1. PICK id : id = order[n].id
  OBVIOUS
<1>2. /\ id \in Ids /\ RestingOf[id] = order[n] /\ order[n] # None
      /\ RestingOf' = [RestingOf EXCEPT ![id] = order'[n]]
      /\ UNCHANGED <<LevelsOf, FreeOf>>
  BY <1>1, ReducedQueues
<1>3. order'[n] \in OrderType /\ order'[n] # None
  BY BookLevelsAssumption DEF Reduces, OrderType, Sides
<1>4. RestingOf'[id] = order'[n]
  BY <1>2 DEF RestingOf
<1>5. /\ order'[n] = [RestingOf[id] EXCEPT !.quantity = order'[n].quantity,
                                           !.filled = order'[n].filled]
      /\ order'[n].quantity \in 1 .. RestingOf[id].quantity
  <2>1. order[n].quantity \in Nat /\ order'[n].quantity \in Nat
    BY <1>3, LinkedOrder DEF Reduces, OrderType
  <2> QED  BY <1>2, <2>1 DEF Reduces
<1>6. R!Reduce(id, RestingOf'[id])
  BY <1>2, <1>4, <1>5 DEF R!Reduce
<1> QED  BY <1>2, <1>3, <1>4, <1>6 DEF R!RestingNext

\* A new pool and no levels are a book without orders.
LEMMA RefinesInit ==
  ASSUME Init
  PROVE  R!RestingInit
<1>1. FreeOf = PoolCapacity
  BY WalksInit DEF FreeOf, FreeNodes
<1>2. RestingOf = [id \in Ids |-> None]
  BY DEF Init, RestingOf
<1>3. LevelsOf = [side \in Sides |-> <<>>]
  <2>1. \A side : PricesOf(side) = {}
    BY DEF Init, PricesOf
  <2> QED  BY <2>1 DEF LevelsOf
<1> QED  BY <1>1, <1>2, <1>3 DEF R!RestingInit, R!Sides, Sides

\* The links implement the queues: whatever the operations on nodes, what is read
\* from them is a book whose orders rest at the back of their queue, lose quantity
\* in place or leave from where they stand, and no node is lost (book_levels.cpp
\* and pool.hpp under what book.cpp relies on).
THEOREM QueuesKept == Spec => KeepsQueues
<1>1. Init => R!RestingInit
  BY RefinesInit
<1>2. LinksInv /\ WalksInv /\ [Next]_vars => [R!RestingNext]_<<RestingOf, LevelsOf, FreeOf>>
  <2> SUFFICES ASSUME LinksInv, WalksInv, [Next]_vars
               PROVE  R!RestingNext \/ UNCHANGED <<RestingOf, LevelsOf, FreeOf>>
    OBVIOUS
  <2>1. CASE \E o \in NewOrders : Rest(o)
    BY <2>1, RestRefines
  <2>2. CASE \E n \in Nodes, by \in Int : Removes(n, by)
    BY <2>2, RemoveRefines
  <2>3. CASE \E n \in Nodes, by \in Int : Reduces(n, by)
    BY <2>3, ReduceRefines
  <2>4. CASE UNCHANGED vars
    <3>1. UNCHANGED <<order, next, level_map, free_head, id_index>>
      BY <2>4 DEF vars
    <3> QED  BY <3>1 DEF RestingOf, LevelsOf, FreeOf, PricesOf, Queue, Chain
  <2> QED  BY <2>1, <2>2, <2>3, <2>4, StepKinds
<1> QED  BY <1>1, <1>2, WalksInvariant, PTL DEF Spec, KeepsQueues, R!RestingSpec, R!bookVars

=============================================================================
