------------------------------ MODULE BookProofs ------------------------------
(***************************************************************************)
(* BookInv is an invariant of the order book for every value of its        *)
(* constants: Init establishes it, and every step of a call preserves it.  *)
(***************************************************************************)
EXTENDS BookProperties, SequenceTheorems, TLAPS

-----------------------------------------------------------------------------
(* The constants, by what is said of them *)

\* None is no number, id, owner, order, dormant stop or trade range: std::nullopt
\* and a null pointer differ from every value the book stores.
LEMMA NoneIsApart ==
  /\ None \notin Int
  /\ None \notin Ids
  /\ None \notin Owners
  /\ None \notin Order
  /\ None \notin DormantStop
  /\ None \notin TradeRange
  /\ None \notin OrderResult
  BY ConstantsAssumption

\* The configured sizes, times and fractions are numbers in the ranges the
\* constructor is given.
LEMMA NumbersInRange ==
  /\ PoolCapacity \in Nat
  /\ BandBps \in 1 .. 9999
  /\ CollarBps \in 0 .. 9999
  /\ GracePeriod \in Nat
  /\ HaltDuration \in Nat
  /\ Times \subseteq Nat
  /\ MaxPriority \in Nat
  BY ConstantsAssumption

\* The arguments of the calls have the types of the parameters.
LEMMA ArgumentsTyped ==
  /\ NewOrders \subseteq {order \in Order : order.filled = 0}
  /\ NewStops \subseteq StopOrder
  /\ Targets \subseteq [id : Ids, requester : Owners]
  /\ Amendments \subseteq [price : Int, quantity : Int]
  /\ StopAmendments \subseteq [stop_price : Int, limit_price : Prices, quantity : Int]
  BY ConstantsAssumption

-----------------------------------------------------------------------------
(* Sequences and levels *)

\* RemoveAt takes out the element at k and closes the gap.
LEMMA RemoveAtElements ==
  ASSUME NEW S, NEW s \in Seq(S), NEW k \in 1 .. Len(s)
  PROVE  /\ RemoveAt(s, k) \in Seq(S)
         /\ Len(RemoveAt(s, k)) = Len(s) - 1
         /\ \A i \in 1 .. Len(s) - 1 :
              RemoveAt(s, k)[i] = IF i < k THEN s[i] ELSE s[i + 1]
<1> DEFINE front == SubSeq(s, 1, k - 1)
           back == SubSeq(s, k + 1, Len(s))
<1>0. Len(s) \in Nat /\ k \in Nat /\ 1 <= k /\ k <= Len(s)
  OBVIOUS
<1>1. front \in Seq(S) /\ Len(front) = k - 1 /\ \A i \in 1 .. k - 1 : front[i] = s[i]
  BY SubSeqProperties
<1>2. /\ back \in Seq(S) /\ Len(back) = Len(s) - k
      /\ \A i \in 1 .. Len(s) - k : back[i] = s[k + i]
  BY SubSeqProperties
<1> HIDE DEF front, back
<1>3. /\ front \o back \in Seq(S)
      /\ Len(front \o back) = Len(s) - 1
      /\ \A i \in 1 .. Len(s) - 1 :
           (front \o back)[i] = IF i <= k - 1 THEN front[i] ELSE back[i - (k - 1)]
  <2>1. /\ front \o back \in Seq(S)
        /\ Len(front \o back) = Len(front) + Len(back)
        /\ \A i \in 1 .. Len(front) + Len(back) :
             (front \o back)[i] = IF i <= Len(front) THEN front[i] ELSE back[i - Len(front)]
    BY <1>1, <1>2, ConcatProperties, Zenon
  <2>2. Len(front) + Len(back) = Len(s) - 1
    BY <1>0, <1>1, <1>2
  <2> QED  BY <2>1, <2>2, <1>1, Zenon
<1>4. ASSUME NEW i \in 1 .. Len(s) - 1
      PROVE  (front \o back)[i] = IF i < k THEN s[i] ELSE s[i + 1]
  <2>1. CASE i < k
    BY <2>1, <1>0, <1>1, <1>3
  <2>2. CASE ~(i < k)
    <3>1. i - (k - 1) \in 1 .. Len(s) - k /\ k + (i - (k - 1)) = i + 1
      BY <2>2, <1>0
    <3> QED  BY <3>1, <2>2, <1>0, <1>2, <1>3
  <2> QED  BY <2>1, <2>2
<1>5. RemoveAt(s, k) = front \o back
  BY DEF RemoveAt, front, back
<1> QED  BY <1>3, <1>4, <1>5

\* Front drops the last element, and Last is that element.
LEMMA FrontElements ==
  ASSUME NEW S, NEW s \in Seq(S), s # <<>>
  PROVE  /\ Len(s) \in Nat \ {0}
         /\ Front(s) \in Seq(S)
         /\ Len(Front(s)) = Len(s) - 1
         /\ \A i \in 1 .. Len(s) - 1 : Front(s)[i] = s[i]
         /\ Last(s) \in S /\ Last(s) = s[Len(s)]
<1>1. Len(s) \in Nat \ {0}
  OBVIOUS
<1>2. PICK n \in Nat : n = Len(s) - 1
  BY <1>1
<1>3. 1 \in 1 .. Len(s) + 1 /\ n \in 0 .. Len(s)
  BY <1>1, <1>2
<1>4. /\ SubSeq(s, 1, n) \in Seq(S)
      /\ Len(SubSeq(s, 1, n)) = n
      /\ \A i \in 1 .. n : SubSeq(s, 1, n)[i] = s[i]
  BY <1>1, <1>2, <1>3, SubSeqProperties
<1> QED  BY <1>1, <1>2, <1>4 DEF Front, Last

\* new is the side m after an order joined the back of its level at p.
Joined(m, p, id, new) ==
  /\ DOMAIN new = DOMAIN m \cup {p}
  /\ \A q \in DOMAIN m : q # p => new[q] = m[q]
  /\ LevelAt(m, p) \in Seq(Ids)
  /\ new[p] \in Seq(Ids)
  /\ Len(new[p]) = Len(LevelAt(m, p)) + 1
  /\ \A i \in 1 .. Len(LevelAt(m, p)) : new[p][i] = LevelAt(m, p)[i]
  /\ new[p][Len(LevelAt(m, p)) + 1] = id

\* What a level gains when an order joins its side.
LEMMA LinkElements ==
  ASSUME NEW m, NEW p, NEW id \in Ids,
         \A q \in DOMAIN m : m[q] \in Seq(Ids)
  PROVE  Joined(m, p, id, Link(m, p, id))
<1> DEFINE old == LevelAt(m, p)
<1>1. old \in Seq(Ids)
  BY DEF LevelAt
<1>2. /\ DOMAIN Link(m, p, id) = DOMAIN m \cup {p}
      /\ \A q \in DOMAIN m : q # p => Link(m, p, id)[q] = m[q]
      /\ Link(m, p, id)[p] = Append(old, id)
  BY DEF Link
<1> HIDE DEF old
<1>3. /\ Append(old, id) \in Seq(Ids)
      /\ Len(Append(old, id)) = Len(old) + 1
      /\ \A i \in 1 .. Len(old) : Append(old, id)[i] = old[i]
      /\ Append(old, id)[Len(old) + 1] = id
  BY <1>1, AppendProperties
<1> QED  BY <1>1, <1>2, <1>3, Zenon DEF old, Joined

\* left is the side m after id left its level at p.
Departed(m, p, id, left) ==
  LET k == Position(m[p], id) IN
  /\ k \in 1 .. Len(m[p])
  /\ m[p][k] = id
  /\ DOMAIN left \subseteq DOMAIN m
  /\ \A q \in DOMAIN m : q # p => q \in DOMAIN left /\ left[q] = m[q]
  /\ p \in DOMAIN left <=> Len(m[p]) > 1
  /\ p \in DOMAIN left =>
       /\ left[p] \in Seq(Ids)
       /\ Len(left[p]) = Len(m[p]) - 1
       /\ \A i \in 1 .. Len(m[p]) - 1 :
            left[p][i] = IF i < k THEN m[p][i] ELSE m[p][i + 1]

\* What a side loses when an order leaves its level.
LEMMA UnlinkElements ==
  ASSUME NEW m, NEW p \in DOMAIN m, NEW id \in Ids,
         \A q \in DOMAIN m : m[q] \in Seq(Ids),
         \E i \in DOMAIN m[p] : m[p][i] = id
  PROVE  Departed(m, p, id, Unlink(m, p, id))
<1> DEFINE k == Position(m[p], id)
           left == Unlink(m, p, id)
           level == RemoveAt(m[p], k)
<1>1. k \in 1 .. Len(m[p]) /\ m[p][k] = id
  BY DEF Position
<1> HIDE DEF k
<1>2. /\ level \in Seq(Ids)
      /\ Len(level) = Len(m[p]) - 1
      /\ \A i \in 1 .. Len(m[p]) - 1 : level[i] = IF i < k THEN m[p][i] ELSE m[p][i + 1]
  BY <1>1, RemoveAtElements
<1> HIDE DEF level
<1>3. level # <<>> <=> Len(m[p]) > 1
  BY <1>1, <1>2
<1>4. left = [q \in {r \in DOMAIN m : r # p \/ level # <<>>} |-> IF q # p THEN m[q] ELSE level]
  BY DEF Unlink, level, k
<1> HIDE DEF left
<1>5. /\ DOMAIN left \subseteq DOMAIN m
      /\ \A q \in DOMAIN m : q # p => q \in DOMAIN left /\ left[q] = m[q]
      /\ p \in DOMAIN left <=> level # <<>>
      /\ p \in DOMAIN left => left[p] = level
  BY <1>4
<1>6. /\ k \in 1 .. Len(m[p])
      /\ m[p][k] = id
      /\ DOMAIN left \subseteq DOMAIN m
      /\ \A q \in DOMAIN m : q # p => q \in DOMAIN left /\ left[q] = m[q]
      /\ p \in DOMAIN left <=> Len(m[p]) > 1
      /\ p \in DOMAIN left =>
           /\ left[p] \in Seq(Ids)
           /\ Len(left[p]) = Len(m[p]) - 1
           /\ \A i \in 1 .. Len(m[p]) - 1 :
                left[p][i] = IF i < k THEN m[p][i] ELSE m[p][i + 1]
  BY <1>1, <1>2, <1>3, <1>5, Zenon
<1> QED  BY <1>6 DEF left, k, Departed

-----------------------------------------------------------------------------
(* The book's operations keep the levels and the index in agreement *)

\* An order that rests (Rest) leaves levels and index in agreement.
LEMMA RestKeepsLevels ==
  ASSUME BookTypeOK, LevelsAgree,
         NEW order \in Order, order.price \in Int, order.quantity > 0,
         resting[order.id] = None, free_nodes > 0, Rest(order)
  PROVE  BookTypeOK' /\ LevelsAgree'
<1> DEFINE id == order.id
           s == order.side
           p == order.price
           m == levels[s]
           old == LevelAt(m, p)
           new == Link(m, p, id)
<1>1. id \in Ids /\ s \in Sides /\ p \in Int /\ order # None
  BY NoneIsApart DEF Order
<1>2. /\ resting' = [resting EXCEPT ![id] = order]
      /\ levels' = [levels EXCEPT ![s] = new]
      /\ free_nodes' = free_nodes - 1
  BY DEF Rest
<1>3. \A q \in DOMAIN m : m[q] \in Seq(Ids)
  BY <1>1 DEF BookTypeOK, LevelsTypeOK
<1>4. /\ DOMAIN new = DOMAIN m \cup {p}
      /\ \A q \in DOMAIN m : q # p => new[q] = m[q]
      /\ old \in Seq(Ids)
      /\ new[p] \in Seq(Ids)
      /\ Len(new[p]) = Len(old) + 1
      /\ \A i \in 1 .. Len(old) : new[p][i] = old[i]
      /\ new[p][Len(old) + 1] = id
  <2>1. id \in Ids
    BY <1>1
  <2> HIDE DEF m, id, p
  <2>2. Joined(m, p, id, new)
    BY <2>1, <1>3, LinkElements, Zenon
  <2> QED  BY <2>2 DEF Joined
<1>5. /\ levels'[s] = new
      /\ \A side \in Sides : side # s => levels'[side] = levels[side]
      /\ DOMAIN levels' = Sides
  BY <1>1, <1>2 DEF BookTypeOK, LevelsTypeOK
<1>6. /\ resting'[id] = order
      /\ \A x \in Ids : x # id => resting'[x] = resting[x]
  BY <1>1, <1>2 DEF BookTypeOK
<1>7. \A side \in Sides : \A q \in DOMAIN levels[side] : \A i \in DOMAIN levels[side][q] :
        levels[side][q][i] \in Ids /\ levels[side][q][i] # id
  BY <1>1 DEF BookTypeOK, LevelsTypeOK, LevelsAgree, LevelEntries
<1>8. \A i \in DOMAIN old : /\ p \in DOMAIN m /\ old = m[p]
                            /\ old[i] \in Ids /\ old[i] # id
  BY <1>1, <1>7 DEF LevelAt
<1>a. DOMAIN new[p] = 1 .. Len(old) + 1 /\ DOMAIN old = 1 .. Len(old) /\ Len(old) \in Nat
  BY <1>4
<1> HIDE DEF id, s, p, m, old, new
<1>9. BookTypeOK'
  <2>1. resting' \in [Ids -> Order \cup {None}]
    BY <1>1, <1>2 DEF BookTypeOK
  <2>2. LevelsTypeOK'
    BY <1>1, <1>3, <1>4, <1>5 DEF BookTypeOK, LevelsTypeOK, m
  <2>3. free_nodes' \in Nat
    BY <1>2 DEF BookTypeOK
  <2> QED  BY <2>1, <2>2, <2>3 DEF BookTypeOK
<1>10. ASSUME NEW side \in Sides, NEW q \in DOMAIN levels'[side], side # s \/ q # p
       PROVE  /\ q \in DOMAIN levels[side]
              /\ levels'[side][q] = levels[side][q]
  BY <1>10, <1>4, <1>5 DEF m
<1>11. LevelEntries'
  <2>1. ASSUME NEW side \in Sides, NEW q \in DOMAIN levels'[side]
        PROVE  /\ levels'[side][q] # <<>>
               /\ \A i \in DOMAIN levels'[side][q] :
                    LET x == resting'[levels'[side][q][i]] IN
                    /\ x # None
                    /\ x.id = levels'[side][q][i]
                    /\ x.side = side
                    /\ x.price = q
               /\ \A i, j \in DOMAIN levels'[side][q] :
                    levels'[side][q][i] = levels'[side][q][j] => i = j
    <3>1. CASE side # s \/ q # p
      BY <3>1, <1>6, <1>7, <1>10 DEF LevelsAgree, LevelEntries
    <3>2. CASE side = s /\ q = p
      <4>1. levels'[side][q] = new[p]
        BY <3>2, <1>5
      <4>2. \A i \in 1 .. Len(old) :
              LET x == resting'[new[p][i]] IN
              x # None /\ x.id = new[p][i] /\ x.side = s /\ x.price = p
        BY <1>1, <1>4, <1>6, <1>8, <1>a DEF LevelsAgree, LevelEntries, m
      <4>3. LET x == resting'[new[p][Len(old) + 1]] IN
              x # None /\ x.id = new[p][Len(old) + 1] /\ x.side = s /\ x.price = p
        BY <1>1, <1>4, <1>6 DEF id, s, p
      <4>4. \A i, j \in 1 .. Len(old) : new[p][i] = new[p][j] => i = j
        <5>1. \A i, j \in 1 .. Len(old) : old[i] = old[j] => i = j
          <6>1. CASE p \in DOMAIN m
            <7>1. old = levels[s][p] /\ p \in DOMAIN levels[s] /\ s \in Sides
              <8>1. old = m[p]
                BY <6>1 DEF old, LevelAt
              <8> QED  BY <6>1, <8>1, <1>1 DEF m
            <7>2. \A i, j \in DOMAIN levels[s][p] : levels[s][p][i] = levels[s][p][j] => i = j
              BY <7>1 DEF LevelsAgree, LevelEntries
            <7> QED  BY <7>1, <7>2, <1>a
          <6>2. CASE p \notin DOMAIN m
            BY <6>2, <1>8
          <6> QED  BY <6>1, <6>2
        <5>2. \A i \in 1 .. Len(old) : new[p][i] = old[i]
          BY <1>4, <1>8, <1>a
        <5> QED  BY <5>1, <5>2
      <4>5. \A i \in 1 .. Len(old) : new[p][i] # new[p][Len(old) + 1]
        BY <1>4, <1>8, <1>a
      <4>6. new[p] # <<>>
        BY <1>4, <1>a
      <4>7. \A i \in DOMAIN new[p] : i \in 1 .. Len(old) \/ i = Len(old) + 1
        BY <1>a
      <4> QED  BY <3>2, <4>1, <4>2, <4>3, <4>4, <4>5, <4>6, <4>7
    <3> QED  BY <3>1, <3>2
  <2> QED  BY <2>1 DEF LevelEntries
<1>12. RestingEntries'
  <2>1. ASSUME NEW x \in Ids, resting'[x] # None
        PROVE  LET o == resting'[x] IN
               /\ o.quantity > 0
               /\ o.price \in DOMAIN levels'[o.side]
               /\ \E i \in DOMAIN levels'[o.side][o.price] : levels'[o.side][o.price][i] = x
    <3>1. CASE x = id
      BY <3>1, <1>4, <1>5, <1>6, <1>a DEF s, p
    <3>2. CASE x # id
      <4> DEFINE o == resting[x]
      <4>1. /\ resting'[x] = o
            /\ o \in Order
            /\ o.side \in Sides
            /\ o.quantity > 0
            /\ o.price \in DOMAIN levels[o.side]
            /\ \E i \in DOMAIN levels[o.side][o.price] : levels[o.side][o.price][i] = x
        BY <2>1, <3>2, <1>6 DEF BookTypeOK, LevelsAgree, RestingEntries, Order, IsResting
      <4> HIDE DEF o
      <4>2. CASE o.side = s /\ o.price = p
        <5>1. PICK i \in DOMAIN old : old[i] = x
          BY <4>1, <4>2 DEF old, m, LevelAt
        <5>2. i \in DOMAIN new[p] /\ new[p][i] = x
          BY <5>1, <1>4, <1>a
        <5> QED  BY <4>1, <4>2, <5>2, <1>4, <1>5
      <4>3. CASE ~(o.side = s /\ o.price = p)
        <5>1. o.price \in DOMAIN levels'[o.side] /\ levels'[o.side][o.price] = levels[o.side][o.price]
          BY <4>1, <4>3, <1>4, <1>5 DEF m
        <5> QED  BY <4>1, <5>1
      <4> QED  BY <4>2, <4>3
    <3> QED  BY <3>1, <3>2
  <2> QED  BY <2>1 DEF RestingEntries, IsResting
<1> QED  BY <1>9, <1>11, <1>12 DEF LevelsAgree

\* An order that is taken out (remove_resting) leaves levels and index in agreement.
LEMMA RemoveKeepsLevels ==
  ASSUME BookTypeOK, LevelsAgree,
         NEW id \in Ids, resting[id] # None, remove_resting(id)
  PROVE  BookTypeOK' /\ LevelsAgree'
<1> DEFINE order == resting[id]
           s == order.side
           p == order.price
           m == levels[s]
           k == Position(m[p], id)
           left == Unlink(m, p, id)
<1>1. order \in Order /\ s \in Sides /\ order # None
  BY DEF BookTypeOK, Order
<1>2. /\ resting' = [resting EXCEPT ![id] = None]
      /\ levels' = [levels EXCEPT ![s] = left]
      /\ free_nodes' = free_nodes + 1
  BY DEF remove_resting
<1>3. \A q \in DOMAIN m : m[q] \in Seq(Ids)
  BY <1>1 DEF BookTypeOK, LevelsTypeOK
<1>4. p \in DOMAIN m /\ \E i \in DOMAIN m[p] : m[p][i] = id
  BY <1>1 DEF LevelsAgree, RestingEntries, IsResting
<1>5. /\ levels'[s] = left
      /\ \A side \in Sides : side # s => levels'[side] = levels[side]
      /\ DOMAIN levels' = Sides
  BY <1>1, <1>2 DEF BookTypeOK, LevelsTypeOK
<1>6. /\ resting'[id] = None
      /\ \A x \in Ids : x # id => resting'[x] = resting[x]
  BY <1>2 DEF BookTypeOK
<1>7. \A side \in Sides : \A q \in DOMAIN levels[side] : \A i \in DOMAIN levels[side][q] :
        levels[side][q][i] = id => side = s /\ q = p
  BY DEF LevelsAgree, LevelEntries
<1>8. \A i, j \in DOMAIN m[p] : m[p][i] = m[p][j] => i = j
  BY <1>1, <1>4 DEF LevelsAgree, LevelEntries
<1> HIDE DEF order, s, p, m
<1>9. Departed(m, p, id, left)
  BY <1>3, <1>4, UnlinkElements, Zenon
<1>a. Len(m[p]) \in Nat /\ DOMAIN m[p] = 1 .. Len(m[p]) /\ k \in 1 .. Len(m[p]) /\ m[p][k] = id
  BY <1>3, <1>4, <1>9 DEF Departed
<1> HIDE DEF left, k
<1>10. /\ DOMAIN left \subseteq DOMAIN m
       /\ \A q \in DOMAIN m : q # p => q \in DOMAIN left /\ left[q] = m[q]
       /\ p \in DOMAIN left <=> Len(m[p]) > 1
       /\ p \in DOMAIN left =>
            /\ left[p] \in Seq(Ids)
            /\ Len(left[p]) = Len(m[p]) - 1
            /\ DOMAIN left[p] = 1 .. Len(m[p]) - 1
            /\ \A i \in 1 .. Len(m[p]) - 1 :
                 left[p][i] = IF i < k THEN m[p][i] ELSE m[p][i + 1]
  BY <1>9 DEF Departed, left, k
<1>11. BookTypeOK'
  <2>1. resting' \in [Ids -> Order \cup {None}]
    BY <1>2 DEF BookTypeOK
  <2>2. LevelsTypeOK'
    BY <1>1, <1>3, <1>5, <1>10 DEF BookTypeOK, LevelsTypeOK, m
  <2>3. free_nodes' \in Nat
    BY <1>2 DEF BookTypeOK
  <2> QED  BY <2>1, <2>2, <2>3 DEF BookTypeOK
<1>12. ASSUME NEW side \in Sides, NEW q \in DOMAIN levels'[side], side # s \/ q # p
       PROVE  /\ q \in DOMAIN levels[side]
              /\ levels'[side][q] = levels[side][q]
  BY <1>12, <1>10, <1>5 DEF m
\* What is left of the level are entries of the old one, none of them id's.
<1>13. ASSUME p \in DOMAIN left, NEW i \in DOMAIN left[p]
       PROVE  \E j \in DOMAIN m[p] : /\ j # k
                                     /\ left[p][i] = m[p][j]
                                     /\ j = IF i < k THEN i ELSE i + 1
  <2>1. i \in 1 .. Len(m[p]) - 1 /\ i \in DOMAIN m[p] /\ i + 1 \in DOMAIN m[p]
    BY <1>13, <1>10, <1>a
  <2> QED  BY <2>1, <1>13, <1>10, <1>a
<1>14. LevelEntries'
  <2>1. ASSUME NEW side \in Sides, NEW q \in DOMAIN levels'[side]
        PROVE  /\ levels'[side][q] # <<>>
               /\ \A i \in DOMAIN levels'[side][q] :
                    LET x == resting'[levels'[side][q][i]] IN
                    /\ x # None
                    /\ x.id = levels'[side][q][i]
                    /\ x.side = side
                    /\ x.price = q
               /\ \A i, j \in DOMAIN levels'[side][q] :
                    levels'[side][q][i] = levels'[side][q][j] => i = j
    <3>1. CASE side # s \/ q # p
      <4>1. q \in DOMAIN levels[side] /\ levels'[side][q] = levels[side][q]
        BY <3>1, <1>12
      <4>2. \A i \in DOMAIN levels[side][q] : levels[side][q][i] \in Ids /\ levels[side][q][i] # id
        BY <3>1, <4>1, <1>7 DEF BookTypeOK, LevelsTypeOK
      <4> QED  BY <4>1, <4>2, <1>6 DEF LevelsAgree, LevelEntries
    <3>2. CASE side = s /\ q = p
      <4>1. p \in DOMAIN left /\ levels'[side][q] = left[p]
        BY <3>2, <1>5
      <4>2. left[p] # <<>>
        BY <4>1, <1>10, <1>a
      <4>3. ASSUME NEW i \in DOMAIN left[p]
            PROVE  LET x == resting'[left[p][i]] IN
                   x # None /\ x.id = left[p][i] /\ x.side = s /\ x.price = p
        <5>1. PICK j \in DOMAIN m[p] : j # k /\ left[p][i] = m[p][j]
          BY <4>1, <1>13
        <5>2. m[p][j] \in Ids /\ m[p][j] # id
          BY <5>1, <1>3, <1>4, <1>8, <1>a
        <5>3. resting'[left[p][i]] = resting[m[p][j]]
          BY <5>1, <5>2, <1>6
        <5> QED  BY <5>1, <5>3, <1>1, <1>4 DEF LevelsAgree, LevelEntries, m
      <4>4. ASSUME NEW i \in DOMAIN left[p], NEW j \in DOMAIN left[p], left[p][i] = left[p][j]
            PROVE  i = j
        <5>1. PICK i2 \in DOMAIN m[p] : left[p][i] = m[p][i2] /\ i2 = IF i < k THEN i ELSE i + 1
          BY <4>1, <1>13
        <5>2. PICK j2 \in DOMAIN m[p] : left[p][j] = m[p][j2] /\ j2 = IF j < k THEN j ELSE j + 1
          BY <4>1, <1>13
        <5>3. i2 = j2
          BY <4>4, <5>1, <5>2, <1>8
        <5>4. i \in Nat /\ j \in Nat /\ k \in Nat
          BY <4>1, <1>10, <1>a
        <5> QED  BY <5>1, <5>2, <5>3, <5>4
      <4> QED  BY <3>2, <4>1, <4>2, <4>3, <4>4
    <3> QED  BY <3>1, <3>2
  <2> QED  BY <2>1 DEF LevelEntries
<1>15. RestingEntries'
  <2>1. ASSUME NEW x \in Ids, resting'[x] # None
        PROVE  LET o == resting'[x] IN
               /\ o.quantity > 0
               /\ o.price \in DOMAIN levels'[o.side]
               /\ \E i \in DOMAIN levels'[o.side][o.price] : levels'[o.side][o.price][i] = x
    <3> DEFINE o == resting[x]
    <3>0. x # id
      BY <2>1, <1>6
    <3>1. /\ resting'[x] = o
          /\ o \in Order
          /\ o.side \in Sides
          /\ o.quantity > 0
          /\ o.price \in DOMAIN levels[o.side]
          /\ \E i \in DOMAIN levels[o.side][o.price] : levels[o.side][o.price][i] = x
      BY <2>1, <3>0, <1>6 DEF BookTypeOK, LevelsAgree, RestingEntries, Order, IsResting
    <3> HIDE DEF o
    <3>2. CASE o.side = s /\ o.price = p
      <4>1. PICK j \in DOMAIN m[p] : m[p][j] = x
        BY <3>1, <3>2 DEF m
      <4>2. j \in 1 .. Len(m[p]) /\ j # k
        BY <4>1, <3>0, <1>a
      <4>3. Len(m[p]) > 1
        BY <4>2, <1>a
      <4>4. p \in DOMAIN left /\ DOMAIN left[p] = 1 .. Len(m[p]) - 1
        BY <4>3, <1>10
      <4>5. \E i \in DOMAIN left[p] : left[p][i] = x
        <5>1. CASE j < k
          BY <5>1, <4>1, <4>2, <4>4, <1>10, <1>a
        <5>2. CASE ~(j < k)
          <6>1. j - 1 \in 1 .. Len(m[p]) - 1 /\ ~(j - 1 < k) /\ (j - 1) + 1 = j
            BY <5>2, <4>2, <1>a
          <6>2. left[p][j - 1] = m[p][(j - 1) + 1]
            BY <6>1, <4>4, <1>10
          <6> QED  BY <6>1, <6>2, <4>1, <4>4
        <5> QED  BY <5>1, <5>2
      <4> QED  BY <3>1, <3>2, <4>4, <4>5, <1>5
    <3>3. CASE ~(o.side = s /\ o.price = p)
      <4>1. o.price \in DOMAIN levels'[o.side] /\ levels'[o.side][o.price] = levels[o.side][o.price]
        BY <3>1, <3>3, <1>5, <1>10 DEF m
      <4> QED  BY <3>1, <4>1
    <3> QED  BY <3>2, <3>3
  <2> QED  BY <2>1 DEF RestingEntries, IsResting
<1> QED  BY <1>11, <1>14, <1>15 DEF LevelsAgree

\* An order that keeps its side, price and id, and something to trade, keeps its place.
LEMMA ShrinkKeepsLevels ==
  ASSUME BookTypeOK, LevelsAgree,
         NEW id \in Ids, resting[id] # None,
         NEW order \in Order, order.quantity > 0,
         order.id = resting[id].id, order.side = resting[id].side,
         order.price = resting[id].price,
         resting' = [resting EXCEPT ![id] = order],
         UNCHANGED <<levels, free_nodes>>
  PROVE  BookTypeOK' /\ LevelsAgree'
<1>1. order # None
  BY NoneIsApart, Zenon
<1>2. BookTypeOK'
  BY DEF BookTypeOK, LevelsTypeOK
<1>3. /\ resting'[id] = order
      /\ \A x \in Ids : x # id => resting'[x] = resting[x]
  BY DEF BookTypeOK
<1>4. LevelEntries'
  <2>1. \A side \in Sides : \A q \in DOMAIN levels[side] : \A i \in DOMAIN levels[side][q] :
          levels[side][q][i] \in Ids
    BY DEF BookTypeOK, LevelsTypeOK
  <2> QED  BY <1>1, <1>3, <2>1 DEF LevelsAgree, LevelEntries
<1>5. RestingEntries'
  BY <1>1, <1>3 DEF LevelsAgree, RestingEntries, IsResting
<1> QED  BY <1>2, <1>4, <1>5 DEF LevelsAgree

-----------------------------------------------------------------------------
(* The initial state *)

\* The empty book of the constructor satisfies the invariant.
LEMMA InitEstablishesInv == Init => BookInv
<1> SUFFICES ASSUME Init PROVE BookInv
  OBVIOUS
<1>b. /\ resting = [id \in Ids |-> None]
      /\ levels = [side \in Sides |-> <<>>]
      /\ free_nodes = PoolCapacity
  BY DEF Init
<1>c. /\ dormant = [id \in Ids |-> None]
      /\ next_back_priority = 0
      /\ next_front_priority = -1
      /\ triggered_stops = <<>>
  BY DEF Init
<1>d. /\ finished_orders = [id \in Ids |-> "None"]
      /\ owner_of = [id \in Ids |-> None]
      /\ stop_ids_seen = {}
  BY DEF Init
<1>1. RestingInv
  <2>1. LevelsTypeOK
    BY <1>b DEF LevelsTypeOK
  <2>2. BookTypeOK
    BY <1>b, <2>1, NumbersInRange DEF BookTypeOK
  <2>3. LevelsAgree
    BY <1>b DEF LevelsAgree, LevelEntries, RestingEntries, IsResting
  <2>4. RestingValid
    BY <1>b DEF RestingValid, IsResting
  <2> QED  BY <2>2, <2>3, <2>4 DEF RestingInv
<1>a. StopsInv
  <2>1. StopsTypeOK
    BY <1>c DEF StopsTypeOK
  <2>2. StopsValid
    BY <1>c DEF StopsValid, IsDormant
  <2>3. KeysBetweenCounters /\ StopKeysUnique
    BY <1>c DEF KeysBetweenCounters, StopKeysUnique, IsDormant
  <2> QED  BY <2>1, <2>2, <2>3 DEF StopsInv
<1>2. PlacesInv
  <2>1. RecordsTypeOK
    BY <1>d DEF RecordsTypeOK
  <2>2. LifeCycle /\ OwnersAgree
    BY <1>b, <1>c, <1>d DEF Init, LifeCycle, TriggeredOnce, OnePlace, OwnersAgree, OwnerAgrees, IsResting, IsDormant,
           IsTriggered, IsInFlight, IsFinished
  <2> QED  BY <2>1, <2>2 DEF PlacesInv
<1>3. CallInv
  <2>1. BandTypeOK
    BY DEF Init, BandTypeOK, Prices
  <2>2. FlagsTypeOK
    <3>1. halted = FALSE /\ draining_stops = FALSE
      BY DEF Init
    <3>2. halted \in BOOLEAN
      BY ONLY <3>1, Zenon
    <3>3. draining_stops \in BOOLEAN
      BY ONLY <3>1, Zenon
    <3> QED  BY <3>2, <3>3 DEF FlagsTypeOK
  <2>3. CallTypeOK
    BY DEF Init, CallTypeOK, Prices, RejectReason
  <2>4. IncomingValid /\ ReentryReady /\ QueueInCall
    BY DEF Init, IncomingValid, ReentryReady, QueueInCall
  <2>5. ReferenceValid /\ ReplacementHasNode
    BY DEF Init, ReferenceValid, ReplacementHasNode, StoppedByBand
  <2> QED  BY <2>1, <2>2, <2>3, <2>4, <2>5 DEF CallInv
<1> QED  BY <1>1, <1>a, <1>2, <1>3 DEF BookInv

-----------------------------------------------------------------------------
(* What a step does not touch keeps its invariant. *)

\* A step that touches no resting order keeps their invariant.
LEMMA RestingFrame ==
  ASSUME RestingInv, UNCHANGED bookVars
  PROVE  RestingInv'
<1>1. BookTypeOK /\ LevelsAgree /\ RestingValid /\ UNCHANGED <<resting, levels, free_nodes>>
  BY DEF RestingInv, bookVars
<1>2. BookTypeOK'
  BY <1>1 DEF BookTypeOK, LevelsTypeOK
<1>3. LevelsAgree'
  BY <1>1 DEF LevelsAgree, LevelEntries, RestingEntries, IsResting
<1>4. RestingValid'
  BY <1>1 DEF RestingValid, IsResting, ValidPrice
<1> QED  BY <1>2, <1>3, <1>4 DEF RestingInv

\* A step that touches no stop keeps their invariant.
LEMMA StopsFrame ==
  ASSUME StopsInv, UNCHANGED <<stopVars, triggered_stops>>
  PROVE  StopsInv'
<1> USE DEF stopVars
<1>1. StopsTypeOK /\ StopsValid /\ KeysBetweenCounters /\ StopKeysUnique
  BY DEF StopsInv
<1>2. StopsTypeOK'
  BY <1>1 DEF StopsTypeOK
<1>3. StopsValid'
  BY <1>1 DEF StopsValid, IsDormant, validate_stop_fields
<1>4. KeysBetweenCounters' /\ StopKeysUnique'
  BY <1>1 DEF KeysBetweenCounters, StopKeysUnique, IsDormant
<1> QED  BY <1>2, <1>3, <1>4 DEF StopsInv

\* The place and the owner of x are what they were.
SamePlace(x) ==
  /\ owner_of'[x] = owner_of[x]
  /\ resting'[x] = resting[x]
  /\ dormant'[x] = dormant[x]
  /\ finished_orders'[x] = finished_orders[x]
  /\ IsTriggered(x)' <=> IsTriggered(x)
  /\ \A i \in DOMAIN triggered_stops' :
       triggered_stops'[i].id = x =>
         \E j \in DOMAIN triggered_stops : triggered_stops[j] = triggered_stops'[i]
  /\ IsInFlight(x)' <=> IsInFlight(x)
  /\ IsInFlight(x) => incoming'.owner = incoming.owner

\* An id whose place and owner are the same is still in one place, with one owner.
LEMMA SamePlaceKept ==
  ASSUME NEW x \in Ids, OnePlace(x), OwnerAgrees(x), SamePlace(x)
  PROVE  OnePlace(x)' /\ OwnerAgrees(x)'
<1>1. OnePlace(x)'
  BY DEF OnePlace, SamePlace, IsResting, IsDormant, IsFinished
<1>2. OwnerAgrees(x)'
  BY DEF OwnerAgrees, SamePlace, IsResting, IsDormant
<1> QED  BY <1>1, <1>2

\* A step that moves at most one id keeps PlacesInv if that id fares well.
LEMMA PlacesChange ==
  ASSUME PlacesInv, RecordsTypeOK', TriggeredOnce', NEW id \in Ids,
         \A x \in Ids \ {id} : SamePlace(x),
         OnePlace(id)', OwnerAgrees(id)'
  PROVE  PlacesInv'
<1>1. ASSUME NEW x \in Ids PROVE OnePlace(x)' /\ OwnerAgrees(x)'
  <2>1. CASE x = id
    BY <2>1
  <2>2. CASE x # id
    <3>1. OnePlace(x) /\ OwnerAgrees(x)
      BY DEF PlacesInv, LifeCycle, OwnersAgree
    <3>2. SamePlace(x)
      BY <2>2
    <3> QED  BY <3>1, <3>2, SamePlaceKept
  <2> QED  BY <2>1, <2>2
<1> QED  BY <1>1 DEF PlacesInv, LifeCycle, OwnersAgree

\* A step that moves no id keeps PlacesInv.
LEMMA PlacesFrame ==
  ASSUME PlacesInv, UNCHANGED <<recordVars, resting, dormant, triggered_stops>>,
         \A x \in Ids : IsInFlight(x)' <=> IsInFlight(x),
         \A x \in Ids : IsInFlight(x) => incoming'.owner = incoming.owner
  PROVE  PlacesInv'
<1>1. RecordsTypeOK' /\ TriggeredOnce'
  BY DEF PlacesInv, LifeCycle, RecordsTypeOK, TriggeredOnce, recordVars
<1>2. \A x \in Ids : SamePlace(x)
  BY DEF SamePlace, recordVars, IsTriggered
<1>3. ASSUME NEW x \in Ids PROVE OnePlace(x)' /\ OwnerAgrees(x)'
  BY <1>2, SamePlaceKept DEF PlacesInv, LifeCycle, OwnersAgree
<1> QED  BY <1>1, <1>3 DEF PlacesInv, LifeCycle, OwnersAgree

-----------------------------------------------------------------------------
(* Calls that enter no order *)

\* What emit is given for an order or a stop is an event.
LEMMA EventTypes ==
  ASSUME NEW kind \in EventKind
  PROVE  /\ \A order \in Order : OrderEvent(kind, order) \in EngineEvent
         /\ \A stop \in StopOrder : StopEvent(kind, stop) \in EngineEvent
  BY DEF OrderEvent, StopEvent, EngineEvent, Order, StopOrder, RejectReason, Prices, Sides

\* No order is in flight between calls, and no stop is woken.
LEMMA IdleIsQuiet ==
  ASSUME CallInv, pc = "idle"
  PROVE  /\ incoming = None
         /\ triggered_stops = <<>>
         /\ \A x \in Ids : ~IsInFlight(x) /\ ~IsTriggered(x)
<1>1. incoming = None
  BY DEF CallInv, CallTypeOK
<1>2. triggered_stops = <<>>
  BY DEF CallInv, QueueInCall
<1> QED  BY <1>1, <1>2 DEF IsInFlight, IsTriggered

\* A call that enters no order ends with nothing in flight and no stop woken.
LEMMA FinishKeepsCallInv ==
  ASSUME CallInv, NEW t \in Times, Call(t),
         NEW call \in {"add", "modify", "cancel", "stop"}, NEW id \in Ids,
         NEW reason \in RejectReason, NEW unaccepted \in Int,
         Finish(call, id, reason, unaccepted),
         UNCHANGED bandVars, events' \in Seq(EngineEvent)
  PROVE  /\ CallInv'
         /\ UNCHANGED <<incoming, triggered_stops>>
         /\ \A x \in Ids : ~IsInFlight(x)'
<1> USE DEF Call, Finish, entryVars, bandVars, walkVars, queueVars
<1>1. incoming = None /\ triggered_stops = <<>>
  BY IdleIsQuiet
<1>2. BandTypeOK'
  BY NumbersInRange DEF CallInv, BandTypeOK
<1>3. FlagsTypeOK'
  BY DEF CallInv, FlagsTypeOK
<1>4. CallTypeOK'
  BY <1>1 DEF CallInv, CallTypeOK, OrderResult, Answer, Prices
<1>5. IncomingValid' /\ ReentryReady' /\ ReplacementHasNode'
  BY <1>1 DEF IncomingValid, ReentryReady, ReplacementHasNode
<1>6. QueueInCall'
  BY DEF CallInv, QueueInCall
<1>7. ReferenceValid'
  BY DEF CallInv, ReferenceValid, ValidPrice, StoppedByBand
<1>8. UNCHANGED <<incoming, triggered_stops>>
  OBVIOUS
<1>9. \A x \in Ids : ~IsInFlight(x)'
  BY <1>1 DEF IsInFlight
<1> QED  BY <1>2, <1>3, <1>4, <1>5, <1>6, <1>7, <1>8, <1>9 DEF CallInv

\* A call that only answers preserves the invariant.
LEMMA AnswerKeepsInv ==
  ASSUME BookInv, NEW t \in Times, Call(t),
         NEW call \in {"add", "modify", "cancel", "stop"}, NEW id \in Ids,
         NEW reason \in RejectReason, NEW unaccepted \in Int,
         Finish(call, id, reason, unaccepted),
         UNCHANGED <<bookVars, recordVars, stopVars, bandVars>>, events' \in Seq(EngineEvent)
  PROVE  BookInv'
<1>1. RestingInv /\ StopsInv /\ PlacesInv /\ CallInv
  BY DEF BookInv
<1>2. /\ CallInv'
      /\ UNCHANGED <<incoming, triggered_stops>>
      /\ \A x \in Ids : ~IsInFlight(x)'
  BY <1>1, FinishKeepsCallInv
<1>3. RestingInv' /\ StopsInv'
  BY <1>1, <1>2, RestingFrame, StopsFrame
<1>4. PlacesInv'
  <2>1. \A x \in Ids : ~IsInFlight(x)
    BY <1>1, IdleIsQuiet DEF Call
  <2> QED  BY <1>1, <1>2, <2>1, PlacesFrame DEF bookVars, stopVars
<1> QED  BY <1>2, <1>3, <1>4 DEF BookInv

\* A refused call changes nothing but its answer, and preserves the invariant.
LEMMA RefuseKeepsInv ==
  ASSUME BookInv, NEW t \in Times,
         NEW call \in {"add", "modify", "cancel", "stop"}, NEW id \in Ids,
         NEW reason \in RejectReason, NEW unaccepted \in Int,
         Refuse(call, id, reason, unaccepted, t)
  PROVE  BookInv'
<1>1. events' \in Seq(EngineEvent)
  BY DEF Refuse, BookInv, CallInv, CallTypeOK
<1> QED  BY <1>1, AnswerKeepsInv DEF Refuse

\* Taking a resting order out as Cancelled preserves the invariant.
LEMMA CancelRestKeepsInv ==
  ASSUME BookInv, NEW t \in Times, NEW call \in {"modify", "cancel"}, NEW id \in Ids,
         Call(t), resting[id] # None, CancelRest(id), Finish(call, id, "None", 0)
  PROVE  BookInv'
<1>1. RestingInv /\ StopsInv /\ PlacesInv /\ CallInv
  BY DEF BookInv
<1>2. /\ BookTypeOK /\ LevelsAgree
      /\ resting[id] \in Order
  BY <1>1 DEF RestingInv, BookTypeOK
<1>3. /\ CallInv'
      /\ UNCHANGED <<incoming, triggered_stops>>
      /\ \A x \in Ids : ~IsInFlight(x)'
  <2>1. OrderEvent("Cancelled", resting[id]) \in EngineEvent
    BY <1>2, EventTypes DEF EventKind
  <2>2. events' \in Seq(EngineEvent) /\ UNCHANGED bandVars
    BY <1>1, <2>1 DEF CancelRest, Emit, CallInv, CallTypeOK
  <2>3. "None" \in RejectReason
    BY DEF RejectReason
  <2> QED  BY <1>1, <2>2, <2>3, FinishKeepsCallInv
<1>4. BookTypeOK' /\ LevelsAgree'
  BY <1>2, RemoveKeepsLevels DEF CancelRest
<1>5. resting' = [resting EXCEPT ![id] = None] /\ UNCHANGED stopVars
  BY DEF CancelRest, remove_resting
<1>6. RestingInv' /\ StopsInv'
  <2>1. RestingValid'
    BY <1>1, <1>5 DEF RestingInv, BookTypeOK, RestingValid, IsResting, ValidPrice
  <2> QED  BY <1>1, <1>3, <1>4, <1>5, <2>1, StopsFrame DEF RestingInv
<1>7. PlacesInv'
  <2>1. /\ finished_orders' = [finished_orders EXCEPT ![id] = "Cancelled"]
        /\ UNCHANGED <<owner_of, stop_ids_seen, dormant>>
    BY DEF CancelRest, stopVars
  <2>2. \A x \in Ids : ~IsInFlight(x) /\ ~IsTriggered(x)
    BY <1>1, IdleIsQuiet DEF Call
  <2>3. RecordsTypeOK' /\ TriggeredOnce'
    BY <1>1, <1>3, <2>1 DEF PlacesInv, RecordsTypeOK, LifeCycle, TriggeredOnce
  <2>4. ASSUME NEW x \in Ids \ {id} PROVE SamePlace(x)
    BY <1>1, <1>2, <1>3, <1>5, <2>1, <2>2 DEF SamePlace, PlacesInv, RecordsTypeOK, BookTypeOK, IsTriggered
  <2>5. OnePlace(id) /\ OwnerAgrees(id)
    BY <1>1 DEF PlacesInv, LifeCycle, OwnersAgree
  <2>6. OnePlace(id)'
    BY <1>1, <1>2, <1>3, <1>5, <2>1, <2>2, <2>5
       DEF OnePlace, IsResting, IsDormant, IsFinished, IsTriggered, PlacesInv, RecordsTypeOK, BookTypeOK
  <2>7. OwnerAgrees(id)'
    BY <1>2, <1>3, <1>5, <2>1, <2>5 DEF OwnerAgrees, IsResting, IsDormant, BookTypeOK
  <2> QED  BY <1>1, <2>3, <2>4, <2>6, <2>7, PlacesChange
<1> QED  BY <1>3, <1>6, <1>7 DEF BookInv

-----------------------------------------------------------------------------
(* Cancel and modify of an order *)

\* The validations of fields answer with a reject reason.
LEMMA FieldReasons ==
  /\ \A order : validate_order_fields(order) \in RejectReason
  /\ \A stop : validate_stop_fields(stop) \in RejectReason
  BY DEF validate_order_fields, validate_stop_fields, RejectReason

\* Every refusal names a reject reason.
LEMMA RefusalReasons ==
  ASSUME NEW id, NEW requester, NEW a, NEW t, NEW order, NEW stop
  PROVE  /\ CancelRefusal(id, requester) \in RejectReason
         /\ ModifyRefusal(id, requester, a, t) \in RejectReason
         /\ CancelStopRefusal(id, requester) \in RejectReason
         /\ ModifyStopRefusal(id, requester, a) \in RejectReason
         /\ PlaceRefusal(stop) \in RejectReason
         /\ EntryRefusal(order) \in RejectReason
<1>1. /\ CancelRefusal(id, requester) \in RejectReason
      /\ CancelStopRefusal(id, requester) \in RejectReason
  BY DEF CancelRefusal, CancelStopRefusal, GoneReason, stop_gone_reason, RejectReason
<1>2. ModifyRefusal(id, requester, a, t) \in RejectReason
  <2>1. "None" \in RejectReason /\ "SymbolHalted" \in RejectReason
    BY DEF RejectReason
  <2> QED  BY <1>1, <2>1, FieldReasons DEF ModifyRefusal
<1>3. ModifyStopRefusal(id, requester, a) \in RejectReason
  <2>1. "None" \in RejectReason /\ "StopWouldTrigger" \in RejectReason
    BY DEF RejectReason
  <2> QED  BY <1>1, <2>1, FieldReasons DEF ModifyStopRefusal
<1>4. PlaceRefusal(stop) \in RejectReason /\ EntryRefusal(order) \in RejectReason
  <2>1. {"None", "StopWouldTrigger", "DuplicateOrderId", "SymbolHalted"} \subseteq RejectReason
    BY DEF RejectReason
  <2> QED  BY <2>1, FieldReasons DEF PlaceRefusal, EntryRefusal
<1> QED  BY <1>1, <1>2, <1>3, <1>4

\* cancel_order preserves the invariant.
LEMMA CancelOrderKeepsInv ==
  ASSUME BookInv, NEW id \in Ids, NEW requester \in Owners, NEW t \in Times,
         cancel_order_refused(id, requester, t) \/ cancel_order(id, requester, t)
  PROVE  BookInv'
<1>1. CASE cancel_order_refused(id, requester, t)
  BY <1>1, RefusalReasons, RefuseKeepsInv DEF cancel_order_refused
<1>2. CASE cancel_order(id, requester, t)
  <2>1. resting[id] # None
    BY <1>2 DEF cancel_order, CancelRefusal, GoneReason
  <2> QED  BY <1>2, <2>1, CancelRestKeepsInv DEF cancel_order
<1> QED  BY <1>1, <1>2

\* An accepted modify names an order that rests, and asks for valid fields.
Modifiable(id, a, t) ==
  /\ resting[id] # None
  /\ resting[id] \in Order
  /\ resting[id].id = id
  /\ resting[id].type = "Limit"
  /\ a.price \in Int /\ ValidPrice(a.price)
  /\ a.quantity \in Int
  /\ NewRemaining(id, a) \in Int
  /\ Amended(id, a) \in Order
  /\ Amended(id, a) = [resting[id] EXCEPT !.price = a.price, !.quantity = NewRemaining(id, a)]
  /\ MustReenter(id, a) => ~StillHalted(t)

\* A modify that is not refused has an order to modify, and valid fields for it.
LEMMA ModifyAccepted ==
  ASSUME BookInv, NEW id \in Ids, NEW requester \in Owners, NEW a \in Amendments, NEW t \in Times,
         ModifyRefusal(id, requester, a, t) = "None"
  PROVE  Modifiable(id, a, t)
<1>1. CancelRefusal(id, requester) = "None" /\ validate_order_fields(Requested(id, a)) = "None"
  BY DEF ModifyRefusal
<1>2. resting[id] # None
  BY <1>1 DEF CancelRefusal, GoneReason
<1>3. /\ resting[id] \in Order
      /\ resting[id].type = "Limit"
      /\ resting[id].id = id
  BY <1>2 DEF BookInv, RestingInv, BookTypeOK, RestingValid, LevelsAgree, LevelEntries,
              RestingEntries, IsResting, Order
<1>4. a.price \in Int /\ a.quantity \in Int
  BY ArgumentsTyped
<1>5. ValidPrice(a.price)
  <2>1. Requested(id, a).type = "Limit" /\ Requested(id, a).price = a.price
    BY <1>3 DEF Requested, Order
  <2> QED  BY <1>1, <2>1 DEF validate_order_fields, ValidPrice
<1>6. NewRemaining(id, a) \in Int /\ Amended(id, a) \in Order
  <2>1. NewRemaining(id, a) \in Int
    BY <1>3, <1>4 DEF NewRemaining, Order
  <2>2. a.price \in Prices
    BY <1>4 DEF Prices
  <2> QED  BY <1>3, <2>1, <2>2 DEF Amended, Order
<1>7. MustReenter(id, a) => ~StillHalted(t)
  BY DEF ModifyRefusal
<1> QED  BY <1>2, <1>3, <1>4, <1>5, <1>6, <1>7 DEF Amended, Modifiable

\* A modify that shrinks the order in its place preserves the invariant.
LEMMA ModifyInPlaceKeepsInv ==
  ASSUME BookInv, NEW id \in Ids, NEW requester \in Owners, NEW a \in Amendments, NEW t \in Times,
         modify_order_in_place(id, requester, a, t)
  PROVE  BookInv'
<1> DEFINE order == Amended(id, a)
<1>1. RestingInv /\ StopsInv /\ PlacesInv /\ CallInv
  BY DEF BookInv
<1>2. /\ resting[id] # None /\ resting[id] \in Order /\ resting[id].type = "Limit"
      /\ order \in Order /\ order # None
      /\ order.id = resting[id].id /\ order.side = resting[id].side
      /\ order.type = "Limit" /\ order.owner = resting[id].owner
      /\ order.price = resting[id].price
      /\ order.quantity > 0
  <2>1. order = [resting[id] EXCEPT !.price = a.price, !.quantity = NewRemaining(id, a)]
    BY DEF Amended
  <2>2. a.price = resting[id].price /\ NewRemaining(id, a) > 0
    BY DEF modify_order_in_place, KeepsPlace
  <2>3. resting[id] # None /\ resting[id] \in Order /\ resting[id].type = "Limit" /\ order \in Order
    <3>1. ModifyRefusal(id, requester, a, t) = "None"
      BY DEF modify_order_in_place
    <3>2. Modifiable(id, a, t)
      BY <3>1, ModifyAccepted
    <3> QED  BY <3>2 DEF Modifiable
  <2>4. order # None
    BY <2>3, NoneIsApart
  <2> HIDE DEF order
  <2> QED  BY <2>1, <2>2, <2>3, <2>4 DEF Order
<1>3. /\ resting' = [resting EXCEPT ![id] = order]
      /\ UNCHANGED <<levels, free_nodes, recordVars, stopVars, bandVars>>
  BY DEF modify_order_in_place
<1>4. /\ CallInv'
      /\ UNCHANGED <<incoming, triggered_stops>>
      /\ \A x \in Ids : ~IsInFlight(x)'
  <2>1. OrderEvent("Modified", order) \in EngineEvent
    BY <1>2, EventTypes DEF EventKind
  <2>2. events' \in Seq(EngineEvent)
    BY <1>1, <2>1 DEF modify_order_in_place, Emit, CallInv, CallTypeOK
  <2>3. "None" \in RejectReason
    BY DEF RejectReason
  <2> QED  BY <1>1, <1>3, <2>2, <2>3, FinishKeepsCallInv DEF modify_order_in_place
<1> HIDE DEF order
<1>5. RestingInv'
  <2>1. BookTypeOK' /\ LevelsAgree'
    BY <1>1, <1>2, <1>3, ShrinkKeepsLevels DEF RestingInv
  <2>2. RestingValid'
    BY <1>1, <1>2, <1>3 DEF RestingInv, BookTypeOK, RestingValid, IsResting, ValidPrice
  <2> QED  BY <2>1, <2>2 DEF RestingInv
<1>6. StopsInv'
  BY <1>1, <1>3, <1>4, StopsFrame
<1>7. PlacesInv'
  <2>1. UNCHANGED <<recordVars, dormant, triggered_stops>>
    BY <1>3, <1>4 DEF stopVars
  <2>2. \A x \in Ids : ~IsInFlight(x)
    BY <1>1, IdleIsQuiet DEF modify_order_in_place, Call
  <2>3. RecordsTypeOK' /\ TriggeredOnce'
    BY <1>1, <2>1 DEF PlacesInv, RecordsTypeOK, LifeCycle, TriggeredOnce, recordVars
  <2>4. ASSUME NEW x \in Ids \ {id} PROVE SamePlace(x)
    BY <1>1, <1>3, <1>4, <2>1, <2>2 DEF SamePlace, RestingInv, BookTypeOK, IsTriggered, recordVars
  <2>5. OnePlace(id) /\ OwnerAgrees(id)
    BY <1>1 DEF PlacesInv, LifeCycle, OwnersAgree
  <2>6. IsResting(id) /\ IsResting(id)' /\ resting'[id].owner = resting[id].owner
    BY <1>1, <1>2, <1>3 DEF RestingInv, BookTypeOK, IsResting
  <2>7. OnePlace(id)' /\ OwnerAgrees(id)'
    BY <1>4, <2>1, <2>2, <2>5, <2>6
       DEF OnePlace, OwnerAgrees, IsDormant, IsFinished, IsTriggered, recordVars
  <2> QED  BY <1>1, <2>3, <2>4, <2>7, PlacesChange
<1> QED  BY <1>4, <1>5, <1>6, <1>7 DEF BookInv

\* A halt that is over is lifted; a halt that is not stays.
LEMMA ResumeTypes ==
  ASSUME BandTypeOK, FlagsTypeOK, events \in Seq(EngineEvent), NEW t \in Nat, Resume(t)
  PROVE  /\ halted' \in BOOLEAN
         /\ outside_band_since' \in Nat \cup {None}
         /\ halt_until' \in Nat
         /\ ~StillHalted(t) => ~halted'
         /\ EventsAfterResume(t) \in Seq(EngineEvent)
<1>1. halted' \in BOOLEAN
  BY Zenon DEF Resume
<1>2. outside_band_since' \in Nat \cup {None} /\ halt_until' \in Nat
  BY DEF Resume, BandTypeOK
<1>3. ~StillHalted(t) => ~halted'
  <2>1. t < halt_until \/ t >= halt_until
    BY DEF BandTypeOK
  <2>2. halted' = (halted /\ ~HaltIsOver(t))
    BY DEF Resume
  <2> QED  BY <2>1, <2>2, Zenon DEF StillHalted, HaltIsOver
<1>4. EventsAfterResume(t) \in Seq(EngineEvent)
  <2>1. ResumedEvent \in EngineEvent
    BY DEF ResumedEvent, EngineEvent, EventKind, RejectReason, Prices, Sides
  <2> QED  BY <2>1 DEF EventsAfterResume
<1> QED  BY <1>1, <1>2, <1>3, <1>4

\* A modify that takes the order out to enter it again preserves the invariant: the
\* replacement is in flight, valid, and has the node the order gave back.
LEMMA ModifyReplacesKeepsInv ==
  ASSUME BookInv, NEW id \in Ids, NEW requester \in Owners, NEW a \in Amendments, NEW t \in Times,
         modify_order_replaces(id, requester, a, t)
  PROVE  BookInv'
<1> DEFINE order == Amended(id, a)
<1>1. RestingInv /\ StopsInv /\ PlacesInv /\ CallInv
  BY DEF BookInv
<1>2. Modifiable(id, a, t) /\ MustReenter(id, a)
  <2>1. ModifyRefusal(id, requester, a, t) = "None" /\ MustReenter(id, a)
    BY DEF modify_order_replaces
  <2> QED  BY <2>1, ModifyAccepted
<1>3. /\ resting[id] # None /\ resting[id] \in Order /\ resting[id].id = id
      /\ order \in Order /\ order # None
      /\ order.id = id /\ order.owner = resting[id].owner
      /\ order.type = "Limit" /\ ValidPrice(order.price)
      /\ order.quantity > 0
  <2>1. /\ resting[id] # None /\ resting[id] \in Order /\ resting[id].id = id
        /\ resting[id].type = "Limit" /\ ValidPrice(a.price) /\ order \in Order
        /\ order = [resting[id] EXCEPT !.price = a.price, !.quantity = NewRemaining(id, a)]
        /\ NewRemaining(id, a) > 0
    BY <1>2 DEF Modifiable, MustReenter
  <2>2. order # None
    BY <2>1, NoneIsApart
  <2> HIDE DEF order
  <2> QED  BY <2>1, <2>2 DEF Order
<1> HIDE DEF order
<1>4. /\ pc = "idle" /\ pc' = "enter" /\ incoming' = order /\ origin' = "modify"
      /\ now' = t
      /\ Resume(t) /\ ~StillHalted(t)
      /\ events' = Append(EventsAfterResume(t), OrderEvent("Replaced", resting[id]))
      /\ remove_resting(id)
      /\ resting' = [resting EXCEPT ![id] = None]
      /\ free_nodes' = free_nodes + 1
      /\ UNCHANGED <<recordVars, stopVars, queueVars, walkVars, reference_price, result>>
  BY <1>2 DEF modify_order_replaces, Call, Enter, remove_resting, Modifiable, order
<1>5. incoming = None /\ triggered_stops = <<>> /\ \A x \in Ids : ~IsInFlight(x) /\ ~IsTriggered(x)
  BY <1>1, <1>4, IdleIsQuiet
<1>6. RestingInv'
  <2>1. BookTypeOK' /\ LevelsAgree'
    BY <1>1, <1>3, <1>4, RemoveKeepsLevels DEF RestingInv
  <2>2. RestingValid'
    BY <1>1, <1>4 DEF RestingInv, BookTypeOK, RestingValid, IsResting, ValidPrice
  <2> QED  BY <2>1, <2>2 DEF RestingInv
<1>7. StopsInv'
  BY <1>1, <1>4, StopsFrame DEF queueVars
<1>8. PlacesInv'
  <2>1. UNCHANGED <<finished_orders, owner_of, stop_ids_seen, dormant, triggered_stops>>
    BY <1>4 DEF stopVars, recordVars, queueVars
  <2>2. RecordsTypeOK' /\ TriggeredOnce'
    BY <1>1, <2>1 DEF PlacesInv, RecordsTypeOK, LifeCycle, TriggeredOnce
  <2>3. \A x \in Ids : IsInFlight(x)' <=> x = id
    BY <1>3, <1>4 DEF IsInFlight
  <2>4. ASSUME NEW x \in Ids \ {id} PROVE SamePlace(x)
    BY <1>1, <1>4, <1>5, <2>1, <2>3 DEF SamePlace, RestingInv, BookTypeOK, IsTriggered
  <2>5. OnePlace(id) /\ OwnerAgrees(id)
    BY <1>1 DEF PlacesInv, LifeCycle, OwnersAgree
  <2>6. ~IsResting(id)'
    BY <1>1, <1>4 DEF RestingInv, BookTypeOK, IsResting
  <2>7. OnePlace(id)'
    BY <1>3, <2>1, <2>3, <2>5, <2>6 DEF OnePlace, IsResting, IsDormant, IsFinished, IsTriggered
  <2>8. OwnerAgrees(id)'
    BY <1>3, <1>4, <2>1, <2>5, <2>6 DEF OwnerAgrees, IsResting, IsDormant
  <2> QED  BY <1>1, <2>2, <2>4, <2>7, <2>8, PlacesChange
<1>9. CallInv'
  <2>1. t \in Nat
    BY NumbersInRange
  <2>2. /\ halted' \in BOOLEAN
        /\ outside_band_since' \in Nat \cup {None}
        /\ halt_until' \in Nat
        /\ ~halted'
        /\ EventsAfterResume(t) \in Seq(EngineEvent)
    BY <1>1, <1>4, <2>1, ResumeTypes DEF CallInv, CallTypeOK
  <2>3. BandTypeOK'
    BY <1>1, <1>4, <2>1, <2>2 DEF CallInv, BandTypeOK
  <2>4. FlagsTypeOK'
    BY <1>1, <1>4, <2>2 DEF CallInv, FlagsTypeOK, queueVars
  <2>5. CallTypeOK'
    <3>1. OrderEvent("Replaced", resting[id]) \in EngineEvent
      BY <1>3, EventTypes DEF EventKind
    <3>2. events' \in Seq(EngineEvent)
      BY <1>4, <2>2, <3>1
    <3> QED  BY <1>1, <1>3, <1>4, <3>2 DEF CallInv, CallTypeOK, walkVars
  <2>6. IncomingValid' /\ ReentryReady'
    <3>1. incoming'.quantity > 0 /\ incoming'.type = "Limit" /\ ValidPrice(incoming'.price)
      BY <1>3, <1>4
    <3>2. IncomingValid'
      BY <1>3, <1>4, <3>1 DEF IncomingValid, ValidPrice, Order
    <3>3. ReentryReady'
      BY <3>1, <2>2 DEF ReentryReady
    <3> QED  BY <3>2, <3>3
  <2>7. QueueInCall'
    BY <1>1, <1>4, <1>5 DEF CallInv, QueueInCall, queueVars
  <2>8. ReferenceValid'
    BY <1>1, <1>4 DEF CallInv, ReferenceValid, StoppedByBand, ValidPrice, walkVars
  <2>9. ReplacementHasNode'
    BY <1>1, <1>4 DEF RestingInv, BookTypeOK, ReplacementHasNode
  <2> QED  BY <2>3, <2>4, <2>5, <2>6, <2>7, <2>8, <2>9 DEF CallInv
<1> QED  BY <1>6, <1>7, <1>8, <1>9 DEF BookInv

\* modify_order preserves the invariant up to the entry of a replacement.
LEMMA ModifyOrderKeepsInv ==
  ASSUME BookInv, NEW id \in Ids, NEW requester \in Owners, NEW a \in Amendments, NEW t \in Times,
         \/ modify_order_refused(id, requester, a, t)
         \/ modify_order_cancels(id, requester, a, t)
         \/ modify_order_in_place(id, requester, a, t)
         \/ modify_order_replaces(id, requester, a, t)
  PROVE  BookInv'
<1>1. CASE modify_order_refused(id, requester, a, t)
  <2>1. a.quantity \in Int
    BY ArgumentsTyped
  <2> QED  BY <1>1, <2>1, RefusalReasons, RefuseKeepsInv DEF modify_order_refused
<1>2. CASE modify_order_cancels(id, requester, a, t)
  <2>1. ModifyRefusal(id, requester, a, t) = "None"
    BY <1>2 DEF modify_order_cancels
  <2>2. resting[id] # None
    <3>1. Modifiable(id, a, t)
      BY <2>1, ModifyAccepted
    <3> QED  BY <3>1 DEF Modifiable
  <2> QED  BY <1>2, <2>2, CancelRestKeepsInv DEF modify_order_cancels
<1>3. CASE modify_order_in_place(id, requester, a, t)
  BY <1>3, ModifyInPlaceKeepsInv
<1>4. CASE modify_order_replaces(id, requester, a, t)
  BY <1>4, ModifyReplacesKeepsInv
<1> QED  BY <1>1, <1>2, <1>3, <1>4

-----------------------------------------------------------------------------
(* Stop entry, cancel and modify *)

\* A stop that is placed goes to the back with a key of its own.
LEMMA PlaceStopKeepsInv ==
  ASSUME BookInv, NEW stop \in NewStops, NEW t \in Times, place_stop_order(stop, t)
  PROVE  BookInv'
<1> DEFINE id == stop.id
<1>1. RestingInv /\ StopsInv /\ PlacesInv /\ CallInv
  BY DEF BookInv
<1>2. stop \in StopOrder /\ id \in Ids /\ DormantAt(stop, next_back_priority) \in DormantStop
      /\ DormantAt(stop, next_back_priority) # None
  <2>1. stop \in StopOrder /\ id \in Ids
    BY ArgumentsTyped DEF StopOrder
  <2>2. DormantAt(stop, next_back_priority) \in DormantStop
    BY <1>1, <2>1 DEF DormantAt, DormantStop, StopsInv, StopsTypeOK
  <2> QED  BY <2>1, <2>2, NoneIsApart, Zenon
<1>3. /\ dormant' = [dormant EXCEPT ![id] = DormantAt(stop, next_back_priority)]
      /\ next_back_priority' = next_back_priority + 1
      /\ stop_ids_seen' = stop_ids_seen \cup {id}
      /\ owner_of' = [owner_of EXCEPT ![id] = IF @ = None THEN stop.owner ELSE @]
      /\ UNCHANGED <<bookVars, resting, finished_orders, next_front_priority>>
  BY DEF place_stop_order, RecordOwner, bookVars
<1>4. validate_stop_fields(stop) = "None" /\ ~id_in_use(id)
  BY DEF place_stop_order, PlaceRefusal
<1>5. /\ CallInv'
      /\ UNCHANGED <<incoming, triggered_stops>>
      /\ \A x \in Ids : ~IsInFlight(x)'
  <2>1. StopEvent("StopAccepted", stop) \in EngineEvent
    BY <1>2, EventTypes DEF EventKind
  <2>2. events' \in Seq(EngineEvent)
    BY <1>1, <2>1 DEF place_stop_order, Emit, CallInv, CallTypeOK
  <2>3. "None" \in RejectReason
    BY DEF RejectReason
  <2> QED  BY <1>1, <1>2, <2>2, <2>3, FinishKeepsCallInv DEF place_stop_order
<1>6. triggered_stops = <<>> /\ \A x \in Ids : ~IsInFlight(x) /\ ~IsTriggered(x)
  BY <1>1, IdleIsQuiet DEF place_stop_order, Call
<1>7. RestingInv'
  BY <1>1, <1>3, RestingFrame
<1>8. StopsInv'
  <2>1. StopsTypeOK'
    BY <1>1, <1>2, <1>3, <1>5 DEF StopsInv, StopsTypeOK
  <2>2. StopsValid'
    BY <1>1, <1>2, <1>3, <1>4, <1>5
       DEF StopsInv, StopsTypeOK, StopsValid, IsDormant, DormantAt, validate_stop_fields
  <2>3. KeysBetweenCounters' /\ StopKeysUnique'
    BY <1>1, <1>2, <1>3
       DEF StopsInv, StopsTypeOK, KeysBetweenCounters, StopKeysUnique, IsDormant, DormantAt, DormantStop
  <2> QED  BY <2>1, <2>2, <2>3 DEF StopsInv
<1>9. PlacesInv'
  <2>1. RecordsTypeOK' /\ TriggeredOnce'
    BY <1>1, <1>2, <1>3, <1>5 DEF PlacesInv, RecordsTypeOK, LifeCycle, TriggeredOnce, StopOrder
  <2>2. ASSUME NEW x \in Ids \ {id} PROVE SamePlace(x)
    BY <1>1, <1>2, <1>3, <1>5, <1>6, <2>1
       DEF SamePlace, PlacesInv, RecordsTypeOK, StopsInv, StopsTypeOK, IsTriggered
  <2>3. owner_of[id] = None
    BY <1>1, <1>2, <1>4, <1>6 DEF PlacesInv, LifeCycle, OnePlace, id_in_use, IsResting, IsDormant, IsFinished
  <2>4. owner_of'[id] = stop.owner /\ stop.owner # None
    BY <1>1, <1>2, <1>3, <2>3, NoneIsApart DEF PlacesInv, RecordsTypeOK, StopOrder
  <2>5. IsDormant(id)' /\ dormant'[id].stop = stop
    BY <1>1, <1>2, <1>3 DEF IsDormant, StopsInv, StopsTypeOK, DormantAt
  <2>6. ~IsResting(id)' /\ ~IsTriggered(id)' /\ ~IsFinished(id)' /\ ~IsInFlight(id)'
    BY <1>2, <1>3, <1>4, <1>5, <1>6 DEF IsResting, IsTriggered, IsFinished, id_in_use
  <2>7. OnePlace(id)' /\ OwnerAgrees(id)'
    BY <2>4, <2>5, <2>6, <1>5, <1>6 DEF OnePlace, OwnerAgrees
  <2> QED  BY <1>1, <1>2, <2>1, <2>2, <2>7, PlacesChange
<1> QED  BY <1>5, <1>7, <1>8, <1>9 DEF BookInv

\* A refused place_stop_order preserves the invariant.
LEMMA PlaceStopRefusedKeepsInv ==
  ASSUME BookInv, NEW stop \in NewStops, NEW t \in Times, place_stop_order_refused(stop, t)
  PROVE  BookInv'
<1>1. stop \in StopOrder /\ stop.id \in Ids /\ PlaceRefusal(stop) \in RejectReason
  BY ArgumentsTyped, RefusalReasons DEF StopOrder
<1>2. [StopEvent("Rejected", stop) EXCEPT !.reject_reason = PlaceRefusal(stop)] \in EngineEvent
  BY <1>1, EventTypes DEF EventKind, EngineEvent
<1>3. events' \in Seq(EngineEvent)
  BY <1>2 DEF place_stop_order_refused, Emit, BookInv, CallInv, CallTypeOK
<1> QED  BY <1>1, <1>3, AnswerKeepsInv DEF place_stop_order_refused

\* cancel_stop_order preserves the invariant: the stop is finished.
LEMMA CancelStopKeepsInv ==
  ASSUME BookInv, NEW id \in Ids, NEW requester \in Owners, NEW t \in Times,
         cancel_stop_order(id, requester, t)
  PROVE  BookInv'
<1>1. RestingInv /\ StopsInv /\ PlacesInv /\ CallInv
  BY DEF BookInv
<1>2. /\ dormant[id] # None
      /\ dormant[id] \in DormantStop
      /\ dormant[id].stop \in StopOrder
  BY <1>1 DEF cancel_stop_order, CancelStopRefusal, stop_gone_reason, StopsInv, StopsTypeOK, DormantStop
<1>3. /\ dormant' = [dormant EXCEPT ![id] = None]
      /\ finished_orders' = [finished_orders EXCEPT ![id] = "Cancelled"]
      /\ UNCHANGED <<bookVars, resting, owner_of, stop_ids_seen, next_back_priority,
                     next_front_priority>>
  BY DEF cancel_stop_order, bookVars
<1>4. /\ CallInv'
      /\ UNCHANGED <<incoming, triggered_stops>>
      /\ \A x \in Ids : ~IsInFlight(x)'
  <2>1. StopEvent("StopCancelled", dormant[id].stop) \in EngineEvent
    BY <1>2, EventTypes DEF EventKind
  <2>2. events' \in Seq(EngineEvent)
    BY <1>1, <2>1 DEF cancel_stop_order, Emit, CallInv, CallTypeOK
  <2>3. "None" \in RejectReason
    BY DEF RejectReason
  <2> QED  BY <1>1, <2>2, <2>3, FinishKeepsCallInv DEF cancel_stop_order
<1>5. triggered_stops = <<>> /\ \A x \in Ids : ~IsInFlight(x) /\ ~IsTriggered(x)
  BY <1>1, IdleIsQuiet DEF cancel_stop_order, Call
<1>6. RestingInv'
  BY <1>1, <1>3, RestingFrame
<1>7. StopsInv'
  <2>1. StopsTypeOK'
    BY <1>1, <1>3, <1>4 DEF StopsInv, StopsTypeOK
  <2>2. StopsValid'
    BY <1>1, <1>3, <1>4 DEF StopsInv, StopsTypeOK, StopsValid, IsDormant, validate_stop_fields
  <2>3. KeysBetweenCounters' /\ StopKeysUnique'
    BY <1>1, <1>3 DEF StopsInv, StopsTypeOK, KeysBetweenCounters, StopKeysUnique, IsDormant
  <2> QED  BY <2>1, <2>2, <2>3 DEF StopsInv
<1>8. PlacesInv'
  <2>1. RecordsTypeOK' /\ TriggeredOnce'
    BY <1>1, <1>3, <1>4 DEF PlacesInv, RecordsTypeOK, LifeCycle, TriggeredOnce
  <2>2. ASSUME NEW x \in Ids \ {id} PROVE SamePlace(x)
    BY <1>1, <1>3, <1>4, <1>5, <2>1
       DEF SamePlace, PlacesInv, RecordsTypeOK, StopsInv, StopsTypeOK, IsTriggered
  <2>3. OnePlace(id) /\ OwnerAgrees(id)
    BY <1>1 DEF PlacesInv, LifeCycle, OwnersAgree
  <2>4. IsDormant(id) /\ ~IsDormant(id)' /\ IsFinished(id)'
    BY <1>1, <1>2, <1>3 DEF IsDormant, IsFinished, StopsInv, StopsTypeOK, PlacesInv, RecordsTypeOK
  <2>5. OnePlace(id)' /\ OwnerAgrees(id)'
    BY <1>3, <1>4, <1>5, <2>3, <2>4 DEF OnePlace, OwnerAgrees, IsResting, IsTriggered
  <2> QED  BY <1>1, <2>1, <2>2, <2>5, PlacesChange
<1> QED  BY <1>4, <1>6, <1>7, <1>8 DEF BookInv

\* modify_stop_order preserves the invariant, whether the stop keeps its key or gets a
\* new one at the back.
LEMMA ModifyStopKeepsInv ==
  ASSUME BookInv, NEW id \in Ids, NEW requester \in Owners, NEW a \in StopAmendments,
         NEW t \in Times, modify_stop_order(id, requester, a, t)
  PROVE  BookInv'
<1> DEFINE stop == AmendedStop(id, a)
           back == ~StopKeepsPlace(id, a)
           key == IF back THEN next_back_priority ELSE dormant[id].priority
<1>1. RestingInv /\ StopsInv /\ PlacesInv /\ CallInv
  BY DEF BookInv
<1>2. CancelStopRefusal(id, requester) = "None" /\ validate_stop_fields(stop) = "None"
  BY DEF modify_stop_order, ModifyStopRefusal
<1>3. /\ dormant[id] # None
      /\ dormant[id] \in DormantStop
      /\ dormant[id].stop \in StopOrder
      /\ dormant[id].stop.id = id
  BY <1>1, <1>2 DEF CancelStopRefusal, stop_gone_reason, StopsInv, StopsTypeOK, StopsValid, IsDormant,
                    DormantStop
<1>4. stop \in StopOrder /\ stop.id = id /\ stop.owner = dormant[id].stop.owner
  <2>1. a.stop_price \in Int /\ a.limit_price \in Prices /\ a.quantity \in Int
    BY ArgumentsTyped
  <2> QED  BY <1>3, <2>1 DEF AmendedStop, StopOrder
<1>5. /\ next_back_priority \in Nat /\ key \in Int
      /\ DormantAt(stop, key) \in DormantStop /\ DormantAt(stop, key) # None
  <2>1. next_back_priority \in Nat /\ key \in Int
    BY <1>1, <1>3 DEF StopsInv, StopsTypeOK, DormantStop
  <2> HIDE DEF stop, key
  <2>2. DormantAt(stop, key) \in DormantStop
    BY <1>4, <2>1 DEF DormantAt, DormantStop
  <2> QED  BY <2>1, <2>2, NoneIsApart, Zenon
<1>6. /\ dormant' = [dormant EXCEPT ![id] = DormantAt(stop, key)]
      /\ next_back_priority' = IF back THEN next_back_priority + 1 ELSE next_back_priority
      /\ UNCHANGED <<bookVars, recordVars, resting, next_front_priority>>
  BY DEF modify_stop_order, bookVars
<1> HIDE DEF stop
<1>7. /\ CallInv'
      /\ UNCHANGED <<incoming, triggered_stops>>
      /\ \A x \in Ids : ~IsInFlight(x)'
  <2>1. StopEvent("StopModified", stop) \in EngineEvent
    BY <1>4, EventTypes DEF EventKind
  <2>2. events' \in Seq(EngineEvent)
    BY <1>1, <2>1 DEF modify_stop_order, Emit, CallInv, CallTypeOK, stop
  <2>3. "None" \in RejectReason
    BY DEF RejectReason
  <2> QED  BY <1>1, <2>2, <2>3, FinishKeepsCallInv DEF modify_stop_order
<1>8. triggered_stops = <<>> /\ \A x \in Ids : ~IsInFlight(x) /\ ~IsTriggered(x)
  BY <1>1, IdleIsQuiet DEF modify_stop_order, Call
<1>9. RestingInv'
  BY <1>1, <1>6, RestingFrame
<1>10. StopsInv'
  <2>1. /\ next_front_priority < key
        /\ key < next_back_priority'
        /\ next_back_priority <= next_back_priority'
        /\ next_back_priority' \in Nat
        /\ \A x \in Ids \ {id} : IsDormant(x) => dormant[x].priority # key
    BY <1>1, <1>3, <1>5, <1>6
       DEF StopsInv, StopsTypeOK, KeysBetweenCounters, StopKeysUnique, IsDormant, DormantStop
  <2> HIDE DEF key, back
  <2>2. StopsTypeOK'
    BY <1>1, <1>5, <1>6, <1>7, <2>1 DEF StopsInv, StopsTypeOK
  <2>3. StopsValid'
    BY <1>1, <1>2, <1>4, <1>6, <1>7
       DEF StopsInv, StopsTypeOK, StopsValid, IsDormant, DormantAt, validate_stop_fields
  <2>4. /\ dormant'[id].priority = key
        /\ \A x \in Ids \ {id} : dormant'[x] = dormant[x]
    BY <1>1, <1>6 DEF StopsInv, StopsTypeOK, DormantAt
  <2>5. KeysBetweenCounters'
    <3>1. next_front_priority' < next_back_priority'
      BY <1>1, <1>5, <1>6, <2>1 DEF StopsInv, KeysBetweenCounters, StopsTypeOK
    <3>2. ASSUME NEW x \in Ids, IsDormant(x)'
          PROVE  next_front_priority' < dormant'[x].priority /\ dormant'[x].priority < next_back_priority'
      <4>1. CASE x = id
        BY <4>1, <1>6, <2>1, <2>4
      <4>2. CASE x # id
        BY <3>2, <4>2, <1>1, <1>5, <1>6, <2>1, <2>4
           DEF StopsInv, StopsTypeOK, KeysBetweenCounters, IsDormant, DormantStop
      <4> QED  BY <4>1, <4>2
    <3> QED  BY <3>1, <3>2 DEF KeysBetweenCounters
  <2>6. StopKeysUnique'
    BY <1>1, <2>1, <2>4 DEF StopsInv, StopKeysUnique, IsDormant
  <2> QED  BY <2>2, <2>3, <2>5, <2>6 DEF StopsInv
<1>11. PlacesInv'
  <2> HIDE DEF key
  <2>1. RecordsTypeOK' /\ TriggeredOnce'
    BY <1>1, <1>6, <1>7 DEF PlacesInv, RecordsTypeOK, LifeCycle, TriggeredOnce, recordVars
  <2>2. ASSUME NEW x \in Ids \ {id} PROVE SamePlace(x)
    BY <1>1, <1>6, <1>7, <1>8 DEF SamePlace, StopsInv, StopsTypeOK, IsTriggered, recordVars
  <2>3. OnePlace(id) /\ OwnerAgrees(id)
    BY <1>1 DEF PlacesInv, LifeCycle, OwnersAgree
  <2>4. IsDormant(id) /\ IsDormant(id)' /\ dormant'[id].stop = stop
    BY <1>1, <1>3, <1>5, <1>6 DEF IsDormant, StopsInv, StopsTypeOK, DormantAt
  <2>5. OnePlace(id)' /\ OwnerAgrees(id)'
    BY <1>4, <1>6, <1>7, <1>8, <2>3, <2>4
       DEF OnePlace, OwnerAgrees, IsResting, IsTriggered, IsFinished, recordVars
  <2> QED  BY <1>1, <2>1, <2>2, <2>5, PlacesChange
<1> QED  BY <1>7, <1>9, <1>10, <1>11 DEF BookInv

\* Every call about stops preserves the invariant.
LEMMA StopCallKeepsInv ==
  ASSUME BookInv, NEW t \in Times, StopCall(t)
  PROVE  BookInv'
<1>1. CASE \E stop \in NewStops : place_stop_order_refused(stop, t) \/ place_stop_order(stop, t)
  BY <1>1, PlaceStopRefusedKeepsInv, PlaceStopKeepsInv
<1>2. ASSUME NEW target \in Targets,
             \/ cancel_stop_order_refused(target.id, target.requester, t)
             \/ cancel_stop_order(target.id, target.requester, t)
      PROVE  BookInv'
  <2>1. target.id \in Ids /\ target.requester \in Owners
    BY ArgumentsTyped
  <2>2. CASE cancel_stop_order_refused(target.id, target.requester, t)
    BY <2>1, <2>2, RefusalReasons, RefuseKeepsInv DEF cancel_stop_order_refused
  <2>3. CASE cancel_stop_order(target.id, target.requester, t)
    BY <2>1, <2>3, CancelStopKeepsInv
  <2> QED  BY <1>2, <2>2, <2>3
<1>3. ASSUME NEW target \in Targets, NEW a \in StopAmendments,
             \/ modify_stop_order_refused(target.id, target.requester, a, t)
             \/ modify_stop_order(target.id, target.requester, a, t)
      PROVE  BookInv'
  <2>1. target.id \in Ids /\ target.requester \in Owners
    BY ArgumentsTyped
  <2>2. CASE modify_stop_order_refused(target.id, target.requester, a, t)
    BY <2>1, <2>2, RefusalReasons, RefuseKeepsInv DEF modify_stop_order_refused
  <2>3. CASE modify_stop_order(target.id, target.requester, a, t)
    BY <2>1, <2>3, ModifyStopKeepsInv
  <2> QED  BY <1>3, <2>2, <2>3
<1> QED  BY <1>1, <1>2, <1>3 DEF StopCall

\* add_order hands its order to add_order_core.
LEMMA AddOrderKeepsInv ==
  ASSUME BookInv, NEW order \in NewOrders, NEW t \in Times, add_order(order, t)
  PROVE  BookInv'
<1>1. RestingInv /\ StopsInv /\ PlacesInv /\ CallInv
  BY DEF BookInv
<1>2. order \in Order /\ order # None /\ t \in Nat
  BY ArgumentsTyped, NoneIsApart, NumbersInRange
<1>3. /\ pc = "idle" /\ pc' = "enter" /\ incoming' = order /\ origin' = "new" /\ now' = t
      /\ UNCHANGED <<bookVars, recordVars, stopVars, queueVars, bandVars, walkVars,
                     reference_price, result, events>>
  BY DEF add_order, Call, Enter
<1>4. RestingInv' /\ StopsInv'
  BY <1>1, <1>3, RestingFrame, StopsFrame DEF queueVars
<1>5. PlacesInv'
  <2>1. \A x \in Ids : ~IsInFlight(x)
    BY <1>1, <1>3, IdleIsQuiet
  <2>2. \A x \in Ids : ~IsInFlight(x)'
    BY <1>3 DEF IsInFlight
  <2> QED  BY <1>1, <1>3, <2>1, <2>2, PlacesFrame DEF bookVars, stopVars, queueVars
<1>6. CallInv'
  <2>1. BandTypeOK'
    BY <1>1, <1>2, <1>3 DEF CallInv, BandTypeOK, bandVars
  <2>2. FlagsTypeOK'
    BY <1>1, <1>3 DEF CallInv, FlagsTypeOK, bandVars, queueVars
  <2>3. CallTypeOK'
    BY <1>1, <1>2, <1>3 DEF CallInv, CallTypeOK, walkVars
  <2>4. IncomingValid' /\ ReentryReady' /\ ReplacementHasNode'
    BY <1>3 DEF IncomingValid, ReentryReady, ReplacementHasNode
  <2>5. QueueInCall'
    BY <1>1, <1>3 DEF CallInv, QueueInCall, queueVars
  <2>6. ReferenceValid'
    BY <1>1, <1>3 DEF CallInv, ReferenceValid, StoppedByBand, ValidPrice, walkVars
  <2> QED  BY <2>1, <2>2, <2>3, <2>4, <2>5, <2>6 DEF CallInv
<1> QED  BY <1>4, <1>5, <1>6 DEF BookInv

\* Every call about orders preserves the invariant.
LEMMA OrderCallKeepsInv ==
  ASSUME BookInv, NEW t \in Times, OrderCall(t)
  PROVE  BookInv'
<1>1. CASE \E order \in NewOrders : add_order(order, t)
  BY <1>1, AddOrderKeepsInv
<1>2. ASSUME NEW target \in Targets,
             \/ cancel_order_refused(target.id, target.requester, t)
             \/ cancel_order(target.id, target.requester, t)
      PROVE  BookInv'
  BY <1>2, ArgumentsTyped, CancelOrderKeepsInv
<1>3. ASSUME NEW target \in Targets, NEW a \in Amendments,
             \/ modify_order_refused(target.id, target.requester, a, t)
             \/ modify_order_cancels(target.id, target.requester, a, t)
             \/ modify_order_in_place(target.id, target.requester, a, t)
             \/ modify_order_replaces(target.id, target.requester, a, t)
      PROVE  BookInv'
  BY <1>3, ArgumentsTyped, ModifyOrderKeepsInv
<1> QED  BY <1>1, <1>2, <1>3 DEF OrderCall

-----------------------------------------------------------------------------
(* add_order_core *)

\* In add_order_core an order is in flight, and after a refusal the stops are quiet.
LEMMA EntryFacts ==
  ASSUME CallInv, pc \in {"enter", "match", "settle"}
  PROVE  /\ incoming \in Order /\ incoming # None /\ incoming.id \in Ids
         /\ origin \in {"new", "modify", "stop"}
         /\ draining_stops <=> origin = "stop"
         /\ ~draining_stops => triggered_stops = <<>>
  BY DEF CallInv, CallTypeOK, QueueInCall, Order

\* A replacement or a fired stop is valid, its id is not in use and the book is not
\* halted, so the validation of add_order_core lets it in.
LEMMA ReentryAccepted == BookInv => ReentryNeverRefused
<1> SUFFICES ASSUME BookInv, pc = "enter", origin # "new"
             PROVE  EntryRefusal(incoming) = "None"
  BY DEF ReentryNeverRefused
<1>1. RestingInv /\ StopsInv /\ PlacesInv /\ CallInv
  BY DEF BookInv
<1>2. incoming \in Order /\ incoming # None /\ incoming.id \in Ids
  BY <1>1, EntryFacts
<1>3. ~StillHalted(now)
  BY <1>1 DEF CallInv, ReentryReady, StillHalted
<1>4. validate_order_fields(incoming) = "None"
  BY <1>1, <1>2 DEF CallInv, ReentryReady, IncomingValid, ValidPrice, validate_order_fields, Order, Types
<1>5. ~id_in_use(incoming.id)
  <2>1. IsInFlight(incoming.id)
    BY <1>2 DEF IsInFlight
  <2>2. OnePlace(incoming.id)
    BY <1>1, <1>2 DEF PlacesInv, LifeCycle
  <2> QED  BY <2>1, <2>2 DEF OnePlace, IsResting, IsDormant, IsFinished, id_in_use
<1> QED  BY <1>3, <1>4, <1>5 DEF EntryRefusal

\* What add_order_core answers is a result.
LEMMA AnswerEntryType ==
  ASSUME CallTypeOK, incoming \in Order, NEW reason \in RejectReason, NEW unaccepted \in Int,
         NEW rested \in Prices, AnswerEntry(reason, unaccepted, rested)
  PROVE  result' \in OrderResult \cup {None}
  BY DEF AnswerEntry, CallTypeOK, OrderResult, Order

\* A refusal of add_order_core, which only a new order meets, preserves the invariant.
LEMMA EnterRefusedKeepsInv ==
  ASSUME BookInv, EnterRefused
  PROVE  BookInv'
<1>1. RestingInv /\ StopsInv /\ PlacesInv /\ CallInv
  BY DEF BookInv
<1>2. incoming \in Order /\ incoming # None /\ incoming.id \in Ids
  BY <1>1, EntryFacts DEF EnterRefused
<1>3. /\ pc = "enter" /\ origin = "new"
      /\ Resume(now)
      /\ pc' = AfterEntry /\ incoming' = None
      /\ UNCHANGED <<bookVars, recordVars, stopVars, queueVars, walkVars, reference_price, now, origin>>
  BY ReentryAccepted DEF EnterRefused, ReentryNeverRefused
<1>4. ~draining_stops /\ triggered_stops = <<>> /\ pc' = "done"
  BY <1>1, <1>3, EntryFacts DEF AfterEntry
<1>5. RestingInv' /\ StopsInv'
  BY <1>1, <1>3, RestingFrame, StopsFrame DEF queueVars
<1>6. PlacesInv'
  <2>1. \A x \in Ids : ~IsInFlight(x) /\ ~IsInFlight(x)'
    BY <1>3 DEF IsInFlight
  <2> QED  BY <1>1, <1>3, <2>1, PlacesFrame DEF bookVars, stopVars, queueVars
<1>7. CallInv'
  <2>1. now \in Nat /\ BandTypeOK /\ FlagsTypeOK /\ CallTypeOK /\ events \in Seq(EngineEvent)
    BY <1>1 DEF CallInv, BandTypeOK, CallTypeOK
  <2>2. /\ halted' \in BOOLEAN
        /\ outside_band_since' \in Nat \cup {None}
        /\ halt_until' \in Nat
        /\ EventsAfterResume(now) \in Seq(EngineEvent)
    BY <1>3, <2>1, ResumeTypes
  <2>3. BandTypeOK'
    BY <1>3, <2>1, <2>2 DEF BandTypeOK
  <2>4. FlagsTypeOK'
    BY <1>3, <2>1, <2>2 DEF FlagsTypeOK, queueVars
  <2>5. CallTypeOK'
    <3>1. EntryRefusal(incoming) \in RejectReason
      BY RefusalReasons
    <3>2. result' \in OrderResult \cup {None}
      <4>1. incoming.quantity \in Int /\ None \in Prices
        BY <1>2 DEF Order, Prices
      <4> QED  BY <1>2, <2>1, <3>1, <4>1, AnswerEntryType DEF EnterRefused
    <3>3. [OrderEvent("Rejected", incoming) EXCEPT !.reject_reason = EntryRefusal(incoming)]
            \in EngineEvent
      BY <1>2, <3>1, EventTypes DEF EventKind, EngineEvent
    <3>4. events' \in Seq(EngineEvent)
      BY <2>2, <3>3 DEF EnterRefused
    <3> QED  BY <1>3, <1>4, <2>1, <3>2, <3>4 DEF CallTypeOK, walkVars
  <2>6. IncomingValid' /\ ReentryReady' /\ ReplacementHasNode'
    BY <1>3, <1>4 DEF IncomingValid, ReentryReady, ReplacementHasNode
  <2>7. QueueInCall'
    BY <1>3, <1>4 DEF QueueInCall, queueVars
  <2>8. ReferenceValid'
    BY <1>1, <1>3 DEF CallInv, ReferenceValid, StoppedByBand, ValidPrice, walkVars
  <2> QED  BY <2>3, <2>4, <2>5, <2>6, <2>7, <2>8 DEF CallInv
<1> QED  BY <1>5, <1>6, <1>7 DEF BookInv

\* An accepted order is in flight under its id, whose owner is recorded.
LEMMA EnterAcceptedKeepsInv ==
  ASSUME BookInv, EnterAccepted
  PROVE  BookInv'
<1>1. RestingInv /\ StopsInv /\ PlacesInv /\ CallInv
  BY DEF BookInv
<1>2. incoming \in Order /\ incoming # None /\ incoming.id \in Ids
  BY <1>1, EntryFacts DEF EnterAccepted
<1>4. PICK id \in Ids : id = incoming.id
  BY <1>2
<1>3. /\ pc = "enter" /\ pc' = "match"
      /\ Resume(now)
      /\ ~StillHalted(now) /\ validate_order_fields(incoming) = "None" /\ ~id_in_use(id)
      /\ owner_of' = [owner_of EXCEPT ![id] = IF @ = None THEN incoming.owner ELSE @]
      /\ UNCHANGED <<bookVars, finished_orders, stop_ids_seen, stopVars, queueVars, walkVars,
                     reference_price, now, incoming, origin, result>>
  <2>1. EntryRefusal(incoming) = "None"
    BY DEF EnterAccepted
  <2> QED  BY <2>1, <1>4 DEF EnterAccepted, EntryRefusal, RecordOwner
<1>5. RestingInv' /\ StopsInv'
  BY <1>1, <1>3, RestingFrame, StopsFrame DEF queueVars
<1>6. PlacesInv'
  <2>1. UNCHANGED <<resting, dormant, finished_orders, stop_ids_seen, triggered_stops>>
    BY <1>3 DEF bookVars, stopVars, queueVars
  <2>2. RecordsTypeOK' /\ TriggeredOnce'
    BY <1>1, <1>2, <1>3, <2>1 DEF PlacesInv, RecordsTypeOK, LifeCycle, TriggeredOnce, Order
  <2>3. \A x \in Ids : IsInFlight(x)' <=> x = id
    BY <1>2, <1>3, <1>4 DEF IsInFlight
  <2>4. \A x \in Ids \ {id} : ~IsInFlight(x)
    BY <1>4 DEF IsInFlight
  <2>5. ASSUME NEW x \in Ids \ {id} PROVE SamePlace(x)
    BY <1>1, <1>3, <2>1, <2>3, <2>4 DEF SamePlace, PlacesInv, RecordsTypeOK, IsTriggered
  <2>6. OnePlace(id) /\ OwnerAgrees(id)
    BY <1>1, <1>2 DEF PlacesInv, LifeCycle, OwnersAgree
  <2>7. ~IsResting(id) /\ ~IsDormant(id) /\ ~IsFinished(id)
    BY <1>3 DEF id_in_use, IsResting, IsDormant, IsFinished
  <2>8. ~IsTriggered(id) /\ owner_of'[id] = incoming.owner /\ incoming.owner # None
    <3>1. incoming.owner # None /\ incoming.owner \in Owners
      BY <1>2, NoneIsApart DEF Order
    <3>2. CASE origin = "new"
      <4>1. triggered_stops = <<>>
        BY <1>1, <1>3, <3>2, EntryFacts
      <4>2. ~IsTriggered(id) /\ ~IsInFlight(id)
        BY <1>3, <3>2, <4>1 DEF IsTriggered, IsInFlight
      <4>3. owner_of[id] = None
        BY <2>6, <2>7, <4>2 DEF OnePlace
      <4> QED  BY <1>1, <1>2, <1>3, <3>1, <4>2, <4>3 DEF PlacesInv, RecordsTypeOK
    <3>3. CASE origin # "new"
      <4>1. IsInFlight(id)
        BY <1>2, <1>4, <3>3 DEF IsInFlight
      <4>2. ~IsTriggered(id) /\ owner_of[id] = incoming.owner
        BY <2>6, <4>1 DEF OnePlace, OwnerAgrees
      <4> QED  BY <1>1, <1>2, <1>3, <3>1, <4>2 DEF PlacesInv, RecordsTypeOK
    <3> QED  BY <3>2, <3>3
  <2>9. IsInFlight(id)' /\ ~IsResting(id)' /\ ~IsDormant(id)' /\ ~IsFinished(id)' /\ ~IsTriggered(id)'
    BY <1>2, <2>1, <2>3, <2>7, <2>8 DEF IsResting, IsDormant, IsFinished, IsTriggered
  <2>10. OnePlace(id)' /\ OwnerAgrees(id)'
    BY <1>3, <1>4, <2>8, <2>9 DEF OnePlace, OwnerAgrees, IsTriggered
  <2> QED  BY <1>1, <1>2, <2>2, <2>5, <2>10, PlacesChange
<1>7. CallInv'
  <2>1. now \in Nat /\ BandTypeOK /\ FlagsTypeOK /\ CallTypeOK /\ events \in Seq(EngineEvent)
    BY <1>1 DEF CallInv, BandTypeOK, CallTypeOK
  <2>2. /\ halted' \in BOOLEAN
        /\ outside_band_since' \in Nat \cup {None}
        /\ halt_until' \in Nat
        /\ EventsAfterResume(now) \in Seq(EngineEvent)
    BY <1>3, <2>1, ResumeTypes
  <2>3. BandTypeOK'
    BY <1>3, <2>1, <2>2 DEF BandTypeOK
  <2>4. FlagsTypeOK'
    BY <1>3, <2>1, <2>2 DEF FlagsTypeOK, queueVars
  <2>5. CallTypeOK'
    <3>1. OrderEvent("Accepted", incoming) \in EngineEvent
      BY <1>2, EventTypes DEF EventKind
    <3>2. events' \in Seq(EngineEvent)
      BY <2>2, <3>1 DEF EnterAccepted
    <3> QED  BY <1>2, <1>3, <2>1, <3>2 DEF CallTypeOK, walkVars
  <2>6. IncomingValid'
    <3>1. /\ incoming.quantity >= 0
          /\ incoming.type = "Limit" => ValidPrice(incoming.price)
          /\ incoming.type = "Market" => incoming.price = None
      BY <1>2, <1>3 DEF validate_order_fields, ValidPrice, Order
    <3> QED  BY <1>3, <3>1 DEF IncomingValid, ValidPrice
  <2>7. ReentryReady' /\ ReplacementHasNode'
    BY <1>1, <1>3 DEF CallInv, ReentryReady, ReplacementHasNode, bookVars
  <2>8. QueueInCall'
    BY <1>1, <1>3 DEF CallInv, QueueInCall, queueVars
  <2>9. ReferenceValid'
    BY <1>1, <1>3 DEF CallInv, ReferenceValid, StoppedByBand, ValidPrice, walkVars
  <2> QED  BY <2>3, <2>4, <2>5, <2>6, <2>7, <2>8, <2>9 DEF CallInv
<1> QED  BY <1>5, <1>6, <1>7 DEF BookInv

-----------------------------------------------------------------------------
(* The walk *)

\* A walk that stops changes nothing but its verdict and the halt.
LEMMA StopKeepsInv ==
  ASSUME BookInv, pc = "match", NEW why \in RejectReason, Stop(why),
         halted' \in BOOLEAN, halt_until' \in Nat, events' \in Seq(EngineEvent),
         why \in {"SymbolHalted", "PriceBand"} => reference_price # None
  PROVE  BookInv'
<1>1. RestingInv /\ StopsInv /\ PlacesInv /\ CallInv
  BY DEF BookInv
<1>2. incoming \in Order /\ incoming # None
  BY <1>1, EntryFacts
<1>3. /\ pc' = "settle" /\ verdict' = why
      /\ UNCHANGED <<bookVars, recordVars, stopVars, queueVars, outside_band_since, breach_level,
                     trades, reference_price, now, incoming, origin, result>>
  BY DEF Stop
<1>4. RestingInv' /\ StopsInv'
  BY <1>1, <1>3, RestingFrame, StopsFrame DEF queueVars
<1>5. PlacesInv'
  <2>1. \A x \in Ids : (IsInFlight(x)' <=> IsInFlight(x)) /\ incoming'.owner = incoming.owner
    BY <1>3 DEF IsInFlight
  <2> QED  BY <1>1, <1>3, <2>1, PlacesFrame DEF bookVars, stopVars, queueVars
<1>6. CallInv'
  <2>1. BandTypeOK'
    BY <1>1, <1>3 DEF CallInv, BandTypeOK
  <2>2. FlagsTypeOK'
    BY <1>1, <1>3 DEF CallInv, FlagsTypeOK, queueVars
  <2>3. CallTypeOK'
    BY <1>1, <1>2, <1>3 DEF CallInv, CallTypeOK
  <2>4. IncomingValid'
    BY <1>1, <1>3 DEF CallInv, IncomingValid, ValidPrice
  <2>5. ReentryReady' /\ ReplacementHasNode'
    BY <1>1, <1>3 DEF CallInv, ReentryReady, ReplacementHasNode, bookVars
  <2>6. QueueInCall'
    BY <1>1, <1>3 DEF CallInv, QueueInCall, queueVars
  <2>7. ReferenceValid'
    BY <1>1, <1>3 DEF CallInv, ReferenceValid, StoppedByBand, ValidPrice
  <2> QED  BY <2>1, <2>2, <2>3, <2>4, <2>5, <2>6, <2>7 DEF CallInv
<1> QED  BY <1>4, <1>5, <1>6 DEF BookInv

\* A walk that stops without a halt preserves the invariant.
LEMMA StopQuietlyKeepsInv ==
  ASSUME BookInv, pc = "match", NEW why \in RejectReason, StopQuietly(why),
         why \in {"SymbolHalted", "PriceBand"} => reference_price # None
  PROVE  BookInv'
<1>1. halted' \in BOOLEAN
  BY DEF StopQuietly, BookInv, CallInv, FlagsTypeOK
<1>2. halt_until' \in Nat /\ events' \in Seq(EngineEvent)
  BY DEF StopQuietly, BookInv, CallInv, BandTypeOK, CallTypeOK
<1> QED  BY <1>1, <1>2, StopKeepsInv DEF StopQuietly

\* A walk that halts the book preserves the invariant.
LEMMA BandHaltsKeepsInv ==
  ASSUME BookInv, NEW p \in Int, BandHalts(p)
  PROVE  BookInv'
<1>1. incoming \in Order
  BY EntryFacts DEF BookInv, BandHalts, AtLevel
<1>2. halted' \in BOOLEAN
  <2>1. halted' = TRUE
    BY DEF BandHalts
  <2> QED  BY ONLY <2>1, Zenon
<1>3. halt_until' \in Nat
  <2>1. now \in Nat
    BY DEF BookInv, CallInv, BandTypeOK
  <2>2. halt_until' = now + HaltDuration
    BY DEF BandHalts
  <2> QED  BY <2>1, <2>2, NumbersInRange
<1>4. [OrderEvent("Halted", incoming) EXCEPT !.price = p] \in EngineEvent
  BY <1>1, EventTypes DEF EventKind, EngineEvent, Prices
<1>5. events' \in Seq(EngineEvent)
  BY <1>4 DEF BandHalts, Emit, BookInv, CallInv, CallTypeOK
<1>6. "SymbolHalted" \in RejectReason /\ reference_price # None
  BY DEF RejectReason, BandHalts, within_band
<1> QED  BY <1>2, <1>3, <1>5, <1>6, StopKeepsInv DEF BandHalts, AtLevel

\* The level the walk is at has a head: a resting order of the other side.
LEMMA LevelHasHead ==
  ASSUME BookInv, NEW p, AtLevel(p)
  PROVE  /\ HeadOf(p) \in Order /\ HeadOf(p) # None
         /\ HeadOf(p).id \in Ids /\ resting[HeadOf(p).id] = HeadOf(p)
         /\ HeadOf(p).quantity > 0
         /\ HeadOf(p).price = p
         /\ HeadOf(p).type = "Limit"
         /\ p \in Int /\ ValidPrice(p)
<1> DEFINE side == Opposite(incoming.side)
           level == levels[side][p]
<1>1. RestingInv /\ CallInv
  BY DEF BookInv
<1>2. side \in Sides
  BY DEF Opposite, Sides
<1>3. p \in DOMAIN levels[side]
  BY DEF AtLevel, IsBest
<1>4. level \in Seq(Ids) /\ level # <<>> /\ p \in Int
  BY <1>1, <1>2, <1>3 DEF RestingInv, BookTypeOK, LevelsTypeOK, LevelsAgree, LevelEntries
<1>5. Head(level) \in Ids /\ Head(level) = level[1] /\ 1 \in DOMAIN level
  BY <1>4
<1>6. /\ resting[level[1]] # None
      /\ resting[level[1]].id = level[1]
      /\ resting[level[1]].price = p
  BY <1>1, <1>2, <1>3, <1>5 DEF RestingInv, LevelsAgree, LevelEntries
<1>7. /\ resting[level[1]] \in Order
      /\ resting[level[1]].quantity > 0
      /\ resting[level[1]].type = "Limit" /\ ValidPrice(resting[level[1]].price)
  BY <1>1, <1>5, <1>6 DEF RestingInv, BookTypeOK, RestingValid, LevelsAgree, RestingEntries, IsResting
<1>8. HeadOf(p) = resting[level[1]]
  BY <1>5 DEF HeadOf
<1> QED  BY <1>4, <1>5, <1>6, <1>7, <1>8

\* An order that has traded part of its quantity is an order.
LEMMA TakenType ==
  ASSUME NEW order \in Order, NEW n \in Nat
  PROVE  /\ Taken(order, n) \in Order
         /\ Taken(order, n).id = order.id
         /\ Taken(order, n).owner = order.owner
         /\ Taken(order, n).side = order.side
         /\ Taken(order, n).type = order.type
         /\ Taken(order, n).price = order.price
         /\ Taken(order, n).quantity = order.quantity - n
<1>1. PICK q \in Int : q = order.quantity - n
  BY DEF Order
<1>2. PICK f \in Nat : f = order.filled + n
  BY DEF Order
<1>3. Taken(order, n) = [order EXCEPT !.quantity = q, !.filled = f]
  BY <1>1, <1>2 DEF Taken
<1> QED  BY <1>1, <1>3 DEF Order

\* A fill preserves the invariant: the passive order shrinks in its place, or leaves the
\* book as filled.
LEMMA FillKeepsInv ==
  ASSUME BookInv, NEW p, Fill(p)
  PROVE  BookInv'
<1>1. RestingInv /\ StopsInv /\ PlacesInv /\ CallInv
  BY DEF BookInv
<1>2. pc = "match" /\ AtLevel(p) /\ incoming.quantity > 0
  BY DEF Fill, AtLevel
<1>3. incoming \in Order /\ incoming # None /\ incoming.id \in Ids
  BY <1>1, <1>2, EntryFacts
<1>4. PICK passive \in Order : passive = HeadOf(p)
  BY <1>2, LevelHasHead
<1>5. PICK id \in Ids : id = passive.id
  BY <1>2, <1>4, LevelHasHead
<1>6. /\ passive # None
      /\ resting[id] = passive
      /\ passive.quantity > 0 /\ passive.quantity \in Int
      /\ passive.price = p /\ passive.type = "Limit"
      /\ p \in Int /\ ValidPrice(p)
  BY <1>2, <1>4, <1>5, LevelHasHead DEF Order
<1>7. PICK n \in Nat : n = IF incoming.quantity < passive.quantity
                           THEN incoming.quantity ELSE passive.quantity
  BY <1>2, <1>3, <1>6 DEF Order
<1>8. n > 0 /\ n <= incoming.quantity /\ n <= passive.quantity
  BY <1>2, <1>3, <1>6, <1>7 DEF Order
<1>9. /\ NoteBand(p) /\ AddTrade(p)
      /\ events' = Append(events, TradeEvent(incoming, passive, n))
      /\ incoming' = Taken(incoming, n)
      /\ IF n = passive.quantity
         THEN /\ remove_resting(id)
              /\ finished_orders' = [finished_orders EXCEPT ![id] = "Filled"]
         ELSE /\ resting' = [resting EXCEPT ![id] = Taken(passive, n)]
              /\ UNCHANGED <<levels, free_nodes, finished_orders>>
      /\ UNCHANGED <<owner_of, stop_ids_seen, stopVars, queueVars, verdict, reference_price,
                     now, pc, origin, result>>
  BY <1>4, <1>5, <1>7 DEF Fill, Emit
<1>10. /\ incoming' \in Order /\ incoming' # None
       /\ incoming'.id = incoming.id /\ incoming'.owner = incoming.owner
       /\ incoming'.type = incoming.type /\ incoming'.price = incoming.price
       /\ incoming'.quantity = incoming.quantity - n
  BY <1>3, <1>9, TakenType, NoneIsApart
<1>11. /\ resting' = [resting EXCEPT ![id] = IF n = passive.quantity THEN None ELSE Taken(passive, n)]
       /\ free_nodes' \in Nat /\ free_nodes' >= free_nodes
  BY <1>1, <1>9 DEF remove_resting, RestingInv, BookTypeOK
<1>12. /\ Taken(passive, n) \in Order /\ Taken(passive, n) # None
       /\ Taken(passive, n).id = id /\ Taken(passive, n).owner = passive.owner
       /\ Taken(passive, n).side = passive.side /\ Taken(passive, n).price = p
       /\ Taken(passive, n).type = "Limit"
       /\ Taken(passive, n).quantity = passive.quantity - n
  BY <1>5, <1>6, TakenType, NoneIsApart
<1>13. RestingInv'
  <2>1. BookTypeOK' /\ LevelsAgree'
    <3>1. CASE n = passive.quantity
      BY <3>1, <1>1, <1>6, <1>9, RemoveKeepsLevels DEF RestingInv
    <3>2. CASE n # passive.quantity
      <4>1. /\ passive.id = resting[id].id /\ passive.side = resting[id].side
            /\ passive.quantity - n > 0
        BY <3>2, <1>6, <1>8
      <4>2. /\ Taken(passive, n).id = resting[id].id
            /\ Taken(passive, n).side = resting[id].side
            /\ Taken(passive, n).price = resting[id].price
            /\ Taken(passive, n).quantity > 0
            /\ resting[id] # None
            /\ resting' = [resting EXCEPT ![id] = Taken(passive, n)]
            /\ UNCHANGED <<levels, free_nodes>>
        BY <4>1, <3>2, <1>5, <1>6, <1>9, <1>12
      <4> QED  BY <4>2, <1>1, <1>12, ShrinkKeepsLevels DEF RestingInv
    <3> QED  BY <3>1, <3>2
  <2>2. RestingValid'
    BY <1>1, <1>6, <1>11, <1>12 DEF RestingInv, BookTypeOK, RestingValid, IsResting, ValidPrice
  <2> QED  BY <2>1, <2>2 DEF RestingInv
<1>14. StopsInv'
  BY <1>1, <1>9, StopsFrame DEF queueVars
<1>15. PlacesInv'
  <2>1. /\ finished_orders' =
             IF n = passive.quantity THEN [finished_orders EXCEPT ![id] = "Filled"] ELSE finished_orders
        /\ UNCHANGED <<owner_of, stop_ids_seen, dormant, triggered_stops>>
    BY <1>9 DEF stopVars, queueVars
  <2>2. RecordsTypeOK' /\ TriggeredOnce'
    BY <1>1, <2>1 DEF PlacesInv, RecordsTypeOK, LifeCycle, TriggeredOnce
  <2>3. \A x \in Ids : IsInFlight(x)' <=> IsInFlight(x)
    BY <1>3, <1>9, <1>10 DEF IsInFlight
  <2>4. ASSUME NEW x \in Ids \ {id} PROVE SamePlace(x)
    BY <1>1, <1>10, <1>11, <2>1, <2>3
       DEF SamePlace, PlacesInv, RecordsTypeOK, RestingInv, BookTypeOK, IsTriggered
  <2>5. OnePlace(id) /\ OwnerAgrees(id)
    BY <1>1 DEF PlacesInv, LifeCycle, OwnersAgree
  <2>6. IsResting(id)
    BY <1>6 DEF IsResting
  <2>7. ~IsDormant(id) /\ ~IsTriggered(id) /\ ~IsInFlight(id) /\ ~IsFinished(id) /\ owner_of[id] # None
    BY <2>5, <2>6 DEF OnePlace
  <2>8. ~IsDormant(id)' /\ ~IsTriggered(id)' /\ ~IsInFlight(id)' /\ owner_of'[id] # None
    BY <2>1, <2>3, <2>7 DEF IsDormant, IsTriggered
  <2>9. CASE n = passive.quantity
    <3>1. ~IsResting(id)' /\ IsFinished(id)'
      BY <2>9, <1>1, <1>11, <2>1 DEF IsResting, IsFinished, RestingInv, BookTypeOK, PlacesInv, RecordsTypeOK
    <3>2. OnePlace(id)' /\ OwnerAgrees(id)'
      BY <3>1, <2>8 DEF OnePlace, OwnerAgrees, IsTriggered
    <3> QED  BY <1>1, <2>2, <2>4, <3>2, PlacesChange
  <2>10. CASE n # passive.quantity
    <3>1. resting'[id] = Taken(passive, n) /\ UNCHANGED finished_orders
      BY <2>10, <1>1, <1>11, <2>1 DEF RestingInv, BookTypeOK
    <3>2. IsResting(id)' /\ resting'[id].owner = owner_of'[id] /\ ~IsFinished(id)'
      BY <3>1, <1>6, <1>12, <2>1, <2>5, <2>6, <2>7 DEF OwnerAgrees, IsResting, IsFinished
    <3>3. OnePlace(id)' /\ OwnerAgrees(id)'
      BY <3>2, <2>8 DEF OnePlace, OwnerAgrees, IsTriggered
    <3> QED  BY <1>1, <2>2, <2>4, <3>3, PlacesChange
  <2> QED  BY <2>9, <2>10
<1>16. CallInv'
  <2>1. /\ outside_band_since' \in Nat \cup {None}
        /\ UNCHANGED <<halted, halt_until>>
        /\ breach_level' \in Prices
    BY <1>1, <1>6, <1>9 DEF NoteBand, CallInv, BandTypeOK, CallTypeOK, Prices
  <2>2. trades' \in TradeRange /\ trades' # None /\ trades'.last = p
    <3>1. trades' \in TradeRange /\ trades'.last = p
      BY <1>1, <1>6, <1>9 DEF AddTrade, CallInv, CallTypeOK, TradeRange
    <3> QED  BY <3>1, NoneIsApart
  <2>3. events' \in Seq(EngineEvent)
    <3>1. TradeEvent(incoming, passive, n) \in EngineEvent
      BY <1>3 DEF TradeEvent, EngineEvent, EventKind, RejectReason, Order, Prices
    <3> QED  BY <3>1, <1>1, <1>9 DEF CallInv, CallTypeOK
  <2>4. BandTypeOK'
    BY <1>1, <1>9, <2>1 DEF CallInv, BandTypeOK
  <2>5. FlagsTypeOK'
    BY <1>1, <1>9, <2>1 DEF CallInv, FlagsTypeOK, queueVars
  <2>6. CallTypeOK'
    BY <1>1, <1>9, <1>10, <1>2, <2>1, <2>2, <2>3 DEF CallInv, CallTypeOK
  <2>7. IncomingValid'
    BY <1>1, <1>2, <1>3, <1>8, <1>9, <1>10 DEF CallInv, IncomingValid, ValidPrice, Order
  <2>8. ReentryReady'
    BY <1>2, <1>9 DEF ReentryReady
  <2>9. ReplacementHasNode'
    BY <1>1, <1>3, <1>9, <1>11 DEF CallInv, ReplacementHasNode, RestingInv, BookTypeOK
  <2>10. QueueInCall'
    BY <1>1, <1>9 DEF CallInv, QueueInCall, queueVars
  <2>11. ReferenceValid'
    BY <1>1, <1>6, <1>9, <2>2 DEF CallInv, ReferenceValid, StoppedByBand, ValidPrice
  <2> QED  BY <2>4, <2>5, <2>6, <2>7, <2>8, <2>9, <2>10, <2>11 DEF CallInv
<1> QED  BY <1>13, <1>14, <1>15, <1>16 DEF BookInv

\* Every step of the walk preserves the invariant.
LEMMA WalkKeepsInv ==
  ASSUME BookInv, Walk
  PROVE  BookInv'
<1> USE DEF AtLevel
<1>1. "None" \in RejectReason /\ "PriceCollar" \in RejectReason /\ "SelfTrade" \in RejectReason
      /\ "PriceBand" \in RejectReason
  BY DEF RejectReason
<1>2. CASE WalkEnds
  BY <1>1, <1>2, StopQuietlyKeepsInv DEF WalkEnds
<1>3. ASSUME NEW side \in Sides, NEW p \in DOMAIN levels[side],
             CollarStops(p) \/ SelfTradeStops(p) \/ BandHalts(p) \/ BandStops(p) \/ Fill(p)
      PROVE  BookInv'
  <2>1. p \in Int
    BY <1>3 DEF BookInv, RestingInv, BookTypeOK, LevelsTypeOK
  <2>2. CASE CollarStops(p)
    BY <1>1, <2>2, StopQuietlyKeepsInv DEF CollarStops
  <2>3. CASE SelfTradeStops(p)
    BY <1>1, <2>3, StopQuietlyKeepsInv DEF SelfTradeStops
  <2>4. CASE BandHalts(p)
    BY <2>1, <2>4, BandHaltsKeepsInv
  <2>5. CASE BandStops(p)
    BY <1>1, <2>5, StopQuietlyKeepsInv DEF BandStops, within_band
  <2>6. CASE Fill(p)
    BY <2>6, FillKeepsInv
  <2> QED  BY <1>3, <2>2, <2>3, <2>4, <2>5, <2>6
<1> QED  BY <1>2, <1>3 DEF Walk

-----------------------------------------------------------------------------
(* The remainder *)

\* A product with a positive factor is at least the other factor.
LEMMA ProductAtLeast ==
  ASSUME NEW r \in Nat \ {0}, NEW k \in Nat
  PROVE  r * k \in Nat /\ r * k >= k
  OBVIOUS

\* The edges of a band around a valid reference are valid prices.
LEMMA EdgesValid ==
  ASSUME reference_price \in Nat \ {0}
  PROVE  upper_limit(BandBps) \in Nat \ {0} /\ lower_limit(BandBps) \in Nat \ {0}
<1>0. BandBps \in 1 .. 9999
  BY NumbersInRange
<1>1. PICK above \in Nat : above = 10000 + BandBps /\ above >= 10000
  BY <1>0
<1>2. PICK below \in Nat : below = 10000 - BandBps /\ below >= 1
  BY <1>0
<1>3. PICK r \in Nat \ {0} : r = reference_price
  OBVIOUS
<1>4. r * above \in Nat /\ r * above >= above
  BY ProductAtLeast
<1>5. r * below \in Nat /\ r * below >= below
  BY ProductAtLeast
<1>6. upper_limit(BandBps) = (r * above) \div 10000
  BY <1>1, <1>3 DEF upper_limit
<1>7. lower_limit(BandBps) = (r * below + 9999) \div 10000
  BY <1>2, <1>3 DEF lower_limit
<1>8. \A u \in Nat : u >= 10000 => u \div 10000 \in Nat \ {0}
  OBVIOUS
<1>9. r * above >= 10000 /\ r * below + 9999 \in Nat /\ r * below + 9999 >= 10000
  BY <1>1, <1>2, <1>4, <1>5
<1>10. (r * above) \div 10000 \in Nat \ {0}
  BY <1>4, <1>8, <1>9
<1>11. (r * below + 9999) \div 10000 \in Nat \ {0}
  BY <1>8, <1>9
<1> QED  BY <1>6, <1>7, <1>10, <1>11

\* The remainder of a limit order rests at a valid price, its own or the edge of the band.
LEMMA RestPriceValid ==
  ASSUME CallInv, pc = "settle"
  PROVE  /\ incoming.type = "Limit" => RestPrice \in Int /\ ValidPrice(RestPrice)
         /\ incoming.type = "Market" => RestPrice = None
<1>1. /\ incoming \in Order
      /\ incoming.type = "Limit" => ValidPrice(incoming.price)
      /\ incoming.type = "Market" => incoming.price = None
  BY EntryFacts DEF CallInv, IncomingValid
<1>2. CASE StoppedByBand /\ incoming.type = "Limit"
  <2>1. reference_price \in Nat \ {0}
    BY <1>2 DEF CallInv, ReferenceValid, ValidPrice
  <2>2. upper_limit(BandBps) \in Nat \ {0} /\ lower_limit(BandBps) \in Nat \ {0}
    BY <2>1, EdgesValid
  <2> HIDE DEF upper_limit, lower_limit
  <2>3. RestPrice \in {upper_limit(BandBps), lower_limit(BandBps), incoming.price}
    BY DEF RestPrice
  <2> QED  BY <1>1, <1>2, <2>2, <2>3, NoneIsApart DEF ValidPrice
<1>3. CASE ~(StoppedByBand /\ incoming.type = "Limit")
  <2>1. RestPrice = incoming.price
    BY <1>3 DEF RestPrice
  <2> QED  BY <1>1, <2>1 DEF ValidPrice
<1> QED  BY <1>2, <1>3

\* When add_order_core is done, nothing is in flight and the call goes on to wake stops,
\* to the drain loop or to its end.
LEMMA SettleKeepsCallInv ==
  ASSUME BookInv, Settle, events' \in Seq(EngineEvent), result' \in OrderResult \cup {None}
  PROVE  /\ CallInv'
         /\ StopsInv'
         /\ \A x \in Ids : IsInFlight(x) <=> x = incoming.id
         /\ \A x \in Ids : ~IsInFlight(x)'
         /\ incoming \in Order
         /\ UNCHANGED <<owner_of, stop_ids_seen, dormant, triggered_stops>>
<1>1. StopsInv /\ CallInv
  BY DEF BookInv
<1>2. /\ pc = "settle"
      /\ reference_price' = IF trades = None THEN reference_price ELSE trades.last
      /\ pc' = IF trades # None /\ ~halted THEN "wake" ELSE AfterEntry
      /\ trades' = IF halted THEN None ELSE trades
      /\ incoming' = None
      /\ verdict' = "None"
      /\ breach_level' = None
      /\ UNCHANGED <<owner_of, stop_ids_seen, stopVars, queueVars, bandVars, now, origin>>
  BY DEF Settle
<1>3. incoming \in Order /\ incoming # None
  BY <1>1, <1>2, EntryFacts
<1>4. StopsInv'
  BY <1>1, <1>2, StopsFrame DEF queueVars
<1>5. \A x \in Ids : (IsInFlight(x) <=> x = incoming.id) /\ ~IsInFlight(x)'
  BY <1>2, <1>3 DEF IsInFlight
<1>6. pc' \in {"wake", "fire", "done"} /\ (pc' = "wake" => trades # None /\ ~halted)
      /\ (pc' = "fire" => draining_stops) /\ (pc' = "done" => ~draining_stops)
  BY <1>2 DEF AfterEntry
<1>7. CallInv'
  <2>1. reference_price' \in Prices
    BY <1>1, <1>2 DEF CallInv, BandTypeOK, CallTypeOK, TradeRange, Prices
  <2>2. BandTypeOK'
    BY <1>1, <1>2, <2>1 DEF CallInv, BandTypeOK, bandVars
  <2>3. FlagsTypeOK'
    BY <1>1, <1>2 DEF CallInv, FlagsTypeOK, bandVars, queueVars
  <2>4. CallTypeOK'
    BY <1>1, <1>2, <1>6 DEF CallInv, CallTypeOK, Prices, RejectReason
  <2>5. IncomingValid' /\ ReentryReady' /\ ReplacementHasNode'
    BY <1>2, <1>6 DEF IncomingValid, ReentryReady, ReplacementHasNode
  <2>6. QueueInCall'
    BY <1>1, <1>2, <1>6 DEF CallInv, QueueInCall, queueVars
  <2>7. ReferenceValid'
    BY <1>1, <1>2 DEF CallInv, ReferenceValid, StoppedByBand, ValidPrice
  <2> QED  BY <2>2, <2>3, <2>4, <2>5, <2>6, <2>7 DEF CallInv
<1> QED  BY <1>2, <1>3, <1>4, <1>5, <1>7 DEF stopVars, queueVars

\* An order that is done with, filled or expired, is finished and in no other place.
LEMMA FinishedKeepsPlaces ==
  ASSUME PlacesInv, RestingInv,
         NEW id \in Ids, NEW how \in {"Filled", "Cancelled"},
         IsInFlight(id), \A x \in Ids \ {id} : ~IsInFlight(x),
         \A x \in Ids : ~IsInFlight(x)',
         finished_orders' = [finished_orders EXCEPT ![id] = how],
         UNCHANGED <<resting, owner_of, stop_ids_seen, dormant, triggered_stops>>
  PROVE  PlacesInv'
<1>1. RecordsTypeOK' /\ TriggeredOnce'
  BY DEF PlacesInv, RecordsTypeOK, LifeCycle, TriggeredOnce
<1>2. ASSUME NEW x \in Ids \ {id} PROVE SamePlace(x)
  BY DEF SamePlace, PlacesInv, RecordsTypeOK, IsTriggered
<1>3. OnePlace(id) /\ OwnerAgrees(id)
  BY DEF PlacesInv, LifeCycle, OwnersAgree
<1>4. IsFinished(id)'
  BY DEF IsFinished, PlacesInv, RecordsTypeOK
<1>5. OnePlace(id)' /\ OwnerAgrees(id)'
  BY <1>3, <1>4 DEF OnePlace, OwnerAgrees, IsResting, IsDormant, IsTriggered
<1> QED  BY <1>1, <1>2, <1>5, PlacesChange

\* A filled order is finished.
LEMMA SettleFilledKeepsInv ==
  ASSUME BookInv, SettleFilled
  PROVE  BookInv'
<1>1. RestingInv /\ PlacesInv /\ CallInv
  BY DEF BookInv
<1>2. incoming \in Order /\ incoming # None /\ incoming.id \in Ids
  BY <1>1, EntryFacts DEF SettleFilled, Settle
<1>3. result' \in OrderResult \cup {None}
  <2>1. "None" \in RejectReason /\ None \in Prices
    BY DEF RejectReason, Prices
  <2> QED  BY <1>1, <1>2, <2>1, AnswerEntryType DEF SettleFilled, CallInv
<1>4. events' \in Seq(EngineEvent)
  BY <1>1 DEF SettleFilled, CallInv, CallTypeOK
<1>5. /\ CallInv' /\ StopsInv'
      /\ \A x \in Ids : IsInFlight(x) <=> x = incoming.id
      /\ \A x \in Ids : ~IsInFlight(x)'
      /\ UNCHANGED <<owner_of, stop_ids_seen, dormant, triggered_stops>>
  BY <1>3, <1>4, SettleKeepsCallInv DEF SettleFilled
<1>6. RestingInv'
  BY <1>1, RestingFrame DEF SettleFilled
<1>7. PlacesInv'
  <2>1. PICK id \in Ids : id = incoming.id
    BY <1>2
  <2>2. finished_orders' = [finished_orders EXCEPT ![id] = "Filled"] /\ UNCHANGED resting
    BY <2>1 DEF SettleFilled, bookVars
  <2> QED  BY <1>1, <1>5, <2>1, <2>2, FinishedKeepsPlaces
<1> QED  BY <1>5, <1>6, <1>7 DEF BookInv

\* An expired remainder is finished, recorded as cancelled.
LEMMA SettleExpiresKeepsInv ==
  ASSUME BookInv, SettleExpires
  PROVE  BookInv'
<1>1. RestingInv /\ PlacesInv /\ CallInv
  BY DEF BookInv
<1>2. incoming \in Order /\ incoming # None /\ incoming.id \in Ids /\ incoming.quantity \in Int
  BY <1>1, EntryFacts DEF SettleExpires, Settle, Order
<1>3. result' \in OrderResult \cup {None}
  <2>1. ExpiryReason \in RejectReason /\ None \in Prices
    BY <1>1 DEF CallInv, CallTypeOK, ExpiryReason, RejectReason, Prices
  <2> QED  BY <1>1, <1>2, <2>1, AnswerEntryType DEF SettleExpires, CallInv
<1>4. events' \in Seq(EngineEvent)
  <2>1. PICK price \in Prices : price = RestPrice
    BY <1>1, <1>2, RestPriceValid DEF SettleExpires, Settle, Order, Prices, Types
  <2>2. [incoming EXCEPT !.price = price] \in Order
    BY <1>2 DEF Order
  <2>3. OrderEvent("Expired", [incoming EXCEPT !.price = price]) \in EngineEvent
    BY <2>2, EventTypes DEF EventKind
  <2> QED  BY <1>1, <2>1, <2>3 DEF SettleExpires, Emit, CallInv, CallTypeOK
<1>5. /\ CallInv' /\ StopsInv'
      /\ \A x \in Ids : IsInFlight(x) <=> x = incoming.id
      /\ \A x \in Ids : ~IsInFlight(x)'
      /\ UNCHANGED <<owner_of, stop_ids_seen, dormant, triggered_stops>>
  BY <1>3, <1>4, SettleKeepsCallInv DEF SettleExpires
<1>6. RestingInv'
  BY <1>1, RestingFrame DEF SettleExpires
<1>7. PlacesInv'
  <2>1. PICK id \in Ids : id = incoming.id
    BY <1>2
  <2>2. finished_orders' = [finished_orders EXCEPT ![id] = "Cancelled"] /\ UNCHANGED resting
    BY <2>1 DEF SettleExpires, bookVars
  <2> QED  BY <1>1, <1>5, <2>1, <2>2, FinishedKeepsPlaces
<1> QED  BY <1>5, <1>6, <1>7 DEF BookInv

\* A remainder that rests joins its level.
LEMMA SettleRestsKeepsInv ==
  ASSUME BookInv, SettleRests
  PROVE  BookInv'
<1>1. RestingInv /\ PlacesInv /\ CallInv
  BY DEF BookInv
<1>2. incoming \in Order /\ incoming # None /\ incoming.id \in Ids
  BY <1>1, EntryFacts DEF SettleRests, Settle
<1>3. pc = "settle" /\ incoming.type = "Limit" /\ free_nodes > 0 /\ incoming.quantity > 0
  BY DEF SettleRests, Settle, MayRest
<1>4. PICK price \in Int : price = RestPrice /\ ValidPrice(price)
  BY <1>1, <1>3, RestPriceValid
<1>5. PICK order \in Order : order = [incoming EXCEPT !.price = price]
  BY <1>2 DEF Order, Prices
<1>6. /\ order.id = incoming.id /\ order.owner = incoming.owner /\ order.type = "Limit"
      /\ order.price = price /\ order.quantity > 0 /\ order # None
  BY <1>2, <1>3, <1>5, NoneIsApart DEF Order
<1>7. PICK id \in Ids : id = incoming.id
  BY <1>2
<1>8. /\ Settle
      /\ Rest(order)
      /\ events' = Append(events, OrderEvent("Rested", order))
      /\ AnswerEntry("None", 0, IF StoppedByBand THEN price ELSE None)
      /\ UNCHANGED finished_orders
      /\ resting' = [resting EXCEPT ![id] = order]
  BY <1>4, <1>5, <1>6, <1>7 DEF SettleRests, Emit, Rest
<1>9. result' \in OrderResult \cup {None}
  <2>1. "None" \in RejectReason /\ (IF StoppedByBand THEN price ELSE None) \in Prices
    BY DEF RejectReason, Prices
  <2> QED  BY <1>1, <1>2, <1>8, <2>1, AnswerEntryType DEF CallInv
<1>10. events' \in Seq(EngineEvent)
  <2>1. OrderEvent("Rested", order) \in EngineEvent
    BY EventTypes DEF EventKind
  <2> QED  BY <1>1, <1>8, <2>1 DEF CallInv, CallTypeOK
<1>11. /\ CallInv' /\ StopsInv'
       /\ \A x \in Ids : IsInFlight(x) <=> x = incoming.id
       /\ \A x \in Ids : ~IsInFlight(x)'
       /\ UNCHANGED <<owner_of, stop_ids_seen, dormant, triggered_stops>>
  BY <1>8, <1>9, <1>10, SettleKeepsCallInv
<1>12. /\ IsInFlight(id) /\ OnePlace(id) /\ OwnerAgrees(id)
       /\ ~IsResting(id) /\ ~IsDormant(id) /\ ~IsTriggered(id) /\ ~IsFinished(id)
       /\ owner_of[id] # None
  <2>1. OnePlace(id) /\ OwnerAgrees(id)
    BY <1>1 DEF PlacesInv, LifeCycle, OwnersAgree
  <2> QED  BY <1>7, <1>11, <2>1 DEF OnePlace
<1>13. RestingInv'
  <2>1. resting[order.id] = None
    BY <1>6, <1>7, <1>12 DEF IsResting
  <2>2. BookTypeOK' /\ LevelsAgree'
    BY <1>1, <1>3, <1>6, <1>8, <2>1, RestKeepsLevels DEF RestingInv
  <2>3. RestingValid'
    BY <1>1, <1>4, <1>6, <1>8 DEF RestingInv, BookTypeOK, RestingValid, IsResting, ValidPrice
  <2> QED  BY <2>2, <2>3 DEF RestingInv
<1>14. PlacesInv'
  <2>1. RecordsTypeOK' /\ TriggeredOnce'
    BY <1>1, <1>8, <1>11 DEF PlacesInv, RecordsTypeOK, LifeCycle, TriggeredOnce
  <2>2. ASSUME NEW x \in Ids \ {id} PROVE SamePlace(x)
    BY <1>1, <1>7, <1>8, <1>11 DEF SamePlace, RestingInv, BookTypeOK, IsTriggered
  <2>3. IsResting(id)' /\ resting'[id] = order
    BY <1>1, <1>6, <1>8 DEF IsResting, RestingInv, BookTypeOK
  <2>4. ~IsDormant(id)' /\ ~IsTriggered(id)' /\ ~IsFinished(id)' /\ owner_of'[id] # None
    BY <1>8, <1>11, <1>12 DEF IsDormant, IsTriggered, IsFinished
  <2>5. order.owner = owner_of'[id]
    BY <1>6, <1>11, <1>12 DEF OwnerAgrees
  <2>6. OnePlace(id)' /\ OwnerAgrees(id)'
    BY <1>11, <2>3, <2>4, <2>5 DEF OnePlace, OwnerAgrees, IsTriggered
  <2> QED  BY <1>1, <2>1, <2>2, <2>6, PlacesChange
<1> QED  BY <1>11, <1>13, <1>14 DEF BookInv

-----------------------------------------------------------------------------
(* check_and_trigger_stops *)

\* A stop that is woken leaves the dormant ones for the back of the queue.
LEMMA WakeNextKeepsInv ==
  ASSUME BookInv, NEW id \in Ids, WakeNext(id)
  PROVE  BookInv'
<1>1. RestingInv /\ StopsInv /\ PlacesInv /\ CallInv
  BY DEF BookInv
<1>2. dormant[id] # None /\ dormant[id] \in DormantStop
  BY <1>1 DEF WakeNext, IsNextWoken, Woken, StopsInv, StopsTypeOK
<1>3. PICK stop \in StopOrder : stop = dormant[id].stop
  BY <1>2 DEF DormantStop
<1>4. stop.id = id /\ validate_stop_fields(stop) = "None"
  BY <1>1, <1>2, <1>3 DEF StopsInv, StopsValid, IsDormant
<1>5. /\ pc = "wake"
      /\ triggered_stops' = Append(triggered_stops, stop)
      /\ dormant' = [dormant EXCEPT ![id] = None]
      /\ UNCHANGED <<bookVars, recordVars, next_back_priority, next_front_priority, draining_stops,
                     bandVars, walkVars, reference_price, now, pc, incoming, origin, result, events>>
  BY <1>3 DEF WakeNext
<1>6. /\ triggered_stops \in Seq(StopOrder)
      /\ Len(triggered_stops) \in Nat
      /\ triggered_stops' \in Seq(StopOrder)
      /\ DOMAIN triggered_stops = 1 .. Len(triggered_stops)
      /\ DOMAIN triggered_stops' = 1 .. Len(triggered_stops) + 1
      /\ \A i \in DOMAIN triggered_stops : triggered_stops'[i] = triggered_stops[i]
      /\ triggered_stops'[Len(triggered_stops) + 1] = stop
  <2>1. triggered_stops \in Seq(StopOrder)
    BY <1>1 DEF StopsInv, StopsTypeOK
  <2>2. /\ Append(triggered_stops, stop) \in Seq(StopOrder)
        /\ Len(Append(triggered_stops, stop)) = Len(triggered_stops) + 1
        /\ \A i \in 1 .. Len(triggered_stops) : Append(triggered_stops, stop)[i] = triggered_stops[i]
        /\ Append(triggered_stops, stop)[Len(triggered_stops) + 1] = stop
    BY <2>1, AppendProperties
  <2> QED  BY <1>5, <2>1, <2>2
<1>7. RestingInv'
  BY <1>1, <1>5, RestingFrame
<1>8. StopsInv'
  <2>1. StopsTypeOK'
    BY <1>1, <1>5, <1>6 DEF StopsInv, StopsTypeOK
  <2>2. (\A x \in Ids : IsDormant(x) =>
           dormant[x].stop.id = x /\ validate_stop_fields(dormant[x].stop) = "None")'
    BY <1>1, <1>5 DEF StopsInv, StopsTypeOK, StopsValid, IsDormant, validate_stop_fields
  <2>3. ASSUME NEW i \in DOMAIN triggered_stops' PROVE validate_stop_fields(triggered_stops'[i]) = "None"
    <3>1. CASE i \in DOMAIN triggered_stops
      BY <3>1, <1>1, <1>6 DEF StopsInv, StopsValid
    <3>2. CASE i \notin DOMAIN triggered_stops
      <4>1. i = Len(triggered_stops) + 1
        BY <3>2, <1>6
      <4> QED  BY <4>1, <1>4, <1>6
    <3> QED  BY <3>1, <3>2
  <2>4. StopsValid'
    BY <2>2, <2>3 DEF StopsValid, validate_stop_fields
  <2>5. KeysBetweenCounters' /\ StopKeysUnique'
    BY <1>1, <1>5 DEF StopsInv, StopsTypeOK, KeysBetweenCounters, StopKeysUnique, IsDormant
  <2> QED  BY <2>1, <2>4, <2>5 DEF StopsInv
<1>9. PlacesInv'
  <2>1. UNCHANGED <<finished_orders, owner_of, stop_ids_seen, resting, incoming, pc, origin>>
    BY <1>5 DEF recordVars, bookVars
  <2>2. RecordsTypeOK'
    BY <1>1, <2>1 DEF PlacesInv, RecordsTypeOK
  <2>3. OnePlace(id) /\ OwnerAgrees(id) /\ IsDormant(id) /\ ~IsDormant(id)'
    BY <1>1, <1>2, <1>5 DEF PlacesInv, LifeCycle, OwnersAgree, IsDormant, StopsInv, StopsTypeOK
  <2>4. ~IsTriggered(id) /\ ~IsResting(id) /\ ~IsInFlight(id) /\ ~IsFinished(id)
        /\ owner_of[id] = stop.owner /\ owner_of[id] # None
    BY <1>3, <2>3 DEF OnePlace, OwnerAgrees
  <2>5. \A i \in DOMAIN triggered_stops : triggered_stops[i].id # id
    BY <2>4 DEF IsTriggered
  <2>6. TriggeredOnce'
    <3>1. ASSUME NEW i \in DOMAIN triggered_stops', NEW j \in DOMAIN triggered_stops',
                 triggered_stops'[i].id = triggered_stops'[j].id
          PROVE  i = j
      <4>1. CASE i \in DOMAIN triggered_stops /\ j \in DOMAIN triggered_stops
        BY <4>1, <3>1, <1>1, <1>6 DEF PlacesInv, LifeCycle, TriggeredOnce
      <4>2. CASE i \in DOMAIN triggered_stops /\ j \notin DOMAIN triggered_stops
        <5>1. j = Len(triggered_stops) + 1
          BY <4>2, <1>6
        <5> QED  BY <5>1, <4>2, <3>1, <1>4, <1>6, <2>5
      <4>3. CASE i \notin DOMAIN triggered_stops /\ j \in DOMAIN triggered_stops
        <5>1. i = Len(triggered_stops) + 1
          BY <4>3, <1>6
        <5> QED  BY <5>1, <4>3, <3>1, <1>4, <1>6, <2>5
      <4>4. CASE i \notin DOMAIN triggered_stops /\ j \notin DOMAIN triggered_stops
        BY <4>4, <1>6
      <4> QED  BY <4>1, <4>2, <4>3, <4>4
    <3> QED  BY <3>1 DEF TriggeredOnce
  <2>7. ASSUME NEW x \in Ids \ {id} PROVE SamePlace(x)
    <3>1. \A i \in DOMAIN triggered_stops' : triggered_stops'[i].id = x =>
            i \in DOMAIN triggered_stops /\ triggered_stops[i] = triggered_stops'[i]
      BY <1>4, <1>6
    <3>2. \A i \in DOMAIN triggered_stops : i \in DOMAIN triggered_stops'
      BY <1>6
    <3>3. IsTriggered(x)' <=> IsTriggered(x)
      BY <3>1, <3>2, <1>6 DEF IsTriggered
    <3>4. dormant'[x] = dormant[x]
      BY <1>1, <1>5 DEF StopsInv, StopsTypeOK
    <3>5. IsInFlight(x)' <=> IsInFlight(x)
      BY <2>1 DEF IsInFlight
    <3> QED  BY <2>1, <3>1, <3>3, <3>4, <3>5 DEF SamePlace
  <2>8. IsTriggered(id)'
    <3>1. Len(triggered_stops) + 1 \in DOMAIN triggered_stops'
      BY <1>6
    <3> QED  BY <3>1, <1>4, <1>6 DEF IsTriggered
  <2>9. \A i \in DOMAIN triggered_stops' : triggered_stops'[i].id = id => triggered_stops'[i] = stop
    BY <1>6, <2>5
  <2>10. ~IsResting(id)' /\ ~IsInFlight(id)' /\ ~IsFinished(id)' /\ owner_of'[id] = owner_of[id]
    BY <2>1, <2>4 DEF IsResting, IsInFlight, IsFinished
  <2>11. OnePlace(id)' /\ OwnerAgrees(id)'
    BY <2>3, <2>4, <2>8, <2>9, <2>10 DEF OnePlace, OwnerAgrees
  <2> QED  BY <1>1, <2>2, <2>6, <2>7, <2>11, PlacesChange
<1>10. CallInv'
  <2>1. BandTypeOK'
    BY <1>1, <1>5 DEF CallInv, BandTypeOK, bandVars
  <2>2. FlagsTypeOK'
    BY <1>1, <1>5 DEF CallInv, FlagsTypeOK, bandVars
  <2>3. CallTypeOK'
    BY <1>1, <1>5 DEF CallInv, CallTypeOK, walkVars
  <2>4. IncomingValid' /\ ReentryReady'
    BY <1>5 DEF IncomingValid, ReentryReady
  <2>5. ReplacementHasNode'
    BY <1>1, <1>5 DEF CallInv, ReplacementHasNode, bookVars
  <2>6. QueueInCall'
    BY <1>1, <1>5 DEF QueueInCall
  <2>7. ReferenceValid'
    BY <1>1, <1>5 DEF CallInv, ReferenceValid, StoppedByBand, ValidPrice, walkVars
  <2> QED  BY <2>1, <2>2, <2>3, <2>4, <2>5, <2>6, <2>7 DEF CallInv
<1> QED  BY <1>7, <1>8, <1>9, <1>10 DEF BookInv


\* The loop starts, or the nested call gives it back: nothing moves.
LEMMA WakeEndsKeepsInv ==
  ASSUME BookInv, WakeEnds
  PROVE  BookInv'
<1>1. RestingInv /\ StopsInv /\ PlacesInv /\ CallInv
  BY DEF BookInv
<1>2. /\ pc = "wake" /\ pc' = "fire"
      /\ draining_stops' = TRUE
      /\ trades' = None
      /\ UNCHANGED <<bookVars, recordVars, stopVars, triggered_stops, bandVars, verdict,
                     breach_level, reference_price, now, incoming, origin, result, events>>
  BY DEF WakeEnds
<1>3. incoming = None /\ incoming' = None
  BY <1>1, <1>2 DEF CallInv, CallTypeOK
<1>4. RestingInv' /\ StopsInv'
  BY <1>1, <1>2, RestingFrame, StopsFrame
<1>5. PlacesInv'
  <2>1. \A x \in Ids : ~IsInFlight(x) /\ ~IsInFlight(x)'
    BY <1>3 DEF IsInFlight
  <2> QED  BY <1>1, <1>2, <2>1, PlacesFrame DEF bookVars, stopVars
<1>6. CallInv'
  <2>1. BandTypeOK'
    BY <1>1, <1>2 DEF CallInv, BandTypeOK, bandVars
  <2>2. FlagsTypeOK'
    <3>1. draining_stops' = TRUE
      BY <1>2
    <3>2. draining_stops' \in BOOLEAN
      BY ONLY <3>1, Zenon
    <3>3. halted' = halted /\ halted \in BOOLEAN
      BY <1>1, <1>2 DEF CallInv, FlagsTypeOK, bandVars
    <3>4. halted' \in BOOLEAN
      BY ONLY <3>3, Zenon
    <3> QED  BY <3>2, <3>4 DEF FlagsTypeOK
  <2>3. CallTypeOK'
    BY <1>1, <1>2 DEF CallInv, CallTypeOK
  <2>4. IncomingValid' /\ ReentryReady' /\ ReplacementHasNode'
    BY <1>2, <1>3 DEF IncomingValid, ReentryReady, ReplacementHasNode
  <2>5. QueueInCall'
    BY <1>2 DEF QueueInCall
  <2>6. ReferenceValid'
    BY <1>1, <1>2 DEF CallInv, ReferenceValid, StoppedByBand, ValidPrice
  <2> QED  BY <2>1, <2>2, <2>3, <2>4, <2>5, <2>6 DEF CallInv
<1> QED  BY <1>4, <1>5, <1>6 DEF BookInv

\* A woken stop that fires leaves the queue and is in flight: its order is
\* fit to re-enter, for the stop was valid and the book is not halted.
LEMMA FireNextKeepsInv ==
  ASSUME BookInv, FireNext
  PROVE  BookInv'
<1>1. RestingInv /\ StopsInv /\ PlacesInv /\ CallInv
  BY DEF BookInv
<1>2. triggered_stops \in Seq(StopOrder) /\ triggered_stops # <<>>
  BY <1>1 DEF FireNext, StopsInv, StopsTypeOK
<1>3. PICK n \in Nat : n = Len(triggered_stops) - 1
  BY <1>2
<1>4. PICK stop \in StopOrder : stop = Head(triggered_stops) /\ stop = triggered_stops[1]
  BY <1>2, HeadTailProperties
<1>5. /\ triggered_stops' = Tail(triggered_stops)
      /\ triggered_stops' \in Seq(StopOrder)
      /\ DOMAIN triggered_stops = 1 .. n + 1
      /\ DOMAIN triggered_stops' = 1 .. n
      /\ \A i \in 1 .. n : triggered_stops'[i] = triggered_stops[i + 1]
  <2>1. triggered_stops' = Tail(triggered_stops)
    BY DEF FireNext
  <2>2. /\ Tail(triggered_stops) \in Seq(StopOrder)
        /\ Len(Tail(triggered_stops)) = n
        /\ \A i \in 1 .. n : Tail(triggered_stops)[i] = triggered_stops[i + 1]
    BY <1>2, <1>3, HeadTailProperties
  <2> QED  BY <1>2, <1>3, <2>1, <2>2
<1>6. PICK order : order = [id |-> stop.id, owner |-> stop.owner, side |-> stop.side,
                            type |-> IF stop.limit_price = None THEN "Market" ELSE "Limit",
                            price |-> stop.limit_price, quantity |-> stop.quantity, filled |-> 0]
  OBVIOUS
<1>7. order \in Order /\ order # None /\ order.id = stop.id /\ order.owner = stop.owner
  BY <1>6, NoneIsApart DEF Order, StopOrder, Types
<1>8. /\ pc = "fire" /\ pc' = "enter" /\ ~halted
      /\ incoming' = order /\ origin' = "stop"
      /\ events' = Append(events, StopEvent("StopTriggered", stop))
      /\ UNCHANGED <<bookVars, recordVars, stopVars, draining_stops, bandVars, walkVars,
                     reference_price, now, result>>
  BY <1>4, <1>6 DEF FireNext, Enter, Emit
<1>9. validate_stop_fields(stop) = "None"
  BY <1>1, <1>4, <1>5 DEF StopsInv, StopsValid
<1>10. incoming = None /\ \A x \in Ids : ~IsInFlight(x)
  BY <1>1, <1>8 DEF CallInv, CallTypeOK, IsInFlight
<1>11. PICK id \in Ids : id = stop.id
  BY DEF StopOrder
<1>12. RestingInv'
  BY <1>1, <1>8, RestingFrame
<1>13. StopsInv'
  <2>1. StopsTypeOK'
    BY <1>1, <1>5, <1>8 DEF StopsInv, StopsTypeOK, stopVars
  <2>2. StopsValid'
    <3>1. (\A x \in Ids : IsDormant(x) =>
             dormant[x].stop.id = x /\ validate_stop_fields(dormant[x].stop) = "None")'
      BY <1>1, <1>8 DEF StopsInv, StopsValid, IsDormant, validate_stop_fields, stopVars
    <3>2. ASSUME NEW i \in 1 .. n PROVE validate_stop_fields(triggered_stops'[i]) = "None"
      BY <1>1, <1>5 DEF StopsInv, StopsValid
    <3> QED  BY <3>1, <3>2, <1>5 DEF StopsValid, validate_stop_fields
  <2>3. KeysBetweenCounters' /\ StopKeysUnique'
    BY <1>1, <1>8 DEF StopsInv, KeysBetweenCounters, StopKeysUnique, IsDormant, stopVars
  <2> QED  BY <2>1, <2>2, <2>3 DEF StopsInv
<1>14. PlacesInv'
  <2>1. UNCHANGED <<finished_orders, owner_of, stop_ids_seen, resting, dormant>>
    BY <1>8 DEF recordVars, bookVars, stopVars
  <2>2. RecordsTypeOK'
    BY <1>1, <2>1 DEF PlacesInv, RecordsTypeOK
  <2>3. TriggeredOnce'
    BY <1>1, <1>5 DEF PlacesInv, LifeCycle, TriggeredOnce
  <2>4. IsTriggered(id) /\ OnePlace(id) /\ OwnerAgrees(id)
    BY <1>1, <1>4, <1>5, <1>11 DEF IsTriggered, PlacesInv, LifeCycle, OwnersAgree
  <2>5. ~IsResting(id) /\ ~IsDormant(id) /\ ~IsFinished(id) /\ owner_of[id] # None
    BY <2>4 DEF OnePlace
  <2>6. owner_of[id] = stop.owner
    BY <2>4, <1>4, <1>5, <1>11 DEF OwnerAgrees
  <2>7. ~IsTriggered(id)'
    BY <1>1, <1>4, <1>5, <1>11 DEF IsTriggered, PlacesInv, LifeCycle, TriggeredOnce
  <2>8. IsInFlight(id)'
    BY <1>7, <1>8, <1>11 DEF IsInFlight
  <2>9. ASSUME NEW x \in Ids \ {id} PROVE SamePlace(x)
    <3>1. ASSUME NEW j \in DOMAIN triggered_stops, triggered_stops[j].id = x
          PROVE  \E i \in DOMAIN triggered_stops' : triggered_stops'[i].id = x
      <4>1. j - 1 \in 1 .. n /\ (j - 1) + 1 = j
        BY <3>1, <1>4, <1>5, <1>11
      <4> QED  BY <3>1, <4>1, <1>5
    <3>2. ASSUME NEW i \in DOMAIN triggered_stops'
          PROVE  i + 1 \in DOMAIN triggered_stops /\ triggered_stops[i + 1] = triggered_stops'[i]
      BY <1>5
    <3>3. IsTriggered(x)' <=> IsTriggered(x)
      BY <3>1, <3>2 DEF IsTriggered
    <3>4. ~IsInFlight(x) /\ ~IsInFlight(x)'
      BY <1>7, <1>8, <1>10, <1>11 DEF IsInFlight
    <3> QED  BY <2>1, <3>2, <3>3, <3>4 DEF SamePlace
  <2>10. OnePlace(id)'
    BY <2>1, <2>5, <2>7, <2>8 DEF OnePlace, IsResting, IsDormant, IsFinished
  <2>11. OwnerAgrees(id)'
    <3>1. ~IsResting(id)' /\ ~IsDormant(id)'
      BY <2>1, <2>5 DEF IsResting, IsDormant
    <3>2. incoming'.owner = owner_of'[id]
      BY <2>1, <2>6, <1>7, <1>8
    <3>3. \A i \in DOMAIN triggered_stops' : triggered_stops'[i].id # id
      BY <2>7 DEF IsTriggered
    <3> QED  BY <3>1, <3>2, <3>3 DEF OwnerAgrees
  <2> QED  BY <1>1, <2>2, <2>3, <2>9, <2>10, <2>11, PlacesChange
<1>15. CallInv'
  <2>1. BandTypeOK'
    BY <1>1, <1>8 DEF CallInv, BandTypeOK, bandVars
  <2>2. FlagsTypeOK'
    BY <1>1, <1>8 DEF CallInv, FlagsTypeOK, bandVars
  <2>3. CallTypeOK'
    <3>1. StopEvent("StopTriggered", stop) \in EngineEvent
      BY EventTypes DEF EventKind
    <3>2. events' \in Seq(EngineEvent)
      BY <1>1, <1>8, <3>1 DEF CallInv, CallTypeOK
    <3> QED  BY <1>1, <1>7, <1>8, <3>2 DEF CallInv, CallTypeOK, walkVars
  <2>4. IncomingValid' /\ ReentryReady'
    <3>1. stop.quantity \in Int /\ stop.quantity > 0 /\ order.quantity = stop.quantity
      BY <1>6, <1>9 DEF validate_stop_fields, StopOrder
    <3>2. order.type = "Limit" => ValidPrice(order.price)
      BY <1>6, <1>9 DEF validate_stop_fields, ValidPrice
    <3>3. order.type = "Market" => order.price = None
      BY <1>6
    <3>4. halted' = FALSE \/ ~halted'
      BY <1>8 DEF bandVars
    <3>5. IncomingValid'
      BY <3>1, <3>2, <3>3, <1>8 DEF IncomingValid, ValidPrice
    <3>6. ReentryReady'
      BY <3>1, <3>4, <1>8 DEF ReentryReady
    <3> QED  BY <3>5, <3>6
  <2>5. ReplacementHasNode'
    BY <1>8 DEF ReplacementHasNode
  <2>6. QueueInCall'
    BY <1>1, <1>8 DEF CallInv, QueueInCall
  <2>7. ReferenceValid'
    BY <1>1, <1>8 DEF CallInv, ReferenceValid, StoppedByBand, ValidPrice, walkVars
  <2> QED  BY <2>1, <2>2, <2>3, <2>4, <2>5, <2>6, <2>7 DEF CallInv
<1> QED  BY <1>12, <1>13, <1>14, <1>15 DEF BookInv


\* A stop sent back to a halted book is dormant again, under a key below all
\* the keys in use.
LEMMA SendBackKeepsInv ==
  ASSUME BookInv, SendBack
  PROVE  BookInv'
<1>1. RestingInv /\ StopsInv /\ PlacesInv /\ CallInv
  BY DEF BookInv
<1>2. triggered_stops \in Seq(StopOrder) /\ triggered_stops # <<>>
  BY <1>1 DEF SendBack, StopsInv, StopsTypeOK
<1>3. PICK n \in Nat : n = Len(triggered_stops) - 1
  BY <1>2
<1>4. PICK stop \in StopOrder : stop = Last(triggered_stops) /\ stop = triggered_stops[n + 1]
  <2>1. /\ Last(triggered_stops) \in StopOrder
        /\ Last(triggered_stops) = triggered_stops[Len(triggered_stops)]
    BY <1>2, FrontElements
  <2>2. Len(triggered_stops) = n + 1
    BY <1>2, <1>3
  <2> QED  BY <2>1, <2>2
<1>5. /\ triggered_stops' = Front(triggered_stops)
      /\ triggered_stops' \in Seq(StopOrder)
      /\ DOMAIN triggered_stops = 1 .. n + 1
      /\ DOMAIN triggered_stops' = 1 .. n
      /\ \A i \in 1 .. n : triggered_stops'[i] = triggered_stops[i]
  <2>1. triggered_stops' = Front(triggered_stops)
    BY DEF SendBack
  <2>2. /\ Front(triggered_stops) \in Seq(StopOrder)
        /\ Len(Front(triggered_stops)) = n
        /\ \A i \in 1 .. n : Front(triggered_stops)[i] = triggered_stops[i]
    BY <1>2, <1>3, FrontElements
  <2> QED  BY <1>2, <1>3, <2>1, <2>2
<1>6. PICK id \in Ids : id = stop.id
  BY DEF StopOrder
<1>7. PICK key \in Int : key = next_front_priority
  BY <1>1 DEF StopsInv, StopsTypeOK
<1>8. DormantAt(stop, key) \in DormantStop /\ DormantAt(stop, key) # None
  <2>1. DormantAt(stop, key) \in DormantStop
    BY DEF DormantAt, DormantStop
  <2> QED  BY <2>1, NoneIsApart, Zenon
<1>9. /\ pc = "fire" /\ halted
      /\ dormant' = [dormant EXCEPT ![id] = DormantAt(stop, key)]
      /\ next_front_priority' = key - 1
      /\ UNCHANGED <<bookVars, recordVars, next_back_priority, draining_stops, bandVars, walkVars,
                     reference_price, now, pc, incoming, origin, result, events>>
  BY <1>4, <1>6, <1>7 DEF SendBack, InsertAtFront
<1>10. validate_stop_fields(stop) = "None"
  BY <1>1, <1>4, <1>5 DEF StopsInv, StopsValid
<1>11. RestingInv'
  BY <1>1, <1>9, RestingFrame
<1>12. StopsInv'
  <2>1. StopsTypeOK'
    BY <1>1, <1>5, <1>8, <1>9 DEF StopsInv, StopsTypeOK
  <2>2. StopsValid'
    <3>1. (\A x \in Ids : IsDormant(x) =>
             dormant[x].stop.id = x /\ validate_stop_fields(dormant[x].stop) = "None")'
      BY <1>1, <1>6, <1>9, <1>10
         DEF StopsInv, StopsTypeOK, StopsValid, IsDormant, DormantAt, validate_stop_fields
    <3>2. ASSUME NEW i \in 1 .. n PROVE validate_stop_fields(triggered_stops'[i]) = "None"
      BY <1>1, <1>5 DEF StopsInv, StopsValid
    <3> QED  BY <3>1, <3>2, <1>5 DEF StopsValid, validate_stop_fields
  <2>3. KeysBetweenCounters' /\ StopKeysUnique'
    BY <1>1, <1>7, <1>9
       DEF StopsInv, StopsTypeOK, KeysBetweenCounters, StopKeysUnique, IsDormant, DormantAt, DormantStop
  <2> QED  BY <2>1, <2>2, <2>3 DEF StopsInv
<1>13. PlacesInv'
  <2>1. UNCHANGED <<finished_orders, owner_of, stop_ids_seen, resting, pc, incoming, origin>>
    BY <1>9 DEF recordVars, bookVars
  <2>2. RecordsTypeOK'
    BY <1>1, <2>1 DEF PlacesInv, RecordsTypeOK
  <2>3. TriggeredOnce'
    BY <1>1, <1>5 DEF PlacesInv, LifeCycle, TriggeredOnce
  <2>4. IsTriggered(id) /\ OnePlace(id) /\ OwnerAgrees(id)
    <3>1. n + 1 \in DOMAIN triggered_stops
      BY <1>5
    <3> QED  BY <3>1, <1>1, <1>4, <1>6 DEF IsTriggered, PlacesInv, LifeCycle, OwnersAgree
  <2>5. ~IsResting(id) /\ ~IsInFlight(id) /\ ~IsFinished(id) /\ owner_of[id] # None
    BY <2>4 DEF OnePlace
  <2>6. owner_of[id] = stop.owner
    <3>1. n + 1 \in DOMAIN triggered_stops
      BY <1>5
    <3> QED  BY <3>1, <2>4, <1>4, <1>6 DEF OwnerAgrees
  <2>7. ~IsTriggered(id)'
    <3>1. ASSUME NEW i \in DOMAIN triggered_stops' PROVE triggered_stops'[i].id # id
      <4>1. i \in DOMAIN triggered_stops /\ n + 1 \in DOMAIN triggered_stops /\ i # n + 1
        BY <1>5
      <4>2. triggered_stops[i].id # triggered_stops[n + 1].id
        BY <4>1, <1>1 DEF PlacesInv, LifeCycle, TriggeredOnce
      <4> QED  BY <4>2, <1>4, <1>5, <1>6
    <3> QED  BY <3>1 DEF IsTriggered
  <2>8. IsDormant(id)' /\ dormant'[id].stop = stop
    BY <1>1, <1>8, <1>9 DEF IsDormant, StopsInv, StopsTypeOK, DormantAt
  <2>9. ASSUME NEW x \in Ids \ {id} PROVE SamePlace(x)
    <3>1. ASSUME NEW j \in DOMAIN triggered_stops, triggered_stops[j].id = x
          PROVE  j \in DOMAIN triggered_stops' /\ triggered_stops'[j].id = x
      <4>1. j # n + 1
        BY <3>1, <1>4, <1>6
      <4> QED  BY <3>1, <4>1, <1>5
    <3>2. ASSUME NEW i \in DOMAIN triggered_stops'
          PROVE  i \in DOMAIN triggered_stops /\ triggered_stops[i] = triggered_stops'[i]
      BY <1>5
    <3>3. IsTriggered(x)' <=> IsTriggered(x)
      BY <3>1, <3>2 DEF IsTriggered
    <3>4. dormant'[x] = dormant[x]
      BY <1>1, <1>9 DEF StopsInv, StopsTypeOK
    <3>5. IsInFlight(x)' <=> IsInFlight(x)
      BY <2>1 DEF IsInFlight
    <3> QED  BY <2>1, <3>2, <3>3, <3>4, <3>5 DEF SamePlace
  <2>10. ~IsResting(id)' /\ ~IsInFlight(id)' /\ ~IsFinished(id)' /\ owner_of'[id] = owner_of[id]
    BY <2>1, <2>5 DEF IsResting, IsInFlight, IsFinished
  <2>11. OnePlace(id)'
    BY <2>5, <2>7, <2>8, <2>10 DEF OnePlace
  <2>12. OwnerAgrees(id)'
    <3>1. \A i \in DOMAIN triggered_stops' : triggered_stops'[i].id # id
      BY <2>7 DEF IsTriggered
    <3> QED  BY <3>1, <2>6, <2>8, <2>10 DEF OwnerAgrees
  <2> QED  BY <1>1, <2>2, <2>3, <2>9, <2>11, <2>12, PlacesChange
<1>14. CallInv'
  <2>1. BandTypeOK'
    BY <1>1, <1>9 DEF CallInv, BandTypeOK, bandVars
  <2>2. FlagsTypeOK'
    BY <1>1, <1>9 DEF CallInv, FlagsTypeOK, bandVars
  <2>3. CallTypeOK'
    BY <1>1, <1>9 DEF CallInv, CallTypeOK, walkVars
  <2>4. IncomingValid' /\ ReentryReady'
    BY <1>9 DEF IncomingValid, ReentryReady
  <2>5. ReplacementHasNode'
    BY <1>1, <1>9 DEF CallInv, ReplacementHasNode, bookVars
  <2>6. QueueInCall'
    BY <1>1, <1>9 DEF CallInv, QueueInCall
  <2>7. ReferenceValid'
    BY <1>1, <1>9 DEF CallInv, ReferenceValid, StoppedByBand, ValidPrice, walkVars
  <2> QED  BY <2>1, <2>2, <2>3, <2>4, <2>5, <2>6, <2>7 DEF CallInv
<1> QED  BY <1>11, <1>12, <1>13, <1>14 DEF BookInv

\* The drain loop is over, and its queue empty.
LEMMA FireEndsKeepsInv ==
  ASSUME BookInv, FireEnds
  PROVE  BookInv'
<1>1. RestingInv /\ StopsInv /\ PlacesInv /\ CallInv
  BY DEF BookInv
<1>2. /\ pc = "fire" /\ pc' = "done"
      /\ triggered_stops = <<>>
      /\ draining_stops' = FALSE
      /\ UNCHANGED <<bookVars, recordVars, stopVars, triggered_stops, bandVars, walkVars,
                     reference_price, now, incoming, origin, result, events>>
  BY DEF FireEnds
<1>3. incoming = None /\ incoming' = None
  BY <1>1, <1>2 DEF CallInv, CallTypeOK
<1>4. RestingInv' /\ StopsInv'
  BY <1>1, <1>2, RestingFrame, StopsFrame
<1>5. PlacesInv'
  <2>1. \A x \in Ids : ~IsInFlight(x) /\ ~IsInFlight(x)'
    BY <1>3 DEF IsInFlight
  <2> QED  BY <1>1, <1>2, <2>1, PlacesFrame DEF bookVars, stopVars
<1>6. CallInv'
  <2>1. BandTypeOK'
    BY <1>1, <1>2 DEF CallInv, BandTypeOK, bandVars
  <2>2. FlagsTypeOK'
    <3>1. draining_stops' = FALSE
      BY <1>2
    <3>2. draining_stops' \in BOOLEAN
      BY ONLY <3>1, Zenon
    <3>3. halted' = halted /\ halted \in BOOLEAN
      BY <1>1, <1>2 DEF CallInv, FlagsTypeOK, bandVars
    <3>4. halted' \in BOOLEAN
      BY ONLY <3>3, Zenon
    <3> QED  BY <3>2, <3>4 DEF FlagsTypeOK
  <2>3. CallTypeOK'
    BY <1>1, <1>2 DEF CallInv, CallTypeOK, walkVars
  <2>4. IncomingValid' /\ ReentryReady' /\ ReplacementHasNode'
    BY <1>2, <1>3 DEF IncomingValid, ReentryReady, ReplacementHasNode
  <2>5. QueueInCall'
    BY <1>2 DEF QueueInCall
  <2>6. ReferenceValid'
    BY <1>1, <1>2 DEF CallInv, ReferenceValid, StoppedByBand, ValidPrice, walkVars
  <2> QED  BY <2>1, <2>2, <2>3, <2>4, <2>5, <2>6 DEF CallInv
<1> QED  BY <1>4, <1>5, <1>6 DEF BookInv

\* The worker has the result and the events; the book is as the call left it.
LEMMA ReturnKeepsInv ==
  ASSUME BookInv, Return
  PROVE  BookInv'
<1>1. RestingInv /\ StopsInv /\ PlacesInv /\ CallInv
  BY DEF BookInv
<1>2. /\ pc = "done" /\ pc' = "idle"
      /\ origin' = "new" /\ result' = None /\ events' = <<>>
      /\ UNCHANGED <<bookVars, recordVars, stopVars, queueVars, bandVars, walkVars,
                     reference_price, now, incoming>>
  BY DEF Return
<1>3. incoming = None /\ incoming' = None
  BY <1>1, <1>2 DEF CallInv, CallTypeOK
<1>4. RestingInv' /\ StopsInv'
  BY <1>1, <1>2, RestingFrame, StopsFrame DEF queueVars
<1>5. PlacesInv'
  <2>1. \A x \in Ids : ~IsInFlight(x) /\ ~IsInFlight(x)'
    BY <1>3 DEF IsInFlight
  <2> QED  BY <1>1, <1>2, <2>1, PlacesFrame DEF bookVars, stopVars, queueVars
<1>6. CallInv'
  <2>1. BandTypeOK'
    BY <1>1, <1>2 DEF CallInv, BandTypeOK, bandVars
  <2>2. FlagsTypeOK'
    BY <1>1, <1>2 DEF CallInv, FlagsTypeOK, bandVars, queueVars
  <2>3. CallTypeOK'
    BY <1>1, <1>2 DEF CallInv, CallTypeOK, walkVars
  <2>4. IncomingValid' /\ ReentryReady' /\ ReplacementHasNode'
    BY <1>2, <1>3 DEF IncomingValid, ReentryReady, ReplacementHasNode
  <2>5. QueueInCall'
    BY <1>1, <1>2 DEF CallInv, QueueInCall, queueVars
  <2>6. ReferenceValid'
    BY <1>1, <1>2 DEF CallInv, ReferenceValid, StoppedByBand, ValidPrice, walkVars
  <2> QED  BY <2>1, <2>2, <2>3, <2>4, <2>5, <2>6 DEF CallInv
<1> QED  BY <1>4, <1>5, <1>6 DEF BookInv


-----------------------------------------------------------------------------
(* Every step, and what follows *)

\* Every step of a call that has begun preserves BookInv.
LEMMA StepKeepsInv ==
  ASSUME BookInv, Step
  PROVE  BookInv'
<1>1. CASE EnterRefused
  BY <1>1, EnterRefusedKeepsInv
<1>2. CASE EnterAccepted
  BY <1>2, EnterAcceptedKeepsInv
<1>3. CASE Walk
  BY <1>3, WalkKeepsInv
<1>4. CASE SettleFilled
  BY <1>4, SettleFilledKeepsInv
<1>5. CASE SettleRests
  BY <1>5, SettleRestsKeepsInv
<1>6. CASE SettleExpires
  BY <1>6, SettleExpiresKeepsInv
<1>7. CASE \E id \in Ids : WakeNext(id)
  BY <1>7, WakeNextKeepsInv
<1>8. CASE WakeEnds
  BY <1>8, WakeEndsKeepsInv
<1>9. CASE FireNext
  BY <1>9, FireNextKeepsInv
<1>10. CASE SendBack
  BY <1>10, SendBackKeepsInv
<1>11. CASE FireEnds
  BY <1>11, FireEndsKeepsInv
<1>12. CASE Return
  BY <1>12, ReturnKeepsInv
<1> QED
  BY <1>1, <1>2, <1>3, <1>4, <1>5, <1>6, <1>7, <1>8, <1>9, <1>10, <1>11, <1>12 DEF Step

\* Every call, every step of a call and every stutter preserves BookInv.
LEMMA NextKeepsInv == BookInv /\ [Next]_vars => BookInv'
<1> SUFFICES ASSUME BookInv, [Next]_vars PROVE BookInv'
  OBVIOUS
<1>1. CASE Step
  BY <1>1, StepKeepsInv
<1>2. ASSUME NEW t \in Times, OrderCall(t) PROVE BookInv'
  BY <1>2, OrderCallKeepsInv
<1>3. ASSUME NEW t \in Times, StopCall(t) PROVE BookInv'
  BY <1>3, StopCallKeepsInv
<1>4. CASE UNCHANGED vars
  <2>1. RestingInv /\ StopsInv /\ PlacesInv /\ CallInv
    BY DEF BookInv
  <2>2. /\ UNCHANGED <<bookVars, recordVars, stopVars, queueVars, bandVars, walkVars>>
        /\ UNCHANGED <<reference_price, now, pc, incoming, origin, result, events>>
    BY <1>4 DEF vars
  <2>3. RestingInv' /\ StopsInv'
    BY <2>1, <2>2, RestingFrame, StopsFrame DEF queueVars
  <2>4. PlacesInv'
    <3>1. \A x \in Ids : IsInFlight(x)' <=> IsInFlight(x)
      BY <2>2 DEF IsInFlight
    <3> QED  BY <2>1, <2>2, <3>1, PlacesFrame DEF bookVars, stopVars, queueVars
  <2>5. CallInv'
    <3>1. BandTypeOK'
      BY <2>1, <2>2 DEF CallInv, BandTypeOK, bandVars
    <3>2. FlagsTypeOK'
      BY <2>1, <2>2 DEF CallInv, FlagsTypeOK, bandVars, queueVars
    <3>3. CallTypeOK'
      BY <2>1, <2>2 DEF CallInv, CallTypeOK, walkVars
    <3>4. IncomingValid'
      BY <2>1, <2>2 DEF CallInv, IncomingValid, ValidPrice
    <3>5. ReentryReady'
      BY <2>1, <2>2 DEF CallInv, ReentryReady, bandVars
    <3>6. QueueInCall'
      BY <2>1, <2>2 DEF CallInv, QueueInCall, queueVars
    <3>7. ReferenceValid'
      BY <2>1, <2>2 DEF CallInv, ReferenceValid, StoppedByBand, ValidPrice, walkVars
    <3>8. ReplacementHasNode'
      BY <2>1, <2>2 DEF CallInv, ReplacementHasNode, bookVars
    <3> QED  BY <3>1, <3>2, <3>3, <3>4, <3>5, <3>6, <3>7, <3>8 DEF CallInv
  <2> QED  BY <2>3, <2>4, <2>5 DEF BookInv
<1> QED  BY <1>1, <1>2, <1>3, <1>4 DEF Next

\* BookInv, which strengthens each of the properties below to something every
\* step of a call preserves, holds in every state of the book.
THEOREM BookInvariant == Spec => []BookInv
  BY InitEstablishesInv, NextKeepsInv, PTL DEF Spec

\* Every variable of the book keeps its type, through every call.
THEOREM TypeCorrect == Spec => []TypeOK
<1>1. BookInv => TypeOK
  BY DEF BookInv, RestingInv, StopsInv, PlacesInv, CallInv, TypeOK
<1> QED  BY <1>1, BookInvariant, PTL

\* The levels and the index of resting orders agree after every fill, rest,
\* cancel and modify: check_invariants without its last line.
THEOREM LevelsAlwaysAgree == Spec => []LevelsAgree
<1>1. BookInv => LevelsAgree
  BY DEF BookInv, RestingInv
<1> QED  BY <1>1, BookInvariant, PTL

\* No path of a call loses an accepted order or stop, or leaves one in two
\* places: not a fill, a modify, a cascade, nor a halt in the middle of one.
THEOREM NothingLostOrDoubled == Spec => []LifeCycle
<1>1. BookInv => LifeCycle
  BY DEF BookInv, PlacesInv
<1> QED  BY <1>1, BookInvariant, PTL

\* Who owns an id by owner_of_ is who owns the order or stop under it, so
\* owned_by lets nobody else cancel or modify it.
THEOREM OwnersAlwaysAgree == Spec => []OwnersAgree
<1>1. BookInv => OwnersAgree
  BY DEF BookInv, PlacesInv
<1> QED  BY <1>1, BookInvariant, PTL

\* The validation of add_order_core never refuses a replacement or a fired
\* stop, which it could only drop without an event.
THEOREM ReentryAlwaysAccepted == Spec => []ReentryNeverRefused
  BY ReentryAccepted, BookInvariant, PTL

\* The keys that place_stop_order, modify_stop_order and the drain loop give
\* to dormant stops are distinct, from the back and from the front.
THEOREM StopKeysAlwaysUnique == Spec => []StopKeysUnique
<1>1. BookInv => StopKeysUnique
  BY DEF BookInv, StopsInv
<1> QED  BY <1>1, BookInvariant, PTL

\* A replacement finds a free node: the one modify_order gave back.
THEOREM ReplacementAlwaysHasNode == Spec => []ReplacementHasNode
<1>1. BookInv => ReplacementHasNode
  BY DEF BookInv, CallInv
<1> QED  BY <1>1, BookInvariant, PTL

=============================================================================
