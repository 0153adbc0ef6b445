------------------------- MODULE MatchingStateProofs -------------------------
(***************************************************************************)
(* Proofs about the order book, for every number of clients, prices,       *)
(* quantities and commands.                                                *)
(***************************************************************************)
EXTENDS MatchingState, SequenceTheorems, FiniteSetTheorems, TLAPS

-----------------------------------------------------------------------------
(* Induction and recursion over an initial segment of the natural numbers, *)
(* stated of sets and functions.                                           *)

\* A set that holds 0 and with each number below l the next one holds all up to
\* l: the numbers up to which it has no gap are as many as the last of them.
LEMMA CountingUp ==
  ASSUME NEW l \in Nat, NEW S, 0 \in S, \A n \in 0..(l - 1) : n \in S => n + 1 \in S
  PROVE  \A n \in 0..l : n \in S
<1> DEFINE T == {n \in 1..l : \A j \in 0..n : j \in S}
           c == Cardinality(T)
<1>1. IsFiniteSet(1..l) /\ Cardinality(1..l) = l
  BY FS_Interval
<1>2. T \in SUBSET (1..l)
  OBVIOUS
<1>3. IsFiniteSet(T) /\ c \in Nat /\ c <= l
  <2> HIDE DEF T
  <2> QED BY <1>1, <1>2, FS_Subset, FS_CardinalityType
<1>4. ASSUME NEW i \in T PROVE i \in 1..c
  <2>1. i \in Nat /\ i >= 1 /\ i \in 1..l
    OBVIOUS
  <2>2. 1..i \in SUBSET T
    OBVIOUS
  <2> HIDE DEF T
  <2>3. Cardinality(1..i) = i
    BY <2>1, FS_Interval
  <2>4. Cardinality(1..i) <= c
    BY <1>3, <2>2, FS_Subset
  <2> HIDE DEF c
  <2> QED BY <2>1, <2>3, <2>4, <1>3
<1>5. T = 1..c
  <2>1. T \in SUBSET (1..c)
    BY <1>4
  <2> HIDE DEF T
  <2>2. IsFiniteSet(1..c) /\ Cardinality(1..c) = c
    BY <1>3, FS_Interval
  <2> QED BY <2>1, <2>2, FS_Subset
<1> HIDE DEF c
<1>6. \A j \in 0..c : j \in S
  <2>1. CASE c = 0
    BY <2>1
  <2>2. CASE c # 0
    <3>1. c \in T
      BY <2>2, <1>3, <1>5
    <3> QED BY <3>1
  <2> QED BY <2>1, <2>2
<1>7. c = l
  <2> SUFFICES ASSUME c < l PROVE FALSE
    BY <1>3
  <2>1. c + 1 \in S
    BY <1>3, <1>6
  <2>2. \A j \in 0..(c + 1) : j \in S
    <3> SUFFICES ASSUME NEW j \in 0..(c + 1) PROVE j \in S
      OBVIOUS
    <3>1. j = c + 1 \/ j \in 0..c
      BY <1>3
    <3> QED BY <3>1, <2>1, <1>6
  <2>3. c + 1 \in T
    BY <2>2, <1>3
  <2>4. c + 1 \notin 1..c
    BY <1>3
  <2> HIDE DEF T
  <2> QED BY <2>3, <2>4, <1>5
<1> QED BY <1>6, <1>7

-----------------------------------------------------------------------------
(* The inductive invariant: what holds of the books and the index after    *)
(* every step, and where the sequence numbers in use stand.                *)

BookTyped ==
  /\ DOMAIN orderBooks \subseteq LevelKeys
  /\ \A k \in DOMAIN orderBooks : orderBooks[k] \in PriceLevels
  /\ DOMAIN activeOrders \subseteq OrderIds
  /\ \A o \in DOMAIN activeOrders : activeOrders[o] \in ActiveOrders

BookInv ==
  /\ BookTyped
  /\ IndexMatchesBook
  /\ TimePriority
  /\ AggregateBounded
  /\ BookUncrossed

\* OrderIds in use are sequence numbers of earlier commands; the command being
\* matched does not rest yet.
SequencesInUse ==
  /\ \A o \in DOMAIN activeOrders : o <= sequence
  /\ phase = "matching" => sequence \in OrderIds /\ sequence \notin DOMAIN activeOrders

IInv == TypeOK /\ BookInv /\ SequencesInUse

-----------------------------------------------------------------------------
(* Lemmas on queues.                                                       *)

\* A sequence without its element i keeps the others in their order.
LEMMA RemoveAtProperties ==
  ASSUME NEW S, NEW s \in Seq(S), NEW i \in 1..Len(s)
  PROVE  /\ RemoveAt(s, i) \in Seq(S)
         /\ Len(RemoveAt(s, i)) = Len(s) - 1
         /\ \A j \in 1..(Len(s) - 1) : RemoveAt(s, i)[j] = s[IF j < i THEN j ELSE j + 1]
<1> DEFINE a == SubSeq(s, 1, i - 1)
           b == SubSeq(s, i + 1, Len(s))
<1>1. Len(s) \in Nat /\ \A j \in 1..Len(s) : s[j] \in S
  BY LenProperties, ElementOfSeq
<1>2. a \in Seq(S) /\ Len(a) = i - 1 /\ \A j \in 1..(i - 1) : a[j] = s[j]
  BY <1>1, SubSeqProperties
<1>3. b \in Seq(S) /\ Len(b) = Len(s) - i /\ \A j \in 1..(Len(s) - i) : b[j] = s[i + j]
  BY <1>1, SubSeqProperties
<1>4. /\ a \o b \in Seq(S)
      /\ Len(a \o b) = Len(a) + Len(b)
      /\ \A j \in 1..(Len(a) + Len(b)) : (a \o b)[j] = IF j <= Len(a) THEN a[j] ELSE b[j - Len(a)]
  BY <1>2, <1>3, ConcatProperties
<1>5. RemoveAt(s, i) = a \o b
  BY DEF RemoveAt
<1>6. ASSUME NEW j \in 1..(Len(s) - 1)
      PROVE  (a \o b)[j] = s[IF j < i THEN j ELSE j + 1]
  <2> HIDE DEF a, b
  <2>1. CASE j < i
    BY <2>1, <1>1, <1>2, <1>3, <1>4
  <2>2. CASE ~(j < i)
    <3>1. (a \o b)[j] = b[j - (i - 1)] /\ j - (i - 1) \in 1..(Len(s) - i)
      BY <2>2, <1>1, <1>2, <1>3, <1>4
    <3>2. b[j - (i - 1)] = s[i + (j - (i - 1))]
      BY <3>1, <1>3
    <3>3. i + (j - (i - 1)) = j + 1
      BY <1>1
    <3> QED BY <3>1, <3>2, <3>3, <2>2
  <2> QED BY <2>1, <2>2
<1> HIDE DEF a, b
<1>7. Len(a \o b) = Len(s) - 1
  BY <1>1, <1>2, <1>3, <1>4
<1>8. \A j \in 1..(Len(s) - 1) : (a \o b)[j] = s[IF j < i THEN j ELSE j + 1]
  BY <1>6
<1> QED BY ONLY <1>4, <1>5, <1>7, <1>8

-----------------------------------------------------------------------------
(* Lemmas on the three changes a handler makes to the books: a node leaves *)
(* its queue, the front node is partly filled, a node joins a queue.       *)

\* What IndexMatchesBook says of one node of level k.
NodeIndexed(k, node, active) ==
  /\ node.remainingQuantity > 0
  /\ node.orderId \in DOMAIN active
  /\ active[node.orderId] = [owner |-> node.owner, side |-> k.side, price |-> k.price,
                             remainingQuantity |-> node.remainingQuantity]

\* Facts about a level of a book that satisfies the invariant.
LEMMA LevelFacts ==
  ASSUME BookInv, NEW k \in DOMAIN orderBooks
  PROVE  /\ k \in LevelKeys
         /\ k = [side |-> k.side, price |-> k.price]
         /\ orderBooks[k].totalQuantity \in Nat
         /\ orderBooks[k].orders \in Seq(OrderNodes)
         /\ orderBooks[k].orders # <<>>
         /\ Len(orderBooks[k].orders) \in Nat
         /\ DOMAIN orderBooks[k].orders = 1..Len(orderBooks[k].orders)
         /\ \A i \in 1..Len(orderBooks[k].orders) :
              /\ orderBooks[k].orders[i] \in OrderNodes
              /\ NodeIndexed(k, orderBooks[k].orders[i], activeOrders)
<1>1. k \in LevelKeys /\ orderBooks[k] \in PriceLevels
  BY DEF BookInv, BookTyped
<1>2. k = [side |-> k.side, price |-> k.price]
  BY <1>1 DEF LevelKeys
<1>3. orderBooks[k].orders \in Seq(OrderNodes) /\ orderBooks[k].totalQuantity \in Nat
  BY <1>1 DEF PriceLevels
<1>4. /\ Len(orderBooks[k].orders) \in Nat
      /\ DOMAIN orderBooks[k].orders = 1..Len(orderBooks[k].orders)
  BY <1>3, LenProperties
<1>5. \A i \in 1..Len(orderBooks[k].orders) : orderBooks[k].orders[i] \in OrderNodes
  BY <1>3, ElementOfSeq
<1>6. /\ orderBooks[k].orders # <<>>
      /\ \A i \in 1..Len(orderBooks[k].orders) : NodeIndexed(k, orderBooks[k].orders[i], activeOrders)
  BY <1>4 DEF BookInv, IndexMatchesBook, NodeIndexed
<1> QED BY <1>1, <1>2, <1>3, <1>4, <1>5, <1>6

\* An OrderId occurs once in the books.
LEMMA NodesAreUnique ==
  ASSUME BookInv,
         NEW k \in DOMAIN orderBooks, NEW i \in 1..Len(orderBooks[k].orders),
         NEW l \in DOMAIN orderBooks, NEW j \in 1..Len(orderBooks[l].orders),
         orderBooks[k].orders[i].orderId = orderBooks[l].orders[j].orderId
  PROVE  k = l /\ i = j
<1>1. k = [side |-> k.side, price |-> k.price] /\ l = [side |-> l.side, price |-> l.price]
  BY LevelFacts
<1>2. k.side = l.side /\ k.price = l.price
  <2> DEFINE x == orderBooks[k].orders[i]
             y == orderBooks[l].orders[j]
  <2>1. NodeIndexed(k, x, activeOrders) /\ NodeIndexed(l, y, activeOrders) /\ x.orderId = y.orderId
    BY LevelFacts
  <2> HIDE DEF x, y
  <2>2. /\ activeOrders[x.orderId].side = k.side /\ activeOrders[x.orderId].price = k.price
        /\ activeOrders[y.orderId].side = l.side /\ activeOrders[y.orderId].price = l.price
    BY <2>1 DEF NodeIndexed
  <2> QED BY <2>1, <2>2
<1>3. k = l
  BY <1>1, <1>2
<1>4. /\ orderBooks[k].orders[i].orderId \in Int
      /\ orderBooks[k].orders[j].orderId \in Int
      /\ Len(orderBooks[k].orders) \in Nat
      /\ DOMAIN orderBooks[k].orders = 1..Len(orderBooks[k].orders)
  BY <1>3, LevelFacts DEF OrderNodes, OrderIds
<1>5. /\ i \in DOMAIN orderBooks[k].orders /\ j \in DOMAIN orderBooks[k].orders
      /\ i \in Int /\ j \in Int
      /\ orderBooks[k].orders[i].orderId = orderBooks[k].orders[j].orderId
  BY <1>3, <1>4
<1>6. i = j
  <2>1. ~(i < j) /\ ~(j < i)
    BY <1>4, <1>5 DEF BookInv, TimePriority
  <2> QED BY <2>1, <1>5
<1> QED BY <1>3, <1>6

\* The place of an active order in the books.
LEMMA OrderHasNode ==
  ASSUME BookInv, NEW o \in DOMAIN activeOrders
  PROVE  \E k \in DOMAIN orderBooks :
           /\ k = [side |-> activeOrders[o].side, price |-> activeOrders[o].price]
           /\ \E i \in 1..Len(orderBooks[k].orders) : orderBooks[k].orders[i].orderId = o
<1> DEFINE k == [side |-> activeOrders[o].side, price |-> activeOrders[o].price]
<1>1. /\ k \in DOMAIN orderBooks
      /\ \E i \in DOMAIN orderBooks[k].orders : orderBooks[k].orders[i].orderId = o
  BY DEF BookInv, IndexMatchesBook
<1>2. DOMAIN orderBooks[k].orders = 1..Len(orderBooks[k].orders)
  BY <1>1, LevelFacts
<1> QED BY <1>1, <1>2

\* A node leaves its queue and its order leaves the index: a fill or a cancellation.
LEMMA RemoveNode ==
  ASSUME BookInv,
         NEW k \in DOMAIN orderBooks, NEW i \in 1..Len(orderBooks[k].orders),
         NEW total \in Nat, total <= orderBooks[k].totalQuantity,
         NEW rest \in Seq(OrderNodes),
         Len(rest) = Len(orderBooks[k].orders) - 1,
         \A j \in 1..(Len(orderBooks[k].orders) - 1) :
           rest[j] = orderBooks[k].orders[IF j < i THEN j ELSE j + 1],
         SetLevel(k, [totalQuantity |-> total, orders |-> rest]),
         Deactivate(orderBooks[k].orders[i].orderId)
  PROVE  BookInv' /\ DOMAIN activeOrders' \subseteq DOMAIN activeOrders
<1> DEFINE q == orderBooks[k].orders
           id == q[i].orderId
           n == Len(q)
           at(j) == IF j < i THEN j ELSE j + 1
<1>1. /\ n \in Nat /\ DOMAIN q = 1..n /\ k \in LevelKeys
      /\ k = [side |-> k.side, price |-> k.price]
  BY LevelFacts
<1>2. DOMAIN rest = 1..(n - 1)
  BY LenProperties
<1>3. \A j \in 1..(n - 1) : at(j) \in 1..n /\ at(j) # i /\ rest[j] = q[at(j)]
  BY <1>1
<1>4. \A j, l \in 1..(n - 1) : j < l => at(j) < at(l)
  BY <1>1
<1>5. \A m \in 1..n : m # i => \E j \in 1..(n - 1) : at(j) = m
  <2> SUFFICES ASSUME NEW m \in 1..n, m # i
               PROVE  \E j \in 1..(n - 1) : at(j) = m
    OBVIOUS
  <2>1. CASE m < i
    BY <2>1, <1>1
  <2>2. CASE m > i
    <3>1. m - 1 \in 1..(n - 1) /\ at(m - 1) = m
      BY <2>2, <1>1
    <3> QED BY <3>1
  <2> QED BY <2>1, <2>2, <1>1
<1> HIDE DEF at
<1>6. /\ DOMAIN activeOrders' = DOMAIN activeOrders \ {id}
      /\ \A o \in DOMAIN activeOrders' : activeOrders'[o] = activeOrders[o]
  BY DEF Deactivate
<1>7. /\ DOMAIN orderBooks' = IF rest = <<>> THEN DOMAIN orderBooks \ {k} ELSE DOMAIN orderBooks
      /\ \A l \in DOMAIN orderBooks' :
           orderBooks'[l] = IF l = k THEN [totalQuantity |-> total, orders |-> rest] ELSE orderBooks[l]
  BY DEF SetLevel
<1>8. BookTyped'
  <2>1. [totalQuantity |-> total, orders |-> rest] \in PriceLevels
    BY DEF PriceLevels
  <2> QED BY <2>1, <1>6, <1>7 DEF BookTyped, BookInv
<1>9. AggregateBounded'
  BY <1>7, LevelFacts, ConstantsAssumption DEF AggregateBounded, BookInv
<1>10. BookUncrossed'
  BY <1>6 DEF BookUncrossed, BookInv
<1>11. TimePriority'
  <2> SUFFICES ASSUME NEW l \in DOMAIN orderBooks',
                      NEW a \in DOMAIN orderBooks'[l].orders,
                      NEW b \in DOMAIN orderBooks'[l].orders, a < b
               PROVE  orderBooks'[l].orders[a].orderId < orderBooks'[l].orders[b].orderId
    BY DEF TimePriority
  <2>1. CASE l = k
    <3>1. orderBooks'[l].orders = rest
      BY <2>1, <1>7
    <3>2. /\ a \in 1..(n - 1) /\ b \in 1..(n - 1)
          /\ at(a) \in 1..n /\ at(b) \in 1..n /\ at(a) < at(b)
          /\ rest[a] = q[at(a)] /\ rest[b] = q[at(b)]
      BY <3>1, <1>2, <1>3, <1>4
    <3> QED BY <3>1, <3>2, <1>1 DEF BookInv, TimePriority
  <2>2. CASE l # k
    BY <2>2, <1>7 DEF BookInv, TimePriority
  <2> QED BY <2>1, <2>2
<1>12. ASSUME NEW l \in DOMAIN orderBooks'
       PROVE  /\ orderBooks'[l].orders # <<>>
              /\ \A j \in DOMAIN orderBooks'[l].orders :
                   NodeIndexed(l, orderBooks'[l].orders[j], activeOrders')
  <2>1. CASE l = k
    <3>1. orderBooks'[l].orders = rest /\ rest # <<>>
      BY <2>1, <1>7
    <3>2. ASSUME NEW j \in DOMAIN rest
          PROVE  NodeIndexed(k, rest[j], activeOrders')
      <4>1. j \in 1..(n - 1) /\ at(j) \in 1..n /\ at(j) # i /\ rest[j] = q[at(j)]
        BY <1>2, <1>3
      <4>2. NodeIndexed(k, q[at(j)], activeOrders)
        BY <4>1, LevelFacts
      <4>3. q[at(j)].orderId # id
        BY <4>1, NodesAreUnique
      <4> QED BY <4>1, <4>2, <4>3, <1>6 DEF NodeIndexed
    <3> QED BY <3>1, <3>2, <2>1
  <2>2. CASE l # k
    <3>1. l \in DOMAIN orderBooks /\ orderBooks'[l] = orderBooks[l]
      BY <2>2, <1>7
    <3>2. ASSUME NEW j \in DOMAIN orderBooks[l].orders
          PROVE  NodeIndexed(l, orderBooks[l].orders[j], activeOrders')
      <4>1. j \in 1..Len(orderBooks[l].orders) /\ NodeIndexed(l, orderBooks[l].orders[j], activeOrders)
        BY <3>1, LevelFacts
      <4>2. orderBooks[l].orders[j].orderId # id
        BY <4>1, <3>1, <2>2, NodesAreUnique
      <4> QED BY <4>1, <4>2, <1>6 DEF NodeIndexed
    <3> QED BY <3>1, <3>2, LevelFacts
  <2> QED BY <2>1, <2>2
<1>13. ASSUME NEW o \in DOMAIN activeOrders'
       PROVE  \E l \in DOMAIN orderBooks' :
                /\ l = [side |-> activeOrders'[o].side, price |-> activeOrders'[o].price]
                /\ \E j \in DOMAIN orderBooks'[l].orders : orderBooks'[l].orders[j].orderId = o
  <2>1. o \in DOMAIN activeOrders /\ o # id /\ activeOrders'[o] = activeOrders[o]
    BY <1>6
  <2>2. PICK l \in DOMAIN orderBooks :
          /\ l = [side |-> activeOrders[o].side, price |-> activeOrders[o].price]
          /\ \E j \in 1..Len(orderBooks[l].orders) : orderBooks[l].orders[j].orderId = o
    BY <2>1, OrderHasNode
  <2>3. PICK m \in 1..Len(orderBooks[l].orders) : orderBooks[l].orders[m].orderId = o
    BY <2>2
  <2>4. CASE l = k
    <3>1. m \in 1..n /\ m # i
      BY <2>1, <2>3, <2>4
    <3>2. PICK j \in 1..(n - 1) : at(j) = m
      BY <3>1, <1>5
    <3>3. j \in DOMAIN rest /\ rest[j].orderId = o /\ rest # <<>>
      BY <3>2, <1>2, <1>3, <2>3, <2>4, EmptySeq
    <3>4. l \in DOMAIN orderBooks' /\ orderBooks'[l].orders = rest
      BY <3>3, <1>7, <2>4
    <3> QED BY <3>3, <3>4, <2>1, <2>2
  <2>5. CASE l # k
    <3>1. l \in DOMAIN orderBooks' /\ orderBooks'[l] = orderBooks[l]
      BY <2>5, <1>7
    <3>2. DOMAIN orderBooks[l].orders = 1..Len(orderBooks[l].orders)
      BY LevelFacts
    <3> QED BY <3>1, <3>2, <2>1, <2>2, <2>3
  <2> QED BY <2>4, <2>5
<1>14. BookInv'
  BY <1>8, <1>9, <1>10, <1>11, <1>12, <1>13 DEF BookInv, IndexMatchesBook, NodeIndexed
<1> QED BY <1>14, <1>6

\* The front node of a queue is partly filled.
LEMMA ShrinkFront ==
  ASSUME BookInv,
         NEW k \in DOMAIN orderBooks,
         NEW total \in Nat, total <= orderBooks[k].totalQuantity,
         NEW left \in Nat, left > 0,
         LET q == orderBooks[k].orders
             id == q[1].orderId
         IN /\ SetLevel(k, [totalQuantity |-> total,
                            orders |-> [q EXCEPT ![1].remainingQuantity = left]])
            /\ SetActive(id, [activeOrders[id] EXCEPT !.remainingQuantity = left])
  PROVE  BookInv' /\ DOMAIN activeOrders' = DOMAIN activeOrders
<1> DEFINE q == orderBooks[k].orders
           id == q[1].orderId
           n == Len(q)
           node == [q[1] EXCEPT !.remainingQuantity = left]
           q2 == [q EXCEPT ![1].remainingQuantity = left]
           order == [activeOrders[id] EXCEPT !.remainingQuantity = left]
<1>1. /\ n \in Nat /\ DOMAIN q = 1..n /\ k \in LevelKeys /\ q \in Seq(OrderNodes)
      /\ q # <<>> /\ k = [side |-> k.side, price |-> k.price]
  BY LevelFacts
<1>2. 1 \in 1..n
  BY <1>1, EmptySeq
<1>3. q[1] \in OrderNodes /\ NodeIndexed(k, q[1], activeOrders)
  BY <1>2, LevelFacts
<1>4. /\ node \in OrderNodes /\ node.orderId = id /\ node.owner = q[1].owner
      /\ node.remainingQuantity = left
  BY <1>3 DEF OrderNodes
<1>5. q2 = [q EXCEPT ![1] = node]
  BY <1>1
<1>6. /\ q2 \in Seq(OrderNodes) /\ Len(q2) = n /\ DOMAIN q2 = 1..n /\ q2 # <<>>
      /\ \A j \in 1..n : q2[j] = IF j = 1 THEN node ELSE q[j]
  <2> HIDE DEF node, q, q2
  <2>1. /\ [q EXCEPT ![1] = node] \in Seq(OrderNodes)
        /\ Len([q EXCEPT ![1] = node]) = n
        /\ \A j \in 1..n : [q EXCEPT ![1] = node][j] = IF j = 1 THEN node ELSE q[j]
    BY <1>1, <1>2, <1>4, ExceptSeq
  <2>2. q2 \in Seq(OrderNodes) /\ Len(q2) = n /\ \A j \in 1..n : q2[j] = IF j = 1 THEN node ELSE q[j]
    BY <2>1, <1>5
  <2> QED BY <2>2, <1>2, LenProperties, EmptySeq
<1>7. /\ id \in DOMAIN activeOrders
      /\ order \in ActiveOrders
      /\ order = [owner |-> q[1].owner, side |-> k.side, price |-> k.price, remainingQuantity |-> left]
  <2>1. /\ id \in DOMAIN activeOrders
        /\ activeOrders[id] = [owner |-> q[1].owner, side |-> k.side, price |-> k.price,
                               remainingQuantity |-> q[1].remainingQuantity]
    BY <1>3 DEF NodeIndexed
  <2>2. order = [owner |-> q[1].owner, side |-> k.side, price |-> k.price, remainingQuantity |-> left]
    BY <2>1
  <2>3. q[1].owner \in Clients /\ k.side \in Sides /\ k.price \in Prices
    BY <1>1, <1>3 DEF OrderNodes, LevelKeys
  <2> HIDE DEF id, order
  <2>4. order \in ActiveOrders
    BY <2>2, <2>3 DEF ActiveOrders
  <2> QED BY <2>1, <2>2, <2>4
<1>8. /\ DOMAIN activeOrders' = DOMAIN activeOrders
      /\ \A o \in DOMAIN activeOrders : activeOrders'[o] = IF o = id THEN order ELSE activeOrders[o]
  BY <1>7 DEF SetActive
<1>9. /\ DOMAIN orderBooks' = DOMAIN orderBooks
      /\ \A l \in DOMAIN orderBooks :
           orderBooks'[l] = IF l = k THEN [totalQuantity |-> total, orders |-> q2] ELSE orderBooks[l]
  BY <1>6 DEF SetLevel
<1> HIDE DEF q2, order
<1>10. BookTyped'
  <2>1. [totalQuantity |-> total, orders |-> q2] \in PriceLevels
    BY <1>6 DEF PriceLevels
  <2> QED BY <2>1, <1>7, <1>8, <1>9 DEF BookTyped, BookInv
<1>11. AggregateBounded'
  BY <1>9, LevelFacts, ConstantsAssumption DEF AggregateBounded, BookInv
<1>12. \A o \in DOMAIN activeOrders :
         activeOrders'[o].side = activeOrders[o].side /\ activeOrders'[o].price = activeOrders[o].price
  BY <1>3, <1>7, <1>8 DEF NodeIndexed
<1>13. BookUncrossed'
  BY <1>8, <1>12 DEF BookUncrossed, BookInv
<1>14. \A j \in 1..n : q2[j].orderId = q[j].orderId
  BY <1>4, <1>6
<1>15. TimePriority'
  <2> SUFFICES ASSUME NEW l \in DOMAIN orderBooks',
                      NEW a \in DOMAIN orderBooks'[l].orders,
                      NEW b \in DOMAIN orderBooks'[l].orders, a < b
               PROVE  orderBooks'[l].orders[a].orderId < orderBooks'[l].orders[b].orderId
    BY DEF TimePriority
  <2>1. CASE l = k
    <3>1. orderBooks'[l].orders = q2 /\ a \in 1..n /\ b \in 1..n
      BY <2>1, <1>6, <1>9
    <3> QED BY <3>1, <1>1, <1>14 DEF BookInv, TimePriority
  <2>2. CASE l # k
    BY <2>2, <1>9 DEF BookInv, TimePriority
  <2> QED BY <2>1, <2>2
<1>16. ASSUME NEW l \in DOMAIN orderBooks'
       PROVE  /\ orderBooks'[l].orders # <<>>
              /\ \A j \in DOMAIN orderBooks'[l].orders :
                   NodeIndexed(l, orderBooks'[l].orders[j], activeOrders')
  <2>1. CASE l = k
    <3>1. orderBooks'[l].orders = q2
      BY <2>1, <1>9
    <3>2. ASSUME NEW j \in 1..n
          PROVE  NodeIndexed(k, q2[j], activeOrders')
      <4>1. CASE j = 1
        <5>1. q2[j] = node /\ activeOrders'[id] = order
          BY <4>1, <1>6, <1>7, <1>8
        <5> QED BY <5>1, <1>4, <1>7, <1>8 DEF NodeIndexed
      <4>2. CASE j # 1
        <5>1. q2[j] = q[j] /\ NodeIndexed(k, q[j], activeOrders)
          BY <4>2, <1>6, LevelFacts
        <5>2. q[j].orderId # id
          BY <4>2, <1>2, NodesAreUnique
        <5> QED BY <5>1, <5>2, <1>8 DEF NodeIndexed
      <4> QED BY <4>1, <4>2
    <3> QED BY <3>1, <3>2, <2>1, <1>6
  <2>2. CASE l # k
    <3>1. l \in DOMAIN orderBooks /\ orderBooks'[l] = orderBooks[l]
      BY <2>2, <1>9
    <3>2. ASSUME NEW j \in DOMAIN orderBooks[l].orders
          PROVE  NodeIndexed(l, orderBooks[l].orders[j], activeOrders')
      <4>1. j \in 1..Len(orderBooks[l].orders) /\ NodeIndexed(l, orderBooks[l].orders[j], activeOrders)
        BY <3>1, LevelFacts
      <4>2. orderBooks[l].orders[j].orderId # id
        BY <4>1, <3>1, <2>2, <1>2, NodesAreUnique
      <4> QED BY <4>1, <4>2, <1>8 DEF NodeIndexed
    <3> QED BY <3>1, <3>2, LevelFacts
  <2> QED BY <2>1, <2>2
<1>17. ASSUME NEW o \in DOMAIN activeOrders'
       PROVE  \E l \in DOMAIN orderBooks' :
                /\ l = [side |-> activeOrders'[o].side, price |-> activeOrders'[o].price]
                /\ \E j \in DOMAIN orderBooks'[l].orders : orderBooks'[l].orders[j].orderId = o
  <2>1. PICK l \in DOMAIN orderBooks :
          /\ l = [side |-> activeOrders[o].side, price |-> activeOrders[o].price]
          /\ \E j \in 1..Len(orderBooks[l].orders) : orderBooks[l].orders[j].orderId = o
    BY <1>8, OrderHasNode
  <2>2. PICK j \in 1..Len(orderBooks[l].orders) : orderBooks[l].orders[j].orderId = o
    BY <2>1
  <2>3. j \in DOMAIN orderBooks'[l].orders /\ orderBooks'[l].orders[j].orderId = o
    <3>1. CASE l = k
      BY <3>1, <2>2, <1>6, <1>9, <1>14
    <3>2. CASE l # k
      BY <3>2, <2>2, <1>9, LevelFacts
    <3> QED BY <3>1, <3>2
  <2> QED BY <2>1, <2>3, <1>8, <1>9, <1>12
<1>18. BookInv'
  BY <1>10, <1>11, <1>13, <1>15, <1>16, <1>17 DEF BookInv, IndexMatchesBook, NodeIndexed
<1> QED BY <1>18, <1>8

\* An order that crosses nothing joins the back of its level's queue.
LEMMA PushNode ==
  ASSUME BookInv,
         NEW m \in NewOrders, NEW id \in OrderIds, NEW quantity \in Nat, quantity > 0,
         \A o \in DOMAIN activeOrders : o < id,
         Crossing(m) = {},
         canAddOrder(m, quantity),
         addOrder(m, id, quantity)
  PROVE  BookInv' /\ DOMAIN activeOrders' = DOMAIN activeOrders \cup {id}
<1> DEFINE k == OwnLevel(m)
           old == IF k \in DOMAIN orderBooks THEN orderBooks[k]
                  ELSE [totalQuantity |-> 0, orders |-> <<>>]
           q == old.orders
           n == Len(q)
           node == [orderId |-> id, owner |-> m.clientId, remainingQuantity |-> quantity]
           q2 == Append(q, node)
           order == [owner |-> m.clientId, side |-> m.type, price |-> m.price,
                     remainingQuantity |-> quantity]
           level == [totalQuantity |-> old.totalQuantity + quantity, orders |-> q2]
<1>1. /\ m.clientId \in Clients /\ m.type \in Sides /\ m.price \in Prices
  BY DEF NewOrders
<1>2. k \in LevelKeys /\ k.side = m.type /\ k.price = m.price
  BY <1>1 DEF OwnLevel, LevelKeys
<1>3. old.totalQuantity \in Nat /\ q \in Seq(OrderNodes) /\ n \in Nat /\ DOMAIN q = 1..n
  <2>1. CASE k \in DOMAIN orderBooks
    <3>1. old = orderBooks[k]
      BY <2>1
    <3> HIDE DEF old
    <3> QED BY <3>1, <2>1, LevelFacts
  <2>2. CASE k \notin DOMAIN orderBooks
    <3>1. old.totalQuantity = 0 /\ q = <<>>
      BY <2>2
    <3> QED BY <3>1, EmptySeq, LenProperties
  <2> QED BY <2>1, <2>2
<1>4. node \in OrderNodes /\ order \in ActiveOrders
  BY <1>1 DEF OrderNodes, ActiveOrders
<1>5. /\ q2 \in Seq(OrderNodes) /\ q2 # <<>> /\ Len(q2) = n + 1 /\ DOMAIN q2 = 1..(n + 1)
      /\ \A j \in 1..n : q2[j] = q[j]
      /\ q2[n + 1] = node
  <2> HIDE DEF q, node
  <2>1. /\ q2 \in Seq(OrderNodes) /\ q2 # <<>> /\ Len(q2) = n + 1
        /\ \A j \in 1..n : q2[j] = q[j]
        /\ q2[n + 1] = node
    BY <1>3, <1>4, AppendProperties
  <2> QED BY <2>1, LenProperties
<1>6. SetLevel(k, level) /\ SetActive(id, order)
  BY DEF addOrder, Enqueue
<1>7. old.totalQuantity + quantity <= MaxPriceLevelAggregate
  <2>1. CASE k \in DOMAIN orderBooks
    BY <2>1, <1>3, ConstantsAssumption DEF canAddOrder
  <2>2. CASE k \notin DOMAIN orderBooks
    BY <2>2, <1>3, ConstantsAssumption DEF canAddOrder
  <2> QED BY <2>1, <2>2
<1>8. /\ \A j \in 1..n : q[j] \in OrderNodes /\ q[j].orderId < id /\ NodeIndexed(k, q[j], activeOrders)
      /\ \A a, b \in 1..n : a < b => q[a].orderId < q[b].orderId
  <2>1. CASE k \in DOMAIN orderBooks
    <3>1. old = orderBooks[k]
      BY <2>1
    <3> HIDE DEF old, k
    <3>2. \A j \in 1..n : q[j] \in OrderNodes /\ NodeIndexed(k, q[j], activeOrders)
      BY <3>1, <2>1, LevelFacts
    <3>3. \A j \in 1..n : q[j].orderId < id
      BY <3>2 DEF NodeIndexed
    <3>4. \A a, b \in 1..n : a < b => q[a].orderId < q[b].orderId
      BY <3>1, <2>1, <1>3 DEF BookInv, TimePriority
    <3> QED BY <3>2, <3>3, <3>4
  <2>2. CASE k \notin DOMAIN orderBooks
    BY <2>2, <1>3
  <2> QED BY <2>1, <2>2
<1>9. level.totalQuantity = old.totalQuantity + quantity /\ level.orders = q2
  OBVIOUS
<1>10. node.orderId = id /\ node.owner = m.clientId /\ node.remainingQuantity = quantity
  OBVIOUS
<1>11. /\ order.side = m.type /\ order.price = m.price
       /\ order = [owner |-> node.owner, side |-> k.side, price |-> k.price,
                   remainingQuantity |-> node.remainingQuantity]
  BY <1>2
<1>12. id \notin DOMAIN activeOrders
  BY DEF OrderIds
<1>13. level \in PriceLevels
  BY <1>3, <1>5 DEF PriceLevels
<1>14. k \in DOMAIN orderBooks => orderBooks[k].orders = q
  OBVIOUS
<1> HIDE DEF k, old, q, node, q2, order, level
<1>15. /\ DOMAIN activeOrders' = DOMAIN activeOrders \cup {id}
       /\ \A o \in DOMAIN activeOrders' : activeOrders'[o] = IF o = id THEN order ELSE activeOrders[o]
  BY <1>6 DEF SetActive
<1>16. /\ DOMAIN orderBooks' = DOMAIN orderBooks \cup {k}
       /\ \A l \in DOMAIN orderBooks' : orderBooks'[l] = IF l = k THEN level ELSE orderBooks[l]
  BY <1>5, <1>6, <1>9 DEF SetLevel
<1>17. BookTyped'
  BY <1>2, <1>4, <1>13, <1>15, <1>16 DEF BookTyped, BookInv
<1>18. AggregateBounded'
  BY <1>7, <1>9, <1>16 DEF AggregateBounded, BookInv
<1>19. BookUncrossed'
  <2>1. ASSUME NEW o \in DOMAIN activeOrders, activeOrders[o].side = Opposite(m.type)
        PROVE  IF m.type = "BUY" THEN m.price < activeOrders[o].price
               ELSE activeOrders[o].price < m.price
    <3>1. PICK l \in DOMAIN orderBooks : l = [side |-> activeOrders[o].side, price |-> activeOrders[o].price]
      BY OrderHasNode
    <3>2. l.side = Opposite(m.type) /\ l.price = activeOrders[o].price
      BY <3>1, <2>1
    <3>3. l \notin Crossing(m) /\ l.price \in Int /\ m.price \in Int
      BY <1>1, LevelFacts DEF LevelKeys, Prices
    <3> QED BY <3>1, <3>2, <3>3 DEF Crossing
  <2>2. ASSUME NEW b \in DOMAIN activeOrders', NEW a \in DOMAIN activeOrders',
               activeOrders'[b].side = "BUY", activeOrders'[a].side = "SELL"
        PROVE  activeOrders'[b].price < activeOrders'[a].price
    <3>1. CASE b = id /\ a = id
      BY <3>1, <2>2
    <3>2. CASE b = id /\ a # id
      <4>1. m.type = "BUY" /\ activeOrders'[b].price = m.price
        BY <3>2, <2>2, <1>11, <1>15
      <4>2. /\ a \in DOMAIN activeOrders /\ activeOrders[a].side = Opposite(m.type)
            /\ activeOrders'[a] = activeOrders[a]
        BY <3>2, <4>1, <2>2, <1>15 DEF Opposite
      <4> QED BY <4>1, <4>2, <2>1
    <3>3. CASE b # id /\ a = id
      <4>1. m.type = "SELL" /\ activeOrders'[a].price = m.price
        BY <3>3, <2>2, <1>11, <1>15
      <4>2. /\ b \in DOMAIN activeOrders /\ activeOrders[b].side = Opposite(m.type)
            /\ activeOrders'[b] = activeOrders[b]
        BY <3>3, <4>1, <2>2, <1>15 DEF Opposite
      <4> QED BY <4>1, <4>2, <2>1
    <3>4. CASE b # id /\ a # id
      BY <3>4, <2>2, <1>15 DEF BookUncrossed, BookInv
    <3> QED BY <3>1, <3>2, <3>3, <3>4
  <2> QED BY <2>2 DEF BookUncrossed
<1>20. TimePriority'
  <2> SUFFICES ASSUME NEW l \in DOMAIN orderBooks',
                      NEW a \in DOMAIN orderBooks'[l].orders,
                      NEW b \in DOMAIN orderBooks'[l].orders, a < b
               PROVE  orderBooks'[l].orders[a].orderId < orderBooks'[l].orders[b].orderId
    BY DEF TimePriority
  <2>1. CASE l = k
    <3>1. orderBooks'[l].orders = q2 /\ a \in 1..(n + 1) /\ b \in 1..(n + 1)
      BY <2>1, <1>5, <1>9, <1>16
    <3>2. CASE b = n + 1
      <4>1. a \in 1..n
        BY <3>1, <3>2, <1>3
      <4> QED BY <3>1, <3>2, <4>1, <1>5, <1>8, <1>10
    <3>3. CASE b # n + 1
      <4>1. a \in 1..n /\ b \in 1..n
        BY <3>1, <3>3, <1>3
      <4> QED BY <3>1, <4>1, <1>5, <1>8
    <3> QED BY <3>2, <3>3
  <2>2. CASE l # k
    BY <2>2, <1>16 DEF BookInv, TimePriority
  <2> QED BY <2>1, <2>2
<1>21. ASSUME NEW l \in DOMAIN orderBooks'
       PROVE  /\ orderBooks'[l].orders # <<>>
              /\ \A j \in DOMAIN orderBooks'[l].orders :
                   NodeIndexed(l, orderBooks'[l].orders[j], activeOrders')
  <2>1. ASSUME NEW x, NEW y, NodeIndexed(x, y, activeOrders)
        PROVE  NodeIndexed(x, y, activeOrders')
    BY <2>1, <1>12, <1>15 DEF NodeIndexed
  <2>2. CASE l = k
    <3>1. orderBooks'[l].orders = q2
      BY <2>2, <1>9, <1>16
    <3>2. NodeIndexed(k, node, activeOrders')
      BY <1>10, <1>11, <1>15 DEF NodeIndexed
    <3>3. ASSUME NEW j \in 1..(n + 1)
          PROVE  NodeIndexed(k, q2[j], activeOrders')
      <4>1. CASE j = n + 1
        BY <4>1, <3>2, <1>5
      <4>2. CASE j # n + 1
        <5>1. j \in 1..n
          BY <4>2, <1>3
        <5> QED BY <5>1, <2>1, <1>5, <1>8
      <4> QED BY <4>1, <4>2
    <3> QED BY <3>1, <3>3, <2>2, <1>5
  <2>3. CASE l # k
    <3>1. l \in DOMAIN orderBooks /\ orderBooks'[l] = orderBooks[l]
      BY <2>3, <1>16
    <3> QED BY <3>1, <2>1, LevelFacts
  <2> QED BY <2>2, <2>3
<1>22. ASSUME NEW o \in DOMAIN activeOrders'
       PROVE  \E l \in DOMAIN orderBooks' :
                /\ l = [side |-> activeOrders'[o].side, price |-> activeOrders'[o].price]
                /\ \E j \in DOMAIN orderBooks'[l].orders : orderBooks'[l].orders[j].orderId = o
  <2>1. CASE o = id
    <3>1. k = [side |-> activeOrders'[o].side, price |-> activeOrders'[o].price]
      BY <2>1, <1>11, <1>15 DEF k, OwnLevel
    <3>2. k \in DOMAIN orderBooks' /\ orderBooks'[k].orders = q2
      BY <1>9, <1>16
    <3>3. n + 1 \in DOMAIN q2 /\ q2[n + 1].orderId = o
      BY <2>1, <1>3, <1>5, <1>10
    <3> QED BY <3>1, <3>2, <3>3
  <2>2. CASE o # id
    <3>1. o \in DOMAIN activeOrders /\ activeOrders'[o] = activeOrders[o]
      BY <2>2, <1>15
    <3>2. PICK l \in DOMAIN orderBooks :
            /\ l = [side |-> activeOrders[o].side, price |-> activeOrders[o].price]
            /\ \E j \in 1..Len(orderBooks[l].orders) : orderBooks[l].orders[j].orderId = o
      BY <3>1, OrderHasNode
    <3>3. PICK j \in 1..Len(orderBooks[l].orders) : orderBooks[l].orders[j].orderId = o
      BY <3>2
    <3>4. j \in DOMAIN orderBooks'[l].orders /\ orderBooks'[l].orders[j].orderId = o
      <4>1. CASE l = k
        <5>1. orderBooks[l].orders = q /\ orderBooks'[l].orders = q2
          BY <4>1, <1>9, <1>14, <1>16
        <5>2. j \in 1..n
          BY <5>1, <3>3
        <5>3. j \in 1..(n + 1)
          BY <5>2, <1>3
        <5> QED BY <5>1, <5>2, <5>3, <3>3, <1>5
      <4>2. CASE l # k
        BY <4>2, <3>3, <1>16, LevelFacts
      <4> QED BY <4>1, <4>2
    <3> QED BY <3>1, <3>2, <3>4, <1>16
  <2> QED BY <2>1, <2>2
<1>23. BookInv'
  BY <1>17, <1>18, <1>19, <1>20, <1>21, <1>22 DEF BookInv, IndexMatchesBook, NodeIndexed
<1> QED BY <1>23, <1>15

-----------------------------------------------------------------------------
(* One lemma per handler.                                                  *)

\* The empty book of a new MatchingState satisfies the invariant.
LEMMA InitIInv == Init => IInv
<1> SUFFICES ASSUME Init PROVE IInv
  OBVIOUS
<1>1. DOMAIN orderBooks = {} /\ DOMAIN activeOrders = {}
  BY DEF Init
<1>2. BookInv
  BY <1>1 DEF BookInv, BookTyped, IndexMatchesBook, TimePriority, AggregateBounded, BookUncrossed
<1>3. SequencesInUse
  BY <1>1 DEF Init, SequencesInUse
<1>4. events \in Seq(Events)
  BY EmptySeq DEF Init
<1> QED BY <1>1, <1>2, <1>3, <1>4, ConstantsAssumption DEF Init, IInv, TypeOK

\* Steps that leave the books alone keep what is said of the books.
LEMMA BooksUnchanged ==
  ASSUME BookInv, UNCHANGED bookVars
  PROVE  BookInv'
BY DEF bookVars, BookInv, BookTyped, IndexMatchesBook, TimePriority, AggregateBounded, BookUncrossed

\* A one-event batch is a batch.
LEMMA SingletonBatch ==
  ASSUME NEW e \in Events
  PROVE  <<e>> \in Seq(Events) /\ Len(<<e>>) = 1
OBVIOUS

\* Planning and admitting an order (processOrder up to its loop) keeps the invariant.
LEMMA BeginOrderIInv ==
  ASSUME IInv, NEW m \in NewOrders, BeginOrder(m)
  PROVE  IInv'
<1>1. /\ sequence' = sequence + 1 /\ sequence \in 0..MaxCommands /\ sequence < MaxCommands
      /\ phase = "idle" /\ UNCHANGED bookVars
  BY DEF BeginOrder, Reject, Throw, IInv, TypeOK, bookVars
<1>2. sequence' \in OrderIds /\ sequence' \in 0..MaxCommands /\ sequence' \notin DOMAIN activeOrders
  BY <1>1, ConstantsAssumption DEF OrderIds, IInv, SequencesInUse, TypeOK
<1>3. BookInv'
  BY <1>1, BooksUnchanged DEF IInv
<1>4. SequencesInUse'
  <2>1. \A o \in DOMAIN activeOrders : o <= sequence'
    BY <1>1 DEF IInv, SequencesInUse, TypeOK, OrderIds
  <2> QED BY <2>1, <1>1, <1>2 DEF SequencesInUse, bookVars
<1>5. events' \in Seq(Events)
  <2>1. [kind |-> "CommandRejected", orderId |-> sequence + 1, reason |-> "BOOK_CAPACITY_EXCEEDED"] \in Events
    BY <1>1, <1>2 DEF Events, Rejecteds
  <2>2. <<>> \in Seq(Events)
    BY EmptySeq
  <2> QED BY <2>1, <2>2, SingletonBatch DEF BeginOrder, Reject, Throw, IInv, TypeOK
<1>6. TypeOK'
  <2>1. m.quantity \in Nat
    BY ConstantsAssumption DEF NewOrders, Quantities
  <2>2. UNCHANGED <<orderBooks, activeOrders>>
    BY <1>1 DEF bookVars
  <2>3. /\ phase' \in {"idle", "matching", "failed"}
        /\ message' \in NewOrders \cup Cancels \cup {NoMessage}
        /\ phase' = "matching" => message' \in NewOrders
        /\ remaining' \in Nat
        /\ result' \in {"APPLIED", "BOOK_CAPACITY_EXCEEDED"}
    BY <2>1 DEF BeginOrder, Reject, Throw, IInv, TypeOK
  <2> QED BY <2>2, <2>3, <1>2, <1>5 DEF IInv, TypeOK
<1> QED BY <1>3, <1>4, <1>6 DEF IInv

\* A throw ends the run but leaves the books as they were.
LEMMA ThrowIInv ==
  ASSUME IInv, Throw, sequence' \in 0..MaxCommands, sequence <= sequence'
  PROVE  IInv'
<1>1. BookInv'
  BY BooksUnchanged DEF Throw, IInv, bookVars
<1>2. \A o \in DOMAIN activeOrders : o <= sequence'
  BY ConstantsAssumption DEF IInv, TypeOK, SequencesInUse, OrderIds
<1>3. SequencesInUse'
  BY <1>2 DEF SequencesInUse, Throw
<1>4. TypeOK'
  BY <1>2 DEF IInv, TypeOK, Throw
<1> QED BY <1>1, <1>3, <1>4 DEF IInv

\* What is needed of the control state when a step ends in the given phase.
LEMMA ControlIInv ==
  ASSUME IInv, BookInv', sequence' = sequence, message' = message,
         phase' = phase \/ phase' = "idle",
         \A o \in DOMAIN activeOrders' : o <= sequence,
         phase' = "matching" => DOMAIN activeOrders' \subseteq DOMAIN activeOrders,
         remaining' \in Nat, events' \in Seq(Events),
         result' \in {"APPLIED", "BOOK_CAPACITY_EXCEEDED"}
  PROVE  IInv'
<1>1. SequencesInUse'
  BY DEF IInv, SequencesInUse, TypeOK
<1>2. TypeOK'
  BY DEF IInv, TypeOK, BookInv, BookTyped
<1> QED BY <1>1, <1>2 DEF IInv

\* One trade, executeTrade with removeFilledOrder, keeps the invariant.
LEMMA MatchOrderIInv ==
  ASSUME IInv, MatchOrder
  PROVE  IInv'
<1>1. PICK k \in Crossing(message) : executeTrade(k)
  BY DEF MatchOrder
<1>2. /\ k \in DOMAIN orderBooks /\ phase = "matching" /\ remaining > 0 /\ sequence' = sequence
      /\ remaining \in Nat /\ message \in NewOrders /\ sequence \in OrderIds
      /\ sequence \notin DOMAIN activeOrders /\ events \in Seq(Events)
  BY DEF MatchOrder, Crossing, IInv, TypeOK, SequencesInUse
<1> DEFINE level == orderBooks[k]
           q == level.orders
           maker == Head(q)
           t == Lesser(remaining, maker.remainingQuantity)
           left == maker.remainingQuantity - t
           total == level.totalQuantity - t
<1>3. CASE Throw
  <2>1. sequence' \in 0..MaxCommands /\ sequence <= sequence'
    BY <1>2 DEF IInv, TypeOK
  <2> QED BY <2>1, <1>3, ThrowIInv
<1>4. CASE ~Throw
  <2>1. /\ k \in LevelKeys /\ q # <<>> /\ q \in Seq(OrderNodes) /\ level.totalQuantity \in Nat
        /\ Len(q) \in Nat /\ DOMAIN q = 1..Len(q)
    BY <1>2, LevelFacts DEF IInv
  <2>2. maker = q[1] /\ 1 \in 1..Len(q)
    BY <2>1, EmptySeq
  <2>3. maker \in OrderNodes /\ NodeIndexed(k, q[1], activeOrders)
    BY <2>2, <1>2, LevelFacts DEF IInv
  <2>4. MakerIsConsistent(k, t)
    BY <1>1, <1>4 DEF executeTrade
  <2>5. /\ maker.orderId \in OrderIds /\ maker.remainingQuantity \in Nat
        /\ t \in Nat /\ left \in Nat /\ total \in Nat /\ total <= level.totalQuantity
        /\ remaining - t \in Nat
    <3>1. maker.orderId \in OrderIds /\ maker.remainingQuantity \in Nat
      BY <2>3 DEF OrderNodes
    <3>2. t \in Nat /\ t <= remaining /\ t <= maker.remainingQuantity
      BY <3>1, <1>2 DEF Lesser
    <3>3. t <= level.totalQuantity
      BY <2>4 DEF MakerIsConsistent
    <3> HIDE DEF t, maker, level
    <3> QED BY <3>1, <3>2, <3>3, <2>1, <1>2
  <2> DEFINE e == [kind |-> "Trade", makerOrderId |-> maker.orderId, takerOrderId |-> sequence,
                   executionPrice |-> k.price, executionQuantity |-> t,
                   makerRemainingQuantity |-> left, takerRemainingQuantity |-> remaining - t]
  <2>6. /\ events' = Append(events, e)
        /\ remaining' = remaining - t
        /\ IF left = 0
           THEN /\ SetLevel(k, [totalQuantity |-> total, orders |-> Tail(q)])
                /\ Deactivate(maker.orderId)
           ELSE /\ SetLevel(k, [totalQuantity |-> total,
                                orders |-> [q EXCEPT ![1].remainingQuantity = left]])
                /\ SetActive(maker.orderId,
                             [activeOrders[maker.orderId] EXCEPT !.remainingQuantity = left])
        /\ UNCHANGED <<phase, message, plan, result>>
    BY <1>1, <1>4 DEF executeTrade
  <2>7. e \in Events
    <3>1. k.price \in Prices
      BY <2>1 DEF LevelKeys
    <3> HIDE DEF maker, t, left
    <3> QED BY <3>1, <2>5, <1>2 DEF Events, Trades
  <2> HIDE DEF e
  <2>8. events' \in Seq(Events)
    BY <2>6, <2>7, <1>2, AppendProperties
  <2>9. BookInv' /\ DOMAIN activeOrders' \subseteq DOMAIN activeOrders
    <3>1. CASE left = 0
      <4>1. /\ Tail(q) \in Seq(OrderNodes) /\ Len(Tail(q)) = Len(q) - 1
            /\ \A j \in 1..(Len(q) - 1) : Tail(q)[j] = q[j + 1]
        BY <2>1, HeadTailProperties
      <4>2. \A j \in 1..(Len(q) - 1) : Tail(q)[j] = q[IF j < 1 THEN j ELSE j + 1]
        BY <4>1
      <4>3. SetLevel(k, [totalQuantity |-> total, orders |-> Tail(q)]) /\ Deactivate(q[1].orderId)
        BY <3>1, <2>2, <2>6
      <4> HIDE DEF total, t, left, maker
      <4> QED BY <4>1, <4>2, <4>3, <1>2, <2>2, <2>5, RemoveNode DEF IInv
    <3>2. CASE left # 0
      <4>1. /\ SetLevel(k, [totalQuantity |-> total,
                            orders |-> [q EXCEPT ![1].remainingQuantity = left]])
            /\ SetActive(q[1].orderId,
                         [activeOrders[q[1].orderId] EXCEPT !.remainingQuantity = left])
        BY <3>2, <2>2, <2>6
      <4>2. left > 0
        BY <3>2, <2>5
      <4> HIDE DEF total, t, left, maker
      <4> QED BY <4>1, <4>2, <1>2, <2>5, ShrinkFront DEF IInv
    <3> QED BY <3>1, <3>2
  <2>10. \A o \in DOMAIN activeOrders' : o <= sequence
    BY <2>9 DEF IInv, SequencesInUse
  <2>11. remaining' \in Nat /\ result' \in {"APPLIED", "BOOK_CAPACITY_EXCEEDED"}
    BY <2>5, <2>6 DEF IInv, TypeOK
  <2>12. phase' = phase /\ message' = message
    BY <2>6
  <2> QED BY <2>8, <2>9, <2>10, <2>11, <2>12, <1>2, ControlIInv
<1> QED BY <1>3, <1>4

\* The end of processOrder, with addOrder for a resting remainder, keeps the invariant.
LEMMA FinishOrderIInv ==
  ASSUME IInv, FinishOrder
  PROVE  IInv'
<1>1. /\ phase = "matching" /\ sequence' = sequence /\ message \in NewOrders
      /\ remaining \in Nat /\ sequence \in OrderIds /\ sequence \notin DOMAIN activeOrders
      /\ events \in Seq(Events)
  BY DEF FinishOrder, IInv, TypeOK, SequencesInUse
<1>2. CASE Throw
  <2>1. sequence' \in 0..MaxCommands /\ sequence <= sequence'
    BY <1>1 DEF IInv, TypeOK
  <2> QED BY <2>1, <1>2, ThrowIInv
<1>3. CASE ~Throw
  <2> DEFINE rests == message.tif = "GTC" /\ remaining > 0
  <2>1. /\ rests => canAddOrder(message, remaining)
        /\ IF rests THEN addOrder(message, sequence, remaining) ELSE UNCHANGED bookVars
        /\ events' = events \o Terminal(message, remaining)
        /\ result' = "APPLIED" /\ phase' = "idle"
        /\ UNCHANGED <<message, remaining, plan>>
    BY <1>3 DEF FinishOrder
  <2>2. Terminal(message, remaining) \in Seq(Events)
    <3>1. [kind |-> "OrderRested", orderId |-> sequence, quantity |-> remaining] \in Events
      BY <1>1 DEF Events, Resteds
    <3>2. [kind |-> "OrderCancelled", orderId |-> sequence, quantity |-> remaining,
           reason |-> "IOC_REMAINDER"] \in Events
      BY <1>1 DEF Events, Cancelleds
    <3>3. <<>> \in Seq(Events)
      BY EmptySeq
    <3> QED BY <3>1, <3>2, <3>3, SingletonBatch DEF Terminal
  <2>3. events' \in Seq(Events)
    BY <2>1, <2>2, <1>1, ConcatProperties
  <2>4. BookInv' /\ \A o \in DOMAIN activeOrders' : o <= sequence
    <3>1. CASE rests
      <4>1. Crossing(message) = {} /\ remaining > 0
        BY <3>1, <1>1 DEF FinishOrder
      <4>2. \A o \in DOMAIN activeOrders : o < sequence
        BY <1>1 DEF IInv, SequencesInUse, TypeOK, OrderIds
      <4>3. BookInv' /\ DOMAIN activeOrders' = DOMAIN activeOrders \cup {sequence}
        BY <3>1, <4>1, <4>2, <2>1, <1>1, PushNode DEF IInv
      <4>4. \A o \in DOMAIN activeOrders \cup {sequence} : o <= sequence
        BY <4>2, <1>1 DEF IInv, TypeOK, OrderIds
      <4> QED BY <4>3, <4>4
    <3>2. CASE ~rests
      <4>1. BookInv'
        BY <3>2, <2>1, BooksUnchanged DEF IInv
      <4> QED BY <4>1, <3>2, <2>1 DEF bookVars, IInv, SequencesInUse
    <3> QED BY <3>1, <3>2
  <2> QED BY <2>1, <2>3, <2>4, <1>1, ControlIInv
<1> QED BY <1>2, <1>3

\* processCancel with removeCancelledOrder keeps the invariant.
LEMMA ProcessCancelIInv ==
  ASSUME IInv, NEW m \in Cancels, ProcessCancel(m)
  PROVE  IInv'
<1> DEFINE id == m.targetOrderId
<1>1. /\ phase = "idle" /\ sequence' = sequence + 1 /\ sequence \in 0..MaxCommands
      /\ sequence < MaxCommands /\ id \in OrderIds
  BY DEF ProcessCancel, IInv, TypeOK, Cancels
<1>2. CASE Throw
  <2>1. sequence' \in 0..MaxCommands /\ sequence <= sequence'
    BY <1>1, ConstantsAssumption
  <2> QED BY <2>1, <1>2, ThrowIInv
<1>3. sequence' \in 0..MaxCommands /\ \A o \in DOMAIN activeOrders : o <= sequence'
  BY <1>1, ConstantsAssumption DEF IInv, SequencesInUse, TypeOK, OrderIds
<1>4. ASSUME NEW reason \in {"ORDER_NOT_ACTIVE", "NOT_OWNER"}, Reject(m, id, reason, "APPLIED")
      PROVE  IInv'
  <2>1. BookInv' /\ UNCHANGED bookVars
    BY <1>4, BooksUnchanged DEF Reject, IInv, bookVars
  <2>2. [kind |-> "CommandRejected", orderId |-> id, reason |-> reason] \in Events
    BY <1>1 DEF Events, Rejecteds
  <2>3. events' \in Seq(Events)
    BY <1>4, <2>2, SingletonBatch DEF Reject
  <2>4. SequencesInUse'
    BY <1>3, <1>4, <2>1 DEF SequencesInUse, Reject, bookVars
  <2>5. TypeOK'
    BY <1>3, <1>4, <2>3 DEF IInv, TypeOK, Reject
  <2> QED BY <2>1, <2>4, <2>5 DEF IInv
<1>5. ASSUME id \in DOMAIN activeOrders, removeCancelledOrder(m, id), ~Throw
      PROVE  IInv'
  <2> DEFINE order == activeOrders[id]
             k == [side |-> order.side, price |-> order.price]
             q == orderBooks[k].orders
  <2>1. k \in DOMAIN orderBooks /\ order \in ActiveOrders
    BY <1>5 DEF IInv, BookInv, IndexMatchesBook, BookTyped
  <2>2. /\ q \in Seq(OrderNodes) /\ Len(q) \in Nat /\ DOMAIN q = 1..Len(q)
        /\ orderBooks[k].totalQuantity \in Nat
    BY <2>1, LevelFacts DEF IInv
  <2>3. PICK i \in DOMAIN q :
          /\ q[i].orderId = id
          /\ SetLevel(k, WithoutNode(orderBooks[k], i))
          /\ Deactivate(id)
          /\ events' = <<[kind |-> "OrderCancelled", orderId |-> id,
                          quantity |-> order.remainingQuantity, reason |-> "CLIENT_REQUESTED"]>>
          /\ result' = "APPLIED"
          /\ message' = m
          /\ UNCHANGED <<phase, remaining, plan>>
    BY <1>5 DEF removeCancelledOrder
  <2>4. PICK j \in DOMAIN q : q[j].orderId = id /\ CancelTargetIsConsistent(id, k, j)
    BY <1>5 DEF removeCancelledOrder
  <2>5. i = j
    BY <2>1, <2>2, <2>3, <2>4, NodesAreUnique DEF IInv
  <2>6. /\ q[i].remainingQuantity = order.remainingQuantity
        /\ order.remainingQuantity \in Nat
        /\ order.remainingQuantity <= orderBooks[k].totalQuantity
    <3>1. order.remainingQuantity \in Nat
      BY <2>1 DEF ActiveOrders
    <3>2. q[j] = [orderId |-> id, owner |-> order.owner, remainingQuantity |-> order.remainingQuantity]
      BY <2>4 DEF CancelTargetIsConsistent
    <3>3. order.remainingQuantity <= orderBooks[k].totalQuantity
      BY <2>2, <2>4, <3>1 DEF CancelTargetIsConsistent
    <3>4. q[j].remainingQuantity = order.remainingQuantity
      BY <3>2
    <3> QED BY <3>1, <3>3, <3>4, <2>5
  <2> DEFINE total == orderBooks[k].totalQuantity - q[i].remainingQuantity
             rest == RemoveAt(q, i)
  <2>7. total \in Nat /\ total <= orderBooks[k].totalQuantity
    <3> HIDE DEF order, k, q
    <3> QED BY <2>2, <2>6
  <2>8. /\ rest \in Seq(OrderNodes) /\ Len(rest) = Len(q) - 1
        /\ \A l \in 1..(Len(q) - 1) : rest[l] = q[IF l < i THEN l ELSE l + 1]
    <3> HIDE DEF q
    <3> QED BY <2>2, RemoveAtProperties
  <2>9. SetLevel(k, [totalQuantity |-> total, orders |-> rest]) /\ Deactivate(q[i].orderId)
    BY <2>3 DEF WithoutNode
  <2>10. BookInv' /\ DOMAIN activeOrders' \subseteq DOMAIN activeOrders
    <3> HIDE DEF total, rest, k
    <3> QED BY <2>1, <2>2, <2>7, <2>8, <2>9, RemoveNode DEF IInv
  <2>11. [kind |-> "OrderCancelled", orderId |-> id, quantity |-> order.remainingQuantity,
          reason |-> "CLIENT_REQUESTED"] \in Events
    BY <1>1, <2>6 DEF Events, Cancelleds
  <2>12. events' \in Seq(Events)
    BY <2>3, <2>11, SingletonBatch
  <2>13. SequencesInUse'
    BY <1>1, <1>3, <2>3, <2>10 DEF SequencesInUse
  <2>14. TypeOK'
    <3>1. BookTyped'
      BY <2>10 DEF BookInv
    <3> QED BY <3>1, <1>1, <1>3, <2>3, <2>12 DEF IInv, TypeOK, BookTyped
  <2> QED BY <2>10, <2>13, <2>14 DEF IInv
<1> QED BY <1>2, <1>4, <1>5 DEF ProcessCancel

-----------------------------------------------------------------------------
(* Lemmas on sums: a sum is the number of the units its terms hold, so a   *)
(* term taken out or a renaming of the terms is a fact about finite sets.  *)

\* Sets that a function takes to each other one to one have as many elements.
LEMMA SameCount ==
  ASSUME NEW S, NEW T, IsFiniteSet(S), NEW f \in [S -> T],
         \A a, b \in S : f[a] = f[b] => a = b,
         \A t \in T : \E a \in S : f[a] = t
  PROVE  IsFiniteSet(T) /\ Cardinality(T) = Cardinality(S)
<1>1. f \in Bijection(S, T)
  BY DEF Bijection, Injection, IsInjective, Surjection
<1> QED BY <1>1, FS_Bijection DEF ExistsBijection

\* The terms of a finite sum.
Amounts(D, f) == IsFiniteSet(D) /\ f \in [D -> Nat]

\* g has the terms of f but the one of x.
LeavesOut(D, f, x, E, g) == x \in D /\ E = D \ {x} /\ \A y \in E : g[y] = f[y]

\* r names the terms of f one to one as those of g.
Renames(r, D, f, E, g) ==
  /\ r \in [D -> E]
  /\ \A a, b \in D : r[a] = r[b] => a = b
  /\ \A e \in E : \E d \in D : r[d] = e
  /\ \A d \in D : g[r[d]] = f[d]

\* The units of the terms.
LEMMA UnitsOf ==
  ASSUME NEW D, NEW f \in [D -> Nat], NEW c
  PROVE  c \in Units(f) <=> \E x, u : x \in D /\ u \in 1..f[x] /\ c = <<x, u>>
BY DEF Units

\* A finite sum is a number.
LEMMA TotalIsNat ==
  ASSUME NEW D, NEW f, Amounts(D, f)
  PROVE  IsFiniteSet(Units(f)) /\ Total(f) \in Nat
<1>0. IsFiniteSet(D) /\ f \in [D -> Nat]
  BY DEF Amounts
<1> DEFINE cells == [x \in D |-> {x} \X (1..f[x])]
           S == {{x} \X (1..f[x]) : x \in D}
<1>1. IsFiniteSet(S)
  <2>1. cells \in Surjection(D, S)
    BY DEF Surjection
  <2> QED BY <2>1, <1>0, FS_Surjection
<1>2. ASSUME NEW c \in S PROVE IsFiniteSet(c)
  <2>1. PICK x \in D : c = {x} \X (1..f[x])
    OBVIOUS
  <2>2. f[x] \in Int /\ 1 \in Int
    BY <1>0
  <2>3. IsFiniteSet({x})
    BY FS_Singleton
  <2>4. IsFiniteSet(1..f[x])
    BY <2>2, FS_Interval
  <2> QED BY <2>1, <2>3, <2>4, FS_Product
<1>3. IsFiniteSet(UNION S)
  BY <1>1, <1>2, FS_UNION
<1>4. Units(f) = UNION S
  BY <1>0 DEF Units
<1> QED BY <1>3, <1>4, FS_CardinalityType DEF Total

\* The sum of no terms.
LEMMA TotalOfNone ==
  ASSUME NEW f \in [{} -> Nat]
  PROVE  Total(f) = 0
<1>1. Units(f) = {}
  BY UnitsOf
<1> QED BY <1>1, FS_EmptySet DEF Total

\* A sum is one of its terms and the sum of the others.
LEMMA TotalWithout ==
  ASSUME NEW D, NEW f, Amounts(D, f), NEW E, NEW g, Amounts(E, g),
         NEW x, LeavesOut(D, f, x, E, g)
  PROVE  /\ f[x] \in Nat /\ Total(f) \in Nat /\ Total(g) \in Nat
         /\ Total(f) = f[x] + Total(g)
<1> DEFINE A == {x} \X (1..f[x])
           B == Units(g)
<1>1. /\ f \in [D -> Nat] /\ g \in [E -> Nat] /\ x \in D /\ E = D \ {x}
      /\ \A y \in E : g[y] = f[y]
  BY DEF Amounts, LeavesOut
<1>2. IsFiniteSet(B) /\ Cardinality(B) \in Nat /\ Total(f) \in Nat
  BY TotalIsNat DEF Total
<1>3. IsFiniteSet(A) /\ Cardinality(A) = f[x]
  <2>1. f[x] \in Nat
    BY <1>1
  <2>2. IsFiniteSet({x}) /\ Cardinality({x}) = 1
    BY FS_Singleton
  <2>3. IsFiniteSet(1..f[x]) /\ Cardinality(1..f[x]) = f[x]
    BY <2>1, FS_Interval
  <2>4. IsFiniteSet(A) /\ Cardinality(A) = Cardinality({x}) * Cardinality(1..f[x])
    BY <2>2, <2>3, FS_Product
  <2>5. Cardinality(A) = 1 * f[x]
    BY <2>2, <2>3, <2>4
  <2> QED BY <2>1, <2>4, <2>5
<1>4. A \cap B = {}
  BY <1>1, UnitsOf
<1>5. Units(f) = A \cup B
  <2>1. ASSUME NEW c PROVE c \in Units(f) <=> c \in A \/ c \in B
    <3>1. c \in Units(f) <=> \E y, u : y \in D /\ u \in 1..f[y] /\ c = <<y, u>>
      BY <1>1, UnitsOf
    <3>2. c \in B <=> \E y, u : y \in E /\ u \in 1..g[y] /\ c = <<y, u>>
      BY <1>1, UnitsOf
    <3>3. c \in A <=> \E u \in 1..f[x] : c = <<x, u>>
      OBVIOUS
    <3> QED BY <3>1, <3>2, <3>3, <1>1
  <2> QED BY <2>1
<1>6. Cardinality(A \cup B) = Cardinality(A) + Cardinality(B)
  <2>1. Cardinality(A \cap B) = 0
    BY <1>4, FS_EmptySet
  <2>2. Cardinality(A) \in Nat
    BY <1>1, <1>3
  <2> HIDE DEF A, B
  <2>3. Cardinality(A \cup B) = Cardinality(A) + Cardinality(B) - Cardinality(A \cap B)
    BY <1>2, <1>3, FS_Union
  <2> QED BY <2>1, <2>2, <2>3, <1>2
<1> QED BY <1>1, <1>2, <1>3, <1>5, <1>6 DEF Total

\* Renaming the terms one to one keeps the sum.
LEMMA TotalRenamed ==
  ASSUME NEW D, NEW f, Amounts(D, f), NEW E, NEW g, g \in [E -> Nat],
         NEW r, Renames(r, D, f, E, g)
  PROVE  Amounts(E, g) /\ Total(g) = Total(f)
<1>0. /\ IsFiniteSet(D) /\ f \in [D -> Nat] /\ r \in [D -> E]
      /\ \A a, b \in D : r[a] = r[b] => a = b
      /\ \A e \in E : \E d \in D : r[d] = e
      /\ \A d \in D : g[r[d]] = f[d]
  BY DEF Amounts, Renames
<1> DEFINE h == [c \in Units(f) |-> <<r[c[1]], c[2]>>]
<1>1. Amounts(E, g)
  BY <1>0, SameCount DEF Amounts
<1>2. IsFiniteSet(Units(f))
  BY TotalIsNat
<1>3. \A c \in Units(f) : \E x, u : x \in D /\ u \in 1..f[x] /\ c = <<x, u>>
  BY <1>0, UnitsOf
<1>4. h \in [Units(f) -> Units(g)]
  <2> SUFFICES ASSUME NEW c \in Units(f) PROVE <<r[c[1]], c[2]>> \in Units(g)
    OBVIOUS
  <2>1. PICK x, u : x \in D /\ u \in 1..f[x] /\ c = <<x, u>>
    BY <1>3
  <2>2. r[x] \in E /\ u \in 1..g[r[x]] /\ <<r[c[1]], c[2]>> = <<r[x], u>>
    BY <2>1, <1>0
  <2> QED BY <2>2, UnitsOf
<1>5. ASSUME NEW c \in Units(f), NEW d \in Units(f), h[c] = h[d] PROVE c = d
  <2>1. PICK x, u : x \in D /\ u \in 1..f[x] /\ c = <<x, u>>
    BY <1>3
  <2>2. PICK y, v : y \in D /\ v \in 1..f[y] /\ d = <<y, v>>
    BY <1>3
  <2>3. <<r[x], u>> = <<r[y], v>>
    BY <2>1, <2>2, <1>5
  <2>4. r[x] = r[y] /\ u = v
    BY <2>3
  <2> QED BY <2>1, <2>2, <2>4, <1>0
<1>6. ASSUME NEW e \in Units(g) PROVE \E c \in Units(f) : h[c] = e
  <2>1. PICK y, u : y \in E /\ u \in 1..g[y] /\ e = <<y, u>>
    BY UnitsOf
  <2>2. PICK x \in D : r[x] = y
    BY <2>1, <1>0
  <2>3. u \in 1..f[x] /\ <<x, u>> \in Units(f)
    BY <2>1, <2>2, <1>0, UnitsOf
  <2>4. h[<<x, u>>] = e
    BY <2>1, <2>2, <2>3
  <2> QED BY <2>3, <2>4
<1> HIDE DEF h
<1> QED BY <1>1, <1>2, <1>4, <1>5, <1>6, SameCount DEF Total

\* A term is no more than the sum, and less when another term is not zero.
LEMMA TotalExceeds ==
  ASSUME NEW D, NEW f, Amounts(D, f), NEW x \in D
  PROVE  /\ f[x] \in Nat /\ Total(f) \in Nat /\ f[x] <= Total(f)
         /\ \A y \in D : y # x /\ f[y] > 0 => f[x] < Total(f)
<1> DEFINE E == D \ {x}
           g == [y \in E |-> f[y]]
<1>1. Amounts(E, g) /\ LeavesOut(D, f, x, E, g)
  BY FS_RemoveElement DEF Amounts, LeavesOut
<1>2. f[x] \in Nat /\ Total(f) \in Nat /\ Total(g) \in Nat /\ Total(f) = f[x] + Total(g)
  BY <1>1, TotalWithout
<1>3. ASSUME NEW y \in D, y # x, f[y] > 0 PROVE Total(g) > 0
  <2> DEFINE F == E \ {y}
             h == [z \in F |-> g[z]]
  <2>1. y \in E /\ g[y] = f[y]
    BY <1>3
  <2> HIDE DEF E, g
  <2>2. Amounts(F, h) /\ LeavesOut(E, g, y, F, h)
    BY <1>1, <2>1, FS_RemoveElement DEF Amounts, LeavesOut
  <2>3. g[y] \in Nat /\ Total(h) \in Nat /\ Total(g) = g[y] + Total(h)
    BY <1>1, <2>2, TotalWithout
  <2> QED BY <2>1, <2>3, <1>3
<1> HIDE DEF E, g
<1> QED BY <1>2, <1>3

\* A changed term changes the sum by as much.
LEMMA TotalOfChange ==
  ASSUME NEW D, NEW f, Amounts(D, f), NEW g, Amounts(D, g), NEW x \in D,
         \A y \in D \ {x} : g[y] = f[y]
  PROVE  /\ Total(f) \in Nat /\ Total(g) \in Nat /\ f[x] \in Nat /\ g[x] \in Nat
         /\ Total(f) + g[x] = Total(g) + f[x]
<1> DEFINE E == D \ {x}
           h == [y \in E |-> f[y]]
<1>1. Amounts(E, h) /\ LeavesOut(D, f, x, E, h) /\ LeavesOut(D, g, x, E, h)
  BY FS_RemoveElement DEF Amounts, LeavesOut
<1> HIDE DEF E, h
<1>2. f[x] \in Nat /\ Total(f) \in Nat /\ Total(h) \in Nat /\ Total(f) = f[x] + Total(h)
  BY <1>1, TotalWithout
<1>3. g[x] \in Nat /\ Total(g) \in Nat /\ Total(g) = g[x] + Total(h)
  BY <1>1, TotalWithout
<1> QED BY <1>2, <1>3

\* A term appended to a sum.
LEMMA TotalOfAppend ==
  ASSUME NEW n \in Nat, NEW f \in [1..n -> Nat], NEW g \in [1..(n + 1) -> Nat],
         \A j \in 1..n : g[j] = f[j]
  PROVE  /\ Total(f) \in Nat /\ Total(g) \in Nat /\ g[n + 1] \in Nat
         /\ Total(g) = Total(f) + g[n + 1]
<1>1. Amounts(1..n, f) /\ Amounts(1..(n + 1), g)
  <2>1. IsFiniteSet(1..n) /\ IsFiniteSet(1..(n + 1))
    BY FS_Interval
  <2> QED BY <2>1 DEF Amounts
<1>2. LeavesOut(1..(n + 1), g, n + 1, 1..n, f)
  BY DEF LeavesOut
<1>3. /\ g[n + 1] \in Nat /\ Total(g) \in Nat /\ Total(f) \in Nat
      /\ Total(g) = g[n + 1] + Total(f)
  BY <1>1, <1>2, TotalWithout
<1> QED BY <1>3

\* A term leaves a sum and those behind it move up.
LEMMA TotalOfRemoval ==
  ASSUME NEW n \in Nat, NEW f \in [1..n -> Nat], NEW i \in 1..n, NEW g \in [1..(n - 1) -> Nat],
         \A j \in 1..(n - 1) : g[j] = f[IF j < i THEN j ELSE j + 1]
  PROVE  /\ Total(f) \in Nat /\ Total(g) \in Nat /\ f[i] \in Nat
         /\ Total(f) = Total(g) + f[i]
<1> DEFINE D == 1..n
           E == D \ {i}
           h == [j \in E |-> f[j]]
           G == 1..(n - 1)
           r == [j \in G |-> IF j < i THEN j ELSE j + 1]
<1>1. Amounts(D, f) /\ Amounts(G, g)
  <2>1. IsFiniteSet(1..n) /\ IsFiniteSet(1..(n - 1))
    BY FS_Interval
  <2> QED BY <2>1 DEF Amounts
<1>2. h \in [E -> Nat] /\ \A j \in E : h[j] = f[j]
  OBVIOUS
<1>3. Renames(r, G, g, E, h)
  <2>1. r \in [G -> E]
    OBVIOUS
  <2>2. \A a, b \in G : r[a] = r[b] => a = b
    OBVIOUS
  <2>3. ASSUME NEW e \in E PROVE \E j \in G : r[j] = e
    <3>1. CASE e < i
      BY <3>1
    <3>2. CASE ~(e < i)
      <4>1. e - 1 \in G /\ r[e - 1] = e
        BY <3>2
      <4> QED BY <4>1
    <3> QED BY <3>1, <3>2
  <2>4. \A j \in G : h[r[j]] = g[j]
    BY <2>1
  <2> HIDE DEF D, E, h, G, r
  <2> QED BY <2>1, <2>2, <2>3, <2>4 DEF Renames
<1>4. Amounts(E, h) /\ Total(h) = Total(g)
  <2> HIDE DEF D, E, h, G, r
  <2> QED BY <1>1, <1>2, <1>3, TotalRenamed
<1>5. LeavesOut(D, f, i, E, h)
  BY <1>2 DEF LeavesOut
<1>6. f[i] \in Nat /\ Total(f) \in Nat /\ Total(h) \in Nat /\ Total(f) = f[i] + Total(h)
  <2> HIDE DEF D, E, h
  <2> QED BY <1>1, <1>4, <1>5, TotalWithout
<1> HIDE DEF D, E, h, G, r
<1> QED BY <1>4, <1>6

-----------------------------------------------------------------------------
(* Lemmas on the plan's walk.                                              *)

\* Quantity of the first n nodes of a queue.
DepthOf(s, n) == Total([j \in 1..n |-> s[j].remainingQuantity])

\* Each node adds its quantity to the depth.
LEMMA DepthGrows ==
  ASSUME NEW s \in Seq(OrderNodes)
  PROVE  /\ DepthOf(s, 0) = 0
         /\ \A n \in 0..Len(s) : DepthOf(s, n) \in Nat
         /\ \A n \in 1..Len(s) : DepthOf(s, n) = DepthOf(s, n - 1) + s[n].remainingQuantity
<1>1. Len(s) \in Nat /\ \A j \in 1..Len(s) : s[j] \in OrderNodes
  BY LenProperties, ElementOfSeq
<1>2. \A j \in 1..Len(s) : s[j].remainingQuantity \in Nat
  BY <1>1 DEF OrderNodes
<1>3. DepthOf(s, 0) = 0
  <2>1. 1..0 = {}
    OBVIOUS
  <2>2. [j \in 1..0 |-> s[j].remainingQuantity] \in [{} -> Nat]
    BY <2>1
  <2> QED BY <2>2, TotalOfNone DEF DepthOf
<1>4. ASSUME NEW n \in 0..Len(s)
      PROVE  /\ [j \in 1..n |-> s[j].remainingQuantity] \in [1..n -> Nat]
             /\ Amounts(1..n, [j \in 1..n |-> s[j].remainingQuantity])
  <2>1. n \in Int /\ 1 \in Int
    BY <1>1
  <2>2. IsFiniteSet(1..n)
    BY <2>1, FS_Interval
  <2>3. \A j \in 1..n : s[j].remainingQuantity \in Nat
    BY <1>1, <1>2
  <2> QED BY <2>2, <2>3 DEF Amounts
<1>5. \A n \in 0..Len(s) : DepthOf(s, n) \in Nat
  BY <1>4, TotalIsNat DEF DepthOf
<1>6. ASSUME NEW n \in 1..Len(s)
      PROVE  DepthOf(s, n) = DepthOf(s, n - 1) + s[n].remainingQuantity
  <2> DEFINE f == [j \in 1..(n - 1) |-> s[j].remainingQuantity]
             g == [j \in 1..n |-> s[j].remainingQuantity]
  <2>1. n \in 0..Len(s) /\ n - 1 \in 0..Len(s) /\ n \in 1..n /\ (n - 1) + 1 = n /\ n - 1 \in Nat
    BY <1>1
  <2>2. f \in [1..(n - 1) -> Nat] /\ g \in [1..n -> Nat] /\ g[n] = s[n].remainingQuantity
    BY <1>4, <2>1
  <2>3. \A j \in 1..(n - 1) : g[j] = f[j]
    BY <2>1
  <2>4. Total(f) = DepthOf(s, n - 1) /\ Total(g) = DepthOf(s, n)
    BY DEF DepthOf
  <2> HIDE DEF f, g
  <2>5. Total(g) = Total(f) + g[n]
    <3>1. PICK k \in Nat : k = n - 1
      BY <2>1
    <3>2. k + 1 = n
      BY <3>1, <2>1
    <3>3. Total(f) \in Nat /\ Total(g) \in Nat /\ g[k + 1] \in Nat /\ Total(g) = Total(f) + g[k + 1]
      BY <3>1, <3>2, <2>2, <2>3, TotalOfAppend
    <3> QED BY <3>2, <3>3
  <2> QED BY <2>2, <2>4, <2>5
<1> QED BY <1>3, <1>5, <1>6

\* The plan after the first n makers, by depth.
PlanAfter(quantity, s, n) ==
  [remainder |-> quantity - Lesser(quantity, DepthOf(s, n)),
   executionCount |-> Cardinality({i \in 1..n : DepthOf(s, i - 1) < quantity}),
   meetsZero |-> FALSE]

\* One visit takes the plan by depth to the next one.
LEMMA PlanStep ==
  ASSUME NEW quantity \in Nat, NEW s \in Seq(OrderNodes),
         \A i \in 1..Len(s) : s[i].remainingQuantity > 0,
         NEW n \in 1..Len(s)
  PROVE  PlanAfter(quantity, s, n) = PlanVisit(PlanAfter(quantity, s, n - 1), s[n])
<1> DEFINE d == DepthOf(s, n - 1)
           r == s[n].remainingQuantity
           C(k) == {i \in 1..k : DepthOf(s, i - 1) < quantity}
<1>1. Len(s) \in Nat
  BY LenProperties
<1>2. n \in Nat /\ n - 1 \in Nat /\ n - 1 \in 0..Len(s) /\ s[n] \in OrderNodes
  BY <1>1, ElementOfSeq
<1>3. d \in Nat /\ r \in Nat /\ r > 0 /\ DepthOf(s, n) = d + r
  BY <1>2, DepthGrows DEF OrderNodes
<1>4. IsFiniteSet(C(n - 1)) /\ Cardinality(C(n - 1)) \in Nat /\ n \notin C(n - 1)
  <2>1. IsFiniteSet(1..(n - 1))
    BY <1>2, FS_Interval
  <2>2. C(n - 1) \in SUBSET (1..(n - 1)) /\ n \notin 1..(n - 1)
    BY <1>2
  <2> HIDE DEF C
  <2> QED BY <2>1, <2>2, FS_Subset, FS_CardinalityType
<1>5. C(n) = IF d < quantity THEN C(n - 1) \cup {n} ELSE C(n - 1)
  <2>1. \A i : i \in 1..n <=> i \in 1..(n - 1) \/ i = n
    BY <1>2
  <2> QED BY <2>1
<1>6. Cardinality(C(n)) = IF d < quantity THEN Cardinality(C(n - 1)) + 1 ELSE Cardinality(C(n - 1))
  <2> HIDE DEF C, d
  <2>1. Cardinality(C(n - 1) \cup {n}) = Cardinality(C(n - 1)) + 1
    BY <1>4, FS_AddElement
  <2> QED BY <2>1, <1>5
<1> DEFINE before == [remainder |-> quantity - Lesser(quantity, d),
                      executionCount |-> Cardinality(C(n - 1)), meetsZero |-> FALSE]
<1>7. PlanAfter(quantity, s, n - 1) = before
  BY DEF PlanAfter
<1>8. PlanAfter(quantity, s, n) =
        [remainder |-> quantity - Lesser(quantity, d + r),
         executionCount |-> Cardinality(C(n)), meetsZero |-> FALSE]
  BY <1>3 DEF PlanAfter
<1> HIDE DEF C, d
<1>9. CASE d < quantity
  <2>1. before.remainder = quantity - d /\ before.remainder # 0
    BY <1>3, <1>9 DEF Lesser
  <2>2. before.remainder - Lesser(before.remainder, r) = quantity - Lesser(quantity, d + r)
    <3> HIDE DEF r, before
    <3> QED BY <1>3, <1>9, <2>1 DEF Lesser
  <2>3. PlanVisit(before, s[n]) =
          [remainder |-> before.remainder - Lesser(before.remainder, r),
           executionCount |-> before.executionCount + 1,
           meetsZero |-> before.meetsZero \/ r = 0]
    BY <2>1 DEF PlanVisit
  <2>4. before.meetsZero = FALSE /\ r # 0 /\ before.executionCount + 1 = Cardinality(C(n))
    BY <1>3, <1>6, <1>9
  <2>5. (before.meetsZero \/ r = 0) = FALSE
    BY <2>4
  <2> HIDE DEF before, r
  <2> QED BY <2>2, <2>3, <2>4, <2>5, <1>7, <1>8
<1>10. CASE ~(d < quantity)
  <2>1. before.remainder = 0 /\ quantity - Lesser(quantity, d + r) = 0
    BY <1>3, <1>10 DEF Lesser
  <2>2. PlanVisit(before, s[n]) = before
    BY <2>1 DEF PlanVisit
  <2>3. quantity - Lesser(quantity, d) = 0
    BY <2>1
  <2>4. PlanAfter(quantity, s, n) = before
    BY <2>1, <2>3, <1>6, <1>8, <1>10
  <2> QED BY <2>2, <2>4, <1>7
<1> QED BY <1>9, <1>10

\* What planMatches walks to: the plan by depth past every maker.
LEMMA PlanWalkByDepth ==
  ASSUME NEW quantity \in Nat, NEW s \in Seq(OrderNodes),
         \A i \in 1..Len(s) : s[i].remainingQuantity > 0
  PROVE  PlanWalk(quantity, s) = PlanAfter(quantity, s, Len(s))
<1> DEFINE start == [remainder |-> quantity, executionCount |-> 0, meetsZero |-> FALSE]
           l == Len(s)
           F(a) == [n \in 0..l |-> IF n = 0 THEN start ELSE PlanVisit(a[n - 1], s[n])]
           after == CHOOSE a : a = F(a)
           closed == [n \in 0..l |-> PlanAfter(quantity, s, n)]
<1>1. l \in Nat
  BY LenProperties
<1>2. PlanAfter(quantity, s, 0) = start
  <2>1. {i \in 1..0 : DepthOf(s, i - 1) < quantity} = {}
    OBVIOUS
  <2>2. DepthOf(s, 0) = 0 /\ quantity - Lesser(quantity, 0) = quantity
    BY DepthGrows DEF Lesser
  <2>3. Cardinality({}) = 0
    BY FS_EmptySet
  <2> QED BY <2>1, <2>2, <2>3 DEF PlanAfter
<1>3. closed = F(closed)
  <2>1. ASSUME NEW n \in 0..l, n # 0
        PROVE  closed[n] = PlanVisit(closed[n - 1], s[n])
    <3>1. n \in 1..l /\ n - 1 \in 0..l
      BY <1>1, <2>1
    <3>2. closed[n - 1] = PlanAfter(quantity, s, n - 1) /\ closed[n] = PlanAfter(quantity, s, n)
      BY <3>1
    <3> HIDE DEF closed
    <3> QED BY <3>1, <3>2, PlanStep
  <2>2. closed[0] = start
    BY <1>1, <1>2
  <2> QED BY <2>1, <2>2
<1>4. after = F(after)
  <2> HIDE DEF closed, F
  <2> QED BY <1>3
<1>5. PlanWalk(quantity, s) = after[l]
  BY DEF PlanWalk
<1> HIDE DEF after
<1>6. after[0] = start /\ \A n \in 1..l : after[n] = PlanVisit(after[n - 1], s[n])
  <2>1. 0 \in 0..l /\ \A n \in 1..l : n \in 0..l /\ n # 0
    BY <1>1
  <2> QED BY <1>4, <2>1
<1> DEFINE S == {n \in 0..l : after[n] = PlanAfter(quantity, s, n)}
<1>7. 0 \in S
  <2>1. 0 \in 0..l /\ after[0] = PlanAfter(quantity, s, 0)
    BY <1>1, <1>2, <1>6
  <2> HIDE DEF l, start
  <2> QED BY <2>1
<1>8. ASSUME NEW n \in 0..(l - 1), n \in S PROVE n + 1 \in S
  <2>1. n + 1 \in 1..l /\ n + 1 \in 0..l /\ (n + 1) - 1 = n
    BY <1>1
  <2>2. after[n + 1] = PlanVisit(after[n], s[n + 1])
    BY <2>1, <1>6
  <2>3. PlanAfter(quantity, s, n + 1) = PlanVisit(PlanAfter(quantity, s, n), s[n + 1])
    BY <2>1, PlanStep
  <2> QED BY <2>1, <2>2, <2>3, <1>8
<1>9. l \in S
  <2> HIDE DEF S, l
  <2>1. \A n \in 0..l : n \in S
    BY <1>1, <1>7, <1>8, CountingUp
  <2> QED BY <2>1, <1>1
<1> QED BY <1>5, <1>9

-----------------------------------------------------------------------------
(* The quantity of a queue through the changes a handler makes to it.      *)

\* The terms of a queue's quantity.
LEMMA QueueAmounts ==
  ASSUME NEW q \in Seq(OrderNodes)
  PROVE  LET f == [i \in DOMAIN q |-> q[i].remainingQuantity]
         IN /\ Len(q) \in Nat /\ DOMAIN q = 1..Len(q)
            /\ Amounts(1..Len(q), f) /\ f \in [1..Len(q) -> Nat]
            /\ \A i \in 1..Len(q) : f[i] = q[i].remainingQuantity
            /\ RestingQuantity(q) = Total(f)
<1> DEFINE f == [i \in DOMAIN q |-> q[i].remainingQuantity]
<1>1. Len(q) \in Nat /\ DOMAIN q = 1..Len(q) /\ \A i \in 1..Len(q) : q[i] \in OrderNodes
  BY LenProperties, ElementOfSeq
<1>2. \A i \in 1..Len(q) : q[i].remainingQuantity \in Nat
  BY <1>1 DEF OrderNodes
<1>3. f \in [1..Len(q) -> Nat] /\ \A i \in 1..Len(q) : f[i] = q[i].remainingQuantity
  BY <1>1, <1>2
<1>4. IsFiniteSet(1..Len(q))
  BY <1>1, FS_Interval
<1>5. RestingQuantity(q) = Total(f)
  BY DEF RestingQuantity
<1> HIDE DEF f
<1>6. Amounts(1..Len(q), f)
  BY <1>3, <1>4 DEF Amounts
<1> QED BY <1>1, <1>3, <1>5, <1>6 DEF f

\* A node leaves the queue.
LEMMA RestingWithout ==
  ASSUME NEW q \in Seq(OrderNodes), NEW i \in 1..Len(q), NEW rest \in Seq(OrderNodes),
         Len(rest) = Len(q) - 1,
         \A j \in 1..(Len(q) - 1) : rest[j] = q[IF j < i THEN j ELSE j + 1]
  PROVE  /\ RestingQuantity(q) \in Nat /\ RestingQuantity(rest) \in Nat
         /\ q[i].remainingQuantity \in Nat
         /\ RestingQuantity(q) = RestingQuantity(rest) + q[i].remainingQuantity
<1> DEFINE n == Len(q)
           f == [j \in DOMAIN q |-> q[j].remainingQuantity]
           g == [j \in DOMAIN rest |-> rest[j].remainingQuantity]
<1>1. /\ n \in Nat /\ f \in [1..n -> Nat] /\ RestingQuantity(q) = Total(f)
      /\ \A j \in 1..n : f[j] = q[j].remainingQuantity
  BY QueueAmounts
<1>2. /\ g \in [1..(n - 1) -> Nat] /\ RestingQuantity(rest) = Total(g)
      /\ \A j \in 1..(n - 1) : g[j] = rest[j].remainingQuantity
  BY QueueAmounts
<1> HIDE DEF f, g
<1>3. \A j \in 1..(n - 1) : g[j] = f[IF j < i THEN j ELSE j + 1]
  <2> SUFFICES ASSUME NEW j \in 1..(n - 1) PROVE g[j] = f[IF j < i THEN j ELSE j + 1]
    OBVIOUS
  <2> DEFINE a == IF j < i THEN j ELSE j + 1
  <2>1. a \in 1..n
    BY <1>1
  <2>2. rest[j] = q[a]
    OBVIOUS
  <2> HIDE DEF a
  <2>3. g[j] = f[a]
    BY <2>1, <2>2, <1>1, <1>2
  <2> QED BY <2>3 DEF a
<1>4. f[i] = q[i].remainingQuantity
  BY <1>1
<1> HIDE DEF n
<1>5. i \in 1..n
  BY DEF n
<1>6. Total(f) \in Nat /\ Total(g) \in Nat /\ f[i] \in Nat /\ Total(f) = Total(g) + f[i]
  BY <1>1, <1>2, <1>3, <1>5, TotalOfRemoval
<1> QED BY <1>1, <1>2, <1>4, <1>6

\* The front node is partly filled.
LEMMA RestingShrunk ==
  ASSUME NEW q \in Seq(OrderNodes), NEW q2 \in Seq(OrderNodes), Len(q) # 0, Len(q2) = Len(q),
         \A j \in 2..Len(q) : q2[j] = q[j]
  PROVE  /\ RestingQuantity(q) \in Nat /\ RestingQuantity(q2) \in Nat
         /\ q[1].remainingQuantity \in Nat /\ q2[1].remainingQuantity \in Nat
         /\ RestingQuantity(q) + q2[1].remainingQuantity = RestingQuantity(q2) + q[1].remainingQuantity
<1> DEFINE n == Len(q)
           D == 1..n
           f == [j \in DOMAIN q |-> q[j].remainingQuantity]
           g == [j \in DOMAIN q2 |-> q2[j].remainingQuantity]
<1>1. /\ n \in Nat /\ Amounts(D, f) /\ RestingQuantity(q) = Total(f)
      /\ \A j \in D : f[j] = q[j].remainingQuantity
  BY QueueAmounts
<1>2. /\ Amounts(D, g) /\ RestingQuantity(q2) = Total(g)
      /\ \A j \in D : g[j] = q2[j].remainingQuantity
  BY QueueAmounts
<1> HIDE DEF f, g
<1>3. 1 \in D /\ \A j \in D \ {1} : j \in 2..n
  BY <1>1
<1>4. \A j \in D \ {1} : g[j] = f[j]
  BY <1>1, <1>2, <1>3
<1> HIDE DEF D
<1>5. /\ Total(f) \in Nat /\ Total(g) \in Nat /\ f[1] \in Nat /\ g[1] \in Nat
      /\ Total(f) + g[1] = Total(g) + f[1]
  BY <1>1, <1>2, <1>3, <1>4, TotalOfChange
<1> QED BY <1>1, <1>2, <1>3, <1>5

\* A node joins the back.
LEMMA RestingPushed ==
  ASSUME NEW q \in Seq(OrderNodes), NEW node \in OrderNodes
  PROVE  /\ RestingQuantity(q) \in Nat /\ node.remainingQuantity \in Nat
         /\ RestingQuantity(Append(q, node)) = RestingQuantity(q) + node.remainingQuantity
<1> DEFINE n == Len(q)
           q2 == Append(q, node)
           f == [j \in DOMAIN q |-> q[j].remainingQuantity]
           g == [j \in DOMAIN q2 |-> q2[j].remainingQuantity]
<1>1. /\ n \in Nat /\ f \in [1..n -> Nat] /\ RestingQuantity(q) = Total(f)
      /\ \A j \in 1..n : f[j] = q[j].remainingQuantity
  BY QueueAmounts
<1>2. q2 \in Seq(OrderNodes) /\ Len(q2) = n + 1 /\ (\A j \in 1..n : q2[j] = q[j]) /\ q2[n + 1] = node
  BY AppendProperties
<1> HIDE DEF q2
<1>3. /\ g \in [1..(n + 1) -> Nat] /\ RestingQuantity(q2) = Total(g)
      /\ \A j \in 1..(n + 1) : g[j] = q2[j].remainingQuantity
  BY <1>2, QueueAmounts
<1> HIDE DEF f, g, n
<1>4. n + 1 \in 1..(n + 1) /\ \A j \in 1..n : j \in 1..(n + 1)
  BY <1>1
<1>5. \A j \in 1..n : g[j] = f[j]
  BY <1>1, <1>2, <1>3, <1>4
<1>6. /\ Total(f) \in Nat /\ Total(g) \in Nat /\ g[n + 1] \in Nat
      /\ Total(g) = Total(f) + g[n + 1]
  BY <1>1, <1>3, <1>5, TotalOfAppend
<1>7. g[n + 1] = node.remainingQuantity
  BY <1>2, <1>3, <1>4
<1> QED BY <1>1, <1>3, <1>6, <1>7 DEF q2

\* A queue of one node holds its quantity, a longer one holds more than any of its nodes.
LEMMA RestingOfNode ==
  ASSUME NEW q \in Seq(OrderNodes), NEW i \in 1..Len(q),
         \A j \in 1..Len(q) : q[j].remainingQuantity > 0
  PROVE  /\ q[i].remainingQuantity \in Nat /\ RestingQuantity(q) \in Nat
         /\ IF Len(q) = 1 THEN RestingQuantity(q) = q[i].remainingQuantity
            ELSE RestingQuantity(q) > q[i].remainingQuantity
<1> DEFINE n == Len(q)
           D == 1..n
           f == [j \in DOMAIN q |-> q[j].remainingQuantity]
<1>1. /\ n \in Nat /\ Amounts(D, f) /\ f \in [D -> Nat] /\ RestingQuantity(q) = Total(f)
      /\ \A j \in D : f[j] = q[j].remainingQuantity
  BY QueueAmounts
<1> HIDE DEF f
<1>2. /\ f[i] \in Nat /\ Total(f) \in Nat
      /\ \A j \in D : j # i /\ f[j] > 0 => f[i] < Total(f)
  BY <1>1, TotalExceeds
<1>3. CASE n = 1
  <2> DEFINE g == [j \in {} |-> 0]
  <2>1. i = 1 /\ D \ {i} = {}
    BY <1>3
  <2>2. g \in [{} -> Nat] /\ Amounts({}, g)
    BY FS_EmptySet DEF Amounts
  <2>3. LeavesOut(D, f, i, {}, g)
    BY <2>1 DEF LeavesOut
  <2>4. Total(g) = 0
    BY <2>2, TotalOfNone
  <2> HIDE DEF D, g
  <2>5. f[i] \in Nat /\ Total(f) \in Nat /\ Total(g) \in Nat /\ Total(f) = f[i] + Total(g)
    BY <1>1, <2>2, <2>3, TotalWithout
  <2>6. f[i] = q[i].remainingQuantity
    BY <1>1 DEF D
  <2> QED BY <1>1, <1>3, <2>4, <2>5, <2>6
<1>4. CASE n # 1
  <2>1. PICK j \in D : j # i
    <3>1. 1 \in D /\ n \in D
      BY <1>1
    <3> QED BY <3>1, <1>4
  <2>2. f[j] > 0 /\ f[i] = q[i].remainingQuantity
    BY <1>1
  <2> QED BY <1>1, <1>2, <1>4, <2>1, <2>2
<1> QED BY <1>3, <1>4

-----------------------------------------------------------------------------
(* The order in which the makers are walked.                               *)

\* B is a strict total order of S.
StrictOrder(S, B) ==
  /\ \A a \in S : <<a, a>> \notin B
  /\ \A a, b, c \in S : <<a, b>> \in B /\ <<b, c>> \in B => <<a, c>> \in B
  /\ \A a, b \in S : a # b => <<a, b>> \in B \/ <<b, a>> \in B

RankIn(S, B, a) == Cardinality({b \in S : <<b, a>> \in B}) + 1

\* The ranks of a finite total order are the numbers up to its size, one each.
LEMMA Ranking ==
  ASSUME NEW S, IsFiniteSet(S), NEW B, StrictOrder(S, B)
  PROVE  /\ Cardinality(S) \in Nat
         /\ \A a \in S : RankIn(S, B, a) \in 1..Cardinality(S)
         /\ \A a, b \in S : RankIn(S, B, a) < RankIn(S, B, b) <=> <<a, b>> \in B
         /\ \A a, b \in S : RankIn(S, B, a) = RankIn(S, B, b) => a = b
         /\ \A n \in 1..Cardinality(S) : \E a \in S : RankIn(S, B, a) = n
<1> DEFINE below(a) == {b \in S : <<b, a>> \in B}
           c == Cardinality(S)
           rank == [a \in S |-> RankIn(S, B, a)]
<1>1. c \in Nat
  BY FS_CardinalityType
<1>2. ASSUME NEW a \in S
      PROVE  /\ IsFiniteSet(below(a)) /\ Cardinality(below(a)) \in Nat
             /\ RankIn(S, B, a) = Cardinality(below(a)) + 1
             /\ RankIn(S, B, a) \in 1..c
  <2>1. below(a) \in SUBSET S /\ below(a) \in SUBSET (S \ {a})
    BY DEF StrictOrder
  <2>2. IsFiniteSet(S \ {a}) /\ Cardinality(S \ {a}) = c - 1
    BY FS_RemoveElement
  <2>3. RankIn(S, B, a) = Cardinality(below(a)) + 1
    BY DEF RankIn
  <2> HIDE DEF below, c
  <2>4. IsFiniteSet(below(a)) /\ Cardinality(below(a)) \in Nat /\ Cardinality(below(a)) <= c - 1
    BY <2>1, <2>2, FS_Subset, FS_CardinalityType
  <2> QED BY <2>3, <2>4, <1>1
<1>3. ASSUME NEW a \in S, NEW b \in S, <<a, b>> \in B
      PROVE  RankIn(S, B, a) < RankIn(S, B, b)
  <2>1. below(a) \cup {a} \in SUBSET below(b) /\ a \notin below(a)
    BY <1>3 DEF StrictOrder
  <2> HIDE DEF below
  <2>2. Cardinality(below(a) \cup {a}) = Cardinality(below(a)) + 1
    BY <2>1, <1>2, FS_AddElement
  <2>3. Cardinality(below(a) \cup {a}) <= Cardinality(below(b))
    BY <2>1, <1>2, FS_Subset
  <2> QED BY <2>2, <2>3, <1>2
<1>4. \A a, b \in S : RankIn(S, B, a) = RankIn(S, B, b) => a = b
  <2> SUFFICES ASSUME NEW a \in S, NEW b \in S, RankIn(S, B, a) = RankIn(S, B, b), a # b PROVE FALSE
    OBVIOUS
  <2>1. <<a, b>> \in B \/ <<b, a>> \in B
    BY DEF StrictOrder
  <2> HIDE DEF below
  <2>2. RankIn(S, B, a) \in Int /\ RankIn(S, B, b) \in Int
    BY <1>1, <1>2
  <2> QED BY <2>1, <2>2, <1>3
<1>5. ASSUME NEW a \in S, NEW b \in S, RankIn(S, B, a) < RankIn(S, B, b)
      PROVE  <<a, b>> \in B
  <2> HIDE DEF below
  <2>1. RankIn(S, B, a) \in Int /\ RankIn(S, B, b) \in Int
    BY <1>1, <1>2
  <2>2. a # b
    BY <2>1, <1>5
  <2>3. ~(<<b, a>> \in B)
    <3> SUFFICES ASSUME <<b, a>> \in B PROVE FALSE
      OBVIOUS
    <3>1. RankIn(S, B, b) < RankIn(S, B, a)
      BY <1>3
    <3> QED BY <3>1, <2>1, <1>5
  <2> QED BY <2>2, <2>3 DEF StrictOrder
<1>6. ASSUME NEW n \in 1..c PROVE \E a \in S : RankIn(S, B, a) = n
  <2>1. rank \in [S -> 1..c]
    BY <1>2
  <2>2. rank \in Injection(S, 1..c)
    BY <2>1, <1>4 DEF Injection, IsInjective
  <2>3. IsFiniteSet(1..c) /\ Cardinality(1..c) = c
    BY <1>1, FS_Interval
  <2>4. rank \in Surjection(S, 1..c)
    <3> HIDE DEF rank
    <3> QED BY <2>2, <2>3, FS_Injection
  <2> QED BY <2>4 DEF Surjection
<1> QED BY <1>1, <1>2, <1>3, <1>4, <1>5, <1>6

\* ids lists the orders that m may trade with in the order in which they are filled.
Lists(ids, m) ==
  LET N == Len(Makers(m))
  IN /\ ids \in [1..N -> Eligible(m)]
     /\ \A a, b \in 1..N : ids[a] = ids[b] => a = b
     /\ \A o \in Eligible(m) : \E a \in 1..N : ids[a] = o
     /\ \A a, b \in 1..N : a < b <=> Ahead(ids[a], ids[b])
     /\ \A a \in 1..N : Makers(m)[a].remainingQuantity = activeOrders[ids[a]].remainingQuantity

\* The makers of an order are the nodes of the eligible orders, the first to be filled first.
LEMMA MakersListed ==
  ASSUME BookInv, NEW m \in NewOrders
  PROVE  /\ Makers(m) \in Seq(OrderNodes)
         /\ \A a \in 1..Len(Makers(m)) : Makers(m)[a].remainingQuantity > 0
         /\ IsFiniteSet(Eligible(m))
         /\ \E ids : Lists(ids, m)
<1> DEFINE places == UNION {{k} \X DOMAIN orderBooks[k].orders : k \in Crossing(m)}
           Before(p, q) == IF p[1] = q[1] THEN p[2] < q[2] ELSE NoWorse(p[1], q[1])
           Rank(p) == Cardinality({q \in places : Before(q, p)}) + 1
           Place(n) == CHOOSE p \in places : Rank(p) = n
           node(p) == orderBooks[p[1]].orders[p[2]]
           id(p) == node(p).orderId
           B == {c \in places \X places : Before(c[1], c[2])}
           N == Cardinality(places)
<1>1. ASSUME NEW p
      PROVE  p \in places <=> \E k \in Crossing(m) : \E i \in 1..Len(orderBooks[k].orders) : p = <<k, i>>
  <2>1. \A k \in Crossing(m) : DOMAIN orderBooks[k].orders = 1..Len(orderBooks[k].orders)
    BY LevelFacts DEF Crossing
  <2> QED BY <2>1
<1>2. Makers(m) = [n \in 1..N |-> node(Place(n))]
  BY DEF Makers
<1>3. ASSUME NEW p \in places
      PROVE  /\ p[1] \in Crossing(m) /\ p[1] \in DOMAIN orderBooks
             /\ p[1].side = Opposite(m.type) /\ p[1].price \in Int
             /\ p[1] = [side |-> p[1].side, price |-> p[1].price]
             /\ p[2] \in 1..Len(orderBooks[p[1]].orders) /\ p[2] \in Int
             /\ p = <<p[1], p[2]>>
             /\ node(p) \in OrderNodes /\ NodeIndexed(p[1], node(p), activeOrders)
  <2>1. PICK k \in Crossing(m) : \E i \in 1..Len(orderBooks[k].orders) : p = <<k, i>>
    BY <1>1, <1>3
  <2>2. PICK i \in 1..Len(orderBooks[k].orders) : p = <<k, i>>
    BY <2>1
  <2>3. p[1] = k /\ p[2] = i /\ p = <<p[1], p[2]>>
    BY <2>2
  <2>4. k \in DOMAIN orderBooks /\ k.side = Opposite(m.type)
    BY DEF Crossing
  <2>5. /\ k \in LevelKeys /\ k = [side |-> k.side, price |-> k.price]
        /\ Len(orderBooks[k].orders) \in Nat
        /\ orderBooks[k].orders[i] \in OrderNodes
        /\ NodeIndexed(k, orderBooks[k].orders[i], activeOrders)
    BY <2>4, LevelFacts
  <2>6. k.price \in Int /\ i \in Int
    BY <2>5 DEF LevelKeys, Prices
  <2> HIDE DEF places
  <2> QED BY <2>2, <2>3, <2>4, <2>5, <2>6
<1>4. ASSUME NEW p \in places
      PROVE  /\ id(p) \in Eligible(m)
             /\ activeOrders[id(p)].side = Opposite(m.type)
             /\ activeOrders[id(p)].price = p[1].price
             /\ activeOrders[id(p)].remainingQuantity = node(p).remainingQuantity
             /\ node(p).remainingQuantity > 0 /\ id(p) \in Int
  <2> DEFINE x == node(p)
             k == p[1]
  <2>1. /\ x \in OrderNodes /\ NodeIndexed(k, x, activeOrders) /\ k \in Crossing(m)
        /\ k = [side |-> k.side, price |-> k.price] /\ k.side = Opposite(m.type)
    BY <1>3
  <2>2. id(p) = x.orderId
    OBVIOUS
  <2> HIDE DEF places, x, k, id
  <2>3. /\ x.remainingQuantity > 0 /\ x.orderId \in DOMAIN activeOrders
        /\ activeOrders[x.orderId].side = k.side /\ activeOrders[x.orderId].price = k.price
        /\ activeOrders[x.orderId].remainingQuantity = x.remainingQuantity
    BY <2>1 DEF NodeIndexed
  <2>4. x.orderId \in Eligible(m)
    BY <2>1, <2>3 DEF Eligible
  <2>5. x.orderId \in Int
    BY <2>1 DEF OrderNodes, OrderIds
  <2> QED BY <2>1, <2>2, <2>3, <2>4, <2>5 DEF x, k
<1>5. ASSUME NEW p \in places, NEW q \in places, id(p) = id(q)
      PROVE  p = q
  <2> HIDE DEF places
  <2>0. /\ p[1] \in DOMAIN orderBooks /\ p[2] \in 1..Len(orderBooks[p[1]].orders)
        /\ q[1] \in DOMAIN orderBooks /\ q[2] \in 1..Len(orderBooks[q[1]].orders)
    BY <1>3
  <2>1. p[1] = q[1] /\ p[2] = q[2]
    <3>1. PICK k, i, l, j : k = p[1] /\ i = p[2] /\ l = q[1] /\ j = q[2]
      OBVIOUS
    <3>2. /\ k \in DOMAIN orderBooks /\ i \in 1..Len(orderBooks[k].orders)
          /\ l \in DOMAIN orderBooks /\ j \in 1..Len(orderBooks[l].orders)
      BY <2>0, <3>1
    <3>3. orderBooks[k].orders[i].orderId = orderBooks[l].orders[j].orderId
      BY <1>5, <3>1
    <3>4. k = l /\ i = j
      BY <3>2, <3>3, NodesAreUnique
    <3> QED BY <3>1, <3>4
  <2>2. p = <<p[1], p[2]>> /\ q = <<q[1], q[2]>>
    BY <1>3
  <2> QED BY <2>1, <2>2
<1>6. ASSUME NEW o \in Eligible(m) PROVE \E p \in places : id(p) = o
  <2>1. o \in DOMAIN activeOrders /\ [side |-> activeOrders[o].side, price |-> activeOrders[o].price] \in Crossing(m)
    BY DEF Eligible
  <2>2. PICK k \in DOMAIN orderBooks :
          /\ k = [side |-> activeOrders[o].side, price |-> activeOrders[o].price]
          /\ \E i \in 1..Len(orderBooks[k].orders) : orderBooks[k].orders[i].orderId = o
    BY <2>1, OrderHasNode
  <2>3. PICK i \in 1..Len(orderBooks[k].orders) : orderBooks[k].orders[i].orderId = o
    BY <2>2
  <2>4. k \in Crossing(m)
    BY <2>1, <2>2
  <2>5. <<k, i>> \in places
    BY <2>3, <2>4, <1>1
  <2>6. id(<<k, i>>) = o
    BY <2>3
  <2> QED BY <2>5, <2>6
<1>7. IsFiniteSet(places) /\ IsFiniteSet(Eligible(m))
  <2>1. IsFiniteSet(OrderIds)
    BY ConstantsAssumption, FS_Interval DEF OrderIds
  <2>2. Eligible(m) \in SUBSET OrderIds
    BY DEF Eligible, BookInv, BookTyped
  <2>3. IsFiniteSet(Eligible(m))
    BY <2>1, <2>2, FS_Subset
  <2> DEFINE f == [p \in places |-> id(p)]
  <2>4. f \in [places -> Eligible(m)] /\ \A p, q \in places : f[p] = f[q] => p = q
    <3> HIDE DEF places, id
    <3> QED BY <1>4, <1>5
  <2>5. f \in Injection(places, Eligible(m))
    <3> HIDE DEF f, places
    <3> QED BY <2>4 DEF Injection, IsInjective
  <2> HIDE DEF f, places
  <2> QED BY <2>3, <2>5, FS_Injection
<1>8. ASSUME NEW p \in places, NEW q \in places
      PROVE  Before(p, q) <=> Ahead(id(p), id(q))
  <2> DEFINE x == id(p)
             y == id(q)
  <2>1. /\ activeOrders[x].side = Opposite(m.type) /\ activeOrders[x].price = p[1].price
        /\ activeOrders[y].side = Opposite(m.type) /\ activeOrders[y].price = q[1].price
        /\ x \in Int /\ y \in Int
    <3> HIDE DEF places, id
    <3> QED BY <1>4
  <2>2. /\ p[1].side = Opposite(m.type) /\ q[1].side = Opposite(m.type)
        /\ p[1].price \in Int /\ q[1].price \in Int
        /\ p[1] = [side |-> p[1].side, price |-> p[1].price]
        /\ q[1] = [side |-> q[1].side, price |-> q[1].price]
    <3> HIDE DEF places
    <3> QED BY <1>3
  <2>3. p[1] = q[1] <=> p[1].price = q[1].price
    BY <2>2
  <2>4. CASE p[1] = q[1]
    <3>1. Before(p, q) <=> p[2] < q[2]
      BY <2>4
    <3>2. Ahead(x, y) <=> x < y
      <4> HIDE DEF x, y
      <4> QED BY <2>1, <2>3, <2>4 DEF Ahead
    <3>3. x < y <=> p[2] < q[2]
      <4> DEFINE k == p[1]
                 i == p[2]
                 j == q[2]
      <4>1. /\ k \in DOMAIN orderBooks /\ i \in DOMAIN orderBooks[k].orders
            /\ j \in DOMAIN orderBooks[k].orders /\ i \in Int /\ j \in Int
        <5> HIDE DEF places
        <5>1. /\ p[1] \in DOMAIN orderBooks /\ p[2] \in 1..Len(orderBooks[p[1]].orders)
              /\ q[2] \in 1..Len(orderBooks[q[1]].orders) /\ p[2] \in Int /\ q[2] \in Int
          BY <1>3
        <5> QED BY <5>1, <2>4, LevelFacts
      <4>2. x = orderBooks[k].orders[i].orderId /\ y = orderBooks[k].orders[j].orderId
        BY <2>4
      <4> HIDE DEF x, y, k, i, j
      <4>3. (i < j => x < y) /\ (j < i => y < x) /\ (i = j => x = y)
        BY <4>1, <4>2 DEF BookInv, TimePriority
      <4>4. x < y <=> i < j
        BY <4>1, <4>3, <2>1
      <4> QED BY <4>4 DEF i, j
    <3> QED BY <3>1, <3>2, <3>3
  <2>5. CASE p[1] # q[1]
    <3>1. Before(p, q) <=> NoWorse(p[1], q[1])
      BY <2>5
    <3>2. NoWorse(activeOrders[x], activeOrders[y]) <=> NoWorse(p[1], q[1])
      <4> HIDE DEF x, y
      <4> QED BY <2>1, <2>2 DEF NoWorse
    <3>3. Ahead(x, y) <=> NoWorse(p[1], q[1])
      <4> HIDE DEF x, y
      <4> QED BY <2>1, <2>3, <2>5, <3>2 DEF Ahead
    <3> QED BY <3>1, <3>3
  <2> QED BY <2>4, <2>5
<1>9. StrictOrder(places, B)
  <2>1. ASSUME NEW p \in places, NEW q \in places
        PROVE  <<p, q>> \in B <=> Before(p, q)
    OBVIOUS
  <2>2. ASSUME NEW p \in places, NEW q \in places
        PROVE  /\ p[1] = q[1] <=> p[1].price = q[1].price
               /\ p = q <=> p[1] = q[1] /\ p[2] = q[2]
               /\ p[1].price \in Int /\ q[1].price \in Int /\ p[2] \in Int /\ q[2] \in Int
               /\ p[1].side = Opposite(m.type)
    <3> HIDE DEF places
    <3>1. /\ p[1].side = Opposite(m.type) /\ q[1].side = Opposite(m.type)
          /\ p[1].price \in Int /\ q[1].price \in Int /\ p[2] \in Int /\ q[2] \in Int
          /\ p[1] = [side |-> p[1].side, price |-> p[1].price]
          /\ q[1] = [side |-> q[1].side, price |-> q[1].price]
          /\ p = <<p[1], p[2]>> /\ q = <<q[1], q[2]>>
      BY <1>3
    <3>2. p[1] = q[1] <=> p[1].price = q[1].price
      BY <3>1
    <3>3. p = q <=> p[1] = q[1] /\ p[2] = q[2]
      BY <3>1
    <3> QED BY <3>1, <3>2, <3>3
  <2>3. ASSUME NEW p \in places, NEW q \in places
        PROVE  Before(p, q) <=> \/ p[1].price = q[1].price /\ p[2] < q[2]
                                \/ p[1].price # q[1].price /\ NoWorse(p[1], q[1])
    <3> HIDE DEF places
    <3> QED BY <2>2
  <2>4. \A p \in places : ~Before(p, p)
    <3> HIDE DEF places
    <3> QED BY <2>2
  <2>5. ASSUME NEW a \in places, NEW b \in places, NEW c \in places, Before(a, b), Before(b, c)
        PROVE  Before(a, c)
    <3> HIDE DEF places, Before
    <3> QED BY <2>2, <2>3, <2>5 DEF NoWorse
  <2>6. ASSUME NEW a \in places, NEW b \in places, a # b
        PROVE  Before(a, b) \/ Before(b, a)
    <3> HIDE DEF places, Before
    <3>1. a[1].price # b[1].price \/ a[2] # b[2]
      BY <2>2, <2>6
    <3>2. /\ a[1].price \in Int /\ b[1].price \in Int /\ a[2] \in Int /\ b[2] \in Int
          /\ a[1].side = Opposite(m.type) /\ b[1].side = Opposite(m.type)
      BY <2>2
    <3> QED BY <3>1, <3>2, <2>3 DEF NoWorse
  <2> HIDE DEF places, Before, B
  <2> QED BY <2>1, <2>4, <2>5, <2>6 DEF StrictOrder
<1>10. ASSUME NEW p \in places PROVE Rank(p) = RankIn(places, B, p)
  <2>1. {q \in places : Before(q, p)} = {q \in places : <<q, p>> \in B}
    BY <1>10
  <2> HIDE DEF places, B, Before
  <2> QED BY <2>1 DEF RankIn
<1>11. /\ N \in Nat
       /\ \A p \in places : Rank(p) \in 1..N
       /\ \A p, q \in places : Rank(p) < Rank(q) <=> <<p, q>> \in B
       /\ \A p, q \in places : Rank(p) = Rank(q) => p = q
       /\ \A n \in 1..N : \E p \in places : Rank(p) = n
  <2> HIDE DEF places, B, Rank
  <2> QED BY <1>7, <1>9, <1>10, Ranking
<1>12. \A p, q \in places : <<p, q>> \in B <=> Before(p, q)
  OBVIOUS
<1>13. ASSUME NEW n \in 1..N PROVE Place(n) \in places /\ Rank(Place(n)) = n
  <2> HIDE DEF places, Rank
  <2> QED BY <1>11
<1> HIDE DEF places, Rank, Place, Before, B, N
<1>14. ASSUME NEW a \in 1..N, NEW b \in 1..N
       PROVE  a < b <=> Ahead(id(Place(a)), id(Place(b)))
  <2> HIDE DEF id, node
  <2>1. Place(a) \in places /\ Rank(Place(a)) = a /\ Place(b) \in places /\ Rank(Place(b)) = b
    BY <1>13
  <2>2. a < b <=> <<Place(a), Place(b)>> \in B
    BY <2>1, <1>11
  <2> QED BY <2>1, <2>2, <1>8, <1>12
<1>15. ASSUME NEW a \in 1..N, NEW b \in 1..N, id(Place(a)) = id(Place(b))
       PROVE  a = b
  <2> HIDE DEF id, node
  <2>1. Place(a) = Place(b)
    BY <1>5, <1>13, <1>15
  <2> QED BY <2>1, <1>13
<1>16. ASSUME NEW o \in Eligible(m) PROVE \E a \in 1..N : id(Place(a)) = o
  <2> HIDE DEF id, node
  <2>1. PICK p \in places : id(p) = o
    BY <1>6
  <2>2. Rank(p) \in 1..N
    BY <1>11
  <2>3. Place(Rank(p)) = p
    BY <2>2, <1>11, <1>13
  <2> QED BY <2>1, <2>2, <2>3
<1>17. Makers(m) \in Seq(OrderNodes) /\ Len(Makers(m)) = N /\ \A a \in 1..N : Makers(m)[a] = node(Place(a))
  <2>1. \A a \in 1..N : node(Place(a)) \in OrderNodes
    BY <1>3, <1>13
  <2> HIDE DEF node
  <2>2. [n \in 1..N |-> node(Place(n))] \in Seq(OrderNodes)
    BY <2>1, <1>11, IsASeq
  <2>3. Len(Makers(m)) \in Nat /\ DOMAIN Makers(m) = 1..Len(Makers(m)) /\ DOMAIN Makers(m) = 1..N
    BY <2>2, <1>2, LenProperties
  <2>4. Len(Makers(m)) = N
    <3> DEFINE l == Len(Makers(m))
    <3>1. l \in Nat /\ 1..l = 1..N
      BY <2>3
    <3> HIDE DEF l
    <3>2. (l > 0 => l \in 1..N) /\ (N > 0 => N \in 1..l)
      BY <3>1, <1>11
    <3>3. l = N
      BY <3>1, <3>2, <1>11
    <3> QED BY <3>3 DEF l
  <2> QED BY <2>2, <2>4, <1>2
<1> DEFINE ids == [a \in 1..N |-> id(Place(a))]
<1>18. Lists(ids, m)
  <2>1. \A a \in 1..N : ids[a] = id(Place(a)) /\ id(Place(a)) \in Eligible(m)
    BY <1>4, <1>13
  <2>2. \A a \in 1..N : Makers(m)[a].remainingQuantity = activeOrders[ids[a]].remainingQuantity
    BY <1>4, <1>13, <1>17, <2>1
  <2>3. ids \in [1..N -> Eligible(m)]
    BY <2>1
  <2> HIDE DEF id, node, ids
  <2>4. \A a, b \in 1..N : ids[a] = ids[b] => a = b
    BY <2>1, <1>15
  <2>5. \A o \in Eligible(m) : \E a \in 1..N : ids[a] = o
    BY <2>1, <1>16
  <2>6. \A a, b \in 1..N : a < b <=> Ahead(ids[a], ids[b])
    BY <2>1, <1>14
  <2>7. Len(Makers(m)) = N
    BY <1>17
  <2> QED BY ONLY <2>2, <2>3, <2>4, <2>5, <2>6, <2>7 DEF Lists
<1>19. \A a \in 1..Len(Makers(m)) : Makers(m)[a].remainingQuantity > 0
  BY <1>4, <1>13, <1>17
<1> QED BY <1>7, <1>17, <1>18, <1>19

-----------------------------------------------------------------------------
(* The plan by depth, on an index of orders.                               *)

\* A finite index of orders.
Indexed(active) == IsFiniteSet(DOMAIN active) /\ \A o \in DOMAIN active : active[o].remainingQuantity \in Nat

AheadIn(active, x, o) ==
  /\ active[x].side = active[o].side
  /\ \/ NoWorse(active[x], active[o]) /\ active[x].price # active[o].price
     \/ active[x].price = active[o].price /\ x < o

DepthIn(active, S) == Total([o \in S |-> active[o].remainingQuantity])

AllAhead(active, o) == {x \in DOMAIN active : AheadIn(active, x, o)}

\* Members of E that an order of the given quantity reaches.
Reached(active, E, quantity) == {o \in E : DepthIn(active, AllAhead(active, o)) < quantity}

\* Depths are numbers.
LEMMA DepthIsNat ==
  ASSUME NEW active, Indexed(active), NEW S \in SUBSET DOMAIN active
  PROVE  /\ Amounts(S, [o \in S |-> active[o].remainingQuantity])
         /\ DepthIn(active, S) \in Nat
<1>1. IsFiniteSet(S)
  BY FS_Subset DEF Indexed
<1>2. Amounts(S, [o \in S |-> active[o].remainingQuantity])
  BY <1>1 DEF Indexed, Amounts
<1> QED BY <1>2, TotalIsNat DEF DepthIn

\* E is S without first, and its orders have the same quantities in the two indexes.
Spares(active, S, first, other, E) ==
  /\ S \in SUBSET DOMAIN active /\ first \in S /\ E = S \ {first} /\ E \in SUBSET DOMAIN other
  /\ \A o \in E : other[o].remainingQuantity = active[o].remainingQuantity

\* An order taken out of a set takes its quantity out of the depth.
LEMMA DepthWithout ==
  ASSUME NEW active, Indexed(active), NEW other, Indexed(other),
         NEW S, NEW first, NEW E, Spares(active, S, first, other, E)
  PROVE  /\ active[first].remainingQuantity \in Nat
         /\ DepthIn(active, S) \in Nat /\ DepthIn(other, E) \in Nat
         /\ DepthIn(active, S) = active[first].remainingQuantity + DepthIn(other, E)
<1> DEFINE f == [o \in S |-> active[o].remainingQuantity]
           g == [o \in E |-> other[o].remainingQuantity]
<1>1. /\ S \in SUBSET DOMAIN active /\ first \in S /\ E = S \ {first} /\ E \in SUBSET DOMAIN other
      /\ \A o \in E : other[o].remainingQuantity = active[o].remainingQuantity
  BY DEF Spares
<1>2. Amounts(S, f) /\ Amounts(E, g)
  BY <1>1, DepthIsNat
<1>3. LeavesOut(S, f, first, E, g)
  BY <1>1 DEF LeavesOut
<1>4. f[first] = active[first].remainingQuantity
  BY <1>1
<1>5. DepthIn(active, S) = Total(f) /\ DepthIn(other, E) = Total(g)
  BY DEF DepthIn
<1> HIDE DEF f, g
<1>6. f[first] \in Nat /\ Total(f) \in Nat /\ Total(g) \in Nat /\ Total(f) = f[first] + Total(g)
  BY <1>2, <1>3, TotalWithout
<1> QED BY <1>4, <1>5, <1>6

\* first is ahead of the rest of E and nobody is ahead of it.
FirstOf(active, E, first) ==
  /\ E \in SUBSET DOMAIN active /\ first \in E
  /\ \A o \in E \ {first} : AheadIn(active, first, o)
  /\ \A x \in DOMAIN active : ~AheadIn(active, x, first)

\* The first order is reached by any quantity.
LEMMA FirstIsReached ==
  ASSUME NEW active, Indexed(active), NEW E, NEW first, FirstOf(active, E, first),
         NEW quantity \in Nat, quantity > 0
  PROVE  first \in Reached(active, E, quantity)
<1>1. AllAhead(active, first) = {}
  BY DEF FirstOf, AllAhead
<1>2. DepthIn(active, {}) = 0
  <2>1. [o \in {} |-> active[o].remainingQuantity] \in [{} -> Nat]
    OBVIOUS
  <2> QED BY <2>1, TotalOfNone DEF DepthIn
<1> QED BY <1>1, <1>2 DEF Reached, FirstOf

\* An order behind the first has the first in the depth ahead of it.
LEMMA DepthBehindFirst ==
  ASSUME NEW active, Indexed(active), NEW E, NEW first, FirstOf(active, E, first),
         NEW o \in E \ {first}
  PROVE  /\ first \in AllAhead(active, o)
         /\ active[first].remainingQuantity \in Nat
         /\ DepthIn(active, AllAhead(active, o)) \in Nat
         /\ DepthIn(active, AllAhead(active, o)) >= active[first].remainingQuantity
<1> DEFINE A == AllAhead(active, o)
<1>1. A \in SUBSET DOMAIN active /\ first \in A
  BY DEF AllAhead, FirstOf
<1> DEFINE C == A \ {first}
<1>2. Spares(active, A, first, active, C)
  BY <1>1 DEF Spares
<1> HIDE DEF A, C
<1>3. /\ active[first].remainingQuantity \in Nat
      /\ DepthIn(active, A) \in Nat /\ DepthIn(active, C) \in Nat
      /\ DepthIn(active, A) = active[first].remainingQuantity + DepthIn(active, C)
  BY <1>2, DepthWithout
<1>4. DepthIn(active, A) >= active[first].remainingQuantity
  BY <1>3
<1> QED BY <1>1, <1>3, <1>4 DEF A

\* other is the index without the first order.
Without(active, first, other) ==
  DOMAIN other = DOMAIN active \ {first} /\ \A o \in DOMAIN other : other[o] = active[o]

\* The first order of E, whose quantity is r, is filled: rest is left of the incoming
\* order, F of the eligible orders.
FillsFirst(active, other, E, F, first, r, quantity, rest) ==
  /\ Indexed(active) /\ FirstOf(active, E, first) /\ Without(active, first, other) /\ F = E \ {first}
  /\ r = active[first].remainingQuantity /\ r \in Nat
  /\ quantity \in Nat /\ rest \in Nat /\ quantity = r + rest /\ quantity > 0

\* A trade that fills the first order: what is left reaches the others as before.
LEMMA FirstIsFilled ==
  ASSUME NEW active, NEW other, NEW E, NEW F, NEW first, NEW r, NEW quantity, NEW rest,
         FillsFirst(active, other, E, F, first, r, quantity, rest)
  PROVE  /\ DepthIn(active, E) \in Nat /\ DepthIn(other, F) \in Nat
         /\ DepthIn(active, E) = r + DepthIn(other, F)
         /\ Cardinality(Reached(other, F, rest)) \in Nat
         /\ Cardinality(Reached(active, E, quantity)) = Cardinality(Reached(other, F, rest)) + 1
<1> DEFINE R == Reached(active, E, quantity)
           Q == Reached(other, F, rest)
<1>0. /\ Indexed(active) /\ FirstOf(active, E, first) /\ Without(active, first, other) /\ F = E \ {first}
      /\ r = active[first].remainingQuantity /\ r \in Nat
      /\ quantity \in Nat /\ rest \in Nat /\ quantity = r + rest /\ quantity > 0
  BY DEF FillsFirst
<1>1. /\ E \in SUBSET DOMAIN active /\ first \in E /\ F \in SUBSET DOMAIN other
      /\ IsFiniteSet(DOMAIN active)
      /\ DOMAIN other = DOMAIN active \ {first} /\ \A o \in DOMAIN other : other[o] = active[o]
  BY <1>0 DEF FirstOf, Indexed, Without
<1>2. Indexed(other)
  BY <1>0, <1>1, FS_RemoveElement DEF Indexed
<1>3. /\ DepthIn(active, E) \in Nat /\ DepthIn(other, F) \in Nat
      /\ DepthIn(active, E) = r + DepthIn(other, F)
  <2>1. Spares(active, E, first, other, F)
    BY <1>0, <1>1 DEF Spares
  <2> QED BY <2>1, <1>0, <1>2, DepthWithout
<1>4. ASSUME NEW o \in F
      PROVE  o \in R <=> o \in Q
  <2> DEFINE A == AllAhead(active, o)
             C == AllAhead(other, o)
  <2>1. A \in SUBSET DOMAIN active /\ first \in A
    BY <1>0 DEF AllAhead, FirstOf
  <2>2. C = A \ {first}
    <3>1. ASSUME NEW x \in DOMAIN other PROVE AheadIn(other, x, o) <=> AheadIn(active, x, o)
      BY <1>0, <1>1 DEF AheadIn
    <3> QED BY <3>1, <1>1 DEF AllAhead
  <2>3. o \in R <=> DepthIn(active, A) < quantity
    BY <1>0 DEF Reached
  <2>4. o \in Q <=> DepthIn(other, C) < rest
    BY DEF Reached
  <2> HIDE DEF A, C
  <2>5. Spares(active, A, first, other, C)
    BY <2>1, <2>2, <1>1 DEF Spares
  <2>6. /\ DepthIn(active, A) \in Nat /\ DepthIn(other, C) \in Nat
        /\ DepthIn(active, A) = r + DepthIn(other, C)
    BY <1>0, <1>2, <2>5, DepthWithout
  <2> QED BY <2>3, <2>4, <2>6, <1>0
<1>5. first \in R /\ first \notin Q /\ R = Q \cup {first}
  <2>1. first \in R
    BY <1>0, FirstIsReached
  <2>2. R \subseteq E /\ Q \subseteq F
    BY DEF Reached
  <2> HIDE DEF R, Q
  <2> QED BY <2>1, <2>2, <1>0, <1>4
<1>6. IsFiniteSet(Q)
  <2>1. Q \in SUBSET DOMAIN active
    BY <1>1 DEF Reached
  <2> QED BY <2>1, <1>1, FS_Subset
<1> HIDE DEF R, Q
<1>7. Cardinality(R) = Cardinality(Q) + 1 /\ Cardinality(Q) \in Nat
  BY <1>5, <1>6, FS_AddElement, FS_CardinalityType
<1> QED BY <1>3, <1>7 DEF R, Q

\* A trade that fills the incoming order reaches the first order only.
LEMMA FirstIsEnough ==
  ASSUME NEW active, Indexed(active), NEW E, NEW first, FirstOf(active, E, first),
         NEW quantity \in Nat, quantity > 0, quantity <= active[first].remainingQuantity
  PROVE  /\ DepthIn(active, E) \in Nat /\ quantity <= DepthIn(active, E)
         /\ Cardinality(Reached(active, E, quantity)) = 1
<1> DEFINE F == E \ {first}
<1>1. Spares(active, E, first, active, F)
  BY DEF FirstOf, Spares
<1> HIDE DEF F
<1>2. /\ active[first].remainingQuantity \in Nat
      /\ DepthIn(active, E) \in Nat /\ DepthIn(active, F) \in Nat
      /\ DepthIn(active, E) = active[first].remainingQuantity + DepthIn(active, F)
  BY <1>1, DepthWithout
<1>3. Reached(active, E, quantity) = {first}
  <2>1. first \in Reached(active, E, quantity)
    BY FirstIsReached
  <2>2. ASSUME NEW o \in E \ {first} PROVE o \notin Reached(active, E, quantity)
    <3>1. /\ DepthIn(active, AllAhead(active, o)) \in Nat
          /\ DepthIn(active, AllAhead(active, o)) >= active[first].remainingQuantity
      BY DepthBehindFirst
    <3>2. ~(DepthIn(active, AllAhead(active, o)) < quantity)
      BY <3>1, <1>2
    <3> QED BY <3>2 DEF Reached
  <2>3. Reached(active, E, quantity) \subseteq E
    BY DEF Reached
  <2> QED BY <2>1, <2>2, <2>3
<1>4. Cardinality({first}) = 1
  BY FS_Singleton
<1>5. quantity <= DepthIn(active, E)
  BY <1>2
<1> QED BY <1>2, <1>3, <1>4, <1>5

\* Nothing is reached with no quantity.
LEMMA NothingReached ==
  ASSUME NEW active, Indexed(active), NEW E
  PROVE  Reached(active, E, 0) = {} /\ Cardinality({}) = 0
<1>1. ASSUME NEW o PROVE DepthIn(active, AllAhead(active, o)) \in Nat
  <2>1. AllAhead(active, o) \in SUBSET DOMAIN active
    BY DEF AllAhead
  <2> QED BY <2>1, DepthIsNat
<1>2. \A o : ~(DepthIn(active, AllAhead(active, o)) < 0)
  BY <1>1
<1> QED BY <1>2, FS_EmptySet DEF Reached

\* An active order that m may trade with, by its price.
Meets(m, order) ==
  /\ order.side = Opposite(m.type)
  /\ IF m.type = "BUY" THEN order.price <= m.price ELSE order.price >= m.price

EligibleIn(active, m) == {o \in DOMAIN active : Meets(m, active[o])}

\* PlanByDepth on an index.
PlanOn(active, E, quantity) ==
  [remainder |-> quantity - Lesser(quantity, DepthIn(active, E)),
   executionCount |-> Cardinality(Reached(active, E, quantity)),
   meetsZero |-> FALSE]

\* The index of active orders is finite.
LEMMA ActiveIndexed ==
  ASSUME NEW active, DOMAIN active \subseteq OrderIds, \A o \in DOMAIN active : active[o] \in ActiveOrders
  PROVE  Indexed(active)
<1>1. IsFiniteSet(OrderIds)
  BY ConstantsAssumption, FS_Interval DEF OrderIds
<1>2. IsFiniteSet(DOMAIN active)
  BY <1>1, FS_Subset
<1> QED BY <1>2 DEF Indexed, ActiveOrders

\* Every active order has its level, so that eligibility is a matter of side and price.
LEMMA EligibleByPrice ==
  ASSUME BookInv, NEW m, NEW quantity
  PROVE  /\ Indexed(activeOrders)
         /\ Eligible(m) = EligibleIn(activeOrders, m)
         /\ PlanByDepth(m, quantity) = PlanOn(activeOrders, EligibleIn(activeOrders, m), quantity)
<1>1. Indexed(activeOrders)
  BY ActiveIndexed DEF BookInv, BookTyped
<1>2. Eligible(m) = EligibleIn(activeOrders, m)
  BY DEF BookInv, IndexMatchesBook, Eligible, EligibleIn, Crossing, Meets
<1>3. \A o : Depth({x \in DOMAIN activeOrders : Ahead(x, o)}) = DepthIn(activeOrders, AllAhead(activeOrders, o))
  BY DEF Depth, DepthIn, AllAhead, Ahead, AheadIn
<1>4. {o \in Eligible(m) : DepthAhead(o) < quantity} = Reached(activeOrders, Eligible(m), quantity)
  BY <1>3 DEF DepthAhead, Reached
<1>5. Depth(Eligible(m)) = DepthIn(activeOrders, Eligible(m))
  BY DEF Depth, DepthIn
<1>6. PlanByDepth(m, quantity) = PlanOn(activeOrders, Eligible(m), quantity)
  BY <1>4, <1>5 DEF PlanByDepth, PlanOn
<1> QED BY <1>1, <1>2, <1>6

\* Whatever is ahead of an eligible order is eligible.
LEMMA AheadIsEligible ==
  ASSUME BookInv, NEW m \in NewOrders, NEW o \in EligibleIn(activeOrders, m),
         NEW x \in DOMAIN activeOrders, AheadIn(activeOrders, x, o)
  PROVE  x \in EligibleIn(activeOrders, m)
<1>1. m.type \in Sides /\ m.price \in Int
  BY DEF NewOrders, Prices
<1>2. activeOrders[x].price \in Int /\ activeOrders[o].price \in Int
  BY DEF BookInv, BookTyped, ActiveOrders, Prices, EligibleIn
<1> QED BY <1>1, <1>2 DEF EligibleIn, Meets, AheadIn, NoWorse, Opposite, Sides

\* planMatches computes the plan by depth.
LEMMA PlanMatchesDepth ==
  ASSUME BookInv, NEW m \in NewOrders
  PROVE  planMatches(m) = PlanByDepth(m, m.quantity)
<1> DEFINE s == Makers(m)
           N == Len(s)
           E == EligibleIn(activeOrders, m)
           q == m.quantity
           depth(i) == DepthOf(s, i - 1)
<1>1. /\ s \in Seq(OrderNodes) /\ \A a \in 1..N : s[a].remainingQuantity > 0
      /\ \E ids : Lists(ids, m)
  BY MakersListed
<1>2. PICK ids : Lists(ids, m)
  BY <1>1
<1>3. Indexed(activeOrders) /\ Eligible(m) = E /\ PlanByDepth(m, q) = PlanOn(activeOrders, E, q)
  BY EligibleByPrice
<1>4. /\ ids \in [1..N -> E]
      /\ \A a, b \in 1..N : ids[a] = ids[b] => a = b
      /\ \A o \in E : \E a \in 1..N : ids[a] = o
      /\ \A a, b \in 1..N : a < b <=> AheadIn(activeOrders, ids[a], ids[b])
      /\ \A a \in 1..N : s[a].remainingQuantity = activeOrders[ids[a]].remainingQuantity
  BY <1>2, <1>3 DEF Lists, Ahead, AheadIn
<1>5. q \in Nat
  BY ConstantsAssumption DEF NewOrders, Quantities
<1>6. planMatches(m) = PlanAfter(q, s, N)
  <2>1. planMatches(m) = PlanWalk(q, s)
    BY DEF planMatches
  <2> HIDE DEF s, q
  <2> QED BY <2>1, <1>1, <1>5, PlanWalkByDepth
<1>7. N \in Nat /\ \A a \in 1..N : s[a].remainingQuantity \in Nat
  <2>1. N \in Nat /\ \A a \in 1..N : s[a] \in OrderNodes
    <3> HIDE DEF s
    <3> QED BY <1>1, LenProperties, ElementOfSeq
  <2> QED BY <2>1 DEF OrderNodes
<1>8. E \in SUBSET DOMAIN activeOrders
  BY DEF EligibleIn
<1> HIDE DEF s, N, E, q
<1>9. ASSUME NEW n \in 0..N, NEW S \in SUBSET E, NEW r,
             r \in [1..n -> S], \A a \in 1..n : r[a] = ids[a], \A o \in S : \E a \in 1..n : r[a] = o
      PROVE  DepthOf(s, n) = DepthIn(activeOrders, S)
  <2> DEFINE f == [j \in 1..n |-> s[j].remainingQuantity]
             g == [o \in S |-> activeOrders[o].remainingQuantity]
  <2>1. \A a \in 1..n : a \in 1..N
    BY <1>7
  <2>2. IsFiniteSet(1..n)
    BY <1>7, FS_Interval
  <2>3. Amounts(1..n, f)
    BY <2>1, <2>2, <1>7 DEF Amounts
  <2>4. g \in [S -> Nat]
    BY <1>3, <1>8 DEF Indexed
  <2>5. Renames(r, 1..n, f, S, g)
    <3>1. \A a, b \in 1..n : r[a] = r[b] => a = b
      BY <1>4, <1>9, <2>1
    <3>2. \A a \in 1..n : g[r[a]] = f[a]
      BY <1>4, <1>9, <2>1
    <3> HIDE DEF f, g
    <3> QED BY <3>1, <3>2, <1>9 DEF Renames
  <2>6. DepthOf(s, n) = Total(f) /\ DepthIn(activeOrders, S) = Total(g)
    BY DEF DepthOf, DepthIn
  <2> HIDE DEF f, g
  <2>7. Amounts(S, g) /\ Total(g) = Total(f)
    BY <2>3, <2>4, <2>5, TotalRenamed
  <2> QED BY <2>6, <2>7
<1>10. DepthOf(s, N) = DepthIn(activeOrders, E)
  <2>1. N \in 0..N /\ E \in SUBSET E
    BY <1>7
  <2> QED BY <2>1, <1>4, <1>9
<1>11. ASSUME NEW i \in 1..N
       PROVE  DepthOf(s, i - 1) = DepthIn(activeOrders, AllAhead(activeOrders, ids[i]))
  <2> DEFINE S == AllAhead(activeOrders, ids[i])
             r == [a \in 1..(i - 1) |-> ids[a]]
  <2>1. ids[i] \in E /\ i - 1 \in 0..N /\ \A a \in 1..(i - 1) : a \in 1..N /\ a < i
    BY <1>4, <1>7
  <2>2. S \in SUBSET E
    BY <2>1, AheadIsEligible DEF AllAhead, E
  <2>3. r \in [1..(i - 1) -> S] /\ \A a \in 1..(i - 1) : r[a] = ids[a]
    BY <2>1, <1>4, <1>8 DEF AllAhead
  <2>4. ASSUME NEW o \in S PROVE \E a \in 1..(i - 1) : r[a] = o
    <3>1. PICK a \in 1..N : ids[a] = o
      BY <2>2, <1>4
    <3>2. a < i
      BY <3>1, <2>4, <1>4 DEF AllAhead
    <3>3. a \in 1..(i - 1)
      BY <3>2, <1>7
    <3> QED BY <3>1, <3>3
  <2> HIDE DEF S, r
  <2>5. DepthOf(s, i - 1) = DepthIn(activeOrders, S)
    BY <2>1, <2>2, <2>3, <2>4, <1>9
  <2> QED BY <2>5 DEF S
<1>12. Cardinality({i \in 1..N : DepthOf(s, i - 1) < q}) = Cardinality(Reached(activeOrders, E, q))
  <2> DEFINE I == {i \in 1..N : DepthOf(s, i - 1) < q}
             O == Reached(activeOrders, E, q)
             f == [i \in I |-> ids[i]]
  <2>1. IsFiniteSet(I)
    <3>1. IsFiniteSet(1..N)
      BY <1>7, FS_Interval
    <3>2. I \in SUBSET (1..N)
      OBVIOUS
    <3> HIDE DEF I
    <3> QED BY <3>1, <3>2, FS_Subset
  <2>2. f \in [I -> O]
    BY <1>4, <1>11 DEF Reached
  <2>3. \A a, b \in I : f[a] = f[b] => a = b
    BY <1>4
  <2>4. ASSUME NEW o \in O PROVE \E a \in I : f[a] = o
    <3>1. o \in E /\ DepthIn(activeOrders, AllAhead(activeOrders, o)) < q
      BY DEF Reached
    <3>2. PICK a \in 1..N : ids[a] = o
      BY <3>1, <1>4
    <3>3. a \in I
      BY <3>1, <3>2, <1>11
    <3> QED BY <3>2, <3>3
  <2> HIDE DEF I, O, f
  <2>5. Cardinality(O) = Cardinality(I)
    BY <2>1, <2>2, <2>3, <2>4, SameCount
  <2> QED BY <2>5 DEF I, O
<1> QED BY <1>3, <1>6, <1>10, <1>12 DEF PlanAfter, PlanOn, q

\* The front node of the best eligible level is the first of the eligible orders.
LEMMA FrontIsFirst ==
  ASSUME BookInv, NEW m \in NewOrders, NEW k \in Crossing(m), \A j \in Crossing(m) : NoWorse(k, j)
  PROVE  FirstOf(activeOrders, EligibleIn(activeOrders, m), orderBooks[k].orders[1].orderId)
<1> DEFINE q == orderBooks[k].orders
           first == q[1].orderId
           E == EligibleIn(activeOrders, m)
<1>1. /\ k \in DOMAIN orderBooks /\ k.side = Opposite(m.type) /\ m.type \in Sides
      /\ m.price \in Int
  BY DEF Crossing, NewOrders, Prices
<1>2. /\ k \in LevelKeys /\ k = [side |-> k.side, price |-> k.price] /\ q \in Seq(OrderNodes)
      /\ q # <<>> /\ Len(q) \in Nat /\ DOMAIN q = 1..Len(q)
      /\ \A i \in 1..Len(q) : q[i] \in OrderNodes /\ NodeIndexed(k, q[i], activeOrders)
  BY <1>1, LevelFacts
<1>3. 1 \in 1..Len(q)
  BY <1>2, EmptySeq
<1>4. /\ first \in DOMAIN activeOrders /\ first \in Int
      /\ activeOrders[first].side = k.side /\ activeOrders[first].price = k.price /\ k.price \in Int
  <2> DEFINE x == q[1]
  <2>1. x \in OrderNodes /\ NodeIndexed(k, x, activeOrders)
    BY <1>2, <1>3
  <2> HIDE DEF x
  <2>2. /\ x.orderId \in DOMAIN activeOrders /\ x.orderId \in Int
        /\ activeOrders[x.orderId].side = k.side /\ activeOrders[x.orderId].price = k.price
    BY <2>1 DEF NodeIndexed, OrderNodes, OrderIds
  <2> QED BY <2>2, <1>2 DEF x, LevelKeys, Prices
<1> HIDE DEF first
<1>5. first \in E
  BY <1>1, <1>4 DEF EligibleIn, Meets, Crossing
<1>6. ASSUME NEW o \in E, o # first
      PROVE  AheadIn(activeOrders, first, o) /\ ~AheadIn(activeOrders, o, first)
  <2>1. o \in DOMAIN activeOrders /\ o \in Int /\ Meets(m, activeOrders[o]) /\ activeOrders[o].price \in Int
    BY DEF EligibleIn, BookInv, BookTyped, ActiveOrders, OrderIds, Prices
  <2>2. PICK l \in DOMAIN orderBooks :
          /\ l = [side |-> activeOrders[o].side, price |-> activeOrders[o].price]
          /\ \E i \in 1..Len(orderBooks[l].orders) : orderBooks[l].orders[i].orderId = o
    BY <2>1, OrderHasNode
  <2>3. l.side = activeOrders[o].side /\ l.price = activeOrders[o].price
    BY <2>2
  <2>4. l \in Crossing(m)
    BY <2>1, <2>2, <2>3 DEF Crossing, Meets
  <2>5. NoWorse(k, l)
    BY <2>4
  <2>6. activeOrders[o].side = k.side
    BY <2>1, <1>1 DEF Meets
  <2>7. CASE activeOrders[o].price = k.price
    <3>1. l = k
      BY <2>2, <2>6, <2>7, <1>2
    <3>2. PICK i \in 1..Len(q) : q[i].orderId = o
      BY <2>2, <3>1
    <3>3. i # 1 /\ 1 < i
      BY <3>2, <1>6, <1>2 DEF first
    <3>4. first < o
      <4>1. 1 \in DOMAIN q /\ i \in DOMAIN q
        BY <1>2, <1>3
      <4>2. q[1].orderId < q[i].orderId
        BY <3>3, <4>1, <1>1 DEF BookInv, TimePriority
      <4> QED BY <4>2, <3>2 DEF first
    <3> QED BY <3>4, <2>1, <2>6, <2>7, <1>4 DEF AheadIn
  <2>8. CASE activeOrders[o].price # k.price
    <3>1. NoWorse(activeOrders[first], activeOrders[o]) /\ ~NoWorse(activeOrders[o], activeOrders[first])
      BY <2>1, <2>3, <2>5, <2>6, <2>8, <1>4 DEF NoWorse
    <3> QED BY <3>1, <2>1, <2>6, <2>8, <1>4 DEF AheadIn
  <2> QED BY <2>7, <2>8
<1>7. ASSUME NEW x \in DOMAIN activeOrders PROVE ~AheadIn(activeOrders, x, first)
  <2>1. CASE x = first
    BY <2>1, <1>4 DEF AheadIn
  <2>2. CASE x # first
    BY <2>2, <1>5, <1>6, AheadIsEligible
  <2> QED BY <2>1, <2>2
<1>8. E \in SUBSET DOMAIN activeOrders
  BY DEF EligibleIn
<1>9. FirstOf(activeOrders, E, first)
  <2> HIDE DEF E
  <2> QED BY <1>5, <1>6, <1>7, <1>8 DEF FirstOf
<1> QED BY <1>9 DEF first

-----------------------------------------------------------------------------
(* The second invariant: what the command in progress has accounted for,   *)
(* and what its plan still says of the rest of its execution.              *)

\* With n trades done and the given quantity left, p is the plan by depth.
PlannedFor(active, m, quantity, n, p) ==
  /\ p.remainder = quantity - Lesser(quantity, DepthIn(active, EligibleIn(active, m)))
  /\ p.executionCount = n + Cardinality(Reached(active, EligibleIn(active, m), quantity))

\* Through the matching loop the plan made on the untouched book stays the plan
\* of what is left, and the two decisions taken on it stay right.
PlanFollows ==
  phase = "matching" =>
    /\ PlannedFor(activeOrders, message, remaining, Len(events), plan)
    /\ ~ExceedsBatch(plan)
    /\ message.tif = "GTC" => canAddOrder(message, plan.remainder)

Accounting ==
  /\ AggregateIsExact
  /\ QuantityConserved
  /\ PlanFollows
  /\ Len(events) <= MaxEventsPerCommand
  /\ NoLogicError

-----------------------------------------------------------------------------
(* Lemmas on what a handler changes.                                       *)

\* A level stored with its exact aggregate keeps the aggregates exact.
LEMMA AggregateAfter ==
  ASSUME AggregateIsExact, NEW k, NEW total, NEW orders, total = RestingQuantity(orders),
         SetLevel(k, [totalQuantity |-> total, orders |-> orders])
  PROVE  AggregateIsExact'
<1> DEFINE level == [totalQuantity |-> total, orders |-> orders]
<1>1. level.totalQuantity = RestingQuantity(level.orders)
  OBVIOUS
<1> HIDE DEF level
<1>2. \A j \in DOMAIN orderBooks' :
        orderBooks'[j] = level \/ (j \in DOMAIN orderBooks /\ orderBooks'[j] = orderBooks[j])
  BY DEF SetLevel, level
<1>3. \A j \in DOMAIN orderBooks' : orderBooks'[j].totalQuantity = RestingQuantity(orderBooks'[j].orders)
  BY <1>1, <1>2 DEF AggregateIsExact
<1> QED BY <1>3 DEF AggregateIsExact

\* An empty queue holds nothing.
LEMMA RestingOfNone == <<>> \in Seq(OrderNodes) /\ RestingQuantity(<<>>) = 0
<1> DEFINE f == [i \in DOMAIN <<>> |-> <<>>[i].remainingQuantity]
<1>1. <<>> \in Seq(OrderNodes) /\ DOMAIN <<>> = {}
  OBVIOUS
<1>2. f \in [{} -> Nat]
  BY <1>1
<1>3. Total(f) = 0
  BY <1>2, TotalOfNone
<1> QED BY <1>1, <1>3 DEF RestingQuantity

\* What an event disposes of is a quantity.
LEMMA DisposedIsNat ==
  ASSUME NEW e \in Events
  PROVE  Disposed(e) \in Nat
<1>1. CASE e \in Trades
  BY <1>1 DEF Trades, Disposed
<1>2. CASE e \in Resteds
  BY <1>2 DEF Resteds, Disposed
<1>3. CASE e \in Cancelleds
  BY <1>3 DEF Cancelleds, Disposed
<1>4. CASE e \in Rejecteds
  BY <1>4 DEF Rejecteds, Disposed
<1> QED BY <1>1, <1>2, <1>3, <1>4 DEF Events

\* What a batch disposes of is a quantity.
LEMMA ExecutedIsNat ==
  ASSUME NEW es \in Seq(Events)
  PROVE  Executed(es) \in Nat
<1> DEFINE n == Len(es)
           f == [i \in DOMAIN es |-> Disposed(es[i])]
<1>1. n \in Nat /\ DOMAIN es = 1..n /\ \A i \in 1..n : es[i] \in Events
  BY LenProperties, ElementOfSeq
<1> HIDE DEF n
<1>2. f \in [1..n -> Nat]
  BY <1>1, DisposedIsNat
<1>3. IsFiniteSet(1..n)
  BY <1>1, FS_Interval
<1>4. Amounts(1..n, f)
  BY <1>2, <1>3 DEF Amounts
<1> HIDE DEF f
<1>5. Total(f) \in Nat
  BY <1>4, TotalIsNat
<1> QED BY <1>5 DEF Executed, f

\* A batch of no events disposes of nothing, each event adds what it disposes of.
LEMMA ExecutedGrows ==
  ASSUME NEW es \in Seq(Events), NEW e \in Events
  PROVE  /\ Len(es) \in Nat /\ Len(Append(es, e)) = Len(es) + 1
         /\ Executed(es) \in Nat /\ Disposed(e) \in Nat
         /\ Executed(Append(es, e)) = Executed(es) + Disposed(e)
<1> DEFINE n == Len(es)
           es2 == Append(es, e)
           f == [i \in DOMAIN es |-> Disposed(es[i])]
           g == [i \in DOMAIN es2 |-> Disposed(es2[i])]
<1>1. n \in Nat /\ DOMAIN es = 1..n /\ \A i \in 1..n : es[i] \in Events
  BY LenProperties, ElementOfSeq
<1>2. /\ es2 \in Seq(Events) /\ Len(es2) = n + 1 /\ es2[n + 1] = e
      /\ \A i \in 1..n : es2[i] = es[i]
  BY AppendProperties
<1>3. DOMAIN es2 = 1..(n + 1) /\ \A i \in 1..(n + 1) : es2[i] \in Events
  BY <1>2, LenProperties, ElementOfSeq
<1> HIDE DEF n, es2
<1>4. f \in [1..n -> Nat]
  BY <1>1, DisposedIsNat
<1>5. g \in [1..(n + 1) -> Nat]
  BY <1>3, DisposedIsNat
<1>6. \A i \in 1..n : g[i] = f[i]
  BY <1>1, <1>2, <1>3
<1>7. n + 1 \in 1..(n + 1)
  BY <1>1
<1>8. g[n + 1] = Disposed(e)
  BY <1>2, <1>3, <1>7
<1>9. Executed(es) = Total(f) /\ Executed(es2) = Total(g)
  BY DEF Executed
<1> HIDE DEF f, g
<1>10. /\ Total(f) \in Nat /\ Total(g) \in Nat /\ g[n + 1] \in Nat
       /\ Total(g) = Total(f) + g[n + 1]
  BY <1>1, <1>4, <1>5, <1>6, TotalOfAppend
<1> QED BY <1>1, <1>2, <1>8, <1>9, <1>10 DEF n, es2

\* The batches a handler starts with or returns at once.
LEMMA ExecutedAtOnce ==
  /\ <<>> \in Seq(Events) /\ Executed(<<>>) = 0 /\ Len(<<>>) = 0
  /\ \A e \in Events : Executed(<<e>>) = Disposed(e) /\ Len(<<e>>) = 1 /\ <<e>> \in Seq(Events)
<1> DEFINE f == [i \in DOMAIN <<>> |-> Disposed(<<>>[i])]
<1>1. <<>> \in Seq(Events) /\ DOMAIN <<>> = {} /\ Len(<<>>) = 0
  OBVIOUS
<1>2. f \in [{} -> Nat]
  BY <1>1
<1>3. Total(f) = 0
  BY <1>2, TotalOfNone
<1>4. Executed(<<>>) = 0
  BY <1>3 DEF Executed
<1>5. ASSUME NEW e \in Events
      PROVE  Executed(<<e>>) = Disposed(e) /\ Len(<<e>>) = 1 /\ <<e>> \in Seq(Events)
  <2>1. Append(<<>>, e) = <<e>>
    OBVIOUS
  <2>2. Executed(<<>>) \in Nat /\ Disposed(e) \in Nat /\ Executed(Append(<<>>, e)) = Executed(<<>>) + Disposed(e)
    BY <1>1, ExecutedGrows
  <2>3. Executed(<<e>>) = Disposed(e)
    BY <2>1, <2>2, <1>4
  <2> QED BY <2>3, SingletonBatch
<1> QED BY <1>1, <1>4, <1>5

\* An order of the given quantity trades with the first eligible one, whose quantity is
\* r: rest is left of the incoming order, and other is the index then.
TradesFirst(active, other, m, first, r, quantity, rest) ==
  /\ Indexed(active) /\ Indexed(other) /\ FirstOf(active, EligibleIn(active, m), first)
  /\ r = active[first].remainingQuantity /\ r \in Nat
  /\ quantity \in Nat /\ quantity > 0 /\ rest = quantity - Lesser(quantity, r)
  /\ r <= quantity => Without(active, first, other)

\* One trade with the first eligible order leaves the plan right for the rest.
LEMMA PlanAfterTrade ==
  ASSUME NEW active, NEW other, NEW m, NEW first, NEW r, NEW quantity, NEW rest,
         TradesFirst(active, other, m, first, r, quantity, rest),
         NEW n \in Nat, NEW p, PlannedFor(active, m, quantity, n, p)
  PROVE  PlannedFor(other, m, rest, n + 1, p)
<1> DEFINE E == EligibleIn(active, m)
           F == EligibleIn(other, m)
<1>0. /\ Indexed(active) /\ Indexed(other) /\ FirstOf(active, E, first)
      /\ r = active[first].remainingQuantity /\ r \in Nat
      /\ quantity \in Nat /\ quantity > 0 /\ rest = quantity - Lesser(quantity, r)
      /\ r <= quantity => Without(active, first, other)
  BY DEF TradesFirst
<1>1. /\ p.remainder = quantity - Lesser(quantity, DepthIn(active, E))
      /\ p.executionCount = n + Cardinality(Reached(active, E, quantity))
  BY DEF PlannedFor
<1>2. CASE r <= quantity
  <2>1. rest \in Nat /\ quantity = r + rest /\ Without(active, first, other)
    BY <1>0, <1>2 DEF Lesser
  <2>2. F = E \ {first}
    BY <2>1 DEF EligibleIn, Meets, Without
  <2> HIDE DEF E, F
  <2>3. /\ DepthIn(active, E) \in Nat /\ DepthIn(other, F) \in Nat
        /\ DepthIn(active, E) = r + DepthIn(other, F)
        /\ Cardinality(Reached(other, F, rest)) \in Nat
        /\ Cardinality(Reached(active, E, quantity)) = Cardinality(Reached(other, F, rest)) + 1
    <3>1. FirstOf(active, E, first)
      BY <1>0 DEF E
    <3>2. FillsFirst(active, other, E, F, first, r, quantity, rest)
      BY <3>1, <1>0, <2>1, <2>2 DEF FillsFirst
    <3> QED BY <3>2, FirstIsFilled
  <2>4. p.remainder = rest - Lesser(rest, DepthIn(other, F))
    <3> DEFINE d == DepthIn(active, E)
               c == DepthIn(other, F)
    <3>1. d \in Nat /\ c \in Nat /\ d = r + c /\ p.remainder = quantity - Lesser(quantity, d)
      BY <1>1, <2>3
    <3> HIDE DEF d, c
    <3>2. quantity - Lesser(quantity, d) = rest - Lesser(rest, c)
      BY ONLY <1>0, <2>1, <3>1 DEF Lesser
    <3> QED BY <3>1, <3>2 DEF c
  <2>5. p.executionCount = n + 1 + Cardinality(Reached(other, F, rest))
    BY <1>1, <2>3
  <2> QED BY <2>4, <2>5 DEF PlannedFor, F
<1>3. CASE ~(r <= quantity)
  <2>1. rest = 0 /\ quantity <= r
    BY <1>0, <1>3 DEF Lesser
  <2>2. /\ DepthIn(active, E) \in Nat /\ quantity <= DepthIn(active, E)
        /\ Cardinality(Reached(active, E, quantity)) = 1
    <3> HIDE DEF E
    <3> QED BY <1>0, <2>1, FirstIsEnough
  <2>3. DepthIn(other, F) \in Nat
    BY <1>0, DepthIsNat DEF EligibleIn
  <2>4. Cardinality(Reached(other, F, 0)) = 0
    BY <1>0, NothingReached
  <2> HIDE DEF E, F
  <2>5. p.remainder = 0 /\ p.executionCount = n + 1
    BY <1>0, <1>1, <2>2 DEF Lesser
  <2>6. 0 - Lesser(0, DepthIn(other, F)) = 0
    BY <2>3 DEF Lesser
  <2> QED BY <2>1, <2>4, <2>5, <2>6 DEF PlannedFor, F
<1> QED BY <1>0, <1>2, <1>3

\* The numbers of a plan.
LEMMA PlannedIsNat ==
  ASSUME NEW active, Indexed(active), NEW m, NEW quantity \in Nat, NEW n \in Nat, NEW p,
         PlannedFor(active, m, quantity, n, p)
  PROVE  p.remainder \in Nat /\ p.executionCount \in Nat /\ p.executionCount >= n
<1> DEFINE E == EligibleIn(active, m)
           R == Reached(active, E, quantity)
<1>1. E \in SUBSET DOMAIN active /\ R \in SUBSET DOMAIN active
  BY DEF EligibleIn, Reached
<1>2. p.remainder = quantity - Lesser(quantity, DepthIn(active, E)) /\ p.executionCount = n + Cardinality(R)
  BY DEF PlannedFor
<1> HIDE DEF E, R
<1>3. DepthIn(active, E) \in Nat
  BY <1>1, DepthIsNat
<1>4. Cardinality(R) \in Nat
  BY <1>1, FS_Subset, FS_CardinalityType DEF Indexed
<1> QED BY <1>2, <1>3, <1>4 DEF Lesser

\* Where the loop ends, the plan has come to nothing left to execute.
LEMMA PlanAtEnd ==
  ASSUME NEW active, Indexed(active), NEW m, NEW quantity \in Nat, NEW n \in Nat, NEW p,
         PlannedFor(active, m, quantity, n, p),
         quantity = 0 \/ EligibleIn(active, m) = {}
  PROVE  p.remainder = quantity /\ p.executionCount = n
<1> DEFINE E == EligibleIn(active, m)
<1>1. DepthIn(active, E) \in Nat
  BY DepthIsNat DEF EligibleIn
<1>2. Cardinality({}) = 0
  BY FS_EmptySet
<1>3. CASE quantity = 0
  <2>1. Reached(active, E, 0) = {}
    BY NothingReached
  <2>2. quantity - Lesser(quantity, DepthIn(active, E)) = 0
    BY <1>1, <1>3 DEF Lesser
  <2> QED BY <2>1, <2>2, <1>2, <1>3 DEF PlannedFor
<1>4. CASE E = {}
  <2>1. DepthIn(active, {}) = 0
    <3>1. [o \in {} |-> active[o].remainingQuantity] \in [{} -> Nat]
      OBVIOUS
    <3> QED BY <3>1, TotalOfNone DEF DepthIn
  <2>2. Reached(active, {}, quantity) = {}
    BY DEF Reached
  <2>3. quantity - Lesser(quantity, 0) = quantity
    BY DEF Lesser
  <2> QED BY <2>1, <2>2, <2>3, <1>2, <1>4 DEF PlannedFor
<1> QED BY <1>3, <1>4

-----------------------------------------------------------------------------
(* Every handler keeps the accounts.                                       *)

\* A trade of t with the front node of level k: its quantity is r, the order is id,
\* total was the level's quantity and e is the event.
Traded(k, q, id, r, t, e, total) ==
  /\ q = orderBooks[k].orders /\ q \in Seq(OrderNodes) /\ Len(q) \in Nat /\ Len(q) # 0 /\ q # <<>>
  /\ id = q[1].orderId /\ id \in DOMAIN activeOrders
  /\ r = q[1].remainingQuantity /\ r = activeOrders[id].remainingQuantity /\ r \in Nat
  /\ t = Lesser(remaining, r) /\ t \in Nat /\ remaining - t \in Nat
  /\ total = RestingQuantity(q) /\ total \in Nat
  /\ e \in Events /\ Disposed(e) = t
  /\ events' = Append(events, e) /\ remaining' = remaining - t
  /\ UNCHANGED <<phase, message, plan, result>>
  /\ r = t => /\ SetLevel(k, [totalQuantity |-> total - t, orders |-> Tail(q)])
              /\ Deactivate(id)
  /\ r # t => /\ SetLevel(k, [totalQuantity |-> total - t,
                              orders |-> [q EXCEPT ![1].remainingQuantity = r - t]])
              /\ SetActive(id, [activeOrders[id] EXCEPT !.remainingQuantity = r - t])

\* What holds of a trade on the best eligible level: executeTrade does not throw.
LEMMA TradeSucceeds ==
  ASSUME IInv, AggregateIsExact, phase = "matching", remaining > 0,
         NEW k \in Crossing(message), executeTrade(k)
  PROVE  \E q, id, r, t, e, total : Traded(k, q, id, r, t, e, total)
<1> DEFINE q == orderBooks[k].orders
           maker == q[1]
           id == maker.orderId
           r == maker.remainingQuantity
           t == Lesser(remaining, r)
           total == orderBooks[k].totalQuantity
           e == [kind |-> "Trade", makerOrderId |-> id, takerOrderId |-> sequence,
                 executionPrice |-> k.price, executionQuantity |-> t,
                 makerRemainingQuantity |-> r - t, takerRemainingQuantity |-> remaining - t]
<1>1. /\ k \in DOMAIN orderBooks /\ remaining \in Nat /\ sequence \in OrderIds
  BY DEF Crossing, IInv, TypeOK, SequencesInUse
<1>2. /\ k \in LevelKeys /\ q \in Seq(OrderNodes) /\ q # <<>> /\ Len(q) \in Nat
      /\ \A i \in 1..Len(q) : q[i] \in OrderNodes /\ NodeIndexed(k, q[i], activeOrders)
  BY <1>1, LevelFacts DEF IInv
<1>3. Len(q) # 0 /\ 1 \in 1..Len(q) /\ Head(q) = maker
  <2> HIDE DEF q
  <2> QED BY <1>2, EmptySeq
<1>4. total = RestingQuantity(q)
  BY <1>1 DEF AggregateIsExact
<1>5. maker \in OrderNodes /\ NodeIndexed(k, maker, activeOrders)
  BY <1>2, <1>3
<1>6. \A i \in 1..Len(q) : q[i].remainingQuantity > 0
  <2> HIDE DEF q
  <2> QED BY <1>2 DEF NodeIndexed
<1>7. /\ r \in Nat /\ RestingQuantity(q) \in Nat
      /\ IF Len(q) = 1 THEN RestingQuantity(q) = r ELSE RestingQuantity(q) > r
  <2> HIDE DEF q
  <2> QED BY <1>2, <1>3, <1>6, RestingOfNode
<1>8. /\ id \in OrderIds /\ id \in DOMAIN activeOrders /\ r > 0
      /\ activeOrders[id] = [owner |-> maker.owner, side |-> k.side, price |-> k.price,
                             remainingQuantity |-> r]
  <2> HIDE DEF maker
  <2> QED BY <1>5 DEF NodeIndexed, OrderNodes
<1>9. activeOrders[id].remainingQuantity = r
  <2> HIDE DEF maker, id, r
  <2> QED BY <1>8
<1>10. /\ t \in Nat /\ t # 0 /\ t <= total /\ remaining - t \in Nat /\ r - t \in Nat
       /\ (r - t = 0 <=> r = t) /\ (r = t /\ Len(q) = 1 => total = t)
  <2> HIDE DEF r, total, q
  <2> QED BY <1>1, <1>4, <1>7, <1>8 DEF Lesser
<1>11. MakerIsConsistent(k, t) /\ (r - t = 0 => FilledLevelIsEmpty(k, t))
  <2>1. MakerIsConsistent(k, t)
    <3>1. Head(orderBooks[k].orders) = maker
      BY <1>3
    <3> HIDE DEF maker, t
    <3> QED BY <3>1, <1>8, <1>10 DEF MakerIsConsistent
  <2>2. ASSUME r - t = 0 PROVE FilledLevelIsEmpty(k, t)
    <3> HIDE DEF t, r
    <3> QED BY <2>2, <1>10 DEF FilledLevelIsEmpty
  <2> QED BY <2>1, <2>2
<1>12. /\ events' = Append(events, e) /\ remaining' = remaining - t
       /\ UNCHANGED <<phase, message, plan, result>>
       /\ IF r - t = 0
          THEN /\ SetLevel(k, [totalQuantity |-> total - t, orders |-> Tail(q)])
               /\ Deactivate(id)
          ELSE /\ SetLevel(k, [totalQuantity |-> total - t,
                               orders |-> [q EXCEPT ![1].remainingQuantity = r - t]])
               /\ SetActive(id, [activeOrders[id] EXCEPT !.remainingQuantity = r - t])
  BY <1>2, <1>3, <1>11 DEF executeTrade
<1>13. e \in Events /\ Disposed(e) = t
  <2>1. k.price \in Prices
    BY <1>2 DEF LevelKeys
  <2> HIDE DEF t, r, id
  <2>2. e \in Trades /\ e.kind = "Trade" /\ e.executionQuantity = t
    BY <2>1, <1>1, <1>8, <1>10 DEF Trades
  <2> HIDE DEF e
  <2> QED BY <2>2 DEF Events, Disposed
<1> HIDE DEF q, maker, id, r, t, total, e
<1>14. /\ r = t => /\ SetLevel(k, [totalQuantity |-> total - t, orders |-> Tail(q)])
                   /\ Deactivate(id)
       /\ r # t => /\ SetLevel(k, [totalQuantity |-> total - t,
                                   orders |-> [q EXCEPT ![1].remainingQuantity = r - t]])
                   /\ SetActive(id, [activeOrders[id] EXCEPT !.remainingQuantity = r - t])
  BY <1>10, <1>12
<1>15. id = q[1].orderId /\ r = q[1].remainingQuantity /\ q = orderBooks[k].orders
  BY DEF id, r, maker, q
<1>16. t = Lesser(remaining, r) /\ total \in Nat
  BY <1>4, <1>7 DEF t
<1> QED BY <1>2, <1>3, <1>4, <1>7, <1>8, <1>9, <1>10, <1>12, <1>13, <1>14, <1>15, <1>16 DEF Traded

\* The aggregates stay exact through a trade.
LEMMA TradeKeepsAggregates ==
  ASSUME AggregateIsExact, remaining \in Nat,
         NEW k, NEW q, NEW id, NEW r, NEW t, NEW e, NEW total, Traded(k, q, id, r, t, e, total)
  PROVE  AggregateIsExact'
<1>0. /\ q \in Seq(OrderNodes) /\ Len(q) \in Nat /\ Len(q) # 0 /\ q # <<>>
      /\ r \in Nat /\ r = q[1].remainingQuantity /\ t \in Nat /\ t <= r
      /\ total \in Nat /\ total = RestingQuantity(q)
      /\ r = t => SetLevel(k, [totalQuantity |-> total - t, orders |-> Tail(q)])
      /\ r # t => SetLevel(k, [totalQuantity |-> total - t,
                               orders |-> [q EXCEPT ![1].remainingQuantity = r - t]])
  <2>1. t = Lesser(remaining, r) /\ r \in Nat => t <= r
    BY DEF Lesser
  <2> QED BY <2>1 DEF Traded
<1>1. 1 \in 1..Len(q) /\ DOMAIN q = 1..Len(q) /\ q[1] \in OrderNodes
  BY <1>0, LenProperties, ElementOfSeq
<1>2. CASE r = t
  <2>1. /\ Tail(q) \in Seq(OrderNodes) /\ Len(Tail(q)) = Len(q) - 1
        /\ \A j \in 1..(Len(q) - 1) : Tail(q)[j] = q[j + 1]
    BY <1>0, HeadTailProperties
  <2>2. \A j \in 1..(Len(q) - 1) : Tail(q)[j] = q[IF j < 1 THEN j ELSE j + 1]
    BY <2>1, <1>0
  <2>3. /\ RestingQuantity(q) \in Nat /\ RestingQuantity(Tail(q)) \in Nat
        /\ q[1].remainingQuantity \in Nat
        /\ RestingQuantity(q) = RestingQuantity(Tail(q)) + q[1].remainingQuantity
    BY <2>1, <2>2, <1>0, <1>1, RestingWithout
  <2>4. total - t = RestingQuantity(Tail(q))
    BY <2>3, <1>0, <1>2
  <2> QED BY <2>4, <1>0, <1>2, AggregateAfter
<1>3. CASE r # t
  <2> DEFINE q2 == [q EXCEPT ![1].remainingQuantity = r - t]
  <2>1. q2[1] = [q[1] EXCEPT !.remainingQuantity = r - t] /\ \A j \in 2..Len(q) : q2[j] = q[j]
    BY <1>1
  <2>2. q2[1] \in OrderNodes /\ q2[1].remainingQuantity = r - t
    <3> HIDE DEF q2
    <3>1. r - t \in Nat
      BY <1>0
    <3> QED BY <3>1, <2>1, <1>1 DEF OrderNodes
  <2>3. q2 \in Seq(OrderNodes) /\ Len(q2) = Len(q)
    <3>1. \A j \in 1..Len(q) : q[j] \in OrderNodes
      BY <1>0, ElementOfSeq
    <3>2. DOMAIN q2 = 1..Len(q)
      BY <1>1
    <3>3. \A j \in 1..Len(q) : q2[j] \in OrderNodes
      <4> HIDE DEF q2
      <4>1. \A j \in 1..Len(q) : j = 1 \/ j \in 2..Len(q)
        BY <1>0
      <4> QED BY <4>1, <3>1, <2>1, <2>2
    <3>4. q2 = [j \in 1..Len(q) |-> q2[j]]
      BY <3>2
    <3> HIDE DEF q2
    <3>5. q2 \in Seq(OrderNodes)
      BY <3>3, <3>4, <1>0, IsASeq
    <3> QED BY <3>2, <3>5, <1>0, LenProperties
  <2> HIDE DEF q2
  <2>4. /\ RestingQuantity(q) \in Nat /\ RestingQuantity(q2) \in Nat
        /\ q[1].remainingQuantity \in Nat /\ q2[1].remainingQuantity \in Nat
        /\ RestingQuantity(q) + q2[1].remainingQuantity = RestingQuantity(q2) + q[1].remainingQuantity
    BY <2>1, <2>3, <1>0, RestingShrunk
  <2>5. total - t = RestingQuantity(q2)
    BY <2>2, <2>4, <1>0
  <2>6. SetLevel(k, [totalQuantity |-> total - t, orders |-> q2])
    BY <1>0, <1>3 DEF q2
  <2> QED BY <2>5, <2>6, AggregateAfter
<1> QED BY <1>2, <1>3

\* One trade keeps the accounts: executeTrade throws nothing, the plan stays
\* that of what is left, and what is left is what was not executed.
LEMMA MatchOrderAccounts ==
  ASSUME IInv, Accounting, MatchOrder
  PROVE  Accounting'
<1>1. PICK k \in Crossing(message) : (\A j \in Crossing(message) : NoWorse(k, j)) /\ executeTrade(k)
  BY DEF MatchOrder
<1>2. /\ phase = "matching" /\ remaining > 0 /\ remaining \in Nat /\ message \in NewOrders
      /\ events \in Seq(Events) /\ k \in DOMAIN orderBooks /\ BookInv
  BY DEF MatchOrder, IInv, TypeOK, Crossing
<1>3. AggregateIsExact /\ QuantityConserved /\ PlanFollows /\ NoLogicError
  BY DEF Accounting
<1>4. PICK q, id, r, t, e, total : Traded(k, q, id, r, t, e, total)
  BY <1>1, <1>2, <1>3, TradeSucceeds
<1>5. /\ id = orderBooks[k].orders[1].orderId /\ r = activeOrders[id].remainingQuantity /\ r \in Nat
      /\ t = Lesser(remaining, r) /\ t \in Nat /\ remaining' = remaining - t /\ remaining' \in Nat
      /\ e \in Events /\ Disposed(e) = t /\ events' = Append(events, e)
      /\ phase' = phase /\ message' = message /\ plan' = plan
      /\ r = t => Deactivate(id)
      /\ \E level : SetLevel(k, level)
  BY <1>4 DEF Traded
<1>6. AggregateIsExact'
  BY <1>2, <1>3, <1>4, TradeKeepsAggregates
<1>7. /\ Len(events) \in Nat /\ Len(events') = Len(events) + 1
      /\ Executed(events) \in Nat /\ Executed(events') = Executed(events) + t
  BY <1>2, <1>5, ExecutedGrows
<1>8. Indexed(activeOrders') /\ PlannedFor(activeOrders', message, remaining', Len(events'), plan)
  <2>1. FirstOf(activeOrders, EligibleIn(activeOrders, message), id)
    BY <1>1, <1>2, <1>5, FrontIsFirst
  <2>2. Indexed(activeOrders)
    BY <1>2, EligibleByPrice
  <2>3. PlannedFor(activeOrders, message, remaining, Len(events), plan)
    BY <1>2, <1>3 DEF PlanFollows
  <2>4. r = t => Without(activeOrders, id, activeOrders')
    BY <1>5 DEF Without, Deactivate
  <2>5. Indexed(activeOrders')
    <3>1. BookInv'
      BY MatchOrderIInv DEF IInv
    <3> QED BY <3>1, ActiveIndexed DEF BookInv, BookTyped
  <2>6. PlannedFor(activeOrders', message, remaining', Len(events) + 1, plan)
    <3>1. r <= remaining => r = t
      BY <1>2, <1>5 DEF Lesser
    <3>2. TradesFirst(activeOrders, activeOrders', message, id, r, remaining, remaining')
      BY <3>1, <2>1, <2>2, <2>4, <2>5, <1>2, <1>5 DEF TradesFirst
    <3> QED BY <3>2, <2>3, <1>7, PlanAfterTrade
  <2> QED BY <2>5, <2>6, <1>5, <1>7
<1>9. ~ExceedsBatch(plan)' /\ Len(events') <= MaxEventsPerCommand
  <2>1. plan' = plan /\ ~ExceedsBatch(plan)
    BY <1>2, <1>3, <1>5 DEF PlanFollows
  <2>2. Indexed(activeOrders') /\ PlannedFor(activeOrders', message, remaining', Len(events'), plan)
    BY <1>8
  <2>3. plan.remainder \in Nat /\ plan.executionCount \in Nat /\ plan.executionCount >= Len(events')
    <3>1. remaining' \in Nat
      BY <1>5
    <3>2. Len(events') \in Nat
      BY <1>7
    <3> QED BY <2>2, <3>1, <3>2, PlannedIsNat
  <2> QED BY <2>1, <2>3, <1>7, ConstantsAssumption DEF ExceedsBatch, plannedEventCount
<1>10. (message.tif = "GTC" => canAddOrder(message, plan.remainder))'
  <2>1. message.tif = "GTC" => canAddOrder(message, plan.remainder)
    BY <1>2, <1>3 DEF PlanFollows
  <2>2. OwnLevel(message) # k
    <3>1. k.side = Opposite(message.type) /\ message.type \in Sides
      BY <1>2 DEF Crossing, NewOrders
    <3> QED BY <3>1 DEF OwnLevel, Opposite, Sides
  <2>3. \E level : SetLevel(k, level)
    BY <1>5
  <2>4. \A j : j # k => /\ j \in DOMAIN orderBooks' <=> j \in DOMAIN orderBooks
                        /\ j \in DOMAIN orderBooks => orderBooks'[j] = orderBooks[j]
    BY <2>3 DEF SetLevel
  <2>5. message' = message /\ plan' = plan
    BY <1>5
  <2> QED BY <2>1, <2>2, <2>4, <2>5 DEF canAddOrder, OwnLevel
<1>11. phase' = "matching" /\ message' = message /\ plan' = plan
  BY <1>2, <1>5
<1>12. PlanFollows'
  BY <1>8, <1>9, <1>10, <1>11 DEF PlanFollows
<1>13. QuantityConserved'
  <2>1. Executed(events) + remaining = message.quantity
    BY <1>2, <1>3 DEF QuantityConserved, NewOrders
  <2>2. Executed(events') + remaining' = message.quantity
    BY <2>1, <1>2, <1>5, <1>7
  <2> QED BY <2>2, <1>11 DEF QuantityConserved
<1> QED BY <1>6, <1>9, <1>11, <1>12, <1>13 DEF Accounting, NoLogicError

\* A command that ends with one event closes its accounts.
LEMMA AccountsAtRest ==
  ASSUME AggregateIsExact', QuantityConserved', phase' = "idle", Len(events') = 1
  PROVE  Accounting'
<1>1. Len(events') <= MaxEventsPerCommand
  BY ConstantsAssumption
<1> QED BY <1>1 DEF Accounting, PlanFollows, NoLogicError

\* Planning and admitting an order throws nothing and starts its accounts.
LEMMA BeginOrderAccounts ==
  ASSUME IInv, Accounting, NEW m \in NewOrders, BeginOrder(m)
  PROVE  Accounting'
<1> DEFINE orderId == sequence + 1
           p == planMatches(m)
           E == EligibleIn(activeOrders, m)
<1>1. /\ sequence \in 0..MaxCommands /\ sequence < MaxCommands /\ BookInv /\ m.type \in Sides
      /\ m.quantity \in Nat /\ orderId \in OrderIds /\ orderId \notin DOMAIN activeOrders
  BY ConstantsAssumption DEF BeginOrder, IInv, TypeOK, SequencesInUse, OrderIds, NewOrders, Quantities
<1>2. Indexed(activeOrders) /\ p = PlanOn(activeOrders, E, m.quantity)
  BY <1>1, PlanMatchesDepth, EligibleByPrice
<1>3. ~p.meetsZero /\ PlannedFor(activeOrders, m, m.quantity, 0, p)
  <2>1. /\ p.meetsZero = FALSE
        /\ p.remainder = m.quantity - Lesser(m.quantity, DepthIn(activeOrders, E))
        /\ p.executionCount = Cardinality(Reached(activeOrders, E, m.quantity))
    <3> HIDE DEF p, E
    <3> QED BY <1>2 DEF PlanOn
  <2>2. Cardinality(Reached(activeOrders, E, m.quantity)) \in Nat
    <3>1. Reached(activeOrders, E, m.quantity) \in SUBSET DOMAIN activeOrders
      BY DEF Reached, EligibleIn
    <3> QED BY <3>1, <1>2, FS_Subset, FS_CardinalityType DEF Indexed
  <2> HIDE DEF p
  <2> QED BY <2>1, <2>2 DEF PlannedFor
<1> HIDE DEF p
<1>4. AggregateIsExact'
  BY DEF BeginOrder, Reject, Throw, Accounting, AggregateIsExact
<1>5. ASSUME Reject(m, orderId, "BOOK_CAPACITY_EXCEEDED", "BOOK_CAPACITY_EXCEEDED")
      PROVE  Accounting'
  <2> DEFINE e == [kind |-> "CommandRejected", orderId |-> orderId, reason |-> "BOOK_CAPACITY_EXCEEDED"]
  <2>1. e \in Events /\ Disposed(e) = 0
    BY <1>1 DEF Events, Rejecteds, Disposed
  <2>2. /\ events' = <<e>> /\ phase' = "idle" /\ result' = "BOOK_CAPACITY_EXCEEDED"
    BY <1>5 DEF Reject
  <2> HIDE DEF e
  <2>3. Executed(events') = 0 /\ Len(events') = 1
    BY <2>1, <2>2, ExecutedAtOnce
  <2>4. QuantityConserved'
    BY <2>2, <2>3 DEF QuantityConserved
  <2> QED BY <1>4, <2>2, <2>3, <2>4, AccountsAtRest
<1>6. ASSUME ~ExceedsBatch(p), m.tif = "GTC" => canAddOrder(m, p.remainder),
             phase' = "matching", message' = m, plan' = p, remaining' = m.quantity, events' = <<>>,
             UNCHANGED bookVars
      PROVE  Accounting'
  <2>1. Executed(events') = 0 /\ Len(events') = 0
    BY <1>6, ExecutedAtOnce
  <2>2. PlannedFor(activeOrders', message', remaining', Len(events'), plan')
    BY <1>3, <1>6, <2>1 DEF bookVars
  <2>3. PlanFollows'
    BY <1>6, <2>2 DEF PlanFollows, ExceedsBatch, plannedEventCount, canAddOrder, OwnLevel, bookVars
  <2>4. QuantityConserved'
    BY <1>1, <1>6, <2>1 DEF QuantityConserved
  <2>5. Len(events') <= MaxEventsPerCommand
    BY <2>1, ConstantsAssumption
  <2> QED BY <1>4, <1>6, <2>3, <2>4, <2>5 DEF Accounting, NoLogicError
<1>7. \/ Reject(m, orderId, "BOOK_CAPACITY_EXCEEDED", "BOOK_CAPACITY_EXCEEDED")
      \/ /\ ~ExceedsBatch(p) /\ (m.tif = "GTC" => canAddOrder(m, p.remainder))
         /\ phase' = "matching" /\ message' = m /\ plan' = p /\ remaining' = m.quantity /\ events' = <<>>
         /\ UNCHANGED bookVars
  BY <1>1, <1>3 DEF BeginOrder, bookVars, p
<1> QED BY <1>5, <1>6, <1>7

\* The end of processOrder throws nothing: what was executed is what was planned,
\* and its last event closes the accounts.
LEMMA FinishOrderAccounts ==
  ASSUME IInv, Accounting, FinishOrder
  PROVE  Accounting'
<1> DEFINE rests == message.tif = "GTC" /\ remaining > 0
           terminal == Terminal(message, remaining)
<1>1. /\ phase = "matching" /\ remaining \in Nat /\ message \in NewOrders /\ events \in Seq(Events)
      /\ BookInv /\ sequence \in OrderIds /\ sequence \notin DOMAIN activeOrders
      /\ message.type \in Sides
      /\ remaining = 0 \/ Crossing(message) = {}
  BY DEF FinishOrder, IInv, TypeOK, SequencesInUse, NewOrders
<1>2. /\ PlannedFor(activeOrders, message, remaining, Len(events), plan)
      /\ ~ExceedsBatch(plan) /\ (message.tif = "GTC" => canAddOrder(message, plan.remainder))
      /\ AggregateIsExact /\ Executed(events) + remaining = message.quantity
  BY <1>1 DEF Accounting, PlanFollows, QuantityConserved
<1>3. Len(events) \in Nat
  BY <1>1, LenProperties
<1>4. plan.remainder = remaining /\ plan.executionCount = Len(events)
  <2>1. Indexed(activeOrders) /\ Eligible(message) = EligibleIn(activeOrders, message)
    BY <1>1, EligibleByPrice
  <2>2. remaining = 0 \/ EligibleIn(activeOrders, message) = {}
    BY <2>1, <1>1 DEF Eligible
  <2> QED BY <2>1, <2>2, <1>1, <1>2, <1>3, PlanAtEnd
<1>5. PICK n \in Nat : /\ n = IF remaining > 0 THEN 1 ELSE 0
                       /\ Len(terminal) = n /\ plannedEventCount(plan) = Len(events) + n
                       /\ Len(events \o terminal) = Len(events) + n
                       /\ Executed(events \o terminal) = message.quantity
  <2>1. CASE remaining = 0
    <3>1. terminal = <<>> /\ events \o terminal = events /\ Len(terminal) = 0
      BY <2>1, <1>1 DEF Terminal
    <3>2. Executed(events) + 0 = message.quantity /\ Executed(events) \in Nat
      BY <2>1, <1>2, <1>1, ExecutedIsNat
    <3> HIDE DEF terminal
    <3> QED BY <2>1, <3>1, <3>2, <1>1, <1>3, <1>4 DEF plannedEventCount
  <2>2. CASE remaining # 0
    <3>1. PICK e \in Events : terminal = <<e>> /\ Disposed(e) = remaining
      <4> DEFINE a == [kind |-> "OrderRested", orderId |-> sequence, quantity |-> remaining]
                 b == [kind |-> "OrderCancelled", orderId |-> sequence, quantity |-> remaining,
                       reason |-> "IOC_REMAINDER"]
      <4>1. a \in Events /\ Disposed(a) = remaining
        BY <1>1 DEF Events, Resteds, Disposed
      <4>2. b \in Events /\ Disposed(b) = remaining
        BY <1>1 DEF Events, Cancelleds, Disposed
      <4>3. terminal = <<a>> \/ terminal = <<b>>
        BY <2>2 DEF Terminal
      <4> HIDE DEF a, b
      <4> QED BY <4>1, <4>2, <4>3
    <3>2. events \o terminal = Append(events, e) /\ Len(terminal) = 1
      BY <3>1, <1>1
    <3> HIDE DEF terminal
    <3>3. /\ Len(Append(events, e)) = Len(events) + 1
          /\ Executed(events) \in Nat /\ Executed(Append(events, e)) = Executed(events) + Disposed(e)
      BY <3>1, <1>1, ExecutedGrows
    <3>4. Executed(Append(events, e)) = message.quantity
      BY <3>1, <3>3, <1>1, <1>2
    <3>5. plannedEventCount(plan) = Len(events) + 1
      BY <2>2, <1>1, <1>3, <1>4 DEF plannedEventCount
    <3>6. remaining > 0
      BY <2>2, <1>1
    <3> QED BY <3>2, <3>3, <3>4, <3>5, <3>6
  <2> QED BY <2>1, <2>2
<1>6. /\ IF rests THEN addOrder(message, sequence, remaining) ELSE UNCHANGED bookVars
      /\ events' = events \o terminal /\ result' = "APPLIED" /\ phase' = "idle" /\ message' = message
  BY <1>1, <1>2, <1>4, <1>5 DEF FinishOrder
<1>7. AggregateIsExact'
  <2>1. CASE rests
    <3> DEFINE k == OwnLevel(message)
               level == IF k \in DOMAIN orderBooks THEN orderBooks[k]
                        ELSE [totalQuantity |-> 0, orders |-> <<>>]
               node == [orderId |-> sequence, owner |-> message.clientId, remainingQuantity |-> remaining]
    <3>1. SetLevel(k, [totalQuantity |-> level.totalQuantity + node.remainingQuantity,
                       orders |-> Append(level.orders, node)])
      BY <2>1, <1>6 DEF addOrder, Enqueue
    <3>2. node \in OrderNodes
      BY <1>1 DEF OrderNodes, NewOrders
    <3>3. level.orders \in Seq(OrderNodes) /\ level.totalQuantity = RestingQuantity(level.orders)
      <4>1. CASE k \in DOMAIN orderBooks
        BY <4>1, <1>1, <1>2, LevelFacts DEF AggregateIsExact
      <4>2. CASE k \notin DOMAIN orderBooks
        BY <4>2, RestingOfNone
      <4> QED BY <4>1, <4>2
    <3> HIDE DEF k, level, node
    <3>4. RestingQuantity(Append(level.orders, node)) = RestingQuantity(level.orders) + node.remainingQuantity
      BY <3>2, <3>3, RestingPushed
    <3> QED BY <3>1, <3>3, <3>4, <1>2, AggregateAfter
  <2>2. CASE ~rests
    BY <2>2, <1>2, <1>6 DEF bookVars, AggregateIsExact
  <2> QED BY <2>1, <2>2
<1>8. QuantityConserved'
  BY <1>5, <1>6 DEF QuantityConserved
<1>9. Len(events') <= MaxEventsPerCommand
  BY <1>2, <1>3, <1>5, <1>6, ConstantsAssumption DEF ExceedsBatch
<1> QED BY <1>6, <1>7, <1>8, <1>9 DEF Accounting, PlanFollows, NoLogicError

\* processCancel throws nothing: the node it takes out is the one its index entry describes.
LEMMA ProcessCancelAccounts ==
  ASSUME IInv, Accounting, NEW m \in Cancels, ProcessCancel(m)
  PROVE  Accounting'
<1> DEFINE id == m.targetOrderId
<1>1. /\ phase = "idle" /\ BookInv /\ AggregateIsExact /\ m.type = "CANCEL"
      /\ id \in OrderIds
  BY DEF ProcessCancel, IInv, Accounting, Cancels
<1>2. ASSUME NEW reason, Reject(m, id, reason, "APPLIED")
      PROVE  Accounting'
  <2>1. /\ Len(events') = 1 /\ phase' = "idle" /\ message' = m /\ UNCHANGED orderBooks
    BY <1>2 DEF Reject
  <2>2. AggregateIsExact'
    BY <1>1, <2>1 DEF AggregateIsExact
  <2>3. QuantityConserved'
    BY <1>1, <2>1 DEF QuantityConserved, Sides
  <2> QED BY <2>1, <2>2, <2>3, AccountsAtRest
<1>3. ASSUME id \in DOMAIN activeOrders, removeCancelledOrder(m, id)
      PROVE  Accounting'
  <2> DEFINE order == activeOrders[id]
             k == [side |-> order.side, price |-> order.price]
             q == orderBooks[k].orders
  <2>1. k \in DOMAIN orderBooks /\ \E j \in 1..Len(q) : q[j].orderId = id
    BY <1>1, <1>3, OrderHasNode
  <2>2. /\ q \in Seq(OrderNodes) /\ Len(q) \in Nat /\ DOMAIN q = 1..Len(q)
        /\ \A i \in 1..Len(q) : q[i] \in OrderNodes /\ NodeIndexed(k, q[i], activeOrders)
        /\ orderBooks[k].totalQuantity = RestingQuantity(q)
    BY <1>1, <2>1, LevelFacts DEF AggregateIsExact
  <2>3. ASSUME NEW j \in 1..Len(q), q[j].orderId = id
        PROVE  /\ q[j] = [orderId |-> id, owner |-> order.owner, remainingQuantity |-> order.remainingQuantity]
               /\ order.remainingQuantity = q[j].remainingQuantity /\ order.remainingQuantity > 0
               /\ q[j].remainingQuantity \in Nat /\ RestingQuantity(q) \in Nat
               /\ IF Len(q) = 1 THEN RestingQuantity(q) = q[j].remainingQuantity
                  ELSE RestingQuantity(q) > q[j].remainingQuantity
    <3>1. q[j] \in OrderNodes /\ NodeIndexed(k, q[j], activeOrders)
      BY <2>2
    <3>2. /\ order.remainingQuantity = q[j].remainingQuantity /\ order.remainingQuantity > 0
          /\ order.owner = q[j].owner
      <4> DEFINE node == q[j]
      <4>1. NodeIndexed(k, node, activeOrders) /\ node.orderId = id
        BY <3>1, <2>3
      <4> HIDE DEF node
      <4> QED BY <4>1 DEF NodeIndexed, node
    <3>3. \A x \in OrderNodes : x = [orderId |-> x.orderId, owner |-> x.owner,
                                     remainingQuantity |-> x.remainingQuantity]
      BY DEF OrderNodes
    <3>4. \A i \in 1..Len(q) : q[i].remainingQuantity > 0
      BY <2>2 DEF NodeIndexed
    <3> HIDE DEF q, order
    <3>5. q[j] = [orderId |-> q[j].orderId, owner |-> q[j].owner, remainingQuantity |-> q[j].remainingQuantity]
      BY <3>1, <3>3
    <3>6. /\ q[j].remainingQuantity \in Nat /\ RestingQuantity(q) \in Nat
          /\ IF Len(q) = 1 THEN RestingQuantity(q) = q[j].remainingQuantity
             ELSE RestingQuantity(q) > q[j].remainingQuantity
      BY <2>2, <3>4, RestingOfNode
    <3> QED BY <2>3, <3>2, <3>5, <3>6
  <2>4. order.remainingQuantity # 0 /\ \E j \in DOMAIN q : q[j].orderId = id /\ CancelTargetIsConsistent(id, k, j)
    <3>1. PICK j \in 1..Len(q) : q[j].orderId = id
      BY <2>1
    <3>2. CancelTargetIsConsistent(id, k, j)
      BY <2>2, <2>3, <3>1 DEF CancelTargetIsConsistent
    <3>3. order.remainingQuantity # 0
      <4> HIDE DEF order
      <4> QED BY <2>3, <3>1
    <3> QED BY <2>2, <3>1, <3>2, <3>3
  <2>5. PICK i \in DOMAIN q :
          /\ q[i].orderId = id
          /\ SetLevel(k, WithoutNode(orderBooks[k], i))
          /\ \E e : events' = <<e>>
          /\ message' = m /\ phase' = phase
    BY <2>1, <2>4, <1>3 DEF removeCancelledOrder
  <2>6. AggregateIsExact'
    <3> DEFINE rest == RemoveAt(q, i)
               total == orderBooks[k].totalQuantity - q[i].remainingQuantity
    <3>1. /\ rest \in Seq(OrderNodes) /\ Len(rest) = Len(q) - 1
          /\ \A l \in 1..(Len(q) - 1) : rest[l] = q[IF l < i THEN l ELSE l + 1]
      <4> HIDE DEF q
      <4> QED BY <2>2, RemoveAtProperties
    <3>2. SetLevel(k, [totalQuantity |-> total, orders |-> rest])
      BY <2>5 DEF WithoutNode
    <3>3. total = RestingQuantity(q) - q[i].remainingQuantity
      BY <2>2
    <3> HIDE DEF q, rest, total, k
    <3>4. /\ RestingQuantity(q) \in Nat /\ RestingQuantity(rest) \in Nat /\ q[i].remainingQuantity \in Nat
          /\ RestingQuantity(q) = RestingQuantity(rest) + q[i].remainingQuantity
      BY <2>2, <3>1, RestingWithout
    <3>5. total = RestingQuantity(rest)
      BY <3>3, <3>4
    <3> QED BY <1>1, <3>2, <3>5, AggregateAfter
  <2>7. Len(events') = 1 /\ phase' = "idle"
    BY <1>1, <2>5
  <2>8. QuantityConserved'
    BY <1>1, <2>5 DEF QuantityConserved, Sides
  <2> QED BY <2>6, <2>7, <2>8, AccountsAtRest
<1> QED BY <1>2, <1>3 DEF ProcessCancel

-----------------------------------------------------------------------------
(* Theorems.                                                               *)

\* The books, the index and the control state of MatchingState keep the
\* inductive invariant through every command.
THEOREM Invariance == Spec => []IInv
<1>1. ASSUME IInv, [Next]_vars PROVE IInv'
  <2>1. CASE \E m \in NewOrders : BeginOrder(m)
    BY <1>1, <2>1, BeginOrderIInv
  <2>2. CASE \E m \in Cancels : ProcessCancel(m)
    BY <1>1, <2>2, ProcessCancelIInv
  <2>3. CASE MatchOrder
    BY <1>1, <2>3, MatchOrderIInv
  <2>4. CASE FinishOrder
    BY <1>1, <2>4, FinishOrderIInv
  <2>5. CASE UNCHANGED vars
    <3>1. BookInv'
      BY <1>1, <2>5, BooksUnchanged DEF vars, bookVars, IInv
    <3>2. TypeOK' /\ SequencesInUse'
      BY <1>1, <2>5 DEF vars, IInv, TypeOK, SequencesInUse
    <3> QED BY <3>1, <3>2 DEF IInv
  <2> QED BY <1>1, <2>1, <2>2, <2>3, <2>4, <2>5 DEF Next, Exhausted
<1> QED BY <1>1, InitIInv, PTL DEF Spec

\* Type correctness of MatchingState: in particular quantities, remainders
\* and level aggregates never go below zero.
THEOREM TypeCorrect == Spec => []TypeOK
<1>1. IInv => TypeOK
  BY DEF IInv
<1> QED BY <1>1, Invariance, PTL

\* MatchingState::invariantsHold: the active-order index and the books agree
\* after every step of every command.
THEOREM IndexConsistency == Spec => []IndexMatchesBook
<1>1. IInv => IndexMatchesBook
  BY DEF IInv, BookInv
<1> QED BY <1>1, Invariance, PTL

\* Orders wait in their level in the order in which they were sequenced.
THEOREM QueueOrder == Spec => []TimePriority
<1>1. IInv => TimePriority
  BY DEF IInv, BookInv
<1> QED BY <1>1, Invariance, PTL

\* The book is never crossed nor locked.
THEOREM NeverCrossed == Spec => []BookUncrossed
<1>1. IInv => BookUncrossed
  BY DEF IInv, BookInv
<1> QED BY <1>1, Invariance, PTL

\* No level's aggregate exceeds the configured maximum.
THEOREM AggregateCapacity == Spec => []AggregateBounded
<1>1. IInv => AggregateBounded
  BY DEF IInv, BookInv
<1> QED BY <1>1, Invariance, PTL

\* A step that fills order o finds it first in price-time priority on its side.
LEMMA FillHasPriority ==
  ASSUME IInv, Next,
         NEW o \in DOMAIN activeOrders, Fills(o),
         NEW other \in DOMAIN activeOrders, activeOrders[other].side = activeOrders[o].side
  PROVE  /\ NoWorse(activeOrders[o], activeOrders[other])
         /\ activeOrders[other].price = activeOrders[o].price => o <= other
<1>1. /\ phase = "matching" /\ sequence \in OrderIds /\ sequence \notin DOMAIN activeOrders
      /\ activeOrders' # activeOrders
  BY DEF Fills, IInv, SequencesInUse
<1>2. ~FinishOrder
  <2> SUFFICES ASSUME FinishOrder PROVE FALSE
    OBVIOUS
  <2>1. addOrder(message, sequence, remaining)
    BY <1>1 DEF FinishOrder, Throw, bookVars
  <2>2. o \in DOMAIN activeOrders' /\ activeOrders'[o] = activeOrders[o]
    BY <1>1, <2>1 DEF addOrder, SetActive
  <2> QED BY <2>2 DEF Fills
<1>3. MatchOrder
  BY <1>1, <1>2 DEF Next, BeginOrder, ProcessCancel, Exhausted, vars
<1>4. PICK k \in Crossing(message) : (\A j \in Crossing(message) : NoWorse(k, j)) /\ executeTrade(k)
  BY <1>3 DEF MatchOrder
<1>5. /\ k \in DOMAIN orderBooks /\ k \in LevelKeys /\ message \in NewOrders
      /\ k = [side |-> k.side, price |-> k.price]
  BY <1>1, <1>4, LevelFacts DEF Crossing, IInv, TypeOK
<1> DEFINE q == orderBooks[k].orders
           id == Head(q).orderId
<1>6. /\ q \in Seq(OrderNodes) /\ q # <<>> /\ Len(q) \in Nat /\ DOMAIN q = 1..Len(q)
      /\ Head(q) = q[1] /\ 1 \in 1..Len(q)
  <2>1. q \in Seq(OrderNodes) /\ q # <<>> /\ Len(q) \in Nat /\ DOMAIN q = 1..Len(q)
    BY <1>5, LevelFacts DEF IInv
  <2> QED BY <2>1, EmptySeq
<1>7. id \in DOMAIN activeOrders /\ activeOrders[id].side = k.side /\ activeOrders[id].price = k.price
  <2>1. NodeIndexed(k, q[1], activeOrders)
    BY <1>5, <1>6, LevelFacts DEF IInv
  <2>2. NodeIndexed(k, Head(q), activeOrders)
    BY <2>1, <1>6
  <2> HIDE DEF q
  <2> QED BY <2>2 DEF NodeIndexed
<1>8. o = id
  <2>1. Deactivate(id) \/ \E order : SetActive(id, order)
    BY <1>1, <1>4 DEF executeTrade, Throw
  <2> HIDE DEF id
  <2> QED BY <2>1, <1>7 DEF Deactivate, SetActive, Fills
<1>9. PICK l \in DOMAIN orderBooks :
        /\ l = [side |-> activeOrders[other].side, price |-> activeOrders[other].price]
        /\ \E j \in 1..Len(orderBooks[l].orders) : orderBooks[l].orders[j].orderId = other
  BY OrderHasNode DEF IInv
<1>10. l \in LevelKeys /\ l.side = k.side /\ l.price = activeOrders[other].price
  BY <1>7, <1>8, <1>9, LevelFacts DEF IInv
<1>11. NoWorse(k, l)
  <2>1. CASE l \in Crossing(message)
    BY <2>1, <1>4
  <2>2. CASE l \notin Crossing(message)
    <3>1. /\ k.side = Opposite(message.type) /\ message.type \in Sides
          /\ k.price \in Int /\ l.price \in Int /\ message.price \in Int
      BY <1>4, <1>5, <1>10 DEF Crossing, NewOrders, LevelKeys, Prices
    <3>2. IF message.type = "BUY" THEN k.price <= message.price /\ l.price > message.price
          ELSE k.price >= message.price /\ l.price < message.price
      BY <3>1, <2>2, <1>4, <1>9, <1>10 DEF Crossing
    <3> QED BY <3>1, <3>2 DEF NoWorse, Opposite, Sides
  <2> QED BY <2>1, <2>2
<1>12. NoWorse(activeOrders[o], activeOrders[other])
  BY <1>7, <1>8, <1>10, <1>11 DEF NoWorse
<1>13. ASSUME activeOrders[other].price = activeOrders[o].price
       PROVE  o <= other
  <2>1. l = k
    <3>1. l.price = k.price /\ l.side = k.side
      BY <1>7, <1>8, <1>10, <1>13
    <3>2. l = [side |-> l.side, price |-> l.price]
      BY LevelFacts DEF IInv
    <3> QED BY <3>1, <3>2, <1>5
  <2>2. PICK j \in 1..Len(q) : q[j].orderId = other
    BY <1>9, <2>1
  <2>3. q[1].orderId = o /\ o \in Int /\ other \in Int
    BY <1>6, <1>8 DEF IInv, TypeOK, OrderIds
  <2>4. CASE j = 1
    BY <2>2, <2>3, <2>4
  <2>5. CASE j # 1
    <3>1. 1 < j /\ 1 \in DOMAIN q /\ j \in DOMAIN q
      BY <2>5, <1>6
    <3>2. q[1].orderId < q[j].orderId
      BY <3>1, <1>5 DEF IInv, BookInv, TimePriority
    <3> QED BY <3>2, <2>2, <2>3
  <2> QED BY <2>4, <2>5
<1> QED BY <1>12, <1>13

\* Price-time priority holds of every trade of every command.
THEOREM PriorityOfFills == Spec => PriceTimePriority
<1>1. ASSUME IInv, [Next]_vars
      PROVE  [\A o \in DOMAIN activeOrders : Fills(o) =>
                \A other \in DOMAIN activeOrders :
                  activeOrders[other].side = activeOrders[o].side =>
                    /\ NoWorse(activeOrders[o], activeOrders[other])
                    /\ activeOrders[other].price = activeOrders[o].price => o <= other]_vars
  <2>1. CASE UNCHANGED vars
    BY <2>1
  <2>2. CASE Next
    BY <1>1, <2>2, FillHasPriority
  <2> QED BY <1>1, <2>1, <2>2
<1> QED BY <1>1, Invariance, PTL DEF Spec, PriceTimePriority

-----------------------------------------------------------------------------
(* Theorems on the accounts.                                               *)

\* The accounts are in order after every step of every command.
THEOREM Accountability == Spec => [](IInv /\ Accounting)
<1>1. ASSUME Init PROVE Accounting
  <2>1. AggregateIsExact
    BY <1>1 DEF Init, AggregateIsExact
  <2>2. QuantityConserved
    BY <1>1 DEF Init, QuantityConserved, NoMessage, Sides
  <2>3. Len(events) <= MaxEventsPerCommand
    BY <1>1, ConstantsAssumption DEF Init
  <2> QED BY <1>1, <2>1, <2>2, <2>3 DEF Accounting, PlanFollows, NoLogicError, Init
<1>2. ASSUME IInv, Accounting, [Next]_vars PROVE Accounting'
  <2>1. CASE \E m \in NewOrders : BeginOrder(m)
    BY <1>2, <2>1, BeginOrderAccounts
  <2>2. CASE \E m \in Cancels : ProcessCancel(m)
    BY <1>2, <2>2, ProcessCancelAccounts
  <2>3. CASE MatchOrder
    BY <1>2, <2>3, MatchOrderAccounts
  <2>4. CASE FinishOrder
    BY <1>2, <2>4, FinishOrderAccounts
  <2>5. CASE UNCHANGED vars
    <3>1. /\ UNCHANGED <<orderBooks, activeOrders, phase, message, remaining, plan, events, result>>
      BY <2>5 DEF vars
    <3>2. AggregateIsExact' /\ QuantityConserved' /\ NoLogicError' /\ Len(events') <= MaxEventsPerCommand
      BY <1>2, <3>1 DEF Accounting, AggregateIsExact, QuantityConserved, NoLogicError
    <3>3. PlanFollows'
      BY <1>2, <3>1 DEF Accounting, PlanFollows, canAddOrder, OwnLevel, ExceedsBatch, plannedEventCount
    <3> QED BY <3>2, <3>3 DEF Accounting
  <2> QED BY <1>2, <2>1, <2>2, <2>3, <2>4, <2>5 DEF Next, Exhausted
<1> QED BY <1>1, <1>2, Invariance, PTL DEF Spec

\* No command makes the engine throw.
THEOREM NeverThrows == Spec => []NoLogicError
<1>1. Accounting => NoLogicError
  BY DEF Accounting
<1> QED BY <1>1, Accountability, PTL

\* Every level's cached aggregate is the sum over its queue.
THEOREM ExactAggregates == Spec => []AggregateIsExact
<1>1. Accounting => AggregateIsExact
  BY DEF Accounting
<1> QED BY <1>1, Accountability, PTL

\* An order's events account for its quantity.
THEOREM Conservation == Spec => []QuantityConserved
<1>1. Accounting => QuantityConserved
  BY DEF Accounting
<1> QED BY <1>1, Accountability, PTL

\* The plan is what the definition by depth says, for every order that could come
\* next, and no batch is longer than planned for.
THEOREM ExactPlan == Spec => []PlanIsExact
<1>1. ASSUME IInv, Accounting PROVE PlanIsExact
  <2>1. \A m \in NewOrders : planMatches(m) = PlanByDepth(m, m.quantity)
    BY <1>1, PlanMatchesDepth DEF IInv
  <2> QED BY <1>1, <2>1 DEF Accounting, PlanIsExact
<1> QED BY <1>1, Accountability, PTL
=============================================================================
