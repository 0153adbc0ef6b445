------------------------- MODULE EventGatewayProofs -------------------------
(***************************************************************************)
(* Theorems about EventGateway: a connection that is in the table missed   *)
(* nothing, and only a connection with a backlog is evicted.               *)
(***************************************************************************)
EXTENDS EventGateway, SequenceTheorems, FiniteSetTheorems, TLAPS

-----------------------------------------------------------------------------
(* What taking from a queue and adding to it does to the sequence of all   *)
(* that was ever in it.                                                    *)

\* The first element of a queue moves to the sequence before it.
LEMMA HeadMoves ==
  ASSUME NEW S, NEW q \in Seq(S), q # <<>>
  PROVE  /\ Head(q) \in S /\ <<Head(q)>> \in Seq(S) /\ Tail(q) \in Seq(S)
         /\ <<Head(q)>> \o Tail(q) = q
         /\ \A a \in Seq(S) : (a \o <<Head(q)>>) \o Tail(q) = (a \o <<>>) \o q
  <1>1. Head(q) \in S /\ <<Head(q)>> \in Seq(S) /\ Tail(q) \in Seq(S)
    BY HeadTailProperties
  <1>2. <<Head(q)>> \o Tail(q) = q
    <2>1. /\ Len(<<Head(q)>> \o Tail(q)) = Len(q) /\ <<Head(q)>> \o Tail(q) \in Seq(S)
          /\ \A i \in 1..Len(q) : (<<Head(q)>> \o Tail(q))[i] = q[i]
      BY <1>1, HeadTailProperties, ConcatProperties
    <2>. QED  BY <2>1, SeqEqual
  <1>3. ASSUME NEW a \in Seq(S)
        PROVE  (a \o <<Head(q)>>) \o Tail(q) = (a \o <<>>) \o q
    BY <1>1, <1>2, ConcatAssociative, ConcatEmptySeq
  <1>. QED  BY <1>1, <1>2, <1>3

\* The queue takes one more.
LEMMA EndOfPath ==
  ASSUME NEW S, NEW a \in Seq(S), NEW q \in Seq(S), NEW e \in S
  PROVE  /\ Append(q, e) \in Seq(S) /\ a \o q \in Seq(S)
         /\ Len(a \o Append(q, e)) = Len(a \o q) + 1
         /\ \A i \in 1..Len(a \o q) : (a \o Append(q, e))[i] = (a \o q)[i]
         /\ (a \o Append(q, e))[Len(a \o q) + 1] = e
  <1>. DEFINE q2 == Append(q, e)
  <1>1. /\ q2 \in Seq(S) /\ Len(q2) = Len(q) + 1 /\ q2[Len(q) + 1] = e
        /\ \A i \in 1..Len(q) : q2[i] = q[i]
    BY AppendProperties
  <1>. HIDE DEF q2
  <1>2. Len(a) \in Nat /\ Len(q) \in Nat
    OBVIOUS
  <1>3. /\ a \o q \in Seq(S) /\ Len(a \o q) = Len(a) + Len(q)
        /\ \A i \in 1..(Len(a) + Len(q)) : (a \o q)[i] = IF i <= Len(a) THEN a[i] ELSE q[i - Len(a)]
    BY ConcatProperties
  <1>4. /\ Len(a \o q2) = Len(a) + Len(q2)
        /\ \A i \in 1..(Len(a) + Len(q2)) : (a \o q2)[i] = IF i <= Len(a) THEN a[i] ELSE q2[i - Len(a)]
    BY <1>1, ConcatProperties
  <1>5. Len(a \o q2) = Len(a \o q) + 1
    BY <1>1, <1>2, <1>3, <1>4
  <1>6. ASSUME NEW i \in 1..Len(a \o q) PROVE (a \o q2)[i] = (a \o q)[i]
    <2>1. CASE i <= Len(a)
      BY <1>1, <1>2, <1>3, <1>4, <2>1
    <2>2. CASE ~(i <= Len(a))
      <3>1. i - Len(a) \in 1..Len(q) /\ i \in 1..(Len(a) + Len(q2))
        BY <1>1, <1>2, <1>3, <2>2
      <3>. QED  BY <1>1, <1>3, <1>4, <2>2, <3>1
    <2>. QED  BY <2>1, <2>2
  <1>7. (a \o q2)[Len(a \o q) + 1] = e
    <2>1. /\ Len(a \o q) + 1 \in 1..(Len(a) + Len(q2)) /\ ~(Len(a \o q) + 1 <= Len(a))
          /\ Len(a \o q) + 1 - Len(a) = Len(q) + 1
      BY <1>1, <1>2, <1>3
    <2>. QED  BY <1>1, <1>4, <2>1
  <1>. QED  BY <1>1, <1>3, <1>5, <1>6, <1>7 DEF q2

-----------------------------------------------------------------------------
(* Induction and recursion over an initial segment of the natural numbers, *)
(* stated of sets and functions.                                           *)

\* A set that holds 0 and with each number below l the next one holds all up to
\* l: the numbers up to which it has no gap are as many as the last of them.
LEMMA CountingUp ==
  ASSUME NEW l \in Nat, NEW S, 0 \in S, \A n \in 0..(l - 1) : n \in S => n + 1 \in S
  PROVE  \A n \in 0..l : n \in S
<1> DEFINE T == {n \in 1..l : \A j \in 0..n : j \in S}
           c == Cardinality(T)
<1>1. IsFiniteSet(1..l) /\ Cardinality(1..l) = l
  BY FS_Interval
<1>2. T \in SUBSET (1..l)
  OBVIOUS
<1>3. IsFiniteSet(T) /\ c \in Nat /\ c <= l
  <2> HIDE DEF T
  <2> QED BY <1>1, <1>2, FS_Subset, FS_CardinalityType
<1>4. ASSUME NEW i \in T PROVE i \in 1..c
  <2>1. i \in Nat /\ i >= 1 /\ i \in 1..l
    OBVIOUS
  <2>2. 1..i \in SUBSET T
    OBVIOUS
  <2> HIDE DEF T
  <2>3. Cardinality(1..i) = i
    BY <2>1, FS_Interval
  <2>4. Cardinality(1..i) <= c
    BY <1>3, <2>2, FS_Subset
  <2> HIDE DEF c
  <2> QED BY <2>1, <2>3, <2>4, <1>3
<1>5. T = 1..c
  <2>1. T \in SUBSET (1..c)
    BY <1>4
  <2> HIDE DEF T
  <2>2. IsFiniteSet(1..c) /\ Cardinality(1..c) = c
    BY <1>3, FS_Interval
  <2> QED BY <2>1, <2>2, FS_Subset
<1> HIDE DEF c
<1>6. \A j \in 0..c : j \in S
  <2>1. CASE c = 0
    BY <2>1
  <2>2. CASE c # 0
    <3>1. c \in T
      BY <2>2, <1>3, <1>5
    <3> QED BY <3>1
  <2> QED BY <2>1, <2>2
<1>7. c = l
  <2> SUFFICES ASSUME c < l PROVE FALSE
    BY <1>3
  <2>1. c + 1 \in S
    BY <1>3, <1>6
  <2>2. \A j \in 0..(c + 1) : j \in S
    <3> SUFFICES ASSUME NEW j \in 0..(c + 1) PROVE j \in S
      OBVIOUS
    <3>1. j = c + 1 \/ j \in 0..c
      BY <1>3
    <3> QED BY <3>1, <2>1, <1>6
  <2>3. c + 1 \in T
    BY <2>2, <1>3
  <2>4. c + 1 \notin 1..c
    BY <1>3
  <2> HIDE DEF T
  <2> QED BY <2>3, <2>4, <1>5
<1> QED BY <1>6, <1>7

\* f solves a recursion over 0..l.
Solution(f, l, V, start, step) ==
  f \in [0..l -> V] /\ f[0] = start /\ \A n \in 1..l : f[n] = step[<<f[n - 1], n>>]

\* A recursion over 0..l has a solution.
LEMMA RecursionExists ==
  ASSUME NEW l \in Nat, NEW V, NEW start \in V, NEW step \in [V \X (1..l) -> V]
  PROVE  \E f : Solution(f, l, V, start, step)
<1> DEFINE Solves(f, m) == f[0] = start /\ \A n \in 1..m : f[n] = step[<<f[n - 1], n>>]
           S == {m \in 0..l : \E f \in [0..l -> V] : Solves(f, m)}
<1>1. 0 \in S
  <2> DEFINE f == [n \in 0..l |-> start]
  <2>1. f \in [0..l -> V] /\ f[0] = start
    OBVIOUS
  <2>2. Solves(f, 0)
    BY <2>1
  <2> HIDE DEF Solves, f
  <2> QED BY <2>1, <2>2
<1>2. ASSUME NEW m \in 0..(l - 1), m \in S PROVE m + 1 \in S
  <2>1. PICK f \in [0..l -> V] : Solves(f, m)
    BY <1>2
  <2>2. m \in 0..l /\ m + 1 \in 1..l /\ m + 1 \in 0..l
    OBVIOUS
  <2> DEFINE v == step[<<f[m], m + 1>>]
             g == [n \in 0..l |-> IF n = m + 1 THEN v ELSE f[n]]
  <2>3. v \in V
    BY <2>2
  <2>4. g \in [0..l -> V]
    <3> HIDE DEF v
    <3> QED BY <2>3
  <2>5. g[0] = start
    <3>1. 0 \in 0..l /\ 0 # m + 1
      OBVIOUS
    <3> QED BY <3>1, <2>1
  <2>6. ASSUME NEW n \in 1..(m + 1) PROVE g[n] = step[<<g[n - 1], n>>]
    <3>1. n \in 0..l /\ n - 1 \in 0..l /\ n - 1 # m + 1
      BY <2>2
    <3>2. g[n - 1] = f[n - 1]
      BY <3>1
    <3>3. CASE n = m + 1
      BY <3>1, <3>2, <3>3, <2>2
    <3>4. CASE n # m + 1
      <4>1. n \in 1..m
        BY <3>4
      <4>2. g[n] = f[n]
        BY <3>1, <3>4
      <4> QED BY <4>1, <4>2, <3>2, <2>1
    <3> QED BY <3>3, <3>4
  <2>7. Solves(g, m + 1)
    BY <2>5, <2>6
  <2> HIDE DEF Solves, g
  <2> QED BY <2>2, <2>4, <2>7
<1>3. l \in S
  <2> HIDE DEF S
  <2>1. \A n \in 0..l : n \in S
    BY <1>1, <1>2, CountingUp
  <2> QED BY <2>1
<1> QED BY <1>3 DEF Solution

\* A nonempty set of natural numbers with an upper bound has a least element.
LEMMA LeastExists ==
  ASSUME NEW l \in Nat, NEW P \in SUBSET (0..l), P # {}
  PROVE  \E x \in P : \A y \in P : x <= y
<1> SUFFICES ASSUME \A x \in P : \E y \in P : y < x PROVE FALSE
  OBVIOUS
<1> DEFINE S == {n \in 0..l : \A m \in 0..n : m \notin P}
<1>1. 0 \in S
  OBVIOUS
<1>2. ASSUME NEW n \in 0..(l - 1), n \in S PROVE n + 1 \in S
  <2>1. \A m \in 0..(n + 1) : m \in 0..n \/ m = n + 1
    OBVIOUS
  <2>2. n + 1 \notin P
    BY <1>2
  <2> QED BY <2>1, <2>2, <1>2
<1>3. l \in S
  <2> HIDE DEF S
  <2>1. \A n \in 0..l : n \in S
    BY <1>1, <1>2, CountingUp
  <2> QED BY <2>1
<1> QED BY <1>3

-----------------------------------------------------------------------------
(* The two loops.                                                          *)

\* Appends the first n lists: output[k] is the result after k of them.
Appending(lists, output) ==
  output[0] = <<>> /\ \A n \in 1..Len(lists) : output[n] = output[n - 1] \o lists[n]

\* Concatenated is what the loop returns.
LEMMA ConcatenatedUnfolds ==
  ASSUME NEW S, NEW lists \in Seq(Seq(S))
  PROVE  \E output \in [0..Len(lists) -> Seq(S)] : Appending(lists, output) /\ Concatenated(lists) = output[Len(lists)]
<1> DEFINE l == Len(lists)
           V == Seq(S)
           step == [p \in V \X (1..l) |-> p[1] \o lists[p[2]]]
           F(a) == [n \in 0..l |-> IF n = 0 THEN <<>> ELSE a[n - 1] \o lists[n]]
           out == CHOOSE a : a = F(a)
<1>1. l \in Nat /\ \A n \in 1..l : lists[n] \in V
  OBVIOUS
<1>2. step \in [V \X (1..l) -> V]
  <2>1. ASSUME NEW p \in V \X (1..l) PROVE p[1] \o lists[p[2]] \in V
    <3>1. p[1] \in Seq(S) /\ lists[p[2]] \in Seq(S)
      BY <1>1
    <3> QED BY <3>1, ConcatProperties
  <2> QED BY <2>1
<1>3. PICK f : Solution(f, l, V, <<>>, step)
  <2>1. <<>> \in V
    OBVIOUS
  <2> HIDE DEF step, l, V
  <2> QED BY <2>1, <1>1, <1>2, RecursionExists
<1>4. f \in [0..l -> V] /\ f[0] = <<>> /\ \A n \in 1..l : f[n] = step[<<f[n - 1], n>>]
  BY <1>3 DEF Solution
<1>5. ASSUME NEW n \in 1..l PROVE f[n] = f[n - 1] \o lists[n]
  <2>1. n - 1 \in 0..l
    BY <1>1
  <2>2. <<f[n - 1], n>> \in V \X (1..l)
    <3> HIDE DEF V
    <3> QED BY <1>4, <2>1
  <2>3. step[<<f[n - 1], n>>] = f[n - 1] \o lists[n]
    <3> HIDE DEF V, l
    <3> QED BY <2>2
  <2> HIDE DEF step
  <2> QED BY <1>4, <2>3
<1>6. f = F(f)
  <2>1. ASSUME NEW n \in 0..l PROVE f[n] = IF n = 0 THEN <<>> ELSE f[n - 1] \o lists[n]
    <3>1. n = 0 \/ n \in 1..l
      BY <1>1
    <3> QED BY <3>1, <1>4, <1>5
  <2> HIDE DEF V, l
  <2> QED BY <2>1, <1>4
<1>7. out = F(out)
  <2> HIDE DEF F
  <2> QED BY <1>6
<1>8. Concatenated(lists) = out[l]
  BY DEF Concatenated
<1> HIDE DEF out
<1>9. out[0] = <<>> /\ \A n \in 1..l : out[n] = out[n - 1] \o lists[n]
  <2>1. 0 \in 0..l /\ \A n \in 1..l : n \in 0..l /\ n # 0
    BY <1>1
  <2> HIDE DEF l
  <2> QED BY <1>7, <2>1
<1> DEFINE T == {n \in 0..l : out[n] = f[n]}
<1>10. 0 \in T
  BY <1>1, <1>4, <1>9
<1>11. ASSUME NEW n \in 0..(l - 1), n \in T PROVE n + 1 \in T
  <2>1. n + 1 \in 1..l /\ n + 1 \in 0..l /\ (n + 1) - 1 = n
    BY <1>1
  <2> HIDE DEF l
  <2> QED BY <2>1, <1>5, <1>9, <1>11
<1>12. \A n \in 0..l : out[n] = f[n]
  <2>1. \A n \in 0..l : n \in T
    <3> HIDE DEF T, l
    <3> QED BY <1>1, <1>10, <1>11, CountingUp
  <2> QED BY <2>1
<1>13. out[l] = f[l] /\ Appending(lists, f)
  BY <1>1, <1>12, <1>4, <1>5 DEF Appending
<1> QED BY <1>4, <1>8, <1>13

\* Adds up the first n numbers.
Adding(numbers, sum) ==
  sum[0] = 0 /\ \A n \in 1..Len(numbers) : sum[n] = sum[n - 1] + numbers[n]

\* Total is what the loop returns.
LEMMA TotalUnfolds ==
  ASSUME NEW numbers \in Seq(Nat)
  PROVE  \E sum \in [0..Len(numbers) -> Nat] : Adding(numbers, sum) /\ Total(numbers) = sum[Len(numbers)]
<1> DEFINE l == Len(numbers)
           step == [p \in Nat \X (1..l) |-> p[1] + numbers[p[2]]]
           F(a) == [n \in 0..l |-> IF n = 0 THEN 0 ELSE a[n - 1] + numbers[n]]
           out == CHOOSE a : a = F(a)
<1>1. l \in Nat /\ \A n \in 1..l : numbers[n] \in Nat
  OBVIOUS
<1>2. step \in [Nat \X (1..l) -> Nat]
  BY <1>1
<1>3. PICK f : Solution(f, l, Nat, 0, step)
  <2>1. 0 \in Nat
    OBVIOUS
  <2> HIDE DEF step, l
  <2> QED BY <2>1, <1>1, <1>2, RecursionExists
<1>4. f \in [0..l -> Nat] /\ f[0] = 0 /\ \A n \in 1..l : f[n] = step[<<f[n - 1], n>>]
  BY <1>3 DEF Solution
<1>5. ASSUME NEW n \in 1..l PROVE f[n] = f[n - 1] + numbers[n]
  <2>1. n - 1 \in 0..l
    BY <1>1
  <2>2. <<f[n - 1], n>> \in Nat \X (1..l)
    BY <1>4, <2>1
  <2>3. step[<<f[n - 1], n>>] = f[n - 1] + numbers[n]
    <3> HIDE DEF l
    <3> QED BY <2>2
  <2> HIDE DEF step
  <2> QED BY <1>4, <2>3
<1>6. f = F(f)
  <2>1. ASSUME NEW n \in 0..l PROVE f[n] = IF n = 0 THEN 0 ELSE f[n - 1] + numbers[n]
    <3>1. n = 0 \/ n \in 1..l
      BY <1>1
    <3> QED BY <3>1, <1>4, <1>5
  <2> HIDE DEF l
  <2> QED BY <2>1, <1>4
<1>7. out = F(out)
  <2> HIDE DEF F
  <2> QED BY <1>6
<1>8. Total(numbers) = out[l]
  BY DEF Total
<1> HIDE DEF out
<1>9. out[0] = 0 /\ \A n \in 1..l : out[n] = out[n - 1] + numbers[n]
  <2>1. 0 \in 0..l /\ \A n \in 1..l : n \in 0..l /\ n # 0
    BY <1>1
  <2> HIDE DEF l
  <2> QED BY <1>7, <2>1
<1> DEFINE T == {n \in 0..l : out[n] = f[n]}
<1>10. 0 \in T
  BY <1>1, <1>4, <1>9
<1>11. ASSUME NEW n \in 0..(l - 1), n \in T PROVE n + 1 \in T
  <2>1. n + 1 \in 1..l /\ n + 1 \in 0..l /\ (n + 1) - 1 = n
    BY <1>1
  <2> HIDE DEF l
  <2> QED BY <2>1, <1>5, <1>9, <1>11
<1>12. \A n \in 0..l : out[n] = f[n]
  <2>1. \A n \in 0..l : n \in T
    <3> HIDE DEF T, l
    <3> QED BY <1>1, <1>10, <1>11, CountingUp
  <2> QED BY <2>1
<1>13. out[l] = f[l] /\ Adding(numbers, f)
  BY <1>1, <1>12, <1>4, <1>5 DEF Adding
<1> QED BY <1>4, <1>8, <1>13
\* J lists the elements of the first m lists in order: the p-th is the h[p]-th
\* of the list g[p].
Listing(m, lists, J, g, h) ==
  /\ g \in [1..Len(J) -> 1..m] /\ h \in [1..Len(J) -> Nat]
  /\ \A p \in 1..Len(J) : h[p] \in 1..Len(lists[g[p]]) /\ J[p] = lists[g[p]][h[p]]
  /\ \A p, q \in 1..Len(J) : p < q => g[p] < g[q] \/ (g[p] = g[q] /\ h[p] < h[q])
  /\ \A n \in 1..m : \A k \in 1..Len(lists[n]) : \E p \in 1..Len(J) : g[p] = n /\ h[p] = k

\* One more list.
LEMMA ListingExtends ==
  ASSUME NEW S, NEW lists \in Seq(Seq(S)), NEW m \in 0..(Len(lists) - 1), NEW J \in Seq(S),
         NEW g, NEW h, Listing(m, lists, J, g, h)
  PROVE  \E g2, h2 : Listing(m + 1, lists, J \o lists[m + 1], g2, h2)
<1> DEFINE b == lists[m + 1]
           K == J \o b
           a == Len(J)
           g2 == [p \in 1..Len(K) |-> IF p <= a THEN g[p] ELSE m + 1]
           h2 == [p \in 1..Len(K) |-> IF p <= a THEN h[p] ELSE p - a]
<1>1. m \in Nat /\ m + 1 \in 1..Len(lists) /\ a \in Nat
  OBVIOUS
<1>2. b \in Seq(S) /\ Len(b) \in Nat
  BY <1>1
<1> HIDE DEF b
<1>3. K \in Seq(S) /\ Len(K) = a + Len(b) /\ \A p \in 1..(a + Len(b)) : K[p] = IF p <= a THEN J[p] ELSE b[p - a]
  BY <1>2, ConcatProperties
<1> HIDE DEF K
<1>4. /\ g \in [1..a -> 1..m] /\ h \in [1..a -> Nat]
      /\ \A p \in 1..a : h[p] \in 1..Len(lists[g[p]]) /\ J[p] = lists[g[p]][h[p]]
      /\ \A p, q \in 1..a : p < q => g[p] < g[q] \/ (g[p] = g[q] /\ h[p] < h[q])
      /\ \A n \in 1..m : \A k \in 1..Len(lists[n]) : \E p \in 1..a : g[p] = n /\ h[p] = k
  BY DEF Listing
<1> HIDE DEF a
<1>5. ASSUME NEW p \in 1..Len(K)
      PROVE  \/ p \in 1..a /\ g2[p] = g[p] /\ h2[p] = h[p] /\ K[p] = J[p] /\ g[p] \in 1..m /\ h[p] \in Nat
             \/ p \notin 1..a /\ p > a /\ g2[p] = m + 1 /\ h2[p] = p - a /\ p - a \in 1..Len(b) /\ K[p] = b[p - a]
  <2>1. CASE p <= a
    <3>1. p \in 1..a /\ p \in 1..(a + Len(b))
      BY <2>1, <1>1, <1>2, <1>3
    <3>2. g2[p] = g[p] /\ h2[p] = h[p]
      BY <2>1
    <3>3. K[p] = J[p] /\ g[p] \in 1..m /\ h[p] \in Nat
      BY <2>1, <3>1, <1>3, <1>4
    <3> QED BY <3>1, <3>2, <3>3
  <2>2. CASE ~(p <= a)
    BY <2>2, <1>1, <1>2, <1>3
  <2> QED BY <2>1, <2>2
<1>6. g2 \in [1..Len(K) -> 1..(m + 1)] /\ h2 \in [1..Len(K) -> Nat]
  <2>1. \A p \in 1..Len(K) : g2[p] \in 1..(m + 1) /\ h2[p] \in Nat
    BY <1>5, <1>1, <1>2
  <2> QED BY <2>1
<1> HIDE DEF g2, h2
<1>7. ASSUME NEW p \in 1..Len(K) PROVE h2[p] \in 1..Len(lists[g2[p]]) /\ K[p] = lists[g2[p]][h2[p]]
  <2>1. CASE p \in 1..a
    <3>1. g2[p] = g[p] /\ h2[p] = h[p] /\ K[p] = J[p]
      BY <2>1, <1>5
    <3> QED BY <2>1, <3>1, <1>4
  <2>2. CASE p \notin 1..a
    <3>1. g2[p] = m + 1 /\ h2[p] = p - a /\ p - a \in 1..Len(b) /\ K[p] = b[p - a]
      BY <2>2, <1>5
    <3> QED BY <3>1 DEF b
  <2> QED BY <2>1, <2>2
<1>8. ASSUME NEW p \in 1..Len(K), NEW q \in 1..Len(K), p < q
      PROVE  g2[p] < g2[q] \/ (g2[p] = g2[q] /\ h2[p] < h2[q])
  <2>1. CASE q \in 1..a
    <3>1. p \in 1..a
      BY <1>8, <2>1, <1>1
    <3> QED BY <2>1, <3>1, <1>4, <1>5, <1>8
  <2>2. CASE p \in 1..a /\ q \notin 1..a
    <3>1. g2[p] \in 1..m /\ g2[q] = m + 1
      BY <2>2, <1>5
    <3> QED BY <3>1, <1>1
  <2>3. CASE p \notin 1..a /\ q \notin 1..a
    <3>1. g2[p] = m + 1 /\ g2[q] = m + 1 /\ h2[p] = p - a /\ h2[q] = q - a
      BY <2>3, <1>5
    <3> QED BY <3>1, <1>1, <1>8
  <2> QED BY <2>1, <2>2, <2>3, <1>8, <1>1
<1>9. ASSUME NEW n \in 1..(m + 1), NEW k \in 1..Len(lists[n])
      PROVE  \E p \in 1..Len(K) : g2[p] = n /\ h2[p] = k
  <2>1. CASE n \in 1..m
    <3>1. PICK p \in 1..a : g[p] = n /\ h[p] = k
      BY <2>1, <1>4
    <3>2. p \in 1..Len(K)
      BY <1>1, <1>2, <1>3
    <3> QED BY <3>1, <3>2, <1>5
  <2>2. CASE n = m + 1
    <3>1. k \in 1..Len(b)
      BY <2>2 DEF b
    <3>2. k + a \in 1..Len(K) /\ k + a \notin 1..a /\ (k + a) - a = k
      BY <3>1, <1>1, <1>2, <1>3
    <3>3. g2[k + a] = m + 1 /\ h2[k + a] = (k + a) - a
      BY <3>2, <1>5
    <3> QED BY <3>2, <3>3, <2>2
  <2>3. n \in 1..m \/ n = m + 1
    BY <1>1
  <2> QED BY <2>1, <2>2, <2>3
<1>10. Listing(m + 1, lists, K, g2, h2)
  BY <1>6, <1>7, <1>8, <1>9 DEF Listing
<1> QED BY <1>10 DEF K, b

\* Concatenated lists the elements of all lists in order.
LEMMA ConcatenatedLists ==
  ASSUME NEW S, NEW lists \in Seq(Seq(S))
  PROVE  /\ Concatenated(lists) \in Seq(S)
         /\ \E g, h : Listing(Len(lists), lists, Concatenated(lists), g, h)
<1> DEFINE l == Len(lists)
<1>1. l \in Nat
  OBVIOUS
<1>2. PICK output \in [0..l -> Seq(S)] : Appending(lists, output) /\ Concatenated(lists) = output[l]
  BY ConcatenatedUnfolds
<1>3. output[0] = <<>> /\ \A n \in 1..l : output[n] = output[n - 1] \o lists[n]
  BY <1>2 DEF Appending
<1> DEFINE T == {n \in 0..l : \E g, h : Listing(n, lists, output[n], g, h)}
<1>4. 0 \in T
  <2> DEFINE e == [p \in 1..0 |-> p]
  <2>1. Len(<<>>) = 0
    OBVIOUS
  <2>2. Listing(0, lists, <<>>, e, e)
    BY <2>1 DEF Listing
  <2> QED BY <2>2, <1>1, <1>3
<1>5. ASSUME NEW n \in 0..(l - 1), n \in T PROVE n + 1 \in T
  <2>1. n \in 0..l /\ n + 1 \in 1..l /\ (n + 1) - 1 = n /\ n + 1 \in 0..l
    BY <1>1
  <2>2. output[n] \in Seq(S) /\ output[n + 1] = output[n] \o lists[n + 1]
    <3> HIDE DEF l
    <3> QED BY <2>1, <1>2, <1>3
  <2>3. PICK g, h : Listing(n, lists, output[n], g, h)
    BY <1>5
  <2>4. \E g2, h2 : Listing(n + 1, lists, output[n] \o lists[n + 1], g2, h2)
    BY <2>2, <2>3, ListingExtends
  <2> QED BY <2>1, <2>2, <2>4
<1>6. l \in T
  <2>1. \A n \in 0..l : n \in T
    <3> HIDE DEF T, l
    <3> QED BY <1>1, <1>4, <1>5, CountingUp
  <2> HIDE DEF T
  <2> QED BY <2>1, <1>1
<1>7. Concatenated(lists) \in Seq(S)
  BY <1>1, <1>2
<1> QED BY <1>6, <1>7, <1>2

\* The sum of one number more, and without the first.
LEMMA TotalGrows ==
  ASSUME NEW s \in Seq(Nat), NEW x \in Nat
  PROVE  Total(s) \in Nat /\ Total(Append(s, x)) = Total(s) + x
<1> DEFINE t == Append(s, x)
           l == Len(s)
<1>1. l \in Nat /\ t \in Seq(Nat) /\ Len(t) = l + 1 /\ t[l + 1] = x /\ \A i \in 1..l : t[i] = s[i]
  BY AppendProperties
<1> HIDE DEF t
<1>2. PICK f \in [0..l -> Nat] : Adding(s, f) /\ Total(s) = f[l]
  BY TotalUnfolds
<1>3. PICK k \in [0..(l + 1) -> Nat] : Adding(t, k) /\ Total(t) = k[l + 1]
  BY <1>1, TotalUnfolds
<1>4. f[0] = 0 /\ \A n \in 1..l : f[n] = f[n - 1] + s[n]
  BY <1>2 DEF Adding
<1>5. k[0] = 0 /\ \A n \in 1..(l + 1) : k[n] = k[n - 1] + t[n]
  BY <1>1, <1>3 DEF Adding
<1> HIDE DEF l
<1> DEFINE T == {n \in 0..l : f[n] = k[n]}
<1>6. 0 \in T
  BY <1>1, <1>4, <1>5
<1>7. ASSUME NEW n \in 0..(l - 1), n \in T PROVE n + 1 \in T
  <2>1. n + 1 \in 1..l /\ n + 1 \in 1..(l + 1) /\ n + 1 \in 0..l /\ (n + 1) - 1 = n
    BY <1>1
  <2> QED BY <2>1, <1>1, <1>4, <1>5, <1>7
<1>8. l \in T
  <2>1. \A n \in 0..l : n \in T
    <3> HIDE DEF T
    <3> QED BY <1>1, <1>6, <1>7, CountingUp
  <2> HIDE DEF T
  <2> QED BY <2>1, <1>1
<1>9. k[l + 1] = k[l] + x
  <2>1. l + 1 \in 1..(l + 1) /\ (l + 1) - 1 = l
    BY <1>1
  <2> QED BY <2>1, <1>1, <1>5
<1>10. f[l] \in Nat
  BY <1>1, <1>2
<1> QED BY <1>2, <1>3, <1>8, <1>9, <1>10 DEF t

LEMMA TotalShrinks ==
  ASSUME NEW s \in Seq(Nat), s # <<>>
  PROVE  Total(s) = Head(s) + Total(Tail(s))
<1> DEFINE t == Tail(s)
           l == Len(t)
<1>1. l \in Nat /\ t \in Seq(Nat) /\ Len(s) = l + 1 /\ Head(s) = s[1] /\ \A i \in 1..l : t[i] = s[i + 1]
  BY HeadTailProperties
<1> HIDE DEF t
<1>2. PICK f \in [0..l -> Nat] : Adding(t, f) /\ Total(t) = f[l]
  BY <1>1, TotalUnfolds
<1>3. PICK k \in [0..(l + 1) -> Nat] : Adding(s, k) /\ Total(s) = k[l + 1]
  BY <1>1, TotalUnfolds
<1>4. f[0] = 0 /\ \A n \in 1..l : f[n] = f[n - 1] + t[n]
  BY <1>2 DEF Adding
<1>5. k[0] = 0 /\ \A n \in 1..(l + 1) : k[n] = k[n - 1] + s[n]
  BY <1>1, <1>3 DEF Adding
<1>6. s[1] \in Nat
  BY <1>1
<1> HIDE DEF l
<1> DEFINE T == {n \in 0..l : k[n + 1] = s[1] + f[n]}
<1>7. 0 \in T
  <2>1. 1 \in 1..(l + 1) /\ 1 - 1 = 0
    BY <1>1
  <2>2. k[1] = k[0] + s[1]
    BY <2>1, <1>5
  <2> QED BY <2>2, <1>1, <1>4, <1>5, <1>6
<1>8. ASSUME NEW n \in 0..(l - 1), n \in T PROVE n + 1 \in T
  <2>1. n + 1 \in 1..l /\ (n + 1) + 1 \in 1..(l + 1) /\ n + 1 \in 0..l /\ (n + 1) - 1 = n /\ ((n + 1) + 1) - 1 = n + 1
        /\ n \in 0..l
    BY <1>1
  <2>2. f[n + 1] = f[n] + t[n + 1] /\ k[(n + 1) + 1] = k[n + 1] + s[(n + 1) + 1] /\ t[n + 1] = s[(n + 1) + 1]
    BY <2>1, <1>1, <1>4, <1>5
  <2>3. k[n + 1] = s[1] + f[n]
    BY <1>8
  <2>4. f[n] \in Nat /\ t[n + 1] \in Nat
    <3>1. f[n] \in Nat
      BY <2>1, <1>2
    <3>2. t[n + 1] \in Nat
      BY <2>1, <1>1 DEF l
    <3> QED BY <3>1, <3>2
  <2>5. k[(n + 1) + 1] = s[1] + f[n + 1]
    BY <2>2, <2>3, <2>4, <1>6
  <2> QED BY <2>1, <2>5
<1>9. l \in T
  <2>1. \A n \in 0..l : n \in T
    <3> HIDE DEF T
    <3> QED BY <1>1, <1>7, <1>8, CountingUp
  <2> HIDE DEF T
  <2> QED BY <2>1, <1>1
<1> QED BY <1>1, <1>2, <1>3, <1>9 DEF t

LEMMA TotalOfNone == Total(<<>>) = 0
<1>1. <<>> \in Seq(Nat) /\ Len(<<>>) = 0
  OBVIOUS
<1>2. PICK sum \in [0..0 -> Nat] : Adding(<<>>, sum) /\ Total(<<>>) = sum[0]
  BY <1>1, TotalUnfolds
<1> QED BY <1>2 DEF Adding
\* J is made of the lists that are not empty, each of which holds one element.
Singles(lists, J, g) ==
  /\ g \in [1..Len(J) -> 1..Len(lists)]
  /\ \A p \in 1..Len(J) : Len(lists[g[p]]) = 1 /\ J[p] = lists[g[p]][1]
  /\ \A p, q \in 1..Len(J) : p < q => g[p] < g[q]
  /\ \A n \in 1..Len(lists) : Len(lists[n]) = 1 => \E p \in 1..Len(J) : g[p] = n
  /\ Len(J) <= Len(lists)

LEMMA SinglesListed ==
  ASSUME NEW S, NEW lists \in Seq(Seq(S)), \A n \in 1..Len(lists) : Len(lists[n]) <= 1
  PROVE  Concatenated(lists) \in Seq(S) /\ \E g : Singles(lists, Concatenated(lists), g)
<1> DEFINE J == Concatenated(lists)
           l == Len(lists)
           a == Len(J)
<1>1. J \in Seq(S) /\ \E g, h : Listing(l, lists, J, g, h)
  BY ConcatenatedLists
<1>2. PICK g, h : Listing(l, lists, J, g, h)
  BY <1>1
<1> HIDE DEF J
<1>3. l \in Nat /\ a \in Nat
  BY <1>1
<1>4. /\ g \in [1..a -> 1..l]
      /\ \A p \in 1..a : h[p] \in 1..Len(lists[g[p]]) /\ J[p] = lists[g[p]][h[p]]
      /\ \A p, q \in 1..a : p < q => g[p] < g[q] \/ (g[p] = g[q] /\ h[p] < h[q])
      /\ \A n \in 1..l : \A k \in 1..Len(lists[n]) : \E p \in 1..a : g[p] = n /\ h[p] = k
  BY <1>2 DEF Listing
<1>5. ASSUME NEW n \in 1..l PROVE Len(lists[n]) \in Nat /\ Len(lists[n]) <= 1
  OBVIOUS
<1> HIDE DEF l, a
<1>6. ASSUME NEW p \in 1..a PROVE Len(lists[g[p]]) = 1 /\ h[p] = 1 /\ J[p] = lists[g[p]][1] /\ g[p] \in 1..l
  <2>1. g[p] \in 1..l /\ h[p] \in 1..Len(lists[g[p]]) /\ J[p] = lists[g[p]][h[p]]
    BY <1>4
  <2>2. Len(lists[g[p]]) \in Nat /\ Len(lists[g[p]]) <= 1
    BY <2>1, <1>5
  <2>3. Len(lists[g[p]]) = 1 /\ h[p] = 1
    <3>1. \A x \in Nat : \A y \in 1..x : x <= 1 => x = 1 /\ y = 1
      OBVIOUS
    <3> QED BY <2>1, <2>2, <3>1, Zenon
  <2>4. J[p] = lists[g[p]][1]
    BY <2>1, <2>3, Zenon
  <2> QED BY <2>1, <2>3, <2>4
<1>7. ASSUME NEW p \in 1..a, NEW q \in 1..a, p < q PROVE g[p] < g[q]
  <2>1. h[p] = 1 /\ h[q] = 1
    BY <1>6
  <2>2. g[p] < g[q] \/ (g[p] = g[q] /\ h[p] < h[q])
    BY <1>4, <1>7
  <2> QED BY <2>1, <2>2
<1>8. ASSUME NEW n \in 1..l, Len(lists[n]) = 1 PROVE \E p \in 1..a : g[p] = n
  <2>1. 1 \in 1..Len(lists[n])
    BY <1>8
  <2> QED BY <2>1, <1>4
<1>9. a <= l
  <2>1. IsFiniteSet(1..l) /\ Cardinality(1..l) = l /\ Cardinality(1..a) = a
    BY <1>3, FS_Interval
  <2>2. \A p, q \in 1..a : g[p] = g[q] => p = q
    <3>1. \A p, q \in 1..a : p < q \/ q < p \/ p = q
      BY <1>3
    <3>2. \A p \in 1..a : g[p] \in Int
      BY <1>6, <1>3
    <3> QED BY <3>1, <3>2, <1>7
  <2>3. g \in Injection(1..a, 1..l)
    BY <2>2, <1>4 DEF Injection, IsInjective
  <2> QED BY <2>1, <2>3, FS_Injection
<1>10. Singles(lists, J, g)
  BY <1>4, <1>6, <1>7, <1>8, <1>9 DEF Singles, l, a
<1> QED BY <1>1, <1>10 DEF J

-----------------------------------------------------------------------------
(* Projections.                                                            *)

\* As much of a result as the projections rely on.
IsResult(r) == DOMAIN r.events = 1..Len(r.events) /\ Len(r.events) \in 1..MaxEventsPerCommand

\* What a public batch says of its result.
PublicTold(batch, r) ==
  /\ {batch[i].index : i \in DOMAIN batch} = PublicKnowledge(r)
  /\ \A i \in DOMAIN batch :
       /\ batch[i].run = r.run /\ batch[i].sequence = r.sequence
       /\ i > 1 => batch[i - 1].index < batch[i].index

LEMMA PublicProjection ==
  ASSUME NEW r, IsResult(r)
  PROVE  LET batch == projectPublicTrades(r)
         IN  /\ PublicTold(batch, r)
             /\ DOMAIN batch = 1..Len(batch) /\ Len(batch) \in Nat /\ Len(batch) <= MaxEventsPerCommand
             /\ batch # <<>> => Len(batch) >= 1
<1> DEFINE l == Len(r.events)
           S == {EventId(r, i) : i \in 1..l}
           lists == [i \in 1..l |-> IF IsTrade(r.events[i]) THEN <<EventId(r, i)>> ELSE <<>>]
           J == Concatenated(lists)
<1>1. l \in Nat /\ DOMAIN r.events = 1..l /\ l <= MaxEventsPerCommand /\ MaxEventsPerCommand \in Nat
  BY GatewayAssumption DEF IsResult
<1>2. projectPublicTrades(r) = J
  BY <1>1 DEF projectPublicTrades
<1> HIDE DEF l
<1>3. ASSUME NEW i \in 1..l
      PROVE  /\ lists[i] \in Seq(S) /\ Len(lists[i]) <= 1 /\ (Len(lists[i]) = 1 <=> IsTrade(r.events[i]))
             /\ IsTrade(r.events[i]) => lists[i][1] = EventId(r, i)
  <2>1. EventId(r, i) \in S
    OBVIOUS
  <2> HIDE DEF S
  <2>2. CASE IsTrade(r.events[i])
    BY <2>1, <2>2
  <2>3. CASE ~IsTrade(r.events[i])
    BY <2>3
  <2> QED BY <2>2, <2>3
<1>4. lists \in Seq(Seq(S)) /\ Len(lists) = l
  <2>1. \A i \in 1..l : lists[i] \in Seq(S)
    BY <1>3
  <2>2. lists = [i \in 1..l |-> lists[i]]
    OBVIOUS
  <2> HIDE DEF lists, S
  <2> QED BY <1>1, <2>1, <2>2
<1> HIDE DEF lists, S
<1>5. J \in Seq(S) /\ \E g : Singles(lists, J, g)
  BY <1>3, <1>4, SinglesListed
<1>6. PICK g : Singles(lists, J, g)
  BY <1>5
<1> HIDE DEF J
<1>7. Len(J) \in Nat /\ DOMAIN J = 1..Len(J)
  BY <1>5
<1>8. /\ g \in [1..Len(J) -> 1..l] /\ Len(J) <= l
      /\ \A p \in 1..Len(J) : Len(lists[g[p]]) = 1 /\ J[p] = lists[g[p]][1]
      /\ \A p, q \in 1..Len(J) : p < q => g[p] < g[q]
      /\ \A n \in 1..l : Len(lists[n]) = 1 => \E p \in 1..Len(J) : g[p] = n
  BY <1>4, <1>6 DEF Singles
<1>9. ASSUME NEW p \in 1..Len(J)
      PROVE  /\ g[p] \in 1..l /\ IsTrade(r.events[g[p]])
             /\ J[p].index = g[p] /\ J[p].run = r.run /\ J[p].sequence = r.sequence
  <2>1. g[p] \in 1..l /\ IsTrade(r.events[g[p]]) /\ J[p] = EventId(r, g[p])
    BY <1>3, <1>8
  <2> QED BY <2>1 DEF EventId
<1>10. {J[i].index : i \in DOMAIN J} = PublicKnowledge(r)
  <2>1. ASSUME NEW i \in DOMAIN J PROVE J[i].index \in PublicKnowledge(r)
    BY <1>1, <1>7, <1>9 DEF PublicKnowledge
  <2>2. ASSUME NEW n \in PublicKnowledge(r) PROVE \E i \in DOMAIN J : J[i].index = n
    <3>1. n \in 1..l /\ IsTrade(r.events[n])
      BY <1>1 DEF PublicKnowledge
    <3>2. PICK p \in 1..Len(J) : g[p] = n
      BY <3>1, <1>3, <1>8
    <3> QED BY <3>2, <1>7, <1>9
  <2> QED BY <2>1, <2>2
<1>11. ASSUME NEW i \in DOMAIN J
       PROVE  J[i].run = r.run /\ J[i].sequence = r.sequence /\ (i > 1 => J[i - 1].index < J[i].index)
  <2>1. i \in 1..Len(J)
    BY <1>7
  <2>2. i > 1 => i - 1 \in 1..Len(J) /\ i - 1 < i
    BY <2>1, <1>7
  <2> QED BY <2>1, <2>2, <1>8, <1>9
<1>12. Len(J) <= MaxEventsPerCommand
  BY <1>1, <1>7, <1>8
<1>13. J # <<>> => Len(J) >= 1
  BY <1>5, <1>7
<1> QED BY <1>2, <1>7, <1>10, <1>11, <1>12, <1>13 DEF PublicTold
\* Products grow with their factors.
LEMMA Products ==
  ASSUME NEW u \in Nat, NEW a \in Nat, NEW b \in Nat
  PROVE  /\ u * a \in Nat /\ u * 0 = 0 /\ u * 1 = u /\ u * (a + 1) = u * a + u
         /\ a <= b => u * a <= u * b
<1>1. u * a \in Nat /\ u * 0 = 0 /\ u * 1 = u /\ u * (a + 1) = u * a + u
  OBVIOUS
<1>2. ASSUME a <= b PROVE u * a <= u * b
  <2>1. PICK d \in Nat : b = a + d
    <3>1. b - a \in Nat /\ b = a + (b - a)
      BY <1>2
    <3> QED BY <3>1
  <2>2. u * b = u * a + u * d /\ u * d \in Nat /\ u * a \in Nat
    BY <2>1
  <2> QED BY <2>2
<1> QED BY <1>1, <1>2

LEMMA Sizes ==
  /\ MaxEventsPerCommand \in Nat /\ MaxEventsPerCommand >= 1
  /\ EnvelopeBytes \in Nat /\ CorrelationBytes \in Nat /\ PrivateTradeBytes \in Nat
  /\ OwnedEventBytes \in Nat /\ PublicTradeBytes \in Nat /\ SpareBytes \in Nat
  /\ OwnedEventBytes <= 2 * PrivateTradeBytes + 1
  /\ MaximumConnections \in Nat
BY GatewayAssumption

LEMMA Capacities ==
  /\ MaxPrivateMessageBytes \in Nat /\ MaxPublicMessageBytes \in Nat
  /\ MinOutboundCapacity \in Nat /\ OutboundCapacity \in Nat /\ MinOutboundCapacity <= OutboundCapacity
  /\ MaxPrivateMessageBytes <= MinOutboundCapacity /\ MaxPublicMessageBytes <= MinOutboundCapacity
<1>1. MaxPublicMessageBytes \in Nat
  <2>1. MaxEventsPerCommand * PublicTradeBytes \in Nat
    BY Sizes
  <2> QED BY <2>1, Sizes DEF MaxPublicMessageBytes
<1>2. MaxPrivateMessageBytes \in Nat
  <2>1. MaxPrivateEvents \in Nat /\ MaxPrivateEvents >= 1
    BY Sizes DEF MaxPrivateEvents
  <2>2. MaxPrivateEvents * PrivateTradeBytes \in Nat
    BY <2>1, Sizes
  <2> QED BY <2>1, <2>2, Sizes DEF MaxPrivateMessageBytes
<1>3. /\ MinOutboundCapacity \in Nat
      /\ MaxPrivateMessageBytes <= MinOutboundCapacity /\ MaxPublicMessageBytes <= MinOutboundCapacity
  BY <1>1, <1>2 DEF MinOutboundCapacity
<1> QED BY <1>1, <1>2, <1>3, Sizes DEF OutboundCapacity

\* A message that a connection without a backlog has room for.
Sendable(m) == MessageBytes(m) \in Nat /\ MessageBytes(m) <= MinOutboundCapacity

LEMMA PublicMessageTells ==
  ASSUME NEW r, IsResult(r), projectPublicTrades(r) # <<>>
  PROVE  LET m == PublicMessage(projectPublicTrades(r))
         IN  TellsPublic(m, r) /\ Sendable(m) /\ m.run = r.run
<1> DEFINE batch == projectPublicTrades(r)
           n == Len(batch)
           m == PublicMessage(batch)
<1>1. /\ PublicTold(batch, r)
      /\ DOMAIN batch = 1..n /\ n \in Nat /\ n <= MaxEventsPerCommand /\ n >= 1
  BY PublicProjection
<1> HIDE DEF batch
<1>2. m.type = "publicTrades" /\ m.run = batch[1].run /\ m.trades = batch
  BY DEF PublicMessage
<1>3. batch[1].run = r.run
  BY <1>1 DEF PublicTold
<1> HIDE DEF m
<1>4. TellsPublic(m, r)
  BY <1>1, <1>2, <1>3 DEF PublicTold, TellsPublic
<1>5. MessageBytes(m) = EnvelopeBytes + PublicTradeBytes * n + (n - 1)
  BY <1>2 DEF MessageBytes
<1> HIDE DEF n
<1>6. PublicTradeBytes * n \in Nat /\ PublicTradeBytes * n <= PublicTradeBytes * MaxEventsPerCommand
  BY <1>1, Sizes, Products
<1>7. PublicTradeBytes * MaxEventsPerCommand = MaxEventsPerCommand * PublicTradeBytes
  BY Sizes
<1>8. MessageBytes(m) \in Nat /\ MessageBytes(m) <= MaxPublicMessageBytes
  <2>1. MaxEventsPerCommand * PublicTradeBytes \in Nat
    BY Sizes
  <2> QED BY <1>1, <1>5, <1>6, <1>7, <2>1, Sizes DEF MaxPublicMessageBytes
<1>9. Sendable(m)
  BY <1>8, Capacities DEF Sendable
<1> QED BY <1>2, <1>3, <1>4, <1>9 DEF m, batch

\* The recipients of an event are the clients that it concerns.
LEMMA AffectedAreConcerned ==
  ASSUME NEW e, NEW S, e.maker \in S, e.taker \in S, e.owner \in S
  PROVE  LET A == AffectedRecipients(e)
         IN  /\ A \in Seq(S) /\ Len(A) >= 1
             /\ \A c : Concerns(e, c) <=> \E k \in 1..Len(A) : A[k] = c
<1> DEFINE A == AffectedRecipients(e)
<1>1. CASE ~IsTrade(e)
  <2>1. A = <<e.owner>>
    BY <1>1 DEF AffectedRecipients
  <2>2. A \in Seq(S) /\ Len(A) = 1 /\ A[1] = e.owner
    BY <2>1
  <2>3. \A c : Concerns(e, c) <=> c = e.owner
    BY <1>1 DEF Concerns
  <2> HIDE DEF A
  <2>4. \A c : (c = e.owner) <=> \E k \in 1..Len(A) : A[k] = c
    BY <2>2
  <2> QED BY <2>2, <2>3, <2>4 DEF A
<1>2. CASE IsTrade(e) /\ e.maker = e.taker
  <2>1. A = <<e.maker>>
    BY <1>2 DEF AffectedRecipients
  <2>2. A \in Seq(S) /\ Len(A) = 1 /\ A[1] = e.maker
    BY <2>1
  <2>3. \A c : Concerns(e, c) <=> c = e.maker
    BY <1>2 DEF Concerns
  <2> HIDE DEF A
  <2>4. \A c : (c = e.maker) <=> \E k \in 1..Len(A) : A[k] = c
    BY <2>2
  <2> QED BY <2>2, <2>3, <2>4 DEF A
<1>3. CASE IsTrade(e) /\ e.maker # e.taker
  <2>1. A = <<e.maker, e.taker>>
    BY <1>3 DEF AffectedRecipients
  <2>2. A \in Seq(S) /\ Len(A) = 2 /\ A[1] = e.maker /\ A[2] = e.taker
    BY <2>1
  <2>3. \A c : Concerns(e, c) <=> c = e.maker \/ c = e.taker
    BY <1>3 DEF Concerns
  <2> HIDE DEF A
  <2>4. \A c : (c = e.maker \/ c = e.taker) <=> \E k \in 1..Len(A) : A[k] = c
    BY <2>2
  <2> QED BY <2>2, <2>3, <2>4 DEF A
<1> QED BY <1>1, <1>2, <1>3

\* Every client that an event concerns is planned, and each only once.
LEMMA PlansAreRecipients ==
  ASSUME NEW r, IsResult(r)
  PROVE  LET plans == RecipientPlans(r)
         IN  /\ DOMAIN plans = 1..Len(plans) /\ Len(plans) \in Nat
             /\ \A p, q \in DOMAIN plans : plans[p] = plans[q] => p = q
             /\ \A c : (\E p \in DOMAIN plans : plans[p] = c) <=> \E i \in DOMAIN r.events : Concerns(r.events[i], c)
             /\ Len(plans) >= 1
<1> DEFINE l == Len(r.events)
           S == UNION {{r.events[i].maker, r.events[i].taker, r.events[i].owner} : i \in 1..l}
           naming == [i \in 1..l |-> AffectedRecipients(r.events[i])]
           named == Concatenated(naming)
           a == Len(named)
           lists == [k \in 1..a |-> IF \E j \in 1..(k - 1) : named[j] = named[k] THEN <<>> ELSE <<named[k]>>]
           plans == Concatenated(lists)
<1>1. l \in Nat /\ l >= 1 /\ DOMAIN r.events = 1..l
  BY Sizes DEF IsResult
<1> HIDE DEF l
<1>2. ASSUME NEW i \in 1..l
      PROVE  /\ naming[i] \in Seq(S) /\ Len(naming[i]) >= 1
             /\ \A c : Concerns(r.events[i], c) <=> \E k \in 1..Len(naming[i]) : naming[i][k] = c
  <2>1. r.events[i].maker \in S /\ r.events[i].taker \in S /\ r.events[i].owner \in S
    OBVIOUS
  <2>2. naming[i] = AffectedRecipients(r.events[i])
    OBVIOUS
  <2> HIDE DEF S, naming
  <2> QED BY <2>1, <2>2, AffectedAreConcerned
<1>3. naming \in Seq(Seq(S)) /\ Len(naming) = l
  <2>1. \A i \in 1..l : naming[i] \in Seq(S)
    BY <1>2
  <2>2. naming = [i \in 1..l |-> naming[i]]
    OBVIOUS
  <2> HIDE DEF naming, S
  <2> QED BY <1>1, <2>1, <2>2
<1>4. naming = [i \in DOMAIN r.events |-> AffectedRecipients(r.events[i])]
  BY <1>1
<1> HIDE DEF naming, S
<1>5. named \in Seq(S) /\ \E g, h : Listing(l, naming, named, g, h)
  BY <1>3, ConcatenatedLists
<1>6. PICK g, h : Listing(l, naming, named, g, h)
  BY <1>5
<1>7. RecipientPlans(r) = Concatenated([k \in DOMAIN named |->
                      IF \E j \in 1..(k - 1) : named[j] = named[k] THEN <<>> ELSE <<named[k]>>])
  BY <1>4 DEF RecipientPlans
<1> HIDE DEF named
<1>8. a \in Nat /\ DOMAIN named = 1..a /\ \A k \in 1..a : named[k] \in S
  BY <1>5
<1>9. RecipientPlans(r) = plans
  BY <1>7, <1>8
<1>10. ASSUME NEW c PROVE (\E p \in 1..a : named[p] = c) <=> \E i \in 1..l : Concerns(r.events[i], c)
  <2>1. /\ g \in [1..a -> 1..l]
        /\ \A p \in 1..a : h[p] \in 1..Len(naming[g[p]]) /\ named[p] = naming[g[p]][h[p]]
        /\ \A n \in 1..l : \A k \in 1..Len(naming[n]) : \E p \in 1..a : g[p] = n /\ h[p] = k
    BY <1>6 DEF Listing
  <2>2. ASSUME NEW p \in 1..a, named[p] = c PROVE \E i \in 1..l : Concerns(r.events[i], c)
    <3>1. g[p] \in 1..l /\ h[p] \in 1..Len(naming[g[p]]) /\ naming[g[p]][h[p]] = c
      BY <2>1, <2>2
    <3> QED BY <3>1, <1>2
  <2>3. ASSUME NEW i \in 1..l, Concerns(r.events[i], c) PROVE \E p \in 1..a : named[p] = c
    <3>1. PICK k \in 1..Len(naming[i]) : naming[i][k] = c
      BY <2>3, <1>2
    <3>2. PICK p \in 1..a : g[p] = i /\ h[p] = k
      BY <2>1
    <3>3. named[p] = naming[g[p]][h[p]]
      BY <2>1
    <3> QED BY <3>1, <3>2, <3>3
  <2> QED BY <2>2, <2>3
<1> DEFINE Before(k) == \E j \in 1..(k - 1) : named[j] = named[k]
<1>11. ASSUME NEW k \in 1..a
       PROVE  /\ lists[k] \in Seq(S) /\ Len(lists[k]) <= 1
              /\ Len(lists[k]) = 1 <=> ~Before(k)
              /\ ~Before(k) => lists[k][1] = named[k]
  <2>1. lists[k] = IF Before(k) THEN <<>> ELSE <<named[k]>>
    OBVIOUS
  <2>2. named[k] \in S
    BY <1>8
  <2> HIDE DEF lists, Before, a
  <2>3. CASE Before(k)
    BY <2>1, <2>3
  <2>4. CASE ~Before(k)
    BY <2>1, <2>2, <2>4
  <2> QED BY <2>3, <2>4
<1>12. lists \in Seq(Seq(S)) /\ Len(lists) = a
  <2>1. \A i \in 1..a : lists[i] \in Seq(S)
    BY <1>11
  <2>2. lists = [i \in 1..a |-> lists[i]]
    OBVIOUS
  <2> HIDE DEF lists, a
  <2> QED BY <1>8, <2>1, <2>2
<1> HIDE DEF lists
<1>13. plans \in Seq(S) /\ \E f : Singles(lists, plans, f)
  BY <1>11, <1>12, SinglesListed
<1>14. PICK f : Singles(lists, plans, f)
  BY <1>13
<1> HIDE DEF plans, a
<1>15. Len(plans) \in Nat /\ DOMAIN plans = 1..Len(plans)
  BY <1>13
<1>16. /\ f \in [1..Len(plans) -> 1..a]
       /\ \A p \in 1..Len(plans) : Len(lists[f[p]]) = 1 /\ plans[p] = lists[f[p]][1]
       /\ \A p, q \in 1..Len(plans) : p < q => f[p] < f[q]
       /\ \A n \in 1..a : Len(lists[n]) = 1 => \E p \in 1..Len(plans) : f[p] = n
  BY <1>12, <1>14 DEF Singles
<1>17. ASSUME NEW p \in 1..Len(plans) PROVE f[p] \in 1..a /\ ~Before(f[p]) /\ plans[p] = named[f[p]]
  <2> HIDE DEF Before
  <2> QED BY <1>11, <1>16
<1>18. ASSUME NEW p \in 1..Len(plans), NEW q \in 1..Len(plans), p < q PROVE plans[p] # plans[q]
  <2>1. f[p] \in 1..a /\ f[q] \in 1..a /\ f[p] < f[q]
    BY <1>16, <1>18
  <2>2. f[p] \in 1..(f[q] - 1)
    BY <2>1, <1>8
  <2> QED BY <2>2, <1>17
<1>19. ASSUME NEW p \in 1..Len(plans), NEW q \in 1..Len(plans), plans[p] = plans[q] PROVE p = q
  <2>1. p < q \/ q < p \/ p = q
    BY <1>15
  <2> QED BY <2>1, <1>18, <1>19
<1>20. ASSUME NEW c PROVE (\E p \in 1..Len(plans) : plans[p] = c) <=> \E k \in 1..a : named[k] = c
  <2>1. ASSUME NEW k \in 1..a, named[k] = c PROVE \E p \in 1..Len(plans) : plans[p] = c
    <3> DEFINE Q == {j \in 0..a : j \in 1..a /\ named[j] = c}
    <3>1. Q \in SUBSET (0..a) /\ k \in Q
      BY <2>1, <1>8
    <3>2. PICK x \in Q : \A y \in Q : x <= y
      <4> HIDE DEF Q
      <4> QED BY <3>1, <1>8, LeastExists
    <3>3. x \in 1..a /\ named[x] = c
      OBVIOUS
    <3>4. ~Before(x)
      <4> SUFFICES ASSUME NEW j \in 1..(x - 1), named[j] = named[x] PROVE FALSE
        OBVIOUS
      <4>1. j \in Q /\ j < x
        BY <3>3, <1>8
      <4> HIDE DEF Q
      <4> QED BY <4>1, <3>2, <3>3, <1>8
    <3>5. Len(lists[x]) = 1
      <4> HIDE DEF Before
      <4> QED BY <3>3, <3>4, <1>11
    <3>6. PICK p \in 1..Len(plans) : f[p] = x
      BY <3>3, <3>5, <1>16
    <3> QED BY <3>3, <3>6, <1>17
  <2>2. ASSUME NEW p \in 1..Len(plans), plans[p] = c PROVE \E k \in 1..a : named[k] = c
    BY <2>2, <1>17
  <2> QED BY <2>1, <2>2
<1>21. Len(plans) >= 1
  <2>1. 1 \in 1..l
    BY <1>1
  <2>2. 1 \in 1..Len(naming[1])
    <3>1. Len(naming[1]) \in Nat /\ Len(naming[1]) >= 1
      BY <2>1, <1>2
    <3> QED BY <3>1
  <2>3. Concerns(r.events[1], naming[1][1])
    BY <2>1, <2>2, <1>2
  <2>4. \E p \in 1..Len(plans) : plans[p] = naming[1][1]
    BY <2>1, <2>3, <1>10, <1>20
  <2> QED BY <2>4, <1>15
<1>22. \A c : (\E p \in 1..Len(plans) : plans[p] = c) <=> \E i \in 1..l : Concerns(r.events[i], c)
  BY <1>10, <1>20
<1> QED BY <1>1, <1>9, <1>15, <1>19, <1>21, <1>22
\* The pairs that make up what a client may know.
LEMMA KnowledgeOf ==
  ASSUME NEW r, NEW client
  PROVE  /\ \A i, role : <<i, role>> \in PrivateKnowledge(r, client) <=>
              /\ i \in DOMAIN r.events
              /\ \/ role = "MAKER" /\ IsTrade(r.events[i]) /\ r.events[i].maker = client
                 \/ role = "TAKER" /\ IsTrade(r.events[i]) /\ r.events[i].taker = client
                 \/ role = "OWNER" /\ ~IsTrade(r.events[i]) /\ r.events[i].owner = client
         /\ \A x \in PrivateKnowledge(r, client) : \E i, role : x = <<i, role>>
BY Zenon DEF PrivateKnowledge

\* What the projection tells a client of one event.
View(list, r, i, client) ==
  /\ Len(list) \in 0..2
  /\ \A k \in 1..Len(list) : list[k].id = EventId(r, i) /\ <<i, list[k].role>> \in PrivateKnowledge(r, client)
  /\ \A role : <<i, role>> \in PrivateKnowledge(r, client) => \E k \in 1..Len(list) : list[k].role = role
  /\ Len(list) = 2 => list[1].role # list[2].role /\ list[1].role # "OWNER" /\ list[2].role # "OWNER"

LEMMA EventIsViewed ==
  ASSUME NEW r, NEW i \in DOMAIN r.events, NEW client, NEW S,
         \A role \in {"MAKER", "TAKER"} : [id |-> EventId(r, i), role |-> role] \in S,
         [id |-> EventId(r, i), role |-> "OWNER", owner |-> client] \in S
  PROVE  ProjectedEvents(r, i, client) \in Seq(S) /\ View(ProjectedEvents(r, i, client), r, i, client)
<1> DEFINE e == r.events[i]
           list == ProjectedEvents(r, i, client)
           id == EventId(r, i)
           M == [id |-> id, role |-> "MAKER"]
           T == [id |-> id, role |-> "TAKER"]
           O == [id |-> id, role |-> "OWNER", owner |-> client]
           K == PrivateKnowledge(r, client)
<1>1. /\ M \in S /\ T \in S /\ O \in S
      /\ M.id = id /\ T.id = id /\ O.id = id
      /\ M.role = "MAKER" /\ T.role = "TAKER" /\ O.role = "OWNER"
  OBVIOUS
<1>2. \A role : <<i, role>> \in K <=>
              \/ role = "MAKER" /\ IsTrade(e) /\ e.maker = client
              \/ role = "TAKER" /\ IsTrade(e) /\ e.taker = client
              \/ role = "OWNER" /\ ~IsTrade(e) /\ e.owner = client
  BY KnowledgeOf
<1>3. list = IF IsTrade(e)
             THEN (IF e.maker = client THEN <<M>> ELSE <<>>) \o (IF e.taker = client THEN <<T>> ELSE <<>>)
             ELSE IF e.owner = client THEN <<O>> ELSE <<>>
  BY DEF ProjectedEvents
<1> HIDE DEF list, K, M, T, O, e, id
<1>4. CASE IsTrade(e) /\ e.maker = client /\ e.taker = client
  <2>1. list = <<M>> \o <<T>>
    BY <1>3, <1>4
  <2>2. list \in Seq(S) /\ Len(list) = 2 /\ list[1] = M /\ list[2] = T
    <3>1. <<M>> \in Seq(S) /\ <<T>> \in Seq(S) /\ Len(<<M>>) = 1 /\ Len(<<T>>) = 1 /\ <<M>>[1] = M /\ <<T>>[1] = T
      BY <1>1
    <3> QED BY <2>1, <3>1, ConcatProperties
  <2>3. \A role : <<i, role>> \in K <=> role = "MAKER" \/ role = "TAKER"
    BY <1>2, <1>4
  <2> QED BY <2>2, <2>3, <1>1 DEF View, K, id, list
<1>5. CASE IsTrade(e) /\ e.maker = client /\ e.taker # client
  <2>1. list = <<M>>
    <3>1. list = <<M>> \o <<>>
      BY <1>3, <1>5
    <3> QED BY <3>1
  <2>2. list \in Seq(S) /\ Len(list) = 1 /\ list[1] = M
    BY <2>1, <1>1
  <2>3. \A role : <<i, role>> \in K <=> role = "MAKER"
    BY <1>2, <1>5
  <2> QED BY <2>2, <2>3, <1>1 DEF View, K, id, list
<1>6. CASE IsTrade(e) /\ e.maker # client /\ e.taker = client
  <2>1. list = <<T>>
    <3>1. list = <<>> \o <<T>>
      BY <1>3, <1>6
    <3> QED BY <3>1
  <2>2. list \in Seq(S) /\ Len(list) = 1 /\ list[1] = T
    BY <2>1, <1>1
  <2>3. \A role : <<i, role>> \in K <=> role = "TAKER"
    BY <1>2, <1>6
  <2> QED BY <2>2, <2>3, <1>1 DEF View, K, id, list
<1>7. CASE IsTrade(e) /\ e.maker # client /\ e.taker # client
  <2>1. list = <<>>
    <3>1. list = <<>> \o <<>>
      BY <1>3, <1>7
    <3> QED BY <3>1
  <2>2. list \in Seq(S) /\ Len(list) = 0
    BY <2>1
  <2>3. \A role : <<i, role>> \notin K
    BY <1>2, <1>7
  <2> QED BY <2>2, <2>3, <1>1 DEF View, K, id, list
<1>8. CASE ~IsTrade(e) /\ e.owner = client
  <2>1. list = <<O>>
    BY <1>3, <1>8
  <2>2. list \in Seq(S) /\ Len(list) = 1 /\ list[1] = O
    BY <2>1, <1>1
  <2>3. \A role : <<i, role>> \in K <=> role = "OWNER"
    BY <1>2, <1>8
  <2> QED BY <2>2, <2>3, <1>1 DEF View, K, id, list
<1>9. CASE ~IsTrade(e) /\ e.owner # client
  <2>1. list = <<>>
    BY <1>3, <1>9
  <2>2. list \in Seq(S) /\ Len(list) = 0
    BY <2>1
  <2>3. \A role : <<i, role>> \notin K
    BY <1>2, <1>9
  <2> QED BY <2>2, <2>3, <1>1 DEF View, K, id, list
<1> QED BY <1>4, <1>5, <1>6, <1>7, <1>8, <1>9

\* The list of all views of a result: the p-th element is the h[p]-th view of event g[p].
Views(J, r, client, g, h) ==
  LET l == Len(r.events)
  IN  /\ DOMAIN J = 1..Len(J) /\ Len(J) \in Nat
      /\ g \in [1..Len(J) -> 1..l]
      /\ \A p \in 1..Len(J) :
           /\ h[p] \in 1..2 /\ J[p].id = EventId(r, g[p]) /\ <<g[p], J[p].role>> \in PrivateKnowledge(r, client)
           /\ h[p] = 2 => J[p].role # "OWNER"
      /\ \A p, q \in 1..Len(J) :
           p < q => \/ g[p] < g[q]
                    \/ g[p] = g[q] /\ h[p] = 1 /\ h[q] = 2 /\ J[p].role # J[q].role /\ J[p].role # "OWNER"
      /\ \A n, role : <<n, role>> \in PrivateKnowledge(r, client) =>
                        \E p \in 1..Len(J) : g[p] = n /\ J[p].role = role

LEMMA ResultIsViewed ==
  ASSUME NEW r, IsResult(r), NEW client
  PROVE  \E g, h : Views(RecipientResult(r, client).privateResult, r, client, g, h)
<1> DEFINE l == Len(r.events)
           S == {[id |-> EventId(r, i), role |-> role] : i \in 1..l, role \in {"MAKER", "TAKER"}}
                  \cup {[id |-> EventId(r, i), role |-> "OWNER", owner |-> client] : i \in 1..l}
           lists == [i \in 1..l |-> ProjectedEvents(r, i, client)]
           J == Concatenated(lists)
           K == PrivateKnowledge(r, client)
<1>1. l \in Nat /\ DOMAIN r.events = 1..l
  BY Sizes DEF IsResult
<1>2. RecipientResult(r, client).privateResult = J
  BY <1>1 DEF RecipientResult
<1>3. ASSUME NEW i \in 1..l PROVE lists[i] \in Seq(S) /\ View(lists[i], r, i, client)
  <2>1. /\ \A role \in {"MAKER", "TAKER"} : [id |-> EventId(r, i), role |-> role] \in S
        /\ [id |-> EventId(r, i), role |-> "OWNER", owner |-> client] \in S
    OBVIOUS
  <2>2. i \in DOMAIN r.events /\ lists[i] = ProjectedEvents(r, i, client)
    BY <1>1
  <2> HIDE DEF S, lists
  <2> QED BY <2>1, <2>2, EventIsViewed
<1>4. lists \in Seq(Seq(S)) /\ Len(lists) = l
  <2>1. \A i \in 1..l : lists[i] \in Seq(S)
    <3> HIDE DEF lists, S, l
    <3> QED BY <1>3
  <2>2. lists = [i \in 1..l |-> lists[i]]
    OBVIOUS
  <2> HIDE DEF lists, S, l
  <2> QED BY <1>1, <2>1, <2>2
<1> HIDE DEF lists, S
<1>5. J \in Seq(S) /\ \E g, h : Listing(l, lists, J, g, h)
  BY <1>4, ConcatenatedLists
<1>6. PICK g, h : Listing(l, lists, J, g, h)
  BY <1>5
<1> HIDE DEF J, l
<1>7. Len(J) \in Nat /\ DOMAIN J = 1..Len(J)
  BY <1>5
<1>8. /\ g \in [1..Len(J) -> 1..l]
      /\ \A p \in 1..Len(J) : h[p] \in 1..Len(lists[g[p]]) /\ J[p] = lists[g[p]][h[p]]
      /\ \A p, q \in 1..Len(J) : p < q => g[p] < g[q] \/ (g[p] = g[q] /\ h[p] < h[q])
      /\ \A n \in 1..l : \A k \in 1..Len(lists[n]) : \E p \in 1..Len(J) : g[p] = n /\ h[p] = k
  BY <1>6 DEF Listing
<1>9. ASSUME NEW i \in 1..l
      PROVE  /\ Len(lists[i]) \in 0..2
             /\ \A k \in 1..Len(lists[i]) : lists[i][k].id = EventId(r, i) /\ <<i, lists[i][k].role>> \in K
             /\ \A role : <<i, role>> \in K => \E k \in 1..Len(lists[i]) : lists[i][k].role = role
             /\ Len(lists[i]) = 2 => /\ lists[i][1].role # lists[i][2].role
                                     /\ lists[i][1].role # "OWNER" /\ lists[i][2].role # "OWNER"
  BY <1>3 DEF View
<1> HIDE DEF K
<1>10. \A n \in 0..2 : \A k \in 1..n : k \in 1..2 /\ (k = 2 => n = 2)
  OBVIOUS
<1>11. ASSUME NEW p \in 1..Len(J)
       PROVE  /\ g[p] \in 1..l /\ h[p] \in 1..2 /\ J[p].id = EventId(r, g[p]) /\ <<g[p], J[p].role>> \in K
              /\ h[p] = 2 => J[p].role # "OWNER" /\ Len(lists[g[p]]) = 2
              /\ J[p] = lists[g[p]][h[p]]
  <2>1. g[p] \in 1..l /\ h[p] \in 1..Len(lists[g[p]]) /\ J[p] = lists[g[p]][h[p]]
    BY <1>8
  <2>2. Len(lists[g[p]]) \in 0..2
    BY <2>1, <1>9
  <2>3. h[p] \in 1..2 /\ (h[p] = 2 => Len(lists[g[p]]) = 2)
    BY <2>1, <2>2, <1>10, Zenon
  <2>4. J[p].id = EventId(r, g[p]) /\ <<g[p], J[p].role>> \in K
    BY <2>1, <1>9, Zenon
  <2>5. ASSUME h[p] = 2 PROVE J[p].role # "OWNER"
    <3>1. lists[g[p]][2].role # "OWNER"
      BY <2>1, <2>3, <2>5, <1>9, Zenon
    <3> QED BY <3>1, <2>1, <2>5, Zenon
  <2> QED BY <2>1, <2>3, <2>4, <2>5
<1>12. ASSUME NEW p \in 1..Len(J), NEW q \in 1..Len(J), p < q
       PROVE  \/ g[p] < g[q]
              \/ g[p] = g[q] /\ h[p] = 1 /\ h[q] = 2 /\ J[p].role # J[q].role /\ J[p].role # "OWNER"
  <2> SUFFICES ASSUME ~(g[p] < g[q])
               PROVE  g[p] = g[q] /\ h[p] = 1 /\ h[q] = 2 /\ J[p].role # J[q].role /\ J[p].role # "OWNER"
    OBVIOUS
  <2>1. g[p] = g[q] /\ h[p] < h[q]
    BY <1>8, <1>12
  <2>2. h[p] = 1 /\ h[q] = 2
    <3>1. \A x, y \in 1..2 : x < y => x = 1 /\ y = 2
      OBVIOUS
    <3>2. h[p] \in 1..2 /\ h[q] \in 1..2
      BY <1>11
    <3> QED BY <2>1, <3>1, <3>2, Zenon
  <2>3. g[q] \in 1..l /\ Len(lists[g[q]]) = 2 /\ J[q] = lists[g[q]][2] /\ J[p] = lists[g[q]][1]
    BY <2>1, <2>2, <1>11, Zenon
  <2>4. lists[g[q]][1].role # lists[g[q]][2].role /\ lists[g[q]][1].role # "OWNER"
    BY <2>3, <1>9, Zenon
  <2> QED BY <2>1, <2>2, <2>3, <2>4, Zenon
<1>13. ASSUME NEW n, NEW role, <<n, role>> \in K PROVE \E p \in 1..Len(J) : g[p] = n /\ J[p].role = role
  <2>1. n \in 1..l
    BY <1>13, <1>1, KnowledgeOf DEF K
  <2>2. PICK k \in 1..Len(lists[n]) : lists[n][k].role = role
    BY <2>1, <1>9, <1>13
  <2>3. PICK p \in 1..Len(J) : g[p] = n /\ h[p] = k
    BY <2>1, <1>8
  <2>4. J[p] = lists[n][k]
    BY <2>3, <1>8, Zenon
  <2> QED BY <2>2, <2>3, <2>4, Zenon
<1>14. Views(J, r, client, g, h)
  BY <1>7, <1>8, <1>11, <1>12, <1>13 DEF Views, l, K
<1> QED BY <1>2, <1>14
\* What a recipient's part of a private batch says of its result.
PrivateTold(J, r, client) ==
  /\ {<<J[i].id.index, J[i].role>> : i \in DOMAIN J} = PrivateKnowledge(r, client)
  /\ Len(J) = Cardinality(PrivateKnowledge(r, client))
  /\ \A i \in DOMAIN J :
       /\ J[i].id.run = r.run /\ J[i].id.sequence = r.sequence
       /\ i > 1 => J[i - 1].id.index <= J[i].id.index

LEMMA PrivateProjection ==
  ASSUME NEW r, IsResult(r), NEW client, NEW J, NEW g, NEW h, Views(J, r, client, g, h)
  PROVE  PrivateTold(J, r, client)
<1> DEFINE l == Len(r.events)
           a == Len(J)
           K == PrivateKnowledge(r, client)
<1>1. /\ DOMAIN J = 1..a /\ a \in Nat /\ g \in [1..a -> 1..l] /\ l \in Nat
      /\ \A p \in 1..a : J[p].id = EventId(r, g[p]) /\ <<g[p], J[p].role>> \in K
      /\ \A p, q \in 1..a : p < q => g[p] < g[q] \/ (g[p] = g[q] /\ J[p].role # J[q].role)
      /\ \A n, role : <<n, role>> \in K => \E p \in 1..a : g[p] = n /\ J[p].role = role
  BY Sizes DEF Views, IsResult
<1>2. \A x \in K : \E i, role : x = <<i, role>>
  BY KnowledgeOf
<1> HIDE DEF l, a, K
<1>3. ASSUME NEW p \in 1..a
      PROVE J[p].id.index = g[p] /\ J[p].id.run = r.run /\ J[p].id.sequence = r.sequence /\ g[p] \in 1..l
  <2>1. J[p].id = EventId(r, g[p]) /\ g[p] \in 1..l
    BY <1>1
  <2> QED BY <2>1 DEF EventId
<1>4. {<<J[i].id.index, J[i].role>> : i \in DOMAIN J} = K
  <2>1. ASSUME NEW i \in DOMAIN J PROVE <<J[i].id.index, J[i].role>> \in K
    BY <1>1, <1>3
  <2>2. ASSUME NEW x \in K PROVE \E i \in DOMAIN J : x = <<J[i].id.index, J[i].role>>
    <3>1. PICK n, role : x = <<n, role>>
      BY <1>2
    <3>2. PICK p \in 1..a : g[p] = n /\ J[p].role = role
      BY <3>1, <1>1
    <3>3. p \in DOMAIN J /\ J[p].id.index = n
      BY <3>2, <1>1, <1>3
    <3> QED BY <3>1, <3>2, <3>3
  <2> QED BY <2>1, <2>2
<1>5. a = Cardinality(K)
  <2> DEFINE f == [p \in 1..a |-> <<g[p], J[p].role>>]
  <2>1. f \in [1..a -> K]
    BY <1>1
  <2>2. ASSUME NEW p \in 1..a, NEW q \in 1..a, f[p] = f[q] PROVE p = q
    <3>1. g[p] = g[q] /\ J[p].role = J[q].role
      BY <2>2
    <3>2. p < q \/ q < p \/ p = q
      BY <1>1
    <3>3. g[p] \in Int /\ g[q] \in Int
      BY <1>3, <1>1
    <3> QED BY <3>1, <3>2, <3>3, <1>1
  <2>3. ASSUME NEW x \in K PROVE \E p \in 1..a : f[p] = x
    <3>1. PICK n, role : x = <<n, role>>
      BY <1>2
    <3>2. PICK p \in 1..a : g[p] = n /\ J[p].role = role
      BY <3>1, <1>1
    <3> QED BY <3>1, <3>2
  <2>4. DOMAIN f = 1..a
    OBVIOUS
  <2> HIDE DEF f
  <2>5. f \in Injection(1..a, K)
    BY <2>1, <2>2, <2>4 DEF Injection, IsInjective
  <2>6. f \in Surjection(1..a, K)
    BY <2>1, <2>3 DEF Surjection
  <2>7. ExistsBijection(1..a, K)
    BY <2>5, <2>6 DEF Bijection, ExistsBijection
  <2>8. IsFiniteSet(1..a) /\ Cardinality(1..a) = a
    BY <1>1, FS_Interval
  <2> QED BY <2>7, <2>8, FS_Bijection
<1>6. ASSUME NEW i \in DOMAIN J
      PROVE  J[i].id.run = r.run /\ J[i].id.sequence = r.sequence /\ (i > 1 => J[i - 1].id.index <= J[i].id.index)
  <2>1. i \in 1..a
    BY <1>1
  <2>2. ASSUME i > 1 PROVE J[i - 1].id.index <= J[i].id.index
    <3>1. i - 1 \in 1..a /\ i - 1 < i
      BY <2>1, <2>2, <1>1
    <3>2. g[i - 1] < g[i] \/ g[i - 1] = g[i]
      BY <2>1, <3>1, <1>1
    <3>3. g[i - 1] \in Int /\ g[i] \in Int
      BY <2>1, <3>1, <1>3, <1>1
    <3>4. g[i - 1] <= g[i]
      BY <3>2, <3>3
    <3> QED BY <3>1, <3>4, <2>1, <1>3
  <2> QED BY <2>1, <2>2, <1>3
<1> QED BY <1>4, <1>5, <1>6 DEF PrivateTold, a, K

\* The views of an event, with a comma each, take no more than two trades.
LEMMA ViewsFit ==
  ASSUME NEW r, IsResult(r), NEW client, NEW J, NEW g, NEW h, Views(J, r, client, g, h)
  PROVE  LET bytes == Total([i \in DOMAIN J |-> EventBytes(J[i])])
         IN  bytes \in Nat /\ bytes + Len(J) <= (2 * (PrivateTradeBytes + 1)) * MaxEventsPerCommand
<1> DEFINE l == Len(r.events)
           a == Len(J)
           t == PrivateTradeBytes + 1
           u == 2 * t
           numbers == [i \in DOMAIN J |-> EventBytes(J[i])]
           w(p) == IF J[p].role = "OWNER" \/ h[p] = 2 THEN u ELSE t
<1>1. l \in 1..MaxEventsPerCommand /\ l \in Nat /\ MaxEventsPerCommand \in Nat
  BY Sizes DEF IsResult
<1>2. /\ DOMAIN J = 1..a /\ a \in Nat /\ g \in [1..a -> 1..l]
      /\ \A p \in 1..a : h[p] \in 1..2 /\ (h[p] = 2 => J[p].role # "OWNER")
      /\ \A p, q \in 1..a : p < q => \/ g[p] < g[q]
                                     \/ g[p] = g[q] /\ h[p] = 1 /\ h[q] = 2 /\ J[p].role # "OWNER"
  BY DEF Views
<1>3. t \in Nat /\ u \in Nat /\ t <= u /\ u = t + t
  BY Sizes
<1>4. ASSUME NEW p \in 1..a
      PROVE  /\ EventBytes(J[p]) \in Nat
             /\ EventBytes(J[p]) + 1 <= w(p) /\ (h[p] = 2 => EventBytes(J[p]) + 1 <= t)
             /\ w(p) \in Nat /\ w(p) <= u
  <2>1. CASE J[p].role = "OWNER"
    <3>1. h[p] # 2
      BY <1>2, <2>1
    <3>2. EventBytes(J[p]) = OwnedEventBytes
      BY <2>1 DEF EventBytes
    <3> QED BY <2>1, <3>1, <3>2, Sizes
  <2>2. CASE J[p].role # "OWNER"
    <3>1. EventBytes(J[p]) = PrivateTradeBytes
      BY <2>2 DEF EventBytes
    <3> QED BY <2>2, <3>1, Sizes
  <2> QED BY <2>1, <2>2
<1> HIDE DEF l, a, t, u
<1>5. numbers \in Seq(Nat) /\ Len(numbers) = a /\ \A p \in 1..a : numbers[p] = EventBytes(J[p])
  <2>1. numbers = [i \in 1..a |-> EventBytes(J[i])]
    BY <1>2
  <2>2. \A p \in 1..a : EventBytes(J[p]) \in Nat
    BY <1>4
  <2> HIDE DEF numbers
  <2> QED BY <1>2, <2>1, <2>2
<1> HIDE DEF numbers
<1>6. PICK sum \in [0..a -> Nat] : Adding(numbers, sum) /\ Total(numbers) = sum[a]
  BY <1>5, TotalUnfolds
<1>7. sum[0] = 0 /\ \A p \in 1..a : sum[p] = sum[p - 1] + EventBytes(J[p])
  BY <1>5, <1>6 DEF Adding
<1> DEFINE Q == {p \in 0..a : p = 0 \/ sum[p] + p <= u * (g[p] - 1) + w(p)}
<1>8. 0 \in Q
  BY <1>2
<1>9. ASSUME NEW p \in 0..(a - 1), p \in Q PROVE p + 1 \in Q
  <2> DEFINE q == p + 1
             b == EventBytes(J[q])
             y == g[q]
  <2>1. p \in 0..a /\ q \in 1..a /\ q \in 0..a /\ q - 1 = p /\ p \in Nat
    BY <1>2
  <2>2. sum[q] = sum[p] + b /\ sum[p] \in Nat
    BY <2>1, <1>6, <1>7
  <2>3. b \in Nat /\ b + 1 <= w(q) /\ (h[q] = 2 => b + 1 <= t) /\ w(q) \in Nat
    BY <2>1, <1>4
  <2>4. y \in 1..l /\ y \in Nat /\ y - 1 \in Nat /\ u * (y - 1) \in Nat
    BY <2>1, <1>1, <1>2, <1>3
  <2>5. CASE p = 0
    <3>1. sum[q] + q <= u * (y - 1) + w(q)
      <4> HIDE DEF b, y, w
      <4> QED BY <2>1, <2>2, <2>3, <2>4, <2>5, <1>7
    <3> QED BY <3>1, <2>1
  <2>6. CASE p # 0
    <3> DEFINE x == g[p]
    <3>1. p \in 1..a /\ p < q
      BY <2>1, <2>6
    <3>2. sum[p] + p <= u * (x - 1) + w(p) /\ w(p) \in Nat /\ w(p) <= u
      BY <2>6, <3>1, <1>4, <1>9
    <3>3. x \in 1..l /\ x \in Nat /\ x - 1 \in Nat
      BY <3>1, <1>1, <1>2
    <3>4. u * x = u * (x - 1) + u /\ u * (x - 1) \in Nat
      <4>1. u * ((x - 1) + 1) = u * (x - 1) + u /\ u * (x - 1) \in Nat
        <5> HIDE DEF x
        <5> QED BY <3>3, <1>3, Products
      <4>2. (x - 1) + 1 = x
        <5> HIDE DEF x
        <5> QED BY <3>3
      <4> HIDE DEF x
      <4> QED BY <4>1, <4>2
    <3>5. CASE x < y
      <4>1. x <= y - 1
        <5> HIDE DEF x, y
        <5> QED BY <3>3, <3>5, <2>4
      <4>2. u * x <= u * (y - 1)
        <5> HIDE DEF x, y
        <5> QED BY <4>1, <3>3, <2>4, <1>3, Products
      <4>3. sum[q] + q <= u * (y - 1) + w(q)
        <5>1. u * x \in Nat
          <6> HIDE DEF x, y
          <6> QED BY <3>3, <1>3, Products
        <5> HIDE DEF x, y, b, w
        <5> QED BY <4>2, <3>2, <3>4, <2>1, <2>2, <2>3, <2>4, <5>1, <1>3
      <4> QED BY <4>3, <2>1
    <3>6. CASE x = y /\ h[p] = 1 /\ h[q] = 2 /\ J[p].role # "OWNER"
      <4>1. w(p) = t /\ w(q) = u /\ b + 1 <= t
        BY <3>6, <2>3
      <4>2. sum[q] + q <= u * (y - 1) + w(q)
        <5> HIDE DEF x, y, b, w
        <5> QED BY <4>1, <3>2, <3>6, <2>1, <2>2, <2>3, <2>4, <1>3
      <4> QED BY <4>2, <2>1
    <3> QED BY <3>1, <3>5, <3>6, <2>1, <1>2
  <2> QED BY <2>5, <2>6
<1>10. a \in Q
  <2>1. \A p \in 0..a : p \in Q
    <3> HIDE DEF Q
    <3> QED BY <1>2, <1>8, <1>9, CountingUp
  <2> HIDE DEF Q
  <2> QED BY <2>1, <1>2
<1>11. sum[a] \in Nat
  BY <1>2, <1>6
<1>12. u * l \in Nat /\ u * MaxEventsPerCommand \in Nat /\ u * l <= u * MaxEventsPerCommand
  BY <1>1, <1>3, Products
<1>13. sum[a] + a <= u * MaxEventsPerCommand
  <2>1. CASE a = 0
    BY <2>1, <1>2, <1>7, <1>12
  <2>2. CASE a # 0
    <3> DEFINE x == g[a]
    <3>1. a \in 1..a
      BY <2>2, <1>2
    <3>2. sum[a] + a <= u * (x - 1) + w(a) /\ w(a) \in Nat /\ w(a) <= u
      BY <2>2, <3>1, <1>4, <1>10
    <3>3. x \in 1..l /\ x \in Nat /\ x - 1 \in Nat
      BY <3>1, <1>1, <1>2
    <3>4. u * ((x - 1) + 1) = u * (x - 1) + u /\ u * (x - 1) \in Nat /\ u * ((x - 1) + 1) <= u * l
      <4>1. (x - 1) + 1 \in Nat /\ (x - 1) + 1 <= l
        <5> HIDE DEF x
        <5> QED BY <3>3, <1>1
      <4> HIDE DEF x
      <4> QED BY <4>1, <3>3, <1>1, <1>3, Products
    <3> HIDE DEF x, w
    <3> QED BY <3>2, <3>4, <1>2, <1>3, <1>11, <1>12
  <2> QED BY <2>1, <2>2
<1> QED BY <1>6, <1>11, <1>13 DEF numbers, a, u, t
LEMMA PrivateMessageTells ==
  ASSUME NEW r, IsResult(r), NEW client, \E i \in DOMAIN r.events : Concerns(r.events[i], client)
  PROVE  LET part == RecipientResult(r, client)
             m == PrivateMessage(part)
         IN  /\ TellsPrivate(m, r, client) /\ Sendable(m)
             /\ m.run = r.run /\ m.recipient = client
             /\ part.privateResult[1].id.run = r.run /\ part.privateResult[1].id.sequence = r.sequence
<1> DEFINE part == RecipientResult(r, client)
           J == part.privateResult
           m == PrivateMessage(part)
           K == PrivateKnowledge(r, client)
<1>1. PICK g, h : Views(J, r, client, g, h)
  BY ResultIsViewed
<1>2. PrivateTold(J, r, client)
  BY <1>1, PrivateProjection
<1>3. /\ part.recipient = client
      /\ part.correlation = IF client = r.client THEN <<[run |-> r.run, sequence |-> r.sequence, client |-> client]>>
                            ELSE <<>>
  BY DEF RecipientResult
<1>4. (part.correlation # <<>> <=> client = r.client) /\ Len(part.correlation) \in {0, 1}
  <2>1. CASE client = r.client
    BY <2>1, <1>3
  <2>2. CASE client # r.client
    BY <2>2, <1>3
  <2> QED BY <2>1, <2>2
<1>5. Len(J) \in Nat /\ DOMAIN J = 1..Len(J)
  BY <1>1 DEF Views
<1>6. 1 \in DOMAIN J
  <2>1. PICK i \in DOMAIN r.events : Concerns(r.events[i], client)
    OBVIOUS
  <2>2. \E role : <<i, role>> \in K
    BY <2>1, KnowledgeOf DEF Concerns
  <2>3. PICK x : x \in K
    BY <2>2
  <2>4. \E p \in DOMAIN J : TRUE
    BY <2>3, <1>2 DEF PrivateTold
  <2> HIDE DEF J
  <2> QED BY <2>4, <1>5
<1>7. J[1].id.run = r.run /\ J[1].id.sequence = r.sequence
  BY <1>2, <1>6 DEF PrivateTold
<1> DEFINE bytes == Total([i \in DOMAIN J |-> EventBytes(J[i])])
           u == 2 * (PrivateTradeBytes + 1)
<1>8. bytes \in Nat /\ bytes + Len(J) <= u * MaxEventsPerCommand
  BY <1>1, ViewsFit
<1> HIDE DEF part
<1>9. /\ m.type = "privateResult" /\ m.run = J[1].id.run /\ m.recipient = client
      /\ m.correlation = part.correlation /\ m.events = J
  BY <1>3 DEF PrivateMessage
<1> HIDE DEF m, J
<1>10. TellsPrivate(m, r, client)
  BY <1>2, <1>4, <1>7, <1>9 DEF PrivateTold, TellsPrivate
<1>11. MessageBytes(m) = EnvelopeBytes + CorrelationBytes * Len(part.correlation) + bytes + (Len(J) - 1)
  <2>1. m.type # "publicTrades"
    BY <1>9
  <2> QED BY <2>1, <1>9 DEF MessageBytes
<1>12. /\ CorrelationBytes * Len(part.correlation) \in Nat
       /\ CorrelationBytes * Len(part.correlation) <= CorrelationBytes
  <2>1. CASE Len(part.correlation) = 0
    BY <2>1, Sizes
  <2>2. CASE Len(part.correlation) = 1
    BY <2>2, Sizes
  <2> QED BY <2>1, <2>2, <1>4
<1>13. u * MaxEventsPerCommand = (2 * MaxEventsPerCommand) * PrivateTradeBytes + 2 * MaxEventsPerCommand
  BY Sizes
<1>14. MaxPrivateMessageBytes = EnvelopeBytes + CorrelationBytes + (2 * MaxEventsPerCommand) * PrivateTradeBytes
                                  + (2 * MaxEventsPerCommand - 1)
  BY DEF MaxPrivateMessageBytes, MaxPrivateEvents
<1>15. (2 * MaxEventsPerCommand) * PrivateTradeBytes \in Nat
  BY Sizes
<1>16. Len(J) >= 1
  BY <1>5, <1>6
<1> HIDE DEF bytes, u
<1>17. MessageBytes(m) \in Nat /\ MessageBytes(m) <= MaxPrivateMessageBytes
  BY <1>5, <1>8, <1>11, <1>12, <1>13, <1>14, <1>15, <1>16, Sizes
<1>18. Sendable(m)
  BY <1>17, Capacities DEF Sendable
<1> QED BY <1>7, <1>9, <1>10, <1>18 DEF m, J, part

-----------------------------------------------------------------------------
(* Queues of messages.                                                     *)

\* A sequence of messages that have a size.
IsQueue(q) == \E S : q \in Seq(S) /\ \A m \in S : MessageBytes(m) \in Nat

LEMMA EmptyQueue == IsQueue(<<>>) /\ QueuedBytes(<<>>) = 0
<1>1. IsQueue(<<>>)
  <2>1. PICK S : S = {}
    OBVIOUS
  <2>2. <<>> \in Seq(S) /\ \A m \in S : MessageBytes(m) \in Nat
    BY <2>1
  <2> QED BY <2>2, Zenon DEF IsQueue
<1>2. [i \in DOMAIN <<>> |-> MessageBytes(<<>>[i])] = <<>>
  OBVIOUS
<1> QED BY <1>1, <1>2, TotalOfNone DEF QueuedBytes

\* The sizes of the messages of a queue.
LEMMA QueueSizes ==
  ASSUME NEW q, IsQueue(q)
  PROVE  LET sizes == [i \in DOMAIN q |-> MessageBytes(q[i])]
         IN  /\ sizes \in Seq(Nat) /\ Len(sizes) = Len(q) /\ Len(q) \in Nat /\ DOMAIN q = 1..Len(q)
             /\ \A i \in 1..Len(q) : sizes[i] = MessageBytes(q[i])
<1> DEFINE sizes == [i \in DOMAIN q |-> MessageBytes(q[i])]
<1>1. PICK S : q \in Seq(S) /\ \A m \in S : MessageBytes(m) \in Nat
  BY DEF IsQueue
<1>2. Len(q) \in Nat /\ DOMAIN q = 1..Len(q) /\ \A i \in 1..Len(q) : q[i] \in S
  BY <1>1
<1>3. sizes = [i \in 1..Len(q) |-> MessageBytes(q[i])]
  BY <1>2
<1>4. \A i \in 1..Len(q) : MessageBytes(q[i]) \in Nat
  BY <1>1, <1>2
<1> DEFINE n == Len(q)
<1> HIDE DEF sizes, n
<1>5. sizes \in Seq(Nat) /\ Len(sizes) = n
  BY <1>2, <1>3, <1>4 DEF n
<1> QED BY <1>2, <1>3, <1>5 DEF n, sizes

LEMMA QueueTakes ==
  ASSUME NEW q, IsQueue(q), NEW m, MessageBytes(m) \in Nat
  PROVE  /\ IsQueue(Append(q, m)) /\ QueuedBytes(q) \in Nat
         /\ QueuedBytes(Append(q, m)) = QueuedBytes(q) + MessageBytes(m)
<1> DEFINE q2 == Append(q, m)
           sizes == [i \in DOMAIN q |-> MessageBytes(q[i])]
           sizes2 == [i \in DOMAIN q2 |-> MessageBytes(q2[i])]
<1>1. PICK S : q \in Seq(S) /\ \A x \in S : MessageBytes(x) \in Nat
  BY DEF IsQueue
<1>2. IsQueue(q2)
  <2>1. q2 \in Seq(S \cup {m}) /\ \A x \in S \cup {m} : MessageBytes(x) \in Nat
    <3>1. q \in Seq(S \cup {m}) /\ m \in S \cup {m}
      BY <1>1
    <3>2. q2 \in Seq(S \cup {m})
      BY <3>1, AppendProperties
    <3> QED BY <3>2, <1>1
  <2> QED BY <2>1 DEF IsQueue
<1>3. Len(q2) = Len(q) + 1 /\ q2[Len(q) + 1] = m /\ \A i \in 1..Len(q) : q2[i] = q[i]
  <2>1. q \in Seq(S \cup {m}) /\ m \in S \cup {m}
    BY <1>1
  <2> QED BY <2>1, AppendProperties
<1> HIDE DEF q2
<1>4. /\ sizes \in Seq(Nat) /\ Len(sizes) = Len(q) /\ Len(q) \in Nat
      /\ \A i \in 1..Len(q) : sizes[i] = MessageBytes(q[i])
  BY QueueSizes
<1>5. /\ sizes2 \in Seq(Nat) /\ Len(sizes2) = Len(q2)
      /\ \A i \in 1..Len(q2) : sizes2[i] = MessageBytes(q2[i])
  BY <1>2, QueueSizes
<1>6. QueuedBytes(q) = Total(sizes) /\ QueuedBytes(q2) = Total(sizes2)
  BY DEF QueuedBytes
<1> HIDE DEF sizes, sizes2
<1> DEFINE b == MessageBytes(m)
           t == Append(sizes, b)
<1>7. t \in Seq(Nat) /\ Len(t) = Len(sizes) + 1 /\ t[Len(sizes) + 1] = b /\ \A i \in 1..Len(sizes) : t[i] = sizes[i]
  BY <1>4, AppendProperties
<1>8. sizes2 = t
  <2>1. ASSUME NEW i \in 1..Len(t) PROVE sizes2[i] = t[i]
    <3>1. i \in 1..Len(q) \/ i = Len(q) + 1
      BY <1>4, <1>7
    <3>2. i \in 1..Len(q2)
      BY <1>3, <1>4, <1>7
    <3> HIDE DEF t, b
    <3>3. CASE i \in 1..Len(q)
      BY <3>2, <3>3, <1>3, <1>4, <1>5, <1>7
    <3>4. CASE i = Len(q) + 1
      BY <3>2, <3>4, <1>3, <1>4, <1>5, <1>7 DEF b
    <3> QED BY <3>1, <3>3, <3>4
  <2> HIDE DEF t, b
  <2> QED BY <2>1, <1>3, <1>4, <1>5, <1>7, SeqEqual
<1>9. Total(sizes) \in Nat /\ Total(t) = Total(sizes) + b
  BY <1>4, TotalGrows
<1> QED BY <1>2, <1>6, <1>8, <1>9 DEF q2

LEMMA QueueGives ==
  ASSUME NEW q, IsQueue(q), q # <<>>
  PROVE  /\ IsQueue(Tail(q)) /\ MessageBytes(Head(q)) \in Nat /\ QueuedBytes(Tail(q)) \in Nat
         /\ QueuedBytes(q) = MessageBytes(Head(q)) + QueuedBytes(Tail(q))
<1> DEFINE q2 == Tail(q)
           sizes == [i \in DOMAIN q |-> MessageBytes(q[i])]
           sizes2 == [i \in DOMAIN q2 |-> MessageBytes(q2[i])]
<1>1. PICK S : q \in Seq(S) /\ \A x \in S : MessageBytes(x) \in Nat
  BY DEF IsQueue
<1>2. /\ q2 \in Seq(S) /\ Len(q2) \in Nat /\ Len(q) = Len(q2) + 1 /\ Head(q) = q[1] /\ Head(q) \in S
      /\ \A i \in 1..Len(q2) : q2[i] = q[i + 1]
  BY <1>1, HeadTailProperties
<1>3. IsQueue(q2)
  BY <1>1, <1>2 DEF IsQueue
<1> HIDE DEF q2
<1>4. /\ sizes \in Seq(Nat) /\ Len(sizes) = Len(q) /\ Len(q) \in Nat
      /\ \A i \in 1..Len(q) : sizes[i] = MessageBytes(q[i])
  BY QueueSizes
<1>5. /\ sizes2 \in Seq(Nat) /\ Len(sizes2) = Len(q2)
      /\ \A i \in 1..Len(q2) : sizes2[i] = MessageBytes(q2[i])
  BY <1>3, QueueSizes
<1>6. QueuedBytes(q) = Total(sizes) /\ QueuedBytes(q2) = Total(sizes2)
  BY DEF QueuedBytes
<1> HIDE DEF sizes, sizes2
<1> DEFINE t == Tail(sizes)
<1>7. sizes # <<>>
  BY <1>2, <1>4
<1>8. t \in Seq(Nat) /\ Len(sizes) = Len(t) + 1 /\ Len(t) \in Nat /\ Head(sizes) = sizes[1] /\ \A i \in 1..Len(t) : t[i] = sizes[i + 1]
  BY <1>4, <1>7, HeadTailProperties
<1> HIDE DEF t
<1>9. sizes2 = t
  <2>0. Len(t) = Len(q2)
    BY <1>2, <1>4, <1>8
  <2>1. ASSUME NEW i \in 1..Len(t) PROVE sizes2[i] = t[i]
    <3>1. i + 1 \in 1..Len(q) /\ i \in 1..Len(q2)
      BY <2>0, <1>2
    <3> QED BY <3>1, <1>2, <1>4, <1>5, <1>8
  <2> QED BY <2>0, <2>1, <1>5, <1>8, SeqEqual
<1>10. Total(sizes) = Head(sizes) + Total(t)
  BY <1>4, <1>7, TotalShrinks DEF t
<1>11. Head(sizes) = MessageBytes(Head(q))
  <2>1. 1 \in 1..Len(q)
    BY <1>2
  <2> QED BY <2>1, <1>2, <1>4, <1>8
<1>12. Total(sizes2) \in Nat
  <2>1. 0 \in Nat
    OBVIOUS
  <2> QED BY <2>1, <1>5, TotalGrows
<1>13. MessageBytes(Head(q)) \in Nat
  BY <1>1, <1>2
<1> QED BY <1>3, <1>6, <1>9, <1>10, <1>11, <1>12, <1>13 DEF q2
-----------------------------------------------------------------------------
(* Connections and tables of connections.                                  *)

\* A connection whose byte count is what is queued, within the capacity.
IsConnection(c) ==
  /\ c = [handle |-> c.handle, client |-> c.client, run |-> c.run, outbound |-> c.outbound, queuedBytes |-> c.queuedBytes]
  /\ c.handle \in Handles
  /\ IsQueue(c.outbound) /\ c.queuedBytes = QueuedBytes(c.outbound)
  /\ c.queuedBytes \in Nat /\ c.queuedBytes <= OutboundCapacity

\* The two have the same handle, or the same client and run.
Clash(c, d) == c.handle = d.handle \/ (c.client = d.client /\ c.run = d.run)

\* A sequence of connections, no two of which clash.
Sound(t) ==
  /\ \E S : t \in Seq(S)
  /\ \A i \in 1..Len(t) : IsConnection(t[i])
  /\ \A i, j \in 1..Len(t) : Clash(t[i], t[j]) => i = j

LEMMA TableIsSequence ==
  ASSUME NEW t, Sound(t)
  PROVE  Len(t) \in Nat /\ DOMAIN t = 1..Len(t) /\ t \in Seq({t[i] : i \in 1..Len(t)})
<1>1. PICK S : t \in Seq(S)
  BY DEF Sound
<1>2. Len(t) \in Nat /\ DOMAIN t = 1..Len(t) /\ t = [i \in 1..Len(t) |-> t[i]]
  BY <1>1
<1> DEFINE n == Len(t)
           R == {t[i] : i \in 1..n}
<1>3. \A i \in 1..n : t[i] \in R
  OBVIOUS
<1> HIDE DEF n, R
<1>4. t \in Seq(R)
  <2>1. n \in Nat /\ t = [i \in 1..n |-> t[i]]
    BY <1>2 DEF n
  <2>2. [i \in 1..n |-> t[i]] \in [1..n -> R]
    BY <1>3
  <2>3. t \in [1..n -> R]
    BY <2>1, <2>2
  <2> QED BY <2>1, <2>3, SeqDef
<1> QED BY <1>2, <1>4 DEF n, R

\* SelectInSeq finds an element if there is one.
LEMMA LeastIsMember ==
  ASSUME NEW n \in Nat, NEW I \in SUBSET (1..n), I # {}
  PROVE  Min(I) \in I
<1>1. I \in SUBSET (0..n)
  OBVIOUS
<1>2. \E x \in I : \A y \in I : x <= y
  BY <1>1, LeastExists
<1> QED BY <1>2 DEF Min

LEMMA FoundConnection ==
  ASSUME NEW t, Len(t) \in Nat, NEW h
  PROVE  LET i == findConnection(t, h)
         IN  \/ i = 0 /\ \A j \in 1..Len(t) : t[j].handle # h
             \/ i # 0 /\ i \in 1..Len(t) /\ t[i].handle = h
<1> DEFINE I == {j \in 1..Len(t) : t[j].handle = h}
<1>1. findConnection(t, h) = IF I # {} THEN Min(I) ELSE 0
  BY DEF findConnection, SelectInSeq
<1>2. I \in SUBSET (1..Len(t))
  OBVIOUS
<1>3. I # {} => Min(I) \in I
  <2> HIDE DEF I
  <2> QED BY <1>2, LeastIsMember
<1>4. \A j \in 1..Len(t) : j # 0
  OBVIOUS
<1> QED BY <1>1, <1>3, <1>4

LEMMA FoundBinding ==
  ASSUME NEW t, Len(t) \in Nat, NEW client, NEW r
  PROVE  LET i == findBinding(t, client, r)
         IN  \/ i = 0 /\ \A j \in 1..Len(t) : ~(t[j].client = client /\ t[j].run = r)
             \/ i # 0 /\ i \in 1..Len(t) /\ t[i].client = client /\ t[i].run = r
<1> DEFINE I == {j \in 1..Len(t) : t[j].client = client /\ t[j].run = r}
<1>1. findBinding(t, client, r) = IF I # {} THEN Min(I) ELSE 0
  BY DEF findBinding, SelectInSeq
<1>2. I \in SUBSET (1..Len(t))
  OBVIOUS
<1>3. I # {} => Min(I) \in I
  <2> HIDE DEF I
  <2> QED BY <1>2, LeastIsMember
<1>4. \A j \in 1..Len(t) : j # 0
  OBVIOUS
<1> QED BY <1>1, <1>3, <1>4

\* Removing an element shifts those behind it.
LEMMA RemoveAtIs ==
  ASSUME NEW S, NEW s \in Seq(S), NEW i \in 1..Len(s)
  PROVE  /\ RemoveAt(s, i) \in Seq(S)
         /\ Len(RemoveAt(s, i)) = Len(s) - 1
         /\ \A j \in 1..(Len(s) - 1) : RemoveAt(s, i)[j] = s[IF j < i THEN j ELSE j + 1]
<1> DEFINE n == Len(s)
           a == SubSeq(s, 1, i - 1)
           b == SubSeq(s, i + 1, n)
<1>1. n \in Nat /\ i \in Nat /\ 1 <= i /\ i <= n
  OBVIOUS
<1>2. a \in Seq(S) /\ Len(a) = i - 1 /\ \A j \in 1..(i - 1) : a[j] = s[j]
  BY <1>1, SubSeqProperties
<1>3. b \in Seq(S) /\ Len(b) = n - i /\ \A j \in 1..(n - i) : b[j] = s[i + j]
  BY <1>1, SubSeqProperties
<1>4. RemoveAt(s, i) = a \o b
  BY DEF RemoveAt
<1> HIDE DEF a, b
<1>5. a \o b \in Seq(S) /\ Len(a \o b) = n - 1
      /\ \A j \in 1..(n - 1) : (a \o b)[j] = IF j <= i - 1 THEN a[j] ELSE b[j - (i - 1)]
  <2>1. /\ a \o b \in Seq(S)
        /\ Len(a \o b) = Len(a) + Len(b)
        /\ \A j \in 1..(Len(a) + Len(b)) : (a \o b)[j] = IF j <= Len(a) THEN a[j] ELSE b[j - Len(a)]
    BY <1>2, <1>3, ConcatProperties
  <2>2. Len(a) + Len(b) = n - 1
    BY <1>1, <1>2, <1>3
  <2> QED BY <2>1, <2>2, <1>2
<1>6. ASSUME NEW j \in 1..(n - 1) PROVE (a \o b)[j] = s[IF j < i THEN j ELSE j + 1]
  <2>1. CASE j < i
    <3>1. j \in 1..(i - 1) /\ j <= i - 1
      BY <2>1, <1>1
    <3> QED BY <2>1, <3>1, <1>2, <1>5
  <2>2. CASE ~(j < i)
    <3>1. j - (i - 1) \in 1..(n - i) /\ ~(j <= i - 1) /\ i + (j - (i - 1)) = j + 1
      BY <2>2, <1>1
    <3> QED BY <2>2, <3>1, <1>3, <1>5
  <2> QED BY <2>1, <2>2
<1> QED BY <1>4, <1>5, <1>6

\* A table stays sound when a connection is replaced by one that does not
\* clash with the others,
LEMMA ReplacedIsSound ==
  ASSUME NEW t, Sound(t), NEW i \in 1..Len(t), NEW d, IsConnection(d),
         \A j \in 1..Len(t) : j # i => ~Clash(d, t[j]) /\ ~Clash(t[j], d)
  PROVE  LET t2 == ReplaceAt(t, i, d)
         IN  Sound(t2) /\ Len(t2) = Len(t) /\ t2[i] = d /\ \A j \in 1..Len(t) : j # i => t2[j] = t[j]
<1> DEFINE n == Len(t)
           R == {t[j] : j \in 1..n} \cup {d}
           t2 == [t EXCEPT ![i] = d]
<1>1. n \in Nat /\ DOMAIN t = 1..n /\ t \in Seq({t[j] : j \in 1..n})
  BY TableIsSequence
<1>2. t2 = [j \in 1..n |-> IF j = i THEN d ELSE t[j]]
  BY <1>1
<1>3. t2 \in [1..n -> R]
  <2>1. \A j \in 1..n : (IF j = i THEN d ELSE t[j]) \in R
    OBVIOUS
  <2> HIDE DEF n, R
  <2> QED BY <2>1, <1>2
<1>4. t2[i] = d /\ \A j \in 1..n : j # i => t2[j] = t[j]
  BY <1>2
<1> HIDE DEF R, t2, n
<1>5. t2 \in Seq(R) /\ Len(t2) = n
  BY <1>1, <1>3
<1>6. (\A j \in 1..n : IsConnection(t[j])) /\ (\A j, k \in 1..n : Clash(t[j], t[k]) => j = k) /\ i \in 1..n
  BY DEF Sound, n
<1>7. \A j \in 1..n : IsConnection(t2[j])
  BY <1>4, <1>6
<1>8. \A j, k \in 1..n : Clash(t2[j], t2[k]) => j = k
  BY <1>4, <1>6 DEF n
<1>9. Sound(t2)
  BY <1>5, <1>7, <1>8 DEF Sound
<1>10. ReplaceAt(t, i, d) = t2
  BY DEF ReplaceAt, t2
<1> QED BY <1>4, <1>5, <1>9, <1>10 DEF n

\* when one is removed,
LEMMA RemovedIsSound ==
  ASSUME NEW t, Sound(t), NEW i \in 1..Len(t)
  PROVE  LET t2 == RemoveAt(t, i)
         IN  /\ Sound(t2) /\ Len(t2) = Len(t) - 1 /\ Len(t2) \in Nat
             /\ \A j \in 1..Len(t2) : \E k \in 1..Len(t) : k # i /\ t2[j] = t[k]
             /\ \A k \in 1..Len(t) : k # i => \E j \in 1..Len(t2) : t2[j] = t[k]
<1> DEFINE n == Len(t)
           R == {t[j] : j \in 1..n}
           t2 == RemoveAt(t, i)
           at(j) == IF j < i THEN j ELSE j + 1
<1>1. n \in Nat /\ t \in Seq(R) /\ i \in Nat /\ i >= 1 /\ i <= n
  BY TableIsSequence
<1>2. t2 \in Seq(R) /\ Len(t2) = n - 1 /\ \A j \in 1..(n - 1) : t2[j] = t[at(j)]
  <2> HIDE DEF R
  <2> QED BY <1>1, RemoveAtIs
<1> HIDE DEF R, t2, n
<1>3. ASSUME NEW j \in 1..(n - 1) PROVE at(j) \in 1..n /\ at(j) # i
  BY <1>1
<1>4. ASSUME NEW j \in 1..(n - 1), NEW k \in 1..(n - 1), at(j) = at(k) PROVE j = k
  BY <1>1, <1>4
<1>5. ASSUME NEW k \in 1..n, k # i PROVE \E j \in 1..(n - 1) : at(j) = k
  <2>1. CASE k < i
    <3>1. k \in 1..(n - 1) /\ at(k) = k
      BY <2>1, <1>1
    <3> QED BY <3>1
  <2>2. CASE ~(k < i)
    <3>1. k - 1 \in 1..(n - 1) /\ at(k - 1) = k
      BY <2>2, <1>1, <1>5
    <3> QED BY <3>1
  <2> QED BY <2>1, <2>2
<1> HIDE DEF at
<1>6. (\A j \in 1..n : IsConnection(t[j])) /\ (\A j, k \in 1..n : Clash(t[j], t[k]) => j = k)
  BY DEF Sound, n
<1>7. \A j \in 1..(n - 1) : IsConnection(t2[j])
  BY <1>2, <1>3, <1>6
<1>8. \A j, k \in 1..(n - 1) : Clash(t2[j], t2[k]) => j = k
  BY <1>2, <1>3, <1>4, <1>6
<1>9. Sound(t2)
  BY <1>2, <1>7, <1>8 DEF Sound
<1>10. \A j \in 1..(n - 1) : \E k \in 1..n : k # i /\ t2[j] = t[k]
  BY <1>2, <1>3
<1>11. \A k \in 1..n : k # i => \E j \in 1..(n - 1) : t2[j] = t[k]
  BY <1>2, <1>5
<1>12. n - 1 \in Nat
  BY <1>1
<1> QED BY <1>2, <1>9, <1>10, <1>11, <1>12 DEF n, t2

\* and when one is appended that clashes with none.
LEMMA AppendedIsSound ==
  ASSUME NEW t, Sound(t), NEW d, IsConnection(d), \A j \in 1..Len(t) : ~Clash(d, t[j]) /\ ~Clash(t[j], d)
  PROVE  LET t2 == Append(t, d)
         IN  Sound(t2) /\ Len(t2) = Len(t) + 1 /\ t2[Len(t) + 1] = d /\ \A j \in 1..Len(t) : t2[j] = t[j]
<1> DEFINE n == Len(t)
           R == {t[j] : j \in 1..n}
           t2 == Append(t, d)
<1>1. n \in Nat /\ t \in Seq(R)
  BY TableIsSequence
<1>2. t2 \in Seq(R \cup {d}) /\ Len(t2) = n + 1 /\ t2[n + 1] = d /\ \A j \in 1..n : t2[j] = t[j]
  <2> HIDE DEF R
  <2>1. t \in Seq(R \cup {d}) /\ d \in R \cup {d}
    BY <1>1
  <2> QED BY <2>1, AppendProperties
<1> HIDE DEF R, t2, n
<1>3. (\A j \in 1..n : IsConnection(t[j])) /\ (\A j, k \in 1..n : Clash(t[j], t[k]) => j = k)
  BY DEF Sound, n
<1>4. \A j \in 1..(n + 1) : j \in 1..n \/ j = n + 1
  BY <1>1
<1>5. \A j \in 1..(n + 1) : IsConnection(t2[j])
  BY <1>2, <1>3, <1>4
<1>6. \A j, k \in 1..(n + 1) : Clash(t2[j], t2[k]) => j = k
  BY <1>2, <1>3, <1>4 DEF n
<1>7. Sound(t2)
  BY <1>2, <1>5, <1>6 DEF Sound
<1> QED BY <1>2, <1>7 DEF n, t2

\* A connection with another queue and count is otherwise the same.
LEMMA QueueReplaced ==
  ASSUME NEW c, IsConnection(c), NEW o2, NEW q2
  PROVE  [c EXCEPT !.outbound = o2, !.queuedBytes = q2]
           = [handle |-> c.handle, client |-> c.client, run |-> c.run, outbound |-> o2, queuedBytes |-> q2]
<1>1. c = [handle |-> c.handle, client |-> c.client, run |-> c.run, outbound |-> c.outbound, queuedBytes |-> c.queuedBytes]
  BY DEF IsConnection
<1>2. \A h, k, r, o, q, x, y :
        [[handle |-> h, client |-> k, run |-> r, outbound |-> o, queuedBytes |-> q]
           EXCEPT !.outbound = x, !.queuedBytes = y]
         = [handle |-> h, client |-> k, run |-> r, outbound |-> x, queuedBytes |-> y]
  <2> SUFFICES ASSUME NEW h, NEW k, NEW r, NEW o, NEW q, NEW x, NEW y
               PROVE  [[handle |-> h, client |-> k, run |-> r, outbound |-> o, queuedBytes |-> q]
                         EXCEPT !.outbound = x, !.queuedBytes = y]
                        = [handle |-> h, client |-> k, run |-> r, outbound |-> x, queuedBytes |-> y]
    OBVIOUS
  <2>1. [[handle |-> h, client |-> k, run |-> r, outbound |-> o, queuedBytes |-> q] EXCEPT !.outbound = x]
          = [handle |-> h, client |-> k, run |-> r, outbound |-> x, queuedBytes |-> q]
    OBVIOUS
  <2>2. [[handle |-> h, client |-> k, run |-> r, outbound |-> x, queuedBytes |-> q] EXCEPT !.queuedBytes = y]
          = [handle |-> h, client |-> k, run |-> r, outbound |-> x, queuedBytes |-> y]
    OBVIOUS
  <2> QED BY <2>1, <2>2
<1>3. PICK d : d = [c EXCEPT !.outbound = o2, !.queuedBytes = q2]
  OBVIOUS
<1>4. d = [handle |-> c.handle, client |-> c.client, run |-> c.run, outbound |-> o2, queuedBytes |-> q2]
  BY <1>1, <1>2, <1>3, Zenon
<1> QED BY <1>3, <1>4

\* The message is at the end of the queue, and the rest is as before.
LEMMA PushedIs ==
  ASSUME NEW c, IsConnection(c), NEW m
  PROVE  Pushed(c, m) = [handle |-> c.handle, client |-> c.client, run |-> c.run,
                         outbound |-> Append(c.outbound, m), queuedBytes |-> c.queuedBytes + MessageBytes(m)]
BY QueueReplaced, Zenon DEF Pushed

LEMMA PoppedIs ==
  ASSUME NEW c, IsConnection(c)
  PROVE  Popped(c) = [handle |-> c.handle, client |-> c.client, run |-> c.run, outbound |-> Tail(c.outbound),
                      queuedBytes |-> c.queuedBytes - MessageBytes(Head(c.outbound))]
BY QueueReplaced, Zenon DEF Popped

\* What a message does to the connection that it is offered to: there is room
\* or the connection has a backlog, and the byte count is never found broken.
LEMMA OfferIsSound ==
  ASSUME NEW c, IsConnection(c), NEW m, Sendable(m)
  PROVE  LET v == enqueueCapacity(c, m)
             d == Pushed(c, m)
         IN  /\ v = "FITS" \/ (v = "SLOW_CONSUMER" /\ c.outbound # <<>>)
             /\ d.handle = c.handle /\ d.client = c.client /\ d.run = c.run /\ d.outbound = Append(c.outbound, m)
             /\ v = "FITS" => IsConnection(d)
<1> DEFINE v == enqueueCapacity(c, m)
           d == Pushed(c, m)
           b == MessageBytes(m)
<1>1. /\ IsQueue(c.outbound) /\ c.queuedBytes = QueuedBytes(c.outbound) /\ c.handle \in Handles
      /\ c.queuedBytes \in Nat /\ c.queuedBytes <= OutboundCapacity
  BY DEF IsConnection
<1>2. b \in Nat /\ b <= MinOutboundCapacity
  BY DEF Sendable
<1>3. d = [handle |-> c.handle, client |-> c.client, run |-> c.run,
           outbound |-> Append(c.outbound, m), queuedBytes |-> c.queuedBytes + b]
  BY PushedIs
<1>4. /\ d.handle = c.handle /\ d.client = c.client /\ d.run = c.run /\ d.outbound = Append(c.outbound, m)
      /\ d.queuedBytes = c.queuedBytes + b
  BY <1>3
<1>5. IsQueue(d.outbound) /\ QueuedBytes(d.outbound) = QueuedBytes(c.outbound) + b
  BY <1>1, <1>2, <1>4, QueueTakes
<1> HIDE DEF d, b
<1>6. v = IF b > OutboundCapacity - c.queuedBytes THEN "SLOW_CONSUMER" ELSE "FITS"
  <2>1. ~(c.queuedBytes > OutboundCapacity)
    BY <1>1, Capacities
  <2> QED BY <2>1, <1>1 DEF enqueueCapacity, b
<1> HIDE DEF v
<1>7. ASSUME v = "FITS" PROVE IsConnection(d)
  <2>1. b <= OutboundCapacity - c.queuedBytes
    BY <1>1, <1>2, <1>6, <1>7, Capacities
  <2>2. c.queuedBytes + b \in Nat /\ c.queuedBytes + b <= OutboundCapacity
    BY <2>1, <1>1, <1>2, Capacities
  <2>3. d = [handle |-> d.handle, client |-> d.client, run |-> d.run, outbound |-> d.outbound, queuedBytes |-> d.queuedBytes]
    BY <1>3, <1>4
  <2> QED BY <2>2, <2>3, <1>1, <1>4, <1>5 DEF IsConnection
<1>8. ASSUME c.outbound = <<>> PROVE v = "FITS"
  <2>1. c.queuedBytes = 0
    BY <1>1, <1>8, EmptyQueue
  <2> QED BY <2>1, <1>2, <1>6, Capacities
<1> QED BY <1>4, <1>6, <1>7, <1>8 DEF v, d
-----------------------------------------------------------------------------
(* Routing.                                                                *)

\* A connection is owed a message of a result on a channel,
Owes(channel, r, c) ==
  r.run = c.run /\ (channel = "private" => \E i \in DOMAIN r.events : Concerns(r.events[i], c.client))

\* which tells its client what it may know.
Tells(channel, m, r, client) == IF channel = "public" THEN TellsPublic(m, r) ELSE TellsPrivate(m, r, client)

Updated(c, d, channel, r) ==
  IF Owes(channel, r, c) THEN \E m : d = Pushed(c, m) /\ Tells(channel, m, r, c.client) ELSE d = c

\* What routing a result makes of a table: each connection that is left was
\* sent what it is owed, and none without a backlog is gone.
Delivered(old, new, channel, r) ==
  /\ Sound(new) /\ Len(new) <= Len(old)
  /\ \A i \in 1..Len(new) : \E j \in 1..Len(old) : Updated(old[j], new[i], channel, r)
  /\ \A j \in 1..Len(old) : old[j].outbound = <<>> => \E i \in 1..Len(new) : new[i].handle = old[j].handle

LEMMA UpdatedKeeps ==
  ASSUME NEW c, IsConnection(c), NEW d, NEW channel, NEW r, Updated(c, d, channel, r)
  PROVE  d.handle = c.handle /\ d.client = c.client /\ d.run = c.run
<1>1. CASE d = c
  BY <1>1
<1>2. CASE d # c
  <2>1. PICK m : d = Pushed(c, m)
    BY <1>2 DEF Updated
  <2> QED BY <2>1, PushedIs
<1> QED BY <1>1, <1>2

LEMMA PublicRouting ==
  ASSUME Sound(connections), NEW r, NEW m, TellsPublic(m, r), Sendable(m), m.run = r.run
  PROVE  RoutePublic(m).broken = FALSE /\ Delivered(connections, RoutePublic(m).table, "public", r)
<1> DEFINE n == Len(connections)
           v(k) == IF connections[k].run = m.run THEN enqueueCapacity(connections[k], m) ELSE "PASSED"
           stopped(k) == \E j \in 1..k : v(j) = "INVARIANT_FAILURE"
           outcome(k) == CASE ~stopped(k) /\ v(k) = "FITS" -> <<Pushed(connections[k], m)>>
                           [] ~stopped(k) /\ v(k) = "SLOW_CONSUMER" -> <<>>
                           [] OTHER -> <<connections[k]>>
           lists == [k \in 1..n |-> outcome(k)]
           T == Concatenated(lists)
           S == {connections[k] : k \in 1..n} \cup {Pushed(connections[k], m) : k \in 1..n}
<1>1. n \in Nat /\ DOMAIN connections = 1..n
  BY TableIsSequence
<1>2. RoutePublic(m).table = T /\ RoutePublic(m).broken = stopped(n)
  BY <1>1 DEF RoutePublic
<1>3. (\A k \in 1..n : IsConnection(connections[k])) /\ (\A j, k \in 1..n : Clash(connections[j], connections[k]) => j = k)
  BY DEF Sound
<1> HIDE DEF n
<1>4. ASSUME NEW k \in 1..n
      PROVE  /\ \/ v(k) = "PASSED" /\ connections[k].run # m.run
                \/ v(k) = "FITS" /\ connections[k].run = m.run /\ IsConnection(Pushed(connections[k], m))
                \/ v(k) = "SLOW_CONSUMER" /\ connections[k].run = m.run /\ connections[k].outbound # <<>>
             /\ Pushed(connections[k], m).handle = connections[k].handle
             /\ Pushed(connections[k], m).client = connections[k].client
             /\ Pushed(connections[k], m).run = connections[k].run
  <2> DEFINE c == connections[k]
  <2>1. IsConnection(c)
    BY <1>3
  <2> HIDE DEF c
  <2>2. /\ enqueueCapacity(c, m) = "FITS" \/ (enqueueCapacity(c, m) = "SLOW_CONSUMER" /\ c.outbound # <<>>)
        /\ Pushed(c, m).handle = c.handle /\ Pushed(c, m).client = c.client /\ Pushed(c, m).run = c.run
        /\ enqueueCapacity(c, m) = "FITS" => IsConnection(Pushed(c, m))
    BY <2>1, OfferIsSound
  <2> QED BY <2>2 DEF c
<1>5. \A k \in 1..n : ~stopped(k)
  <2>1. ASSUME NEW k \in 1..n, NEW j \in 1..k PROVE v(j) # "INVARIANT_FAILURE"
    <3>1. j \in 1..n
      BY <1>1
    <3> HIDE DEF v
    <3> QED BY <3>1, <1>4
  <2> HIDE DEF v
  <2> QED BY <2>1
<1>6. ~stopped(n)
  <2>1. CASE n = 0
    BY <2>1
  <2>2. CASE n # 0
    <3>1. n \in 1..n
      BY <2>2, <1>1
    <3> HIDE DEF stopped
    <3> QED BY <3>1, <1>5
  <2> QED BY <2>1, <2>2
<1> DEFINE Kept(k, d) == \/ v(k) = "PASSED" /\ d = connections[k]
                         \/ v(k) = "FITS" /\ d = Pushed(connections[k], m)
<1>7. ASSUME NEW k \in 1..n
      PROVE  /\ lists[k] \in Seq(S) /\ Len(lists[k]) <= 1
             /\ Len(lists[k]) = 1 <=> v(k) # "SLOW_CONSUMER"
             /\ Len(lists[k]) = 1 => Kept(k, lists[k][1])
  <2>1. lists[k] = outcome(k) /\ ~stopped(k)
    BY <1>5
  <2>2. connections[k] \in S /\ Pushed(connections[k], m) \in S
    OBVIOUS
  <2> HIDE DEF v, stopped, S, lists
  <2>3. CASE v(k) = "PASSED"
    <3>1. lists[k] = <<connections[k]>>
      BY <2>1, <2>3
    <3> QED BY <3>1, <2>2, <2>3
  <2>4. CASE v(k) = "FITS"
    <3>1. lists[k] = <<Pushed(connections[k], m)>>
      BY <2>1, <2>4
    <3> QED BY <3>1, <2>2, <2>4
  <2>5. CASE v(k) = "SLOW_CONSUMER"
    <3>1. lists[k] = <<>>
      BY <2>1, <2>5
    <3> QED BY <3>1, <2>2, <2>5
  <2> QED BY <2>3, <2>4, <2>5, <1>4
<1>8. lists \in Seq(Seq(S)) /\ Len(lists) = n
  <2>1. \A k \in 1..n : lists[k] \in Seq(S)
    <3> HIDE DEF lists, S
    <3> QED BY <1>7
  <2>2. lists = [k \in 1..n |-> lists[k]]
    OBVIOUS
  <2> HIDE DEF lists, S
  <2> QED BY <1>1, <2>1, <2>2
<1> HIDE DEF lists, S, v, stopped
<1>9. T \in Seq(S) /\ \E g : Singles(lists, T, g)
  BY <1>7, <1>8, SinglesListed
<1>10. PICK g : Singles(lists, T, g)
  BY <1>9
<1> HIDE DEF T
<1>11. /\ g \in [1..Len(T) -> 1..n] /\ Len(T) <= n
       /\ \A p \in 1..Len(T) : Len(lists[g[p]]) = 1 /\ T[p] = lists[g[p]][1]
       /\ \A p, q \in 1..Len(T) : p < q => g[p] < g[q]
       /\ \A k \in 1..n : Len(lists[k]) = 1 => \E p \in 1..Len(T) : g[p] = k
  BY <1>8, <1>10 DEF Singles
<1>12. ASSUME NEW p \in 1..Len(T)
       PROVE  /\ g[p] \in 1..n /\ IsConnection(T[p])
              /\ T[p].handle = connections[g[p]].handle /\ T[p].client = connections[g[p]].client
              /\ T[p].run = connections[g[p]].run /\ Updated(connections[g[p]], T[p], "public", r)
  <2> DEFINE k == g[p]
             c == connections[k]
             d == T[p]
  <2>1. k \in 1..n /\ Kept(k, d)
    <3>1. k \in 1..n /\ Len(lists[k]) = 1 /\ d = lists[k][1]
      BY <1>11
    <3> HIDE DEF Kept
    <3> QED BY <3>1, <1>7
  <2> HIDE DEF k, d
  <2>2. CASE v(k) = "PASSED" /\ d = c
    <3>1. c.run # m.run /\ IsConnection(c)
      BY <2>1, <2>2, <1>3, <1>4
    <3>2. ~Owes("public", r, c)
      BY <3>1 DEF Owes
    <3> QED BY <2>1, <2>2, <3>1, <3>2 DEF Updated, d, k
  <2>3. CASE v(k) = "FITS" /\ d = Pushed(c, m)
    <3>1. /\ c.run = m.run /\ IsConnection(d)
          /\ d.handle = c.handle /\ d.client = c.client /\ d.run = c.run
      BY <2>1, <2>3, <1>4
    <3>2. Owes("public", r, c)
      BY <3>1 DEF Owes
    <3>3. Tells("public", m, r, c.client)
      BY DEF Tells
    <3>4. Updated(c, d, "public", r)
      BY <2>3, <3>2, <3>3 DEF Updated
    <3> QED BY <2>1, <3>1, <3>4 DEF d, k
  <2> QED BY <2>1, <2>2, <2>3
<1>13. Len(T) \in Nat
  BY <1>9
<1>14. ASSUME NEW p \in 1..Len(T), NEW q \in 1..Len(T), Clash(T[p], T[q]) PROVE p = q
  <2>1. Clash(connections[g[p]], connections[g[q]]) /\ g[p] \in 1..n /\ g[q] \in 1..n
    BY <1>12, <1>14 DEF Clash
  <2>2. g[p] = g[q]
    BY <2>1, <1>3
  <2>3. p < q \/ q < p \/ p = q
    BY <1>13
  <2>4. g[p] \in Int /\ g[q] \in Int
    BY <2>1, <1>1
  <2> QED BY <2>2, <2>3, <2>4, <1>11
<1>15. Sound(T)
  BY <1>9, <1>12, <1>14 DEF Sound
<1>16. ASSUME NEW k \in 1..n, connections[k].outbound = <<>>
       PROVE  \E p \in 1..Len(T) : T[p].handle = connections[k].handle
  <2>1. v(k) # "SLOW_CONSUMER"
    BY <1>4, <1>16
  <2>2. Len(lists[k]) = 1
    BY <2>1, <1>7
  <2>3. PICK p \in 1..Len(T) : g[p] = k
    BY <2>2, <1>11
  <2> QED BY <2>3, <1>12
<1>17. Delivered(connections, T, "public", r)
  BY <1>11, <1>12, <1>15, <1>16 DEF Delivered, n
<1> QED BY <1>2, <1>6, <1>17
\* The messages of a private batch: one for each client that the result concerns.
PrivateMessages(ms, r) ==
  /\ DOMAIN ms = 1..Len(ms) /\ Len(ms) \in Nat
  /\ \A k \in 1..Len(ms) : TellsPrivate(ms[k], r, ms[k].recipient) /\ Sendable(ms[k]) /\ ms[k].run = r.run
  /\ \A j, k \in 1..Len(ms) : ms[j].recipient = ms[k].recipient => j = k
  /\ \A c : (\E k \in 1..Len(ms) : ms[k].recipient = c) <=> \E i \in DOMAIN r.events : Concerns(r.events[i], c)

LEMMA PrivateBatch ==
  ASSUME NEW r, IsResult(r)
  PROVE  LET batch == projectPrivateResults(r)
         IN  /\ PrivateMessages([k \in DOMAIN batch |-> PrivateMessage(batch[k])], r)
             /\ batch[1].privateResult[1].id.run = r.run /\ batch[1].privateResult[1].id.sequence = r.sequence
<1> DEFINE plans == RecipientPlans(r)
           n == Len(plans)
           batch == projectPrivateResults(r)
           ms == [k \in DOMAIN batch |-> PrivateMessage(batch[k])]
<1>1. /\ DOMAIN plans = 1..n /\ n \in Nat /\ n >= 1
      /\ \A p, q \in DOMAIN plans : plans[p] = plans[q] => p = q
      /\ \A c : (\E p \in DOMAIN plans : plans[p] = c) <=> \E i \in DOMAIN r.events : Concerns(r.events[i], c)
  BY PlansAreRecipients
<1>2. batch = [k \in DOMAIN plans |-> RecipientResult(r, plans[k])]
  BY DEF projectPrivateResults
<1> HIDE DEF plans, batch, n
<1>3. ms = [k \in 1..n |-> PrivateMessage(RecipientResult(r, plans[k]))]
  BY <1>1, <1>2
<1>4. ASSUME NEW k \in 1..n
      PROVE  /\ TellsPrivate(ms[k], r, plans[k]) /\ Sendable(ms[k]) /\ ms[k].run = r.run /\ ms[k].recipient = plans[k]
             /\ batch[k].privateResult[1].id.run = r.run /\ batch[k].privateResult[1].id.sequence = r.sequence
  <2>1. \E i \in DOMAIN r.events : Concerns(r.events[i], plans[k])
    BY <1>1
  <2>2. ms[k] = PrivateMessage(RecipientResult(r, plans[k])) /\ batch[k] = RecipientResult(r, plans[k])
    BY <1>1, <1>2, <1>3
  <2> QED BY <2>1, <2>2, PrivateMessageTells
<1>5. DOMAIN ms = 1..n /\ Len(ms) = n
  BY <1>1, <1>3
<1> HIDE DEF ms
<1>6. PrivateMessages(ms, r)
  <2>1. \A k \in 1..n : TellsPrivate(ms[k], r, ms[k].recipient) /\ Sendable(ms[k]) /\ ms[k].run = r.run
    BY <1>4
  <2>2. \A k \in 1..n : ms[k].recipient = plans[k]
    BY <1>4
  <2>3. \A j, k \in 1..n : ms[j].recipient = ms[k].recipient => j = k
    BY <2>2, <1>1
  <2>4. \A c : (\E k \in 1..n : ms[k].recipient = c) <=> \E i \in DOMAIN r.events : Concerns(r.events[i], c)
    BY <2>2, <1>1
  <2> QED BY <2>1, <2>3, <2>4, <1>1, <1>5 DEF PrivateMessages
<1>7. 1 \in 1..n
  BY <1>1
<1> QED BY <1>4, <1>6, <1>7 DEF ms, batch

\* d is the connection c after the first n messages.
Sent(n, c, d, ms, r) ==
  \/ \E k \in 1..n : ms[k].recipient = c.client /\ r.run = c.run /\ d = Pushed(c, ms[k])
  \/ (\A k \in 1..n : ~(ms[k].recipient = c.client /\ r.run = c.run)) /\ d = c

\* The table after the first n messages.
Partly(n, old, t, ms, r) ==
  /\ Sound(t) /\ Len(t) <= Len(old)
  /\ \A i \in 1..Len(t) : \E j \in 1..Len(old) : Sent(n, old[j], t[i], ms, r)
  /\ \A j \in 1..Len(old) : old[j].outbound = <<>> => \E i \in 1..Len(t) : t[i].handle = old[j].handle

LEMMA SentKeeps ==
  ASSUME NEW c, IsConnection(c), NEW d, NEW n, NEW ms, NEW r, Sent(n, c, d, ms, r)
  PROVE  d.handle = c.handle /\ d.client = c.client /\ d.run = c.run
<1>1. CASE d = c
  BY <1>1
<1>2. CASE d # c
  <2>1. PICK m : d = Pushed(c, m)
    BY <1>2 DEF Sent
  <2> QED BY <2>1, PushedIs
<1> QED BY <1>1, <1>2

\* A message that is not for a connection leaves it alone.
LEMMA SentToAnother ==
  ASSUME NEW n \in Nat, NEW c, NEW d, NEW ms, NEW r, Sent(n, c, d, ms, r),
         ~(ms[n + 1].recipient = c.client /\ r.run = c.run)
  PROVE  Sent(n + 1, c, d, ms, r)
<1>1. \A k \in 1..(n + 1) : k \in 1..n \/ k = n + 1
  OBVIOUS
<1>2. \A k \in 1..n : k \in 1..(n + 1)
  OBVIOUS
<1> QED BY <1>1, <1>2 DEF Sent

LEMMA RouteOneKeeps ==
  ASSUME NEW old, Sound(old), NEW ms, NEW r, PrivateMessages(ms, r), NEW n \in 0..(Len(ms) - 1),
         NEW x, x.broken = FALSE, Partly(n, old, x.table, ms, r)
  PROVE  LET y == RouteOne(x, ms[n + 1]) IN y.broken = FALSE /\ Partly(n + 1, old, y.table, ms, r)
<1> DEFINE t == x.table
           m == ms[n + 1]
           i == findBinding(t, m.recipient, m.run)
           y == RouteOne(x, m)
           v == enqueueCapacity(t[i], m)
<1>1. Len(ms) \in Nat /\ n \in Nat /\ n + 1 \in 1..Len(ms) /\ \A k \in 1..n : k \in 1..Len(ms) /\ k # n + 1
  BY DEF PrivateMessages
<1>2. Sendable(m) /\ m.run = r.run
  BY <1>1 DEF PrivateMessages
<1>3. \A k \in 1..n : ms[k].recipient # m.recipient
  BY <1>1 DEF PrivateMessages
<1>4. /\ Sound(t) /\ Len(t) <= Len(old)
      /\ \A a \in 1..Len(t) : \E j \in 1..Len(old) : Sent(n, old[j], t[a], ms, r)
      /\ \A j \in 1..Len(old) : old[j].outbound = <<>> => \E a \in 1..Len(t) : t[a].handle = old[j].handle
  BY DEF Partly
<1>5. /\ Len(t) \in Nat /\ Len(old) \in Nat
      /\ \A a \in 1..Len(t) : IsConnection(t[a])
      /\ \A a, b \in 1..Len(t) : Clash(t[a], t[b]) => a = b
      /\ \A j \in 1..Len(old) : IsConnection(old[j])
      /\ \A j, k \in 1..Len(old) : Clash(old[j], old[k]) => j = k
  BY <1>4, TableIsSequence DEF Sound
<1> HIDE DEF t, m
\* An entry that the message is not for.
<1>6. ASSUME NEW a \in 1..Len(t), ~(t[a].client = m.recipient /\ t[a].run = m.run)
      PROVE  \E j \in 1..Len(old) : Sent(n + 1, old[j], t[a], ms, r)
  <2>1. PICK j \in 1..Len(old) : Sent(n, old[j], t[a], ms, r)
    BY <1>4
  <2>2. t[a].client = old[j].client /\ t[a].run = old[j].run
    BY <2>1, <1>5, SentKeeps
  <2>3. Sent(n + 1, old[j], t[a], ms, r)
    BY <2>1, <2>2, <1>1, <1>2, <1>6, SentToAnother DEF m
  <2> QED BY <2>3
<1>7. CASE i = 0
  <2>1. y = x
    BY <1>7 DEF RouteOne, t, m
  <2>2. \A a \in 1..Len(t) : ~(t[a].client = m.recipient /\ t[a].run = m.run)
    BY <1>5, <1>7, FoundBinding
  <2>3. Partly(n + 1, old, t, ms, r)
    BY <2>2, <1>4, <1>6 DEF Partly
  <2> QED BY <2>1, <2>3 DEF t, m
<1>8. CASE i # 0
  <2> DEFINE c == t[i]
             d == Pushed(c, m)
  <2>1. i \in 1..Len(t) /\ c.client = m.recipient /\ c.run = m.run
    BY <1>5, <1>8, FoundBinding
  <2>2. /\ y.broken = (v = "INVARIANT_FAILURE")
        /\ y.table = CASE v = "FITS" -> ReplaceAt(t, i, d)
                       [] v = "SLOW_CONSUMER" -> RemoveAt(t, i)
                       [] OTHER -> t
    BY <1>8 DEF RouteOne, t, m
  <2> HIDE DEF i, y
  <2>3. PICK o \in 1..Len(old) : Sent(n, old[o], c, ms, r)
    BY <2>1, <1>4
  <2>4. c.handle = old[o].handle /\ c.client = old[o].client /\ c.run = old[o].run
    BY <2>3, <1>5, SentKeeps
  <2>5. c = old[o]
    <3>1. \A k \in 1..n : ms[k].recipient # old[o].client
      BY <2>1, <2>4, <1>3
    <3> QED BY <3>1, <2>3 DEF Sent
  <2>6. \A a \in 1..Len(t) : a # i => ~(t[a].client = m.recipient /\ t[a].run = m.run)
    BY <2>1, <1>5 DEF Clash
  <2>7. /\ v = "FITS" \/ (v = "SLOW_CONSUMER" /\ c.outbound # <<>>)
        /\ d.handle = c.handle /\ d.client = c.client /\ d.run = c.run
        /\ v = "FITS" => IsConnection(d)
    <3>1. IsConnection(c)
      BY <2>1, <1>5
    <3> HIDE DEF c
    <3>2. /\ enqueueCapacity(c, m) = "FITS" \/ (enqueueCapacity(c, m) = "SLOW_CONSUMER" /\ c.outbound # <<>>)
          /\ Pushed(c, m).handle = c.handle /\ Pushed(c, m).client = c.client /\ Pushed(c, m).run = c.run
          /\ enqueueCapacity(c, m) = "FITS" => IsConnection(Pushed(c, m))
      BY <3>1, <1>2, OfferIsSound
    <3> QED BY <3>2 DEF c
  <2> HIDE DEF v
  <2>8. CASE v = "FITS"
    <3> DEFINE t2 == ReplaceAt(t, i, d)
    <3>1. IsConnection(d) /\ y.broken = FALSE /\ y.table = t2
      BY <2>2, <2>7, <2>8
    <3>2. \A j \in 1..Len(t) : j # i => ~Clash(d, t[j]) /\ ~Clash(t[j], d)
      BY <2>1, <2>7, <1>5 DEF Clash
    <3> HIDE DEF d
    <3>3. Sound(t2) /\ Len(t2) = Len(t) /\ t2[i] = d /\ \A j \in 1..Len(t) : j # i => t2[j] = t[j]
      <4>1. Sound(t) /\ i \in 1..Len(t) /\ IsConnection(d)
        BY <3>1, <2>1, <1>4
      <4> HIDE DEF t2
      <4> QED BY <4>1, <3>2, ReplacedIsSound DEF t2
    <3> HIDE DEF t2
    <3>4. Sent(n + 1, old[o], d, ms, r)
      <4>1. n + 1 \in 1..(n + 1)
        BY <1>1
      <4>2. ms[n + 1].recipient = old[o].client /\ r.run = old[o].run /\ d = Pushed(old[o], ms[n + 1])
        BY <2>1, <2>5, <1>2 DEF m, d
      <4> QED BY <4>1, <4>2 DEF Sent
    <3>5. ASSUME NEW a \in 1..Len(t2) PROVE \E j \in 1..Len(old) : Sent(n + 1, old[j], t2[a], ms, r)
      <4>1. CASE a = i
        BY <4>1, <3>3, <3>4
      <4>2. CASE a # i
        BY <4>2, <3>3, <2>6, <1>6
      <4> QED BY <4>1, <4>2
    <3>6. ASSUME NEW j \in 1..Len(old), old[j].outbound = <<>>
          PROVE  \E a \in 1..Len(t2) : t2[a].handle = old[j].handle
      <4>1. PICK a \in 1..Len(t) : t[a].handle = old[j].handle
        BY <3>6, <1>4
      <4>2. t2[a].handle = t[a].handle
        BY <3>3, <2>7
      <4> QED BY <4>1, <4>2, <3>3
    <3>7. Partly(n + 1, old, t2, ms, r)
      BY <3>3, <3>5, <3>6, <1>4 DEF Partly
    <3> QED BY <3>1, <3>7 DEF y, m
  <2>9. CASE v = "SLOW_CONSUMER"
    <3> DEFINE t2 == RemoveAt(t, i)
    <3>1. y.broken = FALSE /\ y.table = t2
      BY <2>2, <2>9
    <3>2. /\ Sound(t2) /\ Len(t2) = Len(t) - 1 /\ Len(t2) \in Nat
          /\ \A a \in 1..Len(t2) : \E k \in 1..Len(t) : k # i /\ t2[a] = t[k]
          /\ \A k \in 1..Len(t) : k # i => \E a \in 1..Len(t2) : t2[a] = t[k]
      BY <2>1, <1>4, RemovedIsSound
    <3> HIDE DEF t2
    <3>3. ASSUME NEW a \in 1..Len(t2) PROVE \E j \in 1..Len(old) : Sent(n + 1, old[j], t2[a], ms, r)
      <4>1. PICK k \in 1..Len(t) : k # i /\ t2[a] = t[k]
        BY <3>2
      <4>2. \E j \in 1..Len(old) : Sent(n + 1, old[j], t[k], ms, r)
        BY <4>1, <2>6, <1>6
      <4> QED BY <4>1, <4>2
    <3>4. ASSUME NEW j \in 1..Len(old), old[j].outbound = <<>>
          PROVE  \E a \in 1..Len(t2) : t2[a].handle = old[j].handle
      <4>1. PICK k \in 1..Len(t) : t[k].handle = old[j].handle
        BY <3>4, <1>4
      <4>2. k # i
        <5> SUFFICES ASSUME k = i PROVE FALSE
          OBVIOUS
        <5>1. Clash(old[o], old[j])
          BY <4>1, <2>4 DEF Clash
        <5>2. o = j
          BY <5>1, <1>5
        <5> QED BY <5>2, <2>5, <2>7, <2>9, <3>4
      <4>3. PICK a \in 1..Len(t2) : t2[a] = t[k]
        BY <4>2, <3>2
      <4> QED BY <4>1, <4>3
    <3>5. Len(t2) <= Len(old)
      BY <3>2, <1>4, <1>5
    <3>6. Partly(n + 1, old, t2, ms, r)
      BY <3>2, <3>3, <3>4, <3>5 DEF Partly
    <3> QED BY <3>1, <3>6 DEF y, m
  <2> QED BY <2>7, <2>8, <2>9
<1> QED BY <1>7, <1>8

\* RoutePrivate is what its loop returns.
LEMMA RoutePrivateUnfolds ==
  ASSUME NEW ms, Len(ms) \in Nat
  PROVE  \E f : /\ f[0] = [table |-> connections, broken |-> FALSE]
                /\ \A n \in 1..Len(ms) : f[n] = RouteOne(f[n - 1], ms[n])
                /\ RoutePrivate(ms) = f[Len(ms)]
<1> DEFINE l == Len(ms)
           start == [table |-> connections, broken |-> FALSE]
           E(v, n) == RouteOne(v, ms[n])
           F(a) == [n \in 0..l |-> IF n = 0 THEN start ELSE E(a[n - 1], n)]
           out == CHOOSE a : a = F(a)
           Solves(f, m) == /\ f = [n \in 0..l |-> f[n]] /\ f[0] = start
                           /\ \A n \in 1..m : f[n] = E(f[n - 1], n)
           S == {m \in 0..l : \E f : Solves(f, m)}
<1>1. RoutePrivate(ms) = out[l]
  BY DEF RoutePrivate
<1> HIDE DEF l, start, E, out
<1>2. l \in Nat
  BY DEF l
<1>3. 0 \in S
  <2> DEFINE f == [n \in 0..l |-> start]
  <2>1. f = [n \in 0..l |-> f[n]] /\ f[0] = start
    BY <1>2
  <2>2. Solves(f, 0)
    BY <2>1
  <2> HIDE DEF Solves, f
  <2> QED BY <2>2, <1>2
<1>4. ASSUME NEW m \in 0..(l - 1), m \in S PROVE m + 1 \in S
  <2>1. PICK f : Solves(f, m)
    BY <1>4
  <2>2. m \in 0..l /\ m + 1 \in 1..l /\ m + 1 \in 0..l
    BY <1>2
  <2> DEFINE w == E(f[m], m + 1)
             g == [n \in 0..l |-> IF n = m + 1 THEN w ELSE f[n]]
  <2>3. g = [n \in 0..l |-> g[n]]
    OBVIOUS
  <2>4. g[0] = start
    <3>1. 0 \in 0..l /\ 0 # m + 1
      BY <1>2
    <3> QED BY <3>1, <2>1
  <2>5. ASSUME NEW n \in 1..(m + 1) PROVE g[n] = E(g[n - 1], n)
    <3>1. n \in 0..l /\ n - 1 \in 0..l /\ n - 1 # m + 1
      BY <2>2, <1>2
    <3>2. g[n - 1] = f[n - 1]
      BY <3>1
    <3>3. CASE n = m + 1
      <4>1. g[n] = w /\ n - 1 = m
        BY <3>1, <3>3
      <4> QED BY <4>1, <3>2, <3>3
    <3>4. CASE n # m + 1
      <4>1. n \in 1..m
        BY <3>4
      <4>2. g[n] = f[n]
        BY <3>1, <3>4
      <4> QED BY <4>1, <4>2, <3>2, <2>1
    <3> QED BY <3>3, <3>4
  <2>6. Solves(g, m + 1)
    BY <2>3, <2>4, <2>5
  <2> HIDE DEF Solves, g
  <2> QED BY <2>2, <2>6
<1>5. PICK f : Solves(f, l)
  <2>1. \A n \in 0..l : n \in S
    <3> HIDE DEF S
    <3> QED BY <1>2, <1>3, <1>4, CountingUp
  <2>2. l \in S
    <3> HIDE DEF S
    <3> QED BY <2>1, <1>2
  <2> HIDE DEF Solves
  <2> QED BY <2>2
<1>6. f = F(f)
  <2>1. ASSUME NEW n \in 0..l PROVE f[n] = IF n = 0 THEN start ELSE E(f[n - 1], n)
    <3>1. n = 0 \/ n \in 1..l
      BY <1>2
    <3> QED BY <3>1, <1>5
  <2>2. f = [n \in 0..l |-> f[n]]
    BY <1>5
  <2>3. F(f) = [n \in 0..l |-> f[n]]
    BY <2>1
  <2> HIDE DEF F
  <2> QED BY <2>2, <2>3
<1>7. out = F(out)
  <2> HIDE DEF F
  <2> QED BY <1>6 DEF out
<1>8. out[0] = start /\ \A n \in 1..l : out[n] = E(out[n - 1], n)
  <2>1. 0 \in 0..l /\ \A n \in 1..l : n \in 0..l /\ n # 0
    BY <1>2
  <2> QED BY <1>7, <2>1
<1> QED BY <1>1, <1>8 DEF l, start, E

LEMMA PrivateRouting ==
  ASSUME Sound(connections), NEW r, NEW ms, PrivateMessages(ms, r)
  PROVE  RoutePrivate(ms).broken = FALSE /\ Delivered(connections, RoutePrivate(ms).table, "private", r)
<1> DEFINE l == Len(ms)
<1>1. l \in Nat
  BY DEF PrivateMessages
<1>2. PICK f : /\ f[0] = [table |-> connections, broken |-> FALSE]
               /\ \A n \in 1..l : f[n] = RouteOne(f[n - 1], ms[n])
               /\ RoutePrivate(ms) = f[l]
  BY <1>1, RoutePrivateUnfolds
<1> DEFINE S == {n \in 0..l : f[n].broken = FALSE /\ Partly(n, connections, f[n].table, ms, r)}
<1>3. 0 \in S
  <2>1. f[0].broken = FALSE /\ f[0].table = connections
    BY <1>2
  <2>2. Len(connections) \in Nat
    BY TableIsSequence
  <2>3. \A c : Sent(0, c, c, ms, r)
    BY DEF Sent
  <2>4. Partly(0, connections, connections, ms, r)
    BY <2>2, <2>3 DEF Partly
  <2> QED BY <2>1, <2>4, <1>1
<1>4. ASSUME NEW n \in 0..(l - 1), n \in S PROVE n + 1 \in S
  <2>1. n + 1 \in 1..l /\ n + 1 \in 0..l /\ (n + 1) - 1 = n
    BY <1>1
  <2>2. f[n + 1] = RouteOne(f[n], ms[n + 1])
    <3> HIDE DEF l
    <3> QED BY <2>1, <1>2
  <2>3. f[n].broken = FALSE /\ Partly(n, connections, f[n].table, ms, r)
    BY <1>4
  <2> DEFINE y == RouteOne(f[n], ms[n + 1])
  <2>4. y.broken = FALSE /\ Partly(n + 1, connections, y.table, ms, r)
    BY <2>3, RouteOneKeeps
  <2> HIDE DEF y
  <2>5. f[n + 1].broken = FALSE /\ Partly(n + 1, connections, f[n + 1].table, ms, r)
    BY <2>2, <2>4 DEF y
  <2> QED BY <2>1, <2>5
<1>5. l \in S
  <2>1. \A n \in 0..l : n \in S
    <3> HIDE DEF S, l
    <3> QED BY <1>1, <1>3, <1>4, CountingUp
  <2> HIDE DEF S
  <2> QED BY <2>1, <1>1
<1> DEFINE t == RoutePrivate(ms).table
<1>6. RoutePrivate(ms).broken = FALSE /\ Partly(l, connections, t, ms, r)
  BY <1>2, <1>5
<1> HIDE DEF t
<1>7. ASSUME NEW i \in 1..Len(t) PROVE \E j \in 1..Len(connections) : Updated(connections[j], t[i], "private", r)
  <2>1. PICK j \in 1..Len(connections) : Sent(l, connections[j], t[i], ms, r)
    BY <1>6 DEF Partly
  <2> DEFINE c == connections[j]
  <2>2. (\E k \in 1..l : ms[k].recipient = c.client) <=> \E k \in DOMAIN r.events : Concerns(r.events[k], c.client)
    BY DEF PrivateMessages
  <2>3. CASE \E k \in 1..l : ms[k].recipient = c.client /\ r.run = c.run /\ t[i] = Pushed(c, ms[k])
    <3>1. PICK k \in 1..l : ms[k].recipient = c.client /\ r.run = c.run /\ t[i] = Pushed(c, ms[k])
      BY <2>3
    <3>2. Owes("private", r, c)
      BY <3>1, <2>2 DEF Owes
    <3>3. Tells("private", ms[k], r, c.client)
      BY <3>1 DEF Tells, PrivateMessages
    <3>4. Updated(c, t[i], "private", r)
      BY <3>1, <3>2, <3>3 DEF Updated
    <3> QED BY <3>4
  <2>4. CASE (\A k \in 1..l : ~(ms[k].recipient = c.client /\ r.run = c.run)) /\ t[i] = c
    <3>1. ~Owes("private", r, c)
      BY <2>2, <2>4 DEF Owes
    <3>2. Updated(c, t[i], "private", r)
      BY <3>1, <2>4 DEF Updated
    <3> QED BY <3>2
  <2> QED BY <2>1, <2>3, <2>4 DEF Sent
<1>8. Delivered(connections, t, "private", r)
  BY <1>6, <1>7 DEF Delivered, Partly
<1> QED BY <1>6, <1>8 DEF t
-----------------------------------------------------------------------------
(* What a connection is owed and was sent.                                 *)

\* Owed, of given histories.
OwedOf(c, s, rt, rs) == {n \in (s + 1)..Len(rt) : Owes(rt[n].channel, rs[rt[n].position], c)}

\* A connection that was registered after s entries and whose socket took q.
CaughtUp(c, s, q, rt, rs) ==
  LET sent == q \o c.outbound
      owed == OwedOf(c, s, rt, rs)
  IN  /\ Len(sent) = Cardinality(owed)
      /\ \A n \in owed : Tells(rt[n].channel, sent[Rank(n, owed)], rs[rt[n].position], c.client)

\* A sequence of entries that name results.
IsHistory(rt, rs) ==
  /\ \E S : rt \in Seq(S)
  /\ Len(rt) \in Nat
  /\ \A n \in 1..Len(rt) : rt[n].position \in 1..Len(rs)

\* Later results do not matter.
LEMMA CaughtUpStays ==
  ASSUME NEW c, NEW s \in Nat, NEW q, NEW rt, NEW rs, NEW rs2, IsHistory(rt, rs), CaughtUp(c, s, q, rt, rs),
         \A n \in 1..Len(rs) : rs2[n] = rs[n]
  PROVE  CaughtUp(c, s, q, rt, rs2)
<1> DEFINE owed == OwedOf(c, s, rt, rs)
           owed2 == OwedOf(c, s, rt, rs2)
<1>1. ASSUME NEW n \in (s + 1)..Len(rt) PROVE rs2[rt[n].position] = rs[rt[n].position]
  <2>1. n \in 1..Len(rt)
    BY DEF IsHistory
  <2> QED BY <2>1 DEF IsHistory
<1>2. owed2 = owed
  BY <1>1 DEF OwedOf
<1>3. \A n \in owed : n \in (s + 1)..Len(rt)
  BY DEF OwedOf
<1> HIDE DEF owed, owed2
<1>4. Len(q \o c.outbound) = Cardinality(owed)
  BY DEF CaughtUp, owed
<1>5. ASSUME NEW n \in owed
      PROVE  Tells(rt[n].channel, (q \o c.outbound)[Rank(n, owed)], rs2[rt[n].position], c.client)
  <2>1. Tells(rt[n].channel, (q \o c.outbound)[Rank(n, owed)], rs[rt[n].position], c.client)
    BY DEF CaughtUp, owed
  <2>2. rs2[rt[n].position] = rs[rt[n].position]
    BY <1>1, <1>3
  <2> QED BY <2>1, <2>2
<1> QED BY <1>2, <1>4, <1>5 DEF CaughtUp, owed2

\* A message that moves from the queue to the socket was sent before.
LEMMA CaughtUpMoves ==
  ASSUME NEW c, NEW d, NEW s, NEW q, NEW q2, NEW rt, NEW rs, CaughtUp(c, s, q, rt, rs),
         d.client = c.client, d.run = c.run, q2 \o d.outbound = q \o c.outbound
  PROVE  CaughtUp(d, s, q2, rt, rs)
<1>1. OwedOf(d, s, rt, rs) = OwedOf(c, s, rt, rs)
  BY DEF OwedOf, Owes
<1> QED BY <1>1 DEF CaughtUp

\* A new connection is owed nothing.
LEMMA NewIsCaughtUp ==
  ASSUME NEW c, c.outbound = <<>>, NEW rt, Len(rt) \in Nat, NEW rs
  PROVE  CaughtUp(c, Len(rt), <<>>, rt, rs)
<1>1. OwedOf(c, Len(rt), rt, rs) = {}
  BY DEF OwedOf
<1>2. Len(<<>> \o <<>>) = 0
  OBVIOUS
<1> QED BY <1>1, <1>2, FS_EmptySet DEF CaughtUp

\* A routed result is the last message of those that are owed it.
LEMMA CaughtUpGrows ==
  ASSUME NEW c, IsConnection(c), NEW d, NEW s \in Nat, NEW q, IsQueue(q), NEW rt, NEW rs, IsHistory(rt, rs), s <= Len(rt),
         NEW e, CaughtUp(c, s, q, rt, rs), Updated(c, d, e.channel, rs[e.position])
  PROVE  CaughtUp(d, s, q, Append(rt, e), rs)
<1> DEFINE l == Len(rt)
           rt2 == Append(rt, e)
           owed == OwedOf(c, s, rt, rs)
           owed2 == OwedOf(d, s, rt2, rs)
           r == rs[e.position]
           sent == q \o c.outbound
           sent2 == q \o d.outbound
<1>1. l \in Nat /\ Len(rt2) = l + 1 /\ rt2[l + 1] = e /\ \A n \in 1..l : rt2[n] = rt[n]
  <2>1. PICK S : rt \in Seq(S)
    BY DEF IsHistory
  <2>2. rt \in Seq(S \cup {e}) /\ e \in S \cup {e}
    BY <2>1
  <2> QED BY <2>2, AppendProperties DEF IsHistory
<1>2. d.client = c.client /\ d.run = c.run
  BY UpdatedKeeps
<1> HIDE DEF rt2
<1>3. owed2 = owed \cup (IF Owes(e.channel, r, c) THEN {l + 1} ELSE {})
  <2>1. \A n \in (s + 1)..(l + 1) : (n \in (s + 1)..l /\ n \in 1..l) \/ n = l + 1
    BY <1>1
  <2>2. \A n \in (s + 1)..l : n \in (s + 1)..(l + 1) /\ n \in 1..l
    BY <1>1
  <2>3. l + 1 \in (s + 1)..(l + 1)
    BY <1>1
  <2>4. \A n : Owes(rt2[n].channel, rs[rt2[n].position], d) <=> Owes(rt2[n].channel, rs[rt2[n].position], c)
    BY <1>2 DEF Owes
  <2>5. \A n \in (s + 1)..l : rt2[n] = rt[n]
    BY <2>2, <1>1
  <2>6. ASSUME NEW n PROVE n \in owed2 <=> n \in owed \/ (n = l + 1 /\ Owes(e.channel, r, c))
    <3>1. n \in owed2 <=> n \in (s + 1)..(l + 1) /\ Owes(rt2[n].channel, rs[rt2[n].position], c)
      BY <2>4, <1>1 DEF OwedOf
    <3>2. n \in owed <=> n \in (s + 1)..l /\ Owes(rt[n].channel, rs[rt[n].position], c)
      BY DEF OwedOf
    <3>3. CASE n = l + 1
      <4>1. n \notin (s + 1)..l
        BY <3>3, <1>1
      <4> QED BY <3>1, <3>2, <3>3, <4>1, <2>3, <1>1
    <3>4. CASE n # l + 1
      BY <3>1, <3>2, <3>4, <2>1, <2>2, <2>5
    <3> QED BY <3>3, <3>4
  <2> HIDE DEF owed, owed2
  <2> QED BY <2>6
<1>4. \A n \in owed : n \in (s + 1)..l
  BY DEF OwedOf
<1>5. IsFiniteSet(owed) /\ Cardinality(owed) \in Nat
  <2>1. owed \in SUBSET ((s + 1)..l)
    BY <1>4
  <2>2. IsFiniteSet((s + 1)..l)
    BY <1>1, FS_Interval
  <2> HIDE DEF owed
  <2>3. IsFiniteSet(owed)
    BY <2>1, <2>2, FS_Subset
  <2> QED BY <2>3, FS_CardinalityType
<1>6. /\ Len(sent) = Cardinality(owed)
      /\ \A n \in owed : Tells(rt[n].channel, sent[Rank(n, owed)], rs[rt[n].position], c.client)
  BY DEF CaughtUp
<1> HIDE DEF owed, owed2, l
<1>7. ASSUME NEW n \in owed PROVE Rank(n, owed2) = Rank(n, owed) /\ rt2[n] = rt[n] /\ Rank(n, owed) \in 1..Len(sent)
  <2>1. n \in (s + 1)..l /\ n \in 1..l /\ ~(l + 1 <= n)
    BY <1>1, <1>4
  <2> DEFINE A == {k \in owed : k <= n}
  <2>2. {k \in owed2 : k <= n} = A
    BY <2>1, <1>3
  <2>3. A \in SUBSET owed /\ n \in A
    BY <2>1, <1>1
  <2> HIDE DEF A
  <2>4. IsFiniteSet(A) /\ Cardinality(A) <= Cardinality(owed)
    BY <2>3, <1>5, FS_Subset
  <2>5. Cardinality(A) \in Nat /\ Cardinality(A) # 0
    BY <2>3, <2>4, FS_CardinalityType, FS_EmptySet
  <2>6. Cardinality(A) \in 1..Len(sent)
    BY <2>4, <2>5, <1>5, <1>6
  <2>7. Rank(n, owed) = Cardinality(A) /\ Rank(n, owed2) = Cardinality(A)
    BY <2>2 DEF Rank, A
  <2> QED BY <2>1, <2>6, <2>7, <1>1
<1>8. CASE ~Owes(e.channel, r, c)
  <2>1. d = c /\ owed2 = owed
    BY <1>3, <1>8 DEF Updated
  <2>2. \A n \in owed2 : Tells(rt2[n].channel, sent2[Rank(n, owed2)], rs[rt2[n].position], d.client)
    BY <2>1, <1>6, <1>7
  <2> QED BY <2>1, <2>2, <1>6 DEF CaughtUp, owed2, rt2
<1>9. CASE Owes(e.channel, r, c)
  <2>1. PICK m : d = Pushed(c, m) /\ Tells(e.channel, m, r, c.client)
    BY <1>9 DEF Updated
  <2>2. d.outbound = Append(c.outbound, m)
    BY <2>1, PushedIs
  <2>3. /\ Len(sent2) = Len(sent) + 1 /\ sent2[Len(sent) + 1] = m
        /\ \A i \in 1..Len(sent) : sent2[i] = sent[i]
    <3>1. PICK S1 : q \in Seq(S1)
      BY DEF IsQueue
    <3>2. PICK S2 : c.outbound \in Seq(S2)
      BY DEF IsConnection, IsQueue
    <3> DEFINE S == (S1 \cup S2) \cup {m}
    <3>3. q \in Seq(S) /\ c.outbound \in Seq(S) /\ m \in S
      BY <3>1, <3>2
    <3> HIDE DEF S
    <3> QED BY <3>3, <2>2, EndOfPath
  <2>4. owed2 = owed \cup {l + 1} /\ l + 1 \notin owed
    BY <1>1, <1>3, <1>4, <1>9
  <2>5. IsFiniteSet(owed2) /\ Cardinality(owed2) = Cardinality(owed) + 1
    BY <2>4, <1>5, FS_AddElement
  <2>6. Rank(l + 1, owed2) = Cardinality(owed2)
    <3>1. {k \in owed2 : k <= l + 1} = owed2
      BY <2>4, <1>1, <1>4
    <3> QED BY <3>1 DEF Rank
  <2> HIDE DEF sent, sent2
  <2>7. Len(sent2) = Cardinality(owed2)
    BY <2>3, <2>5, <1>6
  <2>8. ASSUME NEW n \in owed2 PROVE Tells(rt2[n].channel, sent2[Rank(n, owed2)], rs[rt2[n].position], d.client)
    <3>1. CASE n \in owed
      <4>1. Rank(n, owed2) = Rank(n, owed) /\ rt2[n] = rt[n] /\ sent2[Rank(n, owed)] = sent[Rank(n, owed)]
        BY <3>1, <2>3, <1>7
      <4>2. Tells(rt[n].channel, sent[Rank(n, owed)], rs[rt[n].position], c.client)
        BY <3>1, <1>6
      <4> QED BY <4>1, <4>2, <1>2
    <3>2. CASE n = l + 1
      <4>1. rt2[n] = e /\ sent2[Rank(n, owed2)] = m
        BY <3>2, <2>3, <2>6, <2>7, <1>1
      <4> QED BY <4>1, <2>1, <1>2
    <3> QED BY <3>1, <3>2, <2>4
  <2> QED BY <2>7, <2>8 DEF CaughtUp, owed2, rt2, sent2
<1> QED BY <1>8, <1>9
-----------------------------------------------------------------------------
(* The results and the batches that are on their way.                      *)

\* Results are numbered within their run.
Numbered(rs) ==
  /\ \E S : rs \in Seq(S)
  /\ \A n \in 1..Len(rs) : IsResult(rs[n])
  /\ \A n \in 1..Len(rs) : rs[n].sequence = Cardinality({k \in 1..n : rs[k].run = rs[n].run})

\* Run and sequence name one result.
LEMMA NumbersAreUnique ==
  ASSUME NEW rs, Numbered(rs), Len(rs) \in Nat, NEW m \in 1..Len(rs), NEW n \in 1..Len(rs), m < n,
         rs[m].run = rs[n].run
  PROVE  rs[m].sequence # rs[n].sequence
<1> DEFINE A == {k \in 1..m : rs[k].run = rs[m].run}
           B == {k \in 1..n : rs[k].run = rs[n].run}
<1>1. m \in Nat /\ n \in Nat
  OBVIOUS
<1>2. A \subseteq B /\ n \in B /\ n \notin A
  BY <1>1
<1>3. IsFiniteSet(1..n)
  BY <1>1, FS_Interval
<1>4. IsFiniteSet(B)
  BY <1>3, FS_Subset
<1>5. Cardinality(A) # Cardinality(B)
  <2> HIDE DEF A, B
  <2> QED
    BY <1>2, <1>4, FS_Subset, FS_CardinalityType
<1>6. rs[m].sequence = Cardinality(A) /\ rs[n].sequence = Cardinality(B)
  BY DEF Numbered
<1> QED
  BY <1>5, <1>6

LEMMA PositionIs ==
  ASSUME Numbered(results), NEW n \in 1..Len(results), NEW id,
         id.run = results[n].run, id.sequence = results[n].sequence
  PROVE  Position(id) = n
<1>1. PICK S : results \in Seq(S)
  BY DEF Numbered
<1>2. Len(results) \in Nat /\ DOMAIN results = 1..Len(results)
  BY <1>1
<1>3. ASSUME NEW m \in 1..Len(results), results[m].run = id.run, results[m].sequence = id.sequence
      PROVE  m = n
  <2>1. ~(m < n) /\ ~(n < m)
    BY <1>2, <1>3, NumbersAreUnique
  <2> QED
    BY <1>2, <2>1
<1> QED
  BY <1>2, <1>3, Zenon DEF Position

\* The events of a command are a sequence of the length the matcher keeps to.
LEMMA SampleIsResult ==
  ASSUME NEW sample \in Samples
  PROVE  DOMAIN sample.events = 1..Len(sample.events) /\ Len(sample.events) \in 1..MaxEventsPerCommand
<1>1. sample \in AuthoritativeResults
  BY SampleAssumption
<1>2. PICK client \in Clients : sample \in [client: {client}, events: {list \in EventLists(client) : Len(list) \in 1..MaxEventsPerCommand}]
  BY <1>1 DEF AuthoritativeResults
<1>3. sample.events \in {list \in EventLists(client) : Len(list) \in 1..MaxEventsPerCommand}
  BY <1>2
<1>4. sample.events \in EventLists(client) /\ Len(sample.events) \in 1..MaxEventsPerCommand
  BY <1>3
<1> DEFINE S == TradeEvents(client)
           R == S \cup {OwnedEvent(client)}
<1>5. PICK trades \in BoundedSeq(S, MaxEventsPerCommand), own \in {<<>>, <<OwnedEvent(client)>>} : sample.events = trades \o own
  BY <1>4 DEF EventLists
<1>6. trades \in Seq(S)
  <2>1. PICK m \in 0..MaxEventsPerCommand : trades \in [1..m -> S]
    BY <1>5, Sizes DEF BoundedSeq, SeqOf
  <2> QED
    BY <2>1, Sizes
<1> HIDE DEF S
<1>7. trades \in Seq(R) /\ own \in Seq(R)
  <2>1. PICK o : o = OwnedEvent(client)
    OBVIOUS
  <2>2. trades \in Seq(S \cup {o})
    BY <1>6
  <2>3. own = <<>> \/ own = <<o>>
    BY <1>5, <2>1
  <2>4. <<>> \in Seq(S \cup {o}) /\ <<o>> \in Seq(S \cup {o})
    OBVIOUS
  <2> QED
    BY <2>1, <2>2, <2>3, <2>4, Zenon
<1> HIDE DEF R
<1>8. sample.events \in Seq(R)
  BY <1>5, <1>7, ConcatProperties
<1> QED
  BY <1>4, <1>8

\* The next result carries the next number.
LEMMA ResultIsNumbered ==
  ASSUME Numbered(results), NEW r, IsResult(r), r.run = run, r.sequence = CommandCount + 1
  PROVE  Numbered(Append(results, r)) /\ \A n \in 1..Len(results) : Append(results, r)[n] = results[n]
<1> DEFINE l == Len(results)
           rs == Append(results, r)
<1>1. PICK S : results \in Seq(S)
  BY DEF Numbered
<1>2. l \in Nat /\ DOMAIN results = 1..l
  BY <1>1
<1>3. /\ rs \in Seq(S \cup {r}) /\ Len(rs) = l + 1 /\ rs[l + 1] = r
      /\ \A n \in 1..l : rs[n] = results[n]
  <2>1. results \in Seq(S \cup {r})
    BY <1>1
  <2> QED
    BY <2>1, AppendProperties
<1> HIDE DEF rs
<1>4. \A n \in 1..Len(rs) : IsResult(rs[n])
  BY <1>2, <1>3 DEF Numbered
<1>5. ASSUME NEW n \in 1..l
      PROVE  rs[n].sequence = Cardinality({k \in 1..n : rs[k].run = rs[n].run})
  <2>1. \A k \in 1..n : rs[k] = results[k]
    BY <1>2, <1>3
  <2>2. {k \in 1..n : rs[k].run = rs[n].run} = {k \in 1..n : results[k].run = results[n].run}
    BY <2>1, <1>3
  <2> QED
    BY <2>2, <1>3 DEF Numbered
<1>6. rs[l + 1].sequence = Cardinality({k \in 1..(l + 1) : rs[k].run = rs[l + 1].run})
  <2> DEFINE A == {n \in DOMAIN results : results[n].run = run}
             B == {k \in 1..(l + 1) : rs[k].run = rs[l + 1].run}
  <2>1. B = A \cup {l + 1} /\ l + 1 \notin A
    <3> HIDE DEF l
    <3> QED
      BY <1>2, <1>3
  <2>2. IsFiniteSet(A)
    <3>1. IsFiniteSet(1..l)
      BY <1>2, FS_Interval
    <3> QED
      BY <1>2, <3>1, FS_Subset
  <2>3. CommandCount = Cardinality(A)
    BY DEF CommandCount
  <2> HIDE DEF A, B
  <2>4. Cardinality(B) = Cardinality(A) + 1
    BY <2>1, <2>2, FS_AddElement
  <2>5. rs[l + 1].sequence = Cardinality(B)
    BY <1>3, <2>3, <2>4
  <2> QED
    BY <2>5 DEF B
<1>7. \A n \in 1..Len(rs) : rs[n].sequence = Cardinality({k \in 1..n : rs[k].run = rs[n].run})
  <2> SUFFICES ASSUME NEW n \in 1..Len(rs) PROVE rs[n].sequence = Cardinality({k \in 1..n : rs[k].run = rs[n].run})
    OBVIOUS
  <2>1. n \in 1..l \/ n = l + 1
    <3> HIDE DEF l
    <3> QED
      BY <1>2, <1>3
  <2> QED
    BY <2>1, <1>5, <1>6
<1>8. Numbered(rs)
  BY <1>3, <1>4, <1>7 DEF Numbered
<1> QED
  BY <1>3, <1>8 DEF rs
-----------------------------------------------------------------------------
(* The inductive invariant.                                                *)

\* What the projections make of the results so far.
PublicBatches(rs) == {projectPublicTrades(rs[n]) : n \in 1..Len(rs)}
PrivateBatches(rs) == {projectPrivateResults(rs[n]) : n \in 1..Len(rs)}

\* Only projections of results wait to be handed off or routed.
BatchesInv ==
  /\ publicTrades \in Seq(PublicBatches(results) \ {<<>>})
  /\ privateResults \in Seq(PrivateBatches(results))
  /\ pendingPublicTrades \in PublicBatches(results) \cup {<<>>}
  /\ pendingPrivateResults \in PrivateBatches(results) \cup {<<>>}

TableInv ==
  /\ Sound(connections) /\ Len(connections) <= MaximumConnections /\ run \in Nat
  /\ \A i \in 1..Len(connections) : connections[i].run \in Nat /\ connections[i].run <= run

HistoryInv ==
  /\ IsHistory(routed, results)
  /\ since \in [Handles -> 0..Len(routed)]
  /\ received = [h \in Handles |-> received[h]]
  /\ \A h \in Handles : IsQueue(received[h])

SentInv ==
  \A i \in 1..Len(connections) :
    CaughtUp(connections[i], since[connections[i].handle], received[connections[i].handle], routed, results)

IInv == Numbered(results) /\ BatchesInv /\ TableInv /\ HistoryInv /\ SentInv

LEMMA InitHolds == Init => IInv
<1> SUFFICES ASSUME Init PROVE IInv
  OBVIOUS
<1>1. Len(results) = 0 /\ Len(routed) = 0 /\ Len(connections) = 0
  BY DEF Init
<1>2. Numbered(results)
  <2>1. PICK S : S = {}
    OBVIOUS
  <2>2. results \in Seq(S)
    BY DEF Init
  <2> QED
    BY <1>1, <2>2 DEF Numbered
<1>3. BatchesInv
  BY DEF Init, BatchesInv
<1>4. TableInv
  <2>1. PICK S : S = {}
    OBVIOUS
  <2>2. connections \in Seq(S)
    BY DEF Init
  <2>3. Sound(connections)
    BY <1>1, <2>2 DEF Sound
  <2> QED
    BY <1>1, <2>3, Sizes DEF Init, TableInv
<1>5. HistoryInv
  <2>1. PICK S : S = {}
    OBVIOUS
  <2>2. routed \in Seq(S)
    BY DEF Init
  <2>3. IsHistory(routed, results)
    BY <1>1, <2>2 DEF IsHistory
  <2>4. since \in [Handles -> 0..Len(routed)]
    BY <1>1 DEF Init
  <2>5. received = [h \in Handles |-> received[h]] /\ \A h \in Handles : IsQueue(received[h])
    <3>1. received = [h \in Handles |-> <<>>]
      BY DEF Init
    <3> QED
      BY <3>1, EmptyQueue, Zenon
  <2> QED
    BY <2>3, <2>4, <2>5 DEF HistoryInv
<1>6. SentInv
  BY <1>1 DEF SentInv
<1> QED
  BY <1>2, <1>3, <1>4, <1>5, <1>6 DEF IInv

-----------------------------------------------------------------------------
(* The controller's steps.                                                 *)

\* Each list goes to its queue or stays, and an empty one goes nowhere.
LEMMA HandOffKeeps ==
  ASSUME NEW P, NEW Q, publicTrades \in Seq(P \ {<<>>}), privateResults \in Seq(Q),
         NEW private \in Q \cup {<<>>}, NEW public \in P \cup {<<>>}, HandOff(private, public)
  PROVE  /\ publicTrades' \in Seq(P \ {<<>>}) /\ privateResults' \in Seq(Q)
         /\ pendingPublicTrades' \in P \cup {<<>>} /\ pendingPrivateResults' \in Q \cup {<<>>}
<1>1. \/ private # <<>> /\ privateResults' = Append(privateResults, private) /\ pendingPrivateResults' = <<>>
      \/ privateResults' = privateResults /\ pendingPrivateResults' = private
  BY Zenon DEF HandOff
<1>2. \/ public # <<>> /\ publicTrades' = Append(publicTrades, public) /\ pendingPublicTrades' = <<>>
      \/ publicTrades' = publicTrades /\ pendingPublicTrades' = public
  BY Zenon DEF HandOff
<1>3. private # <<>> => Append(privateResults, private) \in Seq(Q)
  BY AppendProperties
<1>4. public # <<>> => Append(publicTrades, public) \in Seq(P \ {<<>>})
  <2>1. PICK R : R = P \ {<<>>}
    OBVIOUS
  <2>2. publicTrades \in Seq(R) /\ (public # <<>> => public \in R)
    BY <2>1, Zenon
  <2> QED
    BY <2>1, <2>2, AppendProperties
<1> QED
  BY <1>1, <1>2, <1>3, <1>4, Zenon

\* A step that leaves the results and the gateway alone.
LEMMA QuietKeeps ==
  ASSUME IInv, UNCHANGED <<results, connections, routed, since, received>>, BatchesInv', run' \in Nat, run <= run'
  PROVE  IInv'
<1>1. Numbered(results)' /\ HistoryInv' /\ SentInv'
  BY DEF IInv, HistoryInv, SentInv
<1>2. TableInv'
  BY DEF IInv, TableInv
<1> QED
  BY <1>1, <1>2 DEF IInv

LEMMA RetryKeeps == ASSUME IInv, RetryHandoff PROVE IInv'
<1>1. UNCHANGED <<results, connections, routed, since, received>> /\ run' = run
  BY DEF RetryHandoff, controllerVars, historyVars, socketVars
<1> DEFINE P == PublicBatches(results)
           Q == PrivateBatches(results)
<1>2. /\ publicTrades \in Seq(P \ {<<>>}) /\ privateResults \in Seq(Q)
      /\ pendingPublicTrades \in P \cup {<<>>} /\ pendingPrivateResults \in Q \cup {<<>>}
  BY DEF IInv, BatchesInv
<1>3. HandOff(pendingPrivateResults, pendingPublicTrades)
  BY DEF RetryHandoff
<1>4. /\ publicTrades' \in Seq(P \ {<<>>}) /\ privateResults' \in Seq(Q)
      /\ pendingPublicTrades' \in P \cup {<<>>} /\ pendingPrivateResults' \in Q \cup {<<>>}
  <2> HIDE DEF P, Q
  <2> QED
    BY <1>2, <1>3, HandOffKeeps
<1>5. BatchesInv'
  BY <1>1, <1>4 DEF BatchesInv
<1>6. run \in Nat /\ run <= run
  BY DEF IInv, TableInv
<1> QED
  BY <1>1, <1>5, <1>6, QuietKeeps

LEMMA LifecycleKeeps ==
  ASSUME IInv, FailStop \/ RecoverFailed \/ StopRun \/ StartRun
  PROVE  IInv'
<1>1. /\ UNCHANGED <<results, connections, routed, since, received>>
      /\ UNCHANGED <<publicTrades, privateResults>>
      /\ pendingPublicTrades' \in {pendingPublicTrades, <<>>} /\ pendingPrivateResults' \in {pendingPrivateResults, <<>>}
      /\ run' = run \/ run' = run + 1
  BY DEF FailStop, RecoverFailed, StopRun, StartRun, controllerVars, handoffVars, historyVars, socketVars
<1>2. BatchesInv'
  <2> DEFINE P == PublicBatches(results)
             Q == PrivateBatches(results)
  <2>1. /\ publicTrades \in Seq(P \ {<<>>}) /\ privateResults \in Seq(Q)
        /\ pendingPublicTrades \in P \cup {<<>>} /\ pendingPrivateResults \in Q \cup {<<>>}
    BY DEF IInv, BatchesInv
  <2>2. P' = P /\ Q' = Q
    BY <1>1
  <2> HIDE DEF P, Q
  <2>3. /\ publicTrades' \in Seq(P \ {<<>>}) /\ privateResults' \in Seq(Q)
        /\ pendingPublicTrades' \in P \cup {<<>>} /\ pendingPrivateResults' \in Q \cup {<<>>}
    BY <1>1, <2>1, Zenon
  <2> QED
    BY <2>2, <2>3, Zenon DEF BatchesInv, P, Q
<1>3. run \in Nat
  BY DEF IInv, TableInv
<1>4. run' \in Nat /\ run <= run'
  BY <1>1, <1>3
<1> QED
  BY <1>1, <1>2, <1>4, QuietKeeps

\* A new result is projected; the batches of the earlier ones stay what they were.
LEMMA DispatchKeeps ==
  ASSUME IInv, NEW sample \in Samples, DispatchResult(sample)
  PROVE  IInv'
<1> DEFINE r == [run |-> run, sequence |-> CommandCount + 1, client |-> sample.client, events |-> sample.events]
           l == Len(results)
           P == PublicBatches(results)
           Q == PrivateBatches(results)
           P2 == PublicBatches(results')
           Q2 == PrivateBatches(results')
<1>1. /\ results' = Append(results, r)
      /\ HandOff(projectPrivateResults(r), projectPublicTrades(r))
      /\ UNCHANGED <<run, connections, routed, since, received>>
  BY DEF DispatchResult, controllerVars, socketVars
<1>2. r.run = run /\ r.sequence = CommandCount + 1 /\ r.events = sample.events
  OBVIOUS
<1>3. IsResult(r)
  BY <1>2, SampleIsResult DEF IsResult
<1> HIDE DEF r
<1>4. Numbered(Append(results, r)) /\ \A n \in 1..Len(results) : Append(results, r)[n] = results[n]
  <2>1. Numbered(results)
    BY DEF IInv
  <2> QED
    BY <2>1, <1>2, <1>3, ResultIsNumbered
<1>5. PICK S : results \in Seq(S)
  BY DEF IInv, Numbered
<1>6. l \in Nat /\ Len(results') = l + 1 /\ results'[l + 1] = r /\ \A n \in 1..l : results'[n] = results[n]
  <2>1. results \in Seq(S \cup {r}) /\ r \in S \cup {r}
    BY <1>5
  <2> QED
    BY <1>1, <1>4, <2>1, AppendProperties
<1> HIDE DEF l
<1>7. \A n \in 1..l : n \in 1..(l + 1)
  BY <1>6
<1>8. l + 1 \in 1..(l + 1)
  BY <1>6
<1>9. P \subseteq P2 /\ projectPublicTrades(r) \in P2
  <2>1. P = {projectPublicTrades(results[n]) : n \in 1..l} /\ P2 = {projectPublicTrades(results'[n]) : n \in 1..(l + 1)}
    BY <1>6 DEF PublicBatches, l
  <2> HIDE DEF P, P2
  <2> QED
    BY <2>1, <1>6, <1>7, <1>8, Zenon
<1>10. Q \subseteq Q2 /\ projectPrivateResults(r) \in Q2
  <2>1. Q = {projectPrivateResults(results[n]) : n \in 1..l} /\ Q2 = {projectPrivateResults(results'[n]) : n \in 1..(l + 1)}
    BY <1>6 DEF PrivateBatches, l
  <2> HIDE DEF Q, Q2
  <2> QED
    BY <2>1, <1>6, <1>7, <1>8, Zenon
<1>11. publicTrades \in Seq(P \ {<<>>}) /\ privateResults \in Seq(Q)
  BY DEF IInv, BatchesInv
<1>12. BatchesInv'
  <2> HIDE DEF P, Q, P2, Q2
  <2>1. publicTrades \in Seq(P2 \ {<<>>}) /\ privateResults \in Seq(Q2)
    BY <1>9, <1>10, <1>11
  <2>2. /\ publicTrades' \in Seq(P2 \ {<<>>}) /\ privateResults' \in Seq(Q2)
        /\ pendingPublicTrades' \in P2 \cup {<<>>} /\ pendingPrivateResults' \in Q2 \cup {<<>>}
    <3>1. projectPublicTrades(r) \in P2 \cup {<<>>} /\ projectPrivateResults(r) \in Q2 \cup {<<>>}
      BY <1>9, <1>10
    <3>2. HandOff(projectPrivateResults(r), projectPublicTrades(r))
      BY <1>1
    <3> QED
      BY <2>1, <3>1, <3>2, HandOffKeeps
  <2> QED
    BY <2>2 DEF BatchesInv, P2, Q2
<1>13. HistoryInv'
  <2>1. IsHistory(routed, results')
    BY <1>6, <1>7 DEF IInv, HistoryInv, IsHistory, l
  <2> QED
    BY <2>1, <1>1 DEF IInv, HistoryInv
<1>14. SentInv'
  <2> SUFFICES ASSUME NEW i \in 1..Len(connections)
               PROVE  CaughtUp(connections[i], since[connections[i].handle], received[connections[i].handle], routed, results')
    BY <1>1 DEF SentInv
  <2> DEFINE h == connections[i].handle
  <2>1. h \in Handles
    BY DEF IInv, TableInv, Sound, IsConnection
  <2>2. since[h] \in Nat
    BY <2>1 DEF IInv, HistoryInv, IsHistory
  <2>3. CaughtUp(connections[i], since[h], received[h], routed, results)
    BY DEF IInv, SentInv
  <2>4. IsHistory(routed, results)
    BY DEF IInv, HistoryInv
  <2>5. \A n \in 1..Len(results) : results'[n] = results[n]
    BY <1>6 DEF l
  <2> HIDE DEF h
  <2>6. CaughtUp(connections[i], since[h], received[h], routed, results')
    BY <2>2, <2>3, <2>4, <2>5, CaughtUpStays
  <2> QED
    BY <2>6 DEF h
<1>15. TableInv'
  BY <1>1 DEF IInv, TableInv
<1> QED
  BY <1>1, <1>4, <1>12, <1>13, <1>14, <1>15 DEF IInv
-----------------------------------------------------------------------------
(* The gateway's steps.                                                    *)

\* Only connections that are not in the new table are forgotten.
LEMMA ForgetKeeps ==
  ASSUME Len(connections') \in Nat, NEW f, NEW none
  PROVE  LET g == Forget(f, none)
         IN  /\ g = [h \in Handles |-> g[h]]
             /\ \A h \in Handles : g[h] = none \/ g[h] = f[h]
             /\ \A i \in 1..Len(connections') :
                  connections'[i].handle \in Handles => g[connections'[i].handle] = f[connections'[i].handle]
<1> DEFINE t == connections'
           g == Forget(f, none)
<1>1. g = [h \in Handles |-> IF findConnection(t, h) = 0 THEN none ELSE f[h]]
  BY DEF Forget
<1>2. ASSUME NEW i \in 1..Len(t) PROVE findConnection(t, t[i].handle) # 0
  <2>1. PICK h : h = t[i].handle
    OBVIOUS
  <2>2. \/ findConnection(t, h) = 0 /\ \A j \in 1..Len(t) : t[j].handle # h
        \/ findConnection(t, h) # 0 /\ findConnection(t, h) \in 1..Len(t) /\ t[findConnection(t, h)].handle = h
    <3> HIDE DEF t
    <3>1. Len(t) \in Nat
      BY DEF t
    <3> QED
      BY <3>1, FoundConnection
  <2> QED
    BY <2>1, <2>2
<1> HIDE DEF g, t
<1>3. /\ g = [h \in Handles |-> g[h]]
      /\ \A h \in Handles : g[h] = none \/ g[h] = f[h]
      /\ \A i \in 1..Len(t) : t[i].handle \in Handles => g[t[i].handle] = f[t[i].handle]
  BY <1>1, <1>2, Zenon
<1> QED
  BY <1>3 DEF g, t

LEMMA SocketsKeep ==
  ASSUME Len(connections') \in Nat, NEW l \in Nat, NEW f \in [Handles -> 0..l], NEW g, \A h \in Handles : IsQueue(g[h])
  PROVE  /\ Forget(f, 0) \in [Handles -> 0..l]
         /\ Forget(g, <<>>) = [h \in Handles |-> Forget(g, <<>>)[h]]
         /\ \A h \in Handles : IsQueue(Forget(g, <<>>)[h])
<1> DEFINE f2 == Forget(f, 0)
           g2 == Forget(g, <<>>)
<1>1. f2 = [h \in Handles |-> f2[h]] /\ \A h \in Handles : f2[h] = 0 \/ f2[h] = f[h]
  BY ForgetKeeps
<1>2. g2 = [h \in Handles |-> g2[h]] /\ \A h \in Handles : g2[h] = <<>> \/ g2[h] = g[h]
  BY ForgetKeeps
<1> HIDE DEF f2, g2
<1>3. f2 \in [Handles -> 0..l]
  <2>1. \A h \in Handles : f2[h] \in 0..l
    BY <1>1
  <2> QED
    BY <1>1, <2>1
<1>4. \A h \in Handles : IsQueue(g2[h])
  BY <1>2, EmptyQueue, Zenon
<1> QED
  BY <1>2, <1>3, <1>4 DEF f2, g2

\* A step that leaves the results and the controller alone.
LEMMA GatewayKeeps ==
  ASSUME IInv, UNCHANGED <<run, results>>, UNCHANGED handoffVars, TableInv', HistoryInv', SentInv'
  PROVE  IInv'
<1>1. BatchesInv'
  BY DEF IInv, BatchesInv, handoffVars
<1> QED
  BY <1>1 DEF IInv

\* A connection that leaves.
LEMMA DisconnectKeeps == ASSUME IInv, NEW handle \in Handles, disconnect(handle) PROVE IInv'
<1> DEFINE i == findConnection(connections, handle)
           t == RemoveAt(connections, i)
<1>1. /\ i # 0 /\ connections' = t /\ since' = Forget(since, 0) /\ received' = Forget(received, <<>>)
      /\ UNCHANGED <<run, results, routed>> /\ UNCHANGED handoffVars
  BY DEF disconnect, controllerVars, historyVars
<1>2. Sound(connections) /\ Len(connections) <= MaximumConnections /\ Len(connections) \in Nat
  BY TableIsSequence DEF IInv, TableInv
<1>3. i \in 1..Len(connections)
  BY <1>1, <1>2, FoundConnection
<1>4. /\ Sound(t) /\ Len(t) = Len(connections) - 1 /\ Len(t) \in Nat
      /\ \A j \in 1..Len(t) : \E k \in 1..Len(connections) : k # i /\ t[j] = connections[k]
  <2> HIDE DEF i
  <2> QED
    BY <1>2, <1>3, RemovedIsSound
<1> HIDE DEF i, t
<1>5. TableInv'
  <2>1. \A j \in 1..Len(t) : t[j].run \in Nat /\ t[j].run <= run
    BY <1>4 DEF IInv, TableInv
  <2>2. Len(t) <= MaximumConnections
    BY <1>2, <1>4, Sizes
  <2> QED
    BY <1>1, <1>4, <2>1, <2>2 DEF IInv, TableInv
<1>6. Len(connections') \in Nat
  BY <1>1, <1>4
<1>7. /\ IsHistory(routed, results) /\ Len(routed) \in Nat /\ since \in [Handles -> 0..Len(routed)]
      /\ \A h \in Handles : IsQueue(received[h])
  BY DEF IInv, HistoryInv, IsHistory
<1>8. HistoryInv'
  <2>1. /\ Forget(since, 0) \in [Handles -> 0..Len(routed)]
        /\ Forget(received, <<>>) = [h \in Handles |-> Forget(received, <<>>)[h]]
        /\ \A h \in Handles : IsQueue(Forget(received, <<>>)[h])
    <3>1. PICK l : l = Len(routed)
      OBVIOUS
    <3>2. l \in Nat /\ since \in [Handles -> 0..l]
      BY <1>7, <3>1
    <3>3. /\ Forget(since, 0) \in [Handles -> 0..l]
          /\ Forget(received, <<>>) = [h \in Handles |-> Forget(received, <<>>)[h]]
          /\ \A h \in Handles : IsQueue(Forget(received, <<>>)[h])
      BY <1>6, <1>7, <3>2, SocketsKeep
    <3> QED
      BY <3>1, <3>3, Zenon
  <2> QED
    BY <1>1, <1>7, <2>1 DEF HistoryInv
<1>9. SentInv'
  <2> SUFFICES ASSUME NEW j \in 1..Len(t)
               PROVE  CaughtUp(t[j], since'[t[j].handle], received'[t[j].handle], routed, results)
    BY <1>1 DEF SentInv
  <2>1. t[j].handle \in Handles
    BY <1>4 DEF Sound, IsConnection
  <2>2. since'[t[j].handle] = since[t[j].handle] /\ received'[t[j].handle] = received[t[j].handle]
    <3>1. \A k \in 1..Len(connections') :
            connections'[k].handle \in Handles => Forget(since, 0)[connections'[k].handle] = since[connections'[k].handle]
      BY <1>6, ForgetKeeps
    <3>2. \A k \in 1..Len(connections') :
            connections'[k].handle \in Handles => Forget(received, <<>>)[connections'[k].handle] = received[connections'[k].handle]
      BY <1>6, ForgetKeeps
    <3> QED
      BY <1>1, <2>1, <3>1, <3>2, Zenon
  <2>3. PICK k \in 1..Len(connections) : t[j] = connections[k]
    BY <1>4
  <2>4. CaughtUp(connections[k], since[connections[k].handle], received[connections[k].handle], routed, results)
    BY DEF IInv, SentInv
  <2> QED
    BY <2>2, <2>3, <2>4
<1> QED
  BY <1>1, <1>5, <1>8, <1>9, GatewayKeeps

\* The socket takes the first message of the queue.
LEMMA PopIsSound ==
  ASSUME NEW c, IsConnection(c), c.outbound # <<>>, NEW q, IsQueue(q)
  PROVE  LET d == Popped(c)
             q2 == Append(q, Head(c.outbound))
         IN  /\ IsConnection(d) /\ d.handle = c.handle /\ d.client = c.client /\ d.run = c.run
             /\ IsQueue(q2) /\ q2 \o d.outbound = q \o c.outbound
<1> DEFINE d == Popped(c)
           m == Head(c.outbound)
           b == MessageBytes(m)
           q2 == Append(q, m)
<1>1. d = [handle |-> c.handle, client |-> c.client, run |-> c.run, outbound |-> Tail(c.outbound), queuedBytes |-> c.queuedBytes - b]
  BY PoppedIs
<1>2. /\ d.handle = c.handle /\ d.client = c.client /\ d.run = c.run
      /\ d.outbound = Tail(c.outbound) /\ d.queuedBytes = c.queuedBytes - b
  BY <1>1
<1>3. /\ c.handle \in Handles /\ IsQueue(c.outbound) /\ c.queuedBytes = QueuedBytes(c.outbound)
      /\ c.queuedBytes \in Nat /\ c.queuedBytes <= OutboundCapacity
  BY DEF IsConnection
<1>4. /\ IsQueue(Tail(c.outbound)) /\ b \in Nat /\ QueuedBytes(Tail(c.outbound)) \in Nat
      /\ QueuedBytes(c.outbound) = b + QueuedBytes(Tail(c.outbound))
  BY <1>3, QueueGives
<1> HIDE DEF b, d
<1>5. d.queuedBytes = QueuedBytes(d.outbound) /\ d.queuedBytes \in Nat /\ d.queuedBytes <= OutboundCapacity
  BY <1>2, <1>3, <1>4, Capacities
<1>6. d = [handle |-> d.handle, client |-> d.client, run |-> d.run, outbound |-> d.outbound, queuedBytes |-> d.queuedBytes]
  BY <1>1, <1>2
<1>7. IsConnection(d)
  BY <1>2, <1>3, <1>4, <1>5, <1>6 DEF IsConnection
<1>8. IsQueue(q2)
  BY <1>4, QueueTakes DEF b
<1>9. q2 \o d.outbound = q \o c.outbound
  <2>1. PICK S1 : q \in Seq(S1)
    BY DEF IsQueue
  <2>2. PICK S2 : c.outbound \in Seq(S2)
    BY <1>3 DEF IsQueue
  <2> DEFINE S == S1 \cup S2
  <2>3. q \in Seq(S) /\ c.outbound \in Seq(S)
    BY <2>1, <2>2
  <2> HIDE DEF S
  <2>4. PICK o : o = c.outbound
    OBVIOUS
  <2>5. o \in Seq(S) /\ o # <<>>
    BY <2>3, <2>4
  <2>6. (q \o <<Head(o)>>) \o Tail(o) = (q \o <<>>) \o o /\ <<Head(o)>> \in Seq(S) /\ Head(o) \in S
    BY <2>3, <2>5, HeadMoves
  <2>7. Append(q, Head(o)) = q \o <<Head(o)>>
    BY <2>3, <2>6
  <2>8. q \o <<>> = q
    BY <2>3
  <2> QED
    BY <1>2, <2>4, <2>6, <2>7, <2>8
<1> QED
  BY <1>2, <1>7, <1>8, <1>9 DEF d

LEMMA PopKeeps == ASSUME IInv, NEW handle \in Handles, tryPopOutbound(handle) PROVE IInv'
<1> DEFINE i == findConnection(connections, handle)
           c == connections[i]
           d == Popped(c)
           q2 == Append(received[handle], Head(c.outbound))
           t == ReplaceAt(connections, i, d)
<1>1. /\ i # 0 /\ c.outbound # <<>> /\ connections' = t /\ received' = [received EXCEPT ![handle] = q2]
      /\ UNCHANGED <<run, results, routed, since>> /\ UNCHANGED handoffVars
  BY DEF tryPopOutbound, controllerVars, historyVars
<1>2. Sound(connections) /\ Len(connections) <= MaximumConnections /\ Len(connections) \in Nat
  BY TableIsSequence DEF IInv, TableInv
<1>3. i \in 1..Len(connections) /\ c.handle = handle
  BY <1>1, <1>2, FoundConnection
<1>4. /\ IsHistory(routed, results) /\ since \in [Handles -> 0..Len(routed)]
      /\ received = [h \in Handles |-> received[h]] /\ \A h \in Handles : IsQueue(received[h])
  BY DEF IInv, HistoryInv
<1>5. IsConnection(c) /\ \A j \in 1..Len(connections) : Clash(c, connections[j]) \/ Clash(connections[j], c) => j = i
  BY <1>2, <1>3 DEF Sound
<1> HIDE DEF i
<1>6. /\ IsConnection(d) /\ d.handle = c.handle /\ d.client = c.client /\ d.run = c.run
      /\ IsQueue(q2) /\ q2 \o d.outbound = received[handle] \o c.outbound
  <2> HIDE DEF c
  <2> QED
    BY <1>1, <1>4, <1>5, PopIsSound
<1> HIDE DEF d, q2
<1>7. Sound(t) /\ Len(t) = Len(connections) /\ t[i] = d /\ \A j \in 1..Len(connections) : j # i => t[j] = connections[j]
  <2>1. \A j \in 1..Len(connections) : j # i => ~Clash(d, connections[j]) /\ ~Clash(connections[j], d)
    BY <1>5, <1>6 DEF Clash
  <2> QED
    BY <2>1, <1>2, <1>3, <1>6, ReplacedIsSound
<1> HIDE DEF t
<1>8. TableInv'
  <2>1. \A j \in 1..Len(t) : t[j].run = connections[j].run
    BY <1>6, <1>7
  <2> HIDE DEF c
  <2> QED
    BY <2>1, <1>1, <1>2, <1>7 DEF IInv, TableInv
<1>9. HistoryInv'
  <2>1. received' = [h \in Handles |-> received'[h]] /\ \A h \in Handles : received'[h] = q2 \/ received'[h] = received[h]
    BY <1>1, <1>4, Zenon
  <2>2. \A h \in Handles : IsQueue(received'[h])
    BY <2>1, <1>4, <1>6, Zenon
  <2> QED
    BY <2>1, <2>2, <1>1, <1>4 DEF HistoryInv
<1>10. SentInv'
  <2> SUFFICES ASSUME NEW j \in 1..Len(t)
               PROVE  CaughtUp(t[j], since[t[j].handle], received'[t[j].handle], routed, results)
    BY <1>1 DEF SentInv
  <2>1. j \in 1..Len(connections)
    BY <1>7
  <2>2. CaughtUp(connections[j], since[connections[j].handle], received[connections[j].handle], routed, results)
    BY <2>1 DEF IInv, SentInv
  <2>3. CASE j = i
    <3>1. CaughtUp(c, since[handle], received[handle], routed, results)
      BY <2>2, <2>3, <1>3
    <3>2. CaughtUp(d, since[handle], q2, routed, results)
      <4> HIDE DEF c
      <4> QED
        BY <3>1, <1>6, CaughtUpMoves
    <3>3. received'[handle] = q2
      BY <1>1, <1>4, Zenon
    <3> QED
      BY <2>3, <3>2, <3>3, <1>3, <1>6, <1>7
  <2>4. CASE j # i
    <3>1. t[j] = connections[j]
      BY <2>1, <2>4, <1>7
    <3>2. connections[j].handle # handle
      BY <2>1, <2>4, <1>3, <1>5 DEF Clash
    <3>3. received'[connections[j].handle] = received[connections[j].handle]
      <4>1. connections[j].handle \in Handles
        BY <2>1, <1>2 DEF Sound, IsConnection
      <4> QED
        BY <4>1, <3>2, <1>1, <1>4, Zenon
    <3> QED
      BY <2>2, <3>1, <3>3
  <2> QED
    BY <2>3, <2>4
<1> QED
  BY <1>1, <1>8, <1>9, <1>10, GatewayKeeps
\* A new connection stands in the place of its client's earlier one, or at the end.
LEMMA NewTable ==
  ASSUME IInv, NEW handle \in Handles, NEW client, registerConnection(handle, client)
  PROVE  /\ Sound(connections') /\ Len(connections') <= MaximumConnections
         /\ \A j \in 1..Len(connections') :
              \/ connections'[j] = NewConnection(handle, client)
              \/ \E k \in 1..Len(connections) : connections'[j] = connections[k] /\ connections[k].handle # handle
<1> DEFINE i == findBinding(connections, client, run)
           d == NewConnection(handle, client)
           n == Len(connections)
<1>1. /\ findConnection(connections, handle) = 0 /\ (i # 0 \/ n < MaximumConnections)
      /\ connections' = IF i # 0 THEN ReplaceAt(connections, i, d) ELSE Append(connections, d)
  BY DEF registerConnection
<1>2. Sound(connections) /\ n <= MaximumConnections /\ n \in Nat
  BY TableIsSequence DEF IInv, TableInv
<1>3. \A j \in 1..n : connections[j].handle # handle
  BY <1>1, <1>2, FoundConnection
<1>4. \/ i = 0 /\ \A j \in 1..n : ~(connections[j].client = client /\ connections[j].run = run)
      \/ i # 0 /\ i \in 1..n /\ connections[i].client = client /\ connections[i].run = run
  BY <1>2, FoundBinding
<1>5. d = [handle |-> handle, client |-> client, run |-> run, outbound |-> <<>>, queuedBytes |-> 0]
  BY DEF NewConnection
<1> HIDE DEF d, i
<1>6. d.handle = handle /\ d.client = client /\ d.run = run /\ d.outbound = <<>> /\ d.queuedBytes = 0
  BY <1>5
<1>7. IsConnection(d)
  <2>1. d = [handle |-> d.handle, client |-> d.client, run |-> d.run, outbound |-> d.outbound, queuedBytes |-> d.queuedBytes]
    BY <1>5, <1>6
  <2>2. 0 \in Nat /\ 0 <= OutboundCapacity
    BY Capacities
  <2> QED
    BY <1>6, <2>1, <2>2, EmptyQueue DEF IsConnection
<1>8. \A j, k \in 1..n : Clash(connections[j], connections[k]) => j = k
  BY <1>2 DEF Sound
<1>9. CASE i # 0
  <2> DEFINE t == ReplaceAt(connections, i, d)
  <2>1. \A j \in 1..n : j # i => ~Clash(d, connections[j]) /\ ~Clash(connections[j], d)
    BY <1>3, <1>4, <1>6, <1>8, <1>9 DEF Clash
  <2>2. Sound(t) /\ Len(t) = n /\ t[i] = d /\ \A j \in 1..n : j # i => t[j] = connections[j]
    BY <2>1, <1>2, <1>4, <1>7, <1>9, ReplacedIsSound
  <2>3. connections' = t
    BY <1>1, <1>9
  <2> HIDE DEF t, n
  <2>4. \A j \in 1..Len(t) : t[j] = d \/ \E k \in 1..n : t[j] = connections[k] /\ connections[k].handle # handle
    BY <2>2, <1>3, Zenon
  <2> QED
    BY <2>2, <2>3, <2>4, <1>2 DEF d, n
<1>10. CASE i = 0
  <2> DEFINE t == Append(connections, d)
  <2>1. \A j \in 1..n : ~Clash(d, connections[j]) /\ ~Clash(connections[j], d)
    BY <1>3, <1>4, <1>6, <1>10 DEF Clash
  <2>2. Sound(t) /\ Len(t) = n + 1 /\ t[n + 1] = d /\ \A j \in 1..n : t[j] = connections[j]
    BY <2>1, <1>2, <1>7, AppendedIsSound
  <2>3. connections' = t
    BY <1>1, <1>10
  <2> HIDE DEF t, n
  <2>4. \A j \in 1..(n + 1) : j \in 1..n \/ j = n + 1
    BY <1>2
  <2>5. \A j \in 1..Len(t) : t[j] = d \/ \E k \in 1..n : t[j] = connections[k] /\ connections[k].handle # handle
    BY <2>2, <2>4, <1>3, Zenon
  <2>6. Len(t) <= MaximumConnections
    BY <2>2, <1>1, <1>2, <1>10, Sizes
  <2> QED
    BY <2>2, <2>3, <2>5, <2>6 DEF d, n
<1> QED
  BY <1>9, <1>10

LEMMA RegisterKeeps ==
  ASSUME IInv, NEW handle \in Handles, NEW client, registerConnection(handle, client)
  PROVE  IInv'
<1> DEFINE d == NewConnection(handle, client)
           t == connections'
           f == [since EXCEPT ![handle] = Len(routed)]
           g == [received EXCEPT ![handle] = <<>>]
<1>1. /\ since' = Forget(f, 0) /\ received' = Forget(g, <<>>)
      /\ UNCHANGED <<run, results, routed>> /\ UNCHANGED handoffVars
  BY DEF registerConnection, controllerVars, historyVars
<1>2. /\ Sound(t) /\ Len(t) <= MaximumConnections
      /\ \A j \in 1..Len(t) : \/ t[j] = d
                              \/ \E k \in 1..Len(connections) : t[j] = connections[k] /\ connections[k].handle # handle
  BY NewTable
<1>3. Len(t) \in Nat
  BY <1>2, TableIsSequence
<1>4. d.handle = handle /\ d.run = run /\ d.outbound = <<>>
  BY DEF NewConnection
<1>5. /\ run \in Nat /\ \A k \in 1..Len(connections) : connections[k].run \in Nat /\ connections[k].run <= run
  BY DEF IInv, TableInv
<1> HIDE DEF d, t
<1>6. \A j \in 1..Len(t) : t[j].run \in Nat /\ t[j].run <= run
  BY <1>2, <1>4, <1>5
<1>7. TableInv'
  BY <1>1, <1>2, <1>5, <1>6 DEF TableInv, t
<1>8. /\ IsHistory(routed, results) /\ Len(routed) \in Nat /\ since \in [Handles -> 0..Len(routed)]
      /\ received = [h \in Handles |-> received[h]] /\ \A h \in Handles : IsQueue(received[h])
  BY DEF IInv, HistoryInv, IsHistory
<1>9. f \in [Handles -> 0..Len(routed)] /\ f[handle] = Len(routed) /\ \A h \in Handles : h # handle => f[h] = since[h]
  BY <1>8
<1>10. g[handle] = <<>> /\ \A h \in Handles : h # handle => g[h] = received[h]
  BY <1>8, Zenon
<1>11. \A h \in Handles : IsQueue(g[h])
  BY <1>8, <1>10, EmptyQueue, Zenon
<1> HIDE DEF f, g
<1>12. HistoryInv'
  <2>1. PICK l : l = Len(routed)
    OBVIOUS
  <2>2. l \in Nat /\ f \in [Handles -> 0..l]
    BY <1>8, <1>9, <2>1
  <2>3. Len(connections') \in Nat
    BY <1>3 DEF t
  <2>4. /\ Forget(f, 0) \in [Handles -> 0..l]
        /\ Forget(g, <<>>) = [h \in Handles |-> Forget(g, <<>>)[h]]
        /\ \A h \in Handles : IsQueue(Forget(g, <<>>)[h])
    BY <1>11, <2>2, <2>3, SocketsKeep
  <2> QED
    BY <1>1, <1>8, <2>1, <2>4 DEF HistoryInv
<1>13. SentInv'
  <2> SUFFICES ASSUME NEW j \in 1..Len(t)
               PROVE  CaughtUp(t[j], since'[t[j].handle], received'[t[j].handle], routed, results)
    BY <1>1 DEF SentInv, t
  <2>1. t[j].handle \in Handles
    BY <1>2 DEF Sound, IsConnection
  <2>2. since'[t[j].handle] = f[t[j].handle] /\ received'[t[j].handle] = g[t[j].handle]
    <3>1. Len(connections') \in Nat
      BY <1>3 DEF t
    <3>2. \A k \in 1..Len(connections') :
            connections'[k].handle \in Handles => Forget(f, 0)[connections'[k].handle] = f[connections'[k].handle]
      BY <3>1, ForgetKeeps
    <3>3. \A k \in 1..Len(connections') :
            connections'[k].handle \in Handles => Forget(g, <<>>)[connections'[k].handle] = g[connections'[k].handle]
      BY <3>1, ForgetKeeps
    <3> QED
      BY <1>1, <2>1, <3>2, <3>3, Zenon DEF t
  <2>3. CASE t[j] = d
    <3>1. CaughtUp(d, Len(routed), <<>>, routed, results)
      BY <1>4, <1>8, NewIsCaughtUp
    <3> QED
      BY <2>2, <2>3, <3>1, <1>4, <1>9, <1>10
  <2>4. CASE \E k \in 1..Len(connections) : t[j] = connections[k] /\ connections[k].handle # handle
    <3>1. PICK k \in 1..Len(connections) : t[j] = connections[k] /\ connections[k].handle # handle
      BY <2>4
    <3>2. CaughtUp(connections[k], since[connections[k].handle], received[connections[k].handle], routed, results)
      BY DEF IInv, SentInv
    <3>3. f[connections[k].handle] = since[connections[k].handle] /\ g[connections[k].handle] = received[connections[k].handle]
      BY <2>1, <3>1, <1>9, <1>10
    <3> QED
      BY <2>2, <3>1, <3>2, <3>3
  <2> QED
    BY <1>2, <2>3, <2>4
<1> QED
  BY <1>1, <1>7, <1>12, <1>13, GatewayKeeps

\* A step routes a result: the table changes as its messages demand.
Routes(n) ==
  \E routing, channel, id :
    /\ id.run = results[n].run /\ id.sequence = results[n].sequence
    /\ routing.broken = FALSE /\ Delivered(connections, routing.table, channel, results[n])
    /\ Deliver(routing, channel, id)

LEMMA RoutingKeeps ==
  ASSUME IInv, UNCHANGED <<run, results>>, NEW n \in 1..Len(results), Routes(n)
  PROVE  TableInv' /\ HistoryInv' /\ SentInv'
<1>1. PICK routing, channel, id :
        /\ id.run = results[n].run /\ id.sequence = results[n].sequence
        /\ routing.broken = FALSE /\ Delivered(connections, routing.table, channel, results[n])
        /\ Deliver(routing, channel, id)
  BY DEF Routes
<1> DEFINE e == [channel |-> channel, position |-> n]
           t == connections'
<1>2. Position(id) = n
  BY <1>1, PositionIs DEF IInv
<1>3. connections' = routing.table /\ routed' = Append(routed, e) /\ since' = Forget(since, 0) /\ received' = Forget(received, <<>>)
  BY <1>1, <1>2 DEF Deliver
<1>4. e.channel = channel /\ e.position = n
  OBVIOUS
<1> HIDE DEF e
<1>5. /\ Sound(t) /\ Len(t) <= Len(connections)
      /\ \A i \in 1..Len(t) : \E j \in 1..Len(connections) : Updated(connections[j], t[i], channel, results[n])
  BY <1>1, <1>3 DEF Delivered
<1>6. /\ Sound(connections) /\ Len(connections) <= MaximumConnections /\ Len(connections) \in Nat /\ run \in Nat
      /\ \A j \in 1..Len(connections) : connections[j].run \in Nat /\ connections[j].run <= run
  BY TableIsSequence DEF IInv, TableInv
<1>7. Len(t) \in Nat
  BY <1>5, TableIsSequence
<1> HIDE DEF t
<1>8. \A j \in 1..Len(connections) : IsConnection(connections[j])
  BY <1>6 DEF Sound
<1>9. ASSUME NEW i \in 1..Len(t), NEW j \in 1..Len(connections), Updated(connections[j], t[i], channel, results[n])
      PROVE  t[i].handle = connections[j].handle /\ t[i].client = connections[j].client /\ t[i].run = connections[j].run
  BY <1>8, <1>9, UpdatedKeeps
<1>10. \A i \in 1..Len(t) : t[i].run \in Nat /\ t[i].run <= run
  BY <1>5, <1>6, <1>9
<1>11. Len(t) <= MaximumConnections
  BY <1>5, <1>6, <1>7, Sizes
<1>12. TableInv'
  BY <1>5, <1>6, <1>10, <1>11 DEF TableInv, t
<1>13. /\ IsHistory(routed, results) /\ Len(routed) \in Nat /\ since \in [Handles -> 0..Len(routed)]
       /\ \A h \in Handles : IsQueue(received[h])
  BY DEF IInv, HistoryInv, IsHistory
<1>14. IsHistory(routed', results) /\ Len(routed') = Len(routed) + 1
  <2>1. PICK S : routed \in Seq(S)
    BY <1>13 DEF IsHistory
  <2>2. routed \in Seq(S \cup {e}) /\ e \in S \cup {e}
    BY <2>1
  <2>3. /\ routed' \in Seq(S \cup {e}) /\ Len(routed') = Len(routed) + 1 /\ routed'[Len(routed) + 1] = e
        /\ \A k \in 1..Len(routed) : routed'[k] = routed[k]
    BY <2>2, <1>3, AppendProperties
  <2>4. PICK l : l = Len(routed)
    OBVIOUS
  <2>5. \A k \in 1..(l + 1) : k \in 1..l \/ k = l + 1
    BY <2>4, <1>13
  <2>6. \A k \in 1..Len(routed') : routed'[k].position \in 1..Len(results)
    BY <2>3, <2>4, <2>5, <1>4, <1>13, Zenon DEF IsHistory
  <2>7. Len(routed') \in Nat
    BY <2>3, <1>13
  <2> QED
    BY <2>3, <2>6, <2>7 DEF IsHistory
<1>15. Len(connections') \in Nat
  BY <1>7 DEF t
<1>16. HistoryInv'
  <2>1. PICK l : l = Len(routed)
    OBVIOUS
  <2>2. l \in Nat /\ since \in [Handles -> 0..l]
    BY <1>13, <2>1
  <2>3. /\ Forget(since, 0) \in [Handles -> 0..l]
        /\ Forget(received, <<>>) = [h \in Handles |-> Forget(received, <<>>)[h]]
        /\ \A h \in Handles : IsQueue(Forget(received, <<>>)[h])
    BY <1>13, <1>15, <2>2, SocketsKeep
  <2>4. since' \in [Handles -> 0..Len(routed')]
    BY <1>3, <1>14, <2>1, <2>2, <2>3
  <2> QED
    BY <1>3, <1>14, <2>3, <2>4 DEF HistoryInv
<1>17. SentInv'
  <2> SUFFICES ASSUME NEW i \in 1..Len(t)
               PROVE  CaughtUp(t[i], since'[t[i].handle], received'[t[i].handle], routed', results)
    BY DEF SentInv, t
  <2>1. t[i].handle \in Handles
    BY <1>5 DEF Sound, IsConnection
  <2>2. since'[t[i].handle] = since[t[i].handle] /\ received'[t[i].handle] = received[t[i].handle]
    <3>1. \A k \in 1..Len(connections') :
            connections'[k].handle \in Handles => Forget(since, 0)[connections'[k].handle] = since[connections'[k].handle]
      BY <1>15, ForgetKeeps
    <3>2. \A k \in 1..Len(connections') :
            connections'[k].handle \in Handles => Forget(received, <<>>)[connections'[k].handle] = received[connections'[k].handle]
      BY <1>15, ForgetKeeps
    <3> QED
      BY <1>3, <2>1, <3>1, <3>2, Zenon DEF t
  <2>3. PICK j \in 1..Len(connections) : Updated(connections[j], t[i], channel, results[n])
    BY <1>5
  <2> DEFINE c == connections[j]
             h == t[i].handle
             s == since[h]
             q == received[h]
  <2>4. h = c.handle
    BY <1>9, <2>3
  <2>5. IsConnection(c)
    BY <1>8
  <2>6. CaughtUp(c, s, q, routed, results)
    BY <2>4 DEF IInv, SentInv
  <2>7. s \in Nat /\ s <= Len(routed) /\ IsQueue(q)
    BY <1>13, <2>1
  <2>8. Updated(c, t[i], e.channel, results[e.position])
    BY <2>3, <1>4
  <2> HIDE DEF c, s, q, h
  <2>9. CaughtUp(t[i], s, q, Append(routed, e), results)
    BY <2>5, <2>6, <2>7, <2>8, <1>13, CaughtUpGrows
  <2> QED
    BY <2>2, <2>9, <1>3 DEF s, q, h
<1> QED
  BY <1>12, <1>16, <1>17

\* Only a connection with a backlog is gone.
LEMMA RoutingEvicts ==
  ASSUME IInv, NEW n \in 1..Len(results), Routes(n)
  PROVE  \A i \in DOMAIN connections :
           connections[i].outbound = <<>> => findConnection(connections', connections[i].handle) # 0
<1>1. PICK routing, channel, id : Delivered(connections, routing.table, channel, results[n]) /\ Deliver(routing, channel, id)
  BY DEF Routes
<1>2. connections' = routing.table
  BY <1>1 DEF Deliver
<1>3. DOMAIN connections = 1..Len(connections)
  BY TableIsSequence DEF IInv, TableInv
<1> SUFFICES ASSUME NEW i \in 1..Len(connections), connections[i].outbound = <<>>
             PROVE  findConnection(connections', connections[i].handle) # 0
  BY <1>3
<1>4. PICK t, h : t = routing.table /\ h = connections[i].handle
  OBVIOUS
<1>5. Sound(t) /\ \E k \in 1..Len(t) : t[k].handle = h
  BY <1>1, <1>4 DEF Delivered
<1>6. Len(t) \in Nat
  BY <1>5, TableIsSequence
<1>7. \/ findConnection(t, h) = 0 /\ \A j \in 1..Len(t) : t[j].handle # h
      \/ findConnection(t, h) # 0 /\ findConnection(t, h) \in 1..Len(t) /\ t[findConnection(t, h)].handle = h
  BY <1>6, FoundConnection
<1> QED
  BY <1>2, <1>4, <1>5, <1>7

\* A public batch is the projection of a result; it is routed unless the serialiser refuses it.
LEMMA PublicAdvances ==
  ASSUME IInv, advancePublic
  PROVE  \/ UNCHANGED <<connections, routed, since, received>>
         \/ \E n \in 1..Len(results) : Routes(n)
<1> DEFINE batch == Head(publicTrades)
           routing == RoutePublic(PublicMessage(batch))
<1>1. publicTrades # <<>> /\ publicTrades \in Seq(PublicBatches(results) \ {<<>>})
  BY DEF IInv, BatchesInv, advancePublic, PopPublic
<1>2. batch \in PublicBatches(results) \ {<<>>}
  BY <1>1, HeadTailProperties
<1>3. PICK n \in 1..Len(results) : batch = projectPublicTrades(results[n]) /\ batch # <<>>
  BY <1>2 DEF PublicBatches
<1>4. PICK r : r = results[n]
  OBVIOUS
<1>5. IsResult(r) /\ Sound(connections)
  BY <1>4 DEF IInv, Numbered, TableInv
<1>6. \/ UNCHANGED <<connections, routed, since, received>>
      \/ Deliver(routing, "public", batch[1])
  BY DEF advancePublic, socketVars
<1> HIDE DEF batch
<1>7. PICK m : m = PublicMessage(batch)
  OBVIOUS
<1>8. TellsPublic(m, r) /\ Sendable(m) /\ m.run = r.run
  BY <1>3, <1>4, <1>5, <1>7, PublicMessageTells
<1>9. RoutePublic(m).broken = FALSE /\ Delivered(connections, RoutePublic(m).table, "public", r)
  BY <1>5, <1>8, PublicRouting
<1>10. batch[1].run = r.run /\ batch[1].sequence = r.sequence
  <2>1. PublicTold(batch, r) /\ DOMAIN batch = 1..Len(batch) /\ Len(batch) \in Nat /\ Len(batch) >= 1
    BY <1>3, <1>4, <1>5, PublicProjection
  <2>2. 1 \in DOMAIN batch
    BY <2>1
  <2> QED
    BY <2>1, <2>2 DEF PublicTold
<1> QED
  BY <1>4, <1>6, <1>7, <1>9, <1>10, Zenon DEF Routes

LEMMA PrivateAdvances ==
  ASSUME IInv, advancePrivate
  PROVE  \/ UNCHANGED <<connections, routed, since, received>>
         \/ \E n \in 1..Len(results) : Routes(n)
<1> DEFINE batch == Head(privateResults)
           ms == [k \in DOMAIN batch |-> PrivateMessage(batch[k])]
           routing == RoutePrivate(ms)
<1>1. privateResults # <<>> /\ privateResults \in Seq(PrivateBatches(results))
  BY DEF IInv, BatchesInv, advancePrivate, PopPrivate
<1>2. batch \in PrivateBatches(results)
  BY <1>1, HeadTailProperties
<1>3. PICK n \in 1..Len(results) : batch = projectPrivateResults(results[n])
  BY <1>2 DEF PrivateBatches
<1>4. PICK r : r = results[n]
  OBVIOUS
<1>5. IsResult(r) /\ Sound(connections)
  BY <1>4 DEF IInv, Numbered, TableInv
<1>6. \/ UNCHANGED <<connections, routed, since, received>>
      \/ Deliver(routing, "private", batch[1].privateResult[1].id)
  BY DEF advancePrivate, socketVars
<1> HIDE DEF batch
<1>7. PrivateMessages(ms, r) /\ batch[1].privateResult[1].id.run = r.run /\ batch[1].privateResult[1].id.sequence = r.sequence
  BY <1>3, <1>4, <1>5, PrivateBatch
<1> HIDE DEF ms
<1>8. RoutePrivate(ms).broken = FALSE /\ Delivered(connections, RoutePrivate(ms).table, "private", r)
  BY <1>5, <1>7, PrivateRouting
<1> QED
  BY <1>4, <1>6, <1>7, <1>8, Zenon DEF Routes

LEMMA AdvanceKeeps == ASSUME IInv, advancePublic \/ advancePrivate PROVE IInv'
<1>1. UNCHANGED <<run, results, pendingPrivateResults, pendingPublicTrades>>
  BY DEF advancePublic, advancePrivate, controllerVars
<1>2. BatchesInv'
  <2>1. /\ publicTrades' = publicTrades \/ (publicTrades # <<>> /\ publicTrades' = Tail(publicTrades))
        /\ privateResults' = privateResults \/ (privateResults # <<>> /\ privateResults' = Tail(privateResults))
    BY DEF advancePublic, advancePrivate, PopPublic, PopPrivate
  <2> DEFINE P == PublicBatches(results) \ {<<>>}
             Q == PrivateBatches(results)
  <2>2. publicTrades \in Seq(P) /\ privateResults \in Seq(Q)
    BY DEF IInv, BatchesInv
  <2>3. publicTrades' \in Seq(P) /\ privateResults' \in Seq(Q)
    <3> HIDE DEF P, Q
    <3> QED
      BY <2>1, <2>2, HeadTailProperties
  <2> QED
    BY <1>1, <2>3 DEF IInv, BatchesInv
<1>3. CASE UNCHANGED <<connections, routed, since, received>>
  <2>1. run \in Nat /\ run <= run
    BY DEF IInv, TableInv
  <2>2. UNCHANGED <<results, connections, routed, since, received>> /\ run' = run
    BY <1>1, <1>3
  <2>3. run' \in Nat /\ run <= run'
    BY <2>1, <2>2
  <2> QED
    BY <1>2, <2>2, <2>3, QuietKeeps
<1>4. CASE \E n \in 1..Len(results) : Routes(n)
  <2>1. TableInv' /\ HistoryInv' /\ SentInv'
    BY <1>1, <1>4, RoutingKeeps
  <2> QED
    BY <1>1, <1>2, <2>1 DEF IInv
<1> QED
  BY <1>3, <1>4, PublicAdvances, PrivateAdvances

LEMMA StepHolds == IInv /\ [Next]_vars => IInv'
<1> SUFFICES ASSUME IInv, [Next]_vars PROVE IInv'
  OBVIOUS
<1>1. CASE \E sample \in Samples : DispatchResult(sample)
  BY <1>1, DispatchKeeps
<1>2. CASE RetryHandoff
  BY <1>2, RetryKeeps
<1>3. CASE FailStop \/ RecoverFailed \/ StopRun \/ StartRun
  BY <1>3, LifecycleKeeps
<1>4. CASE \E handle \in Handles, client \in Clients : registerConnection(handle, client)
  BY <1>4, RegisterKeeps
<1>5. CASE \E handle \in Handles : disconnect(handle)
  BY <1>5, DisconnectKeeps
<1>6. CASE \E handle \in Handles : tryPopOutbound(handle)
  BY <1>6, PopKeeps
<1>7. CASE advancePublic \/ advancePrivate
  BY <1>7, AdvanceKeeps
<1>8. CASE UNCHANGED vars
  <2>1. /\ UNCHANGED <<results, connections, routed, since, received>> /\ run' = run
        /\ UNCHANGED <<publicTrades, privateResults, pendingPublicTrades, pendingPrivateResults>>
    BY <1>8 DEF vars, controllerVars, handoffVars, historyVars, socketVars
  <2>2. BatchesInv'
    BY <2>1 DEF IInv, BatchesInv
  <2>3. run' \in Nat /\ run <= run'
    BY <2>1 DEF IInv, TableInv
  <2> QED
    BY <2>1, <2>2, <2>3, QuietKeeps
<1> QED
  BY <1>1, <1>2, <1>3, <1>4, <1>5, <1>6, <1>7, <1>8, Zenon DEF Next

-----------------------------------------------------------------------------
(* The theorems.                                                           *)

\* What the invariant says of a connection is what NothingMissed says.
LEMMA InvariantSuffices == ASSUME IInv PROVE NothingMissed
<1>1. /\ Sound(connections) /\ Len(connections) <= MaximumConnections /\ DOMAIN connections = 1..Len(connections)
      /\ \A i \in 1..Len(connections) : connections[i].run <= run
  BY TableIsSequence DEF IInv, TableInv
<1>2. TableIsSound
  <2>1. ASSUME NEW i \in DOMAIN connections, NEW j \in DOMAIN connections,
               \/ connections[i].handle = connections[j].handle
               \/ connections[i].client = connections[j].client /\ connections[i].run = connections[j].run
        PROVE  i = j
    BY <1>1, <2>1 DEF Sound, Clash
  <2>2. ASSUME NEW i \in DOMAIN connections
        PROVE  LET c == connections[i]
               IN  c.run <= run /\ c.queuedBytes = QueuedBytes(c.outbound) /\ c.queuedBytes <= OutboundCapacity
    BY <1>1 DEF Sound, IsConnection
  <2> QED
    BY <1>1, <2>1, <2>2 DEF TableIsSound
<1>3. ASSUME NEW k \in DOMAIN connections
      PROVE  LET c == connections[k]
                 sent == received[c.handle] \o c.outbound
             IN  /\ Len(sent) = Cardinality(Owed(c))
                 /\ \A n \in Owed(c) :
                      LET m == sent[Rank(n, Owed(c))]
                          r == results[routed[n].position]
                      IN  IF routed[n].channel = "public" THEN TellsPublic(m, r) ELSE TellsPrivate(m, r, c.client)
  <2> DEFINE c == connections[k]
             sent == received[c.handle] \o c.outbound
             owed == OwedOf(c, since[c.handle], routed, results)
  <2>1. Owed(c) = owed
    BY DEF Owed, OwedOf, Owes
  <2>2. CaughtUp(c, since[c.handle], received[c.handle], routed, results)
    BY <1>1 DEF IInv, SentInv
  <2>3. /\ Len(sent) = Cardinality(owed)
        /\ \A n \in owed : Tells(routed[n].channel, sent[Rank(n, owed)], results[routed[n].position], c.client)
    BY <2>2 DEF CaughtUp
  <2> HIDE DEF owed, sent, c
  <2>4. \A n \in owed : IF routed[n].channel = "public" THEN TellsPublic(sent[Rank(n, owed)], results[routed[n].position])
                        ELSE TellsPrivate(sent[Rank(n, owed)], results[routed[n].position], c.client)
    BY <2>3 DEF Tells
  <2> QED
    BY <2>1, <2>3, <2>4 DEF sent, c
<1> QED
  BY <1>2, <1>3 DEF NothingMissed

\* Every connection in the gateway's table was sent, in the order of routing,
\* one message for every public batch of its run and every private result that
\* concerns its client, telling exactly what that client may know; and the
\* table, with its byte counts, is sound: for any number of connections,
\* clients, commands, events of a command and any sizes of messages.
THEOREM NothingIsMissed == Spec => []NothingMissed
<1>1. Spec => []IInv
  BY InitHolds, StepHolds, PTL DEF Spec
<1>2. IInv => NothingMissed
  BY InvariantSuffices
<1> QED
  BY <1>1, <1>2, PTL

\* advancePublic and advancePrivate erase only connections whose socket has
\* not taken everything: the least outbound capacity the constructor accepts
\* holds any message that a command can produce.
THEOREM EvictionsAreDue == Spec => OnlyBackloggedEvicted
<1>1. Spec => []IInv
  BY InitHolds, StepHolds, PTL DEF Spec
<1> DEFINE A == routed' # routed =>
                  \A i \in DOMAIN connections :
                    connections[i].outbound = <<>> => findConnection(connections', connections[i].handle) # 0
<1>2. IInv /\ [Next]_vars => [A]_vars
  <2> SUFFICES ASSUME IInv, Next, routed' # routed PROVE A
    BY DEF vars
  <2>1. advancePublic \/ advancePrivate
    BY DEF Next, DispatchResult, RetryHandoff, FailStop, RecoverFailed, StopRun, StartRun, registerConnection,
           disconnect, tryPopOutbound, historyVars
  <2>2. PICK n \in 1..Len(results) : Routes(n)
    BY <2>1, PublicAdvances, PrivateAdvances
  <2>3. \A i \in DOMAIN connections :
          connections[i].outbound = <<>> => findConnection(connections', connections[i].handle) # 0
    BY <2>2, RoutingEvicts
  <2> QED
    BY <2>3
<1> QED
  BY <1>1, <1>2, PTL DEF Spec, OnlyBackloggedEvicted
=============================================================================
