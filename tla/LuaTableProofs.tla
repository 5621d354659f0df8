--------------------------- MODULE LuaTableProofs ---------------------------
(***************************************************************************)
(* Theorems about LuaTable, for any keys, hashes, sizes and failures.      *)
(***************************************************************************)
EXTENDS LuaTable, FiniteSetTheorems, SequenceTheorems, WellFoundedInduction, TLAPS

-----------------------------------------------------------------------------
(* Recursive functions.                                                    *)

\* A set of natural numbers that is not empty has a least element.
LEMMA LeastNatural ==
    ASSUME NEW T, T \subseteq Nat, T # {}
    PROVE  \E x \in T : \A y \in T : x <= y
<1>1. IsWellFoundedOn(OpToRel(<, Nat), Nat)
  BY NatLessThanWellFounded, Zenon
<1>2. \A x, y \in Nat : <<x, y>> \in OpToRel(<, Nat) <=> x < y
  BY DEF OpToRel
<1>3. PICK R : IsWellFoundedOn(R, Nat) /\ \A x, y \in Nat : <<x, y>> \in R <=> x < y
  BY <1>1, <1>2, Zenon
<1>4. \A RR, S : IsWellFoundedOn(RR, S) =>
         \A TT : TT \subseteq S /\ TT # {} => \E x \in TT : \A y \in TT : ~(<<y, x>> \in RR)
  BY WFMin, Zenon
<1>5. IsWellFoundedOn(R, Nat) /\ T \subseteq Nat /\ T # {}
  BY <1>3
<1>6. PICK x \in T : \A y \in T : ~(<<y, x>> \in R)
  BY <1>4, <1>5, Zenon
<1>7. \A y \in T : ~(y < x)
  BY <1>3, <1>6
<1>8. x \in Nat /\ \A y \in T : y \in Nat
  OBVIOUS
<1> QED
  BY <1>7, <1>8

\* A set that is closed under "one more" and contains 0 contains every natural
\* number.
LEMMA Naturals01 ==
    ASSUME NEW T, 0 \in T, \A n \in Nat : n \in T => n + 1 \in T
    PROVE  Nat \subseteq T
<1> SUFFICES ASSUME Nat \ T # {} PROVE FALSE
  OBVIOUS
<1>1. PICK x \in Nat \ T : \A y \in Nat \ T : x <= y
  BY LeastNatural
<1>2. x # 0 /\ x \in Nat
  OBVIOUS
<1>3. x - 1 \in Nat /\ (x - 1) + 1 = x /\ ~(x <= x - 1)
  BY <1>2
<1>4. x - 1 \in T
  BY <1>1, <1>3
<1> QED
  BY <1>3, <1>4

\* One step of a recursion over D: it stops at B with b, and goes on from n to
\* nx[n] otherwise, doing g with the result.
Recur(B, b, g, nx, n, f) == IF n \in B THEN b[n] ELSE g[<<n, f[nx[n]]>>]

\* Every step of the recursion goes down in rank r; results are in S.
Descends(D, S, B, b, g, nx, r) ==
    /\ b \in [D -> S] /\ g \in [D \X S -> S] /\ r \in [D -> Nat]
    /\ \A n \in D \ B : nx[n] \in D /\ r[nx[n]] < r[n]

\* A recursion that goes down in rank defines a function.
LEMMA Recursion ==
    ASSUME NEW D, NEW S, NEW B, NEW b, NEW g, NEW nx, NEW r, Descends(D, S, B, b, g, nx, r)
    PROVE  \E f \in [D -> S] : \A n \in D : f[n] = Recur(B, b, g, nx, n, f)
<1> b \in [D -> S] /\ g \in [D \X S -> S] /\ r \in [D -> Nat]
    /\ \A n \in D \ B : nx[n] \in D /\ r[nx[n]] < r[n]
  BY DEF Descends
<1> DEFINE Part(m, f) == f \in [D -> S]
                         /\ \A n \in D : r[n] < m => f[n] = Recur(B, b, g, nx, n, f)
<1> SUFFICES ASSUME D # {} PROVE \E f \in [D -> S] : \A n \in D : f[n] = Recur(B, b, g, nx, n, f)
  <2>1. ASSUME D = {} PROVE b \in [D -> S] /\ \A n \in D : b[n] = Recur(B, b, g, nx, n, b)
    BY <2>1
  <2> QED
    BY <2>1
<1>0. \A n \in D : r[n] \in Nat
  OBVIOUS
<1>1. ASSUME NEW m \in Nat, NEW f, NEW l \in Nat, NEW h, Part(m, f), Part(l, h)
      PROVE  \A n \in D : r[n] < m /\ r[n] < l => f[n] = h[n]
  <2> DEFINE W == {r[n] : n \in {q \in D : r[q] < m /\ r[q] < l /\ f[q] # h[q]}}
  <2> SUFFICES ASSUME W # {} PROVE FALSE
    OBVIOUS
  <2>1. W \subseteq Nat
    BY <1>0
  <2>2. PICK x \in W : \A y \in W : x <= y
    BY <2>1, LeastNatural
  <2>3. PICK n \in D : r[n] = x /\ r[n] < m /\ r[n] < l /\ f[n] # h[n]
    OBVIOUS
  <2>4. f[n] = Recur(B, b, g, nx, n, f) /\ h[n] = Recur(B, b, g, nx, n, h)
    BY <1>1, <2>3
  <2>5. n \notin B
    BY <2>3, <2>4 DEF Recur
  <2>6. nx[n] \in D /\ r[nx[n]] < r[n] /\ r[nx[n]] \in Nat /\ r[n] \in Nat
    BY <1>0, <2>5
  <2>7. f[nx[n]] = h[nx[n]]
    <3>0. PICK y : y = nx[n]
      OBVIOUS
    <3>1. y \in D /\ r[y] < m /\ r[y] < l /\ r[y] \in Nat /\ r[y] < r[n]
      BY <2>3, <2>6, <3>0
    <3>2. f[y] # h[y] => r[y] \in W
      BY <3>1
    <3> HIDE DEF W
    <3>3. ~(x <= r[y]) /\ x \in Nat
      BY <2>1, <2>3, <2>6, <3>1
    <3>4. r[y] \notin W
      BY <2>2, <3>3
    <3> QED
      BY <3>0, <3>2, <3>4
  <2> QED
    BY <2>3, <2>4, <2>5, <2>7 DEF Recur
<1>2. \A m \in Nat : \E f : Part(m, f)
  <2> DEFINE T == {m \in Nat : \E f : Part(m, f)}
  <2>1. 0 \in T
    <3>1. Part(0, b)
      BY <1>0
    <3> QED
      BY <3>1
  <2>2. ASSUME NEW m \in Nat, m \in T PROVE m + 1 \in T
    <3>1. PICK f : Part(m, f)
      BY <2>2
    <3> DEFINE h == [n \in D |-> Recur(B, b, g, nx, n, f)]
    <3>2. h \in [D -> S]
      <4> SUFFICES ASSUME NEW n \in D PROVE Recur(B, b, g, nx, n, f) \in S
        OBVIOUS
      <4>1. n \notin B => nx[n] \in D /\ f[nx[n]] \in S
        BY <3>1
      <4>2. n \notin B => g[<<n, f[nx[n]]>>] \in S
        BY <4>1
      <4> QED
        BY <4>2 DEF Recur
    <3>3. ASSUME NEW n \in D, r[n] < m + 1 PROVE h[n] = Recur(B, b, g, nx, n, h)
      <4>1. h[n] = Recur(B, b, g, nx, n, f)
        OBVIOUS
      <4>2. ASSUME n \notin B PROVE f[nx[n]] = h[nx[n]]
        <5>1. nx[n] \in D /\ r[nx[n]] < r[n] /\ r[n] \in Nat /\ r[nx[n]] \in Nat
          BY <1>0, <4>2
        <5>2. r[nx[n]] < m
          BY <3>3, <5>1
        <5> QED
          BY <3>1, <5>1, <5>2
      <4> QED
        BY <4>1, <4>2 DEF Recur
    <3> HIDE DEF h
    <3>4. Part(m + 1, h)
      BY <3>2, <3>3
    <3> QED
      BY <3>4
  <2> HIDE DEF T
  <2>3. Nat \subseteq T
    BY <2>1, <2>2, Naturals01
  <2> QED
    BY <2>3 DEF T
<1> DEFINE F(m) == CHOOSE f : Part(m, f)
<1>3. \A m \in Nat : Part(m, F(m))
  BY <1>2
<1> HIDE DEF F
<1> DEFINE h == [n \in D |-> F(r[n] + 1)[n]]
<1>4. ASSUME NEW n \in D PROVE Part(r[n] + 1, F(r[n] + 1)) /\ r[n] \in Nat /\ r[n] < r[n] + 1
  <2>1. r[n] \in Nat /\ r[n] + 1 \in Nat
    BY <1>0
  <2> QED
    BY <1>3, <2>1
<1>5. h \in [D -> S]
  BY <1>4
<1>6. ASSUME NEW n \in D PROVE h[n] = Recur(B, b, g, nx, n, h)
  <2> DEFINE f == F(r[n] + 1)
  <2>1. Part(r[n] + 1, f) /\ r[n] \in Nat /\ r[n] < r[n] + 1
    BY <1>4
  <2>2. h[n] = f[n]
    OBVIOUS
  <2> HIDE DEF f
  <2>3. f[n] = Recur(B, b, g, nx, n, f)
    BY <2>1
  <2>4. ASSUME n \notin B PROVE f[nx[n]] = h[nx[n]]
    <3> DEFINE y == nx[n]
    <3>1. y \in D /\ r[y] < r[n]
      BY <2>4
    <3> HIDE DEF y
    <3>2. Part(r[y] + 1, F(r[y] + 1)) /\ r[y] \in Nat /\ r[y] < r[y] + 1 /\ h[y] = F(r[y] + 1)[y]
      BY <1>4, <3>1
    <3>3. r[y] < r[n] + 1 /\ r[y] + 1 \in Nat /\ r[n] + 1 \in Nat
      BY <2>1, <3>1, <3>2
    <3> HIDE DEF Part, h
    <3>4. f[y] = F(r[y] + 1)[y]
      BY <1>1, <2>1, <3>1, <3>2, <3>3
    <3> QED
      BY <3>2, <3>4 DEF y
  <2> HIDE DEF h
  <2> QED
    BY <2>2, <2>3, <2>4 DEF Recur
<1> HIDE DEF h
<1> QED
  BY <1>5, <1>6

-----------------------------------------------------------------------------
(* Powers of two, the least and the greatest element.                      *)

LEMMA TwoToDef ==
    /\ TwoTo \in [Nat -> Nat \ {0}]
    /\ \A n \in Nat : TwoTo[n] = IF n = 0 THEN 1 ELSE 2 * TwoTo[n - 1]
<1> DEFINE S == Nat \ {0}
           b == [n \in Nat |-> 1]
           g == [p \in Nat \X S |-> 2 * p[2]]
           nx == [n \in Nat |-> n - 1]
           r == [n \in Nat |-> n]
<1>1. b \in [Nat -> S] /\ g \in [Nat \X S -> S] /\ r \in [Nat -> Nat]
  OBVIOUS
<1>2. \A n \in Nat \ {0} : nx[n] \in Nat /\ r[nx[n]] < r[n]
  OBVIOUS
<1>3. \A n \in Nat : b[n] = 1 /\ nx[n] = n - 1
  OBVIOUS
<1>4. \A n \in Nat : \A x \in S : g[<<n, x>>] = 2 * x
  OBVIOUS
<1>5. PICK f \in [Nat -> S] : \A n \in Nat : f[n] = Recur({0}, b, g, nx, n, f)
  <2> HIDE DEF b, g, nx, r, S
  <2>1. Descends(Nat, S, {0}, b, g, nx, r)
    BY <1>1, <1>2 DEF Descends
  <2> QED
    BY <2>1, Recursion
<1>6. \A n \in Nat : f[n] = IF n = 0 THEN 1 ELSE 2 * f[n - 1]
  <2> SUFFICES ASSUME NEW n \in Nat PROVE f[n] = IF n = 0 THEN 1 ELSE 2 * f[n - 1]
    OBVIOUS
  <2>1. n # 0 => n - 1 \in Nat /\ f[n - 1] \in S
    OBVIOUS
  <2> HIDE DEF b, g, nx, r, S
  <2> QED
    BY <1>3, <1>4, <1>5, <2>1 DEF Recur
<1>7. f = [n \in Nat |-> IF n = 0 THEN 1 ELSE 2 * f[n - 1]]
  BY <1>6
<1>8. TwoTo = [n \in Nat |-> IF n = 0 THEN 1 ELSE 2 * TwoTo[n - 1]]
  BY <1>7 DEF TwoTo
<1>9. \A n \in Nat : TwoTo[n] = IF n = 0 THEN 1 ELSE 2 * TwoTo[n - 1]
  BY <1>8
<1>10. \A n \in Nat : TwoTo[n] \in S
  <2> DEFINE T == {n \in Nat : TwoTo[n] \in S}
  <2>1. 0 \in T
    BY <1>9
  <2>2. ASSUME NEW n \in Nat, n \in T PROVE n + 1 \in T
    <3>1. n + 1 \in Nat /\ n + 1 # 0 /\ (n + 1) - 1 = n
      OBVIOUS
    <3>2. TwoTo[n + 1] = 2 * TwoTo[n]
      BY <1>9, <3>1
    <3> QED
      BY <2>2, <3>2
  <2> HIDE DEF T
  <2>3. Nat \subseteq T
    BY <2>1, <2>2, Naturals01
  <2> QED
    BY <2>3 DEF T
<1>11. TwoTo \in [Nat -> S]
  BY <1>8, <1>10
<1> QED
  BY <1>9, <1>11

LEMMA TwoToType ==
    ASSUME NEW n \in Nat
    PROVE  TwoTo[n] \in Nat /\ TwoTo[n] >= 1 /\ TwoTo[n + 1] = 2 * TwoTo[n]
<1>1. TwoTo[n] \in Nat \ {0}
  BY TwoToDef
<1>2. n + 1 \in Nat /\ n + 1 # 0 /\ (n + 1) - 1 = n
  OBVIOUS
<1>3. TwoTo[n + 1] = 2 * TwoTo[n]
  BY TwoToDef, <1>2
<1> QED
  BY <1>1, <1>3

LEMMA TwoToExceeds == \A n \in Nat : n < TwoTo[n]
<1> DEFINE T == {n \in Nat : n < TwoTo[n]}
<1>1. 0 \in T
  BY TwoToDef
<1>2. ASSUME NEW n \in Nat, n \in T PROVE n + 1 \in T
  BY <1>2, TwoToType
<1> HIDE DEF T
<1>3. Nat \subseteq T
  BY <1>1, <1>2, Naturals01
<1> QED
  BY <1>3 DEF T

LEMMA TwoToMonotone == \A m, n \in Nat : m <= n => TwoTo[m] <= TwoTo[n]
<1> SUFFICES ASSUME NEW m \in Nat PROVE \A n \in Nat : m <= n => TwoTo[m] <= TwoTo[n]
  OBVIOUS
<1> DEFINE T == {d \in Nat : TwoTo[m] <= TwoTo[m + d]}
<1>1. 0 \in T
  <2>1. m + 0 = m
    OBVIOUS
  <2> QED
    BY <2>1, TwoToType
<1>2. ASSUME NEW d \in Nat, d \in T PROVE d + 1 \in T
  <2>1. m + d \in Nat /\ m + (d + 1) = (m + d) + 1
    OBVIOUS
  <2>2. TwoTo[m + d] \in Nat /\ TwoTo[(m + d) + 1] = 2 * TwoTo[m + d] /\ TwoTo[m] \in Nat
    BY <2>1, TwoToType
  <2>3. TwoTo[m] <= TwoTo[m + (d + 1)]
    BY <1>2, <2>1, <2>2
  <2> QED
    BY <2>3
<1> HIDE DEF T
<1>3. Nat \subseteq T
  BY <1>1, <1>2, Naturals01
<1>4. ASSUME NEW n \in Nat, m <= n PROVE TwoTo[m] <= TwoTo[n]
  <2>1. n - m \in Nat /\ m + (n - m) = n
    BY <1>4
  <2>2. n - m \in T
    BY <1>3, <2>1
  <2>3. TwoTo[m] <= TwoTo[m + (n - m)]
    BY <2>2 DEF T
  <2> QED
    BY <2>1, <2>3
<1> QED
  BY <1>4

LEMMA LowerIs ==
    ASSUME NEW T, T \subseteq Nat, T # {}
    PROVE  Lower(T) \in T /\ \A y \in T : Lower(T) <= y
<1>1. \E x \in T : \A y \in T : x <= y
  BY LeastNatural
<1> QED
  BY <1>1, Zenon DEF Lower

LEMMA UpperIs ==
    ASSUME NEW T, NEW m \in Nat, T \subseteq 0..m, T # {}
    PROVE  Upper(T) \in T /\ \A y \in T : Upper(T) >= y
<1> DEFINE W == {x \in 0..m : m - x \in T}
<1>1. W \subseteq Nat
  OBVIOUS
<1>2. W # {}
  <2>1. PICK x \in T : TRUE
    OBVIOUS
  <2>2. x \in 0..m
    OBVIOUS
  <2>3. m - x \in 0..m /\ m - (m - x) = x
    BY <2>2
  <2>4. m - x \in W
    BY <2>3
  <2> QED
    BY <2>4
<1>3. PICK x \in W : \A y \in W : x <= y
  BY <1>1, <1>2, LeastNatural
<1>4. ASSUME NEW y \in T PROVE m - x >= y
  <2>1. y \in 0..m
    OBVIOUS
  <2>2. m - y \in 0..m /\ m - (m - y) = y
    BY <2>1
  <2>3. m - y \in W
    BY <2>2
  <2>4. x <= m - y /\ x \in 0..m
    BY <1>3, <2>3
  <2> QED
    BY <2>1, <2>4
<1>5. m - x \in T
  OBVIOUS
<1>6. \E u \in T : \A y \in T : u >= y
  BY <1>4, <1>5
<1> QED
  BY <1>6, Zenon DEF Upper

LEMMA CeilLog2Is ==
    ASSUME NEW n \in Nat
    PROVE  CeilLog2(n) \in Nat /\ TwoTo[CeilLog2(n)] >= n
<1> DEFINE T == {l \in 0..n : TwoTo[l] >= n}
<1>1. T \subseteq Nat
  OBVIOUS
<1>2. n \in T
  BY TwoToExceeds, TwoToType
<1> HIDE DEF T
<1>3. Lower(T) \in T
  BY <1>1, <1>2, LowerIs
<1>4. CeilLog2(n) = Lower(T)
  BY DEF CeilLog2, T
<1> QED
  BY <1>3, <1>4 DEF T

-----------------------------------------------------------------------------
(* The hash part: D is the set of node indices, nd the nodes and p the     *)
(* main position of every key.                                             *)

V == Values \cup IntKeys \cup {Nil}
Node == [key : Keys \cup {Nil}, dead : BOOLEAN, val : V, next : Int]

Closed(nd, S) == \A x \in S : nd[x].next # NoNode => nd[x].next \in S

\* Node i is in the chain that starts at node m.
Reach(D, nd, m, i) == \A S \in SUBSET D : m \in S /\ Closed(nd, S) => i \in S

\* A link leads to a used node and down in rank: no chain is a cycle.
Linked(D, nd, r) ==
    \A i \in D : nd[i].next # NoNode =>
        /\ nd[i].next \in D
        /\ nd[i].key # Nil /\ nd[nd[i].next].key # Nil
        /\ r[nd[i].next] < r[i]

\* No two links lead to the same node.
NoDouble(D, nd) ==
    \A i, j \in D : nd[i].next # NoNode /\ nd[i].next = nd[j].next => i = j

\* Brent's variation, for keys whose value is nil too.
Brent(D, nd, p) ==
    \A i \in D : nd[i].key # Nil /\ p[nd[i].key] # i
        => /\ nd[p[nd[i].key]].key # Nil
           /\ p[nd[p[nd[i].key]].key] = p[nd[i].key]

\* A key is in the chain of its main position.
Rooted(D, nd, p) == \A i \in D : nd[i].key # Nil => Reach(D, nd, p[nd[i].key], i)

Unique(D, nd) ==
    \A i, j \in D : nd[i].key # Nil /\ nd[i].key = nd[j].key /\ ~nd[i].dead /\ ~nd[j].dead
        => i = j

\* A dead key comes after the live one it equals.
DeadLast(D, nd, r) ==
    \A i, j \in D : nd[i].key # Nil /\ nd[i].key = nd[j].key /\ ~nd[i].dead /\ nd[j].dead
        => r[j] < r[i]

Clean(D, nd) ==
    \A i \in D : /\ nd[i].dead => nd[i].val = Nil /\ nd[i].key \in StrKeys
                 /\ nd[i].key = Nil => nd[i] = EmptyNode

Typed(D, nd, p) == D \subseteq Nat /\ nd \in [D -> Node] /\ p \in [Keys -> D]

Ranked(D, nd, p, r) ==
    /\ r \in [D -> Nat]
    /\ Linked(D, nd, r) /\ DeadLast(D, nd, r)
    /\ NoDouble(D, nd) /\ Brent(D, nd, p) /\ Rooted(D, nd, p) /\ Unique(D, nd)
    /\ Clean(D, nd)

Layout(D, nd, p) == Typed(D, nd, p) /\ \E r : Ranked(D, nd, p, r)

LEMMA NilIsNoKey == Nil \notin Keys /\ Nil \notin Values /\ Nil \notin IntKeys
                    /\ IntKeys \subseteq Nat /\ IntKeys \cap StrKeys = {}
<1>1. IntKeys \subseteq Nat /\ Nil \notin Values /\ Nil \notin StrKeys
  BY LuaTableAssumption
<1>2. \A k \in IntKeys : k \in Int
  BY <1>1
<1>3. Nil \notin IntKeys
  BY <1>2, LuaTableAssumption, Zenon
<1>4. IntKeys \cap StrKeys = {}
  <2> SUFFICES ASSUME NEW k \in IntKeys, k \in StrKeys PROVE FALSE
    OBVIOUS
  <2>1. k \in StrKeys \cap Int
    BY <1>2
  <2> QED
    BY <2>1, LuaTableAssumption
<1> QED
  BY <1>1, <1>3, <1>4 DEF Keys

LEMMA NodeFields ==
    ASSUME NEW n \in Node
    PROVE  /\ n.key \in Keys \cup {Nil} /\ n.dead \in BOOLEAN /\ n.val \in V /\ n.next \in Int
           /\ n = [key |-> n.key, dead |-> n.dead, val |-> n.val, next |-> n.next]
BY DEF Node

LEMMA EmptyIsNode ==
    /\ EmptyNode \in Node
    /\ EmptyNode.key = Nil /\ EmptyNode.dead = FALSE /\ EmptyNode.val = Nil /\ EmptyNode.next = NoNode
BY DEF EmptyNode, Node, V, NoNode

LEMMA ReachSelf == \A D, nd, m : Reach(D, nd, m, m)
BY DEF Reach

LEMMA ReachNext ==
    ASSUME NEW D, NEW nd, NEW m \in D, NEW i, nd[m].next # NoNode, Reach(D, nd, nd[m].next, i)
    PROVE  Reach(D, nd, m, i)
BY DEF Reach, Closed

LEMMA ReachStep ==
    ASSUME NEW D, NEW nd, NEW m \in D, NEW i, Reach(D, nd, m, i), i # m
    PROVE  nd[m].next # NoNode /\ (nd[m].next \in D => Reach(D, nd, nd[m].next, i))
<1>1. nd[m].next # NoNode
  <2> SUFFICES ASSUME nd[m].next = NoNode PROVE FALSE
    OBVIOUS
  <2>1. Closed(nd, {m}) /\ {m} \in SUBSET D
    BY DEF Closed
  <2> QED
    BY <2>1 DEF Reach
<1>2. ASSUME nd[m].next \in D, NEW S \in SUBSET D, nd[m].next \in S, Closed(nd, S) PROVE i \in S
  <2> DEFINE W == S \cup {m}
  <2>1. W \in SUBSET D /\ m \in W
    OBVIOUS
  <2>2. Closed(nd, W)
    BY <1>2 DEF Closed
  <2> HIDE DEF W
  <2>3. i \in W
    BY <2>1, <2>2 DEF Reach
  <2> QED
    BY <2>3 DEF W
<1>3. nd[m].next \in D => Reach(D, nd, nd[m].next, i)
  BY <1>2 DEF Reach
<1> QED
  BY <1>1, <1>3

LEMMA ReachRank ==
    ASSUME NEW D, NEW nd, NEW r \in [D -> Nat], Linked(D, nd, r),
           NEW m \in D, NEW i, Reach(D, nd, m, i)
    PROVE  i \in D /\ (i = m \/ r[i] < r[m])
<1> DEFINE S == {x \in D : x = m \/ r[x] < r[m]}
<1>1. S \in SUBSET D /\ m \in S
  OBVIOUS
<1>2. Closed(nd, S)
  <2> SUFFICES ASSUME NEW x \in S, nd[x].next # NoNode PROVE nd[x].next \in S
    BY DEF Closed
  <2>1. x \in D /\ nd[x].next \in D /\ r[nd[x].next] < r[x]
    BY DEF Linked
  <2>2. r[x] \in Nat /\ r[m] \in Nat /\ r[nd[x].next] \in Nat
    BY <2>1
  <2>3. x = m \/ r[x] < r[m]
    OBVIOUS
  <2>4. r[nd[x].next] < r[m]
    BY <2>1, <2>2, <2>3
  <2> QED
    BY <2>1, <2>4
<1> HIDE DEF S
<1>3. i \in S
  BY <1>1, <1>2 DEF Reach
<1> QED
  BY <1>3 DEF S

\* A node other than the first of a chain has a predecessor in the chain.
LEMMA ReachPrevious ==
    ASSUME NEW D, NEW nd, NEW m \in D, NEW i, Reach(D, nd, m, i), i # m,
           \A x \in D : nd[x].next # NoNode => nd[x].next \in D
    PROVE  \E x \in D : Reach(D, nd, m, x) /\ nd[x].next = i
<1> SUFFICES ASSUME \A x \in D : Reach(D, nd, m, x) => nd[x].next # i PROVE FALSE
  OBVIOUS
<1> DEFINE S == {x \in D : Reach(D, nd, m, x) /\ x # i}
<1>1. S \in SUBSET D /\ m \in S
  BY ReachSelf
<1>2. ASSUME NEW x \in S, nd[x].next # NoNode PROVE nd[x].next \in S
  <2>1. x \in D /\ Reach(D, nd, m, x) /\ nd[x].next \in D /\ nd[x].next # i
    BY <1>2
  <2>2. Reach(D, nd, m, nd[x].next)
    BY <1>2, <2>1 DEF Reach, Closed
  <2> QED
    BY <2>1, <2>2
<1>3. Closed(nd, S)
  BY <1>2 DEF Closed
<1>4. i \notin S
  OBVIOUS
<1> HIDE DEF S
<1> QED
  BY <1>1, <1>3, <1>4 DEF Reach

\* What a search along a chain finds.
Found(D, nd, r, M, m, s) ==
    \/ s = NoNode /\ \A i \in M : ~Reach(D, nd, m, i)
    \/ s \in M /\ Reach(D, nd, m, s) /\ \A i \in M : Reach(D, nd, m, i) => r[i] <= r[s]

LEMMA SearchFinds ==
    ASSUME NEW D, D \subseteq Nat, NEW nd, NEW r \in [D -> Nat], Linked(D, nd, r),
           NEW M \in SUBSET D, NEW f,
           \A n \in {NoNode} \cup D : f[n] = IF n = NoNode \/ n \in M THEN n ELSE f[nd[n].next]
    PROVE  \A m \in D : Found(D, nd, r, M, m, f[m])
<1> DEFINE W == {r[m] : m \in {q \in D : ~Found(D, nd, r, M, q, f[q])}}
<1> SUFFICES ASSUME W # {} PROVE FALSE
  OBVIOUS
<1>0. NoNode \notin D
  BY DEF NoNode
<1>1. W \subseteq Nat
  OBVIOUS
<1>2. PICK w \in W : \A y \in W : w <= y
  BY <1>1, LeastNatural
<1>3. PICK m \in D : r[m] = w /\ ~Found(D, nd, r, M, m, f[m])
  OBVIOUS
<1>4. \A q \in D : r[q] < r[m] => Found(D, nd, r, M, q, f[q])
  <2> SUFFICES ASSUME NEW q \in D, r[q] < r[m], ~Found(D, nd, r, M, q, f[q]) PROVE FALSE
    OBVIOUS
  <2>1. r[q] \in W /\ r[q] \in Nat /\ r[m] \in Nat
    OBVIOUS
  <2>2. w <= r[q]
    BY <1>2, <2>1
  <2> QED
    BY <1>3, <2>1, <2>2
<1> HIDE DEF W
<1>5. CASE m \in M
  <2>1. f[m] = m
    BY <1>5
  <2>2. \A i \in M : Reach(D, nd, m, i) => r[i] <= r[m]
    <3> SUFFICES ASSUME NEW i \in M, Reach(D, nd, m, i) PROVE r[i] <= r[m]
      OBVIOUS
    <3>1. i \in D /\ (i = m \/ r[i] < r[m])
      BY ReachRank
    <3> QED
      BY <3>1
  <2> QED
    BY <1>3, <1>5, <2>1, <2>2, ReachSelf DEF Found
<1>6. CASE m \notin M /\ nd[m].next = NoNode
  <2>1. f[m] = f[NoNode] /\ f[NoNode] = NoNode
    BY <1>0, <1>6
  <2>2. \A i \in M : ~Reach(D, nd, m, i)
    BY <1>6, ReachStep
  <2> QED
    BY <1>3, <2>1, <2>2 DEF Found
<1>7. CASE m \notin M /\ nd[m].next # NoNode
  <2>0. PICK y : y = nd[m].next
    OBVIOUS
  <2>1. f[m] = f[y] /\ y \in D /\ r[y] < r[m] /\ y # NoNode
    BY <1>0, <1>7, <2>0 DEF Linked
  <2>2. Found(D, nd, r, M, y, f[y])
    BY <1>4, <2>1
  <2>3. \A i \in M : Reach(D, nd, m, i) <=> Reach(D, nd, y, i)
    BY <1>7, <2>0, <2>1, ReachStep, ReachNext
  <2>4. Reach(D, nd, y, f[y]) => Reach(D, nd, m, f[y])
    BY <2>0, <2>1, ReachNext
  <2>5. Found(D, nd, r, M, m, f[y])
    BY <2>2, <2>3, <2>4 DEF Found
  <2> QED
    BY <1>3, <2>1, <2>5
<1> QED
  BY <1>5, <1>6, <1>7

LEMMA SearchChainFinds ==
    ASSUME NEW t, NEW k, NEW D, D = DOMAIN t.node, D \subseteq Nat, NEW r \in [D -> Nat],
           Linked(D, t.node, r), NEW M \in SUBSET D, MainPosition(t, k) \in D
    PROVE  Found(D, t.node, r, M, MainPosition(t, k), SearchChain(t, k, M))
<1> DEFINE E == {NoNode} \cup D
           B == {NoNode} \cup M
           b == [n \in E |-> n]
           g == [q \in E \X E |-> q[2]]
           nx == [n \in E |-> t.node[n].next]
           rr == [n \in E |-> IF n = NoNode THEN 0 ELSE r[n] + 1]
<1>0. NoNode \notin D
  BY DEF NoNode
<1>1. b \in [E -> E] /\ g \in [E \X E -> E]
  OBVIOUS
<1>2. rr \in [E -> Nat]
  OBVIOUS
<1>3. ASSUME NEW n \in E \ B PROVE nx[n] \in E /\ rr[nx[n]] < rr[n]
  <2>0. PICK y : y = t.node[n].next
    OBVIOUS
  <2>1. n \in D /\ n # NoNode /\ nx[n] = y /\ rr[n] = r[n] + 1 /\ r[n] \in Nat
    BY <2>0
  <2>2. y # NoNode => y \in D /\ r[y] < r[n] /\ r[y] \in Nat
    BY <2>0, <2>1 DEF Linked
  <2>3. y \in E
    BY <2>2
  <2>4. rr[y] = IF y = NoNode THEN 0 ELSE r[y] + 1
    BY <2>3
  <2> HIDE DEF rr, nx, E
  <2> QED
    BY <2>1, <2>2, <2>3, <2>4
<1>4. \A n \in E : b[n] = n /\ nx[n] = t.node[n].next
  OBVIOUS
<1>5. \A n \in E : \A x \in E : g[<<n, x>>] = x
  OBVIOUS
<1>6. PICK f \in [E -> E] : \A n \in E : f[n] = Recur(B, b, g, nx, n, f)
  <2> HIDE DEF E, B, b, g, nx, rr
  <2>1. Descends(E, E, B, b, g, nx, rr)
    BY <1>1, <1>2, <1>3 DEF Descends
  <2> QED
    BY <2>1, Recursion
<1>7. ASSUME NEW n \in E
      PROVE  f[n] = IF n = NoNode \/ n \in M THEN n ELSE f[t.node[n].next]
  <2>1. n \notin B => nx[n] \in E /\ f[nx[n]] \in E
    BY <1>3
  <2>2. n \in B <=> n = NoNode \/ n \in M
    OBVIOUS
  <2> HIDE DEF E, B, b, g, nx, rr
  <2>3. f[n] = IF n \in B THEN b[n] ELSE g[<<n, f[nx[n]]>>]
    BY <1>6 DEF Recur
  <2> QED
    BY <1>4, <1>5, <2>1, <2>2, <2>3
<1> DEFINE from == CHOOSE h : h = [n \in E |-> IF n = NoNode \/ n \in M THEN n ELSE h[t.node[n].next]]
<1>8. f = [n \in E |-> IF n = NoNode \/ n \in M THEN n ELSE f[t.node[n].next]]
  <2> HIDE DEF E
  <2> QED
    BY <1>7
<1>9. from = [n \in E |-> IF n = NoNode \/ n \in M THEN n ELSE from[t.node[n].next]]
  BY <1>8
<1>10. SearchChain(t, k, M) = from[MainPosition(t, k)]
  BY DEF SearchChain
<1> HIDE DEF from
<1>11. \A n \in E : from[n] = IF n = NoNode \/ n \in M THEN n ELSE from[t.node[n].next]
  BY <1>9
<1>12. \A m \in D : Found(D, t.node, r, M, m, from[m])
  BY <1>11, SearchFinds
<1> QED
  BY <1>10, <1>12

-----------------------------------------------------------------------------
(* What newkey does to the hash part.                                      *)

LEMMA PosType ==
    ASSUME NEW D, NEW nd, NEW p, Typed(D, nd, p), NEW i \in D, nd[i].key # Nil
    PROVE  nd[i].key \in Keys /\ p[nd[i].key] \in D
BY NodeFields DEF Typed

\* The first case of newkey: the main position of k has no value.
LEMMA LayoutFill ==
    ASSUME NEW D, NEW nd, NEW p, Layout(D, nd, p), NEW k \in Keys, NEW mp, mp = p[k],
           nd[mp].val = Nil,
           \A i \in D : ~(nd[i].key = k /\ ~nd[i].dead),
           NEW nd1 \in [D -> Node],
           nd1[mp].key = k, ~nd1[mp].dead, nd1[mp].next = nd[mp].next,
           \A i \in D \ {mp} : nd1[i] = nd[i]
    PROVE  Layout(D, nd1, p)
<1>1. PICK r : Ranked(D, nd, p, r)
  BY DEF Layout
<1>t. Typed(D, nd, p) /\ mp \in D /\ k # Nil /\ k \in Keys
  BY NilIsNoKey DEF Layout, Typed
<1>n. \A i \in D : nd1[i].next = nd[i].next
  OBVIOUS
<1>k. \A i \in D : nd[i].key # Nil => nd1[i].key # Nil
  BY <1>t
<1>2. \A m, i : Reach(D, nd1, m, i) <=> Reach(D, nd, m, i)
  <2>1. \A S \in SUBSET D : Closed(nd1, S) <=> Closed(nd, S)
    BY <1>n DEF Closed
  <2> QED
    BY <2>1 DEF Reach
<1>3. Linked(D, nd1, r)
  BY <1>1, <1>n, <1>k DEF Linked, Ranked
<1>4. DeadLast(D, nd1, r)
  <2> SUFFICES ASSUME NEW i \in D, NEW j \in D, nd1[i].key # Nil, nd1[i].key = nd1[j].key,
                      ~nd1[i].dead, nd1[j].dead
               PROVE  r[j] < r[i]
    BY DEF DeadLast
  <2>1. j # mp /\ nd1[j] = nd[j]
    OBVIOUS
  <2>2. CASE i = mp
    <3>1. nd[j].key = k
      BY <2>1, <2>2
    <3>2. Reach(D, nd, mp, j)
      BY <1>1, <1>t, <3>1 DEF Ranked, Rooted
    <3> QED
      BY <1>1, <1>t, <2>1, <2>2, <3>2, ReachRank DEF Ranked
  <2>3. CASE i # mp
    BY <1>1, <2>1, <2>3 DEF Ranked, DeadLast
  <2> QED
    BY <2>2, <2>3
<1>5. NoDouble(D, nd1)
  BY <1>1, <1>n DEF NoDouble, Ranked
<1>6. Brent(D, nd1, p)
  <2> SUFFICES ASSUME NEW i \in D, nd1[i].key # Nil, p[nd1[i].key] # i
               PROVE  nd1[p[nd1[i].key]].key # Nil /\ p[nd1[p[nd1[i].key]].key] = p[nd1[i].key]
    BY DEF Brent
  <2>0. i # mp
    OBVIOUS
  <2>1. PICK m : m = p[nd[i].key]
    OBVIOUS
  <2>2. m \in D
    BY <1>t, <2>0, <2>1, PosType
  <2>3. nd[m].key # Nil /\ p[nd[m].key] = m
    BY <1>1, <2>0, <2>1 DEF Ranked, Brent
  <2>4. CASE m = mp
    BY ZenonT(40), <1>t, <2>0, <2>1, <2>4
  <2>5. CASE m # mp
    BY <2>0, <2>1, <2>2, <2>3, <2>5
  <2> QED
    BY <2>4, <2>5
<1>7. Rooted(D, nd1, p)
  <2> SUFFICES ASSUME NEW i \in D, nd1[i].key # Nil PROVE Reach(D, nd, p[nd1[i].key], i)
    BY <1>2 DEF Rooted
  <2>1. CASE i = mp
    BY <2>1, ReachSelf
  <2>2. CASE i # mp
    BY <1>1, <2>2 DEF Rooted, Ranked
  <2> QED
    BY <2>1, <2>2
<1>8. Unique(D, nd1)
  <2> SUFFICES ASSUME NEW i \in D, NEW j \in D, nd1[i].key # Nil, nd1[i].key = nd1[j].key,
                      ~nd1[i].dead, ~nd1[j].dead
               PROVE  i = j
    BY DEF Unique
  <2>1. CASE i # mp /\ j # mp
    BY <1>1, <2>1 DEF Ranked, Unique
  <2>2. CASE i = mp /\ j # mp
    BY <2>2
  <2>3. CASE i # mp /\ j = mp
    BY <2>3
  <2> QED
    BY <2>1, <2>2, <2>3
<1>9. Clean(D, nd1)
  BY <1>1, <1>t DEF Clean, Ranked
<1>10. Ranked(D, nd1, p, r)
  BY <1>1, <1>3, <1>4, <1>5, <1>6, <1>7, <1>8, <1>9 DEF Ranked
<1> QED
  BY <1>10, <1>t DEF Layout, Typed

\* The last case of newkey: the colliding node keeps its place, and the new
\* node n follows it in the chain.
InsertsAfter(D, nd, nd1, p, k, mp, n) ==
    /\ k \in Keys /\ mp = p[k] /\ nd[mp].val # Nil /\ p[nd[mp].key] = mp
    /\ n \in D /\ nd[n].key = Nil
    /\ \A i \in D : ~(nd[i].key = k /\ ~nd[i].dead)
    /\ nd1 \in [D -> Node]
    /\ nd1[n].key = k /\ ~nd1[n].dead /\ nd1[n].next = nd[mp].next
    /\ nd1[mp].key = nd[mp].key /\ nd1[mp].dead = nd[mp].dead /\ nd1[mp].val = nd[mp].val
    /\ nd1[mp].next = n
    /\ \A i \in D \ {mp, n} : nd1[i] = nd[i]

LEMMA LayoutChain ==
    ASSUME NEW D, NEW nd, NEW p, Layout(D, nd, p), NEW nd1, NEW k, NEW mp, NEW n,
           InsertsAfter(D, nd, nd1, p, k, mp, n)
    PROVE  Layout(D, nd1, p)
<1> /\ k \in Keys /\ mp = p[k] /\ nd[mp].val # Nil /\ p[nd[mp].key] = mp
    /\ n \in D /\ nd[n].key = Nil
    /\ \A i \in D : ~(nd[i].key = k /\ ~nd[i].dead)
    /\ nd1 \in [D -> Node]
    /\ nd1[n].key = k /\ ~nd1[n].dead /\ nd1[n].next = nd[mp].next
    /\ nd1[mp].key = nd[mp].key /\ nd1[mp].dead = nd[mp].dead /\ nd1[mp].val = nd[mp].val
    /\ nd1[mp].next = n
    /\ \A i \in D \ {mp, n} : nd1[i] = nd[i]
  BY DEF InsertsAfter
<1>1. PICK r : Ranked(D, nd, p, r)
  BY DEF Layout
<1>t. Typed(D, nd, p) /\ mp \in D /\ k # Nil /\ k \in Keys /\ D \subseteq Nat
  BY NilIsNoKey DEF Layout, Typed
<1>e. nd[n] = EmptyNode
  BY <1>1 DEF Ranked, Clean
<1>m. mp # n /\ nd[mp].key # Nil /\ ~nd[mp].dead /\ n # NoNode
  <2>1. mp # n
    BY <1>e, EmptyIsNode
  <2>2. nd[mp].key # Nil /\ ~nd[mp].dead
    BY <1>1, <1>t, EmptyIsNode DEF Ranked, Clean
  <2> QED
    BY <1>t, <2>1, <2>2 DEF NoNode
<1>u. \A i \in D : nd[i].next # n
  BY <1>1, <1>m DEF Ranked, Linked
<1>l. \A i \in D : nd[i].next # NoNode => nd[i].next \in D /\ nd[i].key # Nil /\ nd[nd[i].next].key # Nil
  BY <1>1 DEF Ranked, Linked
<1>k. \A i \in D : (i # n => nd1[i].key = nd[i].key) /\ (nd[i].key # Nil => nd1[i].key # Nil)
  BY <1>t, <1>m
<1>x. \A i \in D : nd1[i].next = IF i = mp THEN n ELSE IF i = n THEN nd[mp].next ELSE nd[i].next
  BY <1>m
<1>d. \A i \in D : nd1[i].dead => nd[i].dead /\ i # n /\ i # mp
  BY <1>m
<1>r. \A i \in D : r[i] \in Nat
  BY <1>1 DEF Ranked
<1>p. nd[mp].next # NoNode => r[nd[mp].next] < r[mp]
  BY <1>1, <1>t DEF Ranked, Linked
<1> DEFINE q == [i \in D |-> IF i = n THEN 2 * r[mp] + 1 ELSE 2 * r[i] + 2]
<1>s. q \in [D -> Nat] /\ q[n] = 2 * r[mp] + 1 /\ \A i \in D : i # n => q[i] = 2 * r[i] + 2
  BY <1>r, <1>t
<1> HIDE DEF q
<1>3. Linked(D, nd1, q)
  <2> SUFFICES ASSUME NEW i \in D, nd1[i].next # NoNode
               PROVE  /\ nd1[i].next \in D /\ nd1[i].key # Nil /\ nd1[nd1[i].next].key # Nil
                      /\ q[nd1[i].next] < q[i]
    BY DEF Linked
  <2>1. CASE i = mp
    BY <1>m, <1>r, <1>s, <1>t, <1>x, <2>1
  <2>2. CASE i = n
    <3>1. PICK y : y = nd[mp].next
      OBVIOUS
    <3>2. nd1[i].next = y /\ y \in D /\ y # n /\ nd[y].key # Nil
      BY <1>l, <1>m, <1>t, <1>u, <1>x, <2>2, <3>1
    <3>3. r[y] < r[mp]
      BY <1>p, <2>2, <3>1
    <3>4. q[y] < q[i]
      BY <1>r, <1>s, <1>t, <2>2, <3>2, <3>3
    <3> QED
      BY <1>k, <1>t, <2>2, <3>2, <3>4
  <2>3. CASE i # mp /\ i # n
    <3>1. PICK y : y = nd[i].next
      OBVIOUS
    <3>2. nd1[i].next = y /\ y \in D /\ y # n /\ nd[y].key # Nil /\ nd[i].key # Nil
      BY <1>l, <1>u, <1>x, <2>3, <3>1
    <3>3. r[y] < r[i]
      BY <1>1, <2>3, <3>1, <3>2 DEF Ranked, Linked
    <3>4. q[y] < q[i]
      BY <1>r, <1>s, <2>3, <3>2, <3>3
    <3> QED
      BY <1>k, <3>2, <3>4
  <2> QED
    BY <2>1, <2>2, <2>3
<1>4. DeadLast(D, nd1, q)
  <2> SUFFICES ASSUME NEW i \in D, NEW j \in D, nd1[i].key # Nil, nd1[i].key = nd1[j].key,
                      ~nd1[i].dead, nd1[j].dead
               PROVE  q[j] < q[i]
    BY DEF DeadLast
  <2>1. j # n /\ j # mp /\ nd[j].dead /\ nd1[j].key = nd[j].key /\ q[j] = 2 * r[j] + 2
    BY <1>d, <1>k, <1>s
  <2>2. CASE i = n
    <3>1. Reach(D, nd, mp, j)
      BY <1>1, <1>t, <2>1, <2>2 DEF Ranked, Rooted
    <3>2. r[j] < r[mp]
      BY <1>1, <1>t, <2>1, <3>1, ReachRank DEF Ranked
    <3> QED
      BY <1>r, <1>s, <1>t, <2>1, <2>2, <3>2
  <2>3. CASE i # n
    <3>1. ~nd[i].dead /\ nd[i].key = nd1[i].key
      BY <1>k, <2>3
    <3>2. r[j] < r[i]
      BY <1>1, <2>1, <3>1 DEF Ranked, DeadLast
    <3> QED
      BY <1>r, <1>s, <2>1, <2>3, <3>2
  <2> QED
    BY <2>2, <2>3
<1>5. NoDouble(D, nd1)
  <2> SUFFICES ASSUME NEW i \in D, NEW j \in D, nd1[i].next # NoNode, nd1[i].next = nd1[j].next
               PROVE  i = j
    BY DEF NoDouble
  <2>1. \A a, c \in D : nd[a].next # NoNode /\ nd[a].next = nd[c].next => a = c
    BY <1>1 DEF Ranked, NoDouble
  <2>2. CASE i = mp
    BY <1>m, <1>t, <1>u, <1>x, <2>2
  <2>3. CASE j = mp
    BY <1>m, <1>t, <1>u, <1>x, <2>3
  <2>4. CASE i # mp /\ j # mp
    BY <1>m, <1>t, <1>x, <2>1, <2>4
  <2> QED
    BY <2>2, <2>3, <2>4
<1>6. Brent(D, nd1, p)
  <2> SUFFICES ASSUME NEW i \in D, nd1[i].key # Nil, p[nd1[i].key] # i
               PROVE  nd1[p[nd1[i].key]].key # Nil /\ p[nd1[p[nd1[i].key]].key] = p[nd1[i].key]
    BY DEF Brent
  <2>1. CASE i = n
    BY <1>k, <1>m, <1>t, <2>1
  <2>2. CASE i # n
    <3>0. nd1[i].key = nd[i].key
      BY <1>k, <2>2
    <3>1. PICK m : m = p[nd[i].key]
      OBVIOUS
    <3>2. m \in D
      BY <1>t, <3>0, <3>1, PosType
    <3>3. nd[m].key # Nil /\ p[nd[m].key] = m
      BY <1>1, <3>0, <3>1 DEF Ranked, Brent
    <3>4. m # n
      BY <3>3
    <3> QED
      BY <1>k, <3>0, <3>1, <3>2, <3>3, <3>4
  <2> QED
    BY <2>1, <2>2
<1>7. Rooted(D, nd1, p)
  <2> SUFFICES ASSUME NEW i \in D, nd1[i].key # Nil PROVE Reach(D, nd1, p[nd1[i].key], i)
    BY DEF Rooted
  <2>1. CASE i = n
    <3>1. nd1[mp].next = n /\ n # NoNode
      BY <1>m
    <3>2. Reach(D, nd1, n, n)
      BY ReachSelf
    <3>3. Reach(D, nd1, mp, n)
      BY <1>t, <3>1, <3>2, ReachNext
    <3> QED
      BY <2>1, <3>3
  <2>2. CASE i # n
    <3>0. nd1[i].key = nd[i].key
      BY <1>k, <2>2
    <3>1. PICK m : m = p[nd[i].key]
      OBVIOUS
    <3>2. m \in D /\ Reach(D, nd, m, i)
      BY <1>1, <1>t, <3>0, <3>1, PosType DEF Ranked, Rooted
    <3>3. m # n
      BY <1>1, <2>2, <3>0, <3>1 DEF Ranked, Brent
    <3>4. ASSUME NEW S \in SUBSET D, m \in S, Closed(nd1, S) PROVE i \in S
      <4> DEFINE W == S \ {n}
      <4>1. W \in SUBSET D /\ m \in W
        BY <3>3, <3>4
      <4>2. ASSUME NEW x \in W, nd[x].next # NoNode PROVE nd[x].next \in W
        <5>1. x \in D /\ x \in S /\ x # n /\ nd[x].next # n
          BY <1>u
        <5>2. CASE x = mp
          <6>1. n \in S
            BY <1>m, <3>4, <5>1, <5>2 DEF Closed
          <6>2. nd1[n].next = nd[x].next
            BY <5>2
          <6>3. nd[x].next \in S
            BY <3>4, <4>2, <6>1, <6>2 DEF Closed
          <6> QED
            BY <5>1, <6>3
        <5>3. CASE x # mp
          <6>1. nd1[x].next = nd[x].next
            BY <5>1, <5>3
          <6>2. nd[x].next \in S
            BY <3>4, <4>2, <5>1, <6>1 DEF Closed
          <6> QED
            BY <5>1, <6>2
        <5> QED
          BY <5>2, <5>3
      <4>3. Closed(nd, W)
        BY <4>2 DEF Closed
      <4> HIDE DEF W
      <4>4. i \in W
        BY <3>2, <4>1, <4>3 DEF Reach
      <4> QED
        BY <4>4 DEF W
    <3>5. Reach(D, nd1, m, i)
      BY <3>4 DEF Reach
    <3> QED
      BY <3>0, <3>1, <3>5
  <2> QED
    BY <2>1, <2>2
<1>8. Unique(D, nd1)
  <2> SUFFICES ASSUME NEW i \in D, NEW j \in D, nd1[i].key # Nil, nd1[i].key = nd1[j].key,
                      ~nd1[i].dead, ~nd1[j].dead
               PROVE  i = j
    BY DEF Unique
  <2>0. \A a \in D : a # n /\ ~nd1[a].dead => nd1[a].key = nd[a].key /\ ~nd[a].dead
    BY <1>k
  <2>1. CASE i # n /\ j # n
    BY <1>1, <2>0, <2>1 DEF Ranked, Unique
  <2>2. CASE i = n /\ j # n
    BY <2>0, <2>2
  <2>3. CASE i # n /\ j = n
    BY <2>0, <2>3
  <2> QED
    BY <2>1, <2>2, <2>3
<1>9. Clean(D, nd1)
  <2> SUFFICES ASSUME NEW i \in D
               PROVE  /\ nd1[i].dead => nd1[i].val = Nil /\ nd1[i].key \in StrKeys
                      /\ nd1[i].key = Nil => nd1[i] = EmptyNode
    BY DEF Clean
  <2>1. CASE i = n \/ i = mp
    BY <1>m, <1>t, <2>1
  <2>2. CASE i # n /\ i # mp
    BY <1>1, <2>2 DEF Ranked, Clean
  <2> QED
    BY <2>1, <2>2
<1>10. Ranked(D, nd1, p, q)
  BY <1>s, <1>3, <1>4, <1>5, <1>6, <1>7, <1>8, <1>9 DEF Ranked
<1> QED
  BY <1>10, <1>t DEF Layout, Typed

\* The second case of newkey: the colliding node at mp is out of its main
\* position and moves to the free node n; k gets mp.
MovesAway(D, nd, nd1, p, k, mp, n, prev) ==
    /\ k \in Keys /\ mp = p[k] /\ nd[mp].val # Nil /\ p[nd[mp].key] # mp
    /\ n \in D /\ nd[n].key = Nil
    /\ prev \in D /\ nd[prev].next = mp
    /\ nd1 \in [D -> Node]
    /\ nd1[mp].key = k /\ ~nd1[mp].dead /\ nd1[mp].next = NoNode
    /\ nd1[n] = nd[mp]
    /\ nd1[prev].key = nd[prev].key /\ nd1[prev].dead = nd[prev].dead
    /\ nd1[prev].val = nd[prev].val /\ nd1[prev].next = n
    /\ \A i \in D \ {mp, n, prev} : nd1[i] = nd[i]

LEMMA LayoutMove ==
    ASSUME NEW D, NEW nd, NEW p, Layout(D, nd, p), NEW nd1, NEW k, NEW mp, NEW n, NEW prev,
           MovesAway(D, nd, nd1, p, k, mp, n, prev)
    PROVE  Layout(D, nd1, p)
<1> /\ k \in Keys /\ mp = p[k] /\ nd[mp].val # Nil /\ p[nd[mp].key] # mp
    /\ n \in D /\ nd[n].key = Nil
    /\ prev \in D /\ nd[prev].next = mp
    /\ nd1 \in [D -> Node]
    /\ nd1[mp].key = k /\ ~nd1[mp].dead /\ nd1[mp].next = NoNode
    /\ nd1[n] = nd[mp]
    /\ nd1[prev].key = nd[prev].key /\ nd1[prev].dead = nd[prev].dead
    /\ nd1[prev].val = nd[prev].val /\ nd1[prev].next = n
    /\ \A i \in D \ {mp, n, prev} : nd1[i] = nd[i]
  BY DEF MovesAway
<1>1. PICK r : Ranked(D, nd, p, r)
  BY DEF Layout
<1>t. Typed(D, nd, p) /\ mp \in D /\ k # Nil /\ k \in Keys /\ D \subseteq Nat
  BY NilIsNoKey DEF Layout, Typed
<1>e. nd[n] = EmptyNode
  BY <1>1 DEF Ranked, Clean
<1>r. \A i \in D : r[i] \in Nat
  BY <1>1 DEF Ranked
<1>l. \A i \in D : nd[i].next # NoNode =>
         nd[i].next \in D /\ nd[i].key # Nil /\ nd[nd[i].next].key # Nil /\ r[nd[i].next] < r[i]
  BY <1>1 DEF Ranked, Linked
<1>m. mp # n /\ nd[mp].key # Nil /\ ~nd[mp].dead /\ n # NoNode /\ mp # NoNode
  <2>1. mp # n
    BY <1>e, EmptyIsNode
  <2>2. nd[mp].key # Nil /\ ~nd[mp].dead
    BY <1>1, <1>t, EmptyIsNode DEF Ranked, Clean
  <2> QED
    BY <1>t, <2>1, <2>2 DEF NoNode
<1>v. prev # n /\ prev # mp /\ nd[prev].key # Nil
  <2>1. r[mp] < r[prev] /\ nd[prev].key # Nil
    BY <1>l, <1>m
  <2> QED
    BY <1>r, <1>t, <2>1
<1>u. \A i \in D : nd[i].next # n /\ (nd[i].next = mp => i = prev)
  <2>1. \A i \in D : nd[i].next # n
    BY <1>l, <1>m
  <2>2. \A i \in D : nd[i].next = mp => i = prev
    BY <1>1, <1>m DEF Ranked, NoDouble
  <2> QED
    BY <2>1, <2>2
<1>o. \A i \in D : nd[i].key # Nil => p[nd[i].key] # mp
  <2> SUFFICES ASSUME NEW i \in D, nd[i].key # Nil, p[nd[i].key] = mp PROVE FALSE
    OBVIOUS
  <2>1. i # mp
    OBVIOUS
  <2> QED
    BY <1>1, <2>1 DEF Ranked, Brent
<1>k. \A i \in D : i # n /\ i # mp => nd1[i].key = nd[i].key /\ nd1[i].dead = nd[i].dead /\ nd1[i].val = nd[i].val
  OBVIOUS
<1>kk. \A i \in D : nd[i].key # Nil => nd1[i].key # Nil
  BY <1>k, <1>t
<1>x. \A i \in D : i # n /\ i # mp /\ i # prev => nd1[i].next = nd[i].next
  OBVIOUS
<1> DEFINE q == [i \in D |-> IF i = n THEN r[mp] ELSE r[i]]
<1>s. q \in [D -> Nat] /\ q[n] = r[mp] /\ \A i \in D : i # n => q[i] = r[i]
  BY <1>r, <1>t
<1> HIDE DEF q
<1>3. Linked(D, nd1, q)
  <2> SUFFICES ASSUME NEW i \in D, nd1[i].next # NoNode
               PROVE  /\ nd1[i].next \in D /\ nd1[i].key # Nil /\ nd1[nd1[i].next].key # Nil
                      /\ q[nd1[i].next] < q[i]
    BY DEF Linked
  <2>1. CASE i = prev
    <3>1. nd1[i].next = n /\ n \in D /\ nd1[n].key # Nil /\ nd1[i].key # Nil
      BY <1>m, <1>v, <2>1
    <3>2. r[mp] < r[prev]
      BY <1>l, <1>m
    <3> QED
      BY <1>s, <1>v, <2>1, <3>1, <3>2
  <2>2. CASE i = n
    <3>1. PICK y : y = nd[mp].next
      OBVIOUS
    <3>2. nd1[i].next = y /\ y \in D /\ y # n /\ nd[y].key # Nil /\ r[y] < r[mp]
      BY <1>l, <1>t, <1>u, <2>2, <3>1
    <3> QED
      BY <1>kk, <1>m, <1>s, <2>2, <3>2
  <2>3. CASE i # mp /\ i # n /\ i # prev
    <3>1. PICK y : y = nd[i].next
      OBVIOUS
    <3>2. nd1[i].next = y /\ y \in D /\ y # n /\ nd[y].key # Nil /\ nd[i].key # Nil /\ r[y] < r[i]
      BY <1>l, <1>u, <1>x, <2>3, <3>1
    <3> QED
      BY <1>kk, <1>s, <2>3, <3>2
  <2> QED
    BY <2>1, <2>2, <2>3
<1> DEFINE old(i) == IF i = n THEN mp ELSE i
<1>w. \A i \in D : i # mp => /\ old(i) \in D /\ q[i] = r[old(i)]
                             /\ nd1[i].key = nd[old(i)].key /\ nd1[i].dead = nd[old(i)].dead
                             /\ nd1[i].val = nd[old(i)].val
  BY <1>k, <1>s, <1>t
<1>y. \A i, j \in D : i # mp /\ j # mp /\ old(i) = old(j) => i = j
  OBVIOUS
<1>z. \A i \in D : i # mp /\ nd1[i].key = k => FALSE
  BY <1>o, <1>t, <1>w
<1> HIDE DEF old
<1>4. DeadLast(D, nd1, q)
  <2> SUFFICES ASSUME NEW i \in D, NEW j \in D, nd1[i].key # Nil, nd1[i].key = nd1[j].key,
                      ~nd1[i].dead, nd1[j].dead
               PROVE  q[j] < q[i]
    BY DEF DeadLast
  <2>1. j # mp
    OBVIOUS
  <2>2. i # mp
    BY <1>z, <2>1
  <2> QED
    BY <1>1, <1>w, <2>1, <2>2 DEF Ranked, DeadLast
<1>5. NoDouble(D, nd1)
  <2> SUFFICES ASSUME NEW i \in D, NEW j \in D, nd1[i].next # NoNode, nd1[i].next = nd1[j].next
               PROVE  i = j
    BY DEF NoDouble
  <2>1. \A a, c \in D : nd[a].next # NoNode /\ nd[a].next = nd[c].next => a = c
    BY <1>1 DEF Ranked, NoDouble
  <2>2. \A a \in D : a # mp /\ a # prev => old(a) \in D /\ nd1[a].next = nd[old(a)].next
    BY <1>t, <1>x DEF old
  <2>3. i # mp /\ j # mp
    OBVIOUS
  <2>4. CASE i = prev \/ j = prev
    <3>1. \A a \in D : a # mp /\ a # prev => nd1[a].next # n
      BY <1>u, <2>2
    <3> QED
      BY <2>3, <2>4, <3>1
  <2>5. CASE i # prev /\ j # prev
    BY <1>y, <2>1, <2>2, <2>3, <2>5
  <2> QED
    BY <2>4, <2>5
<1>6. Brent(D, nd1, p)
  <2> SUFFICES ASSUME NEW i \in D, nd1[i].key # Nil, p[nd1[i].key] # i
               PROVE  nd1[p[nd1[i].key]].key # Nil /\ p[nd1[p[nd1[i].key]].key] = p[nd1[i].key]
    BY DEF Brent
  <2>1. i # mp
    OBVIOUS
  <2>2. PICK a \in D : a = old(i) /\ nd[a].key = nd1[i].key /\ (a = mp \/ a = i)
    BY <1>w, <2>1 DEF old
  <2>3. PICK m : m = p[nd[a].key]
    OBVIOUS
  <2>4. m \in D /\ m # mp
    BY <1>o, <1>t, <2>2, <2>3, PosType
  <2>5. m # a
    BY <2>2, <2>3, <2>4
  <2>6. nd[m].key # Nil /\ p[nd[m].key] = m
    BY <1>1, <2>2, <2>3, <2>5 DEF Ranked, Brent
  <2>7. m # n
    BY <2>6
  <2> QED
    BY <1>k, <2>2, <2>3, <2>4, <2>6, <2>7
<1>7. Rooted(D, nd1, p)
  <2> SUFFICES ASSUME NEW i \in D, nd1[i].key # Nil PROVE Reach(D, nd1, p[nd1[i].key], i)
    BY DEF Rooted
  <2>1. CASE i = mp
    BY <2>1, ReachSelf
  <2>2. CASE i # mp
    <3>0. PICK a \in D : a = old(i) /\ nd[a].key = nd1[i].key
      BY <1>w, <2>2
    <3>1. PICK m : m = p[nd[a].key]
      OBVIOUS
    <3>2. m \in D /\ Reach(D, nd, m, a) /\ m # mp
      BY <1>1, <1>o, <1>t, <3>0, <3>1, PosType DEF Ranked, Rooted
    <3>3. m # n
      <4>1. CASE m = a
        BY <3>0, <4>1
      <4>2. CASE m # a
        BY <1>1, <3>0, <3>1, <4>2 DEF Ranked, Brent
      <4> QED
        BY <4>1, <4>2
    <3>4. ASSUME NEW S \in SUBSET D, m \in S, Closed(nd1, S) PROVE i \in S
      <4> DEFINE W == {x \in D : (x # mp /\ x # n /\ x \in S) \/ (x = mp /\ n \in S)}
      <4>1. W \in SUBSET D /\ m \in W
        BY <3>2, <3>3, <3>4
      <4>2. ASSUME NEW x \in W, nd[x].next # NoNode PROVE nd[x].next \in W
        <5>0. PICK y : y = nd[x].next
          OBVIOUS
        <5>1. x \in D /\ y \in D /\ y # n
          BY <1>l, <1>u, <4>2, <5>0
        <5>2. CASE x = mp
          <6>1. n \in S /\ nd1[n].next = y
            BY <1>m, <5>0, <5>2
          <6>2. y \in S
            BY <3>4, <4>2, <5>0, <6>1 DEF Closed
          <6>3. y # mp
            BY <1>l, <1>r, <1>t, <4>2, <5>0, <5>2
          <6> QED
            BY <5>0, <5>1, <6>2, <6>3
        <5>3. CASE x = prev
          <6>1. n \in S /\ y = mp
            BY <1>m, <1>v, <3>4, <5>0, <5>3 DEF Closed
          <6> QED
            BY <1>t, <5>0, <6>1
        <5>4. CASE x # mp /\ x # prev
          <6>1. x \in S /\ x # n
            BY <5>4
          <6>2. nd1[x].next = y
            BY <1>x, <5>0, <5>1, <5>4, <6>1
          <6>3. y \in S /\ y # mp
            BY <1>u, <3>4, <4>2, <5>0, <5>1, <5>4, <6>1, <6>2 DEF Closed
          <6> QED
            BY <5>0, <5>1, <6>3
        <5> QED
          BY <5>2, <5>3, <5>4
      <4>3. Closed(nd, W)
        BY <4>2 DEF Closed
      <4>5. \A x : x \in W <=> x \in D /\ ((x # mp /\ x # n /\ x \in S) \/ (x = mp /\ n \in S))
        OBVIOUS
      <4> HIDE DEF W
      <4>4. a \in W
        BY <3>2, <4>1, <4>3 DEF Reach
      <4> QED
        BY <2>2, <3>0, <4>4, <4>5 DEF old
    <3>5. Reach(D, nd1, m, i)
      BY <3>4 DEF Reach
    <3> QED
      BY <3>0, <3>1, <3>5
  <2> QED
    BY <2>1, <2>2
<1>8. Unique(D, nd1)
  <2> SUFFICES ASSUME NEW i \in D, NEW j \in D, nd1[i].key # Nil, nd1[i].key = nd1[j].key,
                      ~nd1[i].dead, ~nd1[j].dead
               PROVE  i = j
    BY DEF Unique
  <2>1. CASE i = mp \/ j = mp
    BY <1>z, <2>1
  <2>2. CASE i # mp /\ j # mp
    <3>1. old(i) = old(j)
      BY <1>1, <1>w, <2>2 DEF Ranked, Unique
    <3> QED
      BY <1>y, <2>2, <3>1
  <2> QED
    BY <2>1, <2>2
<1>9. Clean(D, nd1)
  <2> SUFFICES ASSUME NEW i \in D
               PROVE  /\ nd1[i].dead => nd1[i].val = Nil /\ nd1[i].key \in StrKeys
                      /\ nd1[i].key = Nil => nd1[i] = EmptyNode
    BY DEF Clean
  <2>1. CASE i \in {n, mp, prev}
    BY <1>1, <1>m, <1>t, <1>v, <2>1 DEF Ranked, Clean
  <2>2. CASE i \notin {n, mp, prev}
    BY <1>1, <2>2 DEF Ranked, Clean
  <2> QED
    BY <2>1, <2>2
<1>10. Ranked(D, nd1, p, q)
  BY <1>s, <1>3, <1>4, <1>5, <1>6, <1>7, <1>8, <1>9 DEF Ranked
<1> QED
  BY <1>10, <1>t DEF Layout, Typed

\* Writing values and marking keys dead does not change the layout.
LEMMA LayoutKept ==
    ASSUME NEW D, NEW nd, NEW p, Layout(D, nd, p), NEW nd1 \in [D -> Node],
           \A i \in D : /\ nd1[i].key = nd[i].key /\ nd1[i].next = nd[i].next
                        /\ nd[i].dead => nd1[i].dead,
           Clean(D, nd1)
    PROVE  Layout(D, nd1, p)
<1>1. PICK r : Ranked(D, nd, p, r)
  BY DEF Layout
<1>2. \A m, i : Reach(D, nd1, m, i) <=> Reach(D, nd, m, i)
  <2>1. \A S \in SUBSET D : Closed(nd1, S) <=> Closed(nd, S)
    BY DEF Closed
  <2> QED
    BY <2>1 DEF Reach
<1>3. Linked(D, nd1, r)
  BY <1>1 DEF Linked, Ranked
<1>8. Unique(D, nd1)
  BY <1>1 DEF Unique, Ranked
<1>4. DeadLast(D, nd1, r)
  <2> SUFFICES ASSUME NEW i \in D, NEW j \in D, nd1[i].key # Nil, nd1[i].key = nd1[j].key,
                      ~nd1[i].dead, nd1[j].dead
               PROVE  r[j] < r[i]
    BY DEF DeadLast
  <2>1. nd[i].key # Nil /\ nd[i].key = nd[j].key /\ ~nd[i].dead /\ i # j
    OBVIOUS
  <2>2. nd[j].dead
    BY <1>1, <2>1 DEF Ranked, Unique
  <2> QED
    BY <1>1, <2>1, <2>2 DEF Ranked, DeadLast
<1>5. NoDouble(D, nd1)
  BY <1>1 DEF NoDouble, Ranked
<1>6. Brent(D, nd1, p)
  <2> SUFFICES ASSUME NEW i \in D, nd1[i].key # Nil, p[nd1[i].key] # i
               PROVE  nd1[p[nd1[i].key]].key # Nil /\ p[nd1[p[nd1[i].key]].key] = p[nd1[i].key]
    BY DEF Brent
  <2>1. PICK m : m = p[nd[i].key]
    OBVIOUS
  <2>2. m \in D
    BY <2>1, NodeFields DEF Layout, Typed
  <2>3. nd[m].key # Nil /\ p[nd[m].key] = m
    BY <1>1, <2>1 DEF Ranked, Brent
  <2> QED
    BY <2>1, <2>2, <2>3
<1>7. Rooted(D, nd1, p)
  BY <1>1, <1>2 DEF Rooted, Ranked
<1>9. Ranked(D, nd1, p, r)
  BY <1>1, <1>3, <1>4, <1>5, <1>6, <1>7, <1>8 DEF Ranked
<1> QED
  BY <1>9 DEF Layout, Typed

\* A new hash part.
LEMMA LayoutEmpty ==
    ASSUME NEW D, D \subseteq Nat, NEW p \in [Keys -> D]
    PROVE  Layout(D, [i \in D |-> EmptyNode], p)
<1> DEFINE nd == [i \in D |-> EmptyNode]
           r == [i \in D |-> 0]
<1>1. nd \in [D -> Node] /\ r \in [D -> Nat]
  BY EmptyIsNode
<1>2. \A i \in D : nd[i].key = Nil /\ nd[i].dead = FALSE /\ nd[i].val = Nil /\ nd[i].next = NoNode
                   /\ nd[i] = EmptyNode
  BY EmptyIsNode
<1> HIDE DEF nd, r
<1>3. Linked(D, nd, r) /\ DeadLast(D, nd, r) /\ NoDouble(D, nd) /\ Brent(D, nd, p)
      /\ Rooted(D, nd, p) /\ Unique(D, nd) /\ Clean(D, nd)
  BY <1>2 DEF Linked, DeadLast, NoDouble, Brent, Rooted, Unique, Clean
<1>4. Ranked(D, nd, p, r)
  BY <1>1, <1>3 DEF Ranked
<1>5. Layout(D, nd, p)
  BY <1>1, <1>4 DEF Layout, Typed
<1> QED
  BY <1>5 DEF nd

-----------------------------------------------------------------------------
(* Tables.                                                                 *)

Vectors == UNION {[0..(m - 1) -> Node] : m \in Nat \ {0}}
Table == [array : Seq(V), dummy : BOOLEAN, node : Vectors, lastfree : Int]

Positions(t) == [k \in Keys |-> MainPosition(t, k)]

\* No node from lastfree on is free; the dummy node is never written.
FreeBelow(t) ==
    /\ t.lastfree <= SizeNode(t)
    /\ ~t.dummy => \A i \in DOMAIN t.node : i >= t.lastfree => t.node[i].key # Nil
    /\ t.dummy => \A i \in DOMAIN t.node : t.node[i] = EmptyNode

Good(t) ==
    /\ t \in Table
    /\ Layout(DOMAIN t.node, t.node, Positions(t))
    /\ FreeBelow(t)
    /\ \A i \in 1..SizeArray(t) : t.array[i] # Nil => i \in IntKeys

\* The hash part has key k with value w.
Held(t, k, w) == \E i \in DOMAIN t.node : t.node[i].key = k /\ t.node[i].val = w

LEMMA TableFields ==
    ASSUME NEW t \in Table
    PROVE  /\ t.array \in Seq(V) /\ t.dummy \in BOOLEAN /\ t.lastfree \in Int
           /\ SizeArray(t) \in Nat /\ DOMAIN t.array = 1..SizeArray(t)
           /\ \A i \in 1..SizeArray(t) : t.array[i] \in V
           /\ DOMAIN t.node \subseteq Nat /\ t.node \in [DOMAIN t.node -> Node]
           /\ SizeNode(t) \in Nat \ {0} /\ DOMAIN t.node = 0..(SizeNode(t) - 1)
<1>1. t.array \in Seq(V) /\ t.dummy \in BOOLEAN /\ t.lastfree \in Int /\ t.node \in Vectors
  BY DEF Table
<1>2. PICK m \in Nat \ {0} : t.node \in [0..(m - 1) -> Node]
  BY <1>1 DEF Vectors
<1>3. DOMAIN t.node = 0..(m - 1)
  BY <1>2
<1>4. Cardinality(0..(m - 1)) = m
  <2>1. 0 \in Int /\ m - 1 \in Int /\ ~(0 > m - 1) /\ (m - 1) - 0 + 1 = m
    OBVIOUS
  <2>2. Cardinality(0..(m - 1)) = IF 0 > m - 1 THEN 0 ELSE (m - 1) - 0 + 1
    BY <2>1, FS_Interval
  <2> QED
    BY <2>1, <2>2
<1>5. SizeNode(t) = m
  BY <1>3, <1>4 DEF SizeNode
<1>6. SizeArray(t) \in Nat /\ DOMAIN t.array = 1..SizeArray(t)
      /\ \A i \in 1..SizeArray(t) : t.array[i] \in V
  BY <1>1 DEF SizeArray
<1> QED
  BY <1>1, <1>2, <1>3, <1>5, <1>6

LEMMA MainPositionType ==
    ASSUME NEW t \in Table, NEW k \in Keys
    PROVE  MainPosition(t, k) \in DOMAIN t.node
<1>1. PICK m \in Nat \ {0} : m = SizeNode(t) /\ DOMAIN t.node = 0..(m - 1)
  BY TableFields
<1>2. \A a \in Nat, c \in Nat \ {0} : a % c \in 0..(c - 1)
  OBVIOUS
<1>3. CASE k \in StrKeys
  <2>1. Hash[k] \in Nat
    BY <1>3, LuaTableAssumption
  <2>2. MainPosition(t, k) = Hash[k] % m
    BY <1>1, <1>3 DEF MainPosition
  <2> QED
    BY <1>1, <1>2, <2>1, <2>2
<1>4. CASE k \notin StrKeys
  <2>1. k \in Nat
    BY <1>4, NilIsNoKey DEF Keys
  <2>2. PICK c : c = OddSize(t)
    OBVIOUS
  <2>3. c \in Nat \ {0} /\ c - 1 <= m - 1
    BY <1>1, <2>2 DEF OddSize
  <2>4. MainPosition(t, k) = IF k = 0 THEN 0 ELSE k % c
    BY <1>4, <2>2 DEF MainPosition
  <2>5. k % c \in 0..(c - 1)
    BY <1>2, <2>1, <2>3
  <2> QED
    BY <1>1, <2>3, <2>4, <2>5
<1> QED
  BY <1>3, <1>4

LEMMA SamePositions ==
    ASSUME NEW t, NEW u, DOMAIN t.node = DOMAIN u.node
    PROVE  /\ SizeNode(t) = SizeNode(u) /\ Positions(t) = Positions(u)
           /\ \A k : MainPosition(t, k) = MainPosition(u, k)
<1>1. SizeNode(t) = SizeNode(u)
  BY DEF SizeNode
<1>2. \A k : MainPosition(t, k) = MainPosition(u, k)
  BY <1>1 DEF MainPosition, OddSize
<1> QED
  BY <1>1, <1>2 DEF Positions

LEMMA FindNodeIs ==
    ASSUME NEW t, Good(t), NEW k \in Keys
    PROVE  \/ /\ FindNode(t, k) = NoNode
              /\ \A i \in DOMAIN t.node : ~(t.node[i].key = k /\ ~t.node[i].dead)
           \/ /\ FindNode(t, k) \in DOMAIN t.node /\ FindNode(t, k) # NoNode
              /\ t.node[FindNode(t, k)].key = k /\ ~t.node[FindNode(t, k)].dead
<1> DEFINE D == DOMAIN t.node
           M == LiveNodesOf(t, k)
<1>1. t \in Table /\ Layout(D, t.node, Positions(t))
  BY DEF Good
<1>2. PICK r : Ranked(D, t.node, Positions(t), r)
  BY <1>1 DEF Layout
<1>3. D \subseteq Nat /\ MainPosition(t, k) \in D /\ Positions(t)[k] = MainPosition(t, k)
  BY <1>1, TableFields, MainPositionType DEF Positions
<1>4. M \in SUBSET D /\ \A i : i \in M <=> i \in D /\ t.node[i].key = k /\ ~t.node[i].dead
  BY DEF LiveNodesOf, NodesOf
<1>5. \A i \in M : Reach(D, t.node, MainPosition(t, k), i)
  BY <1>2, <1>3, <1>4, NilIsNoKey DEF Ranked, Rooted
<1>6. r \in [D -> Nat] /\ Linked(D, t.node, r)
  BY <1>2 DEF Ranked
<1>7. FindNode(t, k) = SearchChain(t, k, M)
  BY DEF FindNode
<1> HIDE DEF M
<1>8. Found(D, t.node, r, M, MainPosition(t, k), FindNode(t, k))
  <2>1. D = DOMAIN t.node
    OBVIOUS
  <2> HIDE DEF D
  <2> QED
    BY <1>3, <1>4, <1>6, <1>7, <2>1, SearchChainFinds
<1>9. \A i \in D : i # NoNode
  BY <1>3 DEF NoNode
<1> QED
  BY <1>4, <1>5, <1>8, <1>9 DEF Found

LEMMA GetIs ==
    ASSUME NEW t, Good(t), NEW k \in Keys
    PROVE  /\ Get(t, k) \in V
           /\ InArray(t, k) => Get(t, k) = t.array[k]
           /\ ~InArray(t, k) => \A w \in V \ {Nil} : Get(t, k) = w <=> Held(t, k, w)
<1>1. t \in Table /\ Clean(DOMAIN t.node, t.node) /\ Unique(DOMAIN t.node, t.node)
  BY DEF Good, Layout, Ranked
<1>2. CASE InArray(t, k)
  BY <1>1, <1>2, TableFields DEF Get, InArray
<1>3. CASE ~InArray(t, k)
  <2>0. PICK f : f = FindNode(t, k)
    OBVIOUS
  <2>1. Get(t, k) = IF f = NoNode THEN Nil ELSE t.node[f].val
    BY <1>3, <2>0 DEF Get
  <2>2. \A i \in DOMAIN t.node : t.node[i].val # Nil => ~t.node[i].dead
    BY <1>1 DEF Clean
  <2>3. k # Nil
    BY NilIsNoKey
  <2>4. CASE f = NoNode
    <3>1. \A w \in V \ {Nil} : ~Held(t, k, w)
      BY <2>0, <2>2, <2>4, FindNodeIs DEF Held
    <3> QED
      BY <1>3, <2>1, <2>4, <3>1 DEF V
  <2>5. CASE f # NoNode
    <3>1. f \in DOMAIN t.node /\ t.node[f].key = k /\ ~t.node[f].dead
      BY <2>0, <2>5, FindNodeIs
    <3>2. \A i \in DOMAIN t.node : t.node[i].key = k /\ t.node[i].val # Nil => i = f
      BY <1>1, <2>2, <2>3, <3>1 DEF Unique
    <3>3. \A w \in V \ {Nil} : t.node[f].val = w <=> Held(t, k, w)
      BY <3>1, <3>2 DEF Held
    <3>4. t.node[f].val \in V
      BY <1>1, <3>1, TableFields, NodeFields
    <3> QED
      BY <1>3, <2>1, <2>5, <3>3, <3>4
  <2> QED
    BY <2>4, <2>5
<1> QED
  BY <1>2, <1>3

-----------------------------------------------------------------------------
(* Assigning to a key.                                                     *)

\* u is table t with the nodes nd and the free pointer l.
WithNodes(t, nd, l) == [array |-> t.array, dummy |-> t.dummy, node |-> nd, lastfree |-> l]

LEMMA WithNodesIs ==
    ASSUME NEW t \in Table, NEW nd \in [DOMAIN t.node -> Node], NEW l \in Int
    PROVE  /\ WithNodes(t, nd, l) \in Table
           /\ WithNodes(t, nd, l).array = t.array /\ WithNodes(t, nd, l).dummy = t.dummy
           /\ WithNodes(t, nd, l).node = nd /\ WithNodes(t, nd, l).lastfree = l
           /\ DOMAIN nd = DOMAIN t.node /\ SizeArray(WithNodes(t, nd, l)) = SizeArray(t)
<1>1. t.array \in Seq(V) /\ t.dummy \in BOOLEAN /\ DOMAIN t.node = 0..(SizeNode(t) - 1)
      /\ SizeNode(t) \in Nat \ {0}
  BY TableFields
<1>2. nd \in Vectors
  BY <1>1 DEF Vectors
<1> QED
  BY <1>1, <1>2 DEF WithNodes, Table, SizeArray

LEMMA WithNodesGood ==
    ASSUME NEW t, Good(t), NEW nd, NEW l \in Int, Layout(DOMAIN t.node, nd, Positions(t)),
           FreeBelow(WithNodes(t, nd, l))
    PROVE  Good(WithNodes(t, nd, l))
<1> DEFINE u == WithNodes(t, nd, l)
<1>1. t \in Table /\ nd \in [DOMAIN t.node -> Node]
  BY DEF Good, Layout, Typed
<1>2. u \in Table /\ u.array = t.array /\ u.node = nd /\ DOMAIN nd = DOMAIN t.node /\ SizeArray(u) = SizeArray(t)
  BY <1>1, WithNodesIs
<1> HIDE DEF u
<1>3. Positions(u) = Positions(t)
  BY <1>2, SamePositions
<1>4. Good(u)
  BY <1>2, <1>3 DEF Good, u
<1> QED
  BY <1>4 DEF u

\* A table other than t is itself after a change of its nodes.
LEMMA TableIs ==
    ASSUME NEW t \in Table
    PROVE  t = WithNodes(t, t.node, t.lastfree)
BY DEF Table, WithNodes

\* What a step that works on one key does to the nodes.
NodeStep(D, nd, nd1, k, v) ==
    /\ \A kk : \A w \in V \ {Nil} :
           (\E i \in D : nd1[i].key = kk /\ nd1[i].val = w)
               <=> IF kk = k THEN w = v ELSE \E i \in D : nd[i].key = kk /\ nd[i].val = w
    /\ (\A i \in D : ~nd[i].dead) => \A i \in D : ~nd1[i].dead
    /\ \A K : k \in K /\ (\A i \in D : nd[i].key \in K \cup {Nil})
           => \A i \in D : nd1[i].key \in K \cup {Nil}

\* u is t with key k and value v in node i.
Filled(t, u, i, k, v) ==
    /\ u = WithNodes(t, u.node, t.lastfree) /\ u.node \in [DOMAIN t.node -> Node]
    /\ u.node[i].key = k /\ u.node[i].dead = FALSE /\ u.node[i].val = v
    /\ u.node[i].next = t.node[i].next
    /\ \A j \in DOMAIN t.node \ {i} : u.node[j] = t.node[j]

LEMMA FillIs ==
    ASSUME NEW t \in Table, NEW i \in DOMAIN t.node, NEW k \in Keys, NEW v \in V
    PROVE  Filled(t, Fill(t, i, k, v), i, k, v)
<1> DEFINE D == DOMAIN t.node
<1>u. PICK u : u = Fill(t, i, k, v)
  OBVIOUS
<1>1. t \in [array : Seq(V), dummy : BOOLEAN, node : [D -> Node], lastfree : Int]
  BY TableFields DEF Table
<1> HIDE DEF D
<1>0. i \in D
  BY DEF D
<1>2. u = [array |-> u.array, dummy |-> u.dummy, node |-> u.node, lastfree |-> u.lastfree]
  BY <1>0, <1>1, <1>u DEF Fill
<1>3. u.node = [j \in D |-> u.node[j]]
  BY <1>0, <1>1, <1>u DEF Fill
<1>4. u.array = t.array /\ u.dummy = t.dummy /\ u.lastfree = t.lastfree
  BY <1>0, <1>1, <1>u DEF Fill
<1>5. \A j \in D \ {i} : u.node[j] = t.node[j] /\ u.node[j] \in Node
  BY <1>0, <1>1, <1>u DEF Fill
<1>6. u.node[i].key = k /\ u.node[i].dead = FALSE /\ u.node[i].val = v
      /\ u.node[i].next = t.node[i].next
  BY <1>0, <1>1, <1>u DEF Fill, Node
<1>7. u.node[i] \in Node
  BY ZenonT(40), <1>0, <1>1, <1>u DEF Fill, Node
<1>8. u.node \in [D -> Node]
  BY <1>3, <1>5, <1>7
<1>9. u = WithNodes(t, u.node, t.lastfree)
  BY <1>2, <1>4 DEF WithNodes
<1> QED
  BY <1>5, <1>6, <1>8, <1>9, <1>u DEF D, Filled

LEMMA FillStep ==
    ASSUME NEW t, Good(t), NEW k \in Keys, NEW v \in V, ~t.dummy,
           FindNode(t, k) = NoNode, t.node[MainPosition(t, k)].val = Nil,
           NEW u, u = Fill(t, MainPosition(t, k), k, v)
    PROVE  /\ Good(u) /\ u = WithNodes(t, u.node, t.lastfree)
           /\ u.node \in [DOMAIN t.node -> Node]
           /\ NodeStep(DOMAIN t.node, t.node, u.node, k, v)
<1> DEFINE D == DOMAIN t.node
           mp == MainPosition(t, k)
           nd == t.node
           nd1 == u.node
<1>1. t \in Table /\ Layout(D, nd, Positions(t)) /\ FreeBelow(t)
  BY DEF Good
<1>2. mp \in D /\ nd \in [D -> Node] /\ mp = Positions(t)[k] /\ t.lastfree \in Int
  BY <1>1, TableFields, MainPositionType DEF Positions
<1>3. \A i \in D : ~(nd[i].key = k /\ ~nd[i].dead)
  BY FindNodeIs, <1>2
<1>4. /\ u = WithNodes(t, nd1, t.lastfree) /\ nd1 \in [D -> Node]
      /\ nd1[mp].key = k /\ nd1[mp].dead = FALSE /\ nd1[mp].val = v
      /\ nd1[mp].next = nd[mp].next
      /\ \A j \in D \ {mp} : nd1[j] = nd[j]
  <2>1. Filled(t, u, mp, k, v)
    BY <1>1, <1>2, FillIs
  <2> QED
    BY <2>1 DEF Filled
<1>7. u = WithNodes(t, nd1, t.lastfree)
  BY <1>4
<1> HIDE DEF nd1, mp, nd, D
<1>5. \A i \in D \ {mp} : nd1[i] = nd[i]
  BY <1>4
<1>6. nd1 \in [D -> Node]
  BY <1>4
<1>8. nd1[mp].key = k /\ nd1[mp].dead = FALSE /\ nd1[mp].val = v /\ nd1[mp].next = nd[mp].next
  BY <1>4
<1>9. nd[mp].val = Nil
  BY DEF mp, nd
<1>10. Layout(D, nd1, Positions(t))
  BY <1>1, <1>2, <1>3, <1>5, <1>6, <1>8, <1>9, LayoutFill
<1>11. WithNodes(t, nd1, t.lastfree).node = nd1 /\ WithNodes(t, nd1, t.lastfree).dummy = t.dummy
       /\ WithNodes(t, nd1, t.lastfree).lastfree = t.lastfree /\ DOMAIN nd1 = D
  BY <1>6 DEF WithNodes
<1>12. FreeBelow(WithNodes(t, nd1, t.lastfree))
  <2>1. SizeNode(WithNodes(t, nd1, t.lastfree)) = SizeNode(t)
    BY <1>11, SamePositions DEF D
  <2>2. \A i \in D : nd[i].key # Nil => nd1[i].key # Nil
    BY <1>5, <1>8, NilIsNoKey
  <2>3. \A i \in D : i >= t.lastfree => nd[i].key # Nil
    BY <1>1 DEF FreeBelow, D, nd
  <2> QED
    BY <1>1, <1>11, <2>1, <2>2, <2>3 DEF FreeBelow
<1>13. Good(WithNodes(t, nd1, t.lastfree))
  BY <1>2, <1>10, <1>12, WithNodesGood DEF D
<1>14. NodeStep(D, nd, nd1, k, v)
  <2>1. ASSUME NEW kk, NEW w \in V \ {Nil}
        PROVE  (\E i \in D : nd1[i].key = kk /\ nd1[i].val = w)
                   <=> IF kk = k THEN w = v ELSE \E i \in D : nd[i].key = kk /\ nd[i].val = w
    <3>1. \A i \in D : nd[i].key = k => nd[i].dead
      BY <1>3
    <3>2. \A i \in D : nd[i].dead => nd[i].val = Nil
      BY <1>1 DEF Layout, Ranked, Clean
    <3>3. CASE kk = k
      BY <1>2, <1>5, <1>8, <3>1, <3>2, <3>3
    <3>4. CASE kk # k
      BY <1>2, <1>5, <1>8, <1>9, <3>4
    <3> QED
      BY <3>3, <3>4
  <2>2. (\A i \in D : ~nd[i].dead) => \A i \in D : ~nd1[i].dead
    BY <1>5, <1>8
  <2>3. ASSUME NEW K, k \in K, \A i \in D : nd[i].key \in K \cup {Nil}
        PROVE  \A i \in D : nd1[i].key \in K \cup {Nil}
    BY <1>5, <1>8, <2>3
  <2> QED
    BY <2>1, <2>2, <2>3 DEF NodeStep
<1> QED
  BY <1>6, <1>7, <1>13, <1>14 DEF D, nd1, nd

\* Node n follows node mp in the chain.
Chained(t, u, mp, n) ==
    /\ u = WithNodes(t, u.node, t.lastfree) /\ u.node \in [DOMAIN t.node -> Node]
    /\ u.node[n].next = t.node[mp].next
    /\ u.node[mp].key = t.node[mp].key /\ u.node[mp].dead = t.node[mp].dead
    /\ u.node[mp].val = t.node[mp].val /\ u.node[mp].next = n
    /\ \A j \in DOMAIN t.node \ {n, mp} : u.node[j] = t.node[j]

LEMMA ChainAfterIs ==
    ASSUME NEW t \in Table, NEW mp \in DOMAIN t.node, NEW n \in DOMAIN t.node, n # mp
    PROVE  Chained(t, ChainAfter(t, mp, n), mp, n)
<1> DEFINE D == DOMAIN t.node
<1>u. PICK u : u = ChainAfter(t, mp, n)
  OBVIOUS
<1>1. t \in [array : Seq(V), dummy : BOOLEAN, node : [D -> Node], lastfree : Int] /\ D \subseteq Nat
  BY TableFields DEF Table
<1> HIDE DEF D
<1>0. mp \in D /\ n \in D /\ n \in Int
  BY <1>1 DEF D
<1>2. u = [array |-> u.array, dummy |-> u.dummy, node |-> u.node, lastfree |-> u.lastfree]
  BY <1>0, <1>1, <1>u DEF ChainAfter
<1>3. u.node = [j \in D |-> u.node[j]]
  BY <1>0, <1>1, <1>u DEF ChainAfter
<1>4. u.array = t.array /\ u.dummy = t.dummy /\ u.lastfree = t.lastfree
  BY <1>0, <1>1, <1>u DEF ChainAfter
<1>5. \A j \in D \ {n, mp} : u.node[j] = t.node[j] /\ u.node[j] \in Node
  BY <1>0, <1>1, <1>u DEF ChainAfter
<1>6. u.node[mp].key = t.node[mp].key /\ u.node[mp].dead = t.node[mp].dead
      /\ u.node[mp].val = t.node[mp].val /\ u.node[mp].next = n
  BY <1>0, <1>1, <1>u DEF ChainAfter, Node
<1>7. u.node[n].next = t.node[mp].next
  BY <1>0, <1>1, <1>u DEF ChainAfter, Node
<1>8. u.node[mp] \in Node
  BY <1>0, <1>1, <1>u DEF ChainAfter, Node
<1>9. u.node[n] \in Node
  BY <1>0, <1>1, <1>u DEF ChainAfter, Node
<1>10. u.node \in [D -> Node]
  BY <1>3, <1>5, <1>8, <1>9
<1>11. u = WithNodes(t, u.node, t.lastfree)
  BY <1>2, <1>4 DEF WithNodes
<1> QED
  BY <1>5, <1>6, <1>7, <1>10, <1>11, <1>u DEF D, Chained

\* The node at mp has moved to n, and prev leads there.
Moved(t, u, mp, n, prev) ==
    /\ u = WithNodes(t, u.node, t.lastfree) /\ u.node \in [DOMAIN t.node -> Node]
    /\ u.node[n] = t.node[mp] /\ u.node[mp].next = NoNode
    /\ u.node[prev].key = t.node[prev].key /\ u.node[prev].dead = t.node[prev].dead
    /\ u.node[prev].val = t.node[prev].val /\ u.node[prev].next = n
    /\ \A j \in DOMAIN t.node \ {n, mp, prev} : u.node[j] = t.node[j]

\* MoveColliding, for any prev
MoveFrom(t, mp, n, prev) ==
    [t EXCEPT !.node[prev].next = n, !.node[n] = t.node[mp],
              !.node[mp].next = NoNode, !.node[mp].val = Nil]

LEMMA MoveFromIs ==
    ASSUME NEW t \in Table, NEW mp \in DOMAIN t.node, NEW n \in DOMAIN t.node, n # mp,
           NEW prev \in DOMAIN t.node, prev # n, prev # mp
    PROVE  Moved(t, MoveFrom(t, mp, n, prev), mp, n, prev)
<1> DEFINE D == DOMAIN t.node
<1>v. PICK u : u = MoveFrom(t, mp, n, prev)
  OBVIOUS
<1>u. u = [t EXCEPT !.node[prev].next = n, !.node[n] = t.node[mp],
                    !.node[mp].next = NoNode, !.node[mp].val = Nil]
  BY <1>v DEF MoveFrom
<1>1. t \in [array : Seq(V), dummy : BOOLEAN, node : [D -> Node], lastfree : Int] /\ D \subseteq Nat
  BY TableFields DEF Table
<1> HIDE DEF D
<1>0. mp \in D /\ n \in D /\ n \in Int /\ prev \in D /\ NoNode \in Int /\ Nil \in V
  BY <1>1 DEF D, NoNode, V
<1>2. u = [array |-> u.array, dummy |-> u.dummy, node |-> u.node, lastfree |-> u.lastfree]
  BY <1>0, <1>1, <1>u
<1>3. u.node = [j \in D |-> u.node[j]]
  BY <1>0, <1>1, <1>u
<1>4. u.array = t.array /\ u.dummy = t.dummy /\ u.lastfree = t.lastfree
  BY <1>0, <1>1, <1>u
<1>5. \A j \in D \ {n, mp, prev} : u.node[j] = t.node[j] /\ u.node[j] \in Node
  BY <1>0, <1>1, <1>u
<1>6. u.node[prev].key = t.node[prev].key /\ u.node[prev].dead = t.node[prev].dead
      /\ u.node[prev].val = t.node[prev].val /\ u.node[prev].next = n
  <2>1. u.node[prev].key = t.node[prev].key
    BY <1>0, <1>1, <1>u DEF Node
  <2>2. u.node[prev].dead = t.node[prev].dead
    BY <1>0, <1>1, <1>u DEF Node
  <2>3. u.node[prev].val = t.node[prev].val
    BY <1>0, <1>1, <1>u DEF Node
  <2>4. u.node[prev].next = n
    BY <1>0, <1>1, <1>u DEF Node
  <2> QED
    BY <2>1, <2>2, <2>3, <2>4
<1>7. u.node[n] = t.node[mp] /\ u.node[n] \in Node
  BY <1>0, <1>1, <1>u DEF Node
<1>8. u.node[mp] \in Node
  <2>1. u.node[mp] = [[t.node[mp] EXCEPT !.next = NoNode] EXCEPT !.val = Nil]
    BY <1>0, <1>1, <1>u
  <2>2. t.node[mp] \in Node
    BY <1>0, <1>1
  <2> QED
    BY <1>0, <2>1, <2>2 DEF Node
<1>9. u.node[prev] \in Node
  BY ZenonT(40), <1>0, <1>1, <1>u DEF Node
<1>12. u.node[mp].next = NoNode
  BY <1>0, <1>1, <1>u DEF Node
<1>10. u.node \in [D -> Node]
  BY <1>3, <1>5, <1>7, <1>8, <1>9
<1>11. u = WithNodes(t, u.node, t.lastfree)
  BY <1>2, <1>4 DEF WithNodes
<1> QED
  BY <1>5, <1>6, <1>7, <1>10, <1>11, <1>12, <1>v DEF D, Moved

LEMMA MoveCollidingIs ==
    ASSUME NEW t \in Table, NEW mp \in DOMAIN t.node, NEW n \in DOMAIN t.node, n # mp,
           NEW prev \in DOMAIN t.node, prev # n, prev # mp,
           prev = SearchChain(t, t.node[mp].key, {i \in DOMAIN t.node : t.node[i].next = mp})
    PROVE  Moved(t, MoveColliding(t, mp, n), mp, n, prev)
<1>1. MoveColliding(t, mp, n) = MoveFrom(t, mp, n, prev)
  BY DEF MoveColliding, MoveFrom
<1> QED
  BY <1>1, MoveFromIs

LEMMA FreePosIs ==
    ASSUME NEW t, Good(t), ~t.dummy
    PROVE  \/ FreePos(t) = NoNode /\ \A i \in DOMAIN t.node : t.node[i].key # Nil
           \/ /\ FreePos(t) \in DOMAIN t.node /\ FreePos(t) # NoNode
              /\ t.node[FreePos(t)].key = Nil
              /\ \A i \in DOMAIN t.node : i > FreePos(t) => t.node[i].key # Nil
<1> DEFINE D == DOMAIN t.node
           free == {i \in 0..(t.lastfree - 1) : t.node[i].key = Nil}
<1>1. t \in Table /\ FreeBelow(t)
  BY DEF Good
<1>2. PICK m \in Nat : m = SizeNode(t) /\ D = 0..(m - 1) /\ t.lastfree \in Int /\ t.lastfree <= m
  BY <1>1, TableFields DEF FreeBelow
<1>3. \A i \in D : i >= t.lastfree => t.node[i].key # Nil
  BY <1>1 DEF FreeBelow
<1>4. FreePos(t) = IF free = {} THEN NoNode ELSE Upper(free)
  BY DEF FreePos
<1>5. free \subseteq 0..m /\ \A i \in D : t.node[i].key = Nil => i \in free
  BY <1>2, <1>3
<1>6. \A i \in free : i \in D /\ t.node[i].key = Nil
  BY <1>2
<1> HIDE DEF free
<1>7. CASE free = {}
  BY <1>4, <1>5, <1>7
<1>8. CASE free # {}
  <2>1. Upper(free) \in free /\ \A y \in free : Upper(free) >= y
    BY <1>2, <1>5, <1>8, UpperIs
  <2>2. PICK n : n = Upper(free)
    OBVIOUS
  <2>3. n = FreePos(t) /\ n \in D /\ t.node[n].key = Nil /\ n \in Nat
    BY <1>2, <1>4, <1>6, <1>8, <2>1, <2>2
  <2>4. \A i \in D : i > n => t.node[i].key # Nil
    <3> SUFFICES ASSUME NEW i \in D, i > n, t.node[i].key = Nil PROVE FALSE
      OBVIOUS
    <3>1. n >= i /\ i \in Nat
      BY <1>2, <1>5, <2>1, <2>2
    <3> QED
      BY <2>3, <3>1
  <2> QED
    BY <2>3, <2>4 DEF NoNode
<1> QED
  BY <1>7, <1>8

LEMMA ChainStep ==
    ASSUME NEW t, Good(t), NEW k \in Keys, NEW v \in V, ~t.dummy,
           FindNode(t, k) = NoNode, NEW mp, mp = MainPosition(t, k), t.node[mp].val # Nil,
           MainPosition(t, t.node[mp].key) = mp,
           NEW n \in DOMAIN t.node, t.node[n].key = Nil,
           \A i \in DOMAIN t.node : i > n => t.node[i].key # Nil,
           NEW u, u = Fill(ChainAfter(WithNodes(t, t.node, n), mp, n), n, k, v)
    PROVE  /\ Good(u) /\ u = WithNodes(t, u.node, n)
           /\ u.node \in [DOMAIN t.node -> Node]
           /\ NodeStep(DOMAIN t.node, t.node, u.node, k, v)
<1> DEFINE D == DOMAIN t.node
           nd == t.node
           t1 == WithNodes(t, nd, n)
           t2 == ChainAfter(t1, mp, n)
           nd1 == u.node
<1>1. t \in Table /\ Layout(D, nd, Positions(t)) /\ FreeBelow(t)
  BY DEF Good
<1>2. mp \in D /\ nd \in [D -> Node] /\ mp = Positions(t)[k] /\ D \subseteq Nat /\ n \in Int /\ n \in D
  BY <1>1, TableFields, MainPositionType DEF Positions
<1>3. \A i \in D : ~(nd[i].key = k /\ ~nd[i].dead)
  BY FindNodeIs, <1>2
<1>c. Clean(D, nd)
  BY <1>1 DEF Layout, Ranked
<1>4. n # mp /\ nd[mp].key # Nil /\ ~nd[mp].dead
  BY <1>2, <1>c, EmptyIsNode DEF Clean
<1>5. t1 \in Table /\ t1.node = nd /\ t1.lastfree = n /\ t1.array = t.array /\ t1.dummy = t.dummy
  BY <1>1, <1>2, WithNodesIs
<1> HIDE DEF t1
<1>6. Chained(t1, t2, mp, n)
  BY <1>2, <1>4, <1>5, ChainAfterIs
<1>7. u = Fill(t2, n, k, v)
  BY DEF t1
<1> HIDE DEF t2
<1>8. t2 = WithNodes(t1, t2.node, n) /\ t2.node \in [D -> Node]
  BY <1>5, <1>6 DEF Chained
<1>9. t2 \in Table /\ DOMAIN t2.node = D /\ t2.array = t.array /\ t2.dummy = t.dummy /\ t2.lastfree = n
  <2>1. t2.node \in [DOMAIN t1.node -> Node]
    BY <1>5, <1>8
  <2> QED
    BY <1>2, <1>5, <1>8, <2>1, WithNodesIs
<1>10. Filled(t2, u, n, k, v)
  BY <1>2, <1>7, <1>9, FillIs
<1>11. nd1 \in [D -> Node] /\ u = WithNodes(t, nd1, n)
  BY <1>9, <1>10 DEF Filled, WithNodes
<1>12. nd1[n].key = k /\ nd1[n].dead = FALSE /\ nd1[n].val = v /\ nd1[n].next = nd[mp].next
  BY <1>5, <1>6, <1>10 DEF Filled, Chained
<1>13. nd1[mp].key = nd[mp].key /\ nd1[mp].dead = nd[mp].dead /\ nd1[mp].val = nd[mp].val
       /\ nd1[mp].next = n
  <2>1. nd1[mp] = t2.node[mp]
    BY <1>2, <1>4, <1>9, <1>10 DEF Filled
  <2> QED
    BY <1>5, <1>6, <2>1 DEF Chained
<1>14. \A i \in D \ {mp, n} : nd1[i] = nd[i]
  <2> SUFFICES ASSUME NEW i \in D \ {mp, n} PROVE nd1[i] = nd[i]
    OBVIOUS
  <2>1. nd1[i] = t2.node[i]
    BY <1>9, <1>10 DEF Filled
  <2>2. t2.node[i] = nd[i]
    BY <1>5, <1>6 DEF Chained
  <2> QED
    BY <2>1, <2>2
<1>15. nd[mp].val # Nil /\ nd[n].key = Nil /\ Positions(t)[nd[mp].key] = mp
  BY <1>1, <1>2, <1>4, PosType DEF Positions, Layout
<1> HIDE DEF nd1, nd, D
<1>16. Layout(D, nd1, Positions(t))
  <2> DEFINE p == Positions(t)
  <2>1. Layout(D, nd, p) /\ k \in Keys /\ mp = p[k] /\ nd[mp].val # Nil /\ p[nd[mp].key] = mp
    BY <1>1, <1>2, <1>15
  <2>2. n \in D /\ nd[n].key = Nil /\ nd1 \in [D -> Node]
    BY <1>2, <1>11, <1>15
  <2>3. nd1[n].key = k /\ ~nd1[n].dead /\ nd1[n].next = nd[mp].next
    BY <1>12
  <2> HIDE DEF p
  <2>4. InsertsAfter(D, nd, nd1, p, k, mp, n)
    BY <1>3, <1>13, <1>14, <2>1, <2>2, <2>3 DEF InsertsAfter
  <2> QED
    BY <2>1, <2>4, LayoutChain DEF p
<1>17. \A i \in D : i # n => nd1[i].key = nd[i].key /\ nd1[i].dead = nd[i].dead /\ nd1[i].val = nd[i].val
  BY <1>13, <1>14
<1>18. FreeBelow(WithNodes(t, nd1, n))
  <2>1. WithNodes(t, nd1, n).node = nd1 /\ WithNodes(t, nd1, n).dummy = t.dummy
        /\ WithNodes(t, nd1, n).lastfree = n /\ DOMAIN nd1 = D
    BY <1>11 DEF WithNodes
  <2>2. SizeNode(WithNodes(t, nd1, n)) = SizeNode(t)
    BY <2>1, SamePositions DEF D
  <2>3. n <= SizeNode(t)
    BY <1>1, <1>2, TableFields DEF D
  <2>4. \A i \in D : i >= n => nd1[i].key # Nil
    BY <1>2, <1>12, <1>17, NilIsNoKey DEF D, nd
  <2> QED
    BY <2>1, <2>2, <2>3, <2>4 DEF FreeBelow
<1>19. Good(u)
  BY <1>2, <1>11, <1>16, <1>18, WithNodesGood DEF D
<1>20. NodeStep(D, nd, nd1, k, v)
  <2>1. ASSUME NEW kk, NEW w \in V \ {Nil}
        PROVE  (\E i \in D : nd1[i].key = kk /\ nd1[i].val = w)
                   <=> IF kk = k THEN w = v ELSE \E i \in D : nd[i].key = kk /\ nd[i].val = w
    <3>1. \A i \in D : nd[i].key = k => nd[i].val = Nil
      BY <1>3, <1>c DEF Clean
    <3>2. nd[n].val = Nil
      BY <1>2, <1>15, <1>c, EmptyIsNode DEF Clean
    <3>3. CASE kk = k
      BY <1>2, <1>12, <1>17, <3>1, <3>3
    <3>4. CASE kk # k
      BY <1>2, <1>12, <1>17, <3>2, <3>4
    <3> QED
      BY <3>3, <3>4
  <2>2. (\A i \in D : ~nd[i].dead) => \A i \in D : ~nd1[i].dead
    BY <1>12, <1>17
  <2>3. ASSUME NEW K, k \in K, \A i \in D : nd[i].key \in K \cup {Nil}
        PROVE  \A i \in D : nd1[i].key \in K \cup {Nil}
    BY <1>12, <1>17, <2>3
  <2> QED
    BY <2>1, <2>2, <2>3 DEF NodeStep
<1> QED
  BY <1>11, <1>19, <1>20 DEF D, nd, nd1

LEMMA MoveStep ==
    ASSUME NEW t, Good(t), NEW k \in Keys, NEW v \in V, ~t.dummy,
           FindNode(t, k) = NoNode, NEW mp, mp = MainPosition(t, k), t.node[mp].val # Nil,
           MainPosition(t, t.node[mp].key) # mp,
           NEW n \in DOMAIN t.node, t.node[n].key = Nil,
           \A i \in DOMAIN t.node : i > n => t.node[i].key # Nil,
           NEW u, u = Fill(MoveColliding(WithNodes(t, t.node, n), mp, n), mp, k, v)
    PROVE  /\ Good(u) /\ u = WithNodes(t, u.node, n)
           /\ u.node \in [DOMAIN t.node -> Node]
           /\ NodeStep(DOMAIN t.node, t.node, u.node, k, v)
<1> DEFINE D == DOMAIN t.node
           nd == t.node
           t1 == WithNodes(t, nd, n)
           t2 == MoveColliding(t1, mp, n)
           nd1 == u.node
<1>1. t \in Table /\ Layout(D, nd, Positions(t)) /\ FreeBelow(t)
  BY DEF Good
<1>2. mp \in D /\ nd \in [D -> Node] /\ mp = Positions(t)[k] /\ D \subseteq Nat /\ n \in Int /\ n \in D
  BY <1>1, TableFields, MainPositionType DEF Positions
<1>3. \A i \in D : ~(nd[i].key = k /\ ~nd[i].dead)
  BY FindNodeIs, <1>2
<1>r. PICK r : Ranked(D, nd, Positions(t), r)
  BY <1>1 DEF Layout
<1>c. Clean(D, nd) /\ Linked(D, nd, r) /\ Rooted(D, nd, Positions(t)) /\ r \in [D -> Nat]
  BY <1>r DEF Ranked
<1>4. n # mp /\ nd[mp].key # Nil /\ ~nd[mp].dead
  BY <1>2, <1>c, EmptyIsNode DEF Clean
<1>5. t1 \in Table /\ t1.node = nd /\ t1.lastfree = n /\ t1.array = t.array /\ t1.dummy = t.dummy
  BY <1>1, <1>2, WithNodesIs
<1>k. nd[mp].key \in Keys /\ Positions(t)[nd[mp].key] = MainPosition(t, nd[mp].key)
      /\ MainPosition(t, nd[mp].key) \in D
  BY <1>1, <1>2, <1>4, PosType, MainPositionType DEF Positions, Layout
<1> HIDE DEF t1
<1>q. PICK q \in D : q = MainPosition(t1, nd[mp].key) /\ q # mp /\ q = Positions(t)[nd[mp].key]
  BY <1>5, <1>k, SamePositions
<1> DEFINE M == {i \in DOMAIN t1.node : t1.node[i].next = mp}
           prev == SearchChain(t1, t1.node[mp].key, M)
<1>6. prev \in D /\ nd[prev].next = mp
  <2>0. M \in SUBSET D /\ \A i : i \in M <=> i \in D /\ nd[i].next = mp
    BY <1>5
  <2> HIDE DEF M, D
  <2>1. D = DOMAIN t1.node
    BY <1>5 DEF D
  <2>2. Linked(D, t1.node, r) /\ MainPosition(t1, t1.node[mp].key) \in D
    BY <1>5, <1>c, <1>q
  <2>3. Found(D, t1.node, r, M, MainPosition(t1, t1.node[mp].key), prev)
    BY <1>2, <1>c, <2>0, <2>1, <2>2, SearchChainFinds
  <2>4. Found(D, nd, r, M, q, prev)
    BY <1>5, <1>q, <2>3
  <2>5. Reach(D, nd, q, mp)
    BY <1>2, <1>4, <1>c, <1>q DEF Rooted
  <2>6. \A x \in D : nd[x].next # NoNode => nd[x].next \in D
    BY <1>c DEF Linked
  <2>7. \E x \in D : Reach(D, nd, q, x) /\ nd[x].next = mp
    BY <1>q, <2>5, <2>6, ReachPrevious
  <2> QED
    BY <2>0, <2>4, <2>7 DEF Found
<1>p. prev # n /\ prev # mp
  <2>1. mp # NoNode
    BY <1>2 DEF NoNode
  <2>2. nd[prev].key # Nil /\ r[mp] < r[prev] /\ r[mp] \in Nat
    BY <1>2, <1>6, <1>c, <2>1 DEF Linked
  <2> QED
    BY <2>2
<1>s. prev = SearchChain(t1, t1.node[mp].key, {i \in DOMAIN t1.node : t1.node[i].next = mp})
  OBVIOUS
<1> HIDE DEF prev, M
<1>m. Moved(t1, t2, mp, n, prev)
  BY <1>2, <1>4, <1>5, <1>6, <1>p, <1>s, MoveCollidingIs
<1>7. u = Fill(t2, mp, k, v)
  BY DEF t1
<1> HIDE DEF t2
<1>8. t2 = WithNodes(t1, t2.node, n) /\ t2.node \in [D -> Node]
  BY <1>5, <1>m DEF Moved
<1>9. t2 \in Table /\ DOMAIN t2.node = D /\ t2.array = t.array /\ t2.dummy = t.dummy /\ t2.lastfree = n
  <2>1. t2.node \in [DOMAIN t1.node -> Node]
    BY <1>5, <1>8
  <2> QED
    BY <1>2, <1>5, <1>8, <2>1, WithNodesIs
<1>10. Filled(t2, u, mp, k, v)
  BY <1>2, <1>7, <1>9, FillIs
<1>11. nd1 \in [D -> Node] /\ u = WithNodes(t, nd1, n)
  BY <1>9, <1>10 DEF Filled, WithNodes
<1>12. nd1[mp].key = k /\ nd1[mp].dead = FALSE /\ nd1[mp].val = v /\ nd1[mp].next = NoNode
  BY <1>m, <1>10 DEF Filled, Moved
<1>x. \A i \in D \ {mp} : nd1[i] = t2.node[i]
  BY <1>9, <1>10 DEF Filled
<1>13. nd1[prev].key = nd[prev].key /\ nd1[prev].dead = nd[prev].dead /\ nd1[prev].val = nd[prev].val
       /\ nd1[prev].next = n
  BY <1>5, <1>6, <1>m, <1>p, <1>x DEF Moved
<1>y. nd1[n] = nd[mp]
  BY <1>2, <1>4, <1>5, <1>m, <1>x DEF Moved
<1>14. \A i \in D \ {mp, n, prev} : nd1[i] = nd[i]
  <2> SUFFICES ASSUME NEW i \in D \ {mp, n, prev} PROVE nd1[i] = nd[i]
    OBVIOUS
  <2>2. t2.node[i] = nd[i]
    BY <1>5, <1>m DEF Moved
  <2> QED
    BY <1>x, <2>2
<1>15. nd[mp].val # Nil /\ nd[n].key = Nil /\ Positions(t)[nd[mp].key] # mp
  BY <1>q
<1> HIDE DEF nd1, nd, D
<1>16. Layout(D, nd1, Positions(t))
  <2> DEFINE p == Positions(t)
  <2>1. Layout(D, nd, p) /\ k \in Keys /\ mp = p[k] /\ nd[mp].val # Nil /\ p[nd[mp].key] # mp
    BY <1>1, <1>2, <1>15
  <2>2. n \in D /\ nd[n].key = Nil /\ nd1 \in [D -> Node]
    BY <1>2, <1>11, <1>15
  <2>3. nd1[mp].key = k /\ ~nd1[mp].dead /\ nd1[mp].next = NoNode
    BY <1>12
  <2> HIDE DEF p
  <2>4. MovesAway(D, nd, nd1, p, k, mp, n, prev)
    BY <1>6, <1>13, <1>14, <1>y, <2>1, <2>2, <2>3 DEF MovesAway
  <2> QED
    BY <2>1, <2>4, LayoutMove DEF p
<1>17. \A i \in D : i # n /\ i # mp =>
           nd1[i].key = nd[i].key /\ nd1[i].dead = nd[i].dead /\ nd1[i].val = nd[i].val
  BY <1>13, <1>14
<1>18. FreeBelow(WithNodes(t, nd1, n))
  <2>1. WithNodes(t, nd1, n).node = nd1 /\ WithNodes(t, nd1, n).dummy = t.dummy
        /\ WithNodes(t, nd1, n).lastfree = n /\ DOMAIN nd1 = D
    BY <1>11 DEF WithNodes
  <2>2. SizeNode(WithNodes(t, nd1, n)) = SizeNode(t)
    BY <2>1, SamePositions DEF D
  <2>3. n <= SizeNode(t)
    BY <1>1, <1>2, TableFields DEF D
  <2>5. \A i \in D : i > n => nd[i].key # Nil
    BY DEF D, nd
  <2>4. \A i \in D : i >= n => nd1[i].key # Nil
    BY <1>2, <1>4, <1>12, <1>17, <1>y, <2>5, NilIsNoKey
  <2> QED
    BY <2>1, <2>2, <2>3, <2>4 DEF FreeBelow
<1>19. Good(u)
  BY <1>2, <1>11, <1>16, <1>18, WithNodesGood DEF D
<1>20. NodeStep(D, nd, nd1, k, v)
  <2>0. \A i \in D : nd[i].key = k => nd[i].val = Nil
    BY <1>3, <1>c DEF Clean
  <2>9. nd[mp].key # k /\ nd[n].val = Nil
    BY <1>2, <1>15, <1>c, <2>0, EmptyIsNode DEF Clean
  <2>1. ASSUME NEW kk, NEW w \in V \ {Nil}
        PROVE  (\E i \in D : nd1[i].key = kk /\ nd1[i].val = w)
                   <=> IF kk = k THEN w = v ELSE \E i \in D : nd[i].key = kk /\ nd[i].val = w
    <3>3. CASE kk = k
      BY <1>2, <1>12, <1>17, <1>y, <2>0, <2>9, <3>3
    <3>4. CASE kk # k
      BY <1>2, <1>12, <1>17, <1>y, <2>9, <3>4
    <3> QED
      BY <3>3, <3>4
  <2>2. (\A i \in D : ~nd[i].dead) => \A i \in D : ~nd1[i].dead
    BY <1>2, <1>12, <1>17, <1>y
  <2>3. ASSUME NEW K, k \in K, \A i \in D : nd[i].key \in K \cup {Nil}
        PROVE  \A i \in D : nd1[i].key \in K \cup {Nil}
    BY <1>2, <1>12, <1>17, <1>y, <2>3
  <2> QED
    BY <2>1, <2>2, <2>3 DEF NodeStep
<1> QED
  BY <1>11, <1>19, <1>20 DEF D, nd, nd1

\* What newkey promises.
Inserts(t, k, v, r) ==
    /\ r.ok \in BOOLEAN
    /\ Good(r.t)
    /\ r.t.array = t.array /\ r.t.dummy = t.dummy /\ DOMAIN r.t.node = DOMAIN t.node
    /\ r.ok => NodeStep(DOMAIN t.node, t.node, r.t.node, k, v)
    /\ ~r.ok => r.t.node = t.node /\ (t.dummy \/ \A i \in DOMAIN t.node : t.node[i].key # Nil)

LEMMA NewKeyIs ==
    ASSUME NEW t, Good(t), NEW k \in Keys, NEW v \in V, FindNode(t, k) = NoNode
    PROVE  Inserts(t, k, v, NewKey(t, k, v))
<1> DEFINE mp == MainPosition(t, k)
           n == IF t.dummy THEN NoNode ELSE FreePos(t)
           t1 == [t EXCEPT !.lastfree = IF t.dummy THEN @ ELSE n]
<1>0. t \in Table
  BY DEF Good
<1>1. t.dummy => t1 = t
  BY <1>0 DEF Table
<1>2. ~t.dummy => t1 = WithNodes(t, t.node, n)
  BY <1>0 DEF Table, WithNodes
<1> HIDE DEF t1
<1>3. CASE ~t.dummy /\ t.node[mp].val = Nil
  <2>1. PICK u : u = Fill(t, mp, k, v)
    OBVIOUS
  <2>2. NewKey(t, k, v) = [t |-> u, ok |-> TRUE]
    BY <1>3, <2>1 DEF NewKey
  <2>3. /\ Good(u) /\ u = WithNodes(t, u.node, t.lastfree)
        /\ u.node \in [DOMAIN t.node -> Node]
        /\ NodeStep(DOMAIN t.node, t.node, u.node, k, v)
    BY <1>3, <2>1, FillStep
  <2>4. u.array = t.array /\ u.dummy = t.dummy /\ DOMAIN u.node = DOMAIN t.node
    BY <2>3 DEF WithNodes
  <2> QED
    BY <2>2, <2>3, <2>4 DEF Inserts
<1>4. CASE ~(~t.dummy /\ t.node[mp].val = Nil) /\ n = NoNode
  <2>1. NewKey(t, k, v) = [t |-> t1, ok |-> FALSE]
    BY <1>4 DEF NewKey, t1
  <2>2. CASE t.dummy
    <3>1. PICK r : r = NewKey(t, k, v)
      OBVIOUS
    <3>2. r.t = t /\ r.ok = FALSE
      BY <1>1, <2>1, <2>2, <3>1
    <3>3. Inserts(t, k, v, r)
      BY <2>2, <3>2 DEF Inserts
    <3> QED
      BY <3>1, <3>3
  <2>3. CASE ~t.dummy
    <3>1. \A i \in DOMAIN t.node : t.node[i].key # Nil
      <4>1. FreePos(t) = NoNode
        BY <1>4, <2>3
      <4> QED
        BY <2>3, <4>1, FreePosIs
    <3>2. t1 = WithNodes(t, t.node, n) /\ n \in Int /\ n = NoNode
      BY <1>2, <1>4, <2>3 DEF NoNode
    <3>3. t.node \in [DOMAIN t.node -> Node] /\ Layout(DOMAIN t.node, t.node, Positions(t))
          /\ SizeNode(t) \in Nat
      BY <1>0, TableFields DEF Good
    <3> HIDE DEF n
    <3>4. t1.node = t.node /\ t1.dummy = t.dummy /\ t1.lastfree = n /\ t1.array = t.array
      BY <1>0, <3>2, <3>3, WithNodesIs
    <3>5. FreeBelow(t1)
      <4>1. SizeNode(t1) = SizeNode(t)
        BY <3>4 DEF SizeNode
      <4>2. n <= SizeNode(t1)
        BY <3>2, <3>3, <4>1 DEF NoNode
      <4> QED
        BY <2>3, <3>1, <3>4, <4>2 DEF FreeBelow
    <3>6. Good(t1)
      BY <3>2, <3>3, <3>5, WithNodesGood
    <3> QED
      BY <2>1, <3>1, <3>4, <3>6 DEF Inserts
  <2> QED
    BY <2>2, <2>3
<1>5. CASE ~t.dummy /\ t.node[mp].val # Nil /\ n # NoNode
  <2>1. n = FreePos(t) /\ n \in DOMAIN t.node /\ t.node[n].key = Nil
        /\ \A i \in DOMAIN t.node : i > n => t.node[i].key # Nil
    BY <1>5, FreePosIs
  <2>2. t1 = WithNodes(t, t.node, n)
    BY <1>2, <1>5
  <2>3. CASE MainPosition(t, t.node[mp].key) # mp
    <3>1. PICK u : u = Fill(MoveColliding(t1, mp, n), mp, k, v)
      OBVIOUS
    <3>2. NewKey(t, k, v) = [t |-> u, ok |-> TRUE]
      BY <1>5, <2>3, <3>1 DEF NewKey, t1
    <3> HIDE DEF n, mp
    <3>3. /\ Good(u) /\ u = WithNodes(t, u.node, n)
          /\ u.node \in [DOMAIN t.node -> Node]
          /\ NodeStep(DOMAIN t.node, t.node, u.node, k, v)
      <4>1. mp = MainPosition(t, k) /\ u = Fill(MoveColliding(WithNodes(t, t.node, n), mp, n), mp, k, v)
        BY <2>2, <3>1 DEF mp
      <4> QED
        BY <1>5, <2>1, <2>3, <4>1, MoveStep
    <3>4. u.array = t.array /\ u.dummy = t.dummy /\ DOMAIN u.node = DOMAIN t.node
      BY <3>3 DEF WithNodes
    <3> QED
      BY <3>2, <3>3, <3>4 DEF Inserts
  <2>4. CASE MainPosition(t, t.node[mp].key) = mp
    <3>1. PICK u : u = Fill(ChainAfter(t1, mp, n), n, k, v)
      OBVIOUS
    <3>2. NewKey(t, k, v) = [t |-> u, ok |-> TRUE]
      BY <1>5, <2>4, <3>1 DEF NewKey, t1
    <3> HIDE DEF n, mp
    <3>3. /\ Good(u) /\ u = WithNodes(t, u.node, n)
          /\ u.node \in [DOMAIN t.node -> Node]
          /\ NodeStep(DOMAIN t.node, t.node, u.node, k, v)
      <4>1. mp = MainPosition(t, k) /\ u = Fill(ChainAfter(WithNodes(t, t.node, n), mp, n), n, k, v)
        BY <2>2, <3>1 DEF mp
      <4> QED
        BY <1>5, <2>1, <2>4, <4>1, ChainStep
    <3>4. u.array = t.array /\ u.dummy = t.dummy /\ DOMAIN u.node = DOMAIN t.node
      BY <3>3 DEF WithNodes
    <3> QED
      BY <3>2, <3>3, <3>4 DEF Inserts
  <2> QED
    BY <2>3, <2>4
<1> QED
  BY <1>3, <1>4, <1>5

\* Both tables have the same array size, keys and links.
SameShape(t, u) ==
    /\ SizeArray(u) = SizeArray(t) /\ DOMAIN u.node = DOMAIN t.node
    /\ \A i \in DOMAIN t.node : u.node[i].key = t.node[i].key /\ u.node[i].next = t.node[i].next

NoDead(t) == \A i \in DOMAIN t.node : ~t.node[i].dead
KeysIn(t, K) == \A i \in DOMAIN t.node : t.node[i].key \in K \cup {Nil}

\* What luaH_set and the assignment promise.
Puts(t, k, v, r) ==
    /\ r.ok \in BOOLEAN
    /\ Good(r.t)
    /\ SizeArray(r.t) = SizeArray(t) /\ r.t.dummy = t.dummy /\ DOMAIN r.t.node = DOMAIN t.node
    /\ r.ok => /\ \A kk \in Keys : Get(r.t, kk) = IF kk = k THEN v ELSE Get(t, kk)
               /\ \A kk : \A w \in V \ {Nil} :
                      Held(r.t, kk, w) <=> IF kk = k /\ ~InArray(t, k) THEN w = v ELSE Held(t, kk, w)
    /\ ~r.ok => /\ r.t.node = t.node /\ r.t.array = t.array /\ ~InArray(t, k)
                /\ \A i \in DOMAIN t.node : ~(t.node[i].key = k /\ ~t.node[i].dead)
                /\ t.dummy \/ \A i \in DOMAIN t.node : t.node[i].key # Nil
    /\ NoDead(t) => NoDead(r.t)
    /\ \A K : (k \in K \/ InArray(t, k)) /\ KeysIn(t, K) => KeysIn(r.t, K)
    /\ Get(t, k) # Nil => r.ok /\ SameShape(t, r.t)

LEMMA PutArray ==
    ASSUME NEW t, Good(t), NEW k \in Keys, NEW v \in V, InArray(t, k)
    PROVE  Puts(t, k, v, Put(t, k, v))
<1>0. t \in Table
  BY DEF Good
<1>1. PICK u : u = [t EXCEPT !.array[k] = v]
  OBVIOUS
<1>2. PICK r : r = Put(t, k, v) /\ r.t = u /\ r.ok = TRUE
  <2>1. Put(t, k, v) = [t |-> u, ok |-> TRUE]
    BY <1>1 DEF Put
  <2> QED
    BY <2>1
<1>3. k \in 1..SizeArray(t) /\ k \in IntKeys
  BY DEF InArray
<1>4. t.array \in Seq(V) /\ SizeArray(t) = Len(t.array) /\ DOMAIN t.array = 1..SizeArray(t)
      /\ SizeArray(t) \in Nat
  BY <1>0, TableFields DEF SizeArray
<1>5. PICK a : a = [t.array EXCEPT ![k] = v]
  OBVIOUS
<1>6. a \in Seq(V) /\ Len(a) = Len(t.array)
  BY <1>3, <1>4, <1>5 DEF SizeArray
<1>7. \A i \in 1..SizeArray(t) : a[i] = IF i = k THEN v ELSE t.array[i]
  BY <1>3, <1>4, <1>5
<1>8. u = [array |-> a, dummy |-> t.dummy, node |-> t.node, lastfree |-> t.lastfree]
  BY <1>0, <1>1, <1>5 DEF Table
<1>9. u.array = a /\ u.dummy = t.dummy /\ u.node = t.node /\ u.lastfree = t.lastfree
  BY <1>8
<1>10. u \in Table
  BY <1>0, <1>6, <1>8 DEF Table
<1>11. SizeArray(u) = SizeArray(t)
  BY <1>6, <1>9 DEF SizeArray
<1>12. Positions(u) = Positions(t) /\ SizeNode(u) = SizeNode(t)
  BY <1>9, SamePositions
<1>13. Good(u)
  <2>1. FreeBelow(u)
    BY <1>9, <1>12 DEF Good, FreeBelow
  <2>2. \A i \in 1..SizeArray(u) : u.array[i] # Nil => i \in IntKeys
    BY <1>3, <1>7, <1>9, <1>11 DEF Good
  <2> QED
    BY <1>9, <1>10, <1>12, <2>1, <2>2 DEF Good
<1>14. \A kk, w : Held(u, kk, w) <=> Held(t, kk, w)
  BY <1>9 DEF Held
<1>15. \A kk : InArray(u, kk) <=> InArray(t, kk)
  BY <1>11 DEF InArray
<1>16. ASSUME NEW kk \in Keys PROVE Get(u, kk) = IF kk = k THEN v ELSE Get(t, kk)
  <2>1. CASE InArray(t, kk)
    <3>1. kk \in 1..SizeArray(t)
      BY <2>1 DEF InArray
    <3>2. Get(u, kk) = a[kk] /\ Get(t, kk) = t.array[kk]
      BY <1>9, <1>13, <1>15, <2>1, GetIs
    <3> QED
      BY <1>7, <3>1, <3>2
  <2>2. CASE ~InArray(t, kk)
    <3>1. kk # k
      BY <2>2
    <3>2. Get(u, kk) \in V /\ Get(t, kk) \in V
      BY <1>13, GetIs
    <3>3. \A w \in V \ {Nil} : Get(u, kk) = w <=> Get(t, kk) = w
      BY <1>13, <1>14, <1>15, <2>2, GetIs
    <3> QED
      BY <3>1, <3>2, <3>3
  <2> QED
    BY <2>1, <2>2
<1>17. NoDead(t) => NoDead(u)
  BY <1>9 DEF NoDead
<1>18. \A K : KeysIn(t, K) => KeysIn(u, K)
  BY <1>9 DEF KeysIn
<1>19. SameShape(t, u)
  BY <1>9, <1>11 DEF SameShape
<1>20. Puts(t, k, v, r)
  <2>1. \A kk : \A w \in V \ {Nil} :
            Held(u, kk, w) <=> IF kk = k /\ ~InArray(t, k) THEN w = v ELSE Held(t, kk, w)
    BY <1>14
  <2>2. DOMAIN u.node = DOMAIN t.node
    BY <1>9
  <2> QED
    BY <1>2, <1>9, <1>11, <1>13, <1>16, <1>17, <1>18, <1>19, <2>1, <2>2 DEF Puts
<1> QED
  BY <1>2, <1>20

\* From what happens to the nodes to what luaH_get finds.
LEMMA PutNodes ==
    ASSUME NEW t, Good(t), NEW k \in Keys, NEW v \in V, ~InArray(t, k),
           NEW u, Good(u), u.array = t.array, DOMAIN u.node = DOMAIN t.node,
           NodeStep(DOMAIN t.node, t.node, u.node, k, v)
    PROVE  /\ SizeArray(u) = SizeArray(t)
           /\ \A kk \in Keys : Get(u, kk) = IF kk = k THEN v ELSE Get(t, kk)
           /\ \A kk : \A w \in V \ {Nil} :
                  Held(u, kk, w) <=> IF kk = k /\ ~InArray(t, k) THEN w = v ELSE Held(t, kk, w)
           /\ NoDead(t) => NoDead(u)
           /\ \A K : k \in K /\ KeysIn(t, K) => KeysIn(u, K)
<1>1. SizeArray(u) = SizeArray(t)
  BY DEF SizeArray
<1>2. \A kk : InArray(u, kk) <=> InArray(t, kk)
  BY <1>1 DEF InArray
<1>3. ASSUME NEW kk, NEW w \in V \ {Nil}
      PROVE  Held(u, kk, w) <=> IF kk = k THEN w = v ELSE Held(t, kk, w)
  <2>1. Held(u, kk, w) <=> \E i \in DOMAIN t.node : u.node[i].key = kk /\ u.node[i].val = w
    BY DEF Held
  <2>2. Held(t, kk, w) <=> \E i \in DOMAIN t.node : t.node[i].key = kk /\ t.node[i].val = w
    BY DEF Held
  <2>3. (\E i \in DOMAIN t.node : u.node[i].key = kk /\ u.node[i].val = w)
           <=> IF kk = k THEN w = v ELSE \E i \in DOMAIN t.node : t.node[i].key = kk /\ t.node[i].val = w
    <3>1. NodeStep(DOMAIN t.node, t.node, u.node, k, v)
      OBVIOUS
    <3>2. \A D, nd, nd1 : NodeStep(D, nd, nd1, k, v) =>
              ((\E i \in D : nd1[i].key = kk /\ nd1[i].val = w)
                   <=> IF kk = k THEN w = v ELSE \E i \in D : nd[i].key = kk /\ nd[i].val = w)
      BY DEF NodeStep
    <3> QED
      BY <3>1, <3>2
  <2> QED
    BY <2>1, <2>2, <2>3
<1>4. ASSUME NEW kk \in Keys PROVE Get(u, kk) = IF kk = k THEN v ELSE Get(t, kk)
  <2>1. CASE InArray(t, kk)
    <3>1. kk # k
      BY <2>1
    <3>2. Get(u, kk) = u.array[kk] /\ Get(t, kk) = t.array[kk]
      BY <1>2, <2>1, GetIs
    <3> QED
      BY <3>1, <3>2
  <2>2. CASE ~InArray(t, kk)
    <3>1. Get(u, kk) \in V /\ Get(t, kk) \in V /\ v \in V
      BY GetIs
    <3>2. \A w \in V \ {Nil} : Get(u, kk) = w <=> Held(u, kk, w)
      BY <1>2, <2>2, GetIs
    <3>3. \A w \in V \ {Nil} : Get(t, kk) = w <=> Held(t, kk, w)
      BY <2>2, GetIs
    <3>4. \A w \in V \ {Nil} : Get(u, kk) = w <=> IF kk = k THEN w = v ELSE Get(t, kk) = w
      BY <1>3, <3>2, <3>3
    <3>5. CASE kk = k
      BY <3>1, <3>4, <3>5
    <3>6. CASE kk # k
      BY <3>1, <3>4, <3>6
    <3> QED
      BY <3>5, <3>6
  <2> QED
    BY <2>1, <2>2
<1>5. NoDead(t) => NoDead(u)
  BY DEF NoDead, NodeStep
<1>6. \A K : k \in K /\ KeysIn(t, K) => KeysIn(u, K)
  BY DEF KeysIn, NodeStep
<1> QED
  BY <1>1, <1>3, <1>4, <1>5, <1>6

LEMMA PutFound ==
    ASSUME NEW t, Good(t), NEW k \in Keys, NEW v \in V, ~InArray(t, k), FindNode(t, k) # NoNode
    PROVE  Puts(t, k, v, Put(t, k, v))
<1> DEFINE D == DOMAIN t.node
           nd == t.node
<1>0. t \in Table /\ Layout(D, nd, Positions(t)) /\ FreeBelow(t)
  BY DEF Good
<1>1. PICK f \in D : f = FindNode(t, k) /\ nd[f].key = k /\ ~nd[f].dead
  BY FindNodeIs
<1>2. PICK u : u = [t EXCEPT !.node[f].val = v]
  OBVIOUS
<1>3. PICK r : r = Put(t, k, v) /\ r.t = u /\ r.ok = TRUE
  <2>1. Put(t, k, v) = [t |-> u, ok |-> TRUE]
    BY <1>1, <1>2 DEF Put
  <2> QED
    BY <2>1
<1>4. nd \in [D -> Node] /\ D \subseteq Nat /\ t.lastfree \in Int
  BY <1>0, TableFields
<1>5. PICK nd1 : nd1 = [nd EXCEPT ![f] = [nd[f] EXCEPT !.val = v]]
  OBVIOUS
<1>6. nd1 \in [D -> Node] /\ \A i \in D \ {f} : nd1[i] = nd[i]
  BY <1>1, <1>4, <1>5 DEF Node
<1>7. nd1[f].key = k /\ nd1[f].dead = nd[f].dead /\ nd1[f].next = nd[f].next /\ nd1[f].val = v
  BY <1>1, <1>4, <1>5 DEF Node
<1>8. u = WithNodes(t, nd1, t.lastfree)
  BY <1>0, <1>1, <1>2, <1>4, <1>5 DEF Table, WithNodes
<1> HIDE DEF nd, D
<1>9. \A i \in D : nd1[i].key = nd[i].key /\ nd1[i].next = nd[i].next /\ nd1[i].dead = nd[i].dead
  BY <1>1, <1>6, <1>7
<1>10. Clean(D, nd) /\ Unique(D, nd)
  BY <1>0 DEF Layout, Ranked
<1>11. Clean(D, nd1)
  BY <1>1, <1>6, <1>7, <1>10, NilIsNoKey DEF Clean
<1>12. Layout(D, nd1, Positions(t))
  BY <1>0, <1>6, <1>9, <1>11, LayoutKept
<1>13. u.array = t.array /\ u.dummy = t.dummy /\ u.node = nd1 /\ u.lastfree = t.lastfree /\ DOMAIN u.node = D
  BY <1>6, <1>8 DEF WithNodes
<1>14. SizeNode(u) = SizeNode(t)
  BY <1>13, SamePositions DEF D
<1>15. ~t.dummy
  BY <1>0, <1>1, NilIsNoKey, EmptyIsNode DEF FreeBelow, D, nd
<1>16. FreeBelow(u)
  BY <1>0, <1>9, <1>13, <1>14, <1>15 DEF FreeBelow, D, nd
<1>17. Good(u)
  BY <1>4, <1>8, <1>12, <1>16, WithNodesGood DEF D
<1>18. NodeStep(D, nd, nd1, k, v)
  <2>1. ASSUME NEW kk, NEW w \in V \ {Nil}
        PROVE  (\E i \in D : nd1[i].key = kk /\ nd1[i].val = w)
                   <=> IF kk = k THEN w = v ELSE \E i \in D : nd[i].key = kk /\ nd[i].val = w
    <3>1. \A i \in D \ {f} : nd[i].key = k => nd[i].val = Nil
      BY <1>1, <1>10, NilIsNoKey DEF Clean, Unique
    <3>2. CASE kk = k
      BY <1>1, <1>6, <1>7, <3>1, <3>2
    <3>3. CASE kk # k
      BY <1>1, <1>6, <1>7, <3>3
    <3> QED
      BY <3>2, <3>3
  <2>2. (\A i \in D : ~nd[i].dead) => \A i \in D : ~nd1[i].dead
    BY <1>9
  <2>3. ASSUME NEW K, k \in K, \A i \in D : nd[i].key \in K \cup {Nil}
        PROVE  \A i \in D : nd1[i].key \in K \cup {Nil}
    BY <1>9, <2>3
  <2> QED
    BY <2>1, <2>2, <2>3 DEF NodeStep
<1>20. SameShape(t, u)
  BY <1>9, <1>13 DEF SameShape, SizeArray, D, nd
<1>21. Puts(t, k, v, r)
  <2>1. /\ SizeArray(u) = SizeArray(t)
        /\ \A kk \in Keys : Get(u, kk) = IF kk = k THEN v ELSE Get(t, kk)
        /\ \A kk : \A w \in V \ {Nil} :
               Held(u, kk, w) <=> IF kk = k /\ ~InArray(t, k) THEN w = v ELSE Held(t, kk, w)
        /\ NoDead(t) => NoDead(u)
        /\ \A K : k \in K /\ KeysIn(t, K) => KeysIn(u, K)
    BY <1>13, <1>17, <1>18, PutNodes DEF D, nd
  <2>2. DOMAIN u.node = DOMAIN t.node
    BY <1>13 DEF D
  <2> QED
    BY <1>3, <1>13, <1>17, <1>20, <2>1, <2>2 DEF Puts
<1> QED
  BY <1>3, <1>21

LEMMA PutIs ==
    ASSUME NEW t, Good(t), NEW k \in Keys, NEW v \in V
    PROVE  Puts(t, k, v, Put(t, k, v))
<1>1. CASE InArray(t, k)
  BY <1>1, PutArray
<1>2. CASE ~InArray(t, k) /\ FindNode(t, k) # NoNode
  BY <1>2, PutFound
<1>3. CASE ~InArray(t, k) /\ FindNode(t, k) = NoNode
  <2>1. PICK r : r = Put(t, k, v) /\ r = NewKey(t, k, v)
    BY <1>3 DEF Put
  <2>2. Inserts(t, k, v, r)
    BY <1>3, <2>1, NewKeyIs
  <2>3. Get(t, k) = Nil
    BY <1>3 DEF Get
  <2>4. \A i \in DOMAIN t.node : ~(t.node[i].key = k /\ ~t.node[i].dead)
    BY <1>3, FindNodeIs
  <2>5. r.ok \in BOOLEAN /\ Good(r.t) /\ r.t.array = t.array /\ r.t.dummy = t.dummy
        /\ DOMAIN r.t.node = DOMAIN t.node /\ SizeArray(r.t) = SizeArray(t)
    BY <2>2 DEF Inserts, SizeArray
  <2>6. CASE r.ok
    <3>1. /\ \A kk \in Keys : Get(r.t, kk) = IF kk = k THEN v ELSE Get(t, kk)
          /\ \A kk : \A w \in V \ {Nil} :
                 Held(r.t, kk, w) <=> IF kk = k /\ ~InArray(t, k) THEN w = v ELSE Held(t, kk, w)
          /\ NoDead(t) => NoDead(r.t)
          /\ \A K : k \in K /\ KeysIn(t, K) => KeysIn(r.t, K)
      BY <1>3, <2>2, <2>5, <2>6, PutNodes DEF Inserts
    <3> QED
      BY <1>3, <2>1, <2>3, <2>5, <2>6, <3>1 DEF Puts
  <2>7. CASE ~r.ok
    <3>1. r.t.node = t.node /\ (t.dummy \/ \A i \in DOMAIN t.node : t.node[i].key # Nil)
      BY <2>2, <2>7 DEF Inserts
    <3>2. (NoDead(t) => NoDead(r.t)) /\ \A K : KeysIn(t, K) => KeysIn(r.t, K)
      BY <3>1 DEF NoDead, KeysIn
    <3> QED
      BY <1>3, <2>1, <2>3, <2>4, <2>5, <2>7, <3>1, <3>2 DEF Puts
  <2> QED
    BY <2>6, <2>7
<1> QED
  BY <1>1, <1>2, <1>3

-----------------------------------------------------------------------------
(* Reinserting: resize puts the entries back one after the other.          *)

\* There is room for the keys K in the hash part.
Room(t, K) == IsFiniteSet(K) /\ (K # {} => ~t.dummy /\ Cardinality(K) <= SizeNode(t))

\* An insertion into a hash part with room succeeds.
LEMMA PutFits ==
    ASSUME NEW t, Good(t), NEW K, Room(t, K), NoDead(t), KeysIn(t, K),
           NEW k \in Keys, k \in K \/ InArray(t, k), NEW v \in V
    PROVE  Put(t, k, v).ok
<1> SUFFICES ASSUME ~Put(t, k, v).ok PROVE FALSE
  OBVIOUS
<1> DEFINE D == DOMAIN t.node
           f == [i \in D |-> t.node[i].key]
<1>1. Puts(t, k, v, Put(t, k, v))
  BY PutIs
<1>2. /\ ~InArray(t, k) /\ \A i \in D : ~(t.node[i].key = k /\ ~t.node[i].dead)
      /\ t.dummy \/ \A i \in D : t.node[i].key # Nil
  BY <1>1 DEF Puts
<1>3. k \in K /\ IsFiniteSet(K) /\ ~t.dummy /\ Cardinality(K) <= SizeNode(t)
  BY <1>2 DEF Room
<1>4. \A i \in D : t.node[i].key \in K \ {k} /\ ~t.node[i].dead /\ t.node[i].key # Nil
  BY <1>2, <1>3 DEF KeysIn, NoDead
<1>5. Unique(D, t.node)
  BY DEF Good, Layout, Ranked
<1>6. f \in Injection(D, K \ {k})
  <2>1. f \in [D -> K \ {k}]
    BY <1>4
  <2>2. ASSUME NEW i \in D, NEW j \in D, f[i] = f[j] PROVE i = j
    BY <1>4, <1>5, <2>2 DEF Unique
  <2> HIDE DEF f
  <2> QED
    BY <2>1, <2>2 DEF Injection, IsInjective
<1>7. IsFiniteSet(K \ {k}) /\ Cardinality(K \ {k}) = Cardinality(K) - 1
  BY <1>3, FS_RemoveElement
<1>8. Cardinality(D) <= Cardinality(K \ {k})
  BY <1>6, <1>7, FS_Injection
<1>9. Cardinality(D) = SizeNode(t) /\ Cardinality(K) \in Nat /\ SizeNode(t) \in Nat
  <2>1. t \in Table
    BY DEF Good
  <2> QED
    BY <1>3, <2>1, TableFields, FS_CardinalityType DEF SizeNode
<1> QED
  BY <1>3, <1>7, <1>8, <1>9

\* One turn of the loop.
Again(E, i, r) ==
    LET p == Put(r.t, E[i][1], E[i][2])
    IN  IF E[i][2] = Nil THEN r ELSE [t |-> p.t, ok |-> r.ok /\ p.ok]

LEMMA ReinsertDef ==
    ASSUME NEW t, NEW E, Len(E) \in Nat
    PROVE  \E h : /\ h[0] = [t |-> t, ok |-> TRUE]
                  /\ \A i \in 1..Len(E) : h[i] = Again(E, i, h[i - 1])
                  /\ Reinsert(t, E) = h[Len(E)]
<1> DEFINE Base == [t |-> t, ok |-> TRUE]
           Is(n, f) == f = [i \in 0..n |-> IF i = 0 THEN Base ELSE Again(E, i, f[i - 1])]
           T == {n \in Nat : \E f : Is(n, f)}
<1> HIDE DEF Base
<1>1. 0 \in T
  <2> DEFINE f == [i \in 0..0 |-> Base]
  <2>0. \A i \in 0..0 : i = 0
    OBVIOUS
  <2>1. Is(0, f)
    BY <2>0
  <2> QED
    BY <2>1
<1>2. ASSUME NEW n \in Nat, n \in T PROVE n + 1 \in T
  <2>1. PICK f : Is(n, f)
    BY <1>2
  <2> DEFINE g == [i \in 0..(n + 1) |-> IF i <= n THEN f[i] ELSE Again(E, n + 1, f[n])]
             rhs(i) == IF i = 0 THEN Base ELSE Again(E, i, g[i - 1])
  <2>2. \A i \in 0..n : f[i] = IF i = 0 THEN Base ELSE Again(E, i, f[i - 1])
    BY <2>1
  <2>3. ASSUME NEW i \in 0..(n + 1) PROVE g[i] = rhs(i)
    <3>1. CASE i = 0
      <4>1. g[i] = f[0]
        BY <3>1
      <4> QED
        BY <2>2, <3>1, <4>1
    <3>2. CASE i # 0 /\ i <= n
      <4>1. i - 1 \in 0..(n + 1) /\ i - 1 <= n /\ i \in 0..n
        BY <3>2
      <4>2. g[i] = f[i] /\ g[i - 1] = f[i - 1]
        BY <3>2, <4>1
      <4>3. f[i] = Again(E, i, f[i - 1])
        BY <2>2, <3>2, <4>1
      <4> QED
        BY <3>2, <4>2, <4>3
    <3>3. CASE i = n + 1
      <4>1. ~(i <= n) /\ i - 1 = n /\ n \in 0..(n + 1) /\ n <= n /\ i # 0
        BY <3>3
      <4>2. g[i] = Again(E, n + 1, f[n]) /\ g[n] = f[n]
        BY <4>1
      <4> QED
        BY <3>3, <4>1, <4>2
    <3>4. i = 0 \/ (i # 0 /\ i <= n) \/ i = n + 1
      OBVIOUS
    <3> QED
      BY <3>1, <3>2, <3>3, <3>4
  <2>4. g = [i \in 0..(n + 1) |-> g[i]]
    OBVIOUS
  <2> HIDE DEF g
  <2>5. Is(n + 1, g)
    BY <2>3, <2>4
  <2> QED
    BY <2>5
<1> HIDE DEF T
<1>3. Nat \subseteq T
  BY <1>1, <1>2, Naturals01
<1>4. \E f : Is(Len(E), f)
  BY <1>3 DEF T
<1> DEFINE h == CHOOSE f : Is(Len(E), f)
<1>5. Is(Len(E), h)
  BY <1>4
<1>6. Reinsert(t, E) = h[Len(E)]
  BY DEF Reinsert, Again, Base
<1> HIDE DEF h
<1>7. \A i \in 0..Len(E) : h[i] = IF i = 0 THEN Base ELSE Again(E, i, h[i - 1])
  BY <1>5
<1>8. h[0] = Base
  BY <1>7
<1>9. \A i \in 1..Len(E) : h[i] = Again(E, i, h[i - 1])
  BY <1>7
<1> QED
  BY <1>6, <1>8, <1>9 DEF Base

\* The hash part has no key that the array part hides.
Apart(t) == \A kk : \A w \in V \ {Nil} : Held(t, kk, w) => ~InArray(t, kk)

\* The entries E can be put into t: those that go to the hash part are in K.
Fits(t, E, K) ==
    \A i \in 1..Len(E) : E[i][2] # Nil =>
        E[i][1] \in Keys /\ E[i][2] \in V /\ (E[i][1] \in K \/ InArray(t, E[i][1]))

\* A table to which K's entries are added: u comes from t.
Growing(t, u, K) ==
    /\ Good(u) /\ NoDead(u) /\ KeysIn(u, K) /\ Apart(u)
    /\ SizeArray(u) = SizeArray(t) /\ u.dummy = t.dummy /\ DOMAIN u.node = DOMAIN t.node

\* Every entry for k has the value g.
OnlyValue(E, k, g) == \A j \in 1..Len(E) : E[j][1] = k /\ E[j][2] # Nil => E[j][2] = g
EntryFrom(E, m, k, g) == g # Nil /\ \E j \in 1..Len(E) : j > m /\ E[j][1] = k /\ E[j][2] = g

PutGrows(t, K, u, k, v, r) ==
    /\ Growing(t, r.t, K) /\ r.ok = TRUE
    /\ \A kk \in Keys : Get(r.t, kk) = IF kk = k THEN v ELSE Get(u, kk)

LEMMA GrowingPut ==
    ASSUME NEW t, NEW u, NEW K, Growing(t, u, K), Room(t, K), NEW k \in Keys, NEW v \in V \ {Nil},
           k \in K \/ InArray(t, k)
    PROVE  PutGrows(t, K, u, k, v, Put(u, k, v))
<1>1. PICK r : r = Put(u, k, v)
  OBVIOUS
<1>2. Good(u) /\ NoDead(u) /\ KeysIn(u, K) /\ Apart(u) /\ v \in V
      /\ SizeArray(u) = SizeArray(t) /\ u.dummy = t.dummy /\ DOMAIN u.node = DOMAIN t.node
  BY DEF Growing
<1>3. Room(u, K)
  BY <1>2, SamePositions DEF Room
<1>4. \A kk : InArray(u, kk) <=> InArray(t, kk)
  BY <1>2 DEF InArray
<1>5. k \in K \/ InArray(u, k)
  BY <1>4
<1>6. r.ok
  BY <1>1, <1>2, <1>3, <1>5, PutFits
<1>7. Puts(u, k, v, r)
  BY <1>1, <1>2, PutIs
<1>8. r.ok = TRUE /\ Good(r.t) /\ SizeArray(r.t) = SizeArray(u) /\ r.t.dummy = u.dummy
      /\ DOMAIN r.t.node = DOMAIN u.node
  BY <1>6, <1>7 DEF Puts
<1>9. \A kk \in Keys : Get(r.t, kk) = IF kk = k THEN v ELSE Get(u, kk)
  BY <1>6, <1>7 DEF Puts
<1>10. NoDead(r.t) /\ KeysIn(r.t, K)
  BY <1>2, <1>5, <1>7 DEF Puts
<1>11. Apart(r.t)
  <2> SUFFICES ASSUME NEW kk, NEW w \in V \ {Nil}, Held(r.t, kk, w) PROVE ~InArray(r.t, kk)
    BY DEF Apart
  <2>1. IF kk = k /\ ~InArray(u, k) THEN w = v ELSE Held(u, kk, w)
    BY <1>6, <1>7 DEF Puts
  <2>2. InArray(r.t, kk) <=> InArray(u, kk)
    BY <1>8 DEF InArray
  <2>3. Held(u, kk, w) => ~InArray(u, kk)
    BY <1>2 DEF Apart
  <2> QED
    BY <2>1, <2>2, <2>3
<1>12. Growing(t, r.t, K)
  BY <1>2, <1>8, <1>10, <1>11 DEF Growing
<1>13. PutGrows(t, K, u, k, v, r)
  BY <1>8, <1>9, <1>12 DEF PutGrows
<1> QED
  BY <1>1, <1>13

Reinserts(t, E, K, r) ==
    /\ Growing(t, r.t, K) /\ r.ok = TRUE
    /\ \A k \in Keys : \A g \in V :
           OnlyValue(E, k, g) /\ (Get(t, k) = g \/ EntryFrom(E, 0, k, g)) => Get(r.t, k) = g

LEMMA ReinsertIs ==
    ASSUME NEW t, NEW E, NEW K, Len(E) \in Nat, Fits(t, E, K), Growing(t, t, K), Room(t, K)
    PROVE  Reinserts(t, E, K, Reinsert(t, E))
<1>1. PICK h : /\ h[0] = [t |-> t, ok |-> TRUE]
               /\ \A i \in 1..Len(E) : h[i] = Again(E, i, h[i - 1])
               /\ Reinsert(t, E) = h[Len(E)]
  BY ReinsertDef
<1> DEFINE Kept(k, g, n) == OnlyValue(E, k, g) /\ (Get(t, k) = g \/ EntryFrom(E, 0, k, g))
                                => Get(h[n].t, k) = g \/ EntryFrom(E, n, k, g)
           Ok(n) == /\ Growing(t, h[n].t, K) /\ h[n].ok = TRUE
                    /\ \A k \in Keys : \A g \in V : Kept(k, g, n)
           T == {n \in Nat : n <= Len(E) => Ok(n)}
<1>2. 0 \in T
  <2>1. h[0].t = t /\ h[0].ok = TRUE
    BY <1>1
  <2>2. Ok(0)
    BY <2>1
  <2> QED
    BY <2>2
<1>3. ASSUME NEW n \in Nat, n \in T PROVE n + 1 \in T
  <2> HIDE DEF Ok
  <2> SUFFICES ASSUME n + 1 <= Len(E) PROVE Ok(n + 1)
    OBVIOUS
  <2>1. n + 1 \in 1..Len(E) /\ (n + 1) - 1 = n /\ n <= Len(E)
    OBVIOUS
  <2>2. Ok(n)
    BY <1>3, <2>1
  <2> USE DEF Ok
  <2>3. h[n + 1] = Again(E, n + 1, h[n])
    BY <1>1, <2>1
  <2>4. PICK k0, v0 : k0 = E[n + 1][1] /\ v0 = E[n + 1][2]
    OBVIOUS
  <2>5. \A k, g : EntryFrom(E, n, k, g) => EntryFrom(E, n + 1, k, g) \/ (k = k0 /\ g = v0 /\ g # Nil)
    <3> SUFFICES ASSUME NEW k, NEW g, EntryFrom(E, n, k, g)
                 PROVE  EntryFrom(E, n + 1, k, g) \/ (k = k0 /\ g = v0 /\ g # Nil)
      OBVIOUS
    <3>1. PICK j \in 1..Len(E) : j > n /\ E[j][1] = k /\ E[j][2] = g /\ g # Nil
      BY DEF EntryFrom
    <3>2. CASE j = n + 1
      BY <2>4, <3>1, <3>2
    <3>3. CASE j # n + 1
      <4>1. j > n + 1
        BY <3>1, <3>3
      <4> QED
        BY <3>1, <4>1 DEF EntryFrom
    <3> QED
      BY <3>2, <3>3
  <2>6. CASE v0 = Nil
    <3>1. h[n + 1] = h[n]
      BY <2>3, <2>4, <2>6 DEF Again
    <3>2. ASSUME NEW k \in Keys, NEW g \in V PROVE Kept(k, g, n + 1)
      <4>1. Kept(k, g, n)
        BY <2>2
      <4> QED
        BY <2>5, <2>6, <3>1, <4>1
    <3> QED
      BY <2>2, <3>1, <3>2
  <2>7. CASE v0 # Nil
    <3>0. PICK u : u = h[n].t
      OBVIOUS
    <3>1. k0 \in Keys /\ v0 \in V \ {Nil} /\ (k0 \in K \/ InArray(t, k0))
      BY <2>1, <2>4, <2>7 DEF Fits
    <3>2. PICK r : r = Put(u, k0, v0)
      OBVIOUS
    <3>6. PutGrows(t, K, u, k0, v0, r)
      <4>1. Growing(t, u, K)
        BY <2>2, <3>0
      <4> HIDE DEF Ok, T, Kept
      <4> QED
        BY <3>1, <3>2, <4>1, GrowingPut
    <3>3. h[n + 1] = [t |-> r.t, ok |-> h[n].ok /\ r.ok]
      <4>1. Again(E, n + 1, h[n]) = IF v0 = Nil THEN h[n] ELSE [t |-> r.t, ok |-> h[n].ok /\ r.ok]
        BY <2>4, <3>0, <3>2, Zenon DEF Again
      <4> QED
        BY <2>3, <2>7, <4>1
    <3>7. (h[n].ok /\ r.ok) = TRUE
      BY <2>2, <3>6 DEF PutGrows
    <3>4. h[n + 1].t = r.t /\ h[n + 1].ok = TRUE
      <4>1. h[n + 1] = [t |-> r.t, ok |-> TRUE]
        BY <3>3, <3>7, Zenon
      <4> QED
        BY <4>1
    <3>5. ASSUME NEW k \in Keys, NEW g \in V PROVE Kept(k, g, n + 1)
      <4>1. Kept(k, g, n)
        BY <2>2
      <4>2. Get(h[n + 1].t, k) = IF k = k0 THEN v0 ELSE Get(u, k)
        BY <3>4, <3>6 DEF PutGrows
      <4>3. k = k0 /\ OnlyValue(E, k, g) => v0 = g
        BY <2>1, <2>4, <2>7 DEF OnlyValue
      <4> QED
        BY <2>5, <3>0, <4>1, <4>2, <4>3
    <3> QED
      BY <3>4, <3>5, <3>6 DEF PutGrows
  <2> QED
    BY <2>6, <2>7
<1> HIDE DEF T
<1>4. Nat \subseteq T
  BY <1>2, <1>3, Naturals01
<1>5. Ok(Len(E))
  BY <1>4 DEF T
<1>6. \A k, g : ~EntryFrom(E, Len(E), k, g)
  BY DEF EntryFrom
<1> QED
  BY <1>1, <1>5, <1>6 DEF Reinserts

-----------------------------------------------------------------------------
(* Resizing a table.                                                       *)

LEMMA SetArrayVectorIs ==
    ASSUME NEW t, Good(t), NEW size \in Nat
    PROVE  /\ Good(SetArrayVector(t, size)) /\ SizeArray(SetArrayVector(t, size)) = size
           /\ SetArrayVector(t, size).node = t.node /\ SetArrayVector(t, size).dummy = t.dummy
           /\ SetArrayVector(t, size).lastfree = t.lastfree
           /\ \A i \in 1..size : SetArrayVector(t, size).array[i] =
                                     IF i <= SizeArray(t) THEN t.array[i] ELSE Nil
<1> DEFINE a == [i \in 1..size |-> IF i <= SizeArray(t) THEN t.array[i] ELSE Nil]
<1>0. PICK u : u = SetArrayVector(t, size)
  OBVIOUS
<1>1. t \in Table /\ SizeArray(t) \in Nat /\ \A i \in 1..SizeArray(t) : t.array[i] \in V
  BY TableFields DEF Good
<1>2. a \in Seq(V) /\ Len(a) = size
  <2>1. \A i \in 1..size : (IF i <= SizeArray(t) THEN t.array[i] ELSE Nil) \in V
    BY <1>1 DEF V
  <2> QED
    BY <2>1
<1>3. u = [array |-> a, dummy |-> t.dummy, node |-> t.node, lastfree |-> t.lastfree]
  BY <1>0, <1>1 DEF SetArrayVector, Table
<1>4. \A i \in 1..size : a[i] = IF i <= SizeArray(t) THEN t.array[i] ELSE Nil
  OBVIOUS
<1> HIDE DEF a
<1>5. u \in Table
  BY <1>1, <1>2, <1>3 DEF Table
<1>6. u.array = a /\ u.dummy = t.dummy /\ u.node = t.node /\ u.lastfree = t.lastfree
  BY <1>3
<1>7. SizeArray(u) = size
  BY <1>2, <1>6 DEF SizeArray
<1>8. Positions(u) = Positions(t) /\ SizeNode(u) = SizeNode(t)
  BY <1>6, SamePositions
<1>9. FreeBelow(u)
  BY <1>6, <1>8 DEF Good, FreeBelow
<1>10. \A i \in 1..SizeArray(u) : u.array[i] # Nil => i \in IntKeys
  <2> SUFFICES ASSUME NEW i \in 1..size, a[i] # Nil PROVE i \in IntKeys
    BY <1>6, <1>7
  <2>1. i <= SizeArray(t) /\ t.array[i] # Nil
    BY <1>4
  <2>2. i \in 1..SizeArray(t)
    BY <1>1, <2>1
  <2> QED
    BY <2>1, <2>2 DEF Good
<1>11. Good(u)
  BY <1>5, <1>6, <1>8, <1>9, <1>10 DEF Good
<1> QED
  BY <1>0, <1>4, <1>6, <1>7, <1>11

\* t has a new hash part for size nodes.
FreshNodes(t, u, size) ==
    /\ u.array = t.array /\ u.dummy = (size = 0)
    /\ \A i \in DOMAIN u.node : u.node[i] = EmptyNode
    /\ SizeNode(u) >= size

LEMMA SetNodeVectorIs ==
    ASSUME NEW t \in Table, NEW size \in Nat,
           \A i \in 1..SizeArray(t) : t.array[i] # Nil => i \in IntKeys
    PROVE  Good(SetNodeVector(t, size)) /\ FreshNodes(t, SetNodeVector(t, size), size)
<1> DEFINE lsize == IF size = 0 THEN 0 ELSE CeilLog2(size)
<1>0. PICK u : u = SetNodeVector(t, size)
  OBVIOUS
<1>1. PICK m \in Nat \ {0} : m = TwoTo[lsize] /\ m >= size
  <2>1. lsize \in Nat
    BY CeilLog2Is
  <2>2. TwoTo[lsize] \in Nat /\ TwoTo[lsize] >= 1
    BY <2>1, TwoToType
  <2>3. TwoTo[lsize] >= size
    BY <2>2, CeilLog2Is
  <2> QED
    BY <2>2, <2>3
<1> DEFINE nd == [i \in 0..(m - 1) |-> EmptyNode]
           lf == IF size = 0 THEN 0 ELSE m
<1>2. u = [array |-> t.array, dummy |-> (size = 0), node |-> nd, lastfree |-> lf]
  BY <1>0, <1>1 DEF SetNodeVector, Table
<1>3. t.array \in Seq(V) /\ nd \in [0..(m - 1) -> Node] /\ lf \in Int /\ lf <= m /\ (size = 0) \in BOOLEAN
  BY TableFields, EmptyIsNode
<1>4. \A i \in 0..(m - 1) : nd[i] = EmptyNode
  OBVIOUS
<1>9. size # 0 => \A i \in 0..(m - 1) : ~(i >= lf)
  OBVIOUS
<1>10. nd = [i \in 0..(m - 1) |-> EmptyNode]
  OBVIOUS
<1> HIDE DEF nd, lf
<1>5. u \in Table
  BY <1>2, <1>3 DEF Table, Vectors
<1>6. u.array = t.array /\ u.dummy = (size = 0) /\ u.node = nd /\ u.lastfree = lf
  BY <1>2
<1>7. DOMAIN u.node = 0..(m - 1) /\ SizeNode(u) = m /\ SizeArray(u) = SizeArray(t)
  <2>1. DOMAIN u.node = 0..(m - 1) /\ SizeArray(u) = SizeArray(t)
    BY <1>3, <1>6 DEF SizeArray
  <2>2. PICK q \in Nat \ {0} : q = SizeNode(u) /\ DOMAIN u.node = 0..(q - 1)
    BY <1>5, TableFields
  <2>3. q - 1 \in 0..(m - 1) /\ m - 1 \in 0..(q - 1)
    BY <2>1, <2>2
  <2>4. q = m
    BY <2>3
  <2> QED
    BY <2>1, <2>2, <2>4
<1>8. Layout(DOMAIN u.node, u.node, Positions(u))
  <2>1. Positions(u) \in [Keys -> DOMAIN u.node]
    BY <1>5, MainPositionType DEF Positions
  <2>2. DOMAIN u.node \subseteq Nat /\ u.node = [i \in DOMAIN u.node |-> EmptyNode]
    BY <1>6, <1>7, <1>10
  <2>3. PICK D, p : D = DOMAIN u.node /\ p = Positions(u)
    OBVIOUS
  <2>4. Layout(D, [i \in D |-> EmptyNode], p)
    BY <2>1, <2>2, <2>3, LayoutEmpty
  <2> QED
    BY <2>2, <2>3, <2>4
<1>11. FreeBelow(u)
  BY <1>3, <1>4, <1>6, <1>7, <1>9 DEF FreeBelow
<1>12. Good(u)
  BY <1>5, <1>6, <1>7, <1>8, <1>11 DEF Good
<1>13. FreshNodes(t, u, size)
  BY <1>1, <1>4, <1>6, <1>7 DEF FreshNodes
<1> QED
  BY <1>0, <1>12, <1>13

\* What resize puts back: exactly the slice that vanishes and the nodes.
PutsBack(t, nasize, E) ==
    /\ Len(E) \in Nat
    /\ \A j \in 1..Len(E) :
           \/ \E i \in 1..SizeArray(t) : i > nasize /\ E[j] = <<i, t.array[i]>>
           \/ \E i \in DOMAIN t.node : E[j] = <<t.node[i].key, t.node[i].val>>
    /\ \A i \in 1..SizeArray(t) : i > nasize => \E j \in 1..Len(E) : E[j] = <<i, t.array[i]>>
    /\ \A i \in DOMAIN t.node : \E j \in 1..Len(E) : E[j] = <<t.node[i].key, t.node[i].val>>

LEMMA ReinsertedIs ==
    ASSUME NEW t, Good(t), NEW nasize \in Nat, NEW E, E = Reinserted(t, nasize)
    PROVE  PutsBack(t, nasize, E)
<1>0. t \in Table
  BY DEF Good
<1>1. PICK a \in Nat, m \in Nat \ {0} : a = SizeArray(t) /\ m = SizeNode(t) /\ DOMAIN t.node = 0..(m - 1)
  BY <1>0, TableFields
<1> DEFINE d == IF nasize < a THEN a - nasize ELSE 0
           S == (Int \X V) \cup ((Keys \cup {Nil}) \X V)
           slice == [i \in 1..d |-> <<nasize + i, t.array[nasize + i]>>]
           nodes == [i \in 1..m |-> <<t.node[m - i].key, t.node[m - i].val>>]
<1>2. d \in Nat
  BY <1>1
<1>3. slice \in Seq(S) /\ Len(slice) = d
  <2>1. \A i \in 1..d : <<nasize + i, t.array[nasize + i]>> \in S
    <3> SUFFICES ASSUME NEW i \in 1..d PROVE nasize + i \in Int /\ t.array[nasize + i] \in V
      OBVIOUS
    <3>1. nasize + i \in 1..a
      BY <1>1
    <3> QED
      BY <1>0, <1>1, <3>1, TableFields
  <2> HIDE DEF S
  <2>2. slice \in [1..d -> S]
    BY <2>1
  <2> HIDE DEF slice, d
  <2> QED
    BY <1>2, <2>2
<1>4. nodes \in Seq(S) /\ Len(nodes) = m
  <2>1. \A i \in 1..m : <<t.node[m - i].key, t.node[m - i].val>> \in S
    <3> SUFFICES ASSUME NEW i \in 1..m PROVE t.node[m - i].key \in Keys \cup {Nil} /\ t.node[m - i].val \in V
      OBVIOUS
    <3>1. m - i \in DOMAIN t.node
      BY <1>1
    <3>2. t.node[m - i] \in Node
      BY <1>0, <3>1, TableFields
    <3> QED
      BY <3>2, NodeFields
  <2> HIDE DEF S
  <2>2. nodes \in [1..m -> S]
    BY <2>1
  <2> HIDE DEF nodes
  <2> QED
    BY <2>2
<1>5. E = slice \o nodes
  BY <1>1 DEF Reinserted
<1>6. \A i \in 1..d : slice[i] = <<nasize + i, t.array[nasize + i]>>
  OBVIOUS
<1>7. \A i \in 1..m : nodes[i] = <<t.node[m - i].key, t.node[m - i].val>>
  OBVIOUS
<1>d. (nasize < a => d = a - nasize) /\ (~(nasize < a) => d = 0)
  OBVIOUS
<1> HIDE DEF slice, nodes, S, d
<1>8. Len(E) = d + m /\ \A j \in 1..(d + m) : E[j] = IF j <= d THEN slice[j] ELSE nodes[j - d]
  <2>1. /\ Len(slice \o nodes) = Len(slice) + Len(nodes)
        /\ \A i \in 1 .. Len(slice) + Len(nodes) : (slice \o nodes)[i] =
               IF i <= Len(slice) THEN slice[i] ELSE nodes[i - Len(slice)]
    BY <1>3, <1>4, ConcatProperties, Zenon
  <2> QED
    BY <1>3, <1>4, <1>5, <2>1, Zenon
<1>9. ASSUME NEW j \in 1..Len(E)
      PROVE  \/ \E i \in 1..a : i > nasize /\ E[j] = <<i, t.array[i]>>
             \/ \E i \in DOMAIN t.node : E[j] = <<t.node[i].key, t.node[i].val>>
  <2>1. CASE j <= d
    <3>1. E[j] = <<nasize + j, t.array[nasize + j]>>
      BY SMTT(30), <1>2, <1>6, <1>8, <2>1
    <3>2. nasize + j \in 1..a /\ nasize + j > nasize
      BY <1>2, <1>8, <1>d, <2>1
    <3> QED
      BY <3>1, <3>2
  <2>2. CASE ~(j <= d)
    <3>1. j - d \in 1..m /\ m - (j - d) \in DOMAIN t.node
      BY <1>1, <1>2, <1>8, <2>2
    <3>2. E[j] = <<t.node[m - (j - d)].key, t.node[m - (j - d)].val>>
      BY <1>7, <1>8, <2>2, <3>1
    <3> QED
      BY <3>1, <3>2
  <2> QED
    BY <2>1, <2>2
<1>10. ASSUME NEW i \in 1..a, i > nasize PROVE \E j \in 1..Len(E) : E[j] = <<i, t.array[i]>>
  <2>1. i - nasize \in 1..d /\ i - nasize \in 1..(d + m) /\ i - nasize <= d /\ nasize + (i - nasize) = i
    BY <1>1, <1>2, <1>d, <1>10
  <2>2. E[i - nasize] = <<nasize + (i - nasize), t.array[nasize + (i - nasize)]>>
    BY <1>6, <1>8, <2>1
  <2> QED
    BY <1>8, <2>1, <2>2
<1>11. ASSUME NEW i \in DOMAIN t.node PROVE \E j \in 1..Len(E) : E[j] = <<t.node[i].key, t.node[i].val>>
  <2>0. PICK j : j = d + (m - i)
    OBVIOUS
  <2>1. j \in 1..(d + m) /\ ~(j <= d) /\ j - d \in 1..m /\ m - (j - d) = i
    BY SMTT(30), <1>1, <1>2, <2>0
  <2>2. E[j] = <<t.node[m - (j - d)].key, t.node[m - (j - d)].val>>
    BY <1>7, <1>8, <2>1
  <2> QED
    BY <1>8, <2>1, <2>2
<1>12. Len(E) \in Nat
  BY <1>2, <1>8
<1>13. \A j \in 1..Len(E) :
           \/ \E i \in 1..SizeArray(t) : i > nasize /\ E[j] = <<i, t.array[i]>>
           \/ \E i \in DOMAIN t.node : E[j] = <<t.node[i].key, t.node[i].val>>
  BY <1>1, <1>9, Zenon
<1>14. \A i \in 1..SizeArray(t) : i > nasize => \E j \in 1..Len(E) : E[j] = <<i, t.array[i]>>
  BY <1>1, <1>10, Zenon
<1> QED
  BY <1>11, <1>12, <1>13, <1>14, Zenon DEF PutsBack

\* The keys that a resize to nasize array slots leaves in the hash part are in K.
ToHash(t, nasize, K) ==
    /\ \A i \in 1..SizeArray(t) : t.array[i] # Nil /\ i > nasize => i \in K
    /\ \A i \in DOMAIN t.node : t.node[i].val # Nil =>
           t.node[i].key \in K \/ (t.node[i].key \in IntKeys /\ t.node[i].key \in 1..nasize)

\* k is not in both parts.
Single(t, k) == InArray(t, k) => \A w \in V \ {Nil} : ~Held(t, k, w)

\* What resize promises.  One that runs out of memory may leave a longer array
\* part, which hides nodes; otherwise nothing is lost.
Resizes(t, r, K, nasize) ==
    /\ Good(r.t) /\ r.res \in {"done", "error"}
    /\ r.res = "done" =>
           /\ SizeArray(r.t) = nasize /\ NoDead(r.t) /\ KeysIn(r.t, K) /\ Apart(r.t) /\ Room(r.t, K)
           /\ \A k \in Keys : Single(t, k) => Get(r.t, k) = Get(t, k)
    /\ r.res = "error" => \A k \in Keys : k \in StrKeys \/ Apart(r.t) => Get(r.t, k) = Get(t, k)

\* t has an array part for at least nasize slots.
Grown(t, u, nasize) ==
    /\ Good(u) /\ u.node = t.node /\ u.dummy = t.dummy
    /\ SizeArray(u) \in Nat /\ SizeArray(u) >= nasize /\ SizeArray(u) >= SizeArray(t)
    /\ \A i \in 1..SizeArray(u) : u.array[i] = IF i <= SizeArray(t) THEN t.array[i] ELSE Nil

LEMMA GrownIs ==
    ASSUME NEW t, Good(t), NEW nasize \in Nat, NEW u,
           u = IF nasize > SizeArray(t) THEN SetArrayVector(t, nasize) ELSE t
    PROVE  Grown(t, u, nasize)
<1>1. t \in Table /\ SizeArray(t) \in Nat
  BY TableFields DEF Good
<1>2. CASE nasize > SizeArray(t)
  <2>1. u = SetArrayVector(t, nasize)
    BY <1>2
  <2> QED
    BY <1>1, <1>2, <2>1, SetArrayVectorIs DEF Grown
<1>3. CASE ~(nasize > SizeArray(t))
  BY <1>1, <1>3 DEF Grown
<1> QED
  BY <1>2, <1>3

\* A table whose array part only grew.
LEMMA GrownGets ==
    ASSUME NEW t, Good(t), NEW nasize \in Nat, NEW u, Grown(t, u, nasize)
    PROVE  \A k \in Keys : k \in StrKeys \/ Apart(u) => Get(u, k) = Get(t, k)
<1> SUFFICES ASSUME NEW k \in Keys, k \in StrKeys \/ Apart(u) PROVE Get(u, k) = Get(t, k)
  OBVIOUS
<1>1. /\ Good(u) /\ u.node = t.node /\ SizeArray(u) \in Nat /\ SizeArray(u) >= SizeArray(t)
      /\ \A i \in 1..SizeArray(u) : u.array[i] = IF i <= SizeArray(t) THEN t.array[i] ELSE Nil
  BY DEF Grown
<1>2. SizeArray(t) \in Nat
  BY TableFields DEF Good
<1>3. \A kk, w : Held(u, kk, w) <=> Held(t, kk, w)
  BY <1>1 DEF Held
<1>4. Get(t, k) \in V /\ Get(u, k) \in V
  BY <1>1, GetIs
<1>5. CASE InArray(t, k)
  <2>1. InArray(u, k) /\ k \in 1..SizeArray(u) /\ k <= SizeArray(t)
    BY <1>1, <1>2, <1>5 DEF InArray
  <2>2. Get(u, k) = u.array[k] /\ Get(t, k) = t.array[k]
    BY <1>1, <1>5, <2>1, GetIs
  <2> QED
    BY <1>1, <2>1, <2>2
<1>6. CASE ~InArray(u, k) /\ ~InArray(t, k)
  <2>1. \A w \in V \ {Nil} : Get(u, k) = w <=> Get(t, k) = w
    BY <1>1, <1>3, <1>6, GetIs
  <2> QED
    BY <1>4, <2>1
<1>7. CASE InArray(u, k) /\ ~InArray(t, k)
  <2>1. k \in 1..SizeArray(u) /\ k \in IntKeys /\ ~(k <= SizeArray(t))
    BY <1>1, <1>2, <1>7 DEF InArray
  <2>2. Get(u, k) = Nil
    BY <1>1, <1>7, <2>1, GetIs
  <2>3. Apart(u)
    BY <2>1, NilIsNoKey
  <2>4. \A w \in V \ {Nil} : Get(t, k) # w
    BY <1>3, <1>7, <2>3, GetIs DEF Apart
  <2> QED
    BY <1>4, <2>2, <2>4
<1> QED
  BY <1>5, <1>6, <1>7

LEMMA FreshGets ==
    ASSUME NEW t, Good(t), NEW nasize \in Nat, NEW nhsize \in Nat, NEW u, Grown(t, u, nasize),
           NEW f, f = SetNodeVector(SetArrayVector(u, nasize), nhsize)
    PROVE  /\ Good(f) /\ SizeArray(f) = nasize /\ f.dummy = (nhsize = 0) /\ SizeNode(f) >= nhsize
           /\ \A i \in DOMAIN f.node : f.node[i] = EmptyNode
           /\ \A k, w : w # Nil => ~Held(f, k, w)
           /\ \A k \in Keys : Get(f, k) = IF InArray(t, k) /\ k <= nasize THEN t.array[k] ELSE Nil
<1>1. /\ Good(u) /\ SizeArray(u) \in Nat /\ SizeArray(u) >= nasize /\ SizeArray(u) >= SizeArray(t)
      /\ \A i \in 1..SizeArray(u) : u.array[i] = IF i <= SizeArray(t) THEN t.array[i] ELSE Nil
  BY DEF Grown
<1>2. SizeArray(t) \in Nat
  BY TableFields DEF Good
<1>3. PICK c : c = SetArrayVector(u, nasize)
  OBVIOUS
<1>4. /\ Good(c) /\ SizeArray(c) = nasize
      /\ \A i \in 1..nasize : c.array[i] = IF i <= SizeArray(u) THEN u.array[i] ELSE Nil
  BY <1>1, <1>3, SetArrayVectorIs
<1>5. \A i \in 1..nasize : c.array[i] = IF i <= SizeArray(t) THEN t.array[i] ELSE Nil
  <2> SUFFICES ASSUME NEW i \in 1..nasize PROVE c.array[i] = IF i <= SizeArray(t) THEN t.array[i] ELSE Nil
    OBVIOUS
  <2>1. i <= SizeArray(u) /\ i \in 1..SizeArray(u)
    BY <1>1
  <2> QED
    BY <1>1, <1>4, <2>1
<1>6. c \in Table /\ \A i \in 1..SizeArray(c) : c.array[i] # Nil => i \in IntKeys
  BY <1>4 DEF Good
<1>7. Good(f) /\ FreshNodes(c, f, nhsize)
  BY <1>3, <1>6, SetNodeVectorIs
<1>8. f.array = c.array /\ f.dummy = (nhsize = 0) /\ SizeNode(f) >= nhsize
      /\ \A i \in DOMAIN f.node : f.node[i] = EmptyNode
  BY <1>7 DEF FreshNodes
<1>9. SizeArray(f) = nasize
  BY <1>4, <1>8 DEF SizeArray
<1>10. \A k, w : w # Nil => ~Held(f, k, w)
  BY <1>8, EmptyIsNode DEF Held
<1>11. ASSUME NEW k \in Keys
       PROVE  Get(f, k) = IF InArray(t, k) /\ k <= nasize THEN t.array[k] ELSE Nil
  <2>1. CASE InArray(f, k)
    <3>1. k \in IntKeys /\ k \in 1..nasize
      BY <1>9, <2>1 DEF InArray
    <3>2. Get(f, k) = c.array[k]
      BY <1>7, <1>8, <2>1, GetIs
    <3>3. InArray(t, k) <=> k <= SizeArray(t)
      BY <1>2, <3>1 DEF InArray
    <3> QED
      BY <1>5, <3>1, <3>2, <3>3
  <2>2. CASE ~InArray(f, k)
    <3>1. Get(f, k) = Nil
      BY <1>7, <1>10, <2>2, GetIs
    <3>2. ~(InArray(t, k) /\ k <= nasize)
      BY <1>2, <1>9, <2>2 DEF InArray
    <3> QED
      BY <3>1, <3>2
  <2> QED
    BY <2>1, <2>2
<1> QED
  BY <1>7, <1>8, <1>9, <1>10, <1>11

\* Putting the slice and the nodes into the fresh parts.
Refills(t, nasize, nhsize, K, u, f, q) ==
    /\ Good(t) /\ nasize \in Nat /\ nhsize \in Nat /\ Grown(t, u, nasize)
    /\ f = SetNodeVector(SetArrayVector(u, nasize), nhsize)
    /\ IsFiniteSet(K) /\ Cardinality(K) <= nhsize /\ ToHash(t, nasize, K)
    /\ q = Reinsert(f, Reinserted(u, nasize))

Refilled(t, nasize, K, f, q) ==
    /\ Growing(f, q.t, K) /\ q.ok = TRUE /\ SizeArray(f) = nasize /\ Room(f, K)
    /\ \A k \in Keys : Single(t, k) => Get(q.t, k) = Get(t, k)

LEMMA RefillIs ==
    ASSUME NEW t, NEW nasize, NEW nhsize, NEW K, NEW u, NEW f, NEW q,
           Refills(t, nasize, nhsize, K, u, f, q)
    PROVE  Refilled(t, nasize, K, f, q)
<1>0. /\ Good(t) /\ nasize \in Nat /\ nhsize \in Nat /\ Grown(t, u, nasize)
      /\ f = SetNodeVector(SetArrayVector(u, nasize), nhsize)
      /\ IsFiniteSet(K) /\ Cardinality(K) <= nhsize /\ ToHash(t, nasize, K)
      /\ q = Reinsert(f, Reinserted(u, nasize))
  BY DEF Refills
<1>1. /\ Good(u) /\ u.node = t.node /\ SizeArray(u) \in Nat /\ SizeArray(u) >= SizeArray(t)
      /\ \A i \in 1..SizeArray(u) : u.array[i] = IF i <= SizeArray(t) THEN t.array[i] ELSE Nil
  BY <1>0 DEF Grown
<1>2. t \in Table /\ SizeArray(t) \in Nat
  BY <1>0, TableFields DEF Good
<1>3. /\ Good(f) /\ SizeArray(f) = nasize /\ f.dummy = (nhsize = 0) /\ SizeNode(f) >= nhsize
      /\ \A i \in DOMAIN f.node : f.node[i] = EmptyNode
      /\ \A k, w : w # Nil => ~Held(f, k, w)
      /\ \A k \in Keys : Get(f, k) = IF InArray(t, k) /\ k <= nasize THEN t.array[k] ELSE Nil
  BY <1>0, FreshGets
<1>4. Growing(f, f, K)
  <2>1. NoDead(f) /\ KeysIn(f, K)
    BY <1>3, EmptyIsNode DEF NoDead, KeysIn
  <2>2. Apart(f)
    BY <1>3 DEF Apart
  <2> QED
    BY <1>3, <2>1, <2>2 DEF Growing
<1>5. Room(f, K)
  <2>1. Cardinality(K) \in Nat /\ (Cardinality(K) = 0 <=> K = {})
    BY <1>0, FS_CardinalityType, FS_EmptySet
  <2>2. SizeNode(f) \in Nat /\ f.dummy \in BOOLEAN
    BY <1>3, TableFields DEF Good
  <2>3. K # {} => nhsize # 0 /\ Cardinality(K) <= SizeNode(f)
    BY <1>0, <1>3, <2>1, <2>2
  <2> QED
    BY <1>0, <1>3, <2>3 DEF Room
<1>6. PICK E : E = Reinserted(u, nasize)
  OBVIOUS
<1>7. /\ Len(E) \in Nat
      /\ \A j \in 1..Len(E) :
             \/ \E i \in 1..SizeArray(u) : i > nasize /\ E[j] = <<i, u.array[i]>>
             \/ \E i \in DOMAIN t.node : E[j] = <<t.node[i].key, t.node[i].val>>
      /\ \A i \in 1..SizeArray(u) : i > nasize => \E j \in 1..Len(E) : E[j] = <<i, u.array[i]>>
      /\ \A i \in DOMAIN t.node : \E j \in 1..Len(E) : E[j] = <<t.node[i].key, t.node[i].val>>
  <2>1. PutsBack(u, nasize, E)
    BY <1>0, <1>1, <1>6, ReinsertedIs
  <2>2. u.node = t.node
    BY <1>1
  <2> QED
    BY <2>1, <2>2 DEF PutsBack
<1>8. ASSUME NEW j \in 1..Len(E), E[j][2] # Nil
      PROVE  \/ \E i \in 1..SizeArray(t) : i > nasize /\ E[j][1] = i /\ E[j][2] = t.array[i]
             \/ \E i \in DOMAIN t.node : E[j][1] = t.node[i].key /\ E[j][2] = t.node[i].val
  <2>1. CASE \E i \in 1..SizeArray(u) : i > nasize /\ E[j] = <<i, u.array[i]>>
    <3>1. PICK i \in 1..SizeArray(u) : i > nasize /\ E[j] = <<i, u.array[i]>>
      BY <2>1
    <3>2. E[j][1] = i /\ E[j][2] = u.array[i]
      BY <3>1
    <3>3. i <= SizeArray(t) /\ u.array[i] = t.array[i]
      BY <1>1, <1>8, <3>2
    <3>4. i \in 1..SizeArray(t)
      BY <1>1, <1>2, <3>3
    <3> QED
      BY <3>1, <3>2, <3>3, <3>4
  <2>2. CASE \E i \in DOMAIN t.node : E[j] = <<t.node[i].key, t.node[i].val>>
    <3>1. PICK i \in DOMAIN t.node : E[j] = <<t.node[i].key, t.node[i].val>>
      BY <2>2
    <3> QED
      BY <3>1
  <2> QED
    BY <1>7, <2>1, <2>2
<1>9. \A i \in DOMAIN t.node : t.node[i].val # Nil =>
          t.node[i].key \in Keys /\ t.node[i].val \in V /\ Held(t, t.node[i].key, t.node[i].val)
  <2> SUFFICES ASSUME NEW i \in DOMAIN t.node, t.node[i].val # Nil
               PROVE  t.node[i].key \in Keys /\ t.node[i].val \in V
    BY DEF Held
  <2>1. t.node[i] \in Node /\ Clean(DOMAIN t.node, t.node)
    BY <1>0, <1>2, TableFields DEF Good, Layout, Ranked
  <2>2. t.node[i].key # Nil
    BY <2>1, EmptyIsNode DEF Clean
  <2> QED
    BY <2>1, <2>2, NodeFields
<1>10. \A i \in 1..SizeArray(t) : t.array[i] # Nil => i \in IntKeys /\ i \in Keys /\ t.array[i] \in V
  BY <1>0, <1>2, TableFields DEF Good, Keys
<1>11. Fits(f, E, K)
  <2> SUFFICES ASSUME NEW j \in 1..Len(E), E[j][2] # Nil
               PROVE  E[j][1] \in Keys /\ E[j][2] \in V /\ (E[j][1] \in K \/ InArray(f, E[j][1]))
    BY DEF Fits
  <2>1. CASE \E i \in 1..SizeArray(t) : i > nasize /\ E[j][1] = i /\ E[j][2] = t.array[i]
    BY <1>0, <1>10, <2>1 DEF ToHash
  <2>2. CASE \E i \in DOMAIN t.node : E[j][1] = t.node[i].key /\ E[j][2] = t.node[i].val
    BY <1>0, <1>3, <1>9, <2>2 DEF ToHash, InArray
  <2> QED
    BY <1>8, <2>1, <2>2
<1>12. /\ Growing(f, q.t, K) /\ q.ok = TRUE
       /\ \A k \in Keys : \A g \in V :
              OnlyValue(E, k, g) /\ (Get(f, k) = g \/ EntryFrom(E, 0, k, g)) => Get(q.t, k) = g
  <2>1. q = Reinsert(f, E) /\ Len(E) \in Nat
    BY <1>0, <1>6, <1>7
  <2>2. Reinserts(f, E, K, q)
    BY <1>4, <1>5, <1>11, <2>1, ReinsertIs
  <2> QED
    BY <2>2 DEF Reinserts
<1>13. ASSUME NEW k \in Keys, Single(t, k) PROVE Get(q.t, k) = Get(t, k)
  <2>1. PICK g \in V : g = Get(t, k)
    BY <1>0, GetIs
  <2>2. /\ InArray(t, k) => g = t.array[k]
        /\ ~InArray(t, k) => \A w \in V \ {Nil} : g = w <=> Held(t, k, w)
    BY <1>0, <2>1, GetIs
  <2>3. OnlyValue(E, k, g)
    <3> SUFFICES ASSUME NEW j \in 1..Len(E), E[j][1] = k, E[j][2] # Nil PROVE E[j][2] = g
      BY DEF OnlyValue
    <3>1. CASE \E i \in 1..SizeArray(t) : i > nasize /\ E[j][1] = i /\ E[j][2] = t.array[i]
      <4>1. k \in 1..SizeArray(t) /\ E[j][2] = t.array[k]
        BY <3>1
      <4>2. InArray(t, k)
        BY <1>10, <4>1 DEF InArray
      <4> QED
        BY <2>2, <4>1, <4>2
    <3>2. CASE \E i \in DOMAIN t.node : E[j][1] = t.node[i].key /\ E[j][2] = t.node[i].val
      <4>1. Held(t, k, E[j][2]) /\ E[j][2] \in V \ {Nil}
        BY <1>9, <3>2
      <4>2. ~InArray(t, k)
        BY <1>13, <4>1 DEF Single
      <4> QED
        BY <2>2, <4>1, <4>2
    <3> QED
      BY <1>8, <3>1, <3>2
  <2>4. Get(f, k) = g \/ EntryFrom(E, 0, k, g)
    <3>0. Get(f, k) = IF InArray(t, k) /\ k <= nasize THEN t.array[k] ELSE Nil
      BY <1>3
    <3>1. CASE InArray(t, k) /\ k <= nasize
      BY <2>2, <3>0, <3>1
    <3>2. CASE g = Nil
      BY <2>2, <3>0, <3>2
    <3>3. CASE InArray(t, k) /\ ~(k <= nasize) /\ g # Nil
      <4>1. k \in 1..SizeArray(t) /\ k \in 1..SizeArray(u) /\ k > nasize /\ k <= SizeArray(t)
        BY <1>0, <1>1, <1>2, <3>3 DEF InArray
      <4>2. PICK j \in 1..Len(E) : E[j] = <<k, u.array[k]>>
        BY <1>7, <4>1
      <4>3. E[j][1] = k /\ E[j][2] = g /\ j > 0
        BY <1>1, <1>7, <2>2, <3>3, <4>1, <4>2
      <4> QED
        BY <3>3, <4>3 DEF EntryFrom
    <3>4. CASE ~InArray(t, k) /\ g # Nil
      <4>1. PICK i \in DOMAIN t.node : t.node[i].key = k /\ t.node[i].val = g
        BY <2>2, <3>4 DEF Held
      <4>2. PICK j \in 1..Len(E) : E[j] = <<k, g>>
        BY <1>7, <4>1
      <4>3. E[j][1] = k /\ E[j][2] = g /\ j > 0
        BY <1>7, <4>2
      <4> QED
        BY <3>4, <4>3 DEF EntryFrom
    <3> QED
      BY <3>1, <3>2, <3>3, <3>4
  <2> QED
    BY <1>12, <2>1, <2>3, <2>4
<1> QED
  BY <1>3, <1>5, <1>12, <1>13 DEF Refilled

LEMMA ResizeIs ==
    ASSUME NEW t, Good(t), NEW nasize \in Nat, NEW nhsize \in Nat, NEW out,
           NEW K, IsFiniteSet(K), Cardinality(K) <= nhsize, ToHash(t, nasize, K)
    PROVE  Resizes(t, Resize(t, nasize, nhsize, out), K, nasize)
<1>1. PICK u : u = IF nasize > SizeArray(t) THEN SetArrayVector(t, nasize) ELSE t
  OBVIOUS
<1>2. PICK f : f = SetNodeVector(SetArrayVector(u, nasize), nhsize)
  OBVIOUS
<1>3. PICK q : q = Reinsert(f, Reinserted(u, nasize))
  OBVIOUS
<1>4. PICK r : r = Resize(t, nasize, nhsize, out)
  OBVIOUS
<1>5. Grown(t, u, nasize)
  BY <1>1, GrownIs
<1>6. /\ Growing(f, q.t, K) /\ q.ok = TRUE /\ SizeArray(f) = nasize /\ Room(f, K)
      /\ \A k \in Keys : Single(t, k) => Get(q.t, k) = Get(t, k)
  <2>1. Refills(t, nasize, nhsize, K, u, f, q)
    BY <1>2, <1>3, <1>5 DEF Refills
  <2>2. Refilled(t, nasize, K, f, q)
    BY <2>1, RefillIs, Zenon
  <2> QED
    BY <2>2 DEF Refilled
<1>7. r = [t |-> t, res |-> "error"] \/ r = [t |-> u, res |-> "error"] \/ r = [t |-> q.t, res |-> "done"]
  <2>1. r = IF nasize > SizeArray(t) /\ out = "array"
              THEN [t |-> t, res |-> "error"]
            ELSE IF nhsize > 0 /\ (out = "node" \/ CeilLog2(nhsize) > MaxBits)
              THEN [t |-> u, res |-> "error"]
              ELSE [t |-> q.t, res |-> IF q.ok THEN "done" ELSE "stuck"]
    BY <1>1, <1>2, <1>3, <1>4 DEF Resize
  <2>2. (IF q.ok THEN "done" ELSE "stuck") = "done"
    BY <1>6
  <2> QED
    BY <2>1, <2>2, Zenon
<1>8. CASE r = [t |-> t, res |-> "error"]
  <2>1. r.t = t /\ r.res = "error"
    BY <1>8
  <2> QED
    BY <1>4, <2>1 DEF Resizes
<1>9. CASE r = [t |-> u, res |-> "error"]
  <2>1. r.t = u /\ r.res = "error" /\ Good(u)
    BY <1>5, <1>9 DEF Grown
  <2>2. \A k \in Keys : k \in StrKeys \/ Apart(u) => Get(u, k) = Get(t, k)
    BY <1>5, GrownGets
  <2> QED
    BY <1>4, <2>1, <2>2 DEF Resizes
<1>10. CASE r = [t |-> q.t, res |-> "done"]
  <2>1. r.t = q.t /\ r.res = "done"
    BY <1>10
  <2>2. /\ Good(r.t) /\ NoDead(r.t) /\ KeysIn(r.t, K) /\ Apart(r.t) /\ SizeArray(r.t) = nasize
        /\ r.t.dummy = f.dummy /\ DOMAIN r.t.node = DOMAIN f.node
    BY <1>6, <2>1 DEF Growing
  <2>3. Room(r.t, K)
    BY <1>6, <2>2, SamePositions DEF Room
  <2> QED
    BY <1>4, <1>6, <2>1, <2>2, <2>3 DEF Resizes
<1> QED
  BY <1>7, <1>8, <1>9, <1>10

-----------------------------------------------------------------------------
(* Choosing the sizes and rehashing.                                       *)

LEMMA Images ==
    ASSUME NEW S, IsFiniteSet(S), NEW f
    PROVE  IsFiniteSet({f[x] : x \in S}) /\ Cardinality({f[x] : x \in S}) <= Cardinality(S)
<1> DEFINE T == {f[x] : x \in S}
           g == [x \in S |-> f[x]]
<1>1. g \in [S -> T] /\ \A y \in T : \E x \in S : g[x] = y
  OBVIOUS
<1> HIDE DEF g, T
<1>2. g \in Surjection(S, T)
  BY <1>1 DEF Surjection
<1>3. IsFiniteSet(T) /\ Cardinality(T) <= Cardinality(S)
  BY <1>2, FS_Surjection
<1> QED
  BY <1>3 DEF T

LEMMA UsedKeysFinite ==
    ASSUME NEW t, Good(t)
    PROVE  IsFiniteSet(UsedKeys(t))
<1>1. SizeArray(t) \in Nat /\ SizeNode(t) \in Nat /\ DOMAIN t.node = 0..(SizeNode(t) - 1)
  BY TableFields DEF Good
<1> DEFINE A == {i \in 1..SizeArray(t) : t.array[i] # Nil}
           N == {i \in DOMAIN t.node : t.node[i].val # Nil}
           f == [i \in A |-> <<i, "array">>]
           g == [i \in N |-> <<t.node[i].key, "node">>]
<1>2. IsFiniteSet(A)
  <2>1. IsFiniteSet(1..SizeArray(t)) /\ A \in SUBSET (1..SizeArray(t))
    BY <1>1, FS_Interval
  <2> QED
    BY <2>1, FS_Subset
<1>3. IsFiniteSet(N)
  <2>1. SizeNode(t) - 1 \in Int
    BY <1>1
  <2>2. IsFiniteSet(DOMAIN t.node) /\ N \in SUBSET DOMAIN t.node
    BY <1>1, <2>1, FS_Interval
  <2> QED
    BY <2>2, FS_Subset
<1>4. {f[i] : i \in A} = {<<i, "array">> : i \in A} /\ {g[i] : i \in N} = {<<t.node[i].key, "node">> : i \in N}
  OBVIOUS
<1>5. UsedKeys(t) = {f[i] : i \in A} \cup {g[i] : i \in N}
  BY <1>4 DEF UsedKeys
<1> HIDE DEF A, N, f, g
<1>6. IsFiniteSet({f[i] : i \in A}) /\ IsFiniteSet({g[i] : i \in N})
  BY <1>2, <1>3, Images
<1>7. PICK X, Y : X = {f[i] : i \in A} /\ Y = {g[i] : i \in N}
  OBVIOUS
<1>8. IsFiniteSet(X \cup Y)
  BY <1>6, <1>7, FS_Union
<1> QED
  BY <1>5, <1>7, <1>8

\* The keys that computesizes counted fit into the array part.
LEMMA ComputeSizesIs ==
    ASSUME NEW us, IsFiniteSet(us)
    PROVE  \E n \in Nat : \E C \in SUBSET us :
               /\ ComputeSizes(us).n = n /\ ComputeSizes(us).na = Cardinality(C)
               /\ \A u \in C : u[1] \in IntKeys /\ u[1] \in 1..n
<1> DEFINE Below(l) == {u \in us : IsArrayIndex(u[1]) /\ CeilLog2(u[1]) <= l}
           narray == Cardinality({u \in us : IsArrayIndex(u[1])})
           good == {l \in 0..MaxBits : /\ TwoTo[l] \div 2 < narray
                                       /\ Nums(us)[l] > 0
                                       /\ Cardinality(Below(l)) > TwoTo[l] \div 2}
<1>1. ComputeSizes(us) = IF good = {} THEN [n |-> 0, na |-> 0]
                         ELSE [n |-> TwoTo[Upper(good)], na |-> Cardinality(Below(Upper(good)))]
  BY DEF ComputeSizes
<1>2. good \subseteq 0..MaxBits
  OBVIOUS
<1>3. \A l : Below(l) \in SUBSET us /\ \A u \in Below(l) : IsArrayIndex(u[1]) /\ CeilLog2(u[1]) <= l
  OBVIOUS
<1> HIDE DEF good, Below
<1>4. CASE good = {}
  <2>1. ComputeSizes(us).n = 0 /\ ComputeSizes(us).na = 0
    BY <1>1, <1>4
  <2>2. Cardinality({}) = 0 /\ {} \in SUBSET us
    BY FS_EmptySet
  <2> QED
    BY <2>1, <2>2
<1>5. CASE good # {}
  <2>1. PICK L : L = Upper(good)
    OBVIOUS
  <2>2. L \in Nat
    <3>1. MaxBits \in Nat
      BY LuaTableAssumption
    <3>2. Upper(good) \in good
      BY <1>2, <1>5, <3>1, UpperIs
    <3>3. L \in 0..MaxBits
      BY <1>2, <2>1, <3>2, Zenon
    <3> QED
      BY <3>1, <3>3
  <2>3. ComputeSizes(us).n = TwoTo[L] /\ ComputeSizes(us).na = Cardinality(Below(L))
    BY <1>1, <1>5, <2>1
  <2>4. TwoTo[L] \in Nat
    BY <2>2, TwoToType
  <2>5. ASSUME NEW u \in Below(L) PROVE u[1] \in IntKeys /\ u[1] \in 1..TwoTo[L]
    <3>1. PICK k : k = u[1]
      OBVIOUS
    <3>2. k \in IntKeys /\ k \in Nat \ {0} /\ CeilLog2(k) <= L
      BY <1>3, <3>1, NilIsNoKey DEF IsArrayIndex
    <3>3. PICK c \in Nat : c = CeilLog2(k) /\ TwoTo[c] >= k
      BY <3>2, CeilLog2Is
    <3>4. TwoTo[c] <= TwoTo[L] /\ TwoTo[c] \in Nat
      BY <2>2, <3>2, <3>3, TwoToMonotone, TwoToType
    <3> QED
      BY <2>4, <3>1, <3>2, <3>3, <3>4
  <2> QED
    BY <1>3, <2>3, <2>4, <2>5
<1> QED
  BY <1>4, <1>5

Rehashes(t, r, ek, K, n) == n \in Nat /\ Resizes(t, r, K, n) /\ (ek \in K \/ (ek \in IntKeys /\ ek \in 1..n))

LEMMA RehashIs ==
    ASSUME NEW t, Good(t), NEW ek, NEW out
    PROVE  \E K, n : Rehashes(t, Rehash(t, ek, out), ek, K, n)
<1>1. PICK us : us = UsedKeys(t) \cup {<<ek, "extra">>}
  OBVIOUS
<1>2. IsFiniteSet(us)
  BY <1>1, UsedKeysFinite, FS_AddElement
<1>3. PICK n \in Nat, C \in SUBSET us :
          /\ ComputeSizes(us).n = n /\ ComputeSizes(us).na = Cardinality(C)
          /\ \A u \in C : u[1] \in IntKeys /\ u[1] \in 1..n
  BY <1>2, ComputeSizesIs
<1>4. PICK h : h = Cardinality(us) - ComputeSizes(us).na
  OBVIOUS
<1>5. Rehash(t, ek, out) = Resize(t, n, h, out)
  BY <1>1, <1>3, <1>4 DEF Rehash
<1> DEFINE R == us \ C
           f == [u \in R |-> u[1]]
           K == {f[u] : u \in R}
<1>6. IsFiniteSet(R) /\ Cardinality(R) = h /\ h \in Nat
  <2>1. us \cap C = C
    OBVIOUS
  <2>2. IsFiniteSet(us \ C) /\ Cardinality(us \ C) = Cardinality(us) - Cardinality(us \cap C)
    BY <1>2, FS_Difference
  <2>3. IsFiniteSet(R) /\ Cardinality(R) = Cardinality(us) - Cardinality(C)
    BY <2>1, <2>2
  <2> HIDE DEF R
  <2>4. Cardinality(R) \in Nat
    BY <2>3, FS_CardinalityType
  <2> QED
    BY <1>3, <1>4, <2>3, <2>4
<1>7. \A u \in us : u[1] \in K \/ (u[1] \in IntKeys /\ u[1] \in 1..n)
  BY <1>3
<1> HIDE DEF R, f
<1>8. IsFiniteSet(K) /\ Cardinality(K) <= h
  BY <1>6, Images
<1> HIDE DEF K
<1>9. ToHash(t, n, K)
  <2>1. ASSUME NEW i \in 1..SizeArray(t), t.array[i] # Nil, i > n PROVE i \in K
    <3>1. <<i, "array">> \in us
      BY <1>1, <2>1 DEF UsedKeys
    <3>2. <<i, "array">>[1] = i
      OBVIOUS
    <3>3. i \in K \/ i \in 1..n
      BY <1>7, <3>1, <3>2
    <3> QED
      BY <2>1, <3>3
  <2>2. ASSUME NEW i \in DOMAIN t.node, t.node[i].val # Nil
        PROVE  t.node[i].key \in K \/ (t.node[i].key \in IntKeys /\ t.node[i].key \in 1..n)
    <3>1. <<t.node[i].key, "node">> \in us
      BY <1>1, <2>2 DEF UsedKeys
    <3>2. <<t.node[i].key, "node">>[1] = t.node[i].key
      OBVIOUS
    <3> QED
      BY <1>7, <3>1, <3>2
  <2> QED
    BY <2>1, <2>2 DEF ToHash
<1>10. ek \in K \/ (ek \in IntKeys /\ ek \in 1..n)
  <2>1. <<ek, "extra">> \in us /\ <<ek, "extra">>[1] = ek
    BY <1>1
  <2> QED
    BY <1>7, <2>1
<1>11. Resizes(t, Resize(t, n, h, out), K, n)
  BY <1>6, <1>8, <1>9, ResizeIs
<1> QED
  BY <1>5, <1>10, <1>11 DEF Rehashes

-----------------------------------------------------------------------------
(* An assignment.                                                          *)

\* Two tables with the same two parts act alike.
LEMMA SameParts ==
    ASSUME NEW t, Good(t), NEW u, Good(u), u.array = t.array, u.node = t.node
    PROVE  /\ \A k : (InArray(u, k) <=> InArray(t, k)) /\ (Single(u, k) <=> Single(t, k))
           /\ \A k, w : Held(u, k, w) <=> Held(t, k, w)
           /\ \A k \in Keys : Get(u, k) = Get(t, k)
<1>1. \A k : InArray(u, k) <=> InArray(t, k)
  BY DEF InArray, SizeArray
<1>2. \A k, w : Held(u, k, w) <=> Held(t, k, w)
  BY DEF Held
<1>3. \A k : Single(u, k) <=> Single(t, k)
  BY <1>1, <1>2 DEF Single
<1>4. ASSUME NEW k \in Keys PROVE Get(u, k) = Get(t, k)
  <2>1. CASE InArray(t, k)
    BY <1>1, <2>1, GetIs
  <2>2. CASE ~InArray(t, k)
    <3>1. Get(u, k) \in V /\ Get(t, k) \in V
      BY GetIs
    <3>2. \A w \in V \ {Nil} : Get(u, k) = w <=> Get(t, k) = w
      BY <1>1, <1>2, <2>2, GetIs
    <3> QED
      BY <3>1, <3>2
  <2> QED
    BY <2>1, <2>2
<1> QED
  BY <1>1, <1>2, <1>3, <1>4

\* What t[k] = v promises: it never finds the table full after a rehash.
Assigns(t, k, v, r) ==
    /\ Good(r.t) /\ r.res \in {"done", "error"}
    /\ r.res = "done" =>
           /\ Get(r.t, k) = v
           /\ \A kk \in Keys : Single(t, kk) /\ kk # k => Get(r.t, kk) = Get(t, kk)
           /\ Apart(t) => Apart(r.t)
    /\ r.res = "error" => \A kk \in Keys : kk \in StrKeys \/ Apart(r.t) => Get(r.t, kk) = Get(t, kk)
    /\ Get(t, k) # Nil => r.res = "done" /\ SameShape(t, r.t)

\* An assignment for which newkey finds a place.
LEMMA AssignPlaced ==
    ASSUME NEW t, Good(t), NEW k \in Keys, NEW v \in V, NEW p, Puts(t, k, v, p), p.ok,
           NEW r, r.t = p.t, r.res = "done"
    PROVE  Assigns(t, k, v, r)
<1>1. /\ Good(r.t) /\ SizeArray(r.t) = SizeArray(t)
      /\ \A kk \in Keys : Get(r.t, kk) = IF kk = k THEN v ELSE Get(t, kk)
      /\ \A kk : \A w \in V \ {Nil} :
             Held(r.t, kk, w) <=> IF kk = k /\ ~InArray(t, k) THEN w = v ELSE Held(t, kk, w)
      /\ Get(t, k) # Nil => SameShape(t, r.t)
  BY DEF Puts
<1>2. ASSUME Apart(t) PROVE Apart(r.t)
  <2> SUFFICES ASSUME NEW kk, NEW w \in V \ {Nil}, Held(r.t, kk, w) PROVE ~InArray(r.t, kk)
    BY DEF Apart
  <2>1. InArray(r.t, kk) <=> InArray(t, kk)
    BY <1>1 DEF InArray
  <2>2. (kk = k /\ ~InArray(t, k)) \/ Held(t, kk, w)
    BY <1>1
  <2> QED
    BY <1>2, <2>1, <2>2 DEF Apart
<1>3. Get(r.t, k) = v /\ \A kk \in Keys : kk # k => Get(r.t, kk) = Get(t, kk)
  BY <1>1
<1> QED
  BY <1>1, <1>2, <1>3 DEF Assigns

\* The insertion after a rehash.
LEMMA AssignRehashed ==
    ASSUME NEW t, Good(t), NEW k \in Keys, NEW v \in V, NEW u, NEW K, NEW n, Rehashes(t, u, k, K, n),
           u.res = "done"
    PROVE  /\ Put(u.t, k, v).ok /\ Good(Put(u.t, k, v).t) /\ Apart(Put(u.t, k, v).t)
           /\ Get(Put(u.t, k, v).t, k) = v
           /\ \A kk \in Keys : Single(t, kk) /\ kk # k => Get(Put(u.t, k, v).t, kk) = Get(t, kk)
<1>1. PICK w : w = u.t
  OBVIOUS
<1>2. /\ Good(w) /\ SizeArray(w) = n /\ NoDead(w) /\ KeysIn(w, K) /\ Apart(w) /\ Room(w, K)
      /\ \A kk \in Keys : Single(t, kk) => Get(w, kk) = Get(t, kk)
      /\ k \in K \/ (k \in IntKeys /\ k \in 1..n)
  BY <1>1 DEF Rehashes, Resizes
<1>3. k \in K \/ InArray(w, k)
  BY <1>2 DEF InArray
<1>4. PICK q : q = Put(w, k, v)
  OBVIOUS
<1>5. q.ok
  BY <1>2, <1>3, <1>4, PutFits
<1>6. Puts(w, k, v, q)
  BY <1>2, <1>4, PutIs
<1>7. PICK r : r = [t |-> q.t, res |-> "done"]
  OBVIOUS
<1>8. Assigns(w, k, v, r)
  <2>1. r.t = q.t /\ r.res = "done"
    BY <1>7
  <2> QED
    BY <1>2, <1>5, <1>6, <2>1, AssignPlaced
<1>9. r.t = q.t /\ r.res = "done"
  BY <1>7
<1>10. \A kk \in Keys : Single(w, kk)
  BY <1>2 DEF Single, Apart
<1>11. Good(q.t) /\ Get(q.t, k) = v /\ Apart(q.t) /\ \A kk \in Keys : kk # k => Get(q.t, kk) = Get(w, kk)
  BY <1>2, <1>8, <1>9, <1>10 DEF Assigns
<1> QED
  BY <1>1, <1>2, <1>4, <1>5, <1>11

LEMMA AssignIs ==
    ASSUME NEW t, Good(t), NEW k \in Keys, NEW v \in V, NEW out
    PROVE  Assigns(t, k, v, Assign(t, k, v, out))
<1>1. PICK p : p = Put(t, k, v)
  OBVIOUS
<1>2. PICK u : u = Rehash(p.t, k, out)
  OBVIOUS
<1>3. PICK q : q = Put(u.t, k, v)
  OBVIOUS
<1>4. PICK r : r = Assign(t, k, v, out)
  OBVIOUS
<1>5. r = IF p.ok THEN [t |-> p.t, res |-> "done"]
          ELSE IF u.res # "done" THEN u
          ELSE [t |-> q.t, res |-> IF q.ok THEN "done" ELSE "stuck"]
  BY <1>1, <1>2, <1>3, <1>4 DEF Assign
<1>6. Puts(t, k, v, p)
  BY <1>1, PutIs
<1>7. CASE p.ok
  <2>1. r = [t |-> p.t, res |-> "done"]
    BY <1>5, <1>7
  <2>2. r.t = p.t /\ r.res = "done"
    BY <2>1
  <2> QED
    BY <1>4, <1>6, <1>7, <2>2, AssignPlaced
<1>8. CASE ~p.ok
  <2>0. Good(p.t) /\ p.t.array = t.array /\ p.t.node = t.node /\ Get(t, k) = Nil
    BY <1>6, <1>8 DEF Puts
  <2>1. PICK t1 : t1 = p.t
    OBVIOUS
  <2>2. Good(t1) /\ t1.array = t.array /\ t1.node = t.node
    BY <2>0, <2>1
  <2>3. /\ \A kk : Single(t1, kk) <=> Single(t, kk)
        /\ \A kk \in Keys : Get(t1, kk) = Get(t, kk)
    BY <2>2, SameParts
  <2>4. PICK K, n : Rehashes(t1, u, k, K, n)
    BY <1>2, <2>1, <2>2, RehashIs
  <2>5. CASE u.res # "done"
    <3>1. r = u
      BY <1>5, <1>8, <2>5
    <3>2. Good(u.t) /\ u.res = "error" /\ \A kk \in Keys : kk \in StrKeys \/ Apart(u.t) => Get(u.t, kk) = Get(t1, kk)
      BY <2>4, <2>5 DEF Rehashes, Resizes
    <3> QED
      BY <1>4, <2>0, <2>3, <3>1, <3>2 DEF Assigns
  <2>6. CASE u.res = "done"
    <3>1. /\ q.ok /\ Good(q.t) /\ Apart(q.t) /\ Get(q.t, k) = v
          /\ \A kk \in Keys : Single(t1, kk) /\ kk # k => Get(q.t, kk) = Get(t1, kk)
      BY <1>3, <2>2, <2>4, <2>6, AssignRehashed
    <3>2. r = [t |-> q.t, res |-> "done"]
      BY <1>5, <1>8, <2>6, <3>1
    <3>3. r.t = q.t /\ r.res = "done"
      BY <3>2
    <3> QED
      BY <1>4, <2>0, <2>3, <3>1, <3>3 DEF Assigns
  <2> QED
    BY <2>5, <2>6
<1> QED
  BY <1>7, <1>8

-----------------------------------------------------------------------------
(* The other operations on tables: luaH_new, OP_SETLIST, a collection.     *)

LEMMA NewIs ==
    ASSUME NEW narray \in Nat, NEW nhash \in Nat
    PROVE  /\ Good(New(narray, nhash)) /\ Apart(New(narray, nhash))
           /\ \A k \in Keys : Get(New(narray, nhash), k) = Nil
<1> DEFINE a == [i \in 1..narray |-> Nil]
           nd == [i \in {0} |-> EmptyNode]
<1>1. PICK b : b = [array |-> a, dummy |-> TRUE, node |-> nd, lastfree |-> 0]
  OBVIOUS
<1>2. a \in Seq(V) /\ Len(a) = narray /\ \A i \in 1..narray : a[i] = Nil
  BY DEF V
<1>3. nd \in Vectors
  <2>1. nd \in [0..(1 - 1) -> Node] /\ 1 \in Nat \ {0}
    BY EmptyIsNode
  <2> QED
    BY <2>1 DEF Vectors
<1>4. New(narray, nhash) = SetNodeVector(b, nhash)
  BY <1>1 DEF New
<1> HIDE DEF a, nd
<1>5. b \in Table /\ b.array = a
  BY <1>1, <1>2, <1>3 DEF Table
<1>6. \A i \in 1..SizeArray(b) : b.array[i] = Nil
  BY <1>2, <1>5 DEF SizeArray
<1>7. PICK u : u = New(narray, nhash)
  OBVIOUS
<1>8. Good(u) /\ FreshNodes(b, u, nhash)
  BY <1>4, <1>5, <1>6, <1>7, SetNodeVectorIs
<1>9. u.array = b.array /\ SizeArray(u) = SizeArray(b) /\ \A i \in DOMAIN u.node : u.node[i] = EmptyNode
  BY <1>8 DEF FreshNodes, SizeArray
<1>10. \A k, w : w # Nil => ~Held(u, k, w)
  BY <1>9, EmptyIsNode DEF Held
<1>11. Apart(u)
  BY <1>10 DEF Apart
<1>12. ASSUME NEW k \in Keys PROVE Get(u, k) = Nil
  <2>1. CASE InArray(u, k)
    BY <1>6, <1>8, <1>9, <2>1, GetIs DEF InArray
  <2>2. CASE ~InArray(u, k)
    BY <1>8, <1>10, <2>2, GetIs
  <2> QED
    BY <2>1, <2>2
<1> QED
  BY <1>7, <1>8, <1>11, <1>12

\* A resize to a longer array part that keeps the size of the hash part.
LEMMA ResizeArrayIs ==
    ASSUME NEW t, Good(t), NEW n \in Nat, n > SizeArray(t), NEW out
    PROVE  \E K : Resizes(t, Resize(t, n, IF t.dummy THEN 0 ELSE SizeNode(t), out), K, n)
<1>1. t \in Table /\ SizeArray(t) \in Nat /\ SizeNode(t) \in Nat /\ DOMAIN t.node = 0..(SizeNode(t) - 1)
      /\ t.dummy \in BOOLEAN
  BY TableFields DEF Good
<1> DEFINE N == {i \in DOMAIN t.node : t.node[i].val # Nil}
           f == [i \in N |-> t.node[i].key]
           K == {f[i] : i \in N}
<1>2. PICK h : h = IF t.dummy THEN 0 ELSE SizeNode(t)
  OBVIOUS
<1>3. h \in Nat /\ IsFiniteSet(N) /\ Cardinality(N) <= h
  <2>1. SizeNode(t) - 1 \in Int
    BY <1>1
  <2>2. IsFiniteSet(DOMAIN t.node) /\ N \in SUBSET DOMAIN t.node
    BY <1>1, <2>1, FS_Interval
  <2>3. IsFiniteSet(N) /\ Cardinality(N) <= SizeNode(t)
    BY <2>2, FS_Subset DEF SizeNode
  <2>4. CASE t.dummy
    <3>1. N = {}
      BY <2>4, EmptyIsNode DEF Good, FreeBelow
    <3>2. Cardinality(N) = 0
      BY <3>1, FS_EmptySet
    <3> QED
      BY <1>2, <2>3, <2>4, <3>2
  <2>5. CASE ~t.dummy
    BY <1>1, <1>2, <2>3, <2>5
  <2> QED
    BY <2>4, <2>5
<1>4. \A i \in DOMAIN t.node : t.node[i].val # Nil => t.node[i].key \in K
  OBVIOUS
<1> HIDE DEF N, f
<1>5. IsFiniteSet(K) /\ Cardinality(K) <= Cardinality(N)
  BY <1>3, Images
<1> HIDE DEF K
<1>6. Cardinality(K) <= h
  BY <1>3, <1>5, FS_CardinalityType
<1>7. ToHash(t, n, K)
  BY <1>1, <1>4 DEF ToHash
<1>8. Resizes(t, Resize(t, n, h, out), K, n)
  BY <1>3, <1>5, <1>6, <1>7, ResizeIs
<1> QED
  BY <1>2, <1>8

\* The table after a collection that clears the fields ks.
Cleared(t, ks) ==
    [t EXCEPT
        !.array = [i \in 1..SizeArray(t) |-> IF i \in ks THEN Nil ELSE t.array[i]],
        !.node = [i \in DOMAIN t.node |->
                      LET n == t.node[i]
                          v == IF n.key \in ks /\ ~n.dead THEN Nil ELSE n.val
                      IN  [n EXCEPT !.val = v,
                                    !.dead = n.dead \/ (v = Nil /\ n.key \in StrKeys)]]]

Clears(t, ks, u) ==
    /\ Good(u) /\ SameShape(t, u)
    /\ \A k, w : w # Nil => (Held(u, k, w) <=> Held(t, k, w) /\ k \notin ks)
    /\ \A k \in Keys : Get(u, k) = IF k \in ks THEN Nil ELSE Get(t, k)

\* One node after a collection.
ClearedNode(n, ks) ==
    LET v == IF n.key \in ks /\ ~n.dead THEN Nil ELSE n.val
    IN  [n EXCEPT !.val = v, !.dead = n.dead \/ (v = Nil /\ n.key \in StrKeys)]

LEMMA ClearedNodeIs ==
    ASSUME NEW n \in Node, NEW ks, n.dead => n.val = Nil /\ n.key \in StrKeys,
           n.key = Nil => n = EmptyNode, Nil \notin ks, NEW m, m = ClearedNode(n, ks)
    PROVE  /\ m \in Node /\ m.key = n.key /\ m.next = n.next
           /\ m.val = IF n.key \in ks THEN Nil ELSE n.val
           /\ n.dead => m.dead
           /\ m.dead => m.val = Nil /\ m.key \in StrKeys
           /\ m.key = Nil => m = EmptyNode
<1> DEFINE v == IF n.key \in ks /\ ~n.dead THEN Nil ELSE n.val
           d == n.dead \/ (v = Nil /\ n.key \in StrKeys)
<1>0. n.key \in Keys \cup {Nil} /\ n.dead \in BOOLEAN /\ n.val \in V /\ n.next \in Int
  BY NodeFields
<1>1. v \in V /\ d \in BOOLEAN
  BY <1>0 DEF V
<1>2. m = [key |-> n.key, dead |-> d, val |-> v, next |-> n.next]
  BY DEF ClearedNode, Node
<1>3. v = IF n.key \in ks THEN Nil ELSE n.val
  OBVIOUS
<1>4. (n.dead => d) /\ (d => v = Nil /\ n.key \in StrKeys)
  OBVIOUS
<1>5. n.key = Nil => v = Nil /\ d = FALSE /\ n.next = NoNode
  <2> SUFFICES ASSUME n.key = Nil PROVE v = Nil /\ d = FALSE /\ n.next = NoNode
    OBVIOUS
  <2>1. n.dead = FALSE /\ n.val = Nil /\ n.next = NoNode /\ n.key \notin StrKeys
    BY EmptyIsNode, NilIsNoKey DEF Keys
  <2> QED
    BY <2>1
<1> HIDE DEF v, d
<1>6. m \in Node
  BY <1>0, <1>1, <1>2 DEF Node
<1>7. m.key = n.key /\ m.dead = d /\ m.val = v /\ m.next = n.next
  BY <1>2
<1>8. m.key = Nil => m = EmptyNode
  BY <1>2, <1>5, <1>7, Zenon DEF EmptyNode
<1> QED
  BY <1>3, <1>4, <1>6, <1>7, <1>8

LEMMA ClearedIs ==
    ASSUME NEW t, Good(t), NEW ks \in SUBSET Keys
    PROVE  Clears(t, ks, Cleared(t, ks))
<1> DEFINE D == DOMAIN t.node
           a == [i \in 1..SizeArray(t) |-> IF i \in ks THEN Nil ELSE t.array[i]]
           nd == [i \in D |-> ClearedNode(t.node[i], ks)]
<1>0. /\ t \in Table /\ Layout(D, t.node, Positions(t)) /\ FreeBelow(t) /\ Clean(D, t.node)
      /\ \A i \in 1..SizeArray(t) : t.array[i] # Nil => i \in IntKeys
  BY DEF Good, Layout, Ranked
<1>1. /\ SizeArray(t) \in Nat /\ t.dummy \in BOOLEAN /\ t.lastfree \in Int
      /\ t.node \in [D -> Node] /\ D = 0..(SizeNode(t) - 1) /\ SizeNode(t) \in Nat \ {0}
      /\ \A i \in 1..SizeArray(t) : t.array[i] \in V
  BY <1>0, TableFields
<1>2. PICK u : u = Cleared(t, ks)
  OBVIOUS
<1>3. u = [array |-> a, dummy |-> t.dummy, node |-> nd, lastfree |-> t.lastfree]
  BY <1>0, <1>2 DEF Cleared, ClearedNode, Table
<1>4. a \in Seq(V) /\ Len(a) = SizeArray(t)
      /\ \A i \in 1..SizeArray(t) : a[i] = IF i \in ks THEN Nil ELSE t.array[i]
  BY <1>1 DEF V
<1>5. /\ DOMAIN nd = D
      /\ \A i \in D : /\ nd[i] \in Node /\ nd[i].key = t.node[i].key /\ nd[i].next = t.node[i].next
                      /\ nd[i].val = IF t.node[i].key \in ks THEN Nil ELSE t.node[i].val
                      /\ t.node[i].dead => nd[i].dead
                      /\ nd[i].dead => nd[i].val = Nil /\ nd[i].key \in StrKeys
                      /\ nd[i].key = Nil => nd[i] = EmptyNode
  <2> SUFFICES ASSUME NEW i \in D
               PROVE  /\ nd[i] \in Node /\ nd[i].key = t.node[i].key /\ nd[i].next = t.node[i].next
                      /\ nd[i].val = IF t.node[i].key \in ks THEN Nil ELSE t.node[i].val
                      /\ t.node[i].dead => nd[i].dead
                      /\ nd[i].dead => nd[i].val = Nil /\ nd[i].key \in StrKeys
                      /\ nd[i].key = Nil => nd[i] = EmptyNode
    OBVIOUS
  <2>1. PICK n, m : n = t.node[i] /\ m = nd[i]
    OBVIOUS
  <2>2. m = ClearedNode(n, ks) /\ n \in Node
    BY <1>1, <2>1
  <2>3. (n.dead => n.val = Nil /\ n.key \in StrKeys) /\ (n.key = Nil => n = EmptyNode)
    BY <1>0, <2>1 DEF Clean
  <2>4. Nil \notin ks
    BY NilIsNoKey
  <2> HIDE DEF nd, D
  <2>5. /\ m \in Node /\ m.key = n.key /\ m.next = n.next
        /\ m.val = IF n.key \in ks THEN Nil ELSE n.val
        /\ n.dead => m.dead
        /\ m.dead => m.val = Nil /\ m.key \in StrKeys
        /\ m.key = Nil => m = EmptyNode
    BY <2>2, <2>3, <2>4, ClearedNodeIs
  <2> QED
    BY <2>1, <2>5
<1>6. nd \in [D -> Node]
  BY <1>5
<1> HIDE DEF a, nd, D
<1>7. u.array = a /\ u.dummy = t.dummy /\ u.node = nd /\ u.lastfree = t.lastfree
  BY <1>3
<1>8. u \in Table
  <2>1. nd \in Vectors
    BY <1>1, <1>6 DEF Vectors
  <2> QED
    BY <1>1, <1>3, <1>4, <2>1 DEF Table
<1>9. SizeArray(u) = SizeArray(t) /\ DOMAIN u.node = D
  BY <1>4, <1>5, <1>7 DEF SizeArray
<1>10. Layout(D, nd, Positions(t))
  <2>1. Clean(D, nd)
    BY <1>5 DEF Clean
  <2>2. \A i \in D : /\ nd[i].key = t.node[i].key /\ nd[i].next = t.node[i].next
                     /\ t.node[i].dead => nd[i].dead
    BY <1>5
  <2> QED
    BY <1>0, <1>6, <2>1, <2>2, LayoutKept
<1>11. SizeNode(u) = SizeNode(t) /\ Positions(u) = Positions(t)
  BY <1>9, SamePositions DEF D
<1>12. FreeBelow(u)
  <2>1. ASSUME t.dummy PROVE \A i \in D : nd[i] = EmptyNode
    BY <1>0, <1>5, <2>1, EmptyIsNode DEF FreeBelow, D
  <2>2. ASSUME ~t.dummy PROVE \A i \in D : i >= t.lastfree => nd[i].key # Nil
    BY <1>0, <1>5, <2>2 DEF FreeBelow, D
  <2>3. t.lastfree <= SizeNode(t)
    BY <1>0 DEF FreeBelow
  <2> QED
    BY <1>7, <1>9, <1>11, <2>1, <2>2, <2>3 DEF FreeBelow
<1>13. Good(u)
  <2>1. \A i \in 1..SizeArray(u) : u.array[i] # Nil => i \in IntKeys
    BY <1>0, <1>4, <1>7, <1>9
  <2> QED
    BY <1>7, <1>8, <1>9, <1>10, <1>11, <1>12, <2>1 DEF Good
<1>14. SameShape(t, u)
  BY <1>5, <1>7, <1>9 DEF SameShape, D
<1>15. \A k, w : w # Nil => (Held(u, k, w) <=> Held(t, k, w) /\ k \notin ks)
  <2> SUFFICES ASSUME NEW k, NEW w, w # Nil PROVE Held(u, k, w) <=> Held(t, k, w) /\ k \notin ks
    OBVIOUS
  <2>1. Held(u, k, w) <=> \E i \in D : nd[i].key = k /\ nd[i].val = w
    BY <1>7, <1>9 DEF Held
  <2>2. Held(t, k, w) <=> \E i \in D : t.node[i].key = k /\ t.node[i].val = w
    BY DEF Held, D
  <2> QED
    BY <1>5, <2>1, <2>2
<1>16. ASSUME NEW k \in Keys PROVE Get(u, k) = IF k \in ks THEN Nil ELSE Get(t, k)
  <2>1. InArray(u, k) <=> InArray(t, k)
    BY <1>9 DEF InArray
  <2>2. CASE InArray(t, k)
    <3>1. Get(u, k) = a[k] /\ Get(t, k) = t.array[k] /\ k \in 1..SizeArray(t)
      BY <1>7, <1>13, <2>1, <2>2, GetIs DEF InArray
    <3> QED
      BY <1>4, <3>1
  <2>3. CASE ~InArray(t, k)
    <3>1. Get(u, k) \in V /\ Get(t, k) \in V
      BY <1>13, GetIs
    <3>2. \A w \in V \ {Nil} : Get(u, k) = w <=> Get(t, k) = w /\ k \notin ks
      BY <1>13, <1>15, <2>1, <2>3, GetIs
    <3> QED
      BY <3>1, <3>2
  <2> QED
    BY <2>2, <2>3
<1> QED
  BY <1>2, <1>13, <1>14, <1>15, <1>16 DEF Clears

-----------------------------------------------------------------------------
(* The inductive invariant of the specification.                           *)

\* The table agrees with the map on every string key and, unless a failed
\* resize hid an entry, on every key.
Agrees == client = "lua" => \A k \in LuaKeys : k \in StrKeys \/ ~torn => Get(tab, k) = map[k]

Safe ==
    /\ Good(tab)
    /\ client \in Clients
    /\ map \in [LuaKeys -> V]
    /\ stuck = FALSE
    /\ ~torn => Apart(tab)
    /\ Agrees

LEMMA Constants ==
    /\ LuaKeys \subseteq Keys
    /\ \A k \in LuaKeys : LuaValues[k] \subseteq Values
    /\ "ref" \in Clients => 0 \in IntKeys
    /\ NewSizes \subseteq Nat \X Nat /\ ListSizes \subseteq Nat
    /\ IntKeys \subseteq Keys /\ IntKeys \subseteq V /\ Values \subseteq V /\ Nil \in V
BY LuaTableAssumption DEF Keys, V

LEMMA HiddenIs ==
    ASSUME NEW t, Good(t)
    PROVE  Hidden(t) <=> ~Apart(t)
<1>1. \A i \in DOMAIN t.node : t.node[i].val \in V
  BY TableFields, NodeFields DEF Good
<1> QED
  BY <1>1 DEF Hidden, Apart, Held

LEMMA SingleIs ==
    ASSUME NEW t
    PROVE  \A k \in Keys : k \in StrKeys \/ Apart(t) => Single(t, k)
BY NilIsNoKey DEF Single, Apart, InArray

\* Every operation of either client that changes the table ends in Change.
LEMMA ChangeSafe ==
    ASSUME NEW r, NEW out, Change(r, out), Safe, Good(r.t), r.res \in {"done", "error"}
    PROVE  Good(tab') /\ tab' = r.t /\ stuck' = FALSE /\ (~torn' => Apart(tab') /\ ~torn)
<1>1. tab' = r.t /\ stuck' = (stuck \/ r.res = "stuck") /\ torn' = (torn \/ Hidden(r.t))
  BY DEF Change
<1>2. ~(stuck \/ r.res = "stuck")
  BY DEF Safe
<1>3. stuck' = FALSE
  BY <1>1, <1>2, Zenon
<1>4. ~torn' => ~torn /\ ~Hidden(r.t)
  BY <1>1
<1> QED
  BY <1>1, <1>3, <1>4, HiddenIs

LEMMA InitSafe == Init => Safe
<1> SUFFICES ASSUME Init PROVE Safe
  OBVIOUS
<1>1. PICK s \in Nat \X Nat : tab = New(s[1], s[2])
  <2>1. PICK s \in (IF client = "ref" THEN {<<0, 0>>} ELSE NewSizes) : tab = New(s[1], s[2])
    BY DEF Init
  <2>2. s \in Nat \X Nat
    BY Constants
  <2> QED
    BY <2>1, <2>2
<1>2. s[1] \in Nat /\ s[2] \in Nat
  OBVIOUS
<1>3. Good(tab) /\ Apart(tab) /\ \A k \in Keys : Get(tab, k) = Nil
  BY <1>1, <1>2, NewIs
<1>4. client \in Clients /\ stuck = FALSE /\ map = [k \in LuaKeys |-> Nil]
  BY DEF Init
<1>5. map \in [LuaKeys -> V] /\ \A k \in LuaKeys : map[k] = Nil
  BY <1>4, Constants
<1>6. Agrees
  BY <1>3, <1>5, Constants DEF Agrees
<1> QED
  BY <1>3, <1>4, <1>5, <1>6 DEF Safe

LEMMA StoreSafe ==
    ASSUME Safe, NEW k \in LuaKeys, NEW v \in LuaValues[k] \cup {Nil}, NEW out \in Outs, Store(k, v, out)
    PROVE  Safe'
<1>1. k \in Keys /\ v \in V
  BY Constants
<1>2. PICK r : r = Assign(tab, k, v, out)
  OBVIOUS
<1>3. /\ client = "lua" /\ client' = client /\ Change(r, out)
      /\ map' = IF r.res = "error" THEN map ELSE MapSet(map, k, v)
  BY <1>2 DEF Store
<1>4. Assigns(tab, k, v, r)
  BY <1>1, <1>2, AssignIs DEF Safe
<1>5. Good(r.t) /\ r.res \in {"done", "error"}
  BY <1>4 DEF Assigns
<1>6. Good(tab') /\ tab' = r.t /\ stuck' = FALSE /\ (~torn' => Apart(tab') /\ ~torn)
  BY <1>3, <1>5, ChangeSafe
<1>7. \A kk \in LuaKeys : kk \in StrKeys \/ ~torn => Get(tab, kk) = map[kk]
  BY <1>3 DEF Safe, Agrees
<1>8. map \in [LuaKeys -> V] /\ client \in Clients /\ (~torn => Apart(tab))
  BY DEF Safe
<1>9. map' \in [LuaKeys -> V]
  BY <1>1, <1>3, <1>8 DEF MapSet
<1>10. ASSUME NEW kk \in LuaKeys, kk \in StrKeys \/ ~torn' PROVE Get(tab', kk) = map'[kk]
  <2>0. kk \in Keys /\ (kk \in StrKeys \/ ~torn) /\ (kk \in StrKeys \/ Apart(tab'))
    BY <1>6, <1>10, Constants
  <2>1. CASE r.res = "error"
    <3>1. Get(r.t, kk) = Get(tab, kk)
      BY <1>4, <1>6, <2>0, <2>1 DEF Assigns
    <3>2. map' = map
      BY <1>3, <2>1
    <3> QED
      BY <1>6, <1>7, <2>0, <3>1, <3>2
  <2>2. CASE r.res = "done"
    <3>1. map'[kk] = IF kk = k THEN v ELSE map[kk]
      BY <1>3, <1>8, <2>2 DEF MapSet
    <3>2. Get(r.t, k) = v /\ (Single(tab, kk) /\ kk # k => Get(r.t, kk) = Get(tab, kk))
      BY <1>4, <2>0, <2>2 DEF Assigns
    <3>3. Single(tab, kk)
      BY <1>8, <2>0, SingleIs
    <3> QED
      BY <1>6, <1>7, <2>0, <3>1, <3>2, <3>3
  <2> QED
    BY <1>5, <2>1, <2>2
<1>11. Agrees'
  BY <1>10 DEF Agrees
<1> QED
  BY <1>3, <1>6, <1>8, <1>9, <1>11 DEF Safe

LEMMA ResizeArraySafe ==
    ASSUME Safe, NEW n \in ListSizes, NEW out \in Outs, ResizeArray(n, out)
    PROVE  Safe'
<1>2. PICK r : r = Resize(tab, n, IF tab.dummy THEN 0 ELSE SizeNode(tab), out)
  OBVIOUS
<1>3. client = "lua" /\ client' = client /\ Change(r, out) /\ map' = map /\ n > SizeArray(tab) /\ n \in Nat
  BY <1>2, Constants DEF ResizeArray
<1>4. PICK K : Resizes(tab, r, K, n)
  BY <1>2, <1>3, ResizeArrayIs DEF Safe
<1>5. Good(r.t) /\ r.res \in {"done", "error"}
  BY <1>4 DEF Resizes
<1>6. Good(tab') /\ tab' = r.t /\ stuck' = FALSE /\ (~torn' => Apart(tab') /\ ~torn)
  BY <1>3, <1>5, ChangeSafe
<1>7. \A kk \in LuaKeys : kk \in StrKeys \/ ~torn => Get(tab, kk) = map[kk]
  BY <1>3 DEF Safe, Agrees
<1>8. map \in [LuaKeys -> V] /\ client \in Clients /\ (~torn => Apart(tab))
  BY DEF Safe
<1>10. ASSUME NEW kk \in LuaKeys, kk \in StrKeys \/ ~torn' PROVE Get(tab', kk) = map'[kk]
  <2>0. kk \in Keys /\ (kk \in StrKeys \/ ~torn) /\ (kk \in StrKeys \/ Apart(tab'))
    BY <1>6, <1>10, Constants
  <2>1. Single(tab, kk)
    BY <1>8, <2>0, SingleIs
  <2>2. Get(r.t, kk) = Get(tab, kk)
    BY <1>4, <1>5, <1>6, <2>0, <2>1 DEF Resizes
  <2> QED
    BY <1>3, <1>6, <1>7, <2>0, <2>2
<1>11. Agrees'
  BY <1>10 DEF Agrees
<1> QED
  BY <1>3, <1>6, <1>8, <1>11 DEF Safe

LEMMA CollectSafe ==
    ASSUME Safe, NEW ks \in SUBSET {k \in Keys : Get(tab, k) # Nil}, Collect(ks)
    PROVE  Safe' /\ Clears(tab, ks, tab')
<1>1. ks \in SUBSET Keys
  OBVIOUS
<1>2. tab' = Cleared(tab, ks)
  BY DEF Collect, Cleared
<1>3. /\ client = "lua" /\ client' = client /\ torn' = torn /\ stuck' = stuck
      /\ map' = [k \in LuaKeys |-> IF k \in ks THEN Nil ELSE map[k]]
  BY DEF Collect
<1>4. Clears(tab, ks, tab')
  BY <1>1, <1>2, ClearedIs DEF Safe
<1> HIDE <1>2
<1>5. /\ Good(tab') /\ SizeArray(tab') = SizeArray(tab)
      /\ \A k, w : w # Nil => (Held(tab', k, w) <=> Held(tab, k, w) /\ k \notin ks)
      /\ \A k \in Keys : Get(tab', k) = IF k \in ks THEN Nil ELSE Get(tab, k)
  BY <1>4 DEF Clears, SameShape
<1>6. map' \in [LuaKeys -> V] /\ \A k \in LuaKeys : map'[k] = IF k \in ks THEN Nil ELSE map[k]
  BY <1>3, Constants DEF Safe
<1>7. ~torn' => Apart(tab')
  BY <1>3, <1>5 DEF Safe, Apart, InArray
<1>8. \A k \in LuaKeys : k \in StrKeys \/ ~torn => Get(tab, k) = map[k]
  BY <1>3 DEF Safe, Agrees
<1>9. Agrees'
  BY <1>3, <1>5, <1>6, <1>8, Constants DEF Agrees
<1>10. stuck' = FALSE /\ client' \in Clients
  BY <1>3 DEF Safe
<1> QED
  BY <1>4, <1>5, <1>6, <1>7, <1>9, <1>10 DEF Safe

\* A reference operation leaves a table without a map to agree with.
LEMMA RefSafe ==
    ASSUME Safe, NEW t, Good(t), NEW k \in Keys, NEW v \in V, NEW out, NEW r, r = Assign(t, k, v, out),
           Change(r, out), client = "ref", UNCHANGED <<client, map>>
    PROVE  Safe'
<1>1. Assigns(t, k, v, r)
  BY AssignIs
<1>2. Good(r.t) /\ r.res \in {"done", "error"}
  BY <1>1 DEF Assigns
<1>3. Good(tab') /\ stuck' = FALSE /\ (~torn' => Apart(tab'))
  BY <1>2, ChangeSafe
<1>4. client' = "ref" /\ client' \in Clients /\ map' \in [LuaKeys -> V]
  BY DEF Safe
<1>5. Agrees'
  BY <1>4 DEF Agrees
<1> QED
  BY <1>3, <1>4, <1>5 DEF Safe

LEMMA RefKeys ==
    ASSUME Safe, client = "ref"
    PROVE  /\ FREELIST_REF \in Keys /\ Get(tab, FREELIST_REF) \in V
           /\ ToInteger(Get(tab, FREELIST_REF)) \in IntKeys
           /\ Get(tab, ToInteger(Get(tab, FREELIST_REF))) \in V
<1>1. 0 \in IntKeys /\ FREELIST_REF \in Keys
  BY Constants DEF Safe, FREELIST_REF
<1>2. \A k \in Keys : Get(tab, k) \in V
  BY GetIs DEF Safe
<1>3. ToInteger(Get(tab, FREELIST_REF)) \in IntKeys
  BY <1>1 DEF ToInteger
<1> QED
  BY <1>1, <1>2, <1>3, Constants

LEMMA RefActionSafe ==
    ASSUME Safe, NEW v \in Values, NEW out \in Outs, Ref(v, out)
    PROVE  Safe'
<1>1. PICK free : free = ToInteger(Get(tab, FREELIST_REF))
  OBVIOUS
<1>2. PICK ref : ref = IF free # 0 THEN free ELSE GetN(tab) + 1
  OBVIOUS
<1>3. PICK popped : popped = Assign(tab, FREELIST_REF, Get(tab, free), "no")
  OBVIOUS
<1>4. PICK t : t = IF free # 0 THEN popped.t ELSE tab
  OBVIOUS
<1>5. PICK r : r = Assign(t, ref, v, out)
  OBVIOUS
<1>6. client = "ref" /\ ref \in IntKeys /\ Change(r, out) /\ UNCHANGED <<client, map>>
  BY <1>1, <1>2, <1>3, <1>4, <1>5 DEF Ref
<1>7. FREELIST_REF \in Keys /\ Get(tab, free) \in V
  BY <1>1, <1>6, RefKeys
<1>8. Good(t)
  <2>1. Assigns(tab, FREELIST_REF, Get(tab, free), popped)
    BY <1>3, <1>7, AssignIs DEF Safe
  <2>2. Good(popped.t)
    BY <2>1 DEF Assigns
  <2> QED
    BY <1>4, <2>2 DEF Safe
<1>9. ref \in Keys /\ v \in V
  BY <1>6, Constants
<1> QED
  BY <1>5, <1>6, <1>8, <1>9, RefSafe

LEMMA UnrefActionSafe ==
    ASSUME Safe, NEW ref \in IntKeys, NEW out \in Outs, Unref(ref, out)
    PROVE  Safe'
<1>1. PICK linked : linked = Assign(tab, ref, Get(tab, FREELIST_REF), "no")
  OBVIOUS
<1>2. PICK r : r = Assign(linked.t, FREELIST_REF, ref, out)
  OBVIOUS
<1>3. client = "ref" /\ Change(r, out) /\ UNCHANGED <<client, map>>
  BY <1>1, <1>2 DEF Unref
<1>4. FREELIST_REF \in Keys /\ Get(tab, FREELIST_REF) \in V /\ ref \in Keys /\ ref \in V
  BY <1>3, RefKeys, Constants
<1>5. Assigns(tab, ref, Get(tab, FREELIST_REF), linked)
  BY <1>1, <1>4, AssignIs DEF Safe
<1>6. Good(linked.t)
  BY <1>5 DEF Assigns
<1> QED
  BY <1>2, <1>3, <1>4, <1>6, RefSafe

LEMMA NextSafe ==
    ASSUME Safe, [Next]_vars
    PROVE  Safe'
<1>1. ASSUME NEW k \in LuaKeys, NEW v \in LuaValues[k] \cup {Nil}, NEW out \in Outs, Store(k, v, out)
      PROVE  Safe'
  BY <1>1, StoreSafe
<1>2. ASSUME NEW n \in ListSizes, NEW out \in Outs, ResizeArray(n, out) PROVE Safe'
  BY <1>2, ResizeArraySafe
<1>3. CASE StepWalk
  BY <1>3 DEF StepWalk, Safe, Agrees
<1>4. CASE ForgetWalk
  BY <1>4 DEF ForgetWalk, Safe, Agrees
<1>5. ASSUME NEW ks \in SUBSET {k \in Keys : Get(tab, k) # Nil}, Collect(ks) PROVE Safe'
  BY <1>5, CollectSafe
<1>6. ASSUME NEW v \in Values, NEW out \in Outs, Ref(v, out) PROVE Safe'
  BY <1>6, RefActionSafe
<1>7. ASSUME NEW ref \in IntKeys, NEW out \in Outs, Unref(ref, out) PROVE Safe'
  BY <1>7, UnrefActionSafe
<1>8. CASE UNCHANGED vars
  BY <1>8 DEF vars, Safe, Agrees
<1> QED
  BY <1>1, <1>2, <1>3, <1>4, <1>5, <1>6, <1>7, <1>8 DEF Next

LEMMA SafeBrent ==
    ASSUME Safe
    PROVE  BrentLayout
<1> SUFFICES ASSUME NEW i \in DOMAIN tab.node, tab.node[i].val # Nil,
                    MainPosition(tab, tab.node[i].key) # i
             PROVE  MainPosition(tab, tab.node[MainPosition(tab, tab.node[i].key)].key)
                        = MainPosition(tab, tab.node[i].key)
  BY DEF BrentLayout
<1> DEFINE D == DOMAIN tab.node
           p == Positions(tab)
<1>1. tab \in Table /\ Brent(D, tab.node, p) /\ Clean(D, tab.node) /\ tab.node \in [D -> Node]
  BY TableFields DEF Safe, Good, Layout, Ranked
<1>2. \A k \in Keys : p[k] = MainPosition(tab, k) /\ p[k] \in D
  BY <1>1, MainPositionType DEF Positions
<1>3. \A j \in D : tab.node[j].key \in Keys \cup {Nil}
  BY <1>1, NodeFields
<1>4. tab.node[i].key # Nil
  BY <1>1, EmptyIsNode DEF Clean
<1>5. PICK k \in Keys : k = tab.node[i].key
  BY <1>3, <1>4
<1>6. PICK m \in D : m = p[k] /\ m = MainPosition(tab, k) /\ m # i
  BY <1>2, <1>5
<1> HIDE DEF p, D
<1>7. tab.node[m].key # Nil /\ p[tab.node[m].key] = m
  BY <1>1, <1>4, <1>5, <1>6 DEF Brent, D
<1>8. tab.node[m].key \in Keys
  BY <1>3, <1>7
<1>9. MainPosition(tab, tab.node[m].key) = m
  BY <1>2, <1>7, <1>8
<1> QED
  BY <1>5, <1>6, <1>9

\* What ltable.c's header comment promises of newkey's moves holds in every
\* reachable table, for any keys, hashes, sizes, failed allocations and
\* collections: an element outside its main position collides with one that is
\* in its own.
THEOREM BrentAlways == Spec => []BrentLayout
<1>1. Safe => BrentLayout
  BY SafeBrent
<1>2. Safe /\ [Next]_vars => Safe'
  BY NextSafe
<1> QED
  BY InitSafe, <1>1, <1>2, PTL DEF Spec

\* The table is the map the program's assignments describe: luaH_get finds
\* every field wherever newkey's moves and the resizes left it, and an
\* insertion after a rehash always finds room (newkey, rehash and luaH_set do
\* not call each other again).
THEOREM ActsAsMapAlways == Spec => []ActsAsMap
<1>1. Safe => ActsAsMap
  <2> SUFFICES ASSUME Safe PROVE ActsAsMap
    OBVIOUS
  <2>1. ~stuck
    BY DEF Safe
  <2>2. ASSUME client = "lua", NEW k \in (IF torn THEN LuaKeys \ IntKeys ELSE LuaKeys)
        PROVE  Get(tab, k) = map[k]
    <3>1. k \in LuaKeys /\ (k \in StrKeys \/ ~torn)
      BY Constants DEF Keys
    <3> QED
      BY <2>2, <3>1 DEF Safe, Agrees
  <2> QED
    BY <2>1, <2>2 DEF ActsAsMap
<1>2. Safe /\ [Next]_vars => Safe'
  BY NextSafe
<1> QED
  BY InitSafe, <1>1, <1>2, PTL DEF Spec

-----------------------------------------------------------------------------
(* The length of a table.                                                  *)

\* A search: at n it ends with b[n] when n is in B and goes on at nx[n].
Search(D, B, b, nx, r) ==
    r \in [D -> Nat] /\ \A n \in D \ B : nx[n] \in D /\ r[nx[n]] < r[n]

Searches(D, B, b, nx, h) == \A n \in D : h[n] = IF n \in B THEN b[n] ELSE h[nx[n]]

LEMMA SearchExists ==
    ASSUME NEW D, NEW B, NEW b, NEW nx, NEW r, Search(D, B, b, nx, r)
    PROVE  \E f : f = [n \in D |-> f[n]] /\ Searches(D, B, b, nx, f)
<1> DEFINE S == {b[n] : n \in D}
           c == [n \in D |-> b[n]]
           g == [q \in D \X S |-> q[2]]
<1>1. c \in [D -> S] /\ g \in [D \X S -> S] /\ \A n \in D : c[n] = b[n]
  OBVIOUS
<1>2. \A n \in D : \A x \in S : g[<<n, x>>] = x
  OBVIOUS
<1> HIDE DEF S, c, g
<1>3. Descends(D, S, B, c, g, nx, r)
  BY <1>1 DEF Descends, Search
<1>4. PICK f \in [D -> S] : \A n \in D : f[n] = Recur(B, c, g, nx, n, f)
  BY <1>3, Recursion
<1>5. ASSUME NEW n \in D PROVE f[n] = IF n \in B THEN b[n] ELSE f[nx[n]]
  <2>1. f[n] = IF n \in B THEN c[n] ELSE g[<<n, f[nx[n]]>>]
    BY <1>4 DEF Recur
  <2>2. n \notin B => nx[n] \in D /\ f[nx[n]] \in S
    BY DEF Search
  <2> QED
    BY <1>1, <1>2, <2>1, <2>2
<1>6. f = [n \in D |-> f[n]]
  OBVIOUS
<1> QED
  BY <1>5, <1>6 DEF Searches

\* A search that starts in G, stays in G and ends in R.
Leads(G, B, b, nx, R) == \A n \in G : IF n \in B THEN b[n] \in R ELSE nx[n] \in G

LEMMA SearchEnds ==
    ASSUME NEW D, NEW B, NEW b, NEW nx, NEW r, Search(D, B, b, nx, r),
           NEW h, Searches(D, B, b, nx, h), NEW G \in SUBSET D, NEW R, Leads(G, B, b, nx, R)
    PROVE  \A n \in G : h[n] \in R
<1> DEFINE Bad == {n \in G : h[n] \notin R}
           W == {r[n] : n \in Bad}
<1> SUFFICES ASSUME Bad # {} PROVE FALSE
  OBVIOUS
<1>1. \A n \in G : n \in D /\ r[n] \in Nat
  BY DEF Search
<1>2. W \subseteq Nat /\ W # {}
  BY <1>1
<1>3. PICK w \in W : \A y \in W : w <= y
  BY <1>2, LeastNatural
<1>4. PICK n \in Bad : w = r[n]
  BY <1>3
<1>5. n \in G /\ h[n] \notin R /\ n \in D
  BY <1>1
<1>6. n \notin B
  BY <1>5 DEF Searches, Leads
<1>7. h[n] = h[nx[n]] /\ nx[n] \in G /\ r[nx[n]] < r[n]
  BY <1>5, <1>6 DEF Searches, Leads, Search
<1>8. nx[n] \in Bad
  BY <1>5, <1>7
<1>9. r[nx[n]] \in W
  BY <1>8
<1>10. r[n] <= r[nx[n]]
  BY <1>3, <1>4, <1>9
<1> QED
  BY <1>1, <1>5, <1>7, <1>10

\* x is a boundary below j, for the absent indices A.
Splits(A, j, x) == x \in 0..(j - 1) /\ (x = 0 \/ x \notin A) /\ x + 1 \in A

LEMMA BetweenIs ==
    ASSUME NEW A, NEW i \in Nat, NEW j \in Nat, i < j, j \in A, i = 0 \/ i \notin A
    PROVE  Splits(A, j, Between(A, i, j))
<1> DEFINE D == (0..j) \X (0..j)
           B == {p \in D : p[2] - p[1] <= 1}
           b == [p \in D |-> p[1]]
           mid(p) == (p[1] + p[2]) \div 2
           to(p) == IF mid(p) \in A THEN <<p[1], mid(p)>> ELSE <<mid(p), p[2]>>
           nx == [p \in D |-> to(p)]
           r == [p \in D |-> IF p[2] - p[1] <= 1 THEN 0 ELSE p[2] - p[1]]
           bs == CHOOSE f : f = [p \in D |-> IF p[2] - p[1] <= 1 THEN p[1] ELSE f[to(p)]]
           G == {p \in D : p[1] < p[2] /\ p[2] \in A /\ (p[1] = 0 \/ p[1] \notin A)}
           R == {n \in 0..(j - 1) : (n = 0 \/ n \notin A) /\ n + 1 \in A}
<1>0. Between(A, i, j) = bs[<<i, j>>]
  BY DEF Between
<1>1. ASSUME NEW p \in D, ~(p[2] - p[1] <= 1)
      PROVE  /\ mid(p) \in 0..j /\ p[1] < mid(p) /\ mid(p) < p[2]
             /\ to(p) \in D
             /\ to(p)[2] - to(p)[1] < p[2] - p[1] /\ to(p)[2] > to(p)[1]
  <2>1. PICK x \in 0..j, y \in 0..j : x = p[1] /\ y = p[2]
    OBVIOUS
  <2>2. PICK m : m = mid(p)
    OBVIOUS
  <2>3. m = (x + y) \div 2 /\ y - x > 1
    BY <1>1, <2>1, <2>2
  <2>4. m \in 0..j /\ x < m /\ m < y
    BY <2>3
  <2>5. to(p) = IF m \in A THEN <<x, m>> ELSE <<m, y>>
    BY <2>1, <2>2
  <2> HIDE DEF to, mid
  <2>6. CASE m \in A
    <3>1. to(p) = <<x, m>>
      BY <2>5, <2>6
    <3> QED
      BY <2>1, <2>2, <2>4, <3>1
  <2>7. CASE m \notin A
    <3>1. to(p) = <<m, y>>
      BY <2>5, <2>7
    <3> QED
      BY <2>1, <2>2, <2>4, <3>1
  <2> QED
    BY <2>6, <2>7
<1>2. \A p \in D : p[1] \in 0..j /\ p[2] \in 0..j
  OBVIOUS
<1>3. r \in [D -> Nat] /\ \A p \in D : r[p] = IF p[2] - p[1] <= 1 THEN 0 ELSE p[2] - p[1]
  OBVIOUS
<1>4. \A p \in D : b[p] = p[1] /\ nx[p] = to(p) /\ (p \in B <=> p[2] - p[1] <= 1)
  OBVIOUS
<1>5. \A p \in G : p \in D /\ p[1] < p[2] /\ p[2] \in A /\ (p[1] = 0 \/ p[1] \notin A)
  OBVIOUS
<1>6. \A p \in D : p[1] < p[2] /\ p[2] \in A /\ (p[1] = 0 \/ p[1] \notin A) => p \in G
  OBVIOUS
<1>7. G \in SUBSET D /\ <<i, j>> \in G
  OBVIOUS
<1>8. \A p \in D : to(p) = IF mid(p) \in A THEN <<p[1], mid(p)>> ELSE <<mid(p), p[2]>>
  OBVIOUS
<1>9. \A n \in R : n \in 0..(j - 1) /\ (n = 0 \/ n \notin A) /\ n + 1 \in A
  OBVIOUS
<1>10. \A n \in 0..(j - 1) : (n = 0 \/ n \notin A) /\ n + 1 \in A => n \in R
  OBVIOUS
<1> HIDE DEF D, B, b, nx, r, G, R, to, mid
<1>11. Search(D, B, b, nx, r)
  <2>1. ASSUME NEW p \in D \ B PROVE nx[p] \in D /\ r[nx[p]] < r[p]
    <3>1. ~(p[2] - p[1] <= 1) /\ nx[p] = to(p)
      BY <1>4
    <3>2. PICK q \in D : q = to(p)
      BY <1>1, <3>1
    <3>3. q[2] - q[1] < p[2] - p[1] /\ q[2] > q[1]
      BY <1>1, <3>1, <3>2
    <3>4. r[q] < r[p]
      BY <1>2, <1>3, <3>1, <3>3
    <3> QED
      BY <3>1, <3>2, <3>4
  <2> QED
    BY <1>3, <2>1 DEF Search
<1>12. PICK f : f = [p \in D |-> f[p]] /\ Searches(D, B, b, nx, f)
  BY <1>11, SearchExists
<1>13. f = [p \in D |-> IF p[2] - p[1] <= 1 THEN p[1] ELSE f[to(p)]]
  <2>1. \A p \in D : f[p] = IF p[2] - p[1] <= 1 THEN p[1] ELSE f[to(p)]
    BY <1>4, <1>12 DEF Searches
  <2> QED
    BY <1>12, <2>1
<1>14. bs = [p \in D |-> IF p[2] - p[1] <= 1 THEN p[1] ELSE bs[to(p)]]
  BY <1>13
<1> HIDE DEF bs
<1>15. Searches(D, B, b, nx, bs)
  BY <1>4, <1>14 DEF Searches
<1>16. Leads(G, B, b, nx, R)
  <2> SUFFICES ASSUME NEW p \in G PROVE IF p \in B THEN b[p] \in R ELSE nx[p] \in G
    BY DEF Leads
  <2>1. p \in D /\ p[1] < p[2] /\ p[2] \in A /\ (p[1] = 0 \/ p[1] \notin A)
        /\ p[1] \in 0..j /\ p[2] \in 0..j
    BY <1>2, <1>5
  <2>2. CASE p \in B
    <3>1. p[2] = p[1] + 1 /\ p[1] \in 0..(j - 1)
      BY <1>4, <2>1, <2>2
    <3>2. p[1] + 1 \in A
      BY <2>1, <3>1
    <3> QED
      BY <1>4, <1>10, <2>1, <2>2, <3>1, <3>2
  <2>3. CASE p \notin B
    <3>1. ~(p[2] - p[1] <= 1) /\ nx[p] = to(p)
      BY <1>4, <2>1, <2>3
    <3>2. PICK m : m = mid(p)
      OBVIOUS
    <3>3. PICK q \in D : q = to(p) /\ q[2] > q[1]
      BY <1>1, <2>1, <3>1
    <3>4. q = IF m \in A THEN <<p[1], m>> ELSE <<m, p[2]>>
      BY <1>8, <2>1, <3>2, <3>3
    <3>5. q[2] \in A /\ (q[1] = 0 \/ q[1] \notin A)
      <4>1. CASE m \in A
        BY <2>1, <3>4, <4>1
      <4>2. CASE m \notin A
        BY <2>1, <3>4, <4>2
      <4> QED
        BY <4>1, <4>2
    <3>6. q[1] < q[2]
      BY <1>2, <3>3
    <3>7. q \in G
      BY <1>6, <3>5, <3>6
    <3> QED
      BY <2>3, <3>1, <3>3, <3>7
  <2> QED
    BY <2>2, <2>3
<1>17. \A p \in G : bs[p] \in R
  BY <1>7, <1>11, <1>15, <1>16, SearchEnds
<1>18. Between(A, i, j) \in R
  BY <1>0, <1>7, <1>17
<1>19. PICK x : x = Between(A, i, j)
  OBVIOUS
<1>20. Splits(A, j, x)
  BY <1>9, <1>18, <1>19 DEF Splits
<1> QED
  BY <1>19, <1>20

\* The indices that are absent from the table, and its boundaries.
Absent(t) == {n \in Nat : n \notin IntKeys \/ Get(t, n) = Nil}
Borders(t) == {n \in Nat : (n = 0 \/ n \notin Absent(t)) /\ n + 1 \in Absent(t)}

\* The last resort of unbound_search: among one more index than there are keys
\* one is absent, and the first of them follows a boundary.
LEMMA LinearIs ==
    ASSUME NEW A, A \subseteq Nat, Nat \ IntKeys \subseteq A, NEW l,
           l = Lower({n \in 1..(Cardinality(IntKeys) + 1) : n \in A}) - 1
    PROVE  l \in Nat /\ (l = 0 \/ l \notin A) /\ l + 1 \in A
<1>1. IsFiniteSet(IntKeys) /\ Cardinality(IntKeys) \in Nat
  BY LuaTableAssumption, FS_CardinalityType
<1>2. PICK c \in Nat : c = Cardinality(IntKeys) + 1
  BY <1>1
<1> DEFINE T == {n \in 1..c : n \in A}
<1>3. T # {}
  <2> SUFFICES ASSUME T = {} PROVE FALSE
    OBVIOUS
  <2>1. 1..c \in SUBSET IntKeys
    <3> SUFFICES ASSUME NEW n \in 1..c, n \notin IntKeys PROVE FALSE
      OBVIOUS
    <3>1. n \in T
      OBVIOUS
    <3> QED
      BY <3>1
  <2>2. Cardinality(1..c) <= Cardinality(IntKeys)
    BY <1>1, <2>1, FS_Subset
  <2>3. Cardinality(1..c) = c
    BY <1>1, <1>2, FS_Interval
  <2> QED
    BY <1>1, <1>2, <2>2, <2>3
<1>4. T \subseteq Nat /\ \A n \in T : n \in 1..c /\ n \in A
  OBVIOUS
<1>5. \A n \in 1..c : n \in A => n \in T
  OBVIOUS
<1>6. l = Lower(T) - 1
  BY <1>2
<1> HIDE DEF T
<1>7. PICK x : x = Lower(T) /\ x \in T /\ \A y \in T : x <= y
  BY <1>3, <1>4, LowerIs
<1>8. x \in 1..c /\ x \in A /\ l = x - 1
  BY <1>4, <1>6, <1>7
<1>9. l \in Nat /\ l + 1 \in A
  BY <1>8
<1>10. l # 0 => l \in 1..c /\ ~(x <= l)
  <2>1. \A y \in 1..c : y - 1 # 0 => y - 1 \in 1..c /\ ~(y <= y - 1)
    OBVIOUS
  <2> QED
    BY <1>8, <2>1
<1> QED
  BY <1>5, <1>7, <1>9, <1>10

LEMMA UnboundSearchIs ==
    ASSUME NEW t, NEW from \in Nat, from = 0 \/ from \notin Absent(t)
    PROVE  UnboundSearch(t, from) \in Borders(t)
<1> DEFINE A == Absent(t)
           D == Nat \X (Nat \ {0})
           gone(n) == (IF n \in IntKeys THEN Get(t, n) ELSE Nil) = Nil
           linear == Lower({n \in 1..(Cardinality(IntKeys) + 1) : gone(n)}) - 1
           here(p) == Between({n \in 1..p[2] : gone(n)}, p[1], p[2])
           up == CHOOSE f : f = [p \in D |-> IF gone(p[2]) THEN here(p)
                                             ELSE IF 2 * p[2] > MaxInt THEN linear
                                             ELSE f[<<p[2], 2 * p[2]>>]]
           B == {p \in D : gone(p[2]) \/ 2 * p[2] > MaxInt}
           b == [p \in D |-> IF gone(p[2]) THEN here(p) ELSE linear]
           nx == [p \in D |-> <<p[2], 2 * p[2]>>]
           r == [p \in D |-> IF p[2] <= MaxInt THEN MaxInt + 1 - p[2] ELSE 0]
           G == {p \in D : p[1] < p[2] /\ (p[1] = 0 \/ p[1] \notin A)}
<1>0. UnboundSearch(t, from) = up[<<from, from + 1>>]
  BY DEF UnboundSearch
<1>1. \A n \in Nat : gone(n) <=> n \in A
  BY DEF Absent
<1>2. A \subseteq Nat /\ Nat \ IntKeys \subseteq A
  BY DEF Absent
<1>3. {n \in 1..(Cardinality(IntKeys) + 1) : gone(n)} = {n \in 1..(Cardinality(IntKeys) + 1) : n \in A}
  <2>1. Cardinality(IntKeys) \in Nat
    BY LuaTableAssumption, FS_CardinalityType
  <2>2. \A n \in 1..(Cardinality(IntKeys) + 1) : n \in Nat
    BY <2>1
  <2> HIDE DEF gone, A
  <2> QED
    BY <1>1, <2>2
<1>4. linear \in Borders(t)
  <2>1. linear = Lower({n \in 1..(Cardinality(IntKeys) + 1) : n \in A}) - 1
    BY <1>3
  <2> HIDE DEF linear, A
  <2>2. linear \in Nat /\ (linear = 0 \/ linear \notin A) /\ linear + 1 \in A
    BY <1>2, <2>1, LinearIs
  <2> QED
    BY <2>2 DEF Borders, A
<1>5. ASSUME NEW p \in G, gone(p[2]) PROVE here(p) \in Borders(t)
  <2>1. PICK i \in Nat, j \in Nat \ {0} : i = p[1] /\ j = p[2] /\ i < j /\ (i = 0 \/ i \notin A) /\ j \in A
    <3>1. p[1] \in Nat /\ p[2] \in Nat \ {0} /\ p[1] < p[2] /\ (p[1] = 0 \/ p[1] \notin A)
      OBVIOUS
    <3>2. p[2] \in A
      BY <1>1, <1>5, <3>1
    <3> QED
      BY <3>1, <3>2
  <2>2. PICK S : S = {n \in 1..j : gone(n)}
    OBVIOUS
  <2>3. \A n : n \in S <=> n \in 1..j /\ n \in A
    <3> HIDE DEF A, gone
    <3> QED
      BY <1>1, <2>2
  <2>4. PICK x : x = Between(S, i, j) /\ x = here(p)
    BY <2>1, <2>2
  <2>5. x \in 0..(j - 1) /\ (x = 0 \/ x \notin S) /\ x + 1 \in S
    <3>1. j \in S /\ (i = 0 \/ i \notin S)
      BY <2>1, <2>3
    <3>2. Splits(S, j, x)
      BY ZenonT(40), <2>1, <2>4, <3>1, BetweenIs
    <3> QED
      BY <3>2 DEF Splits
  <2>6. x = 0 \/ x \notin A
    BY <2>3, <2>5
  <2>7. x + 1 \in A /\ x \in Nat
    BY <2>3, <2>5
  <2> QED
    BY <2>4, <2>6, <2>7 DEF Borders, A
<1>6. \A p \in D : /\ p[1] \in Nat /\ p[2] \in Nat \ {0}
                   /\ (p \in B <=> gone(p[2]) \/ 2 * p[2] > MaxInt)
                   /\ b[p] = (IF gone(p[2]) THEN here(p) ELSE linear)
                   /\ nx[p] = <<p[2], 2 * p[2]>>
  OBVIOUS
<1>7. MaxInt \in Nat
  BY LuaTableAssumption
<1>8. r \in [D -> Nat] /\ \A p \in D : r[p] = IF p[2] <= MaxInt THEN MaxInt + 1 - p[2] ELSE 0
  BY <1>7
<1>9. G \in SUBSET D /\ \A p \in D : p \in G <=> p[1] < p[2] /\ (p[1] = 0 \/ p[1] \notin A)
  OBVIOUS
<1>10. \A x, y \in Nat \ {0} : <<x, y>> \in D /\ <<x, y>>[1] = x /\ <<x, y>>[2] = y
  OBVIOUS
<1>11. <<from, from + 1>> \in G
  OBVIOUS
<1> HIDE DEF gone, linear, here, B, b, nx, r, G, A, D
<1>12. ASSUME NEW p \in D \ B
       PROVE  nx[p] \in D /\ r[nx[p]] < r[p] /\ nx[p][1] = p[2] /\ nx[p][2] = 2 * p[2]
  <2>1. PICK j \in Nat \ {0} : j = p[2]
    BY <1>6
  <2>2. ~(2 * j > MaxInt) /\ nx[p] = <<j, 2 * j>> /\ 2 * j \in Nat \ {0}
    BY <1>6, <2>1
  <2>3. nx[p] \in D /\ nx[p][1] = j /\ nx[p][2] = 2 * j
    BY <1>10, <2>2
  <2>4. r[nx[p]] = MaxInt + 1 - 2 * j /\ r[p] = MaxInt + 1 - j
    BY <1>7, <1>8, <2>1, <2>2, <2>3
  <2> QED
    BY <1>7, <2>1, <2>3, <2>4
<1>13. Search(D, B, b, nx, r)
  BY <1>8, <1>12 DEF Search
<1>14. PICK f : f = [p \in D |-> f[p]] /\ Searches(D, B, b, nx, f)
  BY <1>13, SearchExists
<1>15. f = [p \in D |-> IF gone(p[2]) THEN here(p) ELSE IF 2 * p[2] > MaxInt THEN linear
                        ELSE f[<<p[2], 2 * p[2]>>]]
  <2>1. ASSUME NEW p \in D
        PROVE  f[p] = IF gone(p[2]) THEN here(p) ELSE IF 2 * p[2] > MaxInt THEN linear
                      ELSE f[<<p[2], 2 * p[2]>>]
    <3>1. f[p] = IF p \in B THEN b[p] ELSE f[nx[p]]
      BY <1>14 DEF Searches
    <3> QED
      BY <1>6, <3>1
  <2> QED
    BY <1>14, <2>1
<1>16. up = [p \in D |-> IF gone(p[2]) THEN here(p) ELSE IF 2 * p[2] > MaxInt THEN linear
                         ELSE up[<<p[2], 2 * p[2]>>]]
  BY <1>15
<1> HIDE DEF up
<1>17. Searches(D, B, b, nx, up)
  <2> SUFFICES ASSUME NEW p \in D PROVE up[p] = IF p \in B THEN b[p] ELSE up[nx[p]]
    BY DEF Searches
  <2>1. up[p] = IF gone(p[2]) THEN here(p) ELSE IF 2 * p[2] > MaxInt THEN linear
                ELSE up[<<p[2], 2 * p[2]>>]
    BY <1>16
  <2> QED
    BY <1>6, <2>1
<1>18. Leads(G, B, b, nx, Borders(t))
  <2> SUFFICES ASSUME NEW p \in G PROVE IF p \in B THEN b[p] \in Borders(t) ELSE nx[p] \in G
    BY DEF Leads
  <2>1. p \in D
    BY <1>9
  <2>2. CASE p \in B
    BY <1>4, <1>5, <1>6, <2>1, <2>2
  <2>3. CASE p \notin B
    <3>1. nx[p] \in D /\ nx[p][1] = p[2] /\ nx[p][2] = 2 * p[2] /\ p[2] \in Nat \ {0}
      BY <1>6, <1>12, <2>1, <2>3
    <3>2. p[2] \notin A
      BY <1>1, <1>6, <2>1, <2>3
    <3>3. p[2] < 2 * p[2]
      BY <3>1
    <3>4. nx[p] \in G
      BY <1>9, <3>1, <3>2, <3>3
    <3> QED
      BY <2>3, <3>4
  <2> QED
    BY <2>2, <2>3
<1>19. \A p \in G : up[p] \in Borders(t)
  BY <1>9, <1>13, <1>17, <1>18, SearchEnds
<1> QED
  BY <1>0, <1>11, <1>19

\* luaH_getn returns a boundary of any table.
LEMMA GetNIs ==
    ASSUME NEW t, Good(t)
    PROVE  GetN(t) \in Borders(t)
<1> DEFINE size == SizeArray(t)
           S == {n \in 1..size : t.array[n] = Nil}
<1>0. t \in Table /\ size \in Nat /\ t.dummy \in BOOLEAN /\ t.node \in [DOMAIN t.node -> Node]
  BY TableFields DEF Good
<1>1. GetN(t) = IF size > 0 /\ t.array[size] = Nil THEN Between(S, 0, size)
                ELSE IF t.dummy THEN size ELSE UnboundSearch(t, size)
  BY DEF GetN
<1>2. \A n \in 1..size : n \in S <=> t.array[n] = Nil
  OBVIOUS
<1>3. S \subseteq 1..size
  OBVIOUS
<1>4. \A n \in 1..size : n \in Absent(t) <=> t.array[n] = Nil
  <2> SUFFICES ASSUME NEW n \in 1..size PROVE n \in Absent(t) <=> t.array[n] = Nil
    OBVIOUS
  <2>1. n \in Nat
    BY <1>0
  <2>2. CASE n \in IntKeys
    <3>1. InArray(t, n) /\ n \in Keys
      BY <2>2 DEF InArray, Keys
    <3>2. Get(t, n) = t.array[n]
      BY <3>1, GetIs
    <3> QED
      BY <2>1, <2>2, <3>2 DEF Absent
  <2>3. CASE n \notin IntKeys
    BY <2>1, <2>3 DEF Absent, Good
  <2> QED
    BY <2>2, <2>3
<1> HIDE DEF S, size
<1>5. CASE size > 0 /\ t.array[size] = Nil
  <2>1. PICK x : x = Between(S, 0, size) /\ x = GetN(t)
    BY <1>1, <1>5
  <2>2. x \in 0..(size - 1) /\ (x = 0 \/ x \notin S) /\ x + 1 \in S
    <3>1. 0 < size /\ size \in S /\ 0 \in Nat
      BY <1>0, <1>2, <1>5
    <3>2. Splits(S, size, x)
      BY <1>0, <2>1, <3>1, BetweenIs
    <3> QED
      BY <3>2 DEF Splits
  <2>3. x = 0 \/ x \notin Absent(t)
    BY <1>0, <1>2, <1>4, <2>2
  <2>4. x + 1 \in Absent(t) /\ x \in Nat
    BY <1>0, <1>2, <1>3, <1>4, <2>2
  <2> QED
    BY <2>1, <2>3, <2>4 DEF Borders
<1>6. CASE ~(size > 0 /\ t.array[size] = Nil)
  <2>1. size = 0 \/ size \notin Absent(t)
    BY <1>0, <1>4, <1>6
  <2>2. CASE ~t.dummy
    <3>1. GetN(t) = UnboundSearch(t, size)
      BY <1>1, <1>6, <2>2
    <3> QED
      BY <1>0, <2>1, <3>1, UnboundSearchIs
  <2>3. CASE t.dummy
    <3>1. \A i \in DOMAIN t.node : t.node[i] = EmptyNode
      BY <2>3 DEF Good, FreeBelow
    <3>2. \A k, w : w # Nil => ~Held(t, k, w)
      BY <3>1, EmptyIsNode DEF Held
    <3>3. size + 1 \in IntKeys => Get(t, size + 1) = Nil
      <4> SUFFICES ASSUME size + 1 \in IntKeys PROVE Get(t, size + 1) = Nil
        OBVIOUS
      <4>1. PICK k \in Keys : k = size + 1
        BY DEF Keys
      <4>2. ~InArray(t, k)
        BY <1>0, <4>1 DEF InArray, size
      <4>3. Get(t, k) = Nil
        BY <3>2, <4>2, GetIs
      <4> QED
        BY <4>1, <4>3
    <3>4. size + 1 \in Absent(t)
      BY <1>0, <3>3 DEF Absent
    <3>5. GetN(t) = size
      BY <1>1, <1>6, <2>3
    <3> QED
      BY <1>0, <2>1, <3>4, <3>5 DEF Borders
  <2> QED
    BY <2>2, <2>3
<1> QED
  BY <1>5, <1>6

\* luaH_getn returns a boundary whatever the array part, the chains of the hash
\* part and the failed resizes before it look like, and its two searches end.
THEOREM BorderAlways == Spec => []Border
<1>1. Safe => Border
  <2> SUFFICES ASSUME Safe PROVE Border
    OBVIOUS
  <2>1. PICK n : n = GetN(tab)
    OBVIOUS
  <2>2. n \in Nat /\ (n = 0 \/ n \notin Absent(tab)) /\ n + 1 \in Absent(tab)
    BY <2>1, GetNIs DEF Safe, Borders
  <2>3. n = 0 \/ (n \in IntKeys /\ Get(tab, n) # Nil)
    BY <2>2 DEF Absent
  <2>4. ~(n + 1 \in IntKeys /\ Get(tab, n + 1) # Nil)
    BY <2>2 DEF Absent
  <2> QED
    BY <2>1, <2>3, <2>4 DEF Border
<1>2. Safe /\ [Next]_vars => Safe'
  BY NextSafe
<1> QED
  BY InitSafe, <1>1, <1>2, PTL DEF Spec

-----------------------------------------------------------------------------
(* References.                                                             *)

\* F holds the free references: the list through t[FREELIST_REF] stays in F
\* and no two links lead to the same reference.
FreeList(F, t) ==
    /\ F \subseteq IntKeys \ {0}
    /\ \A f \in F \cup {0} : Get(t, f) \in F \cup {Nil}
    /\ \A f, g \in F \cup {0} : Get(t, f) # Nil /\ Get(t, f) = Get(t, g) => f = g

\* The references in lv are not free and read their values.
LiveRefs(F, lv, t) ==
    /\ lv \subseteq (IntKeys \ {0}) \X Values
    /\ \A e \in lv : Get(t, e[1]) = e[2] /\ e[1] \notin F

Refs ==
    /\ client = "lua" => live = {}
    /\ client = "ref" /\ ~torn => \E F : FreeList(F, tab) /\ LiveRefs(F, live, tab)

\* t1 is t after t[k] = v, or after the failed attempt at it.
Written(t, t1, k, v) == \A kk \in Keys : Get(t1, kk) = IF kk = k THEN v ELSE Get(t, kk)
Unwritten(t, t1) == \A kk \in Keys : Get(t1, kk) = Get(t, kk)

LEMMA AssignApart ==
    ASSUME NEW t, Good(t), Apart(t), NEW k \in Keys, NEW v \in V, NEW out, NEW r, r = Assign(t, k, v, out)
    PROVE  /\ Good(r.t) /\ r.res \in {"done", "error"}
           /\ r.res = "done" => Written(t, r.t, k, v) /\ Apart(r.t)
           /\ r.res = "error" /\ Apart(r.t) => Unwritten(t, r.t)
           /\ Get(t, k) # Nil => r.res = "done"
<1>1. Assigns(t, k, v, r)
  BY AssignIs
<1>2. \A kk \in Keys : Single(t, kk)
  BY SingleIs
<1>3. Good(r.t) /\ r.res \in {"done", "error"} /\ (Get(t, k) # Nil => r.res = "done")
  BY <1>1 DEF Assigns
<1>4. r.res = "done" => Written(t, r.t, k, v) /\ Apart(r.t)
  BY <1>1, <1>2 DEF Assigns, Written
<1>5. r.res = "error" /\ Apart(r.t) => Unwritten(t, r.t)
  BY <1>1 DEF Assigns, Unwritten
<1> QED
  BY <1>3, <1>4, <1>5

\* luaL_ref takes the first free reference off the list.
LEMMA PopFree ==
    ASSUME NEW F, NEW t, FreeList(F, t), NEW lv, LiveRefs(F, lv, t), NEW free \in F,
           Get(t, 0) = free, 0 \in IntKeys, NEW t1, Written(t, t1, 0, Get(t, free))
    PROVE  FreeList(F \ {free}, t1) /\ LiveRefs(F \ {free}, lv, t1) /\ \A e \in lv : e[1] # free
<1>1. F \subseteq IntKeys \ {0} /\ IntKeys \subseteq Keys /\ 0 \in Keys /\ free # 0 /\ Nil \notin IntKeys
  BY Constants, NilIsNoKey DEF FreeList
<1>2. Get(t1, 0) = Get(t, free) /\ \A f \in IntKeys \ {0} : Get(t1, f) = Get(t, f)
  BY <1>1 DEF Written
<1>3. \A f \in F : Get(t, f) # free
  BY <1>1 DEF FreeList
<1>4. \A f \in (F \ {free}) \cup {0} : Get(t1, f) \in (F \ {free}) \cup {Nil}
  BY <1>1, <1>2, <1>3 DEF FreeList
<1>5. ASSUME NEW f \in (F \ {free}) \cup {0}, NEW g \in (F \ {free}) \cup {0},
             Get(t1, f) # Nil, Get(t1, f) = Get(t1, g)
      PROVE  f = g
  <2>1. PICK a \in F : Get(t1, f) = Get(t, a) /\ a = IF f = 0 THEN free ELSE f
    BY <1>1, <1>2
  <2>2. PICK c \in F : Get(t1, g) = Get(t, c) /\ c = IF g = 0 THEN free ELSE g
    BY <1>1, <1>2
  <2>3. a = c
    BY <1>5, <2>1, <2>2 DEF FreeList
  <2> QED
    BY <2>1, <2>2, <2>3
<1>6. FreeList(F \ {free}, t1)
  BY <1>1, <1>4, <1>5 DEF FreeList
<1>7. LiveRefs(F \ {free}, lv, t1)
  <2> SUFFICES ASSUME NEW e \in lv PROVE Get(t1, e[1]) = e[2] /\ e[1] \notin F \ {free}
    BY DEF LiveRefs
  <2>1. e[1] \in IntKeys \ {0} /\ Get(t, e[1]) = e[2] /\ e[1] \notin F
    BY DEF LiveRefs
  <2> QED
    BY <1>2, <2>1
<1>8. \A e \in lv : e[1] # free
  BY DEF LiveRefs
<1> QED
  BY <1>6, <1>7, <1>8

\* A reference that is neither free nor in use gets the value v.
LEMMA TakeRef ==
    ASSUME NEW F, NEW t, FreeList(F, t), NEW lv, LiveRefs(F, lv, t), NEW ref \in IntKeys \ {0},
           ref \notin F, \A e \in lv : e[1] # ref, NEW v \in Values, 0 \in IntKeys,
           NEW t1, Written(t, t1, ref, v)
    PROVE  FreeList(F, t1) /\ LiveRefs(F, lv \cup {<<ref, v>>}, t1)
<1>1. F \subseteq IntKeys \ {0} /\ IntKeys \subseteq Keys /\ 0 \in Keys /\ ref # 0
  BY Constants DEF FreeList
<1>2. Get(t1, ref) = v /\ \A f \in IntKeys : f # ref => Get(t1, f) = Get(t, f)
  BY <1>1 DEF Written
<1>3. \A f \in F \cup {0} : Get(t1, f) = Get(t, f)
  BY <1>1, <1>2
<1>4. FreeList(F, t1)
  BY <1>1, <1>3 DEF FreeList
<1>5. ASSUME NEW e \in lv \cup {<<ref, v>>}
      PROVE  e \in (IntKeys \ {0}) \X Values /\ Get(t1, e[1]) = e[2] /\ e[1] \notin F
  <2>1. CASE e = <<ref, v>>
    BY <1>2, <2>1
  <2>2. CASE e \in lv
    <3>1. e \in (IntKeys \ {0}) \X Values /\ e[1] \in IntKeys /\ e[1] # ref
          /\ Get(t, e[1]) = e[2] /\ e[1] \notin F
      BY <2>2 DEF LiveRefs
    <3> QED
      BY <1>2, <3>1
  <2> QED
    BY <2>1, <2>2
<1>6. LiveRefs(F, lv \cup {<<ref, v>>}, t1)
  BY <1>5 DEF LiveRefs
<1> QED
  BY <1>4, <1>6

LEMMA SameRefs ==
    ASSUME NEW F, NEW t, FreeList(F, t), NEW lv, LiveRefs(F, lv, t), 0 \in IntKeys, NEW t1, Unwritten(t, t1)
    PROVE  FreeList(F, t1) /\ LiveRefs(F, lv, t1)
<1>1. F \subseteq IntKeys \ {0} /\ IntKeys \subseteq Keys /\ 0 \in Keys
  BY Constants DEF FreeList
<1>2. \A f \in IntKeys : Get(t1, f) = Get(t, f)
  BY <1>1 DEF Unwritten
<1>3. \A f \in F \cup {0} : Get(t1, f) = Get(t, f)
  BY <1>1, <1>2
<1>4. FreeList(F, t1)
  BY <1>1, <1>3 DEF FreeList
<1>5. LiveRefs(F, lv, t1)
  <2> SUFFICES ASSUME NEW e \in lv PROVE Get(t1, e[1]) = e[2] /\ e[1] \notin F
    BY DEF LiveRefs
  <2>1. e[1] \in IntKeys /\ Get(t, e[1]) = e[2] /\ e[1] \notin F
    BY DEF LiveRefs
  <2> QED
    BY <1>2, <2>1
<1> QED
  BY <1>4, <1>5

\* luaL_unref links a reference in front of the list: first t[ref] ...
LEMMA LinkRef ==
    ASSUME NEW F, NEW t, FreeList(F, t), NEW lv, LiveRefs(F, lv, t), NEW ref \in IntKeys \ {0},
           ref \notin F, 0 \in IntKeys, NEW t1, Written(t, t1, ref, Get(t, 0)),
           NEW rest, rest = {e \in lv : e[1] # ref}
    PROVE  /\ FreeList(F, t1) /\ LiveRefs(F, rest, t1) /\ Get(t1, ref) = Get(t1, 0)
           /\ \A e \in rest : e[1] # ref
<1>1. F \subseteq IntKeys \ {0} /\ IntKeys \subseteq Keys /\ 0 \in Keys /\ ref # 0
  BY Constants DEF FreeList
<1>2. Get(t1, ref) = Get(t, 0) /\ \A f \in IntKeys : f # ref => Get(t1, f) = Get(t, f)
  BY <1>1 DEF Written
<1>3. \A f \in F \cup {0} : Get(t1, f) = Get(t, f)
  BY <1>1, <1>2
<1>4. FreeList(F, t1)
  BY <1>1, <1>3 DEF FreeList
<1>5. \A e \in rest : e \in lv /\ e[1] # ref
  OBVIOUS
<1>6. ASSUME NEW e \in rest
      PROVE  e \in (IntKeys \ {0}) \X Values /\ Get(t1, e[1]) = e[2] /\ e[1] \notin F
  <2>1. e \in (IntKeys \ {0}) \X Values /\ e[1] \in IntKeys /\ e[1] # ref
        /\ Get(t, e[1]) = e[2] /\ e[1] \notin F
    BY <1>5 DEF LiveRefs
  <2> QED
    BY <1>2, <2>1
<1>7. LiveRefs(F, rest, t1)
  BY <1>6 DEF LiveRefs
<1> QED
  BY <1>2, <1>3, <1>4, <1>5, <1>7

\* ... and then t[FREELIST_REF].
LEMMA PushRef ==
    ASSUME NEW F, NEW t, FreeList(F, t), NEW lv, LiveRefs(F, lv, t), NEW ref \in IntKeys \ {0},
           ref \notin F, 0 \in IntKeys, Get(t, ref) = Get(t, 0), \A e \in lv : e[1] # ref,
           NEW t1, Written(t, t1, 0, ref)
    PROVE  FreeList(F \cup {ref}, t1) /\ LiveRefs(F \cup {ref}, lv, t1)
<1>1. F \subseteq IntKeys \ {0} /\ IntKeys \subseteq Keys /\ 0 \in Keys /\ ref # 0 /\ Nil \notin IntKeys
  BY Constants, NilIsNoKey DEF FreeList
<1>2. Get(t1, 0) = ref /\ \A f \in IntKeys : f # 0 => Get(t1, f) = Get(t, f)
  BY <1>1 DEF Written
<1>3. \A f \in F : Get(t1, f) = Get(t, f) /\ Get(t, f) \in F \cup {Nil} /\ Get(t, f) # ref
  BY <1>1, <1>2, NilIsNoKey DEF FreeList
<1>4. Get(t1, ref) = Get(t, 0) /\ Get(t, 0) \in F \cup {Nil} /\ Get(t, 0) # ref
  BY <1>1, <1>2, NilIsNoKey DEF FreeList
<1>5. \A f \in (F \cup {ref}) \cup {0} : Get(t1, f) \in (F \cup {ref}) \cup {Nil}
  BY <1>2, <1>3, <1>4
<1>6. \A f, g \in F \cup {0} : Get(t, f) # Nil /\ Get(t, f) = Get(t, g) => f = g
  BY DEF FreeList
<1>7. ASSUME NEW f \in (F \cup {ref}) \cup {0}, NEW g \in (F \cup {ref}) \cup {0},
             Get(t1, f) # Nil, Get(t1, f) = Get(t1, g)
      PROVE  f = g
  <2>1. CASE f = 0
    BY <1>2, <1>3, <1>4, <1>7, <2>1
  <2>2. CASE g = 0
    BY <1>2, <1>3, <1>4, <1>7, <2>2
  <2>3. CASE f # 0 /\ g # 0
    <3>1. PICK a \in F \cup {0} : Get(t1, f) = Get(t, a) /\ a = IF f = ref THEN 0 ELSE f
      BY <1>3, <1>4, <2>3
    <3>2. PICK c \in F \cup {0} : Get(t1, g) = Get(t, c) /\ c = IF g = ref THEN 0 ELSE g
      BY <1>3, <1>4, <2>3
    <3>3. a = c
      BY <1>6, <1>7, <3>1, <3>2
    <3> QED
      BY <2>3, <3>1, <3>2, <3>3
  <2> QED
    BY <2>1, <2>2, <2>3
<1>8. FreeList(F \cup {ref}, t1)
  BY <1>1, <1>5, <1>7 DEF FreeList
<1>9. LiveRefs(F \cup {ref}, lv, t1)
  <2> SUFFICES ASSUME NEW e \in lv PROVE Get(t1, e[1]) = e[2] /\ e[1] \notin F \cup {ref}
    BY DEF LiveRefs
  <2>1. e[1] \in IntKeys \ {0} /\ Get(t, e[1]) = e[2] /\ e[1] \notin F /\ e[1] # ref
    BY DEF LiveRefs
  <2> QED
    BY <1>2, <2>1
<1> QED
  BY <1>8, <1>9

LEMMA RefRefs ==
    ASSUME Safe, Refs, NEW v \in Values, NEW out \in Outs, Ref(v, out), ~torn'
    PROVE  \E F : FreeList(F, tab') /\ LiveRefs(F, live', tab')
<1>1. PICK free : free = ToInteger(Get(tab, FREELIST_REF))
  OBVIOUS
<1>2. PICK ref : ref = IF free # 0 THEN free ELSE GetN(tab) + 1
  OBVIOUS
<1>3. PICK popped : popped = Assign(tab, FREELIST_REF, Get(tab, free), "no")
  OBVIOUS
<1>4. PICK t : t = IF free # 0 THEN popped.t ELSE tab
  OBVIOUS
<1>5. PICK r : r = Assign(t, ref, v, out)
  OBVIOUS
<1>6. /\ client = "ref" /\ ref \in IntKeys /\ Change(r, out)
      /\ live' = IF r.res = "error" THEN live ELSE live \cup {<<ref, v>>}
  BY <1>1, <1>2, <1>3, <1>4, <1>5 DEF Ref
<1>7. FREELIST_REF \in Keys /\ Get(tab, free) \in V /\ ref \in Keys /\ v \in V /\ 0 \in IntKeys
  BY <1>1, <1>6, RefKeys, Constants DEF Safe
<1>8. Good(tab) /\ tab' = r.t /\ torn' = (torn \/ Hidden(r.t))
  BY <1>6 DEF Safe, Change
<1>9. ~torn /\ ~Hidden(r.t) /\ Apart(tab)
  BY <1>8 DEF Safe
<1>10. PICK F : FreeList(F, tab) /\ LiveRefs(F, live, tab)
  BY <1>6, <1>9 DEF Refs
<1>11. Get(tab, 0) \in F \cup {Nil} /\ F \subseteq IntKeys \ {0}
  BY <1>10 DEF FreeList
<1>12. \E F1 : /\ Good(t) /\ Apart(t) /\ FreeList(F1, t) /\ LiveRefs(F1, live, t)
               /\ ref \in IntKeys \ {0} /\ ref \notin F1 /\ \A e \in live : e[1] # ref
  <2>1. CASE Get(tab, 0) \in F
    <3>1. free = Get(tab, 0) /\ free \in F /\ free # 0 /\ ref = free /\ t = popped.t /\ free # Nil
      BY <1>1, <1>2, <1>4, <1>11, <2>1, NilIsNoKey DEF ToInteger, FREELIST_REF
    <3>2. /\ Good(t) /\ popped.res \in {"done", "error"}
          /\ popped.res = "done" => Written(tab, t, 0, Get(tab, free)) /\ Apart(t)
          /\ Get(tab, 0) # Nil => popped.res = "done"
      BY <1>3, <1>7, <1>8, <1>9, <3>1, AssignApart DEF FREELIST_REF
    <3>3. Apart(t) /\ Written(tab, t, 0, Get(tab, free))
      BY <3>1, <3>2
    <3>4. FreeList(F \ {free}, t) /\ LiveRefs(F \ {free}, live, t) /\ \A e \in live : e[1] # free
      BY <1>7, <1>10, <3>1, <3>3, PopFree
    <3> QED
      BY <1>11, <3>1, <3>2, <3>3, <3>4
  <2>2. CASE Get(tab, 0) = Nil
    <3>1. free = 0 /\ ref = GetN(tab) + 1 /\ t = tab
      BY <1>1, <1>2, <1>4, <2>2, NilIsNoKey DEF ToInteger, FREELIST_REF
    <3>2. GetN(tab) \in Nat /\ ref \in Absent(tab)
      BY <1>8, <3>1, GetNIs DEF Borders
    <3>3. Get(tab, ref) = Nil /\ ref # 0
      BY <1>6, <3>1, <3>2 DEF Absent
    <3>4. ASSUME NEW e \in live PROVE e[1] # ref
      <4>1. e[2] \in Values /\ Get(tab, e[1]) = e[2]
        BY <1>10 DEF LiveRefs
      <4> QED
        BY <3>3, <4>1, NilIsNoKey
    <3>5. FreeList({}, tab) /\ LiveRefs({}, live, tab)
      BY <1>10, <2>2 DEF FreeList, LiveRefs
    <3> QED
      BY <1>6, <1>8, <1>9, <3>1, <3>3, <3>4, <3>5
  <2> QED
    BY <1>11, <2>1, <2>2
<1>13. PICK F1 : /\ Good(t) /\ Apart(t) /\ FreeList(F1, t) /\ LiveRefs(F1, live, t)
                 /\ ref \in IntKeys \ {0} /\ ref \notin F1 /\ \A e \in live : e[1] # ref
  BY <1>12
<1>14. /\ Good(r.t) /\ r.res \in {"done", "error"}
       /\ r.res = "done" => Written(t, r.t, ref, v)
       /\ r.res = "error" /\ Apart(r.t) => Unwritten(t, r.t)
  BY <1>5, <1>7, <1>13, AssignApart
<1>15. CASE r.res = "done"
  <2>1. live' = live \cup {<<ref, v>>} /\ Written(t, r.t, ref, v)
    BY <1>6, <1>14, <1>15
  <2>2. FreeList(F1, r.t) /\ LiveRefs(F1, live \cup {<<ref, v>>}, r.t)
    BY <1>7, <1>13, <2>1, TakeRef
  <2> QED
    BY <1>8, <2>1, <2>2
<1>16. CASE r.res = "error"
  <2>1. Unwritten(t, r.t) /\ live' = live
    BY <1>6, <1>9, <1>14, <1>16, HiddenIs
  <2>2. FreeList(F1, r.t) /\ LiveRefs(F1, live, r.t)
    BY <1>7, <1>13, <2>1, SameRefs
  <2> QED
    BY <1>8, <2>1, <2>2
<1> QED
  BY <1>14, <1>15, <1>16

LEMMA UnrefRefs ==
    ASSUME Safe, Refs, NEW ref \in IntKeys, NEW out \in Outs, Unref(ref, out), ~torn'
    PROVE  \E F : FreeList(F, tab') /\ LiveRefs(F, live', tab')
<1>1. PICK linked : linked = Assign(tab, ref, Get(tab, FREELIST_REF), "no")
  OBVIOUS
<1>2. PICK r : r = Assign(linked.t, FREELIST_REF, ref, out)
  OBVIOUS
<1>3. /\ client = "ref" /\ Change(r, out)
      /\ \E v \in Values : <<ref, v>> \in live
      /\ live' = {e \in live : e[1] # ref}
  BY <1>1, <1>2 DEF Unref
<1>4. PICK v \in Values : <<ref, v>> \in live
  BY <1>3
<1>5. FREELIST_REF \in Keys /\ Get(tab, FREELIST_REF) \in V /\ ref \in Keys /\ ref \in V /\ 0 \in IntKeys
  BY <1>3, RefKeys, Constants DEF Safe
<1>6. Good(tab) /\ tab' = r.t /\ torn' = (torn \/ Hidden(r.t))
  BY <1>3 DEF Safe, Change
<1>7. ~torn /\ ~Hidden(r.t) /\ Apart(tab)
  BY <1>6 DEF Safe
<1>8. PICK F : FreeList(F, tab) /\ LiveRefs(F, live, tab)
  BY <1>3, <1>7 DEF Refs
<1>9. ref # 0 /\ Get(tab, ref) = v /\ ref \notin F
  <2>1. PICK e \in live : e = <<ref, v>>
    BY <1>4
  <2>2. e \in (IntKeys \ {0}) \X Values /\ Get(tab, e[1]) = e[2] /\ e[1] \notin F
    BY <1>8, <2>1 DEF LiveRefs
  <2> QED
    BY <2>1, <2>2
<1>10. PICK t : t = linked.t
  OBVIOUS
<1>11. Good(t) /\ Apart(t) /\ Written(tab, t, ref, Get(tab, 0))
  <2>1. /\ Good(t) /\ linked.res \in {"done", "error"}
        /\ linked.res = "done" => Written(tab, t, ref, Get(tab, FREELIST_REF)) /\ Apart(t)
        /\ Get(tab, ref) # Nil => linked.res = "done"
    BY <1>1, <1>5, <1>6, <1>7, <1>10, AssignApart
  <2> QED
    BY <1>9, <2>1, NilIsNoKey DEF FREELIST_REF
<1>12. PICK rest : rest = {e \in live : e[1] # ref}
  OBVIOUS
<1>13. /\ FreeList(F, t) /\ LiveRefs(F, rest, t) /\ Get(t, ref) = Get(t, 0)
       /\ \A e \in rest : e[1] # ref
  BY <1>5, <1>8, <1>9, <1>11, <1>12, LinkRef
<1>14. live' = rest
  BY <1>3, <1>12
<1>15. /\ Good(r.t) /\ r.res \in {"done", "error"}
       /\ r.res = "done" => Written(t, r.t, 0, ref)
       /\ r.res = "error" /\ Apart(r.t) => Unwritten(t, r.t)
  BY <1>2, <1>5, <1>10, <1>11, AssignApart DEF FREELIST_REF
<1>16. CASE r.res = "done"
  <2>1. FreeList(F \cup {ref}, r.t) /\ LiveRefs(F \cup {ref}, rest, r.t)
    BY <1>5, <1>9, <1>13, <1>15, <1>16, PushRef
  <2> QED
    BY <1>6, <1>14, <2>1
<1>17. CASE r.res = "error"
  <2>1. Unwritten(t, r.t)
    BY <1>7, <1>15, <1>17, HiddenIs
  <2>2. FreeList(F, r.t) /\ LiveRefs(F, rest, r.t)
    BY <1>5, <1>13, <2>1, SameRefs
  <2> QED
    BY <1>6, <1>14, <2>2
<1> QED
  BY <1>15, <1>16, <1>17

LEMMA InitRefs == Init => Refs
<1> SUFFICES ASSUME Init PROVE Refs
  OBVIOUS
<1>1. live = {} /\ torn = FALSE
  BY DEF Init
<1>2. ASSUME client = "ref" PROVE FreeList({}, tab) /\ LiveRefs({}, live, tab)
  <2>1. tab = New(0, 0)
    BY <1>2 DEF Init
  <2>2. 0 \in Keys
    BY <1>2, Constants DEF Init
  <2>3. Get(tab, 0) = Nil
    BY <2>1, <2>2, NewIs
  <2> QED
    BY <1>1, <2>3 DEF FreeList, LiveRefs
<1> QED
  BY <1>1, <1>2 DEF Refs

LEMMA NextRefs ==
    ASSUME Safe, Refs, [Next]_vars
    PROVE  Refs'
<1>1. CASE UNCHANGED <<client, live>> /\ client = "lua"
  BY <1>1 DEF Refs
<1>2. CASE UNCHANGED <<tab, client, torn, live>>
  BY <1>2 DEF Refs
<1>3. ASSUME NEW v \in Values, NEW out \in Outs, Ref(v, out) PROVE Refs'
  <2>1. client' = "ref"
    BY <1>3 DEF Ref
  <2>2. ~torn' => \E F : FreeList(F, tab') /\ LiveRefs(F, live', tab')
    BY <1>3, RefRefs
  <2> QED
    BY <2>1, <2>2 DEF Refs
<1>4. ASSUME NEW ref \in IntKeys, NEW out \in Outs, Unref(ref, out) PROVE Refs'
  <2>1. client' = "ref"
    BY <1>4 DEF Unref
  <2>2. ~torn' => \E F : FreeList(F, tab') /\ LiveRefs(F, live', tab')
    BY <1>4, UnrefRefs
  <2> QED
    BY <2>1, <2>2 DEF Refs
<1>5. ASSUME NEW k, NEW v, NEW out, Store(k, v, out) PROVE UNCHANGED <<client, live>> /\ client = "lua"
  BY <1>5 DEF Store
<1>6. ASSUME NEW n, NEW out, ResizeArray(n, out) PROVE UNCHANGED <<client, live>> /\ client = "lua"
  BY <1>6 DEF ResizeArray
<1>7. ASSUME NEW ks, Collect(ks) PROVE UNCHANGED <<client, live>> /\ client = "lua"
  BY <1>7 DEF Collect
<1>8. StepWalk \/ ForgetWalk \/ UNCHANGED vars => UNCHANGED <<tab, client, torn, live>>
  BY DEF StepWalk, ForgetWalk, vars
<1> QED
  BY <1>1, <1>2, <1>3, <1>4, <1>5, <1>6, <1>7, <1>8 DEF Next

\* luaL_ref never gives out a reference that is in use, and each one reads its
\* value until luaL_unref, also when an allocation fails half-way through
\* taking a reference off the list or putting one on it.
THEOREM RefsHoldAlways == Spec => []RefsHold
<1>1. Safe /\ Refs => RefsHold
  <2> SUFFICES ASSUME Safe, Refs, ~torn, NEW e \in live PROVE Get(tab, e[1]) = e[2]
    BY DEF RefsHold
  <2>1. client = "ref"
    BY Constants, LuaTableAssumption DEF Safe, Refs
  <2>2. PICK F : LiveRefs(F, live, tab)
    BY <2>1 DEF Refs
  <2> QED
    BY <2>2 DEF LiveRefs
<1>2. Safe /\ [Next]_vars => Safe'
  BY NextSafe
<1>3. Safe /\ Refs /\ [Next]_vars => Refs'
  BY NextRefs
<1> QED
  BY InitSafe, InitRefs, <1>1, <1>2, <1>3, PTL DEF Spec

-----------------------------------------------------------------------------
(* Traversal.                                                              *)

\* Of two nodes of a chain one comes after the other.
LEMMA ReachTotal ==
    ASSUME NEW D, NEW nd, NEW r \in [D -> Nat], Linked(D, nd, r), NEW m \in D,
           NEW i, Reach(D, nd, m, i), NEW j, Reach(D, nd, m, j), r[i] = r[j]
    PROVE  i = j
<1>1. i \in D /\ j \in D
  BY ReachRank
<1> DEFINE S == {x \in D : Reach(D, nd, x, j) \/ Reach(D, nd, j, x)}
<1>2. S \in SUBSET D /\ m \in S
  OBVIOUS
<1>3. ASSUME NEW x \in S, nd[x].next # NoNode PROVE nd[x].next \in S
  <2>1. PICK y \in D : y = nd[x].next
    BY <1>3 DEF Linked
  <2>2. x \in D
    OBVIOUS
  <2>3. CASE Reach(D, nd, j, x)
    <3>1. Reach(D, nd, j, y)
      BY <1>3, <2>1, <2>2, <2>3 DEF Reach, Closed
    <3> QED
      BY <2>1, <3>1
  <2>4. CASE Reach(D, nd, x, j) /\ x # j
    <3>1. Reach(D, nd, y, j)
      BY <2>1, <2>2, <2>4, ReachStep
    <3> QED
      BY <2>1, <3>1
  <2>5. CASE x = j
    <3>1. Reach(D, nd, j, x)
      BY <2>5, ReachSelf
    <3> QED
      BY <2>3, <3>1
  <2> QED
    BY <2>3, <2>4, <2>5
<1>4. i \in S
  <2>1. Closed(nd, S)
    BY <1>3 DEF Closed
  <2> HIDE DEF S
  <2> QED
    BY <1>2, <2>1 DEF Reach
<1>5. r[i] \in Nat /\ r[j] \in Nat
  BY <1>1
<1>6. CASE Reach(D, nd, i, j)
  <2>1. j = i \/ r[j] < r[i]
    BY <1>1, <1>6, ReachRank
  <2> QED
    BY <1>5, <2>1
<1>7. CASE Reach(D, nd, j, i)
  <2>1. i = j \/ r[i] < r[j]
    BY <1>1, <1>7, ReachRank
  <2> QED
    BY <1>5, <2>1
<1> QED
  BY <1>4, <1>6, <1>7

\* findindex finds the node of a field, not a dead key of the same object.
LEMMA FindsEntry ==
    ASSUME NEW t, Good(t), NEW n \in DOMAIN t.node, t.node[n].val # Nil, NEW k, k = t.node[n].key
    PROVE  k \in Keys /\ SearchChain(t, k, NodesOf(t, k)) = n
<1> DEFINE D == DOMAIN t.node
           M == NodesOf(t, k)
<1>1. t \in Table /\ Layout(D, t.node, Positions(t))
  BY DEF Good
<1>2. PICK r : Ranked(D, t.node, Positions(t), r)
  BY <1>1 DEF Layout
<1>3. r \in [D -> Nat] /\ Linked(D, t.node, r) /\ DeadLast(D, t.node, r) /\ Rooted(D, t.node, Positions(t))
      /\ Unique(D, t.node) /\ Clean(D, t.node)
  BY <1>2 DEF Ranked
<1>4. k \in Keys /\ k # Nil /\ ~t.node[n].dead
  <2>1. t.node[n] \in Node
    BY <1>1, TableFields
  <2>2. k # Nil /\ ~t.node[n].dead
    BY <1>3, EmptyIsNode DEF Clean
  <2> QED
    BY <2>1, <2>2, NodeFields
<1>5. D \subseteq Nat /\ MainPosition(t, k) \in D /\ Positions(t)[k] = MainPosition(t, k)
  BY <1>1, <1>4, TableFields, MainPositionType DEF Positions
<1>6. M \in SUBSET D /\ \A i : i \in M <=> i \in D /\ t.node[i].key = k
  BY DEF NodesOf
<1>7. n \in M /\ n # NoNode /\ Reach(D, t.node, MainPosition(t, k), n)
  BY <1>3, <1>4, <1>5, <1>6 DEF Rooted, NoNode
<1>8. PICK s : s = SearchChain(t, k, M)
  OBVIOUS
<1>9. Found(D, t.node, r, M, MainPosition(t, k), s)
  <2>1. D = DOMAIN t.node
    OBVIOUS
  <2> HIDE DEF D, M
  <2> QED
    BY <1>3, <1>5, <1>6, <1>8, <2>1, SearchChainFinds
<1>10. s \in M /\ r[n] <= r[s]
  BY <1>7, <1>9 DEF Found
<1>11. s \in D /\ t.node[s].key = k /\ r[s] \in Nat /\ r[n] \in Nat
  BY <1>3, <1>6, <1>10
<1>12. s = n
  <2> SUFFICES ASSUME s # n PROVE FALSE
    OBVIOUS
  <2>1. t.node[s].dead
    BY <1>3, <1>4, <1>11 DEF Unique
  <2>2. r[s] < r[n]
    BY <1>3, <1>4, <1>11, <2>1 DEF DeadLast
  <2> QED
    BY <1>10, <1>11, <2>2
<1> QED
  BY <1>4, <1>8, <1>12

\* findindex depends only on the keys and the links.
LEMMA SameFind ==
    ASSUME NEW t, Good(t), NEW u, Good(u), SameShape(t, u), NEW k \in Keys \cup {Nil}
    PROVE  FindIndex(u, k) = FindIndex(t, k)
<1> DEFINE D == DOMAIN t.node
           M == NodesOf(t, k)
<1>0. /\ SizeArray(u) = SizeArray(t) /\ DOMAIN u.node = D
      /\ \A i \in D : u.node[i].key = t.node[i].key /\ u.node[i].next = t.node[i].next
  BY DEF SameShape
<1>1. InArray(u, k) <=> InArray(t, k)
  BY <1>0 DEF InArray
<1>2. CASE k = Nil
  BY <1>2 DEF FindIndex
<1>3. CASE k # Nil
  <2>1. k \in Keys /\ t \in Table /\ Layout(D, t.node, Positions(t))
    BY <1>3 DEF Good
  <2>2. PICK r : Ranked(D, t.node, Positions(t), r)
    BY <2>1 DEF Layout
  <2>3. r \in [D -> Nat] /\ Linked(D, t.node, r)
    BY <2>2 DEF Ranked
  <2>4. PICK m \in D : m = MainPosition(t, k) /\ m = MainPosition(u, k)
    BY <1>0, <2>1, MainPositionType, SamePositions
  <2>5. NodesOf(u, k) = M /\ M \in SUBSET D /\ D \subseteq Nat
    BY <1>0, <2>1, TableFields DEF NodesOf
  <2>6. Linked(D, u.node, r)
    BY <1>0, <2>3 DEF Linked
  <2>7. \A x, i : Reach(D, u.node, x, i) <=> Reach(D, t.node, x, i)
    <3>1. \A S \in SUBSET D : Closed(u.node, S) <=> Closed(t.node, S)
      BY <1>0 DEF Closed
    <3> QED
      BY <3>1 DEF Reach
  <2>8. PICK a, c : a = SearchChain(t, k, M) /\ c = SearchChain(u, k, M)
    OBVIOUS
  <2>9. D = DOMAIN t.node /\ D = DOMAIN u.node
    BY <1>0
  <2> HIDE DEF D, M
  <2>10. Found(D, t.node, r, M, m, a)
    BY <2>3, <2>4, <2>5, <2>8, <2>9, SearchChainFinds
  <2>11. Found(D, u.node, r, M, m, c)
    BY <2>3, <2>4, <2>5, <2>6, <2>8, <2>9, SearchChainFinds
  <2>12. Found(D, t.node, r, M, m, c)
    BY <2>7, <2>11 DEF Found
  <2>13. a = c
    <3>1. NoNode \notin M
      BY <2>5 DEF NoNode
    <3>2. CASE a = NoNode \/ c = NoNode
      BY <2>10, <2>12, <3>1, <3>2 DEF Found
    <3>3. CASE a # NoNode /\ c # NoNode
      <4>1. /\ a \in M /\ Reach(D, t.node, m, a) /\ c \in M /\ Reach(D, t.node, m, c)
            /\ r[a] <= r[c] /\ r[c] <= r[a]
        BY <2>10, <2>12, <3>3 DEF Found
      <4>2. r[a] = r[c]
        BY <2>3, <2>5, <4>1
      <4> QED
        BY <2>3, <4>1, <4>2, ReachTotal
    <3> QED
      BY <3>2, <3>3
  <2>14. FindIndex(t, k) = IF InArray(t, k) THEN k ELSE IF a = NoNode THEN -1 ELSE SizeArray(t) + a + 1
    BY <1>3, <2>8 DEF FindIndex, M
  <2>15. FindIndex(u, k) = IF InArray(u, k) THEN k ELSE IF c = NoNode THEN -1 ELSE SizeArray(u) + c + 1
    BY <1>3, <2>5, <2>8 DEF FindIndex
  <2> QED
    BY <1>0, <1>1, <2>13, <2>14, <2>15
<1> QED
  BY <1>2, <1>3

Places(t) == 1..(SizeArray(t) + SizeNode(t))

\* A position with a value is where findindex finds its key ...
LEMMA EntryAt ==
    ASSUME NEW t, Good(t), Apart(t), NEW p \in Places(t), ValueAt(t, p) # Nil
    PROVE  KeyAt(t, p) \in Keys /\ FindIndex(t, KeyAt(t, p)) = p
<1>1. /\ SizeArray(t) \in Nat /\ SizeNode(t) \in Nat \ {0} /\ DOMAIN t.node = 0..(SizeNode(t) - 1)
      /\ t.node \in [DOMAIN t.node -> Node]
  BY TableFields DEF Good
<1>2. p \in 1..(SizeArray(t) + SizeNode(t))
  BY DEF Places
<1>3. CASE p <= SizeArray(t)
  <2>1. p \in 1..SizeArray(t) /\ t.array[p] # Nil /\ KeyAt(t, p) = p
    BY <1>1, <1>2, <1>3 DEF ValueAt, KeyAt
  <2>2. p \in IntKeys /\ InArray(t, p) /\ p \in Keys /\ p # Nil
    BY <2>1, NilIsNoKey DEF Good, InArray, Keys
  <2> QED
    BY <2>1, <2>2 DEF FindIndex
<1>4. CASE ~(p <= SizeArray(t))
  <2>1. PICK n \in DOMAIN t.node : n = p - SizeArray(t) - 1
    BY <1>1, <1>2, <1>4
  <2>2. PICK k : k = t.node[n].key /\ k = KeyAt(t, p)
    BY <1>4, <2>1 DEF KeyAt
  <2>3. t.node[n].val # Nil
    BY <1>4, <2>1 DEF ValueAt
  <2>4. k \in Keys /\ SearchChain(t, k, NodesOf(t, k)) = n
    BY <2>2, <2>3, FindsEntry
  <2>5. ~InArray(t, k)
    <3>1. t.node[n].val \in V \ {Nil} /\ Held(t, k, t.node[n].val)
      BY <1>1, <2>2, <2>3, NodeFields DEF Held
    <3> QED
      BY <3>1 DEF Apart
  <2>6. FindIndex(t, k) = SizeArray(t) + n + 1
    BY <1>1, <2>4, <2>5, NilIsNoKey DEF FindIndex, NoNode
  <2> QED
    BY <1>1, <1>2, <2>1, <2>2, <2>4, <2>6
<1> QED
  BY <1>3, <1>4

\* ... and every field has one.
LEMMA FieldAt ==
    ASSUME NEW t, Good(t), Apart(t), NEW k \in Keys, Get(t, k) # Nil
    PROVE  /\ FindIndex(t, k) \in Places(t) /\ ValueAt(t, FindIndex(t, k)) # Nil
           /\ KeyAt(t, FindIndex(t, k)) = k
<1>1. /\ SizeArray(t) \in Nat /\ SizeNode(t) \in Nat \ {0} /\ DOMAIN t.node = 0..(SizeNode(t) - 1)
      /\ t.node \in [DOMAIN t.node -> Node]
  BY TableFields DEF Good
<1>2. \E p \in Places(t) : ValueAt(t, p) # Nil /\ KeyAt(t, p) = k
  <2>1. CASE InArray(t, k)
    <3>1. k \in 1..SizeArray(t) /\ t.array[k] # Nil
      BY <2>1, GetIs DEF InArray
    <3>2. k \in Places(t) /\ k <= SizeArray(t)
      BY <1>1, <3>1 DEF Places
    <3> QED
      BY <3>1, <3>2 DEF ValueAt, KeyAt
  <2>2. CASE ~InArray(t, k)
    <3>1. PICK n \in DOMAIN t.node : t.node[n].key = k /\ t.node[n].val # Nil
      BY <2>2, GetIs DEF Held
    <3>2. PICK p : p = SizeArray(t) + n + 1
      OBVIOUS
    <3>3. p \in Places(t) /\ ~(p <= SizeArray(t)) /\ p - SizeArray(t) - 1 = n
      BY <1>1, <3>2 DEF Places
    <3> QED
      BY <3>1, <3>3 DEF ValueAt, KeyAt
  <2> QED
    BY <2>1, <2>2
<1>3. PICK p \in Places(t) : ValueAt(t, p) # Nil /\ KeyAt(t, p) = k
  BY <1>2
<1>4. FindIndex(t, k) = p
  BY <1>3, EntryAt
<1> QED
  BY <1>3, <1>4

\* The fields of a table, and where findindex finds each key.
Fields(t) == {k \in Keys : Get(t, k) # Nil}
Indexes(t) == [x \in Keys \cup {Nil} |-> FindIndex(t, x)]

LEMMA IndexesIs ==
    ASSUME NEW t
    PROVE  \A x \in Keys \cup {Nil} : Indexes(t)[x] = FindIndex(t, x)
BY DEF Indexes

\* The traversal w, with q the positions of the keys among 1..n and P the
\* fields, went upwards and passed over no field.
Walks(q, n, P, w) ==
    /\ w \in Seq(Keys \cup {Nil})
    /\ \A i \in 1..Len(w) : w[i] = Nil => i = Len(w)
    /\ \A i \in 1..Len(w) : w[i] \in Keys => q[w[i]] \in 1..n
    /\ \A i, j \in 1..Len(w) : i < j /\ w[j] \in Keys => q[w[i]] < q[w[j]]
    /\ w # << >> => \A k \in P :
           w[Len(w)] = Nil \/ q[k] <= q[w[Len(w)]] => \E i \in 1..Len(w) : w[i] = k

\* What luaH_next returns after a traversal that has come to position at.
Follows(q, n, P, at, x) ==
    \/ x = Nil /\ \A k \in P : q[k] <= at
    \/ /\ x \in Keys /\ q[x] \in 1..n /\ at < q[x]
       /\ \A k \in P : q[k] > at => q[x] <= q[k]
       /\ \A k \in P : q[k] = q[x] => k = x

At(q, w) == IF w = << >> THEN 0 ELSE q[w[Len(w)]]

LEMMA WalksOn ==
    ASSUME NEW q, NEW n \in Nat, NEW P \in SUBSET Keys, \A k \in P : q[k] \in 1..n,
           NEW w, Walks(q, n, P, w), w # << >> => w[Len(w)] \in Keys,
           NEW x, Follows(q, n, P, At(q, w), x)
    PROVE  Walks(q, n, P, Append(w, x))
<1> DEFINE m == Len(w)
           u == Append(w, x)
<1>1. w \in Seq(Keys \cup {Nil}) /\ x \in Keys \cup {Nil} /\ m \in Nat /\ Nil \notin Keys
  BY NilIsNoKey, LenProperties DEF Walks, Follows
<1>2. /\ u \in Seq(Keys \cup {Nil}) /\ Len(u) = m + 1 /\ u[m + 1] = x
      /\ \A i \in 1..m : u[i] = w[i]
      /\ (w = << >> <=> m = 0) /\ u # << >>
  BY <1>1, AppendProperties, EmptySeq
<1>3. PICK at : at = At(q, w)
  OBVIOUS
<1>4. m # 0 => at = q[w[m]] /\ w[m] \in Keys /\ at \in 1..n
  BY <1>1, <1>2, <1>3 DEF At, Walks
<1>5. at \in Nat /\ (m = 0 => at = 0)
  BY <1>1, <1>2, <1>3, <1>4 DEF At
<1>6. Follows(q, n, P, at, x)
  BY <1>3
<1> HIDE DEF u
<1>7. \A i \in 1..m : w[i] \in Keys /\ q[w[i]] \in 1..n /\ q[w[i]] <= at
  <2> SUFFICES ASSUME NEW i \in 1..m PROVE w[i] \in Keys /\ q[w[i]] \in 1..n /\ q[w[i]] <= at
    OBVIOUS
  <2>1. w[i] \in Keys
    <3>1. w[i] \in Keys \cup {Nil}
      BY <1>1, ElementOfSeq
    <3>2. w[i] = Nil => i = m
      BY DEF Walks
    <3> QED
      BY <1>1, <1>4, <3>1, <3>2
  <2>2. q[w[i]] \in 1..n
    BY <2>1 DEF Walks
  <2>3. CASE i = m
    BY <1>1, <1>4, <1>5, <2>1, <2>2, <2>3
  <2>4. CASE i < m
    <3>1. q[w[i]] < q[w[m]]
      BY <1>1, <1>4, <2>4 DEF Walks
    <3> QED
      BY <1>1, <1>4, <2>1, <2>2, <2>4, <3>1
  <2> QED
    BY <1>1, <2>3, <2>4
<1>8. \A i \in 1..Len(u) : u[i] = Nil => i = Len(u)
  BY <1>1, <1>2, <1>7
<1>9. \A i \in 1..Len(u) : u[i] \in Keys => q[u[i]] \in 1..n
  <2>1. x \in Keys => q[x] \in 1..n
    BY <1>1, <1>6 DEF Follows
  <2> QED
    BY <1>1, <1>2, <1>7, <2>1
<1>10. \A i, j \in 1..Len(u) : i < j /\ u[j] \in Keys => q[u[i]] < q[u[j]]
  <2> SUFFICES ASSUME NEW i \in 1..(m + 1), NEW j \in 1..(m + 1), i < j, u[j] \in Keys
               PROVE  q[u[i]] < q[u[j]]
    BY <1>2
  <2>1. i \in 1..m /\ u[i] = w[i]
    BY <1>1, <1>2
  <2>2. CASE j = m + 1
    <3>1. q[x] \in 1..n /\ at < q[x]
      BY <1>1, <1>2, <1>6, <2>2 DEF Follows
    <3>2. q[w[i]] \in 1..n /\ q[w[i]] <= at
      BY <1>7, <2>1
    <3> QED
      BY <1>2, <1>5, <2>1, <2>2, <3>1, <3>2
  <2>3. CASE j # m + 1
    <3>1. j \in 1..m /\ u[j] = w[j]
      BY <1>1, <1>2, <2>3
    <3> QED
      BY <2>1, <3>1 DEF Walks
  <2> QED
    BY <2>2, <2>3
<1>11. ASSUME NEW k \in P, x = Nil \/ q[k] <= q[x] PROVE \E i \in 1..Len(u) : u[i] = k
  <2>0. q[k] \in 1..n
    OBVIOUS
  <2>1. CASE q[k] <= at
    <3>1. m # 0
      BY <1>5, <2>0, <2>1
    <3>2. PICK i \in 1..m : w[i] = k
      BY <1>2, <1>4, <2>1, <3>1 DEF Walks
    <3> QED
      BY <1>1, <1>2, <3>2
  <2>2. CASE ~(q[k] <= at)
    <3>1. x \in Keys /\ q[x] \in 1..n /\ q[x] <= q[k] /\ (q[k] = q[x] => k = x)
      BY <1>5, <1>6, <2>0, <2>2 DEF Follows
    <3>2. k = x
      BY <1>1, <1>11, <2>0, <3>1
    <3> QED
      BY <1>1, <1>2, <3>2
  <2> QED
    BY <2>1, <2>2
<1>12. \A k \in P : u[Len(u)] = Nil \/ q[k] <= q[u[Len(u)]] => \E i \in 1..Len(u) : u[i] = k
  BY <1>2, <1>11
<1> QED
  BY <1>2, <1>8, <1>9, <1>10, <1>12 DEF Walks, u

\* luaH_next returns the field at the next position that has one.
LEMMA NextKeyIs ==
    ASSUME NEW t, Good(t), Apart(t), NEW k \in Keys \cup {Nil},
           NEW at, at = FindIndex(t, k), at \in Nat
    PROVE  Follows(Indexes(t), SizeArray(t) + SizeNode(t), Fields(t), at, NextKey(t, k))
<1>1. PICK n \in Nat : n = SizeArray(t) + SizeNode(t) /\ Places(t) = 1..n
  BY TableFields DEF Good, Places
<1>2. PICK q : q = Indexes(t) /\ \A x \in Keys \cup {Nil} : q[x] = FindIndex(t, x)
  BY IndexesIs
<1>3. PICK later : later = {p \in (at + 1)..n : ValueAt(t, p) # Nil}
  OBVIOUS
<1>4. PICK x : x = NextKey(t, k)
  OBVIOUS
<1>5. x = IF later = {} THEN Nil ELSE KeyAt(t, Lower(later))
  BY <1>1, <1>3, <1>4 DEF NextKey
<1>6. \A kk \in Fields(t) : kk \in Keys /\ q[kk] \in 1..n /\ KeyAt(t, q[kk]) = kk
                            /\ (q[kk] > at => q[kk] \in later)
  <2> SUFFICES ASSUME NEW kk \in Keys, Get(t, kk) # Nil
               PROVE  q[kk] \in 1..n /\ KeyAt(t, q[kk]) = kk /\ (q[kk] > at => q[kk] \in later)
    BY DEF Fields
  <2>1. q[kk] \in 1..n /\ ValueAt(t, q[kk]) # Nil /\ KeyAt(t, q[kk]) = kk
    BY <1>1, <1>2, FieldAt
  <2> QED
    BY <1>1, <1>3, <2>1
<1>7. CASE later = {}
  <2>1. x = Nil
    BY <1>5, <1>7
  <2>2. \A kk \in Fields(t) : q[kk] <= at
    BY <1>1, <1>6, <1>7
  <2> QED
    BY <1>1, <1>2, <1>4, <2>1, <2>2 DEF Follows
<1>8. CASE later # {}
  <2>1. later \subseteq Nat
    BY <1>3
  <2>2. PICK p \in later : p = Lower(later) /\ \A y \in later : p <= y
    BY <1>8, <2>1, LowerIs
  <2>3. p \in Places(t) /\ p \in 1..n /\ at < p /\ ValueAt(t, p) # Nil
    BY <1>1, <1>3, <2>2
  <2>4. x \in Keys /\ q[x] = p /\ x = KeyAt(t, p)
    BY <1>2, <1>5, <1>8, <2>2, <2>3, EntryAt
  <2>5. \A kk \in Fields(t) : q[kk] > at => p <= q[kk]
    BY <1>6, <2>2
  <2>6. \A kk \in Fields(t) : q[kk] = p => kk = x
    BY <1>6, <2>4
  <2> QED
    BY <1>1, <1>2, <1>4, <2>3, <2>4, <2>5, <2>6 DEF Follows
<1> QED
  BY <1>7, <1>8

Exact(P, w) ==
    LET seen == {w[i] : i \in 1..Len(w)}
    IN  Cardinality(seen) = Len(w) /\ Lost \notin seen /\ (Nil \in seen => P \subseteq seen)

LEMMA WalkSeen ==
    ASSUME NEW q, NEW n \in Nat, NEW P, NEW w, Walks(q, n, P, w)
    PROVE  Exact(P, w)
<1>0. PICK seen : seen = {w[i] : i \in 1..Len(w)}
  OBVIOUS
<1> DEFINE m == Len(w)
<1>1. w \in Seq(Keys \cup {Nil}) /\ m \in Nat /\ w \in [1..m -> Keys \cup {Nil}]
  BY LenProperties DEF Walks
<1>2. \A i \in 1..m : w[i] \in Keys \cup {Nil} /\ (i # m => w[i] \in Keys)
  BY <1>1 DEF Walks
<1>3. ASSUME NEW i \in 1..m, NEW j \in 1..m, i < j PROVE w[i] # w[j]
  <2>0. i # m
    <3>1. PICK l \in Nat : l = m
      BY <1>1
    <3> QED
      BY <1>3, <3>1
  <2>1. w[i] \in Keys
    BY <1>2, <2>0
  <2>4. q[w[i]] \in 1..n
    BY <2>1 DEF Walks
  <2>2. CASE w[j] \in Keys
    <3>1. q[w[i]] < q[w[j]] /\ q[w[j]] \in 1..n
      BY <1>3, <2>2 DEF Walks
    <3> QED
      BY <2>4, <3>1
  <2>3. CASE w[j] = Nil
    BY <2>1, <2>3, NilIsNoKey
  <2> QED
    BY <1>2, <2>2, <2>3
<1>4. \A i, j \in 1..m : w[i] = w[j] => i = j
  <2> SUFFICES ASSUME NEW i \in 1..m, NEW j \in 1..m, w[i] = w[j], i # j PROVE FALSE
    OBVIOUS
  <2>1. i < j \/ j < i
    BY <1>1
  <2> QED
    BY <1>3, <2>1
<1>5. Cardinality(seen) = m
  <2>1. PICK f : f = [i \in 1..m |-> w[i]]
    OBVIOUS
  <2>2. f \in [1..m -> seen] /\ \A i \in 1..m : f[i] = w[i]
    BY <1>0, <2>1
  <2>3. f \in Surjection(1..m, seen)
    BY <1>0, <2>2 DEF Surjection
  <2>4. f \in Injection(1..m, seen)
    BY <1>4, <2>2 DEF Injection, IsInjective
  <2>5. IsFiniteSet(1..m) /\ Cardinality(1..m) = m
    <3>1. m \in Int /\ (1 > m => m = 0) /\ (~(1 > m) => m - 1 + 1 = m)
      BY <1>1
    <3>2. IsFiniteSet(1..m) /\ Cardinality(1..m) = IF 1 > m THEN 0 ELSE m - 1 + 1
      BY <3>1, FS_Interval
    <3> QED
      BY <3>1, <3>2
  <2>6. Cardinality(seen) = Cardinality(1..m)
    BY <2>3, <2>4, <2>5, FS_Surjection
  <2> QED
    BY <2>5, <2>6
<1>6. Lost \notin seen
  <2>1. Lost \notin Keys \cup {Nil}
    BY LuaTableAssumption DEF Lost, Keys
  <2> QED
    BY <1>0, <1>2, <2>1
<1>7. ASSUME Nil \in seen PROVE P \subseteq seen
  <2>1. PICK i \in 1..m : w[i] = Nil
    BY <1>0, <1>7
  <2>2. w[m] = Nil /\ w # << >>
    <3>1. i = m
      BY <2>1 DEF Walks
    <3>2. m # 0
      BY <1>1
    <3> QED
      BY <1>1, <2>1, <3>1, <3>2, EmptySeq
  <2>3. \A k \in P : \E j \in 1..m : w[j] = k
    BY <2>2 DEF Walks
  <2> QED
    BY <1>0, <2>3
<1> QED
  BY <1>0, <1>5, <1>6, <1>7, Zenon DEF Exact

\* The traversal of a table.
Walking(t, w) == Walks(Indexes(t), SizeArray(t) + SizeNode(t), Fields(t), w)

LEMMA EmptyWalk == \A t : Walking(t, << >>)
<1>1. << >> \in Seq(Keys \cup {Nil}) /\ Len(<< >>) = 0 /\ 1..0 = {}
  OBVIOUS
<1> QED
  BY <1>1 DEF Walking, Walks

\* Clearing fields and assigning to existing ones leaves a traversal in place.
LEMMA SameWalk ==
    ASSUME NEW t, Good(t), NEW u, Good(u), SameShape(t, u), Fields(u) \subseteq Fields(t),
           NEW w, Walking(t, w)
    PROVE  Walking(u, w)
<1>1. Indexes(u) = Indexes(t)
  BY SameFind DEF Indexes
<1>2. SizeArray(u) = SizeArray(t) /\ SizeNode(u) = SizeNode(t)
  BY DEF SameShape, SizeNode
<1>3. PICK q, n, P, Q : q = Indexes(t) /\ n = SizeArray(t) + SizeNode(t) /\ P = Fields(t) /\ Q = Fields(u)
  OBVIOUS
<1>4. Walks(q, n, P, w) /\ Q \subseteq P
  BY <1>3 DEF Walking
<1>5. Walks(q, n, Q, w)
  BY <1>4 DEF Walks
<1> QED
  BY <1>1, <1>2, <1>3, <1>5 DEF Walking

Tracks ==
    /\ client = "ref" => walk = << >>
    /\ ~torn => Walking(tab, walk)

LEMMA StepWalkTracks ==
    ASSUME Safe, Tracks, StepWalk
    PROVE  Tracks'
<1>1. PICK x : x = NextKey(tab, IF walk = << >> THEN Nil ELSE walk[Len(walk)])
  OBVIOUS
<1>2. /\ client = "lua" /\ client' = client /\ tab' = tab /\ torn' = torn
      /\ walk' = Append(walk, x) /\ ~WalkEnded
  BY <1>1 DEF StepWalk
<1>3. client' # "ref"
  BY <1>2
<1>4. ASSUME ~torn' PROVE Walking(tab', walk')
  <2>1. PICK t, w : t = tab /\ w = walk /\ tab' = t /\ walk' = Append(w, x)
    BY <1>2
  <2>2. Good(t) /\ Apart(t) /\ Walking(t, w)
    BY <1>2, <1>4, <2>1 DEF Safe, Tracks
  <2>3. PICK q : q = Indexes(t) /\ \A k \in Keys \cup {Nil} : q[k] = FindIndex(t, k)
    BY IndexesIs
  <2>4. PICK n \in Nat : n = SizeArray(t) + SizeNode(t) /\ Places(t) = 1..n
    BY <2>2, TableFields DEF Good, Places
  <2>5. PICK P \in SUBSET Keys : P = Fields(t)
    BY DEF Fields
  <2>6. Walks(q, n, P, w)
    BY <2>2, <2>3, <2>4, <2>5 DEF Walking
  <2>7. \A k \in P : q[k] \in 1..n
    BY <2>2, <2>3, <2>4, <2>5, FieldAt DEF Fields
  <2>8. w # << >> => Len(w) \in 1..Len(w) /\ w[Len(w)] \in Keys
    <3> SUFFICES ASSUME w # << >> PROVE Len(w) \in 1..Len(w) /\ w[Len(w)] \in Keys
      OBVIOUS
    <3>1. w \in Seq(Keys \cup {Nil})
      BY <2>6 DEF Walks
    <3>2. Len(w) \in 1..Len(w)
      BY <3>1, EmptySeq, LenProperties
    <3>3. w[Len(w)] # Nil
      BY <1>2, <2>1 DEF WalkEnded
    <3> QED
      BY <3>1, <3>2, <3>3, ElementOfSeq
  <2>9. PICK k \in Keys \cup {Nil} : k = IF w = << >> THEN Nil ELSE w[Len(w)]
    BY <2>8
  <2>10. q[k] = At(q, w) /\ q[k] \in Nat
    <3>1. CASE w = << >>
      BY <2>3, <2>9, <3>1 DEF At, FindIndex
    <3>2. CASE w # << >>
      <4>1. k = w[Len(w)] /\ q[k] = At(q, w)
        BY <2>9, <3>2 DEF At
      <4>2. q[w[Len(w)]] \in 1..n
        BY <2>6, <2>8, <3>2 DEF Walks
      <4> QED
        BY <4>1, <4>2
    <3> QED
      BY <3>1, <3>2
  <2>11. x = NextKey(t, k)
    BY <1>1, <2>1, <2>9
  <2>12. PICK at \in Nat : at = FindIndex(t, k) /\ at = At(q, w)
    BY <2>3, <2>10
  <2>13. Follows(q, n, P, at, x)
    BY <2>2, <2>3, <2>4, <2>5, <2>11, <2>12, NextKeyIs
  <2>14. Walks(q, n, P, Append(w, x))
    BY <2>6, <2>7, <2>8, <2>12, <2>13, WalksOn
  <2> QED
    BY <2>1, <2>3, <2>4, <2>5, <2>14 DEF Walking
<1> QED
  BY <1>3, <1>4 DEF Tracks

LEMMA StoreTracks ==
    ASSUME Safe, Tracks,
           NEW k \in LuaKeys, NEW v \in LuaValues[k] \cup {Nil}, NEW out \in Outs, Store(k, v, out)
    PROVE  Tracks'
<1>1. k \in Keys /\ v \in V
  BY Constants
<1>2. PICK r : r = Assign(tab, k, v, out)
  OBVIOUS
<1>3. /\ client = "lua" /\ client' = client /\ Change(r, out) /\ walk' = walk
      /\ walk # << >> => Get(tab, k) # Nil
  BY <1>2 DEF Store
<1>4. Assigns(tab, k, v, r)
  BY <1>1, <1>2, AssignIs DEF Safe
<1>5. Good(r.t) /\ r.res \in {"done", "error"}
  BY <1>4 DEF Assigns
<1>6. tab' = r.t /\ (~torn' => ~torn)
  BY <1>3, <1>5, ChangeSafe
<1>7. CASE walk = << >>
  BY <1>3, <1>7, EmptyWalk DEF Tracks
<1>8. CASE walk # << >> /\ ~torn'
  <2>1. Good(tab) /\ Apart(tab) /\ Walking(tab, walk)
    BY <1>6, <1>8 DEF Safe, Tracks
  <2>2. Get(tab, k) # Nil
    BY <1>3, <1>8
  <2>3. r.res = "done" /\ SameShape(tab, r.t)
    BY <1>4, <2>2 DEF Assigns
  <2>4. \A kk \in Keys : kk # k => Get(r.t, kk) = Get(tab, kk)
    BY <1>4, <2>1, <2>3, SingleIs DEF Assigns
  <2>5. Fields(r.t) \subseteq Fields(tab)
    BY <2>2, <2>4 DEF Fields
  <2>6. Walking(r.t, walk)
    BY <1>5, <2>1, <2>3, <2>5, SameWalk
  <2>7. Walking(tab', walk')
    BY <1>3, <1>6, <2>6
  <2> QED
    BY <1>3, <2>7 DEF Tracks
<1>9. CASE torn'
  BY <1>3, <1>9 DEF Tracks
<1> QED
  BY <1>7, <1>8, <1>9

LEMMA NextTracks ==
    ASSUME Safe, Tracks, [Next]_vars
    PROVE  Tracks'
<1>1. ASSUME NEW k \in LuaKeys, NEW v \in LuaValues[k] \cup {Nil}, NEW out \in Outs, Store(k, v, out)
      PROVE  Tracks'
  BY <1>1, StoreTracks
<1>2. CASE walk = << >> /\ walk' = << >>
  BY <1>2, EmptyWalk DEF Tracks
<1>3. ASSUME NEW n \in ListSizes, NEW out \in Outs, ResizeArray(n, out) PROVE Tracks'
  BY <1>2, <1>3 DEF ResizeArray
<1>4. CASE StepWalk
  BY <1>4, StepWalkTracks
<1>5. CASE ForgetWalk
  BY <1>5, EmptyWalk DEF ForgetWalk, Tracks
<1>6. ASSUME NEW ks \in SUBSET {k \in Keys : Get(tab, k) # Nil}, Collect(ks) PROVE Tracks'
  <2>1. client = "lua" /\ client' = client /\ torn' = torn /\ walk' = walk
    BY <1>6 DEF Collect
  <2>2. Clears(tab, ks, tab')
    BY <1>6, CollectSafe
  <2>3. Good(tab') /\ SameShape(tab, tab') /\ Fields(tab') \subseteq Fields(tab)
    BY <2>2 DEF Clears, Fields
  <2>4. ~torn => Walking(tab', walk)
    BY <2>3, SameWalk DEF Safe, Tracks
  <2> QED
    BY <2>1, <2>4 DEF Tracks
<1>7. ASSUME NEW v \in Values, NEW out \in Outs, Ref(v, out) PROVE Tracks'
  BY <1>2, <1>7 DEF Ref, Tracks
<1>8. ASSUME NEW ref \in IntKeys, NEW out \in Outs, Unref(ref, out) PROVE Tracks'
  BY <1>2, <1>8 DEF Unref, Tracks
<1>9. CASE UNCHANGED vars
  BY <1>9 DEF vars, Tracks
<1> QED
  BY <1>1, <1>3, <1>4, <1>5, <1>6, <1>7, <1>8, <1>9 DEF Next

\* A traversal with next, during which the program assigns to existing fields
\* or clears them and the collector clears weak fields and marks dead keys,
\* returns no key twice, never fails to find its key again, and at its end has
\* returned every field that is still there, for any keys and hashes.
THEOREM TraversalExactAlways == Spec => []TraversalExact
<1>1. Init => Tracks
  BY EmptyWalk DEF Init, Tracks
<1>2. Safe /\ Tracks => TraversalExact
  <2> SUFFICES ASSUME Safe, Tracks, ~torn PROVE Exact(Present, walk)
    BY Zenon DEF TraversalExact, Exact
  <2>1. SizeArray(tab) + SizeNode(tab) \in Nat
    BY TableFields DEF Safe, Good
  <2>2. PICK q, n, P : n \in Nat /\ Walks(q, n, P, walk) /\ P = Fields(tab)
    BY <2>1 DEF Tracks, Walking
  <2>3. Exact(P, walk)
    BY <2>2, WalkSeen
  <2>4. CASE walk = << >>
    <3>1. Nil \notin {walk[i] : i \in 1..Len(walk)}
      BY <2>4
    <3> QED
      BY <2>3, <3>1 DEF Exact
  <2>5. CASE walk # << >>
    <3>1. client = "lua"
      BY <2>5, LuaTableAssumption DEF Safe, Tracks
    <3>2. Present \subseteq P
      BY <2>2, <3>1, Constants DEF Safe, Agrees, Present, Fields
    <3> QED
      BY <2>3, <3>2 DEF Exact
  <2> QED
    BY <2>4, <2>5
<1>3. Safe /\ [Next]_vars => Safe'
  BY NextSafe
<1>4. Safe /\ Tracks /\ [Next]_vars => Tracks'
  BY NextTracks
<1> QED
  BY InitSafe, <1>1, <1>2, <1>3, <1>4, PTL DEF Spec
=============================================================================
