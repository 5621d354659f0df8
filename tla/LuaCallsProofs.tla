--------------------------- MODULE LuaCallsProofs ---------------------------
(***************************************************************************)
(* Theorems about LuaCalls, for any functions, limits and sizes, when the  *)
(* owner of the state does not call functions on a thread it has resumed   *)
(* (~Reused).                                                              *)
(*                                                                         *)
(* Good(s, K, n) relates the C stack s, the CallInfo array K and the       *)
(* counter n = nCcalls.  It is kept when a frame is pushed on s or popped  *)
(* from it together with the CallInfos it owns, and when s is cut off at a *)
(* protected call; every action is made of these three.                    *)
(***************************************************************************)
EXTENDS LuaCalls, FiniteSetTheorems, WellFoundedInduction, TLAPS

CIRec == [kind : {"base", "Lua", "C"}, func : Int, base : Int, top : Int, nres : Int,
          tail : Int]
Upval == [slot : Int, depth : Int, tail : Int]
Status == {"ok", "yield", "dead"}
ErrFunc == {"none", "ok", "bad"}
StateT == [ci : Seq(CIRec), top : Int, size : Int, sizeci : Int, open : Int, ccalls : Int,
           baseccalls : Int, status : Status, errfunc : ErrFunc, upvals : SUBSET Upval]
FrameT == [t : {"exec"}, n : Nat \ {0}]
          \cup [t : {"cfun", "call", "handler", "resume", "close"}]
          \cup [t : {"enter"}, func : Int, nres : Int]
          \cup [t : {"tm"}, res : BOOLEAN]
          \cup [t : {"error"}, msg : BOOLEAN]
          \cup [t : {"throw"}, code : {"run", "err", "mem"}]
          \cup [t : {"pcall"}, top : Int, ci : Int, ccalls : Int, errfunc : ErrFunc, nres : Int]

\* Types; the CallInfo array is never empty.
TypesInv == L \in StateT /\ L.ci # << >> /\ cs \in Seq(FrameT)

\* How many CallInfos a C activation owns, and of which kind.
Size(f) == IF f.t = "exec" THEN f.n ELSE IF f.t = "cfun" THEN 1 ELSE 0
KindOf(f) == IF f.t = "exec" THEN "Lua" ELSE "C"

\* d[i] CallInfos belong to the base and to the first i frames of s.
AgreeBy(s, K, d) ==
    /\ d[0] = 1 /\ d[Len(s)] = Len(K) /\ K[1].kind = "base"
    /\ \A i, j \in 0..Len(s) : i <= j => d[i] <= d[j]
    /\ \A i \in 1..Len(s) :
          /\ d[i] = d[i - 1] + Size(s[i])
          /\ s[i].t = "pcall" => s[i].ci = d[i - 1]
          /\ \A j \in (d[i - 1] + 1)..d[i] : K[j].kind = KindOf(s[i])
Agree(s, K) == \E d \in [0..Len(s) -> Nat] : AgreeBy(s, K, d)

\* The activations that nCcalls counts, among the first n of s.
Counted(f) == f.t \in {"call", "resume"}
Count(s, n) == Cardinality({i \in 1..n : Counted(s[i])})

\* A protected call remembers how many there were below it.
Saved(s) == \A i \in 1..Len(s) : s[i].t = "pcall" => s[i].ccalls = Count(s, i - 1)

\* Who calls whom.
Shape(s) ==
    \A i \in 1..Len(s) :
       /\ s[i].t \in {"resume", "close"} => i = 1
       /\ s[i].t = "exec" => i > 1 /\ s[i - 1].t \in {"call", "resume"}
       /\ s[i].t = "cfun" => i > 1 /\ s[i - 1].t \in {"call", "exec"}

Good(s, K, n) == Shape(s) /\ Saved(s) /\ Agree(s, K) /\ n = Count(s, Len(s))

\* The stack without its last frame, and what is known of the last one.
Front(s) == SubSeq(s, 1, Len(s) - 1)
Last(s) == s[Len(s)]
Weight(f) == IF Counted(f) THEN 1 ELSE 0

\* f may be pushed on s.
Above(s, f) ==
    /\ f.t \in {"resume", "close"} => s = << >>
    /\ f.t = "exec" => s # << >> /\ Last(s).t \in {"call", "resume"}
    /\ f.t = "cfun" => s # << >> /\ Last(s).t \in {"call", "exec"}

\* K has the kinds of the first n entries of J.
SameKinds(K, J, n) == Len(K) >= n /\ Len(J) >= n /\ \A j \in 1..n : K[j].kind = J[j].kind

-----------------------------------------------------------------------------
(* Counting.                                                               *)

\* A set of natural numbers that is not empty has a least element.
LEMMA LeastNatural ==
    ASSUME NEW T, T \subseteq Nat, T # {}
    PROVE  \E x \in T : \A y \in T : x <= y
<1>1. IsWellFoundedOn(OpToRel(<, Nat), Nat)
  BY NatLessThanWellFounded, Zenon
<1>2. \A x, y \in Nat : <<x, y>> \in OpToRel(<, Nat) <=> x < y
  BY DEF OpToRel
<1>3. PICK R : IsWellFoundedOn(R, Nat) /\ \A x, y \in Nat : <<x, y>> \in R <=> x < y
  BY <1>1, <1>2, Zenon
<1>4. \A RR, S : IsWellFoundedOn(RR, S) =>
         \A TT : TT \subseteq S /\ TT # {} => \E x \in TT : \A y \in TT : ~(<<y, x>> \in RR)
  BY WFMin, Zenon
<1>5. IsWellFoundedOn(R, Nat) /\ T \subseteq Nat /\ T # {}
  BY <1>3
<1>6. PICK x \in T : \A y \in T : ~(<<y, x>> \in R)
  BY <1>4, <1>5, Zenon
<1>7. \A y \in T : ~(y < x)
  BY <1>3, <1>6
<1>8. x \in Nat /\ \A y \in T : y \in Nat
  OBVIOUS
<1> QED
  BY <1>7, <1>8

\* The number of activations counted is a natural number.
LEMMA CountNat ==
    ASSUME NEW s, NEW n \in Nat
    PROVE  Count(s, n) \in Nat /\ IsFiniteSet({i \in 1..n : Counted(s[i])})
<1>1. IsFiniteSet(1..n)
  BY FS_Interval
<1>2. {i \in 1..n : Counted(s[i])} \in SUBSET (1..n)
  OBVIOUS
<1>3. IsFiniteSet({i \in 1..n : Counted(s[i])})
  BY <1>1, <1>2, FS_Subset
<1> QED
  BY <1>3, FS_CardinalityType DEF Count

\* One more frame counts if it is a call or a resume.
LEMMA CountStep ==
    ASSUME NEW s, NEW n \in Nat
    PROVE  Count(s, n + 1) = Count(s, n) + Weight(s[n + 1])
<1> DEFINE T == {i \in 1..n : Counted(s[i])}
           U == {i \in 1..(n + 1) : Counted(s[i])}
<1>1. IsFiniteSet(T) /\ Cardinality(T) \in Nat
  BY CountNat DEF Count
<1>2. CASE Counted(s[n + 1])
  <2>1. U = T \cup {n + 1} /\ n + 1 \notin T
    BY <1>2
  <2>2. Cardinality(T \cup {n + 1}) = Cardinality(T) + 1
    BY <1>1, <2>1, FS_AddElement
  <2> QED
    BY <1>2, <2>1, <2>2 DEF Count, Weight
<1>3. CASE ~Counted(s[n + 1])
  <2>1. U = T
    BY <1>3
  <2> QED
    BY <1>1, <1>3, <2>1 DEF Count, Weight
<1> QED
  BY <1>2, <1>3

\* Only the kinds of the frames count.
LEMMA CountSame ==
    ASSUME NEW s, NEW r, NEW n \in Nat, \A i \in 1..n : s[i] = r[i]
    PROVE  Count(s, n) = Count(r, n)
<1>1. {i \in 1..n : Counted(s[i])} = {i \in 1..n : Counted(r[i])}
  OBVIOUS
<1> QED
  BY <1>1 DEF Count
-----------------------------------------------------------------------------
(* Pushing and popping frames.                                             *)

\* Facts about Append and SubSeq that are used below.
LEMMA SeqFacts ==
    ASSUME NEW X, NEW s \in Seq(X)
    PROVE  /\ Len(s) \in Nat
           /\ \A f \in X : /\ Append(s, f) \in Seq(X)
                           /\ Len(Append(s, f)) = Len(s) + 1
                           /\ Append(s, f)[Len(s) + 1] = f
                           /\ \A i \in 1..Len(s) : Append(s, f)[i] = s[i]
           /\ \A m \in 0..Len(s) : /\ SubSeq(s, 1, m) \in Seq(X)
                                   /\ Len(SubSeq(s, 1, m)) = m
                                   /\ \A i \in 1..m : SubSeq(s, 1, m)[i] = s[i]
OBVIOUS

\* The elements of a sequence.
LEMMA SeqElem ==
    ASSUME NEW X, NEW s \in Seq(X), NEW i \in 1..Len(s)
    PROVE  s[i] \in X
OBVIOUS

\* A frame is pushed, with the CallInfos it owns: K becomes J.
LEMMA Push ==
    ASSUME NEW s \in Seq(FrameT), NEW K \in Seq(CIRec), NEW J \in Seq(CIRec), NEW n \in Int,
           Good(s, K, n), NEW f \in FrameT, Above(s, f),
           f.t = "pcall" => f.ci = Len(K) /\ f.ccalls = n,
           Len(J) = Len(K) + Size(f), SameKinds(J, K, Len(K)),
           \A j \in (Len(K) + 1)..Len(J) : J[j].kind = KindOf(f)
    PROVE  Good(Append(s, f), J, n + Weight(f))
<1> DEFINE r == Append(s, f)
           N == Len(s)
<1>1. /\ N \in Nat /\ r \in Seq(FrameT) /\ Len(r) = N + 1 /\ r[N + 1] = f
      /\ \A i \in 1..N : r[i] = s[i]
  BY SeqFacts
<1>2. Len(K) \in Nat /\ Len(J) \in Nat
  BY SeqFacts
<1> HIDE DEF r, N
<1>a. Len(s) = N /\ Len(Append(s, f)) = Len(r) /\ Append(s, f) = r
  BY DEF r, N
<1>3. Shape(r)
  <2> SUFFICES ASSUME NEW i \in 1..Len(r)
               PROVE  /\ r[i].t \in {"resume", "close"} => i = 1
                      /\ r[i].t = "exec" => i > 1 /\ r[i - 1].t \in {"call", "resume"}
                      /\ r[i].t = "cfun" => i > 1 /\ r[i - 1].t \in {"call", "exec"}
    BY DEF Shape
  <2>1. CASE i \in 1..N
    <3>1. r[i] = s[i] /\ (i > 1 => r[i - 1] = s[i - 1])
      BY <1>1, <2>1
    <3> QED
      BY <1>a, <2>1, <3>1 DEF Good, Shape
  <2>2. CASE i = N + 1
    <3>1. s = << >> => N = 0
      BY <1>a
    <3>2. s # << >> => N > 0 /\ r[i - 1] = Last(s)
      BY <1>a, <1>1, <2>2 DEF Last
    <3> QED
      BY <1>1, <2>2, <3>1, <3>2 DEF Above
  <2> QED
    BY <1>1, <2>1, <2>2
<1>4. \A m \in 0..N : Count(r, m) = Count(s, m)
  <2> SUFFICES ASSUME NEW m \in 0..N PROVE Count(r, m) = Count(s, m)
    OBVIOUS
  <2>1. m \in Nat /\ \A i \in 1..m : r[i] = s[i]
    BY <1>1
  <2> QED
    BY <2>1, CountSame
<1>5. Count(r, Len(r)) = n + Weight(f)
  <2>1. Count(r, N + 1) = Count(r, N) + Weight(r[N + 1])
    BY <1>1, CountStep
  <2>2. Count(r, N) = n
    BY <1>1, <1>4, <1>a DEF Good
  <2> QED
    BY <1>1, <2>1, <2>2
<1>6. Saved(r)
  <2> SUFFICES ASSUME NEW i \in 1..Len(r), r[i].t = "pcall"
               PROVE  r[i].ccalls = Count(r, i - 1)
    BY DEF Saved
  <2>1. CASE i \in 1..N
    BY <1>1, <1>4, <1>a, <2>1 DEF Good, Saved
  <2>2. CASE i = N + 1
    BY <1>1, <1>4, <1>a, <2>2 DEF Good
  <2> QED
    BY <1>1, <2>1, <2>2
<1>7. Agree(r, J)
  <2>1. PICK d \in [0..N -> Nat] : AgreeBy(s, K, d)
    BY <1>a DEF Good, Agree
  <2> DEFINE e == [i \in 0..(N + 1) |-> IF i <= N THEN d[i] ELSE Len(J)]
  <2>2. e \in [0..(N + 1) -> Nat]
    BY <1>1, <1>2
  <2>3. (\A i \in 0..N : e[i] = d[i]) /\ e[N + 1] = Len(J)
    BY <1>1
  <2> HIDE DEF e
  <2>4. Size(f) \in Nat
    BY DEF FrameT, Size
  <2>5. d[N] = Len(K) /\ Len(K) <= Len(J)
    BY <1>a, <1>2, <2>1, <2>4 DEF AgreeBy
  <2>6. \A i, j \in 0..(N + 1) : i <= j => e[i] <= e[j]
    <3> SUFFICES ASSUME NEW i \in 0..(N + 1), NEW j \in 0..(N + 1), i <= j
                 PROVE  e[i] <= e[j]
      OBVIOUS
    <3>1. CASE j \in 0..N
      <4>1. i \in 0..N
        BY <1>1, <3>1
      <4> QED
        BY <1>a, <2>1, <2>3, <3>1, <4>1 DEF AgreeBy
    <3>2. CASE j = N + 1 /\ i \in 0..N
      <4>1. d[i] <= d[N] /\ d[i] \in Nat
        BY <1>1, <1>a, <2>1, <3>2 DEF AgreeBy
      <4> QED
        BY <1>2, <2>3, <2>5, <3>2, <4>1
    <3>3. CASE j = N + 1 /\ i = N + 1
      BY <1>2, <2>3, <3>3
    <3> QED
      BY <1>1, <3>1, <3>2, <3>3
  <2>7. ASSUME NEW i \in 1..(N + 1)
        PROVE  /\ e[i] = e[i - 1] + Size(r[i])
               /\ r[i].t = "pcall" => r[i].ci = e[i - 1]
               /\ \A j \in (e[i - 1] + 1)..e[i] : J[j].kind = KindOf(r[i])
    <3>1. CASE i \in 1..N
      <4>1. /\ d[i] = d[i - 1] + Size(s[i])
            /\ s[i].t = "pcall" => s[i].ci = d[i - 1]
            /\ \A j \in (d[i - 1] + 1)..d[i] : K[j].kind = KindOf(s[i])
        BY <1>a, <2>1, <3>1 DEF AgreeBy
      <4>2. e[i] = d[i] /\ e[i - 1] = d[i - 1] /\ r[i] = s[i]
        BY <1>1, <2>3, <3>1
      <4>3. d[i] <= Len(K) /\ d[i] \in Nat /\ d[i - 1] \in Nat
        BY <1>1, <1>a, <2>1, <3>1 DEF AgreeBy
      <4>4. ASSUME NEW j \in (d[i - 1] + 1)..d[i] PROVE J[j].kind = K[j].kind
        <5>1. j \in 1..Len(K)
          BY <1>2, <4>3
        <5> QED
          BY <5>1 DEF SameKinds
      <4> QED
        BY <4>1, <4>2, <4>4
    <3>2. CASE i = N + 1
      <4>1. e[i] = Len(J) /\ r[i] = f
        BY <1>1, <2>3, <3>2
      <4>2. i - 1 = N
        BY <1>1, <3>2
      <4>3. e[i - 1] = Len(K)
        BY <1>1, <2>3, <2>5, <4>2
      <4> QED
        BY <4>1, <4>3
    <3> QED
      BY <1>1, <3>1, <3>2
  <2>8. e[0] = 1 /\ J[1].kind = "base"
    <3>1. d[0] = 1 /\ d[0] <= d[N] /\ K[1].kind = "base"
      BY <1>1, <1>a, <2>1 DEF AgreeBy
    <3> QED
      BY <1>1, <1>2, <2>3, <2>5, <3>1 DEF SameKinds
  <2> QED
    BY ZenonT(40), <1>1, <2>2, <2>3, <2>6, <2>7, <2>8 DEF Agree, AgreeBy
<1> QED
  BY <1>3, <1>5, <1>6, <1>7, <1>a DEF Good

\* What the last frame owns is at the end of the CallInfo array.
LEMMA LastOwns ==
    ASSUME NEW s \in Seq(FrameT), s # << >>, NEW K \in Seq(CIRec), NEW n, Good(s, K, n)
    PROVE  /\ Last(s) \in FrameT /\ Size(Last(s)) \in Nat
           /\ Len(K) - Size(Last(s)) \in 1..Len(K)
           /\ Last(s).t = "pcall" => Last(s).ci = Len(K) - Size(Last(s))
           /\ \A j \in (Len(K) - Size(Last(s)) + 1)..Len(K) : K[j].kind = KindOf(Last(s))
<1>1. Len(s) \in Nat /\ Len(s) # 0 /\ Len(K) \in Nat
  OBVIOUS
<1>2. Last(s) \in FrameT
  BY <1>1 DEF Last
<1>3. Size(Last(s)) \in Nat
  BY <1>2 DEF FrameT, Size
<1>4. PICK d \in [0..Len(s) -> Nat] : AgreeBy(s, K, d)
  BY DEF Good, Agree
<1>5. /\ d[Len(s)] = Len(K) /\ d[0] = 1 /\ d[0] <= d[Len(s) - 1]
      /\ d[Len(s)] = d[Len(s) - 1] + Size(Last(s))
      /\ Last(s).t = "pcall" => Last(s).ci = d[Len(s) - 1]
      /\ \A j \in (d[Len(s) - 1] + 1)..d[Len(s)] : K[j].kind = KindOf(Last(s))
      /\ d[Len(s) - 1] \in Nat
  BY <1>1, <1>4 DEF AgreeBy, Last
<1>6. d[Len(s) - 1] = Len(K) - Size(Last(s))
  BY <1>1, <1>3, <1>5
<1> QED
  BY <1>1, <1>2, <1>3, <1>5, <1>6

\* The stack is cut off after m frames, and the CallInfos with it.
LEMMA Cut ==
    ASSUME NEW s \in Seq(FrameT), NEW K \in Seq(CIRec), NEW n, Good(s, K, n),
           NEW m \in 0..Len(s)
    PROVE  \E k \in 1..Len(K) :
              /\ Good(SubSeq(s, 1, m), SubSeq(K, 1, k), Count(s, m))
              /\ m < Len(s) /\ s[m + 1].t = "pcall" => k = s[m + 1].ci
              /\ m = Len(s) - 1 => k = Len(K) - Size(Last(s))
<1> DEFINE r == SubSeq(s, 1, m)
<1>1. /\ Len(s) \in Nat /\ Len(K) \in Nat /\ r \in Seq(FrameT) /\ Len(r) = m
      /\ \A i \in 1..m : r[i] = s[i]
  BY SeqFacts
<1> HIDE DEF r
<1>2. PICK d \in [0..Len(s) -> Nat] : AgreeBy(s, K, d)
  BY DEF Good, Agree
<1>b. \A i, j \in 0..Len(s) : i <= j => d[i] <= d[j]
  BY <1>2 DEF AgreeBy
<1>3. d[m] \in 1..Len(K)
  <2>1. d[0] = 1 /\ d[0] <= d[m] /\ d[m] <= d[Len(s)] /\ d[Len(s)] = Len(K) /\ d[m] \in Nat
    BY SMTT(30), <1>1, <1>2 DEF AgreeBy
  <2> QED
    BY <1>1, <2>1
<1> DEFINE J == SubSeq(K, 1, d[m])
<1>4. J \in Seq(CIRec) /\ Len(J) = d[m] /\ \A j \in 1..d[m] : J[j] = K[j]
  BY <1>1, <1>3, SeqFacts
<1> HIDE DEF J
<1>5. Shape(r)
  <2> SUFFICES ASSUME NEW i \in 1..m
               PROVE  /\ r[i].t \in {"resume", "close"} => i = 1
                      /\ r[i].t = "exec" => i > 1 /\ r[i - 1].t \in {"call", "resume"}
                      /\ r[i].t = "cfun" => i > 1 /\ r[i - 1].t \in {"call", "exec"}
    BY <1>1 DEF Shape
  <2>1. r[i] = s[i] /\ (i > 1 => r[i - 1] = s[i - 1]) /\ i \in 1..Len(s)
    BY <1>1
  <2> QED
    BY <2>1 DEF Good, Shape
<1>6. \A a \in 0..m : Count(r, a) = Count(s, a)
  <2> SUFFICES ASSUME NEW a \in 0..m PROVE Count(r, a) = Count(s, a)
    OBVIOUS
  <2>1. a \in Nat /\ \A i \in 1..a : r[i] = s[i]
    BY <1>1
  <2> QED
    BY <2>1, CountSame
<1>7. Saved(r)
  BY SMTT(30), <1>1, <1>6 DEF Good, Saved
<1>8. Agree(r, J)
  <2> DEFINE e == [i \in 0..m |-> d[i]]
  <2>1. e \in [0..m -> Nat] /\ \A i \in 0..m : e[i] = d[i]
    BY <1>1
  <2> HIDE DEF e
  <2>2. \A i, j \in 0..m : i <= j => e[i] <= e[j]
    <3>1. 0..m \subseteq 0..Len(s)
      BY <1>1
    <3> QED
      BY <1>b, <2>1, <3>1
  <2>3. ASSUME NEW i \in 1..m
        PROVE  /\ e[i] = e[i - 1] + Size(r[i])
               /\ r[i].t = "pcall" => r[i].ci = e[i - 1]
               /\ \A j \in (e[i - 1] + 1)..e[i] : J[j].kind = KindOf(r[i])
    <3>1. /\ d[i] = d[i - 1] + Size(s[i])
          /\ s[i].t = "pcall" => s[i].ci = d[i - 1]
          /\ \A j \in (d[i - 1] + 1)..d[i] : K[j].kind = KindOf(s[i])
      BY <1>1, <1>2 DEF AgreeBy
    <3>2. e[i] = d[i] /\ e[i - 1] = d[i - 1] /\ r[i] = s[i]
      BY <1>1, <2>1
    <3>3. d[i] <= d[m] /\ d[i] \in Nat /\ d[i - 1] \in Nat /\ d[m] \in Nat
      <4>1. i \in 0..Len(s) /\ i - 1 \in 0..Len(s) /\ m \in 0..Len(s) /\ i <= m
        BY <1>1
      <4> QED
        BY <1>b, <4>1
    <3>4. \A j \in (d[i - 1] + 1)..d[i] : J[j] = K[j]
      BY <1>4, <3>3
    <3> QED
      BY <3>1, <3>2, <3>4
  <2>4. e[0] = 1 /\ e[m] = Len(J) /\ J[1].kind = "base"
    BY <1>1, <1>2, <1>3, <1>4, <2>1 DEF AgreeBy
  <2> QED
    BY <1>1, <2>1, <2>2, <2>3, <2>4 DEF Agree, AgreeBy
<1>9. Good(r, J, Count(s, m))
  BY <1>1, <1>5, <1>6, <1>7, <1>8 DEF Good
<1>10. m < Len(s) /\ s[m + 1].t = "pcall" => d[m] = s[m + 1].ci
  <2> SUFFICES ASSUME m < Len(s), s[m + 1].t = "pcall" PROVE d[m] = s[m + 1].ci
    OBVIOUS
  <2>1. m + 1 \in 1..Len(s) /\ (m + 1) - 1 = m
    BY <1>1
  <2> QED
    BY <1>2, <2>1 DEF AgreeBy
<1>11. m = Len(s) - 1 => d[m] = Len(K) - Size(Last(s))
  <2> SUFFICES ASSUME m = Len(s) - 1 PROVE d[m] = Len(K) - Size(Last(s))
    OBVIOUS
  <2>1. Len(s) \in 1..Len(s)
    BY <1>1
  <2>2. d[Len(s)] = d[m] + Size(Last(s)) /\ d[Len(s)] = Len(K) /\ d[m] \in Nat
    BY <1>2, <2>1 DEF AgreeBy, Last
  <2>3. Size(Last(s)) \in Nat
    BY <2>1 DEF Last, FrameT, Size
  <2> QED
    BY <1>1, <2>2, <2>3
<1> QED
  BY <1>3, <1>9, <1>10, <1>11 DEF r, J

\* The last frame is popped, with what it owns.
LEMMA PopLast ==
    ASSUME NEW s \in Seq(FrameT), s # << >>, NEW K \in Seq(CIRec), NEW n, Good(s, K, n)
    PROVE  Good(Front(s), SubSeq(K, 1, Len(K) - Size(Last(s))), n - Weight(Last(s)))
<1>1. Len(s) \in Nat /\ Len(s) # 0 /\ Len(s) - 1 \in 0..Len(s) /\ Len(s) - 1 \in Nat
  OBVIOUS
<1>2. Good(Front(s), SubSeq(K, 1, Len(K) - Size(Last(s))), Count(s, Len(s) - 1))
  BY <1>1, Cut DEF Front
<1>3. Count(s, (Len(s) - 1) + 1) = Count(s, Len(s) - 1) + Weight(s[(Len(s) - 1) + 1])
  BY <1>1, CountStep
<1>4. Count(s, Len(s)) = Count(s, Len(s) - 1) + Weight(Last(s)) /\ n = Count(s, Len(s))
  BY <1>1, <1>3 DEF Last, Good
<1>5. Count(s, Len(s) - 1) \in Nat /\ Weight(Last(s)) \in Nat
  BY <1>1, CountNat DEF Weight
<1>6. n - Weight(Last(s)) = Count(s, Len(s) - 1)
  BY <1>4, <1>5
<1> QED
  BY <1>2, <1>6

\* Only the kinds of the CallInfos matter.
LEMMA Rekind ==
    ASSUME NEW s \in Seq(FrameT), NEW K \in Seq(CIRec), NEW J \in Seq(CIRec), NEW n,
           Good(s, K, n), Len(J) = Len(K), SameKinds(J, K, Len(K))
    PROVE  Good(s, J, n)
<1>1. PICK d \in [0..Len(s) -> Nat] : AgreeBy(s, K, d)
  BY DEF Good, Agree
<1>2. Len(s) \in Nat /\ Len(K) \in Nat
  OBVIOUS
<1>3. ASSUME NEW i \in 1..Len(s), NEW j \in (d[i - 1] + 1)..d[i]
      PROVE  J[j].kind = KindOf(s[i])
  <2>0. i \in 0..Len(s) /\ i - 1 \in 0..Len(s) /\ Len(s) \in 0..Len(s) /\ i <= Len(s)
    BY <1>2
  <2>1. d[i] <= d[Len(s)] /\ d[Len(s)] = Len(K) /\ d[i] \in Nat /\ d[i - 1] \in Nat
    BY <1>1, <2>0 DEF AgreeBy
  <2>2. j \in 1..Len(K)
    BY <1>2, <2>1
  <2> QED
    BY <1>1, <2>2 DEF AgreeBy, SameKinds
<1>4. J[1].kind = "base"
  <2>1. d[0] = 1 /\ d[0] <= d[Len(s)] /\ d[Len(s)] = Len(K) /\ K[1].kind = "base"
    BY <1>1, <1>2 DEF AgreeBy
  <2> QED
    BY <1>2, <2>1 DEF SameKinds
<1>5. AgreeBy(s, J, d)
  BY <1>1, <1>3, <1>4 DEF AgreeBy
<1> QED
  BY <1>5 DEF Good, Agree
-----------------------------------------------------------------------------
(* The invariant.                                                          *)

\* The C stack, the CallInfos, nCcalls and baseCcalls of a thread that runs.
\* baseCcalls is 1 under lua_resume and 0 otherwise.
Lively(s, K, n, b) ==
    /\ Good(s, K, n)
    /\ s # << >> => b = IF s[1].t = "resume" THEN 1 ELSE 0

\* After an error the CallInfos and nCcalls may be ahead of the C stack.
Torn == \E k \in 1..Len(L.ci), n \in Int :
            Lively(cs, SubSeq(L.ci, 1, k), n, L.baseccalls)

\* A thread that has yielded keeps the CallInfos of the functions it was in.
Asleep ==
    /\ ended = "no"
    /\ cs \in {<< >>, <<Frame("resume")>>}
    /\ L.ccalls = Len(cs)
    /\ Len(L.ci) > 2 /\ L.ci[1].kind = "base" /\ L.ci[Len(L.ci)].kind = "C"
    /\ \A j \in 2..(Len(L.ci) - 1) : L.ci[j].kind = "Lua"

Inv ==
    /\ TypesInv
    /\ ended = "no" /\ L.status = "ok" => IF Throwing THEN Torn
                                          ELSE Lively(cs, L.ci, L.ccalls, L.baseccalls)
    /\ ended = "no" /\ L.status = "dead" => cs = << >>
    /\ L.status = "yield" => Asleep

\* A frame that owns no CallInfo and remembers none.
Plain == FrameT \ {f \in FrameT : f.t \in {"exec", "cfun", "pcall", "resume", "close"}}

\* Pushing a frame, with the CallInfos it owns.
LEMMA LivelyPush ==
    ASSUME NEW s \in Seq(FrameT), NEW K \in Seq(CIRec), NEW J \in Seq(CIRec), NEW n \in Int,
           NEW b, Lively(s, K, n, b), NEW f \in FrameT, Above(s, f),
           f.t = "pcall" => f.ci = Len(K) /\ f.ccalls = n,
           Len(J) = Len(K) + Size(f), SameKinds(J, K, Len(K)),
           \A j \in (Len(K) + 1)..Len(J) : J[j].kind = KindOf(f),
           s = << >> => b = IF f.t = "resume" THEN 1 ELSE 0
    PROVE  Lively(Append(s, f), J, n + Weight(f), b)
<1>1. Good(Append(s, f), J, n + Weight(f))
  BY Push DEF Lively
<1>2. s # << >> => Append(s, f)[1] = s[1]
  OBVIOUS
<1>3. s = << >> => Append(s, f)[1] = f
  OBVIOUS
<1> QED
  BY <1>1, <1>2, <1>3 DEF Lively

\* Pushing a plain frame.
LEMMA LivelyPlain ==
    ASSUME NEW s \in Seq(FrameT), NEW K \in Seq(CIRec), NEW n \in Int, NEW b,
           Lively(s, K, n, b), NEW f \in Plain, s # << >> \/ b = 0
    PROVE  Lively(Append(s, f), K, n + Weight(f), b)
<1>1. f \in FrameT /\ Size(f) = 0 /\ Above(s, f) /\ f.t # "pcall" /\ f.t # "resume"
  BY DEF Plain, Size, Above
<1>2. Len(K) \in Nat /\ Len(K) = Len(K) + Size(f) /\ SameKinds(K, K, Len(K))
  BY <1>1 DEF SameKinds
<1>3. \A j \in (Len(K) + 1)..Len(K) : K[j].kind = KindOf(f)
  BY <1>2
<1> QED
  BY <1>1, <1>2, <1>3, LivelyPush

\* Pushing the frame of a function together with its CallInfo.
LEMMA LivelyCall ==
    ASSUME NEW s \in Seq(FrameT), NEW K \in Seq(CIRec), NEW n \in Int, NEW b, NEW k \in CIRec,
           s # << >>, Lively(s, K, n, b), NEW f \in FrameT, f.t \in {"exec", "cfun"},
           Size(f) = 1, k.kind = KindOf(f), Above(s, f)
    PROVE  Lively(Append(s, f), Append(K, k), n, b)
<1>1. /\ Len(K) \in Nat /\ Append(K, k) \in Seq(CIRec) /\ Len(Append(K, k)) = Len(K) + 1
      /\ Append(K, k)[Len(K) + 1] = k /\ \A j \in 1..Len(K) : Append(K, k)[j] = K[j]
  BY SeqFacts
<1>2. SameKinds(Append(K, k), K, Len(K))
  BY <1>1 DEF SameKinds
<1>3. \A j \in (Len(K) + 1)..Len(Append(K, k)) : Append(K, k)[j].kind = KindOf(f)
  BY <1>1
<1>4. Weight(f) = 0 /\ n + 0 = n
  BY DEF Weight, Counted
<1>5. Lively(Append(s, f), Append(K, k), n + Weight(f), b)
  BY <1>1, <1>2, <1>3, LivelyPush
<1> QED
  BY <1>4, <1>5

\* Popping the last frame.
LEMMA LivelyPop ==
    ASSUME NEW s \in Seq(FrameT), s # << >>, NEW K \in Seq(CIRec), NEW n, NEW b,
           Lively(s, K, n, b)
    PROVE  /\ Lively(Front(s), SubSeq(K, 1, Len(K) - Size(Last(s))), n - Weight(Last(s)), b)
           /\ Front(s) \in Seq(FrameT)
           /\ Front(s) = << >> => b = IF Last(s).t = "resume" THEN 1 ELSE 0
           /\ Len(s) > 1 => Front(s) # << >> /\ Last(Front(s)) = s[Len(s) - 1]
           /\ Len(s) > 1 \/ Front(s) = << >>
<1>1. Good(Front(s), SubSeq(K, 1, Len(K) - Size(Last(s))), n - Weight(Last(s)))
  BY PopLast DEF Lively
<1>2. Len(s) \in Nat /\ Len(s) # 0 /\ Len(s) - 1 \in 0..Len(s)
  OBVIOUS
<1>3. /\ Front(s) \in Seq(FrameT) /\ Len(Front(s)) = Len(s) - 1
      /\ \A i \in 1..(Len(s) - 1) : Front(s)[i] = s[i]
  BY <1>2, SeqFacts DEF Front
<1>4. Front(s) # << >> => Len(s) - 1 # 0 /\ Front(s)[1] = s[1]
  BY <1>2, <1>3
<1>5. Front(s) = << >> => Len(s) = 1 /\ Last(s) = s[1]
  <2> SUFFICES ASSUME Front(s) = << >> PROVE Len(s) = 1
    BY DEF Last
  <2>1. Len(s) - 1 = 0
    BY <1>3
  <2> QED
    BY <1>2, <2>1
<1>6. Len(s) > 1 => Front(s) # << >> /\ Last(Front(s)) = s[Len(s) - 1]
  BY <1>2, <1>3 DEF Last
<1>7. Len(s) > 1 \/ Front(s) = << >>
  BY <1>2, <1>3
<1> QED
  BY <1>1, <1>3, <1>4, <1>5, <1>6, <1>7 DEF Lively

\* Popping a frame that owns nothing.
LEMMA LivelyPopPlain ==
    ASSUME NEW s \in Seq(FrameT), s # << >>, NEW K \in Seq(CIRec), NEW n, NEW b,
           Lively(s, K, n, b), Size(Last(s)) = 0
    PROVE  Lively(Front(s), K, n - Weight(Last(s)), b)
<1>1. Len(K) - 0 = Len(K) /\ SubSeq(K, 1, Len(K)) = K
  OBVIOUS
<1> QED
  BY <1>1, LivelyPop

\* A plain frame takes the place of another.
LEMMA LivelyReplace ==
    ASSUME NEW s \in Seq(FrameT), s # << >>, NEW K \in Seq(CIRec), NEW n \in Int, NEW b,
           Lively(s, K, n, b), Last(s) \in Plain, NEW f \in Plain
    PROVE  Lively(Append(Front(s), f), K, n - Weight(Last(s)) + Weight(f), b)
<1>1. Size(Last(s)) = 0 /\ Last(s).t # "resume"
  BY DEF Plain, Size
<1>2. Lively(Front(s), K, n - Weight(Last(s)), b) /\ Front(s) \in Seq(FrameT)
  BY <1>1, LivelyPop, LivelyPopPlain
<1>3. Front(s) # << >> \/ b = 0
  BY <1>1, LivelyPop
<1>4. n - Weight(Last(s)) \in Int
  BY DEF Weight
<1> QED
  BY <1>2, <1>3, <1>4, LivelyPlain

\* luaV_execute enters a Lua function.
LEMMA LivelyGrow ==
    ASSUME NEW s \in Seq(FrameT), s # << >>, NEW K \in Seq(CIRec), NEW n \in Int, NEW b,
           Lively(s, K, n, b), Last(s).t = "exec", NEW k \in CIRec, k.kind = "Lua"
    PROVE  Lively(Append(Front(s), [t |-> "exec", n |-> Last(s).n + 1]), Append(K, k), n, b)
<1> DEFINE f == [t |-> "exec", n |-> Last(s).n + 1]
           m == Last(s).n
           P == SubSeq(K, 1, Len(K) - m)
<1>1. /\ Last(s) \in FrameT /\ Size(Last(s)) = m /\ Len(K) - m \in 1..Len(K)
      /\ \A j \in (Len(K) - m + 1)..Len(K) : K[j].kind = "Lua"
  BY LastOwns DEF Lively, Size, KindOf
<1>2. m \in Nat \ {0} /\ Len(K) \in Nat
  BY <1>1 DEF FrameT
<1>3. f \in FrameT /\ Size(f) = m + 1 /\ Weight(f) = 0 /\ KindOf(f) = "Lua"
  BY <1>2 DEF FrameT, Size, Weight, Counted, KindOf
<1>4. /\ Append(K, k) \in Seq(CIRec) /\ Len(Append(K, k)) = Len(K) + 1
      /\ Append(K, k)[Len(K) + 1] = k /\ \A j \in 1..Len(K) : Append(K, k)[j] = K[j]
  BY SeqFacts
<1>5. P \in Seq(CIRec) /\ Len(P) = Len(K) - m /\ \A j \in 1..(Len(K) - m) : P[j] = K[j]
  BY <1>1, <1>2, SeqFacts
<1>6. Weight(Last(s)) = 0
  BY DEF Weight, Counted
<1>7. Len(s) > 1 /\ s[Len(s) - 1].t \in {"call", "resume"}
  BY DEF Lively, Good, Shape, Last
<1>8. /\ Lively(Front(s), P, n, b) /\ Front(s) \in Seq(FrameT)
      /\ Front(s) # << >> /\ Last(Front(s)) = s[Len(s) - 1]
  <2>1. n - Weight(Last(s)) = n
    BY <1>6
  <2> QED
    BY <1>1, <1>7, <2>1, LivelyPop
<1> HIDE DEF f, m, P
<1>9. Above(Front(s), f)
  BY <1>7, <1>8 DEF Above, f
<1>10. SameKinds(Append(K, k), P, Len(P))
  BY <1>2, <1>4, <1>5 DEF SameKinds
<1>11. \A j \in (Len(P) + 1)..Len(Append(K, k)) : Append(K, k)[j].kind = KindOf(f)
  <2> SUFFICES ASSUME NEW j \in (Len(P) + 1)..Len(Append(K, k))
               PROVE  Append(K, k)[j].kind = "Lua"
    BY <1>3
  <2>1. CASE j = Len(K) + 1
    BY <1>4, <2>1
  <2>2. CASE j # Len(K) + 1
    <3>0. j \in (Len(K) - m + 1)..(Len(K) + 1) /\ m \in Nat /\ Len(K) \in Nat
          /\ Len(K) - m >= 1
      BY <1>1, <1>2, <1>4, <1>5
    <3>1. j \in 1..Len(K) /\ j \in (Len(K) - m + 1)..Len(K)
      BY <2>2, <3>0
    <3> QED
      BY <1>1, <1>4, <3>1
  <2> QED
    BY <2>1, <2>2
<1>12. Lively(Append(Front(s), f), Append(K, k), n + Weight(f), b)
  <2>1. Len(Append(K, k)) = Len(P) + Size(f) /\ f.t # "pcall"
    BY <1>2, <1>3, <1>4, <1>5 DEF f
  <2> QED
    BY <1>3, <1>4, <1>5, <1>8, <1>9, <1>10, <1>11, <2>1, LivelyPush
<1> QED
  BY <1>3, <1>12 DEF f, m

\* luaV_execute leaves a Lua function that is not its first.
LEMMA LivelyShrink ==
    ASSUME NEW s \in Seq(FrameT), s # << >>, NEW K \in Seq(CIRec), NEW n \in Int, NEW b,
           Lively(s, K, n, b), Last(s).t = "exec", Last(s).n # 1
    PROVE  Lively(Append(Front(s), [t |-> "exec", n |-> Last(s).n - 1]),
                  SubSeq(K, 1, Len(K) - 1), n, b)
<1> DEFINE f == [t |-> "exec", n |-> Last(s).n - 1]
           m == Last(s).n
           P == SubSeq(K, 1, Len(K) - m)
           J == SubSeq(K, 1, Len(K) - 1)
<1>1. /\ Last(s) \in FrameT /\ Size(Last(s)) = m /\ Len(K) - m \in 1..Len(K)
      /\ \A j \in (Len(K) - m + 1)..Len(K) : K[j].kind = "Lua"
  BY LastOwns DEF Lively, Size, KindOf
<1>2. m \in Nat /\ m > 1 /\ Len(K) \in Nat /\ Len(K) - 1 \in 0..Len(K)
  BY <1>1 DEF FrameT
<1>3. f \in FrameT /\ Size(f) = m - 1 /\ Weight(f) = 0 /\ KindOf(f) = "Lua"
  BY <1>2 DEF FrameT, Size, Weight, Counted, KindOf
<1>4. J \in Seq(CIRec) /\ Len(J) = Len(K) - 1 /\ \A j \in 1..(Len(K) - 1) : J[j] = K[j]
  BY <1>2, SeqFacts
<1>5. P \in Seq(CIRec) /\ Len(P) = Len(K) - m /\ \A j \in 1..(Len(K) - m) : P[j] = K[j]
  BY <1>1, <1>2, SeqFacts
<1>6. Weight(Last(s)) = 0
  BY DEF Weight, Counted
<1>7. Len(s) > 1 /\ s[Len(s) - 1].t \in {"call", "resume"}
  BY DEF Lively, Good, Shape, Last
<1>8. /\ Lively(Front(s), P, n, b) /\ Front(s) \in Seq(FrameT)
      /\ Front(s) # << >> /\ Last(Front(s)) = s[Len(s) - 1]
  <2>1. n - Weight(Last(s)) = n
    BY <1>6
  <2> QED
    BY <1>1, <1>7, <2>1, LivelyPop
<1> HIDE DEF f, m, P, J
<1>9. Above(Front(s), f)
  BY <1>7, <1>8 DEF Above, f
<1>10. SameKinds(J, P, Len(P))
  <2>1. Len(J) >= Len(P) /\ Len(P) \in Nat
    BY <1>1, <1>2, <1>4, <1>5
  <2>2. \A j \in 1..Len(P) : j \in 1..(Len(K) - m) /\ j \in 1..(Len(K) - 1)
    BY <1>2, <1>5
  <2> QED
    BY SMTT(30), <1>4, <1>5, <2>1, <2>2 DEF SameKinds
<1>11. \A j \in (Len(P) + 1)..Len(J) : J[j].kind = KindOf(f)
  <2>1. \A j \in (Len(P) + 1)..Len(J) : j \in (Len(K) - m + 1)..Len(K) /\ j \in 1..(Len(K) - 1)
    BY <1>1, <1>2, <1>4, <1>5
  <2> QED
    BY <1>1, <1>3, <1>4, <2>1
<1>12. Lively(Append(Front(s), f), J, n + Weight(f), b)
  <2>1. Len(J) = Len(P) + Size(f) /\ f.t # "pcall"
    BY <1>2, <1>3, <1>4, <1>5 DEF f
  <2> QED
    BY <1>3, <1>4, <1>5, <1>8, <1>9, <1>10, <1>11, <2>1, LivelyPush
<1> QED
  BY <1>3, <1>12 DEF f, m, J

\* EXCEPT on the last frame is a pop and a push.
LEMMA ReplaceIs ==
    ASSUME NEW s \in Seq(FrameT), s # << >>, NEW f \in FrameT
    PROVE  [s EXCEPT ![Len(s)] = f] = Append(Front(s), f) /\ Append(Front(s), f) \in Seq(FrameT)
<1>1. Len(s) \in Nat /\ Len(s) # 0 /\ Len(s) - 1 \in 0..Len(s)
  OBVIOUS
<1>2. /\ Front(s) \in Seq(FrameT) /\ Len(Front(s)) = Len(s) - 1
      /\ \A i \in 1..(Len(s) - 1) : Front(s)[i] = s[i]
  BY <1>1, SeqFacts DEF Front
<1>3. /\ Append(Front(s), f) \in Seq(FrameT) /\ Len(Append(Front(s), f)) = Len(s)
      /\ Append(Front(s), f)[Len(s)] = f
      /\ \A i \in 1..(Len(s) - 1) : Append(Front(s), f)[i] = s[i]
  <2>1. Len(Front(s)) + 1 = Len(s)
    BY <1>1, <1>2
  <2> QED
    BY <1>2, <2>1, SeqFacts
<1>4. [s EXCEPT ![Len(s)] = f] \in Seq(FrameT) /\ Len([s EXCEPT ![Len(s)] = f]) = Len(s)
  BY <1>1
<1>5. \A i \in 1..Len(s) : [s EXCEPT ![Len(s)] = f][i] = Append(Front(s), f)[i]
  BY <1>1, <1>3
<1>6. ASSUME NEW a \in Seq(FrameT), NEW b \in Seq(FrameT), Len(a) = Len(b),
             \A i \in 1..Len(a) : a[i] = b[i]
      PROVE  a = b
  BY <1>6
<1>7. [s EXCEPT ![Len(s)] = f] = Append(Front(s), f)
  BY <1>3, <1>4, <1>5, <1>6
<1> QED
  BY <1>3, <1>7
-----------------------------------------------------------------------------
(* What the helpers of LuaCalls do to the parts of L that matter here.     *)

\* T differs from S in the Lua stack only.
Quiet(S, T) == /\ T \in StateT /\ T.ci = S.ci /\ T.ccalls = S.ccalls
               /\ T.baseccalls = S.baseccalls /\ T.status = S.status

\* luaD_checkstack
LEMMA CheckStackQuiet ==
    ASSUME NEW S \in StateT, NEW n \in Int
    PROVE  Quiet(S, CheckStack(S, n)) /\ CheckStack(S, n).top = S.top
<1>1. Extra \in Nat /\ S.size \in Int
  BY LuaCallsAssumption DEF StateT
<1> DEFINE z == (IF n <= S.size THEN 2 * S.size ELSE S.size + n) + 1 + Extra
<1>2. z \in Int
  BY <1>1
<1>3. CheckStack(S, n) = S \/ CheckStack(S, n) = [S EXCEPT !.size = z]
  BY DEF CheckStack, GrowStack
<1> HIDE DEF z
<1>4. Quiet(S, S)
  BY DEF Quiet
<1>5. Quiet(S, [S EXCEPT !.size = z]) /\ [S EXCEPT !.size = z].top = S.top
  BY <1>2 DEF Quiet, StateT
<1> QED
  BY <1>3, <1>4, <1>5

\* luaF_close
LEMMA CloseUpvalsQuiet ==
    ASSUME NEW S \in StateT, NEW n
    PROVE  Quiet(S, CloseUpvals(S, n)) /\ CloseUpvals(S, n).top = S.top
BY DEF CloseUpvals, Quiet, StateT

\* restore_stack_limit
LEMMA RestoreQuiet ==
    ASSUME NEW S \in StateT
    PROVE  Quiet(S, RestoreStackLimit(S))
<1>1. MaxCalls \in Int
  BY LuaCallsAssumption
<1>2. RestoreStackLimit(S) = S \/ RestoreStackLimit(S) = [S EXCEPT !.sizeci = MaxCalls]
  BY DEF RestoreStackLimit
<1>3. Quiet(S, S) /\ Quiet(S, [S EXCEPT !.sizeci = MaxCalls])
  BY <1>1 DEF Quiet, StateT
<1> QED
  BY <1>2, <1>3

\* A CallInfo is at the end of the array.
LEMMA CIType ==
    ASSUME NEW S \in StateT, S.ci # << >>
    PROVE  CI(S) \in CIRec /\ Len(S.ci) \in Nat \ {0}
<1>1. S.ci \in Seq(CIRec)
  BY DEF StateT
<1> QED
  BY <1>1 DEF CI

\* r is the result of a step on S that adds the CallInfo k and ends as res
\* says, or raises an error and leaves the CallInfos alone.
WithCI(S, K) == [S EXCEPT !.ci = K]
Adds(S, k, res, r) ==
    /\ r = [S |-> r.S, res |-> r.res, past |-> r.past]
    /\ \/ r.res = res /\ Quiet(WithCI(S, Append(S.ci, k)), r.S)
       \/ r.res \in {"run", "err", "mem"} /\ Quiet(S, r.S)
    /\ r.S.top = S.top

\* inc_ci: a CallInfo is added or an error is raised.
LEMMA IncCIAdds ==
    ASSUME NEW S \in StateT, NEW k \in CIRec, NEW res, NEW oom
    PROVE  Adds(S, k, res, IncCI(S, k, res, oom))
<1> DEFINE G == [S EXCEPT !.sizeci = 2 * @]
           P(T) == [T EXCEPT !.ci = Append(@, k)]
<1>1. S.ci \in Seq(CIRec) /\ S.sizeci \in Int /\ Append(S.ci, k) \in Seq(CIRec)
  BY SeqFacts DEF StateT
<1>2. G \in StateT /\ Quiet(S, G) /\ G.top = S.top /\ Quiet(S, S)
  BY <1>1 DEF StateT, Quiet
<1>3. P(S) = WithCI(S, Append(S.ci, k)) /\ Quiet(P(S), P(S)) /\ P(S).top = S.top
  BY <1>1 DEF StateT, Quiet, WithCI
<1>4. Quiet(P(S), P(G)) /\ P(G).top = S.top
  BY <1>1, <1>2 DEF StateT, Quiet
<1>5. \/ IncCI(S, k, res, oom) = Result(P(S), res, k.top - S.size)
      \/ \E e \in {"err", "mem"} : IncCI(S, k, res, oom) = Result(S, e, 0)
      \/ IncCI(S, k, res, oom) = Result(G, "run", 0)
      \/ IncCI(S, k, res, oom) = Result(P(G), res, k.top - S.size)
  BY DEF IncCI
<1> HIDE DEF G, P
<1>6. ASSUME NEW T, NEW h, T \in {P(S), P(G)} PROVE Adds(S, k, res, Result(T, res, h))
  BY <1>3, <1>4, <1>6 DEF Adds, Result
<1>7. ASSUME NEW T, NEW e \in {"run", "err", "mem"}, T \in {S, G}
      PROVE  Adds(S, k, res, Result(T, e, 0))
  BY <1>2, <1>7 DEF Adds, Result
<1> QED
  BY <1>5, <1>6, <1>7
\* Quiet is transitive.
LEMMA QuietTrans ==
    ASSUME NEW S, NEW T, NEW U, Quiet(S, T), Quiet(T, U)
    PROVE  Quiet(S, U)
BY DEF Quiet

\* Setting the top, or where the open results begin, is quiet.
LEMMA QuietTop ==
    ASSUME NEW S, NEW T \in StateT, NEW n \in Int, Quiet(S, T)
    PROVE  /\ Quiet(S, [T EXCEPT !.top = n]) /\ [T EXCEPT !.top = n].top = n
           /\ Quiet(S, [T EXCEPT !.open = n]) /\ [T EXCEPT !.open = n].top = T.top
BY DEF Quiet, StateT

\* The form of a result.
IsResult(r) == r = [S |-> r.S, res |-> r.res, past |-> r.past]

\* r is the result of luaD_precall of c at func, from S: c has a CallInfo, or
\* there is an error.
Enters(S, func, c, nres, r) ==
    /\ IsResult(r)
    /\ \/ /\ r.res = c.kind /\ c.kind \in {"Lua", "C"}
          /\ \E k \in CIRec : /\ k.kind = c.kind /\ k.func = func /\ k.nres = nres /\ k.tail = 0
                              /\ Quiet(WithCI(S, Append(S.ci, k)), r.S)
       \/ r.res \in {"run", "err", "mem"} /\ Quiet(S, r.S)

\* Results of that form.
LEMMA EntersError ==
    ASSUME NEW S, NEW func, NEW c, NEW nres, NEW r,
           IsResult(r),
           r.res \in {"run", "err", "mem"}, Quiet(S, r.S)
    PROVE  Enters(S, func, c, nres, r)
BY Zenon DEF Enters

LEMMA EntersOk ==
    ASSUME NEW S, NEW func, NEW c, NEW nres, NEW r, NEW k \in CIRec,
           IsResult(r),
           r.res = c.kind, c.kind \in {"Lua", "C"},
           Quiet(WithCI(S, Append(S.ci, k)), r.S),
           k.kind = c.kind, k.func = func, k.nres = nres, k.tail = 0
    PROVE  Enters(S, func, c, nres, r)
BY Zenon DEF Enters

\* tryfuncTM
LEMMA TryFuncTMQuiet ==
    ASSUME NEW S \in StateT, NEW c \in Callees
    PROVE  Quiet(S, TryFuncTM(S, c)) /\ TryFuncTM(S, c) \in StateT
<1> DEFINE T == CheckStack(S, 1)
<1>1. Quiet(S, T)
  BY CheckStackQuiet
<1> HIDE DEF T
<1>a. T \in StateT
  BY <1>1 DEF Quiet
<1>b. T.top + 1 \in Int
  BY <1>a DEF StateT
<1>2. Quiet(S, [T EXCEPT !.top = T.top + 1])
  BY <1>1, <1>a, <1>b, QuietTop
<1>3. Quiet(S, S)
  BY DEF Quiet
<1>4. TryFuncTM(S, c) = S \/ TryFuncTM(S, c) = [T EXCEPT !.top = T.top + 1]
  BY DEF TryFuncTM, T
<1>5. Quiet(S, TryFuncTM(S, c))
  BY <1>2, <1>3, <1>4
<1> QED
  BY <1>5 DEF Quiet

\* adjust_varargs, or the arguments that are dropped
LEMMA AdjustArgsQuiet ==
    ASSUME NEW S \in StateT, NEW func \in Int, NEW c \in Callees
    PROVE  Quiet(S, AdjustArgs(S, func, c)) /\ AdjustArgs(S, func, c) \in StateT
<1> DEFINE n == IF c.va THEN LuaFrame(S, func, c, 0).base + c.np
                ELSE IF S.top > func + 1 + c.np THEN func + 1 + c.np ELSE S.top
<1>1. c.np \in Nat /\ c.va \in BOOLEAN /\ S.top \in Int
  BY LuaCallsAssumption DEF StateT
<1>2. n \in Int
  BY <1>1 DEF LuaFrame, Larger
<1>3. AdjustArgs(S, func, c) = [S EXCEPT !.top = n]
  BY DEF AdjustArgs
<1>4. Quiet(S, S)
  BY DEF Quiet
<1> HIDE DEF n
<1>5. Quiet(S, [S EXCEPT !.top = n])
  BY <1>2, <1>4, QuietTop
<1> QED
  BY <1>3, <1>5 DEF Quiet

\* luaD_precall
LEMMA PrecallEnters ==
    ASSUME NEW S \in StateT, NEW func \in Int, NEW c \in Callees, NEW nres \in Int, NEW oom
    PROVE  Enters(S, func, c, nres, Precall(S, func, c, nres, oom))
<1> DEFINE S1 == TryFuncTM(S, c)
           need == IF c.kind = "Lua" THEN c.size ELSE MinStack
           S2 == CheckStack(S1, need)
           new == IF c.kind = "Lua" THEN LuaFrame(S2, func, c, nres) ELSE CFrame(S2, func, nres)
           S3 == IF c.kind = "Lua" THEN AdjustArgs(S2, func, c) ELSE S2
           r == IncCI(S3, new, c.kind, oom)
           hole == S1.top - S.size
           R == Precall(S, func, c, nres, oom)
<1>1. /\ c.kind \in {"Lua", "C", "other"} /\ c.np \in Nat /\ c.size \in Nat /\ MinStack \in Nat
      /\ c.va \in BOOLEAN
  BY LuaCallsAssumption
<1>2. Quiet(S, S1) /\ S1 \in StateT
  BY TryFuncTMQuiet
<1>3. Quiet(S1, S2) /\ S2 \in StateT
  BY SMTT(30), <1>1, <1>2, CheckStackQuiet DEF Quiet
<1>4. Quiet(S, S2)
  BY <1>2, <1>3, QuietTrans
<1>5. S2.top \in Int
  BY <1>3 DEF StateT
<1> HIDE DEF S1, S2
<1>a. Quiet(S2, S3) /\ S3 \in StateT
  BY <1>1, <1>3, <1>5, AdjustArgsQuiet DEF Quiet
<1>b. Quiet(S, S3)
  BY <1>4, <1>a, QuietTrans
<1> HIDE DEF S3
<1>6. c.kind = "Lua" => /\ LuaFrame(S2, func, c, nres) \in CIRec
                        /\ LuaFrame(S2, func, c, nres).kind = "Lua"
                        /\ LuaFrame(S2, func, c, nres).func = func
                        /\ LuaFrame(S2, func, c, nres).nres = nres
                        /\ LuaFrame(S2, func, c, nres).tail = 0
  <2> DEFINE base == IF c.va THEN S2.top + Larger(0, c.np - (S2.top - func - 1)) ELSE func + 1
  <2>1. base \in Int /\ base + c.size \in Int
    BY <1>1, <1>5 DEF Larger
  <2>2. LuaFrame(S2, func, c, nres)
          = [kind |-> "Lua", func |-> func, base |-> base, top |-> base + c.size,
             nres |-> nres, tail |-> 0]
    BY DEF LuaFrame
  <2> HIDE DEF base
  <2> QED
    BY <2>1, <2>2 DEF CIRec
<1>7. /\ CFrame(S2, func, nres) \in CIRec
      /\ CFrame(S2, func, nres).kind = "C"
      /\ CFrame(S2, func, nres).func = func
      /\ CFrame(S2, func, nres).nres = nres
      /\ CFrame(S2, func, nres).tail = 0
  BY <1>1, <1>5 DEF CFrame, CIRec
<1>8. new \in CIRec /\ new.func = func /\ new.nres = nres /\ new.tail = 0
      /\ (c.kind # "other" => new.kind = c.kind) /\ new.top \in Int
  BY <1>1, <1>6, <1>7 DEF CIRec
<1> HIDE DEF new
<1>9. Adds(S3, new, c.kind, r)
  BY <1>a, <1>8, IncCIAdds
<1>10. r.res \in {"run", "err", "mem"} \/ r.res = c.kind
  BY <1>9 DEF Adds
<1>11. \/ c.kind = "other" /\ R = Result(S, "run", 0)
       \/ R = Result(S, "mem", hole) \/ R = Result(S1, "mem", hole)
       \/ /\ c.kind = "Lua" /\ r.res = "Lua"
          /\ R = [r EXCEPT !.S.top = new.top, !.S.open = None, !.past = Larger(@, hole)]
       \/ /\ c.kind \in {"Lua", "C"}
          /\ R = [r EXCEPT !.past = Larger(Larger(@, hole), S3.top - S3.size)]
  BY <1>1 DEF Precall, S1, S2, S3, new
<1> SUFFICES Enters(S, func, c, nres, R)
  OBVIOUS
<1> HIDE DEF r, R, hole
<1>12. ASSUME c.kind # "other", r.res = c.kind PROVE Quiet(WithCI(S, Append(S.ci, new)), r.S)
  <2>1. Quiet(WithCI(S3, Append(S3.ci, new)), r.S)
    BY <1>1, <1>9, <1>12 DEF Adds
  <2>2. /\ WithCI(S3, Append(S3.ci, new)).ci = WithCI(S, Append(S.ci, new)).ci
        /\ WithCI(S3, Append(S3.ci, new)).ccalls = WithCI(S, Append(S.ci, new)).ccalls
        /\ WithCI(S3, Append(S3.ci, new)).baseccalls = WithCI(S, Append(S.ci, new)).baseccalls
        /\ WithCI(S3, Append(S3.ci, new)).status = WithCI(S, Append(S.ci, new)).status
    BY <1>a, <1>b DEF Quiet, WithCI, StateT
  <2> QED
    BY <2>1, <2>2 DEF Quiet
<1>13. ASSUME r.res \in {"run", "err", "mem"} PROVE Quiet(S, r.S)
  <2>1. Quiet(S3, r.S)
    BY <1>1, <1>9, <1>13 DEF Adds
  <2> QED
    BY <1>b, <2>1, QuietTrans
<1>14. CASE R = Result(S, "run", 0) \/ R = Result(S, "mem", hole)
  <2>1. IsResult(R) /\ R.S = S /\ R.res \in {"run", "mem"}
    BY <1>14 DEF Result, IsResult
  <2>2. Quiet(S, R.S)
    BY <2>1 DEF Quiet
  <2> QED
    BY <2>1, <2>2, EntersError
<1>15. CASE R = Result(S1, "mem", hole)
  <2>1. IsResult(R) /\ R.S = S1 /\ R.res = "mem"
    BY <1>15 DEF Result, IsResult
  <2> QED
    BY <1>2, <2>1, EntersError
<1>16. CASE /\ c.kind = "Lua" /\ r.res = "Lua"
            /\ R = [r EXCEPT !.S.top = new.top, !.S.open = None, !.past = Larger(@, hole)]
  <2> DEFINE U == [r.S EXCEPT !.top = new.top]
             T == [U EXCEPT !.open = None]
  <2>1. r = [S |-> r.S, res |-> r.res, past |-> r.past]
    BY <1>9 DEF Adds
  <2>2. IsResult(R) /\ R.S = T /\ R.res = c.kind
    BY <1>16, <2>1 DEF IsResult
  <2>3. Quiet(WithCI(S, Append(S.ci, new)), r.S) /\ r.S \in StateT
    BY <1>12, <1>16 DEF Quiet
  <2>4. Quiet(WithCI(S, Append(S.ci, new)), U)
    BY <1>8, <2>3, QuietTop
  <2> HIDE DEF U
  <2>5. U \in StateT /\ None \in Int
    BY <2>4 DEF Quiet, None
  <2>6. Quiet(WithCI(S, Append(S.ci, new)), T)
    BY <2>4, <2>5, QuietTop
  <2> HIDE DEF T
  <2> QED
    BY <1>8, <1>16, <2>2, <2>6, EntersOk
<1>17. CASE /\ c.kind \in {"Lua", "C"}
            /\ R = [r EXCEPT !.past = Larger(Larger(@, hole), S3.top - S3.size)]
  <2>1. r = [S |-> r.S, res |-> r.res, past |-> r.past]
    BY <1>9 DEF Adds
  <2>2. IsResult(R) /\ R.S = r.S /\ R.res = r.res
    BY <1>17, <2>1 DEF IsResult
  <2>3. CASE r.res = c.kind
    <3>1. Quiet(WithCI(S, Append(S.ci, new)), R.S) /\ new.kind = c.kind
      BY <1>8, <1>12, <1>17, <2>2, <2>3
    <3> QED
      BY <1>8, <1>17, <2>2, <2>3, <3>1, EntersOk
  <2>4. CASE r.res \in {"run", "err", "mem"}
    BY <1>13, <2>2, <2>4, EntersError
  <2> QED
    BY <1>10, <2>3, <2>4
<1> QED
  BY <1>11, <1>14, <1>15, <1>16, <1>17

\* luaD_poscall pops a CallInfo.
LEMMA PoscallPops ==
    ASSUME NEW S \in StateT, Len(S.ci) > 1, NEW n \in Int
    PROVE  Quiet(WithCI(S, SubSeq(S.ci, 1, Len(S.ci) - 1)), Poscall(S, n))
<1>1. S.ci \in Seq(CIRec) /\ Len(S.ci) \in Nat /\ S.ci # << >>
  BY DEF StateT
<1>2. CI(S) \in CIRec
  BY <1>1, CIType
<1>3. SubSeq(S.ci, 1, Len(S.ci) - 1) \in Seq(CIRec)
  BY <1>1, SeqFacts
<1> DEFINE z == CI(S).func + (IF CI(S).nres = MULTRET THEN n ELSE CI(S).nres)
<1>4. z \in Int
  BY <1>2 DEF CIRec
<1>5. Poscall(S, n) = [S EXCEPT !.ci = SubSeq(@, 1, Len(@) - 1), !.top = z]
  BY DEF Poscall
<1> HIDE DEF z
<1> QED
  BY <1>3, <1>4, <1>5 DEF Quiet, WithCI, StateT

\* A Lua function goes on after a call.
LEMMA AfterCallQuiet ==
    ASSUME NEW S \in StateT, S.ci # << >>, NEW ci \in CIRec
    PROVE  Quiet(S, AfterCall(S, ci))
<1>1. CI(S).top \in Int /\ ci.func \in Int /\ None \in Int
  BY CIType DEF CIRec, None
<1>2. \/ AfterCall(S, ci) = [S EXCEPT !.open = ci.func]
      \/ AfterCall(S, ci) = [S EXCEPT !.top = CI(S).top, !.open = None]
  BY DEF AfterCall
<1> QED
  BY <1>1, <1>2 DEF Quiet, StateT

\* adjustresults changes the top of a CallInfo only.
LEMMA AdjustQuiet ==
    ASSUME NEW S \in StateT, S.ci # << >>, NEW nres
    PROVE  LET T == AdjustResults(S, nres) IN
           /\ T \in StateT /\ Len(T.ci) = Len(S.ci) /\ SameKinds(T.ci, S.ci, Len(S.ci))
           /\ T.ccalls = S.ccalls /\ T.baseccalls = S.baseccalls /\ T.status = S.status
<1> DEFINE K == [S.ci EXCEPT ![Len(S.ci)].top = S.top]
           T == AdjustResults(S, nres)
<1>1. S.ci \in Seq(CIRec) /\ Len(S.ci) \in Nat \ {0} /\ S.top \in Int
  BY CIType DEF StateT
<1>2. K \in Seq(CIRec) /\ Len(K) = Len(S.ci) /\ \A j \in 1..Len(S.ci) : K[j].kind = S.ci[j].kind
  <2>1. \A j \in 1..Len(S.ci) : S.ci[j] \in CIRec
    BY <1>1
  <2>2. \A k \in CIRec, z \in Int : [k EXCEPT !.top = z] \in CIRec
                                   /\ [k EXCEPT !.top = z].kind = k.kind
    BY DEF CIRec
  <2>3. S.ci[Len(S.ci)] \in CIRec
    BY <1>1
  <2>4. K = [S.ci EXCEPT ![Len(S.ci)] = [S.ci[Len(S.ci)] EXCEPT !.top = S.top]]
    OBVIOUS
  <2> HIDE DEF K
  <2>5. PICK k \in CIRec : /\ k.kind = S.ci[Len(S.ci)].kind
                           /\ K = [S.ci EXCEPT ![Len(S.ci)] = k]
    BY <1>1, <2>2, <2>3, <2>4
  <2> QED
    BY <1>1, <2>5
<1>3. T = S \/ T = [S EXCEPT !.ci = K]
  BY DEF AdjustResults
<1> HIDE DEF K, T
<1>4. /\ T \in StateT /\ (T.ci = S.ci \/ T.ci = K)
      /\ T.ccalls = S.ccalls /\ T.baseccalls = S.baseccalls /\ T.status = S.status
  BY <1>2, <1>3 DEF StateT
<1>5. Len(T.ci) = Len(S.ci) /\ SameKinds(T.ci, S.ci, Len(S.ci))
  BY <1>1, <1>2, <1>4 DEF SameKinds
<1> QED
  BY <1>4, <1>5 DEF T
-----------------------------------------------------------------------------
(* The steps.                                                              *)

\* A state in which the three stacks agree satisfies the invariant.
LEMMA InvOk ==
    ASSUME L' \in StateT, L'.ci # << >>, cs' \in Seq(FrameT), ended' = "no", L'.status = "ok",
           Lively(cs', L'.ci, L'.ccalls, L'.baseccalls)
    PROVE  Inv'
<1>1. L'.ci \in Seq(CIRec) /\ L'.ccalls \in Int
  BY DEF StateT
<1>2. Len(L'.ci) \in 1..Len(L'.ci) /\ SubSeq(L'.ci, 1, Len(L'.ci)) = L'.ci
  BY <1>1
<1>3. Torn'
  <2>1. Lively(cs', SubSeq(L'.ci, 1, Len(L'.ci)), L'.ccalls, L'.baseccalls)
    BY <1>2
  <2> QED
    BY <1>1, <1>2, <2>1 DEF Torn, Lively, Good, Shape, Saved, Agree, AgreeBy
<1>4. TypesInv'
  BY DEF TypesInv
<1> QED
  BY <1>3, <1>4 DEF Inv, Lively, Good, Shape, Saved, Agree, AgreeBy

\* A step that may fail leaves the stacks in agreement, if they agree with the
\* C stack it asks for.
LEMMA EndsGood ==
    ASSUME ended = "no", NEW r, NEW ok, NEW raised, NEW oom, Ends(r, ok, raised, oom),
           r.S \in StateT, r.S.ci # << >>, r.S.status = "ok",
           r.res \in {"ok", "Lua", "C"} =>
              ok \in Seq(FrameT) /\ Lively(ok, r.S.ci, r.S.ccalls, r.S.baseccalls),
           r.res \in {"run", "err", "mem"} =>
              /\ raised \in Seq(FrameT) /\ Lively(raised, r.S.ci, r.S.ccalls, r.S.baseccalls)
              /\ raised # << >> \/ r.S.baseccalls = 0,
           r.res \in {"ok", "Lua", "C", "run", "err", "mem"}
    PROVE  Inv'
<1>1. L' = r.S /\ ended' = "no"
  BY DEF Ends
<1>2. r.S.ci \in Seq(CIRec) /\ r.S.ccalls \in Int
  BY DEF StateT
<1>3. CASE r.res \in {"ok", "Lua", "C"}
  <2>1. cs' = ok
    BY <1>3 DEF Ends
  <2> QED
    BY <1>1, <1>3, <2>1, InvOk
<1>4. CASE r.res \in {"run", "err", "mem"}
  <2>1. PICK f \in Plain : cs' = Append(raised, f) /\ Weight(f) = 0
    <3>1. CASE r.res = "run"
      <4>1. cs' = Append(raised, [t |-> "error", msg |-> TRUE])
        BY <3>1 DEF Ends
      <4>2. [t |-> "error", msg |-> TRUE] \in Plain /\ Weight([t |-> "error", msg |-> TRUE]) = 0
        BY DEF Plain, FrameT, Weight, Counted
      <4> QED
        BY <4>1, <4>2
    <3>2. CASE r.res \in {"err", "mem"}
      <4>1. cs' = Append(raised, [t |-> "throw", code |-> r.res])
        BY <3>2 DEF Ends
      <4>2. /\ [t |-> "throw", code |-> r.res] \in Plain
            /\ Weight([t |-> "throw", code |-> r.res]) = 0
        BY <3>2 DEF Plain, FrameT, Weight, Counted
      <4> QED
        BY <4>1, <4>2
    <3> QED
      BY <1>4, <3>1, <3>2
  <2>2. f \in FrameT
    BY DEF Plain
  <2>3. cs' \in Seq(FrameT)
    BY <1>4, <2>1, <2>2, SeqFacts
  <2>4. Lively(cs', r.S.ci, r.S.ccalls + Weight(f), r.S.baseccalls)
    BY <1>2, <1>4, <2>1, LivelyPlain
  <2>5. r.S.ccalls + Weight(f) = r.S.ccalls
    BY <1>2, <2>1
  <2> QED
    BY <1>1, <2>3, <2>4, <2>5, InvOk
<1> QED
  BY <1>3, <1>4

\* The same for a step that does not fail.
LEMMA DoesGood ==
    ASSUME ended = "no", NEW S \in StateT, NEW s \in Seq(FrameT), Does(S, s),
           S.ci # << >>, S.status = "ok", Lively(s, S.ci, S.ccalls, S.baseccalls)
    PROVE  Inv'
<1>1. L' = S /\ ended' = "no" /\ cs' = s
  BY DEF Does, Ends, Result
<1> QED
  BY <1>1, InvOk

\* What is known when the frame on top of the C stack runs.
LEMMA Runs ==
    ASSUME Inv, NEW t, At(t), t \notin {"resume", "throw"}
    PROVE  /\ ended = "no" /\ cs \in Seq(FrameT) /\ cs # << >> /\ L \in StateT
           /\ L.ci \in Seq(CIRec) /\ L.ci # << >> /\ L.status = "ok"
           /\ L.ccalls \in Int /\ L.top \in Int /\ L.baseccalls \in Int
           /\ Lively(cs, L.ci, L.ccalls, L.baseccalls)
           /\ TopFrame = Last(cs) /\ TopFrame \in FrameT /\ TopFrame.t = t
<1>1. ended = "no" /\ cs # << >> /\ TopFrame.t = t
  BY DEF At
<1>2. L \in StateT /\ L.ci # << >> /\ cs \in Seq(FrameT)
  BY DEF Inv, TypesInv
<1>3. /\ L.ci \in Seq(CIRec) /\ L.ccalls \in Int /\ L.top \in Int /\ L.baseccalls \in Int
      /\ L.status \in Status
  BY <1>2 DEF StateT
<1>4. TopFrame = Last(cs) /\ TopFrame \in FrameT
  BY <1>1, <1>2 DEF TopFrame, Last
<1>5. L.status # "dead"
  BY <1>1 DEF Inv
<1>6. L.status # "yield"
  <2> SUFFICES ASSUME L.status = "yield" PROVE FALSE
    OBVIOUS
  <2>1. cs = <<Frame("resume")>>
    BY <1>1 DEF Inv, Asleep
  <2>2. TopFrame.t = "resume"
    BY <2>1 DEF TopFrame, Frame
  <2> QED
    BY <1>1, <2>2
<1>7. L.status = "ok" /\ ~Throwing
  BY <1>1, <1>3, <1>5, <1>6 DEF Status, Throwing
<1>8. Lively(cs, L.ci, L.ccalls, L.baseccalls)
  BY <1>1, <1>7 DEF Inv
<1> QED
  BY <1>1, <1>2, <1>3, <1>4, <1>7, <1>8

\* luaD_precall on behalf of luaD_call.
LEMMA EnterStep ==
    ASSUME Inv, NEW c \in Callees, NEW oom, Enter(c, oom)
    PROVE  Inv'
<1> DEFINE f == TopFrame
           S == [L EXCEPT !.ccalls = @ + 1]
           r == IF S.ccalls = MaxCCalls THEN Result(S, "run", 0)
                ELSE IF S.ccalls >= MaxCCalls + ExtraCCalls THEN Result(S, "err", 0)
                ELSE Precall(S, f.func, c, f.nres, oom)
           here == Replace(Frame("call"))
           new == IF c.kind = "Lua" THEN [t |-> "exec", n |-> 1] ELSE Frame("cfun")
<1>1. /\ ended = "no" /\ cs \in Seq(FrameT) /\ cs # << >> /\ L \in StateT
      /\ L.ci \in Seq(CIRec) /\ L.ci # << >> /\ L.status = "ok" /\ L.ccalls \in Int
      /\ Lively(cs, L.ci, L.ccalls, L.baseccalls)
      /\ TopFrame = Last(cs) /\ TopFrame \in FrameT /\ TopFrame.t = "enter"
  <2>1. At("enter")
    BY DEF Enter
  <2> QED
    BY <2>1, Runs
<1>2. f.func \in Int /\ f.nres \in Int /\ Last(cs) \in Plain /\ Weight(Last(cs)) = 0
  BY <1>1 DEF FrameT, Plain, Weight, Counted
<1>3. Ends(r, Append(here, new), here, oom)
  BY DEF Enter
<1>4. Frame("call") \in Plain /\ Frame("call") \in FrameT /\ Weight(Frame("call")) = 1
  BY DEF Frame, FrameT, Plain, Weight, Counted
<1>5. here = Append(Front(cs), Frame("call")) /\ here \in Seq(FrameT)
  BY <1>1, <1>4, ReplaceIs DEF Replace
<1>6. Lively(here, L.ci, L.ccalls + 1, L.baseccalls)
  <2>1. Lively(here, L.ci, L.ccalls - Weight(Last(cs)) + Weight(Frame("call")), L.baseccalls)
    BY <1>1, <1>2, <1>4, <1>5, LivelyReplace
  <2>2. L.ccalls - Weight(Last(cs)) + Weight(Frame("call")) = L.ccalls + 1
    BY <1>1, <1>2, <1>4
  <2> QED
    BY <2>1, <2>2
<1>7. here # << >> /\ Last(here) = Frame("call")
  <2>1. Front(cs) \in Seq(FrameT)
    BY <1>1, LivelyPop
  <2> QED
    BY <1>4, <1>5, <2>1 DEF Last
<1>8. /\ S \in StateT /\ S.ci = L.ci /\ S.ccalls = L.ccalls + 1 /\ S.baseccalls = L.baseccalls
      /\ S.status = "ok"
  BY <1>1 DEF StateT
<1> HIDE DEF f, S, here
<1>9. Enters(S, f.func, c, f.nres, r)
  <2>1. Quiet(S, S)
    BY <1>8 DEF Quiet
  <2>2. \A e, h : /\ IsResult(Result(S, e, h))
                  /\ Result(S, e, h).res = e /\ Result(S, e, h).S = S
    BY DEF Result, IsResult
  <2>3. /\ Enters(S, f.func, c, f.nres, Result(S, "run", 0))
        /\ Enters(S, f.func, c, f.nres, Result(S, "err", 0))
    BY <2>1, <2>2, EntersError
  <2>4. Enters(S, f.func, c, f.nres, Precall(S, f.func, c, f.nres, oom))
    BY <1>2, <1>8, PrecallEnters
  <2> QED
    BY <2>3, <2>4
<1> HIDE DEF r
<1>10. CASE r.res \in {"run", "err", "mem"}
  <2>1. Quiet(S, r.S)
    BY <1>9, <1>10 DEF Enters
  <2>2. /\ r.S \in StateT /\ r.S.ci = L.ci /\ r.S.ccalls = L.ccalls + 1
        /\ r.S.baseccalls = L.baseccalls /\ r.S.status = "ok"
    BY <1>8, <2>1 DEF Quiet
  <2> QED
    BY <1>1, <1>3, <1>5, <1>6, <1>7, <1>10, <2>2, EndsGood
<1>11. CASE r.res \notin {"run", "err", "mem"}
  <2>1. PICK k \in CIRec : /\ k.kind = c.kind
                           /\ Quiet(WithCI(S, Append(S.ci, k)), r.S)
    BY <1>9, <1>11 DEF Enters
  <2>2. r.res = c.kind /\ c.kind \in {"Lua", "C"}
    BY <1>9, <1>11 DEF Enters
  <2>3. /\ r.S \in StateT /\ r.S.ci = Append(L.ci, k) /\ r.S.ccalls = L.ccalls + 1
        /\ r.S.baseccalls = L.baseccalls /\ r.S.status = "ok"
    BY <1>8, <2>1 DEF Quiet, WithCI, StateT
  <2>4. /\ new \in FrameT /\ new.t \in {"exec", "cfun"} /\ Size(new) = 1
        /\ KindOf(new) = c.kind /\ Above(here, new)
    BY <1>7, <2>2 DEF FrameT, Frame, Size, KindOf, Above
  <2> HIDE DEF new
  <2>5. Lively(Append(here, new), r.S.ci, r.S.ccalls, r.S.baseccalls)
    <3>1. L.ccalls + 1 \in Int
      BY <1>1
    <3>2. Lively(Append(here, new), Append(L.ci, k), L.ccalls + 1, L.baseccalls)
      BY <1>1, <1>5, <1>6, <1>7, <2>1, <2>4, <3>1, LivelyCall
    <3> QED
      BY <2>3, <3>2
  <2>6. Append(here, new) \in Seq(FrameT)
    BY <1>5, <2>4, SeqFacts
  <2>7. r.S.ci # << >>
    BY <1>1, <2>3
  <2> QED
    BY <1>1, <1>3, <1>11, <2>2, <2>3, <2>5, <2>6, <2>7, EndsGood
<1> QED
  BY <1>10, <1>11
\* A thread that runs, or that its owner may use.
Ready ==
    /\ ended = "no" /\ cs \in Seq(FrameT) /\ L \in StateT
    /\ L.ci \in Seq(CIRec) /\ L.ci # << >> /\ L.status = "ok"
    /\ L.ccalls \in Int /\ L.top \in Int /\ L.baseccalls \in Int
    /\ Lively(cs, L.ci, L.ccalls, L.baseccalls)

LEMMA RunsReady ==
    ASSUME Inv, NEW t, At(t), t \notin {"resume", "throw"}
    PROVE  /\ Ready /\ cs # << >>
           /\ TopFrame = Last(cs) /\ TopFrame \in FrameT /\ TopFrame.t = t
BY Runs DEF Ready

LEMMA IdleReady ==
    ASSUME Inv, Idle, L.status = "ok"
    PROVE  Ready
<1>1. ended = "no" /\ ~Throwing /\ L \in StateT /\ L.ci # << >> /\ cs \in Seq(FrameT)
  BY DEF Inv, TypesInv, Idle, Throwing
<1>2. L.ci \in Seq(CIRec) /\ L.ccalls \in Int /\ L.top \in Int /\ L.baseccalls \in Int
  BY <1>1 DEF StateT
<1>3. Lively(cs, L.ci, L.ccalls, L.baseccalls)
  BY <1>1 DEF Inv
<1> QED
  BY <1>1, <1>2, <1>3 DEF Ready

LEMMA InCReady ==
    ASSUME Inv, InC, L.status = "ok"
    PROVE  Ready
BY IdleReady, RunsReady DEF InC

\* A step on the Lua stack that may raise an error.
LEMMA Stays ==
    ASSUME Ready, NEW r, NEW oom, Ends(r, cs, cs, oom), Quiet(L, r.S),
           r.res \in {"ok", "run", "err", "mem"}, cs # << >> \/ r.res = "ok"
    PROVE  Inv'
<1>1. /\ r.S \in StateT /\ r.S.ci = L.ci /\ r.S.ccalls = L.ccalls
      /\ r.S.baseccalls = L.baseccalls /\ r.S.status = "ok"
  BY DEF Ready, Quiet
<1>2. Lively(cs, r.S.ci, r.S.ccalls, r.S.baseccalls) /\ r.S.ci # << >> /\ cs \in Seq(FrameT)
  BY <1>1 DEF Ready
<1>3. ended = "no"
  BY DEF Ready
<1> QED
  BY <1>1, <1>2, <1>3, EndsGood

\* A step on the Lua stack only.
LEMMA DoesStays ==
    ASSUME Ready, NEW S, Does(S, cs), Quiet(L, S)
    PROVE  Inv'
<1>1. S \in StateT /\ S.ci # << >> /\ S.status = "ok" /\ ended = "no" /\ cs \in Seq(FrameT)
  BY DEF Ready, Quiet
<1>2. Lively(cs, S.ci, S.ccalls, S.baseccalls)
  BY DEF Ready, Quiet
<1> QED
  BY <1>1, <1>2, DoesGood

\* A plain frame is pushed.
LEMMA DoesPush ==
    ASSUME Ready, cs # << >>, NEW S, NEW f \in Plain, Weight(f) = 0, Quiet(L, S),
           Does(S, Append(cs, f))
    PROVE  Inv'
<1>1. S \in StateT /\ S.ci # << >> /\ S.status = "ok" /\ ended = "no" /\ cs \in Seq(FrameT)
  BY DEF Ready, Quiet
<1>2. f \in FrameT /\ Append(cs, f) \in Seq(FrameT)
  BY <1>1, SeqFacts DEF Plain
<1>3. Lively(Append(cs, f), L.ci, L.ccalls + Weight(f), L.baseccalls) /\ L.ccalls + 0 = L.ccalls
  BY LivelyPlain DEF Ready
<1>4. Lively(Append(cs, f), S.ci, S.ccalls, S.baseccalls)
  BY <1>3 DEF Quiet
<1> QED
  BY <1>1, <1>2, <1>4, DoesGood

\* A plain frame returns.
LEMMA DoesPop ==
    ASSUME Ready, cs # << >>, Size(Last(cs)) = 0, NEW S \in StateT, Does(S, Pop),
           S.ci \in Seq(CIRec), Len(S.ci) = Len(L.ci), SameKinds(S.ci, L.ci, Len(L.ci)),
           S.status = "ok", S.baseccalls = L.baseccalls,
           S.ccalls = L.ccalls - Weight(Last(cs))
    PROVE  Inv'
<1>1. ended = "no" /\ cs \in Seq(FrameT) /\ L.ci \in Seq(CIRec) /\ L.ci # << >>
  BY DEF Ready
<1>2. Pop = Front(cs)
  BY DEF Pop, Front
<1>3. Lively(Front(cs), L.ci, S.ccalls, S.baseccalls) /\ Front(cs) \in Seq(FrameT)
  BY LivelyPop, LivelyPopPlain DEF Ready
<1>4. Lively(Front(cs), S.ci, S.ccalls, S.baseccalls)
  BY <1>1, <1>3, Rekind DEF Lively
<1>5. S.ci # << >>
  BY <1>1
<1> QED
  BY <1>1, <1>2, <1>3, <1>4, <1>5, DoesGood

LEMMA CallReturnsStep ==
    ASSUME Inv, CallReturns PROVE Inv'
<1>1. /\ Ready /\ cs # << >> /\ TopFrame = Last(cs) /\ TopFrame.t = "call"
  BY RunsReady DEF CallReturns
<1>2. Size(Last(cs)) = 0 /\ Weight(Last(cs)) = 1
  BY <1>1 DEF Size, Weight, Counted
<1> DEFINE S == [L EXCEPT !.ccalls = @ - 1]
<1>3. /\ S \in StateT /\ S.ci = L.ci /\ S.ccalls = L.ccalls - 1 /\ S.baseccalls = L.baseccalls
      /\ S.status = "ok"
  BY <1>1 DEF Ready, StateT
<1>4. Does(S, Pop)
  BY DEF CallReturns
<1> HIDE DEF S
<1>5. S.ci \in Seq(CIRec) /\ Len(S.ci) = Len(L.ci) /\ SameKinds(S.ci, L.ci, Len(L.ci))
  BY <1>1, <1>3 DEF Ready, SameKinds
<1> QED
  BY <1>1, <1>2, <1>3, <1>4, <1>5, DoesPop

LEMMA TMReturnsStep ==
    ASSUME Inv, TMReturns PROVE Inv'
<1>1. /\ Ready /\ cs # << >> /\ TopFrame = Last(cs) /\ TopFrame.t = "tm"
  BY RunsReady DEF TMReturns
<1>2. Size(Last(cs)) = 0 /\ Weight(Last(cs)) = 0
  BY <1>1 DEF Size, Weight, Counted
<1> DEFINE S == [L EXCEPT !.top = IF TopFrame.res THEN @ - 1 ELSE @]
<1>3. /\ S \in StateT /\ S.ci = L.ci /\ S.ccalls = L.ccalls - 0 /\ S.baseccalls = L.baseccalls
      /\ S.status = "ok"
  <2>1. (IF TopFrame.res THEN L.top - 1 ELSE L.top) \in Int
    BY <1>1 DEF Ready
  <2> QED
    BY <1>1, <2>1 DEF Ready, StateT
<1>4. Does(S, Pop)
  BY DEF TMReturns
<1> HIDE DEF S
<1>5. S.ci \in Seq(CIRec) /\ Len(S.ci) = Len(L.ci) /\ SameKinds(S.ci, L.ci, Len(L.ci))
  BY <1>1, <1>3 DEF Ready, SameKinds
<1> QED
  BY <1>1, <1>2, <1>3, <1>4, <1>5, DoesPop

LEMMA PcallReturnsStep ==
    ASSUME Inv, PcallReturns PROVE Inv'
<1>1. /\ Ready /\ cs # << >> /\ TopFrame = Last(cs) /\ TopFrame \in FrameT
      /\ TopFrame.t = "pcall"
  BY RunsReady DEF PcallReturns
<1>2. Size(Last(cs)) = 0 /\ Weight(Last(cs)) = 0 /\ TopFrame.errfunc \in ErrFunc
  BY <1>1 DEF Size, Weight, Counted, FrameT
<1> DEFINE S == [L EXCEPT !.errfunc = TopFrame.errfunc]
           T == AdjustResults(S, TopFrame.nres)
<1>3. /\ S \in StateT /\ S.ci = L.ci /\ S.ccalls = L.ccalls /\ S.baseccalls = L.baseccalls
      /\ S.status = "ok" /\ S.ci # << >> /\ L.ccalls - 0 = L.ccalls
  BY SMTT(30), <1>1, <1>2 DEF Ready, StateT
<1>4. Does(T, Pop)
  BY DEF PcallReturns
<1> HIDE DEF S
<1>5. /\ T \in StateT /\ Len(T.ci) = Len(L.ci) /\ SameKinds(T.ci, L.ci, Len(L.ci))
      /\ T.ccalls = L.ccalls /\ T.baseccalls = L.baseccalls /\ T.status = "ok"
  BY <1>3, AdjustQuiet
<1> HIDE DEF T
<1>6. T.ci \in Seq(CIRec)
  BY <1>5 DEF StateT
<1> QED
  BY <1>1, <1>2, <1>3, <1>4, <1>5, <1>6, DoesPop

\* Instructions and API functions that leave the C stack alone.
LEMMA OpVarargStep ==
    ASSUME Inv, NEW oom, OpVararg(oom) PROVE Inv'
<1> DEFINE n == CI(L).base - CI(L).func - 2
           T == CheckStack(L, n)
           U == [T EXCEPT !.top = Base + 1 + n, !.open = Base + 1]
<1>1. Ready /\ cs # << >>
  BY RunsReady DEF OpVararg
<1>a. CI(L).base \in Int /\ CI(L).func \in Int
  BY <1>1, CIType DEF Ready, CIRec
<1>2. n \in Int /\ Base + 1 + n \in Int /\ Base + 1 \in Int
  BY <1>a DEF Base
<1>3. Quiet(L, T)
  BY <1>1, <1>2, CheckStackQuiet DEF Ready
<1>4. \/ Ends(Result(L, "mem", 0), cs, cs, oom)
      \/ Ends(Result(U, "ok", Base + 1 + n - T.size), cs, cs, oom)
  BY DEF OpVararg
<1> HIDE DEF n, T
<1>5. Quiet(L, U) /\ Quiet(L, L)
  BY <1>1, <1>2, <1>3 DEF Quiet, StateT, Ready
<1> HIDE DEF U
<1>6. \A X, e, h : Result(X, e, h).S = X /\ Result(X, e, h).res = e
  BY DEF Result
<1> QED
  BY <1>1, <1>4, <1>5, <1>6, Stays

LEMMA OpClosureStep ==
    ASSUME Inv, OpClosure PROVE Inv'
<1> DEFINE u == [slot |-> Base, depth |-> Len(L.ci), tail |-> CI(L).tail]
<1>1. Ready
  BY RunsReady DEF OpClosure
<1>2. u \in Upval
  BY SMTT(30), <1>1, CIType DEF Ready, CIRec, Base, Upval
<1>3. Does([L EXCEPT !.upvals = @ \cup {u}], cs)
  BY DEF OpClosure
<1> HIDE DEF u
<1>4. Quiet(L, [L EXCEPT !.upvals = @ \cup {u}])
  BY <1>1, <1>2 DEF Quiet, Ready, StateT
<1> QED
  BY <1>1, <1>3, <1>4, DoesStays

LEMMA OpErrorStep ==
    ASSUME Inv, OpError PROVE Inv'
<1>1. Ready /\ cs # << >>
  BY RunsReady DEF OpError
<1>2. Ends(Result(L, "run", 0), cs, cs, FALSE)
  BY DEF OpError
<1>3. Quiet(L, Result(L, "run", 0).S) /\ Result(L, "run", 0).res = "run"
  BY <1>1 DEF Result, Quiet, Ready
<1> QED
  BY <1>1, <1>2, <1>3, Stays

LEMMA SetTopStep ==
    ASSUME Inv, SetTop(0) PROVE Inv'
<1>1. Ready
  BY InCReady DEF SetTop
<1>2. CI(L).base + 0 \in Int
  BY <1>1, CIType DEF Ready, CIRec
<1>3. Does([L EXCEPT !.top = CI(L).base + 0], cs)
  BY DEF SetTop
<1>4. Quiet(L, [L EXCEPT !.top = CI(L).base + 0])
  BY <1>1, <1>2 DEF Quiet, Ready, StateT
<1> QED
  BY <1>1, <1>3, <1>4, DoesStays

LEMMA ResumeRunningStep ==
    ASSUME Inv, ResumeRunning PROVE Inv'
<1> DEFINE S == [L EXCEPT !.top = CI(L).base]
           T == CheckStack(S, 1)
           U == [T EXCEPT !.top = @ + 1]
<1>1. Ready
  BY RunsReady DEF ResumeRunning
<1>2. CI(L).base \in Int
  BY <1>1, CIType DEF Ready, CIRec
<1>3. Quiet(L, S) /\ S \in StateT
  BY <1>1, <1>2 DEF Quiet, Ready, StateT
<1>4. Does(U, cs)
  BY DEF ResumeRunning
<1> HIDE DEF S
<1>5. Quiet(S, T)
  BY <1>3, CheckStackQuiet
<1> HIDE DEF T
<1>6. Quiet(L, T) /\ T \in StateT
  BY <1>3, <1>5 DEF Quiet
<1>7. Quiet(L, U)
  BY <1>6 DEF Quiet, StateT
<1> QED
  BY <1>1, <1>4, <1>7, DoesStays

LEMMA ShrinkStep ==
    ASSUME Inv, Shrink PROVE Inv'
<1>1. L \in StateT /\ L.ci # << >> /\ cs \in Seq(FrameT)
  BY DEF Inv, TypesInv
<1>2. L.sizeci \in Int /\ L.size \in Int /\ Extra \in Nat
  BY <1>1, LuaCallsAssumption DEF StateT
<1>3. L.sizeci \div 2 \in Int /\ L.size \div 2 + 1 + Extra \in Int
  BY <1>2
<1>4. \E a \in {L.sizeci, L.sizeci \div 2}, b \in {L.size, L.size \div 2 + 1 + Extra} :
         Does([L EXCEPT !.sizeci = a, !.size = b], cs)
  BY DEF Shrink
<1>5. PICK a \in Int, b \in Int : Does([L EXCEPT !.sizeci = a, !.size = b], cs)
  BY <1>2, <1>3, <1>4
<1>6. Quiet(L, [L EXCEPT !.sizeci = a, !.size = b])
  BY <1>1 DEF Quiet, StateT
<1>7. CASE Idle => L.status = "ok"
  <2>1. Ready
    BY <1>7, RunsReady, IdleReady DEF Shrink
  <2> QED
    BY <1>5, <1>6, <2>1, DoesStays
<1>8. CASE Idle /\ L.status # "ok"
  <2>1. ended = "no" /\ cs = << >>
    BY <1>8 DEF Idle
  <2>2. L' = [L EXCEPT !.sizeci = a, !.size = b] /\ cs' = cs /\ ended' = "no"
    BY <1>5, <2>1 DEF Does, Ends, Result
  <2>3. L' \in StateT /\ L'.ci = L.ci /\ L'.ccalls = L.ccalls /\ L'.status = L.status
    BY <1>6, <2>2 DEF Quiet
  <2>4. TypesInv'
    BY <1>1, <2>2, <2>3 DEF TypesInv
  <2>5. L.status = "yield" => Asleep'
    BY <2>2, <2>3 DEF Inv, Asleep
  <2> QED
    BY <1>8, <2>1, <2>2, <2>3, <2>4, <2>5 DEF Inv
<1> QED
  BY <1>7, <1>8
\* The CallInfo of the function that runs.
LEMMA ReadyCI ==
    ASSUME Ready
    PROVE  /\ CI(L) \in CIRec /\ Len(L.ci) \in Nat \ {0}
           /\ CI(L).base \in Int /\ CI(L).func \in Int /\ CI(L).top \in Int
           /\ CI(L).nres \in Int /\ CI(L).tail \in Int /\ L.open \in Int
<1>1. CI(L) \in CIRec /\ Len(L.ci) \in Nat \ {0}
  BY CIType DEF Ready
<1>2. L.open \in Int
  BY DEF Ready, StateT
<1> QED
  BY <1>1, <1>2 DEF CIRec

\* A luaV_execute or a C function has a CallInfo above the base.
LEMMA OwnsOne ==
    ASSUME Ready, cs # << >>, Last(cs).t \in {"exec", "cfun"}
    PROVE  /\ Len(L.ci) > 1 /\ Len(cs) > 1
           /\ Last(cs).t = "exec" => Last(cs) = [t |-> "exec", n |-> Last(cs).n]
                                     /\ Last(cs).n \in Nat \ {0}
<1>1. /\ Last(cs) \in FrameT /\ Size(Last(cs)) \in Nat
      /\ Len(L.ci) - Size(Last(cs)) \in 1..Len(L.ci) /\ Len(L.ci) \in Nat
  BY LastOwns DEF Ready, Lively
<1>2. Last(cs).t = "exec" => Last(cs) = [t |-> "exec", n |-> Last(cs).n]
                             /\ Last(cs).n \in Nat \ {0}
  BY <1>1 DEF FrameT
<1>3. Size(Last(cs)) # 0
  BY <1>2 DEF Size
<1>4. Len(cs) > 1
  BY DEF Ready, Lively, Good, Shape, Last
<1> QED
  BY <1>1, <1>2, <1>3, <1>4

\* luaD_precall from a state that differs from L in the stack only.
LEMMA Entered ==
    ASSUME Ready, NEW S, Quiet(L, S), NEW func, NEW c, NEW nres, NEW r,
           Enters(S, func, c, nres, r)
    PROVE  \/ r.res \in {"run", "err", "mem"} /\ Quiet(L, r.S)
           \/ /\ r.res = c.kind /\ c.kind \in {"Lua", "C"}
              /\ \E k \in CIRec : k.kind = c.kind /\ Quiet(WithCI(L, Append(L.ci, k)), r.S)
<1>1. CASE r.res \in {"run", "err", "mem"} /\ Quiet(S, r.S)
  BY <1>1, QuietTrans
<1>2. ASSUME NEW k \in CIRec, k.kind = c.kind, Quiet(WithCI(S, Append(S.ci, k)), r.S)
      PROVE  Quiet(WithCI(L, Append(L.ci, k)), r.S)
  <2>1. /\ WithCI(S, Append(S.ci, k)).ci = WithCI(L, Append(L.ci, k)).ci
        /\ WithCI(S, Append(S.ci, k)).ccalls = WithCI(L, Append(L.ci, k)).ccalls
        /\ WithCI(S, Append(S.ci, k)).baseccalls = WithCI(L, Append(L.ci, k)).baseccalls
        /\ WithCI(S, Append(S.ci, k)).status = WithCI(L, Append(L.ci, k)).status
    BY DEF Ready, Quiet, WithCI, StateT
  <2> QED
    BY <1>2, <2>1 DEF Quiet
<1> QED
  BY <1>1, <1>2, Zenon DEF Enters

\* What the parts of a state are that has the CallInfos K and is like L otherwise.
LEMMA WithCIs ==
    ASSUME Ready, NEW K \in Seq(CIRec), NEW S, Quiet(WithCI(L, K), S)
    PROVE  /\ S \in StateT /\ S.ci = K /\ S.ccalls = L.ccalls
           /\ S.baseccalls = L.baseccalls /\ S.status = "ok"
BY DEF Ready, Quiet, WithCI, StateT

\* The arguments of OP_CALL.
LEMMA CallSetup ==
    ASSUME Ready
    PROVE  CallArgs \in StateT /\ Quiet(L, CallArgs) /\ CallFunc \in Int
<1>1. CI(L).base \in Int /\ L.open \in Int
  BY ReadyCI
<1>2. L \in StateT /\ Quiet(L, L) /\ CI(L).base + 3 \in Int
  BY <1>1 DEF Ready, Quiet
<1>3. Quiet(L, [L EXCEPT !.top = CI(L).base + 3])
  BY <1>2, QuietTop
<1>4. Quiet(L, CallArgs)
  BY <1>2, <1>3 DEF CallArgs, Base
<1>5. CallFunc \in Int
  BY <1>1 DEF CallFunc, Base
<1> QED
  BY <1>4, <1>5 DEF Quiet

\* nexeccalls changes.
LEMMA ExecCounts ==
    ASSUME Ready, cs # << >>, TopFrame = Last(cs), Last(cs).t = "exec", NEW m \in Nat \ {0}
    PROVE  /\ Replace([TopFrame EXCEPT !.n = m]) = Append(Front(cs), [t |-> "exec", n |-> m])
           /\ Append(Front(cs), [t |-> "exec", n |-> m]) \in Seq(FrameT)
<1> DEFINE f == [t |-> "exec", n |-> m]
<1>1. f \in FrameT
  BY DEF FrameT
<1>2. [TopFrame EXCEPT !.n = m] = f
  BY OwnsOne
<1> HIDE DEF f
<1>3. Replace(f) = Append(Front(cs), f) /\ Append(Front(cs), f) \in Seq(FrameT)
  BY <1>1, ReplaceIs DEF Ready, Replace
<1> QED
  BY <1>2, <1>3 DEF f

LEMMA OpCallStep ==
    ASSUME Inv, NEW c \in Callees, NEW nres \in Int, NEW oom, OpCall(c, nres, oom)
    PROVE  Inv'
<1> DEFINE r == Precall(CallArgs, CallFunc, c, nres, oom)
           up == Replace([TopFrame EXCEPT !.n = @ + 1])
           ok == IF c.kind = "Lua" THEN up ELSE Append(cs, Frame("cfun"))
<1>1. Ready /\ cs # << >> /\ TopFrame = Last(cs) /\ TopFrame.t = "exec"
  BY RunsReady DEF OpCall
<1>2. Ends(r, ok, cs, oom)
  BY DEF OpCall
<1>3. \/ r.res \in {"run", "err", "mem"} /\ Quiet(L, r.S)
      \/ /\ r.res = c.kind /\ c.kind \in {"Lua", "C"}
         /\ \E k \in CIRec : k.kind = c.kind /\ Quiet(WithCI(L, Append(L.ci, k)), r.S)
  <2>1. CallArgs \in StateT /\ Quiet(L, CallArgs) /\ CallFunc \in Int
    BY <1>1, CallSetup
  <2>2. Enters(CallArgs, CallFunc, c, nres, r)
    BY <2>1, PrecallEnters
  <2> HIDE DEF r
  <2> QED
    BY <1>1, <2>1, <2>2, Entered
<1>4. /\ ended = "no" /\ cs \in Seq(FrameT) /\ L.ci \in Seq(CIRec) /\ L.ccalls \in Int
      /\ Lively(cs, L.ci, L.ccalls, L.baseccalls) /\ L.ci # << >> /\ L.status = "ok"
  BY <1>1 DEF Ready
<1> HIDE DEF r
<1>5. CASE r.res \in {"run", "err", "mem"} /\ Quiet(L, r.S)
  <2>1. /\ r.S \in StateT /\ r.S.ci = L.ci /\ r.S.ccalls = L.ccalls
        /\ r.S.baseccalls = L.baseccalls /\ r.S.status = "ok"
    BY <1>4, <1>5 DEF Quiet
  <2> QED
    BY <1>1, <1>2, <1>4, <1>5, <2>1, EndsGood
<1>6. ASSUME r.res = c.kind, c.kind \in {"Lua", "C"}, NEW k \in CIRec, k.kind = c.kind,
             Quiet(WithCI(L, Append(L.ci, k)), r.S)
      PROVE  Inv'
  <2>1. Append(L.ci, k) \in Seq(CIRec) /\ Append(L.ci, k) # << >>
    BY <1>4
  <2>2. /\ r.S \in StateT /\ r.S.ci = Append(L.ci, k) /\ r.S.ccalls = L.ccalls
        /\ r.S.baseccalls = L.baseccalls /\ r.S.status = "ok"
    BY <1>1, <1>6, <2>1, WithCIs
  <2>3. CASE c.kind = "Lua"
    <3>1. TopFrame = [t |-> "exec", n |-> TopFrame.n] /\ TopFrame.n \in Nat \ {0}
      BY <1>1, OwnsOne
    <3>2. TopFrame.n + 1 \in Nat \ {0}
      BY <3>1
    <3>3. /\ up = Append(Front(cs), [t |-> "exec", n |-> Last(cs).n + 1])
          /\ up \in Seq(FrameT)
      BY <1>1, <3>2, ExecCounts
    <3> HIDE DEF up
    <3>4. Lively(up, Append(L.ci, k), L.ccalls, L.baseccalls)
      BY <1>1, <1>4, <1>6, <2>3, <3>3, LivelyGrow
    <3>5. ok = up
      BY <2>3
    <3> HIDE DEF ok
    <3> QED
      BY <1>2, <1>4, <1>6, <2>1, <2>2, <2>3, <3>3, <3>4, <3>5, EndsGood
  <2>4. CASE c.kind = "C"
    <3>1. /\ Frame("cfun") \in FrameT /\ Frame("cfun").t = "cfun" /\ Size(Frame("cfun")) = 1
          /\ KindOf(Frame("cfun")) = "C" /\ Above(cs, Frame("cfun"))
      BY <1>1 DEF FrameT, Frame, Size, KindOf, Above
    <3>2. Lively(Append(cs, Frame("cfun")), Append(L.ci, k), L.ccalls, L.baseccalls)
      BY <1>1, <1>4, <1>6, <2>4, <3>1, LivelyCall
    <3>3. ok = Append(cs, Frame("cfun")) /\ Append(cs, Frame("cfun")) \in Seq(FrameT)
      BY <1>4, <2>4, <3>1
    <3> HIDE DEF ok
    <3> QED
      BY <1>2, <1>4, <1>6, <2>1, <2>2, <2>4, <3>2, <3>3, EndsGood
  <2> QED
    BY <1>6, <2>3, <2>4
<1> QED
  BY <1>3, <1>5, <1>6
\* A CallInfo of the same kind takes the place of the last one.
LEMMA LastReplaced ==
    ASSUME NEW K \in Seq(CIRec), K # << >>, NEW k \in CIRec, k.kind = K[Len(K)].kind
    PROVE  LET J == Append(SubSeq(K, 1, Len(K) - 1), k)
           IN  J \in Seq(CIRec) /\ Len(J) = Len(K) /\ SameKinds(J, K, Len(K))
<1> DEFINE P == SubSeq(K, 1, Len(K) - 1)
           J == Append(P, k)
<1>1. Len(K) \in Nat /\ Len(K) # 0 /\ Len(K) - 1 \in 0..Len(K)
  OBVIOUS
<1>2. P \in Seq(CIRec) /\ Len(P) = Len(K) - 1 /\ \A j \in 1..(Len(K) - 1) : P[j] = K[j]
  BY <1>1, SeqFacts
<1> HIDE DEF P
<1>3. /\ J \in Seq(CIRec) /\ Len(J) = Len(K) /\ J[Len(K)] = k
      /\ \A j \in 1..(Len(K) - 1) : J[j] = K[j]
  <2>1. Len(P) + 1 = Len(K)
    BY <1>1, <1>2
  <2> QED
    BY <1>2, <2>1, SeqFacts
<1> HIDE DEF J
<1>4. SameKinds(J, K, Len(K))
  BY <1>1, <1>3 DEF SameKinds
<1> QED
  BY <1>3, <1>4 DEF J, P

\* A CallInfo that a tail call moves keeps its kind.
LEMMA Moved ==
    ASSUME NEW o \in CIRec, NEW a \in Int, NEW b \in Int
    PROVE  /\ [o EXCEPT !.base = a, !.top = b, !.tail = @ + 1] \in CIRec
           /\ [o EXCEPT !.base = a, !.top = b, !.tail = @ + 1].kind = o.kind
<1>1. o.tail + 1 \in Int
  BY DEF CIRec
<1> QED
  BY <1>1 DEF CIRec

\* The frame of a tail call takes the place of the caller's.
LEMMA MoveKinds ==
    ASSUME Ready, NEW k \in CIRec, NEW S \in StateT, S.ci = Append(L.ci, k)
    PROVE  LET T == MoveFrameDown(S)
           IN  /\ T \in StateT /\ Len(T.ci) = Len(L.ci) /\ SameKinds(T.ci, L.ci, Len(L.ci))
               /\ T.ccalls = S.ccalls /\ T.baseccalls = S.baseccalls /\ T.status = S.status
<1> DEFINE old == CI(L)
           U == CloseUpvals(S, old.base)
           top == old.func + (S.top - k.func)
           mid == old.func + (k.base - k.func)
           new == [old EXCEPT !.base = mid, !.top = top, !.tail = @ + 1]
           K == Append(SubSeq(L.ci, 1, Len(L.ci) - 1), new)
           T == MoveFrameDown(S)
<1>1. L.ci \in Seq(CIRec) /\ L.ci # << >> /\ Len(L.ci) \in Nat /\ Len(L.ci) # 0
  BY DEF Ready
<1>2. CI(S) = k /\ S.ci[Len(S.ci) - 1] = old /\ Len(S.ci) - 2 = Len(L.ci) - 1
  BY <1>1, SeqFacts DEF CI
<1>3. SubSeq(S.ci, 1, Len(S.ci) - 2) = SubSeq(L.ci, 1, Len(L.ci) - 1)
  BY <1>1, <1>2
<1>4. old \in CIRec /\ S.top \in Int /\ k.func \in Int /\ k.base \in Int
      /\ old.func \in Int /\ old.tail \in Int
  BY ReadyCI DEF StateT, CIRec
<1>5. top \in Int /\ mid \in Int
  BY <1>4
<1>6. Quiet(S, U) /\ U \in StateT
  BY CloseUpvalsQuiet DEF Quiet
<1>7. T = [U EXCEPT !.ci = K, !.top = top]
  <2>1. U.ci = S.ci
    BY <1>6 DEF Quiet
  <2> QED
    BY <1>2, <1>3, <2>1 DEF MoveFrameDown
<1>8. new \in CIRec /\ new.kind = old.kind
  <2>1. old \in CIRec /\ mid \in Int /\ top \in Int
    BY <1>4, <1>5
  <2> HIDE DEF top, mid, old
  <2> QED
    BY <2>1, Moved
<1> HIDE DEF new, top, mid, U
<1>9. K \in Seq(CIRec) /\ Len(K) = Len(L.ci) /\ SameKinds(K, L.ci, Len(L.ci))
  <2>1. new.kind = L.ci[Len(L.ci)].kind
    BY <1>8 DEF CI
  <2> QED
    BY <1>1, <1>8, <2>1, LastReplaced
<1> HIDE DEF K, old
<1>10. /\ T \in StateT /\ T.ci = K
       /\ T.ccalls = U.ccalls /\ T.baseccalls = U.baseccalls /\ T.status = U.status
  BY <1>5, <1>6, <1>7, <1>9 DEF StateT
<1> HIDE DEF T
<1> QED
  BY <1>6, <1>9, <1>10 DEF Quiet, T

LEMMA OpTailCallStep ==
    ASSUME Inv, NEW c \in Callees, NEW oom, OpTailCall(c, oom)
    PROVE  Inv'
<1> DEFINE r == Precall(CallArgs, CallFunc, c, MULTRET, oom)
           m == IF r.res = "Lua" THEN [r EXCEPT !.S = MoveFrameDown(r.S)] ELSE r
           ok == IF c.kind = "Lua" THEN cs ELSE Append(cs, Frame("cfun"))
<1>1. Ready /\ cs # << >> /\ TopFrame = Last(cs) /\ TopFrame.t = "exec"
  BY RunsReady DEF OpTailCall
<1>2. Ends(m, ok, cs, oom)
  BY DEF OpTailCall
<1>a. CallArgs \in StateT /\ Quiet(L, CallArgs) /\ CallFunc \in Int /\ MULTRET \in Int
  BY <1>1, CallSetup DEF MULTRET
<1>b. Enters(CallArgs, CallFunc, c, MULTRET, r)
  BY <1>a, PrecallEnters
<1>c. IsResult(r)
  BY <1>b DEF Enters
<1> HIDE DEF r
<1>3. \/ r.res \in {"run", "err", "mem"} /\ Quiet(L, r.S)
      \/ /\ r.res = c.kind /\ c.kind \in {"Lua", "C"}
         /\ \E k \in CIRec : k.kind = c.kind /\ Quiet(WithCI(L, Append(L.ci, k)), r.S)
  BY <1>1, <1>a, <1>b, Entered
<1>4. /\ ended = "no" /\ cs \in Seq(FrameT) /\ L.ci \in Seq(CIRec) /\ L.ccalls \in Int
      /\ Lively(cs, L.ci, L.ccalls, L.baseccalls) /\ L.ci # << >> /\ L.status = "ok"
  BY <1>1 DEF Ready
<1>5. CASE r.res \in {"run", "err", "mem"} /\ Quiet(L, r.S)
  <2>1. /\ r.S \in StateT /\ r.S.ci = L.ci /\ r.S.ccalls = L.ccalls
        /\ r.S.baseccalls = L.baseccalls /\ r.S.status = "ok"
    BY <1>4, <1>5 DEF Quiet
  <2>2. m = r
    BY <1>5
  <2> HIDE DEF m
  <2> QED
    BY <1>1, <1>2, <1>4, <1>5, <2>1, <2>2, EndsGood
<1>6. ASSUME r.res = c.kind, c.kind \in {"Lua", "C"}, NEW k \in CIRec, k.kind = c.kind,
             Quiet(WithCI(L, Append(L.ci, k)), r.S)
      PROVE  Inv'
  <2>1. Append(L.ci, k) \in Seq(CIRec) /\ Append(L.ci, k) # << >>
    BY <1>4
  <2>2. /\ r.S \in StateT /\ r.S.ci = Append(L.ci, k) /\ r.S.ccalls = L.ccalls
        /\ r.S.baseccalls = L.baseccalls /\ r.S.status = "ok"
    BY <1>1, <1>6, <2>1, WithCIs
  <2>3. CASE c.kind = "Lua"
    <3> DEFINE T == MoveFrameDown(r.S)
    <3>1. m.S = T /\ m.res = "Lua" /\ ok = cs
      BY <1>6, <1>c, <2>3 DEF IsResult
    <3>2. /\ T \in StateT /\ Len(T.ci) = Len(L.ci) /\ SameKinds(T.ci, L.ci, Len(L.ci))
          /\ T.ccalls = L.ccalls /\ T.baseccalls = L.baseccalls /\ T.status = "ok"
      BY <1>1, <2>2, MoveKinds
    <3> HIDE DEF m, T, ok
    <3>3. T.ci \in Seq(CIRec) /\ T.ci # << >>
      BY <1>4, <3>2 DEF StateT
    <3>4. Lively(cs, T.ci, L.ccalls, L.baseccalls)
      BY <1>4, <3>2, <3>3, Rekind DEF Lively
    <3> QED
      BY <1>2, <1>4, <3>1, <3>2, <3>3, <3>4, EndsGood
  <2>4. CASE c.kind = "C"
    <3>0. m = r
      BY <1>6, <2>4
    <3>1. /\ Frame("cfun") \in FrameT /\ Frame("cfun").t = "cfun" /\ Size(Frame("cfun")) = 1
          /\ KindOf(Frame("cfun")) = "C" /\ Above(cs, Frame("cfun"))
      BY <1>1 DEF FrameT, Frame, Size, KindOf, Above
    <3>2. Lively(Append(cs, Frame("cfun")), Append(L.ci, k), L.ccalls, L.baseccalls)
      BY <1>1, <1>4, <1>6, <2>4, <3>1, LivelyCall
    <3>3. ok = Append(cs, Frame("cfun")) /\ Append(cs, Frame("cfun")) \in Seq(FrameT)
      BY <1>4, <2>4, <3>1
    <3> HIDE DEF ok, m
    <3> QED
      BY <1>2, <1>4, <1>6, <2>1, <2>2, <2>4, <3>0, <3>2, <3>3, EndsGood
  <2> QED
    BY <1>6, <2>3, <2>4
<1> QED
  BY <1>3, <1>5, <1>6
\* luaD_poscall of the function that runs.
LEMMA PoscallOf ==
    ASSUME Ready, Len(L.ci) > 1, NEW S, Quiet(L, S), NEW n \in Int
    PROVE  /\ Poscall(S, n) \in StateT /\ Poscall(S, n).ci = SubSeq(L.ci, 1, Len(L.ci) - 1)
           /\ Poscall(S, n).ccalls = L.ccalls /\ Poscall(S, n).baseccalls = L.baseccalls
           /\ Poscall(S, n).status = "ok"
           /\ SubSeq(L.ci, 1, Len(L.ci) - 1) \in Seq(CIRec)
           /\ SubSeq(L.ci, 1, Len(L.ci) - 1) # << >>
<1> DEFINE K == SubSeq(L.ci, 1, Len(L.ci) - 1)
<1>1. S \in StateT /\ S.ci = L.ci
  BY DEF Quiet
<1>2. Quiet(WithCI(S, K), Poscall(S, n))
  BY <1>1, PoscallPops
<1>3. L.ci \in Seq(CIRec) /\ Len(L.ci) \in Nat /\ Len(L.ci) - 1 \in 0..Len(L.ci)
  BY DEF Ready
<1>4. K \in Seq(CIRec) /\ Len(K) = Len(L.ci) - 1
  BY <1>3, SeqFacts
<1> HIDE DEF K
<1>5. K # << >>
  BY <1>3, <1>4
<1>6. /\ WithCI(S, K).ci = K /\ WithCI(S, K).ccalls = L.ccalls
      /\ WithCI(S, K).baseccalls = L.baseccalls /\ WithCI(S, K).status = "ok"
  BY <1>1 DEF WithCI, StateT, Quiet, Ready
<1>7. /\ Poscall(S, n) \in StateT /\ Poscall(S, n).ci = K
      /\ Poscall(S, n).ccalls = L.ccalls /\ Poscall(S, n).baseccalls = L.baseccalls
      /\ Poscall(S, n).status = "ok"
  BY <1>2, <1>6 DEF Quiet
<1> QED
  BY <1>4, <1>5, <1>7 DEF K

LEMMA OpReturnStep ==
    ASSUME Inv, OpReturn PROVE Inv'
<1> DEFINE n == IF Open THEN L.top - L.open ELSE 1
           T == CloseUpvals(L, Base)
           S == Poscall(T, n)
           U == [S EXCEPT !.open = None]
           V == AfterCall(S, CI(L))
           K == SubSeq(L.ci, 1, Len(L.ci) - 1)
           down == Replace([TopFrame EXCEPT !.n = @ - 1])
<1>1. Ready /\ cs # << >> /\ TopFrame = Last(cs) /\ TopFrame.t = "exec"
  BY RunsReady DEF OpReturn
<1>2. /\ Len(L.ci) > 1 /\ Len(cs) > 1
      /\ Last(cs) = [t |-> "exec", n |-> Last(cs).n] /\ Last(cs).n \in Nat \ {0}
  BY <1>1, OwnsOne
<1>3. n \in Int
  BY <1>1, ReadyCI DEF Ready
<1>4. Quiet(L, T)
  BY <1>1, CloseUpvalsQuiet DEF Ready
<1>5. IF TopFrame.n = 1 THEN Does(U, Pop) ELSE Does(V, down)
  BY DEF OpReturn
<1> HIDE DEF n, T
<1>6. /\ S \in StateT /\ S.ci = K /\ S.ccalls = L.ccalls /\ S.baseccalls = L.baseccalls
      /\ S.status = "ok" /\ K \in Seq(CIRec) /\ K # << >>
  BY <1>1, <1>2, <1>3, <1>4, PoscallOf
<1>7. /\ ended = "no" /\ cs \in Seq(FrameT) /\ L.ci \in Seq(CIRec) /\ L.ccalls \in Int
      /\ Lively(cs, L.ci, L.ccalls, L.baseccalls) /\ L.ci # << >> /\ L.status = "ok"
  BY <1>1 DEF Ready
<1> HIDE DEF S
<1>8. CASE TopFrame.n = 1
  <2>1. /\ U \in StateT /\ U.ci = K /\ U.ccalls = L.ccalls /\ U.baseccalls = L.baseccalls
        /\ U.status = "ok"
    <3>1. None \in Int
      BY DEF None
    <3> QED
      BY <1>6, <3>1 DEF StateT
  <2>2. Lively(Front(cs), K, L.ccalls, L.baseccalls) /\ Front(cs) \in Seq(FrameT)
    <3>1. Size(Last(cs)) = 1 /\ Weight(Last(cs)) = 0 /\ L.ccalls - 0 = L.ccalls
      BY <1>1, <1>7, <1>8 DEF Size, Weight, Counted
    <3> QED
      BY <1>1, <1>7, <3>1, LivelyPop
  <2>3. Does(U, Front(cs))
    BY <1>5, <1>8 DEF Pop, Front
  <2> HIDE DEF U, K
  <2> QED
    BY <1>6, <1>7, <2>1, <2>2, <2>3, DoesGood
<1>9. CASE TopFrame.n # 1
  <2>1. Quiet(S, V)
    BY <1>1, <1>6, AfterCallQuiet, ReadyCI
  <2>2. /\ V \in StateT /\ V.ci = K /\ V.ccalls = L.ccalls /\ V.baseccalls = L.baseccalls
        /\ V.status = "ok"
    BY <1>6, <2>1 DEF Quiet
  <2>3. TopFrame.n - 1 \in Nat \ {0}
    BY <1>1, <1>2, <1>9
  <2>4. down = Append(Front(cs), [t |-> "exec", n |-> Last(cs).n - 1]) /\ down \in Seq(FrameT)
    BY <1>1, <2>3, ExecCounts
  <2> HIDE DEF down
  <2>5. Lively(down, K, L.ccalls, L.baseccalls)
    BY <1>1, <1>7, <1>9, <2>4, LivelyShrink
  <2>6. Does(V, down)
    BY <1>5, <1>9
  <2> HIDE DEF V, K
  <2> QED
    BY <1>6, <1>7, <2>2, <2>4, <2>5, <2>6, DoesGood
<1> QED
  BY <1>8, <1>9

LEMMA ReturnStep ==
    ASSUME Inv, Return PROVE Inv'
<1> DEFINE n == IF L.top > CI(L).base THEN 1 ELSE 0
           S == Poscall(L, n)
           V == AfterCall(S, CI(L))
           K == SubSeq(L.ci, 1, Len(L.ci) - 1)
           U == IF cs[Len(cs) - 1].t = "exec" THEN V ELSE S
<1>1. Ready /\ cs # << >> /\ TopFrame = Last(cs) /\ TopFrame.t = "cfun"
  BY RunsReady DEF Return
<1>2. Len(L.ci) > 1 /\ Len(cs) > 1
  BY <1>1, OwnsOne
<1>3. n \in Int /\ Quiet(L, L)
  BY <1>1 DEF Ready, Quiet
<1>4. Does(U, Front(cs))
  BY DEF Return, Pop, Front
<1> HIDE DEF n
<1>5. /\ S \in StateT /\ S.ci = K /\ S.ccalls = L.ccalls /\ S.baseccalls = L.baseccalls
      /\ S.status = "ok" /\ K \in Seq(CIRec) /\ K # << >>
  BY <1>1, <1>2, <1>3, PoscallOf
<1>6. /\ ended = "no" /\ cs \in Seq(FrameT) /\ L.ci \in Seq(CIRec) /\ L.ccalls \in Int
      /\ Lively(cs, L.ci, L.ccalls, L.baseccalls) /\ L.ci # << >>
  BY <1>1 DEF Ready
<1> HIDE DEF S
<1>7. Quiet(S, V) /\ Quiet(S, S)
  BY <1>1, <1>5, AfterCallQuiet, ReadyCI DEF Quiet
<1>8. Quiet(S, U)
  BY <1>7
<1> HIDE DEF V, U
<1>9. /\ U \in StateT /\ U.ci = K /\ U.ccalls = L.ccalls /\ U.baseccalls = L.baseccalls
      /\ U.status = "ok"
  BY <1>5, <1>8 DEF Quiet
<1>10. Lively(Front(cs), K, L.ccalls, L.baseccalls) /\ Front(cs) \in Seq(FrameT)
  <2>1. Size(Last(cs)) = 1 /\ Weight(Last(cs)) = 0 /\ L.ccalls - 0 = L.ccalls
    BY <1>1, <1>6 DEF Size, Weight, Counted
  <2> QED
    BY <1>1, <1>6, <2>1, LivelyPop
<1> HIDE DEF K
<1> QED
  BY <1>4, <1>5, <1>6, <1>9, <1>10, DoesGood
\* The top of the last CallInfo is no matter.
LEMMA TopKinds ==
    ASSUME NEW K \in Seq(CIRec), K # << >>, NEW z \in Int
    PROVE  LET J == [K EXCEPT ![Len(K)].top = z]
           IN  J \in Seq(CIRec) /\ Len(J) = Len(K) /\ SameKinds(J, K, Len(K))
<1> DEFINE J == [K EXCEPT ![Len(K)].top = z]
<1>1. Len(K) \in Nat \ {0} /\ K[Len(K)] \in CIRec
  OBVIOUS
<1>2. \A k \in CIRec : [k EXCEPT !.top = z] \in CIRec /\ [k EXCEPT !.top = z].kind = k.kind
  BY DEF CIRec
<1>3. J = [K EXCEPT ![Len(K)] = [K[Len(K)] EXCEPT !.top = z]]
  OBVIOUS
<1> HIDE DEF J
<1>4. PICK k \in CIRec : k.kind = K[Len(K)].kind /\ J = [K EXCEPT ![Len(K)] = k]
  BY <1>1, <1>2, <1>3
<1>5. J \in Seq(CIRec) /\ Len(J) = Len(K) /\ \A j \in 1..Len(K) : J[j].kind = K[j].kind
  BY <1>1, <1>4
<1>6. SameKinds(J, K, Len(K))
  BY <1>1, <1>5 DEF SameKinds
<1> QED
  BY <1>5, <1>6 DEF J

LEMMA ApiCheckStackStep ==
    ASSUME Inv, NEW oom, ApiCheckStack(MinStack, oom) PROVE Inv'
<1> DEFINE T == CheckStack(L, MinStack)
           z == Larger(T.ci[Len(T.ci)].top, T.top + MinStack)
           K == [L.ci EXCEPT ![Len(L.ci)].top = z]
           new == [T EXCEPT !.ci[Len(T.ci)].top = Larger(@, T.top + MinStack)]
<1>1. Ready /\ (cs = << >> => ~oom)
  BY InCReady DEF ApiCheckStack, At
<1>2. /\ ended = "no" /\ cs \in Seq(FrameT) /\ L.ci \in Seq(CIRec) /\ L.ccalls \in Int
      /\ Lively(cs, L.ci, L.ccalls, L.baseccalls) /\ L.ci # << >> /\ L.status = "ok"
      /\ L \in StateT /\ MinStack \in Int
  BY <1>1, LuaCallsAssumption DEF Ready
<1>3. Quiet(L, T)
  BY <1>2, CheckStackQuiet
<1>4. \/ oom /\ Ends(Result(L, "mem", 0), cs, cs, oom)
      \/ Ends(Result(new, "ok", 0), cs, cs, oom)
  BY DEF ApiCheckStack
<1>5. T.ci = L.ci /\ T.top \in Int /\ CI(L).top \in Int /\ T \in StateT
  BY <1>1, <1>3, ReadyCI DEF Quiet, StateT
<1>6. z \in Int
  BY <1>2, <1>5 DEF Larger, CI
<1>7. new = [T EXCEPT !.ci = K]
  BY <1>5
<1> HIDE DEF T, z
<1>8. K \in Seq(CIRec) /\ Len(K) = Len(L.ci) /\ SameKinds(K, L.ci, Len(L.ci))
  BY <1>2, <1>6, TopKinds
<1> HIDE DEF K
<1>9. /\ new \in StateT /\ new.ci = K /\ new.ccalls = L.ccalls
      /\ new.baseccalls = L.baseccalls /\ new.status = "ok"
  BY <1>2, <1>3, <1>5, <1>7, <1>8 DEF StateT, Quiet
<1> HIDE DEF new
<1>10. Lively(cs, K, L.ccalls, L.baseccalls) /\ K # << >>
  BY <1>2, <1>8, Rekind DEF Lively
<1>11. \A X, e, h : Result(X, e, h).S = X /\ Result(X, e, h).res = e
  BY DEF Result
<1>12. CASE oom /\ Ends(Result(L, "mem", 0), cs, cs, oom)
  <2>1. Quiet(L, L) /\ cs # << >>
    BY <1>1, <1>2, <1>12 DEF Quiet
  <2> QED
    BY <1>1, <1>11, <1>12, <2>1, Stays
<1>13. CASE Ends(Result(new, "ok", 0), cs, cs, oom)
  <2> DEFINE r == Result(new, "ok", 0)
  <2>1. r.S = new /\ r.res = "ok" /\ Ends(r, cs, cs, oom)
    BY <1>11, <1>13
  <2> HIDE DEF r
  <2> QED
    BY <1>2, <1>8, <1>9, <1>10, <2>1, EndsGood
<1> QED
  BY <1>4, <1>12, <1>13

\* lua_call and lua_error.
LEMMA CallStep ==
    ASSUME Inv, Call(1) PROVE Inv'
<1> DEFINE f == [t |-> "enter", func |-> L.top, nres |-> 1]
           S == [L EXCEPT !.top = @ + 2]
<1>1. Ready /\ cs # << >>
  BY RunsReady DEF Call
<1>2. f \in Plain /\ Weight(f) = 0
  BY <1>1 DEF Ready, Plain, FrameT, Weight, Counted
<1>3. Quiet(L, S)
  BY SMTT(30), <1>1 DEF Quiet, Ready, StateT
<1>4. Does(S, Append(cs, f))
  BY DEF Call
<1> HIDE DEF f, S
<1> QED
  BY <1>1, <1>2, <1>3, <1>4, DoesPush

LEMMA ErrorStep ==
    ASSUME Inv, Error PROVE Inv'
<1> DEFINE f == [t |-> "error", msg |-> FALSE]
<1>1. Ready /\ cs # << >>
  BY RunsReady DEF Error
<1>2. f \in Plain /\ Weight(f) = 0
  BY DEF Plain, FrameT, Weight, Counted
<1>3. Quiet(L, L)
  BY <1>1 DEF Quiet, Ready
<1>4. Does(L, Append(cs, f))
  BY DEF Error
<1> HIDE DEF f
<1> QED
  BY <1>1, <1>2, <1>3, <1>4, DoesPush

\* Two frames are pushed, one of them a call.
LEMMA PushTwo ==
    ASSUME NEW s \in Seq(FrameT), NEW f \in FrameT, NEW g \in FrameT
    PROVE  /\ Append(s, f) \in Seq(FrameT) /\ Append(s, f) # << >>
           /\ s \o <<f, g>> = Append(Append(s, f), g) /\ s \o <<f, g>> \in Seq(FrameT)
<1>1. Append(s, f) \in Seq(FrameT) /\ Append(s, f) # << >>
  <2>1. /\ Append(s, f) \in Seq(FrameT) /\ Len(Append(s, f)) = Len(s) + 1 /\ Len(s) \in Nat
    BY SeqFacts
  <2> QED
    BY <2>1
<1>2. s \o <<f, g>> = Append(Append(s, f), g) /\ s \o <<f, g>> \in Seq(FrameT)
  OBVIOUS
<1> QED
  BY <1>1, <1>2

LEMMA CallTMStep ==
    ASSUME Inv, NEW n \in 2..4, NEW oom, CallTM(n, oom) PROVE Inv'
<1> DEFINE T == IF n = 2 THEN L ELSE CheckStack(L, n)
           U == [T EXCEPT !.top = @ + n]
           f == [t |-> "tm", res |-> n = 3]
           g == [t |-> "enter", func |-> L.top, nres |-> IF n = 3 THEN 1 ELSE 0]
<1>1. Ready /\ cs # << >>
  BY RunsReady DEF CallTM
<1>2. f \in Plain /\ Weight(f) = 0 /\ g \in Plain /\ Weight(g) = 0 /\ f \in FrameT /\ g \in FrameT
  BY <1>1 DEF Ready, Plain, FrameT, Weight, Counted
<1>3. Quiet(L, T) /\ Quiet(L, L)
  <2>1. Quiet(L, L) /\ L \in StateT /\ n \in Int
    BY <1>1 DEF Ready, Quiet
  <2> QED
    BY <2>1, CheckStackQuiet
<1>4. \/ Ends(Result(L, "mem", L.top + n - L.size), cs, cs, oom)
      \/ Ends(Result(U, "ok", L.top + n - L.size), cs \o <<f, g>>, cs, oom)
  BY DEF CallTM
<1> HIDE DEF T, f, g
<1>5. Quiet(L, U)
  BY SMTT(30), <1>3 DEF Quiet, StateT
<1> HIDE DEF U
<1>6. \A X, e, h : Result(X, e, h).S = X /\ Result(X, e, h).res = e
  BY DEF Result
<1>7. CASE Ends(Result(L, "mem", L.top + n - L.size), cs, cs, oom)
  BY <1>1, <1>3, <1>6, <1>7, Stays
<1>8. CASE Ends(Result(U, "ok", L.top + n - L.size), cs \o <<f, g>>, cs, oom)
  <2> DEFINE r == Result(U, "ok", L.top + n - L.size)
  <2>1. r.S = U /\ r.res = "ok"
    BY <1>6
  <2>2. /\ ended = "no" /\ cs \in Seq(FrameT) /\ L.ci \in Seq(CIRec) /\ L.ccalls \in Int
        /\ Lively(cs, L.ci, L.ccalls, L.baseccalls) /\ L.ci # << >> /\ L.status = "ok"
    BY <1>1 DEF Ready
  <2>3. /\ Append(cs, f) \in Seq(FrameT) /\ Append(cs, f) # << >>
        /\ cs \o <<f, g>> = Append(Append(cs, f), g) /\ cs \o <<f, g>> \in Seq(FrameT)
    BY <1>2, <2>2, PushTwo
  <2>4. Lively(Append(cs, f), L.ci, L.ccalls, L.baseccalls)
    <3>1. L.ccalls + Weight(f) = L.ccalls
      BY <1>2, <2>2
    <3> QED
      BY <1>1, <1>2, <2>2, <3>1, LivelyPlain
  <2>5. Lively(cs \o <<f, g>>, L.ci, L.ccalls, L.baseccalls)
    <3>1. L.ccalls + Weight(g) = L.ccalls
      BY <1>2, <2>2
    <3> QED
      BY <1>2, <2>2, <2>3, <2>4, <3>1, LivelyPlain
  <2>6. /\ U \in StateT /\ U.ci = L.ci /\ U.ccalls = L.ccalls /\ U.baseccalls = L.baseccalls
        /\ U.status = "ok"
    BY <1>5, <2>2 DEF Quiet
  <2>7. Ends(r, cs \o <<f, g>>, cs, oom)
    BY <1>8
  <2> HIDE DEF r
  <2> QED
    BY <2>1, <2>2, <2>3, <2>5, <2>6, <2>7, EndsGood
<1> QED
  BY <1>4, <1>7, <1>8

\* lua_pcall
LEMMA PcallStep ==
    ASSUME Inv, ~Reused, NEW nres \in Int, NEW h \in Handlers, Pcall(nres, h) PROVE Inv'
<1> DEFINE func == L.top + (IF h = "none" THEN 0 ELSE 1)
           f == [t |-> "pcall", top |-> func, ci |-> Len(L.ci), ccalls |-> L.ccalls,
                 errfunc |-> L.errfunc, nres |-> nres]
           g == [t |-> "enter", func |-> func, nres |-> nres]
           S == [L EXCEPT !.top = func + 2, !.errfunc = h]
<1>1. Ready /\ (cs = << >> => L.baseccalls = 0)
  BY InCReady DEF Pcall, InC, Idle, At
<1>2. /\ ended = "no" /\ cs \in Seq(FrameT) /\ L.ci \in Seq(CIRec) /\ L.ccalls \in Int
      /\ Lively(cs, L.ci, L.ccalls, L.baseccalls) /\ L.ci # << >> /\ L.status = "ok"
      /\ L.top \in Int /\ L \in StateT /\ L.errfunc \in ErrFunc /\ Len(L.ci) \in Int
  BY <1>1 DEF Ready, StateT
<1>3. func \in Int /\ h \in ErrFunc
  BY <1>2, LuaCallsAssumption DEF ErrFunc
<1>4. Does(S, cs \o <<f, g>>)
  BY DEF Pcall
<1> HIDE DEF func
<1>5. /\ S \in StateT /\ S.ci = L.ci /\ S.ccalls = L.ccalls /\ S.baseccalls = L.baseccalls
      /\ S.status = "ok"
  <2> DEFINE z == func + 2
  <2>1. z \in Int
    BY <1>3
  <2>2. S = [L EXCEPT !.top = z, !.errfunc = h]
    OBVIOUS
  <2> HIDE DEF z, S
  <2> QED
    BY <1>2, <1>3, <2>1, <2>2 DEF StateT
<1>6. f \in FrameT /\ Size(f) = 0 /\ Weight(f) = 0 /\ Above(cs, f) /\ f.t = "pcall"
      /\ f.ci = Len(L.ci) /\ f.ccalls = L.ccalls
  BY <1>2, <1>3 DEF FrameT, Size, Weight, Counted, Above
<1>7. g \in Plain /\ Weight(g) = 0 /\ g \in FrameT
  BY <1>3 DEF Plain, FrameT, Weight, Counted
<1> HIDE DEF f, g, S
<1>8. /\ Append(cs, f) \in Seq(FrameT) /\ Append(cs, f) # << >>
      /\ cs \o <<f, g>> = Append(Append(cs, f), g) /\ cs \o <<f, g>> \in Seq(FrameT)
  BY <1>2, <1>6, <1>7, PushTwo
<1>9. Lively(Append(cs, f), L.ci, L.ccalls, L.baseccalls)
  <2>1. L.ccalls + Weight(f) = L.ccalls /\ Len(L.ci) = Len(L.ci) + Size(f)
    BY <1>2, <1>6
  <2>2. /\ SameKinds(L.ci, L.ci, Len(L.ci))
        /\ \A j \in (Len(L.ci) + 1)..Len(L.ci) : L.ci[j].kind = KindOf(f)
    BY <1>2 DEF SameKinds
  <2>3. cs = << >> => L.baseccalls = IF f.t = "resume" THEN 1 ELSE 0
    BY <1>1, <1>6
  <2>4. Lively(Append(cs, f), L.ci, L.ccalls + Weight(f), L.baseccalls)
    BY <1>2, <1>6, <2>1, <2>2, <2>3, LivelyPush
  <2> QED
    BY <2>1, <2>4
<1>10. Lively(cs \o <<f, g>>, L.ci, L.ccalls, L.baseccalls)
  <2>1. L.ccalls + Weight(g) = L.ccalls
    BY <1>2, <1>7
  <2> QED
    BY <1>2, <1>7, <1>8, <1>9, <2>1, LivelyPlain
<1> QED
  BY <1>2, <1>4, <1>5, <1>8, <1>10, DoesGood
-----------------------------------------------------------------------------
(* Errors.                                                                 *)

\* luaG_runerror and luaG_errormsg
LEMMA RunErrorStep ==
    ASSUME Inv, NEW oom, RunError(oom) PROVE Inv'
<1> DEFINE S == IF TopFrame.msg THEN [CheckStack(L, 1) EXCEPT !.top = L.top + 1] ELSE L
           T == CheckStack(S, 1)
           U == [T EXCEPT !.top = @ + 1]
           h == Frame("handler")
           w == [t |-> "throw", code |-> "run"]
           e == [t |-> "enter", func |-> S.top - 1, nres |-> 1]
<1>1. Ready /\ cs # << >> /\ TopFrame = Last(cs) /\ TopFrame \in FrameT /\ TopFrame.t = "error"
  BY RunsReady DEF RunError
<1>2. /\ ended = "no" /\ cs \in Seq(FrameT) /\ L.ci \in Seq(CIRec) /\ L.ccalls \in Int
      /\ Lively(cs, L.ci, L.ccalls, L.baseccalls) /\ L.ci # << >> /\ L.status = "ok"
      /\ L.top \in Int /\ L \in StateT
  BY <1>1 DEF Ready
<1>3. Last(cs) \in Plain /\ Weight(Last(cs)) = 0 /\ Size(Last(cs)) = 0
  BY <1>1 DEF Plain, Weight, Counted, Size
<1>4. Quiet(L, S) /\ S.top \in Int
  <2>1. Quiet(L, L)
    BY <1>2 DEF Quiet
  <2>a. Quiet(L, CheckStack(L, 1))
    BY <1>2, CheckStackQuiet
  <2>2. Quiet(L, CheckStack(L, 1)) /\ CheckStack(L, 1) \in StateT /\ L.top + 1 \in Int
    BY <1>2, <2>a DEF Quiet
  <2>3. Quiet(L, [CheckStack(L, 1) EXCEPT !.top = L.top + 1])
    BY <2>2, QuietTop
  <2>4. Quiet(L, S)
    BY <2>1, <2>3
  <2> HIDE DEF S
  <2> QED
    BY <2>4 DEF Quiet, StateT
<1>5. \/ Ends(Result(L, "mem", 0), cs, Pop, oom)
      \/ Ends(Result(S, "ok", S.top - L.size), Replace(w), cs, oom)
      \/ Ends(Result(S, "err", S.top - L.size), cs, Pop, oom)
      \/ Ends(Result(U, "ok", S.top + 1 - S.size), Append(Replace(h), e), cs, oom)
  BY DEF RunError
<1> HIDE DEF S
<1>6. Quiet(L, U)
  <2>1. S \in StateT
    BY <1>4 DEF Quiet
  <2>2. Quiet(S, T)
    BY <2>1, CheckStackQuiet
  <2> HIDE DEF T
  <2>3. Quiet(L, T) /\ T \in StateT
    BY <1>4, <2>2 DEF Quiet
  <2>4. T.top + 1 \in Int
    BY <2>3 DEF StateT
  <2> QED
    BY <2>3, <2>4, QuietTop
<1>7. /\ w \in Plain /\ w \in FrameT /\ Weight(w) = 0 /\ h \in Plain /\ h \in FrameT
      /\ Weight(h) = 0 /\ e \in Plain /\ e \in FrameT /\ Weight(e) = 0
  BY <1>4 DEF Plain, FrameT, Weight, Counted, Frame
<1> HIDE DEF T, U, h, w, e
<1>8. \A X, a, b : Result(X, a, b).S = X /\ Result(X, a, b).res = a
  BY DEF Result
<1>9. \A X : Quiet(L, X) => /\ X \in StateT /\ X.ci = L.ci /\ X.ccalls = L.ccalls
                            /\ X.baseccalls = L.baseccalls /\ X.status = "ok"
  BY <1>2 DEF Quiet
<1>10. Quiet(L, L)
  BY <1>2 DEF Quiet
<1>11. /\ Pop \in Seq(FrameT) /\ Lively(Pop, L.ci, L.ccalls, L.baseccalls)
       /\ Pop # << >> \/ L.baseccalls = 0
  <2>1. Pop = Front(cs) /\ L.ccalls - Weight(Last(cs)) = L.ccalls
    BY <1>2, <1>3 DEF Pop, Front
  <2>2. Front(cs) = << >> => L.baseccalls = IF Last(cs).t = "resume" THEN 1 ELSE 0
    BY <1>1, <1>2, LivelyPop
  <2> QED
    BY <1>1, <1>2, <1>3, <2>1, <2>2, LivelyPop, LivelyPopPlain
<1>12. ASSUME NEW X, NEW a \in {"mem", "err"}, NEW b, Quiet(L, X),
              Ends(Result(X, a, b), cs, Pop, oom)
       PROVE  Inv'
  <2> DEFINE r == Result(X, a, b)
  <2>1. r.S = X /\ r.res = a /\ Ends(r, cs, Pop, oom)
    BY <1>8, <1>12
  <2> HIDE DEF r
  <2>2. /\ X \in StateT /\ X.ci = L.ci /\ X.ccalls = L.ccalls
        /\ X.baseccalls = L.baseccalls /\ X.status = "ok"
    BY <1>9, <1>12
  <2> QED
    BY <1>2, <1>11, <2>1, <2>2, EndsGood
<1>13. ASSUME NEW X, NEW b, NEW s \in Seq(FrameT), Quiet(L, X),
              Lively(s, L.ci, L.ccalls, L.baseccalls), Ends(Result(X, "ok", b), s, cs, oom)
       PROVE  Inv'
  <2> DEFINE r == Result(X, "ok", b)
  <2>1. r.S = X /\ r.res = "ok" /\ Ends(r, s, cs, oom)
    BY <1>8, <1>13
  <2> HIDE DEF r
  <2>2. /\ X \in StateT /\ X.ci = L.ci /\ X.ccalls = L.ccalls
        /\ X.baseccalls = L.baseccalls /\ X.status = "ok"
    BY <1>9, <1>13
  <2> QED
    BY <1>2, <1>13, <2>1, <2>2, EndsGood
<1>14. ASSUME NEW f \in Plain, f \in FrameT, Weight(f) = 0
       PROVE  /\ Replace(f) \in Seq(FrameT) /\ Replace(f) # << >>
              /\ Lively(Replace(f), L.ci, L.ccalls, L.baseccalls)
  <2>1. Replace(f) = Append(Front(cs), f) /\ Replace(f) \in Seq(FrameT)
    BY <1>1, <1>2, <1>14, ReplaceIs DEF Replace
  <2>2. L.ccalls - Weight(Last(cs)) + Weight(f) = L.ccalls
    BY <1>2, <1>3, <1>14
  <2>3. Lively(Replace(f), L.ci, L.ccalls, L.baseccalls)
    BY <1>1, <1>2, <1>3, <2>1, <2>2, LivelyReplace
  <2>4. Front(cs) \in Seq(FrameT)
    BY <1>1, <1>2, LivelyPop
  <2>5. Replace(f) # << >>
    BY <1>14, <2>1, <2>4, PushTwo
  <2> QED
    BY <2>1, <2>3, <2>5
<1>15. /\ Lively(Append(Replace(h), e), L.ci, L.ccalls, L.baseccalls)
       /\ Append(Replace(h), e) \in Seq(FrameT)
  <2>1. /\ Replace(h) \in Seq(FrameT) /\ Replace(h) # << >>
        /\ Lively(Replace(h), L.ci, L.ccalls, L.baseccalls)
    BY <1>7, <1>14
  <2>2. L.ccalls + Weight(e) = L.ccalls
    BY <1>2, <1>7
  <2> QED
    BY <1>2, <1>7, <2>1, <2>2, LivelyPlain, SeqFacts
<1> QED
  BY <1>4, <1>5, <1>6, <1>7, <1>10, <1>12, <1>13, <1>14, <1>15

LEMMA HandlerReturnsStep ==
    ASSUME Inv, HandlerReturns PROVE Inv'
<1> DEFINE w == [t |-> "throw", code |-> "run"]
<1>1. Ready /\ cs # << >> /\ TopFrame = Last(cs) /\ TopFrame \in FrameT /\ TopFrame.t = "handler"
  BY RunsReady DEF HandlerReturns
<1>2. /\ ended = "no" /\ cs \in Seq(FrameT) /\ L.ci \in Seq(CIRec) /\ L.ccalls \in Int
      /\ Lively(cs, L.ci, L.ccalls, L.baseccalls) /\ L.ci # << >> /\ L.status = "ok"
      /\ L \in StateT
  BY <1>1 DEF Ready
<1>3. Last(cs) \in Plain /\ Weight(Last(cs)) = 0
  BY <1>1 DEF Plain, Weight, Counted
<1>4. w \in Plain /\ w \in FrameT /\ Weight(w) = 0
  BY DEF Plain, FrameT, Weight, Counted
<1>5. Does(L, Replace(w))
  BY DEF HandlerReturns
<1> HIDE DEF w
<1>6. Replace(w) = Append(Front(cs), w) /\ Replace(w) \in Seq(FrameT)
  BY <1>1, <1>2, <1>4, ReplaceIs DEF Replace
<1>7. L.ccalls - Weight(Last(cs)) + Weight(w) = L.ccalls
  BY <1>2, <1>3, <1>4
<1>8. Lively(Replace(w), L.ci, L.ccalls, L.baseccalls)
  BY <1>1, <1>2, <1>3, <1>4, <1>6, <1>7, LivelyReplace
<1> QED
  BY <1>2, <1>5, <1>6, <1>8, DoesGood
\* What is known when an error is thrown.
LEMMA Thrown ==
    ASSUME Inv, At("throw")
    PROVE  /\ ended = "no" /\ cs \in Seq(FrameT) /\ cs # << >> /\ L \in StateT
           /\ L.ci \in Seq(CIRec) /\ L.ci # << >> /\ L.status = "ok"
           /\ L.ccalls \in Int /\ L.top \in Int /\ L.baseccalls \in Int
           /\ Torn
<1>1. ended = "no" /\ cs # << >> /\ TopFrame.t = "throw"
  BY DEF At
<1>2. L \in StateT /\ L.ci # << >> /\ cs \in Seq(FrameT)
  BY DEF Inv, TypesInv
<1>3. /\ L.ci \in Seq(CIRec) /\ L.ccalls \in Int /\ L.top \in Int /\ L.baseccalls \in Int
      /\ L.status \in Status
  BY <1>2 DEF StateT
<1>4. L.status # "dead"
  BY <1>1 DEF Inv
<1>5. L.status # "yield"
  <2> SUFFICES ASSUME L.status = "yield" PROVE FALSE
    OBVIOUS
  <2>1. cs = <<Frame("resume")>>
    BY <1>1 DEF Inv, Asleep
  <2>2. TopFrame.t = "resume"
    BY <2>1 DEF TopFrame, Frame
  <2> QED
    BY <1>1, <2>2
<1>6. L.status = "ok" /\ Throwing
  BY <1>1, <1>3, <1>4, <1>5 DEF Status, Throwing
<1>7. Torn
  BY <1>1, <1>6 DEF Inv
<1> QED
  BY <1>1, <1>2, <1>3, <1>6, <1>7

\* luaD_throw jumps to the innermost protected call.
LEMMA CatcherIs ==
    ASSUME cs \in Seq(FrameT), Catchers # {}
    PROVE  /\ Catcher \in 1..Len(cs) /\ Catcher - 1 \in 0..Len(cs) /\ Catcher - 1 < Len(cs)
           /\ (Catcher - 1) + 1 = Catcher
<1> DEFINE T == {Len(cs) - i : i \in Catchers}
<1>1. Len(cs) \in Nat /\ Catchers \subseteq 1..Len(cs)
  BY DEF Catchers
<1>2. T \subseteq Nat /\ T # {}
  <2>1. \A i \in 1..Len(cs) : Len(cs) - i \in Nat
    BY <1>1
  <2>2. T \subseteq Nat
    BY <1>1, <2>1
  <2>3. PICK i \in Catchers : TRUE
    OBVIOUS
  <2>4. Len(cs) - i \in T
    OBVIOUS
  <2> QED
    BY <2>2, <2>4
<1> HIDE DEF T
<1>3. PICK x \in T : \A y \in T : x <= y
  BY <1>2, LeastNatural
<1>4. PICK i \in Catchers : x = Len(cs) - i
  BY DEF T
<1>5. \A j \in Catchers : Len(cs) - i <= Len(cs) - j
  BY <1>3, <1>4 DEF T
<1>6. \A j \in Catchers : j <= i
  BY <1>1, <1>5
<1>7. Catcher \in Catchers
  BY <1>6 DEF Catcher
<1> QED
  BY <1>1, <1>7

\* The C stack is cut off after m frames.
LEMMA CutLively ==
    ASSUME NEW s \in Seq(FrameT), NEW K \in Seq(CIRec), NEW k \in 1..Len(K), NEW n, NEW b,
           Lively(s, SubSeq(K, 1, k), n, b), NEW m \in 0..Len(s)
    PROVE  \E j \in 1..Len(K) :
              /\ Lively(SubSeq(s, 1, m), SubSeq(K, 1, j), Count(s, m), b)
              /\ m < Len(s) /\ s[m + 1].t = "pcall" =>
                    s[m + 1].ci = j /\ s[m + 1].ccalls = Count(s, m)
<1> DEFINE P == SubSeq(K, 1, k)
<1>1. P \in Seq(CIRec) /\ Len(P) = k /\ Len(K) \in Nat /\ k \in 0..Len(K)
  BY SeqFacts
<1>2. Good(s, P, n)
  BY DEF Lively
<1>3. PICK j \in 1..Len(P) : /\ Good(SubSeq(s, 1, m), SubSeq(P, 1, j), Count(s, m))
                             /\ m < Len(s) /\ s[m + 1].t = "pcall" => j = s[m + 1].ci
  BY <1>1, <1>2, Cut
<1>4. j \in 1..Len(K) /\ j \in 1..k
  BY <1>1
<1>5. SubSeq(P, 1, j) = SubSeq(K, 1, j)
  BY <1>1, <1>4
<1>6. SubSeq(s, 1, m) # << >> => SubSeq(s, 1, m)[1] = s[1] /\ s # << >>
  <2>1. Len(SubSeq(s, 1, m)) = m /\ \A i \in 1..m : SubSeq(s, 1, m)[i] = s[i]
    BY SeqFacts
  <2>2. SubSeq(s, 1, m) \in Seq(FrameT) /\ Len(s) \in Nat
    BY SeqFacts
  <2>3. SubSeq(s, 1, m) # << >> => m # 0
    BY <2>1, <2>2
  <2> QED
    BY <2>1, <2>2, <2>3
<1>7. Lively(SubSeq(s, 1, m), SubSeq(K, 1, j), Count(s, m), b)
  BY <1>3, <1>5, <1>6 DEF Lively
<1>8. ASSUME m < Len(s), s[m + 1].t = "pcall" PROVE s[m + 1].ccalls = Count(s, m)
  <2>1. m + 1 \in 1..Len(s) /\ (m + 1) - 1 = m
    BY <1>8
  <2> QED
    BY <1>2, <1>8, <2>1 DEF Good, Saved
<1> QED
  BY <1>3, <1>4, <1>7, <1>8

LEMMA CaughtByPcallStep ==
    ASSUME Inv, CaughtByPcall PROVE Inv'
<1> DEFINE p == cs[Catcher]
           s == SubSeq(cs, 1, Catcher - 1)
           K == SubSeq(L.ci, 1, p.ci)
           U == CloseUpvals(L, p.top)
           V == [U EXCEPT !.top = p.top + 1, !.ccalls = p.ccalls,
                          !.ci = SubSeq(@, 1, p.ci), !.errfunc = p.errfunc]
           W == RestoreStackLimit(V)
           X == [W EXCEPT !.open = None]
           Y == AdjustResults(X, p.nres)
<1>1. /\ ended = "no" /\ cs \in Seq(FrameT) /\ cs # << >> /\ L \in StateT
      /\ L.ci \in Seq(CIRec) /\ L.ci # << >> /\ L.status = "ok" /\ Torn
  BY Thrown DEF CaughtByPcall, Caught
<1>2. /\ Catcher \in 1..Len(cs) /\ Catcher - 1 \in 0..Len(cs) /\ Catcher - 1 < Len(cs)
      /\ (Catcher - 1) + 1 = Catcher
  BY <1>1, CatcherIs DEF CaughtByPcall, Caught
<1>3. p \in FrameT /\ p.t = "pcall"
  BY <1>1, <1>2 DEF CaughtByPcall, Caught
<1>4. p.top \in Int /\ p.ci \in Int /\ p.ccalls \in Int /\ p.errfunc \in ErrFunc
  BY <1>3 DEF FrameT
<1>5. PICK k \in 1..Len(L.ci), n \in Int : Lively(cs, SubSeq(L.ci, 1, k), n, L.baseccalls)
  BY <1>1 DEF Torn
<1>6. Does(Y, s)
  BY DEF CaughtByPcall, Recover
<1>7. PICK j \in 1..Len(L.ci) :
         /\ Lively(s, SubSeq(L.ci, 1, j), Count(cs, Catcher - 1), L.baseccalls)
         /\ p.ci = j /\ p.ccalls = Count(cs, Catcher - 1)
  BY <1>1, <1>2, <1>3, <1>5, CutLively
<1>8. Lively(s, K, p.ccalls, L.baseccalls) /\ p.ci \in 1..Len(L.ci) /\ p.ci \in 0..Len(L.ci)
  BY <1>7
<1>9. K \in Seq(CIRec) /\ Len(K) = p.ci /\ s \in Seq(FrameT)
  BY <1>1, <1>2, <1>8, SeqFacts
<1> HIDE DEF p, s
<1>10. Quiet(L, U) /\ U \in StateT /\ U.ci = L.ci
  BY <1>1, CloseUpvalsQuiet DEF Quiet
<1> HIDE DEF U
<1>11. V = [U EXCEPT !.top = p.top + 1, !.ccalls = p.ccalls, !.ci = K, !.errfunc = p.errfunc]
  BY <1>10
<1> HIDE DEF K, V
<1>12. /\ V \in StateT /\ V.ci = K /\ V.ccalls = p.ccalls /\ V.baseccalls = U.baseccalls
       /\ V.status = U.status
  <2>1. p.top + 1 \in Int
    BY <1>4
  <2> QED
    BY <1>4, <1>9, <1>10, <1>11, <2>1 DEF StateT
<1>13. Quiet(V, W) /\ W \in StateT
  BY <1>12, RestoreQuiet DEF Quiet
<1> HIDE DEF W
<1>14. Quiet(V, X) /\ X \in StateT
  <2>1. None \in Int
    BY DEF None
  <2>2. Quiet(V, X)
    BY Zenon, <1>13, <2>1, QuietTop
  <2> QED
    BY <2>2 DEF Quiet
<1> HIDE DEF X
<1>15. /\ X.ci = K /\ X.ccalls = p.ccalls /\ X.baseccalls = L.baseccalls /\ X.status = "ok"
       /\ X.ci # << >>
  <2>1. K # << >>
    BY <1>8, <1>9
  <2> QED
    BY <1>1, <1>10, <1>12, <1>14, <2>1 DEF Quiet
<1>16. /\ Y \in StateT /\ Len(Y.ci) = Len(K) /\ SameKinds(Y.ci, K, Len(K))
       /\ Y.ccalls = p.ccalls /\ Y.baseccalls = L.baseccalls /\ Y.status = "ok"
  BY <1>14, <1>15, AdjustQuiet
<1> HIDE DEF Y
<1>17. Y.ci \in Seq(CIRec) /\ Y.ci # << >>
  BY <1>8, <1>9, <1>16 DEF StateT
<1>18. Lively(s, Y.ci, Y.ccalls, Y.baseccalls)
  BY <1>8, <1>9, <1>16, <1>17, Rekind DEF Lively
<1> QED
  BY <1>1, <1>6, <1>9, <1>16, <1>17, <1>18, DoesGood

\* The state after luaD_throw has pushed nothing back yet.
LEMMA RecoveryFailsStep ==
    ASSUME Inv, RecoveryFails PROVE Inv'
<1> DEFINE p == cs[Catcher]
           s == SubSeq(cs, 1, Catcher - 1)
           U == CloseUpvals(L, p.top)
           w == [t |-> "throw", code |-> "mem"]
<1>1. /\ ended = "no" /\ cs \in Seq(FrameT) /\ cs # << >> /\ L \in StateT
      /\ L.ci \in Seq(CIRec) /\ L.ci # << >> /\ L.status = "ok" /\ Torn
  BY Thrown DEF RecoveryFails, Caught
<1>2. /\ Catcher \in 1..Len(cs) /\ Catcher - 1 \in 0..Len(cs) /\ Catcher - 1 < Len(cs)
      /\ (Catcher - 1) + 1 = Catcher
  BY <1>1, CatcherIs DEF RecoveryFails, Caught
<1>3. p.t = "pcall"
  BY DEF RecoveryFails, Caught
<1>4. PICK k \in 1..Len(L.ci), n \in Int : Lively(cs, SubSeq(L.ci, 1, k), n, L.baseccalls)
  BY <1>1 DEF Torn
<1>5. PICK j \in 1..Len(L.ci) :
         Lively(s, SubSeq(L.ci, 1, j), Count(cs, Catcher - 1), L.baseccalls)
  BY <1>1, <1>2, <1>4, CutLively
<1>6. Count(cs, Catcher - 1) \in Int
  <2>1. Catcher - 1 \in Nat
    BY <1>2
  <2>2. Count(cs, Catcher - 1) \in Nat
    BY <2>1, CountNat
  <2> QED
    BY <2>2
<1>7. s \in Seq(FrameT) /\ Len(s) = Catcher - 1
  BY <1>1, <1>2, SeqFacts
<1>8. s # << >> \/ L.baseccalls = 0
  <2> SUFFICES ASSUME s = << >> PROVE L.baseccalls = 0
    OBVIOUS
  <2> HIDE DEF s
  <2>1. Catcher = 1
    BY <1>2, <1>7
  <2> QED
    BY <1>1, <1>3, <1>4, <2>1 DEF Lively
<1>9. w \in Plain /\ w \in FrameT /\ Weight(w) = 0 /\ w.t = "throw"
  BY DEF Plain, FrameT, Weight, Counted
<1>10. L' = U /\ ended' = "no" /\ cs' = Append(s, w)
  BY <1>1 DEF RecoveryFails, Ends, Result
<1>11. SubSeq(L.ci, 1, j) \in Seq(CIRec)
  BY <1>1, SeqFacts
<1> HIDE DEF s, w
<1>12. Lively(Append(s, w), SubSeq(L.ci, 1, j), Count(cs, Catcher - 1), L.baseccalls)
  <2>1. Count(cs, Catcher - 1) + Weight(w) = Count(cs, Catcher - 1)
    BY <1>6, <1>9
  <2> QED
    BY <1>5, <1>6, <1>7, <1>8, <1>9, <1>11, <2>1, LivelyPlain
<1>13. U \in StateT /\ U.ci = L.ci /\ U.baseccalls = L.baseccalls /\ U.status = "ok"
  BY <1>1, CloseUpvalsQuiet DEF Quiet
<1> HIDE DEF U
<1>14. Append(s, w) \in Seq(FrameT) /\ Append(s, w) # << >> /\ Last(Append(s, w)) = w
  BY <1>7, <1>9, SeqFacts, PushTwo DEF Last
<1>15. TypesInv'
  BY <1>1, <1>10, <1>13, <1>14 DEF TypesInv
<1>16. Throwing'
  BY <1>9, <1>10, <1>14 DEF Throwing, TopFrame, Last
<1>17. Torn'
  <2>1. Lively(cs', SubSeq(L'.ci, 1, j), Count(cs, Catcher - 1), L'.baseccalls)
    BY <1>10, <1>12, <1>13
  <2>2. j \in 1..Len(L'.ci)
    BY <1>10, <1>13
  <2> QED
    BY <1>6, <2>1, <2>2 DEF Torn, Lively, Good, Shape, Saved, Agree, AgreeBy
<1> QED
  BY <1>10, <1>13, <1>15, <1>16, <1>17 DEF Inv
\* Only one CallInfo is left: the base.
LEMMA EmptyLively ==
    ASSUME NEW c \in CIRec, c.kind = "base", NEW b
    PROVE  Lively(<< >>, <<c>>, 0, b) /\ <<c>> \in Seq(CIRec)
<1>1. Shape(<< >>) /\ Saved(<< >>)
  BY DEF Shape, Saved
<1> DEFINE d == [i \in 0..0 |-> 1]
<1>2. d \in [0..0 -> Nat] /\ d[0] = 1
  OBVIOUS
<1> HIDE DEF d
<1>3. AgreeBy(<< >>, <<c>>, d)
  BY <1>2 DEF AgreeBy
<1>4. Agree(<< >>, <<c>>)
  BY <1>2, <1>3 DEF Agree
<1>5. Count(<< >>, 0) = 0
  <2>1. {i \in 1..0 : Counted(<< >>[i])} = {}
    OBVIOUS
  <2> QED
    BY <2>1, FS_EmptySet DEF Count
<1>6. Good(<< >>, <<c>>, 0)
  BY <1>1, <1>4, <1>5 DEF Good
<1> QED
  BY <1>6 DEF Lively

\* The first CallInfo is the base.
LEMMA FirstIsBase ==
    ASSUME NEW s \in Seq(FrameT), NEW K \in Seq(CIRec), NEW n, NEW b, Lively(s, K, n, b)
    PROVE  K[1].kind = "base"
BY DEF Lively, Good, Agree, AgreeBy

\* The C stack of lua_close.
LEMMA CloseLively ==
    ASSUME NEW c \in CIRec, c.kind = "base"
    PROVE  /\ Lively(<<Frame("close")>>, <<c>>, 0, 0) /\ <<Frame("close")>> \in Seq(FrameT)
           /\ <<c>> \in Seq(CIRec) /\ <<c>> # << >>
<1> DEFINE f == Frame("close")
           K == <<c>>
<1>1. f \in FrameT /\ f.t = "close" /\ Size(f) = 0 /\ Weight(f) = 0 /\ Above(<< >>, f)
  BY DEF Frame, FrameT, Size, Weight, Counted, Above
<1>2. Lively(<< >>, K, 0, 0) /\ K \in Seq(CIRec) /\ K # << >>
  BY EmptyLively
<1>3. Append(<< >>, f) = <<f>> /\ << >> \in Seq(FrameT) /\ <<f>> \in Seq(FrameT)
  BY <1>1
<1> HIDE DEF f, K
<1>4. Len(K) = Len(K) + Size(f) /\ SameKinds(K, K, Len(K)) /\ Len(K) \in Nat
  BY <1>1, <1>2 DEF SameKinds
<1>5. \A j \in (Len(K) + 1)..Len(K) : K[j].kind = KindOf(f)
  BY <1>4
<1>6. Lively(Append(<< >>, f), K, 0 + Weight(f), 0)
  <2> DEFINE e == << >>
  <2>1. e \in Seq(FrameT) /\ Lively(e, K, 0, 0) /\ Above(e, f) /\ 0 \in Int
    BY <1>1, <1>2, <1>3
  <2>2. f.t # "pcall" /\ (e = << >> => 0 = IF f.t = "resume" THEN 1 ELSE 0)
    BY <1>1
  <2> HIDE DEF e
  <2>3. Lively(Append(e, f), K, 0 + Weight(f), 0)
    BY <1>1, <1>2, <1>4, <1>5, <2>1, <2>2, LivelyPush
  <2> QED
    BY <2>3 DEF e
<1>7. Lively(<<f>>, K, 0, 0)
  <2>1. 0 + Weight(f) = 0
    BY <1>1
  <2> QED
    BY <1>3, <1>6, <2>1
<1> QED
  BY <1>2, <1>3, <1>7 DEF f, K

\* The last round of lua_close begins from the base.
LEMMA ResetTo ==
    ASSUME NEW S \in StateT, S.ci # << >>
    PROVE  /\ Reset(S) \in StateT /\ Reset(S).ci = <<S.ci[1]>> /\ Reset(S).ccalls = 0
           /\ Reset(S).baseccalls = 0 /\ Reset(S).status = S.status /\ S.ci[1] \in CIRec
<1>1. S.ci \in Seq(CIRec)
  BY DEF StateT
<1>2. S.ci[1] \in CIRec
  BY <1>1
<1>3. <<S.ci[1]>> \in Seq(CIRec) /\ None \in Int
  BY <1>2 DEF None
<1> DEFINE K == <<S.ci[1]>>
<1>4. Reset(S) = [S EXCEPT !.ci = K, !.top = 1, !.ccalls = 0, !.baseccalls = 0, !.open = None]
  BY DEF Reset
<1> HIDE DEF K
<1>5. K \in Seq(CIRec)
  BY <1>3 DEF K
<1>6. /\ Reset(S) \in StateT /\ Reset(S).ci = K /\ Reset(S).ccalls = 0
      /\ Reset(S).baseccalls = 0 /\ Reset(S).status = S.status
  <2> DEFINE T == [S EXCEPT !.ci = K, !.top = 1, !.ccalls = 0]
  <2>0. 0 \in Int /\ 1 \in Int
    OBVIOUS
  <2>1. T \in StateT /\ T.ci = K /\ T.ccalls = 0 /\ T.status = S.status
    BY <1>5, <2>0 DEF StateT
  <2>2. Reset(S) = [T EXCEPT !.baseccalls = 0, !.open = None]
    BY <1>4
  <2> HIDE DEF T
  <2> QED
    BY <1>3, <2>1, <2>2 DEF StateT
<1> QED
  BY <1>2, <1>6 DEF K

\* Only one frame can be at the bottom of the C stack.
LEMMA CatchesFirst ==
    ASSUME Inv, At("throw"), Catchers # {}, cs[Catcher].t \in {"resume", "close"}
    PROVE  Catcher = 1 /\ L.ci[1].kind = "base"
<1>1. cs \in Seq(FrameT) /\ L.ci \in Seq(CIRec) /\ L.ci # << >> /\ Torn
  BY Thrown
<1>2. Catcher \in 1..Len(cs)
  BY <1>1, CatcherIs
<1>3. PICK k \in 1..Len(L.ci), n \in Int : Lively(cs, SubSeq(L.ci, 1, k), n, L.baseccalls)
  BY <1>1 DEF Torn
<1>4. Catcher = 1
  BY <1>2, <1>3 DEF Lively, Good, Shape
<1>5. SubSeq(L.ci, 1, k) \in Seq(CIRec) /\ SubSeq(L.ci, 1, k)[1] = L.ci[1]
  BY <1>1, SeqFacts
<1>6. SubSeq(L.ci, 1, k)[1].kind = "base"
  BY <1>1, <1>3, <1>5, FirstIsBase
<1> QED
  BY <1>4, <1>5, <1>6

LEMMA CaughtByCloseStep ==
    ASSUME Inv, CaughtByClose PROVE Inv'
<1>1. /\ At("throw") /\ Catchers # {} /\ cs[Catcher].t = "close"
      /\ Does(Reset(L), <<Frame("close")>>)
  BY DEF CaughtByClose, Caught
<1>2. ended = "no" /\ L \in StateT /\ L.ci # << >> /\ L.status = "ok"
  BY <1>1, Thrown
<1>3. L.ci[1].kind = "base"
  BY <1>1, CatchesFirst
<1>4. /\ Reset(L) \in StateT /\ Reset(L).ci = <<L.ci[1]>> /\ Reset(L).ccalls = 0
      /\ Reset(L).baseccalls = 0 /\ Reset(L).status = "ok" /\ L.ci[1] \in CIRec
  BY <1>2, ResetTo
<1>5. /\ Lively(<<Frame("close")>>, <<L.ci[1]>>, 0, 0) /\ <<Frame("close")>> \in Seq(FrameT)
      /\ <<L.ci[1]>> # << >>
  BY <1>3, <1>4, CloseLively
<1>6. Lively(<<Frame("close")>>, Reset(L).ci, Reset(L).ccalls, Reset(L).baseccalls)
      /\ Reset(L).ci # << >>
  BY <1>4, <1>5
<1> QED
  BY <1>1, <1>2, <1>4, <1>5, <1>6, DoesGood

LEMMA CaughtByResumeStep ==
    ASSUME Inv, CaughtByResume PROVE Inv'
<1> DEFINE S == [L EXCEPT !.status = "dead", !.top = @ + 1, !.ccalls = @ - 1]
           K == [L.ci EXCEPT ![Len(L.ci)].top = S.top]
           U == [S EXCEPT !.ci[Len(S.ci)].top = S.top]
<1>1. At("throw") /\ Catchers # {} /\ cs[Catcher].t = "resume"
  BY DEF CaughtByResume, Caught
<1>2. /\ ended = "no" /\ L \in StateT /\ L.ci # << >> /\ cs \in Seq(FrameT)
      /\ L.ci \in Seq(CIRec) /\ L.top \in Int /\ L.ccalls \in Int
  BY <1>1, Thrown
<1>3. Catcher = 1
  BY <1>1, CatchesFirst
<1>4. L' = U /\ ended' = "no" /\ cs' = SubSeq(cs, 1, Catcher - 1)
  BY <1>2 DEF CaughtByResume, Does, Ends, Result
<1>5. cs' = << >> /\ cs' \in Seq(FrameT)
  BY <1>2, <1>3, <1>4
<1>6. S \in StateT /\ S.ci = L.ci /\ S.top \in Int /\ S.status = "dead"
  <2>1. L.top + 1 \in Int /\ L.ccalls - 1 \in Int /\ "dead" \in Status
    BY <1>2 DEF Status
  <2> QED
    BY <1>2, <2>1 DEF StateT
<1>7. U = [S EXCEPT !.ci = K]
  BY <1>6
<1> HIDE DEF S
<1>8. K \in Seq(CIRec) /\ Len(K) = Len(L.ci) /\ Len(L.ci) \in Nat \ {0}
  <2> DEFINE z == S.top
  <2>1. z \in Int /\ Len(L.ci) \in Nat \ {0}
    BY <1>2, <1>6
  <2>2. K = [L.ci EXCEPT ![Len(L.ci)].top = z]
    OBVIOUS
  <2> HIDE DEF z, K
  <2> QED
    BY <1>2, <2>1, <2>2, TopKinds
<1> HIDE DEF K
<1>9. U \in StateT /\ U.ci = K /\ U.status = "dead" /\ K # << >>
  BY <1>6, <1>7, <1>8 DEF StateT
<1> HIDE DEF U
<1>10. TypesInv'
  BY <1>4, <1>5, <1>9 DEF TypesInv
<1> QED
  BY <1>4, <1>5, <1>9, <1>10 DEF Inv

LEMMA PanicStep ==
    ASSUME Inv, Panic PROVE Inv'
<1> DEFINE U == CloseUpvals(L, 1)
           K == <<L.ci[1]>>
           V == [U EXCEPT !.ci = <<@[1]>>, !.top = 2, !.ccalls = L.baseccalls,
                          !.errfunc = "none", !.status = "dead"]
<1>1. At("throw") /\ L' = RestoreStackLimit(V) /\ ended' = "panic" /\ cs' = cs
  BY DEF Panic
<1>2. /\ L \in StateT /\ L.ci # << >> /\ cs \in Seq(FrameT)
      /\ L.ci \in Seq(CIRec) /\ L.baseccalls \in Int
  BY <1>1, Thrown
<1>3. U \in StateT /\ U.ci = L.ci
  BY <1>2, CloseUpvalsQuiet DEF Quiet
<1>4. K \in Seq(CIRec) /\ K # << >>
  BY <1>2
<1> HIDE DEF U
<1>5. V = [U EXCEPT !.ci = K, !.top = 2, !.ccalls = L.baseccalls,
                    !.errfunc = "none", !.status = "dead"]
  BY <1>3
<1> HIDE DEF K, V
<1>6. V \in StateT /\ V.ci = K /\ V.status = "dead"
  <2>1. "none" \in ErrFunc /\ "dead" \in Status /\ 2 \in Int
    BY DEF ErrFunc, Status
  <2> QED
    BY <1>2, <1>3, <1>4, <1>5, <2>1 DEF StateT
<1>7. Quiet(V, RestoreStackLimit(V))
  BY <1>6, RestoreQuiet
<1>8. L' \in StateT /\ L'.ci # << >> /\ L'.status = "dead"
  BY <1>1, <1>4, <1>6, <1>7 DEF Quiet
<1>9. TypesInv'
  BY <1>1, <1>2, <1>8 DEF TypesInv
<1> QED
  BY <1>1, <1>8, <1>9 DEF Inv

LEMMA CloseStep ==
    ASSUME Inv, Close PROVE Inv'
<1> DEFINE U == CloseUpvals(L, 0)
           V == [Reset(U) EXCEPT !.errfunc = "none"]
<1>1. Ready /\ L' = V /\ cs' = <<Frame("close")>> /\ ended' = "no"
  BY IdleReady DEF Close, Idle
<1>2. /\ L \in StateT /\ L.ci # << >> /\ L.ci \in Seq(CIRec) /\ L.status = "ok"
      /\ cs \in Seq(FrameT) /\ Lively(cs, L.ci, L.ccalls, L.baseccalls)
  BY <1>1 DEF Ready
<1>3. U \in StateT /\ U.ci = L.ci /\ U.status = "ok"
  BY <1>2, CloseUpvalsQuiet DEF Quiet
<1> HIDE DEF U
<1>4. /\ Reset(U) \in StateT /\ Reset(U).ci = <<L.ci[1]>> /\ Reset(U).ccalls = 0
      /\ Reset(U).baseccalls = 0 /\ Reset(U).status = "ok" /\ L.ci[1] \in CIRec
  BY <1>2, <1>3, ResetTo
<1>5. /\ V \in StateT /\ V.ci = Reset(U).ci /\ V.ccalls = 0 /\ V.baseccalls = 0
      /\ V.status = "ok"
  <2>1. "none" \in ErrFunc
    BY DEF ErrFunc
  <2> QED
    BY <1>4, <2>1 DEF StateT
<1> HIDE DEF V
<1>6. L.ci[1].kind = "base"
  BY <1>2, FirstIsBase
<1>7. /\ Lively(<<Frame("close")>>, <<L.ci[1]>>, 0, 0) /\ <<Frame("close")>> \in Seq(FrameT)
      /\ <<L.ci[1]>> # << >>
  BY <1>4, <1>6, CloseLively
<1>8. /\ L' \in StateT /\ L'.ci = <<L.ci[1]>> /\ L'.ccalls = 0 /\ L'.baseccalls = 0
      /\ L'.status = "ok"
  BY <1>1, <1>4, <1>5
<1> QED
  BY <1>1, <1>7, <1>8, InvOk

LEMMA CloseFinalizesStep ==
    ASSUME Inv, CloseFinalizes PROVE Inv'
<1> DEFINE f == [t |-> "enter", func |-> L.top, nres |-> 0]
           S == [L EXCEPT !.top = @ + 2]
<1>1. Ready /\ cs # << >>
  BY RunsReady DEF CloseFinalizes
<1>2. /\ L \in StateT /\ L.ci # << >> /\ L.ci \in Seq(CIRec) /\ L.status = "ok"
      /\ cs \in Seq(FrameT) /\ Lively(cs, L.ci, L.ccalls, L.baseccalls) /\ ended = "no"
      /\ L.top \in Int /\ L.ccalls \in Int
  BY <1>1 DEF Ready
<1>3. L' = S /\ cs' = Append(cs, f) /\ ended' = "no"
  BY <1>2 DEF CloseFinalizes
<1>4. f \in Plain /\ f \in FrameT /\ Weight(f) = 0
  BY <1>2 DEF Plain, FrameT, Weight, Counted
<1>5. /\ S \in StateT /\ S.ci = L.ci /\ S.ccalls = L.ccalls /\ S.baseccalls = L.baseccalls
      /\ S.status = "ok"
  BY <1>2 DEF StateT
<1> HIDE DEF f, S
<1>6. Lively(Append(cs, f), L.ci, L.ccalls, L.baseccalls) /\ Append(cs, f) \in Seq(FrameT)
  <2>1. L.ccalls + Weight(f) = L.ccalls
    BY <1>2, <1>4
  <2> QED
    BY <1>1, <1>2, <1>4, <2>1, LivelyPlain, SeqFacts
<1> QED
  BY <1>2, <1>3, <1>5, <1>6, InvOk

LEMMA CloseEndsStep ==
    ASSUME Inv, CloseEnds PROVE Inv'
<1>1. Ready
  BY RunsReady DEF CloseEnds
<1>2. L' = L /\ cs' = cs /\ ended' = "closed"
  BY DEF CloseEnds
<1>3. TypesInv' /\ L'.status = "ok"
  BY <1>1, <1>2 DEF Ready, TypesInv
<1> QED
  BY <1>2, <1>3 DEF Inv
-----------------------------------------------------------------------------
(* Coroutines.                                                             *)

\* The owner's thread, before it is resumed: nothing is on the C stack.
LEMMA IdleCounts ==
    ASSUME Ready, cs = << >>
    PROVE  L.ccalls = 0
<1>1. L.ccalls = Count(cs, Len(cs)) /\ Len(cs) = 0
  BY DEF Ready, Lively, Good
<1>2. {i \in 1..0 : Counted(cs[i])} = {}
  OBVIOUS
<1> QED
  BY <1>1, <1>2, FS_EmptySet DEF Count

\* lua_resume is the first frame of the C stack.
LEMMA ResumeLively ==
    ASSUME NEW K \in Seq(CIRec), Lively(<< >>, K, 0, 1)
    PROVE  /\ Lively(<<Frame("resume")>>, K, 1, 1) /\ <<Frame("resume")>> \in Seq(FrameT)
           /\ <<Frame("resume")>> # << >> /\ Last(<<Frame("resume")>>) = Frame("resume")
           /\ Append(<< >>, Frame("resume")) = <<Frame("resume")>>
<1> DEFINE f == Frame("resume")
           e == << >>
<1>1. f \in FrameT /\ f.t = "resume" /\ Size(f) = 0 /\ Weight(f) = 1 /\ Above(e, f)
  BY DEF Frame, FrameT, Size, Weight, Counted, Above
<1>2. Append(e, f) = <<f>> /\ e \in Seq(FrameT) /\ <<f>> \in Seq(FrameT) /\ <<f>> # << >>
      /\ Last(<<f>>) = f
  BY <1>1 DEF Last
<1>3. Len(K) = Len(K) + Size(f) /\ SameKinds(K, K, Len(K)) /\ Len(K) \in Nat
  BY <1>1 DEF SameKinds
<1>4. \A j \in (Len(K) + 1)..Len(K) : K[j].kind = KindOf(f)
  BY <1>3
<1>5. Lively(e, K, 0, 1) /\ 0 \in Int /\ f.t # "pcall"
      /\ (e = << >> => 1 = IF f.t = "resume" THEN 1 ELSE 0)
  BY <1>1
<1> HIDE DEF f, e
<1>6. Lively(Append(e, f), K, 0 + Weight(f), 1)
  BY <1>1, <1>2, <1>3, <1>4, <1>5, LivelyPush
<1>7. Lively(<<f>>, K, 1, 1)
  <2>1. 0 + Weight(f) = 1
    BY <1>1
  <2> QED
    BY <1>2, <1>6, <2>1
<1> QED
  BY <1>2, <1>7 DEF f, e

LEMMA StartStep ==
    ASSUME Inv, NEW c \in Callees, NEW oom, Start(c, oom) PROVE Inv'
<1> DEFINE S == [L EXCEPT !.top = @ + 2, !.ccalls = @ + 1, !.baseccalls = L.ccalls + 1]
           here == Append(cs, Frame("resume"))
           f == [t |-> "exec", n |-> 1]
           r == Precall(S, L.top, c, MULTRET, oom)
<1>1. Ready /\ cs = << >> /\ c.kind = "Lua"
  BY IdleReady DEF Start, Idle
<1>2. /\ L \in StateT /\ L.ci # << >> /\ L.ci \in Seq(CIRec) /\ L.status = "ok"
      /\ cs \in Seq(FrameT) /\ Lively(cs, L.ci, L.ccalls, L.baseccalls) /\ ended = "no"
      /\ L.top \in Int /\ L.ccalls = 0
  BY <1>1, IdleCounts DEF Ready
<1>3. Ends(r, Append(here, f), here, oom)
  BY DEF Start
<1>4. Lively(<< >>, L.ci, 0, 1)
  BY <1>1, <1>2 DEF Lively
<1>5. /\ here = <<Frame("resume")>> /\ Lively(here, L.ci, 1, 1) /\ here \in Seq(FrameT)
      /\ here # << >> /\ Last(here) = Frame("resume")
  BY <1>1, <1>2, <1>4, ResumeLively
<1>6. S \in StateT /\ S.ci = L.ci /\ S.ccalls = 1 /\ S.baseccalls = 1 /\ S.status = "ok"
  <2>1. L.top + 2 \in Int /\ L.ccalls + 1 = 1 /\ 1 \in Int
    BY <1>2
  <2> QED
    BY <1>2, <2>1 DEF StateT
<1>7. f \in FrameT /\ f.t = "exec" /\ Size(f) = 1 /\ KindOf(f) = "Lua" /\ Above(here, f)
  BY <1>5 DEF FrameT, Size, KindOf, Above, Frame
<1> HIDE DEF here, f, S
<1>8. Enters(S, L.top, c, MULTRET, r)
  <2>1. MULTRET \in Int
    BY DEF MULTRET
  <2> QED
    BY <1>2, <1>6, <2>1, PrecallEnters
<1> HIDE DEF r
<1>9. CASE r.res \in {"run", "err", "mem"}
  <2>1. Quiet(S, r.S)
    BY <1>8, <1>9 DEF Enters
  <2>2. /\ r.S \in StateT /\ r.S.ci = L.ci /\ r.S.ccalls = 1
        /\ r.S.baseccalls = 1 /\ r.S.status = "ok"
    BY <1>6, <2>1 DEF Quiet
  <2> QED
    BY <1>2, <1>3, <1>5, <1>9, <2>2, EndsGood
<1>10. CASE r.res \notin {"run", "err", "mem"}
  <2>1. r.res = "Lua" /\ \E k \in CIRec : /\ k.kind = "Lua"
                                          /\ Quiet(WithCI(S, Append(S.ci, k)), r.S)
    BY <1>1, <1>8, <1>10 DEF Enters
  <2>2. PICK k \in CIRec : k.kind = "Lua" /\ Quiet(WithCI(S, Append(S.ci, k)), r.S)
    BY <2>1
  <2>3. /\ r.S \in StateT /\ r.S.ci = Append(L.ci, k) /\ r.S.ccalls = 1
        /\ r.S.baseccalls = 1 /\ r.S.status = "ok"
    BY <1>6, <2>2 DEF Quiet, WithCI, StateT
  <2>4. Lively(Append(here, f), Append(L.ci, k), 1, 1)
    <3>1. 1 \in Int
      OBVIOUS
    <3> QED
      BY <1>2, <1>5, <1>7, <2>2, <3>1, LivelyCall
  <2>5. Append(here, f) \in Seq(FrameT) /\ r.S.ci # << >>
    <3>1. Append(here, f) \in Seq(FrameT)
      BY <1>5, <1>7, SeqFacts
    <3>2. Append(L.ci, k) # << >>
      BY <1>2
    <3> QED
      BY <2>3, <3>1, <3>2
  <2> QED
    BY <1>2, <1>3, <2>1, <2>3, <2>4, <2>5, EndsGood
<1> QED
  BY <1>9, <1>10

LEMMA ResumeStep ==
    ASSUME Inv, Resume PROVE Inv'
<1> DEFINE T == [L EXCEPT !.top = @ + 1]
           P == Poscall(T, 1)
           A == AfterCall(P, CI(L))
           S == [A EXCEPT !.ccalls = @ + 1, !.baseccalls = L.ccalls + 1, !.status = "ok"]
           K == SubSeq(L.ci, 1, Len(L.ci) - 1)
           B == <<L.ci[1]>>
           f == [t |-> "exec", n |-> Len(S.ci) - 1]
           R == <<Frame("resume")>>
<1>1. ended = "no" /\ cs = << >> /\ L.status = "yield" /\ Does(S, <<Frame("resume"), f>>)
  BY DEF Resume, Idle
<1>2. /\ L \in StateT /\ L.ci # << >> /\ Asleep
  BY <1>1 DEF Inv, TypesInv
<1>3. L.ci \in Seq(CIRec) /\ L.top \in Int /\ CI(L) \in CIRec
  BY <1>2, CIType DEF StateT
<1>4. /\ L.ccalls = 0 /\ Len(L.ci) > 2 /\ L.ci[1].kind = "base"
      /\ \A j \in 2..(Len(L.ci) - 1) : L.ci[j].kind = "Lua"
  BY <1>1, <1>2 DEF Asleep
<1>5. T \in StateT /\ T.ci = L.ci /\ T.ccalls = 0
  BY SMTT(30), <1>2, <1>3, <1>4 DEF StateT
<1> HIDE DEF T
<1>6. Quiet(WithCI(T, K), P)
  <2>1. Len(T.ci) > 1 /\ 1 \in Int
    BY <1>3, <1>4, <1>5
  <2>2. Quiet(WithCI(T, SubSeq(T.ci, 1, Len(T.ci) - 1)), P)
    BY <1>5, <2>1, PoscallPops
  <2> QED
    BY <1>5, <2>2
<1> HIDE DEF P
<1>7. /\ Len(L.ci) \in Nat /\ K \in Seq(CIRec) /\ Len(K) = Len(L.ci) - 1 /\ Len(K) > 1
      /\ \A j \in 1..Len(K) : K[j] = L.ci[j]
  <2>1. Len(L.ci) \in Nat /\ Len(L.ci) - 1 \in 0..Len(L.ci)
    BY <1>3, <1>4
  <2> QED
    BY <1>3, <1>4, <2>1, SeqFacts
<1> HIDE DEF K
<1>8. P \in StateT /\ P.ci = K /\ P.ccalls = 0 /\ P.ci # << >>
  <2>1. WithCI(T, K).ci = K /\ WithCI(T, K).ccalls = 0
    BY <1>5 DEF WithCI, StateT
  <2>2. K # << >>
    BY <1>7
  <2> QED
    BY <1>6, <2>1, <2>2 DEF Quiet
<1>9. A \in StateT /\ A.ci = K /\ A.ccalls = 0
  <2>1. Quiet(P, A)
    BY <1>3, <1>8, AfterCallQuiet
  <2> HIDE DEF A
  <2> QED
    BY <1>8, <2>1 DEF Quiet
<1> HIDE DEF A
<1>10. S \in StateT /\ S.ci = K /\ S.ccalls = 1 /\ S.baseccalls = 1 /\ S.status = "ok"
  <2>1. A.ccalls + 1 = 1 /\ L.ccalls + 1 = 1 /\ "ok" \in Status /\ 1 \in Int
    BY <1>4, <1>9 DEF Status
  <2>2. S = [A EXCEPT !.ccalls = 1, !.baseccalls = 1, !.status = "ok"]
    BY <2>1
  <2> HIDE DEF S
  <2> QED
    BY <1>9, <2>1, <2>2 DEF StateT
<1> HIDE DEF S
<1>11. L.ci[1] \in CIRec
  BY <1>3, <1>4
<1>12. Lively(<< >>, B, 0, 1) /\ B \in Seq(CIRec) /\ Len(B) = 1 /\ B[1] = L.ci[1]
  BY <1>4, <1>11, EmptyLively
<1> HIDE DEF B
<1>13. Lively(R, B, 1, 1) /\ R \in Seq(FrameT) /\ R # << >> /\ Last(R) = Frame("resume")
  BY <1>12, ResumeLively
<1>14. /\ f \in FrameT /\ f.t = "exec" /\ Size(f) = Len(K) - 1 /\ KindOf(f) = "Lua"
       /\ Weight(f) = 0 /\ Above(R, f)
  <2>1. Len(K) - 1 \in Nat \ {0}
    <3>1. \A z \in Nat : z > 1 => z - 1 \in Nat \ {0}
      OBVIOUS
    <3>2. Len(K) > 1 /\ Len(K) \in Nat
      BY <1>7
    <3> QED
      BY <3>1, <3>2, Zenon
  <2> QED
    BY <1>10, <1>13, <2>1 DEF FrameT, Size, KindOf, Weight, Counted, Above, Frame
<1>15. <<Frame("resume"), f>> = Append(R, f)
  OBVIOUS
<1> HIDE DEF f, R
<1>16. Lively(Append(R, f), K, 1 + Weight(f), 1)
  <2>1. Len(K) = Len(B) + Size(f) /\ f.t # "pcall" /\ 1 \in Int
    BY <1>7, <1>12, <1>14
  <2>2. SameKinds(K, B, Len(B))
    BY <1>7, <1>12 DEF SameKinds
  <2>3. \A j \in (Len(B) + 1)..Len(K) : K[j].kind = KindOf(f)
    <3> SUFFICES ASSUME NEW j \in (Len(B) + 1)..Len(K) PROVE K[j].kind = "Lua"
      BY <1>14
    <3>1. j \in 2..(Len(L.ci) - 1) /\ j \in 1..Len(K)
      BY <1>7, <1>12
    <3> QED
      BY <1>4, <1>7, <3>1
  <2> QED
    BY <1>7, <1>12, <1>13, <1>14, <2>1, <2>2, <2>3, LivelyPush
<1>17. Lively(Append(R, f), S.ci, S.ccalls, S.baseccalls) /\ Append(R, f) \in Seq(FrameT)
  <2>1. 1 + Weight(f) = 1
    BY <1>14
  <2> QED
    BY <1>10, <1>13, <1>14, <1>16, <2>1, SeqFacts
<1>18. S.ci # << >>
  BY <1>7, <1>10
<1> QED
  BY <1>1, <1>10, <1>15, <1>17, <1>18, DoesGood
LEMMA ResumeReturnsStep ==
    ASSUME Inv, ResumeReturns PROVE Inv'
<1> DEFINE S == [L EXCEPT !.ccalls = @ - 1]
<1>1. ended = "no" /\ cs # << >> /\ TopFrame.t = "resume" /\ Does(S, Pop)
  BY DEF ResumeReturns, At
<1>2. L \in StateT /\ L.ci # << >> /\ cs \in Seq(FrameT)
  BY DEF Inv, TypesInv
<1>3. /\ L.ci \in Seq(CIRec) /\ L.ccalls \in Int /\ L.top \in Int /\ L.baseccalls \in Int
      /\ L.status \in Status
  BY <1>2 DEF StateT
<1>4. TopFrame = Last(cs)
  BY DEF TopFrame, Last
<1>5. /\ S \in StateT /\ S.ci = L.ci /\ S.ccalls = L.ccalls - 1 /\ S.baseccalls = L.baseccalls
      /\ S.status = L.status
  <2>1. L.ccalls - 1 \in Int
    BY <1>3
  <2> QED
    BY <1>2, <2>1 DEF StateT
<1>6. L' = S /\ cs' = Pop /\ ended' = "no"
  BY <1>1 DEF Does, Ends, Result
<1> HIDE DEF S
<1>7. CASE L.status = "ok"
  <2>1. ~Throwing
    BY <1>1 DEF Throwing
  <2>2. Ready
    BY <1>1, <1>2, <1>3, <1>7, <2>1 DEF Inv, Ready
  <2>3. Size(Last(cs)) = 0 /\ Weight(Last(cs)) = 1
    BY <1>1, <1>4 DEF Size, Weight, Counted
  <2>4. S.ci \in Seq(CIRec) /\ Len(S.ci) = Len(L.ci) /\ SameKinds(S.ci, L.ci, Len(L.ci))
    BY <1>3, <1>5 DEF SameKinds
  <2> QED
    BY <1>1, <1>5, <1>7, <2>2, <2>3, <2>4, DoesPop
<1>8. CASE L.status = "yield"
  <2>1. Asleep
    BY <1>8 DEF Inv
  <2>2. cs = <<Frame("resume")>>
    BY <1>1, <2>1 DEF Asleep
  <2>3. cs' = << >> /\ cs' \in Seq(FrameT) /\ Len(cs') = 0 /\ Len(cs) = 1
    BY <1>6, <2>2 DEF Pop
  <2>4. TypesInv'
    BY <1>2, <1>5, <1>6, <2>3 DEF TypesInv
  <2>5. L'.ccalls = 0 /\ L'.ci = L.ci
    BY <1>5, <1>6, <2>1, <2>3 DEF Asleep
  <2>6. Asleep'
    BY <1>6, <2>1, <2>3, <2>5 DEF Asleep
  <2> QED
    BY <1>5, <1>6, <1>8, <2>4, <2>6 DEF Inv
<1>9. CASE L.status = "dead"
  BY <1>1, <1>9 DEF Inv
<1> QED
  BY <1>3, <1>7, <1>8, <1>9 DEF Status

\* A call on the C stack counts, and so do two of them.
LEMMA CountsOne ==
    ASSUME NEW s \in Seq(FrameT), NEW i \in 1..Len(s), Counted(s[i])
    PROVE  /\ Count(s, Len(s)) >= 1
           /\ \A j \in 1..Len(s) : i # j /\ Counted(s[j]) => Count(s, Len(s)) >= 2
<1> DEFINE T == {k \in 1..Len(s) : Counted(s[k])}
<1>1. Len(s) \in Nat
  OBVIOUS
<1>2. IsFiniteSet(T) /\ Cardinality(T) \in Nat /\ Count(s, Len(s)) = Cardinality(T)
  BY <1>1, CountNat DEF Count
<1>3. i \in T /\ \A j \in 1..Len(s) : Counted(s[j]) => j \in T
  OBVIOUS
<1> HIDE DEF T
<1>4. IsFiniteSet({i}) /\ Cardinality({i}) = 1
  BY FS_Singleton
<1>5. {i} \subseteq T
  BY <1>3
<1>6. Cardinality({i}) <= Cardinality(T)
  BY <1>2, <1>5, FS_Subset
<1>7. ASSUME NEW j \in 1..Len(s), i # j, Counted(s[j])
      PROVE  Cardinality(T) >= 2
  <2> DEFINE U == {i} \cup {j}
  <2>1. Cardinality(U) = Cardinality({i}) + 1
    BY <1>4, <1>7, FS_AddElement
  <2>2. U \subseteq T
    BY <1>3, <1>7
  <2> HIDE DEF U
  <2>3. Cardinality(U) <= Cardinality(T)
    BY <1>2, <2>2, FS_Subset
  <2>4. Cardinality(U) = 2
    BY <1>4, <2>1
  <2> QED
    BY <1>2, <2>3, <2>4
<1>8. Cardinality(T) >= 1
  BY <1>2, <1>4, <1>6
<1> QED
  BY <1>2, <1>7, <1>8

\* A C function may yield only when lua_resume and luaV_execute are all there
\* is below it on the C stack.
LEMMA YieldShape ==
    ASSUME Ready, cs # << >>, Last(cs).t = "cfun", L.ccalls <= L.baseccalls
    PROVE  /\ Len(cs) = 3 /\ cs[1] = Frame("resume") /\ cs[2].t = "exec" /\ cs[3].t = "cfun"
           /\ L.ccalls = 1
<1>1. /\ cs \in Seq(FrameT) /\ Good(cs, L.ci, L.ccalls) /\ Len(cs) \in Nat /\ Len(cs) > 1
      /\ L.baseccalls = IF cs[1].t = "resume" THEN 1 ELSE 0
  BY OwnsOne DEF Ready, Lively
<1>2. L.ccalls = Count(cs, Len(cs)) /\ Shape(cs) /\ L.ccalls \in Int
  BY <1>1 DEF Good, Ready
<1>3. \A i \in 1..Len(cs) : cs[i].t # "call"
  <2> SUFFICES ASSUME NEW i \in 1..Len(cs), cs[i].t = "call" PROVE FALSE
    OBVIOUS
  <2>1. Counted(cs[i])
    BY DEF Counted
  <2>2. Count(cs, Len(cs)) >= 1
    BY <1>1, <2>1, CountsOne
  <2>3. CASE cs[1].t = "resume"
    <3>1. 1 \in 1..Len(cs) /\ i # 1 /\ Counted(cs[1])
      BY <1>1, <2>3 DEF Counted
    <3>2. Count(cs, Len(cs)) >= 2
      BY <1>1, <2>1, <3>1, CountsOne
    <3> QED
      BY <1>1, <1>2, <2>3, <3>2
  <2>4. CASE cs[1].t # "resume"
    BY <1>1, <1>2, <2>2, <2>4
  <2> QED
    BY <2>3, <2>4
<1>4. cs[Len(cs) - 1].t = "exec"
  <2>1. Len(cs) \in 1..Len(cs) /\ cs[Len(cs)].t = "cfun" /\ Len(cs) - 1 \in 1..Len(cs)
    BY <1>1 DEF Last
  <2>2. cs[Len(cs) - 1].t \in {"call", "exec"}
    BY <1>2, <2>1 DEF Shape
  <2> QED
    BY <1>3, <2>1, <2>2
<1>5. Len(cs) = 3 /\ cs[1].t = "resume"
  <2> DEFINE i == Len(cs) - 1
  <2>1. i \in 1..Len(cs) /\ cs[i].t = "exec"
    BY <1>1, <1>4
  <2>2. i > 1 /\ cs[i - 1].t \in {"call", "resume"}
    BY <1>2, <2>1 DEF Shape
  <2>3. i - 1 \in 1..Len(cs)
    BY <1>1, <2>2
  <2>4. cs[i - 1].t = "resume"
    BY <1>3, <2>2, <2>3
  <2>5. i - 1 = 1
    BY <1>2, <2>3, <2>4 DEF Shape
  <2>6. Len(cs) = 3
    BY <1>1, <2>5
  <2> QED
    BY <2>4, <2>5, <2>6
<1>6. cs[1] = Frame("resume")
  <2>1. cs[1] \in FrameT
    BY <1>1, <1>5
  <2> QED
    BY <1>5, <2>1 DEF FrameT, Frame
<1>7. L.ccalls = 1
  <2>1. 1 \in 1..Len(cs) /\ Counted(cs[1])
    BY <1>5 DEF Counted
  <2>2. Count(cs, Len(cs)) >= 1
    BY <1>1, <2>1, CountsOne
  <2> QED
    BY <1>1, <1>2, <1>5, <2>2
<1>8. cs[2].t = "exec" /\ cs[3].t = "cfun"
  <2>1. Len(cs) - 1 = 2
    BY <1>5
  <2> QED
    BY <1>4, <1>5, <2>1 DEF Last
<1> QED
  BY <1>5, <1>6, <1>7, <1>8

\* The CallInfos of a coroutine that yields: the base, Lua functions, and the
\* C function.
LEMMA YieldKinds ==
    ASSUME NEW s \in Seq(FrameT), NEW K \in Seq(CIRec), NEW n, Good(s, K, n), Len(s) = 3,
           s[1].t = "resume", s[2].t = "exec", s[3].t = "cfun"
    PROVE  /\ Len(K) > 2 /\ K[1].kind = "base" /\ K[Len(K)].kind = "C"
           /\ \A j \in 2..(Len(K) - 1) : K[j].kind = "Lua"
<1>1. PICK d \in [0..3 -> Nat] : AgreeBy(s, K, d)
  BY DEF Good, Agree
<1>2. /\ d[0] = 1 /\ d[3] = Len(K) /\ K[1].kind = "base"
      /\ d[1] = d[0] + Size(s[1]) /\ d[2] = d[1] + Size(s[2]) /\ d[3] = d[2] + Size(s[3])
      /\ \A j \in (d[1] + 1)..d[2] : K[j].kind = KindOf(s[2])
      /\ \A j \in (d[2] + 1)..d[3] : K[j].kind = KindOf(s[3])
  BY <1>1 DEF AgreeBy
<1>3. Size(s[1]) = 0 /\ Size(s[3]) = 1 /\ KindOf(s[2]) = "Lua" /\ KindOf(s[3]) = "C"
  BY DEF Size, KindOf
<1>4. Size(s[2]) \in Nat \ {0}
  <2>a. 2 \in 1..Len(s)
    OBVIOUS
  <2>1. s[2] \in FrameT
    BY <2>a, SeqElem, Zenon
  <2> QED
    BY <2>1 DEF FrameT, Size
<1>5. d[0] \in Nat /\ d[1] \in Nat /\ d[2] \in Nat /\ d[3] \in Nat
  OBVIOUS
<1>6. d[1] = 1 /\ d[2] = Len(K) - 1 /\ Len(K) > 2 /\ Len(K) \in Nat
  BY <1>2, <1>3, <1>4, <1>5
<1>7. \A j \in 2..(Len(K) - 1) : K[j].kind = "Lua"
  <2>1. d[1] + 1 = 2
    BY <1>6
  <2> QED
    BY <1>2, <1>3, <1>6, <2>1
<1>8. K[Len(K)].kind = "C"
  <2>1. Len(K) \in (d[2] + 1)..d[3]
    BY <1>2, <1>6
  <2> QED
    BY <1>2, <1>3, <2>1
<1> QED
  BY <1>2, <1>6, <1>7, <1>8

\* The first frame alone.
LEMMA FirstFrame ==
    ASSUME NEW s \in Seq(FrameT), Len(s) = 3
    PROVE  /\ SubSeq(s, 1, 1) = <<s[1]>> /\ Len(SubSeq(s, 1, 1)) = 1
           /\ SubSeq(s, 1, 1) \in Seq(FrameT)
<1> DEFINE r == SubSeq(s, 1, 1)
           q == <<s[1]>>
<1>1. r \in Seq(FrameT) /\ Len(r) = 1 /\ r[1] = s[1]
  <2>1. 1 \in 0..Len(s) /\ 1 \in 1..1
    OBVIOUS
  <2> QED
    BY ZenonT(40), <2>1, SeqFacts
<1>2. s[1] \in FrameT
  OBVIOUS
<1>3. q \in Seq(FrameT) /\ Len(q) = 1 /\ q[1] = s[1]
  BY <1>2
<1> HIDE DEF r, q
<1>4. r = q
  BY <1>1, <1>3
<1> QED
  BY <1>1, <1>4 DEF r, q

LEMMA YieldStep ==
    ASSUME Inv, Yield PROVE Inv'
<1> DEFINE S == [L EXCEPT !.status = "yield"]
<1>1. Ready /\ cs # << >> /\ TopFrame = Last(cs) /\ TopFrame.t = "cfun"
  BY RunsReady DEF Yield
<1>2. /\ ended = "no" /\ cs \in Seq(FrameT) /\ L.ci \in Seq(CIRec) /\ L.ccalls \in Int
      /\ L.ci # << >> /\ L \in StateT /\ Good(cs, L.ci, L.ccalls) /\ L.baseccalls \in Int
  BY <1>1 DEF Ready, Lively
<1>3. CASE L.ccalls > L.baseccalls
  <2>1. Ends(Result(L, "run", 0), cs, cs, FALSE)
    BY <1>3 DEF Yield
  <2>2. Quiet(L, Result(L, "run", 0).S) /\ Result(L, "run", 0).res = "run"
    BY <1>2 DEF Result, Quiet
  <2> QED
    BY <1>1, <2>1, <2>2, Stays
<1>4. CASE ~(L.ccalls > L.baseccalls)
  <2>1. /\ Len(cs) = 3 /\ cs[1] = Frame("resume") /\ cs[2].t = "exec" /\ cs[3].t = "cfun"
        /\ L.ccalls = 1
    <3>1. L.ccalls <= L.baseccalls
      BY <1>2, <1>4
    <3> QED
      BY <1>1, <3>1, YieldShape
  <2>2. Does(S, Unwound)
    BY <1>4 DEF Yield
  <2>3. Unwound = SubSeq(cs, 1, 1)
    BY <2>1 DEF Unwound
  <2>4. L' = S /\ cs' = SubSeq(cs, 1, 1) /\ ended' = "no"
    BY <1>2, <2>2, <2>3 DEF Does, Ends, Result
  <2>5. S \in StateT /\ S.ci = L.ci /\ S.ccalls = 1 /\ S.status = "yield"
    <3>1. "yield" \in Status
      BY DEF Status
    <3> QED
      BY <1>2, <2>1, <3>1 DEF StateT
  <2> HIDE DEF S
  <2>6. /\ SubSeq(cs, 1, 1) = <<Frame("resume")>> /\ Len(SubSeq(cs, 1, 1)) = 1
        /\ SubSeq(cs, 1, 1) \in Seq(FrameT)
    BY <1>2, <2>1, FirstFrame
  <2>7. cs' = <<Frame("resume")>> /\ Len(cs') = 1 /\ cs' \in Seq(FrameT)
    BY <2>4, <2>6, Zenon
  <2>8. /\ Len(L.ci) > 2 /\ L.ci[1].kind = "base" /\ L.ci[Len(L.ci)].kind = "C"
        /\ \A j \in 2..(Len(L.ci) - 1) : L.ci[j].kind = "Lua"
    <3>1. cs[1].t = "resume"
      BY <2>1 DEF Frame
    <3> QED
      BY <1>2, <2>1, <3>1, YieldKinds
  <2>9. Asleep'
    BY <2>4, <2>5, <2>7, <2>8 DEF Asleep
  <2>10. TypesInv'
    BY <1>2, <2>4, <2>5, <2>7 DEF TypesInv
  <2> QED
    BY <2>4, <2>5, <2>9, <2>10 DEF Inv
<1> QED
  BY <1>3, <1>4
-----------------------------------------------------------------------------
(* The theorems.                                                           *)

\* A new state.
LEMMA InitInv ==
    ASSUME Init PROVE Inv
<1> DEFINE c == [kind |-> "base", func |-> 0, base |-> 1, top |-> 1 + MinStack,
                 nres |-> 0, tail |-> 0]
<1>1. MinStack \in Nat /\ Extra \in Nat /\ BasicCI \in Nat
  BY LuaCallsAssumption
<1>2. c \in CIRec /\ c.kind = "base"
  BY <1>1 DEF CIRec
<1>3. L = NewState /\ cs = << >> /\ ended = "no"
  BY DEF Init
<1>4. L = [ci |-> <<c>>, top |-> 1, size |-> 2 * MinStack + Extra, sizeci |-> BasicCI,
           open |-> None, ccalls |-> 0, baseccalls |-> 0, status |-> "ok",
           errfunc |-> "none", upvals |-> {}]
  BY <1>3 DEF NewState
<1> HIDE DEF c
<1>5. Lively(<< >>, <<c>>, 0, 0) /\ <<c>> \in Seq(CIRec) /\ <<c>> # << >>
  BY <1>2, EmptyLively
<1> DEFINE K == <<c>>
<1>6. Lively(<< >>, K, 0, 0) /\ K \in Seq(CIRec) /\ K # << >> /\ L.ci = K
  BY <1>4, <1>5
<1>7. L \in StateT /\ L.ccalls = 0 /\ L.baseccalls = 0 /\ L.status = "ok"
  <2>1. 2 * MinStack + Extra \in Int /\ BasicCI \in Int /\ None \in Int
    BY <1>1 DEF None
  <2>2. "ok" \in Status /\ "none" \in ErrFunc /\ {} \in SUBSET Upval
    BY DEF Status, ErrFunc
  <2>3. K \in Seq(CIRec)
    BY <1>6
  <2>4. L = [ci |-> K, top |-> 1, size |-> 2 * MinStack + Extra, sizeci |-> BasicCI,
             open |-> None, ccalls |-> 0, baseccalls |-> 0, status |-> "ok",
             errfunc |-> "none", upvals |-> {}]
    BY <1>4
  <2> HIDE DEF K
  <2> QED
    BY <2>1, <2>2, <2>3, <2>4 DEF StateT
<1> HIDE DEF K
<1>8. cs \in Seq(FrameT) /\ ~Throwing
  BY <1>3 DEF Throwing
<1> QED
  BY <1>3, <1>6, <1>7, <1>8 DEF Inv, TypesInv

\* Every step keeps the C stack, the CallInfos and nCcalls in agreement.
LEMMA StepInv ==
    ASSUME ~Reused, Inv, [Next]_vars PROVE Inv'
<1>1. CASE UNCHANGED vars
  <2>1. L' = L /\ cs' = cs /\ ended' = ended
    BY <1>1 DEF vars
  <2>2. TypesInv' = TypesInv /\ Throwing' = Throwing /\ Asleep' = Asleep
    BY <2>1 DEF TypesInv, Throwing, TopFrame, Asleep
  <2>3. Torn => Torn'
    <3> SUFFICES ASSUME NEW k \in 1..Len(L.ci), NEW n \in Int,
                        Lively(cs, SubSeq(L.ci, 1, k), n, L.baseccalls)
                 PROVE  Torn'
      BY DEF Torn
    <3>1. k \in 1..Len(L'.ci) /\ Lively(cs', SubSeq(L'.ci, 1, k), n, L'.baseccalls)
      BY <2>1
    <3> QED
      BY <3>1 DEF Torn, Lively, Good, Shape, Saved, Agree, AgreeBy
  <2>4. Lively(cs, L.ci, L.ccalls, L.baseccalls)' = Lively(cs, L.ci, L.ccalls, L.baseccalls)
    BY <2>1, Zenon DEF Lively, Good, Shape, Saved, Agree, AgreeBy
  <2> QED
    BY <2>1, <2>2, <2>3, <2>4 DEF Inv
<1>2. ASSUME NEW oom \in BOOLEAN, NEW c \in Callees,
             Enter(c, oom) \/ OpTailCall(c, oom) \/ Start(c, oom)
      PROVE  Inv'
  BY <1>2, EnterStep, OpTailCallStep, StartStep
<1>3. ASSUME NEW oom \in BOOLEAN, NEW c \in Callees, NEW nres \in {1, MULTRET},
             OpCall(c, nres, oom)
      PROVE  Inv'
  <2>1. nres \in Int
    BY DEF MULTRET
  <2> QED
    BY <1>3, <2>1, OpCallStep
<1>4. ASSUME NEW oom \in BOOLEAN, OpVararg(oom) \/ RunError(oom) \/ ApiCheckStack(MinStack, oom)
      PROVE  Inv'
  BY <1>4, OpVarargStep, RunErrorStep, ApiCheckStackStep
<1>5. ASSUME NEW oom \in BOOLEAN, NEW n \in 2..4, CallTM(n, oom)
      PROVE  Inv'
  BY <1>5, CallTMStep
<1>6. CASE CallReturns \/ TMReturns \/ PcallReturns \/ HandlerReturns \/ ResumeReturns
  BY <1>6, CallReturnsStep, TMReturnsStep, PcallReturnsStep, HandlerReturnsStep,
     ResumeReturnsStep
<1>7. CASE OpReturn \/ OpClosure \/ OpError \/ Call(1)
  BY <1>7, OpReturnStep, OpClosureStep, OpErrorStep, CallStep
<1>8. ASSUME NEW h \in Handlers, Pcall(IF h = "none" THEN MULTRET ELSE 1, h)
      PROVE  Inv'
  <2> DEFINE nres == IF h = "none" THEN MULTRET ELSE 1
  <2>1. nres \in Int /\ Pcall(nres, h)
    BY <1>8 DEF MULTRET
  <2> HIDE DEF nres
  <2> QED
    BY <2>1, PcallStep
<1>9. CASE SetTop(0) \/ Error \/ Return
  BY <1>9, SetTopStep, ErrorStep, ReturnStep
<1>10. CASE CaughtByPcall \/ RecoveryFails \/ CaughtByResume \/ Panic
  BY <1>10, CaughtByPcallStep, RecoveryFailsStep, CaughtByResumeStep, PanicStep
<1>11. CASE Resume \/ ResumeRunning \/ Yield
  BY <1>11, ResumeStep, ResumeRunningStep, YieldStep
<1>12. CASE Shrink \/ Close \/ CloseFinalizes \/ CaughtByClose \/ CloseEnds
  BY <1>12, ShrinkStep, CloseStep, CloseFinalizesStep, CaughtByCloseStep, CloseEndsStep
<1> QED
  BY <1>1, <1>2, <1>3, <1>4, <1>5, <1>6, <1>7, <1>8, <1>9, <1>10, <1>11, <1>12 DEF Next

\* The invariant holds as long as the owner of the state does not call
\* functions on a thread it has resumed.
THEOREM StacksAgree == ~Reused /\ Spec => []Inv
<1> SUFFICES ASSUME ~Reused PROVE Spec => []Inv
  OBVIOUS
<1>1. Init => Inv
  BY InitInv
<1>2. Inv /\ [Next]_vars => Inv'
  BY StepInv
<1> QED
  BY <1>1, <1>2, PTL DEF Spec

\* What runs is "ok", except where it sleeps.
LEMMA LiveStatus ==
    ASSUME Inv, ended = "no", cs # << >>, L.status = "ok" \/ Closing
    PROVE  L.status = "ok"
<1>1. L.status \in Status
  BY DEF Inv, TypesInv, StateT
<1>2. L.status # "dead"
  BY DEF Inv
<1>3. ASSUME L.status = "yield" PROVE FALSE
  <2>1. cs = <<Frame("resume")>>
    BY <1>3 DEF Inv, Asleep
  <2>2. cs[1].t = "resume"
    BY <2>1 DEF Frame
  <2> QED
    BY <1>3, <2>2 DEF Closing
<1> QED
  BY <1>1, <1>2, <1>3 DEF Status

\* nCcalls is the number of luaD_call and lua_resume on the C stack.
LEMMA InvCounts ==
    ASSUME Inv PROVE CCallsCount
<1> SUFFICES ASSUME L.status # "dead" \/ Closing, ended = "no", ~Throwing
             PROVE  L.ccalls = Count(cs, Len(cs))
  BY DEF CCallsCount, Count, Counted
<1>1. L.status \in Status
  BY DEF Inv, TypesInv, StateT
<1>2. CASE L.status = "ok"
  BY <1>2 DEF Inv, Lively, Good
<1>3. CASE L.status = "yield"
  <2>1. cs \in {<< >>, <<Frame("resume")>>} /\ L.ccalls = Len(cs)
    BY <1>3 DEF Inv, Asleep
  <2>2. CASE cs = << >>
    <3>1. {i \in 1..0 : Counted(cs[i])} = {} /\ Len(cs) = 0
      BY <2>2
    <3> QED
      BY <2>1, <3>1, FS_EmptySet DEF Count
  <2>3. CASE cs = <<Frame("resume")>>
    <3>1. Len(cs) = 1 /\ Counted(cs[1])
      BY <2>3 DEF Frame, Counted
    <3>2. {i \in 1..1 : Counted(cs[i])} = {1}
      BY <3>1
    <3>3. Cardinality({1}) = 1
      BY FS_Singleton
    <3> QED
      BY <2>1, <3>1, <3>2, <3>3 DEF Count
  <2> QED
    BY <2>1, <2>2, <2>3
<1>4. CASE L.status = "dead"
  BY <1>4 DEF Inv, Closing
<1> QED
  BY <1>1, <1>2, <1>3, <1>4 DEF Status

\* nCcalls counts the activations of luaD_call and lua_resume on the C stack,
\* whatever errors, yields and overflows there were: luaD_pcall and lua_resume
\* restore it exactly (ldo.c).
THEOREM CallsCounted == ~Reused /\ Spec => []CCallsCount
<1>1. Inv => CCallsCount
  BY InvCounts
<1> QED
  BY <1>1, StacksAgree, PTL

\* lua_yield leaves nothing but lua_resume on the C stack: the check of
\* nCcalls against baseCcalls refuses every other yield.
THEOREM YieldsUnwind == ~Reused /\ Spec => []YieldUnwinds
<1>1. Inv => YieldUnwinds
  BY DEF Inv, Asleep, YieldUnwinds
<1> QED
  BY <1>1, StacksAgree, PTL
\* The CallInfos a frame owns.
LEMMA OwnedIs ==
    ASSUME NEW f \in FrameT
    PROVE  /\ Owned(f) \in Seq({"base", "Lua", "C"}) /\ Len(Owned(f)) = Size(f)
           /\ Size(f) \in Nat
           /\ \A j \in 1..Size(f) : Owned(f)[j] = KindOf(f)
<1>1. CASE f.t = "exec"
  <2>1. f.n \in Nat
    BY <1>1 DEF FrameT
  <2> DEFINE o == [i \in 1..f.n |-> "Lua"]
  <2>2. o \in Seq({"base", "Lua", "C"}) /\ Len(o) = f.n /\ \A j \in 1..f.n : o[j] = "Lua"
    BY <2>1
  <2>3. Owned(f) = o /\ Size(f) = f.n /\ KindOf(f) = "Lua"
    BY <1>1 DEF Owned, Size, KindOf
  <2> HIDE DEF o
  <2> QED
    BY <2>1, <2>2, <2>3
<1>2. CASE f.t = "cfun"
  BY <1>2 DEF Owned, Size, KindOf
<1>3. CASE f.t \notin {"exec", "cfun"}
  <2>1. Owned(f) = << >> /\ Size(f) = 0
    BY <1>3 DEF Owned, Size
  <2> QED
    BY <2>1
<1> QED
  BY <1>1, <1>2, <1>3

\* Sequences that agree at every place are equal.
LEMMA SameSeq ==
    ASSUME NEW X, NEW a \in Seq(X), NEW b \in Seq(X), Len(a) = Len(b),
           \A i \in 1..Len(a) : a[i] = b[i]
    PROVE  a = b
OBVIOUS

\* The kinds of the CallInfos of one more frame.
LEMMA KindsStep ==
    ASSUME NEW K \in Seq(CIRec), NEW m \in Nat, NEW f \in FrameT, m + Size(f) <= Len(K),
           \A j \in (m + 1)..(m + Size(f)) : K[j].kind = KindOf(f)
    PROVE  [j \in 1..(m + Size(f)) |-> K[j].kind] = [j \in 1..m |-> K[j].kind] \o Owned(f)
<1> DEFINE Str == {"base", "Lua", "C"}
           n == Size(f)
           a == [j \in 1..m |-> K[j].kind]
           b == [j \in 1..(m + n) |-> K[j].kind]
           o == Owned(f)
<1>1. o \in Seq(Str) /\ Len(o) = n /\ n \in Nat /\ \A j \in 1..n : o[j] = KindOf(f)
  BY OwnedIs
<1>2. Len(K) \in Nat /\ \A j \in 1..Len(K) : K[j].kind \in Str
  <2>1. \A j \in 1..Len(K) : K[j] \in CIRec
    BY SeqElem
  <2>2. \A k \in CIRec : k.kind \in Str
    BY DEF CIRec
  <2>3. Len(K) \in Nat
    OBVIOUS
  <2> QED
    BY <2>1, <2>2, <2>3
<1>3. \A j \in 1..(m + n) : j \in 1..Len(K)
  BY <1>1, <1>2
<1> HIDE DEF n
<1>4. b \in Seq(Str) /\ Len(b) = m + n /\ \A j \in 1..(m + n) : b[j] = K[j].kind
  BY <1>1, <1>2, <1>3
<1>5. a \in Seq(Str) /\ Len(a) = m /\ \A j \in 1..m : a[j] = K[j].kind
  BY <1>1, <1>2, <1>3
<1> HIDE DEF a, b, o
<1>6. /\ a \o o \in Seq(Str) /\ Len(a \o o) = m + n
      /\ \A j \in 1..(m + n) : (a \o o)[j] = IF j <= m THEN a[j] ELSE o[j - m]
  <2>1. /\ a \o o \in Seq(Str) /\ Len(a \o o) = Len(a) + Len(o)
        /\ \A j \in 1..(Len(a) + Len(o)) :
              (a \o o)[j] = IF j <= Len(a) THEN a[j] ELSE o[j - Len(a)]
    BY SMTT(30), <1>1, <1>5
  <2> QED
    BY <1>1, <1>5, <2>1
<1>7. ASSUME NEW j \in 1..(m + n) PROVE b[j] = (a \o o)[j]
  <2>1. CASE j <= m
    <3>1. j \in 1..m
      BY <1>1, <2>1
    <3> QED
      BY <1>4, <1>5, <1>6, <2>1, <3>1
  <2>2. CASE ~(j <= m)
    <3>1. j - m \in 1..n /\ j \in (m + 1)..(m + n)
      BY <1>1, <2>2
    <3>2. o[j - m] = KindOf(f) /\ K[j].kind = KindOf(f)
      BY <1>1, <3>1 DEF n
    <3> QED
      BY <1>4, <1>6, <2>2, <3>2
  <2> QED
    BY <2>1, <2>2
<1>8. b = a \o o
  BY <1>4, <1>6, <1>7, SameSeq
<1> QED
  BY <1>8 DEF a, b, o, n

\* k[i] is what the base and the first i frames of s say of the CallInfos.
Reads(s, k) == k = [i \in 0..Len(s) |-> IF i = 0 THEN <<"base">> ELSE k[i - 1] \o Owned(s[i])]

\* The kinds of the CallInfos, read off the C stack frame by frame.
LEMMA KindsOf ==
    ASSUME NEW s \in Seq(FrameT), NEW K \in Seq(CIRec), Agree(s, K)
    PROVE  /\ \E k : Reads(s, k)
           /\ \A k : Reads(s, k) => k[Len(s)] = [i \in 1..Len(K) |-> K[i].kind]
<1> DEFINE N == Len(s)
<1>1. N \in Nat /\ Len(K) \in Nat /\ Len(s) = N
  OBVIOUS
<1> HIDE DEF N
<1>2. PICK d \in [0..N -> Nat] : AgreeBy(s, K, d)
  BY <1>1 DEF Agree
<1> DEFINE G(i) == [j \in 1..d[i] |-> K[j].kind]
           g == [i \in 0..N |-> G(i)]
<1>3. \A i \in 0..N : d[i] \in Nat /\ d[i] <= Len(K)
  <2>1. \A i \in 0..N : d[i] <= d[N] /\ d[N] = Len(K)
    BY <1>1, <1>2 DEF AgreeBy
  <2> QED
    BY <2>1
<1>6. G(0) = <<"base">>
  <2>1. d[0] = 1 /\ K[1].kind = "base"
    BY <1>2 DEF AgreeBy
  <2> DEFINE a == [j \in 1..1 |-> K[j].kind]
  <2>2. a \in Seq({"base"}) /\ Len(a) = 1 /\ a[1] = "base"
    BY <2>1
  <2>3. G(0) = a
    BY <2>1
  <2> HIDE DEF G, a
  <2> QED
    BY <2>2, <2>3
<1>7. ASSUME NEW i \in 1..N PROVE G(i) = G(i - 1) \o Owned(s[i])
  <2>1. s[i] \in FrameT /\ i \in 0..N /\ i - 1 \in 0..N
    BY <1>1, SeqElem
  <2>2. /\ d[i] = d[i - 1] + Size(s[i])
        /\ \A j \in (d[i - 1] + 1)..d[i] : K[j].kind = KindOf(s[i])
    BY <1>1, <1>2 DEF AgreeBy
  <2>3. d[i - 1] \in Nat /\ d[i] <= Len(K)
    BY <1>3, <2>1
  <2>4. G(i) = [j \in 1..(d[i - 1] + Size(s[i])) |-> K[j].kind]
    BY <2>2
  <2>5. [j \in 1..(d[i - 1] + Size(s[i])) |-> K[j].kind]
          = [j \in 1..d[i - 1] |-> K[j].kind] \o Owned(s[i])
    <3> DEFINE m == d[i - 1]
               f == s[i]
    <3>1. f \in FrameT /\ m \in Nat /\ m + Size(f) <= Len(K)
      BY <2>1, <2>2, <2>3
    <3>2. \A j \in (m + 1)..(m + Size(f)) : K[j].kind = KindOf(f)
      BY <2>2
    <3> HIDE DEF m, f
    <3>3. [j \in 1..(m + Size(f)) |-> K[j].kind] = [j \in 1..m |-> K[j].kind] \o Owned(f)
      BY <3>1, <3>2, KindsStep
    <3> QED
      BY <3>3 DEF m, f
  <2> QED
    BY <2>4, <2>5
<1> HIDE DEF G
<1>8. \A i \in 0..N : g[i] = G(i)
  OBVIOUS
<1>9. \A i \in 0..N : g[i] = IF i = 0 THEN <<"base">> ELSE g[i - 1] \o Owned(s[i])
  <2> SUFFICES ASSUME NEW i \in 0..N
               PROVE  g[i] = IF i = 0 THEN <<"base">> ELSE g[i - 1] \o Owned(s[i])
    OBVIOUS
  <2>1. g[i] = G(i)
    BY <1>8
  <2>2. i # 0 => i \in 1..N /\ i - 1 \in 0..N
    BY <1>1
  <2>3. i # 0 => g[i - 1] = G(i - 1)
    BY <1>8, <2>2
  <2> HIDE DEF g
  <2> QED
    BY <1>6, <1>7, <2>1, <2>2, <2>3
<1>10. Reads(s, g)
  <2>1. g = [i \in 0..N |-> g[i]]
    OBVIOUS
  <2> HIDE DEF g
  <2> DEFINE H(i) == IF i = 0 THEN <<"base">> ELSE g[i - 1] \o Owned(s[i])
  <2>a. \A i \in 0..N : g[i] = H(i)
    BY <1>9
  <2> HIDE DEF H
  <2>b. g = [i \in 0..N |-> H(i)]
    BY <2>1, <2>a
  <2>2. g = [i \in 0..N |-> IF i = 0 THEN <<"base">> ELSE g[i - 1] \o Owned(s[i])]
    BY <2>b, Zenon DEF H
  <2> QED
    BY <1>1, <2>2 DEF Reads
<1> HIDE DEF g
<1>11. ASSUME NEW k, Reads(s, k) PROVE k[N] = G(N)
  <2>1. \A i \in 0..N : k[i] = IF i = 0 THEN <<"base">> ELSE k[i - 1] \o Owned(s[i])
    <3>1. k = [i \in 0..N |-> IF i = 0 THEN <<"base">> ELSE k[i - 1] \o Owned(s[i])]
      BY <1>1, <1>11 DEF Reads
    <3> QED
      BY <3>1
  <2> DEFINE Bad == {i \in 0..N : k[i] # G(i)}
  <2>2. ASSUME Bad # {} PROVE FALSE
    <3>1. Bad \subseteq Nat
      BY <1>1
    <3>2. PICK x \in Bad : \A y \in Bad : x <= y
      BY <2>2, <3>1, LeastNatural
    <3>3. x \in 0..N /\ k[x] # G(x)
      OBVIOUS
    <3>4. x # 0
      BY <1>1, <1>6, <2>1, <3>3
    <3>5. x \in 1..N /\ x - 1 \in 0..N
      BY <1>1, <3>3, <3>4
    <3>6. k[x - 1] = G(x - 1)
      <4>1. x - 1 \notin Bad
        BY <1>1, <3>2, <3>5
      <4> QED
        BY <3>5, <4>1
    <3>7. k[x] = k[x - 1] \o Owned(s[x])
      BY <2>1, <3>3, <3>4
    <3> QED
      BY <1>7, <3>3, <3>5, <3>6, <3>7
  <2> QED
    BY <1>1, <2>2
<1>12. G(N) = [i \in 1..Len(K) |-> K[i].kind]
  <2>1. d[N] = Len(K)
    BY <1>1, <1>2 DEF AgreeBy
  <2> QED
    BY <2>1 DEF G
<1> QED
  BY <1>1, <1>10, <1>11, <1>12

LEMMA InvMatches ==
    ASSUME Inv PROVE FramesMatch
<1> DEFINE kinds[i \in 0..Len(cs)] ==
             IF i = 0 THEN <<"base">> ELSE kinds[i - 1] \o Owned(cs[i])
<1> SUFFICES ASSUME cs # << >>, L.status = "ok" \/ Closing, ended = "no", ~Throwing
             PROVE  kinds[Len(cs)] = [i \in 1..Len(L.ci) |-> L.ci[i].kind]
  BY DEF FramesMatch
<1>1. L.status = "ok"
  BY LiveStatus
<1>2. Agree(cs, L.ci)
  BY <1>1 DEF Inv, Lively, Good
<1>3. cs \in Seq(FrameT) /\ L.ci \in Seq(CIRec)
  BY DEF Inv, TypesInv, StateT
<1>4. kinds = CHOOSE k : Reads(cs, k)
  BY DEF Reads
<1> HIDE DEF kinds
<1>5. /\ \E k : Reads(cs, k)
      /\ \A k : Reads(cs, k) => k[Len(cs)] = [i \in 1..Len(L.ci) |-> L.ci[i].kind]
  BY <1>2, <1>3, KindsOf
<1>6. Reads(cs, kinds)
  BY <1>4, <1>5, Zenon
<1> QED
  BY <1>5, <1>6, Zenon

\* The CallInfo array holds exactly the functions that the luaV_execute and C
\* function activations of the C stack say it holds, through calls, tail calls,
\* errors, yields and overflows of the C stack, of the CallInfo array and of
\* memory: OP_RETURN leaves luaV_execute when its first function returns.
THEOREM StacksMatch == ~Reused /\ Spec => []FramesMatch
<1>1. Inv => FramesMatch
  BY InvMatches
<1> QED
  BY <1>1, StacksAgree, PTL
-----------------------------------------------------------------------------
(* Open upvalues.  An upvalue of an activation is found again by its slot, *)
(* so what luaF_close closes depends on where the activations are on the   *)
(* stack: each one above those below it, and above every protected call    *)
(* that would cut it off.                                                  *)

\* The tag method's result is on top of the stack when callTMres goes on.
ResTM(f) == f.t = "tm" /\ f.res

\* The activations are in order on the stack.
Nested(K) ==
    /\ K[1].base = 1
    /\ \A i \in 1..Len(K) : /\ K[i].func < K[i].base /\ K[i].nres >= MULTRET
                            /\ K[i].kind = "Lua" => K[i].base <= K[i].top
    /\ \A i, j \in 1..Len(K) : i < j => K[i].base <= K[j].func

\* A protected call is above the activation it was made in and below those it
\* will cut off.
Guards(s, K) ==
    /\ \A i \in 1..Len(s) : s[i].t = "pcall" =>
         /\ K[s[i].ci].base <= s[i].top
         /\ \A j \in (s[i].ci + 1)..Len(K) : s[i].top <= K[j].func
    /\ \A i, j \in 1..Len(s) :
         i < j /\ s[i].t = "pcall" /\ s[j].t = "pcall" => s[i].top <= s[j].top

\* Who calls whom, continued.
Callers(s) ==
    \A i \in 1..Len(s) :
       /\ s[i].t = "pcall" => i = 1 \/ s[i - 1].t = "cfun"
       /\ s[i].t = "tm" => i > 1 /\ s[i - 1].t = "exec"
       /\ s[i].t \in {"call", "enter"} =>
             i > 1 /\ s[i - 1].t \in {"cfun", "pcall", "tm", "handler", "close"}

\* d[i] CallInfos belong to the base and to the first i frames of s, i <= m.
Deep(s, m, d) == d \in [0..m -> Nat] /\ d[0] = 1 /\ \A i \in 1..m : d[i] = d[i - 1] + Size(s[i])

\* The function that callTMres calls is called for one result.
Results(s, K) ==
    \A m \in 3..Len(s) : ResTM(s[m - 2]) /\ s[m].t \in {"exec", "cfun"} =>
        \A d : Deep(s, m - 1, d) => K[d[m - 1] + 1].nres = 1

Core(s, K) == Nested(K) /\ Guards(s, K) /\ Callers(s) /\ Results(s, K)

\* Position p is above the running activation and above every protected call.
Caps(s, p) == \A i \in 1..Len(s) : s[i].t = "pcall" => s[i].top <= p
Over(s, K, p) == K[Len(K)].base <= p /\ Caps(s, p)

\* Results are open only in the Lua function that runs, or during a C function
\* it called.
OpenIn(s, open) ==
    open # None => \A i \in 1..Len(s) : s[i].t = "tm" => \E j \in (i + 1)..Len(s) : s[j].t = "exec"

\* The frame on top of s is about to take a value off the stack.
Spare(s) ==
    /\ s # << >>
    /\ \/ Last(s).t = "error" /\ ~Last(s).msg
       \/ ResTM(Last(s))
       \/ Last(s).t = "call" /\ ResTM(s[Len(s) - 1])

Edge(s, K, top, open) ==
    /\ Last(s).t = "enter" => /\ Over(s, K, Last(s).func) /\ Last(s).func < top
                              /\ Last(s).nres >= MULTRET
                              /\ ResTM(s[Len(s) - 1]) => Last(s).nres = 1
    /\ Last(s).t = "exec" => open = None \/ open <= top

Fit(s, K, top, open) ==
    /\ Over(s, K, top)
    /\ OpenIn(s, open)
    /\ Spare(s) => Over(s, K, top - 1)
    /\ s # << >> => Edge(s, K, top, open)

\* Every open upvalue is the first register of a Lua activation.
Owns(U, K) == \A u \in U : /\ u.depth \in 1..Len(K) /\ K[u.depth].base = u.slot
                           /\ K[u.depth].tail = u.tail /\ K[u.depth].kind = "Lua"

Geo ==
    /\ Closing \/ Owns(L.upvals, L.ci)
    /\ ended = "no" /\ L.status # "dead" =>
          Core(cs, L.ci) /\ (~Throwing => Fit(cs, L.ci, L.top, L.open))

-----------------------------------------------------------------------------
(* Moves of the C stack and the CallInfos.                                 *)

\* The positions d are those of the invariant.
LEMMA DeepEnds ==
    ASSUME NEW s \in Seq(FrameT), NEW K \in Seq(CIRec), NEW n, Good(s, K, n),
           NEW m \in 0..Len(s), NEW d, Deep(s, m, d)
    PROVE  /\ d[m] \in 1..Len(K)
           /\ m = Len(s) => d[m] = Len(K)
           /\ m < Len(s) => d[m] + Size(s[m + 1]) <= Len(K)
           /\ m < Len(s) - 1 => d[m] + Size(s[m + 1]) <= Len(K) - Size(Last(s))
<1>1. Len(s) \in Nat /\ Len(K) \in Nat
  OBVIOUS
<1>2. PICK e \in [0..Len(s) -> Nat] : AgreeBy(s, K, e)
  BY DEF Good, Agree
<1>3. /\ e[0] = 1 /\ e[Len(s)] = Len(K) /\ \A i, j \in 0..Len(s) : i <= j => e[i] <= e[j]
      /\ \A i \in 1..Len(s) : e[i] = e[i - 1] + Size(s[i])
  BY <1>2 DEF AgreeBy
<1>4. \A i \in 1..Len(s) : Size(s[i]) \in Nat
  <2>1. \A f \in FrameT : Size(f) \in Nat
    BY DEF FrameT, Size
  <2> QED
    BY <2>1, SeqElem
<1>5. d[m] = e[m]
  <2> DEFINE T == {i \in 0..m : d[i] # e[i]}
  <2> SUFFICES ASSUME T # {} PROVE FALSE
    OBVIOUS
  <2>1. T \subseteq Nat
    OBVIOUS
  <2>2. PICK x \in T : \A y \in T : x <= y
    BY <2>1, LeastNatural
  <2>3. x # 0 /\ x \in 1..m /\ x \in 1..Len(s)
    BY <1>1, <1>3 DEF Deep
  <2>4. x - 1 \in 0..m /\ ~(x <= x - 1)
    BY <2>3
  <2>5. d[x - 1] = e[x - 1]
    BY <2>2, <2>4
  <2>6. d[x] = d[x - 1] + Size(s[x]) /\ e[x] = e[x - 1] + Size(s[x])
    BY <1>3, <2>3 DEF Deep
  <2> QED
    BY <2>2, <2>5, <2>6
<1>6. e[m] \in Nat /\ 1 <= e[m] /\ e[m] <= Len(K)
  BY <1>1, <1>3
<1>7. ASSUME m < Len(s) PROVE d[m] + Size(s[m + 1]) = e[m + 1] /\ m + 1 \in 0..Len(s)
  <2>1. m + 1 \in 1..Len(s) /\ (m + 1) - 1 = m
    BY <1>1, <1>7
  <2> QED
    BY <1>3, <1>5, <2>1
<1>8. m < Len(s) => d[m] + Size(s[m + 1]) <= Len(K)
  BY <1>1, <1>3, <1>7
<1>9. ASSUME m < Len(s) - 1 PROVE d[m] + Size(s[m + 1]) <= Len(K) - Size(Last(s))
  <2>1. m < Len(s) /\ m + 1 <= Len(s) - 1 /\ Len(s) - 1 \in 0..Len(s) /\ Len(s) \in 1..Len(s)
    BY <1>1, <1>9
  <2>2. e[m + 1] <= e[Len(s) - 1]
    BY <1>3, <1>7, <2>1
  <2>3. Len(K) = e[Len(s) - 1] + Size(Last(s)) /\ e[Len(s) - 1] \in Nat /\ Size(Last(s)) \in Nat
    BY <1>3, <1>4, <2>1 DEF Last
  <2> QED
    BY <1>1, <1>7, <2>1, <2>2, <2>3
<1> QED
  BY <1>1, <1>3, <1>5, <1>6, <1>8, <1>9

\* A protected call remembers a CallInfo that is there.
LEMMA PcallCI ==
    ASSUME NEW s \in Seq(FrameT), NEW K \in Seq(CIRec), NEW n, Good(s, K, n),
           NEW i \in 1..Len(s), s[i].t = "pcall"
    PROVE  s[i].ci \in 1..Len(K)
<1>1. PICK e \in [0..Len(s) -> Nat] : AgreeBy(s, K, e)
  BY DEF Good, Agree
<1>2. i - 1 \in 0..Len(s) /\ 0 \in 0..Len(s) /\ Len(s) \in 0..Len(s) /\ Len(K) \in Nat
      /\ 0 <= i - 1 /\ i - 1 <= Len(s)
  OBVIOUS
<1>3. /\ e[0] = 1 /\ e[0] <= e[i - 1] /\ e[i - 1] <= e[Len(s)] /\ e[Len(s)] = Len(K)
      /\ s[i].ci = e[i - 1]
  BY <1>1, <1>2 DEF AgreeBy
<1> QED
  BY <1>2, <1>3

\* ... and below the CallInfo of the function on top of the C stack.
LEMMA PcallBelow ==
    ASSUME NEW s \in Seq(FrameT), NEW K \in Seq(CIRec), NEW n, Good(s, K, n),
           s # << >>, Last(s).t \in {"exec", "cfun"}, NEW i \in 1..Len(s), s[i].t = "pcall"
    PROVE  s[i].ci \in 1..(Len(K) - 1)
<1>1. PICK e \in [0..Len(s) -> Nat] : AgreeBy(s, K, e)
  BY DEF Good, Agree
<1>0. Len(s) \in Nat /\ Len(s) # 0
  OBVIOUS
<1>a. i # Len(s)
  BY DEF Last
<1>2. /\ i - 1 \in 0..Len(s) /\ Len(s) - 1 \in 0..Len(s) /\ Len(K) \in Nat /\ Len(s) \in 1..Len(s)
      /\ i - 1 <= Len(s) - 1 /\ 0 \in 0..Len(s) /\ 0 <= i - 1
  BY <1>0, <1>a
<1>3. e[0] = 1 /\ e[0] <= e[i - 1] /\ e[i - 1] <= e[Len(s) - 1] /\ s[i].ci = e[i - 1]
      /\ e[Len(s)] = Len(K) /\ e[Len(s)] = e[Len(s) - 1] + Size(Last(s))
  BY <1>1, <1>2 DEF AgreeBy, Last
<1>4. Size(Last(s)) \in Nat /\ Size(Last(s)) >= 1
  <2>1. Last(s) \in FrameT
    BY <1>0 DEF Last
  <2> QED
    BY <2>1 DEF FrameT, Size
<1>5. e[0] \in Nat /\ e[i - 1] \in Nat /\ e[Len(s) - 1] \in Nat /\ e[Len(s)] \in Nat
  <2>1. \A x \in 0..Len(s) : e[x] \in Nat
    OBVIOUS
  <2>2. Len(s) \in 0..Len(s)
    BY <1>0
  <2> QED
    BY <1>2, <2>1, <2>2
<1> QED
  BY <1>2, <1>3, <1>4, <1>5

\* The CallInfos K hold at least those of the frames in s.
Based(s, K) == \E k \in 1..Len(K) : \E n : Good(s, SubSeq(K, 1, k), n)

\* What it says of the places of CallInfos.
LEMMA BasedPlaces ==
    ASSUME NEW s \in Seq(FrameT), NEW K \in Seq(CIRec), Based(s, K)
    PROVE  /\ \A i \in 1..Len(s) : s[i].t = "pcall" => s[i].ci \in 1..Len(K)
           /\ \A m \in 1..Len(s) : \A d :
                 Deep(s, m - 1, d) /\ s[m].t \in {"exec", "cfun"} => d[m - 1] + 1 \in 1..Len(K)
<1>1. PICK k \in 1..Len(K) : \E n : Good(s, SubSeq(K, 1, k), n)
  BY DEF Based
<1>2. PICK n : Good(s, SubSeq(K, 1, k), n)
  BY <1>1
<1>3. SubSeq(K, 1, k) \in Seq(CIRec) /\ Len(SubSeq(K, 1, k)) = k /\ Len(K) \in Nat
  BY SeqFacts
<1>4. ASSUME NEW i \in 1..Len(s), s[i].t = "pcall" PROVE s[i].ci \in 1..Len(K)
  <2>1. s[i].ci \in 1..k
    BY <1>2, <1>3, <1>4, PcallCI
  <2> QED
    BY <1>3, <2>1
<1>5. ASSUME NEW m \in 1..Len(s), NEW d, Deep(s, m - 1, d), s[m].t \in {"exec", "cfun"}
      PROVE  d[m - 1] + 1 \in 1..Len(K)
  <2>1. m - 1 \in 0..Len(s) /\ m - 1 < Len(s) /\ (m - 1) + 1 = m
    OBVIOUS
  <2>2. d[m - 1] \in 1..k /\ d[m - 1] + Size(s[m]) <= k
    BY <1>2, <1>3, <1>5, <2>1, DeepEnds
  <2>3. Size(s[m]) \in Nat /\ Size(s[m]) >= 1
    <3>1. s[m] \in FrameT
      BY SeqElem
    <3> QED
      BY <1>5, <3>1 DEF FrameT, Size
  <2> QED
    BY <1>3, <2>2, <2>3
<1> QED
  BY <1>4, <1>5

LEMMA GoodBased ==
    ASSUME NEW s, NEW K \in Seq(CIRec), K # << >>, NEW n, Good(s, K, n)
    PROVE  Based(s, K)
<1>1. Len(K) \in 1..Len(K) /\ SubSeq(K, 1, Len(K)) = K
  OBVIOUS
<1>2. Good(s, SubSeq(K, 1, Len(K)), n)
  BY <1>1
<1> QED
  BY <1>1, <1>2, Zenon DEF Based

\* The positions of a stack are those of any stack that begins like it.
LEMMA DeepSame ==
    ASSUME NEW s, NEW r, NEW m \in Nat, NEW d, Deep(s, m, d), \A i \in 1..m : r[i] = s[i]
    PROVE  Deep(r, m, d)
<1>1. \A i \in 1..m : Size(r[i]) = Size(s[i])
  OBVIOUS
<1> QED
  BY <1>1 DEF Deep

\* A new CallInfo k.
Fresh(k) == k.func < k.base /\ k.nres >= MULTRET /\ (k.kind = "Lua" => k.base <= k.top)

LEMMA NestedTypes ==
    ASSUME NEW K \in Seq(CIRec)
    PROVE  \A i \in 1..Len(K) : /\ K[i] \in CIRec /\ K[i].base \in Int /\ K[i].func \in Int
                                /\ K[i].top \in Int /\ K[i].nres \in Int
<1>1. \A i \in 1..Len(K) : K[i] \in CIRec
  OBVIOUS
<1>2. \A k \in CIRec : k.base \in Int /\ k.func \in Int /\ k.top \in Int /\ k.nres \in Int
  BY DEF CIRec
<1> QED
  BY <1>1, <1>2

\* The tops that protected calls saved are integers.
LEMMA PcallTop ==
    ASSUME NEW s \in Seq(FrameT)
    PROVE  \A i \in 1..Len(s) : s[i].t = "pcall" => s[i].top \in Int /\ s[i].ci \in Int
<1>1. \A f \in FrameT : f.t = "pcall" => f.top \in Int /\ f.ci \in Int
  BY DEF FrameT
<1> QED
  BY <1>1, SeqElem

\* Cutting off frames and CallInfos.
LEMMA CoreCut ==
    ASSUME NEW s \in Seq(FrameT), NEW K \in Seq(CIRec), Core(s, K),
           NEW m \in 0..Len(s), NEW k \in 1..Len(K), NEW r, r = SubSeq(s, 1, m),
           NEW J, J = SubSeq(K, 1, k), Based(r, J)
    PROVE  Core(r, J)
<1>1. /\ r \in Seq(FrameT) /\ Len(r) = m /\ \A i \in 1..m : r[i] = s[i]
      /\ J \in Seq(CIRec) /\ Len(J) = k /\ \A i \in 1..k : J[i] = K[i]
      /\ Len(s) \in Nat /\ Len(K) \in Nat
  BY SeqFacts
<1>2. /\ \A i \in 1..m : i \in 1..Len(s)
      /\ \A i \in 1..k : i \in 1..Len(K)
  BY <1>1
<1>3. /\ \A i \in 1..m : r[i].t = "pcall" => r[i].ci \in 1..k
      /\ \A x \in 1..m : \A d :
            Deep(r, x - 1, d) /\ r[x].t \in {"exec", "cfun"} => d[x - 1] + 1 \in 1..k
  BY <1>1, BasedPlaces
<1>4. Nested(J)
  BY <1>1, <1>2 DEF Core, Nested
<1>5. Guards(r, J)
  <2>1. ASSUME NEW i \in 1..m, r[i].t = "pcall"
        PROVE  J[r[i].ci].base <= r[i].top /\ \A j \in (r[i].ci + 1)..k : r[i].top <= J[j].func
    <3>1. s[i].t = "pcall" /\ s[i].ci = r[i].ci /\ s[i].top = r[i].top /\ r[i].ci \in 1..k
      BY <1>1, <1>3, <2>1
    <3>2. K[s[i].ci].base <= s[i].top /\ \A j \in (s[i].ci + 1)..Len(K) : s[i].top <= K[j].func
      BY <1>2, <3>1 DEF Core, Guards
    <3>3. \A j \in (r[i].ci + 1)..k : j \in (s[i].ci + 1)..Len(K) /\ j \in 1..k
      BY <1>1, <3>1
    <3> QED
      BY <1>1, <3>1, <3>2, <3>3
  <2>2. \A i, j \in 1..m : i < j /\ r[i].t = "pcall" /\ r[j].t = "pcall" => r[i].top <= r[j].top
    BY <1>1, <1>2 DEF Core, Guards
  <2> QED
    BY <1>1, <2>1, <2>2 DEF Guards
<1>6. Callers(r)
  <2> SUFFICES ASSUME NEW i \in 1..m
               PROVE  /\ r[i].t = "pcall" => i = 1 \/ r[i - 1].t = "cfun"
                      /\ r[i].t = "tm" => i > 1 /\ r[i - 1].t = "exec"
                      /\ r[i].t \in {"call", "enter"} =>
                          i > 1 /\ r[i - 1].t \in {"cfun", "pcall", "tm", "handler", "close"}
    BY <1>1 DEF Callers
  <2>1. i \in 1..Len(s) /\ r[i] = s[i] /\ (i = 1 \/ r[i - 1] = s[i - 1])
    <3>1. i = 1 \/ i - 1 \in 1..m
      BY <1>1
    <3> QED
      BY <1>1, <1>2, <3>1
  <2> QED
    BY <2>1 DEF Core, Callers
<1>7. Results(r, J)
  <2> SUFFICES ASSUME NEW x \in 3..m, ResTM(r[x - 2]), r[x].t \in {"exec", "cfun"},
                      NEW d, Deep(r, x - 1, d)
               PROVE  J[d[x - 1] + 1].nres = 1
    BY <1>1 DEF Results
  <2>1. x \in 1..m /\ x - 2 \in 1..m /\ x - 1 \in Nat /\ x \in 3..Len(s)
    BY <1>1
  <2>2. \A i \in 1..(x - 1) : s[i] = r[i]
    BY <1>1, <2>1
  <2>3. Deep(s, x - 1, d)
    BY <2>1, <2>2, DeepSame
  <2>4. ResTM(s[x - 2]) /\ s[x].t \in {"exec", "cfun"}
    BY <1>1, <2>1
  <2>5. K[d[x - 1] + 1].nres = 1
    BY <2>1, <2>3, <2>4 DEF Core, Results
  <2>6. d[x - 1] + 1 \in 1..k
    BY <1>3, <2>1
  <2> QED
    BY <1>1, <2>5, <2>6
<1> QED
  BY <1>4, <1>5, <1>6, <1>7 DEF Core

\* Frame f may be called by the last frame of s.
CalledBy(s, f) ==
    /\ f.t = "pcall" => s = << >> \/ Last(s).t = "cfun"
    /\ f.t = "tm" => s # << >> /\ Last(s).t = "exec"
    /\ f.t \in {"call", "enter"} =>
          s # << >> /\ Last(s).t \in {"cfun", "pcall", "tm", "handler", "close"}

\* What the frames of s and f say of the CallInfos.
LEMMA CallersPush ==
    ASSUME NEW s \in Seq(FrameT), Callers(s), NEW f \in FrameT, CalledBy(s, f)
    PROVE  Callers(Append(s, f))
<1> DEFINE r == Append(s, f)
<1>1. Len(s) \in Nat /\ Len(r) = Len(s) + 1 /\ r[Len(s) + 1] = f /\ \A i \in 1..Len(s) : r[i] = s[i]
  BY SeqFacts
<1>2. s # << >> => Last(s) = s[Len(s)] /\ Len(s) \in 1..Len(s)
  BY <1>1 DEF Last
<1> HIDE DEF r
<1> SUFFICES ASSUME NEW i \in 1..Len(r)
             PROVE  /\ r[i].t = "pcall" => i = 1 \/ r[i - 1].t = "cfun"
                    /\ r[i].t = "tm" => i > 1 /\ r[i - 1].t = "exec"
                    /\ r[i].t \in {"call", "enter"} =>
                        i > 1 /\ r[i - 1].t \in {"cfun", "pcall", "tm", "handler", "close"}
  BY DEF Callers, r
<1>3. CASE i \in 1..Len(s)
  <2>1. r[i] = s[i] /\ (i = 1 \/ r[i - 1] = s[i - 1])
    <3>1. i = 1 \/ i - 1 \in 1..Len(s)
      BY <1>1, <1>3
    <3> QED
      BY <1>1, <1>3, <3>1
  <2> QED
    BY <1>3, <2>1 DEF Callers
<1>4. CASE i = Len(s) + 1
  <2>1. r[i] = f /\ i - 1 = Len(s)
    BY <1>1, <1>4
  <2>2. CASE s = << >>
    BY <1>1, <1>4, <2>1, <2>2 DEF CalledBy
  <2>3. CASE s # << >>
    <3>1. r[i - 1] = Last(s) /\ i > 1
      BY <1>1, <1>2, <1>4, <2>1, <2>3
    <3> QED
      BY <2>1, <2>3, <3>1 DEF CalledBy
  <2> QED
    BY <2>2, <2>3
<1> QED
  BY <1>1, <1>3, <1>4

\* A frame is pushed; the CallInfo of the function that callTMres calls is there.
LEMMA CorePush ==
    ASSUME NEW s \in Seq(FrameT), NEW K \in Seq(CIRec), Core(s, K),
           NEW f \in FrameT, CalledBy(s, f),
           f.t = "pcall" => f.ci = Len(K) /\ K[Len(K)].base <= f.top /\ Caps(s, f.top),
           f.t \in {"exec", "cfun"} /\ Len(s) > 1 /\ ResTM(s[Len(s) - 1]) =>
              \A d : Deep(s, Len(s), d) => K[d[Len(s)] + 1].nres = 1
    PROVE  Core(Append(s, f), K)
<1> DEFINE r == Append(s, f)
<1>1. /\ Len(s) \in Nat /\ Len(r) = Len(s) + 1 /\ r[Len(s) + 1] = f
      /\ \A i \in 1..Len(s) : r[i] = s[i]
      /\ Len(K) \in Nat
  BY SeqFacts
<1> HIDE DEF r
<1>2. Callers(r)
  BY CallersPush DEF Core, r
<1>3. Guards(r, K)
  <2>1. ASSUME NEW i \in 1..Len(r), r[i].t = "pcall"
        PROVE  K[r[i].ci].base <= r[i].top /\ \A j \in (r[i].ci + 1)..Len(K) : r[i].top <= K[j].func
    <3>1. CASE i \in 1..Len(s)
      <4>1. r[i] = s[i]
        BY <1>1, <3>1
      <4> QED
        BY <2>1, <3>1, <4>1 DEF Core, Guards
    <3>2. CASE i = Len(s) + 1
      <4>1. r[i] = f /\ f.t = "pcall" /\ f.ci = Len(K)
        BY <1>1, <2>1, <3>2
      <4>2. \A j \in (f.ci + 1)..Len(K) : f.top <= K[j].func
        BY <1>1, <4>1
      <4> QED
        BY <4>1, <4>2
    <3> QED
      BY <1>1, <3>1, <3>2
  <2>2. ASSUME NEW i \in 1..Len(r), NEW j \in 1..Len(r), i < j, r[i].t = "pcall", r[j].t = "pcall"
        PROVE  r[i].top <= r[j].top
    <3>1. i \in 1..Len(s) /\ r[i] = s[i]
      BY <1>1, <2>2
    <3>2. CASE j \in 1..Len(s)
      <4>1. r[j] = s[j]
        BY <1>1, <3>2
      <4> QED
        BY <2>2, <3>1, <3>2, <4>1 DEF Core, Guards
    <3>3. CASE j = Len(s) + 1
      <4>1. r[j] = f /\ Caps(s, f.top)
        BY <1>1, <2>2, <3>3
      <4> QED
        BY <2>2, <3>1, <4>1 DEF Caps
    <3> QED
      BY <1>1, <3>2, <3>3
  <2> QED
    BY <2>1, <2>2 DEF Guards
<1>4. Results(r, K)
  <2> SUFFICES ASSUME NEW m \in 3..Len(r), ResTM(r[m - 2]), r[m].t \in {"exec", "cfun"},
                      NEW d, Deep(r, m - 1, d)
               PROVE  K[d[m - 1] + 1].nres = 1
    BY DEF Results
  <2>1. m - 1 \in Nat /\ m - 1 <= Len(s) /\ m - 2 \in 1..Len(s)
    BY <1>1
  <2>2. \A i \in 1..(m - 1) : s[i] = r[i]
    BY <1>1, <2>1
  <2>3. Deep(s, m - 1, d) /\ ResTM(s[m - 2])
    BY <1>1, <2>1, <2>2, DeepSame
  <2>4. CASE m \in 3..Len(s)
    <3>1. s[m].t \in {"exec", "cfun"}
      BY <1>1, <2>4
    <3> QED
      BY <2>3, <2>4, <3>1 DEF Core, Results
  <2>5. CASE m = Len(s) + 1
    <3>1. m - 1 = Len(s) /\ m - 2 = Len(s) - 1 /\ f.t \in {"exec", "cfun"} /\ Len(s) > 1
      BY <1>1, <2>1, <2>5
    <3> QED
      BY <2>3, <3>1
  <2> QED
    BY <1>1, <2>4, <2>5
<1> QED
  BY <1>2, <1>3, <1>4 DEF Core, r

\* A CallInfo is added.
LEMMA CoreCI ==
    ASSUME NEW s \in Seq(FrameT), NEW K \in Seq(CIRec), K # << >>, Core(s, K), Based(s, K),
           NEW k \in CIRec, Fresh(k), Over(s, K, k.func)
    PROVE  Core(s, Append(K, k))
<1> DEFINE J == Append(K, k)
<1>1. /\ Len(K) \in Nat /\ Len(K) # 0 /\ Len(J) = Len(K) + 1 /\ J[Len(K) + 1] = k
      /\ \A i \in 1..Len(K) : J[i] = K[i]
  BY SeqFacts
<1> HIDE DEF J
<1>2. /\ \A i \in 1..Len(s) : s[i].t = "pcall" => s[i].ci \in 1..Len(K)
      /\ \A m \in 1..Len(s) : \A d :
            Deep(s, m - 1, d) /\ s[m].t \in {"exec", "cfun"} => d[m - 1] + 1 \in 1..Len(K)
  BY BasedPlaces
<1>3. Nested(J)
  <2>1. J[1].base = 1
    BY <1>1 DEF Core, Nested
  <2>2. ASSUME NEW i \in 1..Len(J)
        PROVE  /\ J[i].func < J[i].base /\ J[i].nres >= MULTRET
               /\ J[i].kind = "Lua" => J[i].base <= J[i].top
    <3>1. CASE i \in 1..Len(K)
      BY <1>1, <3>1 DEF Core, Nested
    <3>2. CASE i = Len(K) + 1
      BY <1>1, <3>2 DEF Fresh
    <3> QED
      BY <1>1, <3>1, <3>2
  <2>3. ASSUME NEW i \in 1..Len(J), NEW j \in 1..Len(J), i < j PROVE J[i].base <= J[j].func
    <3>1. i \in 1..Len(K) /\ J[i] = K[i]
      BY <1>1, <2>3
    <3>2. CASE j \in 1..Len(K)
      BY <1>1, <2>3, <3>1, <3>2 DEF Core, Nested
    <3>3. CASE j = Len(K) + 1
      <4>1. J[j] = k /\ K[Len(K)].base <= k.func /\ Len(K) \in 1..Len(K)
        BY <1>1, <3>3 DEF Over
      <4>2. CASE i = Len(K)
        BY <3>1, <4>1, <4>2
      <4>3. CASE i < Len(K)
        <5>1. K[i].base <= K[Len(K)].func /\ K[Len(K)].func < K[Len(K)].base
          BY <3>1, <4>1, <4>3 DEF Core, Nested
        <5>2. /\ K[i].base \in Int /\ K[Len(K)].func \in Int /\ K[Len(K)].base \in Int
              /\ k.func \in Int
          BY <3>1, <4>1, NestedTypes DEF CIRec
        <5> QED
          BY <3>1, <4>1, <5>1, <5>2
      <4> QED
        BY <1>1, <3>1, <4>2, <4>3
    <3> QED
      BY <1>1, <3>2, <3>3
  <2> QED
    BY <2>1, <2>2, <2>3 DEF Nested
<1>4. Guards(s, J)
  <2>1. ASSUME NEW i \in 1..Len(s), s[i].t = "pcall"
        PROVE  J[s[i].ci].base <= s[i].top /\ \A j \in (s[i].ci + 1)..Len(J) : s[i].top <= J[j].func
    <3>1. s[i].ci \in 1..Len(K) /\ J[s[i].ci] = K[s[i].ci]
      BY <1>1, <1>2, <2>1
    <3>2. K[s[i].ci].base <= s[i].top /\ \A j \in (s[i].ci + 1)..Len(K) : s[i].top <= K[j].func
      BY <2>1 DEF Core, Guards
    <3>3. s[i].top <= k.func
      BY <2>1 DEF Over, Caps
    <3>4. ASSUME NEW j \in (s[i].ci + 1)..Len(J) PROVE s[i].top <= J[j].func
      <4>1. j = Len(K) + 1 \/ (j \in (s[i].ci + 1)..Len(K) /\ j \in 1..Len(K))
        BY <1>1, <3>1
      <4> QED
        BY <1>1, <3>2, <3>3, <4>1
    <3> QED
      BY <3>1, <3>2, <3>4
  <2> QED
    BY <2>1 DEF Core, Guards
<1>5. Results(s, J)
  <2> SUFFICES ASSUME NEW m \in 3..Len(s), ResTM(s[m - 2]), s[m].t \in {"exec", "cfun"},
                      NEW d, Deep(s, m - 1, d)
               PROVE  J[d[m - 1] + 1].nres = 1
    BY DEF Results
  <2>1. K[d[m - 1] + 1].nres = 1
    BY DEF Core, Results
  <2>2. m \in 1..Len(s)
    OBVIOUS
  <2>3. d[m - 1] + 1 \in 1..Len(K)
    BY <1>2, <2>2
  <2> QED
    BY <1>1, <2>1, <2>3
<1> QED
  BY <1>3, <1>4, <1>5 DEF Core, J

\* nexeccalls of the last frame is no matter.
LEMMA CoreExec ==
    ASSUME NEW s \in Seq(FrameT), NEW K \in Seq(CIRec), Core(s, K), NEW r \in Seq(FrameT),
           Len(r) = Len(s), \A i \in 1..(Len(s) - 1) : r[i] = s[i], s # << >>,
           Last(s).t = "exec", Last(r).t = "exec"
    PROVE  Core(r, K)
<1>1. Len(s) \in Nat /\ Len(s) # 0 /\ Len(r) = Len(s)
  OBVIOUS
<1>a. s[Len(s)].t = "exec" /\ r[Len(s)].t = "exec"
  BY <1>1 DEF Last
<1>b. \A i \in 1..Len(s) : i = Len(s) \/ i \in 1..(Len(s) - 1)
  BY <1>1
<1>2. \A i \in 1..Len(s) : r[i].t = s[i].t /\ (r[i] = s[i] \/ (i = Len(s) /\ r[i].t = "exec"))
  <2> SUFFICES ASSUME NEW i \in 1..Len(s)
               PROVE  r[i].t = s[i].t /\ (r[i] = s[i] \/ (i = Len(s) /\ r[i].t = "exec"))
    OBVIOUS
  <2>1. CASE i = Len(s)
    BY <1>a, <2>1
  <2>2. CASE i \in 1..(Len(s) - 1)
    BY <2>2
  <2> QED
    BY <1>b, <2>1, <2>2
<1>3. \A i \in 1..Len(s) : r[i].t # "exec" => r[i] = s[i]
  BY <1>2
<1>4. Guards(r, K)
  BY <1>1, <1>2, <1>3 DEF Core, Guards
<1>5. Callers(r)
  <2>1. \A i \in 1..Len(s) : i = 1 \/ i - 1 \in 1..Len(s)
    BY <1>1
  <2> QED
    BY <1>1, <1>2, <2>1 DEF Core, Callers
<1>6. Results(r, K)
  <2> SUFFICES ASSUME NEW m \in 3..Len(s), ResTM(r[m - 2]), r[m].t \in {"exec", "cfun"},
                      NEW d, Deep(r, m - 1, d)
               PROVE  K[d[m - 1] + 1].nres = 1
    BY <1>1 DEF Results
  <2>1. m - 1 \in Nat /\ m - 2 \in 1..(Len(s) - 1) /\ m \in 1..Len(s)
    BY <1>1
  <2>2. \A i \in 1..(m - 1) : s[i] = r[i]
    BY <1>1, <2>1
  <2>3. Deep(s, m - 1, d) /\ ResTM(s[m - 2]) /\ s[m].t \in {"exec", "cfun"}
    BY <1>2, <2>1, <2>2, DeepSame
  <2> QED
    BY <2>3 DEF Core, Results
<1> QED
  BY <1>4, <1>5, <1>6 DEF Core

\* The last CallInfo changes.
LEMMA CoreLast ==
    ASSUME NEW s \in Seq(FrameT), NEW K \in Seq(CIRec), K # << >>, Core(s, K), Based(s, K),
           NEW J \in Seq(CIRec), Len(J) = Len(K), \A i \in 1..(Len(K) - 1) : J[i] = K[i],
           J[Len(K)].func = K[Len(K)].func, J[Len(K)].nres = K[Len(K)].nres, Fresh(J[Len(K)]),
           \/ J[Len(K)].base = K[Len(K)].base
           \/ Len(K) > 1 /\ \A i \in 1..Len(s) : s[i].t = "pcall" => s[i].ci # Len(K)
    PROVE  Core(s, J)
<1>1. Len(K) \in Nat /\ Len(K) # 0 /\ Len(K) \in 1..Len(K) /\ Len(J) = Len(K)
  OBVIOUS
<1>2. \A i \in 1..Len(K) : i = Len(K) \/ (i \in 1..(Len(K) - 1) /\ J[i] = K[i])
  BY <1>1
<1>a. \A i \in 1..Len(K) : J[i].func = K[i].func /\ J[i].nres = K[i].nres
  BY <1>2
<1>b. \A i \in 1..Len(K) : J[i].base = K[i].base \/ (i = Len(K) /\ Len(K) > 1)
  BY <1>2
<1>3. /\ \A i \in 1..Len(s) : s[i].t = "pcall" => s[i].ci \in 1..Len(K)
      /\ \A m \in 1..Len(s) : \A d :
            Deep(s, m - 1, d) /\ s[m].t \in {"exec", "cfun"} => d[m - 1] + 1 \in 1..Len(K)
  BY BasedPlaces
<1>4. Nested(J)
  <2>1. J[1].base = 1
    BY <1>1, <1>b DEF Core, Nested
  <2>2. \A i \in 1..Len(K) : /\ J[i].func < J[i].base /\ J[i].nres >= MULTRET
                             /\ J[i].kind = "Lua" => J[i].base <= J[i].top
    BY <1>2 DEF Core, Nested, Fresh
  <2>3. \A i, j \in 1..Len(K) : i < j => J[i].base <= J[j].func
    <3> SUFFICES ASSUME NEW i \in 1..Len(K), NEW j \in 1..Len(K), i < j PROVE J[i].base <= J[j].func
      OBVIOUS
    <3>1. K[i].base <= K[j].func
      BY DEF Core, Nested
    <3>2. i # Len(K)
      BY <1>1
    <3> QED
      BY <1>a, <1>b, <3>1, <3>2
  <2> QED
    BY <1>1, <2>1, <2>2, <2>3 DEF Nested
<1>5. Guards(s, J)
  <2>1. ASSUME NEW i \in 1..Len(s), s[i].t = "pcall"
        PROVE  J[s[i].ci].base <= s[i].top /\ \A j \in (s[i].ci + 1)..Len(J) : s[i].top <= J[j].func
    <3>1. s[i].ci \in 1..Len(K) /\ J[s[i].ci].base = K[s[i].ci].base
      BY <1>2, <1>3, <2>1
    <3>2. K[s[i].ci].base <= s[i].top /\ \A j \in (s[i].ci + 1)..Len(K) : s[i].top <= K[j].func
      BY <2>1 DEF Core, Guards
    <3>3. \A j \in (s[i].ci + 1)..Len(K) : j \in 1..Len(K)
      BY <1>1, <3>1
    <3> QED
      BY <1>1, <1>a, <3>1, <3>2, <3>3
  <2> QED
    BY <2>1 DEF Core, Guards
<1>6. Results(s, J)
  <2> SUFFICES ASSUME NEW m \in 3..Len(s), ResTM(s[m - 2]), s[m].t \in {"exec", "cfun"},
                      NEW d, Deep(s, m - 1, d)
               PROVE  J[d[m - 1] + 1].nres = 1
    BY DEF Results
  <2>1. K[d[m - 1] + 1].nres = 1
    BY DEF Core, Results
  <2>2. m \in 1..Len(s)
    OBVIOUS
  <2>3. d[m - 1] + 1 \in 1..Len(K)
    BY <1>3, <2>2
  <2> QED
    BY <1>a, <2>1, <2>3
<1> QED
  BY <1>4, <1>5, <1>6 DEF Core

\* While a function runs, what is at or above its base is above every protected
\* call; so is its func.
LEMMA OverTop ==
    ASSUME NEW s \in Seq(FrameT), NEW K \in Seq(CIRec), NEW n, Good(s, K, n), Core(s, K),
           s # << >>, Last(s).t \in {"exec", "cfun"}, NEW p \in Int
    PROVE  /\ K[Len(K)].func <= p => Caps(s, p)
           /\ K[Len(K)].base <= p => Over(s, K, p)
<1>0. Len(K) \in Nat
  OBVIOUS
<1>1. ASSUME K[Len(K)].func <= p PROVE Caps(s, p)
  <2> SUFFICES ASSUME NEW i \in 1..Len(s), s[i].t = "pcall" PROVE s[i].top <= p
    BY DEF Caps
  <2>1. s[i].ci \in 1..(Len(K) - 1)
    BY PcallBelow
  <2>2. Len(K) \in (s[i].ci + 1)..Len(K) /\ Len(K) \in 1..Len(K)
    BY <1>0, <2>1
  <2>3. s[i].top <= K[Len(K)].func
    BY <2>2 DEF Core, Guards
  <2>4. s[i].top \in Int /\ K[Len(K)].func \in Int
    BY <2>2, PcallTop, NestedTypes
  <2> QED
    BY <1>1, <2>3, <2>4
<1>2. ASSUME K[Len(K)].base <= p PROVE Over(s, K, p)
  <2>1. Len(K) \in 1..Len(K)
    <3>1. Len(K) - Size(Last(s)) \in 1..Len(K)
      BY LastOwns
    <3> QED
      BY <1>0, <3>1
  <2>2. /\ K[Len(K)].func < K[Len(K)].base
        /\ K[Len(K)].func \in Int /\ K[Len(K)].base \in Int
    BY <2>1, NestedTypes DEF Core, Nested
  <2>3. K[Len(K)].func <= p
    BY <1>2, <2>2
  <2> QED
    BY <1>1, <1>2, <2>3 DEF Over
<1> QED
  BY <1>1, <1>2

\* Caps of a part of the stack, and of one more frame.
LEMMA CapsCut ==
    ASSUME NEW s \in Seq(FrameT), NEW m \in 0..Len(s), NEW p, Caps(s, p)
    PROVE  Caps(SubSeq(s, 1, m), p)
<1>1. Len(SubSeq(s, 1, m)) = m /\ \A i \in 1..m : SubSeq(s, 1, m)[i] = s[i] /\ i \in 1..Len(s)
  BY SeqFacts
<1> QED
  BY <1>1 DEF Caps

LEMMA CapsPush ==
    ASSUME NEW s \in Seq(FrameT), NEW p, Caps(s, p), NEW f \in FrameT, f.t = "pcall" => f.top <= p
    PROVE  Caps(Append(s, f), p)
<1> DEFINE r == Append(s, f)
<1>1. Len(s) \in Nat /\ Len(r) = Len(s) + 1 /\ r[Len(s) + 1] = f /\ \A i \in 1..Len(s) : r[i] = s[i]
  BY SeqFacts
<1> HIDE DEF r
<1>2. \A i \in 1..Len(r) : i \in 1..Len(s) \/ i = Len(s) + 1
  BY <1>1
<1>3. \A i \in 1..Len(r) : r[i].t = "pcall" => r[i].top <= p
  BY <1>1, <1>2 DEF Caps
<1> QED
  BY <1>3 DEF Caps, r

LEMMA CapsUp ==
    ASSUME NEW s \in Seq(FrameT), NEW p \in Int, NEW q \in Int, Caps(s, p), p <= q
    PROVE  Caps(s, q)
<1>1. \A i \in 1..Len(s) : s[i].t = "pcall" => s[i].top \in Int
  BY PcallTop
<1> QED
  BY <1>1 DEF Caps

LEMMA OverUp ==
    ASSUME NEW s \in Seq(FrameT), NEW K \in Seq(CIRec), K # << >>, NEW p \in Int, NEW q \in Int,
           Over(s, K, p), p <= q
    PROVE  Over(s, K, q)
<1>1. K[Len(K)].base \in Int
  <2>1. Len(K) \in 1..Len(K)
    OBVIOUS
  <2> QED
    BY <2>1, NestedTypes
<1> QED
  BY <1>1, CapsUp DEF Over

\* When the function returns, its func is above what is left.
LEMMA Popped ==
    ASSUME NEW s \in Seq(FrameT), NEW K \in Seq(CIRec), NEW n, Good(s, K, n), Core(s, K),
           s # << >>, Last(s).t \in {"exec", "cfun"}, NEW p \in Int, K[Len(K)].func <= p,
           NEW J, J = SubSeq(K, 1, Len(K) - 1), Len(K) > 1
    PROVE  J[Len(J)].base <= p /\ Caps(s, p) /\ Caps(Front(s), p)
<1>1. Len(K) \in Nat /\ Len(K) - 1 \in 0..Len(K) /\ Len(s) \in Nat /\ Len(s) - 1 \in 0..Len(s)
  OBVIOUS
<1>2. J \in Seq(CIRec) /\ Len(J) = Len(K) - 1 /\ J[Len(J)] = K[Len(K) - 1]
  BY <1>1, SeqFacts
<1>3. Len(K) - 1 \in 1..Len(K) /\ Len(K) \in 1..Len(K) /\ Len(K) - 1 < Len(K)
  BY <1>1
<1>4. K[Len(K) - 1].base <= K[Len(K)].func
  BY <1>3 DEF Core, Nested
<1>5. K[Len(K) - 1].base \in Int /\ K[Len(K)].func \in Int
  BY <1>3, NestedTypes
<1>6. Caps(s, p)
  BY OverTop
<1>7. Caps(Front(s), p)
  BY <1>1, <1>6, CapsCut DEF Front
<1>8. K[Len(K) - 1].base <= p
  BY <1>4, <1>5
<1> QED
  BY <1>2, <1>6, <1>7, <1>8

\* Open results.
LEMMA OpenExec ==
    ASSUME NEW s \in Seq(FrameT), s # << >>, Last(s).t = "exec", NEW open
    PROVE  OpenIn(s, open)
<1>1. Len(s) \in Nat /\ Len(s) # 0 /\ s[Len(s)].t = "exec"
  BY DEF Last
<1>2. ASSUME NEW i \in 1..Len(s), s[i].t = "tm" PROVE \E j \in (i + 1)..Len(s) : s[j].t = "exec"
  <2>1. i # Len(s)
    BY <1>1, <1>2
  <2>2. Len(s) \in (i + 1)..Len(s)
    BY <1>1, <2>1
  <2> QED
    BY <1>1, <2>2
<1> QED
  BY <1>2 DEF OpenIn

LEMMA OpenNone ==
    ASSUME NEW s PROVE OpenIn(s, None)
BY DEF OpenIn

LEMMA OpenPop ==
    ASSUME NEW s \in Seq(FrameT), s # << >>, Last(s).t # "exec", NEW open, OpenIn(s, open)
    PROVE  OpenIn(Front(s), open)
<1> DEFINE r == Front(s)
<1>1. Len(s) \in Nat /\ Len(s) # 0 /\ Len(s) - 1 \in 0..Len(s) /\ s[Len(s)].t # "exec"
  BY DEF Last
<1>2. Len(r) = Len(s) - 1 /\ \A i \in 1..(Len(s) - 1) : r[i] = s[i]
  BY <1>1, SeqFacts DEF Front
<1> HIDE DEF r
<1>3. ASSUME open # None, NEW i \in 1..Len(r), r[i].t = "tm"
      PROVE  \E j \in (i + 1)..Len(r) : r[j].t = "exec"
  <2>1. i \in 1..Len(s) /\ s[i].t = "tm"
    BY <1>1, <1>2, <1>3
  <2>2. PICK j \in (i + 1)..Len(s) : s[j].t = "exec"
    BY <1>3, <2>1 DEF OpenIn
  <2>3. j # Len(s)
    BY <1>1, <2>2
  <2>a. i \in Nat /\ j \in Int /\ i + 1 <= j /\ j <= Len(s) /\ 1 <= i
    <3>1. i \in Nat /\ 1 <= i
      BY <1>1, <2>1
    <3> QED
      BY <1>1, <3>1
  <2>b. j <= Len(s) - 1 /\ 1 <= j /\ Len(r) = Len(s) - 1 /\ Len(r) \in Int
    <3>1. PICK l \in Int : l = Len(s)
      BY <1>1
    <3>2. Len(r) = l - 1
      BY <1>2, <3>1
    <3>3. j # l /\ j <= l /\ 1 <= j
      BY <2>3, <2>a, <3>1
    <3> QED
      BY <2>a, <3>1, <3>2, <3>3
  <2>4. j \in (i + 1)..Len(r) /\ j \in 1..(Len(s) - 1)
    BY <2>a, <2>b
  <2> QED
    BY <1>2, <2>2, <2>4
<1> QED
  BY <1>3 DEF OpenIn, r

LEMMA OpenPush ==
    ASSUME NEW s \in Seq(FrameT), NEW f \in FrameT, f.t # "tm", NEW open, OpenIn(s, open)
    PROVE  OpenIn(Append(s, f), open)
<1> DEFINE r == Append(s, f)
<1>1. Len(s) \in Nat /\ Len(r) = Len(s) + 1 /\ r[Len(s) + 1] = f /\ \A i \in 1..Len(s) : r[i] = s[i]
  BY SeqFacts
<1> HIDE DEF r
<1>2. ASSUME open # None, NEW i \in 1..Len(r), r[i].t = "tm"
      PROVE  \E j \in (i + 1)..Len(r) : r[j].t = "exec"
  <2>1. i # Len(s) + 1
    BY <1>1, <1>2
  <2>2. i \in 1..Len(s) /\ s[i].t = "tm"
    BY <1>1, <1>2, <2>1
  <2>3. PICK j \in (i + 1)..Len(s) : s[j].t = "exec"
    BY <1>2, <2>2 DEF OpenIn
  <2>4. j \in (i + 1)..Len(r) /\ j \in 1..Len(s)
    BY <1>1, <2>2
  <2> QED
    BY <1>1, <2>3, <2>4
<1> QED
  BY <1>2 DEF OpenIn, r

\* Open upvalues.
LEMMA OwnsAdd ==
    ASSUME NEW K \in Seq(CIRec), NEW U, Owns(U, K), NEW k \in CIRec
    PROVE  Owns(U, Append(K, k))
<1>1. /\ Len(K) \in Nat /\ Len(Append(K, k)) = Len(K) + 1
      /\ \A i \in 1..Len(K) : Append(K, k)[i] = K[i]
  BY SeqFacts
<1>2. \A i \in 1..Len(K) : i \in 1..Len(Append(K, k))
  BY <1>1
<1> QED
  BY <1>1, <1>2 DEF Owns

LEMMA OwnsFewer ==
    ASSUME NEW K, NEW U, Owns(U, K), NEW W, W \subseteq U
    PROVE  Owns(W, K)
BY DEF Owns

\* The upvalues left after luaF_close(level) are in the first m activations, when
\* the others begin at or above level (or are C functions).
LEMMA OwnsCut ==
    ASSUME NEW K \in Seq(CIRec), NEW U \in SUBSET Upval, Owns(U, K), NEW m \in 0..Len(K),
           NEW level \in Int,
           \A j \in (m + 1)..Len(K) : level <= K[j].base \/ K[j].kind # "Lua"
    PROVE  Owns({u \in U : u.slot < level}, SubSeq(K, 1, m))
<1>1. Len(K) \in Nat /\ Len(SubSeq(K, 1, m)) = m /\ \A i \in 1..m : SubSeq(K, 1, m)[i] = K[i]
  BY SeqFacts
<1> SUFFICES ASSUME NEW u \in U, u.slot < level
             PROVE  /\ u.depth \in 1..m /\ K[u.depth].base = u.slot
                    /\ K[u.depth].tail = u.tail /\ K[u.depth].kind = "Lua"
  BY <1>1 DEF Owns
<1>2. /\ u.depth \in 1..Len(K) /\ K[u.depth].base = u.slot
      /\ K[u.depth].tail = u.tail /\ K[u.depth].kind = "Lua"
  BY DEF Owns
<1>3. u.slot \in Int
  BY DEF Upval
<1>4. u.depth \notin (m + 1)..Len(K)
  <2> SUFFICES ASSUME u.depth \in (m + 1)..Len(K) PROVE FALSE
    OBVIOUS
  <2>1. level <= u.slot
    BY <1>2
  <2> QED
    BY <1>3, <2>1
<1> QED
  BY <1>1, <1>2, <1>4

\* No upvalue belongs to the C function that returns.
LEMMA OwnsPop ==
    ASSUME NEW K \in Seq(CIRec), NEW U, Owns(U, K), K # << >>, K[Len(K)].kind # "Lua"
    PROVE  Owns(U, SubSeq(K, 1, Len(K) - 1))
<1>1. Len(K) \in Nat /\ Len(K) # 0 /\ Len(K) - 1 \in 0..Len(K)
  OBVIOUS
<1>2. /\ Len(SubSeq(K, 1, Len(K) - 1)) = Len(K) - 1
      /\ \A i \in 1..(Len(K) - 1) : SubSeq(K, 1, Len(K) - 1)[i] = K[i]
  BY <1>1, SeqFacts
<1>3. \A u \in U : u.depth \in 1..(Len(K) - 1)
  <2> SUFFICES ASSUME NEW u \in U PROVE u.depth \in 1..(Len(K) - 1)
    OBVIOUS
  <2>1. u.depth \in 1..Len(K) /\ K[u.depth].kind = "Lua"
    BY DEF Owns
  <2>2. u.depth # Len(K)
    BY <2>1
  <2> QED
    BY <1>1, <2>1, <2>2
<1> QED
  BY <1>2, <1>3 DEF Owns

\* The top of a CallInfo is no matter.
LEMMA OwnsSame ==
    ASSUME NEW K, NEW J, NEW U, Owns(U, K), Len(J) = Len(K),
           \A i \in 1..Len(K) : /\ J[i].base = K[i].base /\ J[i].tail = K[i].tail
                                /\ J[i].kind = K[i].kind
    PROVE  Owns(U, J)
BY DEF Owns

-----------------------------------------------------------------------------
(* The steps keep Geo.                                                     *)

Closed(s) == s # << >> /\ s[1].t = "close"
Keeps(s, S) == Closed(s) \/ Owns(S.upvals, S.ci)

\* The C stack s and the state S are as Geo says; an error may be raised in s.
Sits(s, S) ==
    /\ Core(s, S.ci) /\ Keeps(s, S)
    /\ (s # << >> /\ Last(s).t = "throw") \/ Fit(s, S.ci, S.top, S.open)
Raises(s, S) ==
    Core(s, S.ci) /\ Keeps(s, S) /\ Over(s, S.ci, S.top) /\ OpenIn(s, S.open)

LEMMA SitsGeo ==
    ASSUME Sits(cs', L') PROVE Geo'
BY Zenon DEF Sits, Geo, Keeps, Closed, Closing, Throwing, TopFrame, Last, Core, Nested, Guards,
       Callers, Results, Deep, ResTM, Fit, Over, Caps, OpenIn, Spare, Edge, Owns

LEMMA GeoSits ==
    ASSUME Geo, ended = "no", L.status # "dead" PROVE Sits(cs, L)
BY DEF Sits, Geo, Keeps, Closed, Closing, Throwing, TopFrame, Last

\* A stack that raises an error.
LEMMA RaisesSits ==
    ASSUME NEW s \in Seq(FrameT), NEW S \in StateT, Raises(s, S), NEW f \in FrameT,
           (f.t = "error" /\ f.msg) \/ f.t = "throw"
    PROVE  Sits(Append(s, f), S)
<1> DEFINE r == Append(s, f)
<1>0. S.ci \in Seq(CIRec)
  BY DEF StateT
<1>1. /\ Len(s) \in Nat /\ Len(r) = Len(s) + 1 /\ r[Len(s) + 1] = f /\ r # << >>
      /\ \A i \in 1..Len(s) : r[i] = s[i]
  BY SeqFacts
<1>a. Last(r) = f
  BY <1>1 DEF Last
<1>2. Core(r, S.ci)
  <2>1. CalledBy(s, f)
    BY DEF CalledBy
  <2> QED
    BY <1>0, <2>1, CorePush DEF Raises
<1>3. Keeps(r, S)
  <2>1. s # << >> => r[1] = s[1]
    BY <1>1
  <2> QED
    BY <1>1, <2>1 DEF Keeps, Closed, Raises
<1>4. Over(r, S.ci, S.top) /\ OpenIn(r, S.open)
  BY CapsPush, OpenPush DEF Over, Raises
<1> HIDE DEF r
<1>5. f.t = "error" => Fit(r, S.ci, S.top, S.open)
  BY <1>4, <1>a DEF Fit, Spare, Edge, ResTM
<1> QED
  BY <1>1, <1>2, <1>3, <1>5, <1>a DEF Sits, r

LEMMA SitsRaises ==
    ASSUME NEW s, NEW S, Sits(s, S), s = << >> \/ Last(s).t # "throw"
    PROVE  Raises(s, S)
BY DEF Sits, Raises, Fit

\* How a step ends.
LEMMA EndsGeo ==
    ASSUME NEW r, NEW ok, NEW raised, NEW oom, Ends(r, ok, raised, oom), r.S \in StateT,
           r.res \in {"ok", "Lua", "C"} => Sits(ok, r.S),
           r.res \in {"run", "err", "mem"} => raised \in Seq(FrameT) /\ Raises(raised, r.S),
           r.res \in {"ok", "Lua", "C", "run", "err", "mem"}
    PROVE  Geo'
<1>1. L' = r.S
  BY DEF Ends
<1>2. CASE r.res \in {"ok", "Lua", "C"}
  <2>1. cs' = ok
    BY <1>2 DEF Ends
  <2> QED
    BY <1>1, <1>2, <2>1, SitsGeo
<1>3. CASE r.res \in {"run", "err", "mem"}
  <2>1. PICK f \in FrameT : cs' = Append(raised, f) /\ ((f.t = "error" /\ f.msg) \/ f.t = "throw")
    <3>1. CASE r.res = "run"
      <4>1. cs' = Append(raised, [t |-> "error", msg |-> TRUE])
        BY <3>1 DEF Ends
      <4>2. [t |-> "error", msg |-> TRUE] \in FrameT
        BY DEF FrameT
      <4> QED
        BY <4>1, <4>2
    <3>2. CASE r.res \in {"err", "mem"}
      <4>1. cs' = Append(raised, [t |-> "throw", code |-> r.res])
        BY <3>2 DEF Ends
      <4>2. [t |-> "throw", code |-> r.res] \in FrameT
        BY <3>2 DEF FrameT
      <4> QED
        BY <4>1, <4>2
    <3> QED
      BY <1>3, <3>1, <3>2
  <2>2. Sits(cs', L')
    BY <1>1, <1>3, <2>1, RaisesSits
  <2> QED
    BY <2>2, SitsGeo
<1> QED
  BY <1>2, <1>3

LEMMA DoesGeo ==
    ASSUME NEW S, NEW s, Does(S, s), Sits(s, S)
    PROVE  Geo'
<1>1. L' = S /\ cs' = s
  BY DEF Does, Ends, Result
<1> QED
  BY <1>1, SitsGeo

\* What is known when a frame other than a throw runs.
LEMMA RunsSits ==
    ASSUME Inv, Geo, NEW t, At(t), t \notin {"resume", "throw"}
    PROVE  /\ Ready /\ cs # << >> /\ TopFrame = Last(cs) /\ TopFrame \in FrameT /\ Last(cs).t = t
           /\ Core(cs, L.ci) /\ Keeps(cs, L) /\ Fit(cs, L.ci, L.top, L.open) /\ Raises(cs, L)
           /\ \E n : Good(cs, L.ci, n)
           /\ Based(cs, L.ci)
<1>1. Ready /\ cs # << >> /\ TopFrame = Last(cs) /\ TopFrame \in FrameT /\ TopFrame.t = t
  BY RunsReady
<1>2. Sits(cs, L)
  BY <1>1, GeoSits DEF Ready
<1>3. Raises(cs, L)
  BY <1>1, <1>2, SitsRaises
<1>4. Good(cs, L.ci, L.ccalls)
  BY <1>1 DEF Ready, Lively
<1>5. Based(cs, L.ci)
  BY <1>1, <1>4, GoodBased DEF Ready
<1>6. \E n : Good(cs, L.ci, n)
  BY <1>4
<1> QED
  BY <1>1, <1>2, <1>3, <1>5, <1>6 DEF Sits

LEMMA IdleSits ==
    ASSUME Inv, Geo, Idle, L.status # "dead"
    PROVE  /\ Core(cs, L.ci) /\ Owns(L.upvals, L.ci) /\ L.ci[Len(L.ci)].base <= L.top
           /\ cs = << >> /\ Nested(L.ci)
<1>1. ended = "no" /\ cs = << >>
  BY DEF Idle
<1>2. Sits(cs, L)
  BY <1>1, GeoSits
<1> QED
  BY <1>1, <1>2 DEF Sits, Fit, Over, Keeps, Closed, Core

\* T has the CallInfos, the upvalues and the open results of S, and S's top at least.
Steady(S, T) == /\ S \in StateT /\ T \in StateT /\ T.ci = S.ci /\ T.upvals = S.upvals
                /\ T.open = S.open /\ T.top >= S.top

LEMMA SteadyTrans ==
    ASSUME NEW S, NEW T, NEW U, Steady(S, T), Steady(T, U)
    PROVE  Steady(S, U)
<1>1. S.top \in Int /\ T.top \in Int /\ U.top \in Int
  BY DEF Steady, StateT
<1> QED
  BY <1>1 DEF Steady

LEMMA CheckStackSteady ==
    ASSUME NEW S \in StateT, NEW n \in Int
    PROVE  Steady(S, CheckStack(S, n)) /\ CheckStack(S, n).top = S.top
<1>1. Extra \in Nat /\ S.size \in Int /\ S.top \in Int
  BY LuaCallsAssumption DEF StateT
<1> DEFINE z == (IF n <= S.size THEN 2 * S.size ELSE S.size + n) + 1 + Extra
<1>2. z \in Int
  BY <1>1
<1>3. CheckStack(S, n) = S \/ CheckStack(S, n) = [S EXCEPT !.size = z]
  BY DEF CheckStack, GrowStack
<1> HIDE DEF z
<1>4. Steady(S, S)
  BY <1>1 DEF Steady
<1>5. Steady(S, [S EXCEPT !.size = z]) /\ [S EXCEPT !.size = z].top = S.top
  BY <1>1, <1>2 DEF Steady, StateT
<1> QED
  BY <1>3, <1>4, <1>5

LEMMA SteadyTop ==
    ASSUME NEW S, NEW T, Steady(S, T), NEW n \in Int, S.top <= n
    PROVE  Steady(S, [T EXCEPT !.top = n]) /\ [T EXCEPT !.top = n].top = n
BY DEF Steady, StateT

LEMMA TryFuncTMSteady ==
    ASSUME NEW S \in StateT, NEW c \in Callees
    PROVE  Steady(S, TryFuncTM(S, c))
<1> DEFINE T == CheckStack(S, 1)
<1>1. Steady(S, T) /\ T.top = S.top /\ T \in StateT
  BY CheckStackSteady DEF Steady
<1> HIDE DEF T
<1>2. S.top \in Int /\ T.top + 1 \in Int /\ S.top <= T.top + 1
  BY <1>1 DEF StateT
<1>3. Steady(S, [T EXCEPT !.top = T.top + 1])
  BY <1>1, <1>2, SteadyTop
<1>4. Steady(S, S)
  BY <1>2 DEF Steady
<1>5. TryFuncTM(S, c) = S \/ TryFuncTM(S, c) = [T EXCEPT !.top = T.top + 1]
  BY DEF TryFuncTM, T
<1> QED
  BY <1>3, <1>4, <1>5

\* T is S with the CallInfo k added.
Grown(S, k, T) == /\ T \in StateT /\ T.ci = Append(S.ci, k) /\ T.upvals = S.upvals
                  /\ T.open = S.open /\ T.top = S.top

LEMMA IncCIGrows ==
    ASSUME NEW S \in StateT, NEW k \in CIRec, NEW res, NEW oom
    PROVE  LET r == IncCI(S, k, res, oom)
           IN  /\ IsResult(r)
               /\ \/ r.res = res /\ Grown(S, k, r.S)
                  \/ r.res \in {"run", "err", "mem"} /\ Steady(S, r.S)
<1> DEFINE G == [S EXCEPT !.sizeci = 2 * @]
           P(T) == [T EXCEPT !.ci = Append(@, k)]
           r == IncCI(S, k, res, oom)
<1>1. S.ci \in Seq(CIRec) /\ S.sizeci \in Int /\ S.top \in Int /\ Append(S.ci, k) \in Seq(CIRec)
  BY SeqFacts DEF StateT
<1>2. G \in StateT /\ Steady(S, G) /\ Steady(S, S)
  BY <1>1 DEF StateT, Steady
<1>a. ASSUME NEW T \in StateT, T.ci = S.ci, T.upvals = S.upvals, T.open = S.open, T.top = S.top
      PROVE  Grown(S, k, P(T))
  BY <1>1, <1>a DEF StateT, Grown
<1>b. G.ci = S.ci /\ G.upvals = S.upvals /\ G.open = S.open /\ G.top = S.top
  BY DEF StateT
<1>3. Grown(S, k, P(S))
  BY <1>a
<1>4. Grown(S, k, P(G))
  <2> HIDE DEF G, P
  <2> QED
    BY <1>2, <1>a, <1>b
<1>5. \/ r = Result(P(S), res, k.top - S.size)
      \/ \E e \in {"err", "mem"} : r = Result(S, e, 0)
      \/ r = Result(G, "run", 0)
      \/ r = Result(P(G), res, k.top - S.size)
  BY DEF IncCI
<1> HIDE DEF G, P
<1>6. ASSUME NEW T, NEW e, NEW h
      PROVE  LET q == Result(T, e, h) IN IsResult(q) /\ q.S = T /\ q.res = e
  BY DEF Result, IsResult
<1> HIDE DEF r
<1>7. \/ IsResult(r) /\ r.res = res /\ r.S \in {P(S), P(G)}
      \/ IsResult(r) /\ r.res \in {"run", "err", "mem"} /\ r.S \in {S, G}
  BY <1>5, <1>6
<1>8. /\ IsResult(r)
      /\ \/ r.res = res /\ Grown(S, k, r.S)
         \/ r.res \in {"run", "err", "mem"} /\ Steady(S, r.S)
  BY <1>2, <1>3, <1>4, <1>7
<1> QED
  BY <1>8 DEF r

\* T has the CallInfos, the upvalues and the open results of S, and its top is
\* above func at least.
StaysAbove(S, func, T) ==
    /\ S \in StateT /\ T \in StateT /\ T.ci = S.ci /\ T.upvals = S.upvals
    /\ T.open = S.open /\ T.top > func

LEMMA SteadyAbove ==
    ASSUME NEW S, NEW T, NEW U, NEW func \in Int, StaysAbove(S, func, T), Steady(T, U)
    PROVE  StaysAbove(S, func, U)
<1>1. T.top \in Int /\ U.top \in Int
  BY DEF StaysAbove, StateT, Steady
<1> QED
  BY <1>1 DEF StaysAbove, Steady

LEMMA AboveSelf ==
    ASSUME NEW S \in StateT, NEW func, S.top > func
    PROVE  StaysAbove(S, func, S)
BY DEF StaysAbove

\* The arguments of the function at func stay above it.
LEMMA AdjustArgsAbove ==
    ASSUME NEW S, NEW T, NEW func \in Int, StaysAbove(S, func, T), NEW c \in Callees
    PROVE  StaysAbove(S, func, AdjustArgs(T, func, c))
<1> DEFINE n == IF c.va THEN LuaFrame(T, func, c, 0).base + c.np
                ELSE IF T.top > func + 1 + c.np THEN func + 1 + c.np ELSE T.top
<1>1. c.np \in Nat /\ c.va \in BOOLEAN /\ T \in StateT /\ T.top \in Int /\ T.top > func
  BY LuaCallsAssumption DEF StaysAbove, StateT
<1>2. n \in Int /\ n > func
  BY <1>1 DEF LuaFrame, Larger
<1>3. AdjustArgs(T, func, c) = [T EXCEPT !.top = n]
  BY DEF AdjustArgs
<1> HIDE DEF n
<1> QED
  BY <1>1, <1>2, <1>3 DEF StaysAbove, StateT

\* r is the result of luaD_precall, from S, of c at func.
Lands(S, func, c, nres, r) ==
    /\ IsResult(r) /\ r.S \in StateT /\ r.S.upvals = S.upvals
    /\ \/ r.res \in {"run", "err", "mem"} /\ StaysAbove(S, func, r.S)
       \/ /\ r.res = c.kind /\ c.kind \in {"Lua", "C"}
          /\ \E k \in CIRec :
                /\ r.S.ci = Append(S.ci, k)
                /\ Fresh(k) /\ k.func = func /\ k.nres = nres /\ k.kind = c.kind
                /\ k.base <= r.S.top
                /\ r.S.open = IF c.kind = "Lua" THEN None ELSE S.open

LEMMA LandsError ==
    ASSUME NEW S, NEW func, NEW c, NEW nres, NEW r, IsResult(r),
           r.res \in {"run", "err", "mem"}, StaysAbove(S, func, r.S)
    PROVE  Lands(S, func, c, nres, r)
<1>1. r.S \in StateT /\ r.S.upvals = S.upvals
  BY DEF StaysAbove
<1> QED
  BY <1>1, Zenon DEF Lands

LEMMA LandsOk ==
    ASSUME NEW S, NEW func, NEW c, NEW nres, NEW r, NEW k \in CIRec, IsResult(r), r.S \in StateT,
           r.S.upvals = S.upvals, r.res = c.kind, c.kind \in {"Lua", "C"},
           r.S.ci = Append(S.ci, k), Fresh(k), k.func = func, k.nres = nres, k.kind = c.kind,
           k.base <= r.S.top, r.S.open = IF c.kind = "Lua" THEN None ELSE S.open
    PROVE  Lands(S, func, c, nres, r)
BY Zenon DEF Lands

\* luaD_precall: the new activation begins above func, and the top is in it.
LEMMA PrecallLands ==
    ASSUME NEW S \in StateT, NEW func \in Int, func < S.top, NEW c \in Callees,
           NEW nres \in Int, nres >= MULTRET, NEW oom
    PROVE  Lands(S, func, c, nres, Precall(S, func, c, nres, oom))
<1> DEFINE S1 == TryFuncTM(S, c)
           need == IF c.kind = "Lua" THEN c.size ELSE MinStack
           S2 == CheckStack(S1, need)
           new == IF c.kind = "Lua" THEN LuaFrame(S2, func, c, nres) ELSE CFrame(S2, func, nres)
           S3 == IF c.kind = "Lua" THEN AdjustArgs(S2, func, c) ELSE S2
           r == IncCI(S3, new, c.kind, oom)
           hole == S1.top - S.size
           R == Precall(S, func, c, nres, oom)
<1>1. /\ c.kind \in {"Lua", "C", "other"} /\ c.np \in Nat /\ c.size \in Nat /\ MinStack \in Nat
      /\ c.va \in BOOLEAN
  BY LuaCallsAssumption
<1>2. Steady(S, S1) /\ S1 \in StateT
  BY TryFuncTMSteady DEF Steady
<1> HIDE DEF S1
<1>3. Steady(S1, S2) /\ S2 \in StateT
  <2>1. need \in Int
    BY <1>1
  <2> HIDE DEF need
  <2> QED
    BY <1>2, <2>1, CheckStackSteady DEF Steady
<1>4. Steady(S, S2)
  BY <1>2, <1>3, SteadyTrans
<1> HIDE DEF S2
<1>5. S2.top \in Int /\ func < S2.top
  <2>1. S2.top \in Int /\ S.top \in Int
    BY <1>3 DEF StateT
  <2>2. S2.top >= S.top
    BY <1>4 DEF Steady
  <2> QED
    BY <2>1, <2>2
<1>a. StaysAbove(S, func, S) /\ StaysAbove(S, func, S1) /\ StaysAbove(S, func, S2)
  <2>1. StaysAbove(S, func, S)
    BY AboveSelf
  <2> QED
    BY <1>2, <1>4, <2>1, SteadyAbove
<1>b. StaysAbove(S, func, S3) /\ S3 \in StateT /\ (c.kind # "Lua" => S3 = S2)
  <2>1. StaysAbove(S, func, AdjustArgs(S2, func, c))
    BY <1>a, AdjustArgsAbove
  <2> QED
    BY <1>a, <2>1 DEF StaysAbove
<1> HIDE DEF S3
<1>6. c.kind = "Lua" => /\ LuaFrame(S2, func, c, nres) \in CIRec
                        /\ LuaFrame(S2, func, c, nres).kind = "Lua"
                        /\ LuaFrame(S2, func, c, nres).func = func
                        /\ LuaFrame(S2, func, c, nres).nres = nres
                        /\ Fresh(LuaFrame(S2, func, c, nres))
                        /\ LuaFrame(S2, func, c, nres).base <= LuaFrame(S2, func, c, nres).top
  <2> DEFINE base == IF c.va THEN S2.top + Larger(0, c.np - (S2.top - func - 1)) ELSE func + 1
  <2>1. base \in Int /\ base + c.size \in Int /\ func < base /\ base <= base + c.size
    BY <1>1, <1>5 DEF Larger
  <2>2. LuaFrame(S2, func, c, nres)
          = [kind |-> "Lua", func |-> func, base |-> base, top |-> base + c.size,
             nres |-> nres, tail |-> 0]
    BY DEF LuaFrame
  <2> HIDE DEF base
  <2> QED
    BY <2>1, <2>2 DEF CIRec, Fresh
<1>7. /\ CFrame(S2, func, nres) \in CIRec
      /\ CFrame(S2, func, nres).kind = "C"
      /\ CFrame(S2, func, nres).func = func
      /\ CFrame(S2, func, nres).nres = nres
      /\ CFrame(S2, func, nres).base = func + 1
      /\ Fresh(CFrame(S2, func, nres))
  BY <1>1, <1>5 DEF CFrame, CIRec, Fresh
<1>8. /\ new \in CIRec /\ new.func = func /\ new.nres = nres /\ Fresh(new)
      /\ (c.kind # "other" => new.kind = c.kind) /\ new.top \in Int
      /\ (c.kind = "Lua" => new.base <= new.top)
      /\ (c.kind # "Lua" => new.base = func + 1)
  BY <1>1, <1>6, <1>7 DEF CIRec
<1> HIDE DEF new
<1>9. /\ IsResult(r)
      /\ \/ r.res = c.kind /\ Grown(S3, new, r.S)
         \/ r.res \in {"run", "err", "mem"} /\ Steady(S3, r.S)
  BY <1>b, <1>8, IncCIGrows
<1>11. \/ c.kind = "other" /\ R = Result(S, "run", 0)
       \/ R = Result(S, "mem", hole) \/ R = Result(S1, "mem", hole)
       \/ /\ c.kind = "Lua" /\ r.res = "Lua"
          /\ R = [r EXCEPT !.S.top = new.top, !.S.open = None, !.past = Larger(@, hole)]
       \/ /\ c.kind \in {"Lua", "C"} /\ ~(c.kind = "Lua" /\ r.res = "Lua")
          /\ R = [r EXCEPT !.past = Larger(Larger(@, hole), S3.top - S3.size)]
  BY <1>1 DEF Precall, S1, S2, S3, new
<1> SUFFICES Lands(S, func, c, nres, R)
  OBVIOUS
<1> HIDE DEF r, R, hole
<1>12. CASE R = Result(S, "run", 0) \/ R = Result(S, "mem", hole)
  <2>1. IsResult(R) /\ R.S = S /\ R.res \in {"run", "mem"}
    BY <1>12 DEF Result, IsResult
  <2> QED
    BY <1>a, <2>1, LandsError
<1>13. CASE R = Result(S1, "mem", hole)
  <2>1. IsResult(R) /\ R.S = S1 /\ R.res = "mem"
    BY <1>13 DEF Result, IsResult
  <2> QED
    BY <1>a, <2>1, LandsError
<1>14. CASE /\ c.kind = "Lua" /\ r.res = "Lua"
            /\ R = [r EXCEPT !.S.top = new.top, !.S.open = None, !.past = Larger(@, hole)]
  <2> DEFINE T == [r.S EXCEPT !.top = new.top, !.open = None]
  <2>1. r = [S |-> r.S, res |-> r.res, past |-> r.past]
    BY <1>9 DEF IsResult
  <2>2. IsResult(R) /\ R.S = T /\ R.res = "Lua"
    BY <1>14, <2>1 DEF IsResult
  <2>3. Grown(S3, new, r.S)
    BY <1>9, <1>14
  <2>4. /\ r.S \in StateT /\ r.S.ci = Append(S.ci, new) /\ r.S.upvals = S.upvals
    BY <1>b, <2>3 DEF Grown, StaysAbove
  <2>5. /\ T \in StateT /\ T.ci = Append(S.ci, new) /\ T.upvals = S.upvals /\ T.top = new.top
        /\ T.open = None
    <3>1. None \in Int
      BY DEF None
    <3> QED
      BY <1>8, <2>4, <3>1 DEF StateT
  <2> HIDE DEF T
  <2>6. /\ R.S \in StateT /\ R.S.upvals = S.upvals /\ R.res = c.kind /\ c.kind \in {"Lua", "C"}
        /\ R.S.ci = Append(S.ci, new) /\ new.kind = c.kind /\ new.base <= R.S.top
        /\ R.S.open = IF c.kind = "Lua" THEN None ELSE S.open
    BY <1>8, <1>14, <2>2, <2>5
  <2> QED
    BY <1>8, <2>2, <2>6, LandsOk
<1>15. CASE /\ c.kind \in {"Lua", "C"} /\ ~(c.kind = "Lua" /\ r.res = "Lua")
            /\ R = [r EXCEPT !.past = Larger(Larger(@, hole), S3.top - S3.size)]
  <2>1. r = [S |-> r.S, res |-> r.res, past |-> r.past]
    BY <1>9 DEF IsResult
  <2>2. IsResult(R) /\ R.S = r.S /\ R.res = r.res
    BY <1>15, <2>1 DEF IsResult
  <2>3. CASE r.res = c.kind /\ Grown(S3, new, r.S)
    <3>1. /\ R.S \in StateT /\ R.S.ci = Append(S.ci, new) /\ R.S.upvals = S.upvals
          /\ R.S.open = S.open /\ R.S.top = S3.top
      BY <1>b, <2>2, <2>3 DEF Grown, StaysAbove
    <3>2. c.kind = "C" /\ new.base = func + 1 /\ S3 = S2
      BY <1>8, <1>b, <1>15, <2>3
    <3>3. /\ R.res = c.kind /\ c.kind \in {"Lua", "C"} /\ new.kind = c.kind /\ new.base <= R.S.top
          /\ R.S.open = IF c.kind = "Lua" THEN None ELSE S.open
      BY <1>5, <1>8, <2>2, <2>3, <3>1, <3>2
    <3> QED
      BY <1>8, <2>2, <3>1, <3>3, LandsOk
  <2>4. CASE r.res \in {"run", "err", "mem"} /\ Steady(S3, r.S)
    <3>1. StaysAbove(S, func, R.S)
      BY <1>b, <2>2, <2>4, SteadyAbove
    <3> QED
      BY <2>2, <2>4, <3>1, LandsError
  <2> QED
    BY <1>9, <2>3, <2>4
<1> QED
  BY <1>11, <1>12, <1>13, <1>14, <1>15

\* The stack without its last frame, if that frame owns no CallInfo.
LEMMA PlainFront ==
    ASSUME Ready, cs # << >>, Core(cs, L.ci), Keeps(cs, L),
           Last(cs).t \notin {"exec", "cfun", "close"}
    PROVE  /\ Pop = Front(cs) /\ Front(cs) \in Seq(FrameT)
           /\ Core(Front(cs), L.ci) /\ Keeps(Front(cs), L)
           /\ \A p : Over(cs, L.ci, p) => Over(Front(cs), L.ci, p)
           /\ \A open : OpenIn(cs, open) => OpenIn(Front(cs), open)
           /\ Len(cs) > 1 => Front(cs) # << >> /\ Last(Front(cs)) = cs[Len(cs) - 1]
           /\ Len(cs) > 1 \/ Front(cs) = << >>
<1>1. /\ cs \in Seq(FrameT) /\ Len(cs) \in Nat /\ Len(cs) # 0 /\ Len(cs) - 1 \in 0..Len(cs)
      /\ L.ci \in Seq(CIRec) /\ L.ci # << >> /\ Len(L.ci) \in Nat /\ Len(L.ci) \in 1..Len(L.ci)
      /\ SubSeq(L.ci, 1, Len(L.ci)) = L.ci
  BY DEF Ready
<1>2. Size(Last(cs)) = 0
  BY DEF Size
<1>3. Lively(Front(cs), L.ci, L.ccalls - Weight(Last(cs)), L.baseccalls)
  BY <1>1, <1>2, LivelyPopPlain DEF Ready
<1>4. /\ Front(cs) \in Seq(FrameT)
      /\ Len(cs) > 1 => Front(cs) # << >> /\ Last(Front(cs)) = cs[Len(cs) - 1]
      /\ Len(cs) > 1 \/ Front(cs) = << >>
  BY <1>1, LivelyPop DEF Ready
<1>5. Based(Front(cs), L.ci)
  BY <1>1, <1>3, GoodBased DEF Lively
<1>6. Core(Front(cs), L.ci)
  BY <1>1, <1>5, CoreCut DEF Front
<1>7. Keeps(Front(cs), L)
  <2>1. Len(cs) > 1 => Front(cs)[1] = cs[1]
    BY <1>1, SeqFacts DEF Front
  <2>2. Len(cs) = 1 => ~Closed(cs)
    BY <1>1 DEF Closed, Last
  <2>3. CASE Len(cs) > 1
    BY <1>4, <2>1, <2>3 DEF Keeps, Closed
  <2>4. CASE Len(cs) = 1
    <3>1. Owns(L.upvals, L.ci)
      BY <2>2, <2>4 DEF Keeps
    <3> QED
      BY <3>1 DEF Keeps
  <2>5. Len(cs) > 1 \/ Len(cs) = 1
    <3>1. PICK l \in Nat : l = Len(cs) /\ l # 0
      BY <1>1
    <3> QED
      BY <3>1
  <2> QED
    BY <2>3, <2>4, <2>5
<1>8. \A p : Over(cs, L.ci, p) => Over(Front(cs), L.ci, p)
  BY <1>1, CapsCut DEF Over, Front
<1>9. \A open : OpenIn(cs, open) => OpenIn(Front(cs), open)
  BY <1>1, OpenPop
<1> QED
  BY <1>4, <1>6, <1>7, <1>8, <1>9 DEF Pop, Front

\* Who called the last frame.
LEMMA LastCaller ==
    ASSUME Ready, cs # << >>, Core(cs, L.ci)
    PROVE  /\ Last(cs).t = "pcall" => Len(cs) = 1 \/ cs[Len(cs) - 1].t = "cfun"
           /\ Last(cs).t = "tm" => Len(cs) > 1 /\ cs[Len(cs) - 1].t = "exec"
           /\ Last(cs).t \in {"call", "enter"} =>
                Len(cs) > 1 /\ cs[Len(cs) - 1].t \in {"cfun", "pcall", "tm", "handler", "close"}
           /\ Last(cs).t = "exec" => Len(cs) > 1 /\ cs[Len(cs) - 1].t \in {"call", "resume"}
           /\ Last(cs).t = "cfun" => Len(cs) > 1 /\ cs[Len(cs) - 1].t \in {"call", "exec"}
           /\ Last(cs).t \in {"resume", "close"} => Len(cs) = 1
<1>1. Len(cs) \in Nat /\ Len(cs) \in 1..Len(cs)
  BY DEF Ready
<1>2. Shape(cs) /\ Callers(cs)
  BY DEF Ready, Lively, Good, Core
<1> QED
  BY <1>1, <1>2 DEF Last, Shape, Callers

\* A state that has the stack of another one.
LEMMA SitsAs ==
    ASSUME NEW s, NEW S, NEW T, Sits(s, S), T.ci = S.ci, T.top = S.top, T.open = S.open,
           T.upvals = S.upvals
    PROVE  Sits(s, T)
BY DEF Sits, Keeps

LEMMA RaisesAs ==
    ASSUME NEW s, NEW S, NEW T, Raises(s, S), T.ci = S.ci, T.top = S.top, T.open = S.open,
           T.upvals = S.upvals
    PROVE  Raises(s, T)
BY DEF Raises, Keeps

\* A stack that ends in a frame without demands of its own.
LEMMA FitPlain ==
    ASSUME NEW s, NEW K, NEW top, NEW open, Over(s, K, top), OpenIn(s, open),
           s = << >> \/ Last(s).t \in {"cfun", "pcall", "handler", "close", "resume"}
    PROVE  Fit(s, K, top, open)
BY DEF Fit, Spare, Edge, ResTM

LEMMA FitExec ==
    ASSUME NEW s, NEW K, NEW top, NEW open, Over(s, K, top), OpenIn(s, open),
           Last(s).t = "exec", open = None \/ open <= top
    PROVE  Fit(s, K, top, open)
BY DEF Fit, Spare, Edge, ResTM

LEMMA CallReturnsGeo ==
    ASSUME Inv, Geo, CallReturns PROVE Geo'
<1>1. /\ Ready /\ cs # << >> /\ TopFrame = Last(cs) /\ Last(cs).t = "call"
      /\ Core(cs, L.ci) /\ Keeps(cs, L) /\ Fit(cs, L.ci, L.top, L.open)
  BY RunsSits DEF CallReturns
<1> DEFINE S == [L EXCEPT !.ccalls = @ - 1]
           r == Front(cs)
<1>2. Does(S, Pop)
  BY DEF CallReturns
<1>3. S.ci = L.ci /\ S.top = L.top /\ S.open = L.open /\ S.upvals = L.upvals
  BY <1>1 DEF Ready, StateT
<1>4. /\ Pop = r /\ Core(r, L.ci) /\ Keeps(r, L)
      /\ Over(r, L.ci, L.top) /\ OpenIn(r, L.open)
      /\ Over(cs, L.ci, L.top - 1) => Over(r, L.ci, L.top - 1)
  BY <1>1, PlainFront DEF Fit
<1>5. /\ Len(cs) > 1 /\ r # << >> /\ Last(r) = cs[Len(cs) - 1]
      /\ Last(r).t \in {"cfun", "pcall", "tm", "handler", "close"}
  BY <1>1, PlainFront, LastCaller
<1> HIDE DEF r, S
<1>6. Spare(r) => Over(r, L.ci, L.top - 1)
  BY <1>1, <1>4, <1>5 DEF Fit, Spare
<1>7. Edge(r, L.ci, L.top, L.open)
  BY <1>5 DEF Edge
<1>8. Sits(r, L)
  BY <1>4, <1>6, <1>7 DEF Sits, Fit
<1>9. Sits(r, S)
  BY <1>3, <1>8, SitsAs
<1> QED
  BY <1>2, <1>4, <1>9, DoesGeo

LEMMA TMReturnsGeo ==
    ASSUME Inv, Geo, TMReturns PROVE Geo'
<1>1. /\ Ready /\ cs # << >> /\ TopFrame = Last(cs) /\ Last(cs).t = "tm" /\ TopFrame \in FrameT
      /\ Core(cs, L.ci) /\ Keeps(cs, L) /\ Fit(cs, L.ci, L.top, L.open)
  BY RunsSits DEF TMReturns
<1> DEFINE z == IF TopFrame.res THEN L.top - 1 ELSE L.top
           S == [L EXCEPT !.top = z]
           r == Front(cs)
<1>2. Does(S, Pop)
  BY DEF TMReturns
<1>3. S.ci = L.ci /\ S.top = z /\ S.open = L.open /\ S.upvals = L.upvals
  BY <1>1 DEF Ready, StateT
<1>4. Over(cs, L.ci, z)
  BY <1>1 DEF Fit, Spare, ResTM
<1>5. /\ Pop = r /\ Core(r, L.ci) /\ Keeps(r, L) /\ Over(r, L.ci, z) /\ OpenIn(r, L.open)
  BY <1>1, <1>4, PlainFront DEF Fit
<1>6. Last(r).t = "exec"
  BY <1>1, PlainFront, LastCaller
<1>7. L.open = None
  <2>1. Len(cs) \in 1..Len(cs) /\ cs[Len(cs)].t = "tm" /\ (Len(cs) + 1)..Len(cs) = {}
    BY <1>1 DEF Ready, Last
  <2> QED
    BY <1>1, <2>1 DEF Fit, OpenIn
<1> HIDE DEF r, S, z
<1>8. Fit(r, L.ci, z, L.open)
  BY <1>5, <1>6, <1>7, FitExec
<1>9. Sits(r, S)
  BY <1>3, <1>5, <1>8 DEF Sits, Keeps
<1> QED
  BY <1>2, <1>5, <1>9, DoesGeo

LEMMA HandlerReturnsGeo ==
    ASSUME Inv, Geo, HandlerReturns PROVE Geo'
<1>1. /\ Ready /\ cs # << >> /\ TopFrame = Last(cs) /\ Last(cs).t = "handler"
      /\ Core(cs, L.ci) /\ Keeps(cs, L) /\ Fit(cs, L.ci, L.top, L.open)
  BY RunsSits DEF HandlerReturns
<1> DEFINE f == [t |-> "throw", code |-> "run"]
<1>2. Does(L, Replace(f))
  BY DEF HandlerReturns
<1>3. f \in FrameT /\ f.t = "throw"
  BY DEF FrameT
<1> HIDE DEF f
<1>4. Replace(f) = Append(Front(cs), f)
  BY <1>1, <1>3, ReplaceIs DEF Ready, Replace
<1>5. Raises(Front(cs), L) /\ Front(cs) \in Seq(FrameT) /\ L \in StateT
  BY <1>1, PlainFront DEF Raises, Fit, Ready
<1>6. Sits(Replace(f), L)
  BY <1>3, <1>4, <1>5, RaisesSits
<1> QED
  BY <1>2, <1>6, DoesGeo

LEMMA OpErrorGeo ==
    ASSUME Inv, Geo, OpError PROVE Geo'
<1>1. Ready /\ Raises(cs, L)
  BY RunsSits DEF OpError
<1> DEFINE r == Result(L, "run", 0)
<1>2. Ends(r, cs, cs, FALSE) /\ r.S = L /\ r.res = "run"
  BY DEF OpError, Result
<1> HIDE DEF r
<1> QED
  BY <1>1, <1>2, EndsGeo DEF Ready

\* What holds where an error is raised, when the state is steady and when a
\* frame is pushed.
LEMMA RaisesSteady ==
    ASSUME NEW s \in Seq(FrameT), NEW S, NEW T, Steady(S, T), S.ci # << >>, Raises(s, S)
    PROVE  Raises(s, T)
<1>1. S.ci \in Seq(CIRec) /\ S.top \in Int /\ T.top \in Int /\ S.top <= T.top
  BY DEF Steady, StateT
<1>2. Over(s, S.ci, T.top)
  BY <1>1, OverUp DEF Raises
<1> QED
  BY <1>2 DEF Raises, Steady, Keeps

LEMMA RaisesAbove ==
    ASSUME NEW s \in Seq(FrameT), NEW S, NEW T, NEW func \in Int, StaysAbove(S, func, T),
           S.ci # << >>, Raises(s, S), Over(s, S.ci, func)
    PROVE  Raises(s, T) /\ T \in StateT
<1>1. S.ci \in Seq(CIRec) /\ T.top \in Int /\ func <= T.top
  BY DEF StaysAbove, StateT
<1>2. Over(s, S.ci, T.top)
  BY <1>1, OverUp
<1> QED
  BY <1>2 DEF Raises, StaysAbove, Keeps

LEMMA KeepsPush ==
    ASSUME NEW s \in Seq(FrameT), NEW S, Keeps(s, S), NEW f \in FrameT
    PROVE  Keeps(Append(s, f), S)
<1>1. s # << >> => Append(s, f)[1] = s[1] /\ Append(s, f) # << >>
  BY SeqFacts, PushTwo
<1> QED
  BY <1>1 DEF Keeps, Closed

LEMMA RaisesPush ==
    ASSUME NEW s \in Seq(FrameT), NEW S \in StateT, Raises(s, S), NEW f \in FrameT,
           CalledBy(s, f), f.t \notin {"tm", "pcall", "exec", "cfun"}
    PROVE  Raises(Append(s, f), S)
<1>1. S.ci \in Seq(CIRec)
  BY DEF StateT
<1>2. Core(Append(s, f), S.ci)
  BY <1>1, CorePush DEF Raises
<1>3. Keeps(Append(s, f), S)
  BY KeepsPush DEF Raises
<1>4. Over(Append(s, f), S.ci, S.top) /\ OpenIn(Append(s, f), S.open)
  BY CapsPush, OpenPush DEF Over, Raises
<1> QED
  BY <1>2, <1>3, <1>4 DEF Raises

\* T is S with the activation k of the function at k.func.
LEMMA CallCore ==
    ASSUME NEW s \in Seq(FrameT), NEW S \in StateT, S.ci # << >>, Core(s, S.ci), Based(s, S.ci),
           Keeps(s, S), NEW k \in CIRec, Fresh(k), Over(s, S.ci, k.func),
           NEW T \in StateT, T.ci = Append(S.ci, k), T.upvals = S.upvals, k.base <= T.top
    PROVE  Core(s, T.ci) /\ Keeps(s, T) /\ Over(s, T.ci, T.top)
<1>1. /\ S.ci \in Seq(CIRec) /\ k.func \in Int /\ k.base \in Int /\ T.top \in Int
      /\ T.ci[Len(T.ci)] = k
  BY SeqFacts DEF StateT, CIRec
<1>2. Core(s, T.ci)
  BY <1>1, CoreCI
<1>3. Keeps(s, T)
  BY <1>1, OwnsAdd DEF Keeps
<1>4. k.func <= T.top
  BY <1>1 DEF Fresh
<1>5. Caps(s, T.top)
  BY <1>1, <1>4, CapsUp DEF Over
<1> QED
  BY <1>1, <1>2, <1>3, <1>5 DEF Over

\* A new luaV_execute, or a C function, whose CallInfo is there.
LEMMA PushSits ==
    ASSUME NEW s \in Seq(FrameT), NEW T \in StateT, Core(s, T.ci), Keeps(s, T),
           Over(s, T.ci, T.top), OpenIn(s, T.open), NEW f \in FrameT,
           f.t = "cfun" \/ (f.t = "exec" /\ T.open = None),
           Len(s) > 1 /\ ResTM(s[Len(s) - 1]) =>
              \A d : Deep(s, Len(s), d) => T.ci[d[Len(s)] + 1].nres = 1
    PROVE  Sits(Append(s, f), T)
<1>1. T.ci \in Seq(CIRec) /\ CalledBy(s, f) /\ f.t # "pcall" /\ f.t # "tm"
  BY DEF StateT, CalledBy
<1>2. Core(Append(s, f), T.ci)
  BY <1>1, CorePush
<1>3. Keeps(Append(s, f), T)
  BY KeepsPush
<1>4. Over(Append(s, f), T.ci, T.top) /\ OpenIn(Append(s, f), T.open)
  BY <1>1, CapsPush, OpenPush DEF Over
<1>5. Last(Append(s, f)) = f
  BY SeqFacts DEF Last
<1>6. Fit(Append(s, f), T.ci, T.top, T.open)
  BY <1>4, <1>5, FitPlain, FitExec
<1> QED
  BY <1>2, <1>3, <1>6 DEF Sits

\* The frame on top of the stack gives way to another.
LEMMA ReplacedIs ==
    ASSUME Ready, cs # << >>, NEW f \in FrameT
    PROVE  /\ Replace(f) = Append(Front(cs), f) /\ Replace(f) \in Seq(FrameT)
           /\ Front(cs) \in Seq(FrameT) /\ Last(Replace(f)) = f /\ Replace(f) # << >>
           /\ Len(Replace(f)) = Len(cs) /\ \A i \in 1..(Len(cs) - 1) : Replace(f)[i] = cs[i]
<1>1. /\ cs \in Seq(FrameT) /\ Len(cs) \in Nat /\ Len(cs) # 0 /\ Len(cs) - 1 \in 0..Len(cs)
  BY DEF Ready
<1>2. Replace(f) = Append(Front(cs), f) /\ Replace(f) \in Seq(FrameT)
  BY <1>1, ReplaceIs DEF Replace
<1> DEFINE s == Front(cs)
<1>3. s \in Seq(FrameT) /\ Len(s) = Len(cs) - 1 /\ \A i \in 1..(Len(cs) - 1) : s[i] = cs[i]
  BY <1>1, SeqFacts DEF Front
<1> HIDE DEF s
<1>4. /\ Len(Append(s, f)) = Len(s) + 1 /\ Append(s, f)[Len(s) + 1] = f
      /\ \A i \in 1..Len(s) : Append(s, f)[i] = s[i]
  BY <1>3, SeqFacts
<1>5. Len(Append(s, f)) = Len(cs)
  BY <1>1, <1>3, <1>4
<1>6. Last(Append(s, f)) = f /\ Append(s, f) # << >>
  BY <1>1, <1>3, <1>4, <1>5 DEF Last
<1>7. \A i \in 1..(Len(cs) - 1) : Append(s, f)[i] = cs[i]
  BY <1>3, <1>4
<1> QED
  BY <1>2, <1>3, <1>5, <1>6, <1>7 DEF s

LEMMA EnterGeo ==
    ASSUME Inv, Geo, NEW c \in Callees, NEW oom, Enter(c, oom)
    PROVE  Geo'
<1> DEFINE f == TopFrame
           S == [L EXCEPT !.ccalls = @ + 1]
           r == IF S.ccalls = MaxCCalls THEN Result(S, "run", 0)
                ELSE IF S.ccalls >= MaxCCalls + ExtraCCalls THEN Result(S, "err", 0)
                ELSE Precall(S, f.func, c, f.nres, oom)
           g == Frame("call")
           here == Replace(g)
           new == IF c.kind = "Lua" THEN [t |-> "exec", n |-> 1] ELSE Frame("cfun")
<1>1. /\ Ready /\ cs # << >> /\ f = Last(cs) /\ f \in FrameT /\ Last(cs).t = "enter"
      /\ Core(cs, L.ci) /\ Keeps(cs, L) /\ Fit(cs, L.ci, L.top, L.open)
  BY RunsSits DEF Enter
<1>2. /\ L \in StateT /\ L.ci \in Seq(CIRec) /\ L.ci # << >> /\ L.ccalls \in Int /\ L.top \in Int
      /\ Lively(cs, L.ci, L.ccalls, L.baseccalls) /\ cs \in Seq(FrameT) /\ Len(L.ci) \in Nat
  BY <1>1 DEF Ready
<1>3. Ends(r, Append(here, new), here, oom)
  BY DEF Enter
<1>4. /\ Over(cs, L.ci, f.func) /\ f.func < L.top /\ f.nres >= MULTRET
      /\ ResTM(cs[Len(cs) - 1]) => f.nres = 1
  BY <1>1 DEF Fit, Edge
<1>5. f.func \in Int /\ f.nres \in Int /\ Last(cs) \in Plain /\ Weight(Last(cs)) = 0
  BY <1>1 DEF FrameT, Plain, Weight, Counted
<1>6. /\ S \in StateT /\ S.ci = L.ci /\ S.top = L.top /\ S.open = L.open /\ S.upvals = L.upvals
  BY <1>2 DEF StateT
<1>7. g \in FrameT /\ g.t = "call" /\ g \in Plain /\ Weight(g) = 1
  BY DEF Frame, FrameT, Plain, Weight, Counted
<1>8. /\ new \in FrameT /\ new.t \in {"exec", "cfun"} /\ (new.t = "exec" => c.kind = "Lua")
  BY DEF Frame, FrameT
<1> HIDE DEF f, S, g, here, new
<1>9. /\ here = Append(Front(cs), g) /\ here \in Seq(FrameT) /\ Front(cs) \in Seq(FrameT)
      /\ Last(here) = g /\ Len(here) = Len(cs) /\ \A i \in 1..(Len(cs) - 1) : here[i] = cs[i]
  BY <1>1, <1>7, ReplacedIs DEF here
<1>10. /\ Core(Front(cs), L.ci) /\ Keeps(Front(cs), L) /\ Over(Front(cs), L.ci, L.top)
       /\ Over(Front(cs), L.ci, f.func) /\ OpenIn(Front(cs), L.open)
       /\ Front(cs) # << >> /\ Len(cs) > 1
       /\ Last(Front(cs)).t \in {"cfun", "pcall", "tm", "handler", "close"}
  BY <1>1, <1>4, PlainFront, LastCaller DEF Fit
<1>11. Raises(here, L)
  <2>1. CalledBy(Front(cs), g)
    BY <1>7, <1>10 DEF CalledBy
  <2>2. Raises(Front(cs), L)
    BY <1>10 DEF Raises
  <2> QED
    BY <1>2, <1>7, <1>9, <2>1, <2>2, RaisesPush
<1>12. Raises(here, S)
  BY <1>6, <1>11, RaisesAs
<1>13. Lands(S, f.func, c, f.nres, r)
  <2>1. StaysAbove(S, f.func, S)
    BY <1>4, <1>6, AboveSelf
  <2>2. \A e, h : /\ IsResult(Result(S, e, h))
                  /\ Result(S, e, h).res = e /\ Result(S, e, h).S = S
    BY DEF Result, IsResult
  <2>3. /\ Lands(S, f.func, c, f.nres, Result(S, "run", 0))
        /\ Lands(S, f.func, c, f.nres, Result(S, "err", 0))
    BY <2>1, <2>2, LandsError
  <2>4. Lands(S, f.func, c, f.nres, Precall(S, f.func, c, f.nres, oom))
    BY <1>4, <1>5, <1>6, PrecallLands
  <2> QED
    BY <2>3, <2>4
<1> HIDE DEF r
<1>a. Over(here, L.ci, f.func)
  BY <1>7, <1>9, <1>10, CapsPush DEF Over
<1>14. CASE r.res \in {"run", "err", "mem"} /\ StaysAbove(S, f.func, r.S)
  <2>1. Raises(here, r.S) /\ r.S \in StateT
    BY <1>2, <1>5, <1>6, <1>9, <1>12, <1>a, <1>14, RaisesAbove
  <2> QED
    BY <1>3, <1>9, <1>14, <2>1, EndsGeo
<1>15. ASSUME NEW k \in CIRec, r.res = c.kind, c.kind \in {"Lua", "C"},
              r.S.ci = Append(S.ci, k), Fresh(k), k.func = f.func, k.nres = f.nres,
              k.base <= r.S.top, r.S.open = IF c.kind = "Lua" THEN None ELSE S.open,
              r.S \in StateT, r.S.upvals = S.upvals
       PROVE  Geo'
  <2>1. Good(here, L.ci, L.ccalls - Weight(Last(cs)) + Weight(g))
    BY <1>1, <1>2, <1>5, <1>7, <1>9, LivelyReplace DEF Lively
  <2>2. Based(here, L.ci)
    BY <1>2, <2>1, GoodBased
  <2>3. Over(here, L.ci, k.func)
    BY <1>7, <1>9, <1>10, <1>15, CapsPush DEF Over
  <2>4. Core(here, r.S.ci) /\ Keeps(here, r.S) /\ Over(here, r.S.ci, r.S.top)
    BY <1>2, <1>6, <1>9, <1>12, <1>15, <2>2, <2>3, CallCore DEF Raises
  <2>5. OpenIn(here, r.S.open)
    BY <1>6, <1>12, <1>15, OpenNone DEF Raises
  <2>6. ASSUME ResTM(here[Len(here) - 1]), NEW d, Deep(here, Len(here), d)
        PROVE  r.S.ci[d[Len(here)] + 1].nres = 1
    <3>1. Len(here) \in 0..Len(here) /\ Len(cs) - 1 \in 1..(Len(cs) - 1)
      BY <1>2, <1>9, <1>10
    <3>2. d[Len(here)] = Len(L.ci)
      BY <1>2, <1>9, <2>1, <2>6, <3>1, DeepEnds
    <3>3. ResTM(cs[Len(cs) - 1])
      BY <1>9, <2>6, <3>1
    <3>4. r.S.ci[Len(L.ci) + 1] = k
      BY <1>2, <1>6, <1>15, SeqFacts
    <3> QED
      BY <1>4, <1>15, <3>2, <3>3, <3>4
  <2>7. new.t = "cfun" \/ (new.t = "exec" /\ r.S.open = None)
    BY <1>8, <1>15
  <2>8. Sits(Append(here, new), r.S)
    BY <1>8, <1>9, <1>15, <2>4, <2>5, <2>6, <2>7, PushSits
  <2> QED
    BY <1>3, <1>15, <2>8, EndsGeo
<1> QED
  BY <1>13, <1>14, <1>15, Zenon DEF Lands

\* The function that OP_CALL calls is in the running activation.
LEMMA CallPlace ==
    ASSUME Inv, Geo, At("exec"), CallFunc >= Base
    PROVE  /\ CallArgs \in StateT /\ CallArgs.ci = L.ci /\ CallArgs.open = L.open
           /\ CallArgs.upvals = L.upvals /\ CallFunc \in Int /\ CallFunc < CallArgs.top
           /\ Over(cs, L.ci, CallFunc) /\ Raises(cs, CallArgs)
<1>1. /\ Ready /\ cs # << >> /\ Last(cs).t = "exec" /\ Core(cs, L.ci) /\ Keeps(cs, L)
      /\ Fit(cs, L.ci, L.top, L.open) /\ Raises(cs, L)
  BY RunsSits
<1>2. CI(L).base \in Int /\ L.open \in Int
  BY <1>1, ReadyCI
<1>3. L \in StateT /\ L.top \in Int /\ L.ci \in Seq(CIRec) /\ cs \in Seq(FrameT)
      /\ Good(cs, L.ci, L.ccalls)
  BY <1>1 DEF Ready, Lively
<1>4. L.open = None \/ L.open <= L.top
  BY <1>1 DEF Fit, Edge
<1>5. CallFunc \in Int
  BY <1>1, CallSetup
<1>6. /\ CallArgs \in StateT /\ CallArgs.ci = L.ci /\ CallArgs.open = L.open
      /\ CallArgs.upvals = L.upvals
      /\ CallArgs.top = IF Open THEN L.top ELSE Base + 3
  <2>1. CI(L).base + 3 \in Int
    BY <1>2
  <2> QED
    BY <1>3, <2>1 DEF CallArgs, Base, StateT
<1>7. CallFunc < CallArgs.top /\ CallArgs.top \in Int
  BY <1>2, <1>3, <1>4, <1>6 DEF CallFunc, Open, Base
<1>8. L.ci[Len(L.ci)].base <= CallFunc /\ L.ci[Len(L.ci)].base <= CallArgs.top
  BY <1>2, <1>5, <1>7 DEF Base, CI
<1>9. Over(cs, L.ci, CallFunc) /\ Over(cs, L.ci, CallArgs.top)
  BY <1>1, <1>3, <1>5, <1>7, <1>8, OverTop
<1>10. Raises(cs, CallArgs)
  BY <1>1, <1>6, <1>9 DEF Raises, Keeps
<1> QED
  BY <1>5, <1>6, <1>7, <1>9, <1>10

\* OP_CALL calls a C function.
LEMMA CallsC ==
    ASSUME Inv, Geo, At("exec"), NEW k \in CIRec, Fresh(k), Over(cs, L.ci, k.func),
           NEW T \in StateT, T.ci = Append(L.ci, k), T.upvals = L.upvals, k.base <= T.top,
           T.open = L.open
    PROVE  Sits(Append(cs, Frame("cfun")), T)
<1>1. /\ Ready /\ cs # << >> /\ Last(cs).t = "exec" /\ Core(cs, L.ci) /\ Keeps(cs, L)
      /\ Fit(cs, L.ci, L.top, L.open) /\ Based(cs, L.ci)
  BY RunsSits
<1>2. L \in StateT /\ L.ci # << >> /\ cs \in Seq(FrameT)
  BY <1>1 DEF Ready
<1>3. Core(cs, T.ci) /\ Keeps(cs, T) /\ Over(cs, T.ci, T.top)
  BY <1>1, <1>2, CallCore
<1>4. ~ResTM(cs[Len(cs) - 1])
  BY <1>1, LastCaller DEF ResTM
<1>5. Frame("cfun") \in FrameT /\ Frame("cfun").t = "cfun"
  BY DEF Frame, FrameT
<1>6. OpenIn(cs, T.open)
  BY <1>1 DEF Fit
<1> QED
  BY <1>2, <1>3, <1>4, <1>5, <1>6, PushSits

\* nexeccalls of the last frame changes.
LEMMA ExecSits ==
    ASSUME Ready, cs # << >>, Last(cs).t = "exec", NEW f \in FrameT, f.t = "exec",
           NEW T \in StateT, Core(cs, T.ci), Keeps(cs, T), Over(cs, T.ci, T.top),
           T.open = None \/ T.open <= T.top
    PROVE  Sits(Replace(f), T)
<1> DEFINE s == Replace(f)
<1>1. /\ s = Append(Front(cs), f) /\ s \in Seq(FrameT) /\ Front(cs) \in Seq(FrameT)
      /\ Last(s) = f /\ s # << >> /\ Len(s) = Len(cs) /\ \A i \in 1..(Len(cs) - 1) : s[i] = cs[i]
  BY ReplacedIs
<1>2. /\ cs \in Seq(FrameT) /\ T.ci \in Seq(CIRec) /\ Len(cs) \in Nat /\ Len(cs) > 1
      /\ Len(cs) - 1 \in 0..Len(cs)
  BY OwnsOne DEF Ready, StateT
<1> HIDE DEF s
<1>3. Core(s, T.ci)
  BY <1>1, <1>2, CoreExec
<1>4. Keeps(s, T)
  <2>1. s[1] = cs[1]
    BY <1>1, <1>2
  <2> QED
    BY <1>1, <2>1 DEF Keeps, Closed
<1>5. Over(s, T.ci, T.top)
  <2>1. Caps(Front(cs), T.top)
    BY <1>2, CapsCut DEF Over, Front
  <2>2. Caps(s, T.top)
    BY <1>1, <2>1, CapsPush
  <2> QED
    BY <2>2 DEF Over
<1>6. OpenIn(s, T.open)
  BY <1>1, OpenExec
<1>7. Fit(s, T.ci, T.top, T.open)
  BY <1>1, <1>5, <1>6, FitExec
<1> QED
  BY <1>3, <1>4, <1>7 DEF Sits, s

LEMMA OpCallGeo ==
    ASSUME Inv, Geo, NEW c \in Callees, NEW nres \in {1, MULTRET}, NEW oom, OpCall(c, nres, oom)
    PROVE  Geo'
<1> DEFINE r == Precall(CallArgs, CallFunc, c, nres, oom)
           m == TopFrame.n + 1
           up == Replace([TopFrame EXCEPT !.n = m])
           ok == IF c.kind = "Lua" THEN up ELSE Append(cs, Frame("cfun"))
<1>0. At("exec") /\ CallFunc >= Base
  BY DEF OpCall
<1>1. /\ Ready /\ cs # << >> /\ TopFrame = Last(cs) /\ Last(cs).t = "exec"
      /\ Core(cs, L.ci) /\ Keeps(cs, L) /\ Based(cs, L.ci)
  BY <1>0, RunsSits
<1>2. Ends(r, ok, cs, oom)
  BY DEF OpCall
<1>3. /\ CallArgs \in StateT /\ CallArgs.ci = L.ci /\ CallArgs.open = L.open
      /\ CallArgs.upvals = L.upvals /\ CallFunc \in Int /\ CallFunc < CallArgs.top
      /\ Over(cs, L.ci, CallFunc) /\ Raises(cs, CallArgs)
  BY <1>0, CallPlace
<1>4. L \in StateT /\ L.ci # << >> /\ cs \in Seq(FrameT)
  BY <1>1 DEF Ready
<1>5. Lands(CallArgs, CallFunc, c, nres, r)
  <2>1. nres \in Int /\ nres >= MULTRET
    BY DEF MULTRET
  <2> QED
    BY <1>3, <2>1, PrecallLands
<1> HIDE DEF r
<1>6. CASE r.res \in {"run", "err", "mem"} /\ StaysAbove(CallArgs, CallFunc, r.S)
  <2>1. Raises(cs, r.S) /\ r.S \in StateT
    BY <1>3, <1>4, <1>6, RaisesAbove
  <2> QED
    BY <1>2, <1>4, <1>6, <2>1, EndsGeo
<1>7. ASSUME NEW k \in CIRec, r.res = c.kind, c.kind \in {"Lua", "C"},
             r.S.ci = Append(CallArgs.ci, k), Fresh(k), k.func = CallFunc,
             k.base <= r.S.top, r.S.open = IF c.kind = "Lua" THEN None ELSE CallArgs.open,
             r.S \in StateT, r.S.upvals = CallArgs.upvals
      PROVE  Geo'
  <2>1. Sits(ok, r.S)
    <3>1. CASE c.kind = "C"
      BY <1>0, <1>3, <1>7, <3>1, CallsC
    <3>2. CASE c.kind = "Lua"
      <4>1. Core(cs, r.S.ci) /\ Keeps(cs, r.S) /\ Over(cs, r.S.ci, r.S.top)
        BY <1>1, <1>3, <1>4, <1>7, CallCore
      <4>2. m \in Nat \ {0}
        BY <1>1, OwnsOne
      <4> DEFINE f == [TopFrame EXCEPT !.n = m]
      <4>3. f \in FrameT /\ f.t = "exec"
        <5>1. TopFrame = [t |-> "exec", n |-> TopFrame.n]
          BY <1>1, OwnsOne
        <5>2. f = [t |-> "exec", n |-> m]
          BY <5>1
        <5> HIDE DEF m, f
        <5> QED
          BY <4>2, <5>2 DEF FrameT
      <4> HIDE DEF f
      <4>4. Sits(Replace(f), r.S)
        BY <1>1, <1>7, <3>2, <4>1, <4>3, ExecSits
      <4> QED
        BY <3>2, <4>4 DEF f
    <3> QED
      BY <1>7, <3>1, <3>2
  <2> QED
    BY <1>2, <1>7, <2>1, EndsGeo
<1> QED
  BY <1>5, <1>6, <1>7, Zenon DEF Lands

\* A tail call: the activation is where the caller's was, whose upvalues are closed.
LEMMA MovedSits ==
    ASSUME Inv, Geo, At("exec"), NEW k \in CIRec, Fresh(k), NEW S \in StateT,
           S.ci = Append(L.ci, k), S.upvals = L.upvals, k.base <= S.top, S.open = None
    PROVE  Sits(cs, MoveFrameDown(S)) /\ MoveFrameDown(S) \in StateT
<1> DEFINE o == CI(L)
           b == o.func + (S.top - k.func)
           a == o.func + (k.base - k.func)
           new == [o EXCEPT !.base = a, !.top = b, !.tail = @ + 1]
           P == SubSeq(L.ci, 1, Len(L.ci) - 1)
           J == Append(P, new)
           U == {u \in L.upvals : u.slot < o.base}
           T == MoveFrameDown(S)
<1>1. /\ Ready /\ cs # << >> /\ Last(cs).t = "exec" /\ Core(cs, L.ci) /\ Keeps(cs, L)
      /\ Based(cs, L.ci)
  BY RunsSits
<1>2. /\ L \in StateT /\ L.ci \in Seq(CIRec) /\ L.ci # << >> /\ cs \in Seq(FrameT)
      /\ Good(cs, L.ci, L.ccalls) /\ L.upvals \in SUBSET Upval
  BY <1>1 DEF Ready, Lively, StateT
<1>3. Len(L.ci) \in Nat /\ Len(L.ci) > 1 /\ Len(L.ci) - 1 \in 0..Len(L.ci)
  BY <1>1, <1>2, OwnsOne
<1>4. /\ o \in CIRec /\ o.func \in Int /\ o.base \in Int /\ o.nres \in Int
      /\ S.top \in Int /\ k.func \in Int /\ k.base \in Int /\ o = L.ci[Len(L.ci)]
  BY <1>1, ReadyCI DEF StateT, CIRec, CI
<1>5. a \in Int /\ b \in Int /\ o.func < a /\ a <= b
  BY SMTT(30), <1>4 DEF Fresh
<1>6. /\ T = [S EXCEPT !.upvals = U, !.ci = J, !.top = b] /\ U \in SUBSET Upval
  <2>1. CI(S) = k /\ S.ci[Len(S.ci) - 1] = o /\ Len(S.ci) - 2 = Len(L.ci) - 1
    BY <1>2, <1>3, SeqFacts DEF CI
  <2>2. SubSeq(S.ci, 1, Len(S.ci) - 2) = P
    BY <1>2, <1>3, <2>1
  <2>3. CloseUpvals(S, o.base) = [S EXCEPT !.upvals = U]
    BY DEF CloseUpvals
  <2>4. [S EXCEPT !.upvals = U].ci = S.ci
    BY DEF StateT
  <2>5. T = [[S EXCEPT !.upvals = U] EXCEPT !.ci = J, !.top = b]
    BY <2>1, <2>2, <2>3, <2>4 DEF MoveFrameDown
  <2>6. U \in SUBSET Upval
    BY <1>2
  <2> HIDE DEF U, J, b, T
  <2> QED
    BY <2>5, <2>6
<1>7. new \in CIRec /\ new.base = a /\ new.top = b /\ new.func = o.func /\ new.nres = o.nres
  <2>1. o \in CIRec /\ a \in Int /\ b \in Int
    BY <1>4, <1>5
  <2> HIDE DEF a, b, o
  <2>2. PICK q \in CIRec : q = o
    BY <2>1
  <2>3. PICK x \in Int, y \in Int : x = a /\ y = b
    BY <2>1
  <2>a. PICK z \in Int : z = q.tail + 1
    BY DEF CIRec
  <2> DEFINE n == [q EXCEPT !.base = x, !.top = y, !.tail = z]
  <2>4. n \in CIRec /\ n.base = x /\ n.top = y /\ n.func = q.func /\ n.nres = q.nres
    BY DEF CIRec
  <2>5. new = n
    BY <2>2, <2>3, <2>a
  <2> HIDE DEF n, new
  <2> QED
    BY <2>2, <2>3, <2>4, <2>5
<1> HIDE DEF new
<1>8. P \in Seq(CIRec) /\ Len(P) = Len(L.ci) - 1 /\ \A i \in 1..(Len(L.ci) - 1) : P[i] = L.ci[i]
  BY <1>2, <1>3, SeqFacts
<1> HIDE DEF P
<1>9. /\ J \in Seq(CIRec) /\ Len(J) = Len(L.ci) /\ J[Len(L.ci)] = new
      /\ \A i \in 1..(Len(L.ci) - 1) : J[i] = L.ci[i]
  <2>1. Len(P) + 1 = Len(L.ci)
    BY <1>3, <1>8
  <2> QED
    BY <1>7, <1>8, <2>1, SeqFacts
<1>10. T \in StateT /\ T.ci = J /\ T.upvals = U /\ T.top = b /\ T.open = None
  <2> HIDE DEF T, J, U, b, a, o
  <2> QED
    BY <1>5, <1>6, <1>9 DEF StateT
<1>11. Keeps(cs, T)
  <2>1. \A j \in ((Len(L.ci) - 1) + 1)..Len(L.ci) : o.base <= L.ci[j].base
    BY <1>3, <1>4
  <2>2. Owns(L.upvals, L.ci) => Owns(U, P)
    BY <1>2, <1>3, <1>4, <2>1, OwnsCut DEF P
  <2>3. Owns(U, P) => Owns(U, J)
    BY <1>7, <1>8, OwnsAdd
  <2> HIDE DEF T, J, U
  <2> QED
    BY <1>1, <1>10, <2>2, <2>3 DEF Keeps
<1>12. Fresh(new) /\ o.nres >= MULTRET
  <2>1. L.ci[Len(L.ci)].nres >= MULTRET
    BY <1>1, <1>3 DEF Core, Nested
  <2> QED
    BY <1>4, <1>5, <1>7, <2>1 DEF Fresh
<1>13. Core(cs, J)
  <2>1. \A i \in 1..Len(cs) : cs[i].t = "pcall" => cs[i].ci # Len(L.ci)
    <3> SUFFICES ASSUME NEW i \in 1..Len(cs), cs[i].t = "pcall" PROVE cs[i].ci # Len(L.ci)
      OBVIOUS
    <3>1. cs[i].ci \in 1..(Len(L.ci) - 1)
      BY <1>1, <1>2, PcallBelow
    <3> QED
      BY <1>3, <3>1
  <2> HIDE DEF J, o
  <2> QED
    BY <1>1, <1>2, <1>3, <1>4, <1>7, <1>9, <1>12, <2>1, CoreLast
<1>14. Over(cs, J, b)
  <2>1. o.func <= b
    BY <1>4, <1>5
  <2>2. Caps(cs, b)
    BY <1>1, <1>2, <1>4, <1>5, <2>1, OverTop
  <2>3. J[Len(J)].base <= b
    BY <1>5, <1>7, <1>9
  <2> QED
    BY <2>2, <2>3 DEF Over
<1> HIDE DEF T, J, b
<1>15. Fit(cs, J, b, None)
  BY <1>1, <1>14, FitExec, OpenNone
<1> QED
  BY <1>10, <1>11, <1>13, <1>15 DEF Sits, T

LEMMA OpTailCallGeo ==
    ASSUME Inv, Geo, NEW c \in Callees, NEW oom, OpTailCall(c, oom)
    PROVE  Geo'
<1> DEFINE r == Precall(CallArgs, CallFunc, c, MULTRET, oom)
           m == IF r.res = "Lua" THEN [r EXCEPT !.S = MoveFrameDown(r.S)] ELSE r
           ok == IF c.kind = "Lua" THEN cs ELSE Append(cs, Frame("cfun"))
<1>0. At("exec") /\ CallFunc >= Base
  BY DEF OpTailCall
<1>1. /\ Ready /\ cs # << >> /\ TopFrame = Last(cs) /\ Last(cs).t = "exec"
  BY <1>0, RunsSits
<1>2. Ends(m, ok, cs, oom)
  BY DEF OpTailCall
<1>3. /\ CallArgs \in StateT /\ CallArgs.ci = L.ci /\ CallArgs.open = L.open
      /\ CallArgs.upvals = L.upvals /\ CallFunc \in Int /\ CallFunc < CallArgs.top
      /\ Over(cs, L.ci, CallFunc) /\ Raises(cs, CallArgs)
  BY <1>0, CallPlace
<1>4. L \in StateT /\ L.ci # << >> /\ cs \in Seq(FrameT)
  BY <1>1 DEF Ready
<1>5. Lands(CallArgs, CallFunc, c, MULTRET, r)
  <2>1. MULTRET \in Int /\ MULTRET >= MULTRET
    BY DEF MULTRET
  <2> QED
    BY <1>3, <2>1, PrecallLands
<1> HIDE DEF r
<1>a. IsResult(r)
  BY <1>5 DEF Lands
<1>6. CASE r.res \in {"run", "err", "mem"} /\ StaysAbove(CallArgs, CallFunc, r.S)
  <2>1. Raises(cs, r.S) /\ r.S \in StateT
    BY <1>3, <1>4, <1>6, RaisesAbove
  <2>2. m = r
    BY <1>6
  <2> HIDE DEF m, ok
  <2> QED
    BY <1>2, <1>4, <1>6, <2>1, <2>2, EndsGeo
<1>7. ASSUME NEW k \in CIRec, r.res = c.kind, c.kind \in {"Lua", "C"},
             r.S.ci = Append(CallArgs.ci, k), Fresh(k), k.func = CallFunc,
             k.base <= r.S.top, r.S.open = IF c.kind = "Lua" THEN None ELSE CallArgs.open,
             r.S \in StateT, r.S.upvals = CallArgs.upvals
      PROVE  Geo'
  <2>1. CASE c.kind = "C"
    <3>1. Sits(ok, r.S)
      BY <1>0, <1>3, <1>7, <2>1, CallsC
    <3>2. m = r
      BY <1>7, <2>1
    <3> HIDE DEF ok, m
    <3> QED
      BY <1>2, <1>7, <2>1, <3>1, <3>2, EndsGeo
  <2>2. CASE c.kind = "Lua"
    <3> DEFINE T == MoveFrameDown(r.S)
    <3>1. Sits(cs, T) /\ T \in StateT
      BY <1>0, <1>3, <1>7, <2>2, MovedSits
    <3>2. m.S = T /\ m.res = "Lua" /\ ok = cs
      BY <1>7, <1>a, <2>2 DEF IsResult
    <3> HIDE DEF ok, m, T
    <3> QED
      BY <1>2, <3>1, <3>2, EndsGeo
  <2> QED
    BY <1>7, <2>1, <2>2
<1> QED
  BY <1>5, <1>6, <1>7, Zenon DEF Lands

\* The function that callTMres called returns one value.
LEMMA LastResult ==
    ASSUME Ready, cs # << >>, Core(cs, L.ci), Last(cs).t \in {"exec", "cfun"},
           Size(Last(cs)) = 1, Len(cs) >= 3, ResTM(cs[Len(cs) - 2])
    PROVE  CI(L).nres = 1
<1>1. cs \in Seq(FrameT) /\ Len(cs) \in Nat /\ Good(cs, L.ci, L.ccalls)
  BY DEF Ready, Lively
<1>2. PICK e \in [0..Len(cs) -> Nat] : AgreeBy(cs, L.ci, e)
  BY <1>1 DEF Good, Agree
<1>3. /\ e[0] = 1 /\ e[Len(cs)] = Len(L.ci)
      /\ \A i \in 1..Len(cs) : e[i] = e[i - 1] + Size(cs[i])
  BY <1>2 DEF AgreeBy
<1> DEFINE m == Len(cs) - 1
           d == [i \in 0..m |-> e[i]]
<1>4. m \in Nat /\ m + 1 = Len(cs) /\ m \in 0..m /\ Len(cs) \in 1..Len(cs) /\ Len(cs) \in 3..Len(cs)
  BY <1>1
<1>5. Deep(cs, m, d)
  <2>1. d \in [0..m -> Nat] /\ d[0] = 1
    BY <1>3, <1>4
  <2>2. \A i \in 1..m : i \in 0..m /\ i - 1 \in 0..m /\ i \in 1..Len(cs)
    BY <1>4
  <2>3. \A i \in 1..m : d[i] = d[i - 1] + Size(cs[i])
    BY <1>3, <2>2
  <2> QED
    BY <2>1, <2>3 DEF Deep
<1>6. d[m] + 1 = Len(L.ci)
  BY <1>3, <1>4 DEF Last
<1> HIDE DEF d
<1>7. L.ci[d[m] + 1].nres = 1
  BY <1>4, <1>5 DEF Core, Results, Last
<1> QED
  BY <1>6, <1>7 DEF CI

\* A function called by luaD_call or lua_resume returns.
LEMMA PopsSits ==
    ASSUME Ready, cs # << >>, Core(cs, L.ci), Last(cs).t \in {"exec", "cfun"},
           Size(Last(cs)) = 1, cs[Len(cs) - 1].t # "exec",
           NEW T \in StateT, T.ci = SubSeq(L.ci, 1, Len(L.ci) - 1), Keeps(cs, T),
           CI(L).func <= T.top, CI(L).nres = 1 => T.top = CI(L).func + 1,
           OpenIn(Front(cs), T.open)
    PROVE  Sits(Front(cs), T)
<1>1. /\ cs \in Seq(FrameT) /\ L.ci \in Seq(CIRec) /\ Good(cs, L.ci, L.ccalls)
      /\ Lively(cs, L.ci, L.ccalls, L.baseccalls) /\ Len(cs) \in Nat
  BY DEF Ready, Lively
<1>2. Len(L.ci) > 1 /\ Len(cs) > 1 /\ Len(L.ci) \in Nat
  BY <1>1, OwnsOne
<1>3. CI(L).func \in Int /\ T.top \in Int /\ CI(L) = L.ci[Len(L.ci)] /\ T.ci \in Seq(CIRec)
  BY ReadyCI DEF StateT, CI
<1> DEFINE r == Front(cs)
           K == SubSeq(L.ci, 1, Len(L.ci) - 1)
<1>4. /\ Good(r, K, L.ccalls - Weight(Last(cs))) /\ r \in Seq(FrameT) /\ r # << >>
      /\ Last(r) = cs[Len(cs) - 1]
  BY <1>1, <1>2, LivelyPop DEF Lively
<1>5. /\ Len(r) = Len(cs) - 1 /\ \A i \in 1..(Len(cs) - 1) : r[i] = cs[i]
  <2>1. Len(cs) - 1 \in 0..Len(cs)
    BY <1>1, <1>2
  <2> QED
    BY <1>1, <2>1, SeqFacts DEF Front
<1>6. Core(r, K)
  <2>1. Len(cs) - 1 \in 0..Len(cs) /\ Len(L.ci) - 1 \in 1..Len(L.ci)
    BY <1>1, <1>2
  <2>2. K # << >> /\ K \in Seq(CIRec)
    <3>1. Len(K) = Len(L.ci) - 1 /\ K \in Seq(CIRec)
      BY <1>1, <2>1, SeqFacts
    <3> HIDE DEF K
    <3> QED
      BY <1>2, <3>1
  <2>3. Based(r, K)
    BY <1>4, <2>2, GoodBased
  <2> QED
    BY <1>1, <2>1, <2>3, CoreCut DEF Front
<1>7. Keeps(r, T)
  <2>1. r[1] = cs[1]
    BY <1>1, <1>2, <1>5
  <2> QED
    BY <1>4, <2>1 DEF Keeps, Closed
<1>8. \A p \in Int : CI(L).func <= p => Over(r, K, p)
  BY <1>1, <1>2, <1>3, Popped DEF Over
<1>9. Last(r).t \in {"call", "resume"}
  BY <1>4, LastCaller
<1>10. ASSUME Spare(r) PROVE Over(r, K, T.top - 1)
  <2>1. Last(r).t = "call" /\ ResTM(r[Len(r) - 1])
    BY <1>9, <1>10 DEF Spare, ResTM
  <2>2. Len(cs) - 1 \in 1..Len(cs) /\ cs[Len(cs) - 1].t = "call"
    BY <1>1, <1>2, <1>4, <2>1
  <2>3. Len(cs) - 1 > 1
    BY <2>2 DEF Core, Callers
  <2>4. Len(cs) >= 3 /\ Len(r) - 1 = Len(cs) - 2 /\ Len(cs) - 2 \in 1..(Len(cs) - 1)
    BY <1>1, <1>5, <2>3
  <2>5. CI(L).nres = 1
    BY <1>5, <2>1, <2>4, LastResult
  <2>6. T.top - 1 = CI(L).func
    BY <1>3, <2>5
  <2> QED
    BY <1>3, <1>8, <2>6
<1> HIDE DEF r, K
<1>11. Over(r, K, T.top)
  BY <1>3, <1>8
<1>12. Edge(r, K, T.top, T.open)
  BY <1>9 DEF Edge
<1>13. Fit(r, K, T.top, T.open)
  BY <1>10, <1>11, <1>12 DEF Fit, r
<1> QED
  BY <1>6, <1>7, <1>13 DEF Sits, r, K

\* The CallInfo on top is that of the Lua function that runs.
LEMMA ExecLua ==
    ASSUME NEW s \in Seq(FrameT), NEW K \in Seq(CIRec), NEW n, Good(s, K, n), s # << >>,
           Last(s).t = "exec"
    PROVE  K[Len(K)].kind = "Lua"
<1>1. /\ Last(s) \in FrameT /\ Size(Last(s)) \in Nat /\ Len(K) - Size(Last(s)) \in 1..Len(K)
      /\ \A j \in (Len(K) - Size(Last(s)) + 1)..Len(K) : K[j].kind = KindOf(Last(s))
  BY LastOwns
<1>2. Size(Last(s)) # 0
  BY <1>1 DEF Size, FrameT
<1>3. Len(K) \in (Len(K) - Size(Last(s)) + 1)..Len(K)
  <2>1. PICK l \in Nat, z \in Nat : l = Len(K) /\ z = Size(Last(s))
    BY <1>1
  <2> QED
    BY <1>1, <1>2, <2>1
<1> QED
  BY <1>1, <1>3 DEF KindOf

\* A function called by OP_CALL returns to the Lua function.
LEMMA BackSits ==
    ASSUME NEW s \in Seq(FrameT), s # << >>, Last(s).t = "exec", NEW S \in StateT,
           S.ci # << >>, NEW n, Good(s, S.ci, n), Core(s, S.ci), Keeps(s, S),
           Over(s, S.ci, S.top), NEW ci \in CIRec, ci.func <= S.top
    PROVE  Sits(s, AfterCall(S, ci))
<1> DEFINE T == AfterCall(S, ci)
<1>1. /\ S.ci \in Seq(CIRec) /\ Len(S.ci) \in Nat /\ Len(S.ci) # 0 /\ CI(S) = S.ci[Len(S.ci)]
      /\ Len(S.ci) \in 1..Len(S.ci) /\ ci.func \in Int /\ None \in Int /\ S.top \in Int
  BY SMTT(30) DEF StateT, CI, CIRec, None
<1>2. CI(S).top \in Int /\ CI(S).base \in Int
  BY CIType DEF CIRec
<1>3. CASE ci.nres = MULTRET
  <2>1. T = [S EXCEPT !.open = ci.func]
    BY <1>3 DEF AfterCall
  <2>2. T.ci = S.ci /\ T.top = S.top /\ T.upvals = S.upvals /\ T.open = ci.func
    BY <1>1, <2>1 DEF StateT
  <2> HIDE DEF T
  <2>3. Fit(s, S.ci, S.top, ci.func)
    BY FitExec, OpenExec
  <2>4. Sits(s, T)
    BY <2>2, <2>3 DEF Sits, Keeps
  <2> QED
    BY <2>4 DEF T
<1>4. CASE ci.nres # MULTRET
  <2>1. T = [S EXCEPT !.top = CI(S).top, !.open = None]
    BY <1>4 DEF AfterCall
  <2>2. T.ci = S.ci /\ T.top = CI(S).top /\ T.upvals = S.upvals /\ T.open = None
    BY <1>1, <1>2, <2>1 DEF StateT
  <2> HIDE DEF T
  <2>3. S.ci[Len(S.ci)].base <= S.ci[Len(S.ci)].top
    <3>1. S.ci[Len(S.ci)].kind = "Lua"
      BY <1>1, ExecLua
    <3> QED
      BY <1>1, <3>1 DEF Core, Nested
  <2>4. Over(s, S.ci, CI(S).top)
    BY <1>1, <1>2, <2>3, OverTop
  <2>5. Fit(s, S.ci, CI(S).top, None)
    BY <2>4, FitExec, OpenExec
  <2>6. Sits(s, T)
    BY <2>2, <2>5 DEF Sits, Keeps
  <2> QED
    BY <2>6 DEF T
<1> QED
  BY <1>3, <1>4

\* Where luaD_poscall leaves the top, for n values returned.
LEMMA PoscallTop ==
    ASSUME NEW S \in StateT, Len(S.ci) > 1, NEW n \in Nat, CI(S).nres >= MULTRET
    PROVE  LET P == Poscall(S, n)
           IN  /\ P.ci = SubSeq(S.ci, 1, Len(S.ci) - 1) /\ P.open = S.open
               /\ P.upvals = S.upvals /\ P \in StateT /\ CI(S).func <= P.top
               /\ CI(S).nres = 1 => P.top = CI(S).func + 1
<1> DEFINE P == Poscall(S, n)
           K == SubSeq(S.ci, 1, Len(S.ci) - 1)
           q == IF CI(S).nres = MULTRET THEN n ELSE CI(S).nres
<1>1. S.ci \in Seq(CIRec) /\ Len(S.ci) \in Nat /\ S.ci # << >>
  BY DEF StateT
<1>2. CI(S) \in CIRec /\ CI(S).func \in Int /\ CI(S).nres \in Int
  BY <1>1, CIType DEF CIRec
<1>3. K \in Seq(CIRec)
  BY <1>1, SeqFacts
<1>4. P = [S EXCEPT !.ci = K, !.top = CI(S).func + q]
  BY DEF Poscall
<1>5. q \in Nat /\ (CI(S).nres = 1 => q = 1)
  BY <1>2 DEF MULTRET
<1> HIDE DEF q, K, P
<1>6. CI(S).func + q \in Int /\ CI(S).func <= CI(S).func + q
  BY <1>2, <1>5
<1>7. P \in StateT /\ P.ci = K /\ P.open = S.open /\ P.upvals = S.upvals /\ P.top = CI(S).func + q
  <2>1. PICK z \in Int : z = CI(S).func + q
    BY <1>6
  <2>2. P = [S EXCEPT !.ci = K, !.top = z]
    BY <1>4, <2>1
  <2> QED
    BY <1>3, <2>1, <2>2 DEF StateT
<1> QED
  BY <1>5, <1>6, <1>7 DEF P, K

\* luaF_close of the running function's upvalues.
LEMMA ClosesOwn ==
    ASSUME Ready, Keeps(cs, L), Len(L.ci) > 1, NEW T, T.ci = SubSeq(L.ci, 1, Len(L.ci) - 1),
           T.upvals = {u \in L.upvals : u.slot < CI(L).base}
    PROVE  Keeps(cs, T)
<1>1. L.ci \in Seq(CIRec) /\ L.upvals \in SUBSET Upval /\ Len(L.ci) \in Nat
  BY DEF Ready, StateT
<1>2. CI(L).base \in Int /\ CI(L) = L.ci[Len(L.ci)] /\ Len(L.ci) - 1 \in 0..Len(L.ci)
  BY <1>1, ReadyCI DEF CI
<1>3. \A j \in ((Len(L.ci) - 1) + 1)..Len(L.ci) : CI(L).base <= L.ci[j].base
  BY <1>1, <1>2
<1>4. Owns(L.upvals, L.ci) => Owns(T.upvals, T.ci)
  BY <1>1, <1>2, <1>3, OwnsCut
<1> QED
  BY <1>4 DEF Keeps

LEMMA OpReturnGeo ==
    ASSUME Inv, Geo, OpReturn PROVE Geo'
<1> DEFINE n == IF Open THEN L.top - L.open ELSE 1
           T == CloseUpvals(L, Base)
           S == Poscall(T, n)
           U == [S EXCEPT !.open = None]
           V == AfterCall(S, CI(L))
           K == SubSeq(L.ci, 1, Len(L.ci) - 1)
           m == TopFrame.n - 1
           down == Replace([TopFrame EXCEPT !.n = m])
<1>1. /\ Ready /\ cs # << >> /\ TopFrame = Last(cs) /\ Last(cs).t = "exec" /\ Core(cs, L.ci)
      /\ Keeps(cs, L) /\ Fit(cs, L.ci, L.top, L.open)
  BY RunsSits DEF OpReturn
<1>2. /\ Len(L.ci) > 1 /\ Len(cs) > 1
      /\ Last(cs) = [t |-> "exec", n |-> Last(cs).n] /\ Last(cs).n \in Nat \ {0}
  BY <1>1, OwnsOne
<1>3. /\ L \in StateT /\ cs \in Seq(FrameT) /\ L.ci \in Seq(CIRec) /\ L.ci # << >>
      /\ L.top \in Int /\ L.open \in Int /\ Len(L.ci) \in Nat /\ L.ccalls \in Int
      /\ Lively(cs, L.ci, L.ccalls, L.baseccalls) /\ Good(cs, L.ci, L.ccalls)
  BY <1>1, ReadyCI DEF Ready, Lively
<1>4. n \in Nat
  <2>1. L.open = None \/ L.open <= L.top
    BY <1>1 DEF Fit, Edge
  <2> QED
    BY <1>3, <2>1 DEF Open
<1>5. IF TopFrame.n = 1 THEN Does(U, Pop) ELSE Does(V, down)
  BY DEF OpReturn
<1>6. /\ T \in StateT /\ T.ci = L.ci /\ T.upvals = {u \in L.upvals : u.slot < CI(L).base}
      /\ CI(T) = CI(L)
  <2> DEFINE W == {u \in L.upvals : u.slot < CI(L).base}
  <2>1. W \in SUBSET Upval
    BY <1>3 DEF StateT
  <2>2. T = [L EXCEPT !.upvals = W]
    BY DEF CloseUpvals, Base
  <2> HIDE DEF W, T
  <2>3. T \in StateT /\ T.ci = L.ci /\ T.upvals = W
    BY <1>3, <2>1, <2>2 DEF StateT
  <2> QED
    BY <2>3 DEF W, CI
<1> HIDE DEF n, T
<1>7. CI(L).nres >= MULTRET /\ CI(L) \in CIRec
  <2>1. Len(L.ci) \in 1..Len(L.ci)
    BY <1>2, <1>3
  <2>2. L.ci[Len(L.ci)].nres >= MULTRET
    BY <1>1, <2>1 DEF Core, Nested
  <2> QED
    BY <1>1, <2>2, ReadyCI DEF CI
<1>8. /\ S.ci = K /\ S.upvals = {u \in L.upvals : u.slot < CI(L).base} /\ S \in StateT
      /\ CI(L).func <= S.top /\ (CI(L).nres = 1 => S.top = CI(L).func + 1)
  BY <1>2, <1>4, <1>6, <1>7, PoscallTop
<1> HIDE DEF S
<1>9. Keeps(cs, S)
  BY <1>1, <1>2, <1>8, ClosesOwn
<1>10. CASE TopFrame.n = 1
  <2>1. /\ U \in StateT /\ U.ci = S.ci /\ U.upvals = S.upvals /\ U.top = S.top /\ U.open = None
    <3>1. None \in Int
      BY DEF None
    <3> QED
      BY <1>8, <3>1 DEF StateT
  <2> HIDE DEF U
  <2>2. Size(Last(cs)) = 1
    BY <1>1, <1>10 DEF Size
  <2>3. cs[Len(cs) - 1].t # "exec"
    BY <1>1, LastCaller
  <2>4. OpenIn(Front(cs), U.open)
    BY <2>1, OpenNone
  <2>5. Keeps(cs, U)
    BY <1>9, <2>1 DEF Keeps
  <2>6. Sits(Front(cs), U)
    BY <1>1, <1>8, <2>1, <2>2, <2>3, <2>4, <2>5, PopsSits
  <2>7. Does(U, Front(cs))
    BY <1>5, <1>10 DEF Pop, Front
  <2> QED
    BY <2>6, <2>7, DoesGeo
<1>11. CASE TopFrame.n # 1
  <2>1. m \in Nat \ {0}
    BY <1>1, <1>2, <1>11
  <2> DEFINE f == [TopFrame EXCEPT !.n = m]
  <2>2. f = [t |-> "exec", n |-> Last(cs).n - 1] /\ f.t = "exec"
    BY <1>1, <1>2
  <2>a. f \in FrameT
    <3>1. Last(cs).n - 1 \in Nat \ {0}
      BY <1>1, <2>1
    <3> QED
      BY <2>2, <3>1 DEF FrameT
  <2> HIDE DEF f
  <2>3. /\ down = Append(Front(cs), f) /\ down \in Seq(FrameT) /\ Front(cs) \in Seq(FrameT)
        /\ Last(down) = f /\ down # << >> /\ Len(down) = Len(cs)
        /\ \A i \in 1..(Len(cs) - 1) : down[i] = cs[i]
    BY <1>1, <2>a, ReplacedIs DEF f
  <2> HIDE DEF down, m
  <2>4. Lively(down, K, L.ccalls, L.baseccalls)
    BY <1>1, <1>3, <1>11, <2>2, <2>3, LivelyShrink
  <2>5. K \in Seq(CIRec) /\ K # << >> /\ Len(L.ci) - 1 \in 1..Len(L.ci)
    <3>1. Len(L.ci) - 1 \in 0..Len(L.ci) /\ Len(L.ci) - 1 \in 1..Len(L.ci)
      BY <1>2, <1>3
    <3>2. Len(K) = Len(L.ci) - 1 /\ K \in Seq(CIRec)
      BY <1>3, <3>1, SeqFacts
    <3> HIDE DEF K
    <3> QED
      BY <1>2, <3>1, <3>2
  <2>6. Core(down, L.ci)
    BY <1>1, <1>3, <2>2, <2>3, CoreExec
  <2>7. Core(down, K)
    <3>1. Len(down) \in 0..Len(down) /\ down = SubSeq(down, 1, Len(down))
      BY <2>3
    <3>2. Based(down, K)
      BY <2>4, <2>5, GoodBased DEF Lively
    <3> QED
      BY <1>3, <2>3, <2>5, <2>6, <3>1, <3>2, CoreCut
  <2>8. Over(down, K, S.top)
    <3>0. S.top \in Int
      BY <1>8 DEF StateT
    <3>1. K[Len(K)].base <= S.top /\ Caps(Front(cs), S.top)
      BY <1>1, <1>2, <1>3, <1>8, <3>0, Popped DEF CI
    <3>2. Caps(down, S.top)
      BY <2>2, <2>3, <2>a, <3>1, CapsPush
    <3> QED
      BY <3>1, <3>2 DEF Over
  <2>9. Keeps(down, S)
    <3>1. down[1] = cs[1]
      BY SMTT(30), <1>2, <1>3, <2>3
    <3> QED
      BY <1>9, <2>3, <3>1 DEF Keeps, Closed
  <2> HIDE DEF K
  <2>10. Sits(down, V)
    BY <1>7, <1>8, <2>2, <2>3, <2>4, <2>5, <2>7, <2>8, <2>9, BackSits DEF Lively
  <2>11. Does(V, down)
    BY <1>5, <1>11 DEF down, m
  <2> HIDE DEF V
  <2> QED
    BY <2>10, <2>11, DoesGeo
<1> QED
  BY <1>10, <1>11

LEMMA ReturnGeo ==
    ASSUME Inv, Geo, Return PROVE Geo'
<1> DEFINE n == IF L.top > CI(L).base THEN 1 ELSE 0
           S == Poscall(L, n)
           V == AfterCall(S, CI(L))
           K == SubSeq(L.ci, 1, Len(L.ci) - 1)
           U == IF cs[Len(cs) - 1].t = "exec" THEN V ELSE S
<1>1. /\ Ready /\ cs # << >> /\ TopFrame = Last(cs) /\ Last(cs).t = "cfun" /\ Core(cs, L.ci)
      /\ Keeps(cs, L) /\ Fit(cs, L.ci, L.top, L.open)
  BY RunsSits DEF Return
<1>2. Len(L.ci) > 1 /\ Len(cs) > 1
  BY <1>1, OwnsOne
<1>3. /\ L \in StateT /\ cs \in Seq(FrameT) /\ L.ci \in Seq(CIRec) /\ L.ci # << >>
      /\ L.top \in Int /\ Len(L.ci) \in Nat /\ L.ccalls \in Int /\ Len(cs) \in Nat
      /\ Lively(cs, L.ci, L.ccalls, L.baseccalls) /\ Good(cs, L.ci, L.ccalls)
  BY <1>1 DEF Ready, Lively
<1>4. n \in Nat
  OBVIOUS
<1>5. Does(U, Front(cs))
  BY DEF Return, Pop, Front
<1>6. Size(Last(cs)) = 1 /\ L.ci[Len(L.ci)].kind = "C"
  <2>1. Size(Last(cs)) = 1 /\ KindOf(Last(cs)) = "C"
    BY <1>1 DEF Size, KindOf
  <2>2. \A j \in (Len(L.ci) - 1 + 1)..Len(L.ci) : L.ci[j].kind = "C"
    BY <1>1, <1>3, <2>1, LastOwns
  <2>3. Len(L.ci) \in (Len(L.ci) - 1 + 1)..Len(L.ci)
    BY <1>3
  <2> QED
    BY <2>1, <2>2, <2>3
<1> HIDE DEF n
<1>7. CI(L).nres >= MULTRET /\ CI(L) \in CIRec
  <2>1. Len(L.ci) \in 1..Len(L.ci)
    BY <1>2, <1>3
  <2>2. L.ci[Len(L.ci)].nres >= MULTRET
    BY <1>1, <2>1 DEF Core, Nested
  <2> QED
    BY <1>1, <2>2, ReadyCI DEF CI
<1>8. /\ S.ci = K /\ S.upvals = L.upvals /\ S.open = L.open /\ S \in StateT
      /\ CI(L).func <= S.top /\ (CI(L).nres = 1 => S.top = CI(L).func + 1)
  BY <1>2, <1>3, <1>4, <1>7, PoscallTop
<1> HIDE DEF S
<1>9. Keeps(cs, S)
  BY <1>1, <1>3, <1>6, <1>8, OwnsPop DEF Keeps
<1>10. OpenIn(Front(cs), S.open)
  BY <1>1, <1>3, <1>8, OpenPop DEF Fit
<1>11. CASE cs[Len(cs) - 1].t # "exec"
  <2>1. Sits(Front(cs), S)
    BY <1>1, <1>6, <1>8, <1>9, <1>10, <1>11, PopsSits
  <2> HIDE DEF V
  <2> QED
    BY <1>5, <1>11, <2>1, DoesGeo
<1>12. CASE cs[Len(cs) - 1].t = "exec"
  <2> DEFINE r == Front(cs)
  <2>1. /\ Good(r, K, L.ccalls - Weight(Last(cs))) /\ r \in Seq(FrameT) /\ r # << >>
        /\ Last(r) = cs[Len(cs) - 1]
    BY <1>1, <1>2, <1>3, <1>6, LivelyPop DEF Lively
  <2>2. Len(cs) - 1 \in 0..Len(cs) /\ Len(L.ci) - 1 \in 1..Len(L.ci) /\ 1 \in 1..(Len(cs) - 1)
    BY <1>2, <1>3
  <2>3. K # << >> /\ K \in Seq(CIRec)
    <3>1. Len(K) = Len(L.ci) - 1 /\ K \in Seq(CIRec)
      BY <1>3, <2>2, SeqFacts
    <3> HIDE DEF K
    <3> QED
      BY <1>2, <3>1
  <2>4. Core(r, K)
    <3>1. Based(r, K)
      BY <2>1, <2>3, GoodBased
    <3> QED
      BY <1>1, <1>3, <2>2, <3>1, CoreCut DEF Front
  <2>5. Over(r, K, S.top)
    <3>0. S.top \in Int
      BY <1>8 DEF StateT
    <3> QED
      BY <1>1, <1>2, <1>3, <1>8, <3>0, Popped DEF CI, Over
  <2>6. Keeps(r, S)
    <3>1. r[1] = cs[1]
      BY <1>3, <2>2, SeqFacts DEF Front
    <3> QED
      BY <1>9, <2>1, <3>1 DEF Keeps, Closed
  <2> HIDE DEF K, r
  <2>7. Sits(r, V)
    BY <1>7, <1>8, <1>12, <2>1, <2>3, <2>4, <2>5, <2>6, BackSits
  <2> HIDE DEF V
  <2> QED
    BY <1>5, <1>12, <2>7, DoesGeo DEF r
<1> QED
  BY <1>11, <1>12

\* What is known when C code runs.
LEMMA InCSits ==
    ASSUME Inv, Geo, InC, L.status = "ok"
    PROVE  /\ Ready /\ Core(cs, L.ci) /\ Keeps(cs, L) /\ Fit(cs, L.ci, L.top, L.open)
           /\ cs = << >> \/ (Last(cs).t = "cfun" /\ At("cfun"))
<1>1. CASE At("cfun")
  BY <1>1, RunsSits
<1>2. CASE Idle
  <2>1. Ready /\ cs = << >> /\ ended = "no" /\ L.status # "dead"
    BY <1>2, IdleReady DEF Idle
  <2>2. Sits(cs, L)
    BY <2>1, GeoSits
  <2> QED
    BY <2>1, <2>2 DEF Sits
<1> QED
  BY <1>1, <1>2 DEF InC

\* Only the Lua stack changes, above the base of the running function.
LEMMA StaysSits ==
    ASSUME Ready, Core(cs, L.ci), Keeps(cs, L), cs = << >> \/ Last(cs).t \in {"exec", "cfun"},
           NEW T, T.ci = L.ci, T.upvals = L.upvals, T.top \in Int, CI(L).base <= T.top,
           OpenIn(cs, T.open),
           cs # << >> /\ Last(cs).t = "exec" => T.open = None \/ T.open <= T.top
    PROVE  Sits(cs, T)
<1>1. cs \in Seq(FrameT) /\ L.ci \in Seq(CIRec) /\ Good(cs, L.ci, L.ccalls)
  BY DEF Ready, Lively
<1>2. L.ci[Len(L.ci)].base <= T.top
  BY DEF CI
<1>3. Over(cs, L.ci, T.top)
  <2>1. CASE cs = << >>
    BY <1>2, <2>1 DEF Over, Caps
  <2>2. CASE cs # << >>
    BY <1>1, <1>2, <2>2, OverTop
  <2> QED
    BY <2>1, <2>2
<1>4. Fit(cs, T.ci, T.top, T.open)
  BY <1>3, FitPlain, FitExec
<1> QED
  BY <1>4 DEF Sits, Keeps

LEMMA OpVarargGeo ==
    ASSUME Inv, Geo, NEW oom, OpVararg(oom) PROVE Geo'
<1> DEFINE n == CI(L).base - CI(L).func - 2
           T == CheckStack(L, n)
           top == Base + 1 + n
           open == Base + 1
           U == [T EXCEPT !.top = top, !.open = open]
<1>1. /\ Ready /\ cs # << >> /\ Last(cs).t = "exec" /\ Core(cs, L.ci) /\ Keeps(cs, L)
      /\ Raises(cs, L)
  BY RunsSits DEF OpVararg
<1>2. L \in StateT /\ cs \in Seq(FrameT)
  BY <1>1 DEF Ready
<1>3. n \in Int /\ n > 0 /\ top \in Int /\ open \in Int /\ open <= top /\ CI(L).base <= top
  <2>1. n > 0
    BY DEF OpVararg
  <2>2. CI(L).base \in Int /\ CI(L).func \in Int
    BY <1>1, ReadyCI
  <2> QED
    BY <2>1, <2>2 DEF Base
<1>4. \/ Ends(Result(L, "mem", 0), cs, cs, oom)
      \/ Ends(Result(U, "ok", Base + 1 + n - T.size), cs, cs, oom)
  BY DEF OpVararg
<1>5. Steady(L, T)
  BY <1>2, <1>3, CheckStackSteady
<1> HIDE DEF n, T, top, open
<1>6. U \in StateT /\ U.ci = L.ci /\ U.upvals = L.upvals /\ U.top = top /\ U.open = open
  BY <1>3, <1>5 DEF Steady, StateT
<1> HIDE DEF U
<1>7. Sits(cs, U)
  <2>1. OpenIn(cs, U.open)
    BY <1>1, <1>2, OpenExec
  <2> QED
    BY <1>1, <1>3, <1>6, <2>1, StaysSits
<1>8. CASE Ends(Result(L, "mem", 0), cs, cs, oom)
  <2> DEFINE r == Result(L, "mem", 0)
  <2>1. r.S = L /\ r.res = "mem"
    BY DEF Result
  <2> HIDE DEF r
  <2>2. Ends(r, cs, cs, oom)
    BY <1>8 DEF r
  <2> QED
    BY <1>1, <1>2, <2>1, <2>2, EndsGeo
<1>9. CASE Ends(Result(U, "ok", Base + 1 + n - T.size), cs, cs, oom)
  <2> DEFINE r == Result(U, "ok", Base + 1 + n - T.size)
  <2>1. r.S = U /\ r.res = "ok"
    BY DEF Result
  <2> HIDE DEF r
  <2>2. Ends(r, cs, cs, oom)
    BY <1>9 DEF r
  <2> QED
    BY <1>6, <1>7, <2>1, <2>2, EndsGeo
<1> QED
  BY <1>4, <1>8, <1>9

LEMMA OpClosureGeo ==
    ASSUME Inv, Geo, OpClosure PROVE Geo'
<1> DEFINE u == [slot |-> Base, depth |-> Len(L.ci), tail |-> CI(L).tail]
           W == L.upvals \cup {u}
           T == [L EXCEPT !.upvals = W]
<1>1. /\ Ready /\ cs # << >> /\ Last(cs).t = "exec" /\ Core(cs, L.ci) /\ Keeps(cs, L)
      /\ Fit(cs, L.ci, L.top, L.open)
  BY RunsSits DEF OpClosure
<1>2. /\ L \in StateT /\ cs \in Seq(FrameT) /\ L.ci \in Seq(CIRec) /\ Good(cs, L.ci, L.ccalls)
      /\ Len(L.ci) \in 1..Len(L.ci)
  BY <1>1, ReadyCI DEF Ready, Lively
<1>3. Does(T, cs)
  BY DEF OpClosure
<1>4. L.ci[Len(L.ci)].kind = "Lua"
  BY <1>1, <1>2, ExecLua
<1>5. u.slot = L.ci[Len(L.ci)].base /\ u.depth = Len(L.ci) /\ u.tail = L.ci[Len(L.ci)].tail
  BY DEF Base, CI
<1>6. T.ci = L.ci /\ T.top = L.top /\ T.open = L.open /\ T.upvals = W
  BY <1>2 DEF StateT
<1> HIDE DEF u, T
<1>7. Owns(L.upvals, L.ci) => Owns(W, L.ci)
  BY <1>2, <1>4, <1>5 DEF Owns
<1> HIDE DEF W
<1>8. Sits(cs, T)
  BY <1>1, <1>6, <1>7 DEF Sits, Keeps
<1> QED
  BY <1>3, <1>8, DoesGeo

LEMMA SetTopGeo ==
    ASSUME Inv, Geo, SetTop(0) PROVE Geo'
<1> DEFINE n == CI(L).base + 0
           T == [L EXCEPT !.top = n]
<1>1. /\ Ready /\ Core(cs, L.ci) /\ Keeps(cs, L) /\ Fit(cs, L.ci, L.top, L.open)
      /\ cs = << >> \/ Last(cs).t = "cfun"
  BY InCSits DEF SetTop
<1>2. n \in Int /\ CI(L).base <= n
  BY <1>1, ReadyCI
<1>3. Does(T, cs)
  BY DEF SetTop
<1> HIDE DEF n
<1>4. T.ci = L.ci /\ T.top = n /\ T.open = L.open /\ T.upvals = L.upvals
  BY <1>1 DEF Ready, StateT
<1> HIDE DEF T
<1>5. OpenIn(cs, T.open)
  BY <1>1, <1>4 DEF Fit
<1>6. Sits(cs, T)
  BY <1>1, <1>2, <1>4, <1>5, StaysSits
<1> QED
  BY <1>3, <1>6, DoesGeo

LEMMA ResumeRunningGeo ==
    ASSUME Inv, Geo, ResumeRunning PROVE Geo'
<1> DEFINE n == CI(L).base
           S == [L EXCEPT !.top = n]
           T == CheckStack(S, 1)
           U == [T EXCEPT !.top = @ + 1]
<1>1. /\ Ready /\ cs # << >> /\ Last(cs).t = "cfun" /\ Core(cs, L.ci) /\ Keeps(cs, L)
      /\ Fit(cs, L.ci, L.top, L.open)
  BY RunsSits DEF ResumeRunning
<1>2. n \in Int /\ L \in StateT
  BY <1>1, ReadyCI DEF Ready
<1>3. Does(U, cs)
  BY DEF ResumeRunning
<1>4. S \in StateT /\ S.ci = L.ci /\ S.top = n /\ S.open = L.open /\ S.upvals = L.upvals
  BY <1>2 DEF StateT
<1> HIDE DEF n, S
<1>5. Steady(S, T) /\ T.top = n
  BY <1>4, CheckStackSteady
<1> HIDE DEF T
<1>6. U.ci = L.ci /\ U.top = n + 1 /\ U.open = L.open /\ U.upvals = L.upvals
  BY <1>4, <1>5 DEF Steady, StateT
<1> HIDE DEF U
<1>7. OpenIn(cs, U.open)
  BY <1>1, <1>6 DEF Fit
<1>8. U.top \in Int /\ CI(L).base <= U.top
  BY <1>2, <1>6 DEF n
<1>9. Sits(cs, U)
  BY <1>1, <1>6, <1>7, <1>8, StaysSits
<1> QED
  BY <1>3, <1>9, DoesGeo

\* luaD_call is about to call the function at func.
LEMMA EnterSits ==
    ASSUME NEW s \in Seq(FrameT), s # << >>, NEW S \in StateT, S.ci # << >>, Core(s, S.ci),
           Keeps(s, S), OpenIn(s, S.open),
           Last(s).t \in {"cfun", "pcall", "tm", "handler", "close"},
           NEW func \in Int, NEW nres \in Int, Over(s, S.ci, func), func < S.top,
           nres >= MULTRET, ResTM(Last(s)) => nres = 1
    PROVE  Sits(Append(s, [t |-> "enter", func |-> func, nres |-> nres]), S)
<1> DEFINE f == [t |-> "enter", func |-> func, nres |-> nres]
           r == Append(s, f)
<1>1. f \in FrameT /\ f.t = "enter" /\ f.func = func /\ f.nres = nres
  BY DEF FrameT
<1> HIDE DEF f
<1>2. S.ci \in Seq(CIRec) /\ S.top \in Int /\ CalledBy(s, f)
  BY <1>1 DEF StateT, CalledBy
<1>3. Core(r, S.ci)
  BY <1>1, <1>2, CorePush
<1>4. Keeps(r, S)
  BY <1>1, KeepsPush
<1>5. Over(s, S.ci, S.top)
  BY <1>2, OverUp
<1>6. Over(r, S.ci, S.top) /\ Over(r, S.ci, func) /\ OpenIn(r, S.open)
  BY <1>1, <1>5, CapsPush, OpenPush DEF Over
<1>7. Last(r) = f /\ r[Len(r) - 1] = Last(s)
  BY <1>1, SeqFacts DEF Last
<1> HIDE DEF r
<1>8. Fit(r, S.ci, S.top, S.open)
  BY <1>1, <1>6, <1>7 DEF Fit, Spare, Edge, ResTM
<1>9. Sits(r, S)
  BY <1>3, <1>4, <1>8 DEF Sits
<1> QED
  BY <1>9 DEF r, f

LEMMA CallGeo ==
    ASSUME Inv, Geo, Call(1) PROVE Geo'
<1> DEFINE n == L.top + 2
           T == [L EXCEPT !.top = n]
<1>1. /\ Ready /\ cs # << >> /\ Last(cs).t = "cfun" /\ Core(cs, L.ci) /\ Keeps(cs, L)
      /\ Fit(cs, L.ci, L.top, L.open)
  BY RunsSits DEF Call
<1>2. L.top \in Int /\ n \in Int /\ L.top < n /\ cs \in Seq(FrameT) /\ L \in StateT /\ L.ci # << >>
  BY <1>1 DEF Ready
<1>3. Does(T, Append(cs, [t |-> "enter", func |-> L.top, nres |-> 1]))
  BY DEF Call
<1> HIDE DEF n
<1>4. T \in StateT /\ T.ci = L.ci /\ T.top = n /\ T.open = L.open /\ T.upvals = L.upvals
  BY <1>2 DEF StateT
<1> HIDE DEF T
<1>5. Over(cs, T.ci, L.top) /\ OpenIn(cs, T.open) /\ Keeps(cs, T) /\ Core(cs, T.ci)
  BY <1>1, <1>4 DEF Fit, Keeps
<1>6. ~ResTM(Last(cs)) /\ 1 >= MULTRET
  BY <1>1 DEF ResTM, MULTRET
<1>7. Sits(Append(cs, [t |-> "enter", func |-> L.top, nres |-> 1]), T)
  BY <1>1, <1>2, <1>4, <1>5, <1>6, EnterSits
<1> QED
  BY <1>3, <1>7, DoesGeo

LEMMA CloseFinalizesGeo ==
    ASSUME Inv, Geo, CloseFinalizes PROVE Geo'
<1> DEFINE n == L.top + 2
           T == [L EXCEPT !.top = n]
<1>1. /\ Ready /\ cs # << >> /\ Last(cs).t = "close" /\ Core(cs, L.ci) /\ Keeps(cs, L)
      /\ Fit(cs, L.ci, L.top, L.open)
  BY RunsSits DEF CloseFinalizes
<1>2. L.top \in Int /\ n \in Int /\ L.top < n /\ cs \in Seq(FrameT) /\ L \in StateT /\ L.ci # << >>
  BY <1>1 DEF Ready
<1>3. L' = T /\ cs' = Append(cs, [t |-> "enter", func |-> L.top, nres |-> 0])
  BY DEF CloseFinalizes
<1> HIDE DEF n
<1>4. T \in StateT /\ T.ci = L.ci /\ T.top = n /\ T.open = L.open /\ T.upvals = L.upvals
  BY <1>2 DEF StateT
<1> HIDE DEF T
<1>5. Over(cs, T.ci, L.top) /\ OpenIn(cs, T.open) /\ Keeps(cs, T) /\ Core(cs, T.ci)
  BY <1>1, <1>4 DEF Fit, Keeps
<1>6. ~ResTM(Last(cs)) /\ 0 >= MULTRET
  BY <1>1 DEF ResTM, MULTRET
<1>7. Sits(Append(cs, [t |-> "enter", func |-> L.top, nres |-> 0]), T)
  BY <1>1, <1>2, <1>4, <1>5, <1>6, EnterSits
<1> QED
  BY <1>3, <1>7, SitsGeo

LEMMA CallTMGeo ==
    ASSUME Inv, Geo, NEW n \in 2..4, NEW oom, CallTM(n, oom) PROVE Geo'
<1> DEFINE T == IF n = 2 THEN L ELSE CheckStack(L, n)
           nres == IF n = 3 THEN 1 ELSE 0
           res == n = 3
           f == [t |-> "tm", res |-> res]
           e == [t |-> "enter", func |-> L.top, nres |-> nres]
           m == L.top + n
           U == [T EXCEPT !.top = @ + n]
           s == Append(cs, f)
<1>1. /\ Ready /\ cs # << >> /\ Last(cs).t = "exec" /\ Core(cs, L.ci) /\ Keeps(cs, L)
      /\ Fit(cs, L.ci, L.top, L.open) /\ Raises(cs, L)
  BY RunsSits DEF CallTM
<1>2. /\ L.top \in Int /\ n \in Int /\ m \in Int /\ L.top < m /\ cs \in Seq(FrameT) /\ L \in StateT
      /\ L.ci # << >> /\ L.ci \in Seq(CIRec)
  BY <1>1 DEF Ready
<1>3. \/ Ends(Result(L, "mem", L.top + n - L.size), cs, cs, oom)
      \/ Ends(Result(U, "ok", L.top + n - L.size), cs \o <<f, e>>, cs, oom)
  BY DEF CallTM
<1>4. Steady(L, T) /\ T.top = L.top
  BY <1>2, CheckStackSteady DEF Steady
<1>5. L.open = None
  BY DEF CallTM, Open
<1>6. nres \in Int /\ nres >= MULTRET
  BY DEF MULTRET
<1>7. f \in FrameT /\ f.t = "tm" /\ (ResTM(f) => nres = 1) /\ e \in FrameT
  <2>1. res \in BOOLEAN /\ (res => nres = 1)
    OBVIOUS
  <2> HIDE DEF res, nres
  <2>2. f \in FrameT /\ f.t = "tm" /\ f.res = res
    BY <2>1 DEF FrameT
  <2>3. e \in FrameT
    BY <1>2, <1>6 DEF FrameT
  <2> HIDE DEF f
  <2> QED
    BY <2>1, <2>2, <2>3, Zenon DEF ResTM
<1> HIDE DEF T, m, nres, res
<1>8. U \in StateT /\ U.ci = L.ci /\ U.upvals = L.upvals /\ U.top = m /\ U.open = None
  <2>1. U = [T EXCEPT !.top = m]
    BY <1>4 DEF m
  <2> HIDE DEF U
  <2> QED
    BY <1>2, <1>4, <1>5, <2>1 DEF Steady, StateT
<1> HIDE DEF U, f
<1>9. CalledBy(cs, f)
  BY <1>1, <1>7 DEF CalledBy
<1>10. /\ s \in Seq(FrameT) /\ s # << >> /\ Last(s) = f
  BY <1>2, <1>7, SeqFacts DEF Last
<1>11. Core(s, L.ci)
  BY <1>1, <1>2, <1>7, <1>9, CorePush
<1>12. Keeps(s, U)
  <2>1. Keeps(s, L)
    BY <1>1, <1>2, <1>7, KeepsPush
  <2> QED
    BY <1>8, <2>1 DEF Keeps
<1>13. Over(s, L.ci, L.top)
  BY <1>1, <1>2, <1>7, CapsPush DEF Over, Fit
<1> HIDE DEF s
<1>14. OpenIn(s, U.open)
  BY <1>8, OpenNone
<1>15. Sits(Append(s, e), U)
  BY <1>2, <1>6, <1>7, <1>8, <1>10, <1>11, <1>12, <1>13, <1>14, EnterSits
<1>16. cs \o <<f, e>> = Append(s, e)
  BY <1>2, <1>7, PushTwo DEF s
<1>17. CASE Ends(Result(L, "mem", L.top + n - L.size), cs, cs, oom)
  <2> DEFINE r == Result(L, "mem", L.top + n - L.size)
  <2>1. r.S = L /\ r.res = "mem"
    BY DEF Result
  <2> HIDE DEF r
  <2>2. Ends(r, cs, cs, oom)
    BY <1>17 DEF r
  <2> QED
    BY <1>1, <1>2, <2>1, <2>2, EndsGeo
<1>18. CASE Ends(Result(U, "ok", L.top + n - L.size), cs \o <<f, e>>, cs, oom)
  <2> DEFINE r == Result(U, "ok", L.top + n - L.size)
  <2>1. r.S = U /\ r.res = "ok"
    BY DEF Result
  <2> HIDE DEF r, e
  <2>2. Ends(r, Append(s, e), cs, oom)
    BY <1>16, <1>18 DEF r
  <2> QED
    BY <1>8, <1>15, <2>1, <2>2, EndsGeo
<1> QED
  BY <1>3, <1>17, <1>18

\* The room of the running function grows.
LEMMA RoomGrows ==
    ASSUME NEW s \in Seq(FrameT), NEW K \in Seq(CIRec), K # << >>, Core(s, K), Based(s, K),
           NEW z \in Int, K[Len(K)].top <= z, NEW J, J = [K EXCEPT ![Len(K)].top = z]
    PROVE  /\ J \in Seq(CIRec) /\ Core(s, J) /\ \A U : Owns(U, K) => Owns(U, J)
           /\ \A p : Over(s, K, p) => Over(s, J, p)
<1> DEFINE m == Len(K)
<1>1. m \in Nat \ {0} /\ m \in 1..m
  OBVIOUS
<1>2. J \in Seq(CIRec) /\ Len(J) = m
  BY TopKinds
<1>3. K[m] \in CIRec
  BY <1>1
<1>4. J = [K EXCEPT ![m] = [K[m] EXCEPT !.top = z]]
  OBVIOUS
<1> DEFINE k == [K[m] EXCEPT !.top = z]
<1>5. /\ k \in CIRec /\ k.func = K[m].func /\ k.base = K[m].base /\ k.nres = K[m].nres
      /\ k.tail = K[m].tail /\ k.kind = K[m].kind /\ k.top = z
  BY <1>3 DEF CIRec
<1> HIDE DEF k
<1>6. J[m] = k /\ \A i \in 1..m : i # m => J[i] = K[i]
  BY <1>1, <1>4 DEF k
<1>7. Fresh(J[m])
  <2>1. /\ K[m].func < K[m].base /\ K[m].nres >= MULTRET
        /\ K[m].kind = "Lua" => K[m].base <= K[m].top
    BY <1>1 DEF Core, Nested
  <2>2. K[m].base \in Int /\ K[m].top \in Int
    BY <1>3 DEF CIRec
  <2> QED
    BY <1>5, <1>6, <2>1, <2>2 DEF Fresh
<1>8. \A i \in 1..m : /\ J[i].base = K[i].base /\ J[i].tail = K[i].tail
                      /\ J[i].kind = K[i].kind
  BY <1>5, <1>6
<1>9. \A i \in 1..(m - 1) : J[i] = K[i]
  BY <1>1, <1>6
<1>10. Core(s, J)
  BY <1>2, <1>5, <1>6, <1>7, <1>9, CoreLast
<1>11. \A U : Owns(U, K) => Owns(U, J)
  BY <1>2, <1>8, OwnsSame
<1>12. \A p : Over(s, K, p) => Over(s, J, p)
  BY <1>1, <1>2, <1>8 DEF Over
<1> QED
  BY <1>2, <1>10, <1>11, <1>12

\* lua_pcall returns to the C code that called it.
LEMMA AdjustSits ==
    ASSUME NEW s \in Seq(FrameT), NEW S \in StateT, S.ci # << >>, Core(s, S.ci), Based(s, S.ci),
           Keeps(s, S), Over(s, S.ci, S.top), OpenIn(s, S.open),
           s = << >> \/ Last(s).t = "cfun", NEW nres
    PROVE  Sits(s, AdjustResults(S, nres))
<1> DEFINE J == [S.ci EXCEPT ![Len(S.ci)].top = S.top]
           T == [S EXCEPT !.ci = J]
<1>1. S.ci \in Seq(CIRec) /\ S.top \in Int /\ CI(S) \in CIRec /\ CI(S).top \in Int
  BY CIType DEF StateT, CIRec
<1>2. \/ AdjustResults(S, nres) = S
      \/ AdjustResults(S, nres) = T /\ S.top >= CI(S).top
  BY DEF AdjustResults
<1>3. Sits(s, S)
  BY FitPlain DEF Sits
<1>4. ASSUME S.top >= CI(S).top PROVE Sits(s, T)
  <2>1. S.ci[Len(S.ci)].top <= S.top
    BY <1>1, <1>4 DEF CI
  <2>2. /\ J \in Seq(CIRec) /\ Core(s, J) /\ (Owns(S.upvals, S.ci) => Owns(S.upvals, J))
        /\ Over(s, J, S.top)
    BY <1>1, <2>1, RoomGrows
  <2> HIDE DEF J
  <2>3. T.ci = J /\ T.top = S.top /\ T.open = S.open /\ T.upvals = S.upvals
    BY <2>2 DEF StateT
  <2> HIDE DEF T
  <2>4. Fit(s, T.ci, T.top, T.open)
    BY <2>2, <2>3, FitPlain
  <2> QED
    BY <2>2, <2>3, <2>4 DEF Sits, Keeps
<1> QED
  BY <1>2, <1>3, <1>4

LEMMA PcallReturnsGeo ==
    ASSUME Inv, Geo, PcallReturns PROVE Geo'
<1> DEFINE S == [L EXCEPT !.errfunc = TopFrame.errfunc]
<1>1. /\ Ready /\ cs # << >> /\ Last(cs).t = "pcall" /\ Core(cs, L.ci) /\ Keeps(cs, L)
      /\ Fit(cs, L.ci, L.top, L.open) /\ TopFrame \in FrameT /\ TopFrame = Last(cs)
  BY RunsSits DEF PcallReturns
<1>2. /\ L \in StateT /\ L.ci # << >> /\ cs \in Seq(FrameT) /\ L.ci \in Seq(CIRec)
      /\ Lively(cs, L.ci, L.ccalls, L.baseccalls)
  BY <1>1 DEF Ready
<1>3. TopFrame.errfunc \in ErrFunc
  BY <1>1 DEF FrameT
<1>4. /\ Pop = Front(cs) /\ Front(cs) \in Seq(FrameT)
      /\ Core(Front(cs), L.ci) /\ Keeps(Front(cs), L)
      /\ Over(Front(cs), L.ci, L.top) /\ OpenIn(Front(cs), L.open)
      /\ Front(cs) = << >> \/ Last(Front(cs)).t = "cfun"
  <2>1. Over(cs, L.ci, L.top) /\ OpenIn(cs, L.open)
    BY <1>1 DEF Fit
  <2>2. Len(cs) = 1 \/ cs[Len(cs) - 1].t = "cfun"
    BY <1>1, LastCaller
  <2>3. /\ Pop = Front(cs) /\ Front(cs) \in Seq(FrameT)
        /\ Core(Front(cs), L.ci) /\ Keeps(Front(cs), L)
        /\ Over(Front(cs), L.ci, L.top) /\ OpenIn(Front(cs), L.open)
    BY <1>1, <2>1, PlainFront
  <2>4. /\ Len(cs) > 1 => Front(cs) # << >> /\ Last(Front(cs)) = cs[Len(cs) - 1]
        /\ Len(cs) > 1 \/ Front(cs) = << >>
    BY <1>1, PlainFront
  <2>5. Front(cs) = << >> \/ Last(Front(cs)).t = "cfun"
    BY <2>2, <2>4
  <2> QED
    BY <2>3, <2>5
<1>5. /\ S \in StateT /\ S.ci = L.ci /\ S.top = L.top /\ S.open = L.open /\ S.upvals = L.upvals
  BY <1>2, <1>3 DEF StateT
<1>6. Does(AdjustResults(S, TopFrame.nres), Front(cs))
  BY <1>4 DEF PcallReturns
<1> HIDE DEF S
<1>7. Based(Front(cs), L.ci)
  <2>1. Size(Last(cs)) = 0
    BY <1>1 DEF Size
  <2>2. Lively(Front(cs), L.ci, L.ccalls - Weight(Last(cs)), L.baseccalls)
    BY <1>1, <1>2, <2>1, LivelyPopPlain
  <2> QED
    BY <1>2, <2>2, GoodBased DEF Lively
<1>8. Keeps(Front(cs), S)
  BY <1>4, <1>5 DEF Keeps
<1>9. Sits(Front(cs), AdjustResults(S, TopFrame.nres))
  BY <1>2, <1>4, <1>5, <1>7, <1>8, AdjustSits
<1> QED
  BY <1>6, <1>9, DoesGeo

LEMMA ApiCheckStackGeo ==
    ASSUME Inv, Geo, NEW oom, ApiCheckStack(MinStack, oom) PROVE Geo'
<1> DEFINE T == CheckStack(L, MinStack)
           z == Larger(T.ci[Len(T.ci)].top, T.top + MinStack)
           K == [L.ci EXCEPT ![Len(L.ci)].top = z]
           new == [T EXCEPT !.ci[Len(T.ci)].top = Larger(@, T.top + MinStack)]
<1>1. /\ Ready /\ Core(cs, L.ci) /\ Keeps(cs, L) /\ Fit(cs, L.ci, L.top, L.open)
      /\ cs = << >> \/ Last(cs).t = "cfun"
  BY InCSits DEF ApiCheckStack
<1>2. /\ cs \in Seq(FrameT) /\ L.ci \in Seq(CIRec) /\ Good(cs, L.ci, L.ccalls)
      /\ L.ci # << >> /\ L \in StateT /\ MinStack \in Int
  BY <1>1, LuaCallsAssumption DEF Ready, Lively
<1>3. Steady(L, T) /\ T.top = L.top
  BY <1>2, CheckStackSteady
<1>4. \/ Ends(Result(L, "mem", 0), cs, cs, oom)
      \/ Ends(Result(new, "ok", 0), cs, cs, oom)
  BY DEF ApiCheckStack
<1>5. T.ci = L.ci /\ T.top \in Int /\ CI(L).top \in Int /\ T \in StateT
  BY <1>1, <1>3, ReadyCI DEF Steady, StateT
<1>6. z \in Int /\ L.ci[Len(L.ci)].top <= z
  BY <1>2, <1>5 DEF Larger, CI
<1>7. new = [T EXCEPT !.ci = K]
  BY <1>5
<1> HIDE DEF T, z
<1>8. Based(cs, L.ci)
  BY <1>2, GoodBased
<1>9. /\ K \in Seq(CIRec) /\ Core(cs, K) /\ (Owns(L.upvals, L.ci) => Owns(L.upvals, K))
      /\ Over(cs, K, L.top)
  BY <1>1, <1>2, <1>6, <1>8, RoomGrows DEF Fit
<1> HIDE DEF K
<1>10. /\ new \in StateT /\ new.ci = K /\ new.top = L.top /\ new.open = L.open
       /\ new.upvals = L.upvals
  BY <1>3, <1>5, <1>7, <1>9 DEF Steady, StateT
<1> HIDE DEF new
<1>11. Sits(cs, new)
  <2>1. Fit(cs, new.ci, new.top, new.open)
    BY <1>1, <1>9, <1>10, FitPlain DEF Fit
  <2> QED
    BY <1>1, <1>9, <1>10, <2>1 DEF Sits, Keeps
<1>12. CASE Ends(Result(L, "mem", 0), cs, cs, oom)
  <2> DEFINE r == Result(L, "mem", 0)
  <2>1. r.S = L /\ r.res = "mem"
    BY DEF Result
  <2> HIDE DEF r
  <2>2. Ends(r, cs, cs, oom)
    BY <1>12 DEF r
  <2>3. Raises(cs, L)
    BY <1>1 DEF Raises, Fit
  <2> QED
    BY <1>2, <2>1, <2>2, <2>3, EndsGeo
<1>13. CASE Ends(Result(new, "ok", 0), cs, cs, oom)
  <2> DEFINE r == Result(new, "ok", 0)
  <2>1. r.S = new /\ r.res = "ok"
    BY DEF Result
  <2> HIDE DEF r
  <2>2. Ends(r, cs, cs, oom)
    BY <1>13 DEF r
  <2> QED
    BY <1>10, <1>11, <2>1, <2>2, EndsGeo
<1> QED
  BY <1>4, <1>12, <1>13

LEMMA PcallGeo ==
    ASSUME Inv, Geo, NEW nres \in Int, nres >= MULTRET, NEW h \in Handlers, Pcall(nres, h)
    PROVE  Geo'
<1> DEFINE func == L.top + (IF h = "none" THEN 0 ELSE 1)
           f == [t |-> "pcall", top |-> func, ci |-> Len(L.ci), ccalls |-> L.ccalls,
                 errfunc |-> L.errfunc, nres |-> nres]
           g == [t |-> "enter", func |-> func, nres |-> nres]
           z == func + 2
           S == [L EXCEPT !.top = z, !.errfunc = h]
           s == Append(cs, f)
<1>1. /\ Ready /\ Core(cs, L.ci) /\ Keeps(cs, L) /\ Fit(cs, L.ci, L.top, L.open)
      /\ cs = << >> \/ Last(cs).t = "cfun"
  BY InCSits DEF Pcall
<1>2. /\ cs \in Seq(FrameT) /\ L.ci \in Seq(CIRec) /\ L.ccalls \in Int /\ L.ci # << >>
      /\ L.top \in Int /\ L \in StateT /\ L.errfunc \in ErrFunc /\ Len(L.ci) \in Int
  BY <1>1 DEF Ready, StateT
<1>3. func \in Int /\ h \in ErrFunc /\ L.top <= func /\ z \in Int /\ func < z
  BY <1>2, LuaCallsAssumption DEF ErrFunc
<1>4. Does(S, cs \o <<f, g>>)
  BY DEF Pcall
<1> HIDE DEF func, z
<1>5. /\ S \in StateT /\ S.ci = L.ci /\ S.top = z /\ S.open = L.open /\ S.upvals = L.upvals
  BY <1>2, <1>3 DEF StateT
<1>6. f \in FrameT /\ f.t = "pcall" /\ f.ci = Len(L.ci) /\ f.top = func
  BY <1>2, <1>3 DEF FrameT
<1>7. g \in FrameT
  BY <1>3 DEF FrameT
<1> HIDE DEF f, S
<1>8. s \in Seq(FrameT) /\ s # << >> /\ cs \o <<f, g>> = Append(s, g) /\ Last(s) = f
  <2>1. Last(s) = f
    BY <1>2, <1>6, SeqFacts DEF Last
  <2> HIDE DEF g
  <2> QED
    BY <1>2, <1>6, <1>7, <2>1, PushTwo
<1>9. Over(cs, L.ci, func)
  BY <1>1, <1>2, <1>3, OverUp DEF Fit
<1>10. CalledBy(cs, f)
  BY <1>1, <1>6 DEF CalledBy
<1>11. Core(s, L.ci)
  BY <1>1, <1>2, <1>6, <1>9, <1>10, CorePush DEF Over
<1>12. Keeps(s, S)
  <2>1. Keeps(s, L)
    BY <1>1, <1>2, <1>6, KeepsPush
  <2> QED
    BY <1>5, <2>1 DEF Keeps
<1>13. Over(s, L.ci, func)
  <2>1. func <= func
    BY <1>3
  <2> QED
    BY <1>2, <1>6, <1>9, <2>1, CapsPush DEF Over
<1>14. OpenIn(s, S.open)
  BY <1>1, <1>2, <1>5, <1>6, OpenPush DEF Fit
<1> HIDE DEF s
<1>15. ~ResTM(Last(s)) /\ Last(s).t = "pcall"
  BY <1>6, <1>8 DEF ResTM
<1>16. Sits(Append(s, g), S)
  BY <1>2, <1>3, <1>5, <1>8, <1>11, <1>12, <1>13, <1>14, <1>15, EnterSits
<1> QED
  BY <1>4, <1>8, <1>16, DoesGeo

LEMMA ErrorGeo ==
    ASSUME Inv, Geo, Error PROVE Geo'
<1> DEFINE f == [t |-> "error", msg |-> FALSE]
           s == Append(cs, f)
<1>1. /\ Ready /\ cs # << >> /\ Last(cs).t = "cfun" /\ Core(cs, L.ci) /\ Keeps(cs, L)
      /\ Fit(cs, L.ci, L.top, L.open) /\ L.top > CI(L).base /\ Raises(cs, L)
  BY RunsSits DEF Error
<1>2. /\ cs \in Seq(FrameT) /\ L.ci \in Seq(CIRec) /\ L.top \in Int /\ L \in StateT
      /\ Good(cs, L.ci, L.ccalls)
  BY <1>1 DEF Ready, Lively
<1>3. Does(L, s)
  BY DEF Error
<1>4. f \in FrameT /\ f.t = "error"
  BY DEF FrameT
<1> HIDE DEF f
<1>5. Last(s) = f /\ CalledBy(cs, f)
  BY <1>2, <1>4, SeqFacts DEF Last, CalledBy
<1>6. Raises(s, L)
  BY <1>1, <1>2, <1>4, <1>5, RaisesPush
<1>7. Over(s, L.ci, L.top - 1)
  <2>1. L.top - 1 \in Int /\ L.ci[Len(L.ci)].base <= L.top - 1
    <3>1. CI(L).base \in Int
      BY <1>1, ReadyCI
    <3> QED
      BY <1>1, <1>2, <3>1 DEF CI
  <2>2. Over(cs, L.ci, L.top - 1)
    BY <1>1, <1>2, <2>1, OverTop
  <2> QED
    BY <1>2, <1>4, <2>2, CapsPush DEF Over
<1> HIDE DEF s
<1>8. Fit(s, L.ci, L.top, L.open)
  BY <1>4, <1>5, <1>6, <1>7 DEF Fit, Edge, Raises
<1>9. Sits(s, L)
  BY <1>6, <1>8 DEF Sits, Raises
<1> QED
  BY <1>3, <1>9, DoesGeo

LEMMA RunErrorGeo ==
    ASSUME Inv, Geo, NEW oom, RunError(oom) PROVE Geo'
<1> DEFINE top == L.top + 1
           S == IF TopFrame.msg THEN [CheckStack(L, 1) EXCEPT !.top = top] ELSE L
           T == CheckStack(S, 1)
           U == [T EXCEPT !.top = @ + 1]
           h == Frame("handler")
           w == [t |-> "throw", code |-> "run"]
           p == S.top - 1
           e == [t |-> "enter", func |-> p, nres |-> 1]
<1>1. /\ Ready /\ cs # << >> /\ TopFrame = Last(cs) /\ TopFrame \in FrameT /\ Last(cs).t = "error"
      /\ Core(cs, L.ci) /\ Keeps(cs, L) /\ Fit(cs, L.ci, L.top, L.open)
  BY RunsSits DEF RunError
<1>2. /\ cs \in Seq(FrameT) /\ L.ci \in Seq(CIRec) /\ L.ci # << >> /\ L.top \in Int /\ L \in StateT
  BY <1>1 DEF Ready
<1>3. /\ Pop = Front(cs) /\ Front(cs) \in Seq(FrameT)
      /\ Core(Front(cs), L.ci) /\ Keeps(Front(cs), L)
      /\ \A q : Over(cs, L.ci, q) => Over(Front(cs), L.ci, q)
      /\ OpenIn(Front(cs), L.open) /\ Over(Front(cs), L.ci, L.top)
  <2>1. OpenIn(cs, L.open) /\ Over(cs, L.ci, L.top)
    BY <1>1 DEF Fit
  <2> QED
    BY <1>1, <2>1, PlainFront
<1>4. Steady(L, S) /\ Over(Front(cs), L.ci, S.top - 1)
  <2>1. CASE TopFrame.msg
    <3>1. Steady(L, CheckStack(L, 1)) /\ top \in Int /\ L.top <= top
      BY <1>2, CheckStackSteady
    <3>2. S = [CheckStack(L, 1) EXCEPT !.top = top]
      BY <2>1
    <3> HIDE DEF top
    <3>3. Steady(L, S) /\ S.top = top
      BY <3>1, <3>2 DEF Steady, StateT
    <3>4. S.top - 1 = L.top
      BY <1>2, <3>3 DEF top
    <3> QED
      BY <1>3, <3>3, <3>4
  <2>2. CASE ~TopFrame.msg
    <3>1. S = L
      BY <2>2
    <3>2. Spare(cs)
      BY <1>1, <2>2 DEF Spare
    <3>3. Over(cs, L.ci, L.top - 1)
      BY <1>1, <3>2 DEF Fit
    <3>4. L.top >= L.top
      BY <1>2
    <3> QED
      BY <1>2, <1>3, <3>1, <3>3, <3>4 DEF Steady
  <2> QED
    BY <2>1, <2>2
<1>5. \/ Ends(Result(L, "mem", 0), cs, Pop, oom)
      \/ Ends(Result(S, "ok", S.top - L.size), Replace(w), cs, oom)
      \/ Ends(Result(S, "err", S.top - L.size), cs, Pop, oom)
      \/ Ends(Result(U, "ok", S.top + 1 - S.size), Append(Replace(h), e), cs, oom)
  BY DEF RunError
<1> HIDE DEF S
<1>6. /\ S \in StateT /\ S.top \in Int /\ S.top - 1 \in Int /\ S.ci = L.ci /\ S.open = L.open
      /\ S.upvals = L.upvals
  BY <1>4 DEF Steady, StateT
<1>7. U \in StateT /\ U.top = S.top + 1 /\ U.ci = L.ci /\ U.open = L.open /\ U.upvals = L.upvals
  <2>1. Steady(S, T) /\ T.top = S.top
    BY <1>6, CheckStackSteady
  <2> HIDE DEF T
  <2>2. PICK z \in Int : z = S.top + 1
    BY <1>6
  <2>3. U = [T EXCEPT !.top = z]
    BY <2>1, <2>2
  <2> HIDE DEF U
  <2> QED
    BY <1>6, <2>1, <2>2, <2>3 DEF Steady, StateT
<1>8. w \in FrameT /\ w.t = "throw" /\ h \in FrameT /\ h.t = "handler"
  BY DEF FrameT, Frame
<1> HIDE DEF T, U, h, w
<1>9. Raises(Front(cs), L)
  BY <1>3 DEF Raises
<1>10. Raises(Front(cs), S)
  BY <1>2, <1>3, <1>4, <1>9, RaisesSteady
<1>11. Sits(Replace(w), S)
  <2>1. Replace(w) = Append(Front(cs), w)
    BY <1>1, <1>8, ReplacedIs
  <2> QED
    BY <1>3, <1>6, <1>8, <1>10, <2>1, RaisesSits
<1>12. Sits(Append(Replace(h), e), U)
  <2> DEFINE s == Replace(h)
  <2>1. s = Append(Front(cs), h) /\ s \in Seq(FrameT) /\ s # << >> /\ Last(s) = h
    BY <1>1, <1>8, ReplacedIs
  <2> HIDE DEF s
  <2>2. CalledBy(Front(cs), h)
    BY <1>8 DEF CalledBy
  <2>3. Raises(s, S)
    BY <1>3, <1>6, <1>8, <1>10, <2>1, <2>2, RaisesPush
  <2>4. Core(s, U.ci) /\ Keeps(s, U) /\ OpenIn(s, U.open)
    BY <1>6, <1>7, <2>3 DEF Raises, Keeps
  <2>5. Over(s, U.ci, S.top - 1)
    BY <1>3, <1>4, <1>7, <1>8, <2>1, CapsPush DEF Over
  <2>6. S.top - 1 < U.top /\ 1 >= MULTRET /\ ~ResTM(Last(s)) /\ Last(s).t = "handler"
    BY <1>6, <1>7, <1>8, <2>1 DEF ResTM, MULTRET
  <2>7. p \in Int /\ p < U.top /\ Over(s, U.ci, p) /\ U.ci # << >>
    BY <1>2, <1>6, <1>7, <2>5, <2>6
  <2> HIDE DEF p
  <2>8. Sits(Append(s, e), U)
    <3>1. U \in StateT /\ s \in Seq(FrameT) /\ s # << >>
      BY <1>7, <2>1
    <3> QED
      BY <2>4, <2>6, <2>7, <3>1, EnterSits
  <2> QED
    BY <2>8 DEF s
<1>13. \A X, a, b : Result(X, a, b).S = X /\ Result(X, a, b).res = a
  BY DEF Result
<1>14. ASSUME NEW X \in StateT, NEW a \in {"mem", "err"}, NEW b, Raises(Front(cs), X),
              Ends(Result(X, a, b), cs, Pop, oom)
       PROVE  Geo'
  <2> DEFINE r == Result(X, a, b)
  <2>1. r.S = X /\ r.res = a /\ Ends(r, cs, Front(cs), oom)
    BY <1>3, <1>13, <1>14
  <2> HIDE DEF r
  <2> QED
    BY <1>3, <1>14, <2>1, EndsGeo
<1>15. ASSUME NEW X \in StateT, NEW b, NEW s, Sits(s, X), Ends(Result(X, "ok", b), s, cs, oom)
       PROVE  Geo'
  <2> DEFINE r == Result(X, "ok", b)
  <2>1. r.S = X /\ r.res = "ok" /\ Ends(r, s, cs, oom)
    BY <1>13, <1>15
  <2> HIDE DEF r
  <2> QED
    BY <1>15, <2>1, EndsGeo
<1> HIDE DEF e
<1> QED
  BY <1>2, <1>5, <1>6, <1>7, <1>9, <1>10, <1>11, <1>12, <1>14, <1>15, Zenon

\* What is known when an error is thrown.
LEMMA ThrownSits ==
    ASSUME Inv, Geo, At("throw")
    PROVE  Core(cs, L.ci) /\ Keeps(cs, L)
<1>1. ended = "no" /\ L.status # "dead"
  BY Thrown
<1> QED
  BY <1>1, GeoSits DEF Sits

\* A thread that is dead or has ended.
LEMMA DeadGeo ==
    ASSUME Keeps(cs', L'), L'.status = "dead" \/ ended' # "no"
    PROVE  Geo'
BY Zenon DEF Geo, Keeps, Closed, Closing, Owns

\* The activations below the first frame, and one frame alone.
LEMMA CoreFirst ==
    ASSUME NEW K, Nested(K), NEW f, f.t \in {"resume", "close"}
    PROVE  Core(<< >>, K) /\ Core(<<f>>, K)
<1>1. Core(<< >>, K)
  BY DEF Core, Guards, Callers, Results
<1>2. Len(<<f>>) = 1 /\ \A i \in 1..1 : <<f>>[i] = f
  OBVIOUS
<1>3. Guards(<<f>>, K)
  BY <1>2 DEF Guards
<1>4. Callers(<<f>>)
  BY <1>2 DEF Callers
<1>5. Results(<<f>>, K)
  BY <1>2 DEF Results
<1> QED
  BY <1>1, <1>3, <1>4, <1>5 DEF Core

LEMMA NestedCut ==
    ASSUME NEW K \in Seq(CIRec), Nested(K), NEW k \in 1..Len(K), NEW J, J = SubSeq(K, 1, k)
    PROVE  Nested(J)
<1>1. k \in 0..Len(K) /\ Len(K) \in Nat
  OBVIOUS
<1>2. Len(J) = k /\ \A i \in 1..k : J[i] = K[i] /\ i \in 1..Len(K)
  BY <1>1, SeqFacts
<1>3. 1 \in 1..k
  OBVIOUS
<1> QED
  BY <1>2, <1>3 DEF Nested

\* A stack of one frame without demands.
LEMMA FirstSits ==
    ASSUME NEW s, NEW S, s = << >> \/ \E f : s = <<f>> /\ f.t \in {"resume", "close"},
           Nested(S.ci), Keeps(s, S), S.ci[Len(S.ci)].base <= S.top
    PROVE  Sits(s, S)
<1>1. CASE s = << >>
  <2>1. Core(s, S.ci)
    BY <1>1 DEF Core, Guards, Callers, Results
  <2>2. Over(s, S.ci, S.top) /\ OpenIn(s, S.open)
    BY <1>1 DEF Over, Caps, OpenIn
  <2> QED
    BY <1>1, <2>1, <2>2, FitPlain DEF Sits
<1>2. ASSUME NEW f, s = <<f>>, f.t \in {"resume", "close"} PROVE Sits(s, S)
  <2>1. Core(s, S.ci)
    BY <1>2, CoreFirst
  <2>2. Len(s) = 1 /\ Last(s) = f /\ \A i \in 1..1 : s[i] = f
    BY <1>2 DEF Last
  <2>3. Over(s, S.ci, S.top) /\ OpenIn(s, S.open)
    BY <1>2, <2>2 DEF Over, Caps, OpenIn
  <2> QED
    BY <1>2, <2>1, <2>2, <2>3, FitPlain DEF Sits
<1> QED
  BY <1>1, <1>2

LEMMA CaughtByPcallGeo ==
    ASSUME Inv, Geo, CaughtByPcall PROVE Geo'
<1> DEFINE p == cs[Catcher]
           s == SubSeq(cs, 1, Catcher - 1)
           K == SubSeq(L.ci, 1, p.ci)
           O == {u \in L.upvals : u.slot < p.top}
           V == [CloseUpvals(L, p.top) EXCEPT !.top = p.top + 1, !.ccalls = p.ccalls,
                          !.ci = SubSeq(@, 1, p.ci), !.errfunc = p.errfunc]
           W == RestoreStackLimit(V)
           X == [W EXCEPT !.open = None]
           Y == AdjustResults(X, p.nres)
<1>1. /\ cs \in Seq(FrameT) /\ cs # << >> /\ L \in StateT /\ At("throw")
      /\ L.ci \in Seq(CIRec) /\ L.ci # << >> /\ Torn /\ Core(cs, L.ci) /\ Keeps(cs, L)
  BY Thrown, ThrownSits DEF CaughtByPcall, Caught
<1>2. /\ Catcher \in 1..Len(cs) /\ Catcher - 1 \in 0..Len(cs) /\ Catcher - 1 < Len(cs)
      /\ (Catcher - 1) + 1 = Catcher
  BY <1>1, CatcherIs DEF CaughtByPcall, Caught
<1>3. p \in FrameT /\ p.t = "pcall"
  BY <1>1, <1>2 DEF CaughtByPcall, Caught
<1>4. p.top \in Int /\ p.ci \in Int /\ p.ccalls \in Int /\ p.errfunc \in ErrFunc
  BY <1>3 DEF FrameT
<1>5. PICK k \in 1..Len(L.ci), n \in Int : Lively(cs, SubSeq(L.ci, 1, k), n, L.baseccalls)
  BY <1>1 DEF Torn
<1>6. Does(Y, s)
  BY DEF CaughtByPcall, Recover
<1>7. PICK j \in 1..Len(L.ci) :
         /\ Lively(s, SubSeq(L.ci, 1, j), Count(cs, Catcher - 1), L.baseccalls)
         /\ p.ci = j /\ p.ccalls = Count(cs, Catcher - 1)
  BY <1>1, <1>2, <1>3, <1>5, CutLively
<1>8. Good(s, K, p.ccalls) /\ p.ci \in 1..Len(L.ci) /\ p.ci \in 0..Len(L.ci)
  BY <1>7 DEF Lively
<1>9. /\ K \in Seq(CIRec) /\ Len(K) = p.ci /\ K[Len(K)] = L.ci[p.ci] /\ K # << >>
      /\ s \in Seq(FrameT) /\ Len(s) = Catcher - 1 /\ \A i \in 1..(Catcher - 1) : s[i] = cs[i]
  BY SMTT(30), <1>1, <1>2, <1>8, SeqFacts
<1>10. Based(s, K)
  BY <1>8, <1>9, GoodBased
<1>11. Core(s, K)
  BY <1>1, <1>2, <1>8, <1>10, CoreCut
<1>12. /\ L.ci[p.ci].base <= p.top
       /\ \A m \in (p.ci + 1)..Len(L.ci) : p.top <= L.ci[m].func
  BY <1>1, <1>2, <1>3 DEF Core, Guards
<1>13. Caps(s, p.top)
  <2> SUFFICES ASSUME NEW i \in 1..Len(s), s[i].t = "pcall" PROVE s[i].top <= p.top
    BY DEF Caps
  <2>1. i \in 1..Len(cs) /\ i < Catcher /\ s[i] = cs[i]
    BY <1>1, <1>2, <1>9
  <2> QED
    BY <1>1, <1>2, <1>3, <2>1 DEF Core, Guards
<1>14. s = << >> \/ Last(s).t = "cfun"
  <2>1. Catcher = 1 \/ cs[Catcher - 1].t = "cfun"
    BY <1>1, <1>2, <1>3 DEF Core, Callers
  <2>2. ASSUME Catcher = 1 PROVE s = << >>
    <3>1. Len(s) = 0
      BY <1>9, <2>2
    <3> HIDE DEF s
    <3> QED
      BY <1>9, <3>1
  <2>3. Catcher # 1 => Last(s) = cs[Catcher - 1]
    BY <1>2, <1>9 DEF Last
  <2> QED
    BY <2>1, <2>2, <2>3
<1>15. Owns(L.upvals, L.ci) => Owns(O, K)
  <2>1. ASSUME NEW i \in (p.ci + 1)..Len(L.ci) PROVE p.top <= L.ci[i].base
    <3>1. i \in 1..Len(L.ci)
      BY <1>1, <1>8
    <3>2. L.ci[i].func < L.ci[i].base
      BY <1>1, <3>1 DEF Core, Nested
    <3>3. L.ci[i].func \in Int /\ L.ci[i].base \in Int
      BY <1>1, <3>1, NestedTypes
    <3> QED
      BY SMTT(30), <1>4, <1>12, <3>2, <3>3
  <2>2. L.upvals \in SUBSET Upval
    BY <1>1 DEF StateT
  <2> QED
    BY <1>1, <1>4, <1>8, <2>1, <2>2, OwnsCut
<1>16. Closed(cs) => Closed(s)
  <2>1. Catcher = 1 => ~Closed(cs)
    BY <1>3 DEF Closed
  <2>2. ASSUME Catcher # 1 PROVE s # << >> /\ s[1] = cs[1]
    <3>1. 1 \in 1..(Catcher - 1) /\ Len(s) # 0
      BY <1>2, <1>9, <2>2
    <3> HIDE DEF s
    <3> QED
      BY <1>9, <3>1
  <2> QED
    BY <2>1, <2>2 DEF Closed
<1>17. O \in SUBSET Upval
  BY <1>1 DEF StateT
<1> HIDE DEF s, K
<1>18. V \in StateT /\ V.ci = K /\ V.top = p.top + 1 /\ V.upvals = O
  <2>1. PICK z \in Int : z = p.top + 1
    BY <1>4
  <2>2. V = [L EXCEPT !.upvals = O, !.top = z, !.ccalls = p.ccalls, !.ci = K,
                      !.errfunc = p.errfunc]
    BY <1>1, <2>1 DEF CloseUpvals, K, StateT
  <2> HIDE DEF V, O, p
  <2> QED
    BY <1>1, <1>4, <1>9, <1>17, <2>1, <2>2 DEF StateT
<1> HIDE DEF V, O
<1>19. W \in StateT /\ W.ci = K /\ W.top = p.top + 1 /\ W.upvals = O
  <2>1. MaxCalls \in Int
    BY LuaCallsAssumption
  <2> QED
    BY <1>18, <2>1 DEF RestoreStackLimit, StateT
<1> HIDE DEF W
<1>20. X \in StateT /\ X.ci = K /\ X.top = p.top + 1 /\ X.upvals = O /\ X.open = None
  <2>1. None \in Int
    BY DEF None
  <2> QED
    BY <1>19, <2>1 DEF StateT
<1> HIDE DEF X, p
<1>21. Over(s, K, X.top)
  <2>1. Over(s, K, p.top)
    BY <1>9, <1>12, <1>13 DEF Over
  <2>2. X.top \in Int /\ p.top <= X.top
    BY <1>4, <1>20
  <2> QED
    BY <1>4, <1>9, <2>1, <2>2, OverUp
<1>22. Keeps(s, X)
  BY <1>1, <1>15, <1>16, <1>20 DEF Keeps
<1>23. OpenIn(s, X.open)
  BY <1>20, OpenNone
<1>24. Sits(s, Y)
  BY <1>9, <1>10, <1>11, <1>14, <1>20, <1>21, <1>22, <1>23, AdjustSits
<1> QED
  BY <1>6, <1>24, DoesGeo

LEMMA RecoveryFailsGeo ==
    ASSUME Inv, Geo, RecoveryFails PROVE Geo'
<1> DEFINE p == cs[Catcher]
           s == SubSeq(cs, 1, Catcher - 1)
           O == {u \in L.upvals : u.slot < p.top}
           U == CloseUpvals(L, p.top)
           w == [t |-> "throw", code |-> "mem"]
<1>1. /\ cs \in Seq(FrameT) /\ cs # << >> /\ L \in StateT
      /\ L.ci \in Seq(CIRec) /\ L.ci # << >> /\ Torn /\ Core(cs, L.ci) /\ Keeps(cs, L)
  BY Thrown, ThrownSits DEF RecoveryFails, Caught
<1>2. /\ Catcher \in 1..Len(cs) /\ Catcher - 1 \in 0..Len(cs) /\ Catcher - 1 < Len(cs)
      /\ (Catcher - 1) + 1 = Catcher
  BY <1>1, CatcherIs DEF RecoveryFails, Caught
<1>3. p.t = "pcall"
  BY DEF RecoveryFails, Caught
<1>4. PICK k \in 1..Len(L.ci), n \in Int : Lively(cs, SubSeq(L.ci, 1, k), n, L.baseccalls)
  BY <1>1 DEF Torn
<1>5. PICK j \in 1..Len(L.ci) :
         Lively(s, SubSeq(L.ci, 1, j), Count(cs, Catcher - 1), L.baseccalls)
  BY <1>1, <1>2, <1>4, CutLively
<1>6. /\ s \in Seq(FrameT) /\ Len(s) = Catcher - 1 /\ \A i \in 1..(Catcher - 1) : s[i] = cs[i]
  BY <1>1, <1>2, SeqFacts
<1>7. Based(s, L.ci)
  BY <1>5 DEF Based, Lively
<1>8. Core(s, L.ci)
  <2>1. Len(L.ci) \in 1..Len(L.ci) /\ L.ci = SubSeq(L.ci, 1, Len(L.ci))
    BY <1>1
  <2> QED
    BY <1>1, <1>2, <1>7, <2>1, CoreCut
<1>9. w \in FrameT /\ w.t = "throw"
  BY DEF FrameT
<1>10. L' = U /\ cs' = Append(s, w)
  BY DEF RecoveryFails, Ends, Result
<1>11. Closed(cs) => Closed(s)
  <2>1. Catcher = 1 => ~Closed(cs)
    BY <1>3 DEF Closed
  <2>2. ASSUME Catcher # 1 PROVE s # << >> /\ s[1] = cs[1]
    <3>1. 1 \in 1..(Catcher - 1) /\ Len(s) # 0
      BY <1>2, <1>6, <2>2
    <3> HIDE DEF s
    <3> QED
      BY <1>6, <3>1
  <2> QED
    BY <2>1, <2>2 DEF Closed
<1>12. U.ci = L.ci /\ U.upvals = O
  BY <1>1 DEF CloseUpvals, StateT
<1> HIDE DEF s, U, w
<1>13. Keeps(s, U)
  <2>1. O \subseteq L.upvals
    OBVIOUS
  <2> HIDE DEF O
  <2> QED
    BY <1>1, <1>11, <1>12, <2>1, OwnsFewer DEF Keeps
<1>14. CalledBy(s, w)
  BY <1>9 DEF CalledBy
<1>15. Core(Append(s, w), U.ci) /\ Keeps(Append(s, w), U)
  BY <1>1, <1>6, <1>8, <1>9, <1>12, <1>13, <1>14, CorePush, KeepsPush
<1>16. Append(s, w) # << >> /\ Last(Append(s, w)) = w
  BY <1>6, <1>9, SeqFacts, PushTwo DEF Last
<1>17. Sits(Append(s, w), U)
  BY <1>9, <1>15, <1>16 DEF Sits
<1> QED
  BY <1>10, <1>17, SitsGeo

LEMMA CaughtByResumeGeo ==
    ASSUME Inv, Geo, CaughtByResume PROVE Geo'
<1> DEFINE S == [L EXCEPT !.status = "dead", !.top = @ + 1, !.ccalls = @ - 1]
           K == [L.ci EXCEPT ![Len(L.ci)].top = S.top]
           U == [S EXCEPT !.ci[Len(S.ci)].top = S.top]
<1>1. At("throw") /\ Catchers # {} /\ cs[Catcher].t = "resume"
  BY DEF CaughtByResume, Caught
<1>2. /\ L \in StateT /\ L.ci # << >> /\ L.ci \in Seq(CIRec) /\ L.top \in Int
      /\ Keeps(cs, L)
  BY <1>1, Thrown, ThrownSits
<1>3. Catcher = 1
  BY <1>1, CatchesFirst
<1>4. Owns(L.upvals, L.ci)
  BY <1>1, <1>2, <1>3 DEF Keeps, Closed
<1>5. L' = U
  BY DEF CaughtByResume, Does, Ends, Result
<1>6. S.ci = L.ci /\ S.top \in Int /\ S.status = "dead" /\ S.upvals = L.upvals
  <2>1. L.top + 1 \in Int
    BY <1>2
  <2> QED
    BY <1>2, <2>1 DEF StateT
<1>7. U = [S EXCEPT !.ci = K]
  BY <1>6
<1>8. U.ci = K /\ U.status = "dead" /\ U.upvals = L.upvals
  BY <1>2, <1>7 DEF StateT
<1> HIDE DEF S, U
<1>9. /\ Len(K) = Len(L.ci)
      /\ \A i \in 1..Len(L.ci) : /\ K[i].base = L.ci[i].base /\ K[i].tail = L.ci[i].tail
                                 /\ K[i].kind = L.ci[i].kind
  <2> DEFINE m == Len(L.ci)
             k == [L.ci[m] EXCEPT !.top = S.top]
  <2>1. m \in Nat \ {0} /\ L.ci[m] \in CIRec
    BY <1>2
  <2>2. k.base = L.ci[m].base /\ k.tail = L.ci[m].tail /\ k.kind = L.ci[m].kind
    BY <2>1 DEF CIRec
  <2>3. K = [L.ci EXCEPT ![m] = k]
    OBVIOUS
  <2> HIDE DEF k
  <2>4. Len(K) = m
    BY <1>2, <2>3
  <2>5. \A i \in 1..m : K[i] = IF i = m THEN k ELSE L.ci[i]
    BY <1>2, <2>1, <2>3
  <2> QED
    BY <2>2, <2>4, <2>5
<1> HIDE DEF K
<1>10. Owns(L.upvals, K)
  BY <1>4, <1>9, OwnsSame
<1>11. Keeps(cs', L')
  BY <1>5, <1>8, <1>10 DEF Keeps
<1> QED
  BY <1>5, <1>8, <1>11, DeadGeo

\* Every activation begins at slot 1 or above it.
LEMMA PanicGeo ==
    ASSUME Inv, Geo, Panic PROVE Geo'
<1> DEFINE O == {u \in L.upvals : u.slot < 1}
<1>1. /\ L \in StateT /\ L.ci # << >> /\ L.ci \in Seq(CIRec) /\ Keeps(cs, L) /\ Nested(L.ci)
      /\ L.upvals \in SUBSET Upval
  BY Thrown, ThrownSits DEF Panic, Core, StateT
<1>2. L'.upvals = O /\ ended' # "no" /\ cs' = cs
  <2> DEFINE V == [CloseUpvals(L, 1) EXCEPT !.ci = <<@[1]>>, !.top = 2, !.ccalls = L.baseccalls,
                        !.errfunc = "none", !.status = "dead"]
  <2>1. L' = RestoreStackLimit(V) /\ ended' # "no" /\ cs' = cs
    BY DEF Panic
  <2>2. V.upvals = O
    BY <1>1 DEF CloseUpvals, StateT
  <2> HIDE DEF V, O
  <2>3. RestoreStackLimit(V).upvals = V.upvals
    BY DEF RestoreStackLimit
  <2> QED
    BY <2>1, <2>2, <2>3
<1>3. CASE Closed(cs)
  BY <1>2, <1>3, DeadGeo DEF Keeps
<1>4. CASE Owns(L.upvals, L.ci)
  <2>1. ASSUME NEW u \in O PROVE FALSE
    <3> DEFINE d == u.depth
    <3>1. u \in L.upvals /\ u.slot < 1
      OBVIOUS
    <3>2. d \in 1..Len(L.ci) /\ L.ci[d].base = u.slot
      BY <1>4, <3>1 DEF Owns
    <3> HIDE DEF d
    <3>3. L.ci[1].base = 1 /\ 1 \in 1..Len(L.ci)
      BY <1>1, <3>2 DEF Nested
    <3>4. L.ci[d].base \in Int /\ L.ci[d].func \in Int
      BY <1>1, <3>2, NestedTypes
    <3>5. d # 1 => L.ci[1].base <= L.ci[d].func /\ L.ci[d].func < L.ci[d].base
      BY <1>1, <3>2, <3>3 DEF Nested
    <3> QED
      BY <3>1, <3>2, <3>3, <3>4, <3>5
  <2>2. Owns(O, L'.ci)
    BY <2>1 DEF Owns
  <2> HIDE DEF O
  <2> QED
    BY <1>2, <2>2, DeadGeo DEF Keeps
<1> QED
  BY <1>1, <1>3, <1>4 DEF Keeps

LEMMA CloseEndsGeo ==
    ASSUME Inv, Geo, CloseEnds PROVE Geo'
<1>1. L' = L /\ cs' = cs /\ ended' # "no"
  BY DEF CloseEnds
<1>2. Keeps(cs, L)
  BY RunsSits DEF CloseEnds
<1> QED
  BY <1>1, <1>2, DeadGeo

\* Every round of lua_close starts from the base.
LEMMA ResetSits ==
    ASSUME NEW S \in StateT, S.ci # << >>, Nested(S.ci), NEW T, T.ci = <<S.ci[1]>>, T.top = 1
    PROVE  Sits(<<Frame("close")>>, T)
<1> DEFINE B == <<S.ci[1]>>
           s == <<Frame("close")>>
<1>1. S.ci \in Seq(CIRec) /\ 1 \in 1..Len(S.ci)
  BY DEF StateT
<1>2. Nested(B)
  <2>1. Len(B) = 1 /\ \A i \in 1..1 : B[i] = S.ci[1]
    OBVIOUS
  <2> HIDE DEF B
  <2>2. \A i, j \in 1..1 : ~(i < j)
    OBVIOUS
  <2> QED
    BY <1>1, <2>1, <2>2 DEF Nested
<1>3. B[Len(B)].base <= 1
  <2>1. S.ci[1].base = 1
    BY DEF Nested
  <2> QED
    BY <2>1
<1>4. s # << >> /\ s[1].t = "close" /\ Frame("close").t = "close"
  BY DEF Frame
<1>5. Keeps(s, T)
  BY <1>4 DEF Keeps, Closed
<1> QED
  BY <1>2, <1>3, <1>4, <1>5, FirstSits

LEMMA CaughtByCloseGeo ==
    ASSUME Inv, Geo, CaughtByClose PROVE Geo'
<1>1. L \in StateT /\ L.ci # << >> /\ Nested(L.ci)
  BY Thrown, ThrownSits DEF CaughtByClose, Caught, Core
<1>2. Reset(L).ci = <<L.ci[1]>> /\ Reset(L).top = 1
  BY <1>1 DEF Reset, StateT
<1>3. Does(Reset(L), <<Frame("close")>>)
  BY DEF CaughtByClose
<1>4. Sits(<<Frame("close")>>, Reset(L))
  BY <1>1, <1>2, ResetSits
<1> QED
  BY <1>3, <1>4, DoesGeo

LEMMA CloseGeo ==
    ASSUME Inv, Geo, Close PROVE Geo'
<1> DEFINE V == [Reset(CloseUpvals(L, 0)) EXCEPT !.errfunc = "none"]
<1>1. L \in StateT /\ L.ci # << >> /\ Nested(L.ci)
  BY InCSits DEF Close, InC, Ready, Core
<1>2. V.ci = <<L.ci[1]>> /\ V.top = 1
  BY <1>1 DEF Reset, CloseUpvals, StateT
<1>3. L' = V /\ cs' = <<Frame("close")>>
  BY DEF Close
<1> HIDE DEF V
<1>4. Sits(<<Frame("close")>>, V)
  BY <1>1, <1>2, ResetSits
<1> QED
  BY <1>3, <1>4, SitsGeo

LEMMA ResumeReturnsGeo ==
    ASSUME Inv, Geo, ResumeReturns PROVE Geo'
<1> DEFINE n == L.ccalls - 1
           S == [L EXCEPT !.ccalls = n]
<1>1. ended = "no" /\ cs # << >> /\ TopFrame.t = "resume" /\ Does(S, Pop)
  BY DEF ResumeReturns, At
<1>2. L \in StateT /\ cs \in Seq(FrameT) /\ L.status \in Status /\ L.ci # << >>
  BY DEF Inv, TypesInv, StateT
<1>3. L.status # "dead"
  BY <1>1 DEF Inv
<1>4. Sits(cs, L) /\ Last(cs).t # "throw"
  BY <1>1, <1>3, GeoSits DEF TopFrame, Last
<1>5. Len(cs) = 1
  <2>1. CASE L.status = "ok"
    <3>1. ~Throwing
      BY <1>1 DEF Throwing
    <3>2. Good(cs, L.ci, L.ccalls)
      BY <1>1, <2>1, <3>1 DEF Inv, Lively
    <3>3. Len(cs) \in 1..Len(cs)
      BY <1>1, <1>2
    <3> QED
      BY <1>1, <3>2, <3>3 DEF Good, Shape, TopFrame
  <2>2. CASE L.status = "yield"
    <3>1. cs = <<Frame("resume")>>
      BY <1>1, <2>2 DEF Inv, Asleep
    <3> QED
      BY <3>1
  <2> QED
    BY <1>2, <1>3, <2>1, <2>2 DEF Status
<1>6. Pop = << >> /\ ~Closed(cs)
  BY <1>1, <1>2, <1>5 DEF Pop, Closed, TopFrame
<1>7. S.ci = L.ci /\ S.upvals = L.upvals /\ S.top = L.top
  BY <1>2 DEF StateT
<1> HIDE DEF S
<1>8. Keeps(<< >>, S)
  BY <1>4, <1>6, <1>7 DEF Sits, Keeps
<1>9. Nested(S.ci) /\ S.ci[Len(S.ci)].base <= S.top
  BY <1>4, <1>7 DEF Sits, Core, Fit, Over
<1>10. Sits(<< >>, S)
  BY <1>8, <1>9, FirstSits
<1> QED
  BY <1>1, <1>6, <1>10, DoesGeo

LEMMA YieldGeo ==
    ASSUME Inv, Geo, Yield PROVE Geo'
<1> DEFINE S == [L EXCEPT !.status = "yield"]
<1>1. /\ Ready /\ cs # << >> /\ Last(cs).t = "cfun" /\ Core(cs, L.ci) /\ Keeps(cs, L)
      /\ Fit(cs, L.ci, L.top, L.open) /\ Raises(cs, L)
  BY RunsSits DEF Yield
<1>2. /\ cs \in Seq(FrameT) /\ L \in StateT /\ L.ccalls \in Int /\ L.baseccalls \in Int
  BY <1>1 DEF Ready
<1>3. CASE L.ccalls > L.baseccalls
  <2> DEFINE r == Result(L, "run", 0)
  <2>1. Ends(r, cs, cs, FALSE) /\ r.S = L /\ r.res = "run"
    BY <1>3 DEF Yield, Result
  <2> HIDE DEF r
  <2> QED
    BY <1>1, <1>2, <2>1, EndsGeo
<1>4. CASE ~(L.ccalls > L.baseccalls)
  <2>1. Len(cs) = 3 /\ cs[1] = Frame("resume") /\ cs[2].t = "exec"
    <3>1. L.ccalls <= L.baseccalls
      BY <1>2, <1>4
    <3> QED
      BY <1>1, <3>1, YieldShape
  <2>2. Does(S, Unwound)
    BY <1>4 DEF Yield
  <2>3. Unwound = SubSeq(cs, 1, 1)
    BY <2>1 DEF Unwound
  <2>4. SubSeq(cs, 1, 1) = <<Frame("resume")>>
    BY <1>2, <2>1, FirstFrame
  <2>5. S.ci = L.ci /\ S.top = L.top /\ S.upvals = L.upvals
    BY <1>2 DEF StateT
  <2> HIDE DEF S
  <2>6. Frame("resume").t = "resume"
    BY DEF Frame
  <2>7. Keeps(<<Frame("resume")>>, S)
    BY <1>1, <2>1, <2>5, <2>6 DEF Keeps, Closed
  <2>8. Nested(S.ci) /\ S.ci[Len(S.ci)].base <= S.top
    BY <1>1, <2>5 DEF Core, Fit, Over
  <2>9. Sits(<<Frame("resume")>>, S)
    BY <2>6, <2>7, <2>8, FirstSits
  <2> QED
    BY <2>2, <2>3, <2>4, <2>9, DoesGeo
<1> QED
  BY <1>3, <1>4

LEMMA ShrinkGeo ==
    ASSUME Inv, Geo, Shrink PROVE Geo'
<1>1. PICK x, y : Does([L EXCEPT !.sizeci = x, !.size = y], cs)
  BY DEF Shrink
<1> DEFINE S == [L EXCEPT !.sizeci = x, !.size = y]
<1>2. L \in StateT /\ ended = "no"
  BY DEF Inv, TypesInv, Shrink, Idle, At
<1>3. /\ S.ci = L.ci /\ S.top = L.top /\ S.open = L.open /\ S.upvals = L.upvals
      /\ S.status = L.status
  BY <1>2 DEF StateT
<1>4. L' = S /\ cs' = cs
  BY <1>1 DEF Does, Ends, Result
<1> HIDE DEF S
<1>5. CASE L.status = "dead"
  <2>1. Keeps(cs, L)
    BY DEF Geo, Keeps, Closed, Closing
  <2>2. Keeps(cs', L')
    BY <1>3, <1>4, <2>1 DEF Keeps
  <2> QED
    BY <1>3, <1>4, <1>5, <2>2, DeadGeo
<1>6. CASE L.status # "dead"
  <2>1. Sits(cs, L)
    BY <1>2, <1>6, GeoSits
  <2>2. Sits(cs', L')
    BY <1>3, <1>4, <2>1, SitsAs
  <2> QED
    BY <2>2, SitsGeo
<1> QED
  BY <1>5, <1>6

LEMMA StartGeo ==
    ASSUME Inv, Geo, NEW c \in Callees, NEW oom, Start(c, oom) PROVE Geo'
<1> DEFINE S == [L EXCEPT !.top = @ + 2, !.ccalls = @ + 1, !.baseccalls = L.ccalls + 1]
           here == Append(cs, Frame("resume"))
           f == [t |-> "exec", n |-> 1]
           r == Precall(S, L.top, c, MULTRET, oom)
<1>1. Ready /\ cs = << >> /\ c.kind = "Lua" /\ L.status # "dead" /\ Idle
  BY IdleReady DEF Start, Idle
<1>2. /\ L \in StateT /\ L.ci # << >> /\ L.ci \in Seq(CIRec) /\ L.top \in Int /\ L.ccalls = 0
      /\ Lively(cs, L.ci, L.ccalls, L.baseccalls)
  BY <1>1, IdleCounts DEF Ready
<1>3. Owns(L.upvals, L.ci) /\ L.ci[Len(L.ci)].base <= L.top /\ Nested(L.ci)
  BY <1>1, IdleSits
<1>4. Ends(r, Append(here, f), here, oom)
  BY DEF Start
<1>5. Lively(<< >>, L.ci, 0, 1)
  BY <1>1, <1>2 DEF Lively
<1>6. here = <<Frame("resume")>> /\ Lively(here, L.ci, 1, 1) /\ here \in Seq(FrameT)
  BY <1>1, <1>2, <1>5, ResumeLively
<1>7. S \in StateT /\ S.ci = L.ci /\ S.top = L.top + 2 /\ S.open = L.open /\ S.upvals = L.upvals
  <2>1. L.top + 2 \in Int /\ L.ccalls + 1 = 1 /\ 1 \in Int
    BY <1>2
  <2> QED
    BY <1>2, <2>1 DEF StateT
<1>8. f \in FrameT /\ f.t = "exec" /\ Frame("resume").t = "resume"
  BY DEF FrameT, Frame
<1>9. Len(here) = 1 /\ \A i \in 1..1 : here[i].t = "resume"
  BY <1>6, <1>8
<1> HIDE DEF here, f, S
<1>10. Core(here, L.ci) /\ OpenIn(here, S.open) /\ Keeps(here, S) /\ Based(here, L.ci)
  <2>1. Core(here, L.ci)
    BY <1>3, <1>6, <1>8, CoreFirst
  <2>2. OpenIn(here, S.open)
    BY <1>9 DEF OpenIn
  <2>3. Keeps(here, S)
    BY <1>3, <1>7 DEF Keeps
  <2>4. Based(here, L.ci)
    BY <1>2, <1>6, GoodBased DEF Lively
  <2> QED
    BY <2>1, <2>2, <2>3, <2>4
<1>11. Over(here, L.ci, L.top)
  BY <1>3, <1>9 DEF Over, Caps
<1>12. L.top < S.top /\ S.top \in Int
  BY <1>2, <1>7
<1>13. Raises(here, S)
  <2>1. Over(here, L.ci, S.top)
    <3>1. L.top <= S.top
      BY <1>2, <1>12
    <3> QED
      BY <1>2, <1>6, <1>11, <1>12, <3>1, OverUp
  <2> QED
    BY <1>7, <1>10, <2>1 DEF Raises
<1>14. Lands(S, L.top, c, MULTRET, r)
  <2>1. MULTRET \in Int /\ MULTRET >= MULTRET
    BY DEF MULTRET
  <2> QED
    BY <1>2, <1>7, <1>12, <2>1, PrecallLands
<1> HIDE DEF r
<1>15. CASE r.res \in {"run", "err", "mem"} /\ StaysAbove(S, L.top, r.S)
  <2>1. Raises(here, r.S) /\ r.S \in StateT
    BY <1>2, <1>6, <1>7, <1>11, <1>13, <1>15, RaisesAbove
  <2> QED
    BY <1>4, <1>6, <1>15, <2>1, EndsGeo
<1>16. ASSUME NEW k \in CIRec, r.res = c.kind, c.kind \in {"Lua", "C"},
              r.S.ci = Append(S.ci, k), Fresh(k), k.func = L.top,
              k.base <= r.S.top, r.S.open = IF c.kind = "Lua" THEN None ELSE S.open,
              r.S \in StateT, r.S.upvals = S.upvals
       PROVE  Geo'
  <2>1. Core(here, r.S.ci) /\ Keeps(here, r.S) /\ Over(here, r.S.ci, r.S.top)
    BY <1>2, <1>6, <1>7, <1>10, <1>11, <1>16, CallCore
  <2>2. r.S.open = None /\ OpenIn(here, r.S.open)
    BY <1>1, <1>16, OpenNone
  <2>3. Sits(Append(here, f), r.S)
    <3>1. ~(Len(here) > 1) /\ here \in Seq(FrameT) /\ f.t = "exec" /\ f \in FrameT
      BY <1>6, <1>8, <1>9
    <3> QED
      BY <1>16, <2>1, <2>2, <3>1, PushSits
  <2> QED
    BY <1>4, <1>16, <2>3, EndsGeo
<1> QED
  BY <1>14, <1>15, <1>16, Zenon DEF Lands

LEMMA ResumeGeo ==
    ASSUME Inv, Geo, Resume PROVE Geo'
<1> DEFINE T == [L EXCEPT !.top = @ + 1]
           P == Poscall(T, 1)
           A == AfterCall(P, CI(L))
           S == [A EXCEPT !.ccalls = @ + 1, !.baseccalls = L.ccalls + 1, !.status = "ok"]
           K == SubSeq(L.ci, 1, Len(L.ci) - 1)
           f == [t |-> "exec", n |-> Len(S.ci) - 1]
           s == <<Frame("resume"), f>>
<1>1. ended = "no" /\ cs = << >> /\ L.status = "yield" /\ Does(S, s) /\ Idle
  BY DEF Resume, Idle
<1>2. L \in StateT /\ L.ci # << >> /\ Asleep
  BY <1>1 DEF Inv, TypesInv
<1>3. L.ci \in Seq(CIRec) /\ L.top \in Int /\ CI(L) \in CIRec /\ CI(L).func \in Int
  BY <1>2, CIType DEF StateT, CIRec
<1>4. Len(L.ci) \in Nat /\ Len(L.ci) > 2 /\ L.ci[Len(L.ci)].kind = "C"
  BY <1>2, <1>3 DEF Asleep
<1>5. Owns(L.upvals, L.ci) /\ Nested(L.ci)
  BY <1>1, IdleSits
<1>6. T \in StateT /\ T.ci = L.ci /\ T.upvals = L.upvals /\ CI(T) = CI(L)
  <2>1. PICK z \in Int : z = L.top + 1
    BY <1>3
  <2>2. T = [L EXCEPT !.top = z]
    BY <2>1
  <2> HIDE DEF T
  <2>3. T \in StateT /\ T.ci = L.ci /\ T.upvals = L.upvals
    BY <1>2, <2>1, <2>2 DEF StateT
  <2> QED
    BY <2>3 DEF CI
<1> HIDE DEF T
<1>7. /\ K \in Seq(CIRec) /\ Len(K) = Len(L.ci) - 1 /\ K # << >>
      /\ K[Len(K)] = L.ci[Len(L.ci) - 1] /\ Nested(K)
  <2>1. Len(L.ci) - 1 \in 0..Len(L.ci) /\ Len(L.ci) - 1 \in 1..Len(L.ci)
    BY <1>4
  <2>2. Nested(K)
    BY <1>3, <1>5, <2>1, NestedCut
  <2>3. K \in Seq(CIRec) /\ Len(K) = Len(L.ci) - 1 /\ K[Len(L.ci) - 1] = L.ci[Len(L.ci) - 1]
    BY <1>3, <2>1, SeqFacts
  <2> HIDE DEF K
  <2> QED
    BY <2>1, <2>2, <2>3
<1>8. CI(L).nres >= MULTRET /\ L.ci[Len(L.ci) - 1].base <= CI(L).func
  <2>1. Len(L.ci) \in 1..Len(L.ci) /\ Len(L.ci) - 1 \in 1..Len(L.ci) /\ Len(L.ci) - 1 < Len(L.ci)
    BY <1>4
  <2> QED
    BY <1>5, <2>1 DEF Nested, CI
<1>9. P.ci = K /\ P.upvals = L.upvals /\ P \in StateT /\ CI(L).func <= P.top
  <2>1. Len(T.ci) > 1 /\ 1 \in Nat
    BY <1>4, <1>6
  <2> QED
    BY <1>6, <1>8, <2>1, PoscallTop
<1> HIDE DEF K, P
<1>10. Frame("resume").t = "resume" /\ Frame("resume") \in FrameT /\ f.t = "exec"
  BY DEF Frame, FrameT
<1>11. A \in StateT /\ A.ci = K
  <2>1. Quiet(P, A)
    BY <1>3, <1>7, <1>9, AfterCallQuiet
  <2> HIDE DEF A
  <2> QED
    BY <1>9, <2>1 DEF Quiet
<1> HIDE DEF A
<1>12. /\ S.ci = A.ci /\ S.top = A.top /\ S.open = A.open /\ S.upvals = A.upvals
       /\ S.status = "ok"
  BY <1>11 DEF StateT
<1> HIDE DEF S
<1>13. L' = S /\ cs' = s
  BY <1>1 DEF Does, Ends, Result
<1>14. s = Append(<<Frame("resume")>>, f) /\ Len(s) = 2 /\ s[1] = Frame("resume") /\ s[2] = f
  OBVIOUS
<1> HIDE DEF f, s
<1>15. s \in Seq(FrameT) /\ s # << >> /\ Last(s) = f
  <2>1. Inv'
    BY ResumeStep
  <2> QED
    BY <1>13, <1>14, <2>1 DEF Inv, TypesInv, Last
<1>16. f \in FrameT
  <2>1. 2 \in 1..Len(s)
    BY <1>14
  <2> QED
    BY <1>14, <1>15, <2>1, SeqElem
<1>17. Good(s, K, L'.ccalls)
  <2>1. Inv'
    BY ResumeStep
  <2>2. ended' = "no" /\ L'.status = "ok" /\ ~Throwing'
    BY <1>1, <1>10, <1>12, <1>13, <1>15 DEF Does, Ends, Throwing, TopFrame, Last
  <2>3. Lively(cs', L'.ci, L'.ccalls, L'.baseccalls)
    BY <2>1, <2>2, Zenon DEF Inv, Lively, Good, Shape, Saved, Agree, AgreeBy
  <2> QED
    BY <1>11, <1>12, <1>13, <2>3 DEF Lively
<1>18. Core(s, K)
  <2> DEFINE R == <<Frame("resume")>>
  <2>1. Core(R, K) /\ R \in Seq(FrameT) /\ Len(R) = 1
    BY <1>7, <1>10, CoreFirst
  <2>2. CalledBy(R, f)
    BY <1>10 DEF CalledBy
  <2> HIDE DEF R
  <2>3. Core(Append(R, f), K)
    <3>1. ~(Len(R) > 1) /\ f.t # "pcall"
      BY <1>10, <2>1
    <3> QED
      BY <1>7, <1>16, <2>1, <2>2, <3>1, CorePush
  <2> QED
    BY <1>14, <2>3 DEF R
<1>19. Owns(P.upvals, P.ci)
  BY <1>2, <1>3, <1>4, <1>5, <1>9, OwnsPop DEF K
<1>20. Over(s, K, P.top)
  <2>1. Caps(s, P.top)
    <3>1. \A i \in 1..Len(s) : s[i].t # "pcall"
      BY <1>10, <1>14
    <3> QED
      BY <3>1 DEF Caps
  <2>2. K[Len(K)].base <= P.top
    <3>1. L.ci[Len(L.ci) - 1].base \in Int
      <4>1. Len(L.ci) - 1 \in 1..Len(L.ci)
        BY <1>4
      <4> QED
        BY <1>3, <4>1, NestedTypes
    <3>2. P.top \in Int
      BY <1>9 DEF StateT
    <3> QED
      BY <1>3, <1>7, <1>8, <1>9, <3>1, <3>2
  <2> QED
    BY <2>1, <2>2 DEF Over
<1>21. Sits(s, A)
  <2>1. Keeps(s, P)
    BY <1>19 DEF Keeps
  <2>2. Sits(s, AfterCall(P, CI(L)))
    BY <1>3, <1>7, <1>9, <1>10, <1>15, <1>17, <1>18, <1>20, <2>1, BackSits
  <2> QED
    BY <2>2 DEF A
<1>22. Sits(s, S)
  BY <1>12, <1>21, SitsAs
<1> QED
  BY <1>1, <1>22, DoesGeo

\* A new state.
LEMMA InitGeo ==
    ASSUME Init PROVE Geo
<1> DEFINE c == [kind |-> "base", func |-> 0, base |-> 1, top |-> 1 + MinStack,
                 nres |-> 0, tail |-> 0]
           K == <<c>>
<1>1. L = NewState /\ cs = << >> /\ ended = "no"
  BY DEF Init
<1>2. c.func = 0 /\ c.base = 1 /\ c.nres = 0 /\ c.kind = "base"
  OBVIOUS
<1>3. L.ci = K /\ L.top = 1 /\ L.upvals = {}
  BY <1>1 DEF NewState
<1> HIDE DEF c
<1>4. Len(K) = 1 /\ \A i \in 1..1 : K[i] = c
  OBVIOUS
<1> HIDE DEF K
<1>5. Nested(K)
  <2>1. \A i, j \in 1..1 : ~(i < j)
    OBVIOUS
  <2> QED
    BY <1>2, <1>4, <2>1 DEF Nested, MULTRET
<1>6. K[Len(K)].base <= 1
  BY <1>2, <1>4
<1>7. Keeps(cs, L)
  BY <1>3 DEF Keeps, Owns
<1>8. Sits(cs, L)
  BY <1>1, <1>3, <1>5, <1>6, <1>7, FirstSits
<1> QED
  BY <1>1, <1>8 DEF Sits, Geo, Keeps, Closed, Closing, Throwing

\* Every step keeps the activations in order and the upvalues in them.
LEMMA StepGeo ==
    ASSUME Inv, Geo, [Next]_vars PROVE Geo'
<1>1. CASE UNCHANGED vars
  <2>1. L' = L /\ cs' = cs /\ ended' = ended
    BY <1>1 DEF vars
  <2>2. Keeps(cs, L)
    BY DEF Geo, Keeps, Closed, Closing
  <2>3. CASE ended = "no" /\ L.status # "dead"
    BY <2>1, <2>3, GeoSits, SitsGeo
  <2>4. CASE ~(ended = "no" /\ L.status # "dead")
    BY <2>1, <2>2, <2>4, DeadGeo
  <2> QED
    BY <2>3, <2>4
<1>2. ASSUME NEW oom \in BOOLEAN, NEW c \in Callees,
             Enter(c, oom) \/ OpTailCall(c, oom) \/ Start(c, oom)
      PROVE  Geo'
  BY <1>2, EnterGeo, OpTailCallGeo, StartGeo
<1>3. ASSUME NEW oom \in BOOLEAN, NEW c \in Callees, NEW nres \in {1, MULTRET},
             OpCall(c, nres, oom)
      PROVE  Geo'
  BY <1>3, OpCallGeo
<1>4. ASSUME NEW oom \in BOOLEAN, OpVararg(oom) \/ RunError(oom) \/ ApiCheckStack(MinStack, oom)
      PROVE  Geo'
  BY <1>4, OpVarargGeo, RunErrorGeo, ApiCheckStackGeo
<1>5. ASSUME NEW oom \in BOOLEAN, NEW n \in 2..4, CallTM(n, oom)
      PROVE  Geo'
  BY <1>5, CallTMGeo
<1>6. CASE CallReturns \/ TMReturns \/ PcallReturns \/ HandlerReturns \/ ResumeReturns
  BY <1>6, CallReturnsGeo, TMReturnsGeo, PcallReturnsGeo, HandlerReturnsGeo, ResumeReturnsGeo
<1>7. CASE OpReturn \/ OpClosure \/ OpError \/ Call(1)
  BY <1>7, OpReturnGeo, OpClosureGeo, OpErrorGeo, CallGeo
<1>8. ASSUME NEW h \in Handlers, Pcall(IF h = "none" THEN MULTRET ELSE 1, h)
      PROVE  Geo'
  <2> DEFINE nres == IF h = "none" THEN MULTRET ELSE 1
  <2>1. nres \in Int /\ nres >= MULTRET /\ Pcall(nres, h)
    BY <1>8 DEF MULTRET
  <2> HIDE DEF nres
  <2> QED
    BY <2>1, PcallGeo
<1>9. CASE SetTop(0) \/ Error \/ Return
  BY <1>9, SetTopGeo, ErrorGeo, ReturnGeo
<1>10. CASE CaughtByPcall \/ RecoveryFails \/ CaughtByResume \/ Panic
  BY <1>10, CaughtByPcallGeo, RecoveryFailsGeo, CaughtByResumeGeo, PanicGeo
<1>11. CASE Resume \/ ResumeRunning \/ Yield
  BY <1>11, ResumeGeo, ResumeRunningGeo, YieldGeo
<1>12. CASE Shrink \/ Close \/ CloseFinalizes \/ CaughtByClose \/ CloseEnds
  BY <1>12, ShrinkGeo, CloseGeo, CloseFinalizesGeo, CaughtByCloseGeo, CloseEndsGeo
<1> QED
  BY <1>1, <1>2, <1>3, <1>4, <1>5, <1>6, <1>7, <1>8, <1>9, <1>10, <1>11, <1>12 DEF Next

\* Every open upvalue is the first register of the activation that created it,
\* which is still there: luaF_close, called by OP_RETURN, OP_TAILCALL and
\* luaD_pcall with a stack level only, closes exactly the upvalues of the
\* activations that end, through calls, tail calls, errors and coroutines.
THEOREM UpvalsAlwaysOwned == ~Reused /\ Spec => []UpvalsOwned
<1> SUFFICES ASSUME ~Reused PROVE Spec => []UpvalsOwned
  OBVIOUS
<1>1. Init => Inv /\ Geo
  BY InitInv, InitGeo
<1>2. Inv /\ Geo /\ [Next]_vars => Inv' /\ Geo'
  BY StepInv, StepGeo
<1>3. Inv /\ Geo => UpvalsOwned
  <2> SUFFICES ASSUME Inv, Geo, ~Closing, NEW u \in L.upvals
               PROVE  /\ u.depth <= Len(L.ci) /\ L.ci[u.depth].base = u.slot
                      /\ L.ci[u.depth].tail = u.tail
    BY DEF UpvalsOwned
  <2>1. Len(L.ci) \in Nat
    BY DEF Inv, TypesInv, StateT
  <2>2. u.depth \in 1..Len(L.ci) /\ L.ci[u.depth].base = u.slot /\ L.ci[u.depth].tail = u.tail
    BY DEF Geo, Owns
  <2> QED
    BY <2>1, <2>2
<1> QED
  BY <1>1, <1>2, <1>3, PTL DEF Spec
=============================================================================
