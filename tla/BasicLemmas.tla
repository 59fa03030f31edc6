---------------------------- MODULE BasicLemmas -----------------------------
(***************************************************************************)
(* What the proofs about lists and tables need of numbers, of functions    *)
(* that are defined by recursion on numbers, of sets of numbers in         *)
(* ascending order, and of sequences that are put one behind the other.    *)
(***************************************************************************)
EXTENDS AscendingOrder, Sequences, SequencesExt, FiniteSetTheorems, WellFoundedInduction, TLAPS

-----------------------------------------------------------------------------
(* Induction and recursion.                                                *)

\* A set of numbers has a least one.
LEMMA LeastOf ==
    ASSUME NEW T, T \subseteq Nat, T # {}
    PROVE  \E n \in T : \A m \in T : n <= m
<1>1. T \subseteq Nat /\ T # {}
  OBVIOUS
<1>2. OpToRel(<, Nat) = {ss \in Nat \X Nat : ss[1] < ss[2]}
  BY Zenon DEF OpToRel
<1>3. PICK n \in T :
             \A m \in T : ~(<<m, n>> \in {ss \in Nat \X Nat : ss[1] < ss[2]})
  BY <1>1, <1>2, NatLessThanWellFounded, WFMin, Zenon
<1>4. ASSUME NEW m \in T PROVE n <= m
  <2>1. m \in Nat /\ n \in Nat
    BY <1>1
  <2>2. <<m, n>> \in Nat \X Nat /\ <<m, n>>[1] = m /\ <<m, n>>[2] = n
    BY <2>1
  <2>3. ~(m < n)
    BY <1>3, <2>2, Zenon
  <2> QED
    BY <2>1, <2>3
<1> QED
  BY <1>4

\* Induction, with the claim as the set of numbers it holds for.
LEMMA Induction ==
    ASSUME NEW S, 0 \in S, \A n \in Nat : n \in S => n + 1 \in S
    PROVE  Nat \subseteq S
<1> SUFFICES ASSUME Nat \ S # {} PROVE FALSE
  OBVIOUS
<1>1. PICK n \in Nat \ S : \A m \in Nat \ S : n <= m
  BY LeastOf
<1>2. n # 0 /\ n - 1 \in Nat
  BY <1>1
<1>3. n - 1 \in S
  BY <1>1, <1>2
<1>4. (n - 1) + 1 = n
  BY <1>1
<1> QED
  BY <1>2, <1>3, <1>4

(***************************************************************************)
(* A function defined by recursion on the numbers exists.                  *)
(***************************************************************************)
Approx(V, a, g, n) ==
    {h \in [0..n -> V] : h[0] = a /\ \A i \in 0..(n-1) : h[i + 1] = g[<<i, h[i]>>]}

LEMMA ApproxUnique ==
    ASSUME NEW V, NEW a, NEW g, NEW n \in Nat, NEW m \in Nat,
           NEW h \in Approx(V, a, g, n), NEW k \in Approx(V, a, g, m)
    PROVE  \A i \in 0..n : i <= m => h[i] = k[i]
<1> DEFINE S == {i \in Nat : i <= n /\ i <= m => h[i] = k[i]}
<1>1. 0 \in S
  BY DEF Approx
<1>2. ASSUME NEW i \in Nat, i \in S PROVE i + 1 \in S
  <2> SUFFICES ASSUME i + 1 <= n, i + 1 <= m PROVE h[i + 1] = k[i + 1]
    OBVIOUS
  <2>1. i \in 0..(n-1) /\ i \in 0..(m-1)
    OBVIOUS
  <2>2. h[i] = k[i]
    BY <1>2
  <2>3. h[i + 1] = g[<<i, h[i]>>] /\ k[i + 1] = g[<<i, k[i]>>]
    BY <2>1 DEF Approx
  <2> QED
    BY <2>2, <2>3
<1> HIDE DEF S
<1>3. Nat \subseteq S
  BY <1>1, <1>2, Induction
<1> QED
  BY <1>3 DEF S

LEMMA ApproxExists ==
    ASSUME NEW V, NEW a \in V, NEW g \in [Nat \X V -> V], NEW n \in Nat
    PROVE  Approx(V, a, g, n) # {}
<1> DEFINE S == {i \in Nat : Approx(V, a, g, i) # {}}
<1>1. 0 \in S
  <2>1. [i \in 0..0 |-> a] \in Approx(V, a, g, 0)
    BY DEF Approx
  <2> QED
    BY <2>1
<1>2. ASSUME NEW i \in Nat, i \in S PROVE i + 1 \in S
  <2>1. PICK h \in Approx(V, a, g, i) : TRUE
    BY <1>2
  <2>a. h \in [0..i -> V] /\ h[0] = a /\ \A j \in 0..(i-1) : h[j + 1] = g[<<j, h[j]>>]
    BY <2>1 DEF Approx
  <2> DEFINE k == [j \in 0..(i + 1) |-> IF j = i + 1 THEN g[<<i, h[i]>>] ELSE h[j]]
  <2>2. g[<<i, h[i]>>] \in V
    BY <2>a
  <2>3. k \in [0..(i + 1) -> V]
    BY <2>a, <2>2
  <2>4. k[0] = a
    BY <2>a
  <2>5. ASSUME NEW j \in 0..i PROVE k[j + 1] = g[<<j, k[j]>>]
    <3>1. CASE j = i
      <4>1. k[j] = h[i] /\ k[j + 1] = g[<<i, h[i]>>]
        BY <3>1
      <4> QED
        BY <3>1, <4>1
    <3>2. CASE j # i
      <4>1. j \in 0..(i-1) /\ j + 1 # i + 1 /\ j + 1 \in 0..(i+1) /\ j # i + 1 /\ j \in 0..(i+1)
        BY <3>2
      <4> QED
        BY <2>a, <4>1
    <3> QED
      BY <3>1, <3>2
  <2>6. (i + 1) - 1 = i
    OBVIOUS
  <2>7. k \in Approx(V, a, g, i + 1)
    BY <2>3, <2>4, <2>5, <2>6 DEF Approx
  <2> QED
    BY <2>7
<1> HIDE DEF S
<1>3. Nat \subseteq S
  BY <1>1, <1>2, Induction
<1> QED
  BY <1>3 DEF S

Recurs(f, a, g) == f[0] = a /\ \A n \in Nat : f[n + 1] = g[<<n, f[n]>>]

LEMMA Recursion ==
    ASSUME NEW V, NEW a \in V, NEW g \in [Nat \X V -> V]
    PROVE  \E f \in [Nat -> V] : Recurs(f, a, g)
<1> DEFINE part(n) == CHOOSE h \in Approx(V, a, g, n) : TRUE
           f == [n \in Nat |-> part(n)[n]]
<1>1. ASSUME NEW n \in Nat PROVE part(n) \in Approx(V, a, g, n)
  BY ApproxExists
<1> HIDE DEF part
<1>2. f \in [Nat -> V]
  <2>1. ASSUME NEW n \in Nat PROVE part(n)[n] \in V
    BY <1>1 DEF Approx
  <2> QED
    BY <2>1
<1>3. f[0] = a
  <2>1. part(0)[0] = a
    BY <1>1 DEF Approx
  <2> QED
    BY <2>1
<1>4. ASSUME NEW n \in Nat PROVE f[n + 1] = g[<<n, f[n]>>]
  <2>1. part(n) \in Approx(V, a, g, n) /\ part(n + 1) \in Approx(V, a, g, n + 1)
    BY <1>1
  <2>2. part(n)[n] = part(n + 1)[n]
    BY <2>1, ApproxUnique
  <2>3. part(n + 1)[n + 1] = g[<<n, part(n + 1)[n]>>]
    BY <2>1 DEF Approx
  <2> QED
    BY <2>2, <2>3
<1>5. Recurs(f, a, g)
  BY <1>3, <1>4 DEF Recurs
<1> HIDE DEF f
<1> QED
  BY <1>2, <1>5

-----------------------------------------------------------------------------
(* Arithmetic.                                                             *)

LEMMA DivMod ==
    ASSUME NEW x \in Int, NEW d \in Nat \ {0}
    PROVE  x % d \in 0..(d - 1) /\ x \div d \in Int /\ x = (d * (x \div d)) + (x % d)
OBVIOUS

LEMMA Multiple ==
    ASSUME NEW d \in Nat \ {0}, NEW q \in Int
    PROVE  (d * q) % d = 0
<1>1. d * q \in Int
  OBVIOUS
<1> QED
  BY <1>1

-----------------------------------------------------------------------------
(* Sequences.                                                              *)

\* A function on 1..n is a sequence.
LEMMA SequenceOfFunction ==
    ASSUME NEW n \in Nat, NEW s, s = [k \in 1..n |-> s[k]]
    PROVE  /\ s \in Seq({s[k] : k \in 1..n}) /\ Len(s) = n /\ DOMAIN s = 1..n
           /\ s = <<>> <=> n = 0
<1>1. s \in [1..n -> {s[k] : k \in 1..n}]
  BY Zenon
<1>2. s \in Seq({s[k] : k \in 1..n}) /\ Len(s) = n /\ DOMAIN s = 1..n
  BY <1>1
<1>3. s = <<>> <=> n = 0
  BY <1>2
<1> QED
  BY <1>2, <1>3

\* A number of a finite set is in the list behind those that are less.
Rank(S, i) == Cardinality({j \in S : j < i}) + 1

LEMMA Ranked ==
    ASSUME NEW S \in SUBSET Nat, IsFiniteSet(S)
    PROVE  /\ Cardinality(S) \in Nat
           /\ DOMAIN Ascending(S) = 1..Cardinality(S)
           /\ \A k \in 1..Cardinality(S) :
                Ascending(S)[k] \in S /\ Rank(S, Ascending(S)[k]) = k
           /\ \A i \in S : Rank(S, i) \in 1..Cardinality(S) /\ Ascending(S)[Rank(S, i)] = i
<1> DEFINE N == Cardinality(S)
           below(i) == {j \in S : j < i}
           rank == [i \in S |-> Cardinality(below(i)) + 1]
<1>1. N \in Nat
  BY FS_CardinalityType
<1>2. ASSUME NEW i \in S
      PROVE  /\ IsFiniteSet(below(i)) /\ Cardinality(below(i)) \in Nat
             /\ Cardinality(below(i)) < N
  <2>1. below(i) \in SUBSET S
    OBVIOUS
  <2>2. IsFiniteSet(below(i)) /\ Cardinality(below(i)) <= N
    BY <2>1, FS_Subset
  <2>3. Cardinality(below(i)) \in Nat
    BY <2>2, FS_CardinalityType
  <2>4. Cardinality(below(i)) # N
    <3>1. below(i) # S
      OBVIOUS
    <3> QED
      BY <2>1, <3>1, FS_Subset
  <2> QED
    BY <1>1, <2>2, <2>3, <2>4
<1>3. ASSUME NEW i \in S, NEW j \in S, i < j
      PROVE  Cardinality(below(i)) < Cardinality(below(j))
  <2>1. below(i) \cup {i} \in SUBSET below(j)
    <3>1. \A k \in S : k \in Nat
      OBVIOUS
    <3>2. \A k \in S : k < i => k < j
      BY <1>3, <3>1
    <3> QED
      BY <1>3, <3>2
  <2>2. i \notin below(i)
    OBVIOUS
  <2>3. Cardinality(below(i) \cup {i}) = Cardinality(below(i)) + 1
    BY <1>2, <2>2, FS_AddElement
  <2>4. Cardinality(below(i) \cup {i}) <= Cardinality(below(j))
    BY <1>2, <2>1, FS_Subset
  <2> QED
    BY <1>2, <2>3, <2>4
<1>4. rank \in [S -> 1..N]
  BY <1>1, <1>2
<1>5. rank \in Injection(S, 1..N)
  <2>1. ASSUME NEW i \in S, NEW j \in S, rank[i] = rank[j] PROVE i = j
    <3>1. Cardinality(below(i)) = Cardinality(below(j))
      BY <1>2, <2>1
    <3>2. ~(i < j) /\ ~(j < i)
      BY <1>2, <1>3, <3>1
    <3> QED
      BY <3>2
  <2> QED
    BY <1>4, <2>1 DEF Injection, IsInjective
<1>6. rank \in Surjection(S, 1..N)
  <2>1. IsFiniteSet(1..N) /\ Cardinality(1..N) = N
    BY <1>1, FS_Interval
  <2> QED
    BY <1>5, <2>1, FS_Injection
<1>7. ASSUME NEW k \in 1..N
      PROVE  Ascending(S)[k] \in S /\ rank[Ascending(S)[k]] = k
  <2>1. PICK i \in S : rank[i] = k
    BY <1>6 DEF Surjection
  <2>2. Cardinality(below(i)) = k - 1
    BY <1>2, <2>1
  <2>3. /\ Ascending(S)[k] \in S
        /\ Cardinality(below(Ascending(S)[k])) = k - 1
    BY <2>2 DEF Ascending
  <2> QED
    BY <2>3
<1>8. ASSUME NEW i \in S PROVE Ascending(S)[rank[i]] = i
  <2>1. rank[i] \in 1..N
    BY <1>4
  <2>2. Ascending(S)[rank[i]] \in S /\ rank[Ascending(S)[rank[i]]] = rank[i]
    BY <1>7, <2>1
  <2> HIDE DEF rank
  <2> QED
    BY <1>5, <2>2 DEF Injection, IsInjective
<1>9. DOMAIN Ascending(S) = 1..N
  BY DEF Ascending
<1>10. \A i \in S : rank[i] = Rank(S, i)
  BY Zenon DEF Rank
<1> HIDE DEF rank
<1> QED
  BY <1>1, <1>4, <1>7, <1>8, <1>9, <1>10

\* A finite set of numbers has each of its numbers at one place of the list.
LEMMA AscendingIs ==
    ASSUME NEW S \in SUBSET Nat, IsFiniteSet(S)
    PROVE  /\ Cardinality(S) \in Nat
           /\ DOMAIN Ascending(S) = 1..Cardinality(S)
           /\ \A k \in 1..Cardinality(S) : Ascending(S)[k] \in S
           /\ \A i \in S : \E k \in 1..Cardinality(S) : Ascending(S)[k] = i
BY Ranked, Zenon

\* The least number of a set is its first.
LEMMA FirstInOrder ==
    ASSUME NEW S \in SUBSET Nat, IsFiniteSet(S), NEW x \in S, \A y \in S : x <= y
    PROVE  Cardinality(S) >= 1 /\ Ascending(S)[1] = x
<1>1. {j \in S : j < x} = {}
  <2>1. ASSUME NEW j \in S PROVE ~(j < x)
    <3>1. j \in Nat /\ x \in Nat /\ x <= j
      OBVIOUS
    <3> QED
      BY <3>1
  <2> QED
    BY <2>1
<1>2. Rank(S, x) = 1
  BY <1>1, FS_EmptySet DEF Rank
<1>3. Cardinality(S) \in Nat /\ Rank(S, x) \in 1..Cardinality(S) /\ Ascending(S)[Rank(S, x)] = x
  BY Ranked, Zenon
<1> QED
  BY <1>2, <1>3

\* Behind a number is the next one of the set, if there is one.
LEMMA NextInOrder ==
    ASSUME NEW S \in SUBSET Nat, IsFiniteSet(S),
           NEW k \in 1..Cardinality(S), NEW x, Ascending(S)[k] = x
    PROVE  /\ \A y \in S : x < y /\ (\A z \in S : x < z => y <= z) =>
                k + 1 <= Cardinality(S) /\ Ascending(S)[k + 1] = y
           /\ (\A y \in S : y <= x) => Cardinality(S) = k
<1> DEFINE below == {j \in S : j < x}
<1>1. x \in S /\ Rank(S, x) = k /\ Cardinality(S) \in Nat
  BY Ranked, Zenon
<1>2. x \in Nat /\ x \notin below
  BY <1>1
<1>3. IsFiniteSet(below) /\ Cardinality(below) \in Nat
  <2>1. below \in SUBSET S
    OBVIOUS
  <2>2. IsFiniteSet(below)
    BY <2>1, FS_Subset
  <2> QED
    BY <2>2, FS_CardinalityType
<1>4. Cardinality(below) = k - 1
  BY <1>1, <1>3 DEF Rank
<1>5. Cardinality(below \cup {x}) = k
  <2>1. Cardinality(below \cup {x}) = Cardinality(below) + 1
    BY <1>2, <1>3, FS_AddElement
  <2> QED
    BY <1>4, <2>1
<1>6. ASSUME NEW y \in S, x < y, \A z \in S : x < z => y <= z
      PROVE  k + 1 <= Cardinality(S) /\ Ascending(S)[k + 1] = y
  <2>1. {j \in S : j < y} = below \cup {x}
    <3>1. ASSUME NEW z \in S PROVE z < y <=> z < x \/ z = x
      <4>1. z \in Nat /\ y \in Nat
        OBVIOUS
      <4> QED
        BY <1>2, <1>6, <4>1
    <3> QED
      BY <1>1, <3>1
  <2>2. Rank(S, y) = k + 1
    BY <1>5, <2>1 DEF Rank
  <2>3. k + 1 \in 1..Cardinality(S) /\ Ascending(S)[k + 1] = y
    <3>1. Rank(S, y) \in 1..Cardinality(S) /\ Ascending(S)[Rank(S, y)] = y
      BY Ranked, Zenon
    <3> QED
      BY <2>2, <3>1, Zenon
  <2> QED
    BY <1>1, <2>3
<1>7. ASSUME \A y \in S : y <= x PROVE Cardinality(S) = k
  <2>1. S = below \cup {x}
    <3>1. ASSUME NEW z \in S PROVE z < x \/ z = x
      <4>1. z \in Nat
        OBVIOUS
      <4> QED
        BY <1>2, <1>7, <4>1
    <3> QED
      BY <1>1, <3>1
  <2> HIDE DEF below
  <2> QED
    BY <1>5, <2>1
<1> QED
  BY <1>6, <1>7

\* Of two that follow each other, nothing is between.
LEMMA Consecutive ==
    ASSUME NEW S \in SUBSET Nat, IsFiniteSet(S), NEW k \in 1..Cardinality(S),
           k + 1 \in 1..Cardinality(S)
    PROVE  /\ Ascending(S)[k] \in S /\ Ascending(S)[k + 1] \in S
           /\ Ascending(S)[k] < Ascending(S)[k + 1]
           /\ \A z \in S : Ascending(S)[k] < z => Ascending(S)[k + 1] <= z
<1>1. PICK x \in S : x = Ascending(S)[k]
  BY Ranked, Zenon
<1>2. Ascending(S)[k + 1] \in S /\ Cardinality(S) \in Nat /\ Cardinality(S) # k
  <2>1. Ascending(S)[k + 1] \in S /\ Cardinality(S) \in Nat
    BY Ranked, Zenon
  <2> QED
    BY <2>1
<1> DEFINE T == {y \in S : ~(y <= x)}
<1>3. T # {}
  <2>1. ~(\A y \in S : y <= x)
    BY <1>1, <1>2, NextInOrder
  <2> QED
    BY <2>1
<1>4. PICK y \in T : \A z \in T : y <= z
  <2>1. T \subseteq Nat
    OBVIOUS
  <2> HIDE DEF T
  <2> QED
    BY <1>3, <2>1, LeastOf
<1>5. y \in S /\ x < y /\ \A z \in S : x < z => y <= z
  BY <1>4
<1>6. Ascending(S)[k + 1] = y
  BY <1>1, <1>5, NextInOrder
<1> QED
  BY <1>1, <1>5, <1>6, Zenon

\* The first of a list is the least.
LEMMA LeastIsFirst ==
    ASSUME NEW S \in SUBSET Nat, IsFiniteSet(S), Cardinality(S) >= 1
    PROVE  Ascending(S)[1] \in S /\ \A z \in S : Ascending(S)[1] <= z
<1>1. Cardinality(S) \in Nat
  BY Ranked, Zenon
<1>2. 1 \in 1..Cardinality(S)
  BY <1>1
<1>3. Ascending(S)[1] \in S
  BY <1>2, Ranked, Zenon
<1>4. PICK x \in S : \A z \in S : x <= z
  BY <1>3, LeastOf
<1>5. Ascending(S)[1] = x
  BY <1>4, FirstInOrder
<1> QED
  BY <1>4, <1>5

\* Two numbers in order.
LEMMA TwoInOrder ==
    ASSUME NEW x \in Nat, NEW y \in Nat, x < y
    PROVE  /\ Cardinality({x, y}) = 2
           /\ Ascending({x, y})[1] = x /\ Ascending({x, y})[2] = y
<1> DEFINE S == {x, y}
<1>1. S \in SUBSET Nat /\ x \in S /\ y \in S
  OBVIOUS
<1>2. IsFiniteSet(S) /\ Cardinality(S) = 2
  <2>1. IsFiniteSet({x}) /\ Cardinality({x}) = 1
    BY FS_Singleton
  <2>2. y \notin {x} /\ {x} \cup {y} = S
    OBVIOUS
  <2>3. IsFiniteSet({x} \cup {y}) /\ Cardinality({x} \cup {y}) = Cardinality({x}) + 1
    BY <2>1, <2>2, FS_AddElement
  <2> QED
    BY <2>1, <2>2, <2>3
<1>3. \A z \in S : x <= z
  OBVIOUS
<1>4. \A z \in S : x < z => y <= z
  OBVIOUS
<1> HIDE DEF S
<1>5. Ascending(S)[1] = x
  BY <1>1, <1>2, <1>3, FirstInOrder
<1>6. 1 \in 1..Cardinality(S)
  BY <1>2
<1>7. Ascending(S)[1 + 1] = y
  BY <1>1, <1>2, <1>4, <1>5, <1>6, NextInOrder
<1> QED
  BY <1>2, <1>5, <1>7 DEF S

LEMMA TwoOf ==
    ASSUME NEW S \in SUBSET Nat, IsFiniteSet(S), Cardinality(S) = 2
    PROVE  /\ S = {Ascending(S)[1], Ascending(S)[2]}
           /\ Ascending(S)[1] < Ascending(S)[2]
<1>1. 1 \in 1..Cardinality(S) /\ 1 + 1 \in 1..Cardinality(S) /\ 1 + 1 = 2
      /\ \A k \in 1..Cardinality(S) : k = 1 \/ k = 2
  OBVIOUS
<1>2. Ascending(S)[1] < Ascending(S)[2] /\ Ascending(S)[1] \in S /\ Ascending(S)[2] \in S
  BY <1>1, Consecutive, Zenon
<1>3. \A i \in S : i = Ascending(S)[1] \/ i = Ascending(S)[2]
  BY <1>1, AscendingIs, Zenon
<1> QED
  BY <1>2, <1>3

\* A number that is greater than all others comes last.
LEMMA AscendingGrows ==
    ASSUME NEW S \in SUBSET Nat, IsFiniteSet(S), NEW x \in Nat, \A y \in S : y < x
    PROVE  /\ IsFiniteSet(S \cup {x})
           /\ DOMAIN Ascending(S \cup {x}) = 1..(Cardinality(S) + 1)
           /\ \A k \in 1..Cardinality(S) : Ascending(S \cup {x})[k] = Ascending(S)[k]
           /\ Ascending(S \cup {x})[Cardinality(S) + 1] = x
<1> DEFINE T == S \cup {x}
<1>1. x \notin S
  OBVIOUS
<1>2. IsFiniteSet(T) /\ Cardinality(T) = Cardinality(S) + 1
  BY <1>1, FS_AddElement
<1>3. T \in SUBSET Nat
  OBVIOUS
<1>4. Rank(T, x) = Cardinality(S) + 1
  <2>1. {j \in T : j < x} = S
    <3>1. \A y \in S : y \in Nat /\ y < x
      OBVIOUS
    <3>2. ~(x < x)
      OBVIOUS
    <3> QED
      BY <3>1, <3>2
  <2> HIDE DEF T
  <2> QED
    BY <2>1 DEF Rank
<1>5. ASSUME NEW k \in 1..Cardinality(S) PROVE Ascending(T)[k] = Ascending(S)[k]
  <2>1. PICK i \in S : i = Ascending(S)[k]
    BY Ranked, Zenon
  <2>2. Rank(S, i) = k
    BY <2>1, Ranked, Zenon
  <2>3. {j \in T : j < i} = {j \in S : j < i}
    OBVIOUS
  <2>4. Rank(T, i) = k
    BY <2>2, <2>3, Zenon DEF Rank
  <2>5. i \in T
    OBVIOUS
  <2> HIDE DEF T
  <2>6. Ascending(T)[k] = i
    BY <1>2, <1>3, <2>4, <2>5, Ranked, Zenon
  <2> QED
    BY <2>1, <2>6
<1>6. x \in T
  OBVIOUS
<1> HIDE DEF T
<1>7. DOMAIN Ascending(T) = 1..Cardinality(T) /\ Ascending(T)[Cardinality(S) + 1] = x
  BY <1>2, <1>3, <1>4, <1>6, Ranked, Zenon
<1>8. DOMAIN Ascending(T) = 1..(Cardinality(S) + 1)
  BY <1>2, <1>7
<1> QED
  BY <1>2, <1>5, <1>7, <1>8 DEF T

\* What increases from each number to the next increases.
LEMMA IncreasesAlways ==
    ASSUME NEW n \in Nat, NEW b \in [1..n -> Nat],
           \A k \in 1..n : k + 1 \in 1..n => b[k] < b[k + 1]
    PROVE  \A i, j \in 1..n : i < j => b[i] < b[j]
<1> DEFINE T == {m \in Nat : \A i, j \in 1..n : j <= m /\ i < j => b[i] < b[j]}
<1>1. 0 \in T
  OBVIOUS
<1>2. ASSUME NEW m \in Nat, m \in T PROVE m + 1 \in T
  <2> SUFFICES ASSUME NEW i \in 1..n, NEW j \in 1..n, j <= m + 1, i < j PROVE b[i] < b[j]
    OBVIOUS
  <2>1. CASE j <= m
    BY <1>2, <2>1
  <2>2. CASE j = m + 1
    <3>1. m \in 1..n /\ b[m] < b[j] /\ b[i] \in Nat /\ b[m] \in Nat /\ b[j] \in Nat
      BY <2>2
    <3>2. i = m \/ b[i] < b[m]
      BY <1>2, <2>2, <3>1
    <3> QED
      BY <3>1, <3>2
  <2> QED
    BY <2>1, <2>2
<1> HIDE DEF T
<1>3. Nat \subseteq T
  BY <1>1, <1>2, Induction
<1>4. n \in T /\ \A j \in 1..n : j <= n
  BY <1>3
<1> QED
  BY <1>4 DEF T

\* What increases has as many values as arguments.
LEMMA ValuesCount ==
    ASSUME NEW n \in Nat, NEW b \in [1..n -> Nat],
           \A i, j \in 1..n : i < j => b[i] < b[j],
           NEW m \in 0..n
    PROVE  /\ IsFiniteSet({b[k] : k \in 1..m})
           /\ Cardinality({b[k] : k \in 1..m}) = m
<1> DEFINE V == {b[k] : k \in 1..m}
           f == [k \in 1..m |-> b[k]]
<1>1. IsFiniteSet(1..m) /\ Cardinality(1..m) = m
  <2>1. 1 \in Int /\ m \in Int
    OBVIOUS
  <2> QED
    BY <2>1, FS_Interval
<1>2. f \in Surjection(1..m, V)
  BY DEF Surjection
<1>3. f \in Injection(1..m, V)
  <2>1. ASSUME NEW i \in 1..m, NEW j \in 1..m, f[i] = f[j] PROVE i = j
    <3>1. i \in 1..n /\ j \in 1..n /\ b[i] = b[j] /\ b[i] \in Nat
      BY <2>1
    <3>2. ~(i < j) /\ ~(j < i)
      BY <3>1
    <3> QED
      BY <3>2
  <2>2. f \in [1..m -> V]
    OBVIOUS
  <2> QED
    BY <2>1, <2>2 DEF Injection, IsInjective
<1> QED
  BY <1>1, <1>2, <1>3, FS_Surjection

\* A list is a function.
LEMMA AscendingIsFunction ==
    \A S : Ascending(S) = [k \in DOMAIN Ascending(S) |-> Ascending(S)[k]]
<1> SUFFICES ASSUME NEW S
             PROVE  Ascending(S) = [k \in DOMAIN Ascending(S) |-> Ascending(S)[k]]
  OBVIOUS
<1> DEFINE place(k) == CHOOSE i \in S : Cardinality({j \in S : j < i}) = k - 1
<1>1. Ascending(S) = [k \in 1..Cardinality(S) |-> place(k)]
  BY Zenon DEF Ascending
<1> HIDE DEF place
<1> QED
  BY <1>1

\* The list of what increases is what increases.
LEMMA AscendingList ==
    ASSUME NEW n \in Nat, NEW b \in [1..n -> Nat],
           \A k \in 1..n : k + 1 \in 1..n => b[k] < b[k + 1]
    PROVE  /\ DOMAIN Ascending({b[k] : k \in 1..n}) = 1..n
           /\ \A k \in 1..n : Ascending({b[i] : i \in 1..n})[k] = b[k]
<1> DEFINE S == {b[k] : k \in 1..n}
<1>1. \A i, j \in 1..n : i < j => b[i] < b[j]
  BY IncreasesAlways
<1>2. Cardinality(S) = n
  <2>1. n \in 0..n
    OBVIOUS
  <2> QED
    BY <1>1, <2>1, ValuesCount
<1>3. ASSUME NEW k \in 1..n PROVE Cardinality({j \in S : j < b[k]}) = k - 1
  <2>1. {j \in S : j < b[k]} = {b[i] : i \in 1..(k - 1)}
    <3>1. ASSUME NEW j \in S, j < b[k] PROVE j \in {b[i] : i \in 1..(k - 1)}
      <4>1. PICK i \in 1..n : j = b[i]
        OBVIOUS
      <4>2. i < k
        <5>1. b[i] \in Nat /\ b[k] \in Nat /\ b[i] < b[k]
          BY <3>1, <4>1
        <5>2. ~(k < i) /\ k # i
          BY <1>1, <5>1
        <5> QED
          BY <5>2
      <4> QED
        BY <4>1, <4>2
    <3>2. ASSUME NEW i \in 1..(k - 1) PROVE b[i] \in S /\ b[i] < b[k]
      BY <1>1
    <3> QED
      BY <3>1, <3>2
  <2>2. PICK m \in 0..n : m = k - 1
    OBVIOUS
  <2>3. Cardinality({b[i] : i \in 1..m}) = m
    BY <1>1, ValuesCount
  <2> HIDE DEF S
  <2> QED
    BY <2>1, <2>2, <2>3
<1>4. ASSUME NEW k \in 1..n
      PROVE  b[k] = CHOOSE i \in S : Cardinality({j \in S : j < i}) = k - 1
  <2>1. b[k] \in S
    OBVIOUS
  <2>2. ASSUME NEW i \in S, Cardinality({j \in S : j < i}) = k - 1 PROVE i = b[k]
    <3>1. PICK l \in 1..n : i = b[l]
      OBVIOUS
    <3>2. l - 1 = k - 1
      BY <1>3, <2>2, <3>1
    <3> QED
      BY <3>1, <3>2
  <2> HIDE DEF S
  <2> QED
    BY <1>3, <2>1, <2>2
<1> HIDE DEF S
<1>5. /\ DOMAIN Ascending(S) = 1..n
      /\ \A k \in 1..n : Ascending(S)[k] = b[k]
  BY <1>2, <1>4 DEF Ascending
<1> QED
  BY <1>5 DEF S

\* A sequence is a function.
LEMMA SequenceIs ==
    ASSUME NEW V, NEW s \in Seq(V)
    PROVE  Len(s) \in Nat /\ s = [k \in 1..Len(s) |-> s[k]]
OBVIOUS

\* A place of a sequence that is a place with this value, and none before it is.
LEMMA FirstOf ==
    ASSUME NEW s, NEW x, DOMAIN s \subseteq Nat, NEW k \in DOMAIN s, s[k] = x,
           \A j \in 1..(k - 1) : s[j] # x, DOMAIN s \subseteq Nat \ {0},
           \A i \in DOMAIN s : 1..i \subseteq DOMAIN s
    PROVE  (CHOOSE i \in DOMAIN s : s[i] = x /\ \A j \in 1..(i - 1) : s[j] # x) = k
<1>1. ASSUME NEW i \in DOMAIN s, s[i] = x, \A j \in 1..(i - 1) : s[j] # x PROVE i = k
  <2>1. i \in Nat \ {0} /\ k \in Nat \ {0}
    OBVIOUS
  <2>2. ~(i < k)
    <3>1. i < k => i \in 1..(k - 1)
      BY <2>1
    <3> QED
      BY <1>1, <3>1
  <2>3. ~(k < i)
    <3>1. k < i => k \in 1..(i - 1)
      BY <2>1
    <3> QED
      BY <1>1, <3>1
  <2> QED
    BY <2>1, <2>2, <2>3
<1> QED
  BY <1>1

\* What lies between two places of a string.
Matches(s, a, m, t) ==
    /\ a \in Nat /\ m \in Nat /\ a + m <= Len(s)
    /\ t = [k \in 1..m |-> t[k]]
    /\ \A k \in 1..m : s[a + k] = t[k]

\* That is what SubSeq takes out.
LEMMA SliceIs ==
    ASSUME NEW V, NEW s \in Seq(V), NEW a, NEW m, NEW t, Matches(s, a, m, t)
    PROVE  SubSeq(s, a + 1, a + m) = t
<1>1. /\ a \in Nat /\ m \in Nat /\ a + m <= Len(s)
      /\ t = [k \in 1..m |-> t[k]]
      /\ \A k \in 1..m : s[a + k] = t[k]
  BY Zenon DEF Matches
<1>2. /\ SubSeq(s, a + 1, a + m) \in Seq(V) /\ Len(SubSeq(s, a + 1, a + m)) = m
      /\ \A k \in 1..m : SubSeq(s, a + 1, a + m)[k] = s[a + k]
  <2>1. SubSeq(s, a + 1, a + m) \in Seq(V) /\ Len(SubSeq(s, a + 1, a + m)) = m
    BY <1>1
  <2>2. ASSUME NEW k \in 1..m PROVE SubSeq(s, a + 1, a + m)[k] = s[a + k]
    <3>1. SubSeq(s, a + 1, a + m)[k] = s[((a + 1) + k) - 1]
      BY <1>1
    <3>2. ((a + 1) + k) - 1 = a + k
      BY <1>1
    <3> QED
      BY <3>1, <3>2, Zenon
  <2> QED
    BY <2>1, <2>2
<1> DEFINE u == SubSeq(s, a + 1, a + m)
<1>3. u = [k \in 1..m |-> u[k]]
  <2> HIDE DEF u
  <2>1. u \in Seq(V) /\ Len(u) = m
    BY <1>2 DEF u
  <2> QED
    BY <2>1, SequenceIs
<1>4. \A k \in 1..m : u[k] = t[k]
  BY <1>1, <1>2, Zenon
<1> HIDE DEF u
<1>5. u = t
  BY <1>1, <1>3, <1>4, Zenon
<1> QED
  BY <1>5 DEF u

-----------------------------------------------------------------------------
(* Sequences one behind the other.                                         *)

\* Of a string, the first p characters are x and the other q are y.
Joined(s, V, x, p, y, q) ==
    /\ s \in Seq(V) /\ Len(s) = p + q
    /\ \A k \in 1..p : s[k] = x[k]
    /\ \A k \in 1..q : s[p + k] = y[k]

\* So it is with \o.
LEMMA JoinedIs ==
    ASSUME NEW V, NEW x \in Seq(V), NEW y \in Seq(V), NEW p, NEW q, Len(x) = p, Len(y) = q
    PROVE  Joined(x \o y, V, x, p, y, q)
<1>1. /\ x \o y \in Seq(V) /\ Len(x \o y) = Len(x) + Len(y)
      /\ \A k \in 1..Len(x) : (x \o y)[k] = x[k]
      /\ \A k \in 1..Len(y) : (x \o y)[Len(x) + k] = y[k]
  OBVIOUS
<1> QED
  BY <1>1, Zenon DEF Joined

\* The sequences lie one behind the other, number i behind at[i - 1].
Laid(seqs, at, whole) ==
    /\ at \in [Nat -> Nat] /\ at[0] = 0
    /\ Len(whole) = at[Len(seqs)] /\ DOMAIN whole = 1..at[Len(seqs)]
    /\ \A i \in 1..Len(seqs) :
          /\ at[i] = at[i - 1] + Len(seqs[i]) /\ at[i] <= at[Len(seqs)]
          /\ \A k \in 1..Len(seqs[i]) : whole[at[i - 1] + k] = seqs[i][k]

\* Both parts of what is put together are found in it.
LEMMA AppendedIs ==
    ASSUME NEW V
    PROVE  \A s, t \in Seq(V) :
             /\ s \o t \in Seq(V) /\ Len(s \o t) = Len(s) + Len(t)
             /\ \A k \in 1..Len(s) : (s \o t)[k] = s[k]
             /\ \A k \in 1..Len(t) : (s \o t)[Len(s) + k] = t[k]
OBVIOUS

\* Number i of the pieces is at the end of what it has been added to.
Grows(f, pieces, at, len, N) ==
    \A i \in 1..N :
       /\ at[i] = at[i - 1] + len[i]
       /\ \A k \in 1..at[i - 1] : f[i][k] = f[i - 1][k]
       /\ \A k \in 1..len[i] : f[i][at[i - 1] + k] = pieces[i][k]

\* Every piece is in the whole, and none behind its end.
Grown(whole, pieces, at, len, N) ==
    \A i \in 1..N : at[i] <= at[N]
       /\ \A k \in 1..len[i] : whole[at[i - 1] + k] = pieces[i][k]

\* Arithmetic of offsets.
LEMMA AtMostSum ==
    \A a, b, c \in Nat : \A d : a <= b /\ d = b + c => a <= d
OBVIOUS

LEMMA AtMostTrans ==
    \A a, b, c \in Nat : a <= b /\ b <= c => a <= c
OBVIOUS

LEMMA InPiece ==
    \A a, b, c, d \in Nat : \A k \in 1..b : c = a + b /\ c <= d => a + k \in 1..d
OBVIOUS

\* By then all pieces are where they have been added.
LEMMA GrownIs ==
    ASSUME NEW N \in Nat, NEW f, NEW pieces, NEW at \in [Nat -> Nat],
           NEW len \in [1..N -> Nat], Grows(f, pieces, at, len, N)
    PROVE  Grown(f[N], pieces, at, len, N)
<1> DEFINE P(n, i) == /\ at[i] <= at[n]
                      /\ \A k \in 1..len[i] : f[n][at[i - 1] + k] = pieces[i][k]
           T == {n \in Nat : n <= N => \A i \in 1..n : P(n, i)}
<1>13. 0 \in T
  OBVIOUS
<1>14. ASSUME NEW n \in Nat, n \in T PROVE n + 1 \in T
  <2>0. ASSUME n + 1 <= N, NEW i \in 1..(n + 1) PROVE P(n + 1, i)
    <3>1. n + 1 \in 1..N /\ (n + 1) - 1 = n
      BY <2>0
    <3>2. /\ at[n + 1] = at[n] + len[n + 1] /\ at[n] \in Nat /\ len[n + 1] \in Nat
          /\ \A k \in 1..at[n] : f[n + 1][k] = f[n][k]
          /\ \A k \in 1..len[n + 1] : f[n + 1][at[n] + k] = pieces[n + 1][k]
      <4>1. /\ at[n + 1] = at[(n + 1) - 1] + len[n + 1]
            /\ \A k \in 1..at[(n + 1) - 1] : f[n + 1][k] = f[(n + 1) - 1][k]
            /\ \A k \in 1..len[n + 1] : f[n + 1][at[(n + 1) - 1] + k] = pieces[n + 1][k]
        BY <3>1, Zenon DEF Grows
      <4>2. at[n] \in Nat /\ len[n + 1] \in Nat
        BY <3>1
      <4> QED
        BY <3>1, <4>1, <4>2, Zenon
    <3>5. CASE i = n + 1
      BY <3>1, <3>2, <3>5
    <3>6. CASE i # n + 1
      <4>1. i \in 1..n /\ i \in 1..N /\ i - 1 \in Nat /\ n <= N
        BY <2>0, <3>6
      <4>2. at[i] <= at[n] /\ \A k \in 1..len[i] : f[n][at[i - 1] + k] = pieces[i][k]
        BY <1>14, <4>1
      <4>3. at[i] = at[i - 1] + len[i] /\ at[i - 1] \in Nat /\ at[i] \in Nat /\ len[i] \in Nat
        BY <4>1 DEF Grows
      <4>4. ASSUME NEW k \in 1..len[i] PROVE f[n + 1][at[i - 1] + k] = pieces[i][k]
        <5>0. k \in 1..len[i]
          OBVIOUS
        <5>1. at[i - 1] + k \in 1..at[n]
          BY <3>2, <4>2, <4>3, <5>0, InPiece, Zenon
        <5> QED
          BY <3>2, <4>2, <5>1
      <4>5. at[i] <= at[n + 1]
        <5>1. at[n + 1] = at[n] + len[n + 1] /\ at[n] \in Nat /\ len[n + 1] \in Nat
          BY <3>2, Zenon
        <5>2. at[i] <= at[n] /\ at[i] \in Nat
          BY <4>2, <4>3, Zenon
        <5> QED
          BY <5>1, <5>2, AtMostSum, Zenon
      <4> QED
        BY <4>4, <4>5
    <3> QED
      BY <3>5, <3>6
  <2> HIDE DEF P
  <2> QED
    BY <2>0
<1> HIDE DEF T
<1>15. Nat \subseteq T
  BY <1>13, <1>14, Induction
<1> QED
  BY <1>15 DEF T, Grown

\* So many characters f[n] has, and so its parts add up.
Lengths(f, seqs, n, at, len) ==
    /\ \A i \in 1..n :
          /\ at[i] = at[i - 1] + len[i]
          /\ \A k \in 1..at[i - 1] : f[i][k] = f[i - 1][k]
          /\ \A k \in 1..len[i] : f[i][at[i - 1] + k] = seqs[i][k]
    /\ \A i \in 1..n : len[i] = Len(seqs[i])
    /\ Len(f[n]) = at[n] /\ DOMAIN f[n] = 1..at[n] /\ at[0] = 0

\* What FlattenSeq puts together are its parts, one behind the other.
LEMMA FlattenIs ==
    ASSUME NEW V, NEW seqs, NEW N \in Nat \ {0}, Len(seqs) = N,
           \A i \in 1..N : seqs[i] \in Seq(V)
    PROVE  /\ FlattenSeq(seqs) \in Seq(V)
           /\ \E at \in [Nat -> Nat] : Laid(seqs, at, FlattenSeq(seqs))
<1> DEFINE S == Seq(V)
           g == [p \in Nat \X S |-> IF p[1] < N THEN p[2] \o seqs[p[1] + 1] ELSE p[2]]
<1>1. g \in [Nat \X S -> S]
  <2>1. ASSUME NEW n \in Nat, NEW u \in S, n < N PROVE u \o seqs[n + 1] \in S
    <3>1. n + 1 \in 1..N
      BY <2>1
    <3> QED
      BY <3>1, AppendedIs
  <2> HIDE DEF S
  <2> QED
    BY <2>1
<1>2. PICK f \in [Nat -> S] : Recurs(f, <<>>, g)
  <2>1. <<>> \in S
    OBVIOUS
  <2> HIDE DEF S, g
  <2> QED
    BY <1>1, <2>1, Recursion
<1>3. ASSUME NEW n \in Nat, n < N PROVE f[n + 1] = f[n] \o seqs[n + 1]
  <2> HIDE DEF S
  <2>1. <<n, f[n]>> \in Nat \X S
    BY <1>2
  <2> QED
    BY <1>2, <1>3, <2>1 DEF Recurs
<1>4. f[0] = <<>> /\ \A n \in Nat : f[n] \in Seq(V)
  BY <1>2 DEF Recurs
<1> HIDE DEF g
<1> DEFINE eq(F) == F = [i \in 1..N |-> IF i = 1 THEN seqs[i] ELSE F[i - 1] \o seqs[i]]
           F0 == [i \in 1..N |-> f[i]]
<1>5. eq(F0)
  <2>1. ASSUME NEW i \in 1..N PROVE f[i] = IF i = 1 THEN seqs[i] ELSE F0[i - 1] \o seqs[i]
    <3>1. i - 1 \in Nat /\ i - 1 < N /\ (i - 1) + 1 = i
      BY <2>1
    <3>2. f[i] = f[i - 1] \o seqs[i]
      BY <1>3, <3>1
    <3>3. CASE i = 1
      <4>0. i - 1 = 0
        BY <3>3
      <4>1. f[i] = <<>> \o seqs[i]
        BY <1>4, <3>2, <4>0, Zenon
      <4>2. <<>> \o seqs[i] = seqs[i]
        BY <3>3
      <4> QED
        BY <3>3, <4>1, <4>2
    <3>4. CASE i # 1
      <4>1. F0[i - 1] = f[i - 1]
        BY <3>1, <3>4
      <4> QED
        BY <3>2, <3>4, <4>1
    <3> QED
      BY <3>3, <3>4
  <2> QED
    BY <2>1
<1> DEFINE G == CHOOSE F : eq(F)
<1>6. eq(G)
  BY <1>5
<1>7. FlattenSeq(seqs) = G[N]
  BY DEF FlattenSeq
<1> HIDE DEF G
<1>8. \A n \in Nat : n >= 1 /\ n <= N => G[n] = f[n]
  <2> DEFINE T == {n \in Nat : n >= 1 /\ n <= N => G[n] = f[n]}
  <2>1. 0 \in T
    OBVIOUS
  <2>2. ASSUME NEW n \in Nat, n \in T PROVE n + 1 \in T
    <3> SUFFICES ASSUME n + 1 <= N PROVE G[n + 1] = f[n + 1]
      OBVIOUS
    <3>1. n + 1 \in 1..N /\ (n + 1) - 1 = n
      OBVIOUS
    <3>2. CASE n = 0
      <4>1. G[n + 1] = seqs[n + 1]
        BY <1>6, <3>1, <3>2
      <4>0. n < N
        BY <3>1
      <4>2. f[n + 1] = <<>> \o seqs[n + 1]
        BY <1>3, <1>4, <4>0, <3>2, Zenon
      <4>3. <<>> \o seqs[n + 1] = seqs[n + 1]
        BY <3>1
      <4> QED
        BY <4>1, <4>2, <4>3
    <3>3. CASE n # 0
      <4>1. n + 1 # 1
        BY <3>3
      <4>2. G[n + 1] = G[(n + 1) - 1] \o seqs[n + 1]
        BY <1>6, <3>1, <4>1
      <4>3. G[n] = f[n] /\ n < N
        BY <2>2, <3>3, <3>1
      <4>4. f[n + 1] = f[n] \o seqs[n + 1]
        BY <1>3, <4>3
      <4> QED
        BY <3>1, <4>2, <4>3, <4>4, Zenon
    <3> QED
      BY <3>2, <3>3
  <2> HIDE DEF T
  <2>3. Nat \subseteq T
    BY <2>1, <2>2, Induction
  <2> QED
    BY <2>3 DEF T
<1> HIDE DEF eq, F0
<1>9. FlattenSeq(seqs) = f[N]
  BY <1>7, <1>8
<1>a. \A s, t \in Seq(V) :
         /\ Len(s \o t) = Len(s) + Len(t)
         /\ \A k \in 1..Len(s) : (s \o t)[k] = s[k]
         /\ \A k \in 1..Len(t) : (s \o t)[Len(s) + k] = t[k]
  BY AppendedIs
<1>10. \E at \in [Nat -> Nat], len \in [1..N -> Nat] : Lengths(f, seqs, N, at, len)
  <2> DEFINE at == [n \in Nat |-> Len(f[n])]
             len == [i \in 1..N |-> Len(seqs[i])]
  <2>1. at \in [Nat -> Nat] /\ len \in [1..N -> Nat]
    <3>1. \A n \in Nat : Len(f[n]) \in Nat
      BY <1>4
    <3>2. \A i \in 1..N : Len(seqs[i]) \in Nat
      OBVIOUS
    <3> QED
      BY <3>1, <3>2, Zenon
  <2>2. ASSUME NEW i \in 1..N
        PROVE  /\ at[i] = at[i - 1] + len[i]
               /\ \A k \in 1..at[i - 1] : f[i][k] = f[i - 1][k]
               /\ \A k \in 1..len[i] : f[i][at[i - 1] + k] = seqs[i][k]
    <3>1. i - 1 \in Nat /\ i - 1 < N /\ (i - 1) + 1 = i
      OBVIOUS
    <3>2. f[(i - 1) + 1] = f[i - 1] \o seqs[(i - 1) + 1]
      BY <1>3, <3>1, Zenon
    <3>3. f[i] = f[i - 1] \o seqs[i]
      BY <3>1, <3>2, Zenon
    <3>4. f[i - 1] \in Seq(V) /\ seqs[i] \in Seq(V)
      BY <1>4, <3>1
    <3>5. /\ Len(f[i - 1] \o seqs[i]) = Len(f[i - 1]) + Len(seqs[i])
          /\ \A k \in 1..Len(f[i - 1]) : (f[i - 1] \o seqs[i])[k] = f[i - 1][k]
          /\ \A k \in 1..Len(seqs[i]) : (f[i - 1] \o seqs[i])[Len(f[i - 1]) + k] = seqs[i][k]
      BY <1>a, <3>4, Zenon
    <3>6. at[i] = Len(f[i]) /\ at[i - 1] = Len(f[i - 1]) /\ len[i] = Len(seqs[i])
      BY <3>1
    <3> HIDE DEF at, len
    <3> QED
      BY <3>3, <3>5, <3>6, Zenon
  <2>3. Len(f[N]) = at[N] /\ DOMAIN f[N] = 1..at[N] /\ at[0] = 0
    BY <1>4
  <2>4. \A i \in 1..N : len[i] = Len(seqs[i])
    OBVIOUS
  <2> HIDE DEF at, len
  <2>5. Lengths(f, seqs, N, at, len)
    BY <2>2, <2>3, <2>4, Zenon DEF Lengths
  <2> QED
    BY <2>1, <2>5, Zenon
<1>11. PICK at \in [Nat -> Nat], len \in [1..N -> Nat] : Lengths(f, seqs, N, at, len)
  BY <1>10
<1>12. /\ \A i \in 1..N : at[i] = at[i - 1] + len[i] /\ len[i] = Len(seqs[i])
       /\ \A i \in 1..N : \A k \in 1..at[i - 1] : f[i][k] = f[i - 1][k]
       /\ \A i \in 1..N : \A k \in 1..len[i] : f[i][at[i - 1] + k] = seqs[i][k]
       /\ Len(f[N]) = at[N] /\ DOMAIN f[N] = 1..at[N] /\ at[0] = 0
  BY <1>11, Zenon DEF Lengths
<1>16. \A i \in 1..N : /\ at[i] <= at[N]
                       /\ \A k \in 1..len[i] : f[N][at[i - 1] + k] = seqs[i][k]
  <2>1. Grows(f, seqs, at, len, N)
    BY <1>12, Zenon DEF Grows
  <2>2. N \in Nat
    OBVIOUS
  <2>3. Grown(f[N], seqs, at, len, N)
    BY <2>1, <2>2, GrownIs, Zenon
  <2> QED
    BY <2>3, Zenon DEF Grown
<1>17. \A i \in 1..N : \A k \in 1..Len(seqs[i]) : f[N][at[i - 1] + k] = seqs[i][k]
  <2> SUFFICES ASSUME NEW i \in 1..N
               PROVE  \A k \in 1..Len(seqs[i]) : f[N][at[i - 1] + k] = seqs[i][k]
    OBVIOUS
  <2>1. len[i] = Len(seqs[i])
    BY <1>12, Zenon
  <2>2. \A k \in 1..len[i] : f[N][at[i - 1] + k] = seqs[i][k]
    BY <1>16, Zenon
  <2> QED
    BY <2>1, <2>2, Zenon
<1>18. Laid(seqs, at, f[N])
  <2>1. Len(seqs) = N
    OBVIOUS
  <2>2. ASSUME NEW i \in 1..N
        PROVE  /\ at[i] = at[i - 1] + Len(seqs[i]) /\ at[i] <= at[N]
               /\ \A k \in 1..Len(seqs[i]) : f[N][at[i - 1] + k] = seqs[i][k]
    <3>1. at[i] = at[i - 1] + len[i] /\ len[i] = Len(seqs[i])
      BY <1>12, Zenon
    <3>2. at[i] = at[i - 1] + Len(seqs[i])
      BY <3>1, Zenon
    <3> QED
      BY <1>16, <1>17, <3>2, Zenon
  <2>3. /\ at \in [Nat -> Nat] /\ at[0] = 0
        /\ Len(f[N]) = at[N] /\ DOMAIN f[N] = 1..at[N]
    BY <1>12
  <2> QED
    BY <2>1, <2>2, <2>3, Zenon DEF Laid
<1> QED
  BY <1>4, <1>9, <1>18

\* Every place of the whole is in one of the sequences it consists of.
LEMMA LaidCovers ==
    ASSUME NEW seqs, Len(seqs) \in Nat, NEW at, NEW whole, Laid(seqs, at, whole)
    PROVE  \A p \in DOMAIN whole : \E i \in 1..Len(seqs) : at[i - 1] < p /\ p <= at[i]
<1> DEFINE T == {n \in Nat : n <= Len(seqs) =>
                     \A p \in 1..at[n] : \E i \in 1..n : at[i - 1] < p /\ p <= at[i]}
<1>0. at \in [Nat -> Nat] /\ at[0] = 0 /\ DOMAIN whole = 1..at[Len(seqs)]
  BY Zenon DEF Laid
<1>1. 0 \in T
  BY <1>0
<1>2. ASSUME NEW n \in Nat, n \in T PROVE n + 1 \in T
  <2> SUFFICES ASSUME n + 1 <= Len(seqs), NEW p \in 1..at[n + 1]
               PROVE  \E i \in 1..(n + 1) : at[i - 1] < p /\ p <= at[i]
    OBVIOUS
  <2>0. n \in Nat /\ n + 1 \in Nat
    OBVIOUS
  <2>1. at[n] \in Nat /\ at[n + 1] \in Nat
    BY <1>0, <2>0, Zenon
  <2>2. CASE p <= at[n]
    <3>1. n <= Len(seqs) /\ p \in 1..at[n]
      BY <2>1, <2>2
    <3>2. PICK i \in 1..n : at[i - 1] < p /\ p <= at[i]
      BY <1>2, <3>1
    <3> QED
      BY <3>2
  <2>3. CASE at[n] < p
    <3>1. (n + 1) - 1 = n /\ n + 1 \in 1..(n + 1)
      OBVIOUS
    <3>2. at[(n + 1) - 1] < p /\ p <= at[n + 1]
      BY <2>1, <2>3, <3>1
    <3> QED
      BY <3>1, <3>2
  <2> QED
    BY <2>1, <2>2, <2>3
<1> HIDE DEF T
<1>3. Nat \subseteq T
  BY <1>1, <1>2, Induction
<1>4. Len(seqs) \in T /\ Len(seqs) <= Len(seqs)
  BY <1>3
<1> QED
  BY <1>0, <1>4, Zenon DEF T

=============================================================================
