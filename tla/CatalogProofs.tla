--------------------------- MODULE CatalogProofs ----------------------------
(***************************************************************************)
(* Proofs about Catalog, for files of any length with tables of any size,  *)
(* any number of strings that depend on the system, any codesets, and any  *)
(* order of look-ups and changes of the binding: a message is found just   *)
(* if the file has it, its text is in the codeset of the binding, and no   *)
(* converted string is put over another one.                               *)
(*                                                                         *)
(* Then about GetText, for any catalogues, languages and environments:     *)
(* what gettext() keeps in its list and its tree does not change what it   *)
(* returns, and with another's rights nothing but the program's own        *)
(* directories is looked into.                                             *)
(***************************************************************************)
EXTENDS Catalog, GetText, BasicLemmas

-----------------------------------------------------------------------------
(* Arithmetic of the hash table.                                           *)

\* Every slot that is tried is one of the table.
LEMMA ProbeIsSlot ==
    ASSUME NEW hash \in Nat, NEW size \in Nat, size > 2, NEW k \in Nat
    PROVE  Probe(hash, size, k) \in 0..(size - 1)
<1>1. hash % size \in Int /\ hash % (size - 2) \in Int
  <2>1. size \in Nat \ {0} /\ size - 2 \in Nat \ {0}
    OBVIOUS
  <2> QED
    BY <2>1, DivMod
<1> DEFINE step == 1 + (hash % (size - 2))
<1>2. k * step \in Int
  BY <1>1
<1> HIDE DEF step
<1>3. (hash % size) + k * step \in Int
  BY <1>1, <1>2
<1>4. ((hash % size) + k * step) % size \in 0..(size - 1)
  <2>1. size \in Nat \ {0}
    OBVIOUS
  <2> DEFINE x == (hash % size) + k * step
  <2>2. x \in Int
    BY <1>3
  <2> HIDE DEF x
  <2>3. x % size \in 0..(size - 1)
    BY <2>1, <2>2, DivMod
  <2> QED
    BY <2>3 DEF x
<1> QED
  BY <1>4 DEF Probe, step

-----------------------------------------------------------------------------
(* Hash tables.                                                            *)

\* Every slot is tried for a string of that hash value.
Covers(hash, size) ==
    /\ hash \in Nat
    /\ \A slot \in 0..(size - 1) : \E k \in 0..(size - 1) : Probe(hash, size, k) = slot

\* The slots in use.
Used(t, size) == {i \in 0..(size - 1) : t[i] # 0}

\* The table holds the first m strings, of the hash values h, each in the first
\* slot that was empty when it was put in.
Holds(t, size, h, m) ==
    /\ t \in [0..(size - 1) -> 0..m]
    /\ Cardinality(Used(t, size)) <= m
    /\ \A j \in 1..m : \E k \in 0..(size - 1) :
          /\ t[Probe(h[j], size, k)] = j
          /\ \A i \in 0..(k - 1) : t[Probe(h[j], size, i)] \notin {0, j}

\* The slots in use can be counted; if they are fewer than all, one is empty.
LEMMA UsedIsFinite ==
    ASSUME NEW t, NEW size \in Nat
    PROVE  /\ IsFiniteSet(Used(t, size))
           /\ Cardinality(Used(t, size)) \in Nat
           /\ Cardinality(Used(t, size)) < size => \E i \in 0..(size - 1) : t[i] = 0
<1>1. IsFiniteSet(0..(size - 1)) /\ Cardinality(0..(size - 1)) = size
  <2>1. 0 \in Int /\ size - 1 \in Int
    OBVIOUS
  <2> QED
    BY <2>1, FS_Interval
<1>2. Used(t, size) \in SUBSET (0..(size - 1))
  BY DEF Used
<1>3. IsFiniteSet(Used(t, size))
  BY <1>1, <1>2, FS_Subset
<1>4. Cardinality(Used(t, size)) \in Nat
  BY <1>3, FS_CardinalityType
<1>5. ASSUME Cardinality(Used(t, size)) < size PROVE \E i \in 0..(size - 1) : t[i] = 0
  <2>1. Used(t, size) # 0..(size - 1)
    BY <1>1, <1>4, <1>5
  <2> QED
    BY <1>2, <2>1 DEF Used
<1> QED
  BY <1>3, <1>4, <1>5

\* A string goes to the first empty one of the slots tried for it, the k-th.
Goes(t, size, hash, number, k) ==
    /\ t[Probe(hash, size, k)] = 0
    /\ \A i \in 0..(k - 1) : t[Probe(hash, size, i)] # 0
    /\ Probe(hash, size, k) \in 0..(size - 1)
    /\ Inserted(t, size, hash, number) = [t EXCEPT ![Probe(hash, size, k)] = number]

\* As all slots are tried, an empty one is found.
LEMMA InsertedIs ==
    ASSUME NEW size \in Nat, size > 2, NEW hash, Covers(hash, size), NEW t, NEW number,
           \E i \in 0..(size - 1) : t[i] = 0
    PROVE  \E k \in 0..(size - 1) : Goes(t, size, hash, number, k)
<1> DEFINE empty == {i \in 0..(size - 1) : t[Probe(hash, size, i)] = 0}
<1>1. empty # {}
  BY DEF Covers
<1>2. \E n \in empty : \A m \in empty : n <= m
  <2>1. empty \subseteq Nat
    OBVIOUS
  <2> HIDE DEF empty
  <2> QED
    BY <1>1, <2>1, LeastOf
<1>3. Min(empty) \in empty /\ \A m \in empty : Min(empty) <= m
  BY <1>2 DEF Min
<1>4. Inserted(t, size, hash, number)
        = [t EXCEPT ![Probe(hash, size, Min(empty))] = number]
  BY DEF Inserted
<1>a. PICK k : k = Min(empty)
  OBVIOUS
<1>5. k \in 0..(size - 1) /\ t[Probe(hash, size, k)] = 0
  BY <1>3, <1>a
<1>6. \A i \in 0..(k - 1) : t[Probe(hash, size, i)] # 0
  <2> SUFFICES ASSUME NEW i \in 0..(k - 1), t[Probe(hash, size, i)] = 0 PROVE FALSE
    OBVIOUS
  <2>1. i \in empty
    BY <1>5
  <2> QED
    BY <1>3, <1>5, <1>a, <2>1
<1>7. Probe(hash, size, k) \in 0..(size - 1)
  <2>1. hash \in Nat /\ k \in Nat
    BY <1>5 DEF Covers
  <2> QED
    BY <2>1, ProbeIsSlot
<1> HIDE DEF empty
<1>8. Goes(t, size, hash, number, k)
  BY <1>4, <1>5, <1>6, <1>7, <1>a DEF Goes
<1> QED
  BY <1>5, <1>8

\* A string that is put in leaves those in front of it where look-ups find them.
LEMMA InsertedHolds ==
    ASSUME NEW size \in Nat, size > 2, NEW h, NEW m \in Nat, m < size,
           \A j \in 1..(m + 1) : Covers(h[j], size),
           NEW t, Holds(t, size, h, m)
    PROVE  Holds(Inserted(t, size, h[m + 1], m + 1), size, h, m + 1)
<1> DEFINE new == Inserted(t, size, h[m + 1], m + 1)
<1>0. Covers(h[m + 1], size) /\ t \in [0..(size - 1) -> 0..m]
  BY DEF Holds
<1>1. \E i \in 0..(size - 1) : t[i] = 0
  BY UsedIsFinite DEF Holds
<1>2. PICK k \in 0..(size - 1) : Goes(t, size, h[m + 1], m + 1, k)
  BY <1>0, <1>1, InsertedIs
<1> DEFINE p == Probe(h[m + 1], size, k)
<1>3. /\ p \in 0..(size - 1) /\ t[p] = 0 /\ new = [t EXCEPT ![p] = m + 1]
      /\ \A i \in 0..(k - 1) : t[Probe(h[m + 1], size, i)] # 0
  BY <1>2 DEF Goes
<1> HIDE DEF new
<1>4. new \in [0..(size - 1) -> 0..(m + 1)]
  BY <1>0, <1>3
<1>5. new[p] = m + 1 /\ \A i \in 0..(size - 1) : i # p => new[i] = t[i]
  BY <1>0, <1>3
<1>6. Cardinality(Used(new, size)) <= m + 1
  <2>1. Used(new, size) = Used(t, size) \cup {p}
    BY <1>3, <1>5 DEF Used
  <2>2. /\ IsFiniteSet(Used(t, size)) /\ Cardinality(Used(t, size)) \in Nat
        /\ Cardinality(Used(t, size)) <= m
    BY UsedIsFinite DEF Holds
  <2>3. Cardinality(Used(t, size) \cup {p})
          = IF p \in Used(t, size) THEN Cardinality(Used(t, size))
                                   ELSE Cardinality(Used(t, size)) + 1
    BY <2>2, FS_AddElement
  <2> QED
    BY <2>1, <2>2, <2>3
<1>7. ASSUME NEW j \in 1..(m + 1)
      PROVE  \E n \in 0..(size - 1) :
                /\ new[Probe(h[j], size, n)] = j
                /\ \A i \in 0..(n - 1) : new[Probe(h[j], size, i)] \notin {0, j}
  <2>1. \A i \in 0..(size - 1) : Probe(h[j], size, i) \in 0..(size - 1)
    <3>1. h[j] \in Nat
      BY DEF Covers
    <3>2. \A i \in 0..(size - 1) : i \in Nat
      OBVIOUS
    <3> QED
      BY <3>1, <3>2, ProbeIsSlot
  <2>2. CASE j = m + 1
    <3>1. new[Probe(h[j], size, k)] = j
      BY <1>5, <2>2
    <3>2. ASSUME NEW i \in 0..(k - 1)
          PROVE  new[Probe(h[j], size, i)] \notin {0, j}
      <4>1. i \in 0..(size - 1) /\ Probe(h[j], size, i) \in 0..(size - 1)
        BY <2>1
      <4>2. t[Probe(h[j], size, i)] # 0
        BY <1>3, <2>2
      <4>3. Probe(h[j], size, i) # p
        BY <1>3, <4>2
      <4>4. t[Probe(h[j], size, i)] \in 0..m
        BY <1>0, <4>1
      <4> HIDE DEF p
      <4> QED
        BY <1>5, <2>2, <4>1, <4>2, <4>3, <4>4
    <3> QED
      BY <3>1, <3>2
  <2>3. CASE j # m + 1
    <3>1. PICK n \in 0..(size - 1) :
             /\ t[Probe(h[j], size, n)] = j
             /\ \A i \in 0..(n - 1) : t[Probe(h[j], size, i)] \notin {0, j}
      <4>1. j \in 1..m
        BY <2>3
      <4> QED
        BY <4>1, Zenon DEF Holds
    <3> HIDE DEF p
    <3>2. new[Probe(h[j], size, n)] = j
      BY <1>3, <1>5, <2>1, <3>1
    <3>3. ASSUME NEW i \in 0..(n - 1) PROVE new[Probe(h[j], size, i)] \notin {0, j}
      <4>1. i \in 0..(size - 1)
        OBVIOUS
      <4> QED
        BY <1>3, <1>5, <2>1, <3>1, <4>1
    <3> QED
      BY <3>2, <3>3
  <2> QED
    BY <2>2, <2>3
<1> QED
  BY <1>4, <1>6, <1>7 DEF Holds, new

\* An empty table holds nothing.
LEMMA EmptyHolds ==
    ASSUME NEW size \in Nat, NEW h PROVE Holds(Empty(size), size, h, 0)
<1>1. Used(Empty(size), size) = {}
  BY DEF Used, Empty
<1>2. Cardinality(Used(Empty(size), size)) = 0
  BY <1>1, FS_EmptySet
<1> QED
  BY <1>2 DEF Holds, Empty

\* Filling a table is one insertion after the other.
Filling(fill, t, size, hashes, m) ==
    /\ fill[0] = t
    /\ \A n \in 0..(Len(hashes) - 1) :
          fill[n + 1] = Inserted(fill[n], size, hashes[n + 1], m + (n + 1))
    /\ Filled(t, size, hashes, m) = fill[Len(hashes)]

\* The rounds of filling a table exist.
LEMMA FilledIs ==
    ASSUME NEW size \in Nat, NEW m \in Nat, NEW t \in [0..(size - 1) -> Nat],
           NEW hashes, Len(hashes) \in Nat
    PROVE  \E fill \in [Nat -> [0..(size - 1) -> Nat]] : Filling(fill, t, size, hashes, m)
<1> DEFINE V == [0..(size - 1) -> Nat]
           N == Len(hashes)
           g == [p \in Nat \X V |-> Inserted(p[2], size, hashes[p[1] + 1], m + (p[1] + 1))]
<1>1. g \in [Nat \X V -> V]
  <2>1. ASSUME NEW n \in Nat, NEW u \in V
        PROVE  Inserted(u, size, hashes[n + 1], m + (n + 1)) \in V
    <3>1. m + (n + 1) \in Nat
      OBVIOUS
    <3> QED
      BY <3>1 DEF Inserted
  <2> HIDE DEF V
  <2> QED
    BY <2>1
<1>2. PICK f \in [Nat -> V] : Recurs(f, t, g)
  <2> HIDE DEF V, g
  <2>1. t \in V
    BY DEF V
  <2> QED
    BY <1>1, <2>1, Recursion
<1>3. ASSUME NEW n \in Nat
      PROVE  f[n + 1] = Inserted(f[n], size, hashes[n + 1], m + (n + 1))
  <2> HIDE DEF V
  <2>1. <<n, f[n]>> \in Nat \X V
    BY <1>2
  <2> QED
    BY <1>2, <2>1 DEF Recurs
<1> DEFINE eq(F) == F = [n \in 0..N |-> IF n = 0 THEN t
                           ELSE Inserted(F[n - 1], size, hashes[n], m + n)]
           F0 == [n \in 0..N |-> f[n]]
<1> HIDE DEF V, g
<1>4. eq(F0)
  <2>1. ASSUME NEW n \in 0..N, n # 0
        PROVE  f[n] = Inserted(F0[n - 1], size, hashes[n], m + n)
    <3>1. n - 1 \in Nat /\ n - 1 \in 0..N /\ (n - 1) + 1 = n
      BY <2>1
    <3>2. f[(n - 1) + 1] = Inserted(f[n - 1], size, hashes[(n - 1) + 1], m + ((n - 1) + 1))
      BY <1>3, <3>1
    <3>3. F0[n - 1] = f[n - 1]
      BY <3>1
    <3> QED
      BY <3>1, <3>2, <3>3
  <2> QED
    BY <1>2, <2>1 DEF Recurs
<1> DEFINE G == CHOOSE F : eq(F)
<1>5. eq(G)
  BY <1>4
<1>6. Filled(t, size, hashes, m) = G[N]
  BY DEF Filled
<1> HIDE DEF G
<1>7. \A n \in Nat : n <= N => G[n] = f[n]
  <2> DEFINE S == {n \in Nat : n <= N => G[n] = f[n]}
  <2>1. 0 \in S
    BY <1>2, <1>5 DEF Recurs
  <2>2. ASSUME NEW n \in Nat, n \in S PROVE n + 1 \in S
    <3> SUFFICES ASSUME n + 1 <= N PROVE G[n + 1] = f[n + 1]
      OBVIOUS
    <3>1. G[n] = f[n]
      BY <2>2
    <3>2. n + 1 \in 0..N /\ n + 1 # 0 /\ (n + 1) - 1 = n
      OBVIOUS
    <3>3. G[n + 1] = Inserted(G[(n + 1) - 1], size, hashes[n + 1], m + (n + 1))
      BY <1>5, <3>2
    <3> QED
      BY <1>3, <3>1, <3>2, <3>3
  <2> HIDE DEF S
  <2>3. Nat \subseteq S
    BY <2>1, <2>2, Induction
  <2> QED
    BY <2>3 DEF S
<1> HIDE DEF eq, F0
<1>8. Filled(t, size, hashes, m) = f[N]
  BY <1>6, <1>7
<1>9. \A n \in 0..(N - 1) : f[n + 1] = Inserted(f[n], size, hashes[n + 1], m + (n + 1))
  BY <1>3
<1>10. Filling(f, t, size, hashes, m)
  BY <1>2, <1>8, <1>9 DEF Filling, Recurs
<1> QED
  BY <1>10 DEF V

\* A table holds what it is filled with, after what it held before.
LEMMA FilledHolds ==
    ASSUME NEW size \in Nat, size > 2, NEW h, NEW m \in Nat, NEW t, Holds(t, size, h, m),
           NEW hashes, Len(hashes) \in Nat, m + Len(hashes) < size,
           \A n \in 1..Len(hashes) : hashes[n] = h[m + n],
           \A j \in 1..(m + Len(hashes)) : Covers(h[j], size)
    PROVE  Holds(Filled(t, size, hashes, m), size, h, m + Len(hashes))
<1> DEFINE N == Len(hashes)
<1>1. t \in [0..(size - 1) -> Nat]
  BY DEF Holds
<1>2. PICK fill \in [Nat -> [0..(size - 1) -> Nat]] : Filling(fill, t, size, hashes, m)
  BY <1>1, FilledIs
<1> DEFINE S == {n \in Nat : n <= N => Holds(fill[n], size, h, m + n)}
<1>3. 0 \in S
  <2>1. m + 0 = m
    OBVIOUS
  <2> QED
    BY <1>2, <2>1 DEF Filling
<1>4. ASSUME NEW n \in Nat, n \in S PROVE n + 1 \in S
  <2> SUFFICES ASSUME n + 1 <= N PROVE Holds(fill[n + 1], size, h, m + (n + 1))
    OBVIOUS
  <2>1. Holds(fill[n], size, h, m + n)
    BY <1>4
  <2>2. fill[n + 1] = Inserted(fill[n], size, hashes[n + 1], m + (n + 1))
    BY <1>2 DEF Filling
  <2>3. /\ hashes[n + 1] = h[m + (n + 1)] /\ m + (n + 1) = (m + n) + 1
        /\ m + n \in Nat /\ m + n < size
        /\ \A j \in 1..((m + n) + 1) : Covers(h[j], size)
    <3>1. n + 1 \in 1..Len(hashes)
      OBVIOUS
    <3>2. hashes[n + 1] = h[m + (n + 1)]
      BY <3>1
    <3>3. \A j \in 1..((m + n) + 1) : j \in 1..(m + Len(hashes))
      BY <3>1
    <3>4. m + (n + 1) = (m + n) + 1 /\ m + n \in Nat /\ m + n < size
      OBVIOUS
    <3>5. \A j \in 1..((m + n) + 1) : Covers(h[j], size)
      BY <3>3
    <3> QED
      BY <3>2, <3>4, <3>5
  <2>4. Holds(Inserted(fill[n], size, h[(m + n) + 1], (m + n) + 1), size, h, (m + n) + 1)
    BY <2>1, <2>3, InsertedHolds
  <2> QED
    BY <2>2, <2>3, <2>4
<1> HIDE DEF S
<1>5. Nat \subseteq S
  BY <1>3, <1>4, Induction
<1> QED
  BY <1>2, <1>5 DEF S, Filling

-----------------------------------------------------------------------------
(* What is loaded from a file.                                             *)

ValidPlaces(f) == {i \in DOMAIN f.sysdep : CheckPair(f, f.sysdep[i]) = "valid"}

\* The strings that are kept are the valid ones, each once.
LEMMA KeptIs ==
    ASSUME NEW f, IsSequence(f.sysdep)
    PROVE  /\ Cardinality(ValidPlaces(f)) \in Nat
           /\ DOMAIN Kept(f) = 1..Cardinality(ValidPlaces(f))
           /\ \A k \in DOMAIN Kept(f) : Kept(f)[k] \in ValidPlaces(f)
           /\ \A i \in ValidPlaces(f) : \E k \in DOMAIN Kept(f) : Kept(f)[k] = i
<1>1. DOMAIN f.sysdep = 1..Len(f.sysdep) /\ Len(f.sysdep) \in Nat
  BY DEF IsSequence
<1>2. ValidPlaces(f) \in SUBSET (1..Len(f.sysdep))
  BY <1>1 DEF ValidPlaces
<1>3. IsFiniteSet(ValidPlaces(f)) /\ ValidPlaces(f) \in SUBSET Nat
  <2>1. IsFiniteSet(1..Len(f.sysdep))
    BY <1>1, FS_Interval
  <2>2. 1..Len(f.sysdep) \subseteq Nat
    BY <1>1
  <2> QED
    BY <1>2, <2>1, <2>2, FS_Subset
<1>4. Kept(f) = Ascending(ValidPlaces(f))
  BY DEF Kept, ValidPlaces
<1> QED
  BY <1>3, <1>4, AscendingIs

\* What is added on this system is a list.
LEMMA SysdepIs ==
    ASSUME NEW f, IsSequence(f.sysdep)
    PROVE  /\ Len(Sysdep(f)) \in Nat /\ DOMAIN Sysdep(f) = 1..Len(Sysdep(f))
           /\ Sysdep(f) = <<>> <=> Len(Sysdep(f)) = 0
<1>1. CASE f.minor > 0
  <2> DEFINE n == Cardinality(ValidPlaces(f))
             s == InMemory(f)
  <2>1. n \in Nat /\ DOMAIN Kept(f) = 1..n
    BY KeptIs
  <2>2. s = [k \in 1..n |-> s[k]]
    BY <2>1 DEF InMemory
  <2>3. Sysdep(f) = s
    BY <1>1 DEF Sysdep
  <2> HIDE DEF s, n
  <2>4. Len(s) = n /\ DOMAIN s = 1..n /\ (s = <<>> <=> n = 0)
    BY <2>1, <2>2, SequenceOfFunction
  <2> QED
    BY <2>1, <2>3, <2>4
<1>2. CASE ~(f.minor > 0)
  BY <1>2 DEF Sysdep
<1> QED
  BY <1>1, <1>2

\* The lists of a file that msgfmt wrote.
LEMMA WrittenIs ==
    ASSUME NEW f, Written(f)
    PROVE  /\ f.strings \in Seq(ToSet(f.strings)) /\ Len(f.strings) \in Nat
           /\ DOMAIN f.strings = 1..Len(f.strings)
           /\ Len(Sysdep(f)) \in Nat /\ DOMAIN Sysdep(f) = 1..Len(Sysdep(f))
           /\ Sysdep(f) = <<>> <=> Len(Sysdep(f)) = 0
<1>1. IsSequence(f.strings) /\ IsSequence(f.sysdep)
  BY DEF Written
<1>2. f.strings \in Seq(ToSet(f.strings))
  BY <1>1 DEF IsSequence
<1> QED
  BY <1>1, <1>2, SysdepIs

\* A number is that of a string of the file, or of one added on this system.
LEMMA ActIs ==
    ASSUME NEW f, Written(f), NEW act \in ActsOf(Loaded(f))
    PROVE  /\ act \in Nat /\ act < Len(f.strings) + Len(Sysdep(f))
           /\ act < Len(f.strings) => /\ act + 1 \in DOMAIN f.strings
                                      /\ StringOf(Loaded(f), act) = f.strings[act + 1]
           /\ ~(act < Len(f.strings)) =>
                 /\ act - Len(f.strings) + 1 \in DOMAIN Sysdep(f)
                 /\ StringOf(Loaded(f), act) = Sysdep(f)[act - Len(f.strings) + 1]
<1>1. Loaded(f).strings = f.strings /\ Loaded(f).sysdep = Sysdep(f)
  BY DEF Loaded
<1>2. act \in 0..(Len(f.strings) + Len(Sysdep(f)) - 1)
  BY <1>1 DEF ActsOf
<1>3. act \in Nat /\ act < Len(f.strings) + Len(Sysdep(f))
  BY <1>2, WrittenIs
<1>4. act < Len(f.strings) => /\ act + 1 \in DOMAIN f.strings
                              /\ StringOf(Loaded(f), act) = f.strings[act + 1]
  BY <1>1, <1>3, WrittenIs DEF StringOf
<1>5. ~(act < Len(f.strings)) =>
                 /\ act - Len(f.strings) + 1 \in DOMAIN Sysdep(f)
                 /\ StringOf(Loaded(f), act) = Sysdep(f)[act - Len(f.strings) + 1]
  <2> SUFFICES ASSUME ~(act < Len(f.strings))
               PROVE  /\ act - Len(f.strings) + 1 \in DOMAIN Sysdep(f)
                      /\ StringOf(Loaded(f), act) = Sysdep(f)[act - Len(f.strings) + 1]
    OBVIOUS
  <2>1. /\ Len(f.strings) \in Nat /\ Len(Sysdep(f)) \in Nat
        /\ DOMAIN Sysdep(f) = 1..Len(Sysdep(f))
    BY WrittenIs
  <2>2. act - Len(f.strings) + 1 \in 1..Len(Sysdep(f))
    BY <1>3, <2>1
  <2>3. StringOf(Loaded(f), act) = Sysdep(f)[act - Len(f.strings) + 1]
    BY <1>1 DEF StringOf
  <2> QED
    BY <2>1, <2>2, <2>3
<1> QED
  BY <1>3, <1>4, <1>5

\* Every string has one of the ids.
LEMMA IdKnown ==
    ASSUME NEW f, Written(f), NEW act \in ActsOf(Loaded(f))
    PROVE  StringOf(Loaded(f), act).id \in ToSet(Ids)
<1> DEFINE ids == [i \in DOMAIN f.strings |-> f.strings[i].id]
           added == [i \in DOMAIN Sysdep(f) |-> Sysdep(f)[i].id]
<1>1. ToSet(ids) \union ToSet(added) \subseteq ToSet(Ids)
  BY DEF Written
<1>2. CASE act < Len(f.strings)
  <2>1. act + 1 \in DOMAIN ids /\ ids[act + 1] = StringOf(Loaded(f), act).id
    BY <1>2, ActIs
  <2>2. ids[act + 1] \in ToSet(ids)
    BY <2>1 DEF ToSet
  <2> QED
    BY <1>1, <2>1, <2>2
<1>3. CASE ~(act < Len(f.strings))
  <2> DEFINE i == act - Len(f.strings) + 1
  <2>1. i \in DOMAIN added /\ added[i] = StringOf(Loaded(f), act).id
    BY <1>3, ActIs
  <2>2. added[i] \in ToSet(added)
    BY <2>1 DEF ToSet
  <2> QED
    BY <1>1, <2>1, <2>2
<1> QED
  BY <1>2, <1>3

\* No two strings of a file have the same id.
LEMMA IdsApart ==
    ASSUME NEW f, Written(f), NEW a \in ActsOf(Loaded(f)), NEW b \in ActsOf(Loaded(f)),
           StringOf(Loaded(f), a).id = StringOf(Loaded(f), b).id
    PROVE  a = b
<1> DEFINE ids == [i \in DOMAIN f.strings |-> f.strings[i].id]
           added == [i \in DOMAIN Sysdep(f) |-> Sysdep(f)[i].id]
           n == Len(f.strings)
<1>1. /\ ToSet(ids) \union ToSet(added) \subseteq ToSet(Ids)
      /\ \A i, j \in DOMAIN ids : i < j => Place(ids[i]) < Place(ids[j])
      /\ \A i, j \in DOMAIN added : added[i] = added[j] => i = j
      /\ ToSet(ids) \intersect ToSet(added) = {}
  BY DEF Written
<1>2. n \in Nat /\ DOMAIN ids = 1..n
  BY WrittenIs
<1>3. a \in Nat /\ b \in Nat
  BY ActIs
<1>4. CASE a < n /\ b < n
  <2>1. a + 1 \in DOMAIN ids /\ b + 1 \in DOMAIN ids /\ ids[a + 1] = ids[b + 1]
    BY <1>4, ActIs
  <2>2. ~(a + 1 < b + 1) /\ ~(b + 1 < a + 1)
    <3>1. Place(ids[a + 1]) \in Nat
      <4>1. ids[a + 1] \in ToSet(Ids)
        BY <1>1, <2>1 DEF ToSet
      <4> QED
        BY <4>1, IdsAssumption DEF Place, ToSet
    <3> HIDE DEF ids
    <3> QED
      BY <1>1, <2>1, <3>1
  <2> QED
    BY <1>3, <2>2
<1>5. CASE ~(a < n) /\ ~(b < n)
  <2>1. /\ a - n + 1 \in DOMAIN added /\ b - n + 1 \in DOMAIN added
        /\ added[a - n + 1] = added[b - n + 1]
    BY <1>5, ActIs
  <2>2. a - n + 1 = b - n + 1
    BY <1>1, <2>1
  <2> QED
    BY <1>2, <1>3, <2>2
<1>6. ASSUME NEW x \in ActsOf(Loaded(f)), NEW y \in ActsOf(Loaded(f)), x < n, ~(y < n),
             StringOf(Loaded(f), x).id = StringOf(Loaded(f), y).id
      PROVE  FALSE
  <2>1. x + 1 \in DOMAIN ids /\ ids[x + 1] = StringOf(Loaded(f), x).id
    BY <1>6, ActIs
  <2>2. /\ y - n + 1 \in DOMAIN added
        /\ added[y - n + 1] = StringOf(Loaded(f), y).id
    BY <1>6, ActIs
  <2>3. StringOf(Loaded(f), x).id \in ToSet(ids) /\ StringOf(Loaded(f), y).id \in ToSet(added)
    BY <2>1, <2>2 DEF ToSet
  <2> QED
    BY <1>1, <1>6, <2>3
<1> QED
  BY <1>4, <1>5, <1>6

-----------------------------------------------------------------------------
(* Looking up by hash value.                                               *)

\* Swapping the bytes of a word twice changes nothing.
LEMMA Unswapped ==
    ASSUME NEW swap \in BOOLEAN, NEW x \in Int
    PROVE  W(swap, W(swap, x)) = x
BY DEF W

\* The numbers in the table that look-ups see.
Seen(t) == [i \in 0..(t.size - 1) |-> W(t.swapTable, t.table[i])]

\* The hash value of a string.
HashOfNumber(f) == [j \in Nat |-> f.hash[StringOf(Loaded(f), j - 1).id]]

\* A table has room for all strings, and every slot is tried for each.
LEMMA StoredFromFile ==
    ASSUME NEW f, Written(f), f.size > 2
    PROVE  /\ Len(f.strings) + Len(Sysdep(f)) \in Nat
           /\ Len(f.strings) + Len(Sysdep(f)) < f.size
           /\ Loaded(f).size = f.size /\ f.size \in Nat
           /\ \A j \in 1..(Len(f.strings) + Len(Sysdep(f))) :
                 Covers(HashOfNumber(f)[j], f.size)
           /\ \A id \in ToSet(Ids) : Covers(f.hash[id], f.size)
<1>1. /\ Len(f.strings) + Len(Sysdep(f)) < f.size /\ f.size \in Nat
      /\ \A id \in ToSet(Ids), slot \in 0..(f.size - 1) :
            \E k \in 0..(f.size - 1) : Probe(f.hash[id], f.size, k) = slot
      /\ \A id \in ToSet(Ids) : f.hash[id] \in Nat
  BY DEF Written
<1>2. \A id \in ToSet(Ids) : Covers(f.hash[id], f.size)
  BY <1>1 DEF Covers
<1>3. Len(f.strings) \in Nat /\ Len(Sysdep(f)) \in Nat
  BY WrittenIs
<1>4. Loaded(f).size = f.size
  BY DEF Loaded
<1>5. ASSUME NEW j \in 1..(Len(f.strings) + Len(Sysdep(f)))
      PROVE  HashOfNumber(f)[j] = f.hash[StringOf(Loaded(f), j - 1).id]
             /\ StringOf(Loaded(f), j - 1).id \in ToSet(Ids)
  <2>1. j - 1 \in ActsOf(Loaded(f)) /\ j \in Nat
    BY <1>3 DEF ActsOf, Loaded
  <2>2. HashOfNumber(f)[j] = f.hash[StringOf(Loaded(f), j - 1).id]
    BY <2>1 DEF HashOfNumber
  <2>3. StringOf(Loaded(f), j - 1).id \in ToSet(Ids)
    BY <2>1, IdKnown
  <2> QED
    BY <2>2, <2>3
<1> QED
  BY <1>1, <1>2, <1>3, <1>4, <1>5

\* The hash values of some strings, one for one.
LEMMA HashesAre ==
    ASSUME NEW f, NEW strings, DOMAIN strings = 1..Len(strings), Len(strings) \in Nat
    PROVE  /\ Len(HashesOf(f, strings)) = Len(strings)
           /\ \A i \in 1..Len(strings) : HashesOf(f, strings)[i] = f.hash[strings[i].id]
<1> DEFINE s == HashesOf(f, strings)
<1>1. s = [k \in 1..Len(strings) |-> s[k]]
  BY DEF HashesOf
<1>2. \A i \in 1..Len(strings) : s[i] = f.hash[strings[i].id]
  BY DEF HashesOf
<1> HIDE DEF s
<1>3. Len(s) = Len(strings)
  BY <1>1, SequenceOfFunction
<1> QED
  BY <1>2, <1>3 DEF s

\* The words of the file's table as numbers.
LEMMA CopyHolds ==
    ASSUME NEW f, Written(f), f.size > 2
    PROVE  /\ Holds(Copy(f), f.size, HashOfNumber(f), Len(f.strings))
           /\ Copy(f) = [i \in 0..(f.size - 1) |-> W(f.swapped, HashTable(f)[i])]
<1> DEFINE n == Len(f.strings)
           size == f.size
           h == HashOfNumber(f)
           hashes == HashesOf(f, f.strings)
           T == Filled(Empty(size), size, hashes, 0)
<1>1. n \in Nat /\ DOMAIN f.strings = 1..n /\ Len(Sysdep(f)) \in Nat
  BY WrittenIs
<1>2. Len(hashes) = n /\ \A i \in 1..n : hashes[i] = f.hash[f.strings[i].id]
  BY <1>1, HashesAre
<1>3. \A i \in 1..n : h[i] = f.hash[f.strings[i].id]
  <2> SUFFICES ASSUME NEW i \in 1..n PROVE h[i] = f.hash[f.strings[i].id]
    OBVIOUS
  <2>1. i - 1 \in ActsOf(Loaded(f)) /\ i - 1 < n /\ (i - 1) + 1 = i /\ i \in Nat
    BY <1>1 DEF ActsOf, Loaded
  <2>2. StringOf(Loaded(f), i - 1) = f.strings[(i - 1) + 1]
    BY <2>1, ActIs
  <2> QED
    BY <2>1, <2>2 DEF HashOfNumber
<1>4. Holds(T, size, h, n)
  <2>1. /\ size \in Nat /\ n < size
        /\ \A j \in 1..n : Covers(h[j], size)
    BY <1>1, StoredFromFile
  <2>2. Holds(Empty(size), size, h, 0)
    BY <2>1, EmptyHolds
  <2> HIDE DEF h, hashes, size, n
  <2>3. \A i \in 1..Len(hashes) : hashes[i] = h[0 + i]
    BY <1>1, <1>2, <1>3
  <2>4. /\ 0 + Len(hashes) = n /\ Len(hashes) \in Nat /\ 0 + Len(hashes) < size
        /\ \A j \in 1..(0 + Len(hashes)) : Covers(h[j], size)
    BY <1>1, <1>2, <2>1
  <2>5. size > 2 /\ 0 \in Nat
    BY DEF size
  <2>6. Holds(Filled(Empty(size), size, hashes, 0), size, h, 0 + Len(hashes))
    BY <2>1, <2>2, <2>3, <2>4, <2>5, FilledHolds
  <2> QED
    BY <2>4, <2>6
<1>5. T \in [0..(size - 1) -> 0..n]
  BY <1>4 DEF Holds
<1>6. HashTable(f) = [i \in 0..(size - 1) |-> W(f.swapped, T[i])]
  <2>1. HashTable(f) = [i \in DOMAIN T |-> W(f.swapped, T[i])]
    BY DEF HashTable
  <2> HIDE DEF T
  <2> QED
    BY <1>5, <2>1
<1> HIDE DEF T
<1>7. Copy(f) = [i \in 0..(size - 1) |-> W(f.swapped, HashTable(f)[i])]
  BY <1>6 DEF Copy
<1>8. Copy(f) = T
  <2>1. ASSUME NEW i \in 0..(size - 1) PROVE Copy(f)[i] = T[i]
    <3>1. T[i] \in Int /\ f.swapped \in BOOLEAN
      BY <1>1, <1>5 DEF Written
    <3>2. Copy(f)[i] = W(f.swapped, W(f.swapped, T[i]))
      BY <1>6, <1>7
    <3> QED
      BY <3>1, <3>2, Unswapped
  <2> QED
    BY <1>5, <1>7, <2>1
<1> QED
  BY <1>4, <1>7, <1>8

\* The table that is looked up holds all the strings.
LEMMA SeenHolds ==
    ASSUME NEW f, Written(f), f.size > 2
    PROVE  Holds(Seen(Loaded(f)), f.size, HashOfNumber(f), Len(f.strings) + Len(Sysdep(f)))
<1> DEFINE n == Len(f.strings)
           m == Len(Sysdep(f))
           size == f.size
           h == HashOfNumber(f)
           t == Loaded(f)
<1>0. n \in Nat /\ m \in Nat /\ DOMAIN Sysdep(f) = 1..m /\ (Sysdep(f) = <<>> <=> m = 0)
  BY WrittenIs
<1>1. t.size = size /\ t.table = Augmented(f, Sysdep(f))
      /\ t.swapTable = (f.swapped /\ Sysdep(f) = <<>>)
  BY DEF Loaded
<1>2. CASE Sysdep(f) = <<>>
  <2>1. t.table = HashTable(f) /\ t.swapTable = f.swapped /\ m = 0
    BY <1>0, <1>1, <1>2 DEF Augmented, Written
  <2>2. Seen(t) = Copy(f)
    BY <1>1, <2>1, CopyHolds DEF Seen
  <2>3. n + m = n
    BY <1>0, <2>1
  <2> QED
    BY <2>2, <2>3, CopyHolds
<1>3. CASE Sysdep(f) # <<>>
  <2> DEFINE hashes == HashesOf(f, Sysdep(f))
             T == Filled(Copy(f), size, hashes, n)
  <2>1. t.table = T /\ t.swapTable = FALSE
    BY <1>1, <1>3 DEF Augmented
  <2>2. Len(hashes) = m /\ \A i \in 1..m : hashes[i] = f.hash[Sysdep(f)[i].id]
    BY <1>0, HashesAre
  <2>3. \A i \in 1..m : h[n + i] = f.hash[Sysdep(f)[i].id]
    <3> SUFFICES ASSUME NEW i \in 1..m PROVE h[n + i] = f.hash[Sysdep(f)[i].id]
      OBVIOUS
    <3> DEFINE a == n + i - 1
    <3>1. a \in ActsOf(t) /\ ~(a < n) /\ a - n + 1 = i /\ n + i \in Nat
      BY <1>0 DEF ActsOf, Loaded
    <3>2. StringOf(t, a) = Sysdep(f)[a - n + 1]
      BY <3>1, ActIs
    <3>3. h[n + i] = f.hash[StringOf(t, a).id]
      <4>1. \A j \in Nat : h[j] = f.hash[StringOf(t, j - 1).id]
        BY Zenon DEF HashOfNumber
      <4>2. n \in Nat /\ i \in Nat
        BY <1>0
      <4> HIDE DEF n, m, size, h, t, hashes, T
      <4> QED
        BY <4>1, <4>2, <3>1
    <3> QED
      BY <3>1, <3>2, <3>3, Zenon
  <2>4. /\ Holds(Copy(f), size, h, n) /\ size \in Nat /\ n + m < size
        /\ \A j \in 1..(n + m) : Covers(h[j], size)
    BY CopyHolds, StoredFromFile
  <2>5. Holds(T, size, h, n + m)
    <3>1. size > 2
      OBVIOUS
    <3> HIDE DEF h, hashes, size, n, m
    <3>2. /\ \A i \in 1..Len(hashes) : hashes[i] = h[n + i]
          /\ Len(hashes) \in Nat /\ n + Len(hashes) < size
          /\ \A j \in 1..(n + Len(hashes)) : Covers(h[j], size)
      BY <1>0, <2>2, <2>3, <2>4
    <3>3. Holds(Filled(Copy(f), size, hashes, n), size, h, n + Len(hashes))
      BY <1>0, <2>4, <3>1, <3>2, FilledHolds
    <3> QED
      BY <2>2, <3>3
  <2>6. Seen(t) = T
    <3>1. T \in [0..(size - 1) -> 0..(n + m)]
      BY <2>5 DEF Holds
    <3> HIDE DEF T
    <3>2. Seen(t) = [i \in 0..(size - 1) |-> T[i]]
      BY <1>1, <2>1 DEF Seen, W
    <3> QED
      BY <3>1, <3>2
  <2> QED
    BY <2>5, <2>6
<1> QED
  BY <1>2, <1>3

\* The right string, or none, is where a look-up by hash value stops.
FoundRight(t, id, act) ==
    /\ \A a \in ActsOf(t) : StringOf(t, a).id = id => act = a
    /\ (\A a \in ActsOf(t) : StringOf(t, a).id # id) => act = None

\* In a file with a hash table a look-up stops, with the right string or none.
LEMMA ByHash ==
    ASSUME NEW f, Written(f), f.size > 2, NEW id \in ToSet(Ids)
    PROVE  FoundRight(Loaded(f), id, FindByHash(Loaded(f), f.hash[id], id))
<1> DEFINE n == Len(f.strings) + Len(Sysdep(f))
           size == f.size
           h == HashOfNumber(f)
           t == Loaded(f)
           G == Seen(t)
           hash == f.hash[id]
           nstr(k) == W(t.swapTable, t.table[Probe(hash, t.size, k)]) - 1
           stops == {k \in 0..(t.size - 1) :
                       \/ nstr(k) = -1
                       \/ nstr(k) \in ActsOf(t) /\ StringOf(t, nstr(k)).id = id}
           act == FindByHash(t, hash, id)
<1>1. /\ n \in Nat /\ n < size /\ t.size = size /\ size \in Nat
      /\ Covers(hash, size)
  BY StoredFromFile
<1>2. /\ G \in [0..(size - 1) -> 0..n]
      /\ Cardinality(Used(G, size)) <= n
      /\ \A j \in 1..n : \E k \in 0..(size - 1) :
            /\ G[Probe(h[j], size, k)] = j
            /\ \A i \in 0..(k - 1) : G[Probe(h[j], size, i)] \notin {0, j}
  BY SeenHolds DEF Holds
<1>3. ActsOf(t) = 0..(n - 1)
  BY DEF ActsOf, Loaded
<1>4. \A k \in 0..(size - 1) : Probe(hash, size, k) \in 0..(size - 1)
  <2>1. hash \in Nat /\ size > 2 /\ \A k \in 0..(size - 1) : k \in Nat
    BY <1>1 DEF Covers
  <2> HIDE DEF size, hash
  <2> QED
    BY <1>1, <2>1, ProbeIsSlot
<1>5. \A k \in 0..(size - 1) : nstr(k) = G[Probe(hash, size, k)] - 1
  BY <1>1, <1>4 DEF Seen
<1>6. act = IF stops = {} THEN Loops
            ELSE IF nstr(Min(stops)) = -1 THEN None ELSE nstr(Min(stops))
  BY DEF FindByHash
<1>7. stops = {k \in 0..(size - 1) :
                 \/ nstr(k) = -1
                 \/ nstr(k) \in ActsOf(t) /\ StringOf(t, nstr(k)).id = id}
  BY <1>1
<1> HIDE DEF act, stops, nstr, G, t, size, n, hash
<1>8. stops \subseteq Nat
  BY <1>1, <1>7
<1>9. ASSUME NEW k \in stops, \A i \in 0..(k - 1) : i \notin stops
      PROVE  Min(stops) = k
  <2>1. \A i \in stops : k <= i
    BY <1>8, <1>9
  <2>2. \A x \in stops : (\A y \in stops : x <= y) => x = k
    BY <1>8, <2>1
  <2> QED
    BY <2>1, <2>2 DEF Min
<1>10. ASSUME NEW a \in ActsOf(t), StringOf(t, a).id = id PROVE act = a
  <2>1. a + 1 \in 1..n /\ a + 1 \in Nat /\ (a + 1) - 1 = a
    BY <1>1, <1>3
  <2>2. h[a + 1] = hash
    <3>1. h[a + 1] = f.hash[StringOf(t, (a + 1) - 1).id]
      BY <2>1 DEF HashOfNumber, t
    <3> QED
      BY <1>10, <2>1, <3>1 DEF hash
  <2>3. PICK k \in 0..(size - 1) :
            /\ G[Probe(hash, size, k)] = a + 1
            /\ \A i \in 0..(k - 1) : G[Probe(hash, size, i)] \notin {0, a + 1}
    BY <1>2, <2>1, <2>2
  <2>4. nstr(k) = a
    BY <1>5, <2>1, <2>3
  <2>5. k \in stops
    BY <1>7, <1>10, <2>4
  <2>6. ASSUME NEW i \in 0..(k - 1), i \in stops PROVE FALSE
    <3>1. i \in 0..(size - 1)
      BY <1>1
    <3>2. nstr(i) = G[Probe(hash, size, i)] - 1 /\ G[Probe(hash, size, i)] \in 0..n
      BY <1>2, <1>4, <1>5, <3>1
    <3>3. nstr(i) # -1 /\ nstr(i) # a
      BY <1>1, <2>1, <2>3, <3>2
    <3>4. nstr(i) \in ActsOf(t) /\ StringOf(t, nstr(i)).id = id
      BY <1>7, <2>6, <3>3
    <3>5. nstr(i) = a
      BY <1>10, <3>4, IdsApart DEF t
    <3> QED
      BY <3>3, <3>5
  <2>7. Min(stops) = k
    BY <1>9, <2>5, <2>6
  <2>8. a # -1
    BY <2>1
  <2> QED
    BY <1>6, <2>4, <2>5, <2>7, <2>8
<1>11. ASSUME \A a \in ActsOf(t) : StringOf(t, a).id # id PROVE act = None
  <2>1. stops = {k \in 0..(size - 1) : nstr(k) = -1}
    BY <1>7, <1>11
  <2>2. \E slot \in 0..(size - 1) : G[slot] = 0
    BY <1>1, <1>2, UsedIsFinite
  <2>3. \E k \in 0..(size - 1) : G[Probe(hash, size, k)] = 0
    BY <1>1, <2>2 DEF Covers
  <2>4. stops # {}
    BY <1>5, <2>1, <2>3
  <2>5. PICK k \in stops : \A i \in stops : k <= i
    BY <1>8, <2>4, LeastOf
  <2>6. \A i \in 0..(k - 1) : i \notin stops
    BY <1>8, <2>5
  <2>7. Min(stops) = k
    BY <1>9, <2>6
  <2> QED
    BY <1>6, <2>1, <2>4, <2>7
<1>12. FoundRight(t, id, act)
  BY <1>10, <1>11 DEF FoundRight
<1> QED
  BY <1>12 DEF t, act, hash

-----------------------------------------------------------------------------
(* Looking up by bisection.                                                *)

\* Every id has a place in the order.
LEMMA PlaceIs ==
    ASSUME NEW id \in ToSet(Ids)
    PROVE  Place(id) \in Nat /\ Ids[Place(id)] = id
BY IdsAssumption DEF Place, ToSet

\* The rounds of the bisection.
Rounds(round, t, id) ==
    /\ round[0] = [bottom |-> 0, top |-> Len(t.strings)]
    /\ \A n \in 0..(Len(t.strings) - 1) : round[n + 1] = Narrowed(t, id, round[n])
    /\ Bisect(t, id) = IF round[Len(t.strings)].bottom >= round[Len(t.strings)].top
                         THEN None ELSE Middle(round[Len(t.strings)])

\* The rounds of the bisection exist.
LEMMA BisectIs ==
    ASSUME NEW t, NEW id, Len(t.strings) \in Nat
    PROVE  \E round \in [Nat -> [bottom : Nat, top : Nat]] : Rounds(round, t, id)
<1> DEFINE V == [bottom : Nat, top : Nat]
           N == Len(t.strings)
           a == [bottom |-> 0, top |-> N]
           g == [p \in Nat \X V |-> Narrowed(t, id, p[2])]
<1>1. g \in [Nat \X V -> V]
  <2>1. ASSUME NEW r \in V PROVE Narrowed(t, id, r) \in V
    <3>1. Middle(r) \in Nat
      BY DEF Middle
    <3> QED
      BY <3>1 DEF Narrowed
  <2> HIDE DEF V
  <2> QED
    BY <2>1
<1>2. PICK f \in [Nat -> V] : Recurs(f, a, g)
  <2>1. a \in V
    OBVIOUS
  <2> HIDE DEF V, g, a
  <2> QED
    BY <1>1, <2>1, Recursion
<1>3. ASSUME NEW n \in Nat PROVE f[n + 1] = Narrowed(t, id, f[n])
  <2> HIDE DEF V
  <2>1. <<n, f[n]>> \in Nat \X V
    BY <1>2
  <2> QED
    BY <1>2, <2>1 DEF Recurs
<1> DEFINE eq(F) == F = [n \in 0..N |-> IF n = 0 THEN [bottom |-> 0, top |-> Len(t.strings)]
                                        ELSE Narrowed(t, id, F[n - 1])]
           F0 == [n \in 0..N |-> f[n]]
<1>0. f[0] = [bottom |-> 0, top |-> Len(t.strings)]
  BY <1>2 DEF Recurs
<1> HIDE DEF V, g
<1>4. eq(F0)
  <2>1. ASSUME NEW n \in 0..N, n # 0 PROVE f[n] = Narrowed(t, id, F0[n - 1])
    <3>1. n - 1 \in Nat /\ n - 1 \in 0..N /\ (n - 1) + 1 = n
      BY <2>1
    <3>2. f[(n - 1) + 1] = Narrowed(t, id, f[n - 1])
      BY <1>3, <3>1
    <3>3. F0[n - 1] = f[n - 1]
      BY <3>1
    <3> QED
      BY <3>1, <3>2, <3>3
  <2> QED
    BY <1>0, <2>1
<1> DEFINE G == CHOOSE F : eq(F)
<1>5. eq(G)
  BY <1>4
<1>6. Bisect(t, id) = IF G[N].bottom >= G[N].top THEN None ELSE Middle(G[N])
  BY DEF Bisect
<1> HIDE DEF G
<1>7. \A n \in Nat : n <= N => G[n] = f[n]
  <2> DEFINE S == {n \in Nat : n <= N => G[n] = f[n]}
  <2>1. 0 \in S
    BY <1>0, <1>5
  <2>2. ASSUME NEW n \in Nat, n \in S PROVE n + 1 \in S
    <3> SUFFICES ASSUME n + 1 <= N PROVE G[n + 1] = f[n + 1]
      OBVIOUS
    <3>1. G[n] = f[n]
      BY <2>2
    <3>2. n + 1 \in 0..N /\ n + 1 # 0 /\ (n + 1) - 1 = n
      OBVIOUS
    <3>3. G[n + 1] = Narrowed(t, id, G[(n + 1) - 1])
      BY <1>5, <3>2
    <3> QED
      BY <1>3, <3>1, <3>2, <3>3
  <2> HIDE DEF S
  <2>3. Nat \subseteq S
    BY <2>1, <2>2, Induction
  <2> QED
    BY <2>3 DEF S
<1> HIDE DEF eq, F0
<1>8. G[N] = f[N]
  BY <1>7
<1>9. \A n \in 0..(N - 1) : f[n + 1] = Narrowed(t, id, f[n])
  BY <1>3
<1>10. Rounds(f, t, id)
  BY <1>0, <1>6, <1>8, <1>9 DEF Rounds
<1> QED
  BY <1>10 DEF V

\* What the rounds keep: the message is between bottom and top, if anywhere, and
\* after n rounds what is between them is N - n strings at most, unless the
\* message is the one in the middle.
Between(t, id, r, n) ==
    /\ r.bottom <= Len(t.strings) /\ r.top <= Len(t.strings)
    /\ \A i \in 1..r.bottom : Place(t.strings[i].id) < Place(id)
    /\ \A i \in (r.top + 1)..Len(t.strings) : Place(t.strings[i].id) > Place(id)
    /\ \/ r.bottom >= r.top
       \/ t.strings[Middle(r) + 1].id = id
       \/ r.top - r.bottom <= Len(t.strings) - n

\* A round of the bisection keeps the string between bottom and top, and halves
\* what is between them.
LEMMA NarrowedBetween ==
    ASSUME NEW t, Len(t.strings) \in Nat, NEW id \in ToSet(Ids), NEW n \in Nat,
           \A i \in 1..Len(t.strings) : t.strings[i].id \in ToSet(Ids),
           \A i, j \in 1..Len(t.strings) :
              i < j => Place(t.strings[i].id) < Place(t.strings[j].id),
           NEW r \in [bottom : Nat, top : Nat], Between(t, id, r, n)
    PROVE  Between(t, id, Narrowed(t, id, r), n + 1)
<1> DEFINE m == Middle(r)
           N == Len(t.strings)
           at(i) == Place(t.strings[i].id)
           p == Place(id)
<1>1. p \in Nat /\ \A i \in 1..N : at(i) \in Nat
  BY PlaceIs
<1>2. CASE r.bottom >= r.top
  BY <1>2 DEF Between, Narrowed
<1>3. CASE r.bottom < r.top
  <2>1. m \in Nat /\ r.bottom <= m /\ m < r.top /\ r.top <= N
    BY <1>3 DEF Middle, Between
  <2>2. m + 1 \in 1..N
    BY <2>1
  <2>3. Narrowed(t, id, r)
          = IF p < at(m + 1) THEN [r EXCEPT !.top = m]
            ELSE IF p > at(m + 1) THEN [r EXCEPT !.bottom = m + 1] ELSE r
    BY <1>3 DEF Narrowed
  <2>a. /\ \A i \in 1..r.bottom : at(i) < p
        /\ \A i \in (r.top + 1)..N : at(i) > p
        /\ t.strings[m + 1].id = id \/ r.top - r.bottom <= N - n
    BY <1>3 DEF Between
  <2> HIDE DEF m, p, at
  <2>4. CASE p < at(m + 1)
    <3>1. Narrowed(t, id, r) = [bottom |-> r.bottom, top |-> m]
      BY <2>3, <2>4
    <3>2. \A i \in (m + 1)..N : at(i) > p
      <4>1. ASSUME NEW i \in (m + 1)..N PROVE at(i) > p
        <5>1. i = m + 1 \/ m + 1 < i
          BY <2>1
        <5>2. i \in 1..N
          BY <2>1
        <5>3. at(m + 1) <= at(i)
          BY <1>1, <2>2, <5>1, <5>2 DEF at
        <5> QED
          BY <1>1, <2>2, <2>4, <5>2, <5>3
      <4> QED
        BY <4>1
    <3>3. t.strings[m + 1].id # id
      BY <1>1, <2>2, <2>4 DEF at, p
    <3>4. m - r.bottom <= N - (n + 1)
      BY <2>1, <2>a, <3>3
    <3> DEFINE q == [bottom |-> r.bottom, top |-> m]
    <3>5. Between(t, id, q, n + 1)
      BY <2>1, <2>a, <3>2, <3>4 DEF Between, at, p
    <3> QED
      BY <3>1, <3>5
  <2>5. CASE p > at(m + 1)
    <3>1. Narrowed(t, id, r) = [bottom |-> m + 1, top |-> r.top]
      BY <1>1, <2>2, <2>3, <2>5
    <3>2. \A i \in 1..(m + 1) : at(i) < p
      <4>1. ASSUME NEW i \in 1..(m + 1) PROVE at(i) < p
        <5>1. i = m + 1 \/ i < m + 1
          BY <2>1
        <5>2. i \in 1..N
          BY <2>1
        <5>3. at(i) <= at(m + 1)
          BY <1>1, <2>2, <5>1, <5>2 DEF at
        <5> QED
          BY <1>1, <2>2, <2>5, <5>2, <5>3
      <4> QED
        BY <4>1
    <3>3. t.strings[m + 1].id # id
      BY <1>1, <2>2, <2>5 DEF at, p
    <3>4. r.top - (m + 1) <= N - (n + 1)
      BY <2>1, <2>a, <3>3
    <3> DEFINE q == [bottom |-> m + 1, top |-> r.top]
    <3>5. Between(t, id, q, n + 1)
      BY <2>1, <2>a, <3>2, <3>4 DEF Between, at, p
    <3> QED
      BY <3>1, <3>5
  <2>6. CASE p = at(m + 1)
    <3>1. t.strings[m + 1].id = id
      BY <2>2, <2>6, PlaceIs DEF at, p
    <3>2. Narrowed(t, id, r) = r
      BY <1>1, <2>2, <2>3, <2>6
    <3> QED
      BY <3>1, <3>2 DEF Between, m
  <2> QED
    BY <1>1, <2>2, <2>4, <2>5, <2>6
<1> QED
  BY <1>2, <1>3

\* The string in the middle is one of the strings.
LEMMA MiddleIs ==
    ASSUME NEW r \in [bottom : Nat, top : Nat], r.bottom < r.top,
           NEW N \in Nat, r.top <= N
    PROVE  Middle(r) \in 0..(N - 1)
BY DEF Middle

\* As the strings are sorted and there are enough rounds, the bisection finds the
\* string, or it is not there.
LEMMA SortedBisect ==
    ASSUME NEW t, Len(t.strings) \in Nat, NEW id \in ToSet(Ids),
           \A i \in 1..Len(t.strings) : t.strings[i].id \in ToSet(Ids),
           \A i, j \in 1..Len(t.strings) :
              i < j => Place(t.strings[i].id) < Place(t.strings[j].id)
    PROVE  \/ /\ Bisect(t, id) = None
              /\ \A i \in 1..Len(t.strings) : t.strings[i].id # id
           \/ /\ Bisect(t, id) \in 0..(Len(t.strings) - 1)
              /\ t.strings[Bisect(t, id) + 1].id = id
<1> DEFINE N == Len(t.strings)
<1>1. N \in Nat
  OBVIOUS
<1>2. PICK round \in [Nat -> [bottom : Nat, top : Nat]] : Rounds(round, t, id)
  BY BisectIs
<1>a. N = Len(t.strings)
  OBVIOUS
<1> HIDE DEF N
<1> DEFINE S == {n \in Nat : n <= N => Between(t, id, round[n], n)}
<1>3. 0 \in S
  <2>1. round[0] = [bottom |-> 0, top |-> N]
    BY <1>2, <1>a DEF Rounds
  <2>2. \A i \in 1..0 : FALSE
    OBVIOUS
  <2>3. \A i \in (N + 1)..N : FALSE
    BY <1>1
  <2>4. N - 0 <= N - 0
    BY <1>1
  <2> DEFINE q == [bottom |-> 0, top |-> N]
  <2>5. Between(t, id, q, 0)
    BY <1>1, <1>a, <2>2, <2>3, <2>4 DEF Between
  <2> QED
    BY <2>1, <2>5
<1>4. ASSUME NEW n \in Nat, n \in S PROVE n + 1 \in S
  <2> SUFFICES ASSUME n + 1 <= N PROVE Between(t, id, round[n + 1], n + 1)
    BY <1>1
  <2>1. n <= N
    BY <1>1
  <2>2. Between(t, id, round[n], n)
    BY <1>4, <2>1
  <2>3. n \in 0..(N - 1)
    BY <1>1
  <2>4. round[n + 1] = Narrowed(t, id, round[n])
    BY <1>2, <1>a, <2>3 DEF Rounds
  <2>5. round[n] \in [bottom : Nat, top : Nat]
    BY <1>2
  <2> HIDE DEF S
  <2>6. Between(t, id, Narrowed(t, id, round[n]), n + 1)
    BY <2>2, <2>5, NarrowedBetween
  <2> QED
    BY <2>4, <2>6
<1> HIDE DEF S
<1>5. Nat \subseteq S
  BY <1>3, <1>4, Induction
<1>6. PICK r : r = round[N]
  OBVIOUS
<1>7. Between(t, id, r, N) /\ r \in [bottom : Nat, top : Nat]
  <2>1. N \in S /\ r \in [bottom : Nat, top : Nat]
    BY <1>1, <1>2, <1>5, <1>6
  <2>2. N <= N
    BY <1>1
  <2> QED
    BY <1>6, <2>1, <2>2 DEF S
<1>8. Bisect(t, id) = IF r.bottom >= r.top THEN None ELSE Middle(r)
  BY <1>2, <1>6, <1>a DEF Rounds
<1>9. CASE r.bottom >= r.top
  <2>1. ASSUME NEW i \in 1..N PROVE t.strings[i].id # id
    <3>1. i \in 1..r.bottom \/ i \in (r.top + 1)..N
      BY <1>1, <1>7, <1>9
    <3>2. Place(t.strings[i].id) \in Nat /\ Place(id) \in Nat
      BY <1>a, PlaceIs
    <3>3. Place(t.strings[i].id) < Place(id) \/ Place(t.strings[i].id) > Place(id)
      BY <1>7, <1>a, <3>1 DEF Between
    <3>4. Place(t.strings[i].id) # Place(id)
      BY <3>2, <3>3
    <3> QED
      BY <3>4
  <2> QED
    BY <1>8, <1>9, <1>a, <2>1
<1>10. CASE ~(r.bottom >= r.top)
  <2>1. r.top <= N /\ \/ t.strings[Middle(r) + 1].id = id
                       \/ r.top - r.bottom <= N - N
    BY <1>7, <1>10, <1>a DEF Between
  <2>2. Middle(r) \in 0..(N - 1)
    <3>1. r \in [bottom : Nat, top : Nat] /\ r.bottom < r.top
      <4>1. r.bottom \in Nat /\ r.top \in Nat
        BY <1>7
      <4> QED
        BY <1>7, <1>10, <4>1
    <3> QED
      BY <1>1, <2>1, <3>1, MiddleIs
  <2>3. t.strings[Middle(r) + 1].id = id
    BY <1>1, <1>7, <1>10, <2>1
  <2> QED
    BY <1>8, <1>10, <1>a, <2>2, <2>3
<1> QED
  BY <1>9, <1>10

\* In a file without a hash table the bisection finds the right string, or none.
LEMMA ByBisection ==
    ASSUME NEW f, Written(f), Sysdep(f) = <<>>, NEW id \in ToSet(Ids)
    PROVE  FoundRight(Loaded(f), id, Bisect(Loaded(f), id))
<1> DEFINE N == Len(f.strings)
<1>1. /\ Loaded(f).strings = f.strings /\ N \in Nat /\ DOMAIN f.strings = 1..N
      /\ Len(Sysdep(f)) = 0
  BY WrittenIs DEF Loaded
<1>2. \A a \in ActsOf(Loaded(f)) :
        a \in Nat /\ a + 1 \in 1..N /\ StringOf(Loaded(f), a) = f.strings[a + 1]
  <2> SUFFICES ASSUME NEW a \in ActsOf(Loaded(f))
               PROVE  /\ a \in Nat /\ a + 1 \in 1..N
                      /\ StringOf(Loaded(f), a) = f.strings[a + 1]
    OBVIOUS
  <2>1. a \in Nat /\ a < Len(f.strings) + Len(Sysdep(f))
    BY ActIs
  <2>2. a < N
    BY <1>1, <2>1
  <2>3. StringOf(Loaded(f), a) = f.strings[a + 1] /\ a + 1 \in DOMAIN f.strings
    BY <2>2, ActIs
  <2> QED
    BY <1>1, <2>1, <2>3
<1>3. \A i \in 1..N : i - 1 \in ActsOf(Loaded(f)) /\ (i - 1) + 1 = i
  BY <1>1 DEF ActsOf, Loaded
<1>4. \A i \in 1..N : f.strings[i].id \in ToSet(Ids)
  <2> SUFFICES ASSUME NEW i \in 1..N PROVE f.strings[i].id \in ToSet(Ids)
    OBVIOUS
  <2>1. StringOf(Loaded(f), i - 1) = f.strings[(i - 1) + 1]
    BY <1>2, <1>3
  <2>2. StringOf(Loaded(f), i - 1).id \in ToSet(Ids)
    BY <1>3, IdKnown
  <2> QED
    BY <1>3, <2>1, <2>2
<1>5. \A i, j \in 1..N : i < j => Place(f.strings[i].id) < Place(f.strings[j].id)
  <2> DEFINE ids == [i \in DOMAIN f.strings |-> f.strings[i].id]
  <2>1. \A i, j \in DOMAIN ids : i < j => Place(ids[i]) < Place(ids[j])
    BY DEF Written
  <2> QED
    BY <1>1, <2>1
<1>6. PICK b : b = Bisect(Loaded(f), id)
  OBVIOUS
<1>7. \/ b = None /\ \A i \in 1..N : f.strings[i].id # id
      \/ b \in 0..(N - 1) /\ f.strings[b + 1].id = id
  <2>1. PICK t : t = Loaded(f)
    OBVIOUS
  <2>2. t.strings = f.strings
    BY <1>1, <2>1
  <2>3. /\ Len(t.strings) \in Nat
        /\ \A i \in 1..Len(t.strings) : t.strings[i].id \in ToSet(Ids)
        /\ \A i, j \in 1..Len(t.strings) :
              i < j => Place(t.strings[i].id) < Place(t.strings[j].id)
    BY <1>1, <1>4, <1>5, <2>2, Zenon
  <2>4. \/ /\ Bisect(t, id) = None
           /\ \A i \in 1..Len(t.strings) : t.strings[i].id # id
        \/ /\ Bisect(t, id) \in 0..(Len(t.strings) - 1)
           /\ t.strings[Bisect(t, id) + 1].id = id
    BY <2>3, SortedBisect
  <2> QED
    BY <1>6, <2>1, <2>2, <2>4, Zenon
<1>8. CASE b = None /\ \A i \in 1..N : f.strings[i].id # id
  <2>1. \A a \in ActsOf(Loaded(f)) : StringOf(Loaded(f), a).id # id
    BY <1>2, <1>8
  <2> QED
    BY <1>6, <1>8, <2>1 DEF FoundRight
<1>9. CASE b \in 0..(N - 1) /\ f.strings[b + 1].id = id
  <2>1. b + 1 \in 1..N /\ (b + 1) - 1 = b
    BY <1>1, <1>9
  <2>2. b \in ActsOf(Loaded(f))
    BY <1>3, <2>1
  <2>3. StringOf(Loaded(f), b).id = id
    BY <1>2, <1>9, <2>2
  <2>4. \A a \in ActsOf(Loaded(f)) : StringOf(Loaded(f), a).id = id => b = a
    BY <2>2, <2>3, IdsApart
  <2> QED
    BY <1>6, <2>2, <2>3, <2>4 DEF FoundRight
<1> QED
  BY <1>7, <1>8, <1>9

-----------------------------------------------------------------------------
(* What is found in the tables is what the file has.                       *)

\* Either way a look-up stops, with the right string or none.
LEMMA FindInIs ==
    ASSUME NEW f, Written(f), f.size > 2 \/ Sysdep(f) = <<>>, NEW id \in ToSet(Ids)
    PROVE  FoundRight(Loaded(f), id, FindIn(Loaded(f), f.hash[id], id))
<1>1. CASE f.size > 2
  <2>1. Loaded(f).size = f.size /\ f.size \in Nat
    BY <1>1, StoredFromFile
  <2>2. FindIn(Loaded(f), f.hash[id], id) = FindByHash(Loaded(f), f.hash[id], id)
    BY <1>1, <2>1 DEF FindIn
  <2> QED
    BY <1>1, <2>2, ByHash
<1>2. CASE ~(f.size > 2)
  <2>1. Loaded(f).size = 0
    BY <1>2 DEF Loaded
  <2>2. FindIn(Loaded(f), f.hash[id], id) = Bisect(Loaded(f), id)
    BY <2>1 DEF FindIn
  <2> QED
    BY <1>2, <2>2, ByBisection
<1> QED
  BY <1>1, <1>2

\* The strings that can be found are the translations of the file.
LEMMA ActsTranslate ==
    ASSUME NEW f, Written(f)
    PROVE  TranslationsOf(f) =
             {<<StringOf(Loaded(f), a).id, StringOf(Loaded(f), a).forms>> :
                a \in ActsOf(Loaded(f))}
<1> DEFINE t == Loaded(f)
           n == Len(f.strings)
           m == Len(Sysdep(f))
           pair(p) == <<Expand(f, p.orig), <<Expand(f, p.trans)>>>>
           of(a) == <<StringOf(t, a).id, StringOf(t, a).forms>>
           valid == {q \in ToSet(f.sysdep) : f.minor > 0 /\ CheckPair(f, q) = "valid"}
<1>1. /\ n \in Nat /\ m \in Nat /\ DOMAIN f.strings = 1..n /\ DOMAIN Sysdep(f) = 1..m
      /\ IsSequence(f.sysdep)
  BY WrittenIs DEF Written
<1>2. ActsOf(t) = 0..(n + m - 1)
  BY DEF ActsOf, Loaded
<1>3. \A i \in 1..n : i - 1 \in ActsOf(t) /\ of(i - 1) = <<f.strings[i].id, f.strings[i].forms>>
  <2> SUFFICES ASSUME NEW i \in 1..n
               PROVE  i - 1 \in ActsOf(t) /\ StringOf(t, i - 1) = f.strings[i]
    OBVIOUS
  <2>1. i - 1 \in ActsOf(t) /\ i - 1 < n /\ (i - 1) + 1 = i
    BY <1>1, <1>2
  <2> QED
    BY <2>1, ActIs
<1>4. \A k \in 1..m : n + k - 1 \in ActsOf(t) /\ StringOf(t, n + k - 1) = Sysdep(f)[k]
  <2> SUFFICES ASSUME NEW k \in 1..m
               PROVE  n + k - 1 \in ActsOf(t) /\ StringOf(t, n + k - 1) = Sysdep(f)[k]
    OBVIOUS
  <2> DEFINE a == n + k - 1
  <2>1. a \in ActsOf(t) /\ ~(a < n) /\ a - n + 1 = k
    BY <1>1, <1>2
  <2>2. StringOf(t, a) = Sysdep(f)[a - n + 1]
    BY <2>1, ActIs
  <2> QED
    BY <2>1, <2>2
<1>5. ASSUME NEW k \in 1..m
      PROVE  \E q \in valid : <<Sysdep(f)[k].id, Sysdep(f)[k].forms>> = pair(q)
  <2>1. f.minor > 0 /\ Sysdep(f) = InMemory(f)
    BY <1>1, <1>5 DEF Sysdep
  <2>2. k \in DOMAIN Kept(f)
    BY <1>1, <2>1 DEF InMemory
  <2>3. Kept(f)[k] \in ValidPlaces(f)
    BY <1>1, <2>2, KeptIs
  <2>4. f.sysdep[Kept(f)[k]] \in valid
    BY <2>1, <2>3 DEF ValidPlaces, ToSet
  <2>5. Sysdep(f)[k].id = Expand(f, f.sysdep[Kept(f)[k]].orig)
        /\ Sysdep(f)[k].forms = <<Expand(f, f.sysdep[Kept(f)[k]].trans)>>
    BY <2>1, <2>2 DEF InMemory
  <2> QED
    BY <2>4, <2>5
<1>6. ASSUME NEW q \in valid
      PROVE  \E k \in 1..m : <<Sysdep(f)[k].id, Sysdep(f)[k].forms>> = pair(q)
  <2>1. f.minor > 0 /\ Sysdep(f) = InMemory(f)
    BY <1>6 DEF Sysdep
  <2>2. PICK i \in DOMAIN f.sysdep : f.sysdep[i] = q
    BY DEF ToSet
  <2>3. i \in ValidPlaces(f)
    BY <2>2 DEF ValidPlaces
  <2>4. PICK k \in DOMAIN Kept(f) : Kept(f)[k] = i
    BY <1>1, <2>3, KeptIs
  <2>5. k \in 1..m
    BY <1>1, <2>1 DEF InMemory
  <2>6. Sysdep(f)[k].id = Expand(f, q.orig)
        /\ Sysdep(f)[k].forms = <<Expand(f, q.trans)>>
    BY <2>1, <2>2, <2>4 DEF InMemory
  <2> QED
    BY <2>5, <2>6
<1>7. ASSUME NEW a \in ActsOf(t) PROVE of(a) \in TranslationsOf(f)
  <2>1. CASE a < n
    <3>1. a + 1 \in DOMAIN f.strings /\ StringOf(t, a) = f.strings[a + 1]
      BY <2>1, ActIs
    <3> QED
      BY <3>1 DEF TranslationsOf
  <2>2. CASE ~(a < n)
    <3>1. a - n + 1 \in 1..m /\ StringOf(t, a) = Sysdep(f)[a - n + 1]
      BY <1>1, <2>2, ActIs
    <3>2. PICK q \in valid : of(a) = pair(q)
      <4>1. PICK k \in 1..m : StringOf(t, a) = Sysdep(f)[k]
        BY <3>1
      <4> QED
        BY <1>5, <4>1
    <3> QED
      BY <3>2 DEF TranslationsOf
  <2> QED
    BY <2>1, <2>2
<1>8. ASSUME NEW x \in TranslationsOf(f) PROVE \E a \in ActsOf(t) : x = of(a)
  <2>1. CASE \E i \in DOMAIN f.strings : x = <<f.strings[i].id, f.strings[i].forms>>
    BY <1>1, <1>3, <2>1
  <2>2. CASE \E q \in valid : x = pair(q)
    <3>1. PICK k \in 1..m : x = <<Sysdep(f)[k].id, Sysdep(f)[k].forms>>
      BY <1>6, <2>2
    <3> QED
      BY <1>4, <3>1
  <2> QED
    BY <2>1, <2>2 DEF TranslationsOf
<1> HIDE DEF of
<1>9. TranslationsOf(f) = {of(a) : a \in ActsOf(t)}
  BY <1>7, <1>8
<1> QED
  BY <1>9 DEF of

-----------------------------------------------------------------------------
(* The invariants.                                                         *)

\* How the tables of a catalogue come about.
LoadInv ==
  /\ file \in Files
  /\ phase \notin {"closed", "none"} => file.kind = "file"
  /\ phase \in {"tables", "plural", "ready"} =>
       ~Invalid /\ domain.tables = Loaded(file) /\ "tables" \in DOMAIN domain

\* Every step of the loading and of the look-ups keeps the tables.
LEMMA LoadInvHolds == Spec => []LoadInv
<1>1. Init => LoadInv
  BY DEF Init, LoadInv
<1>2. LoadInv /\ [Next]_vars => LoadInv'
  <2> SUFFICES ASSUME LoadInv, [Next]_vars PROVE LoadInv'
    OBVIOUS
  <2>1. CASE Open
    BY <2>1 DEF LoadInv, Open, Invalid
  <2>2. CASE ReadFile
    BY <2>2 DEF LoadInv, ReadFile, Invalid
  <2>3. CASE Refuse
    BY <2>3 DEF LoadInv, Refuse
  <2>4. CASE NoMemory
    BY <2>4 DEF LoadInv, NoMemory
  <2>5. CASE ReadTables
    <3>1. file' = file /\ ~Invalid
      BY <2>5 DEF ReadTables
    <3>2. Invalid' = Invalid
      BY <3>1 DEF Invalid
    <3>3. domain'.tables = Loaded(file) /\ "tables" \in DOMAIN domain'
      BY <2>5 DEF ReadTables, NoDomain
    <3> QED
      BY <2>5, <3>1, <3>2, <3>3 DEF LoadInv, ReadTables
  <2>6. CASE ExtractPlural
    <3>1. file' = file
      BY <2>6 DEF ExtractPlural
    <3>2. Invalid' = Invalid
      BY <3>1 DEF Invalid
    <3>3. /\ phase = "tables" /\ domain'.tables = domain.tables
          /\ "tables" \in DOMAIN domain'
      <4>1. \/ domain' = domain
            \/ domain' = [domain EXCEPT !.plural = GermanicPlural, !.nplurals = 2]
        BY <2>6, Zenon DEF ExtractPlural
      <4>2. phase = "tables" /\ "tables" \in DOMAIN domain
        BY <2>6 DEF ExtractPlural, LoadInv
      <4>3. domain'.tables = domain.tables /\ "tables" \in DOMAIN domain'
        BY <4>1, <4>2
      <4> QED
        BY <4>2, <4>3
    <3> QED
      BY <2>6, <3>1, <3>2, <3>3 DEF LoadInv
  <2>7. CASE ParsePlural
    <3>1. file' = file /\ domain' = domain /\ phase' = phase
      BY <2>7 DEF ParsePlural
    <3> QED
      BY <3>1 DEF LoadInv, Invalid
  <2>8. CASE PluralParsed
    <3>1. file' = file
      BY <2>8 DEF PluralParsed
    <3>2. Invalid' = Invalid
      BY <3>1 DEF Invalid
    <3>3. /\ phase = "plural" /\ domain'.tables = domain.tables
          /\ "tables" \in DOMAIN domain'
      BY <2>8 DEF PluralParsed, LoadInv
    <3> QED
      BY <3>1, <3>2, <3>3 DEF LoadInv
  <2>9. CASE \E i \in DOMAIN Ids, n \in Numbers : Lookup(Ids[i], n)
    <3>1. file' = file /\ domain' = domain /\ phase' = phase
      BY <2>9 DEF Lookup
    <3> QED
      BY <3>1 DEF LoadInv, Invalid
  <2>10. CASE \E codeset \in Codesets : BindCodeset(codeset)
    <3>1. file' = file /\ domain' = domain /\ phase' = phase
      BY <2>10 DEF BindCodeset
    <3> QED
      BY <3>1 DEF LoadInv, Invalid
  <2>11. CASE UNCHANGED vars
    BY <2>11 DEF LoadInv, Invalid, vars
  <2> QED
    BY <2>1, <2>2, <2>3, <2>4, <2>5, <2>6, <2>7, <2>8, <2>9, <2>10, <2>11 DEF Next
<1> QED
  BY <1>1, <1>2, PTL DEF Spec

\* With the tables of the file, what is found is what the file has.
LEMMA FoundInTables ==
    LoadInv => FoundIffPresent
<1> SUFFICES ASSUME LoadInv, phase \in {"tables", "plural", "ready"},
                    NEW i \in DOMAIN Ids
             PROVE  IF \E t \in Translations : t[1] = Ids[i]
                      THEN /\ Find(Ids[i]) \in Acts
                           /\ <<Ids[i], Forms(Find(Ids[i]))>> \in Translations
                      ELSE Find(Ids[i]) = None
  BY DEF FoundIffPresent
<1>1. file \in Files /\ Written(file) /\ domain.tables = Loaded(file) /\ ~Invalid
  BY FilesAssumption DEF LoadInv
<1>2. file.size > 2 \/ Sysdep(file) = <<>>
  BY <1>1 DEF Invalid, Sysdep, Written
<1> DEFINE id == Ids[i]
           t == Loaded(file)
           act == Find(id)
<1>3. id \in ToSet(Ids)
  BY DEF ToSet
<1>4. FoundRight(t, id, act)
  BY <1>1, <1>2, <1>3, FindInIs DEF Find
<1>5. Translations = {<<StringOf(t, a).id, StringOf(t, a).forms>> : a \in ActsOf(t)}
  BY <1>1, ActsTranslate DEF Translations
<1>6. Acts = ActsOf(t) /\ \A a : Forms(a) = StringOf(t, a).forms
  BY <1>1 DEF Acts, Forms
<1> HIDE DEF t, act, id
<1>7. CASE \E a \in ActsOf(t) : StringOf(t, a).id = id
  <2>1. PICK a \in ActsOf(t) : StringOf(t, a).id = id
    BY <1>7
  <2>2. act = a
    BY <1>4, <2>1 DEF FoundRight
  <2>3. <<id, StringOf(t, a).forms>> \in Translations
    BY <1>5, <2>1
  <2>4. \E x \in Translations : x[1] = id
    BY <2>3
  <2> QED
    BY <1>6, <2>1, <2>2, <2>3, <2>4 DEF id, act
<1>8. CASE ~\E a \in ActsOf(t) : StringOf(t, a).id = id
  <2>1. act = None
    BY <1>4, <1>8 DEF FoundRight
  <2>2. ~\E x \in Translations : x[1] = id
    BY <1>5, <1>8
  <2> QED
    BY <2>1, <2>2 DEF id, act
<1> QED
  BY <1>7, <1>8

(***************************************************************************)
(* Whatever the byte order of a file, whether or not it has a hash table,  *)
(* and whatever strings are added on this system: a look-up ends, it finds *)
(* a message just if the file has it, and with its own translation         *)
(* (_nl_load_domain, _nl_find_msg).                                        *)
(***************************************************************************)
THEOREM MessagesAreFound == Spec => []FoundIffPresent
BY LoadInvHolds, FoundInTables, PTL

-----------------------------------------------------------------------------
(* The converter.                                                          *)

\* A converter for the codeset the binding asks for now: what was converted with
\* it is in that codeset, and could be converted.
UpToDate(c) ==
  /\ c.cntr = binding.cntr
  /\ c.to = InitDomainConv.to
  /\ DOMAIN c.regions = Acts
  /\ \A act \in Acts : c.regions[act] # NoRegion =>
       c.regions[act].codeset = c.to /\ <<Forms(act), c.to>> \notin Unconvertible

ConvFields == {"cntr", "to", "tab", "regions"}

ConvInv ==
  /\ binding.cntr \in Nat /\ binding.codeset \in Codesets \union {""}
  /\ DOMAIN conv = ConvFields /\ conv.cntr \in Nat /\ conv.cntr <= binding.cntr
  /\ phase \in {"plural", "ready"} /\ conv.cntr = binding.cntr => UpToDate(conv)
  /\ answer.kind = "found" => phase = "ready"
  /\ OwnCodeset

\* Arithmetic that the steps of the counter need.
LEMMA Counting ==
    /\ 0 \in Nat
    /\ \A x \in Nat : x <= x
    /\ \A x, y \in Nat : x <= y => x # y + 1 /\ x <= y + 1 /\ y + 1 \in Nat
OBVIOUS

\* A converter that has just been opened is for the codeset of the binding.
LEMMA InitDomainConvIs ==
    /\ DOMAIN InitDomainConv = ConvFields
    /\ UpToDate(InitDomainConv)
    /\ InitDomainConv.to \in {"", OutCharset}
    /\ binding.codeset \in Codesets \union {""} => OutCharset \in Codesets \union {LocaleCodeset}
<1>1. DOMAIN InitDomainConv = ConvFields
  BY DEF InitDomainConv, ConvFields
<1>2. /\ InitDomainConv.cntr = binding.cntr
      /\ InitDomainConv.regions = [act \in Acts |-> NoRegion]
  BY DEF InitDomainConv
<1>3. UpToDate(InitDomainConv)
  BY <1>2 DEF UpToDate
<1>4. InitDomainConv.to \in {"", OutCharset}
  BY DEF InitDomainConv
<1>5. binding.codeset \in Codesets \union {""} => OutCharset \in Codesets \union {LocaleCodeset}
  BY DEF OutCharset
<1> QED
  BY <1>1, <1>3, <1>4, <1>5

\* So is the one that a look-up uses.
LEMMA CurrentIs ==
    ASSUME ConvInv, phase = "ready"
    PROVE  DOMAIN Current = ConvFields /\ UpToDate(Current)
<1>1. CASE conv.cntr # binding.cntr
  BY <1>1, InitDomainConvIs DEF Current
<1>2. CASE conv.cntr = binding.cntr
  BY <1>2 DEF Current, ConvInv
<1> QED
  BY <1>1, <1>2

\* A message that is found is one of the catalogue's.
LEMMA FoundAct ==
    ASSUME LoadInv, phase = "ready", NEW i \in DOMAIN Ids, Find(Ids[i]) # None
    PROVE  Find(Ids[i]) \in Acts
BY FoundInTables DEF FoundIffPresent

\* What depends on the tables and on the binding stays while these do.
LEMMA Steady ==
    ASSUME file' = file, domain'.tables = domain.tables, binding' = binding
    PROVE  /\ (InitDomainConv.to)' = InitDomainConv.to /\ Acts' = Acts
           /\ OutCharset' = OutCharset
           /\ \A c : UpToDate(c) => UpToDate(c)'
<1>1. HasHeader' = HasHeader
  BY DEF HasHeader, Find
<1>2. OutCharset' = OutCharset
  BY DEF OutCharset
<1>3. Acts' = Acts
  BY DEF Acts
<1>4. InitDomainConv.to = IF HasHeader /\ file.charset # ""
                              /\ <<file.charset, OutCharset>> \in Convertible
                           THEN OutCharset ELSE ""
  BY DEF InitDomainConv
<1>5. (InitDomainConv.to)' = IF HasHeader' /\ file'.charset # ""
                              /\ <<file'.charset, OutCharset'>> \in Convertible
                           THEN OutCharset' ELSE ""
  BY DEF InitDomainConv
<1>6. (InitDomainConv.to)' = InitDomainConv.to
  BY <1>1, <1>2, <1>4, <1>5
<1>7. \A act : Forms(act)' = Forms(act)
  BY DEF Forms
<1>8. ASSUME NEW c, UpToDate(c) PROVE UpToDate(c)'
  BY <1>3, <1>6, <1>7, <1>8 DEF UpToDate
<1> QED
  BY <1>2, <1>3, <1>6, <1>8

\* A step that is no look-up and no change of the binding leaves the converter as
\* it is.
LEMMA SteadyConv ==
    ASSUME LoadInv, ConvInv, UNCHANGED <<file, binding, conv, answer>>,
           domain'.tables = domain.tables \/ phase' \notin {"plural", "ready"},
           phase' \in {"plural", "ready"} => phase \in {"plural", "ready"},
           phase = "ready" => phase' = "ready"
    PROVE  ConvInv'
<1>1. CASE phase' \in {"plural", "ready"}
  <2>1. /\ (InitDomainConv.to)' = InitDomainConv.to /\ Acts' = Acts
        /\ OutCharset' = OutCharset
    BY <1>1, Steady
  <2>2. UpToDate(conv) => UpToDate(conv)'
    BY <1>1, Steady
  <2>3. (OwnCodeset)'
    BY <1>1, <2>1 DEF ConvInv, OwnCodeset, Forms, Find
  <2> QED
    BY <1>1, <2>2, <2>3 DEF ConvInv
<1>2. CASE phase' \notin {"plural", "ready"}
  <2>1. answer'.kind # "found"
    BY <1>2 DEF ConvInv
  <2> QED
    BY <1>2, <2>1 DEF ConvInv, OwnCodeset
<1> QED
  BY <1>1, <1>2

\* What a look-up that finds a message leaves.
LEMMA FoundConv ==
    ASSUME LoadInv, ConvInv, phase = "ready", UNCHANGED <<file, phase, domain, binding>>,
           NEW id, answer'.id = id, answer'.kind = "found",
           DOMAIN conv' = ConvFields, UpToDate(conv'),
           answer'.codeset = IF /\ Current.to # "" /\ conv'.tab # "failed" /\ ~answer'.short
                                /\ <<Forms(Find(id)), Current.to>> \notin Unconvertible
                             THEN Current.to ELSE file.charset
    PROVE  ConvInv'
<1>1. /\ (InitDomainConv.to)' = InitDomainConv.to /\ Acts' = Acts
      /\ OutCharset' = OutCharset
  BY Steady
<1>2. Current.to = InitDomainConv.to
  BY CurrentIs DEF UpToDate
<1>3. Current.to # "" => Current.to = OutCharset
  BY <1>2, InitDomainConvIs
<1>4. UpToDate(conv)'
  BY Steady
<1>5. Forms(Find(answer.id))' = Forms(Find(id))
  BY DEF Forms, Find
<1>6. OwnCodeset'
  BY <1>1, <1>2, <1>3, <1>5 DEF OwnCodeset
<1>7. conv'.cntr = binding'.cntr /\ binding'.cntr \in Nat
      /\ binding'.codeset \in Codesets \union {""}
  BY DEF UpToDate, ConvInv
<1>8. conv'.cntr \in Nat /\ conv'.cntr <= binding'.cntr
  BY <1>7, Counting, Zenon
<1>9. phase' = "ready"
  OBVIOUS
<1> HIDE DEF ConvFields
<1> QED
  BY <1>4, <1>6, <1>7, <1>8, <1>9 DEF ConvInv

\* A look-up leaves a converter for the codeset asked for, and answers in it.
LEMMA LookupConv ==
    ASSUME LoadInv, ConvInv, NEW i \in DOMAIN Ids, NEW n \in Numbers, Lookup(Ids[i], n)
    PROVE  ConvInv'
<1> DEFINE id == Ids[i]
           act == Find(id)
<1>1. UNCHANGED <<file, phase, domain, binding>> /\ phase \in {"ready", "none"}
  BY DEF Lookup
<1>2. CASE /\ answer' = [NoAnswer EXCEPT !.kind = "untranslated", !.id = id, !.n = n]
           /\ UNCHANGED <<conv, pool, blocks, given>>
  <2>1. answer'.kind # "found"
    BY <1>2 DEF NoAnswer
  <2>2. UpToDate(conv) => UpToDate(conv)'
    BY <1>1, <1>2, Steady
  <2> QED
    BY <1>1, <1>2, <2>1, <2>2 DEF ConvInv, OwnCodeset
<1>3. ASSUME phase # "none", act # None,
             \/ AnswerPlain(id, n) \/ AnswerNoTable(id, n) \/ AnswerAgain(id, n)
             \/ AnswerNoBlock(id, n) \/ AnswerUnconvertible(id, n)
             \/ AnswerConverted(id, n)
      PROVE  ConvInv'
  <2>1. phase = "ready" /\ act \in Acts
    BY <1>1, <1>3, FoundAct
  <2>2. DOMAIN Current = ConvFields /\ UpToDate(Current)
    BY <2>1, CurrentIs
  <2>3. ASSUME NEW tab, NEW c, c = [Current EXCEPT !.tab = tab]
        PROVE  DOMAIN c = ConvFields /\ UpToDate(c) /\ c.tab = tab
    BY <2>2, <2>3 DEF UpToDate, ConvFields
  <2>4. ASSUME NEW forms, NEW codeset, NEW short, Told(id, n, forms, codeset, short)
        PROVE  /\ answer'.id = id /\ answer'.kind = "found"
               /\ answer'.codeset = codeset /\ answer'.short = short
    BY <2>4 DEF Told
  <2>5. CASE AnswerPlain(id, n)
    <3>1. /\ Current.to = "" \/ Current.tab = "failed"
          /\ conv' = Current /\ Told(id, n, Forms(act), file.charset, FALSE)
      BY <2>5 DEF AnswerPlain
    <3> QED
      BY <1>1, <2>1, <2>2, <2>4, <3>1, FoundConv
  <2>6. CASE AnswerNoTable(id, n)
    <3>1. /\ conv' = [Current EXCEPT !.tab = "failed"]
          /\ Told(id, n, Forms(act), file.charset, TRUE)
      BY <2>6 DEF AnswerNoTable
    <3>2. DOMAIN conv' = ConvFields /\ UpToDate(conv')
      BY <2>3, <3>1
    <3> QED
      BY <1>1, <2>1, <2>4, <3>1, <3>2, FoundConv
  <2>7. CASE AnswerAgain(id, n)
    <3>1. /\ Current.to # "" /\ Current.tab # "failed"
          /\ Current.regions[act] # NoRegion /\ conv' = Current
          /\ Told(id, n, Current.regions[act].forms, Current.regions[act].codeset, FALSE)
      BY <2>7, Zenon DEF AnswerAgain
    <3>2. /\ Current.regions[act].codeset = Current.to
          /\ <<Forms(act), Current.to>> \notin Unconvertible
      BY <2>1, <2>2, <3>1 DEF UpToDate
    <3> QED
      BY <1>1, <2>1, <2>2, <2>4, <3>1, <3>2, FoundConv
  <2>8. CASE AnswerNoBlock(id, n)
    <3>1. /\ conv' = [Current EXCEPT !.tab = "table"]
          /\ Told(id, n, Forms(act), file.charset, TRUE)
      BY <2>8 DEF AnswerNoBlock
    <3>2. DOMAIN conv' = ConvFields /\ UpToDate(conv')
      BY <2>3, <3>1
    <3> QED
      BY <1>1, <2>1, <2>4, <3>1, <3>2, FoundConv
  <2>9. CASE AnswerUnconvertible(id, n)
    <3>1. /\ <<Forms(act), Current.to>> \in Unconvertible
          /\ conv' = [Current EXCEPT !.tab = "table"]
          /\ Told(id, n, Forms(act), file.charset, FALSE)
      BY <2>9 DEF AnswerUnconvertible
    <3>2. DOMAIN conv' = ConvFields /\ UpToDate(conv')
      BY <2>3, <3>1
    <3> QED
      BY <1>1, <2>1, <2>4, <3>1, <3>2, FoundConv
  <2>10. CASE AnswerConverted(id, n)
    <3>1. /\ ToConvert(act) /\ <<Forms(act), Current.to>> \notin Unconvertible
          /\ Told(id, n, Forms(act), Current.to, FALSE)
          /\ \E r : /\ r.codeset = Current.to
                    /\ conv' = [Current EXCEPT !.tab = "table", !.regions[act] = r]
      <4> DEFINE used == Need(Forms(act))
                 r0 == [block |-> Room(used).pool.block, at |-> Room(used).pool.at,
                        size |-> used, forms |-> Forms(act), codeset |-> Current.to]
      <4>1. /\ ToConvert(act) /\ <<Forms(act), Current.to>> \notin Unconvertible
            /\ Told(id, n, Forms(act), Current.to, FALSE)
            /\ conv' = [Current EXCEPT !.tab = "table", !.regions[act] = r0]
        BY <2>10, Zenon DEF AnswerConverted
      <4>2. r0.codeset = Current.to
        OBVIOUS
      <4> HIDE DEF r0
      <4> QED
        BY <4>1, <4>2
    <3>2. PICK r : /\ r.codeset = Current.to
                   /\ conv' = [Current EXCEPT !.tab = "table", !.regions[act] = r]
      BY <3>1
    <3>3. DOMAIN conv' = ConvFields /\ UpToDate(conv') /\ conv'.tab = "table"
      BY <2>1, <2>2, <3>1, <3>2 DEF UpToDate, ConvFields
    <3>4. Current.to # ""
      BY <3>1 DEF ToConvert
    <3> QED
      BY <1>1, <2>1, <2>4, <3>1, <3>3, <3>4, FoundConv
  <2> QED
    BY <1>3, <2>5, <2>6, <2>7, <2>8, <2>9, <2>10
<1> QED
  BY <1>2, <1>3 DEF Lookup

\* The converter is in step with the binding in every reachable state.
LEMMA ConvInvHolds == Spec => []ConvInv
<1>1. Init => ConvInv
  <2> SUFFICES ASSUME Init PROVE ConvInv
    OBVIOUS
  <2>1. /\ phase = "closed" /\ binding = Unbound /\ conv = NoConverter
        /\ answer = NoAnswer
    BY DEF Init
  <2>2. binding.cntr = 0 /\ binding.codeset = "" /\ conv.cntr = 0 /\ DOMAIN conv = ConvFields
    BY <2>1 DEF Unbound, NoConverter, ConvFields
  <2>3. answer.kind # "found"
    BY <2>1 DEF NoAnswer
  <2>4. conv.cntr \in Nat /\ binding.cntr \in Nat /\ conv.cntr <= binding.cntr
    BY <2>2, Counting, Zenon
  <2>5. phase \notin {"plural", "ready"} /\ binding.codeset \in Codesets \union {""}
    BY <2>1, <2>2
  <2> HIDE DEF ConvFields
  <2> QED
    BY <2>2, <2>3, <2>4, <2>5 DEF ConvInv, OwnCodeset
<1>2. LoadInv /\ LoadInv' /\ ConvInv /\ [Next]_vars => ConvInv'
  <2> SUFFICES ASSUME LoadInv, LoadInv', ConvInv, [Next]_vars PROVE ConvInv'
    OBVIOUS
  <2>1. CASE Open
    BY <2>1, SteadyConv DEF Open, Unconverted
  <2>2. CASE ReadFile
    BY <2>2, SteadyConv DEF ReadFile, Unconverted
  <2>3. CASE Refuse
    BY <2>3, SteadyConv DEF Refuse, Unconverted
  <2>4. CASE NoMemory
    BY <2>4, SteadyConv DEF NoMemory, Unconverted
  <2>5. CASE ReadTables
    BY <2>5, SteadyConv DEF ReadTables, Unconverted
  <2>6. CASE ExtractPlural
    <3>1. /\ phase = "tables" /\ phase' \in {"plural", "ready"}
          /\ conv' = InitDomainConv /\ UNCHANGED <<file, binding, answer>>
      BY <2>6 DEF ExtractPlural
    <3>2. domain'.tables = domain.tables
      BY <3>1 DEF LoadInv
    <3>3. UpToDate(InitDomainConv) => UpToDate(conv)'
      BY <3>1, <3>2, Steady
    <3>4. UpToDate(conv)' /\ DOMAIN conv' = ConvFields /\ conv'.cntr = binding.cntr
      BY <3>1, <3>3, InitDomainConvIs DEF UpToDate
    <3>5. answer'.kind # "found"
      BY <3>1 DEF ConvInv
    <3>6. binding'.cntr \in Nat /\ conv'.cntr = binding'.cntr
          /\ binding'.codeset \in Codesets \union {""}
      BY <3>1, <3>4 DEF ConvInv
    <3>7. conv'.cntr <= binding'.cntr
      BY <3>6, Counting, Zenon
    <3> HIDE DEF ConvFields
    <3> QED
      BY <3>1, <3>4, <3>5, <3>6, <3>7 DEF ConvInv, OwnCodeset
  <2>7. CASE ParsePlural
    BY <2>7, SteadyConv DEF ParsePlural, Unconverted
  <2>8. CASE PluralParsed
    <3>1. domain'.tables = domain.tables
      BY <2>8 DEF LoadInv, PluralParsed
    <3> QED
      BY <2>8, <3>1, SteadyConv DEF PluralParsed, Unconverted
  <2>9. CASE \E i \in DOMAIN Ids, n \in Numbers : Lookup(Ids[i], n)
    BY <2>9, LookupConv
  <2>10. CASE \E codeset \in Codesets : BindCodeset(codeset)
    <3>1. PICK codeset \in Codesets : BindCodeset(codeset)
      BY <2>10
    <3>2. /\ binding' = [cntr |-> binding.cntr + 1, codeset |-> codeset]
          /\ answer' = NoAnswer /\ UNCHANGED conv
      BY <3>1 DEF BindCodeset
    <3>3. conv'.cntr # binding'.cntr /\ conv'.cntr <= binding'.cntr /\ binding'.cntr \in Nat
      <4>2. binding'.cntr = binding.cntr + 1 /\ conv'.cntr = conv.cntr
        BY <3>2
      <4>3. binding.cntr \in Nat /\ conv.cntr \in Nat /\ conv.cntr <= binding.cntr
        BY DEF ConvInv
      <4>4. /\ conv.cntr # binding.cntr + 1 /\ conv.cntr <= binding.cntr + 1
            /\ binding.cntr + 1 \in Nat
        BY <4>3, Counting, Zenon
      <4> QED
        BY <4>2, <4>4, Zenon
    <3> QED
      BY <3>2, <3>3 DEF ConvInv, OwnCodeset, NoAnswer
  <2>11. CASE UNCHANGED vars
    BY <2>11, SteadyConv DEF vars
  <2> QED
    BY <2>1, <2>2, <2>3, <2>4, <2>5, <2>6, <2>7, <2>8, <2>9, <2>10, <2>11 DEF Next
<1> QED
  BY <1>1, <1>2, LoadInvHolds, PTL DEF Spec

(***************************************************************************)
(* However often the codeset of the binding changes, before the catalogue  *)
(* is loaded and between look-ups: an answer is in the codeset of the      *)
(* moment, and in that of the file just when iconv cannot convert it or    *)
(* the memory for it failed (_nl_find_msg, bind_textdomain_codeset).       *)
(***************************************************************************)
THEOREM CodesetsAreOwn == Spec => []OwnCodeset
<1>1. ConvInv => OwnCodeset
  BY DEF ConvInv
<1> QED
  BY <1>1, ConvInvHolds, PTL

-----------------------------------------------------------------------------
(* The pool of converted strings.                                          *)

Pools == [block : Nat, at : Nat, size : Nat]

\* The next aligned place behind a string, and what is left from there on.
LEMMA ShrinkArithmetic ==
    ASSUME NEW at \in Nat, NEW size \in Nat, NEW used \in Nat, used <= size,
           at % Align = 0, size % Align = 0
    PROVE  LET left == size - used
               newAt == at + used + (left % Align)
               newSize == left - (left % Align)
           IN  /\ newAt \in Nat /\ newSize \in Nat /\ newAt + newSize = at + size
               /\ newAt >= at + used /\ newAt % Align = 0 /\ newSize % Align = 0
<1> DEFINE left == size - used
           over == left % Align
           a == at \div Align
           b == size \div Align
           c == left \div Align
<1>1. Align \in Nat \ {0} /\ left \in Nat
  BY SizesAssumption
<1>2. at = (Align * a) + 0 /\ a \in Int
  BY <1>1, DivMod
<1>3. size = (Align * b) + 0 /\ b \in Int
  BY <1>1, DivMod
<1>4. left = (Align * c) + over /\ c \in Int /\ over \in 0..(Align - 1)
  <2> HIDE DEF left
  <2> QED
    BY <1>1, DivMod
<1> HIDE DEF a, b, c, over
<1>5. left - over = Align * c /\ left - over \in Nat
  <2>1. c >= 0
    <3>1. Align * c > -Align
      BY <1>1, <1>4
    <3>2. c > -1
      BY <1>1, <1>4, <3>1
    <3> QED
      BY <1>4, <3>2
  <2>2. Align * c >= 0
    BY <1>1, <1>4, <2>1
  <2> QED
    BY <1>1, <1>4, <2>2
<1>6. (left - over) % Align = 0
  BY <1>1, <1>4, <1>5, Multiple
<1>7. at + used + over = Align * (a + b - c)
  <2>1. Align * (a + b - c) = (Align * a) + (Align * b) - (Align * c)
    BY <1>1, <1>2, <1>3, <1>4
  <2>2. at + used + over = at + size - (left - over)
    BY <1>1, <1>4
  <2>3. Align * a \in Int /\ Align * b \in Int /\ Align * c \in Int
    BY <1>1, <1>2, <1>3, <1>4
  <2> QED
    BY <1>2, <1>3, <1>5, <2>1, <2>2, <2>3
<1>8. (at + used + over) % Align = 0
  <2>1. a + b - c \in Int
    BY <1>2, <1>3, <1>4
  <2> QED
    BY <1>1, <1>7, <2>1, Multiple
<1>9. /\ at + used + over \in Nat /\ (at + used + over) + (left - over) = at + size
      /\ at + used + over >= at + used
  BY <1>1, <1>4
<1> QED
  BY <1>5, <1>6, <1>8, <1>9 DEF over

\* What is left of a block ends where the block ends.
LEMMA ShrunkIs ==
    ASSUME NEW p \in Pools, NEW used \in Nat, used <= p.size,
           p.at % Align = 0, p.size % Align = 0
    PROVE  /\ Shrunk(p, used) \in Pools /\ Shrunk(p, used).block = p.block
           /\ Shrunk(p, used).at + Shrunk(p, used).size = p.at + p.size
           /\ Shrunk(p, used).at >= p.at + used
           /\ Shrunk(p, used).at % Align = 0 /\ Shrunk(p, used).size % Align = 0
<1> DEFINE left == p.size - used
           newAt == p.at + used + (left % Align)
           newSize == left - (left % Align)
<1>1. p.at \in Nat /\ p.size \in Nat /\ p.block \in Nat
  BY DEF Pools
<1>2. /\ newAt \in Nat /\ newSize \in Nat /\ newAt + newSize = p.at + p.size
      /\ newAt >= p.at + used /\ newAt % Align = 0 /\ newSize % Align = 0
  BY <1>1, ShrinkArithmetic
<1>3. Shrunk(p, used) = [block |-> p.block, at |-> newAt, size |-> newSize]
  BY DEF Shrunk
<1> HIDE DEF newAt, newSize
<1>4. /\ Shrunk(p, used).block = p.block
      /\ Shrunk(p, used).at = newAt /\ Shrunk(p, used).size = newSize
  BY <1>3
<1>5. Shrunk(p, used) \in Pools
  BY <1>1, <1>2, <1>3 DEF Pools
<1> QED
  BY <1>2, <1>4, <1>5

\* A new block is a multiple of the block size that the string fits into.
LEMMA BlockCount ==
    ASSUME NEW need \in Nat \ {0}
    PROVE  \E k \in 1..need : k * BlockSize >= need /\ (k - 1) * BlockSize < need
<1>1. BlockSize \in Nat \ {0}
  BY SizesAssumption
<1> DEFINE enough == {k \in Nat : k * BlockSize >= need}
<1>2. need * BlockSize >= need
  BY <1>1
<1>3. need \in enough /\ enough \subseteq Nat
  BY <1>2
<1>4. PICK k \in enough : \A m \in enough : k <= m
  <2> HIDE DEF enough
  <2> QED
    BY <1>3, LeastOf
<1>5. k \in Nat /\ k * BlockSize >= need /\ k <= need
  BY <1>3, <1>4
<1>6. k # 0
  BY <1>1, <1>5
<1>7. k - 1 \in Nat /\ k - 1 \notin enough
  BY <1>4, <1>5, <1>6
<1>8. (k - 1) * BlockSize \in Int
  BY <1>1, <1>7
<1>9. (k - 1) * BlockSize < need
  BY <1>7, <1>8
<1> QED
  BY <1>5, <1>6, <1>9

\* The rest of the current block.
Left ==
  /\ pool.block \in DOMAIN blocks
  /\ pool.at + pool.size = blocks[pool.block]
  /\ pool.at % Align = 0

Within(r) ==
  /\ r.block \in DOMAIN blocks
  /\ r.at \in Nat /\ r.size \in Nat \ {0} /\ r.at % Align = 0
  /\ r.at + r.size <= blocks[r.block]
  /\ r.block = pool.block /\ pool.size > 0 => r.at + r.size <= pool.at

Apart(r, s) ==
  \/ s.block # r.block
  \/ s.at + s.size <= r.at
  \/ r.at + r.size <= s.at

PoolInv ==
  /\ pool \in Pools /\ pool.size % Align = 0
  /\ blocks \in Seq(Nat)
  /\ pool.size > 0 => Left
  /\ \A r \in given : Within(r)
  /\ \A r, s \in given : r # s => Apart(r, s)

\* What there is room in: a block, from a place on, after the regions in it.
HasRoom(p, bs, need) ==
  /\ p \in Pools /\ p.size >= need /\ p.at % Align = 0 /\ p.size % Align = 0
  /\ bs \in Seq(Nat)
  /\ p.block \in DOMAIN bs /\ p.at + p.size = bs[p.block]
  /\ \A b \in DOMAIN blocks : b \in DOMAIN bs /\ bs[b] = blocks[b]
  /\ \A r \in given : r.block = p.block => r.at + r.size <= p.at

\* A string gets the rest of the block, or a new one that it fits into.
LEMMA RoomIs ==
    ASSUME PoolInv, NEW need \in Nat \ {0}
    PROVE  HasRoom(Room(need).pool, Room(need).blocks, need)
<1>1. CASE pool.size >= need
  <2>1. Room(need).pool = pool /\ Room(need).blocks = blocks
    BY <1>1 DEF Room
  <2>2. pool.size > 0
    BY <1>1 DEF PoolInv, Pools
  <2>3. Left /\ pool \in Pools /\ pool.size % Align = 0 /\ blocks \in Seq(Nat)
    BY <2>2 DEF PoolInv
  <2>4. \A r \in given : r.block = pool.block => r.at + r.size <= pool.at
    BY <2>2 DEF PoolInv, Within
  <2> QED
    BY <1>1, <2>1, <2>3, <2>4 DEF HasRoom, Left
<1>2. CASE ~(pool.size >= need)
  <2> DEFINE k == CHOOSE k \in 1..need :
                    k * BlockSize >= need /\ (k - 1) * BlockSize < need
             size == k * BlockSize
  <2>1. k \in 1..need /\ size >= need
    BY BlockCount
  <2>2. /\ Room(need).pool = [block |-> Len(blocks) + 1, at |-> 0, size |-> size]
        /\ Room(need).blocks = Append(blocks, size)
    BY <1>2 DEF Room
  <2> HIDE DEF k
  <2>3. size \in Nat /\ size % Align = 0
    <3> DEFINE q == BlockSize \div Align
    <3>1. Align \in Nat \ {0} /\ BlockSize \in Nat \ {0} /\ BlockSize % Align = 0
      BY SizesAssumption
    <3>2. BlockSize = (Align * q) + 0 /\ q \in Int
      BY <3>1, DivMod
    <3> HIDE DEF q
    <3>3. size = Align * (k * q) /\ k * q \in Int
      BY <2>1, <3>1, <3>2
    <3>4. size % Align = 0
      <4> HIDE DEF size
      <4> QED
        BY <3>1, <3>3, Multiple
    <3>5. size \in Nat
      BY <2>1, <3>1
    <3> QED
      BY <3>4, <3>5
  <2> HIDE DEF size
  <2>4. blocks \in Seq(Nat) /\ Len(blocks) \in Nat /\ DOMAIN blocks = 1..Len(blocks)
    BY DEF PoolInv
  <2>5. /\ Append(blocks, size) \in Seq(Nat)
        /\ DOMAIN Append(blocks, size) = 1..(Len(blocks) + 1)
        /\ Append(blocks, size)[Len(blocks) + 1] = size
        /\ \A b \in 1..Len(blocks) : Append(blocks, size)[b] = blocks[b]
    BY <2>3, <2>4
  <2> DEFINE p == [block |-> Len(blocks) + 1, at |-> 0, size |-> size]
             bs == Append(blocks, size)
  <2>6. p \in Pools /\ p.block = Len(blocks) + 1 /\ p.at = 0 /\ p.size = size
    BY <2>3, <2>4 DEF Pools
  <2>7. \A r \in given : r.block # p.block
    <3>1. \A r \in given : r.block \in 1..Len(blocks)
      BY <2>4 DEF PoolInv, Within
    <3> QED
      BY <2>4, <2>6, <3>1
  <2>8. 0 % Align = 0
    BY SizesAssumption
  <2>9. p.block \in DOMAIN bs /\ bs[p.block] = size
    BY <2>4, <2>5, <2>6
  <2>10. \A b \in DOMAIN blocks : b \in DOMAIN bs /\ bs[b] = blocks[b]
    BY <2>4, <2>5
  <2>11. bs \in Seq(Nat)
    BY <2>5
  <2> HIDE DEF p, bs
  <2>12. p.at + p.size = bs[p.block]
    BY <2>3, <2>6, <2>9
  <2>13. HasRoom(p, bs, need)
    BY <2>1, <2>3, <2>6, <2>7, <2>8, <2>9, <2>10, <2>11, <2>12 DEF HasRoom
  <2> QED
    BY <2>2, <2>13 DEF p, bs
<1> QED
  BY <1>1, <1>2

\* A string is put where there is room.
LEMMA PutPool ==
    ASSUME PoolInv, NEW used \in Nat \ {0}, NEW p, HasRoom(p, blocks', used),
           NEW r, r.block = p.block, r.at = p.at, r.size = used,
           given' = given \union {r}, pool' = Shrunk(p, used)
    PROVE  PoolInv'
<1>1. p \in Pools /\ used <= p.size /\ p.at % Align = 0 /\ p.size % Align = 0
  BY DEF HasRoom, Pools
<1>2. p.at \in Nat /\ p.size \in Nat
  BY <1>1 DEF Pools
<1>3. /\ pool' \in Pools /\ pool'.block = p.block
      /\ pool'.at + pool'.size = p.at + p.size
      /\ pool'.at >= p.at + used
      /\ pool'.at % Align = 0 /\ pool'.size % Align = 0
  BY <1>1, ShrunkIs
<1>4. pool'.at \in Nat /\ pool'.size \in Nat
  BY <1>3 DEF Pools
<1>5. /\ blocks' \in Seq(Nat) /\ p.block \in DOMAIN blocks'
      /\ p.at + p.size = blocks'[p.block]
      /\ \A b \in DOMAIN blocks : b \in DOMAIN blocks' /\ blocks'[b] = blocks[b]
      /\ \A s \in given : s.block = p.block => s.at + s.size <= p.at
  BY DEF HasRoom
<1>6. Left'
  BY <1>3, <1>5 DEF Left
<1>7. Within(r)'
  <2>1. r.at + r.size <= pool'.at /\ pool'.at <= blocks'[p.block]
    BY <1>2, <1>3, <1>4, <1>5
  <2>2. blocks'[p.block] \in Nat
    BY <1>5
  <2>3. r.at + r.size <= blocks'[p.block]
    BY <1>2, <1>4, <2>1, <2>2
  <2> QED
    BY <1>1, <1>2, <1>5, <2>1, <2>3 DEF Within
<1>8. ASSUME NEW s \in given PROVE Within(s)' /\ Apart(r, s) /\ Apart(s, r)
  <2>1. /\ s.block \in DOMAIN blocks /\ s.at \in Nat /\ s.size \in Nat \ {0}
        /\ s.at % Align = 0 /\ s.at + s.size <= blocks[s.block]
    BY DEF PoolInv, Within
  <2>2. s.block \in DOMAIN blocks' /\ blocks'[s.block] = blocks[s.block]
    BY <1>5, <2>1
  <2>3. s.block = p.block => s.at + s.size <= p.at
    BY <1>5
  <2>4. s.block = p.block => s.at + s.size <= pool'.at
    BY <1>2, <1>3, <1>4, <2>1, <2>3
  <2> QED
    BY <1>3, <2>1, <2>2, <2>3, <2>4 DEF Within, Apart
<1>9. \A s \in given' : Within(s)'
  BY <1>7, <1>8
<1>10. \A s, u \in given' : s # u => Apart(s, u)
  BY <1>8 DEF PoolInv
<1> QED
  BY <1>3, <1>5, <1>6, <1>9, <1>10 DEF PoolInv

\* A string that iconv() gives up leaves the room it was tried in.
LEMMA TriedPool ==
    ASSUME PoolInv, NEW need \in Nat \ {0}, HasRoom(pool', blocks', need), given' = given
    PROVE  PoolInv'
<1>1. /\ pool' \in Pools /\ pool'.at % Align = 0 /\ pool'.size % Align = 0
      /\ blocks' \in Seq(Nat)
      /\ pool'.block \in DOMAIN blocks' /\ pool'.at + pool'.size = blocks'[pool'.block]
  BY DEF HasRoom
<1>2. Left'
  BY <1>1 DEF Left
<1>3. ASSUME NEW r \in given PROVE Within(r)'
  <2>1. r.block \in DOMAIN blocks' /\ blocks'[r.block] = blocks[r.block]
    BY <1>3 DEF PoolInv, Within, HasRoom
  <2>2. r.block = pool'.block => r.at + r.size <= pool'.at
    BY <1>3 DEF HasRoom
  <2> QED
    BY <1>3, <2>1, <2>2 DEF PoolInv, Within
<1> QED
  BY <1>1, <1>2, <1>3 DEF PoolInv, Apart

\* A block is given up.
LEMMA GivenUpPool ==
    ASSUME PoolInv, pool' = [pool EXCEPT !.at = 0, !.size = 0], UNCHANGED <<blocks, given>>
    PROVE  PoolInv'
<1>1. pool' \in Pools /\ pool'.size = 0 /\ pool'.size \in Nat
  BY DEF PoolInv, Pools
<1>2. 0 % Align = 0
  BY SizesAssumption
<1>3. ~(pool'.size > 0)
  BY <1>1
<1>4. \A r \in given' : Within(r)'
  BY <1>3 DEF PoolInv, Within
<1> QED
  BY <1>1, <1>2, <1>3, <1>4 DEF PoolInv, Apart

\* Steps that touch neither the pool nor the strings.
LEMMA SamePool ==
    PoolInv /\ UNCHANGED <<pool, blocks, given>> => PoolInv'
BY DEF PoolInv, Left, Within, Apart

\* No string needs no room.
LEMMA WordAdds == \A x \in Nat : Word + x \in Nat \ {0}
BY SizesAssumption

\* What a string needs when it is converted.
LEMMA NeedIs ==
    ASSUME LoadInv, ConvInv, phase = "ready", NEW i \in DOMAIN Ids,
           Find(Ids[i]) # None, Current.to # ""
    PROVE  Need(Forms(Find(Ids[i]))) \in Nat \ {0}
<1>1. UpToDate(Current)
  BY CurrentIs
<1>2. Current.to \in Codesets \union {LocaleCodeset}
  BY <1>1, InitDomainConvIs DEF UpToDate, ConvInv
<1>3. <<Ids[i], Forms(Find(Ids[i]))>> \in TranslationsOf(file)
  BY FoundInTables DEF FoundIffPresent, Translations
<1>4. file \in Files /\ file.kind = "file"
  BY DEF LoadInv
<1>5. PICK t \in TranslationsOf(file) : t[2] = Forms(Find(Ids[i]))
  BY <1>3
<1>6. Bytes(Forms(Find(Ids[i])), Current.to) \in Nat
  BY <1>2, <1>4, <1>5, BytesAssumption
<1> QED
  BY <1>6, WordAdds, Zenon DEF Need

\* A look-up puts at most one string into the pool, behind all others.
LEMMA LookupPool ==
    ASSUME LoadInv, ConvInv, PoolInv, NEW i \in DOMAIN Ids, NEW n \in Numbers,
           Lookup(Ids[i], n)
    PROVE  PoolInv'
<1> DEFINE id == Ids[i]
           act == Find(id)
<1>1. CASE UNCHANGED <<pool, blocks, given>>
  BY <1>1, SamePool
<1>2. ASSUME phase # "none", act # None, AnswerNoBlock(id, n) PROVE PoolInv'
  BY <1>2, GivenUpPool DEF AnswerNoBlock
<1> DEFINE used == Need(Forms(act))
<1>3. ASSUME phase # "none", act # None, ToConvert(act)
      PROVE  used \in Nat \ {0}
  <2>1. phase = "ready" /\ Current.to # ""
    BY <1>3 DEF Lookup, ToConvert
  <2> QED
    BY <1>3, <2>1, NeedIs
<1>4. ASSUME phase # "none", act # None, AnswerUnconvertible(id, n) PROVE PoolInv'
  <2>1. /\ ToConvert(act) /\ given' = given
        /\ pool' = Room(used).pool /\ blocks' = Room(used).blocks
    BY <1>4, Zenon DEF AnswerUnconvertible
  <2>2. used \in Nat \ {0}
    BY <1>3, <1>4, <2>1
  <2> HIDE DEF used
  <2>3. HasRoom(pool', blocks', used)
    BY <2>1, <2>2, RoomIs
  <2> QED
    BY <2>1, <2>2, <2>3, TriedPool
<1>5. ASSUME phase # "none", act # None, AnswerConverted(id, n) PROVE PoolInv'
  <2> DEFINE r == [block |-> Room(used).pool.block, at |-> Room(used).pool.at,
                   size |-> used, forms |-> Forms(act), codeset |-> Current.to]
  <2>1. /\ ToConvert(act) /\ given' = given \union {r}
        /\ pool' = Shrunk(Room(used).pool, used) /\ blocks' = Room(used).blocks
    BY <1>5, Zenon DEF AnswerConverted
  <2>2. used \in Nat \ {0}
    BY <1>3, <1>5, <2>1
  <2>3. /\ r.block = Room(used).pool.block /\ r.at = Room(used).pool.at
        /\ r.size = used
    OBVIOUS
  <2> HIDE DEF used, r
  <2>4. HasRoom(Room(used).pool, blocks', used)
    BY <2>1, <2>2, RoomIs
  <2> QED
    BY <2>1, <2>2, <2>3, <2>4, PutPool
<1>6. CASE AnswerPlain(id, n) \/ AnswerNoTable(id, n) \/ AnswerAgain(id, n)
  BY <1>6, SamePool DEF AnswerPlain, AnswerNoTable, AnswerAgain
<1> QED
  BY <1>1, <1>2, <1>4, <1>5, <1>6 DEF Lookup

\* The pool is in order in every reachable state.
LEMMA PoolInvHolds == Spec => []PoolInv
<1>1. Init => PoolInv
  <2> SUFFICES ASSUME Init PROVE PoolInv
    OBVIOUS
  <2>1. pool = [block |-> 0, at |-> 0, size |-> 0] /\ blocks = <<>> /\ given = {}
    BY DEF Init
  <2>2. pool \in Pools /\ pool.size = 0
    BY <2>1 DEF Pools
  <2>3. 0 % Align = 0
    BY SizesAssumption
  <2>4. ~(pool.size > 0)
    BY <2>2
  <2>5. blocks \in Seq(Nat)
    BY <2>1
  <2> QED
    BY <2>1, <2>2, <2>3, <2>4, <2>5 DEF PoolInv
<1>2. LoadInv /\ ConvInv /\ PoolInv /\ [Next]_vars => PoolInv'
  <2> SUFFICES ASSUME LoadInv, ConvInv, PoolInv, [Next]_vars PROVE PoolInv'
    OBVIOUS
  <2>1. CASE \E i \in DOMAIN Ids, n \in Numbers : Lookup(Ids[i], n)
    BY <2>1, LookupPool
  <2>2. CASE UNCHANGED <<pool, blocks, given>>
    BY <2>2, SamePool
  <2>3. CASE Open \/ ReadFile \/ Refuse \/ NoMemory \/ ReadTables
    BY <2>3, <2>2 DEF Open, ReadFile, Refuse, NoMemory, ReadTables, Unconverted
  <2>4. CASE ExtractPlural \/ ParsePlural \/ PluralParsed
    <3>1. UNCHANGED <<pool, blocks, given>>
      BY <2>4, Zenon DEF ExtractPlural, ParsePlural, PluralParsed, Unconverted
    <3> QED
      BY <3>1, <2>2
  <2>5. CASE \E codeset \in Codesets : BindCodeset(codeset)
    BY <2>5, <2>2 DEF BindCodeset
  <2>6. CASE UNCHANGED vars
    BY <2>6, <2>2 DEF vars
  <2> QED
    BY <2>1, <2>3, <2>4, <2>5, <2>6 DEF Next
<1> QED
  BY <1>1, <1>2, LoadInvHolds, ConvInvHolds, PTL DEF Spec

(***************************************************************************)
(* Whatever the sizes of words, blocks and strings, and whenever malloc()  *)
(* or iconv() fails: a converted string lies aligned within its block, and no later   *)
(* one overlaps it (_nl_find_msg).                                         *)
(***************************************************************************)
THEOREM RegionsStayApart == Spec => []RegionsApart
<1>1. PoolInv => RegionsApart
  BY DEF PoolInv, RegionsApart, Within, Apart
<1> QED
  BY <1>1, PoolInvHolds, PTL


-----------------------------------------------------------------------------
(* Masks and their numbers.                                                *)

\* The bits of the encoding.
LEMMA BitsAre ==
  /\ Bits = {1, 2, 4, 8, 16, 32, 64, 128} /\ NormCodeset = 8 /\ Codeset = 16
  /\ Audience = 64 /\ Modifier = 128
BY DEF Bits, Revision, Sponsor, Special, NormCodeset, Codeset, Territory, Audience, Modifier

\* What a bit adds to the number of a mask.
Adds(mask, bit) == IF bit \in mask THEN bit ELSE 0

\* The number of a mask is the sum of what its bits add.
LEMMA EncodedIs ==
  ASSUME NEW mask
  PROVE  /\ Encoded(mask) = Adds(mask, 1) + Adds(mask, 2) + Adds(mask, 4) + Adds(mask, 8)
                            + Adds(mask, 16) + Adds(mask, 32) + Adds(mask, 64)
                            + Adds(mask, 128)
         /\ \A bit \in {1, 2, 4, 8, 16, 32, 64, 128} :
              /\ bit \in mask => Adds(mask, bit) = bit
              /\ bit \notin mask => Adds(mask, bit) = 0
         /\ Encoded(mask) \in 0..255
<1>1. \A bit \in {1, 2, 4, 8, 16, 32, 64, 128} :
        /\ bit \in mask => Adds(mask, bit) = bit
        /\ bit \notin mask => Adds(mask, bit) = 0
        /\ Adds(mask, bit) \in {0, bit}
  BY DEF Adds
<1>2. Encoded(mask) = Adds(mask, 1) + Adds(mask, 2) + Adds(mask, 4) + Adds(mask, 8)
                      + Adds(mask, 16) + Adds(mask, 32) + Adds(mask, 64) + Adds(mask, 128)
  BY DEF Encoded, Adds, Revision, Sponsor, Special, NormCodeset, Codeset, Territory,
         Audience, Modifier
<1> HIDE DEF Adds
<1>3. Encoded(mask) \in 0..255
  BY <1>1, <1>2
<1> QED
  BY <1>1, <1>2, <1>3

\* The larger number is that of the mask with the largest bit that the other lacks.
Larger(a, b) == \E bit \in a \ b : \A other \in b \ a : other < bit

\* The larger number has the highest bit in which two masks differ.
LEMMA LargerNumber ==
  ASSUME NEW a \in SUBSET Bits, NEW b \in SUBSET Bits, Encoded(a) > Encoded(b)
  PROVE  Larger(a, b)
<1>1. a \in SUBSET {1, 2, 4, 8, 16, 32, 64, 128} /\ b \in SUBSET {1, 2, 4, 8, 16, 32, 64, 128}
  BY BitsAre
<1>2. \A mask : \A bit \in {1, 2, 4, 8, 16, 32, 64, 128} :
        Adds(mask, bit) \in {0, bit} /\ (bit \in mask <=> Adds(mask, bit) = bit)
        /\ (bit \notin mask <=> Adds(mask, bit) = 0)
  BY DEF Adds
<1>3. Adds(a, 1) + Adds(a, 2) + Adds(a, 4) + Adds(a, 8) + Adds(a, 16) + Adds(a, 32)
      + Adds(a, 64) + Adds(a, 128)
      > Adds(b, 1) + Adds(b, 2) + Adds(b, 4) + Adds(b, 8) + Adds(b, 16) + Adds(b, 32)
        + Adds(b, 64) + Adds(b, 128)
  BY EncodedIs
<1>4. \E bit \in {1, 2, 4, 8, 16, 32, 64, 128} :
        /\ Adds(a, bit) > Adds(b, bit)
        /\ \A other \in {1, 2, 4, 8, 16, 32, 64, 128} : other > bit => Adds(a, other) = Adds(b, other)
  <2> DEFINE a1 == Adds(a, 1)  a2 == Adds(a, 2)  a3 == Adds(a, 4)  a4 == Adds(a, 8)
             a5 == Adds(a, 16)  a6 == Adds(a, 32)  a7 == Adds(a, 64)  a8 == Adds(a, 128)
             b1 == Adds(b, 1)  b2 == Adds(b, 2)  b3 == Adds(b, 4)  b4 == Adds(b, 8)
             b5 == Adds(b, 16)  b6 == Adds(b, 32)  b7 == Adds(b, 64)  b8 == Adds(b, 128)
  <2>1. /\ a1 \in {0, 1} /\ a2 \in {0, 2} /\ a3 \in {0, 4} /\ a4 \in {0, 8}
        /\ a5 \in {0, 16} /\ a6 \in {0, 32} /\ a7 \in {0, 64} /\ a8 \in {0, 128}
        /\ b1 \in {0, 1} /\ b2 \in {0, 2} /\ b3 \in {0, 4} /\ b4 \in {0, 8}
        /\ b5 \in {0, 16} /\ b6 \in {0, 32} /\ b7 \in {0, 64} /\ b8 \in {0, 128}
    BY <1>2
  <2>2. a1 + a2 + a3 + a4 + a5 + a6 + a7 + a8 > b1 + b2 + b3 + b4 + b5 + b6 + b7 + b8
    BY <1>3
  <2>3. \/ a8 > b8
        \/ a8 = b8 /\ a7 > b7
        \/ a8 = b8 /\ a7 = b7 /\ a6 > b6
        \/ a8 = b8 /\ a7 = b7 /\ a6 = b6 /\ a5 > b5
        \/ a8 = b8 /\ a7 = b7 /\ a6 = b6 /\ a5 = b5 /\ a4 > b4
        \/ a8 = b8 /\ a7 = b7 /\ a6 = b6 /\ a5 = b5 /\ a4 = b4 /\ a3 > b3
        \/ a8 = b8 /\ a7 = b7 /\ a6 = b6 /\ a5 = b5 /\ a4 = b4 /\ a3 = b3 /\ a2 > b2
        \/ a8 = b8 /\ a7 = b7 /\ a6 = b6 /\ a5 = b5 /\ a4 = b4 /\ a3 = b3 /\ a2 = b2 /\ a1 > b1
    <3> HIDE DEF a1, a2, a3, a4, a5, a6, a7, a8, b1, b2, b3, b4, b5, b6, b7, b8
    <3> QED
      BY <2>1, <2>2
  <2> QED
    BY <2>3
<1>5. PICK bit \in {1, 2, 4, 8, 16, 32, 64, 128} :
        /\ Adds(a, bit) > Adds(b, bit)
        /\ \A other \in {1, 2, 4, 8, 16, 32, 64, 128} : other > bit => Adds(a, other) = Adds(b, other)
  BY <1>4
<1>6. bit \in a \ b
  BY <1>2, <1>5
<1>7. \A other \in b \ a : other < bit
  <2> SUFFICES ASSUME NEW other \in b, other \notin a PROVE other < bit
    OBVIOUS
  <2>1. other \in {1, 2, 4, 8, 16, 32, 64, 128} /\ other # bit
    BY <1>1, <1>6
  <2>2. Adds(a, other) # Adds(b, other)
    BY <1>2, <2>1
  <2> QED
    BY <1>5, <2>1, <2>2
<1> QED
  BY <1>6, <1>7 DEF Larger

\* Of two masks at most one has the larger number.
LEMMA LargerIsNot ==
  ASSUME NEW a \in SUBSET Bits, NEW b \in SUBSET Bits, Larger(a, b)
  PROVE  ~Larger(b, a)
BY BitsAre DEF Larger

\* The number of a mask tells its bits.
LEMMA SameNumber ==
  ASSUME NEW a \in SUBSET Bits, NEW b \in SUBSET Bits, Encoded(a) = Encoded(b)
  PROVE  a = b
<1>1. a \in SUBSET {1, 2, 4, 8, 16, 32, 64, 128} /\ b \in SUBSET {1, 2, 4, 8, 16, 32, 64, 128}
  BY BitsAre
<1>2. \A mask : \A bit \in {1, 2, 4, 8, 16, 32, 64, 128} :
        Adds(mask, bit) \in {0, bit} /\ (bit \in mask <=> Adds(mask, bit) = bit)
        /\ (bit \notin mask <=> Adds(mask, bit) = 0)
  BY DEF Adds
<1>3. Adds(a, 1) + Adds(a, 2) + Adds(a, 4) + Adds(a, 8) + Adds(a, 16) + Adds(a, 32)
      + Adds(a, 64) + Adds(a, 128)
      = Adds(b, 1) + Adds(b, 2) + Adds(b, 4) + Adds(b, 8) + Adds(b, 16) + Adds(b, 32)
        + Adds(b, 64) + Adds(b, 128)
  BY EncodedIs
<1>4. /\ Adds(a, 1) = Adds(b, 1) /\ Adds(a, 2) = Adds(b, 2) /\ Adds(a, 4) = Adds(b, 4)
      /\ Adds(a, 8) = Adds(b, 8) /\ Adds(a, 16) = Adds(b, 16) /\ Adds(a, 32) = Adds(b, 32)
      /\ Adds(a, 64) = Adds(b, 64) /\ Adds(a, 128) = Adds(b, 128)
  <2> DEFINE a1 == Adds(a, 1)  a2 == Adds(a, 2)  a3 == Adds(a, 4)  a4 == Adds(a, 8)
             a5 == Adds(a, 16)  a6 == Adds(a, 32)  a7 == Adds(a, 64)  a8 == Adds(a, 128)
             b1 == Adds(b, 1)  b2 == Adds(b, 2)  b3 == Adds(b, 4)  b4 == Adds(b, 8)
             b5 == Adds(b, 16)  b6 == Adds(b, 32)  b7 == Adds(b, 64)  b8 == Adds(b, 128)
  <2>1. /\ a1 \in {0, 1} /\ a2 \in {0, 2} /\ a3 \in {0, 4} /\ a4 \in {0, 8}
        /\ a5 \in {0, 16} /\ a6 \in {0, 32} /\ a7 \in {0, 64} /\ a8 \in {0, 128}
        /\ b1 \in {0, 1} /\ b2 \in {0, 2} /\ b3 \in {0, 4} /\ b4 \in {0, 8}
        /\ b5 \in {0, 16} /\ b6 \in {0, 32} /\ b7 \in {0, 64} /\ b8 \in {0, 128}
    BY <1>2
  <2>2. a1 + a2 + a3 + a4 + a5 + a6 + a7 + a8 = b1 + b2 + b3 + b4 + b5 + b6 + b7 + b8
    BY <1>3
  <2> HIDE DEF a1, a2, a3, a4, a5, a6, a7, a8, b1, b2, b3, b4, b5, b6, b7, b8
  <2>3. a8 = b8 /\ a7 = b7 /\ a6 = b6 /\ a5 = b5 /\ a4 = b4 /\ a3 = b3 /\ a2 = b2 /\ a1 = b1
    BY <2>1, <2>2
  <2> QED
    BY <2>3 DEF a1, a2, a3, a4, a5, a6, a7, a8, b1, b2, b3, b4, b5, b6, b7, b8
<1>5. \A bit \in {1, 2, 4, 8, 16, 32, 64, 128} : bit \in a <=> bit \in b
  BY <1>2, <1>4
<1>6. ASSUME NEW bit \in a PROVE bit \in b
  BY <1>1, <1>5
<1>7. ASSUME NEW bit \in b PROVE bit \in a
  BY <1>1, <1>5
<1> QED
  BY <1>6, <1>7

\* A mask has a larger number than its parts.
LEMMA PartsAreLess ==
  ASSUME NEW a \in SUBSET Bits, NEW b \in SUBSET a, a # b
  PROVE  Encoded(b) < Encoded(a)
<1>1. b \in SUBSET Bits /\ ~Larger(b, a)
  BY DEF Larger
<1>2. Encoded(a) # Encoded(b)
  BY <1>1, SameNumber
<1>3. Encoded(a) \in Nat /\ Encoded(b) \in Nat
  BY EncodedIs
<1> QED
  BY <1>1, <1>2, <1>3, LargerNumber


\* There are finitely many masks.
LEMMA FiniteBits ==
  /\ IsFiniteSet(Bits)
  /\ \A mask \in SUBSET Bits : IsFiniteSet(SUBSET mask) /\ IsFiniteSet(Less(mask))
<1>1. IsFiniteSet(Bits)
  <2>1. IsFiniteSet(1..128)
    BY 1 \in Int, 128 \in Int, FS_Interval, Zenon
  <2>2. Bits \subseteq 1..128
    BY BitsAre
  <2> QED
    BY <2>1, <2>2, FS_Subset
<1>2. ASSUME NEW mask \in SUBSET Bits
      PROVE  IsFiniteSet(SUBSET mask) /\ IsFiniteSet(Less(mask))
  <2>1. IsFiniteSet(mask)
    BY <1>1, FS_Subset
  <2>2. IsFiniteSet(SUBSET mask)
    BY <2>1, FS_SUBSET
  <2> QED
    BY <2>2, FS_Subset DEF Less
<1> QED
  BY <1>1, <1>2

\* A list of masks in descending order, which are just those of a set.
Descending(masks, n, S) ==
  /\ n \in Nat
  /\ masks = [i \in 1..n |-> masks[i]]
  /\ S = {masks[i] : i \in 1..n}
  /\ \A i, j \in 1..n : i < j => Encoded(masks[j]) < Encoded(masks[i])

\* The loop passes the masks it lets pass in descending order.
LEMMA DominatedIs ==
  ASSUME NEW mask \in SUBSET Bits
  PROVE  \E n \in Nat : Descending(Dominated[mask], n, Less(mask))
<1> DEFINE S == Less(mask)
           numbers == {Encoded(cnt) : cnt \in S}
           n == Cardinality(numbers)
           up == Ascending(numbers)
           down == Dominated[mask]
<1>1. S \subseteq SUBSET Bits
  BY DEF Less
<1>2. numbers \in SUBSET Nat /\ IsFiniteSet(numbers)
  <2>1. numbers \in SUBSET Nat
    BY EncodedIs
  <2>2. IsFiniteSet(0..255)
    BY 0 \in Int, 255 \in Int, FS_Interval, Zenon
  <2>3. numbers \in SUBSET (0..255)
    BY EncodedIs
  <2>4. IsFiniteSet(numbers)
    BY <2>2, <2>3, FS_Subset, Zenon
  <2> QED
    BY <2>1, <2>4
<1>3. /\ n \in Nat /\ DOMAIN up = 1..n
      /\ \A k \in 1..n : up[k] \in numbers
      /\ \A i \in numbers : \E k \in 1..n : up[k] = i
  BY <1>2, AscendingIs
<1>4. \A i, j \in 1..n : i < j => up[i] < up[j]
  <2> DEFINE b == [k \in 1..n |-> up[k]]
  <2>1. b \in [1..n -> Nat]
    BY <1>2, <1>3
  <2>2. \A k \in 1..n : k + 1 \in 1..n => b[k] < b[k + 1]
    <3> SUFFICES ASSUME NEW k \in 1..n, k + 1 \in 1..n PROVE up[k] < up[k + 1]
      OBVIOUS
    <3> HIDE DEF numbers
    <3> QED
      BY <1>2, <1>3, Consecutive
  <2>3. n \in Nat
    BY <1>3
  <2> HIDE DEF b, n, up
  <2>4. \A i, j \in 1..n : i < j => b[i] < b[j]
    BY <2>1, <2>2, <2>3, IncreasesAlways
  <2> QED
    BY <2>4 DEF b
<1>5. Len(up) = n
  <2>1. up = [k \in 1..n |-> up[k]]
    BY <1>3, AscendingIsFunction
  <2> HIDE DEF up, n
  <2> QED
    BY <1>3, <2>1, SequenceOfFunction
<1>6. down = [i \in 1..n |-> CHOOSE cnt \in S : Encoded(cnt) = up[n + 1 - i]]
  <2>1. down = [i \in DOMAIN up |-> CHOOSE cnt \in S : Encoded(cnt) = up[Len(up) + 1 - i]]
    BY Zenon DEF Dominated
  <2> HIDE DEF down, up, n, S
  <2> QED
    BY <1>3, <1>5, <2>1
<1> HIDE DEF down, up, n
<1>7. \A i \in 1..n : n + 1 - i \in 1..n
  BY <1>3
<1>8. \A i \in 1..n : down[i] \in S /\ Encoded(down[i]) = up[n + 1 - i]
  <2> SUFFICES ASSUME NEW i \in 1..n PROVE down[i] \in S /\ Encoded(down[i]) = up[n + 1 - i]
    OBVIOUS
  <2>1. \E cnt \in S : Encoded(cnt) = up[n + 1 - i]
    BY <1>3, <1>7
  <2>2. down[i] = CHOOSE cnt \in S : Encoded(cnt) = up[n + 1 - i]
    BY <1>6
  <2> HIDE DEF S
  <2> QED
    BY <2>1, <2>2
<1>9. \A i, j \in 1..n : i < j => Encoded(down[j]) < Encoded(down[i])
  BY <1>3, <1>4, <1>7, <1>8
<1>10. ASSUME NEW cnt \in S PROVE \E i \in 1..n : down[i] = cnt
  <2>1. PICK k \in 1..n : up[k] = Encoded(cnt)
    BY <1>3
  <2>2. n + 1 - k \in 1..n /\ n + 1 - (n + 1 - k) = k
    BY <1>3
  <2>3. Encoded(down[n + 1 - k]) = Encoded(cnt)
    BY <1>8, <2>1, <2>2
  <2>4. down[n + 1 - k] = cnt
    BY <1>1, <1>8, <2>2, <2>3, SameNumber
  <2> QED
    BY <2>2, <2>4
<1>11. S = {down[i] : i \in 1..n}
  BY <1>8, <1>10
<1>12. down = [i \in 1..n |-> down[i]]
  BY <1>6
<1> QED
  <2>1. Descending(down, n, S)
    BY <1>3, <1>9, <1>11, <1>12 DEF Descending
  <2> QED
    BY <1>3, <2>1, Zenon DEF down

\* A mask is in front of those it dominates.
LEMMA MasksIs ==
  ASSUME NEW mask \in SUBSET Bits
  PROVE  /\ \E n \in Nat \ {0} : Descending(Masks(mask), n, {mask} \union Less(mask))
         /\ Masks(mask)[1] = mask
<1>1. PICK n \in Nat : Descending(Dominated[mask], n, Less(mask))
  BY DominatedIs
<1> DEFINE down == Dominated[mask]
           all == Masks(mask)
<1>2. /\ down = [i \in 1..n |-> down[i]] /\ Less(mask) = {down[i] : i \in 1..n}
      /\ \A i, j \in 1..n : i < j => Encoded(down[j]) < Encoded(down[i])
  BY <1>1 DEF Descending
<1>3. \A cnt \in Less(mask) : Encoded(cnt) < Encoded(mask)
  BY PartsAreLess DEF Less
<1>4. Less(mask) \subseteq SUBSET Bits
  BY DEF Less
<1>5. all = <<mask>> \o down
  BY DEF Masks
<1> HIDE DEF down, all
<1>6. down \in Seq(SUBSET Bits) /\ Len(down) = n
  BY <1>2, <1>4, SequenceOfFunction
<1>7. /\ all = [i \in 1..(n + 1) |-> all[i]] /\ all[1] = mask
      /\ \A i \in 1..n : all[i + 1] = down[i]
  BY <1>5, <1>6
<1>8. \A i \in 1..(n + 1) : i = 1 \/ (i - 1 \in 1..n /\ all[i] = down[i - 1])
  <2> SUFFICES ASSUME NEW i \in 1..(n + 1), i # 1 PROVE i - 1 \in 1..n /\ all[i] = down[i - 1]
    OBVIOUS
  <2>1. i - 1 \in 1..n /\ (i - 1) + 1 = i
    OBVIOUS
  <2> QED
    BY <1>7, <2>1
<1>9. {mask} \union Less(mask) = {all[i] : i \in 1..(n + 1)}
  <2>1. ASSUME NEW i \in 1..(n + 1) PROVE all[i] \in {mask} \union Less(mask)
    BY <1>2, <1>7, <1>8
  <2>2. ASSUME NEW cnt \in {mask} \union Less(mask) PROVE \E i \in 1..(n + 1) : all[i] = cnt
    <3>1. CASE cnt = mask
      BY <1>7, <3>1
    <3>2. CASE cnt # mask
      <4>1. PICK i \in 1..n : down[i] = cnt
        BY <1>2, <3>2
      <4>2. i + 1 \in 1..(n + 1)
        OBVIOUS
      <4>3. all[i + 1] = cnt
        BY <1>7, <4>1
      <4> QED
        BY <4>2, <4>3
    <3> QED
      BY <3>1, <3>2
  <2> QED
    BY <2>1, <2>2
<1>10. \A i, j \in 1..(n + 1) : i < j => Encoded(all[j]) < Encoded(all[i])
  <2> SUFFICES ASSUME NEW i \in 1..(n + 1), NEW j \in 1..(n + 1), i < j
               PROVE  Encoded(all[j]) < Encoded(all[i])
    OBVIOUS
  <2>1. j - 1 \in 1..n /\ all[j] = down[j - 1]
    BY <1>8
  <2>2. CASE i = 1
    BY <1>2, <1>3, <1>7, <2>1, <2>2
  <2>3. CASE i # 1
    <3>1. i - 1 \in 1..n /\ all[i] = down[i - 1] /\ i - 1 < j - 1
      BY <1>8, <2>3
    <3> QED
      BY <1>2, <2>1, <3>1
  <2> QED
    BY <2>2, <2>3
<1>11. Descending(all, n + 1, {mask} \union Less(mask)) /\ n + 1 \in Nat \ {0}
  BY <1>7, <1>9, <1>10 DEF Descending
<1> QED
  BY <1>7, <1>11 DEF all

\* The masks below one that is below another are below the other, too.
LEMMA BelowAgain ==
  ASSUME NEW mask \in SUBSET Bits, NEW cnt \in {mask} \union Less(mask)
  PROVE  cnt \in SUBSET Bits /\ {cnt} \union Less(cnt) \subseteq {mask} \union Less(mask)
BY DEF Less

\* The masks that are tried are the mask itself and the less specific ones.
LEMMA MaskSet ==
  ASSUME NEW mask \in SUBSET Bits
  PROVE  ToSet(Masks(mask)) = {mask} \union Less(mask)
<1>1. PICK n \in Nat : Descending(Masks(mask), n, {mask} \union Less(mask))
  BY MasksIs
<1> DEFINE all == Masks(mask)
           S == {mask} \union Less(mask)
<1>2. all = [i \in 1..n |-> all[i]] /\ S = {all[i] : i \in 1..n}
  BY <1>1 DEF Descending
<1> HIDE DEF all, S
<1>3. DOMAIN all = 1..n
  BY <1>2
<1>4. ToSet(all) = S
  BY <1>2, <1>3 DEF ToSet
<1> QED
  BY <1>4 DEF all, S

\* The paths of a mask: a list, of which the first is that of the mask.
ListOfPaths(paths, n, dir, parts, mask, mofile) ==
  /\ n \in Nat \ {0}
  /\ Descending(Masks(mask), n, {mask} \union Less(mask))
  /\ DOMAIN paths = 1..n
  /\ \A i \in 1..n : paths[i] = FileName(dir, parts, Masks(mask)[i], mofile)
  /\ paths[1] = FileName(dir, parts, mask, mofile)
  /\ <<paths[1]>> \o Tail(paths) = paths
  /\ ToSet(Tail(paths)) \subseteq ToSet(paths)

\* The files of a mask and the less specific ones, each at its place.
LEMMA PathsIs ==
  ASSUME NEW dir, NEW parts, NEW mask \in SUBSET Bits, NEW mofile
  PROVE  \E n : ListOfPaths(Paths(dir, parts, mask, mofile), n, dir, parts, mask, mofile)
<1> DEFINE masks == Masks(mask)
           name(m) == FileName(dir, parts, m, mofile)
           paths == Paths(dir, parts, mask, mofile)
<1>1. PICK n \in Nat \ {0} : Descending(masks, n, {mask} \union Less(mask))
  BY MasksIs
<1>2. masks[1] = mask
  BY MasksIs
<1>3. DOMAIN masks = 1..n
  BY <1>1 DEF Descending
<1>4. paths = [i \in DOMAIN masks |-> name(masks[i])]
  BY DEF Paths
<1> HIDE DEF masks, name, paths
<1>5. paths = [i \in 1..n |-> paths[i]] /\ \A i \in 1..n : paths[i] = name(masks[i])
  BY <1>3, <1>4
<1>6. paths \in Seq({paths[k] : k \in 1..n}) /\ Len(paths) = n /\ DOMAIN paths = 1..n
  BY <1>5, SequenceOfFunction
<1>7. <<paths[1]>> \o Tail(paths) = paths
  <2> DEFINE T == {paths[k] : k \in 1..n}
  <2>1. paths \in Seq(T) /\ Len(paths) = n
    BY <1>6
  <2> HIDE DEF T
  <2> QED
    BY <2>1
<1>8. paths[1] = name(mask)
  BY <1>2, <1>5
<1>9. ToSet(Tail(paths)) \subseteq ToSet(paths)
  <2> DEFINE T == {paths[k] : k \in 1..n}
  <2>1. paths \in Seq(T) /\ Len(paths) = n /\ T = ToSet(paths)
    BY <1>6 DEF ToSet
  <2> HIDE DEF T
  <2>2. Tail(paths) \in Seq(T)
    BY <2>1
  <2>3. ToSet(Tail(paths)) \subseteq T
    BY <2>2 DEF ToSet
  <2> QED
    BY <2>1, <2>3
<1>10. ListOfPaths(paths, n, dir, parts, mask, mofile)
  BY <1>1, <1>5, <1>6, <1>7, <1>8, <1>9, Zenon DEF ListOfPaths, masks, name
<1> QED
  BY <1>10, Zenon DEF paths

\* What is known of the parts of a name: their bits, and that a name in CEN's
\* syntax has no codeset, and a modifier only with an audience.
Syntax(parts) ==
  /\ parts.mask \in SUBSET Bits
  /\ ~parts.xpg => /\ Codeset \notin parts.mask /\ NormCodeset \notin parts.mask
                   /\ Modifier \in parts.mask => Audience \in parts.mask

\* A name that was taken apart has parts of one syntax.
LEMMA SyntaxOf ==
  ASSUME NEW language, NEW parsed, NEW norm
  PROVE  Syntax(PartsOf(language, parsed, norm))
<1> DEFINE parts == PartsOf(language, parsed, norm)
<1>1. parts.mask = MaskOf(parsed, norm) /\ parts.xpg = Xpg(parsed)
  BY DEF PartsOf
<1>2. MaskOf(parsed, norm) \in SUBSET Bits
  BY DEF MaskOf, Bits
<1>3. ASSUME ~Xpg(parsed)
      PROVE  /\ Codeset \notin MaskOf(parsed, norm) /\ NormCodeset \notin MaskOf(parsed, norm)
             /\ Modifier \in MaskOf(parsed, norm) => Audience \in MaskOf(parsed, norm)
  <2>1. "codeset" \notin parsed.present /\ "xpg modifier" \notin parsed.present
    BY <1>3 DEF Xpg
  <2> DEFINE there(part, bits) == IF part \in parsed.present THEN bits ELSE {}
  <2>2. /\ \A x : there("codeset", x) = {} /\ there("xpg modifier", x) = {}
        /\ \A part, x : there(part, x) \subseteq x
        /\ there("cen modifier", {Audience, Modifier}) \in {{}, {Audience, Modifier}}
    BY <2>1
  <2> DEFINE empty(part) == Xpg(parsed) /\ parsed.text[part] = <<>>
             t == IF empty("territory") THEN {} ELSE {Territory}
             x == IF empty("codeset") THEN {}
                  ELSE {Codeset} \union IF WithModifier(parsed) = norm THEN {} ELSE {NormCodeset}
             y == IF empty("xpg modifier") THEN {Audience} ELSE {Audience, Modifier}
  <2>3. MaskOf(parsed, norm)
            = there("territory", t)
              \union there("codeset", x) \union there("xpg modifier", y)
              \union there("cen modifier", {Audience, Modifier})
              \union there("special", {Special}) \union there("sponsor", {Sponsor})
              \union there("revision", {Revision})
    BY Zenon DEF MaskOf
  <2> HIDE DEF empty, x, y
  <2> DEFINE cen == there("cen modifier", {Audience, Modifier})
  <2>4. MaskOf(parsed, norm) \subseteq {Territory, Special, Sponsor, Revision} \union cen
    <3>1. /\ there("territory", t) \subseteq {Territory} /\ there("special", {Special}) \subseteq {Special}
          /\ there("sponsor", {Sponsor}) \subseteq {Sponsor}
          /\ there("revision", {Revision}) \subseteq {Revision}
      BY <2>2
    <3> HIDE DEF there, t, cen
    <3> QED
      BY <2>2, <2>3, <3>1 DEF t, cen
  <2>5. cen \subseteq MaskOf(parsed, norm) /\ cen \in {{}, {Audience, Modifier}}
    <3> HIDE DEF there
    <3> QED
      BY <2>2, <2>3
  <2> HIDE DEF cen
  <2> QED
    BY <2>4, <2>5 DEF Revision, Sponsor, Special, NormCodeset, Codeset, Territory, Audience,
                      Modifier
<1> QED
  BY <1>1, <1>2, <1>3, Zenon DEF Syntax

\* So have the names that are looked for.
LEMMA SyntaxExploded ==
  \A l : Syntax(Exploded(l))
BY SyntaxOf, Zenon DEF Exploded, ExplodeName, WithNorm

\* Of two masks without a normalized codeset, that with the larger number is the
\* more specific one; there is no doubt which of two is.
LEMMA SpecificOrder ==
  ASSUME NEW a \in SUBSET Bits, NEW b \in SUBSET Bits, NormCodeset \notin a, NormCodeset \notin b
  PROVE  /\ Larger(a, b) <=> MoreSpecific(a, b)
         /\ Larger(b, a) <=> MoreSpecific(b, a)
<1> DEFINE places == <<Revision, Sponsor, Special, Codeset, NormCodeset, Territory,
                       Audience, Modifier>>
           rank(bit) == CHOOSE i \in DOMAIN places : places[i] = bit
<1>1. /\ rank(1) = 1 /\ rank(2) = 2 /\ rank(4) = 3 /\ rank(16) = 4
      /\ rank(32) = 6 /\ rank(64) = 7 /\ rank(128) = 8
  BY DEF Revision, Sponsor, Special, NormCodeset, Codeset, Territory, Audience, Modifier
<1>2. /\ MoreSpecific(a, b) <=> \E bit \in a \ b : \A other \in b \ a : rank(other) < rank(bit)
      /\ MoreSpecific(b, a) <=> \E bit \in b \ a : \A other \in a \ b : rank(other) < rank(bit)
  BY DEF MoreSpecific
<1> HIDE DEF rank
<1>3. a \in SUBSET {1, 2, 4, 16, 32, 64, 128} /\ b \in SUBSET {1, 2, 4, 16, 32, 64, 128}
  <2>1. \A bit \in Bits : bit # NormCodeset => bit \in {1, 2, 4, 16, 32, 64, 128}
    BY BitsAre
  <2> QED
    BY <2>1
<1>4. \A x, y \in {1, 2, 4, 16, 32, 64, 128} : rank(x) < rank(y) <=> x < y
  BY <1>1
<1> QED
  BY <1>2, <1>3, <1>4 DEF Larger

-----------------------------------------------------------------------------
(* The translation that is found is the best one.                          *)

\* Min is the least one.
LEMMA LeastIs ==
  ASSUME NEW S \in SUBSET Nat, S # {}
  PROVE  Min(S) \in S /\ \A y \in S : Min(S) <= y
BY LeastOf DEF Min

\* The first of the wanted ones in a list.
LEMMA FirstInIs ==
  ASSUME NEW n \in Nat, NEW paths, DOMAIN paths = 1..n, NEW wanted
  PROVE  \/ (\A i \in 1..n : paths[i] \notin wanted) /\ FirstIn(paths, wanted) = Untranslated
         \/ \E i \in 1..n :
              /\ paths[i] \in wanted /\ FirstIn(paths, wanted) = paths[i]
              /\ \A j \in 1..n : paths[j] \in wanted => i <= j
<1> DEFINE places == {i \in 1..n : paths[i] \in wanted}
<1>1. FirstIn(paths, wanted) = IF places = {} THEN Untranslated ELSE paths[Min(places)]
  BY DEF FirstIn
<1>2. ASSUME places # {} PROVE Min(places) \in places /\ \A y \in places : Min(places) <= y
  <2>1. places \in SUBSET Nat
    OBVIOUS
  <2> HIDE DEF places
  <2> QED
    BY <1>2, <2>1, LeastIs
<1>3. CASE places = {}
  BY <1>1, <1>3
<1>4. CASE places # {}
  <2>1. PICK i : i = Min(places)
    OBVIOUS
  <2>2. i \in places /\ \A y \in places : i <= y
    BY <1>2, <1>4, <2>1
  <2> QED
    BY <1>1, <1>4, <2>1, <2>2
<1> QED
  BY <1>3, <1>4

\* With an audience, the modifier makes no difference to the path.
LEMMA SamePath ==
  ASSUME NEW dir, NEW parts, NEW mask \in SUBSET Bits, Audience \in mask, NEW mofile
  PROVE  FileName(dir, parts, mask \ {Modifier}, mofile) = FileName(dir, parts, mask, mofile)
<1> DEFINE less == mask \ {Modifier}
<1>1. /\ Audience \in less
      /\ \A bit \in {Revision, Sponsor, Special, NormCodeset, Codeset, Territory} :
           bit \in less <=> bit \in mask
  BY DEF Bits, Revision, Sponsor, Special, NormCodeset, Codeset, Territory, Audience, Modifier
<1>2. less \intersect {Sponsor, Revision} = mask \intersect {Sponsor, Revision}
  BY <1>1
<1>3. less \intersect {Modifier, Audience} # {} /\ mask \intersect {Modifier, Audience} # {}
  BY <1>1
<1> HIDE DEF less
<1>4. LocaleDir(parts, less) = LocaleDir(parts, mask)
  <2> DEFINE p1(m) == IF Territory \in m THEN <<"_">> \o parts.territory ELSE <<>>
             p2(m) == IF Codeset \in m THEN <<".">> \o parts.codeset ELSE <<>>
             p3(m) == IF NormCodeset \in m THEN <<".">> \o parts.norm ELSE <<>>
             sign(m) == IF Audience \in m THEN "+" ELSE "@"
             p4(m) == IF m \intersect {Modifier, Audience} # {}
                        THEN <<sign(m)>> \o parts.modifier ELSE <<>>
             p5(m) == IF Special \in m THEN <<"+">> \o parts.special ELSE <<>>
             p6(m) == IF m \intersect {Sponsor, Revision} # {} THEN <<",">> ELSE <<>>
             p7(m) == IF Sponsor \in m THEN parts.sponsor ELSE <<>>
             p8(m) == IF Revision \in m THEN <<"_">> \o parts.revision ELSE <<>>
             dirOf(m) == parts.language \o p1(m) \o p2(m) \o p3(m) \o p4(m) \o p5(m) \o p6(m)
                         \o p7(m) \o p8(m)
  <2>1. LocaleDir(parts, less) = dirOf(less) /\ LocaleDir(parts, mask) = dirOf(mask)
    BY Zenon DEF LocaleDir
  <2>2. /\ p1(less) = p1(mask) /\ p2(less) = p2(mask) /\ p3(less) = p3(mask)
        /\ p5(less) = p5(mask) /\ p7(less) = p7(mask) /\ p8(less) = p8(mask)
    BY <1>1, Zenon
  <2>3. sign(less) = sign(mask)
    BY <1>1
  <2>4. p4(less) = p4(mask)
    <3> HIDE DEF sign
    <3> QED
      BY <1>3, <2>3, Zenon
  <2>5. p6(less) = p6(mask)
    BY <1>2, Zenon
  <2> HIDE DEF p1, p2, p3, p4, p5, p6, p7, p8
  <2> QED
    BY <2>1, <2>2, <2>4, <2>5, Zenon
<1> QED
  BY <1>4, Zenon DEF FileName, less

\* What Ordinary says of one name.
OrdinaryFor(dir, parts, mofile) ==
  \A mask \in {parts.mask} \union Less(parts.mask) :
    FileName(dir, parts, mask, mofile) \in DOMAIN Installed =>
      /\ NormCodeset \notin mask
      /\ mask \in Variants(parts) \/ (mask = parts.mask /\ ~parts.xpg)

\* The variants are among the masks that are tried.
LEMMA VariantsAre ==
  ASSUME NEW parts, parts.mask \in SUBSET Bits, NEW m \in Variants(parts)
  PROVE  /\ m \in {parts.mask} \union Less(parts.mask) /\ m \in SUBSET Bits
         /\ ~parts.xpg => Modifier \notin m
<1>1. /\ m \in SUBSET parts.mask
      /\ m \intersect (IF parts.xpg THEN CenSpecific ELSE XpgSpecific) = {}
      /\ ~({Codeset, NormCodeset} \subseteq m)
  BY DEF Variants
<1>2. CASE parts.xpg
  BY <1>1, <1>2 DEF Less
<1>3. CASE ~parts.xpg
  BY <1>1, <1>3 DEF Less, XpgSpecific
<1> QED
  BY <1>2, <1>3

\* The files are tried from the most specific one on.
LEMMA TextIsBest ==
  ASSUME NEW dir, NEW parts, Syntax(parts), NEW mofile, NEW msgid, OrdinaryFor(dir, parts, mofile)
  PROVE  TextIn(Paths(dir, parts, parts.mask, mofile), msgid) = BestOf(parts, dir, mofile, msgid)
<1> DEFINE mask == parts.mask
           masks == Masks(mask)
           paths == Paths(dir, parts, mask, mofile)
           name(m) == FileName(dir, parts, m, mofile)
           all == {mask} \union Less(mask)
           Has(path) == path \in DOMAIN Installed /\ msgid \in Installed[path]
           having == {m \in Variants(parts) : Has(name(m))}
           best == CHOOSE m \in having : \A k \in having : m = k \/ MoreSpecific(m, k)
<1>0. mask \in SUBSET Bits
  BY DEF Syntax
<1>1. PICK n \in Nat \ {0} :
        /\ Descending(masks, n, all) /\ DOMAIN paths = 1..n
        /\ \A i \in 1..n : paths[i] = name(masks[i])
  <2>1. PICK n : ListOfPaths(paths, n, dir, parts, mask, mofile)
    BY <1>0, PathsIs, Zenon
  <2> QED
    BY <2>1, Zenon DEF ListOfPaths
<1>2. /\ all = {masks[i] : i \in 1..n}
      /\ \A i, j \in 1..n : i < j => Encoded(masks[j]) < Encoded(masks[i])
  BY <1>1 DEF Descending
<1>3. \A m \in Variants(parts) : m \in all /\ m \in SUBSET Bits /\ (~parts.xpg => Modifier \notin m)
  BY <1>0, VariantsAre
<1>4. \A m \in all : m \in SUBSET Bits
  BY <1>0, BelowAgain
<1>5. \A m \in all : Has(name(m)) =>
        NormCodeset \notin m /\ (m \in Variants(parts) \/ (m = mask /\ ~parts.xpg))
  BY DEF OrdinaryFor
<1>6. BestOf(parts, dir, mofile, msgid) = IF having = {} THEN Untranslated ELSE name(best)
  BY DEF BestOf
<1>7. TextIn(paths, msgid) = FirstIn(paths, Having(paths, msgid))
  BY DEF TextIn
<1>8. \A i \in 1..n : paths[i] \in Having(paths, msgid) <=> Has(paths[i])
  BY <1>1 DEF Having, ToSet
<1> HIDE DEF masks, paths, name, Has, all, mask
<1>9. ASSUME NEW m \in all, Has(name(m))
      PROVE  \E k \in having :
               name(k) = name(m) /\ (k = m \/ (m = mask /\ ~parts.xpg /\ k = m \ {Modifier}))
  <2>1. CASE m \in Variants(parts)
    BY <1>9, <2>1
  <2>2. CASE m \notin Variants(parts)
    <3>1. m = mask /\ ~parts.xpg
      BY <1>5, <1>9, <2>2
    <3>2. Codeset \notin m /\ NormCodeset \notin m /\ (Modifier \in m => Audience \in m)
      BY <3>1 DEF Syntax, mask
    <3>3. m \ {Modifier} \in Variants(parts)
      BY <3>1, <3>2 DEF Variants, XpgSpecific, mask
    <3>4. Modifier \in m
      <4>1. ASSUME Modifier \notin m PROVE FALSE
        <5>1. m \ {Modifier} = m
          BY <4>1
        <5> QED
          BY <2>2, <3>3, <5>1
      <4> QED
        BY <4>1
    <3>5. name(m \ {Modifier}) = name(m)
      BY <1>4, <3>2, <3>4, SamePath DEF name
    <3>6. m \ {Modifier} \in having
      BY <1>9, <3>3, <3>5
    <3> QED
      BY <3>1, <3>5, <3>6
  <2> QED
    BY <2>1, <2>2
<1>10. CASE \A i \in 1..n : paths[i] \notin Having(paths, msgid)
  <2>1. TextIn(paths, msgid) = Untranslated
    BY <1>1, <1>7, <1>10, FirstInIs
  <2>2. having = {}
    <3> SUFFICES ASSUME NEW m \in having PROVE FALSE
      OBVIOUS
    <3>1. m \in all /\ Has(name(m))
      BY <1>3
    <3>2. PICK i \in 1..n : masks[i] = m
      BY <1>2, <3>1
    <3> QED
      BY <1>1, <1>8, <1>10, <3>1, <3>2
  <2> QED
    BY <1>6, <2>1, <2>2 DEF paths, mask
<1>11. CASE ~\A i \in 1..n : paths[i] \notin Having(paths, msgid)
  <2>1. PICK i \in 1..n :
          /\ paths[i] \in Having(paths, msgid) /\ TextIn(paths, msgid) = paths[i]
          /\ \A j \in 1..n : paths[j] \in Having(paths, msgid) => i <= j
    <3> HIDE DEF having, best
    <3>1. n \in Nat /\ DOMAIN paths = 1..n
      BY <1>1
    <3> QED
      BY <3>1, <1>7, <1>11, FirstInIs
  <2> DEFINE first == masks[i]
  <2>2. first \in all /\ Has(name(first)) /\ paths[i] = name(first)
    BY <1>1, <1>2, <1>8, <2>1
  <2>3. PICK top \in having :
          /\ name(top) = name(first)
          /\ top = first \/ (first = mask /\ ~parts.xpg /\ top = first \ {Modifier})
    BY <1>9, <2>2
  <2>4. ASSUME NEW k \in having, k # top PROVE MoreSpecific(top, k) /\ ~MoreSpecific(k, top)
    <3>1. k \in Variants(parts) /\ k \in all /\ k \in SUBSET Bits /\ Has(name(k))
          /\ top \in Variants(parts) /\ top \in all /\ top \in SUBSET Bits /\ Has(name(top))
      BY <1>3
    <3>2. NormCodeset \notin k /\ NormCodeset \notin top
      BY <1>5, <3>1
    <3>3. Larger(top, k)
      <4>1. CASE top = first
        <5>1. PICK j \in 1..n : masks[j] = k
          BY <1>2, <3>1
        <5>2. i <= j
          BY <1>1, <1>8, <2>1, <3>1, <5>1
        <5>3. i # j
          BY <2>4, <4>1, <5>1
        <5>4. i < j
          BY <5>2, <5>3
        <5>5. Encoded(k) < Encoded(top)
          BY <1>2, <4>1, <5>1, <5>4
        <5>6. Encoded(k) \in Nat /\ Encoded(top) \in Nat
          BY EncodedIs
        <5>7. Encoded(top) > Encoded(k)
          BY <5>5, <5>6
        <5> QED
          BY <3>1, <5>7, LargerNumber
      <4>2. CASE first = mask /\ ~parts.xpg /\ top = first \ {Modifier}
        <5>1. Modifier \notin k /\ k \subseteq mask
          BY <1>3, <3>1, <4>2 DEF Variants, mask
        <5>2. k \subseteq top
          BY <4>2, <5>1
        <5> QED
          BY <2>4, <5>2 DEF Larger
      <4> QED
        BY <2>3, <4>1, <4>2
    <3>4. ~Larger(k, top)
      BY <3>1, <3>3, LargerIsNot
    <3> QED
      BY <3>1, <3>2, <3>3, <3>4, SpecificOrder
  <2>5. best = top
    <3> HIDE DEF having
    <3>1. \A k \in having : top = k \/ MoreSpecific(top, k)
      BY <2>4
    <3>2. best \in having /\ \A k \in having : best = k \/ MoreSpecific(best, k)
      BY <3>1, <2>3
    <3> HIDE DEF best
    <3> QED
      BY <2>3, <2>4, <3>2
  <2>6. having # {}
    BY <2>3
  <2>7. BestOf(parts, dir, mofile, msgid) = name(first)
    <3> HIDE DEF having, best
    <3> QED
      BY <1>6, <2>3, <2>5, <2>6
  <2> QED
    BY <2>1, <2>2, <2>7 DEF paths, mask
<1> QED
  BY <1>10, <1>11

-----------------------------------------------------------------------------
(* The list of catalogues.                                                 *)

\* The files that are tried are those of the masks.
LEMMA PathSet ==
  ASSUME NEW dir, NEW parts, NEW mask \in SUBSET Bits, NEW mofile
  PROVE  ToSet(Paths(dir, parts, mask, mofile))
           = {FileName(dir, parts, m, mofile) : m \in {mask} \union Less(mask)}
<1> DEFINE paths == Paths(dir, parts, mask, mofile)
           masks == Masks(mask)
           all == {mask} \union Less(mask)
           name(m) == FileName(dir, parts, m, mofile)
<1>1. PICK n : ListOfPaths(paths, n, dir, parts, mask, mofile)
  BY PathsIs, Zenon
<1>2. /\ DOMAIN paths = 1..n /\ all = {masks[i] : i \in 1..n}
      /\ \A i \in 1..n : paths[i] = name(masks[i])
  BY <1>1, Zenon DEF ListOfPaths, Descending
<1> HIDE DEF paths, masks, all, name
<1>3. ToSet(paths) = {name(m) : m \in all}
  BY <1>2 DEF ToSet
<1> QED
  BY <1>3 DEF paths, all, name

\* The entries of the list are for the masks of names that may be looked for.
Origin(path, successors, sec, dir, l, mofile, m) ==
  /\ sec => ~HasDir(l)
  /\ m \in Listed(dir, Exploded(l), mofile)
  /\ path = FileName(dir, Exploded(l), m, mofile)
  /\ successors = Tail(Paths(dir, Exploded(l), m, mofile))

\* With another's rights, only names without directories are origins.
HasOrigin(path, successors, sec) ==
  \E dir \in Dirs, l \in Names, mofile \in FileNames : \E m :
    Origin(path, successors, sec, dir, l, mofile, m)

\* An entry's data tell whether the file is there, once it is decided; there is no
\* installed one with two codesets.
ToldRight(entry, path) ==
  /\ entry.data => path \in DOMAIN Installed
  /\ entry.decided /\ path \in DOMAIN Installed => entry.data

\* An entry of a list of these paths: the entries after it are on the list, too.
IsEntry(entry, path, paths, sec) ==
  /\ entry = [decided |-> entry.decided, data |-> entry.data, successors |-> entry.successors]
  /\ entry.decided \in BOOLEAN /\ entry.data \in BOOLEAN
  /\ ToSet(entry.successors) \subseteq paths
  /\ HasOrigin(path, entry.successors, sec)
  /\ Ordinary => ToldRight(entry, path)

\* _nl_loaded_domains.
IsList(list, sec) ==
  /\ list = [p \in DOMAIN list |-> list[p]]
  /\ \A p \in DOMAIN list : IsEntry(list[p], p, DOMAIN list, sec)

\* Loading an entry leaves a list a list.
LEMMA LoadDomainIs ==
  ASSUME NEW list, NEW sec, IsList(list, sec), NEW p \in DOMAIN list
  PROVE  /\ IsEntry(LoadDomain(list, p), p, DOMAIN list, sec)
         /\ LoadDomain(list, p).successors = list[p].successors
         /\ Ordinary => (LoadDomain(list, p).data <=> p \in DOMAIN Installed)
<1> DEFINE e == list[p]
<1>1. /\ e = [decided |-> e.decided, data |-> e.data, successors |-> e.successors]
      /\ e.decided \in BOOLEAN /\ e.data \in BOOLEAN
      /\ ToSet(e.successors) \subseteq DOMAIN list
      /\ HasOrigin(p, e.successors, sec)
      /\ Ordinary => ToldRight(e, p)
  BY Zenon DEF IsList, IsEntry
<1>2. CASE e.decided
  <2>1. LoadDomain(list, p) = e
    BY <1>2 DEF LoadDomain
  <2>2. Ordinary => (e.data <=> p \in DOMAIN Installed)
    BY <1>1, <1>2, Zenon DEF ToldRight
  <2> QED
    BY <1>1, <2>1, <2>2, Zenon DEF IsEntry
<1>3. CASE ~e.decided
  <2> DEFINE there == p \in DOMAIN Installed
             new == [decided |-> TRUE, data |-> there, successors |-> e.successors]
  <2>1. LoadDomain(list, p) = [e EXCEPT !.decided = TRUE, !.data = there]
    BY <1>3, Zenon DEF LoadDomain
  <2> HIDE DEF e, there
  <2>2. LoadDomain(list, p) = new
    BY <1>1, <2>1
  <2>3. /\ new.decided = TRUE /\ new.data = there /\ new.successors = e.successors
        /\ there \in BOOLEAN
    BY DEF there
  <2> HIDE DEF new
  <2>4. new = [decided |-> new.decided, data |-> new.data, successors |-> new.successors]
    BY <2>3, Zenon DEF new
  <2>5. ToldRight(new, p)
    BY <2>3, Zenon DEF ToldRight, there
  <2>6. IsEntry(new, p, DOMAIN list, sec)
    BY <1>1, <2>3, <2>4, <2>5, Zenon DEF IsEntry
  <2> QED
    BY <2>2, <2>3, <2>6, Zenon DEF there, e
<1> QED
  BY <1>2, <1>3

\* So does loading several.
LEMMA LoadUntilIs ==
  ASSUME NEW list, NEW sec, IsList(list, sec), NEW paths, NEW wanted
  PROVE  /\ IsList(LoadUntil(list, paths, wanted), sec)
         /\ DOMAIN LoadUntil(list, paths, wanted) = DOMAIN list
         /\ \A p \in DOMAIN list :
              LoadUntil(list, paths, wanted)[p].successors = list[p].successors
<1> DEFINE ends == {i \in DOMAIN paths : paths[i] \in wanted /\ LoadDomain(list, paths[i]).data}
           tried == {paths[i] : i \in {j \in DOMAIN paths : \A k \in ends : j <= k}}
           new == LoadUntil(list, paths, wanted)
<1>1. new = [p \in DOMAIN list |-> IF p \in tried THEN LoadDomain(list, p) ELSE list[p]]
  BY Zenon DEF LoadUntil
<1> HIDE DEF tried, new
<1>2. /\ DOMAIN new = DOMAIN list /\ new = [p \in DOMAIN new |-> new[p]]
      /\ \A p \in DOMAIN list : new[p] = LoadDomain(list, p) \/ new[p] = list[p]
  BY <1>1
<1>3. \A p \in DOMAIN list :
        /\ IsEntry(list[p], p, DOMAIN list, sec)
        /\ IsEntry(LoadDomain(list, p), p, DOMAIN list, sec)
        /\ LoadDomain(list, p).successors = list[p].successors
  BY LoadDomainIs, Zenon DEF IsList
<1>4. \A p \in DOMAIN list :
        IsEntry(new[p], p, DOMAIN list, sec) /\ new[p].successors = list[p].successors
  BY <1>2, <1>3, Zenon
<1>5. IsList(new, sec)
  BY <1>2, <1>4, Zenon DEF IsList
<1> QED
  BY <1>2, <1>4, <1>5 DEF new

\* What Ordinary says of every name, for one of them.
LEMMA OrdinaryHere ==
  ASSUME Ordinary, NEW dir \in Dirs, NEW l \in Names, NEW mofile \in FileNames
  PROVE  OrdinaryFor(dir, Exploded(l), mofile)
<1>1. Exploded(l).mask \in SUBSET Bits
  BY SyntaxExploded DEF Syntax
<1>2. ToSet(Masks(Exploded(l).mask)) = {Exploded(l).mask} \union Less(Exploded(l).mask)
  BY <1>1, MaskSet, Zenon
<1> QED
  BY <1>2, Zenon DEF Ordinary, OrdinaryFor

\* A name is added with all less specific ones.
LEMMA MadeIs ==
  ASSUME NEW list, NEW sec, IsList(list, sec), NEW dir \in Dirs, NEW l \in Names,
         NEW mofile \in FileNames, sec => ~HasDir(l)
  PROVE  /\ IsList(Made(list, dir, Exploded(l), mofile), sec)
         /\ FileName(dir, Exploded(l), Exploded(l).mask, mofile)
              \in DOMAIN Made(list, dir, Exploded(l), mofile)
         /\ Paths(dir, Exploded(l), Exploded(l).mask, mofile)[1]
              = FileName(dir, Exploded(l), Exploded(l).mask, mofile)
<1> DEFINE parts == Exploded(l)
           mask == parts.mask
           masks == Masks(mask)
           paths == Paths(dir, parts, mask, mofile)
           name(m) == FileName(dir, parts, m, mofile)
           all == {mask} \union Less(mask)
           places(p) == {i \in DOMAIN paths : paths[i] = p}
           first(p) == masks[Min(places(p))]
           new == {paths[i] : i \in DOMAIN paths} \ DOMAIN list
           more == [p \in DOMAIN list \union new |->
                      IF p \in new THEN Entry(dir, parts, first(p), mofile) ELSE list[p]]
           made == Made(list, dir, parts, mofile)
<1>1. mask \in SUBSET Bits
  BY SyntaxExploded DEF Syntax
<1>2. PICK n : ListOfPaths(paths, n, dir, parts, mask, mofile)
  BY <1>1, PathsIs, Zenon
<1>3. /\ n \in Nat \ {0} /\ DOMAIN paths = 1..n /\ all = {masks[i] : i \in 1..n}
      /\ \A i \in 1..n : paths[i] = name(masks[i])
      /\ paths[1] = name(mask)
  BY <1>2, Zenon DEF ListOfPaths, Descending
<1>4. made = IF paths[1] \in DOMAIN list THEN list ELSE more
  BY Zenon DEF Made
<1>5. ToSet(paths) = {name(m) : m \in all}
  BY <1>1, PathSet
<1>6. Listed(dir, parts, mofile)
        = {masks[i] : i \in {j \in DOMAIN paths : \A k \in 1..(j - 1) : paths[k] # paths[j]}}
  BY Zenon DEF Listed
<1>7. \A m \in all : m \in SUBSET Bits /\ {m} \union Less(m) \subseteq all
  BY <1>1, BelowAgain
<1>8. ASSUME NEW p \in new
      PROVE  first(p) \in Listed(dir, parts, mofile) /\ first(p) \in all /\ p = name(first(p))
  <2>1. places(p) \in SUBSET Nat /\ places(p) # {}
    BY <1>3
  <2>2. PICK i : i = Min(places(p))
    OBVIOUS
  <2>3. i \in places(p) /\ \A y \in places(p) : i <= y
    <3> HIDE DEF places
    <3> QED
      BY <2>1, <2>2, LeastIs
  <2>4. \A k \in 1..(i - 1) : paths[k] # paths[i]
    BY <1>3, <2>3
  <2>5. first(p) = masks[i]
    BY <2>2
  <2> HIDE DEF first, masks, paths, name, all, new
  <2>6. i \in 1..n /\ paths[i] = p
    BY <1>3, <2>3
  <2> QED
    BY <1>3, <1>6, <2>4, <2>5, <2>6
<1>9. ASSUME NEW m \in all
      PROVE  ToSet(Tail(Paths(dir, parts, m, mofile))) \subseteq ToSet(paths)
  <2>1. m \in SUBSET Bits
    BY <1>7
  <2>2. PICK k : ListOfPaths(Paths(dir, parts, m, mofile), k, dir, parts, m, mofile)
    BY <2>1, PathsIs, Zenon
  <2>3. ToSet(Tail(Paths(dir, parts, m, mofile))) \subseteq ToSet(Paths(dir, parts, m, mofile))
    BY <2>2, Zenon DEF ListOfPaths
  <2>4. ToSet(Paths(dir, parts, m, mofile)) = {name(c) : c \in {m} \union Less(m)}
    BY <2>1, PathSet
  <2>5. {m} \union Less(m) \subseteq all
    BY <1>7
  <2> HIDE DEF all, name, paths
  <2> QED
    BY <1>5, <2>3, <2>4, <2>5
<1>10. CASE paths[1] \in DOMAIN list
  BY <1>3, <1>4, <1>10
<1>11. CASE paths[1] \notin DOMAIN list
  <2> DEFINE paths_more == DOMAIN list \union new
  <2>1. made = more
    BY <1>4, <1>11
  <2>2. DOMAIN more = paths_more /\ more = [p \in DOMAIN more |-> more[p]]
    OBVIOUS
  <2>3. ToSet(paths) \subseteq paths_more
    BY DEF ToSet
  <2>4. name(mask) \in paths_more
    <3>1. name(mask) \in ToSet(paths)
      <4> HIDE DEF paths, name
      <4> QED
        BY <1>3 DEF ToSet
    <3> QED
      BY <2>3, <3>1, Zenon
  <2>5. ASSUME NEW p \in new
        PROVE  IsEntry(more[p], p, paths_more, sec)
    <3> DEFINE m == first(p)
               e == Entry(dir, parts, m, mofile)
               both == {Codeset, NormCodeset} \subseteq m
    <3>1. more[p] = e
      OBVIOUS
    <3>2. m \in Listed(dir, parts, mofile) /\ m \in all /\ p = name(m)
      BY <1>8
    <3>3. e = [decided |-> both, data |-> FALSE, successors |-> Tail(Paths(dir, parts, m, mofile))]
      BY Zenon DEF Entry
    <3> HIDE DEF m, e, both, more, paths_more, all, paths, new
    <3>4. /\ e = [decided |-> e.decided, data |-> e.data, successors |-> e.successors]
          /\ e.decided = both /\ e.data = FALSE
          /\ e.successors = Tail(Paths(dir, parts, m, mofile))
      BY <3>3
    <3>5. ToSet(e.successors) \subseteq paths_more
      BY <1>9, <2>3, <3>2, <3>4
    <3>6. HasOrigin(p, e.successors, sec)
      <4>1. Origin(p, e.successors, sec, dir, l, mofile, m)
        BY <3>2, <3>4, Zenon DEF Origin
      <4> QED
        BY <4>1, Zenon DEF HasOrigin
    <3>7. ASSUME Ordinary, p \in DOMAIN Installed PROVE ~both
      <4>1. NormCodeset \notin m
        BY <3>2, <3>7, OrdinaryHere, Zenon DEF OrdinaryFor, all
      <4> QED
        BY <4>1 DEF both
    <3>8. Ordinary => ToldRight(e, p)
      BY <3>4, <3>7, Zenon DEF ToldRight
    <3>9. both \in BOOLEAN
      BY DEF both
    <3> QED
      BY <3>1, <3>4, <3>5, <3>6, <3>8, <3>9, Zenon DEF IsEntry
  <2>6. ASSUME NEW p \in DOMAIN list
        PROVE  IsEntry(more[p], p, paths_more, sec)
    <3>1. p \notin new
      BY DEF new
    <3>2. more[p] = list[p]
      BY <3>1
    <3>3. IsEntry(list[p], p, DOMAIN list, sec)
      BY DEF IsList
    <3>4. ToSet(list[p].successors) \subseteq paths_more
      BY <3>3 DEF IsEntry
    <3> QED
      BY <3>2, <3>3, <3>4, Zenon DEF IsEntry
  <2>7. IsList(more, sec)
    <3> HIDE DEF more, new
    <3> QED
      BY <2>2, <2>5, <2>6 DEF IsList
  <2> QED
    BY <1>3, <2>1, <2>2, <2>4, <2>7
<1> QED
  BY <1>10, <1>11

\* What is listed are masks.
LEMMA ListedIs ==
  ASSUME NEW dir, NEW l, NEW mofile, NEW m \in Listed(dir, Exploded(l), mofile)
  PROVE  m \in SUBSET Bits
<1> DEFINE parts == Exploded(l)
           paths == Paths(dir, parts, parts.mask, mofile)
           masks == Masks(parts.mask)
           all == {parts.mask} \union Less(parts.mask)
<1>1. parts.mask \in SUBSET Bits
  BY SyntaxExploded DEF Syntax
<1>2. PICK n : ListOfPaths(paths, n, dir, parts, parts.mask, mofile)
  BY <1>1, PathsIs, Zenon
<1>3. DOMAIN paths = 1..n /\ all = {masks[i] : i \in 1..n}
  BY <1>2, Zenon DEF ListOfPaths, Descending
<1>4. PICK i \in DOMAIN paths : m = masks[i]
  BY Zenon DEF Listed
<1> HIDE DEF paths, masks
<1>5. m \in all
  BY <1>3, <1>4
<1> QED
  BY <1>1, <1>5, BelowAgain

\* An entry and its successors are the paths of the mask it is for.
LEMMA TriedIs ==
  ASSUME NEW list, NEW sec, IsList(list, sec), NEW path \in DOMAIN list, NEW dir, NEW l, NEW mofile,
         NEW m, Origin(path, list[path].successors, sec, dir, l, mofile, m)
  PROVE  /\ Tried(list, path) = Paths(dir, Exploded(l), m, mofile)
         /\ path = Paths(dir, Exploded(l), m, mofile)[1]
         /\ ToSet(Tried(list, path)) \subseteq DOMAIN list
         /\ \E n \in Nat : DOMAIN Tried(list, path) = 1..n
<1> DEFINE parts == Exploded(l)
           paths == Paths(dir, parts, m, mofile)
           after == Tail(paths)
<1>1. /\ m \in Listed(dir, parts, mofile) /\ path = FileName(dir, parts, m, mofile)
      /\ list[path].successors = after
  BY Zenon DEF Origin
<1>2. m \in SUBSET Bits
  BY <1>1, ListedIs, Zenon
<1>3. PICK n : ListOfPaths(paths, n, dir, parts, m, mofile)
  BY <1>2, PathsIs, Zenon
<1>4. /\ n \in Nat \ {0} /\ DOMAIN paths = 1..n /\ paths[1] = path
      /\ <<paths[1]>> \o after = paths
  BY <1>1, <1>3, Zenon DEF ListOfPaths
<1>5. ToSet(after) \subseteq DOMAIN list
  BY <1>1, Zenon DEF IsList, IsEntry
<1>6. Tried(list, path) = paths
  BY <1>1, <1>4, Zenon DEF Tried
<1> HIDE DEF paths
<1>7. ToSet(paths) \subseteq DOMAIN list
  <2> SUFFICES ASSUME NEW i \in 1..n PROVE paths[i] \in DOMAIN list
    BY <1>4 DEF ToSet
  <2>1. CASE i = 1
    BY <1>4, <2>1
  <2>2. CASE i # 1
    <3>1. paths = [k \in 1..n |-> paths[k]]
      BY <1>3 DEF ListOfPaths, paths, Paths
    <3>2. paths \in Seq({paths[k] : k \in 1..n}) /\ Len(paths) = n
      BY <1>4, <3>1, SequenceOfFunction
    <3>3. i - 1 \in DOMAIN after /\ after[i - 1] = paths[i]
      <4> DEFINE T == {paths[k] : k \in 1..n}
      <4>1. paths \in Seq(T) /\ Len(paths) = n
        BY <3>2
      <4> HIDE DEF T
      <4> QED
        BY <2>2, <4>1
    <3> QED
      BY <1>5, <3>3 DEF ToSet
  <2> QED
    BY <2>1, <2>2
<1> QED
  BY <1>4, <1>6, <1>7 DEF paths

\* Every entry has an origin.
LEMMA EveryOrigin ==
  ASSUME NEW list, NEW sec, IsList(list, sec), NEW path \in DOMAIN list
  PROVE  HasOrigin(path, list[path].successors, sec)
BY Zenon DEF IsList, IsEntry

\* An entry is found for a locale.
IsFound(found, sec, dir, l, mofile) ==
  /\ IsList(found.list, sec) /\ found.path \in DOMAIN found.list
  /\ found.path \in {WholeName(dir, l, mofile), FileName(dir, Exploded(l), Exploded(l).mask, mofile)}

\* The entry is loaded, and the list has the same entries as before.
LEMMA LoadedEntryIs ==
  ASSUME NEW list, NEW sec, IsList(list, sec), NEW path \in DOMAIN list
  PROVE  /\ LoadedEntry(list, path).path = path
         /\ IsList(LoadedEntry(list, path).list, sec)
         /\ DOMAIN LoadedEntry(list, path).list = DOMAIN list
<1> DEFINE new == LoadUntil(list, Tried(list, path), ToSet(Tried(list, path)))
<1>1. LoadedEntry(list, path) = [path |-> path, list |-> new]
  BY Zenon DEF LoadedEntry
<1>2. IsList(new, sec) /\ DOMAIN new = DOMAIN list
  BY LoadUntilIs, Zenon
<1> HIDE DEF new
<1>3. LoadedEntry(list, path).path = path /\ LoadedEntry(list, path).list = new
  BY <1>1
<1> QED
  BY <1>2, <1>3

\* The entry that is found for a name is that of the whole name or of its parts.
LEMMA FindDomainIs ==
  ASSUME NEW list, NEW sec, IsList(list, sec), NEW dir \in Dirs, NEW l \in Names,
         NEW mofile \in FileNames, sec => ~HasDir(l)
  PROVE  IsFound(FindDomain(list, dir, l, mofile), sec, dir, l, mofile)
<1> DEFINE parts == Exploded(l)
           path == FileName(dir, parts, parts.mask, mofile)
           whole == WholeName(dir, l, mofile)
           made == Made(list, dir, parts, mofile)
<1>1. CASE whole \in DOMAIN list
  <2>1. FindDomain(list, dir, l, mofile) = LoadedEntry(list, whole)
    BY <1>1, Zenon DEF FindDomain
  <2>2. /\ LoadedEntry(list, whole).path = whole
        /\ IsList(LoadedEntry(list, whole).list, sec)
        /\ DOMAIN LoadedEntry(list, whole).list = DOMAIN list
    BY <1>1, LoadedEntryIs, Zenon
  <2>3. whole \in {whole, path}
    BY Zenon
  <2> QED
    BY <1>1, <2>1, <2>2, <2>3, Zenon DEF IsFound
<1>2. CASE whole \notin DOMAIN list
  <2>1. /\ IsList(made, sec) /\ path \in DOMAIN made
        /\ Paths(dir, parts, parts.mask, mofile)[1] = path
    BY MadeIs
  <2>2. FindDomain(list, dir, l, mofile) = LoadedEntry(made, path)
    BY <1>2, <2>1, Zenon DEF FindDomain, FindParts
  <2>3. /\ LoadedEntry(made, path).path = path
        /\ IsList(LoadedEntry(made, path).list, sec)
        /\ DOMAIN LoadedEntry(made, path).list = DOMAIN made
    BY <2>1, LoadedEntryIs, Zenon
  <2>4. path \in {whole, path}
    BY Zenon
  <2> QED
    BY <2>1, <2>2, <2>3, <2>4, Zenon DEF IsFound
<1> QED
  BY <1>1, <1>2, Zenon

\* A message is looked for in the entry and in those after it.
LEMMA TryPathsIs ==
  ASSUME NEW list, NEW sec, IsList(list, sec), NEW paths, NEW n \in Nat, DOMAIN paths = 1..n,
         ToSet(paths) \subseteq DOMAIN list, NEW msgid, NEW tried,
         tried = TryPaths(list, paths, Having(paths, msgid))
  PROVE  /\ tried = [list |-> tried.list, text |-> tried.text, over |-> tried.over]
         /\ IsList(tried.list, sec)
         /\ tried.text \in {Untranslated} \union DOMAIN list
         /\ tried.over = (tried.text # Untranslated)
         /\ Ordinary => tried.text = TextIn(paths, msgid)
<1> DEFINE having == Having(paths, msgid)
           right == {p \in having : LoadDomain(list, p).data}
           text == FirstIn(paths, right)
           new == LoadUntil(list, paths, having)
<1>1. tried = [list |-> new, text |-> text, over |-> text # Untranslated]
  BY Zenon DEF TryPaths
<1>2. IsList(new, sec)
  BY LoadUntilIs, Zenon
<1>3. text \in {Untranslated} \union DOMAIN list
  <2> HIDE DEF right
  <2>1. \/ text = Untranslated
        \/ \E i \in 1..n : text = paths[i]
    BY FirstInIs
  <2> HIDE DEF text
  <2> QED
    BY <2>1 DEF ToSet
<1>4. having \subseteq DOMAIN Installed /\ having \subseteq DOMAIN list
  BY DEF Having
<1>5. ASSUME Ordinary PROVE right = having
  <2>1. \A p \in DOMAIN list : LoadDomain(list, p).data <=> p \in DOMAIN Installed
    BY <1>5, LoadDomainIs, Zenon
  <2> HIDE DEF having
  <2> QED
    BY <1>4, <2>1
<1>6. Ordinary => text = TextIn(paths, msgid)
  <2> HIDE DEF right, having
  <2> QED
    BY <1>5, Zenon DEF TextIn, having
<1> HIDE DEF text, new, right, having
<1>7. tried.list = new /\ tried.text = text /\ tried.over = (text # Untranslated)
  BY <1>1
<1> QED
  BY <1>1, <1>2, <1>3, <1>6, <1>7

\* What a round of the loop over the languages finds in the catalogues of one.
IsTried(tried, sec) ==
  /\ tried = [list |-> tried.list, text |-> tried.text, over |-> tried.over]
  /\ IsList(tried.list, sec)
  /\ \E list : IsList(list, sec) /\ tried.text \in {Untranslated} \union DOMAIN list
  /\ tried.over = (tried.text # Untranslated)

\* The search in the files of one name finds the best of them.
LEMMA TryEntryIs ==
  ASSUME NEW list, NEW sec, IsList(list, sec), NEW dir \in Dirs, NEW l \in Names,
         NEW mofile \in FileNames, sec => ~HasDir(l), NEW q \in Queries
  PROVE  /\ IsTried(TryEntry(FindDomain(list, dir, l, mofile), q.msgid), sec)
         /\ Ordinary /\ Unambiguous =>
              TryEntry(FindDomain(list, dir, l, mofile), q.msgid).text
                = BestOf(Exploded(l), dir, mofile, q.msgid)
<1> DEFINE parts == Exploded(l)
           wanted == Paths(dir, parts, parts.mask, mofile)
           found == FindDomain(list, dir, l, mofile)
           paths == Tried(found.list, found.path)
           tried == TryEntry(found, q.msgid)
<1>1. /\ IsList(found.list, sec) /\ found.path \in DOMAIN found.list
      /\ found.path \in {WholeName(dir, l, mofile), FileName(dir, parts, parts.mask, mofile)}
  BY FindDomainIs, Zenon DEF IsFound
<1>2. tried = TryPaths(found.list, paths, Having(paths, q.msgid))
  BY Zenon DEF TryEntry
<1> HIDE DEF found, tried
<1>3. HasOrigin(found.path, found.list[found.path].successors, sec)
  BY <1>1, EveryOrigin, Zenon
<1>4. PICK owndir \in Dirs, own \in Names, ownfile \in FileNames : \E m :
        Origin(found.path, found.list[found.path].successors, sec, owndir, own, ownfile, m)
  BY <1>3, Zenon DEF HasOrigin
<1>5. PICK m : Origin(found.path, found.list[found.path].successors, sec, owndir, own, ownfile, m)
  BY <1>4, Zenon
<1> DEFINE ownpaths == Paths(owndir, Exploded(own), m, ownfile)
<1>6. /\ paths = ownpaths
      /\ found.path = ownpaths[1]
      /\ ToSet(paths) \subseteq DOMAIN found.list
      /\ \E n \in Nat : DOMAIN paths = 1..n
  <2> DEFINE known_list == found.list
             path == found.path
  <2>1. IsList(known_list, sec) /\ path \in DOMAIN known_list
        /\ Origin(path, known_list[path].successors, sec, owndir, own, ownfile, m)
    BY <1>1, <1>5
  <2> HIDE DEF known_list, path
  <2>2. /\ Tried(known_list, path) = ownpaths
        /\ path = ownpaths[1]
        /\ ToSet(Tried(known_list, path)) \subseteq DOMAIN known_list
        /\ \E n \in Nat : DOMAIN Tried(known_list, path) = 1..n
    BY <2>1, TriedIs
  <2> QED
    BY <2>2, Zenon DEF known_list, path
<1>7. m \in Listed(owndir, Exploded(own), ownfile)
  BY <1>5, Zenon DEF Origin
<1> HIDE DEF paths
<1>8. PICK n \in Nat : DOMAIN paths = 1..n
  BY <1>6
<1>9. /\ tried = [list |-> tried.list, text |-> tried.text, over |-> tried.over]
      /\ IsList(tried.list, sec)
      /\ tried.text \in {Untranslated} \union DOMAIN found.list
      /\ tried.over = (tried.text # Untranslated)
      /\ Ordinary => tried.text = TextIn(paths, q.msgid)
  BY <1>1, <1>2, <1>6, <1>8, TryPathsIs
<1>10. IsTried(tried, sec)
  BY <1>1, <1>9, Zenon DEF IsTried
<1>11. ASSUME Ordinary, Unambiguous
       PROVE  tried.text = BestOf(parts, dir, mofile, q.msgid)
  <2>1. TextIn(ownpaths, q.msgid) = TextIn(wanted, q.msgid)
    BY <1>1, <1>6, <1>7, <1>11 DEF Unambiguous
  <2>2. Syntax(parts) /\ OrdinaryFor(dir, parts, mofile)
    BY <1>11, SyntaxExploded, OrdinaryHere, Zenon
  <2>3. TextIn(wanted, q.msgid) = BestOf(parts, dir, mofile, q.msgid)
    BY <2>2, TextIsBest, Zenon
  <2> QED
    BY <1>6, <1>9, <1>11, <2>1, <2>3, Zenon
<1> QED
  BY <1>10, <1>11, Zenon DEF tried, found

-----------------------------------------------------------------------------
(* The search.                                                             *)

\* All lists there may be.
\* All paths, what may come after an entry, and all lists.
EveryPath ==
  {FileName(dir, Exploded(l), m, mofile) :
     dir \in Dirs, l \in Names, m \in SUBSET Bits, mofile \in FileNames}
EverySuccessors ==
  {Tail(Paths(dir, Exploded(l), m, mofile)) :
     dir \in Dirs, l \in Names, m \in SUBSET Bits, mofile \in FileNames}
Lists ==
  UNION {[paths -> [decided : BOOLEAN, data : BOOLEAN, successors : EverySuccessors]] :
           paths \in SUBSET EveryPath}

\* Lists are in a set, so that the loop is a function on it.
LEMMA EveryList ==
  ASSUME NEW list, NEW sec, IsList(list, sec)
  PROVE  list \in Lists /\ DOMAIN list \subseteq EveryPath
<1> DEFINE D == DOMAIN list
           Entries == [decided : BOOLEAN, data : BOOLEAN, successors : EverySuccessors]
<1>1. ASSUME NEW p \in D PROVE p \in EveryPath /\ list[p] \in Entries
  <2>1. IsEntry(list[p], p, D, sec)
    BY DEF IsList
  <2>2. \E dir \in Dirs, l \in Names, mofile \in FileNames : \E m :
          Origin(p, list[p].successors, sec, dir, l, mofile, m)
    BY <2>1, Zenon DEF IsEntry, HasOrigin
  <2> PICK dir \in Dirs, l \in Names, mofile \in FileNames : \E m :
          Origin(p, list[p].successors, sec, dir, l, mofile, m)
    BY <2>2
  <2> PICK m : Origin(p, list[p].successors, sec, dir, l, mofile, m)
    OBVIOUS
  <2>3. m \in SUBSET Bits
    BY ListedIs, Zenon DEF Origin
  <2>4. p = FileName(dir, Exploded(l), m, mofile)
        /\ list[p].successors = Tail(Paths(dir, Exploded(l), m, mofile))
    BY Zenon DEF Origin
  <2>5. p \in EveryPath /\ list[p].successors \in EverySuccessors
    BY <2>3, <2>4 DEF EveryPath, EverySuccessors
  <2>6. /\ list[p] = [decided |-> list[p].decided, data |-> list[p].data,
                      successors |-> list[p].successors]
        /\ list[p].decided \in BOOLEAN /\ list[p].data \in BOOLEAN
    BY <2>1, Zenon DEF IsEntry
  <2> QED
    BY <2>5, <2>6
<1> HIDE DEF Entries
<1>2. list = [p \in D |-> list[p]]
  BY DEF IsList
<1> HIDE DEF D
<1>3. list \in [D -> Entries] /\ D \in SUBSET EveryPath
  BY <1>1, <1>2
<1>4. list \in UNION {[paths -> Entries] : paths \in SUBSET EveryPath}
  BY <1>3
<1> QED
  BY <1>3, <1>4 DEF Lists, Entries, D

\* How far the loop may have come, and what one round makes of it.
States(dir, sec) ==
  {x \in [list : Lists, text : {Untranslated} \union EveryPath, over : BOOLEAN] :
     IsList(x.list, sec) /\ (dir = Nowhere => x.over)}

\* A round passes over a name, stops at "C", or looks the name up.
Round(before, after, sec, l, text) ==
  /\ before.over => after = before
  /\ ~before.over =>
       IF l = <<>> \/ (sec /\ HasDir(l)) THEN after = before
       ELSE IF l \in {C, POSIX} THEN after.text = before.text /\ after.over = TRUE
       ELSE /\ after.over = (after.text # Untranslated)
            /\ Ordinary /\ Unambiguous => after.text = text

\* A round of the loop.
LEMMA TryLocaleIs ==
  ASSUME NEW dir, dir = Nowhere \/ dir \in Dirs, NEW x \in States(dir, secure), NEW l,
         l \in {<<>>, C, POSIX} \union Names, NEW mofile \in FileNames, NEW q \in Queries
  PROVE  /\ TryLocale(x, dir, l, mofile, q.msgid) \in States(dir, secure)
         /\ Round(x, TryLocale(x, dir, l, mofile, q.msgid), secure, l,
                  BestOf(Exploded(l), dir, mofile, q.msgid))
<1> DEFINE y == TryLocale(x, dir, l, mofile, q.msgid)
           text == BestOf(Exploded(l), dir, mofile, q.msgid)
           end == [x EXCEPT !.over = TRUE]
           tried == TryEntry(FindDomain(x.list, dir, l, mofile), q.msgid)
           Texts == {Untranslated} \union EveryPath
<1>1. /\ x \in [list : Lists, text : Texts, over : BOOLEAN]
      /\ IsList(x.list, secure) /\ (dir = Nowhere => x.over)
  BY DEF States
<1>2. Skipped(l) <=> l = <<>> \/ (secure /\ HasDir(l))
  BY Zenon DEF Skipped
<1>3. y = IF x.over \/ Skipped(l) THEN x ELSE IF l \in {C, POSIX} THEN end ELSE tried
  BY Zenon DEF TryLocale
<1>4. CASE x.over \/ Skipped(l)
  <2>1. y = x
    BY <1>3, <1>4, Zenon
  <2>2. Round(x, x, secure, l, text)
    BY <1>2, <1>4, Zenon DEF Round
  <2> QED
    BY <2>1, <2>2, Zenon
<1>5. CASE ~x.over /\ ~Skipped(l) /\ l \in {C, POSIX}
  <2>1. y = end
    BY <1>3, <1>5, Zenon
  <2>2. /\ end \in [list : Lists, text : Texts, over : BOOLEAN]
        /\ end.list = x.list /\ end.text = x.text /\ end.over = TRUE
    <3> HIDE DEF Texts
    <3> QED
      BY <1>1
  <2> HIDE DEF end
  <2>3. end \in States(dir, secure)
    BY <1>1, <2>2 DEF States
  <2>4. Round(x, end, secure, l, text)
    BY <1>2, <1>5, <2>2, Zenon DEF Round
  <2> QED
    BY <2>1, <2>3, <2>4, Zenon
<1>6. CASE ~x.over /\ ~Skipped(l) /\ l \notin {C, POSIX}
  <2>1. y = tried
    BY <1>3, <1>6, Zenon
  <2>2. l \in Names /\ (secure => ~HasDir(l)) /\ dir \in Dirs
    BY <1>1, <1>2, <1>6, Zenon
  <2>3. /\ IsTried(tried, secure)
        /\ Ordinary /\ Unambiguous => tried.text = text
    <3> HIDE DEF Texts, end
    <3> QED
      BY <1>1, <2>2, TryEntryIs
  <2> HIDE DEF tried
  <2>4. /\ tried = [list |-> tried.list, text |-> tried.text, over |-> tried.over]
        /\ IsList(tried.list, secure) /\ tried.over = (tried.text # Untranslated)
    BY <2>3, Zenon DEF IsTried
  <2>5. PICK list : IsList(list, secure) /\ tried.text \in {Untranslated} \union DOMAIN list
    BY <2>3, Zenon DEF IsTried
  <2>6. tried.text \in Texts /\ tried.list \in Lists
    BY <2>4, <2>5, EveryList
  <2>7. tried.over \in BOOLEAN
    BY <2>4
  <2>8. tried \in [list : Lists, text : Texts, over : BOOLEAN]
    <3> HIDE DEF Texts
    <3> QED
      BY <2>4, <2>6, <2>7
  <2>9. tried \in States(dir, secure)
    BY <1>1, <1>6, <2>4, <2>8 DEF States
  <2>10. Round(x, tried, secure, l, text)
    BY <1>2, <1>6, <2>3, <2>4, Zenon DEF Round
  <2> QED
    BY <2>1, <2>9, <2>10, Zenon
<1> QED
  BY <1>4, <1>5, <1>6, Zenon

\* After n rounds: what has been found is the translation of the first of the wanted
\* names that has one, and the end is not passed.
Progress(x, n, want, ends, text) ==
  /\ x.text # Untranslated =>
       /\ x.over
       /\ \E i \in want : /\ i <= n /\ text[i] = x.text
                          /\ \A j \in want : j < i => text[j] = Untranslated
  /\ x.text = Untranslated => \A j \in want : j <= n => text[j] = Untranslated
  /\ x.over /\ x.text = Untranslated => \A j \in want : j <= n
  /\ ~x.over => \A j \in ends : j > n

\* A round brings the loop one name further.
LEMMA ProgressOn ==
  ASSUME Ordinary, Unambiguous, NEW x, NEW y, NEW n \in Nat, NEW N \in Nat, NEW names,
         DOMAIN names = 1..N, NEW sec, NEW text, NEW want, NEW ends, NEW best,
         ends = {i \in 1..N : names[i] \in {C, POSIX}},
         want = {i \in 1..N : /\ names[i] # <<>> /\ \A j \in ends : i < j
                              /\ sec => ~HasDir(names[i])},
         n + 1 \in 1..N => best = text[n + 1],
         y.over \in BOOLEAN,
         Progress(x, n, want, ends, text), Round(x, y, sec, Single(names, n + 1), best)
  PROVE  Progress(y, n + 1, want, ends, text)
<1> DEFINE l == Single(names, n + 1)
<1>1. l = IF n + 1 \in 1..N THEN names[n + 1] ELSE C
  BY DEF Single
<1>2. /\ want \in SUBSET Nat /\ ends \in SUBSET Nat
      /\ \A i \in want : i \in 1..N /\ names[i] # <<>> /\ (sec => ~HasDir(names[i]))
      /\ \A i \in want, j \in ends : i < j
      /\ \A i \in 1..N : i \in ends <=> names[i] \in {C, POSIX}
      /\ \A i \in ends : i \in 1..N
  OBVIOUS
<1>3. ~HasDir(C) /\ ~HasDir(POSIX) /\ C # <<>> /\ POSIX # <<>>
  <2>1. ToSet(C) = {"C"} /\ ToSet(POSIX) = {"POSIX"}
    BY DEF ToSet, C, POSIX
  <2> QED
    BY <2>1 DEF HasDir, C, POSIX
<1>4. \A j \in Nat : j <= n + 1 <=> j <= n \/ j = n + 1
  OBVIOUS
<1>5. CASE x.over
  <2>1. y = x
    BY <1>5 DEF Round
  <2> QED
    BY <1>2, <1>4, <1>5, <2>1 DEF Progress
<1>6. CASE ~x.over /\ (l = <<>> \/ (sec /\ HasDir(l)))
  <2>1. y = x
    BY <1>6 DEF Round
  <2>2. n + 1 \notin want /\ n + 1 \notin ends
    BY <1>1, <1>2, <1>3, <1>6
  <2>3. \A j \in ends : j > n => j > n + 1
    BY <1>2, <2>2
  <2> QED
    BY <1>2, <1>4, <1>6, <2>1, <2>2, <2>3 DEF Progress
<1>7. CASE ~x.over /\ ~(l = <<>> \/ (sec /\ HasDir(l))) /\ l \in {C, POSIX}
  <2>1. y.text = x.text /\ y.over = TRUE
    BY <1>7 DEF Round
  <2>2. x.text = Untranslated
    BY <1>7 DEF Progress
  <2>3. \A j \in want : j < n + 1
    BY <1>1, <1>2, <1>7
  <2> QED
    BY <1>2, <1>4, <2>1, <2>2, <2>3 DEF Progress
<1>8. CASE ~x.over /\ ~(l = <<>> \/ (sec /\ HasDir(l))) /\ l \notin {C, POSIX}
  <2>1. y.over = (y.text # Untranslated) /\ y.text = best
    BY <1>8 DEF Round
  <2>2. x.text = Untranslated
    BY <1>8 DEF Progress
  <2>3. n + 1 \in 1..N /\ names[n + 1] = l
    BY <1>1, <1>8
  <2>4. n + 1 \notin ends
    BY <1>2, <1>8, <2>3
  <2>5. \A j \in ends : j > n + 1
    BY <1>2, <1>8, <2>4 DEF Progress
  <2>6. n + 1 \in want
    BY <1>8, <2>3, <2>5
  <2>7. \A j \in want : j < n + 1 => text[j] = Untranslated
    BY <1>2, <2>2 DEF Progress
  <2>8. text[n + 1] = y.text
    BY <2>1, <2>3
  <2>9. CASE y.text = Untranslated
    <3>1. \A j \in want : j <= n + 1 => text[j] = Untranslated
      <4>1. \A j \in want : j <= n + 1 => j < n + 1 \/ j = n + 1
        BY <1>2
      <4> QED
        BY <2>7, <2>8, <2>9, <4>1, Zenon
    <3>2. y.over = FALSE
      BY <2>1, <2>9
    <3> QED
      BY <2>5, <2>9, <3>1, <3>2, Zenon DEF Progress
  <2>10. CASE y.text # Untranslated
    <3>1. y.over = TRUE
      BY <2>1, <2>10
    <3>2. n + 1 <= n + 1
      OBVIOUS
    <3> QED
      BY <2>6, <2>7, <2>8, <2>10, <3>1, <3>2, Zenon DEF Progress
  <2> QED
    BY <2>9, <2>10
<1> QED
  BY <1>5, <1>6, <1>7, <1>8

\* The names that the environment gives: a list.
LEMMA NamesAre ==
  ASSUME NEW e \in Environments, NEW q \in Queries
  PROVE  LET names == GuessCategoryValue(e, q.category) IN
         /\ names \in Seq(ToSet(names))
         /\ ToSet(names) \subseteq {<<>>, C, POSIX} \union Names
<1> DEFINE names == GuessCategoryValue(e, q.category)
           locale == LocaleName(e, q.category)
<1>1. names = <<locale>> \/ names = e.language
  BY Zenon DEF GuessCategoryValue
<1>2. names \in Seq(ToSet(names))
  <2>1. CASE names = <<locale>>
    <3> HIDE DEF names, locale
    <3> QED
      BY <2>1 DEF ToSet
  <2>2. CASE names = e.language
    BY <2>2, SequencesAssumption, Zenon
  <2> QED
    BY <1>1, <2>1, <2>2
<1>3. ToSet(names) \subseteq {<<>>, C, POSIX} \union Names
  <2> DEFINE lists == {ToSet(GuessCategoryValue(r, k.category)) : r \in Environments, k \in Queries}
             some == ToSet(names)
             none == {<<>>, C, POSIX}
  <2> HIDE DEF names
  <2>1. some \in lists
    BY DEF names
  <2>2. Names = (UNION lists) \ none
    BY DEF Names
  <2> HIDE DEF lists, some, none
  <2>3. ASSUME NEW name \in some, name \notin none PROVE name \in Names
    <3>1. name \in UNION lists
      BY <2>1
    <3> QED
      BY <2>2, <2>3, <3>1
  <2> QED
    BY <2>3 DEF some, none
<1> QED
  BY <1>2, <1>3 DEF names

\* The directory of a query, and the settings, of the moment.
DirectoryOf(q) == DirName(bindings, env, IF q.domain = "NULL" THEN current ELSE q.domain)

\* The directory is one that catalogues are looked for in, if there is one.
LEMMA DirectoryIs ==
  ASSUME NEW q, env \in Environments, \A d \in DOMAIN bindings : bindings[d] \in Directories
  PROVE  DirectoryOf(q) = Nowhere \/ DirectoryOf(q) \in Dirs
<1> DEFINE dom == IF q.domain = "NULL" THEN current ELSE q.domain
           bound == bindings[dom]
           dir == DirectoryOf(q)
<1>1. dir = DirName(bindings, env, dom)
  BY DEF DirectoryOf
<1> HIDE DEF dom, dir
<1>2. CASE dom \notin DOMAIN bindings
  <2>1. dir = DefaultDir
    BY <1>1, <1>2, Zenon DEF DirName
  <2> QED
    BY <2>1 DEF Dirs, dir
<1>3. CASE dom \in DOMAIN bindings
  <2>1. bound \in Directories
    BY <1>3
  <2>2. dir = bound \/ dir = Nowhere \/ dir = env.cwd \o <<"/">> \o bound
    BY <1>1, <1>3, Zenon DEF DirName
  <2> HIDE DEF bound
  <2> DEFINE path(e, d) == e.cwd \o <<"/">> \o d
             below == {path(e, d) : e \in Environments, d \in Directories}
  <2>3. env.cwd \o <<"/">> \o bound \in below
    <3>1. env.cwd \o <<"/">> \o bound = path(env, bound)
      OBVIOUS
    <3> HIDE DEF path
    <3> QED
      BY <2>1, <3>1
  <2>4. Dirs = {DefaultDir} \union Directories \union below
    BY DEF Dirs
  <2> HIDE DEF below
  <2> QED
    BY <2>1, <2>2, <2>3, <2>4 DEF dir
<1> QED
  BY <1>2, <1>3

Now == SettingsOf(env, current, bindings)

\* The settings of the moment are settings.
LEMMA NowIs ==
  /\ Now.env = env /\ Now.secure = secure /\ Now.current = current /\ Now.bindings = bindings
BY DEF Now, SettingsOf

\* The search finds the best translation there is.
LEMMA SearchIs ==
  ASSUME NEW q \in Queries, env \in Environments, current \in Domains,
         \A d \in DOMAIN bindings : bindings[d] \in Directories, IsList(loaded, secure)
  PROVE  /\ IsList(Search(q).list, secure)
         /\ Ordinary /\ Unambiguous => Search(q).text = Best(Now, q)
<1> DEFINE dom == IF q.domain = "NULL" THEN current ELSE q.domain
           dir == DirectoryOf(q)
           names == GuessCategoryValue(env, q.category)
           N == Len(names)
           mofile == FileOf(q.category, dom)
           step(x, n) == TryLocale(x, dir, Single(names, n), mofile, q.msgid)
           start == [list |-> loaded, text |-> Untranslated, over |-> dir = Nowhere]
           V == States(dir, secure)
           g == [p \in Nat \X V |-> step(p[2], p[1] + 1)]
           eq(F) == F = [n \in Nat |-> IF n = 0 THEN start ELSE step(F[n - 1], n)]
           after == CHOOSE F : eq(F)
<1>1. Search(q) = after[N + 1]
  BY Zenon DEF Search, DirectoryOf
<1>2. dir = Nowhere \/ dir \in Dirs
  BY DirectoryIs
<1>3. mofile \in FileNames
  BY DEF FileNames
<1>4. /\ N \in Nat /\ DOMAIN names = 1..N
      /\ \A i \in 1..N : names[i] \in {<<>>, C, POSIX} \union Names
  <2>1. names \in Seq(ToSet(names)) /\ ToSet(names) \subseteq {<<>>, C, POSIX} \union Names
    BY NamesAre
  <2> HIDE DEF names
  <2> QED
    BY <2>1 DEF ToSet
<1> HIDE DEF dir, names, mofile
<1>5. \A n \in Nat : Single(names, n) \in {<<>>, C, POSIX} \union Names
  BY <1>4 DEF Single
<1>6. ASSUME NEW x \in V, NEW n \in Nat
      PROVE  /\ step(x, n) \in V
             /\ Round(x, step(x, n), secure, Single(names, n),
                      BestOf(Exploded(Single(names, n)), dir, mofile, q.msgid))
  BY <1>2, <1>3, <1>5, <1>6, TryLocaleIs, Zenon
<1>7. start \in V
  <2>1. loaded \in Lists
    BY EveryList
  <2>2. start.list = loaded /\ start.text = Untranslated /\ start.over = (dir = Nowhere)
    OBVIOUS
  <2>3. start \in [list : Lists, text : {Untranslated} \union EveryPath, over : BOOLEAN]
    BY <2>1
  <2> HIDE DEF start
  <2> QED
    BY <2>2, <2>3 DEF States
<1>8. \E F : eq(F)
  <2> HIDE DEF step, V
  <2>1. g \in [Nat \X V -> V]
    <3>1. \A n \in Nat : n + 1 \in Nat
      OBVIOUS
    <3> QED
      BY <1>6, <3>1
  <2>2. PICK f \in [Nat -> V] : Recurs(f, start, g)
    <3> HIDE DEF start, g
    <3> QED
      BY <1>7, <2>1, Recursion
  <2>3. \A n \in Nat : f[n + 1] = step(f[n], n + 1)
    <3> SUFFICES ASSUME NEW n \in Nat PROVE f[n + 1] = step(f[n], n + 1)
      OBVIOUS
    <3>1. <<n, f[n]>> \in Nat \X V
      BY <2>2
    <3>2. f[n + 1] = g[<<n, f[n]>>]
      BY <2>2 DEF Recurs
    <3> QED
      BY <3>1, <3>2
  <2>4. f[0] = start
    BY <2>2 DEF Recurs
  <2> HIDE DEF start, g
  <2>5. \A n \in Nat : f[n] = IF n = 0 THEN start ELSE step(f[n - 1], n)
    <3> SUFFICES ASSUME NEW n \in Nat, n # 0 PROVE f[n] = step(f[n - 1], n)
      BY <2>4
    <3>1. n - 1 \in Nat /\ (n - 1) + 1 = n
      OBVIOUS
    <3> QED
      BY <2>3, <3>1
  <2>6. eq(f)
    BY <2>2, <2>5
  <2> QED
    BY <2>6
<1>9. eq(after)
  <2> HIDE DEF eq
  <2> QED
    BY <1>8
<1> HIDE DEF after
<1>10. /\ after[0] = start
       /\ \A n \in Nat : after[n + 1] = step(after[n], n + 1)
  <2> HIDE DEF step, start
  <2>1. \A n \in Nat : after[n] = IF n = 0 THEN start ELSE step(after[n - 1], n)
    BY <1>9
  <2>2. \A n \in Nat : n + 1 \in Nat /\ n + 1 # 0 /\ (n + 1) - 1 = n
    OBVIOUS
  <2> QED
    BY <2>1, <2>2
<1>11. \A n \in Nat : after[n] \in V
  <2> DEFINE S == {n \in Nat : after[n] \in V}
  <2> HIDE DEF V, step, start
  <2>1. 0 \in S
    BY <1>7, <1>10
  <2>2. \A n \in Nat : n \in S => n + 1 \in S
    <3> SUFFICES ASSUME NEW n \in Nat, after[n] \in V PROVE after[n + 1] \in V
      OBVIOUS
    <3>1. n + 1 \in Nat /\ after[n + 1] = step(after[n], n + 1)
      BY <1>10
    <3> QED
      BY <1>6, <3>1
  <2> HIDE DEF S
  <2>3. Nat \subseteq S
    BY <2>1, <2>2, Induction
  <2> QED
    BY <2>3 DEF S
<1>12. IsList(Search(q).list, secure)
  <2> HIDE DEF V
  <2>1. after[N + 1] \in V
    BY <1>4, <1>11
  <2> QED
    BY <1>1, <2>1 DEF V, States
<1>13. ASSUME Ordinary, Unambiguous PROVE Search(q).text = Best(Now, q)
  <2> DEFINE text == [i \in 1..N |-> BestOf(Exploded(names[i]), dir, mofile, q.msgid)]
             ends == {i \in 1..N : names[i] \in {C, POSIX}}
             want == {i \in 1..N : /\ names[i] # <<>> /\ \A j \in ends : i < j
                                   /\ secure => ~HasDir(names[i])}
             having == {i \in want : text[i] # Untranslated}
             found == Search(q).text
  <2>1. Best(Now, q) = IF dir = Nowhere \/ having = {} THEN Untranslated ELSE text[Min(having)]
    <3> DEFINE wanted == Wanted(Now, q.category)
               best(i) == BestOf(Exploded(names[i]), dir, mofile, q.msgid)
               first == {i \in wanted : best(i) # Untranslated}
    <3>1. wanted = want
      BY <1>4, NowIs DEF Wanted, names
    <3>2. Best(Now, q) = IF dir = Nowhere \/ first = {} THEN Untranslated ELSE best(Min(first))
      BY NowIs, Zenon DEF Best, dir, names, mofile, DirectoryOf
    <3> HIDE DEF wanted, best, ends
    <3>3. \A i \in want : text[i] = best(i)
      BY DEF best
    <3>4. first = having
      BY <3>1, <3>3
    <3>5. having # {} => Min(having) \in want
      <4>1. having \in SUBSET Nat /\ having \subseteq want
        OBVIOUS
      <4> HIDE DEF having
      <4> QED
        BY <4>1, LeastIs
    <3> HIDE DEF having, first, want, text
    <3> QED
      BY <3>2, <3>3, <3>4, <3>5
  <2>2. \A n \in Nat : dir = Nowhere => after[n].text = Untranslated
    <3> DEFINE S == {n \in Nat : dir = Nowhere => after[n].text = Untranslated}
    <3>1. 0 \in S
      BY <1>10
    <3> HIDE DEF step, start, V
    <3>2. \A n \in Nat : n \in S => n + 1 \in S
      <4> SUFFICES ASSUME NEW n \in Nat, n \in S, dir = Nowhere
                   PROVE  after[n + 1].text = Untranslated
        OBVIOUS
      <4>1. after[n] \in V /\ after[n].over
        BY <1>11 DEF V, States
      <4>2. after[n + 1] = after[n]
        <5>1. step(after[n], n + 1) = after[n]
          BY <4>1 DEF step, TryLocale
        <5> QED
          BY <1>10, <5>1
      <4> QED
        BY <4>2
    <3> HIDE DEF S
    <3>3. Nat \subseteq S
      BY <3>1, <3>2, Induction
    <3> QED
      BY <3>3 DEF S
  <2>3. \A n \in Nat : dir # Nowhere => Progress(after[n], n, want, ends, text)
    <3> DEFINE S == {n \in Nat : dir # Nowhere => Progress(after[n], n, want, ends, text)}
    <3>1. 0 \in S
      <4> SUFFICES ASSUME dir # Nowhere PROVE Progress(start, 0, want, ends, text)
        BY <1>10
      <4>1. start.text = Untranslated /\ start.over = FALSE
        OBVIOUS
      <4>2. \A j \in want : ~(j <= 0)
        OBVIOUS
      <4>3. \A j \in ends : j > 0
        OBVIOUS
      <4> HIDE DEF start, want, ends
      <4> QED
        BY <4>1, <4>2, <4>3, Zenon DEF Progress
    <3>2. \A n \in Nat : n \in S => n + 1 \in S
      <4> HIDE DEF step, start, V, want, ends, text
      <4> SUFFICES ASSUME NEW n \in Nat, dir # Nowhere, Progress(after[n], n, want, ends, text)
                   PROVE  Progress(after[n + 1], n + 1, want, ends, text)
        OBVIOUS
      <4> DEFINE x == after[n]
                 y == after[n + 1]
                 best == BestOf(Exploded(Single(names, n + 1)), dir, mofile, q.msgid)
      <4>1. x \in V /\ y \in V /\ y = step(x, n + 1) /\ n + 1 \in Nat
        BY <1>10, <1>11
      <4>2. Round(x, y, secure, Single(names, n + 1), best)
        BY <1>6, <4>1, Zenon
      <4>3. y.over \in BOOLEAN
        BY <4>1 DEF V, States
      <4>4. n + 1 \in 1..N => best = text[n + 1]
        BY <1>4 DEF Single, text
      <4> HIDE DEF x, y, best
      <4>5. Progress(x, n, want, ends, text)
        BY DEF x
      <4>6. /\ ends = {i \in 1..N : names[i] \in {C, POSIX}}
            /\ want = {i \in 1..N : /\ names[i] # <<>> /\ \A j \in ends : i < j
                                    /\ secure => ~HasDir(names[i])}
        BY Zenon DEF ends, want
      <4> HIDE DEF N
      <4>7. Progress(y, n + 1, want, ends, text)
        BY <1>4, <1>13, <4>2, <4>3, <4>4, <4>5, <4>6, ProgressOn
      <4> QED
        BY <4>7 DEF y
    <3> HIDE DEF S
    <3>3. Nat \subseteq S
      BY <3>1, <3>2, Induction
    <3> QED
      BY <3>3 DEF S
  <2>4. found = after[N + 1].text /\ N + 1 \in Nat
    BY <1>1, <1>4
  <2> HIDE DEF found
  <2>5. CASE dir = Nowhere
    BY <2>1, <2>2, <2>4, <2>5 DEF found
  <2>6. CASE dir # Nowhere
    <3>1. Progress(after[N + 1], N + 1, want, ends, text)
      BY <2>3, <2>4, <2>6
    <3>2. \A i \in want : i \in Nat /\ i <= N + 1
      BY <1>4
    <3> HIDE DEF text, ends
    <3>3. CASE found = Untranslated
      <4>1. having = {}
        BY <2>4, <3>1, <3>2, <3>3 DEF Progress
      <4> QED
        BY <2>1, <3>3, <4>1 DEF found
    <3>4. CASE found # Untranslated
      <4>1. PICK i \in want : text[i] = found /\ \A j \in want : j < i => text[j] = Untranslated
        BY <2>4, <3>1, <3>4 DEF Progress
      <4>2. i \in having /\ having \in SUBSET Nat /\ having # {} /\ \A j \in having : i <= j
        <5> HIDE DEF want
        <5> QED
          BY <3>2, <3>4, <4>1
      <4>3. Min(having) = i
        <5> HIDE DEF having, want
        <5>1. PICK k : k = Min(having)
          OBVIOUS
        <5>2. k \in having /\ \A j \in having : k <= j
          BY <4>2, <5>1, LeastIs
        <5>3. k = i
          BY <4>2, <5>2
        <5> QED
          BY <5>1, <5>3
      <4> QED
        BY <2>1, <2>6, <4>1, <4>2, <4>3 DEF found
    <3> QED
      BY <3>3, <3>4
  <2> QED
    BY <2>5, <2>6
<1> QED
  BY <1>12, <1>13

-----------------------------------------------------------------------------
(* The known translations, and the steps of gettext().                     *)

\* What is known since the caches were flushed was right under settings since then.
KnownRight(table, count, settings) ==
  \A k \in DOMAIN table :
    /\ table[k].counter \in Nat /\ table[k].counter <= count
    /\ Ordinary /\ Unambiguous /\ table[k].counter = count =>
         \E s \in settings : table[k].text = Best(s, k)

\* The bindings of some of the domains.
IsBound(table) == table \in UNION {[bound -> Directories] : bound \in SUBSET Domains}

(***************************************************************************)
(* The inductive invariant: every entry of the list of catalogues is where *)
(* its origin - a directory, a name and a file - puts it, with the same    *)
(* entries after it, and tells whether its file is there; every known      *)
(* translation of the moment was right for some settings since the caches  *)
(* were flushed, and the settings of the moment are among those.           *)
(***************************************************************************)
GetTextInv ==
  /\ env \in Environments /\ secure \in BOOLEAN /\ current \in Domains
  /\ IsBound(bindings)
  /\ cntr \in Nat
  /\ IsList(loaded, secure)
  /\ Now \in seen
  /\ \A s \in seen : s.current = current
  /\ KnownRight(known, cntr, seen)

\* The key has the domain that is asked for.
LEMMA KeyIs ==
  ASSUME NEW q \in Queries
  PROVE  /\ Key(q).domain = IF q.domain = "NULL" THEN current ELSE q.domain
         /\ Key(q).category = q.category /\ Key(q).msgid = q.msgid
<1> DEFINE dom == IF q.domain = "NULL" THEN current ELSE q.domain
<1>1. q = [domain |-> q.domain, category |-> q.category, msgid |-> q.msgid]
  BY QueriesAssumption
<1>2. Key(q) = [q EXCEPT !.domain = dom]
  BY Zenon DEF Key
<1> HIDE DEF dom
<1>3. Key(q).domain = dom /\ Key(q).category = q.category /\ Key(q).msgid = q.msgid
  BY <1>1, <1>2
<1> QED
  BY <1>3 DEF dom

\* A translation is known under the domain of the moment.
LEMMA SameBest ==
  ASSUME NEW q \in Queries, NEW s, s.current = current
  PROVE  Best(s, Key(q)) = Best(s, q)
<1> DEFINE own == IF q.domain = "NULL" THEN s.current ELSE q.domain
           of_key == IF Key(q).domain = "NULL" THEN s.current ELSE Key(q).domain
<1>1. own = of_key
  BY KeyIs
<1>2. Key(q).category = q.category /\ Key(q).msgid = q.msgid
  BY KeyIs
<1> DEFINE best(dom, category, msgid) ==
             LET dir == DirName(s.bindings, s.env, dom)
                 names == GuessCategoryValue(s.env, category)
                 text(i) == BestOf(Exploded(names[i]), dir, FileOf(category, dom), msgid)
                 having == {i \in Wanted(s, category) : text(i) # Untranslated}
             IN IF dir = Nowhere \/ having = {} THEN Untranslated ELSE text(Min(having))
<1>3. Best(s, q) = best(own, q.category, q.msgid)
  BY Zenon DEF Best
<1>4. Best(s, Key(q)) = best(of_key, Key(q).category, Key(q).msgid)
  BY Zenon DEF Best
<1> HIDE DEF best, own, of_key
<1> QED
  BY <1>1, <1>2, <1>3, <1>4

\* A domain is bound.
LEMMA BoundMore ==
  ASSUME NEW table, IsBound(table), NEW d \in Domains, NEW dir \in Directories
  PROVE  IsBound(Put(table, d, dir))
<1>1. PICK bound \in SUBSET Domains : table \in [bound -> Directories]
  BY DEF IsBound
<1>2. Put(table, d, dir) \in [bound \union {d} -> Directories] /\ bound \union {d} \in SUBSET Domains
  BY <1>1 DEF Put
<1> QED
  BY <1>2 DEF IsBound

\* The invariant holds in the beginning.
LEMMA GetTextInit_Inv ==
  GetTextInit => GetTextInv
<1> SUFFICES ASSUME GetTextInit PROVE GetTextInv
  OBVIOUS
<1>1. /\ env \in Environments /\ secure \in BOOLEAN /\ current \in Domains /\ current = "messages"
      /\ bindings = <<>> /\ cntr = 0 /\ loaded = <<>> /\ known = <<>> /\ seen = {Now}
  BY BoundsAssumption DEF GetTextInit, Now
<1>2. IsBound(bindings)
  <2>1. bindings \in [{} -> Directories]
    BY <1>1
  <2>2. {} \in SUBSET Domains
    OBVIOUS
  <2> QED
    BY <2>1, <2>2 DEF IsBound
<1>3. IsList(loaded, secure)
  BY <1>1 DEF IsList
<1>4. KnownRight(known, cntr, seen)
  BY <1>1 DEF KnownRight
<1>5. \A s \in seen : s.current = current
  BY <1>1, NowIs
<1> QED
  BY <1>1, <1>2, <1>3, <1>4, <1>5 DEF GetTextInv

\* The bindings of the moment.
LEMMA BoundHere ==
  ASSUME IsBound(bindings)
  PROVE  \A d \in DOMAIN bindings : bindings[d] \in Directories
BY DEF IsBound

\* What is known stays right when settings are added,
LEMMA KnownMore ==
  ASSUME NEW table, NEW count \in Nat, NEW some, NEW more, some \subseteq more,
         KnownRight(table, count, some)
  PROVE  KnownRight(table, count, more)
BY DEF KnownRight

\* when the caches are flushed,
LEMMA KnownFlushed ==
  ASSUME NEW table, NEW count \in Nat, NEW some, NEW more, KnownRight(table, count, some)
  PROVE  KnownRight(table, count + 1, more)
BY DEF KnownRight

\* and when a translation is added that is right.
LEMMA KnownPut ==
  ASSUME NEW table, NEW count \in Nat, NEW settings, KnownRight(table, count, settings),
         NEW key, NEW text, NEW s \in settings,
         Ordinary /\ Unambiguous => text = Best(s, key)
  PROVE  KnownRight(Put(table, key, [counter |-> count, text |-> text]), count, settings)
<1> DEFINE entry == [counter |-> count, text |-> text]
           new == Put(table, key, entry)
<1>1. /\ DOMAIN new = DOMAIN table \union {key} /\ new[key] = entry
      /\ \A k \in DOMAIN table : k # key => new[k] = table[k]
  <2> HIDE DEF entry
  <2> QED
    BY DEF Put
<1>2. entry.counter = count /\ entry.text = text
  OBVIOUS
<1> HIDE DEF entry, new
<1>3. ASSUME NEW k \in DOMAIN new
      PROVE  /\ new[k].counter \in Nat /\ new[k].counter <= count
             /\ Ordinary /\ Unambiguous /\ new[k].counter = count =>
                  \E r \in settings : new[k].text = Best(r, k)
  <2>1. CASE k = key
    BY <1>1, <1>2, <2>1
  <2>2. CASE k # key
    <3>1. k \in DOMAIN table /\ new[k] = table[k]
      BY <1>1, <2>2
    <3> QED
      BY <3>1 DEF KnownRight
  <2> QED
    BY <2>1, <2>2
<1>4. KnownRight(new, count, settings)
  BY <1>3 DEF KnownRight
<1> QED
  BY <1>4 DEF new, entry

\* What a query is told: what is known, or what the search finds.
LEMMA GettextTells ==
  ASSUME GetTextInv, NEW q \in Queries, Gettext(q)
  PROVE  /\ \E text : told' = [query |-> q, text |-> text]
                      /\ (Ordinary /\ Unambiguous => \E s \in seen : text = Best(s, q))
         /\ IsList(loaded', secure)
         /\ KnownRight(known', cntr, seen)
<1> DEFINE key == Key(q)
           search == Search(q)
<1>1. /\ cntr \in Nat /\ IsList(loaded, secure) /\ Now \in seen
      /\ \A s \in seen : s.current = current
      /\ KnownRight(known, cntr, seen)
      /\ \A d \in DOMAIN bindings : bindings[d] \in Directories
      /\ env \in Environments /\ current \in Domains
  BY BoundHere DEF GetTextInv
<1>2. \A s \in seen : Best(s, key) = Best(s, q)
  BY <1>1, SameBest
<1>3. CASE GettextKnown(q)
  <2>1. /\ key \in DOMAIN known /\ known[key].counter = cntr
        /\ told' = [query |-> q, text |-> known[key].text]
        /\ loaded' = loaded /\ known' = known
    BY <1>3 DEF GettextKnown, IsKnown, Tell
  <2>2. Ordinary /\ Unambiguous => \E s \in seen : known[key].text = Best(s, key)
    BY <1>1, <2>1 DEF KnownRight
  <2> QED
    BY <1>1, <1>2, <2>1, <2>2
<1>4. CASE GettextSearch(q)
  <2>1. Searched(q, search)
    BY <1>4 DEF GettextSearch
  <2>2. /\ IsList(search.list, secure)
        /\ Ordinary /\ Unambiguous => search.text = Best(Now, q)
    BY <1>1, SearchIs
  <2>3. /\ loaded' = search.list /\ told' = [query |-> q, text |-> search.text]
        /\ \/ known' = Put(known, key, [counter |-> cntr, text |-> search.text])
           \/ known' = known
    BY <2>1 DEF Searched, Tell
  <2> HIDE DEF key, search
  <2>4. Ordinary /\ Unambiguous => search.text = Best(Now, key)
    BY <1>1, <1>2, <2>2
  <2>5. KnownRight(Put(known, key, [counter |-> cntr, text |-> search.text]), cntr, seen)
    BY <1>1, <2>4, KnownPut
  <2> QED
    BY <1>1, <2>2, <2>3, <2>5
<1> QED
  BY <1>3, <1>4 DEF Gettext

\* Every step preserves the invariant.
LEMMA GetTextInv_Next ==
  GetTextInv /\ [GetTextNext]_getTextVars => GetTextInv'
<1> SUFFICES ASSUME GetTextInv, [GetTextNext]_getTextVars PROVE GetTextInv'
  OBVIOUS
<1>1. /\ env \in Environments /\ secure \in BOOLEAN /\ current \in Domains
      /\ IsBound(bindings) /\ cntr \in Nat /\ IsList(loaded, secure) /\ Now \in seen
      /\ \A s \in seen : s.current = current
      /\ KnownRight(known, cntr, seen)
  BY DEF GetTextInv
<1>2. CASE UNCHANGED getTextVars
  BY <1>1, <1>2 DEF getTextVars, GetTextInv, Now, SettingsOf
<1>3. CASE Setenv
  <2>1. /\ env' \in Environments /\ secure' = secure /\ current' = current
        /\ bindings' = bindings /\ cntr' = cntr /\ loaded' = loaded /\ known' = known
        /\ seen' = seen \union {[env |-> env', secure |-> secure, current |-> current,
                                 bindings |-> bindings]}
    BY <1>3 DEF Setenv, SettingsOf
  <2>2. Now' \in seen'
    BY <2>1 DEF Now, SettingsOf
  <2>3. \A s \in seen' : s.current = current'
    BY <1>1, <2>1
  <2>4. KnownRight(known', cntr', seen')
    <3>1. seen \subseteq seen'
      BY <2>1
    <3> QED
      BY <1>1, <2>1, <3>1, KnownMore
  <2> QED
    BY <1>1, <2>1, <2>2, <2>3, <2>4 DEF GetTextInv
<1>4. ASSUME Configured, current' \in Domains, IsBound(bindings') PROVE GetTextInv'
  <2>1. /\ env' = env /\ secure' = secure /\ loaded' = loaded /\ known' = known
        /\ cntr' = cntr + 1
        /\ seen' = {[env |-> env, secure |-> secure, current |-> current',
                     bindings |-> bindings']}
    BY <1>4 DEF Configured, SettingsOf
  <2>2. Now' \in seen'
    BY <2>1 DEF Now, SettingsOf
  <2>3. \A s \in seen' : s.current = current'
    BY <2>1
  <2>4. KnownRight(known', cntr', seen')
    BY <1>1, <2>1, KnownFlushed
  <2>5. cntr' \in Nat
    BY <1>1, <2>1
  <2> QED
    BY <1>1, <1>4, <2>1, <2>2, <2>3, <2>4, <2>5 DEF GetTextInv
<1>5. ASSUME NEW name \in Domains \union {""}, Textdomain(name) PROVE GetTextInv'
  <2>1. Configured /\ current' \in Domains /\ bindings' = bindings
    BY <1>5, BoundsAssumption DEF Textdomain
  <2> QED
    BY <1>1, <1>4, <2>1
<1>6. ASSUME NEW d \in Domains, NEW dir \in Directories, Bindtextdomain(d, dir)
      PROVE  GetTextInv'
  <2>1. Configured /\ current' = current /\ bindings' = Put(bindings, d, dir)
    BY <1>6 DEF Bindtextdomain
  <2>2. IsBound(bindings')
    BY <1>1, <2>1, BoundMore
  <2> QED
    BY <1>1, <1>4, <2>1, <2>2
<1>7. ASSUME NEW q \in Queries, Gettext(q) PROVE GetTextInv'
  <2>1. /\ env' = env /\ secure' = secure /\ current' = current /\ bindings' = bindings
        /\ cntr' = cntr /\ seen' = seen
    BY <1>7 DEF Gettext
  <2>2. IsList(loaded', secure) /\ KnownRight(known', cntr, seen)
    BY <1>7, GettextTells
  <2>3. Now' = Now
    BY <2>1 DEF Now, SettingsOf
  <2> QED
    BY <1>1, <2>1, <2>2, <2>3 DEF GetTextInv
<1> QED
  BY <1>2, <1>3, <1>5, <1>6, <1>7 DEF GetTextNext

(***************************************************************************)
(* However the calls of textdomain(), bindtextdomain() and gettext() and   *)
(* changes of the environment follow each other: an entry of               *)
(* _nl_loaded_domains keeps the place, the successors and the data that    *)
(* the name it was made for gives it, and a known translation with the     *)
(* present counter is still right for one of the settings since the last   *)
(* change of _nl_msg_cat_cntr (_nl_make_l10nflist, _nl_find_domain,        *)
(* DCIGETTEXT).                                                            *)
(***************************************************************************)
THEOREM GetTextInvHolds ==
  GetTextSpec => []GetTextInv
BY GetTextInit_Inv, GetTextInv_Next, PTL DEF GetTextSpec

-----------------------------------------------------------------------------
(* The abstract specification is implemented.                              *)

\* The settings are those of the abstract specification.
LEMMA NowInSettings ==
  ASSUME GetTextInv
  PROVE  SettingsOf(env, current, bindings) \in Settings
BY DEF GetTextInv, IsBound, Settings, SettingsOf

\* The initial states are initial states of the abstract specification.
LEMMA GetTextInit_Abstract ==
  GetTextInit => Abstract!Init
<1> SUFFICES ASSUME GetTextInit PROVE Abstract!Init
  OBVIOUS
<1>1. SettingsOf(env, current, bindings) \in Settings
  BY GetTextInit_Inv, NowInSettings
<1>2. seen = {SettingsOf(env, current, bindings)} /\ told = Unasked
  BY DEF GetTextInit
<1>3. Unasked = Abstract!NoAnswer
  BY DEF Unasked, Untranslated, Abstract!NoAnswer
<1> QED
  BY <1>1, <1>2, <1>3, Zenon DEF Abstract!Init

\* Every step is one of the abstract specification, or a stutter.
LEMMA GetTextNext_Abstract ==
  ASSUME Ordinary, Unambiguous, GetTextInv, GetTextInv', [GetTextNext]_getTextVars
  PROVE  [Abstract!Next]_(Abstract!vars)
<1>1. SettingsOf(env, current, bindings)' \in Settings
  <2>1. (SettingsOf(env, current, bindings) \in Settings)'
    BY NowInSettings, PTL
  <2> QED
    BY <2>1
<1>2. CASE UNCHANGED getTextVars
  BY <1>2 DEF getTextVars, Abstract!vars, SettingsOf
<1>3. CASE Setenv
  <2>1. seen' = seen \union {SettingsOf(env, current, bindings)'} /\ told' = told
    BY <1>3 DEF Setenv, SettingsOf
  <2>2. Abstract!Change
    BY <1>1, <2>1, Zenon DEF Abstract!Change
  <2> QED
    BY <2>2 DEF Abstract!Next
<1>4. ASSUME Configured PROVE Abstract!Next
  <2>1. seen' = {SettingsOf(env, current, bindings)'} /\ told' = Abstract!NoAnswer
    BY <1>4 DEF Configured, SettingsOf, Unasked, Untranslated, Abstract!NoAnswer
  <2>2. Abstract!Configure
    BY <1>1, <2>1, Zenon DEF Abstract!Configure
  <2> QED
    BY <2>2 DEF Abstract!Next
<1>5. ASSUME NEW name \in Domains \union {""}, Textdomain(name) PROVE Abstract!Next
  BY <1>4, <1>5 DEF Textdomain
<1>6. ASSUME NEW d \in Domains, NEW dir \in Directories, Bindtextdomain(d, dir)
      PROVE  Abstract!Next
  BY <1>4, <1>6 DEF Bindtextdomain
<1>7. ASSUME NEW q \in Queries, Gettext(q) PROVE Abstract!Next
  <2>1. PICK text : told' = [query |-> q, text |-> text] /\ \E s \in seen : text = Best(s, q)
    BY <1>7, GettextTells
  <2>2. PICK s \in seen : text = Best(s, q)
    BY <2>1
  <2>3. told' = [query |-> q, text |-> Best(s, q)]
    BY <2>1, <2>2
  <2>4. SettingsOf(env, current, bindings)' = SettingsOf(env, current, bindings) /\ seen' = seen
    BY <1>7 DEF Gettext, SettingsOf
  <2>5. Abstract!Ask(q)
    BY <2>3, <2>4 DEF Abstract!Ask
  <2> QED
    BY <2>5 DEF Abstract!Next
<1> QED
  BY <1>2, <1>3, <1>5, <1>6, <1>7 DEF GetTextNext

(***************************************************************************)
(* With ordinary, unambiguous catalogues, however many, for any languages  *)
(* and any bounds: the list of loaded catalogues and the tree of known     *)
(* translations are not to be noticed.  What gettext() returns is what the *)
(* installed files alone call for, for the settings of the moment or for   *)
(* some since the program last called textdomain() or bindtextdomain()     *)
(* (DCIGETTEXT, _nl_find_domain, tfind and tsearch of known translations). *)
(***************************************************************************)
THEOREM TranslationsImplemented ==
  ASSUME Ordinary, Unambiguous
  PROVE  GetTextSpec => ImplementsTranslations
<1>1. GetTextInv /\ GetTextInv' /\ [GetTextNext]_getTextVars => [Abstract!Next]_(Abstract!vars)
  BY GetTextNext_Abstract
<1> QED
  BY <1>1, GetTextInit_Abstract, GetTextInvHolds, PTL
     DEF GetTextSpec, ImplementsTranslations, Abstract!Spec

-----------------------------------------------------------------------------
(* What is loaded with another's rights.                                   *)

\* What is passed over is at most all.
LEMMA SpanIs ==
  ASSUME NEW T, NEW s \in Seq(T), NEW stops
  PROVE  Span(s, stops) \in 0..Len(s)
<1> DEFINE found == {i \in DOMAIN s : s[i] \in stops}
<1>1. Span(s, stops) = IF found = {} THEN Len(s) ELSE Min(found) - 1
  BY DEF Span
<1>2. ASSUME found # {} PROVE Min(found) \in 1..Len(s)
  <2>1. found \in SUBSET Nat /\ found \subseteq 1..Len(s)
    OBVIOUS
  <2> HIDE DEF found
  <2> QED
    BY <1>2, <2>1, LeastIs
<1> HIDE DEF found
<1>3. Len(s) \in Nat
  OBVIOUS
<1> QED
  BY <1>1, <1>2, <1>3

\* What is passed over, and the remainder, have the tokens of the whole.
LEMMA PiecesAre ==
  ASSUME NEW T, NEW s \in Seq(T), NEW stops
  PROVE  Passed(s, stops) \in Seq(T) /\ Remainder(s, stops) \in Seq(T)
<1>1. PICK k : k = Span(s, stops)
  OBVIOUS
<1>2. k \in 0..Len(s)
  BY <1>1, SpanIs
<1>3. SubSeq(s, 1, k) \in Seq(T) /\ SubSeq(s, k + 1, Len(s)) \in Seq(T)
  BY <1>2
<1> QED
  BY <1>1, <1>3 DEF Passed, Remainder

\* The parts of a name consist of what is in the name.
PartNames == {Stages[n].part : n \in DOMAIN Stages}
\* Texts made of these tokens.
TakenFrom(T, parsed) == parsed.text \in [PartNames -> Seq(T)] /\ parsed.rest \in Seq(T)

\* The seven parts behind the language.
LEMMA StagesAre ==
  /\ Len(Stages) = 7 /\ \A n \in 1..7 : Stages[n].part \in PartNames
  /\ {"territory", "codeset", "xpg modifier", "cen modifier", "special", "sponsor", "revision"}
       \subseteq PartNames
<1>1. Len(Stages) = 7 /\ DOMAIN Stages = 1..7
  BY DEF Stages
<1>2. /\ Stages[1].part = "territory" /\ Stages[2].part = "codeset"
      /\ Stages[3].part = "xpg modifier" /\ Stages[4].part = "cen modifier"
      /\ Stages[5].part = "special" /\ Stages[6].part = "sponsor"
      /\ Stages[7].part = "revision"
  BY DEF Stages, Stage
<1>3. \A n \in 1..7 : Stages[n].part \in PartNames
  BY <1>1 DEF PartNames
<1>4. /\ Stages[1].part \in PartNames /\ Stages[2].part \in PartNames
      /\ Stages[3].part \in PartNames /\ Stages[4].part \in PartNames
      /\ Stages[5].part \in PartNames /\ Stages[6].part \in PartNames
      /\ Stages[7].part \in PartNames
  BY <1>3
<1>5. /\ "territory" \in PartNames /\ "codeset" \in PartNames /\ "xpg modifier" \in PartNames
      /\ "cen modifier" \in PartNames /\ "special" \in PartNames /\ "sponsor" \in PartNames
      /\ "revision" \in PartNames
  BY <1>2, <1>4, Zenon
<1> QED
  BY <1>1, <1>3, <1>5

\* Taking a part leaves texts of the same tokens.
LEMMA TakeIs ==
  ASSUME NEW T, NEW parsed, TakenFrom(T, parsed), NEW n \in 1..7,
         Expected(Stages[n], parsed)
  PROVE  TakenFrom(T, Take(parsed, Stages[n]))
<1> DEFINE stage == Stages[n]
           tail == Tail(parsed.rest)
           new == Take(parsed, stage)
<1>1. /\ parsed.text \in [PartNames -> Seq(T)] /\ parsed.rest \in Seq(T)
      /\ stage.part \in PartNames /\ parsed.rest # <<>>
  BY StagesAre DEF TakenFrom, Expected, StartsWith
<1>2. tail \in Seq(T)
  BY <1>1
<1>3. Passed(tail, stage.stops) \in Seq(T) /\ Remainder(tail, stage.stops) \in Seq(T)
  BY <1>2, PiecesAre
<1>4. /\ new.text = [parsed.text EXCEPT ![stage.part] = Passed(tail, stage.stops)]
      /\ new.rest = Remainder(tail, stage.stops)
  BY DEF Take
<1> HIDE DEF new, tail, stage
<1>5. new.text \in [PartNames -> Seq(T)]
  BY <1>1, <1>3, <1>4
<1> QED
  BY <1>3, <1>4, <1>5 DEF TakenFrom, new, stage

\* A name that is taken apart has parts of its own tokens.
LEMMA DissectedIs ==
  ASSUME NEW T, NEW name \in Seq(T)
  PROVE  TakenFrom(T, Dissected(name))
<1> DEFINE step(x, n) == IF Expected(Stages[n], x) THEN Take(x, Stages[n]) ELSE x
           s0 == Whole(name)
           s1 == step(s0, 1)
           s2 == step(s1, 2)
           s3 == step(s2, 3)
           s4 == step(s3, 4)
           s5 == step(s4, 5)
           s6 == step(s5, 6)
           s7 == step(s6, 7)
           f == [n \in 0..7 |-> CASE n = 0 -> s0 [] n = 1 -> s1 [] n = 2 -> s2 [] n = 3 -> s3
                                  [] n = 4 -> s4 [] n = 5 -> s5 [] n = 6 -> s6 [] OTHER -> s7]
           eq(F) == F = [n \in 0..Len(Stages) |->
                           IF n = 0 THEN Whole(name)
                           ELSE IF Expected(Stages[n], F[n - 1]) THEN Take(F[n - 1], Stages[n])
                           ELSE F[n - 1]]
           after == CHOOSE F : eq(F)
<1>1. Dissected(name) = after[7]
  BY StagesAre DEF Dissected
<1>2. eq(f)
  <2>1. \A n \in 0..7 : f[n] = IF n = 0 THEN s0 ELSE step(f[n - 1], n)
    <3> HIDE DEF step, s0
    <3>1. /\ f[0] = s0 /\ f[1] = s1 /\ f[2] = s2 /\ f[3] = s3 /\ f[4] = s4
          /\ f[5] = s5 /\ f[6] = s6 /\ f[7] = s7
      <4> HIDE DEF s1, s2, s3, s4, s5, s6, s7
      <4> QED
        OBVIOUS
    <3>2. /\ f[1] = step(f[0], 1) /\ f[2] = step(f[1], 2) /\ f[3] = step(f[2], 3)
          /\ f[4] = step(f[3], 4) /\ f[5] = step(f[4], 5) /\ f[6] = step(f[5], 6)
          /\ f[7] = step(f[6], 7)
      <4> HIDE DEF f
      <4> QED
        BY <3>1, Zenon
    <3> HIDE DEF f
    <3>3. \A n \in 0..7 : n = 0 \/ n = 1 \/ n = 2 \/ n = 3 \/ n = 4 \/ n = 5 \/ n = 6 \/ n = 7
      OBVIOUS
    <3> QED
      BY <3>1, <3>2, <3>3
  <2>2. f = [n \in 0..7 |-> f[n]]
    <3> HIDE DEF step, s0, s1, s2, s3, s4, s5, s6, s7
    <3> QED
      OBVIOUS
  <2> HIDE DEF f
  <2> QED
    BY <2>1, <2>2, StagesAre
<1>3. eq(after)
  <2> HIDE DEF eq, f
  <2> QED
    BY <1>2
<1> HIDE DEF after, f
<1>4. /\ after[0] = Whole(name)
      /\ \A n \in 0..6 : after[n + 1] = step(after[n], n + 1)
  <2> HIDE DEF step
  <2>1. after = [n \in 0..7 |-> IF n = 0 THEN Whole(name) ELSE step(after[n - 1], n)]
    BY <1>3, StagesAre, Zenon DEF step
  <2>2. \A n \in 0..7 : after[n] = IF n = 0 THEN Whole(name) ELSE step(after[n - 1], n)
    BY <2>1
  <2>3. \A n \in 0..6 : n + 1 \in 0..7 /\ n + 1 # 0 /\ (n + 1) - 1 = n
    OBVIOUS
  <2> QED
    BY <2>2, <2>3
<1>5. TakenFrom(T, after[0])
  <2>1. Whole(name).text = [part \in PartNames |-> <<>>] /\ Whole(name).rest = name
    BY DEF Whole, PartNames
  <2> QED
    BY <1>4, <2>1 DEF TakenFrom
<1>6. ASSUME NEW n \in 0..6, TakenFrom(T, after[n]) PROVE TakenFrom(T, after[n + 1])
  <2>1. n + 1 \in 1..7
    OBVIOUS
  <2> QED
    BY <1>4, <1>6, <2>1, TakeIs
<1>7. TakenFrom(T, after[1]) /\ TakenFrom(T, after[2]) /\ TakenFrom(T, after[3])
  BY <1>5, <1>6
<1>8. TakenFrom(T, after[4]) /\ TakenFrom(T, after[5]) /\ TakenFrom(T, after[6])
  BY <1>6, <1>7
<1>9. TakenFrom(T, after[7])
  BY <1>6, <1>8
<1> QED
  BY <1>1, <1>9

\* The parts of a name are put together of tokens of the set.
MadeOf(U, parts) ==
  /\ parts.language \in Seq(U) /\ parts.territory \in Seq(U) /\ parts.codeset \in Seq(U)
  /\ parts.norm \in Seq(U) /\ parts.modifier \in Seq(U) /\ parts.special \in Seq(U)
  /\ parts.sponsor \in Seq(U) /\ parts.revision \in Seq(U)

\* So have the parts with the normalized codeset.
LEMMA WithNormIs ==
  ASSUME NEW U, NEW language \in Seq(U), NEW parsed, TakenFrom(U, parsed),
         NormalizeCodeset(parsed.text["codeset"]) \in Seq(U)
  PROVE  MadeOf(U, WithNorm(language, parsed))
<1> DEFINE norm == NormalizeCodeset(parsed.text["codeset"])
           parts == WithNorm(language, parsed)
           mask == MaskOf(parsed, norm)
           xpg == Xpg(parsed)
           text == parsed.text
<1>1. parts = [language |-> language, territory |-> text["territory"],
               codeset |-> text["codeset"], norm |-> norm,
               modifier |-> text["xpg modifier"] \o text["cen modifier"],
               special |-> text["special"], sponsor |-> text["sponsor"],
               revision |-> text["revision"], xpg |-> xpg, mask |-> mask]
  BY Zenon DEF WithNorm, PartsOf
<1>2. /\ text["territory"] \in Seq(U) /\ text["codeset"] \in Seq(U)
      /\ text["xpg modifier"] \in Seq(U) /\ text["cen modifier"] \in Seq(U)
      /\ text["special"] \in Seq(U) /\ text["sponsor"] \in Seq(U) /\ text["revision"] \in Seq(U)
  BY StagesAre DEF TakenFrom
<1>3. text["xpg modifier"] \o text["cen modifier"] \in Seq(U)
  <2> HIDE DEF text
  <2> QED
    BY <1>2, AppendedIs
<1>4. norm \in Seq(U)
  OBVIOUS
<1> HIDE DEF norm, parts, mask, xpg, text
<1>5. /\ parts.language = language /\ parts.territory = text["territory"]
      /\ parts.codeset = text["codeset"] /\ parts.norm = norm
      /\ parts.modifier = text["xpg modifier"] \o text["cen modifier"]
      /\ parts.special = text["special"] /\ parts.sponsor = text["sponsor"]
      /\ parts.revision = text["revision"]
  BY <1>1
<1> QED
  BY <1>2, <1>3, <1>4, <1>5, Zenon DEF MadeOf, parts

\* A normalized codeset is one token.
LEMMA NormIs ==
  ASSUME NEW language, NEW parsed
  PROVE  /\ WithNorm(language, parsed).norm = NormalizeCodeset(parsed.text["codeset"])
         /\ \E token : NormalizeCodeset(parsed.text["codeset"]) = <<token>>
<1>1. \E token : NormalizeCodeset(parsed.text["codeset"]) = <<token>>
  BY Zenon DEF NormalizeCodeset
<1> QED
  BY <1>1 DEF WithNorm, PartsOf

\* More tokens.
LEMMA WiderSeq ==
  ASSUME NEW T, NEW U, T \subseteq U
  PROVE  \A s \in Seq(T) : s \in Seq(U)
OBVIOUS

\* A name without directories has parts without any.
LEMMA PlainParts ==
  ASSUME NEW name, name \in Seq(ToSet(name)), ~HasDir(name), ~HasDir(ExplodeName(name).norm)
  PROVE  \E U : /\ "/" \notin U /\ {"_", ".", "@", "+", ","} \subseteq U
                /\ MadeOf(U, ExplodeName(name))
<1> DEFINE ends == {"_", "@", "+", ","}
           U == ToSet(name) \union ToSet(ExplodeName(name).norm) \union {"_", ".", "@", "+", ","}
<1>1. "/" \notin U
  BY DEF HasDir
<1>2. name \in Seq(U)
  <2>1. ToSet(name) \subseteq U
    OBVIOUS
  <2> HIDE DEF U
  <2> QED
    BY <2>1, WiderSeq
<1>3. PICK language, parsed :
        /\ ExplodeName(name) = WithNorm(language, parsed)
        /\ language \in Seq(U) /\ TakenFrom(U, parsed)
  <2> HIDE DEF U
  <2>1. CASE Span(name, ends) = 0
    <3>1. ExplodeName(name) = WithNorm(name, Dissected(<<>>))
      BY <2>1, Zenon DEF ExplodeName
    <3>2. <<>> \in Seq(U)
      OBVIOUS
    <3> QED
      BY <1>2, <3>1, <3>2, DissectedIs, Zenon
  <2>2. CASE Span(name, ends) # 0
    <3>1. ExplodeName(name) = WithNorm(Passed(name, ends), Dissected(Remainder(name, ends)))
      BY <2>2, Zenon DEF ExplodeName
    <3>2. Passed(name, ends) \in Seq(U) /\ Remainder(name, ends) \in Seq(U)
      BY <1>2, PiecesAre, Zenon
    <3> QED
      BY <3>1, <3>2, DissectedIs, Zenon
  <2> QED
    BY <2>1, <2>2
<1>4. NormalizeCodeset(parsed.text["codeset"]) \in Seq(U)
  <2>1. ExplodeName(name).norm = NormalizeCodeset(parsed.text["codeset"])
    BY <1>3, NormIs
  <2>2. PICK token : NormalizeCodeset(parsed.text["codeset"]) = <<token>>
    BY NormIs
  <2>3. ToSet(ExplodeName(name).norm) = {token}
    BY <2>1, <2>2 DEF ToSet
  <2>4. token \in U
    BY <2>3
  <2> HIDE DEF U
  <2> QED
    BY <2>2, <2>4
<1>5. MadeOf(U, ExplodeName(name))
  <2> HIDE DEF U
  <2> QED
    BY <1>3, <1>4, WithNormIs
<1>6. {"_", ".", "@", "+", ","} \subseteq U
  OBVIOUS
<1> QED
  BY <1>1, <1>5, <1>6, Zenon

\* Sequences of one token, and of none.
LEMMA SingleIs ==
  ASSUME NEW U
  PROVE  /\ <<>> \in Seq(U)
         /\ \A token \in U : <<token>> \in Seq(U)
OBVIOUS

\* The directory of a locale has the tokens of its parts, and the separators.
LEMMA LocaleDirIs ==
  ASSUME NEW U, {"_", ".", "@", "+", ","} \subseteq U, NEW parts, MadeOf(U, parts), NEW mask
  PROVE  LocaleDir(parts, mask) \in Seq(U)
<1> DEFINE on(bit, tokens) == IF bit \in mask THEN tokens ELSE <<>>
           sign == IF Audience \in mask THEN "+" ELSE "@"
           p1 == on(Territory, <<"_">> \o parts.territory)
           p2 == on(Codeset, <<".">> \o parts.codeset)
           p3 == on(NormCodeset, <<".">> \o parts.norm)
           p4 == IF mask \intersect {Modifier, Audience} # {} THEN <<sign>> \o parts.modifier
                                                              ELSE <<>>
           p5 == on(Special, <<"+">> \o parts.special)
           p6 == IF mask \intersect {Sponsor, Revision} # {} THEN <<",">> ELSE <<>>
           p7 == on(Sponsor, parts.sponsor)
           p8 == on(Revision, <<"_">> \o parts.revision)
<1>1. LocaleDir(parts, mask)
        = parts.language \o p1 \o p2 \o p3 \o p4 \o p5 \o p6 \o p7 \o p8
  BY Zenon DEF LocaleDir
<1>2. ASSUME NEW s \in Seq(U), NEW token \in U
      PROVE  <<token>> \o s \in Seq(U) /\ <<token>> \in Seq(U) /\ <<>> \in Seq(U)
  <2>1. <<token>> \in Seq(U) /\ <<>> \in Seq(U)
    BY SingleIs, Zenon
  <2> QED
    BY <2>1, AppendedIs
<1>3. /\ "_" \in U /\ "." \in U /\ "+" \in U /\ "," \in U /\ sign \in U
  OBVIOUS
<1>4. /\ parts.language \in Seq(U) /\ parts.territory \in Seq(U) /\ parts.codeset \in Seq(U)
      /\ parts.norm \in Seq(U) /\ parts.modifier \in Seq(U) /\ parts.special \in Seq(U)
      /\ parts.sponsor \in Seq(U) /\ parts.revision \in Seq(U)
  BY DEF MadeOf
<1> HIDE DEF sign
<1>5. /\ <<"_">> \o parts.territory \in Seq(U) /\ <<".">> \o parts.codeset \in Seq(U)
      /\ <<".">> \o parts.norm \in Seq(U) /\ <<sign>> \o parts.modifier \in Seq(U)
      /\ <<"+">> \o parts.special \in Seq(U) /\ <<",">> \in Seq(U)
      /\ <<"_">> \o parts.revision \in Seq(U) /\ <<>> \in Seq(U)
  BY <1>2, <1>3, <1>4, Zenon
<1>6. /\ p1 \in Seq(U) /\ p2 \in Seq(U) /\ p3 \in Seq(U) /\ p4 \in Seq(U) /\ p5 \in Seq(U)
      /\ p6 \in Seq(U) /\ p7 \in Seq(U) /\ p8 \in Seq(U)
  BY <1>4, <1>5, Zenon
<1>7. \A s, t \in Seq(U) : s \o t \in Seq(U)
  BY AppendedIs
<1> HIDE DEF p1, p2, p3, p4, p5, p6, p7, p8
<1>8. parts.language \o p1 \o p2 \o p3 \o p4 \in Seq(U)
  BY <1>4, <1>6, <1>7, Zenon
<1>9. parts.language \o p1 \o p2 \o p3 \o p4 \o p5 \o p6 \o p7 \o p8 \in Seq(U)
  BY <1>6, <1>7, <1>8, Zenon
<1> QED
  BY <1>1, <1>9

\* A path has just two slashes behind the directory that it begins with.
LEMMA TwoSlashes ==
  ASSUME NEW D, NEW dir \in Seq(D), NEW U, NEW w \in Seq(U), "/" \notin U, NEW mofile, mofile # "/",
         NEW path, path = (dir \o <<"/">>) \o w \o <<"/", mofile>>
  PROVE  JustBelow(dir, path)
<1> DEFINE V == D \union U \union {"/", mofile}
           a == Len(dir)
           b == Len(w)
           dir1 == dir \o <<"/">>
           dir2 == dir1 \o w
           end == <<"/", mofile>>
           slashes == {i \in DOMAIN path : i > a /\ path[i] = "/"}
<1>1. dir \in Seq(V) /\ w \in Seq(V) /\ <<"/">> \in Seq(V) /\ end \in Seq(V)
  OBVIOUS
<1>2. a \in Nat /\ b \in Nat /\ \A i \in 1..b : w[i] # "/"
  OBVIOUS
<1>3. /\ Len(<<"/">>) = 1 /\ <<"/">>[1] = "/" /\ Len(end) = 2 /\ end[1] = "/" /\ end[2] = mofile
  OBVIOUS
<1> DEFINE c == a + 1
           e == c + b
<1> HIDE DEF V, end, a, b, dir1, dir2
<1>4. c \in Nat /\ e \in Nat /\ c = a + 1 /\ e = c + b
  BY <1>2
<1> HIDE DEF c, e
<1>5. Joined(dir1, V, dir, a, <<"/">>, 1)
  BY <1>1, <1>3, JoinedIs DEF a, dir1
<1>6. dir1 \in Seq(V) /\ Len(dir1) = c /\ (\A k \in 1..a : dir1[k] = dir[k]) /\ dir1[c] = "/"
  <2>1. 1 \in 1..1
    OBVIOUS
  <2> QED
    BY <1>3, <1>4, <1>5, <2>1 DEF Joined
<1>7. Joined(dir2, V, dir1, c, w, b)
  BY <1>1, <1>6, JoinedIs DEF b, dir2
<1>8. /\ dir2 \in Seq(V) /\ Len(dir2) = e
      /\ \A k \in 1..c : dir2[k] = dir1[k]
      /\ \A k \in 1..b : dir2[c + k] = w[k]
  BY <1>4, <1>7 DEF Joined
<1>9. path = dir2 \o end
  BY DEF dir2, dir1, end
<1>10. Joined(path, V, dir2, e, end, 2)
  <2>1. Joined(dir2 \o end, V, dir2, e, end, 2)
    BY <1>1, <1>3, <1>8, JoinedIs
  <2> QED
    BY <1>9, <2>1, Zenon
<1>11. /\ path \in Seq(V) /\ Len(path) = e + 2 /\ \A k \in 1..e : path[k] = dir2[k]
       /\ path[e + 1] = "/" /\ path[e + 2] = mofile
  <2>1. 1 \in 1..2 /\ 2 \in 1..2
    OBVIOUS
  <2> QED
    BY <1>3, <1>10, <2>1 DEF Joined
<1>12. DOMAIN path = 1..(e + 2)
  BY <1>4, <1>11
<1>13. \A k \in 1..a : path[k] = dir[k]
  <2> SUFFICES ASSUME NEW k \in 1..a PROVE path[k] = dir[k]
    OBVIOUS
  <2>1. k \in 1..c /\ k \in 1..e
    BY <1>2, <1>4
  <2> QED
    BY <1>6, <1>8, <1>11, <2>1
<1>14. path[c] = "/"
  <2>1. c \in 1..c /\ c \in 1..e
    BY <1>2, <1>4
  <2> QED
    BY <1>6, <1>8, <1>11, <2>1
<1>15. \A k \in 1..b : path[c + k] = w[k]
  <2> SUFFICES ASSUME NEW k \in 1..b PROVE path[c + k] = w[k]
    OBVIOUS
  <2>1. c + k \in 1..e
    BY <1>2, <1>4
  <2> QED
    BY <1>8, <1>11, <2>1
<1>16. IsPrefix(dir, path)
  <2>1. Len(dir) = a /\ a <= Len(path)
    BY <1>2, <1>4, <1>11 DEF a
  <2>2. SubSeq(dir, 1, a) = SubSeq(path, 1, a)
    BY <1>1, <1>2, <1>11, <1>13, <2>1
  <2> QED
    BY <2>1, <2>2 DEF IsPrefix
<1>17. slashes = {c, e + 1}
  <2>1. ASSUME NEW i \in slashes PROVE i \in {c, e + 1}
    <3>1. i \in 1..(e + 2) /\ i > a /\ path[i] = "/"
      BY <1>12
    <3>2. i = c \/ i = e + 1 \/ i = e + 2 \/ (i - c \in 1..b /\ c + (i - c) = i)
      <4>1. i \in Nat /\ i >= c /\ i <= e + 2
        BY <1>2, <1>4, <3>1
      <4> QED
        BY <1>2, <1>4, <4>1
    <3>3. i # e + 2
      BY <1>11, <3>1
    <3>4. ~(i - c \in 1..b /\ c + (i - c) = i)
      <4> SUFFICES ASSUME i - c \in 1..b, c + (i - c) = i PROVE FALSE
        OBVIOUS
      <4>1. path[c + (i - c)] = w[i - c] /\ w[i - c] # "/"
        BY <1>2, <1>15
      <4> QED
        BY <3>1, <4>1
    <3> QED
      BY <3>2, <3>3, <3>4
  <2>2. c \in slashes /\ e + 1 \in slashes
    <3>1. c \in 1..(e + 2) /\ c > a /\ e + 1 \in 1..(e + 2) /\ e + 1 > a
      BY <1>2, <1>4
    <3> QED
      BY <1>11, <1>12, <1>14, <3>1
  <2> HIDE DEF slashes
  <2> QED
    BY <2>1, <2>2
<1>18. Cardinality({c, e + 1}) = 2
  <2>1. e + 1 \in Nat /\ c < e + 1
    BY <1>2, <1>4
  <2> QED
    BY <1>4, <2>1, TwoInOrder
<1> QED
  BY <1>16, <1>17, <1>18 DEF a, JustBelow

\* A directory is a sequence.
LEMMA DirIsSeq ==
  ASSUME NEW dir \in Dirs
  PROVE  \E D : dir \in Seq(D)
<1>1. CASE dir \in {DefaultDir} \union Directories
  BY <1>1, SequencesAssumption, Zenon
<1>2. CASE dir \notin {DefaultDir} \union Directories
  <2>1. PICK e \in Environments, d \in Directories : dir = e.cwd \o <<"/">> \o d
    BY <1>2 DEF Dirs
  <2>2. e.cwd \in Seq(ToSet(e.cwd)) /\ d \in Seq(ToSet(d))
    BY SequencesAssumption
  <2> DEFINE x == e.cwd
             X == ToSet(x)
             Y == ToSet(d)
             Z == X \union Y \union {"/"}
  <2> HIDE DEF x, X, Y
  <2>3. x \in Seq(Z) /\ d \in Seq(Z) /\ <<"/">> \in Seq(Z)
    BY <2>2 DEF x, X, Y
  <2> HIDE DEF Z
  <2>4. x \o <<"/">> \o d \in Seq(Z)
    BY <2>3, AppendedIs
  <2> QED
    BY <2>1, <2>4 DEF x
<1> QED
  BY <1>1, <1>2

\* A name without directories leads to files below the directory it is looked for in.
LEMMA OwnPath ==
  ASSUME PlainNames, NEW dir \in Dirs, NEW l \in Names, ~HasDir(l), NEW mofile \in FileNames, NEW m
  PROVE  JustBelow(dir, FileName(dir, Exploded(l), m, mofile))
<1> DEFINE name == IF l \in DOMAIN Aliases THEN Aliases[l] ELSE l
           parts == Exploded(l)
           path == FileName(dir, parts, m, mofile)
           w == LocaleDir(parts, m)
<1>1. parts = ExplodeName(name)
  BY DEF Exploded
<1>2. name \in Seq(ToSet(name)) /\ ~HasDir(name)
  <2>1. CASE l \in DOMAIN Aliases
    <3>1. Aliases[l] \in Seq(ToSet(Aliases[l])) /\ ~HasDir(Aliases[l])
      BY <2>1, SequencesAssumption DEF PlainNames
    <3> QED
      BY <2>1, <3>1
  <2>2. CASE l \notin DOMAIN Aliases
    BY <2>2, SequencesAssumption
  <2> QED
    BY <2>1, <2>2
<1>3. ~HasDir(parts.norm) /\ mofile # "/"
  BY DEF PlainNames
<1> HIDE DEF name, parts
<1>4. PICK U : "/" \notin U /\ {"_", ".", "@", "+", ","} \subseteq U /\ MadeOf(U, parts)
  BY <1>1, <1>2, <1>3, PlainParts
<1>5. w \in Seq(U)
  BY <1>4, LocaleDirIs
<1>6. ~StartsWith(parts.language, "/")
  <2>1. parts.language \in Seq(U)
    BY <1>4 DEF MadeOf
  <2>2. parts.language # <<>> => Head(parts.language) \in U
    BY <2>1
  <2> QED
    BY <1>4, <2>2, Zenon DEF StartsWith
<1>7. path = (dir \o <<"/">>) \o w \o <<"/", mofile>>
  BY <1>6 DEF FileName
<1>8. PICK D : dir \in Seq(D)
  BY DirIsSeq
<1> HIDE DEF path, w
<1>9. JustBelow(dir, path)
  <2>1. "/" \notin U
    BY <1>4
  <2> QED
    BY <1>3, <1>5, <1>7, <1>8, <2>1, TwoSlashes
<1> QED
  BY <1>9 DEF path, parts

\* The origins of the entries are below the directories.
LEMMA InvOwnCatalogs ==
  ASSUME PlainNames, GetTextInv
  PROVE  OwnCatalogs
<1> SUFFICES ASSUME secure, NEW path \in DOMAIN loaded
             PROVE  \E dir \in Dirs : JustBelow(dir, path)
  BY DEF OwnCatalogs
<1>1. HasOrigin(path, loaded[path].successors, secure)
  BY EveryOrigin DEF GetTextInv
<1>2. PICK dir \in Dirs, l \in Names, mofile \in FileNames : \E m :
        Origin(path, loaded[path].successors, secure, dir, l, mofile, m)
  BY <1>1, Zenon DEF HasOrigin
<1>3. PICK m : Origin(path, loaded[path].successors, secure, dir, l, mofile, m)
  BY <1>2
<1>4. ~HasDir(l) /\ path = FileName(dir, Exploded(l), m, mofile)
  BY <1>3, Zenon DEF Origin
<1> QED
  BY <1>4, OwnPath

(***************************************************************************)
(* In a program with another's rights, whatever the environment asks for   *)
(* and in whatever order: each catalogue that is loaded lies just below    *)
(* the default directory or one that the program has bound (DCIGETTEXT's   *)
(* ENABLE_SECURE, _nl_explode_name, _nl_make_l10nflist).                   *)
(***************************************************************************)
THEOREM CatalogsAreOwn ==
  ASSUME PlainNames
  PROVE  GetTextSpec => []OwnCatalogs
<1>1. GetTextInv => OwnCatalogs
  BY InvOwnCatalogs
<1> QED
  BY <1>1, GetTextInvHolds, PTL
=============================================================================
