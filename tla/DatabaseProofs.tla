--------------------------- MODULE DatabaseProofs ---------------------------
(***************************************************************************)
(* Proofs about hddtemp.db and the descriptors it is read through.         *)
(*                                                                         *)
(* Of Database, for files of any length with any lines, any regular        *)
(* expressions and any models: what the list says of a line does not       *)
(* depend on its neighbours, and the table of the list is aligned.  A line *)
(* is followed through parse_db_line by the places its parts are at; that  *)
(* those are what the manual page means is shown apart from it.            *)
(*                                                                         *)
(* Of Descriptors, for any number of drives, addresses and descriptors, of *)
(* a program that is started with its three standard descriptors open: no  *)
(* number that a variable holds is ever open on anything but what the      *)
(* variable is for, and the loop leaks nothing.                            *)
(***************************************************************************)
EXTENDS Database, Descriptors, BasicLemmas

-----------------------------------------------------------------------------
(* Characters in the buffer.                                               *)

\* A buffer of n characters.
IsBuffer(b, n) == n \in Nat /\ b = [k \in 1..n |-> b[k]]

LEMMA BufferIs ==
    ASSUME NEW b, NEW n, IsBuffer(b, n)
    PROVE  n \in Nat /\ b \in Seq({b[k] : k \in 1..n}) /\ Len(b) = n /\ DOMAIN b = 1..n
<1>1. n \in Nat /\ b = [k \in 1..n |-> b[k]]
  BY Zenon DEF IsBuffer
<1> QED
  BY <1>1, SequenceOfFunction

\* The characters behind the buffer are NUL.
LEMMA AtIs ==
    ASSUME NEW b, NEW n, IsBuffer(b, n)
    PROVE  /\ \A i \in 1..n : At(b, i) = b[i]
           /\ \A i \in Int : ~(i \in 1..n) => At(b, i) = NUL
<1>1. n \in Nat /\ DOMAIN b = 1..n
  BY BufferIs
<1> QED
  BY <1>1 DEF At

LEMMA CutIs ==
    ASSUME NEW b, NEW n, IsBuffer(b, n), NEW p
    PROVE  /\ IsBuffer(Cut(b, p), n)
           /\ p \in 1..n => Cut(b, p)[p] = NUL
           /\ \A k \in 1..n : k # p => Cut(b, p)[k] = b[k]
<1>1. n \in Nat /\ DOMAIN b = 1..n
  BY BufferIs
<1>2. CASE p \in 1..n
  <2>1. Cut(b, p) = [b EXCEPT ![p] = NUL]
    BY <1>1, <1>2, Zenon DEF Cut
  <2>2. Cut(b, p) = [k \in 1..n |-> IF k = p THEN NUL ELSE b[k]]
    BY <1>1, <2>1
  <2>3. \A k \in 1..n : Cut(b, p)[k] = IF k = p THEN NUL ELSE b[k]
    BY <2>2
  <2>4. Cut(b, p) = [k \in 1..n |-> Cut(b, p)[k]]
    BY <2>2
  <2> QED
    BY <1>1, <1>2, <2>3, <2>4 DEF IsBuffer
<1>3. CASE ~(p \in 1..n)
  <2>1. Cut(b, p) = b
    BY <1>1, <1>3, Zenon DEF Cut
  <2> QED
    BY <1>3, <2>1
<1> QED
  BY <1>2, <1>3

\* A string up to its NUL.
LEMMA StringIs ==
    ASSUME NEW b, NEW n, IsBuffer(b, n), NEW i \in 1..(n + 1), NEW z \in i..(n + 1),
           At(b, z) = NUL, \A k \in i..(z - 1) : b[k] # NUL
    PROVE  String(b, i) = SubSeq(b, i, z - 1)
<1>1. n \in Nat /\ Len(b) = n
  BY BufferIs
<1>2. \A k \in i..(z - 1) : k \in 1..n
  BY <1>1
<1> DEFINE Is(j) == At(b, j) = NUL /\ \A k \in i..(j - 1) : b[k] # NUL
<1>3. z \in i..(Len(b) + 1) /\ Is(z)
  BY <1>1
<1>4. ASSUME NEW j \in i..(Len(b) + 1), Is(j) PROVE j = z
  <2>1. ~(j < z)
    <3>1. ASSUME j < z PROVE FALSE
      <4>1. j \in i..(z - 1) /\ j \in 1..n
        BY <1>1, <3>1
      <4>2. b[j] # NUL /\ At(b, j) = b[j]
        BY <4>1, AtIs
      <4> QED
        BY <1>4, <4>2
    <3> QED
      BY <3>1
  <2>2. ~(z < j)
    <3>1. ASSUME z < j PROVE FALSE
      <4>1. z \in i..(j - 1) /\ z \in 1..n
        BY <1>1, <3>1
      <4>2. b[z] # NUL
        BY <1>4, <4>1
      <4>3. At(b, z) = b[z]
        BY <4>1, AtIs
      <4> QED
        BY <4>2, <4>3
    <3> QED
      BY <3>1
  <2> QED
    BY <1>1, <2>1, <2>2
<1>5. (CHOOSE j \in i..(Len(b) + 1) : Is(j)) = z
  <2> HIDE DEF Is
  <2> QED
    BY <1>3, <1>4
<1> QED
  BY <1>5, Zenon DEF String

\* There is a string wherever one is asked for.
LEMMA StringLength ==
    ASSUME NEW b, NEW n, IsBuffer(b, n), NEW i \in 1..(n + 1)
    PROVE  Len(String(b, i)) \in Nat
<1>1. n \in Nat /\ Len(b) = n
  BY BufferIs
<1> DEFINE T == {j \in i..(n + 1) : At(b, j) = NUL}
<1>2. n + 1 \in T
  <2>1. n + 1 \in i..(n + 1) /\ n + 1 \in Int /\ ~(n + 1 \in 1..n)
    BY <1>1
  <2> QED
    BY <2>1, AtIs
<1>3. PICK z \in T : \A j \in T : z <= j
  <2>1. T \subseteq Nat /\ T # {}
    BY <1>1, <1>2
  <2> HIDE DEF T
  <2> QED
    BY <2>1, LeastOf
<1>4. ASSUME NEW k \in i..(z - 1) PROVE b[k] # NUL
  <2>1. k \in 1..n /\ k \notin T /\ k \in i..(n + 1)
    BY <1>1, <1>3
  <2>2. At(b, k) = b[k]
    BY <2>1, AtIs
  <2> QED
    BY <2>1, <2>2
<1>5. String(b, i) = SubSeq(b, i, z - 1)
  BY <1>3, <1>4, StringIs
<1>6. z - 1 \in Int /\ i \in Int /\ b \in Seq({b[k] : k \in 1..n}) /\ z - 1 <= n /\ i >= 1
  BY <1>1, BufferIs
<1>7. SubSeq(b, i, z - 1) \in Seq({b[k] : k \in 1..n})
  BY <1>1, <1>6
<1> QED
  BY <1>5, <1>7

\* The blanks that are skipped.
LEMMA SkipIs ==
    ASSUME NEW b, NEW n, IsBuffer(b, n), NEW i \in 1..(n + 1), NEW j \in i..(n + 1),
           At(b, j) # BLANK, \A k \in i..(j - 1) : b[k] = BLANK
    PROVE  SkipBlanks(b, i) = j
<1>1. n \in Nat /\ Len(b) = n
  BY BufferIs
<1> DEFINE Is(z) == At(b, z) # BLANK /\ \A k \in i..(z - 1) : b[k] = BLANK
<1>2. j \in i..(Len(b) + 1) /\ Is(j)
  BY <1>1
<1>3. ASSUME NEW z \in i..(Len(b) + 1), Is(z) PROVE z = j
  <2>1. ASSUME z < j PROVE FALSE
    <3>1. z \in i..(j - 1) /\ z \in 1..n
      BY <1>1, <2>1
    <3>2. b[z] = BLANK /\ At(b, z) = b[z]
      BY <3>1, AtIs
    <3> QED
      BY <1>3, <3>2
  <2>2. ASSUME j < z PROVE FALSE
    <3>1. j \in i..(z - 1) /\ j \in 1..n
      BY <1>1, <2>2
    <3>2. b[j] = BLANK
      BY <1>3, <3>1
    <3>3. At(b, j) = b[j]
      BY <3>1, AtIs
    <3> QED
      BY <3>2, <3>3
  <2> QED
    BY <1>1, <2>1, <2>2
<1>4. (CHOOSE z \in i..(Len(b) + 1) : Is(z)) = j
  <2> HIDE DEF Is
  <2> QED
    BY <1>2, <1>3
<1> QED
  BY <1>4, Zenon DEF SkipBlanks

\* Behind them is something else, at the latest behind the buffer.
LEMMA SkipStops ==
    ASSUME NEW b, NEW n, IsBuffer(b, n), NEW i \in 1..(n + 1)
    PROVE  /\ SkipBlanks(b, i) \in i..(n + 1)
           /\ At(b, SkipBlanks(b, i)) # BLANK
           /\ \A k \in i..(SkipBlanks(b, i) - 1) : b[k] = BLANK
<1>1. n \in Nat /\ Len(b) = n
  BY BufferIs
<1> DEFINE T == {j \in i..(n + 1) : At(b, j) # BLANK}
<1>2. n + 1 \in T
  <2>1. n + 1 \in i..(n + 1) /\ n + 1 \in Int /\ ~(n + 1 \in 1..n)
    BY <1>1
  <2>2. At(b, n + 1) = NUL
    BY <2>1, AtIs
  <2> QED
    BY <2>1, <2>2 DEF NUL, BLANK
<1>3. PICK z \in T : \A j \in T : z <= j
  <2>1. T \subseteq Nat /\ T # {}
    BY <1>1, <1>2
  <2> HIDE DEF T
  <2> QED
    BY <2>1, LeastOf
<1>4. ASSUME NEW k \in i..(z - 1) PROVE b[k] = BLANK
  <2>1. k \in 1..n /\ k \notin T /\ k \in i..(n + 1)
    BY <1>1, <1>3
  <2>2. At(b, k) = b[k]
    BY <2>1, AtIs
  <2> QED
    BY <2>1, <2>2
<1>5. SkipBlanks(b, i) = z
  BY <1>3, <1>4, SkipIs
<1> QED
  BY <1>3, <1>4, <1>5

-----------------------------------------------------------------------------
(* extract_string.                                                         *)

LEMMA TakenIs ==
    ASSUME NEW b, NEW i
    PROVE  /\ Taken(b, i) \in [Nat -> BOOLEAN]
           /\ Taken(b, i)[0] = FALSE
           /\ \A n \in Nat : Taken(b, i)[n + 1] <=> (At(b, i + n) = ESCAPE /\ ~Taken(b, i)[n])
<1> DEFINE g == [x \in Nat \X BOOLEAN |-> At(b, i + x[1]) = ESCAPE /\ ~x[2]]
           Is(f) == f = [n \in Nat |-> IF n = 0 THEN FALSE
                                       ELSE At(b, i + (n - 1)) = ESCAPE /\ ~f[n - 1]]
<1>1. g \in [Nat \X BOOLEAN -> BOOLEAN]
  OBVIOUS
<1> HIDE DEF g
<1>2. PICK f \in [Nat -> BOOLEAN] : Recurs(f, FALSE, g)
  BY <1>1, Recursion
<1>3. \A n \in Nat : f[n + 1] = (At(b, i + n) = ESCAPE /\ ~f[n])
  <2>1. ASSUME NEW n \in Nat PROVE f[n + 1] = (At(b, i + n) = ESCAPE /\ ~f[n])
    <3>1. f[n + 1] = g[<<n, f[n]>>]
      BY <1>2, Zenon DEF Recurs
    <3>2. <<n, f[n]>> \in Nat \X BOOLEAN
      BY <1>2
    <3>3. g[<<n, f[n]>>] = (At(b, i + n) = ESCAPE /\ ~f[n])
      BY <3>2 DEF g
    <3> QED
      BY <3>1, <3>3, Zenon
  <2> QED
    BY <2>1, Zenon
<1>4. f[0] = FALSE
  BY <1>2, Zenon DEF Recurs
<1>5. Is(f)
  <2>1. ASSUME NEW n \in Nat
        PROVE  f[n] = IF n = 0 THEN FALSE ELSE At(b, i + (n - 1)) = ESCAPE /\ ~f[n - 1]
    <3>1. CASE n = 0
      BY <1>4, <3>1, Zenon
    <3>2. CASE n # 0
      <4>1. n - 1 \in Nat /\ (n - 1) + 1 = n
        BY <3>2
      <4> QED
        BY <1>3, <3>2, <4>1, Zenon
    <3> QED
      BY <3>1, <3>2, Zenon
  <2>2. f = [n \in Nat |-> f[n]]
    BY <1>2, Zenon
  <2> QED
    BY <2>1, <2>2, Zenon
<1>6. Taken(b, i) = CHOOSE t : Is(t)
  BY Zenon DEF Taken
<1>7. Is(Taken(b, i))
  <2> HIDE DEF Is
  <2> QED
    BY <1>5, <1>6, Zenon
<1> DEFINE t == Taken(b, i)
<1>8. \A n \in Nat : t[n] = IF n = 0 THEN FALSE ELSE At(b, i + (n - 1)) = ESCAPE /\ ~t[n - 1]
  BY <1>7, Zenon
<1>9. t \in [Nat -> BOOLEAN]
  <2>1. \A n \in Nat : t[n] \in BOOLEAN
    <3>1. ASSUME NEW n \in Nat PROVE t[n] \in BOOLEAN
      <4>1. CASE n = 0
        BY <1>8, <4>1, Zenon
      <4>2. CASE n # 0
        <5>1. t[n] = (At(b, i + (n - 1)) = ESCAPE /\ ~t[n - 1])
          BY <1>8, <4>2, Zenon
        <5> QED
          BY <5>1, Zenon
      <4> QED
        BY <4>1, <4>2, Zenon
    <3> QED
      BY <3>1, Zenon
  <2>2. t = [n \in Nat |-> t[n]]
    BY <1>7, <1>8, Zenon
  <2> QED
    BY <2>1, <2>2, Zenon
<1>10. t[0] = FALSE
  BY <1>8, Zenon
<1>11. ASSUME NEW n \in Nat PROVE t[n + 1] <=> (At(b, i + n) = ESCAPE /\ ~t[n])
  <2>1. n + 1 \in Nat /\ n + 1 # 0 /\ (n + 1) - 1 = n
    OBVIOUS
  <2>2. t[n + 1] = (At(b, i + ((n + 1) - 1)) = ESCAPE /\ ~t[(n + 1) - 1])
    BY <1>8, <2>1, Zenon
  <2> QED
    BY <2>1, <2>2, Zenon
<1> QED
  BY <1>9, <1>10, <1>11, Zenon

\* str stops in the buffer or behind it, and the string ends at its quote.
LEMMA ScanStops ==
    ASSUME NEW b, NEW n, IsBuffer(b, n), NEW i \in 1..(n + 1)
    PROVE  /\ Stops(b, i) \subseteq Nat /\ Stops(b, i) # {}
           /\ Scan(b, i) = NULL \/ (Scan(b, i) \in i..n /\ b[Scan(b, i)] = QUOTE)
<1>1. n \in Nat /\ Len(b) = n
  BY BufferIs
<1>2. At(b, n + 1) = NUL /\ At(b, n + 2) = NUL
  <2>1. n + 1 \in Int /\ ~(n + 1 \in 1..n) /\ n + 2 \in Int /\ ~(n + 2 \in 1..n)
    BY <1>1
  <2> QED
    BY <2>1, AtIs
<1>3. Stops(b, i) \subseteq i..(n + 2) /\ \A j \in Stops(b, i) : At(b, j) \in {NUL, QUOTE}
  BY <1>1 DEF Stops
<1>4. n + 1 \in Stops(b, i) \/ n + 2 \in Stops(b, i)
  <2>1. PICK k \in Nat : k = n + 1 - i
    BY <1>1
  <2>2. Taken(b, i)[k + 1] <=> (At(b, i + k) = ESCAPE /\ ~Taken(b, i)[k])
    BY TakenIs, Zenon
  <2>3. i + k = n + 1 /\ (n + 1) - i = k /\ (n + 2) - i = k + 1
    BY <1>1, <2>1
  <2>4. ~Taken(b, i)[k + 1]
    BY <1>2, <2>2, <2>3 DEF NUL, ESCAPE
  <2>5. n + 2 \in i..(Len(b) + 2)
    BY <1>1
  <2>6. ~Taken(b, i)[(n + 2) - i]
    BY <2>3, <2>4, Zenon
  <2> QED
    BY <1>2, <2>5, <2>6, Zenon DEF Stops
<1>5. Stops(b, i) \subseteq Nat /\ Stops(b, i) # {}
  BY <1>1, <1>3, <1>4
<1>6. Min(Stops(b, i)) \in Stops(b, i)
  <2>1. PICK j \in Stops(b, i) : \A k \in Stops(b, i) : j <= k
    BY <1>5, LeastOf
  <2> QED
    BY <2>1 DEF Min
<1>7. ASSUME At(b, Min(Stops(b, i))) = QUOTE
      PROVE  Min(Stops(b, i)) \in i..n /\ b[Min(Stops(b, i))] = QUOTE
  <2>1. PICK j \in i..(n + 2) : j = Min(Stops(b, i))
    BY <1>3, <1>6
  <2>2. j \in Int /\ At(b, j) # NUL
    <3>1. At(b, j) = QUOTE
      BY <1>7, <2>1, Zenon
    <3>2. j \in Int
      BY <1>1
    <3>3. NUL # QUOTE
      BY DEF NUL, QUOTE
    <3> QED
      BY <3>1, <3>2, <3>3, Zenon
  <2>3. j \in 1..n
    BY <2>2, AtIs
  <2>4. At(b, j) = b[j]
    BY <2>3, AtIs
  <2> QED
    BY <1>1, <1>7, <2>1, <2>3, <2>4
<1> QED
  BY <1>5, <1>7 DEF Scan

-----------------------------------------------------------------------------
(* A line in the buffer.                                                   *)

\* From its character f on, a line of m characters lies behind o others, with a
\* NUL behind it.
Lies(b, n, o, line, m, f) ==
    /\ IsBuffer(b, n) /\ IsBuffer(line, m)
    /\ o \in Nat /\ o + (m + 1) <= n
    /\ f \in 1..(m + 1)
    /\ \A k \in f..m : b[o + k] = line[k]
    /\ b[o + (m + 1)] = NUL
    /\ \A k \in 1..m : line[k] # NUL

LEMMA LiesAt ==
    ASSUME NEW b, NEW n, NEW o, NEW line, NEW m, NEW f, Lies(b, n, o, line, m, f)
    PROVE  /\ n \in Nat /\ m \in Nat /\ o \in Nat /\ f \in 1..(m + 1)
           /\ \A k \in f..(m + 1) : o + k \in 1..n
           /\ \A k \in f..m : At(b, o + k) = line[k] /\ line[k] # NUL
           /\ At(b, o + (m + 1)) = NUL
<1>1. IsBuffer(b, n) /\ IsBuffer(line, m) /\ n \in Nat /\ m \in Nat
  BY BufferIs, Zenon DEF Lies
<1>2. /\ o \in Nat /\ o + (m + 1) <= n
      /\ f \in 1..(m + 1)
      /\ \A k \in f..m : b[o + k] = line[k]
      /\ b[o + (m + 1)] = NUL
      /\ \A k \in 1..m : line[k] # NUL
  BY Zenon DEF Lies
<1>3. \A k \in f..(m + 1) : o + k \in 1..n
  BY <1>1, <1>2
<1>4. \A k \in f..(m + 1) : At(b, o + k) = b[o + k]
  BY <1>1, <1>3, AtIs
<1>5. \A k \in f..m : k \in f..(m + 1) /\ k \in 1..m
  BY <1>1, <1>2
<1>6. m + 1 \in f..(m + 1)
  BY <1>1, <1>2
<1> QED
  BY <1>1, <1>2, <1>3, <1>4, <1>5, <1>6, Zenon

\* It still does with a character before its f cut out.
LEMMA LiesFurther ==
    ASSUME NEW b, NEW n, NEW o, NEW line, NEW m, NEW f, Lies(b, n, o, line, m, f),
           NEW q \in f..m
    PROVE  /\ Lies(Cut(b, o + q), n, o, line, m, q + 1)
           /\ \A c \in f..q : String(Cut(b, o + q), o + c) = SubSeq(line, c, q - 1)
<1> DEFINE d == Cut(b, o + q)
<1>1. /\ n \in Nat /\ m \in Nat /\ o \in Nat /\ f \in 1..(m + 1)
      /\ \A k \in f..(m + 1) : o + k \in 1..n
  BY LiesAt, Zenon
<1>2. /\ IsBuffer(b, n) /\ IsBuffer(line, m)
      /\ \A k \in f..m : b[o + k] = line[k]
      /\ b[o + (m + 1)] = NUL
      /\ \A k \in 1..m : line[k] # NUL
      /\ o + (m + 1) <= n
  BY Zenon DEF Lies
<1>3. /\ IsBuffer(d, n)
      /\ o + q \in 1..n => d[o + q] = NUL
      /\ \A k \in 1..n : k # o + q => d[k] = b[k]
  BY <1>2, CutIs
<1> HIDE DEF d
<1>4. o + q \in 1..n /\ d[o + q] = NUL
  BY <1>1, <1>3
<1>5. \A k \in f..(m + 1) : k # q => d[o + k] = b[o + k]
  BY <1>1, <1>3
<1>6. Lies(d, n, o, line, m, q + 1)
  <2>1. q + 1 \in 1..(m + 1)
    BY <1>1
  <2>2. \A k \in (q + 1)..m : d[o + k] = line[k]
    <3>1. \A k \in (q + 1)..m : k \in f..(m + 1) /\ k \in f..m /\ k # q
      BY <1>1
    <3> QED
      BY <1>2, <1>5, <3>1, Zenon
  <2>3. d[o + (m + 1)] = NUL
    <3>1. m + 1 \in f..(m + 1) /\ m + 1 # q
      BY <1>1
    <3> QED
      BY <1>2, <1>5, <3>1, Zenon
  <2> QED
    BY <1>1, <1>2, <1>3, <2>1, <2>2, <2>3, Zenon DEF Lies
<1>7. ASSUME NEW c \in f..q PROVE String(d, o + c) = SubSeq(line, c, q - 1)
  <2>1. /\ o + c \in 1..(n + 1) /\ o + q \in (o + c)..(n + 1)
    BY <1>1, <1>4
  <2>2. At(d, o + q) = NUL
    BY <1>3, <1>4, AtIs
  <2>3. \A k \in c..(q - 1) : d[o + k] = line[k] /\ line[k] # NUL
    <3>1. \A k \in c..(q - 1) : k \in f..m /\ k \in 1..m /\ k \in f..(m + 1) /\ k # q
      BY <1>1
    <3> QED
      BY <1>2, <1>5, <3>1, Zenon
  <2>4. \A k \in (o + c)..((o + q) - 1) : d[k] # NUL
    <3>1. ASSUME NEW k \in (o + c)..((o + q) - 1) PROVE d[k] # NUL
      <4>1. k - o \in c..(q - 1) /\ o + (k - o) = k
        BY <1>1
      <4> QED
        BY <2>3, <4>1, Zenon
    <3> QED
      BY <3>1
  <2>5. String(d, o + c) = SubSeq(d, o + c, (o + q) - 1)
    BY <1>3, <2>1, <2>2, <2>4, StringIs
  <2>6. d \in Seq({d[k] : k \in 1..n}) /\ Len(d) = n
        /\ line \in Seq({line[k] : k \in 1..m}) /\ Len(line) = m
    BY <1>2, <1>3, BufferIs
  <2>7. SubSeq(line, c, q - 1) = [k \in 1..(q - c) |-> line[(c - 1) + k]]
    BY <1>1, <2>6
  <2>8. \A k \in 1..(q - c) : d[((o + c) - 1) + k] = line[(c - 1) + k]
    <3>1. ASSUME NEW k \in 1..(q - c) PROVE d[((o + c) - 1) + k] = line[(c - 1) + k]
      <4>1. (c - 1) + k \in c..(q - 1) /\ o + ((c - 1) + k) = ((o + c) - 1) + k
        BY <1>1
      <4> QED
        BY <2>3, <4>1, Zenon
    <3> QED
      BY <3>1
  <2>9. SubSeq(d, o + c, (o + q) - 1) = [k \in 1..(q - c) |-> d[((o + c) - 1) + k]]
    BY <1>1, <1>4, <2>6
  <2>10. [k \in 1..(q - c) |-> d[((o + c) - 1) + k]] = [k \in 1..(q - c) |-> line[(c - 1) + k]]
    BY <2>8
  <2> QED
    BY <2>5, <2>7, <2>9, <2>10, Zenon
<1> QED
  BY <1>6, <1>7 DEF d

\* The first place from c on that is no blank.
First(line, m, c, j) ==
    /\ j \in c..(m + 1)
    /\ \A k \in c..(j - 1) : line[k] = BLANK
    /\ j <= m => line[j] # BLANK

LEMMA SkipInLine ==
    ASSUME NEW b, NEW n, NEW o, NEW line, NEW m, NEW f, Lies(b, n, o, line, m, f),
           NEW c \in f..(m + 1)
    PROVE  \E j \in c..(m + 1) : First(line, m, c, j) /\ SkipBlanks(b, o + c) = o + j
<1>1. /\ n \in Nat /\ m \in Nat /\ o \in Nat /\ f \in 1..(m + 1)
      /\ \A k \in f..(m + 1) : o + k \in 1..n
      /\ \A k \in f..m : At(b, o + k) = line[k] /\ line[k] # NUL
      /\ At(b, o + (m + 1)) = NUL
  BY LiesAt
<1>2. IsBuffer(b, n)
  BY Zenon DEF Lies
<1>3. o + c \in 1..(n + 1)
  BY <1>1
<1>4. \A k \in f..m : At(b, o + k) = b[o + k]
  BY <1>1, <1>2, AtIs
<1>5. PICK z \in (o + c)..(n + 1) :
        /\ z = SkipBlanks(b, o + c) /\ At(b, z) # BLANK
        /\ \A k \in (o + c)..(z - 1) : b[k] = BLANK
  BY <1>2, <1>3, SkipStops
<1>6. z <= o + (m + 1)
  <2>1. ASSUME z > o + (m + 1) PROVE FALSE
    <3>1. o + (m + 1) \in (o + c)..(z - 1)
      BY <1>1, <2>1
    <3>2. b[o + (m + 1)] = BLANK /\ b[o + (m + 1)] = NUL
      BY <1>5, <3>1, Zenon DEF Lies
    <3> QED
      BY <3>2 DEF BLANK, NUL
  <2> QED
    BY <1>1, <2>1
<1>7. PICK j \in c..(m + 1) : z = o + j
  <2>1. z - o \in c..(m + 1) /\ z = o + (z - o)
    BY <1>1, <1>6
  <2> QED
    BY <2>1
<1>8. \A k \in c..(j - 1) : line[k] = BLANK
  <2>1. ASSUME NEW k \in c..(j - 1) PROVE line[k] = BLANK
    <3>1. o + k \in (o + c)..(z - 1) /\ k \in f..m
      BY <1>1, <1>7
    <3> QED
      BY <1>1, <1>4, <1>5, <3>1, Zenon
  <2> QED
    BY <2>1
<1>9. j <= m => line[j] # BLANK
  <2>1. ASSUME j <= m PROVE line[j] # BLANK
    <3>1. j \in f..m
      BY <1>1, <2>1
    <3> QED
      BY <1>1, <1>5, <1>7, <3>1, Zenon
  <2> QED
    BY <2>1
<1> QED
  BY <1>5, <1>7, <1>8, <1>9, Zenon DEF First

LEMMA FirstUnique ==
    ASSUME NEW line, NEW m \in Nat, NEW c \in Nat,
           NEW i, First(line, m, c, i), NEW j, First(line, m, c, j)
    PROVE  i = j
<1>1. /\ i \in c..(m + 1) /\ j \in c..(m + 1)
      /\ \A k \in c..(i - 1) : line[k] = BLANK
      /\ \A k \in c..(j - 1) : line[k] = BLANK
      /\ i <= m => line[i] # BLANK
      /\ j <= m => line[j] # BLANK
  BY Zenon DEF First
<1>2. i < j => i \in c..(j - 1) /\ i <= m
  BY <1>1
<1>3. j < i => j \in c..(i - 1) /\ j <= m
  BY <1>1
<1> QED
  BY <1>1, <1>2, <1>3

-----------------------------------------------------------------------------
(* Backslashes.                                                            *)

\* A character is taken along by a backslash before it that is not.
LEMMA EscapedStep ==
    ASSUME NEW line, NEW i \in Nat \ {0}
    PROVE  Escaped(line, i + 1) <=> (line[i] = ESCAPE /\ ~Escaped(line, i))
<1> DEFINE Run(k, z) ==
             /\ \A j \in k..(z - 1) : line[j] = ESCAPE
             /\ k > 1 => line[k - 1] # ESCAPE
<1>1. \A z : Escaped(line, z) <=> \E k \in 1..(z - 1) : (z - k) % 2 = 1 /\ Run(k, z)
  BY Zenon DEF Escaped
<1>2. ASSUME NEW k \in 1..i, Run(k, i + 1)
      PROVE  \A l \in 1..(i - 1) : Run(l, i) => l = k
  <2> SUFFICES ASSUME NEW l \in 1..(i - 1), Run(l, i) PROVE l = k
    BY Zenon
  <2>1. ASSUME k < l PROVE FALSE
    <3>1. l - 1 \in k..((i + 1) - 1) /\ l > 1
      BY <2>1
    <3> QED
      BY <1>2, <3>1, Zenon
  <2>2. ASSUME l < k PROVE FALSE
    <3>1. k - 1 \in l..(i - 1) /\ k > 1
      BY <2>2
    <3> QED
      BY <1>2, <3>1, Zenon
  <2> QED
    BY <2>1, <2>2
<1>3. ASSUME Escaped(line, i + 1) PROVE line[i] = ESCAPE /\ ~Escaped(line, i)
  <2>1. PICK k \in 1..((i + 1) - 1) : ((i + 1) - k) % 2 = 1 /\ Run(k, i + 1)
    BY <1>1, <1>3, Zenon
  <2>2. k \in 1..i /\ i \in k..((i + 1) - 1)
    BY <2>1
  <2>3. line[i] = ESCAPE
    BY <2>1, <2>2, Zenon
  <2>4. ASSUME Escaped(line, i) PROVE FALSE
    <3>1. PICK l \in 1..(i - 1) : (i - l) % 2 = 1 /\ Run(l, i)
      BY <1>1, <2>4, Zenon
    <3>2. l = k
      BY <1>2, <2>1, <2>2, <3>1, Zenon
    <3>3. (i - k) % 2 = 1 /\ ((i + 1) - k) % 2 = 1
      BY <2>1, <3>1, <3>2, Zenon
    <3> HIDE DEF Run
    <3>4. (i + 1) - k = (i - k) + 1 /\ i - k \in Nat
      BY <2>2
    <3> QED
      BY <3>3, <3>4
  <2> QED
    BY <2>3, <2>4
<1>4. ASSUME line[i] = ESCAPE, ~Escaped(line, i) PROVE Escaped(line, i + 1)
  <2> DEFINE T == {k \in 1..i : \A j \in k..i : line[j] = ESCAPE}
  <2>1. i \in T
    <3>1. \A j \in i..i : j = i
      OBVIOUS
    <3>2. i \in 1..i
      OBVIOUS
    <3> QED
      BY <1>4, <3>1, <3>2, Zenon
  <2>2. PICK k \in T : \A l \in T : k <= l
    <3>1. T \subseteq Nat /\ T # {}
      BY <2>1
    <3> HIDE DEF T
    <3> QED
      BY <3>1, LeastOf
  <2>3. k > 1 => line[k - 1] # ESCAPE
    <3>1. ASSUME k > 1, line[k - 1] = ESCAPE PROVE FALSE
      <4>1. k - 1 \in 1..i /\ ~(k <= k - 1) /\ (\A j \in (k - 1)..i : j = k - 1 \/ j \in k..i)
        BY <3>1
      <4>2. k - 1 \in T
        BY <3>1, <4>1, Zenon
      <4> QED
        BY <2>2, <4>1, <4>2, Zenon
    <3> QED
      BY <3>1
  <2>4. Run(k, i + 1)
    <3>1. \A j \in k..((i + 1) - 1) : j \in k..i
      OBVIOUS
    <3> QED
      BY <2>3, <3>1, Zenon
  <2>5. ((i + 1) - k) % 2 = 1
    <3>1. ASSUME (i - k) % 2 = 1 PROVE FALSE
      <4>1. k \in 1..(i - 1)
        <5>1. k # i
          BY <3>1
        <5> QED
          BY <5>1
      <4>2. Run(k, i)
        <5>1. \A j \in k..(i - 1) : j \in k..i
          OBVIOUS
        <5> QED
          BY <2>3, <5>1, Zenon
      <4>3. Escaped(line, i)
        BY <1>1, <3>1, <4>1, <4>2, Zenon
      <4> QED
        BY <1>4, <4>3
    <3>2. k \in Int /\ i \in Int
      BY <2>2
    <3> QED
      BY <3>1, <3>2
  <2>6. k \in 1..((i + 1) - 1)
    BY <2>2
  <2> QED
    BY <1>1, <2>4, <2>5, <2>6, Zenon
<1> QED
  BY <1>3, <1>4, Zenon

\* In a line, str stops just where no backslash escapes the character.
LEMMA TakenInLine ==
    ASSUME NEW b, NEW n, NEW o, NEW line, NEW m, NEW f, Lies(b, n, o, line, m, f),
           NEW c \in f..(m + 1), ~Escaped(line, c)
    PROVE  \A k \in Nat : c + k <= m + 1 =>
             (Taken(b, o + c)[k] <=> Escaped(line, c + k))
<1>1. /\ n \in Nat /\ m \in Nat /\ o \in Nat /\ f \in 1..(m + 1)
      /\ \A k \in f..m : At(b, o + k) = line[k]
  BY LiesAt
<1> DEFINE t == Taken(b, o + c)
           T == {k \in Nat : c + k <= m + 1 => (t[k] <=> Escaped(line, c + k))}
<1>2. t[0] = FALSE /\ \A k \in Nat : t[k + 1] <=> (At(b, (o + c) + k) = ESCAPE /\ ~t[k])
  BY TakenIs, Zenon
<1> HIDE DEF t
<1>3. 0 \in T
  <2>1. c + 0 = c
    BY <1>1
  <2> QED
    BY <1>2, <2>1, Zenon
<1>4. ASSUME NEW k \in Nat, k \in T PROVE k + 1 \in T
  <2>1. ASSUME c + (k + 1) <= m + 1 PROVE t[k + 1] <=> Escaped(line, c + (k + 1))
    <3>1. /\ c + k <= m + 1 /\ c + k \in f..m /\ c + k \in Nat \ {0}
          /\ (o + c) + k = o + (c + k) /\ c + (k + 1) = (c + k) + 1
      BY <1>1, <2>1
    <3>2. At(b, (o + c) + k) = line[c + k]
      BY <1>1, <3>1, Zenon
    <3>3. Escaped(line, (c + k) + 1) <=> (line[c + k] = ESCAPE /\ ~Escaped(line, c + k))
      BY <3>1, EscapedStep, Zenon
    <3>4. t[k] <=> Escaped(line, c + k)
      BY <1>4, <3>1, Zenon
    <3>5. c + (k + 1) = (c + k) + 1
      BY <3>1, Zenon
    <3> QED
      BY <1>2, <3>2, <3>3, <3>4, <3>5, Zenon
  <2>2. k + 1 \in Nat
    OBVIOUS
  <2> QED
    BY <2>1, <2>2, Zenon
<1> HIDE DEF T
<1>5. Nat \subseteq T
  BY <1>3, <1>4, Induction
<1> QED
  BY <1>5 DEF T, t

\* The next quote from c on.
NextQuote(line, c, q) ==
    q \in Quotes(line) /\ c <= q /\ \A z \in Quotes(line) : c <= z => q <= z

LEMMA ScanInLine ==
    ASSUME NEW b, NEW n, NEW o, NEW line, NEW m, NEW f, Lies(b, n, o, line, m, f),
           NEW c \in f..(m + 1), ~Escaped(line, c), ~Escaped(line, m + 1)
    PROVE  \/ \E q \in c..m : NextQuote(line, c, q) /\ Scan(b, o + c) = o + q
           \/ (\A q \in Quotes(line) : ~(c <= q)) /\ Scan(b, o + c) = NULL
<1>1. /\ n \in Nat /\ m \in Nat /\ o \in Nat /\ f \in 1..(m + 1)
      /\ \A k \in f..(m + 1) : o + k \in 1..n
      /\ \A k \in f..m : At(b, o + k) = line[k] /\ line[k] # NUL
      /\ At(b, o + (m + 1)) = NUL
  BY LiesAt
<1>2. DOMAIN line = 1..m /\ Len(b) = n /\ IsBuffer(b, n)
  BY BufferIs, Zenon DEF Lies
<1> DEFINE S == Stops(b, o + c)
<1>3. ASSUME NEW k \in c..(m + 1)
      PROVE  o + k \in S <=> (~Escaped(line, k) /\ At(b, o + k) \in {NUL, QUOTE})
  <2>1. k - c \in Nat /\ c + (k - c) = k /\ c + (k - c) <= m + 1 /\ (o + k) - (o + c) = k - c
    BY <1>1
  <2>2. Taken(b, o + c)[k - c] <=> Escaped(line, c + (k - c))
    BY <2>1, TakenInLine, Zenon
  <2>3. o + k \in (o + c)..(n + 2)
    BY <1>1
  <2>4. o + k \in S <=> (~Taken(b, o + c)[(o + k) - (o + c)] /\ At(b, o + k) \in {NUL, QUOTE})
    BY <1>2, <2>3, Zenon DEF Stops
  <2> QED
    BY <2>1, <2>2, <2>4, Zenon
<1>4. ASSUME NEW k \in c..m PROVE o + k \in S <=> k \in Quotes(line)
  <2>1. k \in c..(m + 1) /\ k \in f..m /\ k \in 1..m
    BY <1>1
  <2>2. At(b, o + k) = line[k] /\ line[k] # NUL
    BY <1>1, <2>1, Zenon
  <2>3. o + k \in S <=> (~Escaped(line, k) /\ line[k] = QUOTE)
    BY <1>3, <2>1, <2>2, Zenon
  <2> QED
    BY <1>2, <2>1, <2>3, Zenon DEF Quotes
<1>5. S \subseteq Nat /\ \A j \in S : o + c <= j
  <2>1. \A j \in S : j \in (o + c)..(n + 2)
    BY <1>2, Zenon DEF Stops
  <2> HIDE DEF S
  <2> QED
    BY <1>1, <2>1
<1>6. Quotes(line) \subseteq 1..m
  BY <1>2, Zenon DEF Quotes
<1> HIDE DEF S
<1>7. ASSUME NEW r \in c..(m + 1), o + r \in S, \A k \in c..(r - 1) : o + k \notin S
      PROVE  Min(S) = o + r
  <2>1. ASSUME NEW j \in S PROVE o + r <= j
    <3>1. ASSUME j < o + r PROVE FALSE
      <4>1. j - o \in c..(r - 1) /\ j = o + (j - o)
        BY <1>1, <1>5, <3>1
      <4> QED
        BY <1>7, <4>1
    <3> QED
      BY <1>1, <1>5, <3>1
  <2>2. \A j \in S : (\A k \in S : j <= k) => j = o + r
    BY <1>1, <1>5, <1>7, <2>1
  <2> QED
    BY <1>7, <2>1, <2>2 DEF Min
<1>8. CASE \E q \in Quotes(line) : c <= q
  <2> DEFINE T == {q \in Quotes(line) : c <= q}
  <2>1. PICK q \in T : \A z \in T : q <= z
    <3>1. T \subseteq Nat /\ T # {}
      BY <1>6, <1>8
    <3> HIDE DEF T
    <3> QED
      BY <3>1, LeastOf
  <2>2. q \in c..m /\ NextQuote(line, c, q)
    BY <1>1, <1>6, <2>1 DEF NextQuote
  <2>3. o + q \in S
    BY <1>4, <2>1, <2>2
  <2>4. ASSUME NEW k \in c..(q - 1) PROVE o + k \notin S
    <3>1. k \in c..m /\ ~(q <= k) /\ c <= k
      BY <1>1, <2>2
    <3>2. k \notin Quotes(line)
      BY <2>1, <3>1
    <3> QED
      BY <1>4, <3>1, <3>2
  <2>5. q \in c..(m + 1)
    BY <1>1, <2>2
  <2>6. Min(S) = o + q
    BY <1>7, <2>3, <2>4, <2>5
  <2>7. At(b, o + q) = QUOTE
    <3>1. q \in f..m
      BY <1>1, <2>2
    <3>2. line[q] = QUOTE
      BY <2>1 DEF Quotes
    <3> QED
      BY <1>1, <3>1, <3>2, Zenon
  <2>8. Scan(b, o + c) = o + q
    BY <2>6, <2>7, Zenon DEF Scan, S
  <2> QED
    BY <2>2, <2>8, Zenon
<1>9. CASE \A q \in Quotes(line) : ~(c <= q)
  <2>1. m + 1 \in c..(m + 1)
    BY <1>1
  <2>2. o + (m + 1) \in S
    BY <1>1, <1>3, <2>1, Zenon
  <2>3. ASSUME NEW k \in c..((m + 1) - 1) PROVE o + k \notin S
    <3>1. k \in c..m /\ c <= k
      BY <1>1
    <3> QED
      BY <1>4, <1>9, <3>1, Zenon
  <2>4. Min(S) = o + (m + 1)
    BY <1>7, <2>1, <2>2, <2>3
  <2>5. NUL # QUOTE
    BY DEF NUL, QUOTE
  <2>6. Scan(b, o + c) = NULL
    BY <1>1, <2>4, <2>5, Zenon DEF Scan, S
  <2> QED
    BY <1>9, <2>6, Zenon
<1> QED
  BY <1>8, <1>9, Zenon

-----------------------------------------------------------------------------
(* parse_db_line on a line.                                                *)

\* A string in quotes from c to q.
Extracts(line, m, c, q) ==
    /\ c <= m /\ line[c] = QUOTE
    /\ q \in (c + 1)..m /\ NextQuote(line, c + 1, q)

LEMMA ExtractInLine ==
    ASSUME NEW b, NEW n, NEW o, NEW line, NEW m, NEW f, Lies(b, n, o, line, m, f),
           NEW c \in f..(m + 1), ~Escaped(line, m + 1)
    PROVE  \/ \E q \in (c + 1)..m : Extracts(line, m, c, q) /\ ExtractString(b, o + c) = o + q
           \/ (\A q : ~Extracts(line, m, c, q)) /\ ExtractString(b, o + c) = NULL
<1>1. /\ n \in Nat /\ m \in Nat /\ o \in Nat /\ f \in 1..(m + 1)
      /\ \A k \in f..m : At(b, o + k) = line[k] /\ line[k] # NUL
      /\ At(b, o + (m + 1)) = NUL
  BY LiesAt
<1>2. CASE c <= m /\ line[c] = QUOTE
  <2>1. c \in f..m /\ c + 1 \in f..(m + 1) /\ c \in Nat \ {0} /\ (o + c) + 1 = o + (c + 1)
    BY <1>1, <1>2
  <2>2. ~Escaped(line, c + 1)
    <3>1. Escaped(line, c + 1) <=> (line[c] = ESCAPE /\ ~Escaped(line, c))
      BY <2>1, EscapedStep, Zenon
    <3>2. QUOTE # ESCAPE
      BY DEF QUOTE, ESCAPE
    <3> QED
      BY <1>2, <3>1, <3>2, Zenon
  <2>3. ExtractString(b, o + c) = Scan(b, o + (c + 1))
    BY <1>1, <1>2, <2>1, Zenon DEF ExtractString
  <2>4. \/ \E q \in (c + 1)..m : NextQuote(line, c + 1, q) /\ Scan(b, o + (c + 1)) = o + q
        \/ (\A q \in Quotes(line) : ~(c + 1 <= q)) /\ Scan(b, o + (c + 1)) = NULL
    BY <2>1, <2>2, ScanInLine
  <2>5. CASE \E q \in (c + 1)..m : NextQuote(line, c + 1, q) /\ Scan(b, o + (c + 1)) = o + q
    BY <1>2, <2>3, <2>5, Zenon DEF Extracts
  <2>6. CASE (\A q \in Quotes(line) : ~(c + 1 <= q)) /\ Scan(b, o + (c + 1)) = NULL
    BY <2>3, <2>6, Zenon DEF Extracts, NextQuote
  <2> QED
    BY <2>4, <2>5, <2>6, Zenon
<1>3. CASE ~(c <= m /\ line[c] = QUOTE)
  <2>1. At(b, o + c) # QUOTE
    <3>1. CASE c <= m
      <4>1. c \in f..m
        BY <1>1, <3>1
      <4> QED
        BY <1>1, <1>3, <3>1, <4>1, Zenon
    <3>2. CASE ~(c <= m)
      <4>1. c = m + 1
        BY <1>1, <3>2
      <4>2. NUL # QUOTE
        BY DEF NUL, QUOTE
      <4> QED
        BY <1>1, <4>1, <4>2, Zenon
    <3> QED
      BY <3>1, <3>2
  <2>2. ExtractString(b, o + c) = NULL
    BY <2>1, Zenon DEF ExtractString
  <2> QED
    BY <1>3, <2>2, Zenon DEF Extracts
<1> QED
  BY <1>2, <1>3, Zenon

\* Where the description is.
Described(line, m, c, d, q) == First(line, m, c, d) /\ Extracts(line, m, d, q)

DescriptionRead(b, o, line, m, c, regexp, id, unit, r) ==
    \/ \E d, q \in c..m :
          /\ Described(line, m, c, d, q)
          /\ r = [status |-> 0, buff |-> Cut(b, o + q),
                  entries |-> <<Entry(regexp, id, unit, SubSeq(line, d + 1, q - 1))>>]
    \/ (\A d, q : ~Described(line, m, c, d, q)) /\ r = SyntaxError(b)

LEMMA DescriptionInLine ==
    ASSUME NEW b, NEW n, NEW o, NEW line, NEW m, NEW f, Lies(b, n, o, line, m, f),
           NEW c \in f..(m + 1), ~Escaped(line, m + 1),
           NEW regexp, NEW id, NEW unit
    PROVE  DescriptionRead(b, o, line, m, c, regexp, id, unit,
                           ParseDescription(b, regexp, id, unit, o + c))
<1>1. n \in Nat /\ m \in Nat /\ o \in Nat /\ f \in 1..(m + 1)
  BY LiesAt
<1>2. PICK d \in c..(m + 1) : First(line, m, c, d) /\ SkipBlanks(b, o + c) = o + d
  BY SkipInLine
<1>3. \A j : First(line, m, c, j) => j = d
  <2>1. c \in Nat
    BY <1>1
  <2> QED
    BY <1>1, <1>2, <2>1, FirstUnique
<1>4. d \in f..(m + 1)
  BY <1>1
<1>5. \/ \E q \in (d + 1)..m : Extracts(line, m, d, q) /\ ExtractString(b, o + d) = o + q
      \/ (\A q : ~Extracts(line, m, d, q)) /\ ExtractString(b, o + d) = NULL
  BY <1>4, ExtractInLine
<1>6. CASE \E q \in (d + 1)..m : Extracts(line, m, d, q) /\ ExtractString(b, o + d) = o + q
  <2>1. PICK q \in (d + 1)..m : Extracts(line, m, d, q) /\ ExtractString(b, o + d) = o + q
    BY <1>6
  <2>2. /\ d \in c..m /\ q \in c..m /\ o + q # NULL /\ (o + d) + 1 = o + (d + 1)
        /\ q \in f..m /\ d + 1 \in f..q
    BY <1>1, <1>2, <1>4 DEF NULL
  <2>3. String(Cut(b, o + q), o + (d + 1)) = SubSeq(line, d + 1, q - 1)
    BY <2>2, LiesFurther
  <2>4. ParseDescription(b, regexp, id, unit, o + c) =
          [status |-> 0, buff |-> Cut(b, o + q),
           entries |-> <<Entry(regexp, id, unit, String(Cut(b, o + q), (o + d) + 1))>>]
    BY <1>2, <2>1, <2>2, Zenon DEF ParseDescription
  <2> QED
    BY <1>2, <2>1, <2>2, <2>3, <2>4, Zenon DEF Described, DescriptionRead
<1>7. CASE (\A q : ~Extracts(line, m, d, q)) /\ ExtractString(b, o + d) = NULL
  <2>1. ParseDescription(b, regexp, id, unit, o + c) = SyntaxError(b)
    BY <1>2, <1>7, Zenon DEF ParseDescription
  <2> QED
    BY <1>3, <1>7, <2>1, Zenon DEF Described, DescriptionRead
<1> QED
  BY <1>5, <1>6, <1>7, Zenon

\* Where the value and the unit are.
Unit(line, m, v, u) ==
    /\ v + 1 <= m /\ line[v + 1] = BLANK
    /\ First(line, m, v + 1, u)
    /\ u + 1 <= m /\ line[u] \in {"C", "F"} /\ line[u + 1] = BLANK

Valued(line, m, c, v, u) ==
    /\ First(line, m, c, v)
    /\ v <= m /\ line[v] \in DOMAIN Number
    /\ Unit(line, m, v, u)

LEMMA ValueInLine ==
    ASSUME NEW b, NEW n, NEW o, NEW line, NEW m, NEW f, Lies(b, n, o, line, m, f),
           NEW c \in f..(m + 1), NEW regexp
    PROVE  \/ \E v, u \in c..m :
                /\ Valued(line, m, c, v, u) /\ u + 1 \in c..m
                /\ ParseValue(b, regexp, o + c) =
                     ParseDescription(b, regexp, Short(Number[line[v]]), line[u], o + (u + 1))
           \/ /\ \A v, u : ~Valued(line, m, c, v, u)
              /\ ParseValue(b, regexp, o + c) = SyntaxError(b)
<1>1. /\ n \in Nat /\ m \in Nat /\ o \in Nat /\ f \in 1..(m + 1)
      /\ \A k \in f..m : At(b, o + k) = line[k] /\ line[k] # NUL
      /\ At(b, o + (m + 1)) = NUL
  BY LiesAt
<1>2. PICK v \in c..(m + 1) : First(line, m, c, v) /\ SkipBlanks(b, o + c) = o + v
  BY SkipInLine
<1>3. \A j : First(line, m, c, j) => j = v
  <2>1. c \in Nat
    BY <1>1
  <2> QED
    BY <1>1, <1>2, <2>1, FirstUnique
<1>4. NUL \notin DOMAIN Number /\ NUL # BLANK /\ NUL \notin {"C", "F"}
  BY DatabaseAssumption DEF NUL, BLANK
<1> DEFINE has == At(b, o + v) \in DOMAIN Number
           id == IF has THEN Short(Number[At(b, o + v)]) ELSE 0
           end == IF has THEN (o + v) + 1 ELSE o + v
           unit == SkipBlanks(b, end)
           Units == At(b, end) = BLANK /\ At(b, unit) \in {"C", "F"} /\ At(b, unit + 1) = BLANK
<1>5. ParseValue(b, regexp, o + c) =
        IF Units THEN ParseDescription(b, regexp, id, At(b, unit), unit + 1) ELSE SyntaxError(b)
  BY <1>2, Zenon DEF ParseValue
<1> HIDE DEF Units
<1>6. CASE ~(v <= m /\ line[v] \in DOMAIN Number)
  <2>1. ~has /\ At(b, o + v) # BLANK
    <3>1. CASE v <= m
      <4>1. v \in f..m /\ line[v] # BLANK
        BY <1>1, <1>2, <3>1 DEF First
      <4> QED
        BY <1>1, <1>6, <3>1, <4>1, Zenon
    <3>2. CASE ~(v <= m)
      <4>1. v = m + 1
        BY <1>1, <3>2
      <4> QED
        BY <1>1, <1>4, <4>1, Zenon
    <3> QED
      BY <3>1, <3>2
  <2>2. ~Units
    BY <2>1, Zenon DEF Units
  <2> QED
    BY <1>3, <1>5, <1>6, <2>2, Zenon DEF Valued
<1>7. CASE v <= m /\ line[v] \in DOMAIN Number
  <2>1. v \in f..m /\ v + 1 \in f..(m + 1) /\ (o + v) + 1 = o + (v + 1) /\ v + 1 \in Nat
    BY <1>1, <1>7
  <2>2. At(b, o + v) = line[v]
    BY <1>1, <2>1, Zenon
  <2>3. has /\ id = Short(Number[line[v]]) /\ end = o + (v + 1)
    BY <1>7, <2>1, <2>2, Zenon
  <2>4. PICK u \in (v + 1)..(m + 1) :
          First(line, m, v + 1, u) /\ SkipBlanks(b, o + (v + 1)) = o + u
    BY <2>1, SkipInLine
  <2>5. \A j : First(line, m, v + 1, j) => j = u
    BY <1>1, <2>1, <2>4, FirstUnique
  <2>6. unit = o + u
    BY <2>3, <2>4, Zenon
  <2> HIDE DEF unit, end, id
  <2>7. Units <=> (/\ v + 1 <= m /\ line[v + 1] = BLANK
                   /\ u + 1 <= m /\ line[u] \in {"C", "F"} /\ line[u + 1] = BLANK)
    <3>1. Units <=> (/\ At(b, o + (v + 1)) = BLANK
                     /\ At(b, o + u) \in {"C", "F"} /\ At(b, (o + u) + 1) = BLANK)
      BY <2>3, <2>6, Zenon DEF Units
    <3>2. At(b, o + (v + 1)) = BLANK <=> v + 1 <= m /\ line[v + 1] = BLANK
      <4>1. v + 1 <= m => v + 1 \in f..m
        BY <1>1, <2>1
      <4>2. ~(v + 1 <= m) => v + 1 = m + 1
        BY <1>1, <2>1
      <4> QED
        BY <1>1, <1>4, <4>1, <4>2, Zenon
    <3>3. At(b, o + u) \in {"C", "F"} <=> u <= m /\ line[u] \in {"C", "F"}
      <4>1. u <= m => u \in f..m
        BY <1>1, <2>1, <2>4
      <4>2. ~(u <= m) => u = m + 1
        BY <1>1, <2>1, <2>4
      <4> QED
        BY <1>1, <1>4, <4>1, <4>2, Zenon
    <3>4. u <= m => (At(b, (o + u) + 1) = BLANK <=> u + 1 <= m /\ line[u + 1] = BLANK)
      <4>1. u + 1 <= m => u + 1 \in f..m
        BY <1>1, <2>1, <2>4
      <4>2. u <= m /\ ~(u + 1 <= m) => u + 1 = m + 1
        BY <1>1, <2>1, <2>4
      <4>3. (o + u) + 1 = o + (u + 1)
        BY <1>1, <2>1, <2>4
      <4> QED
        BY <1>1, <1>4, <4>1, <4>2, <4>3, Zenon
    <3>5. u + 1 <= m => u <= m
      BY <1>1, <2>1, <2>4
    <3> QED
      BY <3>1, <3>2, <3>3, <3>4, <3>5, Zenon
  <2>8. CASE Units
    <3>1. Unit(line, m, v, u)
      BY <2>4, <2>7, <2>8, Zenon DEF Unit
    <3>2. Valued(line, m, c, v, u)
      BY <1>2, <1>7, <3>1, Zenon DEF Valued
    <3>3. v \in c..m /\ u \in c..m /\ u + 1 \in c..m /\ u \in f..m /\ (o + u) + 1 = o + (u + 1)
      BY <1>1, <1>2, <1>7, <2>4, <2>7, <2>8
    <3>4. At(b, o + u) = line[u]
      BY <1>1, <3>3, Zenon
    <3>5. ParseValue(b, regexp, o + c) =
            ParseDescription(b, regexp, Short(Number[line[v]]), line[u], o + (u + 1))
      BY <1>5, <2>3, <2>6, <2>8, <3>3, <3>4, Zenon
    <3> QED
      BY <3>2, <3>3, <3>5, Zenon
  <2>9. CASE ~Units
    <3>1. \A w : ~Unit(line, m, v, w)
      BY <2>5, <2>7, <2>9, Zenon DEF Unit
    <3> QED
      BY <1>3, <1>5, <2>9, <3>1, Zenon DEF Valued
  <2> QED
    BY <2>8, <2>9, Zenon
<1> QED
  BY <1>6, <1>7, Zenon

\* A comment, or nothing.
LEMMA IgnoredIs ==
    ASSUME NEW line, NEW m, IsBuffer(line, m), NEW j, First(line, m, 1, j)
    PROVE  Ignored(line) <=> (j = m + 1 \/ line[j] = HASH)
<1>1. m \in Nat /\ DOMAIN line = 1..m
  BY BufferIs
<1>2. /\ j \in 1..(m + 1)
      /\ \A k \in 1..(j - 1) : line[k] = BLANK
      /\ j <= m => line[j] # BLANK
  BY Zenon DEF First
<1>3. CASE j = m + 1
  <2>1. \A i \in 1..m : i \in 1..(j - 1)
    BY <1>1, <1>3
  <2>2. \A i \in Visible(line) : FALSE
    BY <1>1, <1>2, <2>1, Zenon DEF Visible
  <2> QED
    BY <1>3, <2>2, Zenon DEF Ignored
<1>4. CASE j # m + 1
  <2>1. j \in 1..m /\ line[j] # BLANK
    BY <1>1, <1>2, <1>4
  <2>2. j \in Visible(line)
    BY <1>1, <2>1, Zenon DEF Visible
  <2>3. \A i \in Visible(line) : i = j \/ j < i
    <3>1. ASSUME NEW i \in Visible(line) PROVE ~(i < j)
      <4>1. i \in 1..m /\ line[i] # BLANK
        BY <1>1, Zenon DEF Visible
      <4>2. i < j => i \in 1..(j - 1)
        BY <1>2, <4>1
      <4> QED
        BY <1>2, <4>1, <4>2, Zenon
    <3>2. \A i \in Visible(line) : i \in 1..m
      BY <1>1, Zenon DEF Visible
    <3> QED
      BY <2>1, <3>1, <3>2
  <2>4. \A k \in Visible(line) : ~(k < j)
    <3>1. ASSUME NEW k \in Visible(line), k < j PROVE FALSE
      <4>1. k = j \/ j < k
        BY <2>3, Zenon
      <4>2. k \in 1..m
        BY <1>1, Zenon DEF Visible
      <4> QED
        BY <1>1, <2>1, <3>1, <4>1, <4>2
    <3> QED
      BY <3>1, Zenon
  <2> QED
    BY <1>4, <2>2, <2>3, <2>4, Zenon DEF Ignored
<1> QED
  BY <1>3, <1>4

\* The places of an entry.
Shape(line, m, q1, q2, v, u, d, q4) ==
    /\ First(line, m, 1, q1) /\ Extracts(line, m, q1, q2)
    /\ Valued(line, m, q2 + 1, v, u)
    /\ Described(line, m, u + 1, d, q4)

EntryOf(line, q1, q2, v, u, d, q4) ==
    Entry(SubSeq(line, q1 + 1, q2 - 1), Short(Number[line[v]]), line[u],
          SubSeq(line, d + 1, q4 - 1))

\* The buffer is as it was behind the line.
Behind(b, d, n, from) == IsBuffer(d, n) /\ \A k \in from..n : d[k] = b[k]

Parsed(b, n, o, line, m, r) ==
    \/ Ignored(line) /\ r = Nothing(b)
    \/ /\ ~Ignored(line) /\ r.status = 0 /\ Behind(b, r.buff, n, o + (m + 1) + 1)
       /\ \E q1, q2, v, u, d, q4 \in 1..m :
             /\ Shape(line, m, q1, q2, v, u, d, q4)
             /\ r.entries = <<EntryOf(line, q1, q2, v, u, d, q4)>>
    \/ /\ ~Ignored(line) /\ r.status = 1
       /\ \A q1, q2, v, u, d, q4 : ~Shape(line, m, q1, q2, v, u, d, q4)

LEMMA ParseInLine ==
    ASSUME NEW b, NEW n, NEW o, NEW line, NEW m, Lies(b, n, o, line, m, 1),
           ~Escaped(line, m + 1)
    PROVE  Parsed(b, n, o, line, m, ParseDbLine(b, o + 1))
<1>1. /\ n \in Nat /\ m \in Nat /\ o \in Nat
      /\ \A k \in 1..m : At(b, o + k) = line[k] /\ line[k] # NUL
      /\ At(b, o + (m + 1)) = NUL
  BY LiesAt
<1>2. IsBuffer(b, n) /\ IsBuffer(line, m) /\ o + (m + 1) <= n
  BY Zenon DEF Lies
<1>3. 1 \in 1..(m + 1) /\ 1 \in Nat
  BY <1>1
<1>4. PICK q1 \in 1..(m + 1) : First(line, m, 1, q1) /\ SkipBlanks(b, o + 1) = o + q1
  BY <1>3, SkipInLine
<1>5. \A j : First(line, m, 1, j) => j = q1
  BY <1>1, <1>3, <1>4, FirstUnique
<1>6. Ignored(line) <=> (q1 = m + 1 \/ line[q1] = HASH)
  BY <1>2, <1>4, IgnoredIs
<1>7. At(b, o + q1) \in {HASH, NUL} <=> Ignored(line)
  <2>1. CASE q1 = m + 1
    BY <1>1, <1>6, <2>1, Zenon
  <2>2. CASE q1 # m + 1
    <3>1. q1 \in 1..m
      BY <1>1, <2>2
    <3> QED
      BY <1>1, <1>6, <2>2, <3>1, Zenon
  <2> QED
    BY <2>1, <2>2
<1> DEFINE p == ExtractString(b, o + q1)
           cut == Cut(b, p)
           r == ParseDbLine(b, o + 1)
           value == ParseValue(cut, String(cut, (o + q1) + 1), p + 1)
<1>8. r = CASE At(b, o + q1) \in {HASH, NUL} -> Nothing(b)
            [] At(b, o + q1) \notin {HASH, NUL} /\ p = NULL -> SyntaxError(b)
            [] At(b, o + q1) \notin {HASH, NUL} /\ p # NULL -> value
  BY <1>4, Zenon DEF ParseDbLine
<1> HIDE DEF p, cut, r, value
<1>9. CASE Ignored(line)
  <2>1. r = Nothing(b)
    BY <1>7, <1>8, <1>9, Zenon
  <2> QED
    BY <1>9, <2>1, Zenon DEF Parsed, r
<1>10. CASE ~Ignored(line)
  <2>1. q1 \in 1..m /\ At(b, o + q1) \notin {HASH, NUL}
    BY <1>1, <1>6, <1>7, <1>10
  <2>2. \/ \E q \in (q1 + 1)..m : Extracts(line, m, q1, q) /\ p = o + q
        \/ (\A q : ~Extracts(line, m, q1, q)) /\ p = NULL
    BY <1>4, ExtractInLine DEF p
  <2>3. CASE (\A q : ~Extracts(line, m, q1, q)) /\ p = NULL
    <3>1. r = SyntaxError(b)
      BY <1>8, <2>1, <2>3, Zenon
    <3>2. r.status = 1
      BY <3>1 DEF SyntaxError
    <3>3. \A j1, q2, v, u, d, q4 : ~Shape(line, m, j1, q2, v, u, d, q4)
      BY <1>5, <2>3, Zenon DEF Shape
    <3> QED
      BY <1>10, <3>2, <3>3, Zenon DEF Parsed, r
  <2>4. CASE \E q \in (q1 + 1)..m : Extracts(line, m, q1, q) /\ p = o + q
    <3>1. PICK q2 \in (q1 + 1)..m : Extracts(line, m, q1, q2) /\ p = o + q2
      BY <2>4
    <3>2. /\ q2 \in 1..m /\ p # NULL /\ (o + q1) + 1 = o + (q1 + 1) /\ p + 1 = o + (q2 + 1)
          /\ q1 + 1 \in 1..q2 /\ q2 + 1 \in (q2 + 1)..(m + 1)
      BY <1>1, <3>1 DEF NULL
    <3>3. \A q : Extracts(line, m, q1, q) => q = q2
      <4>1. ASSUME NEW q, Extracts(line, m, q1, q) PROVE q = q2
        <5>1. q \in (q1 + 1)..m /\ q <= q2 /\ q2 <= q
          BY <3>1, <4>1, Zenon DEF Extracts, NextQuote
        <5> QED
          BY <3>2, <5>1
      <4> QED
        BY <4>1
    <3>4. /\ Lies(cut, n, o, line, m, q2 + 1)
          /\ String(cut, o + (q1 + 1)) = SubSeq(line, q1 + 1, q2 - 1)
      <4>1. cut = Cut(b, o + q2)
        BY <3>1, Zenon DEF cut
      <4> QED
        BY <3>2, <4>1, LiesFurther
    <3> DEFINE regexp == SubSeq(line, q1 + 1, q2 - 1)
    <3>5. r = ParseValue(cut, regexp, o + (q2 + 1))
      BY <1>8, <2>1, <3>2, <3>4, Zenon DEF value
    <3> HIDE DEF regexp
    <3>6. \/ \E v, u \in (q2 + 1)..m :
               /\ Valued(line, m, q2 + 1, v, u) /\ u + 1 \in (q2 + 1)..m
               /\ ParseValue(cut, regexp, o + (q2 + 1)) =
                    ParseDescription(cut, regexp, Short(Number[line[v]]), line[u], o + (u + 1))
          \/ /\ \A v, u : ~Valued(line, m, q2 + 1, v, u)
             /\ ParseValue(cut, regexp, o + (q2 + 1)) = SyntaxError(cut)
      BY <3>2, <3>4, ValueInLine
    <3>7. CASE /\ \A v, u : ~Valued(line, m, q2 + 1, v, u)
               /\ ParseValue(cut, regexp, o + (q2 + 1)) = SyntaxError(cut)
      <4>1. r.status = 1
        BY <3>5, <3>7 DEF SyntaxError
      <4>2. \A j1, j2, v, u, d, q4 : ~Shape(line, m, j1, j2, v, u, d, q4)
        BY <1>5, <3>3, <3>7, Zenon DEF Shape
      <4> QED
        BY <1>10, <4>1, <4>2, Zenon DEF Parsed, r
    <3>8. CASE \E v, u \in (q2 + 1)..m :
               /\ Valued(line, m, q2 + 1, v, u) /\ u + 1 \in (q2 + 1)..m
               /\ ParseValue(cut, regexp, o + (q2 + 1)) =
                    ParseDescription(cut, regexp, Short(Number[line[v]]), line[u], o + (u + 1))
      <4>1. PICK v, u \in (q2 + 1)..m :
               /\ Valued(line, m, q2 + 1, v, u) /\ u + 1 \in (q2 + 1)..m
               /\ ParseValue(cut, regexp, o + (q2 + 1)) =
                    ParseDescription(cut, regexp, Short(Number[line[v]]), line[u], o + (u + 1))
        BY <3>8, Zenon
      <4>2. \A w, z : Valued(line, m, q2 + 1, w, z) => w = v /\ z = u
        <5>1. ASSUME NEW w, NEW z, Valued(line, m, q2 + 1, w, z) PROVE w = v /\ z = u
          <6>1. /\ First(line, m, q2 + 1, w) /\ First(line, m, q2 + 1, v)
                /\ First(line, m, w + 1, z) /\ First(line, m, v + 1, u)
            BY <4>1, <5>1, Zenon DEF Valued, Unit
          <6>2. q2 + 1 \in Nat /\ v + 1 \in Nat
            BY <3>2
          <6>3. w = v
            BY <1>1, <6>1, <6>2, FirstUnique
          <6> QED
            BY <1>1, <6>1, <6>2, <6>3, FirstUnique
        <5> QED
          BY <5>1
      <4>3. /\ v \in 1..m /\ u \in 1..m /\ u + 1 \in (q2 + 1)..(m + 1)
            /\ \A x \in (u + 1)..m : x \in 1..m /\ x \in (q2 + 1)..m
        BY <1>1, <3>2, <4>1
      <4> DEFINE id == Short(Number[line[v]])
      <4>4. r = ParseDescription(cut, regexp, id, line[u], o + (u + 1))
        BY <3>5, <4>1, Zenon
      <4>5. \/ \E d, q \in (u + 1)..m :
                 /\ Described(line, m, u + 1, d, q)
                 /\ r = [status |-> 0, buff |-> Cut(cut, o + q),
                         entries |-> <<Entry(regexp, id, line[u], SubSeq(line, d + 1, q - 1))>>]
            \/ /\ \A d, q : ~Described(line, m, u + 1, d, q)
               /\ r = SyntaxError(cut)
        <5>1. DescriptionRead(cut, o, line, m, u + 1, regexp, id, line[u], r)
          <6> HIDE DEF id
          <6> QED
            BY <3>4, <4>3, <4>4, DescriptionInLine, Zenon
        <5> QED
          BY <5>1, Zenon DEF DescriptionRead
      <4>6. CASE /\ \A d, q : ~Described(line, m, u + 1, d, q)
                 /\ r = SyntaxError(cut)
        <5>1. r.status = 1
          BY <4>6 DEF SyntaxError
        <5>2. \A j1, j2, w, z, d, q4 : ~Shape(line, m, j1, j2, w, z, d, q4)
          BY <1>5, <3>3, <4>2, <4>6, Zenon DEF Shape
        <5> QED
          BY <1>10, <5>1, <5>2, Zenon DEF Parsed, r
      <4>7. CASE \E d, q \in (u + 1)..m :
                 /\ Described(line, m, u + 1, d, q)
                 /\ r = [status |-> 0, buff |-> Cut(cut, o + q),
                         entries |-> <<Entry(regexp, id, line[u], SubSeq(line, d + 1, q - 1))>>]
        <5>1. PICK d, q \in (u + 1)..m :
                 /\ Described(line, m, u + 1, d, q)
                 /\ r = [status |-> 0, buff |-> Cut(cut, o + q),
                         entries |-> <<Entry(regexp, id, line[u], SubSeq(line, d + 1, q - 1))>>]
          BY <4>7, Zenon
        <5>2. Shape(line, m, q1, q2, v, u, d, q)
          BY <1>4, <3>1, <4>1, <5>1, Zenon DEF Shape
        <5>3. r.status = 0 /\ r.buff = Cut(cut, o + q)
              /\ r.entries = <<EntryOf(line, q1, q2, v, u, d, q)>>
          BY <5>1, Zenon DEF EntryOf, regexp
        <5>4. Behind(b, Cut(cut, o + q), n, o + (m + 1) + 1)
          <6>1. \A k \in (o + (m + 1) + 1)..n : k \in 1..n /\ k # o + q /\ k # o + q2
            BY <1>1, <3>2, <4>3, <5>1
          <6>2. IsBuffer(cut, n) /\ \A k \in 1..n : k # o + q2 => cut[k] = b[k]
            BY <1>2, <3>1, CutIs DEF cut
          <6>3. /\ IsBuffer(Cut(cut, o + q), n)
                /\ \A k \in 1..n : k # o + q => Cut(cut, o + q)[k] = cut[k]
            BY <6>2, CutIs
          <6> QED
            BY <6>1, <6>2, <6>3, Zenon DEF Behind
        <5>5. d \in 1..m /\ q \in 1..m
          BY <4>3, <5>1, Zenon
        <5> QED
          BY <1>10, <2>1, <3>2, <4>3, <5>2, <5>3, <5>4, <5>5, Zenon DEF Parsed, r
      <4> QED
        BY <4>5, <4>6, <4>7, Zenon
    <3> QED
      BY <3>6, <3>7, <3>8, Zenon
  <2> QED
    BY <2>2, <2>3, <2>4, Zenon
<1> QED
  BY <1>9, <1>10

-----------------------------------------------------------------------------
(* What a line says.                                                       *)

LEMMA QuotesAre ==
    ASSUME NEW line, NEW m, IsBuffer(line, m)
    PROVE  /\ Quotes(line) \in SUBSET Nat /\ IsFiniteSet(Quotes(line))
           /\ \A q : q \in Quotes(line) <=> q \in 1..m /\ line[q] = QUOTE /\ ~Escaped(line, q)
<1>1. m \in Nat /\ DOMAIN line = 1..m
  BY BufferIs
<1>2. \A q : q \in Quotes(line) <=> q \in 1..m /\ line[q] = QUOTE /\ ~Escaped(line, q)
  BY <1>1, Zenon DEF Quotes
<1>3. Quotes(line) \in SUBSET (1..m)
  BY <1>2, Zenon
<1>4. IsFiniteSet(1..m)
  <2>1. 1 \in Int /\ m \in Int
    BY <1>1
  <2> QED
    BY <2>1, FS_Interval
<1>5. IsFiniteSet(Quotes(line))
  BY <1>3, <1>4, FS_Subset
<1>6. Quotes(line) \in SUBSET Nat
  <2>1. 1..m \subseteq Nat
    BY <1>1
  <2> QED
    BY <1>3, <2>1
<1> QED
  BY <1>2, <1>5, <1>6, Zenon

LEMMA VisibleAre ==
    ASSUME NEW line, NEW m, IsBuffer(line, m)
    PROVE  /\ Visible(line) \in SUBSET Nat /\ IsFiniteSet(Visible(line))
           /\ \A i : i \in Visible(line) <=> i \in 1..m /\ line[i] # BLANK
<1>1. m \in Nat /\ DOMAIN line = 1..m
  BY BufferIs
<1>2. \A i : i \in Visible(line) <=> i \in 1..m /\ line[i] # BLANK
  BY <1>1, Zenon DEF Visible
<1>3. Visible(line) \in SUBSET (1..m)
  BY <1>2, Zenon
<1>4. IsFiniteSet(1..m)
  <2>1. 1 \in Int /\ m \in Int
    BY <1>1
  <2> QED
    BY <2>1, FS_Interval
<1>5. IsFiniteSet(Visible(line))
  BY <1>3, <1>4, FS_Subset
<1>6. Visible(line) \in SUBSET Nat
  <2>1. 1..m \subseteq Nat
    BY <1>1
  <2> QED
    BY <1>3, <2>1
<1> QED
  BY <1>2, <1>5, <1>6, Zenon

\* A character behind something else than a backslash is not escaped.
LEMMA NotEscaped ==
    ASSUME NEW line, NEW i \in Nat \ {0}, i = 1 \/ line[i - 1] # ESCAPE
    PROVE  ~Escaped(line, i)
<1>1. CASE i = 1
  <2>1. \A k \in 1..(1 - 1) : FALSE
    OBVIOUS
  <2> QED
    BY <1>1, <2>1, Zenon DEF Escaped
<1>2. CASE i # 1
  <2>1. i - 1 \in Nat \ {0} /\ (i - 1) + 1 = i
    BY <1>2
  <2>2. Escaped(line, (i - 1) + 1) <=> (line[i - 1] = ESCAPE /\ ~Escaped(line, i - 1))
    BY <2>1, EscapedStep, Zenon
  <2> QED
    BY <1>2, <2>1, <2>2, Zenon
<1> QED
  BY <1>1, <1>2

\* What is between two places.
LEMMA MiddleOf ==
    ASSUME NEW line, NEW m, IsBuffer(line, m), NEW a \in 1..m, NEW z \in (a + 1)..m
    PROVE  /\ IsBuffer(SubSeq(line, a + 1, z - 1), z - (a + 1))
           /\ \A k \in 1..(z - (a + 1)) : SubSeq(line, a + 1, z - 1)[k] = line[a + k]
<1>1. m \in Nat /\ line \in Seq({line[k] : k \in 1..m}) /\ Len(line) = m
  BY BufferIs
<1>2. SubSeq(line, a + 1, z - 1) = [k \in 1..(z - (a + 1)) |-> line[a + k]]
  BY <1>1
<1>3. z - (a + 1) \in Nat
  BY <1>1
<1> QED
  BY <1>2, <1>3 DEF IsBuffer

\* A value and a unit, between the quotes a and z, at the places v and u.
ValuePlaces(line, a, z, v, u) ==
    /\ v \in (a + 1)..(z - 1) /\ u \in (a + 1)..(z - 1) /\ v < u
    /\ \A k \in (a + 1)..(z - 1) : line[k] # BLANK <=> k = v \/ k = u
    /\ line[v] \in DOMAIN Number /\ line[u] \in {"C", "F"}
    /\ v + 1 < z /\ line[v + 1] = BLANK
    /\ u + 1 < z /\ line[u + 1] = BLANK

\* It is said by what is between them.
Said(middle, line, v, u) ==
    /\ ValueAndUnit(middle)
    /\ Word(middle, 1) = line[v] /\ Word(middle, 2) = line[u]

LEMMA PlacesAreValue ==
    ASSUME NEW line, NEW m, IsBuffer(line, m), NEW a \in 1..m, NEW z \in (a + 1)..m,
           NEW v, NEW u, ValuePlaces(line, a, z, v, u)
    PROVE  Said(SubSeq(line, a + 1, z - 1), line, v, u)
<1> DEFINE middle == SubSeq(line, a + 1, z - 1)
           w == z - (a + 1)
<1>1. m \in Nat
  BY BufferIs
<1>2. IsBuffer(middle, w) /\ \A k \in 1..w : middle[k] = line[a + k]
  BY MiddleOf
<1> HIDE DEF middle
<1>3. Len(middle) = w
  BY <1>2, BufferIs
<1>4. /\ v \in (a + 1)..(z - 1) /\ u \in (a + 1)..(z - 1) /\ v < u
      /\ \A k \in (a + 1)..(z - 1) : line[k] # BLANK <=> k = v \/ k = u
      /\ line[v] \in DOMAIN Number /\ line[u] \in {"C", "F"}
      /\ v + 1 < z /\ line[v + 1] = BLANK
      /\ u + 1 < z /\ line[u + 1] = BLANK
  BY Zenon DEF ValuePlaces
<1>5. PICK x \in Nat, y \in Nat :
        /\ x \in 1..w /\ y \in 1..w /\ x < y /\ a + x = v /\ a + y = u
        /\ x < w /\ y < w /\ x + 1 \in 1..w /\ y + 1 \in 1..w
        /\ a + (x + 1) = v + 1 /\ a + (y + 1) = u + 1
  <2>1. /\ v - a \in Nat /\ u - a \in Nat /\ v - a \in 1..w /\ u - a \in 1..w
        /\ v - a < u - a /\ a + (v - a) = v /\ a + (u - a) = u
        /\ v - a < w /\ u - a < w /\ (v - a) + 1 \in 1..w /\ (u - a) + 1 \in 1..w
        /\ a + ((v - a) + 1) = v + 1 /\ a + ((u - a) + 1) = u + 1
    BY <1>1, <1>4
  <2> HIDE DEF w
  <2> QED
    BY <2>1
<1>6. Visible(middle) = {x, y}
  <2>1. ASSUME NEW k \in 1..w PROVE middle[k] # BLANK <=> k = x \/ k = y
    <3>1. a + k \in (a + 1)..(z - 1) /\ (a + k = v <=> k = x) /\ (a + k = u <=> k = y)
      BY <1>1, <1>5
    <3> QED
      BY <1>2, <1>4, <3>1, Zenon
  <2>2. \A i : i \in Visible(middle) <=> i \in 1..w /\ middle[i] # BLANK
    BY <1>2, VisibleAre
  <2> HIDE DEF w
  <2> QED
    BY <1>5, <2>1, <2>2
<1>7. /\ Cardinality({x, y}) = 2
      /\ Ascending({x, y})[1] = x /\ Ascending({x, y})[2] = y
  BY <1>5, TwoInOrder
<1>8. Word(middle, 1) = middle[x] /\ Word(middle, 2) = middle[y]
  BY <1>6, <1>7, Zenon DEF Word
<1>9. Word(middle, 1) = line[v] /\ Word(middle, 2) = line[u]
  BY <1>2, <1>5, <1>8, Zenon
<1>10. middle[x + 1] = BLANK /\ middle[y + 1] = BLANK
  BY <1>2, <1>4, <1>5, Zenon
<1>11. \A i \in Visible(middle) : i < Len(middle) /\ middle[i + 1] = BLANK
  <2>1. \A i \in {x, y} : i = x \/ i = y
    OBVIOUS
  <2> QED
    BY <1>3, <1>5, <1>6, <1>10, <2>1, Zenon
<1>12. ValueAndUnit(middle)
  BY <1>4, <1>6, <1>7, <1>9, <1>11, Zenon DEF ValueAndUnit
<1> QED
  BY <1>9, <1>12, Zenon DEF Said, middle

LEMMA ValueHasPlaces ==
    ASSUME NEW line, NEW m, IsBuffer(line, m), NEW a \in 1..m, NEW z \in (a + 1)..m,
           ValueAndUnit(SubSeq(line, a + 1, z - 1))
    PROVE  \E v, u \in 1..m : ValuePlaces(line, a, z, v, u)
<1> DEFINE middle == SubSeq(line, a + 1, z - 1)
           w == z - (a + 1)
           x == Ascending(Visible(middle))[1]
           y == Ascending(Visible(middle))[2]
<1>1. m \in Nat
  BY BufferIs
<1>2. IsBuffer(middle, w) /\ \A k \in 1..w : middle[k] = line[a + k]
  BY MiddleOf
<1>3. ValueAndUnit(middle)
  OBVIOUS
<1> HIDE DEF middle
<1>4. Len(middle) = w /\ w \in Nat
  BY <1>2, BufferIs
<1>5. /\ Cardinality(Visible(middle)) = 2
      /\ Word(middle, 1) \in DOMAIN Number
      /\ Word(middle, 2) \in {"C", "F"}
      /\ \A i \in Visible(middle) : i < Len(middle) /\ middle[i + 1] = BLANK
  BY <1>3, Zenon DEF ValueAndUnit
<1>6. /\ Visible(middle) \in SUBSET Nat /\ IsFiniteSet(Visible(middle))
      /\ \A i : i \in Visible(middle) <=> i \in 1..w /\ middle[i] # BLANK
  BY <1>2, VisibleAre
<1>7. Visible(middle) = {x, y} /\ x < y
  BY <1>5, <1>6, TwoOf
<1>8. middle[x] \in DOMAIN Number /\ middle[y] \in {"C", "F"}
  BY <1>5, Zenon DEF Word
<1> HIDE DEF x, y
<1>9. x \in Visible(middle) /\ y \in Visible(middle)
  BY <1>7
<1>10. /\ x \in 1..w /\ y \in 1..w /\ x < w /\ y < w
       /\ middle[x + 1] = BLANK /\ middle[y + 1] = BLANK
  BY <1>4, <1>5, <1>6, <1>9, Zenon
<1> DEFINE v == a + x
           u == a + y
<1>11. /\ v \in (a + 1)..(z - 1) /\ u \in (a + 1)..(z - 1) /\ v < u
       /\ v + 1 < z /\ u + 1 < z /\ x + 1 \in 1..w /\ y + 1 \in 1..w
       /\ a + (x + 1) = v + 1 /\ a + (y + 1) = u + 1 /\ v \in 1..m /\ u \in 1..m
  BY <1>1, <1>4, <1>7, <1>10
<1>12. \A k \in (a + 1)..(z - 1) : line[k] # BLANK <=> k = v \/ k = u
  <2>1. ASSUME NEW k \in (a + 1)..(z - 1) PROVE line[k] # BLANK <=> k = v \/ k = u
    <3>1. k - a \in 1..w /\ a + (k - a) = k /\ (k = v <=> k - a = x) /\ (k = u <=> k - a = y)
      BY <1>1, <1>4, <1>10
    <3>2. middle[k - a] = line[a + (k - a)]
      BY <1>2, <3>1, Zenon
    <3>3. k - a \in Visible(middle) <=> middle[k - a] # BLANK
      BY <1>6, <3>1, Zenon
    <3>4. k - a \in {x, y} <=> k - a = x \/ k - a = y
      OBVIOUS
    <3> HIDE DEF v, u
    <3> QED
      BY <1>7, <3>1, <3>2, <3>3, <3>4, Zenon
  <2> QED
    BY <2>1
<1>13. line[v] = middle[x] /\ line[u] = middle[y]
  BY <1>2, <1>10, Zenon
<1>14. line[v + 1] = BLANK /\ line[u + 1] = BLANK
  <2>1. middle[x + 1] = line[a + (x + 1)] /\ middle[y + 1] = line[a + (y + 1)]
    BY <1>2, <1>11, Zenon
  <2> HIDE DEF v, u
  <2> QED
    BY <1>10, <1>11, <2>1, Zenon
<1> HIDE DEF v, u
<1>15. ValuePlaces(line, a, z, v, u)
  BY <1>8, <1>11, <1>12, <1>13, <1>14, Zenon DEF ValuePlaces
<1> QED
  BY <1>11, <1>15, Zenon

\* The first four quotes.
FourQuotes(line, a, b, c, d) ==
    /\ a \in Quotes(line) /\ b \in Quotes(line) /\ c \in Quotes(line) /\ d \in Quotes(line)
    /\ a < b /\ b < c /\ c < d
    /\ \A z \in Quotes(line) :
          a <= z /\ (a < z => b <= z) /\ (b < z => c <= z) /\ (c < z => d <= z)

LEMMA QuotesInOrder ==
    ASSUME NEW line, NEW m, IsBuffer(line, m), NEW a, NEW b, NEW c, NEW d,
           FourQuotes(line, a, b, c, d)
    PROVE  /\ Cardinality(Quotes(line)) >= 4
           /\ Quote(line, 1) = a /\ Quote(line, 2) = b /\ Quote(line, 3) = c /\ Quote(line, 4) = d
<1> DEFINE S == Quotes(line)
           N == Cardinality(S)
<1>1. S \in SUBSET Nat /\ IsFiniteSet(S)
  BY QuotesAre
<1>2. /\ a \in S /\ b \in S /\ c \in S /\ d \in S
      /\ a < b /\ b < c /\ c < d
      /\ \A z \in S :
            a <= z /\ (a < z => b <= z) /\ (b < z => c <= z) /\ (c < z => d <= z)
  BY Zenon DEF FourQuotes
<1> HIDE DEF S
<1>3. N \in Nat
  BY <1>1, Ranked, Zenon
<1>4. N >= 1 /\ Ascending(S)[1] = a
  BY <1>1, <1>2, FirstInOrder
<1>5. 1 \in 1..N /\ 1 + 1 = 2
  BY <1>3, <1>4
<1>6. 1 + 1 <= N /\ Ascending(S)[1 + 1] = b
  BY <1>1, <1>2, <1>4, <1>5, NextInOrder
<1>7. 2 \in 1..N /\ 2 + 1 = 3 /\ Ascending(S)[2] = b
  BY <1>3, <1>5, <1>6
<1>8. 2 + 1 <= N /\ Ascending(S)[2 + 1] = c
  BY <1>1, <1>2, <1>7, NextInOrder
<1>9. 3 \in 1..N /\ 3 + 1 = 4 /\ Ascending(S)[3] = c
  BY <1>3, <1>7, <1>8
<1>10. 3 + 1 <= N /\ Ascending(S)[3 + 1] = d
  BY <1>1, <1>2, <1>9, NextInOrder
<1>11. N >= 4
  BY <1>3, <1>10
<1> QED
  BY <1>4, <1>7, <1>9, <1>10, <1>11 DEF Quote, S

LEMMA FourthQuote ==
    ASSUME NEW line, NEW m, IsBuffer(line, m), Cardinality(Quotes(line)) >= 4
    PROVE  FourQuotes(line, Quote(line, 1), Quote(line, 2), Quote(line, 3), Quote(line, 4))
<1> DEFINE S == Quotes(line)
           N == Cardinality(S)
<1>1. S \in SUBSET Nat /\ IsFiniteSet(S) /\ N >= 4
  BY QuotesAre
<1> HIDE DEF S
<1>2. N \in Nat
  BY <1>1, Ranked, Zenon
<1>3. /\ 1 \in 1..N /\ 1 + 1 \in 1..N /\ 2 \in 1..N /\ 2 + 1 \in 1..N /\ 3 \in 1..N
      /\ 3 + 1 \in 1..N /\ N >= 1 /\ 1 + 1 = 2 /\ 2 + 1 = 3 /\ 3 + 1 = 4
  BY <1>1, <1>2
<1>4. /\ Ascending(S)[1] \in S /\ \A z \in S : Ascending(S)[1] <= z
  BY <1>1, <1>3, LeastIsFirst
<1>5. /\ Ascending(S)[2] \in S /\ Ascending(S)[1] < Ascending(S)[2]
      /\ \A z \in S : Ascending(S)[1] < z => Ascending(S)[2] <= z
  BY <1>1, <1>3, Consecutive
<1>6. /\ Ascending(S)[3] \in S /\ Ascending(S)[2] < Ascending(S)[3]
      /\ \A z \in S : Ascending(S)[2] < z => Ascending(S)[3] <= z
  BY <1>1, <1>3, Consecutive
<1>7. /\ Ascending(S)[4] \in S /\ Ascending(S)[3] < Ascending(S)[4]
      /\ \A z \in S : Ascending(S)[3] < z => Ascending(S)[4] <= z
  BY <1>1, <1>3, Consecutive
<1> QED
  BY <1>4, <1>5, <1>6, <1>7, Zenon DEF Quote, FourQuotes, S

\* The places of an entry, from its quotes.
Places(line, q1, q2, v, u, d, q4) ==
    /\ FourQuotes(line, q1, q2, d, q4)
    /\ \A k \in 1..(q1 - 1) : line[k] = BLANK
    /\ ValuePlaces(line, q2, d, v, u)

LEMMA Characters ==
    /\ QUOTE # BLANK /\ QUOTE # ESCAPE /\ BLANK # ESCAPE
    /\ QUOTE \notin DOMAIN Number /\ BLANK \notin DOMAIN Number
    /\ QUOTE \notin {"C", "F"} /\ BLANK \notin {"C", "F"}
BY DatabaseAssumption DEF QUOTE, BLANK, ESCAPE

\* What the code finds are these places.
LEMMA ShapeHasPlaces ==
    ASSUME NEW line, NEW m, IsBuffer(line, m),
           NEW q1 \in 1..m, NEW q2 \in 1..m, NEW v \in 1..m, NEW u \in 1..m,
           NEW d \in 1..m, NEW q4 \in 1..m, Shape(line, m, q1, q2, v, u, d, q4)
    PROVE  Places(line, q1, q2, v, u, d, q4)
<1>1. m \in Nat
  BY BufferIs
<1>2. /\ First(line, m, 1, q1) /\ Extracts(line, m, q1, q2)
      /\ First(line, m, q2 + 1, v) /\ line[v] \in DOMAIN Number
      /\ Unit(line, m, v, u)
      /\ First(line, m, u + 1, d) /\ Extracts(line, m, d, q4)
  BY Zenon DEF Shape, Valued, Described
<1>3. /\ \A k \in 1..(q1 - 1) : line[k] = BLANK
      /\ line[q1] = QUOTE
      /\ q2 \in (q1 + 1)..m /\ NextQuote(line, q1 + 1, q2)
  BY <1>2, Zenon DEF First, Extracts
<1>4. /\ v \in (q2 + 1)..(m + 1) /\ \A k \in (q2 + 1)..(v - 1) : line[k] = BLANK
      /\ line[v + 1] = BLANK /\ v + 1 <= m
      /\ u \in (v + 1)..(m + 1) /\ \A k \in (v + 1)..(u - 1) : line[k] = BLANK
      /\ line[u] \in {"C", "F"} /\ line[u + 1] = BLANK /\ u + 1 <= m
  BY <1>2, Zenon DEF First, Unit
<1>5. /\ d \in (u + 1)..(m + 1) /\ \A k \in (u + 1)..(d - 1) : line[k] = BLANK
      /\ line[d] = QUOTE
      /\ q4 \in (d + 1)..m /\ NextQuote(line, d + 1, q4)
  BY <1>2, Zenon DEF First, Extracts
<1>6. d # u + 1 /\ v # u /\ v + 1 # u
  BY <1>1, <1>2, <1>4, <1>5, Characters
<1>7. /\ q1 < q2 /\ q2 < v /\ v + 1 < u /\ u + 1 < d /\ d < q4
      /\ v \in (q2 + 1)..(d - 1) /\ u \in (q2 + 1)..(d - 1)
      /\ v < u /\ v + 1 < d /\ u + 1 < d /\ d - 1 \in (u + 1)..(d - 1)
  BY <1>1, <1>3, <1>4, <1>5, <1>6
<1>8. \A q : q \in Quotes(line) <=> q \in 1..m /\ line[q] = QUOTE /\ ~Escaped(line, q)
  BY QuotesAre, Zenon
<1>9. q1 \in Quotes(line)
  <2>1. q1 = 1 \/ q1 - 1 \in 1..(q1 - 1)
    BY <1>1
  <2>2. q1 \in Nat \ {0} /\ (q1 = 1 \/ line[q1 - 1] # ESCAPE)
    BY <1>3, <2>1, Characters
  <2>3. ~Escaped(line, q1)
    BY <2>2, NotEscaped
  <2> QED
    BY <1>3, <1>8, <2>3, Zenon
<1>10. d \in Quotes(line)
  <2>1. d \in Nat \ {0} /\ line[d - 1] # ESCAPE
    BY <1>5, <1>7, Characters
  <2>2. ~Escaped(line, d)
    BY <2>1, NotEscaped
  <2> QED
    BY <1>5, <1>8, <2>2, Zenon
<1>11. ASSUME NEW k \in (q2 + 1)..(d - 1) PROVE line[k] # BLANK <=> k = v \/ k = u
  <2>1. \/ k \in (q2 + 1)..(v - 1) \/ k = v \/ k \in (v + 1)..(u - 1) \/ k = u
        \/ k \in (u + 1)..(d - 1)
    BY <1>1, <1>7
  <2>2. \/ line[k] = BLANK /\ k # v /\ k # u
        \/ k = v \/ k = u
    BY <1>4, <1>5, <2>1, Zenon
  <2>3. line[v] # BLANK /\ line[u] # BLANK
    BY <1>2, <1>4, Characters
  <2> QED
    BY <2>2, <2>3, Zenon
<1>12. ValuePlaces(line, q2, d, v, u)
  BY <1>2, <1>4, <1>7, <1>11, Zenon DEF ValuePlaces
<1>13. \A z \in Quotes(line) : z \in 1..m /\ line[z] = QUOTE
  BY <1>8, Zenon
<1>14. ASSUME NEW z \in Quotes(line)
       PROVE  q1 <= z /\ (q1 < z => q2 <= z) /\ (q2 < z => d <= z) /\ (d < z => q4 <= z)
  <2>1. z \in 1..m /\ line[z] = QUOTE
    BY <1>13, Zenon
  <2>2. q1 <= z
    <3>1. ~(z \in 1..(q1 - 1))
      BY <1>3, <2>1, Characters, Zenon
    <3> QED
      BY <2>1, <3>1
  <2>3. q1 < z => q2 <= z
    <3>1. q1 + 1 <= z => q2 <= z
      BY <1>3, Zenon DEF NextQuote
    <3> QED
      BY <2>1, <3>1
  <2>4. q2 < z => d <= z
    <3>1. z \in (q2 + 1)..(d - 1) => z = v \/ z = u
      BY <1>11, <2>1, Characters, Zenon
    <3>2. z # v /\ z # u
      <4>1. line[v] # QUOTE
        BY <1>2, Characters, Zenon
      <4>2. line[u] # QUOTE
        BY <1>4, Characters, Zenon
      <4> QED
        BY <2>1, <4>1, <4>2, Zenon
    <3> QED
      BY <2>1, <3>1, <3>2
  <2>5. d < z => q4 <= z
    <3>1. d + 1 <= z => q4 <= z
      BY <1>5, Zenon DEF NextQuote
    <3> QED
      BY <2>1, <3>1
  <2> QED
    BY <2>2, <2>3, <2>4, <2>5
<1>15. q2 \in Quotes(line) /\ q4 \in Quotes(line)
  BY <1>3, <1>5, Zenon DEF NextQuote
<1>16. q1 < q2 /\ q2 < d /\ d < q4
  BY <1>7
<1>17. FourQuotes(line, q1, q2, d, q4)
  BY <1>9, <1>10, <1>14, <1>15, <1>16, Zenon DEF FourQuotes
<1> QED
  BY <1>3, <1>12, <1>17, Zenon DEF Places

LEMMA PlacesHaveShape ==
    ASSUME NEW line, NEW m, IsBuffer(line, m),
           NEW q1, NEW q2, NEW v \in 1..m, NEW u \in 1..m,
           NEW d, NEW q4, Places(line, q1, q2, v, u, d, q4)
    PROVE  Shape(line, m, q1, q2, v, u, d, q4)
<1>1. m \in Nat
  BY BufferIs
<1>2. \A q : q \in Quotes(line) <=> q \in 1..m /\ line[q] = QUOTE /\ ~Escaped(line, q)
  BY QuotesAre, Zenon
<1>3. /\ q1 \in Quotes(line) /\ q2 \in Quotes(line) /\ d \in Quotes(line) /\ q4 \in Quotes(line)
      /\ q1 < q2 /\ q2 < d /\ d < q4
      /\ \A z \in Quotes(line) :
            q1 <= z /\ (q1 < z => q2 <= z) /\ (q2 < z => d <= z) /\ (d < z => q4 <= z)
  BY Zenon DEF Places, FourQuotes
<1>4. /\ v \in (q2 + 1)..(d - 1) /\ u \in (q2 + 1)..(d - 1) /\ v < u
      /\ \A k \in (q2 + 1)..(d - 1) : line[k] # BLANK <=> k = v \/ k = u
      /\ line[v] \in DOMAIN Number /\ line[u] \in {"C", "F"}
      /\ v + 1 < d /\ line[v + 1] = BLANK
      /\ u + 1 < d /\ line[u + 1] = BLANK
  BY Zenon DEF Places, ValuePlaces
<1>5. \A k \in 1..(q1 - 1) : line[k] = BLANK
  BY Zenon DEF Places
<1>6. /\ q1 \in 1..m /\ q2 \in 1..m /\ d \in 1..m /\ q4 \in 1..m
      /\ line[q1] = QUOTE /\ line[d] = QUOTE
  BY <1>2, <1>3, Zenon
<1>7. /\ q1 \in 1..(m + 1) /\ q1 <= m /\ q2 \in (q1 + 1)..m /\ d <= m /\ q4 \in (d + 1)..m
      /\ q1 + 1 <= q2 /\ d + 1 <= q4
      /\ v \in (q2 + 1)..(m + 1) /\ v <= m /\ v + 1 <= m /\ u \in (v + 1)..(m + 1) /\ u + 1 <= m
      /\ d \in (u + 1)..(m + 1)
  BY <1>1, <1>3, <1>4, <1>6
<1>8. /\ \A k \in (q2 + 1)..(v - 1) : k \in (q2 + 1)..(d - 1) /\ k # v /\ k # u
      /\ \A k \in (v + 1)..(u - 1) : k \in (q2 + 1)..(d - 1) /\ k # v /\ k # u
      /\ \A k \in (u + 1)..(d - 1) : k \in (q2 + 1)..(d - 1) /\ k # v /\ k # u
  BY <1>1, <1>4, <1>6
<1>9. /\ \A k \in (q2 + 1)..(v - 1) : line[k] = BLANK
      /\ \A k \in (v + 1)..(u - 1) : line[k] = BLANK
      /\ \A k \in (u + 1)..(d - 1) : line[k] = BLANK
  BY <1>4, <1>8, Zenon
<1>10. line[v] # BLANK /\ line[u] # BLANK /\ line[d] # BLANK /\ line[q1] # BLANK
  BY <1>4, <1>6, Characters, Zenon
<1>11. /\ First(line, m, 1, q1) /\ First(line, m, q2 + 1, v)
       /\ First(line, m, v + 1, u) /\ First(line, m, u + 1, d)
  BY <1>5, <1>7, <1>9, <1>10, Zenon DEF First
<1>12. \A z \in Quotes(line) : (q1 + 1 <= z => q2 <= z) /\ (d + 1 <= z => q4 <= z)
  <2>1. ASSUME NEW z \in Quotes(line)
        PROVE  (q1 + 1 <= z => q2 <= z) /\ (d + 1 <= z => q4 <= z)
    <3>1. z \in 1..m /\ (q1 < z => q2 <= z) /\ (d < z => q4 <= z)
      BY <1>2, <1>3, Zenon
    <3> QED
      BY <1>6, <3>1
  <2> QED
    BY <2>1
<1>13. NextQuote(line, q1 + 1, q2) /\ NextQuote(line, d + 1, q4)
  BY <1>3, <1>7, <1>12, Zenon DEF NextQuote
<1>14. Extracts(line, m, q1, q2) /\ Extracts(line, m, d, q4)
  BY <1>6, <1>7, <1>13, Zenon DEF Extracts
<1>15. Unit(line, m, v, u)
  BY <1>4, <1>7, <1>11, Zenon DEF Unit
<1>16. Valued(line, m, q2 + 1, v, u)
  BY <1>4, <1>7, <1>11, <1>15, Zenon DEF Valued
<1>17. Described(line, m, u + 1, d, q4)
  BY <1>11, <1>14, Zenon DEF Described
<1> QED
  BY <1>11, <1>14, <1>16, <1>17, Zenon DEF Shape

LEMMA ShortIs ==
    ASSUME NEW x \in Nat, x < 32768
    PROVE  Short(x) = x
<1>1. x % 65536 = x
  OBVIOUS
<1> QED
  BY <1>1 DEF Short

\* An entry is what the line means, and there is one just if the line is well
\* formed.
LEMMA PlacesMean ==
    ASSUME NEW line, NEW m, IsBuffer(line, m), Small(line),
           NEW q1, NEW q2, NEW v \in 1..m, NEW u \in 1..m,
           NEW d, NEW q4, Places(line, q1, q2, v, u, d, q4)
    PROVE  WellFormed(line) /\ Meaning(line) = EntryOf(line, q1, q2, v, u, d, q4)
<1>1. m \in Nat /\ DOMAIN line = 1..m
  BY BufferIs
<1>2. /\ FourQuotes(line, q1, q2, d, q4)
      /\ \A k \in 1..(q1 - 1) : line[k] = BLANK
      /\ ValuePlaces(line, q2, d, v, u)
  BY Zenon DEF Places
<1>3. /\ Cardinality(Quotes(line)) >= 4
      /\ Quote(line, 1) = q1 /\ Quote(line, 2) = q2 /\ Quote(line, 3) = d /\ Quote(line, 4) = q4
  BY <1>2, QuotesInOrder
<1>4. q2 \in 1..m /\ d \in 1..m /\ q2 < d
  BY <1>2, QuotesAre, Zenon DEF FourQuotes
<1>5. d \in (q2 + 1)..m
  BY <1>1, <1>4
<1>6. 1 + 1 = 2 /\ 2 + 1 = 3 /\ 3 + 1 = 4
  OBVIOUS
<1>7. /\ Between(line, 1) = SubSeq(line, q1 + 1, q2 - 1)
      /\ Between(line, 2) = SubSeq(line, q2 + 1, d - 1)
      /\ Between(line, 3) = SubSeq(line, d + 1, q4 - 1)
  BY <1>3, <1>6, Zenon DEF Between
<1>8. Said(Between(line, 2), line, v, u)
  BY <1>2, <1>4, <1>5, <1>7, PlacesAreValue, Zenon
<1>9. WellFormed(line)
  BY <1>2, <1>3, <1>8, Zenon DEF WellFormed, Said
<1>10. Number[line[v]] \in Nat /\ Number[line[v]] < 32768
  <2>1. line[v] \in DOMAIN Number /\ v \in DOMAIN line
    BY <1>1, <1>2, Zenon DEF ValuePlaces
  <2>2. Number[line[v]] < 32768
    BY <2>1 DEF Small
  <2>3. Number[line[v]] \in Nat
    BY <2>1, DatabaseAssumption, Zenon
  <2> QED
    BY <2>2, <2>3
<1>11. Short(Number[line[v]]) = Number[line[v]]
  BY <1>10, ShortIs
<1>12. Meaning(line) = EntryOf(line, q1, q2, v, u, d, q4)
  BY <1>7, <1>8, <1>11, Zenon DEF Meaning, EntryOf, Said
<1> QED
  BY <1>9, <1>12

LEMMA WellFormedHasPlaces ==
    ASSUME NEW line, NEW m, IsBuffer(line, m), WellFormed(line)
    PROVE  \E v, u \in 1..m :
             Places(line, Quote(line, 1), Quote(line, 2), v, u, Quote(line, 3), Quote(line, 4))
<1>1. m \in Nat
  BY BufferIs
<1>2. /\ Cardinality(Quotes(line)) >= 4
      /\ \A i \in 1..(Quote(line, 1) - 1) : line[i] = BLANK
      /\ ValueAndUnit(Between(line, 2))
  BY Zenon DEF WellFormed
<1>3. FourQuotes(line, Quote(line, 1), Quote(line, 2), Quote(line, 3), Quote(line, 4))
  BY <1>2, FourthQuote
<1>4. PICK a \in 1..m, z \in 1..m : a = Quote(line, 2) /\ z = Quote(line, 3) /\ a < z
  BY <1>3, QuotesAre, Zenon DEF FourQuotes
<1>5. z \in (a + 1)..m
  BY <1>1, <1>4
<1>6. 2 + 1 = 3
  OBVIOUS
<1>7. ValueAndUnit(SubSeq(line, a + 1, z - 1))
  BY <1>2, <1>4, <1>6, Zenon DEF Between
<1>8. \E v, u \in 1..m : ValuePlaces(line, a, z, v, u)
  BY <1>5, <1>7, ValueHasPlaces
<1> QED
  BY <1>2, <1>3, <1>4, <1>8, Zenon DEF Places

\* What parse_db_line makes of a line.
Means(b, n, from, line, r) ==
    \/ Ignored(line) /\ r = Nothing(b)
    \/ /\ ~Ignored(line) /\ WellFormed(line)
       /\ r.status = 0 /\ r.entries = <<Meaning(line)>> /\ Behind(b, r.buff, n, from)
    \/ ~Ignored(line) /\ ~WellFormed(line) /\ r.status = 1

LEMMA LineMeans ==
    ASSUME NEW b, NEW n, NEW o, NEW line, NEW m, Lies(b, n, o, line, m, 1),
           ~Escaped(line, m + 1), Small(line)
    PROVE  Means(b, n, o + (m + 1) + 1, line, ParseDbLine(b, o + 1))
<1> DEFINE r == ParseDbLine(b, o + 1)
<1>1. Parsed(b, n, o, line, m, r)
  BY ParseInLine
<1>2. IsBuffer(line, m)
  BY Zenon DEF Lies
<1> HIDE DEF r
<1>3. CASE Ignored(line) /\ r = Nothing(b)
  BY <1>3, Zenon DEF Means, r
<1>4. CASE /\ ~Ignored(line) /\ r.status = 0 /\ Behind(b, r.buff, n, o + (m + 1) + 1)
           /\ \E q1, q2, v, u, d, q4 \in 1..m :
                 /\ Shape(line, m, q1, q2, v, u, d, q4)
                 /\ r.entries = <<EntryOf(line, q1, q2, v, u, d, q4)>>
  <2>1. PICK q1, q2, v, u, d, q4 \in 1..m :
                 /\ Shape(line, m, q1, q2, v, u, d, q4)
                 /\ r.entries = <<EntryOf(line, q1, q2, v, u, d, q4)>>
    BY <1>4, Zenon
  <2>2. Places(line, q1, q2, v, u, d, q4)
    BY <1>2, <2>1, ShapeHasPlaces, Zenon
  <2>3. WellFormed(line) /\ Meaning(line) = EntryOf(line, q1, q2, v, u, d, q4)
    BY <1>2, <2>2, PlacesMean, Zenon
  <2> QED
    BY <1>4, <2>1, <2>3, Zenon DEF Means, r
<1>5. CASE /\ ~Ignored(line) /\ r.status = 1
           /\ \A q1, q2, v, u, d, q4 : ~Shape(line, m, q1, q2, v, u, d, q4)
  <2>1. ASSUME WellFormed(line) PROVE FALSE
    <3>1. PICK v, u \in 1..m :
             Places(line, Quote(line, 1), Quote(line, 2), v, u, Quote(line, 3), Quote(line, 4))
      BY <1>2, <2>1, WellFormedHasPlaces, Zenon
    <3>2. Shape(line, m, Quote(line, 1), Quote(line, 2), v, u, Quote(line, 3), Quote(line, 4))
      BY <1>2, <3>1, PlacesHaveShape, Zenon
    <3> QED
      BY <1>5, <3>2, Zenon
  <2> QED
    BY <1>5, <2>1, Zenon DEF Means, r
<1> QED
  BY <1>1, <1>3, <1>4, <1>5, Zenon DEF Parsed

\* Whatever the line is, the entries have expressions of some length.
Entered(n, r) ==
    /\ r.status \in {0, 1} /\ IsBuffer(r.buff, n)
    /\ r.entries = <<>> \/ \E x : r.entries = <<x>> /\ Len(x.regexp) \in Nat

LEMMA NothingEntered ==
    ASSUME NEW b, NEW n, IsBuffer(b, n)
    PROVE  Entered(n, Nothing(b)) /\ Entered(n, SyntaxError(b))
BY DEF Entered, Nothing, SyntaxError

LEMMA ParseEnters ==
    ASSUME NEW b, NEW n, IsBuffer(b, n), NEW i \in 1..(n + 1)
    PROVE  Entered(n, ParseDbLine(b, i))
<1>1. n \in Nat /\ Len(b) = n
  BY BufferIs
<1>2. ASSUME NEW c, IsBuffer(c, n), NEW regexp, Len(regexp) \in Nat, NEW id, NEW unit, NEW j
      PROVE  Entered(n, ParseDescription(c, regexp, id, unit, j))
  <2> DEFINE p == ExtractString(c, SkipBlanks(c, j))
             x == Entry(regexp, id, unit, String(Cut(c, p), SkipBlanks(c, j) + 1))
             r == [status |-> 0, buff |-> Cut(c, p), entries |-> <<x>>]
  <2>1. ParseDescription(c, regexp, id, unit, j) = IF p = NULL THEN SyntaxError(c) ELSE r
    BY Zenon DEF ParseDescription
  <2>2. IsBuffer(Cut(c, p), n)
    BY <1>2, CutIs
  <2>3. x.regexp = regexp
    BY DEF Entry
  <2> HIDE DEF p, x
  <2>4. Entered(n, r)
    <3>1. r.status = 0 /\ r.buff = Cut(c, p) /\ r.entries = <<x>> /\ Len(x.regexp) \in Nat
      BY <1>2, <2>3
    <3> HIDE DEF r
    <3> QED
      BY <2>2, <3>1 DEF Entered
  <2> HIDE DEF r
  <2> QED
    BY <1>2, <2>1, <2>4, NothingEntered, Zenon
<1>3. ASSUME NEW c, IsBuffer(c, n), NEW regexp, Len(regexp) \in Nat, NEW j
      PROVE  Entered(n, ParseValue(c, regexp, j))
  <2>1. \/ ParseValue(c, regexp, j) = SyntaxError(c)
        \/ \E id, unit, k : ParseValue(c, regexp, j) = ParseDescription(c, regexp, id, unit, k)
    BY Zenon DEF ParseValue
  <2> QED
    BY <1>2, <1>3, <2>1, NothingEntered, Zenon
<1> DEFINE line == SkipBlanks(b, i)
           p == ExtractString(b, line)
           cut == Cut(b, p)
<1>4. \/ ParseDbLine(b, i) = Nothing(b) \/ ParseDbLine(b, i) = SyntaxError(b)
      \/ p # NULL /\ ParseDbLine(b, i) = ParseValue(cut, String(cut, line + 1), p + 1)
  <2>1. ParseDbLine(b, i) =
          CASE At(b, line) \in {HASH, NUL} -> Nothing(b)
            [] At(b, line) \notin {HASH, NUL} /\ p = NULL -> SyntaxError(b)
            [] At(b, line) \notin {HASH, NUL} /\ p # NULL ->
                  ParseValue(cut, String(cut, line + 1), p + 1)
    BY Zenon DEF ParseDbLine
  <2> HIDE DEF line, p, cut
  <2> QED
    BY <2>1, Zenon
<1>5. IsBuffer(cut, n)
  BY CutIs
<1>6. p # NULL => Len(String(cut, line + 1)) \in Nat
  <2> SUFFICES ASSUME p # NULL PROVE Len(String(cut, line + 1)) \in Nat
    OBVIOUS
  <2>1. At(b, line) = QUOTE
    BY Zenon DEF ExtractString
  <2>2. line \in i..(n + 1)
    BY SkipStops, Zenon
  <2>3. line \in 1..n
    <3>1. line \in Int /\ ~(line \in 1..n) => At(b, line) = NUL
      BY AtIs
    <3>2. NUL # QUOTE
      BY DEF NUL, QUOTE
    <3> HIDE DEF line
    <3>3. line \in Int
      BY <1>1, <2>2
    <3> QED
      BY <2>1, <3>1, <3>2, <3>3, Zenon
  <2> HIDE DEF line, cut
  <2>4. line + 1 \in 1..(n + 1)
    BY <1>1, <2>3
  <2> QED
    BY <1>5, <2>4, StringLength
<1> HIDE DEF line, p, cut
<1> QED
  BY <1>3, <1>4, <1>5, <1>6, NothingEntered, Zenon

-----------------------------------------------------------------------------
(***************************************************************************)
(* The inductive invariant.  What the list says is known as long as every  *)
(* line is plain: only then is what lies behind the line untouched.        *)
(***************************************************************************)

\* Where the next line begins, a line of the file begins.
AtLine == s = 1 \/ (s - 1 \in 1..Len(file) /\ file[s - 1] = NEWLINE)
Unread == phase = "lines" => \A k \in s..Len(file) : buff[k] = file[k]

\* A list of entries whose expressions have a length.
EntryList(list, n) ==
    /\ n \in Nat /\ list = [k \in 1..n |-> list[k]]
    /\ \A k \in 1..n : Len(list[k].regexp) \in Nat

DatabaseInv ==
    /\ file \in Buffers /\ IsBuffer(file, Len(file)) /\ IsBuffer(buff, Len(file))
    /\ s \in 1..(Len(file) + 1)
    /\ phase \in {"lines", "loaded", "freed", "exit"}
    /\ \E n \in Nat : EntryList(supported_drives, n)
    /\ Plain => AtLine /\ Unread /\ LinesSay

LEMMA EndsFinite ==
    ASSUME DatabaseInv
    PROVE  /\ Ends \in SUBSET Nat /\ IsFiniteSet(Ends)
           /\ Saying \in SUBSET Nat /\ IsFiniteSet(Saying)
           /\ \A e \in Ends : e < s
<1>1. s \in Nat
  BY BufferIs DEF DatabaseInv
<1>2. Ends \in SUBSET (1..(s - 1)) /\ Saying \in SUBSET Ends
  BY Zenon DEF Ends, Saying
<1>3. IsFiniteSet(1..(s - 1))
  <2>1. 1 \in Int /\ s - 1 \in Int
    BY <1>1
  <2> QED
    BY <2>1, FS_Interval
<1>4. 1..(s - 1) \subseteq Nat /\ \A e \in 1..(s - 1) : e < s
  BY <1>1
<1>5. IsFiniteSet(Ends)
  BY <1>2, <1>3, FS_Subset
<1>6. IsFiniteSet(Saying)
  BY <1>2, <1>5, FS_Subset
<1> QED
  BY <1>2, <1>4, <1>5, <1>6

LEMMA FilesAreBuffers == \A b \in Buffers : IsBuffer(b, Len(b))
<1> SUFFICES ASSUME NEW b \in Buffers PROVE IsBuffer(b, Len(b))
  OBVIOUS
<1>1. b \in Seq({b[i] : i \in DOMAIN b})
  BY DatabaseAssumption
<1> QED
  BY <1>1, SequenceIs DEF IsBuffer

LEMMA DatabaseInvInit == DatabaseInit => DatabaseInv
<1> SUFFICES ASSUME DatabaseInit PROVE DatabaseInv
  OBVIOUS
<1>1. /\ file \in Buffers /\ buff = file /\ s = 1 /\ phase = "lines"
      /\ supported_drives = <<>>
  BY Zenon DEF DatabaseInit
<1>3. IsBuffer(file, Len(file))
  BY <1>1, FilesAreBuffers
<1>4. EntryList(supported_drives, 0)
  BY <1>1 DEF EntryList
<1>5. Ends = {}
  <2>1. 1..(s - 1) = {}
    BY <1>1
  <2> QED
    BY <2>1 DEF Ends
<1>6. Saying = {} /\ Wrong = {}
  BY <1>5 DEF Saying, Wrong
<1>7. DOMAIN Ascending({}) = {}
  BY FS_EmptySet DEF Ascending
<1>8. LinesSay
  <2>1. supported_drives = Meanings(file, Saying)
    BY <1>1, <1>6, <1>7 DEF Meanings
  <2> QED
    BY <1>1, <1>6, <2>1 DEF LinesSay
<1>9. s \in 1..(Len(file) + 1)
  BY <1>1, <1>3 DEF IsBuffer
<1>10. 0 \in Nat
  OBVIOUS
<1> QED
  BY <1>1, <1>3, <1>4, <1>8, <1>9, <1>10 DEF DatabaseInv, AtLine, Unread

LEMMA SameLines ==
    ASSUME file' = file, s' = s
    PROVE  /\ Ends' = Ends /\ Saying' = Saying /\ Wrong' = Wrong
           /\ (Plain' <=> Plain) /\ (AtLine' <=> AtLine)
BY Zenon DEF Ends, Saying, Wrong, Plain, AtLine

\* The line that is parsed next.
NextEnd == Min(Newlines(buff))

LEMMA NextLine ==
    ASSUME DatabaseInv, Newlines(buff) # {}
    PROVE  /\ NextEnd \in s..Len(file) /\ buff[NextEnd] = NEWLINE
           /\ \A k \in s..(NextEnd - 1) : buff[k] # NEWLINE
<1>1. IsBuffer(file, Len(file)) /\ IsBuffer(buff, Len(file)) /\ s \in 1..(Len(file) + 1)
  BY Zenon DEF DatabaseInv
<1>2. Len(file) \in Nat /\ DOMAIN buff = 1..Len(file)
  BY <1>1, BufferIs
<1>3. \A i : i \in Newlines(buff) <=> i \in 1..Len(file) /\ buff[i] = NEWLINE /\ i >= s
  BY <1>2, Zenon DEF Newlines
<1>4. Newlines(buff) \subseteq Nat
  <2>1. 1..Len(file) \subseteq Nat
    BY <1>2
  <2> QED
    BY <1>3, <2>1, Zenon
<1>5. PICK e \in Newlines(buff) : \A i \in Newlines(buff) : e <= i
  BY <1>4, LeastOf
<1>6. NextEnd = e
  <2>1. \A i \in Newlines(buff) : (\A j \in Newlines(buff) : i <= j) => i = e
    BY <1>4, <1>5
  <2> QED
    BY <1>5, <2>1 DEF NextEnd, Min
<1>7. e \in 1..Len(file) /\ buff[e] = NEWLINE /\ e >= s
  BY <1>3, <1>5, Zenon
<1>8. ASSUME NEW k \in s..(e - 1) PROVE buff[k] # NEWLINE
  <2>1. k \in 1..Len(file) /\ k >= s /\ ~(e <= k)
    BY <1>1, <1>2, <1>7
  <2> QED
    BY <1>3, <1>5, <2>1, Zenon
<1> QED
  BY <1>1, <1>2, <1>6, <1>7, <1>8

LEMMA ParseLineIs ==
    ASSUME DatabaseInv, ParseLine
    PROVE  LET r == ParseDbLine(Cut(buff, NextEnd), s)
           IN  /\ phase = "lines" /\ Newlines(buff) # {}
               /\ buff' = r.buff /\ supported_drives' = supported_drives \o r.entries
               /\ s' = NextEnd + 1 /\ file' = file
               /\ phase' = IF r.status = 1 THEN "exit" ELSE phase
BY Zenon DEF ParseLine, NextEnd, Added

\* The entries are added to the list.
LEMMA ListGrows ==
    ASSUME NEW list, NEW n \in Nat, EntryList(list, n), NEW entries,
           entries = <<>> \/ \E x : entries = <<x>> /\ Len(x.regexp) \in Nat
    PROVE  \E k \in Nat : EntryList(list \o entries, k)
<1>1. list = [k \in 1..n |-> list[k]] /\ \A k \in 1..n : Len(list[k].regexp) \in Nat
  BY Zenon DEF EntryList
<1>2. Len(list) = n /\ list \in Seq({list[k] : k \in 1..n})
  BY <1>1, SequenceOfFunction
<1>3. CASE entries = <<>>
  <2>1. list \o entries = list
    BY <1>2, <1>3
  <2> QED
    BY <2>1
<1>4. CASE \E x : entries = <<x>> /\ Len(x.regexp) \in Nat
  <2>1. PICK x : entries = <<x>> /\ Len(x.regexp) \in Nat
    BY <1>4
  <2>2. /\ list \o entries = [k \in 1..(n + 1) |-> IF k <= n THEN list[k] ELSE x]
    BY <1>1, <1>2, <2>1
  <2> DEFINE grown == list \o entries
  <2>3. /\ grown = [k \in 1..(n + 1) |-> grown[k]]
        /\ \A k \in 1..n : grown[k] = list[k]
        /\ grown[n + 1] = x
    BY <2>2
  <2> HIDE DEF grown
  <2>4. \A k \in 1..(n + 1) : k \in 1..n \/ k = n + 1
    OBVIOUS
  <2>5. \A k \in 1..(n + 1) : Len(grown[k].regexp) \in Nat
    BY <1>1, <2>1, <2>3, <2>4, Zenon
  <2>6. n + 1 \in Nat
    OBVIOUS
  <2>7. EntryList(grown, n + 1)
    BY <2>3, <2>5, <2>6, Zenon DEF EntryList
  <2> QED
    BY <2>6, <2>7 DEF grown
<1> QED
  BY <1>3, <1>4

\* The part of the invariant that does not depend on what the lines are.
LEMMA ParseLineTypes ==
    ASSUME DatabaseInv, ParseLine
    PROVE  /\ IsBuffer(buff', Len(file)) /\ s' \in 1..(Len(file) + 1)
           /\ phase' \in {"lines", "exit"}
           /\ \E n \in Nat : EntryList(supported_drives', n)
<1> DEFINE r == ParseDbLine(Cut(buff, NextEnd), s)
<1>1. /\ phase = "lines" /\ Newlines(buff) # {}
      /\ buff' = r.buff /\ supported_drives' = supported_drives \o r.entries
      /\ s' = NextEnd + 1 /\ phase' = IF r.status = 1 THEN "exit" ELSE phase
  BY ParseLineIs, Zenon
<1>2. /\ IsBuffer(buff, Len(file)) /\ s \in 1..(Len(file) + 1)
      /\ \E n \in Nat : EntryList(supported_drives, n)
  BY Zenon DEF DatabaseInv
<1>3. Len(file) \in Nat
  BY <1>2, BufferIs
<1>4. NextEnd \in s..Len(file)
  BY <1>1, NextLine
<1>5. IsBuffer(Cut(buff, NextEnd), Len(file))
  BY <1>2, CutIs
<1>6. Entered(Len(file), r)
  BY <1>2, <1>5, ParseEnters
<1> HIDE DEF r
<1>7. /\ IsBuffer(r.buff, Len(file))
      /\ r.entries = <<>> \/ \E x : r.entries = <<x>> /\ Len(x.regexp) \in Nat
  BY <1>6, Zenon DEF Entered
<1>8. \E n \in Nat : EntryList(supported_drives', n)
  BY <1>1, <1>2, <1>7, ListGrows
<1>9. s' \in 1..(Len(file) + 1)
  BY <1>1, <1>2, <1>3, <1>4
<1> QED
  BY <1>1, <1>7, <1>8, <1>9

\* The next line of a file that has been plain so far.
LEMMA PlainLine ==
    ASSUME DatabaseInv, ParseLine, Plain'
    PROVE  /\ Plain
           /\ NextEnd \in s..Len(file) /\ file[NextEnd] = NEWLINE
           /\ Ends' = Ends \cup {NextEnd}
           /\ Line(file, NextEnd) = SubSeq(file, s, NextEnd - 1)
<1>1. /\ phase = "lines" /\ Newlines(buff) # {} /\ s' = NextEnd + 1 /\ file' = file
  BY ParseLineIs, Zenon
<1>2. /\ IsBuffer(file, Len(file)) /\ s \in 1..(Len(file) + 1)
  BY Zenon DEF DatabaseInv
<1>3. Len(file) \in Nat /\ DOMAIN file = 1..Len(file)
  BY <1>2, BufferIs
<1>4. /\ NextEnd \in s..Len(file) /\ buff[NextEnd] = NEWLINE
      /\ \A k \in s..(NextEnd - 1) : buff[k] # NEWLINE
  BY <1>1, NextLine
<1> DEFINE e == NextEnd
<1> HIDE DEF e
<1>5. e \in s..Len(file) /\ buff[e] = NEWLINE /\ s' = e + 1
      /\ \A k \in s..(e - 1) : buff[k] # NEWLINE
  BY <1>1, <1>4 DEF e
<1>6. Ends' = {i \in 1..e : file[i] = NEWLINE}
  <2>1. Ends' = {i \in 1..(s' - 1) : file'[i] = NEWLINE}
    BY DEF Ends
  <2>2. s' - 1 = e
    BY <1>2, <1>3, <1>5
  <2> QED
    BY <1>1, <2>1, <2>2, Zenon
<1>7. Ends \subseteq Ends'
  BY <1>2, <1>3, <1>5, <1>6 DEF Ends
<1>9. Plain
  BY <1>1, <1>7, Zenon DEF Plain
<1>10. AtLine /\ \A k \in s..Len(file) : buff[k] = file[k]
  BY <1>1, <1>9, Zenon DEF DatabaseInv, Unread
<1>11. file[e] = NEWLINE /\ \A k \in s..(e - 1) : file[k] # NEWLINE
  <2>1. \A k \in s..(e - 1) : k \in s..Len(file)
    BY <1>2, <1>3, <1>5
  <2> QED
    BY <1>5, <1>10, <2>1, Zenon
<1>12. Ends' = Ends \cup {e}
  <2>1. \A i \in 1..e : i \in 1..(s - 1) \/ i \in s..(e - 1) \/ i = e
    BY <1>2, <1>3, <1>5
  <2>2. Ends' \subseteq Ends \cup {e}
    BY <1>6, <1>11, <2>1 DEF Ends
  <2>3. e \in Ends'
    BY <1>2, <1>3, <1>5, <1>6, <1>11
  <2> QED
    BY <1>7, <2>2, <2>3
<1>13. Line(file, e) = SubSeq(file, s, e - 1)
  <2> DEFINE T == {0} \cup {i \in 1..(e - 1) : file[i] = NEWLINE}
  <2>1. s - 1 \in T
    <3>1. CASE s = 1
      BY <3>1
    <3>2. CASE s # 1
      <4>1. s - 1 \in 1..(e - 1) /\ file[s - 1] = NEWLINE
        BY <1>2, <1>3, <1>5, <1>10, <3>2 DEF AtLine
      <4> QED
        BY <4>1
    <3> QED
      BY <3>1, <3>2
  <2>2. \A i \in T : i <= s - 1
    <3>1. ASSUME NEW i \in 1..(e - 1), file[i] = NEWLINE PROVE i <= s - 1
      <4>1. ~(i \in s..(e - 1))
        BY <1>11, <3>1
      <4> QED
        BY <1>2, <1>3, <1>5, <4>1
    <3> QED
      BY <1>2, <3>1
  <2>3. T \subseteq Nat
    BY <1>2, <1>3, <1>5
  <2> HIDE DEF T
  <2>4. Max(T) = s - 1
    <3>1. \A i \in T : (\A j \in T : i >= j) => i = s - 1
      BY <1>2, <2>1, <2>2, <2>3
    <3> QED
      BY <1>2, <2>1, <2>2, <2>3, <3>1 DEF Max
  <2>5. 1 + Max(T) = s
    BY <1>2, <2>4
  <2> QED
    BY <2>5, Zenon DEF Line, T
<1> QED
  BY <1>5, <1>9, <1>11, <1>12, <1>13 DEF e

\* What has been read of it says what its lines say.
LEMMA ParseLineSays ==
    ASSUME DatabaseInv, ParseLine, Plain'
    PROVE  AtLine' /\ Unread' /\ LinesSay'
<1>0. PICK e : e = NextEnd
  OBVIOUS
<1> DEFINE o == s - 1
           line == Line(file, e)
           m == e - s
           n == Len(file)
           b == Cut(buff, e)
           r == ParseDbLine(b, s)
<1>1. /\ phase = "lines" /\ Newlines(buff) # {}
      /\ buff' = r.buff /\ supported_drives' = supported_drives \o r.entries
      /\ s' = e + 1 /\ file' = file
      /\ phase' = IF r.status = 1 THEN "exit" ELSE phase
  BY <1>0, ParseLineIs, Zenon
<1>2. /\ Plain /\ e \in s..n /\ file[e] = NEWLINE
      /\ Ends' = Ends \cup {e}
      /\ line = SubSeq(file, s, e - 1)
  BY <1>0, PlainLine
<1>3. /\ IsBuffer(file, n) /\ IsBuffer(buff, n) /\ s \in 1..(n + 1)
      /\ AtLine /\ Unread /\ LinesSay
  BY <1>2, Zenon DEF DatabaseInv
<1>5. Text(line) /\ ~EndsInEscape(line) /\ Small(line)
  <2>1. e \in Ends'
    BY <1>2
  <2> QED
    BY <1>1, <2>1, Zenon DEF Plain
<1> HIDE DEF line, r, b
<1>6. n \in Nat /\ DOMAIN file = 1..n /\ file \in Seq({file[k] : k \in 1..n})
  BY <1>3, BufferIs
<1>7. /\ IsBuffer(line, m) /\ \A k \in 1..m : line[k] = file[o + k]
  <2>1. line = [k \in 1..m |-> file[o + k]]
    BY <1>2, <1>3, <1>6
  <2>2. m \in Nat
    BY <1>2, <1>3, <1>6
  <2> HIDE DEF m, o
  <2> QED
    BY <2>1, <2>2 DEF IsBuffer
<1>8. Len(line) = m /\ DOMAIN line = 1..m /\ m \in Nat
  BY <1>7, BufferIs
<1>9. /\ IsBuffer(b, n) /\ b[e] = NUL /\ \A k \in 1..n : k # e => b[k] = buff[k]
  <2>1. e \in 1..n
    BY <1>2, <1>3, <1>6
  <2> QED
    BY <1>3, <2>1, CutIs DEF b
<1>10. \A k \in s..n : buff[k] = file[k]
  BY <1>1, <1>3, Zenon DEF Unread
<1>11. \A k \in (e + 1)..n : k \in 1..n /\ k # e /\ k \in s..n
  BY <1>2, <1>3, <1>6
<1>12. \A k \in (e + 1)..n : b[k] = file[k]
  BY <1>9, <1>10, <1>11, Zenon
<1>13. o \in Nat /\ o + (m + 1) = e /\ o + 1 = s /\ o + (m + 1) <= n /\ 1 \in 1..(m + 1)
       /\ (o + (m + 1)) + 1 = e + 1
  BY <1>2, <1>3, <1>6, <1>8
<1>14. Lies(b, n, o, line, m, 1)
  <2>1. \A k \in 1..m : o + k \in 1..n /\ o + k # e /\ o + k \in s..n
    BY <1>2, <1>3, <1>6
  <2>2. \A k \in 1..m : b[o + k] = line[k]
    BY <1>7, <1>9, <1>10, <2>1, Zenon
  <2>3. \A k \in 1..m : line[k] # NUL
    BY <1>5, <1>8, Zenon DEF Text
  <2> HIDE DEF o, m, n
  <2> QED
    BY <1>7, <1>9, <1>13, <2>2, <2>3, Zenon DEF Lies
<1>15. ~Escaped(line, m + 1)
  BY <1>5, <1>8, Zenon DEF EndsInEscape
<1>16. Means(b, n, e + 1, line, r)
  <2>1. Means(b, n, (o + (m + 1)) + 1, line, ParseDbLine(b, o + 1))
    <3> HIDE DEF o, m, n
    <3> QED
      BY <1>5, <1>14, <1>15, LineMeans
  <2> HIDE DEF o, m, n
  <2> QED
    BY <1>13, <2>1, Zenon DEF r
<1>17. AtLine'
  <2>1. s' - 1 \in 1..n /\ file[s' - 1] = NEWLINE
    BY <1>1, <1>2, <1>3, <1>6
  <2> QED
    BY <1>1, <2>1, Zenon DEF AtLine
<1>18. /\ Wrong = {}
       /\ supported_drives = Meanings(file, Saying)
  BY <1>1, <1>3 DEF LinesSay
<1>19. Saying' = Saying \cup (IF Ignored(line) THEN {} ELSE {e})
  <2>1. \A x : x \in Saying' <=> x \in Ends' /\ ~Ignored(Line(file, x))
    BY <1>1, Zenon DEF Saying
  <2>2. \A x : x \in Ends' <=> x \in Ends \/ x = e
    BY <1>2
  <2>3. \A x : x \in Saying <=> x \in Ends /\ ~Ignored(Line(file, x))
    BY Zenon DEF Saying
  <2>4. \A x : x \in Saying' <=> x \in Saying \/ (x = e /\ ~Ignored(line))
    BY <2>1, <2>2, <2>3, Zenon DEF line
  <2> QED
    BY <2>4
<1>20. \A x : x \in Wrong' <=> x \in Wrong \/ (x = e /\ ~Ignored(line) /\ ~WellFormed(line))
  <2>1. \A x : x \in Wrong' <=> x \in Saying' /\ ~WellFormed(Line(file, x))
    BY <1>1, Zenon DEF Wrong
  <2>2. \A x : x \in Wrong <=> x \in Saying /\ ~WellFormed(Line(file, x))
    BY Zenon DEF Wrong
  <2>3. \A x : x \in Saying' <=> x \in Saying \/ (x = e /\ ~Ignored(line))
    BY <1>19
  <2> QED
    BY <2>1, <2>2, <2>3, Zenon DEF line
<1>21. CASE Ignored(line) /\ r = Nothing(b)
  <2>1. r.status = 0 /\ r.buff = b /\ r.entries = <<>>
    BY <1>21 DEF Nothing
  <2>2. phase' = "lines" /\ buff' = b
    BY <1>1, <2>1
  <2>3. supported_drives' = supported_drives
    <3>1. PICK c \in Nat : EntryList(supported_drives, c)
      BY Zenon DEF DatabaseInv
    <3>2. supported_drives \in Seq({supported_drives[k] : k \in 1..c})
      BY <3>1, SequenceOfFunction, Zenon DEF EntryList
    <3> QED
      BY <1>1, <2>1, <3>2
  <2>4. Saying' = Saying /\ Wrong' = {}
    BY <1>18, <1>19, <1>20, <1>21
  <2>5. LinesSay'
    <3>1. supported_drives' = Meanings(file', Saying')
      BY <1>1, <1>18, <2>3, <2>4, Zenon
    <3> QED
      BY <2>2, <2>4, <3>1 DEF LinesSay
  <2>6. Unread'
    BY <1>1, <1>12, <2>2 DEF Unread
  <2> QED
    BY <1>17, <2>5, <2>6
<1>22. CASE /\ ~Ignored(line) /\ WellFormed(line)
            /\ r.status = 0 /\ r.entries = <<Meaning(line)>> /\ Behind(b, r.buff, n, e + 1)
  <2>1. phase' = "lines" /\ buff' = r.buff /\ supported_drives' = supported_drives \o <<Meaning(line)>>
    BY <1>1, <1>22
  <2>2. Saying' = Saying \cup {e} /\ Wrong' = {}
    BY <1>18, <1>19, <1>20, <1>22
  <2> DEFINE c == Cardinality(Saying)
  <2>3. /\ Saying \in SUBSET Nat /\ IsFiniteSet(Saying) /\ \A x \in Saying : x < e /\ e \in Nat
    <3>1. Saying \in SUBSET Nat /\ IsFiniteSet(Saying) /\ \A x \in Saying : x < s
      BY EndsFinite DEF Saying
    <3> QED
      BY <1>2, <1>3, <1>6, <3>1
  <2>4. e \in Nat
    BY <1>2, <1>3, <1>6
  <2>5. /\ DOMAIN Ascending(Saying \cup {e}) = 1..(c + 1)
        /\ \A k \in 1..c : Ascending(Saying \cup {e})[k] = Ascending(Saying)[k]
        /\ Ascending(Saying \cup {e})[c + 1] = e
    BY <2>3, <2>4, AscendingGrows
  <2>6. DOMAIN Ascending(Saying) = 1..c /\ c \in Nat
    BY <2>3, Ranked, Zenon
  <2> HIDE DEF c
  <2> DEFINE list == Meanings(file, Saying)
             grown == Meanings(file, Saying \cup {e})
  <2>7. /\ list = [k \in 1..c |-> Meaning(Line(file, Ascending(Saying)[k]))]
        /\ grown = [k \in 1..(c + 1) |-> Meaning(Line(file, Ascending(Saying \cup {e})[k]))]
    BY <2>5, <2>6, Zenon DEF Meanings
  <2> HIDE DEF list, grown
  <2>8. list \o <<Meaning(line)>> = grown
    <3>1. list = [k \in 1..c |-> list[k]] /\ grown = [k \in 1..(c + 1) |-> grown[k]]
      BY <2>7
    <3>2. Len(list) = c /\ list \in Seq({list[k] : k \in 1..c})
      BY <2>6, <3>1, SequenceOfFunction
    <3>3. \A k \in 1..c : grown[k] = list[k]
      <4>1. ASSUME NEW k \in 1..c PROVE grown[k] = list[k]
        <5>1. k \in 1..(c + 1)
          BY <2>6
        <5>2. /\ grown[k] = Meaning(Line(file, Ascending(Saying \cup {e})[k]))
              /\ list[k] = Meaning(Line(file, Ascending(Saying)[k]))
          BY <2>7, <5>1, Zenon
        <5> QED
          BY <2>5, <5>2, Zenon
      <4> QED
        BY <4>1
    <3>4. grown[c + 1] = Meaning(line)
      <4>1. c + 1 \in 1..(c + 1)
        BY <2>6
      <4> QED
        BY <2>5, <2>7, <4>1, Zenon DEF line
    <3>6. list \o <<Meaning(line)>> = [k \in 1..(c + 1) |-> IF k <= c THEN list[k] ELSE Meaning(line)]
      BY <2>6, <3>2
    <3>7. \A k \in 1..(c + 1) : grown[k] = IF k <= c THEN list[k] ELSE Meaning(line)
      <4>1. \A k \in 1..(c + 1) : (k <= c => k \in 1..c) /\ (~(k <= c) => k = c + 1)
        BY <2>6
      <4> QED
        BY <3>3, <3>4, <4>1, Zenon
    <3> QED
      BY <3>1, <3>6, <3>7
  <2>9. LinesSay'
    <3>1. supported_drives' = Meanings(file', Saying')
      BY <1>1, <1>18, <2>1, <2>2, <2>8, Zenon DEF list, grown
    <3> QED
      BY <2>1, <2>2, <3>1 DEF LinesSay
  <2>10. Unread'
    <3>1. \A k \in (e + 1)..n : r.buff[k] = file[k]
      BY <1>12, <1>22, Zenon DEF Behind
    <3> QED
      BY <1>1, <2>1, <3>1 DEF Unread
  <2> QED
    BY <1>17, <2>9, <2>10
<1>23. CASE ~Ignored(line) /\ ~WellFormed(line) /\ r.status = 1
  <2>1. phase' = "exit"
    BY <1>1, <1>23
  <2>2. s' - 1 = e
    BY <1>1, <1>2, <1>3, <1>6
  <2>3. Wrong' = {e}
    BY <1>18, <1>20, <1>23
  <2>4. LinesSay'
    BY <2>1, <2>2, <2>3 DEF LinesSay
  <2>5. Unread'
    BY <2>1 DEF Unread
  <2> QED
    BY <1>17, <2>4, <2>5
<1> QED
  BY <1>16, <1>21, <1>22, <1>23, Zenon DEF Means

LEMMA ParseLineKeeps == DatabaseInv /\ ParseLine => DatabaseInv'
<1> SUFFICES ASSUME DatabaseInv, ParseLine PROVE DatabaseInv'
  OBVIOUS
<1>1. file' = file /\ file \in Buffers /\ IsBuffer(file, Len(file))
  BY ParseLineIs, Zenon DEF DatabaseInv
<1>2. /\ IsBuffer(buff', Len(file)) /\ s' \in 1..(Len(file) + 1)
      /\ phase' \in {"lines", "exit"}
      /\ \E n \in Nat : EntryList(supported_drives', n)
  BY ParseLineTypes, Zenon
<1>3. Plain' => AtLine' /\ Unread' /\ LinesSay'
  BY ParseLineSays, Zenon
<1>4. phase' \in {"lines", "loaded", "freed", "exit"}
  BY <1>2
<1>5. /\ file' \in Buffers /\ IsBuffer(file', Len(file')) /\ IsBuffer(buff', Len(file'))
      /\ s' \in 1..(Len(file') + 1)
  BY <1>1, <1>2
<1> QED
  BY <1>2, <1>3, <1>4, <1>5, Zenon DEF DatabaseInv

\* The other steps leave the lines alone and no line to read.
LEMMA OthersKeep ==
    ASSUME DatabaseInv, UNCHANGED <<file, buff, s>>,
           phase' \in {"lines", "loaded", "freed", "exit"},
           phase' = "lines" => phase = "lines",
           \E n \in Nat : EntryList(supported_drives', n),
           Plain => (LinesSay => LinesSay')
    PROVE  DatabaseInv'
<1>1. file' = file /\ buff' = buff /\ s' = s
  OBVIOUS
<1>2. (Plain' <=> Plain) /\ (AtLine' <=> AtLine)
  BY <1>1, SameLines
<1>3. Unread => Unread'
  BY <1>1, Zenon DEF Unread
<1>4. /\ file' \in Buffers /\ IsBuffer(file', Len(file')) /\ IsBuffer(buff', Len(file'))
      /\ s' \in 1..(Len(file') + 1)
  BY <1>1 DEF DatabaseInv
<1>5. Plain' => AtLine' /\ Unread' /\ LinesSay'
  BY <1>2, <1>3, Zenon DEF DatabaseInv
<1> QED
  BY <1>4, <1>5, Zenon DEF DatabaseInv

\* They leave the meanings of the lines alone, too.
LEMMA SameMeanings ==
    ASSUME UNCHANGED <<file, s>>
    PROVE  Wrong' = Wrong /\ Meanings(file, Saying)' = Meanings(file, Saying)
<1>1. file' = file /\ s' = s
  OBVIOUS
<1>2. Saying' = Saying /\ Wrong' = Wrong
  BY <1>1, SameLines
<1>3. Meanings(file, Saying)' = Meanings(file', Saying')
  BY DEF Meanings, Meaning, Line
<1> QED
  BY <1>1, <1>2, <1>3

LEMMA LoadedKeeps == DatabaseInv /\ Loaded => DatabaseInv'
<1> SUFFICES ASSUME DatabaseInv, Loaded PROVE DatabaseInv'
  OBVIOUS
<1>1. phase = "lines" /\ phase' = "loaded" /\ UNCHANGED <<file, buff, s, supported_drives>>
  BY Zenon DEF Loaded
<1>2. \E n \in Nat : EntryList(supported_drives', n)
  BY <1>1 DEF DatabaseInv
<1>3. LinesSay => LinesSay'
  <2>1. Wrong' = Wrong /\ Meanings(file, Saying)' = Meanings(file, Saying)
    BY <1>1, SameMeanings
  <2> QED
    BY <1>1, <2>1 DEF LinesSay
<1>4. UNCHANGED <<file, buff, s>>
  BY <1>1
<1> QED
  BY <1>1, <1>2, <1>3, <1>4, OthersKeep

LEMMA LookUpKeeps == DatabaseInv /\ (\E model \in Models : LookUp(model)) => DatabaseInv'
<1> SUFFICES ASSUME DatabaseInv, NEW model \in Models, LookUp(model) PROVE DatabaseInv'
  OBVIOUS
<1>1. /\ phase = "loaded" /\ UNCHANGED <<file, buff, s, supported_drives>>
      /\ phase' = IF \A i \in Tried(model) : Regcomp(supported_drives[i].regexp)
                  THEN phase ELSE "exit"
  BY Zenon DEF LookUp
<1>2. \E n \in Nat : EntryList(supported_drives', n)
  BY <1>1 DEF DatabaseInv
<1>3. phase' = "exit" => \E i \in DOMAIN supported_drives : ~Regcomp(supported_drives[i].regexp)
  <2>1. Tried(model) \subseteq DOMAIN supported_drives
    BY Zenon DEF Tried
  <2> QED
    BY <1>1, <2>1
<1>4. LinesSay => LinesSay'
  <2>1. Wrong' = Wrong /\ Meanings(file, Saying)' = Meanings(file, Saying)
    BY <1>1, SameMeanings
  <2>2. ASSUME LinesSay PROVE LinesSay'
    <3>1. Wrong = {} /\ supported_drives = Meanings(file, Saying)
      BY <1>1, <2>2 DEF LinesSay
    <3>2. CASE phase' = "exit"
      <4>1. \E i \in DOMAIN supported_drives' : ~Regcomp(supported_drives'[i].regexp)
        BY <1>1, <1>3, <3>2
      <4> QED
        BY <2>1, <3>1, <3>2, <4>1 DEF LinesSay
    <3>3. CASE phase' = "loaded"
      BY <1>1, <2>1, <3>1, <3>3 DEF LinesSay
    <3> QED
      BY <1>1, <3>2, <3>3
  <2> QED
    BY <2>2
<1>5. UNCHANGED <<file, buff, s>>
  BY <1>1
<1>6. phase' \in {"loaded", "exit"}
  BY <1>1
<1> QED
  BY <1>2, <1>4, <1>5, <1>6, OthersKeep

LEMMA FreeDatabaseKeeps == DatabaseInv /\ FreeDatabase => DatabaseInv'
<1> SUFFICES ASSUME DatabaseInv, FreeDatabase PROVE DatabaseInv'
  OBVIOUS
<1>1. /\ phase = "loaded" /\ phase' = "freed" /\ supported_drives' = <<>>
      /\ UNCHANGED <<file, buff, s>>
  BY Zenon DEF FreeDatabase
<1>2. \E n \in Nat : EntryList(supported_drives', n)
  <2>1. EntryList(supported_drives', 0)
    BY <1>1 DEF EntryList
  <2>2. 0 \in Nat
    OBVIOUS
  <2> QED
    BY <2>1, <2>2
<1>3. LinesSay => LinesSay'
  <2>1. Wrong' = Wrong
    BY <1>1, SameMeanings
  <2> QED
    BY <1>1, <2>1 DEF LinesSay
<1> QED
  BY <1>1, <1>2, <1>3, OthersKeep

LEMMA DatabaseInvKept == DatabaseInv /\ [DatabaseNext]_databaseVars => DatabaseInv'
<1> SUFFICES ASSUME DatabaseInv, [DatabaseNext]_databaseVars PROVE DatabaseInv'
  OBVIOUS
<1>1. CASE UNCHANGED databaseVars
  <2>1. UNCHANGED <<file, buff, s, phase, supported_drives>>
    BY <1>1 DEF databaseVars
  <2>2. \E n \in Nat : EntryList(supported_drives', n)
    BY <2>1 DEF DatabaseInv
  <2>3. phase \in {"lines", "loaded", "freed", "exit"}
    BY Zenon DEF DatabaseInv
  <2>4. LinesSay => LinesSay'
    <3>1. Wrong' = Wrong /\ Meanings(file, Saying)' = Meanings(file, Saying)
      BY <2>1, SameMeanings
    <3> QED
      BY <2>1, <3>1 DEF LinesSay
  <2> QED
    BY <2>1, <2>2, <2>3, <2>4, OthersKeep
<1> QED
  BY <1>1, ParseLineKeeps, LoadedKeeps, LookUpKeeps, FreeDatabaseKeeps, Zenon DEF DatabaseNext

LEMMA DatabaseInvHolds == DatabaseSpec => []DatabaseInv
BY DatabaseInvInit, DatabaseInvKept, PTL DEF DatabaseSpec

(***************************************************************************)
(* parse_db_line and extract_string: whatever the lines of hddtemp.db are, *)
(* the list is what the manual page makes of them, one by one and in their *)
(* order, and the program stops at the first that says nothing; unless one *)
(* so far ends in a backslash or has a number too large for a short.       *)
(***************************************************************************)
THEOREM LinesAreApart == DatabaseSpec => []LinesApart
<1>1. DatabaseInv => LinesApart
  BY Zenon DEF DatabaseInv, LinesApart
<1> QED
  BY <1>1, DatabaseInvHolds, PTL

-----------------------------------------------------------------------------
\* The largest of finitely many numbers and 0.
LEMMA LargestIs ==
    ASSUME NEW n \in Nat, NEW f, \A k \in 1..n : f[k] \in Nat
    PROVE  LET T == {0} \cup {f[k] : k \in 1..n}
           IN  Max(T) \in T /\ \A y \in T : Max(T) >= y
<1> DEFINE T(k) == {0} \cup {f[j] : j \in 1..k}
           S == {k \in Nat : k <= n => \E x \in T(k) : \A y \in T(k) : x >= y}
<1>1. 0 \in S
  <2>1. T(0) = {0}
    OBVIOUS
  <2> QED
    BY <2>1
<1>2. ASSUME NEW k \in Nat, k \in S PROVE k + 1 \in S
  <2>1. SUFFICES ASSUME k + 1 <= n PROVE \E x \in T(k + 1) : \A y \in T(k + 1) : x >= y
    OBVIOUS
  <2>2. T(k + 1) = T(k) \cup {f[k + 1]}
    <3>1. \A j : j \in 1..(k + 1) <=> j \in 1..k \/ j = k + 1
      OBVIOUS
    <3> QED
      BY <3>1
  <2>3. PICK x \in T(k) : \A y \in T(k) : x >= y
    BY <1>2, <2>1
  <2>4. T(k) \subseteq Nat /\ f[k + 1] \in Nat
    BY <2>1
  <2> HIDE DEF T
  <2>5. CASE x >= f[k + 1]
    BY <2>2, <2>3, <2>5
  <2>6. CASE ~(x >= f[k + 1])
    BY <2>2, <2>3, <2>4, <2>6
  <2> QED
    BY <2>5, <2>6
<1>3. n \in S
  <2> HIDE DEF S
  <2> QED
    BY <1>1, <1>2, Induction
<1>4. PICK x \in T(n) : \A y \in T(n) : x >= y
  BY <1>3
<1> QED
  BY <1>4 DEF Max

(***************************************************************************)
(* The table of --drivebase: a regular expression of any length is padded  *)
(* by at least one tabulator, and to the same column as the head.          *)
(***************************************************************************)
THEOREM TableIsAligned == DatabaseSpec => []TableAligned
<1> DEFINE lengths(d) == {0} \cup {Len(d[i].regexp) : i \in DOMAIN d}
<1>1. ASSUME DatabaseInv PROVE TableAligned
  <2>1. PICK n \in Nat : EntryList(supported_drives, n)
    BY <1>1, Zenon DEF DatabaseInv
  <2> DEFINE f == [k \in 1..n |-> Len(supported_drives[k].regexp)]
             T == {0} \cup {f[k] : k \in 1..n}
             max == Max(lengths(supported_drives))
  <2>2. /\ DOMAIN supported_drives = 1..n
        /\ \A k \in 1..n : f[k] = Len(supported_drives[k].regexp) /\ f[k] \in Nat
    BY <2>1 DEF EntryList
  <2>3. lengths(supported_drives) = T
    BY <2>2
  <2> HIDE DEF f
  <2>4. Max(T) \in T /\ \A y \in T : Max(T) >= y
    BY <2>2, LargestIs
  <2>5. max = Max(T)
    BY <2>3
  <2>6. T \subseteq Nat
    BY <2>2
  <2> HIDE DEF lengths, max
  <2>7. max \in Nat /\ \A k \in 1..n : f[k] <= max /\ f[k] \in Nat
    <3>1. \A k \in 1..n : f[k] \in T
      OBVIOUS
    <3> HIDE DEF T
    <3> QED
      BY <2>4, <2>5, <2>6, <3>1
  <2>8. \A len, top \in Nat : len <= top =>
           Tabs(len, top) > 0 /\ Column(len, Tabs(len, top)) = Column(0, Width(top) + 1)
    <3> SUFFICES ASSUME NEW len \in Nat, NEW top \in Nat, len <= top
                 PROVE  Tabs(len, top) > 0 /\ Column(len, Tabs(len, top)) = Column(0, Width(top) + 1)
      OBVIOUS
    <3>1. Width(len) \in Nat /\ Width(top) \in Nat /\ Width(len) <= Width(top) /\ Width(0) = 0
      BY DEF Width
    <3>2. Tabs(len, top) > 0 /\ Tabs(len, top) = Width(top) + 1 - Width(len)
      BY <3>1 DEF Tabs
    <3> QED
      BY <3>1, <3>2 DEF Column
  <2>9. \A k \in DOMAIN supported_drives :
           LET len == Len(supported_drives[k].regexp)
           IN  Tabs(len, max) > 0 /\ Column(len, Tabs(len, max)) = Column(0, Width(max) + 1)
    BY <2>2, <2>7, <2>8, Zenon
  <2> QED
    BY <2>9 DEF TableAligned, max, lengths
<1> QED
  BY <1>1, DatabaseInvHolds, PTL

-----------------------------------------------------------------------------
(***************************************************************************)
(* The descriptors.                                                        *)
(***************************************************************************)

AllStandard == Inherited = {{0, 1, 2}}

Early == pc \in {"collect", "open_database", "close_database"}

(***************************************************************************)
(* The inductive invariant.  Daemonize closes 0 to 2 blindly: it matters   *)
(* that until then they are the standard descriptors; and what select()    *)
(* finds accounted for must be so at every other place as well.            *)
(***************************************************************************)
StandardsOpen ==
    Early => \A n \in Fds : n \in Standards => table[n] = Standard(n)

NotYet ==
    /\ Early => next \in 0..NDrives /\ sks_serv = <<>>
    /\ pc \in {"open_database", "close_database"} => next \in Drives
    /\ pc = "sockets" => next >= 1
    /\ pc \notin {"select", "update", "closed"} => logfd = None
    /\ pc # "update" => cfd = None
    /\ Early => \A d \in Drives : (d < next \/ (d = next /\ pc = "collect")) => fd[d] = None

Accounted(n) ==
    \/ Known(n)
    \/ Early /\ n \in Standards
    \/ pc = "close_database" /\ table[n] = Database
    \/ pc = "update" /\ n = cfd

AllAccounted == pc \notin {"closed", "exited"} => \A n \in Fds : Accounted(n)

Inv == TypeOK /\ OwnDrives /\ OwnSockets /\ StandardsOpen /\ NotYet /\ AllAccounted

-----------------------------------------------------------------------------
\* What the descriptors are open on is told apart by its kind.
LEMMA Kinds ==
    /\ \A d : Drive(d)[1] = "drive"
    /\ \A a : Socket(a)[1] = "socket"
    /\ \A n : Standard(n)[1] = "standard"
    /\ Client[1] = "client" /\ Database[1] = "database"
    /\ SystemLog[1] = "log" /\ Free[1] = "free"
    /\ \A d, e : Drive(d) = Drive(e) => d = e
BY DEF Drive, Socket, Standard, Client, Database, SystemLog, Free

\* The kernel gives a number that was free.
LEMMA LowestIsFree ==
    ASSUME ~Full
    PROVE  Lowest(table) \in Fds /\ table[Lowest(table)] = Free
<1>1. FreeFds(table) \subseteq Nat /\ FreeFds(table) # {}
  BY DescriptorsAssumption DEF Full, FreeFds, Fds
<1>0. OpToRel(<, Nat) = {ss \in Nat \X Nat : ss[1] < ss[2]}
  BY Zenon DEF OpToRel
<1>2. PICK n \in FreeFds(table) :
             \A m \in FreeFds(table) : ~(<<m, n>> \in {ss \in Nat \X Nat : ss[1] < ss[2]})
  BY <1>0, <1>1, NatLessThanWellFounded, WFMin, Zenon
<1>3. ASSUME NEW m \in FreeFds(table) PROVE n <= m
  <2>1. m \in Nat /\ n \in Nat
    BY <1>1
  <2>2. <<m, n>> \in Nat \X Nat /\ <<m, n>>[1] = m /\ <<m, n>>[2] = n
    BY <2>1
  <2>3. ~(m < n)
    BY <1>2, <2>2, Zenon
  <2> QED
    BY <2>1, <2>3
<1>4. Lowest(table) \in FreeFds(table)
  BY <1>2, <1>3 DEF Lowest
<1> QED
  BY <1>4 DEF FreeFds

LEMMA InvInit == ASSUME AllStandard, Init PROVE Inv
<1>1. table = [n \in Fds |-> IF n \in {0, 1, 2} THEN Standard(n) ELSE Free]
  BY DEF Init, AllStandard
<1>2. TypeOK
  <2>1. table \in [Fds -> Object]
    BY <1>1 DEF Object
  <2>2. fd \in [Drives -> Fds \cup {None}]
    BY DEF Init
  <2>3. sks_serv \in Seq(Fds) /\ cfd \in Fds \cup {None} /\ logfd \in Fds \cup {None}
    BY DEF Init
  <2>4. next \in Nat /\ listed \subseteq Drives /\ dropped \subseteq Drives
    BY DescriptorsAssumption DEF Init
  <2> QED
    BY <2>1, <2>2, <2>3, <2>4 DEF Init, TypeOK
<1>3. OwnDrives /\ OwnSockets
  BY DEF Init, OwnDrives, OwnSockets, None
<1>4. StandardsOpen
  BY <1>1 DEF StandardsOpen, Standards
<1>5. NotYet
  BY DescriptorsAssumption DEF Init, NotYet, Drives
<1>6. AllAccounted
  BY <1>1 DEF Init, AllAccounted, Accounted, Known, Early, Standards
<1> QED
  BY <1>2, <1>3, <1>4, <1>5, <1>6 DEF Inv

-----------------------------------------------------------------------------
\* An exit leaves nothing to be said but the types.
LEMMA Exits ==
    ASSUME Inv, Exit, pc \notin {"select", "update", "closed"},
           UNCHANGED <<options, next, db_loaded, lists, sks_serv, cfd, logfd>>
    PROVE  Inv'
<1>1. TypeOK'
  BY DEF Exit, Inv, TypeOK, options, lists, Object
<1>2. OwnDrives' /\ OwnSockets' /\ StandardsOpen' /\ AllAccounted'
  BY DEF Exit, OwnDrives, OwnSockets, Alive, StandardsOpen, Early, AllAccounted
<1>3. NotYet'
  BY DEF Exit, Inv, NotYet, Early
<1> QED
  BY <1>1, <1>2, <1>3 DEF Inv

-----------------------------------------------------------------------------
\* open(), socket(), accept(): one free number is taken, and no standard one.
LEMMA Opening ==
    ASSUME Inv, NEW obj \in Object, Opens(obj)
    PROVE  /\ Lowest(table) \in Fds
           /\ table[Lowest(table)] = Free
           /\ table'[Lowest(table)] = obj
           /\ \A n \in Fds : n # Lowest(table) => table'[n] = table[n]
           /\ table' \in [Fds -> Object]
           /\ Early => Lowest(table) \notin Standards
<1>1. Lowest(table) \in Fds /\ table[Lowest(table)] = Free
  BY LowestIsFree DEF Opens
<1>2. table' = [table EXCEPT ![Lowest(table)] = obj] /\ table \in [Fds -> Object]
  BY DEF Opens, Inv, TypeOK
<1>3. Early => Lowest(table) \notin Standards
  BY <1>1, Kinds DEF Inv, StandardsOpen
<1> QED
  BY <1>1, <1>2, <1>3

\* A drive is opened and listed.
LEMMA OpenListed ==
    ASSUME Inv, Collecting, Opens(Drive(next)),
           fd' = [fd EXCEPT ![next] = Lowest(table)],
           listed' = listed \cup {next},
           \/ next' = next - 1 /\ UNCHANGED pc
           \/ pc' = "open_database" /\ UNCHANGED next,
           UNCHANGED <<options, db_loaded, dropped, sks_serv, cfd, logfd>>
    PROVE  Inv'
<1> DEFINE l == Lowest(table)
<1>1. next \in Drives /\ next \in 1..NDrives /\ Early
  BY DescriptorsAssumption DEF Inv, NotYet, Collecting, Early, Drives
<1>2. Drive(next) \in Object
  BY <1>1 DEF Object
<1>3. /\ l \in Fds /\ table[l] = Free /\ table'[l] = Drive(next)
      /\ \A n \in Fds : n # l => table'[n] = table[n]
      /\ table' \in [Fds -> Object] /\ l \notin Standards
  BY <1>1, <1>2, Opening
<1>4. /\ fd \in [Drives -> Fds \cup {None}] /\ fd' \in [Drives -> Fds \cup {None}]
      /\ fd'[next] = l /\ \A d \in Drives \ {next} : fd'[d] = fd[d]
  BY <1>1, <1>3 DEF Inv, TypeOK
<1> HIDE DEF l
<1>5. TypeOK'
  BY <1>1, <1>3, <1>4, DescriptorsAssumption DEF Inv, TypeOK, Collecting, options
<1>6. OwnDrives'
  BY <1>1, <1>3, <1>4, Kinds DEF Inv, OwnDrives, Alive, Collecting
<1>7. OwnSockets'
  BY <1>1 DEF Inv, OwnSockets, NotYet, Collecting, Early
<1>8. StandardsOpen'
  BY <1>1, <1>3 DEF Inv, StandardsOpen
<1>9. NotYet'
  BY <1>1, <1>4, DescriptorsAssumption DEF Inv, NotYet, Collecting, Early, Drives
<1>10. AllAccounted'
  <2> SUFFICES ASSUME NEW n \in Fds PROVE Accounted(n)'
    BY DEF AllAccounted
  <2>1. CASE n = l
    BY <2>1, <1>1, <1>3, <1>4 DEF Accounted, Known
  <2>2. CASE n # l /\ n \in Standards
    BY <2>2, <1>1 DEF Accounted, Early, Collecting
  <2>3. CASE n # l /\ n \notin Standards
    <3>1. Known(n)
      BY <2>3 DEF Inv, AllAccounted, Accounted, Collecting
    <3>2. fd[next] = None /\ n # None
      BY <1>1 DEF Inv, NotYet, Collecting, Fds, None
    <3> QED
      BY <3>1, <3>2, <2>3, <1>3, <1>4 DEF Accounted, Known
  <2> QED
    BY <2>1, <2>2, <2>3
<1> QED
  BY <1>5, <1>6, <1>7, <1>8, <1>9, <1>10 DEF Inv

\* main() collects the drives and reads the database.
LEMMA CollectKeeps == ASSUME Inv, Collect PROVE Inv'
<1>1. CASE OpenFails
  <2>1. next \in Drives /\ next \in 1..NDrives
    BY <1>1, DescriptorsAssumption DEF Inv, NotYet, OpenFails, Collecting, Early, Drives
  <2>2. TypeOK'
    BY <1>1, <2>1, DescriptorsAssumption DEF Inv, TypeOK, OpenFails, options
  <2>3. OwnDrives' /\ OwnSockets' /\ StandardsOpen' /\ AllAccounted'
    BY <1>1 DEF Inv, OpenFails, OwnDrives, OwnSockets, Alive, StandardsOpen, Early,
                AllAccounted, Accounted, Known
  <2>4. NotYet'
    BY <1>1, <2>1, DescriptorsAssumption DEF Inv, NotYet, OpenFails, Collecting, Early, Drives
  <2> QED
    BY <2>2, <2>3, <2>4 DEF Inv
<1>2. CASE OpenScsi
  BY <1>2, OpenListed DEF OpenScsi
<1>3. CASE OpenAta
  BY <1>3, OpenListed DEF OpenAta
<1>4. CASE UnknownBus
  <2> DEFINE l == Lowest(table)
  <2>1. next \in Drives /\ next \in 1..NDrives /\ Early /\ pc = "collect"
    BY <1>4, DescriptorsAssumption DEF Inv, NotYet, UnknownBus, Collecting, Early, Drives
  <2>2. Drive(next) \in Object
    BY <2>1 DEF Object
  <2>3. /\ l \in Fds /\ table[l] = Free /\ table'[l] = Drive(next)
        /\ \A n \in Fds : n # l => table'[n] = table[n]
        /\ table' \in [Fds -> Object] /\ l \notin Standards
    BY <1>4, <2>1, <2>2, Opening DEF UnknownBus
  <2> HIDE DEF l
  <2>4. TypeOK'
    BY <1>4, <2>1, <2>3, DescriptorsAssumption DEF Inv, TypeOK, UnknownBus, options
  <2>5. OwnDrives'
    BY <1>4, <2>1, <2>3, Kinds DEF Inv, TypeOK, OwnDrives, Alive, UnknownBus
  <2>6. OwnSockets'
    BY <1>4, <2>1 DEF Inv, OwnSockets, NotYet, UnknownBus, Early
  <2>7. StandardsOpen'
    BY <1>4, <2>1, <2>3 DEF Inv, StandardsOpen
  <2>8. NotYet'
    BY <1>4, <2>1, DescriptorsAssumption DEF Inv, NotYet, UnknownBus, Early, Drives
  <2>9. AllAccounted'
    <3> SUFFICES ASSUME NEW n \in Fds PROVE Accounted(n)'
      BY DEF AllAccounted
    <3>1. CASE n = l
      BY <3>1, <1>4, <2>1, <2>3 DEF Accounted, Known, UnknownBus
    <3>2. CASE n # l
      BY <3>2, <1>4, <2>1, <2>3
         DEF Inv, AllAccounted, Accounted, Known, UnknownBus, Early
    <3> QED
      BY <3>1, <3>2
  <2> QED
    BY <2>4, <2>5, <2>6, <2>7, <2>8, <2>9 DEF Inv
<1>5. CASE OpenDatabase
  <2>0. next \in Drives /\ next \in 1..NDrives /\ Early /\ pc = "open_database"
    BY <1>5, DescriptorsAssumption DEF Inv, NotYet, OpenDatabase, Early, Drives
  <2>1. CASE Exit
    BY <1>5, <2>0, <2>1, Exits DEF OpenDatabase
  <2>2. CASE Opens(Database) /\ pc' = "close_database"
    <3> DEFINE l == Lowest(table)
    <3>1. Database \in Object
      BY DEF Object
    <3>2. /\ l \in Fds /\ table[l] = Free /\ table'[l] = Database
          /\ \A n \in Fds : n # l => table'[n] = table[n]
          /\ table' \in [Fds -> Object] /\ l \notin Standards
      BY <2>0, <2>2, <3>1, Opening
    <3> HIDE DEF l
    <3>3. TypeOK'
      BY <1>5, <2>2, <3>2 DEF Inv, TypeOK, OpenDatabase, options, lists
    <3>4. OwnDrives'
      BY <1>5, <2>0, <3>2, Kinds DEF Inv, TypeOK, OwnDrives, Alive, OpenDatabase, lists
    <3>5. OwnSockets' /\ NotYet'
      BY <1>5, <2>0, <2>2, DescriptorsAssumption
         DEF Inv, OwnSockets, NotYet, OpenDatabase, Early, lists, Drives
    <3>6. StandardsOpen'
      BY <1>5, <2>0, <3>2 DEF Inv, StandardsOpen
    <3>7. AllAccounted'
      BY <1>5, <2>0, <2>2, <3>2
         DEF Inv, AllAccounted, Accounted, Known, OpenDatabase, lists, Early
    <3> QED
      BY <3>3, <3>4, <3>5, <3>6, <3>7 DEF Inv
  <2> QED
    BY <1>5, <2>1, <2>2 DEF OpenDatabase
<1>6. CASE CloseDatabase
  <2>0. next \in Drives /\ next \in 1..NDrives /\ Early /\ pc = "close_database"
    BY <1>6, DescriptorsAssumption DEF Inv, NotYet, CloseDatabase, Early, Drives
  <2>1. CASE Exit /\ UNCHANGED <<db_loaded, next>>
    BY <1>6, <2>0, <2>1, Exits DEF CloseDatabase
  <2>2. CASE pc' = "collect" /\ db_loaded' = TRUE /\ next' = next - 1
             /\ table' = Closing(table, {n \in Fds : table[n] = Database})
    <3>1. \A n \in Fds : table'[n] = IF table[n] = Database THEN Free ELSE table[n]
      BY <2>2 DEF Closing
    <3>2. table' \in [Fds -> Object]
      BY <2>2 DEF Closing, Object, Inv, TypeOK
    <3>3. TypeOK'
      BY <1>6, <2>0, <2>2, <3>2, DescriptorsAssumption
         DEF Inv, TypeOK, CloseDatabase, options, lists
    <3>4. OwnDrives'
      BY <1>6, <2>0, <3>1, Kinds DEF Inv, TypeOK, OwnDrives, Alive, CloseDatabase, lists
    <3>5. OwnSockets' /\ NotYet'
      BY <1>6, <2>0, <2>2, DescriptorsAssumption
         DEF Inv, OwnSockets, NotYet, CloseDatabase, Early, lists, Drives
    <3>6. StandardsOpen'
      BY <2>0, <3>1, Kinds DEF Inv, StandardsOpen
    <3>7. AllAccounted'
      BY <1>6, <2>0, <2>2, <3>1
         DEF Inv, AllAccounted, Accounted, Known, CloseDatabase, lists, Early
    <3> QED
      BY <3>3, <3>4, <3>5, <3>6, <3>7 DEF Inv
  <2> QED
    BY <1>6, <2>1, <2>2 DEF CloseDatabase
<1> QED
  BY <1>1, <1>2, <1>3, <1>4, <1>5, <1>6 DEF Collect

\* do_daemon_mode until the loop.
LEMMA StartKeeps == ASSUME Inv, Start PROVE Inv'
<1>1. CASE ForkFails
  BY <1>1, Exits DEF ForkFails
<1>2. CASE Daemonize
  <2>1. /\ pc = "collect" /\ Early /\ sks_serv = <<>> /\ cfd = None /\ logfd = None
        /\ pc' \in {"sockets", "select"}
    BY <1>2 DEF Inv, NotYet, Daemonize, Early
  <2>2. /\ \A n \in Fds : table'[n] = IF n \in Standards THEN Free ELSE table[n]
        /\ table' \in [Fds -> Object]
    BY <1>2 DEF Daemonize, Closing, Object, Inv, TypeOK
  <2>3. TypeOK'
    BY <1>2, <2>1, <2>2 DEF Inv, TypeOK, Daemonize, options, lists
  <2>4. OwnDrives'
    BY <1>2, <2>1, <2>2, Kinds
       DEF Inv, TypeOK, OwnDrives, Alive, StandardsOpen, Daemonize, lists
  <2>5. OwnSockets' /\ NotYet' /\ StandardsOpen'
    BY <1>2, <2>1 DEF OwnSockets, NotYet, StandardsOpen, Early, Daemonize, lists
  <2>6. AllAccounted'
    BY <1>2, <2>1, <2>2 DEF Inv, AllAccounted, Accounted, Known, Daemonize, lists, Early
  <2> QED
    BY <2>3, <2>4, <2>5, <2>6 DEF Inv
<1>3. CASE NoAddresses
  BY <1>3, Exits DEF NoAddresses
<1>4. CASE OpenSocket
  <2> DEFINE l == Lowest(table)
  <2>1. /\ next \in 1..Addresses /\ pc = "sockets" /\ pc' = pc /\ next' = next + 1
        /\ sks_serv \in Seq(Fds) /\ cfd = None /\ logfd = None
    BY <1>4, DescriptorsAssumption DEF Inv, TypeOK, NotYet, OpenSocket
  <2>2. Socket(next) \in Object
    BY <2>1 DEF Object
  <2>3. /\ l \in Fds /\ table[l] = Free /\ table'[l] = Socket(next)
        /\ \A n \in Fds : n # l => table'[n] = table[n]
        /\ table' \in [Fds -> Object]
    BY <1>4, <2>2, Opening DEF OpenSocket
  <2>4. sks_serv' = Append(sks_serv, l)
    BY <1>4 DEF OpenSocket
  <2> HIDE DEF l
  <2>5. /\ sks_serv' \in Seq(Fds)
        /\ DOMAIN sks_serv' = 1..Len(sks_serv) + 1 /\ DOMAIN sks_serv = 1..Len(sks_serv)
        /\ sks_serv'[Len(sks_serv) + 1] = l /\ Len(sks_serv) \in Nat
        /\ \A i \in DOMAIN sks_serv : sks_serv'[i] = sks_serv[i] /\ sks_serv[i] \in Fds
    BY <2>1, <2>3, <2>4
  <2>6. TypeOK'
    BY <1>4, <2>1, <2>3, <2>5 DEF Inv, TypeOK, OpenSocket, options, lists
  <2>7. OwnDrives'
    BY <1>4, <2>1, <2>3, Kinds DEF Inv, TypeOK, OwnDrives, Alive, OpenSocket, lists
  <2>8. OwnSockets'
    <3> SUFFICES ASSUME NEW i \in DOMAIN sks_serv' PROVE table'[sks_serv'[i]][1] = "socket"
      BY <1>4, <2>1 DEF OwnSockets, OpenSocket
    <3>1. CASE i = Len(sks_serv) + 1
      BY <3>1, <2>3, <2>5, Kinds
    <3>2. CASE i \in DOMAIN sks_serv
      BY <3>2, <2>1, <2>3, <2>5, Kinds DEF Inv, OwnSockets
    <3> QED
      BY <3>1, <3>2, <2>5
  <2>9. NotYet' /\ StandardsOpen'
    BY <1>4, <2>1 DEF NotYet, StandardsOpen, Early, OpenSocket
  <2>10. AllAccounted'
    <3> SUFFICES ASSUME NEW n \in Fds PROVE Known(n)'
      BY DEF AllAccounted, Accounted
    <3>1. CASE n = l
      BY <3>1, <2>5 DEF Known
    <3>2. CASE n # l
      <4>1. Known(n)
        BY <2>1 DEF Inv, AllAccounted, Accounted, Early
      <4>2. table'[n] = table[n]
        BY <3>2, <2>3
      <4>3. (\E i \in DOMAIN sks_serv : sks_serv[i] = n)
                => \E i \in DOMAIN sks_serv' : sks_serv'[i] = n
        BY <2>5
      <4> QED
        BY <1>4, <4>1, <4>2, <4>3 DEF Known, OpenSocket, lists
    <3> QED
      BY <3>1, <3>2
  <2> QED
    BY <2>6, <2>7, <2>8, <2>9, <2>10 DEF Inv
<1>5. CASE NoSocket
  <2>1. TypeOK'
    BY <1>5 DEF Inv, TypeOK, NoSocket, Unbound, options, lists
  <2>2. OwnDrives' /\ OwnSockets' /\ StandardsOpen' /\ AllAccounted'
    BY <1>5 DEF Inv, NoSocket, Unbound, lists, OwnDrives, OwnSockets, Alive, StandardsOpen,
                Early, AllAccounted, Accounted, Known
  <2>3. NotYet'
    BY <1>5 DEF Inv, TypeOK, NoSocket, NotYet, Early
  <2> QED
    BY <2>1, <2>2, <2>3 DEF Inv
<1>6. CASE ListenFails
  BY <1>6, Exits DEF ListenFails
<1>7. CASE Listening
  <2>1. CASE Exit
    BY <1>7, <2>1, Exits DEF Listening
  <2>2. CASE pc' = "select" /\ UNCHANGED table
    <3>1. TypeOK'
      BY <1>7, <2>2 DEF Inv, TypeOK, Listening, options, lists
    <3>2. OwnDrives' /\ OwnSockets' /\ StandardsOpen' /\ NotYet' /\ AllAccounted'
      BY <1>7, <2>2
         DEF Inv, Listening, lists, OwnDrives, OwnSockets, Alive, StandardsOpen,
             Early, NotYet, AllAccounted, Accounted, Known
    <3> QED
      BY <3>1, <3>2 DEF Inv
  <2> QED
    BY <1>7, <2>1, <2>2 DEF Listening
<1> QED
  BY <1>1, <1>2, <1>3, <1>4, <1>5, <1>6, <1>7 DEF Start

\* The loop, and a step that changes nothing.
LEMMA LoopKeeps == ASSUME Inv, Loop PROVE Inv'
<1>1. CASE Accept
  <2> DEFINE l == Lowest(table)
  <2>1. Client \in Object /\ pc = "select" /\ pc' = "update" /\ cfd = None
    BY <1>1 DEF Object, Accept, Inv, NotYet
  <2>2. /\ l \in Fds /\ table[l] = Free /\ table'[l] = Client
        /\ \A n \in Fds : n # l => table'[n] = table[n]
        /\ table' \in [Fds -> Object] /\ cfd' = l
    BY <1>1, <2>1, Opening DEF Accept
  <2> HIDE DEF l
  <2>3. TypeOK'
    BY <1>1, <2>2 DEF Inv, TypeOK, Accept, options, lists
  <2>4. OwnDrives'
    BY <1>1, <2>1, <2>2, Kinds DEF Inv, TypeOK, OwnDrives, Alive, Accept, lists
  <2>5. OwnSockets'
    <3>1. cfd' # None => table'[cfd'] = Client
      BY <2>2
    <3>2. \A i \in DOMAIN sks_serv : sks_serv[i] \in Fds /\ table[sks_serv[i]][1] = "socket"
      BY <2>1 DEF Inv, TypeOK, OwnSockets
    <3>3. logfd # None => logfd \in Fds /\ table[logfd] = SystemLog
      BY <2>1 DEF Inv, TypeOK, OwnSockets
    <3> QED
      BY <1>1, <2>2, <3>1, <3>2, <3>3, Kinds DEF OwnSockets, Accept
  <2>6. NotYet' /\ StandardsOpen'
    BY <2>1 DEF NotYet, StandardsOpen, Early
  <2>7. AllAccounted'
    BY <1>1, <2>1, <2>2 DEF Inv, AllAccounted, Accounted, Known, Accept, Early, lists
  <2> QED
    BY <2>3, <2>4, <2>5, <2>6, <2>7 DEF Inv
<1>2. CASE Interval
  <2>1. TypeOK'
    BY <1>2 DEF Inv, TypeOK, Interval, options, lists
  <2>2. OwnDrives' /\ OwnSockets' /\ StandardsOpen' /\ NotYet' /\ AllAccounted'
    BY <1>2 DEF Inv, Interval, lists, OwnDrives, OwnSockets, Alive, StandardsOpen,
                Early, NotYet, AllAccounted, Accounted, Known
  <2> QED
    BY <2>1, <2>2 DEF Inv
<1>3. ASSUME NEW d \in Drives, GiveUp(d) PROVE Inv'
  <2>1. /\ fd[d] \in Fds /\ table[fd[d]] = Drive(d) /\ pc = "update" /\ pc' = pc
        /\ fd \in [Drives -> Fds \cup {None}]
    BY <1>3 DEF GiveUp, Inv, TypeOK, OwnDrives, Alive
  <2>2. /\ \A n \in Fds : table'[n] = IF n = fd[d] THEN Free ELSE table[n]
        /\ table' \in [Fds -> Object]
    BY <1>3 DEF GiveUp, Closing, Object, Inv, TypeOK
  <2>3. /\ fd'[d] = None /\ \A e \in Drives \ {d} : fd'[e] = fd[e]
        /\ fd' \in [Drives -> Fds \cup {None}]
    BY <1>3, <2>1 DEF GiveUp, Lost
  <2>4. TypeOK'
    BY <1>3, <2>2, <2>3 DEF Inv, TypeOK, GiveUp, options
  <2>5. OwnDrives'
    BY <2>1, <2>2, <2>3, Kinds DEF Inv, OwnDrives, Alive
  <2>6. OwnSockets'
    <3>1. \A i \in DOMAIN sks_serv : sks_serv[i] \in Fds /\ table[sks_serv[i]][1] = "socket"
      BY <2>1 DEF Inv, TypeOK, OwnSockets
    <3>2. /\ logfd # None => logfd \in Fds /\ table[logfd] = SystemLog
          /\ cfd # None => cfd \in Fds /\ table[cfd] = Client
      BY <2>1 DEF Inv, TypeOK, OwnSockets, Alive
    <3>3. /\ UNCHANGED <<sks_serv, cfd, logfd>>
          /\ \A n \in Fds : table[n][1] # "drive" => table'[n] = table[n]
      BY <1>3, <2>1, <2>2, Kinds DEF GiveUp
    <3>4. cfd' # None => table'[cfd'] = Client
      BY <3>2, <3>3, Kinds
    <3>5. \A i \in DOMAIN sks_serv' : table'[sks_serv'[i]][1] = "socket"
      BY <3>1, <3>3
    <3>6. logfd' # None => table'[logfd'] = SystemLog
      BY <3>2, <3>3, Kinds
    <3> QED
      BY <3>4, <3>5, <3>6 DEF OwnSockets
  <2>7. NotYet' /\ StandardsOpen'
    BY <1>3, <2>1 DEF NotYet, StandardsOpen, Early
  <2>8. AllAccounted'
    BY <1>3, <2>1, <2>2, <2>3 DEF Inv, AllAccounted, Accounted, Known, GiveUp, Early
  <2> QED
    BY <2>4, <2>5, <2>6, <2>7, <2>8 DEF Inv
<1>4. CASE Reply
  <2>1. cfd \in Fds /\ table[cfd] = Client /\ pc = "update" /\ pc' = "select" /\ cfd' = None
    BY <1>4 DEF Reply, Inv, TypeOK, OwnSockets, Alive
  <2>2. /\ \A n \in Fds : table'[n] = IF n = cfd THEN Free ELSE table[n]
        /\ table' \in [Fds -> Object]
    BY <1>4 DEF Reply, Served, Closing, Object, Inv, TypeOK
  <2>3. TypeOK'
    BY <1>4, <2>2 DEF Inv, TypeOK, Reply, options, lists
  <2>4. OwnDrives'
    BY <1>4, <2>1, <2>2, Kinds DEF Inv, TypeOK, OwnDrives, Alive, Reply, lists
  <2>5. OwnSockets'
    <3>1. \A i \in DOMAIN sks_serv : sks_serv[i] \in Fds /\ table[sks_serv[i]][1] = "socket"
      BY <2>1 DEF Inv, TypeOK, OwnSockets
    <3>2. logfd # None => logfd \in Fds /\ table[logfd] = SystemLog
      BY <2>1 DEF Inv, TypeOK, OwnSockets
    <3> QED
      BY <1>4, <2>1, <2>2, <3>1, <3>2, Kinds DEF OwnSockets, Reply
  <2>6. NotYet' /\ StandardsOpen'
    BY <1>4, <2>1 DEF NotYet, StandardsOpen, Early
  <2>7. AllAccounted'
    BY <1>4, <2>1, <2>2 DEF Inv, AllAccounted, Accounted, Known, Reply, Early, lists
  <2> QED
    BY <2>3, <2>4, <2>5, <2>6, <2>7 DEF Inv
<1>5. CASE Syslog
  <2>1. pc = "update" /\ pc' = "select" /\ cfd = None /\ cfd' = None
    BY <1>5 DEF Syslog
  <2>2. CASE UNCHANGED <<table, logfd>>
    <3>1. TypeOK'
      BY <1>5, <2>2 DEF Inv, TypeOK, Syslog, options, lists
    <3>2. OwnDrives' /\ OwnSockets' /\ StandardsOpen' /\ NotYet' /\ AllAccounted'
      BY <1>5, <2>2
         DEF Inv, Syslog, lists, OwnDrives, OwnSockets, Alive, StandardsOpen, Early,
             NotYet, AllAccounted, Accounted, Known, None, Fds
    <3> QED
      BY <3>1, <3>2 DEF Inv
  <2>3. CASE logfd = None /\ Opens(SystemLog) /\ logfd' = Lowest(table)
    <3> DEFINE l == Lowest(table)
    <3>1. SystemLog \in Object
      BY DEF Object
    <3>2. /\ l \in Fds /\ table[l] = Free /\ table'[l] = SystemLog
          /\ \A n \in Fds : n # l => table'[n] = table[n]
          /\ table' \in [Fds -> Object] /\ logfd' = l
      BY <2>3, <3>1, Opening
    <3> HIDE DEF l
    <3>3. TypeOK'
      BY <1>5, <3>2 DEF Inv, TypeOK, Syslog, options, lists
    <3>4. OwnDrives'
      BY <1>5, <2>1, <3>2, Kinds DEF Inv, TypeOK, OwnDrives, Alive, Syslog, lists
    <3>5. OwnSockets'
      <4>1. \A i \in DOMAIN sks_serv : sks_serv[i] \in Fds /\ table[sks_serv[i]][1] = "socket"
        BY <2>1 DEF Inv, TypeOK, OwnSockets
      <4> QED
        BY <1>5, <2>1, <3>2, <4>1, Kinds DEF OwnSockets, Syslog
    <3>6. NotYet' /\ StandardsOpen'
      BY <2>1 DEF NotYet, StandardsOpen, Early
    <3>7. AllAccounted'
      BY <1>5, <2>1, <2>3, <3>2
         DEF Inv, AllAccounted, Accounted, Known, Syslog, Early, lists, None, Fds
    <3> QED
      BY <3>3, <3>4, <3>5, <3>6, <3>7 DEF Inv
  <2> QED
    BY <1>5, <2>2, <2>3 DEF Syslog
<1>6. CASE CloseSockets
  <2> DEFINE closed == {sks_serv[i] : i \in DOMAIN sks_serv}
                          \cup (IF logfd = None THEN {} ELSE {logfd})
  <2>1. /\ \A n \in Fds : table'[n] = IF n \in closed THEN Free ELSE table[n]
        /\ table' \in [Fds -> Object]
    BY <1>6 DEF CloseSockets, Closing, Object, Inv, TypeOK
  <2>2. pc = "select" /\ pc' = "closed" /\ cfd = None /\ cfd' = None
    BY <1>6 DEF CloseSockets, Inv, NotYet
  <2>3. TypeOK'
    BY <1>6, <2>1 DEF Inv, TypeOK, CloseSockets, options, lists
  <2>4. OwnDrives'
    <3>1. ASSUME NEW d \in Drives, fd[d] # None
          PROVE  fd[d] \in Fds /\ table[fd[d]] = Drive(d) /\ fd[d] \notin closed
      BY <2>2, <3>1, Kinds DEF Inv, TypeOK, OwnDrives, OwnSockets, Alive
    <3> QED
      BY <1>6, <2>1, <3>1 DEF OwnDrives, CloseSockets, lists
  <2>5. OwnSockets' /\ NotYet' /\ StandardsOpen' /\ AllAccounted'
    BY <2>2 DEF OwnSockets, NotYet, StandardsOpen, AllAccounted, Early
  <2> QED
    BY <2>3, <2>4, <2>5 DEF Inv
<1> QED
  BY <1>1, <1>2, <1>3, <1>4, <1>5, <1>6 DEF Loop

LEMMA StutterKeeps == ASSUME Inv, UNCHANGED vars PROVE Inv'
<1>1. TypeOK'
  BY DEF Inv, TypeOK, vars, options, lists
<1>2. OwnDrives' /\ OwnSockets' /\ StandardsOpen' /\ NotYet' /\ AllAccounted'
  BY DEF Inv, vars, lists, OwnDrives, OwnSockets, Alive, StandardsOpen, Early, NotYet,
         AllAccounted, Accounted, Known
<1> QED
  BY <1>1, <1>2 DEF Inv

-----------------------------------------------------------------------------
\* Every state of a daemon that is started with 0, 1 and 2 open satisfies Inv.
THEOREM Invariance == ASSUME AllStandard PROVE Spec => []Inv
<1>1. Init => Inv
  BY InvInit
<1>2. Inv /\ [Next]_vars => Inv'
  BY CollectKeeps, StartKeeps, LoopKeeps, StutterKeeps DEF Next
<1> QED
  BY <1>1, <1>2, PTL DEF Spec

(***************************************************************************)
(* The drivers' ioctls reach the drive they are meant for, whatever        *)
(* numbers accept(), syslog() and socket() are given meanwhile             *)
(* (daemon.c, ata.c, sata.c, scsi.c).                                      *)
(***************************************************************************)
THEOREM DrivesAreTheirOwn == ASSUME AllStandard PROVE Spec => []OwnDrives
<1>1. Inv => OwnDrives
  BY DEF Inv
<1> QED
  BY <1>1, Invariance, PTL

\* Replies go to the client accepted, select() watches listening sockets, and the
\* log's descriptor is the log's (daemon.c).
THEOREM SocketsAreTheirOwn == ASSUME AllStandard PROVE Spec => []OwnSockets
<1>1. Inv => OwnSockets
  BY DEF Inv
<1> QED
  BY <1>1, Invariance, PTL

\* Whenever the daemon waits in select(), every descriptor that is open is one it
\* still knows, or that of a drive dropped at the start (hddtemp.c:494).
THEOREM ServingLeaksNothing == ASSUME AllStandard PROVE Spec => []NothingLeaks
<1>1. Inv => NothingLeaks
  BY DEF Inv, AllAccounted, Accounted, NothingLeaks, NotYet, Early, None, Fds
<1> QED
  BY <1>1, Invariance, PTL
=============================================================================
