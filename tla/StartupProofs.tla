--------------------------- MODULE StartupProofs ----------------------------
(***************************************************************************)
(* Proofs about Startup, for any number of arguments, whatever prefixes    *)
(* they have and whatever is behind them: the list is in the order of the  *)
(* arguments, the exit status tells whether all are in it, each disk of it *)
(* is as DiskCache assumes, and no temperature is printed that was not     *)
(* read.                                                                   *)
(***************************************************************************)
EXTENDS Startup, LineReader, GetTemperatureProofs

Item == [arg : 1..NArgs, dsk : Disk]
Output == [arg : 1..NArgs, says : {"temperature", "0", "text"}]

-----------------------------------------------------------------------------
(***************************************************************************)
(* The inductive invariant.                                                *)
(***************************************************************************)

\* The first of the arguments that have been dealt with.
From == IF pc \in {"collect", "exit"} THEN i + 1 ELSE 1

\* Argument a is in the list and its drive was opened.
IsOpened(a) ==
    \E j \in 1..Len(ldisks) : ldisks[j].arg = a /\ ldisks[j].dsk.type # "ERROR"

ListInv ==
    /\ \A j \in 1..Len(ldisks) : ldisks[j].arg >= From
    /\ \A j, k \in 1..Len(ldisks) : j < k => ldisks[j].arg < ldisks[k].arg
    /\ Len(ldisks) + From <= NArgs + 1

StatusInv == ret = 0 <=> \A a \in From..NArgs : IsOpened(a)

\* In direct mode the disks from i on are still as they were collected, and
\* the lines printed belong to disks before them.
OutputInv ==
    /\ pc \in {"collect", "exit", "daemon"} => stdout = <<>>
    /\ pc \in {"collect", "exit"} => i <= NArgs
    /\ pc \in {"direct", "no_memory", "returned"} => i \in 1..Len(ldisks) + 1
    /\ \A k \in 1..Len(stdout) : \A j \in i..Len(ldisks) :
          pc = "direct" => stdout[k].arg < ldisks[j].arg
    /\ \A j, k \in 1..Len(stdout) : j < k => stdout[j].arg < stdout[k].arg

UnreadInv ==
    /\ HandedOver
    /\ pc = "direct" =>
          \A j \in i..Len(ldisks) : ldisks[j].dsk \in CollectedDisk

Inv ==
    /\ TypeOK
    /\ ListInv
    /\ StatusInv
    /\ OutputInv
    /\ UnreadInv
    /\ TemperaturesRead
    /\ DatabaseWhenNeeded

-----------------------------------------------------------------------------
(* Sequences. *)

\* What putting an element in front of a list does to the others.
LEMMA Prepended ==
    ASSUME NEW S, NEW l \in Seq(S), NEW x \in S
    PROVE  /\ <<x>> \o l \in Seq(S)
           /\ Len(<<x>> \o l) = Len(l) + 1
           /\ (<<x>> \o l)[1] = x
           /\ \A j \in 2..Len(l) + 1 : (<<x>> \o l)[j] = l[j - 1]
OBVIOUS

\* What is in a list.
LEMMA ItemArg ==
    ASSUME NEW l \in Seq(Item), NEW j \in 1..Len(l)
    PROVE  l[j].arg \in 1..NArgs /\ l[j].dsk \in Disk
<1>1. l[j] \in Item
  OBVIOUS
<1> QED
  BY <1>1 DEF Item

\* The numbers the parameters stand for.
LEMMA Numbers == NArgs \in Nat /\ NArgs > 0
BY StartupAssumption

-----------------------------------------------------------------------------
(* Init and the collection. *)

LEMMA InvInit == Init => Inv
<1> SUFFICES ASSUME Init PROVE Inv
  OBVIOUS
<1> USE Numbers
<1>1. TypeOK
  BY DEF Init, TypeOK
<1>2. ListInv /\ StatusInv
  BY DEF Init, ListInv, StatusInv, From
<1>3. OutputInv /\ UnreadInv /\ TemperaturesRead /\ DatabaseWhenNeeded
  BY DEF Init, OutputInv, UnreadInv, HandedOver, TemperaturesRead,
         DatabaseWhenNeeded
<1> QED
  BY <1>1, <1>2, <1>3 DEF Inv

(***************************************************************************)
(* The three ways of listing a disk have this in common: it is put in      *)
(* front of the disks of the arguments behind its own.                     *)
(***************************************************************************)
LEMMA ListedInv ==
    ASSUME Inv, Collecting, NEW x \in CollectedDisk, Listed(x),
           i' = i - 1, UNCHANGED <<given, pc, stdout>>,
           ret' \in {0, 1}, ret' = 0 <=> (ret = 0 /\ x.type # "ERROR"),
           db' \in {"unloaded", "loaded", "freed"}, DatabaseWhenNeeded'
    PROVE  Inv'
<1> USE Numbers
<1> DEFINE item == [arg |-> i, dsk |-> x]
<1>1. /\ pc = "collect" /\ pc' = "collect" /\ stdout = <<>> /\ stdout' = <<>>
      /\ i \in 1..NArgs /\ i' = i - 1 /\ From = i + 1 /\ From' = i
      /\ ldisks \in Seq(Item)
  BY DEF Inv, TypeOK, OutputInv, Collecting, From, Item
<1>2. item \in Item /\ item.arg = i /\ item.dsk = x
  BY <1>1, CollectedDiskCoherent DEF Item
<1>3. ldisks' = <<item>> \o ldisks
  BY DEF Listed
<1> HIDE DEF item
<1>4. /\ ldisks' \in Seq(Item)
      /\ Len(ldisks') = Len(ldisks) + 1 /\ Len(ldisks) \in Nat
      /\ ldisks'[1] = item
      /\ \A j \in 2..Len(ldisks) + 1 : ldisks'[j] = ldisks[j - 1]
  BY <1>1, <1>2, <1>3, Prepended
<1>5. TypeOK'
  BY <1>1, <1>4 DEF Inv, TypeOK, given, Item
<1>6. ListInv'
  <2>1. /\ \A j \in 1..Len(ldisks) : ldisks[j].arg >= i + 1
        /\ \A j, k \in 1..Len(ldisks) : j < k => ldisks[j].arg < ldisks[k].arg
        /\ Len(ldisks) + i + 1 <= NArgs + 1
    BY <1>1, <1>4 DEF Inv, ListInv
  <2>2. \A j \in 1..Len(ldisks) : ldisks[j].arg \in 1..NArgs
    BY <1>1, ItemArg
  <2>3. ASSUME NEW j \in 1..Len(ldisks')
        PROVE  ldisks'[j].arg >= i
    <3>1. CASE j = 1
      BY <1>1, <1>2, <1>4, <3>1
    <3>2. CASE j # 1
      <4>1. j - 1 \in 1..Len(ldisks) /\ ldisks'[j] = ldisks[j - 1]
        BY <1>4, <3>2
      <4>2. ldisks[j - 1].arg >= i + 1 /\ ldisks[j - 1].arg \in 1..NArgs
        BY <2>1, <2>2, <4>1
      <4> QED
        BY <1>1, <4>1, <4>2
    <3> QED
      BY <3>1, <3>2
  <2>4. ASSUME NEW j \in 1..Len(ldisks'), NEW k \in 1..Len(ldisks'), j < k
        PROVE  ldisks'[j].arg < ldisks'[k].arg
    <3>1. k \in 2..Len(ldisks) + 1 /\ k - 1 \in 1..Len(ldisks)
          /\ ldisks'[k] = ldisks[k - 1]
      BY <1>4, <2>4
    <3>2. CASE j = 1
      BY <1>1, <1>2, <1>4, <2>1, <2>2, <3>1, <3>2
    <3>3. CASE j # 1
      <4>1. j - 1 \in 1..Len(ldisks) /\ ldisks'[j] = ldisks[j - 1] /\ j - 1 < k - 1
        BY <1>4, <2>4, <3>3
      <4> QED
        BY <2>1, <3>1, <4>1
    <3> QED
      BY <3>2, <3>3
  <2> QED
    BY <1>1, <1>4, <2>1, <2>3, <2>4 DEF ListInv
<1>7. StatusInv'
  <2>1. ret = 0 <=> \A a \in i + 1..NArgs : IsOpened(a)
    BY <1>1 DEF Inv, StatusInv
  <2>2. ASSUME NEW a \in i + 1..NArgs
        PROVE  IsOpened(a)' <=> IsOpened(a)
    <3>1. ASSUME IsOpened(a) PROVE IsOpened(a)'
      <4>1. PICK j \in 1..Len(ldisks) :
               ldisks[j].arg = a /\ ldisks[j].dsk.type # "ERROR"
        BY <3>1 DEF IsOpened
      <4>2. j + 1 \in 2..Len(ldisks) + 1 /\ ldisks'[j + 1] = ldisks[j]
        BY <1>4
      <4> QED
        BY <1>4, <4>1, <4>2 DEF IsOpened
    <3>2. ASSUME IsOpened(a)' PROVE IsOpened(a)
      <4>1. PICK j \in 1..Len(ldisks') :
               ldisks'[j].arg = a /\ ldisks'[j].dsk.type # "ERROR"
        BY <3>2 DEF IsOpened
      <4>2. j # 1
        BY <1>1, <1>2, <1>4, <4>1
      <4>3. j - 1 \in 1..Len(ldisks) /\ ldisks'[j] = ldisks[j - 1]
        BY <1>4, <4>2
      <4> QED
        BY <4>1, <4>3 DEF IsOpened
    <3> QED
      BY <3>1, <3>2
  <2>3. ASSUME NEW a \in 1..NArgs, a = i
        PROVE  IsOpened(a)' <=> x.type # "ERROR"
    <3>1. ASSUME x.type # "ERROR" PROVE IsOpened(a)'
      <4>1. 1 \in 1..Len(ldisks')
        BY <1>4
      <4>2. ldisks'[1].arg = a /\ ldisks'[1].dsk.type # "ERROR"
        BY <1>2, <1>4, <2>3, <3>1
      <4> QED
        BY <4>1, <4>2 DEF IsOpened
    <3>2. ASSUME IsOpened(a)' PROVE x.type # "ERROR"
      <4>1. PICK j \in 1..Len(ldisks') :
               ldisks'[j].arg = a /\ ldisks'[j].dsk.type # "ERROR"
        BY <3>2 DEF IsOpened
      <4>2. CASE j = 1
        BY <1>2, <1>4, <4>1, <4>2
      <4>3. CASE j # 1
        <5>1. j - 1 \in 1..Len(ldisks) /\ ldisks'[j] = ldisks[j - 1]
          BY <1>4, <4>3
        <5>2. ldisks[j - 1].arg >= i + 1 /\ ldisks[j - 1].arg = a
          BY <1>1, <4>1, <5>1 DEF Inv, ListInv
        <5> QED
          BY <1>1, <2>3, <5>2
      <4> QED
        BY <4>2, <4>3
    <3> QED
      BY <3>1, <3>2
  <2>4. ret' = 0 <=> \A a \in i..NArgs : IsOpened(a)'
    <3>1. ASSUME ret' = 0, NEW a \in i..NArgs PROVE IsOpened(a)'
      <4>1. CASE a = i
        BY <1>1, <2>3, <3>1, <4>1
      <4>2. CASE a # i
        BY <1>1, <2>1, <2>2, <3>1, <4>2
      <4> QED
        BY <4>1, <4>2
    <3>2. ASSUME \A a \in i..NArgs : IsOpened(a)' PROVE ret' = 0
      <4>1. x.type # "ERROR"
        BY <1>1, <2>3, <3>2
      <4>2. \A a \in i + 1..NArgs : IsOpened(a)
        BY <1>1, <2>2, <3>2
      <4> QED
        BY <2>1, <4>1, <4>2
    <3> QED
      BY <3>1, <3>2
  <2> QED
    BY <1>1, <2>4 DEF StatusInv
<1>8. OutputInv'
  BY <1>1 DEF OutputInv
<1>9. UnreadInv'
  <2>1. \A j \in 1..Len(ldisks) : ldisks[j].dsk \in CollectedDisk
    BY <1>1 DEF Inv, UnreadInv, HandedOver
  <2>2. ASSUME NEW j \in 1..Len(ldisks')
        PROVE  ldisks'[j].dsk \in CollectedDisk
    <3>1. CASE j = 1
      BY <1>2, <1>4, <3>1
    <3>2. CASE j # 1
      <4>1. j - 1 \in 1..Len(ldisks) /\ ldisks'[j] = ldisks[j - 1]
        BY <1>4, <3>2
      <4> QED
        BY <2>1, <4>1
    <3> QED
      BY <3>1, <3>2
  <2> QED
    BY <1>1, <2>2 DEF UnreadInv, HandedOver
<1>10. TemperaturesRead'
  BY <1>1 DEF TemperaturesRead
<1> QED
  BY <1>5, <1>6, <1>7, <1>8, <1>9, <1>10 DEF Inv

\* The loops that leave the arguments, and the database, as they are.
LEMMA DatabaseKept ==
    ASSUME DatabaseWhenNeeded, UNCHANGED <<given, db>>, pc' = "exit" => pc = "exit"
    PROVE  DatabaseWhenNeeded'
BY DEF DatabaseWhenNeeded, given

LEMMA OpenFailsInv == Inv /\ OpenFails => Inv'
<1> SUFFICES ASSUME Inv, OpenFails PROVE Inv'
  OBVIOUS
<1>1. /\ Collecting /\ Listed(NotOpened("ERROR")) /\ i' = i - 1 /\ ret' = 1
      /\ UNCHANGED <<given, pc, stdout>> /\ UNCHANGED db
  BY DEF OpenFails
<1>2. NotOpened("ERROR") \in CollectedDisk
  BY DEF CollectedDisk
<1>3. NotOpened("ERROR").type = "ERROR"
  BY DEF NotOpened
<1>4. db' \in {"unloaded", "loaded", "freed"}
  BY <1>1 DEF Inv, TypeOK
<1>5. DatabaseWhenNeeded'
  BY <1>1, DatabaseKept DEF Inv
<1> QED
  BY <1>1, <1>2, <1>3, <1>4, <1>5, ListedInv

LEMMA CollectScsiInv == Inv /\ CollectScsi => Inv'
<1> SUFFICES ASSUME Inv, CollectScsi PROVE Inv'
  OBVIOUS
<1> DEFINE x == Opened("BUS_SCSI", "NULL")
<1>1. /\ Collecting /\ Listed(x) /\ i' = i - 1 /\ ret' = ret
      /\ UNCHANGED <<given, pc, stdout>> /\ UNCHANGED db
  BY DEF CollectScsi
<1>2. x \in CollectedDisk
  BY DEF CollectedDisk
<1>3. x.type = "BUS_SCSI"
  BY DEF Opened
<1>4. db' \in {"unloaded", "loaded", "freed"} /\ ret' \in {0, 1}
  BY <1>1 DEF Inv, TypeOK
<1>5. DatabaseWhenNeeded'
  BY <1>1, DatabaseKept DEF Inv
<1> HIDE DEF x
<1> QED
  BY <1>1, <1>2, <1>3, <1>4, <1>5, ListedInv

LEMMA CollectAtaInv == Inv /\ CollectAta => Inv'
<1> SUFFICES ASSUME Inv, CollectAta PROVE Inv'
  OBVIOUS
<1> DEFINE type == Type(args[i], drives[i])
<1>1. /\ Collecting /\ i' = i - 1 /\ ret' = ret /\ db' = "loaded"
      /\ UNCHANGED <<given, pc, stdout>>
      /\ drives[i].opens /\ type \in {"BUS_SATA", "BUS_ATA"}
  BY DEF CollectAta
<1>2. PICK entry \in {"attribute", "attribute0"} : Listed(Opened(type, entry))
  BY DEF CollectAta
<1>3. DatabaseWhenNeeded'
  <2>1. i \in 1..NArgs
    BY <1>1, Numbers DEF Collecting, Inv, TypeOK, OutputInv
  <2> QED
    BY <1>1, <2>1 DEF DatabaseWhenNeeded, given
<1>4. ret' \in {0, 1}
  BY <1>1 DEF Inv, TypeOK
<1> HIDE DEF type
<1>5. Opened(type, entry) \in CollectedDisk
  BY <1>1 DEF CollectedDisk
<1>6. Opened(type, entry).type # "ERROR"
  BY <1>1 DEF Opened
<1> QED
  BY <1>1, <1>2, <1>3, <1>4, <1>5, <1>6, ListedInv

\* The argument is dropped: nothing is listed for it.
LEMMA UnknownBusInv == Inv /\ UnknownBus => Inv'
<1> SUFFICES ASSUME Inv, UnknownBus PROVE Inv'
  OBVIOUS
<1> USE Numbers
<1>1. /\ pc = "collect" /\ i \in 1..NArgs /\ i' = i - 1 /\ ret' = 1
      /\ UNCHANGED <<given, pc, ldisks, db, stdout>>
      /\ From = i + 1 /\ From' = i
  BY DEF UnknownBus, Collecting, Inv, TypeOK, OutputInv, From
<1>2. TypeOK'
  BY <1>1 DEF Inv, TypeOK, given
<1>3. \A j \in 1..Len(ldisks) : ldisks[j].arg \in 1..NArgs /\ ldisks[j].arg >= i + 1
  <2>1. ldisks \in Seq(Item)
    BY DEF Inv, TypeOK, Item
  <2> QED
    BY <1>1, <2>1, ItemArg DEF Inv, ListInv
<1>4. ListInv'
  <2>1. Len(ldisks) \in Nat
    BY DEF Inv, TypeOK
  <2> QED
    BY <1>1, <1>3, <2>1 DEF Inv, ListInv
<1>5. StatusInv'
  <2>1. ASSUME NEW a \in 1..NArgs, a = i PROVE ~IsOpened(a)'
    BY <1>1, <1>3, <2>1 DEF IsOpened
  <2> QED
    BY <1>1, <2>1 DEF StatusInv
<1>6. OutputInv' /\ UnreadInv' /\ TemperaturesRead'
  BY <1>1 DEF Inv, OutputInv, UnreadInv, HandedOver, TemperaturesRead
<1>7. DatabaseWhenNeeded'
  BY <1>1, DatabaseKept DEF Inv
<1> QED
  BY <1>2, <1>4, <1>5, <1>6, <1>7 DEF Inv

LEMMA BadDatabaseInv == Inv /\ BadDatabase => Inv'
<1> SUFFICES ASSUME Inv, BadDatabase PROVE Inv'
  OBVIOUS
<1> USE Numbers
<1>1. /\ pc = "collect" /\ pc' = "exit" /\ i \in 1..NArgs
      /\ UNCHANGED <<given, i, ldisks, db, ret, stdout>>
      /\ From = i + 1 /\ From' = From
  BY DEF BadDatabase, Collecting, Inv, TypeOK, OutputInv, From
<1>2. TypeOK' /\ ListInv'
  BY <1>1 DEF Inv, TypeOK, ListInv, given
<1>3. StatusInv'
  BY <1>1 DEF Inv, StatusInv, IsOpened
<1>4. OutputInv' /\ UnreadInv' /\ TemperaturesRead'
  BY <1>1 DEF Inv, OutputInv, UnreadInv, HandedOver, TemperaturesRead
<1>5. DatabaseWhenNeeded'
  BY <1>1 DEF BadDatabase, DatabaseWhenNeeded, given
<1> QED
  BY <1>2, <1>3, <1>4, <1>5 DEF Inv

LEMMA CollectedInv == Inv /\ Collected => Inv'
<1> SUFFICES ASSUME Inv, Collected PROVE Inv'
  OBVIOUS
<1> USE Numbers
<1>1. /\ pc = "collect" /\ pc' \in {"daemon", "direct"} /\ i = 0 /\ i' = 1
      /\ UNCHANGED <<given, ldisks, ret, stdout>>
      /\ db' = IF db = "loaded" THEN "freed" ELSE db
      /\ From = 1 /\ From' = 1
  BY DEF Collected, From
<1>2. TypeOK' /\ ListInv'
  BY <1>1 DEF Inv, TypeOK, ListInv, given
<1>3. StatusInv'
  BY <1>1 DEF Inv, StatusInv, IsOpened
<1>4. OutputInv'
  <2>1. Len(ldisks) \in Nat
    BY DEF Inv, TypeOK
  <2> QED
    BY <1>1, <2>1 DEF Inv, OutputInv
<1>5. UnreadInv' /\ TemperaturesRead'
  BY <1>1 DEF Inv, UnreadInv, HandedOver, TemperaturesRead
<1>6. DatabaseWhenNeeded'
  BY <1>1 DEF Inv, DatabaseWhenNeeded, given
<1> QED
  BY <1>2, <1>3, <1>4, <1>5, <1>6 DEF Inv

-----------------------------------------------------------------------------
(* Direct mode. *)

\* What the one query of a collected disk leaves.
LEMMA CollectedAnswered ==
    ASSUME NEW d \in CollectedDisk, NEW answer \in GetTemperature(d)
    PROVE  /\ answer \in Disk /\ answer.ret \in Verdict
           /\ answer.type = d.type
           /\ answer.ret = "KNOWN" => answer.measured
<1>1. d \in Disk /\ Coherent(d) /\ d.ret = "ERROR"
  BY CollectedDiskCoherent
<1>2. CASE d.type = "ERROR"
  <2>1. answer = [d EXCEPT !.ret = "ERROR"]
    BY <1>2 DEF GetTemperature, Return
  <2> QED
    BY <1>1, <2>1 DEF Disk, Verdict
<1>3. CASE d.type # "ERROR"
  <2>1. NotOpened("ERROR").type = "ERROR"
    BY DEF NotOpened
  <2>2. \A type, entry : /\ Opened(type, entry).value = NoValue
                         /\ ~Opened(type, entry).measured
    BY DEF Opened
  <2>3. d.value = NoValue /\ ~d.measured
    BY <1>3, <2>1, <2>2 DEF CollectedDisk
  <2>4. Answered(d, answer)
    BY <1>1, <2>3, QueryAnswered DEF Asked
  <2> QED
    BY <2>4 DEF Answered, Disk
<1> QED
  BY <1>2, <1>3

\* At most one line is printed for a disk.
LEMMA PrintedLines ==
    ASSUME NEW d, d.ret \in Verdict
    PROVE  \/ Printed(d) = <<>>
           \/ \E w \in {"temperature", "0", "text"} :
                 Printed(d) = <<w>> /\ (w = "temperature" => d.ret = "KNOWN")
BY DEF Printed, Verdict

LEMMA DisplayTemperatureInv == Inv /\ DisplayTemperature => Inv'
<1> SUFFICES ASSUME Inv, DisplayTemperature PROVE Inv'
  OBVIOUS
<1> USE Numbers
<1>1. /\ pc = "direct" /\ pc' = "direct" /\ i' = i + 1
      /\ UNCHANGED <<given, db, ret>>
      /\ Len(ldisks) \in Nat /\ Len(ldisks) <= NArgs
      /\ i \in 1..Len(ldisks) /\ From = 1 /\ From' = 1
      /\ ldisks \in Seq(Item) /\ stdout \in Seq(Output)
  BY DEF DisplayTemperature, Inv, TypeOK, OutputInv, ListInv, From, Item, Output
<1>2. PICK dsk \in GetTemperature(ldisks[i].dsk) :
         /\ ldisks' = [ldisks EXCEPT ![i].dsk = dsk]
         /\ stdout' = stdout \o
               [k \in 1..Len(Printed(dsk)) |->
                   [arg |-> ldisks[i].arg, says |-> Printed(dsk)[k]]]
  BY DEF DisplayTemperature
<1>3. /\ dsk \in Disk /\ dsk.ret \in Verdict /\ dsk.type = ldisks[i].dsk.type
      /\ dsk.ret = "KNOWN" => dsk.measured
  <2>1. ldisks[i].dsk \in CollectedDisk
    BY <1>1 DEF Inv, UnreadInv
  <2> QED
    BY <1>2, <2>1, CollectedAnswered
<1>4. ldisks[i] \in Item /\ ldisks[i].arg \in 1..NArgs
  BY <1>1, ItemArg
<1> DEFINE item == [ldisks[i] EXCEPT !.dsk = dsk]
<1>5. item \in Item /\ item.arg = ldisks[i].arg /\ item.dsk = dsk
  BY <1>3, <1>4 DEF Item
<1>6. ldisks' = [ldisks EXCEPT ![i] = item]
  BY <1>2
<1> HIDE DEF item
<1>7. /\ ldisks' \in Seq(Item) /\ Len(ldisks') = Len(ldisks) /\ ldisks'[i] = item
      /\ \A j \in 1..Len(ldisks) : j # i => ldisks'[j] = ldisks[j]
  BY <1>1, <1>5, <1>6
<1>8. \A j \in 1..Len(ldisks) :
         /\ ldisks'[j].arg = ldisks[j].arg
         /\ ldisks'[j].dsk.type = ldisks[j].dsk.type
  BY <1>3, <1>5, <1>7
<1> DEFINE line(w) == [arg |-> ldisks[i].arg, says |-> w]
<1> DEFINE lines == [k \in 1..Len(Printed(dsk)) |->
                       [arg |-> ldisks[i].arg, says |-> Printed(dsk)[k]]]
<1>9. \/ stdout' = stdout
      \/ \E w \in {"temperature", "0", "text"} :
            /\ stdout' = Append(stdout, line(w))
            /\ w = "temperature" => dsk.measured
  <2>1. stdout' = stdout \o lines
    BY <1>2
  <2>2. CASE Printed(dsk) = <<>>
    <3>1. lines = <<>>
      BY <2>2
    <3> HIDE DEF lines
    <3> QED
      BY <1>1, <2>1, <3>1
  <2>3. ASSUME NEW w \in {"temperature", "0", "text"}, Printed(dsk) = <<w>>
        PROVE  stdout' = Append(stdout, line(w))
    <3>1. lines = <<line(w)>>
      BY <2>3
    <3>2. line(w) \in Output
      BY <1>4 DEF Output
    <3> HIDE DEF lines, line
    <3> QED
      BY <1>1, <2>1, <3>1, <3>2
  <2> QED
    BY <1>3, <2>2, <2>3, PrintedLines
<1>10. /\ stdout' \in Seq(Output)
       /\ \A k \in 1..Len(stdout) : stdout'[k] = stdout[k]
       /\ Len(stdout) \in Nat /\ Len(stdout') \in {Len(stdout), Len(stdout) + 1}
       /\ Len(stdout') = Len(stdout) + 1 =>
             /\ stdout'[Len(stdout')].arg = ldisks[i].arg
             /\ stdout'[Len(stdout')].says = "temperature" => dsk.measured
  <2>1. CASE stdout' = stdout
    BY <1>1, <2>1
  <2>2. ASSUME NEW w \in {"temperature", "0", "text"},
               stdout' = Append(stdout, line(w)), w = "temperature" => dsk.measured
        PROVE  <1>10
    <3>1. line(w) \in Output /\ line(w).arg = ldisks[i].arg /\ line(w).says = w
      BY <1>4 DEF Output
    <3> HIDE DEF line
    <3> QED
      BY <1>1, <2>2, <3>1
  <2> QED
    BY <1>9, <2>1, <2>2
<1>11. TypeOK'
  BY <1>1, <1>7, <1>10 DEF Inv, TypeOK, given, Item, Output
<1>12. ListInv'
  BY <1>1, <1>7, <1>8 DEF Inv, ListInv
<1>13. StatusInv'
  <2>1. \A a \in 1..NArgs : IsOpened(a)' <=> IsOpened(a)
    BY <1>7, <1>8 DEF IsOpened
  <2> QED
    BY <1>1, <2>1 DEF Inv, StatusInv
<1>14. OutputInv'
  <2>1. \A k \in 1..Len(stdout) : \A j \in i..Len(ldisks) :
           stdout[k].arg < ldisks[j].arg
    BY <1>1 DEF Inv, OutputInv
  <2>2. \A j \in 1..Len(ldisks) : ldisks[j].arg \in 1..NArgs
    BY <1>1, ItemArg
  <2>3. i' \in 1..Len(ldisks') + 1
    BY <1>1, <1>7
  <2>4. ASSUME NEW k \in 1..Len(stdout'), NEW j \in i + 1..Len(ldisks)
        PROVE  stdout'[k].arg < ldisks'[j].arg
    <3>1. ldisks[i].arg < ldisks[j].arg /\ ldisks'[j].arg = ldisks[j].arg
      BY <1>1, <1>8 DEF Inv, ListInv
    <3>2. CASE k \in 1..Len(stdout)
      BY <1>1, <1>10, <2>1, <3>1, <3>2
    <3>3. CASE k \notin 1..Len(stdout)
      BY <1>10, <3>1, <3>3
    <3> QED
      BY <3>2, <3>3
  <2>5. ASSUME NEW j \in 1..Len(stdout'), NEW k \in 1..Len(stdout'), j < k
        PROVE  stdout'[j].arg < stdout'[k].arg
    <3>1. j \in 1..Len(stdout) /\ stdout'[j] = stdout[j]
      BY <1>10, <2>5
    <3>2. CASE k \in 1..Len(stdout)
      BY <1>10, <2>5, <3>1, <3>2 DEF Inv, OutputInv
    <3>3. CASE k \notin 1..Len(stdout)
      BY <1>1, <1>10, <2>1, <3>1, <3>3
    <3> QED
      BY <3>2, <3>3
  <2>6. \A k \in 1..Len(stdout') : \A j \in i'..Len(ldisks') :
           stdout'[k].arg < ldisks'[j].arg
    BY <1>1, <1>7, <2>4
  <2> QED
    BY <1>1, <2>3, <2>5, <2>6 DEF OutputInv
<1>15. UnreadInv'
  BY <1>1, <1>7 DEF Inv, UnreadInv, HandedOver
<1>16. TemperaturesRead'
  <2> SUFFICES ASSUME NEW k \in 1..Len(stdout'),
                      stdout'[k].says = "temperature"
               PROVE  \E j \in 1..Len(ldisks') :
                         ldisks'[j].arg = stdout'[k].arg /\ ldisks'[j].dsk.measured
    BY DEF TemperaturesRead
  <2>1. CASE k \in 1..Len(stdout)
    <3>1. PICK j \in 1..Len(ldisks) :
             ldisks[j].arg = stdout[k].arg /\ ldisks[j].dsk.measured
      BY <1>10, <2>1 DEF Inv, TemperaturesRead
    <3>2. j # i
      <4>1. stdout[k].arg < ldisks[i].arg
        BY <1>1, <2>1 DEF Inv, OutputInv
      <4> QED
        BY <1>4, <3>1, <4>1
    <3> QED
      BY <1>7, <1>10, <2>1, <3>1, <3>2
  <2>2. CASE k \notin 1..Len(stdout)
    BY <1>1, <1>5, <1>7, <1>10, <2>2
  <2> QED
    BY <2>1, <2>2
<1>17. DatabaseWhenNeeded'
  BY <1>1, DatabaseKept DEF Inv
<1> QED
  BY <1>11, <1>12, <1>13, <1>14, <1>15, <1>16, <1>17 DEF Inv

LEMMA EndInv == Inv /\ (Displayed \/ OutOfMemory) => Inv'
<1> SUFFICES ASSUME Inv, Displayed \/ OutOfMemory PROVE Inv'
  OBVIOUS
<1>1. /\ pc = "direct" /\ pc' \in {"returned", "no_memory"}
      /\ UNCHANGED <<given, i, ldisks, db, ret, stdout>>
      /\ From = 1 /\ From' = 1
  BY DEF Displayed, OutOfMemory, From
<1>2. TypeOK' /\ ListInv'
  BY <1>1 DEF Inv, TypeOK, ListInv, given
<1>3. StatusInv'
  BY <1>1 DEF Inv, StatusInv, IsOpened
<1>4. OutputInv' /\ UnreadInv' /\ TemperaturesRead'
  BY <1>1 DEF Inv, OutputInv, UnreadInv, HandedOver, TemperaturesRead
<1>5. DatabaseWhenNeeded'
  BY <1>1, DatabaseKept DEF Inv
<1> QED
  BY <1>2, <1>3, <1>4, <1>5 DEF Inv

LEMMA StutterInv == Inv /\ UNCHANGED vars => Inv'
BY DEF Inv, vars, given, TypeOK, ListInv, StatusInv, IsOpened, From, OutputInv,
       UnreadInv, HandedOver, TemperaturesRead, DatabaseWhenNeeded

-----------------------------------------------------------------------------
(* The theorems. *)

\* main() keeps the invariant from its first disk to its end.
THEOREM Invariance == Spec => []Inv
<1>1. Inv /\ [Next]_vars => Inv'
  BY OpenFailsInv, UnknownBusInv, CollectScsiInv, CollectAtaInv, BadDatabaseInv,
     CollectedInv, DisplayTemperatureInv, EndInv, StutterInv DEF Next
<1> QED
  BY InvInit, <1>1, PTL DEF Spec

\* Every variable of main() keeps its type, whatever the arguments.
THEOREM TypeCorrectness == Spec => []TypeOK
<1>1. Inv => TypeOK
  BY DEF Inv
<1> QED
  BY Invariance, <1>1, PTL

(***************************************************************************)
(* The disks are listed, and their lines printed, in the order of the      *)
(* arguments.                                                              *)
(***************************************************************************)
THEOREM OrderIsKept == Spec => []InOrder
<1>1. Inv => InOrder
  BY DEF Inv, ListInv, OutputInv, InOrder
<1> QED
  BY Invariance, <1>1, PTL

\* In direct mode, the exit status is 0 just when every drive has been opened and
\* listed.
THEOREM StatusIsRight == Spec => []StatusTells
<1>1. Inv => StatusTells
  BY DEF Inv, StatusInv, StatusTells, From, IsOpened
<1> QED
  BY Invariance, <1>1, PTL

\* What do_daemon_mode gets are the disks DiskCache begins with.
THEOREM HandsOver == Spec => []HandedOver
<1>1. Inv => HandedOver
  BY DEF Inv, UnreadInv
<1> QED
  BY Invariance, <1>1, PTL

\* No temperature is printed that was not read from the drive.
THEOREM TemperaturesWereRead == Spec => []TemperaturesRead
<1>1. Inv => TemperaturesRead
  BY DEF Inv
<1> QED
  BY Invariance, <1>1, PTL

\* The database can stop the program only if a drive needs it.
THEOREM DatabaseOnlyWhenNeeded == Spec => []DatabaseWhenNeeded
<1>1. Inv => DatabaseWhenNeeded
  BY DEF Inv
<1> QED
  BY Invariance, <1>1, PTL

-----------------------------------------------------------------------------
(* The type of a disk. *)

\* Arguments whose prefix, if they have one, is one of the documented types.
DocumentedPrefixes == \A arg \in Arguments : arg.colon => Named(arg) # {}

(***************************************************************************)
(* The three letters that strncmp() compares of a documented prefix tell   *)
(* the types apart.                                                        *)
(***************************************************************************)
LEMMA NamedMatches ==
    ASSUME NEW arg \in Arguments, NEW t \in Named(arg), NEW u \in DOMAIN Name
    PROVE  Matches(Name[u], arg.prefix) <=> u = t
<1>0. arg.prefix \in Seq(STRING)
  BY StartupAssumption
<1>1. /\ DOMAIN Name = {"BUS_SATA", "BUS_ATA", "BUS_SCSI"}
      /\ \A v \in DOMAIN Name : Len(Name[v]) = 4
  BY DEF Name
<1>2. t \in DOMAIN Name /\ Len(arg.prefix) = 4
  BY <1>1 DEF Named
<1>3. \A k \in 1..3 : Upper(arg.prefix[k]) = Name[t][k]
  <2> SUFFICES ASSUME NEW k \in 1..3 PROVE Upper(arg.prefix[k]) = Name[t][k]
    OBVIOUS
  <2>1. k \in DOMAIN arg.prefix
    BY <1>0, <1>2
  <2>2. \/ Name[t][k] = arg.prefix[k]
        \/ \E c \in DOMAIN Capital : arg.prefix[k] = c /\ Name[t][k] = Capital[c]
    BY <2>1 DEF Named
  <2>3. Name[t][k] \notin DOMAIN Capital
    BY <1>1, <1>2 DEF Name, Capital
  <2> QED
    BY <2>2, <2>3 DEF Upper
<1>4. Matches(Name[u], arg.prefix) <=> \A k \in 1..3 : Name[t][k] = Name[u][k]
  BY <1>1, <1>2, <1>3 DEF Matches
<1> QED
  BY <1>1, <1>2, <1>4 DEF Name

LEMMA ForcedAsNamed ==
    ASSUME NEW arg \in Arguments, NEW t \in Named(arg)
    PROVE  ForcedTypes(arg) = {t}
<1>1. /\ \A j \in 1..3 : Buses[j] \in DOMAIN Name
      /\ \A u \in DOMAIN Name : \E j \in 1..3 : Buses[j] = u
      /\ \A j, k \in 1..3 : Buses[j] = Buses[k] => j = k
  BY DEF Buses, Name
<1>2. arg.colon /\ t \in DOMAIN Name
  BY DEF Named
<1>3. \A j \in 1..3 : Matches(Name[Buses[j]], arg.prefix) <=> Buses[j] = t
  BY <1>1, NamedMatches
<1>4. PICK j \in 1..3 : Buses[j] = t
  BY <1>1, <1>2
<1>5. \A k \in 1..j-1 : ~Matches(Name[Buses[k]], arg.prefix)
  BY <1>1, <1>3, <1>4
<1>6. t \in ForcedTypes(arg)
  BY <1>2, <1>3, <1>4, <1>5 DEF ForcedTypes
<1>7. \A u \in ForcedTypes(arg) : u = t
  BY <1>3 DEF ForcedTypes
<1> QED
  BY <1>6, <1>7

\* The type main() gives a drive is the one named, or the one guessed.
LEMMA TypeIsRight ==
    ASSUME NEW arg \in Arguments, NEW drive \in Drives, DocumentedPrefixes,
           Type(arg, drive) # "BUS_UNKNOWN"
    PROVE  IF Named(arg) # {} THEN Type(arg, drive) \in Named(arg)
           ELSE /\ Type(arg, drive) \in drive.probes
                /\ "BUS_SATA" \in drive.probes => Type(arg, drive) = "BUS_SATA"
<1>1. CASE Named(arg) # {}
  <2>1. PICK t \in Named(arg) : TRUE
    BY <1>1
  <2>2. Type(arg, drive) = t
    BY <2>1, ForcedAsNamed DEF Type
  <2> QED
    BY <1>1, <2>1, <2>2
<1>2. CASE Named(arg) = {}
  <2>1. ~arg.colon
    BY <1>2 DEF DocumentedPrefixes
  <2>2. Type(arg, drive) = ProbeBusType(drive)
    BY <2>1 DEF Type, ForcedTypes
  <2>3. drive.probes \subseteq {"BUS_SATA", "BUS_ATA", "BUS_SCSI"}
    BY ProbesAssumption
  <2>4. CASE "BUS_SATA" \in drive.probes
    BY <1>2, <2>2, <2>4 DEF ProbeBusType
  <2>5. CASE "BUS_SATA" \notin drive.probes /\ "BUS_ATA" \in drive.probes
    BY <1>2, <2>2, <2>5 DEF ProbeBusType
  <2>6. CASE "BUS_SATA" \notin drive.probes /\ "BUS_ATA" \notin drive.probes
    <3>1. drive.probes = {} \/ drive.probes = {"BUS_SCSI"}
      BY <2>3, <2>6
    <3> QED
      BY <1>2, <2>2, <2>6, <3>1 DEF ProbeBusType
  <2> QED
    BY <2>4, <2>5, <2>6
<1> QED
  BY <1>1, <1>2

\* A disk of the list keeps the type its round of the loop has given it.
TypesInv ==
    \A j \in 1..Len(ldisks) :
        ldisks[j].dsk.type # "ERROR" =>
            ldisks[j].dsk.type = Type(args[ldisks[j].arg], drives[ldisks[j].arg])

LEMMA ListedTypes ==
    ASSUME Inv, TypesInv, Collecting, NEW x \in CollectedDisk, Listed(x),
           UNCHANGED given, x.type # "ERROR" => x.type = Type(args[i], drives[i])
    PROVE  TypesInv'
<1> DEFINE item == [arg |-> i, dsk |-> x]
<1>1. ldisks \in Seq(Item) /\ i \in 1..NArgs
  BY Numbers DEF Inv, TypeOK, OutputInv, Collecting, Item
<1>2. item \in Item /\ item.arg = i /\ item.dsk = x
  BY <1>1, CollectedDiskCoherent DEF Item
<1>3. ldisks' = <<item>> \o ldisks
  BY DEF Listed
<1> HIDE DEF item
<1>4. /\ Len(ldisks') = Len(ldisks) + 1 /\ ldisks'[1] = item
      /\ \A j \in 2..Len(ldisks) + 1 : ldisks'[j] = ldisks[j - 1]
  BY <1>1, <1>2, <1>3, Prepended
<1> SUFFICES ASSUME NEW j \in 1..Len(ldisks'), ldisks'[j].dsk.type # "ERROR"
             PROVE  ldisks'[j].dsk.type
                      = Type(args[ldisks'[j].arg], drives[ldisks'[j].arg])
  BY DEF TypesInv, given
<1>5. CASE j = 1
  BY <1>2, <1>4, <1>5
<1>6. CASE j # 1
  <2>1. j - 1 \in 1..Len(ldisks) /\ ldisks'[j] = ldisks[j - 1]
    BY <1>1, <1>4, <1>6
  <2> QED
    BY <2>1 DEF TypesInv
<1> QED
  BY <1>5, <1>6

LEMMA TypesStep == Inv /\ TypesInv /\ [Next]_vars => TypesInv'
<1> SUFFICES ASSUME Inv, TypesInv, [Next]_vars PROVE TypesInv'
  OBVIOUS
<1>1. CASE OpenFails
  <2>1. NotOpened("ERROR").type = "ERROR" /\ NotOpened("ERROR") \in CollectedDisk
    BY DEF NotOpened, CollectedDisk
  <2> QED
    BY <1>1, <2>1, ListedTypes DEF OpenFails
<1>2. CASE CollectScsi
  <2>1. /\ Opened("BUS_SCSI", "NULL").type = "BUS_SCSI"
        /\ Opened("BUS_SCSI", "NULL") \in CollectedDisk
    BY DEF Opened, CollectedDisk
  <2> QED
    BY <1>2, <2>1, ListedTypes DEF CollectScsi
<1>3. CASE CollectAta
  <2>1. PICK entry \in {"attribute", "attribute0"} :
           Listed(Opened(Type(args[i], drives[i]), entry))
    BY <1>3 DEF CollectAta
  <2>2. \A t \in {"BUS_SATA", "BUS_ATA"} : Opened(t, entry) \in CollectedDisk
    BY <2>1 DEF CollectedDisk
  <2>3. \A t : Opened(t, entry).type = t
    BY DEF Opened
  <2>4. Opened(Type(args[i], drives[i]), entry) \in CollectedDisk
    BY <1>3, <2>2 DEF CollectAta
  <2> QED
    BY <1>3, <2>1, <2>3, <2>4, ListedTypes DEF CollectAta
<1>4. CASE DisplayTemperature
  <2>1. /\ pc = "direct" /\ UNCHANGED given
        /\ i \in 1..Len(ldisks) /\ ldisks \in Seq(Item)
    BY <1>4 DEF DisplayTemperature, Inv, TypeOK, OutputInv, given, Item
  <2>2. PICK dsk \in GetTemperature(ldisks[i].dsk) :
           ldisks' = [ldisks EXCEPT ![i].dsk = dsk]
    BY <1>4 DEF DisplayTemperature
  <2>3. dsk.type = ldisks[i].dsk.type
    BY <2>1, <2>2, CollectedAnswered DEF Inv, UnreadInv
  <2>4. ldisks[i] \in Item
    BY <2>1, ItemArg
  <2> DEFINE item == [ldisks[i] EXCEPT !.dsk = dsk]
  <2>5. item.arg = ldisks[i].arg /\ item.dsk = dsk
    BY <2>4 DEF Item
  <2>6. ldisks' = [ldisks EXCEPT ![i] = item]
    BY <2>2
  <2> HIDE DEF item
  <2>7. /\ Len(ldisks') = Len(ldisks) /\ ldisks'[i] = item
        /\ \A j \in 1..Len(ldisks) : j # i => ldisks'[j] = ldisks[j]
    BY <2>1, <2>6
  <2> QED
    BY <2>1, <2>3, <2>5, <2>7 DEF TypesInv, given
<1>5. CASE UnknownBus \/ BadDatabase \/ Collected \/ Displayed \/ OutOfMemory
             \/ UNCHANGED vars
  <2>1. UNCHANGED <<given, ldisks>>
    BY <1>5 DEF UnknownBus, BadDatabase, Collected, Displayed, OutOfMemory, vars, given
  <2> QED
    BY <2>1 DEF TypesInv, given
<1> QED
  BY <1>1, <1>2, <1>3, <1>4, <1>5 DEF Next

(***************************************************************************)
(* With documented prefixes, a disk has the type that its argument names,  *)
(* and the guessed one otherwise.                                          *)
(***************************************************************************)
THEOREM TypesAreRight ==
    ASSUME DocumentedPrefixes
    PROVE  Spec => []TypeNamedOrGuessed
<1>1. Init => TypesInv
  BY DEF Init, TypesInv
<1>2. Inv /\ TypesInv => TypeNamedOrGuessed
  <2> SUFFICES ASSUME Inv, TypesInv, NEW j \in 1..Len(ldisks),
                      ldisks[j].dsk.type # "ERROR"
               PROVE  LET arg    == args[ldisks[j].arg]
                          probes == drives[ldisks[j].arg].probes
                          type   == ldisks[j].dsk.type
                      IN  IF Named(arg) # {} THEN type \in Named(arg)
                          ELSE /\ type \in probes
                               /\ "BUS_SATA" \in probes => type = "BUS_SATA"
    BY DEF TypeNamedOrGuessed
  <2>1. ldisks \in Seq(Item) /\ args \in [1..NArgs -> Arguments]
        /\ drives \in [1..NArgs -> Drives]
    BY DEF Inv, TypeOK, Item
  <2>2. ldisks[j].arg \in 1..NArgs /\ ldisks[j].dsk \in Disk
    BY <2>1, ItemArg
  <2>3. /\ args[ldisks[j].arg] \in Arguments /\ drives[ldisks[j].arg] \in Drives
        /\ ldisks[j].dsk.type # "BUS_UNKNOWN"
    BY <2>1, <2>2 DEF Disk, BusType
  <2>4. ldisks[j].dsk.type = Type(args[ldisks[j].arg], drives[ldisks[j].arg])
    BY DEF TypesInv
  <2> QED
    BY <2>3, <2>4, TypeIsRight
<1> QED
  BY Invariance, <1>1, <1>2, TypesStep, PTL DEF Spec

-----------------------------------------------------------------------------
(* Reading the database (LineReader), which main() does when the first ATA  *)
(* disk needs it.                                                           *)

(***************************************************************************)
(* The inductive invariant: between two rounds s is where the last parsed  *)
(* line ends, and when read() is called the buffer holds no newline.       *)
(***************************************************************************)
Running == phase \in {"read", "lines"}

ReaderInv ==
    /\ ReaderTypeOK
    /\ RoomToRead
    /\ Running <=> outcome = "open"
    /\ Running => Source!Consumed(parsed) = s
    /\ phase = "read" => s = buff /\ InBuffer = {}

\* What the types say of the numbers.
LEMMA Offsets ==
    ASSUME ReaderTypeOK
    PROVE  /\ MAX_LINE_LEN \in Nat /\ MAX_LINE_LEN > 0
           /\ file.length \in Nat /\ file.newlines \subseteq 1..file.length
           /\ buff \in Nat /\ s \in Nat /\ ee \in Nat
           /\ buff <= s /\ s <= ee /\ ee <= file.length
<1>1. file \in Files
  BY DEF ReaderTypeOK
<1>2. file.length \in Nat /\ file.newlines \subseteq 1..file.length
  BY <1>1, LineReaderAssumption
<1> QED
  BY <1>2, LineReaderAssumption DEF ReaderTypeOK

\* The end of a sequence of lines is the end of its last one.
LEMMA ConsumedAppend ==
    ASSUME NEW S, NEW ls \in Seq(S), NEW l \in S
    PROVE  Source!Consumed(Append(ls, l)) = l.last
<1>1. /\ Append(ls, l) # <<>>
      /\ Append(ls, l)[Len(Append(ls, l))] = l
  OBVIOUS
<1> QED
  BY <1>1 DEF Source!Consumed

LEMMA ReaderInvInit == ReaderInit => ReaderInv
<1> SUFFICES ASSUME ReaderInit PROVE ReaderInv
  OBVIOUS
<1>1. file.length \in Nat /\ file.newlines \subseteq 1..file.length
  BY LineReaderAssumption DEF ReaderInit
<1>2. ReaderTypeOK
  BY <1>1, LineReaderAssumption DEF ReaderInit, ReaderTypeOK
<1>3. RoomToRead
  BY LineReaderAssumption DEF ReaderInit, RoomToRead, Rest
<1>4. Source!Consumed(parsed) = s
  BY DEF ReaderInit, Source!Consumed
<1>5. InBuffer = {}
  BY <1>1 DEF ReaderInit, InBuffer
<1> QED
  BY <1>2, <1>3, <1>4, <1>5 DEF ReaderInit, ReaderInv, Running

-----------------------------------------------------------------------------
(* The steps of the reader keep the invariant. *)

LEMMA ReadInv == ReaderInv /\ Read => ReaderInv'
<1> SUFFICES ASSUME ReaderInv, Read PROVE ReaderInv'
  OBVIOUS
<1>1. ReaderTypeOK /\ phase = "read" /\ s = buff
  BY DEF ReaderInv, Read
<1>2. PICK n \in 1..Rest : ee + n <= file.length /\ ee' = ee + n
  BY DEF Read
<1>3. n \in Nat /\ n <= MAX_LINE_LEN - (ee - buff)
  BY <1>1, <1>2, Offsets DEF Rest
<1>4. ReaderTypeOK'
  BY <1>1, <1>2, <1>3, Offsets DEF Read, ReaderTypeOK
<1>5. RoomToRead'
  BY DEF Read, RoomToRead
<1> QED
  BY <1>1, <1>4, <1>5 DEF ReaderInv, Read, Running

\* The loop is left: by either result of read(), or by a line that is too long.
LEMMA LeaveInv == ReaderInv /\ (ReadNothing \/ ReadFails \/ LineTooLong) => ReaderInv'
<1> SUFFICES ASSUME ReaderInv, ReadNothing \/ ReadFails \/ LineTooLong PROVE ReaderInv'
  OBVIOUS
<1>1. /\ phase' \in {"closed", "exit"}
      /\ outcome' \in {"complete", "read_error", "line_too_long"}
      /\ UNCHANGED <<file, buff, s, ee, parsed>>
  BY DEF ReadNothing, ReadFails, LineTooLong
<1>2. ReaderTypeOK'
  BY <1>1 DEF ReaderInv, ReaderTypeOK
<1> QED
  BY <1>1, <1>2 DEF ReaderInv, RoomToRead, Running

LEMMA ParseLineInv == ReaderInv /\ ParseLine => ReaderInv'
<1> SUFFICES ASSUME ReaderInv, ParseLine PROVE ReaderInv'
  OBVIOUS
<1> DEFINE line(e) == [first |-> s + 1, last |-> e]
<1>1. PICK e \in InBuffer : parsed' = Append(parsed, line(e)) /\ s' = e
  BY DEF ParseLine
<1>2. ReaderTypeOK /\ phase = "lines" /\ UNCHANGED <<file, buff, ee>>
  BY DEF ReaderInv, ParseLine
<1>3. /\ e \in file.newlines /\ e \in Nat /\ s < e /\ e <= ee
      /\ s + 1 \in 1..file.length
  BY <1>1, <1>2, Offsets DEF InBuffer
<1>4. line(e) \in [first : 1..file.length, last : file.newlines]
  BY <1>3
<1>5. parsed' \in Seq([first : 1..file.length, last : file.newlines])
  BY <1>1, <1>2, <1>4 DEF ReaderTypeOK
<1>6. \/ phase' = "lines" /\ outcome' = outcome
      \/ phase' = "exit" /\ outcome' = "syntax_error"
  BY <1>2 DEF ParseLine
<1>7. ReaderTypeOK'
  <2>1. buff' \in 0..s' /\ s' \in 0..ee'
    BY <1>1, <1>2, <1>3, Offsets
  <2>2. ee' \in 0..file'.length /\ ee' - buff' <= MAX_LINE_LEN
    BY <1>2 DEF ReaderTypeOK
  <2> QED
    BY <1>2, <1>5, <1>6, <2>1, <2>2 DEF ReaderTypeOK
<1>8. Source!Consumed(parsed') = s'
  <2>1. Source!Consumed(Append(parsed, line(e))) = line(e).last
    BY <1>2, <1>4, ConsumedAppend DEF ReaderTypeOK
  <2> QED
    BY <1>1, <2>1
<1> QED
  BY <1>2, <1>6, <1>7, <1>8 DEF ReaderInv, RoomToRead, Running

LEMMA RemainderInv == ReaderInv /\ Remainder => ReaderInv'
<1> SUFFICES ASSUME ReaderInv, Remainder PROVE ReaderInv'
  OBVIOUS
<1>1. /\ ReaderTypeOK /\ phase = "lines" /\ InBuffer = {} /\ s # buff /\ buff' = s
      /\ phase' = "read" /\ UNCHANGED <<file, s, ee, parsed, outcome>>
  BY DEF ReaderInv, Remainder, Front
<1>2. ee - s < MAX_LINE_LEN
  BY <1>1, Offsets DEF ReaderTypeOK
<1>3. ReaderTypeOK'
  BY <1>1, <1>2, Offsets DEF ReaderTypeOK
<1>4. RoomToRead'
  BY <1>1, <1>2, Offsets DEF RoomToRead, Rest
<1>5. InBuffer' = {}
  BY <1>1 DEF InBuffer
<1> QED
  BY <1>1, <1>3, <1>4, <1>5 DEF ReaderInv, Running

LEMMA ReaderInvNext == ReaderInv /\ [ReaderNext]_readerVars => ReaderInv'
<1> SUFFICES ASSUME ReaderInv, [ReaderNext]_readerVars PROVE ReaderInv'
  OBVIOUS
<1>1. CASE UNCHANGED readerVars
  BY <1>1 DEF readerVars, ReaderInv, ReaderTypeOK, RoomToRead, Rest, Running, InBuffer
<1> QED
  BY <1>1, ReadInv, LeaveInv, ParseLineInv, RemainderInv DEF ReaderNext, Progress

-----------------------------------------------------------------------------
(* The theorems. *)

\* The invariant holds whenever the database is being read.
THEOREM ReaderInvariance == ReaderSpec => []ReaderInv
<1> QED
  BY ReaderInvInit, ReaderInvNext, PTL DEF ReaderSpec

\* read() never writes behind the end of the buffer.
THEOREM ReaderTypes == ReaderSpec => []ReaderTypeOK
<1>1. ReaderInv => ReaderTypeOK
  BY DEF ReaderInv
<1> QED
  BY <1>1, ReaderInvariance, PTL

\* read() is never called without room, so that its 0 means the end of the file.
THEOREM NeverFull == ReaderSpec => []RoomToRead
<1>1. ReaderInv => RoomToRead
  BY DEF ReaderInv
<1> QED
  BY <1>1, ReaderInvariance, PTL

\* A step of the reader is a step of LineSource or leaves it alone.
LEMMA StepImplements ==
    ASSUME ReaderInv, [ReaderNext]_readerVars
    PROVE  [Source!Next]_<<file, parsed, outcome>>
<1>1. CASE Read
  BY <1>1 DEF Read
<1>2. CASE Remainder
  BY <1>2 DEF Remainder
<1>3. CASE UNCHANGED readerVars
  BY <1>3 DEF readerVars
<1>4. CASE ReadNothing
  <2>1. /\ ReaderTypeOK /\ outcome = "open" /\ Source!Consumed(parsed) = s
        /\ InBuffer = {} /\ ee = file.length
    BY <1>4 DEF ReadNothing, ReaderInv, Running, RoomToRead
  <2>2. Source!Ends(file, s) = {}
    BY <2>1, Offsets DEF Source!Ends, InBuffer
  <2> QED
    BY <1>4, <2>1, <2>2 DEF ReadNothing, Source!Next, Source!End
<1>5. CASE ReadFails \/ LineTooLong
  <2>1. outcome = "open"
    BY <1>5 DEF ReadFails, LineTooLong, ReaderInv, Running
  <2> QED
    BY <1>5, <2>1 DEF ReadFails, LineTooLong, Source!Next, Source!GiveUp
<1>6. CASE ParseLine
  <2>1. ReaderTypeOK /\ outcome = "open" /\ Source!Consumed(parsed) = s
    BY <1>6 DEF ParseLine, ReaderInv, Running
  <2>2. PICK e \in InBuffer :
           /\ \A n \in InBuffer : e <= n
           /\ parsed' = Append(parsed, [first |-> s + 1, last |-> e])
    BY <1>6 DEF ParseLine
  <2>3. e \in 1..file.length
    BY <2>1, <2>2, Offsets DEF InBuffer
  <2>4. Source!IsFirst(e, Source!Ends(file, s))
    BY <2>1, <2>2, Offsets DEF Source!IsFirst, Source!Ends, InBuffer
  <2>5. outcome' \in {"open", "syntax_error"} /\ UNCHANGED file
    BY <1>6, <2>1 DEF ParseLine
  <2> QED
    BY <2>1, <2>2, <2>3, <2>4, <2>5 DEF Source!Next, Source!Deliver
<1> QED
  BY <1>1, <1>2, <1>3, <1>4, <1>5, <1>6 DEF ReaderNext, Progress

(***************************************************************************)
(* load_database implements LineSource: however read() cuts the file, its  *)
(* lines are parsed whole, once and in order.                              *)
(***************************************************************************)
THEOREM ReaderImplements == ReaderSpec => ImplementsLineSource
<1>1. ReaderInit => Source!Init
  BY DEF ReaderInit, Source!Init
<1>2. ReaderInv /\ [ReaderNext]_readerVars => [Source!Next]_<<file, parsed, outcome>>
  BY StepImplements
<1> QED
  BY <1>1, <1>2, ReaderInvariance, PTL DEF ReaderSpec, ImplementsLineSource, Source!Spec

=============================================================================
