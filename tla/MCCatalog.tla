----------------------------- MODULE MCCatalog ------------------------------
(***************************************************************************)
(* Files that differ in their tables, with one plural expression, and      *)
(* files that differ in their plural expression, with one message.         *)
(***************************************************************************)
EXTENDS PluralMeaning

Chars(s) == [i \in 1..Len(s) |-> SubSeq(s, i, i)]

MCHeader == <<"">>
A == <<"a">>
B == <<"b">>
Sys == <<"%", "ld", "">>
MCIds == <<MCHeader, Sys, A, B>>

Texts ==
  {"n!=1", "n>1", "n==1?0:n==2?1:2", "n%10==1&&n!=1?0:1", "!n||n>2", "0",
   "n<=1", "1/n", "n&&1/n", "n-1", "n+3*n", "(n==1)", "1?2", "n&1", "n=1",
   "2;n", " n > 1 ", "3", "n-1-1", "!!n", "n||0&&0", "((n))", "", "n n", "1:2"}

Str(id, forms) == [id |-> id, forms |-> forms]

SysStr(refs) == [static |-> IF refs = <<>> THEN <<"x">> ELSE <<"%", "">>, refs |-> refs]

Basic ==
  [kind |-> "file", swapped |-> FALSE, magic |-> "mo", major |-> 0, minor |-> 0,
   strings |-> <<Str(MCHeader, <<<<"h">>>>), Str(A, <<<<"0">>, <<"1">>, <<"2">>>>)>>,
   size |-> 0, hash |-> [id \in ToSet(MCIds) |-> 0], segments |-> <<>>,
   sysdep |-> <<>>, charset |-> "", plural |-> <<>>, nplurals |-> -1]

PluralFiles ==
  {[Basic EXCEPT !.plural = Chars(t), !.nplurals = k] : t \in Texts, k \in {-1, 1, 2, 4}}

StringTables ==
  {<<>>, <<Str(MCHeader, <<<<"h">>>>)>>, <<Str(MCHeader, <<<<"h">>>>), Str(A, <<<<"1">>, <<"2">>>>)>>,
   <<Str(MCHeader, <<<<"h">>>>), Str(A, <<<<"1">>>>), Str(B, <<<<"2">>>>)>>,
   <<Str(MCHeader, <<<<"h">>>>), Str(Sys, <<<<"s">>>>), Str(B, <<<<"2">>>>)>>}

Segments ==
  {<<[name |-> <<"PRI", "d", "64">>, terminated |-> t], [name |-> <<"PRI", "q", "64">>, terminated |-> TRUE]>> :
     t \in BOOLEAN}

SysdepTables ==
  {<<>>} \union {<<[orig |-> SysStr(o), trans |-> SysStr(t)]>> : o \in {<<1>>, <<2>>, <<3>>}, t \in {<<>>, <<1>>, <<2>>, <<3>>}}

Hashes ==
  {[id \in ToSet(MCIds) |-> h[Place(id)]] : h \in {<<0, 0, 0, 0>>, <<0, 4, 5, 9>>, <<0, 1, 8, 3>>}}

TableFiles ==
  {f \in [kind : {"file"}, swapped : BOOLEAN, magic : {"mo"}, major : {0}, minor : {0, 1},
          strings : StringTables, size : {0, 2, 5}, hash : Hashes, segments : Segments,
          sysdep : SysdepTables, charset : {""}, plural : {<<>>}, nplurals : {-1}] :
     /\ f.sysdep # <<>> => f.minor = 1
     /\ f.sysdep # <<>> => \A i \in DOMAIN f.strings : f.strings[i].id # Sys
     /\ f.minor = 1 => f.size = 5 \/ f.sysdep = <<>>
     /\ f.sysdep # <<>> /\ (f.swapped \/ \E p \in ToSet(f.sysdep) : 3 \in ToSet(p.orig.refs \o p.trans.refs))
          => \A i \in DOMAIN f.segments : f.segments[i].terminated
     /\ f.size # 5 => f.hash = CHOOSE h \in Hashes : TRUE
     /\ f.sysdep = <<>> => f.segments = CHOOSE s \in Segments : TRUE}

OtherFiles ==
  {[Basic EXCEPT !.kind = "none"], [Basic EXCEPT !.magic = "other"], [Basic EXCEPT !.major = 2]}

ConvertedFiles ==
  {[Basic EXCEPT !.charset = "latin1",
                 !.strings = <<Str(MCHeader, <<<<"h">>>>), Str(A, <<<<"1">>, <<"2">>>>)>>]}

MCFiles == PluralFiles \union TableFiles \union ConvertedFiles \union OtherFiles

MCConvertible == {"latin1"} \X {"utf8", "ascii"}

MCUnconvertible == {<<<<<<"1">>, <<"2">>>>, "ascii">>}

MCBytes(forms, codeset) == Len(forms) * (IF codeset = "utf8" THEN 3 ELSE 2)

\* The codeset of a binding matters only to files that name their own.
Relevant == file.charset = "" => binding.cntr = 0
=============================================================================
