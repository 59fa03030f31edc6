------------------------------ MODULE Catalog -------------------------------
(***************************************************************************)
(* A message catalogue of libintl: how a .mo file becomes a struct         *)
(* loaded_domain (_nl_load_domain), and how messages are looked up in it,  *)
(* converted to the codeset of the binding and, for a number, to the       *)
(* plural form of the number (_nl_find_msg, plural_lookup).                *)
(*                                                                         *)
(* The strings of a file are values with an order (their place in Ids) and *)
(* with a hash value that the file's hash function gives.  Words of a file *)
(* of the other byte order are stored as negative numbers.                 *)
(***************************************************************************)
EXTENDS Plural, AscendingOrder

CONSTANTS
  Files,          \* the files, as records; see MCCatalog
  Ids,            \* the message ids, in the order of strcmp()
  Header,         \* the id "" of the header entry
  Numbers,        \* the numbers that messages are asked for
  Codesets,       \* what bind_textdomain_codeset() is called with
  LocaleCodeset,  \* what locale_charset() returns
  Convertible,    \* the pairs of codesets iconv_open() accepts
  Unconvertible,  \* <<forms, codeset>>: a character has no equal in the codeset
  Bytes(_, _),    \* the length of forms in a codeset, up to such a character
  Word, Align,    \* sizeof (size_t) and its alignment
  BlockSize,      \* INITIAL_BLOCK_SIZE
  MaxRebindings   \* bound on the changes of the codeset

ASSUME SizesAssumption ==
  /\ Word \in Nat \ {0} /\ Align \in Nat \ {0}
  /\ BlockSize \in Nat \ {0} /\ BlockSize % Align = 0
  /\ MaxRebindings \in Nat

\* No id is listed twice.
ASSUME IdsAssumption ==
  /\ Ids \in Seq(ToSet(Ids)) /\ Header \in ToSet(Ids)
  /\ \A i, j \in DOMAIN Ids : Ids[i] = Ids[j] => i = j

VARIABLES
  file,       \* the file that is loaded
  phase,      \* where _nl_load_domain is; "ready" and "none" when it is done
  held,       \* what it holds: "fd", "data", "domain" and "malloced"
  fault,      \* malloc() or read() failed in it
  domain,     \* the tables of the struct loaded_domain
  binding,    \* the codeset of the struct binding, and its counter
  conv,       \* the converter: codeset_cntr, conv and conv_tab
  pool,       \* freemem and freemem_size: block, offset and size
  blocks,     \* the sizes of the blocks of converted strings
  given,      \* the regions of the pool handed out, and for which string
  answer      \* what the last look-up returned

vars == <<file, phase, held, fault, domain, binding, conv, pool, blocks, given,
          answer, parserVars>>

-----------------------------------------------------------------------------
(* The tables of a file.                                                   *)

\* SWAP(): an involution that no word is left unchanged by.
W(swap, word) == IF swap THEN -word - 1 ELSE word

\* The k-th slot tried for a string of that hash value.
Probe(hash, size, k) == ((hash % size) + k * (1 + (hash % (size - 2)))) % size

\* A string's number goes to the first empty slot.
Inserted(table, size, hash, number) ==
  LET k == Min({i \in 0..(size - 1) : table[Probe(hash, size, i)] = 0})
  IN [table EXCEPT ![Probe(hash, size, k)] = number]

Empty(size) == [i \in 0..(size - 1) |-> 0]

\* The numbers from first + 1 on, for strings with these hash values.
Filled(table, size, hashes, first) ==
  LET fill[n \in 0..Len(hashes)] ==
        IF n = 0 THEN table
        ELSE Inserted(fill[n - 1], size, hashes[n], first + n)
  IN fill[Len(hashes)]

HashesOf(f, strings) == [i \in DOMAIN strings |-> f.hash[strings[i].id]]

\* The hash table msgfmt writes for the strings of the file.
HashTable(f) ==
  LET table == Filled(Empty(f.size), f.size, HashesOf(f, f.strings), 0)
  IN [i \in DOMAIN table |-> W(f.swapped, table[i])]

-----------------------------------------------------------------------------
(* System dependent strings.                                               *)

Modifiers ==
  [s \in {"8", "16", "32", "LEAST8", "LEAST16", "LEAST32", "FAST8"} |-> ""]
  @@ [s \in {"64", "LEAST64", "FAST16", "FAST32", "FAST64", "MAX", "PTR"} |-> "l"]

Null == "NULL"

\* A segment's name is <<"PRI", letter, size>> or <<"I">>.
GetSysdepSegmentValue(name) ==
  IF /\ Len(name) = 3 /\ name[1] = "PRI"
     /\ name[2] \in {"d", "i", "o", "u", "x", "X"}
     /\ name[3] \in DOMAIN Modifiers
    THEN Modifiers[name[3]] \o name[2]
    ELSE IF name = <<"I">> THEN "I" ELSE Null

\* The first segment of a string that cannot be expanded ends the check of it.
Check(f, refs) ==
  LET bad == {i \in DOMAIN refs :
                \/ refs[i] \notin DOMAIN f.segments
                \/ GetSysdepSegmentValue(f.segments[refs[i]].name) = Null}
  IN IF bad = {} THEN "valid"
     ELSE IF refs[Min(bad)] \notin DOMAIN f.segments THEN "invalid"
     ELSE "dropped"

\* The translation is checked only when the original string is valid.
CheckPair(f, pair) ==
  IF Check(f, pair.orig.refs) = "valid" THEN Check(f, pair.trans.refs)
  ELSE Check(f, pair.orig.refs)

\* The static parts and the values of the segments, alternating.
Expand(f, s) ==
  LET value(i) == GetSysdepSegmentValue(f.segments[s.refs[i]].name)
  IN FoldLeft(LAMBDA text, i : text \o <<value(i), s.static[i + 1]>>,
              <<s.static[1]>>, [i \in DOMAIN s.refs |-> i])

\* The places of the strings that are kept, in their order.
Kept(f) == Ascending({i \in DOMAIN f.sysdep : CheckPair(f, f.sysdep[i]) = "valid"})

InMemory(f) ==
  [k \in DOMAIN Kept(f) |->
     LET pair == f.sysdep[Kept(f)[k]]
     IN [id |-> Expand(f, pair.orig), forms |-> <<Expand(f, pair.trans)>>]]

\* The strings that a file adds to its own.
Sysdep(f) == IF f.minor > 0 THEN InMemory(f) ELSE <<>>

-----------------------------------------------------------------------------
(* What msgfmt writes.                                                     *)

Place(id) == CHOOSE i \in DOMAIN Ids : Ids[i] = id

IsSequence(s) == s \in Seq(ToSet(s))

\* The strings of a file are sorted; a table has an empty slot at least, and as
\* its size is a prime number every slot is tried for every string; what is added
\* on this system is not among the strings already.
Written(f) ==
  LET ids == [i \in DOMAIN f.strings |-> f.strings[i].id]
      added == [i \in DOMAIN Sysdep(f) |-> Sysdep(f)[i].id]
  IN /\ IsSequence(f.strings) /\ IsSequence(f.sysdep)
     /\ f.swapped \in BOOLEAN /\ f.minor \in Nat /\ f.size \in Nat
     /\ \A id \in ToSet(Ids) : f.hash[id] \in Nat
     /\ ToSet(ids) \union ToSet(added) \subseteq ToSet(Ids)
     /\ \A i, j \in DOMAIN ids : i < j => Place(ids[i]) < Place(ids[j])
     /\ \A i, j \in DOMAIN added : added[i] = added[j] => i = j
     /\ ToSet(ids) \intersect ToSet(added) = {}
     /\ f.size > 2 =>
          /\ Len(f.strings) + Len(Sysdep(f)) < f.size
          /\ \A id \in ToSet(Ids), slot \in 0..(f.size - 1) :
               \E k \in 0..(f.size - 1) : Probe(f.hash[id], f.size, k) = slot

ASSUME FilesAssumption == \A f \in Files : f.kind = "file" => Written(f)

\* The messages of a file that can be translated on this system, and their
\* translations.
TranslationsOf(f) ==
  {<<f.strings[i].id, f.strings[i].forms>> : i \in DOMAIN f.strings}
  \union
  {<<Expand(f, p.orig), <<Expand(f, p.trans)>>>> :
     p \in {q \in ToSet(f.sysdep) : f.minor > 0 /\ CheckPair(f, q) = "valid"}}

ASSUME BytesAssumption ==
  \A f \in Files : f.kind = "file" =>
    \A t \in TranslationsOf(f), codeset \in Codesets \union {LocaleCodeset} :
      Bytes(t[2], codeset) \in Nat

-----------------------------------------------------------------------------
(* Loading.                                                                *)

NoTables == [strings |-> <<>>, sysdep |-> <<>>, table |-> <<>>, size |-> 0,
             swapTable |-> FALSE]

NoDomain == [tables |-> NoTables, plural |-> null, nplurals |-> 0]

Unbound == [cntr |-> 0, codeset |-> ""]

NoRegion == [block |-> 0, at |-> 0, size |-> 0, forms |-> <<>>, codeset |-> ""]

NoConverter == [cntr |-> 0, to |-> "", tab |-> "NULL", regions |-> <<>>]

\* short records that memory failed in the look-up.
NoAnswer == [kind |-> "none", id |-> Header, n |-> 0, form |-> <<>>, codeset |-> "",
             short |-> FALSE]

Init ==
  /\ file \in Files
  /\ phase = "closed" /\ held = {} /\ fault = FALSE
  /\ domain = NoDomain
  /\ binding = Unbound /\ conv = NoConverter
  /\ pool = [block |-> 0, at |-> 0, size |-> 0]
  /\ blocks = <<>> /\ given = {}
  /\ answer = NoAnswer
  /\ Begun(<<>>)

Unconverted == UNCHANGED <<binding, conv, pool, blocks, given, answer>>

Open ==
  /\ phase = "closed"
  /\ IF file.kind = "file"
       THEN phase' = "open" /\ held' = {"fd"}
       ELSE phase' = "none" /\ UNCHANGED held   \* no file, or a short one
  /\ UNCHANGED <<file, fault, domain, parserVars>> /\ Unconverted

\* mmap(), or else malloc() and read(), any of which may fail.
ReadFile ==
  /\ phase = "open"
  /\ \/ phase' = "read" /\ held' = {"data"} /\ UNCHANGED fault
     \/ phase' = "none" /\ held' = {"fd"} /\ fault' = TRUE     \* malloc() failed
     \/ phase' = "none" /\ held' = {"data"} /\ fault' = TRUE  \* read() failed
  /\ UNCHANGED <<file, domain, parserVars>> /\ Unconverted

Invalid ==
  \/ file.major \notin {0, 1}
  \/ file.minor > 0 /\ file.size <= 2
  \/ /\ file.minor > 0 /\ file.sysdep # <<>>
     /\ \/ \E i \in DOMAIN file.segments : ~file.segments[i].terminated
        \/ \E i \in DOMAIN file.sysdep :
             CheckPair(file, file.sysdep[i]) = "invalid"

\* The words of the file's table as numbers, where strings are added.
Copy(f) == LET words == HashTable(f) IN [i \in DOMAIN words |-> W(f.swapped, words[i])]

\* Mutant: the added strings are numbered like those of the file.
Augmented_unshifted(f, sysdep) ==
  IF sysdep = <<>> THEN HashTable(f)
  ELSE Filled(Copy(f), f.size, HashesOf(f, sysdep), 0)

\* The hash table of the file, or a copy in memory where the system dependent
\* strings are added.
Augmented(f, sysdep) ==
  IF sysdep = <<>> THEN HashTable(f)
  ELSE Filled(Copy(f), f.size, HashesOf(f, sysdep), Len(f.strings))

Loaded(f) ==
  [strings |-> f.strings,
   sysdep |-> Sysdep(f),
   size |-> IF f.size > 2 THEN f.size ELSE 0,
   table |-> IF f.size > 2 THEN Augmented(f, Sysdep(f)) ELSE <<>>,
   swapTable |-> f.swapped /\ Sysdep(f) = <<>>]

\* A file that is no catalogue, or an invalid one, is given back.
Refuse ==
  /\ phase = "read"
  /\ file.magic = "other" \/ Invalid
  /\ phase' = "none" /\ held' = {}
  /\ UNCHANGED <<file, fault, domain, parserVars>> /\ Unconverted

\* malloc() of the domain fails, or that of the additional memory.
NoMemory ==
  /\ phase = "read" /\ file.magic # "other"
  /\ phase' = "none" /\ fault' = TRUE
  /\ \/ held' = {"data"}
     \/ ~Invalid /\ Sysdep(file) # <<>> /\ held' = {}
  /\ UNCHANGED <<file, domain, parserVars>> /\ Unconverted

ReadTables ==
  /\ phase = "read"
  /\ file.magic # "other" /\ ~Invalid
  /\ domain' = [NoDomain EXCEPT !.tables = Loaded(file)]
  /\ held' = {"data", "domain"} \union
             (IF Sysdep(file) # <<>> THEN {"malloced"} ELSE {})
  /\ phase' = "tables"
  /\ UNCHANGED <<file, fault, parserVars>> /\ Unconverted

-----------------------------------------------------------------------------
(* Looking a message up.  None when there is no translation; Loops when    *)
(* the probing of a full hash table does not end.                          *)

None == -1
Loops == -2

\* The strings are numbered from 0, the system dependent ones after the others.
StringOf(t, act) ==
  IF act < Len(t.strings) THEN t.strings[act + 1]
  ELSE t.sysdep[act - Len(t.strings) + 1]

ActsOf(t) == 0..(Len(t.strings) + Len(t.sysdep) - 1)

FindByHash(t, hash, id) ==
  LET nstr(k) == W(t.swapTable, t.table[Probe(hash, t.size, k)]) - 1
      stops == {k \in 0..(t.size - 1) :
                  \/ nstr(k) = -1
                  \/ nstr(k) \in ActsOf(t) /\ StringOf(t, nstr(k)).id = id}
  IN IF stops = {} THEN Loops
     ELSE IF nstr(Min(stops)) = -1 THEN None ELSE nstr(Min(stops))

\* One round of the bisection; it changes nothing when the string is found, or
\* when there is nothing between bottom and top.
Middle(r) == (r.bottom + r.top) \div 2

Narrowed(t, id, r) ==
  LET place == Place(t.strings[Middle(r) + 1].id)
  IN IF r.bottom >= r.top THEN r
     ELSE IF Place(id) < place THEN [r EXCEPT !.top = Middle(r)]
     ELSE IF Place(id) > place THEN [r EXCEPT !.bottom = Middle(r) + 1]
     ELSE r

Bisect(t, id) ==
  LET round[n \in 0..Len(t.strings)] ==
        IF n = 0 THEN [bottom |-> 0, top |-> Len(t.strings)]
        ELSE Narrowed(t, id, round[n - 1])
      last == round[Len(t.strings)]
  IN IF last.bottom >= last.top THEN None ELSE Middle(last)

FindIn(t, hash, id) ==
  IF t.size > 0 THEN FindByHash(t, hash, id) ELSE Bisect(t, id)

Find(id) == FindIn(domain.tables, file.hash[id], id)
Acts == ActsOf(domain.tables)
Forms(act) == StringOf(domain.tables, act).forms

-----------------------------------------------------------------------------
(* The header: the converter and the plural forms.                         *)

\* The header entry is found like any message; it is not converted.
HasHeader == Find(Header) \notin {None, Loops}

OutCharset == IF binding.codeset # "" THEN binding.codeset ELSE LocaleCodeset

InitDomainConv ==
  [cntr |-> binding.cntr,
   to |-> IF HasHeader /\ file.charset # ""
               /\ <<file.charset, OutCharset>> \in Convertible
            THEN OutCharset ELSE "",
   tab |-> "NULL",
   regions |-> [act \in Acts |-> NoRegion]]

\* The last part of _nl_load_domain: the parser is called when the header has
\* both parts of a plural specification.
ExtractPlural ==
  /\ phase = "tables"
  /\ conv' = InitDomainConv
  /\ IF HasHeader /\ file.plural # <<>> /\ file.nplurals >= 0
       THEN /\ rest' = file.plural /\ stack' = <<>> /\ live' = 0
            /\ result' = "running"
            /\ phase' = "plural"
            /\ UNCHANGED domain
       ELSE /\ domain' = [domain EXCEPT !.plural = GermanicPlural, !.nplurals = 2]
            /\ phase' = "ready"
            /\ UNCHANGED parserVars
  /\ UNCHANGED <<file, held, fault, binding, pool, blocks, given, answer>>

ParsePlural ==
  /\ phase = "plural" /\ Parse
  /\ UNCHANGED <<file, phase, held, fault, domain>> /\ Unconverted

PluralParsed ==
  /\ phase = "plural" /\ result # "running"
  /\ domain' = [domain EXCEPT
       !.plural = Parsed,
       !.nplurals = IF result = "accepted" THEN file.nplurals ELSE 2]
  /\ phase' = "ready"
  /\ UNCHANGED <<file, held, fault, parserVars>> /\ Unconverted

\* The variant of the message for n; the first one when there is none.
PluralLookup(n, forms) ==
  LET index == PluralEval(domain.plural, n)
      within == IF index >= domain.nplurals THEN 0 ELSE index
  IN IF index = Trap THEN <<>>
     ELSE forms[IF within < Len(forms) THEN within + 1 ELSE 1]

-----------------------------------------------------------------------------
(* Conversion.                                                             *)

\* The block the converted string goes to: the current one, or a new one that
\* is enlarged until the string fits.
Room(need) ==
  IF pool.size >= need
    THEN [pool |-> pool, blocks |-> blocks]
    ELSE LET count == CHOOSE k \in 1..need :
                        k * BlockSize >= need /\ (k - 1) * BlockSize < need
         IN [pool |-> [block |-> Len(blocks) + 1, at |-> 0,
                       size |-> count * BlockSize],
             blocks |-> Append(blocks, count * BlockSize)]

\* Mutant: the size in front of a string is not counted.
Shrunk_short(p, used) ==
  LET left == p.size - used + Word
  IN [block |-> p.block, at |-> p.at + used - Word, size |-> left - (left % Align)]

\* What is left of the block, from the next aligned place on.
Shrunk(p, used) ==
  LET left == p.size - used
  IN [block |-> p.block, at |-> p.at + used + (left % Align),
      size |-> left - (left % Align)]

\* Mutant: the counter of the binding is not looked at.
Current_stale == conv

\* The converter when a message is found: opened again for another codeset.
Current == IF conv.cntr # binding.cntr THEN InitDomainConv ELSE conv

Told(id, n, forms, codeset, short) ==
  answer' = [kind |-> "found", id |-> id, n |-> n,
             form |-> PluralLookup(n, forms), codeset |-> codeset, short |-> short]

\* A message is found that is not to be converted, or the table could not be
\* had before.
AnswerPlain(id, n) ==
  /\ Current.to = "" \/ Current.tab = "failed"
  /\ conv' = Current
  /\ Told(id, n, Forms(Find(id)), file.charset, FALSE)
  /\ UNCHANGED <<pool, blocks, given>>

\* calloc() of the table fails, which is remembered.
AnswerNoTable(id, n) ==
  /\ Current.to # "" /\ Current.tab = "NULL"
  /\ conv' = [Current EXCEPT !.tab = "failed"]
  /\ Told(id, n, Forms(Find(id)), file.charset, TRUE)
  /\ UNCHANGED <<pool, blocks, given>>

\* The string was converted before.
AnswerAgain(id, n) ==
  LET region == Current.regions[Find(id)] IN
  /\ Current.to # "" /\ Current.tab # "failed"
  /\ region # NoRegion
  /\ conv' = Current
  /\ Told(id, n, region.forms, region.codeset, FALSE)
  /\ UNCHANGED <<pool, blocks, given>>

\* There is a table, and the string is not in it yet.
ToConvert(act) ==
  Current.to # "" /\ Current.tab # "failed" /\ Current.regions[act] = NoRegion

\* What a string takes in the pool, or has taken when iconv() gives it up.
Need(forms) == Word + Bytes(forms, Current.to)

\* malloc() or realloc() of a block fails: the pool is given up.
AnswerNoBlock(id, n) ==
  LET forms == Forms(Find(id)) IN
  /\ ToConvert(Find(id))
  /\ pool.size < Need(forms)
  /\ conv' = [Current EXCEPT !.tab = "table"]
  /\ pool' = [pool EXCEPT !.at = 0, !.size = 0]
  /\ Told(id, n, forms, file.charset, TRUE)
  /\ UNCHANGED <<blocks, given>>

\* iconv() fails with EILSEQ, when there is room for what comes before the
\* character: a block allocated for it becomes the pool, with nothing in it.
AnswerUnconvertible(id, n) ==
  LET forms == Forms(Find(id))
      room == Room(Need(forms))
  IN /\ ToConvert(Find(id))
     /\ <<forms, Current.to>> \in Unconvertible
     /\ conv' = [Current EXCEPT !.tab = "table"]
     /\ pool' = room.pool /\ blocks' = room.blocks
     /\ Told(id, n, forms, file.charset, FALSE)
     /\ UNCHANGED given

AnswerConverted(id, n) ==
  LET act == Find(id)
      forms == Forms(act)
      used == Need(forms)
      room == Room(used)
      region == [block |-> room.pool.block, at |-> room.pool.at, size |-> used,
                 forms |-> forms, codeset |-> Current.to]
  IN /\ ToConvert(act)
     /\ <<forms, Current.to>> \notin Unconvertible
     /\ conv' = [Current EXCEPT !.tab = "table", !.regions[act] = region]
     /\ pool' = Shrunk(room.pool, used) /\ blocks' = room.blocks
     /\ given' = given \union {region}
     /\ Told(id, n, forms, Current.to, FALSE)

\* A message is asked for, with a number.
Lookup(id, n) ==
  /\ phase \in {"ready", "none"}
  /\ IF phase = "none" \/ Find(id) = None
       THEN /\ answer' = [NoAnswer EXCEPT !.kind = "untranslated", !.id = id, !.n = n]
            /\ UNCHANGED <<conv, pool, blocks, given>>
       ELSE /\ Find(id) # Loops
            /\ \/ AnswerPlain(id, n) \/ AnswerNoTable(id, n) \/ AnswerAgain(id, n)
               \/ AnswerNoBlock(id, n) \/ AnswerUnconvertible(id, n)
               \/ AnswerConverted(id, n)
  /\ UNCHANGED <<file, phase, held, fault, domain, binding, parserVars>>

\* bind_textdomain_codeset(), before the first look-up, which loads the catalogue,
\* or after one: the counter tells that the codeset changed.
BindCodeset(codeset) ==
  /\ phase \in {"closed", "ready", "none"} /\ binding.cntr < MaxRebindings
  /\ codeset # binding.codeset
  /\ binding' = [cntr |-> binding.cntr + 1, codeset |-> codeset]
  /\ answer' = NoAnswer
  /\ UNCHANGED <<file, phase, held, fault, domain, conv, pool, blocks, given, parserVars>>

Next ==
  \/ Open \/ ReadFile \/ Refuse \/ NoMemory \/ ReadTables
  \/ ExtractPlural \/ ParsePlural \/ PluralParsed
  \/ \E i \in DOMAIN Ids, n \in Numbers : Lookup(Ids[i], n)
  \/ \E codeset \in Codesets : BindCodeset(codeset)

Spec == Init /\ [][Next]_vars
-----------------------------------------------------------------------------
(* Properties.                                                             *)

Translations == TranslationsOf(file)

\* Through the hash table of either byte order, through the table with the
\* system dependent strings and by bisection, every message of the file is
\* found with its own translation, and no other is found (_nl_load_domain,
\* _nl_find_msg).
FoundIffPresent ==
  phase \in {"tables", "plural", "ready"} =>
    \A i \in DOMAIN Ids :
      LET act == Find(Ids[i]) IN
      IF \E t \in Translations : t[1] = Ids[i]
        THEN act \in Acts /\ <<Ids[i], Forms(act)>> \in Translations
        ELSE act = None

\* A translation is in the codeset asked for, also when it was bound before the
\* catalogue was loaded or changed since an earlier look-up; and in that of the
\* file only when iconv_open() or iconv() cannot convert it, or when the table
\* or, in this look-up, a block could not be allocated (_nl_find_msg,
\* bind_textdomain_codeset).
OwnCodeset ==
  answer.kind = "found" =>
    LET converted ==
          /\ InitDomainConv.to # "" /\ conv.tab # "failed" /\ ~answer.short
          /\ <<Forms(Find(answer.id)), OutCharset>> \notin Unconvertible
    IN answer.codeset = IF converted THEN OutCharset ELSE file.charset

\* Converted strings, pointers to which stay in the cache of translations for
\* good, lie within their blocks and do not overlap (_nl_find_msg).
RegionsApart ==
  \A r \in given :
    /\ r.at % Align = 0
    /\ r.at + r.size <= blocks[r.block]
    /\ \A s \in given \ {r} :
         \/ s.block # r.block
         \/ s.at + s.size <= r.at
         \/ r.at + r.size <= s.at

\* A catalogue that is refused leaves neither a descriptor nor memory behind,
\* unless memory or a read failed; and of the expressions built while the
\* plural forms are read those are kept that the domain uses, unless the
\* expression is wrong (_nl_load_domain, new_exp).
NothingLeft ==
  /\ phase = "none" /\ ~fault => held = {}
  /\ result = "accepted" => live = Size(Parsed)
  /\ result = "no memory" => live = 0
=============================================================================
