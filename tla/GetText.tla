------------------------------ MODULE GetText -------------------------------
(***************************************************************************)
(* gettext() and its relatives: textdomain(), bindtextdomain(), and the    *)
(* search of DCIGETTEXT for a translation through the environment, the     *)
(* list of loaded catalogues and the tree of known translations.           *)
(*                                                                         *)
(* The file system is constant, and a translation is named by the file it  *)
(* is from: what is in a file is the matter of Catalog.  Memory may run    *)
(* out where a setting or a known translation is stored, not in the list.  *)
(***************************************************************************)
EXTENDS LocaleNames

CONSTANTS
  Installed,      \* the message ids of each installed file, by its path
  Environments,   \* the environments: variables, languages, working directory
  Domains,        \* the domains, among them "messages"
  Queries,        \* what is asked for: a domain or "NULL", a category, a message id
  Directories,    \* what bindtextdomain() is called with
  DefaultDir,     \* _nl_default_dirname
  Aliases,        \* _nl_expand_alias, as a function on some of the names
  MaxConfigured,  \* bound on the calls of textdomain() and bindtextdomain()
  MaxChanges      \* bound on the changes of the environment

ASSUME BoundsAssumption ==
  /\ MaxConfigured \in Nat /\ MaxChanges \in Nat
  /\ "messages" \in Domains

ASSUME QueriesAssumption ==
  \A q \in Queries : q = [domain |-> q.domain, category |-> q.category, msgid |-> q.msgid]

VARIABLES
  env,        \* the environment and the working directory
  secure,     \* enable_secure: the program runs with another's rights
  current,    \* _nl_current_default_domain
  bindings,   \* the directories of the domains that are bound
  cntr,       \* _nl_msg_cat_cntr
  loaded,     \* _nl_loaded_domains: what is known of each file
  known,      \* the tree of known translations
  told,       \* the last query since the last change of cntr, and its translation
  seen,       \* the settings since the last change of cntr
  changes     \* how often the environment has changed

getTextVars == <<env, secure, current, bindings, cntr, loaded, known, told, seen, changes>>

Put(table, key, value) ==
  [k \in DOMAIN table \union {key} |-> IF k = key THEN value ELSE table[k]]

Untranslated == <<>>

Unasked ==
  [query |-> [domain |-> "none", category |-> "none", msgid |-> "none"],
   text |-> Untranslated]

\* What the answers depend on.
SettingsOf(e, domain, bound) ==
  [env |-> e, secure |-> secure, current |-> domain, bindings |-> bound]

GetTextInit ==
  /\ env \in Environments
  /\ secure \in BOOLEAN
  /\ current = "messages"
  /\ bindings = <<>>
  /\ cntr = 0 /\ changes = 0
  /\ loaded = <<>> /\ known = <<>>
  /\ told = Unasked
  /\ seen = {SettingsOf(env, current, bindings)}

-----------------------------------------------------------------------------
(* The settings.                                                           *)

\* Something else in the process sets a variable, or changes the directory.
Setenv ==
  /\ changes < MaxChanges
  /\ env' \in Environments \ {env}
  /\ changes' = changes + 1
  /\ seen' = seen \union {SettingsOf(env', current, bindings)}
  /\ UNCHANGED <<secure, current, bindings, cntr, loaded, known, told>>

\* The caches are flushed by counting.
Configured ==
  /\ cntr' = cntr + 1
  /\ seen' = {SettingsOf(env, current', bindings')}
  /\ told' = Unasked
  /\ UNCHANGED <<env, secure, loaded, known, changes>>

\* A call for the domain that is set already counts too.  (When strdup() fails
\* nothing changes.)
Textdomain(name) ==
  /\ cntr < MaxConfigured
  /\ current' = IF name = "" THEN "messages" ELSE name
  /\ UNCHANGED bindings
  /\ Configured

\* Equal directories, and a failing strdup() or malloc(), change nothing.
Bindtextdomain(domain, dir) ==
  /\ cntr < MaxConfigured
  /\ bindings' = Put(bindings, domain, dir)
  /\ UNCHANGED current
  /\ bindings' # bindings
  /\ Configured

-----------------------------------------------------------------------------
(* The environment.                                                        *)

C == <<"C">>
POSIX == <<"POSIX">>

\* setlocale (category, NULL), or LC_ALL, LC_xxx and LANG; "C" if none is set.
LocaleName(e, category) ==
  LET values == <<e.all, e.categories[category], e.lang>>
      set == {i \in DOMAIN values : values[i] # <<>>}
  IN IF set = {} THEN C ELSE values[Min(set)]

\* A list of names, in which some may be empty.
GuessCategoryValue(e, category) ==
  LET locale == LocaleName(e, category)
  IN IF locale = C \/ e.language = <<>> THEN <<locale>> ELSE e.language

HasDir(name) == "/" \in ToSet(name)

\* The name at a place of the list; behind its end it is "C".
Single(names, n) == IF n \in DOMAIN names THEN names[n] ELSE C

\* Names that are passed over.  (Mutant: those with directories are not.)
Skipped_anyway(l) == l = <<>>
Skipped(l) == l = <<>> \/ (secure /\ HasDir(l))

Nowhere == <<"getcwd() fails">>

\* A relative directory is below the working directory of the moment.
DirName(bound, e, domain) ==
  IF domain \notin DOMAIN bound THEN DefaultDir
  ELSE IF StartsWith(bound[domain], "/") THEN bound[domain]
  ELSE IF e.cwd = Nowhere THEN Nowhere
  ELSE e.cwd \o <<"/">> \o bound[domain]

\* xdomainname: the file below the directory of the locale.
FileOf(category, domain) == category \o "/" \o domain \o ".mo"

-----------------------------------------------------------------------------
(* The list of catalogues.                                                 *)

\* The files of a mask and of those it dominates, in the order they are tried in.
Paths(dir, parts, mask, file) ==
  LET masks == Masks(mask) IN [i \in DOMAIN masks |-> FileName(dir, parts, masks[i], file)]

\* An entry for a mask; one with both forms of the codeset is no file.
Entry(dir, parts, mask, file) ==
  [decided |-> {Codeset, NormCodeset} \subseteq mask, data |-> FALSE,
   successors |-> Tail(Paths(dir, parts, mask, file))]

\* An entry of the list is added with those of all less specific names, each
\* with the entries to be tried after it.  What is on the list already stays as
\* it is.  (The code recurs into every successor; all that would add is among
\* the first's.)
Made(list, dir, parts, file) ==
  LET masks == Masks(parts.mask)
      paths == Paths(dir, parts, parts.mask, file)
      first(path) == masks[Min({i \in DOMAIN paths : paths[i] = path})]
      new == {paths[i] : i \in DOMAIN paths} \ DOMAIN list
  IN IF paths[1] \in DOMAIN list THEN list
     ELSE [path \in DOMAIN list \union new |->
             IF path \in new THEN Entry(dir, parts, first(path), file) ELSE list[path]]

\* The entry after _nl_load_domain, which does nothing when called again.
LoadDomain(list, path) ==
  IF list[path].decided THEN list[path]
  ELSE [list[path] EXCEPT !.decided = TRUE, !.data = path \in DOMAIN Installed]

\* Entries are loaded in order, up to the first of the wanted ones that is a
\* catalogue.
LoadUntil(list, paths, wanted) ==
  LET ends == {i \in DOMAIN paths : paths[i] \in wanted /\ LoadDomain(list, paths[i]).data}
      tried == {paths[i] : i \in {j \in DOMAIN paths : \A k \in ends : j <= k}}
  IN [p \in DOMAIN list |-> IF p \in tried THEN LoadDomain(list, p) ELSE list[p]]

Tried(list, path) == <<path>> \o list[path].successors

\* The entry at path, after it and those after it are loaded as far as needed.
LoadedEntry(list, path) ==
  [path |-> path, list |-> LoadUntil(list, Tried(list, path), ToSet(Tried(list, path)))]

FindParts(list, dir, parts, file) ==
  LoadedEntry(Made(list, dir, parts, file), Paths(dir, parts, parts.mask, file)[1])

\* The entry for a locale: that of its whole name if there is one, or else
\* those of its parts, or of the parts of what it is an alias of.
WholeName(dir, locale, file) == FileName(dir, [language |-> locale], {}, file)

Exploded(locale) ==
  ExplodeName(IF locale \in DOMAIN Aliases THEN Aliases[locale] ELSE locale)

FindDomain(list, dir, locale, file) ==
  IF WholeName(dir, locale, file) \in DOMAIN list
  THEN LoadedEntry(list, WholeName(dir, locale, file))
  ELSE FindParts(list, dir, Exploded(locale), file)

\* _nl_find_msg in the entry of the locale and in those after it.
Having(paths, msgid) ==
  {p \in ToSet(paths) \intersect DOMAIN Installed : msgid \in Installed[p]}

FirstIn(paths, wanted) ==
  LET places == {i \in DOMAIN paths : paths[i] \in wanted}
  IN IF places = {} THEN Untranslated ELSE paths[Min(places)]

TryPaths(list, paths, having) ==
  LET text == FirstIn(paths, {p \in having : LoadDomain(list, p).data})
  IN [list |-> LoadUntil(list, paths, having), text |-> text, over |-> text # Untranslated]

TryEntry(found, msgid) ==
  LET paths == Tried(found.list, found.path)
  IN TryPaths(found.list, paths, Having(paths, msgid))

\* One round of the loop over the languages.
TryLocale(before, dir, locale, file, msgid) ==
  IF before.over \/ Skipped(locale) THEN before
  ELSE IF locale \in {C, POSIX} THEN [before EXCEPT !.over = TRUE]
  ELSE TryEntry(FindDomain(before.list, dir, locale, file), msgid)

\* The loop; it does not begin without a directory.
Search(q) ==
  LET domain == IF q.domain = "NULL" THEN current ELSE q.domain
      dir == DirName(bindings, env, domain)
      names == GuessCategoryValue(env, q.category)
      after[n \in Nat] ==
        IF n = 0 THEN [list |-> loaded, text |-> Untranslated, over |-> dir = Nowhere]
        ELSE TryLocale(after[n - 1], dir, Single(names, n), FileOf(q.category, domain), q.msgid)
  IN after[Len(names) + 1]

\* The key of a known translation: NULL stands for the domain of the moment.
Key(q) == [q EXCEPT !.domain = IF q.domain = "NULL" THEN current ELSE q.domain]

\* Mutant: a translation once found is known for good.
IsKnown_forever(q) == Key(q) \in DOMAIN known

IsKnown(q) == Key(q) \in DOMAIN known /\ known[Key(q)].counter = cntr

Tell(q, text) == told' = [query |-> q, text |-> text]

GettextKnown(q) ==
  /\ IsKnown(q)
  /\ Tell(q, known[Key(q)].text)
  /\ UNCHANGED <<loaded, known>>

\* A translation is known from now on, unless malloc() of a new node of the tree
\* fails; that there is none is found again each time.
Searched(q, search) ==
  /\ loaded' = search.list
  /\ Tell(q, search.text)
  /\ \/ /\ search.text # Untranslated
        /\ known' = Put(known, Key(q), [counter |-> cntr, text |-> search.text])
     \/ /\ search.text = Untranslated \/ Key(q) \notin DOMAIN known
        /\ UNCHANGED known

GettextSearch(q) ==
  /\ ~IsKnown(q)
  /\ Searched(q, Search(q))

Gettext(q) ==
  /\ GettextKnown(q) \/ GettextSearch(q)
  /\ UNCHANGED <<env, secure, current, bindings, cntr, seen, changes>>

GetTextNext ==
  \/ Setenv
  \/ \E name \in Domains \union {""} : Textdomain(name)
  \/ \E domain \in Domains, dir \in Directories : Bindtextdomain(domain, dir)
  \/ \E q \in Queries : Gettext(q)

GetTextSpec == GetTextInit /\ [][GetTextNext]_getTextVars
-----------------------------------------------------------------------------
(* Properties.                                                             *)

\* One name is more specific than another if the most important part in which
\* they differ is in the first: finddomain.c strips the parts in the order
\* revision, sponsor, special, codeset, normalized codeset, territory, modifier.
MoreSpecific(a, b) ==
  LET places == <<Revision, Sponsor, Special, Codeset, NormCodeset, Territory,
                  Audience, Modifier>>
      rank(bit) == CHOOSE i \in DOMAIN places : places[i] = bit
  IN \E bit \in a \ b : \A other \in b \ a : rank(other) < rank(bit)

\* The names of a locale, whole and less specific, each in one of the syntaxes.
Variants(parts) ==
  {m \in SUBSET parts.mask :
     /\ m \intersect (IF parts.xpg THEN CenSpecific ELSE XpgSpecific) = {}
     /\ ~({Codeset, NormCodeset} \subseteq m)}

\* The languages that settings call for, up to the first "C" or "POSIX".
Wanted(s, category) ==
  LET names == GuessCategoryValue(s.env, category)
      ends == {i \in DOMAIN names : names[i] \in {C, POSIX}}
  IN {i \in DOMAIN names :
        /\ names[i] # <<>> /\ \A j \in ends : i < j
        /\ s.secure => ~HasDir(names[i])}

\* The file a language has the message in, the most specific one.
BestOf(parts, dir, file, msgid) ==
  LET path(m) == FileName(dir, parts, m, file)
      having == {m \in Variants(parts) :
                   path(m) \in DOMAIN Installed /\ msgid \in Installed[path(m)]}
  IN IF having = {} THEN Untranslated
     ELSE path(CHOOSE m \in having : \A n \in having : m = n \/ MoreSpecific(m, n))

\* The translation that settings call for: of the first language that has one,
\* from the most specific file that has one.
Best(s, q) ==
  LET domain == IF q.domain = "NULL" THEN s.current ELSE q.domain
      dir == DirName(s.bindings, s.env, domain)
      names == GuessCategoryValue(s.env, q.category)
      text(i) == BestOf(Exploded(names[i]), dir, FileOf(q.category, domain), q.msgid)
      having == {i \in Wanted(s, q.category) : text(i) # Untranslated}
  IN IF dir = Nowhere \/ having = {} THEN Untranslated ELSE text(Min(having))

Settings ==
  [env : Environments, secure : BOOLEAN, current : Domains,
   bindings : UNION {[bound -> Directories] : bound \in SUBSET Domains}]

\* The directories, names and files that catalogues are looked for under.
Dirs == {DefaultDir} \union Directories
        \union {e.cwd \o <<"/">> \o dir : e \in Environments, dir \in Directories}
Names ==
  (UNION {ToSet(GuessCategoryValue(e, q.category)) : e \in Environments, q \in Queries})
  \ {<<>>, C, POSIX}
FileNames ==
  {FileOf(q.category, domain) :
     q \in Queries, domain \in Domains \union {r.domain : r \in Queries}}

ASSUME SequencesAssumption ==
  /\ \A dir \in {DefaultDir} \union Directories : dir \in Seq(ToSet(dir))
  /\ \A e \in Environments : e.cwd \in Seq(ToSet(e.cwd)) /\ e.language \in Seq(ToSet(e.language))
  /\ \A name \in Names \union {Aliases[l] : l \in DOMAIN Aliases} : name \in Seq(ToSet(name))

\* What an alias stands for, a normalized codeset and the name of a file are
\* without directories.
PlainNames ==
  /\ \A l \in DOMAIN Aliases : ~HasDir(Aliases[l])
  /\ \A l \in Names : ~HasDir(Exploded(l).norm)
  /\ "/" \notin FileNames

\* Each installed catalogue that a name leads to is one of its variants, and none
\* is under a normalized codeset.  (The audience of a CEN name counts as a
\* modifier, too, in the mask of the whole.)
Ordinary ==
  \A dir \in Dirs, l \in Names, file \in FileNames :
    LET parts == Exploded(l) IN
    \A mask \in ToSet(Masks(parts.mask)) :
      FileName(dir, parts, mask, file) \in DOMAIN Installed =>
        /\ NormCodeset \notin mask
        /\ mask \in Variants(parts) \/ (mask = parts.mask /\ ~parts.xpg)

\* The translation that is found in the files of these paths.
TextIn(paths, msgid) == FirstIn(paths, Having(paths, msgid))

\* The masks whose entries a name puts on the list: of two with the same path,
\* the one that is tried first.
Listed(dir, parts, file) ==
  LET paths == Paths(dir, parts, parts.mask, file)
  IN {Masks(parts.mask)[i] :
        i \in {j \in DOMAIN paths : \A k \in 1..(j - 1) : paths[k] # paths[j]}}

\* An entry that is on the list for one name leads to the same translations as
\* any other name that it would be found for.
Unambiguous ==
  \A owndir \in Dirs, own \in Names, ownfile \in FileNames :
    \A mask \in Listed(owndir, Exploded(own), ownfile) :
      LET paths == Paths(owndir, Exploded(own), mask, ownfile) IN
      \A dir \in Dirs, l \in Names, file \in FileNames :
        LET parts == Exploded(l)
            wanted == Paths(dir, parts, parts.mask, file)
        IN paths[1] \in {WholeName(dir, l, file), FileName(dir, parts, parts.mask, file)} =>
             \A q \in Queries : TextIn(paths, q.msgid) = TextIn(wanted, q.msgid)

Abstract ==
  INSTANCE Translations WITH settings <- SettingsOf(env, current, bindings),
                             answer <- told

\* gettext() gives the best translation there is for the settings in force, or
\* for settings in force since the caches were last flushed; whatever was asked
\* for, loaded and remembered before has no part in it (DCIGETTEXT,
\* _nl_find_domain, textdomain, bindtextdomain).
ImplementsTranslations == Abstract!Spec

\* finddomain.c: "If the full specified locale is not found, the less specific
\* one are looked for": a message stays untranslated only if no such catalogue
\* has it, for some settings since the caches were flushed (_nl_find_domain).
LessSpecificFound ==
  told # Unasked /\ told.text = Untranslated =>
    \E s \in seen : Best(s, told.query) = Untranslated

\* The name of a file in dir: a locale, a category and a domain.
JustBelow(dir, path) ==
  /\ IsPrefix(dir, path)
  /\ Cardinality({i \in DOMAIN path : i > Len(dir) /\ path[i] = "/"}) = 2

\* A program with another's rights takes catalogues only from the directories
\* that it has bound itself, whatever the environment says (DCIGETTEXT,
\* ENABLE_SECURE).
OwnCatalogs ==
  secure =>
    \A path \in DOMAIN loaded :
      loaded[path].data => \E dir \in Dirs : JustBelow(dir, path)
=============================================================================
