----------------------------- MODULE MCGetText ------------------------------
(***************************************************************************)
(* Names in both syntaxes, an alias, lists of languages and relative and   *)
(* absolute directories.  The first installation has no catalogue under a  *)
(* normalized codeset, the second has one.                                 *)
(***************************************************************************)
EXTENDS GetText

Query(domain, msgid) == [domain |-> domain, category |-> "LC_MESSAGES", msgid |-> msgid]
MCQueries == {Query("NULL", "a"), Query("hddtemp", "b")}

MCLower == [t \in {"UTF", "8", "utf8"} |-> IF t = "UTF" THEN "utf" ELSE t]
MCNumerals == {"8"}

German == <<"de", "_", "DE", ".", "UTF", "-", "8">>
French == <<"fr", "_", "FR", "@", "euro">>
Cen == <<"en", "+", "aud", ",", "spon">>
Alias == <<"deutsch">>
Path == <<"/", "home", "/", "it">>

MCAliases == Alias :> <<"de", "_", "DE">>

MCDefaultDir == <<"/", "usr">>
Bound == <<"/", "opt">>
Relative == <<"po">>
MCDirectories == {Bound, Relative}
Root == <<"/">>
Work == <<"/", "w">>

Env(lang, language, cwd) ==
  [all |-> <<>>, categories |-> [c \in {"LC_MESSAGES"} |-> lang], lang |-> <<"it">>,
   language |-> language, cwd |-> cwd]

MCEnvironments ==
  {Env(German, <<>>, Work), Env(C, <<French>>, Work),
   Env(Alias, <<French, <<>>, Cen, C, German>>, Nowhere),
   Env(French, <<Path, Alias>>, Work)}

Mo(dir, name, domain) == dir \o <<"/">> \o name \o <<"/", FileOf("LC_MESSAGES", domain)>>

Catalogs(domain) ==
  Mo(MCDefaultDir, <<"de">>, domain) :> {"a", "b"}
  @@ Mo(MCDefaultDir, <<"de", "_", "DE">>, domain) :> {"a"}
  @@ Mo(MCDefaultDir, <<"fr", "_", "FR">>, domain) :> {"a"}
  @@ Mo(MCDefaultDir, <<"fr", "@", "euro">>, domain) :> {"a", "b"}
  @@ Mo(Bound, <<"de", ".", "UTF", "-", "8">>, domain) :> {"a"}
  @@ Mo(Bound, <<"de", "_", "DE">>, domain) :> {"a", "b"}
  @@ Mo(Bound, <<"en", "+", "aud">>, domain) :> {"a"}
  @@ Mo(Bound, <<"en", ",", "spon">>, domain) :> {"a", "b"}
  @@ Mo(<<"/", "w", "/", "po">>, <<"de">>, domain) :> {"b"}

Foreign(domain) == (Path \o <<"/", FileOf("LC_MESSAGES", domain)>>) :> {"a"}

MCInstalled == Catalogs("messages") @@ Foreign("messages") @@ Foreign("hddtemp")
               @@ Mo(Bound, <<"de">>, "hddtemp") :> {"a"}

NormalizedInstalled ==
  MCInstalled @@ Mo(MCDefaultDir, <<"de", "_", "DE", ".", "utf8">>, "hddtemp") :> {"a", "b"}

\* The first installation leaves no doubt which catalogues a name is for.
ASSUME InstalledAssumption ==
  PlainNames /\ (Installed = MCInstalled => Ordinary /\ Unambiguous)

\* At most two of the settings' changes.
FewChanges == cntr + changes <= 2
=============================================================================
