---------------------------- MODULE Translations ----------------------------
(***************************************************************************)
(* What gettext() promises: the translation that the settings of the       *)
(* process call for, or called for since textdomain() or bindtextdomain()  *)
(* was last called, as these are what makes libintl forget.                *)
(***************************************************************************)
CONSTANTS
  Settings,     \* what the answer depends on: environment, domain, bindings
  Queries,      \* what may be asked for
  Best(_, _)    \* the translation of a query under settings

VARIABLES
  settings,     \* those in force
  seen,         \* those in force since the last call of a libintl function
  answer        \* the last query since then, and its translation

vars == <<settings, seen, answer>>

NoAnswer ==
  [query |-> [domain |-> "none", category |-> "none", msgid |-> "none"], text |-> <<>>]

Init ==
  /\ settings \in Settings
  /\ seen = {settings}
  /\ answer = NoAnswer

\* The environment changes behind the back of libintl.
Change ==
  /\ settings' \in Settings
  /\ seen' = seen \union {settings'}
  /\ UNCHANGED answer

\* textdomain() or bindtextdomain().
Configure ==
  /\ settings' \in Settings
  /\ seen' = {settings'}
  /\ answer' = NoAnswer

Ask(query) ==
  /\ \E s \in seen :
       answer' = [query |-> query, text |-> Best(s, query)]
  /\ UNCHANGED <<settings, seen>>

Next == Change \/ Configure \/ \E query \in Queries : Ask(query)

Spec == Init /\ [][Next]_vars
=============================================================================
