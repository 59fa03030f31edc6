----------------------------- MODULE LocaleNames ----------------------------
(***************************************************************************)
(* The name of a locale, taken apart as _nl_explode_name does it, and the  *)
(* files that _nl_make_l10nflist looks for under it, in its order.         *)
(*                                                                         *)
(* A name is a sequence of tokens: the separators "_", ".", "@", "+", ","  *)
(* and "/", and whatever lies between two of them.  The codeset is split   *)
(* further, at its characters that are neither letters nor digits.         *)
(***************************************************************************)
EXTENDS Integers, SequencesExt, FiniteSetsExt, AscendingOrder

CONSTANTS
  Lower,    \* the tokens of letters and digits, each with its small letters
  Numerals  \* those of them that have digits only

ASSUME TokensAssumption == Numerals \subseteq DOMAIN Lower

\* loadinfo.h's encoding of the parts; a mask is the set of its bits.
Revision == 1
Sponsor == 2
Special == 4
NormCodeset == 8
Codeset == 16
Territory == 32
Audience == 64
Modifier == 128

Bits == {Revision, Sponsor, Special, NormCodeset, Codeset, Territory, Audience, Modifier}

CenSpecific == {Revision, Sponsor, Special, Audience}
XpgSpecific == {NormCodeset, Codeset, Modifier}

-----------------------------------------------------------------------------
(* Taking a name apart.                                                    *)

\* What cp passes over until it stands on one of the tokens, and what it has
\* in front of it then.
Span(s, stops) ==
  LET found == {i \in DOMAIN s : s[i] \in stops}
  IN IF found = {} THEN Len(s) ELSE Min(found) - 1
Passed(s, stops) == SubSeq(s, 1, Span(s, stops))
Remainder(s, stops) == SubSeq(s, Span(s, stops) + 1, Len(s))

StartsWith(s, token) == s # <<>> /\ Head(s) = token

\* The parts after the language, in the order in which they are looked for, each
\* with its separator and what ends it.  A codeset follows a territory; it, or an
\* "@", decides for the XPG syntax, which leaves no room for the parts of CEN's.
Stage(part, separator, stops) == [part |-> part, separator |-> separator, stops |-> stops]
Stages ==
  <<Stage("territory", "_", {".", "@", "+", ",", "_"}), Stage("codeset", ".", {"@"}),
    Stage("xpg modifier", "@", {}), Stage("cen modifier", "+", {"+", ",", "_"}),
    Stage("special", "+", {",", "_"}), Stage("sponsor", ",", {"_"}),
    Stage("revision", "_", {})>>

Xpg(parsed) == {"codeset", "xpg modifier"} \intersect parsed.present # {}

Expected(stage, parsed) ==
  /\ StartsWith(parsed.rest, stage.separator)
  /\ stage.part = "codeset" => "territory" \in parsed.present
  /\ Xpg(parsed) => stage.part \in {"territory", "codeset", "xpg modifier"}

Take(parsed, stage) ==
  [present |-> parsed.present \union {stage.part},
   text |-> [parsed.text EXCEPT ![stage.part] = Passed(Tail(parsed.rest), stage.stops)],
   rest |-> Remainder(Tail(parsed.rest), stage.stops)]

\* What is behind the language, before any stage and after all of them.
Whole(name) ==
  [present |-> {}, text |-> [part \in {Stages[n].part : n \in DOMAIN Stages} |-> <<>>],
   rest |-> name]

Dissected(name) ==
  LET after[n \in 0..Len(Stages)] ==
        IF n = 0 THEN Whole(name)
        ELSE IF Expected(Stages[n], after[n - 1]) THEN Take(after[n - 1], Stages[n])
        ELSE after[n - 1]
  IN after[Len(Stages)]

\* Letters and digits, in small letters; "iso" in front of digits only.
NormalizeCodeset(codeset) ==
  LET kept == SelectSeq(codeset, LAMBDA t : t \in DOMAIN Lower)
      prefix == IF ToSet(kept) \subseteq Numerals THEN "iso" ELSE ""
  IN <<FoldLeft(LAMBDA text, t : text \o Lower[t], prefix, kept)>>

\* The comparison with the normalized codeset still has the modifier at the end
\* of the codeset.
WithModifier(parsed) ==
  parsed.text["codeset"]
  \o (IF "xpg modifier" \in parsed.present THEN <<"@">> \o parsed.text["xpg modifier"]
                                            ELSE <<>>)

\* The bits of the parts that are there; those of an XPG name count if not empty.
MaskOf(parsed, norm) ==
  LET there(part, bits) == IF part \in parsed.present THEN bits ELSE {}
      empty(part) == Xpg(parsed) /\ parsed.text[part] = <<>>
  IN there("territory", IF empty("territory") THEN {} ELSE {Territory})
     \union there("codeset", IF empty("codeset") THEN {}
                             ELSE {Codeset} \union IF WithModifier(parsed) = norm
                                                   THEN {} ELSE {NormCodeset})
     \union there("xpg modifier", IF empty("xpg modifier") THEN {Audience}
                                                          ELSE {Audience, Modifier})
     \union there("cen modifier", {Audience, Modifier})
     \union there("special", {Special}) \union there("sponsor", {Sponsor})
     \union there("revision", {Revision})

PartsOf(language, parsed, norm) ==
  [language |-> language, territory |-> parsed.text["territory"],
   codeset |-> parsed.text["codeset"], norm |-> norm,
   modifier |-> parsed.text["xpg modifier"] \o parsed.text["cen modifier"],
   special |-> parsed.text["special"], sponsor |-> parsed.text["sponsor"],
   revision |-> parsed.text["revision"], xpg |-> Xpg(parsed),
   mask |-> MaskOf(parsed, norm)]

WithNorm(language, parsed) ==
  PartsOf(language, parsed, NormalizeCodeset(parsed.text["codeset"]))

\* The parts of a name, and the mask of those it has.  A name that begins with a
\* separator is not taken apart.
ExplodeName(name) ==
  LET ends == {"_", "@", "+", ","} IN
  IF Span(name, ends) = 0 THEN WithNorm(name, Dissected(<<>>))
                          ELSE WithNorm(Passed(name, ends), Dissected(Remainder(name, ends)))

-----------------------------------------------------------------------------
(* The files.                                                              *)

\* The directory below that of the catalogue, for the parts in the mask.
LocaleDir(parts, mask) ==
  LET on(bit, tokens) == IF bit \in mask THEN tokens ELSE <<>>
      sign == IF Audience \in mask THEN "+" ELSE "@"
  IN parts.language
     \o on(Territory, <<"_">> \o parts.territory)
     \o on(Codeset, <<".">> \o parts.codeset)
     \o on(NormCodeset, <<".">> \o parts.norm)
     \o (IF mask \intersect {Modifier, Audience} # {}
           THEN <<sign>> \o parts.modifier ELSE <<>>)
     \o on(Special, <<"+">> \o parts.special)
     \o (IF mask \intersect {Sponsor, Revision} # {} THEN <<",">> ELSE <<>>)
     \o on(Sponsor, parts.sponsor)
     \o on(Revision, <<"_">> \o parts.revision)

\* The file; a language that is an absolute path stands for itself.
FileName(dir, parts, mask, file) ==
  (IF StartsWith(parts.language, "/") THEN <<>> ELSE dir \o <<"/">>)
  \o LocaleDir(parts, mask) \o <<"/", file>>

\* The number that stands for a mask.
Encoded(mask) ==
  LET value(bit) == IF bit \in mask THEN bit ELSE 0
  IN value(Revision) + value(Sponsor) + value(Special) + value(NormCodeset)
     + value(Codeset) + value(Territory) + value(Audience) + value(Modifier)

\* What the loop lets pass: no mix of the syntaxes, and one codeset at most.
Less(mask) ==
  {cnt \in SUBSET mask :
     /\ cnt # mask
     /\ cnt \intersect CenSpecific = {} \/ cnt \intersect XpgSpecific = {}
     /\ ~({Codeset, NormCodeset} \subseteq cnt)}

\* The masks of the loop from mask - 1 down to 0, for every mask.
Dominated ==
  [mask \in SUBSET Bits |->
     LET numbers == Ascending({Encoded(cnt) : cnt \in Less(mask)})
     IN [i \in DOMAIN numbers |->
           CHOOSE cnt \in Less(mask) : Encoded(cnt) = numbers[Len(numbers) + 1 - i]]]

\* A mask and those it dominates.
Masks(mask) == <<mask>> \o Dominated[mask]
=============================================================================
