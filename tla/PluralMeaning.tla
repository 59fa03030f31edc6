--------------------------- MODULE PluralMeaning ----------------------------
(***************************************************************************)
(* What a plural expression means, defined without a parser, and that the  *)
(* messages a catalogue returns are those that the meaning of the          *)
(* expression in its header calls for.                                     *)
(***************************************************************************)
EXTENDS Catalog

-----------------------------------------------------------------------------
(* What an expression means, read off its tokens without a stack: it is    *)
(* split at the operator that binds least, outside parentheses.            *)

RECURSIVE Tokens(_)
Tokens(s) ==
  IF Lex(s).kind = "EOF" THEN <<>> ELSE <<Lex(s)>> \o Tokens(After(s))

Count(ts, kind) == Cardinality({i \in DOMAIN ts : ts[i].kind = kind})

\* The positions outside all parentheses.
Outside(ts) ==
  {i \in DOMAIN ts : LET s == SubSeq(ts, 1, i - 1) IN Count(s, "(") = Count(s, ")")}

Splits(ts, kind) == {i \in Outside(ts) : ts[i].kind = kind}

\* The ":" of the first "?".
Colon(ts) ==
  LET q == Min(Splits(ts, "?"))
      at == {i \in Splits(ts, ":") :
               i > q /\ LET s == SubSeq(ts, q, i) IN Count(s, "?") = Count(s, ":")}
  IN IF at = {} THEN 0 ELSE Min(at)

Loosest(ts) ==
  LET ops == {i \in 2..7 : Splits(ts, Precedence[i]) # {}}
  IN IF ops = {} THEN 0 ELSE Max(Splits(ts, Precedence[Min(ops)]))

From(ts, i) == SubSeq(ts, i, Len(ts))
To(ts, i) == SubSeq(ts, 1, i)

RECURSIVE Valid(_)
Valid(ts) ==
  IF Splits(ts, "?") # {} THEN
    LET q == Min(Splits(ts, "?")) c == Colon(ts) IN
    c > 0 /\ Valid(To(ts, q - 1)) /\ Valid(SubSeq(ts, q + 1, c - 1)) /\ Valid(From(ts, c + 1))
  ELSE IF Loosest(ts) > 0 THEN
    Valid(To(ts, Loosest(ts) - 1)) /\ Valid(From(ts, Loosest(ts) + 1))
  ELSE IF ts = <<>> THEN FALSE
  ELSE IF ts[1].kind = "!" THEN Valid(Tail(ts))
  ELSE IF ts[1].kind = "(" /\ Last(ts).kind = ")" THEN
    Outside(ts) = {1} /\ Valid(Tail(Front(ts)))
  ELSE Len(ts) = 1 /\ ts[1].kind \in {"n", "NUMBER"}

RECURSIVE Reference(_, _)
Reference(ts, n) ==
  LET q == Min(Splits(ts, "?"))
      o == Loosest(ts)
      left == Reference(To(ts, o - 1), n)
      right == Reference(From(ts, o + 1), n)
  IN IF Splits(ts, "?") # {} THEN
       LET cond == Reference(To(ts, q - 1), n) IN
       IF cond = Trap THEN Trap
       ELSE IF cond # 0 THEN Reference(SubSeq(ts, q + 1, Colon(ts) - 1), n)
       ELSE Reference(From(ts, Colon(ts) + 1), n)
     ELSE IF o > 0 THEN
       CASE left = Trap -> Trap
         [] ts[o].op = "||" /\ left # 0 -> 1
         [] ts[o].op = "&&" /\ left = 0 -> 0
         [] right = Trap -> Trap
         [] ts[o].op = "||" \/ ts[o].op = "&&" -> Truth(right # 0)
         [] OTHER -> Apply(ts[o].op, left, right)
     ELSE IF ts[1].kind = "!" THEN
       LET a == Reference(Tail(ts), n) IN IF a = Trap THEN Trap ELSE Truth(a = 0)
     ELSE IF ts[1].kind = "(" THEN Reference(Tail(Front(ts)), n)
     ELSE IF ts[1].kind = "n" THEN n ELSE ts[1].num

\* What the plural expression means, read as C reads it, when it is one.
Meaning(n) ==
  IF HasHeader /\ file.plural # <<>> /\ file.nplurals >= 0
       /\ Valid(Tokens(file.plural))
    THEN LET v == Reference(Tokens(file.plural), n)
         IN IF v # Trap /\ v >= file.nplurals THEN 0 ELSE v
    ELSE Truth(n # 1)

\* The variant returned for a number is the one that the expression in the
\* header stands for, the first one if there are too few; a germanic plural is
\* assumed if the header has no expression, or when memory ran out while it
\* was read (plural.c, EXTRACT_PLURAL_EXPRESSION, plural_lookup).
RightForm ==
  answer.kind = "found" =>
    LET forms == Forms(Find(answer.id))
        of(index) == IF index = Trap THEN <<>>
                     ELSE forms[IF index < Len(forms) THEN index + 1 ELSE 1]
    IN \/ answer.form = of(Meaning(answer.n))
       \/ result \in {"no memory", "overflow"} /\ answer.form = of(Truth(answer.n # 1))
=============================================================================
