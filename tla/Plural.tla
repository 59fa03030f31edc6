------------------------------- MODULE Plural -------------------------------
(***************************************************************************)
(* The plural forms of a message catalogue: the expression that follows    *)
(* "plural=" in the catalogue's header is read by the bison parser of      *)
(* plural.c and later evaluated, for the number a message is about, by     *)
(* plural_eval().                                                          *)
(*                                                                         *)
(* The parser is a state machine: one step per shift or reduction.  Its    *)
(* tables are represented by what they encode, the declarations of         *)
(* precedence of plural.y.  A text is a sequence of characters (strings of *)
(* length 1).                                                              *)
(***************************************************************************)
EXTENDS Integers, Sequences, SequencesExt, FiniteSetsExt

CONSTANTS
  Modulus,    \* one more than the greatest unsigned long
  MaxDepth    \* YYMAXDEPTH, the largest size of the parser's stack

ASSUME ModulusAssumption == Modulus \in Nat \ {0, 1}
ASSUME MaxDepthAssumption == MaxDepth \in Nat \ {0}

VARIABLES
  rest,       \* args.cp: the characters not read yet
  stack,      \* the symbols on the parser's stack, with their values
  live,       \* number of struct expression allocated and not freed
  result      \* "running", or what the parser returned

parserVars == <<rest, stack, live, result>>

-----------------------------------------------------------------------------
(* Expressions.                                                            *)

\* A struct expression; null stands for a NULL pointer.
Exp(op, val, args) == [op |-> op, num |-> val, args |-> args]

null == Exp("NULL", 0, <<>>)

GermanicPlural ==
  Exp("!=", 0, <<Exp("var", 0, <<>>), Exp("num", 1, <<>>)>>)

\* The node of e at the end of a path from its root; a step is the place of an
\* argument.
Node(e, path) == FoldLeft(LAMBDA x, i : x.args[i], e, path)

\* The number of nodes that FREE_EXPRESSION releases.
Size(e) ==
  LET size[path \in Seq(1..3)] ==
        LET x == Node(e, path)
        IN IF x = null THEN 0
           ELSE 1 + FoldLeft(LAMBDA sum, i : sum + size[Append(path, i)], 0,
                             [i \in DOMAIN x.args |-> i])
  IN size[<<>>]

-----------------------------------------------------------------------------
(* Evaluation, in unsigned arithmetic; Trap is the signal of a division by *)
(* zero.                                                                   *)

Trap == -1

Truth(b) == IF b THEN 1 ELSE 0

Apply(op, a, b) ==
  CASE op = "*"  -> (a * b) % Modulus
    [] op = "/"  -> IF b = 0 THEN Trap ELSE a \div b
    [] op = "%"  -> IF b = 0 THEN Trap ELSE a % b
    [] op = "+"  -> (a + b) % Modulus
    [] op = "-"  -> (a - b) % Modulus
    [] op = "<"  -> Truth(a < b)
    [] op = ">"  -> Truth(a > b)
    [] op = "<=" -> Truth(a <= b)
    [] op = ">=" -> Truth(a >= b)
    [] op = "==" -> Truth(a = b)
    [] op = "!=" -> Truth(a # b)

\* The second operand of || and && is evaluated only when it decides.
Decided(op, a) == (op = "||" /\ a # 0) \/ (op = "&&" /\ a = 0)

PluralEval(e, n) ==
  LET eval[path \in Seq(1..3)] ==
        LET x == Node(e, path)
            a == eval[Append(path, 1)]
            b == eval[Append(path, 2)]
        IN IF x.args = <<>> THEN IF x.op = "var" THEN n ELSE x.num
           ELSE IF a = Trap THEN Trap
           ELSE CASE x.op = "!" -> Truth(a = 0)
                  [] x.op = "?" -> eval[Append(path, IF a # 0 THEN 2 ELSE 3)]
                  [] OTHER ->
                       IF Decided(x.op, a) THEN Truth(a # 0)
                       ELSE IF b = Trap THEN Trap
                       ELSE IF x.op \in {"||", "&&"} THEN Truth(b # 0)
                       ELSE Apply(x.op, a, b)
  IN eval[<<>>]

-----------------------------------------------------------------------------
(* Tokens: a kind, the operator it stands for, and how long it is.         *)

Digits == [c \in {"0", "1", "2", "3", "4", "5", "6", "7", "8", "9"} |->
             CHOOSE d \in 0..9 : ToString(d) = c]

Token(kind, op, val, length) ==
  [kind |-> kind, op |-> op, num |-> val, length |-> length]

\* The value of a number, digit by digit, in an unsigned long.
Value(digits) ==
  FoldLeft(LAMBDA n, c : (n * 10 + Digits[c]) % Modulus, 0, digits)

Blanks(s) ==
  CHOOSE k \in 0..Len(s) : /\ \A i \in 1..k : s[i] = " "
                           /\ k = Len(s) \/ s[k + 1] # " "

\* The operators of which another one may be a beginning.
Operator(c, next) ==
  CASE c = "=" -> IF next = "=" THEN Token("EQUOP2", "==", 0, 2)
                                ELSE Token("error", c, 0, 1)
    [] c = "!" -> IF next = "=" THEN Token("EQUOP2", "!=", 0, 2)
                                ELSE Token("!", c, 0, 1)
    [] c \in {"&", "|"} -> IF next = c THEN Token(c, c \o c, 0, 2)
                                       ELSE Token("error", c, 0, 1)
    [] c \in {"<", ">"} -> IF next = "=" THEN Token("CMPOP2", c \o "=", 0, 2)
                                         ELSE Token("CMPOP2", c, 0, 1)
    [] c \in {"*", "/", "%"} -> Token("MULOP2", c, 0, 1)
    [] c \in {"+", "-"} -> Token("ADDOP2", c, 0, 1)
    [] c \in {"n", "?", ":", "(", ")"} -> Token(c, c, 0, 1)
    [] OTHER -> Token("error", c, 0, 1)

Number(s) ==
  LET k == CHOOSE k \in 1..Len(s) :
             /\ \A i \in 1..k : s[i] \in DOMAIN Digits
             /\ k = Len(s) \/ s[k + 1] \notin DOMAIN Digits
  IN Token("NUMBER", "num", Value(SubSeq(s, 1, k)), k)

\* The next token; the end of the text, ";" and a newline end the input.
Lex(s) ==
  LET t == SubSeq(s, Blanks(s) + 1, Len(s)) IN
  IF t = <<>> \/ t[1] \in {";", "newline"} THEN Token("EOF", "EOF", 0, 0)
  ELSE IF t[1] \in DOMAIN Digits THEN Number(t)
  ELSE Operator(t[1], IF Len(t) > 1 THEN t[2] ELSE "EOF")

\* What is left once the token is shifted.
After(s) == SubSeq(s, Blanks(s) + Lex(s).length + 1, Len(s))

-----------------------------------------------------------------------------
(* Shift or reduce.                                                        *)

\* From the loosest to the tightest.
Precedence == <<"?", "|", "&", "EQUOP2", "CMPOP2", "ADDOP2", "MULOP2">>

Binary == {Precedence[i] : i \in 2..7}

\* Mutant: the operators are right-associative.
Tighter_right(a, b) ==
  \E i, j \in 1..7 : i >= j /\ Precedence[i] = a /\ Precedence[j] = b

Tighter(a, b) ==
  \E i, j \in 1..7 : i > j /\ Precedence[i] = a /\ Precedence[j] = b

Kinds(s) == [i \in DOMAIN s |-> s[i].kind]

Ends(pattern) == IsSuffix(pattern, Kinds(stack))

\* The length of the right-hand side to reduce before the token t, 0 if there
\* is none.  The conditional has no precedence: any operator is shifted.
Handle(t) ==
  LET top == IF stack = <<>> THEN "EOF" ELSE stack[Len(stack)].kind
      before == IF Len(stack) < 2 THEN "EOF" ELSE stack[Len(stack) - 1].kind
  IN CASE top \in {"n", "NUMBER"} -> 1
       [] top = ")" -> 3
       [] top = "exp" /\ before = "!" -> 2
       [] top = "exp" /\ before \in Binary ->
            IF t \in Binary /\ Tighter(t, before) THEN 0 ELSE 3
       [] top = "exp" /\ before = ":" ->
            IF t \in ToSet(Precedence) THEN 0 ELSE 5
       [] Kinds(stack) = <<"exp">> -> IF t \in ToSet(Precedence) THEN 0 ELSE 1
       [] OTHER -> 0

\* Whether the token t may follow what is on the stack.
Fits(t) ==
  IF stack # <<>> /\ stack[Len(stack)].kind = "exp"
    THEN \/ t \in ToSet(Precedence)
         \/ t = ":" /\ Ends(<<"?", "exp">>)
         \/ t = ")" /\ Ends(<<"(", "exp">>)
    ELSE t \in {"n", "NUMBER", "(", "!"} /\ Kinds(stack) # <<"start">>

Symbol(kind, exp, op) == [kind |-> kind, exp |-> exp, op |-> op]

\* Mutant: the arguments are not freed.
NewExp_leaks(op, val, args, malloc) ==
  IF malloc /\ \A i \in DOMAIN args : args[i] # null
    THEN [exp |-> Exp(op, val, args), live |-> live + 1]
    ELSE [exp |-> null, live |-> live]

\* new_exp(): the node, or NULL when an argument is NULL or malloc() fails;
\* then the arguments are freed.
NewExp(op, val, args, malloc) ==
  IF malloc /\ \A i \in DOMAIN args : args[i] # null
    THEN [exp |-> Exp(op, val, args), live |-> live + 1]
    ELSE [exp |-> null,
          live |-> live - FoldLeft(LAMBDA sum, a : sum + Size(a), 0, args)]

\* The semantic action of the rule whose right-hand side is rhs.
Reduced(rhs, malloc) ==
  LET k == Len(rhs) IN
  CASE rhs[1].kind = "n" -> NewExp("var", 0, <<>>, malloc)
    [] rhs[1].kind = "NUMBER" -> NewExp("num", rhs[1].exp.num, <<>>, malloc)
    [] rhs[1].kind = "!" -> NewExp("!", 0, <<rhs[2].exp>>, malloc)
    [] rhs[1].kind = "(" -> [exp |-> rhs[2].exp, live |-> live]
    [] k = 3 /\ rhs[1].kind = "exp" ->
         NewExp(rhs[2].op, 0, <<rhs[1].exp, rhs[3].exp>>, malloc)
    [] k = 5 ->
         NewExp("?", 0, <<rhs[1].exp, rhs[3].exp, rhs[5].exp>>, malloc)
    [] k = 1 /\ rhs[1].kind = "exp" -> [exp |-> rhs[1].exp, live |-> live]

-----------------------------------------------------------------------------
(* The parser.                                                             *)

Look == Lex(rest).kind

Depth(s) == Len(s) + 1    \* with the state at the bottom

\* A symbol is pushed, unless the stack cannot grow any more.
Push(s, symbol) ==
  IF Depth(s) + 1 >= MaxDepth
    THEN result' = "overflow" /\ stack' = s
    ELSE result' = "running" /\ stack' = Append(s, symbol)

Shift ==
  /\ result = "running"
  /\ Handle(Look) = 0 /\ Fits(Look)
  /\ LET t == Lex(rest) IN
     Push(stack, Symbol(t.kind, Exp("num", t.num, <<>>), t.op))
  /\ rest' = After(rest)
  /\ UNCHANGED live

Reduce ==
  /\ result = "running"
  /\ Handle(Look) > 0
  /\ \E malloc \in BOOLEAN :
       LET k == Handle(Look)
           below == SubSeq(stack, 1, Len(stack) - k)
           rhs == SubSeq(stack, Len(stack) - k + 1, Len(stack))
           new == Reduced(rhs, malloc)
           start == Kinds(stack) = <<"exp">>
       IN /\ IF start /\ new.exp = null
               THEN result' = "no memory" /\ stack' = below
               ELSE Push(below, Symbol(IF start THEN "start" ELSE "exp",
                                       new.exp, ""))
          /\ live' = new.live
  /\ UNCHANGED rest

Accept ==
  /\ result = "running"
  /\ Kinds(stack) = <<"start">> /\ Look = "EOF"
  /\ result' = "accepted"
  /\ UNCHANGED <<rest, stack, live>>

\* No rule has an error token: the stack is popped, and its values are lost.
Error ==
  /\ result = "running"
  /\ Handle(Look) = 0 /\ ~Fits(Look)
  /\ ~(Kinds(stack) = <<"start">> /\ Look = "EOF")
  /\ result' = "aborted"
  /\ stack' = <<>>
  /\ UNCHANGED <<rest, live>>

Parse == Shift \/ Reduce \/ Accept \/ Error

\* The parser is called for a text.
Begun(text) ==
  /\ rest = text
  /\ stack = <<>>
  /\ live = 0
  /\ result = "running"

\* The expression passed up from the parser; the germanic plural is used when
\* there is none.
Parsed == IF result = "accepted" THEN stack[1].exp ELSE GermanicPlural
=============================================================================
