------------------------------ MODULE Calculator ------------------------------
(***************************************************************************)
(* The calculator tool (package tool): does it feel addressed by a         *)
(* message, which part of the message does it take for an expression, and  *)
(* what does its recursive-descent parser make of that. The result goes    *)
(* into the system prompt of the chat, so nothing later would notice a     *)
(* wrong one. The parser is compared with the grammar it implements.       *)
(*                                                                         *)
(* A message is a sequence of characters, of which only those are told     *)
(* apart that the code tells apart; "space" is a space. Numbers are exact: *)
(* the rounding of float64 is left out. The recursion of the code is that  *)
(* of functions, of which Calculator_proofs shows that they exist.         *)
(***************************************************************************)
EXTENDS Integers, Sequences, FiniteSets, FiniteSetsExt, SequencesExt

CONSTANTS
    Alphabets,  \* a message is written in one of these
    MaxLength   \* bound of its length

Digit     == [c \in {"0", "2", "5"} |-> CASE c = "0" -> 0 [] c = "2" -> 2 [] c = "5" -> 5]
Operators == {"+", "-", "*", "/"}
Characters ==
    DOMAIN Digit \cup Operators \cup {"(", ")", ".", "space"} \cup
    {"times",    \* the sign that is replaced by *; the one for / is alike
     "arabic",   \* a digit to unicode.IsDigit, of two bytes
     "keyword",  \* a word that addresses the calculator
     "letter"}   \* any other character

ASSUME MessageAssumption == Alphabets \subseteq SUBSET Characters /\ MaxLength \in Nat

VARIABLES
    message,  \* what the user has written so far
    alphabet

Init == alphabet \in Alphabets /\ message = <<>>

Type ==
    /\ Len(message) < MaxLength
    /\ \E c \in alphabet : message' = Append(message, c)
    /\ UNCHANGED alphabet

Spec == Init /\ [][Type]_<<message, alphabet>>

-----------------------------------------------------------------------------
(* ShouldUse and extractExpression.                                        *)

Has(text, characters) == ToSet(text) \cap characters # {}

\* Mutant: the sign that extractExpression replaces is not looked for.
MutShouldUse(text) ==
    Has(text, {"keyword"}) \/ (Has(text, DOMAIN Digit \cup {"arabic"}) /\ Has(text, Operators))

ShouldUse(text) ==
    \/ Has(text, {"keyword"})
    \/ Has(text, DOMAIN Digit \cup {"arabic"}) /\ Has(text, Operators \cup {"times"})

ReplaceTimes(text) == [i \in DOMAIN text |-> IF text[i] = "times" THEN "*" ELSE text[i]]

Arithmetic == DOMAIN Digit \cup Operators \cup {"(", ")", ".", "space", "arabic"}

At(text, p) == IF p \in DOMAIN text THEN text[p] ELSE "end"

\* The next position from p on, and the last one up to p, that is no space.
SkipSpaces(text, p) == Min({q \in p .. Len(text) + 1 : At(text, q) # "space"})
BackSpaces(text, p) == Max({q \in 0 .. p : At(text, q) # "space"})

\* A string that is a piece of a text is given by the positions of its ends.
Bytes(text, i, j) == Cardinality(i .. j) + Cardinality({k \in i .. j : text[k] = "arabic"})

HasOperator(text, i, j) == \E k \in i .. j : text[k] \in Operators

\* Mutant: the last of the longest.
MutFlush(text, found, n) ==
    LET i == SkipSpaces(text, found.start)
        j == BackSpaces(text, n)
    IN  IF Bytes(text, i, j) >= Bytes(text, found.best[1], found.best[2]) /\ HasOperator(text, i, j)
        THEN <<i, j>> ELSE found.best

\* What was written up to n is taken, trimmed, if it is longer than the best.
Flush(text, found, n) ==
    LET i == SkipSpaces(text, found.start)
        j == BackSpaces(text, n)
    IN  IF Bytes(text, i, j) > Bytes(text, found.best[1], found.best[2]) /\ HasOperator(text, i, j)
        THEN <<i, j>> ELSE found.best

\* After n characters: the best piece, and where the current one starts.
Read(text, scan, n) ==
    IF n = 0 THEN [best |-> <<1, 0>>, start |-> 1]
    ELSE IF text[n] \in Arithmetic THEN scan[n - 1]
    ELSE [best |-> Flush(text, scan[n - 1], n - 1), start |-> n + 1]

Scan(text) == LET scan[n \in 0 .. Len(text)] == Read(text, scan, n) IN scan

\* The ends of the expression; the second is before the first if there is none.
ExtractExpression(text) == Flush(text, Scan(text)[Len(text)], Len(text))

-----------------------------------------------------------------------------
(* Numbers, as fractions.                                                  *)

Number == [num : Int, den : Int]
Zero   == [num |-> 0, den |-> 1]

Negate(a)    == [num |-> -a.num, den |-> a.den]
Plus(a, b)   == [num |-> a.num * b.den + b.num * a.den, den |-> a.den * b.den]
Times(a, b)  == [num |-> a.num * b.num, den |-> a.den * b.den]
Invert(a)    == IF a.num > 0 THEN [num |-> a.den, den |-> a.num]
                             ELSE [num |-> -a.den, den |-> -a.num]

\* Digits with at most one point among them.
Figures(s, i, j) ==
    /\ \A k \in i .. j : s[k] \in DOMAIN Digit \cup {"."}
    /\ \A k, l \in i .. j : s[k] = "." /\ s[l] = "." => k = l

IsNumber(s, i, j) == Figures(s, i, j) /\ \E k \in i .. j : s[k] \in DOMAIN Digit

\* The number read when the position is n.
Accumulate(s, i, float, n) ==
    IF n < i THEN Zero
    ELSE IF s[n] = "." THEN float[n - 1]
    ELSE [num |-> 10 * float[n - 1].num + Digit[s[n]],
          den |-> IF \E k \in i .. n : s[k] = "." THEN 10 * float[n - 1].den ELSE float[n - 1].den]

ParseFloat(s, i, j) == LET float[n \in i - 1 .. j] == Accumulate(s, i, float, n) IN float[j]

-----------------------------------------------------------------------------
(* The parser: what each of its methods returns from each position, the new *)
(* position with a value or a failure; all failures are alike here. The     *)
(* loops of parseExpression and parseTerm, "terms" and "factors", have the  *)
(* value on the left as well.                                               *)

Fail == [ok |-> FALSE, pos |-> 0, val |-> Zero]
Done(p, v) == [ok |-> TRUE, pos |-> p, val |-> v]

Methods  == {"expression", "terms", "term", "factors", "factor"}
Calls(s) == Methods \X (1 .. Len(s) + 1) \X Number

\* As many figures as there are.
ParseNumber(s, p) ==
    LET read == {q \in p .. Len(s) : Figures(s, p, q)} IN
    IF read # {} /\ IsNumber(s, p, Max(read)) THEN Done(Max(read) + 1, ParseFloat(s, p, Max(read)))
                                              ELSE Fail

ParseFactor(s, parse, p0) ==
    LET p     == SkipSpaces(s, p0)
        after == parse[<<"factor", p + 1, Zero>>]
        inner == parse[<<"expression", p + 1, Zero>>]
        close == SkipSpaces(s, inner.pos)
    IN  CASE At(s, p) = "+" -> after
          [] At(s, p) = "-" -> IF after.ok THEN Done(after.pos, Negate(after.val)) ELSE Fail
          [] At(s, p) = "(" -> IF inner.ok /\ At(s, close) = ")" THEN Done(close + 1, inner.val)
                                                                 ELSE Fail
          [] OTHER          -> ParseNumber(s, p)

\* The loop of parseTerm.
MoreFactors(s, parse, p0, left) ==
    LET p     == SkipSpaces(s, p0)
        right == parse[<<"factor", p + 1, Zero>>]
    IN  CASE At(s, p) = "*" -> IF right.ok
                               THEN parse[<<"factors", right.pos, Times(left, right.val)>>] ELSE Fail
          [] At(s, p) = "/" -> IF right.ok /\ right.val.num # 0
                               THEN parse[<<"factors", right.pos, Times(left, Invert(right.val))>>]
                               ELSE Fail
          [] OTHER          -> Done(p, left)

ParseTerm(s, parse, p) ==
    LET left == parse[<<"factor", p, Zero>>] IN
    IF left.ok THEN parse[<<"factors", left.pos, left.val>>] ELSE Fail

\* Mutant: what follows a minus is read as one expression.
MutMoreTerms(s, parse, p0, left) ==
    LET p    == SkipSpaces(s, p0)
        rest == parse[<<"expression", p + 1, Zero>>]
    IN  CASE At(s, p) = "+" -> IF rest.ok THEN Done(rest.pos, Plus(left, rest.val)) ELSE Fail
          [] At(s, p) = "-" -> IF rest.ok THEN Done(rest.pos, Plus(left, Negate(rest.val))) ELSE Fail
          [] OTHER          -> Done(p, left)

\* The loop of parseExpression.
MoreTerms(s, parse, p0, left) ==
    LET p     == SkipSpaces(s, p0)
        right == parse[<<"term", p + 1, Zero>>]
    IN  CASE At(s, p) = "+" -> IF right.ok
                               THEN parse[<<"terms", right.pos, Plus(left, right.val)>>] ELSE Fail
          [] At(s, p) = "-" -> IF right.ok
                               THEN parse[<<"terms", right.pos, Plus(left, Negate(right.val))>>] ELSE Fail
          [] OTHER          -> Done(p, left)

ParseExpression(s, parse, p) ==
    LET left == parse[<<"term", p, Zero>>] IN
    IF left.ok THEN parse[<<"terms", left.pos, left.val>>] ELSE Fail

Perform(s, parse, call) ==
    CASE call[1] = "expression" -> ParseExpression(s, parse, call[2])
      [] call[1] = "terms"      -> MoreTerms(s, parse, call[2], call[3])
      [] call[1] = "term"       -> ParseTerm(s, parse, call[2])
      [] call[1] = "factors"    -> MoreFactors(s, parse, call[2], call[3])
      [] OTHER                  -> ParseFactor(s, parse, call[2])

Parser(s) == LET parse[call \in Calls(s)] == Perform(s, parse, call) IN parse

\* The whole expression, or an error.
Parse(s) ==
    LET e == Parser(s)[<<"expression", 1, Zero>>] IN
    IF e.ok /\ SkipSpaces(s, e.pos) > Len(s) THEN e ELSE Fail

Call(input) ==
    LET text == ReplaceTimes(input)
        best == ExtractExpression(text)
    IN  IF best[1] > best[2] THEN Fail ELSE Parse(SubSeq(text, best[1], best[2]))

-----------------------------------------------------------------------------
(* The grammar: the values of a piece of a text, as a sum, as a product and *)
(* as a factor. Operators of one kind group to the left.                    *)

Pieces(s)         == {"sum", "product", "factor"} \X (1 .. Len(s) + 1) \X (0 .. Len(s))
Where(s, c, i, j) == {k \in i .. j : s[k] = c}

Sum(s, value, i, j) ==
    value[<<"product", i, j>>]
    \cup (UNION {{Plus(l, r) : l \in value[<<"sum", i, k - 1>>], r \in value[<<"product", k + 1, j>>]} :
                 k \in Where(s, "+", i, j)})
    \cup (UNION {{Plus(l, Negate(r)) : l \in value[<<"sum", i, k - 1>>],
                                       r \in value[<<"product", k + 1, j>>]} :
                 k \in Where(s, "-", i, j)})

Product(s, value, i, j) ==
    LET factor(k) == value[<<"factor", SkipSpaces(s, k), BackSpaces(s, j)>>] IN
    factor(i)
    \cup (UNION {{Times(l, r) : l \in value[<<"product", i, k - 1>>], r \in factor(k + 1)} :
                 k \in Where(s, "*", i, j)})
    \cup (UNION {{Times(l, Invert(r)) : l \in value[<<"product", i, k - 1>>],
                                        r \in {f \in factor(k + 1) : f.num # 0}} :
                 k \in Where(s, "/", i, j)})

Factor(s, value, i, j) ==
    IF i > j THEN {}
    ELSE CASE s[i] = "+"               -> value[<<"factor", SkipSpaces(s, i + 1), j>>]
           [] s[i] = "-"               -> {Negate(v) : v \in value[<<"factor", SkipSpaces(s, i + 1), j>>]}
           [] s[i] = "(" /\ s[j] = ")" -> value[<<"sum", i + 1, j - 1>>]
           [] OTHER                    -> IF IsNumber(s, i, j) THEN {ParseFloat(s, i, j)} ELSE {}

Derive(s, value, piece) ==
    CASE piece[1] = "sum"     -> Sum(s, value, piece[2], piece[3])
      [] piece[1] = "product" -> Product(s, value, piece[2], piece[3])
      [] OTHER                -> Factor(s, value, piece[2], piece[3])

Grammar(s) == LET value[piece \in Pieces(s)] == Derive(s, value, piece) IN value

-----------------------------------------------------------------------------
\* The parser accepts what the grammar derives, with its value, and nothing
\* else: signs, nesting, spaces, points and divisions by zero included.
ParsesTheGrammar ==
    LET text   == ReplaceTimes(message)
        parsed == Parse(text)
    IN  Grammar(text)[<<"sum", 1, Len(text)>>] = IF parsed.ok THEN {parsed.val} ELSE {}

Fits(text, i, j) ==
    /\ i <= j /\ \A k \in i .. j : text[k] \in Arithmetic
    /\ HasOperator(text, i, j) /\ text[i] # "space" /\ text[j] # "space"

\* What is taken for the expression is a piece of the message that neither
\* starts nor ends with a space, made of arithmetic characters with an operator
\* among them, and of the longest pieces of that kind (in bytes) the first.
ExtractsTheLongest ==
    LET text   == ReplaceTimes(message)
        best   == ExtractExpression(text)
        fit    == {p \in (DOMAIN text) \X (DOMAIN text) : Fits(text, p[1], p[2])}
        Longest(p) == \A q \in fit :
            \/ Bytes(text, q[1], q[2]) < Bytes(text, p[1], p[2])
            \/ Bytes(text, q[1], q[2]) = Bytes(text, p[1], p[2]) /\ p[1] <= q[1]
    IN  IF fit = {} THEN best[1] > best[2] ELSE best \in fit /\ Longest(best)

\* No message whose expression could be calculated is passed over by
\* ShouldUse, which looks at the whole message and not at the expression.
CalculableIsCalculated == Call(message).ok => ShouldUse(message)
===============================================================================
