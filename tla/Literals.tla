------------------------------ MODULE Literals ------------------------------
(***************************************************************************)
(* Literals (literal.cpp, string.cpp and the checks of lexer.l).  A text   *)
(* is the sequence of the codes of its characters, and a literal token a   *)
(* string that stands for it, without the quotes.                          *)
(*                                                                         *)
(* The recursive operators are for TLC.                                    *)
(***************************************************************************)
EXTENDS Machine, SequencesExt, TLC

CONSTANTS
    Strings, Characters,    \* literal token |-> its text
    Numbers                 \* number token |-> its value and, as stoul has
                            \* it, its decimal value

Backslash == 92
Quote == 34
Octal == 48..55
Hexadecimal == (48..57) \cup (97..102) \cup (65..70)
IsPrint(c) == c \in 32..126

DigitOf(c) == IF c <= 57 THEN c - 48 ELSE IF c <= 70 THEN c - 55 ELSE c - 87

\* What \a, \b, \f, \n, \r, \t and \v stand for, and the characters that
\* stand for themselves after a backslash.
Named == (97 :> 7) @@ (98 :> 8) @@ (102 :> 12) @@ (110 :> 10) @@ (114 :> 13) @@
         (116 :> 9) @@ (118 :> 11) @@ (92 :> 92) @@ (63 :> 63) @@ (39 :> 39) @@ (34 :> 34)

UCHAR_MAX == 255

\* The longest beginning of a text with only these digits, at most n of them.
Digits(text, digits, n) ==
    LET all == {k \in 0..Len(text) : k <= n /\ \A i \in 1..k : text[i] \in digits}
    IN  SubSeq(text, 1, CHOOSE k \in all : \A j \in all : j <= k)

ValueOf(digits, base) == FoldLeft(LAMBDA v, d : Unsigned(v * base + DigitOf(d)), 0, digits)

Parsed(text, invalid, overflow) == [text |-> text, invalid |-> invalid, overflow |-> overflow]

RECURSIVE ParseString(_)

\* A code in front of the rest of the text.
Before(c, rest, invalid) ==
    LET p == ParseString(rest)
    IN  Parsed(<<c % (UCHAR_MAX + 1)>> \o p.text,
               p.invalid \/ invalid, p.overflow \/ c > UCHAR_MAX)

After(text, n) == SubSeq(text, n + 1, Len(text))

\* The text that is meant by one with escape sequences, and what is wrong
\* with it.
ParseString(text) ==
    IF text = <<>> THEN Parsed(<<>>, FALSE, FALSE)
    ELSE IF text[1] # Backslash THEN Before(text[1], Tail(text), FALSE)
    ELSE IF text[2] \in DOMAIN Named THEN Before(Named[text[2]], After(text, 2), FALSE)
    ELSE IF text[2] = 120
    THEN LET digits == Digits(After(text, 2), Hexadecimal, Len(text))
         IN  IF digits = <<>> THEN Before(120, After(text, 2), TRUE)
             ELSE Before(ValueOf(digits, 16), After(text, 2 + Len(digits)), FALSE)
    ELSE LET digits == Digits(After(text, 1), Octal, 3)
         IN  IF digits = <<>> THEN Before(text[2], After(text, 2), TRUE)
             ELSE Before(ValueOf(digits, 8), After(text, 1 + Len(digits)), FALSE)

\* The digits of a number, without leading zeros.
InBase(c, base) ==
    LET high == c \div (base * base)
        middle == (c \div base) % base
    IN  (IF high > 0 THEN <<48 + high>> ELSE <<>>)
        \o (IF high + middle > 0 THEN <<48 + middle>> ELSE <<>>) \o <<48 + (c % base)>>

\* Mutation: the number of an unprintable character is decimal.
EscapeStringDecimal(text) ==
    FoldLeft(LAMBDA done, c : done \o IF IsPrint(c) THEN <<c>>
                                       ELSE <<Backslash>> \o InBase(c, 10), <<>>, text)

\* A character that is not printable becomes an octal escape sequence; a quote
\* and a backslash stay what they are.
EscapeString(text) ==
    FoldLeft(LAMBDA done, c : done \o IF IsPrint(c) THEN <<c>>
                                       ELSE <<Backslash>> \o InBase(c, 8), <<>>, text)

\* The name of a string literal, which is also its key in the map of literals.
Canonical(token) == EscapeString(ParseString(Strings[token]).text)

\* The symbol of a string literal: one token stands for all with its name.
MakeString(token) == CHOOSE t \in DOMAIN Strings : Canonical(t) = Canonical(token)

\* The number that a character literal is: a char is signed.
CharacterValue(token) ==
    LET c == ParseString(Characters[token]).text[1] IN IF c > 127 THEN c - 256 ELSE c

Wrong(parsed) == parsed.invalid \/ parsed.overflow
WrongCharacter(parsed) == Wrong(parsed) \/ Len(parsed.text) > 1

\* checkNumber and checkString: the literals that the lexer reports.
Bad(token) ==
    \/ token \in DOMAIN Numbers /\ ~InRange(Numbers[token].value)
    \/ token \in DOMAIN Strings /\ Wrong(ParseString(Strings[token]))
    \/ token \in DOMAIN Characters /\ WrongCharacter(ParseString(Characters[token]))

-----------------------------------------------------------------------------
(* The assembler: what it makes of the text of an .asciz directive.        *)

RECURSIVE AssembledText(_)

\* What follows an unescaped quote is not part of the string.
AssembledText(text) ==
    IF text = <<>> \/ text[1] = Quote THEN <<>>
    ELSE IF text[1] # Backslash \/ Len(text) = 1 THEN <<text[1]>> \o AssembledText(Tail(text))
    ELSE LET digits == Digits(After(text, 1), Octal, 3)
         IN  IF digits # <<>>
             THEN <<ValueOf(digits, 8) % (UCHAR_MAX + 1)>> \o AssembledText(After(text, 1 + Len(digits)))
             ELSE <<IF text[2] \in DOMAIN Named \ {97, 118, 63} THEN Named[text[2]] ELSE text[2]>>
                  \o AssembledText(After(text, 2))

\* A text that survives the way to the assembler: it has no quote or backslash,
\* and no digit after a character whose octal number is shorter than three.
Plain(text) ==
    \A i \in DOMAIN text :
        /\ text[i] \notin {Quote, Backslash}
        /\ i < Len(text) /\ text[i + 1] \in Octal => IsPrint(text[i]) \/ text[i] >= 64
=============================================================================
