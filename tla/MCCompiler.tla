------------------------------ MODULE MCCompiler ------------------------------
(* The translation units that TLC compiles: families that each vary one part *)
(* of the language.                                                          *)
EXTENDS Compiler

AllNames == {"a", "b", "c", "f", "g", "h", "printf"}

\* Integers have 12 bits: an array of 1024 integers has a size that wraps.
AllNumbers == ("0" :> [value |-> 0, decimal |-> 0]) @@ ("1" :> [value |-> 1, decimal |-> 1])
              @@ ("2" :> [value |-> 2, decimal |-> 2]) @@ ("3" :> [value |-> 3, decimal |-> 3])
              @@ ("010" :> [value |-> 8, decimal |-> 10]) @@ ("1024" :> [value |-> 1024, decimal |-> 1024])
              @@ ("4000" :> [value |-> 4000, decimal |-> 4000])

\* "s", "s" as "\x73", newline as "\n" and as "\012", a quote, a backslash in
\* front of an n, the octal number of newline after a backslash, the character
\* 1 in front of a 2, "\377", and two that are wrong: "\q" and "\400".
AllStrings ==
    ("s" :> <<115>>) @@ ("x73" :> <<92, 120, 55, 51>>) @@ ("nl" :> <<92, 110>>)
    @@ ("012" :> <<92, 48, 49, 50>>) @@ ("quote" :> <<92, 34>>) @@ ("slash" :> <<92, 92, 110>>)
    @@ ("slash12" :> <<92, 92, 49, 50>>) @@ ("1-2" :> <<92, 48, 48, 49, 50>>)
    @@ ("377" :> <<92, 51, 55, 55>>) @@ ("q" :> <<92, 113>>) @@ ("400" :> <<92, 52, 48, 48>>)

\* 'A', '\377', and two characters.
AllCharacters == ("'A'" :> <<65>>) @@ ("'377'" :> <<92, 51, 55, 55>>) @@ ("'AA'" :> <<65, 65>>)

-----------------------------------------------------------------------------
Name(n) == Term("name", n, <<>>)
Num(n) == Term("number", n, <<>>)
Str(s) == Term("string", s, <<>>)
Char(c) == Term("character", c, <<>>)
Call(f, args) == Term("call", f, args)
Do(f, args) == Term("proc", f, args)
Index(a, e) == Term("index", a, <<e>>)
Op(o, l, r) == Term(o, "none", <<l, r>>)
Not(e) == Term("not", "none", <<e>>)
Negate(e) == Term("negate", "none", <<e>>)
Set(l, r) == Term("=", "none", <<l, r>>)
Return(e) == Term("return", "none", <<e>>)
Block(list) == Term("block", "none", list)
If(e, s) == Term("if", "none", <<e, s>>)
IfElse(e, s, t) == Term("if", "none", <<e, s, t>>)
While(e, s) == Term("while", "none", <<e, s>>)
DoWhile(s, e) == Term("do", "none", <<s, e>>)
For(i, e, n, s) == Term("for", "none", <<i, e, n, s>>)

NoLocals == <<>>
A == Name("a")
B == Name("b")

-----------------------------------------------------------------------------
(* Expressions: every two operators, next to and inside each other, and      *)
(* three of different levels.                                                *)

BinaryOperators == UNION {Operators[k] : k \in DOMAIN Operators}
Apart == {"*", "-", "<", "==", "&&", "||"}

Pairs == UNION {{Op(o, Op(q, A, B), Num("1")), Op(o, Num("1"), Op(q, A, B))} :
                   o \in BinaryOperators, q \in BinaryOperators}
Triples == UNION {{Op(o, Op(q, A, B), Op(r, B, A)), Op(o, A, Op(q, B, Op(r, A, B))),
                   Op(o, Op(q, Op(r, A, B), A), B), Op(o, Op(q, A, Op(r, B, A)), B),
                   Op(o, A, Op(q, Op(r, B, A), B))} : o \in Apart, q \in Apart, r \in Apart}
Unaries == UNION {{Negate(Op(o, A, B)), Op(o, Negate(A), B), Op(o, A, Negate(B)),
                   Not(Op(o, A, B)), Op(o, Not(A), B), Op(o, A, Not(B))} : o \in BinaryOperators}
           \cup {Negate(Negate(A)), Not(Negate(A)), Negate(Not(B)), Char("'377'"), Char("'AA'")}
Nested == UNION {{Index("c", e), Call("g", <<e, e>>), Call("f", <<e, e, Name("c")>>), Negate(Index("c", e))} :
                    e \in {A, B, Op("+", A, B), Index("c", A), Call("g", <<>>), Call("g", <<A, B>>)}}

Returning(e) ==
    <<Function("int", "f", <<Param("int", "a", FALSE), Param("char", "b", FALSE), Param("int", "c", TRUE)>>,
               NoLocals, <<Return(e)>>)>>

Expressions == {Returning(e) : e \in Pairs \cup Triples \cup Unaries \cup Nested}

-----------------------------------------------------------------------------
(* Statements: every one inside every other, in each of its parts.           *)

Small == {Set(A, Num("1")), Block(<<>>)}

Around(s) ==
    {Block(<<s>>), Block(<<s, Return(A)>>), If(A, s), While(Op("<", A, B), s), DoWhile(s, A),
     For(Set(A, Num("0")), A, Do("g", <<B>>), s)}
    \cup {IfElse(A, Set(B, A), s)} \cup (IF Closed(s) THEN {IfElse(Not(A), s, Return(B))} ELSE {})

Once == UNION {Around(s) : s \in Small}
Twice == UNION {Around(s) : s \in Once}

Statements1 ==
    {<<Function("int", "f", <<Param("int", "a", FALSE), Param("char", "b", FALSE)>>, NoLocals, <<s, Return(A)>>)>> :
        s \in Once \cup Twice \cup UNION {Around(s) : s \in {t \in Twice : t.token = "if"}}}

-----------------------------------------------------------------------------
(* Names: a name declared globally, locally or both, in every way, and used  *)
(* in every way, by this function or a later one.                            *)

Global(n) ==
    {<<>>} \cup {<<Variables(s, <<Variable(n, l)>>)>> : s \in {"int", "char"}, l \in {"none", "2"}}
    \cup {<<Function("char", n, <<Param("int", "b", FALSE)>>, NoLocals, <<>>)>>}

\* Parameters and local variables.
Local(n) ==
    {[params |-> <<>>, locals |-> NoLocals]}
    \cup {[params |-> <<Param(s, n, x)>>, locals |-> NoLocals] : s \in {"int", "char"}, x \in BOOLEAN}
    \cup {[params |-> <<>>, locals |-> <<Variables("char", <<Simple("b"), Variable(n, l)>>)>>] : l \in {"none", "2"}}

Uses(n) ==
    {Set(Name(n), Num("1")), Set(Index(n, Num("1")), Num("2")), Do(n, <<>>), Do(n, <<Num("1")>>),
     Return(Name(n)), Return(Index(n, Name(n))), Return(Call(n, <<Num("1"), Str("s")>>)), Do("g", <<Name(n)>>),
     Do("h", <<Name(n), Num("1")>>), Do("h", <<Str("s"), Num("1")>>), Do("h", <<Name(n), Name(n)>>)}

Taking == Function("int", "h", <<Param("char", "a", TRUE), Param("int", "b", FALSE)>>, NoLocals, <<>>)
TakingScalars == Function("int", "h", <<Param("char", "a", FALSE), Param("int", "b", FALSE)>>, NoLocals, <<>>)

Using(f, l, list) == Function("int", f, l.params, l.locals, list)

Scoping ==
    {d \o <<Using("f", l, <<u>>)>> : d \in Global("a"), l \in Local("a"), u \in Uses("a")}
    \cup {<<h>> \o d \o <<Using("f", l, <<u>>)>> :
             h \in {Taking, TakingScalars}, d \in Global("a"), l \in Local("a"), u \in {v \in Uses("a") : v.name = "h"}}
    \cup {<<Using("f", l, <<u>>)>> \o d \o <<Using("g", [params |-> <<>>, locals |-> NoLocals], <<v>>)>> :
             l \in {[params |-> <<>>, locals |-> NoLocals], [params |-> <<Param("int", "a", FALSE)>>, locals |-> NoLocals]},
             u \in {Do("a", <<>>), Return(Name("a"))}, d \in Global("a"),
             v \in {Do("a", <<Num("1")>>), Return(Name("a"))}}

\* Names that are declared twice, and lengths that are wrong or read as decimal.
Twofold ==
    {<<Variables("int", <<Simple("a"), Variable(n, l)>>), Using("f", [params |-> <<Param("int", "b", FALSE)>>,
       locals |-> <<Variables("int", <<Variable(m, k)>>)>>], <<Set(A, B)>>)>> :
        n \in {"a", "b", "f"}, l \in {"none", "0", "010"}, m \in {"a", "b", "c", "f"}, k \in {"none", "0", "4000"}}

-----------------------------------------------------------------------------
(* Frames: parameters, local variables and calls of all sizes.               *)

SomeParams == {<<>>, <<Param("char", "a", FALSE), Param("int", "b", FALSE)>>, <<Param("char", "a", TRUE)>>}
SomeLocals == {<<>>} \cup
    {<<Variables(s, <<Variable("c", l)>>), Variables(t, <<Variable("g", k)>>)>> :
        s \in {"int", "char"}, t \in {"int", "char"}, l \in {"none", "3", "1024"}, k \in {"none", "2"}}
SomeArguments == {<<>>, <<Num("1")>>, <<Num("1"), Num("2"), Num("3"), Num("1"), Num("2")>>}

Framing ==
    {<<Function("int", "f", p1, l1, <<Do("printf", x), Do("printf", y)>>),
       Function("char", "h", <<Param("int", "a", FALSE)>>, <<Variables("char", <<Variable("b", "3")>>)>>,
                <<Return(Call("f", SubSeq(<<Num("1"), Num("2")>>, 1, Len(p1))))>>)>> :
        p1 \in SomeParams \ {<<Param("char", "a", TRUE)>>}, l1 \in SomeLocals,
        x \in SomeArguments, y \in SomeArguments}
    \cup {<<Function("int", "f", p1, l1, <<Return(Num("1"))>>)>> : p1 \in SomeParams, l1 \in SomeLocals}

-----------------------------------------------------------------------------
(* Literals: any two or three strings, in one call or in several.            *)

Printing ==
    {<<Function("int", "f", <<>>, NoLocals, <<Do("printf", <<Str(s), Str(t)>>), Do("printf", <<Str(u)>>)>>)>> :
        s \in DOMAIN AllStrings, t \in DOMAIN AllStrings, u \in {"s", "nl", "377"}}
    \cup {<<Function("int", "f", <<>>, NoLocals, <<Do("printf", <<Str(s)>>)>>),
            Function("int", "g", <<>>, NoLocals, <<Do("f", <<>>), Do("printf", <<Call("h", <<Str(t)>>), Str(s)>>)>>)>> :
             s \in {"s", "nl", "q"}, t \in DOMAIN AllStrings}

AllPrograms == Expressions \cup Statements1 \cup Scoping \cup Twofold \cup Framing \cup Printing
=============================================================================
