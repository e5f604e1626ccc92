----------------------------- MODULE MCTranslator -----------------------------
(* The syntax trees that TLC translates. *)
EXTENDS Semantics

X == [kind |-> "LOCAL", id |-> 1]
AllVariables == {X}
A == [kind |-> "ARRAY", id |-> 1]
F(n) == [kind |-> "FUNCTION", id |-> n]

Invocation(token, n, args) == Node(token, <<Leaf("NAME", F(n))>> \o args)
Element(index) == Node("INDEX", <<Leaf("NAME", A), index>>)

Leaves == {Leaf("NAME", X), Invocation("FUNC", 1, <<>>)}

\* All expressions with these kids.
Expressions(kids) ==
    {Node(token, <<left, right>>) :
        token \in {"-", "<", "==", "&&", "||"}, left \in kids, right \in kids}
    \cup {Node(token, <<kid>>) : token \in {"!", "NEGATE"}, kid \in kids}
    \cup {Element(kid) : kid \in kids}
    \cup {Invocation("FUNC", 2, <<left, right>>) : left \in kids, right \in kids}

Shallow == Leaves \cup {Leaf("NUM", Number(1)), Node("INT", <<Leaf("NAME", X)>>)}
             \cup Expressions(Leaves)

Deep == Expressions(Shallow)
Assign(expr) == Node("=", <<Leaf("NAME", X), expr>>)
Store(index, expr) == Node("=", <<Element(index), expr>>)
Block(kids) == Node("BLOCK", kids)
Work(n) == Invocation("PROC", n, <<>>)

\* Every expression as a value and as a condition.
ExpressionTrees ==
    {Node("RETURN", <<e>>) : e \in Deep}
    \cup {Node("IF", <<e, Work(3)>>) : e \in Deep}
    \cup {Store(e, f) : e \in Shallow, f \in Shallow}
    \cup {Assign(e) : e \in Shallow}

\* Conditions of loops: each has an event, so that the oracle bounds the loop.
Conditions ==
    LET f == Invocation("FUNC", 1, <<>>)
    IN  {f, Node("!", <<f>>)}
        \cup {Node(token, <<f, Leaf("NAME", X)>>) : token \in {"&&", "||"}}

Simple == {Work(3), Node("RETURN", <<Leaf("NAME", X)>>)}
Step == Assign(Leaf("NUM", Number(1)))

\* All statements with these bodies.
Statements(bodies) ==
    {Node("IF", <<c, b>>) : c \in Conditions, b \in bodies}
    \cup {Node("IF", <<c, b, s>>) : c \in Conditions, b \in bodies, s \in Simple}
    \cup {Node("WHILE", <<c, b>>) : c \in Conditions, b \in bodies}
    \cup {Node("DO", <<b, c>>) : c \in Conditions, b \in bodies}
    \cup {Node("FOR", <<Work(4), c, Step, b>>) : c \in Conditions, b \in bodies}

Flat == Statements(Simple \cup {Block(<<>>)})

StatementTrees ==
    Statements(Flat \cup Simple)
    \cup {Block(<<s, t, Work(5)>>) : s \in Flat, t \in Flat}

AllTrees == ExpressionTrees \cup StatementTrees
=============================================================================
