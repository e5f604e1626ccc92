----------------------------- MODULE MCLocalOpts -----------------------------
(* The lists of statements that TLC rewrites.                                *)
EXTENDS LocalOpts

Variable(name, scope, type) == [kind |-> "VAR", name |-> name, scope |-> scope, type |-> type]
A == Variable("a", 1, "int")
B == Variable("b", 1, "int")
G == Variable("g", 0, "int")
X == Variable("x", 1, "int")
InnerX == Variable("x", 2, "int")
C == Variable("c", 1, "char")
T(n) == Variable(<<"t1", "t2", "t3">>[n], 1, "int")
N(value) == Number(value, 0)
Octal(digits) == [N(digits) EXCEPT !.octal = TRUE]

\* The parts that a statement does not have are filled with a.
Empty(op) == [line |-> 0, op |-> op, test |-> "", result |-> A, left |-> A, right |-> A, target |-> 0]
Binary(t, l, test, r) == [Empty("binary") EXCEPT !.result = t, !.left = l, !.test = test, !.right = r]
Copy(r, l) == [Empty("copy") EXCEPT !.result = r, !.left = l, !.right = l]
Negate(r, l) == [Empty("negate") EXCEPT !.result = r, !.left = l]
Call(r, l) == [Empty("call") EXCEPT !.result = r, !.left = l]
Branch(l, test, r, target) == [Empty("branch") EXCEPT !.left = l, !.test = test, !.right = r, !.target = target]
Jump(target) == [Empty("jump") EXCEPT !.target = target]
Label(target) == [Empty("label") EXCEPT !.target = target]

Listed(list) == [i \in DOMAIN list |-> [list[i] EXCEPT !.line = i]]

Least5 == N(-16)

\* One expression, of each kind, whose value is then used.
Expressions ==
    {<<Binary(T(1), l, test, r), Call(T(2), T(1))>> :
        test \in Tests, l, r \in {A, N(0), N(1), N(-1), N(7), N(11), Least5}}
    \cup {<<Binary(T(1), l, test, r), Call(T(2), T(1))>> :
            test \in Tests, l \in {A, N(0), N(1), N(7)}, r \in {Octal(0), Octal(1)}}
    \cup {<<Binary(T(1), A, test, Octal(10)), Binary(T(2), r, test, l), Call(T(3), T(1)), Call(T(3), T(2))>> :
            test \in Tests, l \in {A, B}, r \in {A, Octal(10), N(8), N(10)}}

\* A branch to the end.
Branches ==
    {<<Branch(l, test, r, 1), Call(T(1), A), Label(1), Call(T(2), B)>> :
        test \in Comparisons, l, r \in {A, B, N(0), N(1), N(7)}}

\* What is between two expressions; a branch leaves the function.
Between ==
    {<<>>, <<Copy(A, B)>>, <<Copy(A, T(1))>>, <<Copy(G, A)>>, <<Copy(A, N(0)), Copy(B, N(0))>>,
     <<Call(T(3), A)>>, <<Copy(B, G), Call(T(3), G)>>, <<Branch(A, "<", B, 1)>>,
     <<Copy(C, N(1)), Copy(InnerX, N(2))>>}

Repeats ==
    {<<Binary(T(1), l1, test1, r1)>> \o m \o
     <<Binary(T(2), l2, test2, r2), Copy(X, T(2)), Call(T(3), X)>> :
        test1, test2 \in {"+", "<", ">"}, m \in Between,
        l1, r1 \in {A, G}, l2, r2 \in {A, B, G}}
    \cup {<<Binary(T(1), A, test, B)>> \o m \o <<Binary(T(2), l, test, r), Copy(X, T(2))>> :
            test \in Tests \ {"%"}, m \in Between, l, r \in {A, B}}

Straight == {Listed(p) : p \in Expressions \cup Branches \cup Repeats}

\* if (a) { x = a + b; g(x); } y = a + b;
Joined ==
    {Listed(<<Branch(A, "==", N(0), 1), Binary(T(1), A, "+", B), Copy(X, T(1)), Call(T(3), X),
              Label(1), Binary(T(2), A, "+", B), Copy(B, T(2))>>)}

\* x = (a && b) == g; y = 0 == g;
Conjunctions ==
    {Listed(<<Branch(A, "==", N(0), 1), Branch(B, "==", N(0), 1),
              Copy(T(1), N(1)), Jump(2), Label(1), Copy(T(1), N(0)), Label(2),
              Binary(T(2), T(1), "==", G), Copy(X, T(2)),
              Binary(T(3), N(0), "==", G), Copy(B, T(3))>>)}

\* The lists without joins have nothing that the code is known to get wrong.
ASSUME StraightIsUnharmed ==
    \A list \in Straight :
        NamesApart(list, VariablesOf(list)) /\ OctalsPlain(list) /\ CharactersFit(list) /\ JoinsUnnumbered(list)

Joins == Joined \cup Conjunctions

Env(a, b, g, other, called) == [a |-> a, b |-> b, g |-> g, other |-> other, called |-> called]
SomeEnvironments ==
    {Env(0, 0, 0, 3, 5), Env(1, 2, 7, 9, 4), Env(-16, 15, 3, 8, -2), Env(7, 7, -1, 2, 0),
     Env(5, 3, 5, 0, 3), Env(2, 0, 0, 6, 1)}
=============================================================================
