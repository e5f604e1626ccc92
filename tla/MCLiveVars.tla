------------------------------ MODULE MCLiveVars ------------------------------
(* The flowgraphs that TLC analyses: each block has some statements that     *)
(* concern v, and each branch may read another variable.                     *)
EXTENDS LiveVars

AllVariables == {"v", "w"}
Statement(gen, kill, call) == [gen |-> gen, kill |-> kill, call |-> call]

Def == Statement({}, "v", FALSE)
Use == Statement({"v"}, None, FALSE)
Invoke == Statement({}, None, TRUE)
Result == Statement({}, "v", TRUE)
Increment == Statement({"v"}, "v", FALSE)

\* The successors of the blocks: straight code, if, if and else, while, do, an
\* if and a do in a while, a while and a do in one of their kind.
Straight == <<<<2>>, <<3>>, <<>>>>
If == <<<<2>>, <<3, 4>>, <<4>>, <<>>>>
IfElse == <<<<2>>, <<3, 4>>, <<5>>, <<5>>, <<>>>>
While == <<<<2>>, <<3>>, <<4, 5>>, <<3>>, <<>>>>
Do == <<<<2>>, <<3>>, <<4, 3>>, <<>>>>
IfInWhile == <<<<2>>, <<3, 6>>, <<4, 5>>, <<5>>, <<2>>, <<>>>>
DoInWhile == <<<<2>>, <<3, 5>>, <<4, 3>>, <<2>>, <<>>>>
WhileInWhile == <<<<2>>, <<3, 6>>, <<4, 5>>, <<3>>, <<2>>, <<>>>>
DoInDo == <<<<2>>, <<3>>, <<4, 3>>, <<5, 2>>, <<>>>>

\* Code after a return, an if and else that both return with code after them,
\* and a loop without an end, by itself and with code after it.
AfterReturn == <<<<2>>, <<4>>, <<4>>, <<>>>>
AfterReturns == <<<<2>>, <<3, 4>>, <<6>>, <<6>>, <<6>>, <<>>>>
Endless == <<<<2>>, <<2>>, <<>>>>
AfterEndless == <<<<2>>, <<3>>, <<2>>, <<5>>, <<>>>>

\* The entry and the exit are empty; others end with what their branch reads.
GraphsOf(succ, contents, conditions, globals) ==
    LET n == Len(succ)
        inside == 2..(n - 1)
        list(c, r, b) ==
            IF b \notin inside THEN <<>>
            ELSE c[b] \o (IF Len(succ[b]) = 2 /\ r # {} THEN <<Statement(r, None, FALSE)>> ELSE <<>>)
    IN  {[blocks |-> [b \in 1..n |-> list(c, r, b)], succ |-> succ, globals |-> g] :
            c \in [inside -> contents], r \in conditions, g \in globals}

Few == {<<>>, <<Def>>, <<Use>>, <<Increment>>, <<Use, Def>>}
Many == Few \cup {<<Def, Use>>, <<Invoke>>, <<Result>>, <<Def, Def>>, <<Def, Invoke, Def>>}

AllGraphs ==
    UNION {GraphsOf(s, Many, {{}, {"w"}}, {{}, {"v"}}) : s \in {Straight, If, While, Do, Endless}}
    \cup UNION {GraphsOf(s, Many, {{"w"}}, {{}, {"v"}}) : s \in {IfElse, AfterReturn}}
    \cup UNION {GraphsOf(s, Few, {{}, {"w"}}, {{}, {"v"}}) :
                   s \in {DoInWhile, DoInDo, AfterEndless}}
    \cup UNION {GraphsOf(s, Few \ {<<Use, Def>>}, {{}, {"w"}}, {{}, {"v"}}) :
                   s \in {IfInWhile, WhileInWhile, AfterReturns}}

WhileGraphs == GraphsOf(While, Few, {{}}, {{}})
=============================================================================
