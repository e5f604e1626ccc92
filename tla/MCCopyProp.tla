------------------------------ MODULE MCCopyProp ------------------------------
(* The functions that TLC propagates copies in.                              *)
EXTENDS CopyProp

AllSymbols == {"x", "y", "z", "g", "t2", "t3", "t4"}

Statement(op, result, reads) == [op |-> op, result |-> result, reads |-> reads]
Copy(x, y) == Statement("copy", x, <<y>>)
Use(x) == Statement("use", None, <<x>>)
Assign(x) == Statement("assign", x, <<x>>)
Invoke(x) == Statement("call", None, <<x>>)
Element(x, t) == <<Statement("index", t, <<x>>), Copy(x, t)>>

\* The temporary of each block.
Temp == <<"", "t2", "t3", "t4">>

\* Blocks with something to propagate, to kill, and to replace.
Contents(t) ==
    {<<>>, <<Copy("x", "y")>>, <<Copy("x", "y"), Use("x")>>, <<Use("x")>>,
     <<Assign("y")>>, <<Assign("x"), Copy("z", "x")>>, <<Copy("y", "x")>>,
     <<Copy("x", "g"), Invoke("x"), Use("x")>>, <<Copy("g", "x"), Use("g")>>,
     Element("x", t) \o <<Use("x")>>}

Few(t) == {<<>>, <<Copy("x", "y")>>, <<Use("x")>>, <<Assign("y")>>, <<Copy("y", "x")>>,
           <<Copy("x", "g"), Invoke("x")>>}

\* The successors of the blocks: if, if and else, while, do.
If == <<{2}, {3, 4}, {4}, {}>>
IfElse == <<{2}, {3, 4}, {5}, {5}, {}>>
While == <<{2}, {3}, {4, 5}, {3}, {}>>
Do == <<{2}, {3}, {3, 4}, {}>>

\* The entry is empty and the exit, after the last statement, reads x.
ProgramsOf(succ, contents(_)) ==
    {[blocks |-> [b \in DOMAIN succ |->
                     CASE b = 1 -> <<>> [] b = Len(succ) -> <<Use("x")>> [] OTHER -> c[b]],
      succ |-> succ, globals |-> {"g"}] :
        c \in {f \in [2..(Len(succ) - 1) -> UNION {contents(Temp[b]) : b \in 2..(Len(succ) - 1)}] :
                  \A b \in DOMAIN f : f[b] \in contents(Temp[b])}}

AllPrograms ==
    ProgramsOf(If, Contents) \cup ProgramsOf(Do, Contents)
    \cup ProgramsOf(IfElse, Few) \cup ProgramsOf(While, Contents)

IfPrograms == ProgramsOf(If, Contents)
=============================================================================
