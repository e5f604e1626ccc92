----------------------------- MODULE MCFlowGraph -----------------------------
(* The lists of statements that TLC builds flowgraphs of: those of translated *)
(* syntax trees, without what does not concern the flow of control.           *)
EXTENDS FlowGraph

T == INSTANCE Translator WITH Trees <- {}, tree <- 0

Simplified(list) ==
    [i \in DOMAIN list |->
        CASE list[i].op = "label" -> Label(list[i].target)
          [] list[i].op \in {"jump", "branch", "return", "null"} ->
                [op |-> list[i].op, id |-> 100 + i, target |-> list[i].target]
          [] OTHER -> [op |-> "act", id |-> 100 + i, target |-> 0]]

X == T!Leaf("NAME", [kind |-> "LOCAL", id |-> 1])
Conditions == {X} \cup {T!Node(token, <<X, X>>) : token \in {"&&", "||"}}
Work == T!Node("PROC", <<T!Leaf("NAME", [kind |-> "FUNCTION", id |-> 1])>>)
Simple == {Work, T!Node("RETURN", <<X>>), T!Node("BLOCK", <<>>)}

Constructs(conditions, bodies, others) ==
    {T!Node("IF", <<c, b>>) : c \in conditions, b \in bodies}
    \cup {T!Node("IF", <<c, b, o>>) : c \in conditions, b \in bodies, o \in others}
    \cup {T!Node("WHILE", <<c, b>>) : c \in conditions, b \in bodies}
    \cup {T!Node("DO", <<b, c>>) : c \in conditions, b \in bodies}

Flat == Constructs(Conditions, Simple, Simple)
Nested == Constructs({X}, Flat, Simple)

Rows == {T!Node("BLOCK", <<a, b, Work>>) :
            a \in Constructs({X}, Simple, {Work}), b \in Constructs({X}, {Work}, {Work})}

FlatPrograms == {Simplified(T!TranslationOf(t)) : t \in Constructs({X}, Flat, {})}
TreePrograms == {Simplified(T!TranslationOf(t)) : t \in Flat \cup Nested \cup Rows}
=============================================================================
