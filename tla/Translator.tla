------------------------------ MODULE Translator ------------------------------
(***************************************************************************)
(* The translation of a syntax tree into three-address statements          *)
(* (translator.cpp).  A node is a record with its token, its kids and, for *)
(* a leaf, its symbol; a symbol is a record with its kind and a number.    *)
(*                                                                         *)
(* The two functions of the source, test and generate, append to the list  *)
(* of statements, create labels and temporaries and set the symbol of the  *)
(* node: what they change is the record t that Test and Generate map to    *)
(* the next one.                                                           *)
(***************************************************************************)
EXTENDS Integers, SequencesExt

CONSTANT Trees      \* the syntax trees that are translated

VARIABLES tree, stmts

vars == <<tree, stmts>>

-----------------------------------------------------------------------------
(* Symbols, nodes and statements.                                          *)

NoSymbol == [kind |-> "none", id |-> 0]

Node(token, kids) == [token |-> token, kids |-> kids, symbol |-> NoSymbol]
Leaf(token, symbol) == [token |-> token, kids |-> <<>>, symbol |-> symbol]

Number(n) == [kind |-> "NUM", id |-> n]
Temp(n) == [kind |-> "TEMP", id |-> n]

\* The result of && and ||: a temporary that is made a local variable.
Logical(n) == [kind |-> "LOCAL TEMP", id |-> n]

Statement(op, token, result, operands, target) ==
    [op |-> op, token |-> token, result |-> result,
     operands |-> operands, target |-> target]

Label(l) == Statement("label", "", NoSymbol, <<>>, l)
Null == Statement("null", "", NoSymbol, <<>>, 0)
Jump(l) == Statement("jump", "", NoSymbol, <<>>, l)
Branch(token, left, right, l) == Statement("branch", token, NoSymbol, <<left, right>>, l)
Return(s) == Statement("return", "", NoSymbol, <<s>>, 0)
Copy(to, from) == Statement("copy", "", to, <<from>>, 0)
Unary(token, result, s) == Statement("unary", token, result, <<s>>, 0)
Binary(token, result, left, right) == Statement("binary", token, result, <<left, right>>, 0)
Index(result, array, index) == Statement("index", "", result, <<array, index>>, 0)
Update(array, index, s) == Statement("update", "", NoSymbol, <<array, index, s>>, 0)
Call(result, function, args) == Statement("call", "", result, <<function>> \o args, 0)

Relations == {"==", "!=", "<", ">", "<=", ">="}

\* Mutation: a strict comparison is taken for the inverse of a strict one.
InversesStrict == ("==" :> "!=") @@ ("!=" :> "==") @@ ("<" :> ">") @@
                  (">" :> "<") @@ ("<=" :> ">") @@ (">=" :> "<")

Inverses == ("==" :> "!=") @@ ("!=" :> "==") @@ ("<" :> ">=") @@
            (">" :> "<=") @@ ("<=" :> ">") @@ (">=" :> "<")

-----------------------------------------------------------------------------
(* What is emitted and created on the way.                                 *)

Start == [stmts |-> <<>>, labels |-> 1, temps |-> 0, symbol |-> NoSymbol]

Emit(t, s) == [t EXCEPT !.stmts = Append(@, s)]

\* Mutations: a label or a temporary is created twice; the result of && and ||
\* is left a temporary.
NewLabelAgain(t) == t
NewTempAgain(t) == [t EXCEPT !.symbol = Temp(t.temps)]
NewLogicalTemp(t) == [t EXCEPT !.temps = @ + 1, !.symbol = Temp(t.temps)]

\* The label that is created is the one with number t.labels.
NewLabel(t) == [t EXCEPT !.labels = @ + 1]

NewTemp(t) == [t EXCEPT !.temps = @ + 1, !.symbol = Temp(t.temps)]
NewLogical(t) == [t EXCEPT !.temps = @ + 1, !.symbol = Logical(t.temps)]

RECURSIVE Test(_, _, _, _), Generate(_, _)

\* The code that branches to the target if the node is, or is not, true.
Test(t, node, target, ifTrue) ==
    CASE node.token = "!" -> Test(t, node.kids[1], target, ~ifTrue)
      [] node.token \in Relations ->
            LET a == Generate(t, node.kids[1])
                b == Generate(a, node.kids[2])
                token == IF ifTrue THEN node.token ELSE Inverses[node.token]
            IN  Emit(b, Branch(token, a.symbol, b.symbol, target))
      [] node.token = "&&" ->
            LET skip == IF ifTrue THEN t.labels ELSE target
                a == Test(IF ifTrue THEN NewLabel(t) ELSE t, node.kids[1], skip, FALSE)
                b == Test(a, node.kids[2], target, ifTrue)
            IN  IF ifTrue THEN Emit(b, Label(skip)) ELSE b
      [] node.token = "||" ->
            LET skip == IF ifTrue THEN target ELSE t.labels
                a == Test(IF ifTrue THEN t ELSE NewLabel(t), node.kids[1], skip, TRUE)
                b == Test(a, node.kids[2], target, ifTrue)
            IN  IF ifTrue THEN b ELSE Emit(b, Label(skip))
      [] OTHER ->
            LET a == Generate(t, node)
            IN  Emit(a, Branch(IF ifTrue THEN "!=" ELSE "==", a.symbol, Number(0), target))

If(t, condition, then, else) ==
    LET skip == t.labels
        a == Generate(Test(NewLabel(t), condition, skip, FALSE), then)
        b == Generate(Emit(Emit(NewLabel(a), Jump(a.labels)), Label(skip)), else[1])
    IN  IF else = <<>> THEN Emit(a, Label(skip)) ELSE Emit(b, Label(a.labels))

\* for (init; condition; step) body; a while loop has neither init nor step.
Loop(t, condition, body) ==
    LET loop == t.labels
        exit == t.labels + 1
        a == Test(Emit(NewLabel(NewLabel(t)), Label(loop)), condition, exit, FALSE)
    IN  Emit(Emit(FoldLeft(Generate, a, body), Jump(loop)), Label(exit))

Do(t, body, condition) ==
    LET a == Generate(Emit(NewLabel(t), Label(t.labels)), body)
    IN  Test(a, condition, t.labels, TRUE)

Assignment(t, left, right) ==
    LET a == Generate(t, right)
        b == Generate(a, left.kids[2])
    IN  IF left.token = "INDEX"
        THEN Emit(b, Update(left.kids[1].symbol, b.symbol, a.symbol))
        ELSE Emit(a, Copy(left.symbol, a.symbol))

\* The arguments are evaluated from the first to the last.
FunctionCall(t, function, kids, returns) ==
    LET Argument(a, kid) == LET b == Generate(a.t, kid)
                            IN  [t |-> b, args |-> Append(a.args, b.symbol)]
        a == FoldLeft(Argument, [t |-> t, args |-> <<>>], kids)
        b == IF returns THEN NewTemp(a.t) ELSE [a.t EXCEPT !.symbol = NoSymbol]
    IN  Emit(b, Call(b.symbol, function, a.args))

\* The value of && and ||: both kids branch to the target if they decide it.
LogicalValue(t, node) ==
    LET target == t.labels
        skip == t.labels + 1
        decides == node.token = "||"
        a == Test(NewLabel(NewLabel(t)), node.kids[1], target, decides)
        b == NewLogical(Test(a, node.kids[2], target, decides))
        c == Emit(Emit(b, Copy(b.symbol, Number(IF decides THEN 0 ELSE 1))), Jump(skip))
    IN  Emit(Emit(Emit(c, Label(target)),
                  Copy(b.symbol, Number(IF decides THEN 1 ELSE 0))), Label(skip))

\* The code that computes the node, and its symbol.
Generate(t, node) ==
    CASE node.token = "BLOCK" -> FoldLeft(Generate, t, node.kids)
      [] node.token = "IF" ->
            If(t, node.kids[1], node.kids[2], SubSeq(node.kids, 3, Len(node.kids)))
      [] node.token = "FOR" ->
            Loop(Generate(t, node.kids[1]), node.kids[2], <<node.kids[4], node.kids[3]>>)
      [] node.token = "WHILE" -> Loop(t, node.kids[1], <<node.kids[2]>>)
      [] node.token = "DO" -> Do(t, node.kids[1], node.kids[2])
      [] node.token = "RETURN" ->
            LET a == Generate(t, node.kids[1])
            IN  Emit(Emit(NewLabel(a), Return(a.symbol)), Label(a.labels))
      [] node.token = "=" -> Assignment(t, node.kids[1], node.kids[2])
      [] node.token = "INDEX" ->
            LET a == Generate(t, node.kids[1])
                b == Generate(a, node.kids[2])
                c == NewTemp(b)
            IN  Emit(c, Index(c.symbol, a.symbol, b.symbol))
      [] node.token \in {"FUNC", "PROC"} ->
            FunctionCall(t, node.kids[1].symbol, Tail(node.kids), node.token = "FUNC")
      [] node.token \in {"!", "NEGATE", "INT"} ->
            LET a == Generate(t, node.kids[1])
                b == NewTemp(a)
            IN  Emit(b, IF node.token = "!"
                        THEN Binary("==", b.symbol, a.symbol, Number(0))
                        ELSE Unary(node.token, b.symbol, a.symbol))
      [] node.token \in Relations \cup {"+", "-", "*", "/", "%"} ->
            LET a == Generate(t, node.kids[1])
                b == Generate(a, node.kids[2])
                c == NewTemp(b)
            IN  Emit(c, Binary(node.token, c.symbol, a.symbol, b.symbol))
      [] node.token \in {"&&", "||"} -> LogicalValue(t, node)
      [] OTHER -> [t EXCEPT !.symbol = node.symbol]       \* a name or a literal

TranslationOf(node) ==
    LET a == FoldLeft(Emit, NewLabel(NewLabel(Start)), <<Label(1), Null, Label(2)>>)
        b == Generate(a, node)
    IN  Emit(b, Label(b.labels)).stmts

Init == tree \in Trees /\ stmts = <<>>

Translate == stmts = <<>> /\ stmts' = TranslationOf(tree) /\ UNCHANGED tree

Next == Translate

Spec == Init /\ [][Next]_vars
=============================================================================
