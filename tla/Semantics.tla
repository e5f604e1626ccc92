------------------------------- MODULE Semantics -------------------------------
(***************************************************************************)
(* What a syntax tree means and what its three-address statements do: the  *)
(* reference the translator is checked against.                            *)
(*                                                                         *)
(* An environment e is a run so far: the values of the variables, the      *)
(* events (calls, and reads and writes of array elements) in their order,  *)
(* the oracle that says what the next of them return, and the value of the *)
(* last expression.  A run stops where the oracle ends, which bounds it.   *)
(***************************************************************************)
EXTENDS Translator, FiniteSets

CONSTANTS
    Variables,      \* the variables of the trees, which are symbols
    Values,         \* what they contain at the start, and what events return
    MaxEvents       \* bound: the events of a run

\* What is read where nothing has been written.
Junk == 77

Inputs ==
    [vars : [Variables -> Values], oracle : [1..MaxEvents -> Values],
     events : {<<>>}, status : {"running"}, value : {0}]

Event(e, event) ==
    IF e.oracle = <<>> THEN [e EXCEPT !.status = "stopped"]
    ELSE [e EXCEPT !.events = Append(@, event),
                   !.value = Head(e.oracle), !.oracle = Tail(@)]

Write(e, s, value) == [e EXCEPT !.vars = (s :> value) @@ @]

Read(e, s) ==
    IF s.kind = "NUM" THEN s.id
    ELSE IF s \in DOMAIN e.vars THEN e.vars[s] ELSE Junk

Truth(b) == IF b THEN 1 ELSE 0

Apply(token, a, b) ==
    CASE token = "+"  -> a + b
      [] token = "-"  -> a - b
      [] token = "==" -> Truth(a = b)
      [] token = "!=" -> Truth(a # b)
      [] token = "<"  -> Truth(a < b)
      [] token = ">"  -> Truth(a > b)
      [] token = "<=" -> Truth(a <= b)
      [] token = ">=" -> Truth(a >= b)

-----------------------------------------------------------------------------
(* The tree: kids are evaluated from left to right, && and || only as far  *)
(* as they have to be.                                                     *)

RECURSIVE Eval(_, _), Repeat(_, _, _)

Yields(e, value) == [e EXCEPT !.value = value]

\* The values of some nodes, one after the other.
Evaluated(e, nodes) ==
    LET One(a, node) == LET b == Eval(a.e, node)
                        IN  [e |-> b, values |-> Append(a.values, b.value)]
    IN  FoldLeft(One, [e |-> e, values |-> <<>>], nodes)

\* while (condition) body
Repeat(e, condition, body) ==
    LET a == Eval(e, condition)
    IN  IF a.status # "running" \/ a.value = 0 THEN a
        ELSE Repeat(FoldLeft(Eval, a, body), condition, body)

Eval(e, node) ==
    LET kid(i) == node.kids[i]
        a == Eval(e, kid(1))
        both == Evaluated(e, node.kids)
        args == Evaluated(e, Tail(node.kids))
    IN
    CASE e.status # "running" -> e
      [] node.token = "BLOCK" -> FoldLeft(Eval, e, node.kids)
      [] node.token = "IF" ->
            IF a.value # 0 THEN Eval(a, kid(2))
            ELSE IF Len(node.kids) = 3 THEN Eval(a, kid(3)) ELSE a
      [] node.token = "FOR" -> Repeat(a, kid(2), <<kid(4), kid(3)>>)
      [] node.token = "WHILE" -> Repeat(e, kid(1), <<kid(2)>>)
      [] node.token = "DO" -> Repeat(a, kid(2), <<kid(1)>>)
      [] node.token = "RETURN" ->
            IF a.status = "running" THEN [a EXCEPT !.status = "returned"] ELSE a
      [] node.token = "=" /\ kid(1).token = "INDEX" ->
            LET u == Evaluated(e, <<kid(2), kid(1).kids[2]>>)
            IN  IF u.e.status # "running" THEN u.e
                ELSE Event(u.e, <<"update", kid(1).kids[1].symbol, u.values[2], u.values[1]>>)
      [] node.token = "=" ->
            LET u == Eval(e, kid(2))
            IN  IF u.status # "running" THEN u ELSE Write(u, kid(1).symbol, u.value)
      [] node.token = "INDEX" ->
            LET u == Eval(e, kid(2))
            IN  IF u.status # "running" THEN u
                ELSE Event(u, <<"index", kid(1).symbol, u.value>>)
      [] node.token \in {"FUNC", "PROC"} ->
            IF args.e.status # "running" THEN args.e
            ELSE Event(args.e, <<"call", kid(1).symbol, args.values>>)
      [] node.token = "!" -> Yields(a, Truth(a.value = 0))
      [] node.token = "NEGATE" -> Yields(a, 0 - a.value)
      [] node.token = "INT" -> a
      [] node.token = "&&" ->
            IF a.value = 0 THEN a
            ELSE LET b == Eval(a, kid(2)) IN Yields(b, Truth(b.value # 0))
      [] node.token = "||" ->
            IF a.value # 0 THEN Yields(a, 1)
            ELSE LET b == Eval(a, kid(2)) IN Yields(b, Truth(b.value # 0))
      [] node.token \in {"NAME", "NUM"} -> Yields(e, Read(e, node.symbol))
      [] OTHER -> Yields(both.e, Apply(node.token, both.values[1], both.values[2]))

-----------------------------------------------------------------------------
(* The statements.                                                         *)

\* What statement s does when it does not transfer control.
Effect(e, s) ==
    LET value == [i \in DOMAIN s.operands |-> Read(e, s.operands[i])]
        Result(a) ==
            IF a.status # "running" \/ s.result = NoSymbol THEN a
            ELSE Write(a, s.result, a.value)
    IN
    CASE s.op = "copy"   -> Write(e, s.result, value[1])
      [] s.op = "unary"  -> Write(e, s.result, IF s.token = "INT" THEN value[1] ELSE 0 - value[1])
      [] s.op = "binary" -> Write(e, s.result, Apply(s.token, value[1], value[2]))
      [] s.op = "index"  -> Result(Event(e, <<"index", s.operands[1], value[2]>>))
      [] s.op = "update" -> Event(e, <<"update", s.operands[1], value[2], value[3]>>)
      [] s.op = "call"   -> Result(Event(e, <<"call", s.operands[1], Tail(value)>>))
      [] s.op = "return" -> [e EXCEPT !.status = "returned", !.value = value[1]]
      [] OTHER -> e

Transfers(e, s) ==
    \/ s.op = "jump"
    \/ s.op = "branch" /\ Apply(s.token, Read(e, s.operands[1]), Read(e, s.operands[2])) # 0

Place(list, l) == CHOOSE i \in DOMAIN list : list[i].op = "label" /\ list[i].target = l

RECURSIVE Run(_, _, _)
Run(e, list, i) ==
    IF e.status # "running" \/ i > Len(list) THEN e
    ELSE Run(Effect(e, list[i]), list,
             IF Transfers(e, list[i]) THEN Place(list, list[i].target) ELSE i + 1)

\* What can be seen of a run.
Outcome(e) ==
    [events |-> e.events, status |-> e.status,
     value |-> IF e.status = "returned" THEN e.value ELSE 0,
     vars |-> [s \in Variables |-> e.vars[s]]]

-----------------------------------------------------------------------------
(* Properties.                                                             *)

Translated == stmts # <<>>

\* The statements do what the tree means, whatever the variables contain and
\* the calls return: the same calls and accesses to arrays with the same
\* values in the same order, the same variables and the same result.
TranslationCorrect ==
    Translated => \A e \in Inputs : Outcome(Run(e, stmts, 1)) = Outcome(Eval(e, tree))

\* Every label that is created is placed once, so every transfer has a target.
LabelsPlacedOnce ==
    LET places == [l \in {stmts[i].target : i \in DOMAIN stmts} \ {0} |->
                      {i \in DOMAIN stmts : stmts[i].op = "label" /\ stmts[i].target = l}]
    IN  \A l \in DOMAIN places : Cardinality(places[l]) = 1

Uses(s) == {<<i, k>> \in (DOMAIN stmts) \X (1..4) :
               k \in DOMAIN stmts[i].operands /\ stmts[i].operands[k] = s}

Definitions(s) == {i \in DOMAIN stmts : stmts[i].result = s}

AllTemps == {stmts[i].result : i \in DOMAIN stmts} \cap {Temp(n) : n \in 0..Len(stmts)}

\* "a source operand is either never used again or can be reread from memory"
\* (generator.cpp): a temporary is defined once and used at most once, later.
TempsUsedOnce ==
    \A t \in AllTemps :
        /\ Cardinality(Definitions(t)) = 1 /\ Cardinality(Uses(t)) <= 1
        /\ \A d \in Definitions(t), u \in Uses(t) : d < u[1]

\* A temporary is used in the block that defines it, unless the value of an &&
\* or || is computed in between.
TempsStayInBlock ==
    \A t \in AllTemps : \A d \in Definitions(t), u \in Uses(t) :
        (\E i \in d..(u[1] - 1) : stmts[i].target # 0) =>
            \E i \in d..(u[1] - 1) : stmts[i].result.kind = "LOCAL TEMP"
=============================================================================
