------------------------------- MODULE Parser -------------------------------
(***************************************************************************)
(* The recursive-descent parser (parser.cpp), which builds the syntax tree *)
(* and calls the checker as it goes along.                                 *)
(*                                                                         *)
(* A token is a string.  Each function of the source is an operator on the *)
(* record p: the tokens that are left, the first being word and the second *)
(* what peek returns; whether no syntax error has ended the compiler (ok); *)
(* the tree that was returned (node), and the state of the checker.        *)
(***************************************************************************)
EXTENDS Checker, Literals

CONSTANT Names

Node(token, kids) == [token |-> token, symbol |-> NoRef, kids |-> kids]
Leaf(token, ref) == [token |-> token, symbol |-> ref, kids |-> <<>>]
NumberLeaf(text) == Leaf("NUM", Ref("literals", text))

\* The type of a node (Node::type).
TypeOfNode(p, node) ==
    CASE node.token \in {"INDEX", "FUNC", "PROC"} ->
            Scalar(TypeOf(p, node.kids[1].symbol).specifier)
      [] node.token = "STRLIT" ->
            Array("char", Len(ParseString(Strings[node.symbol.name]).text) + 3)   \* with its quotes
      [] node.token = "NAME" -> TypeOf(p, node.symbol)
      [] OTHER -> Scalar("int")

-----------------------------------------------------------------------------
(* Tokens.                                                                 *)

Word(p) == IF p.toks = <<>> THEN "DONE" ELSE p.toks[1]
Peek(p) == IF Len(p.toks) < 2 THEN "DONE" ELSE p.toks[2]

\* The next word is fetched, and reported if it is a bad literal.
NextWord(p) == ReportIf([p EXCEPT !.toks = Tail(@)], Bad(Peek(p)))

SyntaxError(p) == [p EXCEPT !.ok = FALSE, !.toks = <<>>]

MatchAny(p, tokens) == IF Word(p) \in tokens THEN NextWord(p) ELSE SyntaxError(p)
Match(p, token) == MatchAny(p, {token})

With(p, node) == [p EXCEPT !.node = node]

\* The node of p becomes the last child of a node.
Appended(node, p) == With(p, [node EXCEPT !.kids = Append(@, p.node)])

-----------------------------------------------------------------------------
(* Expressions.                                                            *)

\* The loops of the functions from multiplicativeExpression to expression: the
\* operators of each level.
Operators == <<{"*", "/", "%"}, {"+", "-"}, {"<", ">", "<=", ">="}, {"==", "!="}, {"&&"}, {"||"}>>

RECURSIVE Binary(_, _), Unary(_), Arguments(_, _)

Expression(p) == Binary(Len(Operators), p)

\* Mutation: the right operand is everything that follows.
MoreOperandsRight(level, p) ==
    IF Word(p) \notin Operators[level] THEN p
    ELSE Appended(Node(Word(p), <<p.node>>), Binary(level, NextWord(p)))

RECURSIVE MoreOperands(_, _)

\* while (1): another operator of this level takes what there is as its left
\* operand.
MoreOperands(level, p) ==
    IF Word(p) \notin Operators[level] THEN p
    ELSE MoreOperands(level, Appended(Node(Word(p), <<p.node>>), Binary(level - 1, NextWord(p))))

Binary(level, p) == IF level = 0 THEN Unary(p) ELSE MoreOperands(level, Binary(level - 1, p))

\* The index of an array with elements that are larger than a byte is scaled.
Scaled(p, array, index) ==
    LET size == SizeOfScalar(TypeOf(p, array).specifier)
    IN  IF size = 1 THEN index ELSE Node("*", <<index, NumberLeaf(ToString(size))>>)

\* name [ Expression ], from the bracket on.
Indexed(p, array) == With(p, Node("INDEX", <<Leaf("NAME", array), Scaled(p, array, p.node)>>))

Bracketed(p) == Indexed(Match(Expression(Match(p, "[")), "]"), p.found)

IndexOf(p, name) == Bracketed(LookupArray(p, name))

\* name ( ArgumentList ), from the parenthesis on.
ArgumentList(p) == IF Word(p) = ")" THEN p ELSE Arguments(p, TRUE)

Checked(p, function) ==
    CheckCall(p, TypeOf(p, function), [i \in 1..(Len(p.node.kids) - 1) |-> TypeOfNode(p, p.node.kids[i + 1])])

Called(p, token) ==
    Match(Checked(ArgumentList(With(Match(p, "("), Node(token, <<Leaf("NAME", p.found)>>))), p.found), ")")

CallOf(p, name, token) == Called(LookupFunction(p, name), token)

Found(p) == With(p, Leaf("NAME", p.found))

\* A character is widened to an integer.
Widened(p) ==
    IF TypeOf(p, p.found).specifier = "char" THEN With(p, Node("INT", <<p.node>>)) ELSE p

ScalarOf(p, name) == Widened(Found(LookupScalar(p, name)))

\* A primary expression that begins with this name, from the next word on.
NamePrimary(p, name) ==
    CASE ~p.ok -> p
      [] Word(p) = "(" -> CallOf(p, name, "FUNC")
      [] Word(p) = "[" -> IndexOf(p, name)
      [] OTHER -> ScalarOf(p, name)

Primary(p) ==
    CASE Word(p) = "(" -> Match(Expression(NextWord(p)), ")")
      [] Word(p) \in DOMAIN Characters ->
            With(NextWord(p), NumberLeaf(ToString(CharacterValue(Word(p)))))
      [] Word(p) \in DOMAIN Numbers -> With(NextWord(p), NumberLeaf(Word(p)))
      [] OTHER -> NamePrimary(MatchAny(p, Names), Word(p))

Unary(p) ==
    IF Word(p) \in {"-", "!"}
    THEN Appended(Node(IF Word(p) = "-" THEN "NEGATE" ELSE "!", <<>>), Unary(NextWord(p)))
    ELSE Primary(p)

\* A name by itself, which may be that of an array or a function.
WidenedScalar(p) == IF TypeOf(p, p.found).declarator = "SCALAR" THEN Widened(p) ELSE p

NameArgument(p) ==
    LET scope == Lookup(p, Word(p))
    IN  NextWord(WidenedScalar(Found(
            IF scope = "none" THEN LookupScalar(p, Word(p))
            ELSE [p EXCEPT !.found = Ref(scope, Word(p))])))

Argument(p) ==
    CASE Word(p) \in DOMAIN Strings ->
            [With(NextWord(p), Leaf("STRLIT", Ref("literals", MakeString(Word(p)))))
                EXCEPT !.literals = @ \cup {MakeString(Word(p))}]
      [] Word(p) \in Names /\ Peek(p) \in {",", ")"} -> NameArgument(p)
      [] OTHER -> Expression(p)

\* argumentList: the arguments are appended to the call.
Arguments(p, first) ==
    IF ~first /\ Word(p) # "," THEN p
    ELSE Arguments(Appended(p.node, Argument(IF first THEN p ELSE NextWord(p))), FALSE)

-----------------------------------------------------------------------------
(* Statements.                                                             *)

\* = Expression, after what is assigned to.
Assigned(p) == Appended(Node("=", <<p.node>>), Expression(Match(p, "=")))

\* An assignment or a call that begins with this name, from the next word on.
AssignmentTo(p, name) ==
    CASE Word(p) = "=" -> Assigned(Found(LookupScalar(p, name)))
      [] Word(p) = "[" -> Assigned(IndexOf(p, name))
      [] Word(p) = "(" -> CallOf(p, name, "PROC")
      [] OTHER -> SyntaxError(p)

Assignment(p) == AssignmentTo(MatchAny(p, Names), Word(p))

RECURSIVE Statement(_), Statements(_)

\* Appended to the node of p: an expression or an assignment after this token,
\* an expression in parentheses, a statement.
ExpressionAfter(p, token) == Appended(p.node, Expression(Match(p, token)))
AssignmentAfter(p, token) == Appended(p.node, Assignment(Match(p, token)))
Condition(p) == Match(ExpressionAfter(p, "("), ")")
Then(p) == Appended(p.node, Statement(p))

\* ( Assignment ; Expression ; Assignment )
Heading(p) ==
    Match(AssignmentAfter(ExpressionAfter(AssignmentAfter(p, "("), ";"), ";"), ")")

\* An else goes with the innermost if.
Else(p) == IF Word(p) = "else" THEN Then(NextWord(p)) ELSE p

\* The rest of a statement that begins with this keyword.
Begun(p, keyword) ==
    CASE keyword = "if" -> Else(Then(Condition(p)))
      [] keyword = "for" -> Then(Heading(p))
      [] keyword = "while" -> Then(Condition(p))
      [] keyword = "do" -> Match(Condition(Match(Then(p), "while")), ";")
      [] keyword = "return" -> Match(Appended(p.node, Expression(p)), ";")

Statement(p) ==
    CASE Word(p) = "{" -> Match(Statements(With(NextWord(p), Node("BLOCK", <<>>))), "}")
      [] Word(p) \in {"if", "for", "while", "do", "return"} ->
            Begun(With(NextWord(p), Node(Word(p), <<>>)), Word(p))
      [] OTHER -> Match(Assignment(p), ";")

\* Statements up to the brace, appended to the node.
Statements(p) ==
    IF Word(p) = "}" \/ ~p.ok THEN p ELSE Statements(Then(p))

-----------------------------------------------------------------------------
(* Declarations.                                                           *)

Specifier(p) == MatchAny(p, {"int", "char"})

\* A parameter is declared and its type added to those of the function.
Formal(p, name, type) == [InsertName(p, name, type) EXCEPT !.formals = Append(@, type)]

FormalNamed(p, specifier, name) ==
    CASE ~p.ok -> p
      [] Word(p) = "[" -> Match(Match(Formal(p, name, Array(specifier, 0)), "["), "]")
      [] OTHER -> Formal(p, name, Scalar(specifier))

FormalOf(p, specifier) == FormalNamed(MatchAny(p, Names), specifier, Word(p))

Parameter(p) == FormalOf(Specifier(p), Word(p))

RECURSIVE ParameterList(_), MoreParameters(_)

MoreParameters(p) == IF Word(p) = "," THEN ParameterList(NextWord(p)) ELSE p

ParameterList(p) == MoreParameters(Parameter(p))

Parameters(p) == IF Word(p) = "void" THEN NextWord(p) ELSE ParameterList(p)

\* The length is read as a decimal number, whatever its base.
Length(token) == IF token \in DOMAIN Numbers THEN Unsigned(Numbers[token].decimal) ELSE 1

DeclaredArray(p, specifier, name) ==
    Match(MatchAny(CheckArray(InsertName(p, name, Array(specifier, Length(Word(p))))),
                   DOMAIN Numbers), "]")

\* A variable of this name, from the next word on.
Declared(p, specifier, name) ==
    CASE ~p.ok -> p
      [] Word(p) = "[" -> DeclaredArray(NextWord(p), specifier, name)
      [] OTHER -> InsertName(p, name, Scalar(specifier))

Declarator(p, specifier) == Declared(MatchAny(p, Names), specifier, Word(p))

RECURSIVE MoreDeclarators(_, _), Declarations(_)

MoreDeclarators(p, specifier) ==
    IF Word(p) # "," THEN p
    ELSE MoreDeclarators(Declarator(NextWord(p), specifier), specifier)

Declarators(p, specifier) == Match(MoreDeclarators(Declarator(p, specifier), specifier), ";")

Declarations(p) ==
    IF Word(p) \notin {"int", "char"} THEN p
    ELSE Declarations(Declarators(NextWord(p), Word(p)))

\* The parameters are known to the function's symbol through a pointer, unless
\* the name had been declared before.
WithFormals(p, name, redeclared) ==
    IF redeclared THEN p
    ELSE [p EXCEPT !.scope.globals =
             [i \in DOMAIN @ |-> IF @[i].name = name THEN [@[i] EXCEPT !.type.parameters = p.formals]
                                ELSE @[i]]]

\* The definition of a function, from the parenthesis on: the body is the node.
Definition(p, specifier, name) ==
    LET redeclared == Positions(p, "globals", name) # {}
        f == InitializeScope(InsertName(p, name, FunctionType(specifier, TRUE)))
        q == Match(Parameters(Match([f EXCEPT !.formals = <<>>], "(")), ")")
        d == Declarations(Match(WithFormals(q, name, redeclared), "{"))
    IN  FinalizeScope(Match(Statements(With(d, Node("BLOCK", <<>>))), "}"))

\* From the name on, which comes before r: function is the name of the function
\* that was defined, if it was one.
GlobalNamed(p, r, specifier) ==
    CASE ~r.ok -> r
      [] Word(r) = "(" -> [Definition(r, specifier, Word(p)) EXCEPT !.function = Word(p)]
      [] OTHER -> [Declarators(p, specifier) EXCEPT !.function = "none"]

GlobalAfter(p, specifier) == GlobalNamed(p, MatchAny(p, Names), specifier)

GlobalDeclaration(p) == GlobalAfter(Specifier(p), Word(p))

\* The parser and the checker before the first declaration.
Start(tokens) ==
    LET p == [toks |-> tokens, ok |-> TRUE, node |-> Node("BLOCK", <<>>), formals |-> <<>>,
              function |-> "none", found |-> NoRef, scope |-> NoScopes, current |-> "globals",
              errors |-> 0, literals |-> {}]
    IN  ReportIf(p, Bad(Word(p)))
=============================================================================
