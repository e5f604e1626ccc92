-------------------------------- MODULE Source --------------------------------
(***************************************************************************)
(* The reference for the front end: programs of Tiny C, how they are       *)
(* written, when they are well formed and what tree they mean.  Nothing    *)
(* here looks at how the parser proceeds.                                  *)
(*                                                                         *)
(* An expression or a statement is a record with a token, a name (that of  *)
(* a variable, an array or a function, or a literal token) and its parts.  *)
(* A declaration is that of variables or of a function; a variable has a   *)
(* length, a number token, if it is an array.                              *)
(***************************************************************************)
EXTENDS Parser, FiniteSets

Term(token, name, kids) == [token |-> token, name |-> name, kids |-> kids]

-----------------------------------------------------------------------------
(* How programs are written: with no more parentheses than they need.      *)

\* How loosely an expression binds.
Level(e) ==
    CASE e.token \in {"name", "number", "string", "character", "call", "proc", "index"} -> 0
      [] e.token \in {"negate", "not"} -> 1
      [] OTHER -> 1 + CHOOSE k \in DOMAIN Operators : e.token \in Operators[k]

RECURSIVE Written(_, _)

WrittenList(list) ==
    FoldLeftDomain(LAMBDA done, i : done \o (IF i = 1 THEN <<>> ELSE <<",">>) \o Written(list[i], 9),
                   <<>>, list)

\* An expression where one that binds up to this loosely can stand.
Written(e, level) ==
    LET tokens ==
            CASE e.token \in {"call", "proc"} -> <<e.name, "(">> \o WrittenList(e.kids) \o <<")">>
              [] e.token = "index" -> <<e.name, "[">> \o Written(e.kids[1], 9) \o <<"]">>
              [] Level(e) = 0 -> <<e.name>>
              [] e.token = "negate" -> <<"-">> \o Written(e.kids[1], 1)
              [] e.token = "not" -> <<"!">> \o Written(e.kids[1], 1)
              [] OTHER -> Written(e.kids[1], Level(e)) \o <<e.token>> \o Written(e.kids[2], Level(e) - 1)
    IN  IF Level(e) > level THEN <<"(">> \o tokens \o <<")">> ELSE tokens

Whole(e) == Written(e, 9)

RECURSIVE WrittenStatement(_)

WrittenAssignment(s) ==
    IF s.token = "proc" THEN Whole(s) ELSE Whole(s.kids[1]) \o <<"=">> \o Whole(s.kids[2])

WrittenStatement(s) ==
    LET k == s.kids
    IN  CASE s.token = "block" ->
                <<"{">> \o FlattenSeq([i \in DOMAIN k |-> WrittenStatement(k[i])]) \o <<"}">>
          [] s.token = "if" ->
                <<"if", "(">> \o Whole(k[1]) \o <<")">> \o WrittenStatement(k[2])
                \o (IF Len(k) = 3 THEN <<"else">> \o WrittenStatement(k[3]) ELSE <<>>)
          [] s.token = "while" -> <<"while", "(">> \o Whole(k[1]) \o <<")">> \o WrittenStatement(k[2])
          [] s.token = "do" ->
                <<"do">> \o WrittenStatement(k[1]) \o <<"while", "(">> \o Whole(k[2]) \o <<")", ";">>
          [] s.token = "for" ->
                <<"for", "(">> \o WrittenAssignment(k[1]) \o <<";">> \o Whole(k[2]) \o <<";">>
                \o WrittenAssignment(k[3]) \o <<")">> \o WrittenStatement(k[4])
          [] s.token = "return" -> <<"return">> \o Whole(k[1]) \o <<";">>
          [] OTHER -> WrittenAssignment(s) \o <<";">>

\* Whether a statement can be written in front of an else: it does not end
\* with an if that has none.
RECURSIVE Closed(_)
Closed(s) ==
    CASE s.token = "if" -> Len(s.kids) = 3 /\ Closed(s.kids[3])
      [] s.token \in {"while", "for"} -> Closed(s.kids[Len(s.kids)])
      [] OTHER -> TRUE

Variable(name, length) == [name |-> name, length |-> length]
Simple(name) == Variable(name, "none")

WrittenVariables(specifier, vars) ==
    <<specifier>>
    \o FoldLeftDomain(LAMBDA done, i :
           done \o (IF i = 1 THEN <<>> ELSE <<",">>) \o <<vars[i].name>>
           \o IF vars[i].length = "none" THEN <<>> ELSE <<"[", vars[i].length, "]">>, <<>>, vars)
    \o <<";">>

\* Variables of one specifier, and functions.
Variables(specifier, vars) ==
    [specifier |-> specifier, function |-> "none", vars |-> vars,
     params |-> <<>>, locals |-> <<>>, body |-> <<>>]
Function(specifier, name, params, locals, body) ==
    [specifier |-> specifier, function |-> name, vars |-> <<>>,
     params |-> params, locals |-> locals, body |-> body]
Param(specifier, name, array) == [specifier |-> specifier, name |-> name, array |-> array]

WrittenParam(p) == <<p.specifier, p.name>> \o IF p.array THEN <<"[", "]">> ELSE <<>>

WrittenParams(params) ==
    IF params = <<>> THEN <<"void">>
    ELSE FoldLeftDomain(LAMBDA done, i :
             done \o (IF i = 1 THEN <<>> ELSE <<",">>) \o WrittenParam(params[i]), <<>>, params)

WrittenDeclaration(d) ==
    IF d.function = "none" THEN WrittenVariables(d.specifier, d.vars)
    ELSE <<d.specifier, d.function, "(">> \o WrittenParams(d.params) \o <<")", "{">>
         \o FlattenSeq([i \in DOMAIN d.locals |->
                           WrittenVariables(d.locals[i].specifier, d.locals[i].vars)])
         \o FlattenSeq([i \in DOMAIN d.body |-> WrittenStatement(d.body[i])]) \o <<"}">>

WrittenProgram(program) ==
    FlattenSeq([i \in DOMAIN program |-> WrittenDeclaration(program[i])])

-----------------------------------------------------------------------------
(* What names mean in the function of declaration i.                       *)

TypeOfVariable(specifier, v) ==
    IF v.length = "none" THEN Scalar(specifier) ELSE Array(specifier, Numbers[v.length].decimal)
TypeOfParam(p) == IF p.array THEN Array(p.specifier, 0) ELSE Scalar(p.specifier)
TypeOfFunction(d) ==
    [FunctionType(d.specifier, TRUE) EXCEPT !.parameters = [i \in DOMAIN d.params |-> TypeOfParam(d.params[i])]]

Typed(name, type) == [name |-> name, type |-> type]
OfVariables(d) == [i \in DOMAIN d.vars |-> Typed(d.vars[i].name, TypeOfVariable(d.specifier, d.vars[i]))]

\* The names that a declaration adds to the globals, and to the function's scope.
Globally(d) == IF d.function = "none" THEN OfVariables(d) ELSE <<Typed(d.function, TypeOfFunction(d))>>
Locally(d) ==
    [i \in DOMAIN d.params |-> Typed(d.params[i].name, TypeOfParam(d.params[i]))]
    \o FlattenSeq([i \in DOMAIN d.locals |-> OfVariables(d.locals[i])])

NamesIn(list) == {list[i].name : i \in DOMAIN list}

RECURSIVE Parts(_)

\* A statement or expression and all that is in it.
Parts(e) == {e} \cup UNION {Parts(e.kids[k]) : k \in DOMAIN e.kids}
PartsOf(d) == UNION {Parts(d.body[k]) : k \in DOMAIN d.body}

DeclaredBy(program, i) == UNION {NamesIn(Globally(program[j])) : j \in 1..i}

\* The functions that declarations up to i call though nothing declares them.
Implicit(program, i) ==
    UNION {{e.name : e \in {f \in PartsOf(program[j]) : f.token \in {"call", "proc"}}}
           \ (NamesIn(Locally(program[j])) \cup DeclaredBy(program, j)) : j \in 1..i}

Undeclared == [Scalar("none") EXCEPT !.declarator = "none"]

TypeNamed(list, name) == list[CHOOSE i \in DOMAIN list : list[i].name = name].type

\* The innermost declaration of a name decides.
ScopeOfName(program, i, name) ==
    IF name \in NamesIn(Locally(program[i])) THEN "locals" ELSE "globals"

TypeOfName(program, i, name) ==
    IF name \in NamesIn(Locally(program[i])) THEN TypeNamed(Locally(program[i]), name)
    ELSE IF name \in DeclaredBy(program, i)
    THEN TypeNamed(Globally(program[CHOOSE j \in 1..i : name \in NamesIn(Globally(program[j]))]), name)
    ELSE IF name \in Implicit(program, i) THEN FunctionType("int", FALSE) ELSE Undeclared

TypeOfArgument(program, i, e) ==
    CASE e.token = "name" -> TypeOfName(program, i, e.name)
      [] e.token = "string" -> Array("char", 1)
      [] OTHER -> Scalar("int")

-----------------------------------------------------------------------------
(* The rules of the language.                                              *)

Distinct(list) == Cardinality(NamesIn(list)) = Len(list)

Literals(d) ==
    {e.name : e \in {f \in PartsOf(d) : f.token \in {"number", "string", "character"}}}
    \cup UNION {{vars[k].length : k \in DOMAIN vars} :
                   vars \in {d.vars} \cup {d.locals[j].vars : j \in DOMAIN d.locals}}

\* An argument of a type that the parameter accepts.
Accepts(formal, actual) ==
    formal.declarator = actual.declarator
    /\ (formal.declarator = "ARRAY" => formal.specifier = actual.specifier)

\* A name as an expression is that of a scalar, unless it is an argument.
UsedRightly(program, i, e) ==
    LET type(name) == TypeOfName(program, i, name)
        scalars == {e.kids[k] : k \in DOMAIN e.kids}
    IN  CASE e.token = "index" -> type(e.name).declarator = "ARRAY" /\ \A k \in scalars :
                                     k.token = "name" => type(k.name).declarator = "SCALAR"
          [] e.token \in {"call", "proc"} ->
                /\ type(e.name).declarator = "FUNCTION"
                /\ type(e.name).prototyped =>
                      /\ Len(e.kids) = Len(type(e.name).parameters)
                      /\ \A k \in DOMAIN e.kids :
                            Accepts(type(e.name).parameters[k], TypeOfArgument(program, i, e.kids[k]))
                /\ \A k \in scalars : k.token = "name" => type(k.name) # Undeclared
          [] OTHER -> \A k \in scalars : k.token = "name" => type(k.name).declarator = "SCALAR"

WellFormed(program, i) ==
    LET d == program[i]
        before == DeclaredBy(program, i - 1) \cup Implicit(program, i - 1)
    IN  /\ Distinct(Globally(d)) /\ NamesIn(Globally(d)) \cap before = {}
        /\ Distinct(Locally(d))
        /\ \A v \in {Globally(d)[k] : k \in DOMAIN Globally(d)}
                    \cup {Locally(d)[k] : k \in (Len(d.params) + 1)..Len(Locally(d))} : ~IsPointer(v.type)
        /\ \A l \in Literals(d) : ~Bad(l)
        /\ \A e \in PartsOf(d) : UsedRightly(program, i, e)

-----------------------------------------------------------------------------
(* The tree that a well-formed function means.                             *)

RECURSIVE Meant(_, _, _)

\* An array element: the index is scaled to bytes.
Element(program, i, e) ==
    LET index == Meant(program, i, e.kids[1])
        size == SizeOfScalar(TypeOfName(program, i, e.name).specifier)
    IN  Node("INDEX", <<Leaf("NAME", Ref(ScopeOfName(program, i, e.name), e.name)),
                        IF size = 1 THEN index ELSE Node("*", <<index, NumberLeaf(ToString(size))>>)>>)

Kids(program, i, e) == [k \in DOMAIN e.kids |-> Meant(program, i, e.kids[k])]

\* The part e of declaration i.
Meant(program, i, e) ==
    LET leaf == Leaf("NAME", Ref(ScopeOfName(program, i, e.name), e.name))
        kids == Kids(program, i, e)
    IN  CASE e.token = "name" ->
                IF TypeOfName(program, i, e.name) = Scalar("char") THEN Node("INT", <<leaf>>) ELSE leaf
          [] e.token = "number" -> NumberLeaf(e.name)
          [] e.token = "character" -> NumberLeaf(ToString(CharacterValue(e.name)))
          [] e.token = "string" -> Leaf("STRLIT", Ref("literals", MakeString(e.name)))
          [] e.token = "call" -> Node("FUNC", <<leaf>> \o kids)
          [] e.token = "proc" -> Node("PROC", <<leaf>> \o kids)
          [] e.token = "index" -> Element(program, i, e)
          [] e.token = "negate" -> Node("NEGATE", kids)
          [] e.token = "not" -> Node("!", kids)
          [] e.token = "block" -> Node("BLOCK", kids)
          [] e.token = "=" ->
                Node("=", <<IF e.kids[1].token = "name"
                            THEN Leaf("NAME", Ref(ScopeOfName(program, i, e.kids[1].name), e.kids[1].name))
                            ELSE kids[1], kids[2]>>)
          [] OTHER -> Node(e.token, kids)

MeantBody(program, i) == Meant(program, i, Term("block", "none", program[i].body))
=============================================================================
