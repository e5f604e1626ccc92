------------------------------- MODULE Checker -------------------------------
(***************************************************************************)
(* Types, symbols, the chain of scopes and the semantic checks             *)
(* (Type.cpp, Symbol.cpp, Scope.cpp, checker.cpp).                         *)
(*                                                                         *)
(* The state of the checker is the fields scope, current and errors of a   *)
(* record: the operators map it to the next one, with the symbol that the  *)
(* function returns in the field found.  A symbol is identified by its     *)
(* scope and its name.  There are never more than two scopes, as Tiny C    *)
(* has declarations only at the start of a function.                       *)
(***************************************************************************)
EXTENDS Machine, SequencesExt

-----------------------------------------------------------------------------
(* Types.  prototyped tells whether the pointer to the parameters is set.  *)

Scalar(specifier) ==
    [declarator |-> "SCALAR", specifier |-> specifier, length |-> 0,
     parameters |-> <<>>, prototyped |-> FALSE]
Array(specifier, length) == [Scalar(specifier) EXCEPT !.declarator = "ARRAY", !.length = length]
FunctionType(specifier, prototyped) ==
    [Scalar(specifier) EXCEPT !.declarator = "FUNCTION", !.prototyped = prototyped]

IsPointer(t) == t.declarator = "ARRAY" /\ t.length = 0

SizeOfScalar(specifier) == IF specifier = "int" THEN SIZEOF_INT ELSE SIZEOF_CHAR

\* The product, before it is stored in an unsigned.
Bytes(t) ==
    IF IsPointer(t) THEN SIZEOF_PTR
    ELSE (IF t.declarator = "ARRAY" THEN t.length ELSE 1) * SizeOfScalar(t.specifier)

Size(t) == Unsigned(Bytes(t))

-----------------------------------------------------------------------------
(* Scopes.                                                                 *)

Symbol(name, type, kind) == [name |-> name, type |-> type, kind |-> kind]

NoRef == [scope |-> "none", name |-> "none"]
Ref(scope, name) == [scope |-> scope, name |-> name]

NoScopes == [globals |-> <<>>, locals |-> <<>>]

\* The positions of a name in a scope (Scope::find).
Positions(c, scope, name) == {i \in DOMAIN c.scope[scope] : c.scope[scope][i].name = name}

\* The scope that the name is found in, from the current one outwards.
Lookup(c, name) ==
    IF Positions(c, c.current, name) # {} THEN c.current
    ELSE IF c.current = "locals" /\ Positions(c, "globals", name) # {} THEN "globals" ELSE "none"

TypeOf(c, ref) == c.scope[ref.scope][CHOOSE i \in Positions(c, ref.scope, ref.name) : TRUE].type

\* SYM_TOKEN: it depends on the current scope, wherever the symbol is inserted.
SymToken(c) == IF c.current = "globals" THEN "GLOBAL" ELSE "LOCAL"

\* insert, which asserts that the name is not there yet.
Insert(c, scope, name, type) ==
    [c EXCEPT !.scope[scope] = Append(@, Symbol(name, type, SymToken(c))),
              !.found = Ref(scope, name)]

Report(c) == [c EXCEPT !.errors = @ + 1]
ReportIf(c, wrong) == IF wrong THEN Report(c) ELSE c

InitializeScope(c) == [c EXCEPT !.current = "locals", !.scope.locals = <<>>]
FinalizeScope(c) == [c EXCEPT !.current = "globals"]

-----------------------------------------------------------------------------
(* The functions of the checker.                                           *)

InsertName(c, name, type) ==
    IF Positions(c, c.current, name) # {}
    THEN [Report(c) EXCEPT !.found = Ref(c.current, name)]
    ELSE Insert(c, c.current, name, type)

\* lookupArray and lookupScalar: a name that is not found is reported and
\* declared in the current scope.
LookupVariable(c, name, type) ==
    LET scope == Lookup(c, name)
    IN  IF scope = "none" THEN Insert(Report(c), c.current, name, type)
        ELSE ReportIf([c EXCEPT !.found = Ref(scope, name)],
                      TypeOf(c, Ref(scope, name)).declarator # type.declarator)

LookupArray(c, name) == LookupVariable(c, name, Array("int", 1))
LookupScalar(c, name) == LookupVariable(c, name, Scalar("int"))

\* Mutation: a function is declared implicitly in the current scope.
LookupFunctionHere(c, name) ==
    LET scope == Lookup(c, name)
    IN  IF scope = "none" THEN Insert(c, c.current, name, FunctionType("int", FALSE))
        ELSE ReportIf([c EXCEPT !.found = Ref(scope, name)],
                      TypeOf(c, Ref(scope, name)).declarator # "FUNCTION")

\* A function that is not found is declared implicitly, in the global scope.
LookupFunction(c, name) ==
    LET scope == Lookup(c, name)
    IN  IF scope = "none" THEN Insert(c, "globals", name, FunctionType("int", FALSE))
        ELSE ReportIf([c EXCEPT !.found = Ref(scope, name)],
                      TypeOf(c, Ref(scope, name)).declarator # "FUNCTION")

CheckArray(c) ==
    ReportIf(c, LET t == TypeOf(c, c.found) IN t.declarator = "ARRAY" /\ t.length = 0)

\* An actual argument that a formal parameter does not accept.
Mismatch(actual, formal) ==
    \/ actual.declarator = "FUNCTION"
    \/ actual.declarator = "SCALAR" /\ formal.declarator # "SCALAR"
    \/ actual.declarator = "ARRAY"
       /\ (formal.declarator # "ARRAY" \/ actual.specifier # formal.specifier)

\* The call of a function of type t with arguments of these types.
CheckCall(c, t, actuals) ==
    ReportIf(c, /\ t.declarator = "FUNCTION" /\ t.prototyped
                /\ \/ Len(t.parameters) # Len(actuals)
                   \/ \E i \in DOMAIN actuals : Mismatch(actuals[i], t.parameters[i]))
=============================================================================
