------------------------------- MODULE Compiler -------------------------------
(***************************************************************************)
(* A translation unit on its way from tokens to assembly (parser.cpp:      *)
(* translationUnit, globalDeclaration; generator.cpp: generateFunction,    *)
(* generateGlobals).  One declaration is parsed at a time; the code of a   *)
(* function is generated before the next is read, and the global data at   *)
(* the end.  The parser and the checker, the literals and the frame are    *)
(* composed here; statements and registers are those of other modules, and *)
(* what they mean for the frame and the literals is any order: which calls *)
(* the optimizer leaves, which of them comes next and when a temporary is  *)
(* spilled in between.                                                     *)
(***************************************************************************)
EXTENDS Source, Frame

CONSTANTS
    Programs,       \* the translation units
    MaxSpills,      \* how many temporaries of a function are spilled
    MaxLost         \* how many tokens are missing at the end of the source

VARIABLES
    program,        \* the one that is compiled
    lost,           \* how many of its last tokens are missing
    p,              \* the state of the parser
    phase,          \* "parse", "generate", "done", or "stopped" by a syntax error
    parsed,         \* how many declarations have been parsed
    calls,          \* the calls in the function: their arguments
    pending,        \* the positions of those that are still to be generated
    strings,        \* string literal |-> the number of its label
    late,           \* whether strings[sym] = strings.size() inserts first: the
                    \* language leaves the order open
    printed         \* the labels that the code refers to, and what it means by them

vars == <<program, lost, p, phase, parsed, calls, pending, strings, late, printed, frameVars>>

NoStrings == [s \in {} |-> 0]

RECURSIVE CallsIn(_)

\* The arguments of all calls in a tree.
CallsIn(node) ==
    LET inside == FlattenSeq([i \in DOMAIN node.kids |-> CallsIn(node.kids[i])])
    IN  IF node.token \in {"FUNC", "PROC"} THEN Append(inside, Tail(node.kids)) ELSE inside

\* Mutation: the symbol is numbered again each time.
NumberedAgain(numbers, s) ==
    (s :> Cardinality(DOMAIN numbers) + IF late THEN 1 ELSE 0) @@ numbers

\* operand is asked for a string literal.
Numbered(numbers, s) ==
    IF s \in DOMAIN numbers THEN numbers
    ELSE (s :> Cardinality(DOMAIN numbers) + IF late THEN 1 ELSE 0) @@ numbers

\* The string literals among the arguments, from the last to the first.
StringsAmong(arguments) ==
    LET leaves == SelectSeq(Reverse(arguments), LAMBDA a : a.token = "STRLIT")
    IN  [i \in DOMAIN leaves |-> leaves[i].symbol.name]

\* Mutation: the local variables are counted as parameters.
FormalsAndLocals(q) == Len(q.scope.locals)

\* How many parameters the function has that was parsed.
Formals(q) == Len(TypeOf(q, Ref("globals", q.function)).parameters)

-----------------------------------------------------------------------------

\* A declaration is parsed; a function is generated if nothing has been
\* reported so far.  The optimizer may have removed some of its calls.
ParseDeclaration ==
    /\ phase = "parse" /\ Word(p) # "DONE"
    /\ p' = GlobalDeclaration(p)
    /\ parsed' = parsed + 1
    /\ IF ~p'.ok
       THEN phase' = "stopped" /\ UNCHANGED <<calls, pending, frameVars>>
       ELSE IF p'.function # "none" /\ p'.errors = 0
       THEN LET locals == p'.scope.locals
                type(i) == locals[i].type
            IN  /\ phase' = "generate"
                /\ calls' = CallsIn(p'.node)
                /\ pending' \in SUBSET DOMAIN calls'
                /\ Enter([i \in DOMAIN locals |-> Size(type(i))],
                         Formals(p'),
                         \E i \in DOMAIN locals : Size(type(i)) # Bytes(type(i)))
       ELSE phase' = phase /\ UNCHANGED <<calls, pending, frameVars>>
    /\ UNCHANGED <<program, lost, strings, late, printed>>

Prologue ==
    /\ phase = "generate" /\ PlaceSymbol
    /\ UNCHANGED <<program, lost, p, phase, parsed, calls, pending, strings, late, printed>>

\* The arguments are loaded from the last to the first; only string literals
\* need something that the rest does not have yet.
GenerateCall ==
    /\ phase = "generate"
    /\ \E c \in pending :
          LET among == StringsAmong(calls[c])
          IN  /\ pending' = pending \ {c}
              /\ PassArguments(Len(calls[c]))
              /\ strings' = FoldLeft(Numbered, strings, among)
              /\ printed' = printed \cup {[string |-> among[i], label |-> strings'[among[i]]] :
                                             i \in DOMAIN among}
    /\ UNCHANGED <<program, lost, p, phase, parsed, calls, late>>

Spill ==
    /\ phase = "generate" /\ Len(places) < Len(sizes) + MaxSpills
    /\ PlaceTemp
    /\ UNCHANGED <<program, lost, p, phase, parsed, calls, pending, strings, late, printed>>

Epilogue ==
    /\ phase = "generate" /\ pending = {} /\ FixSize
    /\ phase' = "parse"
    /\ UNCHANGED <<program, lost, p, parsed, calls, pending, strings, late, printed>>

\* Looking up the label of a literal that no code refers to gives it number 0.
GenerateGlobals ==
    /\ phase = "parse" /\ Word(p) = "DONE"
    /\ strings' = strings @@ [s \in p.literals |-> 0]
    /\ phase' = "done"
    /\ UNCHANGED <<program, lost, p, parsed, calls, pending, late, printed, frameVars>>

Init ==
    /\ program \in Programs /\ lost \in 0..MaxLost
    /\ p = Start(LET tokens == WrittenProgram(program)
                 IN  SubSeq(tokens, 1, Len(tokens) - lost))
    /\ phase = "parse" /\ parsed = 0 /\ calls = <<>> /\ pending = {}
    /\ strings = NoStrings /\ late \in BOOLEAN /\ printed = {}
    /\ NoFrame

Next == ParseDeclaration \/ Prologue \/ GenerateCall \/ Spill \/ Epilogue \/ GenerateGlobals

Spec == Init /\ [][Next]_vars

-----------------------------------------------------------------------------
(* Properties.                                                             *)

JustParsed == phase = "generate" /\ places = <<>>

\* A function that is generated has the tree that its source means: operators
\* bind and associate as in C, an else goes with the nearest if, every name is
\* that of its innermost declaration, characters are widened where they are
\* read and indices scaled by the size of the elements.
TreesMeant == JustParsed => p.node = MeantBody(program, parsed)

\* Something is reported if, and only if, what has been read breaks a rule:
\* across functions, with names declared by being called, and after errors;
\* and the compiler stops if, and only if, the end of the source is missing.
ReportsRight ==
    /\ phase = "stopped" => lost > 0
    /\ phase = "done" => lost = 0
    /\ JustParsed \/ phase = "done" =>
        /\ p.ok
        /\ (p.errors = 0) = (\A i \in 1..parsed : WellFormed(program, i))

\* What the compiler does to the frame of a function is what module Frame lets
\* happen to a frame by itself: functions are entered with parameters that fit
\* into the places of arguments, and nothing changes once the size is fixed.
FramesByThemselves == FrameSpec

\* The literals that no code refers to.
Unused == p.literals \ {r.string : r \in printed}

\* Every label in the code is that of one literal, the one that is meant.
\* Unused literals all have label 0, which is free only if numbers start at 1.
LabelsName ==
    phase = "done" /\ p.errors = 0 /\ Cardinality(Unused) <= (IF late THEN 1 ELSE 0) =>
        \A r \in printed : {s \in DOMAIN strings : strings[s] = r.label} = {r.string}

\* The assembler reads every string literal as the text it means, whatever its
\* escape sequences, unless it has characters that need an escape sequence of
\* their own in the assembly.
LiteralsReadBack ==
    phase = "done" /\ p.errors = 0 =>
        \A i \in 1..parsed : \A t \in Literals(program[i]) \cap DOMAIN Strings :
            Plain(ParseString(Strings[t]).text)
                => AssembledText(Canonical(MakeString(t))) = ParseString(Strings[t]).text
=============================================================================
