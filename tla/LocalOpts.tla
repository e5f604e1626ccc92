------------------------------ MODULE LocalOpts ------------------------------
(***************************************************************************)
(* The rewriting of single statements (optimizer.cpp: doAlgSimp,           *)
(* doConstantFolding and doLVN; simplify, cfold and valnum of the          *)
(* statements, Statement.cpp), which is repeated until nothing changes.    *)
(* The other passes between them, and the flowgraph, are left out.         *)
(*                                                                         *)
(* A symbol is a variable or a number:                                     *)
(*                                                                         *)
(*   [kind |-> "VAR", name, scope, type]   scope 0 is global               *)
(*   [kind |-> "NUM", digits, octal, made] digits: what they are in        *)
(*        decimal; octal: whether they begin with a 0; made: 0, or the     *)
(*        line of the statement that the optimizer made it for             *)
(*                                                                         *)
(* simplify compares the names of symbols, valnum the symbols themselves:  *)
(* two variables can have one name, and two numbers too, for those that    *)
(* the optimizer makes are not shared.                                     *)
(*                                                                         *)
(* A statement has a line, which tells it from others, and an op:          *)
(*                                                                         *)
(*   "binary"  result := left test right      "negate"  result := - left   *)
(*   "copy"    result := left                 "call"    uses left, changes *)
(*   "branch"  if left test right to target             globals and result *)
(*   "jump", "label"                                                       *)
(***************************************************************************)
EXTENDS Integers, Sequences, FiniteSetsExt

CONSTANTS
    Programs,       \* lists of statements
    Environments,   \* what variables and calls have: name |-> value
    Half,           \* bound: an int lies between -Half and Half - 1
    CharHalf        \* bound: a char lies between -CharHalf and CharHalf - 1

ASSUME Halves == Half \in Nat \ {0, 1} /\ CharHalf \in 1..Half

VARIABLES
    program,
    level,      \* 1: only constants are folded, 2: and expressions simplified,
                \* 3: and values numbered
    code,       \* the list as it is now
    phase,      \* "simplify", "fold", "number", "done" or "crashed"
    at,         \* the statement that is next
    changed,
    symInt,     \* symbols |-> number of the value they have
    exprInt,    \* <<test, number, number>> |-> number of the value
    valNum      \* the next number

vars == <<program, level, code, phase, at, changed, symInt, exprInt, valNum>>

Wrap(n, half) == ((n + half) % (2 * half)) - half

\* Division as in C and on the machine, towards zero.
Quotient(m, n) ==
    LET size(k) == IF k < 0 THEN -k ELSE k
    IN  IF m < 0 <=> n < 0 THEN size(m) \div size(n) ELSE -(size(m) \div size(n))

Traps(test, m, n) == test \in {"/", "%"} /\ (n = 0 \/ (m = -Half /\ n = -1))

Compare(test, m, n) ==
    CASE test = "==" -> m = n  [] test = "!=" -> m # n
      [] test = "<" -> m < n   [] test = ">" -> m > n
      [] test = "<=" -> m <= n [] test = ">=" -> m >= n

Compute(test, m, n) ==
    CASE test = "+" -> Wrap(m + n, Half)
      [] test = "-" -> Wrap(m - n, Half)
      [] test = "*" -> Wrap(m * n, Half)
      [] test = "/" -> Quotient(m, n)
      [] test = "%" -> m - n * Quotient(m, n)
      [] OTHER -> IF Compare(test, m, n) THEN 1 ELSE 0

Number(value, line) == [kind |-> "NUM", digits |-> value, octal |-> FALSE, made |-> line]

\* The name of a symbol.
Name(s) == IF s.kind = "VAR" THEN <<s.name>> ELSE <<s.digits, s.octal>>
Named(s, value) == s.kind = "NUM" /\ s.digits = value /\ ~s.octal

Copied(s, symbol) == [s EXCEPT !.op = "copy", !.left = symbol, !.right = symbol]

\* The next statement is replaced by some, or none.
ReplaceWith(new) ==
    /\ code' = SubSeq(code, 1, at - 1) \o new \o SubSeq(code, at + 1, Len(code))
    /\ at' = at + Len(new)

Keep == code' = code /\ at' = at + 1

-----------------------------------------------------------------------------
(* doAlgSimp                                                               *)

\* Mutation: what is equal counts as neither <= nor >=.
RulesStrict(s) ==
    IF s.test \in {"+", "-", "*", "/", "%"} THEN <<>>
    ELSE <<<<Name(s.left) = Name(s.right), Number(IF s.test = "==" THEN 1 ELSE 0, s.line)>>>>

\* What a binary can be replaced by a copy of, and when: the first that holds.
Rules(s) ==
    LET left == s.left
        right == s.right
        zero == Number(0, s.line)
        same == Name(left) = Name(right)
    IN  CASE s.test = "+" -> <<<<Named(right, 0), left>>, <<Named(left, 0), right>>>>
          [] s.test = "*" -> <<<<Named(right, 1), left>>, <<Named(left, 1), right>>,
                               <<Named(right, 0) \/ Named(left, 0), zero>>>>
          [] s.test = "-" -> <<<<Named(right, 0), left>>, <<same, zero>>>>
          [] s.test = "/" -> <<<<Named(right, 1), left>>, <<Named(left, 0), zero>>>>
          [] s.test \in {"==", "<=", ">="} -> <<<<same, Number(1, s.line)>>>>
          [] s.test \in {"!=", "<", ">"} -> <<<<same, zero>>>>
          [] OTHER -> <<>>

Applicable(s) == {i \in DOMAIN Rules(s) : Rules(s)[i][1]}

IsNegation(s) == s.test = "-" /\ Named(s.left, 0) /\ ~Named(s.right, 0)

\* Whether simplify returns another statement than s.  A branch whose operands
\* have the same name is made anew even if they are numbers already.
Simplifies(s) ==
    CASE s.op = "binary" -> IsNegation(s) \/ Applicable(s) # {}
      [] s.op \in {"branch", "copy"} -> Name(IF s.op = "copy" THEN s.result ELSE s.right) = Name(s.left)
      [] OTHER -> FALSE

Simplified(s) ==
    CASE s.op = "copy" -> <<>>
      [] s.op = "branch" ->
            <<[s EXCEPT !.test = "==", !.right = Number(0, s.line),
                        !.left = Number(IF s.test \in {"==", "<=", ">="} THEN 0 ELSE 1, s.line)]>>
      [] s.op = "binary" ->
            IF IsNegation(s) THEN <<[s EXCEPT !.op = "negate", !.left = s.right]>>
            ELSE <<Copied(s, Rules(s)[Min(Applicable(s))][2])>>

SimplifyStatement ==
    /\ phase = "simplify" /\ at <= Len(code)
    /\ LET s == code[at]
       IN  /\ IF Simplifies(s) THEN ReplaceWith(Simplified(s)) ELSE Keep
           /\ changed' = (changed \/ Simplifies(s))
    /\ UNCHANGED <<program, level, phase, symInt, exprInt, valNum>>

-----------------------------------------------------------------------------
(* doConstantFolding                                                       *)

\* Mutation: branches are not folded.
FoldsBinaryOnly(s) == s.op = "binary" /\ s.left.kind = "NUM" /\ s.right.kind = "NUM"

\* Numbers are read in decimal here, octal or not.  Only the division by what
\* is written 0 is left alone.
Folds(s) ==
    /\ s.op \in {"binary", "branch"} /\ s.left.kind = "NUM" /\ s.right.kind = "NUM"
    /\ ~(s.op = "binary" /\ s.test \in {"/", "%"} /\ Named(s.right, 0))

\* A branch compares for equality the names.
Taken(s) ==
    CASE s.test = "==" -> Name(s.left) = Name(s.right)
      [] s.test = "!=" -> Name(s.left) # Name(s.right)
      [] OTHER -> Compare(s.test, s.left.digits, s.right.digits)

Folded(s) ==
    IF s.op = "branch" THEN IF Taken(s) THEN <<[s EXCEPT !.op = "jump"]>> ELSE <<>>
    ELSE <<Copied(s, Number(Compute(s.test, s.left.digits, s.right.digits), s.line))>>

\* The compiler computes what the program would, and traps as it would.
FoldTraps(s) == Folds(s) /\ s.op = "binary" /\ Traps(s.test, s.left.digits, s.right.digits)

FoldStatement ==
    /\ phase = "fold" /\ at <= Len(code)
    /\ LET s == code[at]
       IN  /\ ~FoldTraps(s)
           /\ IF Folds(s) THEN ReplaceWith(Folded(s)) ELSE Keep
           /\ changed' = (changed \/ Folds(s))
    /\ UNCHANGED <<program, level, phase, symInt, exprInt, valNum>>

\* The number of a unary is written through a pointer that was never set.
Crash ==
    /\ at <= Len(code)
    /\ \/ phase = "fold" /\ FoldTraps(code[at])
       \/ phase = "number" /\ code[at].op = "negate"
    /\ phase' = "crashed"
    /\ UNCHANGED <<program, level, code, at, changed, symInt, exprInt, valNum>>

-----------------------------------------------------------------------------
(* doLVN                                                                   *)

Put(f, x, value) == [y \in DOMAIN f \cup {x} |-> IF y = x THEN value ELSE f[y]]

\* Mutation: what globals contain is thought to outlive calls.
KeepAll(numbers) == numbers

\* Call::valnum
WithoutGlobals(numbers) ==
    [s \in {t \in DOMAIN numbers : t.kind = "NUM" \/ t.scope # 0} |-> numbers[s]]

NumberCall ==
    /\ phase = "number" /\ at <= Len(code) /\ code[at].op = "call"
    /\ symInt' = WithoutGlobals(symInt)
    /\ Keep
    /\ UNCHANGED <<program, level, phase, changed, exprInt, valNum>>

\* Copy::valnum
NumberCopy ==
    /\ phase = "number" /\ at <= Len(code) /\ code[at].op = "copy"
    /\ LET s == code[at]
       IN  IF s.left \in DOMAIN symInt
           THEN symInt' = Put(symInt, s.result, symInt[s.left]) /\ UNCHANGED valNum
           ELSE /\ symInt' = Put(Put(symInt, s.left, valNum), s.result, valNum)
                /\ valNum' = valNum + 1
    /\ Keep
    /\ UNCHANGED <<program, level, phase, changed, exprInt>>

\* duals: the comparisons that are entered as their mirror image.
Dual(test) == IF test = ">" THEN "<" ELSE "<="

Key(test, m, n) ==
    CASE test \in {">", ">="} -> <<Dual(test), n, m>>
      [] test \in {"+", "*", "==", "!="} /\ n < m -> <<test, n, m>>
      [] OTHER -> <<test, m, n>>

\* Binary::valnum: an expression that has a number is replaced by any symbol
\* that has the number too; if there is none any more, its result keeps the
\* number it had.
NumberBinary ==
    /\ phase = "number" /\ at <= Len(code) /\ code[at].op = "binary"
    /\ LET s == code[at]
           newLeft == s.left \notin DOMAIN symInt
           left == IF newLeft THEN Put(symInt, s.left, valNum) ELSE symInt
           next == IF newLeft THEN valNum + 1 ELSE valNum
           newRight == s.right \notin DOMAIN left
           numbers == IF newRight THEN Put(left, s.right, next) ELSE left
           last == IF newRight THEN next + 1 ELSE next
           key == Key(s.test, numbers[s.left], numbers[s.right])
           known == key \in DOMAIN exprInt
           holders == IF known THEN {h \in DOMAIN numbers : numbers[h] = exprInt[key]} ELSE {}
       IN  /\ changed' = (changed \/ holders # {})
           /\ \/ /\ ~known
                 /\ exprInt' = Put(exprInt, key, last)
                 /\ symInt' = Put(numbers, s.result, last)
                 /\ valNum' = last + 1 /\ Keep
              \/ /\ known
                 /\ IF holders = {} THEN Keep /\ symInt' = numbers
                    ELSE /\ \E h \in holders : ReplaceWith(<<Copied(s, h)>>)
                         /\ symInt' = Put(numbers, s.result, exprInt[key])
                 /\ valNum' = last /\ UNCHANGED exprInt
    /\ UNCHANGED <<program, level, phase>>

\* valnum of the other statements does nothing: where control comes from and
\* goes to is not looked at.
NumberOther ==
    /\ phase = "number" /\ at <= Len(code) /\ code[at].op \in {"branch", "jump", "label"}
    /\ Keep
    /\ UNCHANGED <<program, level, phase, changed, symInt, exprInt, valNum>>

-----------------------------------------------------------------------------
(* optimizeStatements                                                      *)

FirstPhase == IF level = 1 THEN "fold" ELSE "simplify"

EndPhase ==
    /\ phase \in {"simplify", "fold", "number"} /\ at > Len(code)
    /\ phase' = CASE phase = "simplify" -> "fold"
                  [] phase = "fold" /\ level = 3 -> "number"
                  [] OTHER -> IF changed THEN FirstPhase ELSE "done"
    /\ at' = 1
    /\ changed' = (phase' # FirstPhase /\ changed)
    /\ symInt' = <<>> /\ exprInt' = <<>> /\ valNum' = 0
    /\ UNCHANGED <<program, level, code>>

Init ==
    /\ program \in Programs /\ level \in 1..3
    /\ code = program
    /\ phase = FirstPhase /\ at = 1 /\ changed = FALSE
    /\ symInt = <<>> /\ exprInt = <<>> /\ valNum = 0

Next ==
    \/ SimplifyStatement \/ FoldStatement
    \/ NumberCall \/ NumberCopy \/ NumberBinary \/ NumberOther
    \/ Crash \/ EndPhase

Spec == Init /\ [][Next]_vars /\ WF_vars(Next)

-----------------------------------------------------------------------------
(* What a list of statements does.                                         *)

VariablesOf(list) ==
    {v \in UNION {{list[i].result, list[i].left, list[i].right} : i \in DOMAIN list} : v.kind = "VAR"}

\* What the machine reads in a number: a 0 in front makes it octal.
ValueOf(s) == IF s.octal THEN ((s.digits \div 10) * 8) + (s.digits % 10) ELSE s.digits

\* What a variable contains when a value was stored in it.
Stored(v, value) == IF v.type = "char" THEN Wrap(value, CharHalf) ELSE value

AtStart(variables, env) ==
    [values |-> [v \in variables |->
                    Stored(v, IF v.name \in DOMAIN env THEN env[v.name] ELSE env["other"])],
     seen |-> <<>>, skipTo |-> 0, trapped |-> FALSE]

Reads(run, s) == IF s.kind = "NUM" THEN ValueOf(s) ELSE run.values[s]

Assigns(run, v, value) == [run EXCEPT !.values[v] = Stored(v, value)]

Execute(env, run, s) ==
    LET left == Reads(run, s.left)
        right == Reads(run, s.right)
        called == [run EXCEPT !.seen = Append(@, left),
                              !.values = [v \in DOMAIN @ |-> IF v.scope = 0 THEN Stored(v, env["called"]) ELSE @[v]]]
    IN  IF run.trapped THEN run
        ELSE IF run.skipTo # 0
        THEN IF s.op = "label" /\ s.target = run.skipTo THEN [run EXCEPT !.skipTo = 0] ELSE run
        ELSE CASE s.op = "binary" -> IF Traps(s.test, left, right) THEN [run EXCEPT !.trapped = TRUE]
                                     ELSE Assigns(run, s.result, Compute(s.test, left, right))
               [] s.op = "copy" -> Assigns(run, s.result, left)
               [] s.op = "negate" -> Assigns(run, s.result, Wrap(-left, Half))
               [] s.op = "call" -> Assigns(called, s.result, env["called"])
               [] s.op = "branch" -> IF Compare(s.test, left, right)
                                     THEN [run EXCEPT !.skipTo = s.target] ELSE run
               [] s.op = "jump" -> [run EXCEPT !.skipTo = s.target]
               [] OTHER -> run

\* After the first n statements, and after all.
RunTo(list, variables, env, n) ==
    LET run[k \in 0..n] == IF k = 0 THEN AtStart(variables, env) ELSE Execute(env, run[k - 1], list[k])
    IN  run[n]

RunOf(list, env) == RunTo(list, VariablesOf(program), env, Len(list))

-----------------------------------------------------------------------------
(* What the translator makes.                                              *)

Comparisons == {"==", "!=", "<", ">", "<=", ">="}
Tests == Comparisons \cup {"+", "-", "*", "/", "%"}

Within(n, half) == -half <= n /\ n < half

Numbers == {n \in [kind : {"NUM"}, digits : Int, octal : BOOLEAN, made : Nat] : Within(ValueOf(n), Half)}

Statements(variables) ==
    {s \in [line : Nat, op : {"binary", "copy", "negate", "call", "branch", "jump", "label"},
            test : Tests \cup {""}, result : variables,
            left : variables \cup Numbers, right : variables \cup Numbers, target : Nat] :
        /\ s.op = "branch" => s.test \in Comparisons
        /\ s.op = "binary" => s.test \in Tests /\ s.result.type # "char"}

Mentioned(s) == IF s.op \in {"binary", "copy"} THEN {s.result, s.left, s.right} ELSE {}

\* What an operation or a call results in is a temporary of its own.
ResultsNew(list) ==
    \A j \in DOMAIN list :
        /\ list[j].op = "binary" => list[j].result \notin {list[j].left, list[j].right}
        /\ list[j].op \in {"binary", "call"} =>
                \A i \in 1..(j - 1) : list[j].result \notin Mentioned(list[i])

IsTranslated(list, variables) ==
    /\ list \in Seq(Statements(variables))
    /\ ResultsNew(list)

ASSUME ProgramsAreTranslated == \A list \in Programs : IsTranslated(list, VariablesOf(list))

ASSUME EnvironmentsHaveValues ==
    \A env \in Environments :
        /\ {"other", "called"} \subseteq DOMAIN env
        /\ \A name \in DOMAIN env : env[name] \in Int /\ Within(env[name], Half)

-----------------------------------------------------------------------------
(* What the code is known to get wrong.                                    *)

\* Variables of one name are taken for one by simplify: those of a statement, or
\* one that is named like a temporary and comes to be copied to it.
NamesTell(s, variables) ==
    \A v \in {s.result, s.left, s.right} :
        \A w \in IF s.op = "binary" /\ v = s.result THEN variables ELSE {s.result, s.left, s.right} :
            v.kind = "VAR" /\ w.kind = "VAR" /\ v.name = w.name => v = w

NamesApart(list, variables) == \A i \in DOMAIN list : NamesTell(list[i], variables)

\* Folding takes octal numbers for decimal ones, and different ways to write
\* a number for different numbers.
OctalsPlain(list) ==
    \A i \in DOMAIN list :
        LET s == list[i]
        IN  s.op \in {"binary", "branch"} /\ s.left.kind = "NUM" /\ s.right.kind = "NUM" =>
                /\ s.left.digits = ValueOf(s.left) /\ s.right.digits = ValueOf(s.right)
                /\ s.op = "branch" /\ s.left.digits = s.right.digits => Name(s.left) = Name(s.right)

\* A character gets the number of what is copied to it, also if that does not fit.
CharactersFit(list) ==
    \A i \in DOMAIN list :
        list[i].op = "copy" /\ list[i].result.type = "char" =>
            IF list[i].left.kind = "NUM" THEN Within(ValueOf(list[i].left), CharHalf)
            ELSE list[i].left.type = "char"

\* Values keep their numbers where control joins.
JoinsUnnumbered(list) ==
    \A j \in DOMAIN list :
        list[j].op = "label" => \A i \in 1..(j - 1) : list[i].op \notin {"binary", "copy", "negate"}

\* Nothing of this concerns the list.
Unharmed(list) ==
    /\ NamesApart(list, VariablesOf(program)) /\ OctalsPlain(list)
    /\ level = 3 => CharactersFit(list) /\ JoinsUnnumbered(list)

-----------------------------------------------------------------------------
(* Properties                                                              *)

\* After each phase the list does what it did at first: calls see the same
\* values, and all variables end with the same, unless the program divides by
\* zero.  It must survive numbers that wrap, branches that fold, and a symbol
\* that stands for an expression after one of its own operands has changed.
OutcomePreserved ==
    at = 1 => \A env \in Environments :
                 LET before == RunOf(program, env)
                 IN  before.trapped \/ RunOf(code, env) = before

\* Symbols that have the same number have the same value there, however
\* control came there: globals after a call, operands that were assigned again
\* and holders that lost the value included.
NumbersTruthful ==
    phase = "number" =>
        \A env \in Environments :
            LET run == RunTo(code, VariablesOf(program), env, at - 1)
            IN  run.trapped \/ run.skipTo # 0 \/
                \A s, t \in DOMAIN symInt : symInt[s] = symInt[t] => Reads(run, s) = Reads(run, t)

\* The phases do not rewrite each other's results for ever: a branch that
\* simplify makes anew each time is folded before it comes again.
RewritingEnds == <>(phase \in {"done", "crashed"})
=============================================================================
