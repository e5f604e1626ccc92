------------------------------ MODULE Generator ------------------------------
(***************************************************************************)
(* The code generator (generator.cpp): one function's statements are       *)
(* turned into instructions one after the other, X::generate() for each,   *)
(* and all the registers are forgotten at the end of every basic block.    *)
(*                                                                         *)
(* The statements are inputs: any sequence of them the translator can      *)
(* produce, and more.  What it guarantees is that a temporary is defined   *)
(* by a statement that has it as its result, is an operand of at most one  *)
(* later statement, once, and that the statement after a transfer of       *)
(* control is a label.  Two constants drop parts of that guarantee, because*)
(* parts of the compiler do:                                               *)
(*                                                                         *)
(*   TempsCrossBlocks  a temporary may be used in a later block than the   *)
(*                     one that defines it, as t0 in (a + b) + (c && d):   *)
(*                     && puts labels between its definition and its use   *)
(*   TempsReused       a temporary may be used more than once, as after    *)
(*                     local value numbering has replaced an expression    *)
(*                     by the temporary that already holds it              *)
(***************************************************************************)
EXTENDS Registers, Sequences

CONSTANTS
    TempsCrossBlocks,
    TempsReused,
    MaxArguments    \* bound: the longest argument list of a call

ASSUME FlagsAreBoolean == TempsCrossBlocks \in BOOLEAN /\ TempsReused \in BOOLEAN
ASSUME MaxArgumentsNat == MaxArguments \in Nat

VARIABLES
    m,      \* the machine: descriptors and what the emitted code has done
    live,   \* the temporaries defined and not used yet
    phase,  \* "statements", "arguments" (inside a call), "transferred"
    args    \* the arguments of that call that are not on the stack yet

vars == <<m, live, phase, args>>

Scalars == Variables \cup Temps \cup Numbers

\* What the generator is entitled to find as an operand now.
Operands == Variables \cup Numbers \cup live

NextResults == Temps \ live

\* Two operands of one statement are the same temporary only if it is reused.
Fit(left, right) == left = right /\ left \in Temps => TempsReused

\* Mutation: a variable counts as a temporary.
UsedAnyKind(operands, results) == live' = (live \ operands) \cup results

\* The statement has used these operands and defined these results.
Used(operands, results) ==
    \E kept \in SUBSET (IF TempsReused THEN operands \cap Temps ELSE {}) :
        live' = (live \ operands) \cup kept \cup (results \cap Temps)

-----------------------------------------------------------------------------
(* The code of each kind of statement, as a function of the machine.       *)

BranchCode(n, left, right) ==
    LET a == Load(n, left, Registers)
    IN  Release(Release(ReadOperands(a, {left, right}), left), right)

ReturnCode(n, expr) ==
    LET a == CASE n.reg[expr] = None  -> LoadInto(n, expr, "eax")
               [] n.reg[expr] = "eax" -> n
               [] OTHER               -> Move(n, n.reg[expr], "eax")
    IN  Deallocate(Release(ReadRegister(a, expr, "eax"), expr), "eax")

CompareCode(n, result, left, right) ==
    LET a == BranchCode(n, left, right)
        b == AssignNew(a, result, Registers)
    IN  Save(Define(b, result, b.reg[result]), result)

\* + - * : the result takes over the register of the left operand.
ArithmeticCode(n, result, left, right) ==
    LET a == GetReg(n, result, left)
        b == ReadOperands(ReadRegister(a, left, a.reg[result]), {right})
    IN  Save(Release(Define(b, result, b.reg[result]), right), result)

\* / % : the divisor is not an immediate, the dividend is in eax, edx is free.
DivisorCode(n, right) ==
    IF right \in Numbers /\ n.reg[right] # "ecx"
    THEN LoadInto(Assign(Spill(n, "ecx"), right, "ecx"), right, "ecx")
    ELSE n

\* Mutation: eax is taken from whatever it was assigned to.
DividendWithoutSpill(n, left) ==
    IF n.reg[left] = None THEN LoadInto(n, left, "eax") ELSE Move(n, n.reg[left], "eax")

DividendCode(n, left) ==
    CASE n.reg[left] = None  -> LoadInto(Spill(n, "eax"), left, "eax")
      [] n.reg[left] = "eax" -> n
      [] OTHER               -> Move(Spill(n, "eax"), n.reg[left], "eax")

DivideCode(n, quotient, result, left, right) ==
    LET a == Clobber(Spill(DividendCode(DivisorCode(n, right), left), "edx"), "edx")
        b == ReadOperands(ReadRegister(a, left, "eax"), {right})
        to    == IF quotient THEN "eax" ELSE "edx"
        other == IF quotient THEN "edx" ELSE "eax"
        c == Release(Define(Clobber(b, other), result, to), right)
        d == Deallocate(c, c.reg[left])
    IN  Save(Assign(d, result, to), result)

NegateCode(n, result, expr) ==
    LET a == GetReg(n, result, expr)
        b == ReadRegister(a, expr, a.reg[result])
    IN  Save(Define(b, result, b.reg[result]), result)

\* movsbl of a character variable
ExtendCode(n, result, expr) ==
    LET a == AssignNew(n, result, Registers)
        b == ReadOperands(a, {expr})
    IN  Save(Define(b, result, b.reg[result]), result)

CopyCode(n, result, expr) ==
    IF expr \in Numbers /\ result \in Variables
    THEN [Define(n, result, None) EXCEPT !.mv = @ \cup {result}]
    ELSE LET a == GetReg(n, result, expr)
             b == ReadRegister(a, expr, a.reg[result])
         IN  Save(DefineAs(b, result, expr), result)

\* The address of an element in the register of s, the operand it leaves used.
LocalAddressCode(n, s, array, index) ==
    LET a == AssignNew(n, s, Registers)
        b == LoadInto(a, array, a.reg[s])
        c == ReadOperands(ReadRegister(b, array, b.reg[s]), {index})
    IN  Release(c, index)

GlobalAddressCode(n, s, array, index) ==
    LET a == GetReg(n, s, index)
    IN  ReadHome(ReadRegister(a, index, a.reg[s]), array)

PointerAddressCode(n, s, array, index) ==
    LET a == GetReg(n, s, index)
    IN  ReadOperands(ReadRegister(a, index, a.reg[s]), {array})

IndexCode(n, result, array, index) ==
    LET a == CASE array \in GlobalArrays  -> GlobalAddressCode(n, result, array, index)
               [] array \in PointerParams -> PointerAddressCode(n, result, array, index)
               [] array \in LocalArrays   -> LocalAddressCode(n, result, array, index)
        b == Define(a, result, a.reg[result])
    IN  Save(Release(b, array), result)

UpdateCode(n, array, index, expr) ==
    LET a == IF array \in LocalArrays
             THEN LocalAddressCode(n, array, array, index)
             ELSE GlobalAddressCode(n, array, array, index)
        b == Clobber(a, a.reg[array])
        pool == Registers \ {b.reg[array]}
        c == Load(b, expr, pool)
        d == IF expr \in Numbers THEN b
             ELSE Release(ReadRegister(c, expr, c.reg[expr]), expr)
    IN  Deallocate(d, d.reg[array])

ArgumentCode(n, arg) ==
    LET a == CASE arg \in LocalArrays ->
                    LoadInto(AssignNew(n, arg, Registers), arg, Allocated(n, Registers))
               [] arg \in Numbers \cup GlobalArrays -> n
               [] OTHER -> Load(n, arg, Registers)
    IN  Release(ReadOperands(a, {arg}), arg)

\* Mutation: edx is not taken to be caller-saved.
InvokeKeepsEdx(n, result) ==
    LET a == Clobber(Clobber(Clobber(Spill(Spill(n, "eax"), "ecx"), "eax"), "ecx"), "edx")
    IN  IF result = None THEN a
        ELSE Save(Define(Assign(a, result, "eax"), result, "eax"), result)

\* The callee may leave anything in the caller-saved registers.
InvokeCode(n, result) ==
    LET a == Spill(Spill(Spill(n, "eax"), "ecx"), "edx")
        b == Clobber(Clobber(Clobber(a, "eax"), "ecx"), "edx")
    IN  IF result = None THEN b
        ELSE Save(Define(Assign(b, result, "eax"), result, "eax"), result)

\* At a label the contents of the registers depend on the way it was reached.
BlockEndCode(n) ==
    [n EXCEPT !.sym = [r \in Registers |-> None],
              !.reg = [s \in Symbols |-> None],
              !.rv  = [r \in Registers |-> {}]]

-----------------------------------------------------------------------------
(* The steps.                                                              *)

\* Between statements the machine keeps what can still be read: a register
\* that belongs to nobody, and the home of a temporary that is not live, count
\* as containing nothing.  The code's own state is left alone.
Settled(n, temps) ==
    [n EXCEPT !.rv = [r \in Registers |-> IF n.sym[r] = None THEN {} ELSE @[r]],
              !.mv = @ \ (Temps \ temps)]

Init ==
    /\ m = Empty
    /\ live = {}
    /\ phase = "statements"
    /\ args = <<>>

InBlock == phase = "statements" /\ UNCHANGED <<phase, args>>

Compare ==
    /\ InBlock
    /\ \E left, right \in Operands, result \in NextResults :
           /\ Fit(left, right)
           /\ Used({left, right}, {result})
           /\ m' = Settled(CompareCode(m, result, left, right), live')

Arithmetic ==
    /\ InBlock
    /\ \E left, right \in Operands, result \in NextResults :
           /\ Fit(left, right)
           /\ Used({left, right}, {result})
           /\ m' = Settled(ArithmeticCode(m, result, left, right), live')

Divide ==
    /\ InBlock
    /\ \E left, right \in Operands, result \in NextResults, quotient \in BOOLEAN :
           /\ Fit(left, right)
           /\ Used({left, right}, {result})
           /\ m' = Settled(DivideCode(m, quotient, result, left, right), live')

Negate ==
    /\ InBlock
    /\ \E expr \in Operands, result \in NextResults :
           /\ Used({expr}, {result})
           /\ m' = Settled(NegateCode(m, result, expr), live')

\* Only a character variable is converted (parser.cpp, primaryExpression).
Extend ==
    /\ InBlock
    /\ \E expr \in Variables, result \in NextResults :
           /\ Used({expr}, {result})
           /\ m' = Settled(ExtendCode(m, result, expr), live')

\* The optimizer also copies to temporaries.
Copy ==
    /\ InBlock
    /\ \E expr \in Operands, result \in Variables \cup NextResults :
           /\ Used({expr}, {result})
           /\ m' = Settled(CopyCode(m, result, expr), live')

Index ==
    /\ InBlock
    /\ \E array \in Arrays, index \in Operands, result \in NextResults :
           /\ Used({index}, {result})
           /\ m' = Settled(IndexCode(m, result, array, index), live')

Update ==
    /\ InBlock
    /\ \E array \in Arrays, index, expr \in Operands :
           /\ Fit(index, expr)
           /\ Used({index, expr}, {})
           /\ m' = Settled(UpdateCode(m, array, index, expr), live')

Branch ==
    /\ phase = "statements" /\ phase' = "transferred" /\ UNCHANGED args
    /\ \E left, right \in Operands :
           /\ Fit(left, right)
           /\ Used({left, right}, {})
           /\ m' = Settled(BranchCode(m, left, right), live')

Jump ==
    /\ phase = "statements" /\ phase' = "transferred"
    /\ UNCHANGED <<m, live, args>>

\* A return is a statement of the source: no temporary is used after it.
Return ==
    /\ phase = "statements" /\ phase' = "transferred" /\ UNCHANGED args
    /\ live' = {}
    /\ \E expr \in Operands : m' = Settled(ReturnCode(m, expr), live')

\* Call::generate, in the order of its loop: the last argument first.
Call ==
    /\ phase = "statements" /\ phase' = "arguments" /\ UNCHANGED <<m, live>>
    /\ \E n \in 0..MaxArguments : args' \in [1..n -> Operands \cup Arrays]
    /\ \A i, j \in DOMAIN args' : args'[i] = args'[j] /\ i # j => args'[i] \notin Temps

LoadArgument ==
    /\ phase = "arguments" /\ args # <<>>
    /\ args' = SubSeq(args, 1, Len(args) - 1)
    /\ Used({args[Len(args)]}, {})
    /\ m' = Settled(ArgumentCode(m, args[Len(args)]), live')
    /\ UNCHANGED phase

Invoke ==
    /\ phase = "arguments" /\ args = <<>> /\ phase' = "statements"
    /\ \E result \in NextResults \cup {None} :
           /\ Used({}, {result} \ {None})
           /\ m' = Settled(InvokeCode(m, result), live')
    /\ UNCHANGED args

\* A label: the end of this block.  A temporary not used so far never will be.
BlockEnd ==
    /\ phase # "arguments" /\ phase' = "statements"
    /\ live' = IF TempsCrossBlocks THEN live ELSE {}
    /\ m' = Settled(BlockEndCode(m), live')
    /\ UNCHANGED args

Next ==
    \/ Compare \/ Arithmetic \/ Divide \/ Negate \/ Extend \/ Copy \/ Index
    \/ Update \/ Branch \/ Jump \/ Return \/ Call \/ LoadArgument \/ Invoke
    \/ BlockEnd

Spec == Init /\ [][Next]_vars

-----------------------------------------------------------------------------
(* Properties.                                                             *)

TypeOK ==
    /\ m \in Machine
    /\ live \in SUBSET Temps
    /\ phase \in {"statements", "arguments", "transferred"}
    /\ args \in Seq(Symbols)

\* The two halves of the descriptors, Register::_symbol and Symbol::_register,
\* are inverses of each other: no register is assigned twice, none leaks.
DescriptorsAgree == Agree(m)

\* A symbol is printed as its register by operator<< whenever it has one, so
\* the register must then contain its current value.
RegistersTruthful == Truthful(m)

\* Between statements a register belongs to nobody or to a temporary that is
\* still to be used: operands are released, variables written back, addresses
\* dropped, on every path through every generate().
OnlyLiveTempsInRegisters ==
    phase # "transferred" => \A r \in Registers : m.sym[r] \in live \cup {None}

\* A temporary that is still to be used can be read: from its register, or
\* from the memory it was spilled to.
LiveTempsRecoverable == \A t \in live : Current(m, t)

\* "a source operand ... can be reread from memory" (generator.cpp): the home
\* of everything that is not a temporary always contains its value.
VariablesInMemory == Symbols \ Temps \subseteq m.mv

\* No emitted instruction reads a place that does not contain the operand.
NoStaleOperand == m.stale = {}
=============================================================================
