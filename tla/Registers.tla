------------------------------ MODULE Registers ------------------------------
(***************************************************************************)
(* The register descriptors of the code generator and the primitives that  *)
(* move values between registers and memory (generator.cpp).               *)
(*                                                                         *)
(* A machine m is a record that carries the compiler's own state           *)
(*                                                                         *)
(*   m.sym[r]   the symbol register r is assigned to  (Register::_symbol)  *)
(*   m.reg[s]   the register symbol s is assigned to  (Symbol::_register)  *)
(*                                                                         *)
(* and what the emitted code does when it runs, abstracted to the symbols  *)
(* whose current value a place contains:                                   *)
(*                                                                         *)
(*   m.rv[r]    the symbols whose current value is in register r           *)
(*   m.mv       the symbols whose home in memory contains their value      *)
(*   m.stale    the symbols an emitted instruction has read from a place   *)
(*              that did not contain their current value                   *)
(*                                                                         *)
(* The dirty flag of a register is left out: it is written and never read. *)
(***************************************************************************)
EXTENDS Naturals

CONSTANTS
    Variables,      \* scalars of kind LOCAL or GLOBAL (also && and || results)
    Temps,          \* symbols of kind TEMP
    Numbers,        \* symbols of kind NUM
    LocalArrays,    \* arrays in the frame: their address is computed
    PointerParams,  \* array parameters: their address is in memory
    GlobalArrays,   \* global arrays: their address is an immediate
    None            \* the null pointer

Arrays == LocalArrays \cup PointerParams \cup GlobalArrays
Symbols == Variables \cup Temps \cup Numbers \cup Arrays

\* The caller-saved registers; a pool is a nonempty set of them, which the
\* allocator goes through in this order.
Registers == {"eax", "ecx", "edx"}
Order == [eax |-> 1, ecx |-> 2, edx |-> 3]

\* The kinds of symbol are disjoint, and a null pointer is none of them.
ASSUME NoneIsNull == None \notin Symbols \cup Registers
ASSUME KindsDisjoint ==
    /\ Variables \cap Temps = {} /\ Variables \cap Numbers = {}
    /\ Temps \cap Numbers = {}
    /\ Arrays \cap (Variables \cup Temps \cup Numbers) = {}
    /\ LocalArrays \cap (PointerParams \cup GlobalArrays) = {}
    /\ PointerParams \cap GlobalArrays = {}

Machine ==
    [sym   : [Registers -> Symbols \cup {None}],
     reg   : [Symbols -> Registers \cup {None}],
     rv    : [Registers -> SUBSET Symbols],
     mv    : SUBSET Symbols,
     stale : SUBSET Symbols]

\* At the start of a function nothing is in a register, and everything but a
\* temporary has its value (or its address) in memory or in the instruction.
Empty ==
    [sym   |-> [r \in Registers |-> None],
     reg   |-> [s \in Symbols |-> None],
     rv    |-> [r \in Registers |-> {}],
     mv    |-> Symbols \ Temps,
     stale |-> {}]

\* The two halves of the descriptors are inverses of each other.
Agree(m) == \A r \in Registers, s \in Symbols : m.sym[r] = s <=> m.reg[s] = r

\* A register that belongs to a symbol contains its value.
Truthful(m) == \A r \in Registers : m.sym[r] # None => m.sym[r] \in m.rv[r]

-----------------------------------------------------------------------------
(* The descriptors: assign, deallocate, release.                           *)

\* First half of assign: symbol s leaves the register it was in and points to r.
PointSymbol(m, s, r) ==
    IF s = None THEN m
    ELSE [m EXCEPT !.sym = [q \in Registers |-> IF q = m.reg[s] THEN None ELSE @[q]],
                   !.reg[s] = r]

\* Mutation: the symbol the register was assigned to is not told.
PointRegisterOneWay(m, s, r) == IF r = None THEN m ELSE [m EXCEPT !.sym[r] = s]

\* Second half of assign: register r drops its symbol and points to s.
PointRegister(m, s, r) ==
    IF r = None THEN m
    ELSE [m EXCEPT !.reg = [x \in Symbols |-> IF x = m.sym[r] THEN None ELSE @[x]],
                   !.sym[r] = s]

Assign(m, s, r) == PointRegister(PointSymbol(m, s, r), s, r)

Deallocate(m, r) == Assign(m, None, r)

\* release: nextuse is defined as false, so the register is always given up.
Release(m, s) == Deallocate(m, m.reg[s])

-----------------------------------------------------------------------------
(* The emitted data transfers: load, store, move.                          *)

\* A load of s brings its current value only if its home contains it.
LoadInto(m, s, r) == [m EXCEPT !.rv[r] = {s} \cap m.mv]

Move(m, from, to) == [m EXCEPT !.rv[to] = m.rv[from]]

Store(m, r, s) ==
    [m EXCEPT !.mv = IF s \in m.rv[r] THEN @ \cup {s} ELSE @ \ {s}]

\* An operand is printed as its register if it has one, else as its memory
\* (or as an immediate): does that place contain the current value of s?
Current(m, s) == IF m.reg[s] # None THEN s \in m.rv[m.reg[s]] ELSE s \in m.mv

\* Code that reads these operands has been emitted.
ReadOperands(m, operands) ==
    [m EXCEPT !.stale = @ \cup {s \in operands : ~Current(m, s)}]

\* Code that reads the home of s (operand(s)) whatever register s has.
ReadHome(m, s) == [m EXCEPT !.stale = @ \cup ({s} \ m.mv)]

\* Code that reads the value of s out of register r has been emitted.
ReadRegister(m, s, r) == [m EXCEPT !.stale = @ \cup ({s} \ m.rv[r])]

\* Code that overwrites r with something that is no symbol's value.
Clobber(m, r) == [m EXCEPT !.rv[r] = {}]

\* Code that computes a new value of s into r: every other copy is now old.
Define(m, s, r) ==
    [m EXCEPT !.rv = [q \in Registers |-> IF q = r THEN {s} ELSE @[q] \ {s}],
              !.mv = @ \ {s}]

\* The value of s becomes that of t, wherever t's value is.
DefineAs(m, s, t) ==
    IF s = t THEN m
    ELSE [m EXCEPT !.rv = [q \in Registers |->
                              IF t \in @[q] THEN @[q] \cup {s} ELSE @[q] \ {s}],
                   !.mv = @ \ {s}]

-----------------------------------------------------------------------------
(* The allocator: spill, allocate, load, getreg, save.                     *)

\* Mutation: the register is given up without being stored.
SpillWithoutStore(m, r) == Deallocate(m, r)

Spill(m, r) ==
    IF m.sym[r] = None THEN m ELSE Deallocate(Store(m, r, m.sym[r]), r)

First(registers) ==
    CHOOSE r \in registers : \A q \in registers : Order[r] <= Order[q]

FreeIn(m, pool) == {r \in pool : m.sym[r] = None}

\* The register allocate returns: the first free one, else the first of the pool.
Allocated(m, pool) ==
    IF FreeIn(m, pool) = {} THEN First(pool) ELSE First(FreeIn(m, pool))

\* allocate: nothing happens to a free register; a taken one is spilled.
Allocate(m, pool) ==
    IF FreeIn(m, pool) = {} THEN Deallocate(Spill(m, First(pool)), First(pool)) ELSE m

\* assign(s, allocate(pool))
AssignNew(m, s, pool) == Assign(Allocate(m, pool), s, Allocated(m, pool))

\* load(sym, pool): s is brought into a register only if it is in none.
Load(m, s, pool) ==
    IF m.reg[s] # None THEN m
    ELSE LoadInto(AssignNew(m, s, pool), s, Allocated(m, pool))

\* getreg: dst takes over the register of src, or gets one and src is loaded.
GetReg(m, dst, src) ==
    CASE src # dst /\ m.reg[src] # None -> Assign(m, dst, m.reg[src])
      [] src # dst /\ m.reg[src] = None ->
            LET n == AssignNew(m, dst, Registers)
            IN  LoadInto(n, src, n.reg[dst])
      [] src = dst -> Load(m, src, Registers)

\* Mutations: the variable is not written back; its register is not given up.
SaveWithoutStore(m, s) == IF s \in Variables THEN Release(m, s) ELSE m
SaveWithoutRelease(m, s) == IF s \in Variables THEN Store(m, m.reg[s], s) ELSE m

\* save: a variable is written back at once and its register given up.
Save(m, s) ==
    IF s \in Variables THEN Release(Store(m, m.reg[s], s), s) ELSE m
=============================================================================
