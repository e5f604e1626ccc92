------------------------------- MODULE CopyProp -------------------------------
(***************************************************************************)
(* Available copies and copy propagation (optimizer.cpp: doAvailCopies and *)
(* doCprop; cp_uni, cp_gen_kill and cprop of the statements, Statement.h). *)
(* After a copy x := y, x is replaced by y where neither was assigned      *)
(* since on any path.                                                      *)
(*                                                                         *)
(* Three maps from the addresses of blocks to sets of copies, which are    *)
(* pairs <<x, y>>, are global: they outlive the blocks, which are deleted  *)
(* and allocated again whenever the flowgraph is rebuilt.                  *)
(*                                                                         *)
(* A statement has an op, a result and the sequence of symbols it reads:   *)
(*                                                                         *)
(*   "copy"    result := reads[1]                                          *)
(*   "assign"  any other assignment of a scalar                            *)
(*   "call"    assigns its result, if any, and maybe globals               *)
(*   "index"   assigns a temporary, but neither kills copies nor is        *)
(*             rewritten: it relies on a temporary being new               *)
(*   "use"     a branch or a return                                        *)
(***************************************************************************)
EXTENDS Integers, FiniteSets, SequencesExt, Reachability

CONSTANTS
    Symbols,
    None,       \* no symbol
    Programs,   \* [blocks: the statements of each block, succ: the successors
                \* of each block, globals: those of the symbols that are global]
    Reuse,      \* whether deleted blocks are allocated again
    MaxPasses   \* bound: the passes of the propagation that are followed

ASSUME SymbolsFinite == IsFiniteSet(Symbols)
ASSUME NoneIsNoSymbol == None \notin Symbols
ASSUME ReuseIsBoolean == Reuse \in BOOLEAN
ASSUME MaxPassesPositive == MaxPasses \in Nat \ {0}

AllStatements ==
    {s \in [op : {"copy", "assign", "call", "index", "use"},
            result : Symbols \cup {None}, reads : Seq(Symbols)] :
        s.op = "copy" => s.result \in Symbols /\ Len(s.reads) = 1}

\* The copy that a statement is.
CopyOf(s) == IF s.op = "copy" THEN {<<s.result, s.reads[1]>>} ELSE {}

\* The paths of at most this many blocks from the entry.
Paths(succ, length) ==
    LET f[n \in 0..length] ==
            IF n = 0 THEN {}
            ELSE {<<1>>} \cup UNION {{Append(p, b) : b \in succ[Last(p)]} : p \in f[n - 1]}
    IN  f[length]

\* Before statement i of its last block, the path makes no copy of symbol t or to it.
CopyFree(list, path, i, t) ==
    \A k \in DOMAIN path : \A j \in DOMAIN list[path[k]] :
        k < Len(path) \/ j < i => \A c \in CopyOf(list[path[k]][j]) : t \notin {c[1], c[2]}

\* The result of an index is a new temporary (newTemp): if the statement can be
\* reached, it can be reached without a copy that has to do with its result.
NewTemps(g) ==
    LET n == Len(g.blocks)
    IN  \A b \in Reach(g.succ, {1}, n) : \A i \in DOMAIN g.blocks[b] :
            g.blocks[b][i].op = "index" =>
                \E p \in Paths(g.succ, n) :
                    Last(p) = b /\ CopyFree(g.blocks, p, i, g.blocks[b][i].result)

\* A function as the translator makes it.
IsFunction(g) ==
    /\ g \in [blocks : Seq(Seq(AllStatements)), succ : Seq(SUBSET Nat), globals : SUBSET Symbols]
    /\ Len(g.blocks) >= 1
    /\ g.succ \in [DOMAIN g.blocks -> SUBSET DOMAIN g.blocks]
    /\ NewTemps(g)

ASSUME ProgramsAreFunctions == \A g \in Programs : IsFunction(g)

-----------------------------------------------------------------------------
(* What the statements of a function do to the copies                      *)

\* Mutation: only the copies to the symbol that is assigned are killed.
KillsResultOnly(g, s, all) ==
    {c \in all : \/ s.op # "index" /\ c[1] = s.result
                 \/ s.op = "call" /\ c[1] \in g.globals}

\* The copies among all that do not hold any more after statement s.
Kills(g, s, all) ==
    LET assigned == (IF s.op = "index" THEN {} ELSE {s.result})
                    \cup (IF s.op = "call" THEN g.globals ELSE {})
    IN  {c \in all : c[1] \in assigned \/ c[2] \in assigned}

\* cp_gen_kill
Gen(g, gen, s, all) == (gen \ Kills(g, s, all)) \cup CopyOf(s)
Kill(g, kill, s, all) == kill \cup Kills(g, s, all) \cup CopyOf(s)

\* The same for the first n statements of a list.
GenThrough(g, gen, list, all, n) ==
    LET f[i \in 0..Len(list)] == IF i = 0 THEN gen ELSE Gen(g, f[i - 1], list[i], all)
    IN  f[n]

KillThrough(g, kill, list, all, n) ==
    LET f[i \in 0..Len(list)] == IF i = 0 THEN kill ELSE Kill(g, f[i - 1], list[i], all)
    IN  f[n]

-----------------------------------------------------------------------------
VARIABLES
    program,
    code,       \* its blocks, as they are now
    addr,       \* for each block, its address
    deCopies, copyKill, availIn,    \* address |-> copies
    universe,   \* all the copies that were ever seen
    phase,      \* "start", "analyse", "propagate" or "done"
    block, at,  \* the block, and the statement of it, that is next
    changed,
    passes

vars == <<program, code, addr, deCopies, copyKill, availIn, universe, phase, block, at,
          changed, passes>>

Blocks == DOMAIN code

\* The function as it is now.
Current == [blocks |-> code, succ |-> program.succ, globals |-> program.globals]

\* Where the blocks of each pass are allocated.
Addresses == (1..MaxPasses) \X Blocks
Predecessors(b) == {p \in Blocks : b \in program.succ[p]}

Statements == UNION {{code[b][i] : i \in DOMAIN code[b]} : b \in Blocks}

-----------------------------------------------------------------------------
(* doAvailCopies                                                           *)

\* The sets of each block continue from what its address has in the maps.
InitCopies ==
    LET all == universe \cup UNION {CopyOf(s) : s \in Statements}
        BlockAt(a) == CHOOSE b \in Blocks : addr[b] = a
        used == {addr[b] : b \in Blocks}
    IN  /\ phase = "start" /\ phase' = "analyse"
        /\ universe' = all
        /\ deCopies' = [a \in Addresses |-> IF a \notin used THEN deCopies[a] ELSE
                           LET list == code[BlockAt(a)]
                           IN  GenThrough(Current, deCopies[a], list, all, Len(list))]
        /\ copyKill' = [a \in Addresses |-> IF a \notin used THEN copyKill[a] ELSE
                           LET list == code[BlockAt(a)]
                           IN  KillThrough(Current, copyKill[a], list, all, Len(list))]
        /\ availIn' = [a \in Addresses |-> IF a \notin used THEN availIn[a] ELSE
                           IF a = addr[1] THEN {} ELSE all]
        /\ block' = 1 /\ at' = 1 /\ changed' = FALSE
        /\ UNCHANGED <<program, code, addr, passes>>

\* Mutation: a copy is available if it is at the end of some predecessor.
AvailFromAny(b) ==
    LET in == [availIn EXCEPT ![addr[b]] = {}]
        out(p) == deCopies[addr[p]] \cup (in[addr[p]] \ copyKill[addr[p]])
    IN  availIn[addr[b]] \cap UNION {out(p) : p \in Predecessors(b)}

\* What is available at the end of all predecessors.  The set of the block
\* itself is empty while it is computed, which a block that follows itself sees.
AvailFrom(b) ==
    LET in == [availIn EXCEPT ![addr[b]] = {}]
        out(p) == deCopies[addr[p]] \cup (in[addr[p]] \ copyKill[addr[p]])
    IN  {c \in availIn[addr[b]] : \A p \in Predecessors(b) : c \in out(p)}

VisitBlock ==
    /\ phase = "analyse" /\ block <= Len(code)
    /\ availIn' = [availIn EXCEPT ![addr[block]] = AvailFrom(block)]
    /\ changed' = (changed \/ availIn' # availIn)
    /\ block' = block + 1
    /\ UNCHANGED <<program, code, addr, deCopies, copyKill, universe, phase, at, passes>>

\* The propagation continues in block b with what is available there.
EnterBlock(b) ==
    /\ block' = b /\ at' = 1
    /\ deCopies' = [deCopies EXCEPT ![addr[b]] = availIn[addr[b]]]
    /\ copyKill' = [copyKill EXCEPT ![addr[b]] = {}]

EndPass ==
    /\ phase = "analyse" /\ block > Len(code)
    /\ IF changed THEN block' = 1 /\ UNCHANGED <<phase, at, deCopies, copyKill>>
       ELSE phase' = "propagate" /\ EnterBlock(1)
    /\ changed' = FALSE
    /\ UNCHANGED <<program, code, addr, availIn, universe, passes>>

-----------------------------------------------------------------------------
(* doCprop                                                                 *)

\* Mutation: both symbols of a copy are looked for.
PropagatesEither(s, gen) ==
    s.op # "index" /\ \E c \in gen, i \in DOMAIN s.reads : s.reads[i] \in {c[1], c[2]}

\* Statement s reads a symbol that a copy was made to.
Propagates(s, gen) ==
    s.op # "index" /\ \E c \in gen, i \in DOMAIN s.reads : c[1] = s.reads[i]

\* The symbols that s may be replaced by: one or several copies are followed,
\* as the order of an unordered set has it.
Replacements(gen, s) ==
    LET next == [x \in Symbols |-> {c[2] : c \in {d \in gen : d[1] = x}}]
    IN  IF next[s] = {} THEN {s} ELSE Reach(next, next[s], Cardinality(Symbols))

\* cprop
Rewritten(s, gen) ==
    {[s EXCEPT !.reads = reads] : reads \in
        {q \in [DOMAIN s.reads -> Symbols] :
            \A i \in DOMAIN q : q[i] \in Replacements(gen, s.reads[i])}}

\* Nothing is rewritten any more after the first statement that was: changed
\* is tested before cprop is called.
PropagateStatement ==
    /\ phase = "propagate" /\ at <= Len(code[block])
    /\ LET s == code[block][at]
           a == addr[block]
           gen == Gen(Current, deCopies[a], s, universe)
           found == ~changed /\ Propagates(s, gen)
       IN  /\ deCopies' = [deCopies EXCEPT ![a] = gen]
           /\ copyKill' = [copyKill EXCEPT ![a] = Kill(Current, @, s, universe)]
           /\ changed' = (changed \/ found)
           /\ IF found THEN \E t \in Rewritten(s, gen) : code' = [code EXCEPT ![block][at] = t]
              ELSE UNCHANGED code
           /\ universe' = universe \cup UNION {CopyOf(t) : t \in Statements'}
    /\ at' = at + 1
    /\ UNCHANGED <<program, addr, availIn, phase, block, passes>>

NextBlock ==
    /\ phase = "propagate" /\ at > Len(code[block]) /\ block < Len(code)
    /\ EnterBlock(block + 1)
    /\ UNCHANGED <<program, code, addr, availIn, universe, phase, changed, passes>>

\* The addresses that the blocks can be given when the flowgraph is rebuilt.
NewAddresses ==
    IF Reuse THEN {a \in [Blocks -> {addr[b] : b \in Blocks}] :
                      \A b, c \in Blocks : a[b] = a[c] => b = c}
    ELSE {[b \in Blocks |-> <<passes + 1, b>>]}

\* If a statement was rewritten the flowgraph is rebuilt and all is done again.
EndPropagation ==
    /\ phase = "propagate" /\ at > Len(code[block]) /\ block = Len(code)
    /\ IF changed /\ passes < MaxPasses
       THEN phase' = "start" /\ passes' = passes + 1 /\ addr' \in NewAddresses
       ELSE phase' = "done" /\ UNCHANGED <<passes, addr>>
    /\ UNCHANGED <<program, code, deCopies, copyKill, availIn, universe, block, at, changed>>

Init ==
    /\ program \in Programs /\ code = program.blocks
    /\ addr = [b \in Blocks |-> <<1, b>>]
    /\ deCopies = [a \in Addresses |-> {}]
    /\ copyKill = deCopies /\ availIn = deCopies /\ universe = {}
    /\ phase = "start" /\ block = 1 /\ at = 1 /\ changed = FALSE /\ passes = 1

Next ==
    \/ InitCopies \/ VisitBlock \/ EndPass
    \/ PropagateStatement \/ NextBlock \/ EndPropagation

Spec == Init /\ [][Next]_vars /\ WF_vars(Next)

-----------------------------------------------------------------------------
(* Properties, against what the statements do along the paths.             *)

\* A run has the values of the symbols and the values that were read, in their
\* order.  A value is named by where it came from.
AtStart == [values |-> [s \in Symbols |-> <<0, 0, s>>], read |-> <<>>]

After(g, run, s, k, i) ==
    LET assigned == {s.result} \cup (IF s.op = "call" THEN g.globals ELSE {})
        new(v) == IF s.op = "copy" THEN run.values[s.reads[1]] ELSE <<k, i, v>>
    IN  [values |-> [v \in Symbols |-> IF v \in assigned THEN new(v) ELSE run.values[v]],
         read |-> run.read \o [j \in DOMAIN s.reads |-> run.values[s.reads[j]]]]

\* The run through the first n statements of a list, the k-th on a path.
Through(g, run, list, k, n) ==
    LET f[i \in 0..Len(list)] == IF i = 0 THEN run ELSE After(g, f[i - 1], list[i], k, i)
    IN  f[n]

\* The run along the first n blocks of a path.
Along(g, path, n) ==
    LET f[k \in 0..Len(path)] ==
            IF k = 0 THEN AtStart
            ELSE LET list == g.blocks[path[k]] IN Through(g, f[k - 1], list, k, Len(list))
    IN  f[n]

PathLength == Len(code) + 2     \* bound: a loop is taken twice

\* After every pass the statements read the same values as they did at first,
\* along every path.
ReadsPreserved ==
    phase \in {"start", "done"} =>
        \A p \in Paths(program.succ, PathLength) :
            Along(Current, p, Len(p)).read = Along(program, p, Len(p)).read

\* A copy that is available at the start of a block has been made and holds,
\* whichever way the block was reached: by a branch, round a loop, past a call.
AvailableHolds ==
    phase = "propagate" /\ block = 1 /\ at = 1 =>
        \A p \in Paths(program.succ, PathLength) :
            LET before == Along(Current, p, Len(p) - 1).values
            IN  \A c \in availIn[addr[Last(p)]] : before[c[1]] = before[c[2]]

\* The propagation comes to an end by itself, before the bound: symbols are not
\* replaced by each other in turns.
PropagationSettles == <>(phase = "done" /\ ~changed)
=============================================================================
