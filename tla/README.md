# A verification project for the Tiny C compiler

The compiler in `src/src` translates one function at a time: the parser builds a
syntax tree, the checker decorates it, the translator turns it into a list of
three-address statements, the optimizer rewrites that list, and the code generator
prints 32-bit x86 assembly. Everything is sequential. What makes it hard is state
that outlives the step that made it (register descriptors, value numbers, data-flow
sets by block address), orders that nobody wrote down (spills in the middle of a
statement, passes that undo each other), and loops that are to reach a fixed point.

The modules here model the parts in which that state lives. TLC checks them on small
instances; TLAPS proves, for all of them, the safety properties of the code generator
and its stack frames, of the flowgraph, of dead code elimination and of copy propagation.

## 1. The system

| Part | State | Operations | What makes it correct |
| --- | --- | --- | --- |
| Register allocator (`generator.cpp:194-485`) | `Register::_symbol`, `Symbol::_register` | assign, deallocate, release, spill, allocate, load, getreg, save | the two pointers agree; a register that belongs to a symbol contains its value |
| Code generation (`generator.cpp:500-900`) | the same, and the assembly printed | `generate()` of 12 kinds of statement, the argument loop, the block loop | no operand is printed as a place without its value; no value still needed is lost; every register is given up |
| Translator (`translator.cpp`) | the list, label and temporary counters, `node->_symbol` | `test`, `generate` | the list does what the tree means; labels are placed once; temporaries are used as the generator assumes |
| Flowgraph (`flowgraph.cpp`, `Block.cpp`) | the list, `forward` and `needed` maps, blocks, edges | insert, merge, thread, drop, remove, build | the meaning of the list is kept, blocks are delimited, edges cover the control flow, the rebuild ends |
| Live variables, dead code (`optimizer.cpp:327-505`) | `_UEVar`, `_VarKill`, `_LiveOut` of each block | initLVA, doLVA, doDCE, doDFS | what is deleted is not read on any path |
| Copy propagation (`optimizer.cpp:186-291`, `Statement.h`) | `DECopies`, `CopyKill`, `AvailIn`, `universe`, all global | doAvailCopies, doCprop | a copy is used only where it holds on every path |
| Simplification, folding, value numbering (`optimizer.cpp:293-325, 507-558`, `Statement.cpp:470-798`) | `sym_int`, `expr_int`, `val_num` | simplify, cfold, valnum | the outcome of every statement is kept; equal numbers mean equal values; the rewriting ends |
| Pipeline (`optimizer.cpp:73-116`) | `changed` | optimizeStatements | the fixed point exists |
| Frame (`generator.cpp:108-176, 850-930`) | `offset`, `_offset` of each symbol, `max_args` | operand, generateFunction | places do not overlap; the frame holds them and the arguments, aligned |
| Globals and literals (`generator.cpp:165, 933-960`, `literal.cpp`) | `literals`, `strings` | makeLiteral, generateGlobals | a label is that of one literal |
| Checker, scopes, types (`checker.cpp`, `Scope.cpp`, `Type.cpp`, `Symbol.cpp`) | the chain of scopes, types, errors | insertName, lookup..., checkCall, ... | a name is that of its innermost declaration; what breaks a rule, and only that, is reported |
| Lexer and escapes (`lexer.l`, `string.cpp`) | none | checkNumber, checkString, parseString, escapeString | a literal reaches the assembler as it was meant |
| Parser, driver, listing (`parser.cpp`, `Node.cpp`) | the word and the one after it, option flags | recursive descent, `main` | the tree is the one that precedence, associativity and nesting mean |

How they interact. The statements are shared: the optimizer edits the list the
flowgraph's blocks have iterators into, so every edit is followed by a rebuild, which
deletes and reallocates the blocks. The code generator relies on an assumption about
temporaries that its header states (`generator.cpp:9-11`: a source operand is never
used again or can be reread from memory) and the translator and the optimizer have
to respect. The global maps of the optimizer refer to symbols and blocks by address. The
parser calls the checker for every name, in the middle of what it parses, and the code
of a function is generated before the next one is read: whether a function is
generated depends on the errors up to there, and a spill in the body moves the place
of the arguments that the prologue has to leave room for.

`PROJECT.json` lists every part with its status, and the hazards at their lines.

## 2. What is modelled

### Registers, Generator — the code generator

`Registers` has the machine `m`: the two halves of the descriptors (`m.sym`, `m.reg`)
and, because the question is what the *emitted* code does, the symbols whose current
value each register and each home in memory contains (`m.rv`, `m.mv`). Each
primitive of `generator.cpp` is an operator on machines with the same name. Code
that is printed to read an operand from a place without its value puts the operand
in `m.stale`.

`Generator` has one action per `X::generate()`; a call is a sequence of steps, one
per argument, as its loop is. Statements are inputs: any sequence of them, with any
operands, subject to what the translator guarantees about temporaries. `live` is the
set of temporaries defined and not used yet. The guarantee can be weakened by two
constants, `TempsCrossBlocks` and `TempsReused`.

After every statement `Settled` forgets what no later instruction can depend on: the
contents of registers that belong to nobody and of homes of temporaries that are not
live. It only takes knowledge away (a place that may contain a value is taken not to),
so a property that holds with it holds without it; it keeps the state space finite
and small. The dirty flag of a register is never read and is left out. Character
registers (`%al`) are the low part of the same registers and are not told apart.

### Translator, Semantics — the translator

`Translator` has `test` and `generate` as `Test` and `Generate`, from records (list,
label and temporary counters, symbol of the node) to records. `Semantics` is the
reference: what a tree means, evaluated left to right with `&&` and `||` as far as
necessary, and what a list of statements does. Calls and array accesses are events;
an oracle chosen with the input says what they return, and a run stops when the
oracle ends (`MaxEvents`), which bounds loops. Both modules use RECURSIVE operators,
as trees are recursive, and are for TLC only.

### FlowGraph — the flowgraph

The passes of `cleanup` (insert and merge labels, thread jumps, drop jumps to the next
statement, remove labels) and `buildBasicBlocks`, in the order and the repetition of
the source. The iteration that moves its iterator by hand and the chase of a final
label, which may not end, are one step per turn. Between two rebuilds the optimizer
may fold branches, delete statements and delete unreachable blocks, in any way.
`given` remembers the list a rebuild started on. `ProgramsAreDelimited` is what the
translator sees to: a label at either end, each label placed once, and placed if it is
referred to. The dereference after the last
statement (`flowgraph.cpp:137`) reads the size of the list where a pointer is expected
in the implementations of the library; it is compared with a null target, never
equal, and is left out.

### LiveVars — live variables and dead code

One step per edge in the analysis, since `changed` is assigned per edge, and one per
statement in the elimination, which goes backwards. Then `Sweep` empties the blocks that
`doDFS` does not mark, and the next round begins with what is left, until a round
changes nothing; other passes do nothing in between, and a rebuild of the flowgraph
only matters in that blocks that were emptied are there no more. `Exists` says which
are, and why a round may never be the last: the exit block has no successors and always
exists, so that a function that cannot reach its exit changes in every round
(`optimizer.cpp:479-486`; `tcc -D` does not finish on `while (1) a = a + 1;`).

Properties are stated against paths of the graph. `Completes` names the graphs for
which the analysis is known to be complete although `changed` is overwritten
(`optimizer.cpp:368`): those without a back edge, and those with one whose first pass found
something live at the entry. `LosesCall` names the two things that the elimination is
wrong about by itself: a call is deleted if its result is dead, and a global is not kept
for the call that reads it (`optimizer.cpp:434-446`; the lines for it are commented out).
The steps are modelled as they are; `DeletesOnlyUseless` says that nothing else goes wrong.

### CopyProp — copy propagation

The maps by block address are functions of addresses that live on when the flowgraph
is rebuilt. `Reuse = FALSE` gives the new blocks new addresses; `Reuse = TRUE` lets
the allocator give them any addresses of the deleted ones: an address is a pair of the
pass in which it was allocated first and a block. `IsFunction` has what the translator sees to:
the result of an index is a new temporary (`newTemp`), so that it can be reached without
a copy of it or to it (`NewTemps`). A symbol may be replaced
through one or several copies, as the order of the unordered set has it. What other
passes do between two propagations is left out, and so are self-copies `x := x`,
which `Copy::simplify` deletes before (option `-C` implies `-X`).

### LocalOpts — simplification, folding, value numbering

`simplify`, `cfold` and `valnum`, one step per statement, repeated until nothing
changes, at each level of optimization (`-Z`; `-X`, which implies `-Z`; `-L`, which
implies both, `parser.cpp:1037-1059`). Symbols and their names are kept apart:
`simplify` compares names, `valnum` compares symbols, and numbers that the optimizer
makes are symbols of their own. Numbers have the value the machine reads and the
decimal reading of `stoi`, which differ for octal ones; integers wrap. Folding
computes with the compiler's machine and traps where it does. `Unary::valnum` writes
through `lvn_expr`, which is never set; it is modelled as the compiler stopping, which
it does on every unary minus under `-L`. The iteration order of the maps, by pointer,
is a free choice of the symbol that replaces an expression.

`Half` and `CharHalf` are the ranges of integers and characters. `IsTranslated` is what the
translator sees to: the result of an operation or a call is a temporary of its own, and no
character. `Unharmed` leaves out what the code is known to get wrong, by four conditions:
variables of one name, which `simplify` takes for one (`NamesApart`); octal numbers
of which the two readings matter (`OctalsPlain`); and, where values are numbered, values that do
not fit in the character they are copied to (`CharactersFit`) and control that
joins (`JoinsUnnumbered`).

### Machine, Frame — the stack frame

`Machine` has the sizes of `machine.h` and integers of `2 * Half` values that wrap.
`Frame` has a function's frame while its code is generated: one turn of the prologue's
loop is `PlaceSymbol`, `operand` for a temporary without a place `PlaceTemp`, the call
that counts its arguments `PassArguments`, and the epilogue that fixes the size
`FixSize`. `places` has the offset and the size of each symbol, in the order in which
they were placed. Offsets and sizes are computed in an `int` and an `unsigned` without a
check, so that they may wrap (`wrapped` remembers it; `int a[1073741824]` has size 0): the
properties are about frames where nothing does. `FrameSpec` is a frame by itself, for any
function: parameters and local variables of any sizes, spills and calls in any order.

### Checker, Literals, Parser, Source, Compiler — from tokens to assembly

`Checker` and `Parser` are operators on a record, which has the tokens that are left, the
tree that was returned, the scopes and the number of errors. Each function of
`parser.cpp` and `checker.cpp` is an operator of (nearly) the same
name, what it does after a call often one of its own (`Bracketed`, `Begun`), and is called
where the code calls it: a name that is declared by being called, or by being reported, is
known from there on, and what is reported later depends on it. The functions for the levels of binary operators, which differ in their operators
only, are one operator with the level as a parameter. Tokens are atoms; those that the
lexer checks are looked up in tables of literals. `Literals` has the escape sequences on
texts that are sequences of character codes, with the octal numbers as `escapeString`
writes them, and what the assembler reads from the result (external).

`Source` is the reference: programs as trees, how they are written with as few parentheses
as possible, which tree is meant, with the declaration of each name, widened characters
and scaled indices, and which declarations break a rule. It shares with the parser the
constructors of types and nodes, and never looks at tokens or scopes. A program is
written down, loses up to `MaxLost` tokens at its end, and is parsed.

`Compiler` composes them: a declaration is parsed in one step, which is all the state
that anybody else sees; then the frame of the function is laid out, calls are
generated and temporaries spilled, and the next declaration is parsed; the global data
comes last. The statements between the tree and the calls are those of the other modules
and are abstracted to what they can do to the frame and the labels: the optimizer leaves
any of the calls, they come in any order, and up to `MaxSpills` temporaries are
spilled anywhere in between. `strings[sym] = strings.size()` may read the size before or
after it inserts (the language leaves it open before C++17): `late`. A function that was
declared by its call has the kind of the scope of the call, and `operand` takes it for a
variable if it is an argument; such arguments are left out, and so are the `.comm`
directives.

## 3. The runs

| Run | Instance | What it shows |
| --- | --- | --- |
| `generator` | 2 variables, 4 temporaries, a number, an array of each kind, 2 arguments; 508,000 states | the seven invariants over every sequence of statements |
| `temps_cross_blocks` | the same, temporaries live across labels | violated: such a temporary is lost (`(a + b) + (c && d)`) |
| `translator` | 22,223 trees, inputs and oracles of 0 and 1, 3 events | the list means what the tree does; labels once; temporaries once and in their block, but for `&&` and `\|\|` operands |
| `flowgraph` | 426 translated functions, every choice of folded branches and deleted statements; 1.4 million states | meaning kept, blocks delimited, jumps threaded, unreachable is dead, and the rebuild ends unless jumps go in circles |
| `jump_cycle` | loops in loops, with folding | violated: two labels come to jump to each other and the chase never ends |
| `live_vars` | 11,362 graphs of 13 shapes: branches, up to two nested loops, code after returns and after loops without an end; all rounds; 367,000 states | live is read, read is live where the analysis completes, only what is useless is deleted but for calls and what they read, every analysis ends, and so do the rounds unless the exit is out of reach |
| `live_across_loop` | one `while` | violated: an assignment the next iteration reads is deleted |
| `copy_prop` | 1,416 functions of 4 shapes, new addresses | what statements read never changes, available copies hold on all paths, the propagation settles |
| `copies_outlive` | `if`, addresses used again | violated: a block inherits copies from a deleted one |
| `local_opts` | 4,100 lists at three levels, 6 environments, 5-bit integers; 210,000 states | outcome preserved, equal numbers are equal values, the rewriting ends |
| `numbers_at_joins` | two functions with a join | violated: value numbering takes one path for all |
| `compiler` | 7,600 translation units, whole and without the last token, 2 spills, 12-bit integers; 235,000 states | trees are as meant, errors reported exactly where a rule is broken, places disjoint and in an aligned frame, labels name one literal, literals are read back, and a function's frame does what `FrameSpec` lets it |

Every violation was also seen in the compiled compiler, on the program its finding in
`PROJECT.json` quotes.

Why the bounds are enough. *Generator*: there are three registers, so four temporaries
and two variables let every register be taken, spilled and wanted again; every kind
of statement sees every distribution of its operands over registers, memory and
immediates. Temporaries, and variables, are interchangeable to the code, hence the
symmetry; the allocator chooses by register, never by symbol. The proofs below
remove the bounds. *Translator*: all expressions of depth 2 as values and as
conditions, so every construct is nested in every other; statements nested and in a
row. *FlowGraph*: what matters is how labels, jumps and branches adjoin, and every
construct, nested in and followed by every other, with every subset deleted, gives
them all. *LiveVars, CopyProp*: one variable, or one copy and its reverse, suffices
for facts that are about one variable or copy at a time; the shapes have branches,
joins and up to two loops. Paths in CopyProp go twice around a loop (`PathLength`), and
nothing that a third time would add can be told apart, as the sets only know whether
a copy holds. In LiveVars the shapes with many statements per block are the small ones;
each of the others has code that falls out of reach in the first or a later round.
`MaxPasses` is above what any program takes (`PropagationSettles` fails if
it is not). *LocalOpts*: every rule needs one or two expressions; between the two come
all the ways an operand or a holder can change. Five bits leave room for the least
number, -1, and products that wrap. *Compiler*: the translation units come in families
that each vary one part of the language: every two binary operators next to and inside
each other and three of different levels, with unary ones, indices and calls; every
statement in every part of every other, and ifs three deep; a name with every declaration,
global and local, in every use, in the same function or a later one; names declared twice;
frames with locals and calls of all sizes; two or three strings in one call or in several,
with every kind of escape sequence, right and wrong. Precedence, scopes and prototypes
only relate two things at a time. Two spills are enough for one to come before and one
after each call. With 12 bits an array of 1,024 integers wraps. One token missing
(`MaxLost`) is an end of the source in a declaration, and in all the constructs that
end a program of one of the families.

LocalOpts in `local_opts` is restricted to what makes its rules right: branches leave the
list (the code numbers values across joins), octal numbers are those whose two
readings agree or meet a variable, and are not compared by a branch (`010 == 8` is folded
to false), variables of one name are not compared by `simplify`, and characters get what
fits in them. These are the conditions of `Unharmed`, under which the theorems of
LocalOptsProofs are stated; TLC evaluates that every list of the run keeps them
(`StraightIsUnharmed`). The module models each of these faults; the
first is shown by `numbers_at_joins`, the others wait for runs of their own.

The properties of `compiler` leave out what the code is known to get wrong, each by a
condition of its own: frames in which an offset or a size wraps (`wrapped`); two literals
without a number, which both get label 0, or one if numbers start at 0, as `late` has it
(`Unused`); texts with quotes, backslashes, or a digit after a character with a short octal
number (`Plain`). The first is what `int a[1073741824]` does to a frame; the second is seen
in the assembly of `tcc -D` for calls that are not reachable; for the third, `"\0012"` and
`"\n"` are one literal.

Fairness. The compiler is a sequential program that keeps going: `LiveVars`,
`CopyProp` and `LocalOpts` assume weak fairness of `Next`, nothing more. `FlowGraph`
assumes it of the steps of a rebuild only: whether the optimizer then changes
anything is up to the program. `Generator`, `Translator` and `Compiler` state no liveness
(a program is finite, and the parser takes a token or stops). Deadlock
is checked for `Generator`, which can always take another statement; the others stop when
they are done.

## 4. The proofs

`GeneratorProofs`: for any symbols, any setting of the flags and
argument lists of any length, `TypeOK` and `DescriptorsAgree` are invariants. They are
inductive together, as `Coherent(m)`: each primitive preserves it, then each
statement, then each step (`TypeCorrect`, `DescriptorsAlwaysAgree`).

The rest of the module: under `UsedOnceInBlock`
(neither flag is set) the other five invariants hold, for any symbols and any number
of arguments: `OperandsNeverStale`, `RegistersAlwaysTruthful`,
`LiveTempsAlwaysRecoverable`, `VariablesAlwaysInMemory`, `OnlyLiveTempsKeepRegisters`.
None of the five is inductive. That registers are truthful says nothing of a
temporary in no register, which is then loaded from its home; that temporaries are
recoverable needs the operands of the statement at hand to be given up, or a spill
would meet a register whose symbol is no longer defined. The invariant is
`IInv == TypeOK /\ ArgumentsFit /\ MachineSound`, where `Sound(n, kept, owners, flux)`
says of a machine in the middle of a statement which temporaries can still be read,
whose registers are in use, and which register, if any, has been given to a symbol
whose value it does not contain yet (between `assign` and the instruction that computes
the value). Each primitive is a lemma about how it changes those three
arguments, each statement a chain of such lemmas, each action a case of `StepSound`.

The assumption is what the header of `generator.cpp` asks for. The `translator` run
shows that the translator keeps it (`TempsUsedOnce`, `TempsStayInBlock`) except around
`&&` and `||`; value numbering breaks it too, for it uses a temporary twice where an
expression is repeated, as in `(a + b) * (a + b)` (`TempsReused`, which
no run sets). `temps_cross_blocks` shows that the assumption is needed.

`FrameProofs`: `PlacesAlwaysDisjoint` and `FrameAlwaysHolds`, for functions with any number
of parameters and variables of any sizes. That places are disjoint is not inductive: the
next one is put below `offset`, of which the property says nothing. `FrameInv` says that
parameters have the places of the arguments, each in its own, that everything else
is stacked below the saved frame pointer, the later the lower and never below
`offset` (`OthersStacked`), and that the frame only has a size once the prologue has run. Each
action is a lemma; `StackedBelow` is about what a place below all others keeps, and serves
for variables and temporaries. `AlignBelow` is why the sign of the remainder of a negative
offset, which C leaves negative, does no harm. The run `compiler` shows that what the
compiler does to a frame is a behaviour of `FrameSpec` (`FramesByThemselves`), where
parameters fit into the place of an argument because arrays are passed as pointers; so the
two theorems are about the compiler's frames.

`ReachabilityProofs`: what `Reach` finds, which LiveVars (`doDFS`), CopyProp and FlowGraph
use. It is defined by a recursive function on `0..n`; a *walk* is a function that satisfies
its equation, one exists (`WalkExists`) and `Reach` is its last value (`ReachIsWalk`).
`ReachStaysInside` and `ReachIsClosed` say that it is the least closed set, if `n` is no
less than the number of nodes: a walk that grows at each step would outgrow them. Inductions over the
natural numbers are by a least counterexample (`LeastNatural`, `InductionTo`).

`FlowGraphProofs`: `BlocksAreDelimited` and `JumpsAreThreaded`, for any lists that the
translator can make, whatever is folded and deleted between rebuilds. All passes but one
delete statements, so what a pass leaves is described by the positions that are kept, in
their order (`Selected(new, list, n, D, e)`): statement `k` of the new list is statement
`e[k]` of the old one. Neither property is inductive, as passes undo what
others have done: merging needs what inserting established, and dropping a jump puts two
labels next to each other. `FlowInv` says for each pass what holds of the list before it:
delimited always; labels after transfers (`Closed`) from the insertion on; no two labels next
to each other (`Separated`) until a statement is dropped, which sets `changed`; no jump to a
jump from the chase on. In the middle of threading, targets may be labels that are no longer in the
list (`Forwarding`: they are forwarded then, to a label that is there or forwarded), and every
label that jumps on has been noted behind the iterator (`Noted`). That is why the chase,
which only looks labels up, leaves neither a jump to a jump nor one to nowhere (`ChaseEnds`).
TLC checked `FlowInv` on small lists before it was proved.

`FlowGraphMeaning`: `MeaningIsPreserved` and, for an action, `UnreachableIsNotExecuted`.
What a list does is `FirstEffect`, again a recursive function, this time on the number of
steps left, with -1 where jumps go round in circles. That as many steps as the list is long
are enough is not obvious: a position finds an effect if it is reached backwards from one
(`WithinIsReach`), and `ReachIsClosed` then gives the equation `FirstEffectOnward` that everything else
uses. Two lists do the same if the positions of one follow those of the other
(`Follows`): what is executed next after `k` corresponds to what is executed next after
`e[k]`, but for steps without an effect (`Leads`). A simulation is not enough by itself, for
a list that goes round in circles must not be followed by one that stops; `FollowsMeans` is by
induction on the steps of either list. Then each pass is a lemma: what inserting adds, and merging,
dropping and removing take away, is silent (`ThinnedIsSame`), a target that is moved to the
first of several labels passes the others (`RedirectedIsSame`). In the middle of threading the
list by itself means nothing, since its targets may be gone. The invariant `MeanInv` therefore
relates it to the list before that pass (`Threading`): `other` is that list with the targets
as they are by now, the statements of `D`, labels that nothing falls into and the jumps after them, are
deleted, and every label leads where it is forwarded to (`Known`). Nothing else
about the order in which labels are chased matters (`ThreadingEnds`). For unreachable code
the positions that correspond are those of the blocks that are reached (`ReachedOnward`:
execution follows the edges).

`LiveVarsProofs`: `LiveIsAlwaysRead`, `ReadIsAlwaysLive` and `OnlyUselessDeleted`, in any
flowgraphs. Assumed is only that they are flowgraphs (`GraphsAreFlowGraphs`). What is
live is read on a path because the sets only grow by what the next block exposes. The converse is about the
flag that is overwritten: an analysis that stops after a pass whose last edge changed nothing
has still found everything if there is no loop, since the blocks are visited from the last to the
first (`ForwardClosed`); with one loop a second pass is enough, since the first one carried
what the loop reads up to the entry if anything of it gets there, and only then is `changed` set at the end
(`FirstPass`, `LaterPass`). Sets closed along every edge contain what any path reads,
by induction over its length. `OnlyUselessDeleted` follows with what the elimination
knows at the statement it has come to (`KnowsLive`).

`CopyPropProofs`: `CopyAvailableHolds` and `CopyReadsPreserved`, unless addresses are
used again. Assumed are the shape of functions, with the new temporaries
(`ProgramsAreFunctions`), finitely many symbols and some passes
(`SymbolsFinite`, `MaxPassesPositive`). When a pass over the blocks changes nothing, each block has
available no more than its predecessors leave (`VisitedAgree`); then a copy that is
available was made on every path to there, with neither side assigned to since (`MadeAt`), and so its
sides are equal (`EqualAt`). That needs the temporaries to be new: `cp_gen_kill` of an index does not kill
the copies of its result. At most one statement is rewritten for what the analysis found, for `changed` is
then set and nothing else is until it was repeated (`AvailableSound`, `FirstUnchanged`). `SameRuns` has the values of
all symbols along paths of any length as they were in the first function, and the
two theorems follow. `copies_outlive` shows why new addresses are assumed: sets of deleted
blocks are never emptied, and `Unused` is what a new block relies on.

`LocalOptsProofs`: `OutcomeIsPreserved` and `NumbersAreTruthful`, for any `Unharmed` lists
that the translator can make, at any level, after any number of rounds, and for
integers of any width. Assumed are the widths (`Halves`), the shape of the lists
(`ProgramsAreTranslated`) and that variables begin with integers
(`EnvironmentsHaveValues`). `OutcomePreserved` is not inductive: a list with the right
outcome may have values that are numbered wrong, or be one the next rule harms.
`IInv` says that the list is still one the translator could have made and is unharmed,
with the outcome of the program unless that traps (`Rewritten`); and that, while values
are numbered, there is in each environment a function `val` from numbers to values such that
every symbol with a number has its value, and every expression that was entered
computes the one it has (`Numbered`, `Means`). A number whose last holder has
lost it still has a value, which is why expressions may outlive their operands. `val` is also why
nothing has to be known of the order of the maps: any holder will do. That the
result of an operation is new (`Unseen`) is needed where a known expression without
holders leaves its result without a number. The lemmas are about integers that wrap
(`WrapWithin`, `DivisionWithin`), about each rule of `simplify` and `cfold` and
the mirror of `Key`, and about lists in which one statement is replaced by another, or none,
that has the same effect there.

Assumed of the constants elsewhere: the kinds of symbols are disjoint, and the null pointer is
no symbol or register (`KindsDisjoint`, `NoneIsNull`, evaluated by TLC in every run of the
generator), no variable and no symbol (`NoneIsNoVariable`, `NoneIsNoSymbol`); integers have
some positive range (`HalfIsPositive`, evaluated in `compiler`). `GraphsAreFlowGraphs` is
evaluated in `live_vars`, `ProgramsAreFunctions` in `copy_prop`, `ProgramsAreDelimited` in `flowgraph`,
`ProgramsAreTranslated` and `EnvironmentsHaveValues` in `local_opts`, for every function of the run.

Model-checked only: liveness (that rebuilds, analyses, rounds and rewriting end), which is
beyond the prover, as ENABLED is; and the translator against `Semantics` and everything in
`Compiler`, whose trees and parser are recursive, with it that the compiler implements
`FrameSpec`: what they say of trees of any depth takes induction over data.

## 5. What is not modelled

`optimizeStatements` with all its passes together: each of LiveVars, CopyProp and LocalOpts
has its loop around its own passes, FlowGraph has the rebuilds with anything the others may
delete or fold, and their product is beyond TLC. `doCSE` is compiled out
(`optimizer.cpp:29`), `optimizeTree` is empty, `livevars.cpp` and `Block::unlink` are not
called.

The option loop of `main` sets flags once. Its cases fall through
(`parser.cpp:1037-1055`): `-D` enables copy propagation, value numbering, simplification
and folding as well, `-C` all but the first, and so on. The levels of LocalOpts follow it.

The automaton that splits the text into tokens is generated by flex. The listings, the
`.comm` directives and the printing of operands are formatting. One of its cases is
wrong for all values: an immediate stored to a character variable is printed as the
character itself (`generator.cpp:288`), so that `c = 65` names a symbol `A`.

Functions as arguments of calls, see Compiler above.

## 6. The plan

1. **Pipeline**: LiveVars, CopyProp and LocalOpts in one loop, for lists of a few
   statements; what one pass leaves is what the next finds.
2. **An abstract generator**: a machine in which every operand is always at hand; Generator
   implements it by the mapping that forgets places (`INSTANCE ... WITH`), by TLC and,
   from `IInv`, by TLAPS.
3. Runs for the octal numbers, the names and the characters of LocalOpts.
4. Proofs: `LabelsName`, with the numbering of labels in a module without recursion; of `Checker`,
   that scopes never have a name twice.
