------------------------------- MODULE LiveVars -------------------------------
(***************************************************************************)
(* Live variable analysis and the elimination of dead code, repeated until *)
(* nothing changes (optimizer.cpp: optimizeStatements, without what the     *)
(* other passes do in a round, initLVA, doLVA, doDCE, doDFS).              *)
(*                                                                         *)
(* A statement is the set of the variables that it reads, the one that it  *)
(* assigns, if any, and whether it is a call (make_lva_sets, Statement.h). *)
(* A graph is a function's basic blocks, in the order of its list of       *)
(* statements: the first is the entry, the last is the exit.  A rebuild of *)
(* the flowgraph (module FlowGraph) only matters here in that a block whose *)
(* statements were all deleted as unreachable is there no more; it keeps   *)
(* its place, without statements or successors.                            *)
(***************************************************************************)
EXTENDS Integers, FiniteSets, SequencesExt, Reachability

CONSTANTS
    Variables,
    None,       \* no variable
    Graphs      \* [blocks: the statements of each block, succ: the successors
                \* of each block in the order of their edges, globals: those
                \* of the variables that are global]

ASSUME NoneIsNoVariable == None \notin Variables

Statements == [gen : SUBSET Variables, kill : Variables \cup {None}, call : BOOLEAN]

Exit(g) == Len(g.blocks)

Successors(g, b) == {g.succ[b][k] : k \in DOMAIN g.succ[b]}

\* A flowgraph as buildBasicBlocks makes it of a translated list.  The list starts
\* with a label, a null statement, and a label that is never removed, so that the
\* entry is a block of its own with one edge; the last label is the exit.
IsFlowGraph(g) ==
    /\ g \in [blocks : Seq(Seq(Statements)), succ : Seq(Seq(Nat)), globals : SUBSET Variables]
    /\ Len(g.blocks) >= 2 /\ Len(g.succ) = Len(g.blocks)
    /\ \A b \in DOMAIN g.blocks : Successors(g, b) \subseteq DOMAIN g.blocks
    /\ Len(g.succ[1]) = 1 /\ g.succ[Exit(g)] = <<>>

ASSUME GraphsAreFlowGraphs == \A g \in Graphs : IsFlowGraph(g)

VARIABLES
    graph,      \* the function at the start of this round
    blocks,     \* the statements that are left of it
    ueVar,      \* for each block (_UEVar)
    liveOut,    \* for each block (_LiveOut)
    phase,      \* "analyse", "eliminate", "sweep" or "done"
    block, at,  \* the edge, or the statement, of this block that is next
    changed

vars == <<graph, blocks, ueVar, liveOut, phase, block, at, changed>>

\* The variables whose values statement s reads.
Reads(g, s) == s.gen \cup (IF s.call THEN g.globals ELSE {})

-----------------------------------------------------------------------------
(* The analysis                                                            *)

\* Mutation: a call does not read the globals.
ExposedIgnoringCalls(g, list) ==
    LET from[i \in 1..(Len(list) + 1)] ==
            IF i > Len(list) THEN {} ELSE (from[i + 1] \ {list[i].kill}) \cup list[i].gen
    IN  from[1]

\* The variables that a list of statements reads before it assigns them, from
\* its last statement to its first.
Exposed(g, list) ==
    LET from[i \in 1..(Len(list) + 1)] ==
            IF i > Len(list) THEN {}
            ELSE (from[i + 1] \ {list[i].kill}) \cup Reads(g, list[i])
    IN  from[1]

VarKill(list) == {list[i].kill : i \in DOMAIN list} \ {None}

NoneLive(g) == [b \in DOMAIN g.blocks |-> IF b = Exit(g) THEN g.globals ELSE {}]

\* Mutation: what is live after the successor is live before it.
LiveIntoUnkilled(s) == ueVar[s] \cup liveOut[s]

\* The variables that are live at the start of block s, as far as is known.
LiveInto(s) == ueVar[s] \cup (liveOut[s] \ VarKill(blocks[s]))

\* One turn of the innermost loop, which overwrites what the others noted.
VisitEdge ==
    /\ phase = "analyse" /\ at <= Len(graph.succ[block])
    /\ liveOut' = [liveOut EXCEPT ![block] = @ \cup LiveInto(graph.succ[block][at])]
    /\ changed' = (liveOut'[block] # liveOut[block])
    /\ at' = at + 1
    /\ UNCHANGED <<graph, blocks, ueVar, phase, block>>

\* A pass visits the blocks from the last to the first.
PreviousBlock ==
    /\ phase = "analyse" /\ at > Len(graph.succ[block]) /\ block > 1
    /\ block' = block - 1 /\ at' = 1
    /\ UNCHANGED <<graph, blocks, ueVar, liveOut, phase, changed>>

\* The elimination starts in this block with what is live after it.
EnterBlock(b) ==
    /\ block' = b /\ at' = Len(blocks[b])
    /\ ueVar' = [ueVar EXCEPT ![b] = liveOut[b]]

\* Mutation: each pass starts again without live variables.
EndPassClearing ==
    /\ phase = "analyse" /\ at > Len(graph.succ[block]) /\ block = 1
    /\ IF changed THEN /\ block' = Exit(graph) /\ at' = 1 /\ liveOut' = NoneLive(graph)
                        /\ UNCHANGED <<phase, ueVar>>
       ELSE phase' = "eliminate" /\ EnterBlock(1) /\ UNCHANGED liveOut
    /\ changed' = FALSE
    /\ UNCHANGED <<graph, blocks>>

EndPass ==
    /\ phase = "analyse" /\ at > Len(graph.succ[block]) /\ block = 1
    /\ IF changed THEN /\ block' = Exit(graph) /\ at' = 1
                        /\ UNCHANGED <<phase, ueVar>>
       ELSE phase' = "eliminate" /\ EnterBlock(1)
    /\ changed' = FALSE
    /\ UNCHANGED <<graph, blocks, liveOut>>

-----------------------------------------------------------------------------
(* The elimination of useless assignments                                  *)

\* Mutation: what a statement reads is not live before it.
LiveBeforeIgnoringGen(s, after) == after \ {s.kill}

\* What the elimination takes to be live before statement s.  A call has no
\* globals here: the code that adds them is commented out.
LiveBefore(s, after) == (after \ {s.kill}) \cup s.gen

\* An assignment to a variable that is not live is deleted, but what it reads
\* is live before it all the same.
EliminateStatement ==
    /\ phase = "eliminate" /\ at > 0
    /\ LET s == blocks[block][at]
       IN  /\ blocks' = IF s.kill # None /\ s.kill \notin ueVar[block]
                        THEN [blocks EXCEPT ![block] = RemoveAt(@, at)]
                        ELSE blocks
           /\ ueVar' = [ueVar EXCEPT ![block] = LiveBefore(s, @)]
    /\ at' = at - 1
    /\ UNCHANGED <<graph, liveOut, phase, block, changed>>

NextBlock ==
    /\ phase = "eliminate" /\ at = 0
    /\ IF block = Exit(graph) THEN phase' = "sweep" /\ UNCHANGED <<block, at, ueVar>>
       ELSE phase' = phase /\ EnterBlock(block + 1)
    /\ UNCHANGED <<graph, blocks, liveOut, changed>>

-----------------------------------------------------------------------------
(* The elimination of unreachable blocks, and the next round               *)

\* The blocks that doDFS marks.
Marked(g) == Reach([b \in DOMAIN g.blocks |-> Successors(g, b)], {1}, Exit(g))

\* A rebuild makes no block of what has been deleted, but always an exit.
Exists(g, b) == b = Exit(g) \/ g.succ[b] # <<>>

\* Mutation: whatever is not marked counts as a change.
UnreachableEver(g) == DOMAIN g.blocks \ Marked(g)

Unreachable(g) == {b \in DOMAIN g.blocks \ Marked(g) : Exists(g, b)}

\* A round with this graph begins: initLVA.
Begin(g) ==
    /\ graph' = g /\ blocks' = g.blocks
    /\ ueVar' = [b \in DOMAIN g.blocks |-> Exposed(g, g.blocks[b])]
    /\ liveOut' = NoneLive(g)
    /\ phase' = "analyse" /\ block' = Exit(g) /\ at' = 1

\* The statements of unreachable blocks are deleted.  That a block is not
\* reachable counts as a change even if there is nothing in it.
Sweep ==
    /\ phase = "sweep"
    /\ LET dead == Unreachable(graph)
           swept == [graph EXCEPT
               !.blocks = [b \in DOMAIN blocks |-> IF b \in dead THEN <<>> ELSE blocks[b]],
               !.succ = [b \in DOMAIN blocks |-> IF b \in dead THEN <<>> ELSE @[b]]]
       IN  IF blocks # graph.blocks \/ dead # {} THEN Begin(swept)
           ELSE phase' = "done" /\ UNCHANGED <<graph, blocks, ueVar, liveOut, block, at>>
    /\ UNCHANGED changed

Init ==
    /\ graph \in Graphs /\ blocks = graph.blocks
    /\ ueVar = [b \in DOMAIN graph.blocks |-> Exposed(graph, graph.blocks[b])]
    /\ liveOut = NoneLive(graph)
    /\ phase = "analyse" /\ block = Exit(graph) /\ at = 1 /\ changed = FALSE

Next == VisitEdge \/ PreviousBlock \/ EndPass \/ EliminateStatement \/ NextBlock \/ Sweep

Spec == Init /\ [][Next]_vars /\ WF_vars(Next)

-----------------------------------------------------------------------------
(* Properties, against the paths of the graph.                             *)

\* A path from the start of the list may read v before it assigns it.
ReadFirst(list, v) ==
    \E i \in DOMAIN list : /\ v \in Reads(graph, list[i])
                           /\ \A j \in 1..(i - 1) : list[j].kill # v

Unassigned(list, v) == \A i \in DOMAIN list : list[i].kill # v

\* The blocks that can follow block b on a path that does not assign v.
Following(b, v) ==
    LET next == [c \in DOMAIN graph.blocks |->
                    IF Unassigned(graph.blocks[c], v) THEN Successors(graph, c) ELSE {}]
    IN  Reach(next, Successors(graph, b), Exit(graph))

\* The value that v has at the end of block b may be read later, by the
\* function or, if v is global, by its caller.
LiveAtEnd(b, v) ==
    \/ \E c \in Following(b, v) : ReadFirst(graph.blocks[c], v)
    \/ /\ v \in graph.globals
       /\ \/ b = Exit(graph)
          \/ Exit(graph) \in Following(b, v) /\ Unassigned(graph.blocks[Exit(graph)], v)

\* The same after statement i of block b.
LiveAfter(b, i, v) ==
    LET list == graph.blocks[b]
        rest == SubSeq(list, i + 1, Len(list))
    IN  ReadFirst(rest, v) \/ (Unassigned(rest, v) /\ LiveAtEnd(b, v))

BackEdges == {e \in (DOMAIN blocks) \X (DOMAIN blocks) :
                 e[2] <= e[1] /\ e[2] \in Successors(graph, e[1])}

\* Where the analysis is known to be complete though changed is overwritten:
\* one pass carries everything along the edges that lead forward, and a second
\* one along a single loop; there is one if the first found a variable live at
\* the start of the function.
Completes == BackEdges = {} \/ (Cardinality(BackEdges) = 1 /\ liveOut[1] # {})

\* A variable that the analysis calls live is read on some path: nothing is
\* kept for a variable that no path reads.
LiveIsRead ==
    phase = "analyse" =>
        \A b \in DOMAIN blocks : \A v \in liveOut[b] : LiveAtEnd(b, v)

\* A variable that some path reads is found to be live, across branches, calls,
\* globals that the caller reads, and the loop.
ReadIsLive ==
    phase = "eliminate" /\ Completes =>
        \A b \in DOMAIN blocks, v \in Variables : LiveAtEnd(b, v) => v \in liveOut[b]

\* "eliminate useless code": a deleted statement is an assignment to a variable
\* that no path reads afterwards, and not a call.  (The statements up to the one
\* at hand are those of the start of the round.)
Useless ==
    phase = "eliminate" /\ blocks' # blocks =>
        LET s == graph.blocks[block][at]
        IN  ~s.call /\ ~LiveAfter(block, at, s.kill)

\* The code takes a call for an assignment of its result, and a global that it
\* reads not for live before it.
LosesCall ==
    phase = "eliminate" /\ at > 0 =>
        LET list == graph.blocks[block]
        IN  \/ list[at].call
            \/ list[at].kill \in graph.globals /\ \E i \in (at + 1)..Len(list) : list[i].call

\* Only useless assignments are deleted, in every round, if the analysis was
\* complete, but for calls and for globals that a call later in the block reads.
DeletesOnlyUseless == [][Completes /\ ~LosesCall => Useless]_vars

\* Only useless assignments are deleted.
DeletesOnlyUselessEver == [][Useless]_vars

\* The passes of every analysis come to an end.
AnalysisEnds == []<>(phase # "analyse")

\* The rounds come to an end, unless nothing leads to the exit (any more): that
\* the exit is not reachable counts as a change in every round.
OptimizerSettles ==
    <>(phase = "done" \/ \A b \in DOMAIN blocks : Exit(graph) \notin Successors(graph, b))
=============================================================================
