---------------------------- MODULE LiveVarsProofs ----------------------------
(***************************************************************************)
(* Theorems about live variables and dead code, for flowgraphs of any      *)
(* size, whatever their statements: what the analysis calls live is read   *)
(* on some path, what is read on some path it calls live where two passes  *)
(* are enough, and there only useless assignments are deleted.             *)
(***************************************************************************)
EXTENDS LiveVars, ReachabilityProofs, SequenceTheorems

-----------------------------------------------------------------------------
(* The invariant.                                                          *)

Blocks == DOMAIN graph.blocks

LiveTypeOK ==
    /\ IsFlowGraph(graph)
    /\ blocks \in Seq(Seq(Statements)) /\ Len(blocks) = Len(graph.blocks)
    /\ ueVar \in [Blocks -> SUBSET Variables]
    /\ liveOut \in [Blocks -> SUBSET Variables]
    /\ phase \in {"analyse", "eliminate", "sweep", "done"}
    /\ block \in Blocks /\ at \in Nat /\ changed \in BOOLEAN

\* The analysis leaves the statements alone, and what initLVA found in them.
Analysing ==
    phase = "analyse" =>
        /\ blocks = graph.blocks
        /\ ueVar = [b \in Blocks |-> Exposed(graph, graph.blocks[b])]
        /\ at \in 1..(Len(graph.succ[block]) + 1)

\* What is live at the start of block c.
Into(c) == Exposed(graph, graph.blocks[c]) \cup (liveOut[c] \ VarKill(graph.blocks[c]))

\* Nothing is left to be done for an edge from b to c.
Closed(b, c) == Into(c) \subseteq liveOut[b]

Visited(b, k) == b > block \/ (b = block /\ k < at)

\* Passes visit the edges that lead forward in the order in which they carry
\* something, from the last to the first.
ForwardClosed ==
    \A b \in Blocks : \A k \in DOMAIN graph.succ[b] :
        Visited(b, k) /\ graph.succ[b][k] > b => Closed(b, graph.succ[b][k])

\* In the first pass nothing is live at the end of the entry, until its edge is
\* visited: then something has changed, and a second pass follows.
FirstPass == liveOut[1] = {} \/ (block = 1 /\ at = 2 /\ changed)

LoopVisited(e) ==
    e[1] > block \/ (e[1] = block /\ \E k \in 1..(at - 1) : graph.succ[block][k] = e[2])

\* In later passes all that is missing along the edges that lead forward is what
\* this pass found to be live at the end of the loop.
LaterPass(e) ==
    LET found == IF LoopVisited(e) THEN liveOut[e[1]] ELSE {}
    IN  /\ \A b \in Blocks : \A c \in Successors(graph, b) :
               c > b => Into(c) \subseteq liveOut[b] \cup found
        /\ LoopVisited(e) => Closed(e[1], e[2])

PassesComplete ==
    phase = "analyse" =>
        /\ ForwardClosed
        /\ \A e \in BackEdges : BackEdges = {e} => FirstPass \/ LaterPass(e)

GlobalsAtExit == graph.globals \subseteq liveOut[Exit(graph)]

AllClosed ==
    phase = "eliminate" /\ Completes =>
        \A b \in Blocks : \A c \in Successors(graph, b) : Closed(b, c)

\* The statements that the elimination has not come to are as they were.
Eliminating ==
    phase = "eliminate" =>
        LET list == graph.blocks[block]
        IN  /\ at <= Len(list) /\ at <= Len(blocks[block])
            /\ \A i \in 1..at : blocks[block][i] = list[i]
            /\ \A b \in Blocks : b > block => blocks[b] = graph.blocks[b]

\* v is a global, and a call after statement i of the list reads it.
CallReads(list, i, v) == v \in graph.globals /\ \E j \in (i + 1)..Len(list) : list[j].call

\* The elimination knows what is live after the statement it has come to.
KnowsLive ==
    phase = "eliminate" /\ Completes =>
        \A v \in Variables :
            LiveAfter(block, at, v) /\ ~CallReads(graph.blocks[block], at, v) => v \in ueVar[block]

LiveInv ==
    /\ LiveTypeOK /\ Analysing /\ PassesComplete /\ GlobalsAtExit /\ AllClosed
    /\ Eliminating /\ KnowsLive

-----------------------------------------------------------------------------
(* Statements and graphs.                                                  *)

LEMMA StatementFacts ==
    ASSUME NEW list \in Seq(Statements), NEW i \in DOMAIN list
    PROVE  /\ list[i].gen \in SUBSET Variables /\ list[i].kill \in Variables \cup {None}
           /\ list[i].call \in BOOLEAN
<1>1. list[i] \in Statements
    BY LenProperties
<1> QED
    BY <1>1 DEF Statements

\* The graph has its blocks from the entry, 1, to the exit.
LEMMA GraphFacts ==
    ASSUME NEW g, IsFlowGraph(g)
    PROVE  /\ g.blocks \in Seq(Seq(Statements)) /\ g.globals \in SUBSET Variables
           /\ Exit(g) \in Nat /\ Exit(g) >= 2 /\ DOMAIN g.blocks = 1..Exit(g)
           /\ DOMAIN g.succ = 1..Exit(g)
           /\ \A b \in 1..Exit(g) :
                  /\ g.blocks[b] \in Seq(Statements)
                  /\ g.succ[b] \in Seq(Nat) /\ DOMAIN g.succ[b] = 1..Len(g.succ[b])
                  /\ Len(g.succ[b]) \in Nat
                  /\ Successors(g, b) \subseteq 1..Exit(g)
                  /\ \A k \in DOMAIN g.succ[b] : g.succ[b][k] \in Successors(g, b)
           /\ Len(g.succ[1]) = 1 /\ g.succ[Exit(g)] = <<>>
<1>1. /\ g.blocks \in Seq(Seq(Statements)) /\ g.globals \in SUBSET Variables
      /\ g.succ \in Seq(Seq(Nat))
    BY DEF IsFlowGraph
<1>2. /\ Exit(g) \in Nat /\ Exit(g) >= 2 /\ DOMAIN g.blocks = 1..Exit(g)
      /\ g.blocks \in [1..Exit(g) -> Seq(Statements)]
    BY <1>1, LenProperties DEF IsFlowGraph, Exit
<1>3. DOMAIN g.succ = 1..Exit(g) /\ g.succ \in [1..Exit(g) -> Seq(Nat)]
    BY <1>1, LenProperties DEF IsFlowGraph, Exit
<1>4. ASSUME NEW b \in 1..Exit(g)
      PROVE  /\ g.blocks[b] \in Seq(Statements)
             /\ g.succ[b] \in Seq(Nat) /\ DOMAIN g.succ[b] = 1..Len(g.succ[b])
             /\ Len(g.succ[b]) \in Nat
             /\ Successors(g, b) \subseteq 1..Exit(g)
             /\ \A k \in DOMAIN g.succ[b] : g.succ[b][k] \in Successors(g, b)
    <2>1. g.succ[b] \in Seq(Nat) /\ g.blocks[b] \in Seq(Statements)
        BY <1>2, <1>3
    <2>2. DOMAIN g.succ[b] = 1..Len(g.succ[b]) /\ Len(g.succ[b]) \in Nat
        BY <2>1, LenProperties
    <2>3. Successors(g, b) \subseteq 1..Exit(g)
        BY <1>2 DEF IsFlowGraph
    <2>4. \A k \in DOMAIN g.succ[b] : g.succ[b][k] \in Successors(g, b)
        BY DEF Successors
    <2> QED BY <2>1, <2>2, <2>3, <2>4
<1>5. Len(g.succ[1]) = 1 /\ g.succ[Exit(g)] = <<>>
    BY DEF IsFlowGraph
<1> QED
    BY <1>1, <1>2, <1>3, <1>4, <1>5

-----------------------------------------------------------------------------
(* What initLVA finds in a block.                                          *)

\* The statements from i on may read v before they assign it.
ReadFrom(g, list, i, v) ==
    \E k \in i..Len(list) : /\ v \in Reads(g, list[k])
                            /\ \A j \in i..(k - 1) : list[j].kill # v

\* So they do if statement i reads it, or does not assign it and the rest does.
LEMMA ReadFromStep ==
    ASSUME NEW g, NEW list, Len(list) \in Nat, NEW i \in 1..Len(list), NEW v
    PROVE  ReadFrom(g, list, i, v)
               <=> v \in Reads(g, list[i]) \/ (list[i].kill # v /\ ReadFrom(g, list, i + 1, v))
<1>1. ASSUME ReadFrom(g, list, i, v), v \notin Reads(g, list[i])
      PROVE  list[i].kill # v /\ ReadFrom(g, list, i + 1, v)
    <2>1. PICK k \in i..Len(list) : /\ v \in Reads(g, list[k])
                                    /\ \A j \in i..(k - 1) : list[j].kill # v
        BY <1>1 DEF ReadFrom
    <2>2. k # i /\ k \in (i + 1)..Len(list)
        BY <1>1, <2>1
    <2>3. i \in i..(k - 1) /\ \A j \in (i + 1)..(k - 1) : j \in i..(k - 1)
        BY <2>2
    <2> QED BY <2>1, <2>2, <2>3 DEF ReadFrom
<1>2. ASSUME v \in Reads(g, list[i])
      PROVE  ReadFrom(g, list, i, v)
    BY <1>2 DEF ReadFrom
<1>3. ASSUME list[i].kill # v, ReadFrom(g, list, i + 1, v)
      PROVE  ReadFrom(g, list, i, v)
    <2>1. PICK k \in (i + 1)..Len(list) : /\ v \in Reads(g, list[k])
                                          /\ \A j \in (i + 1)..(k - 1) : list[j].kill # v
        BY <1>3 DEF ReadFrom
    <2>2. \A j \in i..(k - 1) : j = i \/ j \in (i + 1)..(k - 1)
        BY <2>1
    <2> QED BY <1>3, <2>1, <2>2 DEF ReadFrom
<1> QED
    BY <1>1, <1>2, <1>3

IsExposure(f, g, list) ==
    f = [i \in 1..(Len(list) + 1) |->
            IF i > Len(list) THEN {} ELSE (f[i + 1] \ {list[i].kill}) \cup Reads(g, list[i])]

\* The walk from the last statement to the first is defined: it finds what is
\* read first.
LEMMA ExposureExists ==
    ASSUME NEW g, NEW list, Len(list) \in Nat
    PROVE  \E f : IsExposure(f, g, list)
<1> DEFINE n == Len(list)
           all == UNION {Reads(g, list[k]) : k \in 1..n}
           f == [i \in 1..(n + 1) |-> {v \in all : ReadFrom(g, list, i, v)}]
<1>1. \A i \in 1..n : \A v : ReadFrom(g, list, i, v) => v \in all
    <2> SUFFICES ASSUME NEW i \in 1..n, NEW v, ReadFrom(g, list, i, v)
                 PROVE  v \in all
        OBVIOUS
    <2>1. PICK k \in i..n : v \in Reads(g, list[k])
        BY DEF ReadFrom
    <2>2. k \in 1..n
        OBVIOUS
    <2> QED BY <2>1, <2>2
<1>2. ASSUME NEW i \in 1..(n + 1)
      PROVE  f[i] = IF i > n THEN {} ELSE (f[i + 1] \ {list[i].kill}) \cup Reads(g, list[i])
    <2>1. CASE i = n + 1
        <3>1. \A v : ~ReadFrom(g, list, i, v)
            BY <2>1 DEF ReadFrom
        <3> QED BY <2>1, <3>1
    <2>2. CASE i \in 1..n
        <3>1. i + 1 \in 1..(n + 1)
            BY <2>2
        <3> HIDE DEF all
        <3>2. f[i] = {v \in all : ReadFrom(g, list, i, v)}
              /\ f[i + 1] = {v \in all : ReadFrom(g, list, i + 1, v)}
            BY <3>1
        <3>3. Reads(g, list[i]) \subseteq all
            BY <2>2 DEF all
        <3> HIDE DEF f
        <3>4. \A v : v \in f[i] <=>
                  v \in Reads(g, list[i]) \/ (list[i].kill # v /\ v \in f[i + 1])
            BY <2>2, <3>2, <3>3, ReadFromStep
        <3>5. f[i] = (f[i + 1] \ {list[i].kill}) \cup Reads(g, list[i])
            BY <3>4
        <3>6. ~(i > n)
            BY <2>2
        <3> QED BY <3>5, <3>6
    <2>3. i = n + 1 \/ i \in 1..n
        OBVIOUS
    <2> HIDE DEF f
    <2> QED BY <2>1, <2>2, <2>3
<1>3. f = [i \in 1..(n + 1) |-> f[i]]
    OBVIOUS
<1> HIDE DEF f
<1>4. IsExposure(f, g, list)
    BY <1>2, <1>3 DEF IsExposure
<1> QED
    BY <1>4

\* Exposed is what the statements may read before they assign it.
LEMMA ExposedMeans ==
    ASSUME NEW g, NEW list, Len(list) \in Nat, NEW v
    PROVE  v \in Exposed(g, list) <=> ReadFrom(g, list, 1, v)
<1> DEFINE n == Len(list)
           f == CHOOSE f : IsExposure(f, g, list)
<1>1. IsExposure(f, g, list)
    BY ExposureExists
<1>2. Exposed(g, list) = f[1]
    BY DEF Exposed, IsExposure
<1> HIDE DEF f
<1> DEFINE T == {k \in 0..n : v \in f[n + 1 - k] <=> ReadFrom(g, list, n + 1 - k, v)}
<1>3. 0 \in T
    <2>1. f[n + 1] = {}
        BY <1>1 DEF IsExposure
    <2>2. ~ReadFrom(g, list, n + 1, v)
        BY DEF ReadFrom
    <2> QED BY <2>1, <2>2
<1>4. ASSUME NEW k \in 0..(n - 1), k \in T
      PROVE  k + 1 \in T
    <2> DEFINE i == n - k
    <2>1. i \in 1..n /\ n + 1 - k = i + 1 /\ n + 1 - (k + 1) = i
        OBVIOUS
    <2>2. v \in f[i + 1] <=> ReadFrom(g, list, i + 1, v)
        BY <1>4, <2>1
    <2>3. f[i] = (f[i + 1] \ {list[i].kill}) \cup Reads(g, list[i])
        BY <1>1, <2>1 DEF IsExposure
    <2>4. v \in f[i] <=> ReadFrom(g, list, i, v)
        BY <2>1, <2>2, <2>3, ReadFromStep
    <2> QED BY <2>1, <2>4
<1>5. n \in T
    <2>1. T \in SUBSET Nat
        OBVIOUS
    <2> HIDE DEF T
    <2>2. 0..n \subseteq T
        BY <1>3, <1>4, <2>1, InductionTo
    <2> QED BY <2>2
<1> QED
    BY <1>2, <1>5

-----------------------------------------------------------------------------
(* What is read on a path.                                                 *)

\* What is not in VarKill is not assigned.
LEMMA VarKillMeans ==
    ASSUME NEW list, NEW v \in Variables
    PROVE  v \notin VarKill(list) <=> Unassigned(list, v)
BY NoneIsNoVariable DEF VarKill, Unassigned

LEMMA ReadFirstMeans ==
    ASSUME NEW list \in Seq(Statements), NEW v
    PROVE  ReadFirst(list, v) <=> ReadFrom(graph, list, 1, v)
BY LenProperties DEF ReadFirst, ReadFrom

LEMMA ExposedIsReadFirst ==
    ASSUME NEW list \in Seq(Statements), NEW v
    PROVE  v \in Exposed(graph, list) <=> ReadFirst(list, v)
BY ReadFirstMeans, ExposedMeans, LenProperties

\* Where a walk goes on from block c that looks for v.
Past(c, v) == IF Unassigned(graph.blocks[c], v) THEN Successors(graph, c) ELSE {}

LEMMA FollowingIsReach ==
    ASSUME IsFlowGraph(graph), NEW b \in Blocks, NEW v
    PROVE  LET next == [c \in Blocks |-> Past(c, v)]
           IN  /\ Following(b, v) = Reach(next, Successors(graph, b), Exit(graph))
               /\ next \in [Blocks -> SUBSET Blocks] /\ Successors(graph, b) \in SUBSET Blocks
               /\ Exit(graph) \in Nat /\ IsFiniteSet(Blocks) /\ Cardinality(Blocks) <= Exit(graph)
<1> DEFINE next == [c \in Blocks |-> Past(c, v)]
<1>1. Following(b, v) = Reach(next, Successors(graph, b), Exit(graph))
    BY DEF Following, Past, Blocks
<1>2. /\ Exit(graph) \in Nat /\ Exit(graph) >= 2 /\ Blocks = 1..Exit(graph)
      /\ \A c \in Blocks : Successors(graph, c) \in SUBSET Blocks
    BY GraphFacts DEF Blocks
<1>3. next \in [Blocks -> SUBSET Blocks]
    BY <1>2 DEF Past
<1>4. IsFiniteSet(Blocks) /\ Cardinality(Blocks) <= Exit(graph)
    BY <1>2, FS_Interval
<1> QED
    BY <1>1, <1>2, <1>3, <1>4

\* The successors of a block follow it, and those of a block that follows it
\* and does not assign v.
LEMMA FollowingGoesOn ==
    ASSUME IsFlowGraph(graph), NEW b \in Blocks, NEW v
    PROVE  /\ Successors(graph, b) \subseteq Following(b, v)
           /\ Following(b, v) \subseteq Blocks
           /\ \A c \in Following(b, v) : Past(c, v) \subseteq Following(b, v)
<1> DEFINE next == [c \in Blocks |-> Past(c, v)]
<1>1. /\ Following(b, v) = Reach(next, Successors(graph, b), Exit(graph))
      /\ next \in [Blocks -> SUBSET Blocks] /\ Successors(graph, b) \in SUBSET Blocks
      /\ Exit(graph) \in Nat /\ IsFiniteSet(Blocks) /\ Cardinality(Blocks) <= Exit(graph)
    BY FollowingIsReach
<1>2. \A c \in Blocks : next[c] = Past(c, v)
    OBVIOUS
<1> HIDE DEF next
<1>3. \A c \in Following(b, v) : c \in Blocks /\ next[c] \subseteq Following(b, v)
    BY <1>1, ReachIsClosed
<1>4. Successors(graph, b) \subseteq Following(b, v)
    BY <1>1, StartIsReached
<1> QED
    BY <1>2, <1>3, <1>4

\* No other blocks follow it.
LEMMA NothingElseFollows ==
    ASSUME IsFlowGraph(graph), NEW b \in Blocks, NEW v,
           NEW S \in SUBSET Blocks, Successors(graph, b) \subseteq S,
           \A c \in S : Past(c, v) \subseteq S
    PROVE  Following(b, v) \subseteq S
<1> DEFINE next == [c \in Blocks |-> Past(c, v)]
<1>1. Following(b, v) = Reach(next, Successors(graph, b), Exit(graph)) /\ Exit(graph) \in Nat
    BY FollowingIsReach
<1>2. \A c \in S : next[c] \subseteq S
    OBVIOUS
<1> HIDE DEF next
<1> QED
    BY <1>1, <1>2, ReachStaysInside

\* What is read first in a successor is live.
LEMMA ReadNextIsLive ==
    ASSUME IsFlowGraph(graph), NEW b \in Blocks, NEW c \in Successors(graph, b), NEW v,
           ReadFirst(graph.blocks[c], v)
    PROVE  LiveAtEnd(b, v)
BY FollowingGoesOn DEF LiveAtEnd

\* What is live at the end of a successor that does not assign it is live.
LEMMA LiveThroughIsLive ==
    ASSUME IsFlowGraph(graph), NEW b \in Blocks, NEW c \in Successors(graph, b), NEW v,
           Unassigned(graph.blocks[c], v), LiveAtEnd(c, v)
    PROVE  LiveAtEnd(b, v)
<1>1. c \in Blocks /\ c \in Following(b, v)
    BY FollowingGoesOn
<1>2. Past(c, v) = Successors(graph, c)
    BY DEF Past
<1>3. Successors(graph, c) \subseteq Following(b, v)
    BY <1>1, <1>2, FollowingGoesOn
<1>4. Following(c, v) \subseteq Following(b, v)
    BY <1>1, <1>3, FollowingGoesOn, NothingElseFollows
<1> QED
    BY <1>1, <1>4 DEF LiveAtEnd

\* When nothing is left to be done for any edge, what is live was found.
LEMMA ClosedIsComplete ==
    ASSUME IsFlowGraph(graph), GlobalsAtExit,
           \A b \in Blocks : \A c \in Successors(graph, b) : Closed(b, c),
           NEW b \in Blocks, NEW v \in Variables, LiveAtEnd(b, v)
    PROVE  v \in liveOut[b]
<1> SUFFICES ASSUME v \notin liveOut[b]
             PROVE  FALSE
    OBVIOUS
<1> DEFINE S == {c \in Blocks : v \notin Into(c)}
<1>1. \A c \in Blocks : v \notin liveOut[c] => Successors(graph, c) \subseteq S
    <2> SUFFICES ASSUME NEW c \in Blocks, v \notin liveOut[c], NEW d \in Successors(graph, c)
                 PROVE  d \in S
        OBVIOUS
    <2>1. d \in Blocks
        BY FollowingGoesOn
    <2>2. v \notin Into(d)
        BY DEF Closed
    <2> QED BY <2>1, <2>2
<1>2. \A c \in S : Unassigned(graph.blocks[c], v) => v \notin liveOut[c]
    BY VarKillMeans DEF Into
<1>3. \A c \in S : Past(c, v) \subseteq S
    BY <1>1, <1>2 DEF Past
<1>4. Following(b, v) \subseteq S
    BY <1>1, <1>3, NothingElseFollows
<1>5. \A c \in Following(b, v) : ~ReadFirst(graph.blocks[c], v)
    <2> SUFFICES ASSUME NEW c \in Following(b, v)
                 PROVE  ~ReadFirst(graph.blocks[c], v)
        OBVIOUS
    <2>1. c \in Blocks /\ v \notin Exposed(graph, graph.blocks[c])
        BY <1>4 DEF Into
    <2>2. graph.blocks[c] \in Seq(Statements)
        BY <2>1, GraphFacts DEF Blocks
    <2> QED BY <2>1, <2>2, ExposedIsReadFirst
<1>6. v \in graph.globals
    BY <1>5 DEF LiveAtEnd
<1>7. v \in liveOut[Exit(graph)]
    BY <1>6 DEF GlobalsAtExit
<1>8. Exit(graph) \in Following(b, v) /\ Unassigned(graph.blocks[Exit(graph)], v)
    BY <1>5, <1>7 DEF LiveAtEnd
<1> QED
    BY <1>2, <1>4, <1>7, <1>8

-----------------------------------------------------------------------------
(* A round begins.                                                         *)

LEMMA ExposedType ==
    ASSUME NEW g, g.globals \in SUBSET Variables, NEW list \in Seq(Statements)
    PROVE  Exposed(g, list) \in SUBSET Variables
<1> SUFFICES ASSUME NEW v \in Exposed(g, list)
             PROVE  v \in Variables
    OBVIOUS
<1>1. Len(list) \in Nat /\ DOMAIN list = 1..Len(list)
    BY LenProperties
<1>2. ReadFrom(g, list, 1, v)
    BY <1>1, ExposedMeans
<1>3. PICK k \in 1..Len(list) : v \in Reads(g, list[k])
    BY <1>2 DEF ReadFrom
<1>4. list[k].gen \in SUBSET Variables
    BY <1>1, StatementFacts
<1> QED
    BY <1>3, <1>4 DEF Reads

\* What initLVA and doLVA start from in a graph.
LEMMA StartFacts ==
    ASSUME NEW g, IsFlowGraph(g)
    PROVE  /\ [b \in DOMAIN g.blocks |-> Exposed(g, g.blocks[b])]
                  \in [DOMAIN g.blocks -> SUBSET Variables]
           /\ NoneLive(g) \in [DOMAIN g.blocks -> SUBSET Variables]
           /\ NoneLive(g)[1] = {} /\ NoneLive(g)[Exit(g)] = g.globals
           /\ Exit(g) \in DOMAIN g.blocks /\ g.blocks \in Seq(Seq(Statements))
           /\ Len(g.succ[Exit(g)]) = 0
<1>1. /\ g.blocks \in Seq(Seq(Statements)) /\ g.globals \in SUBSET Variables
      /\ Exit(g) \in Nat /\ Exit(g) >= 2 /\ DOMAIN g.blocks = 1..Exit(g)
      /\ \A b \in 1..Exit(g) : g.blocks[b] \in Seq(Statements)
      /\ g.succ[Exit(g)] = <<>>
    BY GraphFacts
<1>2. \A b \in DOMAIN g.blocks : Exposed(g, g.blocks[b]) \in SUBSET Variables
    BY <1>1, ExposedType
<1>3. /\ NoneLive(g) \in [DOMAIN g.blocks -> SUBSET Variables]
      /\ NoneLive(g)[1] = {} /\ NoneLive(g)[Exit(g)] = g.globals
    BY <1>1 DEF NoneLive
<1>4. Len(g.succ[Exit(g)]) = 0
    BY <1>1
<1> QED
    BY <1>1, <1>2, <1>3, <1>4

LEMMA InitLive == Init => LiveInv
<1> SUFFICES ASSUME Init PROVE LiveInv
    OBVIOUS
<1> USE DEF Init
<1>1. IsFlowGraph(graph)
    BY GraphsAreFlowGraphs
<1>2. LiveTypeOK
    BY <1>1, StartFacts DEF LiveTypeOK, Blocks
<1>3. Analysing
    BY <1>1, StartFacts DEF Analysing, Blocks
<1>4. ForwardClosed
    BY <1>1, GraphFacts DEF ForwardClosed, Visited, Blocks
<1>5. PassesComplete
    BY <1>1, <1>4, StartFacts DEF PassesComplete, FirstPass
<1>6. GlobalsAtExit
    BY <1>1, StartFacts DEF GlobalsAtExit
<1>7. AllClosed /\ Eliminating /\ KnowsLive
    BY DEF AllClosed, Eliminating, KnowsLive
<1> QED
    BY <1>2, <1>3, <1>5, <1>6, <1>7 DEF LiveInv

LEMMA BeginLive ==
    ASSUME NEW g, IsFlowGraph(g), Begin(g), changed' \in BOOLEAN
    PROVE  LiveInv'
<1> USE DEF Begin
<1>1. LiveTypeOK'
    BY StartFacts DEF LiveTypeOK, Blocks
<1>2. Analysing'
    BY StartFacts DEF Analysing, Blocks
<1>3. ForwardClosed'
    BY GraphFacts DEF ForwardClosed, Visited, Blocks
<1>4. PassesComplete'
    BY <1>3, StartFacts DEF PassesComplete, FirstPass
<1>5. GlobalsAtExit'
    BY StartFacts DEF GlobalsAtExit
<1>6. (AllClosed /\ Eliminating /\ KnowsLive)'
    BY DEF AllClosed, Eliminating, KnowsLive
<1> QED
    BY <1>1, <1>2, <1>4, <1>5, <1>6 DEF LiveInv

-----------------------------------------------------------------------------
(* The analysis.                                                           *)

LEMMA BackEdgeFacts ==
    ASSUME LiveTypeOK
    PROVE  /\ \A e \in BackEdges :
                  /\ e[1] \in Blocks /\ e[2] \in Blocks /\ e[2] <= e[1]
                  /\ e[2] \in Successors(graph, e[1]) /\ e = <<e[1], e[2]>>
           /\ \A b \in Blocks : \A c \in Successors(graph, b) :
                  c \in Blocks /\ (c > b \/ <<b, c>> \in BackEdges)
<1>1. DOMAIN blocks = Blocks
    BY LenProperties DEF LiveTypeOK, IsFlowGraph, Blocks
<1>2. Blocks = 1..Exit(graph) /\ Exit(graph) \in Nat
      /\ \A b \in Blocks : Successors(graph, b) \subseteq Blocks
    BY GraphFacts DEF LiveTypeOK, Blocks
<1> QED
    BY <1>1, <1>2 DEF BackEdges

\* What a turn of the innermost loop does, and leaves.
LEMMA VisitFacts ==
    ASSUME LiveInv, VisitEdge
    PROVE  LET c == graph.succ[block][at]
               more == Into(c) \ VarKill(graph.blocks[block])
           IN  /\ block \in Blocks /\ at \in DOMAIN graph.succ[block] /\ at \in Nat
               /\ c \in Successors(graph, block)
               /\ block # Exit(graph) /\ Exit(graph) \in Blocks
               /\ graph' = graph /\ Blocks' = Blocks /\ BackEdges' = BackEdges
               /\ liveOut' \in [Blocks -> SUBSET Variables]
               /\ \A b \in Blocks : liveOut'[b] =
                      IF b = block THEN liveOut[b] \cup Into(c) ELSE liveOut[b]
               /\ \A b \in Blocks : Into(b)' =
                      IF b = block THEN Into(b) \cup more ELSE Into(b)
               /\ more \subseteq Into(c)
<1> DEFINE c == graph.succ[block][at]
           more == Into(c) \ VarKill(graph.blocks[block])
<1> USE DEF LiveInv, LiveTypeOK, VisitEdge
<1>1. /\ block \in Blocks /\ Blocks = 1..Exit(graph) /\ Exit(graph) \in Nat /\ Exit(graph) >= 2
      /\ DOMAIN graph.succ[block] = 1..Len(graph.succ[block])
      /\ graph.succ[Exit(graph)] = <<>>
      /\ \A b \in Blocks : graph.blocks[b] \in Seq(Statements)
      /\ \A k \in DOMAIN graph.succ[block] : graph.succ[block][k] \in Successors(graph, block)
      /\ graph.globals \in SUBSET Variables
    BY GraphFacts DEF Blocks
<1>2. at \in DOMAIN graph.succ[block] /\ at \in Nat
    BY <1>1 DEF Analysing
<1>3. block # Exit(graph) /\ Exit(graph) \in Blocks
    BY <1>1, <1>2
<1>4. c \in Successors(graph, block) /\ c \in Blocks
    BY <1>1, <1>2, BackEdgeFacts
<1>5. graph' = graph /\ Blocks' = Blocks /\ BackEdges' = BackEdges
    BY DEF Blocks, BackEdges
<1>6. LiveInto(c) = Into(c)
    BY <1>4 DEF LiveInto, Into, Analysing
<1>7. Into(c) \in SUBSET Variables
    BY <1>1, <1>4, ExposedType DEF Into
<1>8. liveOut' = [liveOut EXCEPT ![block] = @ \cup Into(c)]
    BY <1>6
<1> HIDE DEF c
<1>9. /\ liveOut' \in [Blocks -> SUBSET Variables]
      /\ \A b \in Blocks : liveOut'[b] =
             IF b = block THEN liveOut[b] \cup Into(c) ELSE liveOut[b]
    BY <1>1, <1>7, <1>8
<1>10. \A b \in Blocks : Into(b)' = IF b = block THEN Into(b) \cup more ELSE Into(b)
    BY <1>5, <1>9 DEF Into
<1> QED
    BY <1>1, <1>2, <1>3, <1>4, <1>5, <1>9, <1>10 DEF c

LEMMA VisitLaterPass ==
    ASSUME LiveInv, VisitEdge, NEW e \in BackEdges, BackEdges = {e}, LaterPass(e)
    PROVE  LaterPass(e)'
<1> DEFINE c == graph.succ[block][at]
           more == Into(c) \ VarKill(graph.blocks[block])
           found == IF LoopVisited(e) THEN liveOut[e[1]] ELSE {}
<1>1. /\ block \in Blocks /\ at \in DOMAIN graph.succ[block] /\ at \in Nat
      /\ c \in Successors(graph, block)
      /\ graph' = graph /\ Blocks' = Blocks
      /\ \A b \in Blocks : liveOut'[b] =
             IF b = block THEN liveOut[b] \cup Into(c) ELSE liveOut[b]
      /\ \A b \in Blocks : Into(b)' = IF b = block THEN Into(b) \cup more ELSE Into(b)
    BY VisitFacts
<1>2. /\ e[1] \in Blocks /\ e[2] \in Blocks /\ e[2] <= e[1] /\ e = <<e[1], e[2]>>
      /\ \A b \in Blocks : \A d \in Successors(graph, b) :
             d \in Blocks /\ (d > b \/ <<b, d>> = e)
    BY BackEdgeFacts DEF LiveInv
<1>3. Blocks \in SUBSET Nat
    BY GraphFacts DEF Blocks, LiveInv, LiveTypeOK
<1>4. LoopVisited(e)' <=> LoopVisited(e) \/ (e[1] = block /\ c = e[2])
    <2>1. block' = block /\ at' = at + 1
        BY DEF VisitEdge
    <2>2. \A k : k \in 1..((at + 1) - 1) <=> k \in 1..(at - 1) \/ k = at
        <3>1. at >= 1
            BY DEF LiveInv, Analysing, VisitEdge
        <3> QED BY <1>1, <3>1
    <2> QED BY <1>1, <2>1, <2>2 DEF LoopVisited
<1>5. /\ \A b \in Blocks : \A d \in Successors(graph, b) :
             d > b => Into(d) \subseteq liveOut[b] \cup found
      /\ LoopVisited(e) => Into(e[2]) \subseteq liveOut[e[1]]
    BY DEF LaterPass, Closed
<1> DEFINE foundNext == IF LoopVisited(e)' THEN liveOut'[e[1]] ELSE {}
<1>6. found \subseteq foundNext
    BY <1>1, <1>2, <1>4
<1>7. CASE c > block
    <2>1. more \subseteq Into(block) \cup found
        <3>1. Into(c) \subseteq liveOut[block] \cup found
            BY <1>1, <1>5, <1>7
        <3>2. liveOut[block] \ VarKill(graph.blocks[block]) \subseteq Into(block)
            BY DEF Into
        <3> QED BY <3>1, <3>2
    <2>2. LoopVisited(e)' <=> LoopVisited(e)
        BY <1>1, <1>2, <1>3, <1>4, <1>7
    <2> HIDE DEF c, more, found, foundNext
    <2>3. ASSUME NEW b \in Blocks, NEW d \in Successors(graph, b), d > b
          PROVE  Into(d)' \subseteq liveOut'[b] \cup foundNext
        <3>1. Into(d) \subseteq liveOut[b] \cup found /\ d \in Blocks
            BY <1>2, <1>5, <2>3
        <3>2. Into(d)' \subseteq Into(d) \cup found
            BY <1>1, <2>1, <3>1
        <3>3. liveOut[b] \subseteq liveOut'[b]
            BY <1>1
        <3> QED BY <1>6, <3>1, <3>2, <3>3
    <2>4. ASSUME LoopVisited(e)
          PROVE  Into(e[2])' \subseteq liveOut'[e[1]]
        <3>1. found = liveOut[e[1]] /\ Into(e[2]) \subseteq liveOut[e[1]]
            BY <1>5, <2>4 DEF found
        <3>2. Into(e[2])' \subseteq Into(e[2]) \cup found
            BY <1>1, <1>2, <2>1
        <3>3. liveOut[e[1]] \subseteq liveOut'[e[1]]
            BY <1>1, <1>2
        <3> QED BY <3>1, <3>2, <3>3
    <2> QED BY <1>1, <2>2, <2>3, <2>4 DEF LaterPass, Closed, foundNext
<1>8. CASE <<block, c>> = e
    <2>1. e[1] = block /\ e[2] = c /\ LoopVisited(e)'
        BY <1>4, <1>8
    <2>2. foundNext = liveOut[block] \cup Into(c) /\ liveOut'[e[1]] = foundNext
        BY <1>1, <2>1
    <2>3. more \subseteq Into(c)
        OBVIOUS
    <2> HIDE DEF c, more, found, foundNext
    <2>4. ASSUME NEW b \in Blocks, NEW d \in Successors(graph, b), d > b
          PROVE  Into(d)' \subseteq liveOut'[b] \cup foundNext
        <3>1. Into(d) \subseteq liveOut[b] \cup found /\ d \in Blocks
            BY <1>2, <1>5, <2>4
        <3>2. Into(d)' \subseteq Into(d) \cup Into(c)
            BY <1>1, <2>3, <3>1
        <3>3. liveOut[b] \subseteq liveOut'[b]
            BY <1>1
        <3> QED BY <1>6, <2>2, <3>1, <3>2, <3>3
    <2>5. Into(e[2])' \subseteq liveOut'[e[1]]
        <3>1. Into(e[2])' \subseteq Into(c)
            BY <1>1, <1>2, <2>1, <2>3
        <3> QED BY <2>2, <3>1
    <2> QED BY <1>1, <2>4, <2>5 DEF LaterPass, Closed, foundNext
<1> QED
    BY <1>1, <1>2, <1>7, <1>8

LEMMA VisitEdgeLive == LiveInv /\ VisitEdge => LiveInv'
<1> SUFFICES ASSUME LiveInv, VisitEdge PROVE LiveInv'
    OBVIOUS
<1> DEFINE c == graph.succ[block][at]
           more == Into(c) \ VarKill(graph.blocks[block])
<1>1. /\ block \in Blocks /\ at \in DOMAIN graph.succ[block] /\ at \in Nat
      /\ block # Exit(graph) /\ Exit(graph) \in Blocks
      /\ graph' = graph /\ Blocks' = Blocks /\ BackEdges' = BackEdges
      /\ liveOut' \in [Blocks -> SUBSET Variables]
      /\ \A b \in Blocks : liveOut'[b] =
             IF b = block THEN liveOut[b] \cup Into(c) ELSE liveOut[b]
      /\ \A b \in Blocks : Into(b)' = IF b = block THEN Into(b) \cup more ELSE Into(b)
    BY VisitFacts
<1>2. /\ blocks' = blocks /\ ueVar' = ueVar /\ phase = "analyse" /\ phase' = "analyse"
      /\ block' = block /\ at' = at + 1 /\ changed' = (liveOut'[block] # liveOut[block])
      /\ at <= Len(graph.succ[block])
    BY DEF VisitEdge
<1>3. /\ Blocks = 1..Exit(graph) /\ Exit(graph) \in Nat /\ Exit(graph) >= 2
      /\ \A b \in Blocks : /\ DOMAIN graph.succ[b] = 1..Len(graph.succ[b])
                           /\ Len(graph.succ[b]) \in Nat
                           /\ \A k \in DOMAIN graph.succ[b] : graph.succ[b][k] \in Blocks
      /\ Len(graph.succ[1]) = 1
    BY GraphFacts DEF LiveInv, LiveTypeOK, Blocks
<1>4. LiveTypeOK'
    BY <1>1, <1>2 DEF LiveInv, LiveTypeOK
<1>5. Analysing'
    <2>1. at + 1 \in 1..(Len(graph.succ[block]) + 1)
        BY <1>1, <1>3
    <2> QED BY <1>1, <1>2, <2>1 DEF LiveInv, Analysing
<1>6. ForwardClosed'
    <2> SUFFICES ASSUME NEW b \in Blocks, NEW k \in DOMAIN graph.succ[b],
                        Visited(b, k)', graph.succ[b][k] > b
                 PROVE  Into(graph.succ[b][k])' \subseteq liveOut'[b]
        BY <1>1 DEF ForwardClosed, Closed
    <2>1. b > block \/ (b = block /\ k < at + 1)
        BY <1>2 DEF Visited
    <2>2. Into(graph.succ[b][k])' = Into(graph.succ[b][k])
        BY <1>1, <1>3, <2>1
    <2>3. CASE Visited(b, k)
        <3>1. Into(graph.succ[b][k]) \subseteq liveOut[b]
            BY <1>2, <2>3 DEF LiveInv, PassesComplete, ForwardClosed, Closed
        <3> QED BY <1>1, <2>2, <3>1
    <2>4. CASE ~Visited(b, k)
        <3>1. b = block /\ k = at
            BY <1>1, <1>3, <2>1, <2>4 DEF Visited
        <3> QED BY <1>1, <2>2, <3>1
    <2> QED BY <2>3, <2>4
<1>7. ASSUME NEW e \in BackEdges, BackEdges = {e}
      PROVE  FirstPass' \/ LaterPass(e)'
    <2>1. FirstPass \/ LaterPass(e)
        BY <1>2, <1>7 DEF LiveInv, PassesComplete
    <2>2. CASE LaterPass(e)
        BY <1>7, <2>2, VisitLaterPass
    <2>3. CASE FirstPass
        <3>1. liveOut[1] = {} /\ 1 \in Blocks
            <4>1. 1 \in Blocks
                BY <1>3
            <4>2. ASSUME block = 1, at = 2
                  PROVE  FALSE
                <5>1. at <= 1
                    BY <1>2, <1>3, <4>2
                <5> QED BY <4>2, <5>1
            <4> QED BY <2>3, <4>1, <4>2 DEF FirstPass
        <3>2. CASE block # 1
            BY <1>1, <3>1, <3>2 DEF FirstPass
        <3>3. CASE block = 1
            <4>1. at' = 2 /\ block' = 1
                BY <1>1, <1>2, <1>3, <3>3
            <4>2. liveOut'[1] = {} \/ changed'
                BY <1>2, <3>1, <3>3
            <4> QED BY <4>1, <4>2 DEF FirstPass
        <3> QED BY <3>2, <3>3
    <2> QED BY <2>1, <2>2, <2>3
<1>8. PassesComplete'
    BY <1>1, <1>6, <1>7 DEF PassesComplete
<1>9. GlobalsAtExit'
    BY <1>1 DEF LiveInv, GlobalsAtExit
<1>10. (AllClosed /\ Eliminating /\ KnowsLive)'
    BY <1>2 DEF AllClosed, Eliminating, KnowsLive
<1> QED
    BY <1>4, <1>5, <1>8, <1>9, <1>10 DEF LiveInv

LEMMA PreviousBlockLive == LiveInv /\ PreviousBlock => LiveInv'
<1> SUFFICES ASSUME LiveInv, PreviousBlock PROVE LiveInv'
    OBVIOUS
<1>1. /\ phase = "analyse" /\ phase' = "analyse" /\ at > Len(graph.succ[block])
      /\ block > 1 /\ block' = block - 1 /\ at' = 1
      /\ UNCHANGED <<graph, blocks, ueVar, liveOut, changed>>
    BY DEF PreviousBlock
<1>2. /\ Blocks = 1..Exit(graph) /\ Exit(graph) \in Nat /\ block \in Blocks /\ at \in Nat
      /\ \A b \in Blocks : /\ DOMAIN graph.succ[b] = 1..Len(graph.succ[b])
                           /\ Len(graph.succ[b]) \in Nat
      /\ 1 \in Blocks
    BY GraphFacts DEF LiveInv, LiveTypeOK, Blocks
<1>3. block - 1 \in Blocks /\ Blocks' = Blocks /\ BackEdges' = BackEdges
      /\ \A b \in Blocks : Into(b)' = Into(b)
    BY <1>1, <1>2 DEF Blocks, BackEdges, Into
<1>4. LiveTypeOK'
    BY <1>1, <1>3 DEF LiveInv, LiveTypeOK
<1>5. Analysing'
    <2>1. 1 \in 1..(Len(graph.succ[block - 1]) + 1)
        BY <1>2, <1>3
    <2> QED BY <1>1, <1>3, <2>1 DEF LiveInv, Analysing
\* What is visited now was before.
<1>6. \A b \in Blocks : \A k \in DOMAIN graph.succ[b] : Visited(b, k)' <=> Visited(b, k)
    BY <1>1, <1>2 DEF Visited
<1>7. ForwardClosed'
    <2>1. \A b \in Blocks : \A k \in DOMAIN graph.succ[b] : graph.succ[b][k] \in Blocks
        BY GraphFacts DEF LiveInv, LiveTypeOK, Blocks
    <2> QED BY <1>1, <1>3, <1>6, <2>1 DEF LiveInv, PassesComplete, ForwardClosed, Closed
<1>8. ASSUME NEW e \in BackEdges, BackEdges = {e}
      PROVE  FirstPass' \/ LaterPass(e)'
    <2>1. FirstPass \/ LaterPass(e)
        BY <1>1, <1>8 DEF LiveInv, PassesComplete
    <2>2. CASE LaterPass(e)
        <3>1. /\ e[1] \in Blocks /\ e[2] \in Blocks /\ e[2] \in Successors(graph, e[1])
              /\ \A b \in Blocks : \A d \in Successors(graph, b) : d \in Blocks
            BY BackEdgeFacts DEF LiveInv
        <3>2. LoopVisited(e)' <=> LoopVisited(e)
            <4>1. CASE e[1] = block
                <5>1. PICK k \in DOMAIN graph.succ[block] : graph.succ[block][k] = e[2]
                    BY <3>1, <4>1 DEF Successors
                <5>2. k \in 1..(at - 1)
                    BY <1>1, <1>2
                <5>3. LoopVisited(e)
                    BY <4>1, <5>1, <5>2 DEF LoopVisited
                <5>4. LoopVisited(e)'
                    BY <1>1, <1>2, <4>1 DEF LoopVisited
                <5> QED BY <5>3, <5>4
            <4>2. CASE e[1] # block
                <5>1. e[1] > block <=> e[1] > block - 1
                    BY <1>2, <3>1, <4>2
                <5>2. ~\E k \in 1..(1 - 1) : graph.succ[block - 1][k] = e[2]
                    OBVIOUS
                <5> QED BY <1>1, <4>2, <5>1, <5>2 DEF LoopVisited
            <4> QED BY <4>1, <4>2
        <3> QED BY <1>1, <1>3, <2>2, <3>1, <3>2 DEF LaterPass, Closed
    <2>3. CASE FirstPass
        BY <1>1, <2>3 DEF FirstPass
    <2> QED BY <2>1, <2>2, <2>3
<1>9. PassesComplete'
    BY <1>3, <1>7, <1>8 DEF PassesComplete
<1>10. GlobalsAtExit'
    BY <1>1 DEF LiveInv, GlobalsAtExit
<1>11. (AllClosed /\ Eliminating /\ KnowsLive)'
    BY <1>1 DEF AllClosed, Eliminating, KnowsLive
<1> QED
    BY <1>4, <1>5, <1>9, <1>10, <1>11 DEF LiveInv

-----------------------------------------------------------------------------
(* The end of a pass.                                                      *)

\* At the end of a pass all edges were visited.
LEMMA PassEndFacts ==
    ASSUME LiveInv, phase = "analyse", at > Len(graph.succ[block]), block = 1
    PROVE  /\ \A b \in Blocks : \A c \in Successors(graph, b) : c > b => Closed(b, c)
           /\ \A e \in BackEdges : BackEdges = {e} =>
                  liveOut[1] = {} \/ changed \/ Closed(e[1], e[2])
<1>1. /\ Blocks = 1..Exit(graph) /\ Exit(graph) \in Nat /\ at \in Nat
      /\ \A b \in Blocks : /\ DOMAIN graph.succ[b] = 1..Len(graph.succ[b])
                           /\ Len(graph.succ[b]) \in Nat
    BY GraphFacts DEF LiveInv, LiveTypeOK, Blocks
<1>2. \A b \in Blocks : \A k \in DOMAIN graph.succ[b] : Visited(b, k)
    BY <1>1 DEF Visited
<1>3. \A b \in Blocks : \A c \in Successors(graph, b) : c > b => Closed(b, c)
    BY <1>2 DEF LiveInv, PassesComplete, ForwardClosed, Successors
<1>4. ASSUME NEW e \in BackEdges, BackEdges = {e}, ~(liveOut[1] = {}), ~changed
      PROVE  Closed(e[1], e[2])
    <2>1. LaterPass(e)
        BY <1>4 DEF LiveInv, PassesComplete, FirstPass
    <2>2. e[1] \in Blocks /\ e[2] \in Successors(graph, e[1])
        BY BackEdgeFacts DEF LiveInv
    <2>3. LoopVisited(e)
        <3>1. PICK k \in DOMAIN graph.succ[e[1]] : graph.succ[e[1]][k] = e[2]
            BY <2>2 DEF Successors
        <3>2. e[1] = block => k \in 1..(at - 1)
            BY <1>1, <2>2, <3>1
        <3>3. e[1] > block \/ e[1] = block
            BY <1>1, <2>2
        <3> QED BY <3>1, <3>2, <3>3 DEF LoopVisited
    <2> QED BY <2>1, <2>3 DEF LaterPass
<1> QED
    BY <1>3, <1>4

\* Where two passes are enough, they are: nothing is left to be done.
LEMMA PassEndClosed ==
    ASSUME LiveInv, phase = "analyse", at > Len(graph.succ[block]), block = 1, ~changed,
           Completes
    PROVE  \A b \in Blocks : \A c \in Successors(graph, b) : Closed(b, c)
<1> SUFFICES ASSUME NEW b \in Blocks, NEW c \in Successors(graph, b), ~(c > b)
             PROVE  Closed(b, c)
    BY PassEndFacts
<1>1. <<b, c>> \in BackEdges
    BY BackEdgeFacts DEF LiveInv
<1>2. Cardinality(BackEdges) = 1 /\ liveOut[1] # {}
    BY <1>1 DEF Completes
<1>3. IsFiniteSet(BackEdges)
    <2>1. DOMAIN blocks = 1..Exit(graph) /\ Exit(graph) \in Nat
        BY LenProperties, GraphFacts DEF LiveInv, LiveTypeOK, Exit
    <2>2. IsFiniteSet(DOMAIN blocks)
        BY <2>1, FS_Interval
    <2>3. IsFiniteSet((DOMAIN blocks) \X (DOMAIN blocks))
        BY <2>2, FS_Product
    <2>4. BackEdges \in SUBSET ((DOMAIN blocks) \X (DOMAIN blocks))
        BY DEF BackEdges
    <2> QED BY <2>3, <2>4, FS_Subset
<1>4. BackEdges = {<<b, c>>}
    BY <1>1, <1>2, <1>3, FS_Singleton
<1> QED
    BY <1>1, <1>2, <1>4, PassEndFacts

\* What the paths read depends on the graph only.
LEMMA SamePaths ==
    ASSUME graph' = graph
    PROVE  /\ \A b, v : Following(b, v)' = Following(b, v)
           /\ \A list, v : ReadFirst(list, v)' <=> ReadFirst(list, v)
           /\ \A b, v : LiveAtEnd(b, v)' <=> LiveAtEnd(b, v)
           /\ \A b, i, v : LiveAfter(b, i, v)' <=> LiveAfter(b, i, v)
<1>1. \A b, v : Following(b, v)' = Following(b, v)
    BY DEF Following
<1>2. \A list, v : ReadFirst(list, v)' <=> ReadFirst(list, v)
    BY DEF ReadFirst
<1>3. \A b, v : LiveAtEnd(b, v)' <=> LiveAtEnd(b, v)
    BY <1>1, <1>2 DEF LiveAtEnd
<1>4. \A b, i, v : LiveAfter(b, i, v)' <=> LiveAfter(b, i, v)
    BY <1>2, <1>3 DEF LiveAfter
<1> QED
    BY <1>1, <1>2, <1>3, <1>4

\* What is live after the last statement of a block is live at its end.
LEMMA LiveAfterLast ==
    ASSUME NEW b, graph.blocks[b] \in Seq(Statements), NEW v
    PROVE  LiveAfter(b, Len(graph.blocks[b]), v) => LiveAtEnd(b, v)
<1> DEFINE list == graph.blocks[b]
<1>1. Len(list) \in Nat
    BY LenProperties
<1>2. SubSeq(list, Len(list) + 1, Len(list)) = <<>>
    BY <1>1, SubSeqEmpty
<1>3. ~ReadFirst(<<>>, v)
    BY DEF ReadFirst
<1> QED
    BY <1>2, <1>3 DEF LiveAfter

\* The elimination comes to the end of block b.
LEMMA EnterBlockLive ==
    ASSUME LiveInv, NEW b \in Blocks, EnterBlock(b),
           graph' = graph, blocks' = blocks, liveOut' = liveOut, phase' = "eliminate",
           \A c \in Blocks : c >= b => blocks[c] = graph.blocks[c],
           Completes => \A c \in Blocks : \A d \in Successors(graph, c) : Closed(c, d),
           changed' \in BOOLEAN
    PROVE  LiveInv'
<1>1. /\ Blocks = 1..Exit(graph) /\ Exit(graph) \in Nat /\ IsFlowGraph(graph)
      /\ graph.blocks[b] \in Seq(Statements)
      /\ \A c \in Blocks : \A d \in Successors(graph, c) : d \in Blocks
    BY GraphFacts DEF LiveInv, LiveTypeOK, Blocks
<1>2. Len(graph.blocks[b]) \in Nat /\ blocks[b] = graph.blocks[b]
    BY <1>1, LenProperties
<1>3. /\ block' = b /\ at' = Len(graph.blocks[b])
      /\ ueVar' = [ueVar EXCEPT ![b] = liveOut[b]]
    BY <1>2 DEF EnterBlock
<1>4. Blocks' = Blocks /\ BackEdges' = BackEdges /\ (Completes' <=> Completes)
    BY DEF Blocks, BackEdges, Completes
<1>5. LiveTypeOK'
    BY <1>2, <1>3, <1>4 DEF LiveInv, LiveTypeOK
<1>6. Analysing' /\ PassesComplete'
    BY DEF Analysing, PassesComplete
<1>7. GlobalsAtExit'
    BY DEF LiveInv, GlobalsAtExit
<1>8. AllClosed'
    BY <1>1, <1>4 DEF AllClosed, Closed, Into
<1>9. Eliminating'
    <2>1. \A c \in Blocks : c > b => c >= b
        BY <1>1
    <2> QED BY <1>1, <1>2, <1>3, <1>4, <2>1 DEF Eliminating
<1>10. KnowsLive'
    <2>1. ASSUME Completes, NEW v \in Variables, LiveAfter(b, Len(graph.blocks[b]), v)
          PROVE  v \in ueVar'[b]
        <3>1. LiveAtEnd(b, v)
            BY <1>1, <2>1, LiveAfterLast
        <3>2. v \in liveOut[b]
            BY <1>1, <2>1, <3>1, ClosedIsComplete DEF LiveInv
        <3> QED BY <1>3, <3>2 DEF LiveInv, LiveTypeOK
    <2>2. \A v : LiveAfter(block, at, v)' <=> LiveAfter(b, Len(graph.blocks[b]), v)
        BY <1>3, SamePaths
    <2> QED BY <1>3, <1>4, <2>1, <2>2 DEF KnowsLive
<1> QED
    BY <1>5, <1>6, <1>7, <1>8, <1>9, <1>10 DEF LiveInv

LEMMA EndPassLive == LiveInv /\ EndPass => LiveInv'
<1> SUFFICES ASSUME LiveInv, EndPass PROVE LiveInv'
    OBVIOUS
<1>1. /\ phase = "analyse" /\ at > Len(graph.succ[block]) /\ block = 1
      /\ graph' = graph /\ blocks' = blocks /\ liveOut' = liveOut /\ changed' = FALSE
    BY DEF EndPass
<1>2. /\ Blocks = 1..Exit(graph) /\ Exit(graph) \in Nat /\ Exit(graph) >= 2
      /\ graph.succ[Exit(graph)] = <<>>
      /\ \A b \in Blocks : /\ DOMAIN graph.succ[b] = 1..Len(graph.succ[b])
                           /\ Len(graph.succ[b]) \in Nat
    BY GraphFacts DEF LiveInv, LiveTypeOK, Blocks
<1>3. CASE changed
    <2>1. block' = Exit(graph) /\ at' = 1 /\ phase' = phase /\ ueVar' = ueVar
        BY <1>3 DEF EndPass
    <2>2. LiveTypeOK'
        <3>1. Blocks' = Blocks /\ Exit(graph) \in Blocks
            BY <1>1, <1>2 DEF Blocks
        <3> QED BY <1>1, <2>1, <3>1 DEF LiveInv, LiveTypeOK
    <2>3. Analysing'
        <3>1. 1 \in 1..(Len(graph.succ[Exit(graph)]) + 1)
            BY <1>2
        <3> QED BY <1>1, <2>1, <3>1 DEF LiveInv, Analysing, Blocks
    <2>4. ForwardClosed'
        <3>1. \A b \in Blocks : \A k \in DOMAIN graph.succ[b] : ~Visited(b, k)'
            BY <1>2, <2>1 DEF Visited
        <3> QED BY <1>1, <3>1 DEF ForwardClosed, Blocks
    <2>5. ASSUME NEW e \in BackEdges, BackEdges = {e}
          PROVE  FirstPass' \/ LaterPass(e)'
        <3>1. CASE liveOut[1] = {}
            BY <1>1, <3>1 DEF FirstPass
        <3>2. CASE liveOut[1] # {}
            <4>1. ~LoopVisited(e)'
                <5>1. e[1] \in Blocks
                    BY BackEdgeFacts DEF LiveInv
                <5>2. ~(e[1] > Exit(graph)) /\ 1..(1 - 1) = {}
                    BY <1>2, <5>1
                <5> QED BY <2>1, <5>2 DEF LoopVisited
            <4>2. \A b \in Blocks : \A c \in Successors(graph, b) : c > b => Closed(b, c)
                BY <1>1, PassEndFacts
            <4> QED BY <1>1, <4>1, <4>2 DEF LaterPass, Closed, Into, Blocks
        <3> QED BY <3>1, <3>2
    <2>6. PassesComplete'
        BY <1>1, <2>4, <2>5 DEF PassesComplete, BackEdges
    <2>7. GlobalsAtExit'
        BY <1>1 DEF LiveInv, GlobalsAtExit
    <2>8. (AllClosed /\ Eliminating /\ KnowsLive)'
        BY <1>1, <2>1 DEF AllClosed, Eliminating, KnowsLive
    <2> QED BY <2>2, <2>3, <2>6, <2>7, <2>8 DEF LiveInv
<1>4. CASE ~changed
    <2>1. phase' = "eliminate" /\ EnterBlock(1) /\ 1 \in Blocks
        BY <1>2, <1>4 DEF EndPass
    <2>2. \A c \in Blocks : c >= 1 => blocks[c] = graph.blocks[c]
        BY <1>1 DEF LiveInv, Analysing
    <2>3. Completes => \A c \in Blocks : \A d \in Successors(graph, c) : Closed(c, d)
        BY <1>1, <1>4, PassEndClosed
    <2> QED BY <1>1, <2>1, <2>2, <2>3, EnterBlockLive
<1> QED
    BY <1>3, <1>4

-----------------------------------------------------------------------------
(* The elimination.                                                        *)

\* What is live after statement i: the rest of the list reads it, or leaves it
\* alone and it is live at the end.
LEMMA LiveAfterMeans ==
    ASSUME NEW b, graph.blocks[b] \in Seq(Statements), NEW i \in 0..Len(graph.blocks[b]), NEW v
    PROVE  LiveAfter(b, i, v) <=>
               \/ ReadFrom(graph, graph.blocks[b], i + 1, v)
               \/ /\ \A j \in (i + 1)..Len(graph.blocks[b]) : graph.blocks[b][j].kill # v
                  /\ LiveAtEnd(b, v)
<1> DEFINE list == graph.blocks[b]
           n == Len(list)
           rest == SubSeq(list, i + 1, n)
<1>1. n \in Nat /\ i \in Int /\ i <= n /\ \A j \in 1..n : list[j] \in Statements
    BY LenProperties
<1>2. \A j \in (i + 1)..n : list[j] \in Statements
    BY <1>1
<1>3. /\ rest \in Seq(Statements) /\ Len(rest) = n - i
      /\ \A j \in 1..(n - i) : rest[j] = list[i + j]
    <2>1. i + 1 \in Int /\ n \in Int
        BY <1>1
    <2> HIDE DEF list, n
    <2>2. /\ rest \in Seq(Statements)
          /\ Len(rest) = IF i + 1 <= n THEN n - (i + 1) + 1 ELSE 0
          /\ \A j \in 1..(n - (i + 1) + 1) : rest[j] = list[(i + 1) + j - 1]
        BY <1>2, <2>1, SubSeqProperties
    <2> HIDE DEF rest
    <2>3. \A j \in 1..(n - i) : j \in 1..(n - (i + 1) + 1) /\ (i + 1) + j - 1 = i + j
        BY <1>1
    <2> QED BY <1>1, <2>2, <2>3
<1>4. DOMAIN rest = 1..(n - i)
    BY <1>3, LenProperties
<1> HIDE DEF list, n, rest
<1>5. \A j \in 1..(n - i) : i + j \in (i + 1)..n
    BY <1>1
<1>6. \A j \in (i + 1)..n : j - i \in 1..(n - i) /\ i + (j - i) = j
    BY <1>1
<1>7. ReadFirst(rest, v) <=> ReadFrom(graph, list, i + 1, v)
    <2>1. ASSUME NEW k \in 1..(n - i), v \in Reads(graph, rest[k]),
                 \A j \in 1..(k - 1) : rest[j].kill # v
          PROVE  ReadFrom(graph, list, i + 1, v)
        <3>1. i + k \in (i + 1)..n /\ v \in Reads(graph, list[i + k])
            BY <1>3, <1>5, <2>1
        <3>2. ASSUME NEW j \in (i + 1)..(i + k - 1)
              PROVE  list[j].kill # v
            <4>1. j - i \in 1..(k - 1) /\ j - i \in 1..(n - i) /\ i + (j - i) = j
                BY <1>1
            <4> QED BY <1>3, <2>1, <4>1
        <3> QED BY <3>1, <3>2 DEF ReadFrom, n
    <2>2. ASSUME NEW k \in (i + 1)..n, v \in Reads(graph, list[k]),
                 \A j \in (i + 1)..(k - 1) : list[j].kill # v
          PROVE  ReadFirst(rest, v)
        <3>1. k - i \in 1..(n - i) /\ v \in Reads(graph, rest[k - i])
            BY <1>3, <1>6, <2>2
        <3>2. ASSUME NEW j \in 1..(k - i - 1)
              PROVE  rest[j].kill # v
            <4>1. j \in 1..(n - i) /\ i + j \in (i + 1)..(k - 1)
                BY <1>1
            <4> QED BY <1>3, <2>2, <4>1
        <3> QED BY <1>4, <3>1, <3>2 DEF ReadFirst
    <2> QED BY <1>4, <2>1, <2>2 DEF ReadFirst, ReadFrom, n
<1>8. Unassigned(rest, v) <=> \A j \in (i + 1)..n : list[j].kill # v
    BY <1>3, <1>4, <1>5, <1>6 DEF Unassigned
<1> QED
    BY <1>7, <1>8 DEF LiveAfter, list, n, rest

\* What is live before a statement: it reads it, or does not assign it and it is
\* live after it.
LEMMA LiveAfterStep ==
    ASSUME NEW b, graph.blocks[b] \in Seq(Statements), NEW i \in 1..Len(graph.blocks[b]), NEW v,
           LiveAfter(b, i - 1, v), v \notin Reads(graph, graph.blocks[b][i])
    PROVE  graph.blocks[b][i].kill # v /\ LiveAfter(b, i, v)
<1> DEFINE list == graph.blocks[b]
<1>1. Len(list) \in Nat
    BY LenProperties
<1>2. i - 1 \in 0..Len(list) /\ i \in 0..Len(list) /\ (i - 1) + 1 = i
    BY <1>1
<1>3. \/ ReadFrom(graph, list, i, v)
      \/ (\A j \in i..Len(list) : list[j].kill # v) /\ LiveAtEnd(b, v)
    BY <1>2, LiveAfterMeans
<1>4. CASE ReadFrom(graph, list, i, v)
    <2>1. list[i].kill # v /\ ReadFrom(graph, list, i + 1, v)
        BY <1>1, <1>4, ReadFromStep
    <2> QED BY <1>2, <2>1, LiveAfterMeans
<1>5. CASE (\A j \in i..Len(list) : list[j].kill # v) /\ LiveAtEnd(b, v)
    <2>1. i \in i..Len(list) /\ \A j \in (i + 1)..Len(list) : j \in i..Len(list)
        BY <1>1
    <2> QED BY <1>2, <1>5, <2>1, LiveAfterMeans
<1> QED
    BY <1>3, <1>4, <1>5

\* A list without its statement i.
LEMMA RemoveAtFacts ==
    ASSUME NEW list \in Seq(Statements), NEW i \in 1..Len(list)
    PROVE  /\ RemoveAt(list, i) \in Seq(Statements)
           /\ Len(RemoveAt(list, i)) = Len(list) - 1
           /\ \A j \in 1..(i - 1) : RemoveAt(list, i)[j] = list[j]
<1> DEFINE n == Len(list)
           front == SubSeq(list, 1, i - 1)
           back == SubSeq(list, i + 1, n)
<1>1. n \in Nat /\ i \in 1..n /\ \A j \in 1..n : list[j] \in Statements
    BY LenProperties
<1> HIDE DEF n
<1>2. /\ front \in Seq(Statements) /\ Len(front) = i - 1
      /\ \A j \in 1..(i - 1) : front[j] = list[j]
    <2>1. \A j \in 1..(i - 1) : list[j] \in Statements
        BY <1>1
    <2>2. /\ front \in Seq(Statements)
          /\ Len(front) = IF 1 <= i - 1 THEN i - 1 - 1 + 1 ELSE 0
          /\ \A j \in 1..(i - 1 - 1 + 1) : front[j] = list[1 + j - 1]
        <3>1. 1 \in Int /\ i - 1 \in Int
            BY <1>1
        <3> HIDE DEF front
        <3> QED BY <2>1, <3>1, SubSeqProperties DEF front
    <2> HIDE DEF front
    <2>3. \A j \in 1..(i - 1) : j \in 1..(i - 1 - 1 + 1) /\ 1 + j - 1 = j
        BY <1>1
    <2> QED BY <1>1, <2>2, <2>3
<1>3. back \in Seq(Statements) /\ Len(back) = n - i
    <2>1. (\A j \in (i + 1)..n : list[j] \in Statements) /\ i + 1 \in Int /\ n \in Int
        BY <1>1
    <2>2. /\ back \in Seq(Statements)
          /\ Len(back) = IF i + 1 <= n THEN n - (i + 1) + 1 ELSE 0
        BY <2>1, SubSeqProperties
    <2> HIDE DEF back
    <2> QED BY <1>1, <2>2
<1>4. RemoveAt(list, i) = front \o back
    BY DEF RemoveAt, n
<1> HIDE DEF front, back
<1>5. /\ front \o back \in Seq(Statements)
      /\ Len(front \o back) = Len(front) + Len(back)
      /\ \A j \in 1..(Len(front) + Len(back)) :
             (front \o back)[j] = IF j <= Len(front) THEN front[j] ELSE back[j - Len(front)]
    BY <1>2, <1>3, ConcatProperties
<1>6. \A j \in 1..(i - 1) : (front \o back)[j] = list[j]
    BY <1>1, <1>2, <1>3, <1>5
<1>7. Len(front \o back) = n - 1
    BY <1>1, <1>2, <1>3, <1>5
<1> QED
    BY <1>4, <1>5, <1>6, <1>7 DEF n

\* What the elimination looks at is a statement of the graph.
LEMMA EliminateFacts ==
    ASSUME LiveInv, EliminateStatement
    PROVE  LET list == graph.blocks[block]
           IN  /\ block \in Blocks /\ at \in 1..Len(list) /\ at \in 1..Len(blocks[block])
               /\ list \in Seq(Statements) /\ blocks[block] \in Seq(Statements)
               /\ blocks[block][at] = list[at]
               /\ list[at].gen \in SUBSET Variables /\ list[at].kill \in Variables \cup {None}
               /\ DOMAIN blocks = Blocks /\ Blocks = 1..Exit(graph) /\ Exit(graph) \in Nat
<1> USE DEF LiveInv, LiveTypeOK
<1>1. /\ block \in Blocks /\ at \in Nat /\ at > 0
      /\ at <= Len(graph.blocks[block]) /\ at <= Len(blocks[block])
      /\ \A i \in 1..at : blocks[block][i] = graph.blocks[block][i]
    BY DEF EliminateStatement, Eliminating
<1>2. /\ Blocks = 1..Exit(graph) /\ Exit(graph) \in Nat /\ DOMAIN blocks = 1..Exit(graph)
      /\ graph.blocks[block] \in Seq(Statements)
    BY <1>1, GraphFacts, LenProperties DEF Blocks, Exit
<1>3. blocks[block] \in Seq(Statements)
    BY <1>1, <1>2, LenProperties
<1>4. Len(graph.blocks[block]) \in Nat /\ Len(blocks[block]) \in Nat
      /\ DOMAIN graph.blocks[block] = 1..Len(graph.blocks[block])
    BY <1>2, <1>3, LenProperties
<1>5. at \in 1..Len(graph.blocks[block]) /\ at \in 1..Len(blocks[block]) /\ at \in 1..at
    BY <1>1, <1>4
<1> QED
    BY <1>1, <1>2, <1>3, <1>4, <1>5, StatementFacts

LEMMA EliminateStatementLive == LiveInv /\ EliminateStatement => LiveInv'
<1> SUFFICES ASSUME LiveInv, EliminateStatement PROVE LiveInv'
    OBVIOUS
<1> DEFINE list == graph.blocks[block]
           s == list[at]
<1>1. /\ block \in Blocks /\ at \in 1..Len(list) /\ at \in 1..Len(blocks[block])
      /\ list \in Seq(Statements) /\ blocks[block] \in Seq(Statements)
      /\ blocks[block][at] = s
      /\ s.gen \in SUBSET Variables /\ s.kill \in Variables \cup {None}
      /\ DOMAIN blocks = Blocks /\ Blocks = 1..Exit(graph) /\ Exit(graph) \in Nat
    BY EliminateFacts
<1>2. /\ phase = "eliminate" /\ phase' = "eliminate" /\ at' = at - 1
      /\ graph' = graph /\ liveOut' = liveOut /\ block' = block /\ changed' = changed
      /\ \/ blocks' = [blocks EXCEPT ![block] = RemoveAt(@, at)]
         \/ blocks' = blocks
      /\ ueVar' = [ueVar EXCEPT ![block] = LiveBefore(s, @)]
    BY <1>1 DEF EliminateStatement
<1>3. /\ blocks' \in Seq(Seq(Statements)) /\ Len(blocks') = Len(blocks)
      /\ DOMAIN blocks' = DOMAIN blocks
      /\ \A b \in Blocks : b # block => blocks'[b] = blocks[b]
      /\ at - 1 <= Len(blocks'[block])
      /\ \A i \in 1..(at - 1) : blocks'[block][i] = blocks[block][i]
    <2>1. CASE blocks' = blocks
        BY <1>1, <2>1, LenProperties DEF LiveInv, LiveTypeOK
    <2>2. CASE blocks' = [blocks EXCEPT ![block] = RemoveAt(@, at)]
        <3> DEFINE shorter == RemoveAt(blocks[block], at)
        <3>1. /\ shorter \in Seq(Statements) /\ Len(shorter) = Len(blocks[block]) - 1
              /\ \A i \in 1..(at - 1) : shorter[i] = blocks[block][i]
            BY <1>1, RemoveAtFacts
        <3>2. blocks \in Seq(Seq(Statements)) /\ block \in 1..Len(blocks)
            BY <1>1, LenProperties DEF LiveInv, LiveTypeOK
        <3> HIDE DEF shorter
        <3>3. blocks' = [blocks EXCEPT ![block] = shorter]
            BY <2>2 DEF shorter
        <3>4. /\ blocks' \in Seq(Seq(Statements)) /\ Len(blocks') = Len(blocks)
              /\ DOMAIN blocks' = DOMAIN blocks
              /\ \A b \in 1..Len(blocks) : blocks'[b] = IF b = block THEN shorter ELSE blocks[b]
            BY <3>1, <3>2, <3>3, ExceptSeq
        <3>5. Len(blocks[block]) \in Nat /\ DOMAIN blocks = 1..Len(blocks)
            BY <1>1, <3>2, LenProperties
        <3>6. at - 1 <= Len(blocks[block]) - 1
            BY <1>1, <3>5
        <3> QED BY <1>1, <3>1, <3>4, <3>5, <3>6
    <2> QED BY <1>2, <2>1, <2>2
<1>4. Blocks' = Blocks /\ BackEdges' = BackEdges /\ (Completes' <=> Completes)
    <2>1. BackEdges' = BackEdges
        BY <1>2, <1>3 DEF BackEdges
    <2> QED BY <1>2, <2>1 DEF Blocks, Completes
<1>5. LiveTypeOK'
    <2>1. at - 1 \in Nat
        BY <1>1
    <2>2. LiveBefore(s, ueVar[block]) \in SUBSET Variables
        BY <1>1 DEF LiveBefore, LiveInv, LiveTypeOK
    <2>3. ueVar' \in [Blocks -> SUBSET Variables]
        BY <1>1, <1>2, <2>2 DEF LiveInv, LiveTypeOK
    <2> QED BY <1>2, <1>3, <1>4, <2>1, <2>3 DEF LiveInv, LiveTypeOK
<1>6. Analysing' /\ PassesComplete'
    BY <1>2 DEF Analysing, PassesComplete
<1>7. GlobalsAtExit'
    BY <1>2 DEF LiveInv, GlobalsAtExit
<1>8. AllClosed'
    BY <1>2, <1>4 DEF LiveInv, AllClosed, Closed, Into
<1>9. Eliminating'
    <2>1. at - 1 <= Len(list) /\ \A i \in 1..(at - 1) : i \in 1..at
        BY <1>1
    <2>2. \A i \in 1..(at - 1) : blocks'[block][i] = list[i]
        BY <1>2, <1>3, <2>1 DEF LiveInv, Eliminating
    <2>3. \A b \in Blocks : b > block => b # block
        BY <1>1
    <2>4. \A b \in Blocks : b > block => blocks'[b] = graph.blocks[b]
        BY <1>2, <1>3, <2>3 DEF LiveInv, Eliminating
    <2> QED BY <1>2, <1>3, <1>4, <2>1, <2>2, <2>4 DEF Eliminating
<1>10. KnowsLive'
    <2>1. ASSUME Completes, NEW v \in Variables,
                 LiveAfter(block, at - 1, v), ~CallReads(list, at - 1, v)
          PROVE  v \in ueVar'[block]
        <3>1. ueVar'[block] = (ueVar[block] \ {s.kill}) \cup s.gen
            BY <1>1, <1>2 DEF LiveInv, LiveTypeOK, LiveBefore
        <3>2. CASE v \in s.gen
            BY <3>1, <3>2
        <3>3. CASE v \notin s.gen
            <4>1. at \in ((at - 1) + 1)..Len(list)
                  /\ \A j \in (at + 1)..Len(list) : j \in ((at - 1) + 1)..Len(list)
                BY <1>1
            <4>2. v \notin Reads(graph, s) /\ ~CallReads(list, at, v)
                BY <2>1, <3>3, <4>1 DEF CallReads, Reads
            <4>3. s.kill # v /\ LiveAfter(block, at, v)
                BY <1>1, <2>1, <4>2, LiveAfterStep
            <4>4. v \in ueVar[block]
                BY <1>2, <2>1, <4>2, <4>3 DEF LiveInv, KnowsLive
            <4> QED BY <3>1, <4>3, <4>4
        <3> QED BY <3>2, <3>3
    <2>2. \A v : LiveAfter(block, at, v)' <=> LiveAfter(block, at - 1, v)
        BY <1>2, SamePaths
    <2>3. \A v : CallReads(graph.blocks[block], at, v)' <=> CallReads(list, at - 1, v)
        BY <1>2 DEF CallReads
    <2> HIDE DEF list, s
    <2> QED BY <1>2, <1>4, <2>1, <2>2, <2>3 DEF KnowsLive
<1> QED
    BY <1>5, <1>6, <1>7, <1>8, <1>9, <1>10 DEF LiveInv

LEMMA NextBlockLive == LiveInv /\ NextBlock => LiveInv'
<1> SUFFICES ASSUME LiveInv, NextBlock PROVE LiveInv'
    OBVIOUS
<1>1. /\ phase = "eliminate" /\ graph' = graph /\ blocks' = blocks
      /\ liveOut' = liveOut /\ changed' = changed /\ changed \in BOOLEAN
    BY DEF NextBlock, LiveInv, LiveTypeOK
<1>2. Blocks = 1..Exit(graph) /\ Exit(graph) \in Nat /\ block \in Blocks
    BY GraphFacts DEF LiveInv, LiveTypeOK, Blocks
<1>3. CASE block = Exit(graph)
    <2>1. phase' = "sweep" /\ UNCHANGED <<block, at, ueVar>>
        BY <1>3 DEF NextBlock
    <2>2. LiveTypeOK'
        BY <1>1, <2>1 DEF LiveInv, LiveTypeOK, Blocks
    <2>3. GlobalsAtExit'
        BY <1>1 DEF LiveInv, GlobalsAtExit
    <2>4. (Analysing /\ PassesComplete /\ AllClosed /\ Eliminating /\ KnowsLive)'
        BY <2>1 DEF Analysing, PassesComplete, AllClosed, Eliminating, KnowsLive
    <2> QED BY <2>2, <2>3, <2>4 DEF LiveInv
<1>4. CASE block # Exit(graph)
    <2>1. phase' = "eliminate" /\ EnterBlock(block + 1)
        BY <1>1, <1>4 DEF NextBlock
    <2>2. block + 1 \in Blocks /\ \A c \in Blocks : c >= block + 1 => c > block
        BY <1>2, <1>4
    <2>3. \A c \in Blocks : c >= block + 1 => blocks[c] = graph.blocks[c]
        BY <1>1, <2>2 DEF LiveInv, Eliminating
    <2>4. Completes => \A c \in Blocks : \A d \in Successors(graph, c) : Closed(c, d)
        BY <1>1 DEF LiveInv, AllClosed
    <2> HIDE DEF EnterBlock
    <2> QED BY <1>1, <2>1, <2>2, <2>3, <2>4, EnterBlockLive
<1> QED
    BY <1>3, <1>4

-----------------------------------------------------------------------------
(* The end of a round.                                                     *)

\* The entry is marked.
LEMMA EntryIsMarked ==
    ASSUME NEW g, IsFlowGraph(g)
    PROVE  1 \in Marked(g)
<1> DEFINE next == [b \in DOMAIN g.blocks |-> Successors(g, b)]
<1>1. Exit(g) \in Nat /\ Marked(g) = Reach(next, {1}, Exit(g))
    BY GraphFacts DEF Marked
<1> HIDE DEF next
<1> QED
    BY <1>1, StartIsReached

LEMMA FunctionIsSequence ==
    ASSUME NEW n \in Nat, NEW S, NEW f \in [1..n -> S]
    PROVE  f \in Seq(S) /\ Len(f) = n
OBVIOUS

\* What is left of a flowgraph without some blocks, but for the entry, is one.
LEMMA SweptIsFlowGraph ==
    ASSUME NEW g, IsFlowGraph(g), NEW left \in Seq(Seq(Statements)), Len(left) = Len(g.blocks),
           NEW dead, 1 \notin dead
    PROVE  IsFlowGraph([g EXCEPT
               !.blocks = [b \in DOMAIN left |-> IF b \in dead THEN <<>> ELSE left[b]],
               !.succ = [b \in DOMAIN left |-> IF b \in dead THEN <<>> ELSE @[b]]])
<1> DEFINE n == Exit(g)
           bs == [b \in DOMAIN left |-> IF b \in dead THEN <<>> ELSE left[b]]
           ss == [b \in DOMAIN left |-> IF b \in dead THEN <<>> ELSE g.succ[b]]
           h == [g EXCEPT !.blocks = bs, !.succ = ss]
<1>1. /\ n \in Nat /\ n >= 2 /\ Len(left) = n /\ DOMAIN left = 1..n
      /\ g.succ[n] = <<>> /\ Len(g.succ[1]) = 1 /\ g.globals \in SUBSET Variables
      /\ \A b \in 1..n : /\ left[b] \in Seq(Statements) /\ g.succ[b] \in Seq(Nat)
                         /\ Successors(g, b) \subseteq 1..n
    <2>1. /\ n \in Nat /\ n >= 2 /\ g.succ[n] = <<>> /\ Len(g.succ[1]) = 1
          /\ g.globals \in SUBSET Variables
          /\ \A b \in 1..n : g.succ[b] \in Seq(Nat) /\ Successors(g, b) \subseteq 1..n
        BY GraphFacts
    <2>2. Len(left) = n /\ DOMAIN left = 1..n /\ left \in [1..n -> Seq(Statements)]
        BY LenProperties DEF Exit
    <2> QED BY <2>1, <2>2
<1>2. bs \in [1..n -> Seq(Statements)] /\ ss \in [1..n -> Seq(Nat)]
    BY <1>1, EmptySeq
<1>3. bs \in Seq(Seq(Statements)) /\ ss \in Seq(Seq(Nat)) /\ Len(bs) = n /\ Len(ss) = n
    <2> HIDE DEF bs, ss, n
    <2> QED BY <1>1, <1>2, FunctionIsSequence
<1>4. /\ h \in [blocks : Seq(Seq(Statements)), succ : Seq(Seq(Nat)), globals : SUBSET Variables]
      /\ h.blocks = bs /\ h.succ = ss
    <2>1. g \in [blocks : Seq(Seq(Statements)), succ : Seq(Seq(Nat)), globals : SUBSET Variables]
        BY DEF IsFlowGraph
    <2> HIDE DEF bs, ss
    <2> QED BY <1>3, <2>1
<1>5. \A b \in 1..n : ss[b] = IF b \in dead THEN <<>> ELSE g.succ[b]
    BY <1>1
<1> HIDE DEF bs, ss, h
<1>6. DOMAIN bs = 1..n
    BY <1>2
<1>7. ASSUME NEW b \in 1..n
      PROVE  Successors(h, b) \subseteq 1..n
    <2>1. CASE b \in dead
        BY <1>4, <1>5, <2>1 DEF Successors
    <2>2. CASE b \notin dead
        <3>1. Successors(h, b) = Successors(g, b)
            BY <1>4, <1>5, <2>2 DEF Successors
        <3> QED BY <1>1, <3>1
    <2> QED BY <2>1, <2>2
<1>8. Len(ss[1]) = 1 /\ ss[n] = <<>>
    <2>1. 1 \in 1..n /\ n \in 1..n
        BY <1>1
    <2>2. ss[1] = g.succ[1]
        BY <1>5, <2>1
    <2>3. ss[n] = <<>>
        BY <1>1, <1>5, <2>1
    <2> QED BY <1>1, <2>2, <2>3
<1>9. Exit(h) = n
    BY <1>3, <1>4 DEF Exit
<1>10. IsFlowGraph(h)
    <2>1. Len(h.blocks) >= 2 /\ Len(h.succ) = Len(h.blocks)
        BY <1>1, <1>3, <1>4
    <2>2. \A b \in DOMAIN h.blocks : Successors(h, b) \subseteq DOMAIN h.blocks
        BY <1>4, <1>6, <1>7
    <2>3. Len(h.succ[1]) = 1 /\ h.succ[Exit(h)] = <<>>
        BY <1>4, <1>8, <1>9
    <2> HIDE DEF n
    <2> QED BY <1>4, <2>1, <2>2, <2>3 DEF IsFlowGraph
<1> QED
    BY <1>10 DEF h, bs, ss

LEMMA SweepLive == LiveInv /\ Sweep => LiveInv'
<1> SUFFICES ASSUME LiveInv, Sweep PROVE LiveInv'
    OBVIOUS
<1> DEFINE dead == Unreachable(graph)
           swept == [graph EXCEPT
               !.blocks = [b \in DOMAIN blocks |-> IF b \in dead THEN <<>> ELSE blocks[b]],
               !.succ = [b \in DOMAIN blocks |-> IF b \in dead THEN <<>> ELSE @[b]]]
<1>1. /\ IsFlowGraph(graph) /\ blocks \in Seq(Seq(Statements))
      /\ Len(blocks) = Len(graph.blocks) /\ changed' = changed /\ changed \in BOOLEAN
    BY DEF LiveInv, LiveTypeOK, Sweep
<1>2. CASE Begin(swept)
    <2>1. 1 \notin dead
        BY <1>1, EntryIsMarked DEF Unreachable
    <2>2. IsFlowGraph(swept)
        <3> HIDE DEF dead
        <3> QED BY <1>1, <2>1, SweptIsFlowGraph
    <2> HIDE DEF swept
    <2> QED BY <1>1, <1>2, <2>2, BeginLive
<1>3. CASE phase' = "done" /\ UNCHANGED <<graph, blocks, ueVar, liveOut, block, at>>
    <2>1. LiveTypeOK'
        BY <1>1, <1>3 DEF LiveInv, LiveTypeOK, Blocks
    <2>2. GlobalsAtExit'
        BY <1>3 DEF LiveInv, GlobalsAtExit
    <2>3. (Analysing /\ PassesComplete /\ AllClosed /\ Eliminating /\ KnowsLive)'
        BY <1>3 DEF Analysing, PassesComplete, AllClosed, Eliminating, KnowsLive
    <2> QED BY <2>1, <2>2, <2>3 DEF LiveInv
<1>4. Begin(swept) \/ (phase' = "done" /\ UNCHANGED <<graph, blocks, ueVar, liveOut, block, at>>)
    BY DEF Sweep
<1> HIDE DEF swept
<1> QED
    BY <1>2, <1>3, <1>4

LEMMA StutterLive == LiveInv /\ UNCHANGED vars => LiveInv'
<1> SUFFICES ASSUME LiveInv, UNCHANGED vars PROVE LiveInv'
    OBVIOUS
<1> USE DEF vars
<1>1. LiveTypeOK' /\ Analysing'
    BY DEF LiveInv, LiveTypeOK, Analysing, Blocks
<1>2. PassesComplete'
    BY DEF LiveInv, PassesComplete, ForwardClosed, FirstPass, LaterPass, LoopVisited, Visited,
           Closed, Into, BackEdges, Blocks
<1>3. GlobalsAtExit' /\ AllClosed'
    BY DEF LiveInv, GlobalsAtExit, AllClosed, Completes, BackEdges, Closed, Into, Blocks
<1>4. Eliminating'
    BY DEF LiveInv, Eliminating, Blocks
<1>5. KnowsLive'
    <2>1. Completes' <=> Completes
        BY DEF Completes, BackEdges
    <2>2. \A v : LiveAfter(block, at, v)' <=> LiveAfter(block, at, v)
        BY SamePaths
    <2>3. \A v : CallReads(graph.blocks[block], at, v)' <=> CallReads(graph.blocks[block], at, v)
        BY DEF CallReads
    <2> QED BY <2>1, <2>2, <2>3 DEF LiveInv, KnowsLive
<1> QED
    BY <1>1, <1>2, <1>3, <1>4, <1>5 DEF LiveInv

-----------------------------------------------------------------------------
(* The theorems.                                                           *)

\* What the analysis and the elimination know at each step, in every round.
THEOREM LiveInvariant == Spec => []LiveInv
<1>1. Init => LiveInv
    BY InitLive
<1>2. LiveInv /\ [Next]_vars => LiveInv'
    BY VisitEdgeLive, PreviousBlockLive, EndPassLive, EliminateStatementLive, NextBlockLive,
       SweepLive, StutterLive DEF Next
<1> QED
    BY <1>1, <1>2, PTL DEF Spec

\* A variable that some path reads is found to be live, across branches, calls,
\* globals that the caller reads, and a loop.
THEOREM ReadIsAlwaysLive == Spec => []ReadIsLive
<1>1. LiveInv => ReadIsLive
    <2> SUFFICES ASSUME LiveInv, phase = "eliminate", Completes,
                        NEW b \in DOMAIN blocks, NEW v \in Variables, LiveAtEnd(b, v)
                 PROVE  v \in liveOut[b]
        BY DEF ReadIsLive
    <2>1. IsFlowGraph(graph) /\ b \in Blocks
        BY LenProperties DEF LiveInv, LiveTypeOK, IsFlowGraph, Blocks
    <2> QED BY <2>1, ClosedIsComplete DEF LiveInv, AllClosed
<1> QED
    BY <1>1, LiveInvariant, PTL

LEMMA VisitEdgeReads == LiveInv /\ LiveIsRead /\ VisitEdge => LiveIsRead'
<1> SUFFICES ASSUME LiveInv, LiveIsRead, VisitEdge PROVE LiveIsRead'
    OBVIOUS
<1>1. /\ IsFlowGraph(graph) /\ DOMAIN blocks = Blocks
      /\ phase = "analyse" /\ graph' = graph /\ blocks' = blocks
    BY LenProperties DEF VisitEdge, LiveInv, LiveTypeOK, IsFlowGraph, Blocks
<1> SUFFICES ASSUME NEW b \in Blocks, NEW v \in liveOut'[b]
             PROVE  LiveAtEnd(b, v)
    BY <1>1, SamePaths DEF LiveIsRead
<1> DEFINE c == graph.succ[block][at]
<1>2. /\ c \in Successors(graph, block) /\ block \in Blocks
      /\ liveOut' \in [Blocks -> SUBSET Variables]
      /\ liveOut'[b] = IF b = block THEN liveOut[b] \cup Into(c) ELSE liveOut[b]
    BY VisitFacts
<1>3. c \in Blocks /\ graph.blocks[c] \in Seq(Statements)
    BY <1>1, <1>2, GraphFacts DEF Blocks
<1>4. v \in Variables
    BY <1>2
<1> HIDE DEF c
<1>5. CASE v \in liveOut[b]
    BY <1>1, <1>5 DEF LiveIsRead
<1>6. CASE b = block /\ v \in Exposed(graph, graph.blocks[c])
    BY <1>1, <1>2, <1>3, <1>6, ExposedIsReadFirst, ReadNextIsLive
<1>7. CASE b = block /\ v \in liveOut[c] \ VarKill(graph.blocks[c])
    <2>1. LiveAtEnd(c, v) /\ Unassigned(graph.blocks[c], v)
        BY <1>1, <1>3, <1>4, <1>7, VarKillMeans DEF LiveIsRead
    <2> QED BY <1>1, <1>2, <1>7, <2>1, LiveThroughIsLive
<1> QED
    BY <1>2, <1>5, <1>6, <1>7 DEF Into

\* The exit's globals are read by the caller.
LEMMA BeginReads == ASSUME NEW g, Begin(g) PROVE LiveIsRead'
<1>1. /\ graph' = g /\ blocks' = g.blocks /\ liveOut' = NoneLive(g)
    BY DEF Begin
<1>2. \A b \in DOMAIN g.blocks : \A v \in NoneLive(g)[b] : b = Exit(g) /\ v \in g.globals
    BY DEF NoneLive
<1> QED
    BY <1>1, <1>2 DEF LiveIsRead, LiveAtEnd

\* A variable that the analysis calls live is read on some path: nothing is kept
\* for a variable that no path reads.
THEOREM LiveIsAlwaysRead == Spec => []LiveIsRead
<1>1. Init => LiveIsRead
    BY DEF Init, NoneLive, LiveIsRead, LiveAtEnd
<1>2. ASSUME LiveInv, LiveIsRead, [Next]_vars
      PROVE  LiveIsRead'
    <2>1. CASE VisitEdge
        BY <1>2, <2>1, VisitEdgeReads
    <2>2. CASE UNCHANGED <<graph, blocks, liveOut>> /\ (phase' = "analyse" => phase = "analyse")
        BY <1>2, <2>2, SamePaths DEF LiveIsRead
    <2>3. CASE EliminateStatement \/ NextBlock
        BY <2>3 DEF EliminateStatement, NextBlock, LiveIsRead
    <2>4. CASE Sweep
        <3>1. PICK g : Begin(g) \/ phase' = "done"
            BY <2>4 DEF Sweep
        <3> QED BY <3>1, BeginReads DEF LiveIsRead
    <2>5. PreviousBlock \/ EndPass \/ UNCHANGED vars =>
              /\ UNCHANGED <<graph, blocks, liveOut>> /\ (phase' = "analyse" => phase = "analyse")
        BY DEF PreviousBlock, EndPass, vars
    <2> QED BY <1>2, <2>1, <2>2, <2>3, <2>4, <2>5 DEF Next
<1> QED
    BY <1>1, <1>2, LiveInvariant, PTL DEF Spec

\* "eliminate useless code": only assignments to variables that no path reads
\* afterwards are deleted, in every round, if the analysis was complete, but for
\* calls and for globals that a call later in the block reads.
THEOREM OnlyUselessDeleted == Spec => DeletesOnlyUseless
<1>1. ASSUME LiveInv, [Next]_vars
      PROVE  [Completes /\ ~LosesCall => Useless]_vars
    <2> SUFFICES ASSUME Completes, ~LosesCall, phase = "eliminate", blocks' # blocks
                 PROVE  LET s == graph.blocks[block][at]
                        IN  ~s.call /\ ~LiveAfter(block, at, s.kill)
        BY DEF Useless
    <2>1. EliminateStatement
        BY <1>1 DEF Next, VisitEdge, PreviousBlock, EndPass, NextBlock, Sweep, vars
    <2> DEFINE list == graph.blocks[block]
               s == list[at]
    <2>2. blocks[block][at] = s /\ s.kill \in Variables \cup {None} /\ at \in Int
        BY <1>1, <2>1, EliminateFacts
    <2>3. s.kill # None /\ s.kill \notin ueVar[block]
        BY <2>1, <2>2 DEF EliminateStatement
    <2>4. ~s.call /\ ~CallReads(list, at, s.kill)
        BY <2>1 DEF LosesCall, CallReads, EliminateStatement
    <2>5. ~LiveAfter(block, at, s.kill)
        BY <1>1, <2>2, <2>3, <2>4 DEF LiveInv, KnowsLive
    <2> QED BY <2>4, <2>5
<1> QED
    BY <1>1, LiveInvariant, PTL DEF Spec, DeletesOnlyUseless
=============================================================================
