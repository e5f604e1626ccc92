------------------------------ MODULE FlowGraph ------------------------------
(***************************************************************************)
(* The flowgraph (flowgraph.cpp): the list of statements of a function is  *)
(* cleaned up, pass after pass until nothing changes, and cut into basic   *)
(* blocks, each delimited by a label at either end.  The optimizer removes *)
(* and replaces statements in between and has it rebuilt.                  *)
(*                                                                         *)
(* A statement has an op, an id and a target, 0 being the null pointer:    *)
(*                                                                         *)
(*   "label"   its id is its number, what targets refer to                 *)
(*   "jump", "branch", "return", "null"                                    *)
(*   "act"     any other statement, which has an effect                    *)
(*                                                                         *)
(* A pass over the list is one step where its order cannot matter, and one *)
(* step per iteration where the iterator is moved by hand or may not end.  *)
(***************************************************************************)
EXTENDS Integers, FiniteSets, SequencesExt, Reachability

CONSTANTS
    Programs,   \* the lists of statements that the translator makes
    Folding     \* whether branches with constant operands are folded (-cfold)

ASSUME FoldingIsBoolean == Folding \in BOOLEAN

VARIABLES
    stmts,      \* the list of statements
    phase,      \* the pass that is next
    at,         \* the position of its iterator
    forward,    \* label |-> the label it forwards to, or 0
    changed,
    edges,      \* pairs of leaders: the successors of their blocks
    given       \* history: the list that the rebuild was started on

vars == <<stmts, phase, at, forward, changed, edges, given>>

Label(l) == [op |-> "label", id |-> l, target |-> 0]

IsLabel(s) == s.op = "label"
FallsThru(s) == s.op \notin {"jump", "return"}
IsTransfer(s) == s.target # 0 \/ ~FallsThru(s)

LabelsOf(list) == {list[i].id : i \in {j \in DOMAIN list : IsLabel(list[j])}}

\* What lists are made of; a statement is known by its id.
Statements ==
    [op : {"label"}, id : Nat \ {0}, target : {0}]
    \cup [op : {"jump", "branch"}, id : Nat, target : Nat \ {0}]
    \cup [op : {"act", "return", "null"}, id : Nat, target : {0}]

\* The translator puts a label at either end, uses no label twice, and places
\* every label it refers to.
ASSUME ProgramsAreDelimited == \A list \in Programs :
    /\ list \in Seq(Statements) /\ list # <<>>
    /\ IsLabel(list[1]) /\ IsLabel(Last(list))
    /\ \A i, j \in DOMAIN list :
           list[i].id = list[j].id /\ (IsLabel(list[i]) <=> IsLabel(list[j])) => i = j
    /\ \A i \in DOMAIN list : list[i].target \in LabelsOf(list) \cup {0}

\* The position of label l.
Place(list, l) == CHOOSE i \in DOMAIN list : list[i].op = "label" /\ list[i].id = l

\* Labels are identified by their address: a new one differs from those in use.
NewLabel(list) == CHOOSE l \in 1..Len(list) + 1 :
    l \notin LabelsOf(list) /\ \A k \in 1..(l - 1) : k \in LabelsOf(list)

\* The list without the statements at these positions.
Without(list, positions) ==
    LET kept[n \in 0..Len(list)] ==
            IF n = 0 THEN <<>>
            ELSE IF n \in positions THEN kept[n - 1] ELSE Append(kept[n - 1], list[n])
    IN  kept[Len(list)]

NoForward == [l \in 1..0 |-> 0]

-----------------------------------------------------------------------------
(* mergeAdjacentLabels                                                     *)

\* A label is inserted after every transfer of control that has none.
InsertLabels ==
    /\ phase = "insert"
    /\ LET gaps == {i \in DOMAIN stmts :
                       IsTransfer(stmts[i]) /\ ~IsLabel(stmts[i + 1])}
           first == CHOOSE i \in gaps : \A j \in gaps : i <= j
       IN  IF gaps = {} THEN phase' = "merge" /\ UNCHANGED stmts
           ELSE /\ stmts' = InsertAt(stmts, first + 1, Label(NewLabel(stmts)))
                /\ UNCHANGED phase
    /\ UNCHANGED <<at, forward, changed, edges, given>>

\* The labels that directly follow a label.
Adjacent(list) == {i \in DOMAIN list : i > 1 /\ IsLabel(list[i]) /\ IsLabel(list[i - 1])}

\* The label that stays of the sequence the one at position i is in.
FirstOf(list, i) ==
    list[CHOOSE j \in 1..i : j \notin Adjacent(list)
                             /\ \A k \in (j + 1)..i : k \in Adjacent(list)].id

Merged(list) ==
    LET rewritten == [i \in DOMAIN list |->
            IF list[i].target = 0 THEN list[i]
            ELSE [list[i] EXCEPT !.target = FirstOf(list, Place(list, @))]]
    IN  Without(rewritten, Adjacent(list))

MergeLabels ==
    /\ phase = "merge" /\ phase' = "thread"
    /\ stmts' = Merged(stmts)
    /\ at' = 1
    /\ forward' = [l \in LabelsOf(stmts') |-> 0]
    /\ UNCHANGED <<changed, edges, given>>

-----------------------------------------------------------------------------
(* eliminateMultipleJumps                                                  *)

\* Mutation: a label is deleted though the statement before it falls through.
DeletableAlways(list, i) == i > 1

\* A label and the jump after it are deleted where nothing falls into them.
Deletable(list, i) == i > 1 /\ ~FallsThru(list[i - 1])

\* Mutation: only the labels that are deleted are forwarded.
ForwardsIfDeletable(list, i) ==
    /\ IsLabel(list[i]) /\ i < Len(list) /\ Deletable(list, i)
    /\ list[i + 1].op = "jump" /\ list[i + 1].target # list[i].id

\* The label at position i is followed by a jump to another one.
Forwards(list, i) ==
    /\ IsLabel(list[i]) /\ i < Len(list)
    /\ list[i + 1].op = "jump" /\ list[i + 1].target # list[i].id

ThreadJumps ==
    /\ phase = "thread"
    /\ IF at > Len(stmts)
       THEN phase' = "chase" /\ at' = 1 /\ UNCHANGED <<stmts, forward, changed>>
       ELSE LET found == Forwards(stmts, at)
                delete == found /\ Deletable(stmts, at)
            IN  /\ forward' = IF found THEN [forward EXCEPT ![stmts[at].id] = stmts[at + 1].target]
                              ELSE forward
                /\ stmts' = IF delete THEN Without(stmts, {at, at + 1}) ELSE stmts
                /\ changed' = (changed \/ delete)
                /\ at' = IF delete THEN at ELSE at + 1
                /\ UNCHANGED phase
    /\ UNCHANGED <<edges, given>>

\* One turn of the loop that follows the labels a target forwards to.
Chase ==
    /\ phase = "chase"
    /\ IF at > Len(stmts) THEN phase' = "drop" /\ at' = 1 /\ UNCHANGED stmts
       ELSE LET target == stmts[at].target
            IN  IF target # 0 /\ forward[target] # 0
                THEN stmts' = [stmts EXCEPT ![at].target = forward[target]] /\ UNCHANGED <<phase, at>>
                ELSE at' = at + 1 /\ UNCHANGED <<phase, stmts>>
    /\ UNCHANGED <<forward, changed, edges, given>>

\* Mutation: the change is not reported.
DropJumpsUnnoticed ==
    /\ phase = "drop" /\ phase' = "labels"
    /\ stmts' = Without(stmts, {i \in 1..(Len(stmts) - 1) :
                   stmts[i].target # 0 /\ stmts[i + 1] = Label(stmts[i].target)})
    /\ forward' = NoForward
    /\ UNCHANGED <<at, changed, edges, given>>

\* Jumps and branches to the very next statement.  (The statement after the
\* last one, which the code reads, is never equal to the target of a label.)
DropJumpsToNext ==
    /\ phase = "drop" /\ phase' = "labels"
    /\ LET useless == {i \in 1..(Len(stmts) - 1) :
                          stmts[i].target # 0 /\ stmts[i + 1] = Label(stmts[i].target)}
       IN  /\ stmts' = Without(stmts, useless)
           /\ changed' = (changed \/ useless # {})
    /\ forward' = NoForward
    /\ UNCHANGED <<at, edges, given>>

-----------------------------------------------------------------------------
(* removeUnneededLabels                                                    *)

\* Mutation: the label after a transfer is not needed.
NeededIfTargeted(list) ==
    {list[i].target : i \in 2..(Len(list) - 1)}
    \cup {list[i].id : i \in {j \in 2..(Len(list) - 1) : list[j - 1].op = "null"}}

Needed(list) ==
    {list[i].target : i \in 2..(Len(list) - 1)}
    \cup {list[i].id : i \in {j \in 2..(Len(list) - 1) :
                                 list[j - 1].op = "null" \/ IsTransfer(list[j - 1])}}

RemoveUnneededLabels ==
    /\ phase = "labels"
    /\ LET unneeded == {i \in 2..(Len(stmts) - 1) :
                           IsLabel(stmts[i]) /\ stmts[i].id \notin Needed(stmts)}
       IN  /\ stmts' = Without(stmts, unneeded)
           /\ phase' = IF changed \/ unneeded # {} THEN "insert" ELSE "build"
    /\ changed' = FALSE
    /\ UNCHANGED <<at, forward, edges, given>>

-----------------------------------------------------------------------------
(* buildBasicBlocks                                                        *)

\* The label that leads the block the statement at position i is in.
Leader(list, i) ==
    list[CHOOSE j \in 1..i : IsLabel(list[j]) /\ \A k \in (j + 1)..i : ~IsLabel(list[k])].id

\* Mutation: a branch has its target as its only successor.
SuccessorsTaken(list, i) ==
    IF list[i - 1].target # 0 THEN {list[i - 1].target}
    ELSE IF FallsThru(list[i - 1]) THEN {list[i].id} ELSE {Last(list).id}

\* The successors of the block that ends with the label at position i.
Successors(list, i) ==
    LET s == list[i - 1]
    IN  (IF FallsThru(s) THEN {list[i].id} ELSE {})
        \cup (IF s.target # 0 THEN {s.target}
              ELSE IF FallsThru(s) THEN {} ELSE {Last(list).id})

BuildBasicBlocks ==
    /\ phase = "build" /\ phase' = "built"
    /\ edges' = UNION {{Leader(stmts, i - 1)} \X Successors(stmts, i) :
                          i \in {j \in 2..Len(stmts) : IsLabel(stmts[j])}}
    /\ UNCHANGED <<stmts, at, forward, changed, given>>

RebuildFlowgraph ==
    \/ InsertLabels \/ MergeLabels \/ ThreadJumps \/ Chase \/ DropJumpsToNext
    \/ RemoveUnneededLabels \/ BuildBasicBlocks

-----------------------------------------------------------------------------
(* What the optimizer does to the list between two rebuilds.               *)

Rebuild(list) ==
    /\ stmts' = list /\ given' = list
    /\ phase' = "insert" /\ edges' = {}
    /\ UNCHANGED <<at, forward, changed>>

\* Branches with constant operands: taken ones become jumps, others nothing.
Fold ==
    /\ phase = "built" /\ Folding
    /\ \E taken, not \in SUBSET {i \in DOMAIN stmts : stmts[i].op = "branch"} :
           /\ taken \cap not = {} /\ taken \cup not # {}
           /\ Rebuild(Without([i \in DOMAIN stmts |->
                  IF i \in taken THEN [stmts[i] EXCEPT !.op = "jump"] ELSE stmts[i]], not))

\* Statements that are found dead.
DeleteStatements ==
    /\ phase = "built"
    /\ \E dead \in SUBSET {i \in DOMAIN stmts : stmts[i].op = "act"} :
           dead # {} /\ Rebuild(Without(stmts, dead))

\* The leaders of the blocks that can be reached from the first one.
Reached(list) ==
    Reach([l \in LabelsOf(list) |-> {e[2] : e \in {d \in edges : d[1] = l}}],
          {list[1].id}, Len(list))

\* The statements, but not the labels, of the blocks that cannot be reached.
DeleteUnreachable ==
    /\ phase = "built"
    /\ LET dead == {i \in DOMAIN stmts :
                       ~IsLabel(stmts[i]) /\ Leader(stmts, i) \notin Reached(stmts)}
       IN  dead # {} /\ Rebuild(Without(stmts, dead))

Init ==
    /\ stmts \in Programs /\ given = stmts
    /\ phase = "insert" /\ at = 1 /\ forward = NoForward /\ changed = FALSE
    /\ edges = {}

Next == RebuildFlowgraph \/ Fold \/ DeleteStatements \/ DeleteUnreachable

Spec == Init /\ [][Next]_vars /\ WF_vars(RebuildFlowgraph)

-----------------------------------------------------------------------------
(* Properties.                                                             *)

\* Nothing is executed after a statement with an effect, a return, or the end.
Stops(list, p) == list[p].op \in {"act", "return"} \/ p = Len(list)
EffectAt(list, p) == IF list[p].op \in {"act", "return"} THEN list[p].id ELSE 0

\* The position that is executed after position p if the branches go as v says.
Onto(list, v, p) ==
    IF list[p].op = "jump" \/ (list[p].op = "branch" /\ v[list[p].id])
    THEN Place(list, list[p].target) ELSE p + 1

\* The id of the first statement with an effect, or return, that is executed
\* from position i on: 0 is the end of the function, -1 that there is none
\* because the statements go round in circles.
FirstEffect(list, i, v) ==
    LET f[n \in 0..Len(list)] == [p \in DOMAIN list |->
            IF Stops(list, p) THEN EffectAt(list, p)
            ELSE IF n = 0 THEN -1 ELSE f[n - 1][Onto(list, v, p)]]
    IN  f[Len(list)][i]

IdsOf(list, op) == {list[i].id : i \in {j \in DOMAIN list : list[j].op = op}}

\* From the start of the function, and after each statement of the new list,
\* both lists have the same effect next, whichever way the branches go.
SameMeaning(new, old) ==
    LET PlaceOf(list, id) == CHOOSE i \in DOMAIN list : list[i].op = "act" /\ list[i].id = id
    IN  \A v \in [IdsOf(old, "branch") -> BOOLEAN] :
            /\ FirstEffect(new, 1, v) = FirstEffect(old, 1, v)
            /\ \A id \in IdsOf(new, "act") :
                   FirstEffect(new, PlaceOf(new, id) + 1, v) =
                       FirstEffect(old, PlaceOf(old, id) + 1, v)

\* Cleaning up the list does not change what is executed, nor in what order.
MeaningPreserved == phase = "built" => SameMeaning(stmts, given)

\* "The idea is that each basic block starts and ends with a label": the list
\* does, no block is empty of both, every transfer ends one, and every target
\* and every successor is the leader of a block of the list.
BlocksDelimited ==
    phase = "built" =>
        /\ IsLabel(stmts[1]) /\ IsLabel(Last(stmts)) /\ Adjacent(stmts) = {}
        /\ \A i \in DOMAIN stmts : IsTransfer(stmts[i]) =>
               IsLabel(stmts[i + 1]) /\ stmts[i].target \in LabelsOf(stmts) \cup {0}
        /\ \A e \in edges : e[1] \in LabelsOf(stmts) /\ e[2] \in LabelsOf(stmts)

\* "Eliminate jumps to labeled statements that then jump to another label":
\* when nothing changes any more there are none.
JumpsThreaded ==
    phase = "built" =>
        \A i, j \in 1..(Len(stmts) - 1) :
            /\ stmts[i].target # 0 /\ stmts[j] = Label(stmts[i].target)
            /\ stmts[j + 1].op = "jump"
            => stmts[j + 1].target = stmts[j].id

\* Blocks that cannot be reached over the edges are not executed.
UnreachableIsDead == [][DeleteUnreachable => SameMeaning(stmts', stmts)]_vars

\* Somewhere in the list only jumps and labels are executed, for ever.
JumpsInCircles(list) ==
    LET stops == [i \in DOMAIN list |->
                     IF list[i].op = "branch" THEN [list[i] EXCEPT !.op = "act"] ELSE list[i]]
    IN  \E i \in DOMAIN list : FirstEffect(stops, i, <<>>) = -1

\* Every rebuild ends, with the blocks built, unless jumps go round in circles:
\* the passes that insert and remove labels agree in the end.
RebuildEndsWithoutCircles ==
    (phase = "insert" /\ ~JumpsInCircles(given)) ~> (phase = "built")

\* Every rebuild ends, with the blocks built.
RebuildEnds == (phase = "insert") ~> (phase = "built")
=============================================================================
