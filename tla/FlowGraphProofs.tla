--------------------------- MODULE FlowGraphProofs ---------------------------
(***************************************************************************)
(* The flowgraph of any list of statements: whatever the optimizer folds   *)
(* and deletes between rebuilds, blocks are delimited and jumps threaded.  *)
(***************************************************************************)
EXTENDS FlowGraph, ReachabilityProofs, SequenceTheorems

-----------------------------------------------------------------------------
(* Lists without some of their statements.                                 *)

\* new has the statements 1..n of list that are not at positions of D; the
\* k-th of them comes from position e[k].
Selected(new, list, n, D, e) ==
    /\ e \in [1..Len(new) -> (1..n) \ D]
    /\ \A j, k \in 1..Len(new) : j < k => e[j] < e[k]
    /\ \A i \in (1..n) \ D : \E k \in 1..Len(new) : e[k] = i
    /\ \A k \in 1..Len(new) : new[k] = list[e[k]]

\* All that is between two positions is deleted.
Gone(D, i, j) == \A h \in (i + 1)..(j - 1) : h \in D

IsKept(f, list, D, n) ==
    f = [i \in 0..n |->
            IF i = 0 THEN <<>> ELSE IF i \in D THEN f[i - 1] ELSE Append(f[i - 1], list[i])]

LEMMA KeptExists ==
    ASSUME NEW list, NEW D, NEW n \in Nat
    PROVE  \E f : IsKept(f, list, D, n)
<1> DEFINE T == {k \in Nat : \E f : IsKept(f, list, D, k)}
<1>1. 0 \in T
    <2>1. IsKept([i \in 0..0 |-> <<>>], list, D, 0)
        BY DEF IsKept
    <2> QED BY <2>1
<1>2. ASSUME NEW k \in 0..(n - 1), k \in T
      PROVE  k + 1 \in T
    <2>1. PICK f : IsKept(f, list, D, k)
        BY <1>2
    <2> DEFINE last == IF k + 1 \in D THEN f[k] ELSE Append(f[k], list[k + 1])
               h == [i \in 0..(k + 1) |-> IF i = k + 1 THEN last ELSE f[i]]
    <2>2. \A i \in 0..k : f[i] = IF i = 0 THEN <<>> ELSE
                                 IF i \in D THEN f[i - 1] ELSE Append(f[i - 1], list[i])
        BY <2>1 DEF IsKept
    <2> HIDE DEF h
    <2>3. /\ h = [i \in 0..(k + 1) |-> h[i]]
          /\ h[k + 1] = last
          /\ \A i \in 0..k : h[i] = f[i]
        BY DEF h
    <2>4. ASSUME NEW i \in 0..(k + 1)
          PROVE  h[i] = IF i = 0 THEN <<>> ELSE
                        IF i \in D THEN h[i - 1] ELSE Append(h[i - 1], list[i])
        <3>1. CASE i = k + 1
            <4>1. k \in 0..k /\ i # 0 /\ i - 1 = k
                BY <3>1
            <4> QED BY <2>3, <3>1, <4>1
        <3>2. CASE i \in 0..k
            <4>1. i # 0 => i - 1 \in 0..k
                BY <3>2
            <4> QED BY <2>2, <2>3, <3>2, <4>1
        <3> QED BY <3>1, <3>2
    <2>5. IsKept(h, list, D, k + 1)
        BY <2>3, <2>4 DEF IsKept
    <2> QED BY <2>5
<1> HIDE DEF T
<1>3. T \in SUBSET Nat
    BY DEF T
<1>4. 0..n \subseteq T
    BY <1>1, <1>2, <1>3, InductionTo
<1> QED
    BY <1>4 DEF T

\* One statement more.
LEMMA SelectedNext ==
    ASSUME NEW S, NEW list \in Seq(S), NEW D, NEW n \in 0..(Len(list) - 1),
           NEW new \in Seq(S), NEW e, Selected(new, list, n, D, e)
    PROVE  IF n + 1 \in D THEN Selected(new, list, n + 1, D, e)
           ELSE \E g : Selected(Append(new, list[n + 1]), list, n + 1, D, g)
<1>1. ASSUME n + 1 \in D
      PROVE  Selected(new, list, n + 1, D, e)
    <2>1. (1..(n + 1)) \ D = (1..n) \ D
        BY <1>1
    <2> QED BY <2>1 DEF Selected
<1>2. ASSUME n + 1 \notin D
      PROVE  \E g : Selected(Append(new, list[n + 1]), list, n + 1, D, g)
    <2> DEFINE m == Len(new)
               g == [k \in 1..(m + 1) |-> IF k = m + 1 THEN n + 1 ELSE e[k]]
               more == Append(new, list[n + 1])
    <2>1. /\ m \in Nat /\ Len(more) = m + 1
          /\ more[m + 1] = list[n + 1] /\ \A k \in 1..m : more[k] = new[k]
        OBVIOUS
    <2>2. /\ e \in [1..m -> (1..n) \ D]
          /\ \A j, k \in 1..m : j < k => e[j] < e[k]
          /\ \A i \in (1..n) \ D : \E k \in 1..m : e[k] = i
          /\ \A k \in 1..m : new[k] = list[e[k]]
        BY DEF Selected
    <2> HIDE DEF m, more
    <2>3. g[m + 1] = n + 1 /\ \A k \in 1..m : g[k] = e[k]
        BY <2>1
    <2>4. \A k \in 1..(m + 1) : k = m + 1 \/ k \in 1..m
        BY <2>1
    <2>5. g \in [1..(m + 1) -> (1..(n + 1)) \ D]
        BY <1>2, <2>1, <2>2, <2>4
    <2> HIDE DEF g
    <2>6. ASSUME NEW j \in 1..(m + 1), NEW k \in 1..(m + 1), j < k
          PROVE  g[j] < g[k]
        <3>1. j \in 1..m
            BY <2>1, <2>6
        <3>2. CASE k = m + 1
            <4>1. e[j] \in 1..n
                BY <2>2, <3>1
            <4> QED BY <2>3, <3>1, <3>2, <4>1
        <3>3. CASE k \in 1..m
            BY <2>2, <2>3, <2>6, <3>1, <3>3
        <3> QED BY <2>4, <3>2, <3>3
    <2>7. ASSUME NEW i \in (1..(n + 1)) \ D
          PROVE  \E k \in 1..(m + 1) : g[k] = i
        <3>1. CASE i = n + 1
            <4>1. m + 1 \in 1..(m + 1)
                BY <2>1
            <4> QED BY <2>3, <3>1, <4>1
        <3>2. CASE i \in (1..n) \ D
            <4>1. PICK k \in 1..m : e[k] = i
                BY <2>2, <3>2
            <4>2. k \in 1..(m + 1)
                BY <2>1
            <4> QED BY <2>3, <4>1, <4>2
        <3> QED BY <3>1, <3>2
    <2>8. \A k \in 1..(m + 1) : more[k] = list[g[k]]
        BY <2>1, <2>2, <2>3, <2>4
    <2>9. Selected(more, list, n + 1, D, g)
        BY <2>1, <2>5, <2>6, <2>7, <2>8 DEF Selected
    <2> QED BY <2>9 DEF more
<1> QED
    BY <1>1, <1>2

\* What Without keeps, and in which order.
LEMMA WithoutSelects ==
    ASSUME NEW S, NEW list \in Seq(S), NEW D
    PROVE  /\ Without(list, D) \in Seq(S)
           /\ \E e : Selected(Without(list, D), list, Len(list), D, e)
<1> DEFINE N == Len(list)
           f == CHOOSE f : IsKept(f, list, D, N)
<1>1. IsKept(f, list, D, N)
    BY KeptExists
<1>2. Without(list, D) = f[N]
    BY DEF Without, IsKept
<1> HIDE DEF f
<1>0. \A i \in 0..N : f[i] = IF i = 0 THEN <<>> ELSE
                             IF i \in D THEN f[i - 1] ELSE Append(f[i - 1], list[i])
    BY <1>1 DEF IsKept
<1> DEFINE T == {k \in 0..N : f[k] \in Seq(S) /\ \E e : Selected(f[k], list, k, D, e)}
<1>3. 0 \in T
    <2>1. f[0] = <<>>
        <3>1. 0 \in 0..N
            OBVIOUS
        <3> QED BY <1>0, <3>1, Zenon
    <2>2. Selected(<<>>, list, 0, D, [k \in 1..0 |-> 0])
        BY DEF Selected
    <2>3. \E e : Selected(f[0], list, 0, D, e)
        BY <2>1, <2>2
    <2>4. f[0] \in Seq(S)
        BY <2>1
    <2> QED BY <2>3, <2>4
<1>4. ASSUME NEW k \in 0..(N - 1), k \in T
      PROVE  k + 1 \in T
    <2>1. f[k + 1] = IF k + 1 \in D THEN f[k] ELSE Append(f[k], list[k + 1])
        <3>1. k + 1 \in 0..N /\ k + 1 # 0 /\ (k + 1) - 1 = k
            OBVIOUS
        <3> QED BY <1>0, <3>1
    <2>2. f[k] \in Seq(S) /\ list[k + 1] \in S
        BY <1>4
    <2>3. PICK e : Selected(f[k], list, k, D, e)
        BY <1>4
    <2>4. \E g : Selected(f[k + 1], list, k + 1, D, g)
        BY <2>1, <2>2, <2>3, SelectedNext
    <2>5. f[k + 1] \in Seq(S)
        BY <2>1, <2>2
    <2> QED BY <2>4, <2>5
<1> HIDE DEF T
<1>5. 0..N \subseteq T
    <2>1. T \in SUBSET Nat
        BY DEF T
    <2> QED BY <1>3, <1>4, <2>1, InductionTo
<1>6. N \in T
    BY <1>5
<1> QED
    BY <1>2, <1>6 DEF T

\* What is between two statements that were kept next to each other was not.
LEMMA SelectedBetween ==
    ASSUME NEW new, NEW list, NEW n \in Nat, NEW D, NEW e, Len(new) \in Nat,
           Selected(new, list, n, D, e), NEW k \in 1..(Len(new) - 1)
    PROVE  /\ e[k] \in 1..n /\ e[k + 1] \in 1..n /\ e[k] < e[k + 1]
           /\ Gone(D, e[k], e[k + 1])
<1>1. k \in 1..Len(new) /\ k + 1 \in 1..Len(new) /\ k < k + 1
    OBVIOUS
<1>2. e[k] \in 1..n /\ e[k + 1] \in 1..n /\ e[k] < e[k + 1]
    BY <1>1 DEF Selected
<1>3. ASSUME NEW i \in (e[k] + 1)..(e[k + 1] - 1), i \notin D
      PROVE  FALSE
    <2>1. i \in (1..n) \ D
        BY <1>2, <1>3
    <2>2. PICK j \in 1..Len(new) : e[j] = i
        BY <2>1 DEF Selected
    <2>3. CASE j = k \/ j = k + 1
        BY <1>2, <1>3, <2>2, <2>3
    <2>4. CASE j < k
        <3>1. e[j] < e[k]
            BY <1>1, <2>4 DEF Selected
        <3> QED BY <1>2, <1>3, <2>2, <3>1
    <2>5. CASE k + 1 < j
        <3>1. e[k + 1] < e[j]
            BY <1>1, <2>5 DEF Selected
        <3> QED BY <1>2, <1>3, <2>2, <3>1
    <2> QED BY <1>1, <2>3, <2>4, <2>5
<1> QED
    BY <1>2, <1>3 DEF Gone

\* A statement that is kept comes after the one before it that is kept.
LEMMA SelectedAfter ==
    ASSUME NEW new, NEW list, NEW n \in Nat, NEW D, NEW e, Len(new) \in Nat,
           Selected(new, list, n, D, e), NEW k \in 1..Len(new),
           e[k] + 1 \in (1..n) \ D
    PROVE  k + 1 \in 1..Len(new) /\ e[k + 1] = e[k] + 1
<1>1. PICK j \in 1..Len(new) : e[j] = e[k] + 1
    BY DEF Selected
<1>2. e[k] \in 1..n
    BY DEF Selected
<1>3. k < j
    <2>1. j < k => e[j] < e[k]
        BY DEF Selected
    <2> QED BY <1>1, <1>2, <2>1
<1>4. k \in 1..(Len(new) - 1)
    BY <1>3
<1>5. e[k] < e[k + 1] /\ e[k + 1] \in 1..n
    BY <1>4, SelectedBetween
<1>6. CASE k + 1 < j
    <2>1. e[k + 1] < e[j]
        BY <1>4, <1>6 DEF Selected
    <2> QED BY <1>1, <1>2, <1>5, <2>1
<1> QED
    BY <1>1, <1>3, <1>4, <1>6

\* The first and the last statement, if they are kept.
LEMMA SelectedEnds ==
    ASSUME NEW new, NEW list, NEW n \in Nat \ {0}, NEW D, NEW e, Len(new) \in Nat,
           Selected(new, list, n, D, e)
    PROVE  /\ 1 \notin D => Len(new) >= 1 /\ e[1] = 1
           /\ n \notin D => Len(new) >= 1 /\ e[Len(new)] = n
<1>1. \A k \in 1..Len(new) : e[k] \in 1..n
    BY DEF Selected
<1>2. ASSUME 1 \notin D
      PROVE  Len(new) >= 1 /\ e[1] = 1
    <2>1. PICK k \in 1..Len(new) : e[k] = 1
        BY <1>2 DEF Selected
    <2>2. 1 < k => e[1] < e[k]
        BY DEF Selected
    <2>3. 1 \in 1..Len(new)
        BY <2>1
    <2> QED BY <1>1, <2>1, <2>2, <2>3
<1>3. ASSUME n \notin D
      PROVE  Len(new) >= 1 /\ e[Len(new)] = n
    <2>1. PICK k \in 1..Len(new) : e[k] = n
        BY <1>3 DEF Selected
    <2>2. Len(new) \in 1..Len(new)
        BY <2>1
    <2>3. k < Len(new) => e[k] < e[Len(new)]
        BY <2>2 DEF Selected
    <2> QED BY <1>1, <2>1, <2>2, <2>3
<1> QED
    BY <1>2, <1>3

\* Nothing is kept after the last one.
LEMMA SelectedLast ==
    ASSUME NEW new, NEW list, NEW n \in Nat, NEW D, NEW e, Len(new) \in Nat \ {0},
           Selected(new, list, n, D, e)
    PROVE  /\ e[Len(new)] \in 1..n
           /\ \A i \in (e[Len(new)] + 1)..n : i \in D
<1>1. Len(new) \in 1..Len(new)
    OBVIOUS
<1>2. e[Len(new)] \in 1..n
    BY <1>1 DEF Selected
<1>3. ASSUME NEW i \in (e[Len(new)] + 1)..n, i \notin D
      PROVE  FALSE
    <2>1. i \in (1..n) \ D
        BY <1>2, <1>3
    <2>2. PICK j \in 1..Len(new) : e[j] = i
        BY <2>1 DEF Selected
    <2>3. j < Len(new) => e[j] < e[Len(new)]
        BY <1>1 DEF Selected
    <2> QED BY <1>2, <1>3, <2>2, <2>3
<1> QED
    BY <1>2, <1>3

-----------------------------------------------------------------------------
(* Lists.                                                                  *)

\* A list is never without its delimiters, and its statements have names.
Delimited(list) ==
    /\ list \in Seq(Statements) /\ list # <<>>
    /\ IsLabel(list[1]) /\ IsLabel(list[Len(list)])
    /\ \A i, j \in 1..Len(list) :
           list[i].id = list[j].id /\ (IsLabel(list[i]) <=> IsLabel(list[j])) => i = j

\* Every label that is referred to is there.
Targeted(list) == \A i \in 1..Len(list) : list[i].target \in LabelsOf(list) \cup {0}

\* Every transfer of control is followed by a label.
Closed(list) ==
    \A i \in 1..Len(list) :
        IsTransfer(list[i]) => i + 1 \in 1..Len(list) /\ IsLabel(list[i + 1])

Separated(list) == Adjacent(list) = {}

\* No target is a label that is followed by a jump to another one.
Threaded(list) ==
    \A i, j \in 1..(Len(list) - 1) :
        /\ list[i].target # 0 /\ list[j] = Label(list[i].target)
        /\ list[j + 1].op = "jump"
        => list[j + 1].target = list[j].id

LEMMA StatementFacts ==
    ASSUME NEW s \in Statements
    PROVE  /\ s.id \in Nat /\ s.target \in Nat
           /\ s.op \in {"label", "jump", "branch", "act", "return", "null"}
           /\ s.op \in {"jump", "branch"} <=> s.target # 0
           /\ IsTransfer(s) <=> s.op \in {"jump", "branch", "return"}
           /\ FallsThru(s) <=> s.op \notin {"jump", "return"}
           /\ IsLabel(s) <=> s.op = "label"
           /\ IsLabel(s) => s.id # 0 /\ s.target = 0 /\ s = Label(s.id)
BY DEF Statements, IsTransfer, FallsThru, IsLabel, Label

LEMMA DelimitedFacts ==
    ASSUME NEW list, Delimited(list)
    PROVE  /\ Len(list) \in Nat \ {0} /\ DOMAIN list = 1..Len(list)
           /\ 1 \in 1..Len(list) /\ Len(list) \in 1..Len(list)
           /\ \A i \in 1..Len(list) : list[i] \in Statements
BY DEF Delimited

LEMMA LabelIsStatement ==
    ASSUME NEW l \in Nat \ {0}
    PROVE  Label(l) \in Statements /\ IsLabel(Label(l)) /\ Label(l).id = l /\ Label(l).target = 0
BY DEF Label, Statements, IsLabel

LEMMA LabelsMeans ==
    ASSUME NEW list, Delimited(list), NEW l
    PROVE  l \in LabelsOf(list) <=> \E i \in 1..Len(list) : IsLabel(list[i]) /\ list[i].id = l
BY DelimitedFacts DEF LabelsOf

\* A label has one place.
LEMMA PlaceOfLabel ==
    ASSUME NEW list, Delimited(list), NEW i \in 1..Len(list), IsLabel(list[i])
    PROVE  Place(list, list[i].id) = i
<1>1. \A j \in 1..Len(list) : list[j].op = "label" /\ list[j].id = list[i].id => j = i
    BY DEF Delimited, IsLabel
<1>2. list[i].op = "label" /\ i \in DOMAIN list
    BY DelimitedFacts DEF IsLabel
<1>3. DOMAIN list = 1..Len(list)
    BY DelimitedFacts
<1> QED
    BY <1>1, <1>2, <1>3 DEF Place

LEMMA PlaceIsLabel ==
    ASSUME NEW list, Delimited(list), NEW l \in LabelsOf(list)
    PROVE  Place(list, l) \in 1..Len(list) /\ list[Place(list, l)] = Label(l) /\ l \in Nat \ {0}
<1>1. PICK i \in 1..Len(list) : IsLabel(list[i]) /\ list[i].id = l
    BY LabelsMeans
<1>2. Place(list, l) = i
    BY <1>1, PlaceOfLabel
<1>3. list[i] \in Statements
    BY DelimitedFacts
<1>4. list[i] = Label(l) /\ l \in Nat \ {0}
    BY <1>1, <1>3, StatementFacts
<1> QED
    BY <1>2, <1>4

-----------------------------------------------------------------------------
(* What is left of a list is a list.                                       *)

LEMMA SelectedDelimited ==
    ASSUME NEW list, Delimited(list), NEW new \in Seq(Statements), NEW D, NEW e,
           Selected(new, list, Len(list), D, e), 1 \notin D,
           new # <<>> => IsLabel(new[Len(new)])
    PROVE  Delimited(new)
<1>1. Len(list) \in Nat \ {0} /\ Len(new) \in Nat
    BY DelimitedFacts
<1>2. Len(new) >= 1 /\ e[1] = 1
    BY <1>1, SelectedEnds
<1>3. new # <<>>
    BY <1>2
<1>4. IsLabel(new[1])
    <2>1. new[1] = list[1]
        BY <1>1, <1>2 DEF Selected
    <2> QED BY <2>1 DEF Delimited
<1>5. ASSUME NEW j \in 1..Len(new), NEW k \in 1..Len(new), new[j].id = new[k].id,
             IsLabel(new[j]) <=> IsLabel(new[k])
      PROVE  j = k
    <2>1. /\ e[j] \in 1..Len(list) /\ e[k] \in 1..Len(list)
          /\ new[j] = list[e[j]] /\ new[k] = list[e[k]]
        BY DEF Selected
    <2>2. e[j] = e[k]
        BY <1>5, <2>1 DEF Delimited
    <2>3. (j < k => e[j] < e[k]) /\ (k < j => e[k] < e[j])
        BY DEF Selected
    <2> QED BY <1>1, <2>1, <2>2, <2>3
<1> QED
    BY <1>3, <1>4, <1>5 DEF Delimited

LEMMA SelectedLabels ==
    ASSUME NEW list, Delimited(list), NEW new, Delimited(new), NEW D, NEW e,
           Selected(new, list, Len(list), D, e), NEW l
    PROVE  l \in LabelsOf(new) <=>
               \E i \in (1..Len(list)) \ D : IsLabel(list[i]) /\ list[i].id = l
<1>1. ASSUME l \in LabelsOf(new)
      PROVE  \E i \in (1..Len(list)) \ D : IsLabel(list[i]) /\ list[i].id = l
    <2>1. PICK k \in 1..Len(new) : IsLabel(new[k]) /\ new[k].id = l
        BY <1>1, LabelsMeans
    <2>2. e[k] \in (1..Len(list)) \ D /\ new[k] = list[e[k]]
        BY DEF Selected
    <2> QED BY <2>1, <2>2
<1>2. ASSUME NEW i \in (1..Len(list)) \ D, IsLabel(list[i]), list[i].id = l
      PROVE  l \in LabelsOf(new)
    <2>1. PICK k \in 1..Len(new) : e[k] = i
        BY DEF Selected
    <2>2. new[k] = list[i]
        BY <2>1 DEF Selected
    <2> QED BY <1>2, <2>2, LabelsMeans
<1> QED
    BY <1>1, <1>2

\* Both delimiters are kept.
LEMMA WithoutDelimited ==
    ASSUME NEW list, Delimited(list), NEW D, 1 \notin D, Len(list) \notin D
    PROVE  /\ Delimited(Without(list, D))
           /\ \E e : Selected(Without(list, D), list, Len(list), D, e)
<1>1. list \in Seq(Statements) /\ Len(list) \in Nat \ {0}
    BY DelimitedFacts DEF Delimited
<1>2. Without(list, D) \in Seq(Statements)
    BY <1>1, WithoutSelects
<1>3. PICK e : Selected(Without(list, D), list, Len(list), D, e)
    BY <1>1, WithoutSelects
<1> DEFINE new == Without(list, D)
<1> HIDE DEF new
<1>4. Len(new) \in Nat /\ Len(new) >= 1 /\ e[Len(new)] = Len(list)
    BY <1>1, <1>2, <1>3, SelectedEnds DEF new
<1>5. IsLabel(new[Len(new)])
    <2>1. new[Len(new)] = list[Len(list)]
        BY <1>3, <1>4 DEF Selected, new
    <2> QED BY <2>1 DEF Delimited
<1>6. Delimited(new)
    BY <1>2, <1>3, <1>5, SelectedDelimited DEF new
<1> QED
    BY <1>3, <1>6 DEF new

\* If no label that is referred to is deleted, all targets are still there.
LEMMA WithoutTargeted ==
    ASSUME NEW list, Delimited(list), Targeted(list), NEW D, 1 \notin D, Len(list) \notin D,
           \A i \in (1..Len(list)) \cap D, j \in (1..Len(list)) \ D :
               IsLabel(list[i]) => list[j].target # list[i].id
    PROVE  Targeted(Without(list, D))
<1> DEFINE new == Without(list, D)
<1>1. Delimited(new)
    BY WithoutDelimited
<1>2. PICK e : Selected(new, list, Len(list), D, e)
    BY WithoutDelimited
<1> HIDE DEF new
<1> SUFFICES ASSUME NEW k \in 1..Len(new), new[k].target # 0
             PROVE  new[k].target \in LabelsOf(new)
    BY DEF Targeted, new
<1>3. e[k] \in (1..Len(list)) \ D /\ new[k] = list[e[k]]
    BY <1>2 DEF Selected
<1>4. new[k].target \in LabelsOf(list)
    BY <1>3 DEF Targeted
<1>5. PICK i \in 1..Len(list) : IsLabel(list[i]) /\ list[i].id = new[k].target
    BY <1>4, LabelsMeans
<1>6. i \notin D
    BY <1>3, <1>5
<1> QED
    BY <1>1, <1>2, <1>5, <1>6, SelectedLabels

\* The next statement that is kept.
LEMMA SelectedNextKept ==
    ASSUME NEW new, NEW list, NEW n \in Nat, NEW D, NEW e, Len(new) \in Nat,
           Selected(new, list, n, D, e), NEW k \in 1..Len(new),
           NEW j \in (1..n) \ D, e[k] < j, Gone(D, e[k], j)
    PROVE  k + 1 \in 1..Len(new) /\ e[k + 1] = j
<1>1. PICK i \in 1..Len(new) : e[i] = j
    BY DEF Selected
<1>2. e[k] \in 1..n
    BY DEF Selected
<1>3. k < i
    <2>1. i < k => e[i] < e[k]
        BY DEF Selected
    <2> QED BY <1>1, <1>2, <2>1
<1>4. k \in 1..(Len(new) - 1) /\ k + 1 \in 1..Len(new)
    BY <1>3
<1>5. e[k] < e[k + 1] /\ e[k + 1] \in 1..n
    BY <1>4, SelectedBetween
<1>6. e[k + 1] \notin D
    BY <1>4 DEF Selected
<1>7. CASE k + 1 < i
    <2>1. e[k + 1] < j
        BY <1>1, <1>4, <1>7 DEF Selected
    <2>2. e[k + 1] \in (e[k] + 1)..(j - 1)
        BY <1>2, <1>5, <2>1
    <2> QED BY <1>6, <2>2 DEF Gone
<1> QED
    BY <1>1, <1>3, <1>4, <1>7

\* If the next statement that is kept after each transfer is a label, transfers
\* are still followed by labels.
LEMMA WithoutClosed ==
    ASSUME NEW list, Delimited(list), NEW D, 1 \notin D, Len(list) \notin D,
           \A i \in (1..Len(list)) \ D : IsTransfer(list[i]) =>
               \E j \in (1..Len(list)) \ D :
                   i < j /\ IsLabel(list[j]) /\ Gone(D, i, j)
    PROVE  Closed(Without(list, D))
<1> DEFINE new == Without(list, D)
<1>1. Delimited(new)
    BY WithoutDelimited
<1>2. PICK e : Selected(new, list, Len(list), D, e)
    BY WithoutDelimited
<1>3. Len(list) \in Nat \ {0} /\ Len(new) \in Nat \ {0}
    BY <1>1, DelimitedFacts
<1> HIDE DEF new
<1> SUFFICES ASSUME NEW k \in 1..Len(new), IsTransfer(new[k])
             PROVE  k + 1 \in 1..Len(new) /\ IsLabel(new[k + 1])
    BY DEF Closed, new
<1>4. e[k] \in (1..Len(list)) \ D /\ new[k] = list[e[k]]
    BY <1>2 DEF Selected
<1>5. PICK j \in (1..Len(list)) \ D :
          e[k] < j /\ IsLabel(list[j]) /\ Gone(D, e[k], j)
    BY <1>4
<1>6. k + 1 \in 1..Len(new) /\ e[k + 1] = j
    BY <1>2, <1>3, <1>5, SelectedNextKept
<1> QED
    BY <1>2, <1>5, <1>6 DEF Selected

-----------------------------------------------------------------------------
(* mergeAdjacentLabels                                                     *)

\* There is always a label that is not used yet.
LEMMA NewLabelIsNew ==
    ASSUME NEW list, Delimited(list)
    PROVE  NewLabel(list) \in Nat \ {0} /\ NewLabel(list) \notin LabelsOf(list)
<1> DEFINE n == Len(list)
           free == {l \in 1..(n + 1) : l \notin LabelsOf(list)}
<1>1. n \in Nat /\ DOMAIN list = 1..n
    BY DelimitedFacts
<1>2. free # {}
    <2> SUFFICES ASSUME 1..(n + 1) \subseteq LabelsOf(list)
                 PROVE  FALSE
        OBVIOUS
    <2> DEFINE img == {list[i].id : i \in 1..n}
    <2> HIDE DEF n
    <2>1. IsFiniteSet(1..n) /\ Cardinality(1..n) = n
        BY <1>1, FS_Interval
    <2>2. IsFiniteSet(1..(n + 1)) /\ Cardinality(1..(n + 1)) = n + 1
        BY <1>1, FS_Interval
    <2> DEFINE ids == [i \in 1..n |-> list[i].id]
    <2>3. ids \in Surjection(1..n, img)
        BY DEF Surjection
    <2> HIDE DEF ids
    <2>4. IsFiniteSet(img) /\ Cardinality(img) <= n
        BY <2>1, <2>3, FS_Surjection
    <2>5. 1..(n + 1) \subseteq img
        BY <1>1 DEF LabelsOf
    <2> HIDE DEF img
    <2>6. Cardinality(1..(n + 1)) <= Cardinality(img)
        BY <2>4, <2>5, FS_Subset
    <2>7. Cardinality(img) \in Nat
        BY <2>4, FS_CardinalityType
    <2> QED BY <1>1, <2>2, <2>4, <2>6, <2>7
<1>3. PICK l \in free : \A k \in free : l <= k
    <2>1. free \in SUBSET Nat
        BY <1>1
    <2> HIDE DEF free
    <2> QED BY <1>2, <2>1, LeastNatural
<1>4. \A k \in 1..(l - 1) : k \in LabelsOf(list)
    BY <1>1, <1>3
<1>5. \E h \in 1..(n + 1) : h \notin LabelsOf(list) /\ \A k \in 1..(h - 1) : k \in LabelsOf(list)
    BY <1>3, <1>4
<1>6. NewLabel(list) \in 1..(n + 1) /\ NewLabel(list) \notin LabelsOf(list)
    BY <1>5 DEF NewLabel
<1> QED
    BY <1>1, <1>6

Inserting(list, i, l) == InsertAt(list, i + 1, Label(l))

\* The list after an insertion, statement by statement.
LEMMA Inserted ==
    ASSUME NEW list, Delimited(list), NEW i \in 1..(Len(list) - 1), NEW l \in Nat \ {0}
    PROVE  LET new == Inserting(list, i, l)
           IN  /\ new \in Seq(Statements) /\ Len(new) = Len(list) + 1
               /\ \A k \in 1..i : new[k] = list[k]
               /\ new[i + 1] = Label(l)
               /\ \A k \in (i + 1)..Len(list) : new[k + 1] = list[k]
<1> DEFINE front == SubSeq(list, 1, i)
           back == SubSeq(list, i + 1, Len(list))
           new == (front \o <<Label(l)>>) \o back
<1>1. list \in Seq(Statements) /\ Len(list) \in Nat
    BY DelimitedFacts DEF Delimited
<1>2. Inserting(list, i, l) = new
    BY <1>1 DEF InsertAt, Inserting
<1>3. Label(l) \in Statements
    BY LabelIsStatement
<1>4. /\ front \in Seq(Statements) /\ Len(front) = i
      /\ \A k \in 1..i : front[k] = list[k]
    BY <1>1
<1>5. /\ back \in Seq(Statements) /\ Len(back) = Len(list) - i
      /\ \A k \in 1..(Len(list) - i) : back[k] = list[i + k]
    BY <1>1
<1> DEFINE s == Label(l)
<1> HIDE DEF front, back, s
<1>6. /\ front \o <<s>> \in Seq(Statements) /\ Len(front \o <<s>>) = i + 1
      /\ \A k \in 1..i : (front \o <<s>>)[k] = front[k]
      /\ (front \o <<s>>)[i + 1] = s
    BY <1>1, <1>3, <1>4 DEF s
<1> DEFINE most == front \o <<s>>
<1>11. most \in Seq(Statements) /\ Len(most) = i + 1
    BY <1>6 DEF most
<1> HIDE DEF most
<1>12. Len(list) \in Nat /\ i \in Nat /\ i < Len(list)
    BY <1>1
<1>7. /\ most \o back \in Seq(Statements) /\ Len(most \o back) = Len(list) + 1
      /\ \A k \in 1..(i + 1) : (most \o back)[k] = most[k]
      /\ \A k \in 1..(Len(list) - i) : (most \o back)[i + 1 + k] = back[k]
    <2>1. /\ most \o back \in Seq(Statements) /\ Len(most \o back) = Len(most) + Len(back)
          /\ \A k \in 1..(Len(most) + Len(back)) :
                 (most \o back)[k] = IF k <= Len(most) THEN most[k] ELSE back[k - Len(most)]
        BY ONLY <1>5, <1>11, ConcatProperties
    <2>2. Len(back) \in Nat /\ Len(most) \in Nat /\ Len(most) + Len(back) = Len(list) + 1
        BY <1>5, <1>11, <1>12
    <2>3. \A k \in 1..(i + 1) : (most \o back)[k] = most[k]
        BY <1>11, <2>1, <2>2
    <2>4. ASSUME NEW k \in 1..(Len(list) - i)
          PROVE  (most \o back)[i + 1 + k] = back[k]
        <3> DEFINE h == i + 1 + k
        <3>1. h \in 1..(Len(most) + Len(back)) /\ ~(h <= Len(most)) /\ h - Len(most) = k
            BY <1>11, <1>12, <2>2
        <3> HIDE DEF h
        <3>2. (most \o back)[h] = back[h - Len(most)]
            BY <2>1, <3>1
        <3> QED BY <3>1, <3>2 DEF h
    <2> QED BY <2>1, <2>2, <2>3, <2>4
<1>8. ASSUME NEW k \in (i + 1)..Len(list)
      PROVE  (most \o back)[k + 1] = list[k]
    <2> DEFINE h == k - i
    <2>1. h \in 1..(Len(list) - i) /\ i + 1 + h = k + 1 /\ i + h = k
        BY <1>1
    <2> HIDE DEF h
    <2>2. (most \o back)[i + 1 + h] = back[h] /\ back[h] = list[i + h]
        BY <1>5, <1>7, <2>1
    <2> QED BY <2>1, <2>2
<1>9. most \o back = new
    BY DEF most, s
<1> HIDE DEF new
<1>10. /\ \A k \in 1..i : (most \o back)[k] = list[k]
       /\ (most \o back)[i + 1] = s
    BY <1>1, <1>4, <1>6, <1>7 DEF most
<1> QED
    BY <1>2, <1>7, <1>8, <1>9, <1>10 DEF s

\* A label that is inserted is one more statement, and all others are kept.
LEMMA InsertedDelimited ==
    ASSUME NEW list, Delimited(list), NEW i \in 1..(Len(list) - 1),
           NEW l \in Nat \ {0}, l \notin LabelsOf(list),
           NEW new, new = Inserting(list, i, l)
    PROVE  /\ Delimited(new) /\ Len(new) = Len(list) + 1 /\ new[i + 1] = Label(l)
           /\ \E e : Selected(list, new, Len(new), {i + 1}, e)
<1> DEFINE n == Len(list)
           e == [k \in 1..n |-> IF k <= i THEN k ELSE k + 1]
<1>1. /\ new \in Seq(Statements) /\ Len(new) = n + 1
      /\ \A k \in 1..i : new[k] = list[k]
      /\ new[i + 1] = Label(l)
      /\ \A k \in (i + 1)..n : new[k + 1] = list[k]
    BY Inserted
<1>2. n \in Nat \ {0} /\ i \in 1..(n - 1) /\ \A k \in 1..n : list[k] \in Statements
    BY DelimitedFacts
<1>3. IsLabel(list[1]) /\ IsLabel(list[n])
    BY DEF Delimited
<1> HIDE DEF n
<1>4. /\ \A k \in 1..n : e[k] = IF k <= i THEN k ELSE k + 1
      /\ e \in [1..n -> (1..(n + 1)) \ {i + 1}]
    BY <1>2
<1> HIDE DEF e
<1>5. \A k \in 1..n : list[k] = new[e[k]]
    BY <1>1, <1>2, <1>4
<1>6. ASSUME NEW k \in (1..(n + 1)) \ {i + 1}
      PROVE  \E j \in 1..n : e[j] = k
    <2>1. CASE k <= i
        <3>1. k \in 1..n /\ e[k] = k
            BY <1>2, <1>4, <2>1
        <3> QED BY <3>1
    <2>2. CASE k > i + 1
        <3>1. k - 1 \in 1..n /\ e[k - 1] = k
            BY <1>2, <1>4, <2>2
        <3> QED BY <3>1
    <2> QED BY <1>2, <1>6, <2>1, <2>2
<1>7. Selected(list, new, n + 1, {i + 1}, e)
    <2>1. \A j, k \in 1..n : j < k => e[j] < e[k]
        BY <1>2, <1>4
    <2> QED BY <1>4, <1>5, <1>6, <2>1 DEF Selected, n
<1>8. IsLabel(new[1]) /\ IsLabel(new[n + 1]) /\ new # <<>>
    <2>1. new[1] = list[1] /\ new[n + 1] = list[n]
        <3>1. 1 \in 1..i /\ n \in (i + 1)..n
            BY <1>2
        <3> QED BY <1>1, <3>1
    <2> QED BY <1>1, <1>2, <1>3, <2>1
<1>9. IsLabel(Label(l)) /\ Label(l).id = l
    BY LabelIsStatement
<1>10. \A k \in 1..n : IsLabel(list[k]) => list[k].id # l
    BY LabelsMeans DEF n
<1>11. ASSUME NEW j \in 1..(n + 1), NEW k \in 1..(n + 1), new[j].id = new[k].id,
              IsLabel(new[j]) <=> IsLabel(new[k])
       PROVE  j = k
    <2>1. \A h \in (1..(n + 1)) \ {i + 1} :
              \E g \in 1..n : e[g] = h /\ list[g] = new[h]
        BY <1>5, <1>6
    <2>2. CASE j = i + 1 /\ k # i + 1
        BY <1>1, <1>9, <1>10, <1>11, <2>1, <2>2
    <2>3. CASE k = i + 1 /\ j # i + 1
        BY <1>1, <1>9, <1>10, <1>11, <2>1, <2>3
    <2>4. CASE j # i + 1 /\ k # i + 1
        <3>1. PICK g \in 1..n : e[g] = j /\ list[g] = new[j]
            BY <2>1, <2>4
        <3>2. PICK h \in 1..n : e[h] = k /\ list[h] = new[k]
            BY <2>1, <2>4
        <3>3. g = h
            BY <1>11, <3>1, <3>2 DEF Delimited, n
        <3> QED BY <3>1, <3>2, <3>3
    <2> QED BY <2>2, <2>3, <2>4
<1>12. Delimited(new)
    BY <1>1, <1>8, <1>11 DEF Delimited
<1> QED
    BY <1>1, <1>7, <1>12 DEF n

LEMMA InsertedTargeted ==
    ASSUME NEW list, Delimited(list), Targeted(list), NEW i \in 1..(Len(list) - 1),
           NEW l \in Nat \ {0}, l \notin LabelsOf(list),
           NEW new, new = Inserting(list, i, l)
    PROVE  Targeted(new)
<1>1. Delimited(new) /\ Len(new) = Len(list) + 1 /\ new[i + 1] = Label(l)
    BY InsertedDelimited
<1>2. PICK e : Selected(list, new, Len(new), {i + 1}, e)
    BY InsertedDelimited
<1>3. \A h \in LabelsOf(list) : h \in LabelsOf(new)
    <2>1. ASSUME NEW h \in LabelsOf(list)
          PROVE  h \in LabelsOf(new)
        <3>1. \E k \in (1..Len(new)) \ {i + 1} : IsLabel(new[k]) /\ new[k].id = h
            BY <1>1, <1>2, SelectedLabels
        <3> QED BY <1>1, <3>1, LabelsMeans
    <2> QED BY <2>1
<1>4. ASSUME NEW k \in 1..Len(new)
      PROVE  new[k].target \in LabelsOf(new) \cup {0}
    <2>1. CASE k = i + 1
        BY <1>1, <2>1, LabelIsStatement
    <2>2. CASE k # i + 1
        <3>1. PICK j \in 1..Len(list) : e[j] = k
            BY <1>2, <2>2 DEF Selected
        <3>2. list[j] = new[k]
            BY <1>2, <3>1 DEF Selected
        <3> QED BY <1>3, <3>2 DEF Targeted
    <2> QED BY <2>1, <2>2
<1> QED
    BY <1>4 DEF Targeted

LEMMA AdjacentMeans ==
    ASSUME NEW list, Delimited(list), NEW i \in 1..Len(list)
    PROVE  i \in Adjacent(list) <=> i > 1 /\ IsLabel(list[i]) /\ IsLabel(list[i - 1])
BY DelimitedFacts DEF Adjacent

\* Where the sequence of labels begins that the label at position i is in.
Begins(list, i, j) == j \notin Adjacent(list) /\ \A k \in (j + 1)..i : k \in Adjacent(list)

LEMMA SomeBegins ==
    ASSUME NEW list, Delimited(list), NEW i \in 1..Len(list)
    PROVE  \E j \in 1..i : Begins(list, i, j)
<1> DEFINE T == {i - j : j \in {h \in 1..i : h \notin Adjacent(list)}}
<1>1. i \in Nat /\ 1 \in 1..i /\ 1 \notin Adjacent(list)
    BY DelimitedFacts DEF Adjacent
<1>2. T \in SUBSET Nat /\ T # {}
    BY <1>1
<1>3. PICK d \in T : \A m \in T : d <= m
    <2> HIDE DEF T
    <2> QED BY <1>2, LeastNatural
<1>4. PICK j \in 1..i : j \notin Adjacent(list) /\ d = i - j
    BY <1>3
<1>5. ASSUME NEW k \in (j + 1)..i, k \notin Adjacent(list)
      PROVE  FALSE
    <2>1. k \in 1..i
        BY <1>1, <1>4
    <2>2. i - k \in T
        BY <1>5, <2>1
    <2>3. d <= i - k
        BY <1>3, <2>2
    <2> QED BY <1>1, <1>4, <2>3
<1> QED
    BY <1>4, <1>5 DEF Begins

\* All labels that a jump can be to lead back to a label that stays.
LEMMA FirstOfStays ==
    ASSUME NEW list, Delimited(list), NEW i \in 1..Len(list), IsLabel(list[i])
    PROVE  \E j \in 1..i : /\ Begins(list, i, j) /\ FirstOf(list, i) = list[j].id
                           /\ \A k \in j..i : IsLabel(list[k])
<1> DEFINE j == CHOOSE h \in 1..i : Begins(list, i, h)
<1>1. j \in 1..i /\ Begins(list, i, j)
    BY SomeBegins
<1>2. FirstOf(list, i) = list[j].id
    BY DEF FirstOf, Begins
<1> HIDE DEF j
<1>3. Len(list) \in Nat
    BY DelimitedFacts
<1>4. ASSUME NEW k \in j..i
      PROVE  IsLabel(list[k])
    <2>1. CASE k = i
        BY <2>1
    <2>2. CASE k # i
        <3>1. k + 1 \in (j + 1)..i /\ k + 1 \in 1..Len(list) /\ (k + 1) - 1 = k
            BY <1>1, <1>3, <2>2
        <3>2. k + 1 \in Adjacent(list)
            BY <1>1, <3>1 DEF Begins
        <3> QED BY <3>1, <3>2, AdjacentMeans
    <2> QED BY <2>1, <2>2
<1> QED
    BY <1>1, <1>2, <1>4

\* The list with all targets rewritten to the labels that stay.
Redirected(list) ==
    [i \in DOMAIN list |->
        IF list[i].target = 0 THEN list[i]
        ELSE [list[i] EXCEPT !.target = FirstOf(list, Place(list, @))]]

LEMMA RedirectedStatement ==
    ASSUME NEW list, Delimited(list), Targeted(list), NEW i \in 1..Len(list)
    PROVE  LET s == Redirected(list)[i]
           IN  /\ s \in Statements /\ s.op = list[i].op /\ s.id = list[i].id
               /\ list[i].target = 0 => s.target = 0
               /\ list[i].target # 0 =>
                      /\ s.target = FirstOf(list, Place(list, list[i].target))
                      /\ \E j \in 1..Place(list, list[i].target) :
                             /\ Begins(list, Place(list, list[i].target), j)
                             /\ IsLabel(list[j]) /\ list[j].id = s.target
                             /\ \A k \in j..Place(list, list[i].target) : IsLabel(list[k])
<1> DEFINE s == Redirected(list)[i]
<1>1. list[i] \in Statements /\ DOMAIN list = 1..Len(list)
    BY DelimitedFacts
<1>2. s = IF list[i].target = 0 THEN list[i]
          ELSE [list[i] EXCEPT !.target = FirstOf(list, Place(list, list[i].target))]
    BY <1>1 DEF Redirected
<1> HIDE DEF s
<1>3. CASE list[i].target = 0
    BY <1>1, <1>2, <1>3 DEF s
<1>4. CASE list[i].target # 0
    <2> DEFINE p == Place(list, list[i].target)
    <2>1. p \in 1..Len(list) /\ IsLabel(list[p])
        <3>1. list[i].target \in LabelsOf(list)
            BY <1>4 DEF Targeted
        <3> QED BY <3>1, PlaceIsLabel, LabelIsStatement
    <2>2. PICK j \in 1..p : /\ Begins(list, p, j) /\ FirstOf(list, p) = list[j].id
                            /\ \A k \in j..p : IsLabel(list[k])
        BY <2>1, FirstOfStays
    <2> HIDE DEF p
    <2>3. j \in 1..Len(list) /\ IsLabel(list[j])
        BY <2>1, <2>2, DelimitedFacts
    <2>4. list[j].id \in Nat \ {0}
        BY <2>3, DelimitedFacts, StatementFacts
    <2>5. s = [list[i] EXCEPT !.target = list[j].id]
        BY <1>2, <1>4, <2>2 DEF p
    <2>6. list[i] \in [op : {"jump", "branch"}, id : Nat, target : Nat \ {0}]
        BY <1>1, <1>4 DEF Statements
    <2>7. s \in Statements /\ s.op = list[i].op /\ s.id = list[i].id /\ s.target = list[j].id
        BY <2>4, <2>5, <2>6 DEF Statements
    <2>8. s.target = FirstOf(list, p) /\ IsLabel(list[j]) /\ list[j].id = s.target
          /\ Begins(list, p, j) /\ \A k \in j..p : IsLabel(list[k])
        BY <2>2, <2>3, <2>7
    <2> QED BY <1>4, <2>7, <2>8 DEF p, s
<1> QED
    BY <1>3, <1>4

LEMMA RedirectedList ==
    ASSUME NEW list, Delimited(list), Targeted(list)
    PROVE  /\ Redirected(list) \in Seq(Statements) /\ Len(Redirected(list)) = Len(list)
           /\ Delimited(Redirected(list))
           /\ Adjacent(Redirected(list)) = Adjacent(list)
           /\ Closed(list) => Closed(Redirected(list))
<1> DEFINE new == Redirected(list)
           n == Len(list)
<1>1. n \in Nat \ {0} /\ DOMAIN list = 1..n /\ list \in Seq(Statements)
    BY DelimitedFacts DEF Delimited
<1>2. \A i \in 1..n : new[i] \in Statements /\ new[i].op = list[i].op /\ new[i].id = list[i].id
    BY RedirectedStatement
<1>3. new = [i \in 1..n |-> new[i]]
    BY <1>1 DEF Redirected
<1> HIDE DEF new
<1>4. new \in Seq(Statements) /\ Len(new) = n /\ DOMAIN new = 1..n
    BY <1>1, <1>2, <1>3
<1>5. \A i \in 1..n : IsLabel(new[i]) <=> IsLabel(list[i])
    BY <1>2 DEF IsLabel
<1>6. Delimited(new)
    <2>1. IsLabel(new[1]) /\ IsLabel(new[n])
        BY <1>1, <1>5 DEF Delimited
    <2>2. \A i, j \in 1..n : new[i].id = new[j].id /\ (IsLabel(new[i]) <=> IsLabel(new[j])) => i = j
        BY <1>2, <1>5 DEF Delimited
    <2>3. new # <<>>
        BY <1>1, <1>4
    <2> QED BY <1>4, <2>1, <2>2, <2>3 DEF Delimited
<1>7. Adjacent(new) = Adjacent(list)
    <2>1. \A i \in 1..n : i > 1 => i - 1 \in 1..n
        BY <1>1
    <2> QED BY <1>1, <1>4, <1>5, <2>1 DEF Adjacent
<1>8. ASSUME Closed(list)
      PROVE  Closed(new)
    <2> SUFFICES ASSUME NEW i \in 1..n, IsTransfer(new[i])
                 PROVE  i + 1 \in 1..n /\ IsLabel(new[i + 1])
        BY <1>4 DEF Closed
    <2>1. IsTransfer(list[i])
        <3>1. list[i] \in Statements
            BY DelimitedFacts DEF n
        <3> QED BY <1>2, <3>1, StatementFacts
    <2> QED BY <1>5, <1>8, <2>1 DEF Closed, n
<1> QED
    BY <1>4, <1>6, <1>7, <1>8 DEF new

\* Merging leaves a list without adjacent labels, in which everything that was
\* referred to has a label and every transfer of control is followed by one.
LEMMA MergedList ==
    ASSUME NEW list, Delimited(list), Targeted(list), Closed(list)
    PROVE  /\ Delimited(Merged(list)) /\ Targeted(Merged(list))
           /\ Closed(Merged(list)) /\ Separated(Merged(list))
           /\ \E e : Selected(Merged(list), Redirected(list), Len(list), Adjacent(list), e)
<1> DEFINE old == Redirected(list)
           D == Adjacent(list)
           new == Merged(list)
           n == Len(list)
<1>1. /\ old \in Seq(Statements) /\ Len(old) = n /\ Delimited(old) /\ Closed(old)
      /\ Adjacent(old) = D
    BY RedirectedList
<1>2. new = Without(old, D)
    BY DEF Merged, Redirected
<1>3. new \in Seq(Statements)
    BY <1>1, <1>2, WithoutSelects
<1>4. PICK e : Selected(new, old, n, D, e)
    BY <1>1, <1>2, WithoutSelects
<1>5. n \in Nat \ {0} /\ DOMAIN list = 1..n
    BY DelimitedFacts
<1>6. \A i \in 1..n : i \in D <=> i > 1 /\ IsLabel(old[i]) /\ IsLabel(old[i - 1])
    BY <1>1, AdjacentMeans
<1> HIDE DEF old, D, new, n
<1>7. 1 \notin D /\ Len(new) \in Nat
    BY <1>3, <1>5, <1>6
<1>8. Len(new) \in Nat \ {0} /\ e[1] = 1
    BY <1>4, <1>5, <1>7, SelectedEnds
<1>9. IsLabel(new[Len(new)])
    <2>1. e[Len(new)] \in 1..n /\ \A i \in (e[Len(new)] + 1)..n : i \in D
        BY <1>4, <1>5, <1>8, SelectedLast
    <2>2. new[Len(new)] = old[e[Len(new)]]
        BY <1>4, <1>8 DEF Selected
    <2>3. CASE e[Len(new)] = n
        BY <1>1, <2>2, <2>3 DEF Delimited
    <2>4. CASE e[Len(new)] # n
        <3> DEFINE h == e[Len(new)] + 1
        <3>1. h \in 1..n /\ h \in D /\ h - 1 = e[Len(new)]
            BY <1>5, <2>1, <2>4
        <3> HIDE DEF h
        <3>2. IsLabel(old[h - 1])
            BY <1>6, <3>1
        <3> QED BY <2>2, <3>1, <3>2
    <2> QED BY <2>3, <2>4
<1>10. Delimited(new)
    BY <1>1, <1>3, <1>4, <1>7, <1>9, SelectedDelimited
<1>11. Targeted(new)
    <2> SUFFICES ASSUME NEW k \in 1..Len(new), new[k].target # 0
                 PROVE  new[k].target \in LabelsOf(new)
        BY DEF Targeted
    <2>1. e[k] \in 1..n /\ new[k] = old[e[k]]
        BY <1>4 DEF Selected
    <2>2. list[e[k]].target # 0
        BY <2>1, RedirectedStatement DEF old, n
    <2> DEFINE p == Place(list, list[e[k]].target)
    <2>3. p \in 1..n
        <3>1. list[e[k]].target \in LabelsOf(list)
            BY <2>1, <2>2 DEF Targeted, n
        <3> QED BY <3>1, PlaceIsLabel DEF n
    <2>4. PICK j \in 1..p : Begins(list, p, j) /\ IsLabel(list[j]) /\ list[j].id = new[k].target
        BY <2>1, <2>2, RedirectedStatement DEF old, n
    <2> HIDE DEF p
    <2>5. j \in (1..n) \ D
        BY <1>5, <2>3, <2>4 DEF Begins, D
    <2>6. old[j].op = list[j].op /\ old[j].id = list[j].id
        BY <2>5, RedirectedStatement DEF old, n
    <2>7. IsLabel(old[j]) /\ old[j].id = new[k].target
        BY <2>4, <2>6 DEF IsLabel
    <2> QED BY <1>1, <1>4, <1>10, <2>5, <2>7, SelectedLabels
<1>12. Closed(new)
    <2> SUFFICES ASSUME NEW k \in 1..Len(new), IsTransfer(new[k])
                 PROVE  k + 1 \in 1..Len(new) /\ IsLabel(new[k + 1])
        BY DEF Closed
    <2>1. e[k] \in 1..n /\ new[k] = old[e[k]]
        BY <1>4 DEF Selected
    <2>2. e[k] + 1 \in 1..n /\ IsLabel(old[e[k] + 1])
        BY <1>1, <2>1 DEF Closed
    <2>3. ~IsLabel(old[e[k]])
        <3>1. old[e[k]] \in Statements
            BY <1>1, <2>1, DelimitedFacts
        <3> QED BY <2>1, <3>1, StatementFacts
    <2>4. e[k] + 1 \notin D
        <3>1. (e[k] + 1) - 1 = e[k]
            BY <2>1
        <3> QED BY <1>6, <2>2, <2>3, <3>1
    <2>5. k + 1 \in 1..Len(new) /\ e[k + 1] = e[k] + 1
        BY <1>4, <1>5, <1>8, <2>2, <2>4, SelectedAfter
    <2> QED BY <1>4, <2>2, <2>5 DEF Selected
<1>13. Separated(new)
    <2> SUFFICES ASSUME NEW i \in Adjacent(new)
                 PROVE  FALSE
        BY DEF Separated
    <2>1. i \in 1..Len(new) /\ i > 1 /\ IsLabel(new[i]) /\ IsLabel(new[i - 1])
        BY <1>10, DelimitedFacts DEF Adjacent
    <2> DEFINE k == i - 1
    <2>2. k \in 1..(Len(new) - 1) /\ k + 1 = i /\ k \in 1..Len(new)
        BY <1>8, <2>1
    <2> HIDE DEF k
    <2>3. /\ e[k] \in 1..n /\ e[k + 1] \in (1..n) \ D /\ e[k] < e[k + 1]
          /\ Gone(D, e[k], e[k + 1])
        <3>1. e[k] < e[k + 1] /\ Gone(D, e[k], e[k + 1])
            BY <1>4, <1>5, <1>8, <2>2, SelectedBetween
        <3>2. k + 1 \in 1..Len(new)
            BY <2>1, <2>2
        <3> QED BY <1>4, <2>2, <3>1, <3>2 DEF Selected
    <2>4. IsLabel(old[e[k]]) /\ IsLabel(old[e[k + 1]])
        <3>1. new[k] = old[e[k]] /\ new[i] = old[e[i]]
            BY <1>4, <2>1, <2>2 DEF Selected
        <3> QED BY <2>1, <2>2, <3>1 DEF k
    <2>5. IsLabel(old[e[k + 1] - 1])
        <3>1. CASE e[k + 1] = e[k] + 1
            BY <1>5, <2>3, <2>4, <3>1
        <3>2. CASE e[k + 1] # e[k] + 1
            <4>1. e[k + 1] - 1 \in (e[k] + 1)..(e[k + 1] - 1) /\ e[k + 1] - 1 \in 1..n
                BY <1>5, <2>3, <3>2
            <4>2. e[k + 1] - 1 \in D
                BY <2>3, <4>1 DEF Gone
            <4> QED BY <1>6, <4>1, <4>2
        <3> QED BY <3>1, <3>2
    <2>6. e[k + 1] > 1
        BY <1>5, <2>3
    <2> QED BY <1>6, <2>3, <2>4, <2>5, <2>6
<1> QED
    BY <1>4, <1>10, <1>11, <1>12, <1>13 DEF old, D, new, n

-----------------------------------------------------------------------------
(* What is deleted elsewhere.                                              *)

\* Nothing is deleted up to position p.
Intact(D, p) == \A k \in 1..p : k \notin D

\* Where nothing is deleted, statements keep their positions.
LEMMA SelectedPrefix ==
    ASSUME NEW new, NEW list, NEW n \in Nat, NEW D, NEW e, Len(new) \in Nat,
           Selected(new, list, n, D, e), NEW p \in Nat, p <= n, Intact(D, p)
    PROVE  \A k \in 1..p : k \in 1..Len(new) /\ e[k] = k
<1> DEFINE T == {k \in 0..p : \A j \in 1..k : j \in 1..Len(new) /\ e[j] = j}
<1>0. n \in Nat /\ Len(new) \in Nat /\ Selected(new, list, n, D, e)
    OBVIOUS
<1>1. 0 \in T
    OBVIOUS
<1>2. ASSUME NEW k \in 0..(p - 1), k \in T
      PROVE  k + 1 \in T
    <2>1. \A j \in 1..k : j \in 1..Len(new) /\ e[j] = j
        BY <1>2
    <2> HIDE DEF T
    <2>2. k + 1 \in (1..n) \ D
        BY DEF Intact
    <2>3. k + 1 \in 1..Len(new) /\ e[k + 1] = k + 1
        <3>1. CASE k = 0
            <4>1. n \in Nat \ {0} /\ 1 \notin D
                BY <2>2, <3>1
            <4>2. Len(new) >= 1 /\ e[1] = 1
                BY <1>0, <4>1, SelectedEnds
            <4> QED BY <1>0, <3>1, <4>2
        <3>2. CASE k # 0
            <4>1. k \in 1..Len(new)
                BY <2>1, <3>2
            <4>2. e[k] = k
                BY <2>1, <3>2
            <4>3. e[k] + 1 \in (1..n) \ D
                BY <2>2, <4>2
            <4>4. k + 1 \in 1..Len(new) /\ e[k + 1] = e[k] + 1
                BY ONLY <1>0, <4>1, <4>3, SelectedAfter
            <4> QED BY <4>2, <4>4
        <3> QED BY <3>1, <3>2
    <2>4. \A j \in 1..(k + 1) : j = k + 1 \/ j \in 1..k
        OBVIOUS
    <2> QED BY <2>1, <2>3, <2>4 DEF T
<1> HIDE DEF T
<1>3. 0..p \subseteq T
    <2>1. T \in SUBSET Nat
        BY DEF T
    <2> QED BY <1>1, <1>2, <2>1, InductionTo
<1>4. p \in T
    BY <1>3
<1> QED
    BY <1>4 DEF T

LEMMA WithoutNothing ==
    ASSUME NEW list, Delimited(list)
    PROVE  Without(list, {}) = list
<1> DEFINE new == Without(list, {})
           n == Len(list)
           D == {}
<1>1. n \in Nat \ {0} /\ list \in Seq(Statements)
    BY DelimitedFacts DEF Delimited
<1>2. PICK e : Selected(new, list, n, D, e)
    BY <1>1, WithoutSelects
<1>3. new \in Seq(Statements)
    BY <1>1, WithoutSelects
<1>9. Intact(D, n)
    BY DEF Intact
<1> HIDE DEF new, n, D
<1>4. Len(new) \in Nat
    BY <1>3
<1>5. \A k \in 1..n : k \in 1..Len(new) /\ e[k] = k
    <2>1. n \in Nat /\ n <= n
        BY <1>1
    <2> QED BY ONLY <1>2, <1>4, <1>9, <2>1, SelectedPrefix
<1>6. Len(new) = n
    <2>1. n \in 1..Len(new)
        BY <1>1, <1>5
    <2>2. CASE n < Len(new)
        <3>1. n + 1 \in 1..Len(new)
            BY <1>1, <1>4, <2>2
        <3>2. e[n] < e[n + 1] /\ e[n + 1] \in 1..n
            BY <1>1, <1>2, <2>1, <3>1 DEF Selected
        <3> QED BY <1>1, <1>5, <3>2
    <2> QED BY <1>1, <1>4, <2>1, <2>2
<1>7. \A k \in 1..n : new[k] = list[k]
    BY <1>2, <1>5, <1>6 DEF Selected
<1>8. new = list
    BY <1>1, <1>3, <1>6, <1>7 DEF n
<1> QED
    BY <1>8 DEF new

\* If nothing is deleted right after a label, labels do not become adjacent.
LEMMA WithoutSeparated ==
    ASSUME NEW list, Delimited(list), Separated(list), NEW D, 1 \notin D, Len(list) \notin D,
           \A i \in (1..Len(list)) \ D : IsLabel(list[i]) => i + 1 \notin D
    PROVE  Separated(Without(list, D))
<1> DEFINE new == Without(list, D)
           n == Len(list)
<1>1. Delimited(new)
    BY WithoutDelimited
<1>2. PICK e : Selected(new, list, n, D, e)
    BY WithoutDelimited
<1>3. n \in Nat \ {0} /\ Len(new) \in Nat \ {0}
    BY <1>1, DelimitedFacts
<1> HIDE DEF new, n
<1> SUFFICES ASSUME NEW i \in Adjacent(new)
             PROVE  FALSE
    BY DEF Separated, new
<1>4. i \in 1..Len(new) /\ i > 1 /\ IsLabel(new[i]) /\ IsLabel(new[i - 1])
    BY <1>1, DelimitedFacts DEF Adjacent
<1> DEFINE k == i - 1
<1>5. k \in 1..Len(new) /\ k \in 1..(Len(new) - 1) /\ k + 1 = i
    BY <1>3, <1>4
<1> HIDE DEF k
<1>6. e[k] \in (1..n) \ D /\ e[i] \in (1..n) \ D /\ new[k] = list[e[k]] /\ new[i] = list[e[i]]
    BY <1>2, <1>4, <1>5 DEF Selected
<1>7. e[k] < e[i]
    BY <1>2, <1>3, <1>5, SelectedBetween
<1>8. e[k] + 1 \in (1..n) \ D
    BY <1>3, <1>4, <1>6, <1>7 DEF k, n
<1>9. e[i] = e[k] + 1
    <2>1. k + 1 \in 1..Len(new) /\ e[k + 1] = e[k] + 1
        BY ONLY <1>2, <1>3, <1>5, <1>8, SelectedAfter
    <2> QED BY <1>5, <2>1
<1>10. e[i] > 1 /\ IsLabel(list[e[i]]) /\ IsLabel(list[e[i] - 1])
    BY <1>3, <1>4, <1>6, <1>9 DEF k
<1> QED
    BY <1>6, <1>10, AdjacentMeans DEF Separated, n

\* If only other statements than labels are deleted, all labels stay.
LEMMA WithoutOthers ==
    ASSUME NEW list, Delimited(list), NEW D, \A i \in 1..Len(list) : IsLabel(list[i]) => i \notin D
    PROVE  /\ 1 \notin D /\ Len(list) \notin D
           /\ Delimited(Without(list, D))
           /\ Targeted(list) => Targeted(Without(list, D))
<1>1. 1 \notin D /\ Len(list) \notin D
    BY DelimitedFacts DEF Delimited
<1> QED
    BY <1>1, WithoutDelimited, WithoutTargeted

-----------------------------------------------------------------------------
(* eliminateMultipleJumps                                                  *)

\* Labels are forwarded to labels, and one that is gone is forwarded.
Forwarding(list, fwd) ==
    /\ fwd \in [DOMAIN fwd -> Nat]
    /\ LabelsOf(list) \subseteq DOMAIN fwd
    /\ \A l \in DOMAIN fwd : /\ l # 0 /\ fwd[l] \in DOMAIN fwd \cup {0}
                             /\ fwd[l] = 0 => l \in LabelsOf(list)
    /\ \A i \in 1..Len(list) : list[i].target \in DOMAIN fwd \cup {0}

\* The label at position k is forwarded if a jump to another one follows it.
Noted(list, fwd, k) == Forwards(list, k) => fwd[list[k].id] # 0

LEMMA ForwardsFacts ==
    ASSUME NEW list, Delimited(list), Closed(list), NEW i \in 1..Len(list), Forwards(list, i)
    PROVE  /\ IsLabel(list[i]) /\ i + 1 \in 1..Len(list) /\ i + 2 \in 1..Len(list)
           /\ list[i + 1].op = "jump" /\ IsLabel(list[i + 2])
           /\ list[i + 1].target # 0 /\ list[i + 1].target # list[i].id
<1>1. IsLabel(list[i]) /\ i < Len(list) /\ list[i + 1].op = "jump"
      /\ list[i + 1].target # list[i].id
    BY DEF Forwards
<1>2. i + 1 \in 1..Len(list)
    BY <1>1, DelimitedFacts
<1>3. list[i + 1].target # 0 /\ IsTransfer(list[i + 1])
    <2>1. list[i + 1] \in Statements
        BY <1>2, DelimitedFacts
    <2> QED BY <1>1, <2>1, StatementFacts
<1>4. (i + 1) + 1 \in 1..Len(list) /\ IsLabel(list[(i + 1) + 1])
    BY <1>2, <1>3 DEF Closed
<1>5. (i + 1) + 1 = i + 2
    OBVIOUS
<1> QED
    BY <1>1, <1>2, <1>3, <1>4, <1>5

\* A label that nothing falls into goes with the jump after it.
LEMMA ThreadDeletes ==
    ASSUME NEW list, Delimited(list), Closed(list), Separated(list),
           NEW i \in 1..Len(list), Forwards(list, i), Deletable(list, i),
           NEW new, new = Without(list, {i, i + 1})
    PROVE  /\ Delimited(new) /\ Closed(new) /\ Separated(new)
           /\ i > 1 /\ i - 1 \in 1..Len(list) /\ ~FallsThru(list[i - 1])
           /\ \A k \in 1..(i - 1) : k \in 1..Len(new) /\ new[k] = list[k]
           /\ \E e : /\ Selected(new, list, Len(list), {i, i + 1}, e)
                     /\ \A k \in 1..(i - 1) : e[k] = k
<1> DEFINE D == {i, i + 1}
           n == Len(list)
<1>1. /\ IsLabel(list[i]) /\ i + 1 \in 1..n /\ i + 2 \in 1..n
      /\ list[i + 1].op = "jump" /\ IsLabel(list[i + 2])
    BY ForwardsFacts
<1>2. i > 1 /\ ~FallsThru(list[i - 1]) /\ i - 1 \in 1..n /\ n \in Nat \ {0}
    BY DelimitedFacts DEF Deletable
<1>3. 1 \notin D /\ n \notin D
    BY <1>1, <1>2
<1>4. Delimited(new)
    BY <1>3, WithoutDelimited
<1>5. PICK e : Selected(new, list, n, D, e)
    BY <1>3, WithoutDelimited
<1>6. Closed(new)
    <2>1. ASSUME NEW j \in (1..n) \ D, IsTransfer(list[j])
          PROVE  \E k \in (1..n) \ D : j < k /\ IsLabel(list[k]) /\ Gone(D, j, k)
        <3>1. j + 1 \in 1..n /\ IsLabel(list[j + 1])
            BY <2>1 DEF Closed
        <3>2. CASE j + 1 \notin D
            <4>1. Gone(D, j, j + 1)
                BY DEF Gone
            <4> QED BY <3>1, <3>2, <4>1
        <3>3. CASE j + 1 \in D
            <4>1. j + 1 = i
                BY <2>1, <3>3
            <4>2. Gone(D, j, i + 2)
                BY <4>1 DEF Gone
            <4>3. i + 2 \in (1..n) \ D /\ j < i + 2
                BY <1>1, <4>1
            <4> QED BY <1>1, <4>2, <4>3
        <3> QED BY <3>2, <3>3
    <2> HIDE DEF D
    <2> QED BY <1>3, <2>1, WithoutClosed DEF D
<1>7. Separated(new)
    <2>1. ASSUME NEW j \in (1..n) \ D, IsLabel(list[j])
          PROVE  j + 1 \notin D
        <3>1. list[j] \in Statements
            BY DelimitedFacts
        <3>2. j # i - 1
            BY <1>2, <2>1, <3>1, StatementFacts
        <3> QED BY <1>2, <2>1, <3>2
    <2> HIDE DEF D
    <2> QED BY <1>3, <2>1, WithoutSeparated DEF D
<1>8. Len(new) \in Nat
    BY <1>4, DelimitedFacts
<1>9. \A k \in 1..(i - 1) : k \in 1..Len(new) /\ e[k] = k
    <2>1. Intact(D, i - 1)
        BY <1>2 DEF Intact
    <2>2. i - 1 \in Nat /\ i - 1 <= n /\ n \in Nat
        BY <1>2
    <2> HIDE DEF D
    <2> QED BY ONLY <1>5, <1>8, <2>1, <2>2, SelectedPrefix
<1>10. \A k \in 1..(i - 1) : new[k] = list[k]
    BY <1>5, <1>9 DEF Selected
<1> QED
    BY <1>2, <1>4, <1>5, <1>6, <1>7, <1>9, <1>10

\* One turn of the loop over the labels.
LEMMA ThreadKeepsForwarding ==
    ASSUME NEW list, Delimited(list), Closed(list), Separated(list),
           NEW i \in 1..Len(list), Forwards(list, i),
           NEW fwd, Forwarding(list, fwd),
           \A k \in 1..Len(list) : k < i => Noted(list, fwd, k),
           NEW new, new = IF Deletable(list, i) THEN Without(list, {i, i + 1}) ELSE list
    PROVE  LET f == [fwd EXCEPT ![list[i].id] = list[i + 1].target]
           IN  /\ Forwarding(new, f)
               /\ \A k \in 1..Len(new) :
                      k < i \/ (k = i /\ ~Deletable(list, i)) => Noted(new, f, k)
<1> DEFINE l == list[i].id
           t == list[i + 1].target
           f == [fwd EXCEPT ![l] = t]
<1>1. IsLabel(list[i]) /\ i + 1 \in 1..Len(list) /\ t # 0
    BY ForwardsFacts
<1>2. l \in LabelsOf(list)
    BY <1>1, LabelsMeans
<1>3. l \in DOMAIN fwd /\ t \in DOMAIN fwd /\ t \in Nat
    <2>1. list[i + 1] \in Statements
        BY <1>1, DelimitedFacts
    <2> QED BY <1>1, <1>2, <2>1, StatementFacts DEF Forwarding
<1> HIDE DEF l, t
<1>4. /\ DOMAIN f = DOMAIN fwd /\ f \in [DOMAIN f -> Nat] /\ f[l] = t
      /\ \A h \in DOMAIN f : h # l => f[h] = fwd[h]
    BY <1>3 DEF Forwarding
<1> HIDE DEF f
<1>5. \A k \in 1..Len(list) : k < i \/ k = i => Noted(list, f, k)
    <2> SUFFICES ASSUME NEW k \in 1..Len(list), k < i \/ k = i, Forwards(list, k)
                 PROVE  f[list[k].id] # 0
        BY DEF Noted
    <2>1. list[k].id \in DOMAIN fwd
        <3>1. IsLabel(list[k])
            BY DEF Forwards
        <3> QED BY <3>1, LabelsMeans DEF Forwarding
    <2>2. CASE list[k].id = l
        BY <1>1, <1>4, <2>2
    <2>3. CASE list[k].id # l
        <3>1. k < i
            BY <2>3 DEF l
        <3>2. fwd[list[k].id] # 0
            BY <3>1 DEF Noted
        <3> QED BY <1>4, <2>1, <2>3, <3>2
    <2> QED BY <2>2, <2>3
<1>6. CASE ~Deletable(list, i)
    <2>1. new = list
        BY <1>6
    <2>2. Forwarding(list, f)
        BY <1>1, <1>3, <1>4 DEF Forwarding
    <2> QED BY <1>5, <2>1, <2>2 DEF f, l, t
<1>7. CASE Deletable(list, i)
    <2>1. /\ Delimited(new) /\ i > 1 /\ i - 1 \in 1..Len(list) /\ ~FallsThru(list[i - 1])
          /\ \A k \in 1..(i - 1) : k \in 1..Len(new) /\ new[k] = list[k]
        BY <1>7, ThreadDeletes
    <2>2. PICK e : Selected(new, list, Len(list), {i, i + 1}, e)
        BY <1>7, ThreadDeletes
    <2>3. list[i + 1].op = "jump" /\ list[i + 1] \in Statements
        BY <1>1, ForwardsFacts, DelimitedFacts
    <2>4. ~IsLabel(list[i + 1])
        BY <2>3, StatementFacts
    <2>5. \A h : h \in LabelsOf(list) <=> h \in LabelsOf(new) \/ h = l
        <3>1. \A h : h \in LabelsOf(new) =>
                  \E j \in 1..Len(list) : IsLabel(list[j]) /\ list[j].id = h
            BY <2>1, <2>2, SelectedLabels
        <3>2. ASSUME NEW h \in LabelsOf(list), h # l
              PROVE  h \in LabelsOf(new)
            <4>1. PICK j \in 1..Len(list) : IsLabel(list[j]) /\ list[j].id = h
                BY LabelsMeans
            <4>2. j \notin {i, i + 1}
                BY <2>4, <3>2, <4>1 DEF l
            <4> QED BY <2>1, <2>2, <4>1, <4>2, SelectedLabels
        <3>3. \A h : h \in LabelsOf(new) => h \in LabelsOf(list)
            BY <3>1, LabelsMeans
        <3> QED BY <1>2, <3>2, <3>3
    <2>6. \A k \in 1..Len(new) : new[k].target \in DOMAIN f \cup {0}
        <3>1. \A k \in 1..Len(new) : \E j \in 1..Len(list) : new[k] = list[j]
            BY <2>2 DEF Selected
        <3> QED BY <1>4, <3>1 DEF Forwarding
    <2>7. Forwarding(new, f)
        <3>1. \A h \in DOMAIN f : h # 0 /\ f[h] \in DOMAIN f \cup {0}
            BY <1>3, <1>4 DEF Forwarding
        <3>2. \A h \in DOMAIN f : f[h] = 0 => h \in LabelsOf(new)
            BY <1>1, <1>4, <2>5 DEF Forwarding
        <3>3. LabelsOf(new) \subseteq DOMAIN f
            BY <1>4, <2>5 DEF Forwarding
        <3>4. f \in [DOMAIN f -> Nat]
            BY <1>4
        <3> QED BY <2>6, <3>1, <3>2, <3>3, <3>4 DEF Forwarding
    <2>9. Len(list) \in Nat /\ i \in 1..Len(list) /\ Len(new) \in Nat
        BY <2>1, DelimitedFacts
    <2>8. ASSUME NEW k \in 1..Len(new), k < i
          PROVE  Noted(new, f, k)
        <3>1. k \in 1..(i - 1) /\ new[k] = list[k] /\ k \in 1..Len(list)
            <4>1. k \in 1..(i - 1) /\ k \in 1..Len(list)
                BY <2>8, <2>9
            <4> QED BY <2>1, <4>1
        <3>2. CASE k = i - 1
            <4>1. list[k] \in Statements
                BY <3>1, DelimitedFacts
            <4>2. ~IsLabel(new[k])
                BY <2>1, <3>1, <3>2, <4>1, StatementFacts
            <4> QED BY <4>2 DEF Noted, Forwards
        <3>3. CASE k # i - 1
            <4>1. k + 1 \in 1..(i - 1)
                BY <3>1, <3>3
            <4>2. new[k + 1] = list[k + 1] /\ k < Len(list)
                <5> DEFINE h == k + 1
                <5>1. h \in 1..(i - 1)
                    BY <4>1
                <5> HIDE DEF h
                <5>2. new[h] = list[h]
                    BY <2>1, <5>1
                <5>3. k < Len(list)
                    BY <2>9, <3>1, <4>1
                <5> QED BY <5>2, <5>3 DEF h
            <4>3. Forwards(new, k) => Forwards(list, k)
                BY <3>1, <4>2 DEF Forwards
            <4>4. Noted(list, f, k)
                BY <1>5, <2>8, <3>1
            <4> QED BY <3>1, <4>3, <4>4 DEF Noted
        <3> QED BY <3>2, <3>3
    <2> QED BY <1>7, <2>7, <2>8 DEF f, l, t
<1> QED
    BY <1>6, <1>7

Forwarded(list, i, fwd) == [list EXCEPT ![i].target = fwd[list[i].target]]

\* A target is replaced by the one it is forwarded to.
LEMMA ChaseStep ==
    ASSUME NEW list, Delimited(list), Closed(list), Separated(list),
           NEW fwd, Forwarding(list, fwd), \A k \in 1..Len(list) : Noted(list, fwd, k),
           NEW i \in 1..Len(list), list[i].target # 0, fwd[list[i].target] # 0,
           NEW new, new = Forwarded(list, i, fwd)
    PROVE  /\ Delimited(new) /\ Closed(new) /\ Separated(new) /\ Len(new) = Len(list)
           /\ Forwarding(new, fwd) /\ \A k \in 1..Len(new) : Noted(new, fwd, k)
           /\ \A k \in 1..Len(list) : /\ new[k].op = list[k].op /\ new[k].id = list[k].id
                                      /\ k # i => new[k] = list[k]
           /\ LabelsOf(new) = LabelsOf(list)
           /\ new[i].target = fwd[list[i].target]
<1> DEFINE n == Len(list)
           t == list[i].target
<1>1. n \in Nat \ {0} /\ list \in Seq(Statements) /\ DOMAIN list = 1..n
    BY DelimitedFacts DEF Delimited
<1>2. t \in DOMAIN fwd /\ fwd[t] \in DOMAIN fwd /\ fwd[t] \in Nat \ {0}
    BY DEF Forwarding
<1>3. list[i] \in [op : {"jump", "branch"}, id : Nat, target : Nat \ {0}]
    BY <1>1 DEF Statements
<1> HIDE DEF n, t
<1>4. [list[i] EXCEPT !.target = fwd[t]] \in Statements
    BY <1>2, <1>3 DEF Statements
<1>5. new = [list EXCEPT ![i] = [list[i] EXCEPT !.target = fwd[t]]]
    BY DEF t, Forwarded
<1>6. new \in Seq(Statements) /\ Len(new) = n /\ DOMAIN new = 1..n
    BY <1>1, <1>4, <1>5 DEF n
<1>7. /\ \A k \in 1..n : k # i => new[k] = list[k]
      /\ new[i] = [list[i] EXCEPT !.target = fwd[t]]
    BY <1>1, <1>5 DEF n
<1>8. new[i].op = list[i].op /\ new[i].id = list[i].id /\ new[i].target = fwd[t]
    BY <1>3, <1>7
<1>9. \A k \in 1..n : new[k].op = list[k].op /\ new[k].id = list[k].id
    BY <1>7, <1>8
<1>10. \A k \in 1..n : IsLabel(new[k]) <=> IsLabel(list[k])
    BY <1>9 DEF IsLabel
<1>11. Delimited(new)
    <2>1. IsLabel(new[1]) /\ IsLabel(new[n]) /\ new # <<>>
        BY <1>1, <1>6, <1>10 DEF Delimited, n
    <2>2. \A j, k \in 1..n : new[j].id = new[k].id /\ (IsLabel(new[j]) <=> IsLabel(new[k])) => j = k
        BY <1>9, <1>10 DEF Delimited, n
    <2> QED BY <1>6, <2>1, <2>2 DEF Delimited
<1>12. Closed(new)
    <2> SUFFICES ASSUME NEW k \in 1..n, IsTransfer(new[k])
                 PROVE  k + 1 \in 1..n /\ IsLabel(new[k + 1])
        BY <1>6 DEF Closed
    <2>1. IsTransfer(list[k])
        <3>1. list[k] \in Statements /\ new[k] \in Statements
            BY <1>1, <1>6
        <3> QED BY <1>9, <3>1, StatementFacts
    <2> QED BY <1>10, <2>1 DEF Closed, n
<1>13. Separated(new)
    <2>1. \A k \in 1..n : k > 1 => k - 1 \in 1..n
        BY <1>1
    <2>2. Adjacent(new) = Adjacent(list)
        BY <1>1, <1>6, <1>10, <2>1 DEF Adjacent
    <2> QED BY <2>2 DEF Separated
<1>14. LabelsOf(new) = LabelsOf(list)
    <2>1. \A l : l \in LabelsOf(new) <=> \E k \in 1..n : IsLabel(new[k]) /\ new[k].id = l
        BY <1>6, <1>11, LabelsMeans
    <2>2. \A l : l \in LabelsOf(list) <=> \E k \in 1..n : IsLabel(list[k]) /\ list[k].id = l
        BY LabelsMeans DEF n
    <2>3. ASSUME NEW l \in LabelsOf(new)
          PROVE  l \in LabelsOf(list)
        <3>1. PICK k \in 1..n : IsLabel(new[k]) /\ new[k].id = l
            BY <2>1
        <3> QED BY <1>9, <1>10, <2>2, <3>1
    <2>4. ASSUME NEW l \in LabelsOf(list)
          PROVE  l \in LabelsOf(new)
        <3>1. PICK k \in 1..n : IsLabel(list[k]) /\ list[k].id = l
            BY <2>2
        <3> QED BY <1>9, <1>10, <2>1, <3>1
    <2> QED BY <2>3, <2>4
<1>15. Forwarding(new, fwd)
    <2>1. \A k \in 1..n : new[k].target \in DOMAIN fwd \cup {0}
        BY <1>2, <1>7, <1>8 DEF Forwarding, n
    <2> QED BY <1>6, <1>14, <2>1 DEF Forwarding
<1>16. ASSUME NEW k \in 1..n
       PROVE  Noted(new, fwd, k)
    <2> SUFFICES ASSUME Forwards(new, k)
                 PROVE  fwd[new[k].id] # 0
        BY DEF Noted
    <2> DEFINE h == k + 1
    <2>1. /\ IsLabel(list[k]) /\ k < n /\ h \in 1..n /\ list[h].op = "jump"
          /\ new[h].target # list[k].id /\ new[k].id = list[k].id
        <3>1. k < n /\ h \in 1..n
            BY <1>1, <1>6 DEF Forwards
        <3> HIDE DEF h
        <3>2. IsLabel(new[k]) /\ new[h].op = "jump" /\ new[h].target # new[k].id
            BY DEF Forwards, h
        <3> QED BY <1>9, <1>10, <3>1, <3>2
    <2> HIDE DEF h
    <2>2. CASE list[h].target # list[k].id
        <3>1. Forwards(list, k)
            BY <2>1, <2>2 DEF Forwards, h, n
        <3> QED BY <2>1, <3>1 DEF Noted, n
    <2>3. CASE list[h].target = list[k].id
        <3>1. h = i
            BY <1>7, <2>1, <2>3
        <3> QED BY <2>1, <2>3, <3>1
    <2> QED BY <2>2, <2>3
<1> QED
    BY <1>6, <1>7, <1>8, <1>9, <1>11, <1>12, <1>13, <1>14, <1>15, <1>16 DEF n, t

\* When no target is forwarded any more all of them are there, and no jump
\* leads to a jump to somewhere else.
LEMMA ChaseEnds ==
    ASSUME NEW list, Delimited(list), NEW fwd, Forwarding(list, fwd),
           \A k \in 1..Len(list) : Noted(list, fwd, k),
           \A k \in 1..Len(list) : list[k].target # 0 => fwd[list[k].target] = 0
    PROVE  Targeted(list) /\ Threaded(list)
<1>1. Targeted(list)
    BY DEF Targeted, Forwarding
<1>2. ASSUME NEW i \in 1..(Len(list) - 1), NEW j \in 1..(Len(list) - 1),
             list[i].target # 0, list[j] = Label(list[i].target), list[j + 1].op = "jump",
             list[j + 1].target # list[j].id
      PROVE  FALSE
    <2>1. i \in 1..Len(list) /\ j \in 1..Len(list) /\ j < Len(list)
        BY DelimitedFacts
    <2>2. IsLabel(list[j]) /\ list[j].id = list[i].target
        BY <1>2 DEF Label, IsLabel
    <2>3. Forwards(list, j)
        BY <1>2, <2>1, <2>2 DEF Forwards
    <2> QED BY <1>2, <2>1, <2>2, <2>3 DEF Noted
<1> QED
    BY <1>1, <1>2 DEF Threaded

\* The jumps and branches to the very next statement.
ToNext(list) ==
    {i \in 1..(Len(list) - 1) : list[i].target # 0 /\ list[i + 1] = Label(list[i].target)}

LEMMA ToNextFacts ==
    ASSUME NEW list, Delimited(list), NEW i \in ToNext(list)
    PROVE  /\ i \in 1..Len(list) /\ i + 1 \in 1..Len(list) /\ IsLabel(list[i + 1])
           /\ list[i + 1].id = list[i].target /\ list[i].op \in {"jump", "branch"}
           /\ ~IsLabel(list[i]) /\ i + 1 \notin ToNext(list)
<1>1. i \in 1..(Len(list) - 1) /\ list[i].target # 0 /\ list[i + 1] = Label(list[i].target)
    BY DEF ToNext
<1>2. i \in 1..Len(list) /\ i + 1 \in 1..Len(list)
    BY <1>1, DelimitedFacts
<1>3. list[i] \in Statements /\ list[i + 1] \in Statements
    BY <1>2, DelimitedFacts
<1>4. IsLabel(list[i + 1]) /\ list[i + 1].id = list[i].target /\ list[i + 1].target = 0
    BY <1>1 DEF Label, IsLabel
<1> QED
    BY <1>1, <1>2, <1>3, <1>4, StatementFacts DEF ToNext

\* Dropping them adds no jumps to jumps.
LEMMA DropList ==
    ASSUME NEW list, Delimited(list), Targeted(list), Closed(list), Threaded(list),
           NEW new, new = Without(list, ToNext(list))
    PROVE  Delimited(new) /\ Targeted(new) /\ Closed(new) /\ Threaded(new)
<1> DEFINE D == ToNext(list)
           n == Len(list)
<1>1. \A i \in 1..n : IsLabel(list[i]) => i \notin D
    BY ToNextFacts
<1>2. n \in Nat \ {0} /\ 1 \notin D /\ n \notin D
    BY <1>1, DelimitedFacts, WithoutOthers
<1>3. Delimited(new) /\ Targeted(new)
    BY <1>1, WithoutOthers
<1>4. PICK e : Selected(new, list, n, D, e)
    BY <1>2, WithoutDelimited
<1>5. Closed(new)
    <2>1. ASSUME NEW j \in (1..n) \ D, IsTransfer(list[j])
          PROVE  \E k \in (1..n) \ D : j < k /\ IsLabel(list[k]) /\ Gone(D, j, k)
        <3>1. j + 1 \in 1..n /\ IsLabel(list[j + 1]) /\ j + 1 \notin D
            BY <1>1, <2>1 DEF Closed
        <3>2. Gone(D, j, j + 1) /\ j < j + 1
            BY DEF Gone
        <3> QED BY <3>1, <3>2
    <2> HIDE DEF D
    <2> QED BY <1>2, <2>1, WithoutClosed DEF D
<1>6. Threaded(new)
    <2> SUFFICES ASSUME NEW i \in 1..(Len(new) - 1), NEW j \in 1..(Len(new) - 1),
                        new[i].target # 0, new[j] = Label(new[i].target), new[j + 1].op = "jump"
                 PROVE  new[j + 1].target = new[j].id
        BY DEF Threaded
    <2> HIDE DEF D
    <2>1. Len(new) \in Nat
        BY <1>3, DelimitedFacts
    <2>2. i \in 1..Len(new) /\ j \in 1..Len(new) /\ j + 1 \in 1..Len(new)
        BY <2>1
    <2>3. /\ e[i] \in (1..n) \ D /\ new[i] = list[e[i]]
          /\ e[j] \in (1..n) \ D /\ new[j] = list[e[j]]
        BY <1>4, <2>2 DEF Selected
    <2>4. e[j + 1] \in (1..n) \ D /\ new[j + 1] = list[e[j + 1]]
        BY <1>4, <2>2 DEF Selected
    <2>5. e[j] < e[j + 1]
        BY <1>2, <1>4, <2>1, SelectedBetween
    <2>6. e[j] \in 1..(n - 1) /\ e[j] + 1 \in 1..n
        BY <1>2, <2>3, <2>4, <2>5
    <2>7. e[i] \in 1..(n - 1)
        <3>1. list[n] \in Statements /\ IsLabel(list[n])
            BY DelimitedFacts DEF Delimited
        <3>2. e[i] # n
            BY <2>3, <3>1, StatementFacts
        <3> QED BY <1>2, <2>3, <3>2
    <2>8. CASE e[j] + 1 \notin D
        <3>1. j + 1 \in 1..Len(new) /\ e[j + 1] = e[j] + 1
            <4> DEFINE g == e[j] + 1
            <4>1. g \in (1..n) \ D
                BY <2>6, <2>8
            <4>2. j \in 1..Len(new) /\ n \in Nat
                BY <1>2, <2>2
            <4>3. e[j] < g
                BY <2>3
            <4>4. Gone(D, e[j], g)
                BY <2>3 DEF Gone
            <4> HIDE DEF g
            <4>5. j + 1 \in 1..Len(new) /\ e[j + 1] = g
                BY ONLY <1>4, <2>1, <4>1, <4>2, <4>3, <4>4, SelectedNextKept
            <4> QED BY <4>5 DEF g
        <3> QED BY <2>3, <2>4, <2>6, <2>7, <3>1 DEF Threaded
    <2>9. CASE e[j] + 1 \in D
        <3> DEFINE h == e[j] + 1
        <3>1. h \in D /\ h \in 1..n
            BY <2>6, <2>9
        <3> HIDE DEF h
        <3>2. h + 1 \in 1..n /\ IsLabel(list[h + 1]) /\ h + 1 \notin D
            BY <3>1, ToNextFacts DEF D
        <3>3. e[j] < h + 1 /\ h + 1 \in (1..n) \ D
            BY <2>3, <3>2 DEF h
        <3>6. Gone(D, e[j], h + 1)
            BY <2>3, <3>1 DEF Gone, h
        <3>4. e[j + 1] = h + 1
            <4>1. j \in 1..Len(new) /\ n \in Nat
                BY <1>2, <2>2
            <4> DEFINE g == h + 1
            <4>2. e[j] < g
                BY <3>3
            <4>3. g \in (1..n) \ D
                BY <3>3
            <4>4. Gone(D, e[j], g)
                BY <3>6
            <4> HIDE DEF g
            <4>5. e[j + 1] = g
                BY ONLY <1>4, <2>1, <4>1, <4>2, <4>3, <4>4, SelectedNextKept
            <4> QED BY <4>5 DEF g
        <3>5. IsLabel(new[j + 1])
            BY <2>4, <3>2, <3>4
        <3> QED BY <3>5 DEF IsLabel
    <2> QED BY <2>8, <2>9
<1> QED
    BY <1>3, <1>5, <1>6

-----------------------------------------------------------------------------
(* removeUnneededLabels                                                    *)

Unneeded(list) ==
    {i \in 2..(Len(list) - 1) : IsLabel(list[i]) /\ list[i].id \notin Needed(list)}

\* The labels that go are neither targets nor after a transfer of control.
LEMMA UnneededFacts ==
    ASSUME NEW list, Delimited(list), Closed(list)
    PROVE  /\ 1 \notin Unneeded(list) /\ Len(list) \notin Unneeded(list)
           /\ \A i \in Unneeded(list), j \in 1..Len(list) : list[j].target # list[i].id
           /\ \A i \in 1..Len(list) : IsTransfer(list[i]) =>
                  i + 1 \in (1..Len(list)) \ Unneeded(list) /\ IsLabel(list[i + 1])
<1> DEFINE n == Len(list)
<1>1. n \in Nat \ {0} /\ \A i \in 1..n : list[i] \in Statements
    BY DelimitedFacts
<1>2. IsLabel(list[1]) /\ IsLabel(list[n])
    BY DEF Delimited
<1> HIDE DEF n
<1>3. ASSUME NEW i \in 1..n, ~IsLabel(list[i])
      PROVE  i \in 2..(n - 1)
    BY <1>1, <1>2, <1>3
<1>4. ASSUME NEW i \in Unneeded(list), NEW j \in 1..n
      PROVE  list[j].target # list[i].id
    <2>1. i \in 1..n /\ IsLabel(list[i]) /\ list[i].id \notin Needed(list)
        BY <1>1 DEF Unneeded, n
    <2>2. list[i].id # 0
        BY <1>1, <2>1, StatementFacts
    <2>3. CASE list[j].target = 0
        BY <2>2, <2>3
    <2>4. CASE list[j].target # 0
        <3>1. ~IsLabel(list[j])
            BY <1>1, <2>4, StatementFacts
        <3>2. list[j].target \in Needed(list)
            BY <1>3, <3>1 DEF Needed, n
        <3> QED BY <2>1, <3>2
    <2> QED BY <2>3, <2>4
<1>5. ASSUME NEW i \in 1..n, IsTransfer(list[i])
      PROVE  i + 1 \in (1..n) \ Unneeded(list) /\ IsLabel(list[i + 1])
    <2>1. i + 1 \in 1..n /\ IsLabel(list[i + 1])
        BY <1>5 DEF Closed, n
    <2> DEFINE j == i + 1
    <2>2. j \in 1..n /\ j - 1 = i
        BY <2>1
    <2> HIDE DEF j
    <2>3. ASSUME j \in 2..(n - 1)
          PROVE  list[j].id \in Needed(list)
        <3>1. IsTransfer(list[j - 1])
            BY <1>5, <2>2
        <3> QED BY <2>3, <3>1 DEF Needed, n
    <2>4. j \notin Unneeded(list)
        BY <2>3 DEF Unneeded, n
    <2> QED BY <2>1, <2>4 DEF j
<1>6. 1 \notin Unneeded(list) /\ n \notin Unneeded(list)
    BY <1>1 DEF Unneeded, n
<1> QED
    BY <1>4, <1>5, <1>6 DEF n

LEMMA LabelsList ==
    ASSUME NEW list, Delimited(list), Targeted(list), Closed(list),
           NEW new, new = Without(list, Unneeded(list))
    PROVE  Delimited(new) /\ Targeted(new) /\ Closed(new)
<1> DEFINE D == Unneeded(list)
<1>1. /\ 1 \notin D /\ Len(list) \notin D
      /\ \A i \in D, j \in 1..Len(list) : list[j].target # list[i].id
      /\ \A i \in 1..Len(list) : IsTransfer(list[i]) =>
             i + 1 \in (1..Len(list)) \ D /\ IsLabel(list[i + 1])
    BY UnneededFacts
<1> HIDE DEF D
<1>2. Delimited(Without(list, D))
    BY <1>1, WithoutDelimited
<1>3. Targeted(Without(list, D))
    BY <1>1, WithoutTargeted
<1>4. ASSUME NEW i \in (1..Len(list)) \ D, IsTransfer(list[i])
      PROVE  \E j \in (1..Len(list)) \ D : i < j /\ IsLabel(list[j]) /\ Gone(D, i, j)
    <2>1. i + 1 \in (1..Len(list)) \ D /\ IsLabel(list[i + 1])
        BY <1>1, <1>4
    <2>2. Gone(D, i, i + 1) /\ i < i + 1
        BY DEF Gone
    <2> QED BY <2>1, <2>2
<1>5. Closed(Without(list, D))
    BY <1>1, <1>4, WithoutClosed
<1> QED
    BY <1>2, <1>3, <1>5 DEF D

-----------------------------------------------------------------------------
(* buildBasicBlocks                                                        *)

Edges(list) ==
    UNION {{Leader(list, i - 1)} \X Successors(list, i) : i \in {j \in 2..Len(list) : IsLabel(list[j])}}

\* The label that leads the block of the statement at position i.
LedBy(list, i, j) == IsLabel(list[j]) /\ \A k \in (j + 1)..i : ~IsLabel(list[k])

LEMMA LeaderIsLabel ==
    ASSUME NEW list, Delimited(list), NEW i \in 1..Len(list)
    PROVE  \E j \in 1..i : LedBy(list, i, j) /\ Leader(list, i) = list[j].id
<1> DEFINE T == {i - j : j \in {h \in 1..i : IsLabel(list[h])}}
<1>1. i \in Nat /\ 1 \in 1..i /\ IsLabel(list[1])
    BY DelimitedFacts DEF Delimited
<1>2. T \in SUBSET Nat /\ T # {}
    BY <1>1
<1>3. PICK d \in T : \A m \in T : d <= m
    <2> HIDE DEF T
    <2> QED BY <1>2, LeastNatural
<1>4. PICK j \in 1..i : IsLabel(list[j]) /\ d = i - j
    BY <1>3
<1>5. ASSUME NEW k \in (j + 1)..i, IsLabel(list[k])
      PROVE  FALSE
    <2>1. k \in 1..i /\ i - k < d
        BY <1>1, <1>4
    <2>2. i - k \in T
        BY <1>5, <2>1
    <2>3. d <= i - k
        BY <1>3, <2>2
    <2> QED BY <1>1, <1>4, <2>1, <2>3
<1>6. \E h \in 1..i : LedBy(list, i, h)
    BY <1>4, <1>5 DEF LedBy
<1> DEFINE h == CHOOSE h \in 1..i : LedBy(list, i, h)
<1>7. h \in 1..i /\ LedBy(list, i, h)
    BY <1>6
<1>8. Leader(list, i) = list[h].id
    BY DEF Leader, LedBy
<1> QED
    BY <1>7, <1>8

\* Successors are leaders.
LEMMA EdgesInside ==
    ASSUME NEW list, Delimited(list), Targeted(list), NEW d \in Edges(list)
    PROVE  d[1] \in LabelsOf(list) /\ d[2] \in LabelsOf(list)
<1> DEFINE n == Len(list)
<1>1. PICK i \in 2..n : IsLabel(list[i]) /\ d \in {Leader(list, i - 1)} \X Successors(list, i)
    BY DEF Edges
<1>2. n \in Nat \ {0}
    BY DelimitedFacts
<1>3. i - 1 \in 1..n /\ i \in 1..n
    BY <1>2
<1>4. d[1] \in LabelsOf(list)
    <2>1. d[1] = Leader(list, i - 1)
        BY <1>1
    <2>2. PICK j \in 1..(i - 1) : LedBy(list, i - 1, j) /\ Leader(list, i - 1) = list[j].id
        BY <1>3, LeaderIsLabel
    <2>3. j \in 1..n /\ IsLabel(list[j])
        BY <1>2, <2>2 DEF LedBy
    <2> QED BY <2>1, <2>2, <2>3, LabelsMeans
<1>5. d[2] \in LabelsOf(list)
    <2>1. d[2] \in Successors(list, i)
        BY <1>1
    <2>2. list[i].id \in LabelsOf(list) /\ list[n].id \in LabelsOf(list)
        <3>1. IsLabel(list[n]) /\ n \in 1..n
            BY <1>2 DEF Delimited
        <3> QED BY <1>1, <1>3, <3>1, LabelsMeans
    <2>3. list[i - 1].target # 0 => list[i - 1].target \in LabelsOf(list)
        BY <1>3 DEF Targeted
    <2>4. Last(list) = list[n]
        BY DEF Last
    <2> QED BY <2>1, <2>2, <2>3, <2>4 DEF Successors
<1> QED
    BY <1>4, <1>5

-----------------------------------------------------------------------------
(* What the optimizer does.                                                *)

Taking(list, taken) ==
    [i \in DOMAIN list |-> IF i \in taken THEN [list[i] EXCEPT !.op = "jump"] ELSE list[i]]

\* Branches that are made jumps are still statements with the same targets.
LEMMA TakingList ==
    ASSUME NEW list, Delimited(list), NEW taken,
           \A i \in 1..Len(list) : i \in taken => list[i].op = "branch"
    PROVE  /\ Delimited(Taking(list, taken)) /\ Len(Taking(list, taken)) = Len(list)
           /\ \A i \in 1..Len(list) :
                  LET s == Taking(list, taken)[i]
                  IN  /\ s.id = list[i].id /\ s.target = list[i].target
                      /\ s.op = IF i \in taken THEN "jump" ELSE list[i].op
           /\ LabelsOf(Taking(list, taken)) = LabelsOf(list)
<1> DEFINE new == Taking(list, taken)
           n == Len(list)
<1>1. n \in Nat \ {0} /\ DOMAIN list = 1..n /\ \A i \in 1..n : list[i] \in Statements
    BY DelimitedFacts
<1>2. new = [i \in 1..n |-> IF i \in taken THEN [list[i] EXCEPT !.op = "jump"] ELSE list[i]]
    BY <1>1 DEF Taking
<1> HIDE DEF new, n
<1>3. ASSUME NEW i \in 1..n
      PROVE  /\ new[i] \in Statements /\ new[i].id = list[i].id /\ new[i].target = list[i].target
             /\ new[i].op = IF i \in taken THEN "jump" ELSE list[i].op
    <2>1. CASE i \in taken
        <3>1. list[i] \in [op : {"jump", "branch"}, id : Nat, target : Nat \ {0}]
            BY <1>1, <2>1 DEF Statements, n
        <3>2. new[i] = [list[i] EXCEPT !.op = "jump"]
            BY <1>2, <2>1
        <3> QED BY <2>1, <3>1, <3>2 DEF Statements
    <2>2. CASE i \notin taken
        BY <1>1, <1>2, <2>2
    <2> QED BY <2>1, <2>2
<1>4. new \in Seq(Statements) /\ Len(new) = n
    BY <1>1, <1>2, <1>3
<1>5. \A i \in 1..n : IsLabel(new[i]) <=> IsLabel(list[i])
    BY <1>3 DEF IsLabel, n
<1>6. IsLabel(new[1]) /\ IsLabel(new[n]) /\ new # <<>>
    BY <1>1, <1>4, <1>5 DEF Delimited, n
<1>7. \A i, j \in 1..n : new[i].id = new[j].id /\ (IsLabel(new[i]) <=> IsLabel(new[j])) => i = j
    BY <1>3, <1>5 DEF Delimited, n
<1>8. Delimited(new)
    BY <1>4, <1>6, <1>7 DEF Delimited
<1>9. ASSUME NEW l
      PROVE  l \in LabelsOf(new) <=> l \in LabelsOf(list)
    <2>1. ASSUME l \in LabelsOf(new)
          PROVE  l \in LabelsOf(list)
        <3>1. PICK i \in 1..n : IsLabel(new[i]) /\ new[i].id = l
            BY <1>4, <1>8, <2>1, LabelsMeans
        <3> QED BY <1>3, <1>5, <3>1, LabelsMeans DEF n
    <2>2. ASSUME l \in LabelsOf(list)
          PROVE  l \in LabelsOf(new)
        <3>1. PICK i \in 1..n : IsLabel(list[i]) /\ list[i].id = l
            BY <2>2, LabelsMeans DEF n
        <3> QED BY <1>3, <1>4, <1>5, <1>8, <3>1, LabelsMeans
    <2> QED BY <2>1, <2>2
<1> QED
    BY <1>3, <1>4, <1>8, <1>9 DEF new, n

LEMMA FoldedList ==
    ASSUME NEW list, Delimited(list), Targeted(list), NEW taken, NEW not,
           \A i \in 1..Len(list) : i \in taken \cup not => list[i].op = "branch"
    PROVE  LET new == Without(Taking(list, taken), not) IN Delimited(new) /\ Targeted(new)
<1> DEFINE all == Taking(list, taken)
<1>1. /\ Delimited(all) /\ Len(all) = Len(list) /\ LabelsOf(all) = LabelsOf(list)
      /\ \A i \in 1..Len(list) :
             all[i].target = list[i].target /\ all[i].op = IF i \in taken THEN "jump" ELSE list[i].op
    BY TakingList
<1> HIDE DEF all
<1>2. Targeted(all)
    BY <1>1 DEF Targeted
<1>3. \A i \in 1..Len(all) : IsLabel(all[i]) => i \notin not
    BY <1>1 DEF IsLabel
<1> QED
    BY <1>1, <1>2, <1>3, WithoutOthers DEF all

-----------------------------------------------------------------------------
(* The invariant.                                                          *)

\* What is so of the list depends on the pass that is next: what a pass
\* establishes lasts until the next change.
FlowInv ==
    /\ phase \in {"insert", "merge", "thread", "chase", "drop", "labels", "build", "built"}
    /\ at \in Nat \ {0} /\ changed \in BOOLEAN
    /\ Delimited(stmts)
    /\ phase \notin {"thread", "chase"} => Targeted(stmts)
    /\ phase # "insert" => Closed(stmts)
    /\ phase \in {"thread", "chase", "drop", "build", "built"} => Separated(stmts)
    /\ phase = "labels" /\ ~changed => Separated(stmts)
    /\ phase \in {"drop", "labels", "build", "built"} => Threaded(stmts)
    /\ phase \in {"thread", "chase"} => Forwarding(stmts, forward)
    /\ phase = "thread" => \A k \in 1..Len(stmts) : k < at => Noted(stmts, forward, k)
    /\ phase = "chase" =>
           /\ \A k \in 1..Len(stmts) : Noted(stmts, forward, k)
           /\ \A k \in 1..Len(stmts) :
                  k < at /\ stmts[k].target # 0 => forward[stmts[k].target] = 0
    /\ phase = "built" => edges = Edges(stmts)

LEMMA InitInv ==
    ASSUME Init
    PROVE  FlowInv
<1>1. Len(stmts) \in Nat \ {0} /\ DOMAIN stmts = 1..Len(stmts)
    BY ProgramsAreDelimited DEF Init
<1>2. Delimited(stmts)
    BY <1>1, ProgramsAreDelimited DEF Init, Delimited, Last
<1>3. Targeted(stmts)
    BY <1>1, ProgramsAreDelimited DEF Init, Targeted
<1>4. phase = "insert" /\ at \in Nat \ {0}
    BY DEF Init
<1>5. changed \in BOOLEAN
    BY Zenon DEF Init
<1> QED
    BY <1>2, <1>3, <1>4, <1>5 DEF FlowInv

LEMMA InsertKeepsInv ==
    ASSUME FlowInv, InsertLabels
    PROVE  FlowInv'
<1> DEFINE gaps == {i \in DOMAIN stmts : IsTransfer(stmts[i]) /\ ~IsLabel(stmts[i + 1])}
           first == CHOOSE i \in gaps : \A j \in gaps : i <= j
<1>1. /\ phase = "insert" /\ at' = at /\ changed' = changed
      /\ Delimited(stmts) /\ Targeted(stmts) /\ at \in Nat \ {0} /\ changed \in BOOLEAN
    BY DEF InsertLabels, FlowInv
<1>2. Len(stmts) \in Nat \ {0} /\ DOMAIN stmts = 1..Len(stmts)
    BY <1>1, DelimitedFacts
<1>3. ASSUME NEW i \in 1..Len(stmts), IsTransfer(stmts[i])
      PROVE  i \in 1..(Len(stmts) - 1)
    <2>1. stmts[Len(stmts)] \in Statements /\ IsLabel(stmts[Len(stmts)])
        BY <1>1, DelimitedFacts DEF Delimited
    <2>2. i # Len(stmts)
        BY <1>3, <2>1, StatementFacts
    <2> DEFINE n == Len(stmts)
    <2>3. n \in Nat /\ i \in 1..n /\ i # n
        BY <1>2, <2>2
    <2> HIDE DEF n
    <2>4. i \in 1..(n - 1)
        BY ONLY <2>3
    <2> QED BY <2>4 DEF n
<1>4. CASE gaps = {}
    <2>1. phase' = "merge" /\ stmts' = stmts
        BY <1>4 DEF InsertLabels
    <2>2. ASSUME NEW i \in 1..Len(stmts), IsTransfer(stmts[i])
          PROVE  i + 1 \in 1..Len(stmts) /\ IsLabel(stmts[i + 1])
        <3>1. i + 1 \in 1..Len(stmts)
            BY <1>2, <1>3, <2>2
        <3> QED BY <1>2, <1>4, <2>2, <3>1
    <2>3. Closed(stmts)
        BY <2>2 DEF Closed
    <2> QED BY <1>1, <2>1, <2>3 DEF FlowInv
<1>5. CASE gaps # {}
    <2>1. /\ stmts' = InsertAt(stmts, first + 1, Label(NewLabel(stmts)))
          /\ phase' = "insert"
        BY <1>1, <1>5 DEF InsertLabels
    <2>2. first \in gaps
        <3>1. gaps \in SUBSET Nat
            BY <1>2
        <3> HIDE DEF gaps
        <3>2. \E i \in gaps : \A j \in gaps : i <= j
            BY <1>5, <3>1, LeastNatural
        <3> QED BY <3>2
    <2>3. first \in 1..(Len(stmts) - 1)
        BY <1>2, <1>3, <2>2
    <2> HIDE DEF first, gaps
    <2>4. NewLabel(stmts) \in Nat \ {0} /\ NewLabel(stmts) \notin LabelsOf(stmts)
        BY <1>1, NewLabelIsNew
    <2> DEFINE l == NewLabel(stmts)
    <2>6. l \in Nat \ {0} /\ l \notin LabelsOf(stmts)
        BY <2>4
    <2>7. stmts' = Inserting(stmts, first, l)
        BY <2>1 DEF Inserting
    <2>8. Delimited(stmts) /\ Targeted(stmts)
        BY <1>1
    <2> HIDE DEF l
    <2>9. Delimited(stmts)
        BY <2>8
    <2>10. l \in Nat \ {0}
        BY <2>6
    <2>11. l \notin LabelsOf(stmts)
        BY <2>6
    <2> DEFINE new == stmts'
    <2>12. new = Inserting(stmts, first, l)
        BY <2>7
    <2> HIDE DEF new
    <2>13. Delimited(new)
        BY ONLY <2>3, <2>12, <2>9, <2>10, <2>11, InsertedDelimited
    <2>15. Targeted(stmts)
        BY <2>8
    <2>14. Targeted(new)
        BY ONLY <2>3, <2>12, <2>9, <2>10, <2>11, <2>15, InsertedTargeted
    <2>5. Delimited(stmts') /\ Targeted(stmts')
        BY <2>8, <2>13, <2>14 DEF new
    <2> QED BY <1>1, <2>1, <2>5 DEF FlowInv
<1> QED
    BY <1>4, <1>5

LEMMA MergeKeepsInv ==
    ASSUME FlowInv, MergeLabels
    PROVE  FlowInv'
<1>1. /\ phase = "merge" /\ phase' = "thread" /\ at' = 1 /\ changed' = changed
      /\ stmts' = Merged(stmts) /\ forward' = [l \in LabelsOf(stmts') |-> 0]
      /\ Delimited(stmts) /\ Targeted(stmts) /\ Closed(stmts) /\ changed \in BOOLEAN
    BY DEF MergeLabels, FlowInv
<1>2. Delimited(stmts') /\ Targeted(stmts') /\ Closed(stmts') /\ Separated(stmts')
    BY <1>1, MergedList
<1>3. Forwarding(stmts', forward')
    <2>1. \A l \in LabelsOf(stmts') : l # 0
        BY <1>2, PlaceIsLabel
    <2> QED BY <1>1, <1>2, <2>1 DEF Forwarding, Targeted
<1>4. \A k \in 1..Len(stmts') : ~(k < at')
    BY <1>1
<1> QED
    BY <1>1, <1>2, <1>3, <1>4 DEF FlowInv

LEMMA ThreadKeepsInv ==
    ASSUME FlowInv, ThreadJumps
    PROVE  FlowInv'
<1>1. /\ phase = "thread" /\ changed \in BOOLEAN /\ at \in Nat \ {0}
      /\ Delimited(stmts) /\ Closed(stmts) /\ Separated(stmts) /\ Forwarding(stmts, forward)
      /\ \A k \in 1..Len(stmts) : k < at => Noted(stmts, forward, k)
    BY DEF ThreadJumps, FlowInv
<1>2. Len(stmts) \in Nat
    BY <1>1, DelimitedFacts
<1>3. CASE at > Len(stmts)
    <2>1. phase' = "chase" /\ at' = 1 /\ stmts' = stmts /\ forward' = forward /\ changed' = changed
        BY <1>3 DEF ThreadJumps
    <2>2. \A k \in 1..Len(stmts) : k < at /\ ~(k < 1)
        BY <1>1, <1>2, <1>3
    <2> QED BY <1>1, <2>1, <2>2 DEF FlowInv
<1>4. CASE ~(at > Len(stmts))
    <2>1. at \in 1..Len(stmts)
        BY <1>1, <1>2, <1>4
    <2> DEFINE found == Forwards(stmts, at)
               delete == found /\ Deletable(stmts, at)
    <2>2. /\ phase' = "thread"
          /\ forward' = IF found THEN [forward EXCEPT ![stmts[at].id] = stmts[at + 1].target]
                        ELSE forward
          /\ stmts' = IF delete THEN Without(stmts, {at, at + 1}) ELSE stmts
          /\ changed' = (changed \/ delete)
          /\ at' = IF delete THEN at ELSE at + 1
        BY <1>1, <1>4 DEF ThreadJumps
    <2>3. changed' \in BOOLEAN /\ at' \in Nat \ {0}
        BY <1>1, <2>2
    <2>4. Delimited(stmts') /\ Closed(stmts') /\ Separated(stmts')
        <3>1. CASE delete
            BY <1>1, <2>1, <2>2, <3>1, ThreadDeletes
        <3>2. CASE ~delete
            BY <1>1, <2>2, <3>2
        <3> QED BY <3>1, <3>2
    <2>5. CASE found
        <3>1. stmts' = IF Deletable(stmts, at) THEN Without(stmts, {at, at + 1}) ELSE stmts
            BY <2>2, <2>5
        <3>2. forward' = [forward EXCEPT ![stmts[at].id] = stmts[at + 1].target]
            BY <2>2, <2>5
        <3>3. /\ Forwarding(stmts', forward')
              /\ \A k \in 1..Len(stmts') :
                     k < at \/ (k = at /\ ~Deletable(stmts, at)) => Noted(stmts', forward', k)
            BY <1>1, <2>1, <2>5, <3>1, <3>2, ThreadKeepsForwarding
        <3>4. ASSUME NEW k \in 1..Len(stmts'), k < at'
              PROVE  k < at \/ (k = at /\ ~Deletable(stmts, at))
            BY <1>1, <2>2, <2>5, <3>4
        <3> QED BY <2>2, <2>3, <2>4, <3>3, <3>4 DEF FlowInv
    <2>6. CASE ~found
        <3>1. stmts' = stmts /\ forward' = forward /\ at' = at + 1
            BY <2>2, <2>6
        <3>2. Noted(stmts, forward, at)
            BY <2>6 DEF Noted
        <3>3. \A k \in 1..Len(stmts) : k < at + 1 => k < at \/ k = at
            BY <1>1
        <3> QED BY <1>1, <2>2, <2>3, <3>1, <3>2, <3>3 DEF FlowInv
    <2> QED BY <2>5, <2>6
<1> QED
    BY <1>3, <1>4

LEMMA ChaseKeepsInv ==
    ASSUME FlowInv, Chase
    PROVE  FlowInv'
<1>1. /\ phase = "chase" /\ changed \in BOOLEAN /\ at \in Nat \ {0}
      /\ Delimited(stmts) /\ Closed(stmts) /\ Separated(stmts) /\ Forwarding(stmts, forward)
      /\ \A k \in 1..Len(stmts) : Noted(stmts, forward, k)
      /\ \A k \in 1..Len(stmts) :
             k < at /\ stmts[k].target # 0 => forward[stmts[k].target] = 0
      /\ forward' = forward /\ changed' = changed
    BY DEF Chase, FlowInv
<1>2. Len(stmts) \in Nat
    BY <1>1, DelimitedFacts
<1>3. CASE at > Len(stmts)
    <2>1. phase' = "drop" /\ at' = 1 /\ stmts' = stmts
        BY <1>3 DEF Chase
    <2>2. \A k \in 1..Len(stmts) : k < at
        BY <1>1, <1>2, <1>3
    <2>3. Targeted(stmts) /\ Threaded(stmts)
        BY <1>1, <2>2, ChaseEnds
    <2> QED BY <1>1, <2>1, <2>3 DEF FlowInv
<1>4. CASE ~(at > Len(stmts))
    <2>1. at \in 1..Len(stmts)
        BY <1>1, <1>2, <1>4
    <2>2. CASE stmts[at].target # 0 /\ forward[stmts[at].target] # 0
        <3>1. /\ stmts' = [stmts EXCEPT ![at].target = forward[stmts[at].target]]
              /\ phase' = "chase" /\ at' = at
            BY <1>1, <1>4, <2>2 DEF Chase
        <3> DEFINE new == stmts'
        <3>4. new = Forwarded(stmts, at, forward)
            BY <3>1 DEF Forwarded
        <3> HIDE DEF new
        <3>5. /\ Delimited(stmts) /\ Closed(stmts) /\ Separated(stmts) /\ Forwarding(stmts, forward)
              /\ \A k \in 1..Len(stmts) : Noted(stmts, forward, k)
            BY <1>1
        <3>2. /\ Delimited(new) /\ Closed(new) /\ Separated(new)
              /\ Len(new) = Len(stmts) /\ Forwarding(new, forward)
              /\ \A k \in 1..Len(new) : Noted(new, forward, k)
              /\ \A k \in 1..Len(stmts) : k # at => new[k] = stmts[k]
            BY ONLY <2>1, <2>2, <3>4, <3>5, ChaseStep
        <3>3. \A k \in 1..Len(stmts) : k < at => k # at
            BY <1>1
        <3> QED BY <1>1, <3>1, <3>2, <3>3 DEF FlowInv, new
    <2>3. CASE ~(stmts[at].target # 0 /\ forward[stmts[at].target] # 0)
        <3>1. stmts' = stmts /\ phase' = "chase" /\ at' = at + 1
            BY <1>1, <1>4, <2>3 DEF Chase
        <3>2. \A k \in 1..Len(stmts) : k < at + 1 => k < at \/ k = at
            BY <1>1
        <3>3. at + 1 \in Nat \ {0}
            BY <1>1
        <3> QED BY <1>1, <2>3, <3>1, <3>2, <3>3 DEF FlowInv
    <2> QED BY <2>2, <2>3
<1> QED
    BY <1>3, <1>4

LEMMA DropKeepsInv ==
    ASSUME FlowInv, DropJumpsToNext
    PROVE  FlowInv'
<1>1. /\ phase = "drop" /\ phase' = "labels" /\ at' = at /\ at \in Nat \ {0}
      /\ changed \in BOOLEAN /\ changed' = (changed \/ ToNext(stmts) # {})
      /\ stmts' = Without(stmts, ToNext(stmts))
      /\ Delimited(stmts) /\ Targeted(stmts) /\ Closed(stmts) /\ Separated(stmts) /\ Threaded(stmts)
    BY DEF DropJumpsToNext, FlowInv, ToNext
<1>2. Delimited(stmts') /\ Targeted(stmts') /\ Closed(stmts') /\ Threaded(stmts')
    BY <1>1, DropList
<1>3. ASSUME ~changed'
      PROVE  Separated(stmts')
    <2>1. stmts' = stmts
        BY <1>1, <1>3, WithoutNothing
    <2> QED BY <1>1, <2>1
<1>4. changed' \in BOOLEAN
    BY <1>1
<1> QED
    BY <1>1, <1>2, <1>3, <1>4 DEF FlowInv

LEMMA LabelsKeepsInv ==
    ASSUME FlowInv, RemoveUnneededLabels
    PROVE  FlowInv'
<1>1. /\ phase = "labels" /\ at' = at /\ at \in Nat \ {0} /\ changed' = FALSE
      /\ phase' = (IF changed \/ Unneeded(stmts) # {} THEN "insert" ELSE "build")
      /\ stmts' = Without(stmts, Unneeded(stmts))
      /\ Delimited(stmts) /\ Targeted(stmts) /\ Closed(stmts) /\ Threaded(stmts)
      /\ ~changed => Separated(stmts)
    BY DEF RemoveUnneededLabels, FlowInv, Unneeded
<1>2. Delimited(stmts') /\ Targeted(stmts') /\ Closed(stmts')
    BY <1>1, LabelsList
<1>3. ASSUME phase' # "insert"
      PROVE  stmts' = stmts /\ phase' = "build" /\ Separated(stmts)
    <2>1. ~changed /\ Unneeded(stmts) = {}
        BY <1>1, <1>3
    <2> QED BY <1>1, <2>1, WithoutNothing
<1>4. CASE phase' = "insert"
    BY <1>1, <1>2, <1>4 DEF FlowInv
<1>5. CASE phase' # "insert"
    BY <1>1, <1>2, <1>3, <1>5 DEF FlowInv
<1> QED
    BY <1>4, <1>5

LEMMA BuildKeepsInv ==
    ASSUME FlowInv, BuildBasicBlocks
    PROVE  FlowInv'
<1>1. phase = "build" /\ phase' = "built" /\ edges' = Edges(stmts)
      /\ stmts' = stmts /\ at' = at /\ changed' = changed
    BY DEF BuildBasicBlocks, Edges
<1>2. /\ at \in Nat \ {0} /\ changed \in BOOLEAN /\ Delimited(stmts) /\ Targeted(stmts)
      /\ Closed(stmts) /\ Separated(stmts) /\ Threaded(stmts)
    BY <1>1 DEF FlowInv
<1> QED
    BY <1>1, <1>2 DEF FlowInv

LEMMA RebuildKeepsInv ==
    ASSUME FlowInv, NEW list, Rebuild(list), Delimited(list), Targeted(list)
    PROVE  FlowInv'
BY DEF FlowInv, Rebuild

LEMMA OptimizerKeepsInv ==
    ASSUME FlowInv, Fold \/ DeleteStatements \/ DeleteUnreachable
    PROVE  FlowInv'
<1>1. Delimited(stmts) /\ Targeted(stmts) /\ DOMAIN stmts = 1..Len(stmts)
    <2>1. phase = "built"
        BY DEF Fold, DeleteStatements, DeleteUnreachable
    <2> QED BY <2>1, DelimitedFacts DEF FlowInv
<1>2. CASE Fold
    <2>1. PICK taken \in SUBSET {i \in DOMAIN stmts : stmts[i].op = "branch"},
               not \in SUBSET {i \in DOMAIN stmts : stmts[i].op = "branch"} :
              Rebuild(Without(Taking(stmts, taken), not))
        BY <1>2 DEF Fold, Taking
    <2> DEFINE list == Without(Taking(stmts, taken), not)
    <2>2. Delimited(list) /\ Targeted(list)
        BY <1>1, FoldedList
    <2> HIDE DEF list
    <2>3. Rebuild(list)
        BY <2>1 DEF list
    <2> QED BY <2>2, <2>3, RebuildKeepsInv
<1>3. ASSUME NEW dead, Rebuild(Without(stmts, dead)),
             \A i \in 1..Len(stmts) : IsLabel(stmts[i]) => i \notin dead
      PROVE  FlowInv'
    <2>1. Delimited(Without(stmts, dead)) /\ Targeted(Without(stmts, dead))
        BY <1>1, <1>3, WithoutOthers
    <2> QED BY <1>3, <2>1, RebuildKeepsInv
<1>4. CASE DeleteStatements
    <2>1. PICK dead \in SUBSET {i \in DOMAIN stmts : stmts[i].op = "act"} :
              Rebuild(Without(stmts, dead))
        BY <1>4 DEF DeleteStatements
    <2>2. \A i \in 1..Len(stmts) : IsLabel(stmts[i]) => i \notin dead
        BY <1>1 DEF IsLabel
    <2> QED BY <1>3, <2>1, <2>2
<1>5. CASE DeleteUnreachable
    <2> DEFINE dead == {i \in DOMAIN stmts :
                          ~IsLabel(stmts[i]) /\ Leader(stmts, i) \notin Reached(stmts)}
    <2>1. Rebuild(Without(stmts, dead))
        BY <1>5 DEF DeleteUnreachable
    <2>2. \A i \in 1..Len(stmts) : IsLabel(stmts[i]) => i \notin dead
        OBVIOUS
    <2> HIDE DEF dead
    <2> QED BY <1>3, <2>1, <2>2
<1> QED
    BY <1>2, <1>4, <1>5

LEMMA InvIsInductive ==
    ASSUME FlowInv, [Next]_vars
    PROVE  FlowInv'
<1>1. CASE RebuildFlowgraph
    BY <1>1, InsertKeepsInv, MergeKeepsInv, ThreadKeepsInv, ChaseKeepsInv, DropKeepsInv,
       LabelsKeepsInv, BuildKeepsInv DEF RebuildFlowgraph
<1>2. CASE Fold \/ DeleteStatements \/ DeleteUnreachable
    BY <1>2, OptimizerKeepsInv
<1>3. CASE UNCHANGED vars
    BY <1>3 DEF vars, FlowInv
<1> QED
    BY <1>1, <1>2, <1>3 DEF Next

THEOREM InvHolds == Spec => []FlowInv
<1>1. Init => FlowInv
    BY InitInv
<1>2. FlowInv /\ [Next]_vars => FlowInv'
    BY InvIsInductive
<1> QED
    BY <1>1, <1>2, PTL DEF Spec

\* "Each basic block starts and ends with a label": whatever the translator
\* made and the optimizer deleted, the blocks that are built are delimited, and
\* every target and every successor is the leader of one.
THEOREM BlocksAreDelimited == Spec => []BlocksDelimited
<1>1. ASSUME FlowInv, phase = "built"
      PROVE  /\ IsLabel(stmts[1]) /\ IsLabel(Last(stmts)) /\ Adjacent(stmts) = {}
             /\ \A i \in DOMAIN stmts : IsTransfer(stmts[i]) =>
                    IsLabel(stmts[i + 1]) /\ stmts[i].target \in LabelsOf(stmts) \cup {0}
             /\ \A d \in edges : d[1] \in LabelsOf(stmts) /\ d[2] \in LabelsOf(stmts)
    <2>1. /\ Delimited(stmts) /\ Targeted(stmts) /\ Closed(stmts) /\ Separated(stmts)
          /\ edges = Edges(stmts) /\ DOMAIN stmts = 1..Len(stmts)
        BY <1>1, DelimitedFacts DEF FlowInv
    <2>2. IsLabel(stmts[1]) /\ IsLabel(Last(stmts)) /\ Adjacent(stmts) = {}
        BY <2>1 DEF Delimited, Last, Separated
    <2>3. \A i \in DOMAIN stmts : IsTransfer(stmts[i]) =>
              IsLabel(stmts[i + 1]) /\ stmts[i].target \in LabelsOf(stmts) \cup {0}
        BY <2>1 DEF Closed, Targeted
    <2> QED BY <2>1, <2>2, <2>3, EdgesInside
<1>2. FlowInv => BlocksDelimited
    BY <1>1 DEF BlocksDelimited
<1> QED
    BY <1>2, InvHolds, PTL

\* When nothing changes any more, no jump or branch leads to a jump to
\* somewhere else.
THEOREM JumpsAreThreaded == Spec => []JumpsThreaded
<1>1. FlowInv => JumpsThreaded
    BY DEF FlowInv, Threaded, JumpsThreaded
<1> QED
    BY <1>1, InvHolds, PTL
=============================================================================
