-------------------------- MODULE ReachabilityProofs --------------------------
(***************************************************************************)
(* What walks over a graph reach: no less than everything that edges lead  *)
(* to, if they are as long as the graph has nodes, and no more.            *)
(*                                                                         *)
(* Inductions over the natural numbers are by a least counterexample.      *)
(***************************************************************************)
EXTENDS Reachability, FiniteSetTheorems, WellFoundedInduction, TLAPS

\* A set of natural numbers has a least one.
LEMMA LeastNatural ==
    ASSUME NEW T \in SUBSET Nat, T # {}
    PROVE  \E n \in T : \A m \in T : n <= m
<1> DEFINE R == {ss \in Nat \X Nat : ss[1] < ss[2]}
<1>1. IsWellFoundedOn(R, Nat)
    BY NatLessThanWellFounded DEF OpToRel
<1>2. PICK n \in T : \A m \in T : <<m, n>> \notin R
    <2> HIDE DEF R
    <2> QED BY <1>1, WFMin
<1>3. \A m \in T : ~(m < n)
    BY <1>2
<1> QED
    BY <1>3

\* A set of natural numbers with 0 and the successors of its elements up to n
\* has all of them up to n.
LEMMA InductionTo ==
    ASSUME NEW n \in Nat, NEW T \in SUBSET Nat, 0 \in T,
           \A k \in 0..(n - 1) : k \in T => k + 1 \in T
    PROVE  0..n \subseteq T
<1> SUFFICES ASSUME (0..n) \ T # {}
             PROVE  FALSE
    OBVIOUS
<1> DEFINE M == (0..n) \ T
<1>1. PICK k \in M : \A m \in M : k <= m
    <2>1. M \in SUBSET Nat /\ M # {}
        OBVIOUS
    <2> HIDE DEF M
    <2> QED BY <2>1, LeastNatural
<1>2. k # 0 /\ k - 1 \in 0..(n - 1)
    BY <1>1
<1>3. k - 1 \in T
    BY <1>1, <1>2
<1> QED
    BY <1>1, <1>2, <1>3

-----------------------------------------------------------------------------
(* A walk, step by step.                                                   *)

Onward(next, B) == B \cup UNION {next[c] : c \in B}

IsWalk(f, next, start, n) ==
    f = [k \in 0..n |-> IF k = 0 THEN start ELSE Onward(next, f[k - 1])]

\* There is a walk of every length.
LEMMA WalkExists ==
    ASSUME NEW next, NEW start, NEW n \in Nat
    PROVE  \E f : IsWalk(f, next, start, n)
<1> DEFINE T == {k \in Nat : \E f : IsWalk(f, next, start, k)}
<1>1. 0 \in T
    <2> DEFINE f == [k \in 0..0 |-> start]
    <2>1. IsWalk(f, next, start, 0)
        BY DEF IsWalk
    <2> QED BY <2>1
<1>2. ASSUME NEW k \in 0..(n - 1), k \in T
      PROVE  k + 1 \in T
    <2>1. PICK f : IsWalk(f, next, start, k)
        BY <1>2
    <2> DEFINE g == [j \in 0..(k + 1) |-> IF j = k + 1 THEN Onward(next, f[k]) ELSE f[j]]
    <2>2. \A j \in 0..k : f[j] = IF j = 0 THEN start ELSE Onward(next, f[j - 1])
        BY <2>1 DEF IsWalk
    <2> HIDE DEF g
    <2>3. /\ g = [j \in 0..(k + 1) |-> g[j]]
          /\ g[k + 1] = Onward(next, f[k])
          /\ \A j \in 0..k : g[j] = f[j]
        BY DEF g
    <2>4. ASSUME NEW j \in 0..(k + 1)
          PROVE  g[j] = IF j = 0 THEN start ELSE Onward(next, g[j - 1])
        <3>1. CASE j = k + 1
            BY <2>3, <3>1
        <3>2. CASE j \in 0..k
            <4>1. j # 0 => j - 1 \in 0..k
                BY <3>2
            <4> QED BY <2>2, <2>3, <3>2, <4>1
        <3> QED BY <3>1, <3>2
    <2>5. IsWalk(g, next, start, k + 1)
        BY <2>3, <2>4 DEF IsWalk
    <2> QED BY <2>5
<1> HIDE DEF T
<1>3. T \in SUBSET Nat
    BY DEF T
<1>4. 0..n \subseteq T
    BY <1>1, <1>2, <1>3, InductionTo
<1> QED
    BY <1>4 DEF T

\* What is reached is the end of a walk.
LEMMA ReachIsWalk ==
    ASSUME NEW next, NEW start, NEW n \in Nat
    PROVE  \E f : IsWalk(f, next, start, n) /\ Reach(next, start, n) = f[n]
<1> DEFINE f == CHOOSE f : IsWalk(f, next, start, n)
<1>1. IsWalk(f, next, start, n)
    BY WalkExists
<1>2. Reach(next, start, n) = f[n]
    BY DEF Reach, IsWalk, Onward
<1> QED
    BY <1>1, <1>2

-----------------------------------------------------------------------------
(* What is reached.                                                        *)

\* Nothing is reached outside a set that edges do not leave.
LEMMA ReachStaysInside ==
    ASSUME NEW next, NEW start, NEW n \in Nat,
           NEW S, start \subseteq S, \A c \in S : next[c] \subseteq S
    PROVE  Reach(next, start, n) \subseteq S
<1>1. PICK f : IsWalk(f, next, start, n) /\ Reach(next, start, n) = f[n]
    BY ReachIsWalk
<1> DEFINE T == {k \in 0..n : f[k] \subseteq S}
<1>2. f[0] = start
    BY <1>1 DEF IsWalk
<1>3. ASSUME NEW k \in 0..(n - 1), k \in T
      PROVE  k + 1 \in T
    <2>1. f[k + 1] = Onward(next, f[k])
        BY <1>1 DEF IsWalk
    <2> QED BY <1>3, <2>1 DEF Onward
<1>4. T \in SUBSET Nat /\ 0 \in T
    BY <1>2
<1> HIDE DEF T
<1>5. 0..n \subseteq T
    BY <1>3, <1>4, InductionTo
<1> QED
    BY <1>1, <1>5 DEF T

\* The start is reached, however short the walk is.
LEMMA StartIsReached ==
    ASSUME NEW next, NEW start, NEW n \in Nat
    PROVE  start \subseteq Reach(next, start, n)
<1>1. PICK f : IsWalk(f, next, start, n) /\ Reach(next, start, n) = f[n]
    BY ReachIsWalk
<1> DEFINE T == {k \in 0..n : start \subseteq f[k]}
<1>2. f[0] = start
    BY <1>1 DEF IsWalk
<1>3. ASSUME NEW k \in 0..(n - 1), k \in T
      PROVE  k + 1 \in T
    <2>1. f[k + 1] = Onward(next, f[k])
        BY <1>1 DEF IsWalk
    <2> QED BY <1>3, <2>1 DEF Onward
<1>4. T \in SUBSET Nat /\ 0 \in T
    BY <1>2
<1> HIDE DEF T
<1>5. 0..n \subseteq T
    BY <1>3, <1>4, InductionTo
<1> QED
    BY <1>1, <1>5 DEF T

\* Edges do not leave what walks reach that are as long as there are nodes: a
\* walk that goes on finds at least one more node at every step.
LEMMA ReachIsClosed ==
    ASSUME NEW Nodes, IsFiniteSet(Nodes), NEW n \in Nat, Cardinality(Nodes) <= n,
           NEW next \in [Nodes -> SUBSET Nodes], NEW start \in SUBSET Nodes,
           NEW c \in Reach(next, start, n)
    PROVE  c \in Nodes /\ next[c] \subseteq Reach(next, start, n)
<1>1. PICK f : IsWalk(f, next, start, n) /\ Reach(next, start, n) = f[n]
    BY ReachIsWalk
<1>2. f[0] = start /\ \A k \in 0..(n - 1) : f[k + 1] = Onward(next, f[k])
    BY <1>1 DEF IsWalk
<1> DEFINE Done(k) == Onward(next, f[k]) = f[k]
           T == {k \in 0..n : f[k] \in SUBSET Nodes /\ (Done(k) \/ k <= Cardinality(f[k]))}
<1>3. 0 \in T
    <2>1. IsFiniteSet(start) /\ Cardinality(start) \in Nat
        BY FS_Subset, FS_CardinalityType
    <2> QED BY <1>2, <2>1
<1>4. ASSUME NEW k \in 0..(n - 1), k \in T
      PROVE  k + 1 \in T
    <2>1. f[k + 1] = Onward(next, f[k]) /\ f[k] \in SUBSET Nodes
        BY <1>2, <1>4
    <2>2. f[k + 1] \in SUBSET Nodes /\ f[k] \subseteq f[k + 1]
        BY <2>1 DEF Onward
    <2>3. CASE Done(k)
        <3>1. f[k + 1] = f[k]
            BY <2>1, <2>3
        <3>2. Done(k + 1)
            BY <2>3, <3>1
        <3> QED BY <2>2, <3>2
    <2>4. CASE ~Done(k) /\ k <= Cardinality(f[k])
        <3>1. IsFiniteSet(f[k + 1]) /\ IsFiniteSet(f[k])
            BY <2>1, <2>2, FS_Subset
        <3>2. Cardinality(f[k]) <= Cardinality(f[k + 1])
              /\ Cardinality(f[k]) # Cardinality(f[k + 1])
            BY <2>1, <2>2, <2>4, <3>1, FS_Subset
        <3>3. Cardinality(f[k]) \in Nat /\ Cardinality(f[k + 1]) \in Nat
            BY <3>1, FS_CardinalityType
        <3>4. k + 1 <= Cardinality(f[k + 1])
            BY <2>4, <3>2, <3>3
        <3> QED BY <2>2, <3>4
    <2> QED BY <1>4, <2>3, <2>4
<1> HIDE DEF T
<1>5. 0..n \subseteq T
    <2>1. T \in SUBSET Nat
        BY DEF T
    <2> QED BY <1>3, <1>4, <2>1, InductionTo
<1>6. f[n] \in SUBSET Nodes /\ (Done(n) \/ n <= Cardinality(f[n]))
    BY <1>5 DEF T
<1>7. CASE Done(n)
    BY <1>1, <1>6, <1>7 DEF Onward
<1>8. CASE n <= Cardinality(f[n])
    <2>1. Cardinality(f[n]) \in Nat /\ Cardinality(Nodes) \in Nat
          /\ Cardinality(f[n]) <= Cardinality(Nodes)
        BY <1>6, FS_Subset, FS_CardinalityType
    <2>2. f[n] = Nodes
        BY <1>6, <1>8, <2>1, FS_Subset
    <2> QED BY <1>1, <2>2
<1> QED
    BY <1>6, <1>7, <1>8
=============================================================================
