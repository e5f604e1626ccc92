---------------------------- MODULE CopyPropProofs ----------------------------
(***************************************************************************)
(* Copies are propagated only where they hold: if the blocks of a rebuilt  *)
(* flowgraph have new addresses, a copy that is available holds on every   *)
(* path, and no statement ever reads another value than it did at first,   *)
(* in any function and along paths of any length.                          *)
(***************************************************************************)
EXTENDS CopyProp, ReachabilityProofs, SequenceTheorems

Pairs == Symbols \X Symbols

-----------------------------------------------------------------------------
(* The sets of copies, statement by statement.                             *)

\* Both sets lose some copies and get others with every statement.
IsSetWalk(f, start, lost, got, n) ==
    f = [i \in 0..n |-> IF i = 0 THEN start ELSE (f[i - 1] \ lost[i]) \cup got[i]]

LEMMA SetWalkExists ==
    ASSUME NEW start, NEW lost, NEW got, NEW n \in Nat
    PROVE  \E f : IsSetWalk(f, start, lost, got, n)
<1> DEFINE T == {k \in Nat : \E f : IsSetWalk(f, start, lost, got, k)}
<1>1. 0 \in T
    <2>1. IsSetWalk([i \in 0..0 |-> start], start, lost, got, 0)
        BY DEF IsSetWalk
    <2> QED BY <2>1
<1>2. ASSUME NEW k \in 0..(n - 1), k \in T
      PROVE  k + 1 \in T
    <2>1. PICK f : IsSetWalk(f, start, lost, got, k)
        BY <1>2
    <2> DEFINE last == (f[k] \ lost[k + 1]) \cup got[k + 1]
               h == [i \in 0..(k + 1) |-> IF i = k + 1 THEN last ELSE f[i]]
    <2>2. \A i \in 0..k : f[i] = IF i = 0 THEN start ELSE (f[i - 1] \ lost[i]) \cup got[i]
        BY <2>1 DEF IsSetWalk
    <2> HIDE DEF h
    <2>3. /\ h = [i \in 0..(k + 1) |-> h[i]]
          /\ h[k + 1] = last
          /\ \A i \in 0..k : h[i] = f[i]
        BY DEF h
    <2>4. ASSUME NEW i \in 0..(k + 1)
          PROVE  h[i] = IF i = 0 THEN start ELSE (h[i - 1] \ lost[i]) \cup got[i]
        <3>1. CASE i = k + 1
            <4>1. k \in 0..k /\ i # 0 /\ i - 1 = k
                BY <3>1
            <4> QED BY <2>3, <3>1, <4>1
        <3>2. CASE i \in 0..k
            <4>1. i # 0 => i - 1 \in 0..k
                BY <3>2
            <4> QED BY <2>2, <2>3, <3>2, <4>1
        <3> QED BY <3>1, <3>2
    <2>5. IsSetWalk(h, start, lost, got, k + 1)
        BY <2>3, <2>4 DEF IsSetWalk
    <2> QED BY <2>5
<1> HIDE DEF T
<1>3. T \in SUBSET Nat
    BY DEF T
<1>4. 0..n \subseteq T
    BY <1>1, <1>2, <1>3, InductionTo
<1> QED
    BY <1>4 DEF T

IsGenWalk(f, g, gen, list, all) ==
    f = [i \in 0..Len(list) |-> IF i = 0 THEN gen ELSE Gen(g, f[i - 1], list[i], all)]

\* GenThrough applies Gen to one statement after the other.
LEMMA GenThroughStep ==
    ASSUME NEW g, NEW gen, NEW list, NEW all, Len(list) \in Nat
    PROVE  /\ GenThrough(g, gen, list, all, 0) = gen
           /\ \A i \in 1..Len(list) :
                  GenThrough(g, gen, list, all, i)
                  = Gen(g, GenThrough(g, gen, list, all, i - 1), list[i], all)
<1> DEFINE n == Len(list)
           f == CHOOSE f : IsGenWalk(f, g, gen, list, all)
           lost == [i \in 1..n |-> Kills(g, list[i], all)]
           got == [i \in 1..n |-> CopyOf(list[i])]
<1>1. PICK h : IsSetWalk(h, gen, lost, got, n)
    BY SetWalkExists
<1>2. IsGenWalk(h, g, gen, list, all)
    <2>1. \A i \in 1..n : lost[i] = Kills(g, list[i], all) /\ got[i] = CopyOf(list[i])
        OBVIOUS
    <2> HIDE DEF lost, got
    <2>2. h[0] = gen /\ \A i \in 1..n : h[i] = (h[i - 1] \ lost[i]) \cup got[i]
        BY <1>1 DEF IsSetWalk
    <2>3. \A i \in 1..n : h[i] = Gen(g, h[i - 1], list[i], all)
        BY <2>1, <2>2 DEF Gen
    <2>4. h = [i \in 0..n |-> h[i]]
        BY <1>1 DEF IsSetWalk
    <2> QED BY <2>2, <2>3, <2>4 DEF IsGenWalk
<1>3. IsGenWalk(f, g, gen, list, all)
    BY <1>2
<1>4. \A i \in 0..n : GenThrough(g, gen, list, all, i) = f[i]
    BY DEF GenThrough, IsGenWalk
<1> HIDE DEF f
<1>5. f[0] = gen /\ \A i \in 1..n : f[i] = Gen(g, f[i - 1], list[i], all)
    BY <1>3 DEF IsGenWalk
<1> QED
    BY <1>4, <1>5

IsKillWalk(f, g, kill, list, all) ==
    f = [i \in 0..Len(list) |-> IF i = 0 THEN kill ELSE Kill(g, f[i - 1], list[i], all)]

\* KillThrough applies Kill to one statement after the other.
LEMMA KillThroughStep ==
    ASSUME NEW g, NEW kill, NEW list, NEW all, Len(list) \in Nat
    PROVE  /\ KillThrough(g, kill, list, all, 0) = kill
           /\ \A i \in 1..Len(list) :
                  KillThrough(g, kill, list, all, i)
                  = Kill(g, KillThrough(g, kill, list, all, i - 1), list[i], all)
<1> DEFINE n == Len(list)
           f == CHOOSE f : IsKillWalk(f, g, kill, list, all)
           lost == [i \in 1..n |-> {}]
           got == [i \in 1..n |-> Kills(g, list[i], all) \cup CopyOf(list[i])]
<1>1. PICK h : IsSetWalk(h, kill, lost, got, n)
    BY SetWalkExists
<1>2. IsKillWalk(h, g, kill, list, all)
    <2>1. \A i \in 1..n : lost[i] = {} /\ got[i] = Kills(g, list[i], all) \cup CopyOf(list[i])
        OBVIOUS
    <2> HIDE DEF lost, got
    <2>2. h[0] = kill /\ \A i \in 1..n : h[i] = (h[i - 1] \ lost[i]) \cup got[i]
        BY <1>1 DEF IsSetWalk
    <2>3. \A i \in 1..n : h[i] = Kill(g, h[i - 1], list[i], all)
        BY <2>1, <2>2 DEF Kill
    <2>4. h = [i \in 0..n |-> h[i]]
        BY <1>1 DEF IsSetWalk
    <2> QED BY <2>2, <2>3, <2>4 DEF IsKillWalk
<1>3. IsKillWalk(f, g, kill, list, all)
    BY <1>2
<1>4. \A i \in 0..n : KillThrough(g, kill, list, all, i) = f[i]
    BY DEF KillThrough, IsKillWalk
<1> HIDE DEF f
<1>5. f[0] = kill /\ \A i \in 1..n : f[i] = Kill(g, f[i - 1], list[i], all)
    BY <1>3 DEF IsKillWalk
<1> QED
    BY <1>4, <1>5

-----------------------------------------------------------------------------
(* A run, statement by statement and block by block.                       *)

StatementRun(g, run, list, k, i) == After(g, run, list[i], k, i)

IsRunWalk(f, g, run, list, k, n) ==
    f = [i \in 0..n |-> IF i = 0 THEN run ELSE StatementRun(g, f[i - 1], list, k, i)]

LEMMA RunWalkExists ==
    ASSUME NEW g, NEW run, NEW list, NEW k, NEW n \in Nat
    PROVE  \E f : IsRunWalk(f, g, run, list, k, n)
<1> DEFINE T == {m \in Nat : \E f : IsRunWalk(f, g, run, list, k, m)}
<1>1. 0 \in T
    <2>1. IsRunWalk([i \in 0..0 |-> run], g, run, list, k, 0)
        BY DEF IsRunWalk
    <2> QED BY <2>1
<1>2. ASSUME NEW m \in 0..(n - 1), m \in T
      PROVE  m + 1 \in T
    <2>1. PICK f : IsRunWalk(f, g, run, list, k, m)
        BY <1>2
    <2> DEFINE last == StatementRun(g, f[m], list, k, m + 1)
               h == [i \in 0..(m + 1) |-> IF i = m + 1 THEN last ELSE f[i]]
    <2>2. \A i \in 0..m : f[i] = IF i = 0 THEN run ELSE StatementRun(g, f[i - 1], list, k, i)
        BY <2>1 DEF IsRunWalk
    <2> HIDE DEF h
    <2>3. /\ h = [i \in 0..(m + 1) |-> h[i]]
          /\ h[m + 1] = last
          /\ \A i \in 0..m : h[i] = f[i]
        BY DEF h
    <2>4. ASSUME NEW i \in 0..(m + 1)
          PROVE  h[i] = IF i = 0 THEN run ELSE StatementRun(g, h[i - 1], list, k, i)
        <3>1. CASE i = m + 1
            <4>1. m \in 0..m /\ i # 0 /\ i - 1 = m
                BY <3>1
            <4>2. h[i - 1] = f[m]
                BY <2>3, <4>1
            <4> QED BY <2>3, <3>1, <4>1, <4>2
        <3>2. CASE i \in 0..m
            <4>1. i # 0 => i - 1 \in 0..m
                BY <3>2
            <4> QED BY <2>2, <2>3, <3>2, <4>1
        <3> QED BY <3>1, <3>2
    <2>5. IsRunWalk(h, g, run, list, k, m + 1)
        BY <2>3, <2>4 DEF IsRunWalk
    <2> QED BY <2>5
<1> HIDE DEF T
<1>3. T \in SUBSET Nat
    BY DEF T
<1>4. 0..n \subseteq T
    BY <1>1, <1>2, <1>3, InductionTo
<1> QED
    BY <1>4 DEF T

\* Through applies After to one statement after the other.
LEMMA ThroughWalk ==
    ASSUME NEW g, NEW run, NEW list, NEW k, Len(list) \in Nat
    PROVE  \E f : /\ IsRunWalk(f, g, run, list, k, Len(list))
                  /\ \A i \in 0..Len(list) : Through(g, run, list, k, i) = f[i]
<1> DEFINE n == Len(list)
           f == CHOOSE f : IsRunWalk(f, g, run, list, k, n)
<1>1. IsRunWalk(f, g, run, list, k, n)
    BY RunWalkExists
<1>2. \A i \in 0..n : Through(g, run, list, k, i) = f[i]
    BY DEF Through, IsRunWalk, StatementRun
<1> QED
    BY <1>1, <1>2

LEMMA ThroughStart ==
    ASSUME NEW g, NEW run, NEW list, NEW k, Len(list) \in Nat
    PROVE  Through(g, run, list, k, 0) = run
BY ThroughWalk DEF IsRunWalk

LEMMA ThroughStep ==
    ASSUME NEW g, NEW run, NEW list, NEW k, Len(list) \in Nat, NEW i \in 1..Len(list)
    PROVE  Through(g, run, list, k, i) = StatementRun(g, Through(g, run, list, k, i - 1), list, k, i)
<1>1. PICK f : /\ IsRunWalk(f, g, run, list, k, Len(list))
               /\ \A j \in 0..Len(list) : Through(g, run, list, k, j) = f[j]
    BY ThroughWalk
<1>2. i \in 0..Len(list) /\ i - 1 \in 0..Len(list) /\ i # 0
    OBVIOUS
<1>3. f[i] = StatementRun(g, f[i - 1], list, k, i)
    BY <1>1, <1>2 DEF IsRunWalk
<1>4. Through(g, run, list, k, i) = f[i] /\ Through(g, run, list, k, i - 1) = f[i - 1]
    BY <1>1, <1>2
<1> QED
    BY <1>3, <1>4

BlockRun(g, run, path, k) == Through(g, run, g.blocks[path[k]], k, Len(g.blocks[path[k]]))

IsPathWalk(f, g, path, n) ==
    f = [k \in 0..n |-> IF k = 0 THEN AtStart ELSE BlockRun(g, f[k - 1], path, k)]

LEMMA PathWalkExists ==
    ASSUME NEW g, NEW path, NEW n \in Nat
    PROVE  \E f : IsPathWalk(f, g, path, n)
<1> DEFINE T == {m \in Nat : \E f : IsPathWalk(f, g, path, m)}
<1>1. 0 \in T
    <2>1. IsPathWalk([k \in 0..0 |-> AtStart], g, path, 0)
        BY DEF IsPathWalk
    <2> QED BY <2>1
<1>2. ASSUME NEW m \in 0..(n - 1), m \in T
      PROVE  m + 1 \in T
    <2>1. PICK f : IsPathWalk(f, g, path, m)
        BY <1>2
    <2> DEFINE last == BlockRun(g, f[m], path, m + 1)
               h == [k \in 0..(m + 1) |-> IF k = m + 1 THEN last ELSE f[k]]
    <2>2. \A k \in 0..m : f[k] = IF k = 0 THEN AtStart ELSE BlockRun(g, f[k - 1], path, k)
        BY <2>1 DEF IsPathWalk
    <2> HIDE DEF h
    <2>3. /\ h = [k \in 0..(m + 1) |-> h[k]]
          /\ h[m + 1] = last
          /\ \A k \in 0..m : h[k] = f[k]
        BY DEF h
    <2>4. ASSUME NEW k \in 0..(m + 1)
          PROVE  h[k] = IF k = 0 THEN AtStart ELSE BlockRun(g, h[k - 1], path, k)
        <3>1. CASE k = m + 1
            <4>1. m \in 0..m /\ k # 0 /\ k - 1 = m
                BY <3>1
            <4>2. h[k - 1] = f[m]
                BY <2>3, <4>1
            <4> QED BY <2>3, <3>1, <4>1, <4>2
        <3>2. CASE k \in 0..m
            <4>1. k # 0 => k - 1 \in 0..m
                BY <3>2
            <4> QED BY <2>2, <2>3, <3>2, <4>1
        <3> QED BY <3>1, <3>2
    <2>5. IsPathWalk(h, g, path, m + 1)
        BY <2>3, <2>4 DEF IsPathWalk
    <2> QED BY <2>5
<1> HIDE DEF T
<1>3. T \in SUBSET Nat
    BY DEF T
<1>4. 0..n \subseteq T
    BY <1>1, <1>2, <1>3, InductionTo
<1> QED
    BY <1>4 DEF T

\* Along goes through one block after the other.
LEMMA AlongStep ==
    ASSUME NEW g, NEW path, Len(path) \in Nat
    PROVE  /\ Along(g, path, 0) = AtStart
           /\ \A k \in 1..Len(path) : Along(g, path, k) = BlockRun(g, Along(g, path, k - 1), path, k)
<1> DEFINE n == Len(path)
           f == CHOOSE f : IsPathWalk(f, g, path, n)
<1>1. IsPathWalk(f, g, path, n)
    BY PathWalkExists
<1>2. \A k \in 0..n : Along(g, path, k) = f[k]
    BY DEF Along, IsPathWalk, BlockRun
<1> HIDE DEF f
<1>3. f[0] = AtStart /\ \A k \in 1..n : f[k] = BlockRun(g, f[k - 1], path, k)
    BY <1>1 DEF IsPathWalk
<1> QED
    BY <1>2, <1>3

-----------------------------------------------------------------------------
(* Paths.                                                                  *)

IsPath(g, p) ==
    /\ p \in Seq(DOMAIN g.blocks) /\ Len(p) >= 1 /\ p[1] = 1
    /\ \A k \in 1..(Len(p) - 1) : p[k + 1] \in g.succ[p[k]]

Longer(succ, ps) == {<<1>>} \cup UNION {{Append(p, b) : b \in succ[Last(p)]} : p \in ps}

IsPathsWalk(f, succ, n) ==
    f = [k \in 0..n |-> IF k = 0 THEN {} ELSE Longer(succ, f[k - 1])]

LEMMA PathsWalkExists ==
    ASSUME NEW succ, NEW n \in Nat
    PROVE  \E f : IsPathsWalk(f, succ, n)
<1> DEFINE T == {m \in Nat : \E f : IsPathsWalk(f, succ, m)}
<1>1. 0 \in T
    <2>1. IsPathsWalk([k \in 0..0 |-> {}], succ, 0)
        BY DEF IsPathsWalk
    <2> QED BY <2>1
<1>2. ASSUME NEW m \in 0..(n - 1), m \in T
      PROVE  m + 1 \in T
    <2>1. PICK f : IsPathsWalk(f, succ, m)
        BY <1>2
    <2> DEFINE last == Longer(succ, f[m])
               h == [k \in 0..(m + 1) |-> IF k = m + 1 THEN last ELSE f[k]]
    <2>2. \A k \in 0..m : f[k] = IF k = 0 THEN {} ELSE Longer(succ, f[k - 1])
        BY <2>1 DEF IsPathsWalk
    <2> HIDE DEF h
    <2>3. /\ h = [k \in 0..(m + 1) |-> h[k]]
          /\ h[m + 1] = last
          /\ \A k \in 0..m : h[k] = f[k]
        BY DEF h
    <2>4. ASSUME NEW k \in 0..(m + 1)
          PROVE  h[k] = IF k = 0 THEN {} ELSE Longer(succ, h[k - 1])
        <3>1. CASE k = m + 1
            <4>1. m \in 0..m /\ k # 0 /\ k - 1 = m
                BY <3>1
            <4>2. h[k - 1] = f[m]
                BY <2>3, <4>1
            <4> QED BY <2>3, <3>1, <4>1, <4>2
        <3>2. CASE k \in 0..m
            <4>1. k # 0 => k - 1 \in 0..m
                BY <3>2
            <4> QED BY <2>2, <2>3, <3>2, <4>1
        <3> QED BY <3>1, <3>2
    <2>5. IsPathsWalk(h, succ, m + 1)
        BY <2>3, <2>4 DEF IsPathsWalk
    <2> QED BY <2>5
<1> HIDE DEF T
<1>3. T \in SUBSET Nat
    BY DEF T
<1>4. 0..n \subseteq T
    BY <1>1, <1>2, <1>3, InductionTo
<1> QED
    BY <1>4 DEF T

LEMMA PathsStep ==
    ASSUME NEW succ, NEW n \in Nat
    PROVE  \E f : /\ Paths(succ, n) = f[n] /\ f[0] = {}
                  /\ \A k \in 0..(n - 1) : f[k + 1] = Longer(succ, f[k])
<1> DEFINE f == CHOOSE f : IsPathsWalk(f, succ, n)
<1>1. IsPathsWalk(f, succ, n)
    BY PathsWalkExists
<1>2. Paths(succ, n) = f[n]
    BY DEF Paths, IsPathsWalk, Longer
<1> HIDE DEF f
<1>3. f[0] = {}
    BY <1>1 DEF IsPathsWalk
<1>4. ASSUME NEW k \in 0..(n - 1)
      PROVE  f[k + 1] = Longer(succ, f[k])
    <2>1. k + 1 \in 0..n /\ k + 1 # 0 /\ (k + 1) - 1 = k
        OBVIOUS
    <2>2. f[k + 1] = IF k + 1 = 0 THEN {} ELSE Longer(succ, f[(k + 1) - 1])
        BY <1>1, <2>1 DEF IsPathsWalk
    <2> QED BY <2>1, <2>2
<1> QED
    BY <1>2, <1>3, <1>4

\* A path that is continued along an edge is a path.
LEMMA PathGoesOn ==
    ASSUME NEW g, g.succ \in [DOMAIN g.blocks -> SUBSET DOMAIN g.blocks],
           NEW p, IsPath(g, p), NEW b \in g.succ[Last(p)]
    PROVE  IsPath(g, Append(p, b))
<1> DEFINE q == Append(p, b)
<1>1. p \in Seq(DOMAIN g.blocks) /\ Len(p) \in Nat /\ Len(p) >= 1
    BY LenProperties DEF IsPath
<1>2. Last(p) = p[Len(p)] /\ p[Len(p)] \in DOMAIN g.blocks
    BY <1>1, ElementOfSeq DEF Last
<1>3. b \in DOMAIN g.blocks
    BY <1>2
<1>4. /\ q \in Seq(DOMAIN g.blocks) /\ Len(q) = Len(p) + 1
      /\ q[Len(p) + 1] = b /\ \A k \in 1..Len(p) : q[k] = p[k]
    BY <1>1, <1>3, AppendProperties
<1> HIDE DEF q
<1>5. ASSUME NEW k \in 1..(Len(q) - 1)
      PROVE  q[k + 1] \in g.succ[q[k]]
    <2>1. CASE k = Len(p)
        BY <1>1, <1>2, <1>4, <2>1
    <2>2. CASE k \in 1..(Len(p) - 1)
        <3>1. q[k + 1] = p[k + 1] /\ q[k] = p[k]
            BY <1>1, <1>4, <2>2
        <3> QED BY <2>2, <3>1 DEF IsPath
    <2> QED BY <1>1, <1>4, <2>1, <2>2
<1>6. q[1] = 1 /\ Len(q) >= 1
    BY <1>1, <1>4 DEF IsPath
<1>7. IsPath(g, q)
    BY <1>4, <1>5, <1>6 DEF IsPath
<1> QED
    BY <1>7 DEF q

\* What Paths has are paths.
LEMMA PathsArePaths ==
    ASSUME NEW g, IsFunction(g), NEW n \in Nat, NEW p \in Paths(g.succ, n)
    PROVE  IsPath(g, p)
<1>1. PICK f : Paths(g.succ, n) = f[n] /\ f[0] = {}
               /\ \A k \in 0..(n - 1) : f[k + 1] = Longer(g.succ, f[k])
    BY PathsStep
<1> DEFINE T == {k \in 0..n : \A q \in f[k] : IsPath(g, q)}
<1>2. 0 \in T
    BY <1>1
<1>3. ASSUME NEW k \in 0..(n - 1), k \in T
      PROVE  k + 1 \in T
    <2> SUFFICES ASSUME NEW q \in Longer(g.succ, f[k])
                 PROVE  IsPath(g, q)
        BY <1>1
    <2>1. CASE q = <<1>>
        <3>1. DOMAIN g.blocks = 1..Len(g.blocks) /\ 1 \in DOMAIN g.blocks
            BY LenProperties DEF IsFunction
        <3>2. q \in Seq(DOMAIN g.blocks) /\ Len(q) = 1 /\ q[1] = 1
            BY <2>1, <3>1
        <3> QED BY <3>2 DEF IsPath
    <2>2. CASE \E r \in f[k] : \E b \in g.succ[Last(r)] : q = Append(r, b)
        <3>1. PICK r \in f[k] : \E b \in g.succ[Last(r)] : q = Append(r, b)
            BY <2>2
        <3>2. PICK b \in g.succ[Last(r)] : q = Append(r, b)
            BY <3>1
        <3>3. IsPath(g, r)
            BY <1>3
        <3>4. g.succ \in [DOMAIN g.blocks -> SUBSET DOMAIN g.blocks]
            BY DEF IsFunction
        <3> QED BY <3>2, <3>3, <3>4, PathGoesOn
    <2> QED BY <2>1, <2>2 DEF Longer
<1> HIDE DEF T
<1>4. T \in SUBSET Nat
    BY DEF T
<1>5. 0..n \subseteq T
    BY <1>2, <1>3, <1>4, InductionTo
<1> QED
    BY <1>1, <1>5 DEF T

\* Every block on a path is reached.
LEMMA PathIsReached ==
    ASSUME NEW g, IsFunction(g), NEW p, IsPath(g, p), NEW k \in 1..Len(p)
    PROVE  p[k] \in Reach(g.succ, {1}, Len(g.blocks))
<1> DEFINE n == Len(g.blocks)
           R == Reach(g.succ, {1}, n)
<1>1. n \in Nat /\ n >= 1 /\ DOMAIN g.blocks = 1..n /\ g.succ \in [1..n -> SUBSET (1..n)]
    BY LenProperties DEF IsFunction
<1>2. IsFiniteSet(1..n) /\ Cardinality(1..n) = n
    BY <1>1, FS_Interval
<1>3. {1} \subseteq R
    BY <1>1, StartIsReached
<1>4. \A c \in R : g.succ[c] \subseteq R
    BY <1>1, <1>2, ReachIsClosed
<1>5. Len(p) \in Nat /\ Len(p) >= 1 /\ p[1] = 1 /\ \A j \in 1..(Len(p) - 1) : p[j + 1] \in g.succ[p[j]]
    BY LenProperties DEF IsPath
<1> HIDE DEF R, n
<1> DEFINE T == {j \in 0..(Len(p) - 1) : p[j + 1] \in R}
<1>6. 0 \in T
    BY <1>3, <1>5
<1>7. ASSUME NEW j \in 0..(Len(p) - 2), j \in T
      PROVE  j + 1 \in T
    <2>1. p[j + 1] \in R /\ j + 1 \in 1..(Len(p) - 1)
        BY <1>5, <1>7
    <2>2. p[(j + 1) + 1] \in R
        BY <1>4, <1>5, <2>1
    <2> QED BY <1>5, <2>1, <2>2
<1>8. T \in SUBSET Nat
    BY <1>5
<1> HIDE DEF T
<1>9. 0..(Len(p) - 1) \subseteq T
    <2> DEFINE m == Len(p) - 1
    <2>1. m \in Nat /\ \A j \in 0..(m - 1) : j \in T => j + 1 \in T
        BY <1>5, <1>7
    <2> HIDE DEF m
    <2>2. 0..m \subseteq T
        BY <1>6, <1>8, <2>1, InductionTo
    <2> QED BY <2>2 DEF m
<1>10. k - 1 \in T /\ (k - 1) + 1 = k
    BY <1>5, <1>9
<1> QED
    BY <1>10 DEF T, R, n

-----------------------------------------------------------------------------
(* What holds after a statement.                                           *)

\* The run along path p, after the first i statements of the k-th block.
RunAt(g, p, k, i) == Through(g, Along(g, p, k - 1), g.blocks[p[k]], k, i)

\* By then the path has a statement that is the copy c.
IsMade(g, p, k, i, c) ==
    \E m \in 1..k : \E j \in DOMAIN g.blocks[p[m]] :
        (m < k \/ j <= i) /\ c \in CopyOf(g.blocks[p[m]][j])

\* Both symbols of copy c have the same value.
Holds(run, c) == run.values[c[1]] = run.values[c[2]]

IsEqual(g, p, k, i, c) == Holds(RunAt(g, p, k, i), c)

\* On every path that comes to statement i of block b these copies have been made.
MadeAt(g, b, i, C) ==
    \A p : IsPath(g, p) =>
        \A k \in 1..Len(p) : p[k] = b => \A c \in C : IsMade(g, p, k, i, c)

EqualAt(g, b, i, C) ==
    \A p : IsPath(g, p) =>
        \A k \in 1..Len(p) : p[k] = b => \A c \in C : IsEqual(g, p, k, i, c)

LEMMA BlockTypes ==
    ASSUME NEW g, IsFunction(g), NEW b \in DOMAIN g.blocks
    PROVE  /\ g.blocks[b] \in Seq(AllStatements) /\ Len(g.blocks[b]) \in Nat
           /\ DOMAIN g.blocks[b] = 1..Len(g.blocks[b])
           /\ \A i \in 1..Len(g.blocks[b]) : g.blocks[b][i] \in AllStatements
<1>1. g.blocks \in Seq(Seq(AllStatements))
    BY DEF IsFunction
<1>2. g.blocks[b] \in Seq(AllStatements)
    BY <1>1, ElementOfSeq, LenProperties
<1> QED
    BY <1>2, ElementOfSeq, LenProperties

LEMMA PathTypes ==
    ASSUME NEW g, NEW p, IsPath(g, p)
    PROVE  Len(p) \in Nat /\ Len(p) >= 1 /\ \A k \in 1..Len(p) : p[k] \in DOMAIN g.blocks
BY LenProperties, ElementOfSeq DEF IsPath

LEMMA StatementTypes ==
    ASSUME NEW s \in AllStatements
    PROVE  /\ s.op \in {"copy", "assign", "call", "index", "use"}
           /\ s.result \in Symbols \cup {None} /\ s.reads \in Seq(Symbols)
           /\ s.op = "copy" => s.result \in Symbols /\ Len(s.reads) = 1 /\ s.reads[1] \in Symbols
           /\ CopyOf(s) \in SUBSET Pairs
<1>1. /\ s.op \in {"copy", "assign", "call", "index", "use"}
      /\ s.result \in Symbols \cup {None} /\ s.reads \in Seq(Symbols)
      /\ s.op = "copy" => s.result \in Symbols /\ Len(s.reads) = 1
    BY DEF AllStatements
<1>2. s.op = "copy" => s.reads[1] \in Symbols
    BY <1>1, ElementOfSeq
<1> QED
    BY <1>1, <1>2 DEF CopyOf, Pairs

\* Copies are made by the statements up to here or by the next one.
LEMMA StepMade ==
    ASSUME NEW g, NEW p, NEW k \in Nat \ {0}, NEW i \in Nat \ {0},
           i \in DOMAIN g.blocks[p[k]], \A j \in DOMAIN g.blocks[p[k]] : j \in Nat,
           NEW C, \A c \in C : IsMade(g, p, k, i - 1, c), NEW all,
           NEW c \in Gen(g, C, g.blocks[p[k]][i], all)
    PROVE  IsMade(g, p, k, i, c)
<1>1. CASE c \in C
    <2>1. PICK m \in 1..k : \E j \in DOMAIN g.blocks[p[m]] :
              (m < k \/ j <= i - 1) /\ c \in CopyOf(g.blocks[p[m]][j])
        BY <1>1 DEF IsMade
    <2>2. PICK j \in DOMAIN g.blocks[p[m]] :
              (m < k \/ j <= i - 1) /\ c \in CopyOf(g.blocks[p[m]][j])
        BY <2>1
    <2>3. m < k \/ j <= i
        <3>1. CASE m = k
            BY <2>2, <3>1
        <3>2. CASE m # k
            BY <2>2, <3>2
        <3> QED BY <3>1, <3>2
    <2> QED BY <2>2, <2>3 DEF IsMade
<1>2. CASE c \in CopyOf(g.blocks[p[k]][i])
    BY <1>2 DEF IsMade
<1> QED
    BY <1>1, <1>2 DEF Gen

Assigned(g, s) == {s.result} \cup (IF s.op = "call" THEN g.globals ELSE {})

NewValue(run, s, k, i, x) == IF s.op = "copy" THEN run.values[s.reads[1]] ELSE <<k, i, x>>

\* What After does to the values.
LEMMA ValuesAfter ==
    ASSUME NEW g, NEW run, NEW s, NEW k, NEW i, NEW x \in Symbols
    PROVE  /\ x \in Assigned(g, s) => After(g, run, s, k, i).values[x] = NewValue(run, s, k, i, x)
           /\ x \notin Assigned(g, s) => After(g, run, s, k, i).values[x] = run.values[x]
BY DEF After, Assigned, NewValue

\* A copy that holds before a statement and is not killed by it holds after it;
\* the result of an index must not be part of it.
LEMMA StepEqual ==
    ASSUME NEW g, NEW run, NEW s \in AllStatements, NEW k, NEW i,
           NEW all, NEW C, C \subseteq all, all \subseteq Pairs,
           \A c \in C : Holds(run, c),
           s.op = "index" => \A c \in C : s.result \notin {c[1], c[2]},
           NEW c \in Gen(g, C, s, all)
    PROVE  Holds(After(g, run, s, k, i), c)
<1> DEFINE v == After(g, run, s, k, i).values
<1>1. \A x \in Symbols : /\ x \in Assigned(g, s) => v[x] = NewValue(run, s, k, i, x)
                         /\ x \notin Assigned(g, s) => v[x] = run.values[x]
    BY ValuesAfter
<1> HIDE DEF v
<1>2. CASE c \in C \ Kills(g, s, all)
    <2>1. c[1] \in Symbols /\ c[2] \in Symbols /\ run.values[c[1]] = run.values[c[2]]
        BY <1>2 DEF Pairs, Holds
    <2>2. c[1] \notin Assigned(g, s) /\ c[2] \notin Assigned(g, s)
        <3>1. CASE s.op = "index"
            BY <1>2, <3>1 DEF Assigned
        <3>2. CASE s.op # "index"
            BY <1>2, <3>2 DEF Kills, Assigned
        <3> QED BY <3>1, <3>2
    <2>3. v[c[1]] = v[c[2]]
        BY <1>1, <2>1, <2>2
    <2> QED BY <2>3 DEF v, Holds
<1>3. CASE c \in CopyOf(s)
    <2>1. s.op = "copy" /\ c = <<s.result, s.reads[1]>>
        BY <1>3 DEF CopyOf
    <2>2. s.result \in Symbols /\ s.reads[1] \in Symbols
        BY <2>1, StatementTypes
    <2>3. Assigned(g, s) = {s.result} /\ \A x : NewValue(run, s, k, i, x) = run.values[s.reads[1]]
        BY <2>1 DEF Assigned, NewValue
    <2>4. v[s.result] = run.values[s.reads[1]]
        BY <1>1, <2>2, <2>3
    <2>5. v[s.reads[1]] = run.values[s.reads[1]]
        BY <1>1, <2>2, <2>3
    <2>6. v[c[1]] = v[c[2]]
        BY <2>1, <2>4, <2>5
    <2> QED BY <2>6 DEF v, Holds
<1> QED
    BY <1>2, <1>3 DEF Gen

\* The result of an index is part of no copy that every path has made: one path
\* has made none of it.
LEMMA NoneOfNewTemp ==
    ASSUME NEW g, IsFunction(g), NEW b \in DOMAIN g.blocks, NEW i \in 1..Len(g.blocks[b]),
           g.blocks[b][i].op = "index",
           NEW q, IsPath(g, q), NEW m \in 1..Len(q), q[m] = b,
           NEW C, MadeAt(g, b, i - 1, C), NEW c \in C
    PROVE  g.blocks[b][i].result \notin {c[1], c[2]}
<1> DEFINE t == g.blocks[b][i].result
           n == Len(g.blocks)
<1>1. b \in Reach(g.succ, {1}, n)
    BY PathIsReached
<1>2. n \in Nat /\ i \in DOMAIN g.blocks[b]
    BY BlockTypes, LenProperties DEF IsFunction
<1>3. PICK p \in Paths(g.succ, n) : Last(p) = b /\ CopyFree(g.blocks, p, i, t)
    BY <1>1, <1>2 DEF IsFunction, NewTemps
<1>4. IsPath(g, p)
    BY <1>2, PathsArePaths
<1>5. Len(p) \in 1..Len(p) /\ p[Len(p)] = b
    BY <1>3, <1>4, PathTypes DEF Last
<1>6. IsMade(g, p, Len(p), i - 1, c)
    BY <1>4, <1>5 DEF MadeAt
<1>7. PICK k \in 1..Len(p) : \E j \in DOMAIN g.blocks[p[k]] :
          (k < Len(p) \/ j <= i - 1) /\ c \in CopyOf(g.blocks[p[k]][j])
    BY <1>6 DEF IsMade
<1>8. PICK j \in DOMAIN g.blocks[p[k]] :
          (k < Len(p) \/ j <= i - 1) /\ c \in CopyOf(g.blocks[p[k]][j])
    BY <1>7
<1>9. DOMAIN p = 1..Len(p) /\ p[k] \in DOMAIN g.blocks
    BY <1>4, PathTypes, LenProperties DEF IsPath
<1>10. j \in Nat
    BY <1>9, BlockTypes
<1>11. k < Len(p) \/ j < i
    BY <1>8, <1>10, <1>2
<1> QED
    BY <1>3, <1>8, <1>9, <1>11 DEF CopyFree

-----------------------------------------------------------------------------
(* What the analysis finds to be available when it does not change any     *)
(* more.                                                                   *)

\* All copies are among these.
CopiesAre(g, all) ==
    /\ all \subseteq Pairs
    /\ \A b \in DOMAIN g.blocks : \A i \in DOMAIN g.blocks[b] : CopyOf(g.blocks[b][i]) \subseteq all

\* What is left after i statements of block b of what is available before it.
Leaves(g, all, b, i, available) ==
    GenThrough(g, {}, g.blocks[b], all, i) \cup (available \ KillThrough(g, {}, g.blocks[b], all, i))

\* Nothing is available at the entry, and no block has more than its
\* predecessors leave.
IsAvailable(g, all, available) ==
    /\ available \in [DOMAIN g.blocks -> SUBSET all] /\ available[1] = {}
    /\ \A p \in DOMAIN g.blocks : \A b \in g.succ[p] :
          available[b] \subseteq Leaves(g, all, p, Len(g.blocks[p]), available[p])

LEMMA LeavesStep ==
    ASSUME NEW g, IsFunction(g), NEW all, NEW b \in DOMAIN g.blocks, NEW A,
           NEW i \in 1..Len(g.blocks[b])
    PROVE  /\ Leaves(g, all, b, 0, A) = A
           /\ Leaves(g, all, b, i, A) \subseteq Gen(g, Leaves(g, all, b, i - 1, A), g.blocks[b][i], all)
<1> DEFINE list == g.blocks[b]
           G(j) == GenThrough(g, {}, list, all, j)
           K(j) == KillThrough(g, {}, list, all, j)
<1>1. Len(list) \in Nat /\ i \in 1..Len(list)
    BY BlockTypes
<1> HIDE DEF list
<1>2. G(0) = {} /\ \A j \in 1..Len(list) : G(j) = Gen(g, G(j - 1), list[j], all)
    BY <1>1, GenThroughStep
<1>3. K(0) = {} /\ \A j \in 1..Len(list) : K(j) = Kill(g, K(j - 1), list[j], all)
    BY <1>1, KillThroughStep
<1>4. \A j : Leaves(g, all, b, j, A) = G(j) \cup (A \ K(j))
    BY DEF Leaves, list
<1> HIDE DEF G, K
<1>5. Leaves(g, all, b, 0, A) = A
    BY <1>2, <1>3, <1>4
<1>6. ASSUME NEW c \in Leaves(g, all, b, i, A)
      PROVE  c \in Gen(g, Leaves(g, all, b, i - 1, A), list[i], all)
    BY <1>1, <1>2, <1>3, <1>4, <1>6 DEF Gen, Kill
<1> QED
    BY <1>5, <1>6 DEF list

\* The sets of a block have no other copies than there are.
LEMMA ThroughInside ==
    ASSUME NEW g, IsFunction(g), NEW all, CopiesAre(g, all), NEW b \in DOMAIN g.blocks,
           NEW i \in 0..Len(g.blocks[b])
    PROVE  /\ GenThrough(g, {}, g.blocks[b], all, i) \subseteq all
           /\ KillThrough(g, {}, g.blocks[b], all, i) \subseteq all
<1> DEFINE list == g.blocks[b]
           n == Len(list)
           G(j) == GenThrough(g, {}, list, all, j)
           K(j) == KillThrough(g, {}, list, all, j)
           T == {j \in 0..n : G(j) \subseteq all /\ K(j) \subseteq all}
<1>1. n \in Nat /\ DOMAIN list = 1..n /\ i \in 0..n
    BY BlockTypes
<1>2. \A j \in DOMAIN list : CopyOf(list[j]) \subseteq all
    BY DEF CopiesAre
<1> HIDE DEF list
<1>3. G(0) = {} /\ \A j \in 1..n : G(j) = Gen(g, G(j - 1), list[j], all)
    BY <1>1, GenThroughStep
<1>4. K(0) = {} /\ \A j \in 1..n : K(j) = Kill(g, K(j - 1), list[j], all)
    BY <1>1, KillThroughStep
<1>5. \A j \in 1..n : CopyOf(list[j]) \subseteq all /\ Kills(g, list[j], all) \subseteq all
    BY <1>1, <1>2 DEF Kills
<1> HIDE DEF G, K, n
<1>6. 0 \in T
    BY <1>1, <1>3, <1>4
<1>7. ASSUME NEW j \in 0..(n - 1), j \in T
      PROVE  j + 1 \in T
    <2>1. j + 1 \in 1..n /\ (j + 1) - 1 = j
        BY <1>1
    <2>2. G(j) \subseteq all /\ K(j) \subseteq all
        BY <1>7
    <2>3. G(j + 1) \subseteq all
        BY <1>3, <1>5, <2>1, <2>2 DEF Gen
    <2>4. K(j + 1) \subseteq all
        BY <1>4, <1>5, <2>1, <2>2 DEF Kill
    <2> QED BY <1>1, <2>1, <2>3, <2>4
<1> HIDE DEF T
<1>8. T \in SUBSET Nat
    BY <1>1 DEF T
<1>9. 0..n \subseteq T
    BY <1>1, <1>6, <1>7, <1>8, InductionTo
<1>10. i \in T
    BY <1>1, <1>9
<1> QED
    BY <1>10 DEF T, G, K, list

\* What is left of copies that had been made has been made.
LEMMA LeftIsMade ==
    ASSUME NEW g, IsFunction(g), NEW all, NEW p, IsPath(g, p), NEW k \in 1..Len(p),
           NEW A, \A c \in A : IsMade(g, p, k, 0, c),
           NEW i \in 0..Len(g.blocks[p[k]]), NEW c \in Leaves(g, all, p[k], i, A)
    PROVE  IsMade(g, p, k, i, c)
<1> DEFINE b == p[k]
           n == Len(g.blocks[b])
           T == {j \in 0..n : \A d \in Leaves(g, all, b, j, A) : IsMade(g, p, k, j, d)}
<1>1. b \in DOMAIN g.blocks /\ k \in Nat \ {0}
    BY PathTypes
<1>2. n \in Nat /\ DOMAIN g.blocks[b] = 1..n
    BY <1>1, BlockTypes
<1>3. Leaves(g, all, b, 0, A) = A
    BY <1>2, GenThroughStep, KillThroughStep DEF Leaves
<1>4. 0 \in T
    BY <1>2, <1>3
<1>5. ASSUME NEW j \in 0..(n - 1), j \in T
      PROVE  j + 1 \in T
    <2>1. j + 1 \in 1..n /\ (j + 1) - 1 = j
        BY <1>2
    <2>2. Leaves(g, all, b, j + 1, A) \subseteq Gen(g, Leaves(g, all, b, j, A), g.blocks[b][j + 1], all)
        BY <1>1, <2>1, LeavesStep
    <2>3. \A d \in Leaves(g, all, b, j, A) : IsMade(g, p, k, (j + 1) - 1, d)
        BY <1>5, <2>1
    <2>4. j + 1 \in Nat \ {0} /\ j + 1 \in DOMAIN g.blocks[p[k]] /\ \A x \in DOMAIN g.blocks[p[k]] : x \in Nat
        BY <1>2, <2>1
    <2>5. \A d \in Gen(g, Leaves(g, all, b, j, A), g.blocks[p[k]][j + 1], all) : IsMade(g, p, k, j + 1, d)
        <3> DEFINE C == Leaves(g, all, b, j, A)
                   m == j + 1
        <3>1. m \in Nat \ {0} /\ m \in DOMAIN g.blocks[p[k]] /\ \A x \in DOMAIN g.blocks[p[k]] : x \in Nat
            BY <2>4
        <3>2. \A d \in C : IsMade(g, p, k, m - 1, d)
            BY <2>3
        <3> HIDE DEF C, m
        <3>3. \A d \in Gen(g, C, g.blocks[p[k]][m], all) : IsMade(g, p, k, m, d)
            BY <1>1, <3>1, <3>2, StepMade
        <3> QED BY <3>3 DEF C, m
    <2> QED BY <1>2, <2>1, <2>2, <2>5
<1> HIDE DEF T
<1>6. T \in SUBSET Nat
    BY <1>2 DEF T
<1>7. 0..n \subseteq T
    <2> HIDE DEF n
    <2> QED BY <1>2, <1>4, <1>5, <1>6, InductionTo
<1> QED
    BY <1>7 DEF T

\* Available copies have been made on every path.
LEMMA AvailableIsMade ==
    ASSUME NEW g, IsFunction(g), NEW all, NEW available, IsAvailable(g, all, available),
           NEW p, IsPath(g, p), NEW k \in 1..Len(p), NEW c \in available[p[k]]
    PROVE  IsMade(g, p, k, 0, c)
<1> DEFINE n == Len(p) - 1
           T == {j \in 0..n : \A d \in available[p[j + 1]] : IsMade(g, p, j + 1, 0, d)}
<1>1. /\ Len(p) \in Nat /\ Len(p) >= 1 /\ \A j \in 1..Len(p) : p[j] \in DOMAIN g.blocks
      /\ p[1] = 1 /\ \A j \in 1..n : p[j + 1] \in g.succ[p[j]]
    BY PathTypes DEF IsPath
<1>2. 0 \in T
    BY <1>1 DEF IsAvailable
<1>3. ASSUME NEW j \in 0..(n - 1), j \in T
      PROVE  j + 1 \in T
    <2> DEFINE m == j + 1
               b == p[m]
               A == available[b]
               l == Len(g.blocks[b])
    <2>1. m \in 1..n /\ m \in 1..Len(p) /\ m + 1 \in 1..Len(p)
        BY <1>1
    <2>2. b \in DOMAIN g.blocks /\ p[m + 1] \in g.succ[b]
        BY <1>1, <2>1
    <2>3. available[p[m + 1]] \subseteq Leaves(g, all, b, l, A)
        BY <2>2 DEF IsAvailable
    <2>4. l \in Nat /\ DOMAIN g.blocks[b] = 1..l
        BY <2>2, BlockTypes
    <2>5. \A d \in A : IsMade(g, p, m, 0, d)
        BY <1>3
    <2>6. l \in 0..Len(g.blocks[p[m]])
        BY <2>4
    <2> HIDE DEF A, m, l
    <2>7. \A d \in Leaves(g, all, p[m], l, A) : IsMade(g, p, m, l, d)
        BY <2>1, <2>5, <2>6, LeftIsMade
    <2>8. ASSUME NEW d, IsMade(g, p, m, l, d)
          PROVE  IsMade(g, p, m + 1, 0, d)
        <3>1. PICK x \in 1..m : \E y \in DOMAIN g.blocks[p[x]] :
                  (x < m \/ y <= l) /\ d \in CopyOf(g.blocks[p[x]][y])
            BY <2>8 DEF IsMade
        <3>2. x \in 1..(m + 1) /\ x < m + 1
            BY <2>1
        <3> QED BY <3>1, <3>2 DEF IsMade
    <2>9. \A d \in available[p[m + 1]] : IsMade(g, p, m + 1, 0, d)
        BY <2>3, <2>7, <2>8
    <2> QED BY <2>1, <2>9 DEF m
<1>4. T \in SUBSET Nat /\ n \in Nat
    BY <1>1
<1> HIDE DEF T
<1>5. 0..n \subseteq T
    <2> HIDE DEF n
    <2> QED BY <1>2, <1>3, <1>4, InductionTo
<1>6. k - 1 \in T /\ (k - 1) + 1 = k
    BY <1>1, <1>5
<1> QED
    BY <1>6 DEF T

LEMMA LeavesMade ==
    ASSUME NEW g, IsFunction(g), NEW all, NEW available, IsAvailable(g, all, available),
           NEW b \in DOMAIN g.blocks, NEW i \in 0..Len(g.blocks[b])
    PROVE  MadeAt(g, b, i, Leaves(g, all, b, i, available[b]))
<1> SUFFICES ASSUME NEW p, IsPath(g, p), NEW k \in 1..Len(p), p[k] = b,
                    NEW c \in Leaves(g, all, p[k], i, available[p[k]])
             PROVE  IsMade(g, p, k, i, c)
    BY DEF MadeAt
<1> DEFINE A == available[p[k]]
<1>1. \A d \in A : IsMade(g, p, k, 0, d)
    BY AvailableIsMade
<1>2. i \in 0..Len(g.blocks[p[k]])
    OBVIOUS
<1> HIDE DEF A
<1>3. \A d \in Leaves(g, all, p[k], i, A) : IsMade(g, p, k, i, d)
    BY <1>1, <1>2, LeftIsMade
<1> QED
    BY <1>3 DEF A

\* One statement of a run, and the end of a block.
LEMMA RunStep ==
    ASSUME NEW g, IsFunction(g), NEW p, IsPath(g, p), NEW k \in 1..Len(p)
    PROVE  /\ RunAt(g, p, k, 0) = Along(g, p, k - 1)
           /\ \A i \in 1..Len(g.blocks[p[k]]) :
                  RunAt(g, p, k, i) = StatementRun(g, RunAt(g, p, k, i - 1), g.blocks[p[k]], k, i)
           /\ RunAt(g, p, k, Len(g.blocks[p[k]])) = Along(g, p, k)
<1> DEFINE list == g.blocks[p[k]]
           r0 == Along(g, p, k - 1)
           R(i) == Through(g, r0, list, k, i)
<1>1. Len(list) \in Nat /\ Len(p) \in Nat
    BY PathTypes, BlockTypes
<1>2. \A i : RunAt(g, p, k, i) = R(i)
    BY DEF RunAt
<1>3. Along(g, p, k) = R(Len(list))
    BY <1>1, AlongStep DEF BlockRun
<1> HIDE DEF list, r0
<1>4. R(0) = r0
    BY <1>1, ThroughStart
<1>5. \A i \in 1..Len(list) : R(i) = StatementRun(g, R(i - 1), list, k, i)
    BY <1>1, ThroughStep
<1> HIDE DEF R
<1> QED
    BY <1>2, <1>3, <1>4, <1>5 DEF list, r0

\* The copies that a statement leaves were made on every path,
LEMMA StepMadeAt ==
    ASSUME NEW g, IsFunction(g), NEW all, NEW b \in DOMAIN g.blocks,
           NEW i \in 1..Len(g.blocks[b]), NEW C, MadeAt(g, b, i - 1, C)
    PROVE  MadeAt(g, b, i, Gen(g, C, g.blocks[b][i], all))
<1> SUFFICES ASSUME NEW p, IsPath(g, p), NEW k \in 1..Len(p), p[k] = b,
                    NEW c \in Gen(g, C, g.blocks[p[k]][i], all)
             PROVE  IsMade(g, p, k, i, c)
    BY DEF MadeAt
<1>1. \A d \in C : IsMade(g, p, k, i - 1, d)
    BY DEF MadeAt
<1>2. k \in Nat \ {0} /\ i \in Nat \ {0} /\ i \in DOMAIN g.blocks[p[k]]
      /\ \A j \in DOMAIN g.blocks[p[k]] : j \in Nat
    BY BlockTypes
<1> QED
    BY <1>1, <1>2, StepMade

\* and hold there.
LEMMA StepEqualAt ==
    ASSUME NEW g, IsFunction(g), NEW all, all \subseteq Pairs, NEW b \in DOMAIN g.blocks,
           NEW i \in 1..Len(g.blocks[b]), NEW C, C \subseteq all,
           MadeAt(g, b, i - 1, C), EqualAt(g, b, i - 1, C)
    PROVE  EqualAt(g, b, i, Gen(g, C, g.blocks[b][i], all))
<1> DEFINE s == g.blocks[b][i]
<1> SUFFICES ASSUME NEW p, IsPath(g, p), NEW k \in 1..Len(p), p[k] = b,
                    NEW c \in Gen(g, C, s, all)
             PROVE  Holds(RunAt(g, p, k, i), c)
    BY DEF EqualAt, IsEqual
<1> DEFINE run == RunAt(g, p, k, i - 1)
<1>1. \A d \in C : Holds(run, d)
    BY DEF EqualAt, IsEqual
<1>2. s \in AllStatements
    BY BlockTypes
<1>3. s.op = "index" => \A d \in C : s.result \notin {d[1], d[2]}
    BY NoneOfNewTemp
<1>4. RunAt(g, p, k, i) = After(g, run, s, k, i)
    BY RunStep DEF StatementRun
<1> HIDE DEF s, run
<1>5. \A d \in Gen(g, C, s, all) : Holds(After(g, run, s, k, i), d)
    BY <1>1, <1>2, <1>3, StepEqual
<1> QED
    BY <1>4, <1>5

\* What is left of copies that held still holds.
LEMMA LeftIsEqual ==
    ASSUME NEW g, IsFunction(g), NEW all, CopiesAre(g, all),
           NEW available, IsAvailable(g, all, available),
           NEW p, IsPath(g, p), NEW k \in 1..Len(p),
           \A c \in available[p[k]] : IsEqual(g, p, k, 0, c),
           NEW i \in 0..Len(g.blocks[p[k]]), NEW c \in Leaves(g, all, p[k], i, available[p[k]])
    PROVE  IsEqual(g, p, k, i, c)
<1> DEFINE b == p[k]
           n == Len(g.blocks[b])
           A == available[b]
           L(j) == Leaves(g, all, b, j, A)
           T == {j \in 0..n : \A d \in L(j) : IsEqual(g, p, k, j, d)}
<1>1. b \in DOMAIN g.blocks /\ k \in Nat \ {0}
    BY PathTypes
<1>2. n \in Nat /\ \A j \in 1..n : g.blocks[b][j] \in AllStatements
    BY <1>1, BlockTypes
<1>3. A \subseteq all /\ all \subseteq Pairs
    BY <1>1 DEF IsAvailable, CopiesAre
<1>4. \A j \in 0..n : L(j) \subseteq all
    BY <1>1, <1>3, ThroughInside DEF Leaves
<1>5. L(0) = A
    BY <1>2, GenThroughStep, KillThroughStep DEF Leaves
<1>6. 0 \in T
    BY <1>2, <1>5
<1>7. ASSUME NEW j \in 0..(n - 1), j \in T
      PROVE  j + 1 \in T
    <2> DEFINE m == j + 1
               s == g.blocks[b][m]
               r0 == RunAt(g, p, k, j)
    <2>1. m \in 1..n /\ m - 1 = j /\ j \in 0..n
        BY <1>2
    <2>2. L(m) \subseteq Gen(g, L(j), s, all)
        BY <1>1, <2>1, LeavesStep
    <2>3. \A d \in L(j) : Holds(r0, d)
        BY <1>7 DEF IsEqual
    <2>4. MadeAt(g, b, j, L(j))
        BY <1>1, <2>1, LeavesMade
    <2>5. s.op = "index" => \A d \in L(j) : s.result \notin {d[1], d[2]}
        <3> HIDE DEF L
        <3> QED BY <1>1, <2>1, <2>4, NoneOfNewTemp
    <2>6. RunAt(g, p, k, m) = After(g, r0, s, k, m)
        BY <2>1, RunStep DEF StatementRun
    <2>7. s \in AllStatements /\ L(j) \subseteq all
        BY <1>2, <1>4, <2>1
    <2> HIDE DEF s, r0, m
    <2> HIDE DEF L
    <2>8. \A d \in Gen(g, L(j), s, all) : Holds(After(g, r0, s, k, m), d)
        BY <1>3, <2>3, <2>5, <2>7, StepEqual
    <2>9. \A d \in L(m) : IsEqual(g, p, k, m, d)
        BY <2>2, <2>6, <2>8 DEF IsEqual
    <2> QED BY <1>2, <2>1, <2>9 DEF m
<1> HIDE DEF T
<1>8. T \in SUBSET Nat
    BY <1>2 DEF T
<1>9. 0..n \subseteq T
    <2> HIDE DEF n
    <2> QED BY <1>2, <1>6, <1>7, <1>8, InductionTo
<1> QED
    BY <1>9 DEF T

\* Available copies hold on every path.
LEMMA AvailableIsEqual ==
    ASSUME NEW g, IsFunction(g), NEW all, CopiesAre(g, all),
           NEW available, IsAvailable(g, all, available),
           NEW p, IsPath(g, p), NEW k \in 1..Len(p), NEW c \in available[p[k]]
    PROVE  IsEqual(g, p, k, 0, c)
<1> DEFINE n == Len(p) - 1
           T == {j \in 0..n : \A d \in available[p[j + 1]] : IsEqual(g, p, j + 1, 0, d)}
<1>1. /\ Len(p) \in Nat /\ Len(p) >= 1 /\ \A j \in 1..Len(p) : p[j] \in DOMAIN g.blocks
      /\ p[1] = 1 /\ \A j \in 1..n : p[j + 1] \in g.succ[p[j]]
    BY PathTypes DEF IsPath
<1>2. 0 \in T
    BY <1>1 DEF IsAvailable
<1>3. ASSUME NEW j \in 0..(n - 1), j \in T
      PROVE  j + 1 \in T
    <2> DEFINE m == j + 1
               b == p[m]
               l == Len(g.blocks[b])
    <2>1. m \in 1..n /\ m \in 1..Len(p) /\ m + 1 \in 1..Len(p) /\ (m + 1) - 1 = m
        BY <1>1
    <2>2. b \in DOMAIN g.blocks /\ p[m + 1] \in g.succ[b]
        BY <1>1, <2>1
    <2>3. available[p[m + 1]] \subseteq Leaves(g, all, b, l, available[b])
        BY <2>2 DEF IsAvailable
    <2>4. l \in 0..Len(g.blocks[p[m]])
        BY <2>2, BlockTypes
    <2>5. \A d \in available[p[m]] : IsEqual(g, p, m, 0, d)
        BY <1>3
    <2>6. RunAt(g, p, m, l) = RunAt(g, p, m + 1, 0)
        BY <2>1, RunStep
    <2> HIDE DEF m, l
    <2>7. \A d \in Leaves(g, all, p[m], l, available[p[m]]) : IsEqual(g, p, m, l, d)
        BY <2>1, <2>4, <2>5, LeftIsEqual
    <2>8. \A d \in available[p[m + 1]] : IsEqual(g, p, m + 1, 0, d)
        BY <2>3, <2>6, <2>7 DEF IsEqual
    <2> QED BY <2>1, <2>8 DEF m
<1>4. T \in SUBSET Nat /\ n \in Nat
    BY <1>1
<1> HIDE DEF T
<1>5. 0..n \subseteq T
    <2> HIDE DEF n
    <2> QED BY <1>2, <1>3, <1>4, InductionTo
<1>6. k - 1 \in T /\ (k - 1) + 1 = k
    BY <1>1, <1>5
<1> QED
    BY <1>6 DEF T

-----------------------------------------------------------------------------
(* A statement is rewritten.                                               *)

\* The symbols that each symbol is copied from.
CopiedFrom(gen) == [x \in Symbols |-> {c[2] : c \in {d \in gen : d[1] = x}}]

LEMMA ReplacementsAre ==
    ASSUME NEW gen, gen \subseteq Pairs, NEW y \in Symbols, NEW S,
           CopiedFrom(gen)[y] \subseteq S, \A x \in S : CopiedFrom(gen)[x] \subseteq S,
           NEW z \in Replacements(gen, y)
    PROVE  z = y \/ z \in S
<1> DEFINE next == CopiedFrom(gen)
<1>1. z \in IF next[y] = {} THEN {y} ELSE Reach(next, next[y], Cardinality(Symbols))
    BY DEF Replacements, CopiedFrom
<1>2. Cardinality(Symbols) \in Nat
    BY SymbolsFinite, FS_CardinalityType
<1> HIDE DEF next
<1>3. next[y] \subseteq S /\ \A x \in S : next[x] \subseteq S
    BY DEF next
<1>4. Reach(next, next[y], Cardinality(Symbols)) \subseteq S
    BY <1>2, <1>3, ReachStaysInside
<1> QED
    BY <1>1, <1>4

LEMMA CopiedFromIs ==
    ASSUME NEW gen, gen \subseteq Pairs, NEW x \in Symbols, NEW z
    PROVE  z \in CopiedFrom(gen)[x] <=> \E c \in gen : c[1] = x /\ c[2] = z
BY DEF CopiedFrom

\* A replacement is the symbol itself or what some copy copies.
LEMMA ReplacementIsCopied ==
    ASSUME NEW gen, gen \subseteq Pairs, NEW y \in Symbols, NEW z \in Replacements(gen, y)
    PROVE  z \in Symbols /\ (z = y \/ \E c \in gen : c[2] = z)
<1> DEFINE S == {x \in Symbols : \E c \in gen : c[2] = x}
<1>1. \A x \in Symbols : CopiedFrom(gen)[x] \subseteq S
    BY CopiedFromIs DEF Pairs
<1>2. \A x \in S : CopiedFrom(gen)[x] \subseteq S
    BY <1>1
<1>3. CopiedFrom(gen)[y] \subseteq S
    BY <1>1
<1> HIDE DEF S
<1>4. z = y \/ z \in S
    BY <1>2, <1>3, ReplacementsAre
<1> QED
    BY <1>4 DEF S

\* The copies after a statement are copies.
LEMMA GenTypes ==
    ASSUME NEW g, NEW s \in AllStatements, NEW all, NEW C, C \subseteq Pairs
    PROVE  Gen(g, C, s, all) \subseteq Pairs
BY StatementTypes DEF Gen

ReadBy(s) == {s.reads[j] : j \in 1..Len(s.reads)}

Same(run, x, y) == run.values[x] = run.values[y]

\* A replacement has the value of what it replaces.  The copy that the statement
\* itself is does not matter: its result is part of no other copy that is left.
LEMMA ReplacementIsEqual ==
    ASSUME NEW g, NEW s \in AllStatements, s.op # "index", NEW all, NEW C, C \subseteq Pairs,
           C \subseteq all, NEW run, \A c \in C : Holds(run, c),
           NEW y \in ReadBy(s), NEW z \in Replacements(Gen(g, C, s, all), y)
    PROVE  Same(run, z, y)
<1> DEFINE gen == Gen(g, C, s, all)
           S == {x \in Symbols : /\ run.values[x] = run.values[y]
                                 /\ s.op = "copy" /\ x = s.result => y = x}
<1>1. y \in Symbols /\ (s.op = "copy" => y = s.reads[1])
    BY StatementTypes, ElementOfSeq, LenProperties DEF ReadBy
<1>2. gen \subseteq Pairs
    BY GenTypes
<1>3. ASSUME NEW c \in gen, c[1] \in S
      PROVE  c[2] \in S
    <2>1. c[1] \in Symbols /\ c[2] \in Symbols
        BY <1>2 DEF Pairs
    <2>2. CASE c \in C /\ c \notin Kills(g, s, all)
        <3>1. run.values[c[1]] = run.values[c[2]]
            BY <2>2 DEF Holds
        <3>2. c[2] # s.result
            BY <2>2 DEF Kills
        <3> QED BY <1>3, <2>1, <3>1, <3>2
    <2>3. CASE c \in CopyOf(s)
        <3>1. s.op = "copy" /\ c = <<s.result, s.reads[1]>>
            BY <2>3 DEF CopyOf
        <3> QED BY <1>1, <1>3, <2>1, <3>1
    <2> QED BY <2>2, <2>3 DEF Gen
<1>4. y \in S
    BY <1>1
<1>5. S \subseteq Symbols /\ \A x \in S : run.values[x] = run.values[y]
    OBVIOUS
<1> HIDE DEF S, gen
<1>6. \A x \in S : CopiedFrom(gen)[x] \subseteq S
    BY <1>2, <1>3, <1>5, CopiedFromIs
<1>7. z \in Replacements(gen, y)
    BY DEF gen
<1>8. z = y \/ z \in S
    BY <1>1, <1>2, <1>4, <1>6, <1>7, ReplacementsAre
<1> QED
    BY <1>5, <1>8 DEF Same

\* Only the symbols that are read differ.
LEMMA RewrittenIs ==
    ASSUME NEW s \in AllStatements, NEW gen, gen \subseteq Pairs, NEW t \in Rewritten(s, gen)
    PROVE  /\ t \in AllStatements /\ t.op = s.op /\ t.result = s.result
           /\ Len(t.reads) = Len(s.reads) /\ Len(s.reads) \in Nat
           /\ \A j \in 1..Len(s.reads) : t.reads[j] \in Replacements(gen, s.reads[j])
<1>1. PICK reads \in [DOMAIN s.reads -> Symbols] :
          /\ t = [s EXCEPT !.reads = reads]
          /\ \A i \in DOMAIN reads : reads[i] \in Replacements(gen, s.reads[i])
    BY DEF Rewritten
<1>2. /\ s.reads \in Seq(Symbols) /\ Len(s.reads) \in Nat
      /\ DOMAIN s.reads = 1..Len(s.reads)
    BY StatementTypes, LenProperties
<1>3. reads \in Seq(Symbols) /\ Len(reads) = Len(s.reads)
    BY <1>2
<1>4. s \in [op : {"copy", "assign", "call", "index", "use"},
             result : Symbols \cup {None}, reads : Seq(Symbols)]
      /\ (s.op = "copy" => s.result \in Symbols /\ Len(s.reads) = 1)
    BY DEF AllStatements
<1>5. t.op = s.op /\ t.result = s.result /\ t.reads = reads
    BY <1>1, <1>4
<1>6. t \in [op : {"copy", "assign", "call", "index", "use"},
             result : Symbols \cup {None}, reads : Seq(Symbols)]
    BY <1>1, <1>3, <1>4
<1>7. t \in AllStatements
    BY <1>3, <1>4, <1>5, <1>6 DEF AllStatements
<1> QED
    BY <1>1, <1>2, <1>3, <1>5, <1>7

\* The rewritten statement does the same.
LEMMA RewrittenDoesTheSame ==
    ASSUME NEW g, NEW s \in AllStatements, s.op # "index", NEW all, NEW C, C \subseteq Pairs,
           C \subseteq all, NEW run, \A c \in C : Holds(run, c),
           NEW t \in Rewritten(s, Gen(g, C, s, all)), NEW k, NEW i
    PROVE  After(g, run, t, k, i) = After(g, run, s, k, i)
<1> DEFINE gen == Gen(g, C, s, all)
<1>1. gen \subseteq Pairs
    BY GenTypes
<1>2. t \in Rewritten(s, gen)
    OBVIOUS
<1>3. \A y \in ReadBy(s) : \A z \in Replacements(gen, y) : Same(run, z, y)
    BY ReplacementIsEqual
<1> HIDE DEF gen
<1>4. /\ t \in AllStatements /\ t.op = s.op /\ t.result = s.result
      /\ Len(t.reads) = Len(s.reads) /\ Len(s.reads) \in Nat
      /\ \A j \in 1..Len(s.reads) : t.reads[j] \in Replacements(gen, s.reads[j])
    BY <1>1, <1>2, RewrittenIs
<1>5. \A j \in 1..Len(s.reads) : run.values[t.reads[j]] = run.values[s.reads[j]]
    BY <1>3, <1>4 DEF ReadBy, Same
<1>6. DOMAIN t.reads = 1..Len(s.reads) /\ DOMAIN s.reads = 1..Len(s.reads)
    BY <1>4, StatementTypes, LenProperties
<1>7. [j \in DOMAIN t.reads |-> run.values[t.reads[j]]]
      = [j \in DOMAIN s.reads |-> run.values[s.reads[j]]]
    BY <1>5, <1>6
<1>8. s.op = "copy" => run.values[t.reads[1]] = run.values[s.reads[1]]
    BY <1>5, StatementTypes
<1>9. Assigned(g, t) = Assigned(g, s)
    BY <1>4 DEF Assigned
<1>10. \A x : NewValue(run, t, k, i, x) = NewValue(run, s, k, i, x)
    BY <1>4, <1>8 DEF NewValue
<1>11. \A r : After(g, run, r, k, i) =
          [values |-> [v \in Symbols |-> IF v \in Assigned(g, r) THEN NewValue(run, r, k, i, v)
                                         ELSE run.values[v]],
           read |-> run.read \o [j \in DOMAIN r.reads |-> run.values[r.reads[j]]]]
    BY DEF After, Assigned, NewValue
<1> QED
    BY <1>7, <1>9, <1>10, <1>11

\* The function with statement i of block b replaced by t.
Edited(g, b, i, t) ==
    [blocks |-> [g.blocks EXCEPT ![b][i] = t], succ |-> g.succ, globals |-> g.globals]

LEMMA EditedIs ==
    ASSUME NEW g, IsFunction(g), NEW b \in DOMAIN g.blocks, NEW i \in 1..Len(g.blocks[b]),
           NEW t \in AllStatements
    PROVE  LET h == Edited(g, b, i, t) IN
           /\ h.succ = g.succ /\ h.globals = g.globals
           /\ h.blocks \in Seq(Seq(AllStatements)) /\ Len(h.blocks) = Len(g.blocks)
           /\ DOMAIN h.blocks = DOMAIN g.blocks
           /\ \A c \in DOMAIN g.blocks : Len(h.blocks[c]) = Len(g.blocks[c])
           /\ \A c \in DOMAIN g.blocks : DOMAIN h.blocks[c] = DOMAIN g.blocks[c]
           /\ \A c \in DOMAIN g.blocks : \A j \in 1..Len(g.blocks[c]) :
                  h.blocks[c][j] = IF c = b /\ j = i THEN t ELSE g.blocks[c][j]
<1> DEFINE new == [g.blocks[b] EXCEPT ![i] = t]
           blocks == [g.blocks EXCEPT ![b] = new]
<1>1. Edited(g, b, i, t).blocks = blocks
    BY DEF Edited
<1>2. g.blocks \in Seq(Seq(AllStatements)) /\ g.blocks[b] \in Seq(AllStatements)
      /\ i \in DOMAIN g.blocks[b]
    BY BlockTypes DEF IsFunction
<1>3. /\ new \in Seq(AllStatements) /\ Len(new) = Len(g.blocks[b])
      /\ DOMAIN new = DOMAIN g.blocks[b]
      /\ \A j \in DOMAIN g.blocks[b] : new[j] = IF j = i THEN t ELSE g.blocks[b][j]
    BY <1>2, ExceptSeq
<1> HIDE DEF new
<1>4. /\ blocks \in Seq(Seq(AllStatements)) /\ Len(blocks) = Len(g.blocks)
      /\ \A c \in DOMAIN g.blocks : blocks[c] = IF c = b THEN new ELSE g.blocks[c]
      /\ DOMAIN blocks = DOMAIN g.blocks
    BY <1>2, <1>3, ExceptSeq
<1> HIDE DEF blocks
<1>5. \A c \in DOMAIN g.blocks : DOMAIN g.blocks[c] = 1..Len(g.blocks[c])
    BY BlockTypes
<1>6. \A c \in DOMAIN g.blocks : Len(blocks[c]) = Len(g.blocks[c]) /\ DOMAIN blocks[c] = DOMAIN g.blocks[c]
    BY <1>3, <1>4
<1>7. \A c \in DOMAIN g.blocks : \A j \in 1..Len(g.blocks[c]) :
          blocks[c][j] = IF c = b /\ j = i THEN t ELSE g.blocks[c][j]
    BY <1>3, <1>4, <1>5
<1>8. Edited(g, b, i, t).succ = g.succ /\ Edited(g, b, i, t).globals = g.globals
    BY DEF Edited
<1> QED
    BY <1>1, <1>4, <1>6, <1>7, <1>8

\* Statement i of block b may be rewritten to t: copies C are available before it.
IsRewriting(g, all, C, b, i, t) ==
    /\ b \in DOMAIN g.blocks /\ i \in 1..Len(g.blocks[b]) /\ g.blocks[b][i].op # "index"
    /\ C \subseteq Pairs /\ C \subseteq all
    /\ MadeAt(g, b, i - 1, C) /\ EqualAt(g, b, i - 1, C)
    /\ t \in Rewritten(g.blocks[b][i], Gen(g, C, g.blocks[b][i], all))

\* The results of indexes are still new: what replaces a symbol was part of the
\* statement or of a copy that the path has made before.
LEMMA EditedIsFunction ==
    ASSUME NEW g, IsFunction(g), NEW all, NEW C, NEW b, NEW i, NEW t,
           IsRewriting(g, all, C, b, i, t)
    PROVE  IsFunction(Edited(g, b, i, t))
<1> DEFINE s == g.blocks[b][i]
<1>0. /\ b \in DOMAIN g.blocks /\ i \in 1..Len(g.blocks[b]) /\ s.op # "index"
      /\ C \subseteq Pairs /\ MadeAt(g, b, i - 1, C) /\ t \in Rewritten(s, Gen(g, C, s, all))
    BY DEF IsRewriting
<1> USE <1>0
<1> DEFINE gen == Gen(g, C, s, all)
           h == Edited(g, b, i, t)
           n == Len(g.blocks)
<1>1. s \in AllStatements
    BY BlockTypes
<1>2. gen \subseteq Pairs
    BY <1>1, GenTypes
<1>3. /\ t \in AllStatements /\ t.op = s.op /\ t.result = s.result
      /\ \A j \in 1..Len(s.reads) : t.reads[j] \in Replacements(gen, s.reads[j])
    <2> HIDE DEF gen
    <2>1. t \in Rewritten(s, gen)
        BY DEF gen
    <2> QED BY <1>1, <1>2, <2>1, RewrittenIs
<1>4. /\ h.succ = g.succ /\ h.globals = g.globals
      /\ h.blocks \in Seq(Seq(AllStatements)) /\ Len(h.blocks) = n
      /\ DOMAIN h.blocks = DOMAIN g.blocks
      /\ \A c \in DOMAIN g.blocks : DOMAIN h.blocks[c] = DOMAIN g.blocks[c]
      /\ \A c \in DOMAIN g.blocks : \A j \in 1..Len(g.blocks[c]) :
             h.blocks[c][j] = IF c = b /\ j = i THEN t ELSE g.blocks[c][j]
    BY <1>3, EditedIs
<1>5. h \in [blocks : Seq(Seq(AllStatements)), succ : Seq(SUBSET Nat), globals : SUBSET Symbols]
      /\ Len(h.blocks) >= 1 /\ h.succ \in [DOMAIN h.blocks -> SUBSET DOMAIN h.blocks]
    <2>1. g.succ \in Seq(SUBSET Nat) /\ g.globals \in SUBSET Symbols /\ n >= 1
          /\ g.succ \in [DOMAIN g.blocks -> SUBSET DOMAIN g.blocks]
        BY DEF IsFunction
    <2>2. h = [blocks |-> h.blocks, succ |-> h.succ, globals |-> h.globals]
        BY DEF Edited
    <2> HIDE DEF h
    <2> QED BY <1>4, <2>1, <2>2
<1> HIDE DEF h, gen
<1>6. NewTemps(h)
    <2> SUFFICES ASSUME NEW c \in Reach(g.succ, {1}, n), NEW j \in DOMAIN h.blocks[c],
                        h.blocks[c][j].op = "index"
                 PROVE  \E p \in Paths(g.succ, n) :
                            Last(p) = c /\ CopyFree(h.blocks, p, j, h.blocks[c][j].result)
        BY <1>4 DEF NewTemps
    <2>1. c \in DOMAIN g.blocks
        <3>1. n \in Nat /\ n >= 1 /\ DOMAIN g.blocks = 1..n /\ g.succ \in [1..n -> SUBSET (1..n)]
            BY LenProperties DEF IsFunction
        <3> HIDE DEF n
        <3>2. IsFiniteSet(1..n) /\ Cardinality(1..n) = n
            BY ONLY <3>1, FS_Interval
        <3>3. {1} \in SUBSET (1..n)
            BY <3>1
        <3>4. c \in 1..n
            BY <3>1, <3>2, <3>3, ReachIsClosed
        <3> QED BY <3>1, <3>4
    <2>2. j \in DOMAIN g.blocks[c] /\ j \in 1..Len(g.blocks[c])
        BY <1>4, <2>1, BlockTypes
    <2>3. h.blocks[c][j] = g.blocks[c][j]
        BY <1>3, <1>4, <2>1, <2>2
    <2> DEFINE r == g.blocks[c][j].result
    <2>4. PICK p \in Paths(g.succ, n) : Last(p) = c /\ CopyFree(g.blocks, p, j, r)
        BY <2>2, <2>3 DEF IsFunction, NewTemps
    <2>5. IsPath(g, p)
        BY PathsArePaths, LenProperties DEF IsFunction
    <2>6. DOMAIN p = 1..Len(p) /\ Len(p) \in Nat /\ \A k \in 1..Len(p) : p[k] \in DOMAIN g.blocks
        BY <2>5, PathTypes, LenProperties DEF IsPath
    <2> HIDE DEF r
    <2>7. ASSUME NEW k \in DOMAIN p, NEW m \in DOMAIN g.blocks[p[k]], k < Len(p) \/ m < j,
                 NEW d \in CopyOf(h.blocks[p[k]][m])
          PROVE  r \notin {d[1], d[2]}
        <3>1. p[k] \in DOMAIN g.blocks /\ m \in 1..Len(g.blocks[p[k]]) /\ m \in Nat
            BY <2>6, <2>7, BlockTypes
        <3>2. CASE ~(p[k] = b /\ m = i)
            <4>1. h.blocks[p[k]][m] = g.blocks[p[k]][m]
                BY <1>4, <3>1, <3>2
            <4> QED BY <2>4, <2>7, <4>1 DEF CopyFree
        <3>3. CASE p[k] = b /\ m = i
            <4>1. h.blocks[p[k]][m] = t
                BY <1>4, <3>1, <3>3
            <4>2. t.op = "copy" /\ d = <<t.result, t.reads[1]>>
                BY <2>7, <4>1 DEF CopyOf
            <4> DEFINE y == s.reads[1]
                       z == t.reads[1]
            <4>3. s.op = "copy" /\ y \in Symbols /\ 1 \in 1..Len(s.reads) /\ <<s.result, y>> \in CopyOf(s)
                <5>1. s.op = "copy"
                    BY <1>3, <4>2
                <5>2. y \in Symbols /\ Len(s.reads) = 1
                    BY <1>1, <5>1, StatementTypes
                <5>3. CopyOf(s) = {<<s.result, y>>}
                    BY <5>1 DEF CopyOf
                <5> QED BY <5>1, <5>2, <5>3
            <4>4. r # s.result /\ r # y
                <5>1. \A e \in CopyOf(g.blocks[p[k]][m]) : r \notin {e[1], e[2]}
                    BY <2>4, <2>7 DEF CopyFree
                <5> QED BY <3>3, <4>3, <5>1
            <4>5. z \in Replacements(gen, y)
                BY <1>3, <4>3
            <4> HIDE DEF y, z
            <4>6. z = y \/ \E e \in gen : e[2] = z
                BY <1>2, <4>3, <4>5, ReplacementIsCopied
            <4>7. ASSUME NEW e \in gen
                  PROVE  r # e[2]
                <5>1. CASE e \in CopyOf(s)
                    <6>1. e[2] = y
                        BY <5>1 DEF CopyOf, y
                    <6> QED BY <4>4, <6>1
                <5>2. CASE e \in C
                    <6>1. IsMade(g, p, k, i - 1, e)
                        BY <2>5, <2>6, <3>3, <5>2 DEF MadeAt
                    <6>2. PICK a \in 1..k : \E q \in DOMAIN g.blocks[p[a]] :
                              (a < k \/ q <= i - 1) /\ e \in CopyOf(g.blocks[p[a]][q])
                        BY <6>1 DEF IsMade
                    <6>3. PICK q \in DOMAIN g.blocks[p[a]] :
                              (a < k \/ q <= i - 1) /\ e \in CopyOf(g.blocks[p[a]][q])
                        BY <6>2
                    <6>4. a \in DOMAIN p /\ p[a] \in DOMAIN g.blocks
                        BY <2>6
                    <6>5. q \in Nat /\ j \in Nat
                        BY <6>4, <2>2, BlockTypes
                    <6>6. a < Len(p) \/ q < j
                        BY <2>6, <2>7, <3>1, <3>3, <6>3, <6>5
                    <6> QED BY <2>4, <6>3, <6>4, <6>6 DEF CopyFree
                <5> QED BY <5>1, <5>2 DEF Gen, gen
            <4>8. r # z
                BY <4>4, <4>6, <4>7
            <4> QED BY <1>3, <4>2, <4>4, <4>8 DEF z
        <3> QED BY <3>2, <3>3
    <2>8. \A k \in DOMAIN p : DOMAIN h.blocks[p[k]] = DOMAIN g.blocks[p[k]]
        BY <1>4, <2>6
    <2>9. CopyFree(h.blocks, p, j, r)
        BY <2>7, <2>8 DEF CopyFree
    <2> QED BY <2>3, <2>4, <2>9 DEF r
<1>7. IsFunction(h)
    BY <1>5, <1>6 DEF IsFunction
<1> QED
    BY <1>7 DEF h

\* The values along a path stay the same, block by block.
LEMMA EditedBlockRun ==
    ASSUME NEW g, IsFunction(g), NEW all, NEW C, NEW b, NEW i, NEW t,
           IsRewriting(g, all, C, b, i, t),
           NEW p, IsPath(g, p), NEW k \in 1..Len(p)
    PROVE  LET r0 == Along(g, p, k - 1) IN
           BlockRun(Edited(g, b, i, t), r0, p, k) = BlockRun(g, r0, p, k)
<1> DEFINE s == g.blocks[b][i]
<1>0. /\ b \in DOMAIN g.blocks /\ i \in 1..Len(g.blocks[b]) /\ s.op # "index"
      /\ C \subseteq Pairs /\ C \subseteq all /\ EqualAt(g, b, i - 1, C)
      /\ t \in Rewritten(s, Gen(g, C, s, all))
    BY DEF IsRewriting
<1> USE <1>0
<1> DEFINE h == Edited(g, b, i, t)
           r0 == Along(g, p, k - 1)
           from == g.blocks[p[k]]
           to == h.blocks[p[k]]
           l == Len(from)
           R(j) == Through(g, r0, from, k, j)
           Q(j) == Through(h, r0, to, k, j)
           T == {j \in 0..l : Q(j) = R(j)}
<1>1. s \in AllStatements
    BY BlockTypes
<1>2. t \in AllStatements
    BY <1>1, GenTypes, RewrittenIs
<1>3. p[k] \in DOMAIN g.blocks
    BY PathTypes
<1>4. l \in Nat
    BY <1>3, BlockTypes
<1>5. /\ h.globals = g.globals /\ Len(to) = l
      /\ \A j \in 1..l : to[j] = IF p[k] = b /\ j = i THEN t ELSE from[j]
    <2>1. /\ h.globals = g.globals
          /\ \A c \in DOMAIN g.blocks : Len(h.blocks[c]) = Len(g.blocks[c])
          /\ \A c \in DOMAIN g.blocks : \A j \in 1..Len(g.blocks[c]) :
                 h.blocks[c][j] = IF c = b /\ j = i THEN t ELSE g.blocks[c][j]
        BY <1>2, EditedIs
    <2> HIDE DEF h
    <2> QED BY <1>3, <2>1
<1>6. \A j : R(j) = RunAt(g, p, k, j)
    BY DEF RunAt
<1>7. \A x, y, z, j : After(h, x, y, z, j) = After(g, x, y, z, j)
    BY <1>5 DEF After
<1>8. p[k] = b => from[i] = s /\ i \in 1..l
    OBVIOUS
<1> HIDE DEF h, from, to, l, r0
<1>9. R(0) = r0 /\ Q(0) = r0
    <2>1. Len(from) \in Nat /\ Len(to) \in Nat
        BY <1>4, <1>5 DEF l
    <2> QED BY <2>1, ThroughStart
<1>10. ASSUME NEW j \in 1..l
       PROVE  /\ R(j) = StatementRun(g, R(j - 1), from, k, j)
              /\ Q(j) = StatementRun(h, Q(j - 1), to, k, j)
    <2>1. Len(from) \in Nat /\ Len(to) \in Nat /\ j \in 1..Len(from) /\ j \in 1..Len(to)
        BY <1>4, <1>5 DEF l
    <2> QED BY <2>1, ThroughStep
<1> HIDE DEF R, Q
<1>11. 0 \in T
    BY <1>4, <1>9
<1>12. ASSUME NEW j \in 0..(l - 1), j \in T
       PROVE  j + 1 \in T
    <2> DEFINE m == j + 1
               run == R(j)
    <2>1. m \in 1..l /\ m - 1 = j
        BY <1>4
    <2>2. R(m) = After(g, run, from[m], k, m) /\ Q(m) = After(g, run, to[m], k, m)
        <3>1. R(m) = StatementRun(g, run, from, k, m)
            BY <1>10, <2>1
        <3>2. Q(m) = StatementRun(h, run, to, k, m)
            BY <1>10, <1>12, <2>1
        <3> HIDE DEF m, run
        <3> QED BY <1>7, <3>1, <3>2 DEF StatementRun
    <2>3. CASE ~(p[k] = b /\ m = i)
        BY <1>4, <1>5, <2>1, <2>2, <2>3
    <2>4. CASE p[k] = b /\ m = i
        <3>1. from[m] = s /\ to[m] = t
            BY <1>5, <1>8, <2>1, <2>4
        <3>2. \A c \in C : Holds(run, c)
            <4>1. i - 1 = j
                BY <2>1, <2>4
            <4>2. \A c \in C : Holds(RunAt(g, p, k, j), c)
                BY <2>4, <4>1 DEF EqualAt, IsEqual
            <4> QED BY <1>6, <4>2
        <3> HIDE DEF run, m
        <3>3. After(g, run, t, k, m) = After(g, run, s, k, m)
            BY <1>1, <3>2, RewrittenDoesTheSame
        <3>4. Q(m) = R(m)
            BY <2>2, <3>1, <3>3
        <3> QED BY <1>4, <2>1, <3>4 DEF m
    <2> QED BY <2>3, <2>4
<1> HIDE DEF T
<1>13. T \in SUBSET Nat
    BY <1>4 DEF T
<1>14. l \in T
    <2>1. 0..l \subseteq T
        BY <1>4, <1>11, <1>12, <1>13, InductionTo
    <2> QED BY <1>4, <2>1
<1>15. Q(l) = R(l)
    BY <1>14 DEF T
<1> QED
    BY <1>5, <1>15 DEF BlockRun, Q, R, l, from, to, h, r0

LEMMA EditedRuns ==
    ASSUME NEW g, IsFunction(g), NEW all, NEW C, NEW b, NEW i, NEW t,
           IsRewriting(g, all, C, b, i, t),
           NEW p, IsPath(g, p), NEW n \in 0..Len(p)
    PROVE  Along(Edited(g, b, i, t), p, n) = Along(g, p, n)
<1> DEFINE h == Edited(g, b, i, t)
           l == Len(p)
           R(k) == Along(g, p, k)
           Q(k) == Along(h, p, k)
           T == {k \in 0..l : Q(k) = R(k)}
<1>1. l \in Nat
    BY PathTypes
<1>2. R(0) = AtStart /\ Q(0) = AtStart
    BY <1>1, AlongStep
<1>3. \A k \in 1..l : R(k) = BlockRun(g, R(k - 1), p, k) /\ Q(k) = BlockRun(h, Q(k - 1), p, k)
    BY <1>1, AlongStep
<1>4. \A k \in 1..l : BlockRun(h, R(k - 1), p, k) = BlockRun(g, R(k - 1), p, k)
    BY EditedBlockRun
<1> HIDE DEF h, l, R, Q
<1>5. 0 \in T
    BY <1>1, <1>2
<1>6. ASSUME NEW k \in 0..(l - 1), k \in T
      PROVE  k + 1 \in T
    <2>1. k + 1 \in 1..l /\ (k + 1) - 1 = k
        BY <1>1
    <2>2. Q(k) = R(k)
        BY <1>6
    <2>3. Q(k + 1) = R(k + 1)
        BY <1>3, <1>4, <2>1, <2>2
    <2> QED BY <1>1, <2>1, <2>3
<1> HIDE DEF T
<1>7. T \in SUBSET Nat
    BY <1>1 DEF T
<1>8. 0..l \subseteq T
    BY <1>1, <1>5, <1>6, <1>7, InductionTo
<1> QED
    BY <1>8 DEF T, Q, R, h, l

-----------------------------------------------------------------------------
(* The invariant.                                                          *)

Shape ==
    /\ program \in Programs /\ IsFunction(Current) /\ Len(code) = Len(program.blocks)
    /\ phase \in {"start", "analyse", "propagate", "done"} /\ changed \in BOOLEAN
    /\ passes \in 1..MaxPasses /\ addr = [b \in Blocks |-> <<passes, b>>]
    /\ phase = "analyse" => block \in 1..(Len(code) + 1)
    /\ phase = "propagate" => block \in Blocks /\ at \in 1..(Len(code[block]) + 1)

Maps ==
    /\ universe \subseteq Pairs
    /\ deCopies \in [Addresses -> SUBSET universe]
    /\ copyKill \in [Addresses -> SUBSET universe]
    /\ availIn \in [Addresses -> SUBSET universe]

\* The addresses of later passes have not been used.
Unused ==
    \A a \in Addresses :
        a[1] > passes \/ (a[1] = passes /\ phase = "start") => deCopies[a] = {} /\ copyKill[a] = {}

Universal == phase \in {"analyse", "propagate"} => CopiesAre(Current, universe)

\* The sets of each block are those of its own statements.
OwnSets ==
    phase = "analyse" =>
        /\ \A b \in Blocks :
              /\ deCopies[addr[b]] = GenThrough(Current, {}, code[b], universe, Len(code[b]))
              /\ copyKill[addr[b]] = KillThrough(Current, {}, code[b], universe, Len(code[b]))
        /\ availIn[addr[1]] = {}

Leaving(p) == deCopies[addr[p]] \cup (availIn[addr[p]] \ copyKill[addr[p]])

\* While a pass has changed nothing, the blocks it visited have no more than their
\* predecessors leave.
VisitedAgree ==
    phase = "analyse" /\ ~changed =>
        \A b \in Blocks : b < block => \A p \in Predecessors(b) : availIn[addr[b]] \subseteq Leaving(p)

\* Until a statement is rewritten, what is available was made and holds.
AvailableSound ==
    phase = "propagate" /\ ~changed =>
        /\ \A b \in Blocks : /\ MadeAt(Current, b, 0, availIn[addr[b]])
                             /\ EqualAt(Current, b, 0, availIn[addr[b]])
        /\ MadeAt(Current, block, at - 1, deCopies[addr[block]])
        /\ EqualAt(Current, block, at - 1, deCopies[addr[block]])

FirstUnchanged == phase = "propagate" /\ block = 1 /\ at = 1 => ~changed

\* Along every path the symbols have the values they had at first.
SameRuns ==
    \A p : IsPath(program, p) => \A n \in 0..Len(p) : Along(Current, p, n) = Along(program, p, n)

CopyInv ==
    /\ Shape /\ Maps /\ Unused /\ Universal /\ OwnSets
    /\ VisitedAgree /\ AvailableSound /\ FirstUnchanged /\ SameRuns

LEMMA CurrentIs ==
    /\ Current.blocks = code /\ Current.succ = program.succ /\ Current.globals = program.globals
    /\ DOMAIN Current.blocks = Blocks
BY DEF Current, Blocks

LEMMA ShapeFacts ==
    ASSUME Shape
    PROVE  /\ Len(code) \in Nat /\ Len(code) >= 1 /\ Blocks = 1..Len(code) /\ 1 \in Blocks
           /\ code \in Seq(Seq(AllStatements)) /\ DOMAIN code = Blocks
           /\ \A b \in Blocks : /\ code[b] \in Seq(AllStatements) /\ Len(code[b]) \in Nat
                                /\ DOMAIN code[b] = 1..Len(code[b])
                                /\ \A i \in 1..Len(code[b]) : code[b][i] \in AllStatements
           /\ program.succ \in [Blocks -> SUBSET Blocks]
           /\ passes \in Nat /\ MaxPasses \in Nat
           /\ \A b \in Blocks : addr[b] = <<passes, b>> /\ addr[b] \in Addresses
           /\ \A b, c \in Blocks : addr[b] = addr[c] => b = c
           /\ \A a \in Addresses : (\A b \in Blocks : a # addr[b]) <=> a[1] # passes
<1>1. code \in Seq(Seq(AllStatements)) /\ Len(code) >= 1 /\ program.succ \in [Blocks -> SUBSET Blocks]
    BY CurrentIs DEF Shape, IsFunction
<1>2. Len(code) \in Nat /\ DOMAIN code = 1..Len(code)
    BY <1>1, LenProperties
<1>3. Blocks = 1..Len(code) /\ 1 \in Blocks /\ DOMAIN code = Blocks
    BY <1>1, <1>2 DEF Blocks
<1>4. \A b \in Blocks : /\ code[b] \in Seq(AllStatements) /\ Len(code[b]) \in Nat
                        /\ DOMAIN code[b] = 1..Len(code[b])
                        /\ \A i \in 1..Len(code[b]) : code[b][i] \in AllStatements
    BY CurrentIs, BlockTypes DEF Shape
<1>5. MaxPasses \in Nat /\ passes \in Nat /\ passes \in 1..MaxPasses
    BY MaxPassesPositive DEF Shape
<1>6. \A b \in Blocks : addr[b] = <<passes, b>>
    BY DEF Shape
<1>7. \A b \in Blocks : addr[b] \in Addresses
    BY <1>5, <1>6 DEF Addresses
<1>8. \A b, c \in Blocks : addr[b] = addr[c] => b = c
    BY <1>6
<1>9. ASSUME NEW a \in Addresses
      PROVE  (\A b \in Blocks : a # addr[b]) <=> a[1] # passes
    <2>1. PICK q \in 1..MaxPasses : \E c \in Blocks : a = <<q, c>>
        BY DEF Addresses
    <2>2. PICK c \in Blocks : a = <<q, c>>
        BY <2>1
    <2> QED BY <1>6, <2>2
<1> QED
    BY <1>1, <1>2, <1>3, <1>4, <1>5, <1>6, <1>7, <1>8, <1>9

LEMMA ProgramBlocks ==
    ASSUME Shape
    PROVE  IsFunction(program) /\ DOMAIN program.blocks = Blocks
<1>1. IsFunction(program) /\ Len(program.blocks) = Len(code)
    BY ProgramsAreFunctions DEF Shape
<1>2. program.blocks \in Seq(Seq(AllStatements))
    BY <1>1 DEF IsFunction
<1>3. DOMAIN program.blocks = 1..Len(program.blocks)
    BY <1>2, LenProperties
<1> QED
    BY <1>1, <1>3, ShapeFacts

\* All copies of the statements are among the copies.
LEMMA UniverseIs ==
    ASSUME Shape, NEW all, all \subseteq Pairs, UNION {CopyOf(s) : s \in Statements} \subseteq all
    PROVE  CopiesAre(Current, all)
BY ShapeFacts, CurrentIs DEF CopiesAre, Statements

LEMMA StatementsCopyPairs ==
    ASSUME Shape
    PROVE  UNION {CopyOf(s) : s \in Statements} \subseteq Pairs
<1>1. \A s \in Statements : s \in AllStatements
    BY ShapeFacts DEF Statements
<1> QED
    BY <1>1, StatementTypes

\* The initial states.
LEMMA InitInv ==
    ASSUME Init
    PROVE  CopyInv
<1>1. IsFunction(program) /\ program \in Programs /\ code = program.blocks
    BY ProgramsAreFunctions DEF Init
<1>2. program \in [blocks : Seq(Seq(AllStatements)), succ : Seq(SUBSET Nat), globals : SUBSET Symbols]
    BY <1>1 DEF IsFunction
<1>3. Current = program
    BY <1>1, <1>2 DEF Current
<1>4. Shape
    <2>1. IsFunction(Current) /\ program \in Programs /\ Len(code) = Len(program.blocks)
        BY <1>1, <1>3
    <2>2. passes \in 1..MaxPasses /\ addr = [b \in Blocks |-> <<passes, b>>]
        BY MaxPassesPositive DEF Init
    <2>3. phase = "start" /\ changed \in BOOLEAN
        BY DEF Init
    <2> QED BY <2>1, <2>2, <2>3 DEF Shape
<1>5. Maps
    BY DEF Init, Maps
<1>6. Unused
    BY DEF Init, Unused
<1>7. SameRuns
    BY <1>3 DEF SameRuns
<1>8. Universal /\ OwnSets /\ VisitedAgree /\ AvailableSound /\ FirstUnchanged
    BY DEF Init, Universal, OwnSets, VisitedAgree, AvailableSound, FirstUnchanged
<1> QED
    BY <1>4, <1>5, <1>6, <1>7, <1>8 DEF CopyInv

-----------------------------------------------------------------------------
(* The analysis keeps the invariant.                                       *)

\* Where the code, the addresses and the pass stay, so do the definitions over them.
LEMMA SameCode ==
    ASSUME Shape, UNCHANGED <<program, code, addr, passes>>
    PROVE  /\ Current' = Current /\ Blocks' = Blocks /\ Addresses' = Addresses
           /\ \A b : Predecessors(b)' = Predecessors(b)
           /\ Statements' = Statements
BY DEF Current, Blocks, Addresses, Predecessors, Statements

LEMMA SameRunsStays ==
    ASSUME Shape, SameRuns, UNCHANGED <<program, code, addr, passes>>
    PROVE  SameRuns'
<1>1. Current' = Current /\ program' = program
    BY SameCode
<1> QED
    BY <1>1 DEF SameRuns

\* The sets of each block start empty, and get its own copies.
LEMMA InitCopiesIs ==
    ASSUME CopyInv, InitCopies
    PROVE  /\ universe' \subseteq Pairs /\ universe \subseteq universe' /\ CopiesAre(Current, universe')
           /\ \A b \in Blocks :
                 /\ deCopies'[addr[b]] = GenThrough(Current, {}, code[b], universe', Len(code[b]))
                 /\ copyKill'[addr[b]] = KillThrough(Current, {}, code[b], universe', Len(code[b]))
                 /\ availIn'[addr[b]] = IF b = 1 THEN {} ELSE universe'
           /\ \A a \in Addresses : a[1] # passes =>
                 deCopies'[a] = deCopies[a] /\ copyKill'[a] = copyKill[a] /\ availIn'[a] = availIn[a]
           /\ deCopies' = [a \in Addresses |-> deCopies'[a]]
           /\ copyKill' = [a \in Addresses |-> copyKill'[a]]
           /\ availIn' = [a \in Addresses |-> availIn'[a]]
<1> DEFINE all == universe \cup UNION {CopyOf(s) : s \in Statements}
           BlockAt(a) == CHOOSE b \in Blocks : addr[b] = a
           used == {addr[b] : b \in Blocks}
<1>1. Shape /\ Maps /\ Unused
    BY DEF CopyInv
<1>2. universe' = all
    BY DEF InitCopies
<1>3. all \subseteq Pairs /\ universe \subseteq all /\ CopiesAre(Current, all)
    BY <1>1, StatementsCopyPairs, UniverseIs DEF Maps
<1>4. deCopies' = [a \in Addresses |-> IF a \notin used THEN deCopies[a] ELSE
                      LET list == code[BlockAt(a)]
                      IN  GenThrough(Current, deCopies[a], list, all, Len(list))]
    BY DEF InitCopies
<1>5. copyKill' = [a \in Addresses |-> IF a \notin used THEN copyKill[a] ELSE
                      LET list == code[BlockAt(a)]
                      IN  KillThrough(Current, copyKill[a], list, all, Len(list))]
    BY DEF InitCopies
<1>6. availIn' = [a \in Addresses |-> IF a \notin used THEN availIn[a] ELSE
                      IF a = addr[1] THEN {} ELSE all]
    BY DEF InitCopies
<1>7. \A b \in Blocks : addr[b] \in used /\ BlockAt(addr[b]) = b /\ addr[b] \in Addresses
                        /\ (addr[b] = addr[1] <=> b = 1)
    BY <1>1, ShapeFacts
<1>8. \A a \in Addresses : a[1] # passes => a \notin used
    BY <1>1, ShapeFacts
<1>9. \A b \in Blocks : deCopies[addr[b]] = {} /\ copyKill[addr[b]] = {}
    <2>1. phase = "start"
        BY DEF InitCopies
    <2>2. \A b \in Blocks : addr[b] \in Addresses /\ addr[b][1] = passes
        BY <1>1, ShapeFacts
    <2> QED BY <1>1, <2>1, <2>2 DEF Unused
<1> HIDE DEF all, used, BlockAt
<1>10. \A b \in Blocks :
           /\ deCopies'[addr[b]] = GenThrough(Current, {}, code[b], all, Len(code[b]))
           /\ copyKill'[addr[b]] = KillThrough(Current, {}, code[b], all, Len(code[b]))
           /\ availIn'[addr[b]] = IF b = 1 THEN {} ELSE all
    BY <1>4, <1>5, <1>6, <1>7, <1>9
<1>11. \A a \in Addresses : a[1] # passes =>
           deCopies'[a] = deCopies[a] /\ copyKill'[a] = copyKill[a] /\ availIn'[a] = availIn[a]
    BY <1>4, <1>5, <1>6, <1>8
<1>12. /\ deCopies' = [a \in Addresses |-> deCopies'[a]]
       /\ copyKill' = [a \in Addresses |-> copyKill'[a]]
       /\ availIn' = [a \in Addresses |-> availIn'[a]]
    BY <1>4, <1>5, <1>6
<1> QED
    BY <1>2, <1>3, <1>10, <1>11, <1>12

LEMMA InitCopiesInv ==
    ASSUME CopyInv, InitCopies
    PROVE  CopyInv'
<1>1. Shape /\ Maps /\ Unused /\ SameRuns
    BY DEF CopyInv
<1>2. /\ phase' = "analyse" /\ block' = 1 /\ changed' = FALSE
      /\ UNCHANGED <<program, code, addr, passes>>
    BY DEF InitCopies
<1>3. Current' = Current /\ Blocks' = Blocks /\ Addresses' = Addresses
    BY <1>1, <1>2, SameCode
<1>4. /\ universe' \subseteq Pairs /\ universe \subseteq universe' /\ CopiesAre(Current, universe')
      /\ \A b \in Blocks :
            /\ deCopies'[addr[b]] = GenThrough(Current, {}, code[b], universe', Len(code[b]))
            /\ copyKill'[addr[b]] = KillThrough(Current, {}, code[b], universe', Len(code[b]))
            /\ availIn'[addr[b]] = IF b = 1 THEN {} ELSE universe'
      /\ \A a \in Addresses : a[1] # passes =>
            deCopies'[a] = deCopies[a] /\ copyKill'[a] = copyKill[a] /\ availIn'[a] = availIn[a]
    BY InitCopiesIs
<1>5. 1 \in Blocks /\ Blocks = 1..Len(code) /\ Len(code) \in Nat
    BY <1>1, ShapeFacts
<1>6. Shape'
    <2>1. IsFunction(Current)'
        BY <1>1, <1>3 DEF Shape
    <2>2. addr' = [b \in Blocks' |-> <<passes', b>>]
        BY <1>1, <1>2, <1>3 DEF Shape
    <2>3. block' \in 1..(Len(code') + 1)
        BY <1>2, <1>5
    <2>4. program' \in Programs /\ Len(code') = Len(program'.blocks) /\ passes' \in 1..MaxPasses
        BY <1>1, <1>2 DEF Shape
    <2> QED BY <1>2, <2>1, <2>2, <2>3, <2>4 DEF Shape
<1>7. Maps'
    <2>1. ASSUME NEW a \in Addresses
          PROVE  deCopies'[a] \subseteq universe' /\ copyKill'[a] \subseteq universe'
                 /\ availIn'[a] \subseteq universe'
        <3>1. CASE a[1] # passes
            <4>1. deCopies[a] \subseteq universe /\ copyKill[a] \subseteq universe /\ availIn[a] \subseteq universe
                BY <1>1 DEF Maps
            <4> QED BY <1>4, <3>1, <4>1
        <3>2. CASE a[1] = passes
            <4>1. PICK b \in Blocks : a = addr[b]
                BY <1>1, <3>2, ShapeFacts
            <4>2. b \in DOMAIN Current.blocks /\ Current.blocks[b] = code[b]
                BY CurrentIs
            <4>3. IsFunction(Current) /\ Len(code[b]) \in 0..Len(code[b])
                BY <1>1, ShapeFacts DEF Shape
            <4>4. /\ GenThrough(Current, {}, code[b], universe', Len(code[b])) \subseteq universe'
                  /\ KillThrough(Current, {}, code[b], universe', Len(code[b])) \subseteq universe'
                BY <1>4, <4>2, <4>3, ThroughInside
            <4> QED BY <1>4, <4>1, <4>4
        <3> QED BY <3>1, <3>2
    <2>2. /\ deCopies' = [a \in Addresses |-> deCopies'[a]]
          /\ copyKill' = [a \in Addresses |-> copyKill'[a]]
          /\ availIn' = [a \in Addresses |-> availIn'[a]]
        BY InitCopiesIs
    <2> QED BY <1>3, <1>4, <2>1, <2>2 DEF Maps
<1>8. Unused'
    <2> SUFFICES ASSUME NEW a \in Addresses, a[1] > passes
                 PROVE  deCopies'[a] = {} /\ copyKill'[a] = {}
        BY <1>2, <1>3 DEF Unused
    <2>1. a[1] # passes
        BY <1>1, ShapeFacts
    <2> QED BY <1>1, <1>4, <2>1 DEF Unused
<1>9. Universal'
    BY <1>3, <1>4 DEF Universal
<1>10. OwnSets'
    BY <1>2, <1>3, <1>4, <1>5 DEF OwnSets
<1>11. VisitedAgree'
    BY <1>2, <1>3, <1>5 DEF VisitedAgree
<1>12. AvailableSound' /\ FirstUnchanged'
    BY <1>2 DEF AvailableSound, FirstUnchanged
<1>13. SameRuns'
    BY <1>1, <1>2, SameRunsStays
<1> QED
    BY <1>6, <1>7, <1>8, <1>9, <1>10, <1>11, <1>12, <1>13 DEF CopyInv

\* A visit takes copies from one block, until it agrees with its predecessors.
LEMMA VisitBlockInv ==
    ASSUME CopyInv, VisitBlock
    PROVE  CopyInv'
<1>1. Shape /\ Maps /\ Unused /\ Universal /\ OwnSets /\ VisitedAgree /\ SameRuns
    BY DEF CopyInv
<1>2. /\ phase = "analyse" /\ phase' = phase /\ block <= Len(code) /\ block' = block + 1
      /\ changed' = (changed \/ availIn' # availIn)
      /\ UNCHANGED <<program, code, addr, passes>>
      /\ UNCHANGED <<deCopies, copyKill, universe>>
      /\ availIn' = [availIn EXCEPT ![addr[block]] = AvailFrom(block)]
    BY DEF VisitBlock
<1>3. /\ Current' = Current /\ Blocks' = Blocks /\ Addresses' = Addresses
      /\ \A b : Predecessors(b)' = Predecessors(b)
    BY <1>1, <1>2, SameCode
<1>4. block \in Blocks /\ Blocks = 1..Len(code) /\ Len(code) \in Nat
    BY <1>1, <1>2, ShapeFacts DEF Shape
<1>5. addr[block] \in Addresses /\ 1 \in Blocks /\ \A b \in Blocks : addr[b] \in Addresses
    BY <1>1, <1>4, ShapeFacts
<1>6. AvailFrom(block) \subseteq availIn[addr[block]]
    BY DEF AvailFrom
<1>7. availIn \in [Addresses -> SUBSET universe]
    BY <1>1 DEF Maps
<1>8. \A a \in Addresses : availIn'[a] \subseteq availIn[a]
    BY <1>2, <1>5, <1>6, <1>7
<1>9. Shape'
    <2>1. IsFunction(Current)'
        BY <1>1, <1>3 DEF Shape
    <2>2. addr' = [b \in Blocks' |-> <<passes', b>>]
        BY <1>1, <1>2, <1>3 DEF Shape
    <2>3. block' \in 1..(Len(code') + 1)
        BY <1>2, <1>4
    <2>4. program' \in Programs /\ Len(code') = Len(program'.blocks) /\ passes' \in 1..MaxPasses
        BY <1>1, <1>2 DEF Shape
    <2>5. changed' \in BOOLEAN
        BY <1>1, <1>2 DEF Shape
    <2> QED BY <1>2, <2>1, <2>2, <2>3, <2>4, <2>5 DEF Shape
<1>10. Maps'
    <2>1. availIn' \in [Addresses -> SUBSET universe]
        <3>1. AvailFrom(block) \in SUBSET universe
            BY <1>5, <1>6, <1>7
        <3> QED BY <1>2, <1>7, <3>1
    <2>2. /\ universe \subseteq Pairs /\ deCopies \in [Addresses -> SUBSET universe]
          /\ copyKill \in [Addresses -> SUBSET universe]
        BY <1>1 DEF Maps
    <2> QED BY <1>2, <1>3, <2>1, <2>2 DEF Maps
<1>11. Unused'
    BY <1>1, <1>2, <1>3 DEF Unused
<1>12. Universal'
    BY <1>1, <1>2, <1>3 DEF Universal
<1>13. OwnSets'
    <2>1. availIn'[addr[1]] = {}
        BY <1>1, <1>2, <1>5, <1>8 DEF OwnSets
    <2> QED BY <1>1, <1>2, <1>3, <2>1 DEF OwnSets
<1>14. VisitedAgree'
    <2> SUFFICES ASSUME ~changed', NEW b \in Blocks, b < block + 1, NEW p \in Predecessors(b)
                 PROVE  availIn'[addr[b]] \subseteq Leaving(p)'
        BY <1>2, <1>3 DEF VisitedAgree
    <2>1. ~changed /\ availIn' = availIn
        BY <1>2
    <2>2. Leaving(p)' = Leaving(p)
        BY <1>2, <2>1 DEF Leaving
    <2>3. CASE b < block
        <3>1. availIn[addr[b]] \subseteq Leaving(p)
            BY <1>1, <1>2, <2>1, <2>3 DEF VisitedAgree
        <3> QED BY <2>1, <2>2, <3>1
    <2>4. CASE b = block
        <3>1. availIn[addr[block]] = AvailFrom(block)
            BY <1>2, <1>5, <1>7, <2>1
        <3> DEFINE in == [availIn EXCEPT ![addr[block]] = {}]
        <3>2. p \in Blocks
            BY DEF Predecessors
        <3>3. AvailFrom(block) \subseteq deCopies[addr[p]] \cup (in[addr[p]] \ copyKill[addr[p]])
            BY <2>4 DEF AvailFrom
        <3>4. in[addr[p]] \subseteq availIn[addr[p]]
            BY <1>5, <1>7, <3>2
        <3> HIDE DEF in
        <3>5. AvailFrom(block) \subseteq Leaving(p)
            BY <3>3, <3>4 DEF Leaving
        <3> QED BY <2>1, <2>2, <2>4, <3>1, <3>5
    <2> QED BY <1>4, <2>3, <2>4
<1>15. AvailableSound' /\ FirstUnchanged'
    BY <1>2 DEF AvailableSound, FirstUnchanged
<1>16. SameRuns'
    BY <1>1, <1>2, SameRunsStays
<1> QED
    BY <1>9, <1>10, <1>11, <1>12, <1>13, <1>14, <1>15, <1>16 DEF CopyInv

\* What no visit changed is available.
LEMMA AvailableWhenDone ==
    ASSUME CopyInv, phase = "analyse", ~changed, block > Len(code), NEW b \in Blocks
    PROVE  MadeAt(Current, b, 0, availIn[addr[b]]) /\ EqualAt(Current, b, 0, availIn[addr[b]])
<1> DEFINE available == [c \in Blocks |-> availIn[addr[c]]]
<1>1. Shape /\ Maps /\ Universal /\ OwnSets /\ VisitedAgree
    BY DEF CopyInv
<1>2. IsFunction(Current) /\ CopiesAre(Current, universe)
    BY <1>1 DEF Shape, Universal
<1>3. /\ 1 \in Blocks /\ Blocks = 1..Len(code) /\ Len(code) \in Nat
      /\ \A c \in Blocks : addr[c] \in Addresses
      /\ program.succ \in [Blocks -> SUBSET Blocks]
    BY <1>1, ShapeFacts
<1>4. available \in [Blocks -> SUBSET universe] /\ available[1] = {}
    BY <1>1, <1>3 DEF Maps, OwnSets
<1>5. ASSUME NEW p \in Blocks, NEW c \in program.succ[p]
      PROVE  available[c] \subseteq Leaves(Current, universe, p, Len(code[p]), available[p])
    <2>1. c \in Blocks
        BY <1>3
    <2>2. p \in Predecessors(c)
        BY <1>5 DEF Predecessors
    <2>3. block \in 1..(Len(code) + 1)
        BY <1>1 DEF Shape
    <2>4. c < block
        BY <1>3, <2>1, <2>3
    <2>5. availIn[addr[c]] \subseteq Leaving(p)
        BY <1>1, <2>1, <2>2, <2>4 DEF VisitedAgree
    <2>6. /\ deCopies[addr[p]] = GenThrough(Current, {}, code[p], universe, Len(code[p]))
          /\ copyKill[addr[p]] = KillThrough(Current, {}, code[p], universe, Len(code[p]))
        BY <1>1 DEF OwnSets
    <2> QED BY <2>1, <2>5, <2>6, CurrentIs DEF Leaves, Leaving
<1> HIDE DEF available
<1>6. IsAvailable(Current, universe, available)
    BY <1>4, <1>5, CurrentIs DEF IsAvailable
<1>7. MadeAt(Current, b, 0, available[b])
    <2> SUFFICES ASSUME NEW p, IsPath(Current, p), NEW k \in 1..Len(p), p[k] = b, NEW c \in available[b]
                 PROVE  IsMade(Current, p, k, 0, c)
        BY DEF MadeAt
    <2> QED BY <1>2, <1>6, AvailableIsMade
<1>8. EqualAt(Current, b, 0, available[b])
    <2> SUFFICES ASSUME NEW p, IsPath(Current, p), NEW k \in 1..Len(p), p[k] = b, NEW c \in available[b]
                 PROVE  IsEqual(Current, p, k, 0, c)
        BY DEF EqualAt
    <2> QED BY <1>2, <1>6, AvailableIsEqual
<1> QED
    BY <1>7, <1>8 DEF available

\* A block starts with what is available there.
LEMMA EnterBlockKeeps ==
    ASSUME CopyInv, NEW b \in Blocks, EnterBlock(b), phase' = "propagate", phase # "start",
           changed' \in BOOLEAN, UNCHANGED <<program, code, addr, passes>>,
           UNCHANGED <<availIn, universe>>
    PROVE  Shape' /\ Maps' /\ Unused' /\ SameRuns' /\ deCopies'[addr[b]] = availIn[addr[b]]
<1>1. Shape /\ Maps /\ Unused /\ SameRuns
    BY DEF CopyInv
<1>2. /\ block' = b /\ at' = 1
      /\ deCopies' = [deCopies EXCEPT ![addr[b]] = availIn[addr[b]]]
      /\ copyKill' = [copyKill EXCEPT ![addr[b]] = {}]
    BY DEF EnterBlock
<1>3. Current' = Current /\ Blocks' = Blocks /\ Addresses' = Addresses
    BY <1>1, SameCode
<1>4. /\ addr[b] \in Addresses /\ addr[b][1] = passes /\ passes \in Nat
      /\ Len(code[b]) \in Nat
    BY <1>1, ShapeFacts
<1>5. /\ universe \subseteq Pairs /\ deCopies \in [Addresses -> SUBSET universe]
      /\ copyKill \in [Addresses -> SUBSET universe] /\ availIn \in [Addresses -> SUBSET universe]
    BY <1>1 DEF Maps
<1>6. Shape'
    <2>1. IsFunction(Current)'
        BY <1>1, <1>3 DEF Shape
    <2>2. addr' = [c \in Blocks' |-> <<passes', c>>]
        BY <1>1, <1>3 DEF Shape
    <2>3. block' \in Blocks' /\ at' \in 1..(Len(code'[block']) + 1)
        BY <1>2, <1>3, <1>4
    <2>4. program' \in Programs /\ Len(code') = Len(program'.blocks) /\ passes' \in 1..MaxPasses
        BY <1>1 DEF Shape
    <2> QED BY <2>1, <2>2, <2>3, <2>4 DEF Shape
<1>7. Maps'
    <2>1. deCopies' \in [Addresses -> SUBSET universe] /\ copyKill' \in [Addresses -> SUBSET universe]
        BY <1>2, <1>4, <1>5
    <2> QED BY <1>3, <1>5, <2>1 DEF Maps
<1>8. Unused'
    <2> SUFFICES ASSUME NEW a \in Addresses, a[1] > passes
                 PROVE  deCopies'[a] = {} /\ copyKill'[a] = {}
        BY <1>3 DEF Unused
    <2>1. a # addr[b]
        BY <1>4
    <2>2. deCopies[a] = {} /\ copyKill[a] = {}
        BY <1>1 DEF Unused
    <2> QED BY <1>2, <1>4, <1>5, <2>1, <2>2
<1>9. SameRuns'
    BY <1>1, SameRunsStays
<1>10. deCopies'[addr[b]] = availIn[addr[b]]
    BY <1>2, <1>4, <1>5
<1> QED
    BY <1>6, <1>7, <1>8, <1>9, <1>10

LEMMA EndPassInv ==
    ASSUME CopyInv, EndPass
    PROVE  CopyInv'
<1>1. Shape /\ Maps /\ Unused /\ Universal /\ OwnSets /\ SameRuns
    BY DEF CopyInv
<1>2. /\ phase = "analyse" /\ block > Len(code) /\ changed' = FALSE
      /\ UNCHANGED <<program, code, addr, passes>>
      /\ UNCHANGED <<availIn, universe>>
    BY DEF EndPass
<1>3. /\ Current' = Current /\ Blocks' = Blocks /\ Addresses' = Addresses
      /\ 1 \in Blocks /\ Blocks = 1..Len(code) /\ Len(code) \in Nat
    BY <1>1, <1>2, SameCode, ShapeFacts
<1>4. CASE changed
    <2>1. block' = 1 /\ phase' = phase /\ UNCHANGED <<deCopies, copyKill>>
        BY <1>4 DEF EndPass
    <2>2. Shape'
        <3>1. IsFunction(Current)'
            BY <1>1, <1>3 DEF Shape
        <3>2. addr' = [b \in Blocks' |-> <<passes', b>>]
            BY <1>1, <1>2, <1>3 DEF Shape
        <3>3. block' \in 1..(Len(code') + 1)
            BY <1>2, <1>3, <2>1
        <3>4. program' \in Programs /\ Len(code') = Len(program'.blocks) /\ passes' \in 1..MaxPasses
            BY <1>1, <1>2 DEF Shape
        <3> QED BY <1>2, <2>1, <3>1, <3>2, <3>3, <3>4 DEF Shape
    <2>3. Maps' /\ Unused'
        BY <1>1, <1>2, <1>3, <2>1 DEF Maps, Unused
    <2>4. Universal' /\ OwnSets'
        BY <1>1, <1>2, <1>3, <2>1 DEF Universal, OwnSets
    <2>5. VisitedAgree'
        BY <1>3, <2>1 DEF VisitedAgree
    <2>6. AvailableSound' /\ FirstUnchanged'
        BY <1>2, <2>1 DEF AvailableSound, FirstUnchanged
    <2>7. SameRuns'
        BY <1>1, <1>2, SameRunsStays
    <2> QED BY <2>2, <2>3, <2>4, <2>5, <2>6, <2>7 DEF CopyInv
<1>5. CASE ~changed
    <2>1. phase' = "propagate" /\ EnterBlock(1)
        BY <1>5 DEF EndPass
    <2>2. Shape' /\ Maps' /\ Unused' /\ SameRuns' /\ deCopies'[addr[1]] = availIn[addr[1]]
        BY <1>2, <1>3, <2>1, EnterBlockKeeps
    <2>3. Universal'
        BY <1>1, <1>2, <1>3 DEF Universal
    <2>4. AvailableSound'
        <3>1. block' = 1 /\ at' - 1 = 0
            BY <2>1 DEF EnterBlock
        <3>2. \A b \in Blocks : MadeAt(Current, b, 0, availIn[addr[b]])
                                /\ EqualAt(Current, b, 0, availIn[addr[b]])
            BY <1>2, <1>5, AvailableWhenDone
        <3>3. MadeAt(Current, 1, 0, deCopies'[addr[1]]) /\ EqualAt(Current, 1, 0, deCopies'[addr[1]])
            BY <1>3, <2>2, <3>2
        <3> QED BY <1>2, <1>3, <3>1, <3>2, <3>3 DEF AvailableSound
    <2>5. OwnSets' /\ VisitedAgree' /\ FirstUnchanged'
        BY <1>2, <2>1 DEF OwnSets, VisitedAgree, FirstUnchanged
    <2> QED BY <2>2, <2>3, <2>4, <2>5 DEF CopyInv
<1> QED
    BY <1>1, <1>4, <1>5 DEF Shape

-----------------------------------------------------------------------------
(* The propagation keeps the invariant.                                    *)

LEMMA NextBlockInv ==
    ASSUME CopyInv, NextBlock
    PROVE  CopyInv'
<1>1. Shape /\ Universal /\ AvailableSound
    BY DEF CopyInv
<1>2. /\ phase = "propagate" /\ phase' = phase /\ block < Len(code) /\ EnterBlock(block + 1)
      /\ changed' = changed
      /\ UNCHANGED <<program, code, addr, passes>>
      /\ UNCHANGED <<availIn, universe>>
    BY DEF NextBlock
<1>3. /\ Current' = Current /\ Blocks' = Blocks /\ Addresses' = Addresses
      /\ Blocks = 1..Len(code) /\ Len(code) \in Nat
    BY <1>1, <1>2, SameCode, ShapeFacts
<1>4. block \in Blocks /\ block + 1 \in Blocks /\ block + 1 # 1 /\ changed \in BOOLEAN
    BY <1>1, <1>2, <1>3 DEF Shape
<1> DEFINE b == block + 1
<1>5. Shape' /\ Maps' /\ Unused' /\ SameRuns' /\ deCopies'[addr[b]] = availIn[addr[b]]
    <2>1. b \in Blocks /\ EnterBlock(b)
        BY <1>2, <1>4
    <2> HIDE DEF b
    <2> QED BY <1>2, <1>4, <2>1, EnterBlockKeeps
<1>6. Universal'
    BY <1>1, <1>2, <1>3 DEF Universal
<1>7. block' = b /\ at' - 1 = 0
    BY <1>2 DEF EnterBlock
<1>8. AvailableSound'
    <2> SUFFICES ASSUME ~changed
                 PROVE  /\ \A c \in Blocks : /\ MadeAt(Current, c, 0, availIn[addr[c]])
                                             /\ EqualAt(Current, c, 0, availIn[addr[c]])
                        /\ MadeAt(Current, b, 0, deCopies'[addr[b]])
                        /\ EqualAt(Current, b, 0, deCopies'[addr[b]])
        BY <1>2, <1>3, <1>7 DEF AvailableSound
    <2>1. \A c \in Blocks : MadeAt(Current, c, 0, availIn[addr[c]])
                            /\ EqualAt(Current, c, 0, availIn[addr[c]])
        BY <1>1, <1>2 DEF AvailableSound
    <2> QED BY <1>4, <1>5, <2>1
<1>9. OwnSets' /\ VisitedAgree' /\ FirstUnchanged'
    BY <1>2, <1>4, <1>7 DEF OwnSets, VisitedAgree, FirstUnchanged
<1> QED
    BY <1>5, <1>6, <1>8, <1>9 DEF CopyInv

\* The next pass has new addresses.
LEMMA EndPropagationInv ==
    ASSUME CopyInv, EndPropagation, ~Reuse
    PROVE  CopyInv'
<1>1. Shape /\ Maps /\ Unused /\ SameRuns
    BY DEF CopyInv
<1>2. /\ phase' \in {"start", "done"}
      /\ UNCHANGED <<program, code, changed>>
      /\ UNCHANGED <<deCopies, copyKill, availIn, universe>>
    BY DEF EndPropagation
<1>3. Current' = Current /\ Blocks' = Blocks /\ Addresses' = Addresses
    BY <1>2 DEF Current, Blocks, Addresses
<1>4. passes \in Nat /\ MaxPasses \in Nat /\ passes \in 1..MaxPasses
    BY <1>1, ShapeFacts DEF Shape
<1>5. \/ phase' = "start" /\ passes' = passes + 1 /\ passes' \in 1..MaxPasses
         /\ addr' = [b \in Blocks |-> <<passes', b>>]
      \/ phase' = "done" /\ passes' = passes /\ addr' = addr
    <2>1. CASE changed /\ passes < MaxPasses
        <3>1. phase' = "start" /\ passes' = passes + 1 /\ addr' \in NewAddresses
            BY <2>1 DEF EndPropagation
        <3>2. addr' = [b \in Blocks |-> <<passes', b>>]
            BY <3>1 DEF NewAddresses
        <3> QED BY <1>4, <2>1, <3>1, <3>2
    <2>2. CASE ~(changed /\ passes < MaxPasses)
        BY <2>2 DEF EndPropagation
    <2> QED BY <2>1, <2>2
<1>6. Shape'
    <2>1. IsFunction(Current)'
        BY <1>1, <1>3 DEF Shape
    <2>2. addr' = [b \in Blocks' |-> <<passes', b>>]
        BY <1>1, <1>3, <1>5 DEF Shape
    <2>3. program' \in Programs /\ Len(code') = Len(program'.blocks) /\ changed' \in BOOLEAN
        BY <1>1, <1>2 DEF Shape
    <2>4. passes' \in 1..MaxPasses
        BY <1>4, <1>5
    <2> QED BY <1>2, <2>1, <2>2, <2>3, <2>4 DEF Shape
<1>7. Maps'
    BY <1>1, <1>2, <1>3 DEF Maps
<1>8. Unused'
    <2> SUFFICES ASSUME NEW a \in Addresses,
                        a[1] > passes' \/ (a[1] = passes' /\ phase' = "start")
                 PROVE  deCopies[a] = {} /\ copyKill[a] = {}
        BY <1>2, <1>3 DEF Unused
    <2>1. PICK q \in 1..MaxPasses : \E b \in Blocks : a = <<q, b>>
        BY DEF Addresses
    <2>2. a[1] = q /\ q \in Nat
        BY <1>4, <2>1
    <2>3. a[1] > passes
        <3>1. CASE phase' = "start" /\ passes' = passes + 1
            BY <1>4, <2>2, <3>1
        <3>2. CASE phase' = "done" /\ passes' = passes
            BY <1>4, <2>2, <3>2
        <3> QED BY <1>5, <3>1, <3>2
    <2> QED BY <1>1, <2>3 DEF Unused
<1>9. SameRuns'
    <2>1. program' = program
        BY <1>2
    <2> QED BY <1>1, <1>3, <2>1 DEF SameRuns
<1>10. Universal' /\ OwnSets' /\ VisitedAgree' /\ AvailableSound' /\ FirstUnchanged'
    BY <1>2 DEF Universal, OwnSets, VisitedAgree, AvailableSound, FirstUnchanged
<1> QED
    BY <1>6, <1>7, <1>8, <1>9, <1>10 DEF CopyInv

\* A statement that reads a symbol that was copied is rewritten.
LEMMA PropagateEdits ==
    ASSUME CopyInv, PropagateStatement, code' # code
    PROVE  /\ ~changed /\ changed'
           /\ \E t : /\ IsRewriting(Current, universe, deCopies[addr[block]], block, at, t)
                     /\ Current' = Edited(Current, block, at, t)
<1> DEFINE s == code[block][at]
           a == addr[block]
           gen == Gen(Current, deCopies[a], s, universe)
           found == ~changed /\ Propagates(s, gen)
<1>1. Shape /\ Maps /\ AvailableSound /\ phase = "propagate"
    BY DEF CopyInv, PropagateStatement
<1>2. /\ block \in Blocks /\ a \in Addresses /\ at \in 1..Len(code[block])
    <2>1. block \in Blocks /\ at \in 1..(Len(code[block]) + 1) /\ at <= Len(code[block])
        BY <1>1 DEF Shape, PropagateStatement
    <2>2. Len(code[block]) \in Nat /\ a \in Addresses
        BY <1>1, <2>1, ShapeFacts
    <2> HIDE DEF a
    <2> QED BY <2>1, <2>2
<1>3. changed' = (changed \/ found)
      /\ IF found THEN \E t \in Rewritten(s, gen) : code' = [code EXCEPT ![block][at] = t]
         ELSE UNCHANGED code
    BY DEF PropagateStatement
<1>4. found /\ ~changed /\ changed' /\ s.op # "index"
    BY <1>3 DEF Propagates
<1>5. PICK t \in Rewritten(s, gen) : code' = [code EXCEPT ![block][at] = t]
    BY <1>3, <1>4
<1>6. Current' = Edited(Current, block, at, t)
    <2>1. UNCHANGED program
        BY DEF PropagateStatement
    <2> QED BY <1>5, <2>1 DEF Current, Edited
<1> DEFINE D == deCopies[a]
<1>7. D \subseteq universe /\ D \subseteq Pairs
    BY <1>1, <1>2 DEF Maps
<1>8. MadeAt(Current, block, at - 1, D) /\ EqualAt(Current, block, at - 1, D)
    BY <1>1, <1>4 DEF AvailableSound
<1>9. block \in DOMAIN Current.blocks /\ Current.blocks[block][at] = s
      /\ at \in 1..Len(Current.blocks[block])
    BY <1>2, CurrentIs
<1>10. t \in Rewritten(s, Gen(Current, D, s, universe))
    OBVIOUS
<1> HIDE DEF D, s
<1>11. IsRewriting(Current, universe, D, block, at, t)
    BY <1>4, <1>7, <1>8, <1>9, <1>10 DEF IsRewriting
<1> QED
    BY <1>4, <1>6, <1>11 DEF D

LEMMA PropagateKeepsFunction ==
    ASSUME CopyInv, PropagateStatement
    PROVE  /\ IsFunction(Current)' /\ Len(code') = Len(code) /\ Blocks' = Blocks
           /\ \A b \in Blocks : Len(code'[b]) = Len(code[b])
           /\ SameRuns'
<1>1. Shape /\ SameRuns /\ UNCHANGED program
    BY DEF CopyInv, PropagateStatement
<1>2. IsFunction(Current)
    BY <1>1 DEF Shape
<1>3. CASE code' = code
    <2>1. Current' = Current /\ Blocks' = Blocks
        BY <1>1, <1>3 DEF Current, Blocks
    <2>2. SameRuns'
        BY <1>1, <2>1 DEF SameRuns
    <2> QED BY <1>2, <1>3, <2>1, <2>2
<1>4. CASE code' # code
    <2> DEFINE C == deCopies[addr[block]]
    <2>1. PICK t : IsRewriting(Current, universe, C, block, at, t)
                   /\ Current' = Edited(Current, block, at, t)
        BY <1>4, PropagateEdits
    <2>2. IsFunction(Edited(Current, block, at, t))
        BY <1>2, <2>1, EditedIsFunction
    <2>3. Current'.blocks = code'
        BY DEF Current
    <2>4. /\ block \in DOMAIN Current.blocks /\ at \in 1..Len(Current.blocks[block])
          /\ t \in AllStatements
        <3>1. /\ block \in DOMAIN Current.blocks /\ at \in 1..Len(Current.blocks[block])
              /\ C \subseteq Pairs
              /\ t \in Rewritten(Current.blocks[block][at], Gen(Current, C, Current.blocks[block][at], universe))
            BY <2>1 DEF IsRewriting
        <3>2. Current.blocks[block][at] \in AllStatements
            BY <1>2, <3>1, BlockTypes
        <3> DEFINE s == Current.blocks[block][at]
                   gen == Gen(Current, C, s, universe)
        <3>3. gen \subseteq Pairs
            BY <3>1, <3>2, GenTypes
        <3>4. s \in AllStatements /\ t \in Rewritten(s, gen)
            BY <3>1, <3>2
        <3> HIDE DEF s, gen
        <3>5. t \in AllStatements
            BY <3>3, <3>4, RewrittenIs
        <3> QED BY <3>1, <3>5
    <2>5. /\ Len(code') = Len(code) /\ DOMAIN code' = DOMAIN code
          /\ \A b \in DOMAIN code : Len(code'[b]) = Len(code[b])
        BY <1>2, <2>1, <2>3, <2>4, CurrentIs, EditedIs DEF Blocks
    <2>6. SameRuns'
        <3> SUFFICES ASSUME NEW p, IsPath(program, p), NEW n \in 0..Len(p)
                     PROVE  Along(Current', p, n) = Along(program, p, n)
            BY <1>1 DEF SameRuns
        <3>1. IsPath(Current, p)
            BY <1>1, CurrentIs, ProgramBlocks DEF IsPath
        <3>2. Along(Edited(Current, block, at, t), p, n) = Along(Current, p, n)
            BY <1>2, <2>1, <3>1, EditedRuns
        <3> QED BY <1>1, <2>1, <3>2 DEF SameRuns
    <2> QED BY <2>1, <2>2, <2>5, <2>6 DEF Blocks
<1> QED
    BY <1>3, <1>4

LEMMA PropagateStatementInv ==
    ASSUME CopyInv, PropagateStatement
    PROVE  CopyInv'
<1> DEFINE s == code[block][at]
           a == addr[block]
           gen == Gen(Current, deCopies[a], s, universe)
           kill == Kill(Current, copyKill[a], s, universe)
<1>1. Shape /\ Maps /\ Unused /\ Universal /\ AvailableSound
    BY DEF CopyInv
<1>2. /\ phase = "propagate" /\ phase' = phase /\ block' = block /\ at' = at + 1
      /\ at <= Len(code[block])
      /\ UNCHANGED <<program, addr, availIn, passes>>
    BY DEF PropagateStatement
<1>3. /\ deCopies' = [deCopies EXCEPT ![a] = gen] /\ copyKill' = [copyKill EXCEPT ![a] = kill]
      /\ changed' = (changed \/ (~changed /\ Propagates(s, gen)))
      /\ universe' = universe \cup UNION {CopyOf(t) : t \in Statements'}
    BY DEF PropagateStatement
<1>4. /\ IsFunction(Current)' /\ Len(code') = Len(code) /\ Blocks' = Blocks
      /\ \A b \in Blocks : Len(code'[b]) = Len(code[b])
      /\ SameRuns'
    BY PropagateKeepsFunction
<1>5. Addresses' = Addresses
    BY <1>4 DEF Addresses
<1>6. /\ block \in Blocks /\ a \in Addresses /\ at \in 1..Len(code[block]) /\ a[1] = passes
      /\ Len(code[block]) \in Nat /\ s \in AllStatements /\ passes \in Nat
    <2>1. block \in Blocks /\ at \in 1..(Len(code[block]) + 1)
        BY <1>1, <1>2 DEF Shape
    <2>2. Len(code[block]) \in Nat /\ a \in Addresses /\ a[1] = passes /\ passes \in Nat
        BY <1>1, <2>1, ShapeFacts
    <2>3. at \in 1..Len(code[block])
        BY <1>2, <2>1, <2>2
    <2> QED BY <1>1, <2>1, <2>2, <2>3, ShapeFacts
<1>7. Shape'
    <2>1. addr' = [b \in Blocks' |-> <<passes', b>>]
        BY <1>1, <1>2, <1>4 DEF Shape
    <2>2. block' \in Blocks' /\ at' \in 1..(Len(code'[block']) + 1)
        BY <1>2, <1>4, <1>6
    <2>3. program' \in Programs /\ Len(code') = Len(program'.blocks) /\ passes' \in 1..MaxPasses
        BY <1>1, <1>2, <1>4 DEF Shape
    <2>4. changed' \in BOOLEAN
        <3> HIDE DEF s, gen
        <3> QED BY <1>1, <1>3 DEF Shape
    <2> QED BY <1>2, <1>4, <2>1, <2>2, <2>3, <2>4 DEF Shape
<1>8. CopiesAre(Current', universe') /\ universe \subseteq universe'
    <2>1. Current'.blocks = code' /\ DOMAIN Current'.blocks = Blocks'
        BY DEF Current, Blocks
    <2>2. \A b \in Blocks' : \A i \in DOMAIN code'[b] : code'[b][i] \in AllStatements
        BY <1>4, <2>1, BlockTypes
    <2>3. \A t \in Statements' : t \in AllStatements
        BY <2>2 DEF Statements
    <2>4. \A t \in Statements' : CopyOf(t) \subseteq Pairs
        BY <2>3, StatementTypes
    <2>5. universe' \subseteq Pairs /\ universe \subseteq universe'
        BY <1>1, <1>3, <2>4 DEF Maps
    <2>6. \A b \in Blocks' : \A i \in DOMAIN code'[b] : code'[b][i] \in Statements'
        BY DEF Statements
    <2> QED BY <1>3, <2>1, <2>5, <2>6 DEF CopiesAre
<1>9. gen \subseteq universe /\ kill \subseteq universe /\ deCopies[a] \subseteq universe
    <2>1. deCopies[a] \subseteq universe /\ copyKill[a] \subseteq universe
        BY <1>1, <1>6 DEF Maps
    <2>2. CopyOf(s) \subseteq universe
        BY <1>1, <1>2, <1>6, CurrentIs, ShapeFacts DEF Universal, CopiesAre
    <2> HIDE DEF s, a
    <2> QED BY <2>1, <2>2 DEF Gen, Kill, Kills
<1> HIDE DEF gen, kill, s
<1>10. Maps'
    <2>1. /\ deCopies \in [Addresses -> SUBSET universe] /\ copyKill \in [Addresses -> SUBSET universe]
          /\ availIn \in [Addresses -> SUBSET universe]
        BY <1>1 DEF Maps
    <2>2. gen \subseteq universe' /\ kill \subseteq universe'
        BY <1>8, <1>9
    <2> HIDE DEF a
    <2>3. deCopies' \in [Addresses -> SUBSET universe'] /\ copyKill' \in [Addresses -> SUBSET universe']
          /\ availIn' \in [Addresses -> SUBSET universe']
        BY <1>2, <1>3, <1>8, <2>1, <2>2
    <2> QED BY <1>5, <1>8, <2>3 DEF Maps, CopiesAre
<1>11. Unused'
    <2> SUFFICES ASSUME NEW x \in Addresses, x[1] > passes
                 PROVE  deCopies'[x] = {} /\ copyKill'[x] = {}
        BY <1>2, <1>5 DEF Unused
    <2>1. x # a
        BY <1>6
    <2>2. deCopies[x] = {} /\ copyKill[x] = {}
        BY <1>1 DEF Unused
    <2>3. DOMAIN deCopies = Addresses /\ DOMAIN copyKill = Addresses
        BY <1>1 DEF Maps
    <2> HIDE DEF a
    <2> QED BY <1>3, <2>1, <2>2, <2>3
<1>12. Universal'
    BY <1>8 DEF Universal
<1>13. AvailableSound'
    <2> SUFFICES ASSUME ~changed'
                 PROVE  /\ \A b \in Blocks' : /\ MadeAt(Current', b, 0, availIn'[addr'[b]])
                                              /\ EqualAt(Current', b, 0, availIn'[addr'[b]])
                        /\ MadeAt(Current', block', at' - 1, deCopies'[addr'[block']])
                        /\ EqualAt(Current', block', at' - 1, deCopies'[addr'[block']])
        BY DEF AvailableSound
    <2>1. ~changed /\ code' = code
        BY <1>3, PropagateEdits
    <2>2. Current' = Current
        BY <1>2, <2>1 DEF Current
    <2>3. \A b \in Blocks : MadeAt(Current, b, 0, availIn[addr[b]])
                            /\ EqualAt(Current, b, 0, availIn[addr[b]])
        BY <1>1, <1>2, <2>1 DEF AvailableSound
    <2>4. deCopies'[a] = gen /\ at' - 1 = at
        <3>1. DOMAIN deCopies = Addresses /\ at \in Nat
            BY <1>1, <1>6 DEF Maps
        <3> HIDE DEF a
        <3> QED BY <1>2, <1>3, <1>6, <3>1
    <2> DEFINE C == deCopies[a]
    <2>5. /\ IsFunction(Current) /\ universe \subseteq Pairs /\ C \subseteq universe
          /\ block \in DOMAIN Current.blocks /\ Current.blocks[block][at] = s
          /\ at \in 1..Len(Current.blocks[block])
        BY <1>1, <1>6, <1>9, CurrentIs DEF Shape, Maps, s
    <2>6. MadeAt(Current, block, at - 1, C) /\ EqualAt(Current, block, at - 1, C)
        BY <1>1, <1>2, <2>1 DEF AvailableSound
    <2>7. gen = Gen(Current, C, Current.blocks[block][at], universe)
        BY <2>5 DEF gen
    <2> HIDE DEF C
    <2>8. MadeAt(Current, block, at, gen)
        BY <2>5, <2>6, <2>7, StepMadeAt
    <2>9. EqualAt(Current, block, at, gen)
        BY <2>5, <2>6, <2>7, StepEqualAt
    <2> QED BY <1>2, <1>4, <2>2, <2>3, <2>4, <2>8, <2>9
<1>14. OwnSets' /\ VisitedAgree' /\ FirstUnchanged'
    <2>1. ~(at' = 1)
        BY <1>2, <1>6
    <2> QED BY <1>2, <2>1 DEF OwnSets, VisitedAgree, FirstUnchanged
<1> QED
    BY <1>4, <1>7, <1>10, <1>11, <1>12, <1>13, <1>14 DEF CopyInv

-----------------------------------------------------------------------------
(* The theorems.                                                           *)

\* Unless addresses are used again, the invariant holds: maps, addresses and blocks
\* belong together, and what is available was made, and holds, on every path.
THEOREM CopyInvariant == ASSUME ~Reuse PROVE Spec => []CopyInv
<1>1. Init => CopyInv
    BY InitInv
<1>2. CopyInv /\ [Next]_vars => CopyInv'
    <2> SUFFICES ASSUME CopyInv, [Next]_vars
                 PROVE  CopyInv'
        OBVIOUS
    <2>1. CASE Next
        BY <2>1, InitCopiesInv, VisitBlockInv, EndPassInv, PropagateStatementInv, NextBlockInv,
           EndPropagationInv DEF Next
    <2>2. CASE UNCHANGED vars
        <3>1. /\ Current' = Current /\ Blocks' = Blocks /\ Addresses' = Addresses
              /\ \A b : Predecessors(b)' = Predecessors(b) /\ Leaving(b)' = Leaving(b)
            BY <2>2 DEF vars, Current, Blocks, Addresses, Predecessors, Leaving
        <3>2. Shape' /\ Maps' /\ Unused' /\ Universal'
            BY <2>2, <3>1 DEF vars, CopyInv, Shape, Maps, Unused, Universal
        <3>3. OwnSets' /\ VisitedAgree' /\ FirstUnchanged'
            BY <2>2, <3>1 DEF vars, CopyInv, OwnSets, VisitedAgree, FirstUnchanged
        <3>4. AvailableSound' /\ SameRuns'
            BY <2>2, <3>1 DEF vars, CopyInv, AvailableSound, SameRuns
        <3> QED BY <3>2, <3>3, <3>4 DEF CopyInv
    <2> QED BY <2>1, <2>2
<1> QED
    BY <1>1, <1>2, PTL DEF Spec

\* ReadsPreserved: after every pass of doCprop the statements read the same values
\* as those the translator made, along every path.
THEOREM CopyReadsPreserved == ASSUME ~Reuse PROVE Spec => []ReadsPreserved
<1>1. CopyInv => ReadsPreserved
    <2> SUFFICES ASSUME CopyInv, NEW p \in Paths(program.succ, PathLength)
                 PROVE  Along(Current, p, Len(p)).read = Along(program, p, Len(p)).read
        BY DEF ReadsPreserved
    <2>1. Shape /\ SameRuns /\ IsFunction(program)
        BY ProgramBlocks DEF CopyInv
    <2>2. PathLength \in Nat
        BY <2>1, ShapeFacts DEF PathLength
    <2>3. IsPath(program, p)
        BY <2>1, <2>2, PathsArePaths
    <2>4. Len(p) \in 0..Len(p)
        BY <2>3, PathTypes
    <2> QED BY <2>1, <2>3, <2>4 DEF SameRuns
<1> QED
    BY <1>1, CopyInvariant, PTL

\* AvailableHolds: what doAvailCopies finds to be available at the start of a block
\* holds there, on every path to it.
THEOREM CopyAvailableHolds == ASSUME ~Reuse PROVE Spec => []AvailableHolds
<1>1. CopyInv => AvailableHolds
    <2> SUFFICES ASSUME CopyInv, phase = "propagate", block = 1, at = 1,
                        NEW p \in Paths(program.succ, PathLength),
                        NEW c \in availIn[addr[Last(p)]]
                 PROVE  Holds(Along(Current, p, Len(p) - 1), c)
        BY DEF AvailableHolds, Holds
    <2>1. Shape /\ AvailableSound /\ ~changed
        BY DEF CopyInv, FirstUnchanged
    <2>2. PathLength \in Nat
        BY <2>1, ShapeFacts DEF PathLength
    <2>3. IsFunction(Current) /\ Current.succ = program.succ
        BY <2>1, CurrentIs DEF Shape
    <2>4. IsPath(Current, p)
        BY <2>2, <2>3, PathsArePaths
    <2>5. Len(p) \in 1..Len(p) /\ Last(p) = p[Len(p)] /\ p[Len(p)] \in Blocks
        BY <2>4, PathTypes, CurrentIs DEF Last
    <2>6. EqualAt(Current, p[Len(p)], 0, availIn[addr[p[Len(p)]]])
        BY <2>1, <2>5 DEF AvailableSound
    <2>7. Holds(RunAt(Current, p, Len(p), 0), c)
        BY <2>4, <2>5, <2>6 DEF EqualAt, IsEqual
    <2>8. RunAt(Current, p, Len(p), 0) = Along(Current, p, Len(p) - 1)
        BY <2>3, <2>4, <2>5, RunStep
    <2> QED BY <2>7, <2>8
<1> QED
    BY <1>1, CopyInvariant, PTL
=============================================================================
