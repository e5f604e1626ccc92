--------------------------- MODULE FlowGraphMeaning ---------------------------
(***************************************************************************)
(* What the list of statements of a function means: cleaning it up changes *)
(* neither what is executed nor in what order.                             *)
(***************************************************************************)
EXTENDS FlowGraphProofs

-----------------------------------------------------------------------------
(* What is executed within a number of steps.                              *)

IsTable(f, list, v, m) ==
    f = [n \in 0..m |-> [p \in DOMAIN list |->
            IF Stops(list, p) THEN EffectAt(list, p)
            ELSE IF n = 0 THEN -1 ELSE f[n - 1][Onto(list, v, p)]]]

Table(list, v) == CHOOSE f : IsTable(f, list, v, Len(list))

\* The id of the first statement with an effect that is executed from position
\* p on within n steps, or -1.
Within(list, v, n, p) == Table(list, v)[n][p]

LEMMA TableExists ==
    ASSUME NEW list, NEW v, NEW m \in Nat
    PROVE  \E f : IsTable(f, list, v, m)
<1> DEFINE Row(n, before) == [p \in DOMAIN list |->
               IF Stops(list, p) THEN EffectAt(list, p)
               ELSE IF n = 0 THEN -1 ELSE before[Onto(list, v, p)]]
           T == {k \in Nat : \E f : IsTable(f, list, v, k)}
<1>1. 0 \in T
    <2>1. IsTable([n \in 0..0 |-> Row(0, 0)], list, v, 0)
        BY DEF IsTable
    <2> QED BY <2>1
<1>2. ASSUME NEW k \in 0..(m - 1), k \in T
      PROVE  k + 1 \in T
    <2>1. PICK f : IsTable(f, list, v, k)
        BY <1>2
    <2>2. \A i \in 0..k : f[i] = Row(i, f[i - 1])
        BY <2>1 DEF IsTable
    <2> DEFINE h == [i \in 0..(k + 1) |-> IF i = k + 1 THEN Row(k + 1, f[k]) ELSE f[i]]
    <2> HIDE DEF Row
    <2>3. /\ h = [i \in 0..(k + 1) |-> h[i]]
          /\ h[k + 1] = Row(k + 1, f[k])
          /\ \A i \in 0..k : h[i] = f[i]
        OBVIOUS
    <2>5. Row(0, f[0 - 1]) = Row(0, h[0 - 1])
        BY DEF Row
    <2> HIDE DEF h
    <2>4. ASSUME NEW i \in 0..(k + 1)
          PROVE  h[i] = Row(i, h[i - 1])
        <3>1. CASE i = k + 1
            <4>1. k \in 0..k /\ i - 1 = k
                BY <3>1
            <4> QED BY <2>3, <3>1, <4>1
        <3>2. CASE i \in 0..k /\ i # 0
            <4>1. i - 1 \in 0..k
                BY <3>2
            <4> QED BY <2>2, <2>3, <3>2, <4>1
        <3>3. CASE i = 0
            <4>1. 0 \in 0..k
                OBVIOUS
            <4> QED BY <2>2, <2>3, <2>5, <3>3, <4>1
        <3> QED BY <3>1, <3>2, <3>3
    <2>6. h = [i \in 0..(k + 1) |-> Row(i, h[i - 1])]
        BY <2>3, <2>4
    <2>7. IsTable(h, list, v, k + 1)
        BY <2>6 DEF IsTable, Row
    <2> QED BY <2>7
<1> HIDE DEF T
<1>3. T \in SUBSET Nat
    BY DEF T
<1>4. 0..m \subseteq T
    BY <1>1, <1>2, <1>3, InductionTo
<1> QED
    BY <1>4 DEF T

\* Lists whose execution is followed.
Executable(list) == Delimited(list) /\ Targeted(list)

LEMMA OntoStays ==
    ASSUME NEW list, Executable(list), NEW v, NEW p \in 1..Len(list), ~Stops(list, p)
    PROVE  Onto(list, v, p) \in 1..Len(list)
<1>1. Len(list) \in Nat \ {0} /\ list[p] \in Statements /\ p # Len(list)
    BY DelimitedFacts DEF Executable, Stops
<1>2. CASE list[p].op \in {"jump", "branch"}
    <2>1. list[p].target \in LabelsOf(list)
        BY <1>1, <1>2, StatementFacts DEF Executable, Targeted
    <2>2. Place(list, list[p].target) \in 1..Len(list)
        BY <2>1, PlaceIsLabel DEF Executable
    <2>3. p + 1 \in 1..Len(list)
        BY <1>1
    <2> QED BY <2>2, <2>3 DEF Onto
<1>3. CASE list[p].op \notin {"jump", "branch"}
    BY <1>1, <1>3 DEF Onto
<1> QED
    BY <1>2, <1>3

LEMMA EffectIsNat ==
    ASSUME NEW list, Delimited(list), NEW p \in 1..Len(list)
    PROVE  EffectAt(list, p) \in Nat
BY DelimitedFacts, StatementFacts DEF EffectAt

LEMMA WithinFacts ==
    ASSUME NEW list, Executable(list), NEW v, NEW p \in 1..Len(list)
    PROVE  /\ FirstEffect(list, p, v) = Within(list, v, Len(list), p)
           /\ Stops(list, p) => \A n \in 0..Len(list) : Within(list, v, n, p) = EffectAt(list, p)
           /\ ~Stops(list, p) =>
                  /\ Within(list, v, 0, p) = -1
                  /\ \A n \in 0..(Len(list) - 1) :
                         Within(list, v, n + 1, p) = Within(list, v, n, Onto(list, v, p))
<1> DEFINE m == Len(list)
           f == Table(list, v)
<1>1. m \in Nat \ {0} /\ DOMAIN list = 1..m
    BY DelimitedFacts DEF Executable
<1>2. IsTable(f, list, v, m)
    BY <1>1, TableExists DEF Table
<1>3. FirstEffect(list, p, v) = f[m][p]
    BY DEF FirstEffect, Table, IsTable
<1> HIDE DEF f, m
<1>4. \A n \in 0..m : f[n][p] =
          IF Stops(list, p) THEN EffectAt(list, p)
          ELSE IF n = 0 THEN -1 ELSE f[n - 1][Onto(list, v, p)]
    <2> DEFINE Row(n, q) == IF Stops(list, q) THEN EffectAt(list, q)
                            ELSE IF n = 0 THEN -1 ELSE f[n - 1][Onto(list, v, q)]
    <2>1. f = [n \in 0..m |-> [q \in DOMAIN list |-> Row(n, q)]]
        BY <1>2 DEF IsTable
    <2> HIDE DEF Row
    <2>2. ASSUME NEW n \in 0..m
          PROVE  f[n][p] = Row(n, p)
        <3>1. f[n] = [q \in DOMAIN list |-> Row(n, q)]
            BY <2>1
        <3>2. p \in DOMAIN list
            BY <1>1 DEF m
        <3> QED BY <3>1, <3>2
    <2> QED BY <2>2 DEF Row
<1>5. ASSUME ~Stops(list, p)
      PROVE  f[0][p] = -1
    <2>1. 0 \in 0..m
        BY <1>1
    <2> QED BY <1>4, <1>5, <2>1
<1>6. ASSUME ~Stops(list, p), NEW n \in 0..(m - 1)
      PROVE  f[n + 1][p] = f[n][Onto(list, v, p)]
    <2> DEFINE h == n + 1
    <2>1. h \in 0..m /\ h # 0 /\ h - 1 = n
        BY <1>1
    <2> HIDE DEF h
    <2>2. f[h][p] = f[h - 1][Onto(list, v, p)]
        BY <1>4, <1>6, <2>1
    <2> QED BY <2>1, <2>2 DEF h
<1>7. Stops(list, p) => \A n \in 0..m : f[n][p] = EffectAt(list, p)
    BY <1>4
<1> QED
    BY <1>3, <1>5, <1>6, <1>7 DEF Within, f, m

\* More steps find the same.
LEMMA WithinGrows ==
    ASSUME NEW list, Executable(list), NEW v, NEW n \in 0..(Len(list) - 1),
           NEW p \in 1..Len(list), Within(list, v, n, p) # -1
    PROVE  Within(list, v, n + 1, p) = Within(list, v, n, p)
<1> DEFINE m == Len(list)
           Grows(k) == \A q \in 1..m : Within(list, v, k, q) # -1 =>
                           Within(list, v, k + 1, q) = Within(list, v, k, q)
           T == {k \in 0..(m - 1) : Grows(k)}
<1>1. m \in Nat \ {0}
    BY DelimitedFacts DEF Executable
<1>2. 0 \in T
    <2>1. ASSUME NEW q \in 1..m, Within(list, v, 0, q) # -1
          PROVE  Within(list, v, 0 + 1, q) = Within(list, v, 0, q)
        <3>1. Stops(list, q)
            BY <2>1, WithinFacts
        <3>2. 0 \in 0..m /\ 0 + 1 \in 0..m
            BY <1>1
        <3> QED BY <3>1, <3>2, WithinFacts
    <2> QED BY <1>1, <2>1
<1>3. ASSUME NEW k \in 0..((m - 1) - 1), k \in T
      PROVE  k + 1 \in T
    <2> DEFINE h == k + 1
    <2>1. h \in 0..(m - 1) /\ h \in 0..m /\ h + 1 \in 0..m /\ k \in 0..(m - 1)
        BY <1>1
    <2>2. Grows(k)
        BY <1>3
    <2> HIDE DEF T
    <2>3. ASSUME NEW q \in 1..m, Within(list, v, h, q) # -1
          PROVE  Within(list, v, h + 1, q) = Within(list, v, h, q)
        <3>1. CASE Stops(list, q)
            <4> DEFINE g == h + 1
            <4>1. h \in 0..m /\ g \in 0..m
                BY <2>1
            <4> HIDE DEF h, g
            <4>2. Within(list, v, h, q) = EffectAt(list, q) /\ Within(list, v, g, q) = EffectAt(list, q)
                BY <3>1, <4>1, WithinFacts
            <4> QED BY <4>2 DEF g
        <3>2. CASE ~Stops(list, q)
            <4> DEFINE o == Onto(list, v, q)
            <4>1. o \in 1..m
                BY <3>2, OntoStays
            <4>2. /\ Within(list, v, h, q) = Within(list, v, k, o)
                  /\ Within(list, v, h + 1, q) = Within(list, v, h, o)
                <5> HIDE DEF h
                <5>1. Within(list, v, h + 1, q) = Within(list, v, h, o)
                    BY <2>1, <3>2, WithinFacts
                <5>2. Within(list, v, k + 1, q) = Within(list, v, k, o)
                    BY <2>1, <3>2, WithinFacts
                <5> QED BY <5>1, <5>2 DEF h
            <4>3. Within(list, v, k, o) # -1 => Within(list, v, h, o) = Within(list, v, k, o)
                BY <2>2, <4>1
            <4> HIDE DEF o, h
            <4> QED BY <2>3, <4>2, <4>3
        <3> QED BY <3>1, <3>2
    <2> QED BY <2>1, <2>3 DEF T
<1> HIDE DEF T
<1>4. 0..(m - 1) \subseteq T
    <2>1. T \in SUBSET Nat
        BY DEF T
    <2>2. m - 1 \in Nat
        BY <1>1
    <2> QED BY <1>2, <1>3, <2>1, <2>2, InductionTo
<1> QED
    BY <1>4 DEF T

Stopping(list) == {p \in 1..Len(list) : Stops(list, p)}

\* From where each position is executed next.
Before(list, v) ==
    [c \in 1..Len(list) |-> {p \in 1..Len(list) : ~Stops(list, p) /\ Onto(list, v, p) = c}]

\* An effect is found from where one can be reached.
LEMMA WithinIsReach ==
    ASSUME NEW list, Executable(list), NEW v, NEW p \in 1..Len(list)
    PROVE  Within(list, v, Len(list), p) # -1 <=>
               p \in Reach(Before(list, v), Stopping(list), Len(list))
<1> DEFINE m == Len(list)
           next == Before(list, v)
<1>1. m \in Nat \ {0}
    BY DelimitedFacts DEF Executable
<1>2. PICK f : IsWalk(f, next, Stopping(list), m) /\ Reach(next, Stopping(list), m) = f[m]
    BY <1>1, ReachIsWalk
<1>3. f[0] = Stopping(list) /\ \A k \in 0..(m - 1) : f[k + 1] = Onward(next, f[k])
    BY <1>2 DEF IsWalk
<1>4. \A c \in 1..m, q \in 1..m : q \in next[c] <=> ~Stops(list, q) /\ Onto(list, v, q) = c
    BY DEF Before
<1> DEFINE Linked(k) == /\ f[k] \in SUBSET (1..m)
                        /\ \A q \in 1..m : Within(list, v, k, q) # -1 <=> q \in f[k]
           T == {k \in 0..m : Linked(k)}
<1>5. 0 \in T
    <2>1. ASSUME NEW q \in 1..m
          PROVE  Within(list, v, 0, q) # -1 <=> q \in f[0]
        <3>1. CASE Stops(list, q)
            <4>1. Within(list, v, 0, q) = EffectAt(list, q)
                BY <1>1, <3>1, WithinFacts
            <4>2. EffectAt(list, q) \in Nat
                BY EffectIsNat DEF Executable
            <4> QED BY <1>3, <3>1, <4>1, <4>2 DEF Stopping
        <3>2. CASE ~Stops(list, q)
            BY <1>3, <3>2, WithinFacts DEF Stopping
        <3> QED BY <3>1, <3>2
    <2>2. f[0] \in SUBSET (1..m)
        BY <1>3 DEF Stopping
    <2> QED BY <1>1, <2>1, <2>2
<1>6. ASSUME NEW k \in 0..(m - 1), k \in T
      PROVE  k + 1 \in T
    <2>1. Linked(k)
        BY <1>6
    <2> HIDE DEF T
    <2> DEFINE h == k + 1
    <2>2. f[h] = f[k] \cup UNION {next[c] : c \in f[k]}
        BY <1>3 DEF Onward
    <2>3. h \in 0..m /\ k \in 0..m
        BY <1>1
    <2>4. ASSUME NEW q \in 1..m
          PROVE  Within(list, v, h, q) # -1 <=> q \in f[h]
        <3>1. CASE Stops(list, q)
            <4>1. Within(list, v, h, q) = EffectAt(list, q) /\ Within(list, v, k, q) = EffectAt(list, q)
                BY <2>3, <3>1, WithinFacts
            <4>2. EffectAt(list, q) \in Nat
                BY EffectIsNat DEF Executable
            <4> HIDE DEF h
            <4> QED BY <2>1, <2>2, <4>1, <4>2
        <3>2. CASE ~Stops(list, q)
            <4> DEFINE o == Onto(list, v, q)
            <4>1. o \in 1..m
                BY <3>2, OntoStays
            <4>2. Within(list, v, h, q) = Within(list, v, k, o)
                BY <3>2, WithinFacts
            <4>3. Within(list, v, k, q) # -1 => Within(list, v, h, q) # -1
                BY WithinGrows
            <4>4. q \in next[o] /\ \A c \in 1..m : q \in next[c] => c = o
                BY <1>4, <3>2, <4>1
            <4> HIDE DEF h, o, next
            <4>5. ASSUME Within(list, v, h, q) # -1
                  PROVE  q \in f[h]
                <5>1. o \in f[k]
                    BY <2>1, <4>1, <4>2, <4>5
                <5> QED BY <2>2, <4>4, <5>1
            <4>6. ASSUME q \in f[h]
                  PROVE  Within(list, v, h, q) # -1
                <5>1. CASE q \in f[k]
                    BY <2>1, <4>3, <5>1
                <5>2. CASE q \notin f[k]
                    <6>1. PICK c \in f[k] : q \in next[c]
                        BY <2>2, <4>6, <5>2
                    <6>2. o \in f[k]
                        BY <2>1, <4>4, <6>1
                    <6> QED BY <2>1, <4>1, <4>2, <6>2
                <5> QED BY <5>1, <5>2
            <4> QED BY <4>5, <4>6
        <3> QED BY <3>1, <3>2
    <2>5. f[h] \in SUBSET (1..m)
        <3>1. \A c \in 1..m : next[c] \in SUBSET (1..m)
            BY DEF Before
        <3> HIDE DEF h, next
        <3> QED BY <2>1, <2>2, <3>1
    <2> QED BY <2>3, <2>4, <2>5 DEF T
<1> HIDE DEF T
<1>7. 0..m \subseteq T
    <2>1. T \in SUBSET Nat
        BY DEF T
    <2> QED BY <1>1, <1>5, <1>6, <2>1, InductionTo
<1>8. m \in T
    BY <1>1, <1>7
<1> QED
    BY <1>2, <1>8 DEF T

\* What is executed from a position on is what is executed from the next one on.
LEMMA FirstEffectOnward ==
    ASSUME NEW list, Executable(list), NEW v, NEW p \in 1..Len(list), ~Stops(list, p)
    PROVE  FirstEffect(list, p, v) = FirstEffect(list, Onto(list, v, p), v)
<1> DEFINE m == Len(list)
           o == Onto(list, v, p)
           R == Reach(Before(list, v), Stopping(list), m)
<1>1. m \in Nat \ {0}
    BY DelimitedFacts DEF Executable
<1>2. o \in 1..m
    BY OntoStays
<1>3. /\ FirstEffect(list, p, v) = Within(list, v, m, p)
      /\ FirstEffect(list, o, v) = Within(list, v, m, o)
    BY <1>2, WithinFacts
<1> DEFINE h == m - 1
<1>4. h \in 0..(m - 1) /\ h + 1 = m
    BY <1>1
<1> HIDE DEF h
<1>5. Within(list, v, h + 1, p) = Within(list, v, h, o)
    BY <1>4, WithinFacts
<1>6. CASE Within(list, v, h, o) # -1
    <2>1. Within(list, v, h + 1, o) = Within(list, v, h, o)
        BY <1>2, <1>4, <1>6, WithinGrows
    <2> QED BY <1>3, <1>4, <1>5, <2>1
<1>7. CASE Within(list, v, h, o) = -1
    <2>1. Within(list, v, m, p) = -1
        BY <1>4, <1>5, <1>7
    <2>2. p \notin R
        BY <2>1, WithinIsReach
    <2>3. o \notin R
        <3> SUFFICES ASSUME o \in R
                     PROVE  FALSE
            OBVIOUS
        <3>1. IsFiniteSet(1..m) /\ Cardinality(1..m) <= m
            BY <1>1, FS_Interval
        <3>2. Before(list, v) \in [1..m -> SUBSET (1..m)] /\ Stopping(list) \in SUBSET (1..m)
            BY DEF Before, Stopping
        <3>3. Before(list, v)[o] \subseteq R
            BY <1>1, <3>1, <3>2, ReachIsClosed
        <3>4. p \in Before(list, v)[o]
            BY <1>2 DEF Before
        <3> QED BY <2>2, <3>3, <3>4
    <2>4. Within(list, v, m, o) = -1
        BY <1>2, <2>3, WithinIsReach
    <2> QED BY <1>3, <2>1, <2>4
<1> QED
    BY <1>6, <1>7

LEMMA FirstEffectStops ==
    ASSUME NEW list, Executable(list), NEW v, NEW p \in 1..Len(list), Stops(list, p)
    PROVE  FirstEffect(list, p, v) = EffectAt(list, p)
<1>1. Len(list) \in 0..Len(list)
    BY DelimitedFacts DEF Executable
<1> QED
    BY <1>1, WithinFacts

\* Nothing is executed from position a to position b.
Leads(list, v, a, b) ==
    /\ a \in 1..Len(list) /\ b \in 1..Len(list)
    /\ FirstEffect(list, a, v) = FirstEffect(list, b, v)
    /\ \A n \in 0..Len(list) :
           Within(list, v, n, a) # -1 => Within(list, v, n, b) = Within(list, v, n, a)

LEMMA LeadsNowhere ==
    ASSUME NEW list, NEW v, NEW a \in 1..Len(list)
    PROVE  Leads(list, v, a, a)
BY DEF Leads

LEMMA LeadsOn ==
    ASSUME NEW list, NEW v, NEW a, NEW b, NEW c, Leads(list, v, a, b), Leads(list, v, b, c)
    PROVE  Leads(list, v, a, c)
BY DEF Leads

LEMMA LeadsOnto ==
    ASSUME NEW list, Executable(list), NEW v, NEW a \in 1..Len(list), ~Stops(list, a)
    PROVE  Leads(list, v, a, Onto(list, v, a))
<1> DEFINE m == Len(list)
           b == Onto(list, v, a)
<1>1. m \in Nat \ {0}
    BY DelimitedFacts DEF Executable
<1>2. b \in 1..m
    BY OntoStays
<1>3. ASSUME NEW n \in 0..m, Within(list, v, n, a) # -1
      PROVE  Within(list, v, n, b) = Within(list, v, n, a)
    <2>1. n # 0
        BY <1>3, WithinFacts
    <2> DEFINE h == n - 1
    <2>2. h \in 0..(m - 1) /\ h + 1 = n
        BY <1>1, <2>1
    <2> HIDE DEF h, b
    <2>3. Within(list, v, h + 1, a) = Within(list, v, h, b)
        BY <2>2, WithinFacts DEF b
    <2>4. Within(list, v, h, b) # -1
        BY <1>3, <2>2, <2>3
    <2>5. Within(list, v, h + 1, b) = Within(list, v, h, b)
        BY <1>2, <2>2, <2>4, WithinGrows
    <2> QED BY <2>2, <2>3, <2>5
<1> QED
    BY <1>2, <1>3, FirstEffectOnward DEF Leads

-----------------------------------------------------------------------------
(* Lists that execute the same.                                            *)

\* Position k of one list, of those in K, corresponds to position e[k] of the
\* other, and what is executed next does too.
Follows(new, list, v, e, K) ==
    /\ K \subseteq 1..Len(new)
    /\ \A k \in K :
           /\ e[k] \in 1..Len(list)
           /\ Stops(new, k) => FirstEffect(list, e[k], v) = EffectAt(new, k)
           /\ ~Stops(new, k) => /\ ~Stops(list, e[k]) /\ Onto(new, v, k) \in K
                                /\ Leads(list, v, Onto(list, v, e[k]), e[Onto(new, v, k)])

LEMMA FollowsMeans ==
    ASSUME NEW new, NEW list, Executable(new), Executable(list), NEW v, NEW e, NEW K,
           Follows(new, list, v, e, K), NEW k \in K
    PROVE  FirstEffect(new, k, v) = FirstEffect(list, e[k], v)
<1> DEFINE m == Len(new)
           n == Len(list)
<1>1. m \in Nat \ {0} /\ n \in Nat \ {0} /\ K \subseteq 1..m /\ \A j \in K : e[j] \in 1..n
    BY DelimitedFacts DEF Executable, Follows
<1>2. ASSUME NEW j \in K, ~Stops(new, j)
      PROVE  /\ Onto(new, v, j) \in K /\ ~Stops(list, e[j])
             /\ FirstEffect(new, j, v) = FirstEffect(new, Onto(new, v, j), v)
             /\ FirstEffect(list, e[j], v) = FirstEffect(list, e[Onto(new, v, j)], v)
             /\ Leads(list, v, Onto(list, v, e[j]), e[Onto(new, v, j)])
    <2>1. /\ Onto(new, v, j) \in K /\ ~Stops(list, e[j]) /\ j \in 1..m /\ e[j] \in 1..n
          /\ Leads(list, v, Onto(list, v, e[j]), e[Onto(new, v, j)])
        BY <1>1, <1>2 DEF Follows
    <2>2. FirstEffect(new, j, v) = FirstEffect(new, Onto(new, v, j), v)
        BY <1>2, <2>1, FirstEffectOnward
    <2>3. FirstEffect(list, e[j], v) = FirstEffect(list, Onto(list, v, e[j]), v)
        BY <2>1, FirstEffectOnward
    <2> QED BY <2>1, <2>2, <2>3 DEF Leads
<1>3. ASSUME FirstEffect(new, k, v) # -1
      PROVE  FirstEffect(new, k, v) = FirstEffect(list, e[k], v)
    <2> DEFINE Found(i) == \A j \in K : Within(new, v, i, j) # -1 =>
                               Within(new, v, i, j) = FirstEffect(list, e[j], v)
               T == {i \in 0..m : Found(i)}
    <2>0. ASSUME NEW i \in 0..m, NEW j \in K, Stops(new, j)
          PROVE  Within(new, v, i, j) = FirstEffect(list, e[j], v)
        <3>1. FirstEffect(list, e[j], v) = EffectAt(new, j) /\ j \in 1..m
            BY <1>1, <2>0 DEF Follows
        <3> QED BY <2>0, <3>1, WithinFacts
    <2>1. 0 \in T
        <3>1. \A j \in K : Within(new, v, 0, j) # -1 => Stops(new, j)
            BY <1>1, WithinFacts
        <3> QED BY <1>1, <2>0, <3>1
    <2>2. ASSUME NEW i \in 0..(m - 1), i \in T
          PROVE  i + 1 \in T
        <3>1. Found(i) /\ i + 1 \in 0..m
            BY <1>1, <2>2
        <3>2. ASSUME NEW j \in K, Within(new, v, i + 1, j) # -1
              PROVE  Within(new, v, i + 1, j) = FirstEffect(list, e[j], v)
            <4>1. CASE Stops(new, j)
                BY <2>0, <3>1, <4>1
            <4>2. CASE ~Stops(new, j)
                <5> DEFINE o == Onto(new, v, j)
                <5>1. o \in K /\ FirstEffect(list, e[j], v) = FirstEffect(list, e[o], v)
                    BY <1>2, <4>2
                <5>2. Within(new, v, i + 1, j) = Within(new, v, i, o)
                    BY <1>1, <4>2, WithinFacts
                <5>3. Within(new, v, i, o) # -1 =>
                          Within(new, v, i, o) = FirstEffect(list, e[o], v)
                    BY <3>1, <5>1
                <5> HIDE DEF o
                <5> QED BY <3>2, <5>1, <5>2, <5>3
            <4> QED BY <4>1, <4>2
        <3> QED BY <3>1, <3>2
    <2> HIDE DEF T
    <2>3. 0..m \subseteq T
        <3>1. T \in SUBSET Nat
            BY DEF T
        <3> QED BY <1>1, <2>1, <2>2, <3>1, InductionTo
    <2>4. Found(m)
        BY <1>1, <2>3 DEF T
    <2>5. FirstEffect(new, k, v) = Within(new, v, m, k)
        BY <1>1, WithinFacts
    <2> QED BY <1>3, <2>4, <2>5
<1>4. ASSUME FirstEffect(new, k, v) = -1
      PROVE  FirstEffect(list, e[k], v) = -1
    <2> DEFINE Lost == {j \in K : FirstEffect(new, j, v) = -1}
               None(i) == \A j \in Lost : Within(list, v, i, e[j]) = -1
               T == {i \in 0..n : None(i)}
    <2>1. ASSUME NEW j \in Lost
          PROVE  ~Stops(new, j) /\ Onto(new, v, j) \in Lost
        <3>1. ~Stops(new, j)
            <4>1. EffectAt(new, j) \in Nat
                BY <1>1, EffectIsNat DEF Executable
            <4>2. Stops(new, j) => FirstEffect(new, j, v) = EffectAt(new, j)
                BY <1>1, FirstEffectStops
            <4> QED BY <4>1, <4>2
        <3> QED BY <1>2, <3>1
    <2>2. 0 \in T
        <3>1. \A j \in Lost : Within(list, v, 0, e[j]) = -1
            BY <1>1, <1>2, <2>1, WithinFacts
        <3> QED BY <1>1, <3>1
    <2>3. ASSUME NEW i \in 0..(n - 1), i \in T
          PROVE  i + 1 \in T
        <3>1. None(i) /\ i + 1 \in 0..n /\ i \in 0..n
            BY <1>1, <2>3
        <3>2. ASSUME NEW j \in Lost
              PROVE  Within(list, v, i + 1, e[j]) = -1
            <4> DEFINE o == Onto(new, v, j)
                       q == Onto(list, v, e[j])
            <4>1. o \in Lost /\ ~Stops(list, e[j]) /\ Leads(list, v, q, e[o]) /\ e[j] \in 1..n
                BY <1>1, <1>2, <2>1
            <4>2. Within(list, v, i + 1, e[j]) = Within(list, v, i, q)
                BY <4>1, WithinFacts
            <4>3. Within(list, v, i, e[o]) = -1
                BY <3>1, <4>1
            <4>4. Within(list, v, i, q) # -1 => Within(list, v, i, e[o]) = Within(list, v, i, q)
                BY <3>1, <4>1 DEF Leads
            <4> HIDE DEF o, q
            <4> QED BY <4>2, <4>3, <4>4
        <3> QED BY <3>1, <3>2
    <2> HIDE DEF T
    <2>4. 0..n \subseteq T
        <3>1. T \in SUBSET Nat
            BY DEF T
        <3> QED BY <1>1, <2>2, <2>3, <3>1, InductionTo
    <2>5. None(n)
        BY <1>1, <2>4 DEF T
    <2>6. FirstEffect(list, e[k], v) = Within(list, v, n, e[k])
        BY <1>1, WithinFacts
    <2> QED BY <1>4, <2>5, <2>6
<1> QED
    BY <1>3, <1>4

-----------------------------------------------------------------------------
(* Lists without statements that do nothing.                               *)

\* Labels do nothing, nor do jumps and branches to the next statement.
SilentAt(list, p) ==
    /\ list[p].op \notin {"act", "return"}
    /\ list[p].op \in {"jump", "branch"} =>
           p + 1 \in 1..Len(list) /\ list[p + 1] = Label(list[p].target)

LEMMA SilentOnto ==
    ASSUME NEW list, Executable(list), NEW v, NEW p \in 1..Len(list), p # Len(list),
           SilentAt(list, p)
    PROVE  ~Stops(list, p) /\ Onto(list, v, p) = p + 1
<1>1. ~Stops(list, p)
    BY DEF Stops, SilentAt
<1>2. CASE list[p].op \in {"jump", "branch"}
    <2> DEFINE q == p + 1
               l == list[p].target
    <2>1. q \in 1..Len(list) /\ list[q] = Label(l)
        BY <1>2 DEF SilentAt
    <2> HIDE DEF q
    <2>2. IsLabel(list[q]) /\ list[q].id = l
        BY <2>1 DEF Label, IsLabel
    <2>3. Place(list, l) = q
        BY <2>1, <2>2, PlaceOfLabel DEF Executable
    <2> QED BY <1>1, <2>3 DEF Onto, q
<1>3. CASE list[p].op \notin {"jump", "branch"}
    BY <1>1, <1>3 DEF Onto
<1> QED
    BY <1>2, <1>3

LEMMA SilentLeads ==
    ASSUME NEW list, Executable(list), NEW v, NEW i \in 1..Len(list), NEW j \in 1..Len(list),
           i <= j, \A p \in i..(j - 1) : SilentAt(list, p)
    PROVE  Leads(list, v, i, j)
<1> DEFINE d == j - i
           T == {k \in 0..d : Leads(list, v, i, i + k)}
<1>1. d \in Nat /\ Len(list) \in Nat /\ i + d = j
    BY DelimitedFacts DEF Executable
<1>2. 0 \in T
    <2>1. i + 0 = i
        OBVIOUS
    <2> QED BY <1>1, <2>1, LeadsNowhere
<1>3. ASSUME NEW k \in 0..(d - 1), k \in T
      PROVE  k + 1 \in T
    <2> DEFINE q == i + k
    <2>1. Leads(list, v, i, q)
        BY <1>3
    <2>2. q \in i..(j - 1) /\ q \in 1..Len(list) /\ q # Len(list)
        BY <1>1
    <2> HIDE DEF q
    <2>3. ~Stops(list, q) /\ Onto(list, v, q) = q + 1
        BY <2>2, SilentOnto
    <2>4. Leads(list, v, q, q + 1)
        BY <2>2, <2>3, LeadsOnto
    <2>5. Leads(list, v, i, q + 1)
        BY <2>1, <2>4, LeadsOn
    <2>6. q + 1 = i + (k + 1) /\ k + 1 \in 0..d
        BY <1>1 DEF q
    <2> QED BY <2>5, <2>6
<1> HIDE DEF T
<1>4. 0..d \subseteq T
    <2>1. T \in SUBSET Nat
        BY DEF T
    <2> QED BY <1>1, <1>2, <1>3, <2>1, InductionTo
<1>5. Leads(list, v, i, i + d)
    <2>1. d \in 0..d
        BY <1>1
    <2> HIDE DEF d
    <2> QED BY <1>4, <2>1 DEF T
<1> HIDE DEF d
<1> QED
    BY <1>1, <1>5

\* A label that is kept is where its position leads.
LEMMA SelectedPlace ==
    ASSUME NEW new, NEW list, Delimited(new), Delimited(list), NEW D, NEW e,
           Selected(new, list, Len(list), D, e), NEW l \in LabelsOf(new)
    PROVE  e[Place(new, l)] = Place(list, l)
<1> DEFINE p == Place(new, l)
<1>1. p \in 1..Len(new) /\ new[p] = Label(l)
    BY PlaceIsLabel
<1> HIDE DEF p
<1>2. e[p] \in 1..Len(list) /\ list[e[p]] = Label(l)
    BY <1>1 DEF Selected
<1>3. IsLabel(list[e[p]]) /\ list[e[p]].id = l
    BY <1>2 DEF Label, IsLabel
<1>4. Place(list, list[e[p]].id) = e[p]
    BY <1>2, <1>3, PlaceOfLabel
<1> QED
    BY <1>3, <1>4 DEF p

LEMMA ThinnedFollows ==
    ASSUME NEW new, NEW list, Executable(new), Executable(list), NEW v, NEW D, NEW e,
           Selected(new, list, Len(list), D, e),
           \A p \in 1..Len(list) : p \in D => SilentAt(list, p)
    PROVE  Follows(new, list, v, e, 1..Len(new))
<1> DEFINE m == Len(new)
           n == Len(list)
<1>1. /\ m \in Nat \ {0} /\ n \in Nat \ {0} /\ Delimited(new) /\ Delimited(list)
      /\ \A k \in 1..m : new[k] \in Statements
    BY DelimitedFacts DEF Executable
<1>2. ASSUME NEW k \in 1..m
      PROVE  e[k] \in 1..n /\ new[k] = list[e[k]]
    BY <1>2 DEF Selected
<1>3. ASSUME NEW k \in 1..m, Stops(new, k)
      PROVE  FirstEffect(list, e[k], v) = EffectAt(new, k)
    <2>1. CASE new[k].op \in {"act", "return"}
        <3>1. Stops(list, e[k]) /\ EffectAt(list, e[k]) = EffectAt(new, k)
            BY <1>2, <2>1 DEF Stops, EffectAt
        <3> QED BY <1>2, <3>1, FirstEffectStops
    <2>2. CASE new[k].op \notin {"act", "return"}
        <3>1. k = m
            BY <1>3, <2>2 DEF Stops
        <3>2. IsLabel(new[k]) /\ IsLabel(list[n])
            BY <1>1, <3>1 DEF Delimited
        <3>3. \A p \in (e[k] + 1)..n : p \in D
            BY <1>1, <3>1, SelectedLast
        <3>4. ASSUME NEW p \in e[k]..(n - 1)
              PROVE  SilentAt(list, p)
            <4>1. CASE p = e[k]
                BY <1>2, <3>2, <4>1 DEF SilentAt, IsLabel
            <4>2. CASE p # e[k]
                <5>1. p \in 1..n /\ p \in (e[k] + 1)..n
                    BY <1>1, <1>2, <4>2
                <5> QED BY <3>3, <5>1
            <4> QED BY <4>1, <4>2
        <3>5. e[k] <= n /\ n \in 1..n
            BY <1>1, <1>2
        <3>6. Leads(list, v, e[k], n)
            BY <1>2, <3>4, <3>5, SilentLeads
        <3>7. FirstEffect(list, n, v) = EffectAt(list, n)
            BY <3>5, FirstEffectStops DEF Stops
        <3>8. EffectAt(list, n) = 0 /\ EffectAt(new, k) = 0
            BY <3>2 DEF EffectAt, IsLabel
        <3> QED BY <3>6, <3>7, <3>8 DEF Leads
    <2> QED BY <2>1, <2>2
<1>4. ASSUME NEW k \in 1..m, ~Stops(new, k)
      PROVE  /\ ~Stops(list, e[k]) /\ Onto(new, v, k) \in 1..m
             /\ Leads(list, v, Onto(list, v, e[k]), e[Onto(new, v, k)])
    <2>1. k \in 1..(m - 1) /\ k + 1 \in 1..m
        BY <1>1, <1>4 DEF Stops
    <2>2. e[k] \in 1..n /\ e[k + 1] \in 1..n /\ e[k] < e[k + 1] /\ Gone(D, e[k], e[k + 1])
        BY <1>1, <2>1, SelectedBetween
    <2>3. ~Stops(list, e[k])
        BY <1>1, <1>2, <1>4, <2>2 DEF Stops
    <2>4. Onto(new, v, k) \in 1..m
        BY <1>4, OntoStays
    <2>5. CASE new[k].op = "jump" \/ (new[k].op = "branch" /\ v[new[k].id])
        <3> DEFINE l == new[k].target
        <3>1. Onto(new, v, k) = Place(new, l) /\ Onto(list, v, e[k]) = Place(list, l)
            BY <1>2, <2>5 DEF Onto
        <3>2. l \in LabelsOf(new)
            BY <1>1, <2>5, StatementFacts DEF Executable, Targeted
        <3>3. e[Place(new, l)] = Place(list, l)
            BY <1>1, <3>2, SelectedPlace
        <3>4. Onto(list, v, e[k]) \in 1..n
            BY <2>2, <2>3, OntoStays
        <3> QED BY <2>3, <2>4, <3>1, <3>3, <3>4, LeadsNowhere
    <2>6. CASE ~(new[k].op = "jump" \/ (new[k].op = "branch" /\ v[new[k].id]))
        <3>1. Onto(new, v, k) = k + 1 /\ Onto(list, v, e[k]) = e[k] + 1
            BY <1>2, <2>6 DEF Onto
        <3> DEFINE p == e[k] + 1
                   q == e[k + 1]
        <3>2. p \in 1..n /\ q \in 1..n /\ p <= q
            BY <1>1, <2>2
        <3>3. \A h \in p..(q - 1) : h \in 1..n /\ h \in D
            BY <2>2, <3>2 DEF Gone
        <3> HIDE DEF p, q
        <3>4. \A h \in p..(q - 1) : SilentAt(list, h)
            BY <3>3
        <3>5. Leads(list, v, p, q)
            BY <3>2, <3>4, SilentLeads
        <3> QED BY <2>3, <2>4, <3>1, <3>5 DEF p, q
    <2> QED BY <2>5, <2>6
<1> QED
    BY <1>2, <1>3, <1>4 DEF Follows

-----------------------------------------------------------------------------
(* What the start and each statement with an effect are followed by.       *)

ActPlace(list, id) == CHOOSE i \in DOMAIN list : list[i].op = "act" /\ list[i].id = id

\* Both lists have the same effect first, and the same one after each statement
\* of the new list, whichever way any branches go.
Same(new, old) ==
    /\ IdsOf(new, "act") \subseteq IdsOf(old, "act")
    /\ \A v : /\ FirstEffect(new, 1, v) = FirstEffect(old, 1, v)
              /\ \A id \in IdsOf(new, "act") :
                     FirstEffect(new, ActPlace(new, id) + 1, v) =
                         FirstEffect(old, ActPlace(old, id) + 1, v)

LEMMA SameMeans ==
    ASSUME NEW new, NEW old, Same(new, old)
    PROVE  SameMeaning(new, old)
BY DEF Same, SameMeaning, ActPlace

LEMMA SameIsReflexive ==
    ASSUME NEW list
    PROVE  Same(list, list)
BY DEF Same

LEMMA SameIsTransitive ==
    ASSUME NEW list1, NEW list2, NEW list3, Same(list1, list2), Same(list2, list3)
    PROVE  Same(list1, list3)
BY DEF Same

LEMMA SameIsSymmetric ==
    ASSUME NEW list1, NEW list2, Same(list1, list2),
           IdsOf(list2, "act") \subseteq IdsOf(list1, "act")
    PROVE  Same(list2, list1)
BY DEF Same

LEMMA IdsMeans ==
    ASSUME NEW list, Delimited(list), NEW op, NEW id
    PROVE  id \in IdsOf(list, op) <=> \E i \in 1..Len(list) : list[i].op = op /\ list[i].id = id
BY DelimitedFacts DEF IdsOf

LEMMA ActPlaceMeans ==
    ASSUME NEW list, Delimited(list), NEW i \in 1..Len(list), list[i].op = "act"
    PROVE  ActPlace(list, list[i].id) = i /\ i + 1 \in 1..Len(list)
<1>1. \A j \in 1..Len(list) : list[j].op = "act" /\ list[j].id = list[i].id => j = i
    BY DEF Delimited, IsLabel
<1>2. DOMAIN list = 1..Len(list) /\ Len(list) \in Nat
    BY DelimitedFacts
<1>3. i # Len(list)
    BY DEF Delimited, IsLabel
<1>4. ActPlace(list, list[i].id) = i
    BY <1>1, <1>2 DEF ActPlace
<1>5. i + 1 \in 1..Len(list)
    <2> DEFINE n == Len(list)
    <2>1. n \in Nat /\ i \in 1..n /\ i # n
        BY <1>2, <1>3
    <2> HIDE DEF n
    <2>2. i + 1 \in 1..n
        BY ONLY <2>1
    <2> QED BY <2>2 DEF n
<1> QED
    BY <1>4, <1>5

\* A statement with an effect corresponds to itself, and what follows it too.
Corresponds(new, list, v, e, K) ==
    /\ Follows(new, list, v, e, K)
    /\ 1 \in K /\ e[1] = 1
    /\ \A k \in 1..Len(new) : new[k].op = "act" =>
           /\ k + 1 \in K /\ e[k] \in 1..Len(list)
           /\ list[e[k]].op = "act" /\ list[e[k]].id = new[k].id
           /\ Leads(list, v, e[k] + 1, e[k + 1])

LEMMA CorrespondsIsSame ==
    ASSUME NEW new, NEW list, Executable(new), Executable(list), NEW e, NEW K,
           \A v : Corresponds(new, list, v, e, K)
    PROVE  Same(new, list)
<1>0. Delimited(new) /\ Delimited(list)
    BY DEF Executable
<1>1. \A k \in 1..Len(new) : new[k].op = "act" =>
          /\ e[k] \in 1..Len(list) /\ list[e[k]].op = "act" /\ list[e[k]].id = new[k].id
    BY DEF Corresponds
<1>2. ASSUME NEW id \in IdsOf(new, "act")
      PROVE  id \in IdsOf(list, "act")
    <2>1. PICK k \in 1..Len(new) : new[k].op = "act" /\ new[k].id = id
        BY <1>0, IdsMeans
    <2> QED BY <1>0, <1>1, <2>1, IdsMeans
<1>3. ASSUME NEW v
      PROVE  FirstEffect(new, 1, v) = FirstEffect(list, 1, v)
    <2>1. Follows(new, list, v, e, K) /\ 1 \in K /\ e[1] = 1
        BY DEF Corresponds
    <2>2. FirstEffect(new, 1, v) = FirstEffect(list, e[1], v)
        BY <2>1, FollowsMeans
    <2> QED BY <2>1, <2>2
<1>4. ASSUME NEW v, NEW id \in IdsOf(new, "act")
      PROVE  FirstEffect(new, ActPlace(new, id) + 1, v) = FirstEffect(list, ActPlace(list, id) + 1, v)
    <2>1. PICK k \in 1..Len(new) : new[k].op = "act" /\ new[k].id = id
        BY <1>0, IdsMeans
    <2>2. ActPlace(new, id) = k
        BY <1>0, <2>1, ActPlaceMeans
    <2>3. ActPlace(list, id) = e[k]
        BY <1>0, <1>1, <2>1, ActPlaceMeans
    <2>4. Follows(new, list, v, e, K) /\ k + 1 \in K /\ Leads(list, v, e[k] + 1, e[k + 1])
        BY <2>1 DEF Corresponds
    <2> DEFINE h == k + 1
    <2>5. h \in K
        BY <2>4
    <2> HIDE DEF h
    <2>6. FirstEffect(new, h, v) = FirstEffect(list, e[h], v)
        BY <2>4, <2>5, FollowsMeans
    <2>7. FirstEffect(list, e[k] + 1, v) = FirstEffect(list, e[h], v)
        BY <2>4 DEF Leads, h
    <2> QED BY <2>2, <2>3, <2>6, <2>7 DEF h
<1> QED
    BY <1>2, <1>3, <1>4 DEF Same

\* Statements that do nothing can go.
LEMMA ThinnedIsSame ==
    ASSUME NEW new, NEW list, Executable(new), Executable(list), NEW D, NEW e,
           Selected(new, list, Len(list), D, e), 1 \notin D,
           \A p \in 1..Len(list) : p \in D => SilentAt(list, p)
    PROVE  Same(new, list) /\ IdsOf(list, "act") \subseteq IdsOf(new, "act")
<1> DEFINE m == Len(new)
           n == Len(list)
<1>1. m \in Nat \ {0} /\ n \in Nat \ {0} /\ Delimited(new) /\ Delimited(list)
    BY DelimitedFacts DEF Executable
<1>2. e[1] = 1 /\ 1 \in 1..m
    BY <1>1, SelectedEnds
<1>3. ASSUME NEW v
      PROVE  Corresponds(new, list, v, e, 1..m)
    <2>1. Follows(new, list, v, e, 1..m)
        BY ThinnedFollows
    <2>2. ASSUME NEW k \in 1..m, new[k].op = "act"
          PROVE  /\ k + 1 \in 1..m /\ e[k] \in 1..n
                 /\ list[e[k]].op = "act" /\ list[e[k]].id = new[k].id
                 /\ Leads(list, v, e[k] + 1, e[k + 1])
        <3>1. k + 1 \in 1..m /\ k \in 1..(m - 1)
            BY <1>1, <2>2, ActPlaceMeans
        <3>2. new[k] = list[e[k]] /\ e[k] \in 1..n
            BY DEF Selected
        <3>3. e[k + 1] \in 1..n /\ e[k] < e[k + 1] /\ Gone(D, e[k], e[k + 1])
            BY <1>1, <3>1, SelectedBetween
        <3> DEFINE p == e[k] + 1
                   q == e[k + 1]
        <3>4. p \in 1..n /\ q \in 1..n /\ p <= q
            BY <1>1, <3>2, <3>3
        <3>5. \A h \in p..(q - 1) : h \in 1..n /\ h \in D
            BY <3>3, <3>4 DEF Gone
        <3> HIDE DEF p, q
        <3>6. \A h \in p..(q - 1) : SilentAt(list, h)
            BY <3>5
        <3>7. Leads(list, v, p, q)
            BY <3>4, <3>6, SilentLeads
        <3> QED BY <2>2, <3>1, <3>2, <3>7 DEF p, q
    <2> QED BY <1>2, <2>1, <2>2 DEF Corresponds
<1>4. ASSUME NEW id \in IdsOf(list, "act")
      PROVE  id \in IdsOf(new, "act")
    <2>1. PICK i \in 1..n : list[i].op = "act" /\ list[i].id = id
        BY <1>1, IdsMeans
    <2>2. i \notin D
        BY <2>1 DEF SilentAt
    <2>3. PICK k \in 1..m : e[k] = i
        BY <2>2 DEF Selected
    <2>4. new[k] = list[i]
        BY <2>3 DEF Selected
    <2> QED BY <1>1, <2>1, <2>4, IdsMeans
<1> QED
    BY <1>3, <1>4, CorrespondsIsSame

-----------------------------------------------------------------------------
(* The passes that add and delete labels, and jumps to the next statement. *)

LEMMA InsertedIsSame ==
    ASSUME NEW list, Executable(list), NEW i \in 1..(Len(list) - 1),
           NEW l \in Nat \ {0}, l \notin LabelsOf(list),
           NEW new, new = Inserting(list, i, l)
    PROVE  Same(new, list)
<1>1. Delimited(list) /\ Targeted(list)
    BY DEF Executable
<1>2. Delimited(new) /\ Targeted(new) /\ new[i + 1] = Label(l)
    BY <1>1, InsertedDelimited, InsertedTargeted
<1>3. PICK e : Selected(list, new, Len(new), {i + 1}, e)
    BY <1>1, InsertedDelimited
<1>4. \A p \in 1..Len(new) : p \in {i + 1} => SilentAt(new, p)
    BY <1>2 DEF SilentAt, Label
<1>5. 1 \notin {i + 1}
    OBVIOUS
<1>6. Executable(new)
    BY <1>2 DEF Executable
<1> DEFINE D == {i + 1}
<1> HIDE DEF D
<1>7. Same(list, new) /\ IdsOf(new, "act") \subseteq IdsOf(list, "act")
    <2>1. Selected(list, new, Len(new), D, e) /\ 1 \notin D
          /\ \A p \in 1..Len(new) : p \in D => SilentAt(new, p)
        BY <1>3, <1>4, <1>5 DEF D
    <2> QED BY <1>6, <2>1, ThinnedIsSame
<1> QED
    BY <1>7, SameIsSymmetric

LEMMA DroppedIsSame ==
    ASSUME NEW list, Executable(list), NEW new, Executable(new), new = Without(list, ToNext(list))
    PROVE  Same(new, list)
<1> DEFINE D == ToNext(list)
<1>1. Delimited(list)
    BY DEF Executable
<1>2. \A i \in 1..Len(list) : i \in D => SilentAt(list, i)
    <2> SUFFICES ASSUME NEW i \in D
                 PROVE  SilentAt(list, i)
        OBVIOUS
    <2>1. list[i].op \in {"jump", "branch"} /\ i + 1 \in 1..Len(list)
        BY <1>1, ToNextFacts
    <2>2. list[i + 1] = Label(list[i].target)
        BY DEF ToNext
    <2> QED BY <2>1, <2>2 DEF SilentAt
<1>3. 1 \notin D /\ Len(list) \notin D
    <2>1. \A i \in 1..Len(list) : IsLabel(list[i]) => i \notin D
        BY <1>1, ToNextFacts
    <2> HIDE DEF D
    <2> QED BY <1>1, <2>1, WithoutOthers
<1> HIDE DEF D
<1>4. PICK e : Selected(new, list, Len(list), D, e)
    BY <1>1, <1>3, WithoutDelimited DEF D
<1> QED
    BY <1>2, <1>3, <1>4, ThinnedIsSame

LEMMA LabelsIsSame ==
    ASSUME NEW list, Executable(list), Closed(list),
           NEW new, Executable(new), new = Without(list, Unneeded(list))
    PROVE  Same(new, list)
<1> DEFINE D == Unneeded(list)
<1>1. Delimited(list)
    BY DEF Executable
<1>2. \A i \in 1..Len(list) : i \in D => SilentAt(list, i)
    BY DEF Unneeded, SilentAt, IsLabel
<1>3. 1 \notin D /\ Len(list) \notin D
    BY <1>1, UnneededFacts
<1> HIDE DEF D
<1>4. PICK e : Selected(new, list, Len(list), D, e)
    BY <1>1, <1>3, WithoutDelimited DEF D
<1> QED
    BY <1>2, <1>3, <1>4, ThinnedIsSame

\* A jump to the first of the labels that follow each other passes the others.
LEMMA RedirectedIsSame ==
    ASSUME NEW list, Executable(list)
    PROVE  Executable(Redirected(list)) /\ Same(Redirected(list), list)
<1> DEFINE new == Redirected(list)
           n == Len(list)
           e == [k \in 1..n |-> k]
<1>1. Delimited(list) /\ Targeted(list) /\ n \in Nat \ {0} /\ \A k \in 1..n : list[k] \in Statements
    BY DelimitedFacts DEF Executable
<1>2. Delimited(new) /\ Len(new) = n
    BY <1>1, RedirectedList
<1>3. ASSUME NEW k \in 1..n
      PROVE  /\ new[k].op = list[k].op /\ new[k].id = list[k].id
             /\ list[k].target = 0 => new[k].target = 0
    BY <1>1, RedirectedStatement
<1>4. ASSUME NEW k \in 1..n, list[k].target # 0
      PROVE  LET p == Place(list, list[k].target)
             IN  /\ p \in 1..n
                 /\ \E j \in 1..p : /\ IsLabel(list[j]) /\ list[j].id = new[k].target
                                    /\ \A h \in j..p : IsLabel(list[h])
    <2>1. list[k].target \in LabelsOf(list)
        BY <1>1, <1>4 DEF Targeted
    <2> QED BY <1>1, <1>4, <2>1, PlaceIsLabel, RedirectedStatement
<1> HIDE DEF new, n
<1>5. Targeted(new)
    <2> SUFFICES ASSUME NEW k \in 1..n, new[k].target # 0
                 PROVE  new[k].target \in LabelsOf(new)
        BY <1>2 DEF Targeted
    <2>1. list[k].target # 0
        BY <1>3
    <2> DEFINE p == Place(list, list[k].target)
    <2>2. p \in 1..n /\ \E j \in 1..p : IsLabel(list[j]) /\ list[j].id = new[k].target
        BY <1>4, <2>1
    <2> HIDE DEF p
    <2>3. PICK j \in 1..p : IsLabel(list[j]) /\ list[j].id = new[k].target
        BY <2>2
    <2>4. j \in 1..n
        BY <1>1, <2>2
    <2>5. IsLabel(new[j]) /\ new[j].id = new[k].target
        BY <1>3, <2>3, <2>4 DEF IsLabel
    <2> QED BY <1>2, <2>4, <2>5, LabelsMeans
<1>6. Executable(new)
    BY <1>2, <1>5 DEF Executable
<1>7. ASSUME NEW v, NEW k \in 1..n, ~Stops(list, k)
      PROVE  /\ ~Stops(new, k) /\ Onto(list, v, k) \in 1..n
             /\ Leads(new, v, Onto(new, v, k), Onto(list, v, k))
    <2>1. ~Stops(new, k)
        BY <1>2, <1>3, <1>7 DEF Stops, n
    <2>2. Onto(list, v, k) \in 1..n /\ Onto(new, v, k) \in 1..n
        BY <1>2, <1>6, <1>7, <2>1, OntoStays DEF n
    <2>3. CASE list[k].op = "jump" \/ (list[k].op = "branch" /\ v[list[k].id])
        <3> DEFINE p == Place(list, list[k].target)
        <3>1. list[k].target # 0
            BY <1>1, <2>3, StatementFacts
        <3>2. p \in 1..n /\ \E j \in 1..p : /\ IsLabel(list[j]) /\ list[j].id = new[k].target
                                            /\ \A h \in j..p : IsLabel(list[h])
            BY <1>4, <3>1
        <3>3. Onto(list, v, k) = p /\ Onto(new, v, k) = Place(new, new[k].target)
            BY <1>3, <2>3 DEF Onto
        <3> HIDE DEF p
        <3>4. PICK j \in 1..p : /\ IsLabel(list[j]) /\ list[j].id = new[k].target
                                /\ \A h \in j..p : IsLabel(list[h])
            BY <3>2
        <3>5. j \in 1..n /\ j <= p
            BY <1>1, <3>2
        <3>6. IsLabel(new[j]) /\ new[j].id = new[k].target
            BY <1>3, <3>4, <3>5 DEF IsLabel
        <3>7. Place(new, new[k].target) = j
            BY <1>2, <3>5, <3>6, PlaceOfLabel
        <3>8. ASSUME NEW h \in j..(p - 1)
              PROVE  SilentAt(new, h)
            <4>1. h \in 1..n /\ h \in j..p
                BY <1>1, <3>2, <3>5
            <4>2. new[h].op = "label"
                BY <1>3, <3>4, <4>1 DEF IsLabel
            <4> QED BY <4>2 DEF SilentAt
        <3>9. Leads(new, v, j, p)
            BY <1>2, <1>6, <3>2, <3>5, <3>8, SilentLeads
        <3> QED BY <2>1, <2>2, <3>3, <3>7, <3>9
    <2>4. CASE ~(list[k].op = "jump" \/ (list[k].op = "branch" /\ v[list[k].id]))
        <3>1. Onto(list, v, k) = k + 1 /\ Onto(new, v, k) = k + 1
            BY <1>3, <2>4 DEF Onto
        <3> QED BY <1>2, <2>1, <2>2, <3>1, LeadsNowhere
    <2> QED BY <2>3, <2>4
<1>8. ASSUME NEW v
      PROVE  Corresponds(list, new, v, e, 1..n)
    <2>1. \A k \in 1..n : e[k] = k
        OBVIOUS
    <2> HIDE DEF e
    <2>2. ASSUME NEW k \in 1..n, Stops(list, k)
          PROVE  FirstEffect(new, e[k], v) = EffectAt(list, k)
        <3>1. Stops(new, k) /\ EffectAt(new, k) = EffectAt(list, k)
            BY <1>2, <1>3, <2>2 DEF Stops, EffectAt, n
        <3>2. FirstEffect(new, k, v) = EffectAt(new, k)
            BY <1>2, <1>6, <3>1, FirstEffectStops
        <3> QED BY <2>1, <3>1, <3>2
    <2>3. Follows(list, new, v, e, 1..n)
        BY <1>2, <1>7, <2>1, <2>2 DEF Follows, n
    <2>4. ASSUME NEW k \in 1..n, list[k].op = "act"
          PROVE  /\ k + 1 \in 1..n /\ e[k] \in 1..Len(new)
                 /\ new[e[k]].op = "act" /\ new[e[k]].id = list[k].id
                 /\ Leads(new, v, e[k] + 1, e[k + 1])
        <3>1. k + 1 \in 1..n
            BY <1>1, <2>4, ActPlaceMeans DEF n
        <3>2. Leads(new, v, k + 1, k + 1)
            BY <1>2, <3>1, LeadsNowhere
        <3> QED BY <1>2, <1>3, <2>1, <2>4, <3>1, <3>2
    <2> QED BY <1>1, <2>1, <2>3, <2>4 DEF Corresponds, n
<1>9. Same(list, new)
    <2> HIDE DEF e
    <2> QED BY <1>6, <1>8, CorrespondsIsSame DEF n
<1>10. ASSUME NEW id \in IdsOf(new, "act")
       PROVE  id \in IdsOf(list, "act")
    <2>1. PICK k \in 1..n : new[k].op = "act" /\ new[k].id = id
        BY <1>2, IdsMeans
    <2> QED BY <1>1, <1>3, <2>1, IdsMeans DEF n
<1>11. Same(new, list)
    BY <1>9, <1>10, SameIsSymmetric
<1> QED
    BY <1>6, <1>11 DEF new

LEMMA MergedIsSame ==
    ASSUME NEW list, Executable(list), Closed(list)
    PROVE  Same(Merged(list), list)
<1> DEFINE old == Redirected(list)
           new == Merged(list)
           D == Adjacent(list)
<1>1. Delimited(list) /\ Targeted(list)
    BY DEF Executable
<1>2. Executable(old) /\ Same(old, list)
    BY RedirectedIsSame
<1>3. Delimited(new) /\ Targeted(new)
    BY <1>1, MergedList
<1>4. PICK e : Selected(new, old, Len(list), D, e)
    BY <1>1, MergedList
<1>5. Len(old) = Len(list) /\ Adjacent(old) = D
    BY <1>1, RedirectedList
<1>6. \A i \in 1..Len(old) : i \in D => SilentAt(old, i)
    BY <1>5 DEF Adjacent, SilentAt, IsLabel
<1>7. 1 \notin D
    BY DEF Adjacent
<1>8. Executable(new)
    BY <1>3 DEF Executable
<1> HIDE DEF old, new, D
<1>9. Same(new, old)
    <2>1. Selected(new, old, Len(old), D, e)
        BY <1>4, <1>5
    <2> QED BY <1>2, <1>6, <1>7, <1>8, <2>1, ThinnedIsSame
<1>10. Same(new, list)
    BY <1>2, <1>9, SameIsTransitive
<1> QED
    BY <1>10 DEF new

-----------------------------------------------------------------------------
(* eliminateMultipleJumps: all along the list comes from the one before it, *)
(* in which the labels that are gone still lead where they are forwarded.   *)

\* The targets of other are where those of list lead.
Retargeted(other, list) ==
    /\ other \in Seq(Statements) /\ Len(other) = Len(list)
    /\ \A i \in 1..Len(list) :
           /\ other[i].op = list[i].op /\ other[i].id = list[i].id
           /\ list[i].op \in {"jump", "branch"} =>
                  /\ other[i].target \in LabelsOf(list)
                  /\ \A v : Leads(list, v, Place(list, list[i].target), Place(list, other[i].target))

\* A label that is forwarded is followed by a jump to where it is forwarded.
Known(list, fwd) ==
    \A l \in DOMAIN fwd : fwd[l] # 0 =>
        /\ l \in LabelsOf(list) /\ fwd[l] \in LabelsOf(list)
        /\ Place(list, l) + 1 \in 1..Len(list)
        /\ list[Place(list, l) + 1].op = "jump"
        /\ list[Place(list, l) + 1].target = fwd[l]

\* Labels that nothing falls into are deleted, with the jumps that follow them.
Skipped(list, D) ==
    \A p \in D :
        /\ p \in 1..Len(list)
        /\ IsLabel(list[p]) => /\ p > 1 /\ ~FallsThru(list[p - 1])
                               /\ p + 1 \in 1..Len(list) /\ list[p + 1].op = "jump"
        /\ ~IsLabel(list[p]) => list[p].op = "jump" /\ p - 1 \in D

Threading(new, list, other, fwd, D, e) ==
    /\ Executable(list) /\ Retargeted(other, list)
    /\ Selected(new, other, Len(list), D, e)
    /\ Skipped(list, D) /\ Known(list, fwd)

\* Before the pass nothing is forwarded yet.
LEMMA ThreadingStarts ==
    ASSUME NEW list, Executable(list)
    PROVE  \E e : Threading(list, list, list, [l \in LabelsOf(list) |-> 0], {}, e)
<1> DEFINE n == Len(list)
           e == [k \in 1..n |-> k]
<1>1. n \in Nat /\ list \in Seq(Statements) /\ \A i \in 1..n : list[i] \in Statements
    BY DelimitedFacts DEF Executable, Delimited
<1>2. Selected(list, list, n, {}, e)
    BY DEF Selected
<1>3. ASSUME NEW i \in 1..n, list[i].op \in {"jump", "branch"}
      PROVE  /\ list[i].target \in LabelsOf(list)
             /\ \A v : Leads(list, v, Place(list, list[i].target), Place(list, list[i].target))
    <2>1. list[i].target \in LabelsOf(list)
        BY <1>1, <1>3, StatementFacts DEF Executable, Targeted
    <2>2. Place(list, list[i].target) \in 1..n
        BY <2>1, PlaceIsLabel DEF Executable
    <2> QED BY <2>1, <2>2, LeadsNowhere
<1>4. Retargeted(list, list)
    BY <1>1, <1>3 DEF Retargeted
<1>5. Known(list, [l \in LabelsOf(list) |-> 0])
    BY DEF Known
<1>6. Skipped(list, {})
    BY DEF Skipped
<1> HIDE DEF e
<1> QED
    BY <1>2, <1>4, <1>5, <1>6 DEF Threading

LEMMA ThreadingFacts ==
    ASSUME NEW new, NEW list, NEW other, NEW fwd, NEW D, NEW e,
           Threading(new, list, other, fwd, D, e), NEW k \in 1..Len(new)
    PROVE  /\ e[k] \in (1..Len(list)) \ D /\ other[e[k]] = new[k]
           /\ list[e[k]].op = new[k].op /\ list[e[k]].id = new[k].id
           /\ list[e[k]] \in Statements /\ new[k] \in Statements
           /\ FallsThru(list[e[k]]) <=> FallsThru(new[k])
           /\ IsLabel(list[e[k]]) <=> IsLabel(new[k])
<1>1. e[k] \in (1..Len(list)) \ D /\ other[e[k]] = new[k]
    BY DEF Threading, Selected
<1>2. list[e[k]].op = new[k].op /\ list[e[k]].id = new[k].id
    BY <1>1 DEF Threading, Retargeted
<1>3. list[e[k]] \in Statements
    BY <1>1, DelimitedFacts DEF Threading, Executable
<1>4. new[k] \in Statements
    BY <1>1 DEF Threading, Retargeted
<1> QED
    BY <1>1, <1>2, <1>3, <1>4 DEF FallsThru, IsLabel

\* Nothing is deleted after a statement that falls through.
LEMMA ThreadingNext ==
    ASSUME NEW new, NEW list, NEW other, NEW fwd, NEW D, NEW e, Len(new) \in Nat,
           Threading(new, list, other, fwd, D, e), NEW k \in 1..(Len(new) - 1), FallsThru(new[k])
    PROVE  e[k + 1] = e[k] + 1
<1> DEFINE n == Len(list)
           p == e[k] + 1
<1>1. n \in Nat /\ k \in 1..Len(new) /\ Selected(new, other, n, D, e)
    BY DelimitedFacts DEF Threading, Executable
<1>2. e[k] \in 1..n /\ e[k + 1] \in 1..n /\ e[k] < e[k + 1]
    BY <1>1, SelectedBetween
<1>3. p \in 1..n /\ p - 1 = e[k]
    BY <1>1, <1>2
<1>4. e[k] \notin D /\ FallsThru(list[e[k]])
    BY <1>1, ThreadingFacts
<1> HIDE DEF p
<1>5. p \notin D
    BY <1>3, <1>4 DEF Threading, Skipped
<1>6. e[k] < p /\ Gone(D, e[k], p) /\ p \in (1..n) \ D
    BY <1>2, <1>3, <1>5 DEF Gone, p
<1> HIDE DEF n
<1>7. e[k + 1] = p
    BY <1>1, <1>6, SelectedNextKept
<1> QED
    BY <1>7 DEF p

\* The label at position i is forwarded to where the jump after it goes.
ForwardedOn(fwd, list, i) == [fwd EXCEPT ![list[i].id] = list[i + 1].target]

\* Forwarding one more label.
LEMMA ThreadingForwards ==
    ASSUME NEW new, Delimited(new), Closed(new), NEW list, NEW fwd, NEW D, NEW e,
           Threading(new, list, list, fwd, D, e), NEW i \in 1..Len(new), Forwards(new, i),
           new[i].id \in DOMAIN fwd,
           NEW f, f = ForwardedOn(fwd, new, i)
    PROVE  /\ Threading(new, list, list, f, D, e) /\ e[i + 1] = e[i] + 1
           /\ i \in 1..(Len(new) - 1) /\ i + 1 \in 1..Len(new)
<1> DEFINE l == new[i].id
           t == new[i + 1].target
           p == e[i]
<1>1. /\ IsLabel(new[i]) /\ i + 1 \in 1..Len(new) /\ new[i + 1].op = "jump"
    BY ForwardsFacts
<1>2. Len(new) \in Nat /\ i \in 1..(Len(new) - 1)
    BY <1>1, DelimitedFacts
<1>3. FallsThru(new[i])
    BY <1>1 DEF FallsThru, IsLabel
<1>4. e[i + 1] = p + 1
    BY <1>2, <1>3, ThreadingNext
<1>5. p \in 1..Len(list) /\ IsLabel(list[p]) /\ list[p].id = l
    BY <1>1, ThreadingFacts
<1>6. p + 1 \in 1..Len(list) /\ list[p + 1] = new[i + 1] /\ list[p + 1] \in Statements
    <2>1. /\ e[i + 1] \in 1..Len(list) /\ list[e[i + 1]] = new[i + 1]
          /\ list[e[i + 1]] \in Statements
        BY <1>1, ThreadingFacts
    <2> QED BY <1>4, <2>1
<1>7. Executable(list) /\ Delimited(list) /\ Targeted(list)
    BY DEF Threading, Executable
<1>8. Place(list, l) = p /\ l \in LabelsOf(list)
    BY <1>5, <1>7, PlaceOfLabel, LabelsMeans
<1>9. t \in LabelsOf(list)
    <2>1. list[p + 1].target # 0
        BY <1>1, <1>6, StatementFacts
    <2> QED BY <1>6, <1>7, <2>1 DEF Targeted
<1> HIDE DEF p
<1>10. /\ DOMAIN f = DOMAIN fwd /\ f[l] = t
       /\ \A h \in DOMAIN fwd : h # l => f[h] = fwd[h]
    BY DEF ForwardedOn
<1> HIDE DEF l, t
<1>11. Known(list, f)
    <2> SUFFICES ASSUME NEW h \in DOMAIN f, f[h] # 0
                 PROVE  /\ h \in LabelsOf(list) /\ f[h] \in LabelsOf(list)
                        /\ Place(list, h) + 1 \in 1..Len(list)
                        /\ list[Place(list, h) + 1].op = "jump"
                        /\ list[Place(list, h) + 1].target = f[h]
        BY DEF Known
    <2>1. CASE h = l
        BY <1>1, <1>6, <1>8, <1>9, <1>10, <2>1 DEF t
    <2>2. CASE h # l
        <3>1. h \in DOMAIN fwd /\ f[h] = fwd[h] /\ fwd[h] # 0
            BY <1>10, <2>2
        <3>2. Known(list, fwd)
            BY DEF Threading
        <3> QED BY <3>1, <3>2 DEF Known
    <2> QED BY <2>1, <2>2
<1> QED
    BY <1>1, <1>2, <1>4, <1>11 DEF Threading, p

\* What is deleted by deleting E from the list mid that D was deleted from.
Deleted(mid, D, E, e) == D \cup {e[j] : j \in (1..Len(mid)) \cap E}

\* What is left of what is left.
LEMMA SelectedTwice ==
    ASSUME NEW new, NEW mid, NEW list, NEW n, NEW D, NEW E, NEW e, NEW g,
           Selected(mid, list, n, D, e), Selected(new, mid, Len(mid), E, g)
    PROVE  \E h : Selected(new, list, n, Deleted(mid, D, E, e), h)
<1> DEFINE m == Len(mid)
           F == D \cup {e[j] : j \in (1..m) \cap E}
           h == [k \in 1..Len(new) |-> e[g[k]]]
<1>1. /\ e \in [1..m -> (1..n) \ D]
      /\ \A j, k \in 1..m : j < k => e[j] < e[k]
      /\ \A i \in (1..n) \ D : \E k \in 1..m : e[k] = i
      /\ \A k \in 1..m : mid[k] = list[e[k]]
    BY DEF Selected
<1>2. /\ g \in [1..Len(new) -> (1..m) \ E]
      /\ \A j, k \in 1..Len(new) : j < k => g[j] < g[k]
      /\ \A i \in (1..m) \ E : \E k \in 1..Len(new) : g[k] = i
      /\ \A k \in 1..Len(new) : new[k] = mid[g[k]]
    BY DEF Selected
<1> HIDE DEF m
<1>3. \A k \in 1..Len(new) : h[k] = e[g[k]] /\ g[k] \in (1..m) \ E
    BY <1>2
<1>4. \A j, k \in 1..m : e[j] = e[k] => j = k
    <2>1. ASSUME NEW j \in 1..m, NEW k \in 1..m, e[j] = e[k]
          PROVE  j = k
        <3>1. e[j] \in 1..n /\ e[k] \in 1..n /\ j \in Int /\ k \in Int
            BY <1>1
        <3>2. ~(e[j] < e[k]) /\ ~(e[k] < e[j])
            BY <2>1, <3>1
        <3>3. ~(j < k) /\ ~(k < j)
            BY <1>1, <3>2
        <3> QED BY <3>1, <3>3
    <2> QED BY <2>1
<1>5. ASSUME NEW k \in 1..Len(new)
      PROVE  e[g[k]] \in (1..n) \ F
    <2>1. g[k] \in 1..m /\ g[k] \notin E
        BY <1>2
    <2>2. e[g[k]] \in (1..n) \ D
        BY <1>1, <2>1
    <2>3. \A j \in (1..m) \cap E : e[g[k]] # e[j]
        BY <1>4, <2>1
    <2> QED BY <2>2, <2>3
<1>6. h \in [1..Len(new) -> (1..n) \ F]
    BY <1>5
<1> HIDE DEF h
<1>7. \A j, k \in 1..Len(new) : j < k => h[j] < h[k]
    BY <1>1, <1>2, <1>3
<1>8. ASSUME NEW i \in (1..n) \ F
      PROVE  \E k \in 1..Len(new) : h[k] = i
    <2>1. PICK j \in 1..m : e[j] = i
        BY <1>1
    <2>2. j \notin E
        BY <2>1
    <2>3. PICK k \in 1..Len(new) : g[k] = j
        BY <1>2, <2>2
    <2> QED BY <1>3, <2>1, <2>3
<1>9. \A k \in 1..Len(new) : new[k] = list[h[k]]
    BY <1>1, <1>2, <1>3
<1> HIDE DEF F
<1>10. Selected(new, list, n, F, h)
    BY <1>6, <1>7, <1>8, <1>9 DEF Selected
<1> QED
    BY <1>10 DEF F, m, Deleted

\* Deleting a label that is forwarded, and the jump after it.
LEMMA ThreadingDeletes ==
    ASSUME NEW mid, Delimited(mid), Closed(mid), Separated(mid), NEW list, NEW fwd, NEW D, NEW e,
           Threading(mid, list, list, fwd, D, e), NEW i \in 1..Len(mid), Forwards(mid, i),
           Deletable(mid, i), e[i + 1] = e[i] + 1,
           NEW new, new = Without(mid, {i, i + 1})
    PROVE  \E E, h : Threading(new, list, list, fwd, E, h)
<1> DEFINE p == e[i]
           m == Len(mid)
           n == Len(list)
           E == Deleted(mid, D, {i, i + 1}, e)
<1>1. /\ i > 1 /\ i - 1 \in 1..m /\ ~FallsThru(mid[i - 1])
      /\ \E g : Selected(new, mid, m, {i, i + 1}, g)
    BY ThreadDeletes
<1>2. PICK g : Selected(new, mid, m, {i, i + 1}, g)
    BY <1>1
<1>3. IsLabel(mid[i]) /\ i + 1 \in 1..m /\ mid[i + 1].op = "jump"
    BY ForwardsFacts
<1>4. Selected(mid, list, n, D, e) /\ m \in Nat /\ n \in Nat
    BY DelimitedFacts DEF Threading, Executable
<1>5. \E h : Selected(new, list, n, E, h)
    BY <1>2, <1>4, SelectedTwice
<1>6. E = D \cup {p, p + 1}
    BY <1>3 DEF Deleted
<1> HIDE DEF E
<1>7. /\ p \in (1..n) \ D /\ IsLabel(list[p]) /\ list[p] \in Statements
      /\ p + 1 \in 1..n /\ list[p + 1].op = "jump"
    <2>1. p \in (1..n) \ D /\ IsLabel(list[p]) /\ list[p] \in Statements
        BY <1>3, ThreadingFacts
    <2>2. e[i + 1] \in 1..n /\ list[e[i + 1]].op = "jump"
        BY <1>3, ThreadingFacts
    <2> QED BY <2>1, <2>2
<1>8. p > 1 /\ ~FallsThru(list[p - 1])
    <2> DEFINE k == i - 1
    <2>1. k \in 1..m /\ k \in 1..(m - 1) /\ k + 1 = i
        BY <1>1, <1>4
    <2> HIDE DEF k
    <2>2. e[k] \in 1..n /\ e[k + 1] \in 1..n /\ e[k] < e[k + 1] /\ Gone(D, e[k], e[k + 1])
        BY <1>4, <2>1, SelectedBetween
    <2>3. e[k] \in 1..n /\ e[k] < p /\ Gone(D, e[k], p)
        BY <2>1, <2>2
    <2>4. CASE e[k] = p - 1
        <3>1. ~FallsThru(list[e[k]])
            BY <1>1, <2>1, ThreadingFacts DEF k
        <3> QED BY <1>7, <2>3, <2>4, <3>1
    <2>5. CASE e[k] # p - 1
        <3> DEFINE q == p - 1
        <3>1. q \in (e[k] + 1)..(p - 1) /\ q + 1 = p /\ p > 1
            <4>1. p \in 1..n /\ e[k] \in 1..n /\ e[k] < p /\ e[k] # p - 1 /\ n \in Nat
                BY <1>4, <1>7, <2>3, <2>5
            <4> DEFINE r == e[k]
            <4>2. p \in 1..n /\ r \in 1..n /\ r < p /\ r # p - 1 /\ n \in Nat
                BY <4>1
            <4> HIDE DEF r, p, n
            <4>3. p - 1 \in (r + 1)..(p - 1) /\ (p - 1) + 1 = p /\ p > 1
                BY ONLY <4>2
            <4> QED BY <4>3 DEF r
        <3> HIDE DEF q
        <3>2. q \in D
            BY <2>3, <3>1 DEF Gone
        <3>3. list[p].op # "jump"
            BY <1>7 DEF IsLabel
        <3>4. list[q].op = "jump"
            BY <3>1, <3>2, <3>3 DEF Threading, Skipped
        <3> QED BY <3>1, <3>4 DEF FallsThru, q
    <2> QED BY <2>4, <2>5
<1> HIDE DEF p
<1>9. ASSUME NEW q \in E
      PROVE  /\ q \in 1..n
             /\ IsLabel(list[q]) => /\ q > 1 /\ ~FallsThru(list[q - 1])
                                    /\ q + 1 \in 1..n /\ list[q + 1].op = "jump"
             /\ ~IsLabel(list[q]) => list[q].op = "jump" /\ q - 1 \in E
    <2>1. CASE q \in D
        <3>1. Skipped(list, D) /\ D \subseteq E
            BY <1>6 DEF Threading
        <3> QED BY <2>1, <3>1 DEF Skipped
    <2>2. CASE q = p
        BY <1>7, <1>8, <2>2
    <2>3. CASE q = p + 1
        <3>1. q - 1 = p /\ p \in E
            BY <1>6, <1>7, <2>3
        <3>2. ~IsLabel(list[q]) /\ list[q].op = "jump" /\ q \in 1..n
            BY <1>7, <2>3 DEF IsLabel
        <3> QED BY <3>1, <3>2
    <2> QED BY <1>6, <2>1, <2>2, <2>3
<1>10. Skipped(list, E)
    BY <1>9 DEF Skipped
<1>11. PICK h : Selected(new, list, n, E, h)
    BY <1>5
<1>12. Threading(new, list, list, fwd, E, h)
    BY <1>10, <1>11 DEF Threading
<1> QED
    BY <1>12

\* A label that is forwarded leads to the one that it is forwarded to.
LEMMA KnownLeads ==
    ASSUME NEW list, Executable(list), NEW fwd, Known(list, fwd),
           NEW l \in DOMAIN fwd, fwd[l] # 0, NEW v
    PROVE  Leads(list, v, Place(list, l), Place(list, fwd[l]))
<1> DEFINE n == Len(list)
           p == Place(list, l)
           q == p + 1
<1>1. /\ l \in LabelsOf(list) /\ fwd[l] \in LabelsOf(list) /\ q \in 1..n
      /\ list[q].op = "jump" /\ list[q].target = fwd[l]
    BY DEF Known
<1>2. p \in 1..n /\ list[p] = Label(l) /\ Delimited(list) /\ n \in Nat
    BY <1>1, PlaceIsLabel, DelimitedFacts DEF Executable
<1>3. p # n /\ ~Stops(list, p) /\ Onto(list, v, p) = q
    <2>1. p # n
        BY <1>1, <1>2
    <2>2. list[p].op = "label"
        BY <1>2 DEF Label
    <2> QED BY <2>1, <2>2 DEF Stops, Onto
<1>4. ~Stops(list, q) /\ Onto(list, v, q) = Place(list, fwd[l])
    <2>1. q # n
        BY <1>1, <1>2 DEF Delimited, IsLabel
    <2> HIDE DEF q
    <2> QED BY <1>1, <2>1 DEF Stops, Onto
<1> HIDE DEF p, q
<1>5. Leads(list, v, p, q)
    BY <1>2, <1>3, LeadsOnto
<1>6. Leads(list, v, q, Place(list, fwd[l]))
    BY <1>1, <1>4, LeadsOnto
<1>7. Leads(list, v, p, Place(list, fwd[l]))
    BY <1>5, <1>6, LeadsOn
<1> QED
    BY <1>7 DEF p

\* A target is replaced by the label that it is forwarded to.
LEMMA ThreadingChases ==
    ASSUME NEW new, NEW list, NEW other, NEW fwd, NEW D, NEW e, new \in Seq(Statements),
           Threading(new, list, other, fwd, D, e), NEW i \in 1..Len(new),
           new[i].target # 0, new[i].target \in DOMAIN fwd, fwd[new[i].target] # 0
    PROVE  Threading(Forwarded(new, i, fwd), list, Forwarded(other, e[i], fwd), fwd, D, e)
<1> DEFINE n == Len(list)
           p == e[i]
           t == new[i].target
           next == Forwarded(new, i, fwd)
           after == Forwarded(other, p, fwd)
<1>1. /\ Executable(list) /\ Delimited(list) /\ Retargeted(other, list) /\ Selected(new, other, n, D, e)
      /\ Known(list, fwd) /\ Skipped(list, D)
    BY DEF Threading, Executable
<1>2. p \in 1..n /\ other[p] = new[i] /\ list[p].op = new[i].op /\ new[i] \in Statements
    BY ThreadingFacts
<1>3. new[i].op \in {"jump", "branch"} /\ list[p].op \in {"jump", "branch"}
    BY <1>2, StatementFacts
<1>4. /\ t \in LabelsOf(list)
      /\ \A v : Leads(list, v, Place(list, list[p].target), Place(list, t))
    BY <1>1, <1>2, <1>3 DEF Retargeted
<1>5. fwd[t] \in LabelsOf(list) /\ \A v : Leads(list, v, Place(list, t), Place(list, fwd[t]))
    <2>1. fwd[t] \in LabelsOf(list)
        BY <1>1 DEF Known
    <2>2. \A v : Leads(list, v, Place(list, t), Place(list, fwd[t]))
        BY <1>1, KnownLeads
    <2> QED BY <2>1, <2>2
<1>6. \A v : Leads(list, v, Place(list, list[p].target), Place(list, fwd[t]))
    BY <1>4, <1>5, LeadsOn
<1> DEFINE s == [new[i] EXCEPT !.target = fwd[t]]
<1>7. s \in Statements /\ s.op = new[i].op /\ s.id = new[i].id /\ s.target = fwd[t]
    <2>1. fwd[t] \in Nat \ {0}
        BY <1>1, <1>5, PlaceIsLabel
    <2>2. new[i] \in [op : {"jump", "branch"}, id : Nat, target : Nat \ {0}]
        BY <1>2, <1>3 DEF Statements
    <2> HIDE DEF t
    <2> QED BY <2>1, <2>2 DEF Statements
<1>8. next = [new EXCEPT ![i] = s] /\ after = [other EXCEPT ![p] = s]
    BY <1>2 DEF Forwarded
<1> HIDE DEF s, next, after
<1>9. other \in Seq(Statements) /\ Len(other) = n
    BY <1>1 DEF Retargeted
<1>10. /\ after \in Seq(Statements) /\ Len(after) = n /\ after[p] = s
       /\ \A q \in 1..n : q # p => after[q] = other[q]
    BY <1>2, <1>7, <1>8, <1>9
<1>11. /\ Len(next) = Len(new) /\ next[i] = s
       /\ \A k \in 1..Len(new) : k # i => next[k] = new[k]
    BY <1>7, <1>8
<1>12. Retargeted(after, list)
    <2> SUFFICES ASSUME NEW q \in 1..n
                 PROVE  /\ after[q].op = list[q].op /\ after[q].id = list[q].id
                        /\ list[q].op \in {"jump", "branch"} =>
                               /\ after[q].target \in LabelsOf(list)
                               /\ \A v : Leads(list, v, Place(list, list[q].target), Place(list, after[q].target))
        BY <1>10 DEF Retargeted
    <2>1. /\ other[q].op = list[q].op /\ other[q].id = list[q].id
          /\ list[q].op \in {"jump", "branch"} =>
                 /\ other[q].target \in LabelsOf(list)
                 /\ \A v : Leads(list, v, Place(list, list[q].target), Place(list, other[q].target))
        BY <1>1 DEF Retargeted
    <2>2. CASE q = p
        BY <1>2, <1>5, <1>6, <1>7, <1>10, <2>1, <2>2
    <2>3. CASE q # p
        BY <1>10, <2>1, <2>3
    <2> QED BY <2>2, <2>3
<1>13. \A k \in 1..Len(new) : next[k] = after[e[k]]
    <2> SUFFICES ASSUME NEW k \in 1..Len(new)
                 PROVE  next[k] = after[e[k]]
        OBVIOUS
    <2>1. CASE k = i
        BY <1>10, <1>11, <2>1
    <2>2. CASE k # i
        <3>1. e[k] \in 1..n /\ new[k] = other[e[k]]
            BY <1>1 DEF Selected
        <3>2. e[k] # p
            <4>1. Len(new) \in Nat /\ e[k] \in Int /\ p \in Int
                BY <1>2, <3>1
            <4>2. (k < i => e[k] < e[i]) /\ (i < k => e[i] < e[k])
                BY <1>1 DEF Selected
            <4> QED BY <2>2, <4>1, <4>2
        <3> QED BY <1>10, <1>11, <2>2, <3>1, <3>2
    <2> QED BY <2>1, <2>2
<1>14. Selected(next, after, n, D, e)
    BY <1>1, <1>11, <1>13 DEF Selected
<1> QED
    BY <1>1, <1>12, <1>14 DEF Threading, next, after

\* When every target is there again, the list means what it did before the pass.
LEMMA ThreadingEnds ==
    ASSUME NEW new, NEW list, NEW other, NEW fwd, NEW D, NEW e, Executable(new),
           Threading(new, list, other, fwd, D, e)
    PROVE  Same(new, list)
<1> DEFINE m == Len(new)
           n == Len(list)
<1>1. /\ Executable(list) /\ Delimited(list) /\ Retargeted(other, list)
      /\ Selected(new, other, n, D, e) /\ Skipped(list, D)
      /\ Delimited(new) /\ Targeted(new)
    BY DEF Threading, Executable
<1>2. m \in Nat \ {0} /\ n \in Nat \ {0} /\ 1 \in 1..m
    BY <1>1, DelimitedFacts
<1>3. e[1] = 1 /\ e[m] = n
    <2>1. IsLabel(list[1]) /\ IsLabel(list[n]) /\ ~(1 > 1) /\ n + 1 \notin 1..n
        BY <1>1, <1>2 DEF Delimited
    <2>2. 1 \notin D /\ n \notin D
        BY <1>1, <2>1 DEF Skipped
    <2> QED BY <1>1, <1>2, <2>2, SelectedEnds
<1>4. ASSUME NEW k \in 1..m
      PROVE  /\ e[k] \in 1..n /\ other[e[k]] = new[k] /\ new[k] \in Statements
             /\ list[e[k]].op = new[k].op /\ list[e[k]].id = new[k].id
    BY ThreadingFacts
<1>5. ASSUME NEW k \in 1..m, k # m
      PROVE  k \in 1..(m - 1) /\ k + 1 \in 1..m /\ e[k] # n
    <2>1. k \in 1..(m - 1) /\ k + 1 \in 1..m
        BY <1>2, <1>5
    <2>2. e[k] \in 1..n /\ e[k + 1] \in 1..n /\ e[k] < e[k + 1]
        BY <1>1, <1>2, <2>1, SelectedBetween
    <2> QED BY <1>2, <2>1, <2>2
<1>6. ASSUME NEW k \in 1..m, k # m, FallsThru(new[k])
      PROVE  e[k + 1] = e[k] + 1
    BY <1>2, <1>5, <1>6, ThreadingNext
<1>7. ASSUME NEW l \in LabelsOf(new)
      PROVE  e[Place(new, l)] = Place(list, l)
    <2> DEFINE p == Place(new, l)
    <2>1. p \in 1..m /\ new[p] = Label(l)
        BY <1>1, PlaceIsLabel
    <2> HIDE DEF p
    <2>2. e[p] \in 1..n /\ IsLabel(list[e[p]]) /\ list[e[p]].id = l
        BY <1>4, <2>1 DEF Label, IsLabel
    <2>3. Place(list, list[e[p]].id) = e[p]
        BY <1>1, <2>2, PlaceOfLabel
    <2> QED BY <2>2, <2>3 DEF p
<1>8. ASSUME NEW k \in 1..m, Stops(new, k), NEW v
      PROVE  FirstEffect(list, e[k], v) = EffectAt(new, k)
    <2>1. Stops(list, e[k]) /\ EffectAt(list, e[k]) = EffectAt(new, k)
        BY <1>3, <1>4, <1>8 DEF Stops, EffectAt
    <2> QED BY <1>1, <1>4, <2>1, FirstEffectStops
<1>9. ASSUME NEW k \in 1..m, ~Stops(new, k), NEW v
      PROVE  /\ ~Stops(list, e[k]) /\ Onto(new, v, k) \in 1..m
             /\ Leads(list, v, Onto(list, v, e[k]), e[Onto(new, v, k)])
    <2>1. k # m /\ new[k].op \notin {"act", "return"}
        BY <1>9 DEF Stops
    <2>2. ~Stops(list, e[k])
        BY <1>4, <1>5, <2>1 DEF Stops
    <2>3. Onto(new, v, k) \in 1..m /\ Onto(list, v, e[k]) \in 1..n
        BY <1>1, <1>4, <1>9, <2>2, OntoStays
    <2>4. CASE new[k].op = "jump" \/ (new[k].op = "branch" /\ v[new[k].id])
        <3> DEFINE t == new[k].target
        <3>1. /\ Onto(new, v, k) = Place(new, t)
              /\ Onto(list, v, e[k]) = Place(list, list[e[k]].target)
            BY <1>4, <2>4 DEF Onto
        <3>2. Leads(list, v, Place(list, list[e[k]].target), Place(list, t))
            <4> DEFINE q == e[k]
            <4>1. q \in 1..n /\ list[q].op \in {"jump", "branch"} /\ other[q].target = t
                BY <1>4, <2>4
            <4> HIDE DEF q, t
            <4>2. Leads(list, v, Place(list, list[q].target), Place(list, other[q].target))
                BY <1>1, <4>1 DEF Retargeted
            <4> QED BY <4>1, <4>2 DEF q
        <3>3. t \in LabelsOf(new)
            BY <1>1, <1>4, <2>4, StatementFacts DEF Targeted
        <3>4. e[Place(new, t)] = Place(list, t)
            BY <1>7, <3>3
        <3> HIDE DEF t
        <3> QED BY <2>2, <2>3, <3>1, <3>2, <3>4
    <2>5. CASE ~(new[k].op = "jump" \/ (new[k].op = "branch" /\ v[new[k].id]))
        <3>1. Onto(new, v, k) = k + 1 /\ Onto(list, v, e[k]) = e[k] + 1
            BY <1>4, <2>5 DEF Onto
        <3>2. e[k + 1] = e[k] + 1
            <4>1. FallsThru(new[k])
                BY <2>1, <2>5 DEF FallsThru
            <4> QED BY <1>6, <2>1, <4>1
        <3> QED BY <2>2, <2>3, <3>1, <3>2, LeadsNowhere
    <2> QED BY <2>4, <2>5
<1>10. ASSUME NEW v
       PROVE  Corresponds(new, list, v, e, 1..m)
    <2>1. Follows(new, list, v, e, 1..m)
        BY <1>4, <1>8, <1>9 DEF Follows
    <2>2. ASSUME NEW k \in 1..m, new[k].op = "act"
          PROVE  k + 1 \in 1..m /\ Leads(list, v, e[k] + 1, e[k + 1])
        <3>1. k # m
            BY <1>1, <2>2 DEF Delimited, IsLabel
        <3>2. FallsThru(new[k])
            BY <2>2 DEF FallsThru
        <3>3. k + 1 \in 1..m /\ e[k + 1] = e[k] + 1
            BY <1>5, <1>6, <3>1, <3>2
        <3> DEFINE h == k + 1
        <3> HIDE DEF h
        <3>4. e[h] \in 1..n
            BY <1>4, <3>3 DEF h
        <3> QED BY <3>3, <3>4, LeadsNowhere DEF h
    <2> QED BY <1>2, <1>3, <1>4, <2>1, <2>2 DEF Corresponds
<1> QED
    BY <1>1, <1>10, CorrespondsIsSame

-----------------------------------------------------------------------------
(* What is executed stays what the rebuild was started on.                 *)

\* During the passes over the jumps, the list comes from one that means it.
MeanInv ==
    /\ phase \notin {"thread", "chase"} => Same(stmts, given)
    /\ phase = "thread" =>
           \E list, D, e : Same(list, given) /\ Threading(stmts, list, list, forward, D, e)
    /\ phase = "chase" =>
           \E list, other, D, e : Same(list, given) /\ Threading(stmts, list, other, forward, D, e)

LEMMA InsertKeepsMeaning ==
    ASSUME FlowInv, MeanInv, InsertLabels
    PROVE  MeanInv'
<1> DEFINE gaps == {i \in DOMAIN stmts : IsTransfer(stmts[i]) /\ ~IsLabel(stmts[i + 1])}
           first == CHOOSE i \in gaps : \A j \in gaps : i <= j
           new == stmts'
<1>1. /\ phase = "insert" /\ given' = given /\ Delimited(stmts) /\ Executable(stmts)
      /\ Same(stmts, given)
    BY DEF InsertLabels, FlowInv, MeanInv, Executable
<1>2. CASE gaps = {}
    <2>1. phase' = "merge" /\ stmts' = stmts
        BY <1>2 DEF InsertLabels
    <2> QED BY <1>1, <2>1 DEF MeanInv
<1>3. CASE gaps # {}
    <2>1. phase' = "insert" /\ new = InsertAt(stmts, first + 1, Label(NewLabel(stmts)))
        BY <1>1, <1>3 DEF InsertLabels
    <2>2. first \in gaps
        <3>1. gaps \in SUBSET Nat
            BY <1>1, DelimitedFacts
        <3> HIDE DEF gaps
        <3>2. \E i \in gaps : \A j \in gaps : i <= j
            BY <1>3, <3>1, LeastNatural
        <3> QED BY <3>2
    <2>3. first \in 1..(Len(stmts) - 1)
        <3> DEFINE n == Len(stmts)
                   p == first
        <3>1. n \in Nat \ {0} /\ p \in 1..n /\ IsTransfer(stmts[p]) /\ stmts[n] \in Statements
            BY <1>1, <2>2, DelimitedFacts
        <3>2. IsLabel(stmts[n])
            BY <1>1 DEF Delimited
        <3> HIDE DEF n, p
        <3>3. p # n
            BY <3>1, <3>2, StatementFacts
        <3>4. p \in 1..(n - 1)
            BY ONLY <3>1, <3>3
        <3> QED BY <3>4 DEF n, p
    <2> DEFINE l == NewLabel(stmts)
    <2>4. l \in Nat \ {0} /\ l \notin LabelsOf(stmts)
        BY <1>1, NewLabelIsNew
    <2>5. new = Inserting(stmts, first, l)
        BY <2>1 DEF Inserting
    <2> HIDE DEF l, first, new
    <2>6. Executable(stmts) /\ l \in Nat \ {0} /\ l \notin LabelsOf(stmts)
        BY <1>1, <2>4
    <2>7. Same(new, stmts)
        BY ONLY <2>3, <2>5, <2>6, InsertedIsSame
    <2>8. Same(new, given)
        BY <1>1, <2>7, SameIsTransitive
    <2> QED BY <1>1, <2>1, <2>8 DEF MeanInv, new
<1> QED
    BY <1>2, <1>3

LEMMA MergeKeepsMeaning ==
    ASSUME FlowInv, FlowInv', MeanInv, MergeLabels
    PROVE  MeanInv'
<1> DEFINE new == stmts'
           fwd == forward'
<1>1. /\ phase = "merge" /\ phase' = "thread" /\ given' = given /\ Executable(stmts)
      /\ Closed(stmts) /\ Same(stmts, given)
      /\ new = Merged(stmts) /\ fwd = [l \in LabelsOf(new) |-> 0]
    BY DEF MergeLabels, FlowInv, MeanInv, Executable
<1> HIDE DEF new, fwd
<1>2. Same(new, stmts)
    BY <1>1, MergedIsSame
<1>3. Same(new, given)
    BY <1>1, <1>2, SameIsTransitive
<1>4. Executable(new)
    BY <1>1, MergedList DEF Executable
<1>5. \E e : Threading(new, new, new, fwd, {}, e)
    BY <1>1, <1>4, ThreadingStarts
<1>6. \E list, D, e : Same(list, given) /\ Threading(new, list, list, fwd, D, e)
    BY <1>3, <1>5
<1> QED
    BY <1>1, <1>6 DEF MeanInv, new, fwd

LEMMA ThreadKeepsMeaning ==
    ASSUME FlowInv, MeanInv, ThreadJumps
    PROVE  MeanInv'
<1>1. /\ phase = "thread" /\ at \in Nat \ {0} /\ given' = given
      /\ Delimited(stmts) /\ Closed(stmts) /\ Separated(stmts) /\ Forwarding(stmts, forward)
    BY DEF ThreadJumps, FlowInv
<1>2. PICK list, D, e : Same(list, given) /\ Threading(stmts, list, list, forward, D, e)
    BY <1>1 DEF MeanInv
<1>3. CASE at > Len(stmts)
    <2>1. phase' = "chase" /\ stmts' = stmts /\ forward' = forward
        BY <1>3 DEF ThreadJumps
    <2> QED BY <1>1, <1>2, <2>1 DEF MeanInv
<1>4. CASE ~(at > Len(stmts)) /\ ~Forwards(stmts, at)
    <2>1. phase' = "thread" /\ stmts' = stmts /\ forward' = forward
        BY <1>1, <1>4 DEF ThreadJumps
    <2> QED BY <1>1, <1>2, <2>1 DEF MeanInv
<1>5. CASE ~(at > Len(stmts)) /\ Forwards(stmts, at)
    <2> DEFINE new == stmts'
               f == forward'
    <2>1. at \in 1..Len(stmts)
        BY <1>1, <1>5, DelimitedFacts
    <2>2. /\ phase' = "thread"
          /\ f = ForwardedOn(forward, stmts, at)
          /\ new = IF Deletable(stmts, at) THEN Without(stmts, {at, at + 1}) ELSE stmts
        BY <1>1, <1>5 DEF ThreadJumps, ForwardedOn
    <2> HIDE DEF new, f
    <2>3. stmts[at].id \in DOMAIN forward
        <3>1. IsLabel(stmts[at])
            BY <1>5 DEF Forwards
        <3> QED BY <1>1, <2>1, <3>1, LabelsMeans DEF Forwarding
    <2>4. Threading(stmts, list, list, f, D, e) /\ e[at + 1] = e[at] + 1
        <3>1. Threading(stmts, list, list, forward, D, e) /\ Delimited(stmts) /\ Closed(stmts)
            BY <1>1, <1>2
        <3>2. Forwards(stmts, at) /\ f = ForwardedOn(forward, stmts, at)
            BY <1>5, <2>2
        <3> QED BY ONLY <2>1, <2>3, <3>1, <3>2, ThreadingForwards
    <2>5. \E E, h : Threading(new, list, list, f, E, h)
        <3>1. CASE Deletable(stmts, at)
            BY <1>1, <1>5, <2>1, <2>2, <2>4, <3>1, ThreadingDeletes
        <3>2. CASE ~Deletable(stmts, at)
            BY <2>2, <2>4, <3>2
        <3> QED BY <3>1, <3>2
    <2> QED BY <1>1, <1>2, <2>2, <2>5 DEF MeanInv, new, f
<1> QED
    BY <1>3, <1>4, <1>5

LEMMA ChaseKeepsMeaning ==
    ASSUME FlowInv, FlowInv', MeanInv, Chase
    PROVE  MeanInv'
<1>1. /\ phase = "chase" /\ at \in Nat \ {0} /\ given' = given /\ forward' = forward
      /\ Delimited(stmts) /\ Forwarding(stmts, forward)
    BY DEF Chase, FlowInv
<1>2. PICK list, other, D, e :
          Same(list, given) /\ Threading(stmts, list, other, forward, D, e)
    BY <1>1 DEF MeanInv
<1>3. CASE at > Len(stmts)
    <2>1. phase' = "drop" /\ stmts' = stmts
        BY <1>3 DEF Chase
    <2>2. Executable(stmts)
        BY <1>1, <2>1 DEF FlowInv, Executable
    <2>3. Same(stmts, list)
        BY <1>2, <2>2, ThreadingEnds
    <2>4. Same(stmts, given)
        BY <1>2, <2>3, SameIsTransitive
    <2> QED BY <1>1, <2>1, <2>4 DEF MeanInv
<1>4. CASE ~(at > Len(stmts))
    <2>1. at \in 1..Len(stmts)
        BY <1>1, <1>4, DelimitedFacts
    <2>2. CASE stmts[at].target # 0 /\ forward[stmts[at].target] # 0
        <3>1. phase' = "chase" /\ stmts' = Forwarded(stmts, at, forward)
            BY <1>1, <1>4, <2>2 DEF Chase, Forwarded
        <3>2. stmts[at].target \in DOMAIN forward /\ stmts \in Seq(Statements)
            BY <1>1, <2>1, <2>2 DEF Forwarding, Delimited
        <3>3. Threading(Forwarded(stmts, at, forward), list, Forwarded(other, e[at], forward), forward, D, e)
            BY <1>2, <2>1, <2>2, <3>2, ThreadingChases
        <3>4. \E o : Threading(stmts', list, o, forward, D, e)
            BY <3>1, <3>3
        <3> QED BY <1>1, <1>2, <3>1, <3>4 DEF MeanInv
    <2>3. CASE ~(stmts[at].target # 0 /\ forward[stmts[at].target] # 0)
        <3>1. stmts' = stmts /\ phase' = "chase"
            BY <1>1, <1>4, <2>3 DEF Chase
        <3> QED BY <1>1, <1>2, <3>1 DEF MeanInv
    <2> QED BY <2>2, <2>3
<1> QED
    BY <1>3, <1>4

LEMMA DropKeepsMeaning ==
    ASSUME FlowInv, FlowInv', MeanInv, DropJumpsToNext
    PROVE  MeanInv'
<1> DEFINE new == stmts'
<1>1. /\ phase = "drop" /\ phase' = "labels" /\ given' = given
      /\ new = Without(stmts, ToNext(stmts))
      /\ Executable(stmts) /\ Same(stmts, given)
    BY DEF DropJumpsToNext, FlowInv, ToNext, MeanInv, Executable
<1>2. Executable(new)
    BY <1>1 DEF FlowInv, Executable
<1> HIDE DEF new
<1>3. Same(new, stmts)
    BY <1>1, <1>2, DroppedIsSame
<1>4. Same(new, given)
    BY <1>1, <1>3, SameIsTransitive
<1> QED
    BY <1>1, <1>4 DEF MeanInv, new

LEMMA LabelsKeepsMeaning ==
    ASSUME FlowInv, FlowInv', MeanInv, RemoveUnneededLabels
    PROVE  MeanInv'
<1> DEFINE new == stmts'
<1>1. /\ phase = "labels" /\ phase' \in {"insert", "build"} /\ given' = given
      /\ new = Without(stmts, Unneeded(stmts))
      /\ Executable(stmts) /\ Closed(stmts) /\ Same(stmts, given)
    BY DEF RemoveUnneededLabels, FlowInv, Unneeded, MeanInv, Executable
<1>2. Executable(new)
    BY <1>1 DEF FlowInv, Executable
<1> HIDE DEF new
<1>3. Same(new, stmts)
    BY <1>1, <1>2, LabelsIsSame
<1>4. Same(new, given)
    BY <1>1, <1>3, SameIsTransitive
<1> QED
    BY <1>1, <1>4 DEF MeanInv, new

LEMMA MeanInvIsInductive ==
    ASSUME FlowInv, FlowInv', MeanInv, [Next]_vars
    PROVE  MeanInv'
<1>1. CASE BuildBasicBlocks
    BY <1>1 DEF BuildBasicBlocks, MeanInv
<1>2. CASE Fold \/ DeleteStatements \/ DeleteUnreachable
    <2>1. stmts' = given' /\ phase' = "insert"
        BY <1>2 DEF Fold, DeleteStatements, DeleteUnreachable, Rebuild
    <2> QED BY <2>1, SameIsReflexive DEF MeanInv
<1>3. CASE UNCHANGED vars
    BY <1>3 DEF vars, MeanInv
<1> QED
    BY <1>1, <1>2, <1>3, InsertKeepsMeaning, MergeKeepsMeaning, ThreadKeepsMeaning,
       ChaseKeepsMeaning, DropKeepsMeaning, LabelsKeepsMeaning DEF Next, RebuildFlowgraph

\* Cleaning up the list of statements changes neither what is executed nor in
\* what order, whatever the translator made and the optimizer deleted, and
\* whichever way each of the branches goes.
THEOREM MeaningIsPreserved == Spec => []MeaningPreserved
<1>1. Init => MeanInv
    BY SameIsReflexive DEF Init, MeanInv
<1>2. FlowInv /\ FlowInv' /\ MeanInv /\ [Next]_vars => MeanInv'
    BY MeanInvIsInductive
<1>3. MeanInv => MeaningPreserved
    BY SameMeans DEF MeanInv, MeaningPreserved
<1> QED
    BY <1>1, <1>2, <1>3, InvHolds, PTL DEF Spec

-----------------------------------------------------------------------------
(* What cannot be reached over the edges is not executed.                  *)

\* The leaders of the blocks that can be reached over the edges of the list.
Reaches(list) ==
    Reach([l \in LabelsOf(list) |-> {d[2] : d \in {b \in Edges(list) : b[1] = l}}],
          {list[1].id}, Len(list))

LEMMA LabelsAreFinite ==
    ASSUME NEW list, Delimited(list)
    PROVE  IsFiniteSet(LabelsOf(list)) /\ Cardinality(LabelsOf(list)) <= Len(list)
<1> DEFINE n == Len(list)
           S == {j \in 1..n : IsLabel(list[j])}
           ids == [j \in S |-> list[j].id]
<1>1. n \in Nat /\ DOMAIN list = 1..n
    BY DelimitedFacts
<1>2. LabelsOf(list) = {list[j].id : j \in S}
    BY <1>1 DEF LabelsOf
<1>3. ids \in Surjection(S, LabelsOf(list))
    BY <1>2 DEF Surjection
<1>4. IsFiniteSet(1..n) /\ Cardinality(1..n) = n
    <2> HIDE DEF n
    <2> QED BY <1>1, FS_Interval
<1>5. IsFiniteSet(S) /\ Cardinality(S) <= n /\ Cardinality(S) \in Nat
    <2>1. S \subseteq 1..n
        OBVIOUS
    <2> HIDE DEF S, n
    <2>2. IsFiniteSet(S) /\ Cardinality(S) <= Cardinality(1..n)
        BY <1>4, <2>1, FS_Subset
    <2> QED BY <1>4, <2>2, FS_CardinalityType
<1> HIDE DEF ids, S, n
<1>6. IsFiniteSet(LabelsOf(list)) /\ Cardinality(LabelsOf(list)) <= Cardinality(S)
    BY <1>3, <1>5, FS_Surjection
<1>7. Cardinality(LabelsOf(list)) \in Nat
    BY <1>6, FS_CardinalityType
<1>8. Cardinality(LabelsOf(list)) <= n
    BY <1>1, <1>5, <1>6, <1>7
<1> QED
    BY <1>6, <1>8 DEF n

LEMMA ReachesIsClosed ==
    ASSUME NEW list, Delimited(list), Targeted(list)
    PROVE  /\ list[1].id \in Reaches(list)
           /\ \A x : \A l \in Reaches(list) : <<l, x>> \in Edges(list) => x \in Reaches(list)
<1> DEFINE L == LabelsOf(list)
           n == Len(list)
           next == [l \in L |-> {d[2] : d \in {b \in Edges(list) : b[1] = l}}]
           start == {list[1].id}
<1>1. n \in Nat
    BY DelimitedFacts
<1>2. IsFiniteSet(L) /\ Cardinality(L) <= n
    BY LabelsAreFinite
<1>3. next \in [L -> SUBSET L]
    BY EdgesInside
<1>4. start \in SUBSET L
    BY DelimitedFacts, LabelsMeans DEF Delimited
<1>5. Reaches(list) = Reach(next, start, n)
    BY DEF Reaches
<1>6. \A x : \A l \in L : <<l, x>> \in Edges(list) => x \in next[l]
    OBVIOUS
<1> HIDE DEF L, n, next
<1>7. start \subseteq Reach(next, start, n)
    BY <1>1, StartIsReached
<1>8. ASSUME NEW l \in Reach(next, start, n)
      PROVE  l \in L /\ next[l] \subseteq Reach(next, start, n)
    BY <1>1, <1>2, <1>3, <1>4, ReachIsClosed
<1> QED
    BY <1>5, <1>6, <1>7, <1>8

LEMMA LeaderOfLabel ==
    ASSUME NEW list, Delimited(list), NEW i \in 1..Len(list), IsLabel(list[i])
    PROVE  Leader(list, i) = list[i].id
<1>1. PICK j \in 1..i : LedBy(list, i, j) /\ Leader(list, i) = list[j].id
    BY LeaderIsLabel
<1>2. i \in Nat
    BY DelimitedFacts
<1>3. j = i
    BY <1>1, <1>2 DEF LedBy
<1> QED
    BY <1>1, <1>3

LEMMA LeaderOfNext ==
    ASSUME NEW list, Delimited(list), NEW i \in 1..Len(list), i + 1 \in 1..Len(list),
           ~IsLabel(list[i + 1])
    PROVE  Leader(list, i + 1) = Leader(list, i)
<1> DEFINE h == i + 1
<1>1. i \in Nat /\ h \in 1..Len(list)
    BY DelimitedFacts
<1>2. PICK j \in 1..i : LedBy(list, i, j) /\ Leader(list, i) = list[j].id
    BY LeaderIsLabel
<1> HIDE DEF h
<1>3. PICK k \in 1..h : LedBy(list, h, k) /\ Leader(list, h) = list[k].id
    BY <1>1, LeaderIsLabel
<1>4. k # h
    BY <1>3 DEF LedBy, h
<1>5. k \in 1..i /\ j \in 1..i /\ h = i + 1
    BY <1>1, <1>2, <1>3, <1>4 DEF h
<1>6. IsLabel(list[k]) /\ IsLabel(list[j])
    BY <1>2, <1>3 DEF LedBy
<1>7. j < k => FALSE
    <2>1. j < k => k \in (j + 1)..i
        BY <1>1, <1>5
    <2> QED BY <1>2, <1>6, <2>1 DEF LedBy
<1>8. k < j => FALSE
    <2>1. k < j => j \in (k + 1)..h
        BY <1>1, <1>5
    <2> QED BY <1>3, <1>6, <2>1 DEF LedBy
<1>9. j = k
    BY <1>1, <1>5, <1>7, <1>8
<1> QED
    BY <1>2, <1>3, <1>9 DEF h

\* The edges of the block that ends after a statement.
LEMMA EdgesOnward ==
    ASSUME NEW list, Delimited(list), NEW i \in 1..Len(list), i + 1 \in 1..Len(list),
           IsLabel(list[i + 1])
    PROVE  /\ FallsThru(list[i]) => <<Leader(list, i), list[i + 1].id>> \in Edges(list)
           /\ list[i].target # 0 => <<Leader(list, i), list[i].target>> \in Edges(list)
<1> DEFINE h == i + 1
<1>1. h \in {j \in 2..Len(list) : IsLabel(list[j])} /\ h - 1 = i
    BY DelimitedFacts
<1>2. {Leader(list, h - 1)} \X Successors(list, h) \subseteq Edges(list)
    <2> HIDE DEF h
    <2> QED BY <1>1 DEF Edges
<1>3. /\ FallsThru(list[i]) => list[h].id \in Successors(list, h)
      /\ list[i].target # 0 => list[i].target \in Successors(list, h)
    <2> HIDE DEF h
    <2> QED BY <1>1 DEF Successors
<1> HIDE DEF h
<1> QED
    BY <1>1, <1>2, <1>3 DEF h

\* The position that comes after one in a reached block is in a reached block.
LEMMA ReachedNext ==
    ASSUME NEW list, Delimited(list), Targeted(list), NEW i \in 1..Len(list), i # Len(list),
           FallsThru(list[i]), Leader(list, i) \in Reaches(list)
    PROVE  i + 1 \in 1..Len(list) /\ Leader(list, i + 1) \in Reaches(list)
<1> DEFINE h == i + 1
<1>1. h \in 1..Len(list)
    <2> DEFINE n == Len(list)
    <2>1. n \in Nat /\ i \in 1..n /\ i # n
        BY DelimitedFacts
    <2> HIDE DEF n
    <2>2. i + 1 \in 1..n
        BY ONLY <2>1
    <2> QED BY <2>2 DEF n
<1>2. CASE IsLabel(list[h])
    <2>1. <<Leader(list, i), list[h].id>> \in Edges(list)
        BY <1>1, <1>2, EdgesOnward
    <2>2. Leader(list, h) = list[h].id
        <3> HIDE DEF h
        <3> QED BY <1>1, <1>2, LeaderOfLabel
    <2> QED BY <1>1, <2>1, <2>2, ReachesIsClosed
<1>3. CASE ~IsLabel(list[h])
    BY <1>1, <1>3, LeaderOfNext
<1> QED
    BY <1>2, <1>3

\* Nor does execution leave the blocks that are reached.
LEMMA ReachedOnward ==
    ASSUME NEW list, Executable(list), Closed(list), NEW v, NEW i \in 1..Len(list),
           ~Stops(list, i), Leader(list, i) \in Reaches(list)
    PROVE  Leader(list, Onto(list, v, i)) \in Reaches(list)
<1>1. Delimited(list) /\ Targeted(list) /\ list[i] \in Statements
    BY DelimitedFacts DEF Executable
<1>2. CASE list[i].op = "jump" \/ (list[i].op = "branch" /\ v[list[i].id])
    <2> DEFINE t == list[i].target
               p == Place(list, t)
    <2>1. t # 0 /\ IsTransfer(list[i])
        BY <1>1, <1>2, StatementFacts
    <2>2. i + 1 \in 1..Len(list) /\ IsLabel(list[i + 1])
        BY <2>1 DEF Closed
    <2>3. <<Leader(list, i), t>> \in Edges(list)
        BY <1>1, <2>1, <2>2, EdgesOnward
    <2>4. t \in Reaches(list)
        BY <1>1, <2>3, ReachesIsClosed
    <2>5. p \in 1..Len(list) /\ list[p] = Label(t)
        BY <1>1, <2>1, PlaceIsLabel DEF Targeted
    <2>6. Onto(list, v, i) = p
        BY <1>2 DEF Onto
    <2> HIDE DEF p, t
    <2>7. IsLabel(list[p]) /\ list[p].id = t
        BY <2>5 DEF Label, IsLabel
    <2>8. Leader(list, p) = t
        BY <1>1, <2>5, <2>7, LeaderOfLabel
    <2> QED BY <2>4, <2>6, <2>8
<1>3. CASE ~(list[i].op = "jump" \/ (list[i].op = "branch" /\ v[list[i].id]))
    <2>1. Onto(list, v, i) = i + 1
        BY <1>3 DEF Onto
    <2>2. i # Len(list) /\ FallsThru(list[i])
        BY <1>3 DEF Stops, FallsThru
    <2> QED BY <1>1, <2>1, <2>2, ReachedNext
<1> QED
    BY <1>2, <1>3

Dead(list) == {i \in DOMAIN list : ~IsLabel(list[i]) /\ Leader(list, i) \notin Reaches(list)}

LEMMA UnreachableIsSame ==
    ASSUME NEW list, Executable(list), Closed(list), NEW new, new = Without(list, Dead(list))
    PROVE  Same(new, list)
<1> DEFINE n == Len(list)
           m == Len(new)
           D == Dead(list)
<1>1. Delimited(list) /\ Targeted(list) /\ n \in Nat \ {0} /\ DOMAIN list = 1..n
    BY DelimitedFacts DEF Executable
<1>2. \A i \in 1..n : i \in D <=> ~IsLabel(list[i]) /\ Leader(list, i) \notin Reaches(list)
    BY <1>1 DEF Dead
<1> HIDE DEF D
<1>3. Delimited(new) /\ Targeted(new) /\ 1 \notin D /\ n \notin D
    <2>1. \A i \in 1..n : IsLabel(list[i]) => i \notin D
        BY <1>2
    <2> QED BY <1>1, <2>1, WithoutOthers DEF D
<1>4. PICK e : Selected(new, list, n, D, e)
    BY <1>1, <1>3, WithoutDelimited DEF D
<1>5. Executable(new) /\ m \in Nat \ {0} /\ 1 \in 1..m
    BY <1>3, DelimitedFacts DEF Executable
<1>6. e[1] = 1 /\ e[m] = n
    BY <1>1, <1>3, <1>4, <1>5, SelectedEnds
<1> DEFINE P == {i \in 1..n : Leader(list, i) \in Reaches(list)}
           K == {k \in 1..m : e[k] \in P}
<1>7. ASSUME NEW k \in 1..m
      PROVE  e[k] \in 1..n /\ e[k] \notin D /\ new[k] = list[e[k]] /\ list[e[k]] \in Statements
    <2>1. e[k] \in 1..n /\ e[k] \notin D /\ new[k] = list[e[k]]
        BY <1>4 DEF Selected
    <2> QED BY <1>1, <2>1, DelimitedFacts
<1>8. \A i \in 1..n : i \in P => i \notin D
    BY <1>2
<1>9. 1 \in K
    <2>1. IsLabel(list[1]) /\ 1 \in 1..n
        BY <1>1 DEF Delimited
    <2>2. Leader(list, 1) = list[1].id
        BY <1>1, <2>1, LeaderOfLabel
    <2>3. 1 \in P
        BY <1>1, <2>1, <2>2, ReachesIsClosed
    <2> QED BY <1>5, <1>6, <2>3
<1>10. ASSUME NEW k \in 1..m, e[k] + 1 \in P
       PROVE  k + 1 \in K /\ e[k + 1] = e[k] + 1
    <2>1. e[k] + 1 \in (1..n) \ D
        BY <1>8, <1>10
    <2> HIDE DEF n, m, P
    <2>2. n \in Nat /\ m \in Nat /\ Selected(new, list, n, D, e) /\ k \in 1..m
        BY <1>1, <1>4, <1>5
    <2>3. k + 1 \in 1..m /\ e[k + 1] = e[k] + 1
        BY ONLY <2>1, <2>2, SelectedAfter DEF m
    <2> QED BY <1>10, <2>3
<1>11. ASSUME NEW k \in K, Stops(new, k), NEW v
       PROVE  FirstEffect(list, e[k], v) = EffectAt(new, k)
    <2>1. Stops(list, e[k]) /\ EffectAt(list, e[k]) = EffectAt(new, k)
        BY <1>6, <1>7, <1>11 DEF Stops, EffectAt
    <2> QED BY <1>7, <2>1, FirstEffectStops
<1>12. ASSUME NEW k \in 1..m, k # m
       PROVE  e[k] # n
    <2>1. m \in 1..m /\ k < m
        BY <1>5, <1>12
    <2>2. e[k] < e[m] /\ e[k] \in 1..n
        BY <1>4, <1>7, <2>1 DEF Selected
    <2> QED BY <1>1, <1>6, <2>2
<1>13. ASSUME NEW k \in K, ~Stops(new, k), NEW v
       PROVE  /\ ~Stops(list, e[k]) /\ Onto(new, v, k) \in K
              /\ Leads(list, v, Onto(list, v, e[k]), e[Onto(new, v, k)])
    <2> DEFINE q == Onto(list, v, e[k])
    <2>1. ~Stops(list, e[k])
        <3>1. k # m
            BY <1>13 DEF Stops
        <3> QED BY <1>7, <1>12, <1>13, <3>1 DEF Stops
    <2>2. q \in P
        <3>1. q \in 1..n
            BY <1>7, <2>1, OntoStays
        <3>2. Leader(list, q) \in Reaches(list)
            BY <1>7, <2>1, ReachedOnward
        <3> QED BY <3>1, <3>2
    <2>3. Onto(new, v, k) \in K /\ e[Onto(new, v, k)] = q
        <3>1. CASE new[k].op = "jump" \/ (new[k].op = "branch" /\ v[new[k].id])
            <4> DEFINE t == new[k].target
            <4>1. t \in LabelsOf(new)
                BY <1>3, <1>7, <3>1, StatementFacts DEF Targeted
            <4>2. Onto(new, v, k) = Place(new, t) /\ q = Place(list, t)
                BY <1>7, <3>1 DEF Onto
            <4>3. e[Place(new, t)] = Place(list, t) /\ Place(new, t) \in 1..m
                BY <1>1, <1>3, <1>4, <4>1, SelectedPlace, PlaceIsLabel
            <4> HIDE DEF q, t, P
            <4> QED BY <2>2, <4>2, <4>3
        <3>2. CASE ~(new[k].op = "jump" \/ (new[k].op = "branch" /\ v[new[k].id]))
            <4>1. Onto(new, v, k) = k + 1 /\ q = e[k] + 1
                BY <1>7, <3>2 DEF Onto
            <4> HIDE DEF q, P
            <4> QED BY <1>10, <2>2, <4>1
        <3> QED BY <3>1, <3>2
    <2>4. Leads(list, v, q, q)
        <3> HIDE DEF q
        <3> QED BY <2>2, LeadsNowhere
    <2> QED BY <2>1, <2>3, <2>4
<1>14. ASSUME NEW k \in 1..m, new[k].op = "act", NEW v
       PROVE  /\ k + 1 \in K /\ Leads(list, v, e[k] + 1, e[k + 1])
    <2>1. list[e[k]].op = "act" /\ e[k] \in 1..n /\ e[k] # n
        BY <1>1, <1>7, <1>14 DEF Delimited, IsLabel
    <2>2. Leader(list, e[k]) \in Reaches(list) /\ FallsThru(list[e[k]])
        BY <1>2, <1>7, <2>1 DEF IsLabel, FallsThru
    <2> DEFINE q == e[k] + 1
    <2>3. q \in P
        BY <1>1, <2>1, <2>2, ReachedNext
    <2>4. Leads(list, v, q, q)
        <3> HIDE DEF q
        <3> QED BY <2>3, LeadsNowhere
    <2> QED BY <1>10, <2>3, <2>4
<1> HIDE DEF P
<1>15. ASSUME NEW v
       PROVE  Corresponds(new, list, v, e, K)
    <2>1. K \subseteq 1..m
        OBVIOUS
    <2> HIDE DEF K
    <2>2. Follows(new, list, v, e, K)
        BY <1>7, <1>11, <1>13, <2>1 DEF Follows
    <2> QED BY <1>6, <1>7, <1>9, <1>14, <2>2 DEF Corresponds
<1> HIDE DEF K
<1> QED
    BY <1>5, <1>15, CorrespondsIsSame

\* Deleting the statements of the blocks that cannot be reached over the edges
\* of the flowgraph changes nothing that is executed.
THEOREM UnreachableIsNotExecuted == Spec => UnreachableIsDead
<1>1. FlowInv /\ [Next]_vars => [DeleteUnreachable => SameMeaning(stmts', stmts)]_vars
    <2> SUFFICES ASSUME FlowInv, DeleteUnreachable
                 PROVE  SameMeaning(stmts', stmts)
        OBVIOUS
    <2>1. phase = "built"
        BY DEF DeleteUnreachable
    <2>2. Executable(stmts) /\ Closed(stmts) /\ edges = Edges(stmts)
        BY <2>1 DEF FlowInv, Executable
    <2>3. Reached(stmts) = Reaches(stmts)
        BY <2>2 DEF Reached, Reaches
    <2>4. stmts' = Without(stmts, Dead(stmts))
        BY <2>3 DEF DeleteUnreachable, Dead, Rebuild
    <2> QED BY <2>2, <2>4, UnreachableIsSame, SameMeans
<1> QED
    BY <1>1, InvHolds, PTL DEF Spec, UnreachableIsDead
=============================================================================
