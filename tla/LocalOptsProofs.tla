--------------------------- MODULE LocalOptsProofs ---------------------------
(***************************************************************************)
(* Rewriting keeps what a list of statements does, and equal numbers mean  *)
(* equal values, for all lists in which nothing is what the code is known  *)
(* to get wrong (Unharmed).                                                *)
(***************************************************************************)
EXTENDS LocalOpts, ReachabilityProofs, SequenceTheorems

-----------------------------------------------------------------------------
(* Integers of a width.                                                    *)

\* What wraps is within bounds.
LEMMA WrapWithin ==
    ASSUME NEW n \in Int, NEW half \in Nat \ {0}
    PROVE  Wrap(n, half) \in Int /\ Within(Wrap(n, half), half)
<1> DEFINE m == n + half
<1>1. m \in Int /\ 2 * half \in Nat \ {0}
    OBVIOUS
<1>2. m % (2 * half) \in 0..((2 * half) - 1)
    <2> HIDE DEF m
    <2> QED BY <1>1
<1> QED
    BY <1>2 DEF Wrap, Within

\* What is within bounds does not change when it wraps.
LEMMA WrapSame ==
    ASSUME NEW n \in Int, NEW half \in Nat \ {0}, Within(n, half)
    PROVE  Wrap(n, half) = n
<1> DEFINE m == n + half
<1>1. m \in Int /\ 2 * half \in Nat \ {0} /\ 0 <= m /\ m < 2 * half
    BY DEF Within
<1>2. m % (2 * half) = m
    <2> HIDE DEF m
    <2> QED BY <1>1
<1> QED
    BY <1>2 DEF Wrap

\* A quotient is nearer to zero than what is divided.
LEMMA DivisionBounds ==
    ASSUME NEW a \in Nat, NEW b \in Nat \ {0}
    PROVE  /\ a \div b \in 0..a
           /\ b * (a \div b) <= a /\ a < b * (a \div b) + b
           /\ b # 1 /\ a # 0 => a \div b < a
<1>1. a \div b \in 0..a
    OBVIOUS
<1>2. b * (a \div b) <= a /\ a < b * (a \div b) + b
    OBVIOUS
<1>3. ASSUME b # 1 PROVE 2 * (a \div b) <= a
    BY <1>3
<1> QED
    BY <1>1, <1>2, <1>3

Size(k) == IF k < 0 THEN -k ELSE k

\* A division that does not trap has a quotient and a remainder within bounds.
LEMMA DivisionWithin ==
    ASSUME NEW m \in Int, NEW n \in Int, Within(m, Half), Within(n, Half),
           ~Traps("/", m, n)
    PROVE  /\ Quotient(m, n) \in Int /\ Within(Quotient(m, n), Half)
           /\ m - n * Quotient(m, n) \in Int /\ Within(m - n * Quotient(m, n), Half)
<1>1. n # 0 /\ ~(m = -Half /\ n = -1) /\ Half \in Nat \ {0}
    BY Halves DEF Traps
<1> DEFINE a == Size(m)
           b == Size(n)
           q == a \div b
<1>2. a \in Nat /\ b \in Nat \ {0}
    BY <1>1 DEF Size
<1>3. q \in 0..a /\ b * q <= a /\ a < b * q + b /\ (b # 1 /\ a # 0 => q < a)
    <2> HIDE DEF a, b
    <2> QED BY <1>2, DivisionBounds
<1>4. Quotient(m, n) = IF m < 0 <=> n < 0 THEN q ELSE -q
    BY DEF Quotient, Size
<1>5. Within(Quotient(m, n), Half) /\ Quotient(m, n) \in Int
    <2>1. a <= Half /\ (a = Half => m = -Half)
        BY <1>1 DEF Size, Within
    <2>2. CASE m < 0 <=> n < 0
        <3>1. q < Half
            <4>1. CASE b = 1
                <5>1. a # Half
                    BY <1>1, <2>1, <2>2, <4>1 DEF Size
                <5> QED BY <5>1, <2>1, <1>3, <1>2, <1>1
            <4>2. CASE b # 1
                BY <4>2, <1>3, <2>1, <1>2, <1>1
            <4> QED BY <4>1, <4>2
        <3> QED BY <3>1, <2>2, <1>4, <1>3, <1>1 DEF Within
    <2>3. CASE ~(m < 0 <=> n < 0)
        BY <2>1, <2>3, <1>4, <1>3, <1>2, <1>1 DEF Within
    <2> QED BY <2>2, <2>3
<1>6. m - n * Quotient(m, n) = IF m < 0 THEN -(a - b * q) ELSE a - b * q
    <2>1. CASE m < 0 /\ n < 0
        <3>1. a = -m /\ b = -n /\ Quotient(m, n) = q
            BY <2>1, <1>4 DEF Size
        <3>2. n * q = -(b * q)
            <4> HIDE DEF q
            <4> QED BY <3>1, <1>3, <1>2
        <3> QED BY <3>1, <3>2, <2>1, <1>3, <1>2
    <2>2. CASE m < 0 /\ ~(n < 0)
        <3>1. a = -m /\ b = n /\ Quotient(m, n) = -q
            BY <2>2, <1>4 DEF Size
        <3>2. n * (-q) = -(b * q)
            <4> HIDE DEF q
            <4> QED BY <3>1, <1>3, <1>2
        <3> QED BY <3>1, <3>2, <2>2, <1>3, <1>2
    <2>3. CASE ~(m < 0) /\ n < 0
        <3>1. a = m /\ b = -n /\ Quotient(m, n) = -q
            BY <2>3, <1>4 DEF Size
        <3>2. n * (-q) = b * q
            <4> HIDE DEF q
            <4> QED BY <3>1, <1>3, <1>2
        <3> QED BY <3>1, <3>2, <2>3, <1>3, <1>2
    <2>4. CASE ~(m < 0) /\ ~(n < 0)
        <3>1. a = m /\ b = n /\ Quotient(m, n) = q
            BY <2>4, <1>4 DEF Size
        <3> QED BY <3>1, <2>4, <1>3, <1>2
    <2> QED BY <2>1, <2>2, <2>3, <2>4
<1>7. b <= Half /\ a - b * q \in 0..(b - 1)
    <2>1. b <= Half
        BY <1>1 DEF Size, Within
    <2>2. b * q \in Int
        <3> HIDE DEF q, b, a
        <3> QED BY <1>2, <1>3
    <2> HIDE DEF q, b, a
    <2> QED BY <2>1, <2>2, <1>2, <1>3
<1>8. Within(m - n * Quotient(m, n), Half) /\ m - n * Quotient(m, n) \in Int
    <2> DEFINE r == a - b * q
    <2>1. r \in 0..(b - 1) /\ (m - n * Quotient(m, n) = -r \/ m - n * Quotient(m, n) = r)
        BY <1>6, <1>7
    <2> HIDE DEF r
    <2> QED BY <2>1, <1>7, <1>1, <1>2 DEF Within
<1> QED
    BY <1>5, <1>8

\* What is computed is within bounds.
LEMMA ComputeWithin ==
    ASSUME NEW test \in Tests, NEW m \in Int, NEW n \in Int, Within(m, Half), Within(n, Half),
           ~Traps(test, m, n)
    PROVE  Compute(test, m, n) \in Int /\ Within(Compute(test, m, n), Half)
<1>1. Half \in Nat \ {0} /\ Half # 1
    BY Halves
<1>2. CASE test = "+"
    BY <1>1, <1>2, WrapWithin DEF Compute
<1>3. CASE test = "-"
    BY <1>1, <1>3, WrapWithin DEF Compute
<1>4. CASE test = "*"
    BY <1>1, <1>4, WrapWithin DEF Compute
<1>5. CASE test \in {"/", "%"}
    <2>1. ~Traps("/", m, n)
        BY <1>5 DEF Traps
    <2> QED BY <2>1, <1>5, DivisionWithin DEF Compute
<1>6. CASE test \in Comparisons
    BY <1>6, <1>1 DEF Compute, Comparisons, Within
<1> QED
    BY <1>2, <1>3, <1>4, <1>5, <1>6 DEF Tests

-----------------------------------------------------------------------------
(* What a list does, statement by statement.                               *)

IsRun(f, list, variables, env, n) ==
    f = [k \in 0..n |-> IF k = 0 THEN AtStart(variables, env) ELSE Execute(env, f[k - 1], list[k])]

\* Every list can be run.
LEMMA RunExists ==
    ASSUME NEW list, NEW variables, NEW env, NEW n \in Nat
    PROVE  \E f : IsRun(f, list, variables, env, n)
<1> DEFINE T == {k \in Nat : \E f : IsRun(f, list, variables, env, k)}
<1>1. 0 \in T
    <2> DEFINE f == [k \in 0..0 |-> AtStart(variables, env)]
    <2>1. IsRun(f, list, variables, env, 0)
        BY DEF IsRun
    <2> QED BY <2>1
<1>2. ASSUME NEW k \in 0..(n - 1), k \in T
      PROVE  k + 1 \in T
    <2>1. PICK f : IsRun(f, list, variables, env, k)
        BY <1>2
    <2> DEFINE g == [j \in 0..(k + 1) |-> IF j = k + 1 THEN Execute(env, f[k], list[j]) ELSE f[j]]
    <2>2. \A j \in 0..k : f[j] = IF j = 0 THEN AtStart(variables, env) ELSE Execute(env, f[j - 1], list[j])
        BY <2>1 DEF IsRun
    <2> HIDE DEF g
    <2>3. /\ g = [j \in 0..(k + 1) |-> g[j]]
          /\ g[k + 1] = Execute(env, f[k], list[k + 1])
          /\ \A j \in 0..k : g[j] = f[j]
        BY DEF g
    <2>4. ASSUME NEW j \in 0..(k + 1)
          PROVE  g[j] = IF j = 0 THEN AtStart(variables, env) ELSE Execute(env, g[j - 1], list[j])
        <3>1. CASE j = k + 1
            <4>1. j # 0 /\ j - 1 = k /\ k \in 0..k
                BY <3>1
            <4> QED BY <2>3, <3>1, <4>1
        <3>2. CASE j \in 0..k
            <4>1. j # 0 => j - 1 \in 0..k
                BY <3>2
            <4> QED BY <2>2, <2>3, <3>2, <4>1
        <3> QED BY <3>1, <3>2
    <2>5. IsRun(g, list, variables, env, k + 1)
        BY <2>3, <2>4 DEF IsRun
    <2> QED BY <2>5
<1> HIDE DEF T
<1>3. T \in SUBSET Nat
    BY DEF T
<1>4. 0..n \subseteq T
    BY <1>1, <1>2, <1>3, InductionTo
<1> QED
    BY <1>4 DEF T

\* The first states of two runs of a list, one maybe longer, are equal.
LEMMA RunsAgree ==
    ASSUME NEW list, NEW variables, NEW env, NEW n \in Nat, NEW m \in Nat, n <= m,
           NEW f, IsRun(f, list, variables, env, n), NEW g, IsRun(g, list, variables, env, m)
    PROVE  f[n] = g[n]
<1> DEFINE T == {k \in 0..n : f[k] = g[k]}
<1>1. /\ \A j \in 0..n : f[j] = IF j = 0 THEN AtStart(variables, env) ELSE Execute(env, f[j - 1], list[j])
      /\ \A j \in 0..m : g[j] = IF j = 0 THEN AtStart(variables, env) ELSE Execute(env, g[j - 1], list[j])
    BY DEF IsRun
<1>2. 0 \in T
    BY <1>1
<1>3. ASSUME NEW k \in 0..(n - 1), k \in T
      PROVE  k + 1 \in T
    <2>1. k + 1 \in 0..n /\ k + 1 \in 0..m /\ (k + 1) - 1 = k /\ k + 1 # 0
        OBVIOUS
    <2>2. f[k + 1] = Execute(env, f[k], list[k + 1]) /\ g[k + 1] = Execute(env, g[k], list[k + 1])
        BY <1>1, <2>1
    <2> QED BY <1>3, <2>1, <2>2
<1>4. T \in SUBSET Nat
    OBVIOUS
<1> HIDE DEF T
<1>5. 0..n \subseteq T
    BY <1>2, <1>3, <1>4, InductionTo
<1> QED
    BY <1>5 DEF T

\* What has been run is the end of a run.
LEMMA RunToIsRun ==
    ASSUME NEW list, NEW variables, NEW env, NEW n \in Nat
    PROVE  \E f : IsRun(f, list, variables, env, n) /\ RunTo(list, variables, env, n) = f[n]
<1> DEFINE f == CHOOSE f : IsRun(f, list, variables, env, n)
<1>1. IsRun(f, list, variables, env, n)
    BY RunExists
<1>2. RunTo(list, variables, env, n) = f[n]
    BY DEF RunTo, IsRun
<1> QED
    BY <1>1, <1>2

\* A run starts with the first values.
LEMMA RunStarts ==
    ASSUME NEW list, NEW variables, NEW env
    PROVE  RunTo(list, variables, env, 0) = AtStart(variables, env)
<1>1. PICK f : IsRun(f, list, variables, env, 0) /\ RunTo(list, variables, env, 0) = f[0]
    BY RunToIsRun
<1> QED
    BY <1>1 DEF IsRun

\* One more statement is executed after the others.
LEMMA RunContinues ==
    ASSUME NEW list, NEW variables, NEW env, NEW n \in Nat
    PROVE  RunTo(list, variables, env, n + 1) = Execute(env, RunTo(list, variables, env, n), list[n + 1])
<1>1. PICK f : IsRun(f, list, variables, env, n) /\ RunTo(list, variables, env, n) = f[n]
    BY RunToIsRun
<1>2. PICK g : IsRun(g, list, variables, env, n + 1) /\ RunTo(list, variables, env, n + 1) = g[n + 1]
    BY RunToIsRun
<1>3. f[n] = g[n]
    BY <1>1, <1>2, RunsAgree
<1>4. g[n + 1] = Execute(env, g[n], list[n + 1])
    BY <1>2 DEF IsRun
<1> QED
    BY <1>1, <1>2, <1>3, <1>4

\* list has the same statements from i to p as other has from j on.
SameFrom(list, other, i, j, p) == \A k \in 1..(p - i) : list[i + k] = other[j + k]

\* Two lists that have come to the same state, and have the same statements from
\* there on, come to the same state.
LEMMA RunsAlike ==
    ASSUME NEW list, NEW other, NEW variables, NEW env,
           NEW i \in Nat, NEW j \in Nat, NEW p \in Nat, NEW q \in Nat, i <= p, p - i = q - j,
           RunTo(list, variables, env, i) = RunTo(other, variables, env, j),
           SameFrom(list, other, i, j, p)
    PROVE  RunTo(list, variables, env, p) = RunTo(other, variables, env, q)
<1> DEFINE n == p - i
<1>0. n \in Nat /\ p = i + n /\ q = j + n
    OBVIOUS
<1> HIDE DEF n
<1>6. \A k \in 1..n : list[i + k] = other[j + k]
    BY DEF n, SameFrom
<1> DEFINE T == {k \in 0..n : RunTo(list, variables, env, i + k) = RunTo(other, variables, env, j + k)}
<1>1. 0 \in T
    BY <1>0
<1>2. ASSUME NEW k \in 0..(n - 1), k \in T
      PROVE  k + 1 \in T
    <2>1. RunTo(list, variables, env, (i + k) + 1) =
             Execute(env, RunTo(list, variables, env, i + k), list[(i + k) + 1])
        BY <1>0, RunContinues
    <2>2. RunTo(other, variables, env, (j + k) + 1) =
             Execute(env, RunTo(other, variables, env, j + k), other[(j + k) + 1])
        BY <1>0, RunContinues
    <2>3. list[(i + k) + 1] = other[(j + k) + 1]
        <3>1. k + 1 \in 1..n /\ (i + k) + 1 = i + (k + 1) /\ (j + k) + 1 = j + (k + 1)
            BY <1>0
        <3> QED BY <3>1, <1>6
    <2>4. k + 1 \in 0..n /\ (i + k) + 1 = i + (k + 1) /\ (j + k) + 1 = j + (k + 1)
        BY <1>0
    <2> QED BY <1>2, <2>1, <2>2, <2>3, <2>4
<1>3. T \in SUBSET Nat
    BY <1>0
<1> HIDE DEF T
<1>4. 0..n \subseteq T
    BY <1>0, <1>1, <1>2, <1>3, InductionTo
<1> QED
    BY <1>0, <1>4 DEF T

\* Nothing happens any more after a trap.
LEMMA TrapsForGood ==
    ASSUME NEW list, NEW variables, NEW env, NEW i \in Nat, NEW n \in Nat,
           RunTo(list, variables, env, i).trapped
    PROVE  RunTo(list, variables, env, i + n) = RunTo(list, variables, env, i)
<1> DEFINE T == {k \in 0..n : RunTo(list, variables, env, i + k) = RunTo(list, variables, env, i)}
<1>1. 0 \in T
    OBVIOUS
<1>2. ASSUME NEW k \in 0..(n - 1), k \in T
      PROVE  k + 1 \in T
    <2>1. RunTo(list, variables, env, (i + k) + 1) =
             Execute(env, RunTo(list, variables, env, i + k), list[(i + k) + 1])
        BY RunContinues
    <2>2. (i + k) + 1 = i + (k + 1) /\ k + 1 \in 0..n
        OBVIOUS
    <2>3. RunTo(list, variables, env, i + k) = RunTo(list, variables, env, i)
        BY <1>2
    <2>4. Execute(env, RunTo(list, variables, env, i), list[(i + k) + 1]) = RunTo(list, variables, env, i)
        BY DEF Execute
    <2> QED BY <2>1, <2>2, <2>3, <2>4
<1>3. T \in SUBSET Nat
    OBVIOUS
<1> HIDE DEF T
<1>4. 0..n \subseteq T
    BY <1>1, <1>2, <1>3, InductionTo
<1> QED
    BY <1>4 DEF T

-----------------------------------------------------------------------------
(* Values stay within bounds.                                              *)

AreVariables(variables) == \A v \in variables : v.kind = "VAR"

\* What a variable can contain.
Fits(v, value) == value \in Int /\ Within(value, Half) /\ (v.type = "char" => Within(value, CharHalf))

Sound(run, variables) ==
    /\ run \in [values : [variables -> Int], seen : Seq(Int), skipTo : Nat, trapped : BOOLEAN]
    /\ \A v \in variables : Fits(v, run.values[v])

LEMMA StoredFits ==
    ASSUME NEW v, NEW value \in Int, Within(value, Half)
    PROVE  Fits(v, Stored(v, value))
<1>1. Half \in Nat \ {0} /\ CharHalf \in Nat \ {0} /\ CharHalf <= Half
    BY Halves
<1>2. CASE v.type = "char"
    <2>1. Stored(v, value) \in Int /\ Within(Stored(v, value), CharHalf)
        BY <1>1, <1>2, WrapWithin DEF Stored
    <2> QED BY <1>1, <2>1 DEF Fits, Within
<1>3. CASE v.type # "char"
    BY <1>3 DEF Stored, Fits
<1> QED
    BY <1>2, <1>3

\* What fits is stored as it is.
LEMMA StoredSame ==
    ASSUME NEW v, NEW value, Fits(v, value)
    PROVE  Stored(v, value) = value
<1>1. CharHalf \in Nat \ {0}
    BY Halves
<1> QED
    BY <1>1, WrapSame DEF Stored, Fits

LEMMA StartSound ==
    ASSUME NEW variables, NEW env \in Environments
    PROVE  Sound(AtStart(variables, env), variables)
<1>1. ASSUME NEW v \in variables
      PROVE  Fits(v, Stored(v, IF v.name \in DOMAIN env THEN env[v.name] ELSE env["other"]))
    <2> DEFINE value == IF v.name \in DOMAIN env THEN env[v.name] ELSE env["other"]
    <2>1. value \in Int /\ Within(value, Half)
        BY EnvironmentsHaveValues
    <2>2. Fits(v, Stored(v, value))
        <3> HIDE DEF value
        <3> QED BY <2>1, StoredFits
    <2> QED BY <2>2
<1>2. \A v \in variables : Stored(v, IF v.name \in DOMAIN env THEN env[v.name] ELSE env["other"]) \in Int
    BY <1>1 DEF Fits
<1>3. << >> \in Seq(Int)
    OBVIOUS
<1> QED
    BY <1>1, <1>2, <1>3 DEF Sound, AtStart

\* What is read is within bounds.
LEMMA ReadsWithin ==
    ASSUME NEW variables, AreVariables(variables), NEW run, Sound(run, variables),
           NEW x \in variables \cup Numbers
    PROVE  Reads(run, x) \in Int /\ Within(Reads(run, x), Half)
<1>1. CASE x \in variables
    BY <1>1 DEF AreVariables, Reads, Sound, Fits
<1>2. CASE x \in Numbers
    <2>1. x.kind = "NUM" /\ x.digits \in Int /\ Within(ValueOf(x), Half)
        BY <1>2 DEF Numbers
    <2>2. ValueOf(x) \in Int
        BY <2>1 DEF ValueOf
    <2> QED BY <2>1, <2>2 DEF Reads
<1> QED
    BY <1>1, <1>2

\* What an assignment changes.
LEMMA AssignsTo ==
    ASSUME NEW variables, NEW run, Sound(run, variables),
           NEW v \in variables, NEW value \in Int, Within(value, Half)
    PROVE  /\ Sound(Assigns(run, v, value), variables)
           /\ Assigns(run, v, value) = [run EXCEPT !.values = [run.values EXCEPT ![v] = Stored(v, value)]]
           /\ Assigns(run, v, value).values = [run.values EXCEPT ![v] = Stored(v, value)]
           /\ Assigns(run, v, value).skipTo = run.skipTo
           /\ Assigns(run, v, value).trapped = run.trapped
<1>1. Fits(v, Stored(v, value)) /\ Stored(v, value) \in Int
    BY StoredFits DEF Fits
<1>2. Assigns(run, v, value) = [run EXCEPT !.values = [run.values EXCEPT ![v] = Stored(v, value)]]
    BY DEF Assigns
<1>3. [run.values EXCEPT ![v] = Stored(v, value)] \in [variables -> Int]
    BY <1>1 DEF Sound
<1>4. \A w \in variables : Fits(w, [run.values EXCEPT ![v] = Stored(v, value)][w])
    BY <1>1 DEF Sound
<1> QED
    BY <1>2, <1>3, <1>4 DEF Sound

LEMMA AssignsSound ==
    ASSUME NEW variables, NEW run, Sound(run, variables),
           NEW v \in variables, NEW value \in Int, Within(value, Half)
    PROVE  Sound(Assigns(run, v, value), variables)
BY AssignsTo

\* A call changes globals only, and sees what it is given.
LEMMA CalledSound ==
    ASSUME NEW variables, NEW run, Sound(run, variables), NEW env \in Environments,
           NEW given \in Int,
           NEW called,
           called = [run EXCEPT !.seen = Append(@, given),
                                !.values = [v \in DOMAIN @ |-> IF v.scope = 0 THEN Stored(v, env["called"]) ELSE @[v]]]
    PROVE  /\ Sound(called, variables)
           /\ called.skipTo = run.skipTo /\ called.trapped = run.trapped
           /\ \A v \in variables : v.scope # 0 => called.values[v] = run.values[v]
<1> DEFINE values == [v \in variables |-> IF v.scope = 0 THEN Stored(v, env["called"]) ELSE run.values[v]]
           seen == Append(run.seen, given)
<1>1. DOMAIN run.values = variables
    BY DEF Sound
<1>2. called = [run EXCEPT !.seen = seen, !.values = values]
    BY <1>1
<1>3. env["called"] \in Int /\ Within(env["called"], Half)
    BY EnvironmentsHaveValues
<1>4. \A v \in variables : Fits(v, values[v])
    BY <1>3, StoredFits DEF Sound
<1>5. values \in [variables -> Int]
    BY <1>4 DEF Fits
<1>6. seen \in Seq(Int)
    BY DEF Sound
<1>7. \A v \in variables : v.scope # 0 => values[v] = run.values[v]
    OBVIOUS
<1> HIDE DEF values, seen
<1>8. called \in [values : [variables -> Int], seen : Seq(Int), skipTo : Nat, trapped : BOOLEAN]
    BY <1>2, <1>5, <1>6 DEF Sound
<1>9. called.values = values /\ called.skipTo = run.skipTo /\ called.trapped = run.trapped
    BY <1>2 DEF Sound
<1> QED
    BY <1>4, <1>7, <1>8, <1>9 DEF Sound

LEMMA ExecuteSound ==
    ASSUME NEW variables, AreVariables(variables), NEW env \in Environments,
           NEW run, Sound(run, variables), NEW s \in Statements(variables)
    PROVE  Sound(Execute(env, run, s), variables)
<1> DEFINE left == Reads(run, s.left)
           right == Reads(run, s.right)
<1>1. /\ s.left \in variables \cup Numbers /\ s.right \in variables \cup Numbers
      /\ s.result \in variables /\ s.target \in Nat
      /\ s.op \in {"binary", "copy", "negate", "call", "branch", "jump", "label"}
      /\ s.op = "binary" => s.test \in Tests
    BY DEF Statements
<1>2. left \in Int /\ Within(left, Half) /\ right \in Int /\ Within(right, Half)
    BY <1>1, ReadsWithin
<1> HIDE DEF left, right
<1>3. CASE run.trapped
    BY <1>3 DEF Execute
<1>4. CASE ~run.trapped /\ run.skipTo # 0
    BY <1>4 DEF Execute, Sound
<1>5. CASE ~run.trapped /\ run.skipTo = 0
    <2>1. CASE s.op = "binary"
        <3>1. CASE Traps(s.test, left, right)
            <4>1. Execute(env, run, s) = [run EXCEPT !.trapped = TRUE]
                BY <1>5, <2>1, <3>1 DEF Execute, left, right
            <4> QED BY <4>1 DEF Sound
        <3>2. CASE ~Traps(s.test, left, right)
            <4>1. Execute(env, run, s) = Assigns(run, s.result, Compute(s.test, left, right))
                BY <1>5, <2>1, <3>2 DEF Execute, left, right
            <4>2. Compute(s.test, left, right) \in Int /\ Within(Compute(s.test, left, right), Half)
                BY <1>1, <1>2, <2>1, <3>2, ComputeWithin
            <4> QED BY <1>1, <4>1, <4>2, AssignsSound
        <3> QED BY <3>1, <3>2
    <2>2. CASE s.op = "copy"
        <3>1. Execute(env, run, s) = Assigns(run, s.result, left)
            BY <1>5, <2>2 DEF Execute, left
        <3> QED BY <1>1, <1>2, <3>1, AssignsSound
    <2>3. CASE s.op = "negate"
        <3>1. Execute(env, run, s) = Assigns(run, s.result, Wrap(-left, Half))
            BY <1>5, <2>3 DEF Execute, left
        <3>2. Wrap(-left, Half) \in Int /\ Within(Wrap(-left, Half), Half)
            <4>1. -left \in Int /\ Half \in Nat \ {0}
                BY <1>2, Halves
            <4> QED BY <4>1, WrapWithin
        <3> QED BY <1>1, <3>1, <3>2, AssignsSound
    <2>4. CASE s.op = "call"
        <3> DEFINE called == [run EXCEPT !.seen = Append(@, left),
                                !.values = [v \in DOMAIN @ |-> IF v.scope = 0 THEN Stored(v, env["called"]) ELSE @[v]]]
        <3>1. Execute(env, run, s) = Assigns(called, s.result, env["called"])
            BY <1>5, <2>4 DEF Execute, left
        <3>2. Sound(called, variables)
            BY <1>2, CalledSound
        <3>3. env["called"] \in Int /\ Within(env["called"], Half)
            BY EnvironmentsHaveValues
        <3> HIDE DEF called
        <3> QED BY <1>1, <3>1, <3>2, <3>3, AssignsSound
    <2>5. CASE s.op \in {"branch", "jump", "label"}
        <3>1. Execute(env, run, s) = run \/ Execute(env, run, s) = [run EXCEPT !.skipTo = s.target]
            BY <1>5, <2>5 DEF Execute
        <3> QED BY <1>1, <3>1 DEF Sound
    <2> QED BY <1>1, <2>1, <2>2, <2>3, <2>4, <2>5
<1> QED
    BY <1>3, <1>4, <1>5 DEF Sound

LEMMA RunSound ==
    ASSUME NEW variables, AreVariables(variables), NEW env \in Environments,
           NEW list \in Seq(Statements(variables)), NEW n \in 0..Len(list)
    PROVE  Sound(RunTo(list, variables, env, n), variables)
<1> DEFINE T == {k \in 0..n : Sound(RunTo(list, variables, env, k), variables)}
<1>1. 0 \in T
    BY StartSound, RunStarts
<1>2. ASSUME NEW k \in 0..(n - 1), k \in T
      PROVE  k + 1 \in T
    <2>1. RunTo(list, variables, env, k + 1) =
             Execute(env, RunTo(list, variables, env, k), list[k + 1])
        BY RunContinues
    <2>2. k + 1 \in 1..Len(list) /\ list[k + 1] \in Statements(variables) /\ k + 1 \in 0..n
        OBVIOUS
    <2> QED BY <1>2, <2>1, <2>2, ExecuteSound
<1>3. T \in SUBSET Nat /\ n \in Nat
    OBVIOUS
<1> HIDE DEF T
<1>4. 0..n \subseteq T
    BY <1>1, <1>2, <1>3, InductionTo
<1> QED
    BY <1>4 DEF T

-----------------------------------------------------------------------------
(* One statement is replaced.                                              *)

Spliced(list, k, new) == SubSeq(list, 1, k - 1) \o new \o SubSeq(list, k + 1, Len(list))

LEMMA SplicedOne ==
    ASSUME NEW S, NEW list \in Seq(S), NEW k \in 1..Len(list), NEW t \in S
    PROVE  /\ Spliced(list, k, <<t>>) \in Seq(S)
           /\ Len(Spliced(list, k, <<t>>)) = Len(list)
           /\ \A i \in 1..Len(list) : Spliced(list, k, <<t>>)[i] = IF i = k THEN t ELSE list[i]
<1> DEFINE a == SubSeq(list, 1, k - 1)
           b == SubSeq(list, k + 1, Len(list))
<1>1. a \in Seq(S) /\ Len(a) = k - 1 /\ \A i \in 1..(k - 1) : a[i] = list[i]
    OBVIOUS
<1>2. b \in Seq(S) /\ Len(b) = Len(list) - k /\ \A i \in 1..(Len(list) - k) : b[i] = list[k + i]
    <2>1. CASE k = Len(list)
        BY <2>1
    <2>2. CASE k < Len(list)
        BY <2>2
    <2> QED BY <2>1, <2>2
<1>3. Spliced(list, k, <<t>>) = (a \o <<t>>) \o b
    BY DEF Spliced
<1> HIDE DEF a, b
<1>4. a \o <<t>> \in Seq(S) /\ Len(a \o <<t>>) = k /\ (a \o <<t>>)[k] = t
      /\ \A i \in 1..(k - 1) : (a \o <<t>>)[i] = list[i]
    BY <1>1
<1> DEFINE c == a \o <<t>>
<1>5. c \in Seq(S) /\ Len(c) = k /\ c[k] = t /\ \A i \in 1..(k - 1) : c[i] = list[i]
    BY <1>4
<1>6. Spliced(list, k, <<t>>) = c \o b
    BY <1>3
<1> HIDE DEF c
<1>0. k \in Nat /\ Len(list) \in Nat /\ k <= Len(list)
    OBVIOUS
<1>9. /\ c \o b \in Seq(S) /\ Len(c \o b) = Len(c) + Len(b)
      /\ \A i \in 1..(Len(c) + Len(b)) : (c \o b)[i] = IF i <= Len(c) THEN c[i] ELSE b[i - Len(c)]
    BY ONLY <1>2, <1>5, ConcatProperties
<1>7. c \o b \in Seq(S) /\ Len(c \o b) = Len(list)
    BY <1>0, <1>9, <1>2, <1>5
<1>8. ASSUME NEW i \in 1..Len(list)
      PROVE  (c \o b)[i] = IF i = k THEN t ELSE list[i]
    <2>1. CASE i <= k
        <3>1. (c \o b)[i] = c[i]
            BY <1>0, <2>1, <1>9, <1>2, <1>5
        <3> QED BY <3>1, <2>1, <1>5
    <2>2. CASE i > k
        <3>1. (c \o b)[i] = b[i - k] /\ i - k \in 1..(Len(list) - k) /\ k + (i - k) = i
            BY <1>0, <2>2, <1>9, <1>2, <1>5
        <3> QED BY <3>1, <2>2, <1>2
    <2>3. i <= k \/ i > k
        BY <1>0
    <2> QED BY <2>1, <2>2, <2>3
<1> QED
    BY <1>6, <1>7, <1>8

LEMMA SplicedNone ==
    ASSUME NEW S, NEW list \in Seq(S), NEW k \in 1..Len(list)
    PROVE  /\ Spliced(list, k, << >>) \in Seq(S)
           /\ Len(Spliced(list, k, << >>)) = Len(list) - 1
           /\ \A i \in 1..(Len(list) - 1) :
                 Spliced(list, k, << >>)[i] = IF i < k THEN list[i] ELSE list[i + 1]
<1> DEFINE a == SubSeq(list, 1, k - 1)
           b == SubSeq(list, k + 1, Len(list))
<1>1. a \in Seq(S) /\ Len(a) = k - 1 /\ \A i \in 1..(k - 1) : a[i] = list[i]
    OBVIOUS
<1>2. b \in Seq(S) /\ Len(b) = Len(list) - k /\ \A i \in 1..(Len(list) - k) : b[i] = list[k + i]
    <2>1. CASE k = Len(list)
        BY <2>1
    <2>2. CASE k < Len(list)
        BY <2>2
    <2> QED BY <2>1, <2>2
<1>3. Spliced(list, k, << >>) = (a \o << >>) \o b
    BY DEF Spliced
<1> HIDE DEF a, b
<1>4. a \o << >> = a
    BY <1>1
<1>5. Spliced(list, k, << >>) = a \o b
    BY <1>3, <1>4
<1>0. k \in Nat /\ Len(list) \in Nat /\ k <= Len(list) /\ 1 <= k
    OBVIOUS
<1>8. /\ a \o b \in Seq(S) /\ Len(a \o b) = Len(a) + Len(b)
      /\ \A i \in 1..(Len(a) + Len(b)) : (a \o b)[i] = IF i <= Len(a) THEN a[i] ELSE b[i - Len(a)]
    BY ONLY <1>1, <1>2, ConcatProperties
<1>6. a \o b \in Seq(S) /\ Len(a \o b) = Len(list) - 1
    BY <1>0, <1>8, <1>1, <1>2
<1>7. ASSUME NEW i \in 1..(Len(list) - 1)
      PROVE  (a \o b)[i] = IF i < k THEN list[i] ELSE list[i + 1]
    <2>1. CASE i < k
        <3>1. (a \o b)[i] = a[i] /\ i \in 1..(k - 1)
            BY <1>0, <2>1, <1>8, <1>1, <1>2
        <3> QED BY <3>1, <2>1, <1>1
    <2>2. CASE i >= k
        <3>1. (a \o b)[i] = b[i - (k - 1)] /\ i - (k - 1) \in 1..(Len(list) - k) /\ k + (i - (k - 1)) = i + 1
            BY <1>0, <2>2, <1>8, <1>1, <1>2
        <3> QED BY <3>1, <2>2, <1>2
    <2>3. i < k \/ i >= k
        BY <1>0
    <2> QED BY <2>1, <2>2, <2>3
<1> QED
    BY <1>5, <1>6, <1>7

\* What a statement does to a run, if there is one.
After(env, run, new) == IF new = << >> THEN run ELSE Execute(env, run, new[1])

\* In list the k-th of n statements is replaced, which gives other, with m.
Replaced(list, n, k, new, other, m) ==
    \/ /\ new = << >> /\ m = n - 1
       /\ \A i \in 1..m : other[i] = IF i < k THEN list[i] ELSE list[i + 1]
    \/ /\ new # << >> /\ m = n
       /\ \A i \in 1..m : other[i] = IF i = k THEN new[1] ELSE list[i]

\* Until then nothing changes, and if what replaces a statement does the same there,
\* nothing changes after it.
LEMMA ReplacedRun ==
    ASSUME NEW list, NEW n \in Nat, NEW k \in Nat, 1 <= k, k <= n, NEW new,
           NEW other, NEW m, Replaced(list, n, k, new, other, m),
           NEW variables, NEW env,
           NEW run, run = RunTo(list, variables, env, k - 1)
    PROVE  /\ RunTo(other, variables, env, k - 1) = run
           /\ new # << >> => RunTo(other, variables, env, k) = After(env, run, new)
           /\ After(env, run, new) = Execute(env, run, list[k]) =>
                  RunTo(other, variables, env, m) = RunTo(list, variables, env, n)
<1>0. k - 1 \in Nat /\ n - 1 \in Nat /\ (k - 1) + 1 = k /\ m \in Nat
    BY DEF Replaced
<1>1. RunTo(list, variables, env, k) = Execute(env, run, list[k])
    <2>1. RunTo(list, variables, env, (k - 1) + 1) = Execute(env, run, list[(k - 1) + 1])
        BY <1>0, RunContinues
    <2> QED BY <1>0, <2>1
<1>2. RunTo(other, variables, env, k - 1) = run
    <2>1. RunTo(other, variables, env, 0) = RunTo(list, variables, env, 0)
        BY RunStarts
    <2>2. SameFrom(other, list, 0, 0, k - 1)
        BY <1>0 DEF SameFrom, Replaced
    <2> QED BY <1>0, <2>1, <2>2, RunsAlike
<1>3. CASE new = << >>
    <2>1. m = n - 1 /\ After(env, run, new) = run
        BY <1>3 DEF Replaced, After
    <2>2. ASSUME run = Execute(env, run, list[k])
          PROVE  RunTo(other, variables, env, m) = RunTo(list, variables, env, n)
        <3>1. RunTo(other, variables, env, k - 1) = RunTo(list, variables, env, k)
            BY <1>1, <1>2, <2>2
        <3>2. SameFrom(other, list, k - 1, k, m)
            <4>1. ASSUME NEW i \in 1..(m - (k - 1))
                  PROVE  other[(k - 1) + i] = list[k + i]
                <5>1. (k - 1) + i \in 1..m /\ ~((k - 1) + i < k) /\ ((k - 1) + i) + 1 = k + i
                    BY <1>0
                <5> QED BY <5>1, <1>3 DEF Replaced
            <4> QED BY <4>1 DEF SameFrom
        <3>3. m - (k - 1) = n - k /\ k - 1 <= m
            BY <2>1, <1>0
        <3> QED BY <1>0, <3>1, <3>2, <3>3, RunsAlike
    <2> QED BY <1>2, <1>3, <2>1, <2>2
<1>4. CASE new # << >>
    <2>1. m = n /\ After(env, run, new) = Execute(env, run, new[1]) /\ other[k] = new[1]
        BY <1>4, <1>0 DEF Replaced, After
    <2>2. RunTo(other, variables, env, k) = Execute(env, run, new[1])
        <3>1. RunTo(other, variables, env, (k - 1) + 1) = Execute(env, RunTo(other, variables, env, k - 1), other[(k - 1) + 1])
            BY <1>0, RunContinues
        <3> QED BY <1>0, <1>2, <2>1, <3>1
    <2>3. ASSUME Execute(env, run, new[1]) = Execute(env, run, list[k])
          PROVE  RunTo(other, variables, env, m) = RunTo(list, variables, env, n)
        <3>1. RunTo(other, variables, env, k) = RunTo(list, variables, env, k)
            BY <1>1, <2>2, <2>3
        <3>2. SameFrom(other, list, k, k, m)
            <4>1. ASSUME NEW i \in 1..(m - k)
                  PROVE  other[k + i] = list[k + i]
                <5>1. k + i \in 1..m /\ k + i # k
                    BY <1>0
                <5> QED BY <5>1, <1>4 DEF Replaced
            <4> QED BY <4>1 DEF SameFrom
        <3>3. m - k = n - k /\ k <= m /\ k \in Nat /\ n \in Nat /\ m \in Nat
            BY <2>1
        <3> QED BY ONLY <3>1, <3>2, <3>3, RunsAlike
    <2> QED BY <1>2, <1>4, <2>1, <2>2, <2>3
<1> QED
    BY <1>3, <1>4

\* What is spliced is replaced.
LEMMA SplicedIsReplaced ==
    ASSUME NEW S, NEW list \in Seq(S), NEW k \in 1..Len(list),
           NEW new, new = << >> \/ \E t \in S : new = <<t>>
    PROVE  /\ Replaced(list, Len(list), k, new, Spliced(list, k, new), Len(Spliced(list, k, new)))
           /\ Spliced(list, k, new) \in Seq(S)
<1>1. CASE new = << >>
    BY <1>1, SplicedNone DEF Replaced
<1>2. CASE \E t \in S : new = <<t>>
    <2>1. PICK t \in S : new = <<t>>
        BY <1>2
    <2>2. new # << >> /\ new[1] = t /\ Spliced(list, k, new) = Spliced(list, k, <<t>>)
        BY <2>1
    <2> DEFINE other == Spliced(list, k, <<t>>)
    <2>3. /\ other \in Seq(S)
          /\ Len(other) = Len(list)
          /\ \A i \in 1..Len(list) : other[i] = IF i = k THEN t ELSE list[i]
        BY SplicedOne
    <2> HIDE DEF other
    <2>4. Replaced(list, Len(list), k, new, other, Len(other))
        BY <2>2, <2>3 DEF Replaced
    <2> QED BY <2>2, <2>3, <2>4 DEF other
<1> QED
    BY <1>1, <1>2

-----------------------------------------------------------------------------
(* What statements are replaced by.                                        *)

\* Nothing but a label is executed after a trap or a jump.
LEMMA IdleStays ==
    ASSUME NEW env, NEW run, run.trapped \/ run.skipTo # 0, NEW s, s.op # "label"
    PROVE  Execute(env, run, s) = run
BY DEF Execute

LEMMA StatementHas ==
    ASSUME NEW variables, AreVariables(variables), NEW s \in Statements(variables)
    PROVE  /\ s.left \in variables \cup Numbers /\ s.right \in variables \cup Numbers
           /\ s.result \in variables /\ s.result.kind = "VAR"
           /\ s.line \in Nat /\ s.target \in Nat /\ s.test \in Tests \cup {""}
           /\ s.op \in {"binary", "copy", "negate", "call", "branch", "jump", "label"}
           /\ s.op = "binary" => s.test \in Tests /\ s.result.type # "char"
           /\ s.op = "branch" => s.test \in Comparisons
BY DEF Statements, AreVariables

LEMMA SymbolKinds ==
    ASSUME NEW variables, AreVariables(variables), NEW x \in variables \cup Numbers
    PROVE  /\ x.kind = "VAR" <=> x \in variables
           /\ x.kind = "NUM" <=> x \in Numbers
           /\ x \in Numbers => x.digits \in Int /\ x.octal \in BOOLEAN
BY DEF AreVariables, Numbers

\* Numbers that the optimizer makes are numbers.
LEMMA NumberIsNumber ==
    ASSUME NEW value \in Int, Within(value, Half), NEW line \in Nat, NEW run
    PROVE  Number(value, line) \in Numbers /\ Reads(run, Number(value, line)) = value
BY DEF Number, Numbers, ValueOf, Reads

LEMMA SmallWithin == Within(0, Half) /\ Within(1, Half)
BY Halves DEF Within

\* What has the name of a number is read as that.
LEMMA NamedReads ==
    ASSUME NEW run, NEW x, NEW value, Named(x, value)
    PROVE  Reads(run, x) = value
BY DEF Named, Reads, ValueOf

\* What has the same name has the same value.
LEMMA SameNameReads ==
    ASSUME NEW variables, AreVariables(variables), NEW run,
           NEW x \in variables \cup Numbers, NEW y \in variables \cup Numbers,
           Name(x) = Name(y),
           x.kind = "VAR" /\ y.kind = "VAR" /\ x.name = y.name => x = y
    PROVE  Reads(run, x) = Reads(run, y)
<1>1. CASE x.kind = "VAR" /\ y.kind = "VAR"
    BY <1>1 DEF Name
<1>2. CASE x.kind = "NUM" /\ y.kind = "NUM"
    <2>1. x.digits = y.digits /\ x.octal = y.octal
        BY <1>2 DEF Name
    <2> QED BY <1>2, <2>1 DEF Reads, ValueOf
<1>3. CASE x.kind # y.kind
    <2>1. \A a, b, c : <<a>> # <<b, c>>
        OBVIOUS
    <2> QED BY <1>3, <2>1, SymbolKinds DEF Name
<1> QED
    BY <1>1, <1>2, <1>3, SymbolKinds

\* A copy instead of an operation is a statement.
LEMMA CopiedIsStatement ==
    ASSUME NEW variables, NEW s \in Statements(variables), NEW x \in variables \cup Numbers
    PROVE  /\ Copied(s, x) \in Statements(variables)
           /\ Copied(s, x).op = "copy" /\ Copied(s, x).result = s.result
           /\ Copied(s, x).left = x /\ Copied(s, x).right = x
BY DEF Copied, Statements

\* It does the same if what is copied has the value.
LEMMA CopiedSame ==
    ASSUME NEW variables, NEW env, NEW run,
           NEW s \in Statements(variables), s.op = "binary", NEW x \in variables \cup Numbers,
           ~run.trapped, run.skipTo = 0,
           ~Traps(s.test, Reads(run, s.left), Reads(run, s.right)),
           Reads(run, x) = Compute(s.test, Reads(run, s.left), Reads(run, s.right))
    PROVE  Execute(env, run, Copied(s, x)) = Execute(env, run, s)
<1>1. Execute(env, run, s) = Assigns(run, s.result, Reads(run, x))
    BY DEF Execute
<1>2. Copied(s, x).op = "copy" /\ Copied(s, x).result = s.result /\ Copied(s, x).left = x
    BY CopiedIsStatement
<1>3. Execute(env, run, Copied(s, x)) = Assigns(run, s.result, Reads(run, x))
    BY <1>2 DEF Execute
<1> QED
    BY <1>1, <1>3

\* What the comparisons compare.
LEMMA ComparisonsAre ==
    ASSUME NEW m \in Int, NEW n \in Int
    PROVE  /\ Compare("==", m, n) = (m = n) /\ Compare("!=", m, n) = (m # n)
           /\ Compare("<", m, n) = (m < n) /\ Compare(">", m, n) = (m > n)
           /\ Compare("<=", m, n) = (m <= n) /\ Compare(">=", m, n) = (m >= n)
           /\ \A test \in Comparisons : Compare(test, m, m) <=> test \in {"==", "<=", ">="}
<1>1. Compare("==", m, n) = (m = n)
    BY DEF Compare
<1>2. Compare("!=", m, n) = (m # n)
    BY DEF Compare
<1>3. Compare("<", m, n) = (m < n)
    BY DEF Compare
<1>4. Compare(">", m, n) = (m > n)
    BY DEF Compare
<1>5. Compare("<=", m, n) = (m <= n)
    BY DEF Compare
<1>6. Compare(">=", m, n) = (m >= n)
    BY DEF Compare
<1>7. ASSUME NEW test \in Comparisons
      PROVE  Compare(test, m, m) <=> test \in {"==", "<=", ">="}
    <2>1. CASE test = "=="
        BY <2>1 DEF Compare
    <2>2. CASE test = "!="
        BY <2>2 DEF Compare
    <2>3. CASE test = "<"
        BY <2>3 DEF Compare
    <2>4. CASE test = ">"
        BY <2>4 DEF Compare
    <2>5. CASE test = "<="
        BY <2>5 DEF Compare
    <2>6. CASE test = ">="
        BY <2>6 DEF Compare
    <2> QED BY <2>1, <2>2, <2>3, <2>4, <2>5, <2>6 DEF Comparisons
<1> QED
    BY <1>1, <1>2, <1>3, <1>4, <1>5, <1>6, <1>7

LEMMA QuotientByOne ==
    ASSUME NEW m \in Int
    PROVE  Quotient(m, 1) = m
<1>1. \A a \in Nat : a \div 1 = a
    OBVIOUS
<1>2. CASE m < 0
    <2>1. Quotient(m, 1) = -((-m) \div 1)
        BY <1>2 DEF Quotient
    <2> QED BY <1>1, <1>2, <2>1
<1>3. CASE ~(m < 0)
    <2>1. Quotient(m, 1) = m \div 1
        BY <1>3 DEF Quotient
    <2> QED BY <1>1, <1>3, <2>1
<1> QED
    BY <1>2, <1>3

LEMMA QuotientOfZero ==
    ASSUME NEW n \in Int, n # 0
    PROVE  Quotient(0, n) = 0
<1>1. \A b \in Nat \ {0} : 0 \div b = 0
    OBVIOUS
<1>2. CASE n < 0
    <2>1. Quotient(0, n) = -(0 \div (-n))
        BY <1>2 DEF Quotient
    <2> QED BY <1>1, <1>2, <2>1
<1>3. CASE ~(n < 0)
    <2>1. Quotient(0, n) = 0 \div n
        BY <1>3 DEF Quotient
    <2> QED BY <1>1, <1>3, <2>1
<1> QED
    BY <1>2, <1>3

\* Each rule is right: what it has has the value of the operation, unless that traps.
LEMMA RulesHold ==
    ASSUME NEW variables, AreVariables(variables), NEW run, Sound(run, variables),
           NEW s \in Statements(variables), s.op = "binary", NamesTell(s, variables),
           NEW i \in DOMAIN Rules(s), Rules(s)[i][1]
    PROVE  /\ Rules(s)[i][2] \in variables \cup Numbers
           /\ \/ Traps(s.test, Reads(run, s.left), Reads(run, s.right))
              \/ Reads(run, Rules(s)[i][2]) = Compute(s.test, Reads(run, s.left), Reads(run, s.right))
<1> DEFINE m == Reads(run, s.left)
           n == Reads(run, s.right)
           x == Rules(s)[i][2]
           same == Name(s.left) = Name(s.right)
           zeroed == Named(s.right, 0) \/ Named(s.left, 0)
<1>1. /\ s.left \in variables \cup Numbers /\ s.right \in variables \cup Numbers
      /\ s.line \in Nat /\ s.test \in Tests
    BY StatementHas
<1>2. m \in Int /\ n \in Int /\ Within(m, Half) /\ Within(n, Half)
    BY <1>1, ReadsWithin
<1>3. /\ Number(0, s.line) \in Numbers /\ Reads(run, Number(0, s.line)) = 0
      /\ Number(1, s.line) \in Numbers /\ Reads(run, Number(1, s.line)) = 1
    BY <1>1, NumberIsNumber, SmallWithin
<1>4. same => m = n
    BY <1>1, SameNameReads DEF NamesTell
<1>5. \A value : /\ Named(s.left, value) => m = value
                 /\ Named(s.right, value) => n = value
    BY NamedReads
<1>6. Half \in Nat \ {0}
    BY Halves
<1>13. zeroed => m = 0 \/ n = 0
    BY <1>5
<1> HIDE DEF m, n, same, zeroed
<1>7. CASE s.test = "+"
    <2>1. Rules(s) = <<<<Named(s.right, 0), s.left>>, <<Named(s.left, 0), s.right>>>>
        BY <1>7 DEF Rules
    <2>2. (x = s.left /\ n = 0) \/ (x = s.right /\ m = 0)
        <3>1. i = 1 \/ i = 2
            BY <2>1
        <3> QED BY <2>1, <3>1, <1>5
    <2>3. Compute(s.test, m, n) = Wrap(m + n, Half)
        BY <1>7 DEF Compute
    <2>4. (n = 0 => m + n = m) /\ (m = 0 => m + n = n)
        BY <1>2
    <2>5. Wrap(m, Half) = m /\ Wrap(n, Half) = n
        BY <1>2, <1>6, WrapSame
    <2> HIDE DEF x
    <2>6. Reads(run, x) = Compute(s.test, m, n)
        BY <2>2, <2>3, <2>4, <2>5 DEF m, n
    <2> QED BY <1>1, <2>2, <2>6 DEF x, m, n
<1>8. CASE s.test = "*"
    <2>1. Rules(s) = <<<<Named(s.right, 1), s.left>>, <<Named(s.left, 1), s.right>>,
                       <<zeroed, Number(0, s.line)>>>>
        BY <1>8 DEF Rules, zeroed
    <2>2. (x = s.left /\ n = 1) \/ (x = s.right /\ m = 1) \/ (x = Number(0, s.line) /\ (m = 0 \/ n = 0))
        <3>1. i = 1 \/ i = 2 \/ i = 3
            BY <2>1
        <3> QED BY <2>1, <3>1, <1>5, <1>13
    <2>3. Compute(s.test, m, n) = Wrap(m * n, Half)
        BY <1>8 DEF Compute
    <2>4. (n = 1 => m * n = m) /\ (m = 1 => m * n = n) /\ (m = 0 \/ n = 0 => m * n = 0)
        BY <1>2
    <2>5. Wrap(m, Half) = m /\ Wrap(n, Half) = n /\ Wrap(0, Half) = 0
        BY <1>2, <1>6, WrapSame, SmallWithin
    <2> HIDE DEF x
    <2>6. Reads(run, x) = Compute(s.test, m, n)
        BY <2>2, <2>3, <2>4, <2>5, <1>3 DEF m, n
    <2> QED BY <1>1, <1>3, <2>2, <2>6 DEF x, m, n
<1>9. CASE s.test = "-"
    <2>1. Rules(s) = <<<<Named(s.right, 0), s.left>>, <<same, Number(0, s.line)>>>>
        BY <1>9 DEF Rules, same
    <2>2. (x = s.left /\ n = 0) \/ (x = Number(0, s.line) /\ m = n)
        <3>1. i = 1 \/ i = 2
            BY <2>1
        <3> QED BY <2>1, <3>1, <1>5, <1>4
    <2>3. Compute(s.test, m, n) = Wrap(m - n, Half)
        BY <1>9 DEF Compute
    <2>4. (n = 0 => m - n = m) /\ (m = n => m - n = 0)
        BY <1>2
    <2>5. Wrap(m, Half) = m /\ Wrap(0, Half) = 0
        BY <1>2, <1>6, WrapSame, SmallWithin
    <2> HIDE DEF x
    <2>6. Reads(run, x) = Compute(s.test, m, n)
        BY <2>2, <2>3, <2>4, <2>5, <1>3 DEF m, n
    <2> QED BY <1>1, <1>3, <2>2, <2>6 DEF x, m, n
<1>10. CASE s.test = "/"
    <2>1. Rules(s) = <<<<Named(s.right, 1), s.left>>, <<Named(s.left, 0), Number(0, s.line)>>>>
        BY <1>10 DEF Rules
    <2>2. (x = s.left /\ n = 1) \/ (x = Number(0, s.line) /\ m = 0)
        <3>1. i = 1 \/ i = 2
            BY <2>1
        <3> QED BY <2>1, <3>1, <1>5
    <2>3. Compute(s.test, m, n) = Quotient(m, n) /\ (Traps(s.test, m, n) \/ n # 0)
        BY <1>10 DEF Compute, Traps
    <2>4. Quotient(m, 1) = m /\ (n # 0 => Quotient(0, n) = 0)
        BY <1>2, QuotientByOne, QuotientOfZero
    <2> HIDE DEF x
    <2>6. Traps(s.test, m, n) \/ Reads(run, x) = Compute(s.test, m, n)
        BY <2>2, <2>3, <2>4, <1>3 DEF m, n
    <2> QED BY <1>1, <1>3, <2>2, <2>6 DEF x, m, n
<1>11. CASE s.test \in Comparisons
    <2>1. Rules(s) = <<<<same, Number(IF s.test \in {"==", "<=", ">="} THEN 1 ELSE 0, s.line)>>>>
        BY <1>11 DEF Rules, Comparisons, same
    <2>2. x = Number(IF s.test \in {"==", "<=", ">="} THEN 1 ELSE 0, s.line) /\ m = n
        <3>1. i = 1
            BY <2>1
        <3> QED BY <2>1, <3>1, <1>4
    <2>3. Compute(s.test, m, m) = IF s.test \in {"==", "<=", ">="} THEN 1 ELSE 0
        <3>1. Compute(s.test, m, m) = IF Compare(s.test, m, m) THEN 1 ELSE 0
            BY <1>11 DEF Compute, Comparisons
        <3>2. Compare(s.test, m, m) <=> s.test \in {"==", "<=", ">="}
            BY <1>2, <1>11, ComparisonsAre
        <3> QED BY <3>1, <3>2
    <2> HIDE DEF x
    <2>6. Reads(run, x) = Compute(s.test, m, n)
        BY <2>2, <2>3, <1>3
    <2> QED BY <1>1, <1>3, <2>2, <2>6 DEF x, m, n
<1>12. CASE s.test = "%"
    BY <1>12 DEF Rules
<1> QED
    BY <1>1, <1>7, <1>8, <1>9, <1>10, <1>11, <1>12 DEF Tests

\* A rule has an operand or a number.
LEMMA RulesTake ==
    ASSUME NEW variables, AreVariables(variables), NEW s \in Statements(variables), s.op = "binary",
           NEW i \in DOMAIN Rules(s)
    PROVE  Rules(s)[i][2] \in {s.left, s.right} \cup Numbers
<1>1. \A value \in {0, 1} : Number(value, s.line) \in Numbers
    <2>1. s.line \in Nat
        BY StatementHas
    <2> QED BY <2>1, NumberIsNumber, SmallWithin
<1>2. s.test \in Tests
    BY StatementHas
<1>3. CASE s.test = "+"
    BY <1>3 DEF Rules
<1>4. CASE s.test = "*"
    BY <1>1, <1>4 DEF Rules
<1>5. CASE s.test = "-"
    BY <1>1, <1>5 DEF Rules
<1>6. CASE s.test = "/"
    BY <1>1, <1>6 DEF Rules
<1>7. CASE s.test \in Comparisons
    BY <1>1, <1>7 DEF Rules, Comparisons
<1>8. CASE s.test = "%"
    BY <1>8 DEF Rules
<1> QED
    BY <1>2, <1>3, <1>4, <1>5, <1>6, <1>7, <1>8 DEF Tests

\* What is plain about the numbers of a statement.
OctalPlain(s) ==
    s.op \in {"binary", "branch"} /\ s.left.kind = "NUM" /\ s.right.kind = "NUM" =>
        /\ s.left.digits = ValueOf(s.left) /\ s.right.digits = ValueOf(s.right)
        /\ s.op = "branch" /\ s.left.digits = s.right.digits => Name(s.left) = Name(s.right)

\* What s can be replaced by.
Improves(s, new, variables) ==
    \/ new = << >> /\ s.op # "label"
    \/ \E t \in Statements(variables) :
        /\ new = <<t>> /\ NamesTell(t, variables)
        /\ \/ s.op = "binary" /\ t.op \in {"copy", "negate"} /\ t.result = s.result
           \/ s.op = "branch" /\ t.op \in {"branch", "jump"} /\ (t.op = "branch" => OctalPlain(t))

\* The effect is the same, or that is a trap.
DoesTheSame(env, run, s, new) ==
    Execute(env, run, s).trapped \/ After(env, run, new) = Execute(env, run, s)

\* A copy has only names that the operation had.
LEMMA CopiedTells ==
    ASSUME NEW variables, AreVariables(variables), NEW s \in Statements(variables), s.op = "binary",
           NamesTell(s, variables), NEW x \in variables \cup Numbers
    PROVE  NamesTell(Copied(s, x), variables) /\ Improves(s, <<Copied(s, x)>>, variables)
<1> DEFINE t == Copied(s, x)
<1>1. t \in Statements(variables) /\ t.op = "copy" /\ t.result = s.result /\ t.left = x /\ t.right = x
    BY CopiedIsStatement
<1>2. s.result \in variables /\ s.result.kind = "VAR"
    BY StatementHas
<1>3. \A w \in variables : w.name = s.result.name => w = s.result
    BY <1>2 DEF NamesTell, AreVariables
<1>4. \A v \in {s.result, x} : v.kind = "VAR" => v \in variables
    BY <1>2, SymbolKinds
<1> HIDE DEF t
<1>5. NamesTell(t, variables)
    <2> SUFFICES ASSUME NEW v \in {s.result, x}, NEW w \in {s.result, x},
                        v.kind = "VAR", w.kind = "VAR", v.name = w.name
                 PROVE  v = w
        BY <1>1 DEF NamesTell
    <2> QED BY <1>3, <1>4
<1> QED
    BY <1>1, <1>5 DEF t, Improves

\* After a trap or a jump nothing changes whatever replaces a statement.
LEMMA IdleSame ==
    ASSUME NEW variables, NEW env, NEW run, run.trapped \/ run.skipTo # 0,
           NEW s, NEW new, Improves(s, new, variables)
    PROVE  DoesTheSame(env, run, s, new)
<1>1. s.op # "label"
    BY DEF Improves
<1>2. Execute(env, run, s) = run
    BY <1>1, IdleStays
<1>3. CASE new = << >>
    BY <1>2, <1>3 DEF DoesTheSame, After
<1>4. CASE \E t \in Statements(variables) : new = <<t>> /\ t.op # "label"
    <2>1. PICK t : new = <<t>> /\ t.op # "label"
        BY <1>4
    <2>2. new # << >> /\ new[1] = t
        BY <2>1
    <2>3. Execute(env, run, t) = run
        BY <2>1, IdleStays
    <2> QED BY <1>2, <2>2, <2>3 DEF DoesTheSame, After
<1> QED
    BY <1>3, <1>4 DEF Improves

\* What is assigned to itself does not change.
LEMMA SelfCopySame ==
    ASSUME NEW variables, NEW run, Sound(run, variables), NEW v \in variables
    PROVE  Assigns(run, v, run.values[v]) = run
<1>1. Fits(v, run.values[v])
    BY DEF Sound
<1>2. Stored(v, run.values[v]) = run.values[v]
    BY <1>1, StoredSame
<1>4. Assigns(run, v, run.values[v]) = [run EXCEPT !.values = [run.values EXCEPT ![v] = run.values[v]]]
    BY <1>2 DEF Assigns
<1>5. [run.values EXCEPT ![v] = run.values[v]] = run.values
    BY DEF Sound
<1> QED
    BY <1>4, <1>5 DEF Sound

\* The rule that is applied is one that can be.
LEMMA FirstApplies ==
    ASSUME NEW variables, AreVariables(variables), NEW s \in Statements(variables), s.op = "binary",
           Applicable(s) # {}
    PROVE  Min(Applicable(s)) \in Applicable(s)
<1>1. s.test \in Tests
    BY StatementHas
<1>2. DOMAIN Rules(s) \subseteq Nat
    BY <1>1 DEF Rules, Tests, Comparisons
<1>3. Applicable(s) \in SUBSET Nat
    BY <1>2 DEF Applicable
<1> HIDE DEF Applicable
<1>4. \E n \in Applicable(s) : \A m \in Applicable(s) : n <= m
    BY <1>3, LeastNatural
<1> QED
    BY <1>4 DEF Min

\* Only what happens while statements are executed matters.
LEMMA LiveSame ==
    ASSUME NEW variables, NEW env, NEW s, NEW t, Improves(s, <<t>>, variables), NEW run,
           ~run.trapped /\ run.skipTo = 0 =>
                Execute(env, run, s).trapped \/ Execute(env, run, t) = Execute(env, run, s)
    PROVE  DoesTheSame(env, run, s, <<t>>)
<1>1. CASE run.trapped \/ run.skipTo # 0
    BY <1>1, IdleSame
<1>2. CASE ~run.trapped /\ run.skipTo = 0
    <2>1. <<t>> # << >> /\ <<t>>[1] = t
        OBVIOUS
    <2> QED BY <1>2, <2>1 DEF DoesTheSame, After
<1> QED
    BY <1>1, <1>2

\* Simplifying a statement keeps what it does.
LEMMA SimplifiedSame ==
    ASSUME NEW variables, AreVariables(variables), NEW env,
           NEW s \in Statements(variables), NamesTell(s, variables), Simplifies(s)
    PROVE  /\ Improves(s, Simplified(s), variables)
           /\ \A run : Sound(run, variables) => DoesTheSame(env, run, s, Simplified(s))
<1>0. /\ s.left \in variables \cup Numbers /\ s.right \in variables \cup Numbers
      /\ s.result \in variables /\ s.result.kind = "VAR"
      /\ s.line \in Nat /\ s.target \in Nat /\ s.op \in {"binary", "branch", "copy"}
    BY StatementHas DEF Simplifies
<1>1. CASE s.op = "copy"
    <2>1. Simplified(s) = << >>
        BY <1>1 DEF Simplified
    <2>2. s.left = s.result
        <3>1. Name(s.result) = Name(s.left)
            BY <1>1 DEF Simplifies
        <3>2. s.left.kind = "VAR"
            <4>1. \A a, b, c : <<a>> # <<b, c>>
                OBVIOUS
            <4> QED BY <3>1, <4>1, <1>0 DEF Name
        <3>3. s.result.name = s.left.name
            BY <3>1, <3>2, <1>0 DEF Name
        <3> QED BY <3>2, <3>3, <1>0, <1>1 DEF NamesTell
    <2>3. ASSUME NEW run, Sound(run, variables), ~run.trapped, run.skipTo = 0
          PROVE  Execute(env, run, s) = run
        <3>1. Execute(env, run, s) = Assigns(run, s.result, Reads(run, s.left))
            BY <2>3, <1>1 DEF Execute
        <3>2. Reads(run, s.left) = run.values[s.result]
            BY <2>2, <1>0 DEF Reads
        <3> QED BY <3>1, <3>2, <1>0, <2>3, SelfCopySame
    <2>4. Improves(s, Simplified(s), variables)
        BY <2>1, <1>1 DEF Improves
    <2> QED BY <2>1, <2>3, <2>4, IdleSame DEF DoesTheSame, After, Sound
<1>2. CASE s.op = "branch"
    <2> DEFINE l == Number(IF s.test \in {"==", "<=", ">="} THEN 0 ELSE 1, s.line)
               r == Number(0, s.line)
               t == [s EXCEPT !.test = "==", !.right = r, !.left = l]
    <2>1. /\ l \in Numbers /\ \A run : Reads(run, l) = IF s.test \in {"==", "<=", ">="} THEN 0 ELSE 1
          /\ r \in Numbers /\ \A run : Reads(run, r) = 0
        BY <1>0, NumberIsNumber, SmallWithin
    <2>2. l.kind = "NUM" /\ r.kind = "NUM" /\ OctalPlain(t)
        BY DEF Number, OctalPlain, ValueOf, Name, Statements
    <2>3. Simplified(s) = <<t>>
        BY <1>2 DEF Simplified
    <2> HIDE DEF l, r
    <2>4. /\ t \in Statements(variables) /\ t.op = "branch" /\ t.test = "==" /\ t.left = l /\ t.right = r
          /\ t.target = s.target /\ t.result = s.result
        BY <1>2, <2>1 DEF Statements, Comparisons, Tests
    <2> HIDE DEF t
    <2>5. NamesTell(t, variables)
        BY <2>2, <2>4 DEF NamesTell
    <2>6. Improves(s, <<t>>, variables)
        BY <1>2, <2>2, <2>4, <2>5 DEF Improves
    <2>7. ASSUME NEW run, Sound(run, variables), ~run.trapped, run.skipTo = 0
          PROVE  Execute(env, run, t) = Execute(env, run, s)
        <3> DEFINE m == Reads(run, s.left)
        <3>1. Reads(run, s.right) = m /\ m \in Int
            <4>1. Name(s.right) = Name(s.left)
                BY <1>2 DEF Simplifies
            <4>2. Reads(run, s.right) = Reads(run, s.left)
                BY <4>1, <1>0, <1>2, SameNameReads DEF NamesTell
            <4> QED BY <4>2, <1>0, <2>7, ReadsWithin
        <3>2. Execute(env, run, s) = IF Compare(s.test, m, m) THEN [run EXCEPT !.skipTo = s.target] ELSE run
            BY <3>1, <2>7, <1>2 DEF Execute
        <3>3. Execute(env, run, t) = IF Compare("==", Reads(run, l), Reads(run, r))
                                     THEN [run EXCEPT !.skipTo = s.target] ELSE run
            BY <2>4, <2>7 DEF Execute
        <3>4. Compare(s.test, m, m) <=> s.test \in {"==", "<=", ">="}
            <4>1. s.test \in Comparisons
                BY <1>2 DEF Statements
            <4> QED BY <4>1, <3>1, ComparisonsAre
        <3>5. Compare("==", Reads(run, l), Reads(run, r)) <=> s.test \in {"==", "<=", ">="}
            <4>1. Reads(run, l) \in Int /\ Reads(run, r) \in Int
                BY <2>1
            <4>2. Compare("==", Reads(run, l), Reads(run, r)) = (Reads(run, l) = Reads(run, r))
                BY <4>1, ComparisonsAre
            <4>3. Reads(run, r) = 0 /\ Reads(run, l) = IF s.test \in {"==", "<=", ">="} THEN 0 ELSE 1
                BY <2>1
            <4>4. Reads(run, l) = Reads(run, r) <=> s.test \in {"==", "<=", ">="}
                BY ONLY <4>3
            <4> QED BY ONLY <4>2, <4>4
        <3> QED BY <3>2, <3>3, <3>4, <3>5
    <2>8. ASSUME NEW run, Sound(run, variables)
          PROVE  DoesTheSame(env, run, s, <<t>>)
        BY <2>6, <2>7, <2>8, LiveSame
    <2> QED BY <2>3, <2>6, <2>8
<1>3. CASE s.op = "binary" /\ IsNegation(s)
    <2> DEFINE t == [s EXCEPT !.op = "negate", !.left = s.right]
    <2>1. Simplified(s) = <<t>>
        BY <1>3 DEF Simplified
    <2>2. t \in Statements(variables) /\ t.op = "negate" /\ t.left = s.right /\ t.right = s.right /\ t.result = s.result
        BY <1>3 DEF Statements
    <2> HIDE DEF t
    <2>3. NamesTell(t, variables)
        BY <1>3, <2>2 DEF NamesTell
    <2>4. Improves(s, <<t>>, variables)
        BY <1>3, <2>2, <2>3 DEF Improves
    <2>5. ASSUME NEW run, Sound(run, variables), ~run.trapped, run.skipTo = 0
          PROVE  Execute(env, run, t) = Execute(env, run, s)
        <3> DEFINE n == Reads(run, s.right)
        <3>1. n \in Int /\ Reads(run, s.left) = 0 /\ s.test = "-"
            BY <1>0, <1>3, <2>5, ReadsWithin, NamedReads DEF IsNegation
        <3>2. Execute(env, run, t) = Assigns(run, s.result, Wrap(-n, Half))
            BY <2>2, <2>5 DEF Execute
        <3>3. Execute(env, run, s) = Assigns(run, s.result, Compute("-", 0, n))
            BY <1>3, <2>5, <3>1 DEF Execute, Traps
        <3>4. Compute("-", 0, n) = Wrap(0 - n, Half)
            BY DEF Compute
        <3>5. 0 - n = -n
            BY <3>1
        <3> QED BY <3>2, <3>3, <3>4, <3>5
    <2>6. ASSUME NEW run, Sound(run, variables)
          PROVE  DoesTheSame(env, run, s, <<t>>)
        BY <2>4, <2>5, <2>6, LiveSame
    <2> QED BY <2>1, <2>4, <2>6
<1>4. CASE s.op = "binary" /\ ~IsNegation(s)
    <2> DEFINE i == Min(Applicable(s))
               x == Rules(s)[i][2]
               t == Copied(s, x)
    <2>1. Simplified(s) = <<t>>
        BY <1>4 DEF Simplified
    <2>2. Applicable(s) # {}
        BY <1>4 DEF Simplifies
    <2>3. i \in DOMAIN Rules(s) /\ Rules(s)[i][1]
        <3>1. i \in Applicable(s)
            BY <1>4, <2>2, FirstApplies
        <3> HIDE DEF i
        <3> QED BY <3>1 DEF Applicable
    <2> HIDE DEF i
    <2>4. ASSUME NEW run, Sound(run, variables)
          PROVE  /\ x \in variables \cup Numbers
                 /\ \/ Traps(s.test, Reads(run, s.left), Reads(run, s.right))
                    \/ Reads(run, x) = Compute(s.test, Reads(run, s.left), Reads(run, s.right))
        BY <1>4, <2>3, <2>4, RulesHold
    <2>5. x \in variables \cup Numbers
        <3>1. x \in {s.left, s.right} \cup Numbers
            BY <1>4, <2>3, RulesTake
        <3> QED BY <1>0, <3>1
    <2> HIDE DEF x
    <2>6. Improves(s, <<t>>, variables)
        BY <1>4, <2>5, CopiedTells
    <2>7. ASSUME NEW run, Sound(run, variables), ~run.trapped, run.skipTo = 0
          PROVE  Execute(env, run, s).trapped \/ Execute(env, run, t) = Execute(env, run, s)
        <3>1. CASE Traps(s.test, Reads(run, s.left), Reads(run, s.right))
            BY <3>1, <1>4, <2>7 DEF Execute, Sound
        <3>2. CASE ~Traps(s.test, Reads(run, s.left), Reads(run, s.right))
            BY <3>2, <1>4, <2>4, <2>5, <2>7, CopiedSame
        <3> QED BY <3>1, <3>2
    <2> HIDE DEF t
    <2>8. ASSUME NEW run, Sound(run, variables)
          PROVE  DoesTheSame(env, run, s, <<t>>)
        BY <2>6, <2>7, <2>8, LiveSame
    <2> QED BY <2>1, <2>6, <2>8
<1> QED
    BY <1>0, <1>1, <1>2, <1>3, <1>4

\* Folding a statement keeps what it does, unless its numbers are octal.
LEMMA FoldedSame ==
    ASSUME NEW variables, AreVariables(variables), NEW env,
           NEW s \in Statements(variables), NamesTell(s, variables), OctalPlain(s),
           Folds(s), ~FoldTraps(s)
    PROVE  /\ Improves(s, Folded(s), variables)
           /\ \A run : Sound(run, variables) => DoesTheSame(env, run, s, Folded(s))
<1> DEFINE m == s.left.digits
           n == s.right.digits
<1>1. /\ s.left \in Numbers /\ s.right \in Numbers
      /\ s.left.kind = "NUM" /\ s.right.kind = "NUM"
      /\ s.result \in variables /\ s.line \in Nat /\ s.target \in Nat
      /\ s.op \in {"binary", "branch"}
    <2>1. /\ s.left \in variables \cup Numbers /\ s.right \in variables \cup Numbers
          /\ s.result \in variables /\ s.line \in Nat /\ s.target \in Nat
        BY StatementHas
    <2>2. s.left.kind = "NUM" /\ s.right.kind = "NUM" /\ s.op \in {"binary", "branch"}
        BY DEF Folds
    <2>3. s.left \in Numbers /\ s.right \in Numbers
        BY <2>1, <2>2, SymbolKinds
    <2> QED BY <2>1, <2>2, <2>3
<1>2. /\ m \in Int /\ n \in Int /\ Within(m, Half) /\ Within(n, Half)
      /\ ValueOf(s.left) = m /\ ValueOf(s.right) = n
    BY <1>1 DEF OctalPlain, Numbers
<1>3. \A run : Reads(run, s.left) = m /\ Reads(run, s.right) = n
    BY <1>1, <1>2 DEF Reads
<1>4. CASE s.op = "branch"
    <2>1. s.test \in Comparisons
        BY <1>4, StatementHas
    <2>2. Name(s.left) = Name(s.right) <=> m = n
        <3>1. Name(s.left) = <<m, s.left.octal>> /\ Name(s.right) = <<n, s.right.octal>>
            BY <1>1 DEF Name
        <3>2. m = n => Name(s.left) = Name(s.right)
            BY <1>1, <1>4 DEF OctalPlain
        <3> HIDE DEF m, n
        <3>3. Name(s.left) = Name(s.right) => m = n
            BY ONLY <3>1
        <3> QED BY <3>2, <3>3
    <2> HIDE DEF m, n
    <2>3. Taken(s) <=> Compare(s.test, m, n)
        <3>1. CASE s.test = "=="
            BY <3>1, <2>2 DEF Taken, Compare
        <3>2. CASE s.test = "!="
            BY <3>2, <2>2 DEF Taken, Compare
        <3>3. CASE s.test \notin {"==", "!="}
            BY <3>3 DEF Taken, m, n
        <3> QED BY <3>1, <3>2, <3>3
    <2>4. ASSUME NEW run, ~run.trapped, run.skipTo = 0
          PROVE  Execute(env, run, s) = IF Taken(s) THEN [run EXCEPT !.skipTo = s.target] ELSE run
        BY <1>3, <1>4, <2>3, <2>4 DEF Execute
    <2>5. CASE Taken(s)
        <3> DEFINE t == [s EXCEPT !.op = "jump"]
        <3>1. Folded(s) = <<t>>
            BY <1>4, <2>5 DEF Folded
        <3>2. /\ t \in Statements(variables) /\ t.op = "jump" /\ t.target = s.target
              /\ t.result = s.result /\ t.left = s.left /\ t.right = s.right
            BY DEF Statements
        <3> HIDE DEF t
        <3>3. NamesTell(t, variables)
            BY <1>4, <3>2 DEF NamesTell
        <3>4. Improves(s, <<t>>, variables)
            BY <1>4, <3>2, <3>3 DEF Improves
        <3>5. ASSUME NEW run, Sound(run, variables)
              PROVE  DoesTheSame(env, run, s, <<t>>)
            <4>1. ASSUME ~run.trapped, run.skipTo = 0
                  PROVE  Execute(env, run, t) = Execute(env, run, s)
                BY <2>4, <2>5, <3>2, <4>1 DEF Execute
            <4> QED BY <3>4, <4>1, LiveSame
        <3> QED BY <3>1, <3>4, <3>5
    <2>6. CASE ~Taken(s)
        <3>1. Folded(s) = << >>
            BY <1>4, <2>6 DEF Folded
        <3>2. Improves(s, << >>, variables)
            BY <1>4 DEF Improves
        <3>3. ASSUME NEW run, Sound(run, variables)
              PROVE  DoesTheSame(env, run, s, << >>)
            <4>1. CASE run.trapped \/ run.skipTo # 0
                BY <3>2, <4>1, IdleSame
            <4>2. CASE ~run.trapped /\ run.skipTo = 0
                <5>1. Execute(env, run, s) = run
                    BY <2>4, <2>6, <4>2
                <5> QED BY <5>1 DEF DoesTheSame, After
            <4> QED BY <4>1, <4>2
        <3> QED BY <3>1, <3>2, <3>3
    <2> QED BY <2>5, <2>6
<1>5. CASE s.op = "binary"
    <2> DEFINE value == Compute(s.test, m, n)
               x == Number(value, s.line)
               t == Copied(s, x)
    <2>1. Folded(s) = <<t>>
        BY <1>5 DEF Folded
    <2>2. s.test \in Tests /\ ~Traps(s.test, m, n)
        BY <1>5, StatementHas DEF FoldTraps
    <2> HIDE DEF m, n
    <2>3. value \in Int /\ Within(value, Half)
        BY <1>2, <2>2, ComputeWithin
    <2> HIDE DEF value
    <2>4. x \in Numbers /\ \A run : Reads(run, x) = value
        BY <2>3, <1>1, NumberIsNumber
    <2> HIDE DEF x
    <2>5. Improves(s, <<t>>, variables)
        BY <1>5, <2>4, CopiedTells
    <2>6. ASSUME NEW run, Sound(run, variables)
          PROVE  DoesTheSame(env, run, s, <<t>>)
        <3>1. ASSUME ~run.trapped, run.skipTo = 0
              PROVE  Execute(env, run, t) = Execute(env, run, s)
            <4>1. ~Traps(s.test, Reads(run, s.left), Reads(run, s.right))
                BY <1>3, <2>2
            <4>2. Reads(run, x) = Compute(s.test, Reads(run, s.left), Reads(run, s.right))
                BY <1>3, <2>4 DEF value
            <4> QED BY <1>5, <2>4, <3>1, <4>1, <4>2, CopiedSame
        <3> HIDE DEF t
        <3> QED BY <2>5, <3>1, LiveSame
    <2> HIDE DEF t
    <2> QED BY <2>1, <2>5, <2>6
<1> QED
    BY <1>1, <1>4, <1>5

-----------------------------------------------------------------------------
(* What replacing a statement keeps of a list.                             *)

\* Where the i-th statement was before the k-th was replaced.
Origin(k, new, i) == IF new = << >> /\ i >= k THEN i + 1 ELSE i

LEMMA Origins ==
    ASSUME NEW list, NEW n \in Nat, NEW k \in Nat, 1 <= k, k <= n, NEW new,
           NEW other, NEW m, Replaced(list, n, k, new, other, m)
    PROVE  /\ m \in Nat
           /\ \A i \in 1..m : /\ Origin(k, new, i) \in 1..n
                              /\ ~(new # << >> /\ i = k) => other[i] = list[Origin(k, new, i)]
                              /\ new # << >> /\ i = k => other[i] = new[1] /\ Origin(k, new, i) = k
                              /\ \A j \in 1..(i - 1) : Origin(k, new, j) \in 1..(Origin(k, new, i) - 1)
<1>1. CASE new = << >>
    BY <1>1 DEF Replaced, Origin
<1>2. CASE new # << >>
    BY <1>2 DEF Replaced, Origin
<1> QED
    BY <1>1, <1>2

\* What replaces a statement is a statement, and mentions no result that comes later.
LEMMA ReplacedTranslated ==
    ASSUME NEW variables, AreVariables(variables),
           NEW list, IsTranslated(list, variables), NamesApart(list, variables), NEW k \in 1..Len(list),
           NEW new, Improves(list[k], new, variables),
           new # << >> => \A j \in (k + 1)..Len(list) :
                              list[j].op \in {"binary", "call"} => list[j].result \notin Mentioned(new[1]),
           NEW other, other \in Seq(Statements(variables)),
           Replaced(list, Len(list), k, new, other, Len(other))
    PROVE  IsTranslated(other, variables) /\ NamesApart(other, variables)
<1> DEFINE n == Len(list)
           m == Len(other)
           o(i) == Origin(k, new, i)
<1>0. /\ n \in Nat /\ k \in Nat /\ 1 <= k /\ k <= n /\ DOMAIN other = 1..m /\ DOMAIN list = 1..n
      /\ \A j \in 1..n : NamesTell(list[j], variables)
      /\ ResultsNew(list)
    BY DEF IsTranslated, NamesApart
<1> HIDE DEF n, m
<1>1. /\ m \in Nat
      /\ \A i \in 1..m : /\ o(i) \in 1..n
                         /\ ~(new # << >> /\ i = k) => other[i] = list[o(i)]
                         /\ new # << >> /\ i = k => other[i] = new[1] /\ o(i) = k
                         /\ \A j \in 1..(i - 1) : o(j) \in 1..(o(i) - 1)
    BY <1>0, Origins DEF n, m
<1> HIDE DEF o
<1>2. ASSUME new # << >>
      PROVE  NamesTell(new[1], variables) /\ new[1].op \in {"copy", "negate", "branch", "jump"}
    BY <1>2 DEF Improves
<1>3. ASSUME NEW i \in 1..m
      PROVE  NamesTell(other[i], variables)
    <2>1. CASE new # << >> /\ i = k
        BY <2>1, <1>1, <1>2
    <2>2. CASE ~(new # << >> /\ i = k)
        <3>1. other[i] = list[o(i)] /\ o(i) \in 1..n
            BY <1>1, <2>2
        <3> QED BY <1>0, <3>1
    <2> QED BY <2>1, <2>2
<1>4. ASSUME NEW i \in 1..m
      PROVE  /\ other[i].op = "binary" => other[i].result \notin {other[i].left, other[i].right}
             /\ other[i].op \in {"binary", "call"} =>
                    \A j \in 1..(i - 1) : other[i].result \notin Mentioned(other[j])
    <2>1. CASE new # << >> /\ i = k
        BY <2>1, <1>1, <1>2
    <2>2. CASE ~(new # << >> /\ i = k)
        <3>1. other[i] = list[o(i)] /\ o(i) \in 1..n
            BY <1>1, <2>2
        <3>2. /\ list[o(i)].op = "binary" => list[o(i)].result \notin {list[o(i)].left, list[o(i)].right}
              /\ list[o(i)].op \in {"binary", "call"} =>
                    \A j \in 1..(o(i) - 1) : list[o(i)].result \notin Mentioned(list[j])
            BY <1>0, <3>1 DEF ResultsNew
        <3>3. ASSUME NEW j \in 1..(i - 1), list[o(i)].op \in {"binary", "call"}
              PROVE  list[o(i)].result \notin Mentioned(other[j])
            <4>1. j \in 1..m /\ o(j) \in 1..(o(i) - 1)
                BY <1>1
            <4>2. CASE new # << >> /\ j = k
                <5>1. other[j] = new[1] /\ o(j) = k
                    BY <4>1, <4>2, <1>1
                <5>2. o(i) \in (k + 1)..n
                    BY <3>1, <4>1, <5>1, <1>0
                <5> QED BY <3>3, <4>2, <5>1, <5>2 DEF n
            <4>3. CASE ~(new # << >> /\ j = k)
                <5>1. other[j] = list[o(j)]
                    BY <4>1, <4>3, <1>1
                <5> QED BY <3>2, <3>3, <4>1, <5>1
            <4> QED BY <4>2, <4>3
        <3> QED BY <3>1, <3>2, <3>3
    <2> QED BY <2>1, <2>2
<1> QED
    BY <1>0, <1>3, <1>4 DEF IsTranslated, ResultsNew, NamesApart

\* Nothing harmful comes into the list.
LEMMA ReplacedUnharmed ==
    ASSUME NEW variables, AreVariables(variables),
           NEW list \in Seq(Statements(variables)), NEW k \in 1..Len(list), Unharmed(list),
           NEW new, Improves(list[k], new, variables),
           NEW other, other \in Seq(Statements(variables)), NamesApart(other, VariablesOf(program)),
           Replaced(list, Len(list), k, new, other, Len(other))
    PROVE  Unharmed(other)
<1> DEFINE n == Len(list)
           m == Len(other)
           o(i) == Origin(k, new, i)
<1>0. /\ n \in Nat /\ k \in Nat /\ 1 <= k /\ k <= n /\ DOMAIN other = 1..m /\ DOMAIN list = 1..n
    OBVIOUS
<1> HIDE DEF n, m
<1>1. /\ m \in Nat
      /\ \A i \in 1..m : /\ o(i) \in 1..n
                         /\ ~(new # << >> /\ i = k) => other[i] = list[o(i)]
                         /\ new # << >> /\ i = k => other[i] = new[1] /\ o(i) = k
                         /\ \A j \in 1..(i - 1) : o(j) \in 1..(o(i) - 1)
    BY <1>0, Origins DEF n, m
<1> HIDE DEF o
<1>2. ASSUME new # << >>
      PROVE  \/ /\ list[k].op = "binary" /\ list[k].result.type # "char"
                /\ new[1].op \in {"copy", "negate"} /\ new[1].result = list[k].result
             \/ /\ list[k].op = "branch" /\ new[1].op \in {"branch", "jump"}
                /\ new[1].op = "branch" => OctalPlain(new[1])
    <2>1. PICK t \in Statements(variables) :
            /\ new = <<t>>
            /\ \/ list[k].op = "binary" /\ t.op \in {"copy", "negate"} /\ t.result = list[k].result
               \/ list[k].op = "branch" /\ t.op \in {"branch", "jump"} /\ (t.op = "branch" => OctalPlain(t))
        BY <1>2 DEF Improves
    <2>2. list[k] \in Statements(variables)
        BY <1>0
    <2>3. list[k].op = "binary" => list[k].result.type # "char"
        BY <2>2, StatementHas
    <2>4. new[1] = t
        BY <2>1
    <2> QED BY <2>1, <2>3, <2>4
<1>3. OctalsPlain(other)
    <2>1. \A i \in 1..n : OctalPlain(list[i])
        BY <1>0 DEF Unharmed, OctalsPlain, OctalPlain
    <2>2. ASSUME NEW i \in 1..m
          PROVE  OctalPlain(other[i])
        <3>1. CASE new # << >> /\ i = k
            <4>1. other[i] = new[1]
                BY <3>1, <1>1
            <4>2. CASE new[1].op = "branch"
                BY <1>2, <3>1, <4>1, <4>2
            <4>3. CASE new[1].op # "branch"
                BY <1>2, <3>1, <4>1, <4>3 DEF OctalPlain
            <4> QED BY <4>2, <4>3
        <3>2. CASE ~(new # << >> /\ i = k)
            BY <2>1, <3>2, <1>1
        <3> QED BY <3>1, <3>2
    <2> QED BY <1>0, <2>2 DEF OctalsPlain, OctalPlain
<1>4. ASSUME CharactersFit(list)
      PROVE  CharactersFit(other)
    <2>1. ASSUME NEW i \in 1..m, other[i].op = "copy", other[i].result.type = "char"
          PROVE  IF other[i].left.kind = "NUM" THEN Within(ValueOf(other[i].left), CharHalf)
                 ELSE other[i].left.type = "char"
        <3>1. ~(new # << >> /\ i = k)
            BY <1>1, <1>2, <2>1
        <3>2. other[i] = list[o(i)] /\ o(i) \in 1..n
            BY <3>1, <1>1
        <3> QED BY <1>0, <1>4, <2>1, <3>2 DEF CharactersFit
    <2> QED BY <1>0, <2>1 DEF CharactersFit
<1>5. ASSUME JoinsUnnumbered(list)
      PROVE  JoinsUnnumbered(other)
    <2>1. ASSUME NEW i \in 1..m, other[i].op = "label", NEW j \in 1..(i - 1)
          PROVE  other[j].op \notin {"binary", "copy", "negate"}
        <3>1. ~(new # << >> /\ i = k)
            BY <1>1, <1>2, <2>1
        <3>2. other[i] = list[o(i)] /\ o(i) \in 1..n /\ o(j) \in 1..(o(i) - 1)
            BY <3>1, <1>1
        <3>3. list[o(j)].op \notin {"binary", "copy", "negate"}
            BY <1>0, <1>5, <2>1, <3>2 DEF JoinsUnnumbered
        <3>4. j \in 1..m
            BY <1>1
        <3>5. CASE new # << >> /\ j = k
            <4>1. o(j) = k /\ other[j] = new[1]
                BY <1>1, <3>4, <3>5
            <4> QED BY <1>2, <3>3, <3>5, <4>1
        <3>6. CASE ~(new # << >> /\ j = k)
            BY <1>1, <3>3, <3>4, <3>6
        <3> QED BY <3>5, <3>6
    <2> QED BY <1>0, <2>1 DEF JoinsUnnumbered
<1> QED
    BY <1>3, <1>4, <1>5 DEF Unharmed

\* What the list does stays the same.
LEMMA ReplacedOutcome ==
    ASSUME NEW variables, NEW env, NEW list \in Seq(Statements(variables)), NEW k \in 1..Len(list),
           NEW new, DoesTheSame(env, RunTo(list, variables, env, k - 1), list[k], new),
           NEW other, Replaced(list, Len(list), k, new, other, Len(other))
    PROVE  \/ RunTo(list, variables, env, Len(list)).trapped
           \/ RunTo(other, variables, env, Len(other)) = RunTo(list, variables, env, Len(list))
<1> DEFINE n == Len(list)
           m == Len(other)
           run == RunTo(list, variables, env, k - 1)
<1>0. n \in Nat /\ k \in Nat /\ 1 <= k /\ k <= n /\ k - 1 \in Nat /\ (k - 1) + 1 = k
      /\ n - k \in Nat /\ k + (n - k) = n
    OBVIOUS
<1>1. Replaced(list, n, k, new, other, m)
    OBVIOUS
<1>2. DoesTheSame(env, run, list[k], new)
    OBVIOUS
<1> HIDE DEF n, m, run
<1>3. CASE After(env, run, new) = Execute(env, run, list[k])
    <2>1. RunTo(other, variables, env, m) = RunTo(list, variables, env, n)
        BY ONLY <1>0, <1>1, <1>3, ReplacedRun DEF run
    <2> QED BY <2>1 DEF n, m
<1>4. CASE Execute(env, run, list[k]).trapped
    <2>1. RunTo(list, variables, env, k) = Execute(env, run, list[k])
        <3>1. RunTo(list, variables, env, (k - 1) + 1) = Execute(env, RunTo(list, variables, env, k - 1), list[(k - 1) + 1])
            BY <1>0, RunContinues
        <3> QED BY <1>0, <3>1 DEF run
    <2>2. RunTo(list, variables, env, k + (n - k)) = RunTo(list, variables, env, k)
        <3>1. RunTo(list, variables, env, k).trapped
            BY <1>4, <2>1
        <3> DEFINE rest == n - k
        <3>2. rest \in Nat
            BY <1>0
        <3> HIDE DEF rest
        <3>3. RunTo(list, variables, env, k + rest) = RunTo(list, variables, env, k)
            BY ONLY <1>0, <3>1, <3>2, TrapsForGood
        <3> QED BY <3>3 DEF rest
    <2> QED BY <1>0, <1>4, <2>1, <2>2 DEF n
<1> QED
    BY <1>2, <1>3, <1>4 DEF DoesTheSame

-----------------------------------------------------------------------------
(* What is mentioned after a statement is replaced.                        *)

\* Simplifying and folding mention nothing that was not mentioned, but numbers.
MentionsNoMore(s, new) == new # << >> => Mentioned(new[1]) \subseteq Mentioned(s) \cup Numbers

LEMMA CopiedMentions ==
    ASSUME NEW variables, NEW s \in Statements(variables), s.op = "binary", NEW x \in variables \cup Numbers
    PROVE  Mentioned(Copied(s, x)) = {s.result, x}
BY CopiedIsStatement DEF Mentioned

LEMMA SimplifiedMentions ==
    ASSUME NEW variables, AreVariables(variables), NEW s \in Statements(variables), Simplifies(s)
    PROVE  MentionsNoMore(s, Simplified(s))
<1>1. CASE s.op = "copy"
    BY <1>1 DEF Simplified, MentionsNoMore
<1>2. CASE s.op = "branch" \/ (s.op = "binary" /\ IsNegation(s))
    <2>1. Simplified(s) # << >> /\ Simplified(s)[1].op \in {"branch", "negate"}
        BY <1>2 DEF Simplified, Statements
    <2> QED BY <2>1 DEF MentionsNoMore, Mentioned
<1>3. CASE s.op = "binary" /\ ~IsNegation(s)
    <2> DEFINE i == Min(Applicable(s))
               x == Rules(s)[i][2]
               t == Copied(s, x)
    <2>1. Simplified(s) = <<t>>
        BY <1>3 DEF Simplified
    <2>2. i \in DOMAIN Rules(s)
        <3>1. i \in Applicable(s)
            BY <1>3, FirstApplies DEF Simplifies
        <3> HIDE DEF i
        <3> QED BY <3>1 DEF Applicable
    <2> HIDE DEF i
    <2>3. x \in {s.left, s.right} \cup Numbers
        BY <1>3, <2>2, RulesTake
    <2> HIDE DEF x
    <2>4. x \in variables \cup Numbers
        BY <2>3, StatementHas
    <2>5. Mentioned(t) = {s.result, x}
        BY <1>3, <2>4, CopiedMentions
    <2>6. Mentioned(s) = {s.result, s.left, s.right}
        BY <1>3 DEF Mentioned
    <2> HIDE DEF t
    <2>7. Simplified(s)[1] = t
        BY <2>1
    <2> QED BY <2>3, <2>5, <2>6, <2>7 DEF MentionsNoMore
<1> QED
    BY <1>1, <1>2, <1>3 DEF Simplifies

LEMMA FoldedMentions ==
    ASSUME NEW variables, AreVariables(variables), NEW s \in Statements(variables), OctalPlain(s),
           Folds(s), ~FoldTraps(s)
    PROVE  MentionsNoMore(s, Folded(s))
<1>1. CASE s.op = "branch"
    <2>1. Folded(s) = << >> \/ (Folded(s) # << >> /\ Folded(s)[1].op = "jump")
        BY <1>1 DEF Folded, Statements
    <2> QED BY <2>1 DEF MentionsNoMore, Mentioned
<1>2. CASE s.op = "binary"
    <2> DEFINE value == Compute(s.test, s.left.digits, s.right.digits)
               x == Number(value, s.line)
               t == Copied(s, x)
    <2>1. s.left \in Numbers /\ s.right \in Numbers
        <3>1. s.left \in variables \cup Numbers /\ s.right \in variables \cup Numbers
            BY StatementHas
        <3>2. s.left.kind = "NUM" /\ s.right.kind = "NUM"
            BY DEF Folds
        <3> QED BY <3>1, <3>2, SymbolKinds
    <2>2. s.test \in Tests /\ s.line \in Nat /\ ~Traps(s.test, s.left.digits, s.right.digits)
        BY <1>2, StatementHas DEF FoldTraps
    <2>3. /\ s.left.digits \in Int /\ Within(s.left.digits, Half)
          /\ s.right.digits \in Int /\ Within(s.right.digits, Half)
        BY <1>2, <2>1 DEF OctalPlain, Numbers
    <2>4. value \in Int /\ Within(value, Half)
        BY <2>2, <2>3, ComputeWithin
    <2> HIDE DEF value
    <2>5. x \in Numbers
        BY <2>2, <2>4, NumberIsNumber
    <2>6. Folded(s) = <<t>>
        BY <1>2 DEF Folded, value
    <2> HIDE DEF x
    <2>7. Mentioned(t) = {s.result, x}
        BY <1>2, <2>5, CopiedMentions
    <2>8. Mentioned(s) = {s.result, s.left, s.right}
        BY <1>2 DEF Mentioned
    <2> HIDE DEF t
    <2>9. Folded(s)[1] = t
        BY <2>6
    <2> QED BY <2>5, <2>7, <2>8, <2>9 DEF MentionsNoMore
<1> QED
    BY <1>1, <1>2 DEF Folds

\* What comes later results in nothing that is mentioned then.
LEMMA LaterResults ==
    ASSUME NEW variables, AreVariables(variables), NEW list, IsTranslated(list, variables),
           NEW k \in 1..Len(list), NEW new, MentionsNoMore(list[k], new), new # << >>,
           NEW j \in (k + 1)..Len(list), list[j].op \in {"binary", "call"}
    PROVE  list[j].result \notin Mentioned(new[1])
<1>1. j \in DOMAIN list /\ k \in 1..(j - 1)
    BY DEF IsTranslated
<1>2. list[j].result \notin Mentioned(list[k])
    BY <1>1 DEF IsTranslated, ResultsNew
<1>3. list[j] \in Statements(variables)
    BY <1>1 DEF IsTranslated
<1>4. list[j].result \notin Numbers
    BY <1>3, StatementHas DEF Numbers
<1> QED
    BY <1>2, <1>4 DEF MentionsNoMore

-----------------------------------------------------------------------------
(* What the numbers of values mean.                                        *)

\* The maps have numbers below the next one, for symbols and expressions.
WellNumbered(symbols, expressions, next, variables) ==
    /\ next \in Nat
    /\ DOMAIN symbols \subseteq variables \cup Numbers
    /\ \A s \in DOMAIN symbols : symbols[s] \in 0..(next - 1)
    /\ DOMAIN expressions \subseteq Tests \X (0..(next - 1)) \X (0..(next - 1))
    /\ \A key \in DOMAIN expressions : expressions[key] \in 0..(next - 1)

\* No symbol that has a number is the result of an operation or a call to come,
\* and none has one before a label.
Unseen(list, n, symbols, expressions) ==
    \A j \in n..Len(list) :
        /\ list[j].op \in {"binary", "call"} => list[j].result \notin DOMAIN symbols
        /\ list[j].op = "label" => DOMAIN symbols = {} /\ DOMAIN expressions = {}

\* What an expression that has a number came to.
Computes(val, key, number) ==
    ~Traps(key[1], val[key[2]], val[key[3]]) /\ Compute(key[1], val[key[2]], val[key[3]]) = val[number]

\* The n-th value was val[n]: symbols that have the number have it now, and
\* expressions had it.
Means(val, run, symbols, expressions) ==
    /\ val \in [Nat -> Int]
    /\ \A s \in DOMAIN symbols : Reads(run, s) = val[symbols[s]]
    /\ \A key \in DOMAIN expressions : Computes(val, key, expressions[key])

\* There are such values, where the run has come.
Meaningful(run, symbols, expressions) ==
    run.trapped \/ run.skipTo # 0 \/ \E val : Means(val, run, symbols, expressions)

\* A symbol that has no number yet is given the next.
Ensured(symbols, x, next) == IF x \notin DOMAIN symbols THEN Put(symbols, x, next) ELSE symbols
NextAfter(symbols, x, next) == IF x \notin DOMAIN symbols THEN next + 1 ELSE next

LEMMA EnsuredWell ==
    ASSUME NEW variables, NEW symbols, NEW expressions, NEW next,
           WellNumbered(symbols, expressions, next, variables), NEW x \in variables \cup Numbers
    PROVE  /\ WellNumbered(Ensured(symbols, x, next), expressions, NextAfter(symbols, x, next), variables)
           /\ DOMAIN Ensured(symbols, x, next) = DOMAIN symbols \cup {x}
<1>1. CASE x \in DOMAIN symbols
    BY <1>1 DEF Ensured, NextAfter
<1>2. CASE x \notin DOMAIN symbols
    <2> DEFINE f == Put(symbols, x, next)
    <2>1. /\ Ensured(symbols, x, next) = f /\ NextAfter(symbols, x, next) = next + 1
          /\ DOMAIN f = DOMAIN symbols \cup {x} /\ f[x] = next
          /\ \A y \in DOMAIN symbols : f[y] = symbols[y]
        <3>1. /\ DOMAIN f = DOMAIN symbols \cup {x} /\ f[x] = next
              /\ \A y \in DOMAIN symbols : y # x => f[y] = symbols[y]
            BY Zenon DEF Put
        <3>2. Ensured(symbols, x, next) = f /\ NextAfter(symbols, x, next) = next + 1
            BY <1>2 DEF Ensured, NextAfter
        <3> HIDE DEF f
        <3> QED BY <1>2, <3>1, <3>2
    <2> HIDE DEF f
    <2>2. next \in Nat /\ next + 1 \in Nat /\ next \in 0..((next + 1) - 1)
          /\ 0..(next - 1) \subseteq 0..((next + 1) - 1)
        BY DEF WellNumbered
    <2>3. DOMAIN expressions \subseteq Tests \X (0..((next + 1) - 1)) \X (0..((next + 1) - 1))
        BY <2>2 DEF WellNumbered
    <2> QED BY <2>1, <2>2, <2>3 DEF WellNumbered
<1> QED
    BY <1>1, <1>2

LEMMA EnsuredMeans ==
    ASSUME NEW variables, AreVariables(variables), NEW run, Sound(run, variables),
           NEW symbols, NEW expressions, NEW next,
           WellNumbered(symbols, expressions, next, variables),
           NEW val, Means(val, run, symbols, expressions), NEW x \in variables \cup Numbers
    PROVE  \E new : Means(new, run, Ensured(symbols, x, next), expressions)
<1>1. CASE x \in DOMAIN symbols
    BY <1>1 DEF Ensured
<1>2. CASE x \notin DOMAIN symbols
    <2> DEFINE f == Put(symbols, x, next)
               new == [val EXCEPT ![next] = Reads(run, x)]
    <2>1. /\ Ensured(symbols, x, next) = f
          /\ DOMAIN f = DOMAIN symbols \cup {x} /\ f[x] = next
          /\ \A y \in DOMAIN symbols : f[y] = symbols[y]
        <3>1. /\ DOMAIN f = DOMAIN symbols \cup {x} /\ f[x] = next
              /\ \A y \in DOMAIN symbols : y # x => f[y] = symbols[y]
            BY Zenon DEF Put
        <3>2. Ensured(symbols, x, next) = f
            BY <1>2 DEF Ensured
        <3> HIDE DEF f
        <3> QED BY <1>2, <3>1, <3>2
    <2> HIDE DEF f
    <2>2. Reads(run, x) \in Int /\ next \in Nat /\ next \notin 0..(next - 1) /\ val \in [Nat -> Int]
        BY ReadsWithin DEF WellNumbered, Means
    <2>3. new \in [Nat -> Int] /\ new[next] = Reads(run, x) /\ \A i \in 0..(next - 1) : new[i] = val[i]
        BY <2>2
    <2> HIDE DEF new
    <2>4. ASSUME NEW key \in DOMAIN expressions
          PROVE  Computes(new, key, expressions[key])
        <3>1. key[2] \in 0..(next - 1) /\ key[3] \in 0..(next - 1) /\ expressions[key] \in 0..(next - 1)
            BY DEF WellNumbered
        <3>2. Computes(val, key, expressions[key])
            BY DEF Means
        <3> QED BY <2>3, <3>1, <3>2 DEF Computes
    <2>5. ASSUME NEW s \in DOMAIN f
          PROVE  Reads(run, s) = new[f[s]]
        <3>1. CASE s = x
            BY <2>1, <2>3, <3>1
        <3>2. CASE s # x
            <4>1. s \in DOMAIN symbols /\ f[s] = symbols[s] /\ symbols[s] \in 0..(next - 1)
                BY <2>1, <3>2 DEF WellNumbered
            <4> QED BY <2>3, <4>1 DEF Means
        <3> QED BY <3>1, <3>2
    <2> QED BY <2>1, <2>3, <2>4, <2>5 DEF Means
<1> QED
    BY <1>1, <1>2

\* A symbol is given a number that is in use.
LEMMA PutWell ==
    ASSUME NEW variables, NEW symbols, NEW expressions, NEW next,
           WellNumbered(symbols, expressions, next, variables),
           NEW x \in variables \cup Numbers, NEW number \in 0..(next - 1)
    PROVE  WellNumbered(Put(symbols, x, number), expressions, next, variables)
<1> DEFINE f == Put(symbols, x, number)
<1>1. /\ DOMAIN f = DOMAIN symbols \cup {x} /\ f[x] = number
      /\ \A y \in DOMAIN symbols : y # x => f[y] = symbols[y]
    BY Zenon DEF Put
<1> HIDE DEF f
<1>2. ASSUME NEW y \in DOMAIN f
      PROVE  f[y] \in 0..(next - 1) /\ y \in variables \cup Numbers
    <2>1. CASE y = x
        BY <1>1, <2>1
    <2>2. CASE y # x
        <3>1. y \in DOMAIN symbols /\ f[y] = symbols[y]
            BY <1>1, <2>2
        <3> QED BY <3>1 DEF WellNumbered
    <2> QED BY <2>1, <2>2
<1>3. DOMAIN f \subseteq variables \cup Numbers
    BY <1>2
<1> QED
    BY <1>1, <1>2, <1>3 DEF WellNumbered, f

\* An expression is given the next number.
LEMMA ExpressionWell ==
    ASSUME NEW variables, NEW symbols, NEW expressions, NEW next,
           WellNumbered(symbols, expressions, next, variables),
           NEW key \in Tests \X (0..(next - 1)) \X (0..(next - 1))
    PROVE  WellNumbered(symbols, Put(expressions, key, next), next + 1, variables)
<1> DEFINE f == Put(expressions, key, next)
<1>1. /\ DOMAIN f = DOMAIN expressions \cup {key} /\ f[key] = next
      /\ \A y \in DOMAIN expressions : y # key => f[y] = expressions[y]
    BY Zenon DEF Put
<1> HIDE DEF f
<1>2. next \in Nat /\ next + 1 \in Nat /\ next \in 0..((next + 1) - 1)
      /\ 0..(next - 1) \subseteq 0..((next + 1) - 1)
    BY DEF WellNumbered
<1>3. \A s \in DOMAIN symbols : symbols[s] \in 0..((next + 1) - 1)
    BY <1>2 DEF WellNumbered
<1>4. ASSUME NEW y \in DOMAIN f
      PROVE  /\ f[y] \in 0..((next + 1) - 1)
             /\ y \in Tests \X (0..((next + 1) - 1)) \X (0..((next + 1) - 1))
    <2>1. CASE y = key
        BY <1>1, <1>2, <2>1
    <2>2. CASE y # key
        <3>1. y \in DOMAIN expressions /\ f[y] = expressions[y]
            BY <1>1, <2>2
        <3> QED BY <1>2, <3>1 DEF WellNumbered
    <2> QED BY <2>1, <2>2
<1>5. DOMAIN f \subseteq Tests \X (0..((next + 1) - 1)) \X (0..((next + 1) - 1))
    BY <1>4
<1> QED
    BY <1>2, <1>3, <1>4, <1>5 DEF WellNumbered, f

LEMMA ExpressionMeans ==
    ASSUME NEW variables, NEW run, NEW symbols, NEW expressions, NEW next,
           WellNumbered(symbols, expressions, next, variables),
           NEW val, Means(val, run, symbols, expressions),
           NEW key \in Tests \X (0..(next - 1)) \X (0..(next - 1)),
           NEW value \in Int,
           ~Traps(key[1], val[key[2]], val[key[3]]),
           Compute(key[1], val[key[2]], val[key[3]]) = value
    PROVE  \E new : new[next] = value /\ Means(new, run, symbols, Put(expressions, key, next))
<1> DEFINE f == Put(expressions, key, next)
           new == [val EXCEPT ![next] = value]
<1>1. /\ DOMAIN f = DOMAIN expressions \cup {key} /\ f[key] = next
      /\ \A y \in DOMAIN expressions : y # key => f[y] = expressions[y]
    BY Zenon DEF Put
<1> HIDE DEF f
<1>2. next \in Nat /\ next \notin 0..(next - 1) /\ val \in [Nat -> Int]
    BY DEF WellNumbered, Means
<1>3. new \in [Nat -> Int] /\ new[next] = value /\ \A i \in 0..(next - 1) : new[i] = val[i]
    BY <1>2
<1> HIDE DEF new
<1>4. ASSUME NEW y \in DOMAIN f
      PROVE  Computes(new, y, f[y])
    <2>1. CASE y = key
        <3>1. key[2] \in 0..(next - 1) /\ key[3] \in 0..(next - 1)
            OBVIOUS
        <3>2. new[key[2]] = val[key[2]] /\ new[key[3]] = val[key[3]]
            BY <1>3, <3>1
        <3> QED BY <1>1, <1>3, <2>1, <3>2 DEF Computes
    <2>2. CASE y # key
        <3>1. y \in DOMAIN expressions /\ f[y] = expressions[y]
            BY <1>1, <2>2
        <3>2. y[2] \in 0..(next - 1) /\ y[3] \in 0..(next - 1) /\ f[y] \in 0..(next - 1)
            BY <3>1 DEF WellNumbered
        <3>3. new[y[2]] = val[y[2]] /\ new[y[3]] = val[y[3]] /\ new[f[y]] = val[f[y]]
            BY <1>3, <3>2
        <3>4. Computes(val, y, f[y])
            BY <3>1 DEF Means
        <3> QED BY <3>3, <3>4 DEF Computes
    <2> QED BY <2>1, <2>2
<1>5. ASSUME NEW s \in DOMAIN symbols
      PROVE  Reads(run, s) = new[symbols[s]]
    <2>1. symbols[s] \in 0..(next - 1)
        BY DEF WellNumbered
    <2> QED BY <1>3, <2>1 DEF Means
<1> QED
    BY <1>3, <1>4, <1>5 DEF Means, f

\* What is read after an assignment.
LEMMA ReadsAssigned ==
    ASSUME NEW variables, AreVariables(variables), NEW run, Sound(run, variables),
           NEW v \in variables, NEW value \in Int, Within(value, Half), Fits(v, value),
           NEW s \in variables \cup Numbers
    PROVE  Reads(Assigns(run, v, value), s) = IF s = v THEN value ELSE Reads(run, s)
<1>1. Assigns(run, v, value).values = [run.values EXCEPT ![v] = value]
    BY AssignsTo, StoredSame
<1>2. CASE s \in variables
    <2>1. s.kind = "VAR" /\ run.values \in [variables -> Int]
        BY <1>2 DEF AreVariables, Sound
    <2> QED BY <1>1, <1>2, <2>1 DEF Reads
<1>3. CASE s \in Numbers
    <2>1. s.kind = "NUM" /\ s # v
        BY <1>3 DEF Numbers, AreVariables
    <2> QED BY <2>1 DEF Reads
<1> QED
    BY <1>2, <1>3

\* An assigned variable gets the number of the value, or has none.
LEMMA AssignedMeans ==
    ASSUME NEW variables, AreVariables(variables), NEW run, Sound(run, variables),
           NEW symbols, DOMAIN symbols \subseteq variables \cup Numbers, NEW expressions,
           NEW val, Means(val, run, symbols, expressions),
           NEW v \in variables, NEW value \in Int, Within(value, Half), Fits(v, value)
    PROVE  /\ \A number \in Nat : val[number] = value =>
                 Means(val, Assigns(run, v, value), Put(symbols, v, number), expressions)
           /\ v \notin DOMAIN symbols => Means(val, Assigns(run, v, value), symbols, expressions)
<1> DEFINE new == Assigns(run, v, value)
<1>1. \A s \in DOMAIN symbols : s # v => Reads(new, s) = Reads(run, s)
    BY ReadsAssigned
<1>2. Reads(new, v) = value
    BY ReadsAssigned
<1> HIDE DEF new
<1>3. ASSUME NEW number \in Nat, val[number] = value
      PROVE  Means(val, new, Put(symbols, v, number), expressions)
    <2> DEFINE f == Put(symbols, v, number)
    <2>1. /\ DOMAIN f = DOMAIN symbols \cup {v} /\ f[v] = number
          /\ \A y \in DOMAIN symbols : y # v => f[y] = symbols[y]
        BY Zenon DEF Put
    <2> HIDE DEF f
    <2>2. ASSUME NEW s \in DOMAIN f
          PROVE  Reads(new, s) = val[f[s]]
        <3>1. CASE s = v
            BY <1>2, <1>3, <2>1, <3>1
        <3>2. CASE s # v
            <4>1. s \in DOMAIN symbols /\ f[s] = symbols[s]
                BY <2>1, <3>2
            <4> QED BY <1>1, <3>2, <4>1 DEF Means
        <3> QED BY <3>1, <3>2
    <2> QED BY <2>2 DEF Means, f
<1>4. ASSUME v \notin DOMAIN symbols
      PROVE  Means(val, new, symbols, expressions)
    BY <1>1, <1>4 DEF Means
<1> QED
    BY <1>3, <1>4 DEF new

-----------------------------------------------------------------------------
(* What numbers mean after a statement.                                    *)

\* While nothing is executed numbers need not mean anything.
LEMMA IdleMeans ==
    ASSUME NEW env, NEW run, run.trapped \/ run.skipTo # 0, NEW s, s.op # "label"
    PROVE  \A symbols, expressions : Meaningful(Execute(env, run, s), symbols, expressions)
BY IdleStays DEF Meaningful

LEMMA EnsuredMeaningful ==
    ASSUME NEW variables, AreVariables(variables), NEW run, Sound(run, variables),
           NEW symbols, NEW expressions, NEW next,
           WellNumbered(symbols, expressions, next, variables),
           Meaningful(run, symbols, expressions), NEW x \in variables \cup Numbers
    PROVE  Meaningful(run, Ensured(symbols, x, next), expressions)
<1>1. CASE run.trapped \/ run.skipTo # 0
    BY <1>1 DEF Meaningful
<1>2. CASE \E val : Means(val, run, symbols, expressions)
    BY <1>2, EnsuredMeans DEF Meaningful
<1> QED
    BY <1>1, <1>2 DEF Meaningful

LEMMA CopyMeans ==
    ASSUME NEW variables, AreVariables(variables), NEW env \in Environments,
           NEW run, Sound(run, variables),
           NEW s \in Statements(variables), s.op = "copy", Fits(s.result, Reads(run, s.left)),
           NEW symbols, NEW expressions, NEW next,
           WellNumbered(symbols, expressions, next, variables), s.left \in DOMAIN symbols,
           Meaningful(run, symbols, expressions)
    PROVE  Meaningful(Execute(env, run, s), Put(symbols, s.result, symbols[s.left]), expressions)
<1>1. CASE run.trapped \/ run.skipTo # 0
    BY <1>1, IdleMeans
<1>2. CASE ~(run.trapped \/ run.skipTo # 0)
    <2>1. PICK val : Means(val, run, symbols, expressions)
        BY <1>2 DEF Meaningful
    <2>2. s.left \in variables \cup Numbers /\ s.result \in variables
        BY StatementHas
    <2> DEFINE value == Reads(run, s.left)
    <2>3. value \in Int /\ Within(value, Half)
        BY <2>2, ReadsWithin
    <2>4. Execute(env, run, s) = Assigns(run, s.result, value)
        BY <1>2 DEF Execute
    <2>5. symbols[s.left] \in Nat /\ val[symbols[s.left]] = value
        BY <2>1 DEF Means, WellNumbered
    <2>6. Fits(s.result, value) /\ DOMAIN symbols \subseteq variables \cup Numbers
        BY DEF WellNumbered
    <2> HIDE DEF value
    <2>7. Means(val, Assigns(run, s.result, value), Put(symbols, s.result, symbols[s.left]), expressions)
        BY <2>1, <2>2, <2>3, <2>5, <2>6, AssignedMeans
    <2> QED BY <2>4, <2>7 DEF Meaningful
<1> QED
    BY <1>1, <1>2

LEMMA CallMeans ==
    ASSUME NEW variables, AreVariables(variables), NEW env \in Environments,
           NEW run, Sound(run, variables),
           NEW s \in Statements(variables), s.op = "call",
           NEW symbols, NEW expressions, DOMAIN symbols \subseteq variables \cup Numbers,
           s.result \notin DOMAIN symbols, Meaningful(run, symbols, expressions)
    PROVE  Meaningful(Execute(env, run, s), WithoutGlobals(symbols), expressions)
<1>1. CASE run.trapped \/ run.skipTo # 0
    BY <1>1, IdleMeans
<1>2. CASE ~(run.trapped \/ run.skipTo # 0)
    <2>1. PICK val : Means(val, run, symbols, expressions)
        BY <1>2 DEF Meaningful
    <2>2. s.left \in variables \cup Numbers /\ s.result \in variables
        BY StatementHas
    <2> DEFINE left == Reads(run, s.left)
               called == [run EXCEPT !.seen = Append(@, left),
                              !.values = [v \in DOMAIN @ |-> IF v.scope = 0 THEN Stored(v, env["called"]) ELSE @[v]]]
               after == Assigns(called, s.result, env["called"])
    <2>3. Execute(env, run, s) = after
        BY <1>2 DEF Execute
    <2>4. left \in Int
        BY <2>2, ReadsWithin
    <2>5. Sound(called, variables) /\ \A v \in variables : v.scope # 0 => called.values[v] = run.values[v]
        <3> HIDE DEF left
        <3>1. Sound(called, variables)
            BY <2>4, CalledSound
        <3>2. \A v \in variables : v.scope # 0 => called.values[v] = run.values[v]
            BY DEF Sound
        <3> QED BY <3>1, <3>2
    <2>6. env["called"] \in Int /\ Within(env["called"], Half)
        BY EnvironmentsHaveValues
    <2> HIDE DEF called
    <2>7. after.values = [called.values EXCEPT ![s.result] = Stored(s.result, env["called"])]
        BY <2>2, <2>5, <2>6, AssignsTo
    <2> HIDE DEF after
    <2> DEFINE f == WithoutGlobals(symbols)
    <2>8. /\ DOMAIN f = {t \in DOMAIN symbols : t.kind = "NUM" \/ t.scope # 0}
          /\ \A t \in DOMAIN f : f[t] = symbols[t]
        BY DEF WithoutGlobals
    <2> HIDE DEF f
    <2>9. ASSUME NEW t \in DOMAIN f
          PROVE  Reads(after, t) = val[f[t]]
        <3>1. t \in DOMAIN symbols /\ f[t] = symbols[t] /\ (t.kind = "NUM" \/ t.scope # 0)
            BY <2>8
        <3>2. Reads(after, t) = Reads(run, t)
            <4>1. CASE t.kind = "NUM"
                BY <4>1 DEF Reads
            <4>2. CASE t.kind # "NUM"
                <5>1. t \in variables /\ t.scope # 0 /\ t # s.result
                    BY <3>1, <4>2 DEF Numbers
                <5>2. after.values[t] = called.values[t]
                    BY <2>5, <2>7, <5>1 DEF Sound
                <5>3. called.values[t] = run.values[t]
                    BY <2>5, <5>1
                <5> QED BY <4>2, <5>2, <5>3 DEF Reads
            <4> QED BY <4>1, <4>2
        <3> QED BY <2>1, <3>1, <3>2 DEF Means
    <2>10. Means(val, after, f, expressions)
        BY <2>1, <2>9 DEF Means
    <2> QED BY <2>3, <2>10 DEF Meaningful, f
<1> QED
    BY <1>1, <1>2

LEMMA OtherMeans ==
    ASSUME NEW variables, NEW env, NEW run, Sound(run, variables),
           NEW s \in Statements(variables), s.op \in {"branch", "jump", "label"},
           NEW symbols, NEW expressions,
           s.op = "label" => DOMAIN symbols = {} /\ DOMAIN expressions = {},
           Meaningful(run, symbols, expressions)
    PROVE  Meaningful(Execute(env, run, s), symbols, expressions)
<1>1. CASE s.op = "label"
    <2> DEFINE val == [i \in Nat |-> 0]
    <2>1. \A new : Means(val, new, symbols, expressions)
        BY <1>1 DEF Means
    <2> QED BY <2>1 DEF Meaningful
<1>2. CASE s.op # "label" /\ (run.trapped \/ run.skipTo # 0)
    BY <1>2, IdleMeans
<1>3. CASE s.op \in {"branch", "jump"} /\ ~(run.trapped \/ run.skipTo # 0)
    <2>1. PICK val : Means(val, run, symbols, expressions)
        BY <1>3 DEF Meaningful
    <2>2. Execute(env, run, s) = run \/ Execute(env, run, s) = [run EXCEPT !.skipTo = s.target]
        BY <1>3 DEF Execute
    <2>3. Execute(env, run, s).values = run.values
        BY <2>2 DEF Sound
    <2>4. Means(val, Execute(env, run, s), symbols, expressions)
        BY <2>1, <2>3 DEF Means, Reads
    <2> QED BY <2>4 DEF Meaningful
<1> QED
    BY <1>1, <1>2, <1>3

\* What a binary comes to, while statements are executed.
LEMMA BinaryComes ==
    ASSUME NEW variables, AreVariables(variables), NEW env,
           NEW run, Sound(run, variables), ~run.trapped, run.skipTo = 0,
           NEW s \in Statements(variables), s.op = "binary",
           ~Traps(s.test, Reads(run, s.left), Reads(run, s.right)),
           NEW value, value = Compute(s.test, Reads(run, s.left), Reads(run, s.right))
    PROVE  /\ value \in Int /\ Within(value, Half) /\ Fits(s.result, value)
           /\ Execute(env, run, s) = Assigns(run, s.result, value)
<1> DEFINE m == Reads(run, s.left)
           n == Reads(run, s.right)
<1>1. s.left \in variables \cup Numbers /\ s.right \in variables \cup Numbers
      /\ s.test \in Tests /\ s.result.type # "char"
    BY StatementHas
<1>2. m \in Int /\ n \in Int /\ Within(m, Half) /\ Within(n, Half)
    BY <1>1, ReadsWithin
<1>3. Execute(env, run, s) = Assigns(run, s.result, value)
    BY DEF Execute
<1>4. ~Traps(s.test, m, n) /\ value = Compute(s.test, m, n)
    OBVIOUS
<1> HIDE DEF m, n
<1>5. value \in Int /\ Within(value, Half)
    BY <1>1, <1>2, <1>4, ComputeWithin
<1> QED
    BY <1>1, <1>3, <1>5 DEF Fits

\* The key of an expression stands for it, mirrored or not.
LEMMA KeyComputes ==
    ASSUME NEW test \in Tests, NEW m \in Nat, NEW n \in Nat, NEW val \in [Nat -> Int], NEW number,
           NEW key, key = Key(test, m, n)
    PROVE  /\ Computes(val, key, number) <=>
                 ~Traps(test, val[m], val[n]) /\ Compute(test, val[m], val[n]) = val[number]
           /\ key \in Tests \X {m, n} \X {m, n}
<1>2. key \in Tests \X {m, n} \X {m, n}
    <2>1. key = <<Dual(test), n, m>> \/ key = <<test, n, m>> \/ key = <<test, m, n>>
        BY DEF Key
    <2>2. Dual(test) \in Tests
        BY DEF Dual, Tests, Comparisons
    <2> QED BY <2>1, <2>2
<1>4. CASE test = ">" \/ test = ">="
    <2>1. key = <<Dual(test), n, m>>
        BY <1>4 DEF Key
    <2>2. key[1] = Dual(test) /\ key[2] = n /\ key[3] = m
        BY <2>1
    <2>3. \A a, b : ~Traps(key[1], a, b) /\ ~Traps(test, a, b)
        BY <1>4, <2>2 DEF Traps, Dual
    <2>4. ASSUME NEW a \in Int, NEW b \in Int
          PROVE  Compute(key[1], b, a) = Compute(test, a, b)
        <3>1. Compare("<", b, a) = (b < a) /\ Compare(">", a, b) = (a > b)
            BY ComparisonsAre
        <3>2. Compare("<=", b, a) = (b <= a) /\ Compare(">=", a, b) = (a >= b)
            BY ComparisonsAre
        <3>3. CASE test = ">"
            BY <2>2, <3>1, <3>3 DEF Compute, Dual
        <3>4. CASE test = ">="
            BY <2>2, <3>2, <3>4 DEF Compute, Dual
        <3> QED BY <1>4, <3>3, <3>4
    <2> QED BY <1>2, <2>2, <2>3, <2>4 DEF Computes
<1>5. CASE test \in {"+", "*", "==", "!="} /\ n < m
    <2>1. key = <<test, n, m>>
        BY <1>5 DEF Key
    <2>2. key[1] = test /\ key[2] = n /\ key[3] = m
        BY <2>1
    <2>3. \A a, b : ~Traps(test, a, b)
        BY <1>5 DEF Traps
    <2>4. ASSUME NEW a \in Int, NEW b \in Int
          PROVE  Compute(test, b, a) = Compute(test, a, b)
        <3>1. CASE test = "+"
            <4>1. a + b = b + a
                OBVIOUS
            <4> QED BY <3>1, <4>1 DEF Compute
        <3>2. CASE test = "*"
            <4>1. a * b = b * a
                OBVIOUS
            <4> QED BY <3>2, <4>1 DEF Compute
        <3>3. CASE test = "=="
            BY <3>3 DEF Compute, Compare
        <3>4. CASE test = "!="
            BY <3>4 DEF Compute, Compare
        <3> QED BY <1>5, <3>1, <3>2, <3>3, <3>4
    <2> QED BY <1>2, <2>2, <2>3, <2>4 DEF Computes
<1>6. CASE test \notin {">", ">="} /\ ~(test \in {"+", "*", "==", "!="} /\ n < m)
    <2>1. key = <<test, m, n>>
        BY <1>6 DEF Key
    <2>2. key[1] = test /\ key[2] = m /\ key[3] = n
        BY <2>1
    <2> QED BY <1>2, <2>2 DEF Computes
<1> QED
    BY <1>4, <1>5, <1>6

\* An operation that is not known gets the next number.
LEMMA NewBinaryMeans ==
    ASSUME NEW variables, AreVariables(variables), NEW env, NEW run, Sound(run, variables),
           NEW s \in Statements(variables), s.op = "binary",
           NEW numbers, NEW expressions, NEW last,
           WellNumbered(numbers, expressions, last, variables),
           s.left \in DOMAIN numbers, s.right \in DOMAIN numbers,
           Meaningful(run, numbers, expressions),
           NEW key, key = Key(s.test, numbers[s.left], numbers[s.right])
    PROVE  Meaningful(Execute(env, run, s), Put(numbers, s.result, last), Put(expressions, key, last))
<1> DEFINE m == numbers[s.left]
           n == numbers[s.right]
           a == Reads(run, s.left)
           b == Reads(run, s.right)
           value == Compute(s.test, a, b)
<1>1. CASE run.trapped \/ run.skipTo # 0
    BY <1>1, IdleMeans
<1>2. CASE ~(run.trapped \/ run.skipTo # 0) /\ Traps(s.test, a, b)
    <2>1. Execute(env, run, s) = [run EXCEPT !.trapped = TRUE]
        BY <1>2 DEF Execute
    <2>2. Execute(env, run, s).trapped
        BY <2>1 DEF Sound
    <2> QED BY <2>2 DEF Meaningful
<1>3. CASE ~(run.trapped \/ run.skipTo # 0) /\ ~Traps(s.test, a, b)
    <2>1. PICK val : Means(val, run, numbers, expressions)
        BY <1>3 DEF Meaningful
    <2>2. /\ value \in Int /\ Within(value, Half) /\ Fits(s.result, value)
          /\ Execute(env, run, s) = Assigns(run, s.result, value)
        BY <1>3, BinaryComes
    <2>3. s.test \in Tests /\ s.result \in variables
        BY StatementHas
    <2>4. /\ m \in 0..(last - 1) /\ n \in 0..(last - 1) /\ m \in Nat /\ n \in Nat /\ last \in Nat
          /\ DOMAIN numbers \subseteq variables \cup Numbers
        BY DEF WellNumbered
    <2>5. val \in [Nat -> Int] /\ val[m] = a /\ val[n] = b
        BY <2>1 DEF Means
    <2>6. key = Key(s.test, m, n) /\ value = Compute(s.test, a, b) /\ ~Traps(s.test, a, b)
        BY <1>3
    <2> HIDE DEF m, n, a, b, value
    <2> DEFINE one == [val EXCEPT ![last] = value]
    <2>7. key \in Tests \X {m, n} \X {m, n}
        BY <2>3, <2>4, <2>5, <2>6, KeyComputes
    <2>8. key \in Tests \X (0..(last - 1)) \X (0..(last - 1)) /\ key[2] \in {m, n} /\ key[3] \in {m, n}
        BY <2>4, <2>7
    <2>9. ~Traps(key[1], val[key[2]], val[key[3]]) /\ Compute(key[1], val[key[2]], val[key[3]]) = value
        <3>1. one \in [Nat -> Int] /\ one[m] = a /\ one[n] = b /\ one[last] = value
              /\ one[key[2]] = val[key[2]] /\ one[key[3]] = val[key[3]]
            BY <2>2, <2>4, <2>5, <2>8
        <3> HIDE DEF one
        <3>2. Computes(one, key, last) <=>
                 ~Traps(s.test, one[m], one[n]) /\ Compute(s.test, one[m], one[n]) = one[last]
            BY ONLY <2>3, <2>4, <2>6, <3>1, KeyComputes
        <3>3. Computes(one, key, last)
            BY <2>6, <3>1, <3>2
        <3> QED BY <3>1, <3>3 DEF Computes
    <2>10. PICK new : new[last] = value /\ Means(new, run, numbers, Put(expressions, key, last))
        BY <2>1, <2>2, <2>8, <2>9, ExpressionMeans
    <2>11. Means(new, Assigns(run, s.result, value), Put(numbers, s.result, last), Put(expressions, key, last))
        BY <2>2, <2>3, <2>4, <2>10, AssignedMeans
    <2> QED BY <2>2, <2>11 DEF Meaningful
<1> QED
    BY <1>1, <1>2, <1>3

\* A known operation comes to what has its number; whoever has that can be copied.
LEMMA KnownBinaryMeans ==
    ASSUME NEW variables, AreVariables(variables), NEW env, NEW run, Sound(run, variables),
           NEW s \in Statements(variables), s.op = "binary", NamesTell(s, variables),
           NEW numbers, NEW expressions, NEW last,
           WellNumbered(numbers, expressions, last, variables),
           s.left \in DOMAIN numbers, s.right \in DOMAIN numbers,
           Meaningful(run, numbers, expressions),
           NEW key, key = Key(s.test, numbers[s.left], numbers[s.right]), key \in DOMAIN expressions
    PROVE  /\ Meaningful(Execute(env, run, s), Put(numbers, s.result, expressions[key]), expressions)
           /\ s.result \notin DOMAIN numbers => Meaningful(Execute(env, run, s), numbers, expressions)
           /\ \A h \in DOMAIN numbers : numbers[h] = expressions[key] =>
                 Execute(env, run, Copied(s, h)) = Execute(env, run, s)
<1> DEFINE m == numbers[s.left]
           n == numbers[s.right]
           a == Reads(run, s.left)
           b == Reads(run, s.right)
           value == Compute(s.test, a, b)
<1>0. DOMAIN numbers \subseteq variables \cup Numbers
    BY DEF WellNumbered
<1>1. CASE run.trapped \/ run.skipTo # 0
    <2>1. ASSUME NEW h \in DOMAIN numbers
          PROVE  Execute(env, run, Copied(s, h)) = Execute(env, run, s)
        <3>1. Copied(s, h).op = "copy"
            BY <1>0, CopiedIsStatement
        <3> QED BY <1>1, <3>1, IdleStays
    <2> QED BY <1>1, <2>1, IdleMeans
<1>2. CASE ~(run.trapped \/ run.skipTo # 0)
    <2>1. PICK val : Means(val, run, numbers, expressions)
        BY <1>2 DEF Meaningful
    <2>2. s.test \in Tests /\ s.result \in variables
        BY StatementHas
    <2>3. m \in Nat /\ n \in Nat /\ expressions[key] \in Nat
        BY DEF WellNumbered
    <2>4. val \in [Nat -> Int] /\ val[m] = a /\ val[n] = b
        BY <2>1 DEF Means
    <2>5. Computes(val, key, expressions[key])
        BY <2>1 DEF Means
    <2>6. ~Traps(s.test, a, b) /\ value = val[expressions[key]]
        <3>1. key = Key(s.test, m, n)
            OBVIOUS
        <3> HIDE DEF m, n, a, b
        <3> DEFINE number == expressions[key]
        <3>2. val \in [Nat -> Int] /\ m \in Nat /\ n \in Nat
            BY <2>3, <2>4
        <3> HIDE DEF number
        <3>3. Computes(val, key, number) <=>
                 ~Traps(s.test, val[m], val[n]) /\ Compute(s.test, val[m], val[n]) = val[number]
            BY <2>2, <3>1, <3>2, KeyComputes, Zenon
        <3> QED BY <2>4, <2>5, <3>3 DEF number, value
    <2>7. /\ value \in Int /\ Within(value, Half) /\ Fits(s.result, value)
          /\ Execute(env, run, s) = Assigns(run, s.result, value)
        BY <1>2, <2>6, BinaryComes
    <2>8. ASSUME NEW h \in DOMAIN numbers, numbers[h] = expressions[key]
          PROVE  Execute(env, run, Copied(s, h)) = Execute(env, run, s)
        <3>1. h \in variables \cup Numbers /\ Reads(run, h) = value
            BY <1>0, <2>1, <2>6, <2>8 DEF Means
        <3> QED BY <1>2, <2>6, <3>1, CopiedSame
    <2> HIDE DEF m, n, a, b, value
    <2>9. Means(val, Assigns(run, s.result, value), Put(numbers, s.result, expressions[key]), expressions)
        BY <1>0, <2>1, <2>2, <2>3, <2>6, <2>7, AssignedMeans
    <2>10. s.result \notin DOMAIN numbers => Means(val, Assigns(run, s.result, value), numbers, expressions)
        BY <1>0, <2>1, <2>2, <2>7, AssignedMeans
    <2> QED BY <2>7, <2>8, <2>9, <2>10 DEF Meaningful
<1> QED
    BY <1>1, <1>2

\* Whoever has the number of a known operation can be copied instead.
LEMMA HolderSame ==
    ASSUME NEW variables, AreVariables(variables), NEW env, NEW run, Sound(run, variables),
           NEW s \in Statements(variables), s.op = "binary", NamesTell(s, variables),
           NEW numbers, NEW expressions, NEW last,
           WellNumbered(numbers, expressions, last, variables),
           s.left \in DOMAIN numbers, s.right \in DOMAIN numbers,
           Meaningful(run, numbers, expressions),
           NEW key, key = Key(s.test, numbers[s.left], numbers[s.right]), key \in DOMAIN expressions,
           NEW h \in DOMAIN numbers, numbers[h] = expressions[key]
    PROVE  Execute(env, run, Copied(s, h)) = Execute(env, run, s)
BY KnownBinaryMeans

-----------------------------------------------------------------------------
(* The invariant.                                                          *)

\* The list has come from the program by replacing statements.
Rewritten ==
    /\ IsTranslated(code, VariablesOf(program))
    /\ Unharmed(code)
    /\ at \in 1..(Len(code) + 1)
    /\ \A env \in Environments : RunOf(program, env).trapped \/ RunOf(code, env) = RunOf(program, env)

\* Numbers mean values.
Numbered ==
    /\ level = 3
    /\ WellNumbered(symInt, exprInt, valNum, VariablesOf(program))
    /\ Unseen(code, at, symInt, exprInt)
    /\ \A env \in Environments :
          Meaningful(RunTo(code, VariablesOf(program), env, at - 1), symInt, exprInt)

IInv ==
    /\ program \in Programs
    /\ Unharmed(program) => Rewritten /\ (phase = "number" => Numbered)

LEMMA ProgramVariables == AreVariables(VariablesOf(program))
BY DEF AreVariables, VariablesOf

LEMMA InitIsKept == Init => IInv
<1> SUFFICES ASSUME Init, Unharmed(program)
             PROVE  program \in Programs /\ Rewritten /\ phase # "number"
    BY DEF IInv, Init
<1>1. program \in Programs /\ code = program /\ at = 1 /\ phase # "number"
    BY DEF Init, FirstPhase
<1>2. IsTranslated(code, VariablesOf(program))
    BY <1>1, ProgramsAreTranslated
<1>3. Len(code) \in Nat
    BY <1>2 DEF IsTranslated
<1>4. at \in 1..(Len(code) + 1)
    BY <1>1, <1>3
<1> QED
    BY <1>1, <1>2, <1>4 DEF Rewritten

\* The next statement is replaced by what does the same.
LEMMA ReplaceStep ==
    ASSUME Rewritten, at \in 1..Len(code),
           NEW new, Improves(code[at], new, VariablesOf(program)),
           new # << >> => \A j \in (at + 1)..Len(code) :
                              code[j].op \in {"binary", "call"} => code[j].result \notin Mentioned(new[1]),
           \A env \in Environments :
                DoesTheSame(env, RunTo(code, VariablesOf(program), env, at - 1), code[at], new),
           ReplaceWith(new), program' = program, level' = level
    PROVE  /\ Rewritten'
           /\ Replaced(code, Len(code), at, new, code', Len(code'))
           /\ at' = IF new = << >> THEN at ELSE at + 1
<1> DEFINE V == VariablesOf(program)
<1>1. /\ AreVariables(V) /\ IsTranslated(code, V) /\ code \in Seq(Statements(V))
      /\ Unharmed(code) /\ NamesApart(code, V)
    BY ProgramVariables DEF Rewritten, IsTranslated, Unharmed
<1>2. new = << >> \/ \E t \in Statements(V) : new = <<t>>
    BY DEF Improves
<1>3. code' = Spliced(code, at, new) /\ at' = at + Len(new)
    BY DEF ReplaceWith, Spliced
<1> DEFINE other == Spliced(code, at, new)
<1>4. Replaced(code, Len(code), at, new, other, Len(other)) /\ other \in Seq(Statements(V))
    BY <1>1, <1>2, SplicedIsReplaced
<1> HIDE DEF other, V
<1>5. IsTranslated(other, V) /\ NamesApart(other, V)
    BY <1>1, <1>4, ReplacedTranslated DEF V
<1>6. Unharmed(other)
    BY <1>1, <1>4, <1>5, ReplacedUnharmed DEF V
<1>7. /\ Len(new) = IF new = << >> THEN 0 ELSE 1
      /\ Len(other) = IF new = << >> THEN Len(code) - 1 ELSE Len(code)
    <2>1. Len(new) = IF new = << >> THEN 0 ELSE 1
        BY <1>2
    <2> QED BY <1>4, <2>1 DEF Replaced
<1>8. at' = (IF new = << >> THEN at ELSE at + 1) /\ at' \in 1..(Len(other) + 1)
    <2>1. Len(code) \in Nat
        BY <1>1
    <2> QED BY <1>3, <1>7, <2>1
<1>9. \A env \in Environments :
         \/ RunTo(program, V, env, Len(program)).trapped
         \/ RunTo(other, V, env, Len(other)) = RunTo(program, V, env, Len(program))
    <2> TAKE env \in Environments
    <2>1. \/ RunTo(program, V, env, Len(program)).trapped
          \/ RunTo(code, V, env, Len(code)) = RunTo(program, V, env, Len(program))
        BY DEF Rewritten, RunOf, V
    <2>2. DoesTheSame(env, RunTo(code, V, env, at - 1), code[at], new)
        BY DEF V
    <2>3. \/ RunTo(code, V, env, Len(code)).trapped
          \/ RunTo(other, V, env, Len(other)) = RunTo(code, V, env, Len(code))
        BY <1>1, <1>4, <2>2, ReplacedOutcome
    <2> QED BY <2>1, <2>3
<1>10. code' = other /\ V' = V
    BY <1>3 DEF other, V, VariablesOf
<1>11. IsTranslated(code, VariablesOf(program))'
    BY <1>5, <1>10 DEF V
<1>12. Unharmed(code)'
    BY <1>6, <1>10 DEF Unharmed, V
<1>13. (\A env \in Environments : RunOf(program, env).trapped \/ RunOf(code, env) = RunOf(program, env))'
    BY <1>9, <1>10 DEF RunOf, V
<1>14. Rewritten'
    BY <1>8, <1>10, <1>11, <1>12, <1>13 DEF Rewritten
<1> QED
    BY <1>4, <1>8, <1>10, <1>14

\* The next statement is kept.
LEMMA KeepStep ==
    ASSUME Rewritten, at \in 1..Len(code), Keep, program' = program, level' = level
    PROVE  Rewritten'
<1>1. IsTranslated(code, VariablesOf(program))'
    BY DEF Rewritten, Keep
<1>2. Unharmed(code)'
    BY DEF Rewritten, Keep, Unharmed
<1>3. (\A env \in Environments : RunOf(program, env).trapped \/ RunOf(code, env) = RunOf(program, env))'
    BY DEF Rewritten, Keep, RunOf
<1>4. (at \in 1..(Len(code) + 1))'
    <2>1. Len(code) \in Nat
        BY DEF Rewritten, IsTranslated
    <2> QED BY <2>1 DEF Keep
<1> QED
    BY <1>1, <1>2, <1>3, <1>4 DEF Rewritten

\* What is known where a statement is next.
LEMMA NextStatement ==
    ASSUME Rewritten, at \in 1..Len(code)
    PROVE  /\ AreVariables(VariablesOf(program))
           /\ code \in Seq(Statements(VariablesOf(program)))
           /\ code[at] \in Statements(VariablesOf(program))
           /\ NamesTell(code[at], VariablesOf(program)) /\ OctalPlain(code[at])
           /\ \A env \in Environments :
                 /\ Sound(RunTo(code, VariablesOf(program), env, at - 1), VariablesOf(program))
                 /\ RunTo(code, VariablesOf(program), env, at) =
                        Execute(env, RunTo(code, VariablesOf(program), env, at - 1), code[at])
<1>1. /\ AreVariables(VariablesOf(program)) /\ code \in Seq(Statements(VariablesOf(program)))
      /\ \A i \in DOMAIN code : NamesTell(code[i], VariablesOf(program))
    BY ProgramVariables DEF Rewritten, IsTranslated, Unharmed, NamesApart
<1>2. at \in DOMAIN code /\ at - 1 \in 0..Len(code) /\ at - 1 \in Nat /\ (at - 1) + 1 = at
    BY <1>1
<1>3. OctalPlain(code[at])
    BY <1>2 DEF Rewritten, Unharmed, OctalsPlain, OctalPlain
<1> DEFINE V == VariablesOf(program)
<1> HIDE DEF V
<1>4. ASSUME NEW env \in Environments
      PROVE  /\ Sound(RunTo(code, V, env, at - 1), V)
             /\ RunTo(code, V, env, at) = Execute(env, RunTo(code, V, env, at - 1), code[at])
    <2>1. RunTo(code, V, env, (at - 1) + 1) = Execute(env, RunTo(code, V, env, at - 1), code[(at - 1) + 1])
        BY <1>2, RunContinues
    <2>2. Sound(RunTo(code, V, env, at - 1), V)
        BY <1>1, <1>2, RunSound DEF V
    <2> QED BY <1>2, <2>1, <2>2
<1>5. code[at] \in Statements(V) /\ NamesTell(code[at], V)
    BY <1>1, <1>2 DEF V
<1> QED
    BY <1>1, <1>3, <1>4, <1>5 DEF V

LEMMA SimplifyKept ==
    ASSUME Rewritten, SimplifyStatement
    PROVE  Rewritten'
<1> DEFINE V == VariablesOf(program)
           s == code[at]
           new == Simplified(s)
<1>1. at \in 1..Len(code) /\ program' = program /\ level' = level
    <2>1. Len(code) \in Nat
        BY DEF Rewritten, IsTranslated
    <2> QED BY <2>1 DEF SimplifyStatement, Rewritten
<1>2. CASE Simplifies(s)
    <2>1. ReplaceWith(new)
        BY <1>2 DEF SimplifyStatement
    <2>2. AreVariables(V) /\ s \in Statements(V) /\ NamesTell(s, V) /\ IsTranslated(code, V)
        BY <1>1, NextStatement DEF Rewritten
    <2>3. Improves(s, new, V)
        BY <1>2, <2>2, SimplifiedSame
    <2>4. \A env \in Environments : DoesTheSame(env, RunTo(code, V, env, at - 1), s, new)
        BY <1>1, <1>2, <2>2, NextStatement, SimplifiedSame
    <2>5. MentionsNoMore(s, new)
        BY <1>2, <2>2, SimplifiedMentions
    <2> HIDE DEF new
    <2>6. new # << >> => \A j \in (at + 1)..Len(code) :
                              code[j].op \in {"binary", "call"} => code[j].result \notin Mentioned(new[1])
        BY <1>1, <2>2, <2>5, LaterResults
    <2> QED BY <1>1, <2>1, <2>3, <2>4, <2>6, ReplaceStep
<1>3. CASE ~Simplifies(s)
    BY <1>1, <1>3, KeepStep DEF SimplifyStatement
<1> QED
    BY <1>2, <1>3

LEMMA FoldKept ==
    ASSUME Rewritten, FoldStatement
    PROVE  Rewritten'
<1> DEFINE V == VariablesOf(program)
           s == code[at]
           new == Folded(s)
<1>1. at \in 1..Len(code) /\ program' = program /\ level' = level /\ ~FoldTraps(s)
    <2>1. Len(code) \in Nat
        BY DEF Rewritten, IsTranslated
    <2> QED BY <2>1 DEF FoldStatement, Rewritten
<1>2. CASE Folds(s)
    <2>1. ReplaceWith(new)
        BY <1>2 DEF FoldStatement
    <2>2. AreVariables(V) /\ s \in Statements(V) /\ NamesTell(s, V) /\ OctalPlain(s) /\ IsTranslated(code, V)
        BY <1>1, NextStatement DEF Rewritten
    <2>3. Improves(s, new, V)
        BY <1>1, <1>2, <2>2, FoldedSame
    <2>4. \A env \in Environments : DoesTheSame(env, RunTo(code, V, env, at - 1), s, new)
        BY <1>1, <1>2, <2>2, NextStatement, FoldedSame
    <2>5. MentionsNoMore(s, new)
        BY <1>1, <1>2, <2>2, FoldedMentions
    <2> HIDE DEF new
    <2>6. new # << >> => \A j \in (at + 1)..Len(code) :
                              code[j].op \in {"binary", "call"} => code[j].result \notin Mentioned(new[1])
        BY <1>1, <2>2, <2>5, LaterResults
    <2> QED BY <1>1, <2>1, <2>3, <2>4, <2>6, ReplaceStep
<1>3. CASE ~Folds(s)
    BY <1>1, <1>3, KeepStep DEF FoldStatement
<1> QED
    BY <1>2, <1>3

\* What is known of the statements that come after one that is numbered.
LEMMA LaterStatements ==
    ASSUME Rewritten, Numbered, at \in 1..Len(code),
           NEW j \in (at + 1)..Len(code)
    PROVE  /\ code[j].op \in {"binary", "call"} =>
                 code[j].result \notin Mentioned(code[at]) /\ code[j].result \notin DOMAIN symInt
           /\ code[j].op = "label" =>
                 /\ code[at].op \notin {"binary", "copy", "negate"}
                 /\ DOMAIN symInt = {} /\ DOMAIN exprInt = {}
<1>1. code \in Seq(Statements(VariablesOf(program))) /\ ResultsNew(code)
    BY DEF Rewritten, IsTranslated
<1>2. j \in DOMAIN code /\ at \in 1..(j - 1) /\ j \in at..Len(code)
    BY <1>1
<1>3. code[j].op \in {"binary", "call"} => code[j].result \notin Mentioned(code[at])
    BY <1>1, <1>2 DEF ResultsNew
<1>4. code[j].op = "label" => code[at].op \notin {"binary", "copy", "negate"}
    BY <1>2 DEF Rewritten, Unharmed, Numbered, JoinsUnnumbered
<1> QED
    BY <1>2, <1>3, <1>4 DEF Numbered, Unseen

\* Numbers mean values after a statement that is kept.
LEMMA KeptNumbered ==
    ASSUME Rewritten, Numbered, at \in 1..Len(code), Keep, program' = program, level' = level,
           WellNumbered(symInt', exprInt', valNum', VariablesOf(program)),
           \A j \in (at + 1)..Len(code) :
                /\ code[j].op \in {"binary", "call"} => code[j].result \notin DOMAIN symInt'
                /\ code[j].op = "label" => DOMAIN symInt' = {} /\ DOMAIN exprInt' = {},
           \A env \in Environments :
                Meaningful(Execute(env, RunTo(code, VariablesOf(program), env, at - 1), code[at]), symInt', exprInt')
    PROVE  Rewritten' /\ Numbered'
<1> DEFINE V == VariablesOf(program)
<1>1. Rewritten'
    BY KeepStep
<1>2. code' = code /\ at' = at + 1 /\ V' = V /\ at' - 1 = at /\ at \in Nat
    BY DEF Keep, VariablesOf
<1>3. \A env \in Environments : Meaningful(RunTo(code, V, env, at), symInt', exprInt')
    BY NextStatement
<1> HIDE DEF V
<1>4. \A env \in Environments : Meaningful(RunTo(code', V', env, at' - 1), symInt', exprInt')
    BY <1>2, <1>3
<1>5. Unseen(code', at', symInt', exprInt')
    BY <1>2 DEF Unseen
<1>6. WellNumbered(symInt', exprInt', valNum', V')
    BY <1>2 DEF V
<1> QED
    BY <1>1, <1>4, <1>5, <1>6 DEF Numbered, V

LEMMA NumberCallKept ==
    ASSUME Rewritten, Numbered, NumberCall
    PROVE  Rewritten' /\ Numbered'
<1> DEFINE V == VariablesOf(program)
           s == code[at]
           f == WithoutGlobals(symInt)
<1>1. /\ at \in 1..Len(code) /\ program' = program /\ level' = level /\ Keep
      /\ symInt' = f /\ exprInt' = exprInt /\ valNum' = valNum /\ s.op = "call"
    <2>1. Len(code) \in Nat
        BY DEF Rewritten, IsTranslated
    <2> QED BY <2>1 DEF NumberCall, Rewritten
<1>2. AreVariables(V) /\ s \in Statements(V)
    BY <1>1, NextStatement
<1>3. DOMAIN f \subseteq DOMAIN symInt /\ \A t \in DOMAIN f : f[t] = symInt[t]
    BY DEF WithoutGlobals
<1>4. ASSUME NEW env \in Environments
      PROVE  Meaningful(Execute(env, RunTo(code, V, env, at - 1), s), f, exprInt)
    <2> DEFINE run == RunTo(code, V, env, at - 1)
    <2>1. Sound(run, V) /\ Meaningful(run, symInt, exprInt)
        BY <1>1, NextStatement DEF Numbered
    <2>2. DOMAIN symInt \subseteq V \cup Numbers
        BY DEF Numbered, WellNumbered
    <2>3. s.result \notin DOMAIN symInt
        <3>1. at \in at..Len(code)
            BY <1>1
        <3> QED BY <1>1, <3>1 DEF Numbered, Unseen
    <2> HIDE DEF run, V
    <2>4. Meaningful(Execute(env, run, s), f, exprInt)
        BY <1>1, <1>2, <2>1, <2>2, <2>3, CallMeans
    <2> QED BY <2>4 DEF run
<1> HIDE DEF f
<1>5. WellNumbered(f, exprInt, valNum, V)
    BY <1>3 DEF Numbered, WellNumbered
<1>6. ASSUME NEW j \in (at + 1)..Len(code)
      PROVE  /\ code[j].op \in {"binary", "call"} => code[j].result \notin DOMAIN f
             /\ code[j].op = "label" => DOMAIN f = {} /\ DOMAIN exprInt = {}
    BY <1>1, <1>3, LaterStatements
<1> QED
    BY <1>1, <1>4, <1>5, <1>6, KeptNumbered

LEMMA NumberOtherKept ==
    ASSUME Rewritten, Numbered, NumberOther
    PROVE  Rewritten' /\ Numbered'
<1> DEFINE V == VariablesOf(program)
           s == code[at]
<1>1. /\ at \in 1..Len(code) /\ at \in at..Len(code) /\ program' = program /\ level' = level /\ Keep
      /\ symInt' = symInt /\ exprInt' = exprInt /\ valNum' = valNum
      /\ s.op \in {"branch", "jump", "label"}
    <2>1. Len(code) \in Nat
        BY DEF Rewritten, IsTranslated
    <2> QED BY <2>1 DEF NumberOther, Rewritten
<1>2. AreVariables(V) /\ s \in Statements(V)
    BY <1>1, NextStatement
<1>3. s.op = "label" => DOMAIN symInt = {} /\ DOMAIN exprInt = {}
    BY <1>1 DEF Numbered, Unseen
<1>4. ASSUME NEW env \in Environments
      PROVE  Meaningful(Execute(env, RunTo(code, V, env, at - 1), s), symInt, exprInt)
    <2> DEFINE run == RunTo(code, V, env, at - 1)
    <2>1. Sound(run, V) /\ Meaningful(run, symInt, exprInt)
        BY <1>1, NextStatement DEF Numbered
    <2> HIDE DEF run, V
    <2>2. Meaningful(Execute(env, run, s), symInt, exprInt)
        BY <1>1, <1>2, <1>3, <2>1, OtherMeans
    <2> QED BY <2>2 DEF run
<1>5. WellNumbered(symInt, exprInt, valNum, V)
    BY DEF Numbered
<1>6. ASSUME NEW j \in (at + 1)..Len(code)
      PROVE  /\ code[j].op \in {"binary", "call"} => code[j].result \notin DOMAIN symInt
             /\ code[j].op = "label" => DOMAIN symInt = {} /\ DOMAIN exprInt = {}
    BY <1>1, LaterStatements
<1> QED
    BY <1>1, <1>4, <1>5, <1>6, KeptNumbered

\* What is copied fits where it is copied to.
LEMMA CopyFits ==
    ASSUME NEW variables, AreVariables(variables), NEW run, Sound(run, variables),
           NEW list \in Seq(Statements(variables)), CharactersFit(list),
           NEW i \in 1..Len(list), list[i].op = "copy"
    PROVE  Fits(list[i].result, Reads(run, list[i].left))
<1> DEFINE s == list[i]
<1>1. s \in Statements(variables) /\ i \in DOMAIN list
    OBVIOUS
<1>2. s.result.type = "char" =>
          IF s.left.kind = "NUM" THEN Within(ValueOf(s.left), CharHalf) ELSE s.left.type = "char"
    BY <1>1 DEF CharactersFit
<1>3. s.left \in variables \cup Numbers
    BY <1>1, StatementHas
<1>4. Reads(run, s.left) \in Int /\ Within(Reads(run, s.left), Half)
    BY <1>3, ReadsWithin
<1>5. ASSUME s.result.type = "char"
      PROVE  Within(Reads(run, s.left), CharHalf)
    <2>1. CASE s.left.kind = "NUM"
        BY <1>2, <1>5, <2>1 DEF Reads
    <2>2. CASE s.left.kind # "NUM"
        <3>1. s.left \in variables
            BY <1>3, <2>2 DEF Numbers
        <3>2. Fits(s.left, run.values[s.left])
            BY <3>1 DEF Sound
        <3> QED BY <1>2, <1>5, <2>2, <3>2 DEF Reads, Fits
    <2> QED BY <2>1, <2>2
<1> QED
    BY <1>4, <1>5 DEF Fits

LEMMA NumberCopyKept ==
    ASSUME Rewritten, Numbered, NumberCopy
    PROVE  Rewritten' /\ Numbered'
<1> DEFINE V == VariablesOf(program)
           s == code[at]
           numbers == Ensured(symInt, s.left, valNum)
           last == NextAfter(symInt, s.left, valNum)
           f == Put(numbers, s.result, numbers[s.left])
<1>1. /\ at \in 1..Len(code) /\ program' = program /\ level' = level /\ Keep
      /\ exprInt' = exprInt /\ s.op = "copy"
    <2>1. Len(code) \in Nat
        BY DEF Rewritten, IsTranslated
    <2> QED BY <2>1 DEF NumberCopy, Rewritten
<1>2. symInt' = f /\ valNum' = last
    <2>1. CASE s.left \in DOMAIN symInt
        BY <2>1 DEF NumberCopy, Ensured, NextAfter
    <2>2. CASE s.left \notin DOMAIN symInt
        <3>1. numbers = Put(symInt, s.left, valNum) /\ last = valNum + 1
            BY <2>2 DEF Ensured, NextAfter
        <3>2. Put(symInt, s.left, valNum)[s.left] = valNum
            BY Zenon DEF Put
        <3>3. symInt' = Put(Put(symInt, s.left, valNum), s.result, valNum) /\ valNum' = valNum + 1
            BY <2>2 DEF NumberCopy
        <3> QED BY <3>1, <3>2, <3>3
    <2> QED BY <2>1, <2>2
<1>3. /\ AreVariables(V) /\ s \in Statements(V) /\ code \in Seq(Statements(V))
      /\ s.left \in V \cup Numbers /\ s.result \in V
    <2>1. AreVariables(V) /\ s \in Statements(V) /\ code \in Seq(Statements(V))
        BY <1>1, NextStatement
    <2> QED BY <2>1, StatementHas
<1>4. CharactersFit(code) /\ WellNumbered(symInt, exprInt, valNum, V)
    BY DEF Rewritten, Numbered, Unharmed
<1>5. /\ WellNumbered(numbers, exprInt, last, V) /\ DOMAIN numbers = DOMAIN symInt \cup {s.left}
      /\ WellNumbered(f, exprInt, last, V) /\ DOMAIN f = DOMAIN symInt \cup {s.left, s.result}
    <2>1. s.left \in V \cup Numbers /\ s.result \in V /\ WellNumbered(symInt, exprInt, valNum, V)
        BY <1>3, <1>4
    <2>2. numbers = Ensured(symInt, s.left, valNum) /\ last = NextAfter(symInt, s.left, valNum)
        OBVIOUS
    <2> HIDE DEF V, numbers, last
    <2>3. f = Put(numbers, s.result, numbers[s.left])
        OBVIOUS
    <2> HIDE DEF f, s
    <2>4. WellNumbered(numbers, exprInt, last, V)
        BY <2>1, <2>2, EnsuredWell
    <2>5. DOMAIN numbers = DOMAIN symInt \cup {s.left}
        BY Zenon, <2>2 DEF Ensured, Put
    <2>6. WellNumbered(f, exprInt, last, V)
        <3>1. numbers[s.left] \in 0..(last - 1) /\ s.result \in V \cup Numbers
            BY <2>1, <2>4, <2>5 DEF WellNumbered
        <3> QED BY <2>3, <2>4, <3>1, PutWell
    <2>7. DOMAIN f = DOMAIN numbers \cup {s.result}
        BY Zenon, <2>3 DEF Put
    <2> QED BY <2>4, <2>5, <2>6, <2>7
<1>6. ASSUME NEW env \in Environments
      PROVE  Meaningful(Execute(env, RunTo(code, V, env, at - 1), s), f, exprInt)
    <2> DEFINE run == RunTo(code, V, env, at - 1)
    <2>1. Sound(run, V) /\ Meaningful(run, symInt, exprInt)
        BY <1>1, NextStatement DEF Numbered
    <2> HIDE DEF run, V
    <2>2. Meaningful(run, numbers, exprInt)
        BY <1>3, <1>4, <2>1, EnsuredMeaningful
    <2>3. Fits(s.result, Reads(run, s.left))
        BY <1>1, <1>3, <1>4, <2>1, CopyFits
    <2> HIDE DEF numbers, last
    <2>4. s.left \in DOMAIN numbers
        BY <1>5
    <2>5. Meaningful(Execute(env, run, s), f, exprInt)
        BY <1>1, <1>3, <1>5, <2>1, <2>2, <2>3, <2>4, CopyMeans
    <2> QED BY <2>5 DEF run
<1> HIDE DEF f
<1>7. ASSUME NEW j \in (at + 1)..Len(code)
      PROVE  /\ code[j].op \in {"binary", "call"} => code[j].result \notin DOMAIN f
             /\ code[j].op = "label" => DOMAIN f = {} /\ DOMAIN exprInt = {}
    <2>1. DOMAIN f \subseteq DOMAIN symInt \cup Mentioned(s)
        BY <1>1, <1>5 DEF Mentioned
    <2> QED BY <1>1, <2>1, LaterStatements
<1> QED
    BY <1>1, <1>2, <1>5, <1>6, <1>7, KeptNumbered

\* The numbers once both operands have one, the next number, and the key.
OperandNumbers(s) == Ensured(Ensured(symInt, s.left, valNum), s.right, NextAfter(symInt, s.left, valNum))
OperandNext(s) ==
    NextAfter(Ensured(symInt, s.left, valNum), s.right, NextAfter(symInt, s.left, valNum))
OperandKey(s) == Key(s.test, OperandNumbers(s)[s.left], OperandNumbers(s)[s.right])

\* What an operation does if its value is new, known and held, or known and lost.
LEMMA BinaryCases ==
    ASSUME NumberBinary,
           NEW s, s = code[at], NEW numbers, numbers = OperandNumbers(s),
           NEW last, last = OperandNext(s), NEW key, key = OperandKey(s)
    PROVE  \/ /\ exprInt' = Put(exprInt, key, last) /\ symInt' = Put(numbers, s.result, last)
              /\ valNum' = last + 1 /\ Keep
           \/ /\ key \in DOMAIN exprInt /\ symInt' = numbers /\ valNum' = last /\ exprInt' = exprInt /\ Keep
           \/ /\ key \in DOMAIN exprInt /\ symInt' = Put(numbers, s.result, exprInt[key])
              /\ valNum' = last /\ exprInt' = exprInt
              /\ \E h \in DOMAIN numbers : numbers[h] = exprInt[key] /\ ReplaceWith(<<Copied(s, h)>>)
<1> DEFINE newLeft == s.left \notin DOMAIN symInt
           left == IF newLeft THEN Put(symInt, s.left, valNum) ELSE symInt
           next == IF newLeft THEN valNum + 1 ELSE valNum
           newRight == s.right \notin DOMAIN left
           both == IF newRight THEN Put(left, s.right, next) ELSE left
           then == IF newRight THEN next + 1 ELSE next
           k == Key(s.test, both[s.left], both[s.right])
           known == k \in DOMAIN exprInt
           holders == IF known THEN {h \in DOMAIN both : both[h] = exprInt[k]} ELSE {}
<1>1. numbers = both /\ last = then /\ key = k
    BY DEF OperandNumbers, OperandNext, OperandKey, Ensured, NextAfter
<1>2. \/ /\ ~known
         /\ exprInt' = Put(exprInt, k, then)
         /\ symInt' = Put(both, s.result, then)
         /\ valNum' = then + 1 /\ Keep
      \/ /\ known
         /\ IF holders = {} THEN Keep /\ symInt' = both
            ELSE /\ \E h \in holders : ReplaceWith(<<Copied(s, h)>>)
                 /\ symInt' = Put(both, s.result, exprInt[k])
         /\ valNum' = then /\ exprInt' = exprInt
    BY DEF NumberBinary
<1> HIDE DEF both, then, k
<1> QED
    BY <1>1, <1>2

\* What is known of the numbers of the operands.
LEMMA OperandFacts ==
    ASSUME Rewritten, Numbered, at \in 1..Len(code), NEW s, s = code[at], s.op = "binary",
           NEW numbers, numbers = OperandNumbers(s), NEW last, last = OperandNext(s)
    PROVE  /\ WellNumbered(numbers, exprInt, last, VariablesOf(program))
           /\ s.left \in DOMAIN numbers /\ s.right \in DOMAIN numbers
           /\ DOMAIN numbers \subseteq DOMAIN symInt \cup {s.left, s.right}
           /\ s.result \notin DOMAIN numbers
           /\ \A env \in Environments :
                 Meaningful(RunTo(code, VariablesOf(program), env, at - 1), numbers, exprInt)
<1> DEFINE V == VariablesOf(program)
           left == Ensured(symInt, s.left, valNum)
           after == NextAfter(symInt, s.left, valNum)
<1>1. /\ AreVariables(V) /\ s.left \in V \cup Numbers /\ s.right \in V \cup Numbers
      /\ WellNumbered(symInt, exprInt, valNum, V)
      /\ \A env \in Environments : /\ Sound(RunTo(code, V, env, at - 1), V)
                                   /\ Meaningful(RunTo(code, V, env, at - 1), symInt, exprInt)
    <2>1. AreVariables(V) /\ s \in Statements(V)
        BY NextStatement
    <2> QED BY <2>1, NextStatement, StatementHas DEF Numbered
<1>2. left = Ensured(symInt, s.left, valNum) /\ after = NextAfter(symInt, s.left, valNum)
    OBVIOUS
<1>3. numbers = Ensured(left, s.right, after) /\ last = NextAfter(left, s.right, after)
    BY DEF OperandNumbers, OperandNext
<1>4. s.result \notin {s.left, s.right} /\ s.result \notin DOMAIN symInt
    <2>1. at \in DOMAIN code /\ at \in at..Len(code)
        BY NextStatement
    <2>2. ResultsNew(code)
        BY DEF Rewritten, IsTranslated
    <2> QED BY <2>1, <2>2 DEF ResultsNew, Numbered, Unseen
<1> HIDE DEF V, left, after
<1>5. WellNumbered(left, exprInt, after, V)
    BY <1>1, <1>2, EnsuredWell
<1>6. WellNumbered(numbers, exprInt, last, V)
    <2>1. WellNumbered(Ensured(left, s.right, after), exprInt, NextAfter(left, s.right, after), V)
        BY <1>1, <1>5, EnsuredWell
    <2> QED BY <1>3, <2>1
<1>7. DOMAIN left = DOMAIN symInt \cup {s.left}
    BY Zenon, <1>2 DEF Ensured, Put
<1>8. DOMAIN numbers = DOMAIN left \cup {s.right}
    BY Zenon, <1>3 DEF Ensured, Put
<1>9. ASSUME NEW env \in Environments
      PROVE  Meaningful(RunTo(code, V, env, at - 1), numbers, exprInt)
    <2> DEFINE run == RunTo(code, V, env, at - 1)
    <2>1. Sound(run, V) /\ Meaningful(run, symInt, exprInt)
        BY <1>1
    <2> HIDE DEF run
    <2>2. Meaningful(run, left, exprInt)
        BY <1>1, <1>2, <2>1, EnsuredMeaningful
    <2>3. Meaningful(run, numbers, exprInt)
        BY <1>1, <1>3, <1>5, <2>1, <2>2, EnsuredMeaningful
    <2> QED BY <2>3 DEF run
<1> QED
    BY <1>4, <1>6, <1>7, <1>8, <1>9 DEF V

LEMMA NumberBinaryKept ==
    ASSUME Rewritten, Numbered, NumberBinary
    PROVE  Rewritten' /\ Numbered'
<1> DEFINE V == VariablesOf(program)
           s == code[at]
           numbers == OperandNumbers(s)
           last == OperandNext(s)
           key == OperandKey(s)
           run(env) == RunTo(code, V, env, at - 1)
<1>1. /\ at \in 1..Len(code) /\ program' = program /\ level' = level /\ s.op = "binary"
    <2>1. Len(code) \in Nat
        BY DEF Rewritten, IsTranslated
    <2>2. at <= Len(code) /\ s.op = "binary" /\ program' = program /\ level' = level
        BY Zenon DEF NumberBinary
    <2> QED BY <2>1, <2>2 DEF Rewritten
<1>2. /\ AreVariables(V) /\ s \in Statements(V) /\ NamesTell(s, V) /\ code \in Seq(Statements(V))
      /\ s.result \in V /\ s.test \in Tests /\ s.left \in V \cup Numbers /\ s.right \in V \cup Numbers
      /\ \A env \in Environments : Sound(run(env), V)
    <2>1. AreVariables(V) /\ s \in Statements(V) /\ NamesTell(s, V) /\ code \in Seq(Statements(V))
        BY <1>1, NextStatement
    <2>2. \A env \in Environments : Sound(run(env), V)
        BY <1>1, NextStatement
    <2> HIDE DEF run
    <2> QED BY <1>1, <2>1, <2>2, StatementHas
<1>3. key = Key(s.test, numbers[s.left], numbers[s.right])
    BY DEF OperandKey
<1>4. /\ WellNumbered(numbers, exprInt, last, V)
      /\ s.left \in DOMAIN numbers /\ s.right \in DOMAIN numbers
      /\ DOMAIN numbers \subseteq DOMAIN symInt \cup {s.left, s.right}
      /\ s.result \notin DOMAIN numbers
      /\ \A env \in Environments : Meaningful(run(env), numbers, exprInt)
    BY <1>1, OperandFacts
<1>5. ASSUME NEW j \in (at + 1)..Len(code)
      PROVE  /\ code[j].op # "label"
             /\ code[j].op \in {"binary", "call"} => code[j].result \notin DOMAIN numbers \cup {s.result}
    <2>1. Mentioned(s) = {s.result, s.left, s.right}
        BY <1>1 DEF Mentioned
    <2> QED BY <1>1, <1>4, <2>1, LaterStatements
<1>6. \/ /\ exprInt' = Put(exprInt, key, last) /\ symInt' = Put(numbers, s.result, last)
         /\ valNum' = last + 1 /\ Keep
      \/ /\ key \in DOMAIN exprInt /\ symInt' = numbers /\ valNum' = last /\ exprInt' = exprInt /\ Keep
      \/ /\ key \in DOMAIN exprInt /\ symInt' = Put(numbers, s.result, exprInt[key])
         /\ valNum' = last /\ exprInt' = exprInt
         /\ \E h \in DOMAIN numbers : numbers[h] = exprInt[key] /\ ReplaceWith(<<Copied(s, h)>>)
    BY BinaryCases
<1> HIDE DEF V, s, numbers, last, key, run
<1>7. CASE /\ exprInt' = Put(exprInt, key, last) /\ symInt' = Put(numbers, s.result, last)
           /\ valNum' = last + 1 /\ Keep
    <2>1. /\ last \in Nat /\ numbers[s.left] \in 0..(last - 1) /\ numbers[s.right] \in 0..(last - 1)
          /\ last \in 0..((last + 1) - 1) /\ s.result \in V \cup Numbers
        BY <1>2, <1>4 DEF WellNumbered
    <2>2. key \in Tests \X (0..(last - 1)) \X (0..(last - 1))
        <3> DEFINE m == numbers[s.left]
                   n == numbers[s.right]
        <3>1. m \in Nat /\ n \in Nat /\ key = Key(s.test, m, n) /\ m \in 0..(last - 1) /\ n \in 0..(last - 1)
            BY <1>3, <2>1
        <3>2. [i \in Nat |-> 0] \in [Nat -> Int]
            OBVIOUS
        <3> HIDE DEF m, n
        <3>3. key \in Tests \X {m, n} \X {m, n}
            BY ONLY <1>2, <3>1, <3>2, KeyComputes
        <3> QED BY <3>1, <3>3
    <2>3. WellNumbered(numbers, Put(exprInt, key, last), last + 1, V)
        BY <1>4, <2>2, ExpressionWell
    <2>4. WellNumbered(symInt', exprInt', valNum', V)
        BY <1>7, <2>1, <2>3, PutWell
    <2>5. DOMAIN symInt' = DOMAIN numbers \cup {s.result}
        BY <1>7, Zenon DEF Put
    <2>6. ASSUME NEW env \in Environments
          PROVE  Meaningful(Execute(env, run(env), s), symInt', exprInt')
        BY <1>1, <1>2, <1>3, <1>4, <1>7, NewBinaryMeans
    <2> QED BY <1>1, <1>5, <1>7, <2>4, <2>5, <2>6, KeptNumbered DEF V, s, run
<1>8. CASE key \in DOMAIN exprInt /\ symInt' = numbers /\ valNum' = last /\ exprInt' = exprInt /\ Keep
    <2>1. ASSUME NEW env \in Environments
          PROVE  Meaningful(Execute(env, run(env), s), symInt', exprInt')
        BY <1>1, <1>2, <1>3, <1>4, <1>8, KnownBinaryMeans
    <2> QED BY <1>1, <1>4, <1>5, <1>8, <2>1, KeptNumbered DEF V, s, run
<1>9. ASSUME key \in DOMAIN exprInt, symInt' = Put(numbers, s.result, exprInt[key]),
             valNum' = last, exprInt' = exprInt,
             NEW h \in DOMAIN numbers, numbers[h] = exprInt[key], ReplaceWith(<<Copied(s, h)>>)
      PROVE  Rewritten' /\ Numbered'
    <2> DEFINE t == Copied(s, h)
               new == <<t>>
    <2>1. h \in V \cup Numbers
        BY <1>4 DEF WellNumbered
    <2>2. Improves(s, new, V) /\ Mentioned(t) = {s.result, h}
        BY <1>1, <1>2, <2>1, CopiedTells, CopiedMentions
    <2>3. ASSUME NEW env \in Environments
          PROVE  Execute(env, run(env), t) = Execute(env, run(env), s)
        BY <1>1, <1>2, <1>3, <1>4, <1>9, HolderSame
    <2>4. \A env \in Environments : Meaningful(Execute(env, run(env), s), symInt', exprInt')
        BY <1>1, <1>2, <1>3, <1>4, <1>9, KnownBinaryMeans
    <2>5. ReplaceWith(new)
        BY <1>9
    <2> HIDE DEF t
    <2>6. new # << >> /\ new[1] = t
        OBVIOUS
    <2> HIDE DEF new
    <2>7. \A j \in (at + 1)..Len(code) :
              code[j].op \in {"binary", "call"} => code[j].result \notin Mentioned(new[1])
        BY <1>5, <2>2, <2>6
    <2>8. \A env \in Environments : DoesTheSame(env, run(env), s, new)
        BY <2>3, <2>6 DEF DoesTheSame, After
    <2>9. Rewritten' /\ Replaced(code, Len(code), at, new, code', Len(code')) /\ at' = at + 1
        BY <1>1, <2>2, <2>5, <2>6, <2>7, <2>8, ReplaceStep DEF V, s, run
    <2>10. /\ Len(code') = Len(code) /\ Len(code) \in Nat /\ at \in Nat
           /\ \A j \in (at + 1)..Len(code) : code'[j] = code[j]
        BY <1>1, <1>2, <2>6, <2>9 DEF Replaced
    <2>11. DOMAIN symInt' = DOMAIN numbers \cup {s.result}
        BY <1>9, Zenon DEF Put
    <2>12. Unseen(code', at', symInt', exprInt')
        BY <1>5, <2>9, <2>10, <2>11 DEF Unseen
    <2>13. WellNumbered(symInt', exprInt', valNum', V)
        <3>1. exprInt[key] \in 0..(last - 1) /\ s.result \in V \cup Numbers
            BY <1>2, <1>4, <1>9 DEF WellNumbered
        <3> QED BY <1>4, <1>9, <3>1, PutWell
    <2>14. ASSUME NEW env \in Environments
           PROVE  Meaningful(RunTo(code', V, env, at' - 1), symInt', exprInt')
        <3> DEFINE n == Len(code)
                   m == Len(code')
        <3>1. n \in Nat /\ at \in Nat /\ 1 <= at /\ at <= n /\ Replaced(code, n, at, new, code', m)
            BY <1>1, <2>9, <2>10
        <3> HIDE DEF n, m
        <3>2. run(env) = RunTo(code, V, env, at - 1)
            BY DEF run
        <3>3. RunTo(code', V, env, at) = After(env, run(env), new)
            BY ONLY <2>6, <3>1, <3>2, ReplacedRun
        <3>4. RunTo(code', V, env, at) = Execute(env, run(env), s)
            BY <2>3, <2>6, <3>3 DEF After
        <3>5. at' - 1 = at
            BY <2>9, <2>10
        <3> QED BY <2>4, <3>4, <3>5
    <2>15. V' = V
        BY <1>1 DEF V, VariablesOf
    <2> QED BY <1>1, <2>9, <2>12, <2>13, <2>14, <2>15 DEF Numbered, V
<1> QED
    BY <1>6, <1>7, <1>8, <1>9

\* A phase ends, and numbering starts with no numbers.
LEMMA EndPhaseKept ==
    ASSUME Rewritten, EndPhase
    PROVE  Rewritten' /\ (phase' = "number" => Numbered')
<1> DEFINE V == VariablesOf(program)
<1>1. /\ program' = program /\ level' = level /\ code' = code /\ at' = 1
      /\ symInt' = << >> /\ exprInt' = << >> /\ valNum' = 0
    BY DEF EndPhase
<1>2. phase' = "number" => level = 3
    BY DEF EndPhase, FirstPhase
<1>3. Len(code) \in Nat /\ IsTranslated(code, V) /\ Unharmed(code)
    BY DEF Rewritten, IsTranslated
<1>4. Rewritten'
    <2>1. IsTranslated(code, VariablesOf(program))'
        BY <1>1, <1>3
    <2>2. Unharmed(code)'
        BY <1>1, <1>3 DEF Unharmed
    <2>3. (at \in 1..(Len(code) + 1))'
        BY <1>1, <1>3
    <2>4. (\A env \in Environments : RunOf(program, env).trapped \/ RunOf(code, env) = RunOf(program, env))'
        BY <1>1 DEF Rewritten, RunOf
    <2> QED BY <2>1, <2>2, <2>3, <2>4 DEF Rewritten
<1>5. ASSUME level = 3
      PROVE  Numbered'
    <2>1. DOMAIN symInt' = {} /\ DOMAIN exprInt' = {}
        BY <1>1
    <2>2. WellNumbered(symInt', exprInt', valNum', V)
        BY <1>1, <2>1 DEF WellNumbered
    <2>3. Unseen(code', at', symInt', exprInt')
        <3>1. \A j \in at'..Len(code') : code'[j].op \in {"binary", "call"} => code'[j].result \notin DOMAIN symInt'
            BY <2>1
        <3> QED BY <2>1, <3>1 DEF Unseen
    <2>4. \A run : Meaningful(run, symInt', exprInt')
        <3> DEFINE val == [i \in Nat |-> 0]
        <3>1. \A run : Means(val, run, symInt', exprInt')
            BY <2>1 DEF Means
        <3> QED BY <3>1 DEF Meaningful
    <2>5. level' = 3 /\ V' = V
        BY <1>1, <1>5 DEF V, VariablesOf
    <2> QED BY <2>2, <2>3, <2>4, <2>5 DEF Numbered, V
<1> QED
    BY <1>2, <1>4, <1>5

\* Nothing but the phase changes, or nothing at all.
LEMMA SameKept ==
    ASSUME UNCHANGED <<program, level, code, at, symInt, exprInt, valNum>>
    PROVE  /\ Unharmed(program)' <=> Unharmed(program)
           /\ Rewritten => Rewritten'
           /\ Numbered => Numbered'
<1>1. /\ program' = program /\ level' = level /\ code' = code /\ at' = at
      /\ symInt' = symInt /\ exprInt' = exprInt /\ valNum' = valNum
    OBVIOUS
<1>2. Unharmed(program)' <=> Unharmed(program)
    BY <1>1 DEF Unharmed
<1>3. ASSUME Rewritten
      PROVE  Rewritten'
    <2>1. Unharmed(code)'
        BY <1>1, <1>3 DEF Rewritten, Unharmed
    <2>2. (\A env \in Environments : RunOf(program, env).trapped \/ RunOf(code, env) = RunOf(program, env))'
        BY <1>1, <1>3 DEF Rewritten, RunOf
    <2> QED BY <1>1, <1>3, <2>1, <2>2 DEF Rewritten
<1>4. Numbered => Numbered'
    BY <1>1 DEF Numbered
<1> QED
    BY <1>2, <1>3, <1>4

LEMMA NextIsKept == IInv /\ [Next]_vars => IInv'
<1> SUFFICES ASSUME IInv, [Next]_vars
             PROVE  IInv'
    OBVIOUS
<1>1. program' = program /\ level' = level
    BY DEF Next, vars, SimplifyStatement, FoldStatement, NumberCall, NumberCopy, NumberBinary,
           NumberOther, Crash, EndPhase
<1>2. program \in Programs /\ (Unharmed(program)' <=> Unharmed(program))
    BY <1>1 DEF IInv, Unharmed
<1>3. SUFFICES ASSUME Unharmed(program)
               PROVE  Rewritten' /\ (phase' = "number" => Numbered')
    BY <1>1, <1>2 DEF IInv
<1>4. Rewritten /\ (phase = "number" => Numbered)
    BY <1>3 DEF IInv
<1>5. CASE SimplifyStatement
    <2>1. phase' # "number"
        BY <1>5 DEF SimplifyStatement
    <2> QED BY <1>4, <1>5, <2>1, SimplifyKept
<1>6. CASE FoldStatement
    <2>1. phase' # "number"
        BY <1>6 DEF FoldStatement
    <2> QED BY <1>4, <1>6, <2>1, FoldKept
<1>7. CASE NumberCall
    <2>1. phase = "number"
        BY <1>7 DEF NumberCall
    <2> QED BY <1>4, <1>7, <2>1, NumberCallKept
<1>8. CASE NumberCopy
    <2>1. phase = "number"
        BY <1>8 DEF NumberCopy
    <2> QED BY <1>4, <1>8, <2>1, NumberCopyKept
<1>9. CASE NumberBinary
    <2>1. phase = "number"
        BY <1>9, Zenon DEF NumberBinary
    <2> QED BY <1>4, <1>9, <2>1, NumberBinaryKept
<1>10. CASE NumberOther
    <2>1. phase = "number"
        BY <1>10 DEF NumberOther
    <2> QED BY <1>4, <1>10, <2>1, NumberOtherKept
<1>11. CASE Crash
    <2>1. phase' # "number" /\ UNCHANGED <<program, level, code, at, symInt, exprInt, valNum>>
        BY <1>11 DEF Crash
    <2> QED BY <1>4, <2>1, SameKept
<1>12. CASE EndPhase
    BY <1>4, <1>12, EndPhaseKept
<1>13. CASE UNCHANGED vars
    <2>1. phase' = phase /\ UNCHANGED <<program, level, code, at, symInt, exprInt, valNum>>
        BY <1>13 DEF vars
    <2> QED BY <1>4, <2>1, SameKept
<1> QED
    BY <1>5, <1>6, <1>7, <1>8, <1>9, <1>10, <1>11, <1>12, <1>13 DEF Next

LEMMA AlwaysKept == Spec => []IInv
<1>1. Init => IInv
    BY InitIsKept
<1>2. IInv /\ [Next]_vars => IInv'
    BY NextIsKept
<1> QED
    BY <1>1, <1>2, PTL DEF Spec

\* At every moment, and after each phase, the list does what the program does.
THEOREM OutcomeIsPreserved == Spec => [](Unharmed(program) => OutcomePreserved)
<1>1. IInv => (Unharmed(program) => OutcomePreserved)
    BY DEF IInv, Rewritten, OutcomePreserved
<1> QED
    BY <1>1, AlwaysKept, PTL

\* Where the optimizer is, symbols that have the same number have the same value.
THEOREM NumbersAreTruthful == Spec => [](Unharmed(program) => NumbersTruthful)
<1>1. IInv => (Unharmed(program) => NumbersTruthful)
    <2> SUFFICES ASSUME IInv, Unharmed(program), phase = "number", NEW env \in Environments,
                        ~RunTo(code, VariablesOf(program), env, at - 1).trapped,
                        RunTo(code, VariablesOf(program), env, at - 1).skipTo = 0,
                        NEW s \in DOMAIN symInt, NEW t \in DOMAIN symInt, symInt[s] = symInt[t]
                 PROVE  Reads(RunTo(code, VariablesOf(program), env, at - 1), s) =
                        Reads(RunTo(code, VariablesOf(program), env, at - 1), t)
        BY DEF NumbersTruthful
    <2> DEFINE run == RunTo(code, VariablesOf(program), env, at - 1)
    <2>1. Meaningful(run, symInt, exprInt)
        BY DEF IInv, Numbered
    <2>2. PICK val : Means(val, run, symInt, exprInt)
        BY <2>1 DEF Meaningful
    <2> HIDE DEF run
    <2>3. Reads(run, s) = val[symInt[s]] /\ Reads(run, t) = val[symInt[t]]
        BY <2>2 DEF Means
    <2> QED BY <2>3 DEF run
<1> QED
    BY <1>1, AlwaysKept, PTL
=============================================================================
