-------------------------- MODULE PositionInduction --------------------------
(* Induction over the positions 1 .. n of a sequence, and definition by      *)
(* recursion over 0 .. n, stated for sets and functions so that they can be  *)
(* cited without a predicate or an operator as parameter.                    *)
EXTENDS Integers, Sequences, FiniteSets, FiniteSetTheorems, TLAPS

\* A sequence over a set is a sequence over every larger set.
LEMMA SeqMonotone ==
    ASSUME NEW S, NEW T, S \subseteq T
    PROVE  Seq(S) \subseteq Seq(T)
<1> SUFFICES ASSUME NEW s \in Seq(S) PROVE s \in Seq(T)
    OBVIOUS
<1>1. Len(s) \in Nat /\ s \in [1 .. Len(s) -> S]
    OBVIOUS
<1>2. s \in [1 .. Len(s) -> T]
    BY <1>1
<1> QED BY <1>1, <1>2

\* Induction over the positions of a chain, stated for a set: positions that
\* can only be bad when their predecessor is, and the first of which is good,
\* are not bad at the end either.  Stepping back would otherwise be a one-to-one
\* map of the finite set Bad into itself that misses the last position.
LEMMA LastPositionGood ==
    ASSUME NEW n \in Nat \ {0}, NEW Bad \in SUBSET (1 .. n),
           1 \notin Bad, \A k \in Bad : k - 1 \in Bad
    PROVE  n \notin Bad
<1> DEFINE back == [k \in Bad |-> k - 1]
<1>1. IsFiniteSet(Bad)
    <2>1. IsFiniteSet(1 .. n)
        BY FS_Interval
    <2> QED BY <2>1, FS_Subset
<1>2. back \in Injection(Bad, Bad)
    BY DEF Injection, IsInjective
<1>3. back \in Surjection(Bad, Bad)
    BY <1>1, <1>2, FS_Injection
<1>4. ASSUME n \in Bad PROVE FALSE
    <2>1. PICK k \in Bad : back[k] = n
        BY <1>3, <1>4 DEF Surjection
    <2> QED BY <2>1
<1> QED BY <1>4

\* A non-empty set of positions has a first element.
LEMMA FirstPosition ==
    ASSUME NEW n \in Nat, NEW P \in SUBSET (1 .. n), P # {}
    PROVE  \E i \in P : \A j \in P : i <= j
<1> SUFFICES ASSUME \A i \in P : \E j \in P : ~ (i <= j) PROVE FALSE
    OBVIOUS
<1>1. PICK e \in P : TRUE
    OBVIOUS
<1>2. e + 1 \in Nat \ {0}
    OBVIOUS
<1> DEFINE Bad == {k \in 1 .. (e + 1) : \E j \in P : j < k}
<1>3. 1 \notin Bad
    OBVIOUS
<1>4. ASSUME NEW k \in Bad PROVE k - 1 \in Bad
    <2>1. PICK j \in P : j < k
        OBVIOUS
    <2>2. PICK i \in P : i < j
        OBVIOUS
    <2>3. i < k - 1 /\ k - 1 \in 1 .. (e + 1)
        BY <2>1, <2>2
    <2> QED BY <2>3
<1>5. e + 1 \in Bad
    OBVIOUS
<1>6. Bad \in SUBSET (1 .. (e + 1))
    OBVIOUS
<1> HIDE DEF Bad
<1> QED BY <1>2, <1>3, <1>4, <1>5, <1>6, LastPositionGood

\* What holds of 0 and is passed on from each number to the next holds up to n.
LEMMA UpTo ==
    ASSUME NEW n \in Nat, NEW Good, 0 \in Good, \A i \in 1 .. n : i - 1 \in Good => i \in Good
    PROVE  \A i \in 0 .. n : i \in Good
<1> SUFFICES ASSUME NEW k \in 0 .. n, k \notin Good PROVE FALSE
    OBVIOUS
<1> DEFINE Bad == {i \in 1 .. (k + 1) : i - 1 \notin Good}
<1>1. k + 1 \in Nat \ {0} /\ Bad \in SUBSET (1 .. (k + 1)) /\ 1 \notin Bad /\ k + 1 \in Bad
    OBVIOUS
<1>2. ASSUME NEW i \in Bad PROVE i - 1 \in Bad
    <2>1. i \in 1 .. (k + 1) /\ i # 1 /\ i - 1 \notin Good
        BY <1>1
    <2>2. i - 1 \in 1 .. n
        BY <2>1
    <2>3. (i - 1) - 1 \notin Good
        BY <2>1, <2>2
    <2> QED BY <2>1, <2>3
<1> HIDE DEF Bad
<1> QED BY <1>1, <1>2, LastPositionGood

\* Rules for a recursion over 0 .. n with values in S: rule[i][v] is the value
\* at i when v is the value at i - 1.
Rules(n, S) == [1 .. n -> [S -> S]]

\* f follows the rules from its first value.
Follows(f, n, S, first, rule) ==
    f \in [0 .. n -> S] /\ f[0] = first /\ \A i \in 1 .. n : f[i] = rule[i][f[i - 1]]

\* A function defined by recursion exists.
LEMMA RecursionExists ==
    ASSUME NEW n \in Nat, NEW S, NEW first \in S, NEW rule \in Rules(n, S)
    PROVE  \E f : Follows(f, n, S, first, rule)
<1> USE DEF Rules, Follows
<1> DEFINE Solves(f, k) == f[0] = first /\ \A i \in 1 .. k : f[i] = rule[i][f[i - 1]]
           Good == {k \in 0 .. n : \E f \in [0 .. n -> S] : Solves(f, k)}
<1>1. 0 \in Good
    <2> DEFINE g == [i \in 0 .. n |-> first]
    <2>1. g \in [0 .. n -> S] /\ g[0] = first
        OBVIOUS
    <2> HIDE DEF g
    <2>2. Solves(g, 0)
        BY <2>1
    <2> QED BY <2>1, <2>2
<1>2. ASSUME NEW k \in 1 .. n, k - 1 \in Good PROVE k \in Good
    <2>1. PICK f \in [0 .. n -> S] : Solves(f, k - 1)
        BY <1>2
    <2> DEFINE g == [f EXCEPT ![k] = rule[k][f[k - 1]]]
    <2>2. f[k - 1] \in S /\ k \in 0 .. n
        OBVIOUS
    <2>3. rule[k][f[k - 1]] \in S
        BY <2>2
    <2>4. g \in [0 .. n -> S]
        BY <2>3
    <2>5. g[k] = rule[k][f[k - 1]] /\ \A i \in 0 .. (k - 1) : g[i] = f[i]
        BY <2>2
    <2> HIDE DEF g
    <2>6. Solves(g, k)
        <3>1. g[0] = first
            BY <2>1, <2>5
        <3>2. ASSUME NEW i \in 1 .. k PROVE g[i] = rule[i][g[i - 1]]
            <4>1. g[i - 1] = f[i - 1]
                BY <2>5
            <4>2. CASE i = k
                BY <2>5, <4>1, <4>2
            <4>3. CASE i \in 1 .. (k - 1)
                BY <2>1, <2>5, <4>1, <4>3
            <4> QED BY <4>2, <4>3
        <3> QED BY <3>1, <3>2
    <2> QED BY <2>2, <2>4, <2>6
<1> HIDE DEF Good
<1>3. n \in Good
    <2>1. \A i \in 0 .. n : i \in Good
        BY <1>1, <1>2, UpTo
    <2> QED BY <2>1
<1> QED BY <1>3 DEF Good

\* Its values stay in a set that holds the first one and is closed under the rules.
LEMMA RecursionType ==
    ASSUME NEW n \in Nat, NEW S, NEW f, f[0] \in S,
           \A i \in 1 .. n : f[i - 1] \in S => f[i] \in S
    PROVE  \A i \in 0 .. n : f[i] \in S
<1> DEFINE Good == {i \in 0 .. n : f[i] \in S}
<1>1. 0 \in Good /\ \A i \in 1 .. n : i - 1 \in Good => i \in Good
    OBVIOUS
<1> HIDE DEF Good
<1>2. \A i \in 0 .. n : i \in Good
    BY <1>1, UpTo
<1> QED BY <1>2 DEF Good

\* Two functions begin alike and go on alike.
Alike(f, g, n) ==
    f[0] = g[0] /\ \A i \in 1 .. n : f[i - 1] = g[i - 1] => f[i] = g[i]

\* Then they agree.
LEMMA RecursionUnique ==
    ASSUME NEW n \in Nat, NEW f, NEW g, Alike(f, g, n)
    PROVE  \A i \in 0 .. n : f[i] = g[i]
<1> USE DEF Alike
<1> DEFINE Good == {i \in 0 .. n : f[i] = g[i]}
<1>1. 0 \in Good /\ \A i \in 1 .. n : i - 1 \in Good => i \in Good
    OBVIOUS
<1> HIDE DEF Good
<1>2. \A i \in 0 .. n : i \in Good
    BY <1>1, UpTo
<1> QED BY <1>2 DEF Good

=============================================================================
