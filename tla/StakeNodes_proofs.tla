--------------------------- MODULE StakeNodes_proofs ---------------------------
(* What holds of the proof-of-stake nodes for every set of validators, every  *)
(* genesis, any number of crashes and every order of gossip and answers.      *)
EXTENDS StakeNodes, PositionInduction, SequenceTheorems

-----------------------------------------------------------------------------
(* Chains and their prefixes *)

\* The parent chain of a block is a chain.
LEMMA ParentsType ==
    ASSUME NEW c \in Seq(Block), NEW i \in 1 .. Len(c) + 1
    PROVE  /\ parents(c, i) \in Seq(Block) /\ Len(parents(c, i)) = i - 1
           /\ \A k \in 1 .. i - 1 : parents(c, i)[k] = c[k]
<1>1. 1 \in 1 .. Len(c) + 1 /\ i - 1 \in 0 .. Len(c)
    OBVIOUS
<1>2. \A k \in 1 .. i - 1 : c[k] \in Block
    OBVIOUS
<1> QED BY <1>1, <1>2 DEF parents

\* Prefixes of chains that agree up to there are equal.
LEMMA SameParents ==
    ASSUME NEW c \in Seq(Block), NEW d \in Seq(Block), NEW i \in 1 .. Len(c) + 1, i <= Len(d) + 1,
           \A k \in 1 .. i - 1 : c[k] = d[k]
    PROVE  parents(c, i) = parents(d, i)
<1>1. i \in 1 .. Len(d) + 1
    OBVIOUS
<1>2. /\ parents(c, i) \in Seq(Block) /\ Len(parents(c, i)) = i - 1
      /\ parents(d, i) \in Seq(Block) /\ Len(parents(d, i)) = i - 1
      /\ \A k \in 1 .. i - 1 : parents(c, i)[k] = parents(d, i)[k]
    BY <1>1, ParentsType
<1> QED BY <1>2, SeqEqual

\* The prefixes of a chain with one block more.
LEMMA ParentsOfAppend ==
    ASSUME NEW c \in Seq(Block), NEW b \in Block
    PROVE  /\ \A i \in 1 .. Len(c) + 1 : parents(Append(c, b), i) = parents(c, i)
           /\ parents(c, Len(c) + 1) = c
<1> DEFINE e == Append(c, b)
<1>1. e \in Seq(Block) /\ Len(e) = Len(c) + 1 /\ \A k \in 1 .. Len(c) : e[k] = c[k]
    OBVIOUS
<1> HIDE DEF e
<1>2. ASSUME NEW i \in 1 .. Len(c) + 1 PROVE parents(e, i) = parents(c, i)
    <2>1. i \in 1 .. Len(e) + 1 /\ i <= Len(c) + 1 /\ \A k \in 1 .. i - 1 : e[k] = c[k]
        BY <1>1
    <2> QED BY <1>1, <2>1, SameParents
<1>3. parents(c, Len(c) + 1) = c
    BY SubSeqFull DEF parents
<1> QED BY <1>2, <1>3 DEF e

\* What a block is made of.
LEMMA BlockFields ==
    ASSUME NEW c \in Seq(Block), NEW i \in 1 .. Len(c)
    PROVE  /\ c[i] \in Block /\ c[i].validator_id \in Node /\ c[i].block_index \in Nat
           /\ c[i].slot \in Nat /\ c[i].tran_hash \in Hash /\ c[i].prev_hash \in Hash
           /\ c[i].tran_body \in Bodies
<1>1. c[i] \in Block
    OBVIOUS
<1>2. \A b \in Block : /\ b.validator_id \in Node /\ b.block_index \in Nat /\ b.slot \in Nat
                       /\ b.tran_hash \in Hash /\ b.prev_hash \in Hash /\ b.tran_body \in Bodies
    BY DEF Block
<1> QED BY <1>1, <1>2

-----------------------------------------------------------------------------
(* Stakes *)

Stakes == [Node -> Nat]

\* A reward changes one stake, and only one that is not 0.
LEMMA Reward ==
    ASSUME NEW stakes \in Stakes, NEW b \in Block
    PROVE  /\ apply_block_reward(stakes, b) \in Stakes
           /\ \A v \in Node : apply_block_reward(stakes, b)[v]
                 = IF v = b.validator_id /\ stakes[v] > 0 THEN stakes[v] + block_reward ELSE stakes[v]
<1>1. b.validator_id \in Node /\ block_reward \in Nat
    BY StakeSettings DEF Block
<1>2. \A x, y \in Nat : x + y \in Nat
    OBVIOUS
<1> QED BY <1>1, <1>2 DEF apply_block_reward, Stakes

\* f[i] are the stakes after the first i blocks.
Replays(f, c) ==
    /\ f \in [0 .. Len(c) -> Stakes] /\ f[0] = genesis_stakes
    /\ \A i \in 1 .. Len(c) : f[i] = apply_block_reward(f[i - 1], c[i])

\* compute_validators_from_chain replays the chain.
LEMMA ReplayExists ==
    ASSUME NEW c \in Seq(Block)
    PROVE  \E f : Replays(f, c) /\ compute_validators_from_chain(c) = f[Len(c)]
<1> DEFINE n == Len(c)
           rule == [i \in 1 .. n |-> [s \in Stakes |-> apply_block_reward(s, c[i])]]
<1>1. n \in Nat /\ genesis_stakes \in Stakes
    BY StakeSettings DEF Stakes
<1>2. \A s \in Stakes, i \in 1 .. n : apply_block_reward(s, c[i]) \in Stakes
    BY Reward, BlockFields
<1>3. rule \in Rules(n, Stakes)
    BY <1>2 DEF Rules
<1>4. \A s \in Stakes, i \in 1 .. n : rule[i][s] = apply_block_reward(s, c[i])
    OBVIOUS
<1> HIDE DEF rule, n
<1>5. PICK f : Follows(f, n, Stakes, genesis_stakes, rule)
    BY <1>1, <1>3, RecursionExists
<1>6. f = [i \in 0 .. n |-> IF i = 0 THEN genesis_stakes ELSE apply_block_reward(f[i - 1], c[i])]
    <2>1. ASSUME NEW i \in 1 .. n PROVE f[i] = apply_block_reward(f[i - 1], c[i])
        <3>1. f[i - 1] \in Stakes
            <4>1. f \in [0 .. n -> Stakes]
                BY <1>5 DEF Follows
            <4>2. i - 1 \in 0 .. n
                BY <1>1
            <4> QED BY <4>1, <4>2
        <3> QED BY <1>4, <1>5, <3>1 DEF Follows
    <2> QED BY <1>5, <2>1 DEF Follows
<1> DEFINE after == CHOOSE g : g = [i \in 0 .. n |-> IF i = 0 THEN genesis_stakes
                                                     ELSE apply_block_reward(g[i - 1], c[i])]
<1>7. after = [i \in 0 .. n |-> IF i = 0 THEN genesis_stakes ELSE apply_block_reward(after[i - 1], c[i])]
    BY <1>6
<1>8. compute_validators_from_chain(c) = after[n]
    BY DEF compute_validators_from_chain, n
<1> HIDE DEF after
<1>9. after[0] = genesis_stakes /\ \A i \in 1 .. n : after[i] = apply_block_reward(after[i - 1], c[i])
    BY <1>1, <1>7
<1>10. after[0] \in Stakes /\ \A i \in 1 .. n : after[i - 1] \in Stakes => after[i] \in Stakes
    BY <1>1, <1>2, <1>9
<1>11. \A i \in 0 .. n : after[i] \in Stakes
    BY <1>1, <1>10, RecursionType
<1>12. after \in [0 .. n -> Stakes]
    BY <1>7, <1>11
<1> QED BY <1>8, <1>9, <1>12 DEF Replays, n

\* The stakes after a prefix are those the replay had there.
LEMMA ReplayPrefix ==
    ASSUME NEW c \in Seq(Block), NEW f, Replays(f, c), NEW k \in 0 .. Len(c)
    PROVE  compute_validators_from_chain(parents(c, k + 1)) = f[k]
<1> DEFINE d == parents(c, k + 1)
<1>1. k \in Nat /\ k + 1 \in 1 .. Len(c) + 1 /\ (k + 1) - 1 = k
    OBVIOUS
<1>2. d \in Seq(Block) /\ Len(d) = k /\ \A i \in 1 .. k : d[i] = c[i]
    BY <1>1, ParentsType
<1> HIDE DEF d
<1>3. PICK g : Replays(g, d) /\ compute_validators_from_chain(d) = g[Len(d)]
    BY <1>2, ReplayExists
<1>4. f[0] = g[0]
    BY <1>3 DEF Replays
<1>5. ASSUME NEW i \in 1 .. k, f[i - 1] = g[i - 1] PROVE f[i] = g[i]
    <2>1. f[i] = apply_block_reward(f[i - 1], c[i])
        BY <1>1 DEF Replays
    <2>2. g[i] = apply_block_reward(g[i - 1], d[i])
        BY <1>2, <1>3 DEF Replays
    <2> QED BY <1>2, <1>5, <2>1, <2>2
<1>6. Alike(f, g, k)
    BY <1>4, <1>5 DEF Alike
<1>7. \A i \in 0 .. k : f[i] = g[i]
    BY <1>1, <1>6, RecursionUnique
<1> QED BY <1>1, <1>2, <1>3, <1>7 DEF d

\* Replaying one block more is one reward more.
LEMMA ReplayStep ==
    ASSUME NEW c \in Seq(Block)
    PROVE  /\ compute_validators_from_chain(parents(c, 1)) = genesis_stakes
           /\ \A i \in 1 .. Len(c) :
                 compute_validators_from_chain(parents(c, i + 1))
                     = apply_block_reward(compute_validators_from_chain(parents(c, i)), c[i])
<1>1. PICK f : Replays(f, c)
    BY ReplayExists
<1>2. compute_validators_from_chain(parents(c, 1)) = genesis_stakes
    <2>1. 0 \in 0 .. Len(c) /\ 0 + 1 = 1
        OBVIOUS
    <2>2. compute_validators_from_chain(parents(c, 0 + 1)) = f[0]
        BY <1>1, <2>1, ReplayPrefix
    <2> QED BY <1>1, <2>1, <2>2 DEF Replays
<1>3. ASSUME NEW i \in 1 .. Len(c)
      PROVE  compute_validators_from_chain(parents(c, i + 1))
                 = apply_block_reward(compute_validators_from_chain(parents(c, i)), c[i])
    <2>1. i \in 0 .. Len(c) /\ i - 1 \in 0 .. Len(c) /\ (i - 1) + 1 = i
        OBVIOUS
    <2>2. compute_validators_from_chain(parents(c, i + 1)) = f[i]
        BY <1>1, <2>1, ReplayPrefix
    <2>3. compute_validators_from_chain(parents(c, (i - 1) + 1)) = f[i - 1]
        BY <1>1, <2>1, ReplayPrefix
    <2> QED BY <1>1, <2>1, <2>2, <2>3 DEF Replays
<1> QED BY <1>2, <1>3

LEMMA ReplayAppend ==
    ASSUME NEW c \in Seq(Block), NEW b \in Block
    PROVE  compute_validators_from_chain(Append(c, b))
               = apply_block_reward(compute_validators_from_chain(c), b)
<1> DEFINE e == Append(c, b)
           n == Len(c) + 1
<1>1. e \in Seq(Block) /\ Len(e) = n /\ e[n] = b /\ n \in 1 .. Len(e)
    OBVIOUS
<1>2. parents(e, n) = c /\ parents(e, n + 1) = e
    <2>1. parents(e, Len(e) + 1) = e
        BY <1>1, ParentsOfAppend
    <2> QED BY <1>1, <2>1, ParentsOfAppend
<1> HIDE DEF e, n
<1>3. compute_validators_from_chain(parents(e, n + 1))
          = apply_block_reward(compute_validators_from_chain(parents(e, n)), e[n])
    BY <1>1, ReplayStep
<1> QED BY <1>1, <1>2, <1>3 DEF e

\* Without a block the stakes are those of the genesis.
LEMMA ReplayEmpty == compute_validators_from_chain(<< >>) = genesis_stakes
<1>1. << >> \in Seq(Block) /\ Len(<< >>) = 0
    OBVIOUS
<1>2. PICK f : Replays(f, << >>) /\ compute_validators_from_chain(<< >>) = f[Len(<< >>)]
    BY <1>1, ReplayExists
<1> QED BY <1>1, <1>2 DEF Replays

\* Stakes are numbers, and never below those of the genesis.
LEMMA ReplayType ==
    ASSUME NEW c \in Seq(Block)
    PROVE  /\ compute_validators_from_chain(c) \in Stakes
           /\ \A v \in Node : compute_validators_from_chain(c)[v] >= genesis_stakes[v]
<1> DEFINE n == Len(c)
           Above == {s \in Stakes : \A v \in Node : s[v] >= genesis_stakes[v]}
<1>1. PICK f : Replays(f, c) /\ compute_validators_from_chain(c) = f[n]
    BY ReplayExists
<1>2. n \in Nat /\ genesis_stakes \in Stakes /\ block_reward \in Nat
    BY StakeSettings DEF Stakes
<1>3. genesis_stakes \in Above
    BY <1>2 DEF Stakes
<1>4. ASSUME NEW i \in 1 .. n, f[i - 1] \in Above PROVE f[i] \in Above
    <2>1. f[i] = apply_block_reward(f[i - 1], c[i])
        BY <1>1 DEF Replays
    <2> DEFINE s == f[i - 1]
    <2>2. s \in Stakes /\ c[i] \in Block /\ \A v \in Node : s[v] >= genesis_stakes[v]
        BY <1>4
    <2> HIDE DEF s
    <2>3. /\ apply_block_reward(s, c[i]) \in Stakes
          /\ \A v \in Node : apply_block_reward(s, c[i])[v]
                = IF v = c[i].validator_id /\ s[v] > 0 THEN s[v] + block_reward ELSE s[v]
        BY <2>2, Reward
    <2>4. ASSUME NEW v \in Node PROVE apply_block_reward(s, c[i])[v] >= genesis_stakes[v]
        <3>1. s[v] \in Nat /\ genesis_stakes[v] \in Nat /\ s[v] >= genesis_stakes[v]
            BY <1>2, <2>2 DEF Stakes
        <3>2. s[v] + block_reward >= genesis_stakes[v]
            BY <1>2, <3>1
        <3> QED BY <2>3, <3>1, <3>2
    <2> QED BY <2>1, <2>3, <2>4 DEF s
<1>5. f[0] \in Above /\ \A i \in 1 .. n : f[i - 1] \in Above => f[i] \in Above
    BY <1>1, <1>3, <1>4 DEF Replays
<1> HIDE DEF n, Above
<1>6. \A i \in 0 .. n : f[i] \in Above
    BY <1>2, <1>5, RecursionType
<1>7. f[n] \in Above
    BY <1>2, <1>6
<1> QED BY <1>1, <1>7 DEF Above

-----------------------------------------------------------------------------
(* The proposer of a slot *)

\* f[i] is the sum of the stakes of the first i ids.
Adds(f, stakes, k) ==
    /\ f \in [0 .. k -> Nat] /\ f[0] = 0
    /\ \A i \in 1 .. k : f[i] = f[i - 1] + stakes[sorted_ids[i]]

LEMMA CumulativeExists ==
    ASSUME NEW stakes \in Stakes, NEW k \in 0 .. Len(sorted_ids)
    PROVE  \E f : Adds(f, stakes, k) /\ cumulative(stakes, k) = f[k]
<1> DEFINE rule == [i \in 1 .. k |-> [s \in Nat |-> s + stakes[sorted_ids[i]]]]
<1>1. k \in Nat /\ sorted_ids \in Seq(Node) /\ Len(sorted_ids) \in Nat
    BY StakeSettings
<1>2. \A i \in 1 .. k : stakes[sorted_ids[i]] \in Nat
    BY <1>1 DEF Stakes
<1>3. rule \in Rules(k, Nat)
    BY <1>2 DEF Rules
<1>4. \A s \in Nat, i \in 1 .. k : rule[i][s] = s + stakes[sorted_ids[i]]
    OBVIOUS
<1> HIDE DEF rule
<1>5. PICK f : Follows(f, k, Nat, 0, rule)
    BY <1>1, <1>3, RecursionExists
<1>6. f = [i \in 0 .. k |-> IF i = 0 THEN 0 ELSE f[i - 1] + stakes[sorted_ids[i]]]
    <2>1. ASSUME NEW i \in 1 .. k PROVE f[i] = f[i - 1] + stakes[sorted_ids[i]]
        <3>1. f[i - 1] \in Nat
            <4>1. f \in [0 .. k -> Nat]
                BY <1>5 DEF Follows
            <4>2. i - 1 \in 0 .. k
                BY <1>1
            <4> QED BY <4>1, <4>2
        <3> QED BY <1>4, <1>5, <3>1 DEF Follows
    <2> QED BY <1>5, <2>1 DEF Follows
<1> DEFINE upto == CHOOSE g : g = [i \in 0 .. k |-> IF i = 0 THEN 0 ELSE g[i - 1] + stakes[sorted_ids[i]]]
<1>7. upto = [i \in 0 .. k |-> IF i = 0 THEN 0 ELSE upto[i - 1] + stakes[sorted_ids[i]]]
    BY <1>6
<1>8. cumulative(stakes, k) = upto[k]
    BY DEF cumulative
<1> HIDE DEF upto
<1>9. upto[0] = 0 /\ \A i \in 1 .. k : upto[i] = upto[i - 1] + stakes[sorted_ids[i]]
    BY <1>1, <1>7
<1>10. upto[0] \in Nat /\ \A i \in 1 .. k : upto[i - 1] \in Nat => upto[i] \in Nat
    <2>1. ASSUME NEW i \in 1 .. k, upto[i - 1] \in Nat PROVE upto[i] \in Nat
        <3> DEFINE p == upto[i - 1]
                   q == stakes[sorted_ids[i]]
        <3>1. p \in Nat /\ q \in Nat /\ upto[i] = p + q
            BY <1>2, <1>9, <2>1
        <3> HIDE DEF p, q
        <3> QED BY <3>1
    <2> QED BY <1>9, <2>1
<1>11. \A i \in 0 .. k : upto[i] \in Nat
    BY <1>1, <1>10, RecursionType
<1>12. upto \in [0 .. k -> Nat]
    BY <1>7, <1>11
<1> QED BY <1>8, <1>9, <1>12 DEF Adds

\* Sums up to different ids agree as far as both go.
LEMMA SumsAgree ==
    ASSUME NEW stakes \in Stakes, NEW k \in Nat, NEW j \in Nat, j <= k, NEW f, NEW g,
           Adds(f, stakes, k), Adds(g, stakes, j)
    PROVE  \A i \in 0 .. j : f[i] = g[i]
<1>1. f[0] = g[0]
    BY DEF Adds
<1>2. ASSUME NEW i \in 1 .. j, f[i - 1] = g[i - 1] PROVE f[i] = g[i]
    <2>1. i \in 1 .. k
        OBVIOUS
    <2>2. f[i] = f[i - 1] + stakes[sorted_ids[i]]
        BY <2>1 DEF Adds
    <2>3. g[i] = g[i - 1] + stakes[sorted_ids[i]]
        BY DEF Adds
    <2> QED BY <1>2, <2>2, <2>3
<1>3. Alike(f, g, j)
    BY <1>1, <1>2 DEF Alike
<1> QED BY <1>3, RecursionUnique

\* The sums begin with 0 and grow by one stake at a time.
LEMMA CumulativeStep ==
    ASSUME NEW stakes \in Stakes
    PROVE  /\ cumulative(stakes, 0) = 0
           /\ \A k \in 0 .. Len(sorted_ids) : cumulative(stakes, k) \in Nat
           /\ \A k \in 1 .. Len(sorted_ids) :
                 cumulative(stakes, k) = cumulative(stakes, k - 1) + stakes[sorted_ids[k]]
<1>1. Len(sorted_ids) \in Nat
    BY StakeSettings
<1>2. ASSUME NEW k \in 0 .. Len(sorted_ids) PROVE cumulative(stakes, k) \in Nat
    <2>1. PICK f : Adds(f, stakes, k) /\ cumulative(stakes, k) = f[k]
        BY CumulativeExists
    <2> QED BY <1>1, <2>1 DEF Adds
<1>3. cumulative(stakes, 0) = 0
    <2>1. 0 \in 0 .. Len(sorted_ids)
        BY <1>1
    <2>2. PICK f : Adds(f, stakes, 0) /\ cumulative(stakes, 0) = f[0]
        BY <2>1, CumulativeExists
    <2> QED BY <2>2 DEF Adds
<1>4. ASSUME NEW k \in 1 .. Len(sorted_ids)
      PROVE  cumulative(stakes, k) = cumulative(stakes, k - 1) + stakes[sorted_ids[k]]
    <2> DEFINE j == k - 1
    <2>1. k \in 0 .. Len(sorted_ids) /\ j \in 0 .. Len(sorted_ids) /\ j \in Nat /\ k \in 1 .. k
        BY <1>1
    <2>2. PICK f : Adds(f, stakes, k) /\ cumulative(stakes, k) = f[k]
        BY <2>1, CumulativeExists
    <2> HIDE DEF j
    <2>3. PICK g : Adds(g, stakes, j) /\ cumulative(stakes, j) = g[j]
        BY <2>1, CumulativeExists
    <2>4. \A i \in 0 .. j : f[i] = g[i]
        <3>1. k \in Nat /\ j <= k
            BY <2>1 DEF j
        <3> QED BY <2>1, <2>2, <2>3, <3>1, SumsAgree
    <2>5. f[j] = g[j]
        BY <2>1, <2>4
    <2>6. f[k] = f[k - 1] + stakes[sorted_ids[k]]
        BY <2>1, <2>2 DEF Adds
    <2> QED BY <2>2, <2>3, <2>5, <2>6 DEF j
<1> QED BY <1>2, <1>3, <1>4

\* With a positive stake there is a total to pick from.
LEMMA TotalPositive ==
    ASSUME NEW stakes \in Stakes, \E v \in Node : stakes[v] > 0
    PROVE  get_total_stake(stakes) \in Nat \ {0}
<1> DEFINE n == Len(sorted_ids)
<1>1. n \in Nat /\ sorted_ids \in Seq(Node)
    BY StakeSettings
<1>2. PICK v \in Node : stakes[v] > 0
    OBVIOUS
<1>3. PICK m \in 1 .. n : sorted_ids[m] = v
    BY <1>1, StakeSettings
<1> DEFINE Good == {k \in 0 .. n : k >= m => cumulative(stakes, k) > 0}
<1>4. 0 \in Good
    BY <1>1
<1>5. ASSUME NEW k \in 1 .. n, k - 1 \in Good PROVE k \in Good
    <2>1. cumulative(stakes, k) = cumulative(stakes, k - 1) + stakes[sorted_ids[k]]
        BY CumulativeStep
    <2>2. cumulative(stakes, k - 1) \in Nat /\ stakes[sorted_ids[k]] \in Nat
        <3>1. k - 1 \in 0 .. n
            BY <1>1
        <3>2. cumulative(stakes, k - 1) \in Nat
            BY <3>1, CumulativeStep
        <3>3. sorted_ids[k] \in Node
            BY <1>1
        <3> QED BY <3>2, <3>3 DEF Stakes
    <2>3. CASE k = m
        BY <1>2, <1>3, <2>1, <2>2, <2>3
    <2>4. CASE k # m
        <3>1. k >= m => k - 1 >= m
            BY <2>4
        <3>2. k >= m => cumulative(stakes, k - 1) > 0
            BY <1>5, <3>1
        <3> QED BY <2>1, <2>2, <3>2
    <2> QED BY <2>3, <2>4
<1> HIDE DEF Good
<1>6. \A k \in 0 .. n : k \in Good
    <2>1. \A k \in 1 .. n : k - 1 \in Good => k \in Good
        BY <1>5
    <2> HIDE DEF n
    <2> QED BY <1>1, <1>4, <2>1, UpTo
<1>7. n \in 0 .. n /\ n >= m
    BY <1>1
<1>8. cumulative(stakes, n) \in Nat /\ cumulative(stakes, n) > 0
    BY <1>6, <1>7, CumulativeStep DEF Good
<1> QED BY <1>8 DEF get_total_stake

\* The proposer of a slot is a validator with stake: the pick falls into its
\* share of the sums, which is therefore not empty.
LEMMA ProposerHasStake ==
    ASSUME NEW stakes \in Stakes, \E v \in Node : stakes[v] > 0, NEW slot \in 1 .. MaxHeight
    PROVE  select_proposer(slot, stakes) \in Node /\ stakes[select_proposer(slot, stakes)] > 0
<1> DEFINE n == Len(sorted_ids)
           total == get_total_stake(stakes)
           pick == digest[slot] % total
           over == {i \in DOMAIN sorted_ids : pick < cumulative(stakes, i)}
           first == CHOOSE i \in over : \A j \in over : i <= j
<1>1. n \in Nat /\ sorted_ids \in Seq(Node) /\ digest[slot] \in Nat
    BY StakeSettings
<1>2. total \in Nat \ {0}
    BY TotalPositive
<1> HIDE DEF total
<1>3. pick \in Nat /\ pick < total
    BY <1>1, <1>2
<1> HIDE DEF pick
<1>4. total = cumulative(stakes, n)
    BY DEF total, get_total_stake
<1>5. n # 0
    BY <1>2, <1>4, CumulativeStep
<1>6. over \in SUBSET (1 .. n) /\ n \in over
    BY <1>1, <1>3, <1>4, <1>5
<1>7. \E i \in over : \A j \in over : i <= j
    BY <1>1, <1>6, FirstPosition
<1>8. first \in over /\ \A j \in over : first <= j
    BY <1>7
<1> HIDE DEF first
<1>9. first \in 1 .. n /\ pick < cumulative(stakes, first)
    BY <1>6, <1>8
<1>10. first - 1 \in 0 .. n
    BY <1>1, <1>9
<1>11. cumulative(stakes, first - 1) <= pick
    <2>1. CASE first = 1
        <3>1. cumulative(stakes, first - 1) = 0
            BY <2>1, CumulativeStep
        <3> QED BY <1>3, <3>1
    <2>2. CASE first # 1
        <3>1. first - 1 \in DOMAIN sorted_ids /\ ~ (first <= first - 1)
            BY <1>1, <1>9, <2>2
        <3>2. ~ (pick < cumulative(stakes, first - 1))
            BY <1>8, <3>1
        <3>3. cumulative(stakes, first - 1) \in Nat
            BY <1>10, CumulativeStep
        <3> QED BY <1>3, <3>2, <3>3
    <2> QED BY <2>1, <2>2
<1>12. sorted_ids[first] \in Node /\ stakes[sorted_ids[first]] \in Nat
    BY <1>1, <1>9 DEF Stakes
<1>13. /\ cumulative(stakes, first) = cumulative(stakes, first - 1) + stakes[sorted_ids[first]]
       /\ cumulative(stakes, first) \in Nat /\ cumulative(stakes, first - 1) \in Nat
    <2>1. first \in 0 .. n
        BY <1>1, <1>9
    <2> QED BY <1>9, <1>10, <2>1, CumulativeStep
<1>14. stakes[sorted_ids[first]] > 0
    BY <1>3, <1>9, <1>11, <1>12, <1>13
<1>15. select_proposer(slot, stakes) = sorted_ids[first]
    BY DEF select_proposer, first, pick, total
<1> QED BY <1>12, <1>14, <1>15

-----------------------------------------------------------------------------
(* Valid chains *)

Valid(c) == validate_chain_with_genesis_stakes(c, Node)

\* The links of a chain, block by block.
LEMMA LinkAt ==
    ASSUME NEW c \in Seq(Block), NEW i \in 1 .. Len(c)
    PROVE  validate_chain_link(c[i], parents(c, i))
               <=> IF i = 1 THEN c[i].block_index = 1 /\ c[i].prev_hash = << >>
                   ELSE /\ c[i].prev_hash = c[i - 1].tran_hash
                        /\ c[i].block_index = c[i - 1].block_index + 1
<1> DEFINE d == parents(c, i)
<1>1. i \in 1 .. Len(c) + 1
    OBVIOUS
<1>2. d \in Seq(Block) /\ Len(d) = i - 1 /\ \A k \in 1 .. i - 1 : d[k] = c[k]
    BY <1>1, ParentsType
<1> HIDE DEF d
<1>3. CASE i = 1
    <2>1. d = << >>
        BY <1>2, <1>3
    <2> QED BY <1>3, <2>1 DEF validate_chain_link, genesis_prev_hash, d
<1>4. CASE i # 1
    <2>1. d # << >> /\ d[Len(d)] = c[i - 1]
        BY <1>2, <1>4
    <2> QED BY <1>4, <2>1 DEF validate_chain_link, tip, d
<1> QED BY <1>3, <1>4

\* verify_chain, which accepts a chain, and the fork choice apply the same rules.
LEMMA IntegrityIsValidity ==
    ASSUME NEW c \in Seq(Block), NEW K
    PROVE  verify_chain_integrity(c, K) <=> validate_chain_with_genesis_stakes(c, K)
<1>1. ASSUME NEW i \in 1 .. Len(c), validate_chain_link(c[i], parents(c, i)), i = 1
      PROVE  c[1].prev_hash = genesis_prev_hash
    BY <1>1, LinkAt DEF genesis_prev_hash
<1> QED BY <1>1 DEF verify_chain_integrity, validate_chain_with_genesis_stakes

\* Which keys are registered matters only for the validators of the chain.
LEMMA ValidUnder ==
    ASSUME NEW c \in Seq(Block), NEW K \in SUBSET Node
    PROVE  validate_chain_with_genesis_stakes(c, K)
               <=> Valid(c) /\ \A i \in 1 .. Len(c) : c[i].validator_id \in K
<1>1. \A i \in 1 .. Len(c) : c[i].validator_id \in Node
    BY BlockFields
<1>2. ASSUME NEW i \in 1 .. Len(c), NEW stakes
      PROVE  validate_block(c[i], K, stakes, i)
                 <=> validate_block(c[i], Node, stakes, i) /\ c[i].validator_id \in K
    BY <1>1 DEF validate_block
<1> QED BY <1>2 DEF validate_chain_with_genesis_stakes, Valid

\* The empty chain is valid.
LEMMA EmptyValid ==
    ASSUME NEW K
    PROVE  validate_chain_with_genesis_stakes(<< >>, K)
BY DEF validate_chain_with_genesis_stakes

\* A block add_block takes leaves the chain valid.
LEMMA AppendValid ==
    ASSUME NEW c \in Seq(Block), NEW b \in Block, NEW K,
           validate_chain_with_genesis_stakes(c, K), add_block(b, K, c)
    PROVE  validate_chain_with_genesis_stakes(Append(c, b), K)
<1> DEFINE e == Append(c, b)
           m == Len(c)
<1>1. /\ e \in Seq(Block) /\ Len(e) = m + 1 /\ e[m + 1] = b /\ m \in Nat
      /\ \A k \in 1 .. m : e[k] = c[k]
    OBVIOUS
<1>2. (\A i \in 1 .. m + 1 : parents(e, i) = parents(c, i)) /\ parents(c, m + 1) = c
    BY ParentsOfAppend
<1> HIDE DEF e
<1>3. ASSUME NEW i \in 1 .. m + 1
      PROVE  /\ validate_chain_link(e[i], parents(e, i))
             /\ validate_block(e[i], K, compute_validators_from_chain(parents(e, i)), i)
    <2>1. CASE i = m + 1
        BY <1>1, <1>2, <2>1 DEF add_block, m
    <2>2. CASE i \in 1 .. m
        BY <1>1, <1>2, <2>2 DEF validate_chain_with_genesis_stakes, m
    <2> QED BY <2>1, <2>2
<1> HIDE DEF m
<1>4. validate_chain_with_genesis_stakes(e, K)
    BY <1>1, <1>3 DEF validate_chain_with_genesis_stakes
<1> QED BY <1>4 DEF e

\* The blocks of a valid chain are numbered, and the slot of each is its position.
LEMMA Numbered ==
    ASSUME NEW c \in Seq(Block), Valid(c)
    PROVE  \A i \in 1 .. Len(c) : c[i].slot = i /\ c[i].block_index = i
<1> DEFINE n == Len(c)
           Good == {i \in 0 .. n : i > 0 => c[i].block_index = i}
<1>1. n \in Nat /\ 0 \in Good
    OBVIOUS
<1>2. ASSUME NEW i \in 1 .. n PROVE validate_chain_link(c[i], parents(c, i)) /\ c[i].slot = i
    BY DEF Valid, validate_chain_with_genesis_stakes, validate_block
<1>3. ASSUME NEW i \in 1 .. n, i - 1 \in Good PROVE i \in Good
    <2>1. CASE i = 1
        BY <1>2, <2>1, LinkAt
    <2>2. CASE i # 1
        <3>1. c[i].block_index = c[i - 1].block_index + 1
            BY <1>2, <2>2, LinkAt
        <3>2. c[i - 1].block_index = i - 1
            BY <1>3, <2>2
        <3> QED BY <3>1, <3>2
    <2> QED BY <2>1, <2>2
<1>4. \A i \in 1 .. n : i - 1 \in Good => i \in Good
    BY <1>3
<1> HIDE DEF n, Good
<1>5. \A i \in 0 .. n : i \in Good
    BY <1>1, <1>4, UpTo
<1>6. ASSUME NEW i \in 1 .. n PROVE c[i].block_index = i
    <2>1. i \in 0 .. n /\ i > 0
        BY <1>1
    <2> QED BY <1>5, <2>1 DEF Good
<1> QED BY <1>2, <1>6 DEF n

\* A block is proposed by the proposer of its position.
LEMMA ProposedAt ==
    ASSUME NEW c \in Seq(Block), Valid(c), NEW i \in 1 .. Len(c)
    PROVE  c[i].validator_id = select_proposer(i, compute_validators_from_chain(parents(c, i)))
BY DEF Valid, validate_chain_with_genesis_stakes, validate_block

\* Whatever their blocks, valid chains have the same proposers: the stakes a
\* slot is drawn from depend on the earlier proposers only.
LEMMA SameProposers ==
    ASSUME NEW c \in Seq(Block), NEW d \in Seq(Block), Valid(c), Valid(d)
    PROVE  \A i \in 1 .. Len(c) : i <= Len(d) => c[i].validator_id = d[i].validator_id
<1> DEFINE n == Len(c)
           s(i) == compute_validators_from_chain(parents(c, i))
           t(i) == compute_validators_from_chain(parents(d, i))
           Good == {i \in 0 .. n : i <= Len(d) => s(i + 1) = t(i + 1)}
<1>1. n \in Nat /\ Len(d) \in Nat
    OBVIOUS
<1>2. 0 \in Good
    <2>1. s(1) = t(1)
        BY ReplayStep
    <2>2. 0 + 1 = 1
        OBVIOUS
    <2> QED BY <1>1, <2>1, <2>2
<1>3. ASSUME NEW i \in 1 .. n, i <= Len(d), s(i) = t(i)
      PROVE  c[i].validator_id = d[i].validator_id /\ s(i + 1) = t(i + 1)
    <2>1. i \in 1 .. Len(d)
        BY <1>1, <1>3
    <2>2. c[i].validator_id = d[i].validator_id
        BY <1>3, <2>1, ProposedAt
    <2>3. s(i + 1) = apply_block_reward(s(i), c[i]) /\ t(i + 1) = apply_block_reward(t(i), d[i])
        BY <2>1, ReplayStep
    <2> HIDE DEF s, t
    <2>4. apply_block_reward(s(i), c[i]) = apply_block_reward(t(i), d[i])
        BY <1>3, <2>2 DEF apply_block_reward
    <2> QED BY <2>2, <2>3, <2>4
<1> HIDE DEF s, t, n
<1>4. ASSUME NEW i \in 1 .. n, i - 1 \in Good PROVE i \in Good
    <2>1. i \in 0 .. n /\ (i - 1) + 1 = i
        BY <1>1
    <2>2. ASSUME i <= Len(d) PROVE s(i + 1) = t(i + 1)
        <3>1. s(i) = t(i)
            BY <1>1, <1>4, <2>1, <2>2
        <3> QED BY <1>3, <2>2, <3>1
    <2> QED BY <2>1, <2>2
<1>5. \A i \in 1 .. n : i - 1 \in Good => i \in Good
    BY <1>4
<1>6. \A i \in 0 .. n : i \in Good
    <2> HIDE DEF Good
    <2> QED BY <1>1, <1>2, <1>5, UpTo
<1>7. ASSUME NEW i \in 1 .. n, i <= Len(d) PROVE c[i].validator_id = d[i].validator_id
    <2>1. i - 1 \in 0 .. n /\ i - 1 <= Len(d) /\ (i - 1) + 1 = i
        BY <1>1, <1>7
    <2>2. s(i) = t(i)
        BY <1>6, <2>1
    <2> QED BY <1>3, <1>7, <2>2
<1> QED BY <1>7 DEF n

\* The hash of a tip.
LEMMA TipHash ==
    ASSUME NEW c \in Seq(Block)
    PROVE  /\ tip_hash(c) \in Hash
           /\ c # << >> => /\ Len(c) \in 1 .. Len(c) /\ tip(c) = c[Len(c)]
                           /\ tip_hash(c) = c[Len(c)].tran_hash
<1>1. CASE c = << >>
    BY <1>1 DEF tip_hash, genesis_prev_hash, Hash
<1>2. CASE c # << >>
    <2>1. Len(c) \in 1 .. Len(c)
        BY <1>2
    <2>2. tip_hash(c) = c[Len(c)].tran_hash
        BY <1>2 DEF tip_hash, tip
    <2> QED BY <1>2, <2>1, <2>2, BlockFields DEF tip
<1> QED BY <1>1, <1>2

\* The validators of a genesis never lose their stake, so that there is always
\* one to draw.
LEMMA SomeStake ==
    ASSUME NEW c \in Seq(Block)
    PROVE  \E v \in Node : compute_validators_from_chain(c)[v] > 0
<1>1. PICK v \in Node : genesis_stakes[v] > 0
    BY StakeSettings
<1>2. genesis_stakes[v] \in Nat
    BY StakeSettings
<1>3. compute_validators_from_chain(c)[v] \in Nat
    BY ReplayType DEF Stakes
<1>4. compute_validators_from_chain(c)[v] >= genesis_stakes[v]
    BY ReplayType
<1> QED BY <1>1, <1>2, <1>3, <1>4

\* The block a proposer makes fits onto its chain.
LEMMA ProposedFits ==
    ASSUME NEW c \in Seq(Block), NEW K \in SUBSET Node, NEW n \in K, Valid(c),
           Len(c) < MaxHeight, may_propose(n, c), NEW body \in Bodies, NEW item \in Items
    PROVE  /\ prepare_block(n, c, body, item) \in Block
           /\ prepare_block(n, c, body, item).validator_id = n
           /\ add_block(prepare_block(n, c, body, item), K, c)
<1> DEFINE b == prepare_block(n, c, body, item)
           slot == Len(c) + 1
           stakes == compute_validators_from_chain(c)
<1>1. slot \in Nat /\ slot \in 1 .. MaxHeight /\ n \in Node
    BY StakeSettings
<1>2. calc_pos_tran_hash(tip_hash(c), body, n, slot) \in Hash
    <2>1. [body |-> body, validator_id |-> n, slot |-> slot]
              \in [body : Bodies, validator_id : Node, slot : Nat]
        BY <1>1
    <2>2. tip_hash(c) \in Hash
        BY TipHash
    <2> HIDE DEF slot
    <2> QED BY <2>1, <2>2 DEF calc_pos_tran_hash, Hash
<1>3. /\ b.block_index = slot /\ b.prev_hash = tip_hash(c) /\ b.validator_id = n /\ b.slot = slot
      /\ b.tran_body = body
      /\ b.tran_hash = calc_pos_tran_hash(tip_hash(c), body, n, slot)
    BY DEF prepare_block
<1>4. b \in Block
    BY <1>1, <1>2, TipHash DEF prepare_block, Block
<1> HIDE DEF b
<1>5. validate_chain_link(b, c)
    <2>1. CASE c = << >>
        <3>1. slot = 1 /\ tip_hash(c) = genesis_prev_hash
            BY <2>1 DEF tip_hash
        <3> QED BY <1>3, <2>1, <3>1 DEF validate_chain_link
    <2>2. CASE c # << >>
        <3>1. Len(c) \in 1 .. Len(c) /\ tip_hash(c) = tip(c).tran_hash /\ tip(c) = c[Len(c)]
            BY <2>2, TipHash
        <3>2. tip(c).block_index = Len(c)
            BY <3>1, Numbered
        <3> QED BY <1>3, <2>2, <3>1, <3>2 DEF validate_chain_link
    <2> QED BY <2>1, <2>2
<1>6. stakes \in Stakes /\ \E v \in Node : stakes[v] > 0
    BY ReplayType, SomeStake
<1>7. select_proposer(slot, stakes) = n
    BY DEF may_propose
<1> HIDE DEF stakes, slot
<1>8. stakes[n] > 0
    BY <1>1, <1>6, <1>7, ProposerHasStake
<1>9. validate_block(b, K, stakes, slot)
    BY <1>3, <1>7, <1>8 DEF validate_block
<1> QED BY <1>3, <1>4, <1>5, <1>9 DEF add_block, b, stakes, slot

\* What is hashed of one block.
Input == [body : Bodies, validator_id : Node, slot : 1 .. MaxHeight]

\* The hash of a block of a valid chain is the list of what was hashed so far.
LEMMA HashShape ==
    ASSUME NEW c \in Seq(Block), Valid(c), Len(c) <= MaxHeight
    PROVE  \A i \in 1 .. Len(c) : c[i].tran_hash \in [1 .. i -> Input]
<1> DEFINE n == Len(c)
           Good == {i \in 0 .. n : i > 0 => c[i].tran_hash \in [1 .. i -> Input]}
<1>1. n \in Nat /\ 0 \in Good /\ MaxHeight \in Nat
    BY StakeSettings
<1>2. ASSUME NEW i \in 1 .. n, i - 1 \in Good PROVE i \in Good
    <2> DEFINE p == c[i].prev_hash
               r == [body |-> c[i].tran_body, validator_id |-> c[i].validator_id, slot |-> i]
    <2>1. /\ validate_chain_link(c[i], parents(c, i)) /\ c[i].slot = i
          /\ c[i].tran_hash = calc_pos_tran_hash(p, c[i].tran_body, c[i].validator_id, c[i].slot)
        BY DEF Valid, validate_chain_with_genesis_stakes, validate_block
    <2>2. r \in Input
        BY <1>1, BlockFields DEF Input
    <2>3. p \in [1 .. i - 1 -> Input]
        <3>1. CASE i = 1
            <4>1. p = << >>
                BY <2>1, <3>1, LinkAt
            <4>2. << >> \in [1 .. 0 -> Input]
                OBVIOUS
            <4> QED BY <3>1, <4>1, <4>2
        <3>2. CASE i # 1
            <4>1. p = c[i - 1].tran_hash
                BY <2>1, <3>2, LinkAt
            <4> QED BY <1>2, <3>2, <4>1
        <3> QED BY <3>1, <3>2
    <2>4. c[i].tran_hash = Append(p, r)
        BY <2>1 DEF calc_pos_tran_hash
    <2> HIDE DEF p, r
    <2>5. p \in Seq(Input) /\ Len(p) = i - 1
        <3>1. i - 1 \in Nat
            BY <1>1
        <3> QED BY <2>3, <3>1
    <2>6. Append(p, r) \in Seq(Input) /\ Len(Append(p, r)) = i
        BY <2>2, <2>5
    <2> DEFINE h == Append(p, r)
    <2> HIDE DEF h
    <2>7. h \in [1 .. i -> Input]
        <3>1. h \in Seq(Input) /\ Len(h) = i
            BY <2>6 DEF h
        <3> QED BY <3>1
    <2>8. c[i].tran_hash \in [1 .. i -> Input] /\ i \in 0 .. n
        BY <1>1, <2>4, <2>7 DEF h
    <2> QED BY <2>8
<1>3. \A i \in 1 .. n : i - 1 \in Good => i \in Good
    BY <1>2
<1> HIDE DEF n, Good
<1>4. \A i \in 0 .. n : i \in Good
    BY <1>1, <1>3, UpTo
<1>5. ASSUME NEW i \in 1 .. n PROVE c[i].tran_hash \in [1 .. i -> Input]
    <2>1. i \in 0 .. n /\ i > 0
        BY <1>1
    <2> QED BY <1>4, <2>1 DEF Good
<1> QED BY <1>5 DEF n

\* So the order of hashes tells apart the tips of any two valid chains.
LEMMA TipsOrdered ==
    ASSUME NEW c \in Seq(Block), NEW d \in Seq(Block), Valid(c), Valid(d),
           Len(c) \in 1 .. MaxHeight, Len(d) \in 1 .. MaxHeight
    PROVE  sorts_before(tip_hash(c), tip_hash(d))
               <=> tip_hash(c) # tip_hash(d) /\ ~ sorts_before(tip_hash(d), tip_hash(c))
<1>1. ASSUME NEW e \in Seq(Block), Valid(e), Len(e) \in 1 .. MaxHeight
      PROVE  tip_hash(e) \in HashUpTo(MaxHeight)
    <2>1. e # << >> /\ Len(e) \in 0 .. MaxHeight /\ Len(e) <= MaxHeight
        BY <1>1, StakeSettings
    <2>2. tip_hash(e) \in [1 .. Len(e) -> Input]
        BY <1>1, <2>1, TipHash, HashShape
    <2> DEFINE m == Len(e)
    <2> HIDE DEF m
    <2>3. tip_hash(e) \in [1 .. m -> Input] /\ m \in 0 .. MaxHeight
        BY <2>1, <2>2 DEF m
    <2> QED BY <2>3 DEF HashUpTo, Input
<1>2. tip_hash(c) \in HashUpTo(MaxHeight) /\ tip_hash(d) \in HashUpTo(MaxHeight)
    BY <1>1
<1> QED BY <1>2, StakeSettings

\* The weight of a chain is a number.
LEMMA WeightType ==
    ASSUME NEW c \in Seq(Block)
    PROVE  stake_weight(c) \in Nat
<1> DEFINE n == Len(c)
           stakes == compute_validators_from_chain(c)
           rule == [i \in 1 .. n |-> [s \in Nat |-> s + stakes[c[i].validator_id]]]
<1>1. n \in Nat /\ stakes \in Stakes
    BY ReplayType
<1> HIDE DEF stakes
<1>2. \A i \in 1 .. n : stakes[c[i].validator_id] \in Nat
    BY <1>1, BlockFields DEF Stakes
<1>3. rule \in Rules(n, Nat)
    BY <1>2 DEF Rules
<1>4. \A s \in Nat, i \in 1 .. n : rule[i][s] = s + stakes[c[i].validator_id]
    OBVIOUS
<1> HIDE DEF rule, n
<1>5. PICK f : Follows(f, n, Nat, 0, rule)
    BY <1>1, <1>3, RecursionExists
<1>6. f = [i \in 0 .. n |-> IF i = 0 THEN 0 ELSE f[i - 1] + stakes[c[i].validator_id]]
    <2>1. ASSUME NEW i \in 1 .. n PROVE f[i] = f[i - 1] + stakes[c[i].validator_id]
        <3>1. f[i - 1] \in Nat
            BY <1>1, <1>5 DEF Follows
        <3> QED BY <1>4, <1>5, <3>1 DEF Follows
    <2> QED BY <1>5, <2>1 DEF Follows
<1> DEFINE upto == CHOOSE g : g = [i \in 0 .. n |-> IF i = 0 THEN 0
                                                    ELSE g[i - 1] + stakes[c[i].validator_id]]
<1>7. upto = [i \in 0 .. n |-> IF i = 0 THEN 0 ELSE upto[i - 1] + stakes[c[i].validator_id]]
    BY <1>6
<1>8. stake_weight(c) = upto[n]
    BY DEF stake_weight, n, stakes
<1> HIDE DEF upto
<1>9. upto[0] = 0 /\ \A i \in 1 .. n : upto[i] = upto[i - 1] + stakes[c[i].validator_id]
    BY <1>1, <1>7
<1>10. upto[0] \in Nat /\ \A i \in 1 .. n : upto[i - 1] \in Nat => upto[i] \in Nat
    <2>1. ASSUME NEW i \in 1 .. n, upto[i - 1] \in Nat PROVE upto[i] \in Nat
        <3> DEFINE p == upto[i - 1]
                   q == stakes[c[i].validator_id]
        <3>1. p \in Nat /\ q \in Nat /\ upto[i] = p + q
            BY <1>2, <1>9, <2>1
        <3> HIDE DEF p, q
        <3> QED BY <3>1
    <2> QED BY <1>9, <2>1
<1>11. \A i \in 0 .. n : upto[i] \in Nat
    BY <1>1, <1>10, RecursionType
<1> QED BY <1>1, <1>8, <1>11

-----------------------------------------------------------------------------
(* The fork choice *)

\* The chain that wins is at least as long.
LEMMA WinnerNotShorter ==
    ASSUME NEW c \in Seq(Block), NEW d \in Seq(Block), outscores(c, d)
    PROVE  Len(c) >= Len(d)
<1>1. Len(c) \in Nat /\ Len(d) \in Nat
    OBVIOUS
<1> QED BY <1>1 DEF outscores

\* A chain that is longer wins.
LEMMA LongerWins ==
    ASSUME NEW c, NEW d, Len(c) > Len(d)
    PROVE  outscores(c, d)
BY DEF outscores

\* What a node with a valid chain gives it up for.
LEMMA ForkChoice ==
    ASSUME NEW local \in Seq(Block), NEW fragment \in Seq(Block), fragment # << >>, NEW K,
           validate_chain_with_genesis_stakes(local, K),
           resolve_fork(local, fragment, K) # local
    PROVE  /\ \/ resolve_fork(local, fragment, K) = fragment
              \/ resolve_fork(local, fragment, K) = local \o fragment
           /\ validate_chain_with_genesis_stakes(resolve_fork(local, fragment, K), K)
           /\ outscores(resolve_fork(local, fragment, K), local)
<1> DEFINE remote == IF local # << >> /\ Head(fragment).prev_hash = tip_hash(local)
                     THEN local \o fragment ELSE fragment
           canonical == select_canonical_chain(local, remote, K)
           e == resolve_fork(local, fragment, K)
<1>1. remote = fragment \/ remote = local \o fragment
    OBVIOUS
<1>2. remote \in Seq(Block) /\ Len(remote) > 0
    BY <1>1
<1>3. e = canonical /\ canonical # << >>
    BY DEF resolve_fork
<1> HIDE DEF remote
<1>4. e = remote /\ validate_chain_with_genesis_stakes(remote, K)
          /\ (local = << >> \/ outscores(remote, local))
    BY <1>3 DEF select_canonical_chain
<1>5. outscores(remote, local)
    <2>1. CASE local = << >>
        BY <1>2, <2>1, LongerWins
    <2> QED BY <1>4, <2>1
<1> QED BY <1>1, <1>4, <1>5

-----------------------------------------------------------------------------
(* The inductive invariant *)

\* The chains a node has ever held are valid, as seen by one who knows all keys.
HeldValid ==
    \A c \in held : c \in Seq(Block) /\ Len(c) \in 1 .. MaxHeight /\ Valid(c)

\* What a node has, in memory and on disk, was held.
Located ==
    \A n \in Node : chain[n] \in held \cup {<< >>} /\ disk[n] \in held \cup {<< >>}

\* A node knows its own key; one that is not running has nothing in memory.
OwnKeys ==
    \A n \in Node : n \in keys[n] /\ (status[n] # "up" => chain[n] = << >> /\ keys[n] = {n})

IInv == TypeOK /\ HeldValid /\ Located /\ OwnKeys /\ ChainsValid

\* e is put together from blocks of chains that were held.
MadeOf(e) == \A i \in 1 .. Len(e) : \E c \in held : i \in 1 .. Len(c) /\ e[i] = c[i]

\* e is the chain of n with a block of its own.
Proposes(n, e) ==
    /\ Len(e) = Len(chain[n]) + 1 /\ e[Len(e)].validator_id = n
    /\ \A i \in 1 .. Len(chain[n]) : e[i] = chain[n][i]

\* n takes chain e: what proposing, gossip and answers have in common.
Takes(n, e) ==
    /\ status[n] = "up"
    /\ e \in Seq(Block) /\ Len(e) \in 1 .. MaxHeight
    /\ validate_chain_with_genesis_stakes(e, keys[n])
    /\ outscores(e, chain[n])
    /\ MadeOf(e) \/ Proposes(n, e)
    /\ chain' = [chain EXCEPT ![n] = e]
    /\ held' = held \cup {e}
    /\ validators' \in [Node -> Stakes] /\ overwritten' \in [Node -> SUBSET Node]
    /\ UNCHANGED <<status, keys, disk, base, crashes, lost>>

\* What the invariant says of the chain of one node.
LEMMA ChainOf ==
    ASSUME IInv, NEW n \in Node
    PROVE  /\ chain[n] \in Seq(Block) /\ Len(chain[n]) \in 0 .. MaxHeight
           /\ keys[n] \in SUBSET Node /\ n \in keys[n]
           /\ validate_chain_with_genesis_stakes(chain[n], keys[n]) /\ Valid(chain[n])
           /\ \A i \in 1 .. Len(chain[n]) : \E c \in held : i \in 1 .. Len(c) /\ chain[n][i] = c[i]
<1>1. chain[n] \in Seq(Block) /\ keys[n] \in SUBSET Node /\ n \in keys[n]
    BY DEF IInv, TypeOK, OwnKeys
<1>2. verify_chain_integrity(chain[n], keys[n])
    BY DEF IInv, ChainsValid
<1>3. validate_chain_with_genesis_stakes(chain[n], keys[n])
    BY <1>1, <1>2, IntegrityIsValidity
<1>4. Valid(chain[n])
    BY <1>1, <1>3, ValidUnder
<1>5. chain[n] \in held \/ chain[n] = << >>
    BY DEF IInv, Located
<1>6. Len(chain[n]) \in 0 .. MaxHeight
    <2>1. CASE chain[n] \in held
        BY <2>1 DEF IInv, HeldValid
    <2>2. CASE chain[n] = << >>
        BY <2>2, StakeSettings
    <2> QED BY <1>5, <2>1, <2>2
<1>7. \A i \in 1 .. Len(chain[n]) : \E c \in held : i \in 1 .. Len(c) /\ chain[n][i] = c[i]
    <2>1. CASE chain[n] \in held
        BY <2>1
    <2>2. CASE chain[n] = << >>
        BY <2>2
    <2> QED BY <1>5, <2>1, <2>2
<1> QED BY <1>1, <1>3, <1>4, <1>6, <1>7

\* A valid chain of blocks that were held has each of them where it was.
LEMMA SamePlace ==
    ASSUME IInv, NEW e \in Seq(Block), Valid(e),
           \A i \in 1 .. Len(e) : \E c \in held : \E j \in 1 .. Len(c) : e[i] = c[j]
    PROVE  MadeOf(e) /\ Len(e) <= MaxHeight
<1>1. MadeOf(e)
    <2> SUFFICES ASSUME NEW i \in 1 .. Len(e)
                 PROVE  \E c \in held : i \in 1 .. Len(c) /\ e[i] = c[i]
        BY DEF MadeOf
    <2>1. PICK c \in held : \E j \in 1 .. Len(c) : e[i] = c[j]
        OBVIOUS
    <2>2. PICK j \in 1 .. Len(c) : e[i] = c[j]
        BY <2>1
    <2>3. c \in Seq(Block) /\ Valid(c)
        BY DEF IInv, HeldValid
    <2>4. e[i].slot = i /\ c[j].slot = j
        BY <2>3, Numbered
    <2> QED BY <2>2, <2>4
<1>2. Len(e) <= MaxHeight
    <2>1. CASE Len(e) = 0
        BY <2>1, StakeSettings
    <2>2. CASE Len(e) # 0
        <3>1. Len(e) \in 1 .. Len(e)
            BY <2>2
        <3>2. PICK c \in held : Len(e) \in 1 .. Len(c)
            BY <1>1, <3>1 DEF MadeOf
        <3>3. c \in Seq(Block) /\ Len(c) \in 1 .. MaxHeight
            BY DEF IInv, HeldValid
        <3> QED BY <3>2, <3>3, StakeSettings
    <2> QED BY <2>1, <2>2
<1> QED BY <1>1, <1>2

\* A block that fits and is appended.
LEMMA AppendTakes ==
    ASSUME IInv, NEW n \in Node, status[n] = "up", NEW block \in Block, Len(chain[n]) < MaxHeight,
           add_block(block, keys[n], chain[n]), append(n, block),
           \/ block.validator_id = n
           \/ \E c \in held : Len(chain[n]) + 1 = Len(c) /\ block = c[Len(c)]
    PROVE  Takes(n, Append(chain[n], block))
<1> DEFINE e == Append(chain[n], block)
           m == Len(chain[n])
<1>1. /\ chain[n] \in Seq(Block) /\ validate_chain_with_genesis_stakes(chain[n], keys[n])
      /\ \A i \in 1 .. m : \E c \in held : i \in 1 .. Len(c) /\ chain[n][i] = c[i]
    BY ChainOf
<1>2. m \in Nat /\ m < MaxHeight /\ MaxHeight \in Nat
    BY <1>1, StakeSettings
<1>3. /\ e \in Seq(Block) /\ Len(e) = m + 1 /\ e[m + 1] = block
      /\ \A i \in 1 .. m : e[i] = chain[n][i]
    BY <1>1
<1>4. validate_chain_with_genesis_stakes(e, keys[n])
    BY <1>1, AppendValid
<1> HIDE DEF e
<1>5. outscores(e, chain[n])
    BY <1>2, <1>3, LongerWins
<1>6. MadeOf(e) \/ Proposes(n, e)
    <2>1. CASE block.validator_id = n
        BY <1>3, <2>1 DEF Proposes
    <2>2. CASE \E c \in held : m + 1 = Len(c) /\ block = c[Len(c)]
        <3> SUFFICES ASSUME NEW i \in 1 .. m + 1
                     PROVE  \E c \in held : i \in 1 .. Len(c) /\ e[i] = c[i]
            BY <1>3 DEF MadeOf
        <3>1. CASE i = m + 1
            BY <1>2, <1>3, <2>2, <3>1
        <3>2. CASE i \in 1 .. m
            BY <1>1, <1>3, <3>2
        <3> QED BY <3>1, <3>2
    <2> QED BY <2>1, <2>2
<1>7. validators' \in [Node -> Stakes] /\ overwritten' \in [Node -> SUBSET Node]
    <2>1. validators \in [Node -> Stakes] /\ overwritten \in [Node -> SUBSET Node]
        BY DEF IInv, TypeOK, Stakes
    <2>2. apply_block_reward(validators[n], block) \in Stakes
        BY <2>1, Reward
    <2> QED BY <2>1, <2>2 DEF append
<1>8. chain' = [chain EXCEPT ![n] = e] /\ chain \in [Node -> Seq(Block)]
    BY DEF append, e, IInv, TypeOK
<1>9. held' = held \cup {e}
    BY <1>8 DEF append
<1>10. UNCHANGED <<status, keys, disk, base, crashes, lost>>
    BY DEF append
<1>11. Len(e) \in 1 .. MaxHeight
    BY <1>2, <1>3
<1>12. Takes(n, e)
    BY <1>3, <1>4, <1>5, <1>6, <1>7, <1>8, <1>9, <1>10, <1>11 DEF Takes
<1> QED BY <1>12 DEF e

LEMMA ProposalTakes ==
    ASSUME IInv, NEW n \in Node, NEW draft \in Drafts, add_new_block(n, draft[1], draft[2])
    PROVE  Takes(n, chain'[n])
<1> DEFINE b == prepare_block(n, chain[n], draft[1], draft[2])
<1>1. draft[1] \in Bodies /\ draft[2] \in Items
    BY NodeBounds
<1>2. /\ chain[n] \in Seq(Block) /\ keys[n] \in SUBSET Node /\ n \in keys[n] /\ Valid(chain[n])
    BY ChainOf
<1>3. status[n] = "up" /\ Len(chain[n]) < MaxHeight /\ may_propose(n, chain[n]) /\ append(n, b)
    BY DEF add_new_block
<1>4. b \in Block /\ b.validator_id = n /\ add_block(b, keys[n], chain[n])
    BY <1>1, <1>2, <1>3, ProposedFits
<1> HIDE DEF b
<1>5. Takes(n, Append(chain[n], b))
    BY <1>3, <1>4, AppendTakes
<1>6. chain'[n] = Append(chain[n], b)
    BY <1>3 DEF append, IInv, TypeOK
<1> QED BY <1>5, <1>6

LEMMA GossipTakes ==
    ASSUME IInv, NEW n \in Node, NEW c \in held, on_new_block(n, tip(c))
    PROVE  Takes(n, chain'[n])
<1> DEFINE b == tip(c)
<1>1. c \in Seq(Block) /\ Len(c) \in 1 .. MaxHeight /\ Valid(c)
    BY DEF IInv, HeldValid
<1>2. Len(c) \in 1 .. Len(c) /\ b = c[Len(c)]
    BY <1>1 DEF tip
<1>3. b \in Block /\ b.slot = Len(c)
    BY <1>1, <1>2, Numbered
<1> HIDE DEF b
<1>4. status[n] = "up" /\ add_block(b, keys[n], chain[n]) /\ append(n, b)
    BY DEF on_new_block, b
<1>5. b.slot = Len(chain[n]) + 1
    BY <1>4 DEF add_block, validate_block
<1>6. Len(chain[n]) \in 0 .. MaxHeight
    BY ChainOf
<1>7. Len(chain[n]) < MaxHeight /\ Len(chain[n]) + 1 = Len(c)
    BY <1>1, <1>3, <1>5, <1>6, StakeSettings
<1>8. Takes(n, Append(chain[n], b))
    BY <1>2, <1>3, <1>4, <1>7, AppendTakes
<1>9. chain'[n] = Append(chain[n], b)
    BY <1>4 DEF append, IInv, TypeOK
<1> QED BY <1>8, <1>9

LEMMA AnswerTakes ==
    ASSUME IInv, NEW n \in Node, NEW c \in held, NEW h \in base[n] .. Len(chain[n]),
           NEW k \in (h + 1) .. Len(c), on_chain_response(n, SubSeq(c, h + 1, k))
    PROVE  Takes(n, chain'[n])
<1> DEFINE fragment == SubSeq(c, h + 1, k)
           e == resolve_fork(chain[n], fragment, keys[n])
<1>1. /\ chain[n] \in Seq(Block) /\ keys[n] \in SUBSET Node /\ Len(chain[n]) \in 0 .. MaxHeight
      /\ validate_chain_with_genesis_stakes(chain[n], keys[n])
      /\ \A i \in 1 .. Len(chain[n]) : \E d \in held : i \in 1 .. Len(d) /\ chain[n][i] = d[i]
    BY ChainOf
<1>2. c \in Seq(Block) /\ Len(c) \in Nat
    BY DEF IInv, HeldValid
<1>3. base[n] \in Nat /\ h \in Nat /\ k \in Nat /\ h + 1 <= k /\ k <= Len(c)
    <2>1. base[n] \in 0 .. MaxHeight /\ MaxHeight \in Nat
        BY StakeSettings DEF IInv, TypeOK
    <2>2. base[n] \in Nat /\ Len(chain[n]) \in Nat
        BY <1>1, <2>1
    <2>3. h \in Nat
        BY <2>2
    <2> QED BY <1>2, <2>2, <2>3
<1>4. /\ fragment \in Seq(Block) /\ Len(fragment) = k - h
      /\ \A i \in 1 .. k - h : h + i \in 1 .. Len(c) /\ fragment[i] = c[h + i]
    <2>1. h + 1 \in 1 .. Len(c) + 1 /\ k \in h + 1 - 1 .. Len(c)
        BY <1>2, <1>3
    <2>2. \A i \in h + 1 .. k : c[i] \in Block
        BY <1>2, <1>3
    <2>3. /\ SubSeq(c, h + 1, k) \in Seq(Block)
          /\ Len(SubSeq(c, h + 1, k)) = k - h
          /\ \A i \in 1 .. k - h : SubSeq(c, h + 1, k)[i] = c[h + i]
        BY <1>2, <1>3, <2>1, <2>2
    <2>4. \A i \in 1 .. k - h : h + i \in 1 .. Len(c)
        BY <1>2, <1>3
    <2> QED BY <2>3, <2>4
<1>5. status[n] = "up" /\ e # chain[n]
    BY DEF on_chain_response
<1> HIDE DEF fragment
<1>6. fragment # << >>
    BY <1>3, <1>4
<1>7. /\ e = fragment \/ e = chain[n] \o fragment
      /\ validate_chain_with_genesis_stakes(e, keys[n])
      /\ outscores(e, chain[n])
    BY <1>1, <1>4, <1>5, <1>6, ForkChoice
<1>8. /\ chain' = [chain EXCEPT ![n] = e]
      /\ validators' = [validators EXCEPT ![n] = compute_validators_from_chain(e)]
      /\ overwritten' = [overwritten EXCEPT ![n] = {}]
      /\ held' = held \cup {e}
      /\ UNCHANGED <<status, keys, disk, base, crashes, lost>>
    BY DEF on_chain_response, fragment
<1> HIDE DEF e
<1>9. e \in Seq(Block) /\ Len(e) > 0
    <2>1. Len(fragment) > 0
        BY <1>3, <1>4
    <2>2. CASE e = fragment
        BY <1>4, <2>1, <2>2
    <2>3. CASE e = chain[n] \o fragment
        <3> DEFINE l == chain[n]
        <3>1. l \in Seq(Block) /\ fragment \in Seq(Block)
            BY <1>1, <1>4
        <3> HIDE DEF l
        <3>2. l \o fragment \in Seq(Block) /\ Len(l \o fragment) = Len(l) + Len(fragment)
            BY <3>1
        <3>3. Len(l) \in Nat /\ Len(fragment) \in Nat
            BY <3>1
        <3>4. e = l \o fragment
            BY <2>3 DEF l
        <3> QED BY <2>1, <3>2, <3>3, <3>4
    <2> QED BY <1>7, <2>2, <2>3
<1>10. ASSUME NEW i \in 1 .. Len(e) PROVE \E d \in held : \E j \in 1 .. Len(d) : e[i] = d[j]
    <2>1. CASE e = fragment
        BY <1>4, <2>1
    <2>2. CASE e = chain[n] \o fragment
        <3>1. CASE i <= Len(chain[n])
            BY <1>1, <1>4, <2>2, <3>1
        <3>2. CASE i > Len(chain[n])
            <4>1. e[i] = fragment[i - Len(chain[n])] /\ i - Len(chain[n]) \in 1 .. Len(fragment)
                BY <1>1, <1>4, <2>2, <3>2
            <4> QED BY <1>4, <4>1
        <3> QED BY <1>1, <3>1, <3>2
    <2> QED BY <1>7, <2>1, <2>2
<1>11. Valid(e)
    BY <1>1, <1>7, <1>9, ValidUnder
<1>12. MadeOf(e) /\ Len(e) \in 1 .. MaxHeight
    <2>1. MadeOf(e) /\ Len(e) <= MaxHeight
        BY <1>9, <1>10, <1>11, SamePlace
    <2> QED BY <1>9, <2>1, StakeSettings
<1>13. compute_validators_from_chain(e) \in Stakes
    BY <1>9, ReplayType
<1>14. validators' \in [Node -> Stakes] /\ overwritten' \in [Node -> SUBSET Node]
    <2>1. validators \in [Node -> Stakes] /\ overwritten \in [Node -> SUBSET Node]
        BY DEF IInv, TypeOK, Stakes
    <2> QED BY <1>8, <1>13, <2>1
<1>15. Takes(n, e)
    BY <1>5, <1>7, <1>8, <1>9, <1>12, <1>14 DEF Takes
<1>16. chain'[n] = e
    BY <1>8 DEF IInv, TypeOK
<1> QED BY <1>15, <1>16

LEMMA InitIInv == Init => IInv
<1> SUFFICES ASSUME Init PROVE IInv
    OBVIOUS
<1> USE DEF Init
<1>1. \A n \in Node : registered_stakes(n) \in [Node -> Nat]
    BY StakeSettings DEF registered_stakes
<1>2. << >> \in Seq(Block) /\ 0 \in 0 .. MaxHeight /\ 0 \in 0 .. MaxCrashes
    BY StakeSettings, NodeBounds
<1>3. TypeOK
    BY <1>1, <1>2 DEF TypeOK, constructor_keys
<1>4. HeldValid /\ Located /\ OwnKeys
    BY DEF HeldValid, Located, OwnKeys, constructor_keys
<1>5. ASSUME NEW n \in Node PROVE verify_chain_integrity(chain[n], keys[n])
    BY <1>2, EmptyValid, IntegrityIsValidity
<1> QED BY <1>3, <1>4, <1>5 DEF IInv, ChainsValid

\* A node that takes a chain.
LEMMA TakesIInv ==
    ASSUME IInv, NEW n \in Node, NEW e, Takes(n, e)
    PROVE  IInv'
<1> USE DEF Takes
<1>1. chain \in [Node -> Seq(Block)] /\ keys \in [Node -> SUBSET Node] /\ keys[n] \in SUBSET Node
    BY DEF IInv, TypeOK
<1>2. TypeOK'
    BY DEF IInv, TypeOK, Stakes
<1>3. HeldValid'
    <2>1. Valid(e)
        BY <1>1, ValidUnder
    <2> QED BY <2>1 DEF IInv, HeldValid
<1>4. Located'
    BY <1>1 DEF IInv, Located
<1>5. OwnKeys'
    BY <1>1 DEF IInv, OwnKeys
<1>6. ChainsValid'
    <2>1. verify_chain_integrity(e, keys[n])
        BY <1>1, IntegrityIsValidity
    <2> QED BY <1>1, <2>1 DEF IInv, ChainsValid
<1> QED BY <1>2, <1>3, <1>4, <1>5, <1>6 DEF IInv

LEMMA RegisterIInv ==
    ASSUME IInv, NEW n \in Node, NEW v \in Node, register_validator(n, v)
    PROVE  IInv'
<1> USE DEF register_validator
<1>1. /\ chain \in [Node -> Seq(Block)] /\ keys \in [Node -> SUBSET Node]
      /\ genesis_stakes[v] \in Nat
    BY StakeSettings DEF IInv, TypeOK
<1>2. keys' \in [Node -> SUBSET Node] /\ overwritten' \in [Node -> SUBSET Node]
    BY DEF IInv, TypeOK
<1>3. validators' \in [Node -> [Node -> Nat]]
    <2>1. validators \in [Node -> [Node -> Nat]]
        BY DEF IInv, TypeOK
    <2>2. [validators[n] EXCEPT ![v] = genesis_stakes[v]] \in [Node -> Nat]
        BY <1>1, <2>1
    <2> QED BY <2>1, <2>2
<1>4. TypeOK'
    BY <1>2, <1>3 DEF IInv, TypeOK
<1>5. HeldValid' /\ Located' /\ OwnKeys'
    BY <1>1 DEF IInv, HeldValid, Located, OwnKeys
<1>6. ASSUME NEW m \in Node PROVE verify_chain_integrity(chain'[m], keys'[m])
    <2>1. chain'[m] = chain[m] /\ keys[m] \subseteq keys'[m] /\ keys'[m] \in SUBSET Node
        BY <1>1, <1>2
    <2>2. /\ chain[m] \in Seq(Block) /\ keys[m] \in SUBSET Node
          /\ validate_chain_with_genesis_stakes(chain[m], keys[m])
        BY ChainOf
    <2>3. Valid(chain[m]) /\ \A i \in 1 .. Len(chain[m]) : chain[m][i].validator_id \in keys'[m]
        BY <2>1, <2>2, ValidUnder
    <2>4. validate_chain_with_genesis_stakes(chain[m], keys'[m])
        BY <2>1, <2>2, <2>3, ValidUnder
    <2> QED BY <2>1, <2>2, <2>4, IntegrityIsValidity
<1> QED BY <1>4, <1>5, <1>6 DEF IInv, ChainsValid

LEMMA PersistIInv ==
    ASSUME IInv, NEW n \in Node, persist_state(n)
    PROVE  IInv'
<1> USE DEF persist_state
<1>1. TypeOK'
    BY DEF IInv, TypeOK
<1>2. disk \in [Node -> Seq(Block)]
    BY DEF IInv, TypeOK
<1>3. HeldValid' /\ Located' /\ OwnKeys' /\ ChainsValid'
    BY <1>2 DEF IInv, HeldValid, Located, OwnKeys, ChainsValid
<1> QED BY <1>1, <1>3 DEF IInv

\* The process is gone; what is on disk is what was, or what was in memory.
LEMMA ForgetIInv ==
    ASSUME IInv, NEW n \in Node, forget(n), crashes' \in 0 .. MaxCrashes, lost' \subseteq Node,
           disk' = disk \/ disk' = [disk EXCEPT ![n] = chain[n]]
    PROVE  IInv'
<1> USE DEF forget
<1>1. /\ chain \in [Node -> Seq(Block)] /\ keys \in [Node -> SUBSET Node]
      /\ disk \in [Node -> Seq(Block)] /\ status \in [Node -> {"up", "down", "refused"}]
    BY DEF IInv, TypeOK
<1>2. registered_stakes(n) \in [Node -> Nat] /\ << >> \in Seq(Block) /\ 0 \in 0 .. MaxHeight
    BY StakeSettings DEF registered_stakes
<1>3. /\ status' \in [Node -> {"up", "down", "refused"}]
      /\ chain' \in [Node -> Seq(Block)] /\ disk' \in [Node -> Seq(Block)]
      /\ keys' \in [Node -> SUBSET Node]
    <2>1. status' \in [Node -> {"up", "down", "refused"}]
        BY <1>1
    <2>2. chain' \in [Node -> Seq(Block)]
        BY <1>1, <1>2
    <2>3. disk' \in [Node -> Seq(Block)]
        BY <1>1
    <2>4. constructor_keys(n) \in SUBSET Node
        BY DEF constructor_keys
    <2>5. keys' \in [Node -> SUBSET Node]
        BY <1>1, <2>4
    <2> QED BY <2>1, <2>2, <2>3, <2>5
<1>4. /\ validators' \in [Node -> [Node -> Nat]] /\ overwritten' \in [Node -> SUBSET Node]
      /\ base' \in [Node -> 0 .. MaxHeight]
    BY <1>2 DEF IInv, TypeOK
<1>5. TypeOK'
    BY <1>3, <1>4 DEF IInv, TypeOK
<1>6. HeldValid' /\ Located'
    BY <1>1 DEF IInv, HeldValid, Located
<1>7. OwnKeys'
    BY <1>1 DEF IInv, OwnKeys, constructor_keys
<1>8. ChainsValid'
    <2>1. verify_chain_integrity(<< >>, constructor_keys(n))
        BY <1>2, EmptyValid, IntegrityIsValidity
    <2> QED BY <1>1, <2>1 DEF IInv, ChainsValid
<1> QED BY <1>5, <1>6, <1>7, <1>8 DEF IInv

LEMMA StopIInv ==
    ASSUME IInv, NEW n \in Node, stop(n)
    PROVE  IInv'
<1>1. crashes' \in 0 .. MaxCrashes /\ lost' \subseteq Node
    BY DEF IInv, TypeOK, stop
<1> QED BY <1>1, ForgetIInv DEF stop

LEMMA CrashIInv ==
    ASSUME IInv, NEW n \in Node, crash(n)
    PROVE  IInv'
<1>1. crashes' \in 0 .. MaxCrashes
    BY NodeBounds DEF IInv, TypeOK, crash
<1>2. lost' \subseteq Node
    BY DEF IInv, TypeOK, crash
<1> QED BY <1>1, <1>2, ForgetIInv DEF crash

LEMMA RestartIInv ==
    ASSUME IInv, NEW n \in Node, restart(n)
    PROVE  IInv'
<1> USE DEF restart
<1>1. /\ chain \in [Node -> Seq(Block)] /\ disk \in [Node -> Seq(Block)] /\ disk[n] \in Seq(Block)
      /\ status \in [Node -> {"up", "down", "refused"}] /\ keys \in [Node -> SUBSET Node]
    BY DEF IInv, TypeOK
<1>2. Len(disk[n]) \in 0 .. MaxHeight
    <2>1. CASE disk[n] \in held
        BY <2>1, StakeSettings DEF IInv, HeldValid
    <2>2. CASE disk[n] = << >>
        BY <2>2, StakeSettings
    <2> QED BY <2>1, <2>2 DEF IInv, Located
<1>3. registered_stakes(n) \in [Node -> Nat] /\ compute_validators_from_chain(disk[n]) \in [Node -> Nat]
    BY <1>1, StakeSettings, ReplayType DEF registered_stakes, Stakes
<1>4. validators' \in [Node -> [Node -> Nat]] /\ base' \in [Node -> 0 .. MaxHeight]
    BY <1>2, <1>3 DEF IInv, TypeOK
<1>5. chain' \in [Node -> Seq(Block)] /\ status' \in [Node -> {"up", "down", "refused"}]
    BY <1>1
<1>6. TypeOK'
    BY <1>4, <1>5 DEF IInv, TypeOK
<1>7. HeldValid' /\ Located'
    BY <1>1 DEF IInv, HeldValid, Located
<1>8. OwnKeys'
    BY <1>1 DEF IInv, OwnKeys
<1>9. ChainsValid'
    <2>1. keys[n] = {n}
        BY DEF IInv, OwnKeys
    <2>2. verify_chain_integrity(disk[n], keys[n])
        BY <2>1 DEF restorable, constructor_keys
    <2> QED BY <1>1, <2>2 DEF IInv, ChainsValid
<1> QED BY <1>6, <1>7, <1>8, <1>9 DEF IInv

LEMMA RefusedIInv ==
    ASSUME IInv, NEW n \in Node, restart_refused(n)
    PROVE  IInv'
<1> USE DEF restart_refused
<1>1. status \in [Node -> {"up", "down", "refused"}]
    BY DEF IInv, TypeOK
<1>2. TypeOK'
    BY DEF IInv, TypeOK
<1>3. HeldValid' /\ Located' /\ ChainsValid'
    BY DEF IInv, HeldValid, Located, ChainsValid
<1>4. OwnKeys'
    BY <1>1 DEF IInv, OwnKeys
<1> QED BY <1>2, <1>3, <1>4 DEF IInv

\* A step is a node that takes a chain, or one of the rest.
LEMMA StepKinds ==
    ASSUME IInv, Next
    PROVE  \E n \in Node :
               \/ Takes(n, chain'[n])
               \/ \E v \in Node : register_validator(n, v)
               \/ persist_state(n) \/ stop(n) \/ crash(n) \/ restart(n) \/ restart_refused(n)
<1>1. PICK n \in Node :
          \/ \E draft \in Drafts : add_new_block(n, draft[1], draft[2])
          \/ \E c \in held : on_new_block(n, tip(c))
          \/ \E c \in held, h \in base[n] .. Len(chain[n]) :
                \E k \in (h + 1) .. Len(c) : on_chain_response(n, SubSeq(c, h + 1, k))
          \/ \E v \in Node : register_validator(n, v)
          \/ persist_state(n) \/ stop(n) \/ crash(n) \/ restart(n) \/ restart_refused(n)
    BY DEF Next
<1>2. CASE \E draft \in Drafts : add_new_block(n, draft[1], draft[2])
    BY <1>2, ProposalTakes
<1>3. CASE \E c \in held : on_new_block(n, tip(c))
    BY <1>3, GossipTakes
<1>4. CASE \E c \in held, h \in base[n] .. Len(chain[n]) :
              \E k \in (h + 1) .. Len(c) : on_chain_response(n, SubSeq(c, h + 1, k))
    BY <1>4, AnswerTakes
<1> QED BY <1>1, <1>2, <1>3, <1>4

LEMMA NextIInv == IInv /\ [Next]_vars => IInv'
<1> SUFFICES ASSUME IInv, [Next]_vars PROVE IInv'
    OBVIOUS
<1>1. CASE Next
    BY <1>1, StepKinds, TakesIInv, RegisterIInv, PersistIInv, StopIInv, CrashIInv, RestartIInv,
       RefusedIInv
<1>2. CASE UNCHANGED vars
    BY <1>2 DEF vars, IInv, TypeOK, HeldValid, Located, OwnKeys, ChainsValid
<1> QED BY <1>1, <1>2

\* The invariant holds throughout.
LEMMA InvariantHolds == Spec => []IInv
<1> QED BY InitIInv, NextIInv, PTL DEF Spec

-----------------------------------------------------------------------------
(* Types and validity *)

\* Every variable keeps its type; chains stay within the height of the
\* proposals, whatever gossip and answers a node puts together.
THEOREM TypeCorrect == Spec => []TypeOK
<1>1. IInv => TypeOK
    BY DEF IInv
<1> QED BY <1>1, InvariantHolds, PTL

\* The chain of a node is one verify_chain accepts under the keys it knows.
THEOREM ChainsAlwaysValid == Spec => []ChainsValid
<1>1. IInv => ChainsValid
    BY DEF IInv
<1> QED BY <1>1, InvariantHolds, PTL

\* A running node gives up its chain only for one that outscores it.
THEOREM StakeScoreAlwaysGrows == Spec => StakeScoreGrows
<1> DEFINE Grows == \A n \in Node : status'[n] = "up" /\ status[n] = "up" /\ chain'[n] # chain[n]
                                         => outscores(chain'[n], chain[n])
<1>1. ASSUME IInv, Next PROVE Grows
    <2> SUFFICES ASSUME NEW m \in Node, status'[m] = "up", status[m] = "up", chain'[m] # chain[m]
                 PROVE  outscores(chain'[m], chain[m])
        OBVIOUS
    <2>1. chain \in [Node -> Seq(Block)] /\ status \in [Node -> {"up", "down", "refused"}]
        BY <1>1 DEF IInv, TypeOK
    <2>2. PICK n \in Node :
              \/ Takes(n, chain'[n])
              \/ \E v \in Node : register_validator(n, v)
              \/ persist_state(n) \/ stop(n) \/ crash(n) \/ restart(n) \/ restart_refused(n)
        BY <1>1, StepKinds
    <2>3. CASE Takes(n, chain'[n])
        BY <2>1, <2>3 DEF Takes
    <2>4. CASE (\E v \in Node : register_validator(n, v)) \/ persist_state(n) \/ restart_refused(n)
        BY <2>4 DEF register_validator, persist_state, restart_refused
    <2>5. CASE stop(n) \/ crash(n)
        BY <2>1, <2>5 DEF stop, crash, forget
    <2>6. CASE restart(n)
        BY <2>1, <2>6 DEF restart
    <2> QED BY <2>2, <2>3, <2>4, <2>5, <2>6
<1>2. IInv /\ [Next]_vars => [Grows]_vars
    BY <1>1
<1> QED BY <1>2, InvariantHolds, PTL DEF Spec, StakeScoreGrows

\* A node is refused its own files only for a block of another validator,
\* whose key a constructor cannot know.
THEOREM OnlyOthersRefuse == Spec => []RefusedForOthersOnly
<1>1. Init => RefusedForOthersOnly
    BY DEF Init, RefusedForOthersOnly
<1>2. ASSUME IInv, RefusedForOthersOnly, [Next]_vars PROVE RefusedForOthersOnly'
    <2>1. CASE UNCHANGED vars
        BY <1>2, <2>1 DEF vars, RefusedForOthersOnly
    <2>2. CASE Next
        <3> SUFFICES ASSUME NEW m \in Node, status'[m] = "refused"
                     PROVE  \E i \in 1 .. Len(disk'[m]) : disk'[m][i].validator_id # m
            BY DEF RefusedForOthersOnly
        <3>1. disk \in [Node -> Seq(Block)] /\ status \in [Node -> {"up", "down", "refused"}]
            BY <1>2 DEF IInv, TypeOK
        <3>2. PICK n \in Node :
                  \/ Takes(n, chain'[n])
                  \/ \E v \in Node : register_validator(n, v)
                  \/ persist_state(n) \/ stop(n) \/ crash(n) \/ restart(n) \/ restart_refused(n)
            BY <1>2, <2>2, StepKinds
        <3>3. CASE Takes(n, chain'[n]) \/ \E v \in Node : register_validator(n, v)
            BY <1>2, <3>3 DEF Takes, register_validator, RefusedForOthersOnly
        <3>4. CASE persist_state(n)
            BY <1>2, <3>1, <3>4 DEF persist_state, RefusedForOthersOnly
        <3>5. CASE stop(n) \/ crash(n)
            BY <1>2, <3>1, <3>5 DEF stop, crash, forget, RefusedForOthersOnly
        <3>6. CASE restart(n)
            BY <1>2, <3>1, <3>6 DEF restart, RefusedForOthersOnly
        <3>7. CASE restart_refused(n) /\ m # n
            BY <1>2, <3>1, <3>7 DEF restart_refused, RefusedForOthersOnly
        <3>8. CASE restart_refused(n) /\ m = n
            <4>1. disk' = disk /\ ~ verify_chain_integrity(disk[n], {n})
                BY <3>8 DEF restart_refused, restorable, constructor_keys
            <4>2. disk[n] \in Seq(Block) /\ {n} \in SUBSET Node
                BY <3>1
            <4>3. Valid(disk[n])
                <5>1. disk[n] \in held \/ disk[n] = << >>
                    BY <1>2 DEF IInv, Located
                <5> QED BY <1>2, <5>1, EmptyValid DEF IInv, HeldValid, Valid
            <4>4. ~ validate_chain_with_genesis_stakes(disk[n], {n})
                BY <4>1, <4>2, IntegrityIsValidity
            <4>5. \E i \in 1 .. Len(disk[n]) : disk[n][i].validator_id \notin {n}
                BY <4>2, <4>3, <4>4, ValidUnder
            <4> QED BY <3>8, <4>1, <4>5
        <3> QED BY <3>2, <3>3, <3>4, <3>5, <3>6, <3>7, <3>8
    <2> QED BY <1>2, <2>1, <2>2
<1> QED BY <1>1, <1>2, InvariantHolds, PTL DEF Spec

-----------------------------------------------------------------------------
(* The runtime stakes *)

LEMMA AppendReplayed ==
    ASSUME IInv, StakesReplayed, NEW n \in Node, NEW block, append(n, block), Takes(n, chain'[n])
    PROVE  StakesReplayed'
<1>1. /\ chain \in [Node -> Seq(Block)] /\ validators \in [Node -> Stakes]
      /\ chain[n] \in Seq(Block) /\ validators[n] \in Stakes
    BY DEF IInv, TypeOK, Stakes
<1>2. /\ chain'[n] = Append(chain[n], block)
      /\ validators'[n] = apply_block_reward(validators[n], block)
      /\ status' = status /\ overwritten' = overwritten
      /\ \A m \in Node : m # n => chain'[m] = chain[m] /\ validators'[m] = validators[m]
    BY <1>1 DEF append
<1>3. block \in Block
    <2> DEFINE c == chain[n]
               S == Block \cup {block}
    <2>1. c \in Seq(S) /\ block \in S
        BY <1>1, SeqMonotone
    <2> HIDE DEF S, c
    <2>2. /\ Append(c, block) \in Seq(S) /\ Len(Append(c, block)) = Len(c) + 1
          /\ Append(c, block)[Len(c) + 1] = block /\ Len(c) \in Nat
        BY <2>1
    <2> DEFINE e == Append(c, block)
    <2> HIDE DEF e
    <2>3. e \in Seq(Block) /\ Len(c) + 1 \in 1 .. Len(e) /\ e[Len(c) + 1] = block
        BY <1>2, <2>2 DEF Takes, e, c
    <2> QED BY <2>3
<1> SUFFICES ASSUME NEW m \in Node, status'[m] = "up", NEW v \in Node \ overwritten'[m],
                    genesis_stakes[v] > 0
             PROVE  validators'[m][v] = compute_validators_from_chain(chain'[m])[v]
    BY DEF StakesReplayed
<1>4. validators[m][v] = compute_validators_from_chain(chain[m])[v]
    BY <1>2 DEF StakesReplayed
<1>5. CASE m # n
    BY <1>2, <1>4, <1>5
<1>6. CASE m = n
    <2> DEFINE s == compute_validators_from_chain(chain[n])
    <2>1. s \in Stakes /\ validators[n][v] = s[v]
        BY <1>1, <1>4, <1>6, ReplayType
    <2>2. compute_validators_from_chain(chain'[n]) = apply_block_reward(s, block)
        BY <1>1, <1>2, <1>3, ReplayAppend
    <2> HIDE DEF s
    <2>3. apply_block_reward(validators[n], block)[v] = apply_block_reward(s, block)[v]
        <3> DEFINE r == validators[n]
        <3>1. r \in Stakes /\ r[v] = s[v]
            BY <1>1, <2>1
        <3> HIDE DEF r
        <3>2. apply_block_reward(r, block)[v]
                  = IF v = block.validator_id /\ r[v] > 0 THEN r[v] + block_reward ELSE r[v]
            BY <1>3, <3>1, Reward
        <3>3. apply_block_reward(s, block)[v]
                  = IF v = block.validator_id /\ s[v] > 0 THEN s[v] + block_reward ELSE s[v]
            BY <1>3, <2>1, Reward
        <3>4. apply_block_reward(r, block)[v] = apply_block_reward(s, block)[v]
            BY <3>1, <3>2, <3>3
        <3> QED BY <3>4 DEF r
    <2> QED BY <1>2, <1>6, <2>2, <2>3
<1> QED BY <1>5, <1>6

\* Stakes that are set for the chain of one node.
LEMMA SetReplayed ==
    ASSUME IInv, StakesReplayed, NEW n \in Node,
           \A m \in Node \ {n} : /\ status'[m] = status[m] /\ chain'[m] = chain[m]
                                  /\ validators'[m] = validators[m]
                                  /\ overwritten'[m] = overwritten[m],
           status'[n] = "up" =>
               \A v \in Node : genesis_stakes[v] > 0 =>
                   validators'[n][v] = compute_validators_from_chain(chain'[n])[v]
    PROVE  StakesReplayed'
<1> SUFFICES ASSUME NEW m \in Node, status'[m] = "up", NEW v \in Node \ overwritten'[m],
                    genesis_stakes[v] > 0
             PROVE  validators'[m][v] = compute_validators_from_chain(chain'[m])[v]
    BY DEF StakesReplayed
<1>1. CASE m = n
    BY <1>1
<1>2. CASE m # n
    BY <1>2 DEF StakesReplayed
<1> QED BY <1>1, <1>2

\* The runtime stakes are those of the chain, except where they were overwritten:
\* adding rewards one by one, computing them anew and starting from a file agree.
THEOREM StakesAlwaysReplayed == Spec => []StakesReplayed
<1>1. ASSUME Init PROVE StakesReplayed
    <2>1. \A n \in Node : chain[n] = << >> /\ validators[n] = registered_stakes(n)
        BY <1>1 DEF Init
    <2>2. ASSUME NEW n \in Node, NEW v \in Node, genesis_stakes[v] > 0
          PROVE  registered_stakes(n)[v] = genesis_stakes[v]
        BY <2>2, StakeSettings DEF registered_stakes
    <2> QED BY <2>1, <2>2, ReplayEmpty DEF StakesReplayed
<1>2. ASSUME IInv, StakesReplayed, [Next]_vars PROVE StakesReplayed'
    <2>1. CASE UNCHANGED vars
        BY <1>2, <2>1 DEF vars, StakesReplayed
    <2>2. CASE Next
        <3>1. PICK n \in Node :
                  \/ \E draft \in Drafts : add_new_block(n, draft[1], draft[2])
                  \/ \E c \in held : on_new_block(n, tip(c))
                  \/ \E c \in held, h \in base[n] .. Len(chain[n]) :
                        \E k \in (h + 1) .. Len(c) : on_chain_response(n, SubSeq(c, h + 1, k))
                  \/ \E v \in Node : register_validator(n, v)
                  \/ persist_state(n) \/ stop(n) \/ crash(n) \/ restart(n) \/ restart_refused(n)
            BY <2>2 DEF Next
        <3>2. /\ chain \in [Node -> Seq(Block)] /\ disk \in [Node -> Seq(Block)]
              /\ status \in [Node -> {"up", "down", "refused"}]
              /\ validators \in [Node -> [Node -> Nat]] /\ overwritten \in [Node -> SUBSET Node]
            BY <1>2 DEF IInv, TypeOK
        <3>3. CASE \E draft \in Drafts : add_new_block(n, draft[1], draft[2])
            <4>1. PICK draft \in Drafts : add_new_block(n, draft[1], draft[2])
                BY <3>3
            <4>2. Takes(n, chain'[n])
                BY <1>2, <4>1, ProposalTakes
            <4>3. PICK block : append(n, block)
                BY <4>1 DEF add_new_block
            <4> QED BY <1>2, <4>2, <4>3, AppendReplayed
        <3>4. CASE \E c \in held : on_new_block(n, tip(c))
            <4>1. PICK c \in held : on_new_block(n, tip(c))
                BY <3>4
            <4>2. Takes(n, chain'[n])
                BY <1>2, <4>1, GossipTakes
            <4>3. append(n, tip(c))
                BY <4>1 DEF on_new_block
            <4> QED BY <1>2, <4>2, <4>3, AppendReplayed
        <3>5. CASE \E c \in held, h \in base[n] .. Len(chain[n]) :
                      \E k \in (h + 1) .. Len(c) : on_chain_response(n, SubSeq(c, h + 1, k))
            <4>1. PICK fragment : on_chain_response(n, fragment)
                BY <3>5
            <4>2. /\ validators'[n] = compute_validators_from_chain(chain'[n])
                  /\ \A m \in Node \ {n} : /\ status'[m] = status[m] /\ chain'[m] = chain[m]
                                            /\ validators'[m] = validators[m]
                                            /\ overwritten'[m] = overwritten[m]
                BY <3>2, <4>1 DEF on_chain_response
            <4> QED BY <1>2, <4>2, SetReplayed
        <3>6. CASE \E v \in Node : register_validator(n, v)
            <4>1. PICK w \in Node : register_validator(n, w)
                BY <3>6
            <4> SUFFICES ASSUME NEW m \in Node, status'[m] = "up", NEW v \in Node \ overwritten'[m],
                                genesis_stakes[v] > 0
                         PROVE  validators'[m][v] = compute_validators_from_chain(chain'[m])[v]
                BY DEF StakesReplayed
            <4>2. chain' = chain /\ status' = status
                BY <4>1 DEF register_validator
            <4>3. v \notin overwritten[m]
                BY <3>2, <4>1 DEF register_validator
            <4>4. validators[m][v] = compute_validators_from_chain(chain[m])[v]
                BY <1>2, <4>2, <4>3 DEF StakesReplayed
            <4>5. validators'[m][v] = validators[m][v]
                <5>1. CASE m = n /\ v = w
                    <6>1. validators[n][w] = genesis_stakes[w]
                        BY <3>2, <4>1, <5>1 DEF register_validator
                    <6> QED BY <3>2, <4>1, <5>1, <6>1 DEF register_validator
                <5>2. CASE ~ (m = n /\ v = w)
                    BY <3>2, <4>1, <5>2 DEF register_validator
                <5> QED BY <5>1, <5>2
            <4> QED BY <4>2, <4>4, <4>5
        <3>7. CASE persist_state(n)
            BY <1>2, <3>7 DEF persist_state, StakesReplayed
        <3>8. CASE stop(n) \/ crash(n)
            <4>1. /\ status'[n] = "down"
                  /\ \A m \in Node \ {n} : /\ status'[m] = status[m] /\ chain'[m] = chain[m]
                                            /\ validators'[m] = validators[m]
                                            /\ overwritten'[m] = overwritten[m]
                BY <3>2, <3>8 DEF stop, crash, forget
            <4> QED BY <1>2, <4>1, SetReplayed
        <3>9. CASE restart(n)
            <4>1. /\ chain'[n] = disk[n]
                  /\ validators'[n] = IF disk[n] = << >> THEN registered_stakes(n)
                                      ELSE compute_validators_from_chain(disk[n])
                  /\ \A m \in Node \ {n} : /\ status'[m] = status[m] /\ chain'[m] = chain[m]
                                            /\ validators'[m] = validators[m]
                                            /\ overwritten'[m] = overwritten[m]
                BY <3>2, <3>9 DEF restart
            <4>2. ASSUME NEW v \in Node, genesis_stakes[v] > 0
                  PROVE  validators'[n][v] = compute_validators_from_chain(chain'[n])[v]
                <5>1. CASE disk[n] = << >>
                    <6>1. registered_stakes(n)[v] = genesis_stakes[v]
                        BY <4>2 DEF registered_stakes
                    <6> QED BY <4>1, <5>1, <6>1, ReplayEmpty
                <5>2. CASE disk[n] # << >>
                    BY <4>1, <5>2
                <5> QED BY <5>1, <5>2
            <4> QED BY <1>2, <4>1, <4>2, SetReplayed
        <3>10. CASE restart_refused(n)
            <4>1. /\ status'[n] = "refused"
                  /\ \A m \in Node \ {n} : /\ status'[m] = status[m] /\ chain'[m] = chain[m]
                                            /\ validators'[m] = validators[m]
                                            /\ overwritten'[m] = overwritten[m]
                BY <3>2, <3>10 DEF restart_refused
            <4> QED BY <1>2, <4>1, SetReplayed
        <3> QED BY <3>1, <3>3, <3>4, <3>5, <3>6, <3>7, <3>8, <3>9, <3>10
    <2> QED BY <1>2, <2>1, <2>2
<1> QED BY <1>1, <1>2, InvariantHolds, PTL DEF Spec

-----------------------------------------------------------------------------
(* Forks *)

\* The copy of the chain that v has: in memory, or on disk while it is down.
Copy(v) == IF status[v] = "up" THEN chain[v] ELSE disk[v]

\* A validator that has lost no block of its own is never behind a chain that
\* holds one: it will not propose for that slot again.
Ahead ==
    \A c \in held : \A i \in 1 .. Len(c) :
        c[i].validator_id \notin lost => i <= Len(Copy(c[i].validator_id))

\* So there is one block at most for each of its slots.
OneBlock ==
    \A c, d \in held : \A i \in 1 .. Len(c) :
        i <= Len(d) /\ c[i].validator_id \notin lost => c[i] = d[i]

\* Where the blocks of a chain that is taken come from.
LEMMA TakenBlocks ==
    ASSUME IInv, NEW n \in Node, NEW e, Takes(n, e), NEW i \in 1 .. Len(e)
    PROVE  \/ \E c \in held : i \in 1 .. Len(c) /\ e[i] = c[i]
           \/ i = Len(chain[n]) + 1 /\ i = Len(e) /\ e[i].validator_id = n
<1>1. CASE MadeOf(e)
    BY <1>1 DEF MadeOf
<1>2. CASE Proposes(n, e)
    <2>1. Len(chain[n]) \in Nat
        BY ChainOf
    <2>2. CASE i = Len(e)
        BY <1>2, <2>2 DEF Proposes
    <2>3. CASE i # Len(e)
        <3>1. i \in 1 .. Len(chain[n]) /\ e[i] = chain[n][i]
            BY <1>2, <2>1, <2>3 DEF Proposes
        <3> QED BY <3>1, ChainOf
    <2> QED BY <2>2, <2>3
<1> QED BY <1>1, <1>2 DEF Takes

LEMMA TakesAhead ==
    ASSUME IInv, Ahead, NEW n \in Node, NEW e, Takes(n, e)
    PROVE  Ahead'
<1>1. /\ chain \in [Node -> Seq(Block)] /\ status \in [Node -> {"up", "down", "refused"}]
      /\ e \in Seq(Block) /\ held' = held \cup {e} /\ lost' = lost
    BY DEF IInv, TypeOK, Takes
<1>2. Copy(n) = chain[n] /\ Copy(n)' = e /\ \A m \in Node : m # n => Copy(m)' = Copy(m)
    BY <1>1 DEF Takes, Copy
<1>3. Len(e) >= Len(chain[n]) /\ Len(e) \in Nat /\ Len(chain[n]) \in Nat
    BY <1>1, WinnerNotShorter DEF Takes
<1>4. ASSUME NEW c \in held, NEW i \in 1 .. Len(c), c[i].validator_id \notin lost
      PROVE  i <= Len(Copy(c[i].validator_id)')
    <2>1. c[i].validator_id \in Node /\ i \in Nat
        BY BlockFields DEF IInv, HeldValid
    <2>2. i <= Len(Copy(c[i].validator_id))
        BY <1>4 DEF Ahead
    <2>3. CASE c[i].validator_id = n
        <3>1. i <= Len(chain[n])
            BY <1>2, <2>2, <2>3
        <3> QED BY <1>2, <1>3, <2>1, <2>3, <3>1
    <2>4. CASE c[i].validator_id # n
        BY <1>2, <2>1, <2>2, <2>4
    <2> QED BY <2>3, <2>4
<1>5. ASSUME NEW i \in 1 .. Len(e), e[i].validator_id \notin lost
      PROVE  i <= Len(Copy(e[i].validator_id)')
    <2>1. CASE \E c \in held : i \in 1 .. Len(c) /\ e[i] = c[i]
        BY <1>4, <1>5, <2>1
    <2>2. CASE e[i].validator_id = n
        BY <1>2, <1>3, <2>2
    <2> QED BY <2>1, <2>2, TakenBlocks
<1> QED BY <1>1, <1>4, <1>5 DEF Ahead

LEMMA NextAhead ==
    ASSUME IInv, Ahead, [Next]_vars
    PROVE  Ahead'
<1>1. CASE UNCHANGED vars
    BY <1>1 DEF vars, Ahead, Copy
<1>2. CASE Next
    <2>1. /\ chain \in [Node -> Seq(Block)] /\ disk \in [Node -> Seq(Block)]
          /\ status \in [Node -> {"up", "down", "refused"}]
        BY DEF IInv, TypeOK
    <2>2. ASSUME NEW c \in held, NEW i \in 1 .. Len(c)
          PROVE  c[i].validator_id \in Node /\ i \in Nat /\ c \in Seq(Block) /\ Valid(c)
        BY BlockFields DEF IInv, HeldValid
    <2>3. PICK n \in Node :
              \/ Takes(n, chain'[n])
              \/ \E v \in Node : register_validator(n, v)
              \/ persist_state(n) \/ stop(n) \/ crash(n) \/ restart(n) \/ restart_refused(n)
        BY <1>2, StepKinds
    <2>4. CASE Takes(n, chain'[n])
        BY <2>4, TakesAhead
    <2>5. CASE \/ \E v \in Node : register_validator(n, v)
               \/ persist_state(n) \/ stop(n) \/ restart(n) \/ restart_refused(n)
        <3>1. held' = held /\ lost' = lost
            BY <2>5 DEF register_validator, persist_state, stop, forget, restart, restart_refused
        <3>2. ASSUME NEW m \in Node PROVE Copy(m)' = Copy(m)
            <4>1. CASE (\E v \in Node : register_validator(n, v)) \/ persist_state(n)
                BY <2>1, <4>1 DEF Copy, register_validator, persist_state
            <4>2. CASE stop(n)
                BY <2>1, <4>2 DEF Copy, stop, forget
            <4>3. CASE restart(n)
                BY <2>1, <4>3 DEF Copy, restart
            <4>4. CASE restart_refused(n)
                BY <2>1, <4>4 DEF Copy, restart_refused
            <4> QED BY <2>5, <4>1, <4>2, <4>3, <4>4
        <3> QED BY <2>2, <3>1, <3>2 DEF Ahead
    <2>6. CASE crash(n)
        <3>1. /\ held' = held /\ disk' = disk /\ lost \subseteq lost'
              /\ Copy(n) = chain[n] /\ Copy(n)' = disk[n]
              /\ \A m \in Node : m # n => Copy(m)' = Copy(m)
            BY <2>1, <2>6 DEF crash, forget, Copy
        <3> SUFFICES ASSUME NEW c \in held, NEW i \in 1 .. Len(c), c[i].validator_id \notin lost'
                     PROVE  i <= Len(Copy(c[i].validator_id)')
            BY <3>1 DEF Ahead
        <3>2. i <= Len(Copy(c[i].validator_id))
            BY <3>1 DEF Ahead
        <3>3. CASE c[i].validator_id # n
            BY <2>2, <3>1, <3>2, <3>3
        <3>4. CASE c[i].validator_id = n
            <4>1. i <= Len(chain[n]) /\ i \in Nat /\ i >= 1 /\ Len(chain[n]) \in Nat
                BY <2>1, <2>2, <3>1, <3>2, <3>4
            <4>2. chain[n] \in Seq(Block) /\ Valid(chain[n]) /\ c \in Seq(Block) /\ Valid(c)
                BY <2>2, ChainOf
            <4>3. chain[n][i].validator_id = n
                BY <3>4, <4>1, <4>2, SameProposers
            <4>4. i \in 1 .. Len(chain[n])
                BY <4>1
            <4>5. n \notin lost'
                BY <3>4
            <4>6. ~ (i > Len(disk[n]))
                BY <2>6, <4>3, <4>4, <4>5 DEF crash
            <4>7. Len(disk[n]) \in Nat
                BY <2>1
            <4> QED BY <3>1, <3>4, <4>1, <4>6, <4>7
        <3> QED BY <3>3, <3>4
    <2> QED BY <2>3, <2>4, <2>5, <2>6
<1> QED BY <1>1, <1>2

LEMMA NextOneBlock ==
    ASSUME IInv, Ahead, OneBlock, [Next]_vars
    PROVE  OneBlock'
<1>1. CASE UNCHANGED vars
    BY <1>1 DEF vars, OneBlock
<1>2. CASE Next
    <2>1. PICK n \in Node :
              \/ Takes(n, chain'[n])
              \/ \E v \in Node : register_validator(n, v)
              \/ persist_state(n) \/ stop(n) \/ crash(n) \/ restart(n) \/ restart_refused(n)
        BY <1>2, StepKinds
    <2>2. CASE \/ \E v \in Node : register_validator(n, v)
               \/ persist_state(n) \/ stop(n) \/ crash(n) \/ restart(n) \/ restart_refused(n)
        <3>1. held' = held /\ lost \subseteq lost'
            BY <2>2 DEF register_validator, persist_state, stop, crash, forget, restart,
                        restart_refused
        <3> QED BY <3>1 DEF OneBlock
    <2>3. CASE Takes(n, chain'[n])
        <3> DEFINE e == chain'[n]
        <3>1. /\ e \in Seq(Block) /\ Len(e) \in Nat /\ held' = held \cup {e} /\ lost' = lost
              /\ Copy(n) = chain[n]
            BY <2>3 DEF Takes, Copy
        <3>2. Valid(e)
            <4>1. keys[n] \in SUBSET Node /\ validate_chain_with_genesis_stakes(e, keys[n])
                BY <2>3, ChainOf DEF Takes
            <4> QED BY <3>1, <4>1, ValidUnder
        <3> HIDE DEF e
        <3>3. ASSUME NEW d \in held, NEW i \in 1 .. Len(e), i <= Len(d), e[i].validator_id \notin lost
              PROVE  e[i] = d[i] /\ e[i].validator_id = d[i].validator_id
            <4>1. d \in Seq(Block) /\ Valid(d) /\ Len(d) \in Nat
                BY DEF IInv, HeldValid
            <4>2. e[i].validator_id = d[i].validator_id
                BY <3>1, <3>2, <3>3, <4>1, SameProposers
            <4>3. CASE \E c \in held : i \in 1 .. Len(c) /\ e[i] = c[i]
                BY <3>3, <4>2, <4>3 DEF OneBlock
            <4>4. CASE i = Len(chain[n]) + 1 /\ e[i].validator_id = n
                <5>1. i \in 1 .. Len(d)
                    BY <3>1, <3>3, <4>1
                <5>2. i <= Len(chain[n])
                    BY <3>1, <3>3, <4>2, <4>4, <5>1 DEF Ahead
                <5>3. Len(chain[n]) \in Nat
                    BY ChainOf
                <5> QED BY <4>4, <5>2, <5>3
            <4> QED BY <2>3, <4>2, <4>3, <4>4, TakenBlocks DEF e
        <3>4. ASSUME NEW c \in held, NEW i \in 1 .. Len(c), i <= Len(e), c[i].validator_id \notin lost
              PROVE  c[i] = e[i]
            <4>1. c \in Seq(Block) /\ Valid(c) /\ Len(c) \in Nat
                BY DEF IInv, HeldValid
            <4>2. c[i].validator_id = e[i].validator_id
                BY <3>1, <3>2, <3>4, <4>1, SameProposers
            <4>3. i \in 1 .. Len(e) /\ i <= Len(c)
                BY <3>1, <3>4, <4>1
            <4> QED BY <3>3, <3>4, <4>2, <4>3
        <3> QED BY <3>1, <3>3, <3>4 DEF OneBlock
    <2> QED BY <2>1, <2>2, <2>3
<1> QED BY <1>1, <1>2

\* Two chains part only at a block whose proposer has lost a block of its own in
\* a crash: until then gossip, answers and restarts never make a fork.
THEOREM ForksNeedALoss == Spec => []ForksFromLostBlocks
<1>1. Init => Ahead /\ OneBlock
    BY DEF Init, Ahead, OneBlock
<1>2. IInv /\ (Ahead /\ OneBlock) /\ [Next]_vars => (Ahead /\ OneBlock)'
    BY NextAhead, NextOneBlock
<1>3. OneBlock => ForksFromLostBlocks
    BY DEF OneBlock, ForksFromLostBlocks
<1> QED BY <1>1, <1>2, <1>3, InvariantHolds, PTL DEF Spec

-----------------------------------------------------------------------------
(* The order of arrival *)

\* Of two equally long valid chains one wins, or their tips are the same.
LEMMA OneWins ==
    ASSUME NEW c \in Seq(Block), NEW d \in Seq(Block), Valid(c), Valid(d), Len(c) = Len(d),
           Len(c) \in 1 .. MaxHeight
    PROVE  /\ ~ (outscores(c, d) /\ outscores(d, c))
           /\ outscores(c, d) \/ outscores(d, c) \/ tip_hash(c) = tip_hash(d)
<1>1. stake_weight(c) \in Nat /\ stake_weight(d) \in Nat /\ Len(c) \in Nat /\ Len(d) \in Nat
    BY WeightType
<1>2. /\ sorts_before(tip_hash(c), tip_hash(d))
             <=> tip_hash(c) # tip_hash(d) /\ ~ sorts_before(tip_hash(d), tip_hash(c))
    BY TipsOrdered
<1> DEFINE p == stake_weight(c)
           q == stake_weight(d)
<1>3. ~ (Len(c) > Len(d)) /\ ~ (Len(d) > Len(c))
    BY <1>1
<1> HIDE DEF p, q
<1>4. p \in Nat /\ q \in Nat
    BY <1>1 DEF p, q
<1>5. (p > q \/ q > p \/ p = q) /\ ~ (p > q /\ q > p) /\ (p = q => ~ (p > q) /\ ~ (q > p))
    BY <1>4
<1>6. /\ outscores(c, d) <=> p > q \/ (p = q /\ sorts_before(tip_hash(d), tip_hash(c)))
      /\ outscores(d, c) <=> q > p \/ (p = q /\ sorts_before(tip_hash(c), tip_hash(d)))
    BY <1>3 DEF outscores, p, q
<1> QED BY <1>2, <1>5, <1>6

\* Which of two equally long chains a node ends up with does not depend on the
\* order in which they arrive.
THEOREM ChoiceIsOrderFree == Spec => []ChoiceOrderFree
<1>1. ASSUME IInv PROVE ChoiceOrderFree
    <2> SUFFICES ASSUME NEW n \in Node, NEW c \in held, NEW d \in held, Len(c) = Len(d)
                 PROVE  tip_hash(select_canonical_chain(c, d, keys[n]))
                            = tip_hash(select_canonical_chain(d, c, keys[n]))
        BY DEF ChoiceOrderFree
    <2>1. /\ c \in Seq(Block) /\ Len(c) \in 1 .. MaxHeight /\ Valid(c)
          /\ d \in Seq(Block) /\ Valid(d)
        BY <1>1 DEF IInv, HeldValid
    <2>2. c # << >> /\ d # << >>
        BY <2>1
    <2>3. /\ ~ (outscores(c, d) /\ outscores(d, c))
          /\ outscores(c, d) \/ outscores(d, c) \/ tip_hash(c) = tip_hash(d)
        BY <2>1, OneWins
    <2> QED BY <2>2, <2>3 DEF select_canonical_chain
<1> QED BY <1>1, InvariantHolds, PTL

=============================================================================
