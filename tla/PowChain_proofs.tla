--------------------------- MODULE PowChain_proofs ---------------------------
(* Facts about the chain operators, for every setting of the constants. *)
EXTENDS PowChain, PositionInduction, SequenceTheorems, TLAPS

\* The parent chain of a block is a chain.
LEMMA ParentsType ==
    ASSUME NEW S, NEW c \in Seq(S), NEW i \in 1 .. Len(c) + 1
    PROVE  /\ parents(c, i) \in Seq(S)
           /\ Len(parents(c, i)) = i - 1
           /\ \A k \in 1 .. i - 1 : parents(c, i)[k] = c[k]
<1>1. 1 \in 1 .. Len(c) + 1 /\ i - 1 \in 0 .. Len(c)
    OBVIOUS
<1>2. \A k \in 1 .. i - 1 : c[k] \in S
    OBVIOUS
<1> QED BY <1>1, <1>2 DEF parents

\* get_difficulty returns an integer on every chain.
LEMMA DifficultyType ==
    ASSUME NEW c \in Seq(Block)
    PROVE  get_difficulty(c) \in Int
<1> USE PowSettings
<1>1. CASE c = << >>
    BY <1>1 DEF get_difficulty
<1>2. ASSUME c # << >> PROVE tip(c) \in Block
    BY <1>2 DEF tip
<1>3. CASE c # << >> /\ Len(c) < adjustment_interval
    BY <1>2, <1>3 DEF get_difficulty, Block
<1>4. CASE c # << >> /\ ~ (Len(c) < adjustment_interval)
    <2> DEFINE first    == c[Len(c) - adjustment_interval + 1]
               actual   == elapsed_seconds(first, tip(c))
               expected == target_block_time_seconds * (adjustment_interval - 1)
               d        == first.difficulty
    <2>1. Len(c) - adjustment_interval + 1 \in 1 .. Len(c)
        BY <1>4
    <2>2. first \in Block
        BY <2>1
    <2> HIDE DEF first
    <2>3. /\ d \in Int
          /\ first.block_item \in Int /\ tip(c).block_item \in Int
        BY <1>2, <1>4, <2>2 DEF Block
    <2>31. actual \in Int /\ actual >= 1
        BY <2>3 DEF elapsed_seconds
    <2>4. expected \in Int
        OBVIOUS
    <2> HIDE DEF actual, expected, d
    <2>5. d * expected \in Int /\ (d * expected) \div actual \in Int
        BY <2>3, <2>31, <2>4
    <2>6. d * factor_den \in Int /\ (d * factor_den) \div factor_num \in Int
        BY <2>3
    <2>7. (d * factor_den + factor_num - 1) \div factor_num \in Int
        BY <2>6
    <2>8. d * factor_num \in Int /\ (d * factor_num) \div factor_den \in Int
        BY <2>3
    <2>9. eased(d, actual, expected) \in Int
        BY <2>5, <2>6, <2>7 DEF eased, larger
    <2>10. hardened(d, actual, expected) \in Int
        BY <2>5, <2>8 DEF hardened, larger, smaller
    <2>11. get_difficulty(c) \in {d, eased(d, actual, expected), hardened(d, actual, expected)}
        BY <1>4, <2>31, <2>4 DEF get_difficulty, first, actual, expected, d
    <2> QED BY <2>3, <2>9, <2>10, <2>11
<1> QED BY <1>1, <1>3, <1>4

\* A hash extended by one mined body is a hash.
LEMMA HashType ==
    ASSUME NEW h \in Hash, NEW body \in Bodies, NEW nonce \in Nat
    PROVE  calc_pow_tran_hash(h, body, nonce) \in Hash
BY DEF Hash, calc_pow_tran_hash

\* The hash a new block links to.
LEMMA TipHashType ==
    ASSUME NEW c \in Seq(Block)
    PROVE  tip_hash(c) \in Hash
<1>1. CASE c = << >>
    BY <1>1 DEF tip_hash, genesis_prev_hash, Hash
<1>2. CASE c # << >>
    <2>1. tip(c) \in Block
        BY <1>2 DEF tip
    <2> QED BY <1>2, <2>1 DEF tip_hash, Block
<1> QED BY <1>1, <1>2

\* add_new_block produces a block stamped with the clock it was given.
LEMMA MineType ==
    ASSUME NEW c \in Seq(Block), NEW body \in Bodies, NEW nonce \in Nonce, NEW item \in Nat
    PROVE  /\ mine_block(c, body, nonce, item) \in Block
           /\ mine_block(c, body, nonce, item).block_item = item
<1>1. nonce \in Nat
    BY PowSettings DEF Nonce
<1>2. tip_hash(c) \in Hash
    BY TipHashType
<1>3. get_difficulty(c) \in Int
    BY DifficultyType
<1>4. calc_pow_tran_hash(tip_hash(c), body, nonce) \in Hash
    BY <1>1, <1>2, HashType
<1> QED BY <1>1, <1>2, <1>3, <1>4 DEF mine_block, Block

\* Verification of a chain depends on each block and its parents only.
LEMMA ParentsOfAppend ==
    ASSUME NEW c \in Seq(Block), NEW b \in Block, NEW i \in 1 .. Len(c) + 1
    PROVE  parents(Append(c, b), i) = parents(c, i)
<1> DEFINE e == Append(c, b)
<1>1. e \in Seq(Block) /\ Len(e) = Len(c) + 1 /\ \A k \in 1 .. Len(c) : e[k] = c[k]
    OBVIOUS
<1> HIDE DEF e
<1>2. /\ parents(e, i) \in Seq(Block) /\ parents(c, i) \in Seq(Block)
      /\ Len(parents(e, i)) = i - 1 /\ Len(parents(c, i)) = i - 1
      /\ \A k \in 1 .. i - 1 : parents(e, i)[k] = e[k] /\ parents(c, i)[k] = c[k]
    <2>1. i \in 1 .. Len(e) + 1
        BY <1>1
    <2> QED BY <1>1, <2>1, ParentsType
<1>3. ASSUME NEW k \in 1 .. i - 1 PROVE parents(e, i)[k] = parents(c, i)[k]
    <2>1. k \in 1 .. Len(c)
        BY <1>1
    <2>2. e[k] = c[k]
        BY <1>1, <2>1
    <2> QED BY <1>2, <2>2
<1> QED BY <1>2, <1>3, SeqEqual DEF e

\* A valid block on top of a valid chain makes a valid chain: what add_block
\* checks for one block is what verify_chain checks for the whole chain.
THEOREM AppendKeepsValid ==
    ASSUME NEW c \in Seq(Block), NEW b \in Block,
           verify_chain_integrity(c), validate_chain_link(b, c), validate_block(b, c)
    PROVE  verify_chain_integrity(Append(c, b))
<1> DEFINE e == Append(c, b)
<1>1. Len(e) = Len(c) + 1 /\ e[Len(c) + 1] = b /\ \A k \in 1 .. Len(c) : e[k] = c[k]
    OBVIOUS
<1>2. \A i \in 1 .. Len(c) + 1 : parents(e, i) = parents(c, i)
    BY ParentsOfAppend
<1>3. parents(c, Len(c) + 1) = c
    BY SubSeqFull DEF parents
<1> HIDE DEF e
<1> SUFFICES ASSUME NEW i \in 1 .. Len(e)
             PROVE  /\ i = 1 => e[1].prev_hash = genesis_prev_hash /\ e[1].block_index = 1
                    /\ validate_chain_link(e[i], parents(e, i))
                    /\ validate_block(e[i], parents(e, i))
    BY DEF verify_chain_integrity, e
<1>4. CASE i \in 1 .. Len(c)
    BY <1>1, <1>2, <1>4 DEF verify_chain_integrity
<1>5. CASE i = Len(c) + 1
    <2>1. validate_chain_link(e[i], parents(e, i)) /\ validate_block(e[i], parents(e, i))
        BY <1>1, <1>2, <1>3, <1>5
    <2>2. i = 1 => e[1].prev_hash = genesis_prev_hash /\ e[1].block_index = 1
        BY <1>1, <1>5 DEF validate_chain_link
    <2> QED BY <2>1, <2>2
<1> QED BY <1>1, <1>4, <1>5

\* In a valid chain the last block carries the height of the chain, so the
\* len(chain) + 1 of add_new_block is the index that validate_chain_link
\* asks for.
LEMMA TipIndex ==
    ASSUME NEW c \in Seq(Block), verify_chain_integrity(c), c # << >>
    PROVE  tip(c).block_index = Len(c)
<1> DEFINE Bad == {i \in 1 .. Len(c) : c[i].block_index # i}
<1>1. 1 \in 1 .. Len(c) /\ Len(c) \in Nat \ {0}
    OBVIOUS
<1>2. 1 \notin Bad
    BY <1>1 DEF verify_chain_integrity
<1>3. ASSUME NEW k \in Bad PROVE k - 1 \in Bad
    <2>1. k \in 1 .. Len(c) /\ k # 1
        BY <1>2, <1>3
    <2>2. /\ parents(c, k) \in Seq(Block) /\ Len(parents(c, k)) = k - 1
          /\ tip(parents(c, k)) = c[k - 1]
        BY <2>1, ParentsType DEF tip
    <2>3. validate_chain_link(c[k], parents(c, k))
        BY <2>1 DEF verify_chain_integrity
    <2>4. c[k].block_index = c[k - 1].block_index + 1
        BY <2>1, <2>2, <2>3 DEF validate_chain_link
    <2>5. k - 1 \in 1 .. Len(c)
        BY <2>1
    <2>6. c[k - 1] \in Block
        BY <2>5
    <2>7. c[k - 1].block_index \in Nat
        BY <2>6 DEF Block
    <2>8. c[k].block_index # k
        BY <1>3
    <2>9. c[k - 1].block_index # k - 1
        BY <2>1, <2>4, <2>7, <2>8
    <2> QED BY <2>5, <2>9
<1> HIDE DEF Bad
<1>4. Len(c) \notin Bad
    <2>1. Bad \in SUBSET (1 .. Len(c))
        BY DEF Bad
    <2> QED BY <1>1, <1>2, <1>3, <2>1, LastPositionGood
<1> QED BY <1>1, <1>4 DEF Bad, tip

\* The block a node mines passes the checks of add_block on its own chain,
\* provided its clock has not fallen behind the tip.
THEOREM MinedIsValid ==
    ASSUME NEW c \in Seq(Block), NEW body \in Bodies, NEW nonce \in Nonce, NEW item \in Nat,
           verify_chain_integrity(c), first_nonce(c, body, nonce),
           c # << >> => tip(c).block_item <= item
    PROVE  verify_chain_integrity(Append(c, mine_block(c, body, nonce, item)))
<1> DEFINE b == mine_block(c, body, nonce, item)
<1>1. b \in Block
    BY MineType
<1>2. /\ b.block_index = Len(c) + 1 /\ b.block_item = item /\ b.prev_hash = tip_hash(c)
      /\ b.tran_hash = calc_pow_tran_hash(tip_hash(c), body, nonce)
      /\ b.tran_body = body /\ b.nonce = nonce /\ b.difficulty = get_difficulty(c)
    BY DEF mine_block
<1> HIDE DEF b
<1>3. c # << >> => tip(c).block_index = Len(c)
    BY TipIndex
<1>4. validate_chain_link(b, c)
    BY <1>2, <1>3 DEF validate_chain_link, tip_hash
<1>5. validate_block(b, c)
    <2>1. meets_difficulty(b.tran_hash, b.difficulty)
        BY <1>2 DEF first_nonce, good_nonce
    <2>2. c # << >> => b.block_item >= tip(c).block_item
        <3> SUFFICES ASSUME c # << >> PROVE b.block_item >= tip(c).block_item
            OBVIOUS
        <3>1. tip(c) \in Block
            BY DEF tip
        <3> QED BY <1>2, <3>1 DEF Block
    <2> QED BY <1>2, <2>1, <2>2 DEF validate_block
<1> QED BY <1>1, <1>4, <1>5, AppendKeepsValid DEF b

-----------------------------------------------------------------------------
(* The work of a chain *)

\* w[i] is the work of the first i blocks.
Sums(w, chain) ==
    /\ w \in [0 .. Len(chain) -> Int] /\ w[0] = 0
    /\ \A i \in 1 .. Len(chain) : w[i] = w[i - 1] + chain[i].difficulty

\* The difficulty of a block is a number.
LEMMA DifficultyOf ==
    ASSUME NEW chain \in Seq(Block), NEW i \in 1 .. Len(chain)
    PROVE  chain[i].difficulty \in Int
<1>1. chain[i] \in Block
    OBVIOUS
<1>2. \A block \in Block : block.difficulty \in Int
    BY DEF Block
<1> QED BY <1>1, <1>2

\* total_difficulty is the last of these sums.
LEMMA TotalSums ==
    ASSUME NEW chain \in Seq(Block)
    PROVE  \E w : Sums(w, chain) /\ total_difficulty(chain) = w[Len(chain)]
<1> DEFINE n == Len(chain)
           d == [i \in 1 .. n |-> chain[i].difficulty]
           rule == [i \in 1 .. n |-> [v \in Int |-> v + d[i]]]
<1>1. n \in Nat /\ d \in [1 .. n -> Int]
    BY DifficultyOf
<1>2. \A i \in 1 .. n : d[i] = chain[i].difficulty
    OBVIOUS
<1> HIDE DEF n, d
<1>3. rule \in Rules(n, Int) /\ 0 \in Int
    BY <1>1 DEF Rules
<1>4. \A v \in Int, i \in 1 .. n : rule[i][v] = v + d[i]
    OBVIOUS
<1> HIDE DEF rule
<1>5. PICK f : Follows(f, n, Int, 0, rule)
    BY <1>1, <1>3, RecursionExists
<1>6. f = [i \in 0 .. n |-> IF i = 0 THEN 0 ELSE f[i - 1] + chain[i].difficulty]
    <2>1. ASSUME NEW i \in 1 .. n PROVE f[i] = f[i - 1] + chain[i].difficulty
        <3>1. f[i - 1] \in Int
            <4>1. f \in [0 .. n -> Int]
                BY <1>5 DEF Follows
            <4>2. i - 1 \in 0 .. n
                BY <1>1
            <4> QED BY <4>1, <4>2
        <3> QED BY <1>2, <1>4, <1>5, <3>1 DEF Follows
    <2> QED BY <1>5, <2>1 DEF Follows
<1> DEFINE work == CHOOSE g : g = [i \in 0 .. n |-> IF i = 0 THEN 0 ELSE g[i - 1] + chain[i].difficulty]
<1>7. work = [i \in 0 .. n |-> IF i = 0 THEN 0 ELSE work[i - 1] + chain[i].difficulty]
    BY <1>6
<1>8. total_difficulty(chain) = work[n]
    BY DEF total_difficulty, n
<1> HIDE DEF work
<1>9. work[0] = 0 /\ \A i \in 1 .. n : work[i] = work[i - 1] + d[i]
    <2>1. work[0] = 0
        <3>1. 0 \in 0 .. n
            BY <1>1
        <3> QED BY <1>7, <3>1
    <2>2. ASSUME NEW i \in 1 .. n PROVE work[i] = work[i - 1] + d[i]
        <3>1. i \in 0 .. n /\ i # 0
            BY <1>1
        <3>2. work[i] = work[i - 1] + chain[i].difficulty
            BY <1>7, <3>1
        <3> QED BY <1>2, <3>2
    <2> QED BY <2>1, <2>2
<1>10. work[0] \in Int /\ \A i \in 1 .. n : work[i - 1] \in Int => work[i] \in Int
    BY <1>1, <1>9
<1>11. \A i \in 0 .. n : work[i] \in Int
    BY <1>1, <1>10, RecursionType
<1>12. work \in [0 .. n -> Int]
    BY <1>7, <1>11
<1> QED BY <1>2, <1>8, <1>9, <1>12 DEF Sums, n

\* One more block adds its difficulty.
LEMMA TotalOfAppend ==
    ASSUME NEW chain \in Seq(Block), NEW block \in Block
    PROVE  /\ total_difficulty(chain) \in Int
           /\ total_difficulty(Append(chain, block)) = total_difficulty(chain) + block.difficulty
<1> DEFINE n == Len(chain)
           longer == Append(chain, block)
<1>1. /\ n \in Nat /\ longer \in Seq(Block) /\ Len(longer) = n + 1
      /\ longer[n + 1] = block /\ \A i \in 1 .. n : longer[i] = chain[i]
    OBVIOUS
<1>2. PICK w : Sums(w, chain) /\ total_difficulty(chain) = w[n]
    BY TotalSums
<1> HIDE DEF longer
<1>3. PICK x : Sums(x, longer) /\ total_difficulty(longer) = x[n + 1]
    BY <1>1, TotalSums
<1> HIDE DEF n
<1>4. w[0] = x[0]
    BY <1>2, <1>3 DEF Sums
<1>5. ASSUME NEW i \in 1 .. n, w[i - 1] = x[i - 1] PROVE w[i] = x[i]
    <2>1. w[i] = w[i - 1] + chain[i].difficulty
        BY <1>2 DEF Sums, n
    <2>2. i \in 1 .. n + 1 /\ longer[i] = chain[i]
        BY <1>1
    <2>3. x[i] = x[i - 1] + longer[i].difficulty
        BY <1>1, <1>3, <2>2 DEF Sums
    <2> QED BY <1>5, <2>1, <2>2, <2>3
<1>6. w[n] = x[n]
    <2>1. Alike(w, x, n)
        BY <1>4, <1>5 DEF Alike
    <2>2. \A i \in 0 .. n : w[i] = x[i]
        BY <1>1, <2>1, RecursionUnique
    <2> QED BY <1>1, <2>2
<1>7. x[n + 1] = x[n] + block.difficulty
    <2>1. n + 1 \in 1 .. n + 1 /\ (n + 1) - 1 = n
        BY <1>1
    <2>2. x[n + 1] = x[(n + 1) - 1] + longer[n + 1].difficulty
        BY <1>1, <1>3, <2>1 DEF Sums
    <2> QED BY <1>1, <2>1, <2>2
<1>8. w[n] \in Int
    BY <1>1, <1>2 DEF Sums, n
<1> QED BY <1>2, <1>3, <1>6, <1>7, <1>8 DEF longer

\* The work of a valid chain is not negative: each of its blocks meets a
\* difficulty, which meets_difficulty wants to be positive.
LEMMA TotalOfValid ==
    ASSUME NEW chain \in Seq(Block), verify_chain_integrity(chain)
    PROVE  total_difficulty(chain) \in Nat
<1> DEFINE n == Len(chain)
<1>1. PICK w : Sums(w, chain) /\ total_difficulty(chain) = w[n]
    BY TotalSums
<1>2. \A i \in 1 .. n : chain[i].difficulty \in Nat
    <2>1. ASSUME NEW i \in 1 .. n PROVE chain[i].difficulty \in Nat
        <3>1. chain[i].difficulty \in Int
            BY DifficultyOf
        <3>2. chain[i].difficulty > 0
            BY DEF verify_chain_integrity, validate_block, meets_difficulty
        <3> QED BY <3>1, <3>2
    <2> QED BY <2>1
<1>3. n \in Nat
    OBVIOUS
<1>4. w[0] \in Nat /\ \A i \in 1 .. n : w[i - 1] \in Nat => w[i] \in Nat
    <2>1. w[0] = 0 /\ \A i \in 1 .. n : w[i] = w[i - 1] + chain[i].difficulty
        BY <1>1 DEF Sums
    <2>2. ASSUME NEW i \in 1 .. n, w[i - 1] \in Nat PROVE w[i] \in Nat
        <3> DEFINE p == w[i - 1]
                   q == chain[i].difficulty
        <3>1. p \in Nat /\ q \in Nat /\ w[i] = p + q
            BY <1>2, <2>1, <2>2
        <3> HIDE DEF p, q
        <3> QED BY <3>1
    <2> QED BY <2>1, <2>2
<1> HIDE DEF n
<1>5. \A i \in 0 .. n : w[i] \in Nat
    BY <1>3, <1>4, RecursionType
<1> QED BY <1>1, <1>3, <1>5

\* The fork choice prefers every valid extension of a chain to the chain, and
\* every valid chain to none.
LEMMA ExtensionOutscores ==
    ASSUME NEW chain \in Seq(Block), NEW block \in Block, verify_chain_integrity(Append(chain, block))
    PROVE  outscores(Append(chain, block), chain)
<1>1. /\ total_difficulty(chain) \in Int
      /\ total_difficulty(Append(chain, block)) = total_difficulty(chain) + block.difficulty
    BY TotalOfAppend
<1>2. block.difficulty \in Int /\ block.difficulty > 0
    <2> DEFINE longer == Append(chain, block)
               n == Len(chain) + 1
    <2>1. n \in 1 .. Len(longer) /\ longer[n] = block
        OBVIOUS
    <2>2. validate_block(longer[n], parents(longer, n))
        BY <2>1 DEF verify_chain_integrity
    <2> QED BY <2>1, <2>2 DEF validate_block, meets_difficulty, Block
<1> QED BY <1>1, <1>2 DEF outscores

LEMMA AnyOutscoresNone ==
    ASSUME NEW chain \in Seq(Block), verify_chain_integrity(chain), chain # << >>
    PROVE  outscores(chain, << >>)
<1>1. total_difficulty(chain) \in Nat
    BY TotalOfValid
<1>2. total_difficulty(<< >>) = 0
    <2>1. << >> \in Seq(Block) /\ Len(<< >>) = 0
        OBVIOUS
    <2>2. PICK w : Sums(w, << >>) /\ total_difficulty(<< >>) = w[Len(<< >>)]
        BY <2>1, TotalSums
    <2> QED BY <2>1, <2>2 DEF Sums
<1>3. Len(chain) \in Nat /\ Len(chain) > 0 /\ Len(<< >>) = 0
    OBVIOUS
<1> QED BY <1>1, <1>2, <1>3 DEF outscores

=============================================================================
