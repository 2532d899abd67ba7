------------------------------ MODULE PowChain ------------------------------
(***************************************************************************)
(* The proof-of-work chain as the code computes it: hash_utils.py,         *)
(* consensus/pow.py, the link rule of consensus/base.py, the PoW branch of *)
(* chain_validator.py, and the pure parts of blockchain.py.  Everything    *)
(* here is a constant-level operator; the state is in the modules that     *)
(* extend this one.                                                        *)
(*                                                                         *)
(* A tran_hash is SHA-256 over (prev_hash, body hash, nonce).  It is        *)
(* modelled by that very list of inputs, so two hashes are equal exactly    *)
(* when the hashed inputs are (no collisions), and a block's block_item     *)
(* and difficulty are, as in the code, not part of its hash.               *)
(***************************************************************************)
EXTENDS Integers, Sequences

CONSTANTS
    Bodies,                     \* values of tran_body
    LeadingZeros(_),            \* leading zero hex digits of a digest
    initial_difficulty,
    adjustment_interval,
    target_block_time_seconds,
    factor_num, factor_den,     \* max_adjustment_factor = factor_num / factor_den
    max_mining_iterations

ASSUME PowSettings ==
    /\ initial_difficulty \in Nat
    /\ adjustment_interval \in Nat \ {0}
    /\ target_block_time_seconds \in Nat
    /\ factor_num \in Nat \ {0} /\ factor_den \in Nat \ {0}
    /\ max_mining_iterations \in Nat

-----------------------------------------------------------------------------
(* Hashes (hash_utils.py) *)

Nonce == 0 .. (max_mining_iterations - 1)

Hash == Seq([body : Bodies, nonce : Nat])

genesis_prev_hash == << >>

calc_pow_tran_hash(prev_hash, body, nonce) ==
    Append(prev_hash, [body |-> body, nonce |-> nonce])

meets_difficulty(hash, difficulty) ==
    difficulty > 0 /\ LeadingZeros(hash) >= difficulty

-----------------------------------------------------------------------------
(* Blocks and chains.  block_item is the wall-clock second of creation.     *)

Block == [block_index : Nat,
          block_item  : Nat,
          prev_hash   : Hash,
          tran_hash   : Hash,
          tran_body   : Bodies,
          nonce       : Nat,
          difficulty  : Int]

tip(chain) == chain[Len(chain)]

\* prev_hash of the block that would extend the chain.
tip_hash(chain) == IF chain = << >> THEN genesis_prev_hash ELSE tip(chain).tran_hash

\* The parent chain of block i of the chain: chain[:index] of the code.
parents(chain, i) == SubSeq(chain, 1, i - 1)

-----------------------------------------------------------------------------
(* Difficulty (pow.py) *)

elapsed_seconds(start_block, end_block) ==
    LET seconds == end_block.block_item - start_block.block_item
    IN  IF seconds > 1 THEN seconds ELSE 1

larger(a, b)  == IF a > b THEN a ELSE b
smaller(a, b) == IF a < b THEN a ELSE b

\* max(1, int(d / min(ratio, factor))), then clamped at ceil(d / factor).
eased(d, actual, expected) ==
    larger(larger(1, larger((d * expected) \div actual, (d * factor_den) \div factor_num)),
           (d * factor_den + factor_num - 1) \div factor_num)

\* max(1, int(d / max(ratio, 1 / factor))).
hardened(d, actual, expected) ==
    larger(1, smaller((d * expected) \div actual, (d * factor_num) \div factor_den))

get_difficulty(chain) ==
    IF chain = << >> THEN initial_difficulty
    ELSE IF Len(chain) < adjustment_interval THEN tip(chain).difficulty
    ELSE LET first    == chain[Len(chain) - adjustment_interval + 1]
             actual   == elapsed_seconds(first, tip(chain))
             expected == target_block_time_seconds * (adjustment_interval - 1)
         IN  IF expected <= 0 \/ actual = expected THEN first.difficulty
             ELSE IF actual > expected THEN eased(first.difficulty, actual, expected)
             ELSE hardened(first.difficulty, actual, expected)

-----------------------------------------------------------------------------
(* Mining: the loop of mine_block stops at the first nonce whose hash is    *)
(* good enough; when there is none a RuntimeError leaves the chain alone.   *)

good_nonce(chain, body, nonce) ==
    meets_difficulty(calc_pow_tran_hash(tip_hash(chain), body, nonce), get_difficulty(chain))

first_nonce(chain, body, nonce) ==
    /\ good_nonce(chain, body, nonce)
    /\ \A earlier \in 0 .. (nonce - 1) : ~ good_nonce(chain, body, earlier)

\* The block add_new_block creates on top of the chain at clock time item.
mine_block(chain, body, nonce, item) ==
    [block_index |-> Len(chain) + 1,
     block_item  |-> item,
     prev_hash   |-> tip_hash(chain),
     tran_hash   |-> calc_pow_tran_hash(tip_hash(chain), body, nonce),
     tran_body   |-> body,
     nonce       |-> nonce,
     difficulty  |-> get_difficulty(chain)]

-----------------------------------------------------------------------------
(* Validation *)

validate_chain_link(block, chain) ==
    IF chain = << >>
    THEN block.block_index = 1 /\ block.prev_hash = genesis_prev_hash
    ELSE /\ block.prev_hash = tip(chain).tran_hash
         /\ block.block_index = tip(chain).block_index + 1

\* chain is the parent chain: it does not contain the block.
validate_block(block, chain) ==
    /\ block.difficulty = get_difficulty(chain)
    /\ chain # << >> => block.block_item >= tip(chain).block_item
    /\ block.tran_hash = calc_pow_tran_hash(block.prev_hash, block.tran_body, block.nonce)
    /\ meets_difficulty(block.tran_hash, block.difficulty)

is_chain_valid(chain) ==
    \A i \in 1 .. Len(chain) : /\ validate_chain_link(chain[i], parents(chain, i))
                               /\ validate_block(chain[i], parents(chain, i))

verify_chain_integrity(chain) ==
    \A i \in 1 .. Len(chain) :
        /\ i = 1 => chain[1].prev_hash = genesis_prev_hash /\ chain[1].block_index = 1
        /\ validate_chain_link(chain[i], parents(chain, i))
        /\ validate_block(chain[i], parents(chain, i))

\* add_block takes a received block.
add_block(block, chain) ==
    validate_chain_link(block, chain) /\ validate_block(block, chain)

-----------------------------------------------------------------------------
(* Fork choice: the valid candidate with the largest (total difficulty,     *)
(* length); max() keeps the first of equal candidates.  The one caller      *)
(* passes the local chain, unless it is empty, and the received one.        *)

total_difficulty(chain) ==
    LET work[i \in 0 .. Len(chain)] ==
            IF i = 0 THEN 0 ELSE work[i - 1] + chain[i].difficulty
    IN  work[Len(chain)]

outscores(a, b) ==
    \/ total_difficulty(a) > total_difficulty(b)
    \/ total_difficulty(a) = total_difficulty(b) /\ Len(a) > Len(b)

\* Mutant: of equal candidates the last one wins.
select_last_of_equals(local, remote) ==
    IF is_chain_valid(remote) /\ ~ (is_chain_valid(local) /\ outscores(local, remote))
    THEN remote
    ELSE IF is_chain_valid(local) THEN local ELSE << >>

select_canonical_chain(local, remote) ==
    IF is_chain_valid(remote)
         /\ (local = << >> \/ ~ is_chain_valid(local) \/ outscores(remote, local))
    THEN remote
    ELSE IF is_chain_valid(local) THEN local ELSE << >>

\* The chain held after replace_chain.
replace_chain(local, new_chain) ==
    IF verify_chain_integrity(new_chain) THEN new_chain ELSE local

get_blocks_from(chain, from_height, limit) ==
    SubSeq(chain, larger(from_height, 1),
           smaller(Len(chain), larger(from_height, 1) + limit - 1))

=============================================================================
