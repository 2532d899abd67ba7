----------------------------- MODULE StakeChain -----------------------------
(***************************************************************************)
(* The proof-of-stake chain as the code computes it: consensus/pos.py, the *)
(* link rule of consensus/base.py, the PoS branch of chain_validator.py,   *)
(* and the parts of blockchain.py, network/node.py and                     *)
(* consensus/factory.py that call them.  Everything here is a              *)
(* constant-level operator; the nodes are in StakeNodes.                   *)
(*                                                                         *)
(* Every node is called with genesis_stakes, as Node always does.  Stakes  *)
(* are functions on all ids; an id that is not in the code's mapping has   *)
(* stake 0.  A tran_hash is modelled by the list of its inputs, as in      *)
(* PowChain: block_item is not one of them.  Everyone runs this code and   *)
(* keeps its key, so the signature of a block and the public key in it are *)
(* those of its validator, and a check of them fails only when the key of  *)
(* that validator has not been registered.                                 *)
(***************************************************************************)
EXTENDS Integers, Sequences

CONSTANTS
    Node,               \* nodes; the id of a node is its validator id
    sorted_ids,         \* all ids, sorted
    Bodies,             \* values of tran_body
    Items,              \* values of block_item
    genesis_stakes,
    min_stake, block_reward,
    MaxHeight,          \* bound of the instance: the height of chains
    digest,             \* digest[s]: SHA-256 of "slot-s", as a number
    sorts_before(_, _)  \* the order of hashes as strings

\* The hashes of blocks up to the bound.
HashUpTo(height) ==
    UNION {[1 .. k -> [body : Bodies, validator_id : Node, slot : 1 .. MaxHeight]] : k \in 0 .. height}

ASSUME StakeSettings ==
    /\ sorted_ids \in Seq(Node)
    /\ \A n \in Node : \E i \in DOMAIN sorted_ids : sorted_ids[i] = n
    /\ \A i, j \in DOMAIN sorted_ids : sorted_ids[i] = sorted_ids[j] => i = j
    /\ min_stake \in Nat \ {0} /\ block_reward \in Nat
    /\ genesis_stakes \in [Node -> Nat]
    /\ \A n \in Node : genesis_stakes[n] > 0 => genesis_stakes[n] >= min_stake
    /\ \E n \in Node : genesis_stakes[n] > 0
    /\ MaxHeight \in Nat
    /\ digest \in [1 .. MaxHeight -> Nat]
    /\ \A g, h \in HashUpTo(MaxHeight) :
          sorts_before(g, h) <=> g # h /\ ~ sorts_before(h, g)

-----------------------------------------------------------------------------
(* Hashes, blocks and chains *)

Hash == Seq([body : Bodies, validator_id : Node, slot : Nat])

genesis_prev_hash == << >>

\* Mutant: the slot is not hashed.
calc_pos_tran_hash_slotless(prev_hash, body, validator_id, slot) ==
    Append(prev_hash, [body |-> body, validator_id |-> validator_id])

calc_pos_tran_hash(prev_hash, body, validator_id, slot) ==
    Append(prev_hash, [body |-> body, validator_id |-> validator_id, slot |-> slot])

Block == [block_index : Nat, block_item : Items, prev_hash : Hash, tran_hash : Hash,
          tran_body : Bodies, validator_id : Node, slot : Nat]

tip(chain) == chain[Len(chain)]

tip_hash(chain) == IF chain = << >> THEN genesis_prev_hash ELSE tip(chain).tran_hash

parents(chain, i) == SubSeq(chain, 1, i - 1)

-----------------------------------------------------------------------------
(* Stakes *)

apply_block_reward(stakes, block) ==
    [stakes EXCEPT ![block.validator_id] = IF @ > 0 THEN @ + block_reward ELSE @]

\* The stakes after a chain: one reward for every block.
compute_validators_from_chain(chain) ==
    LET after[i \in 0 .. Len(chain)] ==
            IF i = 0 THEN genesis_stakes ELSE apply_block_reward(after[i - 1], chain[i])
    IN  after[Len(chain)]

\* The sum of the stakes of the first k ids.
cumulative(stakes, k) ==
    LET upto[i \in 0 .. k] == IF i = 0 THEN 0 ELSE upto[i - 1] + stakes[sorted_ids[i]]
    IN  upto[k]

get_total_stake(stakes) == cumulative(stakes, Len(sorted_ids))

\* The first id whose cumulated stake exceeds the pick of the slot.
select_proposer(slot, stakes) ==
    LET pick == digest[slot] % get_total_stake(stakes)
        over == {i \in DOMAIN sorted_ids : pick < cumulative(stakes, i)}
    IN  sorted_ids[CHOOSE i \in over : \A j \in over : i <= j]

-----------------------------------------------------------------------------
(* Blocks *)

\* prepare_block lets only the proposer of the next slot go on.
may_propose(validator_id, chain) ==
    select_proposer(Len(chain) + 1, compute_validators_from_chain(chain)) = validator_id

\* The block add_new_block creates at clock time item.
prepare_block(validator_id, chain, body, item) ==
    [block_index  |-> Len(chain) + 1,
     block_item   |-> item,
     prev_hash    |-> tip_hash(chain),
     tran_hash    |-> calc_pos_tran_hash(tip_hash(chain), body, validator_id, Len(chain) + 1),
     tran_body    |-> body,
     validator_id |-> validator_id,
     slot         |-> Len(chain) + 1]

validate_chain_link(block, chain) ==
    IF chain = << >>
    THEN block.block_index = 1 /\ block.prev_hash = genesis_prev_hash
    ELSE /\ block.prev_hash = tip(chain).tran_hash
         /\ block.block_index = tip(chain).block_index + 1

\* keys are the validators whose public key is registered.
validate_block(block, keys, stakes, height) ==
    /\ block.slot = height
    /\ stakes[block.validator_id] > 0
    /\ block.validator_id = select_proposer(block.slot, stakes)
    /\ block.tran_hash = calc_pos_tran_hash(block.prev_hash, block.tran_body,
                                            block.validator_id, block.slot)
    /\ block.validator_id \in keys

\* add_block takes a received block.
add_block(block, keys, chain) ==
    /\ validate_chain_link(block, chain)
    /\ validate_block(block, keys, compute_validators_from_chain(chain), Len(chain) + 1)

validate_chain_with_genesis_stakes(chain, keys) ==
    \A i \in 1 .. Len(chain) :
        /\ validate_chain_link(chain[i], parents(chain, i))
        /\ validate_block(chain[i], keys, compute_validators_from_chain(parents(chain, i)), i)

verify_chain_integrity(chain, keys) ==
    \A i \in 1 .. Len(chain) :
        /\ i = 1 => chain[1].prev_hash = genesis_prev_hash
        /\ validate_chain_link(chain[i], parents(chain, i))
        /\ validate_block(chain[i], keys, compute_validators_from_chain(parents(chain, i)), i)

-----------------------------------------------------------------------------
(* Fork choice: the valid candidate with the largest (length, stake weight, *)
(* tip hash); max() keeps the first of equal candidates.                    *)

stake_weight(chain) ==
    LET stakes == compute_validators_from_chain(chain)
        upto[i \in 0 .. Len(chain)] ==
            IF i = 0 THEN 0 ELSE upto[i - 1] + stakes[chain[i].validator_id]
    IN  upto[Len(chain)]

\* Mutant: the hash of the tip does not count.
outscores_without_tip(a, b) ==
    \/ Len(a) > Len(b)
    \/ Len(a) = Len(b) /\ stake_weight(a) > stake_weight(b)

outscores(a, b) ==
    \/ Len(a) > Len(b)
    \/ Len(a) = Len(b) /\ stake_weight(a) > stake_weight(b)
    \/ /\ Len(a) = Len(b) /\ stake_weight(a) = stake_weight(b)
       /\ sorts_before(tip_hash(b), tip_hash(a))

\* Mutant: of equal candidates the received one wins.
select_received_of_equals(local, remote, keys) ==
    IF validate_chain_with_genesis_stakes(remote, keys)
         /\ ~ (validate_chain_with_genesis_stakes(local, keys) /\ outscores(local, remote))
    THEN remote
    ELSE IF validate_chain_with_genesis_stakes(local, keys) THEN local ELSE << >>

\* _resolve_fork passes the local chain, unless it is empty, and the received one.
select_canonical_chain(local, remote, keys) ==
    IF validate_chain_with_genesis_stakes(remote, keys)
         /\ (\/ local = << >>
             \/ ~ validate_chain_with_genesis_stakes(local, keys)
             \/ outscores(remote, local))
    THEN remote
    ELSE IF validate_chain_with_genesis_stakes(local, keys) THEN local ELSE << >>

\* The chain a node holds after _resolve_fork of what it received: a fragment
\* that continues the local chain is joined to it, anything else is a
\* candidate by itself, and replace_chain verifies the chain that was chosen.
resolve_fork(local, fragment, keys) ==
    LET remote == IF local # << >> /\ Head(fragment).prev_hash = tip_hash(local)
                  THEN local \o fragment ELSE fragment
        canonical == select_canonical_chain(local, remote, keys)
    IN  IF fragment # << >> /\ canonical # << >> /\ verify_chain_integrity(canonical, keys)
        THEN canonical ELSE local

=============================================================================
