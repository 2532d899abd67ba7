----------------------------- MODULE StakeNodes -----------------------------
(***************************************************************************)
(* Nodes that run proof of stake: they propose blocks, receive those of    *)
(* others as gossip and as answers to their requests, register the keys of *)
(* the other validators, save, stop, crash and start again.                *)
(*                                                                         *)
(* How requests and answers travel is the subject of ChainSync.  Here the  *)
(* network is weaker than the real one: a block may reach a node at any    *)
(* time after it was made, any number of times or never, and an answer to  *)
(* a request may be taken from any chain some node has ever held.          *)
(*                                                                         *)
(* How a chain is written is the subject of Persistence.  Here a save is   *)
(* one step; between a change and its save lies the debounce time of the   *)
(* worker, and a crash in between loses the change.                        *)
(***************************************************************************)
EXTENDS StakeChain

CONSTANTS
    Drafts,         \* the bodies and times of the blocks that are proposed
    MaxCrashes      \* bound of the instance

ASSUME NodeBounds == Drafts \subseteq Bodies \X Items /\ MaxCrashes \in Nat

VARIABLES
    status,         \* status[n]: "up", "down" or "refused" (the constructor raised)
    chain,          \* chain[n]: blockchain.chain
    validators,     \* validators[n]: the runtime stakes of consensus.validators
    keys,           \* keys[n]: the ids in consensus.validator_public_keys
    disk,           \* disk[n]: the chain n has saved
    base,           \* base[n]: the height at which n started: it asks for blocks above
                    \* the heights it has had since
    held,           \* every chain a node has ever held
    crashes,        \* number of crashes so far
    lost,           \* validators that have lost a block of their own in a crash
    overwritten     \* overwritten[n]: ids whose runtime stake was set by hand since
                    \* it was last computed

vars == <<status, chain, validators, keys, disk, base, held, crashes, lost, overwritten>>

\* The runtime stakes create_consensus registers.
registered_stakes(n) ==
    [v \in Node |-> IF v = n /\ genesis_stakes[n] = 0 THEN min_stake ELSE genesis_stakes[v]]

\* A constructor knows one key, its own.
constructor_keys(n) == {n}

Init ==
    /\ status = [n \in Node |-> "up"]
    /\ chain = [n \in Node |-> << >>]
    /\ validators = [n \in Node |-> registered_stakes(n)]
    /\ keys = [n \in Node |-> constructor_keys(n)]
    /\ disk = [n \in Node |-> << >>]
    /\ base = [n \in Node |-> 0]
    /\ held = {}
    /\ crashes = 0 /\ lost = {}
    /\ overwritten = [n \in Node |-> {}]

-----------------------------------------------------------------------------
(* A running node *)

\* A block is appended and its reward added to the runtime stakes.
append(n, block) ==
    /\ chain' = [chain EXCEPT ![n] = Append(@, block)]
    /\ validators' = [validators EXCEPT ![n] = apply_block_reward(@, block)]
    /\ held' = held \cup {chain'[n]}
    /\ UNCHANGED <<status, keys, disk, base, crashes, lost, overwritten>>

\* Mutant: the proposer is chosen by the runtime stakes.
add_new_block_runtime(n, body, item) ==
    /\ status[n] = "up" /\ Len(chain[n]) < MaxHeight
    /\ select_proposer(Len(chain[n]) + 1, validators[n]) = n
    /\ append(n, prepare_block(n, chain[n], body, item))

\* The application proposes a block (a ValueError when it is not n's turn).
add_new_block(n, body, item) ==
    /\ status[n] = "up" /\ Len(chain[n]) < MaxHeight
    /\ may_propose(n, chain[n])
    /\ append(n, prepare_block(n, chain[n], body, item))

\* NEW_BLOCK.  A block that does not fit leaves the node as it is (and makes
\* it ask its peers).
on_new_block(n, block) ==
    /\ status[n] = "up"
    /\ add_block(block, keys[n], chain[n])
    /\ append(n, block)

\* Mutant: the rewards of the new chain are added to the stakes as they are.
on_chain_response_adding(n, fragment) ==
    LET local == resolve_fork(chain[n], fragment, keys[n]) IN
    /\ status[n] = "up" /\ local # chain[n]
    /\ chain' = [chain EXCEPT ![n] = local]
    /\ validators' = [validators EXCEPT ![n] =
                          [v \in Node |-> @[v] + compute_validators_from_chain(local)[v] - genesis_stakes[v]]]
    /\ overwritten' = [overwritten EXCEPT ![n] = {}]
    /\ held' = held \cup {local}
    /\ UNCHANGED <<status, keys, disk, base, crashes, lost>>

\* The blocks of a session, or of an answer that comes without one: when the
\* fork choice prefers another chain, replace_chain installs it and computes
\* the runtime stakes anew.
on_chain_response(n, fragment) ==
    LET local == resolve_fork(chain[n], fragment, keys[n]) IN
    /\ status[n] = "up" /\ local # chain[n]
    /\ chain' = [chain EXCEPT ![n] = local]
    /\ validators' = [validators EXCEPT ![n] = compute_validators_from_chain(local)]
    /\ overwritten' = [overwritten EXCEPT ![n] = {}]
    /\ held' = held \cup {local}
    /\ UNCHANGED <<status, keys, disk, base, crashes, lost>>

\* The operator registers a validator of the genesis with its key.
register_validator(n, v) ==
    /\ status[n] = "up" /\ genesis_stakes[v] >= min_stake
    /\ validators' = [validators EXCEPT ![n][v] = genesis_stakes[v]]
    /\ keys' = [keys EXCEPT ![n] = @ \cup {v}]
    /\ overwritten' = [overwritten EXCEPT ![n] =
                           IF validators[n][v] = genesis_stakes[v] THEN @ ELSE @ \cup {v}]
    /\ UNCHANGED <<status, chain, disk, base, held, crashes, lost>>

-----------------------------------------------------------------------------
(* Disk, stop, crash and start *)

\* The worker saves, some time after a change.
persist_state(n) ==
    /\ status[n] = "up" /\ disk[n] # chain[n]
    /\ disk' = [disk EXCEPT ![n] = chain[n]]
    /\ UNCHANGED <<status, chain, validators, keys, base, held, crashes, lost, overwritten>>

\* What is gone with the process.
forget(n) ==
    /\ status' = [status EXCEPT ![n] = "down"]
    /\ chain' = [chain EXCEPT ![n] = << >>]
    /\ validators' = [validators EXCEPT ![n] = registered_stakes(n)]
    /\ keys' = [keys EXCEPT ![n] = constructor_keys(n)]
    /\ base' = [base EXCEPT ![n] = 0]
    /\ overwritten' = [overwritten EXCEPT ![n] = {}]
    /\ UNCHANGED held

\* Mutant: stop does not wait for the last save.
stop_unsaved(n) ==
    /\ status[n] = "up"
    /\ forget(n)
    /\ UNCHANGED <<disk, crashes, lost>>

\* stop ends with a save.
stop(n) ==
    /\ status[n] = "up"
    /\ disk' = [disk EXCEPT ![n] = chain[n]]
    /\ forget(n)
    /\ UNCHANGED <<crashes, lost>>

crash(n) ==
    /\ status[n] = "up"
    /\ crashes < MaxCrashes /\ crashes' = crashes + 1
    /\ lost' = IF \E i \in 1 .. Len(chain[n]) :
                     /\ chain[n][i].validator_id = n
                     /\ i > Len(disk[n]) \/ disk[n][i] # chain[n][i]
               THEN lost \cup {n} ELSE lost
    /\ forget(n)
    /\ UNCHANGED disk

\* Mutant: not even the own key is registered when the chain is verified.
restorable_keyless(n) == verify_chain_integrity(disk[n], {})

\* The constructor verifies what it has loaded before anyone can register a key.
restorable(n) == verify_chain_integrity(disk[n], constructor_keys(n))

restart(n) ==
    /\ status[n] = "down" /\ restorable(n)
    /\ status' = [status EXCEPT ![n] = "up"]
    /\ chain' = [chain EXCEPT ![n] = disk[n]]
    /\ validators' = [validators EXCEPT ![n] =
                          IF disk[n] = << >> THEN registered_stakes(n)
                          ELSE compute_validators_from_chain(disk[n])]
    /\ base' = [base EXCEPT ![n] = Len(disk[n])]
    /\ UNCHANGED <<keys, disk, held, crashes, lost, overwritten>>

\* _restore_chain raises a ValueError, now and at every later start.
restart_refused(n) ==
    /\ status[n] = "down" /\ ~ restorable(n)
    /\ status' = [status EXCEPT ![n] = "refused"]
    /\ UNCHANGED <<chain, validators, keys, disk, base, held, crashes, lost, overwritten>>

-----------------------------------------------------------------------------

Next ==
    \E n \in Node :
        \/ \E draft \in Drafts : add_new_block(n, draft[1], draft[2])
        \/ \E c \in held : on_new_block(n, tip(c))
        \/ \E c \in held, h \in base[n] .. Len(chain[n]) :
              \E k \in (h + 1) .. Len(c) : on_chain_response(n, SubSeq(c, h + 1, k))
        \/ \E v \in Node : register_validator(n, v)
        \/ persist_state(n)
        \/ stop(n) \/ crash(n)
        \/ restart(n) \/ restart_refused(n)

Spec == Init /\ [][Next]_vars

-----------------------------------------------------------------------------
(* Properties *)

TypeOK ==
    /\ status \in [Node -> {"up", "down", "refused"}]
    /\ chain \in [Node -> Seq(Block)] /\ disk \in [Node -> Seq(Block)]
    /\ validators \in [Node -> [Node -> Nat]]
    /\ keys \in [Node -> SUBSET Node] /\ overwritten \in [Node -> SUBSET Node]
    /\ base \in [Node -> 0 .. MaxHeight]
    /\ held \subseteq Seq(Block) /\ \A c \in held : Len(c) \in 1 .. MaxHeight
    /\ crashes \in 0 .. MaxCrashes /\ lost \subseteq Node

\* Whatever a node has put together from its own blocks, gossip and answers,
\* verify_chain accepts its chain under the keys it knows.
ChainsValid == \A n \in Node : verify_chain_integrity(chain[n], keys[n])

\* Two chains part only at a block whose proposer had lost a block of its own
\* in a crash: as long as nobody has, all chains ever held are prefixes of
\* one another, however late gossip and answers arrive.
ForksFromLostBlocks ==
    \A c, d \in held : \A i \in 1 .. Len(c) :
        i <= Len(d) /\ parents(c, i) = parents(d, i) /\ c[i] # d[i]
            => c[i].validator_id \in lost

\* The runtime stakes of the genesis validators, kept by increments, by
\* recomputation and at a restart, are those of the chain, except where the
\* operator has registered a validator anew.
StakesReplayed ==
    \A n \in Node : status[n] = "up" =>
        \A v \in Node \ overwritten[n] :
            genesis_stakes[v] > 0 =>
                validators[n][v] = compute_validators_from_chain(chain[n])[v]

\* Between equally long chains the fork choice does not depend on the order in
\* which they arrive: the chosen tip is the same.
ChoiceOrderFree ==
    \A n \in Node, c, d \in held : Len(c) = Len(d) =>
        tip_hash(select_canonical_chain(c, d, keys[n]))
            = tip_hash(select_canonical_chain(d, c, keys[n]))

\* A running node gives up its chain only for one the fork choice puts
\* strictly above it.
StakeScoreGrows ==
    [][\A n \in Node : status'[n] = "up" /\ status[n] = "up" /\ chain'[n] # chain[n]
                           => outscores(chain'[n], chain[n])]_vars

\* A node is refused its own files only when they hold a block of another
\* validator.
RefusedForOthersOnly ==
    \A n \in Node : status[n] = "refused" =>
        \E i \in 1 .. Len(disk[n]) : disk[n][i].validator_id # n

\* A node whose chain has been saved starts again with that chain.
RestartRestores == \A n \in Node : status[n] # "refused"

=============================================================================
