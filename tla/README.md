# A TLA+ verification of easyblockchain

`useful_blockchain` is a blockchain node in Python: one asyncio process keeps a
chain of blocks, mines on it, exchanges blocks with other nodes over WebSockets
and stores its chain in a few files. This directory holds TLA+ models of its core,
TLC configurations that check them on small instances, and theorems about them
that TLAPS proves for every instance.

## 1. The system

| Part | State | Operations | Talks to |
|---|---|---|---|
| Chain (`blockchain.py`, `chain_validator.py`, `hash_utils.py`) | `chain`, a list of blocks | `add_new_block`, `add_block`, `replace_chain`, `verify_chain`, `get_blocks_from` | consensus |
| Proof of work (`consensus/pow.py`, `base.py`) | none | `mine_block`, `get_difficulty`, `validate_block`, `select_canonical_chain` | chain |
| Proof of stake (`consensus/pos.py`) | `validators`, registered keys | `select_proposer`, `prepare_block`, `validate_block`, rewards, fork choice by stake | chain, signatures |
| Node: gossip and sync (`network/node.py`) | `_pending_sync` (one session per peer) | `add_block`, `sync_chain`, handlers of HELLO, GET_CHAIN, CHAIN_RESPONSE, NEW_BLOCK | chain, server, store |
| Node: links | `_active_urls`, `_connecting_urls`, `_url_by_peer` | `connect_peer`, `_on_hello`, `_on_peer_disconnected`, PEERS, `_reconnect_loop` | server, discovery, back-off |
| Server and connection (`network/server.py`, `peer.py`) | `peers`; per connection `_closed`, `_authenticated` | accept, dial, `broadcast`, `send_to_peer`, the listen loop | node (callbacks) |
| Back-off (`network/reconnect.py`) | `_attempts`, `_next_retry_at` | `record_failure`, `record_success`, `should_retry` | node |
| Discovery (`network/discovery.py`) | `_known_peers` (bounded, oldest out) | `add_peer(s)`, the mDNS worker thread | node (callback) |
| Rate limiter (`network/rate_limit.py`) | `_events`, `_last_access`, `_last_prune` | `allow`, `reset` | server, connection |
| Store (`persistence/store.py`) and the saving side of the node | files; `_persist_task`, `_persist_pending` | `save`, `load`, the debounced worker, `start`, `stop` | disk |
| Ping loop (`node.py`) | `last_ping_at`, `last_pong_at` | PING, PONG, closing silent peers | server |
| Authentication, signatures, URL checks, TLS | none | sign, verify, parse, resolve | node, server |
| Health server, metrics, logging, settings, CLI | counters, configuration | HTTP, formatting | node |

What is hard here:

* **Suspension.** Everything runs in one event loop, but a handler that awaits gives
  way to every other task. A session is started for one chain and applied to
  another; a dial is decided on before it is suspended and registered after.
* **A listen loop waits inside its own handler.** It reads no further message until
  the handler returns, so a handler that requests a chain from its own peer cannot
  see the answer before its timeout.
* **Late answers.** An answer that outlives its request meets no session, or the
  next one.
* **Several files.** A save replaces four files one after the other; the process or
  the machine may stop between any two.
* **Forks.** Nodes mine concurrently and must agree on which chain to give up.
* **State kept twice.** A PoS node keeps the stakes by increments and also derives
  them from the chain; only the derived ones may decide who proposes.
* **Old clock readings.** The ping loop reads the clock once per pass, and closes and
  sends may suspend the pass for long.

What makes each part correct: a node's chain passes verification at all times and
is given up only for a better one; a peer has at most one session, which ends;
connected nodes converge; what was saved survives; a restart gives back the same
chain and identity; the peer table respects its limit; no URL is forgotten or
dialled twice; the limiter answers as if it forgot nothing; validators that lose
nothing never fork; a silent peer is closed, and no other.
`PROJECT.json` lists the hazards at their lines, with the properties that cover them.

## 2. The modules

```
PowChain ---- ChainSync ---- MCChainSync (sync_*.cfg)
   |             |  implements Ledgers
PowChain_proofs -+- ChainSync_proofs
Persistence ---- MCPersistence (persist_*.cfg)     Persistence_proofs
PeerLinks ------ MCPeerLinks   (links_*.cfg)       PeerLinks_proofs
StakeChain ----- StakeNodes ---- MCStakeNodes (stake_*.cfg)
                    |                              StakeNodes_proofs
PingLoop ------- MCPingLoop    (ping_*.cfg)        PingLoop_proofs
RateLimit ------ MCRateLimit   (limit_*.cfg)       RateLimit_proofs

PositionInduction: induction over positions, used by the proofs
```

**PowChain** has no state. It defines hashes, difficulty, mining, validation and fork
choice. A `tran_hash` is represented by the list of everything that went into it
(bodies and nonces back to the genesis hash), so equal hashes mean equal inputs; as
in the code, `block_item` and `difficulty` are not among them. How many leading zeros
a digest has is a parameter. The difficulty is computed with exact fractions; the
code's floats give the same integer for every difficulty below 9 (for instance
`first_difficulty` 9, 9 seconds instead of 7, gives 6 in the code and 7 exactly).

**ChainSync** is the network: for each node its chain, peer table, closed and
authenticated connections, the messages under way to it, its sessions, and for each
task the peers it still has to ask (`awaiting`). A step is what a task does between
two suspensions. The tasks of a node are one listen loop per connection and the
application. Names follow the code: `on_hello`, `on_get_chain`, `on_new_block` and the
four `on_..._response/batch` actions are the branches of `_handle_message`;
`request_chain`, `sync_done`, `sync_timeout` are the parts of `_request_chain` before
and after its await; `acceptable` and `accept_chain_batch` are `_accept_chain_batch`;
`listen_end` and `unregister` are the end of `listen` and `_handle_peer_closed`.
Every participant runs this code, shares the settings and is authenticated by its
first HELLO; clocks agree and do not go back. The limit in bytes of a session is
represented by its limit in blocks. A connection is used once (its id is a uuid).
`_announce_hello` at start finds no peer that has not been greeted, and is left out,
as are PEERS and PING/PONG, which do not touch chains or sessions.

**Ledgers** is the abstract specification that ChainSync implements: each node has a
chain; in a step one of them gets one valid block on top, or gives way to a valid
chain that the fork choice prefers.

**Persistence** is one node and its disk. A chain is the number of the change that
produced it, a key the number of the start that generated it. `write_bytes_atomic`
is the replacement of one file; `survivors` records which versions of a file a power
loss may leave until the directory is synced. `saver` and `step` say who is inside
`save` and how far. `change_chain` stands for everything that calls
`_schedule_persist`; the worker, `start_*` and `stop_*` follow the code between
suspensions. The PoS key is written and loaded as the identity key is. Directories
are assumed to support fsync, and keys to be stored on disk. That a loaded chain
verifies is what ChainSync's theorem says.

**PeerLinks** is the connection bookkeeping of one running node. `target`, `todo` and
`link` say for each task which URL it is dialling, which follow, and for which
connection it waits; `book` holds `_active_urls`, `_connecting_urls` and the back-off.
Only the time left until a retry is kept, so time needs no bound, and a connection id
is used again when the node has forgotten it. When the table is full, all URLs of a
pass fail in one step, as the code does not suspend between them.

**StakeChain** is to `pos.py` what PowChain is to `pow.py`: proposer selection, rewards,
validation at a height, validation of a whole chain and fork choice, for a node that
was given `genesis_stakes`. Hashes are again the list of what went into them; the time
of a block and its signature are not among it, so two blocks of one proposer may have
the same `tran_hash`. The digest of a slot and the order of hashes are parameters; of the
order it is assumed (`StakeSettings`) that of two different hashes exactly one comes first,
as it is with strings. Who
runs this code signs with its own key, so a signature check fails exactly when the key
of the validator is not registered.

**StakeNodes** are the nodes that run it. `validators` and `keys` are the fields of
`ProofOfStake`; `append` is `on_block_added`, `on_chain_response` is `_resolve_fork` with
`replace_chain` and `sync_validators_from_chain`, `restart` and `restart_refused` are
`_restore_chain` inside the constructor. The network is weaker than the real one: a
block reaches a node any number of times at any later time or never, and an answer may
be cut from any chain that anyone has held, above any height at which the node may have
asked; so what is shown does not depend on the order of messages, which ChainSync
studies. A save is one step, as Persistence studies its parts; the time between a
change and its save is there, and a crash in it loses the change. The history variables
`lost` and `overwritten` record which validators have lost a block of their own, and
which stakes the operator has set. The key of a validator does not change.

**PingLoop** is `_ping_loop` with the broadcast it calls. `pass` says which of its four
awaits the loop is in (`scan_close`, `send`, `send_close`, `sleep`), how long it may last,
and which peers of the snapshot are left; from one await to the next the scan is one
step. Time is discrete and kept as ages: of `last_ping_at`, and of the clock reading the
loop works with (`since_now`). A PONG is read at any time after a first PING: this stands
for a slow peer and for a listen loop that is busy in a handler. `quiet` and `unanswered`
are the history of one peer, any of them. How long `websocket.close()` may take is a
parameter, as are the two timeouts and the interval. `quiet_limit` adds up what can come
between the last PONG of a peer and its closing: the rest of a pass until the next one
sets `last_ping_at` (and, for a peer that has just connected, the close that was then under
way), `pong_timeout`, the pass in which it ends, and the closes in the scan before the peer.

**RateLimit** is the sliding window limiter, with a log of everything it admitted.

## 3. The runs

| Run | Instance | Shows |
|---|---|---|
| `sync_fork` | 2 miners, 1 connection, 2 bodies, height 2, batches of 1, 1 `sync_chain`, 1 failure | types, valid chains, sessions owned and linked, `ImplementsLedgers` |
| `sync_retarget` | 2 miners, height 3, retarget every 2 blocks, clock 0..2, batches of 2, sessions of at most 2 blocks | validity and `ScoreGrows` when difficulties differ |
| `sync_live` | height 1, 1 `sync_chain`, 1 failure, fair | sessions end, inboxes drain |
| `sync_converge` | 1 miner, height 3, batch of 3, 1 failure, fair | connected nodes converge |
| `sync_heal` | 2 miners, height 2, fair | a disagreement, section 6 |
| `persist_safety` | 3 changes, 3 starts, 2 crashes, 2 failed writes, fair | nothing saved is lost; without a save cut short, restarts are exact; every change reaches the disk |
| `persist_refused` | smaller | a disagreement, section 6 |
| `links_safety` | 2 URLs, 3 ids, table of 2, 1 known URL, PEERS with 2 URLs, HELLOs that state the bootstrap URL, back-off 1, 2, 2, ..., fair | the limit, exact tables, one dial per URL, no bootstrap URL forgotten |
| `stake_safety` | 2 validators of equal stake, height 2, the same body at 2 times and another body, 1 crash | valid chains, forks only from lost blocks, stakes as replayed, a fork choice without regard to arrival, refusal only for blocks of others |
| `stake_restart` | the same without crashes | a disagreement, section 6 |
| `ping_loop` | 2 peers, interval 2, timeout 3, closes of up to 2, sends of up to 1 | a silent peer is closed within `quiet_limit`; who is closed was silent and left a PING unanswered; a pass is bounded |
| `limit_window` | 2 keys, 2 events per 2 seconds, 6 seconds, 6 calls | forgetting never changes an answer |

**Bounds.** Height 2 with two miners is the smallest instance with forks, a chain to
give up and a batch that continues; height 3 is needed for a retarget within a
competing branch and to go over the session limit. One failure lets each connection
end at every point. Races of several tasks over several connections are left to the proof
of `SessionsOwned`. Three starts
and two crashes allow a crash in the first save, a restart and a crash in a later
save. With the digests of the real slots the first two blocks belong to different
validators, so that each extends a block of the other; a second block at another time is
the smallest twin, and one crash makes the proposer of a lost block propose again. Closes
of two seconds and sends of one make a pass longer than the timeout of three, so a
reading of the clock is old when it is used, and ages are counted past `quiet_limit`.
Two places and three ids let the peer table fill
during a dial; that every other node states the bootstrap URL (also one dialled at the
other URL) makes several connections share it. Six seconds are
three windows, so that a key is pruned and comes back. `CHECK_DEADLOCK FALSE` stands where an
instance ends because its bounds are used up; `PeerLinks` and `PingLoop` have no such
bound and are checked for deadlock. Symmetry is used for bodies in ChainSync and for
keys of the limiter, which are only compared, and never with liveness.

**Fairness.** The event loop runs every ready task: weak fairness for reading a
message or noticing a closed socket, and for the end of a wait, which the code bounds
by a timeout (`chain_sync_timeout_seconds`, `connection_timeout_seconds`, the five
seconds of `_wait_for_peer_authenticated`). A save that has begun goes on. The
reconnect loop runs every second and time passes. Nothing is assumed of the network,
of miners, of other nodes or of the application.

**Mutants.** Each property of a passing run comes with a changed form of a definition
(a dropped check, a missing reset, an off-by-one) under which TLC finds it violated;
these are the definitions marked *Mutant* in the modules.

## 4. What is proved

| Theorem | Statement |
|---|---|
| `PowChain_proofs!AppendKeepsValid` | a valid chain plus a block that passes both checks is valid |
| `PowChain_proofs!MinedIsValid` | a block mined by a clock not behind the tip makes a valid chain |
| `ChainSync_proofs!TypeCorrect` | `Spec => []TypeOK` |
| `ChainSync_proofs!ChainsAlwaysValid` | `Spec => []ChainsValid` |
| `ChainSync_proofs!NodesImplementLedgers` | `Spec => ImplementsLedgers` |
| `ChainSync_proofs!SessionsAlwaysOwned` | `Spec => []SessionsOwned` |
| `ChainSync_proofs!SessionsAlwaysLinked` | `Spec => []SessionLinked` |
| `ChainSync_proofs!ScoreAlwaysGrows` | `Spec => ScoreGrows` |
| `PingLoop_proofs!TypeCorrect` | `Spec => []TypeOK` |
| `PingLoop_proofs!ClosesOnlyForCause` | `Spec => ClosedForCause` |
| `PingLoop_proofs!SilentPeersAreClosed` | `Spec => []QuietBounded` |
| `Persistence_proofs!TypeCorrect` | `Spec => []TypeOK` |
| `Persistence_proofs!SavedChainsSurvive` | `Spec => []NothingSavedIsLost` |
| `Persistence_proofs!NeverRefusedUncut` | `Spec => []RefusedOnlyAfterFault` |
| `Persistence_proofs!StopSaves` | `Spec => []StoppedIsSaved` |
| `Persistence_proofs!IdentityIsKept` | `Spec => []IdentityKept` |
| `PeerLinks_proofs!TypeCorrect` | `Spec => []TypeOK` |
| `PeerLinks_proofs!PeersAlwaysBounded` | `Spec => []PeersBounded` |
| `PeerLinks_proofs!DialsStayExclusive` | `Spec => []DialsExclusive` |
| `PeerLinks_proofs!NoUrlGoesStale` | `Spec => []NoStaleUrl` |
| `RateLimit_proofs!TypeCorrect` | `Spec => []TypeOK` |
| `RateLimit_proofs!KeysArePruned` | `Spec => []KeysPruned` |
| `RateLimit_proofs!AnswersAreExact` | `Spec => AdmitsExactly` |
| `StakeNodes_proofs!TypeCorrect` | `Spec => []TypeOK` |
| `StakeNodes_proofs!ChainsAlwaysValid` | `Spec => []ChainsValid` |
| `StakeNodes_proofs!StakeScoreAlwaysGrows` | `Spec => StakeScoreGrows` |
| `StakeNodes_proofs!OnlyOthersRefuse` | `Spec => []RefusedForOthersOnly` |
| `StakeNodes_proofs!StakesAlwaysReplayed` | `Spec => []StakesReplayed` |
| `StakeNodes_proofs!ForksNeedALoss` | `Spec => []ForksFromLostBlocks` |
| `StakeNodes_proofs!ChoiceIsOrderFree` | `Spec => []ChoiceOrderFree` |

So every invariant and every action property that a passing run checks, and the refinement
of Ledgers, is also a theorem. The theorems hold for all constants that satisfy the named
assumptions of the modules (`PowSettings`, `SyncSettings`, `PersistenceBounds`,
`LinkSettings`, `LimiterSettings`, `StakeSettings`, `NodeBounds`, `PingSettings`): any nodes,
connections, URLs, keys, settings, heights and numbers of failures, any function for the
leading zeros of a digest, any stakes and any digests of slots. TLC evaluates the
assumptions on the instances.

*Valid chains.* `TypeOK` of ChainSync says more than types: no chain, session or
message holds a block stamped after `now` (`BlockUpTo(now)`). Without this, a mined
block might be older than the tip it is put on. `TypeOK /\ ChainsValid` is inductive.
A chain changes in four places. A mined block: `MinedIsValid`, where the block index
`len(chain) + 1` must be the tip's index plus one (`TipIndex`). A gossiped block:
`AppendKeepsValid`, since the parents of the old blocks do not change
(`ParentsOfAppend`). A finished session and an unsolicited response: `ResolveFork`,
as `replace_chain` verifies what the fork choice selected.

*Ledgers.* The same case split (`ChainStep`) shows that a changed chain is a
`Successor` of the old one: one valid block longer, or valid and better, or a chain in
place of an empty one. The rest is a step of `Ledgers!Next` or a stutter.

*Sessions.* `SessionsOwned` is inductive with the types. `Owned` restates it for one node
without sets. The steps that matter end in `request_chain`: the task has first let go of
its peer, if it had one (`ReleaseOwned`), and then takes one that has no session
(`SkipHead`), hence nobody waits for it (`RequestOwned`). A batch changes a session but
not whether there is one.

`SessionLinked` needs no more than the types. `Linked` states it for one session: a batch is
accepted only if it attaches to what the session expects and is linked itself, and the new
expectation is taken from its last block (`EmptyLinked` covers a session that starts anew).

*Scores.* `total_difficulty` sums over a chain. The lemmas on it follow from the recursion
over positions: one more block adds its difficulty, which is positive in a valid chain
(`TotalOfAppend`), and the sum over a valid chain is not negative (`TotalOfValid`). So a valid
extension outscores what it extends, and any valid chain none at all; every other change
comes from the fork choice, which compares the sums itself.

*Ping loop.* `ClosedForCause` needs an invariant about the whole pass, `Cause`. While a
peer is unheard, `last_ping_at` is not before its last PONG (`QuietSincePing`); this
survives the old clock reading because a peer the scan has not yet visited has been
quiet since that reading, or its PONG is newer than what is written (`QuietInScan`). Its
PING follows it around the pass: the broadcast has sent it or still has the peer on its
list, in the sleep it is out for as long as the sleep has lasted, and at the next scan
for a whole interval (`PingedInBroadcast`, `PingedInSleep`, `PingedInScan`).

*Saved chains.* `NothingSavedIsLost` is not inductive: it speaks of running nodes only.
`Durable` adds what holds of the disk and of memory: every version of `chain.json` or of
the checksum in `meta.json` that is on disk, or that a power loss may leave, is at least
as new as the last save that returned, and so is the chain of a node that is up;
nothing is newer than the last change; and a save that has passed a file has put the
current chain there (`SaveProgress`). A start takes its chain from `chain.json`, so it
cannot be older, and once a save has returned no version of `meta.json` is missing, so
a fresh start cannot happen.

*Nothing cut short.* The three properties of a node without faults need each other, so one
invariant, `Uncut`, carries them: between two saves the files are untouched or complete, a
save under way will complete them, a node that lives has its key on disk, a stopped one its
chain, the worker has not failed and no start was refused. A crash outside a save leaves the
files as they were, so the next start finds what the last save left.

*Peer links.* `TypeOK` includes that the back-off is a number of seconds up to `max_delay`
(the power of the multiplier is a recursive function, `backed_off`) and the table of known
URLs is within its limit. `PeersBounded` holds because registration checks the limit again
after the suspension. `Exclusive` restates `DialsExclusive` as three facts about tasks: what
a task dials is in `_connecting_urls`, two tasks never dial the same URL, and each entry has
its task. `NoStaleUrl` needs `Linked`: a connection that a task waits for is waited for by it
alone, and is registered under the URL which that task dials. Without it, the task that gives
up would release the URL of somebody else.

*Rate limiter.* `Remembered` relates the limiter to the log of all it has admitted: what it
keeps of a key is the end of the log, what it has dropped lies before the window, and the
last access is not before any event. So a key that is pruned has no event in the window, and
the count of what is kept is the count over the log.

*Stake.* The inductive invariant is `IInv`: the types, every chain that was ever held is valid
for one who knows all keys (`HeldValid`), what a node has in memory and on disk was held
(`Located`), a node knows its own key (`OwnKeys`), and `ChainsValid`. `Takes` is what
proposing, gossip and answers have in common, so each property has one case for it and one
for each of the other operations (`StepKinds`). Two facts about the algorithm carry the rest.
The pick of a slot falls into the share of a validator with stake (`ProposerHasStake`: the
sums over `sorted_ids` grow, and the pick is below the last). And valid chains have the
same proposers, whatever their blocks (`SameProposers`): the stakes of a slot depend on the
earlier proposers only. Hence two different blocks in one place are of one validator, and
`ForksFromLostBlocks` becomes a claim about that validator: as long as it has lost nothing,
its own copy, in memory or on disk, is as long as every chain that holds a block of it
(`Ahead`), so it does not propose for that slot again and there is one block for it
(`OneBlock`). `StakesReplayed` says that adding a reward to the stakes of a chain gives the
stakes of the longer chain, by unfolding the recursion once. For `ChoiceOrderFree`, of two
equally long valid chains one has the larger weight, or the order of the tips decides, or
the tips have the same hash (`OneWins`).

*Silent peers.* The bound on a pass and `QuietBounded` rest on `Bounded`, which counts time.
`Rest` is the longest time that is left of a pass, a sum over the peers still to be visited
and served; `OpenRest` is the same when the watched peer stays open, so that neither its
close nor its lost send counts. The age of the clock reading plus `Rest` stays within
`pass_limit` (`PassBounded`): each step of the loop lowers `Rest` by as much as it starts to
wait for, and the clock moves the one up and the other down. After a PONG the time of quiet
plus `OpenRest` is bounded (`HeardBounded`), until a scan sets `last_ping_at`; from then on
its age tells how long the peer has been quiet, and a scan that leaves the peer open has seen
an age within `pong_timeout` (`UnheardBounded`). While a close suspends the scan before it has
come to the peer, the closes that are left bound the wait (`ScanBounded`).

*Positions.* `PositionInduction` derives, from the theorems on finite sets, that a
predicate given as a set of positions holds at the last one if it holds at the first
and is passed on; it stands in for induction rules that take an operator. From it follow
recursion over `0 .. n`: a function that begins with a value and goes on by a rule exists
(`RecursionExists`), stays in its type (`RecursionType`) and is the only one
(`RecursionUnique`). With these, the sums of difficulties, the stakes along a chain and the
back-off, which the models write as recursive functions, can be unfolded in proofs.

**Model-checked only.** Liveness (`SessionsEnd`, `InboxesDrain`, `Converge`,
`EventuallySaved`, `KeepsTrying`), which is out of reach of the prover.

## 5. What is not modelled

* The mDNS worker thread, and a `stop` while dials or mDNS callbacks are under way:
  PeerLinks is a running node.
* Proof of stake without `genesis_stakes`, and the chain without consensus: both exist
  outside a `Node` only. A genesis without validators, with which nobody can propose.
* Clocks that differ or step back; a block so stamped is refused by the other nodes.
* Signatures, HELLO verification, URL validation, TLS: cryptography and parsing. Nodes
  that do not run this code are therefore not covered.
* Health server, metrics, logging, settings, command line: no influence on the state
  above.
* Blocks added after `stop` has returned, and the one turn of the event loop between
  the end of the cancelled worker and the resumption of `stop` (a block added then is
  part of the final save).

## 6. Disagreements between code and documentation

| Run | What happens |
|---|---|
| `sync_heal` | A session asks only for blocks above the own tip. After a fork the answer is refused and the peer closed, or it does not attach; the fork is never repaired, although `docs/p2p.md` describes a choice between the chains. |
| `persist_refused` | A crash after `chain.json` and before `meta.json` is replaced: the checksum does not match and the node does not start again. |
| `stake_restart` | A PoS node that has saved a block of another validator does not start again: the constructor verifies the chain when only the own key is registered, and nobody can register the others before. `RefusedForOthersOnly` shows that this is the only way. |

Other behaviour that the models contain and no run is about:

* After a failed write of the worker, `stop` raises that error and skips the final save
  (`stop_raises`), while `tests/integration/test_persistence.py:168` expects one.
* Two connections may be registered under one URL; when one ends, the URL counts as free
  and is dialled again beside the other (`on_peer_disconnected`), while
  `tests/unit/test_inbound_peer_url.py:90` says that double connections are prevented.
* A session may be completed in the pass of the event loop in which its wait expires;
  its blocks are then dropped (`sync_timeout` does not look at `done`). With one
  connection the late answer or the next block repairs this, as `Converge` shows.
* A crash within the debounce second takes a proposed and gossiped block with it; the
  validator then proposes another one for the same slot. No other cause of a PoS fork
  exists (`ForksFromLostBlocks`), and two such blocks with the same body have the same
  `tran_hash`.
* Registering a known validator again, to give its key, sets its runtime stake back to
  the registered value (`overwritten`). Neither proposals nor validation read it.
* `pong_timeout_seconds` counts from the clock reading of the scan that set
  `last_ping_at`, not from the sending of the PING (`docs/p2p.md:343`); slow closes and
  sends of other peers shorten what is left for the answer, down to `ping_interval`.
* A response that arrives after its session has timed out is applied, but its
  `has_more` is not followed (`on_unsolicited_response`).
* A rejected block triggers no sync while a finished session of the peer is still
  registered (`request_chain`).
* A restored node without a key file generates a key and, unlike a fresh node, does not
  save it at once.
* An open socket counts as success before the HELLO, so neither the back-off nor
  `max_attempts` limits the dials of a peer that never authenticates.

## 7. Plan

Done: PowChain, ChainSync with Ledgers, Persistence, PeerLinks, RateLimit, StakeChain with
StakeNodes, PingLoop, and the theorems above. Next, in this order:

1. `stop` in PeerLinks: dials and mDNS callbacks that outlive it; the mDNS queue.
2. Clocks per node in ChainSync; a node behind by more than the session limit.
3. Proofs: the safety half of the liveness properties, for instance that a task that waits
   for an answer has a timeout that ends it; that a PoS chain restored with all keys verifies.
