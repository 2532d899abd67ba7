------------------------------ MODULE ChainSync ------------------------------
(***************************************************************************)
(* Nodes that mine, gossip and synchronise a proof-of-work chain over      *)
(* WebSocket connections: the message handlers and the chain               *)
(* synchronisation of network/node.py, the listen loop of network/peer.py, *)
(* and the sending side of network/server.py.                              *)
(*                                                                         *)
(* Each node runs one asyncio event loop.  A step of this specification is *)
(* what a task does between two suspensions.  The tasks of a node are one  *)
(* listen loop per connection and the application task, which may call     *)
(* sync_chain; a listen loop handles one message at a time and does not    *)
(* read the next one before the handler has returned, so a handler that    *)
(* waits for a chain also keeps its own connection from being read.        *)
(*                                                                         *)
(* Every participant runs this code (peer authentication and the checks on *)
(* malformed messages are about the others), all nodes share the consensus *)
(* settings and the genesis hash, and their clocks agree and do not go     *)
(* back.                                                                   *)
(***************************************************************************)
EXTENDS PowChain

CONSTANTS
    Node,                       \* the processes
    Conn,                       \* connections; each is opened at most once (a fresh uuid)
    App,                        \* the application task of a node
    Miner,                      \* the nodes whose application adds blocks
    dialer, acceptor,           \* the two ends of a connection
    chain_sync_batch_size,      \* per node
    chain_sync_max_blocks,
    MaxTime, MaxHeight,         \* bounds of the instance: clock and chain height
    MaxSyncCalls,               \* calls of sync_chain by the applications
    MaxFailures                 \* handshake timeouts and lost connections

ASSUME SyncSettings ==
    /\ dialer \in [Conn -> Node] /\ acceptor \in [Conn -> Node]
    /\ \A c \in Conn : dialer[c] # acceptor[c]
    /\ App \notin Conn
    /\ Miner \subseteq Node
    /\ chain_sync_batch_size \in [Node -> Nat \ {0}]
    /\ chain_sync_max_blocks \in Nat
    /\ MaxTime \in Nat /\ MaxHeight \in Nat /\ MaxSyncCalls \in Nat /\ MaxFailures \in Nat

VARIABLES
    now,        \* the clock behind datetime.now()
    chain,      \* chain[n]: blockchain.chain
    opened,     \* connections that have been established
    peers,      \* peers[n]: keys of P2PServer.peers, in insertion order
    closed,     \* closed[n]: connections whose socket is closed on n's side
    authed,     \* authed[n]: connections n has seen a valid HELLO on
    inbox,      \* inbox[n][c]: messages on their way to n on c
    session,    \* session[n][c]: _pending_sync of n; active when the key is present
    awaiting,   \* awaiting[n][t]: the peers task t still has to sync with; it
                \* is suspended in _request_chain on the first of them
    sync_calls, \* calls of sync_chain made by the applications
    failures    \* handshake timeouts and lost connections so far

vars == <<now, chain, opened, peers, closed, authed, inbox, session, awaiting, sync_calls, failures>>

Task == Conn \cup {App}

Ends(c) == {dialer[c], acceptor[c]}

other(n, c) == IF n = dialer[c] THEN acceptor[c] ELSE dialer[c]

registered(n) == {peers[n][i] : i \in DOMAIN peers[n]}

-----------------------------------------------------------------------------
(* Messages.  height is the chain_height of a HELLO and the from_height of  *)
(* GET_CHAIN and CHAIN_RESPONSE; a NEW_BLOCK carries one block.             *)

MessageType == {"HELLO", "GET_CHAIN", "CHAIN_RESPONSE", "NEW_BLOCK"}

MessageOf(blocks) ==
    {m \in [type : MessageType, height : Nat, limit : Nat, next_height : Nat,
            has_more : BOOLEAN, blocks : Seq(blocks)] :
        m.type = "NEW_BLOCK" => m.blocks # << >>}

message(type, height, limit, next_height, has_more, blocks) ==
    [type |-> type, height |-> height, limit |-> limit, next_height |-> next_height,
     has_more |-> has_more, blocks |-> blocks]

hello(local) == message("HELLO", Len(local), 0, 0, FALSE, << >>)

get_chain(n, from_height) ==
    message("GET_CHAIN", from_height, chain_sync_batch_size[n], 0, FALSE, << >>)

new_block(block) == message("NEW_BLOCK", 0, 0, 0, FALSE, <<block>>)

\* The answer of a node with the given chain: the GET_CHAIN branch of _handle_message.
chain_response(n, local, request) ==
    LET batch_size  == larger(1, smaller(request.limit, chain_sync_batch_size[n]))
        blocks      == get_blocks_from(local, request.height, batch_size)
        next_height == request.height + Len(blocks)
    IN  message("CHAIN_RESPONSE", request.height, 0, next_height,
                Len(blocks) = batch_size /\ next_height <= Len(local), blocks)

\* A message is sent only on a registered, open connection, and it is lost
\* when the other end has gone.
can_send(n, c) ==
    c \in registered(n) /\ c \notin closed[n] /\ c \in registered(other(n, c))

send_to_peer(box, n, c, m) ==
    IF can_send(n, c) THEN [box EXCEPT ![other(n, c)][c] = Append(@, m)] ELSE box

broadcast(box, n, m) ==
    [k \in Node |-> [c \in Conn |->
        IF n \in Ends(c) /\ k = other(n, c) /\ can_send(n, c)
        THEN Append(box[k][c], m) ELSE box[k][c]]]

-----------------------------------------------------------------------------
(* Synchronisation sessions *)

\* expected_prev_hash is None ({}) until the first batch of a session that
\* started on an empty chain.
SessionOf(blocks) == [active : BOOLEAN, done : BOOLEAN, blocks : Seq(blocks),
                      expected_height : Nat, expected_prev_hash : SUBSET Hash]

NoSession == [active |-> FALSE, done |-> FALSE, blocks |-> << >>,
              expected_height |-> 1, expected_prev_hash |-> {}]

new_session(local) ==
    [active |-> TRUE, done |-> FALSE, blocks |-> << >>,
     expected_height |-> Len(local) + 1,
     expected_prev_hash |-> IF local = << >> THEN {} ELSE {tip(local).tran_hash}]

\* Mutant: only the limits are checked, not that the batch is the one expected.
acceptable_within_limits(n, s, m) ==
    /\ Len(m.blocks) <= chain_sync_batch_size[n]
    /\ Len(s.blocks) + Len(m.blocks) <= chain_sync_max_blocks

\* The guard of _accept_chain_batch: the range asked for, consecutive and
\* linked blocks, and the limits of a session.
acceptable(n, s, m) ==
    /\ m.height = s.expected_height
    /\ m.next_height = m.height + Len(m.blocks)
    /\ m.has_more => m.blocks # << >>
    /\ Len(m.blocks) <= chain_sync_batch_size[n]
    /\ Len(s.blocks) + Len(m.blocks) <= chain_sync_max_blocks
    /\ \A i \in 1 .. Len(m.blocks) :
          /\ m.blocks[i].block_index = m.height + i - 1
          /\ IF i = 1 THEN \A h \in s.expected_prev_hash : m.blocks[1].prev_hash = h
                      ELSE m.blocks[i].prev_hash = m.blocks[i - 1].tran_hash

\* What _accept_chain_batch stores when it accepts.
accept_chain_batch(s, m) ==
    [s EXCEPT !.blocks = @ \o m.blocks,
              !.expected_height = m.next_height,
              !.expected_prev_hash = IF m.blocks = << >> THEN @
                                     ELSE {tip(m.blocks).tran_hash}]

\* Mutant: the candidate that ends higher is taken over without validation.
resolve_fork_by_height(local, remote) ==
    LET candidate == IF local # << >> /\ Head(remote).prev_hash = tip(local).tran_hash
                     THEN local \o remote ELSE remote
    IN  IF remote # << >> /\ tip(candidate).block_index > Len(local)
        THEN candidate ELSE local

\* Mutant: a suffix that links to the tip is trusted.
resolve_fork_trusting(local, remote) ==
    IF remote # << >> /\ local # << >> /\ Head(remote).prev_hash = tip(local).tran_hash
    THEN local \o remote
    ELSE IF remote # << >> /\ verify_chain_integrity(remote)
              /\ select_canonical_chain(local, remote) = remote
         THEN remote ELSE local

\* The chain a node holds after _resolve_fork of what it received.
resolve_fork(local, remote) ==
    LET candidate == IF local # << >> /\ Head(remote).prev_hash = tip(local).tran_hash
                     THEN local \o remote ELSE remote
        canonical == select_canonical_chain(local, candidate)
    IN  IF remote # << >> /\ canonical # << >> THEN replace_chain(local, canonical) ELSE local

\* sync_chain asks its peers one after the other; _request_chain returns at
\* once for a peer that has a session already.
skip_pending(todo, sessions) ==
    LET free == {i \in DOMAIN todo : ~ sessions[todo[i]].active}
    IN  IF free = {} THEN << >>
        ELSE SubSeq(todo, CHOOSE i \in free : \A j \in free : i <= j, Len(todo))

\* Task t of n goes on to the next peer it can ask and suspends there.
\* sessions and box are n's sessions and the inboxes so far in this step.
request_chain(n, t, todo, local, sessions, box) ==
    LET rest == skip_pending(todo, sessions) IN
    /\ awaiting' = [awaiting EXCEPT ![n][t] = rest]
    /\ IF rest = << >>
       THEN /\ session' = [session EXCEPT ![n] = sessions]
            /\ inbox' = box
       ELSE /\ session' = [session EXCEPT ![n] = [sessions EXCEPT ![Head(rest)] = new_session(local)]]
            /\ inbox' = send_to_peer(box, n, Head(rest), get_chain(n, Len(local) + 1))


-----------------------------------------------------------------------------
(* The initial state and the steps *)

Init ==
    /\ now = 0
    /\ chain = [n \in Node |-> << >>]
    /\ opened = {}
    /\ peers = [n \in Node |-> << >>]
    /\ closed = [n \in Node |-> {}]
    /\ authed = [n \in Node |-> {}]
    /\ inbox = [n \in Node |-> [c \in Conn |-> << >>]]
    /\ session = [n \in Node |-> [c \in Conn |-> NoSession]]
    /\ awaiting = [n \in Node |-> [t \in Task |-> << >>]]
    /\ sync_calls = 0
    /\ failures = 0

Tick ==
    /\ now < MaxTime
    /\ now' = now + 1
    /\ UNCHANGED <<chain, opened, peers, closed, authed, inbox, session, awaiting, sync_calls, failures>>

\* A dial succeeds: both ends register the connection and the dialer says HELLO.
connect_peer(c) ==
    /\ c \notin opened
    /\ opened' = opened \cup {c}
    /\ peers' = [n \in Node |-> IF n \in Ends(c) THEN Append(peers[n], c) ELSE peers[n]]
    /\ inbox' = [inbox EXCEPT ![acceptor[c]][c] = <<hello(chain[dialer[c]])>>]
    /\ UNCHANGED <<now, chain, closed, authed, session, awaiting, sync_calls, failures>>

\* Mutant: the node's clock is ahead of the others.
add_new_block_ahead(n, body) ==
    /\ Len(chain[n]) < MaxHeight
    /\ \E nonce \in Nonce :
          LET block == mine_block(chain[n], body, nonce, now + 1) IN
          /\ first_nonce(chain[n], body, nonce)
          /\ chain' = [chain EXCEPT ![n] = Append(@, block)]
          /\ inbox' = broadcast(inbox, n, new_block(block))
    /\ UNCHANGED <<now, opened, peers, closed, authed, session, awaiting, sync_calls, failures>>

\* The application's add_block: mine on the tip, append, tell every peer.
add_new_block(n, body) ==
    /\ Len(chain[n]) < MaxHeight
    /\ \E nonce \in Nonce :
          LET block == mine_block(chain[n], body, nonce, now) IN
          /\ first_nonce(chain[n], body, nonce)
          /\ chain' = [chain EXCEPT ![n] = Append(@, block)]
          /\ inbox' = broadcast(inbox, n, new_block(block))
    /\ UNCHANGED <<now, opened, peers, closed, authed, session, awaiting, sync_calls, failures>>

\* The application calls sync_chain.
sync_chain(n) ==
    /\ awaiting[n][App] = << >>
    /\ sync_calls < MaxSyncCalls
    /\ sync_calls' = sync_calls + 1
    /\ request_chain(n, App, peers[n], chain[n], session[n], inbox)
    /\ UNCHANGED <<now, chain, opened, peers, closed, authed, failures>>

\* The task's session is done: _request_chain resumes, applies what was
\* collected, and the caller goes on to its next peer.
sync_done(n, t) ==
    /\ awaiting[n][t] # << >>
    /\ LET c == Head(awaiting[n][t])
           local == resolve_fork(chain[n], session[n][c].blocks) IN
       /\ session[n][c].done
       /\ chain' = [chain EXCEPT ![n] = local]
       /\ request_chain(n, t, Tail(awaiting[n][t]), local,
                        [session[n] EXCEPT ![c] = NoSession], inbox)
    /\ UNCHANGED <<now, opened, peers, closed, authed, sync_calls, failures>>

\* Mutant: the session stays in _pending_sync after a timeout.
sync_timeout_leaking(n, t) ==
    /\ awaiting[n][t] # << >>
    /\ request_chain(n, t, Tail(awaiting[n][t]), chain[n], session[n], inbox)
    /\ UNCHANGED <<now, chain, opened, peers, closed, authed, sync_calls, failures>>

\* Mutant: the wait has no timeout.
sync_timeout_never(n, t) == FALSE

\* chain_sync_timeout_seconds pass; wait_for may also expire just after the
\* session was completed.
sync_timeout(n, t) ==
    /\ awaiting[n][t] # << >>
    /\ LET c == Head(awaiting[n][t]) IN
       request_chain(n, t, Tail(awaiting[n][t]), chain[n],
                     [session[n] EXCEPT ![c] = NoSession], inbox)
    /\ UNCHANGED <<now, chain, opened, peers, closed, authed, sync_calls, failures>>

-----------------------------------------------------------------------------
(* The listen loop of n on c takes the next message. *)

reads(n, c) ==
    c \in registered(n) /\ awaiting[n][c] = << >> /\ inbox[n][c] # << >>

next_message(n, c) == Head(inbox[n][c])

\* The inboxes once that message is taken.
taken(n, c) == [inbox EXCEPT ![n][c] = Tail(@)]

\* A dict without one of its keys.
without(keys, c) ==
    LET i == CHOOSE j \in DOMAIN keys : keys[j] = c
    IN  SubSeq(keys, 1, i - 1) \o SubSeq(keys, i + 1, Len(keys))

\* The listen loop is left: the connection is closed and forgotten.
unregister(n, c) ==
    /\ peers' = [peers EXCEPT ![n] = without(@, c)]
    /\ closed' = [closed EXCEPT ![n] = @ \cup {c}]
    /\ authed' = [authed EXCEPT ![n] = @ \ {c}]
    /\ inbox' = [inbox EXCEPT ![n][c] = << >>]

on_unauthenticated(n, c) ==
    /\ reads(n, c) /\ c \notin authed[n] /\ next_message(n, c).type # "HELLO"
    /\ unregister(n, c)
    /\ UNCHANGED <<now, chain, opened, session, awaiting, sync_calls, failures>>

\* The accepting end, which has no URL for this peer yet, answers the first
\* HELLO with its own.
on_hello(n, c) ==
    /\ reads(n, c) /\ next_message(n, c).type = "HELLO"
    /\ authed' = [authed EXCEPT ![n] = @ \cup {c}]
    /\ LET answered == IF n = acceptor[c] /\ c \notin authed[n]
                       THEN send_to_peer(taken(n, c), n, c, hello(chain[n]))
                       ELSE taken(n, c)
       IN  request_chain(n, c, IF next_message(n, c).height > Len(chain[n])
                               THEN <<c>> ELSE << >>,
                         chain[n], session[n], answered)
    /\ UNCHANGED <<now, chain, opened, peers, closed, sync_calls, failures>>

on_get_chain(n, c) ==
    /\ reads(n, c) /\ c \in authed[n] /\ next_message(n, c).type = "GET_CHAIN"
    /\ inbox' = send_to_peer(taken(n, c), n, c,
                             chain_response(n, chain[n], next_message(n, c)))
    /\ UNCHANGED <<now, chain, opened, peers, closed, authed, session, awaiting, sync_calls, failures>>

reads_response(n, c) ==
    reads(n, c) /\ c \in authed[n] /\ next_message(n, c).type = "CHAIN_RESPONSE"

\* Mutant: a response without a session is ignored.
on_unsolicited_ignored(n, c) ==
    /\ reads_response(n, c) /\ ~ session[n][c].active
    /\ inbox' = taken(n, c)
    /\ UNCHANGED <<now, chain, opened, peers, closed, authed, session, awaiting, sync_calls, failures>>

\* No session: whatever came is a candidate, and has_more is not looked at.
on_unsolicited_response(n, c) ==
    /\ reads_response(n, c) /\ ~ session[n][c].active
    /\ chain' = [chain EXCEPT ![n] = resolve_fork(@, next_message(n, c).blocks)]
    /\ inbox' = taken(n, c)
    /\ UNCHANGED <<now, opened, peers, closed, authed, session, awaiting, sync_calls, failures>>

on_late_response(n, c) ==
    /\ reads_response(n, c) /\ session[n][c].active /\ session[n][c].done
    /\ inbox' = taken(n, c)
    /\ UNCHANGED <<now, chain, opened, peers, closed, authed, session, awaiting, sync_calls, failures>>

on_accepted_batch(n, c) ==
    LET m == next_message(n, c)
        s == accept_chain_batch(session[n][c], m)
    IN
    /\ reads_response(n, c) /\ session[n][c].active /\ ~ session[n][c].done
    /\ acceptable(n, session[n][c], m)
    /\ session' = [session EXCEPT ![n][c] = [s EXCEPT !.done = ~ m.has_more]]
    /\ inbox' = IF m.has_more
                THEN send_to_peer(taken(n, c), n, c, get_chain(n, s.expected_height))
                ELSE taken(n, c)
    /\ UNCHANGED <<now, chain, opened, peers, closed, authed, awaiting, sync_calls, failures>>

\* A batch that does not fit: the session ends empty-handed and the peer is closed.
on_rejected_batch(n, c) ==
    /\ reads_response(n, c) /\ session[n][c].active /\ ~ session[n][c].done
    /\ ~ acceptable(n, session[n][c], next_message(n, c))
    /\ session' = [session EXCEPT ![n][c] = [@ EXCEPT !.blocks = << >>, !.done = TRUE]]
    /\ closed' = [closed EXCEPT ![n] = @ \cup {c}]
    /\ inbox' = taken(n, c)
    /\ UNCHANGED <<now, chain, opened, peers, authed, awaiting, sync_calls, failures>>

\* A block is appended when it extends the chain; otherwise the handler runs
\* sync_chain over all peers and returns only when that is over.
on_new_block(n, c) ==
    LET block == Head(next_message(n, c).blocks) IN
    /\ reads(n, c) /\ c \in authed[n] /\ next_message(n, c).type = "NEW_BLOCK"
    /\ IF add_block(block, chain[n])
       THEN /\ chain' = [chain EXCEPT ![n] = Append(@, block)]
            /\ inbox' = taken(n, c)
            /\ UNCHANGED <<session, awaiting>>
       ELSE /\ request_chain(n, c, peers[n], chain[n], session[n], taken(n, c))
            /\ UNCHANGED chain
    /\ UNCHANGED <<now, opened, peers, closed, authed, sync_calls, failures>>

-----------------------------------------------------------------------------
(* Connections end. *)

\* No valid HELLO within handshake_timeout_seconds (either end waits for one).
handshake_timeout(n, c) ==
    /\ failures < MaxFailures /\ failures' = failures + 1
    /\ c \in registered(n) /\ c \notin authed[n] /\ c \notin closed[n]
    /\ closed' = [closed EXCEPT ![n] = @ \cup {c}]
    /\ UNCHANGED <<now, chain, opened, peers, authed, inbox, session, awaiting, sync_calls>>

\* The network loses the connection.
connection_lost(c) ==
    /\ failures < MaxFailures /\ failures' = failures + 1
    /\ c \in opened
    /\ \E n \in Ends(c) : c \notin closed[n]
    /\ closed' = [n \in Node |-> IF n \in Ends(c) THEN closed[n] \cup {c} ELSE closed[n]]
    /\ UNCHANGED <<now, chain, opened, peers, authed, inbox, session, awaiting, sync_calls>>

\* The loop notices that the socket is closed; what was not read is lost.
listen_end(n, c) ==
    /\ c \in registered(n) /\ awaiting[n][c] = << >>
    /\ \E k \in Ends(c) : c \in closed[k]
    /\ unregister(n, c)
    /\ UNCHANGED <<now, chain, opened, session, awaiting, sync_calls, failures>>

-----------------------------------------------------------------------------

receive(n, c) ==
    \/ on_unauthenticated(n, c)
    \/ on_hello(n, c)
    \/ on_get_chain(n, c)
    \/ on_unsolicited_response(n, c)
    \/ on_late_response(n, c)
    \/ on_accepted_batch(n, c)
    \/ on_rejected_batch(n, c)
    \/ on_new_block(n, c)

Next ==
    \/ Tick
    \/ \E c \in Conn : connect_peer(c) \/ connection_lost(c)
    \/ \E n \in Miner, body \in Bodies : add_new_block(n, body)
    \/ \E n \in Node : sync_chain(n)
    \/ \E n \in Node, t \in Task : sync_done(n, t) \/ sync_timeout(n, t)
    \/ \E n \in Node, c \in Conn : receive(n, c) \/ handshake_timeout(n, c) \/ listen_end(n, c)

Spec == Init /\ [][Next]_vars

\* The event loop runs every task that is ready: a listen loop that can read
\* or has lost its socket, and a task whose session is done or has timed out.
Fairness ==
    /\ \A n \in Node, t \in Task : WF_vars(sync_done(n, t) \/ sync_timeout(n, t))
    /\ \A n \in Node, c \in Conn : WF_vars(receive(n, c) \/ listen_end(n, c))

FairSpec == Spec /\ Fairness

-----------------------------------------------------------------------------
(* Properties *)

\* Blocks stamped by a clock that has not passed t.
BlockUpTo(t) == {block \in Block : block.block_item <= t}

\* Type correctness, and no chain, session or message holds a block stamped
\* in the future.
TypeOK ==
    /\ now \in 0 .. MaxTime
    /\ chain \in [Node -> Seq(BlockUpTo(now))]
    /\ opened \subseteq Conn
    /\ peers \in [Node -> Seq(Conn)]
    /\ closed \in [Node -> SUBSET Conn]
    /\ authed \in [Node -> SUBSET Conn]
    /\ inbox \in [Node -> [Conn -> Seq(MessageOf(BlockUpTo(now)))]]
    /\ session \in [Node -> [Conn -> SessionOf(BlockUpTo(now))]]
    /\ awaiting \in [Node -> [Task -> Seq(Conn)]]
    /\ sync_calls \in 0 .. MaxSyncCalls
    /\ failures \in 0 .. MaxFailures

\* Whatever mixture of own blocks, gossiped blocks and batches a node has put
\* together, verify_chain accepts its chain (and a restart will restore it).
ChainsValid == \A n \in Node : verify_chain_integrity(chain[n])

\* A node gives up its chain only for one the fork choice puts strictly
\* above it: in no step does the score of a chain fall, or stay, while the
\* chain changes.
ScoreGrows ==
    [][\A n \in Node : chain'[n] # chain[n] => outscores(chain'[n], chain[n])]_vars

\* What the nodes do to their chains is what Ledgers allows: extend by one
\* valid block, or adopt a valid chain that wins the fork choice.
L == INSTANCE Ledgers WITH Valid <- verify_chain_integrity, Beats <- outscores

ImplementsLedgers == L!Spec

\* _pending_sync never leaks: a peer has a session exactly while one task,
\* and one only, is suspended in _request_chain for it.
SessionsOwned ==
    \A n \in Node, c \in Conn :
        LET waiting == {t \in Task : awaiting[n][t] # << >> /\ Head(awaiting[n][t]) = c}
        IN  IF session[n][c].active THEN \E t \in Task : waiting = {t} ELSE waiting = {}

\* The batches a session has put together, possibly answered from different
\* chains of the peer, are one run of consecutive, linked blocks, and the
\* session expects exactly the block after them.
SessionLinked ==
    \A n \in Node, c \in Conn :
        LET s == session[n][c] IN
        /\ \A i \in 1 .. Len(s.blocks) - 1 :
              /\ s.blocks[i + 1].prev_hash = s.blocks[i].tran_hash
              /\ s.blocks[i + 1].block_index = s.blocks[i].block_index + 1
        /\ s.blocks # << >> => /\ s.expected_prev_hash = {tip(s.blocks).tran_hash}
                               /\ s.expected_height = tip(s.blocks).block_index + 1

\* Every request for a chain comes to an end.
SessionsEnd ==
    \A n \in Node, c \in Conn : session[n][c].active ~> ~ session[n][c].active

\* Two nodes that wait for each other's chain inside their listen loops do
\* not block each other for good: what is in an inbox gets read or is dropped.
InboxesDrain == \A n \in Node, c \in Conn : inbox[n][c] # << >> ~> inbox[n][c] = << >>

\* Both ends hold the connection open and have accepted the other's HELLO.
up(c) ==
    \A n \in Ends(c) : c \in registered(n) /\ c \notin closed[n] /\ c \in authed[n]

\* Nodes that stay connected end up with chains of the same total difficulty.
Converge ==
    \A c \in Conn :
        <>[]up(c) => <>[](total_difficulty(chain[dialer[c]])
                            = total_difficulty(chain[acceptor[c]]))

=============================================================================
