--------------------------- MODULE ChainSync_proofs ---------------------------
(* What holds of the synchronising nodes for every number of nodes and       *)
(* connections, every batch size and limit, and every consensus setting.     *)
EXTENDS ChainSync, PowChain_proofs

Inboxes(S) == [Node -> [Conn -> Seq(MessageOf(S))]]

-----------------------------------------------------------------------------
(* Types of what the helpers return.  S is a set of blocks. *)

\* The peer of a node is a node.
LEMMA OtherType ==
    ASSUME NEW n \in Node, NEW c \in Conn
    PROVE  other(n, c) \in Node /\ dialer[c] \in Node /\ acceptor[c] \in Node
BY SyncSettings DEF other

\* Messages and sessions over blocks remain so over more blocks.
LEMMA MessageMonotone ==
    ASSUME NEW S, NEW T, S \subseteq T
    PROVE  /\ MessageOf(S) \subseteq MessageOf(T)
           /\ SessionOf(S) \subseteq SessionOf(T)
<1>1. Seq(S) \subseteq Seq(T)
    BY SeqMonotone
<1>2. MessageOf(S) \subseteq MessageOf(T)
    BY <1>1 DEF MessageOf
<1>3. SessionOf(S) \subseteq SessionOf(T)
    BY <1>1 DEF SessionOf
<1> QED BY <1>2, <1>3

\* What the senders put on the wire.
LEMMA MessagesTyped ==
    ASSUME NEW S, NEW n \in Node
    PROVE  /\ \A local \in Seq(S) : hello(local) \in MessageOf(S)
           /\ \A height \in Nat : get_chain(n, height) \in MessageOf(S)
           /\ \A block \in S : new_block(block) \in MessageOf(S)
<1>1. << >> \in Seq(S) /\ \A block \in S : <<block>> \in Seq(S) /\ <<block>> # << >>
    OBVIOUS
<1>2. ASSUME NEW local \in Seq(S) PROVE hello(local) \in MessageOf(S)
    <2>1. Len(local) \in Nat
        OBVIOUS
    <2> QED BY <1>1, <2>1 DEF hello, message, MessageOf, MessageType
<1>3. ASSUME NEW height \in Nat PROVE get_chain(n, height) \in MessageOf(S)
    BY <1>1, SyncSettings DEF get_chain, message, MessageOf, MessageType
<1>4. ASSUME NEW block \in S PROVE new_block(block) \in MessageOf(S)
    BY <1>1 DEF new_block, message, MessageOf, MessageType
<1> QED BY <1>2, <1>3, <1>4

\* A run of blocks cut out of a chain.
LEMMA BlocksFromType ==
    ASSUME NEW S, NEW local \in Seq(S), NEW from \in Nat, NEW limit \in Nat
    PROVE  get_blocks_from(local, from, limit) \in Seq(S)
<1> DEFINE lo == larger(from, 1)
           hi == smaller(Len(local), lo + limit - 1)
<1>1. lo \in Nat /\ lo >= 1 /\ hi \in Int /\ hi <= Len(local)
    BY DEF larger, smaller
<1> HIDE DEF lo, hi
<1>2. SubSeq(local, lo, hi) \in Seq(S)
    BY <1>1
<1> QED BY <1>2 DEF get_blocks_from, lo, hi

\* The answer to GET_CHAIN.
LEMMA ResponseType ==
    ASSUME NEW S, NEW n \in Node, NEW local \in Seq(S), NEW request \in MessageOf(S)
    PROVE  chain_response(n, local, request) \in MessageOf(S)
<1> DEFINE size   == larger(1, smaller(request.limit, chain_sync_batch_size[n]))
           blocks == get_blocks_from(local, request.height, size)
           after  == request.height + Len(blocks)
<1>1. request.height \in Nat /\ request.limit \in Nat
    BY DEF MessageOf
<1>2. size \in Nat
    BY <1>1, SyncSettings DEF larger, smaller
<1> HIDE DEF size
<1>3. blocks \in Seq(S)
    BY <1>1, <1>2, BlocksFromType
<1> HIDE DEF blocks
<1>4. after \in Nat
    BY <1>1, <1>3
<1> HIDE DEF after
<1>5. (Len(blocks) = size /\ after <= Len(local)) \in BOOLEAN
    OBVIOUS
<1>6. message("CHAIN_RESPONSE", request.height, 0, after,
              Len(blocks) = size /\ after <= Len(local), blocks) \in MessageOf(S)
    BY <1>1, <1>3, <1>4, <1>5 DEF message, MessageOf, MessageType
<1> QED BY <1>6 DEF chain_response, size, blocks, after

\* Sending adds messages to inboxes.
LEMMA SendType ==
    ASSUME NEW S, NEW box \in Inboxes(S), NEW n \in Node, NEW c \in Conn, NEW m \in MessageOf(S)
    PROVE  send_to_peer(box, n, c, m) \in Inboxes(S)
<1>1. other(n, c) \in Node
    BY OtherType
<1> QED BY <1>1 DEF send_to_peer, Inboxes

\* So does telling every peer.
LEMMA BroadcastType ==
    ASSUME NEW S, NEW box \in Inboxes(S), NEW n \in Node, NEW m \in MessageOf(S)
    PROVE  broadcast(box, n, m) \in Inboxes(S)
BY DEF broadcast, Inboxes

\* Taking a message, or all of them, out of an inbox.
LEMMA TakenType ==
    ASSUME NEW S, inbox \in Inboxes(S), NEW n \in Node, NEW c \in Conn, inbox[n][c] # << >>
    PROVE  taken(n, c) \in Inboxes(S) /\ next_message(n, c) \in MessageOf(S)
<1>1. inbox[n][c] \in Seq(MessageOf(S))
    BY DEF Inboxes
<1>2. Tail(inbox[n][c]) \in Seq(MessageOf(S)) /\ Head(inbox[n][c]) \in MessageOf(S)
    BY <1>1
<1> QED BY <1>2 DEF taken, next_message, Inboxes

\* The hash a session expects next comes from a block.
LEMMA TipOfType ==
    ASSUME NEW S, S \subseteq Block, NEW c \in Seq(S), c # << >>
    PROVE  tip(c) \in S /\ tip(c).tran_hash \in Hash
<1>1. tip(c) \in S
    BY DEF tip
<1> QED BY <1>1 DEF Block

\* Sessions begin empty.
LEMMA NewSessionType ==
    ASSUME NEW S, S \subseteq Block, NEW local \in Seq(S)
    PROVE  NoSession \in SessionOf(S) /\ new_session(local) \in SessionOf(S)
<1>1. NoSession \in SessionOf(S)
    BY DEF NoSession, SessionOf
<1>2. (IF local = << >> THEN {} ELSE {tip(local).tran_hash}) \in SUBSET Hash
    BY TipOfType
<1> QED BY <1>1, <1>2 DEF new_session, SessionOf

\* The batches of a session stay blocks of S.
LEMMA AcceptType ==
    ASSUME NEW S, S \subseteq Block, NEW s \in SessionOf(S), NEW m \in MessageOf(S)
    PROVE  accept_chain_batch(s, m) \in SessionOf(S)
<1>1. m.blocks \in Seq(S) /\ m.next_height \in Nat
    BY DEF MessageOf
<1>2. s.blocks \in Seq(S) /\ s.expected_prev_hash \in SUBSET Hash
    BY DEF SessionOf
<1>3. s.blocks \o m.blocks \in Seq(S)
    BY <1>1, <1>2
<1>4. (IF m.blocks = << >> THEN s.expected_prev_hash ELSE {tip(m.blocks).tran_hash})
          \in SUBSET Hash
    BY <1>1, <1>2, TipOfType
<1> QED BY <1>1, <1>3, <1>4 DEF accept_chain_batch, SessionOf

\* A session that ends empty-handed.
LEMMA EmptiedType ==
    ASSUME NEW S, NEW s \in SessionOf(S)
    PROVE  [s EXCEPT !.blocks = << >>, !.done = TRUE] \in SessionOf(S)
<1>1. << >> \in Seq(S)
    OBVIOUS
<1> QED BY <1>1 DEF SessionOf

\* What is left of the peers to ask, once those with a session are skipped.
LEMMA SkipType ==
    ASSUME NEW todo \in Seq(Conn), NEW sessions
    PROVE  skip_pending(todo, sessions) \in Seq(Conn)
<1> DEFINE free == {i \in DOMAIN todo : ~ sessions[todo[i]].active}
<1>1. CASE free = {}
    BY <1>1 DEF skip_pending
<1>2. CASE free # {}
    <2> DEFINE first == CHOOSE i \in free : \A j \in free : i <= j
    <2>1. Len(todo) \in Nat /\ free \in SUBSET (1 .. Len(todo))
        OBVIOUS
    <2> HIDE DEF free
    <2>2. \E i \in free : \A j \in free : i <= j
        BY <1>2, <2>1, FirstPosition
    <2>3. first \in 1 .. Len(todo)
        BY <2>1, <2>2
    <2> HIDE DEF first
    <2>4. SubSeq(todo, first, Len(todo)) \in Seq(Conn)
        BY <2>3
    <2> QED BY <1>2, <2>4 DEF skip_pending, free, first
<1> QED BY <1>1, <1>2

\* The step that ends in _request_chain: the next session, its request, and
\* the peers that remain.
LEMMA RequestType ==
    ASSUME NEW S, S \subseteq Block, NEW n \in Node, NEW t \in Task, NEW todo \in Seq(Conn),
           NEW local \in Seq(S), NEW sessions \in [Conn -> SessionOf(S)], NEW box \in Inboxes(S),
           session \in [Node -> [Conn -> SessionOf(S)]],
           awaiting \in [Node -> [Task -> Seq(Conn)]],
           request_chain(n, t, todo, local, sessions, box)
    PROVE  /\ session' \in [Node -> [Conn -> SessionOf(S)]]
           /\ awaiting' \in [Node -> [Task -> Seq(Conn)]]
           /\ inbox' \in Inboxes(S)
<1> DEFINE rest == skip_pending(todo, sessions)
<1>1. rest \in Seq(Conn)
    BY SkipType
<1> HIDE DEF rest
<1>2. /\ awaiting' = [awaiting EXCEPT ![n][t] = rest]
      /\ rest = << >> => /\ session' = [session EXCEPT ![n] = sessions]
                         /\ inbox' = box
      /\ rest # << >> =>
            /\ session' = [session EXCEPT ![n] = [sessions EXCEPT ![Head(rest)] = new_session(local)]]
            /\ inbox' = send_to_peer(box, n, Head(rest), get_chain(n, Len(local) + 1))
    BY DEF request_chain, rest
<1>3. awaiting' \in [Node -> [Task -> Seq(Conn)]]
    BY <1>1, <1>2
<1>4. CASE rest = << >>
    <2>1. session' = [session EXCEPT ![n] = sessions] /\ inbox' = box
        BY <1>2, <1>4
    <2>2. session' \in [Node -> [Conn -> SessionOf(S)]]
        BY <2>1
    <2> QED BY <1>3, <2>1, <2>2
<1>5. CASE rest # << >>
    <2>1. Head(rest) \in Conn
        BY <1>1, <1>5
    <2>2. new_session(local) \in SessionOf(S)
        BY NewSessionType
    <2>3. session' \in [Node -> [Conn -> SessionOf(S)]]
        <3> DEFINE table == [sessions EXCEPT ![Head(rest)] = new_session(local)]
        <3>1. table \in [Conn -> SessionOf(S)]
            BY <2>1, <2>2
        <3>2. session' = [session EXCEPT ![n] = table]
            BY <1>2, <1>5
        <3> HIDE DEF table
        <3> QED BY <3>1, <3>2
    <2>4. get_chain(n, Len(local) + 1) \in MessageOf(S)
        BY MessagesTyped
    <2>5. inbox' \in Inboxes(S)
        BY <1>2, <1>5, <2>1, <2>4, SendType
    <2> QED BY <1>3, <2>3, <2>5
<1> QED BY <1>4, <1>5

\* The chain after _resolve_fork is made of blocks a node had or was sent.
LEMMA ResolveForkType ==
    ASSUME NEW S, NEW local \in Seq(S), NEW remote \in Seq(S)
    PROVE  resolve_fork(local, remote) \in Seq(S)
<1>1. local \o remote \in Seq(S) /\ << >> \in Seq(S)
    OBVIOUS
<1> QED BY <1>1 DEF resolve_fork, select_canonical_chain, replace_chain

\* _resolve_fork leaves a valid chain alone, or puts another one in its place
\* that passed verification and, unless there was none before, outscores it.
LEMMA ResolveFork ==
    ASSUME NEW local, NEW remote, verify_chain_integrity(local)
    PROVE  /\ verify_chain_integrity(resolve_fork(local, remote))
           /\ \/ resolve_fork(local, remote) = local
              \/ local = << >>
              \/ outscores(resolve_fork(local, remote), local)
<1> DEFINE candidate == IF local # << >> /\ Head(remote).prev_hash = tip(local).tran_hash
                        THEN local \o remote ELSE remote
           canonical == select_canonical_chain(local, candidate)
<1>1. is_chain_valid(local)
    BY DEF is_chain_valid, verify_chain_integrity
<1> HIDE DEF candidate
<1>2. \/ canonical = local
      \/ canonical = candidate /\ (local = << >> \/ outscores(candidate, local))
    BY <1>1 DEF select_canonical_chain
<1>3. resolve_fork(local, remote) \in {local, canonical}
    BY DEF resolve_fork, replace_chain, candidate
<1>4. verify_chain_integrity(resolve_fork(local, remote))
    BY DEF resolve_fork, replace_chain
<1> QED BY <1>2, <1>3, <1>4

\* A dict entry removed: the keys that remain are connections.
LEMMA UnregisterType ==
    ASSUME NEW S, NEW n \in Node, NEW c \in Conn, c \in registered(n), unregister(n, c),
           peers \in [Node -> Seq(Conn)], closed \in [Node -> SUBSET Conn],
           authed \in [Node -> SUBSET Conn], inbox \in Inboxes(S)
    PROVE  /\ peers' \in [Node -> Seq(Conn)] /\ closed' \in [Node -> SUBSET Conn]
           /\ authed' \in [Node -> SUBSET Conn] /\ inbox' \in Inboxes(S)
<1>1. without(peers[n], c) \in Seq(Conn)
    <2> DEFINE keys == peers[n]
               i == CHOOSE j \in DOMAIN keys : keys[j] = c
    <2>1. keys \in Seq(Conn)
        OBVIOUS
    <2>2. \E j \in DOMAIN keys : keys[j] = c
        BY DEF registered
    <2>3. i \in 1 .. Len(keys)
        BY <2>1, <2>2
    <2> HIDE DEF keys, i
    <2>4. SubSeq(keys, 1, i - 1) \in Seq(Conn) /\ SubSeq(keys, i + 1, Len(keys)) \in Seq(Conn)
        BY <2>1, <2>3
    <2> QED BY <2>4 DEF without, keys, i
<1>2. peers' \in [Node -> Seq(Conn)]
    BY <1>1 DEF unregister
<1>3. inbox' \in Inboxes(S)
    BY DEF unregister, Inboxes
<1> QED BY <1>2, <1>3 DEF unregister


-----------------------------------------------------------------------------
(* Type correctness *)

\* A step that does not move the clock keeps the types when each variable
\* keeps its own.
LEMMA TypeFromParts ==
    ASSUME NEW S, S = BlockUpTo(now), TypeOK, now' = now,
           chain' \in [Node -> Seq(S)], opened' \subseteq Conn, peers' \in [Node -> Seq(Conn)],
           closed' \in [Node -> SUBSET Conn], authed' \in [Node -> SUBSET Conn],
           inbox' \in Inboxes(S), session' \in [Node -> [Conn -> SessionOf(S)]],
           awaiting' \in [Node -> [Task -> Seq(Conn)]],
           sync_calls' \in 0 .. MaxSyncCalls, failures' \in 0 .. MaxFailures
    PROVE  TypeOK'
<1>1. BlockUpTo(now') = S
    OBVIOUS
<1> QED BY <1>1 DEF TypeOK, Inboxes

\* Time passing leaves every block in the past.
LEMMA TickType ==
    ASSUME TypeOK, Tick
    PROVE  TypeOK'
<1> DEFINE S == BlockUpTo(now)
           T == BlockUpTo(now')
<1>1. now \in Nat /\ now' \in 0 .. MaxTime /\ now <= now'
    BY SyncSettings DEF TypeOK, Tick
<1>2. S \subseteq T
    BY <1>1 DEF BlockUpTo, Block
<1>3. /\ chain \in [Node -> Seq(S)]
      /\ inbox \in [Node -> [Conn -> Seq(MessageOf(S))]]
      /\ session \in [Node -> [Conn -> SessionOf(S)]]
    BY DEF TypeOK
<1>4. UNCHANGED <<chain, opened, peers, closed, authed, inbox, session, awaiting, sync_calls, failures>>
    BY DEF Tick
<1> HIDE DEF S, T
<1>5. /\ Seq(S) \subseteq Seq(T)
      /\ SessionOf(S) \subseteq SessionOf(T)
      /\ Seq(MessageOf(S)) \subseteq Seq(MessageOf(T))
    BY <1>2, SeqMonotone, MessageMonotone
<1>6. chain \in [Node -> Seq(T)]
    BY <1>3, <1>5
<1>7. inbox \in [Node -> [Conn -> Seq(MessageOf(T))]]
    BY <1>3, <1>5
<1>8. session \in [Node -> [Conn -> SessionOf(T)]]
    BY <1>3, <1>5
<1> QED BY <1>1, <1>4, <1>6, <1>7, <1>8 DEF TypeOK, T

\* The steps of the listen loop.
LEMMA ReceiveType ==
    ASSUME TypeOK, NEW n \in Node, NEW c \in Conn, receive(n, c)
    PROVE  TypeOK'
<1> DEFINE S == BlockUpTo(now)
           m == next_message(n, c)
<1>1. S \subseteq Block
    BY DEF BlockUpTo
<1>2. /\ chain \in [Node -> Seq(S)] /\ opened \subseteq Conn /\ peers \in [Node -> Seq(Conn)]
      /\ closed \in [Node -> SUBSET Conn] /\ authed \in [Node -> SUBSET Conn]
      /\ inbox \in Inboxes(S) /\ session \in [Node -> [Conn -> SessionOf(S)]]
      /\ awaiting \in [Node -> [Task -> Seq(Conn)]]
      /\ sync_calls \in 0 .. MaxSyncCalls /\ failures \in 0 .. MaxFailures
    BY DEF TypeOK, Inboxes
<1>3. reads(n, c) /\ c \in registered(n) /\ inbox[n][c] # << >>
    BY DEF receive, reads, reads_response, on_unauthenticated, on_hello, on_get_chain,
           on_unsolicited_response, on_late_response, on_accepted_batch, on_rejected_batch,
           on_new_block
<1> HIDE DEF S, m
<1>4. taken(n, c) \in Inboxes(S) /\ m \in MessageOf(S)
    BY <1>2, <1>3, TakenType DEF m
<1>5. /\ m.height \in Nat /\ m.blocks \in Seq(S) /\ m.has_more \in BOOLEAN
      /\ m.type = "NEW_BLOCK" => m.blocks # << >>
    BY <1>4 DEF MessageOf
<1>6. c \in Task /\ chain[n] \in Seq(S) /\ session[n] \in [Conn -> SessionOf(S)]
    BY <1>2 DEF Task
<1>7. now' = now
    BY DEF receive, on_unauthenticated, on_hello, on_get_chain, on_unsolicited_response,
           on_late_response, on_accepted_batch, on_rejected_batch, on_new_block
<1> USE <1>2
<1>8. CASE on_unauthenticated(n, c)
    <2>1. /\ peers' \in [Node -> Seq(Conn)] /\ closed' \in [Node -> SUBSET Conn]
          /\ authed' \in [Node -> SUBSET Conn] /\ inbox' \in Inboxes(S)
        BY <1>3, <1>8, UnregisterType DEF on_unauthenticated
    <2> QED BY <1>7, <1>8, <2>1, TypeFromParts DEF on_unauthenticated, S
<1>9. CASE on_hello(n, c)
    <2> DEFINE answered == IF n = acceptor[c] /\ c \notin authed[n]
                           THEN send_to_peer(taken(n, c), n, c, hello(chain[n]))
                           ELSE taken(n, c)
               todo == IF m.height > Len(chain[n]) THEN <<c>> ELSE << >>
    <2>1. answered \in Inboxes(S)
        <3>1. hello(chain[n]) \in MessageOf(S)
            BY <1>6, MessagesTyped
        <3> QED BY <1>4, <3>1, SendType
    <2>2. todo \in Seq(Conn)
        OBVIOUS
    <2>3. request_chain(n, c, todo, chain[n], session[n], answered)
        BY <1>9 DEF on_hello, m
    <2> HIDE DEF answered, todo
    <2>4. /\ session' \in [Node -> [Conn -> SessionOf(S)]]
          /\ awaiting' \in [Node -> [Task -> Seq(Conn)]]
          /\ inbox' \in Inboxes(S)
        BY <1>1, <1>6, <2>1, <2>2, <2>3, RequestType
    <2>5. authed' \in [Node -> SUBSET Conn]
        BY <1>9 DEF on_hello
    <2> QED BY <1>7, <1>9, <2>4, <2>5, TypeFromParts DEF on_hello, S
<1>10. CASE on_get_chain(n, c)
    <2>1. chain_response(n, chain[n], m) \in MessageOf(S)
        BY <1>4, <1>6, ResponseType
    <2>2. inbox' \in Inboxes(S)
        BY <1>4, <1>10, <2>1, SendType DEF on_get_chain, m
    <2> QED BY <1>7, <1>10, <2>2, TypeFromParts DEF on_get_chain, S
<1>11. CASE on_unsolicited_response(n, c)
    <2>1. resolve_fork(chain[n], m.blocks) \in Seq(S)
        BY <1>5, <1>6, ResolveForkType
    <2>2. chain' \in [Node -> Seq(S)]
        BY <1>11, <2>1 DEF on_unsolicited_response, m
    <2> QED BY <1>4, <1>7, <1>11, <2>2, TypeFromParts DEF on_unsolicited_response, S
<1>12. CASE on_late_response(n, c)
    BY <1>4, <1>7, <1>12, TypeFromParts DEF on_late_response, S
<1>13. CASE on_accepted_batch(n, c)
    <2> DEFINE s == accept_chain_batch(session[n][c], m)
    <2>1. s \in SessionOf(S)
        BY <1>1, <1>4, <1>6, AcceptType
    <2> HIDE DEF s
    <2>2. /\ [s EXCEPT !.done = ~ m.has_more] \in SessionOf(S)
          /\ s.expected_height \in Nat
        BY <2>1 DEF SessionOf
    <2>3. session' \in [Node -> [Conn -> SessionOf(S)]]
        BY <1>13, <2>2 DEF on_accepted_batch, s, m
    <2>4. get_chain(n, s.expected_height) \in MessageOf(S)
        BY <2>2, MessagesTyped
    <2>5. send_to_peer(taken(n, c), n, c, get_chain(n, s.expected_height)) \in Inboxes(S)
        BY <1>4, <2>4, SendType
    <2>6. inbox' \in Inboxes(S)
        BY <1>4, <1>13, <2>5 DEF on_accepted_batch, s, m
    <2> QED BY <1>7, <1>13, <2>3, <2>6, TypeFromParts DEF on_accepted_batch, S
<1>14. CASE on_rejected_batch(n, c)
    <2>1. session' \in [Node -> [Conn -> SessionOf(S)]]
        <3> DEFINE s == [session[n][c] EXCEPT !.blocks = << >>, !.done = TRUE]
        <3>1. session[n][c] \in SessionOf(S)
            OBVIOUS
        <3>2. s \in SessionOf(S)
            BY <3>1, EmptiedType
        <3>3. session' = [session EXCEPT ![n][c] = s]
            BY <1>14 DEF on_rejected_batch
        <3> HIDE DEF s
        <3> QED BY <3>2, <3>3
    <2>2. closed' \in [Node -> SUBSET Conn]
        BY <1>14 DEF on_rejected_batch
    <2> QED BY <1>4, <1>7, <1>14, <2>1, <2>2, TypeFromParts DEF on_rejected_batch, S
<1>15. CASE on_new_block(n, c)
    <2> DEFINE block == Head(m.blocks)
    <2>1. block \in S
        BY <1>5, <1>15 DEF on_new_block, m
    <2>2. CASE add_block(block, chain[n])
        <3>1. Append(chain[n], block) \in Seq(S)
            BY <1>6, <2>1
        <3>2. chain' \in [Node -> Seq(S)]
            BY <1>15, <2>2, <3>1 DEF on_new_block, m
        <3> QED BY <1>4, <1>7, <1>15, <2>2, <3>2, TypeFromParts DEF on_new_block, S, m
    <2>3. CASE ~ add_block(block, chain[n])
        <3>1. request_chain(n, c, peers[n], chain[n], session[n], taken(n, c))
            BY <1>15, <2>3 DEF on_new_block, m
        <3>2. peers[n] \in Seq(Conn)
            OBVIOUS
        <3>3. /\ session' \in [Node -> [Conn -> SessionOf(S)]]
              /\ awaiting' \in [Node -> [Task -> Seq(Conn)]]
              /\ inbox' \in Inboxes(S)
            BY <1>1, <1>4, <1>6, <3>1, <3>2, RequestType
        <3> QED BY <1>7, <1>15, <2>3, <3>3, TypeFromParts DEF on_new_block, S, m
    <2> QED BY <2>2, <2>3
<1> QED BY <1>8, <1>9, <1>10, <1>11, <1>12, <1>13, <1>14, <1>15 DEF receive

\* The steps of the application, of suspended tasks and of connections.
LEMMA OtherStepType ==
    ASSUME TypeOK,
           \/ \E c \in Conn : connect_peer(c) \/ connection_lost(c)
           \/ \E n \in Miner, body \in Bodies : add_new_block(n, body)
           \/ \E n \in Node : sync_chain(n)
           \/ \E n \in Node, t \in Task : sync_done(n, t) \/ sync_timeout(n, t)
           \/ \E n \in Node, c \in Conn : handshake_timeout(n, c) \/ listen_end(n, c)
    PROVE  TypeOK'
<1> DEFINE S == BlockUpTo(now)
<1>1. S \subseteq Block
    BY DEF BlockUpTo
<1>2. /\ chain \in [Node -> Seq(S)] /\ opened \subseteq Conn /\ peers \in [Node -> Seq(Conn)]
      /\ closed \in [Node -> SUBSET Conn] /\ authed \in [Node -> SUBSET Conn]
      /\ inbox \in Inboxes(S) /\ session \in [Node -> [Conn -> SessionOf(S)]]
      /\ awaiting \in [Node -> [Task -> Seq(Conn)]]
      /\ sync_calls \in 0 .. MaxSyncCalls /\ failures \in 0 .. MaxFailures
      /\ now \in Nat
    BY DEF TypeOK, Inboxes
<1> USE <1>2
<1>3. ASSUME NEW c \in Conn, connect_peer(c) PROVE TypeOK'
    <2>1. dialer[c] \in Node /\ acceptor[c] \in Node
        BY SyncSettings
    <2> HIDE DEF S
    <2>2. hello(chain[dialer[c]]) \in MessageOf(S)
        <3>1. chain[dialer[c]] \in Seq(S)
            BY <2>1
        <3> QED BY <2>1, <3>1, MessagesTyped
    <2>3. inbox' \in Inboxes(S)
        BY <1>3, <2>1, <2>2 DEF connect_peer, Inboxes
    <2>4. peers' \in [Node -> Seq(Conn)]
        BY <1>3 DEF connect_peer
    <2>5. opened' \subseteq Conn
        BY <1>3 DEF connect_peer
    <2> QED BY <1>3, <2>3, <2>4, <2>5, TypeFromParts DEF connect_peer, S
<1>4. ASSUME NEW c \in Conn, connection_lost(c) PROVE TypeOK'
    <2>1. closed' \in [Node -> SUBSET Conn]
        BY <1>4 DEF connection_lost
    <2>2. failures' \in 0 .. MaxFailures
        BY <1>4, SyncSettings DEF connection_lost
    <2> QED BY <1>4, <2>1, <2>2, TypeFromParts DEF connection_lost
<1>5. ASSUME NEW n \in Miner, NEW body \in Bodies, add_new_block(n, body) PROVE TypeOK'
    <2>1. n \in Node
        BY SyncSettings
    <2>2. PICK nonce \in Nonce :
              LET block == mine_block(chain[n], body, nonce, now) IN
              /\ chain' = [chain EXCEPT ![n] = Append(@, block)]
              /\ inbox' = broadcast(inbox, n, new_block(block))
        BY <1>5 DEF add_new_block
    <2> DEFINE block == mine_block(chain[n], body, nonce, now)
    <2>3. block \in S
        <3>1. chain[n] \in Seq(Block)
            BY <1>1, <2>1, SeqMonotone
        <3>2. block \in Block /\ block.block_item = now
            BY <3>1, MineType
        <3> QED BY <3>2 DEF BlockUpTo
    <2>4. /\ chain' = [chain EXCEPT ![n] = Append(@, block)]
          /\ inbox' = broadcast(inbox, n, new_block(block))
        BY <2>2
    <2> HIDE DEF S, block
    <2>5. chain' \in [Node -> Seq(S)]
        BY <2>1, <2>3, <2>4
    <2>6. new_block(block) \in MessageOf(S)
        BY <2>1, <2>3, MessagesTyped
    <2>7. inbox' \in Inboxes(S)
        BY <2>1, <2>4, <2>6, BroadcastType
    <2> QED BY <1>5, <2>5, <2>7, TypeFromParts DEF add_new_block, S
<1>6. ASSUME NEW n \in Node, sync_chain(n) PROVE TypeOK'
    <2> HIDE DEF S
    <2>1. request_chain(n, App, peers[n], chain[n], session[n], inbox)
        BY <1>6 DEF sync_chain
    <2>2. /\ App \in Task /\ peers[n] \in Seq(Conn) /\ chain[n] \in Seq(S)
          /\ session[n] \in [Conn -> SessionOf(S)]
        BY DEF Task
    <2>3. /\ session' \in [Node -> [Conn -> SessionOf(S)]]
          /\ awaiting' \in [Node -> [Task -> Seq(Conn)]]
          /\ inbox' \in Inboxes(S)
        BY <1>1, <2>1, <2>2, RequestType
    <2>4. sync_calls' \in 0 .. MaxSyncCalls
        BY <1>6, SyncSettings DEF sync_chain
    <2> QED BY <1>6, <2>3, <2>4, TypeFromParts DEF sync_chain, S
<1>7. ASSUME NEW n \in Node, NEW t \in Task, sync_done(n, t) \/ sync_timeout(n, t)
      PROVE  TypeOK'
    <2> DEFINE c == Head(awaiting[n][t])
               todo == Tail(awaiting[n][t])
               rest == [session[n] EXCEPT ![c] = NoSession]
               local == resolve_fork(chain[n], session[n][c].blocks)
    <2> HIDE DEF S
    <2>1. c \in Conn /\ todo \in Seq(Conn)
        <3>1. awaiting[n][t] # << >>
            BY <1>7, Zenon DEF sync_done, sync_timeout
        <3>2. awaiting[n][t] \in Seq(Conn)
            OBVIOUS
        <3> QED BY <3>1, <3>2
    <2>2. \/ /\ sync_done(n, t)
             /\ chain' = [chain EXCEPT ![n] = local]
             /\ request_chain(n, t, todo, local, rest, inbox)
          \/ /\ sync_timeout(n, t)
             /\ chain' = chain
             /\ request_chain(n, t, todo, chain[n], rest, inbox)
        BY <1>7, Zenon DEF sync_done, sync_timeout
    <2> HIDE DEF c, todo
    <2>3. chain[n] \in Seq(S) /\ session[n] \in [Conn -> SessionOf(S)]
        OBVIOUS
    <2>4. rest \in [Conn -> SessionOf(S)]
        <3>1. NoSession \in SessionOf(S)
            BY <1>1, <2>3, NewSessionType
        <3> QED BY <2>3, <3>1
    <2>5. local \in Seq(S)
        <3>1. session[n][c].blocks \in Seq(S)
            BY <2>1, <2>3 DEF SessionOf
        <3> QED BY <2>3, <3>1, ResolveForkType
    <2> HIDE DEF rest, local
    <2>6. chain' \in [Node -> Seq(S)]
        BY <2>2, <2>5
    <2>7. /\ session' \in [Node -> [Conn -> SessionOf(S)]]
          /\ awaiting' \in [Node -> [Task -> Seq(Conn)]]
          /\ inbox' \in Inboxes(S)
        BY <1>1, <2>1, <2>2, <2>3, <2>4, <2>5, RequestType
    <2>8. UNCHANGED <<now, opened, peers, closed, authed, sync_calls, failures>>
        BY <1>7 DEF sync_done, sync_timeout
    <2> QED BY <2>6, <2>7, <2>8, TypeFromParts DEF S
<1>8. ASSUME NEW n \in Node, NEW c \in Conn, handshake_timeout(n, c) PROVE TypeOK'
    <2>1. closed' \in [Node -> SUBSET Conn]
        BY <1>8 DEF handshake_timeout
    <2>2. failures' \in 0 .. MaxFailures
        BY <1>8, SyncSettings DEF handshake_timeout
    <2> QED BY <1>8, <2>1, <2>2, TypeFromParts DEF handshake_timeout
<1>9. ASSUME NEW n \in Node, NEW c \in Conn, listen_end(n, c) PROVE TypeOK'
    <2> HIDE DEF S
    <2>1. /\ peers' \in [Node -> Seq(Conn)] /\ closed' \in [Node -> SUBSET Conn]
          /\ authed' \in [Node -> SUBSET Conn] /\ inbox' \in Inboxes(S)
        BY <1>9, UnregisterType DEF listen_end
    <2> QED BY <1>9, <2>1, TypeFromParts DEF listen_end, S
<1> QED BY <1>3, <1>4, <1>5, <1>6, <1>7, <1>8, <1>9

\* The initial state is well typed.
LEMMA InitType == Init => TypeOK
<1> SUFFICES ASSUME Init PROVE TypeOK
    OBVIOUS
<1> DEFINE S == BlockUpTo(now)
<1>1. S \subseteq Block /\ << >> \in Seq(S)
    BY DEF BlockUpTo
<1>2. NoSession \in SessionOf(S)
    BY <1>1, NewSessionType
<1>3. session \in [Node -> [Conn -> SessionOf(S)]]
    BY <1>2 DEF Init
<1> HIDE DEF S
<1>4. chain \in [Node -> Seq(S)] /\ inbox \in [Node -> [Conn -> Seq(MessageOf(S))]]
    BY DEF Init
<1>5. now \in 0 .. MaxTime /\ sync_calls \in 0 .. MaxSyncCalls /\ failures \in 0 .. MaxFailures
    BY SyncSettings DEF Init
<1>6. /\ opened \subseteq Conn /\ peers \in [Node -> Seq(Conn)]
      /\ closed \in [Node -> SUBSET Conn] /\ authed \in [Node -> SUBSET Conn]
      /\ awaiting \in [Node -> [Task -> Seq(Conn)]]
    BY DEF Init
<1> QED BY <1>3, <1>4, <1>5, <1>6 DEF TypeOK, S

\* Every step keeps the types.
LEMMA NextType == TypeOK /\ [Next]_vars => TypeOK'
<1> SUFFICES ASSUME TypeOK, [Next]_vars PROVE TypeOK'
    OBVIOUS
<1>1. CASE Tick
    BY <1>1, TickType
<1>2. ASSUME NEW n \in Node, NEW c \in Conn, receive(n, c) PROVE TypeOK'
    BY <1>2, ReceiveType
<1>3. CASE UNCHANGED vars
    BY <1>3 DEF vars, TypeOK
<1> QED BY <1>1, <1>2, <1>3, OtherStepType DEF Next

\* No node ever holds, collects or sends a block stamped in its future, and
\* every NEW_BLOCK carries a block: the handlers never meet a value they were
\* not written for.
THEOREM TypeCorrect == Spec => []TypeOK
BY InitType, NextType, PTL DEF Spec

-----------------------------------------------------------------------------
(* Validity of the chains, and the abstract specification *)

\* What a step may make of the chain of a node: one block more, or a chain
\* that outscores it (any, when it was empty); valid in both cases.
Successor(old, new) ==
    /\ verify_chain_integrity(new)
    /\ \/ \E block \in Block : new = Append(old, block)
       \/ old = << >>
       \/ outscores(new, old)

\* No step touches more than one chain, and what it makes of it is a successor.
LEMMA ChainStep ==
    ASSUME TypeOK, ChainsValid, Next
    PROVE  \/ chain' = chain
           \/ \E n \in Node : /\ chain' = [chain EXCEPT ![n] = chain'[n]]
                              /\ Successor(chain[n], chain'[n])
<1> DEFINE Changed == \E n \in Node : /\ chain' = [chain EXCEPT ![n] = chain'[n]]
                                      /\ Successor(chain[n], chain'[n])
<1>0. ASSUME NEW n \in Node, NEW new, chain' = [chain EXCEPT ![n] = new]
      PROVE  chain'[n] = new /\ chain' = [chain EXCEPT ![n] = chain'[n]]
    BY <1>0 DEF TypeOK
<1>1. ASSUME NEW n \in Node
      PROVE  /\ chain[n] \in Seq(Block) /\ verify_chain_integrity(chain[n])
             /\ chain[n] # << >> => tip(chain[n]).block_item <= now
    <2>1. BlockUpTo(now) \subseteq Block /\ chain[n] \in Seq(BlockUpTo(now))
        BY DEF BlockUpTo, TypeOK
    <2>2. chain[n] \in Seq(Block)
        BY <2>1, SeqMonotone
    <2>3. chain[n] # << >> => tip(chain[n]) \in BlockUpTo(now)
        BY <2>1, TipOfType
    <2> QED BY <2>2, <2>3 DEF BlockUpTo, ChainsValid
<1>2. ASSUME NEW n \in Node, NEW remote, chain' = [chain EXCEPT ![n] = resolve_fork(@, remote)]
      PROVE  chain' = chain \/ Changed
    <2>1. \/ resolve_fork(chain[n], remote) = chain[n]
          \/ Successor(chain[n], resolve_fork(chain[n], remote))
        BY <1>1, ResolveFork DEF Successor
    <2>2. resolve_fork(chain[n], remote) = chain[n] => chain' = chain
        BY <1>2 DEF TypeOK
    <2> QED BY <1>0, <1>2, <2>1, <2>2
<1>3. ASSUME NEW n \in Miner, NEW body \in Bodies, add_new_block(n, body) PROVE Changed
    <2>1. n \in Node /\ now \in Nat
        BY SyncSettings DEF TypeOK
    <2>2. PICK nonce \in Nonce :
              /\ first_nonce(chain[n], body, nonce)
              /\ chain' = [chain EXCEPT ![n] = Append(@, mine_block(chain[n], body, nonce, now))]
        BY <1>3, Zenon DEF add_new_block
    <2>3. verify_chain_integrity(Append(chain[n], mine_block(chain[n], body, nonce, now)))
        BY <1>1, <2>1, <2>2, MinedIsValid
    <2>4. mine_block(chain[n], body, nonce, now) \in Block
        BY <1>1, <2>1, MineType
    <2>5. Successor(chain[n], Append(chain[n], mine_block(chain[n], body, nonce, now)))
        BY <2>3, <2>4 DEF Successor
    <2> QED BY <1>0, <2>1, <2>2, <2>5
<1>4. ASSUME NEW n \in Node, NEW t \in Task, sync_done(n, t) PROVE chain' = chain \/ Changed
    BY <1>2, <1>4, Zenon DEF sync_done
<1>5. ASSUME NEW n \in Node, NEW c \in Conn, on_unsolicited_response(n, c) PROVE chain' = chain \/ Changed
    BY <1>2, <1>5 DEF on_unsolicited_response
<1>6. ASSUME NEW n \in Node, NEW c \in Conn, on_new_block(n, c) PROVE chain' = chain \/ Changed
    <2> DEFINE block == Head(next_message(n, c).blocks)
    <2>1. CASE add_block(block, chain[n])
        <3>1. block \in Block
            <4>1. inbox \in Inboxes(BlockUpTo(now)) /\ inbox[n][c] # << >>
                BY <1>6 DEF TypeOK, Inboxes, on_new_block, reads
            <4>2. next_message(n, c) \in MessageOf(BlockUpTo(now))
                BY <4>1, TakenType
            <4>3. /\ next_message(n, c).blocks \in Seq(BlockUpTo(now))
                  /\ next_message(n, c).blocks # << >>
                BY <1>6, <4>2 DEF MessageOf, on_new_block
            <4>4. block \in BlockUpTo(now)
                BY <4>3
            <4> QED BY <4>4 DEF BlockUpTo
        <3>2. chain' = [chain EXCEPT ![n] = Append(@, block)]
            BY <1>6, <2>1 DEF on_new_block
        <3>3. verify_chain_integrity(Append(chain[n], block))
            BY <1>1, <2>1, <3>1, AppendKeepsValid DEF add_block
        <3>4. Successor(chain[n], Append(chain[n], block))
            BY <3>1, <3>3 DEF Successor
        <3> QED BY <1>0, <3>2, <3>4
    <2>2. CASE ~ add_block(block, chain[n])
        BY <1>6, <2>2 DEF on_new_block
    <2> QED BY <2>1, <2>2
<1>7. ASSUME NEW n \in Node, NEW c \in Conn,
             receive(n, c) \/ handshake_timeout(n, c) \/ listen_end(n, c)
      PROVE  chain' = chain \/ Changed
    <2> HIDE DEF Changed
    <2> QED BY <1>5, <1>6, <1>7
            DEF receive, handshake_timeout, listen_end, on_unauthenticated, on_hello, on_get_chain,
                on_late_response, on_accepted_batch, on_rejected_batch
<1>8. ASSUME NEW n \in Node, NEW t \in Task, sync_timeout(n, t) \/ sync_chain(n)
      PROVE  chain' = chain
    BY <1>8 DEF sync_timeout, sync_chain
<1>9. ASSUME NEW c \in Conn, connect_peer(c) \/ connection_lost(c) PROVE chain' = chain
    BY <1>9 DEF connect_peer, connection_lost
<1>10. Tick => chain' = chain
    BY DEF Tick
<1>11. App \in Task
    BY DEF Task
<1> HIDE DEF Changed
<1>12. chain' = chain \/ Changed
    BY <1>3, <1>4, <1>7, <1>8, <1>9, <1>10, <1>11 DEF Next
<1> QED BY <1>12 DEF Changed

\* Validity is inductive together with the types: an own block is valid only
\* because the tip is not stamped after the clock.
LEMMA NextValid == TypeOK /\ ChainsValid /\ [Next]_vars => ChainsValid'
<1> SUFFICES ASSUME TypeOK, ChainsValid, [Next]_vars PROVE ChainsValid'
    OBVIOUS
<1>1. CASE chain' = chain
    BY <1>1 DEF ChainsValid
<1>2. CASE Next
    <2>1. ASSUME NEW n \in Node, chain' = [chain EXCEPT ![n] = chain'[n]],
                 Successor(chain[n], chain'[n])
          PROVE  ChainsValid'
        <3>1. \A k \in Node : chain'[k] = chain[k] \/ chain'[k] = chain'[n]
            BY <2>1 DEF TypeOK
        <3> QED BY <2>1, <3>1 DEF ChainsValid, Successor
    <2> QED BY <1>1, <1>2, <2>1, ChainStep
<1> QED BY <1>1, <1>2 DEF vars

\* Every node holds, at all times, a chain that verify_chain accepts, however
\* own blocks, gossiped blocks, batches of sessions and late answers mix.
THEOREM ChainsAlwaysValid == Spec => []ChainsValid
<1>1. Init => ChainsValid
    BY DEF Init, ChainsValid, verify_chain_integrity
<1> QED BY <1>1, InitType, NextType, NextValid, PTL DEF Spec

\* The synchronising nodes implement Ledgers: whatever is on the network, a
\* chain changes only by one valid block on top, or by giving way to a valid
\* chain that the fork choice prefers.
THEOREM NodesImplementLedgers == Spec => ImplementsLedgers
<1>1. Init => L!Init
    BY DEF Init, L!Init
<1>2. TypeOK /\ ChainsValid /\ [Next]_vars => [L!Next]_chain
    <2> SUFFICES ASSUME TypeOK, ChainsValid, Next, chain' # chain PROVE L!Next
        BY DEF vars
    <2>1. PICK n \in Node : /\ chain' = [chain EXCEPT ![n] = chain'[n]]
                            /\ Successor(chain[n], chain'[n])
        BY ChainStep
    <2>2. chain[n] \in Seq(Block)
        <3>1. BlockUpTo(now) \subseteq Block /\ chain[n] \in Seq(BlockUpTo(now))
            BY DEF BlockUpTo, TypeOK
        <3> QED BY <3>1, SeqMonotone
    <2>3. ASSUME NEW block \in Block, chain'[n] = Append(chain[n], block) PROVE L!Extend(n)
        <3>1. Len(chain'[n]) = Len(chain[n]) + 1
            BY <2>2, <2>3
        <3>2. chain[n] = SubSeq(chain'[n], 1, Len(chain[n]))
            <4>1. SubSeq(chain'[n], 1, Len(chain[n])) = SubSeq(chain[n], 1, Len(chain[n]))
                BY <2>2, <2>3
            <4> QED BY <2>2, <4>1, SubSeqFull
        <3> QED BY <2>1, <3>1, <3>2 DEF L!Extend, Successor
    <2>4. ASSUME chain[n] = << >> \/ outscores(chain'[n], chain[n]) PROVE L!Adopt(n)
        BY <2>1, <2>4 DEF L!Adopt, Successor
    <2> QED BY <2>1, <2>3, <2>4 DEF L!Next, Successor
<1>3. Spec => []TypeOK /\ []ChainsValid
    BY TypeCorrect, ChainsAlwaysValid
<1> QED BY <1>1, <1>2, <1>3, PTL DEF Spec, ImplementsLedgers, L!Spec

\* Every change of a chain is one for the better: work is never thrown away,
\* and a chain of equal score never takes the place of the one held.
THEOREM ScoreAlwaysGrows == Spec => ScoreGrows
<1> DEFINE Grows == \A n \in Node : chain'[n] # chain[n] => outscores(chain'[n], chain[n])
<1>1. TypeOK /\ TypeOK' /\ ChainsValid /\ [Next]_vars => [Grows]_vars
    <2> SUFFICES ASSUME TypeOK, TypeOK', ChainsValid, Next, NEW k \in Node, chain'[k] # chain[k]
                 PROVE  outscores(chain'[k], chain[k])
        OBVIOUS
    <2>1. PICK n \in Node : /\ chain' = [chain EXCEPT ![n] = chain'[n]]
                            /\ Successor(chain[n], chain'[n])
        BY ChainStep
    <2>2. k = n
        BY <2>1 DEF TypeOK
    <2>3. chain[k] \in Seq(Block) /\ chain'[k] \in Seq(Block)
        <3>1. /\ BlockUpTo(now) \subseteq Block /\ chain[k] \in Seq(BlockUpTo(now))
              /\ BlockUpTo(now') \subseteq Block /\ chain'[k] \in Seq(BlockUpTo(now'))
            BY DEF BlockUpTo, TypeOK
        <3> QED BY <3>1, SeqMonotone
    <2>4. verify_chain_integrity(chain'[k])
        BY <2>1, <2>2 DEF Successor
    <2>5. ASSUME NEW block \in Block, chain'[k] = Append(chain[k], block)
          PROVE  outscores(chain'[k], chain[k])
        BY <2>3, <2>4, <2>5, ExtensionOutscores
    <2>6. CASE chain[k] = << >>
        BY <2>3, <2>4, <2>6, AnyOutscoresNone
    <2> QED BY <2>1, <2>2, <2>5, <2>6 DEF Successor
<1> QED BY <1>1, TypeCorrect, ChainsAlwaysValid, PTL DEF Spec, ScoreGrows

-----------------------------------------------------------------------------
(* Who owns a session *)

\* Task t of a node with the given tasks is suspended in _request_chain for c.
Waits(tasks, t, c) == tasks[t] # << >> /\ Head(tasks[t]) = c

\* SessionsOwned for one node, in terms of its sessions and its tasks.
Owned(sessions, tasks) ==
    \A c \in Conn :
        /\ sessions[c].active => \E t \in Task : Waits(tasks, t, c)
        /\ \A t \in Task : Waits(tasks, t, c) => sessions[c].active
        /\ \A t, u \in Task : Waits(tasks, t, c) /\ Waits(tasks, u, c) => t = u

\* The two say the same.
LEMMA OwnedMeans == SessionsOwned <=> \A n \in Node : Owned(session[n], awaiting[n])
<1> DEFINE waiting(n, c) == {t \in Task : awaiting[n][t] # << >> /\ Head(awaiting[n][t]) = c}
<1>1. \A n \in Node, c \in Conn, t \in Task : t \in waiting(n, c) <=> Waits(awaiting[n], t, c)
    BY DEF Waits
<1>2. \A n \in Node, c \in Conn : waiting(n, c) \subseteq Task
    OBVIOUS
<1>3. SessionsOwned <=> \A n \in Node, c \in Conn :
          IF session[n][c].active THEN \E t \in Task : waiting(n, c) = {t} ELSE waiting(n, c) = {}
    BY DEF SessionsOwned
<1> HIDE DEF waiting
<1>4. ASSUME NEW n \in Node, NEW c \in Conn
      PROVE  (IF session[n][c].active THEN \E t \in Task : waiting(n, c) = {t}
                                      ELSE waiting(n, c) = {})
             <=> /\ session[n][c].active => \E t \in Task : Waits(awaiting[n], t, c)
                 /\ \A t \in Task : Waits(awaiting[n], t, c) => session[n][c].active
                 /\ \A t, u \in Task : Waits(awaiting[n], t, c) /\ Waits(awaiting[n], u, c) => t = u
    <2> DEFINE W == waiting(n, c)
    <2>1. W \subseteq Task /\ \A t \in Task : t \in W <=> Waits(awaiting[n], t, c)
        BY <1>1, <1>2
    <2> HIDE DEF W
    <2>2. (\E t \in Task : W = {t}) <=> (\E t \in Task : t \in W) /\ \A t, u \in Task : t \in W /\ u \in W => t = u
        BY <2>1
    <2>3. W = {} <=> \A t \in Task : t \notin W
        BY <2>1
    <2> QED BY <2>1, <2>2, <2>3 DEF W
<1> QED BY <1>3, <1>4 DEF Owned

\* The peer a task goes on to has no session.
LEMMA SkipHead ==
    ASSUME NEW todo \in Seq(Conn), NEW sessions, skip_pending(todo, sessions) # << >>
    PROVE  LET c == Head(skip_pending(todo, sessions)) IN c \in Conn /\ ~ sessions[c].active
<1> DEFINE free == {i \in DOMAIN todo : ~ sessions[todo[i]].active}
           first == CHOOSE i \in free : \A j \in free : i <= j
<1>1. free # {}
    BY DEF skip_pending
<1>2. Len(todo) \in Nat /\ free \in SUBSET (1 .. Len(todo))
    OBVIOUS
<1>3. \A i \in free : ~ sessions[todo[i]].active
    OBVIOUS
<1>4. skip_pending(todo, sessions) = SubSeq(todo, first, Len(todo))
    BY <1>1 DEF skip_pending
<1> HIDE DEF free
<1>5. \E i \in free : \A j \in free : i <= j
    BY <1>1, <1>2, FirstPosition
<1>6. first \in free /\ first \in 1 .. Len(todo)
    BY <1>2, <1>5
<1> HIDE DEF first
<1>7. Head(SubSeq(todo, first, Len(todo))) = todo[first]
    BY <1>6
<1> QED BY <1>3, <1>4, <1>6, <1>7

\* A task that waits for nobody goes on to its next peer: it becomes the owner
\* of the new session, and nothing else changes hands.
LEMMA RequestOwned ==
    ASSUME NEW S, NEW n \in Node, NEW t \in Task, NEW todo \in Seq(Conn), NEW local,
           NEW sessions \in [Conn -> SessionOf(S)], NEW box,
           session \in [Node -> [Conn -> SessionOf(S)]],
           awaiting \in [Node -> [Task -> Seq(Conn)]],
           \A k \in Node \ {n} : Owned(session[k], awaiting[k]),
           Owned(sessions, [awaiting[n] EXCEPT ![t] = << >>]),
           request_chain(n, t, todo, local, sessions, box)
    PROVE  \A k \in Node : Owned(session'[k], awaiting'[k])
<1> DEFINE rest == skip_pending(todo, sessions)
           tasks == [awaiting[n] EXCEPT ![t] = << >>]
<1>1. rest # << >> => Head(rest) \in Conn /\ ~ sessions[Head(rest)].active
    BY SkipHead
<1>2. /\ awaiting' = [awaiting EXCEPT ![n][t] = rest]
      /\ rest = << >> => session' = [session EXCEPT ![n] = sessions]
      /\ rest # << >> =>
            session' = [session EXCEPT ![n] = [sessions EXCEPT ![Head(rest)] = new_session(local)]]
    BY DEF request_chain
<1> HIDE DEF rest
<1>3. ASSUME NEW k \in Node \ {n} PROVE Owned(session'[k], awaiting'[k])
    <2>1. session'[k] = session[k] /\ awaiting'[k] = awaiting[k]
        BY <1>2
    <2> QED BY <2>1
<1>4. awaiting'[n] = [awaiting[n] EXCEPT ![t] = rest]
    BY <1>2
<1>5. CASE rest = << >>
    <2>1. session'[n] = sessions /\ awaiting'[n] = tasks
        BY <1>2, <1>4, <1>5
    <2> QED BY <1>3, <2>1
<1>6. CASE rest # << >>
    <2> DEFINE d == Head(rest)
    <2>1. session'[n] = [sessions EXCEPT ![d] = new_session(local)]
        BY <1>2, <1>6
    <2>2. session'[n][d].active /\ \A c \in Conn \ {d} : session'[n][c] = sessions[c]
        BY <1>1, <1>6, <2>1 DEF new_session
    <2>3. /\ \A c \in Conn : Waits(awaiting'[n], t, c) <=> c = d
          /\ \A c \in Conn : ~ Waits(tasks, t, c)
          /\ \A u \in Task \ {t}, c \in Conn : Waits(awaiting'[n], u, c) <=> Waits(tasks, u, c)
        BY <1>4, <1>6 DEF Waits
    <2>4. d \in Conn /\ ~ sessions[d].active
        BY <1>1, <1>6
    <2>5. Owned(sessions, tasks)
        OBVIOUS
    <2> HIDE DEF d, tasks
    <2>6. \A u \in Task : ~ Waits(tasks, u, d)
        BY <2>4, <2>5 DEF Owned
    <2>7. ASSUME NEW c \in Conn
          PROVE  /\ session'[n][c].active => \E u \in Task : Waits(awaiting'[n], u, c)
                 /\ \A u \in Task : Waits(awaiting'[n], u, c) => session'[n][c].active
                 /\ \A u, v \in Task : Waits(awaiting'[n], u, c) /\ Waits(awaiting'[n], v, c) => u = v
        <3>1. CASE c = d
            BY <2>2, <2>3, <2>4, <2>6, <3>1
        <3>2. CASE c # d
            <4>1. \A u \in Task : Waits(awaiting'[n], u, c) <=> Waits(tasks, u, c)
                BY <2>3, <3>2
            <4>2. session'[n][c].active = sessions[c].active
                BY <2>2, <3>2
            <4>3. /\ sessions[c].active => \E u \in Task : Waits(tasks, u, c)
                  /\ \A u \in Task : Waits(tasks, u, c) => sessions[c].active
                  /\ \A u, v \in Task : Waits(tasks, u, c) /\ Waits(tasks, v, c) => u = v
                BY <2>5 DEF Owned
            <4> QED BY <4>1, <4>2, <4>3
        <3> QED BY <3>1, <3>2
    <2>8. Owned(session'[n], awaiting'[n])
        BY <2>7 DEF Owned
    <2> QED BY <1>3, <2>8
<1> QED BY <1>5, <1>6

\* When the session a task waits for is removed, the task waits for nobody.
LEMMA ReleaseOwned ==
    ASSUME NEW n \in Node, NEW t \in Task,
           session[n] \in [Conn -> SessionOf(BlockUpTo(now))],
           awaiting \in [Node -> [Task -> Seq(Conn)]],
           Owned(session[n], awaiting[n]), awaiting[n][t] # << >>
    PROVE  Owned([session[n] EXCEPT ![Head(awaiting[n][t])] = NoSession],
                 [awaiting[n] EXCEPT ![t] = << >>])
<1> DEFINE c0 == Head(awaiting[n][t])
           sessions == [session[n] EXCEPT ![c0] = NoSession]
           tasks == [awaiting[n] EXCEPT ![t] = << >>]
<1>1. c0 \in Conn /\ Waits(awaiting[n], t, c0)
    BY DEF Waits
<1>2. /\ \A c \in Conn : ~ Waits(tasks, t, c)
      /\ \A u \in Task \ {t}, c \in Conn : Waits(tasks, u, c) <=> Waits(awaiting[n], u, c)
      /\ \A c \in Conn \ {c0} : ~ Waits(awaiting[n], t, c)
    BY DEF Waits
<1>3. ~ sessions[c0].active /\ \A c \in Conn \ {c0} : sessions[c] = session[n][c]
    BY <1>1 DEF NoSession
<1> HIDE DEF c0, sessions, tasks
<1>4. Owned(sessions, tasks)
    <2>1. ASSUME NEW u \in Task PROVE ~ Waits(tasks, u, c0)
        <3>1. Waits(awaiting[n], u, c0) => u = t
            BY <1>1 DEF Owned
        <3> QED BY <1>1, <1>2, <3>1
    <2>2. ASSUME NEW c \in Conn, c # c0
          PROVE  /\ sessions[c].active => \E u \in Task : Waits(tasks, u, c)
                 /\ \A u \in Task : Waits(tasks, u, c) => sessions[c].active
                 /\ \A u, v \in Task : Waits(tasks, u, c) /\ Waits(tasks, v, c) => u = v
        <3>1. \A u \in Task : Waits(tasks, u, c) <=> Waits(awaiting[n], u, c)
            BY <1>2, <2>2
        <3>2. sessions[c].active = session[n][c].active
            BY <1>3, <2>2
        <3>3. /\ session[n][c].active => \E u \in Task : Waits(awaiting[n], u, c)
              /\ \A u \in Task : Waits(awaiting[n], u, c) => session[n][c].active
              /\ \A u, v \in Task : Waits(awaiting[n], u, c) /\ Waits(awaiting[n], v, c) => u = v
            BY DEF Owned
        <3> QED BY <3>1, <3>2, <3>3
    <2> QED BY <1>1, <1>3, <2>1, <2>2 DEF Owned
<1> QED BY <1>4 DEF c0, sessions, tasks

\* A task that waits for nobody can be taken to wait for nobody.
LEMMA IdleTask ==
    ASSUME NEW n \in Node, NEW t \in Task, awaiting \in [Node -> [Task -> Seq(Conn)]],
           awaiting[n][t] = << >>
    PROVE  [awaiting[n] EXCEPT ![t] = << >>] = awaiting[n]
OBVIOUS

\* Ownership is inductive, given the types.
LEMMA NextOwned == TypeOK /\ SessionsOwned /\ [Next]_vars => SessionsOwned'
<1> SUFFICES ASSUME TypeOK, SessionsOwned, [Next]_vars PROVE SessionsOwned'
    OBVIOUS
<1> DEFINE S == BlockUpTo(now)
           Kept == \A n \in Node : Owned(session'[n], awaiting'[n])
<1>1. /\ session \in [Node -> [Conn -> SessionOf(S)]]
      /\ awaiting \in [Node -> [Task -> Seq(Conn)]]
      /\ peers \in [Node -> Seq(Conn)]
    BY DEF TypeOK
<1>2. \A n \in Node : Owned(session[n], awaiting[n])
    BY OwnedMeans
<1> HIDE DEF S
<1>3. ASSUME UNCHANGED <<session, awaiting>> PROVE Kept
    BY <1>2, <1>3
<1>4. ASSUME NEW n \in Node, NEW t \in Task, NEW todo \in Seq(Conn), NEW local, NEW box,
             awaiting[n][t] = << >>, request_chain(n, t, todo, local, session[n], box)
      PROVE  Kept
    <2>1. Owned(session[n], [awaiting[n] EXCEPT ![t] = << >>])
        BY <1>1, <1>2, <1>4, IdleTask
    <2>2. session[n] \in [Conn -> SessionOf(S)]
        BY <1>1
    <2> QED BY <1>1, <1>2, <1>4, <2>1, <2>2, RequestOwned
<1>5. ASSUME NEW n \in Node, NEW t \in Task, NEW local, awaiting[n][t] # << >>,
             request_chain(n, t, Tail(awaiting[n][t]), local,
                           [session[n] EXCEPT ![Head(awaiting[n][t])] = NoSession], inbox)
      PROVE  Kept
    <2> DEFINE sessions == [session[n] EXCEPT ![Head(awaiting[n][t])] = NoSession]
    <2>1. Owned(sessions, [awaiting[n] EXCEPT ![t] = << >>])
        BY <1>1, <1>2, <1>5, ReleaseOwned DEF S
    <2>2. NoSession \in SessionOf(S)
        BY DEF NoSession, SessionOf
    <2>3. sessions \in [Conn -> SessionOf(S)] /\ Tail(awaiting[n][t]) \in Seq(Conn)
        BY <1>1, <1>5, <2>2
    <2> HIDE DEF sessions
    <2>4. request_chain(n, t, Tail(awaiting[n][t]), local, sessions, inbox)
        BY <1>5 DEF sessions
    <2> QED BY <1>1, <1>2, <2>1, <2>3, <2>4, RequestOwned
<1>6. ASSUME NEW n \in Node, NEW c \in Conn, NEW s, s.active = session[n][c].active,
             session' = [session EXCEPT ![n][c] = s], awaiting' = awaiting
      PROVE  Kept
    <2>1. \A k \in Node, d \in Conn : session'[k][d].active = session[k][d].active
        BY <1>1, <1>6
    <2> QED BY <1>2, <1>6, <2>1 DEF Owned
<1> HIDE DEF Kept
<1>7. ASSUME NEW n \in Node, sync_chain(n) PROVE Kept
    <2>1. App \in Task /\ peers[n] \in Seq(Conn)
        BY <1>1 DEF Task
    <2> QED BY <1>4, <1>7, <2>1 DEF sync_chain
<1>8. ASSUME NEW n \in Node, NEW t \in Task, sync_done(n, t) \/ sync_timeout(n, t) PROVE Kept
    BY <1>5, <1>8 DEF sync_done, sync_timeout
<1>9. ASSUME NEW n \in Node, NEW c \in Conn, receive(n, c) PROVE Kept
    <2>1. c \in Task /\ peers[n] \in Seq(Conn) /\ <<c>> \in Seq(Conn) /\ << >> \in Seq(Conn)
        BY <1>1 DEF Task
    <2>2. CASE on_hello(n, c)
        <3>1. awaiting[n][c] = << >>
            BY <2>2 DEF on_hello, reads
        <3> DEFINE todo == IF next_message(n, c).height > Len(chain[n]) THEN <<c>> ELSE << >>
                   box == IF n = acceptor[c] /\ c \notin authed[n]
                          THEN send_to_peer(taken(n, c), n, c, hello(chain[n]))
                          ELSE taken(n, c)
        <3>2. request_chain(n, c, todo, chain[n], session[n], box)
            BY <2>2 DEF on_hello
        <3>3. todo \in Seq(Conn)
            BY <2>1
        <3> HIDE DEF todo, box
        <3> QED BY <1>4, <2>1, <3>1, <3>2, <3>3
    <2>3. CASE on_new_block(n, c)
        <3>1. awaiting[n][c] = << >>
            BY <2>3 DEF on_new_block, reads
        <3> QED BY <1>3, <1>4, <2>1, <2>3, <3>1 DEF on_new_block
    <2>4. session[n][c] \in SessionOf(S)
        BY <1>1
    <2>5. CASE on_accepted_batch(n, c)
        <3> DEFINE m == next_message(n, c)
                   s == [accept_chain_batch(session[n][c], m) EXCEPT !.done = ~ m.has_more]
        <3>1. session' = [session EXCEPT ![n][c] = s] /\ awaiting' = awaiting
            BY <2>5 DEF on_accepted_batch
        <3>2. s.active = session[n][c].active
            BY <2>4 DEF accept_chain_batch, SessionOf
        <3> HIDE DEF s
        <3> QED BY <1>6, <3>1, <3>2
    <2>6. CASE on_rejected_batch(n, c)
        <3> DEFINE s == [session[n][c] EXCEPT !.blocks = << >>, !.done = TRUE]
        <3>1. session' = [session EXCEPT ![n][c] = s] /\ awaiting' = awaiting
            BY <2>6 DEF on_rejected_batch
        <3>2. s.active = session[n][c].active
            BY <2>4 DEF SessionOf
        <3> HIDE DEF s
        <3> QED BY <1>6, <3>1, <3>2
    <2> QED BY <1>3, <1>9, <2>2, <2>3, <2>5, <2>6
            DEF receive, on_unauthenticated, on_get_chain, on_unsolicited_response, on_late_response
<1>10. ASSUME NEW n \in Node, NEW c \in Conn, handshake_timeout(n, c) \/ listen_end(n, c) PROVE Kept
    BY <1>3, <1>10 DEF handshake_timeout, listen_end
<1>11. ASSUME NEW c \in Conn, connect_peer(c) \/ connection_lost(c) PROVE Kept
    BY <1>3, <1>11 DEF connect_peer, connection_lost
<1>12. ASSUME NEW n \in Miner, NEW body \in Bodies, add_new_block(n, body) PROVE Kept
    BY <1>3, <1>12 DEF add_new_block
<1>13. ASSUME Tick PROVE Kept
    BY <1>3, <1>13 DEF Tick
<1>14. ASSUME UNCHANGED vars PROVE Kept
    BY <1>3, <1>14 DEF vars
<1>15. Kept
    BY <1>7, <1>8, <1>9, <1>10, <1>11, <1>12, <1>13, <1>14 DEF Next
<1>16. SessionsOwned' <=> (\A n \in Node : Owned(session[n], awaiting[n]))'
    BY OwnedMeans, PTL
<1> QED BY <1>15, <1>16 DEF Kept

\* With any number of connections and tasks that synchronise at once, no
\* session is shared by two tasks or left behind without one.
THEOREM SessionsAlwaysOwned == Spec => []SessionsOwned
<1>1. Init => SessionsOwned
    BY DEF Init, SessionsOwned, NoSession
<1> QED BY <1>1, TypeCorrect, NextOwned, PTL DEF Spec

-----------------------------------------------------------------------------
(* What a session has put together *)

\* SessionLinked, for one session.
Linked(s) ==
    /\ \A i \in 1 .. Len(s.blocks) - 1 :
          /\ s.blocks[i + 1].prev_hash = s.blocks[i].tran_hash
          /\ s.blocks[i + 1].block_index = s.blocks[i].block_index + 1
    /\ s.blocks # << >> => /\ s.expected_prev_hash = {tip(s.blocks).tran_hash}
                           /\ s.expected_height = tip(s.blocks).block_index + 1

LEMMA LinkedMeans == SessionLinked <=> \A n \in Node, c \in Conn : Linked(session[n][c])
BY DEF SessionLinked, Linked

\* A session without blocks is linked.
LEMMA EmptyLinked ==
    ASSUME NEW s, s.blocks = << >>
    PROVE  Linked(s)
BY DEF Linked

\* Block b follows block a.
After(a, b) == b.prev_hash = a.tran_hash /\ b.block_index = a.block_index + 1

\* Two linked runs, the second of which begins after the end of the first.
LEMMA JoinedRuns ==
    ASSUME NEW S, NEW sb \in Seq(S), NEW mb \in Seq(S),
           \A i \in 1 .. Len(sb) - 1 : After(sb[i], sb[i + 1]),
           \A i \in 1 .. Len(mb) - 1 : After(mb[i], mb[i + 1]),
           sb # << >> /\ mb # << >> => After(sb[Len(sb)], mb[1])
    PROVE  \A i \in 1 .. Len(sb \o mb) - 1 : After((sb \o mb)[i], (sb \o mb)[i + 1])
<1> DEFINE p == Len(sb)
           q == Len(mb)
           all == sb \o mb
<1>1. p \in Nat /\ q \in Nat /\ Len(all) = p + q
    OBVIOUS
<1>2. /\ \A i \in 1 .. p : all[i] = sb[i]
      /\ \A i \in (p + 1) .. (p + q) : all[i] = mb[i - p]
    OBVIOUS
<1>3. ASSUME NEW i \in 1 .. p + q - 1 PROVE After(all[i], all[i + 1])
    <2> HIDE DEF all
    <2>1. CASE i < p
        <3>1. all[i] = sb[i] /\ all[i + 1] = sb[i + 1] /\ i \in 1 .. p - 1
            BY <1>1, <1>2, <2>1
        <3> QED BY <3>1
    <2>2. CASE i = p
        <3>1. all[i] = sb[p] /\ all[i + 1] = mb[1] /\ p # 0 /\ q # 0
            BY <1>1, <1>2, <2>2
        <3> QED BY <3>1
    <2>3. CASE i > p
        <3> DEFINE j == i - p
        <3>1. j \in 1 .. q - 1 /\ all[i] = mb[j] /\ all[i + 1] = mb[j + 1]
            BY <1>1, <1>2, <2>3
        <3> QED BY <3>1
    <2> QED BY <1>1, <2>1, <2>2, <2>3
<1> QED BY <1>1, <1>3

\* A batch that is accepted goes on where the session stopped.
LEMMA AcceptLinked ==
    ASSUME NEW S, S \subseteq Block, NEW n \in Node, NEW s \in SessionOf(S), NEW m \in MessageOf(S),
           Linked(s), acceptable(n, s, m)
    PROVE  Linked(accept_chain_batch(s, m))
<1> DEFINE sb == s.blocks
           mb == m.blocks
           height == m.height
           expected == s.expected_prev_hash
           a == accept_chain_batch(s, m)
<1>1. /\ sb \in Seq(S) /\ mb \in Seq(S) /\ height \in Nat
      /\ Len(sb) \in Nat /\ Len(mb) \in Nat
    BY DEF SessionOf, MessageOf
<1>2. /\ a.blocks = sb \o mb /\ a.expected_height = m.next_height
      /\ a.expected_prev_hash = IF mb = << >> THEN expected ELSE {tip(mb).tran_hash}
    BY DEF accept_chain_batch, SessionOf
<1>3. height = s.expected_height /\ m.next_height = height + Len(mb)
    BY DEF acceptable
<1>4. \A i \in 1 .. Len(mb) :
            /\ mb[i].block_index = height + i - 1
            /\ i = 1 => \A h \in expected : mb[1].prev_hash = h
            /\ i # 1 => mb[i].prev_hash = mb[i - 1].tran_hash
    BY DEF acceptable
<1>5. sb # << >> => expected = {tip(sb).tran_hash} /\ height = tip(sb).block_index + 1
    BY <1>3 DEF Linked
<1>6. \A i \in 1 .. Len(sb) - 1 : After(sb[i], sb[i + 1])
    BY DEF Linked, After
<1>7. a.expected_height = height + Len(mb)
    BY <1>2, <1>3
<1> HIDE DEF sb, mb, height, expected, a
<1>8. ASSUME NEW i \in 1 .. Len(mb) - 1 PROVE After(mb[i], mb[i + 1])
    <2>1. i \in 1 .. Len(mb) /\ i + 1 \in 1 .. Len(mb) /\ i + 1 # 1 /\ (i + 1) - 1 = i
        BY <1>1
    <2>2. mb[i + 1].prev_hash = mb[i].tran_hash
        BY <1>4, <2>1
    <2>3. mb[i].block_index = height + i - 1 /\ mb[i + 1].block_index = height + (i + 1) - 1
        BY <1>4, <2>1
    <2>4. height + (i + 1) - 1 = (height + i - 1) + 1
        BY <1>1
    <2> QED BY <2>2, <2>3, <2>4 DEF After
<1>9. ASSUME sb # << >>, mb # << >> PROVE After(sb[Len(sb)], mb[1])
    <2>1. 1 \in 1 .. Len(mb)
        BY <1>1, <1>9
    <2>2. mb[1].prev_hash = tip(sb).tran_hash
        BY <1>4, <1>5, <1>9, <2>1
    <2>3. mb[1].block_index = height + 1 - 1
        BY <1>4, <2>1
    <2>4. height + 1 - 1 = height
        BY <1>1
    <2> QED BY <1>5, <1>9, <2>2, <2>3, <2>4 DEF After, tip
<1>10. \A i \in 1 .. Len(sb \o mb) - 1 : After((sb \o mb)[i], (sb \o mb)[i + 1])
    BY <1>1, <1>6, <1>8, <1>9, JoinedRuns
<1>11. sb \o mb # << >> => /\ a.expected_prev_hash = {tip(sb \o mb).tran_hash}
                           /\ a.expected_height = tip(sb \o mb).block_index + 1
    <2>1. CASE mb = << >>
        <3>1. sb \o mb = sb /\ height + Len(mb) = height
            BY <1>1, <2>1
        <3> QED BY <1>2, <1>5, <1>7, <2>1, <3>1
    <2>2. CASE mb # << >>
        <3>1. tip(sb \o mb) = tip(mb) /\ Len(mb) \in 1 .. Len(mb)
            BY <1>1, <2>2 DEF tip
        <3>2. tip(mb).block_index = height + Len(mb) - 1
            BY <1>4, <3>1 DEF tip
        <3>3. height + Len(mb) = (height + Len(mb) - 1) + 1
            BY <1>1
        <3> QED BY <1>2, <1>7, <2>2, <3>1, <3>2, <3>3
    <2> QED BY <2>1, <2>2
<1>12. /\ \A i \in 1 .. Len(a.blocks) - 1 : After(a.blocks[i], a.blocks[i + 1])
       /\ a.blocks # << >> => /\ a.expected_prev_hash = {tip(a.blocks).tran_hash}
                              /\ a.expected_height = tip(a.blocks).block_index + 1
    BY <1>2, <1>10, <1>11
<1> QED BY <1>12 DEF Linked, After, a

\* The session that _request_chain opens has no blocks.
LEMMA RequestLinked ==
    ASSUME NEW n \in Node, NEW t \in Task, NEW todo \in Seq(Conn), NEW local, NEW sessions, NEW box,
           NEW S, session \in [Node -> [Conn -> SessionOf(S)]], sessions \in [Conn -> SessionOf(S)],
           \A k \in Node, c \in Conn : Linked(session[k][c]), \A c \in Conn : Linked(sessions[c]),
           request_chain(n, t, todo, local, sessions, box)
    PROVE  \A k \in Node, c \in Conn : Linked(session'[k][c])
<1> DEFINE rest == skip_pending(todo, sessions)
<1>1. rest \in Seq(Conn)
    BY SkipType
<1> HIDE DEF rest
<1>2. /\ rest = << >> => session' = [session EXCEPT ![n] = sessions]
      /\ rest # << >> =>
            session' = [session EXCEPT ![n] = [sessions EXCEPT ![Head(rest)] = new_session(local)]]
    BY DEF request_chain, rest
<1>3. CASE rest = << >>
    BY <1>2, <1>3
<1>4. CASE rest # << >>
    <2>1. Linked(new_session(local))
        BY EmptyLinked DEF new_session
    <2>2. Head(rest) \in Conn
        BY <1>1, <1>4
    <2>3. \A c \in Conn : Linked([sessions EXCEPT ![Head(rest)] = new_session(local)][c])
        BY <2>1, <2>2
    <2> QED BY <1>2, <1>4, <2>3
<1> QED BY <1>3, <1>4

\* SessionLinked is inductive, given the types.
LEMMA NextSessionLinked == TypeOK /\ SessionLinked /\ [Next]_vars => SessionLinked'
<1> SUFFICES ASSUME TypeOK, SessionLinked, [Next]_vars PROVE SessionLinked'
    OBVIOUS
<1> DEFINE S == BlockUpTo(now)
           Kept == \A n \in Node, c \in Conn : Linked(session'[n][c])
<1>1. /\ session \in [Node -> [Conn -> SessionOf(S)]] /\ inbox \in Inboxes(S)
      /\ awaiting \in [Node -> [Task -> Seq(Conn)]] /\ peers \in [Node -> Seq(Conn)]
      /\ S \subseteq Block
    BY DEF TypeOK, Inboxes, BlockUpTo
<1>2. \A n \in Node, c \in Conn : Linked(session[n][c])
    BY LinkedMeans
<1> HIDE DEF S
<1>3. ASSUME UNCHANGED session PROVE Kept
    BY <1>2, <1>3
<1>4. ASSUME NEW n \in Node, NEW t \in Task, NEW todo \in Seq(Conn), NEW local, NEW box,
             request_chain(n, t, todo, local, session[n], box)
      PROVE  Kept
    <2>1. session[n] \in [Conn -> SessionOf(S)] /\ \A c \in Conn : Linked(session[n][c])
        BY <1>1, <1>2
    <2> QED BY <1>1, <1>2, <1>4, <2>1, RequestLinked
<1>5. ASSUME NEW n \in Node, NEW t \in Task, NEW local, awaiting[n][t] # << >>,
             request_chain(n, t, Tail(awaiting[n][t]), local,
                           [session[n] EXCEPT ![Head(awaiting[n][t])] = NoSession], inbox)
      PROVE  Kept
    <2> DEFINE sessions == [session[n] EXCEPT ![Head(awaiting[n][t])] = NoSession]
    <2>1. NoSession \in SessionOf(S) /\ Linked(NoSession)
        BY EmptyLinked DEF NoSession, SessionOf
    <2>2. sessions \in [Conn -> SessionOf(S)] /\ Tail(awaiting[n][t]) \in Seq(Conn)
        BY <1>1, <1>5, <2>1
    <2>3. \A c \in Conn : Linked(sessions[c])
        BY <1>1, <1>2, <2>1
    <2> HIDE DEF sessions
    <2>4. request_chain(n, t, Tail(awaiting[n][t]), local, sessions, inbox)
        BY <1>5 DEF sessions
    <2> QED BY <1>1, <1>2, <2>2, <2>3, <2>4, RequestLinked
<1>6. ASSUME NEW n \in Node, NEW c \in Conn, NEW s, Linked(s), session' = [session EXCEPT ![n][c] = s]
      PROVE  Kept
    BY <1>1, <1>2, <1>6
<1> HIDE DEF Kept
<1>7. ASSUME NEW n \in Node, sync_chain(n) PROVE Kept
    <2>1. App \in Task /\ peers[n] \in Seq(Conn)
        BY <1>1 DEF Task
    <2> QED BY <1>4, <1>7, <2>1 DEF sync_chain
<1>8. ASSUME NEW n \in Node, NEW t \in Task, sync_done(n, t) \/ sync_timeout(n, t) PROVE Kept
    BY <1>5, <1>8 DEF sync_done, sync_timeout
<1>9. ASSUME NEW n \in Node, NEW c \in Conn, receive(n, c) PROVE Kept
    <2> DEFINE m == next_message(n, c)
    <2>1. c \in Task /\ peers[n] \in Seq(Conn) /\ <<c>> \in Seq(Conn) /\ << >> \in Seq(Conn)
        BY <1>1 DEF Task
    <2>2. CASE on_hello(n, c)
        <3> DEFINE todo == IF m.height > Len(chain[n]) THEN <<c>> ELSE << >>
                   box == IF n = acceptor[c] /\ c \notin authed[n]
                          THEN send_to_peer(taken(n, c), n, c, hello(chain[n]))
                          ELSE taken(n, c)
        <3>1. request_chain(n, c, todo, chain[n], session[n], box)
            BY <2>2 DEF on_hello
        <3>2. todo \in Seq(Conn)
            BY <2>1
        <3> HIDE DEF todo, box
        <3> QED BY <1>4, <2>1, <3>1, <3>2
    <2>3. CASE on_new_block(n, c)
        BY <1>3, <1>4, <2>1, <2>3 DEF on_new_block
    <2>4. session[n][c] \in SessionOf(S) /\ Linked(session[n][c])
        BY <1>1, <1>2
    <2>5. CASE on_accepted_batch(n, c)
        <3> DEFINE a == accept_chain_batch(session[n][c], m)
                   s == [a EXCEPT !.done = ~ m.has_more]
        <3>1. session' = [session EXCEPT ![n][c] = s] /\ acceptable(n, session[n][c], m)
              /\ inbox[n][c] # << >>
            BY <2>5 DEF on_accepted_batch, reads_response, reads
        <3>2. m \in MessageOf(S)
            BY <1>1, <3>1, TakenType
        <3> HIDE DEF m
        <3>3. Linked(a) /\ a \in SessionOf(S)
            BY <1>1, <2>4, <3>1, <3>2, AcceptLinked, AcceptType
        <3> HIDE DEF a
        <3>4. /\ s.blocks = a.blocks /\ s.expected_height = a.expected_height
              /\ s.expected_prev_hash = a.expected_prev_hash
            BY <3>3 DEF SessionOf
        <3> HIDE DEF s
        <3>5. Linked(s)
            BY <3>3, <3>4 DEF Linked
        <3> QED BY <1>6, <3>1, <3>5
    <2>6. CASE on_rejected_batch(n, c)
        <3> DEFINE s == [session[n][c] EXCEPT !.blocks = << >>, !.done = TRUE]
        <3>1. session' = [session EXCEPT ![n][c] = s]
            BY <2>6 DEF on_rejected_batch
        <3>2. s.blocks = << >>
            BY <2>4 DEF SessionOf
        <3> HIDE DEF s
        <3> QED BY <1>6, <3>1, <3>2, EmptyLinked
    <2> QED BY <1>3, <1>9, <2>2, <2>3, <2>5, <2>6
            DEF receive, on_unauthenticated, on_get_chain, on_unsolicited_response, on_late_response
<1>10. ASSUME NEW n \in Node, NEW c \in Conn, handshake_timeout(n, c) \/ listen_end(n, c) PROVE Kept
    BY <1>3, <1>10 DEF handshake_timeout, listen_end
<1>11. ASSUME NEW c \in Conn, connect_peer(c) \/ connection_lost(c) PROVE Kept
    BY <1>3, <1>11 DEF connect_peer, connection_lost
<1>12. ASSUME NEW n \in Miner, NEW body \in Bodies, add_new_block(n, body) PROVE Kept
    BY <1>3, <1>12 DEF add_new_block
<1>13. ASSUME Tick PROVE Kept
    BY <1>3, <1>13 DEF Tick
<1>14. ASSUME UNCHANGED vars PROVE Kept
    BY <1>3, <1>14 DEF vars
<1>15. Kept
    BY <1>7, <1>8, <1>9, <1>10, <1>11, <1>12, <1>13, <1>14 DEF Next
<1>16. SessionLinked' <=> (\A n \in Node, c \in Conn : Linked(session[n][c]))'
    BY LinkedMeans, PTL
<1> QED BY <1>15, <1>16 DEF Kept

\* Whatever the peer's chain does between two of its answers, what a session
\* collects is one linked run, and the next request asks for what follows it.
THEOREM SessionsAlwaysLinked == Spec => []SessionLinked
<1>1. Init => SessionLinked
    BY DEF Init, SessionLinked, NoSession
<1> QED BY <1>1, TypeCorrect, NextSessionLinked, PTL DEF Spec

=============================================================================
