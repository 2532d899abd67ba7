------------------------------ MODULE PeerLinks ------------------------------
(***************************************************************************)
(* The connections of one node: the dialling, HELLO and disconnect code of *)
(* network/node.py, the peer table of network/server.py, the back-off of   *)
(* network/reconnect.py and the table of known URLs of                     *)
(* network/discovery.py.                                                   *)
(*                                                                         *)
(* Several tasks of the node dial: the application (or the mDNS callback), *)
(* the reconnect loop, and every listen loop that has received a PEERS     *)
(* message.  A task goes through a list of URLs; connect_peer suspends     *)
(* while the socket is opened and again while the other end is being       *)
(* authenticated, and the other tasks run in between.  Everything a task   *)
(* does between two suspensions is one step.                               *)
(*                                                                         *)
(* Only the time left until a URL may be dialled again is kept, so the     *)
(* clock needs no bound.  A connection id stands for a uuid: it is used    *)
(* again only when the node has forgotten it.                              *)
(***************************************************************************)
EXTENDS Integers, Sequences, FiniteSets

CONSTANTS
    Url,                    \* the URLs of the other nodes
    rank,                   \* rank[u]: the place of u when URLs are sorted
    Conn,                   \* connection ids
    App, Reconnect,         \* the tasks that are not listen loops
    NoUrl, NoConn,
    bootstrap_peers,        \* a list without duplicates
    max_peers, max_known_peers, max_peers_per_message,
    initial_delay, backoff_multiplier, max_delay, max_attempts,
    StatedUrls,             \* the URLs that other nodes state in their HELLOs
    PeersMessages,          \* the lists of URLs that PEERS messages carry
    AttemptCap              \* attempts are counted up to here

Task == Conn \cup {App, Reconnect}

\* initial_delay * backoff_multiplier ** exponent
backed_off(exponent) ==
    LET upto[i \in 0 .. exponent] ==
            IF i = 0 THEN initial_delay ELSE upto[i - 1] * backoff_multiplier
    IN  upto[exponent]

\* Seconds until the next dial after that many failures in a row.  The code
\* limits the exponent first, which changes the float, not the minimum.
delay(count) ==
    LET d == backed_off(count - 1)
    IN  IF d < max_delay THEN d ELSE max_delay

ASSUME LinkSettings ==
    /\ IsFiniteSet(Url) /\ IsFiniteSet(Conn)
    /\ rank \in [Url -> Nat] /\ \A u, v \in Url : rank[u] = rank[v] => u = v
    /\ NoUrl \notin Url /\ NoConn \notin Conn
    /\ App # Reconnect /\ App \notin Conn /\ Reconnect \notin Conn
    /\ bootstrap_peers \in Seq(Url)
    /\ \A i, j \in DOMAIN bootstrap_peers : bootstrap_peers[i] = bootstrap_peers[j] => i = j
    /\ max_peers \in Nat /\ max_known_peers \in Nat /\ max_peers_per_message \in Nat
    /\ initial_delay \in Nat \ {0} /\ backoff_multiplier \in Nat \ {0}
    /\ max_delay \in Nat \ {0} /\ max_attempts \in Nat
    /\ StatedUrls \subseteq Url /\ PeersMessages \subseteq Seq(Url)
    /\ AttemptCap \in Nat \ {0} /\ AttemptCap >= max_attempts
    /\ delay(AttemptCap) = delay(AttemptCap + 1)

VARIABLES
    known,          \* PeerDiscovery._known_peers, oldest first
    peers,          \* the keys of P2PServer.peers
    closed,         \* connections whose socket is closed
    authed,         \* connections on which a valid HELLO has come
    advertised,     \* advertised[c]: the URL the other end of c states in its HELLO
    url_by_peer,    \* _url_by_peer
    book,           \* the node's tables of URLs, see Book
    target,         \* target[t]: the URL for which task t is inside connect_peer
    todo,           \* todo[t]: the URLs t will go on to
    link            \* link[t]: the connection t waits for to be authenticated

vars == <<known, peers, closed, authed, advertised, url_by_peer, book, target, todo, link>>

Never == -1

\* _active_urls, _connecting_urls, and of ReconnectManager the attempts and
\* the time left until _next_retry_at (Never: infinity).
Book == [active : SUBSET Url, connecting : SUBSET Url,
         attempts : [Url -> 0 .. AttemptCap], wait : [Url -> {Never} \cup (0 .. max_delay)]]

known_peers(table) == {table[i] : i \in DOMAIN table}

\* The first URLs of a set when it is sorted.
first_of(urls, count) == {u \in urls : Cardinality({v \in urls : rank[v] < rank[u]}) < count}

-----------------------------------------------------------------------------
(* discovery.py *)

\* The table without its oldest entries when it has too many.
newest(table) ==
    IF Len(table) <= max_known_peers THEN table
    ELSE SubSeq(table, Len(table) - max_known_peers + 1, Len(table))

removed(table, u) ==
    IF u \notin known_peers(table) THEN table
    ELSE LET i == CHOOSE j \in DOMAIN table : table[j] = u
         IN  SubSeq(table, 1, i - 1) \o SubSeq(table, i + 1, Len(table))

\* Mutant: the table has no limit.
add_peer_unlimited(table, u) == Append(removed(table, u), u)

\* The URL becomes the newest entry.
add_peer(table, u) == newest(Append(removed(table, u), u))

\* The URLs of a PEERS message, one after the other, up to the limit.
add_peers(table, urls) ==
    LET count == IF Len(urls) < max_peers_per_message THEN Len(urls) ELSE max_peers_per_message
        with[i \in 0 .. count] == IF i = 0 THEN table ELSE add_peer(with[i - 1], urls[i])
    IN  with[count]

-----------------------------------------------------------------------------
(* reconnect.py *)

capped(count) == IF count < AttemptCap THEN count ELSE AttemptCap

record_failure(b, u) ==
    LET count == capped(b.attempts[u] + 1)
    IN  [b EXCEPT !.attempts[u] = count,
                  !.wait[u] = IF max_attempts > 0 /\ count >= max_attempts
                              THEN Never ELSE delay(count)]

record_success(b, u) == [b EXCEPT !.attempts[u] = 0, !.wait[u] = 0]

should_retry(b, u) == b.wait[u] = 0

-----------------------------------------------------------------------------
(* connect_peer *)

full(table) == Cardinality(table) >= max_peers

\* Mutant: URLs that are being dialled are dialled again.
may_dial_active_only(b, u) == u \notin b.active /\ should_retry(b, u)

\* The early returns of connect_peer.
may_dial(b, u) == u \notin b.active /\ u \notin b.connecting /\ should_retry(b, u)

fail_all(b, urls) ==
    [b EXCEPT !.attempts = [u \in Url |-> IF u \in urls THEN record_failure(b, u).attempts[u] ELSE @[u]],
              !.wait = [u \in Url |-> IF u \in urls THEN record_failure(b, u).wait[u] ELSE @[u]]]

\* Task t goes on with the URLs that are left: those that may not be dialled
\* are passed over; when the peer table is full each of the others fails at
\* once; otherwise t suspends in the dial of the first.  b and table are the
\* tables so far in this step.
connect_next(t, rest, b, table) ==
    LET free == {u \in rest : may_dial(b, u)}
        first == CHOOSE u \in free : \A v \in free : rank[u] <= rank[v]
    IN
    /\ link' = [link EXCEPT ![t] = NoConn]
    /\ IF free = {} \/ full(table)
       THEN /\ target' = [target EXCEPT ![t] = NoUrl]
            /\ todo' = [todo EXCEPT ![t] = {}]
            /\ book' = fail_all(b, free)
       ELSE /\ target' = [target EXCEPT ![t] = first]
            /\ todo' = [todo EXCEPT ![t] = {u \in rest : rank[u] > rank[first]}]
            /\ book' = [b EXCEPT !.connecting = @ \cup {first}]

\* The finally of connect_peer.
finished(b, u) == [b EXCEPT !.connecting = @ \ {u}]

idle(t) == target[t] = NoUrl

dialling(t) == target[t] # NoUrl /\ link[t] = NoConn

authenticating(t) == target[t] # NoUrl /\ link[t] # NoConn

\* Ids the node does not know.
fresh(c) == c \notin peers /\ \A t \in Task : link[t] # c

Init ==
    /\ known = newest(bootstrap_peers)
    /\ peers = {} /\ closed = {} /\ authed = {}
    /\ advertised = [c \in Conn |-> NoUrl]
    /\ url_by_peer = [c \in Conn |-> NoUrl]
    /\ book = [active |-> {}, connecting |-> {},
               attempts |-> [u \in Url |-> 0], wait |-> [u \in Url |-> 0]]
    /\ target = [t \in Task |-> NoUrl]
    /\ todo = [t \in Task |-> {}]
    /\ link = [t \in Task |-> NoConn]

Tick ==
    /\ \E u \in Url : book.wait[u] > 0
    /\ book' = [book EXCEPT !.wait = [u \in Url |-> IF @[u] > 0 THEN @[u] - 1 ELSE @[u]]]
    /\ UNCHANGED <<known, peers, closed, authed, advertised, url_by_peer, target, todo, link>>

\* mDNS resolves a service, in a thread of its own; the callback then calls
\* connect_peer from the event loop.
mdns_found(u) ==
    /\ known' = add_peer(known, u)
    /\ known' # known
    /\ UNCHANGED <<peers, closed, authed, advertised, url_by_peer, book, target, todo, link>>

\* The application (start, or the callback of mDNS) calls connect_peer.
connect_peer(u) ==
    /\ idle(App) /\ may_dial(book, u)
    /\ connect_next(App, {u}, book, peers)
    /\ UNCHANGED <<known, peers, closed, authed, advertised, url_by_peer>>

\* Mutant: only what discovery knows is dialled.
reconnect_loop_known ==
    /\ idle(Reconnect)
    /\ \E u \in known_peers(known) : may_dial(book, u)
    /\ connect_next(Reconnect, known_peers(known), book, peers)
    /\ UNCHANGED <<known, peers, closed, authed, advertised, url_by_peer>>

\* One pass of the reconnect loop.
reconnect_loop ==
    /\ idle(Reconnect)
    /\ LET targets == known_peers(bootstrap_peers) \cup known_peers(known) IN
       /\ \E u \in targets : may_dial(book, u)
       /\ connect_next(Reconnect, targets, book, peers)
    /\ UNCHANGED <<known, peers, closed, authed, advertised, url_by_peer>>

\* The socket cannot be opened, or not in time.
dial_fails(t) ==
    /\ dialling(t)
    /\ LET u == target[t]
       IN  connect_next(t, todo[t], finished(record_failure(book, u), u), peers)
    /\ UNCHANGED <<known, peers, closed, authed, advertised, url_by_peer>>

\* Mutant: the table is not looked at again after the dial.
dial_succeeds_unchecked(t, c, stated) ==
    /\ dialling(t) /\ fresh(c)
    /\ LET u == target[t]
           b == record_success(book, u) IN
       /\ peers' = peers \cup {c}
       /\ advertised' = [advertised EXCEPT ![c] = stated]
       /\ url_by_peer' = [url_by_peer EXCEPT ![c] = u]
       /\ book' = [b EXCEPT !.active = @ \cup {u}]
       /\ link' = [link EXCEPT ![t] = c]
    /\ UNCHANGED <<known, closed, authed, target, todo>>

\* The socket is open and there is still room: the peer is registered under
\* the URL and gets a HELLO; the task waits for the answer.
dial_succeeds(t, c, stated) ==
    /\ dialling(t) /\ fresh(c) /\ ~ full(peers)
    /\ LET u == target[t]
           b == record_success(book, u) IN
       /\ peers' = peers \cup {c}
       /\ advertised' = [advertised EXCEPT ![c] = stated]
       /\ url_by_peer' = [url_by_peer EXCEPT ![c] = u]
       /\ book' = [b EXCEPT !.active = @ \cup {u}]
       /\ link' = [link EXCEPT ![t] = c]
    /\ UNCHANGED <<known, closed, authed, target, todo>>

\* The socket is open but the table has filled up meanwhile.
dial_rejected(t) ==
    /\ dialling(t) /\ full(peers)
    /\ LET u == target[t]
       IN  connect_next(t, todo[t], finished(record_failure(book, u), u), peers)
    /\ UNCHANGED <<known, peers, closed, authed, advertised, url_by_peer>>

\* The wait sees an authenticated, open peer; PEERS is sent to it.
peer_authenticated(t) ==
    /\ authenticating(t) /\ link[t] \in peers \ closed /\ link[t] \in authed
    /\ LET u == target[t]
       IN  connect_next(t, todo[t], finished(book, u), peers)
    /\ UNCHANGED <<known, peers, closed, authed, advertised, url_by_peer>>

\* The wait sees that the peer has gone, or its time is over: the URL is
\* given free and the peer is closed.
peer_not_authenticated(t) ==
    /\ authenticating(t)
    /\ link[t] \notin peers \/ link[t] \in closed \/ link[t] \notin authed
    /\ LET u == target[t]
           b == record_failure(book, u) IN
       /\ url_by_peer' = [url_by_peer EXCEPT ![link[t]] = NoUrl]
       /\ closed' = closed \cup ({link[t]} \cap peers)
       /\ connect_next(t, todo[t],
                       finished([b EXCEPT !.active = @ \ {u}], u), peers)
    /\ UNCHANGED <<known, peers, authed, advertised>>

-----------------------------------------------------------------------------
(* The other ends *)

\* Another node dials this one (above max_peers it is turned away).
handle_connection(c, stated) ==
    /\ fresh(c) /\ ~ full(peers)
    /\ peers' = peers \cup {c}
    /\ advertised' = [advertised EXCEPT ![c] = stated]
    /\ UNCHANGED <<known, closed, authed, url_by_peer, book, target, todo, link>>

\* Mutant: the advertised URL is registered for a dialled peer too.
on_hello_always(c) ==
    /\ c \in peers /\ idle(c)
    /\ c \notin authed \/ url_by_peer[c] = NoUrl
    /\ authed' = authed \cup {c}
    /\ url_by_peer' = [url_by_peer EXCEPT ![c] = advertised[c]]
    /\ book' = [book EXCEPT !.active = @ \cup {advertised[c]}]
    /\ UNCHANGED <<known, peers, closed, advertised, target, todo, link>>

\* A valid HELLO.  A peer that has no URL yet is registered under the one it
\* advertises.  (A HELLO that changes nothing is left out.)
on_hello(c) ==
    /\ c \in peers /\ idle(c)
    /\ c \notin authed \/ url_by_peer[c] = NoUrl
    /\ authed' = authed \cup {c}
    /\ IF url_by_peer[c] = NoUrl
       THEN /\ url_by_peer' = [url_by_peer EXCEPT ![c] = advertised[c]]
            /\ book' = [book EXCEPT !.active = @ \cup {advertised[c]}]
       ELSE UNCHANGED <<url_by_peer, book>>
    /\ UNCHANGED <<known, peers, closed, advertised, target, todo, link>>

\* A PEERS message: its URLs are noted, and the listen loop dials what it
\* knows, up to max_peers URLs.
on_peers(c, urls) ==
    /\ c \in peers /\ c \in authed /\ idle(c)
    /\ known' = add_peers(known, urls)
    /\ connect_next(c, first_of(known_peers(known'), max_peers), book, peers)
    /\ UNCHANGED <<peers, closed, authed, advertised, url_by_peer>>

\* The socket closes: the other end, the network, a PONG or HELLO that does
\* not come, a message that is refused.
connection_closes(c) ==
    /\ c \in peers /\ c \notin closed
    /\ closed' = closed \cup {c}
    /\ UNCHANGED <<known, peers, authed, advertised, url_by_peer, book, target, todo, link>>

\* The listen loop ends: the peer is forgotten and its URL is given free.
on_peer_disconnected(c) ==
    /\ c \in peers /\ c \in closed /\ idle(c)
    /\ peers' = peers \ {c} /\ closed' = closed \ {c} /\ authed' = authed \ {c}
    /\ advertised' = [advertised EXCEPT ![c] = NoUrl]
    /\ url_by_peer' = [url_by_peer EXCEPT ![c] = NoUrl]
    /\ LET u == url_by_peer[c]
           b == record_failure(book, u)
       IN  book' = IF u = NoUrl THEN book ELSE [b EXCEPT !.active = @ \ {u}]
    /\ UNCHANGED <<known, target, todo, link>>

-----------------------------------------------------------------------------

dial_ends(t) ==
    /\ dialling(t)
    /\ \/ dial_fails(t) \/ dial_rejected(t)
       \/ \E c \in Conn, u \in StatedUrls : dial_succeeds(t, c, u)

wait_ends(t) ==
    /\ authenticating(t)
    /\ peer_authenticated(t) \/ peer_not_authenticated(t)

Next ==
    \/ Tick
    \/ \E u \in Url : mdns_found(u) \/ connect_peer(u)
    \/ reconnect_loop
    \/ \E t \in Task : dial_ends(t) \/ wait_ends(t)
    \/ \E c \in Conn, u \in StatedUrls : handle_connection(c, u)
    \/ \E c \in Conn, urls \in PeersMessages : on_peers(c, urls)
    \/ \E c \in Conn : on_hello(c) \/ connection_closes(c) \/ on_peer_disconnected(c)

Spec == Init /\ [][Next]_vars

\* Time passes; a dial and a wait for HELLO end, if only by their timeout; the
\* loop over the targets runs every second; a closed connection is noticed.
Fairness ==
    /\ WF_vars(Tick) /\ WF_vars(reconnect_loop)
    /\ \A t \in Task : WF_vars(dial_ends(t)) /\ WF_vars(wait_ends(t))
    /\ \A c \in Conn : WF_vars(on_peer_disconnected(c))

FairSpec == Spec /\ Fairness

-----------------------------------------------------------------------------
(* Properties *)

TypeOK ==
    /\ known \in Seq(Url) /\ Len(known) <= max_known_peers
    /\ peers \subseteq Conn /\ closed \subseteq peers /\ authed \subseteq peers
    /\ advertised \in [Conn -> Url \cup {NoUrl}]
    /\ url_by_peer \in [Conn -> Url \cup {NoUrl}]
    /\ book \in Book
    /\ target \in [Task -> Url \cup {NoUrl}] /\ todo \in [Task -> SUBSET Url]
    /\ link \in [Task -> Conn \cup {NoConn}]

\* Dialled and accepted connections together never exceed max_peers, although
\* a dial is decided on before it is suspended and registered after.
PeersBounded == Cardinality(peers) <= max_peers

\* No URL is left in _active_urls after its connection: an active URL belongs
\* to a registered peer (otherwise it would never be dialled again).
NoStaleUrl == \A u \in book.active : \E c \in peers : url_by_peer[c] = u

\* _connecting_urls is exact: each of its URLs is being dialled by one task,
\* and by one only.
DialsExclusive ==
    \A u \in Url :
        LET diallers == {t \in Task : target[t] = u}
        IN  IF u \in book.connecting THEN \E t \in Task : diallers = {t} ELSE diallers = {}

\* Every bootstrap URL that has not been given up is linked or tried again and
\* again: no interleaving of dials, closings and HELLOs leaves it forgotten.
KeepsTrying ==
    \A u \in known_peers(bootstrap_peers) :
        []<>((\E c \in peers : url_by_peer[c] = u) \/ book.wait[u] # 0)

=============================================================================
