--------------------------- MODULE PeerLinks_proofs ---------------------------
(* The tables of a node stay consistent and within their limits for every    *)
(* number of URLs, connections and dialling tasks, and every limit.          *)
EXTENDS PeerLinks, PositionInduction, SequenceTheorems

-----------------------------------------------------------------------------
(* What the helpers return *)

\* The back-off is a time: the recursion multiplies natural numbers.
LEMMA BackedOffType ==
    ASSUME NEW k \in Nat
    PROVE  backed_off(k) \in Nat
<1>1. initial_delay \in Nat /\ backoff_multiplier \in Nat
    BY LinkSettings
<1>2. \A i, j \in Nat : i * j \in Nat
    OBVIOUS
<1> DEFINE rule == [i \in 1 .. k |-> [v \in Nat |-> v * backoff_multiplier]]
<1>3. rule \in Rules(k, Nat)
    BY <1>1, <1>2 DEF Rules
<1>4. \A v \in Nat, i \in 1 .. k : rule[i][v] = v * backoff_multiplier
    OBVIOUS
<1> HIDE DEF rule
<1>5. PICK f : Follows(f, k, Nat, initial_delay, rule)
    BY <1>1, <1>3, RecursionExists
<1>6. f = [i \in 0 .. k |-> IF i = 0 THEN initial_delay ELSE f[i - 1] * backoff_multiplier]
    <2>1. ASSUME NEW i \in 1 .. k PROVE f[i] = f[i - 1] * backoff_multiplier
        <3>1. f[i - 1] \in Nat
            BY <1>5 DEF Follows
        <3> QED BY <1>4, <1>5, <3>1 DEF Follows
    <2> QED BY <1>5, <2>1 DEF Follows
<1> DEFINE upto == CHOOSE g : g = [i \in 0 .. k |-> IF i = 0 THEN initial_delay
                                                    ELSE g[i - 1] * backoff_multiplier]
<1>7. upto = [i \in 0 .. k |-> IF i = 0 THEN initial_delay ELSE upto[i - 1] * backoff_multiplier]
    BY <1>6
<1>8. backed_off(k) = upto[k]
    BY DEF backed_off
<1> HIDE DEF upto
<1>9. /\ upto[0] \in Nat
      /\ \A i \in 1 .. k : upto[i - 1] \in Nat => upto[i] \in Nat
    BY <1>1, <1>2, <1>7
<1>10. \A i \in 0 .. k : upto[i] \in Nat
    BY <1>9, RecursionType
<1> QED BY <1>8, <1>10

\* The time until the next dial is limited.
LEMMA DelayType ==
    ASSUME NEW count \in Nat \ {0}
    PROVE  delay(count) \in 0 .. max_delay
<1>1. count - 1 \in Nat /\ max_delay \in Nat
    BY LinkSettings
<1>2. backed_off(count - 1) \in Nat
    BY <1>1, BackedOffType
<1> QED BY <1>1, <1>2 DEF delay

\* The table of known URLs keeps its type and, once shortened, its limit.
LEMMA NewestType ==
    ASSUME NEW table \in Seq(Url)
    PROVE  newest(table) \in Seq(Url) /\ Len(newest(table)) <= max_known_peers
<1>1. max_known_peers \in Nat /\ Len(table) \in Nat
    BY LinkSettings
<1>2. CASE Len(table) <= max_known_peers
    BY <1>1, <1>2 DEF newest
<1>3. CASE ~ (Len(table) <= max_known_peers)
    <2> DEFINE lo == Len(table) - max_known_peers + 1
    <2>1. lo \in 1 .. Len(table) + 1
        BY <1>1, <1>3
    <2>2. /\ SubSeq(table, lo, Len(table)) \in Seq(Url)
          /\ Len(SubSeq(table, lo, Len(table))) = Len(table) - lo + 1
        BY <1>1, <2>1
    <2> QED BY <1>1, <1>3, <2>2 DEF newest
<1> QED BY <1>2, <1>3

\* add_peer leaves a table within the limit.
LEMMA AddPeerType ==
    ASSUME NEW table \in Seq(Url), NEW u \in Url
    PROVE  add_peer(table, u) \in Seq(Url) /\ Len(add_peer(table, u)) <= max_known_peers
<1>1. removed(table, u) \in Seq(Url)
    <2>1. CASE u \notin known_peers(table)
        BY <2>1 DEF removed
    <2>2. CASE u \in known_peers(table)
        <3> DEFINE i == CHOOSE j \in DOMAIN table : table[j] = u
        <3>1. i \in 1 .. Len(table)
            BY <2>2 DEF known_peers
        <3> HIDE DEF i
        <3>2. SubSeq(table, 1, i - 1) \in Seq(Url) /\ SubSeq(table, i + 1, Len(table)) \in Seq(Url)
            BY <3>1
        <3> QED BY <2>2, <3>2 DEF removed, i
    <2> QED BY <2>1, <2>2
<1>2. Append(removed(table, u), u) \in Seq(Url)
    BY <1>1
<1> QED BY <1>2, NewestType DEF add_peer

\* So does a whole PEERS message, whose URLs are added by recursion.
LEMMA AddPeersType ==
    ASSUME NEW table \in Seq(Url), Len(table) <= max_known_peers, NEW urls \in Seq(Url)
    PROVE  add_peers(table, urls) \in Seq(Url) /\ Len(add_peers(table, urls)) <= max_known_peers
<1> DEFINE Table == {s \in Seq(Url) : Len(s) <= max_known_peers}
           count == IF Len(urls) < max_peers_per_message THEN Len(urls) ELSE max_peers_per_message
<1>1. count \in Nat /\ count <= Len(urls)
    BY LinkSettings
<1>2. table \in Table /\ \A s \in Table, u \in Url : add_peer(s, u) \in Table
    BY AddPeerType
<1>3. \A i \in 1 .. count : urls[i] \in Url
    BY <1>1
<1> DEFINE rule == [i \in 1 .. count |-> [s \in Table |-> add_peer(s, urls[i])]]
<1>4. add_peers(table, urls) =
          (CHOOSE g : g = [i \in 0 .. count |-> IF i = 0 THEN table ELSE add_peer(g[i - 1], urls[i])])[count]
    BY DEF add_peers
<1> HIDE DEF Table, count
<1>5. rule \in Rules(count, Table)
    BY <1>2, <1>3 DEF Rules
<1>6. \A s \in Table, i \in 1 .. count : rule[i][s] = add_peer(s, urls[i])
    OBVIOUS
<1> HIDE DEF rule
<1>7. PICK f : Follows(f, count, Table, table, rule)
    BY <1>1, <1>2, <1>5, RecursionExists
<1>8. f = [i \in 0 .. count |-> IF i = 0 THEN table ELSE add_peer(f[i - 1], urls[i])]
    <2>1. \A i \in 1 .. count : f[i] = add_peer(f[i - 1], urls[i])
        BY <1>1, <1>6, <1>7 DEF Follows
    <2> QED BY <1>7, <2>1 DEF Follows
<1> DEFINE upto == CHOOSE g : g = [i \in 0 .. count |-> IF i = 0 THEN table ELSE add_peer(g[i - 1], urls[i])]
<1>9. upto = [i \in 0 .. count |-> IF i = 0 THEN table ELSE add_peer(upto[i - 1], urls[i])]
    BY <1>8
<1>10. add_peers(table, urls) = upto[count]
    BY <1>4
<1> HIDE DEF upto
<1>11. upto[0] \in Table /\ \A i \in 1 .. count : upto[i - 1] \in Table => upto[i] \in Table
    BY <1>1, <1>2, <1>3, <1>9
<1>12. \A i \in 0 .. count : upto[i] \in Table
    BY <1>1, <1>11, RecursionType
<1>13. upto[count] \in Table
    BY <1>1, <1>12
<1> QED BY <1>10, <1>13 DEF Table

\* Of several URLs one comes first.
LEMMA FirstUrl ==
    ASSUME NEW free \in SUBSET Url, free # {}
    PROVE  (CHOOSE u \in free : \A v \in free : rank[u] <= rank[v]) \in free
<1>1. \A u \in free : rank[u] \in Nat
    BY LinkSettings
<1>2. PICK e \in free : TRUE
    OBVIOUS
<1> DEFINE n == rank[e] + 1
           P == {k \in 1 .. n : \E u \in free : rank[u] + 1 = k}
<1>3. n \in Nat /\ P \in SUBSET (1 .. n) /\ n \in P
    BY <1>1
<1>4. PICK k \in P : \A j \in P : k <= j
    <2> HIDE DEF P, n
    <2> QED BY <1>3, FirstPosition
<1>5. PICK u \in free : rank[u] + 1 = k
    OBVIOUS
<1>6. ASSUME NEW v \in free PROVE rank[u] <= rank[v]
    <2>1. CASE rank[v] + 1 <= n
        BY <1>1, <1>4, <1>5, <2>1
    <2>2. CASE ~ (rank[v] + 1 <= n)
        BY <1>1, <1>4, <1>5, <2>2
    <2> QED BY <2>1, <2>2
<1> QED BY <1>6

-----------------------------------------------------------------------------
(* The tables of URLs *)

\* The fields of the tables.
LEMMA BookFields ==
    ASSUME NEW b \in Book
    PROVE  /\ b.active \in SUBSET Url /\ b.connecting \in SUBSET Url
           /\ b.attempts \in [Url -> 0 .. AttemptCap]
           /\ b.wait \in [Url -> {Never} \cup (0 .. max_delay)]
           /\ b = [active |-> b.active, connecting |-> b.connecting,
                   attempts |-> b.attempts, wait |-> b.wait]
BY DEF Book

\* A failure counts one more attempt and sets the time of the next, and
\* touches neither the active nor the connecting URLs.
LEMMA RecordFailure ==
    ASSUME NEW b \in Book, NEW u \in Url
    PROVE  /\ record_failure(b, u) \in Book
           /\ record_failure(b, u).active = b.active
           /\ record_failure(b, u).connecting = b.connecting
<1> DEFINE count == capped(b.attempts[u] + 1)
           w == IF max_attempts > 0 /\ count >= max_attempts THEN Never ELSE delay(count)
<1>1. AttemptCap \in Nat \ {0} /\ max_delay \in Nat /\ max_attempts \in Nat
    BY LinkSettings
<1>2. /\ b.attempts \in [Url -> 0 .. AttemptCap]
      /\ b.wait \in [Url -> {Never} \cup (0 .. max_delay)]
    BY BookFields
<1>3. b.attempts[u] \in 0 .. AttemptCap
    BY <1>2
<1>4. count \in 1 .. AttemptCap
    BY <1>1, <1>3 DEF capped
<1> HIDE DEF count
<1>5. delay(count) \in 0 .. max_delay
    BY <1>4, DelayType
<1>6. w \in {Never} \cup (0 .. max_delay)
    BY <1>5
<1> HIDE DEF w
<1>7. record_failure(b, u) = [b EXCEPT !.attempts[u] = count, !.wait[u] = w]
    BY DEF record_failure, count, w
<1>8. [b.attempts EXCEPT ![u] = count] \in [Url -> 0 .. AttemptCap]
    BY <1>1, <1>2, <1>4
<1>9. [b.wait EXCEPT ![u] = w] \in [Url -> {Never} \cup (0 .. max_delay)]
    BY <1>2, <1>6
<1>10. record_failure(b, u) = [b EXCEPT !.attempts = [b.attempts EXCEPT ![u] = count],
                                        !.wait = [b.wait EXCEPT ![u] = w]]
    BY <1>7, BookFields
<1>11. record_failure(b, u) \in Book
    BY <1>8, <1>9, <1>10 DEF Book
<1> QED BY <1>10, <1>11, BookFields

\* A success forgets the failures of a URL.
LEMMA RecordSuccess ==
    ASSUME NEW b \in Book, NEW u \in Url
    PROVE  /\ record_success(b, u) \in Book
           /\ record_success(b, u).active = b.active
           /\ record_success(b, u).connecting = b.connecting
<1>1. AttemptCap \in Nat /\ max_delay \in Nat
    BY LinkSettings
<1>2. /\ b.attempts \in [Url -> 0 .. AttemptCap]
      /\ b.wait \in [Url -> {Never} \cup (0 .. max_delay)]
    BY BookFields
<1>3. /\ [b.attempts EXCEPT ![u] = 0] \in [Url -> 0 .. AttemptCap]
      /\ [b.wait EXCEPT ![u] = 0] \in [Url -> {Never} \cup (0 .. max_delay)]
    BY <1>1, <1>2
<1>4. record_success(b, u) = [b EXCEPT !.attempts = [b.attempts EXCEPT ![u] = 0],
                                       !.wait = [b.wait EXCEPT ![u] = 0]]
    BY BookFields DEF record_success
<1>5. record_success(b, u) \in Book
    BY <1>3, <1>4 DEF Book
<1> QED BY <1>4, <1>5, BookFields

\* Several failures at once, when the peer table is full.
LEMMA FailAll ==
    ASSUME NEW b \in Book, NEW urls \in SUBSET Url
    PROVE  /\ fail_all(b, urls) \in Book
           /\ fail_all(b, urls).active = b.active
           /\ fail_all(b, urls).connecting = b.connecting
<1> DEFINE a == [u \in Url |-> IF u \in urls THEN record_failure(b, u).attempts[u] ELSE b.attempts[u]]
           w == [u \in Url |-> IF u \in urls THEN record_failure(b, u).wait[u] ELSE b.wait[u]]
<1>1. \A u \in Url : record_failure(b, u) \in Book
    BY RecordFailure
<1>2. ASSUME NEW u \in Url
      PROVE  /\ record_failure(b, u).attempts[u] \in 0 .. AttemptCap /\ b.attempts[u] \in 0 .. AttemptCap
             /\ record_failure(b, u).wait[u] \in {Never} \cup (0 .. max_delay)
             /\ b.wait[u] \in {Never} \cup (0 .. max_delay)
    <2> DEFINE r == record_failure(b, u)
    <2>1. r \in Book
        BY <1>1
    <2> HIDE DEF r
    <2>2. /\ r.attempts \in [Url -> 0 .. AttemptCap] /\ r.wait \in [Url -> {Never} \cup (0 .. max_delay)]
          /\ b.attempts \in [Url -> 0 .. AttemptCap] /\ b.wait \in [Url -> {Never} \cup (0 .. max_delay)]
        BY <2>1, BookFields
    <2>3. /\ r.attempts[u] \in 0 .. AttemptCap /\ b.attempts[u] \in 0 .. AttemptCap
          /\ r.wait[u] \in {Never} \cup (0 .. max_delay) /\ b.wait[u] \in {Never} \cup (0 .. max_delay)
        BY <2>2
    <2> QED BY <2>3 DEF r
<1>3. a \in [Url -> 0 .. AttemptCap] /\ w \in [Url -> {Never} \cup (0 .. max_delay)]
    BY <1>2
<1>4. fail_all(b, urls) = [b EXCEPT !.attempts = a, !.wait = w]
    BY DEF fail_all
<1> HIDE DEF a, w
<1>5. fail_all(b, urls) \in Book
    BY <1>3, <1>4 DEF Book
<1> QED BY <1>4, <1>5, BookFields

\* The end of a dial.
LEMMA Finished ==
    ASSUME NEW b \in Book, NEW u
    PROVE  /\ finished(b, u) \in Book
           /\ finished(b, u).active = b.active
           /\ finished(b, u).connecting = b.connecting \ {u}
<1>1. b.connecting \ {u} \in SUBSET Url
    BY BookFields
<1>2. finished(b, u) = [b EXCEPT !.connecting = b.connecting \ {u}]
    BY DEF finished
<1> QED BY <1>1, <1>2 DEF Book

\* Task t goes on: it is idle afterwards, or dials a URL that nobody else does.
LEMMA ConnectNext ==
    ASSUME NEW t \in Task, NEW rest \in SUBSET Url, NEW b \in Book, NEW table,
           connect_next(t, rest, b, table), todo \in [Task -> SUBSET Url]
    PROVE  /\ link' = [link EXCEPT ![t] = NoConn]
           /\ todo' \in [Task -> SUBSET Url]
           /\ book' \in Book /\ book'.active = b.active
           /\ \/ target' = [target EXCEPT ![t] = NoUrl] /\ book'.connecting = b.connecting
              \/ \E u \in Url \ b.connecting : /\ target' = [target EXCEPT ![t] = u]
                                               /\ book'.connecting = b.connecting \cup {u}
<1> DEFINE free == {u \in rest : may_dial(b, u)}
           first == CHOOSE u \in free : \A v \in free : rank[u] <= rank[v]
<1>1. free \in SUBSET Url
    OBVIOUS
<1>2. CASE free = {} \/ full(table)
    <2>1. /\ link' = [link EXCEPT ![t] = NoConn] /\ target' = [target EXCEPT ![t] = NoUrl]
          /\ todo' = [todo EXCEPT ![t] = {}] /\ book' = fail_all(b, free)
        BY <1>2 DEF connect_next
    <2> HIDE DEF free
    <2>2. todo' \in [Task -> SUBSET Url]
        BY <2>1
    <2> QED BY <1>1, <2>1, <2>2, FailAll
<1>3. CASE ~ (free = {} \/ full(table))
    <2>1. /\ link' = [link EXCEPT ![t] = NoConn] /\ target' = [target EXCEPT ![t] = first]
          /\ todo' = [todo EXCEPT ![t] = {u \in rest : rank[u] > rank[first]}]
          /\ book' = [b EXCEPT !.connecting = b.connecting \cup {first}]
        BY <1>3 DEF connect_next
    <2>2. first \in free
        BY <1>1, <1>3, FirstUrl
    <2>3. first \in Url \ b.connecting
        BY <2>2 DEF may_dial
    <2> HIDE DEF free, first
    <2>4. todo' \in [Task -> SUBSET Url]
        BY <2>1
    <2>5. b.connecting \cup {first} \in SUBSET Url
        BY <2>3, BookFields
    <2>6. book' \in Book /\ book'.active = b.active /\ book'.connecting = b.connecting \cup {first}
        BY <2>1, <2>5 DEF Book
    <2> QED BY <2>1, <2>3, <2>4, <2>6
<1> QED BY <1>2, <1>3

-----------------------------------------------------------------------------
(* The steps, by what they do to the dialling tasks *)

\* Task t has left the URL it was dialling, if any, and gone on; A are the
\* active URLs then.
Resumes(t, A) ==
    /\ link' = [link EXCEPT ![t] = NoConn] /\ todo' \in [Task -> SUBSET Url]
    /\ book' \in Book /\ book'.active = A
    /\ LET left == book.connecting \ {target[t]} IN
       \/ target' = [target EXCEPT ![t] = NoUrl] /\ book'.connecting = left
       \/ \E u \in Url \ left : target' = [target EXCEPT ![t] = u] /\ book'.connecting = left \cup {u}

\* The steps in which t begins a list of URLs, or goes on with one, without
\* giving up a connection.
Continues(t) ==
    \/ dial_fails(t) \/ dial_rejected(t) \/ peer_authenticated(t)
    \/ t = App /\ \E u \in Url : connect_peer(u)
    \/ t = Reconnect /\ reconnect_loop
    \/ t \in Conn /\ \E urls \in PeersMessages : on_peers(t, urls)

\* connect_next, called with tables from which the URL of t has been removed.
LEMMA Resume ==
    ASSUME TypeOK, NEW t \in Task, NEW rest \in SUBSET Url, NEW b \in Book,
           b.connecting = book.connecting \ {target[t]}, connect_next(t, rest, b, peers)
    PROVE  Resumes(t, b.active)
<1>1. todo \in [Task -> SUBSET Url]
    BY DEF TypeOK
<1>2. /\ link' = [link EXCEPT ![t] = NoConn]
      /\ todo' \in [Task -> SUBSET Url]
      /\ book' \in Book /\ book'.active = b.active
      /\ \/ target' = [target EXCEPT ![t] = NoUrl] /\ book'.connecting = b.connecting
         \/ \E u \in Url \ b.connecting : /\ target' = [target EXCEPT ![t] = u]
                                          /\ book'.connecting = b.connecting \cup {u}
    BY <1>1, ConnectNext
<1> QED BY <1>2 DEF Resumes

\* An idle task has no URL to leave.
LEMMA IdleLeaves ==
    ASSUME TypeOK, NEW t \in Task, idle(t)
    PROVE  book \in Book /\ book.connecting = book.connecting \ {target[t]}
<1>1. book \in Book /\ book.connecting \in SUBSET Url
    BY BookFields DEF TypeOK
<1> QED BY <1>1, LinkSettings DEF idle

\* The URLs of the table are URLs.
LEMMA KnownUrls ==
    ASSUME NEW table \in Seq(Url)
    PROVE  known_peers(table) \in SUBSET Url
BY DEF known_peers

\* What a step of Continues does.
LEMMA ContinuesDoes ==
    ASSUME TypeOK, NEW t \in Task, Continues(t)
    PROVE  /\ Resumes(t, book.active)
           /\ known' \in Seq(Url) /\ Len(known') <= max_known_peers
           /\ UNCHANGED <<peers, closed, authed, advertised, url_by_peer>>
<1>1. book \in Book /\ todo[t] \in SUBSET Url /\ known \in Seq(Url) /\ Len(known) <= max_known_peers
    BY DEF TypeOK
<1>2. target[t] # NoUrl => target[t] \in Url
    BY DEF TypeOK
<1>3. CASE dial_fails(t) \/ dial_rejected(t)
    <2> DEFINE u == target[t]
               r == record_failure(book, u)
    <2>1. u \in Url /\ connect_next(t, todo[t], finished(r, u), peers)
          /\ UNCHANGED <<known, peers, closed, authed, advertised, url_by_peer>>
        BY <1>2, <1>3 DEF dial_fails, dial_rejected, dialling
    <2>2. r \in Book /\ r.active = book.active /\ r.connecting = book.connecting
        BY <1>1, <2>1, RecordFailure
    <2> HIDE DEF r
    <2>3. /\ finished(r, u) \in Book /\ finished(r, u).active = book.active
          /\ finished(r, u).connecting = book.connecting \ {u}
        BY <2>2, Finished
    <2>4. Resumes(t, book.active)
        BY <1>1, <2>1, <2>3, Resume
    <2> QED BY <1>1, <2>1, <2>4
<1>4. CASE peer_authenticated(t)
    <2> DEFINE u == target[t]
    <2>1. connect_next(t, todo[t], finished(book, u), peers)
          /\ UNCHANGED <<known, peers, closed, authed, advertised, url_by_peer>>
        BY <1>4 DEF peer_authenticated
    <2>2. /\ finished(book, u) \in Book /\ finished(book, u).active = book.active
          /\ finished(book, u).connecting = book.connecting \ {u}
        BY <1>1, Finished
    <2>3. Resumes(t, book.active)
        BY <1>1, <2>1, <2>2, Resume
    <2> QED BY <1>1, <2>1, <2>3
<1>5. ASSUME NEW rest \in SUBSET Url, idle(t), connect_next(t, rest, book, peers)
      PROVE  Resumes(t, book.active)
    BY <1>5, IdleLeaves, Resume
<1>6. ASSUME NEW u \in Url, t = App, connect_peer(u)
      PROVE  Resumes(t, book.active) /\ UNCHANGED <<known, peers, closed, authed, advertised, url_by_peer>>
    <2>1. {u} \in SUBSET Url /\ idle(t) /\ connect_next(t, {u}, book, peers)
        BY <1>6 DEF connect_peer
    <2>2. Resumes(t, book.active)
        BY <1>5, <2>1
    <2> QED BY <1>6, <2>2 DEF connect_peer
<1>7. CASE t = Reconnect /\ reconnect_loop
    <2> DEFINE targets == known_peers(bootstrap_peers) \cup known_peers(known)
    <2>1. bootstrap_peers \in Seq(Url)
        BY LinkSettings
    <2>2. targets \in SUBSET Url
        BY <1>1, <2>1, KnownUrls
    <2>3. idle(t) /\ connect_next(t, targets, book, peers)
        BY <1>7 DEF reconnect_loop
    <2>4. Resumes(t, book.active)
        BY <1>5, <2>2, <2>3
    <2> QED BY <1>1, <1>7, <2>4 DEF reconnect_loop
<1>8. ASSUME NEW urls \in PeersMessages, t \in Conn, on_peers(t, urls)
      PROVE  /\ Resumes(t, book.active) /\ UNCHANGED <<peers, closed, authed, advertised, url_by_peer>>
             /\ known' \in Seq(Url) /\ Len(known') <= max_known_peers
    <2>1. urls \in Seq(Url)
        BY LinkSettings
    <2>2. known' = add_peers(known, urls)
        BY <1>8 DEF on_peers
    <2>3. known' \in Seq(Url) /\ Len(known') <= max_known_peers
        BY <1>1, <2>1, <2>2, AddPeersType
    <2> DEFINE rest == first_of(known_peers(known'), max_peers)
    <2>4. rest \in SUBSET Url
        BY <2>3, KnownUrls DEF first_of
    <2>5. idle(t) /\ connect_next(t, rest, book, peers)
        BY <1>8 DEF on_peers
    <2>6. Resumes(t, book.active)
        BY <1>5, <2>4, <2>5
    <2> QED BY <1>8, <2>3, <2>6 DEF on_peers
<1> QED BY <1>1, <1>3, <1>4, <1>6, <1>7, <1>8 DEF Continues

\* A wait that ends without authentication gives its URL free.
LEMMA NotAuthenticatedDoes ==
    ASSUME TypeOK, NEW t \in Task, peer_not_authenticated(t)
    PROVE  /\ Resumes(t, book.active \ {target[t]})
           /\ link[t] \in Conn /\ target[t] \in Url
           /\ url_by_peer' = [url_by_peer EXCEPT ![link[t]] = NoUrl]
           /\ closed' \subseteq peers
           /\ UNCHANGED <<known, peers, authed, advertised>>
<1> DEFINE u == target[t]
           r == record_failure(book, u)
           b == [r EXCEPT !.active = r.active \ {u}]
<1>1. u \in Url /\ link[t] \in Conn /\ book \in Book /\ todo[t] \in SUBSET Url /\ closed \subseteq peers
    BY DEF peer_not_authenticated, authenticating, TypeOK
<1>2. connect_next(t, todo[t], finished(b, u), peers)
    BY DEF peer_not_authenticated
<1>3. r \in Book /\ r.active = book.active /\ r.connecting = book.connecting
    BY <1>1, RecordFailure
<1> HIDE DEF r
<1>4. b \in Book /\ b.active = book.active \ {u} /\ b.connecting = book.connecting
    <2>1. r.active \ {u} \in SUBSET Url
        BY <1>3, BookFields
    <2> QED BY <1>3, <2>1 DEF Book
<1> HIDE DEF b
<1>5. /\ finished(b, u) \in Book /\ finished(b, u).active = book.active \ {u}
      /\ finished(b, u).connecting = book.connecting \ {u}
    BY <1>4, Finished
<1>6. Resumes(t, book.active \ {u})
    BY <1>1, <1>2, <1>5, Resume
<1> QED BY <1>1, <1>6 DEF peer_not_authenticated

\* A dial that succeeds registers a connection under the URL.
LEMMA SucceedsDoes ==
    ASSUME TypeOK, NEW t \in Task, NEW c \in Conn, NEW stated \in StatedUrls, dial_succeeds(t, c, stated)
    PROVE  /\ c \notin peers /\ (\A s \in Task : link[s] # c) /\ ~ full(peers)
           /\ peers' = peers \cup {c} /\ target[t] \in Url /\ stated \in Url
           /\ advertised' = [advertised EXCEPT ![c] = stated]
           /\ url_by_peer' = [url_by_peer EXCEPT ![c] = target[t]]
           /\ link' = [link EXCEPT ![t] = c]
           /\ book' \in Book /\ book'.active = book.active \cup {target[t]}
           /\ book'.connecting = book.connecting
           /\ UNCHANGED <<known, closed, authed, target, todo>>
<1> DEFINE u == target[t]
           b == record_success(book, u)
<1>1. u \in Url /\ book \in Book /\ stated \in Url
    BY LinkSettings DEF dial_succeeds, dialling, TypeOK
<1>2. b \in Book /\ b.active = book.active /\ b.connecting = book.connecting
    BY <1>1, RecordSuccess
<1>3. book' = [b EXCEPT !.active = b.active \cup {u}]
    BY DEF dial_succeeds
<1> HIDE DEF b
<1>4. book' \in Book /\ book'.active = book.active \cup {u} /\ book'.connecting = book.connecting
    <2>1. b.active \cup {u} \in SUBSET Url
        BY <1>1, <1>2, BookFields
    <2> QED BY <1>2, <1>3, <2>1 DEF Book
<1> QED BY <1>1, <1>4 DEF dial_succeeds, fresh

\* A peer whose connection has ended is forgotten.
LEMMA DisconnectedDoes ==
    ASSUME TypeOK, NEW c \in Conn, on_peer_disconnected(c)
    PROVE  /\ peers' = peers \ {c} /\ closed' = closed \ {c} /\ authed' = authed \ {c}
           /\ advertised' = [advertised EXCEPT ![c] = NoUrl]
           /\ url_by_peer' = [url_by_peer EXCEPT ![c] = NoUrl]
           /\ book' \in Book /\ book'.active = book.active \ {url_by_peer[c]}
           /\ book'.connecting = book.connecting
           /\ UNCHANGED <<known, target, todo, link>>
<1> DEFINE u == url_by_peer[c]
           b == record_failure(book, u)
<1>1. book \in Book /\ book.active \in SUBSET Url /\ (u = NoUrl \/ u \in Url)
    BY BookFields DEF TypeOK
<1>2. book' = IF u = NoUrl THEN book ELSE [b EXCEPT !.active = b.active \ {u}]
    BY DEF on_peer_disconnected
<1>3. CASE u = NoUrl
    <2>1. book' = book /\ book.active = book.active \ {u}
        BY <1>1, <1>2, <1>3, LinkSettings
    <2> QED BY <1>1, <2>1 DEF on_peer_disconnected
<1>4. CASE u \in Url
    <2>1. b \in Book /\ b.active = book.active /\ b.connecting = book.connecting
        BY <1>1, <1>4, RecordFailure
    <2>2. book' = [b EXCEPT !.active = b.active \ {u}]
        BY <1>2, <1>4, LinkSettings
    <2> HIDE DEF b
    <2>3. book' \in Book /\ book'.active = book.active \ {u} /\ book'.connecting = book.connecting
        <3>1. b.active \ {u} \in SUBSET Url
            BY <2>1, BookFields
        <3> QED BY <2>1, <2>2, <3>1 DEF Book
    <2> QED BY <2>3 DEF on_peer_disconnected
<1> QED BY <1>1, <1>3, <1>4

\* Time passes for the URLs that wait.
LEMMA TickDoes ==
    ASSUME TypeOK, Tick
    PROVE  /\ book' \in Book /\ book'.active = book.active /\ book'.connecting = book.connecting
           /\ UNCHANGED <<known, peers, closed, authed, advertised, url_by_peer, target, todo, link>>
<1> DEFINE w == [u \in Url |-> IF book.wait[u] > 0 THEN book.wait[u] - 1 ELSE book.wait[u]]
<1>1. book \in Book /\ book.wait \in [Url -> {Never} \cup (0 .. max_delay)] /\ max_delay \in Nat
    BY BookFields, LinkSettings DEF TypeOK
<1>2. w \in [Url -> {Never} \cup (0 .. max_delay)]
    BY <1>1 DEF Never
<1>3. book' = [book EXCEPT !.wait = w]
    BY DEF Tick
<1> HIDE DEF w
<1>4. book' \in Book /\ book'.active = book.active /\ book'.connecting = book.connecting
    BY <1>1, <1>2, <1>3 DEF Book
<1> QED BY <1>4 DEF Tick

\* Every registered peer will state a URL.
Stated == \A c \in peers : advertised[c] \in Url

\* A HELLO registers a peer that has no URL.
LEMMA HelloDoes ==
    ASSUME TypeOK, Stated, NEW c \in Conn, on_hello(c)
    PROVE  /\ c \in peers /\ authed' = authed \cup {c}
           /\ \/ UNCHANGED <<url_by_peer, book>>
              \/ /\ url_by_peer[c] = NoUrl /\ advertised[c] \in Url
                 /\ url_by_peer' = [url_by_peer EXCEPT ![c] = advertised[c]]
                 /\ book' \in Book /\ book'.active = book.active \cup {advertised[c]}
                 /\ book'.connecting = book.connecting
           /\ UNCHANGED <<known, peers, closed, advertised, target, todo, link>>
<1>1. c \in peers /\ advertised[c] \in Url /\ book \in Book
    BY DEF on_hello, Stated, TypeOK
<1>2. CASE url_by_peer[c] = NoUrl
    <2>1. /\ url_by_peer' = [url_by_peer EXCEPT ![c] = advertised[c]]
          /\ book' = [book EXCEPT !.active = book.active \cup {advertised[c]}]
        BY <1>2 DEF on_hello
    <2>2. book.active \cup {advertised[c]} \in SUBSET Url
        BY <1>1, BookFields
    <2>3. /\ book' \in Book /\ book'.active = book.active \cup {advertised[c]}
          /\ book'.connecting = book.connecting
        BY <1>1, <2>1, <2>2 DEF Book
    <2> QED BY <1>1, <1>2, <2>1, <2>3 DEF on_hello
<1>3. CASE url_by_peer[c] # NoUrl
    BY <1>1, <1>3 DEF on_hello
<1> QED BY <1>2, <1>3

\* The steps of Next under these names.
LEMMA NextCases ==
    ASSUME [Next]_vars
    PROVE  \/ Tick
           \/ \E u \in Url : mdns_found(u)
           \/ \E t \in Task : Continues(t) \/ peer_not_authenticated(t)
           \/ \E t \in Task, c \in Conn, u \in StatedUrls : dial_succeeds(t, c, u)
           \/ \E c \in Conn, u \in StatedUrls : handle_connection(c, u)
           \/ \E c \in Conn : on_hello(c) \/ connection_closes(c) \/ on_peer_disconnected(c)
           \/ UNCHANGED vars
<1>1. App \in Task /\ Reconnect \in Task /\ Conn \subseteq Task
    BY DEF Task
<1> QED BY <1>1 DEF Next, dial_ends, wait_ends, Continues

-----------------------------------------------------------------------------
(* Type correctness *)

\* Where a task is after it has gone on.
LEMMA ResumesType ==
    ASSUME TypeOK, NEW t \in Task, NEW A, Resumes(t, A)
    PROVE  /\ target' \in [Task -> Url \cup {NoUrl}] /\ todo' \in [Task -> SUBSET Url]
           /\ link' \in [Task -> Conn \cup {NoConn}] /\ book' \in Book
BY DEF TypeOK, Resumes

\* Every step keeps the types and the URLs that are stated.
LEMMA NextType == TypeOK /\ Stated /\ [Next]_vars => TypeOK' /\ Stated'
<1> SUFFICES ASSUME TypeOK, Stated, [Next]_vars PROVE TypeOK' /\ Stated'
    OBVIOUS
<1>1. CASE Tick
    BY <1>1, TickDoes DEF TypeOK, Stated
<1>2. ASSUME NEW u \in Url, mdns_found(u) PROVE TypeOK' /\ Stated'
    <2>1. known' \in Seq(Url) /\ Len(known') <= max_known_peers
        BY <1>2, AddPeerType DEF mdns_found, TypeOK
    <2> QED BY <1>2, <2>1 DEF mdns_found, TypeOK, Stated
<1>3. ASSUME NEW t \in Task, Continues(t) PROVE TypeOK' /\ Stated'
    <2>1. /\ Resumes(t, book.active) /\ known' \in Seq(Url) /\ Len(known') <= max_known_peers
          /\ UNCHANGED <<peers, closed, authed, advertised, url_by_peer>>
        BY <1>3, ContinuesDoes
    <2>2. /\ target' \in [Task -> Url \cup {NoUrl}] /\ todo' \in [Task -> SUBSET Url]
          /\ link' \in [Task -> Conn \cup {NoConn}] /\ book' \in Book
        BY <2>1, ResumesType
    <2> QED BY <2>1, <2>2 DEF TypeOK, Stated
<1>4. ASSUME NEW t \in Task, peer_not_authenticated(t) PROVE TypeOK' /\ Stated'
    <2>1. /\ Resumes(t, book.active \ {target[t]}) /\ link[t] \in Conn
          /\ url_by_peer' = [url_by_peer EXCEPT ![link[t]] = NoUrl]
          /\ closed' \subseteq peers /\ UNCHANGED <<known, peers, authed, advertised>>
        BY <1>4, NotAuthenticatedDoes
    <2>2. /\ target' \in [Task -> Url \cup {NoUrl}] /\ todo' \in [Task -> SUBSET Url]
          /\ link' \in [Task -> Conn \cup {NoConn}] /\ book' \in Book
        BY <2>1, ResumesType
    <2> QED BY <2>1, <2>2 DEF TypeOK, Stated
<1>5. ASSUME NEW t \in Task, NEW c \in Conn, NEW u \in StatedUrls, dial_succeeds(t, c, u)
      PROVE  TypeOK' /\ Stated'
    <2>1. /\ peers' = peers \cup {c} /\ target[t] \in Url /\ u \in Url
          /\ advertised' = [advertised EXCEPT ![c] = u]
          /\ url_by_peer' = [url_by_peer EXCEPT ![c] = target[t]]
          /\ link' = [link EXCEPT ![t] = c] /\ book' \in Book
          /\ UNCHANGED <<known, closed, authed, target, todo>>
        BY <1>5, SucceedsDoes
    <2> QED BY <2>1 DEF TypeOK, Stated
<1>6. ASSUME NEW c \in Conn, NEW u \in StatedUrls, handle_connection(c, u) PROVE TypeOK' /\ Stated'
    BY <1>6, LinkSettings DEF handle_connection, TypeOK, Stated
<1>7. ASSUME NEW c \in Conn, on_hello(c) PROVE TypeOK' /\ Stated'
    BY <1>7, HelloDoes DEF TypeOK, Stated
<1>8. ASSUME NEW c \in Conn, connection_closes(c) PROVE TypeOK' /\ Stated'
    BY <1>8 DEF connection_closes, TypeOK, Stated
<1>9. ASSUME NEW c \in Conn, on_peer_disconnected(c) PROVE TypeOK' /\ Stated'
    <2>1. /\ peers' = peers \ {c} /\ closed' = closed \ {c} /\ authed' = authed \ {c}
          /\ advertised' = [advertised EXCEPT ![c] = NoUrl]
          /\ url_by_peer' = [url_by_peer EXCEPT ![c] = NoUrl]
          /\ book' \in Book /\ UNCHANGED <<known, target, todo, link>>
        BY <1>9, DisconnectedDoes
    <2>2. TypeOK'
        BY <2>1 DEF TypeOK
    <2>3. Stated'
        BY <2>1 DEF TypeOK, Stated
    <2> QED BY <2>2, <2>3
<1>10. CASE UNCHANGED vars
    BY <1>10 DEF vars, TypeOK, Stated
<1> QED BY <1>1, <1>2, <1>3, <1>4, <1>5, <1>6, <1>7, <1>8, <1>9, <1>10, NextCases

\* Nothing is known but the bootstrap peers, nothing is connected.
LEMMA InitType == Init => TypeOK /\ Stated
<1> SUFFICES ASSUME Init PROVE TypeOK /\ Stated
    OBVIOUS
<1>1. known \in Seq(Url) /\ Len(known) <= max_known_peers
    BY LinkSettings, NewestType DEF Init
<1>2. book \in Book
    BY LinkSettings DEF Init, Book
<1> QED BY <1>1, <1>2 DEF Init, TypeOK, Stated

\* Whatever URLs mDNS, PEERS messages and HELLOs bring, the tables keep their
\* types; the table of known URLs keeps its limit, and only registered peers
\* count as closed or authenticated.
THEOREM TypeCorrect == Spec => []TypeOK
BY InitType, NextType, PTL DEF Spec

-----------------------------------------------------------------------------
(* The limit on peers *)

\* One more peer is registered only while there is room.
LEMMA NextBounded == TypeOK /\ PeersBounded /\ [Next]_vars => PeersBounded'
<1> SUFFICES ASSUME TypeOK, PeersBounded, [Next]_vars PROVE PeersBounded'
    OBVIOUS
<1>1. IsFiniteSet(peers) /\ Cardinality(peers) \in Nat /\ max_peers \in Nat
    BY LinkSettings, FS_Subset, FS_CardinalityType DEF TypeOK
<1>2. ASSUME NEW c, ~ full(peers), peers' = peers \cup {c} PROVE PeersBounded'
    <2>1. Cardinality(peers \cup {c}) = Cardinality(peers) \/ Cardinality(peers \cup {c}) = Cardinality(peers) + 1
        BY <1>1, FS_AddElement
    <2>2. Cardinality(peers) < max_peers
        BY <1>1, <1>2 DEF full
    <2>3. Cardinality(peers \cup {c}) <= max_peers
        BY <1>1, <2>1, <2>2
    <2> QED BY <1>2, <2>3 DEF PeersBounded
<1>3. ASSUME NEW c \in Conn, on_peer_disconnected(c) PROVE PeersBounded'
    <2>1. peers' = peers \ {c}
        BY <1>3 DEF on_peer_disconnected
    <2>2. Cardinality(peers') <= Cardinality(peers) /\ Cardinality(peers') \in Nat
        BY <1>1, <2>1, FS_Subset, FS_CardinalityType
    <2> QED BY <1>1, <2>2 DEF PeersBounded
<1>4. CASE peers' = peers
    BY <1>4 DEF PeersBounded
<1>5. ASSUME NEW t \in Task, Continues(t) \/ peer_not_authenticated(t) PROVE peers' = peers
    BY <1>5, ContinuesDoes, NotAuthenticatedDoes
<1>6. ASSUME NEW t \in Task, NEW c \in Conn, NEW u \in StatedUrls, dial_succeeds(t, c, u)
      PROVE  PeersBounded'
    BY <1>2, <1>6 DEF dial_succeeds
<1>7. ASSUME NEW c \in Conn, NEW u \in StatedUrls, handle_connection(c, u) PROVE PeersBounded'
    BY <1>2, <1>7 DEF handle_connection
<1>8. ASSUME NEW c \in Conn, on_hello(c) \/ connection_closes(c) PROVE peers' = peers
    BY <1>8 DEF on_hello, connection_closes
<1> QED BY <1>3, <1>4, <1>5, <1>6, <1>7, <1>8, NextCases DEF Tick, mdns_found, vars

\* Dials that were decided on while there was room do not overfill the table.
THEOREM PeersAlwaysBounded == Spec => []PeersBounded
<1>1. Init => PeersBounded
    BY LinkSettings, FS_EmptySet DEF Init, PeersBounded
<1> QED BY <1>1, InitType, NextType, NextBounded, PTL DEF Spec

-----------------------------------------------------------------------------
(* The URLs that are being dialled *)

\* DialsExclusive without sets of tasks: what a task dials is being dialled, no
\* two tasks dial the same URL, and what is being dialled some task dials.
Exclusive ==
    /\ \A t \in Task : target[t] # NoUrl => target[t] \in book.connecting
    /\ \A s, t \in Task : target[s] = target[t] /\ target[t] # NoUrl => s = t
    /\ \A u \in book.connecting : \E t \in Task : target[t] = u

LEMMA ExclusiveMeans == TypeOK /\ Exclusive => DialsExclusive
<1> SUFFICES ASSUME TypeOK, Exclusive, NEW u \in Url
             PROVE  LET diallers == {t \in Task : target[t] = u}
                    IN  IF u \in book.connecting THEN \E t \in Task : diallers = {t} ELSE diallers = {}
    BY DEF DialsExclusive
<1> DEFINE diallers == {t \in Task : target[t] = u}
<1>1. u # NoUrl
    BY LinkSettings
<1>2. CASE u \in book.connecting
    <2>1. PICK t \in Task : target[t] = u
        BY <1>2 DEF Exclusive
    <2>2. diallers = {t}
        BY <1>1, <2>1 DEF Exclusive
    <2> QED BY <1>2, <2>2
<1>3. CASE u \notin book.connecting
    BY <1>1, <1>3 DEF Exclusive
<1> QED BY <1>2, <1>3

\* A task that goes on leaves its URL and takes one that nobody dials.
LEMMA ResumesExclusive ==
    ASSUME TypeOK, Exclusive, NEW t \in Task, NEW A, Resumes(t, A)
    PROVE  Exclusive'
<1>1. target \in [Task -> Url \cup {NoUrl}] /\ NoUrl \notin Url
    BY LinkSettings DEF TypeOK
<1> DEFINE rest == book.connecting \ {target[t]}
<1>2. \A s \in Task \ {t} : target[s] # NoUrl => target[s] \in rest
    BY DEF Exclusive
<1>3. \A u \in rest : \E s \in Task \ {t} : target[s] = u
    BY DEF Exclusive
<1>4. CASE target' = [target EXCEPT ![t] = NoUrl] /\ book'.connecting = rest
    <2>1. target'[t] = NoUrl /\ \A s \in Task \ {t} : target'[s] = target[s]
        BY <1>1, <1>4
    <2>2. NoUrl \notin rest
        BY <1>1, <1>3, BookFields DEF TypeOK
    <2> QED BY <1>2, <1>3, <1>4, <2>1, <2>2 DEF Exclusive
<1>5. ASSUME NEW u \in Url \ rest, target' = [target EXCEPT ![t] = u], book'.connecting = rest \cup {u}
      PROVE  Exclusive'
    <2>1. target'[t] = u /\ \A s \in Task \ {t} : target'[s] = target[s]
        BY <1>1, <1>5
    <2> HIDE DEF rest
    <2>2. \A s \in Task : target'[s] # NoUrl => target'[s] \in book'.connecting
        BY <1>2, <1>5, <2>1
    <2>3. \A s \in Task \ {t} : target'[s] # u
        BY <1>1, <1>2, <1>5, <2>1
    <2>4. \A s, r \in Task : target'[s] = target'[r] /\ target'[r] # NoUrl => s = r
        BY <2>1, <2>3 DEF Exclusive
    <2>5. \A v \in book'.connecting : \E s \in Task : target'[s] = v
        BY <1>3, <1>5, <2>1
    <2> QED BY <2>2, <2>4, <2>5 DEF Exclusive
<1> QED BY <1>4, <1>5 DEF Resumes

LEMMA NextExclusive == TypeOK /\ Stated /\ Exclusive /\ [Next]_vars => Exclusive'
<1> SUFFICES ASSUME TypeOK, Stated, Exclusive, [Next]_vars PROVE Exclusive'
    OBVIOUS
<1>1. CASE target' = target /\ book'.connecting = book.connecting
    BY <1>1 DEF Exclusive
<1>2. ASSUME NEW t \in Task, Continues(t) \/ peer_not_authenticated(t) PROVE Exclusive'
    BY <1>2, ContinuesDoes, NotAuthenticatedDoes, ResumesExclusive
<1>3. ASSUME NEW t \in Task, NEW c \in Conn, NEW u \in StatedUrls, dial_succeeds(t, c, u)
      PROVE  Exclusive'
    BY <1>1, <1>3, SucceedsDoes
<1>4. ASSUME NEW c \in Conn, on_hello(c) \/ connection_closes(c) \/ on_peer_disconnected(c)
      PROVE  Exclusive'
    BY <1>1, <1>4, HelloDoes, DisconnectedDoes DEF connection_closes
<1>5. CASE Tick
    BY <1>1, <1>5, TickDoes
<1>6. ASSUME book' = book, target' = target PROVE Exclusive'
    BY <1>1, <1>6
<1> QED BY <1>2, <1>3, <1>4, <1>5, <1>6, NextCases DEF mdns_found, handle_connection, vars

\* However the tasks interleave, no URL is dialled twice at the same time, and
\* none stays behind in _connecting_urls when its dial has ended.
THEOREM DialsStayExclusive == Spec => []DialsExclusive
<1>1. Init => Exclusive
    BY DEF Init, Exclusive
<1> QED BY <1>1, InitType, NextType, NextExclusive, ExclusiveMeans, PTL DEF Spec

-----------------------------------------------------------------------------
(* The URLs of the peers *)

\* What makes NoStaleUrl inductive: a connection that a task waits for belongs
\* to that task alone, and stays registered under the URL the task dials.
Linked ==
    /\ \A t \in Task : link[t] # NoConn => target[t] # NoUrl
    /\ \A s, t \in Task : link[s] = link[t] /\ link[t] # NoConn => s = t
    /\ \A t \in Task : link[t] \in peers => url_by_peer[link[t]] = target[t]

LEMMA ResumesLinked ==
    ASSUME TypeOK, Linked, NEW t \in Task, NEW A, Resumes(t, A), UNCHANGED peers,
           UNCHANGED url_by_peer \/ url_by_peer' = [url_by_peer EXCEPT ![link[t]] = NoUrl]
    PROVE  Linked'
<1>1. /\ target \in [Task -> Url \cup {NoUrl}] /\ link \in [Task -> Conn \cup {NoConn}]
      /\ peers \subseteq Conn /\ url_by_peer \in [Conn -> Url \cup {NoUrl}] /\ NoConn \notin Conn
    BY LinkSettings DEF TypeOK
<1>2. /\ link'[t] = NoConn
      /\ \A s \in Task \ {t} : link'[s] = link[s] /\ target'[s] = target[s]
    BY <1>1 DEF Resumes
<1>3. \A s \in Task \ {t} : link[s] \in peers => link[s] # link[t]
    BY <1>1 DEF Linked
<1>4. \A s \in Task \ {t} : link[s] \in peers => url_by_peer'[link[s]] = url_by_peer[link[s]]
    BY <1>1, <1>3
<1> QED BY <1>1, <1>2, <1>4 DEF Linked

LEMMA SucceedsLinked ==
    ASSUME TypeOK, Linked, NEW t \in Task, NEW c \in Conn, NEW u \in StatedUrls, dial_succeeds(t, c, u)
    PROVE  Linked'
<1>1. /\ target \in [Task -> Url \cup {NoUrl}] /\ link \in [Task -> Conn \cup {NoConn}]
      /\ peers \subseteq Conn /\ url_by_peer \in [Conn -> Url \cup {NoUrl}]
      /\ NoConn \notin Conn /\ NoUrl \notin Url
    BY LinkSettings DEF TypeOK
<1>2. /\ c \notin peers /\ (\A s \in Task : link[s] # c) /\ target[t] \in Url
      /\ peers' = peers \cup {c} /\ url_by_peer' = [url_by_peer EXCEPT ![c] = target[t]]
      /\ link' = [link EXCEPT ![t] = c] /\ target' = target
    BY SucceedsDoes
<1>3. link'[t] = c /\ \A s \in Task \ {t} : link'[s] = link[s]
    BY <1>1, <1>2
<1>4. /\ url_by_peer'[c] = target[t]
      /\ \A s \in Task \ {t} : link[s] \in peers => url_by_peer'[link[s]] = url_by_peer[link[s]]
    BY <1>1, <1>2
<1> QED BY <1>1, <1>2, <1>3, <1>4 DEF Linked

\* The URL of a registered peer that a task waits for is never overwritten.
LEMMA NextLinked == TypeOK /\ Stated /\ Linked /\ [Next]_vars => Linked'
<1> SUFFICES ASSUME TypeOK, Stated, Linked, [Next]_vars PROVE Linked'
    OBVIOUS
<1>0. /\ target \in [Task -> Url \cup {NoUrl}] /\ link \in [Task -> Conn \cup {NoConn}]
      /\ peers \subseteq Conn /\ url_by_peer \in [Conn -> Url \cup {NoUrl}]
      /\ NoConn \notin Conn /\ NoUrl \notin Url
    BY LinkSettings DEF TypeOK
<1>1. ASSUME UNCHANGED <<target, link, peers, url_by_peer>> PROVE Linked'
    BY <1>1 DEF Linked
<1>2. ASSUME NEW t \in Task, Continues(t) \/ peer_not_authenticated(t) PROVE Linked'
    BY <1>2, ContinuesDoes, NotAuthenticatedDoes, ResumesLinked
<1>3. ASSUME NEW c \in Conn, NEW u \in StatedUrls, handle_connection(c, u) PROVE Linked'
    BY <1>0, <1>3 DEF handle_connection, fresh, Linked
<1>4. ASSUME NEW c \in Conn, on_hello(c) PROVE Linked'
    <2>1. c \in peers /\ UNCHANGED <<target, link, peers>>
        BY <1>4, HelloDoes
    <2>2. CASE UNCHANGED url_by_peer
        BY <1>1, <2>1, <2>2
    <2>3. CASE url_by_peer[c] = NoUrl /\ url_by_peer' = [url_by_peer EXCEPT ![c] = advertised[c]]
        <3>1. \A t \in Task : link[t] # c
            BY <1>0, <2>1, <2>3 DEF Linked
        <3>2. \A t \in Task : link[t] \in peers => url_by_peer'[link[t]] = url_by_peer[link[t]]
            BY <1>0, <2>3, <3>1
        <3> QED BY <2>1, <3>2 DEF Linked
    <2> QED BY <1>4, <2>2, <2>3, HelloDoes
<1>5. ASSUME NEW c \in Conn, on_peer_disconnected(c) PROVE Linked'
    <2>1. peers' = peers \ {c} /\ url_by_peer' = [url_by_peer EXCEPT ![c] = NoUrl]
          /\ UNCHANGED <<target, link>>
        BY <1>5, DisconnectedDoes
    <2>2. \A t \in Task : link[t] \in peers' => url_by_peer'[link[t]] = url_by_peer[link[t]]
        BY <1>0, <2>1
    <2> QED BY <2>1, <2>2 DEF Linked
<1>6. ASSUME NEW c \in Conn, connection_closes(c) PROVE Linked'
    BY <1>1, <1>6 DEF connection_closes
<1>7. CASE Tick
    BY <1>1, <1>7 DEF Tick
<1>8. ASSUME NEW u \in Url, mdns_found(u) PROVE Linked'
    BY <1>1, <1>8 DEF mdns_found
<1>9. CASE UNCHANGED vars
    BY <1>1, <1>9 DEF vars
<1>10. ASSUME NEW t \in Task, NEW c \in Conn, NEW u \in StatedUrls, dial_succeeds(t, c, u)
       PROVE  Linked'
    BY <1>10, SucceedsLinked
<1> QED BY <1>2, <1>3, <1>4, <1>5, <1>6, <1>7, <1>8, <1>9, <1>10, NextCases

\* A URL leaves _active_urls with the last step that could find its peer.
LEMMA NextNoStale == TypeOK /\ Stated /\ Linked /\ NoStaleUrl /\ [Next]_vars => NoStaleUrl'
<1> SUFFICES ASSUME TypeOK, Stated, Linked, NoStaleUrl, [Next]_vars PROVE NoStaleUrl'
    OBVIOUS
<1>0. /\ peers \subseteq Conn /\ url_by_peer \in [Conn -> Url \cup {NoUrl}] /\ NoUrl \notin Url
      /\ book.active \subseteq Url
    BY LinkSettings, BookFields DEF TypeOK
<1>1. ASSUME book'.active = book.active, UNCHANGED <<peers, url_by_peer>> PROVE NoStaleUrl'
    BY <1>1 DEF NoStaleUrl
<1>2. ASSUME NEW t \in Task, Continues(t) PROVE NoStaleUrl'
    BY <1>1, <1>2, ContinuesDoes DEF Resumes
<1>3. ASSUME NEW t \in Task, peer_not_authenticated(t) PROVE NoStaleUrl'
    <2>1. /\ book'.active = book.active \ {target[t]} /\ link[t] \in Conn /\ peers' = peers
          /\ url_by_peer' = [url_by_peer EXCEPT ![link[t]] = NoUrl]
        BY <1>3, NotAuthenticatedDoes DEF Resumes
    <2>2. ASSUME NEW u \in book'.active PROVE \E c \in peers' : url_by_peer'[c] = u
        <3>1. u \in book.active /\ u # target[t]
            BY <2>1
        <3>2. PICK c \in peers : url_by_peer[c] = u
            BY <3>1 DEF NoStaleUrl
        <3>3. c # link[t]
            BY <3>1, <3>2 DEF Linked
        <3> QED BY <1>0, <2>1, <3>2, <3>3
    <2> QED BY <2>2 DEF NoStaleUrl
<1>4. ASSUME NEW c \in Conn, NEW u \in StatedUrls, handle_connection(c, u) PROVE NoStaleUrl'
    BY <1>4 DEF handle_connection, NoStaleUrl
<1>5. ASSUME NEW c \in Conn, on_hello(c) PROVE NoStaleUrl'
    <2>1. CASE UNCHANGED <<url_by_peer, book>>
        BY <1>1, <1>5, <2>1, HelloDoes
    <2>2. CASE /\ c \in peers /\ peers' = peers /\ url_by_peer[c] = NoUrl
               /\ url_by_peer' = [url_by_peer EXCEPT ![c] = advertised[c]]
               /\ book'.active = book.active \cup {advertised[c]}
        <3>1. url_by_peer'[c] = advertised[c]
            BY <1>0, <2>2
        <3>2. \A d \in peers : url_by_peer[d] # NoUrl => url_by_peer'[d] = url_by_peer[d]
            BY <1>0, <2>2
        <3>3. \A u \in book.active : \E d \in peers : url_by_peer'[d] = u
            BY <1>0, <3>2 DEF NoStaleUrl
        <3> QED BY <2>2, <3>1, <3>3 DEF NoStaleUrl
    <2> QED BY <1>5, <2>1, <2>2, HelloDoes
<1>6. ASSUME NEW c \in Conn, on_peer_disconnected(c) PROVE NoStaleUrl'
    <2>1. /\ peers' = peers \ {c} /\ url_by_peer' = [url_by_peer EXCEPT ![c] = NoUrl]
          /\ book'.active = book.active \ {url_by_peer[c]}
        BY <1>6, DisconnectedDoes
    <2>2. ASSUME NEW u \in book'.active PROVE \E d \in peers' : url_by_peer'[d] = u
        <3>1. u \in book.active /\ u # url_by_peer[c]
            BY <2>1
        <3>2. PICK d \in peers : url_by_peer[d] = u
            BY <3>1 DEF NoStaleUrl
        <3> QED BY <1>0, <2>1, <3>1, <3>2
    <2> QED BY <2>2 DEF NoStaleUrl
<1>7. ASSUME NEW c \in Conn, connection_closes(c) PROVE NoStaleUrl'
    BY <1>1, <1>7 DEF connection_closes
<1>8. CASE Tick
    BY <1>1, <1>8, TickDoes
<1>9. ASSUME NEW u \in Url, mdns_found(u) PROVE NoStaleUrl'
    BY <1>1, <1>9 DEF mdns_found
<1>10. CASE UNCHANGED vars
    BY <1>1, <1>10 DEF vars
<1>11. ASSUME NEW t \in Task, NEW c \in Conn, NEW u \in StatedUrls, dial_succeeds(t, c, u)
       PROVE  NoStaleUrl'
    <2>1. /\ c \notin peers /\ peers' = peers \cup {c}
          /\ url_by_peer' = [url_by_peer EXCEPT ![c] = target[t]]
          /\ book'.active = book.active \cup {target[t]}
        BY <1>11, SucceedsDoes
    <2>2. url_by_peer'[c] = target[t] /\ \A d \in peers : url_by_peer'[d] = url_by_peer[d]
        BY <1>0, <2>1
    <2> QED BY <2>1, <2>2 DEF NoStaleUrl
<1> QED BY <1>2, <1>3, <1>4, <1>5, <1>6, <1>7, <1>8, <1>9, <1>10, <1>11, NextCases

\* No order of dials, HELLOs, failed waits and disconnects leaves a URL active
\* that no registered peer has; such a URL would never be dialled again.
THEOREM NoUrlGoesStale == Spec => []NoStaleUrl
<1>1. Init => Linked /\ NoStaleUrl
    BY LinkSettings DEF Init, Linked, NoStaleUrl
<1> QED BY <1>1, InitType, NextType, NextLinked, NextNoStale, PTL DEF Spec

=============================================================================
