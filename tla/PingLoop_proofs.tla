--------------------------- MODULE PingLoop_proofs ---------------------------
(* The ping loop closes a peer only for cause, and closes a silent one in    *)
(* time, for every number of peers, all timeouts and every way in which      *)
(* closes, sends and PONGs are delayed.                                      *)
EXTENDS PingLoop, FiniteSetTheorems, TLAPS

\* Ages are counted further than the interval between two PINGs.
LEMMA CapAboveInterval == AgeCap \in Nat /\ ping_interval \in Nat \ {0} /\ AgeCap > ping_interval
<1>1. Cardinality(Peer) \in Nat /\ Cardinality(Peer) # 0
    BY PingSettings, FS_CardinalityType, FS_EmptySet
<1>2. others \in Nat
    BY <1>1 DEF others
<1> DEFINE x == others * (2 * close_timeout + send_timeout)
           y == (others + 1) * close_timeout
<1>3. x \in Nat /\ y \in Nat
    <2>1. \A i, j \in Nat : i * j \in Nat
        OBVIOUS
    <2>2. 2 * close_timeout + send_timeout \in Nat /\ close_timeout \in Nat /\ others + 1 \in Nat
        BY <1>2, PingSettings
    <2> QED BY <1>2, <2>1, <2>2
<1> HIDE DEF x, y
<1>4. quiet_limit = pong_timeout + 2 * (x + send_timeout + ping_interval) + y
    BY DEF quiet_limit, open_pass_limit, x, y
<1>5. quiet_limit \in Nat /\ quiet_limit > ping_interval
    BY <1>3, <1>4, PingSettings
<1> QED BY <1>5, PingSettings

-----------------------------------------------------------------------------
(* The invariant *)

\* The types the argument needs; that a pass is bounded is not among them.
Types ==
    /\ peers \in SUBSET Peer /\ ponged \in SUBSET Peer
    /\ ping \in [Peer -> {"none", "waiting", "answered"}]
    /\ age \in [Peer -> 0 .. AgeCap]
    /\ pass \in [at : Awaited, to : SUBSET Peer, todo : SUBSET Peer, left : Nat]
    /\ since_now \in 0 .. AgeCap
    /\ quiet \in 0 .. AgeCap
    /\ unanswered \in {Never} \cup (0 .. AgeCap)

\* The watched peer is open and has not answered since last_ping_at.
Unheard == watched \in peers /\ ping[watched] = "waiting"

\* last_ping_at is not before the last PONG was read.
QuietSincePing == Unheard => age[watched] <= quiet

\* A peer the scan has still to visit, and that has sent no PONG in this
\* pass, has been quiet since the clock was read: last_ping_at may be set
\* to that time.
QuietInScan ==
    pass.at = "scan_close" /\ watched \in peers /\ watched \in pass.todo /\ watched \notin ponged
        => since_now <= quiet

\* What the scan will close has been pinged one interval ago.
PingedInScan ==
    pass.at = "scan_close" /\ Unheard /\ age[watched] - since_now > pong_timeout
        => unanswered >= ping_interval

\* The broadcast does not forget it.
PingedInBroadcast ==
    pass.at \in {"send", "send_close"} /\ Unheard => unanswered # Never \/ watched \in pass.todo

\* Once the loop sleeps, its PING is out for as long as the sleep has lasted.
PingedInSleep ==
    pass.at = "sleep" /\ Unheard => unanswered # Never /\ unanswered + pass.left >= ping_interval

Cause == /\ Types /\ QuietSincePing /\ QuietInScan
         /\ PingedInScan /\ PingedInBroadcast /\ PingedInSleep

-----------------------------------------------------------------------------
(* The steps *)

\* The next send of a broadcast that has still to serve S.
LEMMA SendNext ==
    ASSUME Types, NEW S \in SUBSET Peer, send_next(S)
    PROVE  /\ pass' \in [at : Awaited, to : SUBSET Peer, todo : SUBSET Peer, left : Nat]
           /\ unanswered' \in {Never} \cup (0 .. AgeCap)
           /\ unanswered # Never => unanswered' = unanswered
           /\ \/ pass'.at = "sleep" /\ pass'.left = ping_interval /\ S \cap peers = {}
                 /\ unanswered' = unanswered
              \/ pass'.at = "send" /\ (watched \in S \cap peers => unanswered' # Never \/ watched \in pass'.todo)
<1>1. AgeCap \in Nat /\ ping_interval \in Nat /\ send_timeout \in Nat /\ "sleep" \in Awaited /\ "send" \in Awaited
    BY PingSettings DEF Awaited
<1>2. CASE S \cap peers = {} /\ pass' = wait("sleep", {}, {}, ping_interval) /\ UNCHANGED <<pinged, unanswered>>
    <2>1. /\ pass' \in [at : Awaited, to : SUBSET Peer, todo : SUBSET Peer, left : Nat]
          /\ pass'.at = "sleep" /\ pass'.left = ping_interval
        <3>1. {} \in SUBSET Peer
            OBVIOUS
        <3> QED BY <1>1, <1>2, <3>1 DEF wait
    <2> QED BY <1>2, <2>1 DEF Types
<1>3. ASSUME NEW p \in S \cap peers, pass' = wait("send", {p}, S \ {p}, send_timeout),
             unanswered' = IF p = watched /\ unanswered = Never THEN 0 ELSE unanswered
      PROVE  /\ pass' \in [at : Awaited, to : SUBSET Peer, todo : SUBSET Peer, left : Nat]
             /\ unanswered' \in {Never} \cup (0 .. AgeCap)
             /\ unanswered # Never => unanswered' = unanswered
             /\ pass'.at = "send"
             /\ watched \in S \cap peers => unanswered' # Never \/ watched \in pass'.todo
    <2>1. /\ pass' \in [at : Awaited, to : SUBSET Peer, todo : SUBSET Peer, left : Nat]
          /\ pass'.at = "send" /\ pass'.todo = S \ {p}
        <3>1. {p} \in SUBSET Peer /\ S \ {p} \in SUBSET Peer
            OBVIOUS
        <3> QED BY <1>1, <1>3, <3>1 DEF wait
    <2>2. /\ unanswered' \in {Never} \cup (0 .. AgeCap)
          /\ unanswered # Never => unanswered' = unanswered
          /\ p = watched => unanswered' # Never
        BY <1>1, <1>3 DEF Types, Never
    <2> QED BY <2>1, <2>2
<1> QED BY <1>2, <1>3 DEF send_next

\* What the scan does to the peers it has seen.
LEMMA Refresh ==
    ASSUME Types, NEW S \in SUBSET Peer, NEW passed \in 0 .. AgeCap, NEW answered,
           refresh(S, passed, answered)
    PROVE  /\ ping' \in [Peer -> {"none", "waiting", "answered"}]
           /\ age' \in [Peer -> 0 .. AgeCap]
           /\ watched \in peers /\ ping'[watched] = "waiting" =>
                 \/ Unheard /\ age'[watched] = age[watched]
                 \/ age'[watched] = passed /\ watched \in S /\ watched \notin answered
<1>1. watched \in Peer /\ AgeCap \in Nat
    BY PingSettings
<1>2. ping' \in [Peer -> {"none", "waiting", "answered"}] /\ age' \in [Peer -> 0 .. AgeCap]
    BY <1>1 DEF refresh, Types
<1>3. CASE watched \in S /\ due(watched)
    <2>1. watched \in {q \in S : due(q)}
        BY <1>3
    <2>2. age'[watched] = passed /\ (ping'[watched] = "waiting" => watched \notin answered)
        BY <1>1, <2>1 DEF refresh
    <2> QED BY <1>2, <1>3, <2>2
<1>4. CASE ~ (watched \in S /\ due(watched))
    <2>1. ping'[watched] = ping[watched] /\ age'[watched] = age[watched]
        BY <1>1, <1>4 DEF refresh
    <2> QED BY <1>2, <2>1 DEF Unheard
<1> QED BY <1>2, <1>3, <1>4

\* A step of the scan keeps the invariant, and a peer it closes is closed for
\* cause.  passed and answered are since_now and ponged after the step.
LEMMA ScanCause ==
    ASSUME Cause, NEW todo \in SUBSET Peer, NEW passed \in 0 .. AgeCap, NEW answered \in SUBSET Peer,
           scan(todo, passed, answered), since_now' = passed, ponged' = answered,
           watched \in todo /\ watched \in peers /\ watched \notin answered => passed <= quiet,
           Unheard /\ age[watched] - passed > pong_timeout => unanswered >= ping_interval
    PROVE  /\ Cause'
           /\ watched \in peers \ peers' => quiet > pong_timeout /\ unanswered >= ping_interval
<1>1. /\ AgeCap \in Nat /\ ping_interval \in Nat \ {0} /\ AgeCap > ping_interval
      /\ pong_timeout \in Nat /\ close_timeout \in Nat /\ watched \in Peer
    BY CapAboveInterval, PingSettings
<1>2. Types /\ QuietSincePing
    BY DEF Cause
<1> DEFINE late == {p \in todo : timed_out(p, passed)}
<1>3. CASE late = {} /\ refresh(todo, passed, answered) /\ send_next(peers) /\ UNCHANGED <<peers, quiet>>
    <2>1. peers \in SUBSET Peer
        BY <1>2 DEF Types
    <2>2. /\ pass' \in [at : Awaited, to : SUBSET Peer, todo : SUBSET Peer, left : Nat]
          /\ unanswered' \in {Never} \cup (0 .. AgeCap)
          /\ \/ pass'.at = "sleep" /\ peers = {}
             \/ pass'.at = "send" /\ (watched \in peers => unanswered' # Never \/ watched \in pass'.todo)
        BY <1>2, <1>3, <2>1, SendNext
    <2>3. /\ ping' \in [Peer -> {"none", "waiting", "answered"}]
          /\ age' \in [Peer -> 0 .. AgeCap]
          /\ watched \in peers /\ ping'[watched] = "waiting" =>
                \/ Unheard /\ age'[watched] = age[watched]
                \/ age'[watched] = passed /\ watched \in todo /\ watched \notin answered
        BY <1>2, <1>3, Refresh
    <2>4. Types'
        BY <1>2, <1>3, <2>2, <2>3 DEF Types
    <2>5. QuietSincePing'
        BY <1>2, <1>3, <2>3 DEF QuietSincePing, Unheard
    <2>6. QuietInScan' /\ PingedInScan' /\ PingedInBroadcast' /\ PingedInSleep'
        BY <1>3, <2>2 DEF QuietInScan, PingedInScan, PingedInBroadcast, PingedInSleep, Unheard
    <2> QED BY <1>3, <2>4, <2>5, <2>6 DEF Cause
<1>4. ASSUME NEW p \in late, NEW seen \in SUBSET (todo \ late), refresh(seen, passed, answered),
             pass' = wait("scan_close", {}, todo \ (seen \cup {p}), close_timeout),
             peers' = peers \ {p}, UNCHANGED <<pinged, quiet, unanswered>>
      PROVE  /\ Cause'
             /\ watched \in peers \ peers' => quiet > pong_timeout /\ unanswered >= ping_interval
    <2> DEFINE left == todo \ (seen \cup {p})
    <2>1. /\ pass' \in [at : Awaited, to : SUBSET Peer, todo : SUBSET Peer, left : Nat]
          /\ pass'.at = "scan_close" /\ pass'.todo = left
        <3>1. {} \in SUBSET Peer /\ left \in SUBSET Peer /\ "scan_close" \in Awaited
            BY DEF Awaited
        <3> QED BY <1>1, <1>4, <3>1 DEF wait
    <2>2. seen \in SUBSET Peer /\ seen \subseteq todo
        OBVIOUS
    <2>3. /\ ping' \in [Peer -> {"none", "waiting", "answered"}]
          /\ age' \in [Peer -> 0 .. AgeCap]
          /\ watched \in peers /\ ping'[watched] = "waiting" =>
                \/ Unheard /\ age'[watched] = age[watched]
                \/ age'[watched] = passed /\ watched \in seen /\ watched \notin answered
        BY <1>2, <1>4, <2>2, Refresh
    <2>4. Types'
        BY <1>2, <1>4, <2>1, <2>3 DEF Types
    <2>5. QuietSincePing'
        BY <1>2, <1>4, <2>2, <2>3 DEF QuietSincePing, Unheard
    <2>6. QuietInScan'
        BY <1>4, <2>1 DEF QuietInScan
    <2>7. PingedInScan'
        <3> SUFFICES ASSUME watched \in peers, ping'[watched] = "waiting",
                            age'[watched] - passed > pong_timeout
                     PROVE  unanswered >= ping_interval
            BY <1>4 DEF PingedInScan, Unheard
        <3>1. age'[watched] # passed
            BY <1>1
        <3> QED BY <2>3, <3>1
    <2>8. PingedInBroadcast' /\ PingedInSleep'
        BY <2>1 DEF PingedInBroadcast, PingedInSleep
    <2>9. ASSUME watched \in peers \ peers' PROVE quiet > pong_timeout /\ unanswered >= ping_interval
        <3>1. p = watched /\ Unheard /\ age[watched] - passed > pong_timeout
            BY <1>4, <2>9 DEF timed_out, Unheard
        <3>2. age[watched] \in Nat /\ quiet \in Nat /\ age[watched] <= quiet
            BY <1>1, <1>2, <3>1 DEF Types, QuietSincePing
        <3> QED BY <1>1, <3>1, <3>2
    <2> QED BY <2>4, <2>5, <2>6, <2>7, <2>8, <2>9 DEF Cause
<1> QED BY <1>3, <1>4 DEF scan

\* The start of a pass and the return to it after a close.
LEMMA ScanSteps ==
    ASSUME Cause, begin_pass \/ scan_closed
    PROVE  /\ Cause'
           /\ watched \in peers \ peers' => quiet > pong_timeout /\ unanswered >= ping_interval
<1>1. /\ AgeCap \in Nat /\ ping_interval \in Nat \ {0} /\ Types /\ 0 \in 0 .. AgeCap
      /\ peers \in SUBSET Peer /\ since_now \in 0 .. AgeCap /\ ponged \in SUBSET Peer
      /\ pass.todo \in SUBSET Peer /\ quiet \in Nat
    BY CapAboveInterval DEF Cause, Types
<1>2. CASE begin_pass
    <2>1. Unheard => unanswered >= ping_interval
        <3>1. pass.at = "sleep" /\ pass.left = 0
            BY <1>2 DEF begin_pass
        <3> QED BY <1>1, <3>1 DEF Cause, PingedInSleep, Types, Never
    <2>2. scan(peers, 0, {}) /\ since_now' = 0 /\ ponged' = {}
        BY <1>2 DEF begin_pass
    <2>3. {} \in SUBSET Peer /\ 0 <= quiet
        BY <1>1
    <2> QED BY <1>1, <2>1, <2>2, <2>3, ScanCause
<1>3. CASE scan_closed
    <2>1. pass.at = "scan_close" /\ scan(pass.todo, since_now, ponged) /\ since_now' = since_now /\ ponged' = ponged
        BY <1>3 DEF scan_closed
    <2>2. watched \in pass.todo /\ watched \in peers /\ watched \notin ponged => since_now <= quiet
        BY <2>1 DEF Cause, QuietInScan
    <2>3. Unheard /\ age[watched] - since_now > pong_timeout => unanswered >= ping_interval
        BY <2>1 DEF Cause, PingedInScan
    <2> QED BY <1>1, <2>1, <2>2, <2>3, ScanCause
<1> QED BY <1>2, <1>3

\* The steps of the broadcast.
LEMMA BroadcastSteps ==
    ASSUME Cause, ping_sent \/ send_closed \/ ping_send_timeout
    PROVE  Cause'
<1>1. Types /\ QuietSincePing /\ pass.todo \in SUBSET Peer /\ ping_interval \in Nat /\ AgeCap \in Nat
    BY CapAboveInterval DEF Cause, Types
<1>2. Unheard => unanswered # Never \/ watched \in pass.todo
    BY DEF ping_sent, send_closed, ping_send_timeout, Cause, PingedInBroadcast
<1>3. CASE ping_sent \/ send_closed
    <2>1. send_next(pass.todo) /\ UNCHANGED <<peers, ping, age, since_now, ponged, quiet>>
        BY <1>3 DEF ping_sent, send_closed
    <2>2. Unheard' <=> Unheard
        BY <2>1 DEF Unheard
    <2>3. /\ pass' \in [at : Awaited, to : SUBSET Peer, todo : SUBSET Peer, left : Nat]
          /\ unanswered' \in {Never} \cup (0 .. AgeCap)
          /\ unanswered # Never => unanswered' = unanswered
          /\ \/ pass'.at = "sleep" /\ pass'.left = ping_interval /\ pass.todo \cap peers = {}
                /\ unanswered' = unanswered
             \/ /\ pass'.at = "send"
                /\ watched \in pass.todo \cap peers => unanswered' # Never \/ watched \in pass'.todo
        BY <1>1, <2>1, SendNext
    <2>4. Types'
        BY <1>1, <2>1, <2>3 DEF Types
    <2>5. QuietSincePing' /\ QuietInScan' /\ PingedInScan'
        BY <1>1, <2>1, <2>2, <2>3 DEF QuietSincePing, QuietInScan, PingedInScan
    <2>6. PingedInBroadcast'
        BY <1>2, <2>2, <2>3 DEF PingedInBroadcast, Unheard
    <2>7. PingedInSleep'
        <3> SUFFICES ASSUME pass'.at = "sleep", Unheard
                     PROVE  unanswered' # Never /\ unanswered' + pass'.left >= ping_interval
            BY <2>2 DEF PingedInSleep
        <3>1. unanswered' = unanswered /\ unanswered # Never /\ pass'.left = ping_interval
            BY <1>2, <2>3 DEF Unheard
        <3> QED BY <1>1, <2>3, <3>1 DEF Never
    <2> QED BY <2>4, <2>5, <2>6, <2>7 DEF Cause
<1>4. CASE ping_send_timeout
    <2>1. /\ pass' = wait("send_close", {}, pass.todo, close_timeout)
          /\ peers' = peers \ pass.to
          /\ UNCHANGED <<ping, age, pinged, since_now, ponged, quiet, unanswered>>
        BY <1>4 DEF ping_send_timeout
    <2>2. /\ pass' \in [at : Awaited, to : SUBSET Peer, todo : SUBSET Peer, left : Nat]
          /\ pass'.at = "send_close" /\ pass'.todo = pass.todo
        <3>1. {} \in SUBSET Peer /\ "send_close" \in Awaited /\ close_timeout \in Nat
            BY PingSettings DEF Awaited
        <3> QED BY <1>1, <2>1, <3>1 DEF wait
    <2>3. Types'
        BY <1>1, <2>1, <2>2 DEF Types
    <2>4. Unheard' => Unheard
        BY <2>1 DEF Unheard
    <2> QED BY <1>1, <1>2, <2>1, <2>2, <2>3, <2>4
            DEF Cause, QuietSincePing, QuietInScan, PingedInScan, PingedInBroadcast, PingedInSleep
<1> QED BY <1>3, <1>4

\* Connections, PONGs and the clock.
LEMMA OtherSteps ==
    ASSUME Cause, (\E p \in Peer : connect(p) \/ disconnect(p) \/ on_pong(p)) \/ Tick
    PROVE  Cause'
<1>1. /\ Types /\ AgeCap \in Nat /\ ping_interval \in Nat \ {0} /\ AgeCap > ping_interval
      /\ pong_timeout \in Nat /\ watched \in Peer
    BY CapAboveInterval, PingSettings DEF Cause
<1>2. ASSUME NEW p \in Peer, connect(p) PROVE Cause'
    <2>1. Types'
        BY <1>1, <1>2 DEF connect, Types, Never
    <2>2. CASE p = watched
        <3>1. ping'[watched] = "none" /\ watched \notin pass.todo /\ pass' = pass
            BY <1>1, <1>2, <2>2 DEF connect, Types
        <3> QED BY <2>1, <3>1 DEF Cause, QuietSincePing, QuietInScan, PingedInScan, PingedInBroadcast,
                                  PingedInSleep, Unheard
    <2>3. CASE p # watched
        <3>1. /\ ping'[watched] = ping[watched] /\ age'[watched] = age[watched]
              /\ (watched \in peers' <=> watched \in peers) /\ (watched \in ponged' <=> watched \in ponged)
              /\ UNCHANGED <<pass, since_now, quiet, unanswered>>
            BY <1>1, <1>2, <2>3 DEF connect, Types
        <3> QED BY <2>1, <3>1 DEF Cause, QuietSincePing, QuietInScan, PingedInScan, PingedInBroadcast,
                                  PingedInSleep, Unheard
    <2> QED BY <2>2, <2>3
<1>3. ASSUME NEW p \in Peer, disconnect(p) PROVE Cause'
    <2>1. Types'
        BY <1>1, <1>3 DEF disconnect, Types
    <2>2. (watched \in peers' => watched \in peers) /\ UNCHANGED <<ping, age, pass, since_now, ponged, quiet, unanswered>>
        BY <1>3 DEF disconnect
    <2> QED BY <2>1, <2>2 DEF Cause, QuietSincePing, QuietInScan, PingedInScan, PingedInBroadcast,
                              PingedInSleep, Unheard
<1>4. ASSUME NEW p \in Peer, on_pong(p) PROVE Cause'
    <2>1. Types'
        BY <1>1, <1>4 DEF on_pong, Types, Never
    <2>2. CASE p = watched
        <3>1. ping'[watched] # "waiting" /\ watched \in ponged'
            BY <1>1, <1>4, <2>2 DEF on_pong, Types
        <3> QED BY <2>1, <3>1 DEF Cause, QuietSincePing, QuietInScan, PingedInScan, PingedInBroadcast,
                                  PingedInSleep, Unheard
    <2>3. CASE p # watched
        <3>1. /\ ping'[watched] = ping[watched] /\ age'[watched] = age[watched]
              /\ peers' = peers /\ (watched \in ponged' <=> watched \in ponged)
              /\ UNCHANGED <<pass, since_now, quiet, unanswered>>
            BY <1>1, <1>4, <2>3 DEF on_pong, Types
        <3> QED BY <2>1, <3>1 DEF Cause, QuietSincePing, QuietInScan, PingedInScan, PingedInBroadcast,
                                  PingedInSleep, Unheard
    <2> QED BY <2>2, <2>3
<1>5. ASSUME Tick PROVE Cause'
    <2>1. /\ pass.left > 0 /\ pass' = [pass EXCEPT !.left = @ - 1]
          /\ since_now' = older(since_now)
          /\ UNCHANGED <<peers, ping, ponged>>
        BY <1>5 DEF Tick
    <2>2. /\ pass' \in [at : Awaited, to : SUBSET Peer, todo : SUBSET Peer, left : Nat]
          /\ pass'.at = pass.at /\ pass'.todo = pass.todo /\ pass'.left = pass.left - 1
          /\ pass.left \in Nat
        BY <1>1, <2>1 DEF Types
    <2>3. age' \in [Peer -> 0 .. AgeCap]
        BY <1>1, <1>5 DEF Tick, Types, older, Never
    <2>4. /\ since_now' \in 0 .. AgeCap /\ quiet' \in 0 .. AgeCap
          /\ unanswered' \in {Never} \cup (0 .. AgeCap)
        BY <1>1, <1>5 DEF Tick, Types, older, Never
    <2>5. Types'
        BY <1>1, <2>1, <2>2, <2>3, <2>4 DEF Types
    <2>6. watched \in peers => quiet' = older(quiet) /\ unanswered' = older(unanswered)
        BY <1>5 DEF Tick
    <2>7. Unheard => age'[watched] = older(age[watched])
        BY <1>1, <1>5 DEF Tick, Unheard
    <2>8. /\ age[watched] \in 0 .. AgeCap /\ quiet \in 0 .. AgeCap /\ since_now \in 0 .. AgeCap
          /\ unanswered \in {Never} \cup (0 .. AgeCap)
        BY <1>1 DEF Types
    <2>9. QuietSincePing'
        BY <1>1, <2>1, <2>6, <2>7, <2>8 DEF Cause, QuietSincePing, Unheard, older, Never
    <2>10. QuietInScan'
        BY <1>1, <2>1, <2>2, <2>6, <2>8 DEF Cause, QuietInScan, older, Never
    <2>11. PingedInScan'
        BY <1>1, <2>1, <2>2, <2>6, <2>7, <2>8 DEF Cause, PingedInScan, Unheard, older, Never
    <2>12. PingedInBroadcast'
        BY <1>1, <2>1, <2>2, <2>6, <2>8 DEF Cause, PingedInBroadcast, Unheard, older, Never
    <2>13. PingedInSleep'
        BY <1>1, <2>1, <2>2, <2>6, <2>8 DEF Cause, PingedInSleep, Unheard, older, Never
    <2> QED BY <2>5, <2>9, <2>10, <2>11, <2>12, <2>13 DEF Cause
<1> QED BY <1>2, <1>3, <1>4, <1>5

-----------------------------------------------------------------------------

\* The invariant is inductive.
LEMMA NextCause == Cause /\ [Next]_vars => Cause'
<1> SUFFICES ASSUME Cause, [Next]_vars PROVE Cause'
    OBVIOUS
<1>1. CASE UNCHANGED vars
    BY <1>1 DEF vars, Cause, Types, QuietSincePing, QuietInScan, PingedInScan, PingedInBroadcast,
                PingedInSleep, Unheard
<1>2. CASE Next
    BY <1>2, ScanSteps, BroadcastSteps, OtherSteps DEF Next
<1> QED BY <1>1, <1>2

\* Nobody is connected at first.
LEMMA InitCause == Init => Cause
<1> SUFFICES ASSUME Init PROVE Cause
    OBVIOUS
<1>1. AgeCap \in Nat /\ "sleep" \in Awaited /\ {} \in SUBSET Peer
    BY CapAboveInterval DEF Awaited
<1>2. pass \in [at : Awaited, to : SUBSET Peer, todo : SUBSET Peer, left : Nat]
    BY <1>1 DEF Init, wait
<1>3. Types
    BY <1>1, <1>2 DEF Init, Types
<1> QED BY <1>3 DEF Init, Cause, QuietSincePing, QuietInScan, PingedInScan, PingedInBroadcast,
                     PingedInSleep, Unheard

\* However long closes and sends suspend the loop, and whenever PONGs are
\* read, the scan closes a peer only after pong_timeout without a PONG and at
\* least one interval after a PING that was not answered.
THEOREM ClosesOnlyForCause == Spec => ClosedForCause
<1>1. Spec => []Cause
    BY InitCause, NextCause, PTL DEF Spec
<1>2. Cause /\ [Next]_vars =>
          [(watched \in peers \ peers' /\ (begin_pass \/ scan_closed))
               => quiet > pong_timeout /\ unanswered >= ping_interval]_vars
    BY ScanSteps
<1> QED BY <1>1, <1>2, PTL DEF Spec, ClosedForCause

-----------------------------------------------------------------------------
(* How long a pass takes *)

\* The time for as many waits of length x as S has members.
Cost(S, x) == Cardinality(S) * x

\* What a peer in a broadcast costs when its send times out.
lost_send == send_timeout + close_timeout

\* A broadcast to S and the sleep that follows, when the watched peer stays open.
Serve(S) ==
    Cost(S \ {watched}, lost_send) + (IF watched \in S THEN send_timeout ELSE 0) + ping_interval

\* The longest time that is left of a pass.
Rest(q) ==
    q.left + (IF q.at = "scan_close"
              THEN Cost(q.todo, close_timeout) + Cost(Peer, lost_send) + ping_interval
              ELSE IF q.at = "sleep" THEN 0
              ELSE (IF q.at = "send" THEN close_timeout ELSE 0)
                       + Cost(q.todo, lost_send) + ping_interval)

\* The same when the watched peer stays open.
OpenRest(q) ==
    q.left + (IF q.at = "scan_close" THEN Cost(q.todo \ {watched}, close_timeout) + Serve(Peer)
              ELSE IF q.at = "sleep" THEN 0
              ELSE (IF q.at = "send" /\ watched \notin q.to THEN close_timeout ELSE 0) + Serve(q.todo))

\* Costs are numbers, grow with the set, and fall by one wait with a member.
LEMMA Costs ==
    ASSUME NEW x \in Nat, NEW S \in SUBSET Peer
    PROVE  /\ Cost(S, x) \in Nat
           /\ \A T \in SUBSET S : Cost(T, x) \in Nat /\ Cost(T, x) <= Cost(S, x)
           /\ \A p \in S : Cost(S, x) = Cost(S \ {p}, x) + x
<1>1. IsFiniteSet(S) /\ Cardinality(S) \in Nat
    BY PingSettings, FS_Subset, FS_CardinalityType
<1>2. \A k, m \in Nat : k * x \in Nat /\ (k <= m => k * x <= m * x)
    <2>1. ASSUME NEW k \in Nat, NEW m \in Nat, k <= m PROVE k * x <= m * x
        <3>1. PICK d \in Nat : m = k + d
            <4>1. m - k \in Nat /\ m = k + (m - k)
                BY <2>1
            <4> QED BY <4>1
        <3>2. m * x = k * x + d * x
            BY <3>1
        <3>3. k * x \in Nat /\ d * x \in Nat
            OBVIOUS
        <3> QED BY <3>2, <3>3
    <2>2. \A k \in Nat : k * x \in Nat
        OBVIOUS
    <2> QED BY <2>1, <2>2
<1>3. ASSUME NEW T \in SUBSET S PROVE Cost(T, x) \in Nat /\ Cost(T, x) <= Cost(S, x)
    <2>1. Cardinality(T) \in Nat /\ Cardinality(T) <= Cardinality(S)
        BY <1>1, FS_Subset, FS_CardinalityType
    <2> QED BY <1>1, <1>2, <2>1 DEF Cost
<1>4. ASSUME NEW p \in S PROVE Cost(S, x) = Cost(S \ {p}, x) + x
    <2> DEFINE k == Cardinality(S \ {p})
    <2>1. k = Cardinality(S) - 1 /\ k \in Nat
        <3>1. IsFiniteSet(S \ {p}) /\ Cardinality(S \ {p}) = Cardinality(S) - 1
            BY <1>1, FS_RemoveElement
        <3> QED BY <3>1, FS_CardinalityType
    <2> HIDE DEF k
    <2>2. Cardinality(S) = k + 1
        BY <1>1, <2>1
    <2>3. (k + 1) * x = k * x + x
        BY <2>1
    <2> QED BY <2>2, <2>3 DEF Cost, k
<1> QED BY <1>1, <1>2, <1>3, <1>4 DEF Cost

\* The limits, as sums of such costs.
LEMMA Limits ==
    /\ ping_interval \in Nat \ {0} /\ pong_timeout \in Nat /\ close_timeout \in Nat
    /\ send_timeout \in Nat /\ lost_send \in Nat /\ lost_send = send_timeout + close_timeout
    /\ Cost(Peer \ {watched}, close_timeout) \in Nat /\ Cost(Peer \ {watched}, lost_send) \in Nat
    /\ Serve(Peer) = Cost(Peer \ {watched}, lost_send) + send_timeout + ping_interval
    /\ Cost(Peer, close_timeout) = Cost(Peer \ {watched}, close_timeout) + close_timeout
    /\ Cost(Peer, lost_send) = Cost(Peer \ {watched}, lost_send) + lost_send
    /\ open_pass_limit = Cost(Peer \ {watched}, close_timeout) + Serve(Peer)
    /\ pass_limit = Cost(Peer, close_timeout) + Cost(Peer, lost_send) + ping_interval
    /\ quiet_limit = pong_timeout + 2 * open_pass_limit + Cost(Peer \ {watched}, close_timeout) + close_timeout
<1>1. /\ ping_interval \in Nat \ {0} /\ pong_timeout \in Nat /\ close_timeout \in Nat
      /\ send_timeout \in Nat /\ watched \in Peer /\ IsFiniteSet(Peer)
    BY PingSettings
<1>2. lost_send \in Nat /\ lost_send = send_timeout + close_timeout
    BY <1>1 DEF lost_send
<1>3. Peer \in SUBSET Peer /\ Peer \ {watched} \in SUBSET Peer
    OBVIOUS
<1>4. /\ Cost(Peer, close_timeout) = Cost(Peer \ {watched}, close_timeout) + close_timeout
      /\ Cost(Peer, lost_send) = Cost(Peer \ {watched}, lost_send) + lost_send
    BY <1>1, <1>2, <1>3, Costs
<1>5. Cost(Peer \ {watched}, close_timeout) \in Nat /\ Cost(Peer \ {watched}, lost_send) \in Nat
    BY <1>1, <1>2, <1>3, Costs
<1>6. Serve(Peer) = Cost(Peer \ {watched}, lost_send) + send_timeout + ping_interval
    BY <1>1 DEF Serve
<1>7. others = Cardinality(Peer \ {watched}) /\ others \in Nat
    <2>1. IsFiniteSet(Peer \ {watched}) /\ Cardinality(Peer \ {watched}) = Cardinality(Peer) - 1
        BY <1>1, FS_RemoveElement
    <2> QED BY <2>1, FS_CardinalityType DEF others
<1>8. open_pass_limit = Cost(Peer \ {watched}, close_timeout) + Serve(Peer)
    <2> DEFINE k == others
    <2> HIDE DEF k
    <2>1. k \in Nat
        BY <1>7 DEF k
    <2>2. k * (2 * close_timeout + send_timeout) = k * close_timeout + k * (send_timeout + close_timeout)
        BY <1>1, <2>1
    <2>3. Cost(Peer \ {watched}, close_timeout) = k * close_timeout
        BY <1>7 DEF Cost, k
    <2>4. Cost(Peer \ {watched}, lost_send) = k * (send_timeout + close_timeout)
        BY <1>2, <1>7 DEF Cost, k
    <2>5. open_pass_limit = k * (2 * close_timeout + send_timeout) + send_timeout + ping_interval
        BY DEF open_pass_limit, k
    <2> QED BY <1>1, <1>5, <1>6, <2>2, <2>3, <2>4, <2>5
<1>9. pass_limit = Cost(Peer, close_timeout) + Cost(Peer, lost_send) + ping_interval
    BY <1>1, <1>2, <1>4, <1>5, <1>6, <1>8 DEF pass_limit
<1>10. (others + 1) * close_timeout = Cost(Peer \ {watched}, close_timeout) + close_timeout
    <2> DEFINE k == others
    <2> HIDE DEF k
    <2>1. k \in Nat
        BY <1>7 DEF k
    <2>2. (k + 1) * close_timeout = k * close_timeout + close_timeout
        BY <1>1, <2>1
    <2> QED BY <1>7, <2>2 DEF Cost, k
<1>11. quiet_limit = pong_timeout + 2 * open_pass_limit + Cost(Peer \ {watched}, close_timeout) + close_timeout
    <2>1. open_pass_limit \in Nat
        BY <1>1, <1>5, <1>6, <1>8
    <2> QED BY <1>1, <1>5, <1>10, <2>1 DEF quiet_limit
<1> QED BY <1>1, <1>2, <1>4, <1>5, <1>6, <1>8, <1>9, <1>11

LEMMA ServeBounds ==
    ASSUME NEW S \in SUBSET Peer
    PROVE  Serve(S) \in Nat /\ Serve(S) >= ping_interval /\ Serve(S) <= Serve(Peer)
<1> DEFINE k == Cost(S \ {watched}, lost_send)
           m == Cost(Peer \ {watched}, lost_send)
<1>1. S \ {watched} \in SUBSET (Peer \ {watched}) /\ Peer \ {watched} \in SUBSET Peer
    OBVIOUS
<1>2. ping_interval \in Nat /\ send_timeout \in Nat /\ lost_send \in Nat
    BY Limits
<1>3. k \in Nat /\ m \in Nat /\ k <= m
    BY <1>1, <1>2, Costs
<1>4. /\ Serve(S) = k + (IF watched \in S THEN send_timeout ELSE 0) + ping_interval
      /\ Serve(Peer) = m + send_timeout + ping_interval
    BY Limits DEF Serve
<1> HIDE DEF k, m
<1> QED BY <1>2, <1>3, <1>4

\* What is left of a pass that goes on with a broadcast to S.
LEMMA SendRest ==
    ASSUME Types, NEW S \in SUBSET Peer, send_next(S)
    PROVE  /\ Rest(pass') \in Nat /\ Rest(pass') <= Cost(S, lost_send) + ping_interval
           /\ OpenRest(pass') \in Nat /\ OpenRest(pass') <= Serve(S)
           /\ pass'.at # "scan_close"
           /\ pass'.left \in Nat /\ pass'.left <= ping_interval + close_timeout + send_timeout
<1>1. /\ ping_interval \in Nat /\ send_timeout \in Nat /\ close_timeout \in Nat
      /\ lost_send \in Nat /\ lost_send = send_timeout + close_timeout
    BY Limits
<1>2. Serve(S) \in Nat /\ Serve(S) >= ping_interval /\ Cost(S, lost_send) \in Nat
    BY <1>1, ServeBounds, Costs
<1>3. CASE pass' = wait("sleep", {}, {}, ping_interval)
    <2>1. pass'.at = "sleep" /\ pass'.left = ping_interval
        BY <1>3 DEF wait
    <2>2. Rest(pass') = ping_interval /\ OpenRest(pass') = ping_interval
        BY <1>1, <2>1 DEF Rest, OpenRest
    <2> QED BY <1>1, <1>2, <2>1, <2>2
<1>4. ASSUME NEW p \in S \cap peers, pass' = wait("send", {p}, S \ {p}, send_timeout)
      PROVE  /\ Rest(pass') \in Nat /\ Rest(pass') <= Cost(S, lost_send) + ping_interval
             /\ OpenRest(pass') \in Nat /\ OpenRest(pass') <= Serve(S)
             /\ pass'.at # "scan_close"
             /\ pass'.left \in Nat /\ pass'.left <= ping_interval + close_timeout + send_timeout
    <2>1. pass'.at = "send" /\ pass'.to = {p} /\ pass'.todo = S \ {p} /\ pass'.left = send_timeout
        BY <1>4 DEF wait
    <2>2. Cost(S, lost_send) = Cost(S \ {p}, lost_send) + lost_send /\ Cost(S \ {p}, lost_send) \in Nat
        BY <1>1, Costs
    <2>3. Rest(pass') = send_timeout + (close_timeout + Cost(S \ {p}, lost_send) + ping_interval)
        BY <2>1 DEF Rest
    <2>4. Serve(S \ {p}) \in Nat
        BY ServeBounds
    <2>5. OpenRest(pass') = send_timeout + ((IF watched = p THEN 0 ELSE close_timeout) + Serve(S \ {p}))
        BY <2>1 DEF OpenRest
    <2>6. OpenRest(pass') \in Nat /\ OpenRest(pass') <= Serve(S)
        <3>1. CASE p = watched
            <4>1. Serve(S \ {p}) = Cost(S \ {watched}, lost_send) + 0 + ping_interval
                <5>1. (S \ {p}) \ {watched} = S \ {watched} /\ watched \notin S \ {p}
                    BY <3>1
                <5> QED BY <5>1 DEF Serve
            <4>2. Serve(S) = Cost(S \ {watched}, lost_send) + send_timeout + ping_interval
                BY <3>1 DEF Serve
            <4>3. Cost(S \ {watched}, lost_send) \in Nat
                BY <2>2, <3>1
            <4> QED BY <1>1, <2>5, <3>1, <4>1, <4>2, <4>3
        <3>2. CASE p # watched
            <4> DEFINE T == S \ {watched}
                       k == Cost(T \ {p}, lost_send)
                       e == IF watched \in S THEN send_timeout ELSE 0
            <4>1. T \in SUBSET Peer /\ p \in T /\ T \ {p} \in SUBSET T
                BY <3>2
            <4>2. Cost(T, lost_send) = k + lost_send /\ k \in Nat
                BY <1>1, <4>1, Costs
            <4>3. Serve(S \ {p}) = k + e + ping_interval
                <5>1. (S \ {p}) \ {watched} = T \ {p} /\ (watched \in S \ {p} <=> watched \in S)
                    BY <3>2
                <5> QED BY <5>1 DEF Serve
            <4>4. Serve(S) = Cost(T, lost_send) + e + ping_interval /\ e \in Nat
                BY <1>1 DEF Serve
            <4> HIDE DEF T, k, e
            <4>5. OpenRest(pass') = send_timeout + (close_timeout + Serve(S \ {p}))
                BY <2>5, <3>2
            <4> QED BY <1>1, <4>2, <4>3, <4>4, <4>5
        <3> QED BY <3>1, <3>2
    <2> QED BY <1>1, <2>1, <2>2, <2>3, <2>6
<1> QED BY <1>3, <1>4 DEF send_next

\* What is left of a pass is a time.
LEMMA RestType ==
    ASSUME Types
    PROVE  Rest(pass) \in Nat /\ OpenRest(pass) \in Nat
<1>1. pass.todo \in SUBSET Peer /\ pass.left \in Nat /\ Peer \in SUBSET Peer
    BY DEF Types
<1> DEFINE S == pass.todo
           l == pass.left
<1>2. /\ ping_interval \in Nat /\ close_timeout \in Nat /\ lost_send \in Nat
    BY Limits
<1>3. /\ Cost(S, close_timeout) \in Nat /\ Cost(Peer, lost_send) \in Nat
      /\ Cost(S, lost_send) \in Nat /\ Cost(S \ {watched}, close_timeout) \in Nat
      /\ Serve(S) \in Nat /\ Serve(Peer) \in Nat
    BY <1>1, <1>2, Costs, ServeBounds
<1> QED BY <1>1, <1>2, <1>3 DEF Rest, OpenRest

-----------------------------------------------------------------------------
(* The bounds *)

\* The scan has still to visit the watched peer.
ToVisit == pass.at = "scan_close" /\ watched \in pass.todo

\* The watched peer is open, and the next scan sets last_ping_at.
Heard == watched \in peers /\ ping[watched] # "waiting"

\* A pass keeps within its limit, the time that is left included.
PassBounded ==
    /\ pinged \subseteq Peer
    /\ pass.left <= ping_interval + close_timeout + send_timeout
    /\ since_now + Rest(pass) <= pass_limit

\* So does one during which the watched peer stays open, from now on; only a
\* close that is under way when it connects comes on top.
RestBounded == OpenRest(pass) <= open_pass_limit + close_timeout

\* The scan reaches the watched peer after the closes of others.
ScanBounded ==
    watched \in peers /\ ToVisit =>
        since_now + pass.left + Cost(pass.todo \ {watched}, close_timeout)
            <= Cost(Peer \ {watched}, close_timeout)

\* After a PONG, and at first, one pass goes by until last_ping_at is set.
HeardBounded ==
    /\ Heard /\ ~ ToVisit => quiet + OpenRest(pass) <= open_pass_limit + close_timeout
    /\ Heard /\ ToVisit => /\ quiet <= since_now + open_pass_limit + close_timeout
                           /\ watched \in ponged => quiet <= since_now

\* From then on, the age of last_ping_at tells how long it has been quiet; a
\* scan that does not close the peer has seen it younger than pong_timeout.
UnheardBounded ==
    /\ Unheard => quiet <= age[watched] + open_pass_limit + close_timeout
    /\ Unheard /\ ~ ToVisit => age[watched] + OpenRest(pass) <= pong_timeout + open_pass_limit
    /\ Unheard /\ ToVisit => age[watched] <= since_now + pong_timeout + open_pass_limit

Bounded == Types /\ PassBounded /\ RestBounded /\ ScanBounded /\ HeardBounded /\ UnheardBounded

\* What the scan does to the watched peer.
LEMMA RefreshWatched ==
    ASSUME Types, NEW S \in SUBSET Peer, NEW passed \in 0 .. AgeCap, NEW answered,
           refresh(S, passed, answered), watched \in peers
    PROVE  /\ Heard /\ watched \in S =>
                 /\ age'[watched] = passed
                 /\ ping'[watched] = IF watched \in answered THEN "answered" ELSE "waiting"
           /\ ~ (Heard /\ watched \in S) => ping'[watched] = ping[watched] /\ age'[watched] = age[watched]
<1>1. watched \in Peer
    BY PingSettings
<1>2. Heard <=> due(watched)
    BY DEF Heard, due
<1>3. CASE Heard /\ watched \in S
    <2>1. watched \in {q \in S : due(q)}
        BY <1>2, <1>3
    <2> QED BY <1>1, <1>3, <2>1 DEF refresh
<1>4. CASE ~ (Heard /\ watched \in S)
    <2>1. watched \notin {q \in S : due(q)}
        BY <1>2, <1>4
    <2> QED BY <1>1, <1>4, <2>1 DEF refresh
<1> QED BY <1>3, <1>4

\* A peer the scan has visited and left open: seen is what it has visited, and r
\* the time that is left of the pass.
LEMMA Visited ==
    ASSUME Types, NEW seen \in SUBSET Peer, NEW passed \in 0 .. AgeCap, NEW answered,
           refresh(seen, passed, answered), watched \in seen, watched \in peers,
           ~ timed_out(watched, passed), NEW r \in Nat, passed + r <= open_pass_limit,
           Heard => quiet <= passed + open_pass_limit + close_timeout,
           Heard /\ watched \in answered => quiet <= passed,
           Unheard => quiet <= age[watched] + open_pass_limit + close_timeout
    PROVE  /\ ping'[watched] # "waiting" => quiet + r <= open_pass_limit + close_timeout
           /\ ping'[watched] = "waiting" =>
                 /\ quiet <= age'[watched] + open_pass_limit + close_timeout
                 /\ age'[watched] + r <= pong_timeout + open_pass_limit
<1>1. /\ open_pass_limit \in Nat /\ close_timeout \in Nat /\ pong_timeout \in Nat
      /\ AgeCap \in Nat /\ passed \in Nat
    <2>1. AgeCap \in Nat /\ passed \in Nat
        BY PingSettings
    <2>2. open_pass_limit \in Nat
        BY Limits, ServeBounds
    <2> QED BY <2>1, <2>2, Limits
<1>2. watched \in Peer /\ age[watched] \in Nat /\ quiet \in Nat
    BY <1>1, PingSettings DEF Types
<1>3. CASE Heard
    <2>1. /\ age'[watched] = passed
          /\ ping'[watched] = IF watched \in answered THEN "answered" ELSE "waiting"
        BY <1>3, RefreshWatched
    <2>2. CASE watched \in answered
        BY <1>1, <1>2, <1>3, <2>1, <2>2
    <2>3. CASE watched \notin answered
        BY <1>1, <1>2, <1>3, <2>1, <2>3
    <2> QED BY <2>2, <2>3
<1>4. CASE ~ Heard
    <2>1. Unheard
        BY <1>4 DEF Heard, Unheard
    <2>2. ping'[watched] = "waiting" /\ age'[watched] = age[watched]
        BY <1>4, <2>1, RefreshWatched DEF Unheard
    <2>3. ~ (age[watched] - passed > pong_timeout)
        BY <2>1 DEF timed_out, Unheard
    <2> QED BY <1>1, <1>2, <2>1, <2>2, <2>3
<1> QED BY <1>3, <1>4

LEMMA ScanBounds ==
    ASSUME Types, Types', NEW todo \in SUBSET Peer, NEW passed \in 0 .. AgeCap, NEW answered,
           scan(todo, passed, answered), since_now' = passed, ponged' = answered, pinged \subseteq Peer,
           passed + Cost(todo, close_timeout) <= Cost(Peer, close_timeout),
           watched \in peers /\ watched \in todo =>
               passed + Cost(todo \ {watched}, close_timeout) <= Cost(Peer \ {watched}, close_timeout),
           Heard /\ watched \notin todo =>
               quiet + Cost(todo \ {watched}, close_timeout) + Serve(Peer) <= open_pass_limit + close_timeout,
           Heard /\ watched \in todo => quiet <= passed + open_pass_limit + close_timeout,
           Heard /\ watched \in todo /\ watched \in answered => quiet <= passed,
           Unheard => quiet <= age[watched] + open_pass_limit + close_timeout,
           Unheard /\ watched \notin todo =>
               age[watched] + Cost(todo \ {watched}, close_timeout) + Serve(Peer)
                   <= pong_timeout + open_pass_limit,
           Unheard /\ watched \in todo => age[watched] <= passed + pong_timeout + open_pass_limit
    PROVE  Bounded'
<1> DEFINE late == {p \in todo : timed_out(p, passed)}
           O == open_pass_limit
           C == Cost(Peer \ {watched}, close_timeout)
           T == Cost(todo \ {watched}, close_timeout)
           V == Serve(Peer)
<1>1. /\ O \in Nat /\ O = C + V /\ C \in Nat /\ V \in Nat /\ T \in Nat
      /\ close_timeout \in Nat /\ pong_timeout \in Nat /\ send_timeout \in Nat
      /\ ping_interval \in Nat /\ lost_send \in Nat
      /\ AgeCap \in Nat /\ passed \in Nat /\ Peer \in SUBSET Peer /\ watched \in Peer
    <2>1. V \in Nat /\ O = C + V /\ C \in Nat /\ close_timeout \in Nat /\ pong_timeout \in Nat
             /\ send_timeout \in Nat /\ ping_interval \in Nat /\ lost_send \in Nat
        BY Limits, ServeBounds
    <2>2. T \in Nat
        BY <2>1, Costs
    <2> QED BY <2>1, <2>2, PingSettings
<1>2. /\ Cost(Peer, close_timeout) \in Nat /\ Cost(Peer, lost_send) \in Nat
      /\ Cost(todo, close_timeout) \in Nat
      /\ pass_limit = Cost(Peer, close_timeout) + Cost(Peer, lost_send) + ping_interval
    BY <1>1, Limits, Costs
<1>3. age[watched] \in Nat /\ quiet \in Nat /\ peers \in SUBSET Peer
    BY <1>1 DEF Types
<1>4. CASE late = {} /\ refresh(todo, passed, answered) /\ send_next(peers) /\ UNCHANGED <<peers, quiet>>
    <2> DEFINE r == OpenRest(pass')
    <2>1. /\ Rest(pass') \in Nat /\ Rest(pass') <= Cost(peers, lost_send) + ping_interval
          /\ r \in Nat /\ r <= Serve(peers) /\ pass'.at # "scan_close"
          /\ pass'.left \in Nat /\ pass'.left <= ping_interval + close_timeout + send_timeout
        BY <1>3, <1>4, SendRest
    <2>2. /\ Cost(peers, lost_send) \in Nat /\ Cost(peers, lost_send) <= Cost(Peer, lost_send)
          /\ Serve(peers) \in Nat /\ Serve(peers) <= V
        BY <1>1, <1>3, Costs, ServeBounds
    <2> HIDE DEF r
    <2>3. r <= V
        BY <1>1, <2>1, <2>2
    <2>4. PassBounded'
        <3>1. passed + Rest(pass') <= pass_limit
            BY <1>1, <1>2, <2>1, <2>2
        <3>2. pinged' \subseteq Peer
            BY <1>3, <1>4 DEF send_next
        <3> QED BY <2>1, <3>1, <3>2 DEF PassBounded
    <2>5. RestBounded'
        BY <1>1, <2>1, <2>3 DEF RestBounded, r
    <2>6. ScanBounded' /\ ~ ToVisit'
        BY <2>1 DEF ScanBounded, ToVisit
    <2>7. ASSUME watched \in peers
          PROVE  /\ ping'[watched] # "waiting" => quiet + r <= O + close_timeout
                 /\ ping'[watched] = "waiting" =>
                       quiet <= age'[watched] + O + close_timeout /\ age'[watched] + r <= pong_timeout + O
        <3>1. CASE watched \in todo
            <4>1. ~ timed_out(watched, passed)
                BY <1>4, <3>1
            <4>2. passed + r <= O
                BY <1>1, <2>1, <2>3, <2>7, <3>1
            <4> QED BY <1>4, <2>1, <2>7, <3>1, <4>1, <4>2, Visited
        <3>2. CASE watched \notin todo
            <4>1. ping'[watched] = ping[watched] /\ age'[watched] = age[watched]
                BY <1>4, <2>7, <3>2, RefreshWatched
            <4>2. CASE Heard
                BY <1>1, <1>3, <2>1, <2>3, <3>2, <4>1, <4>2 DEF Heard
            <4>3. CASE Unheard
                BY <1>1, <1>3, <2>1, <2>3, <3>2, <4>1, <4>3 DEF Unheard
            <4> QED BY <2>7, <4>2, <4>3 DEF Heard, Unheard
        <3> QED BY <3>1, <3>2
    <2>8. HeardBounded' /\ UnheardBounded'
        BY <1>4, <2>6, <2>7 DEF HeardBounded, UnheardBounded, Heard, Unheard, r
    <2> QED BY <2>4, <2>5, <2>6, <2>8 DEF Bounded
<1>5. ASSUME NEW p \in late, NEW seen \in SUBSET (todo \ late), refresh(seen, passed, answered),
             pass' = wait("scan_close", {}, todo \ (seen \cup {p}), close_timeout),
             peers' = peers \ {p}, UNCHANGED <<pinged, quiet, unanswered>>
      PROVE  Bounded'
    <2> DEFINE rest == todo \ (seen \cup {p})
               T1 == Cost(rest \ {watched}, close_timeout)
               r == OpenRest(pass')
    <2>1. pass'.at = "scan_close" /\ pass'.todo = rest /\ pass'.left = close_timeout
        BY <1>5 DEF wait
    <2>2. Cost(rest, close_timeout) \in Nat
              /\ Cost(rest, close_timeout) + close_timeout <= Cost(todo, close_timeout)
        <3>1. rest \in SUBSET (todo \ {p}) /\ todo \ {p} \in SUBSET Peer /\ p \in todo
            OBVIOUS
        <3>2. /\ Cost(rest, close_timeout) \in Nat
              /\ Cost(rest, close_timeout) <= Cost(todo \ {p}, close_timeout)
              /\ Cost(todo \ {p}, close_timeout) \in Nat
            BY <1>1, <3>1, Costs
        <3>3. Cost(todo, close_timeout) = Cost(todo \ {p}, close_timeout) + close_timeout
            BY <1>1, <3>1, Costs
        <3> HIDE DEF rest
        <3> QED BY <1>1, <3>2, <3>3
    <2>3. T1 \in Nat /\ T1 <= C
        <3>1. rest \ {watched} \in SUBSET (Peer \ {watched}) /\ Peer \ {watched} \in SUBSET Peer
            OBVIOUS
        <3> QED BY <1>1, <3>1, Costs
    <2>4. p # watched => T1 + close_timeout <= T
        <3> SUFFICES ASSUME p # watched PROVE T1 + close_timeout <= T
            OBVIOUS
        <3> DEFINE S == todo \ {watched}
        <3>1. /\ rest \ {watched} \in SUBSET (S \ {p}) /\ S \ {p} \in SUBSET Peer /\ p \in S
              /\ S \in SUBSET Peer
            OBVIOUS
        <3>2. T1 <= Cost(S \ {p}, close_timeout) /\ Cost(S \ {p}, close_timeout) \in Nat
            BY <1>1, <3>1, Costs
        <3>3. T = Cost(S \ {p}, close_timeout) + close_timeout
            BY <1>1, <3>1, Costs
        <3> HIDE DEF T1, T
        <3> QED BY <1>1, <2>3, <3>2, <3>3
    <2>5. r = close_timeout + (T1 + V)
        BY <2>1 DEF OpenRest
    <2>6. Rest(pass') = close_timeout + (Cost(rest, close_timeout) + Cost(Peer, lost_send) + ping_interval)
        BY <2>1 DEF Rest
    <2> HIDE DEF r, T1, rest, T, C, V, O
    <2>7. PassBounded'
        <3>1. passed + Rest(pass') <= pass_limit
            BY <1>1, <1>2, <2>2, <2>6
        <3>2. close_timeout <= ping_interval + close_timeout + send_timeout
            BY <1>1
        <3> QED BY <1>5, <2>1, <3>1, <3>2 DEF PassBounded
    <2>8. r \in Nat /\ r <= O + close_timeout
        BY <1>1, <2>3, <2>5
    <2>9. RestBounded'
        BY <2>8 DEF RestBounded, r, O
    <2>10. CASE p = watched
        BY <1>5, <2>7, <2>9, <2>10 DEF Bounded, ScanBounded, HeardBounded, UnheardBounded, Heard, Unheard
    <2>11. CASE p # watched
        <3>1. (watched \in peers' <=> watched \in peers) /\ r <= T + V
            BY <1>1, <1>5, <2>3, <2>4, <2>5, <2>11
        <3>2. ToVisit' <=> watched \in rest
            BY <2>1 DEF ToVisit
        <3>3. watched \in rest <=> watched \in todo /\ watched \notin seen
            BY <2>11 DEF rest
        <3>4. seen \in SUBSET Peer
            OBVIOUS
        <3>5. CASE watched \notin peers
            BY <2>7, <2>9, <3>1, <3>5 DEF Bounded, ScanBounded, HeardBounded, UnheardBounded, Heard, Unheard
        <3>6. CASE watched \in peers /\ watched \in seen
            <4>1. watched \in todo /\ ~ timed_out(watched, passed)
                BY <3>6
            <4>2. passed + T <= C
                BY <3>6, <4>1 DEF T, C
            <4>3. passed + r <= O
                BY <1>1, <2>8, <3>1, <4>2
            <4>4. /\ ping'[watched] # "waiting" => quiet + r <= O + close_timeout
                  /\ ping'[watched] = "waiting" =>
                        quiet <= age'[watched] + O + close_timeout /\ age'[watched] + r <= pong_timeout + O
                BY <1>5, <2>8, <3>4, <3>6, <4>1, <4>3, Visited DEF O
            <4> QED BY <1>5, <2>7, <2>9, <3>2, <3>3, <3>6, <4>4
                    DEF Bounded, ScanBounded, HeardBounded, UnheardBounded, Heard, Unheard, r, O
        <3>7. CASE watched \in peers /\ watched \notin seen
            <4>1. ping'[watched] = ping[watched] /\ age'[watched] = age[watched]
                BY <1>5, <3>4, <3>7, RefreshWatched
            <4>2. (Heard' <=> Heard) /\ (Unheard' <=> Unheard)
                BY <3>1, <4>1 DEF Heard, Unheard
            <4>3. CASE watched \in todo
                <5>1. ToVisit'
                    BY <3>2, <3>3, <3>7, <4>3
                <5>2. passed + T <= C
                    BY <3>7, <4>3 DEF T, C
                <5>3. passed + close_timeout + T1 <= C
                    BY <1>1, <2>3, <2>4, <2>11, <5>2
                <5>4. ScanBounded'
                    BY <2>1, <5>3 DEF ScanBounded, T1, C
                <5>5. HeardBounded' /\ UnheardBounded'
                    BY <1>5, <4>1, <4>2, <4>3, <5>1 DEF HeardBounded, UnheardBounded
                <5> QED BY <2>7, <2>9, <5>4, <5>5 DEF Bounded
            <4>4. CASE watched \notin todo
                <5>1. ~ ToVisit'
                    BY <3>2, <3>3, <4>4
                <5>2. Heard => quiet + T + V <= O + close_timeout
                    BY <4>4 DEF T, V, O
                <5>3. Heard => quiet + r <= O + close_timeout
                    BY <1>1, <1>3, <2>8, <3>1, <5>2
                <5>4. Unheard => age[watched] + T + V <= pong_timeout + O
                    BY <4>4 DEF T, V, O
                <5>5. Unheard => age[watched] + r <= pong_timeout + O
                    BY <1>1, <1>3, <2>8, <3>1, <5>4
                <5>6. ScanBounded'
                    BY <5>1 DEF ScanBounded
                <5>7. HeardBounded' /\ UnheardBounded'
                    BY <1>5, <4>1, <4>2, <5>1, <5>3, <5>5 DEF HeardBounded, UnheardBounded, r, O
                <5> QED BY <2>7, <2>9, <5>6, <5>7 DEF Bounded
            <4> QED BY <4>3, <4>4
        <3> QED BY <3>5, <3>6, <3>7
    <2> QED BY <2>10, <2>11
<1> QED BY <1>4, <1>5 DEF scan

LEMMA ScanStepsBounded ==
    ASSUME Bounded, Types', begin_pass \/ scan_closed
    PROVE  Bounded'
<1>1. /\ Types /\ pinged \subseteq Peer /\ peers \in SUBSET Peer /\ pass.todo \in SUBSET Peer
      /\ since_now \in 0 .. AgeCap /\ since_now \in Nat /\ quiet \in Nat /\ age[watched] \in Nat
      /\ pass.left \in Nat /\ AgeCap \in Nat
    BY PingSettings DEF Bounded, Types, PassBounded
<1> DEFINE O == open_pass_limit
           C == Cost(Peer \ {watched}, close_timeout)
           V == Serve(Peer)
<1>2. /\ O \in Nat /\ O = C + V /\ C \in Nat /\ V \in Nat
      /\ close_timeout \in Nat /\ pong_timeout \in Nat /\ lost_send \in Nat /\ ping_interval \in Nat
    BY Limits, ServeBounds
<1>3. /\ Cost(Peer, close_timeout) \in Nat /\ Cost(Peer, lost_send) \in Nat
      /\ pass_limit = Cost(Peer, close_timeout) + Cost(Peer, lost_send) + ping_interval
    BY <1>2, Limits, Costs
<1>4. CASE begin_pass
    <2>1. pass.at = "sleep" /\ pass.left = 0 /\ scan(peers, 0, {}) /\ since_now' = 0 /\ ponged' = {}
        BY <1>4 DEF begin_pass
    <2>2. OpenRest(pass) = 0 /\ ~ ToVisit
        BY <2>1 DEF OpenRest, ToVisit
    <2>3. /\ Cost(peers, close_timeout) \in Nat /\ Cost(peers, close_timeout) <= Cost(Peer, close_timeout)
          /\ Cost(peers \ {watched}, close_timeout) \in Nat /\ Cost(peers \ {watched}, close_timeout) <= C
        <3>1. peers \ {watched} \in SUBSET (Peer \ {watched}) /\ Peer \ {watched} \in SUBSET Peer
                  /\ Peer \in SUBSET Peer
            BY <1>1
        <3> QED BY <1>1, <1>2, <3>1, Costs
    <2>4. Heard => quiet <= O + close_timeout
        BY <1>1, <1>2, <2>2 DEF Bounded, HeardBounded
    <2>5. Unheard => age[watched] <= pong_timeout + O
        BY <1>1, <1>2, <2>2 DEF Bounded, UnheardBounded
    <2>6. Unheard => quiet <= age[watched] + O + close_timeout
        BY DEF Bounded, UnheardBounded
    <2>7. (Heard => watched \in peers) /\ (Unheard => watched \in peers)
        BY DEF Heard, Unheard
    <2>8. /\ 0 \in 0 .. AgeCap
          /\ 0 + Cost(peers, close_timeout) <= Cost(Peer, close_timeout)
          /\ 0 + Cost(peers \ {watched}, close_timeout) <= Cost(Peer \ {watched}, close_timeout)
          /\ Heard => quiet <= 0 + open_pass_limit + close_timeout
          /\ Unheard => age[watched] <= 0 + pong_timeout + open_pass_limit
        BY <1>1, <1>2, <1>3, <2>3, <2>4, <2>5
    <2> QED BY <1>1, <2>1, <2>6, <2>7, <2>8, ScanBounds
<1>5. CASE scan_closed
    <2>1. /\ pass.at = "scan_close" /\ scan(pass.todo, since_now, ponged)
          /\ since_now' = since_now /\ ponged' = ponged
        BY <1>5 DEF scan_closed
    <2> DEFINE D == Cost(pass.todo, close_timeout)
               T == Cost(pass.todo \ {watched}, close_timeout)
    <2>2. D \in Nat /\ T \in Nat
        BY <1>1, <1>2, Costs
    <2>3. /\ Rest(pass) = pass.left + (D + Cost(Peer, lost_send) + ping_interval)
          /\ OpenRest(pass) = pass.left + (T + V)
          /\ ToVisit <=> watched \in pass.todo
        BY <2>1 DEF Rest, OpenRest, ToVisit
    <2> HIDE DEF D, T, O, C, V
    <2>4. since_now + Rest(pass) <= pass_limit
        BY DEF Bounded, PassBounded
    <2>5. since_now + D <= Cost(Peer, close_timeout)
        BY <1>1, <1>2, <1>3, <2>2, <2>3, <2>4
    <2>6. watched \in peers /\ watched \in pass.todo => since_now + T <= C
        <3>1. watched \in peers /\ watched \in pass.todo => since_now + pass.left + T <= C
            BY <2>3 DEF Bounded, ScanBounded, T, C
        <3> QED BY <1>1, <1>2, <2>2, <3>1
    <2>7. Heard /\ watched \notin pass.todo => quiet + T + V <= O + close_timeout
        <3>1. Heard /\ watched \notin pass.todo => quiet + OpenRest(pass) <= O + close_timeout
            BY <2>3 DEF Bounded, HeardBounded, O
        <3> QED BY <1>1, <1>2, <2>2, <2>3, <3>1
    <2>8. Unheard /\ watched \notin pass.todo => age[watched] + T + V <= pong_timeout + O
        <3>1. Unheard /\ watched \notin pass.todo => age[watched] + OpenRest(pass) <= pong_timeout + O
            BY <2>3 DEF Bounded, UnheardBounded, O
        <3> QED BY <1>1, <1>2, <2>2, <2>3, <3>1
    <2>9. /\ Heard /\ watched \in pass.todo => quiet <= since_now + open_pass_limit + close_timeout
          /\ Heard /\ watched \in pass.todo /\ watched \in ponged => quiet <= since_now
        BY <2>3 DEF Bounded, HeardBounded
    <2>10. /\ Unheard => quiet <= age[watched] + open_pass_limit + close_timeout
           /\ Unheard /\ watched \in pass.todo => age[watched] <= since_now + pong_timeout + open_pass_limit
        BY <2>3 DEF Bounded, UnheardBounded
    <2> QED BY <1>1, <2>1, <2>5, <2>6, <2>7, <2>8, <2>9, <2>10, ScanBounds DEF D, T, O, C, V
<1> QED BY <1>4, <1>5

\* A step of the pass that ends before its time and touches nothing else.
LEMMA RestFalls ==
    ASSUME Bounded, Types', UNCHANGED <<ping, age, since_now, ponged, quiet>>, pinged' \subseteq Peer,
           peers' \subseteq peers, pass.at # "scan_close", pass'.at # "scan_close",
           pass'.left <= ping_interval + close_timeout + send_timeout,
           Rest(pass') <= Rest(pass), OpenRest(pass') <= open_pass_limit + close_timeout,
           watched \in peers' => OpenRest(pass') <= OpenRest(pass)
    PROVE  Bounded'
<1>1. /\ Types /\ since_now \in Nat /\ quiet \in Nat /\ age[watched] \in Nat /\ AgeCap \in Nat
    BY PingSettings DEF Bounded, Types
<1>2. Rest(pass) \in Nat /\ OpenRest(pass) \in Nat
    BY <1>1, RestType
<1>3. Rest(pass') \in Nat /\ OpenRest(pass') \in Nat
    <2>1. pass'.todo \in SUBSET Peer /\ pass'.left \in Nat /\ Peer \in SUBSET Peer
        BY DEF Types
    <2>2. /\ ping_interval \in Nat /\ close_timeout \in Nat /\ lost_send \in Nat
        BY Limits
    <2>3. /\ Cost(pass'.todo, close_timeout) \in Nat /\ Cost(Peer, lost_send) \in Nat
          /\ Cost(pass'.todo, lost_send) \in Nat /\ Cost(pass'.todo \ {watched}, close_timeout) \in Nat
          /\ Serve(pass'.todo) \in Nat /\ Serve(Peer) \in Nat
        BY <2>1, <2>2, Costs, ServeBounds
    <2> QED BY <2>1, <2>2, <2>3 DEF Rest, OpenRest
<1>4. /\ open_pass_limit \in Nat /\ close_timeout \in Nat /\ pong_timeout \in Nat /\ pass_limit \in Nat
    BY Limits, ServeBounds, Costs
<1>5. ~ ToVisit /\ ~ ToVisit' /\ ping' = ping /\ age' = age /\ quiet' = quiet /\ since_now' = since_now
    BY DEF ToVisit
<1>6. PassBounded' /\ RestBounded'
    BY <1>1, <1>2, <1>3, <1>4, <1>5 DEF Bounded, PassBounded, RestBounded
<1>7. (Heard' => Heard /\ watched \in peers') /\ (Unheard' => Unheard /\ watched \in peers')
    BY <1>5 DEF Heard, Unheard
<1>8. ScanBounded'
    BY <1>5 DEF ScanBounded
<1>9. HeardBounded'
    <2>1. Heard => quiet + OpenRest(pass) <= open_pass_limit + close_timeout
        BY <1>5 DEF Bounded, HeardBounded
    <2>2. Heard' => quiet + OpenRest(pass') <= open_pass_limit + close_timeout
        BY <1>1, <1>2, <1>3, <1>4, <1>7, <2>1
    <2> QED BY <1>5, <2>2 DEF HeardBounded
<1>10. UnheardBounded'
    <2>1. Unheard => /\ quiet <= age[watched] + open_pass_limit + close_timeout
                     /\ age[watched] + OpenRest(pass) <= pong_timeout + open_pass_limit
        BY <1>5 DEF Bounded, UnheardBounded
    <2>2. Unheard' => age[watched] + OpenRest(pass') <= pong_timeout + open_pass_limit
        BY <1>1, <1>2, <1>3, <1>4, <1>7, <2>1
    <2> QED BY <1>5, <1>7, <2>1, <2>2 DEF UnheardBounded
<1> QED BY <1>6, <1>8, <1>9, <1>10 DEF Bounded

LEMMA BroadcastBounded ==
    ASSUME Bounded, Types', ping_sent \/ send_closed \/ ping_send_timeout
    PROVE  Bounded'
<1>1. /\ Types /\ pass.todo \in SUBSET Peer /\ pass.left \in Nat /\ peers \in SUBSET Peer
      /\ pinged \subseteq Peer
    BY DEF Bounded, Types, PassBounded
<1> DEFINE S == pass.todo
           D == Cost(S, lost_send)
<1>2. /\ ping_interval \in Nat /\ close_timeout \in Nat /\ send_timeout \in Nat /\ lost_send \in Nat
      /\ open_pass_limit \in Nat
    BY Limits, ServeBounds
<1>3. D \in Nat /\ Serve(S) \in Nat
    BY <1>1, <1>2, Costs, ServeBounds
<1>4. /\ pass.at \in {"send", "send_close"}
    BY DEF ping_sent, send_closed, ping_send_timeout
<1>5. Rest(pass) = pass.left + ((IF pass.at = "send" THEN close_timeout ELSE 0) + D + ping_interval)
    BY <1>4 DEF Rest
<1>6. OpenRest(pass)
          = pass.left + ((IF pass.at = "send" /\ watched \notin pass.to THEN close_timeout ELSE 0) + Serve(S))
    BY <1>4 DEF OpenRest
<1>7. OpenRest(pass) <= open_pass_limit + close_timeout
    BY DEF Bounded, RestBounded
<1> HIDE DEF D
<1>8. CASE ping_sent \/ send_closed
    <2>1. send_next(S) /\ UNCHANGED <<peers, ping, age, since_now, ponged, quiet>>
        BY <1>8 DEF ping_sent, send_closed
    <2>2. /\ Rest(pass') \in Nat /\ Rest(pass') <= D + ping_interval
          /\ OpenRest(pass') \in Nat /\ OpenRest(pass') <= Serve(S) /\ pass'.at # "scan_close"
          /\ pass'.left <= ping_interval + close_timeout + send_timeout
        BY <1>1, <2>1, SendRest DEF D
    <2>3. Rest(pass') <= Rest(pass)
        BY <1>1, <1>2, <1>3, <1>5, <2>2
    <2>4. OpenRest(pass') <= OpenRest(pass) /\ OpenRest(pass) \in Nat
        BY <1>1, <1>2, <1>3, <1>6, <2>2
    <2>5. OpenRest(pass') <= open_pass_limit + close_timeout
        BY <1>2, <1>7, <2>2, <2>4
    <2>6. pinged' \subseteq Peer
        BY <1>1, <2>1 DEF send_next
    <2> QED BY <1>4, <2>1, <2>2, <2>3, <2>4, <2>5, <2>6, RestFalls
<1>9. CASE ping_send_timeout
    <2>1. /\ pass.at = "send" /\ pass.left = 0
          /\ pass' = wait("send_close", {}, S, close_timeout) /\ peers' = peers \ pass.to
          /\ UNCHANGED <<ping, age, pinged, since_now, ponged, quiet, unanswered>>
        BY <1>9 DEF ping_send_timeout
    <2>2. pass'.at = "send_close" /\ pass'.todo = S /\ pass'.left = close_timeout
        BY <2>1 DEF wait
    <2>3. /\ Rest(pass') = close_timeout + (0 + D + ping_interval)
          /\ OpenRest(pass') = close_timeout + (0 + Serve(S))
        BY <2>2 DEF Rest, OpenRest, D
    <2>4. Rest(pass') <= Rest(pass)
        BY <1>2, <1>3, <1>5, <2>1, <2>3
    <2>5. watched \in peers' => OpenRest(pass') <= OpenRest(pass)
        <3>1. watched \in peers' => watched \notin pass.to
            BY <2>1
        <3> QED BY <1>2, <1>3, <1>6, <2>1, <2>3, <3>1
    <2>6. OpenRest(pass') <= open_pass_limit + close_timeout
        <3>1. Serve(S) <= Serve(Peer) /\ Serve(Peer) \in Nat
            BY <1>1, ServeBounds
        <3>2. Serve(Peer) <= open_pass_limit
            BY <1>2, <3>1, Limits
        <3> QED BY <1>2, <1>3, <2>3, <3>1, <3>2
    <2>7. pass'.left <= ping_interval + close_timeout + send_timeout
        BY <1>2, <2>2
    <2> QED BY <1>1, <1>4, <2>1, <2>2, <2>4, <2>5, <2>6, <2>7, RestFalls
<1> QED BY <1>8, <1>9

\* A step that leaves the pass alone, and the watched peer too unless it leaves.
LEMMA WatchedKept ==
    ASSUME Bounded, Types', UNCHANGED <<pass, since_now, quiet>>, pinged' \subseteq Peer,
           watched \in peers' => watched \in peers, ping'[watched] = ping[watched],
           age'[watched] = age[watched], watched \in ponged' <=> watched \in ponged
    PROVE  Bounded'
<1>1. (ToVisit' <=> ToVisit) /\ (Heard' => Heard) /\ (Unheard' => Unheard)
    BY DEF ToVisit, Heard, Unheard
<1>2. PassBounded' /\ RestBounded'
    BY DEF Bounded, PassBounded, RestBounded
<1>3. ScanBounded'
    BY <1>1 DEF Bounded, ScanBounded
<1>4. HeardBounded' /\ UnheardBounded'
    BY <1>1 DEF Bounded, HeardBounded, UnheardBounded
<1> QED BY <1>2, <1>3, <1>4 DEF Bounded

\* The watched peer has just connected, or a PONG of it was read.
LEMMA WatchedHeard ==
    ASSUME Bounded, Types', UNCHANGED <<pass, since_now>>, pinged' \subseteq Peer, quiet' = 0,
           ping'[watched] # "waiting", ToVisit => watched \in peers
    PROVE  Bounded'
<1>1. since_now \in Nat /\ open_pass_limit \in Nat /\ close_timeout \in Nat /\ OpenRest(pass) \in Nat
    <2>1. Types /\ since_now \in Nat
        BY PingSettings DEF Bounded, Types
    <2> QED BY <2>1, RestType, Limits, ServeBounds
<1>2. (ToVisit' <=> ToVisit) /\ ~ Unheard'
    BY DEF ToVisit, Unheard
<1>3. PassBounded' /\ RestBounded'
    BY DEF Bounded, PassBounded, RestBounded
<1>4. ScanBounded'
    BY <1>2 DEF Bounded, ScanBounded
<1>5. HeardBounded'
    <2>1. 0 + OpenRest(pass) <= open_pass_limit + close_timeout
        BY <1>1 DEF Bounded, RestBounded
    <2>2. 0 <= since_now /\ 0 <= since_now + open_pass_limit + close_timeout
        BY <1>1
    <2> QED BY <1>2, <2>1, <2>2 DEF HeardBounded
<1>6. UnheardBounded'
    BY <1>2 DEF UnheardBounded
<1> QED BY <1>3, <1>4, <1>5, <1>6 DEF Bounded

\* As time passes, what is left of the pass falls as fast as the ages grow.
LEMMA TickBounded ==
    ASSUME Bounded, Types', Tick
    PROVE  Bounded'
<1>1. /\ Types /\ AgeCap \in Nat /\ watched \in Peer /\ pass.todo \in SUBSET Peer
      /\ pass.left \in Nat /\ since_now \in 0 .. AgeCap /\ quiet \in 0 .. AgeCap
      /\ age[watched] \in 0 .. AgeCap
    BY PingSettings DEF Bounded, Types
<1>2. /\ open_pass_limit \in Nat /\ close_timeout \in Nat /\ pong_timeout \in Nat
      /\ ping_interval \in Nat /\ send_timeout \in Nat
      /\ Cost(pass.todo \ {watched}, close_timeout) \in Nat
      /\ Cost(Peer \ {watched}, close_timeout) \in Nat
    <2>1. close_timeout \in Nat
        BY Limits
    <2> QED BY <1>1, <2>1, Limits, ServeBounds, Costs
<1>3. /\ pass.left > 0 /\ pass' = [pass EXCEPT !.left = @ - 1]
      /\ since_now' = older(since_now) /\ UNCHANGED <<peers, ping, pinged, ponged>>
    BY DEF Tick
<1>4. /\ pass'.at = pass.at /\ pass'.to = pass.to /\ pass'.todo = pass.todo
      /\ pass'.left = pass.left - 1
    BY <1>1, <1>3 DEF Types
<1>5. /\ Rest(pass) \in Nat /\ OpenRest(pass) \in Nat
      /\ Rest(pass') = Rest(pass) - 1 /\ OpenRest(pass') = OpenRest(pass) - 1
    <2> DEFINE a == IF pass.at = "scan_close"
                    THEN Cost(pass.todo, close_timeout) + Cost(Peer, lost_send) + ping_interval
                    ELSE IF pass.at = "sleep" THEN 0
                    ELSE (IF pass.at = "send" THEN close_timeout ELSE 0)
                             + Cost(pass.todo, lost_send) + ping_interval
               b == IF pass.at = "scan_close"
                    THEN Cost(pass.todo \ {watched}, close_timeout) + Serve(Peer)
                    ELSE IF pass.at = "sleep" THEN 0
                    ELSE (IF pass.at = "send" /\ watched \notin pass.to THEN close_timeout ELSE 0)
                             + Serve(pass.todo)
    <2>1. Rest(pass) \in Nat /\ OpenRest(pass) \in Nat
        BY <1>1, RestType
    <2>2. Rest(pass) = pass.left + a /\ OpenRest(pass) = pass.left + b
        BY DEF Rest, OpenRest
    <2>3. Rest(pass') = (pass.left - 1) + a /\ OpenRest(pass') = (pass.left - 1) + b
        BY <1>4 DEF Rest, OpenRest
    <2>4. a \in Nat /\ b \in Nat
        <3>1. /\ Peer \in SUBSET Peer /\ lost_send \in Nat
            BY Limits
        <3>2. /\ Cost(pass.todo, close_timeout) \in Nat /\ Cost(Peer, lost_send) \in Nat
              /\ Cost(pass.todo, lost_send) \in Nat /\ Serve(pass.todo) \in Nat /\ Serve(Peer) \in Nat
            BY <1>1, <1>2, <3>1, Costs, ServeBounds
        <3> QED BY <1>2, <3>2
    <2> HIDE DEF a, b
    <2> QED BY <1>1, <2>1, <2>2, <2>3, <2>4
<1>6. /\ watched \in peers => quiet' = older(quiet)
      /\ Unheard => age'[watched] = older(age[watched])
    BY <1>1 DEF Tick, Unheard
<1>7. (ToVisit' <=> ToVisit) /\ (Heard' <=> Heard) /\ (Unheard' <=> Unheard)
    BY <1>3, <1>4 DEF ToVisit, Heard, Unheard
<1>8. (Heard => watched \in peers) /\ (Unheard => watched \in peers)
    BY DEF Heard, Unheard
<1>9. /\ since_now' \in 0 .. AgeCap /\ since_now' >= since_now /\ since_now' <= since_now + 1
      /\ since_now' = since_now => since_now = AgeCap
    BY <1>1, <1>3 DEF older, Never
<1>10. watched \in peers => quiet' \in 0 .. AgeCap /\ quiet' <= quiet + 1
    BY <1>1, <1>6 DEF older, Never
<1>11. Unheard => /\ age'[watched] \in 0 .. AgeCap /\ age'[watched] <= age[watched] + 1
                  /\ age'[watched] < age[watched] + 1 => age'[watched] = AgeCap
    BY <1>1, <1>6 DEF older, Never
<1>12. PassBounded'
    <2>1. /\ pinged \subseteq Peer /\ pass.left <= ping_interval + close_timeout + send_timeout
          /\ since_now + Rest(pass) <= pass_limit
        BY DEF Bounded, PassBounded
    <2>2. pass_limit \in Nat
        BY <1>2, Limits DEF pass_limit
    <2>3. since_now' + Rest(pass') <= pass_limit
        BY <1>1, <1>5, <1>9, <2>1, <2>2
    <2>4. pass'.left <= ping_interval + close_timeout + send_timeout
        BY <1>1, <1>2, <1>4, <2>1
    <2> QED BY <1>3, <2>1, <2>3, <2>4 DEF PassBounded
<1>13. RestBounded'
    BY <1>2, <1>5 DEF Bounded, RestBounded
<1>14. ScanBounded'
    <2>1. watched \in peers /\ ToVisit =>
              since_now + pass.left + Cost(pass.todo \ {watched}, close_timeout)
                  <= Cost(Peer \ {watched}, close_timeout)
        BY DEF Bounded, ScanBounded
    <2>2. watched \in peers /\ ToVisit =>
              since_now' + (pass.left - 1) + Cost(pass.todo \ {watched}, close_timeout)
                  <= Cost(Peer \ {watched}, close_timeout)
        BY <1>1, <1>2, <1>9, <2>1
    <2> QED BY <1>3, <1>4, <1>7, <2>2 DEF ScanBounded
<1>15. HeardBounded'
    <2>1. Heard /\ ~ ToVisit => quiet' + OpenRest(pass') <= open_pass_limit + close_timeout
        <3>1. Heard /\ ~ ToVisit => quiet + OpenRest(pass) <= open_pass_limit + close_timeout
            BY DEF Bounded, HeardBounded
        <3> QED BY <1>1, <1>2, <1>5, <1>8, <1>10, <3>1
    <2>2. Heard /\ ToVisit => quiet' <= since_now' + open_pass_limit + close_timeout
        <3>1. Heard /\ ToVisit => quiet <= since_now + open_pass_limit + close_timeout
            BY DEF Bounded, HeardBounded
        <3> QED BY <1>1, <1>2, <1>8, <1>9, <1>10, <3>1
    <2>3. Heard /\ ToVisit /\ watched \in ponged => quiet' <= since_now'
        <3>1. Heard /\ ToVisit /\ watched \in ponged => quiet <= since_now
            BY DEF Bounded, HeardBounded
        <3> QED BY <1>1, <1>8, <1>9, <1>10, <3>1
    <2> QED BY <1>3, <1>7, <2>1, <2>2, <2>3 DEF HeardBounded
<1>16. UnheardBounded'
    <2>1. Unheard => quiet' <= age'[watched] + open_pass_limit + close_timeout
        <3>1. Unheard => quiet <= age[watched] + open_pass_limit + close_timeout
            BY DEF Bounded, UnheardBounded
        <3> QED BY <1>1, <1>2, <1>8, <1>10, <1>11, <3>1
    <2>2. Unheard /\ ~ ToVisit => age'[watched] + OpenRest(pass') <= pong_timeout + open_pass_limit
        <3>1. Unheard /\ ~ ToVisit => age[watched] + OpenRest(pass) <= pong_timeout + open_pass_limit
            BY DEF Bounded, UnheardBounded
        <3> QED BY <1>1, <1>2, <1>5, <1>11, <3>1
    <2>3. Unheard /\ ToVisit => age'[watched] <= since_now' + pong_timeout + open_pass_limit
        <3>1. Unheard /\ ToVisit => age[watched] <= since_now + pong_timeout + open_pass_limit
            BY DEF Bounded, UnheardBounded
        <3> QED BY <1>1, <1>2, <1>9, <1>11, <3>1
    <2> QED BY <1>7, <2>1, <2>2, <2>3 DEF UnheardBounded
<1> QED BY <1>12, <1>13, <1>14, <1>15, <1>16 DEF Bounded

\* Connections, PONGs and the clock.
LEMMA OtherBounded ==
    ASSUME Bounded, Types', (\E p \in Peer : connect(p) \/ disconnect(p) \/ on_pong(p)) \/ Tick
    PROVE  Bounded'
<1>1. Types /\ watched \in Peer /\ pinged \subseteq Peer
    BY PingSettings DEF Bounded, PassBounded
<1>2. ASSUME NEW p \in Peer, connect(p) PROVE Bounded'
    <2>1. UNCHANGED <<pass, since_now>> /\ pinged' \subseteq Peer
        BY <1>1, <1>2 DEF connect
    <2>2. CASE p = watched
        <3>1. ping'[watched] # "waiting" /\ quiet' = 0 /\ ~ ToVisit
            BY <1>1, <1>2, <2>2 DEF connect, Types, ToVisit
        <3> QED BY <2>1, <3>1, WatchedHeard
    <2>3. CASE p # watched
        <3>1. /\ ping'[watched] = ping[watched] /\ age'[watched] = age[watched]
              /\ (watched \in peers' => watched \in peers) /\ (watched \in ponged' <=> watched \in ponged)
              /\ quiet' = quiet
            BY <1>1, <1>2, <2>3 DEF connect, Types
        <3> QED BY <2>1, <3>1, WatchedKept
    <2> QED BY <2>2, <2>3
<1>3. ASSUME NEW p \in Peer, disconnect(p) PROVE Bounded'
    <2>1. /\ watched \in peers' => watched \in peers
          /\ UNCHANGED <<ping, age, pinged, pass, since_now, ponged, quiet>>
        BY <1>3 DEF disconnect
    <2> QED BY <1>1, <2>1, WatchedKept
<1>4. ASSUME NEW p \in Peer, on_pong(p) PROVE Bounded'
    <2>1. UNCHANGED <<peers, age, pinged, pass, since_now>>
        BY <1>4 DEF on_pong
    <2>2. CASE p = watched
        <3>1. ping'[watched] # "waiting" /\ quiet' = 0 /\ watched \in peers
            BY <1>1, <1>4, <2>2 DEF on_pong, Types
        <3> QED BY <1>1, <2>1, <3>1, WatchedHeard
    <2>3. CASE p # watched
        <3>1. /\ ping'[watched] = ping[watched] /\ quiet' = quiet
              /\ watched \in ponged' <=> watched \in ponged
            BY <1>1, <1>4, <2>3 DEF on_pong, Types
        <3> QED BY <1>1, <2>1, <3>1, WatchedKept
    <2> QED BY <2>2, <2>3
<1> QED BY <1>2, <1>3, <1>4, TickBounded

\* The bounds are inductive.
LEMMA NextBounded == Cause /\ Bounded /\ [Next]_vars => Bounded'
<1> SUFFICES ASSUME Cause, Bounded, [Next]_vars PROVE Bounded'
    OBVIOUS
<1>1. Types'
    BY NextCause DEF Cause
<1>2. CASE UNCHANGED vars
    <2>1. UNCHANGED <<peers, ping, age, pinged, pass, since_now, ponged, quiet>>
        BY <1>2 DEF vars
    <2> QED BY <1>1, <2>1, WatchedKept DEF Bounded, PassBounded
<1>3. CASE Next
    BY <1>1, <1>3, ScanStepsBounded, BroadcastBounded, OtherBounded DEF Next
<1> QED BY <1>2, <1>3

\* Nobody is connected at first, and the loop is about to begin a pass.
LEMMA InitBounded == Init => Bounded
<1> SUFFICES ASSUME Init PROVE Bounded
    OBVIOUS
<1>1. Types /\ watched \notin peers /\ pinged = {} /\ since_now = 0
    BY InitCause DEF Init, Cause
<1>2. pass.at = "sleep" /\ pass.left = 0
    BY DEF Init, wait
<1>3. Rest(pass) = 0 /\ OpenRest(pass) = 0
    BY <1>2 DEF Rest, OpenRest
<1>4. open_pass_limit \in Nat /\ close_timeout \in Nat /\ ping_interval \in Nat /\ send_timeout \in Nat
    BY Limits, ServeBounds
<1>5. pass_limit \in Nat
    BY <1>4 DEF pass_limit
<1>6. PassBounded /\ RestBounded
    BY <1>1, <1>2, <1>3, <1>4, <1>5 DEF PassBounded, RestBounded
<1> QED BY <1>1, <1>6 DEF Bounded, ScanBounded, HeardBounded, UnheardBounded, Heard, Unheard

LEMMA AlwaysBounded == Spec => []Bounded
<1>1. Spec => []Cause
    BY InitCause, NextCause, PTL DEF Spec
<1> QED BY <1>1, InitBounded, NextBounded, PTL DEF Spec

\* Every variable keeps its type; no pass of the loop takes longer than
\* pass_limit, whichever peers time out in its scan and in its broadcast.
THEOREM TypeCorrect == Spec => []TypeOK
<1>1. Bounded => TypeOK
    <2> SUFFICES ASSUME Bounded PROVE TypeOK
        OBVIOUS
    <2>1. /\ Types /\ pinged \subseteq Peer /\ since_now \in Nat /\ pass.left \in Nat
          /\ pass.left <= ping_interval + close_timeout + send_timeout
          /\ since_now + Rest(pass) <= pass_limit
        BY PingSettings DEF Bounded, Types, PassBounded
    <2>2. Rest(pass) \in Nat /\ ping_interval + close_timeout + send_timeout \in Nat /\ pass_limit \in Nat
        <3>1. open_pass_limit \in Nat
            BY Limits, ServeBounds
        <3> QED BY <2>1, <3>1, RestType, Limits DEF pass_limit
    <2>3. since_now \in 0 .. pass_limit
        BY <2>1, <2>2
    <2>4. pass \in [at : Awaited, to : SUBSET Peer, todo : SUBSET Peer,
                    left : 0 .. ping_interval + close_timeout + send_timeout]
        <3>1. pass.left \in 0 .. ping_interval + close_timeout + send_timeout
            BY <2>1, <2>2
        <3> QED BY <2>1, <3>1 DEF Types
    <2> QED BY <2>1, <2>3, <2>4 DEF TypeOK, Types
<1> QED BY <1>1, AlwaysBounded, PTL

\* A peer that has stopped answering is closed in time: for every number of
\* peers and all timeouts, a peer that is still open has sent a PONG, or has
\* connected, within quiet_limit.
THEOREM SilentPeersAreClosed == Spec => []QuietBounded
<1>1. Bounded => QuietBounded
    <2> SUFFICES ASSUME Bounded, watched \in peers PROVE quiet <= quiet_limit
        BY DEF QuietBounded
    <2> DEFINE O == open_pass_limit
               C == Cost(Peer \ {watched}, close_timeout)
               k == Cost(pass.todo \ {watched}, close_timeout)
    <2>1. /\ Types /\ quiet \in Nat /\ age[watched] \in Nat /\ since_now \in Nat /\ pass.left \in Nat
          /\ pass.todo \in SUBSET Peer
        BY PingSettings DEF Bounded, Types
    <2>2. /\ O \in Nat /\ C \in Nat /\ close_timeout \in Nat /\ pong_timeout \in Nat
          /\ quiet_limit = pong_timeout + 2 * O + C + close_timeout
        BY Limits, ServeBounds
    <2>3. k \in Nat /\ OpenRest(pass) \in Nat
        BY <2>1, <2>2, Costs, RestType
    <2>4. ToVisit => since_now + pass.left + k <= C
        BY DEF Bounded, ScanBounded
    <2>5. Heard /\ ~ ToVisit => quiet + OpenRest(pass) <= O + close_timeout
        BY DEF Bounded, HeardBounded
    <2>6. Heard /\ ToVisit => quiet <= since_now + O + close_timeout
        BY DEF Bounded, HeardBounded
    <2>7. Unheard => quiet <= age[watched] + O + close_timeout
        BY DEF Bounded, UnheardBounded
    <2>8. Unheard /\ ~ ToVisit => age[watched] + OpenRest(pass) <= pong_timeout + O
        BY DEF Bounded, UnheardBounded
    <2>9. Unheard /\ ToVisit => age[watched] <= since_now + pong_timeout + O
        BY DEF Bounded, UnheardBounded
    <2>10. Heard \/ Unheard
        BY DEF Heard, Unheard
    <2> HIDE DEF O, C, k
    <2>11. CASE Heard
        BY <2>1, <2>2, <2>3, <2>4, <2>5, <2>6, <2>11
    <2>12. CASE Unheard
        BY <2>1, <2>2, <2>3, <2>4, <2>7, <2>8, <2>9, <2>12
    <2> QED BY <2>10, <2>11, <2>12
<1> QED BY <1>1, AlwaysBounded, PTL

=============================================================================
