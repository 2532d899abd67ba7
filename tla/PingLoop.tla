------------------------------ MODULE PingLoop ------------------------------
(***************************************************************************)
(* The ping loop of one node (network/node.py), with the broadcast of      *)
(* network/server.py and the part of the listen loops that reads PONGs.    *)
(*                                                                         *)
(* The loop reads the clock once per pass, goes through the peers, closes  *)
(* those that have timed out, sends a PING to every peer and sleeps.  Each *)
(* close and each send may suspend it, up to a timeout, while the listen   *)
(* loops go on; so the time it has read grows old during a pass.           *)
(*                                                                         *)
(* When a PONG is read is left open: the other node may be slow or gone,   *)
(* and the listen loop of the peer may be inside a handler that waits for  *)
(* a chain or dials the URLs of a PEERS message.  Time is discrete; only   *)
(* ages are kept, and they are counted up to AgeCap.                       *)
(***************************************************************************)
EXTENDS Integers, FiniteSets

CONSTANTS
    Peer,                   \* connection ids
    watched,                \* the peer whose PONGs are timed (any of them)
    ping_interval, pong_timeout,
    close_timeout,          \* of websocket.close()
    send_timeout,           \* broadcast_send_timeout_seconds
    AgeCap                  \* ages are counted up to here

others == Cardinality(Peer) - 1

\* The longest pass that leaves one peer open: each of the others is closed in
\* the scan, and one in its place times out in the broadcast.
open_pass_limit == others * (2 * close_timeout + send_timeout) + send_timeout + ping_interval

\* The longest pass.
pass_limit == open_pass_limit + 2 * close_timeout

\* The longest time a peer is kept open without a PONG: one pass until
\* last_ping_at is set anew (and the close under way when it connects), one
\* in which pong_timeout ends, and the scan of the next up to it.
quiet_limit == pong_timeout + 2 * open_pass_limit + (others + 1) * close_timeout

ASSUME PingSettings ==
    /\ IsFiniteSet(Peer) /\ watched \in Peer
    /\ ping_interval \in Nat \ {0} /\ pong_timeout \in Nat
    /\ close_timeout \in Nat /\ send_timeout \in Nat
    /\ AgeCap \in Nat /\ AgeCap > quiet_limit

VARIABLES
    peers,      \* the registered peers that are not closed
    ping,       \* ping[p]: "none" (last_ping_at is None), "waiting" (no PONG since
                \* last_ping_at) or "answered"
    age,        \* age[p]: time since last_ping_at
    pinged,     \* peers a PING has been sent to
    pass,       \* the ping loop: what it awaits, how long at most, and for what is left
    since_now,  \* time since the loop has read the clock
    ponged,     \* peers whose PONG was read since then
    quiet,      \* time since a PONG of the watched peer was read, or since it connected
    unanswered  \* time since the first PING to it that followed (Never: none)

vars == <<peers, ping, age, pinged, pass, since_now, ponged, quiet, unanswered>>

Never == -1

\* The loop awaits the close of a peer that timed out, a send, the close of a
\* peer whose send timed out, or the end of its sleep.
Awaited == {"scan_close", "send", "send_close", "sleep"}

\* to holds the peer a PING is being sent to.
wait(at, to, todo, left) == [at |-> at, to |-> to, todo |-> todo, left |-> left]

older(t) == IF t = Never \/ t = AgeCap THEN t ELSE t + 1

Init ==
    /\ peers = {} /\ pinged = {} /\ ponged = {}
    /\ ping = [p \in Peer |-> "none"]
    /\ age = [p \in Peer |-> 0]
    /\ pass = wait("sleep", {}, {}, 0)
    /\ since_now = 0
    /\ quiet = 0 /\ unanswered = Never

-----------------------------------------------------------------------------
(* The scan: from one await to the next it is one step *)

\* Mutant: whether a PONG has come since last_ping_at does not matter.
timed_out_unread(p, passed) ==
    /\ p \in peers /\ ping[p] # "none"
    /\ age[p] - passed > pong_timeout

\* last_ping_at is set, no PONG has come since, and the time is over; passed
\* is the time since the clock was read.
timed_out(p, passed) ==
    /\ p \in peers /\ ping[p] = "waiting"
    /\ age[p] - passed > pong_timeout

\* Mutant: last_ping_at is set in every pass.
due_always(p) == p \in peers

\* last_ping_at is set anew when it is None or a PONG has come since.
due(p) == p \in peers /\ ping[p] # "waiting"

\* last_ping_at becomes the time that was read at the start of the pass.
refresh(S, passed, answered) ==
    /\ ping' = [p \in Peer |-> IF p \notin {q \in S : due(q)} THEN ping[p]
                               ELSE IF p \in answered THEN "answered" ELSE "waiting"]
    /\ age' = [p \in Peer |-> IF p \in {q \in S : due(q)} THEN passed ELSE age[p]]

\* The broadcast sends to the next peer of its snapshot that is still open,
\* or is over and the loop sleeps.
send_next(S) ==
    \/ /\ S \cap peers = {}
       /\ pass' = wait("sleep", {}, {}, ping_interval)
       /\ UNCHANGED <<pinged, unanswered>>
    \/ \E p \in S \cap peers :
       /\ pass' = wait("send", {p}, S \ {p}, send_timeout)
       /\ pinged' = pinged \cup {p}
       /\ unanswered' = IF p = watched /\ unanswered = Never THEN 0 ELSE unanswered

\* The scan goes on from todo: it stops at a peer that has timed out, or it
\* ends and the broadcast takes its snapshot.
scan(todo, passed, answered) ==
    LET late == {p \in todo : timed_out(p, passed)} IN
    \/ /\ late = {}
       /\ refresh(todo, passed, answered)
       /\ send_next(peers)
       /\ UNCHANGED <<peers, quiet>>
    \/ \E p \in late, seen \in SUBSET (todo \ late) :
       /\ refresh(seen, passed, answered)
       /\ pass' = wait("scan_close", {}, todo \ (seen \cup {p}), close_timeout)
       /\ peers' = peers \ {p}
       /\ UNCHANGED <<pinged, quiet, unanswered>>

\* Mutant: the clock is read once, before the first pass.
begin_pass_unclocked ==
    /\ pass.at = "sleep" /\ pass.left = 0
    /\ scan(peers, since_now, ponged)
    /\ UNCHANGED <<since_now, ponged>>

\* The sleep is over: the clock is read and the scan begins.
begin_pass ==
    /\ pass.at = "sleep" /\ pass.left = 0
    /\ since_now' = 0 /\ ponged' = {}
    /\ scan(peers, 0, {})

\* The close has been answered or has timed out.
scan_closed ==
    /\ pass.at = "scan_close"
    /\ scan(pass.todo, since_now, ponged)
    /\ UNCHANGED <<since_now, ponged>>

-----------------------------------------------------------------------------
(* The broadcast *)

\* The PING is out, or the connection has broken and send raised.
ping_sent ==
    /\ pass.at = "send"
    /\ send_next(pass.todo)
    /\ UNCHANGED <<peers, ping, age, since_now, ponged, quiet>>

\* wait_for times out and the peer is closed.
ping_send_timeout ==
    /\ pass.at = "send" /\ pass.left = 0
    /\ pass' = wait("send_close", {}, pass.todo, close_timeout)
    /\ peers' = peers \ pass.to
    /\ UNCHANGED <<ping, age, pinged, since_now, ponged, quiet, unanswered>>

send_closed ==
    /\ pass.at = "send_close"
    /\ send_next(pass.todo)
    /\ UNCHANGED <<peers, ping, age, since_now, ponged, quiet>>

-----------------------------------------------------------------------------
(* The connections and the clock *)

\* A connection is registered under a new id: one the loop does not hold.
connect(p) ==
    /\ p \notin peers \cup pass.to \cup pass.todo
    /\ peers' = peers \cup {p}
    /\ ping' = [ping EXCEPT ![p] = "none"] /\ age' = [age EXCEPT ![p] = 0]
    /\ pinged' = pinged \ {p} /\ ponged' = ponged \ {p}
    /\ quiet' = IF p = watched THEN 0 ELSE quiet
    /\ unanswered' = IF p = watched THEN Never ELSE unanswered
    /\ UNCHANGED <<pass, since_now>>

\* The listen loop of p ends: the connection is closed and forgotten.
disconnect(p) ==
    /\ p \in peers
    /\ peers' = peers \ {p}
    /\ UNCHANGED <<ping, age, pinged, pass, since_now, ponged, quiet, unanswered>>

\* The listen loop of p reads a PONG: an answer to any PING before.
on_pong(p) ==
    /\ p \in peers \cap pinged
    /\ ping' = [ping EXCEPT ![p] = IF @ = "none" THEN @ ELSE "answered"]
    /\ ponged' = ponged \cup {p}
    /\ quiet' = IF p = watched THEN 0 ELSE quiet
    /\ unanswered' = IF p = watched THEN Never ELSE unanswered
    /\ UNCHANGED <<peers, age, pinged, pass, since_now>>

\* Time passes while the loop waits, and no longer than it waits.
Tick ==
    /\ pass.left > 0
    /\ pass' = [pass EXCEPT !.left = @ - 1]
    /\ age' = [p \in Peer |-> IF p \in peers /\ ping[p] # "none" THEN older(age[p]) ELSE 0]
    /\ since_now' = older(since_now)
    /\ quiet' = IF watched \in peers THEN older(quiet) ELSE 0
    /\ unanswered' = IF watched \in peers THEN older(unanswered) ELSE Never
    /\ UNCHANGED <<peers, ping, pinged, ponged>>

-----------------------------------------------------------------------------

Next ==
    \/ begin_pass \/ scan_closed
    \/ ping_sent \/ ping_send_timeout \/ send_closed
    \/ \E p \in Peer : connect(p) \/ disconnect(p) \/ on_pong(p)
    \/ Tick

Spec == Init /\ [][Next]_vars

-----------------------------------------------------------------------------
(* Properties *)

\* Every variable has its type; a pass never takes longer than its closes,
\* sends and sleep can.
TypeOK ==
    /\ peers \subseteq Peer /\ pinged \subseteq Peer /\ ponged \subseteq Peer
    /\ ping \in [Peer -> {"none", "waiting", "answered"}]
    /\ age \in [Peer -> 0 .. AgeCap]
    /\ pass \in [at : Awaited, to : SUBSET Peer, todo : SUBSET Peer,
                 left : 0 .. ping_interval + close_timeout + send_timeout]
    /\ since_now \in 0 .. pass_limit
    /\ quiet \in 0 .. AgeCap /\ unanswered \in {Never} \cup (0 .. AgeCap)

\* A peer that has stopped answering does not stay open: a registered peer
\* has sent a PONG, or has connected, within quiet_limit, however slow the
\* closes and sends of the other peers are.
QuietBounded == watched \in peers => quiet <= quiet_limit

\* The scan closes a peer only when more than pong_timeout has passed without
\* a PONG of it, and when a PING it has not answered was sent to it at least
\* one ping_interval ago: with stale clock readings a peer is still never
\* closed for a PING it was not given.
ClosedForCause ==
    [][(watched \in peers \ peers' /\ (begin_pass \/ scan_closed))
           => quiet > pong_timeout /\ unanswered >= ping_interval]_vars

=============================================================================
