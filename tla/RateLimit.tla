------------------------------ MODULE RateLimit ------------------------------
(***************************************************************************)
(* SlidingWindowRateLimiter of network/rate_limit.py, which P2PServer uses  *)
(* for connections per address and for messages per peer.  The limiter      *)
(* forgets: old events of a key when the key is asked for, and whole keys   *)
(* when nobody has asked for them for a window.  The log keeps everything   *)
(* that was admitted, so that the answers can be compared with what the     *)
(* limiter promises.                                                        *)
(***************************************************************************)
EXTENDS Integers, Sequences, FiniteSets

CONSTANTS
    Key,
    max_events,
    window_seconds,
    MaxTime, MaxRequests    \* bounds

ASSUME LimiterSettings ==
    /\ max_events \in Nat /\ window_seconds \in Nat
    /\ MaxTime \in Nat /\ MaxRequests \in Nat

VARIABLES
    now,            \* time.monotonic()
    events,         \* _events: the times kept for each key, oldest first
    last_access,    \* _last_access, or Absent
    last_prune,     \* _last_prune
    requests,       \* number of calls of allow
    answer,         \* the last call and its result
    log             \* log[k]: the times of all events of k admitted since its reset

vars == <<now, events, last_access, last_prune, requests, answer, log>>

Absent == -1

Init ==
    /\ now \in 0 .. MaxTime
    /\ events = [k \in Key |-> << >>]
    /\ last_access = [k \in Key |-> Absent]
    /\ last_prune = 0
    /\ requests = 0
    /\ answer \in [key : Key, ok : {TRUE}]
    /\ log = [k \in Key |-> << >>]

Tick ==
    /\ now < MaxTime /\ now' = now + 1
    /\ UNCHANGED <<events, last_access, last_prune, requests, answer, log>>

-----------------------------------------------------------------------------

cutoff == now - window_seconds

\* The keys _prune_stale_keys deletes before the call is looked at.
stale ==
    IF now - last_prune < window_seconds THEN {}
    ELSE {k \in Key : last_access[k] # Absent /\ last_access[k] < cutoff}

\* Mutant: an event at the edge of the window is dropped.
recent_open(times) ==
    LET keep == {i \in DOMAIN times : times[i] > cutoff}
    IN  IF keep = {} THEN << >>
        ELSE SubSeq(times, CHOOSE i \in keep : \A j \in keep : i <= j, Len(times))

\* The events that are left when those before the cutoff are popped.
recent(times) ==
    LET keep == {i \in DOMAIN times : times[i] >= cutoff}
    IN  IF keep = {} THEN << >>
        ELSE SubSeq(times, CHOOSE i \in keep : \A j \in keep : i <= j, Len(times))

\* Mutant: one event too many.
admits_one_more(times) == Len(times) <= max_events

admits(times) == Len(times) < max_events

\* Mutant: idle keys stay.
prunes_none(k) == FALSE

prunes(k) == k \in stale

allow(k) ==
    LET kept == [j \in Key |-> IF prunes(j) THEN << >> ELSE events[j]]
        times == recent(kept[k])
        ok == admits(times)
    IN
    /\ requests < MaxRequests /\ requests' = requests + 1
    /\ last_prune' = IF now - last_prune < window_seconds THEN last_prune ELSE now
    /\ last_access' = [j \in Key |-> IF j = k THEN now
                                     ELSE IF prunes(j) THEN Absent ELSE last_access[j]]
    /\ events' = [kept EXCEPT ![k] = IF ok THEN Append(times, now) ELSE times]
    /\ answer' = [key |-> k, ok |-> ok]
    /\ log' = IF ok THEN [log EXCEPT ![k] = Append(@, now)] ELSE log
    /\ UNCHANGED now

reset(k) ==
    /\ last_access[k] # Absent
    /\ events' = [events EXCEPT ![k] = << >>]
    /\ last_access' = [last_access EXCEPT ![k] = Absent]
    /\ log' = [log EXCEPT ![k] = << >>]
    /\ UNCHANGED <<now, last_prune, requests, answer>>

Next == Tick \/ \E k \in Key : allow(k) \/ reset(k)

Spec == Init /\ [][Next]_vars

-----------------------------------------------------------------------------
(* Properties *)

TypeOK ==
    /\ now \in 0 .. MaxTime /\ last_prune \in 0 .. now
    /\ events \in [Key -> Seq(0 .. now)]
    /\ \A k \in Key : Len(events[k]) <= max_events
    /\ last_access \in [Key -> {Absent} \cup (0 .. now)]
    /\ requests \in 0 .. MaxRequests
    /\ answer \in [key : Key, ok : BOOLEAN]
    /\ log \in [Key -> Seq(0 .. now)]

\* The events of a key in the closed window that ends now.
within(times) == {i \in DOMAIN times : times[i] >= cutoff}

\* What the limiter has forgotten never matters: a call is admitted exactly
\* when fewer than max_events of all the events ever admitted lie in the window.
AdmitsExactly ==
    [][requests' # requests =>
          (answer'.ok <=> Cardinality(within(log[answer'.key])) < max_events)]_vars

\* The table does not grow with every key that has ever asked: a key it holds
\* was asked for in the window before the last prune, or later.
KeysPruned ==
    \A k \in Key : /\ last_access[k] = Absent => events[k] = << >>
                   /\ last_access[k] # Absent => last_access[k] >= last_prune - window_seconds

=============================================================================
