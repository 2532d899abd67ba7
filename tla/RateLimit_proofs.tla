--------------------------- MODULE RateLimit_proofs ---------------------------
(* The limiter forgets events and keys without ever changing an answer, for  *)
(* every limit, every window and any number of keys.                         *)
EXTENDS RateLimit, PositionInduction

-----------------------------------------------------------------------------
(* What is kept of a list of times *)

Sorted(all) == \A i, j \in 1 .. Len(all) : i <= j => all[i] <= all[j]

LEMMA TimesAreNumbers ==
    ASSUME NEW S \in SUBSET Int, NEW times \in Seq(S)
    PROVE  \A i \in 1 .. Len(times) : times[i] \in Int
<1>1. \A i \in 1 .. Len(times) : times[i] \in S
    OBVIOUS
<1> QED BY <1>1

\* times is the end of all, and what was dropped is before t.
EndOf(times, all, t) ==
    /\ Len(times) <= Len(all)
    /\ \A i \in 1 .. Len(times) : times[i] = all[Len(all) - Len(times) + i]
    /\ \A i \in 1 .. Len(all) - Len(times) : all[i] < t

\* Popping the old events of a sorted list leaves its end, and all of it is recent.
LEMMA RecentIs ==
    ASSUME NEW S \in SUBSET Int, NEW times \in Seq(S), Sorted(times), cutoff \in Int
    PROVE  /\ recent(times) \in Seq(S) /\ Len(recent(times)) <= Len(times)
           /\ EndOf(recent(times), times, cutoff)
           /\ \A i \in 1 .. Len(recent(times)) : recent(times)[i] >= cutoff
<1> DEFINE keep == {i \in DOMAIN times : times[i] >= cutoff}
           n == Len(times)
<1>1. n \in Nat /\ keep \in SUBSET (1 .. n) /\ \A i \in 1 .. n : times[i] \in Int
    BY TimesAreNumbers
<1>2. CASE keep = {}
    <2>1. recent(times) = << >>
        BY <1>2 DEF recent
    <2>2. \A i \in 1 .. n : times[i] < cutoff
        BY <1>1, <1>2
    <2> QED BY <1>1, <2>1, <2>2 DEF EndOf
<1>3. CASE keep # {}
    <2> DEFINE first == CHOOSE i \in keep : \A j \in keep : i <= j
    <2>1. \E i \in keep : \A j \in keep : i <= j
        BY <1>1, <1>3, FirstPosition
    <2>2. first \in keep /\ \A j \in keep : first <= j
        BY <2>1
    <2> HIDE DEF first
    <2>3. first \in 1 .. n /\ times[first] >= cutoff
        BY <2>2
    <2>4. \A i \in 1 .. first - 1 : times[i] < cutoff
        <3>1. ASSUME NEW i \in 1 .. first - 1, ~ (times[i] < cutoff) PROVE FALSE
            <4>1. i \in 1 .. n /\ times[i] >= cutoff
                BY <1>1, <2>3, <3>1
            <4>2. first <= i
                BY <2>2, <4>1
            <4> QED BY <2>3, <4>2
        <3> QED BY <3>1
    <2>5. \A i \in first .. n : times[i] >= cutoff
        <3>1. ASSUME NEW i \in first .. n PROVE times[i] >= cutoff
            <4>1. i \in 1 .. n /\ times[first] <= times[i]
                BY <2>3 DEF Sorted
            <4> QED BY <1>1, <2>3, <4>1
        <3> QED BY <3>1
    <2> DEFINE rest == SubSeq(times, first, n)
    <2>6. /\ rest \in Seq(S) /\ Len(rest) = n - first + 1
          /\ \A i \in 1 .. Len(rest) : rest[i] = times[first + i - 1]
        BY <2>3
    <2>7. recent(times) = rest
        BY <1>3 DEF recent, first
    <2> HIDE DEF rest, n
    <2>8. n - Len(rest) = first - 1 /\ Len(rest) <= n /\ Len(rest) \in Nat
        BY <1>1, <2>3, <2>6
    <2>9. \A i \in 1 .. Len(rest) : rest[i] = times[n - Len(rest) + i] /\ rest[i] >= cutoff
        <3>1. ASSUME NEW i \in 1 .. Len(rest)
              PROVE  first + i - 1 = n - Len(rest) + i /\ first + i - 1 \in first .. n
            BY <1>1, <2>3, <2>6
        <3> QED BY <2>5, <2>6, <3>1
    <2> QED BY <2>4, <2>6, <2>7, <2>8, <2>9 DEF EndOf, n
<1> QED BY <1>2, <1>3

\* The end of an end.
LEMMA EndOfEnd ==
    ASSUME NEW S \in SUBSET Int, NEW a \in Seq(S), NEW b \in Seq(S), NEW c \in Seq(S), NEW t \in Int,
           EndOf(a, b, t), EndOf(b, c, t)
    PROVE  EndOf(a, c, t)
<1> DEFINE p == Len(a)
           q == Len(b)
           r == Len(c)
<1>1. p \in Nat /\ q \in Nat /\ r \in Nat /\ p <= q /\ q <= r
    BY DEF EndOf
<1>2. /\ \A i \in 1 .. p : a[i] = b[q - p + i]
      /\ \A i \in 1 .. q : b[i] = c[r - q + i]
      /\ \A i \in 1 .. q - p : b[i] < t
      /\ \A i \in 1 .. r - q : c[i] < t
    BY DEF EndOf
<1> HIDE DEF p, q, r
<1>3. ASSUME NEW i \in 1 .. p PROVE a[i] = c[r - p + i]
    <2>1. q - p + i \in 1 .. q /\ r - q + (q - p + i) = r - p + i
        BY <1>1
    <2> QED BY <1>2, <2>1
<1>4. ASSUME NEW i \in 1 .. r - p PROVE c[i] < t
    <2>1. CASE i <= r - q
        BY <1>1, <1>2, <2>1
    <2>2. CASE i > r - q
        <3>1. i - (r - q) \in 1 .. q - p /\ i - (r - q) \in 1 .. q /\ r - q + (i - (r - q)) = i
            BY <1>1, <2>2
        <3>2. b[i - (r - q)] < t /\ b[i - (r - q)] = c[r - q + (i - (r - q))]
            BY <1>2, <3>1
        <3> QED BY <3>1, <3>2
    <2> QED BY <1>1, <2>1, <2>2
<1>5. p <= r
    BY <1>1
<1> QED BY <1>3, <1>4, <1>5 DEF EndOf, p, q, r

\* The end of a sorted list is sorted.
LEMMA EndSorted ==
    ASSUME NEW S \in SUBSET Int, NEW a \in Seq(S), NEW b \in Seq(S), NEW t, EndOf(a, b, t), Sorted(b)
    PROVE  Sorted(a)
<1> DEFINE p == Len(a)
           q == Len(b)
<1>1. p \in Nat /\ q \in Nat /\ p <= q /\ \A i \in 1 .. p : a[i] = b[q - p + i]
    BY DEF EndOf
<1>2. ASSUME NEW i \in 1 .. p, NEW j \in 1 .. p, i <= j PROVE a[i] <= a[j]
    <2>1. q - p + i \in 1 .. q /\ q - p + j \in 1 .. q /\ q - p + i <= q - p + j
        BY <1>1, <1>2
    <2>2. b[q - p + i] <= b[q - p + j]
        BY <2>1 DEF Sorted
    <2> QED BY <1>1, <2>2
<1> QED BY <1>2 DEF Sorted

\* When the end holds what is at or after the cutoff, its length is the number
\* of events within the window.
LEMMA CountWithin ==
    ASSUME NEW S \in SUBSET Int, NEW times \in Seq(S), NEW all \in Seq(S), cutoff \in Int,
           EndOf(times, all, cutoff), \A i \in 1 .. Len(times) : times[i] >= cutoff
    PROVE  Cardinality(within(all)) = Len(times)
<1> DEFINE p == Len(times)
           q == Len(all)
<1>1. /\ p \in Nat /\ q \in Nat /\ p <= q
      /\ \A i \in 1 .. p : times[i] = all[q - p + i]
      /\ \A i \in 1 .. q - p : all[i] < cutoff
    BY DEF EndOf
<1>2. \A i \in 1 .. q : all[i] \in Int
    BY TimesAreNumbers
<1>3. ASSUME NEW i \in 1 .. q PROVE all[i] >= cutoff <=> i > q - p
    <2>1. CASE i <= q - p
        BY <1>1, <1>2, <2>1
    <2>2. CASE i > q - p
        <3>1. i - (q - p) \in 1 .. p /\ q - p + (i - (q - p)) = i
            BY <1>1, <2>2
        <3>2. times[i - (q - p)] >= cutoff
            BY <3>1
        <3> QED BY <1>1, <2>2, <3>1, <3>2
    <2> QED BY <1>1, <2>1, <2>2
<1>4. within(all) = (q - p + 1) .. q
    <2>1. within(all) = {i \in 1 .. q : all[i] >= cutoff}
        BY DEF within
    <2> HIDE DEF p, q
    <2> QED BY <1>1, <1>3, <2>1
<1>5. Cardinality((q - p + 1) .. q) = IF q - p + 1 > q THEN 0 ELSE q - (q - p + 1) + 1
    <2>1. q - p + 1 \in Int /\ q \in Int
        BY <1>1
    <2> HIDE DEF p, q
    <2> QED BY <2>1, FS_Interval
<1> HIDE DEF p, q
<1>6. Cardinality((q - p + 1) .. q) = p
    BY <1>1, <1>5
<1> QED BY <1>4, <1>6 DEF p

-----------------------------------------------------------------------------
(* The inductive invariant *)

\* What the limiter keeps of a key is the end of what it has admitted, what it
\* has dropped lies before the window, and the last access to a key is not
\* before any of its events (so a key that is pruned has no event in the window).
Remembered ==
    \A k \in Key : /\ Sorted(log[k])
                   /\ EndOf(events[k], log[k], cutoff)
                   /\ last_access[k] # Absent => \A i \in 1 .. Len(log[k]) : log[k][i] <= last_access[k]

IInv == TypeOK /\ KeysPruned /\ Remembered

LEMMA InitIInv == Init => IInv
<1> SUFFICES ASSUME Init PROVE IInv
    OBVIOUS
<1>1. TypeOK
    <2>1. answer \in [key : Key, ok : BOOLEAN]
        BY DEF Init
    <2>2. events \in [Key -> Seq(0 .. now)] /\ log \in [Key -> Seq(0 .. now)]
        BY DEF Init
    <2>3. \A k \in Key : Len(events[k]) <= max_events
        BY LimiterSettings DEF Init
    <2> QED BY <2>1, <2>2, <2>3, LimiterSettings DEF Init, TypeOK
<1>2. KeysPruned /\ Remembered
    BY DEF Init, KeysPruned, Remembered, Sorted, EndOf
<1> QED BY <1>1, <1>2 DEF IInv

\* What the tables are made of.
LEMMA Types ==
    ASSUME TypeOK
    PROVE  /\ now \in Nat /\ cutoff \in Int /\ cutoff <= now /\ last_prune \in Nat /\ last_prune <= now
           /\ (0 .. now) \in SUBSET Int /\ window_seconds \in Nat /\ max_events \in Nat
           /\ \A k \in Key : /\ events[k] \in Seq(0 .. now) /\ log[k] \in Seq(0 .. now)
                             /\ Len(events[k]) \in Nat /\ Len(log[k]) \in Nat
                             /\ \A i \in 1 .. Len(log[k]) : log[k][i] \in 0 .. now
                             /\ last_access[k] \in {Absent} \cup (0 .. now)
BY LimiterSettings DEF TypeOK, cutoff

\* Time passes: what lies before the window stays before it.
LEMMA TickIInv == IInv /\ Tick => IInv'
<1> SUFFICES ASSUME TypeOK, KeysPruned, Remembered, Tick PROVE IInv'
    BY DEF IInv
<1>1. now' = now + 1 /\ now' \in 0 .. MaxTime /\ UNCHANGED <<events, last_access, last_prune, requests, answer, log>>
    BY LimiterSettings DEF Tick, TypeOK
<1>2. Seq(0 .. now) \subseteq Seq(0 .. now') /\ (0 .. now) \subseteq (0 .. now')
    <2>1. (0 .. now) \subseteq (0 .. now')
        BY <1>1, Types
    <2> QED BY <2>1, SeqMonotone
<1>3. TypeOK'
    <2>1. last_prune' \in 0 .. now'
        BY <1>1, <1>2 DEF TypeOK
    <2>2. events' \in [Key -> Seq(0 .. now')] /\ log' \in [Key -> Seq(0 .. now')]
        BY <1>1, <1>2 DEF TypeOK
    <2>3. last_access' \in [Key -> {Absent} \cup (0 .. now')]
        BY <1>1, <1>2 DEF TypeOK
    <2> QED BY <1>1, <2>1, <2>2, <2>3 DEF TypeOK
<1>4. KeysPruned'
    BY <1>1 DEF KeysPruned
<1>5. ASSUME NEW k \in Key PROVE EndOf(events[k], log[k], now' - window_seconds)
    <2>1. EndOf(events[k], log[k], cutoff)
        BY DEF Remembered
    <2>2. \A i \in 1 .. Len(log[k]) - Len(events[k]) : log[k][i] \in Int /\ log[k][i] < cutoff
        <3>1. ASSUME NEW i \in 1 .. Len(log[k]) - Len(events[k]) PROVE i \in 1 .. Len(log[k])
            BY Types
        <3> QED BY <2>1, <3>1, Types DEF EndOf
    <2>3. cutoff < now' - window_seconds /\ cutoff \in Int /\ now' - window_seconds \in Int
        BY <1>1, Types DEF cutoff
    <2>4. \A x \in Int : x < cutoff => x < now' - window_seconds
        BY <2>3
    <2>5. \A i \in 1 .. Len(log[k]) - Len(events[k]) : log[k][i] < now' - window_seconds
        BY <2>2, <2>4
    <2> QED BY <2>1, <2>5 DEF EndOf
<1>6. cutoff' = now' - window_seconds
    BY DEF cutoff
<1>7. Remembered'
    BY <1>1, <1>5, <1>6 DEF Remembered
<1> QED BY <1>3, <1>4, <1>7 DEF IInv

\* A key is reset: nothing is kept of it and nothing is counted.
LEMMA ResetIInv == \A k \in Key : IInv /\ reset(k) => IInv'
<1> SUFFICES ASSUME NEW k \in Key, TypeOK, KeysPruned, Remembered, reset(k) PROVE IInv'
    BY DEF IInv
<1>1. /\ events' = [events EXCEPT ![k] = << >>] /\ last_access' = [last_access EXCEPT ![k] = Absent]
      /\ log' = [log EXCEPT ![k] = << >>] /\ UNCHANGED <<now, last_prune, requests, answer>>
    BY DEF reset
<1>2. TypeOK'
    BY <1>1, Types DEF TypeOK
<1>3. KeysPruned'
    BY <1>1 DEF KeysPruned, TypeOK
<1>4. Sorted(<< >>) /\ EndOf(<< >>, << >>, cutoff)
    BY DEF Sorted, EndOf
<1>5. ASSUME NEW j \in Key
      PROVE  /\ Sorted(log'[j]) /\ EndOf(events'[j], log'[j], cutoff)
             /\ last_access'[j] # Absent => \A i \in 1 .. Len(log'[j]) : log'[j][i] <= last_access'[j]
    <2>1. CASE j = k
        BY <1>1, <1>4, <2>1 DEF TypeOK
    <2>2. CASE j # k
        BY <1>1, <2>2 DEF TypeOK, Remembered
    <2> QED BY <2>1, <2>2
<1>6. Remembered'
    BY <1>1, <1>5 DEF Remembered, cutoff
<1> QED BY <1>2, <1>3, <1>6 DEF IInv

\* What is left of a key after the pruning.
Kept(k) == IF prunes(k) THEN << >> ELSE events[k]

\* Pruning a key drops nothing that is in the window.
LEMMA KeptIs ==
    ASSUME IInv, NEW k \in Key
    PROVE  /\ Kept(k) \in Seq(0 .. now) /\ Len(Kept(k)) <= max_events /\ Sorted(Kept(k))
           /\ EndOf(Kept(k), log[k], cutoff)
<1>1. /\ Sorted(log[k]) /\ EndOf(events[k], log[k], cutoff) /\ TypeOK
      /\ last_access[k] # Absent => \A i \in 1 .. Len(log[k]) : log[k][i] <= last_access[k]
    BY DEF IInv, Remembered
<1>2. /\ events[k] \in Seq(0 .. now) /\ log[k] \in Seq(0 .. now) /\ (0 .. now) \in SUBSET Int
      /\ cutoff \in Int /\ max_events \in Nat /\ last_access[k] \in {Absent} \cup (0 .. now)
      /\ \A i \in 1 .. Len(log[k]) : log[k][i] \in 0 .. now
    BY <1>1, Types
<1>3. CASE prunes(k)
    <2>1. last_access[k] # Absent /\ last_access[k] < cutoff
        BY <1>3 DEF prunes, stale
    <2>2. \A i \in 1 .. Len(log[k]) : log[k][i] < cutoff
        BY <1>1, <1>2, <2>1 DEF Absent
    <2>3. EndOf(<< >>, log[k], cutoff) /\ Sorted(<< >>)
        BY <1>2, <2>2 DEF EndOf, Sorted
    <2> QED BY <1>2, <1>3, <2>3 DEF Kept
<1>4. CASE ~ prunes(k)
    <2>1. Sorted(events[k])
        BY <1>1, <1>2, EndSorted
    <2> QED BY <1>1, <1>2, <1>4, <2>1 DEF Kept, TypeOK
<1> QED BY <1>3, <1>4

\* What allow looks at is exactly what lies in the window.
LEMMA AllowSees ==
    ASSUME IInv, NEW k \in Key
    PROVE  /\ recent(Kept(k)) \in Seq(0 .. now) /\ Len(recent(Kept(k))) <= max_events
           /\ EndOf(recent(Kept(k)), log[k], cutoff)
           /\ Cardinality(within(log[k])) = Len(recent(Kept(k)))
<1> DEFINE times == Kept(k)
<1>1. /\ (0 .. now) \in SUBSET Int /\ cutoff \in Int /\ log[k] \in Seq(0 .. now) /\ max_events \in Nat
    BY Types DEF IInv
<1>2. /\ times \in Seq(0 .. now) /\ Len(times) <= max_events /\ Sorted(times)
      /\ EndOf(times, log[k], cutoff)
    BY KeptIs
<1> HIDE DEF times
<1>3. /\ recent(times) \in Seq(0 .. now) /\ Len(recent(times)) <= Len(times)
      /\ EndOf(recent(times), times, cutoff)
      /\ \A i \in 1 .. Len(recent(times)) : recent(times)[i] >= cutoff
    BY <1>1, <1>2, RecentIs
<1>4. EndOf(recent(times), log[k], cutoff)
    BY <1>1, <1>2, <1>3, EndOfEnd
<1>5. Cardinality(within(log[k])) = Len(recent(times))
    BY <1>1, <1>3, <1>4, CountWithin
<1>6. Len(recent(times)) <= max_events
    BY <1>1, <1>2, <1>3
<1> QED BY <1>3, <1>4, <1>5, <1>6 DEF times

\* One more event at the end of both lists, not before any other.
LEMMA EndOfAppend ==
    ASSUME NEW S \in SUBSET Int, NEW a \in Seq(S), NEW b \in Seq(S), NEW t \in Int, NEW x \in S,
           EndOf(a, b, t), Sorted(b), \A i \in 1 .. Len(b) : b[i] <= x
    PROVE  EndOf(Append(a, x), Append(b, x), t) /\ Sorted(Append(b, x))
<1> DEFINE p == Len(a)
           q == Len(b)
           ax == Append(a, x)
           bx == Append(b, x)
<1>1. p \in Nat /\ q \in Nat /\ p <= q /\ (\A i \in 1 .. p : a[i] = b[q - p + i])
      /\ \A i \in 1 .. q - p : b[i] < t
    BY DEF EndOf
<1>2. /\ Len(ax) = p + 1 /\ ax[p + 1] = x /\ \A i \in 1 .. p : ax[i] = a[i]
      /\ Len(bx) = q + 1 /\ bx[q + 1] = x /\ \A i \in 1 .. q : bx[i] = b[i]
    OBVIOUS
<1>3. x <= x
    OBVIOUS
<1>4. \A i, j \in 1 .. q : i <= j => b[i] <= b[j]
    BY DEF Sorted
<1>5. \A i \in 1 .. q : b[i] <= x
    OBVIOUS
<1> HIDE DEF p, q, ax, bx
<1>6. ASSUME NEW i \in 1 .. p + 1 PROVE ax[i] = bx[(q + 1) - (p + 1) + i]
    <2>1. CASE i = p + 1
        <3>1. (q + 1) - (p + 1) + i = q + 1
            BY <1>1, <2>1
        <3> QED BY <1>2, <2>1, <3>1
    <2>2. CASE i # p + 1
        <3>1. i \in 1 .. p /\ (q + 1) - (p + 1) + i = q - p + i /\ q - p + i \in 1 .. q
            BY <1>1, <2>2
        <3> QED BY <1>1, <1>2, <3>1
    <2> QED BY <2>1, <2>2
<1>7. ASSUME NEW i \in 1 .. (q + 1) - (p + 1) PROVE bx[i] < t
    <2>1. i \in 1 .. q - p /\ i \in 1 .. q
        BY <1>1
    <2> QED BY <1>1, <1>2, <2>1
<1>8. ASSUME NEW i \in 1 .. q + 1, NEW j \in 1 .. q + 1, i <= j PROVE bx[i] <= bx[j]
    <2>1. CASE j = q + 1
        <3>1. i = q + 1 \/ i \in 1 .. q
            BY <1>1
        <3> QED BY <1>2, <1>3, <1>5, <2>1, <3>1
    <2>2. CASE j # q + 1
        <3>1. j \in 1 .. q /\ i \in 1 .. q
            BY <1>1, <1>8, <2>2
        <3> QED BY <1>2, <1>4, <1>8, <3>1
    <2> QED BY <2>1, <2>2
<1>9. p + 1 <= q + 1
    BY <1>1
<1>10. EndOf(ax, bx, t)
    BY <1>2, <1>6, <1>7, <1>9 DEF EndOf
<1>11. Sorted(bx)
    BY <1>2, <1>8 DEF Sorted
<1> QED BY <1>10, <1>11 DEF ax, bx

\* What a call of allow does, with what it looks at called seen.
LEMMA AllowDoes ==
    ASSUME NEW k \in Key, allow(k)
    PROVE  LET seen == recent(Kept(k)) IN
           /\ requests < MaxRequests /\ requests' = requests + 1
           /\ last_prune' = IF now - last_prune < window_seconds THEN last_prune ELSE now
           /\ last_access' = [j \in Key |-> IF j = k THEN now
                                            ELSE IF prunes(j) THEN Absent ELSE last_access[j]]
           /\ events' = [j \in Key |-> IF j # k THEN Kept(j)
                                       ELSE IF admits(seen) THEN Append(seen, now) ELSE seen]
           /\ answer' = [key |-> k, ok |-> admits(seen)]
           /\ log' = IF admits(seen) THEN [log EXCEPT ![k] = Append(log[k], now)] ELSE log
           /\ now' = now
BY DEF allow, Kept

LEMMA AllowIInv == \A k \in Key : IInv /\ allow(k) => IInv'
<1> SUFFICES ASSUME NEW k \in Key, IInv, allow(k) PROVE IInv'
    OBVIOUS
<1> DEFINE seen == recent(Kept(k))
           ok == admits(seen)
           S == 0 .. now
<1>1. /\ requests < MaxRequests /\ requests' = requests + 1
      /\ last_prune' = IF now - last_prune < window_seconds THEN last_prune ELSE now
      /\ last_access' = [j \in Key |-> IF j = k THEN now
                                       ELSE IF prunes(j) THEN Absent ELSE last_access[j]]
      /\ events' = [j \in Key |-> IF j # k THEN Kept(j)
                                  ELSE IF ok THEN Append(seen, now) ELSE seen]
      /\ answer' = [key |-> k, ok |-> ok]
      /\ log' = IF ok THEN [log EXCEPT ![k] = Append(log[k], now)] ELSE log
      /\ now' = now
    BY AllowDoes
<1>2. /\ seen \in Seq(S) /\ Len(seen) <= max_events /\ EndOf(seen, log[k], cutoff)
    BY AllowSees
<1>3. ok <=> Len(seen) < max_events
    BY DEF admits
<1>4. ok \in BOOLEAN
    BY DEF admits
<1>5. TypeOK /\ KeysPruned /\ Remembered
    BY DEF IInv
<1>6. /\ now \in Nat /\ now \in S /\ S \in SUBSET Int /\ cutoff \in Int /\ cutoff <= now
      /\ last_prune \in Nat /\ last_prune <= now /\ window_seconds \in Nat /\ max_events \in Nat
      /\ cutoff = now - window_seconds
    BY <1>5, Types DEF cutoff
<1>7. \A j \in Key : /\ log[j] \in Seq(S) /\ last_access[j] \in {Absent} \cup S
                     /\ Kept(j) \in Seq(S) /\ Len(Kept(j)) <= max_events
                     /\ EndOf(Kept(j), log[j], cutoff)
    BY <1>5, Types, KeptIs
<1> HIDE DEF seen, ok, S
<1>8. /\ Append(seen, now) \in Seq(S) /\ Append(log[k], now) \in Seq(S)
      /\ ok => Len(Append(seen, now)) <= max_events
    BY <1>2, <1>3, <1>6, <1>7
<1>9. TypeOK'
    <2>1. events' \in [Key -> Seq(S)] /\ \A j \in Key : Len(events'[j]) <= max_events
        BY <1>1, <1>2, <1>7, <1>8
    <2>2. log' \in [Key -> Seq(S)]
        BY <1>1, <1>5, <1>8 DEF TypeOK, S
    <2>3. last_access' \in [Key -> {Absent} \cup S]
        BY <1>1, <1>6, <1>7
    <2>4. last_prune' \in S /\ requests' \in 0 .. MaxRequests /\ now \in 0 .. MaxTime
        BY <1>1, <1>5, <1>6, LimiterSettings DEF TypeOK, S
    <2>5. answer' \in [key : Key, ok : BOOLEAN]
        BY <1>1, <1>4
    <2> QED BY <1>1, <2>1, <2>2, <2>3, <2>4, <2>5 DEF TypeOK, S
<1>10. KeysPruned'
    <2>1. ASSUME NEW j \in Key
          PROVE  /\ last_access'[j] = Absent => events'[j] = << >>
                 /\ last_access'[j] # Absent => last_access'[j] >= last_prune' - window_seconds
        <3>1. CASE j = k
            <4>1. last_access'[j] = now /\ now # Absent
                BY <1>1, <1>6, <3>1 DEF Absent
            <4>2. now >= last_prune' - window_seconds
                BY <1>1, <1>6
            <4> QED BY <4>1, <4>2
        <3>2. CASE j # k /\ prunes(j)
            <4>1. last_access'[j] = Absent /\ events'[j] = << >>
                BY <1>1, <3>2 DEF Kept
            <4> QED BY <4>1
        <3>3. CASE j # k /\ ~ prunes(j)
            <4>1. last_access'[j] = last_access[j] /\ events'[j] = events[j]
                BY <1>1, <3>3 DEF Kept
            <4>2. CASE now - last_prune < window_seconds
                BY <1>1, <1>5, <4>1, <4>2 DEF KeysPruned
            <4>3. CASE ~ (now - last_prune < window_seconds)
                <5>1. last_access[j] # Absent => ~ (last_access[j] < cutoff)
                    BY <3>3, <4>3 DEF prunes, stale
                <5>2. last_prune' = now
                    BY <1>1, <4>3
                <5>3. last_access[j] # Absent => last_access[j] >= now - window_seconds
                    BY <1>6, <1>7, <5>1 DEF S
                <5> QED BY <1>5, <4>1, <5>2, <5>3 DEF KeysPruned
            <4> QED BY <4>2, <4>3
        <3> QED BY <3>1, <3>2, <3>3
    <2> QED BY <2>1 DEF KeysPruned
<1>11. Remembered'
    <2>1. ASSUME NEW j \in Key
          PROVE  /\ Sorted(log'[j]) /\ EndOf(events'[j], log'[j], cutoff)
                 /\ last_access'[j] # Absent => \A i \in 1 .. Len(log'[j]) : log'[j][i] <= last_access'[j]
        <3>1. /\ Sorted(log[j]) /\ EndOf(events[j], log[j], cutoff)
              /\ last_access[j] # Absent => \A i \in 1 .. Len(log[j]) : log[j][i] <= last_access[j]
            BY <1>5 DEF Remembered
        <3>2. CASE j # k
            <4>1. log'[j] = log[j] /\ events'[j] = Kept(j)
                BY <1>1, <1>5, <3>2 DEF TypeOK
            <4>2. last_access'[j] = Absent \/ last_access'[j] = last_access[j]
                BY <1>1, <3>2
            <4> QED BY <1>7, <3>1, <4>1, <4>2
        <3>3. CASE j = k
            <4>1. last_access'[j] = now
                BY <1>1, <3>3
            <4>2. \A i \in 1 .. Len(log[k]) : log[k][i] <= now
                BY <1>6, <1>7 DEF S
            <4>3. CASE ok
                <5>1. log'[j] = Append(log[k], now) /\ events'[j] = Append(seen, now)
                    BY <1>1, <1>5, <3>3, <4>3 DEF TypeOK
                <5>2. EndOf(Append(seen, now), Append(log[k], now), cutoff) /\ Sorted(Append(log[k], now))
                    BY <1>2, <1>6, <1>7, <3>1, <3>3, <4>2, EndOfAppend
                <5>3. \A i \in 1 .. Len(Append(log[k], now)) : Append(log[k], now)[i] <= now
                    <6>1. log[k] \in Seq(S) /\ now <= now
                        BY <1>6, <1>7
                    <6>2. \A i \in 1 .. Len(log[k]) + 1 : Append(log[k], now)[i] = IF i = Len(log[k]) + 1 THEN now ELSE log[k][i]
                        BY <6>1
                    <6>3. Len(Append(log[k], now)) = Len(log[k]) + 1 /\ Len(log[k]) \in Nat
                        BY <6>1
                    <6> QED BY <4>2, <6>1, <6>2, <6>3
                <5> QED BY <4>1, <5>1, <5>2, <5>3
            <4>4. CASE ~ ok
                <5>1. log'[j] = log[k] /\ events'[j] = seen
                    BY <1>1, <3>3, <4>4
                <5> QED BY <1>2, <3>1, <3>3, <4>1, <4>2, <5>1
            <4> QED BY <4>3, <4>4
        <3> QED BY <3>2, <3>3
    <2>2. cutoff' = cutoff
        BY <1>1 DEF cutoff
    <2> QED BY <2>1, <2>2 DEF Remembered
<1> QED BY <1>9, <1>10, <1>11 DEF IInv

LEMMA NextIInv == IInv /\ [Next]_vars => IInv'
<1> SUFFICES ASSUME IInv, [Next]_vars PROVE IInv'
    OBVIOUS
<1>1. CASE UNCHANGED vars
    BY <1>1 DEF vars, IInv, TypeOK, KeysPruned, Remembered, cutoff
<1> QED BY <1>1, TickIInv, AllowIInv, ResetIInv DEF Next

LEMMA IInvAlways == Spec => []IInv
BY InitIInv, NextIInv, PTL DEF Spec

-----------------------------------------------------------------------------
(* The theorems *)

\* The tables keep their types and no key holds more than max_events events.
THEOREM TypeCorrect == Spec => []TypeOK
BY IInvAlways, PTL DEF IInv

\* The table does not grow with the keys that have ever asked.
THEOREM KeysArePruned == Spec => []KeysPruned
BY IInvAlways, PTL DEF IInv

\* The limiter answers as if it had forgotten nothing: neither the popping of
\* old events nor the pruning of whole keys ever lets a call through, or turns
\* one away, that the full history would not.
THEOREM AnswersAreExact == Spec => AdmitsExactly
<1> DEFINE Exact == requests' # requests =>
                        (answer'.ok <=> Cardinality(within(log[answer'.key])) < max_events)
<1>1. IInv /\ [Next]_vars => [Exact]_vars
    <2> SUFFICES ASSUME IInv, Next PROVE Exact
        OBVIOUS
    <2>1. ASSUME NEW k \in Key, allow(k) PROVE Exact
        <3>1. answer'.key = k /\ (answer'.ok <=> admits(recent(Kept(k))))
            BY <2>1, AllowDoes
        <3>2. Cardinality(within(log[k])) = Len(recent(Kept(k)))
            BY AllowSees
        <3> QED BY <3>1, <3>2 DEF admits
    <2>2. Tick => requests' = requests
        BY DEF Tick
    <2>3. \A k \in Key : reset(k) => requests' = requests
        BY DEF reset
    <2> QED BY <2>1, <2>2, <2>3 DEF Next
<1> QED BY <1>1, IInvAlways, PTL DEF Spec, AdmitsExactly

=============================================================================
