---------------------------- MODULE MCStakeNodes ----------------------------
(* Instances of StakeNodes for TLC. *)
EXTENDS StakeNodes

CONSTANTS a, b, x, y

\* The SHA-256 of "slot-1" to "slot-4", modulo 60.
MCDigest == [slot \in 1 .. MaxHeight |-> <<10, 44, 28, 14>>[slot]]

MCOrder == <<a, b>>

\* Hashes are ordered by their first difference, and by their length.
MCRank(input) ==
    <<IF input.body = x THEN 0 ELSE 1, IF input.validator_id = a THEN 0 ELSE 1, input.slot>>

MCLess(p, q) ==
    \E i \in 1 .. 3 : SubSeq(p, 1, i - 1) = SubSeq(q, 1, i - 1) /\ p[i] < q[i]

MCSortsBefore(g, h) ==
    \/ \E i \in 1 .. Len(g) : /\ i <= Len(h) /\ SubSeq(g, 1, i - 1) = SubSeq(h, 1, i - 1)
                              /\ MCLess(MCRank(g[i]), MCRank(h[i]))
    \/ Len(g) < Len(h) /\ g = SubSeq(h, 1, Len(g))

\* The same body at two times, and another body.
MCDrafts == {<<x, 1>>, <<x, 2>>, <<y, 1>>}

MCGenesis == [n \in Node |-> 1]

=============================================================================
