----------------------------- MODULE MCPeerLinks -----------------------------
(* Instances of PeerLinks for TLC. *)
EXTENDS PeerLinks

CONSTANTS u1, u2, c1, c2, c3

MCRank == [u \in Url |-> IF u = u1 THEN 1 ELSE 2]

OneBootstrap == <<u1>>
BothUrls == {<<u1, u2>>}

=============================================================================
