----------------------------- MODULE MCChainSync -----------------------------
(* Instances of ChainSync for TLC. *)
EXTENDS ChainSync, TLC

CONSTANTS a, b, c1, x, y

\* Nonce k gives k + 1 leading zeros, so mining at difficulty d takes nonce d - 1.
MCLeadingZeros(hash) == hash[Len(hash)].nonce + 1

\* Every connection is dialled by a.
MCDialer == [c \in Conn |-> a]
MCAcceptor == [c \in Conn |-> b]

\* Bodies are only ever compared.
BodySymmetry == Permutations(Bodies)

Batch1 == [n \in Node |-> 1]
Batch2 == [n \in Node |-> 2]
Batch3 == [n \in Node |-> 3]

=============================================================================
