------------------------------- MODULE Ledgers -------------------------------
(***************************************************************************)
(* What the nodes promise about their chains, without messages, sessions   *)
(* or tasks: every node holds a valid chain, which changes only by one     *)
(* valid block on top of it or by giving way to a valid chain that the     *)
(* fork choice prefers.  ChainSync implements this specification.          *)
(***************************************************************************)
EXTENDS Integers, Sequences

CONSTANTS
    Node,
    Valid(_),       \* the chain passes verify_chain
    Beats(_, _)     \* the fork choice prefers the first chain to the second

VARIABLE chain      \* chain[n]: the chain of node n

Init == chain = [n \in Node |-> << >>]

\* One more block, mined here or received.
Extend(n) ==
    /\ Len(chain'[n]) = Len(chain[n]) + 1
    /\ chain[n] = SubSeq(chain'[n], 1, Len(chain[n]))
    /\ Valid(chain'[n])

\* Another chain; an empty one gives way to any valid chain.
Adopt(n) ==
    /\ Valid(chain'[n])
    /\ chain[n] = << >> \/ Beats(chain'[n], chain[n])

Next ==
    \E n \in Node : /\ Extend(n) \/ Adopt(n)
                    /\ chain' = [chain EXCEPT ![n] = chain'[n]]

Spec == Init /\ [][Next]_chain

=============================================================================
