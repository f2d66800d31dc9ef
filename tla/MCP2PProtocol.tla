--------------------------- MODULE MCP2PProtocol ---------------------------
(***************************************************************************)
(* Values of the constants of P2PProtocol for model checking.              *)
(***************************************************************************)
EXTENDS P2PProtocol

CONSTANTS p, r   \* two hosts

MCNode == {p, r}

\* The first host is told of the other and gossips three blocks; the other
\* one gossips one.
MCMaxGossip == [n \in MCNode |-> IF n = p THEN 3 ELSE 1]
MCBootstrap == [n \in MCNode |-> IF n = p THEN <<r>> ELSE << >>]

\* The second block of the first host is too long.
MCUnreadable == {<<p, 2>>}
=============================================================================
