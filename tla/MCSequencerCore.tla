-------------------------- MODULE MCSequencerCore --------------------------
(***************************************************************************)
(* Values of the constants of SequencerCore for model checking one process *)
(* that is handed transactions, blocks from the wire, or both.             *)
(***************************************************************************)
EXTENDS SequencerCore

CONSTANTS
  n1,          \* the process
  t1,          \* a transaction without expiry conditions
  t2,          \* a transaction that expires with the first tick
  forged,      \* a transaction whose signature does not match
  odd,         \* a transaction with an unknown expiry condition
  op, other    \* the operator's key and another one

MCNode      == {n1}
MCTx        == {t1, t2, forged, odd}
MCAuthentic == {t1, t2, odd}
MCExpires   == [tx \in MCTx |-> CASE tx = t2  -> {0}
                                  [] tx = odd -> {Unknown}
                                  [] OTHER    -> {}]
MCKey       == {op, other}

\* The process signs with the operator's key.
KeyOperator == [n \in MCNode |-> op]

\* A chain of the operator, a second block of height 2 whose body does not
\* verify, and a block that somebody else has signed.
B1    == ChainedBlock(Genesis, t1, op)
B2    == ChainedBlock(B1, t2, op)
B3    == ChainedBlock(B2, t1, op)
Bad2  == ChainedBlock(B1, forged, op)
Alien == ChainedBlock(Genesis, t2, other)

WireMixed == [n \in MCNode |-> {B1, B2, B3, Bad2, Alien}]
=============================================================================
