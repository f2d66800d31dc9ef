---------------------------- MODULE MCLoadDriver ----------------------------
(***************************************************************************)
(* Values of the constants of LoadDriver for model checking a primary and  *)
(* one replica.                                                            *)
(***************************************************************************)
EXTENDS LoadDriver

CONSTANTS
  p, r1,   \* the primary and the replica
  op       \* the operator's key

MCTx        == {GenerateMockSequenceTx(op, i) : i \in 0..(NumTxs - 1)}
MCAuthentic == {tx \in MCTx : SignatureMatchesFrom(tx)}
MCExpires   == [tx \in MCTx |-> tx.expires]
MCKey       == {op}

OneReplica  == {p, r1}
MCKeyOf     == [n \in Node |-> IF n = p THEN op ELSE NoSig]
MCListening == {p}
MCWire      == [n \in Node |-> {}]
Nobody      == {}
=============================================================================
