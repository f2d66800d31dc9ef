--------------------------- MODULE MCReplication ---------------------------
(***************************************************************************)
(* Values of the constants of Replication for model checking a primary     *)
(* with one replica.                                                       *)
(***************************************************************************)
EXTENDS Replication

CONSTANTS
  p, r1,       \* the primary and the replica
  t1, t2,      \* transactions
  op, other    \* the operator's key and a stranger's

MCTx      == {t1, t2}
MCExpires == [tx \in MCTx |-> IF tx = t2 THEN {0} ELSE {}]  \* t2 expires
MCKey     == {op, other}

OneReplica  == {p, r1}
MCKeyOf     == [n \in Node |-> IF n = p THEN op ELSE NoSig]
MCListening == {p}
MCWire      == [n \in Node |-> {}]

\* What strangers publish: a first block signed with their own key.
NoStray  == {}
OneStray == {ChainedBlock(Genesis, t2, other)}

Nobody       == {}
TheReplicas  == Node \ {p}
ThePrimary   == {p}
Anybody      == Node
=============================================================================
