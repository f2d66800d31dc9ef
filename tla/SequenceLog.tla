---------------------------- MODULE SequenceLog ----------------------------
(***************************************************************************)
(* What the sequencer promises its users (sequencer/mvp/README.md): one    *)
(* append-only sequence of transactions, and replicas whose copies mirror  *)
(* it.  A copy grows one entry at a time, in order, and never holds        *)
(* anything the sequence does not hold at the same place.                  *)
(***************************************************************************)
EXTENDS Naturals, Sequences

CONSTANTS
  Tx,          \* transactions
  Replica      \* holders of copies

VARIABLES
  log,         \* the sequence
  copy         \* copy[r]: the copy of replica r

vars == <<log, copy>>

Init == log = << >> /\ copy = [r \in Replica |-> << >>]

AppendTx == \E tx \in Tx : log' = Append(log, tx) /\ UNCHANGED copy

CopyNext(r) ==
  /\ Len(copy[r]) < Len(log)
  /\ copy' = [copy EXCEPT ![r] = Append(@, log[Len(@) + 1])]
  /\ UNCHANGED log

\* A replica that starts afresh builds a new copy.
Forget(r) == copy' = [copy EXCEPT ![r] = << >>] /\ UNCHANGED log

Next == AppendTx \/ \E r \in Replica : CopyNext(r) \/ Forget(r)

Spec == Init /\ [][Next]_vars
=============================================================================
