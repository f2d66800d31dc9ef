----------------------------- MODULE MCExecuter -----------------------------
(***************************************************************************)
(* Values of the constants of Executer for model checking.                 *)
(***************************************************************************)
EXTENDS Executer

CONSTANTS
  one,         \* a transaction that reads one leaf
  both,        \* a transaction that reads two leaves
  none,        \* a transaction that reads no leaf
  garbled,     \* a transaction whose list of leaves does not parse
  a, b         \* the leaves

MCLeaf == {a, b}

MCReads == [tx \in Tx |->
             CASE tx = one  -> <<a>>
               [] tx = both -> <<a, b>>
               [] tx \in {none, garbled} -> << >>]

MCMalformed == {garbled} \cap Tx

MCTx        == {one, both, none, garbled}
OnlyOne     == {one}
=============================================================================
