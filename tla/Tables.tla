------------------------------- MODULE Tables -------------------------------
(***************************************************************************)
(* What the database of one sequencer process promises: rows are appended  *)
(* and never changed; once a transaction has been left open nothing more   *)
(* is appended until the process is started again; and a restart keeps the *)
(* rows of a database on disk and loses those of one in memory.            *)
(***************************************************************************)
EXTENDS Naturals, Sequences

CONSTANT Tx    \* transactions

VARIABLES
  rows,        \* the committed rows
  locked,      \* a transaction is open that nobody will end
  onDisk       \* the database is a file

vars == <<rows, locked, onDisk>>

Init == rows = << >> /\ locked = FALSE /\ onDisk \in BOOLEAN

AppendRow ==
  /\ ~locked
  /\ \E tx \in Tx : rows' = Append(rows, tx)
  /\ UNCHANGED <<locked, onDisk>>

LockUp == locked' = TRUE /\ UNCHANGED <<rows, onDisk>>

Restart ==
  /\ locked' = FALSE
  /\ rows' = IF onDisk THEN rows ELSE << >>
  /\ UNCHANGED onDisk

Next == AppendRow \/ LockUp \/ Restart

Spec == Init /\ [][Next]_vars
=============================================================================
