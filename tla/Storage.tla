------------------------------ MODULE Storage ------------------------------
(***************************************************************************)
(* The database of one sequencer process: core.go's transactions and       *)
(* queries, and the locks of a SQLite file that all connections of the     *)
(* process open with cache=shared (start.go:116).                          *)
(*                                                                         *)
(* SQLite is external.  With a shared cache                                *)
(*   - one connection at a time holds a write transaction, and a second    *)
(*     INSERT fails at once: no timeout applies inside a shared cache;     *)
(*   - an open cursor holds a read lock on its table; an INSERT into that  *)
(*     table fails at once, keeps the write transaction it has begun, and  *)
(*     no statement may start until the last cursor has ended;             *)
(*   - a cursor on a table with uncommitted rows fails when it is stepped, *)
(*     not when it is opened.                                              *)
(* core.go ends a transaction only by Commit: every other return leaves it *)
(* open, and database/sql never hands its connection out again.            *)
(*                                                                         *)
(* A transaction inserts into two tables, one after the other.  sequence   *)
(* and blocks are what the cache holds of them, uncommitted rows included; *)
(* saved is what the file holds.  A row is named by its transaction.       *)
(***************************************************************************)
EXTENDS Integers, Sequences, FiniteSets

CONSTANTS
  Handler,     \* goroutines that serve RPC requests
  NoTx,        \* no transaction in hand
  MaxTxs,      \* bound: transactions received by a process
  MaxFaults    \* bound: errors that come from no lock

ASSUME StorageAssumption ==
  /\ {MaxTxs, MaxFaults} \subseteq Nat
  /\ NoTx \notin Nat

VARIABLES
  sequence,    \* the table sequence
  blocks,      \* the table blocks
  saved,       \* both tables as last committed
  txn,         \* the loop's transaction: "none" | "begun" | "sequence" |
               \* "blocks", by the last table it has inserted into
  work,        \* what the loop inserts
  leak,        \* a transaction nobody will end: "no" | "open" | "table",
               \* by whether it also holds the lock of table sequence
  pending,     \* an INSERT was refused for cursors that are still open
  got,         \* got[h]: what the open cursor of h has read
  reading,     \* goroutines with an open cursor
  faults       \* errors so far

tables == <<sequence, blocks, saved>>
storageVars == <<sequence, blocks, saved, txn, work, leak, pending, got,
                 reading, faults>>

Tx == 1 .. MaxTxs

StorageTypeOK ==
  /\ sequence \in Seq(Tx) /\ blocks \in Seq(Tx)
  /\ saved \in [sequence : Seq(Tx), blocks : Seq(Tx)]
  /\ txn \in {"none", "begun", "sequence", "blocks"}
  /\ work \in Tx \cup {NoTx}
  /\ leak \in {"no", "open", "table"}
  /\ pending \in BOOLEAN
  /\ got \in [Handler -> Seq(Tx)]
  /\ reading \subseteq Handler
  /\ faults \in 0 .. MaxFaults

StorageInit ==
  /\ sequence = << >> /\ blocks = << >>
  /\ saved = [sequence |-> << >>, blocks |-> << >>]
  /\ txn = "none" /\ work = NoTx
  /\ leak = "no" /\ pending = FALSE
  /\ got = [h \in Handler |-> << >>]
  /\ reading = {}
  /\ faults = 0

-----------------------------------------------------------------------------
(* Locks.                                                                  *)

\* The rows that are committed.
rows == saved.sequence

Inserted == txn \in {"sequence", "blocks"}

\* A cursor on table sequence cannot be stepped.
MutantReadUncommitted == pending

Blocked == Inserted \/ leak = "table" \/ pending

\* The transaction is committed, or taken back.
Save == saved' = [sequence |-> sequence, blocks |-> blocks]
           /\ UNCHANGED <<sequence, blocks>>
Rollback == sequence' = saved.sequence /\ blocks' = saved.blocks
              /\ UNCHANGED saved

Fault == faults < MaxFaults /\ faults' = faults + 1

-----------------------------------------------------------------------------
(* The loop's transaction (doSequenceWork, ingestBlock).                   *)

Begin(tx) ==
  /\ txn = "none"
  /\ txn' = "begun" /\ work' = tx
  /\ UNCHANGED <<tables, leak, pending, got, reading, faults>>

\* The transaction is over for the loop, one way or the other.
Abandon == txn' = "none" /\ work' = NoTx

InsertSequence ==
  /\ txn = "begun"
  /\ leak = "no" /\ reading = {}
  /\ txn' = "sequence"
  /\ sequence' = Append(sequence, work)
  /\ UNCHANGED <<blocks, saved, work, leak, pending, got, reading, faults>>

\* The INSERT finds another write transaction, or open cursors.
MutantRolledBack ==          \* every return rolls back
  /\ txn = "begun" /\ Abandon
  /\ reading # {}
  /\ UNCHANGED <<tables, leak, pending, got, reading, faults>>

InsertRefused ==
  /\ txn = "begun"
  /\ \/ leak # "no" /\ UNCHANGED <<leak, pending>>
     \/ leak = "no" /\ reading # {} /\ leak' = "open" /\ pending' = TRUE
  /\ Abandon
  /\ UNCHANGED <<tables, got, reading, faults>>

InsertBlocks ==
  /\ txn = "sequence"
  /\ txn' = "blocks"
  /\ blocks' = Append(blocks, work)
  /\ UNCHANGED <<sequence, saved, work, leak, pending, got, reading, faults>>

Commit ==
  /\ txn = "blocks"
  /\ Save
  /\ Abandon
  /\ UNCHANGED <<leak, pending, got, reading, faults>>

\* A statement or the Commit fails for a reason of its own (a full disk);
\* SQLite may end the transaction by itself.
MutantCommitAnyway ==        \* every return commits
  /\ txn # "none" /\ leak = "no"
  /\ Fault /\ Save /\ Abandon
  /\ UNCHANGED <<leak, pending, got, reading>>

StatementFails ==
  /\ txn # "none" /\ leak = "no"
  /\ Fault
  /\ \/ Rollback /\ leak' = "no"
     \/ leak' = (IF Inserted THEN "table" ELSE "open") /\ UNCHANGED tables
  /\ Abandon
  /\ UNCHANGED <<pending, got, reading>>

-----------------------------------------------------------------------------
(* Cursors (Get, Info).                                                    *)

OpenCursor(h) ==
  /\ ~Blocked
  /\ h \notin reading
  /\ reading' = reading \cup {h}
  /\ got' = [got EXCEPT ![h] = << >>]
  /\ UNCHANGED <<tables, txn, work, leak, pending, faults>>

ReadRow(h) ==
  /\ h \in reading
  /\ Len(got[h]) < Len(sequence)
  /\ got' = [got EXCEPT ![h] = Append(@, sequence[Len(@) + 1])]
  /\ UNCHANGED <<tables, txn, work, leak, pending, reading, faults>>

\* The cursor is at its end, or was closed early; pending ends with the last.
MutantStillPending(h) ==
  /\ h \in reading
  /\ reading' = reading \ {h}
  /\ UNCHANGED <<tables, txn, work, leak, got, pending, faults>>

CloseCursor(h) ==
  /\ h \in reading
  /\ reading' = reading \ {h}
  /\ pending' = (pending /\ reading' # {})
  /\ UNCHANGED <<tables, txn, work, leak, got, faults>>

-----------------------------------------------------------------------------
\* The process is gone: what was not committed is rolled back, and a
\* database in memory goes with it.
MutantAlwaysDisk(onDisk) ==
  /\ txn' = "none" /\ work' = NoTx
  /\ leak' = "no" /\ pending' = FALSE
  /\ reading' = {} /\ got' = [h \in Handler |-> << >>]
  /\ Rollback
  /\ UNCHANGED faults

StorageRestart(onDisk) ==
  /\ txn' = "none" /\ work' = NoTx
  /\ leak' = "no" /\ pending' = FALSE
  /\ reading' = {} /\ got' = [h \in Handler |-> << >>]
  /\ saved' = IF onDisk THEN saved
                        ELSE [sequence |-> << >>, blocks |-> << >>]
  /\ sequence' = saved'.sequence /\ blocks' = saved'.blocks
  /\ UNCHANGED faults
=============================================================================
