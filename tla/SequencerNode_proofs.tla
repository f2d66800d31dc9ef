------------------------ MODULE SequencerNode_proofs ------------------------
(***************************************************************************)
(* Proofs about SequencerNode: its types, what queries read, what the      *)
(* listener is handed, and that the database does what Tables says; for    *)
(* any number of handlers, transactions, failures and restarts.            *)
(***************************************************************************)
EXTENDS SequencerNode, SequenceLemmas

-----------------------------------------------------------------------------
(* The strengthening.  The cache differs from the file by what the loop's  *)
(* transaction has inserted, or by what one left open has.                 *)
InStep ==
  /\ sequence = IF txn \in {"sequence", "blocks"}
                THEN Append(saved.sequence, work) ELSE saved.sequence
  /\ blocks = IF txn = "blocks" THEN Append(saved.blocks, work)
                                ELSE saved.blocks

(* The loop has something to insert, and a transaction that has inserted   *)
(* is the only one: no other is left open, and no cursor is there.         *)
OneWriter ==
  /\ leak # "table" => InStep
  /\ txn # "none" => work \in Tx
  /\ Inserted => leak = "no"
  /\ Inserted \/ leak = "table" => reading = {}

(* How far main is: before the servers the process has taken nothing, and  *)
(* its listener is there before they are.                                  *)
Boots ==
  /\ main \in {"execute", "new", "notify", "hook", "servers"}
       => ~rpc /\ parked = << >> /\ txn = "none" /\ handed = << >>
          /\ boot = Len(rows)
  /\ main \in {"servers", "wait"} => mode = "primary" /\ listener
  /\ main = "listening" => mode = "replica"

StorageInv ==
  StorageTypeOK /\ OneWriter /\ TablesAgree /\ ReadsCommitted

NodeInv == TypeOK /\ StorageInv /\ Boots /\ CommittedIsHanded

-----------------------------------------------------------------------------
LEMMA Bounds == MaxTxs \in Nat /\ MaxFaults \in Nat /\ MaxRestarts \in Nat
BY StorageAssumption, SequencerNodeAssumption

THEOREM InitNodeInv == Init => NodeInv
<1> SUFFICES ASSUME Init PROVE NodeInv
  OBVIOUS
<1> USE DEF Init, StorageInit
<1>1. TypeOK
  <2>1. << >> \in Seq(Tx) /\ Len(<< >>) = 0
    BY EmptySeq
  <2>2. /\ 0 \in 0 .. MaxTxs /\ 0 \in 0 .. MaxRestarts /\ 0 \in 0 .. MaxFaults
    BY Bounds
  <2>3. StorageTypeOK
    BY <2>1, <2>2 DEF StorageTypeOK
  <2>4. boot \in 0 .. Len(rows)
    BY <2>1 DEF rows
  <2> QED BY <2>1, <2>2, <2>3, <2>4 DEF TypeOK, Main, Built
<1>2. OneWriter /\ TablesAgree
  BY DEF OneWriter, InStep, Inserted, TablesAgree
<1>3. ReadsCommitted
  BY DEF ReadsCommitted
<1>4. Boots
  BY EmptySeq DEF Boots, rows
<1>5. CommittedIsHanded
  BY DEF CommittedIsHanded, Built
<1> QED BY <1>1, <1>2, <1>3, <1>4, <1>5 DEF NodeInv, StorageInv, TypeOK

-----------------------------------------------------------------------------
(* What a step of the process does to the database: one operation of       *)
(* Storage, or nothing.                                                    *)
Grow == InsertSequence \/ InsertBlocks \/ Commit
Fail == InsertRefused \/ StatementFails
Cursors(h) == OpenCursor(h) \/ ReadRow(h) \/ CloseCursor(h)

StorageNext ==
  \/ UNCHANGED storageVars
  \/ \E tx \in Tx : Begin(tx)
  \/ Grow \/ Fail
  \/ \E h \in Handler : Cursors(h)
  \/ StorageRestart(onDisk)

LEMMA StepsOfStorage ==
  ASSUME TypeOK, [Next]_vars
  PROVE  StorageNext /\ UNCHANGED envVars
<1> USE DEF StorageNext, Grow, Fail, Cursors
<1>1. CASE MainStep \/ SignalStep \/ Signal
  BY <1>1 DEF MainStep, SignalStep, Signal, Execute, NewSequencerNode,
       SignalNotify, Hook, StartServers, CloseNode, Exit
<1>2. CASE ReceiveTx
  <2>1. Head(parked) \in Tx
    BY <1>2, HeadTailProperties DEF ReceiveTx, TypeOK
  <2> QED BY <1>2, <2>1 DEF ReceiveTx
<1>3. CASE TxnStep
  BY <1>3 DEF TxnStep, Insert, Chain
<1>4. CASE Restart
  BY <1>4 DEF Restart
<1>5. CASE \E tx \in Tx : AppendCall(tx) \/ ReceiveBlock(tx)
  BY <1>5 DEF AppendCall, ReceiveBlock
<1>6. CASE \E h \in Handler : OpenQuery(h) \/ QueryStep(h)
  BY <1>6 DEF OpenQuery, QueryStep, StepQuery, EndQuery
<1>7. CASE UNCHANGED vars
  BY <1>7 DEF vars, storageVars, envVars
<1> QED BY <1>1, <1>2, <1>3, <1>4, <1>5, <1>6, <1>7 DEF Next, LoopStep

-----------------------------------------------------------------------------
(* The invariant of the database.                                          *)

LEMMA StorageTypes ==
  ASSUME StorageInv, StorageNext
  PROVE  StorageTypeOK'
<1> USE DEF StorageInv, StorageTypeOK
<1>1. CASE UNCHANGED storageVars
  BY <1>1 DEF storageVars
<1>2. CASE \E tx \in Tx : Begin(tx)
  BY <1>2 DEF Begin, tables
<1>3. CASE InsertSequence \/ InsertBlocks
  <2>1. work \in Tx
    BY <1>3 DEF OneWriter, InsertSequence, InsertBlocks
  <2>2. Append(sequence, work) \in Seq(Tx) /\ Append(blocks, work) \in Seq(Tx)
    BY <2>1, AppendProperties
  <2> QED BY <1>3, <2>2 DEF InsertSequence, InsertBlocks
<1>4. CASE Commit
  BY <1>4 DEF Commit, Abandon, Save
<1>5. CASE InsertRefused
  BY <1>5 DEF InsertRefused, Abandon, tables
<1>6. CASE StatementFails
  <2>1. faults' \in 0 .. MaxFaults
    BY <1>6, Bounds DEF StatementFails, Fault
  <2> QED BY <1>6, <2>1 DEF StatementFails, Abandon, Rollback, tables
<1>7. ASSUME NEW h \in Handler, OpenCursor(h) PROVE StorageTypeOK'
  <2>1. << >> \in Seq(Tx)
    BY EmptySeq
  <2> QED BY <1>7, <2>1 DEF OpenCursor, tables
<1>8. ASSUME NEW h \in Handler, ReadRow(h) PROVE StorageTypeOK'
  <2>1. Append(got[h], sequence[Len(got[h]) + 1]) \in Seq(Tx)
    <3>1. got[h] \in Seq(Tx) /\ Len(got[h]) + 1 \in 1 .. Len(sequence)
      BY <1>8, LenProperties DEF ReadRow
    <3>2. sequence[Len(got[h]) + 1] \in Tx
      BY <3>1, ElementOfSeq
    <3> QED BY <3>1, <3>2, AppendProperties
  <2> QED BY <1>8, <2>1 DEF ReadRow, tables
<1>9. ASSUME NEW h \in Handler, CloseCursor(h) PROVE StorageTypeOK'
  <2>1. pending' \in BOOLEAN
    BY <1>9 DEF CloseCursor
  <2> QED BY <1>9, <2>1 DEF CloseCursor, tables
<1>10. CASE StorageRestart(onDisk)
  <2>1. << >> \in Seq(Tx)
    BY EmptySeq
  <2> QED BY <1>10, <2>1 DEF StorageRestart
<1> QED BY <1>1, <1>2, <1>3, <1>4, <1>5, <1>6, <1>7, <1>8, <1>9, <1>10
         DEF StorageNext, Grow, Fail, Cursors

LEMMA OneWriterKept ==
  ASSUME StorageInv, StorageNext
  PROVE  OneWriter'
<1> USE DEF StorageInv, OneWriter, InStep, Inserted, StorageTypeOK
<1>1. CASE UNCHANGED storageVars
  BY <1>1 DEF storageVars
<1>2. CASE \E tx \in Tx : Begin(tx)
  BY <1>2 DEF Begin, tables
<1>3. CASE Grow
  BY <1>3 DEF Grow, InsertSequence, InsertBlocks, Commit, Save, Abandon
<1>4. CASE Fail
  BY <1>4 DEF Fail, InsertRefused, StatementFails, Rollback, Abandon, tables
<1>5. CASE \E h \in Handler : Cursors(h)
  BY <1>5 DEF Cursors, OpenCursor, ReadRow, CloseCursor, Blocked, tables
<1>6. CASE StorageRestart(onDisk)
  BY <1>6 DEF StorageRestart
<1> QED BY <1>1, <1>2, <1>3, <1>4, <1>5, <1>6 DEF StorageNext

(* A commit adds to the file what the loop has inserted: it is the only    *)
(* transaction.                                                            *)
LEMMA CommitAppends ==
  ASSUME StorageInv, Commit
  PROVE  work \in Tx /\ leak = "no" /\ rows' = Append(rows, work)
BY DEF StorageInv, OneWriter, InStep, Inserted, Commit, Save, rows

(* A commit adds the same row to both tables, and what a failure leaves in *)
(* the cache reaches the file no more.                                     *)
LEMMA AgreeKept ==
  ASSUME StorageInv, StorageNext
  PROVE  TablesAgree'
<1> USE DEF StorageInv, TablesAgree
<1>1. CASE Commit
  BY <1>1 DEF Commit, Save, OneWriter, InStep, Inserted
<1>2. CASE StorageRestart(onDisk)
  BY <1>2 DEF StorageRestart
<1>3. CASE saved' = saved
  BY <1>3
<1> QED BY <1>1, <1>2, <1>3
        DEF StorageNext, Grow, Fail, Cursors, Begin, InsertSequence,
            InsertBlocks, InsertRefused, StatementFails, Rollback, OpenCursor,
            ReadRow, CloseCursor, storageVars, tables

(* A cursor that stays open while a row is added would see it half way;    *)
(* OneWriter is why there is none.                                         *)
LEMMA ReadsKept ==
  ASSUME StorageInv, StorageNext
  PROVE  ReadsCommitted'
<1> USE DEF StorageInv, StorageTypeOK, ReadsCommitted, rows
<1>1. CASE UNCHANGED storageVars
  BY <1>1 DEF storageVars
<1>2. CASE \E tx \in Tx : Begin(tx)
  BY <1>2 DEF Begin, tables
<1>3. CASE Grow
  <2>1. CASE InsertSequence \/ InsertBlocks
    BY <2>1 DEF InsertSequence, InsertBlocks
  <2>2. CASE Commit
    BY <2>2 DEF Commit, OneWriter, Inserted
  <2> QED BY <1>3, <2>1, <2>2 DEF Grow
<1>4. CASE Fail
  BY <1>4 DEF Fail, InsertRefused, StatementFails, Rollback, tables
<1>5. ASSUME NEW h \in Handler, OpenCursor(h) PROVE ReadsCommitted'
  <2>1. got'[h] = << >> /\ Len(<< >>) = 0 /\ Len(rows) \in Nat
    BY <1>5, EmptySeq, LenProperties DEF OpenCursor, tables
  <2>2. \A k \in Handler \ {h} : got'[k] = got[k]
    BY <1>5 DEF OpenCursor
  <2> QED BY <1>5, <2>1, <2>2 DEF OpenCursor, tables
<1>6. ASSUME NEW h \in Handler, ReadRow(h) PROVE ReadsCommitted'
  <2>1. reading' = reading /\ rows' = rows /\ sequence = rows
    <3>1. reading' = reading /\ saved' = saved /\ h \in reading
      BY <1>6 DEF ReadRow, tables
    <3>2. sequence = saved.sequence
      BY <3>1 DEF OneWriter, InStep, Inserted
    <3> QED BY <3>1, <3>2
  <2>2. \A k \in Handler \ {h} : got'[k] = got[k]
    BY <1>6 DEF ReadRow
  <2>3. /\ Len(got[h]) \in Nat /\ Len(rows) \in Nat
        /\ Len(got[h]) < Len(rows)
        /\ rows[Len(got[h]) + 1] \in Tx
    BY <1>6, <2>1, LenProperties, ElementOfSeq DEF ReadRow
  <2>4. got'[h] = Append(got[h], rows[Len(got[h]) + 1])
    BY <1>6, <2>1 DEF ReadRow
  <2>5. /\ Len(got'[h]) = Len(got[h]) + 1
        /\ \A i \in 1 .. Len(got[h]) : got'[h][i] = got[h][i]
        /\ got'[h][Len(got[h]) + 1] = rows[Len(got[h]) + 1]
    BY <2>3, <2>4, AppendProperties
  <2>6. h \in reading /\ \A i \in 1 .. Len(got[h]) : got[h][i] = rows[i]
    BY <1>6 DEF ReadRow
  <2>7. ASSUME NEW k \in reading
        PROVE  /\ Len(got'[k]) <= Len(rows)
               /\ \A i \in 1 .. Len(got'[k]) : got'[k][i] = rows[i]
    <3>1. CASE k = h
      <4>1. Len(got'[h]) <= Len(rows)
        BY <2>3, <2>5
      <4>2. ASSUME NEW i \in 1 .. Len(got'[h]) PROVE got'[h][i] = rows[i]
        BY <2>3, <2>5, <2>6, SMTT(30)
      <4> QED BY <3>1, <4>1, <4>2
    <3>2. CASE k # h
      BY <2>2, <3>2
    <3> QED BY <3>1, <3>2
  <2> QED BY <2>1, <2>7
<1>7. ASSUME NEW h \in Handler, CloseCursor(h) PROVE ReadsCommitted'
  BY <1>7 DEF CloseCursor, tables
<1>8. CASE StorageRestart(onDisk)
  BY <1>8 DEF StorageRestart
<1> QED BY <1>1, <1>2, <1>3, <1>4, <1>5, <1>6, <1>7, <1>8
        DEF StorageNext, Cursors

LEMMA StorageKept == StorageInv /\ StorageNext => StorageInv'
BY StorageTypes, OneWriterKept, AgreeKept, ReadsKept DEF StorageInv

-----------------------------------------------------------------------------
(* The types of the process.                                               *)

(* main is past Execute and NewSequencerNode only with a command line that *)
(* they let through, and the command line does not change.                 *)
LEMMA ProcessTypes ==
  ASSUME NodeInv, [Next]_vars
  PROVE  TypeOK'
<1> USE DEF NodeInv, TypeOK, rows, tables
<1>1. StorageTypeOK' /\ UNCHANGED envVars
  BY StepsOfStorage, StorageTypes
<1>2. Len(rows) \in Nat /\ boot \in 0 .. Len(rows)
  BY LenProperties DEF StorageTypeOK
<1>3. CASE MainStep
  <2>1. /\ main' \in Main
        /\ main' \notin {"execute", "dead"} => Configured
        /\ main' \notin {"execute", "new", "dead"} =>
             "bad" \notin {keys["p2p"], keys["operator"], peers}
    <3>1. CASE Execute
      BY <3>1 DEF Execute, Goes, Main
    <3>2. CASE NewSequencerNode
      BY <3>2 DEF NewSequencerNode, Goes, Main, NewEthereumECDSASigner,
           StringsToAddrs, P2PParsePrivateKey
    <3>3. CASE SignalNotify \/ Hook \/ StartServers
      BY <3>3 DEF SignalNotify, Hook, StartServers, ListenAndServe, Goes,
           Main, Built
    <3> QED BY <1>3, <3>1, <3>2, <3>3 DEF MainStep
  <2>2. /\ listener' \in BOOLEAN /\ notified' \in BOOLEAN /\ rpc' \in BOOLEAN
        /\ UNCHANGED <<rows, signal, handed>> /\ UNCHANGED rpcVars
        /\ UNCHANGED histVars
    BY <1>3 DEF MainStep, Execute, NewSequencerNode, SignalNotify, Hook,
         StartServers, ListenAndServe, storageVars, procVars
  <2> QED BY <1>1, <1>2, <2>1, <2>2
          DEF Configured, Built, envVars, rpcVars, histVars
<1>4. CASE SignalStep \/ Signal
  <2>1. /\ main' \in {main, "dead"} /\ signal' \in {"none", "sent", "closing"}
        /\ UNCHANGED <<rows, listener, notified, rpc, handed>>
        /\ UNCHANGED rpcVars /\ UNCHANGED histVars
    BY <1>4 DEF SignalStep, Signal, CloseNode, Exit, Goes, storageVars, procVars
  <2> QED BY <1>1, <1>2, <2>1
          DEF Main, Configured, Built, envVars, rpcVars, histVars
<1>5. CASE Restart
  <2>1. << >> \in Seq(Tx) /\ rows' \in Seq(Tx)
    BY <1>1, EmptySeq DEF StorageTypeOK
  <2>2. boot' \in 0 .. Len(rows') /\ 0 \in 0 .. MaxTxs
    BY <1>5, <2>1, Bounds, LenProperties DEF Restart
  <2>3. restarts' \in 0 .. MaxRestarts
    BY <1>5, Bounds DEF Restart
  <2> QED BY <1>1, <1>5, <2>1, <2>2, <2>3
          DEF Restart, Goes, Main, Configured, Built, envVars
<1>6. ASSUME NEW tx \in Tx, AppendCall(tx) \/ ReceiveBlock(tx) PROVE TypeOK'
  <2>1. received' \in 0 .. MaxTxs
    BY <1>6, Bounds DEF AppendCall, ReceiveBlock
  <2>2. parked' \in Seq(Tx)
    <3>1. Append(parked, tx) \in Seq(Tx)
      BY AppendProperties
    <3> QED BY <1>6, <3>1 DEF AppendCall, ReceiveBlock
  <2> QED BY <1>1, <1>2, <1>6, <2>1, <2>2
          DEF AppendCall, ReceiveBlock, Begin, Configured, Built, storageVars,
              envVars, procVars, histVars
<1>7. CASE ReceiveTx
  <2>1. Head(parked) \in Tx /\ Tail(parked) \in Seq(Tx)
    BY <1>7, HeadTailProperties DEF ReceiveTx
  <2> QED BY <1>1, <1>2, <1>7, <2>1
          DEF ReceiveTx, Begin, Configured, Built, envVars, procVars, histVars
<1>8. CASE Insert
  BY <1>1, <1>2, <1>8
     DEF Insert, InsertSequence, InsertRefused, InsertBlocks, StatementFails,
         Rollback, Configured, Built, envVars, procVars, rpcVars, histVars
<1>9. CASE Chain
  <2>1. work \in Tx /\ rows' = Append(rows, work)
    BY <1>9, CommitAppends DEF Chain
  <2>2. Len(rows') = Len(rows) + 1
    BY <2>1, AppendProperties DEF StorageTypeOK
  <2>3. handed' \in Seq(Tx)
    BY <1>9, <2>1, AppendProperties DEF Chain
  <2>4. boot' = boot /\ boot' \in 0 .. Len(rows')
    BY <1>2, <1>9, <2>2 DEF Chain, histVars
  <2> QED BY <1>1, <1>9, <2>3, <2>4
          DEF Chain, Configured, Built, envVars, rpcVars, histVars
<1>10. CASE \E h \in Handler : OpenQuery(h) \/ QueryStep(h)
  BY <1>1, <1>2, <1>10, SMTT(30)
     DEF OpenQuery, QueryStep, StepQuery, EndQuery, OpenCursor, ReadRow,
         CloseCursor, Configured, Built, envVars, procVars, rpcVars, histVars
<1>11. CASE UNCHANGED vars
  BY <1>1, <1>2, <1>11 DEF vars, Configured, Built
<1> QED BY <1>3, <1>4, <1>5, <1>6, <1>7, <1>8, <1>9, <1>10, <1>11
        DEF Next, LoopStep, TxnStep

-----------------------------------------------------------------------------
(* How the process boots.                                                  *)

(* Until the servers are started the loop has nothing to do, because what  *)
(* feeds it is not there: RPC is not, and main does not listen.            *)
LEMMA BootsKept ==
  ASSUME NodeInv, [Next]_vars
  PROVE  Boots'
<1> USE DEF NodeInv, Boots, rows, tables
<1>1. CASE MainStep
  <2>1. UNCHANGED <<rows, txn, mode, parked, handed, boot>>
    BY <1>1 DEF MainStep, Execute, NewSequencerNode, SignalNotify, Hook,
         StartServers, storageVars, envVars, procVars, rpcVars, histVars
  <2>2. CASE Execute
    BY <2>1, <2>2 DEF Execute, Goes, procVars
  <2>3. CASE NewSequencerNode
    BY <2>1, <2>3 DEF NewSequencerNode, Goes, procVars
  <2>4. CASE SignalNotify
    BY <2>1, <2>4 DEF SignalNotify, Goes
  <2>5. CASE Hook
    BY <2>1, <2>5 DEF Hook, Goes, TypeOK, Configured
  <2>6. CASE StartServers
    BY <2>1, <2>6 DEF StartServers, ListenAndServe, Goes
  <2> QED BY <1>1, <2>2, <2>3, <2>4, <2>5, <2>6 DEF MainStep
<1>2. CASE SignalStep \/ Signal
  <2>1. /\ main' \in {main, "dead"}
        /\ UNCHANGED <<rows, txn, mode, listener, rpc, parked, handed, boot>>
    BY <1>2 DEF SignalStep, Signal, CloseNode, Exit, Goes, storageVars,
         envVars, procVars, rpcVars, histVars
  <2> QED BY <2>1
<1>3. CASE Restart
  BY <1>3 DEF Restart, StorageRestart, Goes
<1>4. CASE \E tx \in Tx : AppendCall(tx) \/ ReceiveBlock(tx)
  BY <1>4 DEF AppendCall, ReceiveBlock, Alive, storageVars, envVars, procVars,
       histVars, TypeOK, Main
<1>5. CASE LoopStep
  <2>1. main \in {"listening", "wait"}
    BY <1>5 DEF LoopStep, TxnStep, ReceiveTx, Insert, Chain, InsertSequence,
         InsertRefused, InsertBlocks, Commit, StatementFails, Built, TypeOK,
         Main
  <2>2. UNCHANGED <<mode, main, listener>>
    BY <1>5 DEF LoopStep, TxnStep, ReceiveTx, Insert, Chain, envVars, procVars
  <2> QED BY <2>1, <2>2
<1>6. CASE \E h \in Handler : OpenQuery(h) \/ QueryStep(h)
  BY <1>6 DEF OpenQuery, QueryStep, StepQuery, EndQuery, OpenCursor, ReadRow,
       CloseCursor, envVars, procVars, rpcVars, histVars
<1>7. CASE UNCHANGED vars
  BY <1>7 DEF vars
<1> QED BY <1>1, <1>2, <1>3, <1>4, <1>5, <1>6, <1>7 DEF Next

(* A row that is chained is handed on, and there is a listener as soon as  *)
(* there can be a row.                                                     *)
LEMMA HandedKept ==
  ASSUME NodeInv, [Next]_vars
  PROVE  CommittedIsHanded'
<1> USE DEF NodeInv, CommittedIsHanded, rows, tables
<1>1. rows \in Seq(Tx) /\ boot \in 0 .. Len(rows) /\ Len(rows) \in Nat
  BY LenProperties DEF TypeOK, StorageTypeOK
<1>2. CASE MainStep
  <2>1. UNCHANGED <<rows, mode, handed, boot>>
    BY <1>2 DEF MainStep, Execute, NewSequencerNode, SignalNotify, Hook,
         StartServers, storageVars, envVars, procVars, rpcVars, histVars
  <2>2. CASE Built
    BY <2>1, <2>2
  <2>3. CASE main \in {"execute", "new"}
    <3>1. handed = << >> /\ boot = Len(rows)
      BY <2>3 DEF Boots
    <3>2. SubSeq(rows, boot + 1, Len(rows)) = << >>
      BY <1>1, <3>1, SubSeqEmpty
    <3> QED BY <2>1, <3>1, <3>2
  <2>4. main # "dead"
    BY <1>2 DEF MainStep, Execute, NewSequencerNode, SignalNotify, Hook,
         StartServers
  <2> QED BY <2>2, <2>3, <2>4 DEF Built
<1>3. CASE SignalStep \/ Signal
  <2>1. main' \in {main, "dead"} /\ UNCHANGED <<rows, mode, handed, boot>>
    BY <1>3 DEF SignalStep, Signal, CloseNode, Exit, Goes, storageVars,
         envVars, procVars, histVars
  <2> QED BY <2>1 DEF Built
<1>4. CASE Restart
  BY <1>4 DEF Restart, Goes, Built
<1>5. CASE \E tx \in Tx : AppendCall(tx) \/ ReceiveBlock(tx)
  BY <1>5 DEF AppendCall, ReceiveBlock, Begin, Built, storageVars, envVars,
       procVars, histVars
<1>6. CASE ReceiveTx \/ Insert
  BY <1>6 DEF ReceiveTx, Insert, Begin, InsertSequence, InsertRefused,
       InsertBlocks, StatementFails, Rollback, Built, envVars, procVars,
       histVars
<1>7. CASE Chain
  <2> SUFFICES ASSUME mode = "primary"
               PROVE  handed' = SubSeq(rows', boot' + 1, Len(rows'))
    BY <1>7 DEF Chain, envVars
  <2>1. Built /\ txn = "blocks"
    BY <1>7 DEF Chain, Commit
  <2>2. main = "wait" /\ listener
    BY <2>1 DEF Boots, Built, TypeOK, Main
  <2>3. work \in Tx /\ rows' = Append(rows, work) /\ boot' = boot
    BY <1>7, CommitAppends DEF Chain, histVars
  <2>4. handed' = Append(SubSeq(rows, boot + 1, Len(rows)), work)
    BY <1>7, <2>1, <2>2 DEF Chain
  <2> QED BY <1>1, <2>3, <2>4, SuffixOfAppend
<1>8. CASE \E h \in Handler : OpenQuery(h) \/ QueryStep(h)
  BY <1>8 DEF OpenQuery, QueryStep, StepQuery, EndQuery, OpenCursor, ReadRow,
       CloseCursor, Built, envVars, procVars, histVars
<1>9. CASE UNCHANGED vars
  BY <1>9 DEF vars, Built
<1> QED BY <1>2, <1>3, <1>4, <1>5, <1>6, <1>7, <1>8, <1>9
        DEF Next, LoopStep, TxnStep

-----------------------------------------------------------------------------
(* The theorems.                                                           *)

THEOREM NodeStep == NodeInv /\ [Next]_vars => NodeInv'
BY StepsOfStorage, StorageKept, ProcessTypes, BootsKept, HandedKept DEF NodeInv

THEOREM NodeInvariant == Spec => []NodeInv
BY InitNodeInv, NodeStep, PTL DEF Spec

(* Every variable has its type, main has passed Execute and                *)
(* NewSequencerNode only with a command line that they accept.             *)
THEOREM NodeTypes == Spec => []TypeOK
<1>1. NodeInv => TypeOK
  BY DEF NodeInv
<1> QED BY <1>1, NodeInvariant, PTL

(* What is committed of the two tables agrees row by row, wherever a       *)
(* transaction failed or the process ended (core.go:171-206, 237-264).     *)
THEOREM TablesAgreeAlways == Spec => []TablesAgree
<1>1. NodeInv => TablesAgree
  BY DEF NodeInv, StorageInv
<1> QED BY <1>1, NodeInvariant, PTL

(* No query reads a row that is not committed (core.go:477).               *)
THEOREM ReadsCommittedAlways == Spec => []ReadsCommitted
<1>1. NodeInv => ReadsCommitted
  BY DEF NodeInv, StorageInv
<1> QED BY <1>1, NodeInvariant, PTL

(* A primary hands every row that it has chained since it was started to   *)
(* its listener, in order (node.go:83, core.go:101).                       *)
THEOREM CommittedIsHandedAlways == Spec => []CommittedIsHanded
<1>1. NodeInv => CommittedIsHanded
  BY DEF NodeInv
<1> QED BY <1>1, NodeInvariant, PTL

-----------------------------------------------------------------------------
(* The refinement of Tables.                                               *)

LEMMA InitOfTables == Init => Abstract!Init
BY DEF Init, StorageInit, Abstract!Init, rows

(* A row is added only while no transaction is left open, since the one    *)
(* that commits is then not the only writer.                               *)
LEMMA StepOfTables ==
  NodeInv /\ [Next]_vars => [Abstract!Next]_(Abstract!vars)
<1> SUFFICES ASSUME NodeInv, [Next]_vars
             PROVE  [Abstract!Next]_(Abstract!vars)
  OBVIOUS
<1>1. StorageNext /\ onDisk' = onDisk
  BY StepsOfStorage DEF NodeInv, envVars
<1> USE DEF Abstract!Next, Abstract!vars, rows, tables
<1>2. CASE UNCHANGED storageVars \/ \E tx \in Tx : Begin(tx)
  BY <1>1, <1>2 DEF storageVars, Begin
<1>3. CASE InsertSequence \/ InsertBlocks
  BY <1>1, <1>3 DEF InsertSequence, InsertBlocks
<1>4. CASE Commit
  <2>1. work \in Tx /\ leak = "no" /\ rows' = Append(rows, work)
    BY <1>4, CommitAppends DEF NodeInv
  <2>2. leak' = leak
    BY <1>4 DEF Commit
  <2> QED BY <1>1, <2>1, <2>2 DEF Abstract!AppendRow
<1>5. CASE Fail
  <2>1. rows' = rows /\ (leak # "no" => leak' = leak)
    BY <1>5 DEF Fail, InsertRefused, StatementFails, Rollback
  <2>2. leak' = leak \/ leak' # "no" \/ (leak = "no" /\ leak' = "no")
    BY <2>1
  <2> QED BY <1>1, <2>1, <2>2 DEF Abstract!LockUp
<1>6. CASE \E h \in Handler : Cursors(h)
  BY <1>1, <1>6 DEF Cursors, OpenCursor, ReadRow, CloseCursor
<1>7. CASE StorageRestart(onDisk)
  BY <1>1, <1>7 DEF StorageRestart, Abstract!Restart
<1> QED BY <1>1, <1>2, <1>3, <1>4, <1>5, <1>6, <1>7 DEF StorageNext, Grow

(* The process implements Tables: rows are only added, none while a        *)
(* transaction is left open, and only a restart of a database in memory    *)
(* loses them.                                                             *)
THEOREM NodeImplementsTables == Spec => ImplementsTables
<1>1. Init /\ [][Next]_vars => Abstract!Init /\ [][Abstract!Next]_(Abstract!vars)
  BY InitOfTables, StepOfTables, NodeInvariant, PTL DEF Spec
<1> QED BY <1>1 DEF Spec, ImplementsTables, Abstract!Spec
=============================================================================
