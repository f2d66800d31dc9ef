------------------------ MODULE SequencerCore_proofs ------------------------
(***************************************************************************)
(* Proofs about SequencerCore: its type invariant, the agreement of the    *)
(* two tables and the hash chain; then that nothing unverified is stored,  *)
(* that the map of early blocks loses nothing and is looked through in     *)
(* time, and that no step takes a row back: for any number of processes,   *)
(* any transactions, any blocks on the wire and any number of failures and *)
(* restarts.                                                               *)
(***************************************************************************)
EXTENDS SequencerCore, SequenceLemmas

(* The digest of a block is a hash, the genesis block is a block, and so   *)
(* is whatever is chained to a block.                                      *)
LEMMA BlockTypes ==
  /\ Genesis \in Block
  /\ \A b \in Block : SigHash(b) \in Hash
  /\ \A b \in Block, tx \in Tx, k \in Key \cup {NoSig} :
       ChainedBlock(b, tx, k) \in Block
<1>1. Genesis \in Block
  BY DEF Genesis, Block, Hash
<1>2. \A b \in Block : SigHash(b) \in Hash
  BY DEF SigHash, Block, Hash
<1>3. ASSUME NEW b \in Block, NEW tx \in Tx, NEW k \in Key \cup {NoSig}
      PROVE  ChainedBlock(b, tx, k) \in Block
  <2> DEFINE c == [ConstructBlock(tx) EXCEPT !.height = b.height + 1,
                                             !.prev   = SigHash(b)]
  <2>1. ConstructBlock(tx) \in Block
    BY DEF ConstructBlock, Block, Hash
  <2>2. b.height + 1 \in Nat /\ SigHash(b) \in Hash
    BY <1>2, <1>3 DEF Block
  <2>3. c \in Block
    BY <2>1, <2>2 DEF Block
  <2>4. ChainedBlock(b, tx, k) = [c EXCEPT !.sig = k]
    BY DEF ChainedBlock, Signed
  <2> HIDE DEF c
  <2> QED BY <1>3, <2>3, <2>4 DEF Block
<1> QED BY <1>1, <1>2, <1>3

-----------------------------------------------------------------------------
(* The inductive invariant.  LogChained alone is not inductive: that a row *)
(* can be appended needs the types, and that its body is a transaction     *)
(* needs to know what the loop has in hand.  Commit extends both tables.   *)
TablesInStep == \A n \in Node :
  /\ Len(sequence[n]) = Len(blocks[n])
  /\ \A i \in 1..Len(blocks[n]) : sequence[n][i] = blocks[n][i].body

IInv == TypeOK /\ InHand /\ TablesInStep /\ LogChained

THEOREM InitIInv == Init => IInv
<1> SUFFICES ASSUME Init PROVE IInv
  OBVIOUS
<1>1. TypeOK
  BY BlockTypes DEF Init, TypeOK, Phase
<1>2. InHand
  BY DEF Init, InHand
<1>3. TablesInStep
  BY DEF Init, TablesInStep
<1>4. LogChained
  BY DEF Init, LogChained, LastIsTail, Linked, WrittenRows
<1> QED BY <1>1, <1>2, <1>3, <1>4 DEF IInv

-----------------------------------------------------------------------------
(* What the database and LastBlock go through in a step: nothing, or one   *)
(* row that extends the log of one process.                                *)
LogUnchanged == UNCHANGED <<sequence, blocks, lastBlock, boot>>

Extends(n, b) ==
  /\ b \in Block /\ b.body \in Tx
  /\ b.height = lastBlock[n].height + 1
  /\ b.prev = SigHash(lastBlock[n])
  /\ sequence' = [sequence EXCEPT ![n] = Append(@, b.body)]
  /\ blocks' = [blocks EXCEPT ![n] = Append(@, b)]
  /\ lastBlock' = [lastBlock EXCEPT ![n] = b]
  /\ boot' = boot

LEMMA KeepLog == IInv /\ LogUnchanged => TablesInStep' /\ LogChained'
BY DEF IInv, LogUnchanged, TablesInStep, LogChained, LastIsTail, Linked,
       WrittenRows

(* The height of LastBlock counts the rows written since the last start.   *)
LEMMA LastHeight ==
  ASSUME IInv, NEW n \in Node
  PROVE  /\ Len(blocks[n]) \in Nat /\ boot[n] \in Nat
         /\ boot[n] <= Len(blocks[n])
         /\ lastBlock[n].height = Len(blocks[n]) - boot[n]
<1>1. Len(blocks[n]) \in Nat /\ boot[n] \in Nat
  BY DEF IInv, TypeOK
<1>2. LastIsTail(n) /\ Linked(n)
  BY DEF IInv, LogChained
<1>3. CASE boot[n] = Len(blocks[n])
  BY <1>1, <1>2, <1>3 DEF LastIsTail, Genesis
<1>4. CASE boot[n] # Len(blocks[n])
  <2>1. /\ lastBlock[n] = blocks[n][Len(blocks[n])]
        /\ Len(blocks[n]) \in WrittenRows(n)
    BY <1>1, <1>2, <1>4 DEF LastIsTail, WrittenRows
  <2> QED BY <1>1, <1>2, <2>1 DEF Linked, LastIsTail
<1> QED BY <1>3, <1>4

(* A row whose height and previous hash continue LastBlock keeps the       *)
(* tables in step and the chain linked.                                    *)
LEMMA ExtendLog ==
  ASSUME IInv, NEW n \in Node, NEW b, Extends(n, b)
  PROVE  /\ sequence' \in [Node -> Seq(Tx)]
         /\ blocks' \in [Node -> Seq(Block)]
         /\ lastBlock' \in [Node -> Block]
         /\ TablesInStep' /\ LogChained'
<1> USE DEF Extends
<1>0. /\ sequence \in [Node -> Seq(Tx)] /\ blocks \in [Node -> Seq(Block)]
      /\ lastBlock \in [Node -> Block] /\ boot \in [Node -> Nat]
  BY DEF IInv, TypeOK
<1>1. /\ sequence' \in [Node -> Seq(Tx)]
      /\ blocks' \in [Node -> Seq(Block)]
      /\ lastBlock' \in [Node -> Block]
  BY <1>0
<1>2. ASSUME NEW m \in Node, m # n
      PROVE  /\ sequence'[m] = sequence[m] /\ blocks'[m] = blocks[m]
             /\ lastBlock'[m] = lastBlock[m] /\ boot'[m] = boot[m]
  BY <1>0, <1>2
<1>3. /\ sequence'[n] = Append(sequence[n], b.body)
      /\ blocks'[n] = Append(blocks[n], b)
      /\ lastBlock'[n] = b /\ boot'[n] = boot[n]
  BY <1>0
<1>4. /\ Len(blocks'[n]) = Len(blocks[n]) + 1
      /\ Len(sequence'[n]) = Len(sequence[n]) + 1
      /\ blocks'[n][Len(blocks[n]) + 1] = b
      /\ sequence'[n][Len(sequence[n]) + 1] = b.body
      /\ \A i \in 1..Len(blocks[n]) : blocks'[n][i] = blocks[n][i]
      /\ \A i \in 1..Len(sequence[n]) : sequence'[n][i] = sequence[n][i]
      /\ Len(blocks[n]) \in Nat
  BY <1>0, <1>3
<1>5. TablesInStep'
  <2> SUFFICES ASSUME NEW m \in Node
               PROVE  /\ Len(sequence'[m]) = Len(blocks'[m])
                      /\ \A i \in 1..Len(blocks'[m]) :
                           sequence'[m][i] = blocks'[m][i].body
    BY DEF TablesInStep
  <2>1. /\ Len(sequence[m]) = Len(blocks[m])
        /\ \A i \in 1..Len(blocks[m]) : sequence[m][i] = blocks[m][i].body
    BY DEF IInv, TablesInStep
  <2>2. CASE m # n
    BY <1>2, <2>1, <2>2
  <2>3. CASE m = n
    BY <1>4, <2>1, <2>3
  <2> QED BY <2>2, <2>3
<1>6. LogChained'
  <2> SUFFICES ASSUME NEW m \in Node
               PROVE  LastIsTail(m)' /\ Linked(m)'
    BY DEF LogChained
  <2>1. LastIsTail(m) /\ Linked(m)
    BY DEF IInv, LogChained
  <2>2. CASE m # n
    BY <1>2, <2>1, <2>2 DEF LastIsTail, Linked, WrittenRows
  <2>3. CASE m = n
    <3>1. LastIsTail(m)'
      BY <1>0, <1>3, <1>4, <2>1, <2>3 DEF LastIsTail
    <3>2. lastBlock[n].height = Len(blocks[n]) - boot[n]
      BY LastHeight
    <3>3. SUFFICES Linked(n)'
      BY <2>3, <3>1
    <3> SUFFICES ASSUME NEW i \in WrittenRows(n)'
                 PROVE  /\ blocks'[n][i].height = i - boot'[n]
                        /\ blocks'[n][i].prev =
                             SigHash(IF i = boot'[n] + 1 THEN Genesis
                                     ELSE blocks'[n][i - 1])
      BY DEF Linked
    <3>4. i \in (boot[n] + 1)..(Len(blocks[n]) + 1)
      BY <1>3, <1>4 DEF WrittenRows
    <3>5. CASE i <= Len(blocks[n])
      <4>1. i \in WrittenRows(n) /\ i \in 1..Len(blocks[n])
        BY <1>0, <1>4, <3>4, <3>5 DEF WrittenRows
      <4>2. /\ blocks[n][i].height = i - boot[n]
            /\ blocks[n][i].prev = SigHash(IF i = boot[n] + 1 THEN Genesis
                                           ELSE blocks[n][i - 1])
        BY <2>1, <2>3, <4>1 DEF Linked
      <4>3. i # boot[n] + 1 => i - 1 \in 1..Len(blocks[n])
        BY <1>0, <1>4, <3>4, <3>5
      <4> QED BY <1>3, <1>4, <4>1, <4>2, <4>3
    <3>6. CASE i = Len(blocks[n]) + 1
      <4>1. blocks'[n][i] = b
        BY <1>4, <3>6
      <4>2. b.height = i - boot[n]
        BY <1>0, <1>4, <3>2, <3>6
      <4>3. lastBlock[n] = IF i = boot[n] + 1 THEN Genesis
                           ELSE blocks'[n][i - 1]
        BY <1>0, <1>4, <2>1, <2>3, <3>4, <3>6 DEF LastIsTail
      <4> QED BY <1>3, <4>1, <4>2, <4>3
    <3>7. i <= Len(blocks[n]) \/ i = Len(blocks[n]) + 1
      BY <1>0, <1>4, <3>4
    <3> QED BY <3>5, <3>6, <3>7
  <2> QED BY <2>2, <2>3
<1> QED BY <1>1, <1>5, <1>6

-----------------------------------------------------------------------------
(* A transaction that fails changes nothing but the lock.                  *)
LEMMA FailedCommit ==
  ASSUME IInv, NEW n \in Node, CommitFails(n)
  PROVE  /\ UNCHANGED <<sequence, blocks>>
         /\ dbLocked' \in [Node -> BOOLEAN] /\ faults' \in Nat
<1>1. dbLocked \in [Node -> BOOLEAN] /\ faults \in Nat
  BY DEF IInv, TypeOK
<1>2. CASE dbLocked' = dbLocked /\ faults' = faults
  BY <1>1, <1>2 DEF CommitFails
<1>3. CASE /\ faults' = faults + 1
           /\ \E held \in BOOLEAN : dbLocked' = [dbLocked EXCEPT ![n] = held]
  <2>1. faults' \in Nat
    BY <1>1, <1>3
  <2>2. PICK held \in BOOLEAN : dbLocked' = [dbLocked EXCEPT ![n] = held]
    BY <1>3
  <2>3. dbLocked' \in [Node -> BOOLEAN]
    BY <1>1, <2>2, Zenon
  <2> QED BY <2>1, <2>3 DEF CommitFails
<1> QED BY <1>2, <1>3 DEF CommitFails

(* The outcomes of doProcessBlock that store nothing leave the log alone.  *)
LEMMA NotStored ==
  ASSUME IInv, NEW n \in Node, NEW b \in Block, boot' = boot,
         \/ IgnoreBlock(n, b) \/ StashBlock(n, b)
         \/ RefuseBlock(n, b) \/ IngestFails(n, b)
  PROVE  /\ LogUnchanged
         /\ dbLocked' \in [Node -> BOOLEAN] /\ faults' \in Nat
         /\ unprocessed' \in [Node -> SUBSET Block]
         /\ totalSeen' \in [Node -> Nat]
<1> USE DEF LogUnchanged, IInv, TypeOK, dbVars
<1>1. CASE IgnoreBlock(n, b)
  BY <1>1 DEF IgnoreBlock
<1>2. CASE StashBlock(n, b)
  BY <1>2 DEF StashBlock, CountBlock
<1>3. CASE RefuseBlock(n, b)
  BY <1>3 DEF RefuseBlock, CountBlock
<1>4. CASE IngestFails(n, b)
  BY <1>4, FailedCommit, SMTT(30) DEF IngestFails, CountBlock
<1> QED BY <1>1, <1>2, <1>3, <1>4

(* A block that doProcessBlock stores extends the log.                     *)
LEMMA Stored ==
  ASSUME IInv, NEW n \in Node, NEW b \in Block, boot' = boot,
         IngestBlock(n, b)
  PROVE  /\ Extends(n, b)
         /\ dbLocked' = dbLocked /\ faults' = faults
         /\ totalSeen' \in [Node -> Nat]
<1>1. b.body \in Tx
  BY DEF IngestBlock, Fits, Block
<1>2. Extends(n, b) /\ dbLocked' = dbLocked /\ faults' = faults
  BY <1>1 DEF IngestBlock, IsChild, Fits, Commit, Extends
<1>3. totalSeen' \in [Node -> Nat]
  BY DEF IngestBlock, CountBlock, IInv, TypeOK
<1> QED BY <1>2, <1>3

(* The block that doSequenceWork makes extends the log.                    *)
LEMMA Chained ==
  ASSUME IInv, NEW n \in Node, phase[n] = "sequence", boot' = boot,
         NEW b, b = ChainedBlock(lastBlock[n], work[n], KeyOf[n]),
         ChainBlock(n, b)
  PROVE  /\ Extends(n, b)
         /\ dbLocked' = dbLocked /\ faults' = faults
         /\ handlers' \in [Node -> SUBSET Nat]
<1>1. /\ lastBlock[n] \in Block /\ work[n] \in Tx
      /\ KeyOf[n] \in Key \cup {NoSig}
  BY SequencerCoreAssumption DEF IInv, TypeOK, InHand
<1>2. b \in Block
  BY <1>1, BlockTypes
<1>3. Extends(n, b)
  BY <1>1, <1>2 DEF ChainBlock, Commit, Extends, ChainedBlock, ConstructBlock, Signed
<1>4. Len(blocks'[n]) \in Nat
  BY <1>3, ExtendLog
<1>5. handlers' \in [Node -> SUBSET Nat]
  BY <1>4 DEF ChainBlock, StartListeners, IInv, TypeOK
<1> QED BY <1>3, <1>5 DEF ChainBlock, Commit

-----------------------------------------------------------------------------
(* One lemma per action: each keeps the inductive invariant.               *)

LEMMA SequenceIInv ==
  ASSUME IInv, NEW n \in Node, NEW tx \in Tx, Sequence(n, tx)
  PROVE  IInv'
<1>1. TypeOK'
  BY DEF IInv, TypeOK, Sequence, dbVars, loopVars, worldVars
<1>2. InHand'
  BY DEF IInv, InHand, Sequence, loopVars
<1>3. TablesInStep' /\ LogChained'
  BY KeepLog DEF LogUnchanged, Sequence, dbVars
<1> QED BY <1>1, <1>2, <1>3 DEF IInv

LEMMA ReceiveTxIInv ==
  ASSUME IInv, NEW n \in Node, ReceiveTx(n)
  PROVE  IInv'
<1>1. /\ Head(sequenceTxs[n]) \in Tx
      /\ Tail(sequenceTxs[n]) \in Seq(Tx)
  BY DEF IInv, TypeOK, ReceiveTx
<1>2. TypeOK'
  BY <1>1 DEF IInv, TypeOK, ReceiveTx, SequenceReply, Phase, dbVars, worldVars
<1>3. InHand'
  BY <1>1 DEF IInv, InHand, TypeOK, ReceiveTx
<1>4. TablesInStep' /\ LogChained'
  BY KeepLog DEF LogUnchanged, ReceiveTx, dbVars
<1> QED BY <1>2, <1>3, <1>4 DEF IInv

LEMMA DoSequenceWorkIInv ==
  ASSUME IInv, NEW n \in Node, DoSequenceWork(n)
  PROVE  IInv'
<1> DEFINE b == ChainedBlock(lastBlock[n], work[n], KeyOf[n])
<1>1. boot' = boot /\ phase[n] = "sequence"
  BY DEF DoSequenceWork
<1>2. InHand'
  BY DEF IInv, InHand, TypeOK, DoSequenceWork
<1>3. CASE ChainBlock(n, b)
  <2> HIDE DEF b
  <2>1. Extends(n, b)
    BY <1>1, <1>3, Chained DEF b
  <2>2. /\ dbLocked' = dbLocked /\ faults' = faults
        /\ handlers' \in [Node -> SUBSET Nat]
    BY <1>1, <1>3, Chained DEF b
  <2>3. /\ sequence' \in [Node -> Seq(Tx)]
        /\ blocks' \in [Node -> Seq(Block)]
        /\ lastBlock' \in [Node -> Block]
        /\ TablesInStep' /\ LogChained'
    BY <2>1, ExtendLog
  <2>4. TypeOK'
    BY <2>2, <2>3 DEF IInv, TypeOK, DoSequenceWork, Phase
  <2> QED BY <1>2, <2>3, <2>4 DEF IInv
<1>4. CASE CommitFails(n) /\ UNCHANGED <<lastBlock, handlers>>
  <2>1. LogUnchanged
    BY <1>1, <1>4, FailedCommit DEF LogUnchanged
  <2>2. dbLocked' \in [Node -> BOOLEAN] /\ faults' \in Nat
    BY <1>4, FailedCommit
  <2>3. TypeOK'
    BY <1>4, <2>1, <2>2
       DEF IInv, TypeOK, DoSequenceWork, Phase, LogUnchanged
  <2> QED BY <1>2, <2>1, <2>3, KeepLog DEF IInv
<1> QED BY <1>3, <1>4 DEF DoSequenceWork

LEMMA RunListenerIInv ==
  ASSUME IInv, NEW n \in Node, NEW row, RunListener(n, row)
  PROVE  IInv'
<1>1. TypeOK'
  BY DEF IInv, TypeOK, RunListener, dbVars, loopVars, worldVars
<1>2. InHand'
  BY DEF IInv, InHand, RunListener, loopVars
<1>3. TablesInStep' /\ LogChained'
  BY KeepLog DEF LogUnchanged, RunListener, dbVars
<1> QED BY <1>1, <1>2, <1>3 DEF IInv

LEMMA ReceiveBlockIInv ==
  ASSUME IInv, NEW n \in Node, NEW b \in Block, ReceiveBlock(n, b)
  PROVE  IInv'
<1>1. TypeOK'
  BY DEF IInv, TypeOK, ReceiveBlock, Phase, dbVars, worldVars
<1>2. InHand'
  BY DEF IInv, InHand, TypeOK, ReceiveBlock
<1>3. TablesInStep' /\ LogChained'
  BY KeepLog DEF LogUnchanged, ReceiveBlock, dbVars
<1> QED BY <1>1, <1>2, <1>3 DEF IInv

LEMMA DrainOneIInv ==
  ASSUME IInv, NEW n \in Node, DrainOne(n)
  PROVE  IInv'
<1>1. PICK b \in Satisfied(n) : IngestBlock(n, b)
  BY DEF DrainOne
<1>2. b \in Block /\ boot' = boot
  BY DEF IInv, TypeOK, Satisfied, DrainOne
<1>3. /\ Extends(n, b) /\ dbLocked' = dbLocked /\ faults' = faults
      /\ totalSeen' \in [Node -> Nat]
  BY <1>1, <1>2, Stored
<1>4. /\ sequence' \in [Node -> Seq(Tx)]
      /\ blocks' \in [Node -> Seq(Block)]
      /\ lastBlock' \in [Node -> Block]
      /\ TablesInStep' /\ LogChained'
  BY <1>3, ExtendLog
<1>5. unprocessed' \in [Node -> SUBSET Block]
  BY DEF DrainOne, DeleteProcessed, IInv, TypeOK
<1>6. TypeOK'
  BY <1>3, <1>4, <1>5 DEF IInv, TypeOK, DrainOne, loopVars
<1>7. InHand'
  BY DEF IInv, InHand, DrainOne, loopVars
<1> QED BY <1>4, <1>6, <1>7 DEF IInv

LEMMA DrainEndsIInv ==
  ASSUME IInv, NEW n \in Node, DrainEnds(n)
  PROVE  IInv'
<1>1. InHand'
  BY DEF IInv, InHand, TypeOK, DrainEnds
<1>2. /\ LogUnchanged
      /\ dbLocked' \in [Node -> BOOLEAN] /\ faults' \in Nat
      /\ unprocessed' \in [Node -> SUBSET Block]
      /\ totalSeen' \in [Node -> Nat]
  <2>1. CASE UNCHANGED <<dbVars, faults, lastBlock, unprocessed, totalSeen>>
    BY <2>1 DEF DrainEnds, LogUnchanged, IInv, TypeOK, dbVars
  <2>2. CASE \E b \in Satisfied(n) : RefuseBlock(n, b) \/ IngestFails(n, b)
    <3>1. PICK b \in Satisfied(n) : RefuseBlock(n, b) \/ IngestFails(n, b)
      BY <2>2
    <3>2. b \in Block /\ boot' = boot
      BY DEF IInv, TypeOK, Satisfied, DrainEnds
    <3> QED BY <3>1, <3>2, NotStored
  <2> QED BY <2>1, <2>2 DEF DrainEnds
<1>3. TypeOK'
  BY <1>2 DEF IInv, TypeOK, DrainEnds, LogUnchanged, Phase
<1> QED BY <1>1, <1>2, <1>3, KeepLog DEF IInv

LEMMA DoProcessBlockIInv ==
  ASSUME IInv, NEW n \in Node, DoProcessBlock(n)
  PROVE  IInv'
<1> DEFINE b == cur[n]
<1>1. b \in Block /\ boot' = boot
  BY DEF IInv, InHand, DoProcessBlock
<1>2. InHand'
  BY DEF IInv, InHand, TypeOK, DoProcessBlock
<1>3. CASE IngestBlock(n, b) /\ UNCHANGED unprocessed
  <2> HIDE DEF b
  <2>1. /\ Extends(n, b) /\ dbLocked' = dbLocked /\ faults' = faults
        /\ totalSeen' \in [Node -> Nat]
    BY <1>1, <1>3, Stored
  <2>2. /\ sequence' \in [Node -> Seq(Tx)]
        /\ blocks' \in [Node -> Seq(Block)]
        /\ lastBlock' \in [Node -> Block]
        /\ TablesInStep' /\ LogChained'
    BY <2>1, ExtendLog
  <2>3. TypeOK'
    BY <1>3, <2>1, <2>2 DEF IInv, TypeOK, DoProcessBlock, Phase
  <2> QED BY <1>2, <2>2, <2>3 DEF IInv
<1>4. CASE \/ IgnoreBlock(n, b) \/ StashBlock(n, b)
           \/ RefuseBlock(n, b) \/ IngestFails(n, b)
  <2> HIDE DEF b
  <2>1. /\ LogUnchanged
        /\ dbLocked' \in [Node -> BOOLEAN] /\ faults' \in Nat
        /\ unprocessed' \in [Node -> SUBSET Block]
        /\ totalSeen' \in [Node -> Nat]
    BY <1>1, <1>4, NotStored
  <2>2. TypeOK'
    BY <2>1 DEF IInv, TypeOK, DoProcessBlock, LogUnchanged, Phase
  <2> QED BY <1>2, <2>1, <2>2, KeepLog DEF IInv
<1> QED BY <1>3, <1>4 DEF DoProcessBlock

LEMMA RestartIInv ==
  ASSUME IInv, NEW n \in Node, Restart(n)
  PROVE  IInv'
<1> USE DEF Restart, CreateTables
<1>1. Len(blocks[n]) \in Nat
  BY DEF IInv, TypeOK
<1>2. TypeOK'
  BY <1>1, BlockTypes DEF IInv, TypeOK, Phase
<1>3. InHand'
  BY DEF IInv, InHand, TypeOK
<1>4. TablesInStep'
  BY DEF IInv, TablesInStep
<1>5. LogChained'
  <2> SUFFICES ASSUME NEW m \in Node PROVE LastIsTail(m)' /\ Linked(m)'
    BY DEF LogChained
  <2>1. LastIsTail(m) /\ Linked(m)
    BY DEF IInv, LogChained
  <2>2. /\ boot \in [Node -> Nat] /\ lastBlock \in [Node -> Block]
        /\ boot' = [boot EXCEPT ![n] = Len(blocks[n])]
        /\ lastBlock' = [lastBlock EXCEPT ![n] = Genesis]
        /\ blocks' = blocks
    BY DEF IInv, TypeOK
  <2>3. CASE m = n
    <3>1. boot'[m] = Len(blocks'[m]) /\ lastBlock'[m] = Genesis
      BY <2>2, <2>3
    <3>2. WrittenRows(m)' = {}
      BY <1>1, <2>2, <2>3, <3>1 DEF WrittenRows
    <3> QED BY <1>1, <2>2, <2>3, <3>1, <3>2 DEF LastIsTail, Linked
  <2>4. CASE m # n
    BY <2>1, <2>2, <2>4 DEF LastIsTail, Linked, WrittenRows
  <2> QED BY <2>3, <2>4
<1> QED BY <1>2, <1>3, <1>4, <1>5 DEF IInv

LEMMA TickIInv == IInv /\ Tick => IInv'
<1> SUFFICES ASSUME IInv, Tick PROVE IInv'
  OBVIOUS
<1>1. TypeOK'
  BY DEF IInv, TypeOK, Tick, dbVars, loopVars
<1>2. InHand'
  BY DEF IInv, InHand, Tick, loopVars
<1>3. TablesInStep' /\ LogChained'
  BY KeepLog DEF LogUnchanged, Tick, dbVars
<1> QED BY <1>1, <1>2, <1>3 DEF IInv

LEMMA StutterIInv == IInv /\ UNCHANGED vars => IInv'
<1> SUFFICES ASSUME IInv, UNCHANGED vars PROVE IInv'
  OBVIOUS
<1> USE DEF vars
<1>1. TypeOK'
  BY DEF IInv, TypeOK
<1>2. InHand'
  BY DEF IInv, InHand
<1>3. TablesInStep' /\ LogChained'
  BY KeepLog DEF LogUnchanged
<1> QED BY <1>1, <1>2, <1>3 DEF IInv

-----------------------------------------------------------------------------
(* What handling a block does to the log and to the stash, for the modules *)
(* that compose processes.                                                 *)
HandlesBlock(n) == DrainOne(n) \/ DrainEnds(n) \/ DoProcessBlock(n)

(* The log stays, or grows by a block with the operator's signature and an *)
(* admissible transaction that was in the stash or in hand.                *)
LEMMA HandledLog ==
  ASSUME IInv, NEW n \in Node, HandlesBlock(n)
  PROVE  \/ LogUnchanged
         \/ \E b \in unprocessed[n] \cup ({cur[n]} \ {NoBlock}) :
              SignedByOperator(b) /\ Admissible(b.body) /\ Extends(n, b)
<1>0. boot' = boot
  BY DEF HandlesBlock, DrainOne, DrainEnds, DoProcessBlock
<1>1. CASE DrainOne(n)
  <2>1. PICK b \in Satisfied(n) : IngestBlock(n, b)
    BY <1>1 DEF DrainOne
  <2>2. /\ b \in Block /\ b \in unprocessed[n]
        /\ SignedByOperator(b) /\ Admissible(b.body)
    BY <2>1 DEF IInv, TypeOK, Satisfied, IngestBlock, Fits,
                VerifySequenceMessage, Admissible
  <2> QED BY <1>0, <2>1, <2>2, Stored
<1>2. CASE DrainEnds(n)
  <2>1. CASE UNCHANGED <<dbVars, faults, lastBlock, unprocessed, totalSeen>>
    BY <1>0, <2>1 DEF LogUnchanged, dbVars
  <2>2. CASE \E b \in Satisfied(n) : RefuseBlock(n, b) \/ IngestFails(n, b)
    <3>1. PICK b \in Satisfied(n) : RefuseBlock(n, b) \/ IngestFails(n, b)
      BY <2>2
    <3>2. b \in Block
      BY DEF IInv, TypeOK, Satisfied
    <3> QED BY <1>0, <3>1, <3>2, NotStored
  <2> QED BY <1>2, <2>1, <2>2 DEF DrainEnds
<1>3. CASE DoProcessBlock(n)
  <2>1. cur[n] \in Block /\ cur[n] # NoBlock
    BY <1>3, SequencerCoreAssumption DEF IInv, InHand, DoProcessBlock
  <2>2. CASE IngestBlock(n, cur[n])
    <3>1. SignedByOperator(cur[n]) /\ Admissible(cur[n].body)
      BY <2>2 DEF IngestBlock, Fits, VerifySequenceMessage, Admissible
    <3> QED BY <1>0, <2>1, <2>2, <3>1, Stored
  <2>3. CASE ~IngestBlock(n, cur[n])
    BY <1>0, <1>3, <2>1, <2>3, NotStored DEF DoProcessBlock
  <2> QED BY <2>2, <2>3
<1> QED BY <1>1, <1>2, <1>3 DEF HandlesBlock

(* The stash only ever takes in the block in hand, and the loop moves on   *)
(* without touching what belongs to other parts of the process.            *)
LEMMA HandledStash ==
  ASSUME IInv, NEW n \in Node, HandlesBlock(n), NEW m \in Node
  PROVE  /\ unprocessed'[m] \subseteq unprocessed[m] \cup ({cur[m]} \ {NoBlock})
         /\ cur'[m] \in {cur[m], NoBlock}
         /\ phase'[m] \in {phase[m], "select", "process"}
         /\ m # n => phase'[m] = phase[m]
<1>0. /\ unprocessed \in [Node -> SUBSET Block]
      /\ cur \in [Node -> Block \cup {NoBlock}] /\ phase \in [Node -> Phase]
  BY DEF IInv, TypeOK
<1>1. CASE DrainOne(n)
  BY <1>0, <1>1 DEF DrainOne, DeleteProcessed, loopVars
<1>2. CASE DrainEnds(n)
  <2>1. unprocessed' = unprocessed
    BY <1>2 DEF DrainEnds, RefuseBlock, IngestFails
  <2> QED BY <1>0, <1>2, <2>1 DEF DrainEnds
<1>3. CASE DoProcessBlock(n)
  <2>1. cur[n] # NoBlock
    BY <1>3, SequencerCoreAssumption DEF IInv, InHand, DoProcessBlock
  <2>2. \/ unprocessed' = unprocessed
        \/ unprocessed' = [unprocessed EXCEPT ![n] =
             {c \in @ : c.height # cur[n].height} \cup {cur[n]}]
    BY <1>3 DEF DoProcessBlock, IgnoreBlock, StashBlock, RefuseBlock, IngestFails
  <2>3. unprocessed'[m] \subseteq unprocessed[m] \cup ({cur[m]} \ {NoBlock})
    BY <1>0, <2>1, <2>2
  <2> QED BY <1>0, <1>3, <2>3 DEF DoProcessBlock
<1> QED BY <1>1, <1>2, <1>3 DEF HandlesBlock

-----------------------------------------------------------------------------
LEMMA LoopStepIInv ==
  ASSUME IInv, NEW n \in Node, LoopStep(n)
  PROVE  IInv'
BY DoSequenceWorkIInv, DrainOneIInv, DrainEndsIInv, DoProcessBlockIInv
   DEF LoopStep

(* Every step keeps the inductive invariant.                               *)
THEOREM StepIInv == IInv /\ [Next]_vars => IInv'
<1> SUFFICES ASSUME IInv, [Next]_vars PROVE IInv'
  OBVIOUS
<1>1. CASE UNCHANGED vars
  BY <1>1, StutterIInv
<1>2. CASE Tick
  BY <1>2, TickIInv
<1>3. ASSUME NEW n \in Node, NEW tx \in Tx, Sequence(n, tx) PROVE IInv'
  BY <1>3, SequenceIInv
<1>4. ASSUME NEW n \in Node, ReceiveTx(n) PROVE IInv'
  BY <1>4, ReceiveTxIInv
<1>5. ASSUME NEW n \in Node, NEW b \in Wire[n], ProcessBlock(n, b) PROVE IInv'
  BY <1>5, ReceiveBlockIInv, SequencerCoreAssumption DEF ProcessBlock
<1>6. ASSUME NEW n \in Node, LoopStep(n) PROVE IInv'
  BY <1>6, LoopStepIInv
<1>7. ASSUME NEW n \in Node, NEW row \in handlers[n], RunListener(n, row)
      PROVE  IInv'
  BY <1>7, RunListenerIInv
<1>8. ASSUME NEW n \in Node, Restart(n) PROVE IInv'
  BY <1>8, RestartIInv
<1> QED BY <1>1, <1>2, <1>3, <1>4, <1>5, <1>6, <1>7, <1>8 DEF Next

(* The inductive invariant holds in every reachable state.                 *)
THEOREM CoreInvariant == Spec => []IInv
BY InitIInv, StepIInv, PTL DEF Spec

(* The variables keep their types, however many processes there are and    *)
(* whatever they are handed.                                               *)
THEOREM TypeCorrect == Spec => []TypeOK
<1>1. IInv => TypeOK
  BY DEF IInv
<1> QED BY <1>1, CoreInvariant, PTL

(* What a process writes between two restarts is one hash chain without a  *)
(* gap that starts at genesis and ends at LastBlock, whether the rows come *)
(* from Sequence, from ProcessBlock or from the map of early blocks.       *)
THEOREM LogChainedAlways == Spec => []LogChained
<1>1. IInv => LogChained
  BY DEF IInv
<1> QED BY <1>1, CoreInvariant, PTL

-----------------------------------------------------------------------------
(* What has been verified, and what waits.                                 *)

(* A transaction on its way to doSequenceWork has passed verification: the *)
(* loop does not look at it again.                                         *)
Checked == \A n \in Node :
  /\ \A i \in DOMAIN sequenceTxs[n] : Admissible(sequenceTxs[n][i])
  /\ phase[n] = "sequence" => Admissible(work[n])

VInv == IInv /\ Checked /\ LogVerified /\ StashIsMap

THEOREM InitVInv == Init => VInv
BY InitIInv DEF Init, VInv, Checked, LogVerified, StashIsMap

-----------------------------------------------------------------------------
(* How the parts survive a step.                                           *)

KeepsRows == blocks' = blocks

LEMMA KeepVerified == LogVerified /\ KeepsRows => LogVerified'
BY DEF LogVerified, KeepsRows

(* A row that is appended is verified if its block was.                    *)
LEMMA ExtendVerified ==
  ASSUME IInv, LogVerified, NEW n \in Node, NEW b, Extends(n, b),
         Admissible(b.body), b.sig \in {Operator, KeyOf[n]}
  PROVE  LogVerified'
<1>1. blocks \in [Node -> Seq(Block)]
  BY DEF IInv, TypeOK
<1>2. /\ blocks'[n] = Append(blocks[n], b)
      /\ \A m \in Node : m # n => blocks'[m] = blocks[m]
  BY <1>1 DEF Extends
<1> SUFFICES ASSUME NEW m \in Node, NEW i \in 1..Len(blocks'[m])
             PROVE  /\ Admissible(blocks'[m][i].body)
                    /\ blocks'[m][i].sig \in {Operator, KeyOf[m]}
  BY DEF LogVerified
<1>3. CASE m # n
  BY <1>2, <1>3 DEF LogVerified
<1>4. CASE m = n
  <2>1. \/ i \in 1..Len(blocks[n]) /\ blocks'[n][i] = blocks[n][i]
        \/ blocks'[n][i] = b
    BY <1>1, <1>2, <1>4
  <2> QED BY <1>4, <2>1 DEF LogVerified
<1> QED BY <1>3, <1>4

(* Nothing is added to the map of early blocks.                            *)
LEMMA ShrinkStash ==
  ASSUME StashIsMap, \A n \in Node : unprocessed'[n] \subseteq unprocessed[n]
  PROVE  StashIsMap'
BY DEF StashIsMap

-----------------------------------------------------------------------------
(* The steps.                                                              *)

LEMMA SequenceVInv ==
  ASSUME VInv, NEW n \in Node, NEW tx \in Tx, Sequence(n, tx)
  PROVE  Checked' /\ LogVerified' /\ StashIsMap'
<1>1. /\ blocks' = blocks /\ unprocessed' = unprocessed
      /\ phase' = phase /\ work' = work
      /\ sequenceTxs' = [sequenceTxs EXCEPT ![n] = Append(@, tx)]
      /\ sequenceTxs \in [Node -> Seq(Tx)]
      /\ Admissible(tx) /\ Checked
  BY DEF VInv, IInv, TypeOK, Sequence, dbVars, loopVars,
         VerifySequenceMessage, Admissible
<1>2. Checked'
  <2> SUFFICES ASSUME NEW m \in Node, NEW i \in DOMAIN sequenceTxs'[m]
               PROVE  Admissible(sequenceTxs'[m][i])
    BY <1>1 DEF Checked
  <2>1. CASE m # n
    BY <1>1, <2>1 DEF Checked
  <2>2. CASE m = n
    <3>1. \/ i \in DOMAIN sequenceTxs[n]
             /\ sequenceTxs'[n][i] = sequenceTxs[n][i]
          \/ sequenceTxs'[n][i] = tx
      BY <1>1, <2>2
    <3> QED BY <1>1, <2>2, <3>1 DEF Checked
  <2> QED BY <2>1, <2>2
<1> QED BY <1>1, <1>2, KeepVerified, ShrinkStash DEF VInv, KeepsRows

LEMMA ReceiveTxVInv ==
  ASSUME VInv, NEW n \in Node, ReceiveTx(n)
  PROVE  Checked' /\ LogVerified' /\ StashIsMap'
<1>1. /\ blocks' = blocks /\ unprocessed' = unprocessed
      /\ phase' = [phase EXCEPT ![n] = "sequence"]
      /\ work' = [work EXCEPT ![n] = Head(sequenceTxs[n])]
      /\ sequenceTxs' = [sequenceTxs EXCEPT ![n] = Tail(@)]
      /\ sequenceTxs \in [Node -> Seq(Tx)] /\ sequenceTxs[n] # << >>
      /\ phase \in [Node -> Phase] /\ work \in [Node -> Tx \cup {NoTx}]
      /\ Checked
  BY DEF VInv, IInv, TypeOK, ReceiveTx, dbVars
<1>2. /\ Head(sequenceTxs[n]) = sequenceTxs[n][1]
      /\ 1 \in DOMAIN sequenceTxs[n]
      /\ \A i \in DOMAIN Tail(sequenceTxs[n]) :
           /\ i + 1 \in DOMAIN sequenceTxs[n]
           /\ Tail(sequenceTxs[n])[i] = sequenceTxs[n][i + 1]
  BY <1>1
<1>3. Checked'
  <2> SUFFICES ASSUME NEW m \in Node
               PROVE  /\ \A i \in DOMAIN sequenceTxs'[m] :
                           Admissible(sequenceTxs'[m][i])
                      /\ phase'[m] = "sequence" => Admissible(work'[m])
    BY DEF Checked
  <2>1. CASE m # n
    BY <1>1, <2>1 DEF Checked
  <2>2. CASE m = n
    <3>1. sequenceTxs'[n] = Tail(sequenceTxs[n])
          /\ work'[n] = sequenceTxs[n][1]
      BY <1>1, <1>2
    <3> QED BY <1>1, <1>2, <2>2, <3>1 DEF Checked
  <2> QED BY <2>1, <2>2
<1> QED BY <1>1, <1>3, KeepVerified, ShrinkStash DEF VInv, KeepsRows

LEMMA DoSequenceWorkVInv ==
  ASSUME VInv, NEW n \in Node, DoSequenceWork(n)
  PROVE  Checked' /\ LogVerified' /\ StashIsMap'
<1> DEFINE b == ChainedBlock(lastBlock[n], work[n], KeyOf[n])
<1>1. /\ unprocessed' = unprocessed /\ sequenceTxs' = sequenceTxs
      /\ boot' = boot
      /\ phase' = [phase EXCEPT ![n] = "select"]
      /\ work' = [work EXCEPT ![n] = NoTx]
      /\ phase \in [Node -> Phase] /\ work \in [Node -> Tx \cup {NoTx}]
      /\ IInv /\ Checked /\ LogVerified /\ StashIsMap
  BY DEF VInv, IInv, TypeOK, DoSequenceWork
<1>2. phase[n] = "sequence" /\ Admissible(work[n])
  BY <1>1 DEF DoSequenceWork, Checked
<1>3. Checked'
  BY <1>1 DEF Checked
<1>4. b.body = work[n] /\ b.sig = KeyOf[n]
  BY DEF ChainedBlock, ConstructBlock, Signed
<1> HIDE DEF b
<1>5. LogVerified'
  <2>1. CASE ChainBlock(n, b)
    <3>1. Extends(n, b)
      BY <1>1, <1>2, <2>1, Chained DEF b
    <3> QED BY <1>1, <1>2, <1>4, <3>1, ExtendVerified
  <2>2. CASE CommitFails(n)
    BY <1>1, <2>2, FailedCommit, KeepVerified DEF KeepsRows
  <2> QED BY <2>1, <2>2 DEF DoSequenceWork, b
<1> QED BY <1>1, <1>3, <1>5, ShrinkStash

(* The loop handles a block.                                               *)
LEMMA HandlesBlockVInv ==
  ASSUME VInv, NEW n \in Node, HandlesBlock(n)
  PROVE  Checked' /\ LogVerified' /\ StashIsMap'
<1>0. IInv /\ Checked /\ LogVerified /\ StashIsMap /\ TypeOK
  BY DEF VInv, IInv
<1>1. sequenceTxs' = sequenceTxs /\ work' = work
  BY DEF HandlesBlock, DrainOne, DrainEnds, DoProcessBlock, loopVars
<1>2. Checked'
  <2>1. \A m \in Node : phase'[m] = "sequence" => phase[m] = "sequence"
    BY <1>0, HandledStash
  <2> QED BY <1>0, <1>1, <2>1 DEF Checked
<1>3. LogVerified'
  <2>1. CASE LogUnchanged
    BY <1>0, <2>1, KeepVerified DEF LogUnchanged, KeepsRows
  <2>2. ASSUME NEW b, SignedByOperator(b), Admissible(b.body), Extends(n, b)
        PROVE  LogVerified'
    <3>1. b.sig \in {Operator, KeyOf[n]}
      BY <2>2 DEF SignedByOperator
    <3> QED BY <1>0, <2>2, <3>1, ExtendVerified
  <2> QED BY <1>0, <2>1, <2>2, HandledLog
<1>4. StashIsMap'
  <2>1. CASE DrainOne(n)
    BY <1>0, <2>1, ShrinkStash DEF DrainOne, DeleteProcessed, TypeOK
  <2>2. CASE DrainEnds(n)
    BY <1>0, <2>2, ShrinkStash DEF DrainEnds, RefuseBlock, IngestFails
  <2>3. CASE DoProcessBlock(n)
    <3>1. CASE unprocessed' = unprocessed
      BY <1>0, <3>1, ShrinkStash
    <3>2. CASE StashBlock(n, cur[n])
      <4>1. /\ SignedByOperator(cur[n]) /\ cur[n] \in Block
            /\ lastBlock[n].height + 1 < cur[n].height
            /\ unprocessed' = [unprocessed EXCEPT ![n] =
                 {c \in @ : c.height # cur[n].height} \cup {cur[n]}]
            /\ unprocessed \in [Node -> SUBSET Block]
        BY <1>0, <2>3, <3>2 DEF StashBlock, IInv, InHand, DoProcessBlock, TypeOK
      <4>2. cur[n].height > 1
        <5>1. cur[n].height \in Nat /\ lastBlock[n].height \in Nat
          BY <1>0, <4>1 DEF TypeOK, Block
        <5> QED BY <4>1, <5>1
      <4>3. /\ unprocessed'[n] =
                 {c \in unprocessed[n] : c.height # cur[n].height} \cup {cur[n]}
            /\ \A m \in Node : m # n => unprocessed'[m] = unprocessed[m]
        BY <4>1
      <4> QED BY <1>0, <4>1, <4>2, <4>3 DEF StashIsMap
    <3> QED BY <2>3, <3>1, <3>2 DEF DoProcessBlock, IgnoreBlock, RefuseBlock,
                                    IngestFails
  <2> QED BY <2>1, <2>2, <2>3 DEF HandlesBlock
<1> QED BY <1>2, <1>3, <1>4

LEMMA RestartVInv ==
  ASSUME VInv, NEW n \in Node, Restart(n)
  PROVE  Checked' /\ LogVerified' /\ StashIsMap'
<1>1. /\ blocks' = blocks
      /\ unprocessed' = [unprocessed EXCEPT ![n] = {}]
      /\ sequenceTxs' = [sequenceTxs EXCEPT ![n] = << >>]
      /\ phase' = [phase EXCEPT ![n] = "select"]
      /\ work' = [work EXCEPT ![n] = NoTx]
      /\ TypeOK /\ Checked /\ LogVerified /\ StashIsMap
  BY DEF VInv, IInv, Restart, CreateTables
<1>2. Checked'
  BY <1>1 DEF Checked, TypeOK
<1>3. \A m \in Node : unprocessed'[m] \subseteq unprocessed[m]
  BY <1>1 DEF TypeOK
<1> QED BY <1>1, <1>2, <1>3, KeepVerified, ShrinkStash DEF KeepsRows

(* The steps that touch neither transactions, rows nor early blocks.       *)
LEMMA OtherVInv ==
  ASSUME VInv,
         \/ UNCHANGED vars \/ Tick
         \/ \E n \in Node : \E b \in Block : ReceiveBlock(n, b)
         \/ \E n \in Node : \E row \in handlers[n] : RunListener(n, row)
  PROVE  Checked' /\ LogVerified' /\ StashIsMap'
<1>1. /\ blocks' = blocks /\ unprocessed' = unprocessed
      /\ sequenceTxs' = sequenceTxs /\ work' = work
  BY DEF vars, Tick, ReceiveBlock, RunListener, dbVars, loopVars
<1>2. \A m \in Node : phase'[m] = "sequence" => phase[m] = "sequence"
  BY DEF vars, Tick, ReceiveBlock, RunListener, loopVars, VInv, IInv, TypeOK
<1>3. Checked'
  BY <1>1, <1>2 DEF VInv, Checked
<1> QED BY <1>1, <1>3, KeepVerified, ShrinkStash DEF VInv, KeepsRows

THEOREM StepVInv == VInv /\ [Next]_vars => VInv'
<1> SUFFICES ASSUME VInv, [Next]_vars PROVE VInv'
  OBVIOUS
<1>1. IInv'
  BY StepIInv DEF VInv
<1>2. Checked' /\ LogVerified' /\ StashIsMap'
  <2>1. ASSUME NEW n \in Node, NEW b \in Wire[n], ProcessBlock(n, b)
        PROVE  Checked' /\ LogVerified' /\ StashIsMap'
    <3>1. b \in Block
      BY SequencerCoreAssumption
    <3> QED BY <2>1, <3>1, OtherVInv DEF ProcessBlock
  <2>2. ASSUME NEW n \in Node, LoopStep(n)
        PROVE  Checked' /\ LogVerified' /\ StashIsMap'
    BY <2>2, DoSequenceWorkVInv, HandlesBlockVInv DEF LoopStep, HandlesBlock
  <2>3. CASE Tick \/ UNCHANGED vars
    BY <2>3, OtherVInv
  <2>4. ASSUME NEW n \in Node, NEW row \in handlers[n], RunListener(n, row)
        PROVE  Checked' /\ LogVerified' /\ StashIsMap'
    BY <2>4, OtherVInv
  <2> QED BY <2>1, <2>2, <2>3, <2>4, SequenceVInv, ReceiveTxVInv, RestartVInv
          DEF Next
<1> QED BY <1>1, <1>2 DEF VInv

-----------------------------------------------------------------------------
(* Every row of the table blocks carries an authentic transaction with     *)
(* known conditions and the signature of the operator or of the process,   *)
(* whether verifySequenceMessage was called by Sequence, by doProcessBlock *)
(* or by checkOutOfOrderBlocks.                                            *)
THEOREM LogVerifiedAlways == Spec => []LogVerified
<1>1. VInv => LogVerified
  BY DEF VInv
<1> QED BY <1>1, InitVInv, StepVInv, PTL DEF Spec

(* unprocessedBlockAtHeight holds one operator block per height, none of   *)
(* which is a first block.                                                 *)
THEOREM StashIsMapAlways == Spec => []StashIsMap
<1>1. VInv => StashIsMap
  BY DEF VInv
<1> QED BY <1>1, InitVInv, StepVInv, PTL DEF Spec

-----------------------------------------------------------------------------
(* What a step may do to the tables.                                       *)

LEMMA StepsOfLog ==
  ASSUME IInv, [Next]_vars
  PROVE  \/ UNCHANGED <<sequence, blocks>>
         \/ \E n \in Node : \E b : Extends(n, b)
<1>1. CASE UNCHANGED vars
  BY <1>1 DEF vars
<1>2. CASE Tick
  BY <1>2 DEF Tick, dbVars
<1>3. ASSUME NEW n \in Node,
             \/ \E tx \in Tx : Sequence(n, tx)
             \/ ReceiveTx(n)
             \/ \E b \in Wire[n] : ProcessBlock(n, b)
             \/ \E row \in handlers[n] : RunListener(n, row)
             \/ Restart(n)
      PROVE  UNCHANGED <<sequence, blocks>>
  BY <1>3 DEF Sequence, ReceiveTx, ProcessBlock, ReceiveBlock, RunListener,
       Restart, CreateTables, dbVars
<1>4. ASSUME NEW n \in Node, DoSequenceWork(n)
      PROVE  UNCHANGED <<sequence, blocks>> \/ \E b : Extends(n, b)
  <2> DEFINE b == ChainedBlock(lastBlock[n], work[n], KeyOf[n])
  <2>1. phase[n] = "sequence" /\ boot' = boot
    BY <1>4 DEF DoSequenceWork
  <2>2. ChainBlock(n, b) => Extends(n, b)
    BY <2>1, Chained
  <2> QED BY <1>4, <2>2, FailedCommit DEF DoSequenceWork
<1>5. ASSUME NEW n \in Node, HandlesBlock(n)
      PROVE  UNCHANGED <<sequence, blocks>> \/ \E b : Extends(n, b)
  BY <1>5, HandledLog DEF LogUnchanged
<1> QED BY <1>1, <1>2, <1>3, <1>4, <1>5 DEF Next, LoopStep, HandlesBlock

(* A row of either table, once there, stays what it is where it is, and a  *)
(* step adds at most one: failed insertions and restarts included.         *)
THEOREM LogAppendOnlyAlways == Spec => LogAppendOnly
<1>1. ASSUME IInv, [Next]_vars
      PROVE  \A n \in Node :
               /\ Len(blocks'[n]) \in {Len(blocks[n]), Len(blocks[n]) + 1}
               /\ SubSeq(blocks'[n], 1, Len(blocks[n])) = blocks[n]
               /\ SubSeq(sequence'[n], 1, Len(sequence[n])) = sequence[n]
  <2>1. sequence \in [Node -> Seq(Tx)] /\ blocks \in [Node -> Seq(Block)]
    BY <1>1 DEF IInv, TypeOK
  <2> TAKE n \in Node
  <2>2. sequence[n] \in Seq(Tx) /\ blocks[n] \in Seq(Block)
    BY <2>1
  <2>3. /\ SubSeq(blocks[n], 1, Len(blocks[n])) = blocks[n]
        /\ SubSeq(sequence[n], 1, Len(sequence[n])) = sequence[n]
    BY <2>2, SubSeqFull
  <2>4. CASE sequence'[n] = sequence[n] /\ blocks'[n] = blocks[n]
    BY <2>3, <2>4
  <2>5. CASE \E b : Extends(n, b)
    <3>1. PICK b : Extends(n, b)
      BY <2>5
    <3>2. /\ blocks'[n] = Append(blocks[n], b) /\ b \in Block
          /\ sequence'[n] = Append(sequence[n], b.body) /\ b.body \in Tx
      BY <2>1, <3>1 DEF Extends
    <3> QED BY <2>2, <3>2, AppendKeeps
  <2>6. ASSUME NEW m \in Node, m # n, NEW b, Extends(m, b)
        PROVE  sequence'[n] = sequence[n] /\ blocks'[n] = blocks[n]
    BY <2>1, <2>6 DEF Extends
  <2> QED BY <1>1, <2>4, <2>5, <2>6, StepsOfLog
<1> QED BY <1>1, CoreInvariant, PTL DEF Spec, LogAppendOnly

-----------------------------------------------------------------------------
(* What a step may do to the map of early blocks.                          *)

\* Why b may be missing from the stash of n after a step.
Excused(n, b) ==
  \/ lastBlock'[n] = b /\ Len(blocks'[n]) > Len(blocks[n])
  \/ \E c \in unprocessed'[n] : c.height = b.height

LEMMA HandledKeeps ==
  ASSUME VInv, NEW n \in Node, HandlesBlock(n),
         NEW m \in Node, NEW b \in unprocessed[m] \ unprocessed'[m]
  PROVE  Excused(m, b)
<1>0. /\ IInv /\ StashIsMap /\ unprocessed \in [Node -> SUBSET Block]
      /\ lastBlock \in [Node -> Block] /\ blocks \in [Node -> Seq(Block)]
  BY DEF VInv, IInv, TypeOK
<1>1. CASE DrainOne(n)
  <2>1. PICK c \in Satisfied(n) : IngestBlock(n, c)
    BY <1>1 DEF DrainOne
  <2>2. /\ c \in unprocessed[n] /\ c \in Block
        /\ lastBlock' = [lastBlock EXCEPT ![n] = c]
        /\ blocks' = [blocks EXCEPT ![n] = Append(@, c)]
        /\ unprocessed' = [unprocessed EXCEPT ![n] =
             {d \in @ : d.height # lastBlock'[n].height}]
    BY <1>0, <1>1, <2>1
       DEF DrainOne, Satisfied, IngestBlock, Commit, DeleteProcessed
  <2>3. m = n /\ b.height = c.height
    BY <1>0, <2>2
  <2>4. b = c
    BY <1>0, <2>2, <2>3 DEF StashIsMap
  <2>5. Len(blocks'[n]) = Len(blocks[n]) + 1 /\ Len(blocks[n]) \in Nat
    BY <1>0, <2>2, AppendKeeps, LenProperties
  <2> QED BY <1>0, <2>2, <2>3, <2>4, <2>5 DEF Excused
<1>2. CASE DrainEnds(n)
  BY <1>2 DEF DrainEnds, RefuseBlock, IngestFails
<1>3. CASE DoProcessBlock(n)
  <2>1. unprocessed' = [unprocessed EXCEPT ![n] =
          {c \in @ : c.height # cur[n].height} \cup {cur[n]}]
    BY <1>3 DEF DoProcessBlock, IgnoreBlock, StashBlock, RefuseBlock,
         IngestFails
  <2>2. m = n /\ b.height = cur[n].height /\ cur[n] \in unprocessed'[n]
    BY <1>0, <2>1
  <2> QED BY <2>2 DEF Excused
<1> QED BY <1>1, <1>2, <1>3 DEF HandlesBlock

(* A block that came too early is not forgotten while the process runs: it *)
(* goes to the log or makes room for a block of its height.                *)
THEOREM StashKeptAlways == Spec => StashKept
<1>1. ASSUME VInv, [Next]_vars
      PROVE  \A n \in Node : restarts' = restarts =>
               \A b \in unprocessed[n] \ unprocessed'[n] :
                 \/ lastBlock'[n] = b /\ Len(blocks'[n]) > Len(blocks[n])
                 \/ \E c \in unprocessed'[n] : c.height = b.height
  <2> SUFFICES ASSUME NEW m \in Node, restarts' = restarts,
                      NEW b \in unprocessed[m] \ unprocessed'[m]
               PROVE  Excused(m, b)
    BY DEF Excused
  <2>1. unprocessed' # unprocessed
    OBVIOUS
  <2>2. ~(Tick \/ UNCHANGED vars)
    BY <2>1 DEF Tick, vars
  <2>3. ASSUME NEW n \in Node
        PROVE  /\ \A tx \in Tx : ~Sequence(n, tx)
               /\ ~ReceiveTx(n)
               /\ \A c \in Wire[n] : ~ProcessBlock(n, c)
               /\ ~DoSequenceWork(n)
               /\ \A row \in handlers[n] : ~RunListener(n, row)
    BY <2>1 DEF Sequence, ReceiveTx, ProcessBlock, ReceiveBlock,
         DoSequenceWork, RunListener
  <2>4. \A n \in Node : ~Restart(n)
    BY <1>1 DEF Restart, VInv, IInv, TypeOK
  <2>5. \E n \in Node : HandlesBlock(n)
    BY <1>1, <2>2, <2>3, <2>4 DEF Next, LoopStep, HandlesBlock
  <2> QED BY <1>1, <2>5, HandledKeeps
<1>2. Spec => []VInv
  BY InitVInv, StepVInv, PTL DEF Spec
<1> QED BY <1>1, <1>2, PTL DEF Spec, StashKept

-----------------------------------------------------------------------------
(* The stash is looked through before the block in hand is processed.      *)

(* The write lock is held for good only after a failure.                   *)
LockIsFault == \A n \in Node : dbLocked[n] => faults > 0

DInv == VInv /\ LockIsFault /\ DrainedBeforeProcess

\* A failure, or the lock of an earlier one.
LEMMA FailureCounts ==
  ASSUME DInv, NEW n \in Node, CommitFails(n)
  PROVE  faults' > 0
<1>1. faults \in Nat
  BY DEF DInv, VInv, IInv, TypeOK
<1> QED BY <1>1 DEF DInv, LockIsFault, CommitFails

LEMMA FaultsStay ==
  ASSUME DInv, [Next]_vars
  PROVE  faults' \in Nat /\ faults <= faults'
<1>1. faults \in Nat /\ VInv' /\ VInv
  BY StepVInv DEF DInv, VInv, IInv, TypeOK
<1>2. faults' \in Nat
  BY <1>1 DEF VInv, IInv, TypeOK
<1>3. faults' = faults \/ faults' = faults + 1
  BY ZenonT(30) DEF Next, vars, Sequence, ReceiveTx, ProcessBlock, ReceiveBlock,
     LoopStep, DoSequenceWork, ChainBlock, Commit, CommitFails, DrainOne,
     DrainEnds, DoProcessBlock, IgnoreBlock, StashBlock, RefuseBlock,
     IngestBlock, IngestFails, RunListener, Restart, Tick, dbVars, worldVars
<1> QED BY <1>1, <1>2, <1>3

LEMMA LockKept ==
  ASSUME DInv, [Next]_vars
  PROVE  LockIsFault'
<1>0. /\ dbLocked \in [Node -> BOOLEAN] /\ LockIsFault /\ faults \in Nat
  BY DEF DInv, VInv, IInv, TypeOK
<1>1. CASE \E n \in Node : CommitFails(n)
  BY <1>1, FailureCounts DEF LockIsFault
<1>2. CASE \E n \in Node : Restart(n)
  BY <1>0, <1>2, FaultsStay DEF Restart, LockIsFault
<1>3. CASE dbLocked' = dbLocked
  BY <1>0, <1>3, FaultsStay DEF LockIsFault
<1>4. \/ \E n \in Node : CommitFails(n) \/ Restart(n)
      \/ dbLocked' = dbLocked
  BY ZenonT(30) DEF Next, vars, Sequence, ReceiveTx, ProcessBlock, ReceiveBlock,
     LoopStep, DoSequenceWork, ChainBlock, Commit, DrainOne,
     DrainEnds, DoProcessBlock, IgnoreBlock, StashBlock, RefuseBlock,
     IngestBlock, IngestFails, RunListener, Tick, dbVars, worldVars
<1> QED BY <1>1, <1>2, <1>3, <1>4

(* The loop gets to its block only by ending the look through the stash,   *)
(* and what it has found there is still so while it has the block in hand. *)
LEMMA TurnsToProcess ==
  ASSUME VInv, [Next]_vars, NEW n \in Node, phase'[n] = "process"
  PROVE  \/ DrainEnds(n)
         \/ /\ phase[n] = "process"
            /\ lastBlock'[n] = lastBlock[n]
            /\ unprocessed'[n] = unprocessed[n]
<1>0. /\ phase \in [Node -> Phase] /\ lastBlock \in [Node -> Block]
      /\ unprocessed \in [Node -> SUBSET Block]
  BY DEF VInv, IInv, TypeOK
<1>1. CASE Tick \/ UNCHANGED vars
  BY <1>1 DEF Tick, vars, loopVars
<1>2. ASSUME NEW m \in Node, DrainEnds(m) \/ DoProcessBlock(m), m # n
      PROVE  /\ phase'[n] = phase[n] /\ lastBlock'[n] = lastBlock[n]
             /\ unprocessed'[n] = unprocessed[n]
  BY <1>0, <1>2 DEF DrainEnds, DoProcessBlock, IgnoreBlock, StashBlock,
       RefuseBlock, IngestBlock, IngestFails
<1>3. ~DoProcessBlock(n)
  BY <1>0 DEF DoProcessBlock
<1>4. ASSUME NEW m \in Node, DrainOne(m)
      PROVE  m # n /\ phase'[n] = phase[n] /\ lastBlock'[n] = lastBlock[n]
             /\ unprocessed'[n] = unprocessed[n]
  BY <1>0, <1>4 DEF DrainOne, DeleteProcessed, IngestBlock, loopVars
<1>5. ASSUME NEW m \in Node, DoSequenceWork(m)
      PROVE  m # n /\ phase'[n] = phase[n] /\ lastBlock'[n] = lastBlock[n]
             /\ unprocessed'[n] = unprocessed[n]
  BY <1>0, <1>5 DEF DoSequenceWork, ChainBlock
<1>6. ASSUME NEW m \in Node,
             \/ \E tx \in Tx : Sequence(m, tx)
             \/ ReceiveTx(m)
             \/ \E b \in Wire[m] : ProcessBlock(m, b)
             \/ \E row \in handlers[m] : RunListener(m, row)
      PROVE  /\ phase'[n] = phase[n] /\ lastBlock'[n] = lastBlock[n]
             /\ unprocessed'[n] = unprocessed[n]
  BY <1>0, <1>6 DEF Sequence, ReceiveTx, ProcessBlock, ReceiveBlock,
       RunListener, loopVars
<1>7. ASSUME NEW m \in Node, Restart(m)
      PROVE  /\ phase'[n] = phase[n] /\ lastBlock'[n] = lastBlock[n]
             /\ unprocessed'[n] = unprocessed[n]
  BY <1>0, <1>7 DEF Restart
<1> QED BY <1>1, <1>2, <1>3, <1>4, <1>5, <1>6, <1>7 DEF Next, LoopStep

LEMMA DrainedKept ==
  ASSUME DInv, [Next]_vars
  PROVE  DrainedBeforeProcess'
<1> SUFFICES ASSUME NEW n \in Node, phase'[n] = "process", faults' = 0,
                    NEW b \in unprocessed'[n],
                    b.height = lastBlock'[n].height + 1,
                    b.prev = SigHash(lastBlock'[n]), b.body # NoTx,
                    Admissible(b.body)
             PROVE  FALSE
  BY DEF DrainedBeforeProcess, IsChild, Fits, VerifySequenceMessage, Admissible
<1>0. VInv /\ StashIsMap /\ faults = 0
  BY FaultsStay DEF DInv, VInv, IInv, TypeOK
<1>1. CASE /\ phase[n] = "process"
           /\ lastBlock'[n] = lastBlock[n]
           /\ unprocessed'[n] = unprocessed[n]
  BY <1>0, <1>1 DEF DInv, DrainedBeforeProcess, IsChild, Fits,
     VerifySequenceMessage, Admissible
<1>2. CASE DrainEnds(n)
  <2>1. lastBlock' = lastBlock /\ unprocessed' = unprocessed
    BY <1>2 DEF DrainEnds, RefuseBlock, IngestFails
  <2>2. b \in Satisfied(n) /\ Fits(n, b)
    BY <2>1 DEF Satisfied, IsChild, Fits, VerifySequenceMessage, Admissible
  <2>3. PICK c \in Satisfied(n) : RefuseBlock(n, c) \/ IngestFails(n, c)
    BY <1>2, <2>2 DEF DrainEnds
  <2>4. c = b
    BY <1>0, <2>2, <2>3 DEF StashIsMap, Satisfied, IsChild
  <2>5. IngestFails(n, b)
    BY <2>2, <2>3, <2>4 DEF RefuseBlock
  <2> QED BY <2>5, FailureCounts DEF IngestFails
<1> QED BY <1>0, <1>1, <1>2, TurnsToProcess

THEOREM DrainedInvariant == Spec => []DInv
<1>1. Init => DInv
  BY InitVInv DEF Init, DInv, LockIsFault, DrainedBeforeProcess
<1>2. DInv /\ [Next]_vars => DInv'
  BY StepVInv, LockKept, DrainedKept DEF DInv
<1> QED BY <1>1, <1>2, PTL DEF Spec

(* Before doProcessBlock looks at the block the loop has received, every   *)
(* block of the stash that fits the log is in it, unless the database has  *)
(* failed: checkOutOfOrderBlocks stops early at a block it refuses, and    *)
(* there is no other of that height.                                       *)
THEOREM DrainedBeforeProcessAlways == Spec => []DrainedBeforeProcess
<1>1. DInv => DrainedBeforeProcess
  BY DEF DInv
<1> QED BY <1>1, DrainedInvariant, PTL
=============================================================================
