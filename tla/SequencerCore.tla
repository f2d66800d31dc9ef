--------------------------- MODULE SequencerCore ---------------------------
(***************************************************************************)
(* sequencer/core.go: the log kept by one sequencer process, for every     *)
(* process of a set Node (the processes share nothing but the clock).      *)
(*                                                                         *)
(* A process owns one goroutine, loop(), that selects between two          *)
(* unbuffered channels: a transaction to sequence (sequenceTxs) or a block *)
(* to process (processBlock).  Everything that changes the log runs on     *)
(* that goroutine; RPC handlers park on the first channel, the listener of *)
(* the gossip network on the second.  phase[n] is where loop() stands.     *)
(*                                                                         *)
(* The tables sequence and blocks are on disk and survive a restart;       *)
(* everything else is rebuilt by NewSequencerCore.                         *)
(*                                                                         *)
(* A definition whose name starts with Mutant is a plausible fault of the  *)
(* definition that follows it; the properties are meant to notice it.      *)
(***************************************************************************)
EXTENDS Messages, Integers, FiniteSets

CONSTANTS
  Node,        \* sequencer processes
  KeyOf,       \* KeyOf[n]: the key of the signer of n, NoSig for a replica
  Listening,   \* processes on which OnNewBlock has been called
  Wire,        \* Wire[n]: blocks that callers may pass to ProcessBlock on n
  NoBlock,     \* no block in hand
  Restarting,  \* processes that may be stopped and started again
  MaxRows,     \* bound: rows, parked and received transactions of a signer
  MaxSeen,     \* bound: value of TotalSeen beyond which no block is offered
  MaxFaults,   \* bound: failures of the database
  MaxRestarts, \* bound: restarts of processes
  MaxTime      \* bound: the clock

ASSUME SequencerCoreAssumption ==
  /\ KeyOf \in [Node -> Key \cup {NoSig}]
  /\ Listening \subseteq Node
  /\ Wire \in [Node -> SUBSET Block]
  /\ NoBlock \notin Block
  /\ Restarting \subseteq Node
  /\ {MaxRows, MaxSeen, MaxFaults, MaxRestarts, MaxTime} \subseteq Nat

VARIABLES
  \* the database
  sequence,    \* table sequence: row i holds the i-th transaction
  blocks,      \* table blocks: row i holds the i-th block
  dbLocked,    \* a transaction begun and never ended holds the write lock
  \* the memory of SequencerCore
  lastBlock,   \* LastBlock
  unprocessed, \* unprocessedBlockAtHeight, as the set of its values
  totalSeen,   \* TotalSeen
  sequenceTxs, \* senders parked on the channel sequenceTxs, first come first
  phase,       \* "select" | "sequence" | "drain" | "process"
  work,        \* the transaction received from sequenceTxs
  cur,         \* the block received from processBlock
  handlers,    \* rows whose listener goroutines have not run yet
  \* the world
  now,         \* the clock
  faults,      \* database failures so far
  restarts,    \* restarts so far
  \* history
  replies,     \* <<tx, number>>: answers of Sequence
  boot         \* rows in the tables when the process was last started

dbVars    == <<sequence, blocks, dbLocked>>
loopVars  == <<phase, work, cur>>
worldVars == <<now, faults, restarts>>
vars == <<sequence, blocks, dbLocked, lastBlock, unprocessed, totalSeen,
          sequenceTxs, phase, work, cur, handlers, now, faults, restarts,
          replies, boot>>

Phase == {"select", "sequence", "drain", "process"}

TypeOK ==
  /\ sequence \in [Node -> Seq(Tx)]
  /\ blocks \in [Node -> Seq(Block)]
  /\ dbLocked \in [Node -> BOOLEAN]
  /\ lastBlock \in [Node -> Block]
  /\ unprocessed \in [Node -> SUBSET Block]
  /\ totalSeen \in [Node -> Nat]
  /\ sequenceTxs \in [Node -> Seq(Tx)]
  /\ phase \in [Node -> Phase]
  /\ work \in [Node -> Tx \cup {NoTx}]
  /\ cur \in [Node -> Block \cup {NoBlock}]
  /\ handlers \in [Node -> SUBSET Nat]
  /\ now \in Nat /\ faults \in Nat /\ restarts \in Nat
  /\ replies \in [Node -> SUBSET (Tx \X Nat)]
  /\ boot \in [Node -> Nat]

-----------------------------------------------------------------------------
(* NewSequencerCore on an empty database; the loop waits in its select.    *)
Init ==
  /\ sequence = [n \in Node |-> << >>]
  /\ blocks = [n \in Node |-> << >>]
  /\ dbLocked = [n \in Node |-> FALSE]
  /\ lastBlock = [n \in Node |-> Genesis]
  /\ unprocessed = [n \in Node |-> {}]
  /\ totalSeen = [n \in Node |-> 0]
  /\ sequenceTxs = [n \in Node |-> << >>]
  /\ phase = [n \in Node |-> "select"]
  /\ work = [n \in Node |-> NoTx]
  /\ cur = [n \in Node |-> NoBlock]
  /\ handlers = [n \in Node |-> {}]
  /\ now = 0 /\ faults = 0 /\ restarts = 0
  /\ replies = [n \in Node |-> {}]
  /\ boot = [n \in Node |-> 0]

-----------------------------------------------------------------------------
(* The database.                                                           *)

(* Begin, two INSERTs, Commit: one row in each table, or an error.  That   *)
(* the statements amount to one step is shown in SequencerNode, where      *)
(* each is a step that may fail (TablesAgree, ImplementsTables).  No       *)
(* error path rolls back, so a transaction that failed after it took the   *)
(* write lock keeps it, and every later one fails on its first INSERT.     *)
Commit(n, b) ==
  /\ ~dbLocked[n]
  /\ sequence' = [sequence EXCEPT ![n] = Append(@, b.body)]
  /\ blocks' = [blocks EXCEPT ![n] = Append(@, b)]
  /\ UNCHANGED <<dbLocked, faults>>

CommitFails(n) ==
  /\ \/ dbLocked[n] /\ UNCHANGED <<dbLocked, faults>>
     \/ /\ ~dbLocked[n]
        /\ faults < MaxFaults
        /\ faults' = faults + 1
        /\ \E held \in BOOLEAN : dbLocked' = [dbLocked EXCEPT ![n] = held]
  /\ UNCHANGED <<sequence, blocks>>

(* Rows from..to of the table sequence, and the number of its rows.        *)
Get(n, from, to) ==
  SubSeq(sequence[n],
         IF from < 1 THEN 1 ELSE from,
         IF to > Len(sequence[n]) THEN Len(sequence[n]) ELSE to)

Info(n) == Len(sequence[n])

-----------------------------------------------------------------------------
(* Sequencing.                                                             *)

(* A caller of Sequence verifies its transaction against the clock and     *)
(* parks on the channel, where it may stay any length of time.             *)
Sequence(n, tx) ==
  /\ KeyOf[n] # NoSig
  /\ VerifySequenceMessage(tx, TRUE, now)
  /\ Len(sequence[n]) + Len(sequenceTxs[n])
       + (IF work[n] = NoTx THEN 0 ELSE 1) < MaxRows
  /\ sequenceTxs' = [sequenceTxs EXCEPT ![n] = Append(@, tx)]
  /\ UNCHANGED <<dbVars, lastBlock, unprocessed, totalSeen, loopVars,
                 handlers, worldVars, replies, boot>>

MutantNoNumber(tx) == <<tx, -1>>

(* What Sequence answers once the loop has taken its transaction.          *)
SequenceReply(tx) == <<tx, 0>>

(* The loop takes the first parked transaction; that is all the sender     *)
(* waits for, so its answer precedes the insertion.                        *)
ReceiveTx(n) ==
  /\ phase[n] = "select"
  /\ sequenceTxs[n] # << >>
  /\ sequenceTxs' = [sequenceTxs EXCEPT ![n] = Tail(@)]
  /\ work' = [work EXCEPT ![n] = Head(sequenceTxs[n])]
  /\ phase' = [phase EXCEPT ![n] = "sequence"]
  /\ replies' = [replies EXCEPT ![n] = @ \cup {SequenceReply(Head(sequenceTxs[n]))}]
  /\ UNCHANGED <<dbVars, lastBlock, unprocessed, totalSeen, cur, handlers,
                 worldVars, boot>>

(* One goroutine per listener for the block just stored.                   *)
MutantOneSlot(n) ==          \* one pending listener, the latest
  handlers' = IF n \in Listening THEN [handlers EXCEPT ![n] = {Len(blocks'[n])}]
              ELSE handlers

StartListeners(n) ==
  handlers' = IF n \in Listening
              THEN [handlers EXCEPT ![n] = @ \cup {Len(blocks'[n])}]
              ELSE handlers

MutantSameParent(n, b) ==    \* LastBlock is not advanced
  Commit(n, b) /\ StartListeners(n) /\ UNCHANGED lastBlock

MutantDropExpired(n, b) ==   \* looks at the clock again and drops what is late
  IF VerifySequenceMessage(b.body, TRUE, now)
  THEN /\ Commit(n, b) /\ StartListeners(n)
       /\ lastBlock' = [lastBlock EXCEPT ![n] = b]
  ELSE UNCHANGED <<dbVars, faults, lastBlock, handlers>>

ChainBlock(n, b) ==
  /\ Commit(n, b)
  /\ lastBlock' = [lastBlock EXCEPT ![n] = b]
  /\ StartListeners(n)

(* doSequenceWork: chain, sign and store a block, then start the listeners;*)
(* the loop ignores its error, which drops the transaction.                *)
DoSequenceWork(n) ==
  /\ phase[n] = "sequence"
  /\ \/ ChainBlock(n, ChainedBlock(lastBlock[n], work[n], KeyOf[n]))
     \/ CommitFails(n) /\ UNCHANGED <<lastBlock, handlers>>
  /\ phase' = [phase EXCEPT ![n] = "select"]
  /\ work' = [work EXCEPT ![n] = NoTx]
  /\ UNCHANGED <<unprocessed, totalSeen, sequenceTxs, cur, now, restarts,
                 replies, boot>>

(* A listener goroutine; goroutines run in any order.                      *)
RunListener(n, row) ==
  /\ row \in handlers[n]
  /\ handlers' = [handlers EXCEPT ![n] = @ \ {row}]
  /\ UNCHANGED <<dbVars, lastBlock, unprocessed, totalSeen, sequenceTxs,
                 loopVars, worldVars, replies, boot>>

-----------------------------------------------------------------------------
(* Processing a block: the outcomes of doProcessBlock, in the order of its *)
(* checks.  Each says what becomes of the database, LastBlock, the stash   *)
(* of blocks received too early and TotalSeen.                             *)

IsChild(n, b) == b.height = lastBlock[n].height + 1

MutantNoPrevHash(n, b) ==    \* the height alone decides
  b.body # NoTx /\ VerifySequenceMessage(b.body, FALSE, now)

MutantNoVerify(n, b) == b.prev = SigHash(lastBlock[n]) /\ b.body # NoTx

Fits(n, b) ==
  /\ b.prev = SigHash(lastBlock[n])
  /\ b.body # NoTx
  /\ VerifySequenceMessage(b.body, FALSE, now)

\* Not the operator's signature, or a height the log has reached.
IgnoreBlock(n, b) ==
  /\ SignedByOperator(b) => b.height <= lastBlock[n].height
  /\ UNCHANGED <<dbVars, faults, lastBlock, unprocessed, totalSeen>>

CountBlock(n) == totalSeen' = [totalSeen EXCEPT ![n] = @ + 1]

MutantStashOne(n, b) ==      \* room for one block
  /\ SignedByOperator(b) /\ lastBlock[n].height + 1 < b.height
  /\ unprocessed' = [unprocessed EXCEPT ![n] = {b}]
  /\ CountBlock(n) /\ UNCHANGED <<dbVars, faults, lastBlock>>

\* Too early: kept under its height, in place of any block kept there.
StashBlock(n, b) ==
  /\ SignedByOperator(b)
  /\ lastBlock[n].height + 1 < b.height
  /\ unprocessed' =
       [unprocessed EXCEPT ![n] = {c \in @ : c.height # b.height} \cup {b}]
  /\ CountBlock(n)
  /\ UNCHANGED <<dbVars, faults, lastBlock>>

RefuseBlock(n, b) ==
  /\ SignedByOperator(b) /\ IsChild(n, b) /\ ~Fits(n, b)
  /\ CountBlock(n)
  /\ UNCHANGED <<dbVars, faults, lastBlock, unprocessed>>

\* ingestBlock stores the block; doProcessBlock leaves the stash alone.
IngestBlock(n, b) ==
  /\ SignedByOperator(b) /\ IsChild(n, b) /\ Fits(n, b)
  /\ Commit(n, b)
  /\ lastBlock' = [lastBlock EXCEPT ![n] = b]
  /\ CountBlock(n)

MutantIgnoreError(n, b) ==   \* LastBlock moves on although nothing was stored
  /\ SignedByOperator(b) /\ IsChild(n, b) /\ Fits(n, b)
  /\ CommitFails(n)
  /\ CountBlock(n)
  /\ lastBlock' = [lastBlock EXCEPT ![n] = b]
  /\ UNCHANGED unprocessed

IngestFails(n, b) ==
  /\ SignedByOperator(b) /\ IsChild(n, b) /\ Fits(n, b)
  /\ CommitFails(n)
  /\ CountBlock(n)
  /\ UNCHANGED <<lastBlock, unprocessed>>

-----------------------------------------------------------------------------
(* The loop receives a block, looks through the stash, and only then       *)
(* processes the block in hand.                                            *)

ReceiveBlock(n, b) ==
  /\ phase[n] = "select"
  /\ cur' = [cur EXCEPT ![n] = b]
  /\ phase' = [phase EXCEPT ![n] = "drain"]
  /\ UNCHANGED <<dbVars, lastBlock, unprocessed, totalSeen, sequenceTxs, work,
                 handlers, worldVars, replies, boot>>

ProcessBlock(n, b) == totalSeen[n] < MaxSeen /\ ReceiveBlock(n, b)

MutantOwnHeight(n) == {b \in unprocessed[n] : b.height = lastBlock[n].height}

\* The block of the stash that LastBlock satisfies, if there is one.
Satisfied(n) == {b \in unprocessed[n] : IsChild(n, b)}

MutantDeleteAbove(n) ==      \* drops what is still waiting
  unprocessed' =
    [unprocessed EXCEPT ![n] = {c \in @ : c.height < lastBlock'[n].height}]

DeleteProcessed(n) ==
  unprocessed' =
    [unprocessed EXCEPT ![n] = {c \in @ : c.height # lastBlock'[n].height}]

\* An iteration of checkOutOfOrderBlocks: one transaction of its own.
DrainOne(n) ==
  /\ phase[n] = "drain"
  /\ \E b \in Satisfied(n) : IngestBlock(n, b)
  /\ DeleteProcessed(n)
  /\ UNCHANGED <<sequenceTxs, loopVars, handlers, now, restarts, replies, boot>>

MutantRetry(n) ==            \* an error does not end it
  /\ phase[n] = "drain" /\ Satisfied(n) = {}
  /\ phase' = [phase EXCEPT ![n] = "process"]
  /\ UNCHANGED <<dbVars, faults, lastBlock, unprocessed, totalSeen, sequenceTxs,
                 work, cur, handlers, now, restarts, replies, boot>>

\* It ends when nothing is satisfied, or at the first error.
DrainEnds(n) ==
  /\ phase[n] = "drain"
  /\ \/ /\ Satisfied(n) = {}
        /\ UNCHANGED <<dbVars, faults, lastBlock, unprocessed, totalSeen>>
     \/ \E b \in Satisfied(n) : RefuseBlock(n, b) \/ IngestFails(n, b)
  /\ phase' = [phase EXCEPT ![n] = "process"]
  /\ UNCHANGED <<sequenceTxs, work, cur, handlers, now, restarts, replies, boot>>

DoProcessBlock(n) ==
  /\ phase[n] = "process"
  /\ \/ IgnoreBlock(n, cur[n])
     \/ StashBlock(n, cur[n])
     \/ RefuseBlock(n, cur[n])
     \/ IngestBlock(n, cur[n]) /\ UNCHANGED unprocessed
     \/ IngestFails(n, cur[n])
  /\ phase' = [phase EXCEPT ![n] = "select"]
  /\ cur' = [cur EXCEPT ![n] = NoBlock]
  /\ UNCHANGED <<sequenceTxs, work, handlers, now, restarts, replies, boot>>

-----------------------------------------------------------------------------
MutantNewTables(n) ==
  /\ sequence' = [sequence EXCEPT ![n] = << >>]
  /\ blocks' = [blocks EXCEPT ![n] = << >>]

\* CREATE TABLE fails on tables that exist; nobody looks at the error.
CreateTables(n) == UNCHANGED <<sequence, blocks>>

(* The process stops, wherever its loop stands, and NewSequencerCore runs  *)
(* again on the same file; LastBlock is the genesis block, not the last    *)
(* row of the table.                                                       *)
Restart(n) ==
  /\ n \in Restarting
  /\ restarts < MaxRestarts
  /\ restarts' = restarts + 1
  /\ lastBlock' = [lastBlock EXCEPT ![n] = Genesis]
  /\ unprocessed' = [unprocessed EXCEPT ![n] = {}]
  /\ totalSeen' = [totalSeen EXCEPT ![n] = 0]
  /\ sequenceTxs' = [sequenceTxs EXCEPT ![n] = << >>]
  /\ phase' = [phase EXCEPT ![n] = "select"]
  /\ work' = [work EXCEPT ![n] = NoTx]
  /\ cur' = [cur EXCEPT ![n] = NoBlock]
  /\ handlers' = [handlers EXCEPT ![n] = {}]
  /\ dbLocked' = [dbLocked EXCEPT ![n] = FALSE]
  /\ boot' = [boot EXCEPT ![n] = Len(blocks[n])]
  /\ CreateTables(n)
  /\ UNCHANGED <<now, faults, replies>>

Tick ==
  /\ now < MaxTime
  /\ now' = now + 1
  /\ UNCHANGED <<dbVars, lastBlock, unprocessed, totalSeen, sequenceTxs,
                 loopVars, handlers, faults, restarts, replies, boot>>

\* What the goroutine of loop() does once it has received something.
LoopStep(n) ==
  DoSequenceWork(n) \/ DrainOne(n) \/ DrainEnds(n) \/ DoProcessBlock(n)

Next ==
  \/ \E n \in Node :
       \/ \E tx \in Tx : Sequence(n, tx)
       \/ ReceiveTx(n)
       \/ \E b \in Wire[n] : ProcessBlock(n, b)
       \/ LoopStep(n)
       \/ \E row \in handlers[n] : RunListener(n, row)
       \/ Restart(n)
  \/ Tick

Spec == Init /\ [][Next]_vars

(* The Go scheduler runs every runnable goroutine, and select picks among  *)
(* its ready cases at random, so a sender that stays parked is served.     *)
Fairness ==
  \A n \in Node :
    /\ WF_vars(LoopStep(n))
    /\ SF_vars(ReceiveTx(n))

FairSpec == Spec /\ Fairness

-----------------------------------------------------------------------------
(* Safety.                                                                 *)

(* The loop has in hand what its place in the code works on.               *)
InHand == \A n \in Node :
  /\ phase[n] = "sequence" => work[n] \in Tx
  /\ phase[n] \in {"drain", "process"} => cur[n] \in Block

\* Rows written before the process was last started belong to an earlier log.
WrittenRows(n) == (boot[n] + 1)..Len(blocks[n])

\* LastBlock is the end of what this run of the process has written.
LastIsTail(n) ==
  /\ boot[n] <= Len(blocks[n])
  /\ lastBlock[n] = IF boot[n] = Len(blocks[n]) THEN Genesis
                    ELSE blocks[n][Len(blocks[n])]

Linked(n) == \A i \in WrittenRows(n) :
  /\ blocks[n][i].height = i - boot[n]
  /\ blocks[n][i].prev = SigHash(IF i = boot[n] + 1 THEN Genesis
                                 ELSE blocks[n][i - 1])

(* What a process writes between two restarts is one hash chain that grows *)
(* from the genesis block without a gap, whatever the order in which       *)
(* blocks and transactions reach its loop, and LastBlock is its end.       *)
LogChained == \A n \in Node : LastIsTail(n) /\ Linked(n)

(* Every transaction of the log was authentic with known conditions, and   *)
(* every block was signed by the operator or by the process itself: no     *)
(* path into the log (channel, wire or stash) goes round the checks.       *)
LogVerified == \A n \in Node : \A i \in 1..Len(blocks[n]) :
  /\ Admissible(blocks[n][i].body)
  /\ blocks[n][i].sig \in {Operator, KeyOf[n]}

(* The map of early blocks holds one signed block per height, all above    *)
(* the first height, so what checkOutOfOrderBlocks looks up is a candidate *)
(* and is the only one.                                                    *)
StashIsMap == \A n \in Node : \A b \in unprocessed[n] :
  /\ SignedByOperator(b) /\ b.height > 1
  /\ \A c \in unprocessed[n] : c.height = b.height => c = b

(* When the loop turns to the block in hand, no block of the stash fits    *)
(* the log any more, unless the database has failed.                       *)
DrainedBeforeProcess == \A n \in Node :
  phase[n] = "process" /\ faults = 0 =>
    \A b \in unprocessed[n] : ~(IsChild(n, b) /\ Fits(n, b))

-----------------------------------------------------------------------------
(* Action properties.                                                      *)

(* The tables are append-only: no step, a restart included, changes or     *)
(* loses a row, and a step adds at most one.                               *)
LogAppendOnly == [][\A n \in Node :
  /\ Len(blocks'[n]) \in {Len(blocks[n]), Len(blocks[n]) + 1}
  /\ SubSeq(blocks'[n], 1, Len(blocks[n])) = blocks[n]
  /\ SubSeq(sequence'[n], 1, Len(sequence[n])) = sequence[n]]_vars

(* A block received too early leaves the stash only into the log, or for   *)
(* another block of its height, or because the process stops.              *)
StashKept == [][\A n \in Node : restarts' = restarts =>
  \A b \in unprocessed[n] \ unprocessed'[n] :
    \/ lastBlock'[n] = b /\ Len(blocks'[n]) > Len(blocks[n])
    \/ \E c \in unprocessed'[n] : c.height = b.height]_vars

-----------------------------------------------------------------------------
(* Liveness.                                                               *)

(* Sequence has accepted tx: it is parked, or its sender has an answer.    *)
Accepted(n, tx) ==
  \/ \E i \in DOMAIN sequenceTxs[n] : sequenceTxs[n][i] = tx
  \/ \E r \in replies[n] : r[1] = tx

(* A transaction that Sequence has accepted reaches the log, unless the    *)
(* database fails or the process stops: waiting on the channel, being      *)
(* answered early or expiring in the meantime does not lose it.            *)
SubmittedIsLogged == \A n \in Node : \A tx \in Tx :
  Accepted(n, tx)
    ~> \/ \E i \in DOMAIN sequence[n] : sequence[n][i] = tx
       \/ faults > 0 \/ restarts > 0

(* Handling a block or a transaction ends: a block of the stash that is    *)
(* refused again and again cannot keep the loop from its select.           *)
LoopReturns == \A n \in Node : phase[n] # "select" ~> phase[n] = "select"

=============================================================================
