--------------------------- MODULE SequencerNode ---------------------------
(***************************************************************************)
(* One sequencer process from its command line to its end: start.go,       *)
(* node.go, rpc.go, and the database calls of core.go with their locks.    *)
(*                                                                         *)
(* The goroutines are main (Execute, NewSequencerNode, Start), the one     *)
(* that waits for a signal, the core's loop, the RPC server's handlers and *)
(* the listener goroutines of OnNewBlock.  In replica mode main itself     *)
(* listens to the gossip network: ListenForNewBlocks does not return.      *)
(*                                                                         *)
(* What a block or a transaction must satisfy to reach the database is in  *)
(* SequencerCore; here every transaction is valid and every gossiped block *)
(* extends the log, and what is left is whether the tables take it.        *)
(***************************************************************************)
EXTENDS Storage

CONSTANTS
  MaxRestarts  \* bound: starts after the first

ASSUME SequencerNodeAssumption == MaxRestarts \in Nat

VARIABLES
  \* the command line and the environment
  mode,        \* -mode: "primary" | "replica" | anything else
  keys,        \* PRIVATE_KEY and OPERATOR_PRIVATE_KEY
  peers,       \* -peers: "good", the empty list included, or "bad"
  onDisk,      \* -dbpath names a file
  \* the process
  main,        \* where the main goroutine stands
  listener,    \* OnNewBlock has been called
  notified,    \* signals go to the channel instead of ending the process
  signal,      \* "none" | "sent" | "closing"
  rpc,         \* the RPC server accepts connections
  parked,      \* transactions whose handlers wait on sequenceTxs
  handed,      \* blocks handed to a goroutine of the listener, in order
  \* history
  received,    \* transactions this process was given
  accepted,    \* transactions whose handlers have answered
  boot,        \* rows in the tables when the process was started
  restarts     \* restarts so far

envVars  == <<mode, keys, peers, onDisk>>
rpcVars  == <<parked, received, accepted>>
histVars == <<boot, restarts>>
procVars == <<listener, notified, signal, rpc, handed>>
vars == <<sequence, blocks, saved, txn, work, leak, pending, got, reading,
          faults, mode, keys, peers, onDisk, main, listener, notified, signal, rpc, parked, handed,
          received, accepted, boot, restarts>>

Main == {"execute", "new", "notify", "hook", "listening", "servers", "wait",
         "dead"}

\* Keys is the type of keys: unset, a key, or what does not decode to one.
Keys == [{"p2p", "operator"} -> {"none", "good", "bad"}]

\* What Execute lets through: the mode is known, and a primary has both keys.
Configured ==
  \/ mode = "replica"
  \/ mode = "primary" /\ "none" \notin {keys["p2p"], keys["operator"]}

Alive == main # "dead"

\* NewSequencerCore has run: its loop takes work.
Built == main \notin {"execute", "new", "dead"}

TypeOK ==
  /\ StorageTypeOK
  /\ mode \in {"primary", "replica", "other"}
  /\ keys \in Keys /\ peers \in {"good", "bad"}
  /\ onDisk \in BOOLEAN
  /\ main \in Main
  /\ listener \in BOOLEAN /\ notified \in BOOLEAN /\ rpc \in BOOLEAN
  /\ signal \in {"none", "sent", "closing"}
  /\ parked \in Seq(Tx) /\ handed \in Seq(Tx)
  /\ received \in 0 .. MaxTxs
  /\ accepted \subseteq Tx
  /\ boot \in 0 .. Len(rows)
  /\ restarts \in 0 .. MaxRestarts
  /\ main \notin {"execute", "dead"} => Configured
  /\ Built => "bad" \notin {keys["p2p"], keys["operator"], peers}

Init ==
  /\ StorageInit
  /\ mode \in {"primary", "replica", "other"}
  /\ keys \in Keys /\ peers \in {"good", "bad"}
  /\ onDisk \in BOOLEAN
  /\ main = "execute"
  /\ listener = FALSE /\ notified = FALSE /\ signal = "none" /\ rpc = FALSE
  /\ parked = << >> /\ handed = << >>
  /\ received = 0 /\ accepted = {} /\ boot = 0 /\ restarts = 0

-----------------------------------------------------------------------------
(* The main goroutine.                                                     *)

Goes(to) == main' = to

\* Execute: an unknown mode, or a primary without both keys, panics.
MutantNoDefault ==           \* an unknown mode is the zero one, primary
  /\ main = "execute"
  /\ Goes(IF \/ mode = "replica"
             \/ "none" \notin {keys["p2p"], keys["operator"]}
          THEN "new" ELSE "dead")
  /\ UNCHANGED <<storageVars, envVars, procVars, rpcVars, histVars>>

Execute ==
  /\ main = "execute"
  /\ Goes(IF Configured THEN "new" ELSE "dead")
  /\ UNCHANGED <<storageVars, envVars, procVars, rpcVars, histVars>>

\* An operator key that is set must decode, or the core panics.
NewEthereumECDSASigner == keys["operator"] # "bad"

\* Without a P2P key one is generated.
P2PParsePrivateKey == keys["p2p"] # "bad"

StringsToAddrs == peers = "good"

\* Whatever does not decode makes NewSequencerNode panic, and so does a
\* database or a listening address that is no good.
NewSequencerNode ==
  /\ main = "new"
  /\ \/ Goes("dead")
     \/ /\ NewEthereumECDSASigner /\ StringsToAddrs /\ P2PParsePrivateKey
        /\ Goes("notify")
  /\ UNCHANGED <<storageVars, envVars, procVars, rpcVars, histVars>>

\* Only now does a signal do more than end the process.
SignalNotify ==
  /\ main = "notify"
  /\ notified' = TRUE
  /\ Goes("hook")
  /\ UNCHANGED <<storageVars, envVars, listener, signal, rpc, handed, rpcVars,
                 histVars>>

\* Start: the listener of a primary, or the subscription of a replica.
MutantHookReplica ==         \* the listener is registered in the other mode
  /\ main = "hook"
  /\ listener' = (mode = "replica")
  /\ Goes(IF mode = "replica" THEN "listening" ELSE "servers")
  /\ UNCHANGED <<storageVars, envVars, notified, signal, rpc, handed, rpcVars,
                 histVars>>

Hook ==
  /\ main = "hook"
  /\ listener' = (mode = "primary")
  /\ Goes(IF mode = "replica" THEN "listening" ELSE "servers")
  /\ UNCHANGED <<storageVars, envVars, notified, signal, rpc, handed, rpcVars,
                 histVars>>

\* RPC.Start listens, or ends the process when it cannot (log.Fatal).
ListenAndServe ==
  \/ rpc' = TRUE /\ Goes("wait")
  \/ rpc' = FALSE /\ Goes("dead")

\* Main starts both servers and waits for them; P2P.Start only prints.
StartServers ==
  /\ main = "servers"
  /\ ListenAndServe
  /\ UNCHANGED <<storageVars, envVars, listener, notified, signal, handed,
                 rpcVars, histVars>>

-----------------------------------------------------------------------------
(* Signals, crashes and restarts.                                          *)

Signal ==
  /\ Alive /\ signal = "none"
  /\ signal' = "sent"
  /\ Goes(IF notified THEN main ELSE "dead")
  /\ UNCHANGED <<storageVars, envVars, listener, notified, rpc, handed,
                 rpcVars, histVars>>

\* node.Close; then os.Exit.  Nothing waits for the loop or the handlers.
MutantCloseFirst ==          \* closes only a node that serves
  /\ Alive /\ signal = "sent" /\ notified /\ rpc
  /\ signal' = "closing"
  /\ UNCHANGED <<storageVars, envVars, main, listener, notified, rpc, handed,
                 rpcVars, histVars>>

CloseNode ==
  /\ Alive /\ signal = "sent" /\ notified
  /\ signal' = "closing"
  /\ UNCHANGED <<storageVars, envVars, main, listener, notified, rpc, handed,
                 rpcVars, histVars>>

Exit ==
  /\ Alive /\ signal = "closing"
  /\ Goes("dead")
  /\ UNCHANGED <<storageVars, envVars, procVars, rpcVars, histVars>>

\* The process is started again with the same command line.
Restart ==
  /\ ~Alive /\ restarts < MaxRestarts
  /\ restarts' = restarts + 1
  /\ StorageRestart(onDisk)
  /\ Goes("execute")
  /\ listener' = FALSE /\ notified' = FALSE /\ signal' = "none" /\ rpc' = FALSE
  /\ parked' = << >> /\ handed' = << >> /\ accepted' = {}
  /\ received' = 0
  /\ boot' = Len(rows')
  /\ UNCHANGED envVars

-----------------------------------------------------------------------------
(* RPC handlers.                                                           *)

\* Append: the handler waits on the channel.
AppendCall(tx) ==
  /\ rpc /\ Alive
  /\ received < MaxTxs /\ tx = received + 1
  /\ received' = tx
  /\ parked' = Append(parked, tx)
  /\ UNCHANGED <<storageVars, envVars, main, procVars, accepted, histVars>>

\* Get and Info when their cursor can be stepped; otherwise they answer
\* nothing, without an error, and nothing changes.
OpenQuery(h) ==
  /\ rpc /\ Alive
  /\ OpenCursor(h)
  /\ UNCHANGED <<envVars, main, procVars, rpcVars, histVars>>

StepQuery(h) ==
  /\ Alive
  /\ ReadRow(h)
  /\ UNCHANGED <<envVars, main, procVars, rpcVars, histVars>>

\* At the end of the rows asked for, or at a row that cannot be read.
EndQuery(h) ==
  /\ Alive
  /\ CloseCursor(h)
  /\ UNCHANGED <<envVars, main, procVars, rpcVars, histVars>>

-----------------------------------------------------------------------------
(* The core's loop.                                                        *)

\* Sequence has verified the transaction: the loop takes it, and only then
\* does the handler answer.
ReceiveTx ==
  /\ Built /\ parked # << >>
  /\ Begin(Head(parked))
  /\ parked' = Tail(parked)
  /\ accepted' = accepted \cup {Head(parked)}
  /\ UNCHANGED <<envVars, main, procVars, received, histVars>>

\* ListenForNewBlocks hands main's block to ProcessBlock.
ReceiveBlock(tx) ==
  /\ main = "listening"
  /\ received < MaxTxs /\ tx = received + 1
  /\ received' = tx
  /\ Begin(tx)
  /\ UNCHANGED <<envVars, main, procVars, parked, accepted, histVars>>

\* Every outcome of doSequenceWork and ingestBlock but the last.
Insert ==
  /\ Built
  /\ InsertSequence \/ InsertRefused \/ InsertBlocks \/ StatementFails
  /\ UNCHANGED <<envVars, main, procVars, rpcVars, histVars>>

\* A block that was sequenced, not one that was ingested, goes to a
\* goroutine per listener.
Chain ==
  /\ Built
  /\ Commit
  /\ handed' = IF listener /\ main # "listening" THEN Append(handed, work)
                                               ELSE handed
  /\ UNCHANGED <<envVars, main, listener, notified, signal, rpc, rpcVars,
                 histVars>>

-----------------------------------------------------------------------------
MainStep ==
  Execute \/ NewSequencerNode \/ SignalNotify \/ Hook \/ StartServers
SignalStep == CloseNode \/ Exit
TxnStep == Insert \/ Chain
LoopStep == ReceiveTx \/ TxnStep
QueryStep(h) == StepQuery(h) \/ EndQuery(h)

Next ==
  \/ MainStep \/ SignalStep \/ LoopStep
  \/ Signal \/ Restart
  \/ \E tx \in Tx : AppendCall(tx) \/ ReceiveBlock(tx)
  \/ \E h \in Handler : OpenQuery(h) \/ QueryStep(h)

Spec == Init /\ [][Next]_vars

\* The goroutines of the process are scheduled, and a query ends.
Fairness ==
  /\ WF_vars(MainStep)
  /\ WF_vars(SignalStep)
  /\ WF_vars(LoopStep)
  /\ \A h \in Handler : WF_vars(QueryStep(h))

FairSpec == Spec /\ Fairness

-----------------------------------------------------------------------------
(* Properties.                                                             *)

(* The tables agree row by row in the file: the number that a reader of    *)
(* sequence sees is the row of the block that carries the transaction,     *)
(* although the two INSERTs of a transaction are two steps, either of them *)
(* or the Commit may fail, a transaction may be left open half way, and    *)
(* the process may end anywhere (core.go:171-206, 237-264).                *)
TablesAgree == saved.blocks = saved.sequence

(* A row that Get has read is a committed row of the table, at its place:  *)
(* the loop inserts while queries run, and no query sees a transaction     *)
(* that a failure may still take back (core.go:477).                       *)
ReadsCommitted ==
  \A h \in reading :
    /\ Len(got[h]) <= Len(rows)
    /\ \A i \in 1 .. Len(got[h]) : got[h][i] = rows[i]

(* Nothing that a primary has chained since it was started was chained     *)
(* before its listener was there: the RPC server takes transactions only   *)
(* after Start has called OnNewBlock, although the loop runs since         *)
(* NewSequencerNode (node.go:83, core.go:101).                             *)
CommittedIsHanded ==
  Built /\ mode = "primary" => handed = SubSeq(rows, boot + 1, Len(rows))

(* The database does what Tables says, whatever the process does: above    *)
(* all, once a transaction is left open no row is added before a restart.  *)
Abstract == INSTANCE Tables WITH rows <- rows, locked <- leak # "no"
ImplementsTables == Abstract!Spec

Stored(tx) == \E i \in boot + 1 .. Len(rows) : rows[i] = tx

(* A transaction that Append has answered for gets its row, unless the     *)
(* process ends first, the database fails, or a query that ran at the time *)
(* of an INSERT has made the loop leave a transaction open for good        *)
(* (core.go:175-183: the error is dropped and nothing rolls back).         *)
LostOnlyToLock ==
  \A tx \in Tx :
    tx \in accepted ~> Stored(tx) \/ leak # "no" \/ faults > 0 \/ ~Alive

(* Queries are refused for a while only: as long as the process runs,      *)
(* there is always a later time when a query reads the table, unless a     *)
(* transaction that had inserted was left open.                            *)
QueriesResume == []<>(~Blocked \/ leak = "table" \/ ~Alive)

(* A process that is told to stop stops, wherever main stands: a replica   *)
(* that is still listening, a primary that waits for its servers           *)
(* (start.go:82-93).                                                       *)
SignalEnds == signal = "sent" ~> ~Alive

(* "RPC port to listen on" (start.go:39), a flag that README.md:36-37      *)
(* gives to a replica: a node that has been built answers RPC, or ends.    *)
EventuallyServes == main = "hook" ~> rpc \/ ~Alive
=============================================================================
