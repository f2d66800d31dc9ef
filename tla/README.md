# A verification of the Goliath sequencer

TLA+ models of `goliath-blockchain`, the runs that TLC checks on small
instances of them, and the theorems TLAPS proves for every instance. Paths are
relative to the repository (`src/`).

- [1. The system](#1-the-system)
- [2. The modules](#2-the-modules)
- [3. Modelling decisions](#3-modelling-decisions)
- [4. The runs](#4-the-runs)
- [5. Fairness](#5-fairness)
- [6. What the runs found](#6-what-the-runs-found)
- [7. What is proved](#7-what-is-proved)
- [8. What is not modelled](#8-what-is-not-modelled)
- [9. Plan](#9-plan)

## 1. The system

Clients submit signed transactions to a *sequencer*, which gives them a total
order: each becomes a block signed by the operator's key, chained by hash to
the block before it and stored in SQLite. A sequencer runs in one of two modes
(`sequencer/mvp/sequencer/node.go:14-18`): the *primary* sequences and gossips
its blocks, a *replica* processes the blocks that the gossip brings. A
*scheduler/executer* reads the order in batches and executes it; an
Ethereum-style RPC server sits next to it.

| component | state | operations |
|---|---|---|
| `messages` (`messages/methods.go`, `defs.proto`) | none | digests, signatures and encoding of `SequenceTx` and `Block` |
| `SequencerCore` (`core.go`) | tables `sequence` and `blocks` in SQLite; in memory `LastBlock`, `unprocessedBlockAtHeight`, `TotalSeen`, the listeners | `Sequence`, `ProcessBlock`, `Get`, `Info`, `OnNewBlock`, `Close`, and the goroutine `loop()` with `doSequenceWork`, `checkOutOfOrderBlocks`, `doProcessBlock` |
| `P2PNode` (`p2p.go`) | a pubsub topic and a subscription of capacity 10000 | `GossipNewBlock`, `ListenForNewBlocks` |
| `P2PProtocol`, `P2PNode2` (`p2pv2.go`) | the list of peers, one inbound stream per peer, the channels `incoming` and `sendMsg` of capacity 32, the block handler | `processLoop`, `handleNewStream`, `sendMessage`, `AddPeer`, `GossipNewBlock`, `ListenForNewBlocks`, `Close` |
| `SequencerNode` (`node.go`) | a core, a `P2PNode`, an RPC server | `NewSequencerNode`, `Start`, `Close`, `FetchHistory` (empty) |
| command line (`cmd/commands/start.go`) | the flags and two environment variables | check them, build the node, wait for a signal, `Start` |
| `RPCNode` (`rpc.go`) | a server that listens or does not; one goroutine per request | `sequencer_append`, `sequencer_get`, `sequencer_info` |
| executer (`scheduler/cmd/executer/main.go`) | position in the order, execution graph, storage leaves, a `WaitGroup` | fetch a batch, build the graph, walk it, execute |
| load driver (`benchmarking/run.go`) | the replicas it hosts, a `WaitGroup`, the message it has come to | build and start the replicas, wait for their peers, post the traffic, print the counters |
| Ethereum RPC (`rpc/src/index.js`) | none of its own; a virtual machine writes `chain.sqlite` | `eth_call`, `eth_sendRawTransaction`, constants and errors for the rest |

**How they interact.** RPC handlers call `Sequence`, which verifies the
transaction in the handler's goroutine and then parks on the unbuffered channel
`sequenceTxs`. The gossip listener calls `ProcessBlock`, which parks on the
unbuffered channel `processBlock`. One goroutine, `loop()`, selects between the
two, and alone changes the log. For each block that it chains it starts one
goroutine per listener; the primary's listener publishes the block on the
pubsub topic, whose messages reach the replicas' subscriptions. Handlers that
read use the same SQLite file as the loop, on connections of their own, through
one shared cache. The executer reads through RPC; the Ethereum server calls
neither of them. The load driver hosts replicas in its own process, posts signed
messages to a primary elsewhere, and at the end reads the memory of its replicas
from its own goroutine, without a lock.

**What is hard about it.**

- Publications are goroutines of their own (`core.go:217-220`), the network
  loses and reorders, a subscription drops when it is full (`p2p.go:177-180`):
  a replica gets blocks in any order or not at all, and must keep the early
  ones until their parents come.
- A block stored is two insertions, and any of begin, insert and commit can
  fail; no path rolls back (`core.go:169-211`, `228-264`).
- With a shared cache a query and an insertion into its table exclude each
  other, and the one that comes second fails at once (`start.go:116`,
  `core.go:177`, `477`, `541`). Neither side expects it.
- A process may stop between any two steps. Its tables survive, if they are on
  disk, and its memory is rebuilt as if they were empty (`core.go:89-94`).
- A caller of `Sequence` is answered when the loop has received its
  transaction, before the block exists (`core.go:462-464`).
- Anyone may publish on the topic; what protects a replica is in
  `doProcessBlock`: signature, height, previous hash, transaction.
- The goroutines of a node start in an order: the loop with the core, the
  signal handler, the listener, the servers (`start.go:79-104`,
  `node.go:81-92`); a signal may come between any two of them.
- Every message of `p2pv2.go` opens a stream, a new stream resets the one before
  (`p2pv2.go:158-162`), and one goroutine both sends and receives.
- The `WaitGroup` of the executer is incremented by the goroutines it counts
  (`main.go:213`).
- The report of the load driver reads `LastBlock` and, height by height, the map
  of early blocks while the loop moves blocks from the map to the log
  (`core.go:130-138`). Both are arguments of one `Printf`, and Go does not say
  which is read first (`run.go:154-161`).
- The listener of a primary publishes a block once. An error of `Publish` is
  printed, and the block stays with the primary (`p2p.go:170-174`).
- `ReadMsg` of a stream fails on a message above 1 MiB, which the sender does not
  prevent: its check is commented out (`p2pv2.go:51`, `175-190`, `255-259`).
- The Ethereum server runs the virtual machine inside its event loop
  (`index.js:80`), so one execution that hangs holds up every client.

**What correctness means**, per component:

- `SequencerCore`: the tables are append-only; what a
  process writes between two starts is one hash chain; nothing unverified is
  stored; a transaction accepted is stored; handling a message ends; an early
  block waits until it is used.
- its database: a query returns committed rows only, whatever is being inserted;
  a failed insertion changes nothing, in neither
  table; a refusal is temporary.
- primary, network and replicas together: what a replica has stored is a prefix
  of the primary's log; readers of different nodes never disagree; the
  operator never signs two histories; what is committed is published and
  reaches the replicas.
- a node: nothing is chained before its listener exists; it serves; a signal
  ends it.
- `P2PProtocol`: of the streams of a peer one is read; a message that was read is
  neither lost nor repeated; the loop never waits for itself.
- executer: every transaction of the order is executed exactly once and, where
  two of them conflict, in order.
- load driver: nothing is posted before every replica has a peer; what is posted is
  sequenced in that order and once; what a line of the report says is true.
- Ethereum RPC: a transaction is written when and as often as it was asked for;
  a read sees every write anyone was told of; every client is answered.

## 2. The modules

| module | what it is |
|---|---|
| `Messages` | transactions, blocks, digests, signatures, and the checks that depend on a message alone |
| `SequencerCore` | `core.go`: any number of processes, each with its tables, memory and loop |
| `SequenceLog` | the abstract specification of replication: one growing sequence and copies that are prefixes of it |
| `Replication` | `SequencerCore` composed with the pubsub network: one primary, any replicas; refines `SequenceLog` |
| `Tables` | the abstract specification of one process's database: rows that are appended, a lock that only a restart releases |
| `Storage` | the transactions and queries of `core.go` and the SQLite locks they meet |
| `SequencerNode` | `Storage` composed with one process: command line, start-up, signals, RPC handlers, loop; refines `Tables` |
| `P2PProtocol` | `p2pv2.go`: hosts, their streams, channels and goroutines |
| `Executer` | `scheduler/cmd/executer/main.go`: its `main()`, the goroutines it starts, and the table it reads |
| `Transactions` | how a client builds and signs a transaction (`messages/methods.go`, `utils/test_utils.go`) |
| `LoadDriver` | `benchmarking/run.go` composed with `Replication` |
| `EthRpc` | `rpc/src/index.js`: clients, event loop, virtual machine |
| `MCSequencerCore`, `MCReplication`, `MCP2PProtocol`, `MCExecuter`, `MCLoadDriver`, `MCEthRpc` | values of the constants for TLC; `SequencerNode` needs none |
| `SequencerCore_proofs`, `Replication_proofs`, `SequencerNode_proofs`, `P2PProtocol_proofs`, `Executer_proofs`, `LoadDriver_proofs`, `EthRpc_proofs` | theorems and their proofs |
| `SequenceLemmas` | lemmas about sequences that several proofs cite |

Two modules look at `core.go` at two grains. `SequencerCore` has every check a
block or a transaction goes through and takes the database as something that
stores or fails; `Storage` has the database statement by statement and takes
every block as one that fits. `SequencerNode` says in which order a process
reaches what the other modules take as given.

### SequencerCore

| variable | code |
|---|---|
| `sequence[n]`, `blocks[n]` | the SQLite tables; row *i* is element *i* |
| `dbLocked[n]` | a transaction was begun and never ended, and holds the write lock |
| `lastBlock[n]`, `unprocessed[n]`, `totalSeen[n]` | `LastBlock`, `unprocessedBlockAtHeight`, `TotalSeen` |
| `sequenceTxs[n]` | goroutines parked on the channel, in order of arrival |
| `phase[n]` | where `loop()` stands: its `select`, before `doSequenceWork`, in `checkOutOfOrderBlocks`, before `doProcessBlock` |
| `work[n]`, `cur[n]` | the value received from `sequenceTxs`, from `processBlock` |
| `handlers[n]` | rows whose listener goroutine has not run yet |
| `now`, `faults`, `restarts` | the clock, and how many failures and restarts there have been |
| `replies[n]`, `boot[n]` | history: what `Sequence` answered; how many rows the tables had at the last start |

| action | code |
|---|---|
| `Sequence(n, tx)` | `Sequence` up to its send on the channel (`core.go:435-462`) |
| `ReceiveTx(n)` | the loop receives; the sender returns `0, nil` (`core.go:119-120`, `464`) |
| `DoSequenceWork(n)` | `doSequenceWork`: chain, sign, begin, two inserts, commit, `LastBlock`, listeners; or an error, which the loop ignores (`core.go:160-223`) |
| `RunListener(n, row)` | a goroutine started at `core.go:217-220` |
| `ProcessBlock(n, b)` | the loop receives a block from a caller of `ProcessBlock` (`core.go:110-111`, `276-281`) |
| `DrainOne(n)`, `DrainEnds(n)` | an iteration of `checkOutOfOrderBlocks` that stores a block and deletes it from the map; its end, by exhaustion or at the first error (`core.go:140-158`) |
| `DoProcessBlock(n)` | `doProcessBlock` on the block in hand: ignored, stashed, refused, stored, or failed (`core.go:283-364`) |
| `Restart(n)` | the process stops at any point and `NewSequencerCore` runs again on the same file (`core.go:48-103`) |
| `Tick` | time passes |

A step of the model ends where another goroutine or a crash can be seen: at a
channel operation, at a commit, at the end of a pass over the map of early
blocks. The assignment of `LastBlock` follows the commit on the same goroutine
and only that goroutine reads it, so the two are one step.

### Replication

`network` holds the published messages, numbered by the row they publish (two
publications of equal blocks are two messages); `unpublished` counts the calls of
`Publish` that have failed; `seen[r]` the messages the
pubsub of `r` has taken in or lost; `buffer[r]` its subscription. `GossipNewBlock`
runs the primary's listener, which publishes its block or fails to, for good; `Arrive` and `Lose` are the library,
`ListenForNewBlocks` hands the first queued block to the loop, `RestartReplica`
and `RestartPrimary` are `NewSequencerNode` run again, and `CoreStep` is what
the cores do between their channels.

### Storage and SequencerNode

| variable | code |
|---|---|
| `sequence`, `blocks` | the two tables as the shared cache holds them, uncommitted rows included |
| `saved` | both tables as last committed; `rows` is `saved.sequence` |
| `txn`, `work` | the transaction of `doSequenceWork` or `ingestBlock`, by the last table it has inserted into, and what it inserts |
| `leak` | a transaction that an error return has left open, and whether it had inserted |
| `pending`, `reading`, `got` | SQLite's flag that keeps new statements out; the handlers with an open cursor; the rows those have read |
| `mode`, `keys`, `peers`, `onDisk` | the flags and environment variables `start` reads |
| `main` | where the main goroutine stands between `Execute` and the wait for the two servers |
| `listener`, `notified`, `signal`, `rpc` | `OnNewBlock` was called; `signal.Notify` was called; a signal came, and its goroutine is closing; the RPC server listens |
| `parked`, `handed` | handlers waiting in `Sequence`; blocks given to the listener's goroutines |
| `received`, `accepted`, `boot`, `restarts` | history |

| action | code |
|---|---|
| `Execute`, `NewSequencerNode`, `SignalNotify`, `Hook`, `StartServers` | `start.go:54-104`, `node.go:40-92`, `136-148`: each may panic or exit where the code does |
| `Signal`, `CloseNode`, `Exit` | a signal; the goroutine that closes the node and exits (`start.go:86-93`) |
| `Restart` | the process is started again with the same command line |
| `AppendCall(tx)`, `ReceiveTx` | `RPCNode.Append` up to the channel; the loop receives, begins, and the handler answers |
| `OpenQuery(h)`, `StepQuery(h)`, `EndQuery(h)` | `Get` and `Info` open a cursor, step it, close it (`core.go:477-512`, `541-556`) |
| `ReceiveBlock(tx)` | main, in `ListenForNewBlocks`, gives a block to the loop |
| `Insert`, `Chain` | the two insertions, one table after the other, with every way they fail (taken back, or left open with the rows they wrote); the commit and the listeners |

### P2PProtocol

| variable | code |
|---|---|
| `peers[n]`, `toAdd[n]` | the slice `peers`, repetitions included; the bootstrap peers `NewP2PNode2` has not added yet |
| `inbound[n][m]` | `inboundStreams` |
| `incoming[n]`, `sendMsg[n]` | the two channels |
| `listening[n]` | `newBlockHandler` is set |
| `loop[n]` | `processLoop`: its `select`, in `sendMessage` with the peers to go, in the handler |
| `parked[n]` | callers of `GossipNewBlock` that wait for room in `sendMsg` |
| `streams` | every stream ever opened, with its message, whether it was read or reset, and where its `handleNewStream` stands |
| `closed`, `failures`, `gossiped`, `handled`, `ignored` | the world and history |

| action | code |
|---|---|
| `AddPeer(n)`, `ListenForNewBlocks(n)`, `GossipNewBlock(n)`, `Close(n)` | the methods of `P2PNode2` |
| `PublishBlock(n)` | a parked caller puts its message into `sendMsg` |
| `TakeSendMsg(n)`, `SendMessage(n)`, `SendEnds(n)` | the loop takes a message, opens a stream for the next peer and writes it, or fails to, and is done |
| `TakeIncoming(n)`, `HandlerReturns(n)` | the loop takes a message and drops it, or runs the handler |
| `Register(s)`, `ReadMsg(s)`, `Deliver(s)`, `ReadFails(s)` | `handleNewStream`: take the peer's place in the map and reset the stream that was there, read, hand over, and clean up; `ReadFails` on a stream that was reset and on a message that `ReadMsg` refuses |

### Executer

| variable | code |
|---|---|
| `order` | the sequencer's table `sequence`, which may grow while the executer runs |
| `pc` | where `main()` stands: before `sequencer_info`, before a batch, before a node, before a sub-batch, before `wg.Wait`, parked in it, woken in it, ended |
| `height`, `i` | `res.Count`, the first row of the batch (`main.go:99`, `103`) |
| `txs` | `res.Txs`, rows with their transactions; a node of the graph is its row, the root is 0 |
| `toVisit`, `node`, `sub` | the variables of the walk (`main.go:171-182`) and of the loop over sub-batches (`197`) |
| `wg` | the counter of the `WaitGroup` declared for the node visited (`main.go:182`) |
| `live` | how many goroutines there are of each kind: their row, whether they have begun, and whether `wg` is the `WaitGroup` of the current node or an earlier one's |
| `executed` | how often `execute()` has returned for a row |
| `unread` | history: some answer came back short because reading it failed |

| action | code |
|---|---|
| `GetInfo`, `GetBatch` | the two RPC calls; `GetBatch` also builds the graph, which is a function of `txs` (`Edges`, `To`, `Dependents`) |
| `CallPanics` | an error of either call, or a list of leaves that does not parse |
| `Visit` | pop a node, collect its dependents, declare its `WaitGroup` (`main.go:175-193`) |
| `StartSubBatch` | a goroutine for each member of `batch[start:end]` (`main.go:198-217`) |
| `Wait`, `WaitReturns` | `wg.Wait()`: returns at once at 0, or parks; when woken it panics if the counter is no longer 0 |
| `NextBatch`, `Exit` | `i += 1000`; `main()` returns and the process ends |
| `Begin(g)`, `Finish(g)`, `ExecuteFails(g)` | `wg.Add(1)`; `execute` and `wg.Done()`; a panic of `execute` |
| `AppendRow(tx)` | the sequencer goes on meanwhile |

`Executer` reads the table through `Get` of `core.go` and is not composed with
`SequencerCore`: of the core it only sees rows that are appended, which
`LogAppendOnly` justifies, and answers that are cut short, for which
`SequencerNode` shows the reason.

### LoadDriver

| variable | code |
|---|---|
| `main` | where `simulate()` stands, from building the replicas to its end, by itself or by `log.Fatal` or a panic |
| `linked`, `subscribed` | replicas whose host has a peer; whose subscription that peer knows of |
| `wg`, `polling` | the `WaitGroup`; the replicas whose goroutine still polls for a peer |
| `next` | the message that is posted next, or being posted |
| `line`, `report` | the line of the report that is being read: `lastBlock`, the scan of the map and `waitingOn`; the lines printed |

| action | code |
|---|---|
| `BuildReplicas`, `Subscribe(r)`, `StartPolling`, `PeeringConnected(r)`, `WaitReturns` | the replicas and the barrier (`run.go:67-109`, `44-65`) |
| `Dial`, `Post`, `PostRefused`, `CallReturns`, `CallFails` | the client and one call after the other (`run.go:123-139`) |
| `Pause` | the two sleeps (`run.go:141-151`) |
| `ReadLastBlock(r)`, `WaitedBlocks`, `ScanStep`, `PrintLine` | a line of the report, with `WaitedBlocks` of the core height by height; `LastBlock` is read before it, or after it at `PrintLine` (`run.go:153-164`, `core.go:130-138`) |
| `MapRace` | the runtime stops the process because the map is read while it is written |
| `PrimaryRuns`, `ReplicaRuns(r)` | the steps of `Replication`; those of the replicas end with the driver |

### EthRpc

| variable | code |
|---|---|
| `inbox`, `cur`, `out` | posts the event loop has not come to, the one in hand, the answers to its calls so far |
| `vm` | the process that `execSync` waits for: none, running, hung |
| `chain` | the transactions written to `chain.sqlite` |
| `waiting[c]` | the post that client `c` still waits for |
| `posts`, `asked`, `hashes`, `told`, `misquoted` | history; `misquoted`: a command has been run whose input held a quote |

| action | code |
|---|---|
| `Submit(c, body)`, `GiveUp(c)` | clients |
| `Take`, `Respond` | a post comes up; its response, or 204 without one (`index.js:383-397`) |
| `Constant`, `Throw` | a method that answers a constant, or throws (`index.js:133-369`) |
| `ExecuteVM` | `executeVM` up to `execSync`: the shell command is built and run (`index.js:57-86`) |
| `VMSucceeds`, `VMFails`, `VMHangs` | the machine ends, with or without its write, or does not; what a command built from a `Quoted` input leaves in the chain is open (`NoWrite`) |

## 3. Modelling decisions

**Messages and the core.**

- *Hash.* A hash is what it commits to: the (height, body) pairs of a block
  and of all its ancestors. Equal hashes mean equal histories, which is
  collision resistance.
- *Signature.* A signature is the key that recovering it yields. A stranger
  cannot make one that yields the operator's key (`ReplicationAssumption`).
- *Expiry.* Conditions of a transaction are a set of times and of unknown
  kinds. `Sequence` checks all of them; `doProcessBlock` everything but the
  clock, as in the code's flag `checkUnixExpiry`.
- *Database errors.* In `SequencerCore`, `CommitFails` is any error of Begin,
  Exec or Commit. Since nothing rolls back, it may leave the write lock taken;
  every later write then fails until the process is restarted. A restart
  releases it. `Storage` shows where such an error comes from when nothing is
  broken.
- *The select.* Two ready cases are two enabled actions.

**The database.**

- *SQLite* is external, as `core.go` and `start.go:116` use it: several
  connections of one process with a shared cache. A table has readers or a
  writer; a refusal (`SQLITE_LOCKED`) comes at once, since the busy timeout does
  not apply inside a shared cache; a writer that readers have refused keeps its
  transaction and sets a flag, and no statement starts until the last open cursor has
  ended. A query is refused when its cursor is stepped, not when it is opened.
- *A refused query is a stutter.* `Get` does not ask `res.Err()` why its cursor
  stopped, nor does `Info` (`core.go:490-512`, `546-556`), so the answer is
  empty, or a count of 0, without an error. Where `Get` does fail, on opening,
  it panics on closing the cursor it has not got, and `RPCNode.Get` recovers
  and answers nothing (`rpc.go:26-35`). No answer changes the state.
- *A cursor may end at any row*: the rows asked for are at an end, one cannot be
  decoded, or the lock has come in between.
- *Two tables, one commit.* `Storage` inserts into `sequence` and into `blocks` in
  separate steps and may fail after either; `TablesAgree` is checked and proved
  there, of the committed tables. On that ground `SequencerCore`, which sees
  committed rows only, appends to both in one step. A query reads table
  `sequence` only, so the locks that matter are that table's.
- *A failed statement* either ends the transaction inside SQLite, and the tables in
  the cache are again those of the file (`Rollback`), or leaves it open.
- *Databases in memory.* With an empty `-dbpath` the database is
  `file::memory:`, and `StorageRestart` loses its rows. The other modules are about
  files.
- *A transaction is named by its number* in `SequencerNode`, every one is valid
  and every gossiped block extends the log. What happens to others is
  `SequencerCore`'s question.

**The pubsub network.**

- The library is external: a message reaches a subscriber at most
  once while the subscriber lives, in any order, or is lost, or is dropped when
  the buffer is full. After a restart the node's cache of seen messages is
  empty, so any of them may come again (`seen'` is any subset of `seen`); that
  covers peers that still forward them and those that do not.
- *An error of `Publish`* is printed and the goroutine is over: the block is in the
  primary's tables and never on the network (`p2p.go:170-174`). `GossipNewBlock`
  may fail so `MaxUnpublished` times.
- `SubCap` counts the messages that wait in the subscription; the one the
  listener has taken is with the loop. In the code the listener may hold one
  more while it waits in `ProcessBlock`; a subscription of capacity `SubCap`
  in the model is one of `SubCap - 1` in the code.

**The stream protocol.**

- *Streams* belong to libp2p: reliable and in order until one end resets them or
  a host closes. A reset drops what the other end has not read. They are named
  by the order in which they were opened, and since each carries one message, so
  is a message that was read.
- *Nobody closes a stream* in `p2pv2.go`; the library refuses to open more when it
  has too many, which is `MaxStreams`.
- *What the reader refuses*: a message longer than 1 MiB or one that does not
  decode ends `handleNewStream` as an error of the stream does (`p2pv2.go:51`,
  `175-190`). `Unreadable` names the blocks for which that is so. Nothing stops a
  sender from gossiping one, since its own check is commented out (`255-259`).
- *The list of peers* is a slice that two goroutines append to and a third ranges
  over, with no common lock. The model has the lost append (`AddPeer`,
  `Register`) and takes the range to read the slice as it was when it began,
  which is what `range` evaluates.
- *The context* is `context.Background()` (`p2pv2.go:322`), which is never done, so
  the `Done` cases of the selects are not in the model.

**The executer.**

- *Keys of a Go map.* `lastToModifyLeaf` is keyed by `&leaf`. The module asks
  for Go 1.18 (`scheduler/go.mod`), where a range loop has one variable for all
  its iterations: the leaves of one transaction share a key and no two
  transactions do, which is `Key`.
- *A goroutine that has not begun* is counted by nobody: `wg.Add(1)` is its
  own first statement. `Begin` and the sub-batch it belongs to are separate
  steps; that a goroutine may begin before its fellows are created makes no
  difference to `main()`, which does not look at `wg` in between.
- *The graph* is a set of edges, each named by the two loop indices with which the
  code appends it, so that their order is that of the pairs. A node's dependents
  are the sources of the edges that lead to it, in that order, as the scan of
  `main.go:184-189` collects them. Nothing in the module is recursive.
- *`execute`* starts an external virtual machine that keeps nothing
  (`file:memory:`): it returns or panics.
- *A failed read* of a batch is a short one, and of the count a 0, for the
  reasons above; either sets `unread`.

**The load driver.**

- *Its traffic* is a function of the number of a message. The nonce is `string(i)` of
  an integer, which Go makes the character with that code: from 55296 on two
  numbers may give one nonce (`Rune`), which is the bound that
  `NonceAssumption` puts on `NumTxs`; the code posts 10000.
- *A digest* is the record of the fields it covers, so a message that is signed before
  it names its sender carries another signature.
- *The report*: a line is one `Printf` with `LastBlock.Height` and the call
  `WaitedBlocks()` among its arguments. Go orders calls, not the loads between
  them, so `ReadLastBlock` takes the height at once or leaves it to `PrintLine`.
  `TotalSeen`, the third number of a line, is left out: in either order nothing
  follows from it. The Go runtime may find that the map is written while it is
  read and stop the process (`MapRace`), or not.
- *Time*: the messages expire 25 hours after they were made (`Expiry`); a call after
  that is refused and ends the driver.

**The Ethereum server.**

- *The virtual machine* is external: it ends well, fails before or after its
  write, or hangs. `execSync` throws when it fails, and nothing is tried again.
- *The shell command.* `executeVM` puts the JSON of its input between single quotes
  and does not escape it (`index.js:67-80`). An `eth_call` passes its parameter on as
  it came, so that it may hold a quote; `eth_sendRawTransaction` rebuilds its data
  as hexadecimal digits (`index.js:230-238`), so that it cannot. A parameter with a quote
  is the value `Quoted`: the shell then runs another command than the
  one meant, and the model lets such a run write anything, nothing, or lose the chain.
  From then on `misquoted` holds, and no property speaks of the chain any more.
- *The JSON-RPC library* is external: it calls the methods of a batch in order,
  turns what a method throws into an error of that call, executes a notification
  without answering it. As `execSync` never lets go of the event loop and no method
  awaits anything, a post is handled before the next one; the logging middleware
  only yields between calls that are over. A version of the library without batches
  would have fewer behaviours than the model.

**Faulty variants.** A definition `MutantX` is a plausible fault of the
definition after it. Nothing uses it; replacing the definition by it makes
the property that `PROJECT.json` pairs it with fail, which shows that the
property depends on that code.

## 4. The runs

| run | instance | properties |
|---|---|---|
| `core` | one process with the operator's key that both sequences and is handed blocks; four transactions (plain, expiring, badly signed, with an unknown condition), five blocks on the wire (a chain of three, one whose body does not verify, one of a stranger); 2 rows, 3 blocks counted, 1 failure, 1 restart, 1 tick; fair | `TypeOK`, `LogChained`, `LogVerified`, `DrainedBeforeProcess`, `LogAppendOnly`, `StashKept`, `SubmittedIsLogged`, `LoopReturns` |
| `repl_faults` | a primary and a replica; 3 rows, 1 failure anywhere, 1 loss, 1 restart of the replica, 1 failing `Publish`, 2 places in the subscription, a stranger's message | `Mirror`, `NoEquivocation`, `ImplementsLog` |
| `repl_histories` | a primary and a replica, one of which may be restarted; 3 rows, 1 tick, 1 failing `Publish`, no loss, a stranger's message; fair | `Durable`, `EventuallyHeld`, `CommittedIsPublished` |
| `repl_tail` | the same with 2 rows, no restart and no failing `Publish` | `EventuallyMirrored` (violated) |
| `repl_primary_restart` | the primary may be restarted once | `NoEquivocation` (violated) |
| `node_locks` | one process in either mode or a mistaken one, with every combination of keys, peers and file; two handlers that query, 3 transactions for each start, 1 failure, 1 restart; fair | `TypeOK`, `TablesAgree`, `ReadsCommitted`, `CommittedIsHanded`, `ImplementsTables`, `LostOnlyToLock`, `QueriesResume`, `SignalEnds` |
| `node_replica` | the same without failures and restarts; fair | `EventuallyServes` (violated) |
| `p2p_streams` | two hosts, one told of the other; one gossips three blocks, the second of which its reader refuses, and the other one; 3 streams, 1 failure, 1 host that closes, channels of one place; fair | `TypeOK`, `OneReader`, `NothingVanishes`, `PublishReturns`, `FlushedIsHandled` |
| `exec_batches` | 2 rows of transactions with one leaf, with two, with none, or with a list that does not parse; batches that step by 1 row, sub-batches of 2, failing reads and executions; fair | `OncePerBatch`, `WaitGroupCounts`, `MainReturns` |
| `exec_conflict` | 2 rows with the same leaf | `InOrder` (violated) |
| `load` | the driver with one replica and three messages; 1 failure of a database, 1 failing `Publish`, 1 loss, 2 places in the subscription, a map looked through up to height 4; fair | `ConnectedFirst`, `TrafficInOrder`, `WholeMeansTraffic`, `NothingInvented`, `NothingHidden`, `PostingEnds` |
| `eth_posts` | two clients, two transactions, three posts among single calls, batches, notifications, calls that throw and an `eth_call` with a quote in it; a machine that fails or hangs; fair | `TypeOK`, `WrittenAsAsked`, `ReadsAreCurrent`, `PostAnswered` |

What the passing properties say of the core:

- `LogAppendOnly`: no step, a restart included, changes or loses a row.
- `SubmittedIsLogged`: a transaction that passed `Sequence`'s checks is stored,
  however long it was parked and although it has expired since, unless the
  database fails or the process stops.
- `LogVerified`: no path into the log (channel, wire, map of early blocks)
  goes round the checks of signature, signer and conditions.
- `StashKept`, `DrainedBeforeProcess`: a block leaves the map of early blocks
  only for the log or for another of its height; when the loop turns to the block in hand, no waiting
  block fits.
- `LoopReturns`: a waiting block that is refused time and again does not keep
  the loop from its `select`.
- `LogChained`: rows since the last start are one chain from genesis, without a
  gap, that ends at `LastBlock`, even for a process that both chains its own
  and processes others' blocks: `core.go:277` notes that `ProcessBlock` is not
  threadsafe with `Sequence`, but both leave all work to the one loop.

Of replication:

- `Mirror`, `NoEquivocation`: a replica is a prefix of the primary, and the
  operator never publishes two blocks for one height. That the clients of two nodes
  read the same rows (`ReadsAgree`) and that every operator block held is the
  primary's (`Genuine`) are proved with them.
- `Durable`: what is published or copied is in the primary's table, so no crash
  of the primary takes it back, not even one after which the primary signs a
  second history. That a replica offered both histories stores one chain and never
  a mixture is `NetLogChained`, for any number of restarts.
- `ImplementsLog`: all of it refines `SequenceLog`, with `log` the primary's
  table and `copy[r]` the rows a replica has written since it was started.
- `EventuallyHeld`: without losses, restarts and errors of `Publish` every replica
  ends up with every committed block, in its log or in its map.
  `CommittedIsPublished`: the goroutine that was started and forgotten does publish,
  unless the primary stops first or `Publish` fails; that block is then lost to
  everyone else (section 6).

Of one process and its database:

- `TablesAgree`: the committed tables hold the same rows, whichever of the statements
  between Begin and Commit failed, whatever stayed open and wherever the
  process stopped. An insertion after an abandoned one must therefore never
  commit the other's half.
- `ReadsCommitted`: what a query has read is a prefix of the committed rows,
  although the cache it reads through also holds rows that a failing commit may
  take back. It is the lock that makes this so, and the same lock that costs
  what the next two properties count.
- `LostOnlyToLock`: a transaction answered for gets its row, or the process
  ended, or the database failed, or a query was open when the insertion came.
  The last is the disjunct a reader should notice (section 6).
- `QueriesResume`: queries are refused again and again but not for good, unless a
  transaction was left open after it had inserted. The flag that keeps
  statements out goes with the last cursor.
- `ImplementsTables`: the process refines `Tables`. In particular, after a
  transaction has been left open nothing is appended before a restart, and a
  restart loses rows if and only if they were in memory.
- `CommittedIsHanded`: what a primary has committed since its start was given to
  its listener, row by row. The loop runs and takes work as soon as the core is
  built, long before `OnNewBlock`; that nothing is chained in between is due to the
  order of `Start`, where RPC comes last.
- `SignalEnds`: a process told to stop does, wherever its goroutines stand, even
  a replica whose main goroutine will never return.

Of the stream protocol:

- `OneReader`: of the streams of a peer the one in the map is the one that is
  read, whatever the order in which their goroutines start and end; the
  deferred clean-up of an old stream does not remove its successor.
- `NothingVanishes`: a message that was read is in exactly one place until the
  handler has had it.
- `PublishReturns`: no caller of `GossipNewBlock` is stuck for ever. The loop
  that fills streams is the one that drains both channels, so two hosts that send
  to each other might have waited for each other; they do not, since a
  `handleNewStream` waits for the loop but no loop waits for a stream to be
  read.
- `FlushedIsHandled`: what was written to a stream and can be read is handled, unless
  the next stream of the same peer or a host that closes resets it. A message that its
  reader refuses takes no other with it. The first excuse is not rare: every message opens a stream
  that resets the one before, so a burst of two may lose the first.

Of the executer:

- `OncePerBatch`: between two batches every row that `main()` set out to sync has
  been handed to `execute` exactly once for each batch that covers it. It relates
  the arithmetic of batches and sub-batches, the graph and its walk to what
  the goroutines have done or still have to do. It says *handed to* on purpose,
  since they may still be running, and it counts batches because consecutive ones
  share a row (section 6).
- `WaitGroupCounts`: the counter is the number of goroutines of the node visited that
  have called `wg.Add` and not yet `wg.Done`, and none of a node visited before, though
  those may still run; whenever `main()` is parked there is one that will wake it.
- `MainReturns`: the process comes to an end, by itself or by a panic, or meets a
  transaction that depends on itself (section 6). `wg.Add` is called late and
  concurrently with `Wait`, so a lost wake-up is what one fears: there is none.

Of the load driver:

- `ConnectedFirst`: the primary has taken nothing before every replica has a peer,
  which is what the `WaitGroup` is for; it says nothing of subscriptions, and a
  replica that subscribes late misses blocks for good.
- `TrafficInOrder`: one call after the other is enough for the order, and nothing is
  sequenced twice, although a call that fails may have been taken.
- `WholeMeansTraffic`, `NothingInvented`, `NothingHidden`: the numbers of a line are
  read without a lock, in an order that is not fixed, while they change. Still a line
  that says the replica has everything is right; the height it names after `waitingOn`
  is that of a block the replica has received; and a block kept when the scan began that the line
  does not tell of, because it is below that height or because the
  line says `-1`, has been processed since. What a line does not promise is that its
  numbers agree with each other (section 6).
- `PostingEnds`: no call waits for ever and the report ends, also when blocks never
  come.

Of the Ethereum server:

- `WrittenAsAsked`: as long as no command was run with a quote in its input, a hash
  is only answered for a transaction in the chain, and
  the chain holds no more copies than were asked for, through batches,
  notifications and failures. It bounds from above and from below: an error
  answer may be given for a transaction that was written.
- `ReadsAreCurrent`: on the same condition, an `eth_call` sees every transaction whose hash anyone was
  told before it was posted.
- `PostAnswered`: who waits is answered, unless the machine has hung.

**Bounds.** `MaxRows` caps what a signer accepts, `MaxSeen` how many blocks a
lone process is offered, `MaxFaults`, `MaxRestarts`, `MaxTime`, `MaxLosses`,
`MaxUnpublished` and `SubCap` what their names say. In replication, three rows are the least with
which a block can be early by two, be drained in a chain of two, and be
overtaken by a later publication; two places in a subscription are the least
with which the third message is dropped; one failure is enough to leave the
lock taken, because the failures that follow from the lock are not counted. One
restart separates two runs of a process, which is all `boot` distinguishes; in
`repl_histories` it lets the primary sign a second history while the replica still
holds the first.
The proofs of section 7 lift the bounds for the safety
properties that matter most.

In `load` three messages are the least with which the map is drained while the
report is read; the barrier over several replicas is left to the proof
of `ConnectedFirst`. `MaxHeight` has to be above `NumTxs`, as it is in the code (10000000 over
10000).

In `node_locks` two handlers are the least for a flag that one closed cursor does
not clear. Three transactions let one be committed, one refused, and one come
after the refusal. In `p2p_streams` three blocks of one host are the least with
which a caller waits while the loop sends one block and another fills the channel;
three streams are one more than the two with which a stream is reset, so that a refused
message may come between, and fewer than the hosts may want, so opening fails too;
with channels of one place every send may have to wait. In `eth_posts` three
posts let one client ask twice while the other reads.

In the executer, two rows in batches that step by one give batches that share
a row, and sub-batches that are full, partial and empty. `MaxAsked` bounds how often
`execute` is asked for one row, for the walk of a transaction that depends on itself
would ask without end; no other walk of these instances asks for a row more
than twice. The types of the executer are not a property of a run, as they are proved.

**Deadlock** is not checked: with the bounds reached and every goroutine parked
the system is at rest, which is its normal state; the executer and the load driver
end, and a node may be stopped for good.

## 5. Fairness

- `WF(LoopStep)` in `SequencerCore`: the loop's goroutine does not wait inside its
  handlers, and Go runs every runnable goroutine.
- `SF(ReceiveTx)` in `SequencerCore`: `select` picks among ready cases at random,
  so a sender is not passed over for ever by blocks that keep arriving. `core`
  has a block on the wire that is ignored before it is counted
  and so can always be offered again: without the strength a transaction could
  wait for ever. In `Replication` the primary receives no blocks and weak
  fairness is enough.
- `WF(GossipNewBlock)`: *some* pending listener runs, not each one first.
- `WF(Arrive)`: a message that is not lost arrives. `repl_histories` allows no losses
  and a subscription that no burst fills, so its liveness is about order alone.
- `WF(ListenForNewBlocks)`: the listener is a goroutine in a loop.
- `SequencerNode`: `WF` of the main goroutine, of the one that waits for a signal
  and of the loop, each of which is always runnable or waiting for one thing;
  and of each query, which is stepped until it ends. Which of a query and an
  insertion comes first is not assumed.
- `P2PProtocol`: `WF(HostStep(n))` for every host: *some* goroutine of it runs. No
  stream is favoured, and the library's calls and the handler return, as the core
  receives what it is handed (`LoopReturns`).
- `Executer`: `WF(Main \/ CallPanics)`, since `main()` is one goroutine and always
  has a next statement unless it is parked; `WF` of *some* goroutine beginning
  and *some* execution ending, since Go runs what is runnable and the virtual
  machine returns. `MainReturns` uses no fairness of a particular goroutine.
- `LoadDriver`: `WF(Simulate)`, its main goroutine, without the ways in which it fails,
  and `WF(PrimaryRuns)`. Neither the network nor the replicas are fair: that the
  driver ends does not depend on them.
- `EthRpc`: `WF(EventLoop)`. That the machine ends is not assumed: `VMHangs` is one
  of the loop's steps.
- Nothing is assumed of clients, of time, of failures, of signals or of restarts.

## 6. What the runs found

- `repl_tail`: of two blocks delivered in the order 2, 1, the replica stores the
  first and leaves the second in its map, since the map is only looked through
  when the next block arrives. If there is none, the replica stays behind for
  ever although it holds everything. The comment in `checkOutOfOrderBlocks`
  (`core.go:141`) says the child is processed once the parent is.
- `repl_primary_restart`: a primary that is restarted on its database starts
  again from genesis and publishes a second, different block of height 1,
  against the append-only log that `sequencer/mvp/README.md:6` promises.
- `exec_conflict`: the map of last writers is keyed by an address
  (`main.go:152`, `164`), so transactions with a leaf in common run side by side;
  the comment at `main.go:159-160` says the later points at the earlier. `NodeDependents`
  proves it for any batch: no transaction ever depends on another.
- `node_replica`: a replica never opens the RPC port it is given.
  `ListenForNewBlocks` loops on the main goroutine, and the lines that start the
  server come after it (`node.go:89-90`, `136-148`); `start.go:39` and
  `sequencer/mvp/README.md:37` give a replica `-rpcport`.

What else came up while modelling, without a run of its own:

- *One query may end sequencing.* If a `sequencer_get` has its cursor open when the
  loop inserts, the insertion fails, the error path keeps the transaction open
  and the connection is lost to the pool (`core.go:175-183`). From then on every
  insertion of the process fails, while each caller of `sequencer_append` is
  answered as before. `LostOnlyToLock` and `ImplementsTables` hold only because
  they have this case; no document says that it cannot happen.
- *Answers that are too short.* While an insertion is under way `sequencer_info` may
  answer 0 and `sequencer_get` nothing, without an error; an executer that asks then
  ends early or skips rows (`unread`).
- `Sequence` answers 0 for every transaction, before a row exists
  (`core.go:464`). The comment (`core.go:435`) says it assigns a number, a test
  (`core_test.go:91`) that the first is 1.
- *A committed block may stay with the primary.* An error of `Publish` is printed and
  nothing is tried again (`p2p.go:170-174`); as nobody can ask for old blocks,
  every replica stays at the block before. `CommittedIsPublished` and `EventuallyHeld`
  excuse it.
- In `p2pv2.go` a message above 1 MiB can be sent and not read (`p2pv2.go:51`, `180`,
  `255-259`): its sender is told of no error.
- A line of the report may contradict itself, as `lastBlock` above `waitingOn`: the
  two are loaded in an order that Go leaves open (`run.go:154-161`).
- The input of the virtual machine is quoted for a shell without being escaped
  (`index.js:67-80`). A call with a quote in it runs another command than the
  one meant, which is why `WrittenAsAsked` and `ReadsAreCurrent` have a condition.
- `main()` of the executer may end, and the process with it, before its last
  sub-batch has begun, as `wg.Add(1)` runs inside the goroutine it counts
  (`main.go:213`).
- A transaction that lists two leaves depends on itself, and the walk never
  ends (`main.go:164`); `main.go:122` speaks of a tree. `MainReturns` excuses it
  under the name `SelfDependent`.
- The row at the boundary of two batches is executed twice, since both bounds of
  `Get` are included and `i` advances by their distance (`main.go:107`, `237`,
  `core.go:477`): `OncePerBatch` counts on it.
- A replica that misses one pubsub message never gets that block,
  since `FetchHistory` is empty although the comment at `node.go:153` says that
  replicas request what they have missed: `EventuallyHeld` holds only because
  `repl_histories` loses nothing, and fails with `MaxLosses = 1`.
- In `p2pv2.go` a host sends to its bootstrap peers and to those that have opened a stream
  to it; one without either sends to nobody and reports nothing.
  Every inbound stream adds its peer once more, so later messages are sent that
  many times over (`p2pv2.go:158`).
- `eth_sendRawTransaction` executes at once and sequences nothing, where
  `README.md:87-89` has the RPC sequence a transaction and wait for its
  execution; every transaction has the same hash and the same receipt, and one
  that is sent twice is written twice.
- `sequencer/mvp/README.md:22` lists `sequencer_read`, which the server calls
  `sequencer_get`, and lines 40-41 ask on port 49000, where 24444 is the default.

## 7. What is proved

TLAPS checks every theorem for all values of the constants that satisfy the
assumptions: any nodes, keys, transactions, handlers, clients and bounds. The
assumptions are `MessagesAssumption` (which values are distinct, what a condition is),
`SequencerCoreAssumption` and `ReplicationAssumption` (the bounds are numbers; a
stranger cannot make the operator's signature), `P2PProtocolAssumption`,
`ExecuterAssumption` (a transaction has a list of leaves, the batch sizes are at least
1), `EthRpcAssumption`, and for the load driver `LoadDriverAssumption`, `NonceAssumption` and
`TrafficAssumption` (section 3). TLC evaluates all of them.

**The argument.** A safety property is proved from an invariant that implies it and
that every step keeps. The parts of each invariant, and why the property alone is
not enough:

| module | theorems | inductive invariant |
|---|---|---|
| `SequencerCore_proofs` | `TypeCorrect`, `LogChainedAlways` | `IInv`: the types, `InHand`, `TablesInStep`, `LogChained` |
| | `LogVerifiedAlways`, `StashIsMapAlways`, `DrainedBeforeProcessAlways`; the action properties `LogAppendOnlyAlways`, `StashKeptAlways` | `VInv`: `IInv`, `Checked`, both invariants; `DInv`: `VInv`, `LockIsFault`, `DrainedBeforeProcess` |
| `Replication_proofs` | if the primary is never restarted: `MirrorAlways`, `GenuineAlways`, `NoEquivocationAlways`, `ReadsAgreeAlways`, and the refinement `NetImplementsLog` | `NInv`: `IInv`, `Roles`, `Published`, `Genuine`, `Mirror` |
| | whatever is restarted: `NetTypes`, `DurableAlways`, `NetLogChained` | `HInv`: `IInv`, types, `Places`, `Durable`, `HeldCommitted` |
| `SequencerNode_proofs` | `NodeTypes`, `TablesAgreeAlways`, `ReadsCommittedAlways`, `CommittedIsHandedAlways`, and the refinement `NodeImplementsTables` | `NodeInv`: types, `OneWriter` with `InStep`, `Boots`, and the three properties |
| `P2PProtocol_proofs` | `ProtocolTypes`, `OneReaderAlways`, `NothingVanishesAlways` | `ProtocolInv`: types, `Entries`, `Flow`, both properties |
| `Executer_proofs` | `ExecuterTypes`, `WaitGroupCountsAlways`, `OncePerBatchAlways`; of the graph, `RootDependents` and `NodeDependents` | `Inv`: types, `Stepped`, `HeightInv`, `BatchInv`, `WalkInv`, `Bounded`, `WaitGroupCounts`, `Accounted` |
| `LoadDriver_proofs` | `LoadTypes`, `ConnectedFirstAlways`, `TrafficInOrderAlways`, `OnlyExpiredRefusedAlways`, `WholeMeansTrafficAlways`, `NothingInventedAlways`, `NothingHiddenAlways` | `LoadInv`: `NInv`, types, `Counters`, `Peering`, `Posting`, `Spread`, `OnlyExpiredRefused`, `Lines` |
| `EthRpc_proofs` | `RpcTypes`, `WrittenAsAskedAlways`, `ReadsAreCurrentAlways` | `RpcInv`: types, `Working`, `Numbered`, `Floors`, `ReadsAreCurrent`, `Accounted` |

*The core.* `LogChained` is not inductive: `InHand` is needed to know that the loop
appends a transaction and a block rather than the empty values, and
`TablesInStep` to extend both tables at the same row. Every step either leaves the
log alone (`LogUnchanged`) or extends it by one child of `LastBlock` (`Extends`);
`KeepLog` and `ExtendLog` show that both keep the invariant, and each action has a
lemma that says which it does. `doSequenceWork` does not verify again, so
`LogVerified` needs `Checked`: what is parked, and what the loop has received,
has passed verification. `DrainedBeforeProcess` speaks of runs
without a failure of the database: there a pass over the map ends only when
nothing fits, which needs that the write lock is never taken (`LockIsFault`: a
lock that is taken is the trace of a failure).

*Replication.* `Mirror` needs `Genuine` because a replica compares only the previous
hash: that the child of its last block is the *primary's* child follows from the
operator having signed one block per height, which is `LogChained` of the primary.
It is also why the primary must not restart: section 6 shows that `NoEquivocation`
then fails. What survives its restarts is `Durable`, which needs that a replica's
queue, hand and map hold only what is in the primary's table (`HeldCommitted`).
The refinement of `SequenceLog` follows from `NInv` and `NInv'`: a step of
the primary appends to `log` or leaves it, a replica's copies the
next element, its restart empties the copy, and `Mirror'` says that the new copy is
a prefix.

*A node.* While a transaction has inserted and not committed no cursor is open and
no older transaction is left open (`OneWriter`); this is the table lock of
SQLite, and `ReadsCommitted` and the abstract lock of `Tables` follow from it.
`TablesAgree` speaks of committed rows and needs to know the uncommitted ones:
`InStep` says that the tables in the cache are the saved ones, extended by
the row in hand in as many tables as the transaction has inserted into. A
transaction left open with half its rows breaks this for good (`leak = "table"`),
and then nothing commits any more; that is what `AgreeKept` rests on.
`Boots` relates how far the main goroutine has come to what the process may
have taken: before the servers, nothing.

*Streams.* `OneReader` needs that an entry of `inboundStreams[n][m]` is a stream from
`m` to `n` (`Entries`), or the clean-up of one peer's stream could touch another's.
`NothingVanishes` counts the places of a message; `Flow` says which host's channel
a stream can be in.

*The executer.* `OncePerBatch` speaks of the moments between two batches and says nothing
of those in between, so it needs an account that holds at every step: `Accounted`
adds to the batches walked what the batch at hand has asked for, which is the rows of the
first sub-batches while the root is visited and all rows afterwards
(`HandedIn`). That this is exact is a fact about the graph. `RootDependents`: the first
leaf of each transaction has no writer, so the root leads to every transaction once,
in their order. `NodeDependents`: the keys of two transactions differ, so a later
leaf finds the transaction itself, and no transaction leads to another. Both are
proved for any batch and any leaves, as is `SubBatchOnce`: consecutive ranges cut the
root's dependents without a gap or an overlap, an empty last one included.
`BatchInv` says that a batch fetched whole holds each row of its range once,
`OneMoreBatch` that the next one adds it to the batches counted, and `Stepped` that
`i` is a multiple of the batch size, without which a range could be counted that was never
fetched. `WalkInv` follows the walk below the root, where a transaction that reads two
leaves asks for itself: it is then queued or visited for ever (`Doomed`), so no later
batch is owed anything (`Endless`). `WaitGroupCounts` is proved with the goroutines numbered
(`Counted`), because a WaitGroup counts what a function on kinds of goroutines only
sums. It is inductive only with `Bounded`, which keeps the numbers within the set that
is counted. TLC checked `Inv` on a small instance before the proof was begun.

*The load driver.* Its invariant contains that of the network, and each step is
shown to be one of `Replication` or to leave it alone (`NetKind`). `Posting` says
that one message is under way at most and is later than the log, which makes the
order strict; `Spread`, that nonces grow as fast as rows, turns "as many rows as
messages" into "exactly the traffic". `Peering` is the barrier: the counter is the number
of goroutines that poll. `Lines` holds while a line is being read: what has
been read is a lower bound of what there is now, a block that the scan has gone past
without finding has been processed, and one that it has found was received. None of
this depends on when `LastBlock` was read. That the map cannot lose a block to a scan of
increasing heights is the reason why reading without a lock gives a true line.

*The Ethereum server.* `WrittenAsAsked` counts: for each transaction the times it
was written and the calls that may still write it (`Owed`, a finite set of places in posts)
are together at most the times it was asked for (`Accounted`). The parts that
speak of the chain are kept until `misquoted` holds. `ReadsAreCurrent`
needs that every hash told is in the chain, and that a post carries no later floor than
that (`Floors`).

**Not proved**, checked by TLC only: every property under fairness, which are
`SubmittedIsLogged`, `LoopReturns`, `EventuallyHeld`, `CommittedIsPublished`, `MainReturns`,
`PublishReturns`, `FlushedIsHandled`, `LostOnlyToLock`, `QueriesResume`, `SignalEnds`,
`PostingEnds` and `PostAnswered`. Liveness and `ENABLED` are out of the prover's reach.
No invariant, action property or refinement that a passing run checks is left unproved.
`MirrorAlways`, `NoEquivocationAlways` and `NetImplementsLog` are proved for a primary
that is never restarted, which is also what their run checks and the most that holds
(section 6).

## 8. What is not modelled

- *`OnNewBlock` while blocks are chained* does not happen: `CommittedIsHanded` is
  why. `GetBlocks` answers a constant and `Close` of the core is never called.
- *`FetchHistory`* is empty, the block under `if false` in `Start` never runs, and the goroutine below
  it has no statement (`node.go:94-134`).
- *Peer discovery* (`HandlePeerFound` in both networks, with the two routines of
  `p2p.go:200-241` that would announce and listen): nothing starts it.
- *`init`* prints fresh keys. *`utils.go`* decodes keys and addresses: one that
  does not decode is a way for `NewSequencerNode` to panic, and no more.
- *The load driver's* own primary is commented out (`run.go`), and so it is not there; the
  databases of its replicas are in memory with one connection each, so none of the locks
  of `Storage` meets them.
- *The virtual machine, libp2p, SQLite, the JSON-RPC library*: external, modelled by
  what the code can see of them. A second run of the executer
  starts at row 0 again with nothing kept: it is `Init`.
- *Memory that only grows*: the map of early blocks, the list of peers, output files of
  the Ethereum server. The code sets no limit that a property could state.
- *Contracts, `playspace`, `research/`*: no state of this system; the Cosmos
  simapp is a copy of third-party code.

## 9. Plan

Done: the models of all components of section 1, their runs, and the proofs of every safety
property that a run checks, with the two refinements.

What is left is peer discovery, if the node ever starts it, and the liveness
properties for all values of the constants, if a prover for them is at hand.
