------------------------------ MODULE Executer ------------------------------
(***************************************************************************)
(* scheduler/cmd/executer/main.go: a process that reads the sequencer's    *)
(* table in batches and executes the transactions of each batch along a    *)
(* graph of their dependencies, walked breadth first from a root.          *)
(*                                                                         *)
(* main() is one goroutine; it starts one goroutine per transaction and    *)
(* waits for a sub-batch of them with a WaitGroup, one per visited node.   *)
(*                                                                         *)
(* A definition whose name starts with Mutant is a plausible fault of the  *)
(* definition that follows it.                                             *)
(***************************************************************************)
EXTENDS Integers, Sequences, FiniteSets

CONSTANTS
  Tx,            \* transactions
  Leaf,          \* state leaves
  NoLeaf,        \* what stands for the leaf of a transaction that reads none
  Reads,         \* Reads[tx]: the state leaves of tx, in the order listed
  Malformed,     \* transactions whose list of leaves does not parse
  BatchSize,     \* 1000 in the code
  ExecBatchSize, \* 100 in the code
  MaxOrder,      \* bound: rows of the table
  MaxAsked       \* bound: how often execute() is asked for a row

ASSUME ExecuterAssumption ==
  /\ Malformed \subseteq Tx
  /\ Reads \in [Tx -> Seq(Leaf)]
  /\ NoLeaf \notin Leaf
  /\ BatchSize \in Nat \ {0} /\ ExecBatchSize \in Nat \ {0}
  /\ MaxOrder \in Nat /\ MaxAsked \in Nat

VARIABLES
  order,       \* the sequencer's table: row i holds the i-th transaction
  \* main()
  pc,          \* where main() stands
  height,      \* res.Count of sequencer_info
  i,           \* the first row of the batch
  txs,         \* res.Txs: the rows fetched, with their transactions
  toVisit,     \* nodes of the graph still to visit; a node is its row
  node,        \* the node visited
  sub,         \* the sub-batch of its dependents
  wg,          \* counter of the WaitGroup of the node visited
  \* the goroutines of execute()
  live,        \* live[g]: how many goroutines like g have not ended
  executed,    \* executed[row]: how often execute() has returned
  unread       \* history: an answer came back short because reading failed

graphVars == <<height, i, txs, toVisit, node, sub>>
vars == <<order, pc, height, i, txs, toVisit, node, sub, wg, live, executed,
          unread>>

Root == 0
Row  == 1..MaxOrder

\* A goroutine: started by `go` but not scheduled, or inside execute(); counted
\* by the WaitGroup main() waits for, or by that of a node visited before.
Goroutine == [row : Row, running : BOOLEAN, mine : BOOLEAN]

Go(row, running, mine) == [row |-> row, running |-> running, mine |-> mine]

Phase == {"info", "fetch", "visit", "spawn", "wait", "parked", "woken",
          "exited", "crashed"}

TypeOK ==
  /\ order \in Seq(Tx) /\ Len(order) <= MaxOrder
  /\ pc \in Phase
  /\ height \in Nat /\ i \in Nat /\ sub \in Nat /\ wg \in Nat
  /\ txs \in Seq([row : Row, tx : Tx])
  /\ toVisit \in Seq(Row \cup {Root}) /\ node \in Row \cup {Root}
  /\ live \in [Goroutine -> Nat] /\ executed \in [Row -> Nat]
  /\ unread \in BOOLEAN

Init ==
  /\ order = << >>
  /\ pc = "info"
  /\ height = 0 /\ i = 0 /\ sub = 0 /\ wg = 0
  /\ txs = << >> /\ toVisit = << >> /\ node = Root
  /\ live = [g \in Goroutine |-> 0]
  /\ executed = [row \in Row |-> 0]
  /\ unread = FALSE

-----------------------------------------------------------------------------
(* The execution graph.  An edge is named by the pair of loop indices with *)
(* which it is appended: the transaction and the position of the leaf.     *)

\* A transaction that reads nothing is pointed at the root, once.
LeavesOf(row) == IF Reads[row.tx] = << >> THEN <<NoLeaf>> ELSE Reads[row.tx]

Edges(batch) ==
  UNION {{<<k, l>> : l \in DOMAIN LeavesOf(batch[k])} : k \in DOMAIN batch}

AppendedBefore(d, e) == d[1] < e[1] \/ (d[1] = e[1] /\ d[2] < e[2])

From(batch, e) == batch[e[1]].row

LeafOf(batch, e) == LeavesOf(batch[e[1]])[e[2]]

(* The map of last writers is keyed by the address of the loop variable,   *)
(* of which each run of the inner loop has one.                            *)
Key(batch, e) == e[1]

\* The edges whose source is under the key of e when e looks it up.
Writers(batch, e) ==
  {d \in Edges(batch) : /\ AppendedBefore(d, e) /\ LeafOf(batch, d) # NoLeaf
                        /\ Key(batch, d) = Key(batch, e)}

\* The node of lastToModifyLeaf, or the root.
To(batch, e) ==
  IF LeafOf(batch, e) = NoLeaf \/ Writers(batch, e) = {} THEN Root
  ELSE From(batch, CHOOSE d \in Writers(batch, e) :
                     \A c \in Writers(batch, e) : ~AppendedBefore(d, c))

\* The m-th of a set of edges, in the order in which they were appended.
Nth(edges, m) ==
  CHOOSE e \in edges :
    Cardinality({d \in edges : ~AppendedBefore(e, d)}) = m

Leading(batch, n) == {e \in Edges(batch) : To(batch, e) = n}

\* The sources of the edges that lead to n.
Dependents(batch, n) ==
  [m \in 1..Cardinality(Leading(batch, n)) |->
    From(batch, Nth(Leading(batch, n), m))]

-----------------------------------------------------------------------------
(* The sequencer.                                                          *)

AppendRow(tx) ==
  /\ Len(order) < MaxOrder
  /\ order' = Append(order, tx)
  /\ UNCHANGED <<pc, graphVars, wg, live, executed, unread>>

Rows(first, last) ==
  [k \in 1..(last - first + 1) |->
    [row |-> first + k - 1, tx |-> order[first + k - 1]]]

Smaller(a, b) == IF a < b THEN a ELSE b

MutantExclusive(from, to) ==   \* neither bound is included
  Rows(from + 1, Smaller(to - 1, Len(order)))

\* The rows sequencer_get answers: both bounds are included, rows begin at 1.
Get(from, to) ==
  Rows(IF from = 0 THEN 1 ELSE from, Smaller(to, Len(order)))

-----------------------------------------------------------------------------
(* main().                                                                 *)

Crash ==
  /\ pc' = "crashed"
  /\ UNCHANGED <<order, graphVars, wg, live, executed, unread>>

(* sequencer_info; when counting the rows fails, Info answers 0, since no  *)
(* one asks the cursor why it stopped.                                     *)
GetInfo ==
  /\ pc = "info"
  /\ pc' = "fetch"
  /\ \/ height' = Len(order) /\ UNCHANGED unread
     \/ height' = 0 /\ unread' = TRUE
  /\ UNCHANGED <<order, i, txs, toVisit, node, sub, wg, live, executed>>

Parses(batch) == \A k \in DOMAIN batch : batch[k].tx \notin Malformed

(* The batch that starts at i.  When the sequencer's query fails, its      *)
(* handler recovers from a panic and answers nothing, without an error;    *)
(* when reading the rows fails half way, the answer ends there, since no   *)
(* one asks the cursor why it stopped.                                     *)
GetBatch ==
  /\ pc = "fetch" /\ i < height
  /\ LET wanted == Get(i, i + BatchSize)
     IN  \/ txs' = wanted /\ UNCHANGED unread
         \/ \E k \in 0..(Len(wanted) - 1) :
              txs' = SubSeq(wanted, 1, k) /\ unread' = TRUE
  /\ Parses(txs')
  /\ toVisit' = <<Root>>
  /\ pc' = "visit"
  /\ UNCHANGED <<order, height, i, node, sub, wg, live, executed>>

(* An error of either call panics, and so does a list of leaves that does  *)
(* not parse.                                                              *)
CallPanics == pc \in {"info", "fetch"} /\ (pc = "fetch" => i < height) /\ Crash

\* The next node, with a WaitGroup of its own.
Visit ==
  /\ pc = "visit" /\ toVisit # << >>
  /\ node' = Head(toVisit)
  /\ toVisit' = Tail(toVisit)
  /\ sub' = 0 /\ wg' = 0
  /\ live' = [g \in Goroutine |->
               IF g.mine THEN 0 ELSE live[g] + live[Go(g.row, g.running, TRUE)]]
  /\ pc' = IF Dependents(txs, Head(toVisit)) = << >> THEN "visit" ELSE "spawn"
  /\ UNCHANGED <<order, height, i, txs, executed, unread>>

\* The number of sub-batches; the last one may be empty.
SubBatches(dependents) == (Len(dependents) \div ExecBatchSize) + 1

\* How often a row occurs in the k-th sub-batch.
InSubBatch(row, dependents, k) ==
  Cardinality({m \in DOMAIN dependents : /\ ExecBatchSize * k < m
                                         /\ m <= ExecBatchSize * (k + 1)
                                         /\ dependents[m] = row})

\* How often execute() has been asked for a row: done, running or to come.
Asked(row) ==
  executed[row] + live[Go(row, FALSE, FALSE)] + live[Go(row, FALSE, TRUE)]
                + live[Go(row, TRUE, FALSE)] + live[Go(row, TRUE, TRUE)]

(* A goroutine for each transaction of the sub-batch.  They may start      *)
(* before the last one is created, which main() cannot tell.               *)
StartSubBatch ==
  /\ pc = "spawn"
  /\ LET started(row) == InSubBatch(row, Dependents(txs, node), sub)
     IN  /\ \A row \in Row : Asked(row) + started(row) <= MaxAsked
         /\ live' = [g \in Goroutine |->
                      IF g.mine /\ ~g.running THEN live[g] + started(g.row)
                      ELSE live[g]]
  /\ pc' = "wait"
  /\ UNCHANGED <<order, graphVars, wg, executed, unread>>

\* After wg.Wait(): the next sub-batch, or the children of the node.
NextSubBatch ==
  \/ /\ sub + 1 < SubBatches(Dependents(txs, node))
     /\ sub' = sub + 1
     /\ pc' = "spawn"
     /\ UNCHANGED toVisit
  \/ /\ sub + 1 >= SubBatches(Dependents(txs, node))
     /\ toVisit' = toVisit \o Dependents(txs, node)
     /\ pc' = "visit"
     /\ UNCHANGED sub

(* wg.Wait() returns at once when no goroutine has yet called wg.Add.      *)
Wait ==
  /\ pc = "wait"
  /\ \/ /\ wg = 0
        /\ NextSubBatch
     \/ /\ wg > 0
        /\ pc' = "parked"
        /\ UNCHANGED <<toVisit, sub>>
  /\ UNCHANGED <<order, height, i, txs, node, wg, live, executed, unread>>

(* Woken, wg.Wait() panics if the counter has moved on in the meantime:    *)
(* the WaitGroup is reused before the previous Wait has returned.          *)
WaitReturns ==
  /\ pc = "woken"
  /\ \/ /\ wg = 0
        /\ NextSubBatch
        /\ UNCHANGED <<order, height, i, txs, node, wg, live, executed, unread>>
     \/ wg > 0 /\ Crash

NextBatch ==
  /\ pc = "visit" /\ toVisit = << >>
  /\ i' = i + BatchSize
  /\ pc' = "fetch"
  /\ UNCHANGED <<order, height, txs, toVisit, node, sub, wg, live, executed,
                 unread>>

\* main() returns, and the process ends with whatever still runs in it.
Exit ==
  /\ pc = "fetch" /\ i >= height
  /\ pc' = "exited"
  /\ UNCHANGED <<order, graphVars, wg, live, executed, unread>>

Main ==
  \/ GetInfo \/ GetBatch \/ Visit \/ StartSubBatch \/ Wait \/ WaitReturns
  \/ NextBatch \/ Exit

-----------------------------------------------------------------------------
(* The goroutines.                                                         *)

Ended == pc \in {"exited", "crashed"}

\* wg.Add(1), inside the goroutine that it counts.
Begin(g) ==
  /\ ~Ended /\ live[g] > 0 /\ ~g.running
  /\ live' = [live EXCEPT ![g] = @ - 1, ![Go(g.row, TRUE, g.mine)] = @ + 1]
  /\ wg' = IF g.mine THEN wg + 1 ELSE wg
  /\ UNCHANGED <<order, pc, graphVars, executed, unread>>

Returns(g) ==
  /\ ~Ended /\ live[g] > 0 /\ g.running
  /\ live' = [live EXCEPT ![g] = @ - 1]
  /\ executed' = [executed EXCEPT ![g.row] = @ + 1]

MutantNoDone(g) ==           \* an early return skips wg.Done()
  Returns(g) /\ UNCHANGED <<order, pc, graphVars, wg, unread>>

MutantSharedDone(g) ==       \* wg.Done() on a counter all visits share
  /\ Returns(g)
  /\ wg' = wg - 1
  /\ pc' = IF pc = "parked" /\ wg' = 0 THEN "woken" ELSE pc
  /\ UNCHANGED <<order, graphVars, unread>>

\* execute() returns and wg.Done() wakes main() when it was the last.
Finish(g) ==
  /\ Returns(g)
  /\ wg' = IF g.mine THEN wg - 1 ELSE wg
  /\ pc' = IF pc = "parked" /\ wg' = 0 THEN "woken" ELSE pc
  /\ UNCHANGED <<order, graphVars, unread>>

\* The virtual machine fails, and the panic of execute() ends the process.
ExecuteFails(g) == ~Ended /\ live[g] > 0 /\ g.running /\ Crash

Next ==
  \/ \E tx \in Tx : AppendRow(tx)
  \/ Main \/ CallPanics
  \/ \E g \in Goroutine : Begin(g) \/ Finish(g) \/ ExecuteFails(g)

Spec == Init /\ [][Next]_vars

(* Goroutines that can run do; nothing need be appended and nothing fail.  *)
Fairness ==
  /\ WF_vars(Main \/ CallPanics)
  /\ WF_vars(\E g \in Goroutine : Begin(g))
  /\ WF_vars(\E g \in Goroutine : Finish(g))

FairSpec == Spec /\ Fairness

-----------------------------------------------------------------------------
(* Safety.                                                                 *)

\* The batches before the one that starts at i whose range holds the row.
BatchesOf(row) ==
  {k \in 0..i : /\ k * BatchSize < i /\ k * BatchSize <= row
                /\ row <= (k + 1) * BatchSize}

(* Between two batches every row that main() set out to sync has been      *)
(* handed to execute() exactly once for each batch that fetched it: the    *)
(* batches leave no gap, the graph reaches every transaction and the       *)
(* sub-batches neither lose nor repeat one.  The row at the end of a batch *)
(* is also the first of the next, and so is executed twice.                *)
OncePerBatch == pc \in {"fetch", "exited"} /\ ~unread =>
  \A row \in 1..height : Asked(row) = Cardinality(BatchesOf(row))

\* The goroutines of the node visited that are inside execute(), numbered.
Counted ==
  {c \in Row \X (1..MaxAsked) : c[2] <= live[Go(c[1], TRUE, TRUE)]}

(* The WaitGroup counts the goroutines of the node visited that have begun *)
(* and not ended, and none of an earlier node; main() waits in it only for *)
(* one of them, which will wake it: no wake-up is lost, although wg.Add is *)
(* called late, from the goroutine.                                        *)
WaitGroupCounts ==
  /\ wg = Cardinality(Counted)
  /\ pc = "parked" => \E row \in Row : live[Go(row, TRUE, TRUE)] > 0

-----------------------------------------------------------------------------
(* Liveness.                                                               *)

\* A transaction of the batch depends on itself.
SelfDependent == \E e \in Edges(txs) : From(txs, e) = To(txs, e)

(* The process comes to an end, or meets a transaction that depends on     *)
(* itself (any that reads two leaves): no wg.Wait() waits for a goroutine  *)
(* that has already gone, and nothing else keeps the walk from finishing.  *)
MainReturns == <>(Ended \/ SelfDependent)

-----------------------------------------------------------------------------
(* What a comment in main.go says.                                         *)

Conflict(a, b) ==
  \E j \in DOMAIN Reads[order[a]], k \in DOMAIN Reads[order[b]] :
    Reads[order[a]][j] = Reads[order[b]][k]

(* "Point the current tx at the tx it depends on (aka the tx that wrote    *)
(* this state leaf we're reading)": a transaction runs after the earlier   *)
(* ones that use a leaf of its own.                                        *)
InOrder == \A g \in Goroutine : live[g] > 0 /\ g.running =>
  \A a \in 1..(g.row - 1) : Conflict(a, g.row) => executed[a] > 0
=============================================================================
