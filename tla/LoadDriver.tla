----------------------------- MODULE LoadDriver -----------------------------
(***************************************************************************)
(* benchmarking/run.go: a process that hosts the replicas, waits until     *)
(* each has a peer, posts its traffic to a primary that runs elsewhere,    *)
(* one call at a time, and after a pause reads the counters of the         *)
(* replicas, whose loops and listeners keep running meanwhile.             *)
(*                                                                         *)
(* Composes main() with the network of Replication.  The replicas live and *)
(* die with the driver; the primary has no other client.                   *)
(***************************************************************************)
EXTENDS Replication, Transactions

CONSTANTS
  NumTxs,      \* numSequenceTxs (10000 in the code)
  MaxHeight,   \* the argument of WaitedBlocks (10000000 in the code)
  Expiry,      \* the clock 25 hours after the traffic was made
  NoLine       \* a line of the report that is not (being) printed

VARIABLES
  main,        \* where simulate() stands
  linked,      \* replicas whose host has a peer
  subscribed,  \* replicas whose subscription the peer knows of
  wg,          \* the counter of the WaitGroup
  polling,     \* replicas whose goroutine still waits for a peer
  next,        \* the message of the traffic to post, or being posted
  line,        \* the line of the report being printed
  report       \* report[r]: the line printed for r

peerVars == <<linked, subscribed, wg, polling>>
lineVars == <<line, report>>
driverVars == <<main, peerVars, next, lineVars>>
loadVars == <<vars, network, seen, buffer, losses, unpublished, main, linked,
              subscribed, wg, polling, next, line, report>>

Ended == {"done", "fatal", "refused"}
Main  == {"build", "start", "wait", "dial", "post", "called", "report"} \cup Ended

\* node, step and height are the progress of the line, stash is history; last
\* is -1 as long as LastBlock has not been read.
Line == [node : Replica, step : {"waited", "scan", "print"},
         last : Nat \cup {-1}, height : Nat, waited : Nat \cup {-1},
         stash : SUBSET Block]

LoadTypeOK ==
  /\ NetTypeOK
  /\ main \in Main
  /\ linked \in SUBSET Replica /\ subscribed \in SUBSET linked
  /\ wg \in Nat /\ polling \in SUBSET Replica
  /\ next \in 1..(NumTxs + 1)
  /\ line \in Line \cup {NoLine}
  /\ report \in [Replica -> Line \cup {NoLine}]

-----------------------------------------------------------------------------
(* The traffic.                                                            *)

\* string(nonce): what is not a code point becomes the replacement character.
Rune(i) == IF i \in 55296..57343 \/ i > 1114111 THEN 65533 ELSE i

GenerateMockSequenceTx(key, i) ==
  SignedTx(SetFrom(ConstructSequenceMessage(Rune(i), Expiry), key), key)

Traffic == [i \in 1..NumTxs |-> GenerateMockSequenceTx(Operator, i - 1)]

ASSUME LoadDriverAssumption ==
  /\ IsFiniteSet(Node)
  /\ NumTxs \in Nat \ {0}
  /\ MaxHeight \in Nat /\ MaxHeight > NumTxs
  /\ Expiry \in Nat
  /\ NoLine \notin Line

\* Below the code points that are no characters the nonces are distinct.
ASSUME NonceAssumption == NumTxs <= 55296

ASSUME TrafficAssumption ==
  /\ \A i \in 1..NumTxs : Traffic[i] \in Tx
  /\ Authentic = {tx \in Tx : SignatureMatchesFrom(tx)}
  /\ \A tx \in Tx : Expires[tx] = tx.expires

-----------------------------------------------------------------------------
LoadInit ==
  /\ NetInit
  /\ main = "build"
  /\ linked = {} /\ subscribed = {}
  /\ wg = 0 /\ polling = {}
  /\ next = 1
  /\ line = NoLine
  /\ report = [r \in Replica |-> NoLine]

(* Each node dials the primary while it is built, and never again; a node  *)
(* that cannot be built ends the process.                                  *)
BuildReplicas ==
  /\ main = "build"
  /\ \/ main' = "start" /\ linked' \in SUBSET Replica
     \/ main' = "fatal" /\ UNCHANGED linked
  /\ UNCHANGED <<allVars, subscribed, wg, polling, next, lineVars>>

(* go replica.Start(): it subscribes, sooner or later, and is never sent   *)
(* what was published before the primary knew.                             *)
Subscribe(r) ==
  /\ main \notin Ended \cup {"build", "start"}
  /\ r \in linked \ subscribed
  /\ subscribed' = subscribed \cup {r}
  /\ seen' = [seen EXCEPT ![r] = @ \cup network]
  /\ UNCHANGED <<vars, network, buffer, losses, unpublished, main, linked, wg,
                 polling, next, lineVars>>

MutantAddInside ==           \* wg.Add(1) is left to the goroutine
  /\ main = "start" /\ main' = "wait"
  /\ polling' = Replica
  /\ UNCHANGED <<allVars, linked, subscribed, wg, next, lineVars>>

\* wg.Add(1) and a goroutine that polls, for every replica.
StartPolling ==
  /\ main = "start" /\ main' = "wait"
  /\ wg' = Cardinality(Replica) /\ polling' = Replica
  /\ UNCHANGED <<allVars, linked, subscribed, next, lineVars>>

\* waitForPeeringsConnected sees a peer at last, and the goroutine is done.
PeeringConnected(r) ==
  /\ main \notin Ended
  /\ r \in polling \cap linked
  /\ polling' = polling \ {r} /\ wg' = wg - 1
  /\ UNCHANGED <<allVars, main, linked, subscribed, next, lineVars>>

WaitReturns ==
  /\ main = "wait" /\ wg = 0
  /\ main' = "dial"
  /\ UNCHANGED <<allVars, peerVars, next, lineVars>>

Dial ==
  /\ main = "dial"
  /\ main' \in {"post", "fatal"}
  /\ UNCHANGED <<allVars, peerVars, next, lineVars>>

-----------------------------------------------------------------------------
(* Posting: rpcclient.Call for one message after the other.                *)

Post ==
  /\ main = "post" /\ next <= NumTxs
  /\ Sequence(Primary, Traffic[next])
  /\ main' = "called"
  /\ UNCHANGED <<netVars, peerVars, next, lineVars>>

PostRefused ==
  /\ main = "post" /\ next <= NumTxs
  /\ ~VerifySequenceMessage(Traffic[next], TRUE, now)
  /\ main' = "refused"
  /\ UNCHANGED <<allVars, peerVars, next, lineVars>>

CallReturns ==
  /\ main = "called"
  /\ SequenceReply(Traffic[next]) \in replies[Primary]
  /\ main' = "post" /\ next' = next + 1
  /\ UNCHANGED <<allVars, peerVars, lineVars>>

Calling ==
  \/ main = "called"
  \/ main = "post" /\ next <= NumTxs

MutantPostAgain ==           \* what went wrong is posted once more
  /\ Calling
  /\ main' = "post"
  /\ UNCHANGED <<allVars, peerVars, next, lineVars>>

(* The connection fails, before or after the primary has taken the message:*)
(* log.Fatal, without the deferred Close of any replica.                   *)
CallFails ==
  /\ Calling
  /\ main' = "fatal"
  /\ UNCHANGED <<allVars, peerVars, next, lineVars>>

\* All is posted; the driver pauses and turns to the report.
Pause ==
  /\ main = "post" /\ next > NumTxs
  /\ main' = "report"
  /\ UNCHANGED <<allVars, peerVars, next, lineVars>>

-----------------------------------------------------------------------------
(* The report: a line for every replica, whose loop goes on meanwhile.  The *)
(* language orders the calls among the arguments of Printf, but not the    *)
(* loads: LastBlock may be read before the call of WaitedBlocks or after.  *)

At(step) == main = "report" /\ line # NoLine /\ line.step = step

NewLine(r, last) == [node |-> r, step |-> "waited", last |-> last,
                     height |-> 0, waited |-> -1, stash |-> {}]

MutantReadPrimary(r) ==      \* the height of the primary, not of the replica
  /\ main = "report" /\ line = NoLine /\ report[r] = NoLine
  /\ line' = NewLine(r, lastBlock[Primary].height)
  /\ UNCHANGED <<allVars, main, peerVars, next, report>>

ReadLastBlock(r) ==
  /\ main = "report" /\ line = NoLine /\ report[r] = NoLine
  /\ line' \in {NewLine(r, lastBlock[r].height), NewLine(r, -1)}
  /\ UNCHANGED <<allVars, main, peerVars, next, report>>

MutantBelowChild == lastBlock[line.node].height + 2

\* WaitedBlocks looks at LastBlock for itself.
FirstHeight == lastBlock[line.node].height

WaitedBlocks ==
  /\ At("waited")
  /\ line' = [line EXCEPT !.step = "scan", !.height = FirstHeight,
                          !.stash = unprocessed[line.node]]
  /\ UNCHANGED <<allVars, main, peerVars, next, report>>

(* What a lookup may find while the loop changes the map: a drained block  *)
(* is deleted only after LastBlock has moved to it.                        *)
Stashed == \E b \in unprocessed[line.node] : b.height = line.height

Deleting == /\ phase[line.node] = "drain"
            /\ line.height = lastBlock[line.node].height

MutantStuck == line          \* no height++
NextHeight == [line EXCEPT !.height = @ + 1]

MutantPastFound == line.height + 1   \* height++ comes before the return
Found == line.height

ScanStep ==
  /\ At("scan")
  /\ \/ /\ line.height < MaxHeight
        /\ Stashed \/ Deleting
        /\ line' = [line EXCEPT !.step = "print", !.waited = Found]
     \/ /\ line.height < MaxHeight
        /\ ~Stashed
        /\ line' = NextHeight
     \/ /\ line.height >= MaxHeight
        /\ line' = [line EXCEPT !.step = "print"]
  /\ UNCHANGED <<allVars, main, peerVars, next, report>>

(* The runtime may notice that the map is read while the loop writes it,   *)
(* and ends the process.                                                   *)
MapRace ==
  /\ At("scan")
  /\ phase[line.node] \in {"drain", "process"}
  /\ main' = "fatal"
  /\ UNCHANGED <<allVars, peerVars, next, lineVars>>

\* With LastBlock read by now.
Complete == IF line.last # -1 THEN line
            ELSE [line EXCEPT !.last = lastBlock[line.node].height]

PrintLine ==
  /\ At("print")
  /\ report' = [report EXCEPT ![line.node] = Complete]
  /\ line' = NoLine
  /\ main' = IF NoLine \in {report'[r] : r \in Replica} THEN main ELSE "done"
  /\ UNCHANGED <<allVars, peerVars, next>>

-----------------------------------------------------------------------------
Simulate ==
  \/ StartPolling \/ WaitReturns
  \/ Post \/ PostRefused \/ CallReturns \/ Pause
  \/ \E r \in Replica : ReadLastBlock(r)
  \/ WaitedBlocks \/ ScanStep \/ PrintLine

PrimaryRuns ==
  /\ \/ LoopStep(Primary) /\ UNCHANGED netVars
     \/ ReceiveTx(Primary) /\ UNCHANGED netVars
     \/ \E row \in handlers[Primary] : GossipNewBlock(row)
  /\ UNCHANGED driverVars

ReplicaRuns(r) ==
  /\ main \notin Ended
  /\ \/ LoopStep(r) /\ UNCHANGED netVars
     \/ r \in subscribed /\ \E m \in network : Arrive(r, m) \/ Lose(r, m)
     \/ ListenForNewBlocks(r)
  /\ UNCHANGED driverVars

LoadNext ==
  \/ Simulate
  \/ BuildReplicas \/ Dial \/ CallFails \/ MapRace
  \/ \E r \in Replica : Subscribe(r) \/ PeeringConnected(r) \/ ReplicaRuns(r)
  \/ PrimaryRuns
  \/ Tick /\ UNCHANGED <<netVars, driverVars>>

LoadSpec == LoadInit /\ [][LoadNext]_loadVars

LoadFairness ==
  /\ WF_loadVars(Simulate)
  /\ WF_loadVars(PrimaryRuns)

LoadFairSpec == LoadSpec /\ LoadFairness

-----------------------------------------------------------------------------
(* The primary has sequenced nothing before every replica has a peer.      *)
ConnectedFirst ==
  sequenceTxs[Primary] # << >> \/ sequence[Primary] # << >>
    => Replica \subseteq linked

(* The log is the traffic: in order, nothing twice, whatever failed.       *)
TrafficInOrder == \A i, j \in DOMAIN sequence[Primary] :
  i < j => sequence[Primary][i].nonce < sequence[Primary][j].nonce

(* What the driver makes, the primary takes, until 25 hours are over.      *)
OnlyExpiredRefused == main = "refused" => now > Expiry

Printed == {report[r] : r \in Replica} \ {NoLine}

(* A line whose lastBlock is the number of messages means that the replica *)
(* holds the whole traffic in the order in which it was posted.            *)
WholeMeansTraffic == \A l \in Printed :
  l.last = NumTxs => /\ NumTxs <= Len(sequence[l.node])
                     /\ SubSeq(sequence[l.node], 1, NumTxs) = Traffic

\* The replica keeps a block of height h, or has processed one.
Had(r, h) == \/ h <= lastBlock[r].height
             \/ \E b \in unprocessed[r] : b.height = h

(* waitingOn invents nothing: the height it names is that of a block which *)
(* the replica has received, though WaitedBlocks reads LastBlock and the   *)
(* map one after the other while the loop changes both (core.go:130-138).  *)
NothingInvented == \A l \in Printed : l.waited # -1 => Had(l.node, l.waited)

(* waitingOn hides nothing: each block below it, or at any height when it  *)
(* is -1, that was kept when the scan began has been processed by the time *)
(* the line is printed.                                                    *)
NothingHidden == \A l \in Printed : \A b \in l.stash :
  l.waited = -1 \/ b.height < l.waited => b.height <= lastBlock[l.node].height

(* Once it posts, the driver gets to its end.                              *)
PostingEnds == main = "post" ~> main \in Ended
=============================================================================
