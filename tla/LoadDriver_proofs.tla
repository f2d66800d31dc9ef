------------------------- MODULE LoadDriver_proofs -------------------------
(***************************************************************************)
(* Proofs about LoadDriver, for any number of replicas and any traffic     *)
(* shorter than the range in which a nonce is a code point, whatever is    *)
(* lost or fails: what the driver posts is sequenced in order and once,    *)
(* and what it prints is true although it reads while the loops write.     *)
(***************************************************************************)
EXTENDS LoadDriver, Replication_proofs

-----------------------------------------------------------------------------
(* The traffic.                                                            *)

LEMMA TrafficFacts ==
  /\ NumTxs \in Nat
  /\ \A k \in 1..NumTxs : Traffic[k] \in Tx /\ Traffic[k].nonce = k - 1
  /\ \A j, k \in 1..NumTxs : Traffic[j] = Traffic[k] => j = k
<1>1. NumTxs \in Nat /\ NumTxs <= 55296
  BY LoadDriverAssumption, NonceAssumption
<1>2. ASSUME NEW k \in 1..NumTxs
      PROVE  Traffic[k] \in Tx /\ Traffic[k].nonce = k - 1
  <2>1. Rune(k - 1) = k - 1
    <3>1. k - 1 \in Int /\ k - 1 < 55296
      BY <1>1
    <3> QED BY <3>1, SMTT(60) DEF Rune
  <2>2. Traffic[k] = GenerateMockSequenceTx(Operator, k - 1)
    BY <1>1 DEF Traffic
  <2> DEFINE from == SetFrom(ConstructSequenceMessage(Rune(k - 1), Expiry), Operator)
  <2>3. from = [nonce |-> Rune(k - 1), expires |-> {Expiry},
                from |-> Operator, sig |-> NoSig]
    BY DEF SetFrom, ConstructSequenceMessage
  <2>4. Traffic[k] = [from EXCEPT !.sig = Sign(Operator, TxSigHash(from))]
    BY <2>2 DEF GenerateMockSequenceTx, SignedTx
  <2> HIDE DEF from
  <2>5. Traffic[k].nonce = Rune(k - 1)
    BY <2>3, <2>4
  <2> QED BY <2>1, <2>5, TrafficAssumption
<1>3. ASSUME NEW j \in 1..NumTxs, NEW k \in 1..NumTxs, Traffic[j] = Traffic[k]
      PROVE  j = k
  <2>1. j - 1 = k - 1
    BY <1>2, <1>3
  <2> QED BY <2>1, <1>1
<1> QED BY <1>1, <1>2, <1>3

(* The primary takes every message of the traffic that has not expired.    *)
LEMMA TrafficAccepted ==
  ASSUME NEW k \in 1..NumTxs, now \in Nat, now <= Expiry
  PROVE  VerifySequenceMessage(Traffic[k], TRUE, now)
<1> DEFINE made == ConstructSequenceMessage(Rune(k - 1), Expiry)
           tx == Traffic[k]
<1>1. tx = SignedTx(SetFrom(made, Operator), Operator)
  BY TrafficFacts DEF Traffic, GenerateMockSequenceTx
<1>2. /\ tx.from = Operator /\ tx.expires = {Expiry}
      /\ tx.sig = Sign(tx.from, TxSigHash(tx))
  <2> DEFINE from == SetFrom(made, Operator)
             sig == Sign(Operator, TxSigHash(from))
  <2>1. from = [nonce |-> Rune(k - 1), expires |-> {Expiry},
                from |-> Operator, sig |-> NoSig]
    BY DEF SetFrom, ConstructSequenceMessage
  <2>2. tx = [from EXCEPT !.sig = sig]
    BY <1>1 DEF SignedTx
  <2> HIDE DEF from, sig
  <2>3. tx = [nonce |-> Rune(k - 1), expires |-> {Expiry},
              from |-> Operator, sig |-> sig]
    BY <2>1, <2>2
  <2>4. TxSigHash(tx) = from /\ TxSigHash(from) = from
    <3> HIDE DEF tx
    <3> QED BY <2>1, <2>3 DEF TxSigHash
  <2> QED BY <2>3, <2>4 DEF sig
<1>3. SignatureMatchesFrom(tx)
  BY <1>2, MessagesAssumption DEF SignatureMatchesFrom
<1>4. tx \in Authentic /\ Expires[tx] = {Expiry}
  BY <1>2, <1>3, TrafficFacts, TrafficAssumption
<1>5. Expiry \in Nat /\ Unknown \notin Nat
  BY LoadDriverAssumption, MessagesAssumption
<1> QED BY <1>4, <1>5 DEF VerifySequenceMessage

-----------------------------------------------------------------------------
(* What a step of the run is to the network: nothing, a subscription, or a *)
(* step of Replication in which nobody is started again.                   *)
NetKind ==
  \/ UNCHANGED allVars
  \/ \E r \in Replica : Subscribe(r)
  \/ CoreStep(Primary)
  \/ \E row \in handlers[Primary] : GossipNewBlock(row)
  \/ \E r \in Replica :
       \/ CoreStep(r)
       \/ \E m \in network : Arrive(r, m) \/ Lose(r, m)
       \/ ListenForNewBlocks(r)
  \/ Tick /\ UNCHANGED netVars

LEMMA LoadKinds ==
  ASSUME LoadTypeOK, [LoadNext]_loadVars
  PROVE  NetKind
<1>1. CASE UNCHANGED loadVars
  BY <1>1 DEF loadVars, NetKind, allVars
<1>2. CASE Post
  <2>1. Traffic[next] \in Tx
    BY <1>2, TrafficFacts DEF Post, LoadTypeOK
  <2> QED BY <1>2, <2>1 DEF Post, CoreStep, NetKind
<1>3. CASE \/ BuildReplicas \/ StartPolling \/ WaitReturns \/ Dial
           \/ PostRefused \/ CallReturns \/ CallFails \/ Pause
           \/ WaitedBlocks \/ ScanStep \/ MapRace \/ PrintLine
           \/ \E r \in Replica : ReadLastBlock(r) \/ PeeringConnected(r)
  BY <1>3 DEF NetKind, BuildReplicas, StartPolling, WaitReturns, Dial,
     PostRefused, CallReturns, CallFails, Pause, WaitedBlocks, ScanStep,
     MapRace, PrintLine, ReadLastBlock, PeeringConnected
<1>4. CASE PrimaryRuns
  BY <1>4 DEF PrimaryRuns, NetKind, CoreStep
<1>5. ASSUME NEW r \in Replica, Subscribe(r) \/ ReplicaRuns(r)
      PROVE  NetKind
  BY <1>5 DEF ReplicaRuns, NetKind, CoreStep
<1>6. CASE Tick /\ UNCHANGED <<netVars, driverVars>>
  BY <1>6 DEF NetKind
<1> QED BY <1>1, <1>2, <1>3, <1>4, <1>5, <1>6 DEF LoadNext, Simulate

(* A subscription adds to what the peers need not send.                    *)
LEMMA SubscribeStep ==
  ASSUME NInv, NEW r \in Replica, Subscribe(r)
  PROVE  NInv'
<1>1. /\ UNCHANGED vars /\ network' = network /\ buffer' = buffer
      /\ losses' = losses /\ unpublished' = unpublished
      /\ seen' = [seen EXCEPT ![r] = @ \cup network]
  BY DEF Subscribe
<1>2. NetTypeOK'
  BY <1>1 DEF NInv, NetTypeOK
<1>3. IInv'
  BY <1>1, StutterIInv DEF NInv
<1>4. /\ blocks' = blocks /\ boot' = boot /\ unprocessed' = unprocessed
      /\ cur' = cur /\ phase' = phase /\ handlers' = handlers
      /\ sequenceTxs' = sequenceTxs
  BY <1>1 DEF vars
<1>5. Roles' /\ PrimaryGrows /\ \A q \in Replica : Known(q)' = Known(q)
  BY <1>1, <1>4 DEF NInv, Roles, PrimaryGrows, Known
<1>6. Genuine' /\ Published' /\ Mirror'
  BY <1>1, <1>4, <1>5, KeepGenuine, KeepPublished, KeepMirror
<1> QED BY <1>2, <1>3, <1>5, <1>6 DEF NInv

LEMMA KindNInv == NInv /\ NetKind => NInv'
BY PrimaryStep, GossipStep, ReplicaStep, ArriveStep, ListenStep, IdleStep,
   SubscribeStep DEF NetKind

-----------------------------------------------------------------------------
(* The counters of the replicas.                                           *)

\* Nobody is started again, and a replica keeps only what the operator has
\* signed.
Counters ==
  /\ boot = [n \in Node |-> 0]
  /\ \A r \in Replica : \A b \in unprocessed[r] : SignedByOperator(b)

\* The counters of r move forward, and what it has kept is not lost.
Forward(r) ==
  /\ lastBlock[r].height <= lastBlock'[r].height
  /\ \A b \in unprocessed[r] :
       \/ b.height <= lastBlock'[r].height
       \/ \E c \in unprocessed'[r] : c.height = b.height

\* What becomes of the counters of a process that handles a block.
Handled(n) ==
  /\ now' = now /\ boot' = boot
  /\ \A m \in Node : m # n => /\ lastBlock'[m] = lastBlock[m]
                              /\ unprocessed'[m] = unprocessed[m]
  /\ Forward(n)
  /\ \A b \in unprocessed'[n] : b \in unprocessed[n] \/ SignedByOperator(b)

LEMMA HandledCounters ==
  ASSUME IInv, NEW n \in Node, HandlesBlock(n)
  PROVE  Handled(n)
<1>0. /\ lastBlock \in [Node -> Block]
      /\ unprocessed \in [Node -> SUBSET Block]
      /\ lastBlock[n].height \in Nat
      /\ \A b \in unprocessed[n] : b.height \in Nat
  BY DEF IInv, TypeOK, Block
<1>1. now' = now /\ boot' = boot
  BY DEF HandlesBlock, DrainOne, DrainEnds, DoProcessBlock
<1>2. CASE DrainOne(n)
  <2>1. PICK c \in Satisfied(n) : IngestBlock(n, c)
    BY <1>2 DEF DrainOne
  <2>2. /\ c.height = lastBlock[n].height + 1
        /\ lastBlock' = [lastBlock EXCEPT ![n] = c]
        /\ unprocessed' = [unprocessed EXCEPT ![n] =
             {d \in @ : d.height # lastBlock'[n].height}]
        /\ c \in Block
    BY <1>0, <1>2, <2>1 DEF DrainOne, Satisfied, IsChild, IngestBlock,
       DeleteProcessed
  <2>3. lastBlock'[n] = c
    BY <1>0, <2>2
  <2>4. unprocessed'[n] = {d \in unprocessed[n] : d.height # c.height}
    BY <1>0, <2>2, <2>3
  <2>5. Forward(n)
    BY <1>0, <2>2, <2>3, <2>4 DEF Forward
  <2> QED BY <1>0, <1>1, <2>2, <2>3, <2>4, <2>5 DEF Handled
<1>3. CASE DrainEnds(n)
  <2>1. lastBlock' = lastBlock /\ unprocessed' = unprocessed
    BY <1>3 DEF DrainEnds, RefuseBlock, IngestFails
  <2> QED BY <1>0, <1>1, <2>1 DEF Handled, Forward
<1>4. CASE DoProcessBlock(n) /\ IngestBlock(n, cur[n]) /\ UNCHANGED unprocessed
  <2>1. /\ cur[n] \in Block /\ cur[n].height = lastBlock[n].height + 1
        /\ lastBlock' = [lastBlock EXCEPT ![n] = cur[n]]
    BY <1>4 DEF DoProcessBlock, IngestBlock, IsChild, IInv, InHand
  <2> QED BY <1>0, <1>1, <1>4, <2>1 DEF Handled, Forward
<1>5. CASE DoProcessBlock(n) /\ StashBlock(n, cur[n])
  <2>1. /\ lastBlock' = lastBlock /\ SignedByOperator(cur[n])
        /\ unprocessed' = [unprocessed EXCEPT ![n] =
             {c \in @ : c.height # cur[n].height} \cup {cur[n]}]
    BY <1>5 DEF StashBlock
  <2>2. unprocessed'[n] =
          {c \in unprocessed[n] : c.height # cur[n].height} \cup {cur[n]}
    BY <1>0, <2>1
  <2>3. Forward(n)
    BY <1>0, <2>1, <2>2 DEF Forward
  <2> QED BY <1>0, <1>1, <2>1, <2>2, <2>3 DEF Handled
<1>6. CASE /\ DoProcessBlock(n)
           /\ \/ IgnoreBlock(n, cur[n])
              \/ RefuseBlock(n, cur[n])
              \/ IngestFails(n, cur[n])
  <2>1. lastBlock' = lastBlock /\ unprocessed' = unprocessed
    BY <1>6 DEF IgnoreBlock, RefuseBlock, IngestFails
  <2> QED BY <1>0, <1>1, <2>1 DEF Handled, Forward
<1> QED BY <1>2, <1>3, <1>4, <1>5, <1>6 DEF HandlesBlock, DoProcessBlock

\* A replica only ever handles blocks, the primary only ever sequences.
LEMMA ReplicaHandles ==
  ASSUME NInv, NEW r \in Replica, CoreStep(r)
  PROVE  r \in Node /\ HandlesBlock(r)
<1>1. r \in Node /\ KeyOf[r] = NoSig
  BY ReplicationAssumption DEF Replica
<1>2. phase[r] # "sequence" /\ sequenceTxs[r] = << >>
  BY DEF NInv, Roles
<1> QED BY <1>1, <1>2 DEF CoreStep, LoopStep, HandlesBlock, DoSequenceWork,
                          ReceiveTx, Sequence

LEMMA PrimarySequences ==
  ASSUME NInv, CoreStep(Primary)
  PROVE  /\ Primary \in Node /\ UNCHANGED netVars
         /\ \/ DoSequenceWork(Primary) \/ ReceiveTx(Primary)
            \/ \E tx \in Tx : Sequence(Primary, tx)
BY ReplicationAssumption DEF NInv, Roles, CoreStep, LoopStep, DrainOne,
   DrainEnds, DoProcessBlock

\* The counters of the replicas stay.
CountersStay ==
  /\ boot' = boot /\ unprocessed' = unprocessed
  /\ \A r \in Replica : lastBlock'[r] = lastBlock[r]

LEMMA KindCounters ==
  ASSUME NInv, Counters, NetKind
  PROVE  Counters' /\ now' >= now /\ \A r \in Replica : Forward(r)
<1>0. /\ Primary \in Node /\ Replica = Node \ {Primary}
      /\ lastBlock \in [Node -> Block]
      /\ now \in Nat
      /\ \A r \in Replica : lastBlock[r].height \in Nat
  BY ReplicationAssumption DEF NInv, IInv, TypeOK, Block, Replica
<1>1. ASSUME CountersStay, now' \in {now, now + 1}
      PROVE  Counters' /\ now' >= now /\ \A r \in Replica : Forward(r)
  BY <1>0, <1>1 DEF CountersStay, Counters, Forward
<1>2. CASE UNCHANGED vars
  BY <1>1, <1>2 DEF vars, CountersStay
<1>3. CASE CoreStep(Primary)
  <2>1. \/ DoSequenceWork(Primary) \/ ReceiveTx(Primary)
        \/ \E tx \in Tx : Sequence(Primary, tx)
    BY <1>3, PrimarySequences
  <2>2. CASE DoSequenceWork(Primary)
    <3>1. CountersStay /\ now' = now
      BY <1>0, <2>2 DEF DoSequenceWork, ChainBlock, CountersStay
    <3> QED BY <1>1, <3>1
  <2>3. CASE ReceiveTx(Primary) \/ \E tx \in Tx : Sequence(Primary, tx)
    <3>1. CountersStay /\ now' = now
      BY <2>3 DEF ReceiveTx, Sequence, CountersStay, worldVars
    <3> QED BY <1>1, <3>1
  <2> QED BY <2>1, <2>2, <2>3
<1>4. ASSUME NEW row \in handlers[Primary], GossipNewBlock(row)
      PROVE  CountersStay /\ now' = now
  BY <1>4 DEF GossipNewBlock, RunListener, CountersStay, worldVars
<1>5. ASSUME NEW r \in Replica, CoreStep(r)
      PROVE  Counters' /\ now' >= now /\ \A q \in Replica : Forward(q)
  <2>1. r \in Node /\ Handled(r)
    BY <1>5, ReplicaHandles, HandledCounters DEF NInv
  <2>2. ASSUME NEW q \in Replica
        PROVE  /\ \A b \in unprocessed'[q] : SignedByOperator(b)
               /\ Forward(q)
    <3>1. CASE q # r
      BY <1>0, <2>1, <3>1 DEF Handled, Counters, Forward
    <3>2. CASE q = r
      BY <1>0, <2>1, <3>2 DEF Handled, Counters
    <3> QED BY <3>1, <3>2
  <2> QED BY <1>0, <2>1, <2>2 DEF Handled, Counters
<1>6. ASSUME NEW r \in Replica, ListenForNewBlocks(r)
      PROVE  CountersStay /\ now' = now
  BY <1>6 DEF ListenForNewBlocks, ReceiveBlock, CountersStay, worldVars
<1>7. CASE Tick /\ UNCHANGED netVars
  <2>1. now' = now + 1 /\ CountersStay
    BY <1>7 DEF Tick, CountersStay
  <2> QED BY <1>1, <2>1
<1>8. \/ UNCHANGED vars \/ CoreStep(Primary)
      \/ \E row \in handlers[Primary] : GossipNewBlock(row)
      \/ \E r \in Replica : CoreStep(r) \/ ListenForNewBlocks(r)
      \/ Tick /\ UNCHANGED netVars
  BY DEF NetKind, allVars, Subscribe, Arrive, Lose
<1> QED BY <1>1, <1>2, <1>3, <1>4, <1>5, <1>6, <1>7, <1>8

-----------------------------------------------------------------------------
(* The lines.                                                              *)

Past(r, b) == b.height <= lastBlock[r].height

\* What is known of the line that is being printed.  Each block that was
\* kept when the scan began is processed or still kept; below the height
\* that the scan has reached it is processed.
Reading(l) ==
  /\ l.last <= lastBlock[l.node].height
  /\ l.step # "print" => l.waited = -1
  /\ l.waited # -1 => l.waited = l.height /\ Had(l.node, l.waited)
  /\ \A b \in l.stash :
       /\ b.height <= NumTxs
       /\ Had(l.node, b.height)
       /\ l.step # "waited"
       /\ l.step = "scan" \/ l.waited # -1 =>
            (b.height < l.height => Past(l.node, b))
       /\ l.step = "print" /\ l.waited = -1 => Past(l.node, b)

\* What is known of a line that has been printed.
Sound(l) ==
  /\ l.last \in Nat /\ l.last <= lastBlock[l.node].height
  /\ l.waited # -1 => Had(l.node, l.waited)
  /\ \A b \in l.stash :
       l.waited = -1 \/ b.height < l.waited => Past(l.node, b)

Lines ==
  /\ line # NoLine => Reading(line)
  /\ \A l \in Printed : Sound(l)

\* A replica keeps only blocks of the traffic.
StashBound == \A r \in Replica : \A b \in unprocessed[r] : b.height <= NumTxs

LEMMA LineFields ==
  ASSUME NEW l \in Line
  PROVE  /\ l.node \in Replica /\ l.step \in {"waited", "scan", "print"}
         /\ l.last \in Nat \cup {-1} /\ l.height \in Nat
         /\ l.waited \in Nat \cup {-1}
         /\ \A b \in l.stash : b \in Block /\ b.height \in Nat
BY DEF Line, Block

LEMMA Heights ==
  ASSUME NInv, NEW r \in Replica
  PROVE  /\ r \in Node /\ lastBlock[r].height \in Nat
         /\ lastBlock[r] \in Block /\ unprocessed[r] \subseteq Block
         /\ \A b \in unprocessed[r] : b.height \in Nat
BY DEF NInv, IInv, TypeOK, Block, Replica

\* While the loops go on, what is known of a line stays true.
LEMMA StillReading ==
  ASSUME NInv, NInv', NEW l \in Line, Forward(l.node)
  PROVE  /\ Reading(l) => Reading(l)'
         /\ Sound(l) => Sound(l)'
<1>1. /\ l.node \in Replica /\ l.last \in Nat \cup {-1}
      /\ l.waited \in Nat \cup {-1}
      /\ \A b \in l.stash : b.height \in Nat
  BY LineFields
<1>2. /\ lastBlock[l.node].height \in Nat /\ lastBlock'[l.node].height \in Nat
      /\ \A b \in unprocessed[l.node] : b.height \in Nat
  <2>1. lastBlock \in [Node -> Block] /\ lastBlock' \in [Node -> Block]
    BY DEF NInv, IInv, TypeOK
  <2> QED BY <1>1, <2>1, Heights DEF Block
<1>3. lastBlock[l.node].height <= lastBlock'[l.node].height
  BY DEF Forward
<1>4. \A b \in l.stash : Past(l.node, b) => Past(l.node, b)'
  BY <1>1, <1>2, <1>3 DEF Past
<1>5. ASSUME NEW h \in Nat, Had(l.node, h)
      PROVE  Had(l.node, h)'
  <2>1. CASE h <= lastBlock[l.node].height
    BY <1>2, <1>3, <2>1 DEF Had
  <2>2. CASE \E c \in unprocessed[l.node] : c.height = h
    <3>1. PICK c \in unprocessed[l.node] : c.height = h
      BY <2>2
    <3> QED BY <3>1 DEF Forward, Had
  <2> QED BY <1>5, <2>1, <2>2 DEF Had
<1>6. l.last <= lastBlock[l.node].height => l.last <= lastBlock'[l.node].height
  BY <1>1, <1>2, <1>3
<1>7. Reading(l) => Reading(l)'
  BY <1>1, <1>4, <1>5, <1>6 DEF Reading
<1>8. Sound(l) => Sound(l)'
  BY <1>1, <1>4, <1>5, <1>6 DEF Sound
<1> QED BY <1>7, <1>8

LEMMA LinesStay ==
  ASSUME NInv, NInv', LoadTypeOK, Lines, \A r \in Replica : Forward(r),
         UNCHANGED lineVars
  PROVE  Lines'
<1>1. line' = line /\ Printed' = Printed
  BY DEF lineVars, Printed
<1>2. /\ line # NoLine => line \in Line
      /\ \A l \in Printed : l \in Line
  BY DEF LoadTypeOK, Printed
<1>3. ASSUME line # NoLine PROVE Reading(line)'
  <2>1. line \in Line /\ Reading(line)
    BY <1>2, <1>3 DEF Lines
  <2>2. \A l : l = line => (l \in Line /\ Reading(l) => Reading(l)')
    BY LineFields, StillReading
  <2>3. PICK l : l = line
    OBVIOUS
  <2>4. Reading(l)'
    BY <2>1, <2>2, <2>3
  <2> QED BY <1>1, <2>3, <2>4 DEF Reading, Past, Had
<1>4. \A l \in Printed : Sound(l)'
  BY <1>2, LineFields, StillReading DEF Lines
<1> QED BY <1>1, <1>3, <1>4 DEF Lines

\* The type of the line that is being printed and of those that are.
LineTypes == /\ line \in Line \cup {NoLine}
             /\ report \in [Replica -> Line \cup {NoLine}]

LEMMA ReadLastBlockLines ==
  ASSUME NInv, LineTypes, Lines, NEW r \in Replica, ReadLastBlock(r)
  PROVE  LineTypes' /\ Lines'
<1>1. /\ line' \in {NewLine(r, lastBlock[r].height), NewLine(r, -1)}
      /\ report' = report /\ lastBlock' = lastBlock /\ unprocessed' = unprocessed
  BY DEF ReadLastBlock, allVars, vars
<1>2. line' \in Line
  BY <1>1, Heights DEF Line, NewLine
<1>3. Reading(line)'
  BY <1>1, Heights DEF Reading, NewLine
<1>4. \A l \in Printed' : Sound(l)'
  BY <1>1 DEF Printed, Lines, Sound, Past, Had
<1> QED BY <1>1, <1>2, <1>3, <1>4 DEF LineTypes, Lines

\* A step of WaitedBlocks: what it may do to the line.
LEMMA ScanLines ==
  ASSUME NInv, LineTypes, Lines, NEW l \in Line, line' = l,
         UNCHANGED allVars, report' = report, Reading(l)
  PROVE  LineTypes' /\ Lines'
<1>1. lastBlock' = lastBlock /\ unprocessed' = unprocessed
  BY DEF allVars, vars
<1>2. Reading(line)'
  BY <1>1 DEF Reading, Past, Had
<1>3. \A k \in Printed' : Sound(k)'
  BY <1>1 DEF Printed, Lines, Sound, Past, Had
<1> QED BY <1>2, <1>3 DEF LineTypes, Lines

LEMMA WaitedBlocksLines ==
  ASSUME NInv, LineTypes, Lines, StashBound, WaitedBlocks
  PROVE  LineTypes' /\ Lines'
<1> DEFINE r == line.node
<1>1. /\ line \in Line /\ line.step = "waited" /\ Reading(line)
      /\ line' = [line EXCEPT !.step = "scan", !.height = lastBlock[r].height,
                              !.stash = unprocessed[r]]
      /\ UNCHANGED allVars /\ report' = report
  BY DEF WaitedBlocks, At, LineTypes, Lines, FirstHeight
<1>2. r \in Replica /\ lastBlock[r].height \in Nat /\ unprocessed[r] \subseteq Block
  BY <1>1, LineFields, Heights
<1> DEFINE l == [line EXCEPT !.step = "scan", !.height = lastBlock[r].height,
                             !.stash = unprocessed[r]]
<1>3. l \in Line
  BY <1>1, <1>2 DEF Line
<1>4. /\ l.node = line.node /\ l.step = "scan" /\ l.last = line.last
      /\ l.height = lastBlock[r].height /\ l.waited = line.waited
      /\ l.stash = unprocessed[r]
  BY <1>1 DEF Line
<1> HIDE DEF l
<1>5. Reading(l)
  <2>1. l.last <= lastBlock[r].height /\ l.waited = -1
    BY <1>1, <1>4 DEF Reading
  <2>2. \A b \in l.stash :
          /\ b.height <= NumTxs /\ b.height \in Nat
          /\ b \in unprocessed[r]
    BY <1>2, <1>4, Heights DEF StashBound
  <2> QED BY <1>2, <1>4, <2>1, <2>2 DEF Reading, Past, Had
<1> QED BY <1>1, <1>3, <1>5, ScanLines DEF l

\* At the height of the scan nothing is stashed: what was is processed.
LEMMA ScanStepLines ==
  ASSUME NInv, LineTypes, Lines, ScanStep
  PROVE  LineTypes' /\ Lines'
<1> DEFINE r == line.node
<1>1. /\ line \in Line /\ line.step = "scan" /\ Reading(line)
      /\ UNCHANGED allVars /\ report' = report
  BY DEF ScanStep, At, LineTypes, Lines
<1>2. /\ r \in Replica /\ line.height \in Nat
      /\ lastBlock[r].height \in Nat /\ line.last <= lastBlock[r].height
      /\ line.waited = -1
      /\ \A b \in line.stash :
           /\ b.height \in Nat /\ b.height <= NumTxs
           /\ Had(r, b.height)
           /\ b.height < line.height => Past(r, b)
  BY <1>1, LineFields, Heights DEF Reading
<1>3. NumTxs \in Nat /\ MaxHeight \in Nat /\ NumTxs < MaxHeight
  BY LoadDriverAssumption
<1>4. CASE /\ Stashed \/ Deleting
           /\ line' = [line EXCEPT !.step = "print", !.waited = line.height]
  <2> DEFINE l == [line EXCEPT !.step = "print", !.waited = line.height]
  <2>1. l \in Line
    BY <1>1, <1>2 DEF Line
  <2>2. /\ l.node = r /\ l.step = "print" /\ l.last = line.last
        /\ l.height = line.height /\ l.waited = line.height
        /\ l.stash = line.stash
    BY <1>1 DEF Line
  <2> HIDE DEF l
  <2>4. Had(r, line.height)
    BY <1>2, <1>4 DEF Stashed, Deleting, Had
  <2>3. Reading(l)
    BY <1>2, <2>2, <2>4 DEF Reading
  <2> QED BY <1>1, <1>4, <2>1, <2>3, ScanLines DEF l
<1>5. CASE ~Stashed /\ line' = NextHeight
  <2> DEFINE l == [line EXCEPT !.height = @ + 1]
  <2>1. l \in Line
    BY <1>1, <1>2 DEF Line
  <2>2. /\ l.node = r /\ l.step = "scan" /\ l.last = line.last
        /\ l.height = line.height + 1 /\ l.waited = -1
        /\ l.stash = line.stash
    BY <1>1, <1>2 DEF Line
  <2> HIDE DEF l
  <2>3. \A b \in line.stash : b.height = line.height => Past(r, b)
    BY <1>2, <1>5 DEF Stashed, Had, Past
  <2>4. \A b \in line.stash : b.height < line.height + 1 => Past(r, b)
    BY <1>2, <2>3
  <2>5. Reading(l)
    BY <1>2, <2>2, <2>4 DEF Reading
  <2> QED BY <1>1, <1>5, <2>1, <2>5, ScanLines DEF l, NextHeight
<1>6. CASE line.height >= MaxHeight /\ line' = [line EXCEPT !.step = "print"]
  <2> DEFINE l == [line EXCEPT !.step = "print"]
  <2>1. l \in Line
    BY <1>1 DEF Line
  <2>2. /\ l.node = r /\ l.step = "print" /\ l.last = line.last
        /\ l.height = line.height /\ l.waited = -1
        /\ l.stash = line.stash
    BY <1>1, <1>2 DEF Line
  <2> HIDE DEF l
  <2>3. \A b \in line.stash : Past(r, b)
    BY <1>2, <1>3, <1>6
  <2>4. Reading(l)
    BY <1>2, <2>2, <2>3 DEF Reading
  <2> QED BY <1>1, <1>6, <2>1, <2>4, ScanLines DEF l
<1> QED BY <1>4, <1>5, <1>6 DEF ScanStep, Found

LEMMA PrintLineLines ==
  ASSUME NInv, LineTypes, Lines, PrintLine
  PROVE  LineTypes' /\ Lines'
<1> DEFINE r == line.node
           l == Complete
<1>1. /\ line \in Line /\ line.step = "print" /\ Reading(line)
      /\ line' = NoLine
      /\ report' = [report EXCEPT ![r] = l]
      /\ lastBlock' = lastBlock /\ unprocessed' = unprocessed
  BY DEF PrintLine, At, LineTypes, Lines, allVars, vars
<1>2. /\ r \in Replica /\ line.last \in Nat \cup {-1}
      /\ lastBlock[r].height \in Nat
      /\ line.last <= lastBlock[r].height
  BY <1>1, LineFields, Heights DEF Reading
<1>3. /\ l \in Line /\ l.node = r /\ l.last \in Nat
      /\ l.last <= lastBlock[r].height
      /\ l.waited = line.waited /\ l.stash = line.stash
  BY <1>1, <1>2 DEF Line, Complete
<1> HIDE DEF l
<1>4. Sound(l)
  BY <1>1, <1>3 DEF Sound, Reading
<1>5. LineTypes'
  BY <1>1, <1>2, <1>3 DEF LineTypes
<1>6. ASSUME NEW k \in Printed'
      PROVE  Sound(k)'
  <2>1. k = l \/ k \in Printed
    BY <1>1, <1>6 DEF Printed, LineTypes
  <2>2. Sound(k)
    BY <1>4, <2>1 DEF Lines
  <2> QED BY <1>1, <2>2 DEF Sound, Past, Had
<1> QED BY <1>1, <1>5, <1>6 DEF Lines

LEMMA StepLines ==
  ASSUME NInv, NInv', LoadTypeOK, StashBound, Lines,
         \A r \in Replica : Forward(r), [LoadNext]_loadVars
  PROVE  LineTypes' /\ Lines'
<1>1. LineTypes
  BY DEF LoadTypeOK, LineTypes
<1>2. CASE UNCHANGED lineVars
  <2>1. LineTypes'
    BY <1>1, <1>2 DEF LineTypes, lineVars
  <2> QED BY <1>2, <2>1, LinesStay
<1>3. \/ UNCHANGED lineVars
      \/ \E r \in Replica : ReadLastBlock(r)
      \/ WaitedBlocks \/ ScanStep \/ PrintLine
  BY DEF LoadNext, loadVars, lineVars, Simulate, BuildReplicas, StartPolling,
     WaitReturns, Dial, Post, PostRefused, CallReturns, CallFails, Pause,
     MapRace, PeeringConnected, Subscribe, PrimaryRuns, ReplicaRuns, driverVars
<1> QED BY <1>1, <1>2, <1>3, ReadLastBlockLines, WaitedBlocksLines,
           ScanStepLines, PrintLineLines

-----------------------------------------------------------------------------
(* The barrier: a replica that nobody waits for has a peer.                *)

Peering ==
  /\ wg = Cardinality(polling)
  /\ main = "build" => linked = {}
  /\ main \in {"wait", "dial", "post", "called", "report", "done"}
       => Replica \ polling \subseteq linked
  /\ main \in {"dial", "post", "called", "report", "done"} => polling = {}

LEMMA FinitePolling ==
  ASSUME LoadTypeOK
  PROVE  /\ IsFiniteSet(Replica) /\ Cardinality(Replica) \in Nat
         /\ IsFiniteSet(polling) /\ Cardinality(polling) \in Nat
         /\ (Cardinality(polling) = 0) <=> (polling = {})
<1>1. IsFiniteSet(Replica)
  BY LoadDriverAssumption, FS_Subset DEF Replica
<1>2. IsFiniteSet(polling)
  BY <1>1, FS_Subset DEF LoadTypeOK
<1> QED BY <1>1, <1>2, FS_CardinalityType, FS_EmptySet

\* The types of the driver's variables that the barrier is made of.
PeerTypes == /\ main \in Main /\ wg \in Nat /\ polling \in SUBSET Replica
             /\ linked \in SUBSET Replica /\ subscribed \in SUBSET linked

LEMMA StepPeering ==
  ASSUME LoadTypeOK, Peering, [LoadNext]_loadVars
  PROVE  PeerTypes' /\ Peering'
<1>0. PeerTypes
  BY DEF LoadTypeOK, PeerTypes
<1> USE DEF Peering, PeerTypes, Main, Ended, peerVars
<1>1. CASE BuildReplicas
  BY <1>0, <1>1 DEF BuildReplicas
<1>2. CASE StartPolling
  BY <1>0, <1>2, FinitePolling DEF StartPolling
<1>3. CASE WaitReturns
  BY <1>0, <1>3, FinitePolling DEF WaitReturns
<1>4. ASSUME NEW r \in Replica, PeeringConnected(r)
      PROVE  PeerTypes' /\ Peering'
  <2>1. /\ IsFiniteSet(polling) /\ Cardinality(polling) \in Nat
        /\ Cardinality(polling \ {r}) = Cardinality(polling) - 1
        /\ Cardinality(polling \ {r}) \in Nat
    <3>1. IsFiniteSet(polling) /\ r \in polling
      BY <1>4, FinitePolling DEF PeeringConnected
    <3> QED BY <3>1, FS_RemoveElement, FS_CardinalityType, FS_Subset
  <2> QED BY <1>0, <1>4, <2>1 DEF PeeringConnected
<1>5. ASSUME NEW r \in Replica, Subscribe(r)
      PROVE  PeerTypes' /\ Peering'
  BY <1>0, <1>5 DEF Subscribe
<1>6. CASE \/ Dial \/ Post \/ PostRefused \/ CallReturns \/ CallFails \/ Pause
           \/ MapRace \/ PrintLine
  BY <1>0, <1>6 DEF Dial, Post, PostRefused, CallReturns, CallFails, Calling,
     Pause, MapRace, PrintLine, At
<1>7. CASE UNCHANGED <<main, peerVars>>
  BY <1>0, <1>7
<1> QED
  BY <1>1, <1>2, <1>3, <1>4, <1>5, <1>6, <1>7
     DEF LoadNext, loadVars, Simulate, ReadLastBlock, WaitedBlocks, ScanStep,
         PrimaryRuns, ReplicaRuns, driverVars

-----------------------------------------------------------------------------
(* Posting.                                                                *)

\* tx has been submitted, or the call that submits it has failed.
Sent(tx) == \E k \in 1..NumTxs :
  /\ tx = Traffic[k]
  /\ k < next \/ (k = next /\ main \in {"called", "fatal"})

\* Something has been submitted to the primary.
Submitted ==
  \/ sequenceTxs[Primary] # << >>
  \/ work[Primary] # NoTx
  \/ sequence[Primary] # << >>

\* The message of the current call is parked, behind all earlier ones.
Parked ==
  /\ main \in {"called", "fatal"}
  /\ next <= NumTxs
  /\ sequenceTxs[Primary] = <<Traffic[next]>>
  /\ SequenceReply(Traffic[next]) \notin replies[Primary]
  /\ \A i \in DOMAIN sequence[Primary] : sequence[Primary][i].nonce < next - 1
  /\ work[Primary] # NoTx => work[Primary].nonce < next - 1

\* One message is on its way at most, and it is later than the log.
Posting ==
  /\ Submitted => Replica \subseteq linked
  /\ \A i \in DOMAIN sequence[Primary] : Sent(sequence[Primary][i])
  /\ work[Primary] # NoTx =>
       /\ Sent(work[Primary])
       /\ \A i \in DOMAIN sequence[Primary] :
            sequence[Primary][i].nonce < work[Primary].nonce
  /\ sequenceTxs[Primary] # << >> => Parked
  /\ \A answer \in replies[Primary] : Sent(answer[1])
  /\ main = "called" => next <= NumTxs

\* The nonces of the log grow at least as fast as its rows.
Spread == \A i, j \in DOMAIN sequence[Primary] :
  i <= j => sequence[Primary][j].nonce - sequence[Primary][i].nonce >= j - i

LEMMA SentIs ==
  ASSUME NEW tx, Sent(tx), next \in Nat
  PROVE  /\ tx \in Tx /\ tx.nonce \in 0..(NumTxs - 1)
         /\ tx.nonce < next
         /\ main \notin {"called", "fatal"} => tx.nonce < next - 1
         /\ \E k \in 1..NumTxs : tx = Traffic[k] /\ tx.nonce = k - 1
BY TrafficFacts DEF Sent

\* What the posting depends on at the primary stays.
PrimaryIdle ==
  /\ sequence'[Primary] = sequence[Primary]
  /\ sequenceTxs'[Primary] = sequenceTxs[Primary]
  /\ work'[Primary] = work[Primary]
  /\ replies'[Primary] = replies[Primary]

LEMMA PostingIdle ==
  ASSUME Posting, Spread, PrimaryIdle,
         Submitted => Replica \subseteq linked',
         \A tx : Sent(tx) => Sent(tx)',
         Parked => main' \in {"called", "fatal"} /\ next' = next,
         main' = "called" => next' <= NumTxs
  PROVE  Posting' /\ Spread'
<1>1. Submitted' = Submitted
  BY DEF PrimaryIdle, Submitted
<1>2. Parked => Parked'
  BY DEF PrimaryIdle, Parked
<1> QED BY <1>1, <1>2 DEF PrimaryIdle, Posting, Spread

\* A step of the driver other than the submission itself.
LEMMA DriverPosting ==
  ASSUME NInv, LoadTypeOK, Peering, Posting, Spread, UNCHANGED allVars,
         \/ UNCHANGED <<main, linked, next>>
         \/ BuildReplicas \/ StartPolling \/ WaitReturns \/ Dial
         \/ PostRefused \/ CallReturns \/ CallFails \/ Pause \/ MapRace
         \/ PrintLine
  PROVE  Posting' /\ Spread'
<1>0. next \in 1..(NumTxs + 1) /\ NumTxs \in Nat /\ next \in Nat
  BY TrafficFacts DEF LoadTypeOK
<1>1. PrimaryIdle
  BY DEF PrimaryIdle, allVars, vars
<1>2. ASSUME \/ UNCHANGED <<main, linked, next>>
             \/ StartPolling \/ WaitReturns \/ Dial \/ PostRefused
             \/ CallFails \/ Pause \/ MapRace \/ PrintLine
      PROVE  /\ linked' = linked /\ next' = next
             /\ main \in {"called", "fatal"} => main' \in {"called", "fatal"}
             /\ main' = "called" => main = "called"
  BY <1>2 DEF StartPolling, WaitReturns, Dial, PostRefused, CallFails, Calling,
     Pause, MapRace, PrintLine, At, peerVars
<1>3. CASE \/ UNCHANGED <<main, linked, next>>
           \/ StartPolling \/ WaitReturns \/ Dial \/ PostRefused
           \/ CallFails \/ Pause \/ MapRace \/ PrintLine
  <2>1. \A tx : Sent(tx) => Sent(tx)'
    BY <1>2, <1>3 DEF Sent
  <2> QED BY <1>1, <1>2, <1>3, <2>1, PostingIdle DEF Posting, Parked
<1>4. CASE BuildReplicas
  <2>1. /\ main = "build" /\ main' \in {"start", "fatal"} /\ next' = next
        /\ linked = {}
    BY <1>4 DEF BuildReplicas, Peering
  <2>2. \A tx : Sent(tx) => Sent(tx)'
    BY <2>1 DEF Sent
  <2>3. Submitted => Replica \subseteq linked'
    BY <2>1 DEF Posting
  <2> QED BY <1>1, <2>1, <2>2, <2>3, PostingIdle DEF Parked
<1>5. CASE CallReturns
  <2>1. /\ main = "called" /\ next' = next + 1 /\ main' = "post"
        /\ linked' = linked
        /\ SequenceReply(Traffic[next]) \in replies[Primary]
    BY <1>5 DEF CallReturns, peerVars
  <2>2. ~Parked
    BY <2>1 DEF Parked
  <2>3. \A tx : Sent(tx) => Sent(tx)'
    BY <1>0, <2>1 DEF Sent
  <2> QED BY <1>1, <2>1, <2>2, <2>3, PostingIdle DEF Posting
<1> QED BY <1>3, <1>4, <1>5

\* The call parks the next message; all earlier ones have been taken.
LEMMA PostPosting ==
  ASSUME NInv, LoadTypeOK, Peering, Posting, Spread, Post
  PROVE  Posting' /\ Spread'
<1>0. /\ next \in 1..NumTxs /\ next \in Nat /\ NumTxs \in Nat
      /\ main = "post" /\ main' = "called" /\ next' = next /\ linked' = linked
      /\ Primary \in Node /\ sequenceTxs \in [Node -> Seq(Tx)]
      /\ Traffic[next] \in Tx
  BY TrafficFacts, ReplicationAssumption
     DEF Post, LoadTypeOK, NInv, IInv, TypeOK, peerVars
<1>1. /\ sequence' = sequence /\ work' = work /\ replies' = replies
      /\ sequenceTxs' =
           [sequenceTxs EXCEPT ![Primary] = Append(@, Traffic[next])]
  BY DEF Post, Sequence, dbVars, loopVars
<1>2. sequenceTxs[Primary] = << >>
  BY <1>0 DEF Posting, Parked
<1>3. sequenceTxs'[Primary] = <<Traffic[next]>>
  BY <1>0, <1>1, <1>2
<1>4. \A tx : Sent(tx) => Sent(tx)'
  BY <1>0 DEF Sent
<1>5. Replica \subseteq linked'
  BY <1>0 DEF Peering
<1>6. \A tx : Sent(tx) => tx.nonce < next - 1
  BY <1>0, SentIs
<1>7. SequenceReply(Traffic[next]) \notin replies[Primary]
  <2> SUFFICES ASSUME SequenceReply(Traffic[next]) \in replies[Primary]
               PROVE  FALSE
    OBVIOUS
  <2>1. Sent(Traffic[next])
    BY DEF Posting, SequenceReply
  <2> QED BY <1>0, <1>6, <2>1, TrafficFacts
<1>8. Parked'
  BY <1>0, <1>1, <1>3, <1>6, <1>7 DEF Posting, Parked
<1>9. Posting'
  BY <1>0, <1>1, <1>4, <1>5, <1>8 DEF Posting
<1> QED BY <1>1, <1>9 DEF Spread

\* The loop takes the parked message.
LEMMA TakenPosting ==
  ASSUME NInv, LoadTypeOK, Posting, Spread, ReceiveTx(Primary),
         UNCHANGED <<main, linked, next>>
  PROVE  Posting' /\ Spread'
<1>0. /\ next \in Nat /\ Primary \in Node /\ sequenceTxs \in [Node -> Seq(Tx)]
      /\ work \in [Node -> Tx \cup {NoTx}]
      /\ replies \in [Node -> SUBSET (Tx \X Nat)]
  BY ReplicationAssumption DEF LoadTypeOK, NInv, IInv, TypeOK
<1>1. /\ sequenceTxs[Primary] # << >> /\ Parked /\ sequence' = sequence
      /\ sequenceTxs' = [sequenceTxs EXCEPT ![Primary] = Tail(@)]
      /\ work' = [work EXCEPT ![Primary] = Head(sequenceTxs[Primary])]
      /\ replies' = [replies EXCEPT ![Primary] =
           @ \cup {SequenceReply(Head(sequenceTxs[Primary]))}]
  BY DEF ReceiveTx, Posting, dbVars
<1>2. /\ sequenceTxs'[Primary] = << >> /\ work'[Primary] = Traffic[next]
      /\ replies'[Primary] =
           replies[Primary] \cup {SequenceReply(Traffic[next])}
  BY <1>0, <1>1 DEF Parked
<1>3. /\ next \in 1..NumTxs /\ Sent(Traffic[next])
      /\ Traffic[next].nonce = next - 1
  BY <1>0, <1>1, TrafficFacts DEF Parked, LoadTypeOK, Sent
<1>4. \A tx : Sent(tx)' = Sent(tx)
  BY DEF Sent
<1>5. \A answer \in replies'[Primary] : Sent(answer[1])
  BY <1>2, <1>3 DEF Posting, SequenceReply
<1>6. Submitted
  BY <1>1 DEF Submitted
<1>7. Posting'
  BY <1>1, <1>2, <1>3, <1>4, <1>5, <1>6 DEF Posting, Parked
<1> QED BY <1>1, <1>7 DEF Spread

\* The loop stores what it has taken, or drops it.
LEMMA StoredPosting ==
  ASSUME NInv, LoadTypeOK, Posting, Spread, DoSequenceWork(Primary),
         UNCHANGED <<main, linked, next>>
  PROVE  Posting' /\ Spread'
<1> DEFINE s == sequence[Primary]
           tx == work[Primary]
<1>0. /\ next \in Nat /\ Primary \in Node /\ sequence \in [Node -> Seq(Tx)]
      /\ work \in [Node -> Tx \cup {NoTx}] /\ IInv /\ s \in Seq(Tx)
      /\ tx \in Tx /\ tx # NoTx
  BY ReplicationAssumption, MessagesAssumption
     DEF LoadTypeOK, NInv, IInv, TypeOK, InHand, DoSequenceWork
<1>1. /\ sequenceTxs' = sequenceTxs /\ work'[Primary] = NoTx
      /\ replies' = replies
  BY <1>0 DEF DoSequenceWork
<1>2. \A t : Sent(t)' = Sent(t)
  BY DEF Sent
<1>3. /\ Sent(tx) /\ Submitted
      /\ \A i \in DOMAIN s : s[i].nonce < tx.nonce /\ Sent(s[i])
  BY <1>0 DEF Posting, Submitted
<1>4. CASE sequence' = sequence
  BY <1>1, <1>2, <1>3, <1>4 DEF Posting, Parked, Spread
<1>5. CASE sequence' = [sequence EXCEPT ![Primary] = Append(@, tx)]
  <2> DEFINE t == sequence'[Primary]
             n == Len(s)
  <2>1. /\ n \in Nat /\ t = Append(s, tx) /\ DOMAIN t = 1..(n + 1)
        /\ DOMAIN s = 1..n /\ t[n + 1] = tx
        /\ \A i \in 1..n : t[i] = s[i]
    BY <1>0, <1>5
  <2> HIDE DEF t, n, s, tx
  <2>2. \A i \in 1..n : s[i].nonce < tx.nonce /\ Sent(s[i])
    BY <1>3, <2>1
  <2>3. tx.nonce \in Int /\ \A i \in 1..n : s[i].nonce \in Int
    <3>1. ASSUME NEW u, Sent(u) PROVE u.nonce \in Int
      BY <1>0, <3>1, SentIs
    <3> QED BY <1>3, <2>2, <3>1
  <2>4. \A i, j \in 1..n : i <= j => s[j].nonce - s[i].nonce >= j - i
    BY <2>1 DEF Spread, s
  <2>5. Spread'
    <3> SUFFICES ASSUME NEW i \in 1..(n + 1), NEW j \in 1..(n + 1), i <= j
                 PROVE  t[j].nonce - t[i].nonce >= j - i
      BY <2>1 DEF Spread, t
    <3>1. CASE j \in 1..n
      BY <2>1, <2>4, <3>1
    <3>2. CASE i = n + 1 /\ j = n + 1
      BY <2>1, <2>3, <3>2
    <3>3. CASE i \in 1..n /\ j = n + 1
      <4>1. n \in 1..n /\ i <= n
        BY <2>1, <3>3
      <4>2. s[n].nonce - s[i].nonce >= n - i /\ s[n].nonce < tx.nonce
        BY <2>2, <2>4, <3>3, <4>1
      <4>3. tx.nonce - s[i].nonce >= (n + 1) - i
        BY <2>1, <2>3, <3>3, <4>1, <4>2
      <4> QED BY <2>1, <3>3, <4>3
    <3> QED BY <2>1, <3>1, <3>2, <3>3
  <2>6. \A i \in DOMAIN t : /\ Sent(t[i])
                            /\ t[i] = tx \/ (i \in DOMAIN s /\ t[i] = s[i])
    <3>1. ASSUME NEW i \in DOMAIN t
          PROVE  t[i] = tx \/ (i \in DOMAIN s /\ t[i] = s[i])
      BY <2>1
    <3> QED BY <1>3, <2>1, <2>2, <3>1
  <2>7. Parked => Parked'
    BY <1>0, <1>1, <2>6 DEF Parked, t, s, tx
  <2>8. Posting'
    BY <1>1, <1>2, <1>3, <2>6, <2>7 DEF Posting, t
  <2> QED BY <2>5, <2>8
<1>6. ChainedBlock(lastBlock[Primary], tx, KeyOf[Primary]).body = tx
  BY DEF ChainedBlock, ConstructBlock, Signed
<1>7. \/ sequence' = sequence
      \/ sequence' = [sequence EXCEPT ![Primary] = Append(@, tx)]
  <2> DEFINE b == ChainedBlock(lastBlock[Primary], tx, KeyOf[Primary])
  <2> HIDE DEF b
  <2>1. ChainBlock(Primary, b) =>
          sequence' = [sequence EXCEPT ![Primary] = Append(@, b.body)]
    BY DEF ChainBlock, Commit
  <2>2. CommitFails(Primary) => sequence' = sequence
    BY DEF CommitFails
  <2> QED BY <1>6, <2>1, <2>2 DEF DoSequenceWork, b
<1> QED BY <1>4, <1>5, <1>7

LEMMA StepPosting ==
  ASSUME NInv, LoadTypeOK, Peering, Posting, Spread,
         OnlyExpiredRefused, now' \in Nat, now' >= now, [LoadNext]_loadVars
  PROVE  Posting' /\ Spread' /\ OnlyExpiredRefused' /\ next' \in 1..(NumTxs + 1)
<1>0. /\ next \in 1..(NumTxs + 1) /\ NumTxs \in Nat /\ now \in Nat
      /\ Expiry \in Nat /\ Primary \in Node /\ Primary \notin Replica
  <2>1. Expiry \in Nat
    BY LoadDriverAssumption
  <2> QED BY <2>1, TrafficFacts, ReplicationAssumption
             DEF LoadTypeOK, NInv, IInv, TypeOK, Replica
<1> DEFINE Idle == PrimaryIdle /\ UNCHANGED <<main, linked, next>>
<1>1. ASSUME Idle PROVE Posting' /\ Spread'
  <2>1. \A tx : Sent(tx) => Sent(tx)'
    BY <1>1 DEF Sent
  <2> QED BY <1>1, <2>1, PostingIdle DEF Posting, Parked
<1>2. CASE PostRefused
  <2>1. next \in 1..NumTxs /\ UNCHANGED <<allVars, next>> /\ now' = now
    BY <1>0, <1>2 DEF PostRefused, allVars, vars
  <2>2. ~(now <= Expiry)
    BY <1>0, <1>2, <2>1, TrafficAccepted DEF PostRefused
  <2>3. OnlyExpiredRefused'
    BY <1>0, <2>1, <2>2 DEF OnlyExpiredRefused
  <2>4. Posting' /\ Spread'
    BY <1>2, <2>1, DriverPosting
  <2> QED BY <1>0, <2>1, <2>3, <2>4
<1>3. CASE PrimaryRuns
  <2>1. UNCHANGED <<main, linked, next>>
    BY <1>3 DEF PrimaryRuns, driverVars, peerVars
  <2>2. ASSUME NEW row \in handlers[Primary], GossipNewBlock(row)
        PROVE  Idle
    BY <2>1, <2>2 DEF GossipNewBlock, RunListener, PrimaryIdle, dbVars, loopVars
  <2>3. ASSUME (LoopStep(Primary) \/ ReceiveTx(Primary)) /\ UNCHANGED netVars
        PROVE  Posting' /\ Spread'
    <3>1. DoSequenceWork(Primary) \/ ReceiveTx(Primary)
      BY <2>3 DEF LoopStep, NInv, Roles, DrainOne, DrainEnds, DoProcessBlock
    <3>2. ASSUME ReceiveTx(Primary) PROVE Posting' /\ Spread'
      BY <2>1, <3>2, TakenPosting
    <3>3. ASSUME DoSequenceWork(Primary) PROVE Posting' /\ Spread'
      BY <2>1, <3>3, StoredPosting
    <3> QED BY <3>1, <3>2, <3>3
  <2>4. Posting' /\ Spread'
    BY <1>1, <1>3, <2>2, <2>3 DEF PrimaryRuns
  <2> QED BY <1>0, <2>1, <2>4 DEF OnlyExpiredRefused
<1>4. ASSUME NEW r \in Replica, ReplicaRuns(r)
      PROVE  Idle
  <2>1. UNCHANGED <<main, linked, next>>
    BY <1>4 DEF ReplicaRuns, driverVars, peerVars
  <2>2. CASE LoopStep(r) /\ UNCHANGED netVars
    <3>1. IInv /\ r \in Node /\ HandlesBlock(r) /\ r # Primary
      BY <1>0, <2>2, ReplicaHandles DEF NInv, CoreStep
    <3>2. sequenceTxs' = sequenceTxs /\ work' = work /\ replies' = replies
      BY <3>1 DEF HandlesBlock, DrainOne, DrainEnds, DoProcessBlock, loopVars
    <3>3. sequence'[Primary] = sequence[Primary]
      <4>1. LogUnchanged \/ \E b : Extends(r, b)
        BY <3>1, HandledLog
      <4> QED BY <1>0, <3>1, <4>1 DEF LogUnchanged, Extends, IInv, TypeOK
    <3> QED BY <2>1, <3>2, <3>3 DEF PrimaryIdle
  <2>3. CASE \E m \in network : Arrive(r, m) \/ Lose(r, m)
    BY <2>1, <2>3 DEF Arrive, Lose, PrimaryIdle, vars
  <2>4. CASE ListenForNewBlocks(r)
    BY <2>1, <2>4 DEF ListenForNewBlocks, ReceiveBlock, PrimaryIdle, dbVars
  <2> QED BY <1>4, <2>2, <2>3, <2>4 DEF ReplicaRuns
<1>5. ASSUME NEW r \in Replica, Subscribe(r)
      PROVE  Idle
  BY <1>5 DEF Subscribe, PrimaryIdle, vars
<1>6. CASE Tick /\ UNCHANGED <<netVars, driverVars>>
  <2>1. Idle
    BY <1>6 DEF Tick, PrimaryIdle, dbVars, loopVars, driverVars, peerVars
  <2> QED BY <1>0, <1>1, <2>1 DEF OnlyExpiredRefused
<1>7. CASE Post
  <2>1. main' # "refused" /\ next' = next
    BY <1>7 DEF Post
  <2> QED BY <1>0, <1>7, <2>1, PostPosting DEF OnlyExpiredRefused
<1>8. CASE \/ UNCHANGED loadVars
           \/ StartPolling \/ WaitReturns \/ CallReturns \/ Pause
           \/ WaitedBlocks \/ ScanStep \/ PrintLine
           \/ BuildReplicas \/ Dial \/ CallFails \/ MapRace
           \/ \E r \in Replica : ReadLastBlock(r) \/ PeeringConnected(r)
  <2>1. UNCHANGED allVars
    BY <1>8 DEF loadVars, allVars, StartPolling, WaitReturns, CallReturns, Pause,
       WaitedBlocks, ScanStep, PrintLine, BuildReplicas, Dial, CallFails,
       MapRace, ReadLastBlock, PeeringConnected
  <2>2. \/ UNCHANGED <<main, linked, next>>
        \/ BuildReplicas \/ StartPolling \/ WaitReturns \/ Dial
        \/ CallReturns \/ CallFails \/ Pause \/ MapRace \/ PrintLine
    BY <1>8 DEF loadVars, WaitedBlocks, ScanStep, ReadLastBlock,
       PeeringConnected, peerVars
  <2>3. Posting' /\ Spread'
    BY <2>1, <2>2, DriverPosting
  <2>4. main' \in {main, "start", "wait", "dial", "post", "called", "report",
                   "done", "fatal"}
    BY <1>8 DEF loadVars, StartPolling, WaitReturns, CallReturns, Pause,
       WaitedBlocks, ScanStep, PrintLine, BuildReplicas, Dial, CallFails,
       MapRace, ReadLastBlock, PeeringConnected
  <2>5. next' \in 1..(NumTxs + 1)
    <3>1. CASE CallReturns
      <4>1. next <= NumTxs /\ next' = next + 1
        BY <3>1 DEF CallReturns, Posting
      <4> QED BY <1>0, <4>1
    <3>2. CASE ~CallReturns
      BY <1>0, <1>8, <3>2 DEF loadVars, StartPolling, WaitReturns, Pause,
         WaitedBlocks, ScanStep, PrintLine, BuildReplicas, Dial, CallFails,
         MapRace, ReadLastBlock, PeeringConnected
    <3> QED BY <3>1, <3>2
  <2>6. now' = now
    BY <2>1 DEF allVars, vars
  <2> QED BY <2>3, <2>4, <2>5, <2>6 DEF OnlyExpiredRefused
<1>9. ASSUME Idle
      PROVE  Posting' /\ Spread' /\ OnlyExpiredRefused' /\ next' \in 1..(NumTxs + 1)
  BY <1>0, <1>1, <1>9 DEF OnlyExpiredRefused
<1> HIDE DEF Idle
<1>10. \/ PrimaryRuns \/ Idle \/ Post \/ PostRefused
       \/ Tick /\ UNCHANGED <<netVars, driverVars>>
       \/ UNCHANGED loadVars
       \/ StartPolling \/ WaitReturns \/ CallReturns \/ Pause
       \/ WaitedBlocks \/ ScanStep \/ PrintLine
       \/ BuildReplicas \/ Dial \/ CallFails \/ MapRace
       \/ \E r \in Replica : ReadLastBlock(r) \/ PeeringConnected(r)
  BY <1>4, <1>5 DEF LoadNext, Simulate
<1> QED BY <1>2, <1>3, <1>6, <1>7, <1>8, <1>9, <1>10

-----------------------------------------------------------------------------
(* The log is at most the traffic, row by row.                             *)

LEMMA LogBound ==
  ASSUME NInv, LoadTypeOK, Posting, Spread
  PROVE  /\ sequence[Primary] \in Seq(Tx) /\ Len(sequence[Primary]) <= NumTxs
         /\ Len(sequence[Primary]) = NumTxs =>
              \A i \in 1..NumTxs : sequence[Primary][i] = Traffic[i]
<1> DEFINE s == sequence[Primary]
           n == Len(s)
<1>0. /\ s \in Seq(Tx) /\ n \in Nat /\ DOMAIN s = 1..n
      /\ NumTxs \in Nat /\ next \in Nat
  BY ReplicationAssumption, TrafficFacts
     DEF NInv, IInv, TypeOK, LoadTypeOK
<1>1. ASSUME NEW i \in 1..n
      PROVE  /\ s[i].nonce \in 0..(NumTxs - 1)
             /\ \E k \in 1..NumTxs : s[i] = Traffic[k] /\ s[i].nonce = k - 1
  <2>1. Sent(s[i])
    BY <1>0 DEF Posting
  <2> QED BY <1>0, <2>1, SentIs
<1>2. \A i, j \in 1..n : i <= j => s[j].nonce - s[i].nonce >= j - i
  BY <1>0 DEF Spread
<1> HIDE DEF s, n
<1>3. n <= NumTxs
  <2>1. CASE n = 0
    BY <1>0, <2>1
  <2>2. CASE n # 0
    <3>1. 1 \in 1..n /\ n \in 1..n /\ 1 <= n
      BY <1>0, <2>2
    <3>2. s[n].nonce - s[1].nonce >= n - 1
      BY <1>2, <3>1
    <3>3. s[n].nonce \in 0..(NumTxs - 1) /\ s[1].nonce \in 0..(NumTxs - 1)
      BY <1>1, <3>1
    <3> QED BY <1>0, <3>2, <3>3
  <2> QED BY <2>1, <2>2
<1>4. ASSUME n = NumTxs, NEW i \in 1..NumTxs
      PROVE  s[i] = Traffic[i]
  <2>1. 1 \in 1..n /\ n \in 1..n /\ i \in 1..n /\ 1 <= i /\ i <= n
    BY <1>0, <1>4
  <2>2. /\ s[i].nonce - s[1].nonce >= i - 1
        /\ s[n].nonce - s[i].nonce >= n - i
    BY <1>2, <2>1
  <2>3. /\ s[1].nonce \in 0..(NumTxs - 1) /\ s[i].nonce \in 0..(NumTxs - 1)
        /\ s[n].nonce \in 0..(NumTxs - 1)
    BY <1>1, <2>1
  <2>4. s[i].nonce = i - 1
    BY <1>0, <1>4, <2>1, <2>2, <2>3
  <2>5. PICK k \in 1..NumTxs : s[i] = Traffic[k] /\ s[i].nonce = k - 1
    BY <1>1, <2>1
  <2>6. k = i
    BY <1>0, <2>4, <2>5
  <2> QED BY <2>5, <2>6
<1> QED BY <1>0, <1>3, <1>4 DEF s, n

LEMMA StashIsTraffic ==
  ASSUME NInv, LoadTypeOK, Counters, Posting, Spread
  PROVE  StashBound
<1> SUFFICES ASSUME NEW r \in Replica, NEW b \in unprocessed[r]
             PROVE  b.height <= NumTxs
  BY DEF StashBound
<1>1. OfPrimary(b)
  BY DEF NInv, Genuine, Known, Counters
<1>2. /\ b.height \in 1..Len(blocks[Primary])
      /\ Len(blocks[Primary]) = Len(sequence[Primary])
      /\ Len(sequence[Primary]) \in Nat
  BY <1>1, LogBound, ReplicationAssumption DEF OfPrimary, NInv, IInv, TablesInStep
<1>3. Len(sequence[Primary]) <= NumTxs /\ NumTxs \in Nat
  BY LogBound, TrafficFacts
<1> QED BY <1>2, <1>3

-----------------------------------------------------------------------------
(* The inductive invariant: the network as Replication knows it, and what  *)
(* the driver has done so far to the primary and read from the replicas.   *)
LoadInv ==
  /\ NInv /\ LoadTypeOK
  /\ Counters /\ Peering /\ Posting /\ Spread /\ OnlyExpiredRefused /\ Lines

THEOREM InitLoadInv == LoadInit => LoadInv
<1> SUFFICES ASSUME LoadInit PROVE LoadInv
  OBVIOUS
<1>0. /\ NetInit /\ Init /\ main = "build" /\ linked = {} /\ subscribed = {}
      /\ wg = 0 /\ polling = {} /\ next = 1 /\ line = NoLine
      /\ report = [r \in Replica |-> NoLine]
  BY DEF LoadInit, NetInit
<1>1. NInv
  BY <1>0, NetInitNInv
<1>2. NumTxs \in Nat /\ Primary \in Node /\ MaxTime \in Nat
  BY TrafficFacts, ReplicationAssumption, SequencerCoreAssumption
<1>3. LoadTypeOK
  BY <1>0, <1>1, <1>2 DEF NInv, LoadTypeOK, Main
<1>4. Counters
  BY <1>0, <1>2 DEF Init, Counters, Replica, Genesis
<1>5. Peering
  BY <1>0, FS_EmptySet DEF Peering
<1>6. Posting /\ Spread
  <2>1. /\ sequence[Primary] = << >> /\ sequenceTxs[Primary] = << >>
        /\ work[Primary] = NoTx /\ replies[Primary] = {}
    BY <1>0, <1>2 DEF Init
  <2>2. ~Submitted /\ main # "called" /\ DOMAIN sequence[Primary] = {}
    BY <1>0, <2>1 DEF Submitted
  <2> QED BY <2>1, <2>2 DEF Posting, Spread
<1>7. OnlyExpiredRefused /\ Lines
  BY <1>0 DEF OnlyExpiredRefused, Lines, Printed
<1> QED BY <1>1, <1>3, <1>4, <1>5, <1>6, <1>7 DEF LoadInv

THEOREM StepLoadInv == LoadInv /\ [LoadNext]_loadVars => LoadInv'
<1> SUFFICES ASSUME LoadInv, [LoadNext]_loadVars PROVE LoadInv'
  OBVIOUS
<1> USE DEF LoadInv
<1>1. NInv' /\ Counters' /\ now' >= now /\ \A r \in Replica : Forward(r)
  BY LoadKinds, KindNInv, KindCounters
<1>2. PeerTypes' /\ Peering'
  BY StepPeering
<1>3. Posting' /\ Spread' /\ OnlyExpiredRefused' /\ next' \in 1..(NumTxs + 1)
  BY <1>1, StepPosting DEF NInv, IInv, TypeOK
<1>4. LineTypes' /\ Lines'
  BY <1>1, StepLines, StashIsTraffic
<1>5. LoadTypeOK'
  BY <1>1, <1>2, <1>3, <1>4 DEF LoadTypeOK, NInv, PeerTypes, LineTypes
<1> QED BY <1>1, <1>2, <1>3, <1>4, <1>5

THEOREM LoadInvariant == LoadSpec => []LoadInv
BY InitLoadInv, StepLoadInv, PTL DEF LoadSpec

-----------------------------------------------------------------------------
(* The types of main() of benchmarking/run.go and of the network it drives;*)
(* the counter of the WaitGroup never falls below zero.                    *)
THEOREM LoadTypes == LoadSpec => []LoadTypeOK
<1>1. LoadInv => LoadTypeOK
  BY DEF LoadInv
<1> QED BY <1>1, LoadInvariant, PTL

(* wg.Wait() holds the traffic back until each of any number of replicas   *)
(* has a peer.                                                             *)
THEOREM ConnectedFirstAlways == LoadSpec => []ConnectedFirst
<1>1. LoadInv => ConnectedFirst
  BY DEF LoadInv, Posting, Submitted, ConnectedFirst
<1> QED BY <1>1, LoadInvariant, PTL

(* The primary's log is the traffic of the loop of simulate(), in order    *)
(* and nothing twice, whichever insertions and calls fail.                 *)
THEOREM TrafficInOrderAlways == LoadSpec => []TrafficInOrder
<1>1. ASSUME LoadInv PROVE TrafficInOrder
  <2> SUFFICES ASSUME NEW i \in DOMAIN sequence[Primary],
                      NEW j \in DOMAIN sequence[Primary], i < j
               PROVE  sequence[Primary][i].nonce < sequence[Primary][j].nonce
    BY DEF TrafficInOrder
  <2>1. next \in Nat /\ Sent(sequence[Primary][i]) /\ Sent(sequence[Primary][j])
    BY <1>1, TrafficFacts DEF LoadInv, LoadTypeOK, Posting
  <2>2. /\ sequence[Primary][i].nonce \in Int
        /\ sequence[Primary][j].nonce \in Int
    BY <2>1, SentIs, TrafficFacts
  <2>3. i \in Nat /\ j \in Nat
    BY <1>1, LogBound DEF LoadInv
  <2>4. sequence[Primary][j].nonce - sequence[Primary][i].nonce >= j - i
    BY <1>1, <2>3 DEF LoadInv, Spread
  <2> QED BY <2>2, <2>3, <2>4
<1> QED BY <1>1, LoadInvariant, PTL

(* What GenerateMockSequenceTx builds and signs, Sequence takes, unless it *)
(* has expired.                                                            *)
THEOREM OnlyExpiredRefusedAlways == LoadSpec => []OnlyExpiredRefused
<1>1. LoadInv => OnlyExpiredRefused
  BY DEF LoadInv
<1> QED BY <1>1, LoadInvariant, PTL

(* For any replicas and traffic: a height that is printed as waitingOn is  *)
(* that of a block the replica has received, kept or processed by now.     *)
THEOREM NothingInventedAlways == LoadSpec => []NothingInvented
<1>1. LoadInv => NothingInvented
  BY DEF LoadInv, Lines, Sound, NothingInvented
<1> QED BY <1>1, LoadInvariant, PTL

(* What WaitedBlocks has passed over, of the blocks that it could have     *)
(* found when it began, is no longer waiting when the line is printed.     *)
THEOREM NothingHiddenAlways == LoadSpec => []NothingHidden
<1>1. LoadInv => NothingHidden
  BY DEF LoadInv, Lines, Sound, Past, NothingHidden
<1> QED BY <1>1, LoadInvariant, PTL

(* A line that counts all messages belongs to a replica that holds the     *)
(* whole traffic in the order in which it was posted.                      *)
THEOREM WholeMeansTrafficAlways == LoadSpec => []WholeMeansTraffic
<1>1. ASSUME LoadInv, NEW l \in Printed, l.last = NumTxs
      PROVE  /\ NumTxs <= Len(sequence[l.node])
             /\ SubSeq(sequence[l.node], 1, NumTxs) = Traffic
  <2> DEFINE r == l.node
             s == sequence[r]
             p == sequence[Primary]
  <2>0. NInv /\ LoadTypeOK /\ Counters /\ Posting /\ Spread /\ IInv
    BY <1>1 DEF LoadInv, NInv
  <2>1. /\ r \in Replica /\ l.last <= lastBlock[r].height
        /\ NumTxs \in Nat \ {0}
    <3>1. l \in Line /\ Sound(l)
      BY <1>1 DEF LoadInv, LoadTypeOK, Lines, Printed
    <3>2. NumTxs \in Nat \ {0}
      BY LoadDriverAssumption
    <3> QED BY <3>1, <3>2, LineFields DEF Sound
  <2>2. r \in Node /\ Primary \in Node /\ boot[r] = 0
    BY <2>0, <2>1, ReplicationAssumption DEF Replica, Counters
  <2>3. /\ s \in Seq(Tx) /\ p \in Seq(Tx)
        /\ Len(s) \in Nat /\ Len(s) = Len(blocks[r])
        /\ Len(p) \in Nat /\ Len(p) = Len(blocks[Primary])
        /\ lastBlock[r].height = Len(blocks[r])
    <3>1. s \in Seq(Tx) /\ p \in Seq(Tx)
      BY <2>0, <2>2 DEF IInv, TypeOK
    <3>2. Len(s) = Len(blocks[r]) /\ Len(p) = Len(blocks[Primary])
      BY <2>0, <2>2 DEF IInv, TablesInStep
    <3>3. lastBlock[r].height = Len(blocks[r])
      BY <2>0, <2>2, LastHeight
    <3> QED BY <3>1, <3>2, <3>3, LenProperties
  <2>4. NumTxs <= Len(s)
    BY <1>1, <2>1, <2>3
  <2>5. \A i \in 1..NumTxs :
          /\ i \in 1..Len(blocks[r]) /\ i <= Len(p)
          /\ blocks[r][i] = blocks[Primary][i]
    BY <2>0, <2>1, <2>2, <2>3, <2>4, SMTT(30) DEF NInv, Mirror, WrittenRows
  <2>6. Len(p) = NumTxs
    <3>1. NumTxs <= Len(p)
      BY <2>1, <2>5
    <3>2. Len(p) <= NumTxs
      BY <2>0, LogBound
    <3> QED BY <2>1, <2>3, <3>1, <3>2
  <2>7. \A i \in 1..NumTxs : s[i] = Traffic[i]
    <3> SUFFICES ASSUME NEW i \in 1..NumTxs PROVE s[i] = Traffic[i]
      OBVIOUS
    <3>1. s[i] = blocks[r][i].body
      BY <2>0, <2>2, <2>5 DEF IInv, TablesInStep
    <3>2. p[i] = blocks[Primary][i].body
      BY <2>0, <2>2, <2>3, <2>6 DEF IInv, TablesInStep
    <3>3. p[i] = Traffic[i]
      BY <2>0, <2>6, LogBound
    <3> QED BY <2>5, <3>1, <3>2, <3>3
  <2>8. Traffic \in [1..NumTxs -> Tx] /\ DOMAIN Traffic = 1..NumTxs
    BY TrafficFacts DEF Traffic
  <2> HIDE DEF s
  <2>9. SubSeq(s, 1, NumTxs) = [i \in 1..NumTxs |-> s[i]]
    BY <2>1, <2>3, <2>4, SubSeqProperties
  <2>10. [i \in 1..NumTxs |-> s[i]] = [i \in 1..NumTxs |-> Traffic[i]]
    BY <2>7
  <2>11. [i \in 1..NumTxs |-> Traffic[i]] = Traffic
    BY <2>8
  <2> QED BY <2>4, <2>9, <2>10, <2>11 DEF s
<1>2. LoadInv => WholeMeansTraffic
  BY <1>1 DEF WholeMeansTraffic
<1> QED BY <1>2, LoadInvariant, PTL
=============================================================================
