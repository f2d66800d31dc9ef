------------------------- MODULE Replication_proofs -------------------------
(***************************************************************************)
(* Proofs about Replication, for any number of replicas, any loss, any     *)
(* reordering, any strangers on the topic, any failures of the databases   *)
(* and any restarts of replicas.  While the primary is never started again *)
(* a replica mirrors it and the network implements SequenceLog; whatever   *)
(* is started again, what has left the primary stays in its table.         *)
(***************************************************************************)
EXTENDS Replication, SequencerCore_proofs

(* The inductive invariant: Mirror needs that every signed block that is   *)
(* on its way anywhere is the primary's block of that height.              *)
NInv ==
  /\ IInv /\ NetTypeOK
  /\ Roles /\ Published /\ Genuine /\ Mirror

THEOREM NetInitNInv == NetInit => NInv
<1> SUFFICES ASSUME NetInit PROVE NInv
  OBVIOUS
<1>1. IInv /\ Init
  BY InitIInv DEF NetInit
<1>2. NetTypeOK
  BY ReplicationAssumption DEF NetInit, NetTypeOK, Message
<1>3. Roles
  BY <1>1, ReplicationAssumption DEF Init, Roles, Replica
<1>4. Published
  BY ReplicationAssumption DEF NetInit, Published, SignedByOperator
<1>5. Genuine
  BY <1>1 DEF NetInit, Init, Genuine, Known, Replica
<1>6. Mirror
  BY <1>1 DEF Init, Mirror, Replica, WrittenRows
<1> QED BY <1>1, <1>2, <1>3, <1>4, <1>5, <1>6 DEF NInv

-----------------------------------------------------------------------------
(* How the parts of the invariant survive a step.                          *)

\* The primary's log stays, or one block is appended to it.
PrimaryGrows ==
  \/ blocks'[Primary] = blocks[Primary]
  \/ \E b : blocks'[Primary] = Append(blocks[Primary], b)

(* A block of the primary's log remains one when the log grows.            *)
LEMMA StillOfPrimary ==
  ASSUME NInv, PrimaryGrows, NEW b, OfPrimary(b)
  PROVE  OfPrimary(b)'
<1>1. blocks[Primary] \in Seq(Block)
  BY ReplicationAssumption DEF NInv, IInv, TypeOK
<1>2. CASE blocks'[Primary] = blocks[Primary]
  BY <1>2 DEF OfPrimary
<1>3. CASE \E c : blocks'[Primary] = Append(blocks[Primary], c)
  <2>1. PICK c : blocks'[Primary] = Append(blocks[Primary], c)
    BY <1>3
  <2>2. /\ Len(blocks'[Primary]) = Len(blocks[Primary]) + 1
        /\ \A i \in 1..Len(blocks[Primary]) :
             blocks'[Primary][i] = blocks[Primary][i]
        /\ Len(blocks[Primary]) \in Nat
    BY <1>1, <2>1
  <2> QED BY <2>2 DEF OfPrimary
<1> QED BY <1>2, <1>3 DEF PrimaryGrows

(* A replica that learns of no new block learns of no false one.           *)
LEMMA KeepGenuine ==
  ASSUME NInv, PrimaryGrows, \A r \in Replica : Known(r)' \subseteq Known(r)
  PROVE  Genuine'
BY StillOfPrimary DEF NInv, Genuine

LEMMA KeepPublished ==
  ASSUME NInv, PrimaryGrows, network' \subseteq network
  PROVE  Published'
BY StillOfPrimary DEF NInv, Published

(* The copies are unharmed by a step that leaves them alone.               *)
LEMMA KeepMirror ==
  ASSUME NInv, PrimaryGrows,
         \A r \in Replica : blocks'[r] = blocks[r] /\ boot'[r] = boot[r]
  PROVE  Mirror'
<1> SUFFICES ASSUME NEW r \in Replica, NEW i \in WrittenRows(r)'
             PROVE  /\ i - boot'[r] <= Len(blocks'[Primary])
                    /\ blocks'[r][i] = blocks'[Primary][i - boot'[r]]
  BY DEF Mirror
<1>1. /\ blocks[Primary] \in Seq(Block) /\ blocks[r] \in Seq(Block)
      /\ boot[r] \in Nat
  BY ReplicationAssumption DEF NInv, IInv, TypeOK, Replica
<1>2. i \in WrittenRows(r) /\ i - boot[r] \in Nat \ {0}
  BY <1>1 DEF WrittenRows
<1>3. /\ i - boot[r] <= Len(blocks[Primary])
      /\ blocks[r][i] = blocks[Primary][i - boot[r]]
  BY <1>2 DEF NInv, Mirror
<1>4. CASE blocks'[Primary] = blocks[Primary]
  BY <1>3, <1>4
<1>5. CASE \E c : blocks'[Primary] = Append(blocks[Primary], c)
  <2>1. PICK c : blocks'[Primary] = Append(blocks[Primary], c)
    BY <1>5
  <2>2. /\ Len(blocks'[Primary]) = Len(blocks[Primary]) + 1
        /\ \A j \in 1..Len(blocks[Primary]) :
             blocks'[Primary][j] = blocks[Primary][j]
        /\ Len(blocks[Primary]) \in Nat
    BY <1>1, <2>1
  <2>3. i - boot[r] \in 1..Len(blocks[Primary])
    BY <1>2, <1>3, <2>2
  <2> QED BY <1>3, <2>2, <2>3
<1> QED BY <1>4, <1>5 DEF PrimaryGrows

(* A replica that stores a block of the primary copies the next one.       *)
LEMMA ExtendMirror ==
  ASSUME NInv, NEW r \in Replica, NEW b, Extends(r, b), OfPrimary(b)
  PROVE  Mirror'
<1>1. /\ r \in Node /\ Primary \in Node /\ r # Primary
      /\ blocks \in [Node -> Seq(Block)] /\ boot \in [Node -> Nat]
  BY ReplicationAssumption DEF NInv, IInv, TypeOK, Replica
<1>2. /\ blocks'[r] = Append(blocks[r], b) /\ boot' = boot
      /\ \A q \in Node : q # r => blocks'[q] = blocks[q]
  BY <1>1 DEF Extends
<1>3. /\ Len(blocks[r]) \in Nat /\ boot[r] \in Nat
      /\ b.height = Len(blocks[r]) - boot[r] + 1
  BY <1>1, LastHeight DEF NInv, Extends
<1> SUFFICES ASSUME NEW q \in Replica, NEW i \in WrittenRows(q)'
             PROVE  /\ i - boot[q] <= Len(blocks[Primary])
                    /\ blocks'[q][i] = blocks[Primary][i - boot[q]]
  BY <1>1, <1>2 DEF Mirror
<1>4. CASE q # r
  BY <1>2, <1>4 DEF NInv, Mirror, WrittenRows, Replica
<1>5. CASE q = r
  <2>1. i \in (boot[r] + 1)..(Len(blocks[r]) + 1)
    BY <1>1, <1>2, <1>5 DEF WrittenRows
  <2>2. CASE i = Len(blocks[r]) + 1
    <3>1. blocks'[r][i] = b /\ i - boot[r] = b.height
      BY <1>1, <1>2, <1>3, <2>2
    <3>2. Len(blocks[Primary]) \in Nat
      BY <1>1
    <3> QED BY <1>5, <3>1, <3>2 DEF OfPrimary
  <2>3. CASE i # Len(blocks[r]) + 1
    <3>1. i \in WrittenRows(r) /\ i \in 1..Len(blocks[r])
      BY <1>3, <2>1, <2>3 DEF WrittenRows
    <3>2. blocks'[r][i] = blocks[r][i]
      BY <1>1, <1>2, <3>1
    <3> QED BY <1>5, <3>1, <3>2 DEF NInv, Mirror
  <2> QED BY <2>2, <2>3
<1> QED BY <1>4, <1>5

-----------------------------------------------------------------------------
(* The steps of the primary.                                               *)

LEMMA PrimaryStep ==
  ASSUME NInv, CoreStep(Primary)
  PROVE  NInv'
<1>0. /\ Primary \in Node /\ IInv /\ Roles /\ netVars' = netVars
      /\ TypeOK
  BY ReplicationAssumption DEF NInv, IInv, CoreStep
<1>1. \/ DoSequenceWork(Primary) \/ ReceiveTx(Primary)
      \/ \E tx \in Tx : Sequence(Primary, tx)
  BY <1>0 DEF CoreStep, LoopStep, Roles, DrainOne, DrainEnds, DoProcessBlock
<1>2. IInv'
  BY <1>0, <1>1, DoSequenceWorkIInv, ReceiveTxIInv, SequenceIInv
<1>3. /\ boot' = boot /\ unprocessed' = unprocessed /\ cur' = cur
      /\ \A r \in Replica : /\ blocks'[r] = blocks[r]
                            /\ phase'[r] = phase[r]
                            /\ sequenceTxs'[r] = sequenceTxs[r]
      /\ phase'[Primary] \in {"select", "sequence"}
      /\ PrimaryGrows
      /\ handlers'[Primary] \subseteq 1..Len(blocks'[Primary])
  <2>1. /\ blocks \in [Node -> Seq(Block)] /\ phase \in [Node -> Phase]
        /\ sequenceTxs \in [Node -> Seq(Tx)]
        /\ handlers \in [Node -> SUBSET Nat]
        /\ Replica \subseteq Node \ {Primary}
    BY <1>0 DEF TypeOK, Replica
  <2>2. CASE DoSequenceWork(Primary)
    <3> DEFINE b == ChainedBlock(lastBlock[Primary], work[Primary],
                                 KeyOf[Primary])
    <3> HIDE DEF b
    <3>1. /\ boot' = boot /\ unprocessed' = unprocessed /\ cur' = cur
          /\ phase' = [phase EXCEPT ![Primary] = "select"]
          /\ sequenceTxs' = sequenceTxs
      BY <2>2 DEF DoSequenceWork
    <3>2. CASE ChainBlock(Primary, b)
      <4>1. blocks' = [blocks EXCEPT ![Primary] = Append(@, b)]
        BY <3>2 DEF ChainBlock, Commit
      <4>2. blocks'[Primary] = Append(blocks[Primary], b)
        BY <1>0, <2>1, <4>1
      <4>3. /\ Len(blocks'[Primary]) = Len(blocks[Primary]) + 1
            /\ Len(blocks[Primary]) \in Nat
        BY <1>0, <2>1, <4>2
      <4>4. handlers'[Primary] \subseteq
              handlers[Primary] \cup {Len(blocks'[Primary])}
        BY <1>0, <2>1, <3>2 DEF ChainBlock, StartListeners
      <4>5. handlers'[Primary] \subseteq 1..Len(blocks'[Primary])
        BY <1>0, <4>3, <4>4 DEF Roles
      <4> QED BY <1>0, <2>1, <3>1, <4>1, <4>2, <4>5 DEF PrimaryGrows
    <3>3. CASE CommitFails(Primary) /\ UNCHANGED <<lastBlock, handlers>>
      <4>1. blocks' = blocks
        BY <1>0, <3>3, FailedCommit
      <4> QED BY <1>0, <2>1, <3>1, <3>3, <4>1 DEF PrimaryGrows, Roles
    <3> QED BY <2>2, <3>2, <3>3 DEF DoSequenceWork, b
  <2>3. CASE ReceiveTx(Primary)
    BY <1>0, <2>1, <2>3 DEF ReceiveTx, PrimaryGrows, Roles, dbVars
  <2>4. CASE \E tx \in Tx : Sequence(Primary, tx)
    BY <1>0, <2>1, <2>4 DEF Sequence, PrimaryGrows, Roles, dbVars, loopVars
  <2> QED BY <1>1, <2>2, <2>3, <2>4
<1>4. NetTypeOK'
  BY <1>0 DEF NInv, NetTypeOK, netVars
<1>5. Roles'
  BY <1>0, <1>3 DEF Roles
<1>6. \A r \in Replica : Known(r)' = Known(r)
  BY <1>0, <1>3 DEF Known, netVars
<1>7. Genuine' /\ Published' /\ Mirror'
  BY <1>0, <1>3, <1>6, KeepGenuine, KeepPublished, KeepMirror DEF netVars
<1> QED BY <1>2, <1>4, <1>5, <1>7 DEF NInv

(* A block that is published, or fails to be, is one of the primary's.     *)
LEMMA GossipTypes ==
  ASSUME NetTypeOK, NEW row \in Nat, blocks[Primary][row] \in Block,
         GossipNewBlock(row)
  PROVE  NetTypeOK'
<1>1. seen' = seen /\ buffer' = buffer /\ losses' = losses
  BY DEF GossipNewBlock
<1>2. network' \in SUBSET Message
  <2>1. [num |-> row, block |-> blocks[Primary][row]] \in Message
    BY DEF Message
  <2>2. network' \subseteq
          network \cup {[num |-> row, block |-> blocks[Primary][row]]}
    BY DEF GossipNewBlock
  <2> QED BY <2>1, <2>2 DEF NetTypeOK
<1>3. unpublished' \in SUBSET Nat
  BY DEF GossipNewBlock, NetTypeOK
<1> QED BY <1>1, <1>2, <1>3 DEF NetTypeOK

(* A published block sits at the row of its height.                        *)
LEMMA GossipStep ==
  ASSUME NInv, NEW row \in handlers[Primary], GossipNewBlock(row)
  PROVE  NInv'
<1>0. /\ Primary \in Node /\ IInv /\ Roles /\ TypeOK
      /\ RunListener(Primary, row)
  BY ReplicationAssumption DEF NInv, IInv, GossipNewBlock
<1> DEFINE b == blocks[Primary][row]
<1>1. IInv'
  BY <1>0, RunListenerIInv
<1>2. /\ blocks' = blocks /\ boot' = boot /\ unprocessed' = unprocessed
      /\ cur' = cur /\ phase' = phase /\ sequenceTxs' = sequenceTxs
      /\ handlers'[Primary] \subseteq handlers[Primary]
      /\ buffer' = buffer
  BY <1>0 DEF RunListener, GossipNewBlock, dbVars, loopVars, TypeOK
<1>3. row \in 1..Len(blocks[Primary]) /\ row \in Nat
  BY <1>0 DEF Roles
<1>4. b \in Block
  BY <1>0, <1>3 DEF TypeOK
<1>5. OfPrimary(b)
  <2>1. row \in WrittenRows(Primary)
    BY <1>0, <1>3 DEF Roles, WrittenRows
  <2>2. b.height = row - boot[Primary]
    BY <1>0, <2>1 DEF IInv, LogChained, Linked
  <2> QED BY <1>0, <1>3, <2>2 DEF OfPrimary, Roles
<1>6. PrimaryGrows
  BY <1>2 DEF PrimaryGrows
<1>7. NetTypeOK'
  BY <1>3, <1>4, GossipTypes DEF NInv
<1>8. Published'
  <2> SUFFICES ASSUME NEW m \in network', SignedByOperator(m.block)
               PROVE  OfPrimary(m.block)'
    BY DEF Published
  <2>1. m \in network \/ m.block = b
    BY DEF GossipNewBlock
  <2>2. OfPrimary(m.block)
    BY <1>5, <2>1 DEF NInv, Published
  <2> QED BY <1>6, <2>2, StillOfPrimary
<1>9. Roles'
  BY <1>0, <1>2 DEF Roles
<1>10. \A r \in Replica : Known(r)' = Known(r)
  BY <1>2 DEF Known
<1>11. Genuine' /\ Mirror'
  BY <1>2, <1>6, <1>10, KeepGenuine, KeepMirror
<1> QED BY <1>1, <1>7, <1>8, <1>9, <1>11 DEF NInv

-----------------------------------------------------------------------------
(* The steps of a replica.                                                 *)

(* A replica that handles a block stores the primary's next block or none. *)
LEMMA ReplicaStep ==
  ASSUME NInv, NEW r \in Replica, CoreStep(r)
  PROVE  NInv'
<1>0. /\ Primary \in Node /\ r \in Node /\ r # Primary /\ Replica \subseteq Node
      /\ Primary \notin Replica
      /\ IInv /\ TypeOK /\ Roles /\ Genuine /\ netVars' = netVars
      /\ KeyOf[r] = NoSig
  BY ReplicationAssumption DEF NInv, IInv, CoreStep, Replica
<1>1. HandlesBlock(r)
  <2>1. phase[r] # "sequence" /\ sequenceTxs[r] = << >>
    BY <1>0 DEF Roles
  <2> QED BY <1>0, <2>1 DEF CoreStep, LoopStep, HandlesBlock, DoSequenceWork,
                            ReceiveTx, Sequence
<1>2. IInv'
  BY <1>0, <1>1, LoopStepIInv DEF HandlesBlock, LoopStep
<1>3. boot' = boot /\ handlers' = handlers /\ sequenceTxs' = sequenceTxs
  BY <1>1 DEF HandlesBlock, DrainOne, DrainEnds, DoProcessBlock
<1>4. \A q \in Replica : Known(q)' \subseteq Known(q)
  BY <1>0, <1>1, HandledStash DEF Known, netVars
<1>5. \/ blocks' = blocks
      \/ \E b \in Known(r) : SignedByOperator(b) /\ Extends(r, b)
  BY <1>0, <1>1, HandledLog DEF LogUnchanged, Known
<1>6. blocks'[Primary] = blocks[Primary]
  BY <1>0, <1>5 DEF Extends, TypeOK
<1>7. PrimaryGrows
  BY <1>6 DEF PrimaryGrows
<1>8. Roles'
  <2>1. phase'[Primary] = phase[Primary]
    BY <1>0, <1>1, HandledStash
  <2>2. \A q \in Replica : phase'[q] \in {phase[q], "select", "process"}
    BY <1>0, <1>1, HandledStash
  <2> QED BY <1>0, <1>3, <1>6, <2>1, <2>2 DEF Roles
<1>9. NetTypeOK'
  BY <1>0 DEF NInv, NetTypeOK, netVars
<1>10. Genuine' /\ Published'
  BY <1>0, <1>4, <1>7, KeepGenuine, KeepPublished DEF netVars
<1>11. Mirror'
  <2>1. CASE blocks' = blocks
    BY <1>3, <1>7, <2>1, KeepMirror
  <2>2. CASE \E b \in Known(r) : SignedByOperator(b) /\ Extends(r, b)
    BY <1>0, <2>2, ExtendMirror DEF Genuine
  <2> QED BY <1>5, <2>1, <2>2
<1> QED BY <1>2, <1>8, <1>9, <1>10, <1>11 DEF NInv

(* A subscription is filled from the network, which only holds signed      *)
(* blocks of the primary and blocks with another signature.                *)
LEMMA ArriveStep ==
  ASSUME NInv, NEW r \in Replica, NEW m \in network, Arrive(r, m)
  PROVE  NInv'
<1>0. /\ IInv /\ NetTypeOK /\ Roles /\ Published /\ Genuine /\ Mirror
      /\ UNCHANGED vars /\ network' = network /\ losses' = losses
      /\ unpublished' = unpublished
      /\ seen' = [seen EXCEPT ![r] = @ \cup {m}]
      /\ buffer' = IF Len(buffer[r]) < SubCap
                   THEN [buffer EXCEPT ![r] = Append(@, m.block)]
                   ELSE buffer
  BY DEF NInv, Arrive
<1>1. m.block \in Block /\ buffer \in [Replica -> Seq(Block)]
      /\ seen \in [Replica -> SUBSET Message] /\ m \in Message
  BY <1>0 DEF NetTypeOK, Message
<1>2. buffer' \in [Replica -> Seq(Block)]
  BY <1>0, <1>1
<1>3. NetTypeOK'
  BY <1>0, <1>1, <1>2 DEF NetTypeOK
<1>4. PrimaryGrows
  BY <1>0 DEF PrimaryGrows, vars
<1>5. IInv' /\ Roles'
  BY <1>0, StutterIInv DEF vars, Roles
<1>6. Genuine'
  <2> SUFFICES ASSUME NEW q \in Replica, NEW b \in Known(q)',
                      SignedByOperator(b)
               PROVE  OfPrimary(b)'
    BY DEF Genuine
  <2>1. b \in Known(q) \/ b = m.block
    <3>1. \A i \in DOMAIN buffer'[q] :
            \/ i \in DOMAIN buffer[q] /\ buffer'[q][i] = buffer[q][i]
            \/ buffer'[q][i] = m.block
      <4>1. CASE buffer'[q] = buffer[q]
        BY <4>1
      <4>2. CASE buffer'[q] = Append(buffer[q], m.block)
        BY <1>1, <4>2
      <4> QED BY <1>0, <1>1, <4>1, <4>2
    <3> QED BY <1>0, <3>1 DEF Known, vars
  <2>2. OfPrimary(b)
    BY <1>0, <2>1 DEF Genuine, Published
  <2> QED BY <1>4, <2>2, StillOfPrimary
<1>7. Published' /\ Mirror'
  BY <1>0, <1>4, KeepPublished, KeepMirror DEF vars
<1> QED BY <1>3, <1>5, <1>6, <1>7 DEF NInv

(* A block that was queued is in hand.                                     *)
LEMMA ListenStep ==
  ASSUME NInv, NEW r \in Replica, ListenForNewBlocks(r)
  PROVE  NInv'
<1>0. /\ r \in Node /\ r # Primary /\ Primary \in Node /\ Replica \subseteq Node
      /\ IInv /\ TypeOK /\ NetTypeOK /\ Roles
      /\ buffer[r] # << >> /\ ReceiveBlock(r, Head(buffer[r]))
      /\ buffer' = [buffer EXCEPT ![r] = Tail(@)]
      /\ network' = network /\ seen' = seen /\ losses' = losses
      /\ unpublished' = unpublished
  BY ReplicationAssumption DEF NInv, IInv, ListenForNewBlocks, Replica
<1>1. /\ buffer \in [Replica -> Seq(Block)] /\ buffer[r] \in Seq(Block)
      /\ Head(buffer[r]) \in Block /\ Tail(buffer[r]) \in Seq(Block)
      /\ 1 \in DOMAIN buffer[r] /\ Head(buffer[r]) = buffer[r][1]
  BY <1>0 DEF NetTypeOK
<1>2. IInv'
  BY <1>0, <1>1, ReceiveBlockIInv
<1>3. /\ blocks' = blocks /\ boot' = boot /\ unprocessed' = unprocessed
      /\ cur' = [cur EXCEPT ![r] = Head(buffer[r])]
      /\ phase' = [phase EXCEPT ![r] = "drain"]
      /\ handlers' = handlers /\ sequenceTxs' = sequenceTxs
  BY <1>0 DEF ReceiveBlock, dbVars
<1>4. Roles'
  BY <1>0, <1>3 DEF Roles, TypeOK
<1>5. NetTypeOK'
  BY <1>0, <1>1 DEF NetTypeOK
<1>6. PrimaryGrows
  BY <1>3 DEF PrimaryGrows
<1>7. \A q \in Replica : Known(q)' \subseteq Known(q)
  <2> SUFFICES ASSUME NEW q \in Replica PROVE Known(q)' \subseteq Known(q)
    OBVIOUS
  <2>1. CASE q # r
    BY <1>0, <1>1, <1>3, <2>1 DEF Known, TypeOK
  <2>2. CASE q = r
    <3>1. buffer'[r] = Tail(buffer[r])
      BY <1>0, <1>1
    <3>2. \A i \in DOMAIN buffer'[r] :
            i + 1 \in DOMAIN buffer[r] /\ buffer'[r][i] = buffer[r][i + 1]
      BY <1>0, <1>1, <3>1
    <3>3. cur'[r] = buffer[r][1]
      BY <1>0, <1>1, <1>3 DEF TypeOK
    <3> QED BY <1>1, <1>3, <2>2, <3>2, <3>3 DEF Known
  <2> QED BY <2>1, <2>2
<1>8. Genuine' /\ Published' /\ Mirror'
  BY <1>0, <1>3, <1>6, <1>7, KeepGenuine, KeepPublished, KeepMirror
<1> QED BY <1>2, <1>4, <1>5, <1>8 DEF NInv

(* A replica that starts again holds nothing and has written nothing.      *)
LEMMA RestartReplicaStep ==
  ASSUME NInv, NEW r \in Replica, RestartReplica(r)
  PROVE  NInv'
<1>0. /\ r \in Node /\ r # Primary /\ Primary \in Node /\ Replica \subseteq Node
      /\ IInv /\ TypeOK /\ NetTypeOK /\ Roles /\ Mirror /\ Restart(r)
      /\ buffer' = [buffer EXCEPT ![r] = << >>]
      /\ network' = network /\ losses' = losses
      /\ unpublished' = unpublished
  BY ReplicationAssumption DEF NInv, IInv, RestartReplica, Replica
<1>1. PICK kept \in SUBSET seen[r] : seen' = [seen EXCEPT ![r] = kept]
  BY DEF RestartReplica
<1>2. NetTypeOK'
  BY <1>0, <1>1 DEF NetTypeOK
<1>3. /\ blocks' = blocks
      /\ boot' = [boot EXCEPT ![r] = Len(blocks[r])]
      /\ unprocessed' = [unprocessed EXCEPT ![r] = {}]
      /\ cur' = [cur EXCEPT ![r] = NoBlock]
      /\ phase' = [phase EXCEPT ![r] = "select"]
      /\ handlers' = [handlers EXCEPT ![r] = {}]
      /\ sequenceTxs' = [sequenceTxs EXCEPT ![r] = << >>]
  BY <1>0 DEF Restart, CreateTables
<1>4. IInv'
  BY <1>0, RestartIInv
<1>5. PrimaryGrows
  BY <1>3 DEF PrimaryGrows
<1>6. Roles'
  BY <1>0, <1>3 DEF Roles, TypeOK
<1>7. \A q \in Replica : Known(q)' \subseteq Known(q)
  BY <1>0, <1>3, SMTT(30) DEF Known, TypeOK, NetTypeOK
<1>8. Genuine' /\ Published'
  BY <1>0, <1>5, <1>7, KeepGenuine, KeepPublished
<1>9. Mirror'
  <2> SUFFICES ASSUME NEW q \in Replica, NEW i \in WrittenRows(q)'
               PROVE  /\ i - boot'[q] <= Len(blocks'[Primary])
                      /\ blocks'[q][i] = blocks'[Primary][i - boot'[q]]
    BY DEF Mirror
  <2>1. CASE q # r
    BY <1>0, <1>3, <2>1 DEF Mirror, WrittenRows, TypeOK
  <2>2. CASE q = r
    <3>1. boot'[r] = Len(blocks'[r]) /\ Len(blocks'[r]) \in Nat
      BY <1>0, <1>3 DEF TypeOK
    <3> QED BY <2>2, <3>1 DEF WrittenRows
  <2> QED BY <2>1, <2>2
<1> QED BY <1>2, <1>4, <1>6, <1>8, <1>9 DEF NInv

(* The clock and losses touch no block.                                    *)
LEMMA IdleStep ==
  ASSUME NInv,
         \/ Tick /\ UNCHANGED netVars
         \/ \E r \in Replica : \E m \in network : Lose(r, m)
         \/ UNCHANGED allVars
  PROVE  NInv'
<1>1. IInv'
  BY TickIInv, StutterIInv DEF NInv, Lose, allVars
<1>2. /\ blocks' = blocks /\ boot' = boot /\ unprocessed' = unprocessed
      /\ cur' = cur /\ phase' = phase /\ handlers' = handlers
      /\ sequenceTxs' = sequenceTxs
      /\ network' = network /\ buffer' = buffer
  BY DEF Tick, Lose, allVars, vars, netVars, dbVars, loopVars
<1>3. NetTypeOK'
  <2>1. CASE UNCHANGED netVars
    BY <2>1 DEF NInv, NetTypeOK, netVars
  <2>2. CASE \E r \in Replica : \E m \in network : Lose(r, m)
    <3>1. PICK r \in Replica, m \in network : Lose(r, m)
      BY <2>2
    <3>2. /\ seen' = [seen EXCEPT ![r] = @ \cup {m}] /\ losses' = losses + 1
          /\ NetTypeOK /\ unpublished' = unpublished
      BY <3>1 DEF Lose, NInv
    <3>3. seen' \in [Replica -> SUBSET Message]
      BY <3>2 DEF NetTypeOK
    <3> QED BY <1>2, <3>2, <3>3 DEF NetTypeOK
  <2> QED BY <2>1, <2>2 DEF allVars, netVars
<1>4. PrimaryGrows
  BY <1>2 DEF PrimaryGrows
<1>5. Roles'
  BY <1>2 DEF NInv, Roles
<1>6. \A r \in Replica : Known(r)' = Known(r)
  BY <1>2 DEF Known
<1>7. Genuine' /\ Published' /\ Mirror'
  BY <1>2, <1>4, <1>6, KeepGenuine, KeepPublished, KeepMirror
<1> QED BY <1>1, <1>3, <1>5, <1>7 DEF NInv

-----------------------------------------------------------------------------
(* The theorems.                                                           *)

(* Every step of the network keeps the invariant, if the primary stays up. *)
THEOREM NetStepNInv ==
  Primary \notin Restarting /\ NInv /\ [NetNext]_allVars => NInv'
<1> SUFFICES ASSUME Primary \notin Restarting, NInv, [NetNext]_allVars
             PROVE  NInv'
  OBVIOUS
<1>1. CASE \E n \in Node : CoreStep(n)
  BY <1>1, PrimaryStep, ReplicaStep DEF Replica
<1>2. CASE Tick /\ UNCHANGED netVars
  BY <1>2, IdleStep
<1>3. CASE RestartPrimary
  BY <1>3 DEF RestartPrimary, Restart
<1>4. CASE \E row \in handlers[Primary] : GossipNewBlock(row)
  BY <1>4, GossipStep
<1>5. CASE \E r \in Replica : \E m \in network : Arrive(r, m)
  BY <1>5, ArriveStep
<1>6. CASE \E r \in Replica : \E m \in network : Lose(r, m)
  BY <1>6, IdleStep
<1>7. CASE \E r \in Replica : ListenForNewBlocks(r)
  BY <1>7, ListenStep
<1>8. CASE \E r \in Replica : RestartReplica(r)
  BY <1>8, RestartReplicaStep
<1>9. CASE UNCHANGED allVars
  BY <1>9, IdleStep
<1> QED BY <1>1, <1>2, <1>3, <1>4, <1>5, <1>6, <1>7, <1>8, <1>9 DEF NetNext

THEOREM NetInvariant == Primary \notin Restarting => (NetSpec => []NInv)
<1> SUFFICES ASSUME Primary \notin Restarting PROVE NetSpec => []NInv
  OBVIOUS
<1>1. NInv /\ [NetNext]_allVars => NInv'
  BY NetStepNInv
<1> QED BY <1>1, NetInitNInv, PTL DEF NetSpec

(* However messages are lost, dropped, reordered or repeated, whatever     *)
(* strangers publish, whichever insertions fail and however often replicas *)
(* are restarted: ListenForNewBlocks and doProcessBlock keep every replica *)
(* a prefix of the primary.                                                *)
THEOREM MirrorAlways == Primary \notin Restarting => (NetSpec => []Mirror)
<1>1. NInv => Mirror
  BY DEF NInv
<1> QED BY <1>1, NetInvariant, PTL

(* No replica ever holds, queued, in hand or stashed, a block with the     *)
(* operator's signature that is not the primary's block of that height.    *)
THEOREM GenuineAlways == Primary \notin Restarting => (NetSpec => []Genuine)
<1>1. NInv => Genuine
  BY DEF NInv
<1> QED BY <1>1, NetInvariant, PTL

(* Blocks with the operator's signature on the network never contradict    *)
(* each other.                                                             *)
THEOREM NoEquivocationAlways ==
  Primary \notin Restarting => (NetSpec => []NoEquivocation)
<1>1. NInv => NoEquivocation
  BY DEF NInv, Published, OfPrimary, NoEquivocation
<1> QED BY <1>1, NetInvariant, PTL

(* A replica that was never restarted answers Get as the primary does.     *)
LEMMA MirrorReads == NInv => ReadsAgree
<1> SUFFICES ASSUME NInv, NEW r \in Replica, boot[r] = 0,
                    NEW k \in 1..Info(r)
             PROVE  Get(r, 1, k) = Get(Primary, 1, k)
  BY DEF ReadsAgree
<1>1. /\ r \in Node /\ Primary \in Node
      /\ sequence \in [Node -> Seq(Tx)] /\ blocks \in [Node -> Seq(Block)]
      /\ TablesInStep /\ Mirror
  BY ReplicationAssumption DEF NInv, IInv, TypeOK, Replica
<1>2. /\ sequence[r] \in Seq(Tx) /\ sequence[Primary] \in Seq(Tx)
      /\ Len(sequence[r]) = Len(blocks[r])
      /\ Len(sequence[Primary]) = Len(blocks[Primary])
      /\ Len(blocks[r]) \in Nat /\ Len(blocks[Primary]) \in Nat
  BY <1>1 DEF TablesInStep
<1>3. k \in Nat /\ 1 <= k /\ k <= Len(blocks[r])
  BY <1>2 DEF Info
<1>4. \A i \in 1..Len(blocks[r]) : /\ i <= Len(blocks[Primary])
                                   /\ blocks[r][i] = blocks[Primary][i]
  <2>1. WrittenRows(r) = 1..Len(blocks[r])
    BY DEF WrittenRows
  <2>2. \A i \in WrittenRows(r) :
          /\ i - boot[r] <= Len(blocks[Primary])
          /\ blocks[r][i] = blocks[Primary][i - boot[r]]
    BY <1>1 DEF Mirror
  <2>3. \A i \in WrittenRows(r) : i \in Nat /\ i - boot[r] = i
    BY <1>2, <2>1
  <2> QED BY <2>1, <2>2, <2>3
<1>5. k <= Len(sequence[r]) /\ k <= Len(sequence[Primary])
  BY <1>2, <1>3, <1>4
<1>6. \A i \in 1..k : sequence[r][i] = sequence[Primary][i]
  <2> SUFFICES ASSUME NEW i \in 1..k
               PROVE  sequence[r][i] = sequence[Primary][i]
    OBVIOUS
  <2>1. i \in 1..Len(blocks[r]) /\ i \in 1..Len(blocks[Primary])
    BY <1>2, <1>3, <1>4
  <2>2. /\ sequence[r][i] = blocks[r][i].body
        /\ sequence[Primary][i] = blocks[Primary][i].body
    BY <1>1, <2>1 DEF TablesInStep
  <2> QED BY <1>4, <2>1, <2>2
<1>7. /\ Get(r, 1, k) = SubSeq(sequence[r], 1, k)
      /\ Get(Primary, 1, k) = SubSeq(sequence[Primary], 1, k)
  BY <1>2, <1>3, <1>5 DEF Get
<1>8. SubSeq(sequence[r], 1, k) = SubSeq(sequence[Primary], 1, k)
  <2> DEFINE s == SubSeq(sequence[r], 1, k)
             t == SubSeq(sequence[Primary], 1, k)
  <2>1. /\ s \in Seq(Tx) /\ t \in Seq(Tx)
        /\ Len(s) = k /\ Len(t) = k
        /\ \A i \in 1..k : s[i] = sequence[r][i] /\ t[i] = sequence[Primary][i]
    BY <1>2, <1>3, <1>5
  <2> HIDE DEF s, t
  <2>2. \A i \in 1..k : s[i] = t[i]
    BY <1>6, <2>1
  <2>3. s = t
    BY <1>3, <2>1, <2>2
  <2> QED BY <2>3 DEF s, t
<1> QED BY <1>7, <1>8

THEOREM ReadsAgreeAlways ==
  Primary \notin Restarting => (NetSpec => []ReadsAgree)
BY MirrorReads, NetInvariant, PTL

-----------------------------------------------------------------------------
(* The refinement of SequenceLog: a step of the network appends a          *)
(* transaction to the log, copies the next one to a replica, starts a copy *)
(* again, or changes neither.                                              *)

LEMMA CopyTypes ==
  ASSUME NInv, NEW r \in Replica
  PROVE  /\ r \in Node /\ r # Primary /\ Primary \in Node
         /\ sequence \in [Node -> Seq(Tx)] /\ blocks \in [Node -> Seq(Block)]
         /\ sequence[r] \in Seq(Tx) /\ boot[r] \in 0 .. Len(sequence[r])
         /\ Len(sequence[r]) = Len(blocks[r]) /\ Len(sequence[r]) \in Nat
         /\ Len(Copied(r)) = Len(sequence[r]) - boot[r]
<1>1. /\ r \in Node /\ r # Primary /\ Primary \in Node
      /\ sequence \in [Node -> Seq(Tx)] /\ blocks \in [Node -> Seq(Block)]
  BY ReplicationAssumption DEF NInv, IInv, TypeOK, Replica
<1>2. /\ sequence[r] \in Seq(Tx) /\ Len(sequence[r]) \in Nat
      /\ Len(sequence[r]) = Len(blocks[r])
  BY <1>1, LenProperties DEF NInv, IInv, TablesInStep
<1>3. boot[r] \in 0 .. Len(sequence[r])
  BY <1>1, <1>2, LastHeight DEF NInv
<1>4. \A i \in boot[r] + 1 .. Len(sequence[r]) : sequence[r][i] \in Tx
  BY <1>2, <1>3, ElementOfSeq
<1>5. Len(Copied(r)) = IF boot[r] + 1 <= Len(sequence[r])
                       THEN Len(sequence[r]) - (boot[r] + 1) + 1 ELSE 0
  BY <1>2, <1>3, <1>4, SubSeqProperties DEF Copied
<1> QED BY <1>1, <1>2, <1>3, <1>5

LEMMA NetInitOfLog == NetInit => Log!Init
<1> SUFFICES ASSUME NetInit PROVE Log!Init
  OBVIOUS
<1>1. /\ Primary \in Node /\ Replica \subseteq Node
      /\ sequence = [n \in Node |-> << >>] /\ boot = [n \in Node |-> 0]
  BY ReplicationAssumption DEF NetInit, Init, Replica
<1>2. ASSUME NEW r \in Replica PROVE Copied(r) = << >>
  <2>1. sequence[r] = << >> /\ boot[r] = 0 /\ Len(<< >>) = 0
    BY <1>1, EmptySeq
  <2>2. SubSeq(<< >>, 1, 0) = << >>
    BY SubSeqEmpty
  <2> QED BY <2>1, <2>2 DEF Copied
<1> QED BY <1>1, <1>2 DEF Log!Init

\* The log and the copies, before and after a step that leaves them alone.
LEMMA LogStutters ==
  ASSUME UNCHANGED <<sequence, boot>>
  PROVE  UNCHANGED Log!vars
BY DEF Log!vars, Copied

LEMMA PrimaryOfLog ==
  ASSUME NInv, CoreStep(Primary)
  PROVE  [Log!Next]_(Log!vars)
<1>0. /\ Primary \in Node /\ IInv /\ Roles /\ sequence \in [Node -> Seq(Tx)]
      /\ Replica \subseteq Node \ {Primary}
  BY ReplicationAssumption DEF NInv, IInv, TypeOK, Replica
<1>1. \/ DoSequenceWork(Primary) \/ ReceiveTx(Primary)
      \/ \E tx \in Tx : Sequence(Primary, tx)
  BY <1>0 DEF CoreStep, LoopStep, Roles, DrainOne, DrainEnds, DoProcessBlock
<1>2. CASE UNCHANGED <<sequence, boot>>
  BY <1>2, LogStutters
<1>3. CASE DoSequenceWork(Primary)
  <2> DEFINE b == ChainedBlock(lastBlock[Primary], work[Primary],
                               KeyOf[Primary])
  <2> HIDE DEF b
  <2>1. boot' = boot /\ phase[Primary] = "sequence"
    BY <1>3 DEF DoSequenceWork
  <2>2. CASE ChainBlock(Primary, b)
    <3>1. Extends(Primary, b)
      BY <1>0, <2>1, <2>2, Chained DEF b
    <3>2. /\ sequence'[Primary] = Append(sequence[Primary], b.body)
          /\ b.body \in Tx
          /\ \A r \in Replica : sequence'[r] = sequence[r]
      BY <1>0, <3>1 DEF Extends
    <3>3. \A r \in Replica : Copied(r)' = Copied(r)
      BY <2>1, <3>2 DEF Copied
    <3> QED BY <3>2, <3>3 DEF Log!Next, Log!AppendTx
  <2>3. CASE CommitFails(Primary)
    BY <1>0, <2>1, <2>3, FailedCommit, LogStutters
  <2> QED BY <1>3, <2>2, <2>3 DEF DoSequenceWork, b
<1>4. ReceiveTx(Primary) => UNCHANGED <<sequence, boot>>
  BY DEF ReceiveTx, dbVars
<1>5. (\E tx \in Tx : Sequence(Primary, tx)) => UNCHANGED <<sequence, boot>>
  BY DEF Sequence, dbVars
<1> QED BY <1>1, <1>2, <1>3, <1>4, <1>5

(* A replica stores the block of the primary that has the next height, so  *)
(* the transaction it copies is the next one of the log.                   *)
LEMMA ReplicaOfLog ==
  ASSUME NInv, NEW r \in Replica, CoreStep(r)
  PROVE  [Log!Next]_(Log!vars)
<1>0. /\ IInv /\ Roles /\ Genuine /\ r \in Node /\ KeyOf[r] = NoSig
  BY ReplicationAssumption DEF NInv, Replica
<1>1. HandlesBlock(r)
  <2>1. phase[r] # "sequence" /\ sequenceTxs[r] = << >>
    BY <1>0 DEF Roles
  <2> QED BY <1>0, <2>1 DEF CoreStep, LoopStep, HandlesBlock, DoSequenceWork,
                            ReceiveTx, Sequence
<1>2. boot' = boot
  BY <1>1 DEF HandlesBlock, DrainOne, DrainEnds, DoProcessBlock
<1>3. CASE LogUnchanged
  BY <1>3, LogStutters DEF LogUnchanged
<1>4. ASSUME NEW b \in Known(r), SignedByOperator(b), Extends(r, b)
      PROVE  Log!CopyNext(r)
  <2>1. OfPrimary(b)
    BY <1>0, <1>4 DEF Genuine
  <2>2. /\ r # Primary /\ Primary \in Node
        /\ sequence \in [Node -> Seq(Tx)]
        /\ sequence[r] \in Seq(Tx) /\ boot[r] \in 0 .. Len(sequence[r])
        /\ Len(sequence[r]) \in Nat
        /\ Len(Copied(r)) = Len(sequence[r]) - boot[r]
        /\ Len(sequence[r]) = Len(blocks[r])
    BY CopyTypes
  <2>3. b.height = Len(Copied(r)) + 1
    BY <1>0, <1>4, <2>2, LastHeight DEF Extends
  <2>4. /\ Len(sequence[Primary]) = Len(blocks[Primary])
        /\ b.height \in 1 .. Len(sequence[Primary])
        /\ sequence[Primary][b.height] = b.body
    BY <1>0, <2>1, <2>2 DEF OfPrimary, IInv, TablesInStep
  <2>5. /\ sequence'[r] = Append(sequence[r], b.body) /\ b.body \in Tx
        /\ sequence'[Primary] = sequence[Primary]
        /\ \A q \in Replica : q # r => sequence'[q] = sequence[q]
    BY <1>0, <1>4, <2>2 DEF Extends, Replica
  <2>6. Copied(r)' = Append(Copied(r), b.body)
    BY <1>2, <2>2, <2>5, SuffixOfAppend DEF Copied
  <2>7. \A q \in Replica : q # r => Copied(q)' = Copied(q)
    BY <1>2, <2>5 DEF Copied
  <2>8. Len(Copied(r)) < Len(sequence[Primary])
    BY <2>2, <2>3, <2>4
  <2> QED BY <2>3, <2>4, <2>5, <2>6, <2>7, <2>8 DEF Log!CopyNext
<1> QED BY <1>0, <1>1, <1>3, <1>4, HandledLog DEF Known, Log!Next

LEMMA RestartOfLog ==
  ASSUME NInv, NEW r \in Replica, RestartReplica(r)
  PROVE  [Log!Next]_(Log!vars)
<1>1. /\ sequence' = sequence /\ boot' = [boot EXCEPT ![r] = Len(blocks[r])]
      /\ boot \in [Node -> Nat]
  BY DEF RestartReplica, Restart, CreateTables, NInv, IInv, TypeOK
<1>2. /\ r \in Node /\ Len(sequence[r]) \in Nat
      /\ Len(sequence[r]) = Len(blocks[r])
  BY CopyTypes
<1>3. Copied(r)' = << >>
  BY <1>1, <1>2, SubSeqEmpty DEF Copied
<1>4. \A q \in Replica : q # r => Copied(q)' = Copied(q)
  BY <1>1 DEF Copied, Replica
<1> QED BY <1>1, <1>3, <1>4 DEF Log!Next, Log!Forget

LEMMA NetStepOfLog ==
  ASSUME Primary \notin Restarting, NInv, [NetNext]_allVars
  PROVE  [Log!Next]_(Log!vars)
<1>1. CASE \E n \in Node : CoreStep(n)
  BY <1>1, PrimaryOfLog, ReplicaOfLog DEF Replica
<1>2. CASE Tick \/ UNCHANGED allVars
  BY <1>2, LogStutters DEF Tick, allVars, vars, dbVars
<1>3. CASE \E row \in handlers[Primary] : GossipNewBlock(row)
  BY <1>3, LogStutters DEF GossipNewBlock, RunListener, dbVars
<1>4. ASSUME NEW r \in Replica,
             (\E m \in network : Arrive(r, m) \/ Lose(r, m))
               \/ ListenForNewBlocks(r)
      PROVE  [Log!Next]_(Log!vars)
  BY <1>4, LogStutters DEF Arrive, Lose, ListenForNewBlocks, ReceiveBlock,
     vars, dbVars
<1>5. CASE \E r \in Replica : RestartReplica(r)
  BY <1>5, RestartOfLog
<1>6. ~RestartPrimary
  BY DEF RestartPrimary, Restart
<1> QED BY <1>1, <1>2, <1>3, <1>4, <1>5, <1>6 DEF NetNext

(* The network keeps what the sequencer promises its users: one sequence   *)
(* of transactions that only grows, and copies that take from it one       *)
(* transaction at a time, in order, or are started again.                  *)
THEOREM NetImplementsLog ==
  Primary \notin Restarting => (NetSpec => ImplementsLog)
<1> SUFFICES ASSUME Primary \notin Restarting PROVE NetSpec => ImplementsLog
  OBVIOUS
<1>1. NInv /\ [NetNext]_allVars => [Log!Next]_(Log!vars)
  BY NetStepOfLog
<1>2. NetSpec => []NInv
  BY NetInvariant
<1> QED BY <1>1, <1>2, NetInitOfLog, PTL DEF NetSpec, ImplementsLog, Log!Spec

-----------------------------------------------------------------------------
(* What still holds when the primary, too, is started again and signs a    *)
(* second history: nothing that has left it is lost by it.                 *)

(* The roles of the nodes, whatever the primary's table held at its start. *)
Places ==
  /\ phase[Primary] \in {"select", "sequence"}
  /\ handlers[Primary] \subseteq 1..Len(blocks[Primary])
  /\ \A r \in Replica : phase[r] # "sequence" /\ sequenceTxs[r] = << >>

(* What a replica knows of and has not stored yet is the primary's, too.   *)
HeldCommitted == \A r \in Replica : \A b \in Known(r) :
  SignedByOperator(b) => Committed(b)

HInv == IInv /\ NetTypeOK /\ Places /\ Durable /\ HeldCommitted

THEOREM NetInitHInv == NetInit => HInv
<1> SUFFICES ASSUME NetInit PROVE HInv
  OBVIOUS
<1>1. IInv /\ Init
  BY InitIInv DEF NetInit
<1>2. NetTypeOK
  BY ReplicationAssumption DEF NetInit, NetTypeOK, Message
<1>3. Places
  BY <1>1, ReplicationAssumption DEF Init, Places, Replica
<1>4. Durable
  BY <1>1, ReplicationAssumption
     DEF NetInit, Init, Durable, SignedByOperator, Replica
<1>5. HeldCommitted
  BY <1>1 DEF NetInit, Init, HeldCommitted, Known, Replica
<1> QED BY <1>1, <1>2, <1>3, <1>4, <1>5 DEF HInv

(* What a step does to the blocks: the primary's table grows, a replica    *)
(* stores a signed block that it knew of, learns of one from the network,  *)
(* and what is published comes from the primary's table.                   *)
Effect ==
  /\ PrimaryGrows
  /\ \A r \in Replica :
       \/ blocks'[r] = blocks[r]
       \/ \E b \in Known(r) :
            SignedByOperator(b) /\ blocks'[r] = Append(blocks[r], b)
  /\ \A r \in Replica : \A b \in Known(r)' :
       b \in Known(r) \/ \E m \in network : b = m.block
  /\ \A m \in network' : m \in network \/ Committed(m.block)

LEMMA StillCommitted ==
  ASSUME IInv, PrimaryGrows, NEW b, Committed(b)
  PROVE  Committed(b)'
<1>1. blocks[Primary] \in Seq(Block)
  BY ReplicationAssumption DEF IInv, TypeOK
<1>2. CASE blocks'[Primary] = blocks[Primary]
  BY <1>2 DEF Committed
<1>3. CASE \E c : blocks'[Primary] = Append(blocks[Primary], c)
  <2>1. PICK c : blocks'[Primary] = Append(blocks[Primary], c)
    BY <1>3
  <2>2. \A i \in DOMAIN blocks[Primary] :
          /\ i \in DOMAIN blocks'[Primary]
          /\ blocks'[Primary][i] = blocks[Primary][i]
    BY <1>1, <2>1
  <2> QED BY <2>2 DEF Committed
<1> QED BY <1>2, <1>3 DEF PrimaryGrows

LEMMA EffectKeeps ==
  ASSUME HInv, Effect
  PROVE  Durable' /\ HeldCommitted'
<1>0. IInv /\ Durable /\ HeldCommitted /\ PrimaryGrows
  BY DEF HInv, Effect
<1>1. ASSUME NEW m \in network', SignedByOperator(m.block)
      PROVE  Committed(m.block)'
  <2>1. Committed(m.block)
    BY <1>0, <1>1 DEF Effect, Durable
  <2> QED BY <1>0, <2>1, StillCommitted
<1>2. ASSUME NEW r \in Replica, NEW i \in DOMAIN blocks'[r]
      PROVE  Committed(blocks[r][i])'
  <2>1. PICK b : b = blocks'[r][i]
    OBVIOUS
  <2>2. blocks[r] \in Seq(Block)
    BY <1>0 DEF IInv, TypeOK, Replica
  <2>3. \A j \in DOMAIN blocks[r] : Committed(blocks[r][j])
    BY <1>0 DEF Durable
  <2>4. Committed(b)
    <3>1. CASE blocks'[r] = blocks[r]
      BY <2>1, <2>3, <3>1
    <3>2. CASE \E c \in Known(r) :
                 SignedByOperator(c) /\ blocks'[r] = Append(blocks[r], c)
      <4>1. PICK c \in Known(r) :
              SignedByOperator(c) /\ blocks'[r] = Append(blocks[r], c)
        BY <3>2
      <4>2. Committed(c)
        BY <1>0, <4>1 DEF HeldCommitted
      <4>3. (i \in DOMAIN blocks[r] /\ b = blocks[r][i]) \/ b = c
        BY <2>1, <2>2, <4>1
      <4> QED BY <2>3, <4>2, <4>3
    <3> QED BY <3>1, <3>2 DEF Effect
  <2>5. Committed(b)'
    BY <1>0, <2>4, StillCommitted
  <2> QED BY <2>1, <2>5 DEF Committed
<1>3. ASSUME NEW r \in Replica, NEW b \in Known(r)', SignedByOperator(b)
      PROVE  Committed(b)'
  <2>1. CASE b \in Known(r)
    BY <1>0, <1>3, <2>1, StillCommitted DEF HeldCommitted
  <2>2. CASE \E m \in network : b = m.block
    <3>1. Committed(b)
      BY <1>0, <1>3, <2>2 DEF Durable
    <3> QED BY <1>0, <3>1, StillCommitted
  <2> QED BY <2>1, <2>2 DEF Effect
<1> QED BY <1>1, <1>2, <1>3 DEF Durable, HeldCommitted

LEMMA NodeFacts ==
  /\ Primary \in Node /\ Primary \notin Replica
  /\ Replica \subseteq Node
  /\ \A r \in Replica : KeyOf[r] = NoSig
BY ReplicationAssumption DEF Replica

LEMMA PrimaryStepH ==
  ASSUME HInv, CoreStep(Primary)
  PROVE  IInv' /\ NetTypeOK' /\ Places' /\ Effect
<1>0. /\ IInv /\ NetTypeOK /\ Places /\ TypeOK /\ netVars' = netVars
  BY DEF HInv, IInv, CoreStep
<1>1. \/ DoSequenceWork(Primary) \/ ReceiveTx(Primary)
      \/ \E tx \in Tx : Sequence(Primary, tx)
  BY <1>0 DEF CoreStep, LoopStep, Places, DrainOne, DrainEnds, DoProcessBlock
<1>2. IInv'
  BY <1>0, <1>1, NodeFacts, DoSequenceWorkIInv, ReceiveTxIInv, SequenceIInv
<1>3. NetTypeOK'
  BY <1>0 DEF NetTypeOK, netVars
<1>4. /\ unprocessed' = unprocessed /\ cur' = cur
      /\ \A r \in Replica : /\ blocks'[r] = blocks[r]
                            /\ phase'[r] = phase[r]
                            /\ sequenceTxs'[r] = sequenceTxs[r]
      /\ phase'[Primary] \in {"select", "sequence"}
      /\ PrimaryGrows
      /\ handlers'[Primary] \subseteq 1..Len(blocks'[Primary])
  <2>1. /\ blocks \in [Node -> Seq(Block)] /\ phase \in [Node -> Phase]
        /\ sequenceTxs \in [Node -> Seq(Tx)]
        /\ handlers \in [Node -> SUBSET Nat]
    BY <1>0 DEF TypeOK
  <2>2. CASE DoSequenceWork(Primary)
    <3> DEFINE b == ChainedBlock(lastBlock[Primary], work[Primary],
                                 KeyOf[Primary])
    <3> HIDE DEF b
    <3>1. /\ unprocessed' = unprocessed /\ cur' = cur
          /\ phase' = [phase EXCEPT ![Primary] = "select"]
          /\ sequenceTxs' = sequenceTxs
      BY <2>2 DEF DoSequenceWork
    <3>2. CASE ChainBlock(Primary, b)
      <4>1. blocks' = [blocks EXCEPT ![Primary] = Append(@, b)]
        BY <3>2 DEF ChainBlock, Commit
      <4>2. blocks'[Primary] = Append(blocks[Primary], b)
        BY <2>1, <4>1, NodeFacts
      <4>3. /\ Len(blocks'[Primary]) = Len(blocks[Primary]) + 1
            /\ Len(blocks[Primary]) \in Nat
        BY <2>1, <4>2, NodeFacts
      <4>4. handlers'[Primary] \subseteq
              handlers[Primary] \cup {Len(blocks'[Primary])}
        BY <2>1, <3>2, NodeFacts DEF ChainBlock, StartListeners
      <4>5. handlers'[Primary] \subseteq 1..Len(blocks'[Primary])
        BY <1>0, <4>3, <4>4 DEF Places
      <4> QED BY <2>1, <3>1, <4>1, <4>2, <4>5, NodeFacts DEF PrimaryGrows
    <3>3. CASE CommitFails(Primary) /\ UNCHANGED <<lastBlock, handlers>>
      <4>1. blocks' = blocks
        BY <1>0, <3>3, NodeFacts, FailedCommit
      <4> QED BY <1>0, <2>1, <3>1, <3>3, <4>1, NodeFacts
              DEF PrimaryGrows, Places
    <3> QED BY <2>2, <3>2, <3>3 DEF DoSequenceWork, b
  <2>3. CASE ReceiveTx(Primary)
    BY <1>0, <2>1, <2>3, NodeFacts DEF ReceiveTx, PrimaryGrows, Places, dbVars
  <2>4. CASE \E tx \in Tx : Sequence(Primary, tx)
    BY <1>0, <2>1, <2>4, NodeFacts
       DEF Sequence, PrimaryGrows, Places, dbVars, loopVars
  <2> QED BY <1>1, <2>2, <2>3, <2>4
<1>5. Places'
  BY <1>0, <1>4 DEF Places
<1>6. \A r \in Replica : Known(r)' = Known(r)
  BY <1>0, <1>4 DEF Known, netVars
<1>7. network' = network
  BY <1>0 DEF netVars
<1>8. Effect
  BY <1>4, <1>6, <1>7 DEF Effect
<1> QED BY <1>2, <1>3, <1>5, <1>8

LEMMA ReplicaStepH ==
  ASSUME HInv, NEW r \in Replica, CoreStep(r)
  PROVE  IInv' /\ NetTypeOK' /\ Places' /\ Effect
<1>0. /\ IInv /\ TypeOK /\ NetTypeOK /\ Places /\ netVars' = netVars
      /\ r \in Node /\ r # Primary
  BY NodeFacts DEF HInv, IInv, CoreStep
<1>1. HandlesBlock(r)
  <2>1. phase[r] # "sequence" /\ sequenceTxs[r] = << >>
    BY <1>0 DEF Places
  <2> QED BY <1>0, <2>1, NodeFacts
          DEF CoreStep, LoopStep, HandlesBlock, DoSequenceWork, ReceiveTx,
              Sequence
<1>2. IInv'
  BY <1>0, <1>1, LoopStepIInv DEF HandlesBlock, LoopStep
<1>3. NetTypeOK' /\ network' = network /\ buffer' = buffer
  BY <1>0 DEF NetTypeOK, netVars
<1>4. handlers' = handlers /\ sequenceTxs' = sequenceTxs
  BY <1>1 DEF HandlesBlock, DrainOne, DrainEnds, DoProcessBlock
<1>5. \A q \in Replica : Known(q)' \subseteq Known(q)
  BY <1>0, <1>1, <1>3, NodeFacts, HandledStash DEF Known
<1>6. \/ blocks' = blocks
      \/ \E b \in Known(r) : SignedByOperator(b) /\ Extends(r, b)
  BY <1>0, <1>1, HandledLog DEF LogUnchanged, Known
<1>7. /\ blocks'[Primary] = blocks[Primary]
      /\ \A q \in Replica :
           \/ blocks'[q] = blocks[q]
           \/ \E b \in Known(q) :
                SignedByOperator(b) /\ blocks'[q] = Append(blocks[q], b)
  <2>1. ASSUME NEW b, Extends(r, b)
        PROVE  /\ blocks'[r] = Append(blocks[r], b)
               /\ \A n \in Node : n # r => blocks'[n] = blocks[n]
    BY <1>0, <2>1 DEF Extends, TypeOK
  <2> QED BY <1>0, <1>6, <2>1, NodeFacts
<1>8. Places'
  <2>1. \A n \in Node : /\ phase'[n] \in {phase[n], "select", "process"}
                        /\ n # r => phase'[n] = phase[n]
    BY <1>0, <1>1, HandledStash
  <2> QED BY <1>0, <1>4, <1>7, <2>1, NodeFacts DEF Places
<1>9. Effect
  BY <1>3, <1>5, <1>7 DEF Effect, PrimaryGrows
<1> QED BY <1>2, <1>3, <1>8, <1>9

LEMMA GossipStepH ==
  ASSUME HInv, NEW row \in handlers[Primary], GossipNewBlock(row)
  PROVE  IInv' /\ NetTypeOK' /\ Places' /\ Effect
<1> DEFINE b == blocks[Primary][row]
<1>0. /\ IInv /\ TypeOK /\ NetTypeOK /\ Places /\ RunListener(Primary, row)
  BY DEF HInv, IInv, GossipNewBlock
<1>1. IInv'
  BY <1>0, NodeFacts, RunListenerIInv
<1>2. /\ blocks' = blocks /\ unprocessed' = unprocessed /\ cur' = cur
      /\ phase' = phase /\ sequenceTxs' = sequenceTxs /\ buffer' = buffer
      /\ handlers'[Primary] \subseteq handlers[Primary]
      /\ network' \subseteq network \cup {[num |-> row, block |-> b]}
  BY <1>0, NodeFacts
     DEF RunListener, GossipNewBlock, dbVars, loopVars, TypeOK
<1>3. row \in 1..Len(blocks[Primary]) /\ row \in Nat
  BY <1>0 DEF Places
<1>4. b \in Block /\ Committed(b)
  BY <1>0, <1>3, NodeFacts DEF TypeOK, Committed
<1>5. NetTypeOK'
  BY <1>0, <1>3, <1>4, GossipTypes
<1>6. Places'
  BY <1>0, <1>2 DEF Places
<1>7. \A r \in Replica : Known(r)' = Known(r)
  BY <1>2 DEF Known
<1>8. Effect
  BY <1>2, <1>4, <1>7 DEF Effect, PrimaryGrows
<1> QED BY <1>1, <1>5, <1>6, <1>8

LEMMA ArriveStepH ==
  ASSUME HInv, NEW r \in Replica, NEW m \in network, Arrive(r, m)
  PROVE  IInv' /\ NetTypeOK' /\ Places' /\ Effect
<1>0. /\ IInv /\ NetTypeOK /\ Places
      /\ UNCHANGED vars /\ network' = network /\ losses' = losses
      /\ unpublished' = unpublished
      /\ seen' = [seen EXCEPT ![r] = @ \cup {m}]
      /\ buffer' = IF Len(buffer[r]) < SubCap
                   THEN [buffer EXCEPT ![r] = Append(@, m.block)]
                   ELSE buffer
  BY DEF HInv, Arrive
<1>1. m.block \in Block /\ buffer \in [Replica -> Seq(Block)]
      /\ seen \in [Replica -> SUBSET Message] /\ m \in Message
  BY <1>0 DEF NetTypeOK, Message
<1>2. buffer' \in [Replica -> Seq(Block)]
  BY <1>0, <1>1
<1>3. NetTypeOK'
  BY <1>0, <1>1, <1>2 DEF NetTypeOK
<1>4. IInv' /\ Places'
  BY <1>0, StutterIInv DEF vars, Places
<1>5. ASSUME NEW q \in Replica, NEW b \in Known(q)'
      PROVE  b \in Known(q) \/ b = m.block
  <2>1. \A i \in DOMAIN buffer'[q] :
          \/ i \in DOMAIN buffer[q] /\ buffer'[q][i] = buffer[q][i]
          \/ buffer'[q][i] = m.block
    <3>1. CASE buffer'[q] = buffer[q]
      BY <3>1
    <3>2. CASE buffer'[q] = Append(buffer[q], m.block)
      BY <1>1, <3>2
    <3> QED BY <1>0, <1>1, <3>1, <3>2
  <2> QED BY <1>0, <2>1 DEF Known, vars
<1>6. Effect
  BY <1>0, <1>5 DEF Effect, PrimaryGrows, vars
<1> QED BY <1>3, <1>4, <1>6

LEMMA ListenStepH ==
  ASSUME HInv, NEW r \in Replica, ListenForNewBlocks(r)
  PROVE  IInv' /\ NetTypeOK' /\ Places' /\ Effect
<1>0. /\ r \in Node /\ r # Primary
      /\ IInv /\ TypeOK /\ NetTypeOK /\ Places
      /\ buffer[r] # << >> /\ ReceiveBlock(r, Head(buffer[r]))
      /\ buffer' = [buffer EXCEPT ![r] = Tail(@)]
      /\ network' = network /\ seen' = seen /\ losses' = losses
      /\ unpublished' = unpublished
  BY NodeFacts DEF HInv, IInv, ListenForNewBlocks
<1>1. /\ buffer \in [Replica -> Seq(Block)] /\ buffer[r] \in Seq(Block)
      /\ Head(buffer[r]) \in Block /\ Tail(buffer[r]) \in Seq(Block)
      /\ 1 \in DOMAIN buffer[r] /\ Head(buffer[r]) = buffer[r][1]
  BY <1>0 DEF NetTypeOK
<1>2. IInv'
  BY <1>0, <1>1, ReceiveBlockIInv
<1>3. /\ blocks' = blocks /\ unprocessed' = unprocessed
      /\ cur' = [cur EXCEPT ![r] = Head(buffer[r])]
      /\ phase' = [phase EXCEPT ![r] = "drain"]
      /\ handlers' = handlers /\ sequenceTxs' = sequenceTxs
  BY <1>0 DEF ReceiveBlock, dbVars
<1>4. Places'
  BY <1>0, <1>3, NodeFacts DEF Places, TypeOK
<1>5. NetTypeOK'
  BY <1>0, <1>1 DEF NetTypeOK
<1>6. ASSUME NEW q \in Replica PROVE Known(q)' \subseteq Known(q)
  <2>1. CASE q # r
    BY <1>0, <1>1, <1>3, <2>1, NodeFacts DEF Known, TypeOK
  <2>2. CASE q = r
    <3>1. buffer'[r] = Tail(buffer[r])
      BY <1>0, <1>1
    <3>2. \A i \in DOMAIN buffer'[r] :
            i + 1 \in DOMAIN buffer[r] /\ buffer'[r][i] = buffer[r][i + 1]
      BY <1>0, <1>1, <3>1
    <3>3. cur'[r] = buffer[r][1]
      BY <1>0, <1>1, <1>3 DEF TypeOK
    <3> QED BY <1>1, <1>3, <2>2, <3>2, <3>3 DEF Known
  <2> QED BY <2>1, <2>2
<1>7. Effect
  BY <1>0, <1>3, <1>6 DEF Effect, PrimaryGrows
<1> QED BY <1>2, <1>4, <1>5, <1>7

(* Any process may start again; its own table stays.                       *)
LEMMA RestartStepH ==
  ASSUME HInv, NEW n \in Node, Restart(n), network' = network,
         losses' = losses, unpublished' = unpublished,
         \/ n = Primary /\ seen' = seen /\ buffer' = buffer
         \/ n \in Replica /\ RestartReplica(n)
  PROVE  IInv' /\ NetTypeOK' /\ Places' /\ Effect
<1>0. IInv /\ TypeOK /\ NetTypeOK /\ Places
  BY DEF HInv, IInv
<1>1. IInv'
  BY <1>0, RestartIInv
<1>2. /\ blocks' = blocks
      /\ unprocessed' = [unprocessed EXCEPT ![n] = {}]
      /\ cur' = [cur EXCEPT ![n] = NoBlock]
      /\ phase' = [phase EXCEPT ![n] = "select"]
      /\ handlers' = [handlers EXCEPT ![n] = {}]
      /\ sequenceTxs' = [sequenceTxs EXCEPT ![n] = << >>]
  BY DEF Restart, CreateTables
<1>3. Places'
  BY <1>0, <1>2, NodeFacts DEF Places, TypeOK
<1>4. /\ seen' \in [Replica -> SUBSET Message]
      /\ buffer' \in [Replica -> Seq(Block)]
      /\ \A r \in Replica : buffer'[r] \in {buffer[r], << >>}
  <2>1. CASE seen' = seen /\ buffer' = buffer
    BY <1>0, <2>1 DEF NetTypeOK
  <2>2. CASE n \in Replica /\ RestartReplica(n)
    <3>1. PICK kept \in SUBSET seen[n] : seen' = [seen EXCEPT ![n] = kept]
      BY <2>2 DEF RestartReplica
    <3>2. buffer' = [buffer EXCEPT ![n] = << >>]
      BY <2>2 DEF RestartReplica
    <3> QED BY <1>0, <2>2, <3>1, <3>2 DEF NetTypeOK
  <2> QED BY <2>1, <2>2
<1>5. NetTypeOK'
  BY <1>0, <1>4 DEF NetTypeOK
<1>6. \A r \in Replica : Known(r)' \subseteq Known(r)
  BY <1>0, <1>2, <1>4, NodeFacts, SMTT(30) DEF Known, TypeOK
<1>7. Effect
  BY <1>2, <1>6 DEF Effect, PrimaryGrows
<1> QED BY <1>1, <1>3, <1>5, <1>7

LEMMA IdleStepH ==
  ASSUME HInv,
         \/ Tick /\ UNCHANGED netVars
         \/ \E r \in Replica : \E m \in network : Lose(r, m)
         \/ UNCHANGED allVars
  PROVE  IInv' /\ NetTypeOK' /\ Places' /\ Effect
<1>0. IInv /\ NetTypeOK /\ Places
  BY DEF HInv
<1>1. IInv'
  BY <1>0, TickIInv, StutterIInv DEF Lose, allVars
<1>2. /\ blocks' = blocks /\ unprocessed' = unprocessed
      /\ cur' = cur /\ phase' = phase /\ handlers' = handlers
      /\ sequenceTxs' = sequenceTxs
      /\ network' = network /\ buffer' = buffer
  BY DEF Tick, Lose, allVars, vars, netVars, dbVars, loopVars
<1>3. NetTypeOK'
  <2>1. CASE UNCHANGED netVars
    BY <1>0, <2>1 DEF NetTypeOK, netVars
  <2>2. ASSUME NEW r \in Replica, NEW m \in network, Lose(r, m)
        PROVE  NetTypeOK'
    <3>1. /\ seen' \in [Replica -> SUBSET Message] /\ losses' \in Nat
          /\ unpublished' = unpublished
      BY <1>0, <2>2 DEF Lose, NetTypeOK
    <3> QED BY <1>0, <1>2, <3>1 DEF NetTypeOK
  <2> QED BY <2>1, <2>2 DEF allVars, netVars
<1>4. Places'
  BY <1>0, <1>2 DEF Places
<1>5. \A r \in Replica : Known(r)' = Known(r)
  BY <1>2 DEF Known
<1>6. Effect
  BY <1>2, <1>5 DEF Effect, PrimaryGrows
<1> QED BY <1>1, <1>3, <1>4, <1>6

THEOREM NetStepHInv == HInv /\ [NetNext]_allVars => HInv'
<1> SUFFICES ASSUME HInv, [NetNext]_allVars PROVE HInv'
  OBVIOUS
<1> DEFINE Kept == IInv' /\ NetTypeOK' /\ Places' /\ Effect
<1> SUFFICES Kept
  BY EffectKeeps DEF HInv
<1>1. CASE \E n \in Node : CoreStep(n)
  BY <1>1, PrimaryStepH, ReplicaStepH DEF Replica
<1>2. CASE Tick /\ UNCHANGED netVars
  BY <1>2, IdleStepH
<1>3. CASE RestartPrimary
  <2>1. /\ Restart(Primary) /\ network' = network /\ losses' = losses
        /\ seen' = seen /\ buffer' = buffer /\ unpublished' = unpublished
    BY <1>3 DEF RestartPrimary, netVars
  <2> QED BY <2>1, NodeFacts, RestartStepH
<1>4. CASE \E row \in handlers[Primary] : GossipNewBlock(row)
  BY <1>4, GossipStepH
<1>5. ASSUME NEW r \in Replica, NEW m \in network, Arrive(r, m) PROVE Kept
  BY <1>5, ArriveStepH
<1>6. ASSUME NEW r \in Replica, NEW m \in network, Lose(r, m) PROVE Kept
  BY <1>6, IdleStepH
<1>7. ASSUME NEW r \in Replica, ListenForNewBlocks(r) PROVE Kept
  BY <1>7, ListenStepH
<1>8. ASSUME NEW r \in Replica, RestartReplica(r) PROVE Kept
  <2>1. /\ r \in Node /\ Restart(r) /\ network' = network
        /\ losses' = losses /\ unpublished' = unpublished
    BY <1>8, NodeFacts DEF RestartReplica
  <2> QED BY <1>8, <2>1, RestartStepH
<1>9. CASE UNCHANGED allVars
  BY <1>9, IdleStepH
<1> QED BY <1>1, <1>2, <1>3, <1>4, <1>5, <1>6, <1>7, <1>8, <1>9 DEF NetNext

THEOREM NetDurableInvariant == NetSpec => []HInv
BY NetInitHInv, NetStepHInv, PTL DEF NetSpec

(* What is published, on its way, queued or noticed has its type.          *)
THEOREM NetTypes == NetSpec => []NetTypeOK
<1>1. HInv => NetTypeOK
  BY DEF HInv
<1> QED BY <1>1, NetDurableInvariant, PTL

(* Every block with the operator's signature that is on the network, and   *)
(* every block in a replica's table, is in the primary's table: the commit *)
(* precedes the listeners (core.go:562), so no crash of the primary takes  *)
(* back what has left it, even one after which it signs a second history.  *)
THEOREM DurableAlways == NetSpec => []Durable
<1>1. HInv => Durable
  BY DEF HInv
<1> QED BY <1>1, NetDurableInvariant, PTL

(* The rows that a node of the network has written since it was started    *)
(* are one hash chain, on the primary and on every replica.                *)
THEOREM NetLogChained == NetSpec => []LogChained
<1>1. HInv => LogChained
  BY DEF HInv, IInv
<1> QED BY <1>1, NetDurableInvariant, PTL
=============================================================================
