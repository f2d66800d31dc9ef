---------------------------- MODULE Replication ----------------------------
(***************************************************************************)
(* A sequencer network: one primary that chains blocks and gossips them,   *)
(* and replicas that process what the gossip brings (sequencer/node.go     *)
(* wires SequencerCore to P2PNode of sequencer/p2p.go).                    *)
(*                                                                         *)
(* The pubsub network is a library.  It takes a published message to every *)
(* subscriber at most once while the subscriber's process lives, in any    *)
(* order, may lose it, and drops it when the subscription's buffer is full.*)
(***************************************************************************)
EXTENDS SequencerCore

CONSTANTS
  Primary,     \* the node in primary mode
  Stray,       \* blocks that other users of the topic have published
  SubCap,      \* capacity of a subscription (10000 in the code)
  MaxLosses,   \* bound: messages lost on the way
  MaxUnpublished \* bound: calls of Publish that fail

Replica == Node \ {Primary}

ASSUME ReplicationAssumption ==
  /\ Primary \in Node
  /\ KeyOf[Primary] = Operator
  /\ \A r \in Replica : KeyOf[r] = NoSig
  /\ Listening = {Primary}
  /\ Stray \subseteq Block
  /\ \A b \in Stray : b.sig # Operator   \* signatures are not forged
  /\ {SubCap, MaxLosses, MaxUnpublished} \subseteq Nat

VARIABLES
  network,     \* published messages
  seen,        \* seen[r]: messages the pubsub of r has taken in or lost
  buffer,      \* buffer[r]: the subscription of r
  losses,      \* messages lost so far
  unpublished  \* history: rows of the primary whose Publish has failed

netVars == <<network, seen, buffer, losses, unpublished>>
allVars == <<vars, network, seen, buffer, losses, unpublished>>

\* A message: a block under the number of its publication, 0 for a stray one.
Message == [num : Nat, block : Block]

NetTypeOK ==
  /\ network \in SUBSET Message
  /\ seen \in [Replica -> SUBSET Message]
  /\ buffer \in [Replica -> Seq(Block)]
  /\ losses \in Nat
  /\ unpublished \in SUBSET Nat

NetInit ==
  /\ Init
  /\ network = {[num |-> 0, block |-> b] : b \in Stray}
  /\ seen = [r \in Replica |-> {}]
  /\ buffer = [r \in Replica |-> << >>]
  /\ losses = 0 /\ unpublished = {}

-----------------------------------------------------------------------------
(* The primary's listener publishes the block it was started for; the      *)
(* goroutines of several blocks publish in any order.  An error of Publish *)
(* is printed, and the block is never published.                           *)
GossipNewBlock(row) ==
  /\ RunListener(Primary, row)
  /\ \/ /\ network' =
               network \cup {[num |-> row, block |-> blocks[Primary][row]]}
        /\ UNCHANGED unpublished
     \/ /\ Cardinality(unpublished) < MaxUnpublished
        /\ unpublished' = unpublished \cup {row}
        /\ UNCHANGED network
  /\ UNCHANGED <<seen, buffer, losses>>

(* The network hands a message to the pubsub of r, which queues it for the *)
(* subscriber, or drops it when the subscriber is too slow.                *)
Arrive(r, m) ==
  /\ m \in network \ seen[r]
  /\ seen' = [seen EXCEPT ![r] = @ \cup {m}]
  /\ buffer' = IF Len(buffer[r]) < SubCap
               THEN [buffer EXCEPT ![r] = Append(@, m.block)]
               ELSE buffer
  /\ UNCHANGED <<vars, network, losses, unpublished>>

Lose(r, m) ==
  /\ m \in network \ seen[r]
  /\ losses < MaxLosses
  /\ losses' = losses + 1
  /\ seen' = [seen EXCEPT ![r] = @ \cup {m}]
  /\ UNCHANGED <<vars, network, buffer, unpublished>>

(* ListenForNewBlocks: one goroutine takes the messages in turn and waits  *)
(* in ProcessBlock until the loop receives the block.                      *)
ListenForNewBlocks(r) ==
  /\ buffer[r] # << >>
  /\ ReceiveBlock(r, Head(buffer[r]))
  /\ buffer' = [buffer EXCEPT ![r] = Tail(@)]
  /\ UNCHANGED <<network, seen, losses, unpublished>>

(* A replica that starts again subscribes afresh: what it had queued is    *)
(* gone, and only what is still on its way from some peer comes again.     *)
RestartReplica(r) ==
  /\ Restart(r)
  /\ buffer' = [buffer EXCEPT ![r] = << >>]
  /\ \E kept \in SUBSET seen[r] : seen' = [seen EXCEPT ![r] = kept]
  /\ UNCHANGED <<network, losses, unpublished>>

RestartPrimary == Restart(Primary) /\ UNCHANGED netVars

CoreStep(n) ==
  /\ LoopStep(n) \/ ReceiveTx(n) \/ \E tx \in Tx : Sequence(n, tx)
  /\ UNCHANGED netVars

NetNext ==
  \/ \E n \in Node : CoreStep(n)
  \/ Tick /\ UNCHANGED netVars
  \/ RestartPrimary
  \/ \E row \in handlers[Primary] : GossipNewBlock(row)
  \/ \E r \in Replica :
       \/ \E m \in network : Arrive(r, m) \/ Lose(r, m)
       \/ ListenForNewBlocks(r)
       \/ RestartReplica(r)

NetSpec == NetInit /\ [][NetNext]_allVars

(* Goroutines that can run do; the loop serves whoever is parked; a        *)
(* message that is not lost arrives.  Nobody need ever submit anything.    *)
NetFairness ==
  /\ \A n \in Node : WF_allVars(LoopStep(n) /\ UNCHANGED netVars)
  /\ WF_allVars(ReceiveTx(Primary) /\ UNCHANGED netVars)
  /\ WF_allVars(\E row \in handlers[Primary] : GossipNewBlock(row))
  /\ \A r \in Replica :
       /\ WF_allVars(\E m \in network : Arrive(r, m))
       /\ WF_allVars(ListenForNewBlocks(r))

NetFairSpec == NetSpec /\ NetFairness

-----------------------------------------------------------------------------
(* Safety.                                                                 *)

Copied(r) == SubSeq(sequence[r], boot[r] + 1, Len(sequence[r]))

(* Whatever was lost, dropped, reordered, repeated, refused or sent by     *)
(* strangers, the blocks a replica has stored since it was started are the *)
(* first blocks of the primary's log, in order.                            *)
Mirror == \A r \in Replica : \A i \in WrittenRows(r) :
  /\ i - boot[r] <= Len(blocks[Primary])
  /\ blocks[r][i] = blocks[Primary][i - boot[r]]

(* A client that reads rows 1..k of a replica that was never restarted     *)
(* reads what the primary answers for the same rows.                       *)
ReadsAgree == \A r \in Replica : boot[r] = 0 =>
  \A k \in 1..Info(r) : Get(r, 1, k) = Get(Primary, 1, k)

(* Blocks the operator has signed and published never contradict each      *)
(* other: one transaction per height, one history per block.               *)
NoEquivocation == \A m1, m2 \in network :
  /\ SignedByOperator(m1.block) /\ SignedByOperator(m2.block)
  /\ m1.block.height = m2.block.height
  => m1.block = m2.block

(* What has been published, or copied by a replica, cannot be taken back   *)
(* by a crash of the primary: it is in the primary's table, even when a    *)
(* restarted primary signs a second history.                               *)
Committed(b) == \E j \in DOMAIN blocks[Primary] : blocks[Primary][j] = b

Durable ==
  /\ \A m \in network : SignedByOperator(m.block) => Committed(m.block)
  /\ \A r \in Replica : \A i \in DOMAIN blocks[r] : Committed(blocks[r][i])

\* b is a block of the primary's log, at the row of its height.
OfPrimary(b) ==
  b.height \in 1..Len(blocks[Primary]) /\ b = blocks[Primary][b.height]

\* The blocks replica r knows of without having stored them.
Known(r) == unprocessed[r]
              \cup {buffer[r][i] : i \in DOMAIN buffer[r]}
              \cup ({cur[r]} \ {NoBlock})

(* Every block with the operator's signature that a replica holds anywhere *)
(* is the block of that height of the primary's log.                       *)
Genuine == \A r \in Replica : \A b \in Known(r) :
  SignedByOperator(b) => OfPrimary(b)

(* The primary only sequences, a replica only processes; the listeners that*)
(* have not run yet belong to rows of the table.                           *)
Roles ==
  /\ boot[Primary] = 0
  /\ phase[Primary] \in {"select", "sequence"}
  /\ handlers[Primary] \subseteq 1..Len(blocks[Primary])
  /\ \A r \in Replica : phase[r] # "sequence" /\ sequenceTxs[r] = << >>

\* What is on the network with the operator's signature is the primary's.
Published == \A m \in network :
  SignedByOperator(m.block) => OfPrimary(m.block)

(* The log the network implements.                                         *)
Log == INSTANCE SequenceLog
         WITH log <- sequence[Primary], copy <- [r \in Replica |-> Copied(r)]
ImplementsLog == Log!Spec

-----------------------------------------------------------------------------
(* Liveness.                                                               *)

CaughtUp(r) == lastBlock[r].height = Len(blocks[Primary])

\* Every block r lacks is in its stash, or was never published.
HasTheRest(r) == \A i \in (lastBlock[r].height + 1)..Len(blocks[Primary]) :
  i \in unpublished \/ \E b \in unprocessed[r] : b.height = i

(* Once nothing is submitted any more, every replica mirrors the primary.  *)
EventuallyMirrored == <>[](\A r \in Replica : CaughtUp(r))

(* What the code achieves when nothing is lost and nobody is restarted:    *)
(* every block the primary has committed ends up in every replica, in its  *)
(* log or in its stash, unless the call that publishes it fails.           *)
EventuallyHeld == <>[](restarts > 0 \/ \A r \in Replica : HasTheRest(r))

(* A block the primary has committed is published, even though the         *)
(* goroutine that does it was started and forgotten, unless Publish fails  *)
(* for it (p2p.go:170-174: the error is printed, nothing is tried again)   *)
(* or the process was started again since (core.go:216-220).               *)
CommittedIsPublished == \A row \in 1..MaxRows :
  Len(blocks[Primary]) >= row
    ~> \/ \E m \in network : m.num = row
       \/ row \in unpublished
       \/ row <= boot[Primary]
=============================================================================
