---------------------------- MODULE P2PProtocol ----------------------------
(***************************************************************************)
(* sequencer/p2pv2.go: the stream protocol meant to replace pubsub.        *)
(*                                                                         *)
(* Each host has one goroutine, processLoop(), that selects between two    *)
(* buffered channels: messages read from other peers (incoming) and        *)
(* messages to send (sendMsg).  To send is to open a stream to each entry  *)
(* of the list of peers.  At the other end each stream has a goroutine of  *)
(* its own, handleNewStream(), that reads it.                              *)
(*                                                                         *)
(* Streams belong to a library.  A stream is reliable until one end resets *)
(* it or its host closes; what is unread by then is gone.                  *)
(*                                                                         *)
(* A definition whose name starts with Mutant is a plausible fault of the  *)
(* definition that follows it.                                             *)
(***************************************************************************)
EXTENDS Integers, Sequences, FiniteSets

CONSTANTS
  Node,        \* hosts
  MaxGossip,   \* bound: MaxGossip[n] blocks are gossiped by n
  Bootstrap,   \* Bootstrap[n]: the peers n is started with, in order
  Unreadable,  \* <<n, k>>: the k-th block of n does not decode, or is longer
               \* than DefaultMaxMessageSize, which only the reader checks
  IncomingCap, \* capacity of incoming (32 in the code)
  SendCap,     \* capacity of sendMsg (32 in the code)
  MaxStreams,  \* bound: streams; the library refuses to open more
  MaxFailures, \* bound: streams that fail to open or to be written
  MaxClosed    \* bound: hosts that close

ASSUME P2PProtocolAssumption ==
  /\ MaxGossip \in [Node -> Nat]
  /\ Bootstrap \in [Node -> Seq(Node)]
  /\ Unreadable \subseteq Node \X (Nat \ {0})
  /\ {IncomingCap, SendCap} \subseteq Nat \ {0}
  /\ {MaxStreams, MaxFailures, MaxClosed} \subseteq Nat

VARIABLES
  \* the memory of P2PProtocol
  peers,       \* peers[n]: the list of peers, with repetitions
  toAdd,       \* bootstrap peers the constructor has not added yet
  inbound,     \* inboundStreams[n][m]: a stream, 0 when there is none
  incoming,    \* the channel; a message is named by the stream it came on
  sendMsg,     \* the channel
  listening,   \* newBlockHandler is set
  loop,        \* where processLoop stands
  \* the world
  parked,      \* callers of GossipNewBlock waiting for room, first come first
  streams,     \* all streams, in the order in which they were opened
  closed,      \* hosts that have closed
  failures,    \* failures so far
  \* history
  gossiped,    \* how many blocks GossipNewBlock was called with
  handled,     \* streams whose message newBlockHandler has processed
  ignored      \* streams whose message came before there was a handler

chanVars  == <<incoming, sendMsg, parked, gossiped>>
peerVars  == <<peers, toAdd>>
worldVars == <<closed, failures>>
vars == <<peers, toAdd, inbound, incoming, sendMsg, listening, loop, parked,
          streams, closed, failures, gossiped, handled, ignored>>

\* A block is named by its place among those that its host gossips.
Msg   == Nat \ {0}
NoMsg == 0

StreamId == DOMAIN streams

\* reader: the goroutine of handleNewStream has not run yet, is in ReadMsg,
\* holds a message for the channel incoming, or has returned.
Stream == [from : Node, to : Node, msg : Msg \cup {NoMsg},
           unread : BOOLEAN, reset : BOOLEAN,
           reader : {"spawned", "reading", "holding", "gone"}]

Loop == [at : {"select"}]
          \cup [at : {"send"}, msg : Msg, todo : Seq(Node)]
          \cup [at : {"handle"}, stream : 1..MaxStreams]

TypeOK ==
  /\ peers \in [Node -> Seq(Node)] /\ toAdd \in [Node -> Seq(Node)]
  /\ inbound \in [Node -> [Node -> 0..MaxStreams]]
  /\ incoming \in [Node -> Seq(1..MaxStreams)]
  /\ \A n \in Node : Len(incoming[n]) <= IncomingCap /\ Len(sendMsg[n]) <= SendCap
  /\ sendMsg \in [Node -> Seq(Msg)]
  /\ listening \in [Node -> BOOLEAN]
  /\ loop \in [Node -> Loop]
  /\ parked \in [Node -> Seq(Msg)] /\ gossiped \in [Node -> Nat]
  /\ streams \in Seq(Stream) /\ Len(streams) <= MaxStreams
  /\ closed \subseteq Node /\ failures \in Nat
  /\ handled \in SUBSET (1..MaxStreams) /\ ignored \in SUBSET (1..MaxStreams)

(* NewP2PProtocol starts processLoop and the stream handler is set before  *)
(* a peer is added; ListenForNewBlocks comes later.                        *)
Init ==
  /\ peers = [n \in Node |-> << >>]
  /\ toAdd = Bootstrap
  /\ inbound = [n \in Node |-> [m \in Node |-> 0]]
  /\ incoming = [n \in Node |-> << >>]
  /\ sendMsg = [n \in Node |-> << >>]
  /\ listening = [n \in Node |-> FALSE]
  /\ loop = [n \in Node |-> [at |-> "select"]]
  /\ parked = [n \in Node |-> << >>]
  /\ streams = << >>
  /\ closed = {} /\ failures = 0
  /\ gossiped = [n \in Node |-> 0]
  /\ handled = {} /\ ignored = {}

-----------------------------------------------------------------------------
(* NewP2PNode2 and its methods.                                            *)

\* A goroutine of handleNewStream is about to append to peers[n].
Registering(n) == \E s \in StreamId :
  streams[s].to = n /\ streams[s].reader = "spawned"

(* The constructor adds a bootstrap peer, whether or not it is connected;  *)
(* it takes no lock, so the append of a stream handler may overwrite its.  *)
AddPeer(n) ==
  /\ toAdd[n] # << >>
  /\ toAdd' = [toAdd EXCEPT ![n] = Tail(@)]
  /\ \/ peers' = [peers EXCEPT ![n] = Append(@, Head(toAdd[n]))]
     \/ Registering(n) /\ UNCHANGED peers
  /\ UNCHANGED <<inbound, chanVars, listening, loop, streams, worldVars,
                 handled, ignored>>

ListenForNewBlocks(n) ==
  /\ toAdd[n] = << >> /\ ~listening[n]
  /\ listening' = [listening EXCEPT ![n] = TRUE]
  /\ UNCHANGED <<peerVars, inbound, chanVars, loop, streams, worldVars,
                 handled, ignored>>

\* A caller arrives at the send of publishBlock, once NewP2PNode2 is done.
GossipNewBlock(n) ==
  /\ toAdd[n] = << >> /\ gossiped[n] < MaxGossip[n]
  /\ gossiped' = [gossiped EXCEPT ![n] = @ + 1]
  /\ parked' = [parked EXCEPT ![n] = Append(@, gossiped'[n])]
  /\ UNCHANGED <<peerVars, inbound, incoming, sendMsg, listening, loop,
                 streams, worldVars, handled, ignored>>

PublishBlock(n) ==
  /\ parked[n] # << >> /\ Len(sendMsg[n]) < SendCap
  /\ parked' = [parked EXCEPT ![n] = Tail(@)]
  /\ sendMsg' = [sendMsg EXCEPT ![n] = Append(@, Head(parked[n]))]
  /\ UNCHANGED <<peerVars, inbound, incoming, gossiped, listening, loop,
                 streams, worldVars, handled, ignored>>

(* The host closes and its streams with it; the context of the protocol is *)
(* never done, so processLoop goes on.                                     *)
Close(n) ==
  /\ n \notin closed /\ Cardinality(closed) < MaxClosed
  /\ closed' = closed \cup {n}
  /\ streams' = [s \in StreamId |->
                  IF n \in {streams[s].from, streams[s].to}
                  THEN [streams[s] EXCEPT !.reset = TRUE] ELSE streams[s]]
  /\ UNCHANGED <<peerVars, inbound, chanVars, listening, loop, failures,
                 handled, ignored>>

-----------------------------------------------------------------------------
(* processLoop.                                                            *)

MutantStopsOnClose(n) ==     \* the loop, but no caller, ends with its host
  /\ loop[n].at = "select" /\ sendMsg[n] # << >> /\ n \notin closed
  /\ sendMsg' = [sendMsg EXCEPT ![n] = Tail(@)]
  /\ loop' = [loop EXCEPT ![n] =
               [at |-> "send", msg |-> Head(sendMsg[n]), todo |-> peers[n]]]
  /\ UNCHANGED <<peerVars, inbound, incoming, parked, gossiped, listening,
                 streams, worldVars, handled, ignored>>

TakeSendMsg(n) ==
  /\ loop[n].at = "select" /\ sendMsg[n] # << >>
  /\ sendMsg' = [sendMsg EXCEPT ![n] = Tail(@)]
  /\ loop' = [loop EXCEPT ![n] =
               [at |-> "send", msg |-> Head(sendMsg[n]), todo |-> peers[n]]]
  /\ UNCHANGED <<peerVars, inbound, incoming, parked, gossiped, listening,
                 streams, worldVars, handled, ignored>>

NextPeer(n) == loop' = [loop EXCEPT ![n].todo = Tail(@)]

Open(n, peer, msg) ==
  /\ Len(streams) < MaxStreams /\ {n, peer} \cap closed = {}
  /\ streams' = Append(streams,
       [from |-> n, to |-> peer, msg |-> msg, unread |-> msg # NoMsg,
        reset |-> FALSE, reader |-> "spawned"])

(* A new stream for the next peer.  Nobody closes it: it stays open when   *)
(* the message has been flushed, and when writing it has failed.  An error *)
(* is printed, and the next peer gets its turn.                            *)
SendMessage(n) ==
  /\ loop[n].at = "send" /\ loop[n].todo # << >>
  /\ LET peer == Head(loop[n].todo)
     IN  \/ Open(n, peer, loop[n].msg) /\ UNCHANGED failures
         \/ /\ failures < MaxFailures /\ failures' = failures + 1
            /\ Open(n, peer, NoMsg) \/ UNCHANGED streams
         \/ /\ Len(streams) = MaxStreams \/ {n, peer} \cap closed # {}
            /\ UNCHANGED <<streams, failures>>
  /\ NextPeer(n)
  /\ UNCHANGED <<peerVars, inbound, chanVars, listening, closed, handled,
                 ignored>>

SendEnds(n) ==
  /\ loop[n].at = "send" /\ loop[n].todo = << >>
  /\ loop' = [loop EXCEPT ![n] = [at |-> "select"]]
  /\ UNCHANGED <<peerVars, inbound, chanVars, listening, streams, worldVars,
                 handled, ignored>>

\* recvMessage drops the message if there is no handler yet.
TakeIncoming(n) ==
  /\ loop[n].at = "select" /\ incoming[n] # << >>
  /\ incoming' = [incoming EXCEPT ![n] = Tail(@)]
  /\ \/ /\ listening[n]
        /\ loop' = [loop EXCEPT ![n] = [at |-> "handle", stream |-> Head(incoming[n])]]
        /\ UNCHANGED ignored
     \/ /\ ~listening[n]
        /\ ignored' = ignored \cup {Head(incoming[n])}
        /\ UNCHANGED loop
  /\ UNCHANGED <<peerVars, inbound, sendMsg, parked, gossiped, listening,
                 streams, worldVars, handled>>

\* The handler, which waits for the core to receive the block, returns.
HandlerReturns(n) ==
  /\ loop[n].at = "handle"
  /\ handled' = handled \cup {loop[n].stream}
  /\ loop' = [loop EXCEPT ![n] = [at |-> "select"]]
  /\ UNCHANGED <<peerVars, inbound, chanVars, listening, streams, worldVars,
                 ignored>>

LoopStep(n) == SendMessage(n) \/ SendEnds(n) \/ HandlerReturns(n)

-----------------------------------------------------------------------------
(* handleNewStream.                                                        *)

\* The stream takes the place of another one of its peer, which is reset.
TakeOver(s) ==
  LET other == inbound[streams[s].to][streams[s].from]
  IN  streams' = [t \in StreamId |->
                   IF t = s THEN [streams[t] EXCEPT !.reader = "reading"]
                   ELSE IF t = other THEN [streams[t] EXCEPT !.reset = TRUE]
                   ELSE streams[t]]

(* Under the lock of inboundStreams.  Each stream adds its peer to the list*)
(* once more, unless AddPeer, which takes no lock, overwrites it.          *)
Register(s) ==
  /\ streams[s].reader = "spawned"
  /\ TakeOver(s)
  /\ LET n == streams[s].to
         m == streams[s].from
     IN  /\ inbound' = [inbound EXCEPT ![n][m] = s]
         /\ \/ peers' = [peers EXCEPT ![n] = Append(@, m)]
            \/ toAdd[n] # << >> /\ UNCHANGED peers
  /\ UNCHANGED <<toAdd, chanVars, listening, loop, worldVars, handled, ignored>>

\* ReadMsg refuses what was written: a block that is too long or does not
\* decode, or what a write that failed has left of one.
Refused(s) == \/ streams[s].msg = NoMsg
              \/ <<streams[s].from, streams[s].msg>> \in Unreadable

ReadMsg(s) ==
  /\ streams[s].reader = "reading" /\ ~streams[s].reset
  /\ streams[s].unread /\ ~Refused(s)
  /\ streams' = [streams EXCEPT ![s].reader = "holding", ![s].unread = FALSE]
  /\ UNCHANGED <<peerVars, inbound, chanVars, listening, loop, worldVars,
                 handled, ignored>>

MutantDropWhenFull(s) ==     \* select with a default
  LET n == streams[s].to
  IN  incoming' = IF Len(incoming[n]) < IncomingCap
                  THEN [incoming EXCEPT ![n] = Append(@, s)] ELSE incoming

MutantNoLimit(s) ==          \* a queue without a limit
  incoming' = [incoming EXCEPT ![streams[s].to] = Append(@, s)]

\* p.incoming <- msg: waits for room.
HandOver(s) ==
  /\ Len(incoming[streams[s].to]) < IncomingCap
  /\ incoming' = [incoming EXCEPT ![streams[s].to] = Append(@, s)]

Deliver(s) ==
  /\ streams[s].reader = "holding"
  /\ HandOver(s)
  /\ streams' = [streams EXCEPT ![s].reader = "reading"]
  /\ UNCHANGED <<peerVars, inbound, sendMsg, parked, gossiped, listening, loop,
                 worldVars, handled, ignored>>

MutantDeleteAny(s) ==        \* whatever stream is there
  inbound' = [inbound EXCEPT ![streams[s].to][streams[s].from] = 0]

\* The deferred function: only if the entry is still this stream's.
Unregister(s) ==
  inbound' = [inbound EXCEPT ![streams[s].to][streams[s].from] =
               IF @ = s THEN 0 ELSE @]

\* An error resets the stream and ends its goroutine: the peer is read again
\* only when it opens another one.
ReadFails(s) ==
  /\ streams[s].reader = "reading"
  /\ streams[s].reset \/ Refused(s)
  /\ streams' = [streams EXCEPT ![s].reader = "gone", ![s].reset = TRUE]
  /\ Unregister(s)
  /\ UNCHANGED <<peerVars, chanVars, listening, loop, worldVars, handled,
                 ignored>>

HandleNewStream(s) == Register(s) \/ ReadMsg(s) \/ Deliver(s) \/ ReadFails(s)

-----------------------------------------------------------------------------
Next ==
  \/ \E n \in Node :
       \/ AddPeer(n) \/ ListenForNewBlocks(n) \/ Close(n)
       \/ GossipNewBlock(n) \/ PublishBlock(n)
       \/ TakeSendMsg(n) \/ TakeIncoming(n) \/ LoopStep(n)
  \/ \E s \in StreamId : HandleNewStream(s)

Spec == Init /\ [][Next]_vars

\* What the goroutines of host n do by themselves.
HostStep(n) ==
  \/ PublishBlock(n) \/ TakeSendMsg(n) \/ TakeIncoming(n) \/ LoopStep(n)
  \/ \E s \in StreamId : streams[s].to = n /\ HandleNewStream(s)

(* Some goroutine that can run does, on every host; the library's calls and*)
(* the handler return.  Nobody need gossip, listen, add a peer or close.   *)
Fairness == \A n \in Node : WF_vars(HostStep(n))

FairSpec == Spec /\ Fairness

-----------------------------------------------------------------------------
(* Safety.                                                                 *)

Running(s) == streams[s].reader \in {"reading", "holding"}

(* Of the streams of one peer only the one in inboundStreams is read; the  *)
(* others have been reset, in whatever order their goroutines started and  *)
(* ended.  A stream that was missing there would never be reset again.     *)
OneReader ==
  /\ \A s \in StreamId : Running(s) /\ ~streams[s].reset =>
       inbound[streams[s].to][streams[s].from] = s
  /\ \A n, m \in Node : inbound[n][m] # 0 => Running(inbound[n][m])

\* The places, other than the channel, where the message of a stream may be.
Holds(place, s) ==
  \/ place = "reader" /\ streams[s].reader = "holding"
  \/ place = "loop" /\ loop[streams[s].to] = [at |-> "handle", stream |-> s]
  \/ place = "handled" /\ s \in handled
  \/ place = "ignored" /\ s \in ignored

Copies(s) ==
  LET channel == incoming[streams[s].to]
  IN  Cardinality({k \in DOMAIN channel : channel[k] = s})
        + Cardinality({place \in {"reader", "loop", "handled", "ignored"} :
                         Holds(place, s)})

(* A message that has been read is in exactly one place until the handler  *)
(* has had it, or there was none: a full channel, a reset or the closing of*)
(* the host neither loses nor repeats it.                                  *)
NothingVanishes == \A s \in StreamId :
  Copies(s) =
    IF streams[s].msg # NoMsg /\ ~streams[s].unread THEN 1 ELSE 0

-----------------------------------------------------------------------------
(* Liveness.                                                               *)

(* In the end no caller of GossipNewBlock waits for room in sendMsg:       *)
(* processLoop, which alone drains both channels, is kept from that neither*)
(* by peers that fail nor by peers that send to it meanwhile.              *)
PublishReturns == <>[](\A n \in Node : parked[n] = << >>)

\* What may end a stream with its message unread: the reader refuses it, a
\* host closes, or another stream of the same peer takes its place.
Cut(s) ==
  /\ streams[s].reset /\ streams[s].unread
  /\ \/ Refused(s)
     \/ {streams[s].from, streams[s].to} \cap closed # {}
     \/ \E t \in StreamId \ {s} :
          /\ streams[t].from = streams[s].from /\ streams[t].to = streams[s].to
          /\ streams[t].reader # "spawned"

(* In the end a message that was flushed into a stream has been handled, or*)
(* came before there was a handler, or was cut off unread: every message   *)
(* has a stream of its own, and the next one of the peer may reset it; a   *)
(* host may close; and a message the reader refuses was sent all the same  *)
(* (p2pv2.go:164-166, 175-190, 255-259).  Nothing else loses it, and what  *)
(* one stream was refused for does no harm to the others.                  *)
FlushedIsHandled == <>[](\A s \in StreamId :
  streams[s].msg # NoMsg => Cut(s) \/ s \in handled \cup ignored)
=============================================================================
