------------------------- MODULE P2PProtocol_proofs -------------------------
(***************************************************************************)
(* Proofs about P2PProtocol: types, one reader per peer, and no message    *)
(* lost or repeated between a stream and the handler; for any hosts, any   *)
(* lists of bootstrap peers, channels of any capacity and any number of    *)
(* failures.                                                               *)
(***************************************************************************)
EXTENDS P2PProtocol, SequenceLemmas

-----------------------------------------------------------------------------
(* The strengthening.                                                      *)

AtHost(s, n) == s \in StreamId /\ streams[s].to = n

(* An entry of inboundStreams is a stream from that peer to that host.     *)
Entries ==
  \A n, m \in Node : inbound[n][m] # 0 =>
    AtHost(inbound[n][m], n) /\ streams[inbound[n][m]].from = m

(* Channels, handlers and the history name streams that lead to the host.  *)
Flow ==
  /\ \A s \in StreamId : streams[s].unread => streams[s].msg # NoMsg
  /\ \A n \in Node : \A k \in DOMAIN incoming[n] : AtHost(incoming[n][k], n)
  /\ \A n \in Node : loop[n].at = "handle" => AtHost(loop[n].stream, n)
  /\ handled \cup ignored \subseteq StreamId

ProtocolInv == TypeOK /\ Entries /\ OneReader /\ Flow /\ NothingVanishes

-----------------------------------------------------------------------------
(* Types.                                                                  *)

LEMMA Bounds ==
  /\ IncomingCap \in Nat /\ SendCap \in Nat /\ MaxStreams \in Nat
  /\ IncomingCap >= 1 /\ SendCap >= 1
BY P2PProtocolAssumption

(* What a state with the types of TypeOK says of its streams.              *)
LEMMA StreamTypes ==
  ASSUME TypeOK
  PROVE  /\ Len(streams) \in Nat /\ StreamId = 1 .. Len(streams)
         /\ StreamId \subseteq 1 .. MaxStreams
         /\ streams \in [1 .. Len(streams) -> Stream]
         /\ \A s \in StreamId :
              /\ streams[s] \in Stream
              /\ streams[s].from \in Node /\ streams[s].to \in Node
<1>1. /\ Len(streams) \in Nat /\ StreamId = 1 .. Len(streams)
      /\ streams \in [1 .. Len(streams) -> Stream]
  BY LenProperties DEF TypeOK, StreamId
<1>2. StreamId \subseteq 1 .. MaxStreams
  BY <1>1, Bounds DEF TypeOK
<1>3. \A s \in StreamId : streams[s] \in Stream
  BY <1>1
<1>4. \A s \in StreamId : streams[s].from \in Node /\ streams[s].to \in Node
  BY <1>3 DEF Stream
<1> QED BY <1>1, <1>2, <1>3, <1>4

(* The streams after a step that changes fields of some of them.           *)
LEMMA StreamsChanged ==
  ASSUME TypeOK, streams' \in [StreamId -> Stream]
  PROVE  /\ streams' \in Seq(Stream) /\ Len(streams') = Len(streams)
         /\ StreamId' = StreamId
<1>1. Len(streams) \in Nat /\ StreamId = 1 .. Len(streams)
  BY StreamTypes
<1> QED BY <1>1, FunctionIsSeq, LenProperties DEF StreamId

LEMMA InitTypes == Init => TypeOK
<1> SUFFICES ASSUME Init PROVE TypeOK
  OBVIOUS
<1>1. /\ << >> \in Seq(Node) /\ << >> \in Seq(Msg) /\ << >> \in Seq(Stream)
      /\ << >> \in Seq(1 .. MaxStreams) /\ Len(<< >>) = 0
  BY EmptySeq
<1>2. 0 \in 0 .. MaxStreams /\ 0 <= MaxStreams
  BY Bounds
<1>3. [at |-> "select"] \in Loop
  BY DEF Loop
<1>4. toAdd \in [Node -> Seq(Node)]
  BY P2PProtocolAssumption DEF Init
<1>5. 0 <= IncomingCap /\ 0 <= SendCap
  BY Bounds
<1> QED BY <1>1, <1>2, <1>3, <1>4, <1>5 DEF Init, TypeOK

LEMMA TypeStep ==
  ASSUME TypeOK, Next
  PROVE  TypeOK'
<1> USE DEF TypeOK, chanVars, peerVars, worldVars
<1>0. /\ Len(streams) \in Nat /\ StreamId = 1 .. Len(streams)
      /\ StreamId \subseteq 1 .. MaxStreams
      /\ \A s \in StreamId : streams[s] \in Stream
      /\ \A s \in StreamId : streams[s].from \in Node /\ streams[s].to \in Node
  BY StreamTypes
<1>1. ASSUME NEW n \in Node, AddPeer(n) PROVE TypeOK'
  <2>1. Head(toAdd[n]) \in Node /\ Tail(toAdd[n]) \in Seq(Node)
    BY <1>1, HeadTailProperties DEF AddPeer
  <2>2. Append(peers[n], Head(toAdd[n])) \in Seq(Node)
    BY <2>1, AppendProperties
  <2>3. toAdd' \in [Node -> Seq(Node)] /\ peers' \in [Node -> Seq(Node)]
    BY <1>1, <2>1, <2>2 DEF AddPeer
  <2> QED BY <1>1, <2>3 DEF AddPeer
<1>2. ASSUME NEW n \in Node, ListenForNewBlocks(n) PROVE TypeOK'
  BY <1>2 DEF ListenForNewBlocks
<1>3. ASSUME NEW n \in Node, GossipNewBlock(n) PROVE TypeOK'
  <2>1. gossiped' \in [Node -> Nat] /\ gossiped'[n] \in Msg
    BY <1>3 DEF GossipNewBlock, Msg
  <2>2. Append(parked[n], gossiped'[n]) \in Seq(Msg)
    BY <2>1, AppendProperties
  <2>3. parked' \in [Node -> Seq(Msg)]
    BY <1>3, <2>2 DEF GossipNewBlock
  <2> QED BY <1>3, <2>1, <2>3 DEF GossipNewBlock
<1>4. ASSUME NEW n \in Node, PublishBlock(n) PROVE TypeOK'
  <2>1. Head(parked[n]) \in Msg /\ Tail(parked[n]) \in Seq(Msg)
    BY <1>4, HeadTailProperties DEF PublishBlock
  <2>2. /\ Append(sendMsg[n], Head(parked[n])) \in Seq(Msg)
        /\ Len(Append(sendMsg[n], Head(parked[n]))) = Len(sendMsg[n]) + 1
    BY <2>1, AppendProperties
  <2>3. Len(sendMsg[n]) + 1 <= SendCap
    BY <1>4, Bounds, LenProperties DEF PublishBlock
  <2>4. parked' \in [Node -> Seq(Msg)] /\ sendMsg' \in [Node -> Seq(Msg)]
    BY <1>4, <2>1, <2>2 DEF PublishBlock
  <2>5. \A m \in Node : Len(sendMsg'[m]) <= SendCap
    BY <1>4, <2>2, <2>3 DEF PublishBlock
  <2> QED BY <1>4, <2>4, <2>5 DEF PublishBlock
<1>5. ASSUME NEW n \in Node, Close(n) PROVE TypeOK'
  <2>1. \A s \in StreamId : [streams[s] EXCEPT !.reset = TRUE] \in Stream
    BY <1>0 DEF Stream
  <2>2. streams' \in [StreamId -> Stream]
    BY <1>0, <1>5, <2>1 DEF Close
  <2>3. streams' \in Seq(Stream) /\ Len(streams') = Len(streams)
    BY <2>2, StreamsChanged
  <2> QED BY <1>5, <2>3 DEF Close
<1>6. ASSUME NEW n \in Node, TakeSendMsg(n) PROVE TypeOK'
  <2>1. /\ Head(sendMsg[n]) \in Msg /\ Tail(sendMsg[n]) \in Seq(Msg)
        /\ Len(Tail(sendMsg[n])) = Len(sendMsg[n]) - 1
        /\ Len(sendMsg[n]) \in Nat
    BY <1>6, HeadTailProperties, LenProperties DEF TakeSendMsg
  <2>2. [at |-> "send", msg |-> Head(sendMsg[n]), todo |-> peers[n]] \in Loop
    BY <2>1 DEF Loop
  <2>3. loop' \in [Node -> Loop] /\ sendMsg' \in [Node -> Seq(Msg)]
    BY <1>6, <2>1, <2>2 DEF TakeSendMsg
  <2>4. Len(Tail(sendMsg[n])) <= SendCap
    BY <2>1, Bounds
  <2>5. \A m \in Node : Len(sendMsg'[m]) <= SendCap
    BY <1>6, <2>4 DEF TakeSendMsg
  <2> QED BY <1>6, <2>3, <2>5 DEF TakeSendMsg
<1>7. ASSUME NEW n \in Node, TakeIncoming(n) PROVE TypeOK'
  <2>1. /\ Head(incoming[n]) \in 1 .. MaxStreams
        /\ Tail(incoming[n]) \in Seq(1 .. MaxStreams)
        /\ Len(Tail(incoming[n])) = Len(incoming[n]) - 1
        /\ Len(incoming[n]) \in Nat
    BY <1>7, HeadTailProperties, LenProperties DEF TakeIncoming
  <2>2. [at |-> "handle", stream |-> Head(incoming[n])] \in Loop
    BY <2>1 DEF Loop
  <2>3. /\ loop' \in [Node -> Loop]
        /\ incoming' \in [Node -> Seq(1 .. MaxStreams)]
        /\ ignored' \in SUBSET (1 .. MaxStreams)
    BY <1>7, <2>1, <2>2 DEF TakeIncoming
  <2>4. Len(Tail(incoming[n])) <= IncomingCap
    BY <2>1, Bounds
  <2>5. \A m \in Node : Len(incoming'[m]) <= IncomingCap
    BY <1>7, <2>4 DEF TakeIncoming
  <2> QED BY <1>7, <2>3, <2>5 DEF TakeIncoming
<1>8. ASSUME NEW n \in Node, SendMessage(n) PROVE TypeOK'
  <2>1. /\ loop[n] \in [at : {"send"}, msg : Msg, todo : Seq(Node)]
        /\ loop[n].todo # << >>
    BY <1>8 DEF SendMessage, Loop
  <2>2. Head(loop[n].todo) \in Node /\ Tail(loop[n].todo) \in Seq(Node)
    BY <2>1, HeadTailProperties
  <2>3. loop' \in [Node -> Loop]
    <3>1. [loop[n] EXCEPT !.todo = Tail(@)] \in Loop
      BY <2>1, <2>2 DEF Loop
    <3> QED BY <1>8, <3>1 DEF SendMessage, NextPeer
  <2>4. ASSUME NEW msg \in Msg \cup {NoMsg}, Open(n, Head(loop[n].todo), msg)
        PROVE  streams' \in Seq(Stream) /\ Len(streams') <= MaxStreams
    <3> DEFINE x == [from |-> n, to |-> Head(loop[n].todo), msg |-> msg,
                     unread |-> msg # NoMsg, reset |-> FALSE, reader |-> "spawned"]
    <3>1. x \in Stream
      BY <2>2 DEF Stream
    <3> HIDE DEF x
    <3>2. streams' = Append(streams, x) /\ Len(streams) < MaxStreams
      BY <2>4 DEF Open, x
    <3> QED BY <1>0, <3>1, <3>2, Bounds, AppendProperties
  <2>5. failures' \in Nat
    <3>1. failures' = failures \/ failures' = failures + 1
      <4> HIDE DEF TypeOK, Next
      <4> QED BY <1>8, Zenon DEF SendMessage
    <3>2. failures \in Nat
      OBVIOUS
    <3> QED BY ONLY <3>1, <3>2
  <2>6. streams' \in Seq(Stream) /\ Len(streams') <= MaxStreams
    <3>1. loop[n].msg \in Msg
      BY <2>1
    <3>2. \/ Open(n, Head(loop[n].todo), loop[n].msg)
          \/ Open(n, Head(loop[n].todo), NoMsg)
          \/ UNCHANGED streams
      BY <1>8 DEF SendMessage
    <3> QED BY <2>4, <3>1, <3>2
  <2> QED BY <1>8, <2>3, <2>5, <2>6 DEF SendMessage
<1>9. ASSUME NEW n \in Node, SendEnds(n) PROVE TypeOK'
  <2>1. [at |-> "select"] \in Loop
    BY DEF Loop
  <2> QED BY <1>9, <2>1 DEF SendEnds
<1>10. ASSUME NEW n \in Node, HandlerReturns(n) PROVE TypeOK'
  <2>1. [at |-> "select"] \in Loop
    BY DEF Loop
  <2>2. loop[n].stream \in 1 .. MaxStreams
    BY <1>10 DEF HandlerReturns, Loop
  <2>3. loop' \in [Node -> Loop] /\ handled' \in SUBSET (1 .. MaxStreams)
    BY <1>10, <2>1, <2>2 DEF HandlerReturns
  <2> QED BY <1>10, <2>3 DEF HandlerReturns
<1>11. ASSUME NEW s \in StreamId, Register(s) PROVE TypeOK'
  <2> DEFINE n == streams[s].to
             m == streams[s].from
  <2>1. n \in Node /\ m \in Node /\ s \in 0 .. MaxStreams
    BY <1>0, Bounds
  <2>2. \A t \in StreamId : /\ [streams[t] EXCEPT !.reader = "reading"] \in Stream
                            /\ [streams[t] EXCEPT !.reset = TRUE] \in Stream
    BY <1>0, ZenonT(30) DEF Stream
  <2>3. streams' \in [StreamId -> Stream]
    BY <1>0, <1>11, <2>2 DEF Register, TakeOver
  <2>4. streams' \in Seq(Stream) /\ Len(streams') = Len(streams)
    BY <2>3, StreamsChanged
  <2>5. inbound' = [inbound EXCEPT ![n][m] = s]
    BY <1>11 DEF Register
  <2>6. peers' = [peers EXCEPT ![n] = Append(@, m)] \/ UNCHANGED peers
    BY <1>11 DEF Register
  <2> HIDE DEF n, m
  <2>7. inbound' \in [Node -> [Node -> 0 .. MaxStreams]]
    BY <2>1, <2>5
  <2>8. peers' \in [Node -> Seq(Node)]
    <3>1. Append(peers[n], m) \in Seq(Node)
      BY <2>1, AppendProperties
    <3> QED BY <2>1, <2>6, <3>1
  <2> QED BY <1>11, <2>4, <2>7, <2>8 DEF Register
<1>12. ASSUME NEW s \in StreamId, ReadMsg(s) PROVE TypeOK'
  <2>1. [streams[s] EXCEPT !.reader = "holding", !.unread = FALSE] \in Stream
    BY <1>0 DEF Stream
  <2>2. streams' \in [StreamId -> Stream]
    BY <1>0, <1>12, <2>1, StreamTypes DEF ReadMsg
  <2>3. streams' \in Seq(Stream) /\ Len(streams') = Len(streams)
    BY <2>2, StreamsChanged
  <2> QED BY <1>12, <2>3 DEF ReadMsg
<1>13. ASSUME NEW s \in StreamId, Deliver(s) PROVE TypeOK'
  <2> DEFINE n == streams[s].to
  <2>1. [streams[s] EXCEPT !.reader = "reading"] \in Stream
    BY <1>0 DEF Stream
  <2>2. streams' \in [StreamId -> Stream]
    BY <1>0, <1>13, <2>1, StreamTypes DEF Deliver
  <2>3. streams' \in Seq(Stream) /\ Len(streams') = Len(streams)
    BY <2>2, StreamsChanged
  <2>4. /\ incoming' = [incoming EXCEPT ![n] = Append(@, s)]
        /\ Len(incoming[n]) < IncomingCap
    BY <1>13 DEF Deliver, HandOver
  <2>5. n \in Node /\ s \in 1 .. MaxStreams
    BY <1>0
  <2> HIDE DEF n
  <2>6. /\ Append(incoming[n], s) \in Seq(1 .. MaxStreams)
        /\ Len(Append(incoming[n], s)) = Len(incoming[n]) + 1
        /\ Len(incoming[n]) \in Nat
    BY <2>5, AppendProperties, LenProperties
  <2>7. Len(Append(incoming[n], s)) <= IncomingCap
    BY <2>4, <2>6, Bounds
  <2>8. incoming' \in [Node -> Seq(1 .. MaxStreams)]
    BY <2>4, <2>5, <2>6
  <2>9. \A m \in Node : Len(incoming'[m]) <= IncomingCap
    BY <2>4, <2>5, <2>7
  <2> QED BY <1>13, <2>3, <2>8, <2>9 DEF Deliver
<1>14. ASSUME NEW s \in StreamId, ReadFails(s) PROVE TypeOK'
  <2>1. [streams[s] EXCEPT !.reader = "gone", !.reset = TRUE] \in Stream
    BY <1>0 DEF Stream
  <2>2. streams' \in [StreamId -> Stream]
    BY <1>0, <1>14, <2>1, StreamTypes DEF ReadFails
  <2>3. streams' \in Seq(Stream) /\ Len(streams') = Len(streams)
    BY <2>2, StreamsChanged
  <2>4. inbound' \in [Node -> [Node -> 0 .. MaxStreams]]
    <3>1. 0 \in 0 .. MaxStreams
      BY Bounds
    <3> QED BY <1>0, <1>14, <3>1 DEF ReadFails, Unregister
  <2> QED BY <1>14, <2>3, <2>4 DEF ReadFails
<1> QED BY <1>1, <1>2, <1>3, <1>4, <1>5, <1>6, <1>7, <1>8, <1>9, <1>10,
           <1>11, <1>12, <1>13, <1>14
        DEF Next, LoopStep, HandleNewStream

-----------------------------------------------------------------------------
(* What a step does to the streams: those there are stay, between the same *)
(* hosts and with the same message, and a new one is not read yet.         *)

LEMMA StreamsStay ==
  ASSUME TypeOK, Next
  PROVE  /\ StreamId \subseteq StreamId'
         /\ \A s \in StreamId : /\ streams'[s].from = streams[s].from
                                /\ streams'[s].to = streams[s].to
                                /\ streams'[s].msg = streams[s].msg
                                /\ streams'[s].unread => streams[s].unread
         /\ \A s \in StreamId' \ StreamId :
              /\ streams'[s].reader = "spawned"
              /\ streams'[s].unread <=> streams'[s].msg # NoMsg
<1>0. /\ Len(streams) \in Nat /\ StreamId = 1 .. Len(streams)
      /\ streams \in [StreamId -> Stream]
      /\ \A s \in StreamId : streams[s] \in Stream
  BY StreamTypes
<1>1. ASSUME NEW n \in Node, NEW peer, NEW msg, Open(n, peer, msg)
      PROVE  /\ StreamId' = 1 .. Len(streams) + 1
             /\ \A s \in StreamId : streams'[s] = streams[s]
             /\ streams'[Len(streams) + 1] =
                  [from |-> n, to |-> peer, msg |-> msg, unread |-> msg # NoMsg,
                   reset |-> FALSE, reader |-> "spawned"]
  <2> DEFINE x == [from |-> n, to |-> peer, msg |-> msg, unread |-> msg # NoMsg,
                   reset |-> FALSE, reader |-> "spawned"]
             S == Stream \cup {x}
  <2>1. streams \in Seq(S) /\ x \in S
    BY SeqMonotonic DEF TypeOK
  <2>2. streams' = Append(streams, x)
    BY <1>1 DEF Open
  <2> HIDE DEF x, S
  <2>3. /\ Append(streams, x) \in Seq(S) /\ Len(Append(streams, x)) = Len(streams) + 1
        /\ \A s \in 1 .. Len(streams) : Append(streams, x)[s] = streams[s]
        /\ Append(streams, x)[Len(streams) + 1] = x
    BY <2>1, AppendProperties
  <2>4. DOMAIN Append(streams, x) = 1 .. Len(streams) + 1
    BY <2>3, LenProperties
  <2> QED BY <1>0, <2>2, <2>3, <2>4 DEF StreamId, x
<1>2. ASSUME NEW n \in Node, SendMessage(n)
      PROVE  UNCHANGED streams
               \/ \E peer, msg : Open(n, peer, msg)
  BY <1>2 DEF SendMessage
<1>3. ASSUME NEW n \in Node, NEW peer, NEW msg, Open(n, peer, msg)
      PROVE  /\ StreamId \subseteq StreamId'
             /\ \A s \in StreamId : streams'[s] = streams[s]
             /\ \A s \in StreamId' \ StreamId :
                  /\ streams'[s].reader = "spawned"
                  /\ streams'[s].unread <=> streams'[s].msg # NoMsg
  <2> DEFINE x == [from |-> n, to |-> peer, msg |-> msg, unread |-> msg # NoMsg,
                   reset |-> FALSE, reader |-> "spawned"]
  <2>1. /\ StreamId' = 1 .. Len(streams) + 1
        /\ \A s \in StreamId : streams'[s] = streams[s]
        /\ streams'[Len(streams) + 1] = x
    BY <1>1, <1>3
  <2>2. x.reader = "spawned" /\ (x.unread <=> x.msg # NoMsg)
    OBVIOUS
  <2>3. \A s \in StreamId' \ StreamId : s = Len(streams) + 1
    BY <1>0, <2>1
  <2>4. StreamId \subseteq StreamId'
    BY <1>0, <2>1
  <2> HIDE DEF x
  <2> QED BY <2>1, <2>2, <2>3, <2>4
<1>4. CASE UNCHANGED streams
  BY <1>4 DEF StreamId
<1>5. ASSUME NEW n \in Node, SendMessage(n), ~UNCHANGED streams
      PROVE  \E peer, msg : Open(n, peer, msg)
  BY <1>2, <1>5
<1>6. ASSUME NEW n \in Node, Close(n)
      PROVE  /\ StreamId' = StreamId
             /\ \A s \in StreamId : /\ streams'[s].from = streams[s].from
                                    /\ streams'[s].to = streams[s].to
                                    /\ streams'[s].msg = streams[s].msg
                                    /\ streams'[s].unread => streams[s].unread
  BY <1>0, <1>6 DEF Close, StreamId, Stream
<1>7. ASSUME NEW s \in StreamId, HandleNewStream(s)
      PROVE  /\ StreamId' = StreamId
             /\ \A t \in StreamId : /\ streams'[t].from = streams[t].from
                                    /\ streams'[t].to = streams[t].to
                                    /\ streams'[t].msg = streams[t].msg
                                    /\ streams'[t].unread => streams[t].unread
  <2>1. CASE Register(s)
    BY <1>0, <2>1 DEF Register, TakeOver, StreamId, Stream
  <2>2. CASE ReadMsg(s)
    BY <1>0, <2>2 DEF ReadMsg, StreamId, Stream
  <2>3. CASE Deliver(s)
    BY <1>0, <2>3 DEF Deliver, StreamId, Stream
  <2>4. CASE ReadFails(s)
    BY <1>0, <2>4 DEF ReadFails, StreamId, Stream
  <2> QED BY <1>7, <2>1, <2>2, <2>3, <2>4 DEF HandleNewStream
<1>8. CASE \E n \in Node : SendMessage(n)
  BY <1>3, <1>4, <1>5, <1>8
<1>9. CASE \E n \in Node :
             \/ AddPeer(n) \/ ListenForNewBlocks(n) \/ GossipNewBlock(n)
             \/ PublishBlock(n) \/ TakeSendMsg(n) \/ TakeIncoming(n)
             \/ SendEnds(n) \/ HandlerReturns(n)
  BY <1>4, <1>9 DEF AddPeer, ListenForNewBlocks, GossipNewBlock, PublishBlock,
                    TakeSendMsg, TakeIncoming, SendEnds, HandlerReturns
<1> QED BY <1>6, <1>7, <1>8, <1>9 DEF Next, LoopStep

-----------------------------------------------------------------------------
(* The entries of inboundStreams and who reads.                            *)

(* A step that only resets streams or opens some.                          *)
LEMMA ReadersStay ==
  ASSUME TypeOK, Next, Entries, OneReader, UNCHANGED inbound,
         \A s \in StreamId : /\ Running(s)' <=> Running(s)
                             /\ streams[s].reset => streams'[s].reset
  PROVE  Entries' /\ OneReader'
<1>1. Entries'
  BY StreamsStay DEF Entries, AtHost
<1>2. ASSUME NEW s \in StreamId', Running(s)', ~streams'[s].reset
      PROVE  inbound'[streams'[s].to][streams'[s].from] = s
  <2>1. s \in StreamId
    BY <1>2, StreamsStay DEF Running
  <2>2. streams'[s].to = streams[s].to /\ streams'[s].from = streams[s].from
    BY <2>1, StreamsStay
  <2> QED BY <1>2, <2>1, <2>2 DEF OneReader
<1>3. ASSUME NEW n \in Node, NEW m \in Node, inbound'[n][m] # 0
      PROVE  streams'[inbound'[n][m]].reader \in {"reading", "holding"}
  <2>1. /\ inbound'[n][m] = inbound[n][m]
        /\ inbound[n][m] \in StreamId /\ Running(inbound[n][m])
    BY <1>3 DEF OneReader, Entries, AtHost
  <2> QED BY <2>1 DEF Running
<1> QED BY <1>1, <1>2, <1>3 DEF OneReader, Running

LEMMA ReaderStep ==
  ASSUME TypeOK, Entries, OneReader, Next
  PROVE  Entries' /\ OneReader'
<1> USE DEF chanVars, peerVars, worldVars
<1>0. /\ StreamId = DOMAIN streams /\ 0 \notin StreamId
      /\ streams \in [StreamId -> Stream]
      /\ \A s \in StreamId : streams[s] \in Stream
      /\ \A s \in StreamId : streams[s].from \in Node /\ streams[s].to \in Node
      /\ inbound \in [Node -> [Node -> 0 .. MaxStreams]]
  <2>1. StreamId = DOMAIN streams
    BY DEF StreamId
  <2>2. inbound \in [Node -> [Node -> 0 .. MaxStreams]]
    BY DEF TypeOK
  <2> QED BY <2>1, <2>2, StreamTypes
<1>1. CASE UNCHANGED <<streams, inbound>>
  BY <1>1 DEF Entries, OneReader, AtHost, Running, StreamId
<1>2. ASSUME NEW n \in Node, Close(n) PROVE Entries' /\ OneReader'
  BY <1>0, <1>2, ReadersStay DEF Close, Running, Stream
<1>3. ASSUME NEW n \in Node, SendMessage(n) PROVE Entries' /\ OneReader'
  <2>1. \A s \in StreamId : streams'[s] = streams[s]
    <3>1. ASSUME NEW peer, NEW msg, Open(n, peer, msg), NEW s \in StreamId
          PROVE  streams'[s] = streams[s]
      <4> DEFINE x == [from |-> n, to |-> peer, msg |-> msg, unread |-> msg # NoMsg,
                       reset |-> FALSE, reader |-> "spawned"]
                 S == Stream \cup {x}
      <4>1. streams \in Seq(S) /\ x \in S
        BY SeqMonotonic DEF TypeOK
      <4>2. streams' = Append(streams, x)
        BY <3>1 DEF Open
      <4>3. s \in 1 .. Len(streams)
        BY StreamTypes
      <4> HIDE DEF x, S
      <4> QED BY <4>1, <4>2, <4>3, AppendProperties
    <3> QED BY <1>3, <3>1 DEF SendMessage
  <2>2. UNCHANGED inbound
    BY <1>3 DEF SendMessage
  <2> QED BY <2>1, <2>2, ReadersStay DEF Running
<1>4. ASSUME NEW s \in StreamId, Register(s) PROVE Entries' /\ OneReader'
  <2> DEFINE n == streams[s].to
             m == streams[s].from
  <2>1. /\ inbound' = [inbound EXCEPT ![n][m] = s]
        /\ streams[s].reader = "spawned"
        /\ streams' = [t \in StreamId |->
                        IF t = s THEN [streams[t] EXCEPT !.reader = "reading"]
                        ELSE IF t = inbound[n][m]
                        THEN [streams[t] EXCEPT !.reset = TRUE] ELSE streams[t]]
    BY <1>4 DEF Register, TakeOver
  <2>2. n \in Node /\ m \in Node
    BY <1>0
  <2>3. StreamId' = StreamId
    BY <2>1 DEF StreamId
  <2> HIDE DEF n, m
  <2>4. \A p, q \in Node :
          inbound'[p][q] = IF p = n /\ q = m THEN s ELSE inbound[p][q]
    BY <1>0, <2>1, <2>2
  <2>5. \A t \in StreamId :
          /\ streams'[t].to = streams[t].to /\ streams'[t].from = streams[t].from
          /\ t # s => /\ streams'[t].reader = streams[t].reader
                      /\ t # inbound[n][m] => streams'[t].reset = streams[t].reset
                      /\ t = inbound[n][m] => streams'[t].reset
          /\ streams'[s].reader = "reading"
    BY <1>0, <2>1, ZenonT(30) DEF Stream
  <2>6. Entries'
    BY <2>3, <2>4, <2>5 DEF Entries, AtHost, n, m
  <2>7. ASSUME NEW t \in StreamId, Running(t)', ~streams'[t].reset
        PROVE  inbound'[streams'[t].to][streams'[t].from] = t
    <3>1. CASE t = s
      BY <2>2, <2>4, <2>5, <3>1 DEF n, m
    <3>2. CASE t # s
      <4>1. Running(t) /\ ~streams[t].reset /\ t # inbound[n][m]
        BY <2>5, <2>7, <3>2 DEF Running
      <4>2. inbound[streams[t].to][streams[t].from] = t
        BY <4>1 DEF OneReader
      <4> QED BY <1>0, <2>4, <2>5, <4>1, <4>2
    <3> QED BY <3>1, <3>2
  <2>8. ASSUME NEW p \in Node, NEW q \in Node, inbound'[p][q] # 0
        PROVE  streams'[inbound'[p][q]].reader \in {"reading", "holding"}
    <3>1. CASE inbound'[p][q] = s
      BY <2>5, <3>1 DEF Running
    <3>2. CASE inbound'[p][q] # s
      <4>1. inbound'[p][q] = inbound[p][q]
        BY <2>4, <3>2
      <4>2. inbound[p][q] \in StreamId /\ Running(inbound[p][q])
        BY <2>8, <4>1 DEF OneReader, Entries, AtHost
      <4> QED BY <2>5, <3>2, <4>1, <4>2 DEF Running
    <3> QED BY <3>1, <3>2
  <2> QED BY <2>3, <2>6, <2>7, <2>8 DEF OneReader, Running
<1>5. ASSUME NEW s \in StreamId, ReadMsg(s) PROVE Entries' /\ OneReader'
  BY <1>0, <1>5, ReadersStay DEF ReadMsg, Running, Stream
<1>6. ASSUME NEW s \in StreamId, Deliver(s) PROVE Entries' /\ OneReader'
  BY <1>0, <1>6, ReadersStay DEF Deliver, Running, Stream
<1>7. ASSUME NEW s \in StreamId, ReadFails(s) PROVE Entries' /\ OneReader'
  <2> DEFINE n == streams[s].to
             m == streams[s].from
  <2>1. /\ streams' = [streams EXCEPT ![s].reader = "gone", ![s].reset = TRUE]
        /\ inbound' = [inbound EXCEPT ![n][m] = IF @ = s THEN 0 ELSE @]
    BY <1>7 DEF ReadFails, Unregister
  <2>2. n \in Node /\ m \in Node
    BY <1>0
  <2>3. StreamId' = StreamId
    BY <1>0, <2>1 DEF StreamId
  <2> HIDE DEF n, m
  <2>4. \A p, q \in Node :
          inbound'[p][q] = IF p = n /\ q = m /\ inbound[p][q] = s
                           THEN 0 ELSE inbound[p][q]
    BY <1>0, <2>1, <2>2
  <2>5. \A t \in StreamId :
          /\ streams'[t].to = streams[t].to /\ streams'[t].from = streams[t].from
          /\ t # s => streams'[t] = streams[t]
          /\ streams'[s].reader = "gone"
    BY <1>0, <2>1 DEF Stream
  <2>6. \A p, q \in Node : inbound'[p][q] # 0 =>
          inbound'[p][q] = inbound[p][q] /\ inbound[p][q] # s
    BY <2>4 DEF Entries, AtHost, n, m
  <2>7. Entries'
    BY <2>3, <2>5, <2>6 DEF Entries, AtHost
  <2>8. ASSUME NEW t \in StreamId, Running(t)', ~streams'[t].reset
        PROVE  inbound'[streams'[t].to][streams'[t].from] = t
    <3>1. t # s
      BY <2>5, <2>8 DEF Running
    <3>2. inbound[streams[t].to][streams[t].from] = t
      BY <2>5, <2>8, <3>1 DEF OneReader, Running
    <3> QED BY <1>0, <2>4, <2>5, <3>1, <3>2
  <2>9. ASSUME NEW p \in Node, NEW q \in Node, inbound'[p][q] # 0
        PROVE  streams'[inbound'[p][q]].reader \in {"reading", "holding"}
    <3>1. /\ inbound'[p][q] = inbound[p][q] /\ inbound[p][q] # s
          /\ inbound[p][q] \in StreamId /\ Running(inbound[p][q])
      BY <2>6, <2>9 DEF OneReader, Entries, AtHost
    <3> QED BY <2>5, <3>1 DEF Running
  <2> QED BY <2>3, <2>7, <2>8, <2>9 DEF OneReader, Running
<1>8. CASE \E n \in Node :
             \/ AddPeer(n) \/ ListenForNewBlocks(n) \/ GossipNewBlock(n)
             \/ PublishBlock(n) \/ TakeSendMsg(n) \/ TakeIncoming(n)
             \/ SendEnds(n) \/ HandlerReturns(n)
  BY <1>1, <1>8 DEF AddPeer, ListenForNewBlocks, GossipNewBlock, PublishBlock,
                    TakeSendMsg, TakeIncoming, SendEnds, HandlerReturns
<1> QED BY <1>2, <1>3, <1>4, <1>5, <1>6, <1>7, <1>8
        DEF Next, LoopStep, HandleNewStream

-----------------------------------------------------------------------------
(* Where messages are.                                                     *)

LEMMA FlowStep ==
  ASSUME TypeOK, Flow, Next
  PROVE  Flow'
<1> USE DEF chanVars, peerVars, worldVars
<1>0. /\ \A n \in Node : DOMAIN incoming[n] = 1 .. Len(incoming[n])
      /\ \A n \in Node : Len(incoming[n]) \in Nat
      /\ incoming \in [Node -> Seq(1 .. MaxStreams)]
      /\ loop \in [Node -> Loop]
  BY LenProperties DEF TypeOK
<1>1. \A s \in StreamId' : streams'[s].unread => streams'[s].msg # NoMsg
  BY StreamsStay DEF Flow
<1>2. \A s, n : AtHost(s, n) => AtHost(s, n)'
  BY StreamsStay DEF AtHost
<1>3. CASE UNCHANGED <<incoming, loop, handled, ignored>>
  BY <1>1, <1>2, <1>3, StreamsStay DEF Flow
<1>4. ASSUME NEW n \in Node, TakeIncoming(n) PROVE Flow'
  <2> DEFINE h == Head(incoming[n])
  <2>1. /\ incoming[n] # << >>
        /\ incoming' = [incoming EXCEPT ![n] = Tail(@)]
        /\ \/ /\ loop' = [loop EXCEPT ![n] = [at |-> "handle", stream |-> h]]
              /\ UNCHANGED ignored
           \/ ignored' = ignored \cup {h} /\ UNCHANGED loop
        /\ UNCHANGED handled
    BY <1>4 DEF TakeIncoming
  <2>2. /\ h = incoming[n][1] /\ 1 \in DOMAIN incoming[n]
        /\ \A k \in DOMAIN Tail(incoming[n]) :
             k + 1 \in DOMAIN incoming[n] /\ Tail(incoming[n])[k] = incoming[n][k + 1]
    <3>1. /\ Tail(incoming[n]) \in Seq(1 .. MaxStreams)
          /\ Len(Tail(incoming[n])) = Len(incoming[n]) - 1
          /\ \A k \in 1 .. Len(Tail(incoming[n])) :
               Tail(incoming[n])[k] = incoming[n][k + 1]
          /\ Len(incoming[n]) >= 1
      BY <1>0, <2>1, HeadTailProperties, EmptySeq
    <3>2. DOMAIN Tail(incoming[n]) = 1 .. Len(incoming[n]) - 1
      BY <3>1, LenProperties
    <3> QED BY <1>0, <3>1, <3>2
  <2>3. AtHost(h, n)
    BY <2>2 DEF Flow
  <2> HIDE DEF h
  <2>4. \A m \in Node : \A k \in DOMAIN incoming'[m] : AtHost(incoming'[m][k], m)
    BY <1>0, <2>1, <2>2 DEF Flow
  <2>5. \A m \in Node : loop'[m].at = "handle" => AtHost(loop'[m].stream, m)
    BY <1>0, <2>1, <2>3, SMTT(30) DEF Flow
  <2>6. handled' \cup ignored' \subseteq StreamId
    BY <2>1, <2>3 DEF Flow, AtHost
  <2> QED BY <1>1, <1>2, <2>4, <2>5, <2>6, StreamsStay DEF Flow
<1>5. ASSUME NEW n \in Node, HandlerReturns(n) PROVE Flow'
  <2>1. \A m \in Node : loop'[m].at = "handle" => AtHost(loop'[m].stream, m)
    BY <1>0, <1>5 DEF HandlerReturns, Flow
  <2>2. handled' \cup ignored' \subseteq StreamId /\ incoming' = incoming
    BY <1>5 DEF HandlerReturns, Flow, AtHost
  <2> QED BY <1>1, <1>2, <2>1, <2>2, StreamsStay DEF Flow
<1>6. ASSUME NEW n \in Node, TakeSendMsg(n) \/ SendMessage(n) \/ SendEnds(n)
      PROVE  Flow'
  <2>1. /\ UNCHANGED <<incoming, handled, ignored>>
        /\ \A m \in Node \ {n} : loop'[m] = loop[m]
        /\ loop'[n].at # "handle"
    BY <1>0, <1>6 DEF TakeSendMsg, SendMessage, SendEnds, NextPeer, Loop
  <2> QED BY <1>1, <1>2, <2>1, StreamsStay DEF Flow
<1>7. ASSUME NEW s \in StreamId, Deliver(s) PROVE Flow'
  <2> DEFINE n == streams[s].to
  <2>1. /\ incoming' = [incoming EXCEPT ![n] = Append(@, s)]
        /\ UNCHANGED <<loop, handled, ignored>>
    BY <1>7 DEF Deliver, HandOver
  <2>2. n \in Node /\ AtHost(s, n) /\ s \in 1 .. MaxStreams
    BY StreamTypes DEF AtHost
  <2> HIDE DEF n
  <2>3. /\ DOMAIN Append(incoming[n], s) = 1 .. Len(incoming[n]) + 1
        /\ \A k \in 1 .. Len(incoming[n]) : Append(incoming[n], s)[k] = incoming[n][k]
        /\ Append(incoming[n], s)[Len(incoming[n]) + 1] = s
    BY <1>0, <2>2, AppendProperties, LenProperties
  <2>4. \A k \in 1 .. Len(incoming[n]) + 1 :
          k \in 1 .. Len(incoming[n]) \/ k = Len(incoming[n]) + 1
    BY <1>0, <2>2
  <2>5. \A m \in Node : \A k \in DOMAIN incoming'[m] : AtHost(incoming'[m][k], m)
    BY <1>0, <2>1, <2>2, <2>3, <2>4 DEF Flow
  <2> QED BY <1>1, <1>2, <2>1, <2>5, StreamsStay DEF Flow
<1>8. CASE \E n \in Node :
             \/ AddPeer(n) \/ ListenForNewBlocks(n) \/ Close(n)
             \/ GossipNewBlock(n) \/ PublishBlock(n)
  BY <1>3, <1>8 DEF AddPeer, ListenForNewBlocks, Close, GossipNewBlock, PublishBlock
<1>9. CASE \E s \in StreamId : Register(s) \/ ReadMsg(s) \/ ReadFails(s)
  BY <1>3, <1>9 DEF Register, ReadMsg, ReadFails
<1> QED BY <1>4, <1>5, <1>6, <1>7, <1>8, <1>9 DEF Next, LoopStep, HandleNewStream

(* The places of the message of a stream, and the message has been read.   *)
Place == {"reader", "loop", "handled", "ignored"}

Held(s) == {place \in Place : Holds(place, s)}

Queued(s) == Occurs(incoming[streams[s].to], s)

Read(s) == streams[s].msg # NoMsg /\ ~streams[s].unread

LEMMA PlaceIsFinite == IsFiniteSet(Place)
<1>1. /\ IsFiniteSet({"reader"}) /\ IsFiniteSet({"loop"})
      /\ IsFiniteSet({"handled"}) /\ IsFiniteSet({"ignored"})
  BY FS_Singleton
<1>2. /\ IsFiniteSet({"reader"} \cup {"loop"})
      /\ IsFiniteSet({"handled"} \cup {"ignored"})
  BY <1>1, FS_Union
<1>3. IsFiniteSet(({"reader"} \cup {"loop"}) \cup ({"handled"} \cup {"ignored"}))
  BY <1>2, FS_Union
<1>4. Place = ({"reader"} \cup {"loop"}) \cup ({"handled"} \cup {"ignored"})
  BY DEF Place
<1> QED BY <1>3, <1>4

(* In how many places a message is, before and after a step.               *)
LEMMA CopiesAre ==
  ASSUME NEW s
  PROVE  /\ Copies(s) = Cardinality(Queued(s)) + Cardinality(Held(s))
         /\ Copies(s)' = Cardinality(Queued(s)') + Cardinality(Held(s)')
BY DEF Copies, Queued, Held, Occurs, Place

LEMMA OnePlace ==
  ASSUME TypeOK, NothingVanishes, NEW s \in StreamId
  PROVE  /\ Cardinality(Queued(s)) \in Nat
         /\ Cardinality(Queued(s)) + Cardinality(Held(s)) = IF Read(s) THEN 1 ELSE 0
         /\ Held(s) # {} => /\ Read(s) /\ Cardinality(Queued(s)) = 0
                            /\ \E place : Held(s) = {place}
         /\ Cardinality(Queued(s)) # 0 =>
              Read(s) /\ Cardinality(Queued(s)) = 1 /\ Held(s) = {}
<1> DEFINE q == Cardinality(Queued(s))
           h == Cardinality(Held(s))
<1>1. q + h = IF Read(s) THEN 1 ELSE 0
  BY CopiesAre DEF NothingVanishes, Read
<1>2. IsFiniteSet(Held(s)) /\ h \in Nat
  <2>1. Held(s) \in SUBSET Place
    BY DEF Held
  <2> QED BY <2>1, PlaceIsFinite, FS_Subset, FS_CardinalityType
<1>3. q \in Nat
  <2> DEFINE c == incoming[streams[s].to]
  <2>1. c \in Seq(1 .. MaxStreams) /\ s \in 1 .. MaxStreams
    BY StreamTypes DEF TypeOK
  <2> HIDE DEF c
  <2>2. Cardinality(Occurs(c, s)) \in Nat
    BY <2>1, CountOfAppend
  <2> QED BY <2>2 DEF c, Queued
<1>4. h = 0 <=> Held(s) = {}
  BY <1>2, FS_EmptySet
<1>5. h = 1 => \E place : Held(s) = {place}
  BY <1>2, FS_Singleton
<1> HIDE DEF q, h
<1>6. h # 0 => Read(s) /\ q = 0 /\ h = 1
  BY <1>1, <1>2, <1>3
<1>7. q # 0 => Read(s) /\ q = 1 /\ h = 0
  BY <1>1, <1>2, <1>3
<1> QED BY <1>1, <1>3, <1>4, <1>5, <1>6, <1>7 DEF q, h

(* A step that leaves a message where it was.                              *)
LEMMA SamePlaces ==
  ASSUME NEW s, streams'[s].to = streams[s].to,
         streams'[s].reader = "holding" <=> streams[s].reader = "holding",
         loop'[streams[s].to] = [at |-> "handle", stream |-> s]
           <=> loop[streams[s].to] = [at |-> "handle", stream |-> s],
         s \in handled' <=> s \in handled, s \in ignored' <=> s \in ignored
  PROVE  Held(s)' = Held(s)
BY DEF Held, Holds, Place

LEMMA CopiesKept ==
  ASSUME TypeOK, NothingVanishes, NEW s \in StreamId, Read(s)' <=> Read(s),
         Cardinality(Queued(s)') = Cardinality(Queued(s)), Held(s)' = Held(s)
  PROVE  Copies(s)' = IF Read(s)' THEN 1 ELSE 0
<1>1. Cardinality(Queued(s)) + Cardinality(Held(s)) = IF Read(s) THEN 1 ELSE 0
  BY OnePlace
<1> QED BY <1>1, CopiesAre

(* A stream that has just been opened is nowhere else.                     *)
LEMMA NewStream ==
  ASSUME TypeOK, Flow, Next, NEW s \in StreamId' \ StreamId
  PROVE  Copies(s)' = IF Read(s)' THEN 1 ELSE 0
<1> USE DEF chanVars, peerVars, worldVars
<1>0. /\ streams'[s].reader = "spawned"
      /\ streams'[s].unread <=> streams'[s].msg # NoMsg
  BY StreamsStay
<1>1. PICK n \in Node : SendMessage(n)
  <2>1. CASE UNCHANGED streams
    BY <2>1 DEF StreamId
  <2>2. ASSUME NEW n \in Node, Close(n) PROVE StreamId' = StreamId
    BY <2>2 DEF Close, StreamId
  <2>3. ASSUME NEW t \in StreamId, HandleNewStream(t) PROVE StreamId' = StreamId
    BY <2>3 DEF HandleNewStream, Register, TakeOver, ReadMsg, Deliver,
                ReadFails, StreamId
  <2>4. ASSUME NEW n \in Node,
               \/ AddPeer(n) \/ ListenForNewBlocks(n) \/ GossipNewBlock(n)
               \/ PublishBlock(n) \/ TakeSendMsg(n) \/ TakeIncoming(n)
               \/ SendEnds(n) \/ HandlerReturns(n)
        PROVE  UNCHANGED streams
    BY <2>4 DEF AddPeer, ListenForNewBlocks, GossipNewBlock, PublishBlock,
                TakeSendMsg, TakeIncoming, SendEnds, HandlerReturns
  <2> QED BY <2>1, <2>2, <2>3, <2>4 DEF Next, LoopStep
<1>2. /\ UNCHANGED <<incoming, handled, ignored>>
      /\ \A m \in Node \ {n} : loop'[m] = loop[m]
      /\ loop'[n].at = "send"
  BY <1>1 DEF SendMessage, NextPeer, TypeOK, Loop
<1>3. streams'[s].to \in Node
  <2>1. TypeOK'
    BY TypeStep
  <2>2. streams' \in Seq(Stream)
    BY <2>1 DEF TypeOK
  <2>3. streams'[s] \in Stream
    BY <2>2, LenProperties, ElementOfSeq DEF StreamId
  <2> QED BY <2>3 DEF Stream
<1>4. Queued(s)' = {}
  BY <1>2, <1>3 DEF Queued, Occurs, Flow, AtHost
<1>5. Held(s)' = {}
  <2>1. loop'[streams'[s].to] # [at |-> "handle", stream |-> s]
    BY <1>2, <1>3 DEF Flow, AtHost
  <2>2. s \notin handled' /\ s \notin ignored'
    BY <1>2 DEF Flow
  <2> QED BY <1>0, <2>1, <2>2 DEF Held, Holds, Place
<1>6. ~Read(s)'
  BY <1>0 DEF Read
<1> QED BY <1>4, <1>5, <1>6, CopiesAre, FS_EmptySet

(* The steps that move no message.                                         *)
Resting ==
  \/ \E n \in Node :
       \/ AddPeer(n) \/ ListenForNewBlocks(n) \/ GossipNewBlock(n)
       \/ PublishBlock(n) \/ Close(n) \/ TakeSendMsg(n) \/ SendMessage(n)
       \/ SendEnds(n)
  \/ \E s \in StreamId : Register(s) \/ ReadFails(s)

LEMMA RestingStep ==
  ASSUME TypeOK, NothingVanishes, Next, Resting, NEW s \in StreamId
  PROVE  Copies(s)' = IF Read(s)' THEN 1 ELSE 0
<1> USE DEF chanVars, peerVars, worldVars
<1>0. /\ streams[s].to \in Node /\ streams[s] \in Stream
      /\ streams \in [StreamId -> Stream]
      /\ loop \in [Node -> Loop]
  BY StreamTypes DEF TypeOK
<1>1. /\ streams'[s].to = streams[s].to /\ streams'[s].msg = streams[s].msg
  BY StreamsStay
<1>2. UNCHANGED <<incoming, handled, ignored>>
  BY DEF Resting, AddPeer, ListenForNewBlocks, GossipNewBlock, PublishBlock,
         Close, TakeSendMsg, SendMessage, SendEnds, Register, ReadFails
<1>3. \A n \in Node : \/ loop'[n] = loop[n]
                      \/ loop[n].at # "handle" /\ loop'[n].at # "handle"
  <2>1. ASSUME NEW n \in Node, TakeSendMsg(n) \/ SendMessage(n) \/ SendEnds(n)
        PROVE  /\ \A m \in Node \ {n} : loop'[m] = loop[m]
               /\ loop[n].at # "handle" /\ loop'[n].at # "handle"
    BY <1>0, <2>1 DEF TakeSendMsg, SendMessage, SendEnds, NextPeer, Loop
  <2>2. CASE UNCHANGED loop
    BY <2>2
  <2>3. CASE \E n \in Node : \/ AddPeer(n) \/ ListenForNewBlocks(n)
                             \/ GossipNewBlock(n) \/ PublishBlock(n) \/ Close(n)
    BY <2>2, <2>3 DEF AddPeer, ListenForNewBlocks, GossipNewBlock, PublishBlock, Close
  <2>4. CASE \E t \in StreamId : Register(t) \/ ReadFails(t)
    BY <2>2, <2>4 DEF Register, ReadFails
  <2>5. CASE \E n \in Node : TakeSendMsg(n) \/ SendMessage(n) \/ SendEnds(n)
    BY <2>1, <2>5
  <2> QED BY <2>3, <2>4, <2>5 DEF Resting
<1>4. /\ streams'[s].unread = streams[s].unread
      /\ streams'[s].reader = "holding" <=> streams[s].reader = "holding"
  <2>1. CASE streams'[s] = streams[s]
    BY <2>1
  <2>2. ASSUME NEW n \in Node, Close(n)
        PROVE  /\ streams'[s].unread = streams[s].unread
               /\ streams'[s].reader = streams[s].reader
    BY <1>0, <2>2 DEF Close, Stream
  <2>3. ASSUME NEW t \in StreamId, Register(t)
        PROVE  /\ streams'[s].unread = streams[s].unread
               /\ streams'[s].reader = "holding" <=> streams[s].reader = "holding"
    BY <1>0, <2>3 DEF Register, TakeOver, Stream
  <2>4. ASSUME NEW t \in StreamId, ReadFails(t)
        PROVE  /\ streams'[s].unread = streams[s].unread
               /\ streams'[s].reader = "holding" <=> streams[s].reader = "holding"
    BY <1>0, <2>4 DEF ReadFails, Stream
  <2>5. ASSUME NEW n \in Node, SendMessage(n) PROVE streams'[s] = streams[s]
    <3>1. ASSUME NEW peer, NEW msg, Open(n, peer, msg)
          PROVE  streams'[s] = streams[s]
      <4> DEFINE x == [from |-> n, to |-> peer, msg |-> msg, unread |-> msg # NoMsg,
                       reset |-> FALSE, reader |-> "spawned"]
                 S == Stream \cup {x}
      <4>1. streams \in Seq(S) /\ x \in S
        BY SeqMonotonic DEF TypeOK
      <4>2. streams' = Append(streams, x)
        BY <3>1 DEF Open
      <4>3. s \in 1 .. Len(streams)
        BY StreamTypes
      <4> HIDE DEF x, S
      <4> QED BY <4>1, <4>2, <4>3, AppendProperties
    <3> QED BY <2>5, <3>1 DEF SendMessage
  <2>6. ASSUME NEW n \in Node,
               \/ AddPeer(n) \/ ListenForNewBlocks(n) \/ GossipNewBlock(n)
               \/ PublishBlock(n) \/ TakeSendMsg(n) \/ SendEnds(n)
        PROVE  streams'[s] = streams[s]
    BY <2>6 DEF AddPeer, ListenForNewBlocks, GossipNewBlock, PublishBlock,
                TakeSendMsg, SendEnds
  <2> QED BY <2>1, <2>2, <2>3, <2>4, <2>5, <2>6 DEF Resting
<1>5. loop'[streams[s].to] = [at |-> "handle", stream |-> s]
        <=> loop[streams[s].to] = [at |-> "handle", stream |-> s]
  BY <1>0, <1>3
<1>6. Held(s)' = Held(s)
  BY <1>1, <1>2, <1>4, <1>5, SamePlaces
<1>7. Queued(s)' = Queued(s)
  BY <1>1, <1>2 DEF Queued, Occurs
<1>8. Read(s)' <=> Read(s)
  BY <1>1, <1>4 DEF Read
<1> QED BY <1>6, <1>7, <1>8, CopiesKept

(* The steps that move the message of stream t, and s is any stream.       *)

LEMMA ReadStep ==
  ASSUME TypeOK, Flow, NothingVanishes, Next,
         NEW t \in StreamId, ReadMsg(t), NEW s \in StreamId
  PROVE  Copies(s)' = IF Read(s)' THEN 1 ELSE 0
<1> USE DEF chanVars, peerVars, worldVars
<1>0. /\ streams \in [StreamId -> Stream] /\ streams[t] \in Stream
      /\ streams'[s].to = streams[s].to /\ streams'[s].msg = streams[s].msg
  BY StreamTypes, StreamsStay
<1>1. /\ UNCHANGED <<incoming, loop, handled, ignored>>
      /\ streams[t].unread /\ streams[t].reader = "reading"
      /\ streams' = [streams EXCEPT ![t].reader = "holding", ![t].unread = FALSE]
  BY DEF ReadMsg
<1>2. Queued(s)' = Queued(s)
  BY <1>0, <1>1 DEF Queued, Occurs
<1>3. CASE s = t
  <2>1. streams'[s].reader = "holding" /\ ~streams'[s].unread
    BY <1>0, <1>1, <1>3 DEF Stream
  <2>2. streams[s].msg # NoMsg
    BY <1>1, <1>3 DEF Flow
  <2>3. Cardinality(Queued(s)) = 0 /\ Held(s) = {}
    BY <1>1, <1>3, OnePlace DEF Read
  <2>4. Held(s)' = {"reader"}
    BY <1>0, <1>1, <2>1, <2>3 DEF Held, Holds, Place
  <2>5. Cardinality(Held(s)') = 1
    BY <2>4, FS_Singleton
  <2>6. Read(s)'
    BY <1>0, <2>1, <2>2 DEF Read
  <2> QED BY <1>2, <2>3, <2>5, <2>6, CopiesAre
<1>4. CASE s # t
  <2>1. streams'[s] = streams[s]
    BY <1>0, <1>1, <1>4
  <2>2. Held(s)' = Held(s)
    BY <1>1, <2>1, SamePlaces
  <2>3. Read(s)' <=> Read(s)
    BY <2>1 DEF Read
  <2> QED BY <1>2, <2>2, <2>3, CopiesKept
<1> QED BY <1>3, <1>4

LEMMA DeliverStep ==
  ASSUME TypeOK, NothingVanishes, Next,
         NEW t \in StreamId, Deliver(t), NEW s \in StreamId
  PROVE  Copies(s)' = IF Read(s)' THEN 1 ELSE 0
<1> USE DEF chanVars, peerVars, worldVars
<1>0. /\ streams \in [StreamId -> Stream] /\ streams[t] \in Stream
      /\ streams'[s].to = streams[s].to /\ streams'[s].msg = streams[s].msg
      /\ streams[s].to \in Node /\ streams[t].to \in Node
      /\ s \in 1 .. MaxStreams /\ t \in 1 .. MaxStreams
      /\ incoming \in [Node -> Seq(1 .. MaxStreams)]
  BY StreamTypes, StreamsStay DEF TypeOK
<1>1. /\ UNCHANGED <<loop, handled, ignored>>
      /\ streams[t].reader = "holding"
      /\ streams' = [streams EXCEPT ![t].reader = "reading"]
      /\ incoming' = [incoming EXCEPT ![streams[t].to] = Append(@, t)]
  BY DEF Deliver, HandOver
<1>2. Cardinality(Queued(s)')
        = Cardinality(Queued(s)) + (IF t = s THEN 1 ELSE 0)
  <2> DEFINE c == incoming[streams[s].to]
  <2>1. c \in Seq(1 .. MaxStreams)
    BY <1>0
  <2>2. Queued(s) = Occurs(c, s) /\ Queued(s)' = Occurs(incoming'[streams[s].to], s)
    BY <1>0 DEF Queued, Occurs
  <2>3. CASE streams[t].to = streams[s].to
    <3>1. incoming'[streams[s].to] = Append(c, t)
      BY <1>0, <1>1, <2>3
    <3> HIDE DEF c
    <3>2. Cardinality(Occurs(Append(c, t), s))
            = Cardinality(Occurs(c, s)) + (IF t = s THEN 1 ELSE 0)
      <4> DEFINE R == 1 .. MaxStreams
      <4>1. c \in Seq(R) /\ t \in R
        BY <1>0, <2>1
      <4> HIDE DEF R
      <4> QED BY <4>1, CountOfAppend
    <3> QED BY <2>2, <3>1, <3>2
  <2>4. CASE streams[t].to # streams[s].to
    <3>1. incoming'[streams[s].to] = c
      BY <1>0, <1>1, <2>4
    <3>2. Cardinality(Queued(s)) \in Nat
      BY OnePlace
    <3> HIDE DEF c
    <3> QED BY <2>2, <2>4, <3>1, <3>2
  <2> QED BY <2>3, <2>4
<1>3. CASE s = t
  <2>1. streams'[s].reader = "reading" /\ streams'[s].unread = streams[s].unread
    BY <1>0, <1>1, <1>3 DEF Stream
  <2>2. "reader" \in Held(s)
    BY <1>1, <1>3 DEF Held, Holds, Place
  <2>3. Read(s) /\ Cardinality(Queued(s)) = 0 /\ Held(s) = {"reader"}
    BY <2>2, OnePlace
  <2>4. Held(s)' = {}
    BY <1>0, <1>1, <2>1, <2>3 DEF Held, Holds, Place
  <2>5. Cardinality(Held(s)') = 0
    BY <2>4, FS_EmptySet
  <2>6. Read(s)'
    BY <1>0, <2>1, <2>3 DEF Read
  <2> QED BY <1>2, <1>3, <2>3, <2>5, <2>6, CopiesAre
<1>4. CASE s # t
  <2>1. streams'[s] = streams[s]
    BY <1>0, <1>1, <1>4
  <2>2. Held(s)' = Held(s)
    BY <1>1, <2>1, SamePlaces
  <2>3. Read(s)' <=> Read(s)
    BY <2>1 DEF Read
  <2>4. Cardinality(Queued(s)') = Cardinality(Queued(s))
    BY <1>2, <1>4, OnePlace
  <2> QED BY <2>2, <2>3, <2>4, CopiesKept
<1> QED BY <1>3, <1>4

LEMMA TakeStep ==
  ASSUME TypeOK, Flow, NothingVanishes, Next,
         NEW n \in Node, TakeIncoming(n), NEW s \in StreamId
  PROVE  Copies(s)' = IF Read(s)' THEN 1 ELSE 0
<1> USE DEF chanVars, peerVars, worldVars
<1> DEFINE h == Head(incoming[n])
<1>0. /\ streams[s].to \in Node /\ s \in 1 .. MaxStreams
      /\ incoming \in [Node -> Seq(1 .. MaxStreams)]
      /\ loop \in [Node -> Loop]
  BY StreamTypes DEF TypeOK
<1>1. /\ UNCHANGED <<streams, handled>>
      /\ loop[n].at = "select" /\ incoming[n] # << >>
      /\ incoming' = [incoming EXCEPT ![n] = Tail(@)]
      /\ \/ /\ loop' = [loop EXCEPT ![n] = [at |-> "handle", stream |-> h]]
            /\ UNCHANGED ignored
         \/ ignored' = ignored \cup {h} /\ UNCHANGED loop
  BY DEF TakeIncoming
<1>2. streams[h].to = n
  <2>1. Len(incoming[n]) >= 1 /\ DOMAIN incoming[n] = 1 .. Len(incoming[n])
        /\ Len(incoming[n]) \in Nat /\ h = incoming[n][1]
    BY <1>0, <1>1, EmptySeq, LenProperties
  <2>2. 1 \in DOMAIN incoming[n]
    BY <2>1
  <2> QED BY <2>1, <2>2 DEF Flow, AtHost
<1> HIDE DEF h
<1>3. Read(s)' <=> Read(s)
  BY <1>1 DEF Read
<1>4. Cardinality(Queued(s))
        = Cardinality(Queued(s)') + (IF h = s THEN 1 ELSE 0)
  <2> DEFINE c == incoming[streams[s].to]
  <2>1. c \in Seq(1 .. MaxStreams)
    BY <1>0
  <2>2. Queued(s) = Occurs(c, s) /\ Queued(s)' = Occurs(incoming'[streams[s].to], s)
    BY <1>1 DEF Queued, Occurs
  <2>3. CASE streams[s].to = n
    <3>1. incoming'[streams[s].to] = Tail(c) /\ c # << >> /\ h = Head(c)
      BY <1>0, <1>1, <2>3 DEF h
    <3> HIDE DEF c
    <3> QED BY <1>0, <2>1, <2>2, <3>1, CountOfTail
  <2>4. CASE streams[s].to # n
    <3>1. incoming'[streams[s].to] = c /\ h # s
      BY <1>0, <1>1, <1>2, <2>4
    <3>2. Cardinality(Queued(s)) \in Nat
      BY OnePlace
    <3> HIDE DEF c
    <3> QED BY <2>2, <3>1, <3>2
  <2> QED BY <2>3, <2>4
<1>5. Cardinality(Queued(s)') \in Nat
  <2> DEFINE c == incoming'[streams[s].to]
  <2>1. c \in Seq(1 .. MaxStreams)
    BY <1>0, TypeStep DEF TypeOK
  <2>2. Queued(s)' = Occurs(c, s)
    BY <1>1 DEF Queued, Occurs
  <2> HIDE DEF c
  <2>3. Cardinality(Occurs(c, s)) \in Nat
    BY <1>0, <2>1, CountOfAppend
  <2> QED BY <2>2, <2>3
<1>6. CASE s = h
  <2>1. Cardinality(Queued(s)) # 0
    BY <1>4, <1>5, <1>6
  <2>2. Read(s) /\ Cardinality(Queued(s)) = 1 /\ Held(s) = {}
    BY <2>1, OnePlace
  <2>3. Cardinality(Queued(s)') = 0
    BY <1>4, <1>5, <1>6, <2>2
  <2>4. /\ streams[s].reader # "holding" /\ s \notin handled /\ s \notin ignored
        /\ loop[n] # [at |-> "handle", stream |-> s]
    BY <1>2, <1>6, <2>2 DEF Held, Holds, Place
  <2>5. \E place : Held(s)' = {place}
    <3>1. CASE /\ loop' = [loop EXCEPT ![n] = [at |-> "handle", stream |-> h]]
               /\ UNCHANGED ignored
      <4>1. Held(s)' = {"loop"}
        BY <1>0, <1>1, <1>2, <1>6, <2>4, <3>1 DEF Held, Holds, Place
      <4> QED BY <4>1
    <3>2. CASE ignored' = ignored \cup {h} /\ UNCHANGED loop
      <4>1. Held(s)' = {"ignored"}
        BY <1>1, <1>2, <1>6, <2>4, <3>2 DEF Held, Holds, Place
      <4> QED BY <4>1
    <3> QED BY <1>1, <3>1, <3>2
  <2>6. Cardinality(Held(s)') = 1
    BY <2>5, FS_Singleton
  <2> QED BY <1>3, <2>2, <2>3, <2>6, CopiesAre
<1>7. CASE s # h
  <2>1. Cardinality(Queued(s)') = Cardinality(Queued(s))
    BY <1>4, <1>5, <1>7
  <2>2. loop'[streams[s].to] = [at |-> "handle", stream |-> s]
          <=> loop[streams[s].to] = [at |-> "handle", stream |-> s]
    BY <1>0, <1>1, <1>7
  <2>3. Held(s)' = Held(s)
    BY <1>1, <1>7, <2>2, SamePlaces
  <2> QED BY <1>3, <2>1, <2>3, CopiesKept
<1> QED BY <1>6, <1>7

LEMMA HandledStep ==
  ASSUME TypeOK, Flow, NothingVanishes, Next,
         NEW n \in Node, HandlerReturns(n), NEW s \in StreamId
  PROVE  Copies(s)' = IF Read(s)' THEN 1 ELSE 0
<1> USE DEF chanVars, peerVars, worldVars
<1> DEFINE h == loop[n].stream
<1>0. streams[s].to \in Node /\ loop \in [Node -> Loop]
  BY StreamTypes DEF TypeOK
<1>1. /\ UNCHANGED <<streams, incoming, ignored>>
      /\ loop[n].at = "handle"
      /\ loop' = [loop EXCEPT ![n] = [at |-> "select"]]
      /\ handled' = handled \cup {h}
  BY DEF HandlerReturns
<1>2. streams[h].to = n /\ loop[n] = [at |-> "handle", stream |-> h]
  BY <1>0, <1>1 DEF Flow, AtHost, Loop
<1> HIDE DEF h
<1>3. Read(s)' <=> Read(s)
  BY <1>1 DEF Read
<1>4. Queued(s)' = Queued(s)
  BY <1>1 DEF Queued, Occurs
<1>5. CASE s = h
  <2>1. "loop" \in Held(s)
    BY <1>2, <1>5 DEF Held, Holds, Place
  <2>2. Read(s) /\ Cardinality(Queued(s)) = 0 /\ Held(s) = {"loop"}
    BY <2>1, OnePlace
  <2>3. streams[s].reader # "holding" /\ s \notin handled /\ s \notin ignored
    BY <2>2 DEF Held, Holds, Place
  <2>4. loop'[streams[s].to] # [at |-> "handle", stream |-> s]
    BY <1>0, <1>1, <1>2, <1>5
  <2>5. Held(s)' = {"handled"}
    BY <1>1, <1>5, <2>3, <2>4 DEF Held, Holds, Place
  <2>6. Cardinality(Held(s)') = 1
    BY <2>5, FS_Singleton
  <2> QED BY <1>3, <1>4, <2>2, <2>6, CopiesAre
<1>6. CASE s # h
  <2>1. loop'[streams[s].to] = [at |-> "handle", stream |-> s]
          <=> loop[streams[s].to] = [at |-> "handle", stream |-> s]
    BY <1>0, <1>1, <1>2, <1>6
  <2>2. Held(s)' = Held(s)
    BY <1>1, <1>6, <2>1, SamePlaces
  <2> QED BY <1>3, <1>4, <2>2, CopiesKept
<1> QED BY <1>5, <1>6

LEMMA CopiesStep ==
  ASSUME TypeOK, Flow, NothingVanishes, Next
  PROVE  NothingVanishes'
<1>1. ASSUME NEW s \in StreamId PROVE Copies(s)' = IF Read(s)' THEN 1 ELSE 0
  <2>1. CASE Resting
    BY <2>1, RestingStep
  <2>2. CASE \E t \in StreamId : ReadMsg(t)
    BY <2>2, ReadStep
  <2>3. CASE \E t \in StreamId : Deliver(t)
    BY <2>3, DeliverStep
  <2>4. CASE \E n \in Node : TakeIncoming(n)
    BY <2>4, TakeStep
  <2>5. CASE \E n \in Node : HandlerReturns(n)
    BY <2>5, HandledStep
  <2>6. \/ Resting \/ \E t \in StreamId : ReadMsg(t) \/ Deliver(t)
        \/ \E n \in Node : TakeIncoming(n) \/ HandlerReturns(n)
    BY DEF Next, LoopStep, HandleNewStream, Resting
  <2> QED BY <2>1, <2>2, <2>3, <2>4, <2>5, <2>6
<1>2. \A s \in StreamId' : Copies(s)' = IF Read(s)' THEN 1 ELSE 0
  BY <1>1, NewStream
<1> QED BY <1>2 DEF NothingVanishes, Read

-----------------------------------------------------------------------------
(* The invariant, and what follows from it.                                *)

THEOREM InitProtocolInv == Init => ProtocolInv
<1> SUFFICES ASSUME Init PROVE ProtocolInv
  OBVIOUS
<1>1. TypeOK
  BY InitTypes
<1>2. StreamId = {}
  BY DEF Init, StreamId
<1>3. Entries /\ OneReader
  BY <1>2 DEF Init, Entries, OneReader
<1>4. Flow
  BY <1>2 DEF Init, Flow
<1>5. NothingVanishes
  BY <1>2 DEF NothingVanishes
<1> QED BY <1>1, <1>3, <1>4, <1>5 DEF ProtocolInv

THEOREM ProtocolStep == ProtocolInv /\ [Next]_vars => ProtocolInv'
<1> SUFFICES ASSUME ProtocolInv, [Next]_vars PROVE ProtocolInv'
  OBVIOUS
<1>1. CASE Next
  BY <1>1, TypeStep, ReaderStep, FlowStep, CopiesStep DEF ProtocolInv
<1>2. CASE UNCHANGED vars
  <2>1. TypeOK' /\ Entries' /\ OneReader' /\ Flow'
    BY <1>2 DEF vars, ProtocolInv, TypeOK, Entries, OneReader, Flow,
                AtHost, Running, StreamId
  <2>2. \A s : Queued(s)' = Queued(s) /\ Held(s)' = Held(s)
    BY <1>2 DEF vars, Queued, Occurs, Held, Holds
  <2>3. \A s : Copies(s)' = Copies(s)
    BY <2>2, CopiesAre
  <2>4. NothingVanishes'
    BY <1>2, <2>3 DEF vars, ProtocolInv, NothingVanishes, StreamId
  <2> QED BY <2>1, <2>4 DEF ProtocolInv
<1> QED BY <1>1, <1>2

THEOREM ProtocolInvariant == Spec => []ProtocolInv
BY InitProtocolInv, ProtocolStep, PTL DEF Spec

(* The lists, channels and streams of every host have the types of TypeOK; *)
(* no channel holds more than its capacity (p2pv2.go:153-155, 345-372).    *)
THEOREM ProtocolTypes == Spec => []TypeOK
BY ProtocolInvariant, PTL DEF ProtocolInv

(* For any hosts and any streams between them: of the streams of one peer  *)
(* only the one in inboundStreams is read, in whatever order the goroutines*)
(* of handleNewStream start and end.                                       *)
THEOREM OneReaderAlways == Spec => []OneReader
BY ProtocolInvariant, PTL DEF ProtocolInv

(* For any hosts, channels of any capacity and any number of failures: a   *)
(* message that has been read from a stream is in exactly one place until  *)
(* the handler has had it, or until it came before there was a handler.    *)
THEOREM NothingVanishesAlways == Spec => []NothingVanishes
BY ProtocolInvariant, PTL DEF ProtocolInv
=============================================================================
