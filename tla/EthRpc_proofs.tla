---------------------------- MODULE EthRpc_proofs ----------------------------
(***************************************************************************)
(* Proofs about EthRpc: types, no transaction written more often than it   *)
(* was asked for, and reads that are not stale; for any clients, any posts *)
(* of calls and any number of them.                                        *)
(***************************************************************************)
EXTENDS EthRpc, SequenceLemmas

USE DEF tally

-----------------------------------------------------------------------------
(* The strengthening.                                                      *)

(* The machine runs for the call in hand, and a quote does not reach it    *)
(* unnoticed.                                                              *)
Working ==
  /\ cur # NoPost => Len(out) <= Len(cur.calls)
  /\ vm # "off" => InHand /\ CallsVM(This) /\ (This.raw = Quoted => misquoted)

(* Posts are numbered as they come, and handled in this order.             *)
Numbered ==
  /\ \A k \in DOMAIN inbox : inbox[k].id = posts - Len(inbox) + k
  /\ cur # NoPost => cur.id = posts - Len(inbox)

(* A client is told of what was written, and posts know of no more.        *)
Floors ==
  ~misquoted =>
    /\ told \subseteq Written
    /\ \A k \in DOMAIN inbox : inbox[k].floor \subseteq told
    /\ cur # NoPost => cur.floor \subseteq told
    /\ \A i \in DOMAIN out : out[i].kind = "hash" => out[i].raw \in Written

(* The calls that may still write tx, as <<number of post, place in it>>:  *)
(* all of those in the inbox, and the rest of the post in hand.            *)
Places(body, tx) ==
  {i \in DOMAIN body : Writes(body[i]) /\ body[i].raw = tx}

Owes(id, i, tx) ==
  \/ \E k \in DOMAIN inbox : inbox[k].id = id /\ i \in Places(inbox[k].calls, tx)
  \/ /\ cur # NoPost /\ cur.id = id
     /\ i > Len(out) /\ i \in Places(cur.calls, tx)

Owed(tx) == {x \in Nat \X Nat : Owes(x[1], x[2], tx)}

(* Every call that asks for tx has written it at most once, or is owed.    *)
Accounted ==
  ~misquoted =>
    \A tx \in Tx :
      /\ hashes[tx] <= Count(tx)
      /\ IsFiniteSet(Owed(tx))
      /\ Count(tx) + Cardinality(Owed(tx)) <= asked[tx]

RpcInv ==
  TypeOK /\ Working /\ Numbered /\ Floors /\ ReadsAreCurrent /\ Accounted

-----------------------------------------------------------------------------
(* Counting.                                                               *)

(* A body asks for a transaction a number of times.                       *)
LEMMA WantedIsNat ==
  ASSUME NEW body \in Seq(Call), NEW tx \in Tx
  PROVE  /\ IsFiniteSet(Places(body, tx))
         /\ Wanted(body, tx) = Cardinality(Places(body, tx))
         /\ Wanted(body, tx) \in Nat
<1>1. Len(body) \in Nat /\ DOMAIN body = 1 .. Len(body)
  BY LenProperties
<1>2. IsFiniteSet(Places(body, tx))
  <2>1. Places(body, tx) \in SUBSET (1 .. Len(body))
    BY <1>1 DEF Places
  <2>2. IsFiniteSet(1 .. Len(body))
    BY <1>1, FS_Interval
  <2> QED BY <2>1, <2>2, FS_Subset
<1>3. Wanted(body, tx) = Cardinality(Places(body, tx))
  BY DEF Wanted, Places
<1> QED BY <1>2, <1>3, FS_CardinalityType

-----------------------------------------------------------------------------
THEOREM InitRpcInv == Init => RpcInv
<1> SUFFICES ASSUME Init PROVE RpcInv
  OBVIOUS
<1> USE DEF Init
<1>0. << >> \in Seq(Post) /\ << >> \in Seq(Answer) /\ << >> \in Seq(Tx)
      /\ Len(<< >>) = 0
  BY EmptySeq
<1>a. misquoted \in BOOLEAN
  BY Zenon
<1>1. TypeOK
  BY <1>0, <1>a, EthRpcAssumption DEF TypeOK
<1>2. Working /\ Numbered
  BY DEF Working, Numbered
<1>3. Floors /\ ReadsAreCurrent
  BY DEF Floors, ReadsAreCurrent
<1>4. Accounted
  <2> SUFFICES ASSUME NEW tx \in Tx
               PROVE  /\ hashes[tx] <= Count(tx)
                      /\ IsFiniteSet(Owed(tx))
                      /\ Count(tx) + Cardinality(Owed(tx)) <= asked[tx]
    BY DEF Accounted
  <2>1. Owed(tx) = {}
    BY DEF Owed, Owes
  <2>2. Count(tx) = 0
    <3>1. {i \in DOMAIN chain : chain[i] = tx} = {}
      OBVIOUS
    <3> QED BY <3>1, FS_EmptySet DEF Count
  <2> QED BY <2>1, <2>2, FS_EmptySet
<1> QED BY <1>1, <1>2, <1>3, <1>4 DEF RpcInv

-----------------------------------------------------------------------------
(* Types.                                                                  *)

(* What a post holds, and the call in hand.                                *)
LEMMA HandTypes ==
  ASSUME TypeOK, cur # NoPost
  PROVE  /\ cur \in Post /\ cur.calls \in Seq(Call)
         /\ Len(cur.calls) \in Nat /\ Len(out) \in Nat
         /\ DOMAIN cur.calls = 1 .. Len(cur.calls)
         /\ InHand => /\ Len(out) + 1 \in DOMAIN cur.calls
                      /\ This \in Call /\ This.raw \in Raw
<1>1. cur \in Post /\ cur.calls \in Seq(Call)
  BY EthRpcAssumption DEF TypeOK, Post
<1>2. /\ Len(cur.calls) \in Nat /\ DOMAIN cur.calls = 1 .. Len(cur.calls)
      /\ Len(out) \in Nat
  BY <1>1, LenProperties DEF TypeOK
<1>3. ASSUME InHand
      PROVE  /\ Len(out) + 1 \in DOMAIN cur.calls
             /\ This \in Call /\ This.raw \in Raw
  <2>1. Len(out) + 1 \in 1 .. Len(cur.calls)
    BY <1>2, <1>3 DEF InHand
  <2>2. This \in Call
    BY <1>1, <2>1, ElementOfSeq DEF This
  <2> QED BY <1>2, <2>1, <2>2 DEF Call
<1> QED BY <1>1, <1>2, <1>3

(* A reply is an answer.                                                   *)
LEMMA ReplyTypes ==
  ASSUME TypeOK, InHand,
         NEW kind \in {"constant", "result", "hash", "error"},
         NEW seen \in SUBSET Tx, Reply(kind, seen)
  PROVE  /\ out' \in Seq(Answer)
         /\ Len(out') = Len(out) + 1
         /\ out'[Len(out) + 1] = [kind |-> kind, raw |-> This.raw, seen |-> seen]
         /\ \A i \in 1 .. Len(out) : out'[i] = out[i]
<1> DEFINE a == [kind |-> kind, raw |-> This.raw, seen |-> seen]
<1>1. a \in Answer
  BY HandTypes DEF InHand, Answer
<1>2. out \in Seq(Answer) /\ out' = Append(out, a)
  BY DEF TypeOK, Reply
<1> HIDE DEF a
<1>3. /\ out' \in Seq(Answer) /\ Len(out') = Len(out) + 1
      /\ out'[Len(out) + 1] = a
      /\ \A i \in 1 .. Len(out) : out'[i] = out[i]
  BY <1>1, <1>2, AppendProperties
<1> QED BY <1>3 DEF a

LEMMA WrittenTypes ==
  ASSUME TypeOK
  PROVE  Written \subseteq Tx
BY ElementOfSeq DEF TypeOK, Written

LEMMA NoWriteTypes ==
  ASSUME TypeOK, NoWrite
  PROVE  chain' \in Seq(Tx)
<1>1. CASE UNCHANGED chain
  BY <1>1 DEF TypeOK
<1>2. CASE chain' = << >>
  BY <1>2, EmptySeq
<1>3. ASSUME NEW tx \in Tx, WriteTx(tx) PROVE chain' \in Seq(Tx)
  BY <1>3, AppendProperties DEF WriteTx, TypeOK
<1> QED BY <1>1, <1>2, <1>3 DEF NoWrite

LEMMA TypeStep ==
  ASSUME TypeOK, Working, Next
  PROVE  TypeOK'
<1> USE DEF TypeOK
<1>1. ASSUME NEW c \in Client, NEW body \in Bodies, Submit(c, body)
      PROVE  TypeOK'
  <2> USE <1>1 DEF Submit
  <2>1. posts' \in 0 .. MaxPosts /\ posts' \in Nat
    BY EthRpcAssumption
  <2>2. inbox' \in Seq(Post)
    <3> DEFINE p == [id |-> posts', client |-> c, calls |-> body, floor |-> told]
    <3>1. p \in Post
      BY <2>1 DEF Post
    <3> HIDE DEF p
    <3>2. inbox' = Append(inbox, p)
      BY DEF p
    <3> QED BY <3>1, <3>2, AppendProperties
  <2>3. asked' \in [Tx -> Nat]
    BY WantedIsNat, EthRpcAssumption
  <2>4. waiting' \in [Client -> Nat]
    BY <2>1
  <2> QED BY <2>1, <2>2, <2>3, <2>4
<1>2. ASSUME NEW c \in Client, GiveUp(c) PROVE TypeOK'
  BY <1>2 DEF GiveUp
<1>3. CASE Take
  <2>1. Head(inbox) \in Post /\ Tail(inbox) \in Seq(Post)
    BY <1>3, HeadTailProperties DEF Take
  <2> QED BY <1>3, <2>1, EmptySeq DEF Take
<1>4. CASE Constant
  <2>1. out' \in Seq(Answer)
    BY <1>4, ReplyTypes DEF Constant, Busy
  <2> QED BY <1>4, <2>1 DEF Constant
<1>5. CASE Throw
  <2>1. out' \in Seq(Answer)
    BY <1>5, ReplyTypes DEF Throw, Busy
  <2> QED BY <1>5, <2>1 DEF Throw
<1>6. CASE ExecuteVM
  BY <1>6 DEF ExecuteVM, Busy, InHand
<1>7. CASE VMSucceeds
  <2>1. CASE Writes(This)
    <3>1. This.raw \in Tx
      BY <2>1 DEF Writes
    <3>0. /\ chain' = Append(chain, This.raw)
          /\ hashes' = [hashes EXCEPT ![This.raw] = hashes[This.raw] + 1]
          /\ UNCHANGED <<inbox, cur, waiting, posts, asked, told>>
      BY <1>7, <2>1 DEF VMSucceeds, WriteTx
    <3>2. chain' \in Seq(Tx)
      BY <3>0, <3>1, AppendProperties
    <3>3. out' \in Seq(Answer)
      <4>1. Written \cup {This.raw} \in SUBSET Tx
        BY <3>1, WrittenTypes
      <4>2. Reply("hash", Written \cup {This.raw}) /\ InHand
        BY <1>7, <2>1 DEF VMSucceeds
      <4> QED BY <4>1, <4>2, ReplyTypes
    <3>4. hashes' \in [Tx -> Nat]
      BY <3>0, <3>1
    <3> QED BY <1>7, <3>2, <3>3, <3>4 DEF VMSucceeds
  <2>2. CASE ~Writes(This)
    <3>1. out' \in Seq(Answer)
      <4>1. Reply("result", Written) /\ InHand
        BY <1>7, <2>2 DEF VMSucceeds
      <4> QED BY <4>1, ReplyTypes, WrittenTypes
    <3>2. chain' \in Seq(Tx)
      BY <1>7, <2>2, NoWriteTypes DEF VMSucceeds
    <3> QED BY <1>7, <2>2, <3>1, <3>2 DEF VMSucceeds
  <2> QED BY <2>1, <2>2
<1>8. CASE VMFails
  <2>1. chain' \in Seq(Tx)
    <3>1. CASE NoWrite
      BY <3>1, NoWriteTypes
    <3>2. CASE Writes(This) /\ WriteTx(This.raw)
      BY <3>2, AppendProperties DEF WriteTx, Writes
    <3> QED BY <1>8, <3>1, <3>2 DEF VMFails, VMWroteOrNot
  <2>2. out' \in Seq(Answer)
    BY <1>8, ReplyTypes DEF VMFails
  <2> QED BY <1>8, <2>1, <2>2 DEF VMFails
<1>9. CASE VMHangs
  BY <1>9 DEF VMHangs
<1>10. CASE Respond
  <2>1. vm = "off"
    BY <1>10, HandTypes DEF Respond, Working, InHand
  <2>2. waiting' \in [Client -> Nat]
    BY <1>10 DEF Respond
  <2>3. told' \subseteq Tx
    BY <1>10 DEF Respond
  <2> QED BY <1>10, <2>1, <2>2, <2>3 DEF Respond
<1> QED BY <1>1, <1>2, <1>3, <1>4, <1>5, <1>6, <1>7, <1>8, <1>9, <1>10
        DEF Next, EventLoop

-----------------------------------------------------------------------------
(* What the steps that answer a call have in common.                       *)

Answers == Constant \/ Throw \/ VMSucceeds \/ VMFails

LEMMA Answering ==
  ASSUME TypeOK, Working, Answers
  PROVE  /\ InHand /\ vm' = "off"
         /\ UNCHANGED <<inbox, cur, waiting, tally, told>>
         /\ ~misquoted =>
              \/ UNCHANGED <<chain, hashes>>
              \/ /\ Writes(This) /\ chain' = Append(chain, This.raw)
                 /\ \/ UNCHANGED hashes
                    \/ hashes' = [hashes EXCEPT ![This.raw] = hashes[This.raw] + 1]
         /\ ~misquoted => Written \subseteq Written'
         /\ \E a \in Answer :
              /\ out' = Append(out, a)
              /\ ~misquoted /\ a.kind = "hash" => a.raw \in Written'
              /\ a.kind = "result" => Written \subseteq a.seen
<1> DEFINE Replied(kind, seen) == [kind |-> kind, raw |-> This.raw, seen |-> seen]
<1>1. ASSUME InHand,
             NEW kind \in {"constant", "result", "hash", "error"},
             NEW seen \in SUBSET Tx, Reply(kind, seen)
      PROVE  Replied(kind, seen) \in Answer /\ out' = Append(out, Replied(kind, seen))
  BY <1>1, HandTypes DEF InHand, Answer, Reply
<1>2. ASSUME chain' = Append(chain, This.raw), Writes(This)
      PROVE  Written' = Written \cup {This.raw}
  <2>1. This.raw \in Tx /\ chain \in Seq(Tx)
    BY <1>2 DEF Writes, TypeOK
  <2> DEFINE x == This.raw
             s == Append(chain, x)
             n == Len(chain)
  <2>2. /\ n \in Nat /\ DOMAIN chain = 1 .. n /\ DOMAIN s = 1 .. n + 1
        /\ s[n + 1] = x /\ \A i \in 1 .. n : s[i] = chain[i]
    BY <2>1, AppendProperties, LenProperties
  <2>3. Written' = {s[i] : i \in DOMAIN s}
    BY <1>2 DEF Written
  <2>4. Written = {chain[i] : i \in 1 .. n}
    BY <2>2 DEF Written
  <2> HIDE DEF s, x, n
  <2>5. {s[i] : i \in 1 .. n + 1} = {chain[i] : i \in 1 .. n} \cup {x}
    <3>1. \A i \in 1 .. n + 1 : i \in 1 .. n \/ i = n + 1
      BY <2>2
    <3>2. 1 .. n \subseteq 1 .. n + 1 /\ n + 1 \in 1 .. n + 1
      BY <2>2
    <3> QED BY <2>2, <3>1, <3>2
  <2> QED BY <2>2, <2>3, <2>4, <2>5 DEF x
<1>3. CASE Constant
  <2>1. InHand /\ Reply("constant", {}) /\ UNCHANGED chain
    BY <1>3 DEF Constant, Busy
  <2>2. Written' = Written
    BY <2>1 DEF Written
  <2>3. Replied("constant", {}) \in Answer /\ out' = Append(out, Replied("constant", {}))
    BY <1>1, <2>1
  <2> QED BY <1>3, <2>1, <2>2, <2>3 DEF Constant, Busy
<1>4. CASE Throw
  <2>1. InHand /\ Reply("error", {}) /\ UNCHANGED chain
    BY <1>4 DEF Throw, Busy
  <2>2. Written' = Written
    BY <2>1 DEF Written
  <2>3. Replied("error", {}) \in Answer /\ out' = Append(out, Replied("error", {}))
    BY <1>1, <2>1
  <2> QED BY <1>4, <2>1, <2>2, <2>3 DEF Throw, Busy
<1>5. CASE VMSucceeds /\ Writes(This)
  <2>1. /\ InHand /\ vm' = "off"
        /\ UNCHANGED <<inbox, cur, waiting, tally, told>>
        /\ chain' = Append(chain, This.raw)
        /\ hashes' = [hashes EXCEPT ![This.raw] = hashes[This.raw] + 1]
        /\ Reply("hash", Written \cup {This.raw})
    BY <1>5 DEF VMSucceeds, WriteTx
  <2>2. Written' = Written \cup {This.raw}
    BY <1>2, <1>5, <2>1
  <2>3. Written \cup {This.raw} \in SUBSET Tx
    BY <1>5, WrittenTypes DEF Writes
  <2> DEFINE a == Replied("hash", Written \cup {This.raw})
  <2>4. a \in Answer /\ out' = Append(out, a)
    BY <1>1, <2>1, <2>3
  <2>5. a.kind = "hash" /\ a.raw = This.raw
    OBVIOUS
  <2> HIDE DEF a
  <2> QED BY <1>5, <2>1, <2>2, <2>4, <2>5
<1>6. CASE VMSucceeds /\ ~Writes(This)
  <2>1. /\ InHand /\ vm' = "off"
        /\ UNCHANGED <<inbox, cur, waiting, tally, told, hashes>>
        /\ ~misquoted => UNCHANGED chain
        /\ Reply("result", Written)
    BY <1>6 DEF VMSucceeds, Working, NoWrite
  <2>2. ~misquoted => Written' = Written
    BY <2>1 DEF Written
  <2> DEFINE a == Replied("result", Written)
  <2>4. a \in Answer /\ out' = Append(out, a)
    BY <1>1, <2>1, WrittenTypes
  <2>5. a.kind = "result" /\ a.seen = Written
    OBVIOUS
  <2> HIDE DEF a
  <2> QED BY <2>1, <2>2, <2>4, <2>5
<1>7. CASE VMFails
  <2>1. /\ InHand /\ vm' = "off"
        /\ UNCHANGED <<inbox, cur, waiting, tally, hashes, told>>
        /\ Reply("error", {})
        /\ ~misquoted => \/ UNCHANGED chain
                         \/ Writes(This) /\ chain' = Append(chain, This.raw)
    BY <1>7 DEF VMFails, VMWroteOrNot, NoWrite, WriteTx, Working
  <2>2. ~misquoted => Written \subseteq Written'
    <3>1. CASE UNCHANGED chain
      BY <3>1 DEF Written
    <3>2. CASE Writes(This) /\ chain' = Append(chain, This.raw)
      BY <1>2, <3>2
    <3> QED BY <2>1, <3>1, <3>2
  <2> DEFINE a == Replied("error", {})
  <2>4. a \in Answer /\ out' = Append(out, a)
    BY <1>1, <2>1
  <2>5. a.kind = "error"
    OBVIOUS
  <2> HIDE DEF a
  <2> QED BY <2>1, <2>2, <2>4, <2>5
<1> QED BY <1>3, <1>4, <1>5, <1>6, <1>7 DEF Answers

-----------------------------------------------------------------------------
(* The machine, the numbers and the floors.                                *)

LEMMA OrderStep ==
  ASSUME TypeOK, Working, Numbered, Floors, ReadsAreCurrent, Next
  PROVE  Working' /\ Numbered' /\ Floors' /\ ReadsAreCurrent'
<1>0. /\ inbox \in Seq(Post) /\ Len(inbox) \in Nat
      /\ DOMAIN inbox = 1 .. Len(inbox)
      /\ out \in Seq(Answer) /\ Len(out) \in Nat
      /\ DOMAIN out = 1 .. Len(out)
      /\ posts \in Nat
  BY LenProperties, EthRpcAssumption DEF TypeOK
<1> DEFINE Goal == Working' /\ Numbered' /\ Floors' /\ ReadsAreCurrent'
<1>1. ASSUME NEW c \in Client, NEW body \in Bodies, Submit(c, body)
      PROVE  Goal
  <2> DEFINE p == [id |-> posts + 1, client |-> c, calls |-> body, floor |-> told]
  <2>1. /\ inbox' = Append(inbox, p) /\ posts' = posts + 1
        /\ UNCHANGED <<cur, out, vm, chain, hashes, told, misquoted>>
    BY <1>1 DEF Submit
  <2>2. p.id = posts + 1 /\ p.floor = told /\ p \in Post
    BY <1>0 DEF Post, TypeOK
  <2> HIDE DEF p
  <2>3. /\ Len(inbox') = Len(inbox) + 1 /\ DOMAIN inbox' = 1 .. Len(inbox) + 1
        /\ inbox'[Len(inbox) + 1] = p
        /\ \A k \in 1 .. Len(inbox) : inbox'[k] = inbox[k]
    BY <1>0, <2>1, <2>2, AppendProperties
  <2>4. Working' /\ ReadsAreCurrent'
    BY <2>1 DEF Working, ReadsAreCurrent, InHand, This, CallsVM, Writes
  <2>5. Numbered'
    <3>1. \A k \in 1 .. Len(inbox) + 1 : k \in 1 .. Len(inbox) \/ k = Len(inbox) + 1
      BY <1>0
    <3> QED BY <1>0, <2>1, <2>2, <2>3, <3>1 DEF Numbered
  <2>6. Floors'
    <3>1. \A k \in 1 .. Len(inbox) + 1 : k \in 1 .. Len(inbox) \/ k = Len(inbox) + 1
      BY <1>0
    <3>2. Written' = Written
      BY <2>1 DEF Written
    <3> QED BY <1>0, <2>1, <2>2, <2>3, <3>1, <3>2 DEF Floors
  <2> QED BY <2>4, <2>5, <2>6
<1>2. ASSUME NEW c \in Client, GiveUp(c) PROVE Goal
  BY <1>2 DEF GiveUp, Working, Numbered, Floors, ReadsAreCurrent,
              InHand, This, CallsVM, Writes, Written
<1>3. CASE Take
  <2>1. /\ inbox' = Tail(inbox) /\ cur' = inbox[1] /\ out' = << >>
        /\ UNCHANGED <<vm, chain, posts, told, misquoted>>
        /\ vm = "off" /\ inbox # << >>
    BY <1>0, <1>3, HeadTailProperties DEF Take, TypeOK
  <2>2. /\ Len(inbox') = Len(inbox) - 1 /\ Len(inbox) >= 1
        /\ DOMAIN inbox' = 1 .. Len(inbox) - 1
        /\ \A k \in 1 .. Len(inbox) - 1 : inbox'[k] = inbox[k + 1]
    <3>1. /\ Len(inbox) >= 1 /\ Len(Tail(inbox)) = Len(inbox) - 1
          /\ \A k \in 1 .. Len(Tail(inbox)) : Tail(inbox)[k] = inbox[k + 1]
      BY <1>0, <2>1, HeadTailProperties, EmptySeq
    <3>2. Tail(inbox) \in Seq(Post)
      BY <1>0, <2>1, HeadTailProperties
    <3> QED BY <2>1, <3>1, <3>2, LenProperties
  <2>3. cur' \in Post /\ Len(out') = 0 /\ DOMAIN out' = {}
    <3>1. inbox[1] \in Post
      BY <1>0, <2>2, ElementOfSeq
    <3> QED BY <2>1, <3>1, EmptySeq
  <2>4. Working'
    <3>1. Len(cur'.calls) \in Nat
      BY <2>3, LenProperties, EthRpcAssumption DEF Post
    <3> QED BY <2>1, <2>3, <3>1 DEF Working
  <2>5. Numbered'
    BY <1>0, <2>1, <2>2 DEF Numbered
  <2>6. Floors'
    <3>1. Written' = Written
      BY <2>1 DEF Written
    <3> QED BY <1>0, <2>1, <2>2, <2>3, <3>1 DEF Floors
  <2>7. ReadsAreCurrent'
    BY <2>3 DEF ReadsAreCurrent
  <2> QED BY <2>4, <2>5, <2>6, <2>7
<1>4. CASE Answers
  <2>1. PICK a \in Answer :
          /\ out' = Append(out, a)
          /\ ~misquoted /\ a.kind = "hash" => a.raw \in Written'
          /\ a.kind = "result" => Written \subseteq a.seen
    BY <1>4, Answering
  <2>2. /\ InHand /\ vm' = "off"
        /\ UNCHANGED <<inbox, cur, waiting, tally, told>>
        /\ ~misquoted => Written \subseteq Written'
    BY <1>4, Answering
  <2>3. /\ Len(out') = Len(out) + 1 /\ DOMAIN out' = 1 .. Len(out) + 1
        /\ out'[Len(out) + 1] = a
        /\ \A i \in 1 .. Len(out) : out'[i] = out[i]
    BY <1>0, <2>1, AppendProperties
  <2>4. \A i \in 1 .. Len(out) + 1 : i \in 1 .. Len(out) \/ i = Len(out) + 1
    BY <1>0
  <2>5. Working'
    <3>1. Len(cur.calls) \in Nat
      BY <2>2, HandTypes DEF InHand
    <3> QED BY <1>0, <2>2, <2>3, <3>1 DEF Working, InHand
  <2>6. Numbered'
    BY <2>2 DEF Numbered
  <2>7. Floors'
    BY <1>0, <2>1, <2>2, <2>3, <2>4 DEF Floors
  <2>8. ReadsAreCurrent'
    <3>1. ~misquoted => cur.floor \subseteq Written
      BY <2>2 DEF Floors, InHand
    <3> QED BY <1>0, <2>1, <2>2, <2>3, <2>4, <3>1 DEF ReadsAreCurrent
  <2> QED BY <2>5, <2>6, <2>7, <2>8
<1>5. CASE ExecuteVM
  BY <1>5 DEF ExecuteVM, Busy, Working, Numbered, Floors, ReadsAreCurrent,
              InHand, This, CallsVM, Writes, Written
<1>6. CASE VMHangs
  BY <1>6 DEF VMHangs, Working, Numbered, Floors, ReadsAreCurrent,
              InHand, This, CallsVM, Writes, Written
<1>7. CASE Respond
  <2>1. /\ cur # NoPost /\ cur' = NoPost
        /\ UNCHANGED <<inbox, out, vm, chain, posts, misquoted>>
    BY <1>7 DEF Respond
  <2>2. vm = "off"
    BY <1>7, HandTypes DEF Respond, Working, InHand
  <2>3. ~misquoted => told \subseteq told' /\ told' \subseteq Written
    BY <1>7 DEF Respond, Floors
  <2>4. Written' = Written
    BY <2>1 DEF Written
  <2> QED BY <2>1, <2>2, <2>3, <2>4 DEF Working, Numbered, Floors, ReadsAreCurrent
<1> QED BY <1>1, <1>2, <1>3, <1>4, <1>5, <1>6, <1>7 DEF Next, EventLoop, Answers

-----------------------------------------------------------------------------
(* The account.                                                            *)

LEMMA CountStep ==
  ASSUME TypeOK, NEW tx \in Tx
  PROVE  /\ Count(tx) \in Nat
         /\ \A x \in Tx : chain' = Append(chain, x)
                         => Count(tx)' = Count(tx) + (IF x = tx THEN 1 ELSE 0)
<1>1. Count(tx) = Cardinality(Occurs(chain, tx))
  BY DEF Count, Occurs
<1>2. Count(tx)' = Cardinality(Occurs(chain', tx))
  BY DEF Count, Occurs
<1>3. chain \in Seq(Tx)
  BY DEF TypeOK
<1>4. Cardinality(Occurs(chain, tx)) \in Nat
  BY <1>3, CountOfAppend
<1>5. ASSUME NEW x \in Tx, chain' = Append(chain, x)
      PROVE  Count(tx)' = Count(tx) + (IF x = tx THEN 1 ELSE 0)
  <2>1. Cardinality(Occurs(Append(chain, x), tx))
          = Cardinality(Occurs(chain, tx)) + (IF x = tx THEN 1 ELSE 0)
    BY <1>3, CountOfAppend
  <2> QED BY <1>1, <1>2, <1>5, <2>1
<1> QED BY <1>1, <1>4, <1>5

(* A step that writes and asks for nothing and adds no debt.               *)
LEMMA AccountKept ==
  ASSUME Accounted, TypeOK, UNCHANGED <<chain, asked, hashes>>,
         misquoted => misquoted',
         \A tx \in Tx : Owed(tx)' \subseteq Owed(tx)
  PROVE  Accounted'
<1> SUFFICES ASSUME NEW tx \in Tx, ~misquoted'
             PROVE  /\ hashes'[tx] <= Count(tx)'
                    /\ IsFiniteSet(Owed(tx)')
                    /\ Count(tx)' + Cardinality(Owed(tx)') <= asked'[tx]
  BY DEF Accounted
<1>1. /\ hashes[tx] <= Count(tx) /\ IsFiniteSet(Owed(tx))
      /\ Count(tx) + Cardinality(Owed(tx)) <= asked[tx]
  BY DEF Accounted
<1>2. Count(tx)' = Count(tx)
  BY DEF Count
<1>3. Count(tx) \in Nat
  BY CountStep
<1> DEFINE S == Owed(tx)
           T == Owed(tx)'
<1>4. T \in SUBSET S /\ IsFiniteSet(S)
  BY <1>1
<1> HIDE DEF S, T
<1>5. /\ IsFiniteSet(T) /\ Cardinality(T) <= Cardinality(S)
      /\ Cardinality(S) \in Nat /\ Cardinality(T) \in Nat
  BY <1>4, FS_Subset, FS_CardinalityType
<1>6. asked[tx] \in Nat
  BY DEF TypeOK
<1>7. Count(tx) + Cardinality(T) <= asked[tx]
  BY <1>1, <1>3, <1>5, <1>6 DEF S
<1> QED BY <1>1, <1>2, <1>5, <1>7 DEF T

(* A set that has lost an element.                                         *)
LEMMA OneLess ==
  ASSUME NEW S, IsFiniteSet(S), NEW T, NEW p \in S, T \subseteq S \ {p}
  PROVE  /\ IsFiniteSet(T) /\ Cardinality(T) \in Nat
         /\ Cardinality(S) \in Nat /\ Cardinality(T) + 1 <= Cardinality(S)
<1>1. IsFiniteSet(S \ {p}) /\ Cardinality(S \ {p}) = Cardinality(S) - 1
  BY FS_RemoveElement
<1>2. T \in SUBSET (S \ {p})
  OBVIOUS
<1>3. IsFiniteSet(T) /\ Cardinality(T) <= Cardinality(S \ {p})
  BY <1>1, <1>2, FS_Subset
<1>4. Cardinality(S) \in Nat /\ Cardinality(T) \in Nat
  BY <1>3, FS_CardinalityType
<1> QED BY <1>1, <1>3, <1>4

LEMMA AccountStep ==
  ASSUME TypeOK, Working, Numbered, Accounted, Next
  PROVE  Accounted'
<1>0. /\ inbox \in Seq(Post) /\ Len(inbox) \in Nat
      /\ DOMAIN inbox = 1 .. Len(inbox)
      /\ out \in Seq(Answer) /\ Len(out) \in Nat
      /\ DOMAIN out = 1 .. Len(out)
      /\ posts \in Nat
  BY LenProperties, EthRpcAssumption DEF TypeOK
<1>a. ASSUME UNCHANGED <<inbox, cur, out>>
      PROVE  \A tx \in Tx : Owed(tx)' \subseteq Owed(tx)
  BY <1>a DEF Owed, Owes
<1>1. ASSUME NEW c \in Client, NEW body \in Bodies, Submit(c, body)
      PROVE  Accounted'
  <2> SUFFICES ASSUME NEW tx \in Tx, ~misquoted'
               PROVE  /\ hashes'[tx] <= Count(tx)'
                      /\ IsFiniteSet(Owed(tx)')
                      /\ Count(tx)' + Cardinality(Owed(tx)') <= asked'[tx]
    BY DEF Accounted
  <2> DEFINE p == [id |-> posts + 1, client |-> c, calls |-> body, floor |-> told]
             P == Places(body, tx)
             new == {posts + 1} \X P
  <2>1. /\ inbox' = Append(inbox, p) /\ asked'[tx] = asked[tx] + Wanted(body, tx)
        /\ UNCHANGED <<cur, out, chain, hashes, misquoted>>
    BY <1>1 DEF Submit
  <2>2. /\ hashes[tx] <= Count(tx) /\ IsFiniteSet(Owed(tx))
        /\ Count(tx) + Cardinality(Owed(tx)) <= asked[tx]
        /\ asked[tx] \in Nat
    BY <2>1 DEF Accounted, TypeOK
  <2>3. Count(tx)' = Count(tx) /\ Count(tx) \in Nat
    BY <2>1, CountStep DEF Count
  <2>4. /\ IsFiniteSet(P) /\ Wanted(body, tx) = Cardinality(P)
        /\ Cardinality(P) \in Nat
    BY WantedIsNat, EthRpcAssumption
  <2>5. p.id = posts + 1 /\ p.calls = body /\ p \in Post
    BY <1>0 DEF Post, TypeOK
  <2> HIDE DEF p
  <2>6. Owed(tx)' \subseteq Owed(tx) \cup new
    <3>1. /\ DOMAIN inbox' = 1 .. Len(inbox) + 1
          /\ inbox'[Len(inbox) + 1] = p
          /\ \A k \in 1 .. Len(inbox) : inbox'[k] = inbox[k]
      BY <1>0, <2>1, <2>5, AppendProperties
    <3> SUFFICES ASSUME NEW id \in Nat, NEW i \in Nat, Owes(id, i, tx)',
                        ~Owes(id, i, tx)
                 PROVE  id = posts + 1 /\ i \in P
      BY DEF Owed
    <3>2. PICK k \in DOMAIN inbox' : /\ inbox'[k].id = id
                                     /\ i \in Places(inbox'[k].calls, tx)
      BY <2>1 DEF Owes
    <3>3. k \notin 1 .. Len(inbox)
      BY <1>0, <3>1, <3>2 DEF Owes
    <3>4. k = Len(inbox) + 1
      BY <1>0, <3>1, <3>3
    <3> QED BY <2>5, <3>1, <3>2, <3>4
  <2>7. IsFiniteSet(new) /\ Cardinality(new) = Cardinality(P)
    <3>1. IsFiniteSet({posts + 1}) /\ Cardinality({posts + 1}) = 1
      BY FS_Singleton
    <3> HIDE DEF P
    <3>2. IsFiniteSet(new) /\ Cardinality(new) = Cardinality({posts + 1}) * Cardinality(P)
      BY <2>4, <3>1, FS_Product
    <3> QED BY <2>4, <3>1, <3>2
  <2> DEFINE S == Owed(tx)
             T == Owed(tx)'
  <2>8. /\ IsFiniteSet(S) /\ T \in SUBSET (S \cup new)
        /\ Count(tx) + Cardinality(S) <= asked[tx]
    BY <2>2, <2>6
  <2> HIDE DEF S, T, new, P
  <2>9. /\ IsFiniteSet(S \cup new)
        /\ Cardinality(S \cup new)
             = Cardinality(S) + Cardinality(new) - Cardinality(S \cap new)
        /\ IsFiniteSet(S \cap new)
    BY <2>7, <2>8, FS_Union, FS_Intersection
  <2>10. IsFiniteSet(T) /\ Cardinality(T) <= Cardinality(S \cup new)
    BY <2>8, <2>9, FS_Subset
  <2>11. /\ Cardinality(T) \in Nat /\ Cardinality(S) \in Nat
         /\ Cardinality(new) \in Nat /\ Cardinality(S \cap new) \in Nat
    BY <2>7, <2>8, <2>9, <2>10, FS_CardinalityType
  <2>12. Count(tx) + Cardinality(T) <= asked[tx] + Cardinality(P)
    BY <2>2, <2>3, <2>7, <2>8, <2>9, <2>10, <2>11
  <2> QED BY <2>1, <2>2, <2>3, <2>4, <2>10, <2>12 DEF T
<1>2. ASSUME NEW c \in Client, GiveUp(c) PROVE Accounted'
  BY <1>2, <1>a, AccountKept DEF GiveUp
<1>3. CASE Take
  <2>1. /\ inbox' = Tail(inbox) /\ cur' = inbox[1] /\ inbox # << >>
        /\ UNCHANGED <<chain, asked, hashes, misquoted>>
    BY <1>0, <1>3, HeadTailProperties DEF Take
  <2>2. /\ 1 \in DOMAIN inbox
        /\ \A k \in DOMAIN inbox' : k + 1 \in DOMAIN inbox /\ inbox'[k] = inbox[k + 1]
    <3>1. /\ Len(inbox) >= 1 /\ Len(Tail(inbox)) = Len(inbox) - 1
          /\ \A k \in 1 .. Len(Tail(inbox)) : Tail(inbox)[k] = inbox[k + 1]
      BY <1>0, <2>1, HeadTailProperties, EmptySeq
    <3>2. DOMAIN inbox' = 1 .. Len(inbox) - 1
      BY <1>0, <2>1, <3>1, HeadTailProperties, LenProperties
    <3> QED BY <1>0, <2>1, <3>1, <3>2
  <2>3. \A tx \in Tx : Owed(tx)' \subseteq Owed(tx)
    <3> SUFFICES ASSUME NEW tx \in Tx, NEW id \in Nat, NEW i \in Nat,
                        Owes(id, i, tx)'
                 PROVE  Owes(id, i, tx)
      BY DEF Owed
    <3>1. CASE \E k \in DOMAIN inbox' : /\ inbox'[k].id = id
                                        /\ i \in Places(inbox'[k].calls, tx)
      BY <2>2, <3>1 DEF Owes
    <3>2. CASE cur'.id = id /\ i \in Places(cur'.calls, tx)
      BY <2>1, <2>2, <3>2 DEF Owes
    <3> QED BY <3>1, <3>2 DEF Owes
  <2> QED BY <2>1, <2>3, AccountKept
<1>4. CASE Answers
  <2>1. /\ InHand /\ UNCHANGED <<inbox, cur, asked, misquoted>>
        /\ Len(out') = Len(out) + 1
    <3>1. PICK a \in Answer : out' = Append(out, a)
      BY <1>4, Answering
    <3> QED BY <1>0, <1>4, <3>1, Answering, AppendProperties
  <2>2. \A tx \in Tx : Owed(tx)' \subseteq Owed(tx) \ {<<cur.id, Len(out) + 1>>}
    <3> SUFFICES ASSUME NEW tx \in Tx, NEW id \in Nat, NEW i \in Nat,
                        Owes(id, i, tx)'
                 PROVE  Owes(id, i, tx) /\ <<id, i>> # <<cur.id, Len(out) + 1>>
      BY DEF Owed
    <3>1. CASE \E k \in DOMAIN inbox : /\ inbox[k].id = id
                                       /\ i \in Places(inbox[k].calls, tx)
      <4>1. Owes(id, i, tx)
        BY <3>1 DEF Owes
      <4>2. id # cur.id
        BY <1>0, <2>1, <3>1 DEF Numbered, InHand
      <4> QED BY <4>1, <4>2
    <3>2. CASE /\ cur.id = id /\ i > Len(out) + 1
               /\ i \in Places(cur.calls, tx)
      BY <1>0, <2>1, <3>2 DEF Owes, InHand
    <3> QED BY <2>1, <3>1, <3>2 DEF Owes
  <2>3. CASE UNCHANGED <<chain, hashes>>
    <3>1. \A tx \in Tx : Owed(tx)' \subseteq Owed(tx)
      BY <2>2
    <3> QED BY <2>1, <2>3, <3>1, AccountKept
  <2>4. CASE /\ Writes(This) /\ chain' = Append(chain, This.raw)
             /\ \/ UNCHANGED hashes
                \/ hashes' = [hashes EXCEPT ![This.raw] = hashes[This.raw] + 1]
    <3> SUFFICES ASSUME NEW tx \in Tx, ~misquoted'
                 PROVE  /\ hashes'[tx] <= Count(tx)'
                        /\ IsFiniteSet(Owed(tx)')
                        /\ Count(tx)' + Cardinality(Owed(tx)') <= asked'[tx]
      BY DEF Accounted
    <3> DEFINE S == Owed(tx)
               T == Owed(tx)'
               p == <<cur.id, Len(out) + 1>>
               x == This.raw
    <3>1. /\ hashes[tx] <= Count(tx) /\ IsFiniteSet(S)
          /\ Count(tx) + Cardinality(S) <= asked[tx]
          /\ asked[tx] \in Nat /\ hashes[tx] \in Nat
      BY <2>1 DEF Accounted, TypeOK
    <3>2. x \in Tx
      BY <2>4 DEF Writes
    <3>3. T \subseteq S \ {p}
      BY <2>2
    <3>4. /\ Count(tx) \in Nat
          /\ Count(tx)' = Count(tx) + (IF x = tx THEN 1 ELSE 0)
      BY <2>4, <3>2, CountStep
    <3>5. x = tx => p \in S
      <4> SUFFICES ASSUME x = tx PROVE p \in S
        OBVIOUS
      <4>1. Len(out) + 1 \in Places(cur.calls, tx)
        BY <2>1, <2>4, HandTypes DEF InHand, Places, This
      <4>2. cur.id \in Nat /\ Len(out) + 1 \in Nat /\ Len(out) + 1 > Len(out)
        BY <1>0, <2>1, HandTypes DEF InHand, Post
      <4> QED BY <2>1, <4>1, <4>2 DEF Owed, Owes, InHand
    <3>6. hashes'[tx] = hashes[tx] \/ (x = tx /\ hashes'[tx] = hashes[tx] + 1)
      BY <2>4, <3>2 DEF TypeOK
    <3>7. asked' = asked
      BY <2>1
    <3>8. /\ IsFiniteSet(T) /\ Cardinality(T) \in Nat /\ Cardinality(S) \in Nat
          /\ Cardinality(T) <= Cardinality(S)
          /\ x = tx => Cardinality(T) + 1 <= Cardinality(S)
      <4> HIDE DEF S, T, p, x
      <4>1. T \in SUBSET S
        BY <3>3
      <4>2. /\ IsFiniteSet(T) /\ Cardinality(T) <= Cardinality(S)
            /\ Cardinality(T) \in Nat /\ Cardinality(S) \in Nat
        BY <3>1, <4>1, FS_Subset, FS_CardinalityType
      <4>3. x = tx => Cardinality(T) + 1 <= Cardinality(S)
        BY <3>1, <3>3, <3>5, OneLess
      <4> QED BY <4>2, <4>3
    <3>9. hashes'[tx] <= Count(tx)' /\ Count(tx)' + Cardinality(T) <= asked[tx]
      <4> HIDE DEF S, T, p, x
      <4> DEFINE b == Count(tx)
                 b1 == Count(tx)'
                 h == hashes[tx]
                 h1 == hashes'[tx]
                 s == Cardinality(S)
                 t == Cardinality(T)
      <4>1. /\ b \in Nat /\ h \in Nat /\ s \in Nat /\ t \in Nat
            /\ asked[tx] \in Nat
            /\ h <= b /\ b + s <= asked[tx] /\ t <= s
        BY <3>1, <3>4, <3>8
      <4>2. \/ x = tx /\ b1 = b + 1 /\ t + 1 <= s /\ h1 \in {h, h + 1}
            \/ x # tx /\ b1 = b /\ h1 = h
        BY <3>4, <3>6, <3>8
      <4> HIDE DEF b, b1, h, h1, s, t
      <4>3. h1 <= b1 /\ b1 + t <= asked[tx]
        BY <4>1, <4>2
      <4> QED BY <4>3 DEF b1, h1, t
    <3> QED BY <3>7, <3>8, <3>9
  <2>5. CASE misquoted
    BY <2>1, <2>5 DEF Accounted
  <2> QED BY <1>4, <2>3, <2>4, <2>5, Answering
<1>5. CASE ExecuteVM
  BY <1>5, <1>a, AccountKept DEF ExecuteVM
<1>6. CASE VMHangs
  BY <1>6, <1>a, AccountKept DEF VMHangs
<1>7. CASE Respond
  <2>1. cur' = NoPost /\ UNCHANGED <<inbox, out, chain, asked, hashes, misquoted>>
    BY <1>7 DEF Respond
  <2>2. \A tx \in Tx : Owed(tx)' \subseteq Owed(tx)
    BY <2>1 DEF Owed, Owes
  <2> QED BY <2>1, <2>2, AccountKept
<1> QED BY <1>1, <1>2, <1>3, <1>4, <1>5, <1>6, <1>7 DEF Next, EventLoop, Answers

-----------------------------------------------------------------------------
(* The invariant, and what follows from it.                                *)

THEOREM RpcStep == RpcInv /\ [Next]_vars => RpcInv'
<1> SUFFICES ASSUME RpcInv, [Next]_vars PROVE RpcInv'
  OBVIOUS
<1>1. CASE Next
  BY <1>1, TypeStep, OrderStep, AccountStep DEF RpcInv
<1>2. CASE UNCHANGED vars
  BY <1>2 DEF vars, RpcInv, TypeOK, Working, Numbered, Floors, ReadsAreCurrent,
              Accounted, Owed, Owes, InHand, This, CallsVM, Writes, Written, Count
<1> QED BY <1>1, <1>2

THEOREM RpcInvariant == Spec => []RpcInv
BY InitRpcInv, RpcStep, PTL DEF Spec

(* Every state of the server has the types of TypeOK: posts, answers and   *)
(* counters are what index.js:46-80 and :167-245 handle, and the virtual   *)
(* machine is off whenever no post is in hand.                             *)
THEOREM RpcTypes == Spec => []TypeOK
BY RpcInvariant, PTL DEF RpcInv

(* For any clients, bodies and number of posts: no transaction gets into   *)
(* chain.sqlite more often than calls asked for it, and each hash that was *)
(* answered stands for a write of its own (index.js:167-183, 206-245), as  *)
(* long as no eth_call has taken a single quote into a command (67-80).    *)
THEOREM WrittenAsAskedAlways == Spec => []WrittenAsAsked
<1>1. ASSUME RpcInv PROVE WrittenAsAsked
  <2> SUFFICES ASSUME NEW tx \in Tx, ~misquoted
               PROVE  hashes[tx] <= Count(tx) /\ Count(tx) <= asked[tx]
    BY DEF WrittenAsAsked
  <2>1. /\ hashes[tx] <= Count(tx) /\ IsFiniteSet(Owed(tx))
        /\ Count(tx) + Cardinality(Owed(tx)) <= asked[tx]
        /\ asked[tx] \in Nat
    BY <1>1 DEF RpcInv, Accounted, TypeOK
  <2>2. Cardinality(Owed(tx)) \in Nat
    BY <2>1, FS_CardinalityType
  <2>3. Count(tx) \in Nat
    BY <1>1, CountStep DEF RpcInv
  <2> QED BY <2>1, <2>2, <2>3
<1> QED BY <1>1, RpcInvariant, PTL

(* For any clients, bodies and number of posts: an eth_call sees every     *)
(* transaction whose hash had been sent to anyone before it was posted     *)
(* (index.js:80, 240), as long as no single quote has got into a command.  *)
THEOREM ReadsAreCurrentAlways == Spec => []ReadsAreCurrent
BY RpcInvariant, PTL DEF RpcInv
=============================================================================
