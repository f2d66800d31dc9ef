------------------------------- MODULE EthRpc -------------------------------
(***************************************************************************)
(* rpc/src/index.js: the Ethereum JSON-RPC server.                         *)
(*                                                                         *)
(* One event loop handles HTTP posts.  A post holds a call or a batch of   *)
(* calls.  Most methods answer a constant or throw; eth_call runs the      *)
(* virtual machine without writing, eth_sendRawTransaction runs it with    *)
(* --write on chain.sqlite.  Either waits in execSync, so that nothing     *)
(* else happens in the server until the machine has ended.                 *)
(*                                                                         *)
(* The virtual machine and the JSON-RPC library are external.  The machine *)
(* may fail, before or after its write, or never end; the library turns    *)
(* what a method throws into an error of that call, and answers nothing to *)
(* a notification.                                                         *)
(*                                                                         *)
(* The machine is a shell command, and its input stands in it between      *)
(* single quotes, with nothing escaped.  What a signed transaction holds   *)
(* is written in hexadecimal first, but the parameters of an eth_call are  *)
(* as the client sent them: with a single quote among them the command is  *)
(* another one than was meant, and the model says little of what it does.  *)
(***************************************************************************)
EXTENDS Integers, Sequences, FiniteSets

CONSTANTS
  Client,      \* HTTP clients
  Tx,          \* signed raw transactions
  Unparsed,    \* a raw transaction that does not parse
  Unsigned,    \* one without a signature
  NoRaw,       \* no raw transaction
  Quoted,      \* parameters with a single quote among them
  NoPost,      \* no post in hand
  Bodies,      \* sequences of calls that a client may post
  MaxPosts     \* bound: posts

Raw == Tx \cup {Unparsed, Unsigned, NoRaw, Quoted}

(* The methods of the server, by what they do.                             *)

Unsupported ==
  {"eth_coinbase", "eth_getTransactionByBlockHashAndIndex",
   "eth_getTransactionByBlockNumberAndIndex",
   "eth_getUncleByBlockHashAndIndex", "eth_getUncleByBlockNumberAndIndex",
   "eth_getUncleCountByBlockHash", "eth_getUncleCountByBlockNumber"}

Filters ==
  {"eth_newFilter", "eth_newBlockFilter", "eth_newPendingTransactionFilter",
   "eth_uninstallFilter", "eth_getFilterChanges", "eth_getFilterLogs",
   "eth_getLogs"}

Throwing == Unsupported \cup Filters \cup {"eth_sendTransaction", "net_version"}

Receipts == {"eth_getTransactionReceipt", "eth_getTransactionByHash"}

WorldState == {"eth_getTransactionCount", "eth_getBalance", "eth_accounts",
               "eth_getCode", "eth_getStorageAt"}

Blocks ==
  {"eth_getBlockByHash", "eth_getBlockByNumber",
   "eth_getBlockTransactionCountByHash",
   "eth_getBlockTransactionCountByNumber", "eth_blockNumber"}

Network == {"eth_gasPrice", "eth_chainId", "web3_clientVersion"}

Stubbed == Receipts \cup WorldState \cup Blocks \cup Network
             \cup {"eth_estimateGas"}

Method == Throwing \cup Stubbed \cup {"eth_call", "eth_sendRawTransaction"}

Call == [method : Method \cup {"unknown"}, raw : Raw, notify : BOOLEAN]

ASSUME EthRpcAssumption ==
  /\ Bodies \subseteq Seq(Call)
  /\ MaxPosts \in Nat
  /\ Tx \cap {Unparsed, Unsigned, NoRaw, Quoted} = {}

VARIABLES
  inbox,       \* posts the event loop has not come to
  cur,         \* the post in hand
  out,         \* answers to its calls so far
  vm,          \* "off" | "running" | "hung"
  chain,       \* transactions written to chain.sqlite
  waiting,     \* waiting[c]: the number of the post c waits for, or 0
  \* history
  posts,       \* posts so far
  asked,       \* asked[tx]: calls that ask for tx to be written
  hashes,      \* hashes[tx]: calls for tx whose answer was a hash
  told,        \* transactions whose hash has been sent to some client
  misquoted    \* a command has been run with a quote in its input

tally == <<posts, asked, misquoted>>

vars == <<inbox, cur, out, vm, chain, waiting, tally, hashes, told>>

\* seen: what the chain held when the machine ended.
Answer == [kind : {"constant", "result", "hash", "error"},
           raw  : Raw,
           seen : SUBSET Tx]

\* floor: what had been told to anyone when the post was sent.
Post == [id : Nat, client : Client, calls : Bodies, floor : SUBSET Tx]

Written == {chain[i] : i \in DOMAIN chain}

TypeOK ==
  /\ inbox \in Seq(Post)
  /\ cur \in Post \cup {NoPost}
  /\ out \in Seq(Answer)
  /\ vm \in {"off", "running", "hung"}
  /\ chain \in Seq(Tx)
  /\ waiting \in [Client -> Nat]
  /\ posts \in 0 .. MaxPosts
  /\ asked \in [Tx -> Nat] /\ hashes \in [Tx -> Nat]
  /\ told \subseteq Tx /\ misquoted \in BOOLEAN
  /\ cur = NoPost => vm = "off"

Init ==
  /\ inbox = << >> /\ cur = NoPost /\ out = << >>
  /\ vm = "off" /\ chain = << >>
  /\ waiting = [c \in Client |-> 0]
  /\ posts = 0
  /\ asked = [tx \in Tx |-> 0] /\ hashes = [tx \in Tx |-> 0]
  /\ told = {} /\ misquoted = FALSE

-----------------------------------------------------------------------------
(* Clients.                                                                *)

Writes(call) == call.method = "eth_sendRawTransaction" /\ call.raw \in Tx

\* How many calls of a body write tx.
Wanted(body, tx) ==
  Cardinality({i \in DOMAIN body : Writes(body[i]) /\ body[i].raw = tx})

Submit(c, body) ==
  /\ waiting[c] = 0 /\ posts < MaxPosts
  /\ posts' = posts + 1
  /\ waiting' = [waiting EXCEPT ![c] = posts']
  /\ inbox' = Append(inbox, [id |-> posts', client |-> c, calls |-> body,
                             floor |-> told])
  /\ asked' = [tx \in Tx |-> asked[tx] + Wanted(body, tx)]
  /\ UNCHANGED <<cur, out, vm, chain, hashes, told, misquoted>>

\* The client stops waiting; the server does not notice.
GiveUp(c) ==
  /\ waiting[c] # 0
  /\ waiting' = [waiting EXCEPT ![c] = 0]
  /\ UNCHANGED <<inbox, cur, out, vm, chain, tally, hashes, told>>

-----------------------------------------------------------------------------
(* The event loop.                                                         *)

Take ==
  /\ cur = NoPost /\ inbox # << >>
  /\ cur' = Head(inbox) /\ inbox' = Tail(inbox)
  /\ out' = << >>
  /\ UNCHANGED <<vm, chain, waiting, tally, hashes, told>>

\* The call in hand.
InHand == cur # NoPost /\ Len(out) < Len(cur.calls)
Busy == InHand /\ vm = "off"
This == cur.calls[Len(out) + 1]

Reply(kind, seen) ==
  out' = Append(out, [kind |-> kind, raw |-> This.raw, seen |-> seen])

\* A constant; or the method is unknown to the library, or throws: it is
\* unsupported or unimplemented, an eth_call has no parameters, or a raw
\* transaction does not parse or is not signed.
Constant ==
  /\ Busy /\ This.method \in Stubbed
  /\ Reply("constant", {})
  /\ UNCHANGED <<inbox, cur, vm, chain, waiting, tally, hashes, told>>

Throw ==
  /\ Busy
  /\ \/ This.method \in Throwing \cup {"unknown"}
     \/ This.method = "eth_call" /\ This.raw = NoRaw
     \/ This.method = "eth_sendRawTransaction" /\ This.raw \notin Tx
  /\ Reply("error", {})
  /\ UNCHANGED <<inbox, cur, vm, chain, waiting, tally, hashes, told>>

\* executeVM starts the machine and waits.
CallsVM(call) ==
  \/ call.method = "eth_call" /\ call.raw # NoRaw
  \/ Writes(call)

MutantAsync ==               \* answers at once, the machine still running
  /\ Busy /\ CallsVM(This)
  /\ vm' = "running"
  /\ Reply(IF Writes(This) THEN "hash" ELSE "result", Written)
  /\ UNCHANGED <<inbox, cur, chain, waiting, tally, hashes, told>>

ExecuteVM ==
  /\ Busy /\ CallsVM(This)
  /\ vm' = "running"
  /\ misquoted' = (misquoted \/ This.raw = Quoted)
  /\ UNCHANGED <<inbox, cur, out, chain, waiting, posts, asked, hashes, told>>

WriteTx(tx) == chain' = Append(chain, tx)

\* A run that was not asked to write.  With a quote in its input it may be
\* anything; here it writes a transaction, loses the chain, or does neither.
NoWrite ==
  \/ UNCHANGED chain
  \/ This.raw = Quoted /\ (chain' = << >> \/ \E tx \in Tx : WriteTx(tx))

\* The machine ends well: the output of an eth_call, or the hash, which is
\* one constant for every transaction.
MutantNoWrite ==             \* --write is forgotten
  /\ InHand /\ vm = "running"
  /\ vm' = "off"
  /\ UNCHANGED chain
  /\ IF Writes(This)
     THEN /\ Reply("hash", Written)
          /\ hashes' = [hashes EXCEPT ![This.raw] = @ + 1]
     ELSE /\ Reply("result", Written)
          /\ UNCHANGED hashes
  /\ UNCHANGED <<inbox, cur, waiting, tally, told>>

VMSucceeds ==
  /\ InHand /\ vm = "running"
  /\ vm' = "off"
  /\ IF Writes(This)
     THEN /\ WriteTx(This.raw)
          /\ Reply("hash", Written \cup {This.raw})
          /\ hashes' = [hashes EXCEPT ![This.raw] = @ + 1]
     ELSE /\ NoWrite
          /\ Reply("result", Written)
          /\ UNCHANGED hashes
  /\ UNCHANGED <<inbox, cur, waiting, tally, told>>

\* It fails, maybe after its write: execSync throws, the call answers an
\* error, and nothing is tried again.
VMWroteOrNot ==
  \/ NoWrite
  \/ Writes(This) /\ WriteTx(This.raw)

MutantRetry ==               \* runs the machine again
  /\ InHand /\ vm = "running"
  /\ VMWroteOrNot /\ chain' # chain
  /\ UNCHANGED <<inbox, cur, out, vm, waiting, tally, hashes, told>>

MutantDropPost ==            \* the error ends the post without an answer
  /\ InHand /\ vm = "running"
  /\ vm' = "off" /\ cur' = NoPost
  /\ VMWroteOrNot
  /\ UNCHANGED <<inbox, out, waiting, tally, hashes, told>>

VMFails ==
  /\ InHand /\ vm = "running"
  /\ vm' = "off"
  /\ VMWroteOrNot
  /\ Reply("error", {})
  /\ UNCHANGED <<inbox, cur, waiting, tally, hashes, told>>

VMHangs ==
  /\ vm = "running"
  /\ vm' = "hung"
  /\ UNCHANGED <<inbox, cur, out, chain, waiting, tally, hashes, told>>

\* All calls have ended: one response with the answers to those that are no
\* notifications, or 204 without content.
Respond ==
  /\ cur # NoPost /\ Len(out) = Len(cur.calls)
  /\ cur' = NoPost
  /\ LET heard == waiting[cur.client] = cur.id
     IN  /\ waiting' = IF heard THEN [waiting EXCEPT ![cur.client] = 0]
                                ELSE waiting
         /\ told' = told \cup
              {tx \in Tx : /\ heard
                           /\ \E i \in DOMAIN out : /\ ~cur.calls[i].notify
                                                    /\ out[i].kind = "hash"
                                                    /\ out[i].raw = tx}
  /\ UNCHANGED <<inbox, out, vm, chain, tally, hashes>>

-----------------------------------------------------------------------------
EventLoop ==
  \/ Take \/ Constant \/ Throw \/ ExecuteVM
  \/ VMSucceeds \/ VMFails \/ VMHangs
  \/ Respond

Next ==
  \/ \E c \in Client, body \in Bodies : Submit(c, body)
  \/ \E c \in Client : GiveUp(c)
  \/ EventLoop

Spec == Init /\ [][Next]_vars

\* The event loop runs; whether the machine ends is not assumed.
FairSpec == Spec /\ WF_vars(EventLoop)

-----------------------------------------------------------------------------
(* Properties.                                                             *)

Count(tx) == Cardinality({i \in DOMAIN chain : chain[i] = tx})

(* A hash is answered only for a transaction that was written, and the     *)
(* chain holds a transaction no more often than clients asked for it: no   *)
(* constant, read, rejected call or failed machine writes one more         *)
(* (index.js:167-183, 206-245).  A client that gives up and asks again has *)
(* asked twice, and twice it may be written.  Nothing of this is left once *)
(* an eth_call had a single quote in its parameters: executeVM does not    *)
(* escape it in the command (index.js:67-80).                              *)
WrittenAsAsked ==
  ~misquoted =>
    \A tx \in Tx : hashes[tx] <= Count(tx) /\ Count(tx) <= asked[tx]

(* An eth_call sees every transaction whose hash any client had been sent  *)
(* when the call was posted, whatever runs in between: the machine is      *)
(* waited for, and posts are handled one by one (index.js:80, 240).        *)
(* Again only while no parameter with a single quote has reached a command *)
(* (index.js:67-80).                                                       *)
ReadsAreCurrent ==
  ~misquoted /\ cur # NoPost =>
    \A i \in DOMAIN out : out[i].kind = "result" => cur.floor \subseteq out[i].seen

(* A client that waits gets its response, errors included, unless the      *)
(* machine has hung: then nobody gets one any more (index.js:80 has no     *)
(* timeout).                                                               *)
PostAnswered ==
  \A c \in Client : waiting[c] # 0 ~> waiting[c] = 0 \/ vm = "hung"
=============================================================================
