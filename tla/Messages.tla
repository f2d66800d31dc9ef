------------------------------ MODULE Messages ------------------------------
(***************************************************************************)
(* The messages of the sequencer (package messages: SequenceTx, Block) and *)
(* the checks of SequencerCore that depend on a message alone.             *)
(*                                                                         *)
(* A hash is represented by what it commits to: the (height, body) pairs   *)
(* of a block and of all its ancestors, oldest first.  Two blocks have     *)
(* the same hash exactly when they agree on height, body and previous      *)
(* hash, which is collision resistance of Keccak-256 over the encoding.    *)
(*                                                                         *)
(* A signature is represented by the key that Ecrecover returns for it and *)
(* the digest it is attached to: a signature made for another digest       *)
(* recovers some other key.                                                *)
(***************************************************************************)
EXTENDS Naturals, Sequences

CONSTANTS
  Tx,          \* transactions (SequenceTx messages) clients may submit
  NoTx,        \* the nil Body of the genesis block or of a malformed block
  Authentic,   \* the well-formed transactions whose signature matches From
  Expires,     \* Expires[tx]: the set of expiry conditions tx carries
  Unknown,     \* an expiry condition that is not of the UNIX kind
  Key,         \* public keys
  NoSig,       \* the nil signature of a block, and the nil signer of a node
  Operator     \* the key of operatorChangeHistory[0]

ASSUME MessagesAssumption ==
  /\ NoTx \notin Tx
  /\ Authentic \subseteq Tx
  /\ Expires \in [Tx -> SUBSET (Nat \cup {Unknown})]
  /\ Unknown \notin Nat
  /\ Operator \in Key
  /\ NoSig \notin Key

-----------------------------------------------------------------------------
Hash  == Seq(Nat \X (Tx \cup {NoTx}))
Block == [prev   : Hash,
          height : Nat,
          body   : Tx \cup {NoTx},
          sig    : Key \cup {NoSig}]

\* The digest of a block leaves its signature out.
SigHash(b) == Append(b.prev, <<b.height, b.body>>)

Genesis == [prev |-> << >>, height |-> 0, body |-> NoTx, sig |-> NoSig]

ConstructBlock(tx) ==
  [prev |-> << >>, height |-> 0, body |-> tx, sig |-> NoSig]

\* Sign the digest of block with key.
Signed(block, key) == [block EXCEPT !.sig = key]

\* The block that follows parent and carries tx, signed with key.
ChainedBlock(parent, tx, key) ==
  Signed([ConstructBlock(tx) EXCEPT !.height = parent.height + 1,
                                    !.prev   = SigHash(parent)],
         key)

MutantAnySigner(b) == b.sig # NoSig

SignedByOperator(b) == b.sig = Operator

\* The conditions of verifySequenceMessage: authenticity, then every expiry
\* condition; UNIX conditions are compared with the clock only on request.
VerifySequenceMessage(tx, checkUnixExpiry, time) ==
  /\ tx \in Authentic
  /\ Unknown \notin Expires[tx]
  /\ checkUnixExpiry => \A t \in Expires[tx] : t >= time

\* What a replica demands of a transaction: everything but the clock.
Admissible(tx) == tx \in Authentic /\ Unknown \notin Expires[tx]
=============================================================================
