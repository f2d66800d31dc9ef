---------------------------- MODULE Transactions ----------------------------
(***************************************************************************)
(* How a client of package messages makes a transaction: build it, name    *)
(* its sender, sign it (messages/methods.go, the signer of utils).         *)
(*                                                                         *)
(* A digest is the record it was taken of, so distinct contents have       *)
(* distinct digests; a signature is its key and its digest.  A public key  *)
(* and its compressed form are the same value.                             *)
(***************************************************************************)
EXTENDS Messages

Sign(key, digest) == <<key, digest>>

\* SigHash of a transaction: the digest of a clone without signature.
TxSigHash(tx) == [tx EXCEPT !.sig = NoSig]

ConstructSequenceMessage(nonce, expiry) ==
  [nonce |-> nonce, expires |-> {expiry}, from |-> NoSig, sig |-> NoSig]

SetFrom(tx, key) == [tx EXCEPT !.from = key]

SignedTx(tx, key) == [tx EXCEPT !.sig = Sign(key, TxSigHash(tx))]

\* The sender is named, and the signature recovers its key for the digest.
SignatureMatchesFrom(tx) ==
  /\ tx.from # NoSig
  /\ tx.sig = Sign(tx.from, TxSigHash(tx))
=============================================================================
