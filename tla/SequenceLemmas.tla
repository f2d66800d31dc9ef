--------------------------- MODULE SequenceLemmas ---------------------------
(***************************************************************************)
(* What the proofs need to know of sequences: what appending an element    *)
(* does to a prefix and to a suffix of a table, and what a step of a queue *)
(* does to the number of times a message is in it.                         *)
(***************************************************************************)
EXTENDS Integers, Sequences, FiniteSets, SequenceTheorems, FiniteSetTheorems,
        TLAPS

(* The table as it was is a prefix of the table that has grown by a row.   *)
LEMMA AppendKeeps ==
  ASSUME NEW S, NEW s \in Seq(S), NEW e \in S
  PROVE  /\ Len(Append(s, e)) = Len(s) + 1
         /\ SubSeq(Append(s, e), 1, Len(s)) = s
BY AppendProperties, SubSeqFull, LenProperties

(* The rows after row m of a table that has grown by a row.                *)
LEMMA SuffixOfAppend ==
  ASSUME NEW S, NEW s \in Seq(S), NEW e \in S, NEW m \in 0 .. Len(s)
  PROVE  SubSeq(Append(s, e), m + 1, Len(Append(s, e)))
           = Append(SubSeq(s, m + 1, Len(s)), e)
<1> DEFINE n == Len(s)
           t == Append(s, e)
           l == SubSeq(t, m + 1, n + 1)
           c == SubSeq(s, m + 1, n)
<1>1. /\ n \in Nat /\ t \in Seq(S) /\ Len(t) = n + 1
      /\ \A i \in 1 .. n : t[i] = s[i] /\ s[i] \in S
      /\ t[n + 1] = e
  BY AppendProperties, LenProperties, ElementOfSeq
<1>2. /\ l \in Seq(S) /\ Len(l) = n - m + 1
      /\ \A i \in 1 .. n - m + 1 : l[i] = t[m + i]
  <2>1. \A i \in m + 1 .. n + 1 : t[i] \in S
    BY <1>1
  <2>2. /\ l \in Seq(S)
        /\ Len(l) = IF m + 1 <= n + 1 THEN (n + 1) - (m + 1) + 1 ELSE 0
        /\ \A i \in 1 .. (n + 1) - (m + 1) + 1 : l[i] = t[(m + 1) + i - 1]
    BY <1>1, <2>1, SubSeqProperties
  <2> HIDE DEF t, l
  <2> QED BY <1>1, <2>2
<1>3. /\ c \in Seq(S) /\ Len(c) = n - m
      /\ \A i \in 1 .. n - m : c[i] = s[m + i]
  <2>1. \A i \in m + 1 .. n : s[i] \in S
    BY <1>1
  <2>2. /\ c \in Seq(S)
        /\ Len(c) = IF m + 1 <= n THEN n - (m + 1) + 1 ELSE 0
        /\ \A i \in 1 .. n - (m + 1) + 1 : c[i] = s[(m + 1) + i - 1]
    BY <1>1, <2>1, SubSeqProperties
  <2> HIDE DEF c
  <2> QED BY <1>1, <2>2
<1>4. /\ Append(c, e) \in Seq(S) /\ Len(Append(c, e)) = n - m + 1
      /\ \A i \in 1 .. n - m : Append(c, e)[i] = c[i]
      /\ Append(c, e)[n - m + 1] = e
  BY <1>3, AppendProperties
<1>5. ASSUME NEW i \in 1 .. n - m + 1 PROVE l[i] = Append(c, e)[i]
  <2> HIDE DEF l, c, t
  <2>1. CASE i = n - m + 1
    BY <1>1, <1>2, <1>4, <2>1
  <2>2. CASE i # n - m + 1
    <3>1. i \in 1 .. n - m /\ m + i \in 1 .. n
      BY <1>1, <2>2
    <3> QED BY <1>1, <1>2, <1>3, <1>4, <3>1
  <2> QED BY <2>1, <2>2
<1>6. l = Append(c, e)
  <2> HIDE DEF l, c, t
  <2> QED BY <1>2, <1>4, <1>5, SeqEqual
<1> QED BY <1>1, <1>6

-----------------------------------------------------------------------------
(* The places of x in s.                                                   *)
Occurs(s, x) == {i \in DOMAIN s : s[i] = x}

(* How often x occurs in a sequence that has grown by e.                   *)
LEMMA CountOfAppend ==
  ASSUME NEW S, NEW s \in Seq(S), NEW e \in S, NEW x
  PROVE  /\ Cardinality(Occurs(s, x)) \in Nat
         /\ Cardinality(Occurs(Append(s, e), x))
              = Cardinality(Occurs(s, x)) + (IF e = x THEN 1 ELSE 0)
<1> DEFINE A == {i \in DOMAIN s : s[i] = x}
           t == Append(s, e)
           B == {i \in DOMAIN t : t[i] = x}
           n == Len(s)
<1>1. /\ n \in Nat /\ DOMAIN s = 1 .. n /\ DOMAIN t = 1 .. n + 1
      /\ \A i \in 1 .. n : t[i] = s[i]
      /\ t[n + 1] = e
  BY AppendProperties, LenProperties
<1>2. IsFiniteSet(A) /\ Cardinality(A) \in Nat
  <2>1. IsFiniteSet(1 .. n) /\ A \in SUBSET (1 .. n)
    BY <1>1, FS_Interval
  <2> QED BY <2>1, FS_Subset, FS_CardinalityType
<1>3. B = IF e = x THEN A \cup {n + 1} ELSE A
  <2> HIDE DEF t, n
  <2>1. \A i \in 1 .. n + 1 : i \in 1 .. n \/ i = n + 1
    BY <1>1
  <2>2. 1 .. n \subseteq 1 .. n + 1 /\ n + 1 \in 1 .. n + 1
    BY <1>1
  <2> QED BY <1>1, <2>1, <2>2
<1>4. n + 1 \notin A
  BY <1>1
<1> HIDE DEF A, B, t, n
<1>5. Cardinality(A \cup {n + 1}) = Cardinality(A) + 1
  BY <1>2, <1>4, FS_AddElement, Zenon
<1>6. Cardinality(B) = Cardinality(A) + (IF e = x THEN 1 ELSE 0)
  <2>1. CASE e = x
    BY <1>3, <1>5, <2>1
  <2>2. CASE e # x
    BY <1>2, <1>3, <2>2
  <2> QED BY <2>1, <2>2
<1> QED BY <1>2, <1>6 DEF A, B, t, Occurs

(* How often x occurs in a sequence without its head.                      *)
LEMMA CountOfTail ==
  ASSUME NEW S, NEW s \in Seq(S), s # << >>, NEW x
  PROVE  Cardinality(Occurs(s, x))
           = Cardinality(Occurs(Tail(s), x)) + (IF Head(s) = x THEN 1 ELSE 0)
<1> DEFINE t == Tail(s)
           n == Len(s)
           A == Occurs(t, x)
           B == {i \in 2 .. n : s[i] = x}
           f == [i \in A |-> i + 1]
<1>1. /\ n \in Nat /\ n >= 1 /\ DOMAIN s = 1 .. n
      /\ DOMAIN t = 1 .. n - 1
      /\ \A i \in 1 .. n - 1 : t[i] = s[i + 1]
      /\ Head(s) = s[1]
  BY HeadTailProperties, LenProperties, EmptySeq
<1>2. A \in SUBSET (1 .. n - 1) /\ IsFiniteSet(1 .. n - 1)
  BY <1>1, FS_Interval DEF Occurs
<1>3. IsFiniteSet(A) /\ Cardinality(A) \in Nat
  BY <1>2, FS_Subset, FS_CardinalityType
<1>4. f \in Bijection(A, B)
  <2> HIDE DEF n, t
  <2>1. f \in [A -> B]
    BY <1>1, <1>2 DEF Occurs
  <2>2. \A i, j \in A : f[i] = f[j] => i = j
    BY <1>1, <1>2
  <2>3. \A k \in B : \E i \in A : f[i] = k
    <3> TAKE k \in B
    <3>1. k - 1 \in 1 .. n - 1 /\ s[k] = x /\ (k - 1) + 1 = k
      BY <1>1
    <3>2. k - 1 \in A
      BY <1>1, <3>1 DEF Occurs
    <3> QED BY <3>1, <3>2
  <2> HIDE DEF f, A, B
  <2> QED BY <2>1, <2>2, <2>3 DEF Bijection, Injection, Surjection, IsInjective
<1>5. IsFiniteSet(B) /\ Cardinality(B) = Cardinality(A)
  <2>1. ExistsBijection(A, B)
    BY <1>4 DEF ExistsBijection
  <2> HIDE DEF A, B
  <2> QED BY <1>3, <2>1, FS_Bijection
<1>6. 1 \notin B
  BY <1>1
<1>7. Occurs(s, x) = IF Head(s) = x THEN B \cup {1} ELSE B
  <2>1. \A i \in 1 .. n : i = 1 \/ i \in 2 .. n
    BY <1>1
  <2>2. 2 .. n \subseteq 1 .. n /\ 1 \in 1 .. n
    BY <1>1
  <2> HIDE DEF n
  <2> QED BY <1>1, <2>1, <2>2 DEF Occurs
<1> HIDE DEF A, B
<1>8. Cardinality(B \cup {1}) = Cardinality(B) + 1
  BY <1>5, <1>6, FS_AddElement, Zenon
<1>9. CASE Head(s) = x
  BY <1>5, <1>7, <1>8, <1>9 DEF A
<1>10. CASE Head(s) # x
  BY <1>3, <1>5, <1>7, <1>10 DEF A
<1> QED BY <1>9, <1>10

(* A function on 1 .. n is a sequence.                                     *)
LEMMA FunctionIsSeq ==
  ASSUME NEW S, NEW n \in Nat, NEW f \in [1 .. n -> S]
  PROVE  f \in Seq(S) /\ Len(f) = n
<1>1. f \in Seq(S)
  BY SeqDef
<1> QED BY <1>1, LenProperties
=============================================================================
