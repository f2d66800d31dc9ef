--------------------------- MODULE Executer_proofs ---------------------------
(***************************************************************************)
(* Proofs about Executer: its types, that the WaitGroup counts what main() *)
(* waits for, and that every row of every batch is handed to execute()     *)
(* once, for any transactions and leaves, any sizes of batches and         *)
(* sub-batches and any answers of the sequencer.                           *)
(***************************************************************************)
EXTENDS Executer, SequenceLemmas, FunctionTheorems

BatchTx == [row : Row, tx : Tx]

-----------------------------------------------------------------------------
(* Sets of edges in the order in which they were appended.                 *)

(* What is counted without repetition has as many members as were counted. *)
LEMMA CountedOnce ==
  ASSUME NEW n \in Nat, NEW S, NEW f \in [1..n -> S],
         \A h, j \in 1..n : f[h] = f[j] => h = j,
         \A x \in S : \E h \in 1..n : f[h] = x
  PROVE  Cardinality(S) = n
<1>1. f \in Bijection(1..n, S)
  BY Fun_IsBij
<1>2. ExistsBijection(1..n, S)
  BY <1>1, Fun_ExistsBij
<1> QED BY <1>2, FS_CountingElements

(* A list of a set in the order of appending is what Nth enumerates: the   *)
(* m-th has m members up to it.                                            *)
LEMMA Enumerated ==
  ASSUME NEW n \in Nat, NEW S, NEW f \in [1..n -> S],
         \A h, j \in 1..n : AppendedBefore(f[h], f[j]) <=> h < j,
         \A x \in S : \E h \in 1..n : f[h] = x
  PROVE  /\ Cardinality(S) = n
         /\ \A m \in 1..n : Nth(S, m) = f[m]
<1> DEFINE UpTo(e) == {d \in S : ~AppendedBefore(e, d)}
<1>1. \A h, j \in 1..n : f[h] = f[j] => h = j
  <2> SUFFICES ASSUME NEW h \in 1..n, NEW j \in 1..n, f[h] = f[j]
               PROVE  h = j
    OBVIOUS
  <2>1. ~AppendedBefore(f[h], f[h])
    OBVIOUS
  <2>2. ~AppendedBefore(f[h], f[j]) /\ ~AppendedBefore(f[j], f[h])
    BY <2>1
  <2>3. ~(h < j) /\ ~(j < h)
    BY <2>2
  <2> QED BY <2>3
<1>2. Cardinality(S) = n
  BY <1>1, CountedOnce
<1>3. ASSUME NEW m \in 1..n PROVE Cardinality(UpTo(f[m])) = m
  <2> DEFINE U == UpTo(f[m])
             g == [h \in 1..m |-> f[h]]
  <2>1. \A h \in 1..n : f[h] \in U <=> h \in 1..m
    OBVIOUS
  <2>2. m \in Nat /\ g \in [1..m -> U]
    BY <2>1
  <2>3. \A h, j \in 1..m : g[h] = g[j] => h = j
    BY <1>1
  <2>4. \A x \in U : \E h \in 1..m : g[h] = x
    <3> SUFFICES ASSUME NEW x \in U PROVE \E h \in 1..m : g[h] = x
      OBVIOUS
    <3>1. PICK h \in 1..n : f[h] = x
      OBVIOUS
    <3> QED BY <2>1, <3>1
  <2> HIDE DEF U, g
  <2>5. Cardinality(U) = m
    BY <2>2, <2>3, <2>4, CountedOnce
  <2> QED BY <2>5 DEF U
<1>4. ASSUME NEW m \in 1..n PROVE Nth(S, m) = f[m]
  <2>1. f[m] \in S /\ Cardinality(UpTo(f[m])) = m
    BY <1>3
  <2>2. ASSUME NEW e \in S, Cardinality(UpTo(e)) = m PROVE e = f[m]
    <3>1. PICK h \in 1..n : f[h] = e
      OBVIOUS
    <3>2. Cardinality(UpTo(f[h])) = h
      BY <1>3
    <3> QED BY <2>2, <3>1, <3>2
  <2>3. Nth(S, m) = CHOOSE e \in S : Cardinality(UpTo(e)) = m
    BY DEF Nth
  <2> HIDE DEF UpTo
  <2> QED BY <2>1, <2>2, <2>3
<1> QED BY <1>2, <1>4

-----------------------------------------------------------------------------
(* The execution graph of a batch.                                         *)

Repeats(r) == Len(Reads[r.tx]) > 1

\* No row is in the batch twice.
Distinct(batch) ==
  \A j, k \in DOMAIN batch : batch[j].row = batch[k].row => j = k

(* A transaction has a leaf, and one that has several has no NoLeaf.       *)
LEMMA LeavesFacts ==
  ASSUME NEW r \in BatchTx
  PROVE  /\ LeavesOf(r) \in Seq(Leaf \cup {NoLeaf})
         /\ Len(LeavesOf(r)) \in Nat \ {0}
         /\ Len(LeavesOf(r)) > 1 <=> Repeats(r)
         /\ Len(LeavesOf(r)) > 1 =>
              \A l \in 1..Len(LeavesOf(r)) : LeavesOf(r)[l] # NoLeaf
<1>1. Reads[r.tx] \in Seq(Leaf)
  BY ExecuterAssumption DEF BatchTx
<1>2. CASE Reads[r.tx] = << >>
  BY <1>2 DEF LeavesOf, Repeats
<1>3. CASE Reads[r.tx] # << >>
  <2>1. LeavesOf(r) = Reads[r.tx] /\ Len(Reads[r.tx]) \in Nat \ {0}
    BY <1>1, <1>3, EmptySeq, LenProperties DEF LeavesOf
  <2>2. \A l \in 1..Len(LeavesOf(r)) : LeavesOf(r)[l] \in Leaf
    BY <1>1, <2>1, ElementOfSeq
  <2>3. LeavesOf(r) \in Seq(Leaf \cup {NoLeaf})
    BY <1>1, <2>1
  <2> QED BY <2>1, <2>2, <2>3, ExecuterAssumption DEF Repeats
<1> QED BY <1>2, <1>3

(* The edges are named by the pairs of loop indices.                       *)
LEMMA EdgesFacts ==
  ASSUME NEW batch \in Seq(BatchTx)
  PROVE  /\ \A k \in 1..Len(batch) : \A l \in 1..Len(LeavesOf(batch[k])) :
              <<k, l>> \in Edges(batch)
         /\ \A e \in Edges(batch) :
              /\ e = <<e[1], e[2]>>
              /\ e[1] \in 1..Len(batch)
              /\ e[2] \in 1..Len(LeavesOf(batch[e[1]]))
<1>1. DOMAIN batch = 1..Len(batch) /\ Len(batch) \in Nat
  BY LenProperties
<1>2. ASSUME NEW k \in 1..Len(batch)
      PROVE  DOMAIN LeavesOf(batch[k]) = 1..Len(LeavesOf(batch[k]))
  BY LeavesFacts, LenProperties, ElementOfSeq
<1> QED BY <1>1, <1>2 DEF Edges

(* The first leaf of a transaction leads to the root, and any other to the *)
(* transaction itself: it finds its own key.                               *)
LEMMA ToFacts ==
  ASSUME NEW batch \in Seq(BatchTx), NEW k \in 1..Len(batch),
         NEW l \in 1..Len(LeavesOf(batch[k]))
  PROVE  To(batch, <<k, l>>) = IF l = 1 THEN Root ELSE batch[k].row
<1> DEFINE e == <<k, l>>
           W == Writers(batch, e)
<1>1. /\ e \in Edges(batch) /\ e[1] = k /\ e[2] = l
      /\ k \in Nat /\ l \in Nat /\ Len(LeavesOf(batch[k])) \in Nat
  BY EdgesFacts, LeavesFacts, ElementOfSeq, LenProperties
<1>2. ASSUME NEW d \in W
      PROVE  /\ d \in Edges(batch) /\ d[1] = k
             /\ d[2] < l /\ d[2] \in 1..Len(LeavesOf(batch[k]))
  <2>1. d \in Edges(batch) /\ AppendedBefore(d, e) /\ d[1] = k
    BY <1>1 DEF Writers, Key
  <2>2. d[2] \in 1..Len(LeavesOf(batch[k]))
    BY <2>1, EdgesFacts
  <2> HIDE DEF e, W
  <2> QED BY <1>1, <2>1, <2>2 DEF AppendedBefore
<1>3. CASE l = 1
  <2>1. W = {}
    BY <1>1, <1>2, <1>3
  <2> QED BY <1>3, <2>1 DEF To
<1>4. CASE l # 1
  <2> DEFINE first == <<k, 1>>
             last == CHOOSE d \in W : \A c \in W : ~AppendedBefore(d, c)
  <2>1. \A m \in 1..Len(LeavesOf(batch[k])) : LeavesOf(batch[k])[m] # NoLeaf
    BY <1>1, <1>4, LeavesFacts, ElementOfSeq
  <2>2. \A m \in 1..Len(LeavesOf(batch[k])) : m < l => <<k, m>> \in W
    <3> SUFFICES ASSUME NEW m \in 1..Len(LeavesOf(batch[k])), m < l
                 PROVE  <<k, m>> \in W
      OBVIOUS
    <3>1. <<k, m>> \in Edges(batch)
      BY EdgesFacts
    <3>2. LeafOf(batch, <<k, m>>) # NoLeaf
      BY <2>1 DEF LeafOf
    <3>3. AppendedBefore(<<k, m>>, e)
      BY DEF AppendedBefore
    <3>4. Key(batch, <<k, m>>) = Key(batch, e)
      BY DEF Key
    <3> QED BY <3>1, <3>2, <3>3, <3>4 DEF Writers
  <2>3. <<k, l - 1>> \in W
    <3>1. l - 1 \in 1..Len(LeavesOf(batch[k])) /\ l - 1 < l
      BY <1>1, <1>4
    <3> HIDE DEF W
    <3> QED BY <2>2, <3>1
  <2>4. \A c \in W : ~AppendedBefore(<<k, l - 1>>, c)
    <3> SUFFICES ASSUME NEW c \in W PROVE ~AppendedBefore(<<k, l - 1>>, c)
      OBVIOUS
    <3>1. c[1] = k /\ c[2] < l /\ c[2] \in Nat
      BY <1>2
    <3> QED BY <1>1, <3>1 DEF AppendedBefore
  <2> HIDE DEF W
  <2>5. last \in W
    BY <2>3, <2>4
  <2>6. From(batch, last) = batch[k].row
    BY <1>2, <2>5 DEF From
  <2>7. LeafOf(batch, e) # NoLeaf
    BY <1>1, <2>1 DEF LeafOf
  <2>8. To(batch, e) = From(batch, last)
    BY <2>3, <2>7 DEF To, W
  <2> QED BY <1>4, <2>6, <2>8
<1> QED BY <1>3, <1>4

(* Every transaction of the batch depends on the root, in their order.     *)
LEMMA RootDependents ==
  ASSUME NEW batch \in Seq(BatchTx)
  PROVE  Dependents(batch, Root) = [k \in 1..Len(batch) |-> batch[k].row]
<1> DEFINE n == Len(batch)
           S == Leading(batch, Root)
           f == [k \in 1..n |-> <<k, 1>>]
<1>1. n \in Nat /\ \A k \in 1..n : batch[k] \in BatchTx
  BY LenProperties, ElementOfSeq
<1>2. \A k \in 1..n : batch[k].row # Root
  BY <1>1, ExecuterAssumption DEF BatchTx, Row, Root
<1>3. f \in [1..n -> S]
  <2> SUFFICES ASSUME NEW k \in 1..n PROVE <<k, 1>> \in S
    OBVIOUS
  <2>1. 1 \in 1..Len(LeavesOf(batch[k]))
    BY <1>1, LeavesFacts
  <2> QED BY <2>1, EdgesFacts, ToFacts DEF Leading
<1>4. \A x \in S : \E k \in 1..n : f[k] = x
  <2> SUFFICES ASSUME NEW x \in S PROVE \E k \in 1..n : f[k] = x
    OBVIOUS
  <2>1. x \in Edges(batch) /\ To(batch, x) = Root
    BY DEF Leading
  <2>2. /\ x = <<x[1], x[2]>> /\ x[1] \in 1..n
        /\ x[2] \in 1..Len(LeavesOf(batch[x[1]]))
    BY <2>1, EdgesFacts
  <2>3. x[2] = 1
    BY <1>2, <2>1, <2>2, ToFacts
  <2> QED BY <2>2, <2>3
<1>5. \A h, j \in 1..n : AppendedBefore(f[h], f[j]) <=> h < j
  BY <1>1 DEF AppendedBefore
<1>6. Cardinality(S) = n /\ \A m \in 1..n : Nth(S, m) = <<m, 1>>
  <2>1. n \in Nat
    BY <1>1
  <2> HIDE DEF S, f, n
  <2>2. Cardinality(S) = n /\ \A m \in 1..n : Nth(S, m) = f[m]
    BY <2>1, <1>3, <1>4, <1>5, Enumerated, ZenonT(40)
  <2> QED BY <2>2 DEF f
<1> HIDE DEF S, n
<1>7. \A m \in 1..n : From(batch, Nth(S, m)) = batch[m].row
  BY <1>6 DEF From
<1> QED BY <1>6, <1>7 DEF Dependents, S, n

(* A transaction of several leaves depends on itself, once for each of its *)
(* leaves but the first; any other has no dependents.                      *)
LEMMA NodeDependents ==
  ASSUME NEW batch \in Seq(BatchTx), Distinct(batch), NEW k \in 1..Len(batch)
  PROVE  Dependents(batch, batch[k].row)
           = [m \in 1..(Len(LeavesOf(batch[k])) - 1) |-> batch[k].row]
<1> DEFINE n == Len(LeavesOf(batch[k])) - 1
           S == Leading(batch, batch[k].row)
           f == [m \in 1..n |-> <<k, m + 1>>]
<1>1. /\ n \in Nat /\ Len(batch) \in Nat
      /\ \A j \in 1..Len(batch) : batch[j] \in BatchTx
  BY LenProperties, ElementOfSeq, LeavesFacts
<1>2. batch[k].row # Root
  BY <1>1, ExecuterAssumption DEF BatchTx, Row, Root
<1>3. f \in [1..n -> S]
  <2> SUFFICES ASSUME NEW m \in 1..n PROVE <<k, m + 1>> \in S
    OBVIOUS
  <2>1. m + 1 \in 1..Len(LeavesOf(batch[k])) /\ m + 1 # 1
    BY <1>1, LeavesFacts
  <2>2. <<k, m + 1>> \in Edges(batch)
    BY <2>1, EdgesFacts
  <2>3. To(batch, <<k, m + 1>>) = batch[k].row
    BY <2>1, ToFacts
  <2> QED BY <2>2, <2>3 DEF Leading
<1>4. \A x \in S : \E m \in 1..n : f[m] = x
  <2> SUFFICES ASSUME NEW x \in S PROVE \E m \in 1..n : f[m] = x
    OBVIOUS
  <2>1. x \in Edges(batch) /\ To(batch, x) = batch[k].row
    BY DEF Leading
  <2>2. /\ x = <<x[1], x[2]>> /\ x[1] \in 1..Len(batch)
        /\ x[2] \in 1..Len(LeavesOf(batch[x[1]]))
    BY <2>1, EdgesFacts
  <2>3. x[2] # 1 /\ batch[x[1]].row = batch[k].row
    BY <1>2, <2>1, <2>2, ToFacts
  <2>4. x[1] = k
    BY <2>2, <2>3, LenProperties DEF Distinct
  <2>5. x[2] - 1 \in 1..n /\ x = <<k, (x[2] - 1) + 1>>
    BY <1>1, <2>2, <2>3, <2>4, LeavesFacts
  <2> QED BY <2>5
<1>5. \A h, j \in 1..n : AppendedBefore(f[h], f[j]) <=> h < j
  BY <1>1 DEF AppendedBefore
<1>6. Cardinality(S) = n /\ \A m \in 1..n : Nth(S, m) = <<k, m + 1>>
  <2> HIDE DEF S, f, n
  <2>1. Cardinality(S) = n /\ \A m \in 1..n : Nth(S, m) = f[m]
    BY <1>1, <1>3, <1>4, <1>5, Enumerated, ZenonT(40)
  <2> QED BY <2>1 DEF f
<1> HIDE DEF S, n
<1>7. \A m \in 1..n : From(batch, Nth(S, m)) = batch[k].row
  BY <1>6 DEF From
<1> QED BY <1>6, <1>7 DEF Dependents, S, n

(* What the walk needs to know of the dependents of the nodes it visits.   *)
LEMMA DependentsFacts ==
  ASSUME NEW batch \in Seq(BatchTx), Distinct(batch), NEW n,
         n = Root \/ \E k \in DOMAIN batch : batch[k].row = n
  PROVE  /\ Dependents(batch, n) \in Seq(Row)
         /\ \A m \in DOMAIN Dependents(batch, n) :
              \E k \in DOMAIN batch : batch[k].row = Dependents(batch, n)[m]
         /\ \A k \in DOMAIN batch : batch[k].row = n =>
              /\ Dependents(batch, n) = << >> <=> ~Repeats(batch[k])
              /\ \A m \in DOMAIN Dependents(batch, n) :
                   Dependents(batch, n)[m] = n
<1>1. /\ Len(batch) \in Nat /\ DOMAIN batch = 1..Len(batch)
      /\ \A k \in DOMAIN batch : batch[k] \in BatchTx
  BY LenProperties, ElementOfSeq
<1>2. \A k \in DOMAIN batch : batch[k].row \in Row /\ batch[k].row # Root
  BY <1>1, ExecuterAssumption DEF BatchTx, Row, Root
<1>3. CASE n = Root
  <2>1. Dependents(batch, n) = [k \in 1..Len(batch) |-> batch[k].row]
    BY <1>3, RootDependents
  <2>2. Dependents(batch, n) \in Seq(Row)
    BY <1>1, <1>2, <2>1, IsASeq
  <2> QED BY <1>1, <1>2, <1>3, <2>1, <2>2
<1>4. ASSUME NEW k \in DOMAIN batch, batch[k].row = n
      PROVE  /\ Dependents(batch, n) \in Seq(Row)
             /\ \A m \in DOMAIN Dependents(batch, n) :
                  Dependents(batch, n)[m] = n
             /\ Dependents(batch, n) = << >> <=> ~Repeats(batch[k])
  <2> DEFINE h == Len(LeavesOf(batch[k])) - 1
  <2>1. h \in Nat /\ (h > 0 <=> Repeats(batch[k]))
    BY <1>1, LeavesFacts
  <2>2. Dependents(batch, n) = [m \in 1..h |-> n]
    <3>1. Dependents(batch, batch[k].row) = [m \in 1..h |-> batch[k].row]
      BY <1>1, NodeDependents
    <3> QED BY <1>4, <3>1
  <2> HIDE DEF h
  <2>3. Dependents(batch, n) \in Seq(Row)
    BY <1>2, <1>4, <2>1, <2>2, IsASeq
  <2>4. Len(Dependents(batch, n)) = h
    BY <2>1, <2>2, <2>3, LenProperties
  <2>5. Dependents(batch, n) = << >> <=> h = 0
    BY <2>3, <2>4, EmptySeq
  <2> QED BY <2>1, <2>2, <2>3, <2>5
<1>5. CASE \E k \in DOMAIN batch : batch[k].row = n
  BY <1>4, <1>5
<1>6. n # Root => \E k \in DOMAIN batch : batch[k].row = n
  OBVIOUS
<1>7. CASE n # Root
  BY <1>4, <1>6, <1>7
<1> QED BY <1>2, <1>3, <1>7

-----------------------------------------------------------------------------
(* Sub-batches and batches.                                                *)

(* A row occurs in a sub-batch a number of times, and once or not at all   *)
(* in one of the dependents of the root.                                   *)
LEMMA SubBatchFacts ==
  ASSUME NEW dependents \in Seq(Row), NEW row, NEW k \in Nat
  PROVE  InSubBatch(row, dependents, k) \in Nat
<1>1. IsFiniteSet(DOMAIN dependents)
  BY LenProperties, FS_Interval
<1> QED BY <1>1, FS_Subset, FS_CardinalityType DEF InSubBatch

\* Of rows that differ, a sub-batch of the root holds those in its range once.
LEMMA SubBatchOnce ==
  ASSUME NEW batch \in Seq(BatchTx), Distinct(batch), NEW row, NEW k \in Nat
  PROVE  InSubBatch(row, Dependents(batch, Root), k) =
           IF \E m \in 1..Len(batch) : /\ ExecBatchSize * k < m
                                       /\ m <= ExecBatchSize * (k + 1)
                                       /\ batch[m].row = row
           THEN 1 ELSE 0
<1> DEFINE P(m) == /\ ExecBatchSize * k < m
                   /\ m <= ExecBatchSize * (k + 1)
                   /\ batch[m].row = row
           T == {m \in 1..Len(batch) : P(m)}
<1>1. InSubBatch(row, Dependents(batch, Root), k) = Cardinality(T)
  <2>1. Dependents(batch, Root) = [m \in 1..Len(batch) |-> batch[m].row]
    BY RootDependents
  <2> QED BY <2>1 DEF InSubBatch
<1>2. ASSUME NEW m \in 1..Len(batch), P(m) PROVE Cardinality(T) = 1
  <2>1. T = {m}
    BY <1>2, LenProperties DEF Distinct
  <2> QED BY <2>1, FS_Singleton
<1>3. CASE ~ \E m \in 1..Len(batch) : P(m)
  <2>1. T = {}
    BY <1>3
  <2>2. Cardinality(T) = 0
    BY <2>1, FS_EmptySet
  <2> QED BY <1>1, <1>3, <2>2
<1>4. CASE \E m \in 1..Len(batch) : P(m)
  <2>1. Cardinality(T) = 1
    BY <1>2, <1>4
  <2> QED BY <1>1, <1>4, <2>1
<1> QED BY <1>3, <1>4

\* The batches before the one that starts at j whose range holds the row.
BatchesTo(j, row) ==
  {k \in 0..j : /\ k * BatchSize < j /\ k * BatchSize <= row
                /\ row <= (k + 1) * BatchSize}

(* A batch more is a batch of the rows in its range, both ends included.   *)
LEMMA OneMoreBatch ==
  ASSUME NEW n \in Nat, NEW row \in Nat, NEW j, j = n * BatchSize
  PROVE  /\ Cardinality(BatchesTo(j, row)) \in Nat
         /\ Cardinality(BatchesTo(j + BatchSize, row))
              = Cardinality(BatchesTo(j, row))
                  + (IF j <= row /\ row <= j + BatchSize THEN 1 ELSE 0)
<1> DEFINE Holds(k) == k * BatchSize <= row /\ row <= (k + 1) * BatchSize
           Old == {k \in 0..n : k < n /\ Holds(k)}
           New == {k \in 0..n : Holds(k)}
<1>1. BatchSize \in Nat \ {0}
  BY ExecuterAssumption
<1>2. ASSUME NEW a \in Nat, NEW b \in Nat
      PROVE  /\ a * BatchSize < b * BatchSize <=> a < b
             /\ a <= a * BatchSize
  BY <1>1
<1>3. j + BatchSize = (n + 1) * BatchSize /\ j \in Nat
  BY <1>1
<1>4. BatchesTo(j, row) = Old
  <2>1. \A k \in Nat : k * BatchSize < j <=> k < n
    BY <1>2
  <2>2. n <= j
    BY <1>2
  <2>3. \A k : k \in BatchesTo(j, row) <=>
                 k \in 0..j /\ k * BatchSize < j /\ Holds(k)
    BY DEF BatchesTo
  <2>4. \A k : k \in Old <=> k \in 0..n /\ k < n /\ Holds(k)
    OBVIOUS
  <2>5. \A k : k \in 0..j /\ k < n <=> k \in 0..n /\ k < n
    BY <1>3, <2>2
  <2> HIDE DEF Old, Holds
  <2>6. \A k : k \in BatchesTo(j, row) <=> k \in Old
    BY <1>3, <2>1, <2>3, <2>4, <2>5
  <2> QED BY <2>6 DEF Old, BatchesTo
<1>5. BatchesTo(j + BatchSize, row) = New
  <2>1. \A k \in Nat : k * BatchSize < j + BatchSize <=> k <= n
    <3> SUFFICES ASSUME NEW k \in Nat
                 PROVE  k * BatchSize < j + BatchSize <=> k <= n
      OBVIOUS
    <3>1. k * BatchSize < (n + 1) * BatchSize <=> k < n + 1
      BY <1>2
    <3> QED BY <1>3, <3>1
  <2>2. n <= j + BatchSize
    BY <1>1, <1>2, <1>3
  <2>3. \A k : k \in BatchesTo(j + BatchSize, row) <=>
                 /\ k \in 0..(j + BatchSize) /\ k * BatchSize < j + BatchSize
                 /\ Holds(k)
    BY DEF BatchesTo
  <2>4. \A k : k \in New <=> k \in 0..n /\ Holds(k)
    OBVIOUS
  <2>5. \A k : k \in 0..(j + BatchSize) /\ k <= n <=> k \in 0..n
    BY <1>1, <1>3, <2>2
  <2> HIDE DEF New, Holds
  <2>6. \A k : k \in BatchesTo(j + BatchSize, row) <=> k \in New
    BY <1>1, <1>3, <2>1, <2>3, <2>4, <2>5
  <2> QED BY <2>6 DEF New, BatchesTo
<1>6. IsFiniteSet(Old)
  <2>1. IsFiniteSet(0..n) /\ Old \subseteq 0..n
    BY FS_Interval
  <2> QED BY <2>1, FS_Subset
<1>7. Holds(n) <=> j <= row /\ row <= j + BatchSize
  BY <1>3
<1>8. CASE Holds(n)
  <2>1. New = Old \cup {n} /\ n \notin Old
    BY <1>8
  <2>2. Cardinality(New) = Cardinality(Old) + 1
    BY <1>6, <2>1, FS_AddElement
  <2> QED BY <1>4, <1>5, <1>6, <1>7, <1>8, <2>2, FS_CardinalityType
<1>9. CASE ~Holds(n)
  <2>1. New = Old
    BY <1>9
  <2>2. Cardinality(New) = Cardinality(Old) /\ Cardinality(Old) \in Nat
    BY <1>6, <2>1, FS_CardinalityType
  <2> HIDE DEF Old, New, Holds
  <2> QED BY <1>4, <1>5, <1>7, <1>9, <2>2
<1> QED BY <1>8, <1>9

-----------------------------------------------------------------------------
(* The goroutines.                                                         *)

\* Those of a row: to begin and inside execute(), those that count for a node
\* visited before, and those that count for the node visited.
EarlierToBegin(l, row) == l[Go(row, FALSE, FALSE)]
MineToBegin(l, row)    == l[Go(row, FALSE, TRUE)]
EarlierInside(l, row)  == l[Go(row, TRUE, FALSE)]
MineInside(l, row)     == l[Go(row, TRUE, TRUE)]

\* How often execute() has been asked for a row, of given counters.
AskedOf(done, l, row) ==
  done[row] + EarlierToBegin(l, row) + MineToBegin(l, row)
            + EarlierInside(l, row) + MineInside(l, row)

(* A goroutine is known by its row and its two flags.                      *)
LEMMA GoFacts ==
  ASSUME NEW row \in Row
  PROVE  /\ Go(row, FALSE, FALSE) \in Goroutine
         /\ Go(row, FALSE, TRUE) \in Goroutine
         /\ Go(row, TRUE, FALSE) \in Goroutine
         /\ Go(row, TRUE, TRUE) \in Goroutine
BY DEF Go, Goroutine

\* A goroutine is its row and its two flags, and nothing else.
LEMMA FlagsFacts ==
  ASSUME NEW g \in Goroutine
  PROVE  /\ g.row \in Row /\ g.running \in BOOLEAN /\ g.mine \in BOOLEAN
         /\ g = Go(g.row, g.running, g.mine)
BY DEF Go, Goroutine

\* The counters of a row are numbers, and so is their sum.
LEMMA AskedType ==
  ASSUME NEW done \in [Row -> Nat], NEW l \in [Goroutine -> Nat],
         NEW row \in Row
  PROVE  /\ EarlierToBegin(l, row) \in Nat /\ MineToBegin(l, row) \in Nat
         /\ EarlierInside(l, row) \in Nat /\ MineInside(l, row) \in Nat
         /\ done[row] \in Nat
         /\ AskedOf(done, l, row) \in Nat
         /\ MineInside(l, row) <= AskedOf(done, l, row)
<1>1. /\ EarlierToBegin(l, row) \in Nat /\ MineToBegin(l, row) \in Nat
      /\ EarlierInside(l, row) \in Nat /\ MineInside(l, row) \in Nat
      /\ done[row] \in Nat
  BY GoFacts DEF EarlierToBegin, MineToBegin, EarlierInside, MineInside
<1> QED BY <1>1 DEF AskedOf

(* One counter down, and another up.                                       *)
LEMMA Moved ==
  ASSUME NEW S, NEW l \in [S -> Nat], NEW g \in S, NEW h \in S, g # h,
         l[g] > 0, NEW m, m = [l EXCEPT ![g] = @ - 1, ![h] = @ + 1]
  PROVE  /\ m \in [S -> Nat] /\ m[g] = l[g] - 1 /\ m[h] = l[h] + 1
         /\ \A x \in S : x # g /\ x # h => m[x] = l[x]
OBVIOUS

(* A WaitGroup of its own for the next node: the goroutines of the node    *)
(* visited become those of a node visited before.                          *)
LEMMA VisitCounts ==
  ASSUME NEW done \in [Row -> Nat], NEW l \in [Goroutine -> Nat], NEW m,
         m = [g \in Goroutine |->
               IF g.mine THEN 0 ELSE l[g] + l[Go(g.row, g.running, TRUE)]]
  PROVE  /\ m \in [Goroutine -> Nat]
         /\ \A row \in Row : /\ AskedOf(done, m, row) = AskedOf(done, l, row)
                             /\ MineInside(m, row) = 0
<1>1. m \in [Goroutine -> Nat]
  <2> SUFFICES ASSUME NEW g \in Goroutine
               PROVE  l[g] + l[Go(g.row, g.running, TRUE)] \in Nat
    OBVIOUS
  <2> DEFINE h == Go(g.row, g.running, TRUE)
  <2>1. h \in Goroutine
    BY DEF Go, Goroutine
  <2> HIDE DEF h
  <2>2. l[g] + l[h] \in Nat
    BY <2>1
  <2> QED BY <2>2 DEF h
<1>2. ASSUME NEW row \in Row
      PROVE  /\ AskedOf(done, m, row) = AskedOf(done, l, row)
             /\ MineInside(m, row) = 0
  <2>1. /\ EarlierToBegin(l, row) \in Nat /\ MineToBegin(l, row) \in Nat
        /\ EarlierInside(l, row) \in Nat /\ MineInside(l, row) \in Nat
        /\ done[row] \in Nat
    BY AskedType
  <2>2. m[Go(row, FALSE, TRUE)] = 0 /\ m[Go(row, TRUE, TRUE)] = 0
    <3>1. Go(row, FALSE, TRUE).mine /\ Go(row, TRUE, TRUE).mine
      BY DEF Go
    <3> QED BY <3>1, GoFacts
  <2>3. m[Go(row, FALSE, FALSE)]
          = l[Go(row, FALSE, FALSE)] + l[Go(row, FALSE, TRUE)]
    <3> DEFINE g == Go(row, FALSE, FALSE)
    <3>1. ~g.mine /\ Go(g.row, g.running, TRUE) = Go(row, FALSE, TRUE)
      BY DEF Go
    <3>2. g \in Goroutine
      BY GoFacts
    <3> HIDE DEF g
    <3>3. m[g] = l[g] + l[Go(g.row, g.running, TRUE)]
      BY <3>1, <3>2
    <3> QED BY <3>1, <3>3 DEF g
  <2>4. m[Go(row, TRUE, FALSE)]
          = l[Go(row, TRUE, FALSE)] + l[Go(row, TRUE, TRUE)]
    <3> DEFINE g == Go(row, TRUE, FALSE)
    <3>1. ~g.mine /\ Go(g.row, g.running, TRUE) = Go(row, TRUE, TRUE)
      BY DEF Go
    <3>2. g \in Goroutine
      BY GoFacts
    <3> HIDE DEF g
    <3>3. m[g] = l[g] + l[Go(g.row, g.running, TRUE)]
      BY <3>1, <3>2
    <3> QED BY <3>1, <3>3 DEF g
  <2>5. /\ MineToBegin(m, row) = 0 /\ MineInside(m, row) = 0
        /\ EarlierToBegin(m, row) = EarlierToBegin(l, row) + MineToBegin(l, row)
        /\ EarlierInside(m, row) = EarlierInside(l, row) + MineInside(l, row)
    BY <2>2, <2>3, <2>4
       DEF EarlierToBegin, MineToBegin, EarlierInside, MineInside
  <2> QED BY <2>1, <2>5 DEF AskedOf
<1> QED BY <1>1, <1>2

(* A sub-batch asks for its rows, and no goroutine of it has begun.        *)
LEMMA StartCounts ==
  ASSUME NEW done \in [Row -> Nat], NEW l \in [Goroutine -> Nat],
         NEW started \in [Row -> Nat], NEW m,
         m = [g \in Goroutine |->
               IF g.mine /\ ~g.running THEN l[g] + started[g.row] ELSE l[g]]
  PROVE  /\ m \in [Goroutine -> Nat]
         /\ \A row \in Row :
              /\ AskedOf(done, m, row) = AskedOf(done, l, row) + started[row]
              /\ MineInside(m, row) = MineInside(l, row)
<1>1. m \in [Goroutine -> Nat]
  BY FlagsFacts
<1>2. ASSUME NEW row \in Row
      PROVE  /\ AskedOf(done, m, row) = AskedOf(done, l, row) + started[row]
             /\ MineInside(m, row) = MineInside(l, row)
  <2>1. /\ EarlierToBegin(l, row) \in Nat /\ MineToBegin(l, row) \in Nat
        /\ EarlierInside(l, row) \in Nat /\ MineInside(l, row) \in Nat
        /\ done[row] \in Nat /\ started[row] \in Nat
    BY AskedType
  <2>2. /\ ~Go(row, FALSE, FALSE).mine /\ ~Go(row, TRUE, FALSE).mine
        /\ Go(row, TRUE, TRUE).running
        /\ Go(row, FALSE, TRUE).mine /\ ~Go(row, FALSE, TRUE).running
        /\ Go(row, FALSE, TRUE).row = row
    BY DEF Go
  <2>3. /\ m[Go(row, FALSE, FALSE)] = l[Go(row, FALSE, FALSE)]
        /\ m[Go(row, FALSE, TRUE)] = l[Go(row, FALSE, TRUE)] + started[row]
        /\ m[Go(row, TRUE, FALSE)] = l[Go(row, TRUE, FALSE)]
        /\ m[Go(row, TRUE, TRUE)] = l[Go(row, TRUE, TRUE)]
    BY <2>2, GoFacts
  <2>4. /\ EarlierToBegin(m, row) = EarlierToBegin(l, row)
        /\ MineToBegin(m, row) = MineToBegin(l, row) + started[row]
        /\ EarlierInside(m, row) = EarlierInside(l, row)
        /\ MineInside(m, row) = MineInside(l, row)
    BY <2>3 DEF EarlierToBegin, MineToBegin, EarlierInside, MineInside
  <2> QED BY <2>1, <2>4 DEF AskedOf
<1> QED BY <1>1, <1>2

-----------------------------------------------------------------------------
(* The goroutines that the WaitGroup counts.                               *)

CountedOf(l) ==
  {c \in Row \X (1..MaxAsked) : c[2] <= MineInside(l, c[1])}

\* Counted and Asked, before a step and after it, by the four counters.
LEMMA InTermsOfCounters ==
  /\ Counted = CountedOf(live) /\ Counted' = CountedOf(live')
  /\ \A row : /\ Asked(row) = AskedOf(executed, live, row)
              /\ Asked(row)' = AskedOf(executed', live', row)
BY DEF Counted, CountedOf, Asked, AskedOf, EarlierToBegin, MineToBegin,
       EarlierInside, MineInside

\* There are finitely many goroutines to count.
LEMMA CountedFinite ==
  ASSUME NEW l
  PROVE  IsFiniteSet(CountedOf(l)) /\ Cardinality(CountedOf(l)) \in Nat
<1>1. IsFiniteSet(Row) /\ IsFiniteSet(1..MaxAsked)
  BY ExecuterAssumption, FS_Interval DEF Row
<1>2. IsFiniteSet(Row \X (1..MaxAsked))
  BY <1>1, FS_Product
<1>3. CountedOf(l) \subseteq Row \X (1..MaxAsked)
  BY DEF CountedOf
<1> QED BY <1>2, <1>3, FS_Subset, FS_CardinalityType

(* One more inside execute() is one more counted.                          *)
LEMMA CountedGrows ==
  ASSUME NEW l \in [Goroutine -> Nat], NEW m, NEW r \in Row,
         MineInside(m, r) = MineInside(l, r) + 1,
         MineInside(m, r) <= MaxAsked,
         \A row \in Row : row # r => MineInside(m, row) = MineInside(l, row)
  PROVE  Cardinality(CountedOf(m)) = Cardinality(CountedOf(l)) + 1
<1> DEFINE c == <<r, MineInside(l, r) + 1>>
<1>1. MineInside(l, r) \in Nat /\ MaxAsked \in Nat
  BY ExecuterAssumption, GoFacts DEF MineInside
<1>2. c \in Row \X (1..MaxAsked) /\ c \notin CountedOf(l)
  BY <1>1 DEF CountedOf
<1>3. \A d \in Row \X (1..MaxAsked) :
        d[2] <= MineInside(m, d[1]) <=> d[2] <= MineInside(l, d[1]) \/ d = c
  <2> SUFFICES ASSUME NEW d \in Row \X (1..MaxAsked)
               PROVE  d[2] <= MineInside(m, d[1])
                        <=> d[2] <= MineInside(l, d[1]) \/ d = c
    OBVIOUS
  <2>1. d = <<d[1], d[2]>> /\ d[1] \in Row /\ d[2] \in 1..MaxAsked
    OBVIOUS
  <2>2. CASE d[1] = r
    <3>1. d = c <=> d[2] = MineInside(l, r) + 1
      BY <2>1, <2>2
    <3> HIDE DEF c
    <3> QED BY <1>1, <2>1, <2>2, <3>1
  <2>3. CASE d[1] # r
    BY <2>1, <2>3
  <2> QED BY <2>2, <2>3
<1>4. CountedOf(m) = CountedOf(l) \cup {c}
  <2> HIDE DEF c
  <2> QED BY <1>2, <1>3 DEF CountedOf
<1> HIDE DEF c
<1> QED BY <1>2, <1>4, CountedFinite, FS_AddElement

\* What is counted depends on the counters of the node visited alone.
LEMMA CountedSame ==
  ASSUME NEW l, NEW m,
         \A row \in Row : MineInside(m, row) = MineInside(l, row)
  PROVE  CountedOf(m) = CountedOf(l)
BY DEF CountedOf

\* If no row has a goroutine inside execute(), none is counted.
LEMMA CountedNone ==
  ASSUME NEW l, \A row \in Row : MineInside(l, row) = 0
  PROVE  Cardinality(CountedOf(l)) = 0
<1>1. CountedOf(l) = {}
  BY DEF CountedOf
<1> QED BY <1>1, FS_EmptySet

\* If any is counted, some row has a goroutine inside execute().
LEMMA CountedSome ==
  ASSUME NEW l \in [Goroutine -> Nat], Cardinality(CountedOf(l)) # 0
  PROVE  \E row \in Row : MineInside(l, row) > 0
<1>1. CountedOf(l) # {}
  BY FS_EmptySet
<1>2. PICK c \in CountedOf(l) : TRUE
  BY <1>1
<1>3. c[1] \in Row /\ c[2] \in 1..MaxAsked /\ c[2] <= MineInside(l, c[1])
  BY <1>2 DEF CountedOf
<1>4. MineInside(l, c[1]) \in Nat
  BY <1>3, GoFacts DEF MineInside
<1> QED BY <1>3, <1>4

(* The rows that the sequencer answers: those asked for, each once.        *)
LEMMA GetFacts ==
  ASSUME order \in Seq(Tx), Len(order) <= MaxOrder,
         NEW from \in Nat, NEW to \in Nat
  PROVE  /\ Get(from, to) \in Seq(BatchTx)
         /\ Distinct(Get(from, to))
         /\ \A k \in DOMAIN Get(from, to) :
              from <= Get(from, to)[k].row /\ Get(from, to)[k].row <= to
         /\ \A row \in 1..Len(order) : from <= row /\ row <= to =>
              \E k \in DOMAIN Get(from, to) : Get(from, to)[k].row = row
<1> DEFINE first == IF from = 0 THEN 1 ELSE from
           last == Smaller(to, Len(order))
           G == Get(from, to)
<1>1. /\ Len(order) \in Nat /\ MaxOrder \in Nat
      /\ \A k \in 1..Len(order) : order[k] \in Tx
  BY ExecuterAssumption, LenProperties, ElementOfSeq
<1>2. /\ first \in Nat /\ first >= 1 /\ first >= from
      /\ \A row \in Nat : row >= 1 /\ row >= from => row >= first
  OBVIOUS
<1>3. /\ last \in Nat /\ last <= to /\ last <= Len(order)
      /\ \A row \in Nat : row <= to /\ row <= Len(order) => row <= last
  BY <1>1 DEF Smaller
<1>4. G = [k \in 1..(last - first + 1) |->
            [row |-> first + k - 1, tx |-> order[first + k - 1]]]
  BY DEF Get, Rows
<1> HIDE DEF first, last, G
<1>5. DOMAIN G = 1..(last - first + 1)
  BY <1>4
<1>6. \A k \in DOMAIN G : G[k] \in BatchTx /\ G[k].row = first + k - 1
  <2> SUFFICES ASSUME NEW k \in DOMAIN G
               PROVE  G[k] \in BatchTx /\ G[k].row = first + k - 1
    OBVIOUS
  <2>1. first + k - 1 \in 1..Len(order)
    BY <1>1, <1>2, <1>3, <1>5
  <2>2. order[first + k - 1] \in Tx /\ first + k - 1 \in Row
    BY <1>1, <2>1 DEF Row
  <2> QED BY <1>4, <1>5, <2>2 DEF BatchTx
<1>7. G \in Seq(BatchTx)
  <2>1. CASE last - first + 1 >= 0
    <3>1. last - first + 1 \in Nat
      BY <1>2, <1>3, <2>1
    <3>2. \A k \in 1..(last - first + 1) : G[k] \in BatchTx
      BY <1>5, <1>6
    <3>3. G = [k \in 1..(last - first + 1) |-> G[k]]
      BY <1>4, <1>5
    <3> QED BY <3>1, <3>2, <3>3, IsASeq
  <2>2. CASE ~(last - first + 1 >= 0)
    <3>1. 1..(last - first + 1) = {} /\ 1..0 = {}
      BY <1>2, <1>3, <2>2
    <3>2. G = [k \in 1..0 |-> G[k]]
      BY <1>4, <3>1
    <3>3. 0 \in Nat /\ \A k \in 1..0 : G[k] \in BatchTx
      OBVIOUS
    <3> QED BY <3>2, <3>3, IsASeq
  <2> QED BY <2>1, <2>2
<1>8. Distinct(G)
  BY <1>2, <1>3, <1>5, <1>6 DEF Distinct
<1>9. \A k \in DOMAIN G : from <= G[k].row /\ G[k].row <= to
  <2> SUFFICES ASSUME NEW k \in DOMAIN G
               PROVE  from <= G[k].row /\ G[k].row <= to
    OBVIOUS
  <2>1. k \in 1..(last - first + 1) /\ G[k].row = first + k - 1
    BY <1>5, <1>6
  <2> QED BY <1>2, <1>3, <2>1
<1>10. ASSUME NEW row \in 1..Len(order), from <= row, row <= to
       PROVE  \E k \in DOMAIN G : G[k].row = row
  <2>1. first <= row /\ row <= last
    BY <1>1, <1>2, <1>3, <1>10
  <2>2. row - first + 1 \in DOMAIN G
    BY <1>2, <1>3, <1>5, <2>1
  <2>3. G[row - first + 1].row = row
    BY <1>2, <1>6, <2>2
  <2> QED BY <2>2, <2>3
<1> QED BY <1>7, <1>8, <1>9, <1>10 DEF G

(* A part of a batch is one.                                               *)
LEMMA PrefixFacts ==
  ASSUME NEW whole \in Seq(BatchTx), Distinct(whole), NEW k \in 0..Len(whole),
         NEW batch, batch = SubSeq(whole, 1, k)
  PROVE  /\ batch \in Seq(BatchTx) /\ Distinct(batch)
         /\ \A j \in DOMAIN batch : j \in DOMAIN whole /\ batch[j] = whole[j]
<1>1. /\ Len(whole) \in Nat /\ DOMAIN whole = 1..Len(whole)
      /\ \A j \in 1..k : whole[j] \in BatchTx
  BY LenProperties, ElementOfSeq
<1>2. /\ batch \in Seq(BatchTx) /\ Len(batch) = k
      /\ \A j \in 1..k : batch[j] = whole[j]
  <2>1. /\ batch \in Seq(BatchTx)
        /\ Len(batch) = IF 1 <= k THEN k - 1 + 1 ELSE 0
        /\ \A j \in 1..k - 1 + 1 : batch[j] = whole[1 + j - 1]
    BY <1>1, SubSeqProperties
  <2> QED BY <1>1, <2>1
<1>3. DOMAIN batch = 1..k
  BY <1>2, LenProperties
<1> QED BY <1>1, <1>2, <1>3 DEF Distinct

-----------------------------------------------------------------------------
(* The inductive invariant.                                                *)

Walking == pc \in {"visit", "spawn", "wait", "parked", "woken"}
InNode  == pc \in {"spawn", "wait", "parked", "woken"}

Fetched(row) == \E k \in DOMAIN txs : txs[k].row = row

\* The walk has three parts: before the root, in it, and below it.
AtRoot == pc = "visit" /\ toVisit = <<Root>>
InRoot == InNode /\ node = Root

\* How many of the root's dependents have been handed to execute().
Handed ==
  IF pc = "spawn" THEN ExecBatchSize * sub ELSE ExecBatchSize * (sub + 1)

\* A transaction that depends on itself is yet to visit, and always will be.
Doomed ==
  \E k \in DOMAIN txs :
    /\ Repeats(txs[k])
    /\ \/ \E j \in DOMAIN toVisit : toVisit[j] = txs[k].row
       \/ InNode /\ node = txs[k].row

\* i moves from batch to batch.
Stepped == \E n \in Nat : i = n * BatchSize

\* height is what the table held when main() asked, or less.
HeightInv ==
  /\ height <= Len(order)
  /\ pc = "info" => /\ i = 0 /\ height = 0 /\ ~unread
                    /\ \A row \in Row : Asked(row) = 0

\* The batch holds each row of its range once.
BatchInv ==
  Walking =>
    /\ Distinct(txs)
    /\ \A k \in DOMAIN txs : i <= txs[k].row /\ txs[k].row <= i + BatchSize
    /\ ~unread => \A row \in 1..height :
                    i <= row /\ row <= i + BatchSize => Fetched(row)

\* Below the root only transactions that depend on themselves have dependents.
WalkInv ==
  Walking =>
    \/ AtRoot
    \/ InRoot /\ toVisit = << >>
    \/ /\ \A j \in DOMAIN toVisit : Fetched(toVisit[j])
       /\ InNode => Fetched(node)
       /\ Doomed \/ (pc = "visit" /\ \A k \in DOMAIN txs : ~Repeats(txs[k]))

\* How often the batch at hand has asked for a row.
HandedIn(row) ==
  IF ~Walking \/ AtRoot THEN 0
  ELSE IF InRoot
  THEN IF \E k \in DOMAIN txs : k <= Handed /\ txs[k].row = row THEN 1 ELSE 0
  ELSE IF Fetched(row) THEN 1 ELSE 0

\* Once in the walk there is no next batch: nothing is owed to later ones.
Endless == Walking /\ ~AtRoot /\ ~InRoot /\ Doomed

Accounted ==
  ~unread /\ pc # "crashed" /\ ~Endless =>
    \A row \in 1..height :
      Asked(row) = Cardinality(BatchesTo(i, row)) + HandedIn(row)

Bounded == \A row \in Row : Asked(row) <= MaxAsked

Inv ==
  /\ TypeOK /\ Stepped /\ HeightInv /\ BatchInv /\ WalkInv
  /\ Bounded /\ WaitGroupCounts /\ Accounted

-----------------------------------------------------------------------------
(* The dependents of the node at hand.                                     *)
LEMMA DependentsNow ==
  ASSUME TypeOK, BatchInv, WalkInv, Walking,
         NEW n, n = Root \/ Fetched(n)
  PROVE  /\ txs \in Seq(BatchTx) /\ Distinct(txs)
         /\ Dependents(txs, n) \in Seq(Row)
         /\ \A m \in DOMAIN Dependents(txs, n) : Fetched(Dependents(txs, n)[m])
         /\ \A k \in DOMAIN txs : txs[k].row = n =>
              /\ Dependents(txs, n) = << >> <=> ~Repeats(txs[k])
              /\ \A m \in DOMAIN Dependents(txs, n) :
                   Dependents(txs, n)[m] = n
<1>1. txs \in Seq(BatchTx) /\ Distinct(txs)
  BY DEF TypeOK, BatchInv, BatchTx
<1> QED BY <1>1, DependentsFacts DEF Fetched

\* The node visited is the root, or a row of the batch.
LEMMA NodeKnown ==
  ASSUME TypeOK, WalkInv, InNode
  PROVE  Walking /\ (node = Root \/ Fetched(node))
BY DEF WalkInv, Walking, InNode, AtRoot, InRoot

\* The next node to visit is the root, or a row of the batch.
LEMMA HeadKnown ==
  ASSUME TypeOK, WalkInv, pc = "visit", toVisit # << >>
  PROVE  Walking /\ (Head(toVisit) = Root \/ Fetched(Head(toVisit)))
<1>1. Walking /\ ~InNode
  BY DEF Walking, InNode
<1>2. CASE AtRoot
  BY <1>1, <1>2 DEF AtRoot
<1>3. CASE \A j \in DOMAIN toVisit : Fetched(toVisit[j])
  <2>1. 1 \in DOMAIN toVisit /\ Head(toVisit) = toVisit[1]
    BY HeadTailProperties, LenProperties, EmptySeq DEF TypeOK
  <2> QED BY <1>1, <1>3, <2>1
<1> QED BY <1>1, <1>2, <1>3 DEF WalkInv, InRoot

-----------------------------------------------------------------------------
(* What the steps do to the counters.                                      *)

(* A goroutine that begins takes itself from one counter to another.       *)
LEMMA BeginStep ==
  ASSUME TypeOK, NEW g \in Goroutine, Begin(g)
  PROVE  /\ live' \in [Goroutine -> Nat]
         /\ \A row \in Row :
              /\ Asked(row)' = Asked(row)
              /\ row = g.row /\ g.mine =>
                   MineInside(live', row) = MineInside(live, row) + 1
              /\ ~(row = g.row /\ g.mine) =>
                   MineInside(live', row) = MineInside(live, row)
<1> DEFINE h == Go(g.row, TRUE, g.mine)
<1>1. /\ live \in [Goroutine -> Nat] /\ executed \in [Row -> Nat]
      /\ live[g] > 0 /\ ~g.running /\ executed' = executed
      /\ live' = [live EXCEPT ![g] = @ - 1, ![h] = @ + 1]
  BY DEF TypeOK, Begin
<1>2. g.row \in Row /\ g = Go(g.row, FALSE, g.mine) /\ g.mine \in BOOLEAN
  BY <1>1, FlagsFacts
<1>3. h \in Goroutine /\ h # g /\ h.row = g.row
  BY <1>1, <1>2 DEF Go, Goroutine
<1> HIDE DEF h
<1>4. /\ live' \in [Goroutine -> Nat]
      /\ live'[g] = live[g] - 1 /\ live'[h] = live[h] + 1
      /\ \A x \in Goroutine : x # g /\ x # h => live'[x] = live[x]
  BY <1>1, <1>3, Moved
<1>5. ASSUME NEW row \in Row
      PROVE  /\ AskedOf(executed, live', row) = AskedOf(executed, live, row)
             /\ row = g.row /\ g.mine =>
                  MineInside(live', row) = MineInside(live, row) + 1
             /\ ~(row = g.row /\ g.mine) =>
                  MineInside(live', row) = MineInside(live, row)
  <2>1. /\ EarlierToBegin(live, row) \in Nat /\ MineToBegin(live, row) \in Nat
        /\ EarlierInside(live, row) \in Nat /\ MineInside(live, row) \in Nat
        /\ executed[row] \in Nat
    BY <1>1, AskedType
  <2>2. CASE row # g.row
    <3>1. /\ Go(row, FALSE, FALSE) # g /\ Go(row, FALSE, FALSE) # h
          /\ Go(row, FALSE, TRUE) # g /\ Go(row, FALSE, TRUE) # h
          /\ Go(row, TRUE, FALSE) # g /\ Go(row, TRUE, FALSE) # h
          /\ Go(row, TRUE, TRUE) # g /\ Go(row, TRUE, TRUE) # h
      BY <1>3, <2>2 DEF Go
    <3>2. /\ EarlierToBegin(live', row) = EarlierToBegin(live, row)
          /\ MineToBegin(live', row) = MineToBegin(live, row)
          /\ EarlierInside(live', row) = EarlierInside(live, row)
          /\ MineInside(live', row) = MineInside(live, row)
      BY <1>4, <3>1, GoFacts
         DEF EarlierToBegin, MineToBegin, EarlierInside, MineInside
    <3> QED BY <2>1, <2>2, <3>2 DEF AskedOf
  <2>3. CASE row = g.row /\ g.mine
    <3>1. g = Go(row, FALSE, TRUE) /\ h = Go(row, TRUE, TRUE)
      BY <1>2, <2>3 DEF h
    <3>2. /\ Go(row, FALSE, FALSE) # g /\ Go(row, FALSE, FALSE) # h
          /\ Go(row, TRUE, FALSE) # g /\ Go(row, TRUE, FALSE) # h
      BY <3>1 DEF Go
    <3>3. /\ EarlierToBegin(live', row) = EarlierToBegin(live, row)
          /\ EarlierInside(live', row) = EarlierInside(live, row)
      BY <1>4, <3>2, GoFacts DEF EarlierToBegin, EarlierInside
    <3>4. /\ MineToBegin(live', row) = MineToBegin(live, row) - 1
          /\ MineInside(live', row) = MineInside(live, row) + 1
      BY <1>4, <3>1 DEF MineToBegin, MineInside
    <3> QED BY <2>1, <2>3, <3>3, <3>4 DEF AskedOf
  <2>4. CASE row = g.row /\ ~g.mine
    <3>1. g = Go(row, FALSE, FALSE) /\ h = Go(row, TRUE, FALSE)
      BY <1>2, <2>4 DEF h
    <3>2. /\ Go(row, FALSE, TRUE) # g /\ Go(row, FALSE, TRUE) # h
          /\ Go(row, TRUE, TRUE) # g /\ Go(row, TRUE, TRUE) # h
      BY <3>1 DEF Go
    <3>3. /\ MineToBegin(live', row) = MineToBegin(live, row)
          /\ MineInside(live', row) = MineInside(live, row)
      BY <1>4, <3>2, GoFacts DEF MineToBegin, MineInside
    <3>4. /\ EarlierToBegin(live', row) = EarlierToBegin(live, row) - 1
          /\ EarlierInside(live', row) = EarlierInside(live, row) + 1
      BY <1>4, <3>1 DEF EarlierToBegin, EarlierInside
    <3> QED BY <2>1, <2>4, <3>3, <3>4 DEF AskedOf
  <2> QED BY <2>2, <2>3, <2>4
<1> QED BY <1>1, <1>4, <1>5, InTermsOfCounters

(* A goroutine that ends goes from the running to the done.                *)
LEMMA EndStep ==
  ASSUME TypeOK, NEW g \in Goroutine, Finish(g)
  PROVE  /\ live' \in [Goroutine -> Nat] /\ executed' \in [Row -> Nat]
         /\ \A row \in Row :
              /\ Asked(row)' = Asked(row)
              /\ row = g.row /\ g.mine =>
                   MineInside(live, row) = MineInside(live', row) + 1
              /\ ~(row = g.row /\ g.mine) =>
                   MineInside(live, row) = MineInside(live', row)
<1>1. /\ live \in [Goroutine -> Nat] /\ executed \in [Row -> Nat]
      /\ live[g] > 0 /\ g.running
      /\ executed' = [executed EXCEPT ![g.row] = @ + 1]
      /\ live' = [live EXCEPT ![g] = @ - 1]
  BY DEF TypeOK, Finish, Returns
<1>2. g.row \in Row /\ g = Go(g.row, TRUE, g.mine) /\ g.mine \in BOOLEAN
  BY <1>1, FlagsFacts
<1>3. /\ live' \in [Goroutine -> Nat] /\ live'[g] = live[g] - 1
      /\ \A x \in Goroutine : x # g => live'[x] = live[x]
  BY <1>1
<1>4. /\ executed' \in [Row -> Nat] /\ executed'[g.row] = executed[g.row] + 1
      /\ \A row \in Row : row # g.row => executed'[row] = executed[row]
  BY <1>1, <1>2
<1>5. ASSUME NEW row \in Row
      PROVE  /\ AskedOf(executed', live', row) = AskedOf(executed, live, row)
             /\ row = g.row /\ g.mine =>
                  MineInside(live, row) = MineInside(live', row) + 1
             /\ ~(row = g.row /\ g.mine) =>
                  MineInside(live, row) = MineInside(live', row)
  <2>1. /\ EarlierToBegin(live, row) \in Nat /\ MineToBegin(live, row) \in Nat
        /\ EarlierInside(live, row) \in Nat /\ MineInside(live, row) \in Nat
        /\ executed[row] \in Nat
    BY <1>1, AskedType
  <2>2. /\ Go(row, FALSE, FALSE) # g /\ Go(row, FALSE, TRUE) # g
    BY <1>1 DEF Go
  <2>3. /\ EarlierToBegin(live', row) = EarlierToBegin(live, row)
        /\ MineToBegin(live', row) = MineToBegin(live, row)
    BY <1>3, <2>2, GoFacts DEF EarlierToBegin, MineToBegin
  <2>4. CASE row # g.row
    <3>1. Go(row, TRUE, FALSE) # g /\ Go(row, TRUE, TRUE) # g
      BY <2>4 DEF Go
    <3>2. /\ EarlierInside(live', row) = EarlierInside(live, row)
          /\ MineInside(live', row) = MineInside(live, row)
      BY <1>3, <3>1, GoFacts DEF EarlierInside, MineInside
    <3>3. executed'[row] = executed[row]
      BY <1>4, <2>4
    <3> QED BY <2>1, <2>3, <2>4, <3>2, <3>3 DEF AskedOf
  <2>5. CASE row = g.row /\ g.mine
    <3>1. g = Go(row, TRUE, TRUE)
      BY <1>2, <2>5
    <3>2. Go(row, TRUE, FALSE) # g
      BY <3>1 DEF Go
    <3>3. EarlierInside(live', row) = EarlierInside(live, row)
      BY <1>3, <3>2, GoFacts DEF EarlierInside
    <3>4. MineInside(live', row) = MineInside(live, row) - 1
      BY <1>3, <3>1 DEF MineInside
    <3>5. executed'[row] = executed[row] + 1
      BY <1>4, <2>5
    <3> QED BY <2>1, <2>3, <2>5, <3>3, <3>4, <3>5 DEF AskedOf
  <2>6. CASE row = g.row /\ ~g.mine
    <3>1. g = Go(row, TRUE, FALSE)
      BY <1>2, <2>6
    <3>2. Go(row, TRUE, TRUE) # g
      BY <3>1 DEF Go
    <3>3. MineInside(live', row) = MineInside(live, row)
      BY <1>3, <3>2, GoFacts DEF MineInside
    <3>4. EarlierInside(live', row) = EarlierInside(live, row) - 1
      BY <1>3, <3>1 DEF EarlierInside
    <3>5. executed'[row] = executed[row] + 1
      BY <1>4, <2>6
    <3> QED BY <2>1, <2>3, <2>6, <3>3, <3>4, <3>5 DEF AskedOf
  <2> QED BY <2>4, <2>5, <2>6
<1> QED BY <1>3, <1>4, <1>5, InTermsOfCounters

\* A new node: what was asked stays, and no goroutine counts for it yet.
LEMMA VisitStep ==
  ASSUME TypeOK, Visit
  PROVE  /\ live' \in [Goroutine -> Nat]
         /\ \A row \in Row : Asked(row)' = Asked(row) /\ MineInside(live', row) = 0
<1>1. /\ live \in [Goroutine -> Nat] /\ executed \in [Row -> Nat]
      /\ executed' = executed
      /\ live' = [g \in Goroutine |->
            IF g.mine THEN 0 ELSE live[g] + live[Go(g.row, g.running, TRUE)]]
  BY DEF TypeOK, Visit
<1>2. /\ live' \in [Goroutine -> Nat]
      /\ \A row \in Row :
           /\ AskedOf(executed, live', row) = AskedOf(executed, live, row)
           /\ MineInside(live', row) = 0
  BY <1>1, VisitCounts
<1> QED BY <1>1, <1>2, InTermsOfCounters

\* A sub-batch asks once more for each row in it, up to the bound.
LEMMA StartStep ==
  ASSUME TypeOK, BatchInv, WalkInv, StartSubBatch
  PROVE  /\ live' \in [Goroutine -> Nat]
         /\ \A row \in Row :
              /\ Asked(row)' = Asked(row)
                                 + InSubBatch(row, Dependents(txs, node), sub)
              /\ Asked(row)' <= MaxAsked
              /\ MineInside(live', row) = MineInside(live, row)
<1> DEFINE D == Dependents(txs, node)
           started == [row \in Row |-> InSubBatch(row, D, sub)]
<1>1. D \in Seq(Row)
  <2>1. InNode
    BY DEF StartSubBatch, InNode
  <2> QED BY <2>1, NodeKnown, DependentsNow
<1>2. started \in [Row -> Nat]
  BY <1>1, SubBatchFacts DEF TypeOK
<1>3. /\ live \in [Goroutine -> Nat] /\ executed \in [Row -> Nat]
      /\ executed' = executed
  BY DEF TypeOK, StartSubBatch
<1>4. live' = [g \in Goroutine |->
        IF g.mine /\ ~g.running THEN live[g] + started[g.row] ELSE live[g]]
  <2>1. \A g \in Goroutine : started[g.row] = InSubBatch(g.row, D, sub)
    BY FlagsFacts
  <2>2. live' = [g \in Goroutine |->
          IF g.mine /\ ~g.running THEN live[g] + InSubBatch(g.row, D, sub)
          ELSE live[g]]
    BY DEF StartSubBatch
  <2> HIDE DEF D, started
  <2> QED BY <2>1, <2>2
<1>5. \A row \in Row : Asked(row) + started[row] <= MaxAsked
  BY DEF StartSubBatch
<1>6. \A row \in Row : started[row] = InSubBatch(row, D, sub)
  OBVIOUS
<1> HIDE DEF D, started
<1>7. /\ live' \in [Goroutine -> Nat]
      /\ \A row \in Row :
           /\ AskedOf(executed, live', row)
                = AskedOf(executed, live, row) + started[row]
           /\ MineInside(live', row) = MineInside(live, row)
  BY <1>2, <1>3, <1>4, StartCounts
<1> QED BY <1>3, <1>5, <1>6, <1>7, InTermsOfCounters DEF D

\* Every other step leaves the counters alone.
CountersUnchanged == UNCHANGED <<live, executed, wg>>

-----------------------------------------------------------------------------
(* The WaitGroup.                                                          *)
LEMMA CountersKept ==
  ASSUME Inv, [Next]_vars
  PROVE  /\ live' \in [Goroutine -> Nat] /\ executed' \in [Row -> Nat]
         /\ wg' \in Nat /\ Bounded' /\ WaitGroupCounts'
<1>1. /\ TypeOK /\ BatchInv /\ WalkInv
      /\ live \in [Goroutine -> Nat] /\ executed \in [Row -> Nat]
      /\ wg = Cardinality(CountedOf(live)) /\ wg \in Nat
      /\ pc = "parked" => \E row \in Row : MineInside(live, row) > 0
      /\ \A row \in Row : Asked(row) <= MaxAsked
  BY InTermsOfCounters DEF Inv, TypeOK, WaitGroupCounts, Bounded, MineInside
<1>2. ASSUME live' \in [Goroutine -> Nat], executed' \in [Row -> Nat],
             wg' = Cardinality(CountedOf(live')),
             pc' = "parked" => \E row \in Row : MineInside(live', row) > 0,
             \A row \in Row : Asked(row)' <= MaxAsked
      PROVE  /\ live' \in [Goroutine -> Nat] /\ executed' \in [Row -> Nat]
             /\ wg' \in Nat /\ Bounded' /\ WaitGroupCounts'
  BY <1>2, InTermsOfCounters, CountedFinite
     DEF WaitGroupCounts, Bounded, MineInside
<1>3. ASSUME NEW g \in Goroutine, Begin(g)
      PROVE  /\ live' \in [Goroutine -> Nat] /\ executed' \in [Row -> Nat]
             /\ wg' \in Nat /\ Bounded' /\ WaitGroupCounts'
  <2>1. /\ live' \in [Goroutine -> Nat]
        /\ \A row \in Row :
             /\ Asked(row)' = Asked(row)
             /\ row = g.row /\ g.mine =>
                  MineInside(live', row) = MineInside(live, row) + 1
             /\ ~(row = g.row /\ g.mine) =>
                  MineInside(live', row) = MineInside(live, row)
    BY <1>1, <1>3, BeginStep
  <2>2. /\ executed' \in [Row -> Nat] /\ pc' = pc
        /\ g.mine => wg' = wg + 1
        /\ ~g.mine => wg' = wg
    BY <1>1, <1>3 DEF Begin
  <2>3. g.row \in Row
    BY FlagsFacts
  <2>4. \A row \in Row : Asked(row)' <= MaxAsked
    BY <1>1, <2>1
  <2>5. wg' = Cardinality(CountedOf(live'))
    <3>1. CASE g.mine
      <4>1. MineInside(live', g.row) = MineInside(live, g.row) + 1
        BY <2>1, <2>3, <3>1
      <4>2. MineInside(live', g.row) <= MaxAsked
        <5>1. AskedOf(executed', live', g.row) <= MaxAsked
          BY <2>3, <2>4, InTermsOfCounters
        <5>2. /\ MineInside(live', g.row) <= AskedOf(executed', live', g.row)
              /\ MineInside(live', g.row) \in Nat
              /\ AskedOf(executed', live', g.row) \in Nat
          BY <2>1, <2>2, <2>3, AskedType
        <5> QED BY <5>1, <5>2, ExecuterAssumption
      <4>3. \A row \in Row :
              row # g.row => MineInside(live', row) = MineInside(live, row)
        BY <2>1
      <4>4. Cardinality(CountedOf(live')) = Cardinality(CountedOf(live)) + 1
        BY <1>1, <2>3, <4>1, <4>2, <4>3, CountedGrows
      <4> QED BY <1>1, <2>2, <3>1, <4>4
    <3>2. CASE ~g.mine
      <4>1. CountedOf(live') = CountedOf(live)
        BY <2>1, <3>2, CountedSame
      <4> QED BY <1>1, <2>2, <3>2, <4>1
    <3> QED BY <3>1, <3>2
  <2>6. pc' = "parked" => \E row \in Row : MineInside(live', row) > 0
    <3> SUFFICES ASSUME pc = "parked"
                 PROVE  \E row \in Row : MineInside(live', row) > 0
      BY <2>2
    <3>1. PICK row \in Row : MineInside(live, row) > 0
      BY <1>1
    <3>2. MineInside(live, row) \in Nat
      BY <1>1, AskedType
    <3>3. \/ MineInside(live', row) = MineInside(live, row)
          \/ MineInside(live', row) = MineInside(live, row) + 1
      BY <2>1
    <3>4. MineInside(live', row) > 0
      BY <3>1, <3>2, <3>3
    <3> QED BY <3>4
  <2> QED BY <1>2, <2>1, <2>2, <2>4, <2>5, <2>6
<1>4. ASSUME NEW g \in Goroutine, Finish(g)
      PROVE  /\ live' \in [Goroutine -> Nat] /\ executed' \in [Row -> Nat]
             /\ wg' \in Nat /\ Bounded' /\ WaitGroupCounts'
  <2>1. /\ live' \in [Goroutine -> Nat] /\ executed' \in [Row -> Nat]
        /\ \A row \in Row :
             /\ Asked(row)' = Asked(row)
             /\ row = g.row /\ g.mine =>
                  MineInside(live, row) = MineInside(live', row) + 1
             /\ ~(row = g.row /\ g.mine) =>
                  MineInside(live, row) = MineInside(live', row)
    BY <1>1, <1>4, EndStep
  <2>2. /\ pc' = IF pc = "parked" /\ wg' = 0 THEN "woken" ELSE pc
        /\ g.mine => wg' = wg - 1
        /\ ~g.mine => wg' = wg
    BY <1>1, <1>4 DEF Finish
  <2>3. g.row \in Row
    BY FlagsFacts
  <2>4. \A row \in Row : Asked(row)' <= MaxAsked
    BY <1>1, <2>1
  <2>5. wg' = Cardinality(CountedOf(live'))
    <3>1. CASE g.mine
      <4>1. MineInside(live, g.row) = MineInside(live', g.row) + 1
        BY <2>1, <2>3, <3>1
      <4>2. MineInside(live, g.row) <= MaxAsked
        <5>1. AskedOf(executed, live, g.row) <= MaxAsked
          BY <1>1, <2>3, InTermsOfCounters
        <5>2. /\ MineInside(live, g.row) <= AskedOf(executed, live, g.row)
              /\ MineInside(live, g.row) \in Nat
              /\ AskedOf(executed, live, g.row) \in Nat
          BY <1>1, <2>3, AskedType
        <5> QED BY <5>1, <5>2, ExecuterAssumption
      <4>3. \A row \in Row :
              row # g.row => MineInside(live, row) = MineInside(live', row)
        BY <2>1
      <4>4. Cardinality(CountedOf(live)) = Cardinality(CountedOf(live')) + 1
        BY <2>1, <2>3, <4>1, <4>2, <4>3, CountedGrows
      <4> QED BY <1>1, <2>2, <3>1, <4>4, CountedFinite
    <3>2. CASE ~g.mine
      <4>1. CountedOf(live') = CountedOf(live)
        BY <2>1, <3>2, CountedSame
      <4> QED BY <1>1, <2>2, <3>2, <4>1
    <3> QED BY <3>1, <3>2
  <2>6. pc' = "parked" => \E row \in Row : MineInside(live', row) > 0
    BY <2>1, <2>2, <2>5, CountedSome
  <2> QED BY <1>2, <2>1, <2>4, <2>5, <2>6
<1>5. CASE Visit
  <2>1. /\ live' \in [Goroutine -> Nat]
        /\ \A row \in Row : Asked(row)' = Asked(row) /\ MineInside(live', row) = 0
    BY <1>1, <1>5, VisitStep
  <2>2. executed' \in [Row -> Nat] /\ wg' = 0 /\ pc' # "parked"
    BY <1>1, <1>5 DEF Visit
  <2>3. Cardinality(CountedOf(live')) = 0
    BY <2>1, CountedNone
  <2>4. \A row \in Row : Asked(row)' <= MaxAsked
    BY <1>1, <2>1
  <2> QED BY <1>2, <2>1, <2>2, <2>3, <2>4
<1>6. CASE StartSubBatch
  <2>1. /\ live' \in [Goroutine -> Nat]
        /\ \A row \in Row : /\ Asked(row)' <= MaxAsked
                            /\ MineInside(live', row) = MineInside(live, row)
    BY <1>1, <1>6, StartStep
  <2>2. executed' \in [Row -> Nat] /\ wg' = wg /\ pc' # "parked"
    BY <1>1, <1>6 DEF StartSubBatch
  <2>3. CountedOf(live') = CountedOf(live)
    BY <2>1, CountedSame
  <2> QED BY <1>1, <1>2, <2>1, <2>2, <2>3
<1>7. ASSUME CountersUnchanged, pc' = "parked" => pc = "parked" \/ wg > 0
      PROVE  /\ live' \in [Goroutine -> Nat] /\ executed' \in [Row -> Nat]
             /\ wg' \in Nat /\ Bounded' /\ WaitGroupCounts'
  <2>1. live' = live /\ executed' = executed /\ wg' = wg
    BY <1>7 DEF CountersUnchanged
  <2>2. wg > 0 => \E row \in Row : MineInside(live, row) > 0
    BY <1>1, CountedSome
  <2>3. \A row \in Row : Asked(row)' <= MaxAsked
    BY <1>1, <2>1, InTermsOfCounters
  <2> QED BY <1>1, <1>2, <1>7, <2>1, <2>2, <2>3
<1>8. ASSUME \/ \E tx \in Tx : AppendRow(tx)
             \/ GetInfo \/ GetBatch \/ Wait \/ WaitReturns \/ NextBatch \/ Exit
             \/ CallPanics \/ \E g \in Goroutine : ExecuteFails(g)
             \/ UNCHANGED vars
      PROVE  CountersUnchanged /\ (pc' = "parked" => pc = "parked" \/ wg > 0)
  <2>1. CASE \E tx \in Tx : AppendRow(tx)
    BY <2>1 DEF AppendRow, CountersUnchanged
  <2>2. CASE GetInfo \/ GetBatch
    BY <2>2 DEF GetInfo, GetBatch, CountersUnchanged
  <2>3. CASE Wait
    BY <2>3 DEF Wait, NextSubBatch, CountersUnchanged
  <2>4. CASE WaitReturns
    BY <2>4 DEF WaitReturns, NextSubBatch, Crash, CountersUnchanged
  <2>5. CASE NextBatch \/ Exit \/ CallPanics
    BY <2>5 DEF NextBatch, Exit, CallPanics, Crash, CountersUnchanged
  <2>6. CASE \E g \in Goroutine : ExecuteFails(g)
    BY <2>6 DEF ExecuteFails, Crash, CountersUnchanged
  <2>7. CASE UNCHANGED vars
    BY <2>7 DEF vars, CountersUnchanged
  <2> QED BY <1>8, <2>1, <2>2, <2>3, <2>4, <2>5, <2>6, <2>7
<1> QED BY <1>3, <1>4, <1>5, <1>6, <1>7, <1>8 DEF Next, Main

-----------------------------------------------------------------------------
(* Types, the batches and the height of the table.                         *)
LEMMA ShapeKept ==
  ASSUME Inv, [Next]_vars
  PROVE  TypeOK' /\ Stepped' /\ HeightInv'
<1> DEFINE P == /\ (order \in Seq(Tx))' /\ (Len(order) <= MaxOrder)'
                /\ (pc \in Phase)'
                /\ (height \in Nat)' /\ (i \in Nat)' /\ (sub \in Nat)'
                /\ (txs \in Seq([row : Row, tx : Tx]))'
                /\ (toVisit \in Seq(Row \cup {Root}))'
                /\ (node \in Row \cup {Root})' /\ (unread \in BOOLEAN)'
           H == /\ (height <= Len(order))'
                /\ pc' = "info" => /\ pc = "info"
                                  /\ UNCHANGED <<i, height, unread>>
                                  /\ \A row \in Row : Asked(row)' = Asked(row)
<1>1. /\ TypeOK /\ Stepped /\ HeightInv /\ BatchInv /\ WalkInv
  BY DEF Inv
<1>2. BatchSize \in Nat \ {0} /\ MaxOrder \in Nat /\ Len(order) \in Nat
  BY <1>1, ExecuterAssumption, LenProperties DEF TypeOK
<1>3. ASSUME P, H, Stepped' PROVE TypeOK' /\ Stepped' /\ HeightInv'
  <2>1. TypeOK'
    BY <1>3, CountersKept DEF TypeOK
  <2>2. HeightInv'
    BY <1>1, <1>3 DEF HeightInv
  <2> QED BY <1>3, <2>1, <2>2
<1>4. ASSUME i' = i PROVE Stepped'
  BY <1>1, <1>4 DEF Stepped
<1>5. ASSUME UNCHANGED <<live, executed>>
      PROVE  \A row \in Row : Asked(row)' = Asked(row)
  <2>1. live' = live /\ executed' = executed
    BY <1>5
  <2> QED BY <2>1, InTermsOfCounters
<1>6. CASE \E tx \in Tx : AppendRow(tx)
  <2>1. PICK tx \in Tx : AppendRow(tx)
    BY <1>6
  <2>2. /\ order' = Append(order, tx) /\ Len(order) < MaxOrder
        /\ UNCHANGED <<pc, height, i, txs, toVisit, node, sub, live, executed,
                       unread>>
    BY <2>1 DEF AppendRow, graphVars
  <2>3. order' \in Seq(Tx) /\ Len(order') = Len(order) + 1
    BY <1>1, <2>2, AppendProperties DEF TypeOK
  <2>4. P
    BY <1>1, <1>2, <2>2, <2>3 DEF TypeOK
  <2>5. H
    BY <1>1, <1>2, <1>5, <2>2, <2>3 DEF TypeOK, HeightInv
  <2> HIDE DEF P, H
  <2> QED BY <1>3, <1>4, <2>2, <2>4, <2>5
<1>7. CASE GetInfo
  <2>1. /\ UNCHANGED <<order, i, txs, toVisit, node, sub>> /\ pc' = "fetch"
        /\ height' = Len(order) \/ height' = 0
        /\ unread' = unread \/ unread' = TRUE
    BY <1>7 DEF GetInfo
  <2>2. P
    <3>1. unread' \in BOOLEAN
      BY <1>1, <2>1 DEF TypeOK
    <3>2. height' \in Nat /\ pc' \in Phase
      BY <1>2, <2>1 DEF Phase
    <3> QED BY <1>1, <2>1, <3>1, <3>2 DEF TypeOK
  <2>3. H
    BY <1>2, <2>1
  <2> HIDE DEF P, H
  <2> QED BY <1>3, <1>4, <2>1, <2>2, <2>3
<1>8. CASE GetBatch
  <2> DEFINE wanted == Get(i, i + BatchSize)
  <2>1. wanted \in Seq(BatchTx) /\ Distinct(wanted) /\ Len(wanted) \in Nat
    <3>1. i \in Nat /\ i + BatchSize \in Nat
      BY <1>1, <1>2 DEF TypeOK
    <3>2. order \in Seq(Tx) /\ Len(order) <= MaxOrder
      BY <1>1 DEF TypeOK
    <3>3. wanted \in Seq(BatchTx) /\ Distinct(wanted)
      BY <3>1, <3>2, GetFacts
    <3> HIDE DEF wanted
    <3> QED BY <3>3, LenProperties
  <2>2. /\ UNCHANGED <<order, height, i, node, sub>>
        /\ pc' = "visit" /\ toVisit' = <<Root>>
        /\ \/ txs' = wanted /\ unread' = unread
           \/ \E k \in 0..(Len(wanted) - 1) :
                txs' = SubSeq(wanted, 1, k) /\ unread' = TRUE
    BY <1>8 DEF GetBatch
  <2> HIDE DEF wanted
  <2>3. txs' \in Seq(BatchTx) /\ unread' \in BOOLEAN
    <3>1. CASE txs' = wanted /\ unread' = unread
      BY <1>1, <2>1, <3>1 DEF TypeOK
    <3>2. ASSUME NEW k \in 0..(Len(wanted) - 1),
                 txs' = SubSeq(wanted, 1, k), unread' = TRUE
          PROVE  txs' \in Seq(BatchTx) /\ unread' \in BOOLEAN
      <4>1. k \in 0..Len(wanted)
        BY <2>1
      <4> QED BY <2>1, <3>2, <4>1, PrefixFacts
    <3> QED BY <2>2, <3>1, <3>2
  <2>4. P
    BY <1>1, <2>2, <2>3 DEF TypeOK, Phase, BatchTx
  <2>5. H
    BY <1>1, <2>2 DEF HeightInv
  <2> HIDE DEF P, H
  <2> QED BY <1>3, <1>4, <2>2, <2>4, <2>5
<1>9. CASE Visit
  <2>1. /\ UNCHANGED <<order, height, i, txs, unread>>
        /\ toVisit # << >> /\ node' = Head(toVisit) /\ toVisit' = Tail(toVisit)
        /\ sub' = 0 /\ pc' \in Phase /\ pc' # "info"
    BY <1>9 DEF Visit, Phase
  <2>2. /\ Head(toVisit) \in Row \cup {Root}
        /\ Tail(toVisit) \in Seq(Row \cup {Root})
    BY <1>1, <2>1, HeadTailProperties DEF TypeOK
  <2>3. P
    BY <1>1, <2>1, <2>2 DEF TypeOK
  <2>4. H
    BY <1>1, <2>1 DEF HeightInv
  <2> HIDE DEF P, H
  <2> QED BY <1>3, <1>4, <2>1, <2>3, <2>4
<1>10. ASSUME pc \in {"wait", "woken"}, NextSubBatch,
              UNCHANGED <<order, height, i, txs, node, unread>>
       PROVE  TypeOK' /\ Stepped' /\ HeightInv'
  <2>1. Dependents(txs, node) \in Seq(Row)
    <3>1. InNode
      BY <1>10 DEF InNode
    <3> QED BY <1>1, <3>1, NodeKnown, DependentsNow
  <2>2. toVisit \o Dependents(txs, node) \in Seq(Row \cup {Root})
    BY <1>1, <2>1, ConcatProperties DEF TypeOK
  <2>3. P
    <3>1. /\ sub' = sub + 1 \/ sub' = sub
          /\ pc' = "spawn" \/ pc' = "visit"
          /\ \/ toVisit' = toVisit
             \/ toVisit' = toVisit \o Dependents(txs, node)
      BY <1>10 DEF NextSubBatch
    <3>2. sub' \in Nat /\ pc' \in Phase
      BY <1>1, <3>1 DEF TypeOK, Phase
    <3>3. toVisit' \in Seq(Row \cup {Root})
      BY <1>1, <2>2, <3>1 DEF TypeOK
    <3> QED BY <1>1, <1>10, <3>2, <3>3 DEF TypeOK
  <2>4. H
    BY <1>1, <1>10 DEF HeightInv, NextSubBatch
  <2> HIDE DEF P, H
  <2> QED BY <1>3, <1>4, <1>10, <2>3, <2>4
<1>11. CASE StartSubBatch
  <2>1. P /\ H /\ i' = i
    BY <1>1, <1>11 DEF StartSubBatch, graphVars, TypeOK, Phase, HeightInv
  <2> HIDE DEF P, H
  <2> QED BY <1>3, <1>4, <2>1
<1>12. CASE Wait
  <2>1. CASE NextSubBatch
    BY <1>10, <1>12, <2>1 DEF Wait
  <2>2. CASE ~NextSubBatch
    <3>1. P /\ H /\ i' = i
      BY <1>1, <1>12, <2>2 DEF Wait, TypeOK, Phase, HeightInv
    <3> HIDE DEF P, H
    <3> QED BY <1>3, <1>4, <3>1
  <2> QED BY <2>1, <2>2
<1>13. ASSUME Crash PROVE TypeOK' /\ Stepped' /\ HeightInv'
  <2>1. P /\ H /\ i' = i
    BY <1>1, <1>13 DEF Crash, graphVars, TypeOK, Phase, HeightInv
  <2> HIDE DEF P, H
  <2> QED BY <1>3, <1>4, <2>1
<1>14. CASE WaitReturns
  BY <1>10, <1>13, <1>14 DEF WaitReturns
<1>15. CASE NextBatch
  <2>1. P /\ H
    BY <1>1, <1>2, <1>15 DEF NextBatch, TypeOK, Phase, HeightInv
  <2>2. Stepped'
    <3>1. PICK n \in Nat : i = n * BatchSize
      BY <1>1 DEF Stepped
    <3>2. i' = (n + 1) * BatchSize /\ n + 1 \in Nat
      BY <1>2, <1>15, <3>1 DEF NextBatch
    <3> QED BY <3>2 DEF Stepped
  <2> HIDE DEF P, H
  <2> QED BY <1>3, <2>1, <2>2
<1>16. CASE Exit
  <2>1. P /\ H /\ i' = i
    BY <1>1, <1>16 DEF Exit, graphVars, TypeOK, Phase, HeightInv
  <2> HIDE DEF P, H
  <2> QED BY <1>3, <1>4, <2>1
<1>17. ASSUME NEW g \in Goroutine, Begin(g)
       PROVE  TypeOK' /\ Stepped' /\ HeightInv'
  <2>1. \A row \in Row : Asked(row)' = Asked(row)
    BY <1>1, <1>17, BeginStep
  <2>2. P /\ H /\ i' = i
    BY <1>1, <1>17, <2>1 DEF Begin, graphVars, TypeOK, HeightInv
  <2> HIDE DEF P, H
  <2> QED BY <1>3, <1>4, <2>2
<1>18. ASSUME NEW g \in Goroutine, Finish(g)
       PROVE  TypeOK' /\ Stepped' /\ HeightInv'
  <2>1. \A row \in Row : Asked(row)' = Asked(row)
    BY <1>1, <1>18, EndStep
  <2>2. P /\ H /\ i' = i
    BY <1>1, <1>18, <2>1 DEF Finish, graphVars, TypeOK, Phase, HeightInv
  <2> HIDE DEF P, H
  <2> QED BY <1>3, <1>4, <2>2
<1>19. CASE UNCHANGED vars
  <2>1. P /\ H /\ i' = i
    BY <1>1, <1>5, <1>19 DEF vars, TypeOK, HeightInv
  <2> HIDE DEF P, H
  <2> QED BY <1>3, <1>4, <2>1
<1> HIDE DEF P, H
<1>20. CASE CallPanics
  BY <1>13, <1>20 DEF CallPanics
<1>21. ASSUME NEW g \in Goroutine, ExecuteFails(g)
       PROVE  TypeOK' /\ Stepped' /\ HeightInv'
  BY <1>13, <1>21 DEF ExecuteFails
<1> QED BY <1>6, <1>7, <1>8, <1>9, <1>11, <1>12, <1>14, <1>15, <1>16, <1>17,
           <1>18, <1>19, <1>20, <1>21 DEF Next, Main

-----------------------------------------------------------------------------
(* The walk.                                                               *)

\* What the parts of the walk are told by.
SamePlace ==
  /\ UNCHANGED <<i, height, txs, toVisit, node, unread>>
  /\ InNode' <=> InNode
  /\ pc' = "visit" <=> pc = "visit"

\* main() is in the walk when it looks for a node or is at one.
LEMMA WalkingIs ==
  /\ Walking <=> pc = "visit" \/ InNode
  /\ Walking' <=> pc' = "visit" \/ InNode'
  /\ ~(pc = "visit" /\ InNode) /\ ~(pc' = "visit" /\ InNode')
BY DEF Walking, InNode

\* The steps that stay where they are in the walk.
StaysPut ==
  \/ \E tx \in Tx : AppendRow(tx)
  \/ StartSubBatch
  \/ Wait /\ ~NextSubBatch
  \/ \E g \in Goroutine : Begin(g) \/ Finish(g)
  \/ UNCHANGED vars

\* Such a step changes nothing of the walk.
LEMMA StayingPut ==
  ASSUME StaysPut
  PROVE  SamePlace
<1>1. CASE \E tx \in Tx : AppendRow(tx)
  BY <1>1 DEF AppendRow, graphVars, SamePlace, InNode
<1>2. CASE StartSubBatch
  BY <1>2 DEF StartSubBatch, graphVars, SamePlace, InNode
<1>3. CASE Wait /\ ~NextSubBatch
  BY <1>3 DEF Wait, SamePlace, InNode
<1>4. CASE \E g \in Goroutine : Begin(g)
  BY <1>4 DEF Begin, graphVars, SamePlace, InNode
<1>5. CASE \E g \in Goroutine : Finish(g)
  BY <1>5 DEF Finish, graphVars, SamePlace, InNode
<1>6. CASE UNCHANGED vars
  BY <1>6 DEF vars, SamePlace, InNode
<1> QED BY <1>1, <1>2, <1>3, <1>4, <1>5, <1>6 DEF StaysPut

\* The steps after which main() is not in the walk.
Leaves == GetInfo \/ NextBatch \/ Exit \/ Crash

\* After such a step the walk is over.
LEMMA Leaving ==
  ASSUME Leaves
  PROVE  ~Walking'
BY DEF Leaves, GetInfo, NextBatch, Exit, Crash, Walking

\* wg.Wait() has returned.
Returned ==
  /\ pc \in {"wait", "woken"}
  /\ NextSubBatch
  /\ UNCHANGED <<order, height, i, txs, node, wg, live, executed, unread>>

(* The steps of main(), by what they do to the walk.                       *)
LEMMA Steps ==
  ASSUME [Next]_vars
  PROVE  StaysPut \/ Leaves \/ GetBatch \/ Visit \/ Returned
<1>1. Wait => StaysPut \/ Returned
  BY DEF Wait, StaysPut, Returned
<1>2. WaitReturns => Returned \/ Leaves
  BY DEF WaitReturns, Returned, Leaves
<1>3. CallPanics => Leaves
  BY DEF CallPanics, Leaves
<1>4. ASSUME NEW g \in Goroutine PROVE ExecuteFails(g) => Leaves
  BY DEF ExecuteFails, Leaves
<1>5. CASE Main
  BY <1>1, <1>2, <1>5 DEF Main, Leaves, StaysPut
<1>6. CASE Next /\ ~Main
  BY <1>3, <1>4, <1>6 DEF Next, StaysPut
<1>7. CASE UNCHANGED vars
  BY <1>7 DEF StaysPut
<1> QED BY <1>5, <1>6, <1>7

(* The batch that the sequencer answers.                                   *)
LEMMA BatchKept ==
  ASSUME Inv, [Next]_vars
  PROVE  BatchInv'
<1>1. TypeOK /\ BatchInv /\ HeightInv
  BY DEF Inv
<1>2. CASE StaysPut
  <2>1. SamePlace
    BY <1>2, StayingPut
  <2>2. /\ i' = i /\ height' = height /\ txs' = txs /\ unread' = unread
        /\ Walking' => Walking
    BY <2>1, WalkingIs DEF SamePlace
  <2> QED BY <1>1, <2>2 DEF BatchInv, Fetched
<1>3. CASE Leaves
  BY <1>3, Leaving DEF BatchInv
<1>4. CASE GetBatch
  <2> DEFINE wanted == Get(i, i + BatchSize)
  <2>1. /\ i' = i /\ height' = height /\ height \in Nat /\ i \in Nat
        /\ \/ txs' = wanted /\ unread' = unread
           \/ \E k \in 0..(Len(wanted) - 1) :
                txs' = SubSeq(wanted, 1, k) /\ unread' = TRUE
    BY <1>1, <1>4 DEF GetBatch, TypeOK
  <2>2. /\ i + BatchSize \in Nat /\ order \in Seq(Tx) /\ Len(order) <= MaxOrder
        /\ Len(order) \in Nat
    BY <1>1, <2>1, ExecuterAssumption, LenProperties DEF TypeOK
  <2>3. /\ wanted \in Seq(BatchTx) /\ Distinct(wanted)
        /\ \A k \in DOMAIN wanted :
             i <= wanted[k].row /\ wanted[k].row <= i + BatchSize
        /\ \A row \in 1..Len(order) : i <= row /\ row <= i + BatchSize =>
             \E k \in DOMAIN wanted : wanted[k].row = row
    BY <2>1, <2>2, GetFacts
  <2> HIDE DEF wanted
  <2>4. \A row \in 1..height : row \in 1..Len(order)
    BY <1>1, <2>1, <2>2 DEF HeightInv
  <2>5. CASE txs' = wanted /\ unread' = unread
    BY <2>1, <2>3, <2>4, <2>5 DEF BatchInv, Fetched
  <2>6. ASSUME NEW k \in 0..(Len(wanted) - 1),
               txs' = SubSeq(wanted, 1, k), unread' = TRUE
        PROVE  BatchInv'
    <3>1. k \in 0..Len(wanted)
      BY <2>3, LenProperties
    <3>2. /\ Distinct(SubSeq(wanted, 1, k))
          /\ \A j \in DOMAIN SubSeq(wanted, 1, k) :
               /\ j \in DOMAIN wanted
               /\ SubSeq(wanted, 1, k)[j] = wanted[j]
      BY <2>3, <3>1, PrefixFacts
    <3> QED BY <2>1, <2>3, <2>6, <3>2 DEF BatchInv
  <2> QED BY <2>1, <2>5, <2>6
<1>5. CASE Visit \/ Returned
  <2>1. /\ i' = i /\ height' = height /\ txs' = txs /\ unread' = unread
        /\ Walking
    BY <1>5 DEF Visit, Returned, Walking
  <2> QED BY <1>1, <2>1 DEF BatchInv, Fetched
<1> QED BY <1>2, <1>3, <1>4, <1>5, Steps

\* The transactions of a batch are rows of the table, never the root.
LEMMA RowsOfBatch ==
  ASSUME TypeOK, NEW k \in DOMAIN txs
  PROVE  txs[k].row \in Row /\ txs[k].row # Root
<1>1. txs \in Seq(BatchTx)
  BY DEF TypeOK, BatchTx
<1>2. txs[k] \in BatchTx
  BY <1>1, ElementOfSeq, LenProperties
<1> QED BY <1>2, ExecuterAssumption DEF BatchTx, Row, Root

\* No list of rows of the batch is that of the root.
LEMMA RootNotFetched ==
  ASSUME TypeOK, NEW s, \A j \in DOMAIN s : Fetched(s[j])
  PROVE  s # <<Root>>
<1>1. ~Fetched(Root)
  BY RowsOfBatch DEF Fetched
<1>2. 1 \in DOMAIN <<Root>> /\ <<Root>>[1] = Root
  OBVIOUS
<1> QED BY <1>1, <1>2

(* Where the walk goes from the node visited.                              *)
LEMMA WalkReturned ==
  ASSUME Inv, Returned
  PROVE  WalkInv' /\ ~AtRoot' /\ (Doomed => Doomed')
<1> DEFINE D == Dependents(txs, node)
<1>1. TypeOK /\ BatchInv /\ WalkInv /\ txs' = txs /\ node' = node
  BY DEF Inv, Returned
<1>2. InNode /\ pc # "visit" /\ Walking
  BY DEF Returned, InNode, Walking
<1>3. /\ txs \in Seq(BatchTx) /\ D \in Seq(Row)
      /\ \A m \in DOMAIN D : Fetched(D[m])
      /\ \A k \in DOMAIN txs : txs[k].row = node =>
           (D = << >> <=> ~Repeats(txs[k])) /\ \A m \in DOMAIN D : D[m] = node
  BY <1>1, <1>2, NodeKnown, DependentsNow
<1>4. node = Root => D = [k \in 1..Len(txs) |-> txs[k].row]
  BY <1>3, RootDependents
<1> HIDE DEF D
<1>5. \/ pc' = "spawn" /\ toVisit' = toVisit
      \/ pc' = "visit" /\ toVisit' = toVisit \o D
  BY DEF Returned, NextSubBatch, D
<1>6. CASE pc' = "spawn" /\ toVisit' = toVisit
  <2>1. InNode' /\ pc' # "visit"
    BY <1>6 DEF InNode
  <2> QED BY <1>1, <1>2, <1>6, <2>1
          DEF WalkInv, AtRoot, InRoot, Doomed, Fetched
<1>7. CASE pc' = "visit" /\ toVisit' = toVisit \o D
  <2>1. ~InNode'
    BY <1>7 DEF InNode
  <2>2. /\ toVisit \in Seq(Row \cup {Root}) /\ D \in Seq(Row \cup {Root})
        /\ Len(toVisit) \in Nat /\ DOMAIN toVisit = 1..Len(toVisit)
        /\ Len(D) \in Nat /\ DOMAIN D = 1..Len(D)
        /\ Len(txs) \in Nat /\ DOMAIN txs = 1..Len(txs)
    BY <1>1, <1>3, LenProperties DEF TypeOK
  <2>3. /\ DOMAIN toVisit' = 1..(Len(toVisit) + Len(D))
        /\ \A j \in 1..Len(toVisit) : toVisit'[j] = toVisit[j]
        /\ \A m \in 1..Len(D) : toVisit'[Len(toVisit) + m] = D[m]
    <3>1. /\ toVisit' \in Seq(Row \cup {Root})
          /\ Len(toVisit') = Len(toVisit) + Len(D)
          /\ \A j \in 1..(Len(toVisit) + Len(D)) :
               toVisit'[j] = IF j <= Len(toVisit) THEN toVisit[j]
                             ELSE D[j - Len(toVisit)]
      BY <1>7, <2>2, ConcatProperties
    <3>2. DOMAIN toVisit' = 1..(Len(toVisit) + Len(D))
      BY <3>1, LenProperties
    <3>3. \A j \in 1..Len(toVisit) : toVisit'[j] = toVisit[j]
      BY <2>2, <3>1
    <3>4. ASSUME NEW m \in 1..Len(D)
          PROVE  toVisit'[Len(toVisit) + m] = D[m]
      <4>1. /\ Len(toVisit) + m \in 1..(Len(toVisit) + Len(D))
            /\ ~(Len(toVisit) + m <= Len(toVisit))
            /\ (Len(toVisit) + m) - Len(toVisit) = m
        BY <2>2
      <4> QED BY <3>1, <4>1
    <3> QED BY <3>2, <3>3, <3>4
  <2>4. \A j \in DOMAIN toVisit' :
          j \in DOMAIN toVisit \/ \E m \in DOMAIN D : j = Len(toVisit) + m
    <3> SUFFICES ASSUME NEW j \in DOMAIN toVisit', j \notin DOMAIN toVisit
                 PROVE  \E m \in DOMAIN D : j = Len(toVisit) + m
      OBVIOUS
    <3>1. j - Len(toVisit) \in DOMAIN D /\ j = Len(toVisit) + (j - Len(toVisit))
      BY <2>2, <2>3
    <3> QED BY <3>1
  <2>5. \A j \in DOMAIN toVisit : Fetched(toVisit[j])
    BY <1>2, <1>1, <2>2 DEF WalkInv, AtRoot
  <2>6. \A j \in DOMAIN toVisit' : Fetched(toVisit'[j])
    BY <1>3, <2>2, <2>3, <2>4, <2>5
  <2>7. (\E k \in DOMAIN txs : Repeats(txs[k])) => Doomed'
    <3>1. CASE InRoot
      <4> SUFFICES ASSUME NEW k \in DOMAIN txs, Repeats(txs[k]) PROVE Doomed'
        OBVIOUS
      <4>1. k \in DOMAIN D /\ D[k] = txs[k].row
        BY <1>4, <2>2, <3>1 DEF InRoot
      <4>2. /\ Len(toVisit) + k \in DOMAIN toVisit'
            /\ toVisit'[Len(toVisit) + k] = txs[k].row
        BY <2>2, <2>3, <4>1
      <4> QED BY <1>1, <4>2 DEF Doomed
    <3>2. CASE Doomed
      <4>1. PICK k \in DOMAIN txs :
              /\ Repeats(txs[k])
              /\ \/ \E j \in DOMAIN toVisit : toVisit[j] = txs[k].row
                 \/ node = txs[k].row
        BY <3>2 DEF Doomed
      <4>2. CASE \E j \in DOMAIN toVisit : toVisit[j] = txs[k].row
        <5>1. PICK j \in DOMAIN toVisit : toVisit[j] = txs[k].row
          BY <4>2
        <5>2. j \in DOMAIN toVisit' /\ toVisit'[j] = txs[k].row
          BY <2>2, <2>3, <5>1
        <5> QED BY <1>1, <4>1, <5>2 DEF Doomed
      <4>3. CASE node = txs[k].row
        <5>1. 1 \in DOMAIN D /\ D[1] = node
          <6>1. D # << >> /\ \A m \in DOMAIN D : D[m] = node
            BY <1>3, <4>1, <4>3
          <6> QED BY <1>3, <2>2, <6>1, EmptySeq
        <5>2. /\ Len(toVisit) + 1 \in DOMAIN toVisit'
              /\ toVisit'[Len(toVisit) + 1] = txs[k].row
          BY <2>2, <2>3, <4>3, <5>1
        <5> QED BY <1>1, <4>1, <5>2 DEF Doomed
      <4> QED BY <4>1, <4>2, <4>3
    <3> QED BY <1>1, <1>2, <3>1, <3>2 DEF WalkInv, AtRoot
  <2>8. ~AtRoot'
    BY <1>1, <2>6, RootNotFetched DEF AtRoot
  <2>9. Doomed => Doomed'
    BY <2>7 DEF Doomed
  <2>10. WalkInv'
    BY <1>1, <1>7, <2>1, <2>6, <2>7 DEF WalkInv, Fetched
  <2> QED BY <2>8, <2>9, <2>10
<1> QED BY <1>5, <1>6, <1>7

(* Where the walk goes to the next node.                                   *)
LEMMA WalkVisit ==
  ASSUME Inv, Visit
  PROVE  /\ WalkInv'
         /\ AtRoot => toVisit' = << >>
         /\ ~AtRoot => ~AtRoot' /\ (Doomed => Doomed')
         /\ ~AtRoot /\ pc' = "spawn" => Doomed' /\ node' # Root
<1> DEFINE head == Head(toVisit)
           D == Dependents(txs, head)
<1>1. /\ TypeOK /\ BatchInv /\ WalkInv /\ txs' = txs
      /\ pc = "visit" /\ toVisit # << >>
      /\ node' = head /\ toVisit' = Tail(toVisit)
      /\ pc' = IF D = << >> THEN "visit" ELSE "spawn"
  BY DEF Inv, Visit
<1>2. Walking /\ ~InNode /\ (head = Root \/ Fetched(head))
  BY <1>1, HeadKnown DEF InNode
<1>3. /\ txs \in Seq(BatchTx) /\ D \in Seq(Row)
      /\ \A k \in DOMAIN txs : txs[k].row = head => (D = << >> <=> ~Repeats(txs[k]))
  BY <1>1, <1>2, DependentsNow
<1>4. head = Root => D = [k \in 1..Len(txs) |-> txs[k].row]
  BY <1>3, RootDependents
<1>5. /\ toVisit \in Seq(Row \cup {Root})
      /\ Len(toVisit) \in Nat \ {0} /\ DOMAIN toVisit = 1..Len(toVisit)
      /\ head = toVisit[1]
      /\ DOMAIN toVisit' = 1..(Len(toVisit) - 1)
      /\ \A j \in 1..(Len(toVisit) - 1) : toVisit'[j] = toVisit[j + 1]
  <2>1. toVisit \in Seq(Row \cup {Root}) /\ Len(toVisit) \in Nat \ {0}
    BY <1>1, EmptySeq DEF TypeOK
  <2>2. /\ toVisit' \in Seq(Row \cup {Root})
        /\ Len(toVisit') = Len(toVisit) - 1
        /\ \A j \in 1..Len(toVisit') : toVisit'[j] = toVisit[j + 1]
    BY <1>1, <2>1, HeadTailProperties
  <2> QED BY <2>1, <2>2, LenProperties
<1> HIDE DEF head, D
<1>6. CASE AtRoot
  <2>1. head = Root /\ toVisit' = << >>
    BY <1>1, <1>6 DEF AtRoot, head
  <2>2. CASE D = << >>
    <3>1. Len(txs) = 0
      <4>1. Len(txs) \in Nat /\ Len(D) = Len(txs)
        BY <1>3, <1>4, <2>1, LenProperties
      <4> QED BY <2>2, <4>1
    <3>2. DOMAIN txs = {} /\ DOMAIN toVisit' = {}
      BY <1>3, <2>1, <3>1, LenProperties
    <3>3. pc' = "visit" /\ ~InNode'
      BY <1>1, <2>2 DEF InNode
    <3> QED BY <1>1, <1>6, <2>1, <3>2, <3>3 DEF WalkInv
  <2>3. CASE D # << >>
    <3>1. InNode' /\ node' = Root
      BY <1>1, <2>1, <2>3 DEF InNode
    <3> QED BY <1>6, <2>1, <3>1 DEF WalkInv, InRoot
  <2> QED BY <2>2, <2>3
<1>7. CASE ~AtRoot
  <2>1. /\ \A j \in DOMAIN toVisit : Fetched(toVisit[j])
        /\ Doomed \/ \A k \in DOMAIN txs : ~Repeats(txs[k])
    BY <1>1, <1>2, <1>7 DEF WalkInv, InRoot
  <2>2. \A j \in DOMAIN toVisit' : Fetched(toVisit'[j])
    BY <1>5, <2>1
  <2>3. PICK h \in DOMAIN txs : txs[h].row = head
    BY <1>5, <2>1 DEF Fetched
  <2>4. CASE D # << >>
    <3>1. InNode' /\ node' = head
      BY <1>1, <2>4 DEF InNode
    <3>2. Repeats(txs[h])
      BY <1>3, <2>3, <2>4
    <3>3. Doomed' /\ Fetched(node')
      BY <1>1, <2>3, <3>1, <3>2 DEF Doomed, Fetched
    <3>4. ~AtRoot' /\ node' # Root
      <4>1. node' # Root
        BY <1>1, <2>3, <3>1, RowsOfBatch
      <4> QED BY <3>1, <4>1, WalkingIs DEF AtRoot
    <3> QED BY <1>1, <1>7, <2>2, <3>3, <3>4 DEF WalkInv, Fetched
  <2>5. CASE D = << >>
    <3>1. pc' = "visit" /\ ~InNode'
      BY <1>1, <2>5 DEF InNode
    <3>2. Doomed => Doomed'
      <4> SUFFICES ASSUME Doomed PROVE Doomed'
        OBVIOUS
      <4>1. PICK k \in DOMAIN txs, j \in DOMAIN toVisit :
              Repeats(txs[k]) /\ toVisit[j] = txs[k].row
        BY <1>2 DEF Doomed
      <4>2. j # 1
        BY <1>3, <1>5, <2>5, <4>1
      <4>3. j - 1 \in DOMAIN toVisit' /\ toVisit'[j - 1] = txs[k].row
        BY <1>5, <4>1, <4>2
      <4> QED BY <1>1, <4>1, <4>3 DEF Doomed
    <3>3. ~AtRoot'
      BY <1>1, <2>2, RootNotFetched DEF AtRoot
    <3> QED BY <1>1, <1>7, <2>1, <2>2, <3>1, <3>2, <3>3 DEF WalkInv, Fetched
  <2> QED BY <2>4, <2>5
<1> QED BY <1>6, <1>7

\* Every step keeps WalkInv.
LEMMA WalkKept ==
  ASSUME Inv, [Next]_vars
  PROVE  WalkInv'
<1>1. CASE StaysPut
  <2>1. /\ UNCHANGED <<txs, toVisit, node>> /\ WalkInv
        /\ Walking' <=> Walking
        /\ InNode' <=> InNode
        /\ pc' = "visit" <=> pc = "visit"
    BY <1>1, StayingPut, WalkingIs DEF SamePlace, Inv
  <2> QED BY <2>1 DEF WalkInv, AtRoot, InRoot, Doomed, Fetched
<1>2. CASE Leaves
  BY <1>2, Leaving DEF WalkInv
<1>3. CASE GetBatch
  BY <1>3 DEF GetBatch, WalkInv, AtRoot
<1> QED BY <1>1, <1>2, <1>3, WalkVisit, WalkReturned, Steps

-----------------------------------------------------------------------------
(* What main() has asked for.                                              *)

\* What main() set out to sync are rows of the table.
LEMMA HeightRows ==
  ASSUME TypeOK, HeightInv
  PROVE  height \in Nat /\ i \in Nat /\ \A row \in 1..height : row \in Row /\ row \in Nat
<1>1. Len(order) \in Nat /\ Len(order) <= MaxOrder /\ height <= Len(order)
  BY LenProperties DEF TypeOK, HeightInv
<1> QED BY <1>1, ExecuterAssumption DEF TypeOK, Row

(* A step that asks for nothing and leaves HandedIn alone.                 *)
LEMMA NothingAsked ==
  ASSUME Inv, i' = i, height' = height, unread' = unread \/ unread' = TRUE,
         \A row \in 1..height : Asked(row)' = Asked(row),
         \/ pc' = "crashed" \/ Endless'
         \/ /\ pc # "crashed" /\ ~Endless
            /\ \A row \in 1..height : HandedIn(row)' = HandedIn(row)
  PROVE  Accounted'
<1>1. CASE pc' = "crashed" \/ Endless' \/ unread'
  BY <1>1 DEF Accounted
<1>2. CASE ~(pc' = "crashed" \/ Endless' \/ unread')
  <2>1. /\ pc # "crashed" /\ ~Endless /\ ~unread
        /\ \A row \in 1..height : HandedIn(row)' = HandedIn(row)
    BY <1>2 DEF Inv, TypeOK
  <2>2. \A row \in 1..height :
          Asked(row) = Cardinality(BatchesTo(i, row)) + HandedIn(row)
    BY <2>1 DEF Inv, Accounted
  <2>3. \A row \in 1..height :
          Asked(row)' = Cardinality(BatchesTo(i', row)) + HandedIn(row)'
    BY <2>1, <2>2
  <2> QED BY <2>3 DEF Accounted, BatchesTo
<1> QED BY <1>1, <1>2

\* The last sub-batch goes to the end of the dependents.
LEMMA LastSubBatch ==
  ASSUME NEW n \in Nat, NEW k \in Nat, k >= (n \div ExecBatchSize) + 1
  PROVE  n <= ExecBatchSize * k
<1>1. ExecBatchSize \in Nat \ {0}
  BY ExecuterAssumption
<1>2. /\ n \div ExecBatchSize \in Nat
      /\ n < ExecBatchSize * ((n \div ExecBatchSize) + 1)
  BY <1>1
<1>3. ASSUME NEW a \in Nat, NEW b \in Nat, a <= b
      PROVE  ExecBatchSize * a <= ExecBatchSize * b
  BY <1>1, <1>3
<1>4. ExecBatchSize * ((n \div ExecBatchSize) + 1) <= ExecBatchSize * k
  BY <1>2, <1>3
<1> QED BY <1>1, <1>2, <1>4

\* A node is popped: nothing is asked for, nor handed in.
LEMMA AccountedVisit ==
  ASSUME Inv, Visit
  PROVE  Accounted'
<1> DEFINE D == Dependents(txs, Head(toVisit))
<1>1. /\ TypeOK /\ HeightInv /\ WalkInv /\ BatchInv
      /\ UNCHANGED <<i, height, txs, unread>>
      /\ pc = "visit" /\ toVisit # << >>
      /\ node' = Head(toVisit) /\ sub' = 0
      /\ pc' = IF D = << >> THEN "visit" ELSE "spawn"
  BY DEF Inv, Visit
<1>2. \A row \in 1..height : Asked(row)' = Asked(row)
  BY <1>1, VisitStep, HeightRows
<1>3. /\ AtRoot => toVisit' = << >>
      /\ ~AtRoot => ~AtRoot' /\ (Doomed => Doomed')
      /\ ~AtRoot /\ pc' = "spawn" => Doomed' /\ node' # Root
  BY WalkVisit
<1>4. Walking /\ ~InRoot /\ ~InNode
  BY <1>1 DEF Walking, InRoot, InNode
<1>5. CASE AtRoot
  <2>1. toVisit = <<Root>> /\ toVisit' = << >> /\ node' = Root
    BY <1>1, <1>3, <1>5 DEF AtRoot
  <2>2. ~AtRoot'
    BY <2>1 DEF AtRoot
  <2>3. \A row : HandedIn(row) = 0
    BY <1>5 DEF HandedIn
  <2>4. \A row \in 1..height : HandedIn(row)' = 0
    <3>1. txs \in Seq(BatchTx) /\ Len(txs) \in Nat /\ DOMAIN txs = 1..Len(txs)
      BY <1>1, LenProperties DEF TypeOK, BatchTx
    <3>2. CASE D = << >>
      <4>1. Dependents(txs, Root) = [k \in 1..Len(txs) |-> txs[k].row]
        BY <3>1, RootDependents
      <4>2. Dependents(txs, Root) = << >>
        BY <2>1, <3>2
      <4>3. DOMAIN txs = {}
        BY <3>1, <4>1, <4>2
      <4>4. \A row : ~Fetched(row)'
        BY <1>1, <4>3 DEF Fetched
      <4>5. ~InRoot'
        BY <1>1, <3>2 DEF InRoot, InNode
      <4> QED BY <2>2, <4>4, <4>5 DEF HandedIn
    <3>3. CASE D # << >>
      <4>1. InRoot' /\ pc' = "spawn" /\ Walking'
        BY <1>1, <2>1, <3>3 DEF InRoot, InNode, Walking
      <4>2. Handed' = 0
        BY <1>1, <4>1, ExecuterAssumption DEF Handed
      <4>3. \A k \in DOMAIN txs' : ~(k <= Handed')
        BY <1>1, <3>1, <4>2
      <4> QED BY <2>2, <4>1, <4>3 DEF HandedIn
    <3> QED BY <3>2, <3>3
  <2>5. ~Endless /\ pc # "crashed"
    BY <1>1, <1>5 DEF Endless
  <2> QED BY <1>1, <1>2, <2>3, <2>4, <2>5, NothingAsked
<1>6. CASE ~AtRoot /\ pc' = "spawn"
  <2>1. Endless'
    <3>1. ~InRoot' /\ Walking'
      BY <1>3, <1>6 DEF InRoot, Walking
    <3> QED BY <1>3, <1>6, <3>1 DEF Endless
  <2> QED BY <1>1, <1>2, <2>1, NothingAsked
<1>7. CASE ~AtRoot /\ pc' = "visit"
  <2>1. Walking' /\ ~InRoot' /\ ~AtRoot'
    BY <1>3, <1>7 DEF Walking, InRoot, InNode
  <2>2. \A row : HandedIn(row)' = HandedIn(row)
    BY <1>1, <1>4, <1>7, <2>1 DEF HandedIn, Fetched
  <2>3. Endless => Endless'
    BY <1>3, <1>7, <2>1 DEF Endless
  <2> QED BY <1>1, <1>2, <2>2, <2>3, NothingAsked
<1> QED BY <1>1, <1>5, <1>6, <1>7

\* A sub-batch is over: the next one, or the end of the node.
LEMMA AccountedReturned ==
  ASSUME Inv, Returned
  PROVE  Accounted'
<1>1. /\ TypeOK /\ HeightInv /\ WalkInv /\ BatchInv
      /\ UNCHANGED <<i, height, txs, node, unread, live, executed>>
      /\ pc \in {"wait", "woken"} /\ NextSubBatch
  BY DEF Inv, Returned
<1>2. \A row \in 1..height : Asked(row)' = Asked(row)
  BY <1>1, InTermsOfCounters
<1>3. ~AtRoot' /\ (Doomed => Doomed')
  BY WalkReturned
<1>4. InNode /\ Walking /\ ~AtRoot /\ pc # "spawn" /\ pc # "crashed"
  BY <1>1 DEF Walking, AtRoot, InNode
<1>5. Walking'
  BY <1>1 DEF NextSubBatch, Walking
<1>6. CASE node # Root
  <2>1. ~InRoot /\ ~InRoot'
    BY <1>1, <1>6 DEF InRoot
  <2>2. Doomed
    BY <1>1, <1>4, <2>1 DEF WalkInv
  <2>3. Endless'
    BY <1>3, <1>5, <2>1, <2>2 DEF Endless
  <2> QED BY <1>1, <1>2, <2>3, NothingAsked
<1>7. CASE node = Root
  <2>1. InRoot /\ ~Endless
    BY <1>4, <1>7 DEF InRoot, Endless
  <2>2. \A row : HandedIn(row)' = HandedIn(row)
    <3>1. CASE pc' = "spawn" /\ sub' = sub + 1
      <4>1. InRoot' /\ Handed' = Handed
        BY <1>1, <1>4, <1>7, <3>1 DEF InRoot, InNode, Handed
      <4> QED BY <1>1, <1>3, <1>4, <1>5, <2>1, <4>1 DEF HandedIn
    <3>2. CASE pc' = "visit" /\ sub + 1 >= SubBatches(Dependents(txs, node))
      <4> DEFINE D == Dependents(txs, Root)
      <4>1. /\ txs \in Seq(BatchTx) /\ Len(txs) \in Nat
            /\ DOMAIN txs = 1..Len(txs) /\ sub \in Nat
        BY <1>1, LenProperties DEF TypeOK, BatchTx
      <4>2. D = [k \in 1..Len(txs) |-> txs[k].row] /\ D \in Seq(Row)
        BY <1>1, <1>4, <4>1, RootDependents, DependentsNow
      <4>3. Len(D) = Len(txs)
        BY <4>1, <4>2, LenProperties
      <4>4. sub + 1 >= (Len(txs) \div ExecBatchSize) + 1
        BY <1>7, <3>2, <4>3 DEF SubBatches
      <4>5. Len(txs) <= ExecBatchSize * (sub + 1)
        BY <4>1, <4>4, LastSubBatch
      <4>6. Handed = ExecBatchSize * (sub + 1) /\ Handed \in Nat
        BY <1>4, <4>1, ExecuterAssumption DEF Handed
      <4>7. \A k \in DOMAIN txs : k <= Handed
        BY <4>1, <4>5, <4>6
      <4>8. \A row : HandedIn(row) = IF Fetched(row) THEN 1 ELSE 0
        BY <1>4, <2>1, <4>7 DEF HandedIn, Fetched
      <4>9. ~InRoot'
        BY <3>2 DEF InRoot, InNode
      <4>10. \A row : HandedIn(row)' = IF Fetched(row) THEN 1 ELSE 0
        BY <1>1, <1>3, <1>5, <4>9 DEF HandedIn, Fetched
      <4> QED BY <4>8, <4>10
    <3> QED BY <1>1, <3>1, <3>2 DEF NextSubBatch
  <2> QED BY <1>1, <1>2, <1>4, <2>1, <2>2, NothingAsked
<1> QED BY <1>6, <1>7

\* A sub-batch of the root hands in the rows in its range, once each.
LEMMA AccountedStart ==
  ASSUME Inv, StartSubBatch
  PROVE  Accounted'
<1>1. /\ TypeOK /\ HeightInv /\ WalkInv /\ BatchInv /\ Accounted
      /\ UNCHANGED <<i, height, txs, toVisit, node, sub, unread>>
      /\ pc = "spawn" /\ pc' = "wait" /\ sub \in Nat
  BY DEF Inv, StartSubBatch, graphVars, TypeOK
<1>2. InNode /\ Walking /\ ~AtRoot /\ InNode' /\ Walking' /\ ~AtRoot'
  BY <1>1 DEF Walking, AtRoot, InNode
<1>3. CASE node # Root
  <2>1. ~InRoot /\ ~InRoot'
    BY <1>1, <1>3 DEF InRoot
  <2>2. Doomed
    BY <1>1, <1>2, <2>1 DEF WalkInv
  <2>3. Endless'
    BY <1>1, <1>2, <2>1, <2>2 DEF Endless, Doomed
  <2> QED BY <2>3 DEF Accounted
<1>4. CASE node = Root
  <2>1. InRoot /\ InRoot' /\ ~Endless
    BY <1>1, <1>2, <1>4 DEF InRoot, Endless
  <2>2. /\ txs \in Seq(BatchTx) /\ Distinct(txs) /\ Len(txs) \in Nat
        /\ DOMAIN txs = 1..Len(txs)
    BY <1>1, <1>2, LenProperties DEF TypeOK, BatchTx, BatchInv
  <2>3. /\ Handed = ExecBatchSize * sub /\ Handed \in Nat
        /\ Handed' = ExecBatchSize * (sub + 1) /\ Handed' \in Nat
        /\ Handed <= Handed'
    BY <1>1, ExecuterAssumption DEF Handed
  <2>4. ASSUME NEW row \in 1..height
        PROVE  HandedIn(row)' = HandedIn(row)
                 + InSubBatch(row, Dependents(txs, node), sub)
    <3>1. InSubBatch(row, Dependents(txs, node), sub) =
            IF \E m \in 1..Len(txs) : /\ Handed < m
                                      /\ m <= Handed'
                                      /\ txs[m].row = row
            THEN 1 ELSE 0
      BY <1>1, <1>4, <2>2, <2>3, SubBatchOnce
    <3>2. HandedIn(row) = IF \E k \in DOMAIN txs : k <= Handed /\ txs[k].row = row
                          THEN 1 ELSE 0
      BY <1>2, <2>1 DEF HandedIn
    <3>3. HandedIn(row)' = IF \E k \in DOMAIN txs : k <= Handed' /\ txs[k].row = row
                           THEN 1 ELSE 0
      BY <1>1, <1>2, <2>1 DEF HandedIn
    <3>4. CASE Fetched(row)
      <4>1. PICK k \in DOMAIN txs : txs[k].row = row
        BY <3>4 DEF Fetched
      <4>2. \A m \in DOMAIN txs : txs[m].row = row <=> m = k
        BY <2>2, <4>1 DEF Distinct
      <4>3. k \in Nat
        BY <2>2
      <4>4. /\ HandedIn(row) = IF k <= Handed THEN 1 ELSE 0
            /\ HandedIn(row)' = IF k <= Handed' THEN 1 ELSE 0
            /\ InSubBatch(row, Dependents(txs, node), sub) =
                 IF Handed < k /\ k <= Handed' THEN 1 ELSE 0
        BY <2>2, <3>1, <3>2, <3>3, <4>2
      <4> QED BY <2>3, <4>3, <4>4
    <3>5. CASE ~Fetched(row)
      <4>1. /\ HandedIn(row) = 0 /\ HandedIn(row)' = 0
            /\ InSubBatch(row, Dependents(txs, node), sub) = 0
        BY <2>2, <3>1, <3>2, <3>3, <3>5 DEF Fetched
      <4> QED BY <4>1
    <3> QED BY <3>4, <3>5
  <2>5. \A row \in 1..height :
          Asked(row)' = Asked(row) + InSubBatch(row, Dependents(txs, node), sub)
    BY <1>1, StartStep, HeightRows
  <2>6. SUFFICES ASSUME ~unread, NEW row \in 1..height
                 PROVE  Asked(row)' = Cardinality(BatchesTo(i, row)) + HandedIn(row)'
    BY <1>1 DEF Accounted, BatchesTo
  <2>7. Asked(row) = Cardinality(BatchesTo(i, row)) + HandedIn(row)
    BY <1>1, <2>1, <2>6 DEF Accounted
  <2>8. Cardinality(BatchesTo(i, row)) \in Nat
    <3>1. PICK n \in Nat : i = n * BatchSize
      BY DEF Inv, Stepped
    <3> QED BY <1>1, <3>1, HeightRows, OneMoreBatch
  <2>9. HandedIn(row) \in Nat /\ InSubBatch(row, Dependents(txs, node), sub) \in Nat
    <3>1. Dependents(txs, node) \in Seq(Row)
      BY <1>1, <1>2, <1>4, DependentsNow
    <3> QED BY <1>1, <3>1, SubBatchFacts DEF HandedIn
  <2> QED BY <2>4, <2>5, <2>7, <2>8, <2>9
<1> QED BY <1>3, <1>4

(* A batch has been walked: its rows have been asked for once more.        *)
LEMMA AccountedNextBatch ==
  ASSUME Inv, NextBatch
  PROVE  Accounted'
<1>1. /\ TypeOK /\ HeightInv /\ BatchInv /\ Accounted
      /\ UNCHANGED <<height, txs, toVisit, node, unread, live, executed>>
      /\ pc = "visit" /\ toVisit = << >> /\ pc' = "fetch"
      /\ i' = i + BatchSize
  BY DEF Inv, NextBatch
<1>2. Walking /\ ~InNode /\ ~AtRoot /\ ~InRoot /\ ~Walking'
  BY <1>1 DEF Walking, InNode, AtRoot, InRoot
<1>3. ~Endless /\ pc # "crashed"
  BY <1>1, <1>2 DEF Endless, Doomed
<1>4. \A row : HandedIn(row)' = 0
  BY <1>2 DEF HandedIn
<1>5. \A row : HandedIn(row) = IF Fetched(row) THEN 1 ELSE 0
  BY <1>2 DEF HandedIn
<1>6. SUFFICES ASSUME ~unread, NEW row \in 1..height
               PROVE  Asked(row)' = Cardinality(BatchesTo(i + BatchSize, row))
  <2>1. SUFFICES ASSUME ~unread, NEW row \in 1..height
                 PROVE  Asked(row)' = Cardinality(BatchesTo(i + BatchSize, row))
                                        + HandedIn(row)'
    BY <1>1 DEF Accounted
  <2>2. Asked(row)' = Cardinality(BatchesTo(i + BatchSize, row))
    BY <2>1, <1>6
  <2>3. Asked(row)' \in Nat
    <3>1. row \in Row /\ executed' \in [Row -> Nat] /\ live' \in [Goroutine -> Nat]
      BY <1>1, HeightRows DEF TypeOK
    <3> QED BY <3>1, AskedType, InTermsOfCounters
  <2> QED BY <1>4, <2>2, <2>3
<1>7. Asked(row) = Cardinality(BatchesTo(i, row)) + (IF Fetched(row) THEN 1 ELSE 0)
  BY <1>1, <1>3, <1>5, <1>6 DEF Accounted
<1>8. Fetched(row) <=> i <= row /\ row <= i + BatchSize
  BY <1>1, <1>2, <1>6 DEF BatchInv, Fetched
<1>9. Cardinality(BatchesTo(i + BatchSize, row))
        = Cardinality(BatchesTo(i, row))
            + (IF i <= row /\ row <= i + BatchSize THEN 1 ELSE 0)
  <2>1. PICK n \in Nat : i = n * BatchSize
    BY DEF Inv, Stepped
  <2>2. row \in Nat
    BY <1>1, HeightRows
  <2> QED BY <2>1, <2>2, OneMoreBatch
<1>10. Asked(row)' = Asked(row)
  BY <1>1, InTermsOfCounters
<1> QED BY <1>7, <1>8, <1>9, <1>10

\* Every step keeps Accounted.
LEMMA AccountedKept ==
  ASSUME Inv, [Next]_vars
  PROVE  Accounted'
<1>1. TypeOK /\ HeightInv /\ WalkInv /\ BatchInv
  BY DEF Inv
<1>2. CASE StaysPut /\ ~StartSubBatch
  <2>1. SamePlace
    BY <1>2, StayingPut
  <2>2. /\ UNCHANGED <<i, height, txs, toVisit, node, unread>>
        /\ InNode' <=> InNode
        /\ pc' = "visit" <=> pc = "visit"
        /\ Walking' <=> Walking
    BY <2>1, WalkingIs DEF SamePlace
  <2>3. /\ \A row \in Row : Asked(row)' = Asked(row)
        /\ sub' = sub
        /\ pc' = "spawn" <=> pc = "spawn"
        /\ pc' = "crashed" <=> pc = "crashed"
    <3>1. CASE \E tx \in Tx : AppendRow(tx)
      BY <3>1, InTermsOfCounters DEF AppendRow, graphVars
    <3>2. CASE Wait /\ ~NextSubBatch
      BY <3>2, InTermsOfCounters DEF Wait
    <3>3. ASSUME NEW g \in Goroutine, Begin(g)
          PROVE  /\ \A row \in Row : Asked(row)' = Asked(row)
                 /\ sub' = sub /\ pc' = pc
      BY <1>1, <3>3, BeginStep DEF Begin, graphVars
    <3>4. ASSUME NEW g \in Goroutine, Finish(g)
          PROVE  /\ \A row \in Row : Asked(row)' = Asked(row)
                 /\ sub' = sub
                 /\ pc' = pc \/ (pc = "parked" /\ pc' = "woken")
      BY <1>1, <3>4, EndStep DEF Finish, graphVars
    <3>5. CASE UNCHANGED vars
      BY <3>5, InTermsOfCounters DEF vars
    <3> QED BY <1>2, <3>1, <3>2, <3>3, <3>4, <3>5 DEF StaysPut
  <2>4. \A row \in 1..height : Asked(row)' = Asked(row)
    BY <1>1, <2>3, HeightRows
  <2>5. Endless' <=> Endless
    BY <2>2 DEF Endless, Doomed, AtRoot, InRoot
  <2>6. \A row : HandedIn(row)' = HandedIn(row)
    BY <2>2, <2>3 DEF HandedIn, Fetched, AtRoot, InRoot, Handed
  <2> QED BY <2>2, <2>3, <2>4, <2>5, <2>6, NothingAsked
<1>3. CASE GetInfo
  <2>1. /\ pc = "info" /\ pc' = "fetch" /\ i' = 0 /\ ~Walking'
        /\ height' = Len(order) \/ height' = 0
        /\ live' = live /\ executed' = executed
    BY <1>1, <1>3 DEF GetInfo, HeightInv, Walking
  <2>2. \A row : HandedIn(row)' = 0
    BY <2>1 DEF HandedIn
  <2>3. \A row \in Row : Asked(row)' = 0
    BY <1>1, <2>1, InTermsOfCounters DEF HeightInv
  <2>4. \A row \in 1..height' : row \in Row
    BY <1>1, <2>1, LenProperties, ExecuterAssumption DEF TypeOK, Row
  <2>5. \A row : Cardinality(BatchesTo(0, row)) = 0
    <3>1. \A row : BatchesTo(0, row) = {}
      BY ExecuterAssumption DEF BatchesTo
    <3> QED BY <3>1, FS_EmptySet
  <2>6. \A row \in 1..height' :
          Asked(row)' = Cardinality(BatchesTo(i', row)) + HandedIn(row)'
    BY <2>1, <2>2, <2>3, <2>4, <2>5
  <2> QED BY <2>6 DEF Accounted, BatchesTo
<1>4. CASE GetBatch
  <2>1. /\ pc = "fetch" /\ i' = i /\ height' = height /\ AtRoot'
        /\ unread' = unread \/ unread' = TRUE
        /\ live' = live /\ executed' = executed
    BY <1>4 DEF GetBatch, AtRoot
  <2>2. \A row : HandedIn(row)' = 0 /\ HandedIn(row) = 0
    BY <2>1 DEF HandedIn, Walking
  <2>3. ~Endless
    BY <2>1 DEF Endless, Walking
  <2>4. \A row : Asked(row)' = Asked(row)
    BY <2>1, InTermsOfCounters
  <2> QED BY <2>1, <2>2, <2>3, <2>4, NothingAsked
<1>5. CASE Exit
  <2>1. /\ pc = "fetch" /\ pc' = "exited"
        /\ UNCHANGED <<i, height, unread, live, executed>>
    BY <1>5 DEF Exit, graphVars
  <2>2. \A row : HandedIn(row)' = 0 /\ HandedIn(row) = 0
    BY <2>1 DEF HandedIn, Walking
  <2>3. ~Endless
    BY <2>1 DEF Endless, Walking
  <2>4. \A row : Asked(row)' = Asked(row)
    BY <2>1, InTermsOfCounters
  <2> QED BY <2>1, <2>2, <2>3, <2>4, NothingAsked
<1>6. CASE Crash
  BY <1>6 DEF Crash, Accounted
<1> QED BY <1>2, <1>3, <1>4, <1>5, <1>6, AccountedStart, AccountedVisit,
           AccountedReturned, AccountedNextBatch, Steps DEF Leaves

-----------------------------------------------------------------------------
(* The invariant.                                                          *)

\* The invariant holds at first.
LEMMA InvInit ==
  ASSUME Init
  PROVE  Inv
<1>1. MaxOrder \in Nat /\ MaxAsked \in Nat
  BY ExecuterAssumption
<1>2. /\ live \in [Goroutine -> Nat] /\ executed \in [Row -> Nat]
      /\ pc = "info" /\ order = << >> /\ height = 0 /\ i = 0 /\ unread = FALSE
      /\ wg = 0
  BY DEF Init
<1>3. TypeOK
  <2>1. order \in Seq(Tx) /\ Len(order) <= MaxOrder
    BY <1>1, <1>2, EmptySeq
  <2>2. /\ txs \in Seq([row : Row, tx : Tx])
        /\ toVisit \in Seq(Row \cup {Root}) /\ node \in Row \cup {Root}
    BY EmptySeq DEF Init
  <2>3. pc \in Phase /\ height \in Nat /\ i \in Nat /\ wg \in Nat
    BY <1>2 DEF Phase
  <2>4. sub \in Nat /\ unread \in BOOLEAN
    BY DEF Init
  <2> QED BY <1>2, <2>1, <2>2, <2>3, <2>4 DEF TypeOK
<1>4. \A row \in Row : Asked(row) = 0 /\ MineInside(live, row) = 0
  <2> TAKE row \in Row
  <2>1. /\ EarlierToBegin(live, row) = 0 /\ MineToBegin(live, row) = 0
        /\ EarlierInside(live, row) = 0 /\ MineInside(live, row) = 0
        /\ executed[row] = 0
    BY GoFacts DEF Init, EarlierToBegin, MineToBegin, EarlierInside, MineInside
  <2> QED BY <2>1, InTermsOfCounters DEF AskedOf
<1>5. ~Walking
  BY <1>2 DEF Walking
<1>6. Stepped /\ HeightInv /\ Bounded
  BY <1>1, <1>2, <1>4, ExecuterAssumption DEF Stepped, HeightInv, Bounded
<1>7. WaitGroupCounts
  BY <1>2, <1>4, CountedNone, InTermsOfCounters DEF WaitGroupCounts
<1>8. BatchInv /\ WalkInv
  BY <1>5 DEF BatchInv, WalkInv
<1>9. Accounted
  <2>1. 1..height = {}
    BY <1>2
  <2> QED BY <2>1 DEF Accounted
<1> QED BY <1>3, <1>6, <1>7, <1>8, <1>9 DEF Inv

\* Every step keeps the invariant.
LEMMA InvStep ==
  ASSUME Inv, [Next]_vars
  PROVE  Inv'
BY ShapeKept, CountersKept, BatchKept, WalkKept, AccountedKept DEF Inv

(* The inductive invariant: types, how far main() has come, the batch it   *)
(* holds, where it is in the walk, what the WaitGroup counts, and how      *)
(* often execute() has been asked for each row.                            *)
THEOREM InvAlways == Spec => []Inv
BY InvInit, InvStep, PTL DEF Spec

(* The variables keep their types: in particular the counter of a          *)
(* WaitGroup never goes below zero, and each node that main() visits is    *)
(* the root or a row.                                                      *)
THEOREM ExecuterTypes == Spec => []TypeOK
<1>1. Inv => TypeOK
  BY DEF Inv
<1> QED BY <1>1, InvAlways, PTL

(* The WaitGroup of the node visited counts the goroutines that have       *)
(* called wg.Add and not yet wg.Done, and main() waits in it only for one  *)
(* of them.                                                                *)
THEOREM WaitGroupCountsAlways == Spec => []WaitGroupCounts
<1>1. Inv => WaitGroupCounts
  BY DEF Inv
<1> QED BY <1>1, InvAlways, PTL

(* Between two batches each row has been handed to execute() once for each *)
(* batch that fetched it.                                                  *)
THEOREM OncePerBatchAlways == Spec => []OncePerBatch
<1>1. Inv => OncePerBatch
  <2> SUFFICES ASSUME Inv, pc \in {"fetch", "exited"}, ~unread,
                      NEW row \in 1..height
               PROVE  Asked(row) = Cardinality(BatchesOf(row))
    BY DEF OncePerBatch
  <2>1. ~Walking /\ ~Endless /\ pc # "crashed"
    BY DEF Walking, Endless
  <2>2. Asked(row) = Cardinality(BatchesTo(i, row)) + HandedIn(row)
    BY <2>1 DEF Inv, Accounted
  <2>3. HandedIn(row) = 0
    BY <2>1 DEF HandedIn
  <2>4. Cardinality(BatchesTo(i, row)) \in Nat
    <3>1. PICK n \in Nat : i = n * BatchSize
      BY DEF Inv, Stepped
    <3>2. row \in Nat
      BY HeightRows DEF Inv
    <3> QED BY <3>1, <3>2, OneMoreBatch
  <2> QED BY <2>2, <2>3, <2>4 DEF BatchesTo, BatchesOf
<1> QED BY <1>1, InvAlways, PTL
=============================================================================
