------------------------- MODULE JobPreparationProofs -------------------------
(***************************************************************************)
(* Why each item of a DAG is written once, and why a header and a seed     *)
(* keep their meaning when they are parsed and written again: for any      *)
(* radix and width of a hash, any sizes of the DAG, of a batch and of a    *)
(* block, any epoch of the fork and any launches refused.                  *)
(*                                                                         *)
(* The items below the loop variable are those that have been written, and *)
(* the size that the loop runs to is the one of the epoch.  A hash is the  *)
(* number of its text: zeros in front do not count, two digits are one of  *)
(* the squared radix, and digits are determined by their number.  These    *)
(* facts about recursive functions rest on Counting, whose T is a set.     *)
(***************************************************************************)
EXTENDS JobPreparation, SequenceTheorems, WellFoundedInduction, TLAPS

EpochNumber == 0 .. MaxEpochScan - 1

-----------------------------------------------------------------------------
(* Arithmetic.                                                             *)

LEMMA ProductIsNatural == \A a, b \in Nat : a * b \in Nat
  OBVIOUS

LEMMA ProductGrows ==
  ASSUME NEW g \in Nat, NEW a \in Nat, NEW b \in Nat, a <= b
  PROVE  g * a <= g * b
  <1>1. PICK d \in Nat : b = a + d
    <2>. WITNESS b - a \in Nat
    <2>. QED
      OBVIOUS
  <1>2. g * b = g * a + g * d
    BY <1>1
  <1>3. g * d \in Nat /\ g * a \in Nat
    BY ProductIsNatural
  <1>. QED
    BY <1>2, <1>3

\* Division rounded up leaves no remainder out.
LEMMA RoundedUpSuffices ==
  ASSUME NEW n \in Nat, NEW b \in Nat \ {0}
  PROVE  /\ (n + b - 1) \div b \in Nat
         /\ ((n + b - 1) \div b) * b \in Nat
         /\ n <= ((n + b - 1) \div b) * b
  <1>. DEFINE q == (n + b - 1) \div b
              r == (n + b - 1) % b
  <1>1. q \in Nat /\ r \in 0 .. b - 1
    OBVIOUS
  <1>2. n + b - 1 = b * q + r
    OBVIOUS
  <1>3. b * q = q * b
    BY <1>1
  <1>. HIDE DEF q, r
  <1>4. q * b \in Nat
    BY <1>1, ProductIsNatural
  <1>5. n <= q * b
    BY <1>1, <1>2, <1>3, <1>4
  <1>. QED
    BY <1>1, <1>4, <1>5 DEF q

-----------------------------------------------------------------------------
(* Numbers and recursion over them.                                        *)

\* Of a set of numbers there is a least one.
LEMMA LeastExists ==
  ASSUME NEW T, T \subseteq Nat, T # {}
  PROVE  \E e \in T : \A f \in T : e <= f
  <1>. DEFINE less == {p \in Nat \X Nat : p[1] < p[2]}
  <1>1. IsWellFoundedOn(less, Nat)
    BY NatLessThanWellFounded DEF OpToRel
  <1>2. PICK e \in T : \A f \in T : ~(<<f, e>> \in less)
    BY <1>1, WFMin
  <1>3. \A f \in T : ~(f < e)
    BY <1>2
  <1>. QED
    BY <1>3

\* What holds of 0, and of n if it holds of n - 1, holds of all.  As the set is not
\* an operator, this can be instantiated.
LEMMA Counting ==
  ASSUME NEW length \in Nat, NEW T, 0 \in T,
         \A n \in 1 .. length : n - 1 \in T => n \in T
  PROVE  \A n \in 0 .. length : n \in T
  <1>. DEFINE rest == {n \in 0 .. length : n \notin T}
  <1>. SUFFICES ASSUME rest # {} PROVE FALSE
    OBVIOUS
  <1>1. PICK e \in rest : \A f \in rest : e <= f
    <2>. rest \subseteq Nat
      OBVIOUS
    <2>. HIDE DEF rest
    <2>. QED
      BY LeastExists
  <1>2. e \in 1 .. length
    BY <1>1
  <1>3. e - 1 \notin rest
    BY <1>1, <1>2
  <1>4. e - 1 \in T
    BY <1>2, <1>3
  <1>. QED
    BY <1>1, <1>2, <1>4

\* A function may be defined by what follows from a value and an index.
Iterable(S, length) ==
    \A base \in S, F \in [S \X (1 .. length) -> S] :
      \E g \in [0 .. length -> S] :
        g[0] = base /\ \A n \in 1 .. length : g[n] = F[<<g[n - 1], n>>]

LEMMA Iterates == \A S : \A length \in Nat : Iterable(S, length)
  <1>. SUFFICES ASSUME NEW S, NEW length \in Nat, NEW base \in S,
                       NEW F \in [S \X (1 .. length) -> S]
                PROVE  \E g \in [0 .. length -> S] :
                         g[0] = base /\ \A n \in 1 .. length : g[n] = F[<<g[n - 1], n>>]
    BY DEF Iterable
  <1>. DEFINE upto(k, g) == g[0] = base /\ \A n \in 1 .. k : g[n] = F[<<g[n - 1], n>>]
              T == {k \in 0 .. length : \E g \in [0 .. k -> S] : upto(k, g)}
  <1>1. 0 \in T
    <2>. DEFINE g == [i \in 0 .. 0 |-> base]
    <2>1. g \in [0 .. 0 -> S]
      OBVIOUS
    <2>2. g[0] = base
      OBVIOUS
    <2>3. \A n \in 1 .. 0 : FALSE
      OBVIOUS
    <2>. HIDE DEF g
    <2>. QED
      BY <2>1, <2>2, <2>3
  <1>2. ASSUME NEW k \in 1 .. length, k - 1 \in T PROVE k \in T
    <2>1. PICK g \in [0 .. k - 1 -> S] : upto(k - 1, g)
      BY <1>2
    <2>. DEFINE next == F[<<g[k - 1], k>>]
                h == [i \in 0 .. k |-> IF i = k THEN next ELSE g[i]]
    <2>2. next \in S
      BY k - 1 \in 0 .. k - 1
    <2>3. h \in [0 .. k -> S]
      <3>1. \A i \in 0 .. k : i = k \/ i \in 0 .. k - 1
        OBVIOUS
      <3>. QED
        BY <2>2, <3>1
    <2>4. h[k] = next /\ \A i \in 0 .. k - 1 : h[i] = g[i]
      OBVIOUS
    <2>. HIDE DEF h
    <2>5. h[0] = base
      BY <2>1, <2>4, 0 \in 0 .. k - 1
    <2>6. ASSUME NEW n \in 1 .. k PROVE h[n] = F[<<h[n - 1], n>>]
      <3>1. n - 1 \in 0 .. k - 1 /\ h[n - 1] = g[n - 1]
        BY <2>4
      <3>2. CASE n = k
        BY <2>4, <3>1, <3>2
      <3>3. CASE n # k
        BY <2>1, <2>4, <3>1, <3>3, n \in 1 .. k - 1, n \in 0 .. k - 1
      <3>. QED
        BY <3>2, <3>3
    <2>. QED
      BY <2>3, <2>5, <2>6
  <1>. HIDE DEF T
  <1>3. length \in T
    BY <1>1, <1>2, Counting, length \in 0 .. length
  <1>. QED
    BY <1>3 DEF T
-----------------------------------------------------------------------------
(* Sizes.                                                                  *)

\* The size that getDatasetSize computes is the one ECIP-1099 means, and the loop
\* over its batches does not overflow.
LEMMA DatasetItemsRight ==
  ASSUME NEW e \in EpochNumber
  PROVE  /\ DatasetItems(e) = ItemsByBlock(e)
         /\ DatasetItems(e) \in Nat \ {0}
         /\ DatasetItems(e) + BatchSize <= WordMod
         /\ DatasetItems(e) <= BaseItems + Growth * MaxEpochScan
  <1>1. /\ BaseItems \in Nat \ {0} /\ BatchSize \in Nat \ {0} /\ MaxEpochScan \in Nat \ {0}
        /\ Growth \in Nat /\ ForkEpoch \in Nat /\ ForkEpoch % 2 = 0
        /\ BaseItems + Growth * MaxEpochScan + BatchSize <= WordMod
    BY PreparationAssumption
  <1>2. e \in Nat /\ e < MaxEpochScan
    BY <1>1 DEF EpochNumber
  <1>3. SizeEpoch(e) = IF e < ForkEpoch THEN e ELSE e \div 2
    BY <1>1, <1>2 DEF SizeEpoch
  <1>4. SizeEpoch(e) \in Nat /\ SizeEpoch(e) <= MaxEpochScan
    BY <1>1, <1>2, <1>3
  <1>5. /\ Growth * SizeEpoch(e) \in Nat /\ Growth * MaxEpochScan \in Nat
        /\ Growth * SizeEpoch(e) <= Growth * MaxEpochScan
    BY <1>1, <1>4, ProductIsNatural, ProductGrows
  <1>6. WordMod \in Int
    BY PreparationAssumption
  <1>7. DatasetItems(e) = BaseItems + Growth * SizeEpoch(e)
    BY <1>1, <1>5, <1>6 DEF DatasetItems
  <1>. QED
    BY <1>1, <1>3, <1>5, <1>6, <1>7 DEF ItemsByBlock

LEMMA ItemsAreItems ==
  ASSUME NEW e \in EpochNumber
  PROVE  \A i \in 0 .. DatasetItems(e) - 1 : i \in Item
  <1>1. /\ BatchSize \in Nat /\ BlockSize \in Nat /\ BaseItems \in Nat
        /\ Growth \in Nat /\ MaxEpochScan \in Nat
    BY PreparationAssumption
  <1>2. BatchSize * BlockSize \in Nat /\ Growth * MaxEpochScan \in Nat
    BY <1>1, ProductIsNatural
  <1>. QED
    BY <1>1, <1>2, DatasetItemsRight DEF Item

\* The threads of a launch write the items of their batch, no more and no less.
LEMMA BatchItemsRight ==
  ASSUME job.epoch \in EpochNumber, start \in Nat, start < NumItems
  PROVE  \A i \in Nat : i \in BatchItems <=>
                          start <= i /\ i < start + BatchSize /\ i < NumItems
  <1>1. /\ NumItems \in Nat /\ BatchSize \in Nat \ {0} /\ BlockSize \in Nat \ {0}
    BY DatasetItemsRight, PreparationAssumption DEF NumItems
  <1>2. Count \in Nat /\ Count <= BatchSize /\ Count <= NumItems - start
        /\ (Count = BatchSize \/ Count = NumItems - start)
    BY <1>1 DEF Count
  <1>3. Blocks * BlockSize \in Nat /\ Count <= Blocks * BlockSize
    BY <1>1, <1>2, RoundedUpSuffices DEF Blocks
  <1>4. BatchItems = {start + i : i \in 0 .. Count - 1}
    BY <1>2, <1>3 DEF BatchItems
  <1>5. \A i \in Nat : start <= i /\ i < start + BatchSize /\ i < NumItems
                         <=> i - start \in 0 .. Count - 1
    BY <1>1, <1>2
  <1>6. \A i \in Nat : i - start \in 0 .. Count - 1 <=> i \in BatchItems
    <2>. TAKE i \in Nat
    <2>1. i = start + (i - start)
      OBVIOUS
    <2>2. \A k \in 0 .. Count - 1 : i = start + k => i - start = k
      BY <1>2
    <2>. QED
      BY <1>4, <2>1, <2>2
  <1>. QED
    BY <1>5, <1>6

-----------------------------------------------------------------------------
(* The inductive invariant of the generation of a DAG.                     *)

\* A DAG is generated for the job's epoch, and no other is known as the current one
\* when the loop is over.
EpochsAgree ==
    /\ job.epoch \in EpochNumber \cup {NoEpoch}
    /\ generating \in BOOLEAN /\ refused \in BOOLEAN
    /\ generating => job.epoch # NoEpoch
    /\ ~generating => dagEpoch = job.epoch
    /\ ~generating /\ job.epoch # NoEpoch => start >= NumItems

\* The loop has written what is below its variable.
WrittenBelowStart ==
    /\ start \in Nat
    /\ written \in [Item -> Nat]
    /\ job.epoch = NoEpoch => \A i \in Item : written[i] = 0
    /\ job.epoch # NoEpoch =>
         \A i \in Item :
           /\ written[i] <= IF i < start /\ i < NumItems THEN 1 ELSE 0
           /\ ~refused /\ i < start /\ i < NumItems => written[i] = 1

PreparationInv == EpochsAgree /\ WrittenBelowStart

LEMMA NoEpochIsNone == NoEpoch \notin EpochNumber /\ Item \subseteq Nat
  BY PreparationAssumption DEF NoEpoch, EpochNumber, Item

LEMMA InitInv == Init => PreparationInv
  <1>. SUFFICES ASSUME Init PROVE PreparationInv
    OBVIOUS
  <1>1. job.epoch = NoEpoch /\ dagEpoch = NoEpoch /\ generating = FALSE /\ refused = FALSE
        /\ start = 0
    BY DEF Init
  <1>2. written \in [Item -> Nat] /\ \A i \in Item : written[i] = 0
    BY DEF Init
  <1>. QED
    BY <1>1, <1>2 DEF PreparationInv, EpochsAgree, WrittenBelowStart

\* epochFromSeedHash gives an epoch that is scanned.
LEMMA EpochOfType ==
  ASSUME NEW seed
  PROVE  EpochOf(seed) \in EpochNumber
  <1>1. MaxEpochScan \in Nat \ {0}
    BY PreparationAssumption
  <1>2. Scan(seed) \subseteq EpochNumber /\ EpochNumber \subseteq Nat /\ 0 \in EpochNumber
    BY <1>1 DEF Scan, EpochNumber
  <1>3. CASE Scan(seed) = {}
    BY <1>2, <1>3 DEF EpochOf
  <1>4. CASE Scan(seed) # {}
    <2>1. \E e \in Scan(seed) : \A f \in Scan(seed) : e <= f
      BY <1>2, <1>4, LeastExists
    <2>2. EpochOf(seed) \in Scan(seed)
      BY <1>4, <2>1 DEF EpochOf
    <2>. QED
      BY <1>2, <2>2
  <1>. QED
    BY <1>3, <1>4

\* A new job keeps the DAG of its epoch, or its DAG is begun.
LEMMA NotifyInv ==
  ASSUME PreparationInv, NEW n \in Notifications, Notify(n.header, n.seed)
  PROVE  PreparationInv'
  <1>1. job'.epoch \in EpochNumber /\ job'.epoch # NoEpoch /\ ~generating
        /\ dagEpoch = job.epoch
    BY EpochOfType, NoEpochIsNone DEF Notify, PreparationInv, EpochsAgree
  <1>2. CASE job'.epoch = dagEpoch
    <2>1. UNCHANGED dagVars /\ job'.epoch = job.epoch
      BY <1>1, <1>2 DEF Notify
    <2>. QED
      BY <1>1, <2>1 DEF PreparationInv, EpochsAgree, WrittenBelowStart, dagVars, NumItems
  <1>3. CASE job'.epoch # dagEpoch
    <2>1. generating' = TRUE /\ start' = 0 /\ refused' = FALSE
          /\ written' = [i \in Item |-> 0]
      BY <1>3 DEF Notify
    <2>2. EpochsAgree'
      BY <1>1, <2>1 DEF EpochsAgree
    <2>3. WrittenBelowStart'
      <3>1. written' \in [Item -> Nat] /\ \A i \in Item : written'[i] = 0
        BY <2>1
      <3>2. \A i \in Item : i \in Nat
        BY NoEpochIsNone
      <3>. QED
        BY <1>1, <2>1, <3>1, <3>2 DEF WrittenBelowStart
    <2>. QED
      BY <2>2, <2>3 DEF PreparationInv
  <1>. QED
    BY <1>2, <1>3

\* A round of the loop writes the next items, or is refused.
LEMMA GenerateBatchInv ==
  ASSUME PreparationInv, NEW launched \in BOOLEAN, GenerateBatch(launched)
  PROVE  PreparationInv'
  <1>1. /\ generating /\ job.epoch \in EpochNumber /\ job.epoch # NoEpoch
        /\ start \in Nat /\ start < NumItems /\ written \in [Item -> Nat]
    BY DEF PreparationInv, EpochsAgree, WrittenBelowStart, GenerateBatch
  <1>2. NumItems \in Nat /\ NumItems + BatchSize <= WordMod /\ BatchSize \in Nat \ {0}
    BY <1>1, DatasetItemsRight, PreparationAssumption DEF NumItems
  <1>3. start' = start + BatchSize
    <2>1. start' = (start + BatchSize) % WordMod
      BY DEF GenerateBatch
    <2>2. WordMod \in Nat
      BY PreparationAssumption
    <2>. QED
      BY <1>1, <1>2, <2>1, <2>2
  <1>4. /\ UNCHANGED <<job, dagEpoch, generating>>
        /\ refused' = (refused \/ ~launched)
        /\ NumItems' = NumItems
    BY DEF GenerateBatch, NumItems
  <1>5. EpochsAgree'
    BY <1>1, <1>4 DEF PreparationInv, EpochsAgree
  <1>6. \A i \in Item : i \in Nat /\ (i \in BatchItems <=>
                          start <= i /\ i < start + BatchSize /\ i < NumItems)
    BY <1>1, NoEpochIsNone, BatchItemsRight
  <1>7. WrittenBelowStart'
    <2>1. CASE launched
      <3>1. written' = [i \in Item |-> written[i] + (IF i \in BatchItems THEN 1 ELSE 0)]
        BY <2>1 DEF GenerateBatch
      <3>2. written' \in [Item -> Nat]
        BY <1>1, <3>1
      <3>3. ASSUME NEW i \in Item
            PROVE  /\ written'[i] <= IF i < start' /\ i < NumItems THEN 1 ELSE 0
                   /\ ~refused /\ i < start' /\ i < NumItems => written'[i] = 1
        <4>1. /\ i \in Nat /\ written[i] \in Nat
              /\ written[i] <= IF i < start /\ i < NumItems THEN 1 ELSE 0
              /\ ~refused /\ i < start /\ i < NumItems => written[i] = 1
          BY <1>1, <1>6 DEF PreparationInv, WrittenBelowStart
        <4>2. written'[i] = IF start <= i /\ i < start + BatchSize /\ i < NumItems
                            THEN written[i] + 1 ELSE written[i]
          BY <1>6, <3>1, <4>1
        <4>. QED
          BY <1>1, <1>2, <1>3, <4>1, <4>2
      <3>4. refused' => refused
        <4>1. launched = TRUE
          BY <2>1
        <4>. QED
          BY <1>4, <4>1
      <3>5. start' \in Nat /\ job' = job
        BY <1>1, <1>2, <1>3, <1>4
      <3>. QED
        BY <1>1, <1>4, <3>2, <3>3, <3>4, <3>5 DEF WrittenBelowStart
    <2>2. CASE ~launched
      <3>1. written' = written /\ refused' = TRUE
        BY <1>4, <2>2 DEF GenerateBatch
      <3>2. \A i \in Item : /\ i \in Nat /\ written[i] \in Nat
                            /\ written[i] <= IF i < start' /\ i < NumItems THEN 1 ELSE 0
        BY <1>1, <1>2, <1>3, <1>6 DEF PreparationInv, WrittenBelowStart
      <3>. QED
        BY <1>1, <1>2, <1>3, <1>4, <3>1, <3>2 DEF WrittenBelowStart
    <2>. QED
      BY <2>1, <2>2
  <1>. QED
    BY <1>5, <1>7 DEF PreparationInv

LEMMA NextInv == PreparationInv /\ [Next]_vars => PreparationInv'
  <1>. SUFFICES ASSUME PreparationInv, [Next]_vars PROVE PreparationInv'
    OBVIOUS
  <1>1. ASSUME NEW n \in Notifications, Notify(n.header, n.seed) PROVE PreparationInv'
    BY <1>1, NotifyInv
  <1>2. ASSUME NEW launched \in BOOLEAN, GenerateBatch(launched) PROVE PreparationInv'
    BY <1>2, GenerateBatchInv
  <1>3. CASE Generated
    BY <1>3 DEF Generated, PreparationInv, EpochsAgree, WrittenBelowStart, NumItems
  <1>4. CASE (\E d \in Difficulty : SetDifficulty(d)) \/ UNCHANGED vars
    BY <1>4 DEF SetDifficulty, vars, dagVars, PreparationInv, EpochsAgree,
                WrittenBelowStart, NumItems
  <1>. QED
    BY <1>1, <1>2, <1>3, <1>4 DEF Next, Generation

-----------------------------------------------------------------------------

\* Each item of a DAG is written once if no launch is refused, never twice, and
\* nothing beyond the size of the epoch's DAG is written (dag_kernel.cu
\* generate_dag_item_kernel, generateDagGpu; ethash.cpp getDatasetSize).
THEOREM EachItemOnceHolds == Spec => []EachItemOnce
  <1>1. PreparationInv => EachItemOnce
    <2>. SUFFICES ASSUME PreparationInv PROVE EachItemOnce
      OBVIOUS
    <2>1. CASE job.epoch = NoEpoch
      <3>1. \A i \in Item : written[i] = 0
        BY <2>1 DEF PreparationInv, WrittenBelowStart
      <3>. QED
        BY <2>1, <3>1 DEF EachItemOnce, PreparationInv, EpochsAgree
    <2>2. CASE job.epoch # NoEpoch
      <3>1. /\ job.epoch \in EpochNumber /\ NumItems = ItemsByBlock(job.epoch)
            /\ NumItems \in Nat /\ start \in Nat
            /\ \A i \in 0 .. NumItems - 1 : i \in Item
        BY <2>2, DatasetItemsRight, ItemsAreItems
        DEF PreparationInv, EpochsAgree, WrittenBelowStart, NumItems
      <3>2. \A i \in Item : written[i] <= IF i < NumItems THEN 1 ELSE 0
        <4>. TAKE i \in Item
        <4>1. i \in Nat /\ written[i] \in Nat
          BY NoEpochIsNone DEF PreparationInv, WrittenBelowStart
        <4>. QED
          BY <2>2, <3>1, <4>1 DEF PreparationInv, WrittenBelowStart
      <3>3. ASSUME ~generating, ~refused
            PROVE  \A i \in 0 .. NumItems - 1 : written[i] = 1
        <4>1. start >= NumItems
          BY <2>2, <3>3 DEF PreparationInv, EpochsAgree
        <4>. QED
          BY <2>2, <3>1, <3>3, <4>1 DEF PreparationInv, WrittenBelowStart
      <3>4. ~generating => dagEpoch = job.epoch
        BY DEF PreparationInv, EpochsAgree
      <3>. QED
        BY <2>2, <3>1, <3>2, <3>3, <3>4 DEF EachItemOnce
    <2>. QED
      BY <2>1, <2>2
  <1>. QED
    BY <1>1, InitInv, NextInv, PTL DEF Spec

-----------------------------------------------------------------------------
(* Numbers and their digits.                                               *)

\* The values of the beginnings of a sequence of digits.
Values(v, radix, d, length) ==
    /\ v \in [0 .. length -> Nat]
    /\ v[0] = 0
    /\ \A n \in 1 .. length : v[n] = radix * v[n - 1] + d[n]

LEMMA ValueFacts ==
  \A radix, length \in Nat : \A d :
    (\A n \in 1 .. length : d[n] \in Nat) =>
      \E v : Values(v, radix, d, length) /\ Value(radix, d, length) = v[length]
  <1>. SUFFICES
         ASSUME NEW radix \in Nat, NEW length \in Nat, NEW d,
                \A n \in 1 .. length : d[n] \in Nat
         PROVE  \E v : Values(v, radix, d, length) /\ Value(radix, d, length) = v[length]
    OBVIOUS
  <1>. DEFINE step == [p \in Nat \X (1 .. length) |-> radix * p[1] + d[p[2]]]
              body(f) == [n \in 0 .. length |->
                            IF n = 0 THEN 0 ELSE radix * f[n - 1] + d[n]]
              v == CHOOSE f : f = body(f)
  <1>1. step \in [Nat \X (1 .. length) -> Nat]
    <2>1. \A p \in Nat \X (1 .. length) : radix * p[1] + d[p[2]] \in Nat
      BY ProductIsNatural
    <2>. QED
      BY <2>1
  <1>2. \A m \in Nat, n \in 1 .. length : step[<<m, n>>] = radix * m + d[n]
    OBVIOUS
  <1>. HIDE DEF step
  <1>3. PICK g \in [0 .. length -> Nat] :
               g[0] = 0 /\ \A n \in 1 .. length : g[n] = step[<<g[n - 1], n>>]
    <2>1. Iterable(Nat, length)
      BY Iterates
    <2>. QED
      BY <1>1, <2>1, 0 \in Nat DEF Iterable
  <1>4. \A n \in 1 .. length : g[n] = radix * g[n - 1] + d[n]
    <2>. TAKE n \in 1 .. length
    <2>1. n - 1 \in 0 .. length
      OBVIOUS
    <2>2. g[n - 1] \in Nat
      BY <1>3, <2>1
    <2>. QED
      BY <1>2, <1>3, <2>2
  <1>5. g = body(g)
    <2>1. \A n \in 0 .. length : n = 0 \/ n \in 1 .. length
      OBVIOUS
    <2>. QED
      BY <1>3, <1>4, <2>1
  <1>6. v = body(v)
    BY <1>5
  <1>7. Value(radix, d, length) = v[length]
    BY DEF Value
  <1>. HIDE DEF v
  <1>8. v[0] = 0 /\ \A n \in 1 .. length : v[n] = radix * v[n - 1] + d[n]
    BY <1>6
  <1>9. \A n \in 0 .. length : v[n] = g[n]
    <2>. DEFINE T == {n \in 0 .. length : v[n] = g[n]}
    <2>1. 0 \in T
      BY <1>3, <1>8
    <2>2. ASSUME NEW n \in 1 .. length, n - 1 \in T PROVE n \in T
      BY <1>4, <1>8, <2>2
    <2>. HIDE DEF T
    <2>3. \A n \in 0 .. length : n \in T
      BY <2>1, <2>2, Counting
    <2>. QED
      BY <2>3 DEF T
  <1>10. v \in [0 .. length -> Nat]
    BY <1>3, <1>6, <1>9
  <1>. QED
    BY <1>7, <1>8, <1>10 DEF Values

\* A value is determined by its digits.
LEMMA SameValues ==
  ASSUME NEW radix \in Nat, NEW length \in Nat, NEW d, NEW e, NEW v, NEW w,
         Values(v, radix, d, length), Values(w, radix, e, length),
         \A n \in 1 .. length : d[n] = e[n]
  PROVE  v = w
  <1>. DEFINE T == {n \in 0 .. length : v[n] = w[n]}
  <1>1. 0 \in T
    BY DEF Values
  <1>2. ASSUME NEW n \in 1 .. length, n - 1 \in T PROVE n \in T
    BY <1>2 DEF Values
  <1>. HIDE DEF T
  <1>3. \A n \in 0 .. length : n \in T
    BY <1>1, <1>2, Counting
  <1>. QED
    BY <1>3 DEF T, Values

\* Zeros in front change nothing.
LEMMA LeadingZeros ==
  ASSUME NEW radix \in Nat, NEW zeros \in Nat, NEW length \in Nat, NEW d, NEW e,
         NEW v, NEW w,
         Values(v, radix, d, zeros + length), Values(w, radix, e, length),
         \A n \in 1 .. zeros : d[n] = 0,
         \A n \in 1 .. length : d[zeros + n] = e[n]
  PROVE  v[zeros + length] = w[length]
  <1>. DEFINE S == {n \in 0 .. zeros : v[n] = 0}
              T == {n \in 0 .. length : v[zeros + n] = w[n]}
  <1>1. zeros \in S
    <2>1. 0 \in S
      BY DEF Values
    <2>2. ASSUME NEW n \in 1 .. zeros, n - 1 \in S PROVE n \in S
      <3>1. v[n] = radix * v[n - 1] + d[n] /\ d[n] = 0 /\ v[n - 1] = 0
        BY <2>2, n \in 1 .. zeros + length DEF Values
      <3>. QED
        BY <3>1
    <2>. HIDE DEF S
    <2>. QED
      BY <2>1, <2>2, Counting, zeros \in 0 .. zeros
  <1>2. 0 \in T
    BY <1>1 DEF Values
  <1>3. ASSUME NEW n \in 1 .. length, n - 1 \in T PROVE n \in T
    <2>1. v[zeros + n] = radix * v[zeros + n - 1] + d[zeros + n]
      BY zeros + n \in 1 .. zeros + length DEF Values
    <2>2. w[n] = radix * w[n - 1] + e[n] /\ d[zeros + n] = e[n]
      BY DEF Values
    <2>3. v[zeros + n - 1] = w[n - 1]
      BY <1>3, zeros + (n - 1) = zeros + n - 1
    <2>. QED
      BY <2>1, <2>2, <2>3
  <1>. HIDE DEF T
  <1>. QED
    <2>1. length \in T
      BY <1>2, <1>3, Counting, length \in 0 .. length
    <2>. QED
      BY <2>1 DEF T

\* Two digits are one of the squared radix.
LEMMA PairedDigits ==
  \A radix, length \in Nat : \A c, b, v, w :
    /\ Values(v, radix, c, 2 * length) /\ Values(w, radix * radix, b, length)
    /\ \A n \in 1 .. length : /\ c[2 * n - 1] \in Nat /\ c[2 * n] \in Nat
                            /\ b[n] = radix * c[2 * n - 1] + c[2 * n]
    => v[2 * length] = w[length]
  <1>. TAKE radix, length \in Nat
  <1>. TAKE c, b, v, w
  <1>. HAVE /\ Values(v, radix, c, 2 * length) /\ Values(w, radix * radix, b, length)
            /\ \A n \in 1 .. length : /\ c[2 * n - 1] \in Nat /\ c[2 * n] \in Nat
                                    /\ b[n] = radix * c[2 * n - 1] + c[2 * n]
  <1>. DEFINE T == {n \in 0 .. length : v[2 * n] = w[n]}
  <1>1. 0 \in T
    BY DEF Values
  <1>2. ASSUME NEW n \in 1 .. length, n - 1 \in T PROVE n \in T
    <2>. DEFINE x == w[n - 1]
                high == c[2 * n - 1]
                low == c[2 * n]
    <2>1. x \in Nat /\ high \in Nat /\ low \in Nat
      BY n - 1 \in 0 .. length DEF Values
    <2>2. v[2 * n - 2] = x
      BY <1>2, 2 * (n - 1) = 2 * n - 2
    <2>3. v[2 * n - 1] = radix * x + high
      BY <2>2, 2 * n - 1 \in 1 .. 2 * length, (2 * n - 1) - 1 = 2 * n - 2 DEF Values
    <2>4. v[2 * n] = radix * (radix * x + high) + low
      BY <2>3, 2 * n \in 1 .. 2 * length DEF Values
    <2>5. w[n] = (radix * radix) * x + (radix * high + low)
      BY DEF Values
    <2>. HIDE DEF x, high, low
    <2>6. radix * (radix * x + high) + low = (radix * radix) * x + (radix * high + low)
      BY <2>1
    <2>. QED
      BY <2>4, <2>5, <2>6
  <1>. HIDE DEF T
  <1>3. length \in T
    BY <1>1, <1>2, Counting, length \in 0 .. length
  <1>. QED
    BY <1>3 DEF T

\* A quotient and a remainder are determined by the number.
LEMMA UniqueDivision ==
  \A radix \in Nat \ {0}, x, y \in Nat : \A i, j \in 0 .. radix - 1 :
    radix * x + i = radix * y + j => x = y /\ i = j
  <1>1. ASSUME NEW radix \in Nat \ {0}, NEW x \in Nat, NEW y \in Nat,
               NEW i \in 0 .. radix - 1, NEW j \in 0 .. radix - 1,
               radix * x + i = radix * y + j, x < y
        PROVE  FALSE
    <2>1. radix * (x + 1) <= radix * y
      <3>1. x + 1 \in Nat /\ x + 1 <= y
        BY <1>1
      <3>. QED
        BY <3>1, ProductGrows
    <2>2. radix * (x + 1) = radix * x + radix
      OBVIOUS
    <2>3. radix * x \in Nat /\ radix * y \in Nat
      BY ProductIsNatural
    <2>. QED
      BY <1>1, <2>1, <2>2, <2>3
  <1>. TAKE radix \in Nat \ {0}, x, y \in Nat
  <1>. TAKE i, j \in 0 .. radix - 1
  <1>. HAVE radix * x + i = radix * y + j
  <1>2. x = y
    BY <1>1
  <1>3. radix * x \in Nat
    BY ProductIsNatural
  <1>. QED
    BY <1>2, <1>3

\* The digits of a number are determined by it.
LEMMA SameDigits ==
  \A radix \in Nat \ {0}, length \in Nat : \A d, e, v, w :
    /\ Values(v, radix, d, length) /\ Values(w, radix, e, length)
    /\ \A n \in 1 .. length : d[n] \in 0 .. radix - 1 /\ e[n] \in 0 .. radix - 1
    /\ v[length] = w[length]
    => \A n \in 1 .. length : d[n] = e[n]
  <1>. SUFFICES
         ASSUME NEW radix \in Nat \ {0}, NEW length \in Nat, NEW d, NEW e, NEW v, NEW w,
                Values(v, radix, d, length), Values(w, radix, e, length),
                \A n \in 1 .. length : d[n] \in 0 .. radix - 1 /\ e[n] \in 0 .. radix - 1,
                v[length] = w[length]
         PROVE  \A n \in 1 .. length : d[n] = e[n]
    OBVIOUS
  <1>. DEFINE T == {k \in 0 .. length : v[length - k] = w[length - k]}
  <1>1. ASSUME NEW n \in 1 .. length, v[n] = w[n]
        PROVE  v[n - 1] = w[n - 1] /\ d[n] = e[n]
    <2>. DEFINE x == v[n - 1]
                y == w[n - 1]
    <2>1. x \in Nat /\ y \in Nat
      BY n - 1 \in 0 .. length DEF Values
    <2>2. radix * x + d[n] = radix * y + e[n]
      BY <1>1 DEF Values
    <2>3. d[n] \in 0 .. radix - 1 /\ e[n] \in 0 .. radix - 1
      OBVIOUS
    <2>. HIDE DEF x, y
    <2>4. x = y /\ d[n] = e[n]
      BY <2>1, <2>2, <2>3, UniqueDivision
    <2>. QED
      BY <2>4 DEF x, y
  <1>2. 0 \in T
    BY length - 0 = length
  <1>3. ASSUME NEW k \in 1 .. length, k - 1 \in T PROVE k \in T
    <2>. DEFINE n == length - (k - 1)
    <2>1. n \in 1 .. length /\ n - 1 = length - k /\ v[n] = w[n]
      BY <1>3
    <2>2. v[n - 1] = w[n - 1]
      BY <1>1, <2>1
    <2>. QED
      BY <2>1, <2>2
  <1>4. \A k \in 0 .. length : k \in T
    <2>. HIDE DEF T
    <2>. QED
      BY <1>2, <1>3, Counting
  <1>. TAKE n \in 1 .. length
  <1>5. length - n \in 0 .. length /\ length - (length - n) = n
    OBVIOUS
  <1>6. v[n] = w[n]
    BY <1>4, <1>5
  <1>. QED
    BY <1>1, <1>6

-----------------------------------------------------------------------------
(* Texts and hashes.                                                       *)

LEMMA Radices ==
  /\ Radix \in Nat \ {0} /\ Radix > 1 /\ HashBytes \in Nat \ {0}
  /\ Radix * Radix \in Nat \ {0} /\ 2 * HashBytes \in Nat
  <1>1. Radix \in Nat \ {0} /\ Radix > 1 /\ HashBytes \in Nat \ {0}
    BY TextAssumption
  <1>2. Radix * 1 <= Radix * Radix
    BY <1>1, ProductGrows
  <1>. QED
    BY <1>1, <1>2, ProductIsNatural

\* Two digits make a byte, which can be taken apart again.
LEMMA DigitsOfByte ==
  \A high, low \in Digit : /\ Radix * high + low \in Byte
                           /\ (Radix * high + low) \div Radix = high
                           /\ (Radix * high + low) % Radix = low
  <1>. TAKE high, low \in Digit
  <1>. DEFINE byte == Radix * high + low
              h == byte \div Radix
              l == byte % Radix
  <1>1. /\ Radix \in Nat \ {0} /\ Radix > 1
        /\ high \in 0 .. Radix - 1 /\ low \in 0 .. Radix - 1
    BY Radices DEF Digit
  <1>2. Radix * high <= Radix * (Radix - 1) /\ Radix * (Radix - 1) = Radix * Radix - Radix
    BY <1>1, ProductGrows, Radix - 1 \in Nat
  <1>3. Radix * high \in Nat /\ Radix * Radix \in Nat
    BY <1>1, ProductIsNatural
  <1>4. byte \in Nat /\ byte < Radix * Radix
    BY <1>1, <1>2, <1>3
  <1>. HIDE DEF byte
  <1>5. h \in Nat /\ l \in 0 .. Radix - 1 /\ Radix * h + l = byte
    BY <1>1, <1>4
  <1>. HIDE DEF h, l
  <1>6. Radix * h + l = Radix * high + low
    BY <1>5 DEF byte
  <1>7. high \in Nat
    BY <1>1
  <1>8. h = high /\ l = low
    BY <1>1, <1>5, <1>6, <1>7, UniqueDivision
  <1>. QED
    BY <1>4, <1>8, Radices DEF Byte, byte, h, l

LEMMA StrippedText ==
  ASSUME NEW text \in Seq(Char)
  PROVE  StripPrefix(text) \in Seq(Char)
  BY DEF StripPrefix

LEMMA PaddedText ==
  ASSUME NEW text \in Seq(Char), NEW n \in Nat, Len(text) <= n
  PROVE  /\ Pad(text, n) \in Seq(Char) /\ Len(Pad(text, n)) = n
         /\ \A i \in 1 .. n - Len(text) : Pad(text, n)[i] = 0
         /\ \A i \in 1 .. Len(text) : Pad(text, n)[(n - Len(text)) + i] = text[i]
  <1>. DEFINE k == n - Len(text)
              zeros == [i \in 1 .. k |-> 0]
  <1>1. k \in Nat /\ Len(text) \in Nat /\ k + Len(text) = n
    OBVIOUS
  <1>2. 0 \in Char
    BY Radices DEF Char, Digit
  <1>. HIDE DEF k
  <1>3. zeros \in Seq(Char) /\ Len(zeros) = k /\ \A i \in 1 .. k : zeros[i] = 0
    BY <1>1, <1>2
  <1>4. Pad(text, n) = zeros \o text
    BY DEF Pad, k
  <1>. HIDE DEF zeros
  <1>5. /\ zeros \o text \in Seq(Char) /\ Len(zeros \o text) = k + Len(text)
        /\ \A i \in 1 .. k : (zeros \o text)[i] = zeros[i]
        /\ \A i \in 1 .. Len(text) : (zeros \o text)[k + i] = text[i]
    BY <1>1, <1>3
  <1>. QED
    BY <1>1, <1>3, <1>4, <1>5 DEF k

Digits(text) == Pad(StripPrefix(text), 2 * HashBytes)

\* The hash that is meant by a text.
HashOfText(text) ==
    [i \in 1 .. HashBytes |-> Radix * Digits(text)[2 * i - 1] + Digits(text)[2 * i]]

LEMMA DigitsOfText ==
  ASSUME NEW text \in Seq(Char), WellFormed(text)
  PROVE  /\ Len(Digits(text)) = 2 * HashBytes
         /\ \A i \in 1 .. 2 * HashBytes : Digits(text)[i] \in Digit
  <1>. DEFINE s == StripPrefix(text)
              k == 2 * HashBytes - Len(s)
  <1>1. s \in Seq(Char) /\ Len(s) \in Nat /\ Len(s) <= 2 * HashBytes
        /\ (\A i \in 1 .. Len(s) : s[i] \in Digit) /\ 2 * HashBytes \in Nat
    BY StrippedText, Radices DEF WellFormed
  <1>2. /\ Len(Digits(text)) = 2 * HashBytes
        /\ \A i \in 1 .. k : Digits(text)[i] = 0
        /\ \A i \in 1 .. Len(s) : Digits(text)[k + i] = s[i]
    BY <1>1, PaddedText DEF Digits
  <1>. HIDE DEF s
  <1>3. ASSUME NEW i \in 1 .. 2 * HashBytes PROVE Digits(text)[i] \in Digit
    <2>1. CASE i \in 1 .. k
      BY <1>2, <2>1, Radices DEF Digit
    <2>2. CASE i \notin 1 .. k
      <3>1. i - k \in 1 .. Len(s) /\ k + (i - k) = i
        BY <1>1, <2>2
      <3>. QED
        BY <1>1, <1>2, <3>1
    <2>. QED
      BY <2>1, <2>2
  <1>. QED
    BY <1>2, <1>3

\* A well-formed text is read as the hash it means, whatever memory held.
LEMMA TextIsRead ==
  ASSUME NEW text \in Seq(Char), NEW before, WellFormed(text)
  PROVE  hexToHash32(text, before).hash = HashOfText(text)
  <1>1. \A i \in 1 .. HashBytes : \A j \in 1 .. 2 * i : Digits(text)[j] \in Digit
    BY DigitsOfText, Radices
  <1>. QED
    BY <1>1, DigitsOfText DEF hexToHash32, hexToHash, HashOfText, Digits

LEMMA HashOfTextType ==
  ASSUME NEW text \in Seq(Char), WellFormed(text)
  PROVE  HashOfText(text) \in Hash
  <1>1. \A i \in 1 .. HashBytes : /\ 2 * i - 1 \in 1 .. 2 * HashBytes
                                  /\ 2 * i \in 1 .. 2 * HashBytes
    BY Radices
  <1>. QED
    BY <1>1, DigitsOfText, DigitsOfByte DEF HashOfText, Hash

\* The digits of a text and its padded ones are those of the same number.
LEMMA NumberOfDigits ==
  ASSUME NEW text \in Seq(Char), WellFormed(text)
  PROVE  NumberOfText(text) = Value(Radix, Digits(text), 2 * HashBytes)
  <1>. DEFINE s == StripPrefix(text)
              k == 2 * HashBytes - Len(s)
  <1>1. /\ s \in Seq(Char) /\ Len(s) \in Nat /\ k \in Nat /\ k + Len(s) = 2 * HashBytes
        /\ \A i \in 1 .. Len(s) : s[i] \in Digit
    BY StrippedText, Radices DEF WellFormed
  <1>2. /\ \A i \in 1 .. k : Digits(text)[i] = 0
        /\ \A i \in 1 .. Len(s) : Digits(text)[k + i] = s[i]
    BY <1>1, PaddedText, Radices DEF Digits
  <1>3. \A i \in 1 .. 2 * HashBytes : Digits(text)[i] \in Nat
    BY DigitsOfText, Radices DEF Digit
  <1>4. PICK v : /\ Values(v, Radix, Digits(text), 2 * HashBytes)
                 /\ Value(Radix, Digits(text), 2 * HashBytes) = v[2 * HashBytes]
    BY <1>3, ValueFacts, Radices
  <1>. HIDE DEF k
  <1>5. \A i \in 1 .. Len(s) : s[i] \in Nat
    BY <1>1, Radices DEF Digit
  <1>6. PICK w : Values(w, Radix, s, Len(s)) /\ Value(Radix, s, Len(s)) = w[Len(s)]
    BY <1>1, <1>5, ValueFacts, Radices
  <1>7. v[k + Len(s)] = w[Len(s)]
    BY <1>1, <1>2, <1>4, <1>6, LeadingZeros, Radices
  <1>. QED
    BY <1>1, <1>4, <1>6, <1>7 DEF NumberOfText

LEMMA NumberOfHashOfText ==
  ASSUME NEW text \in Seq(Char), WellFormed(text)
  PROVE  NumberOfHash(HashOfText(text)) = NumberOfText(text)
  <1>. DEFINE c == Digits(text)
              b == HashOfText(text)
  <1>1. \A i \in 1 .. 2 * HashBytes : c[i] \in Nat
    BY DigitsOfText, Radices DEF Digit
  <1>2. \A i \in 1 .. HashBytes : b[i] \in Nat
    BY HashOfTextType, Radices DEF Hash, Byte
  <1>3. \A i \in 1 .. HashBytes : /\ c[2 * i - 1] \in Nat /\ c[2 * i] \in Nat
                                  /\ b[i] = Radix * c[2 * i - 1] + c[2 * i]
    <2>. TAKE i \in 1 .. HashBytes
    <2>1. 2 * i - 1 \in 1 .. 2 * HashBytes /\ 2 * i \in 1 .. 2 * HashBytes
      BY Radices
    <2>. QED
      BY <1>1, <2>1 DEF HashOfText
  <1>. HIDE DEF c, b
  <1>4. PICK v : /\ Values(v, Radix, c, 2 * HashBytes)
                 /\ Value(Radix, c, 2 * HashBytes) = v[2 * HashBytes]
    BY <1>1, ValueFacts, Radices
  <1>5. PICK w : /\ Values(w, Radix * Radix, b, HashBytes)
                 /\ Value(Radix * Radix, b, HashBytes) = w[HashBytes]
    BY <1>2, ValueFacts, Radices
  <1>6. v[2 * HashBytes] = w[HashBytes]
    <2>1. \A i, j, x, y :
            /\ Values(x, Radix, i, 2 * HashBytes) /\ Values(y, Radix * Radix, j, HashBytes)
            /\ \A n \in 1 .. HashBytes : /\ i[2 * n - 1] \in Nat /\ i[2 * n] \in Nat
                                       /\ j[n] = Radix * i[2 * n - 1] + i[2 * n]
            => x[2 * HashBytes] = y[HashBytes]
      BY PairedDigits, Radices
    <2>. QED
      BY <1>3, <1>4, <1>5, <2>1
  <1>7. NumberOfHash(b) = Value(Radix * Radix, b, HashBytes)
    BY DEF NumberOfHash
  <1>8. NumberOfText(text) = Value(Radix, c, 2 * HashBytes)
    BY NumberOfDigits DEF c
  <1>9. NumberOfHash(b) = NumberOfText(text)
    BY <1>4, <1>5, <1>6, <1>7, <1>8
  <1>. QED
    BY <1>9 DEF b

\* Different hashes are different numbers.
LEMMA NumberDeterminesHash ==
  ASSUME NEW g \in Hash, NEW h \in Hash, NumberOfHash(g) = NumberOfHash(h)
  PROVE  g = h
  <1>. DEFINE r == Radix * Radix
  <1>1. r \in Nat \ {0} /\ HashBytes \in Nat
    BY Radices
  <1>2. \A n \in 1 .. HashBytes : g[n] \in 0 .. r - 1 /\ h[n] \in 0 .. r - 1
    BY DEF Hash, Byte
  <1>3. NumberOfHash(g) = Value(r, g, HashBytes) /\ NumberOfHash(h) = Value(r, h, HashBytes)
    BY DEF NumberOfHash
  <1>. HIDE DEF r
  <1>4. \A n \in 1 .. HashBytes : g[n] \in Nat /\ h[n] \in Nat
    BY <1>1, <1>2
  <1>5. PICK v : Values(v, r, g, HashBytes) /\ Value(r, g, HashBytes) = v[HashBytes]
    BY <1>1, <1>4, ValueFacts
  <1>6. PICK w : Values(w, r, h, HashBytes) /\ Value(r, h, HashBytes) = w[HashBytes]
    BY <1>1, <1>4, ValueFacts
  <1>7. v[HashBytes] = w[HashBytes]
    BY <1>3, <1>5, <1>6
  <1>8. \A n \in 1 .. HashBytes : g[n] = h[n]
    BY <1>1, <1>2, <1>5, <1>6, <1>7, SameDigits
  <1>9. g \in [1 .. HashBytes -> Byte] /\ h \in [1 .. HashBytes -> Byte]
    BY DEF Hash
  <1>. QED
    BY <1>1, <1>8, <1>9

\* A hash that was read is written with the digits it was read from.
LEMMA HashIsWritten ==
  ASSUME NEW text \in Seq(Char), WellFormed(text)
  PROVE  LET echo == hash32ToHex(HashOfText(text))
         IN  /\ WellFormed(echo)
             /\ Len(echo) = 2 + 2 * HashBytes
             /\ NumberOfText(echo) = NumberOfText(text)
  <1>. DEFINE c == Digits(text)
              hash == HashOfText(text)
              f == [i \in 1 .. 2 * HashBytes |->
                      IF i % 2 = 1 THEN hash[(i + 1) \div 2] \div Radix
                                   ELSE hash[i \div 2] % Radix]
              echo == <<0, X>> \o f
              size == 2 * HashBytes
  <1>1. \A i \in 1 .. 2 * HashBytes : c[i] \in Digit
    BY DigitsOfText
  <1>2. \A k \in 1 .. HashBytes :
          hash[k] \div Radix = c[2 * k - 1] /\ hash[k] % Radix = c[2 * k]
    <2>. TAKE k \in 1 .. HashBytes
    <2>1. 2 * k - 1 \in 1 .. 2 * HashBytes /\ 2 * k \in 1 .. 2 * HashBytes
      BY Radices
    <2>2. hash[k] = Radix * c[2 * k - 1] + c[2 * k]
      BY DEF HashOfText
    <2>. QED
      BY <1>1, <2>1, <2>2, DigitsOfByte
  <1>3. \A i \in 1 .. 2 * HashBytes : f[i] = c[i]
    <2>. TAKE i \in 1 .. 2 * HashBytes
    <2>1. CASE i % 2 = 1
      <3>1. (i + 1) \div 2 \in 1 .. HashBytes /\ 2 * ((i + 1) \div 2) - 1 = i
        BY <2>1, Radices
      <3>. QED
        BY <1>2, <2>1, <3>1
    <2>2. CASE i % 2 # 1
      <3>1. i \div 2 \in 1 .. HashBytes /\ 2 * (i \div 2) = i
        BY <2>2, Radices
      <3>. QED
        BY <1>2, <2>2, <3>1
    <2>. QED
      BY <2>1, <2>2
  <1>4. size \in Nat /\ f \in [1 .. size -> Digit]
    BY <1>1, <1>3, Radices
  <1>5. hash32ToHex(HashOfText(text)) = echo
    BY DEF hash32ToHex
  <1>. HIDE DEF f, c, size
  <1>6. f \in Seq(Char) /\ Len(f) = size
    <2>1. f \in Seq(Digit) /\ Len(f) = size
      BY <1>4
    <2>. QED
      BY <2>1 DEF Char
  <1>7. 0 \in Char /\ X \in Char
    BY Radices DEF Char, Digit
  <1>8. /\ echo \in Seq(Char) /\ Len(echo) = 2 + size /\ echo[1] = 0 /\ echo[2] = X
        /\ \A i \in 1 .. size : echo[i + 2] = f[i]
    BY <1>4, <1>6, <1>7
  <1>. HIDE DEF echo
  <1>9. StripPrefix(echo) = SubSeq(echo, 3, Len(echo))
    BY <1>4, <1>8 DEF StripPrefix
  <1>10. /\ SubSeq(echo, 3, Len(echo)) \in Seq(Char)
         /\ Len(SubSeq(echo, 3, Len(echo))) = size
         /\ \A i \in 1 .. size : SubSeq(echo, 3, Len(echo))[i] = f[i]
    BY <1>4, <1>8
  <1>11. StripPrefix(echo) = f
    BY <1>6, <1>9, <1>10, SeqEqual
  <1>12. WellFormed(echo)
    BY <1>4, <1>6, <1>11 DEF WellFormed, size
  <1>13. Value(Radix, f, size) = Value(Radix, c, size)
    <2>1. \A i \in 1 .. size : c[i] \in Nat
      BY <1>1, Radices DEF Digit, size
    <2>2. \A i \in 1 .. size : f[i] = c[i]
      BY <1>3 DEF size
    <2>3. \A i \in 1 .. size : f[i] \in Nat
      BY <2>1, <2>2
    <2>4. PICK v : Values(v, Radix, f, size) /\ Value(Radix, f, size) = v[size]
      BY <1>4, <2>3, ValueFacts, Radices
    <2>5. PICK w : Values(w, Radix, c, size) /\ Value(Radix, c, size) = w[size]
      BY <1>4, <2>1, ValueFacts, Radices
    <2>6. v = w
      BY <1>4, <2>2, <2>4, <2>5, SameValues, Radices
    <2>. QED
      BY <2>4, <2>5, <2>6
  <1>14. NumberOfText(echo) = NumberOfText(text)
    BY <1>6, <1>11, <1>13, NumberOfDigits DEF NumberOfText, c, size
  <1>. QED
    BY <1>5, <1>8, <1>12, <1>14 DEF size

-----------------------------------------------------------------------------
(* Types.                                                                  *)

\* Memory that held hashes or nothing in particular.
Memory == [1 .. HashBytes -> Byte \cup {Garbage}]

LEMMA ReadType ==
  ASSUME NEW text, NEW before \in Memory
  PROVE  hexToHash32(text, before).hash \in Memory
  <1>. DEFINE chars == Digits(text)
              readable(i) == \A j \in 1 .. 2 * i : chars[j] \in Digit
              read == [i \in 1 .. HashBytes |->
                         IF readable(i) THEN Radix * chars[2 * i - 1] + chars[2 * i]
                                        ELSE before[i]]
  <1>1. hexToHash32(text, before).hash \in {before, read}
    BY DEF hexToHash32, hexToHash, Digits
  <1>2. ASSUME NEW i \in 1 .. HashBytes, readable(i)
        PROVE  Radix * chars[2 * i - 1] + chars[2 * i] \in Byte
    <2>1. 2 * i - 1 \in 1 .. 2 * i /\ 2 * i \in 1 .. 2 * i
      BY Radices
    <2>2. chars[2 * i - 1] \in Digit /\ chars[2 * i] \in Digit
      BY <1>2, <2>1
    <2>. QED
      BY <2>2, DigitsOfByte
  <1>. HIDE DEF chars, readable
  <1>3. read \in Memory
    BY <1>2 DEF Memory
  <1>. QED
    BY <1>1, <1>3

LEMMA MaxTargetType == MaxTarget \in Nat
  <1>. DEFINE d == [i \in 1 .. HashBytes |-> Radix * Radix - 1]
              r == Radix * Radix
  <1>1. r \in Nat \ {0} /\ HashBytes \in Nat /\ \A i \in 1 .. HashBytes : d[i] \in Nat
    BY Radices
  <1>2. MaxTarget = Value(r, d, HashBytes)
    BY DEF MaxTarget, NumberOfHash
  <1>. HIDE DEF d, r
  <1>3. PICK v : Values(v, r, d, HashBytes) /\ Value(r, d, HashBytes) = v[HashBytes]
    BY <1>1, ValueFacts
  <1>4. v[HashBytes] \in Nat
    BY <1>1, <1>3, HashBytes \in 0 .. HashBytes DEF Values
  <1>. QED
    BY <1>2, <1>3, <1>4

LEMMA ZeroType == Zero \in Hash /\ Hash \subseteq Memory
  BY Radices DEF Zero, Hash, Memory, Byte

LEMMA TypeInit == Init => TypeOK
  <1>. SUFFICES ASSUME Init PROVE TypeOK
    OBVIOUS
  <1>1. texts \in [header : Seq(Char), seed : Seq(Char)]
    BY DEF Init
  <1>2. job \in [header : Memory, seed : Memory, epoch : EpochNumber \cup {NoEpoch}]
    BY ZeroType DEF Init
  <1>3. target \in 0 .. MaxTarget
    BY MaxTargetType DEF Init
  <1>4. start \in 0 .. WordMod - 1
    <2>1. WordMod \in Nat /\ WordMod > 0
      BY DatasetItemsRight, EpochOfType, PreparationAssumption
    <2>. QED
      BY <2>1 DEF Init
  <1>5. written \in [Item -> Nat]
    BY DEF Init
  <1>. QED
    BY <1>1, <1>2, <1>3, <1>4, <1>5 DEF Init, TypeOK, Memory, EpochNumber

LEMMA TypeNext == PreparationInv /\ PreparationInv' /\ TypeOK /\ [Next]_vars => TypeOK'
  <1>. SUFFICES ASSUME PreparationInv, PreparationInv', TypeOK, [Next]_vars PROVE TypeOK'
    OBVIOUS
  <1>1. ASSUME NEW n \in Notifications, Notify(n.header, n.seed) PROVE TypeOK'
    <2>1. n \in [header : Seq(Char), seed : Seq(Char)]
      BY PreparationAssumption
    <2>2. texts' = [header |-> n.header, seed |-> n.seed] /\ UNCHANGED targetVars
      BY <1>1 DEF Notify
    <2>3. PICK h \in Uninitialized(job.header), s \in Uninitialized(job.seed) :
                 job' = [header |-> hexToHash32(n.header, h).hash,
                         seed |-> hexToHash32(n.seed, s).hash,
                         epoch |-> EpochOf(hexToHash32(n.seed, s).hash)]
      BY <1>1 DEF Notify
    <2>4. h \in Memory /\ s \in Memory
      <3>1. job.header \in Memory /\ job.seed \in Memory
        BY DEF TypeOK, Memory
      <3>2. [i \in 1 .. HashBytes |-> Garbage] \in Memory
        BY DEF Memory
      <3>. QED
        BY <3>1, <3>2 DEF Uninitialized
    <2>5. job' \in [header : Memory, seed : Memory, epoch : EpochNumber]
      BY <2>3, <2>4, ReadType, EpochOfType
    <2>6. /\ dagEpoch' = dagEpoch /\ generating' \in BOOLEAN /\ refused' \in BOOLEAN
          /\ (start' = start \/ start' = 0)
          /\ written' \in [Item -> Nat]
      BY <1>1 DEF Notify, dagVars, TypeOK, PreparationInv, EpochsAgree, WrittenBelowStart
    <2>7. start' \in 0 .. WordMod - 1
      BY <2>6, PreparationAssumption DEF TypeOK
    <2>. QED
      BY <2>1, <2>2, <2>5, <2>6, <2>7 DEF TypeOK, targetVars, Memory, EpochNumber
  <1>2. ASSUME NEW d \in Difficulty, SetDifficulty(d) PROVE TypeOK'
    <2>1. debugTarget \in 0 .. MaxTarget \cup {NoTarget}
      BY PreparationAssumption DEF TypeOK
    <2>2. targetFromDifficulty(d) \in 0 .. MaxTarget
      BY MaxTargetType DEF targetFromDifficulty
    <2>3. target' \in 0 .. MaxTarget
      BY <1>2, <2>1, <2>2 DEF SetDifficulty
    <2>4. difficulty' = d /\ UNCHANGED <<texts, job, debugTarget, dagVars>>
      BY <1>2 DEF SetDifficulty
    <2>. QED
      BY <2>3, <2>4 DEF TypeOK, dagVars
  <1>3. ASSUME NEW launched \in BOOLEAN, GenerateBatch(launched) PROVE TypeOK'
    <2>1. UNCHANGED <<texts, job, targetVars, dagEpoch, generating>>
          /\ start' = (start + BatchSize) % WordMod
      BY <1>3 DEF GenerateBatch
    <2>2. refused' \in BOOLEAN /\ written' \in [Item -> Nat]
      BY DEF PreparationInv, EpochsAgree, WrittenBelowStart
    <2>3. start' \in 0 .. WordMod - 1
      <3>1. start \in 0 .. WordMod - 1 /\ WordMod \in Nat /\ BatchSize \in Nat
        BY PreparationAssumption DEF TypeOK
      <3>. QED
        BY <2>1, <3>1
    <2>. QED
      BY <2>1, <2>2, <2>3 DEF TypeOK, targetVars
  <1>4. CASE Generated
    <2>1. UNCHANGED <<texts, job, targetVars, start, written, refused>>
          /\ generating' = FALSE /\ dagEpoch' = job.epoch
      BY <1>4 DEF Generated
    <2>. QED
      BY <2>1 DEF TypeOK, targetVars
  <1>5. CASE UNCHANGED vars
    BY <1>5 DEF vars, TypeOK
  <1>. QED
    BY <1>1, <1>2, <1>3, <1>4, <1>5 DEF Next, Generation

\* What the pool sends is parsed, numbered and generated within the types of the code
\* (types.hpp MiningJob; hex_utils.cpp hexToHash32, difficulty.cpp targetFromDifficulty,
\* dag_kernel.cu generateDagGpu).
THEOREM TypeCorrect == Spec => []TypeOK
  <1>1. Init => PreparationInv /\ TypeOK
    BY InitInv, TypeInit
  <1>2. PreparationInv /\ TypeOK /\ [Next]_vars => (PreparationInv /\ TypeOK)'
    BY NextInv, TypeNext
  <1>. QED
    BY <1>1, <1>2, PTL DEF Spec

-----------------------------------------------------------------------------
(* What is read from a text.                                               *)

\* A well-formed text has been read as the hash it means.
HashIsRead(text, hash) == WellFormed(text) => hash = HashOfText(text)

TextInv ==
    /\ texts \in [header : Seq(Char), seed : Seq(Char)]
    /\ HashIsRead(texts.header, job.header)
    /\ HashIsRead(texts.seed, job.seed)
    /\ job.epoch # NoEpoch => job.epoch = EpochOf(job.seed)

\* Nothing is read as zero.
LEMMA EmptyText == HashIsRead(<<>>, Zero)
  <1>. SUFFICES ASSUME WellFormed(<<>>) PROVE Zero = HashOfText(<<>>)
    BY DEF HashIsRead
  <1>1. <<>> \in Seq(Char) /\ StripPrefix(<<>>) = <<>> /\ Len(<<>>) = 0
    BY DEF StripPrefix
  <1>2. \A i \in 1 .. 2 * HashBytes : Digits(<<>>)[i] = 0
    <2>1. 2 * HashBytes \in Nat /\ Len(<<>>) <= 2 * HashBytes
          /\ 2 * HashBytes - Len(<<>>) = 2 * HashBytes
      BY <1>1, Radices
    <2>2. \A i \in 1 .. 2 * HashBytes - Len(<<>>) : Pad(<<>>, 2 * HashBytes)[i] = 0
      BY <1>1, <2>1, PaddedText
    <2>. QED
      BY <1>1, <2>1, <2>2 DEF Digits
  <1>3. \A i \in 1 .. HashBytes : Digits(<<>>)[2 * i - 1] = 0 /\ Digits(<<>>)[2 * i] = 0
    BY <1>2, Radices
  <1>4. \A i \in 1 .. HashBytes : Radix * Digits(<<>>)[2 * i - 1] + Digits(<<>>)[2 * i] = 0
    BY <1>3, Radices
  <1>. QED
    BY <1>4 DEF Zero, HashOfText

LEMMA TextNext == TextInv /\ [Next]_vars => TextInv'
  <1>. SUFFICES ASSUME TextInv, [Next]_vars PROVE TextInv'
    OBVIOUS
  <1>1. ASSUME NEW n \in Notifications, Notify(n.header, n.seed) PROVE TextInv'
    <2>1. n \in [header : Seq(Char), seed : Seq(Char)]
      BY PreparationAssumption
    <2>2. texts' = [header |-> n.header, seed |-> n.seed]
      BY <1>1 DEF Notify
    <2>3. PICK h, s : job' = [header |-> hexToHash32(n.header, h).hash,
                              seed |-> hexToHash32(n.seed, s).hash,
                              epoch |-> EpochOf(hexToHash32(n.seed, s).hash)]
      BY <1>1 DEF Notify
    <2>4. /\ job'.header = hexToHash32(n.header, h).hash
          /\ job'.seed = hexToHash32(n.seed, s).hash
          /\ job'.epoch = EpochOf(job'.seed)
      BY <2>3
    <2>5. /\ WellFormed(n.header) => job'.header = HashOfText(n.header)
          /\ WellFormed(n.seed) => job'.seed = HashOfText(n.seed)
      BY <2>1, <2>4, TextIsRead
    <2>. QED
      BY <2>1, <2>2, <2>4, <2>5 DEF TextInv, HashIsRead
  <1>2. CASE (\E d \in Difficulty : SetDifficulty(d)) \/ Generation \/ UNCHANGED vars
    <2>1. UNCHANGED <<texts, job>>
      BY <1>2 DEF SetDifficulty, Generation, GenerateBatch, Generated, vars
    <2>. QED
      BY <2>1 DEF TextInv
  <1>. QED
    BY <1>1, <1>2 DEF Next

LEMMA TextInvariant == Spec => []TextInv
  <1>1. Init => TextInv
    BY EmptyText DEF Init, TextInv
  <1>. QED
    BY <1>1, TextNext, PTL DEF Spec

\* The header of a share, written from the hash, is the number the pool has sent, for any
\* number of leading zeros and with or without prefix (hex_utils.cpp hexToHash32,
\* hash32ToHex, stratum_client.cpp processNotification, submitSolution).
THEOREM ShareEchoesHeaderHolds == Spec => []ShareEchoesHeader
  <1>1. TextInv => ShareEchoesHeader
    <2>. SUFFICES ASSUME TextInv, WellFormed(texts.header)
                  PROVE  LET echo == hash32ToHex(job.header)
                         IN  /\ WellFormed(echo)
                             /\ Len(echo) = 2 + 2 * HashBytes
                             /\ NumberOfText(echo) = NumberOfText(texts.header)
      BY DEF ShareEchoesHeader
    <2>1. texts.header \in Seq(Char) /\ job.header = HashOfText(texts.header)
      BY DEF TextInv, HashIsRead
    <2>. QED
      BY <2>1, HashIsWritten
  <1>. QED
    BY <1>1, TextInvariant, PTL

-----------------------------------------------------------------------------
(* The epoch of a seed.                                                    *)

\* No two of the scanned epochs have the same seed, as keccak256 has no collisions that
\* are known.
SeedsDiffer == \A e, f \in EpochNumber : Seed[e] = Seed[f] => e = f

LEMMA SeedType == Seed \in [0 .. MaxEpochScan -> Hash]
  <1>. DEFINE step == [p \in Hash \X (1 .. MaxEpochScan) |-> Keccak[p[1]]]
              body(f) == [e \in 0 .. MaxEpochScan |->
                            IF e = 0 THEN Zero ELSE Keccak[f[e - 1]]]
              g == CHOOSE f : f = body(f)
  <1>1. step \in [Hash \X (1 .. MaxEpochScan) -> Hash]
        /\ \A h \in Hash, n \in 1 .. MaxEpochScan : step[<<h, n>>] = Keccak[h]
    BY PreparationAssumption
  <1>2. MaxEpochScan \in Nat
    BY PreparationAssumption
  <1>3. Iterable(Hash, MaxEpochScan)
    BY <1>2, Iterates
  <1>. HIDE DEF step
  <1>4. PICK s \in [0 .. MaxEpochScan -> Hash] :
               s[0] = Zero /\ \A n \in 1 .. MaxEpochScan : s[n] = step[<<s[n - 1], n>>]
    BY <1>1, <1>3, ZeroType DEF Iterable
  <1>5. \A n \in 1 .. MaxEpochScan : s[n] = Keccak[s[n - 1]]
    <2>. TAKE n \in 1 .. MaxEpochScan
    <2>1. s[n - 1] \in Hash
      BY <1>2, <1>4, n - 1 \in 0 .. MaxEpochScan
    <2>. QED
      BY <1>1, <1>4, <2>1
  <1>6. s = body(s)
    <2>1. \A n \in 0 .. MaxEpochScan : n = 0 \/ n \in 1 .. MaxEpochScan
      BY <1>2
    <2>. QED
      BY <1>4, <1>5, <2>1
  <1>7. g = body(g)
    BY <1>6
  <1>8. Seed = g
    BY DEF Seed
  <1>. HIDE DEF g
  <1>9. \A n \in 0 .. MaxEpochScan : g[n] = s[n]
    <2>. DEFINE T == {n \in 0 .. MaxEpochScan : g[n] = s[n]}
    <2>1. 0 \in T
      BY <1>2, <1>4, <1>7
    <2>2. ASSUME NEW n \in 1 .. MaxEpochScan, n - 1 \in T PROVE n \in T
      BY <1>2, <1>5, <1>7, <2>2
    <2>. HIDE DEF T
    <2>3. \A n \in 0 .. MaxEpochScan : n \in T
      BY <1>2, <2>1, <2>2, Counting
    <2>. QED
      BY <2>3 DEF T
  <1>. QED
    BY <1>4, <1>7, <1>8, <1>9

\* epochFromSeedHash finds the epoch of a seed, and no other.
LEMMA EpochOfSeed ==
  ASSUME NEW seed
  PROVE  /\ EpochOf(seed) > 0 => seed = Seed[EpochOf(seed)]
         /\ \A e \in EpochNumber : SeedsDiffer /\ seed = Seed[e] => EpochOf(seed) = e
  <1>1. Scan(seed) \subseteq Nat /\ Scan(seed) = {e \in EpochNumber : Seed[e] = seed}
    BY PreparationAssumption DEF Scan, EpochNumber
  <1>2. CASE Scan(seed) = {}
    BY <1>1, <1>2 DEF EpochOf
  <1>3. CASE Scan(seed) # {}
    <2>1. \E e \in Scan(seed) : \A f \in Scan(seed) : e <= f
      BY <1>1, <1>3, LeastExists
    <2>2. EpochOf(seed) \in Scan(seed)
      BY <1>3, <2>1 DEF EpochOf
    <2>. QED
      BY <1>1, <2>2 DEF SeedsDiffer
  <1>. QED
    BY <1>2, <1>3

\* The seed of a scanned epoch gives the job this epoch, and an epoch other than 0 comes
\* from its seed (ethash.cpp epochFromSeedHash, stratum_client.cpp processNotification).
THEOREM EpochBelongsToSeedHolds == ASSUME SeedsDiffer PROVE Spec => []EpochBelongsToSeed
  <1>1. TextInv => EpochBelongsToSeed
    <2>. SUFFICES ASSUME TextInv PROVE EpochBelongsToSeed
      OBVIOUS
    <2>1. job.epoch # NoEpoch => job.epoch = EpochOf(job.seed)
      BY DEF TextInv
    <2>2. ASSUME NEW e \in 0 .. MaxEpochScan - 1, WellFormed(texts.seed),
                 NumberOfText(texts.seed) = NumberOfHash(Seed[e]), job.epoch # NoEpoch
          PROVE  job.epoch = e
      <3>1. texts.seed \in Seq(Char) /\ job.seed = HashOfText(texts.seed)
        BY <2>2 DEF TextInv, HashIsRead
      <3>2. job.seed \in Hash /\ NumberOfHash(job.seed) = NumberOfHash(Seed[e])
        BY <2>2, <3>1, HashOfTextType, NumberOfHashOfText
      <3>3. e \in EpochNumber /\ Seed[e] \in Hash
        <4>1. e \in EpochNumber /\ e \in 0 .. MaxEpochScan
          BY PreparationAssumption DEF EpochNumber
        <4>. QED
          BY <4>1, SeedType
      <3>4. job.seed = Seed[e]
        BY <3>2, <3>3, NumberDeterminesHash
      <3>. QED
        BY <2>1, <2>2, <3>3, <3>4, EpochOfSeed
    <2>3. job.epoch > 0 => job.seed = Seed[job.epoch]
      BY <2>1, EpochOfSeed DEF NoEpoch
    <2>. QED
      BY <2>2, <2>3 DEF EpochBelongsToSeed
  <1>. QED
    BY <1>1, TextInvariant, PTL
=============================================================================
