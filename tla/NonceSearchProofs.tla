--------------------------- MODULE NonceSearchProofs ---------------------------
(***************************************************************************)
(* SearchKernel implements NonceSearch: whatever the order in which the    *)
(* threads find and write, a search delivers different solutions of the    *)
(* nonces it tests, all of them if they fit the buffer.                    *)
(*                                                                         *)
(* The argument.  A grid whose threads and nonces fit a word gives no      *)
(* nonce to two threads, so that each solution is counted once: the        *)
(* counter is the number of solutions found so far, those in the buffer    *)
(* are different, and one that is about to be written is not there yet.    *)
(* When all threads are done they have found every solution.               *)
(***************************************************************************)
EXTENDS SearchKernelProofs

\* The ranges are small enough for the 32-bit product of thread number and nonces per
\* thread, with up to one block too many; the engine asks for 10 million nonces
\* (mining_engine.cpp:270).
RangesFit ==
    \A count \in Counts : /\ count + MaxPer * OptBlock <= WordMod
                          /\ count + BaseBlock <= WordMod

Fits == threads * Per <= WordMod

-----------------------------------------------------------------------------
(* The grid.                                                               *)

LEMMA Floor ==
  \A x \in Int, b \in Nat \ {0} : x \div b \in Int /\ b * (x \div b) <= x
  <1>. TAKE x \in Int, b \in Nat \ {0}
  <1>. DEFINE q == x \div b
              r == x % b
  <1>1. q \in Int /\ r \in 0 .. b - 1 /\ x = b * q + r
    OBVIOUS
  <1>2. b * q \in Int
    BY <1>1
  <1>. HIDE DEF q, r
  <1>3. b * q <= x
    BY <1>1, <1>2
  <1>. QED
    BY <1>1, <1>3 DEF q

LEMMA ResidueNoMore == \A m \in Nat \ {0}, x \in Nat : x % m \in Nat /\ x % m <= x
  <1>. TAKE m \in Nat \ {0}, x \in Nat
  <1>1. x % m \in 0 .. m - 1
    OBVIOUS
  <1>2. CASE x < m
    BY <1>1, <1>2, ResidueBelow
  <1>3. CASE x >= m
    BY <1>1, <1>3
  <1>. QED
    BY <1>2, <1>3

\* One period below zero.
LEMMA ResidueNegative == \A m \in Nat \ {0}, x \in Int : -m <= x /\ x < 0 => x % m = x + m
  <1>. SUFFICES ASSUME NEW m \in Nat \ {0}, NEW x \in Int, -m <= x, x < 0 PROVE x % m = x + m
    OBVIOUS
  <1>. DEFINE q == x \div m
              r == x % m
  <1>1. q \in Int /\ r \in 0 .. m - 1 /\ x = m * q + r
    OBVIOUS
  <1>. HIDE DEF q, r
  <1>2. CASE q = -1
    BY <1>1, <1>2 DEF r
  <1>3. CASE q >= 0
    <2>1. m * q \in Nat
      BY <1>1, <1>3, ProductIsNatural
    <2>. QED
      BY <1>1, <2>1
  <1>4. CASE q <= -2
    <2>1. 2 * m <= (-q) * m /\ (-q) * m = -(m * q) /\ m * q \in Int
      BY <1>1, <1>4, ProductGrows
    <2>. QED
      BY <1>1, <2>1
  <1>. QED
    BY <1>1, <1>2, <1>3, <1>4

\* The conversion to int adds nothing to a number that is not below its range.
LEMMA ToIntNoMore ==
  ASSUME NEW x \in Int, IntMax + 1 - WordMod <= x
  PROVE  ToInt(x) \in Int /\ IntMax + 1 - WordMod <= ToInt(x) /\ ToInt(x) <= x
  <1>1. WordMod \in Nat \ {0} /\ IntMax \in Nat /\ IntMax < WordMod
    BY IntRange, Widths
  <1>2. x % WordMod \in 0 .. WordMod - 1
    BY <1>1
  <1>3. ToInt(x) = IF x % WordMod > IntMax THEN (x % WordMod) - WordMod
                   ELSE x % WordMod
    BY DEF ToInt
  <1>4. CASE x >= 0
    <2>1. x % WordMod <= x
      BY <1>1, <1>4, ResidueNoMore
    <2>. QED
      BY <1>1, <1>2, <1>3, <1>4, <2>1
  <1>5. CASE x < 0
    <2>1. x % WordMod = x + WordMod
      BY <1>1, <1>5, ResidueNegative
    <2>. QED
      BY <1>1, <1>2, <1>3, <1>5, <2>1
  <1>. QED
    BY <1>4, <1>5

\* No launch starts more threads than a word can number the nonces of.
LEMMA GridFits ==
  ASSUME RangesFit, env \in [optimized : BOOLEAN, per : 1 .. MaxPer],
         NEW count \in Counts, NEW n \in Grids(count), n > 0
  PROVE  n \in Nat /\ n * Per <= WordMod
  <1>1. /\ count \in Nat /\ WordMod \in Nat /\ NonceMod \in Nat \ {0}
        /\ BaseBlock \in Nat \ {0} /\ OptBlock \in Nat \ {0} /\ MaxPer \in Nat \ {0}
        /\ IntMax \in Nat /\ IntMax < WordMod
    BY KernelAssumption, IntRange, Widths DEF Nonce
  <1>2. CASE Variant = "base"
    <2>. DEFINE s == (count + BaseBlock - 1) % NonceMod
                q == s \div BaseBlock
    <2>1. Per = 1
      BY <1>2 DEF Per
    <2>2. s \in Nat /\ s <= count + BaseBlock - 1
      <3>1. count + BaseBlock - 1 \in Nat
        BY <1>1
      <3>. QED
        BY <1>1, <3>1, ResidueNoMore
    <2>. HIDE DEF s
    <2>3. q \in Nat /\ BaseBlock * q <= s
      BY <1>1, <2>2, Floor
    <2>4. n = BaseBlock * ToInt(q)
      BY <1>2 DEF Grids, s
    <2>. HIDE DEF q
    <2>5. ToInt(q) \in Int /\ ToInt(q) <= q
      BY <1>1, <2>3, ToIntNoMore
    <2>6. ToInt(q) \in Nat
      <3>1. SUFFICES ASSUME ToInt(q) < 0 PROVE FALSE
        BY <2>5
      <3>2. -ToInt(q) \in Nat
        BY <2>5, <3>1
      <3>3. BaseBlock * (-ToInt(q)) \in Nat /\ BaseBlock * (-ToInt(q)) = -n
        BY <1>1, <2>4, <2>5, <3>2, ProductIsNatural
      <3>4. n \in Int
        BY <1>1, <2>4, <2>5
      <3>. QED
        BY <3>3, <3>4
    <2>7. /\ ToInt(q) * BaseBlock <= q * BaseBlock
          /\ ToInt(q) * BaseBlock = n /\ q * BaseBlock = BaseBlock * q
          /\ n \in Nat /\ BaseBlock * q \in Nat
      BY <1>1, <2>3, <2>4, <2>5, <2>6, ProductGrows, ProductIsNatural
    <2>8. count + BaseBlock <= WordMod
      BY DEF RangesFit
    <2>9. n <= WordMod
      BY <1>1, <2>2, <2>3, <2>7, <2>8
    <2>. QED
      BY <2>1, <2>7, <2>9
  <1>3. CASE Variant # "base"
    <2>1. /\ Per = env.per /\ Per \in Nat \ {0} /\ Per <= MaxPer
      BY <1>3, Widths DEF Per, Variant
    <2>. DEFINE s == (count + Per - 1) % NonceMod
                q == s \div Per
                y == ToInt(q)
    <2>2. s \in Nat /\ s <= count + Per - 1
      <3>1. count + Per - 1 \in Nat
        BY <1>1, <2>1
      <3>. QED
        BY <1>1, <3>1, ResidueNoMore
    <2>3. PICK b \in BlocksFor(y, OptBlock) : n = OptBlock * b
      BY <1>3, <2>1 DEF Grids
    <2>. HIDE DEF s
    <2>4. q \in Nat /\ Per * q <= s
      BY <2>1, <2>2, Floor
    <2>. HIDE DEF q
    <2>5. y \in Int /\ y <= q /\ IntMax + 1 - WordMod <= y
      BY <1>1, <2>4, ToIntNoMore
    <2>. HIDE DEF y
    <2>6. PICK z \in {ToInt(y + OptBlock - 1), y + OptBlock - 1} : b = z \div OptBlock
      BY <2>3 DEF BlocksFor
    <2>7. z \in Int /\ z <= y + OptBlock - 1
      <3>1. y + OptBlock - 1 \in Int /\ IntMax + 1 - WordMod <= y + OptBlock - 1
        BY <1>1, <2>5
      <3>. QED
        BY <2>6, <3>1, ToIntNoMore
    <2>8. b \in Int /\ OptBlock * b <= z
      BY <1>1, <2>6, <2>7, Floor
    <2>9. n \in Nat /\ n <= q + (OptBlock - 1)
      <3>1. n \in Int
        BY <1>1, <2>3, <2>8
      <3>2. n <= z
        BY <2>3, <2>8
      <3>. QED
        BY <1>1, <2>4, <2>5, <2>7, <3>1, <3>2
    <2>10. n * Per <= (q + (OptBlock - 1)) * Per
      BY <1>1, <2>1, <2>4, <2>9, ProductGrows
    <2>11. (q + (OptBlock - 1)) * Per = Per * q + (OptBlock * Per - Per)
      BY <1>1, <2>1, <2>4
    <2>12. Per * OptBlock <= MaxPer * OptBlock /\ Per * OptBlock = OptBlock * Per
      BY <1>1, <2>1, ProductGrows
    <2>13. count + MaxPer * OptBlock <= WordMod
      BY DEF RangesFit
    <2>14. /\ n * Per \in Nat /\ Per * q \in Nat /\ OptBlock * Per \in Nat
           /\ MaxPer * OptBlock \in Nat
      BY <1>1, <2>1, <2>4, <2>9, ProductIsNatural
    <2>. QED
      BY <1>1, <2>1, <2>2, <2>4, <2>9, <2>10, <2>11, <2>12, <2>13, <2>14
  <1>. QED
    BY <1>2, <1>3

-----------------------------------------------------------------------------
(* No nonce has two testers.                                               *)

LEMMA KernelNumbers ==
  ASSUME TypeOK
  PROVE  /\ Per \in Nat \ {0} /\ threads \in Nat /\ NonceMod \in Nat \ {0}
         /\ WordMod \in Nat \ {0} /\ WordMod <= NonceMod
         /\ call.start \in Nat /\ call.start < NonceMod
         /\ call.count \in Nat /\ call.count < NonceMod
         /\ threads * Per \in Nat
  <1>1. /\ Per \in Nat \ {0} /\ threads \in Nat /\ NonceMod \in Nat \ {0}
        /\ WordMod \in Nat \ {0} /\ WordMod <= NonceMod
        /\ call.start \in Nat /\ call.start < NonceMod
        /\ call.count \in Nat /\ call.count < NonceMod
    BY PerType, Widths, IntRange DEF TypeOK, Nonce
  <1>. QED
    BY <1>1, ProductIsNatural

\* Within a period different numbers have different residues.
LEMMA ResiduesDiffer ==
  \A m \in Nat \ {0}, s, i, j \in Nat :
     s < m /\ i < m /\ j < m /\ (s + i) % m = (s + j) % m => i = j
  <1>. TAKE m \in Nat \ {0}, s, i, j \in Nat
  <1>. HAVE s < m /\ i < m /\ j < m /\ (s + i) % m = (s + j) % m
  <1>. DEFINE x == s + i
              y == s + j
  <1>1. /\ (s + i) % m = IF s + i < m THEN s + i ELSE s + i - m
        /\ (s + j) % m = IF s + j < m THEN s + j ELSE s + j - m
    <2>1. x \in Nat /\ x < 2 * m /\ y \in Nat /\ y < 2 * m
      OBVIOUS
    <2>. HIDE DEF x, y
    <2>2. x % m = (IF x < m THEN x ELSE x - m) /\ y % m = (IF y < m THEN y ELSE y - m)
      BY <2>1, ResidueAround
    <2>. QED
      BY <2>2 DEF x, y
  <1>. QED
    BY <1>1

\* The place of a thread's nonce in the range of the grid.
LEMMA NoncePlace ==
  ASSUME TypeOK, Fits, NEW t \in Threads, NEW o \in 0 .. Per - 1
  PROVE  /\ t \in Nat /\ o \in Nat /\ t * Per \in Nat
         /\ t * Per + o < threads * Per
         /\ NonceOf(t, o) = (call.start + (t * Per + o)) % NonceMod
  <1>1. t \in Nat /\ t + 1 <= threads /\ o \in Nat /\ o < Per
    BY KernelNumbers DEF Threads
  <1>2. (t + 1) * Per <= threads * Per /\ (t + 1) * Per = t * Per + Per /\ t * Per \in Nat
    BY <1>1, KernelNumbers, ProductGrows, ProductIsNatural
  <1>3. t * Per + o < threads * Per
    BY <1>1, <1>2, KernelNumbers
  <1>4. (t * Per) % WordMod = t * Per
    <2>1. t * Per < WordMod
      BY <1>1, <1>2, KernelNumbers DEF Fits
    <2>. QED
      BY <1>2, <2>1, KernelNumbers, ResidueBelow
  <1>5. call.start + t * Per + o = call.start + (t * Per + o)
    BY <1>1, <1>2, KernelNumbers
  <1>. QED
    BY <1>1, <1>2, <1>3, <1>4, <1>5 DEF NonceOf

LEMMA NoncesDiffer ==
  ASSUME TypeOK, Fits, NEW t \in Threads, NEW u \in Threads,
         NEW o \in 0 .. Per - 1, NEW p \in 0 .. Per - 1, NonceOf(t, o) = NonceOf(u, p)
  PROVE  t = u /\ o = p
  <1>. DEFINE i == t * Per + o
              j == u * Per + p
  <1>1. /\ t \in Nat /\ u \in Nat /\ o \in Nat /\ p \in Nat /\ o < Per /\ p < Per
        /\ t * Per \in Nat /\ u * Per \in Nat
        /\ i < threads * Per /\ j < threads * Per
        /\ (call.start + i) % NonceMod = (call.start + j) % NonceMod
    BY NoncePlace, KernelNumbers
  <1>2. i = j
    <2>1. i \in Nat /\ j \in Nat /\ i < NonceMod /\ j < NonceMod
      BY <1>1, KernelNumbers DEF Fits
    <2>. HIDE DEF i, j
    <2>. QED
      BY <1>1, <2>1, KernelNumbers, ResiduesDiffer
  <1>3. \A a, b \in Nat : a < b => a * Per + Per <= b * Per
    <2>. TAKE a, b \in Nat
    <2>. HAVE a < b
    <2>1. (a + 1) * Per <= b * Per /\ (a + 1) * Per = a * Per + Per
      BY KernelNumbers, ProductGrows
    <2>. QED
      BY <2>1
  <1>4. ~(t < u)
    <2>1. SUFFICES ASSUME t < u PROVE FALSE
      OBVIOUS
    <2>2. t * Per + Per <= u * Per
      BY <1>1, <1>3, <2>1
    <2>. QED
      BY <1>1, <1>2, <2>2, KernelNumbers
  <1>5. ~(u < t)
    <2>1. SUFFICES ASSUME u < t PROVE FALSE
      OBVIOUS
    <2>2. u * Per + Per <= t * Per
      BY <1>1, <1>3, <2>1
    <2>. QED
      BY <1>1, <1>2, <2>2, KernelNumbers
  <1>6. t = u
    BY <1>1, <1>4, <1>5
  <1>. QED
    BY <1>1, <1>2, <1>6

-----------------------------------------------------------------------------
(* The solutions found so far.                                             *)

\* Those the threads have passed on their way.
Passed == {w \in Work : w[2] < at[w[1]]}
Found == {NonceOf(w[1], w[2]) : w \in Passed} \cap Solving

\* What a thread with a slot is about to write.
Pending(t) == NonceOf(t, at[t] - 1)

\* The counter counts them; those in the buffer are different; and one that is about
\* to be written is not there yet.
FoundInv ==
    /\ IsFiniteSet(Found) /\ counter = Cardinality(Found)
    /\ \A s \in Slot : buffer[s] # Garbage => buffer[s] \in Found
    /\ \A s, r \in Slot : buffer[s] = buffer[r] /\ s # r => buffer[s] = Garbage
    /\ \A t \in Threads : slot[t] # NoSlot =>
          /\ at[t] >= 1 /\ Pending(t) \in Solving
          /\ \A s \in Slot : buffer[s] # Pending(t)

PromiseInv == KernelInv /\ Fits /\ FoundInv

FoundMeans ==
    \A n : n \in Found <=> /\ n \in Solving
                           /\ \E t \in Threads, o \in 0 .. Per - 1 : o < at[t] /\ n = NonceOf(t, o)

LEMMA InFound == FoundMeans
  <1>. SUFFICES ASSUME NEW n
                PROVE  n \in Found <=> /\ n \in Solving
                                       /\ \E t \in Threads, o \in 0 .. Per - 1 :
                                            o < at[t] /\ n = NonceOf(t, o)
    BY DEF FoundMeans
  <1>1. ASSUME n \in Found
        PROVE  /\ n \in Solving
               /\ \E t \in Threads, o \in 0 .. Per - 1 : o < at[t] /\ n = NonceOf(t, o)
    <2>1. PICK w \in Work : w[2] < at[w[1]] /\ n = NonceOf(w[1], w[2])
      BY <1>1 DEF Found, Passed
    <2>2. w[1] \in Threads /\ w[2] \in 0 .. Per - 1
      BY <2>1 DEF Work
    <2>. QED
      BY <1>1, <2>1, <2>2 DEF Found
  <1>2. ASSUME n \in Solving, NEW t \in Threads, NEW o \in 0 .. Per - 1,
               o < at[t], n = NonceOf(t, o)
        PROVE  n \in Found
    <2>1. <<t, o>> \in Passed /\ <<t, o>>[1] = t /\ <<t, o>>[2] = o
      BY <1>2 DEF Passed, Work
    <2>. QED
      BY <1>2, <2>1 DEF Found
  <1>. QED
    BY <1>1, <1>2

\* A thread's pending solution has been found, and is no other thread's.
LEMMA PendingFound ==
  ASSUME PromiseInv, NEW t \in Threads, slot[t] # NoSlot
  PROVE  /\ Pending(t) \in Found /\ at[t] - 1 \in 0 .. Per - 1
         /\ \A u \in Threads : slot[u] # NoSlot /\ Pending(u) = Pending(t) => u = t
  <1>1. TypeOK /\ Fits
    BY DEF PromiseInv, KernelInv
  <1>2. \A u \in Threads : slot[u] # NoSlot => at[u] \in Nat /\ at[u] - 1 \in 0 .. Per - 1
    <2>. SUFFICES ASSUME NEW u \in Threads, slot[u] # NoSlot
                  PROVE  at[u] \in Nat /\ at[u] - 1 \in 0 .. Per - 1
      OBVIOUS
    <2>1. at[u] \in 0 .. Per
      BY <1>1 DEF TypeOK
    <2>2. at[u] >= 1
      BY DEF PromiseInv, FoundInv
    <2>3. Per \in Nat
      BY <1>1, KernelNumbers
    <2>. QED
      BY <2>1, <2>2, <2>3
  <1>3. Pending(t) \in Found
    <2>1. at[t] - 1 < at[t] /\ Pending(t) \in Solving
      BY <1>2 DEF PromiseInv, FoundInv
    <2>. QED
      BY <1>2, <2>1, InFound DEF FoundMeans, Pending
  <1>4. ASSUME NEW u \in Threads, slot[u] # NoSlot, Pending(u) = Pending(t) PROVE u = t
    BY <1>1, <1>2, <1>4, NoncesDiffer DEF Pending
  <1>. QED
    BY <1>2, <1>3, <1>4

\* With no thread there is nothing found.
LEMMA NothingFound == threads = 0 => Found = {}
  <1>. SUFFICES ASSUME threads = 0 PROVE Found = {}
    OBVIOUS
  <1>1. Threads = {}
    BY DEF Threads
  <1>. QED
    BY <1>1, InFound DEF FoundMeans

LEMMA InitPromise == Init => Fits /\ FoundInv
  <1>. SUFFICES ASSUME Init PROVE Fits /\ FoundInv
    OBVIOUS
  <1>1. threads = 0 /\ Threads = {}
    BY DEF Init, Threads
  <1>2. Per \in Nat /\ WordMod \in Nat
    BY PerType, Widths DEF Init
  <1>3. Fits
    BY <1>1, <1>2 DEF Fits
  <1>4. Found = {}
    BY <1>1, NothingFound
  <1>. QED
    BY <1>1, <1>3, <1>4, FS_EmptySet DEF Init, FoundInv

LEMMA LaunchPromise ==
  ASSUME RangesFit, PromiseInv, NEW start \in Starts, NEW count \in Counts, Launch(start, count)
  PROVE  Fits' /\ FoundInv'
  <1>1. PICK n \in Grids(count) :
          /\ threads' = IF n > 0 THEN n ELSE 0
          /\ at' = [t \in 0 .. n - 1 |-> 0]
          /\ slot' = [t \in 0 .. n - 1 |-> NoSlot]
    BY DEF Launch
  <1>2. /\ env' = env /\ counter' = 0 /\ buffer' = [s \in Slot |-> Garbage]
        /\ env \in [optimized : BOOLEAN, per : 1 .. MaxPer]
    BY DEF Launch, PromiseInv, KernelInv, TypeOK
  <1>3. Per' = Per /\ Per \in Nat /\ WordMod \in Nat
    BY <1>2, PerType, Widths DEF Per, Variant
  <1>4. n \in Int
    BY <1>2, GridsType, KernelAssumption
  <1>5. Fits'
    <2>1. CASE n > 0
      BY <1>1, <1>2, <1>3, <2>1, GridFits DEF Fits
    <2>2. CASE ~(n > 0)
      <3>1. threads' = 0
        BY <1>1, <2>2
      <3>. QED
        BY <1>3, <3>1 DEF Fits
    <2>. QED
      BY <2>1, <2>2
  <1>6. \A t \in Threads' : at'[t] = 0 /\ slot'[t] = NoSlot
    <2>1. Threads' \subseteq 0 .. n - 1
      BY <1>1, <1>4 DEF Threads
    <2>. QED
      BY <1>1, <2>1
  <1>7. Passed' = {}
    <2>. SUFFICES ASSUME NEW w \in Passed' PROVE FALSE
      OBVIOUS
    <2>1. w[1] \in Threads' /\ w[2] \in 0 .. Per - 1 /\ w[2] < at'[w[1]]
      BY <1>3 DEF Passed, Work
    <2>. QED
      BY <1>3, <1>6, <2>1
  <1>8. Found' = {}
    BY <1>7 DEF Found
  <1>9. \A t \in Threads' : ~(slot'[t] # NoSlot)
    BY <1>6
  <1>. QED
    BY <1>2, <1>5, <1>8, <1>9, FS_EmptySet DEF FoundInv

\* A step of a thread changes neither the grid nor the nonces.
LEMMA SameNonces ==
  ASSUME UNCHANGED <<env, call, threads>>
  PROVE  /\ Threads' = Threads /\ Per' = Per
         /\ Fits' = Fits
         /\ \A t, o : NonceOf(t, o)' = NonceOf(t, o)
  BY DEF Threads, Per, Variant, NonceOf, Fits

\* A solution that is claimed has not been found before.
LEMMA ClaimPromise ==
  ASSUME PromiseInv, NEW t \in Threads, NEW o \in 0 .. Per - 1, Claim(t, o)
  PROVE  Fits' /\ FoundInv'
  <1>. DEFINE new == NonceOf(t, o)
  <1>1. /\ slot[t] = NoSlot /\ slot' = [slot EXCEPT ![t] = counter]
        /\ counter' = counter + 1 /\ at' = [at EXCEPT ![t] = o + 1]
        /\ UNCHANGED <<env, call, threads, buffer>>
    BY DEF Claim, launchVars
  <1>2. /\ o >= at[t] /\ new \in Solving
        /\ \A p \in at[t] .. o - 1 : NonceOf(t, p) \notin Solving
    BY DEF Claim, NextHit
  <1>3. /\ TypeOK /\ Fits /\ at \in [Threads -> 0 .. Per] /\ Per \in Nat
        /\ slot \in [Threads -> {NoSlot} \cup Nat] /\ counter \in Nat
    BY KernelNumbers DEF PromiseInv, KernelInv, TypeOK
  <1>4. /\ Threads' = Threads /\ Per' = Per /\ Fits'
        /\ \A u, p : NonceOf(u, p)' = NonceOf(u, p)
    BY <1>1, <1>3, SameNonces
  <1>5. at'[t] = o + 1 /\ \A u \in Threads : u # t => at'[u] = at[u]
    BY <1>1, <1>3
  <1>6. new \notin Found
    <2>1. SUFFICES ASSUME NEW u \in Threads, NEW p \in 0 .. Per - 1, p < at[u],
                          new = NonceOf(u, p)
                   PROVE  FALSE
      BY InFound DEF FoundMeans
    <2>2. u = t /\ p = o
      BY <1>3, <2>1, NoncesDiffer
    <2>. QED
      BY <1>2, <1>3, <2>1, <2>2
  <1>7. Found' = Found \cup {new}
    <2>1. ASSUME NEW n \in Found' PROVE n \in Found \cup {new}
      <3>1. n \in Solving
            /\ \E u \in Threads, p \in 0 .. Per - 1 : p < at'[u] /\ n = NonceOf(u, p)
        <4>1. FoundMeans'
          BY InFound, PTL
        <4>. QED
          BY <1>4, <2>1, <4>1 DEF FoundMeans
      <3>2. PICK u \in Threads, p \in 0 .. Per - 1 : p < at'[u] /\ n = NonceOf(u, p)
        BY <3>1
      <3>3. CASE u # t \/ p < at[t]
        <4>1. p < at[u]
          BY <1>5, <3>2, <3>3
        <4>. QED
          BY <3>1, <3>2, <4>1, InFound DEF FoundMeans
      <3>4. CASE u = t /\ ~(p < at[t])
        <4>1. p \in at[t] .. o
          BY <1>3, <1>5, <3>2, <3>4
        <4>2. p = o
          BY <1>2, <1>3, <3>1, <3>2, <3>4, <4>1
        <4>. QED
          BY <3>2, <3>4, <4>2
      <3>. QED
        BY <3>3, <3>4
    <2>2. ASSUME NEW n \in Found \cup {new} PROVE n \in Found'
      <3>1. n \in Solving
            /\ \E u \in Threads, p \in 0 .. Per - 1 : p < at'[u] /\ n = NonceOf(u, p)
        <4>1. CASE n \in Found
          <5>1. PICK u \in Threads, p \in 0 .. Per - 1 : p < at[u] /\ n = NonceOf(u, p)
            BY <4>1, InFound DEF FoundMeans
          <5>2. p < at'[u]
            BY <1>2, <1>3, <1>5, <5>1
          <5>. QED
            BY <4>1, <5>1, <5>2, InFound DEF FoundMeans
        <4>2. CASE n = new
          <5>1. o < at'[t]
            BY <1>5
          <5>. QED
            BY <1>2, <4>2, <5>1
        <4>. QED
          BY <2>2, <4>1, <4>2
      <3>2. FoundMeans'
        BY InFound, PTL
      <3>. QED
        BY <1>4, <3>1, <3>2 DEF FoundMeans
    <2>. QED
      BY <2>1, <2>2
  <1>. HIDE DEF new
  <1>8. IsFiniteSet(Found') /\ counter' = Cardinality(Found')
    BY <1>1, <1>6, <1>7, FS_AddElement DEF PromiseInv, FoundInv
  <1>9. \A s \in Slot : buffer'[s] # Garbage => buffer'[s] \in Found'
    BY <1>1, <1>7 DEF PromiseInv, FoundInv
  <1>10. \A s, r \in Slot : buffer'[s] = buffer'[r] /\ s # r => buffer'[s] = Garbage
    BY <1>1 DEF PromiseInv, FoundInv
  <1>11. ASSUME NEW u \in Threads', slot'[u] # NoSlot
         PROVE  /\ at'[u] >= 1 /\ Pending(u)' \in Solving
                /\ \A s \in Slot : buffer'[s] # Pending(u)'
    <2>1. CASE u = t
      <3>1. at'[t] >= 1 /\ at'[t] - 1 = o
        BY <1>5
      <3>2. Pending(u)' = new
        BY <1>4, <2>1, <3>1 DEF Pending, new
      <3>3. new \in Nonce
        BY <1>3, NonceOfType DEF new
      <3>. QED
        BY <1>1, <1>2, <1>6, <2>1, <3>1, <3>2, <3>3, KernelAssumption
        DEF PromiseInv, FoundInv, new
    <2>2. CASE u # t
      <3>1. u \in Threads /\ slot[u] # NoSlot /\ at'[u] = at[u]
        BY <1>1, <1>3, <1>4, <1>5, <1>11, <2>2
      <3>2. Pending(u)' = Pending(u)
        BY <1>4, <3>1 DEF Pending
      <3>. QED
        BY <1>1, <3>1, <3>2 DEF PromiseInv, FoundInv
    <2>. QED
      BY <2>1, <2>2
  <1>. QED
    BY <1>4, <1>8, <1>9, <1>10, <1>11 DEF FoundInv, Slot

\* A step that leaves the grid and the threads' progress alone finds nothing.
LEMMA SameFound ==
  ASSUME UNCHANGED <<env, call, threads, at>>
  PROVE  Found' = Found /\ \A t : Pending(t)' = Pending(t)
  BY DEF Found, Passed, Work, Threads, Per, Variant, NonceOf, Pending

\* The solution that is written is not yet in the buffer, and is nobody else's.
LEMMA StorePromise ==
  ASSUME PromiseInv, NEW t \in Threads, Store(t)
  PROVE  Fits' /\ FoundInv'
  <1>1. /\ slot[t] # NoSlot /\ slot' = [slot EXCEPT ![t] = NoSlot]
        /\ buffer' = IF slot[t] < MaxSolutions
                     THEN [buffer EXCEPT ![slot[t]] = Pending(t)] ELSE buffer
        /\ UNCHANGED <<env, call, threads, at, counter>>
    BY DEF Store, launchVars, Pending
  <1>2. /\ slot \in [Threads -> {NoSlot} \cup Nat] /\ buffer \in [Slot -> Nonce \cup {Garbage}]
        /\ Fits
    BY DEF PromiseInv, KernelInv, TypeOK
  <1>3. /\ Threads' = Threads /\ Fits' /\ Found' = Found
        /\ \A u : Pending(u)' = Pending(u)
    BY <1>1, <1>2, SameNonces, SameFound
  <1>4. /\ Pending(t) \in Found
        /\ \A u \in Threads : slot[u] # NoSlot /\ Pending(u) = Pending(t) => u = t
        /\ \A s \in Slot : buffer[s] # Pending(t)
    BY <1>1, PendingFound DEF PromiseInv, FoundInv
  <1>5. \A s \in Slot : buffer'[s] = buffer[s] \/ (s = slot[t] /\ buffer'[s] = Pending(t))
    BY <1>1, <1>2
  <1>6. slot'[t] = NoSlot /\ \A u \in Threads : u # t => slot'[u] = slot[u]
    BY <1>1, <1>2
  <1>7. \A s \in Slot : buffer'[s] # Garbage => buffer'[s] \in Found'
    BY <1>3, <1>4, <1>5 DEF PromiseInv, FoundInv
  <1>8. \A s, r \in Slot : buffer'[s] = buffer'[r] /\ s # r => buffer'[s] = Garbage
    BY <1>4, <1>5 DEF PromiseInv, FoundInv
  <1>9. ASSUME NEW u \in Threads', slot'[u] # NoSlot
        PROVE  /\ at'[u] >= 1 /\ Pending(u)' \in Solving
               /\ \A s \in Slot : buffer'[s] # Pending(u)'
    <2>1. u \in Threads /\ u # t /\ slot[u] # NoSlot
      BY <1>3, <1>6, <1>9
    <2>2. Pending(u) # Pending(t)
      BY <1>4, <2>1
    <2>. QED
      BY <1>1, <1>3, <1>5, <2>1, <2>2 DEF PromiseInv, FoundInv
  <1>. QED
    BY <1>1, <1>3, <1>7, <1>8, <1>9 DEF PromiseInv, FoundInv, Slot

LEMMA NextPromise == RangesFit /\ PromiseInv /\ [Next]_vars => PromiseInv'
  <1>. SUFFICES ASSUME RangesFit, PromiseInv, [Next]_vars PROVE PromiseInv'
    OBVIOUS
  <1>1. KernelInv'
    BY NextInv DEF PromiseInv
  <1>2. ASSUME UNCHANGED <<env, call, threads, at, slot, counter, buffer>>
        PROVE  Fits' /\ FoundInv'
    BY <1>2, SameNonces, SameFound DEF PromiseInv, FoundInv, Slot
  <1>3. CASE Collect \/ Throw \/ UNCHANGED vars
    <2>1. UNCHANGED <<env, call, threads, at, slot, counter, buffer>>
      BY <1>3 DEF Collect, Throw, vars, launchVars, kernelVars
    <2>. QED
      BY <1>1, <1>2, <2>1 DEF PromiseInv
  <1>4. CASE Kernel
    BY <1>1, <1>4, ClaimPromise, StorePromise DEF Kernel, PromiseInv
  <1>. QED
    BY <1>1, <1>3, <1>4, LaunchPromise DEF Next, Thrown, PromiseInv

LEMMA PromiseInvariant == ASSUME RangesFit PROVE Spec => []PromiseInv
  <1>1. Init => PromiseInv
    BY InitInv, InitPromise DEF PromiseInv
  <1>. QED
    BY <1>1, NextPromise, PTL DEF Spec

-----------------------------------------------------------------------------
(* The promise.                                                            *)

\* The largest range that is served completely whatever kernel is launched.
AlwaysServed == IntMax + 1 - (IF BaseBlock < OptBlock THEN OptBlock ELSE BaseBlock)

\* As many nonces are asked for as the caller says.
LEMMA AskedCount ==
  ASSUME TypeOK
  PROVE  Asked \subseteq Nonce /\ IsFiniteSet(Asked) /\ Cardinality(Asked) = call.count
  <1>. DEFINE C == call.count
              f == [i \in 0 .. C - 1 |-> (call.start + i) % NonceMod]
  <1>1. C \in Nat /\ C < NonceMod /\ NonceMod \in Nat \ {0}
        /\ call.start \in Nat /\ call.start < NonceMod
    BY KernelNumbers
  <1>2. Asked = {(call.start + i) % NonceMod : i \in 0 .. C - 1}
    BY DEF Asked
  <1>3. Asked \subseteq Nonce
    <2>1. ASSUME NEW i \in 0 .. C - 1 PROVE (call.start + i) % NonceMod \in Nonce
      <3>1. call.start + i \in Nat
        BY <1>1
      <3>. QED
        BY <1>1, <3>1 DEF Nonce
    <2>. QED
      BY <1>2, <2>1
  <1>. HIDE DEF C
  <1>4. f \in [0 .. C - 1 -> Asked] /\ \A a \in Asked : \E i \in 0 .. C - 1 : f[i] = a
    BY <1>2
  <1>5. ASSUME NEW i \in 0 .. C - 1, NEW j \in 0 .. C - 1, f[i] = f[j] PROVE i = j
    <2>1. (call.start + i) % NonceMod = (call.start + j) % NonceMod
      BY <1>5
    <2>2. i \in Nat /\ j \in Nat /\ i < NonceMod /\ j < NonceMod
      BY <1>1
    <2>. HIDE DEF f
    <2>. QED
      BY <1>1, <2>1, <2>2, ResiduesDiffer
  <1>. HIDE DEF f
  <1>6. f \in Bijection(0 .. C - 1, Asked)
    BY <1>4, <1>5, Fun_IsBij
  <1>7. IsFiniteSet(0 .. C - 1) /\ Cardinality(0 .. C - 1) = C
    <2>1. C - 1 \in Int /\ 0 \in Int
      BY <1>1
    <2>2. /\ IsFiniteSet(0 .. C - 1)
          /\ Cardinality(0 .. C - 1) = IF 0 > C - 1 THEN 0 ELSE C - 1 - 0 + 1
      BY <2>1, FS_Interval
    <2>. QED
      BY <1>1, <2>2
  <1>8. IsFiniteSet(Asked) /\ Cardinality(Asked) = C
    BY <1>6, <1>7, FS_Bijection DEF ExistsBijection
  <1>. QED
    BY <1>3, <1>8 DEF C

\* What is asked for and what is tested are nonces, and a small range is tested
\* completely.
AskedInv ==
    /\ Asked \subseteq Nonce /\ Tested \subseteq Nonce
    /\ Cardinality(Asked) <= AlwaysServed => Asked \subseteq Tested

LEMMA AskedInvariant == Spec => []AskedInv
  <1>1. ShareInv /\ EachNonceOnce => AskedInv
    <2>. SUFFICES ASSUME ShareInv, EachNonceOnce PROVE AskedInv
      OBVIOUS
    <2>1. TypeOK
      BY DEF ShareInv
    <2>2. Asked \subseteq Nonce /\ Cardinality(Asked) = call.count /\ call.count \in Nat
      BY <2>1, AskedCount, KernelNumbers
    <2>3. Tested \subseteq Nonce
      <3>1. \A w \in Work : w[1] \in Threads /\ w[2] \in Int
        BY <2>1, KernelNumbers DEF Work
      <3>. QED
        BY <2>1, <3>1, NonceOfType DEF Tested
    <2>4. ASSUME call.count <= AlwaysServed PROVE Asked \subseteq Tested
      <3>1. CASE call.count = 0
        BY <3>1 DEF Asked
      <3>2. CASE call.count # 0
        <4>1. call.count \in 1 .. MaxServed
          BY <2>2, <2>4, <3>2, IntRange, Widths DEF AlwaysServed, MaxServed
        <4>. QED
          BY <4>1 DEF EachNonceOnce
      <3>. QED
        BY <3>1, <3>2
    <2>. QED
      BY <2>2, <2>3, <2>4 DEF AskedInv
  <1>. QED
    BY <1>1, ShareInvariant, EachNonceOnceHolds, PTL

\* When all threads are done they have found every solution among the nonces tested.
LEMMA AllFound ==
  ASSUME TypeOK, KernelDone
  PROVE  Found = Solving \cap Tested
  <1>1. Found \subseteq Solving \cap Tested
    BY DEF Found, Passed, Tested
  <1>2. ASSUME NEW n \in Solving \cap Tested PROVE n \in Found
    <2>1. PICK w \in Work : n = NonceOf(w[1], w[2])
      BY <1>2 DEF Tested
    <2>2. w[1] \in Threads /\ w[2] \in 0 .. Per - 1
      BY <2>1 DEF Work
    <2>3. w[2] < at[w[1]]
      <3>1. SUFFICES ASSUME ~(w[2] < at[w[1]]) PROVE FALSE
        OBVIOUS
      <3>2. Per \in Nat /\ at[w[1]] \in 0 .. Per
        BY <2>2, KernelNumbers DEF TypeOK
      <3>3. w[2] \in at[w[1]] .. Per - 1
        BY <2>2, <3>1, <3>2
      <3>4. NonceOf(w[1], w[2]) \notin Solving
        BY <2>2, <3>3 DEF KernelDone, Done
      <3>. QED
        BY <1>2, <2>1, <3>4
    <2>. QED
      BY <1>2, <2>1, <2>2, <2>3, InFound DEF FoundMeans
  <1>. QED
    BY <1>1, <1>2

\* NonceSearch counts as this module does.
LEMMA SameCardinality == \A S : Promised!Cardinality(S) = Cardinality(S)
  BY DEF Cardinality, Promised!Cardinality

\* The host delivers as many different solutions as the buffer holds.
LEMMA CollectDelivers ==
  ASSUME PromiseInv, Collect
  PROVE  Promised!Deliver
  <1>1. /\ host = "kernel" /\ host' = "idle" /\ KernelDone
        /\ number' = AtMost(counter)
        /\ out' = IF number' = 0 THEN out ELSE [i \in 1 .. number' |-> buffer[i - 1]]
        /\ UNCHANGED <<env, call, threads>>
    BY DEF Collect, launchVars
  <1>2. TypeOK /\ counter \in Nat /\ MaxSolutions \in Nat /\ number' \in Nat
        /\ number' <= counter /\ number' <= MaxSolutions
    BY <1>1, Widths DEF PromiseInv, KernelInv, TypeOK, AtMost
  <1>3. Found = Solving \cap Tested /\ counter = Cardinality(Solving \cap Tested)
    BY <1>1, <1>2, AllFound DEF PromiseInv, FoundInv
  <1>4. Asked' = Asked /\ Tested' = Tested
    BY <1>1 DEF Asked, Tested, Work, Threads, Per, Variant, NonceOf
  <1>5. (host # "idle") /\ (host # "idle")' = FALSE /\ UNCHANGED <<Asked, Tested>>
    BY <1>1, <1>4
  <1>6. Promised!Solutions = Solving \cap Tested
    BY DEF Promised!Solutions
  <1>7. number' = IF Cardinality(Promised!Solutions) <= MaxSolutions
                  THEN Cardinality(Promised!Solutions)
                  ELSE MaxSolutions
    BY <1>1, <1>3, <1>6 DEF AtMost
  <1>8. CASE number' = 0
    <2>1. out' = out
      BY <1>1, <1>8
    <2>. QED
      BY <1>5, <1>6, <1>7, <1>8, <2>1, SameCardinality DEF Promised!Deliver
  <1>9. CASE number' # 0
    <2>. DEFINE vector == [i \in 1 .. number' |-> buffer[i - 1]]
    <2>1. out' = vector
      BY <1>1, <1>9
    <2>2. ASSUME NEW i \in 1 .. number' PROVE i - 1 \in Slot /\ buffer[i - 1] \in Found
      <3>1. i - 1 \in Slot /\ i - 1 < counter
        BY <1>2 DEF Slot
      <3>2. \A t \in Threads : slot[t] # i - 1
        <4>1. i - 1 \in Nat
          BY <1>2
        <4>. QED
          BY <1>1, <4>1 DEF KernelDone, Done, NoSlot
      <3>3. buffer[i - 1] # Garbage
        BY <3>1, <3>2 DEF PromiseInv, KernelInv, SlotInv
      <3>. QED
        BY <3>1, <3>3 DEF PromiseInv, FoundInv
    <2>3. \A i, j \in 1 .. number' : buffer[i - 1] = buffer[j - 1] => i = j
      <3>. TAKE i, j \in 1 .. number'
      <3>. HAVE buffer[i - 1] = buffer[j - 1]
      <3>1. i - 1 \in Slot /\ j - 1 \in Slot /\ buffer[i - 1] # Garbage
        BY <2>2, KernelAssumption DEF Found
      <3>2. i - 1 = j - 1
        BY <3>1 DEF PromiseInv, FoundInv
      <3>. QED
        BY <1>2, <3>2
    <2>4. Range(out') = {buffer[i - 1] : i \in 1 .. number'}
      BY <2>1 DEF Range
    <2>5. Range(out') \subseteq Solving \cap Tested
      BY <1>3, <2>2, <2>4
    <2>6. Cardinality(Range(out')) = number'
      <3>1. vector \in [1 .. number' -> Range(out')]
            /\ \A r \in Range(out') : \E i \in 1 .. number' : vector[i] = r
        BY <2>4
      <3>2. \A i, j \in 1 .. number' : vector[i] = vector[j] => i = j
        BY <2>3
      <3>. HIDE DEF vector
      <3>3. vector \in Bijection(1 .. number', Range(out'))
        BY <3>1, <3>2, Fun_IsBij
      <3>4. IsFiniteSet(1 .. number') /\ Cardinality(1 .. number') = number'
        <4>1. number' \in Int /\ 1 \in Int
          BY <1>2
        <4>2. /\ IsFiniteSet(1 .. number')
              /\ Cardinality(1 .. number') = IF 1 > number' THEN 0 ELSE number' - 1 + 1
          BY <4>1, FS_Interval
        <4>. QED
          BY <1>2, <1>9, <4>2
      <3>. QED
        BY <3>3, <3>4, FS_Bijection DEF ExistsBijection
    <2>. QED
      BY <1>5, <1>6, <1>7, <1>9, <2>5, <2>6, SameCardinality DEF Promised!Deliver
  <1>. QED
    BY <1>8, <1>9

LEMMA EmptyVector == Range(<<>>) = {}
  BY DEF Range

\* Every step asks, delivers, or is hidden from the caller.
LEMMA NextKeepsPromise ==
  PromiseInv /\ AskedInv' /\ [Next]_vars => [Promised!SearchNext]_Promised!searchVars
  <1>. SUFFICES ASSUME PromiseInv, AskedInv', [Next]_vars
                PROVE  Promised!SearchNext \/ UNCHANGED Promised!searchVars
    OBVIOUS
  <1>1. /\ Asked' \subseteq Nonce /\ Tested' \subseteq Nonce
        /\ Cardinality(Asked') <= IntMax + 1 - (IF BaseBlock < OptBlock
                                                THEN OptBlock ELSE BaseBlock)
             => Asked' \subseteq Tested'
    BY DEF AskedInv, AlwaysServed, Nonce, IntMax
  <1>2. ASSUME NEW start \in Starts, NEW count \in Counts, Launch(start, count)
        PROVE  Promised!Ask
    <2>1. host = "idle" /\ host' = "kernel" /\ number' = number /\ out' \in {out, <<>>}
      BY <1>2 DEF Launch
    <2>2. Range(out') = Range(out) \/ Range(out') = {}
      BY <2>1, EmptyVector
    <2>3. /\ ~(host # "idle") /\ (host # "idle")' = TRUE
      BY <2>1
    <2>. QED
      BY <1>1, <2>1, <2>2, <2>3, SameCardinality DEF Promised!Ask
  <1>3. CASE Throw
    <2>1. /\ UNCHANGED <<env, call, threads, number, out>> /\ host' = "thrown"
          /\ host \in {"idle", "kernel"}
      BY <1>3 DEF Throw, launchVars
    <2>2. CASE host = "idle"
      <3>1. ~(host # "idle") /\ (host # "idle")' = TRUE /\ number' = number
            /\ Range(out)' = Range(out)
        BY <2>1, <2>2
      <3>2. Promised!Ask
        BY <1>1, <3>1, SameCardinality DEF Promised!Ask
      <3>. QED
        BY <3>2 DEF Promised!SearchNext
    <2>3. CASE host = "kernel"
      <3>1. Asked' = Asked /\ Tested' = Tested
        BY <2>1 DEF Asked, Tested, Work, Threads, Per, Variant, NonceOf
      <3>. QED
        BY <2>1, <2>3, <3>1 DEF Promised!searchVars
    <2>. QED
      BY <2>1, <2>2, <2>3
  <1>4. CASE Kernel \/ UNCHANGED vars
    <2>1. UNCHANGED <<env, call, threads, number, out, host>>
      BY <1>4 DEF Kernel, Claim, Store, launchVars, vars
    <2>2. Asked' = Asked /\ Tested' = Tested
      BY <2>1 DEF Asked, Tested, Work, Threads, Per, Variant, NonceOf
    <2>. QED
      BY <2>1, <2>2 DEF Promised!searchVars
  <1>. QED
    BY <1>2, <1>3, <1>4, CollectDelivers DEF Next, Thrown, Promised!SearchNext

\* Whatever the order in which threads find and write, a search delivers different
\* solutions of the nonces it tests, all of them if they fit, and tests all it was asked
\* to (device_manager.hpp search, searchSync).
THEOREM KeepsPromiseHolds == ASSUME RangesFit PROVE Spec => KeepsPromise
  <1>1. Init => Promised!SearchInit
    <2>. SUFFICES ASSUME Init PROVE Promised!SearchInit
      OBVIOUS
    <2>1. /\ host = "idle" /\ call.count = 0 /\ threads = 0 /\ number = 0 /\ out = <<>>
      BY DEF Init
    <2>2. Asked = {}
      BY <2>1 DEF Asked
    <2>3. Tested = {}
      BY <2>1 DEF Tested, Work, Threads
    <2>. QED
      BY <2>1, <2>2, <2>3, EmptyVector DEF Promised!SearchInit
  <1>. QED
    BY <1>1, NextKeepsPromise, PromiseInvariant, AskedInvariant, PTL
    DEF Spec, KeepsPromise, Promised!SearchSpec
=============================================================================
