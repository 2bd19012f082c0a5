------------------------- MODULE SearchKernelProofs -------------------------
(***************************************************************************)
(* Proofs about SearchKernel, for any widths, blocks, ranges and           *)
(* solutions: the slots of the buffer have one owner each, so that the     *)
(* host never reads one that was not written; and the threads of a grid    *)
(* test each nonce they are asked for, and none twice.                     *)
(***************************************************************************)
EXTENDS SearchKernel, FiniteSetTheorems, FunctionTheorems, SequenceTheorems, TLAPS

Writers(s) == {t \in Threads : slot[t] = s}

\* No thread writes beyond the counter, and no two threads write the same slot.
SlotInv ==
    /\ \A t \in Threads : slot[t] # NoSlot => slot[t] < counter
    /\ \A t, u \in Threads : slot[t] = slot[u] /\ t # u => slot[t] = NoSlot
    /\ \A s \in Slot : s >= counter => buffer[s] = Garbage
    /\ \A s \in Slot : s < counter =>
          (buffer[s] = Garbage <=> \E t \in Threads : slot[t] = s)

KernelInv == TypeOK /\ SlotInv

LEMMA Widths ==
  /\ NonceMod \in Nat /\ NonceMod > 0 /\ WordMod \in Nat /\ WordMod > 0
  /\ BaseBlock \in Nat /\ OptBlock \in Nat /\ MaxPer \in Nat /\ MaxPer > 0
  /\ MaxSolutions \in Nat /\ MaxSolutions > 0
  BY KernelAssumption

LEMMA PerType ==
  ASSUME env \in [optimized : BOOLEAN, per : 1 .. MaxPer]
  PROVE  Per \in Nat /\ Per > 0 /\ env.per \in Nat /\ env.per > 0
  BY Widths DEF Per

LEMMA ToIntType == ASSUME NEW x \in Int PROVE ToInt(x) \in Int
  <1>1. x % WordMod \in Int
    BY Widths
  <1>. QED
    BY <1>1, Widths DEF ToInt

LEMMA GridsType ==
  ASSUME env \in [optimized : BOOLEAN, per : 1 .. MaxPer], NEW count \in Nonce,
         NEW n \in Grids(count)
  PROVE  n \in Int
  <1>1. count \in Int /\ env.per \in Int /\ env.per > 0 /\ BaseBlock > 0 /\ OptBlock > 0
        /\ BaseBlock \in Int /\ OptBlock \in Int
    BY Widths, KernelAssumption, PerType DEF Nonce
  <1>2. CASE Variant = "base"
    <2>. DEFINE x == ((count + BaseBlock - 1) % NonceMod) \div BaseBlock
    <2>1. (count + BaseBlock - 1) % NonceMod \in Int
      BY <1>1, Widths
    <2>2. x \in Int
      BY <1>1, <2>1
    <2>3. ToInt(x) \in Int
      BY <2>2, ToIntType
    <2>4. n = BaseBlock * ToInt(x)
      BY <1>2 DEF Grids
    <2>. HIDE DEF x
    <2>. QED
      BY <1>1, <2>3, <2>4
  <1>3. CASE Variant # "base"
    <2>. DEFINE x == ((count + env.per - 1) % NonceMod) \div env.per
                y == ToInt(x)
    <2>1. (count + env.per - 1) % NonceMod \in Int
      BY <1>1, Widths
    <2>2. x \in Int
      BY <1>1, <2>1
    <2>3. y \in Int
      BY <2>2, ToIntType
    <2>4. PICK b \in BlocksFor(y, OptBlock) : n = OptBlock * b
      BY <1>3 DEF Grids
    <2>. HIDE DEF y
    <2>5. ToInt(y + OptBlock - 1) \in Int /\ y + OptBlock - 1 \in Int
      BY <1>1, <2>3, ToIntType
    <2>6. PICK z \in {ToInt(y + OptBlock - 1), y + OptBlock - 1} : b = z \div OptBlock
      BY <2>4 DEF BlocksFor
    <2>7. z \in Int
      BY <2>5, <2>6
    <2>8. b \in Int
      BY <1>1, <2>6, <2>7
    <2>. QED
      BY <1>1, <2>4, <2>8
  <1>. QED
    BY <1>2, <1>3

LEMMA NonceOfType ==
  ASSUME TypeOK, NEW t \in Threads, NEW o \in Int
  PROVE  NonceOf(t, o) \in Nonce
  <1>1. t \in Int /\ Per \in Int /\ call.start \in Int
    BY PerType, Widths DEF TypeOK, Threads, Nonce
  <1>2. t * Per \in Int
    BY <1>1
  <1>3. (t * Per) % WordMod \in Int
    BY <1>2, Widths
  <1>4. call.start + ((t * Per) % WordMod) + o \in Int
    BY <1>1, <1>3
  <1>. QED
    BY <1>4, Widths DEF NonceOf, Nonce

LEMMA InitInv == Init => KernelInv
  <1>. SUFFICES ASSUME Init PROVE KernelInv
    OBVIOUS
  <1>1. threads = 0 /\ Threads = {}
    BY DEF Init, Threads
  <1>2. 0 \in Nonce /\ 0 \in 0 .. MaxSolutions /\ 0 \in Nat
    BY Widths DEF Nonce
  <1>3. at \in [Threads -> 0 .. Per] /\ slot \in [Threads -> {NoSlot} \cup Nat]
    BY <1>1 DEF Init
  <1>4. out \in Seq(Nonce)
    BY DEF Init
  <1>5. TypeOK
    BY <1>1, <1>2, <1>3, <1>4 DEF Init, TypeOK
  <1>6. SlotInv
    BY <1>1 DEF Init, SlotInv, Slot
  <1>. QED
    BY <1>5, <1>6 DEF KernelInv

\* A launch starts with an empty buffer and no thread in a slot.
LEMMA LaunchPreserves ==
  ASSUME KernelInv, NEW start \in Starts, NEW count \in Counts, Launch(start, count)
  PROVE  KernelInv'
  <1>1. start \in Nonce /\ count \in Nonce
    BY KernelAssumption
  <1>2. PICK n \in Grids(count) :
          /\ threads' = IF n > 0 THEN n ELSE 0
          /\ at' = [t \in 0 .. n - 1 |-> 0]
          /\ slot' = [t \in 0 .. n - 1 |-> NoSlot]
    BY DEF Launch
  <1>3. n \in Int
    BY <1>1, GridsType DEF KernelInv, TypeOK
  <1>4. threads' \in Nat /\ Threads' = 0 .. n - 1
    BY <1>2, <1>3 DEF Threads
  <1>5. /\ counter' = 0 /\ buffer' = [s \in Slot |-> Garbage] /\ out' \in {out, <<>>}
        /\ call' = [start |-> start, count |-> count]
        /\ host' = "kernel" /\ env' = env /\ number' = number
    BY DEF Launch
  <1>6. \A t \in Threads' : slot'[t] = NoSlot
    BY <1>2, <1>4
  <1>7. TypeOK'
    <2>1. at' \in [Threads' -> 0 .. Per'] /\ slot' \in [Threads' -> {NoSlot} \cup Nat]
      <3>1. Per' = Per /\ 0 \in 0 .. Per
        BY <1>5, PerType DEF KernelInv, TypeOK, Per, Variant
      <3>. QED
        BY <1>2, <1>4, <3>1
    <2>2. out' \in Seq(Nonce)
      <3>1. <<>> \in Seq(Nonce) /\ out \in Seq(Nonce)
        BY EmptySeq DEF KernelInv, TypeOK
      <3>. QED
        BY <1>5, <3>1
    <2>3. call' \in [start : Nonce, count : Nonce]
      BY <1>1, <1>5
    <2>. QED
      BY <1>4, <1>5, <2>1, <2>2, <2>3 DEF KernelInv, TypeOK
  <1>8. SlotInv'
    BY <1>5, <1>6 DEF SlotInv, Slot, NoSlot
  <1>. QED
    BY <1>7, <1>8 DEF KernelInv

\* atomicAdd gives a thread the slot at the counter, which no other thread has and which
\* is empty.
LEMMA ClaimPreserves ==
  ASSUME KernelInv, NEW t \in Threads, NEW o \in 0 .. Per - 1, Claim(t, o)
  PROVE  KernelInv'
  <1>1. /\ at' = [at EXCEPT ![t] = o + 1] /\ slot' = [slot EXCEPT ![t] = counter]
        /\ counter' = counter + 1 /\ slot[t] = NoSlot
        /\ UNCHANGED <<env, host, call, threads, buffer, number, out>>
    BY DEF Claim, launchVars
  <1>2. Threads' = Threads /\ Per' = Per
    BY <1>1 DEF Threads, Per, Variant
  <1>3. counter \in Nat /\ slot \in [Threads -> {NoSlot} \cup Nat]
    BY DEF KernelInv, TypeOK
  <1>4. o + 1 \in 0 .. Per
    BY PerType DEF KernelInv, TypeOK
  <1>5. TypeOK'
    <2>1. at' \in [Threads -> 0 .. Per]
      BY <1>1, <1>4 DEF KernelInv, TypeOK
    <2>2. slot' \in [Threads -> {NoSlot} \cup Nat] /\ counter' \in Nat
      BY <1>1, <1>3
    <2>. QED
      BY <1>1, <1>2, <2>1, <2>2 DEF KernelInv, TypeOK
  <1>6. slot'[t] = counter /\ \A u \in Threads : u # t => slot'[u] = slot[u]
    BY <1>1, <1>3
  <1>7. \A u \in Threads : slot[u] # NoSlot => slot[u] < counter /\ slot[u] \in Nat
    BY <1>3 DEF KernelInv, SlotInv
  <1>8. \A u \in Threads' : slot'[u] # NoSlot => slot'[u] < counter'
    BY <1>1, <1>2, <1>3, <1>6, <1>7
  <1>9. ASSUME NEW u \in Threads, NEW v \in Threads, slot'[u] = slot'[v], u # v
        PROVE  slot'[u] = NoSlot
    <2>1. CASE u = t
      BY <1>3, <1>6, <1>7, <1>9, <2>1 DEF NoSlot
    <2>2. CASE v = t
      BY <1>3, <1>6, <1>7, <1>9, <2>2 DEF NoSlot
    <2>3. CASE u # t /\ v # t
      BY <1>6, <1>9, <2>3 DEF KernelInv, SlotInv
    <2>. QED
      BY <2>1, <2>2, <2>3
  <1>10. ASSUME NEW s \in Slot
         PROVE  /\ s >= counter' => buffer'[s] = Garbage
                /\ s < counter' => (buffer'[s] = Garbage <=> \E u \in Threads' : slot'[u] = s)
    <2>1. s \in Nat
      BY Widths DEF Slot
    <2>2. /\ s >= counter => buffer[s] = Garbage
          /\ s < counter => (buffer[s] = Garbage <=> \E u \in Threads : slot[u] = s)
      BY DEF KernelInv, SlotInv
    <2>3. CASE s = counter
      BY <1>1, <1>2, <1>3, <1>6, <2>1, <2>2, <2>3
    <2>4. CASE s # counter
      <3>1. (\E u \in Threads : slot[u] = s) <=> (\E u \in Threads : slot'[u] = s)
        BY <1>1, <1>6, <2>1, <2>4 DEF NoSlot
      <3>2. s < counter' <=> s < counter
        BY <1>1, <1>3, <2>1, <2>4
      <3>. QED
        BY <1>1, <1>2, <1>3, <2>1, <2>2, <3>1, <3>2
    <2>. QED
      BY <2>3, <2>4
  <1>. QED
    BY <1>2, <1>5, <1>8, <1>9, <1>10 DEF KernelInv, SlotInv, Slot

\* The thread writes into its slot, if there is one in the buffer, and leaves it.
LEMMA StorePreserves ==
  ASSUME KernelInv, NEW t \in Threads, Store(t)
  PROVE  KernelInv'
  <1>1. /\ slot' = [slot EXCEPT ![t] = NoSlot] /\ slot[t] # NoSlot
        /\ buffer' = IF slot[t] < MaxSolutions
                     THEN [buffer EXCEPT ![slot[t]] = NonceOf(t, at[t] - 1)] ELSE buffer
        /\ UNCHANGED <<env, host, call, threads, at, counter, number, out>>
    BY DEF Store, launchVars
  <1>2. Threads' = Threads /\ Per' = Per
    BY <1>1 DEF Threads, Per, Variant
  <1>3. /\ slot \in [Threads -> {NoSlot} \cup Nat] /\ counter \in Nat
        /\ buffer \in [Slot -> Nonce \cup {Garbage}]
    BY DEF KernelInv, TypeOK
  <1>4. NonceOf(t, at[t] - 1) \in Nonce
    <2>1. at[t] \in Int
      BY PerType DEF KernelInv, TypeOK
    <2>. QED
      BY <2>1, NonceOfType DEF KernelInv
  <1>5. TypeOK'
    <2>1. buffer' \in [Slot -> Nonce \cup {Garbage}]
      BY <1>1, <1>3, <1>4
    <2>2. slot' \in [Threads -> {NoSlot} \cup Nat]
      BY <1>1, <1>3
    <2>. QED
      BY <1>1, <1>2, <2>1, <2>2 DEF KernelInv, TypeOK
  <1>6. slot'[t] = NoSlot /\ \A u \in Threads : u # t => slot'[u] = slot[u]
    BY <1>1, <1>3
  <1>7. \A u \in Threads : slot[u] = slot[t] => u = t
    BY <1>1 DEF KernelInv, SlotInv
  <1>8. \A u \in Threads' : slot'[u] # NoSlot => slot'[u] < counter'
    BY <1>1, <1>2, <1>6 DEF KernelInv, SlotInv
  <1>9. \A u, v \in Threads' : slot'[u] = slot'[v] /\ u # v => slot'[u] = NoSlot
    BY <1>2, <1>6 DEF KernelInv, SlotInv
  <1>10. ASSUME NEW s \in Slot
         PROVE  /\ s >= counter' => buffer'[s] = Garbage
                /\ s < counter' => (buffer'[s] = Garbage <=> \E u \in Threads' : slot'[u] = s)
    <2>1. s \in Nat /\ s < MaxSolutions
      BY Widths DEF Slot
    <2>2. /\ s >= counter => buffer[s] = Garbage
          /\ s < counter => (buffer[s] = Garbage <=> \E u \in Threads : slot[u] = s)
      BY DEF KernelInv, SlotInv
    <2>3. CASE s = slot[t]
      <3>1. buffer'[s] \in Nonce
        BY <1>1, <1>3, <1>4, <2>1, <2>3
      <3>2. buffer'[s] # Garbage
        BY <3>1, KernelAssumption
      <3>3. s < counter
        BY <1>1, <2>3 DEF KernelInv, SlotInv
      <3>4. \A u \in Threads : slot'[u] # s
        BY <1>1, <1>6, <1>7, <2>3
      <3>. QED
        BY <1>1, <1>2, <1>3, <2>1, <3>2, <3>3, <3>4
    <2>4. CASE s # slot[t]
      <3>1. buffer'[s] = buffer[s]
        BY <1>1, <1>3, <2>4
      <3>2. (\E u \in Threads : slot[u] = s) <=> (\E u \in Threads : slot'[u] = s)
        BY <1>6, <2>1, <2>4 DEF NoSlot
      <3>. QED
        BY <1>1, <1>2, <2>2, <3>1, <3>2
    <2>. QED
      BY <2>3, <2>4
  <1>. QED
    BY <1>2, <1>5, <1>8, <1>9, <1>10 DEF KernelInv, SlotInv, Slot

\* When all threads are done every slot below the counter has been written.
LEMMA CollectPreserves ==
  ASSUME KernelInv, Collect
  PROVE  KernelInv'
  <1>1. /\ number' = AtMost(counter) /\ host' = "idle"
        /\ out' = IF number' = 0 THEN out ELSE [i \in 1 .. number' |-> buffer[i - 1]]
        /\ UNCHANGED <<env, call, threads, at, slot, counter, buffer>>
        /\ \A t \in Threads : slot[t] = NoSlot
    BY DEF Collect, launchVars, kernelVars, KernelDone, Done
  <1>2. Threads' = Threads /\ Per' = Per
    BY <1>1 DEF Threads, Per, Variant
  <1>3. counter \in Nat /\ number' \in 0 .. MaxSolutions /\ number' <= counter
        /\ number' \in Nat
    BY <1>1, Widths DEF KernelInv, TypeOK, AtMost
  <1>4. ASSUME NEW i \in 1 .. number' PROVE buffer[i - 1] \in Nonce
    <2>1. i - 1 \in Slot /\ i - 1 < counter /\ i - 1 \in Nat
      BY <1>3, <1>4, Widths DEF Slot
    <2>2. buffer[i - 1] # Garbage
      BY <1>1, <2>1 DEF KernelInv, SlotInv, NoSlot
    <2>. QED
      BY <2>1, <2>2 DEF KernelInv, TypeOK
  <1>5. out' \in Seq(Nonce)
    <2>1. CASE number' = 0
      BY <1>1, <2>1 DEF KernelInv, TypeOK
    <2>2. CASE number' # 0
      <3>1. [i \in 1 .. number' |-> buffer[i - 1]] \in Seq(Nonce)
        BY <1>3, <1>4, IsASeq
      <3>. QED
        BY <1>1, <2>2, <3>1
    <2>. QED
      BY <2>1, <2>2
  <1>6. TypeOK'
    BY <1>1, <1>2, <1>3, <1>5 DEF KernelInv, TypeOK
  <1>7. SlotInv'
    BY <1>1, <1>2 DEF KernelInv, SlotInv, Slot
  <1>. QED
    BY <1>6, <1>7 DEF KernelInv

LEMMA NextInv == KernelInv /\ [Next]_vars => KernelInv'
  <1>. SUFFICES ASSUME KernelInv, [Next]_vars PROVE KernelInv'
    OBVIOUS
  <1>1. CASE Throw \/ UNCHANGED vars
    <2>1. /\ UNCHANGED <<env, call, threads, at, slot, counter, buffer, number, out>>
          /\ host' \in {host, "thrown"}
      BY <1>1 DEF Throw, vars, launchVars, kernelVars
    <2>2. Threads' = Threads /\ Per' = Per
      BY <2>1 DEF Threads, Per, Variant
    <2>. QED
      BY <2>1, <2>2 DEF KernelInv, TypeOK, SlotInv, Slot
  <1>2. CASE Kernel
    BY <1>2, ClaimPreserves, StorePreserves DEF Kernel
  <1>. QED
    BY <1>1, <1>2, LaunchPreserves, CollectPreserves DEF Next, Thrown

LEMMA KernelInvariant == Spec => []KernelInv
  BY InitInv, NextInv, PTL DEF Spec

-----------------------------------------------------------------------------
(* What follows.                                                           *)

\* The counters and buffers keep their types: in particular the caller's vector holds
\* nonces only and never memory that was not written (device_manager.cu searchSync).
THEOREM TypeCorrect == Spec => []TypeOK
  BY KernelInvariant, PTL DEF KernelInv

\* Whatever the order of the threads, each slot below the counter is about to be written
\* by one thread or holds a solution (search_kernel.cu, atomicAdd in the kernels).
THEOREM SlotsHaveOneOwnerHolds == Spec => []SlotsHaveOneOwner
  <1>1. KernelInv => SlotsHaveOneOwner
    <2>. SUFFICES ASSUME KernelInv, NEW s \in Slot
                  PROVE  /\ s < counter => IF buffer[s] = Garbage
                                           THEN Cardinality(Writers(s)) = 1
                                           ELSE Writers(s) = {}
                         /\ s >= counter => buffer[s] = Garbage
      BY DEF SlotsHaveOneOwner, Writers
    <2>1. ASSUME s < counter, buffer[s] = Garbage PROVE Cardinality(Writers(s)) = 1
      <3>1. PICK t \in Threads : slot[t] = s
        BY <2>1 DEF KernelInv, SlotInv
      <3>2. s # NoSlot
        BY Widths DEF Slot, NoSlot
      <3>3. Writers(s) = {t}
        BY <3>1, <3>2 DEF KernelInv, SlotInv, Writers
      <3>. QED
        BY <3>3, FS_Singleton
    <2>2. ASSUME s < counter, buffer[s] # Garbage PROVE Writers(s) = {}
      BY <2>2 DEF KernelInv, SlotInv, Writers
    <2>3. s >= counter => buffer[s] = Garbage
      BY DEF KernelInv, SlotInv
    <2>. QED
      BY <2>1, <2>2, <2>3
  <1>. QED
    BY <1>1, KernelInvariant, PTL

-----------------------------------------------------------------------------
(* How the range is shared out.                                            *)

Block == IF Variant = "base" THEN BaseBlock ELSE OptBlock

\* The grid is large enough, by less than one block.
Enough ==
    call.count \in 1 .. MaxServed =>
        /\ threads * Per >= call.count
        /\ threads * Per <= call.count + Per * Block - 1

ShareInv == TypeOK /\ Enough

LEMMA ProductIsNatural == \A a, b \in Nat : a * b \in Nat
  OBVIOUS

LEMMA ProductGrows ==
  ASSUME NEW g \in Nat, NEW a \in Nat, NEW b \in Nat, a <= b
  PROVE  a * g <= b * g
  <1>1. PICK d \in Nat : b = a + d
    <2>. WITNESS b - a \in Nat
    <2>. QED
      OBVIOUS
  <1>2. b * g = a * g + d * g
    BY <1>1
  <1>3. d * g \in Nat /\ a * g \in Nat
    BY ProductIsNatural
  <1>. QED
    BY <1>2, <1>3

\* Division rounded up leaves nothing out and exceeds by less than the divisor.
LEMMA RoundedUp ==
  ASSUME NEW n \in Nat \ {0}, NEW b \in Nat \ {0}
  PROVE  LET q == (n + b - 1) \div b
         IN  /\ q \in Nat \ {0} /\ q <= n
             /\ q * b \in Nat /\ n <= q * b /\ q * b <= n + b - 1
  <1>. DEFINE q == (n + b - 1) \div b
              r == (n + b - 1) % b
  <1>1. q \in Nat /\ r \in 0 .. b - 1
    OBVIOUS
  <1>2. n + b - 1 = b * q + r
    OBVIOUS
  <1>3. b * q = q * b
    BY <1>1
  <1>. HIDE DEF q, r
  <1>4. q * b \in Nat
    BY <1>1, ProductIsNatural
  <1>5. n <= q * b /\ q * b <= n + b - 1
    BY <1>1, <1>2, <1>3, <1>4
  <1>6. q # 0
    BY <1>4, <1>5
  <1>7. q <= n
    <2>1. SUFFICES ASSUME q > n PROVE FALSE
      BY <1>1
    <2>2. (n + 1) * b <= q * b
      BY <1>1, <2>1, ProductGrows
    <2>3. (n + 1) * b = n * b + b /\ 1 * n <= b * n /\ b * n = n * b /\ n * b \in Nat
      BY ProductGrows, ProductIsNatural
    <2>. QED
      BY <1>4, <1>5, <2>2, <2>3
  <1>. QED
    BY <1>1, <1>4, <1>5, <1>6, <1>7 DEF q

\* Below the modulus, and once around.
LEMMA Residue ==
  ASSUME NEW m \in Nat \ {0}, NEW x \in Nat, x < 2 * m
  PROVE  x % m = IF x < m THEN x ELSE x - m
  <1>. DEFINE q == x \div m
              r == x % m
  <1>1. q \in Nat /\ r \in 0 .. m - 1 /\ x = m * q + r
    OBVIOUS
  <1>. HIDE DEF q, r
  <1>2. CASE q = 0
    BY <1>1, <1>2 DEF r
  <1>3. CASE q = 1
    BY <1>1, <1>3 DEF r
  <1>4. CASE q >= 2
    <2>1. 2 * m <= q * m /\ q * m = m * q /\ q * m \in Nat
      BY <1>1, <1>4, ProductGrows, ProductIsNatural
    <2>. QED
      BY <1>1, <2>1
  <1>. QED
    BY <1>1, <1>2, <1>3, <1>4

LEMMA ResidueBelow == \A m \in Nat \ {0}, x \in Nat : x < m => x % m = x
  BY Residue

LEMMA ResidueAround ==
  \A m \in Nat \ {0}, x \in Nat : x < 2 * m => x % m = IF x < m THEN x ELSE x - m
  BY Residue

LEMMA IntRange ==
  /\ IntMax \in Nat \ {0} /\ 2 * IntMax + 2 <= WordMod /\ WordMod <= NonceMod
  /\ MaxPer <= IntMax /\ BaseBlock <= IntMax /\ OptBlock <= IntMax
  /\ BaseBlock > 0 /\ OptBlock > 0
  <1>1. /\ WordMod <= NonceMod /\ MaxPer * OptBlock <= IntMax /\ BaseBlock <= IntMax
        /\ BaseBlock \in Nat \ {0} /\ OptBlock \in Nat \ {0} /\ MaxPer \in Nat \ {0}
        /\ WordMod \in Nat \ {0}
    BY KernelAssumption
  <1>2. IntMax \in Int /\ 2 * IntMax + 2 <= WordMod
    BY <1>1 DEF IntMax
  <1>3. /\ 1 * OptBlock <= MaxPer * OptBlock /\ 1 * MaxPer <= OptBlock * MaxPer
        /\ OptBlock * MaxPer = MaxPer * OptBlock /\ MaxPer * OptBlock \in Nat
    BY <1>1, ProductGrows, ProductIsNatural
  <1>. QED
    BY <1>1, <1>2, <1>3

\* A number in the range of an int is converted to itself.
LEMMA ToIntSame == ASSUME NEW x \in Nat, x <= IntMax PROVE ToInt(x) = x
  <1>1. x < WordMod /\ WordMod \in Nat \ {0} /\ IntMax \in Nat
    BY IntRange, Widths
  <1>2. x % WordMod = x
    BY <1>1, Residue
  <1>. QED
    BY <1>1, <1>2 DEF ToInt

\* The threads of a launch cover the range.
LEMMA GridIsEnough ==
  ASSUME env \in [optimized : BOOLEAN, per : 1 .. MaxPer],
         NEW count \in 1 .. MaxServed, NEW n \in Grids(count)
  PROVE  /\ n \in Nat \ {0}
         /\ n * Per >= count
         /\ n * Per <= count + Per * Block - 1
  <1>1. /\ IntMax \in Nat /\ count \in Nat \ {0} /\ count <= IntMax + 1 - Block
        /\ Block \in Nat \ {0} /\ Block <= IntMax /\ WordMod \in Nat /\ NonceMod \in Nat \ {0}
    BY IntRange, Widths DEF MaxServed, Block
  <1>2. CASE Variant = "base"
    <2>1. Per = 1 /\ Block = BaseBlock
      BY <1>2 DEF Per, Block
    <2>. DEFINE q == (count + Block - 1) \div Block
    <2>2. /\ q \in Nat \ {0} /\ q <= count
          /\ q * Block \in Nat /\ count <= q * Block /\ q * Block <= count + Block - 1
      BY <1>1, RoundedUp
    <2>3. (count + Block - 1) % NonceMod = count + Block - 1
      <3>1. count + Block - 1 \in Nat /\ count + Block - 1 < NonceMod
        BY <1>1, IntRange
      <3>. HIDE DEF q
      <3>. QED
        BY <1>1, <3>1, ResidueBelow
    <2>. HIDE DEF q
    <2>4. ToInt(q) = q
      BY <1>1, <2>2, ToIntSame
    <2>5. n = Block * q
      BY <1>2, <2>1, <2>3, <2>4 DEF Grids, q
    <2>6. n = q * Block /\ n * 1 = n /\ 1 * Block = Block
      BY <1>1, <2>2, <2>5
    <2>. QED
      BY <1>1, <2>1, <2>2, <2>6
  <1>3. CASE Variant # "base"
    <2>1. Per = env.per /\ Block = OptBlock /\ Per \in Nat \ {0} /\ Per <= IntMax
      BY <1>3, IntRange, Widths DEF Per, Block, Variant
    <2>. DEFINE q == (count + Per - 1) \div Per
                b == (q + Block - 1) \div Block
    <2>2. /\ q \in Nat \ {0} /\ q <= count
          /\ q * Per \in Nat /\ count <= q * Per /\ q * Per <= count + Per - 1
      BY <1>1, <2>1, RoundedUp
    <2>3. (count + Per - 1) % NonceMod = count + Per - 1
      BY <1>1, <2>1, IntRange, Residue
    <2>. HIDE DEF q
    <2>4. /\ b \in Nat \ {0} /\ b <= q
          /\ b * Block \in Nat /\ q <= b * Block /\ b * Block <= q + Block - 1
      BY <1>1, <2>2, RoundedUp
    <2>5. ToInt(q) = q /\ ToInt(q + Block - 1) = q + Block - 1
      BY <1>1, <2>2, ToIntSame
    <2>6. n = Block * b
      <3>1. \A x \in BlocksFor(q, Block) : x = b
        BY <2>5 DEF BlocksFor, b
      <3>. QED
        BY <1>3, <2>1, <2>3, <2>5, <3>1 DEF Grids, q
    <2>. HIDE DEF b
    <2>7. n = b * Block /\ n \in Nat \ {0}
      BY <1>1, <2>2, <2>4, <2>6
    <2>8. q * Per <= n * Per /\ n * Per <= (q + Block - 1) * Per
      BY <1>1, <2>1, <2>2, <2>4, <2>7, ProductGrows
    <2>9. (q + (Block - 1)) * Per = q * Per + (Block - 1) * Per
      BY <1>1, <2>1, <2>2
    <2>10. (Block - 1) * Per = Block * Per - Per /\ Block * Per = Per * Block
      BY <1>1, <2>1
    <2>11. q + Block - 1 = q + (Block - 1)
      BY <1>1, <2>2
    <2>12. n * Per \in Nat /\ Per * Block \in Nat
      BY <1>1, <2>1, <2>7, ProductIsNatural
    <2>. QED
      BY <1>1, <2>1, <2>2, <2>7, <2>8, <2>9, <2>10, <2>11, <2>12
  <1>. QED
    BY <1>2, <1>3

\* Only a launch changes the range and the grid.
LEMMA ShareInvariant == Spec => []ShareInv
  <1>1. Init => Enough
    <2>1. ASSUME Init PROVE call.count = 0
      BY <2>1 DEF Init
    <2>2. ASSUME Init PROVE MaxServed \in Int
      BY IntRange, Widths DEF MaxServed
    <2>. QED
      BY <2>1, <2>2 DEF Enough
  <1>2. ASSUME KernelInv, Enough, [Next]_vars PROVE Enough'
    <2>1. ASSUME NEW start \in Starts, NEW count \in Counts, Launch(start, count)
          PROVE  Enough'
      <3>1. PICK n \in Grids(count) : threads' = IF n > 0 THEN n ELSE 0
        BY <2>1 DEF Launch
      <3>2. call' = [start |-> start, count |-> count] /\ env' = env
        BY <2>1 DEF Launch
      <3>3. /\ Per' = Per /\ Block' = Block /\ MaxServed' = MaxServed /\ call'.count = count
        BY <3>2 DEF Per, Block, Variant, MaxServed
      <3>4. ASSUME count \in 1 .. MaxServed
            PROVE  threads' * Per >= count /\ threads' * Per <= count + Per * Block - 1
        <4>1. /\ n \in Nat \ {0} /\ n * Per >= count /\ n * Per <= count + Per * Block - 1
          BY <1>2, <3>4, GridIsEnough DEF KernelInv, TypeOK
        <4>2. threads' = n
          BY <3>1, <4>1
        <4>. QED
          BY <4>1, <4>2
      <3>. QED
        BY <3>3, <3>4 DEF Enough
    <2>2. ASSUME UNCHANGED <<env, call, threads>> PROVE Enough'
      BY <1>2, <2>2 DEF Enough, Per, Block, Variant, MaxServed
    <2>3. CASE Kernel
      BY <2>2, <2>3 DEF Kernel, Store, Claim, launchVars
    <2>4. CASE Collect \/ Throw \/ UNCHANGED vars
      BY <2>2, <2>4 DEF Collect, Throw, launchVars, vars
    <2>. QED
      BY <1>2, <2>1, <2>3, <2>4 DEF Next, Thrown
  <1>. QED
    BY <1>1, <1>2, KernelInvariant, PTL DEF Spec, KernelInv, ShareInv

\* In the range that is served completely no number overflows.
LEMMA NoWrap ==
  ASSUME ShareInv, call.count \in 1 .. MaxServed
  PROVE  /\ Per \in Nat \ {0} /\ Block \in Nat \ {0} /\ threads \in Nat
         /\ threads * Per \in Nat /\ threads * Per < WordMod
         /\ call.start \in Nat /\ call.start < NonceMod /\ call.count \in Nat
         /\ call.count <= threads * Per
         /\ threads * Per <= call.count + Per * Block - 1
         /\ Per * Block \in Nat
  <1>1. /\ Per \in Nat \ {0} /\ Block \in Nat \ {0} /\ threads \in Nat
        /\ call.start \in Nat /\ call.start < NonceMod /\ call.count \in Nat
    BY PerType, Widths, IntRange DEF ShareInv, TypeOK, Nonce, Block
  <1>2. /\ call.count <= threads * Per
        /\ threads * Per <= call.count + Per * Block - 1
    BY DEF ShareInv, Enough
  <1>3. threads * Per \in Nat /\ Per * Block \in Nat
    BY <1>1, ProductIsNatural
  <1>4. Per * Block <= IntMax
    <2>1. CASE Variant = "base"
      BY <2>1, IntRange, Widths DEF Per, Block
    <2>2. CASE Variant # "base"
      <3>1. Per <= MaxPer /\ Block = OptBlock
        BY <2>2, Widths DEF ShareInv, TypeOK, Per, Block, Variant
      <3>2. Per * OptBlock <= MaxPer * OptBlock
        BY <1>1, <3>1, Widths, ProductGrows
      <3>. QED
        <4>1. MaxPer * OptBlock <= IntMax /\ MaxPer * OptBlock \in Nat /\ IntMax \in Nat
          BY KernelAssumption, Widths, ProductIsNatural, IntRange
        <4>2. Per * OptBlock \in Nat /\ Per * Block = Per * OptBlock
          BY <1>3, <3>1
        <4>. QED
          BY <3>2, <4>1, <4>2
    <2>. QED
      BY <2>1, <2>2
  <1>5. call.count <= IntMax + 1 - Block
    BY <1>1, IntRange DEF MaxServed, Block
  <1>. QED
    BY <1>1, <1>2, <1>3, <1>4, <1>5, IntRange, Widths

\* The threads divide the numbers from 0 to threads * Per - 1 among themselves.
LEMMA TestedIsInterval ==
  ASSUME ShareInv, call.count \in 1 .. MaxServed
  PROVE  Tested = {(call.start + i) % NonceMod : i \in 0 .. threads * Per - 1}
  <1>1. /\ Per \in Nat \ {0} /\ threads \in Nat /\ threads * Per \in Nat
        /\ threads * Per < WordMod /\ WordMod \in Nat \ {0} /\ call.start \in Nat
    BY NoWrap, Widths
  <1>2. ASSUME NEW t \in Threads, NEW o \in 0 .. Per - 1
        PROVE  /\ t * Per + o \in 0 .. threads * Per - 1
               /\ NonceOf(t, o) = (call.start + (t * Per + o)) % NonceMod
    <2>1. t \in Nat /\ t + 1 <= threads /\ o \in Nat /\ o < Per
      BY <1>1 DEF Threads
    <2>2. (t + 1) * Per <= threads * Per /\ (t + 1) * Per = t * Per + Per /\ t * Per \in Nat
      BY <1>1, <2>1, ProductGrows, ProductIsNatural
    <2>3. t * Per + o \in 0 .. threads * Per - 1
      BY <1>1, <2>1, <2>2
    <2>4. (t * Per) % WordMod = t * Per
      <3>1. t * Per < WordMod
        BY <1>1, <2>1, <2>2
      <3>. QED
        BY <1>1, <2>2, <3>1, ResidueBelow
    <2>. HIDE DEF ShareInv
    <2>5. call.start + t * Per + o = call.start + (t * Per + o)
      BY <1>1, <2>1, <2>2
    <2>. QED
      BY <2>3, <2>4, <2>5 DEF NonceOf
  <1>3. ASSUME NEW i \in 0 .. threads * Per - 1
        PROVE  \E t \in Threads, o \in 0 .. Per - 1 : i = t * Per + o
    <2>. DEFINE t == i \div Per
                o == i % Per
    <2>1. i \in Nat /\ i < threads * Per
      BY <1>1
    <2>2. t \in Nat /\ o \in 0 .. Per - 1 /\ i = Per * t + o
      BY <1>1, <2>1
    <2>. HIDE DEF t, o
    <2>3. Per * t = t * Per /\ t * Per \in Nat
      BY <1>1, <2>2, ProductIsNatural
    <2>4. t < threads
      <3>1. SUFFICES ASSUME threads <= t PROVE FALSE
        BY <1>1, <2>2
      <3>2. threads * Per <= t * Per
        BY <1>1, <2>2, <3>1, ProductGrows
      <3>. QED
        BY <1>1, <2>1, <2>2, <2>3, <3>2
    <2>5. t \in Threads
      BY <1>1, <2>2, <2>4 DEF Threads
    <2>. QED
      BY <2>2, <2>3, <2>5
  <1>4. ASSUME NEW w \in Work
        PROVE  \E i \in 0 .. threads * Per - 1 :
                  NonceOf(w[1], w[2]) = (call.start + i) % NonceMod
    <2>1. w[1] \in Threads /\ w[2] \in 0 .. Per - 1
      BY DEF Work
    <2>. QED
      BY <1>2, <2>1
  <1>5. ASSUME NEW i \in 0 .. threads * Per - 1
        PROVE  \E w \in Work : NonceOf(w[1], w[2]) = (call.start + i) % NonceMod
    <2>1. PICK t \in Threads, o \in 0 .. Per - 1 : i = t * Per + o
      BY <1>3
    <2>2. <<t, o>> \in Work /\ <<t, o>>[1] = t /\ <<t, o>>[2] = o
      BY DEF Work
    <2>. QED
      BY <1>2, <2>1, <2>2
  <1>. QED
    BY <1>4, <1>5 DEF Tested

\* The threads of a grid share out the range: no nonce is tested twice, all that were
\* asked for are tested, and less than a block's worth beyond them, as long as the
\* conversions to int do no harm (search_kernel.cu launch_ethash_search).
THEOREM EachNonceOnceHolds == Spec => []EachNonceOnce
  <1>1. ASSUME ShareInv PROVE EachNonceOnce
    <2>. SUFFICES ASSUME call.count \in 1 .. MaxServed
                  PROVE  /\ Asked \subseteq Tested
                         /\ Cardinality(Tested) = threads * Per
                         /\ threads * Per < call.count + Per * (1 + Block)
      BY DEF EachNonceOnce, Block
    <2>. DEFINE P == threads * Per
                f == [i \in 0 .. P - 1 |-> (call.start + i) % NonceMod]
    <2>1. /\ Per \in Nat \ {0} /\ Block \in Nat \ {0} /\ P \in Nat /\ P < NonceMod
          /\ call.start \in Nat /\ call.start < NonceMod /\ call.count \in Nat
          /\ call.count <= P /\ P <= call.count + Per * Block - 1 /\ Per * Block \in Nat
          /\ NonceMod \in Nat \ {0}
      BY <1>1, NoWrap, IntRange, Widths
    <2>2. Tested = {(call.start + i) % NonceMod : i \in 0 .. P - 1}
      BY <1>1, TestedIsInterval
    <2>. HIDE DEF P
    <2>3. Asked \subseteq Tested
      BY <2>1, <2>2 DEF Asked
    <2>4. Cardinality(Tested) = P
      <3>1. f \in [0 .. P - 1 -> Tested] /\ \A c \in Tested : \E i \in 0 .. P - 1 : f[i] = c
        BY <2>2
      <3>2. ASSUME NEW i \in 0 .. P - 1
            PROVE  f[i] = IF call.start + i < NonceMod THEN call.start + i
                                                       ELSE call.start + i - NonceMod
        <4>1. call.start + i \in Nat /\ call.start + i < 2 * NonceMod
          BY <2>1
        <4>2. f[i] = (call.start + i) % NonceMod
          OBVIOUS
        <4>. HIDE DEF f
        <4>. QED
          BY <2>1, <4>1, <4>2, ResidueAround
      <3>. HIDE DEF f
      <3>3. \A i, j \in 0 .. P - 1 : f[i] = f[j] => i = j
        BY <2>1, <3>2
      <3>4. f \in Bijection(0 .. P - 1, Tested)
        BY <3>1, <3>3, Fun_IsBij
      <3>5. IsFiniteSet(0 .. P - 1) /\ Cardinality(0 .. P - 1) = P
        <4>1. P - 1 \in Int /\ 0 \in Int
          BY <2>1
        <4>2. /\ IsFiniteSet(0 .. P - 1)
              /\ Cardinality(0 .. P - 1) = IF 0 > P - 1 THEN 0 ELSE P - 1 - 0 + 1
          BY <4>1, FS_Interval
        <4>. QED
          BY <2>1, <4>2
      <3>. QED
        BY <3>4, <3>5, FS_Bijection DEF ExistsBijection
    <2>5. Per * (1 + Block) = Per + Per * Block
      BY <2>1
    <2>. QED
      BY <2>1, <2>3, <2>4, <2>5 DEF P
  <1>. QED
    BY <1>1, ShareInvariant, PTL
=============================================================================
