---------------------------- MODULE SearchKernel -----------------------------
(***************************************************************************)
(* One search on the GPU: DeviceManager's searchSync, the launcher, and    *)
(* the threads of the kernel, which share the counter of solutions and the *)
(* buffer.                                                                 *)
(*                                                                         *)
(* Hashing is abstracted to the set Solving.  The widths are those of the  *)
(* code, scaled down: nonces are numbers modulo NonceMod (2^64), block and *)
(* thread numbers modulo WordMod (2^32), and half of that is the range of  *)
(* an int.  The texture kernel is never launched: no caller sets texDAG.   *)
(***************************************************************************)
EXTENDS Integers, FiniteSets, Sequences, Functions

CONSTANTS
    NonceMod,      \* 2^64
    WordMod,       \* 2^32
    BaseBlock,     \* threads per block of the base kernel (1024)
    OptBlock,      \* threads per block of the optimized kernel (512)
    MaxPer,        \* the most nonces per thread the environment may ask for (256)
    MaxSolutions,  \* capacity of the buffer (16)
    Starts, Counts,   \* the ranges that are searched
    Solving,       \* the nonces whose hash is below the target
    Garbage        \* what freshly allocated memory holds

Nonce == 0 .. NonceMod - 1
IntMax == WordMod \div 2 - 1

ASSUME KernelAssumption ==
    /\ {NonceMod, WordMod, BaseBlock, OptBlock, MaxPer, MaxSolutions} \subseteq Nat \ {0}
    /\ WordMod <= NonceMod
    /\ MaxPer * OptBlock <= IntMax /\ BaseBlock <= IntMax
    /\ Starts \subseteq Nonce /\ Counts \subseteq Nonce
    /\ Solving \subseteq Nonce
    /\ Garbage \notin Nonce

VARIABLES
    env,       \* KernelEnvConfig, read once
    host,      \* where searchSync is
    call,      \* startNonce and searchCount of the search under way
    threads,   \* number of threads launched
    at,        \* for each thread: how many of its nonces it is done with
    slot,      \* for each thread: the slot it is about to write, or NoSlot
    counter,   \* *d_solutionCount
    buffer,    \* d_solutions
    number,    \* what the last search returned
    out        \* the caller's vector of solutions

vars == <<env, host, call, threads, at, slot, counter, buffer, number, out>>
launchVars == <<call, threads>>
kernelVars == <<at, slot, counter, buffer>>

NoSlot == -1
Slot == 0 .. MaxSolutions - 1
Threads == 0 .. threads - 1

Init ==
    /\ env \in [optimized : BOOLEAN, per : 1 .. MaxPer]
    /\ host = "idle"
    /\ call = [start |-> 0, count |-> 0]
    /\ threads = 0
    /\ at = [t \in Threads |-> 0] /\ slot = [t \in Threads |-> NoSlot]
    /\ counter = 0
    /\ buffer = [s \in Slot |-> Garbage]
    /\ number = 0 /\ out = <<>>

-----------------------------------------------------------------------------
(* The launcher: which kernel, and with how many threads.                  *)

\* Auto: optimized if the environment says so, else base, and the same if it asks
\* for the texture kernel, as texDAG is 0.
Variant == IF env.optimized THEN "optimized" ELSE "base"
Per == IF Variant = "optimized" THEN env.per ELSE 1

\* Conversion to int.
ToInt(x) == LET w == x % WordMod IN IF w > IntMax THEN w - WordMod ELSE w

\* (n + block - 1) / block with n an int: what an overflow gives is undefined, here
\* the wrapped or the true sum.
BlocksFor(n, block) ==
    {b \div block : b \in {ToInt(n + block - 1), n + block - 1}}

\* The numbers of threads a launch for count nonces may have.  A grid that is not
\* positive is rejected, and nobody looks at the error: no thread runs.
Grids(count) ==
    IF Variant = "base"
    THEN {BaseBlock * ToInt(((count + BaseBlock - 1) % NonceMod) \div BaseBlock)}
    ELSE {OptBlock * b : b \in
             BlocksFor(ToInt(((count + env.per - 1) % NonceMod) \div env.per), OptBlock)}

\* Faulty variant: threads that handle several nonces start one apart.
NonceOverlapping(t, o) == (call.start + (t % WordMod) + o) % NonceMod

\* The o-th nonce of thread t.  The product is one of 32-bit numbers.
NonceOf(t, o) == (call.start + ((t * Per) % WordMod) + o) % NonceMod

\* Everything the kernel tests.
Work == Threads \X (0 .. Per - 1)
Tested == {NonceOf(w[1], w[2]) : w \in Work}

-----------------------------------------------------------------------------
(* The host.                                                               *)

\* searchSync up to the launch: buffers are allocated, the counter is reset.  The
\* caller's vector is a new one or that of the last search.
Launch(start, count) ==
    /\ host = "idle"
    /\ call' = [start |-> start, count |-> count]
    /\ \E n \in Grids(count) :
         /\ threads' = IF n > 0 THEN n ELSE 0
         /\ at' = [t \in 0 .. n - 1 |-> 0]
         /\ slot' = [t \in 0 .. n - 1 |-> NoSlot]
    /\ counter' = 0
    /\ buffer' = [s \in Slot |-> Garbage]
    /\ out' \in {out, <<>>}
    /\ host' = "kernel"
    /\ UNCHANGED <<env, number>>

\* Thread t has tested all its nonces and written what it found.
Done(t) ==
    /\ slot[t] = NoSlot
    /\ \A o \in at[t] .. Per - 1 : NonceOf(t, o) \notin Solving

\* Faulty variant: the buffer is read without waiting for the event.
KernelMaybeDone == TRUE

\* cudaEventSynchronize returns when all threads are done.
KernelDone == \A t \in Threads : Done(t)

AtMost(n) == IF n <= MaxSolutions THEN n ELSE MaxSolutions

\* Faulty variant: one more than the counter says.
CollectOneMore ==
    /\ host = "kernel" /\ KernelDone
    /\ number' = AtMost(counter + 1)
    /\ out' = [i \in 1 .. number' |-> buffer[i - 1]]
    /\ host' = "idle"
    /\ UNCHANGED <<env, launchVars, kernelVars>>

\* searchSync from the wait on: the vector is replaced only if something was found.
Collect ==
    /\ host = "kernel" /\ KernelDone
    /\ number' = AtMost(counter)
    /\ out' = IF number' = 0 THEN out ELSE [i \in 1 .. number' |-> buffer[i - 1]]
    /\ host' = "idle"
    /\ UNCHANGED <<env, launchVars, kernelVars>>

\* A CUDA call fails before or after the launch: the exception leaves the vector as
\* it is, and nothing more is read.
Throw ==
    /\ host \in {"idle", "kernel"}
    /\ host' = "thrown"
    /\ UNCHANGED <<env, launchVars, kernelVars, number, out>>

-----------------------------------------------------------------------------
(* A thread of the kernel.                                                 *)

\* Its next solution.  The nonces before it have no effect and need no step.
NextHit(t, o) ==
    /\ o >= at[t]
    /\ NonceOf(t, o) \in Solving
    /\ \A p \in at[t] .. o - 1 : NonceOf(t, p) \notin Solving

\* Faulty variant: a plain increment; the counter may be read before another
\* thread, which has not yet written its solution, has incremented it.
ClaimNotAtomic(t, o) ==
    /\ host = "kernel" /\ slot[t] = NoSlot /\ NextHit(t, o)
    /\ at' = [at EXCEPT ![t] = o + 1]
    /\ \E read \in {counter} \cup ({slot[u] : u \in Threads} \ {NoSlot}) :
         slot' = [slot EXCEPT ![t] = read] /\ counter' = read + 1
    /\ UNCHANGED <<env, host, launchVars, buffer, number, out>>

\* A hash below the target: the thread takes the next slot with atomicAdd.
Claim(t, o) ==
    /\ host = "kernel" /\ slot[t] = NoSlot /\ NextHit(t, o)
    /\ at' = [at EXCEPT ![t] = o + 1]
    /\ slot' = [slot EXCEPT ![t] = counter]
    /\ counter' = counter + 1
    /\ UNCHANGED <<env, host, launchVars, buffer, number, out>>

\* Faulty variant: a thread without a slot waits for one.
StoreIfRoom(t) ==
    /\ host = "kernel" /\ slot[t] \in Slot
    /\ buffer' = [buffer EXCEPT ![slot[t]] = NonceOf(t, at[t] - 1)]
    /\ slot' = [slot EXCEPT ![t] = NoSlot]
    /\ UNCHANGED <<env, host, launchVars, at, counter, number, out>>

\* It writes the solution there, unless the buffer is full.
Store(t) ==
    /\ host = "kernel" /\ slot[t] # NoSlot
    /\ buffer' = IF slot[t] < MaxSolutions
                 THEN [buffer EXCEPT ![slot[t]] = NonceOf(t, at[t] - 1)] ELSE buffer
    /\ slot' = [slot EXCEPT ![t] = NoSlot]
    /\ UNCHANGED <<env, host, launchVars, at, counter, number, out>>

Kernel == \E t \in Threads : Store(t) \/ \E o \in 0 .. Per - 1 : Claim(t, o)

\* The exception has ended the program; its threads do not matter any more.
Thrown == host = "thrown" /\ UNCHANGED vars

Next ==
    \/ \E start \in Starts, count \in Counts : Launch(start, count)
    \/ Kernel
    \/ Collect
    \/ Throw
    \/ Thrown

Spec == Init /\ [][Next]_vars

\* The hardware runs every thread, and the host waits for them.
FairSpec == Spec /\ WF_vars(Kernel) /\ WF_vars(Collect)

-----------------------------------------------------------------------------
(* Properties.                                                             *)

TypeOK ==
    /\ env \in [optimized : BOOLEAN, per : 1 .. MaxPer]
    /\ host \in {"idle", "kernel", "thrown"}
    /\ call \in [start : Nonce, count : Nonce]
    /\ threads \in Nat
    /\ at \in [Threads -> 0 .. Per]
    /\ slot \in [Threads -> {NoSlot} \cup Nat]
    /\ counter \in Nat
    /\ buffer \in [Slot -> Nonce \cup {Garbage}]
    /\ number \in 0 .. MaxSolutions
    /\ out \in Seq(Nonce)

\* Up to this count no conversion to int does harm, however few nonces a thread has.
MaxServed == IntMax + 1 - (IF Variant = "base" THEN BaseBlock ELSE OptBlock)

Asked == {(call.start + i) % NonceMod : i \in 0 .. call.count - 1}

\* The threads of a grid share out the range: no nonce is tested twice, all that
\* were asked for are tested, and fewer than one block's worth beyond them
\* (search_kernel.cu launch_ethash_search, launch_ethash_search_optimized).
EachNonceOnce ==
    call.count \in 1 .. MaxServed =>
        /\ Asked \subseteq Tested
        /\ Cardinality(Tested) = threads * Per
        /\ threads * Per < call.count + Per * (1 + IF Variant = "base"
                                                  THEN BaseBlock ELSE OptBlock)

\* Each slot below the counter has one owner: it is about to be written by one
\* thread, or it holds a solution and is not written again; those above it are untouched
\* (search_kernel.cu, atomicAdd in the kernels).
SlotsHaveOneOwner ==
    /\ \A s \in Slot :
         s < counter =>
            LET writers == {t \in Threads : slot[t] = s}
            IN  IF buffer[s] = Garbage THEN Cardinality(writers) = 1 ELSE writers = {}
    /\ \A s \in Slot : s >= counter => buffer[s] = Garbage

\* What a search promises its caller, whatever the order in which threads find and
\* write: see NonceSearch (device_manager.hpp search, searchSync).
Promised == INSTANCE NonceSearch WITH
    Capacity <- MaxSolutions,
    MaxAsked <- IntMax + 1 - (IF BaseBlock < OptBlock THEN OptBlock ELSE BaseBlock),
    open <- host # "idle",
    asked <- Asked,
    tested <- Tested,
    result <- Range(out)

KeepsPromise == Promised!SearchSpec

\* A search that was launched returns or throws: no thread waits for another
\* (search_kernel.cu, cudaEventSynchronize in searchSync).
SearchEnds == (host = "kernel") ~> (host # "kernel")
=============================================================================
