------------------------------ MODULE DagMemory ------------------------------
(***************************************************************************)
(* Who owns the DAG.  MiningEngine::initializeDag asks the DagGenerator    *)
(* for the DAG of an epoch; the generator allocates it in GPU memory and   *)
(* remembers the pointer, and DeviceManager::initDeviceZeroCopy adopts the *)
(* same pointer.  Neither ever frees a DAG before it is destroyed, and     *)
(* each frees the pointer it holds when it is.                             *)
(*                                                                         *)
(* Every call below is made by the one thread that runs the engine.  The   *)
(* CUDA calls are external: each may fail, and a failure is either         *)
(* returned (an error code the code tests) or thrown (CUDA_CHECK).         *)
(***************************************************************************)
EXTENDS Naturals

CONSTANTS
    Epoch,      \* the epochs the pool's jobs may belong to
    NoEpoch,    \* UINT32_MAX: no DAG yet
    Addr,       \* DAG-sized blocks of GPU memory; its size is the VRAM capacity
    NoAddr      \* nullptr

ASSUME EpochAssumption == Epoch \subseteq Nat /\ 0 \in Epoch /\ NoEpoch \notin Epoch
ASSUME AddrAssumption  == NoAddr \notin Addr

VARIABLES
    heap,       \* heap[a]: the epoch whose DAG the block holds, NoEpoch when free
    gen,        \* DagGenerator::Impl
    dev,        \* DeviceManager::Impl, the part that concerns the DAG
    dagEpoch,   \* MiningEngine::currentDagEpoch_
    dagCall     \* how the last initializeDag ended

dagVars == <<heap, gen, dev, dagEpoch, dagCall>>

\* Sizes are represented by the epoch they were computed for (getDatasetSize);
\* NoEpoch stands for size 0.
Generator == [epoch : Epoch, host : BOOLEAN, size : Epoch \cup {NoEpoch},
              dag : Addr \cup {NoAddr}]
Device    == [dag : Addr \cup {NoAddr}, size : Epoch \cup {NoEpoch}, ready : BOOLEAN]
Outcome   == {"none", "ok", "failed", "threw", "destroyed"}

DagInit ==
    /\ heap = [a \in Addr |-> NoEpoch]
    /\ gen = [epoch |-> 0, host |-> FALSE, size |-> NoEpoch, dag |-> NoAddr]
    /\ dev = [dag |-> NoAddr, size |-> NoEpoch, ready |-> FALSE]
    /\ dagEpoch = NoEpoch
    /\ dagCall = "none"

Live == {a \in Addr : heap[a] # NoEpoch}

-----------------------------------------------------------------------------
(* DagGenerator::generate(epoch, true).  The placeholder of an earlier     *)
(* call is freed and dagSize_ overwritten before anything can fail; the    *)
(* block of the earlier epoch is never freed.                              *)

\* hasEpoch, and the early return of generate: a host placeholder is required.
Cached(e) == gen.epoch = e /\ gen.host

\* Faulty variant: the size of the next epoch.
GenerateFailsOffByOne(e) ==
    /\ ~Cached(e)
    /\ gen' = [gen EXCEPT !.size = e + 1, !.host = FALSE]
    /\ UNCHANGED heap

\* An error code: the cache or the DAG did not fit, or the copy failed; what
\* was allocated for this call has been freed.
GenerateFails(e) ==
    /\ ~Cached(e)
    /\ gen' = [gen EXCEPT !.size = e, !.host = FALSE]
    /\ UNCHANGED heap

\* CUDA_CHECK(cudaMemGetInfo) throws before the DAG is allocated, or after,
\* in which case the block is held by a local variable that is lost.
GenerateThrows(e) ==
    /\ ~Cached(e)
    /\ gen' = [gen EXCEPT !.size = e, !.host = FALSE]
    /\ \/ UNCHANGED heap
       \/ \E a \in Addr \ Live : heap' = [heap EXCEPT ![a] = e]

\* Faulty variant: the block of the previous epoch is released by the generator.
GenerateReleasing(e, host) ==
    /\ ~Cached(e)
    /\ \E a \in Addr \ Live :
          /\ heap' = [b \in Addr |-> IF b = a THEN e
                                    ELSE IF b = gen.dag THEN NoEpoch ELSE heap[b]]
          /\ gen' = [epoch |-> e, host |-> host, size |-> e, dag |-> a]

\* The DAG is generated in a fresh block; host tells whether the caller is left
\* with a 128-byte host placeholder.  What generateDagGpu writes into the block,
\* and what it leaves out when a launch fails, is in JobPreparation.
Generate(e, host) ==
    /\ ~Cached(e)
    /\ \E a \in Addr \ Live :
          /\ heap' = [heap EXCEPT ![a] = e]
          /\ gen' = [epoch |-> e, host |-> host, size |-> e, dag |-> a]

-----------------------------------------------------------------------------
(* MiningEngine::initializeDag(epoch): the three ways it can end.          *)

\* generate and initDeviceZeroCopy succeed, freeHostMemory drops the placeholder.
InitializeDagOk(e) ==
    /\ Generate(e, FALSE)
    /\ dev' = [dag |-> gen'.dag, size |-> gen'.size, ready |-> TRUE]
    /\ dagEpoch' = e
    /\ dagCall' = "ok"

\* Faulty variant: the epoch is recorded before its DAG exists.
InitializeDagFailsLate(e) ==
    /\ GenerateFails(e) \/ Generate(e, FALSE)
    /\ dagEpoch' = e
    /\ dagCall' = "failed"
    /\ UNCHANGED dev

\* generate returned nullptr, because of an error code or because the
\* placeholder could not be allocated: logged, and false is returned.
InitializeDagFails(e) ==
    /\ GenerateFails(e) \/ Generate(e, FALSE)
    /\ dagCall' = "failed"
    /\ UNCHANGED <<dev, dagEpoch>>

\* A CUDA_CHECK threw, in generate or in initDeviceZeroCopy, where the device
\* may already have adopted the new pointer but is not marked initialised.
InitializeDagThrows(e) ==
    /\ \/ GenerateThrows(e) /\ UNCHANGED dev
       \/ /\ Generate(e, TRUE)
          /\ \/ UNCHANGED dev
             \/ dev' = [dev EXCEPT !.dag = gen'.dag, !.size = gen'.size]
    /\ dagCall' = "threw"
    /\ UNCHANGED dagEpoch

InitializeDag(e) ==
    InitializeDagOk(e) \/ InitializeDagFails(e) \/ InitializeDagThrows(e)

-----------------------------------------------------------------------------
(* ~MiningEngine destroys its members in the reverse order of declaration: *)
(* the generator frees its DAG first, the device manager its own after;    *)
(* when it is the same block the second cudaFree fails and nobody looks.   *)

Destroy ==
    /\ dagCall # "destroyed"
    /\ heap' = [a \in Addr |-> IF a \in {gen.dag, dev.dag} THEN NoEpoch ELSE heap[a]]
    /\ gen' = [gen EXCEPT !.host = FALSE, !.size = NoEpoch, !.dag = NoAddr]
    /\ dev' = [dev EXCEPT !.dag = NoAddr]
    /\ dagCall' = "destroyed"
    /\ UNCHANGED dagEpoch

\* onJobReceived calls initializeDag only for an epoch it has no DAG for, and
\* never again once an exception has left it.
EpochChange(e) ==
    /\ dagCall \in {"none", "ok", "failed"}
    /\ e # dagEpoch
    /\ InitializeDag(e)

DagNext == (\E e \in Epoch : EpochChange(e)) \/ Destroy

DagSpec == DagInit /\ [][DagNext]_dagVars

-----------------------------------------------------------------------------

\* The types of the generator's, the device's and the engine's fields.
DagTypeOK ==
    /\ heap \in [Addr -> Epoch \cup {NoEpoch}]
    /\ gen \in Generator
    /\ dev \in Device
    /\ dagEpoch \in Epoch \cup {NoEpoch}
    /\ dagCall \in Outcome

\* As long as the engine believes it has the DAG of an epoch, the device is
\* initialised with a block that is still allocated, holds that epoch's DAG and
\* is recorded with that epoch's size: whatever later generations failed, an
\* older DAG the engine still relies on was neither freed nor overwritten
\* (mining_engine.cpp initializeDag, dag_generator.cpp generate).
DeviceHoldsEngineEpoch ==
    dagEpoch # NoEpoch /\ dagCall \in {"none", "ok", "failed"} =>
        /\ dev.ready
        /\ dev.dag \in Live
        /\ heap[dev.dag] = dagEpoch
        /\ dev.size = dagEpoch

\* Until the engine is destroyed, neither component holds a pointer to memory
\* that has been given back: the generator's is to a block that holds the DAG of
\* currentEpoch_, the device's to one of the size recorded with it, also after a
\* throw in the middle of initializeDag.  The generator's own size is left out: after
\* a failed generation it is that of the epoch that failed
\* (dag_generator.cpp generate, device_manager.cu initDeviceZeroCopy).
NoDanglingDag ==
    dagCall # "destroyed" =>
        /\ gen.dag # NoAddr => gen.dag \in Live /\ heap[gen.dag] = gen.epoch
        /\ dev.dag # NoAddr => dev.dag \in Live /\ heap[dev.dag] = dev.size
=============================================================================
