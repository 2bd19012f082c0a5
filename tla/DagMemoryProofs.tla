--------------------------- MODULE DagMemoryProofs ---------------------------
(***************************************************************************)
(* Proofs about DagMemory, for any set of epochs and any amount of GPU     *)
(* memory: the three safety properties are inductive together.              *)
(***************************************************************************)
EXTENDS DagMemory, TLAPS

DagInv == DagTypeOK /\ DeviceHoldsEngineEpoch /\ NoDanglingDag

\* The constructors of the generator, the device manager and the engine
\* establish the invariant.
LEMMA DagInitInv == DagInit => DagInv
  <1>. SUFFICES ASSUME DagInit PROVE DagInv
    OBVIOUS
  <1>1. gen \in Generator /\ dev \in Device
    BY EpochAssumption DEF DagInit, Generator, Device
  <1>2. DagTypeOK
    BY <1>1, EpochAssumption DEF DagInit, DagTypeOK, Outcome
  <1>. QED
    BY <1>2 DEF DagInit, DagInv, DeviceHoldsEngineEpoch, NoDanglingDag

\* DagGenerator::generate, when it allocates: the fresh block is not the one the
\* engine relies on, whose contents stay as they were.
LEMMA GenerateFresh ==
  ASSUME DagTypeOK, NEW e \in Epoch, NEW host \in BOOLEAN, Generate(e, host)
  PROVE  /\ heap' \in [Addr -> Epoch \cup {NoEpoch}]
         /\ gen' \in Generator
         /\ gen'.dag \in Addr /\ gen'.epoch = e /\ gen'.size = e /\ gen'.host = host
         /\ gen'.dag \in Live' /\ heap'[gen'.dag] = e
         /\ \A a \in Live : a \in Live' /\ heap'[a] = heap[a]
  BY EpochAssumption DEF DagTypeOK, Generate, Generator, Live

\* A successful MiningEngine::initializeDag preserves the invariant.
LEMMA OkPreserves ==
  ASSUME DagInv, NEW e \in Epoch, InitializeDagOk(e)
  PROVE  DagInv'
  <1>1. Generate(e, FALSE) /\ DagTypeOK
    BY DEF InitializeDagOk, DagInv
  <1>2. /\ heap' \in [Addr -> Epoch \cup {NoEpoch}]
        /\ gen' \in Generator
        /\ gen'.dag \in Addr /\ gen'.epoch = e /\ gen'.size = e /\ gen'.host = FALSE
        /\ gen'.dag \in Live' /\ heap'[gen'.dag] = e
    BY <1>1, GenerateFresh
  <1>3. dev' = [dag |-> gen'.dag, size |-> gen'.size, ready |-> TRUE]
        /\ dagEpoch' = e /\ dagCall' = "ok"
    BY DEF InitializeDagOk
  <1>4. DagTypeOK'
    BY <1>1, <1>2, <1>3 DEF DagTypeOK, Device, Outcome
  <1>. QED
    BY <1>2, <1>3, <1>4
    DEF DagInv, DeviceHoldsEngineEpoch, NoDanglingDag

\* So does one that fails, whatever it had allocated: the DAG in use stays.
LEMMA FailsPreserves ==
  ASSUME DagInv, NEW e \in Epoch, dagCall \in {"none", "ok", "failed"},
         InitializeDagFails(e)
  PROVE  DagInv'
  <1>1. dagCall' = "failed" /\ dev' = dev /\ dagEpoch' = dagEpoch
    BY DEF InitializeDagFails
  <1>2. CASE GenerateFails(e)
    BY <1>1, <1>2
    DEF DagInv, DagTypeOK, DeviceHoldsEngineEpoch, NoDanglingDag,
        GenerateFails, Generator, Device, Outcome, Live
  <1>3. CASE Generate(e, FALSE)
    <2>1. /\ heap' \in [Addr -> Epoch \cup {NoEpoch}]
          /\ gen' \in Generator
          /\ gen'.dag \in Addr /\ gen'.epoch = e /\ gen'.size = e /\ gen'.host = FALSE
          /\ gen'.dag \in Live' /\ heap'[gen'.dag] = e
          /\ \A a \in Live : a \in Live' /\ heap'[a] = heap[a]
      BY <1>3, GenerateFresh DEF DagInv
    <2>. QED
      BY <1>1, <2>1
      DEF DagInv, DagTypeOK, DeviceHoldsEngineEpoch, NoDanglingDag,
          Outcome
  <1>. QED
    BY <1>2, <1>3 DEF InitializeDagFails

\* An exception in the middle of initializeDag leaves the generator's pointer with
\* its epoch and the device's with its size.
LEMMA ThrowsPreserves ==
  ASSUME DagInv, NEW e \in Epoch, dagCall \in {"none", "ok", "failed"},
         InitializeDagThrows(e)
  PROVE  DagInv'
  <1>1. dagCall' = "threw" /\ dagEpoch' = dagEpoch
    BY DEF InitializeDagThrows
  <1>2. CASE GenerateThrows(e) /\ UNCHANGED dev
    <2>1. /\ heap' \in [Addr -> Epoch \cup {NoEpoch}]
          /\ \A a \in Live : a \in Live' /\ heap'[a] = heap[a]
      BY <1>2, EpochAssumption DEF GenerateThrows, DagInv, DagTypeOK, Live
    <2>2. gen' = [gen EXCEPT !.size = e, !.host = FALSE]
      BY <1>2 DEF GenerateThrows
    <2>3. gen' \in Generator /\ gen'.dag = gen.dag /\ gen'.epoch = gen.epoch
      BY <2>2 DEF DagInv, DagTypeOK, Generator
    <2>. QED
      BY <1>1, <1>2, <2>1, <2>3
      DEF DagInv, DagTypeOK, DeviceHoldsEngineEpoch, NoDanglingDag,
          Outcome
  <1>3. CASE Generate(e, TRUE)
    <2>1. /\ heap' \in [Addr -> Epoch \cup {NoEpoch}]
          /\ gen' \in Generator
          /\ gen'.dag \in Addr /\ gen'.epoch = e /\ gen'.size = e
          /\ gen'.dag \in Live' /\ heap'[gen'.dag] = e
          /\ \A a \in Live : a \in Live' /\ heap'[a] = heap[a]
      BY <1>3, GenerateFresh DEF DagInv
    <2>2. CASE dev' = dev
      BY <1>1, <2>1, <2>2
      DEF DagInv, DagTypeOK, DeviceHoldsEngineEpoch, NoDanglingDag,
          Outcome
    <2>3. CASE dev' = [dev EXCEPT !.dag = gen'.dag, !.size = gen'.size]
      <3>1. dev' \in Device /\ dev'.dag = gen'.dag /\ dev'.size = e
        BY <2>1, <2>3 DEF DagInv, DagTypeOK, Device
      <3>. QED
        BY <1>1, <2>1, <3>1
        DEF DagInv, DagTypeOK, DeviceHoldsEngineEpoch, NoDanglingDag, Outcome
    <2>4. UNCHANGED dev \/ dev' = [dev EXCEPT !.dag = gen'.dag, !.size = gen'.size]
      BY <1>2, <1>3 DEF InitializeDagThrows
    <2>. QED
      BY <2>2, <2>3, <2>4
  <1>. QED
    BY <1>2, <1>3 DEF InitializeDagThrows

\* ~MiningEngine leaves no pointer behind.
LEMMA DestroyPreserves ==
  ASSUME DagInv, Destroy
  PROVE  DagInv'
  BY DEF DagInv, Destroy, DagTypeOK, DeviceHoldsEngineEpoch, NoDanglingDag, Generator,
         Device, Outcome

\* Every call the engine makes preserves the invariant.
LEMMA DagNextInv == DagInv /\ [DagNext]_dagVars => DagInv'
  <1>. SUFFICES ASSUME DagInv, [DagNext]_dagVars PROVE DagInv'
    OBVIOUS
  <1>1. ASSUME NEW e \in Epoch, EpochChange(e) PROVE DagInv'
    BY <1>1, OkPreserves, FailsPreserves, ThrowsPreserves DEF EpochChange, InitializeDag
  <1>2. CASE Destroy
    BY <1>2, DestroyPreserves
  <1>3. CASE UNCHANGED dagVars
    BY <1>3 DEF dagVars, DagInv, DagTypeOK, DeviceHoldsEngineEpoch, NoDanglingDag, Live
  <1>. QED
    BY <1>1, <1>2, <1>3 DEF DagNext

LEMMA DagInvariant == DagSpec => []DagInv
  BY DagInitInv, DagNextInv, PTL DEF DagSpec

\* The fields of the generator, the device manager and the engine keep their
\* types (dag_generator.cpp, device_manager.cu, mining_engine.cpp).
THEOREM DagTypeCorrect == DagSpec => []DagTypeOK
  BY DagInvariant, PTL DEF DagInv

\* Whatever generations fail or throw, as long as the engine believes it has an
\* epoch's DAG the device holds it (mining_engine.cpp initializeDag).
THEOREM DeviceHoldsEngineEpochHolds == DagSpec => []DeviceHoldsEngineEpoch
  BY DagInvariant, PTL DEF DagInv

\* Before the engine is destroyed no component holds a pointer to freed memory: the
\* generator's is to a DAG of its epoch, the device's to one of the recorded size
\* (dag_generator.cpp generate, device_manager.cu initDeviceZeroCopy).
THEOREM NoDanglingDagHolds == DagSpec => []NoDanglingDag
  BY DagInvariant, PTL DEF DagInv
=============================================================================
