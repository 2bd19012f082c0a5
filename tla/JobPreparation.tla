--------------------------- MODULE JobPreparation ----------------------------
(***************************************************************************)
(* What becomes of the values of a job: the texts of mining.notify, the    *)
(* hashes, the epoch, the size of the DAG and the items of the DAG, written *)
(* in batches by the threads of the GPU; and the target of                 *)
(* mining.set_difficulty.                                                  *)
(*                                                                         *)
(* Sizes are numbers of items, of 64 bytes; numbers that are 32 bits wide  *)
(* in the code are numbers modulo WordMod.  Where the DAG lies, and what   *)
(* happens when there is no room for it, is the subject of DagMemory.      *)
(***************************************************************************)
EXTENDS HexText, FiniteSets

CONSTANTS
    Keccak,        \* external: keccak256, a function on hashes
    MaxEpochScan,  \* MAX_EPOCH_SCAN (2000)
    ForkEpoch,     \* epoch of ECIP-1099 (390)
    BaseItems, Growth,   \* items of the DAG of epoch 0 (2^24), and more per epoch (2^17)
    BatchSize,     \* items per launch (2^20)
    BlockSize,     \* threadsPerBlock (256)
    WordMod,       \* 2^32
    Notifications, \* the pairs of header and seed texts the pool sends
    Difficulty,    \* the difficulties it sets
    DebugTargets   \* what OHMY_DEBUG_TARGET_HEX may hold, NoTarget included

Hash == [1 .. HashBytes -> Byte]
MaxTarget == NumberOfHash([i \in 1 .. HashBytes |-> Radix * Radix - 1])
NoTarget == -1
NoEpoch == -1      \* UINT32_MAX
Garbage == -1      \* a byte that was never written

ASSUME PreparationAssumption ==
    /\ Keccak \in [Hash -> Hash]
    /\ {BaseItems, BatchSize, BlockSize, MaxEpochScan} \subseteq Nat \ {0}
    /\ Growth \in Nat /\ WordMod \in Nat
    /\ ForkEpoch \in Nat /\ ForkEpoch % 2 = 0
    /\ BaseItems + Growth * MaxEpochScan + BatchSize <= WordMod
    /\ Notifications \subseteq [header : Seq(Char), seed : Seq(Char)]
    /\ DebugTargets \subseteq 0 .. MaxTarget \cup {NoTarget}

VARIABLES
    texts,         \* header and seed of the last mining.notify
    job,           \* currentJob_: headerHash, seedHash, epoch
    debugTarget,   \* OHMY_DEBUG_TARGET_HEX
    difficulty,    \* lastDifficulty_
    target,        \* currentTarget_
    dagEpoch,      \* currentDagEpoch_
    generating,    \* whether generateDagGpu is running
    start,         \* its loop variable
    written,       \* how often each item of the DAG has been written
    refused        \* whether a launch has failed

vars == <<texts, job, debugTarget, difficulty, target, dagEpoch, generating, start,
          written, refused>>
dagVars == <<dagEpoch, generating, start, written, refused>>
targetVars == <<debugTarget, difficulty, target>>

-----------------------------------------------------------------------------
(* Epochs and sizes.                                                       *)

Zero == [i \in 1 .. HashBytes |-> 0]
Seed[e \in 0 .. MaxEpochScan] == IF e = 0 THEN Zero ELSE Keccak[Seed[e - 1]]

\* Faulty variant: the hash is applied before it is compared.
ScanHashingFirst(seed) == {e \in 0 .. MaxEpochScan - 1 : Seed[e + 1] = seed}

\* The epochs epochFromSeedHash finds, of which it returns the first.
Scan(seed) == {e \in 0 .. MaxEpochScan - 1 : Seed[e] = seed}

\* The epoch of a job: 0 if its seed is not found.
EpochOf(seed) ==
    IF Scan(seed) = {} THEN 0 ELSE CHOOSE e \in Scan(seed) : \A f \in Scan(seed) : e <= f

\* Faulty variant: growth goes on from the epoch of the fork.
SizeEpochFromFork(e) == IF e >= ForkEpoch THEN ForkEpoch + (e - ForkEpoch) \div 2 ELSE e

\* The epoch of which a DAG has the size, since ECIP-1099.
SizeEpoch(e) == IF e >= ForkEpoch THEN ForkEpoch \div 2 + (e - ForkEpoch) \div 2 ELSE e

\* getDatasetSize in items.
DatasetItems(e) == (BaseItems + Growth * SizeEpoch(e)) % WordMod

Item == 0 .. BaseItems + Growth * MaxEpochScan + BatchSize * BlockSize

-----------------------------------------------------------------------------
(* Targets.                                                                *)

\* targetFromDifficulty: only 1 and 2 are implemented.
targetFromDifficulty(d) ==
    IF d = 2 THEN (MaxTarget + 1) \div 2 ELSE MaxTarget

\* onDifficultyUpdate.
SetDifficulty(d) ==
    /\ ~generating
    /\ difficulty' = d
    /\ target' = IF debugTarget # NoTarget THEN debugTarget ELSE targetFromDifficulty(d)
    /\ UNCHANGED <<texts, job, debugTarget, dagVars>>

-----------------------------------------------------------------------------
(* Jobs.                                                                   *)

\* What the hash of a new MiningJob holds before it is parsed: nothing in particular,
\* often what the last job left on the stack.
Uninitialized(last) == {[i \in 1 .. HashBytes |-> Garbage], last}

Init ==
    /\ texts = [header |-> <<>>, seed |-> <<>>]
    /\ job = [header |-> Zero, seed |-> Zero, epoch |-> NoEpoch]
    /\ debugTarget \in DebugTargets
    /\ difficulty = 0
    /\ target = MaxTarget
    /\ dagEpoch = NoEpoch
    /\ generating = FALSE /\ start = 0 /\ refused = FALSE
    /\ written = [i \in Item |-> 0]

\* processNotification and onJobReceived up to generateDagGpu: a text that is not a
\* hash is only warned of.
Notify(header, seed) ==
    /\ ~generating
    /\ texts' = [header |-> header, seed |-> seed]
    /\ \E h \in Uninitialized(job.header), s \in Uninitialized(job.seed) :
         LET parsed == hexToHash32(seed, s).hash
         IN  job' = [header |-> hexToHash32(header, h).hash, seed |-> parsed,
                     epoch |-> EpochOf(parsed)]
    /\ IF job'.epoch = dagEpoch THEN UNCHANGED dagVars
       ELSE /\ generating' = TRUE /\ start' = 0 /\ refused' = FALSE
            /\ written' = [i \in Item |-> 0]
            /\ UNCHANGED dagEpoch
    /\ UNCHANGED targetVars

NumItems == DatasetItems(job.epoch)
Count == IF BatchSize <= NumItems - start THEN BatchSize ELSE NumItems - start

\* Faulty variant: the division is not rounded up.
BlocksRoundedDown == Count \div BlockSize

Blocks == (Count + BlockSize - 1) \div BlockSize

\* Faulty variant: a thread beyond the batch writes, too.
AllThreads == {start + i : i \in 0 .. Blocks * BlockSize - 1}

\* The items the threads of a launch write.
BatchItems == {start + i : i \in {j \in 0 .. Blocks * BlockSize - 1 : j < Count}}

\* A round of the loop of generateDagGpu.  A launch that is refused is printed.
GenerateBatch(launched) ==
    /\ generating /\ start < NumItems
    /\ written' = IF launched
                  THEN [i \in Item |-> written[i] + (IF i \in BatchItems THEN 1 ELSE 0)]
                  ELSE written
    /\ refused' = (refused \/ ~launched)
    /\ start' = (start + BatchSize) % WordMod
    /\ UNCHANGED <<texts, job, targetVars, dagEpoch, generating>>

\* Faulty variant: an incomplete DAG is generated again.
GeneratedRetrying ==
    /\ generating /\ start >= NumItems
    /\ IF refused THEN /\ start' = 0 /\ refused' = FALSE /\ written' = [i \in Item |-> 0]
                       /\ UNCHANGED <<generating, dagEpoch>>
       ELSE generating' = FALSE /\ dagEpoch' = job.epoch /\ UNCHANGED <<start, written, refused>>
    /\ UNCHANGED <<texts, job, targetVars>>

\* The end of the loop, and of initializeDag.
Generated ==
    /\ generating /\ start >= NumItems
    /\ generating' = FALSE
    /\ dagEpoch' = job.epoch
    /\ UNCHANGED <<texts, job, targetVars, start, written, refused>>

Generation == Generated \/ \E launched \in BOOLEAN : GenerateBatch(launched)

Next ==
    \/ \E n \in Notifications : Notify(n.header, n.seed)
    \/ \E d \in Difficulty : SetDifficulty(d)
    \/ Generation

Spec == Init /\ [][Next]_vars

\* Launches return; any number of them may be refused.
FairSpec == Spec /\ WF_vars(Generation)

-----------------------------------------------------------------------------
(* Properties.                                                             *)

TypeOK ==
    /\ texts \in [header : Seq(Char), seed : Seq(Char)]
    /\ job \in [header : [1 .. HashBytes -> Byte \cup {Garbage}],
                seed : [1 .. HashBytes -> Byte \cup {Garbage}],
                epoch : 0 .. MaxEpochScan - 1 \cup {NoEpoch}]
    /\ debugTarget \in DebugTargets /\ difficulty \in Difficulty \cup {0}
    /\ target \in 0 .. MaxTarget
    /\ dagEpoch \in 0 .. MaxEpochScan - 1 \cup {NoEpoch}
    /\ generating \in BOOLEAN /\ refused \in BOOLEAN
    /\ start \in 0 .. WordMod - 1
    /\ written \in [Item -> Nat]

\* The header in a share is the one the pool has sent, with or without prefix, with or
\* without leading zeros (hex_utils.cpp hexToHash32, hash32ToHex, stratum_client.cpp
\* processNotification, submitSolution).
ShareEchoesHeader ==
    WellFormed(texts.header) =>
        LET echo == hash32ToHex(job.header)
        IN  /\ WellFormed(echo)
            /\ Len(echo) = 2 + 2 * HashBytes
            /\ NumberOfText(echo) = NumberOfText(texts.header)

\* A seed of one of the epochs that are scanned gives the job this epoch, and an epoch
\* other than 0 comes from its seed (ethash.cpp epochFromSeedHash).
EpochBelongsToSeed ==
    /\ \A e \in 0 .. MaxEpochScan - 1 :
         WellFormed(texts.seed) /\ NumberOfText(texts.seed) = NumberOfHash(Seed[e])
           /\ job.epoch # NoEpoch => job.epoch = e
    /\ job.epoch > 0 => job.seed = Seed[job.epoch]

\* The number of items of a DAG by ECIP-1099, by which an epoch is twice as long since
\* the fork (ethash.cpp getDatasetSize).
ItemsByBlock(e) == BaseItems + Growth * (IF e < ForkEpoch THEN e ELSE e \div 2)

\* The DAG has the items of its epoch: each is written once, by one thread of one batch,
\* if no launch was refused, and nothing is ever written beyond it (dag_kernel.cu
\* generate_dag_item_kernel, generateDagGpu).
EachItemOnce ==
    /\ \A i \in Item :
         written[i] <= IF job.epoch # NoEpoch /\ i < ItemsByBlock(job.epoch) THEN 1 ELSE 0
    /\ ~generating /\ ~refused /\ dagEpoch # NoEpoch =>
         \A i \in 0 .. ItemsByBlock(dagEpoch) - 1 : written[i] = 1

\* The loop over the batches ends, however many launches are refused (dag_kernel.cu
\* generateDagGpu).
GenerationEnds == generating ~> ~generating
=============================================================================
