# OhMy Miner ETC: TLA+ models, model checking and proofs

This directory verifies the control logic of the miner in `../src`: one
process that connects to a Stratum pool, keeps the Etchash DAG of the current
epoch in GPU memory, searches nonces on the GPU and submits what it finds.
Paths below are relative to the repository; line numbers are in
`PROJECT.json`, under `map`, for every definition.

## The system

| Component | State | Operations | Modelled by |
|---|---|---|---|
| `main`, `MiningEngine` (`src/core/mining_engine.cpp`, `src/miner_main.cpp`) | `g_running`, `currentJob_`, `hasJob_`, `lastDifficulty_`, `currentDagEpoch_`, share counters | `initialize`, `run`, `onJobReceived`, `onDifficultyUpdate`, `initializeDag`, `processSolutions`, signal handler, destructor | `MiningEngine`, `MiningSession` |
| `StratumClient` (`src/network/stratum_client.cpp`) | socket, `connected_`, `currentJob_` | `connect`, `subscribe`, `authorize`, `submitSolution`, `processMessages`, `sendMessage`, `receiveMessage` | `StratumClient`, ordered by `MiningEngine` |
| Job values (`processNotification`, `src/utils/`, `src/core/ethash.cpp`) | header, seed, epoch, target | `hexToHash32`, `hash32ToHex`, `epochFromSeedHash`, `getDatasetSize`, `targetFromDifficulty` | `HexText`, `JobPreparation` |
| `DagGenerator` (`src/dag/dag_generator.cpp`) | epoch, host placeholder, size, GPU pointer | `generate`, `hasEpoch`, `freeHostMemory`, destructor | `DagMemory` |
| DAG kernel (`src/cuda/dag_kernel.cu`) | the items | `generateDagGpu`, `generate_dag_item_kernel` | `JobPreparation` |
| `DeviceManager`, single GPU (`src/cuda/device_manager.cu`) | DAG pointer and size, streams, events, hash count | `initDevice`, `initDeviceZeroCopy`, `searchSync`, `searchAsync`, `cleanup` | `DagMemory` (DAG), `DeviceResources` (all CUDA resources), `SearchKernel`, `AsyncPipeline` |
| Launcher and kernels (`src/cuda/kernels/`) | solution counter and buffer, grid | `launch_ethash_search`, base and optimized kernel | `SearchKernel`, `NonceSearch` |
| Asynchronous pipeline (`src/cuda/pipeline/`) | round-robin streams, pinned and device buffers, pending counts | `runAsyncTick`, `stageWork`, `collectResults`, `initialize`, `cleanup` | `AsyncPipeline`, `BatchService` |
| `DeviceManager`, several GPUs (`device_manager.cu`, `core/`, `modules/`) | device states | `initDeviceWithMultiGpu`, `initializeAllDevices` | `DeviceResources` |
| Mining threads (`threading/`), result callback, statistics, profiler, logger, configuration, `TcpConnection` | | | not modelled, see the end |

How they interact. Everything the host does at run time happens on one
thread: `main` calls `MiningEngine::run`, whose loop polls the socket at most
every 100 ms (`processMessages`), calls back into the engine from inside the
parser (`onJobReceived`, which may spend minutes in `initializeDag`), searches
one batch, and submits each solution with a blocking request and answer on the
same socket. The engine and the client each keep a current job. The generator
and the device manager each keep a pointer to the same block of GPU memory.
What runs concurrently is outside the thread: the pool, the network, the user
who presses Ctrl+C, and the GPU, whose streams advance on their own and whose
threads share one counter and one buffer of solutions. (The progress monitor of
the generator only logs.)

What is hard to get right: answers and notifications share one stream without
being told apart by id; TCP splits and merges messages; `initializeDag` can
fail or throw between any two of its assignments; a share is put together from
two copies of the job; the DAG has two owners, and every other CUDA resource is
created at one of several points that may throw; buffers of a stream are reused
when its event says so; thousands of threads claim slots of one buffer; grids
are computed in ints; the loop must come back to the stop flag whatever the pool
does. `PROJECT.json`, under `hazards`, lists each at its line with the
properties aimed at it.

## The modules

`MiningEngine` composes `StratumClient` and `DagMemory`. The other components
are each called by it in one place, and each has a module of its own that makes
explicit what the engine's model takes as one step: `SearchKernel` the batch of
`SearchResult`, `JobPreparation` the values of a job and the content of the DAG
behind `ParseNotify`, `DeviceResources` everything `initDeviceZeroCopy` creates
besides the DAG. `AsyncPipeline` is the alternative to `searchSync` behind the
same interface. Three abstract specifications, `MiningSession`, `NonceSearch` and
`BatchService`, say what the engine, a search and the pipeline promise; for the
engine's dealings with the GPU's memory `DagMemory` plays that part too.

**DagMemory** is the contract of the DAG's memory. `heap` tells which blocks
are allocated and for which epoch, `gen` and `dev` are the fields of the
generator and of the device manager. `InitializeDagOk`, `InitializeDagFails` and
`InitializeDagThrows` are the three ways `initializeDag` can end, each with
everything it has changed by then; `Destroy` is the destruction of the engine.
The size of a DAG is represented by the epoch it was computed for.

**StratumClient** has the client's fields, the TCP stream and the pool. A
message is `Pieces` fragments; `recv` takes any prefix that fits `RecvMax`. The
client's calls are operators (`Send`, `Recv`, `RecvEof`, `Parses`, `Grants`,
`SkipsTail`, ...); the pool and the network are actions. `peer` is the
connection as the client's kernel sees it; a reset is reported by one failing
call ("rst"), after which a `recv` returns end of stream and a `send` raises
SIGPIPE ("dead"). A pool that has closed ("fin") may answer with a reset to what is
sent to it: then the next `send` finds the connection dead, while a `recv` still
returns what had arrived, and end of stream. Answers carry the request they answer, which the client never
looks at: it looks at the shape of the result.

**MiningEngine** extends both and adds the thread: `pc` says where it is, and a
step is the code between two points where something else can happen (a system
call, the clock, a signal). `ParseNotify` is `processNotification` together
with the callback `onJobReceived` and the whole `initializeDag`. `sent` and
`oks` are history variables, `found` bounds the solutions of a behaviour.

**MiningSession** is what pool and user may expect of the engine, without network,
buffers or DAG: a job is taken up, solutions of it are found (`Find`), and each is
sent as a share of this job and judged (`Submit`, `Judge`), or given up and counted
as rejected (`GiveUp`), before the next job is taken up; an acceptance needs a
positive answer of its own. `TakeUp` is `onJobReceived`, `Answer` the pool. The
engine's `job` is the work in hand, and a share is pending while `submitSolution`
waits in `recv`. It does not say that the work is the pool's latest job
(`WorksOnLatestJob` says when it is), nor that an answer is about the share: an
answer to `authorize` counts, as `BugAttribution` shows.

**SearchKernel** is one call of `searchSync` after another. `Launch` chooses
the kernel and computes the grid as the launcher does, with the widths of the
code scaled down: 64-bit nonces modulo `NonceMod`, 32-bit words modulo `WordMod`,
and a signed conversion `ToInt`. Each thread steps from solution to solution:
`Claim` is the `atomicAdd`, `Store` the write into the slot or its omission when
the buffer is full. `Collect` is what follows the wait for the event; `Throw` a
CUDA call that fails. The hash is the constant set `Solving`.

**NonceSearch** promises a caller: a range is asked for, and what is delivered
later are different solutions of the nonces tested, all of them if they fit.

**AsyncPipeline** is `searchAsync` over `runAsyncTick`. The host enqueues
operations (`copyIn`, `reset`, `kernel`, `event`, `copyOut`) on the queue of a
stream, and `Gpu(s)` performs the first one. `TickBusy` is a call that finds the
stream's event pending; `TickCollects` enqueues the copy and waits;
`TickLaunches` is everything from there to the return: the hand-over of the
solutions under the current job id, the staging and the launch, which may be
refused, the two counters and the next stream. A batch is the number of the call
that brought it, so that a mixture of two batches in one buffer is visible.

**BatchService** promises: a stream holds one batch; when the next one takes its
place, the solutions of that one and of no other are handed over, or none when the
device refused it.

**DeviceResources** numbers the CUDA resources in order of creation. Each call
of the device manager may succeed in its first k creations and throw at the next
one; `member`, `dag`, `pipeline` and `states` are the owners. `Destroy` releases
what `cleanup` and the destructors release. The sizes 8, 14, 7 and 14 of the code
are constants.

**HexText** and **JobPreparation** follow the values of a job: from text to hash
and back (a text is a sequence of digits; the characters `x` and "anything
else" are kept apart because the code tests for them), from seed to epoch by
repeated hashing (`Keccak` is any function on hashes), from epoch to size under
ECIP-1099, from difficulty to target, and the loop of `generateDagGpu` over
batches, the grid of each, and the items its threads write. A hash that cannot be
parsed keeps the bytes the stack held: garbage or the previous job's.

**MC...** modules define the instances, **...Proofs** hold the theorems.

Abstraction. In the engine a job is a model value (one id, one header, one seed);
workers, message ids and JSON syntax are left out, as are logging and
statistics. Malformed notifications (too few parameters, wrong types) change
nothing in the code and are not sent by the model's pool; malformed hashes are the
subject of `JobPreparation`. The optional `mining.suggest_difficulty` request
(environment variable `OHMY_SUGGEST_DIFF`) is not sent. `Hits[j]`, the nonces of
the searched range that solve j, is a constant: every batch starts at nonce 0.
An item of the DAG is a number of writes, since the kernel writes a counter
(`dag_kernel.cu:126`) in the place of the value.

Operators called `...OffByOne`, `...Silently`, `...Anyway` and the like, marked
"Faulty variant", are not part of any specification. Each is a plausible bug in
the operator below it; a property is worth something if it notices the bug when
the variant takes that operator's place. `PROJECT.json`, under `mutants`, pairs
them.

## What the runs check

Runs that pass (`tlc -config <run>.cfg <module>`):

| Run | Bounds | Shows |
|---|---|---|
| `MiningEngine` (MCMiningEngine) | 2 jobs of 2 epochs, 3 nonces, 3 solutions, 3 notifications, 2 fragments per message, pool may push before authorizing | `TypeOK`; `SharesAreCoherent`: id, header and nonce of a share belong to one job; `EverySolutionIsJudged`: each is counted once, also when the connection is lost inside a batch; `AcceptancesAreAnswered`: no acceptance without a positive answer; `KeepsSession`: refinement of `MiningSession`; 913,177 states |
| `EngineEpochs` (MCMiningEngine) | 3 jobs of 2 epochs, one with an unknown seed, 5 notifications, 2 blocks; 2,813,652 states | `DagTypeOK`; `DeviceHoldsEngineEpoch`: whatever later generations failed, the device still has the DAG of the epoch the engine believes in; `NoDanglingDag`: the generator's pointer is to a DAG of its epoch, the device's to one of the size it has recorded; `SearchUsesJobsDag`; `DrivesDagMemory`: the engine implements `DagSpec`; `WorksOnLatestJob`, when messages arrive whole, perhaps merged, and no share is in flight (split ones are in `BugSplit`) |
| `EngineLiveness` (MCMiningEngine) | 2 jobs, 2 notifications, 2 solutions, 2 fragments | `PoolGoneIsNoticed`: the client does not believe itself connected for ever; `SignalThenEnds`; both for a pool that answers |
| `SearchKernel` (MCSearchKernel) | nonces of 5 bits, words of 4, blocks of 2, up to 3 nonces per thread, a buffer of 2, 3 solving nonces, ranges of 0 to 10 that start at 0 or 29; 80,159 states | `TypeOK`; `EachNonceOnce`: the grid shares out the range; `SlotsHaveOneOwner`; `KeepsPromise`: refinement of `NonceSearch`; `SearchEnds` |
| `AsyncPipeline` (MCAsyncPipeline) | 2 jobs, 2 streams, 5 calls, launches may be refused; 877,618 states | `TypeOK`; `OneBatchPerStream`; `GarbageOnlyAtFirst`; `ImplementsService`: refinement of `BatchService`; `CollectReturns` |
| `DeviceResources` (MCDeviceResources) | 2 members, pipeline, search and state of 3 resources, 2 GPUs, 4 calls; 7,887 states | `TypeOK`; `HandlesAreGood`: no handle to a released resource, none owned twice; `LostByInitOnly`: exactly what is lost; `CleanWhenUsedOnce` |
| `JobPreparation` (MCJobPreparation) | binary digits, hashes of 2 bytes, 7 epochs, fork at 4, batches of 3 items, blocks of 2; 7,104 states | `TypeOK`; `ShareEchoesHeader`; `EpochBelongsToSeed`; `EachItemOnce`; `GenerationEnds` |

Runs in which TLC finds what the code does against its own documents (each is a
finding in `PROJECT.json`, with the quotation):

| Run | Property | What happens |
|---|---|---|
| `BugSplit` | `WorksOnLatestJob` | a job split over two buffers is dropped |
| `BugAttribution` | `AcceptancesAreTrue` | the late answer to `authorize` is counted as an accepted share |
| `AsyncJob` | `SolutionsCarryTheirJob` | the solutions of a batch get the job id of the moment of collection |
| `NoReconnect` | `LostThenReconnects` | a lost connection ends the process |
| `AsyncHashes` | `OnlyCompletedCount` | hashes are counted when a batch is launched, refused or not even taken |

More facts can be read off the models, though no run is spent on them. The first
ones are at odds with what the code's own comments and documents promise:

- Every difficulty but 2 has the target of difficulty 1
  (`difficulty.cpp:14`; `difficulty.hpp:10` promises floor((2^256 - 1) / difficulty)).
- After a failed or thrown generation `getSize` answers for the epoch that failed,
  while pointer and epoch are those before (`dag_generator.cpp:51`;
  `dag_generator.hpp:36`: "Get DAG size for current epoch").
- `hasEpoch` says no for the epoch being mined, whose placeholder was freed
  (`dag_generator.cpp:194`; `dag_generator.hpp:31`: "Check if DAG is already
  generated for epoch").
- While `submitSolution` waits for the answer of a silent pool, `run` never sees the
  stop flag: `recv` has no timeout, and the handlers restart it
  (`stratum_client.cpp:460`; `mining_engine.hpp:74`: "Runs until stop flag is set or
  error occurs").
- The second share sent after a reset kills the process by SIGPIPE, without its
  destructors (`stratum_client.cpp:447`; `mining_engine.hpp:53`: "Destructor -
  ensures clean shutdown").
- The first call on a stream hands over what unwritten memory holds
  (`search_executor.cpp:106`; `device_manager.hpp:119`: "solutions from COMPLETED
  work").
- A pipeline that fails half way is never released (`pipeline_manager.cpp:89`), nor are
  the buffers of a `searchSync` that throws (`device_manager.cu:345`;
  `.github/copilot-instructions.md:89`: "Proper cleanup in destructors and error
  paths").

The others:

- A job read in place of a share's answer is dropped (`stratum_client.cpp:280`);
  one read in place of the answer to `authorize` reaches the client and not the
  engine, whose callbacks are installed later.
- Every batch starts at nonce 0, so that a job's shares are sent again and
  again, as the TODO at `mining_engine.cpp:269` admits.
- A seed that is unknown, or that could not be parsed, gives the job epoch 0
  (`stratum_client.cpp:521`), whose DAG is then made and searched; `EpochOf` and
  `JobPreparation` follow the code in this.
- The DAG of the previous epoch is never freed (`dag_generator.cpp:170`), the last
  one is freed by both its owners (`device_manager.cu:791`; the error of the second
  `cudaFree` is ignored), and a launch of the generation that fails is printed and
  not reported (`dag_kernel.cu:158`).
- The early return of `generate` is never taken after an `initializeDag` that
  returned (`Cached`), and is not needed: `onJobReceived` asks for no epoch it has.
- A range for which the grid of the optimized kernel overflows an int is rejected
  by the driver, which nobody notices; its hashes are counted. Up to
  `MaxServed`, the premise of `EachNonceOnce`, that cannot happen, and the last
  block tests somewhat more than was asked for. Of a range of more than 2^32
  nonces, with several to a thread, the 32-bit product of thread and nonces wraps
  and some are tested twice; the ranges of the run stay below that.
- The hash counter of `searchAsync` exceeds the hashes of the batches collected by
  one batch's for every call (`CountRunsAhead`, proved): the `AsyncHashes` run shows
  the first of them.
- `GarbageOnlyAtFirst` leaves out the first collection of each stream (see above). `ImplementsService` lets a turn hand nothing over where
  launches may be refused, as in the run; and `CollectReturns` is about the copies
  behind an event that has been found ready, not about the batch before it.
- `LostByInitOnly` and `CleanWhenUsedOnce` are about managers no exception has ended;
  what is lost after one is said above.
- The states of several GPUs are dropped with all their resources when the
  device manager is destroyed, and every epoch adds eight lost streams and events.

Why the bounds are enough. Two fragments are the
smallest split, and a `RecvMax` of four fragments lets a buffer begin in the
middle of a message, hold a whole one and end in the middle of a third. Three
solutions with a solution buffer of two fill a batch, empty it and start
another. `EngineEpochs` needs a job to be replaced, its DAG to fail and an older
one to come back: five notifications, the difficulty included, allow that. Two
epochs and two blocks let a generation fail before and after a successful one, and
memory run out. In
`SearchKernel` a range starting at 29 wraps around 32, one of 7 or 10 may overflow
the ints of four bits, and three solutions do not fit the buffer of two. Five calls
let each of two streams begin, be found busy, complete and be reused. Two members
and three resources per group let a call fail before, within and after each
group, and four calls allow two successful ones, a search and another failure.
Seven epochs lie on both sides of the fork, DAGs of two to five items take one or
two batches, the last of which fills its last block or does not, and `Seeds` has all
sixteen hashes, of which nine are no epoch's. The properties that are proved do
not depend on the bounds.

Deadlock is checked in all runs. The only states without a proper step are the ends of the
process or of the owner, where an action stutters (`Terminated`, `Thrown`,
`Gone`).

Fairness. The engine's `FairSpec` assumes that the operating system schedules the
thread (`WF_vars(Thread)`), and that the loop, going round again and again, sees
100 ms pass (`SF_vars(LoopPolls)`: the choice between polling and not polling is
made by the clock, which does not stop). Nothing is assumed of the pool, except by
`AnsweringSpec`, under which it answers the requests it has received: without that
a blocked `recv` never returns. `SearchKernel` assumes that some thread that can
run does and that the host's wait returns when they are done; `AsyncPipeline` that
each stream performs what is enqueued on it, and that the call that waited goes
on; `JobPreparation` that launches return. No run assumes that a launch or a call
succeeds.

## What is proved

`tlapm <module>.tla` checks each of the eight modules. The theorems hold for any
values of the constants that satisfy the named assumptions of the modules: epochs
are numbers that include 0, sentinels are distinct from values, sizes are
positive, bounds are numbers, and the widths bear the relations they have in the
code (a block's nonces fit an int, a word fits a nonce, the items of a DAG fit a
word).

- `DagMemoryProofs`. The three invariants of `DagSpec` are inductive together
  (`DagInv`): a failed generation keeps the engine's DAG only because the
  pointers of both components are to allocated blocks, and a fresh block is
  never one of these (`GenerateFresh`). One lemma per way `initializeDag` ends.
- `MiningEngineProofs`. `EngineInv` strengthens the types with: no exception
  is behind us before the engine is on its way out (`DagPhase`); the job in
  hand is the client's, has its DAG, and is the snapshot while a batch is
  searched and submitted (`JobInHand`); solutions are in the batch only while
  they are submitted, and solve the snapshot (`BatchInHand`). One lemma per
  group of actions shows that it is preserved. From it follow
  `SharesAreCoherentHolds`, `EverySolutionIsJudgedHolds` and
  `EngineDrivesDagMemory` (every step is a step of `DagMemory` or leaves its
  variables alone). The last one brings `DagInv` over, and both invariants
  together give `TypeCorrect` and `SearchUsesJobsDagHolds`.
- `StreamProofs`, on the messages between pool and engine.
  `AcceptancesAreAnswered` alone is not inductive: an answer that is still in the
  stream or in a buffer may yet be counted. `AccountInv` says that the acceptances
  counted together with the positive answers not yet read never exceed those the
  pool has sent; a read takes one away for each it counts, and a loss of the tail
  of the stream only takes away. For `WorksOnLatestJob` the invariant looks the
  other way: following the announcements in the parser's buffer and then those in
  the stream (`LeadsTo`) from the engine's job, one arrives at the pool's latest
  (`LatestInv`); the buffer is empty outside of `processMessages` (`BufferInv`), and
  nothing is announced before the client listens (`StartInv`). The property is not
  true in general, as `BugSplit` shows, so the theorems name what it takes: messages
  arrive whole and none is pushed before the answer to `authorize`
  (`WholeMessages`), and no share has been sent yet (`LatestUntilFirstShare`, for any
  jobs): after that the blocking `recv` of `submitSolution` may take a job for an
  answer. The run has no share, so that it checks what is proved.
  `KeepsSessionHolds` is the refinement of `MiningSession`, one lemma per group of
  actions: `EngineInv` has the batch empty whenever a message is parsed, the
  snapshot and the client's job equal to the work in hand while solutions are
  submitted, and the account of acceptances leaves an answer for each that is
  counted.
- `AsyncPipelineProofs`. `StreamInv` ties, for each stream, the contents of its
  queue to its event and to the batch in each of its buffers; with it
  `PipelineInv` gives `OneBatchPerStream`, `GarbageOnlyAtFirst`, and
  `PipelineImplementsService`, the refinement of `BatchService`.
  `CountRunsAheadHolds` counts the batches launched as pairs of a stream and a place
  in its history: a launch adds one pair.
- `DeviceResourcesProofs`. `ResourceInv`: owned resources exist, are older than
  the next to be created, and no two owners share one; so a new resource is
  nobody's yet, and releasing one owner's leaves the others' alone. Its part
  `PlainInv`, that everything of a manager in its first initialization is in
  reach of `cleanup`, gives `CleanWhenUsedOnceHolds`; `LostInv` adds that the
  members exist since the first call, so that each later one loses exactly so
  many (`LostByInitOnlyHolds`).
- `SearchKernelProofs`. `SlotInv`: slots taken are below the counter, and no two
  threads have the same. From it `SlotsHaveOneOwnerHolds`, and that the host reads
  no slot that was not written (`TypeCorrect`). `EachNonceOnceHolds` is
  arithmetic: two divisions rounded up give a grid that covers the range
  (`GridIsEnough`), no conversion or product wraps below the limit (`NoWrap`), the
  threads' shares make up an interval (`TestedIsInterval`), and one turn of the
  nonces at most makes its members different modulo `NonceMod`.
- `NonceSearchProofs`. The refinement of `NonceSearch`. To the invariants of
  `SearchKernelProofs` it adds `FoundInv`, in which the solutions found so far are
  a set (`Found`): its cardinality is the counter, what is written or about to be
  written is in it, and no nonce is twice in the buffer or in the hands of two
  threads. Two threads never have the same nonce (`NoncesDiffer`), so a claim adds
  one element; when all are done the set is that of all solutions tested
  (`AllFound`), and `Collect` delivers. `KeepsPromiseHolds` assumes `RangesFit`: the
  32-bit product of thread and nonces per thread does not wrap, without which
  nonces are tested and reported twice (see above); the engine asks for 10 million
  nonces (`mining_engine.cpp:270`), and the ranges of the run fit as well.
- `JobPreparationProofs`. `PreparationInv`: a DAG is generated for the job's
  epoch (`EpochsAgree`), and the items below the loop variable have been written,
  if no launch was refused, and no other (`WrittenBelowStart`); a batch's threads
  are as many as its items once the surplus of the last block is cut off. With the
  size of ECIP-1099 (`DatasetItemsRight`) that is `EachItemOnceHolds`.
  `TextInv` says that the hashes of the job are those the last texts mean, whatever
  was in memory, and that the epoch is the one of the seed. What a text means is its
  number: the value of a sequence of digits does not change by zeros in front
  (`LeadingZeros`) nor when two digits are put together as one of the squared radix
  (`PairedDigits`), and it determines the digits (`SameDigits`). That gives
  `ShareEchoesHeaderHolds`, and, as no two epochs have the same seed (`SeedsDiffer`,
  an assumption on `Keccak` that the instance satisfies), `EpochBelongsToSeedHolds`.

Values of digits and the sequence of seeds are recursive functions. The induction
theorems of the library take an operator and cannot be used; `Counting` takes a
set in its place and follows from the well-foundedness of the order of the
naturals by a least counterexample (`LeastExists`). `Iterates` gives the existence of
a recursive function from it.

Every inductive invariant was model-checked on the instance of its run before it
was proved.

Only model-checked. The liveness properties (`PoolGoneIsNoticed`, `SignalThenEnds`,
`SearchEnds`, `CollectReturns`, `GenerationEnds`) stay with TLC: fairness and
ENABLED are out of the prover's reach. `WorksOnLatestJob`, `KeepsPromise` and
`EpochBelongsToSeed` are proved under the assumptions named above, which the
instances of the runs satisfy. All other invariants and refinements
of the runs that pass are proved as the runs state them.

## Plan

Done: the engine with client and DAG memory; the search with its kernels; the
asynchronous pipeline; the resources; the preparation of a job; the refinements of
`DagMemory`, `MiningSession`, `NonceSearch` and `BatchService`; the proofs above.

Left: nothing of what the program runs. Code that comes into use, such as the
threads of several GPUs, would get modules of its own.

## Not modelled

- Several GPUs beyond their creation: `searchDevice`, `startMiningAllDevices`,
  `stopAllMining`, `cleanupMultiGpu` and `miningThreadLoop` are each guarded by
  `isMultiGpuMode_`, which nothing sets. A model would have no reachable state.
- The result callback: none is registered with the driver, and nothing calls
  `processAndSubmitResultsCallback`, the error tracker or their statistics.
- The texture kernel (needs a `texDAG` that is always 0) and the warp kernel (the
  launcher has no case for it).
- `runSync`, which nothing calls, and `queueSearch`, `getFinishedStream` and
  `getResults`, stubs that give no solution.
- `loadFromCache`, `saveToCache` and `setCacheDir` of the generator; `calculateCache`,
  whose result no kernel reads; `computeHashimoto`, `verifySolution` and the
  conversions of 64-bit numbers, which only tests call.
- Hashing (Keccak, the Ethash mix), and the memory traffic of the kernels.
- `TcpConnection` (unused), logging, configuration parsing, device statistics and
  the memory profiler (reporting only).
- The vendored JSON library beyond "this chunk is, or is not, exactly one
  object". It is 24,765 of the repository's 32,613 lines of implementation.
