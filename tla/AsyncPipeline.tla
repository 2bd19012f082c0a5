---------------------------- MODULE AsyncPipeline ----------------------------
(***************************************************************************)
(* The asynchronous pipeline: SearchExecutor's runAsyncTick over the       *)
(* streams and buffers of PipelineManager, as DeviceManager's searchAsync  *)
(* calls it.  The host enqueues operations on a stream; the GPU performs    *)
(* those of one stream in order and those of different streams in any.     *)
(*                                                                         *)
(* A batch (header, seed, target, nonce range) is the number of the tick   *)
(* that brings it; all have the same number of hashes, 1.                  *)
(***************************************************************************)
EXTENDS Integers, Sequences, FiniteSets

CONSTANTS
    NumStreams,    \* numStreams_, between 2 and 8
    Job,           \* job ids
    MayReject,     \* whether the launcher or the driver may refuse a launch
    MaxTicks       \* bound: number of calls of searchAsync

ASSUME PipelineAssumption ==
    /\ NumStreams \in 2 .. 8
    /\ MayReject \in BOOLEAN
    /\ MaxTicks \in Nat

Stream == 0 .. NumStreams - 1
Batch == 1 .. MaxTicks
NoBatch == 0
Garbage == -1      \* what memory holds that was never written

VARIABLES
    streamIdx,     \* streamIdx_: the stream whose turn it is
    pendingCounts, \* pendingCounts_: hashes in flight on each stream
    totalHashes,   \* DeviceManager's totalHashes_
    currentJob     \* DeviceManager's currentJobId_

VARIABLES
    staged,        \* h_headers_ etc.: the batch in a stream's pinned buffers
    inputs,        \* d_headers_ etc.: the batch in its device buffers
    found,         \* the batch whose solutions d_solutionCounts_ and d_solutions_
                   \* give, NoBatch if the counter is 0
    collected,     \* h_solutionCounts_ and h_solutions_: the last copy of them
    queue,         \* operations enqueued and not yet performed
    event          \* the state of the stream's event: "unused", "recorded", "done"

VARIABLES
    host,          \* "ready" between calls, "waiting" in collectResults
    ticks,         \* number of calls made
    given,         \* history: the batches given to each stream, and their jobs
    log            \* history: what each collection from a stream handed over

hostVars == <<streamIdx, pendingCounts, totalHashes, currentJob, host, ticks>>
deviceVars == <<inputs, found, collected>>
historyVars == <<given, log>>
vars == <<hostVars, deviceVars, staged, queue, event, historyVars>>

Init ==
    /\ streamIdx = 0
    /\ pendingCounts = [s \in Stream |-> 0]
    /\ totalHashes = 0
    /\ currentJob \in Job
    /\ staged = [s \in Stream |-> NoBatch] /\ inputs = [s \in Stream |-> Garbage]
    /\ found = [s \in Stream |-> Garbage] /\ collected = found
    /\ queue = [s \in Stream |-> <<>>]
    /\ event = [s \in Stream |-> "unused"]
    /\ host = "ready" /\ ticks = 0
    /\ given = [s \in Stream |-> <<>>] /\ log = given

-----------------------------------------------------------------------------
(* The host.                                                               *)

\* Faulty variant: the index is not wrapped.
AdvancesOnly == streamIdx' = streamIdx + 1

advanceStream == streamIdx' = (streamIdx + 1) % NumStreams

Enqueue(s, ops) == queue' = [queue EXCEPT ![s] = @ \o ops]

\* Faulty variant: the event is not asked.
NeverRunning(s) == FALSE

\* cudaEventQuery is not ready.  An event that was never recorded is ready.
StillRunning(s) == event[s] = "recorded"

\* searchAsync when the stream is busy: the work it was called with is not taken,
\* its hashes are counted all the same.
TickBusy ==
    /\ host = "ready" /\ ticks < MaxTicks
    /\ StillRunning(streamIdx)
    /\ advanceStream
    /\ ticks' = ticks + 1
    /\ totalHashes' = totalHashes + 1
    /\ UNCHANGED <<pendingCounts, currentJob, host, deviceVars, staged, queue, event,
                   historyVars>>

\* collectResults as far as cudaStreamSynchronize.
TickCollects ==
    /\ host = "ready" /\ ticks < MaxTicks
    /\ ~StillRunning(streamIdx)
    /\ Enqueue(streamIdx, <<"copyOut">>)
    /\ host' = "waiting"
    /\ UNCHANGED <<streamIdx, pendingCounts, totalHashes, currentJob, ticks,
                   deviceVars, staged, event, historyVars>>

\* Faulty variant: the copy is not waited for.
NotSynchronized(s) == TRUE

\* Faulty variant: the event is waited for instead of the stream.
EventSynchronized(s) == event[s] = "done"

\* cudaStreamSynchronize returns.
Synchronized(s) == queue[s] = <<>>

\* What the caller's vector gets: nothing if the counter is 0, and anything if it was
\* never written.  The job id is the current one.
HandsOver(s) ==
    \E b \in IF collected[s] = Garbage THEN {Garbage, NoBatch} ELSE {collected[s]} :
        log' = [log EXCEPT ![s] = Append(@, [batch |-> b, job |-> currentJob])]

\* Faulty variant: the counter on the device is not reset.
StagesWithoutReset(s, launched) ==
    Enqueue(s, IF launched THEN <<"copyIn", "kernel", "event">> ELSE <<"copyIn", "event">>)

\* stageWork, the launch, which may be refused, and the record of the event.
Stages(s, launched) ==
    Enqueue(s, IF launched THEN <<"copyIn", "reset", "kernel", "event">>
                           ELSE <<"copyIn", "reset", "event">>)

\* The hashes of the batch that has completed, added by runAsyncTick, and those of
\* the new one, added by searchAsync.
Accounts(s) ==
    /\ totalHashes' = totalHashes + pendingCounts[s] + 1
    /\ pendingCounts' = [pendingCounts EXCEPT ![s] = 1]

\* runAsyncTick from there on, with the new batch, and the end of searchAsync.
TickLaunches(launched) ==
    LET s == streamIdx
    IN  /\ host = "waiting" /\ Synchronized(s)
        /\ HandsOver(s)
        /\ staged' = [staged EXCEPT ![s] = ticks + 1]
        /\ given' = [given EXCEPT ![s] = Append(@, [batch |-> ticks + 1,
                                                    job |-> currentJob])]
        /\ Stages(s, launched)
        /\ event' = [event EXCEPT ![s] = "recorded"]
        /\ Accounts(s)
        /\ advanceStream
        /\ host' = "ready" /\ ticks' = ticks + 1
        /\ UNCHANGED <<currentJob, deviceVars>>

setMiningJobContext(j) ==
    /\ host = "ready" /\ j # currentJob
    /\ currentJob' = j
    /\ UNCHANGED <<streamIdx, pendingCounts, totalHashes, host, ticks, deviceVars,
                   staged, queue, event, historyVars>>

\* A CUDA call fails and the exception leaves searchAsync: the pipeline is not used
\* again.
TickThrows ==
    /\ host # "thrown"
    /\ host' = "thrown"
    /\ UNCHANGED <<streamIdx, pendingCounts, totalHashes, currentJob, ticks,
                   deviceVars, staged, queue, event, historyVars>>

-----------------------------------------------------------------------------
(* The GPU: the next operation of a stream.                                *)

Performs(s, op) ==
    /\ host # "thrown"
    /\ queue[s] # <<>> /\ queue[s][1] = op
    /\ queue' = [queue EXCEPT ![s] = Tail(@)]
    /\ UNCHANGED <<hostVars, staged, historyVars>>

CopyIn(s) ==
    /\ Performs(s, "copyIn")
    /\ inputs' = [inputs EXCEPT ![s] = staged[s]]
    /\ UNCHANGED <<found, collected, event>>

Reset(s) ==
    /\ Performs(s, "reset")
    /\ found' = [found EXCEPT ![s] = NoBatch]
    /\ UNCHANGED <<inputs, collected, event>>

\* The kernel searches the batch whose inputs it finds.
RunKernel(s) ==
    /\ Performs(s, "kernel")
    /\ found' = [found EXCEPT ![s] = inputs[s]]
    /\ UNCHANGED <<inputs, collected, event>>

EventDone(s) ==
    /\ Performs(s, "event")
    /\ event' = [event EXCEPT ![s] = "done"]
    /\ UNCHANGED deviceVars

CopyOut(s) ==
    /\ Performs(s, "copyOut")
    /\ collected' = [collected EXCEPT ![s] = found[s]]
    /\ UNCHANGED <<inputs, found, event>>

Gpu(s) == CopyIn(s) \/ Reset(s) \/ RunKernel(s) \/ EventDone(s) \/ CopyOut(s)

Tick == TickBusy \/ TickCollects
          \/ \E launched \in {TRUE, ~MayReject} : TickLaunches(launched)

\* After the exception nothing is called any more.
Thrown == host = "thrown" /\ UNCHANGED vars

Next ==
    \/ Tick
    \/ TickThrows
    \/ \E j \in Job : setMiningJobContext(j)
    \/ \E s \in Stream : Gpu(s)
    \/ Thrown

Spec == Init /\ [][Next]_vars

\* The driver performs what is enqueued, and a call that waits for it goes on.
FairSpec == /\ Spec
            /\ WF_vars(\E launched \in {TRUE, ~MayReject} : TickLaunches(launched))
            /\ \A s \in Stream : WF_vars(Gpu(s))

-----------------------------------------------------------------------------
(* Properties.                                                             *)

Operation == {"copyIn", "reset", "kernel", "event", "copyOut"}
Held == Batch \cup {NoBatch, Garbage}

TypeOK ==
    /\ streamIdx \in Stream
    /\ pendingCounts \in [Stream -> 0 .. 1]
    /\ totalHashes \in Nat /\ ticks \in 0 .. MaxTicks
    /\ currentJob \in Job
    /\ staged \in [Stream -> Batch \cup {NoBatch}]
    /\ {inputs, found, collected} \subseteq [Stream -> Held]
    /\ queue \in [Stream -> Seq(Operation)]
    /\ event \in [Stream -> {"unused", "recorded", "done"}]
    /\ host \in {"ready", "waiting", "thrown"}
    /\ {given, log} \subseteq [Stream -> Seq([batch : Held, job : Job])]

\* A stream works on one batch at a time: only the stream whose results are waited
\* for has a copy enqueued, and nothing else is then; so the host never writes a
\* pinned buffer the GPU has still to read (search_executor.cpp runAsyncTick,
\* pipeline_manager.cpp stageWork, collectResults).
OneBatchPerStream ==
    \A s \in Stream :
        /\ Len(queue[s]) <= 4
        /\ event[s] # "recorded" => queue[s] \in {<<>>, <<"copyOut">>}
        /\ queue[s] = <<"copyOut">> => s = streamIdx /\ host \in {"waiting", "thrown"}
        /\ event[s] = "recorded" => queue[s] # <<>> /\ pendingCounts[s] = 1

Launches == Cardinality({p \in Stream \X Batch : p[2] <= Len(given[p[1]])})

\* "We track a pending count per stream so only completed batches contribute"
\* (docs/performance/HASHRATE_ACCOUNTING.md:17): the hashes counted are at most those
\* of the batches launched whose event is not outstanding any more.
OnlyCompletedCount ==
    totalHashes <= Launches - Cardinality({s \in Stream : event[s] = "recorded"})

\* What was never written is handed over by the first collection from a stream only,
\* that of the call that puts the first batch there (search_executor.cpp:106).
GarbageOnlyAtFirst ==
    \A s \in Stream : \A i \in 2 .. Len(log[s]) : log[s][i].batch # Garbage

\* The host's wait for a stream ends (pipeline_manager.cpp collectResults).
CollectReturns == (host = "waiting") ~> (host # "waiting")

HandedOver(s) == {i \in 2 .. Len(log[s]) : log[s][i].batch # NoBatch}

\* The batch whose solutions the last collection handed over, NoBatch if it was none.
LastHanded(collections) ==
    LET last == collections[Len(collections)].batch
    IN  IF collections # <<>> /\ last \in Batch THEN last ELSE NoBatch

\* The pipeline implements BatchService: solutions are those of the batch the stream
\* was given before, whatever the GPU does in the meantime, and are handed over once
\* (search_executor.cpp runAsyncTick).
Service == INSTANCE BatchService WITH
    flight <- staged,
    handed <- [s \in Stream |-> LastHanded(log[s])]

ImplementsService == Service!ServiceSpec

\* The solutions handed over carry the id of the job their batch was searched for,
\* as those of runSync do ("Called before each search() to provide job
\* identification", device_manager.hpp:205).
SolutionsCarryTheirJob ==
    \A s \in Stream : \A i \in HandedOver(s) : log[s][i].job = given[s][i - 1].job
=============================================================================
