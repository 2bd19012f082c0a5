------------------------- MODULE AsyncPipelineProofs -------------------------
(***************************************************************************)
(* Proofs about AsyncPipeline, for any number of streams, any jobs and any *)
(* number of calls: what a stream may have enqueued, where garbage may     *)
(* come from, and that the pipeline implements BatchService.               *)
(*                                                                         *)
(* PipelineInv is inductive.  Its core, StreamInv, says for every place a  *)
(* stream may have reached in its queue what its buffers then hold.        *)
(***************************************************************************)
EXTENDS AsyncPipeline, SequenceTheorems, FiniteSetTheorems, TLAPS

Idle == {<<>>, <<"copyOut">>}
Running == {<<"copyIn", "reset", "kernel", "event">>, <<"copyIn", "reset", "event">>,
            <<"reset", "kernel", "event">>, <<"reset", "event">>,
            <<"kernel", "event">>, <<"event">>}

\* What a batch that has been run leaves on the device.
Ran(s) == found[s] = staged[s] \/ (MayReject /\ found[s] = NoBatch)

StreamInv(s) ==
    /\ event[s] = "unused" <=> staged[s] = NoBatch
    /\ staged[s] <= ticks
    /\ event[s] = "unused" =>
          /\ queue[s] \in Idle
          /\ found[s] = Garbage /\ collected[s] = Garbage
          /\ log[s] = <<>>
    /\ event[s] = "recorded" => queue[s] \in Running /\ pendingCounts[s] = 1
    /\ event[s] = "done" => queue[s] \in Idle /\ Ran(s)
    /\ queue[s] \in {<<"copyIn", "reset", "event">>, <<"reset", "event">>} => MayReject
    /\ queue[s] \in {<<"reset", "kernel", "event">>, <<"kernel", "event">>} =>
          inputs[s] = staged[s]
    /\ queue[s] = <<"event">> => Ran(s)
    /\ queue[s] = <<"copyOut">> => s = streamIdx /\ host \in {"waiting", "thrown"}
    /\ host = "waiting" /\ s = streamIdx /\ queue[s] = <<>> => collected[s] = found[s]

\* While results are waited for, the stream's event is not pending and the call is
\* within the bound.
HostInv == host = "waiting" => event[streamIdx] # "recorded" /\ ticks < MaxTicks

QueueTypes == queue \in [Stream -> Idle \cup Running]

PipelineInv == TypeOK /\ QueueTypes /\ HostInv /\ \A s \in Stream : StreamInv(s)

-----------------------------------------------------------------------------
(* The operations of a stream.                                             *)

LEMMA QueuesAreSequences == Idle \cup Running \subseteq Seq(Operation)
  <1>1. {"copyIn", "reset", "kernel", "event", "copyOut"} = Operation
    BY DEF Operation
  <1>2. <<>> \in Seq(Operation) /\ <<"copyOut">> \in Seq(Operation)
    BY <1>1
  <1>3. /\ <<"copyIn", "reset", "kernel", "event">> \in Seq(Operation)
        /\ <<"copyIn", "reset", "event">> \in Seq(Operation)
        /\ <<"reset", "kernel", "event">> \in Seq(Operation)
        /\ <<"reset", "event">> \in Seq(Operation)
        /\ <<"kernel", "event">> \in Seq(Operation)
        /\ <<"event">> \in Seq(Operation)
    BY <1>1
  <1>. QED
    BY <1>2, <1>3 DEF Idle, Running

\* What is left of a queue when its first operation has been performed.
LEMMA AfterOperation ==
  ASSUME NEW q \in Idle \cup Running, q # <<>>
  PROVE  /\ q[1] = "copyIn" =>
              \/ q = <<"copyIn", "reset", "kernel", "event">>
                   /\ Tail(q) = <<"reset", "kernel", "event">>
              \/ q = <<"copyIn", "reset", "event">> /\ Tail(q) = <<"reset", "event">>
         /\ q[1] = "reset" =>
              \/ q = <<"reset", "kernel", "event">> /\ Tail(q) = <<"kernel", "event">>
              \/ q = <<"reset", "event">> /\ Tail(q) = <<"event">>
         /\ q[1] = "kernel" => q = <<"kernel", "event">> /\ Tail(q) = <<"event">>
         /\ q[1] = "event" => q = <<"event">> /\ Tail(q) = <<>>
         /\ q[1] = "copyOut" => q = <<"copyOut">> /\ Tail(q) = <<>>
  <1>1. /\ Tail(<<"copyIn", "reset", "kernel", "event">>) = <<"reset", "kernel", "event">>
        /\ Tail(<<"copyIn", "reset", "event">>) = <<"reset", "event">>
        /\ Tail(<<"reset", "kernel", "event">>) = <<"kernel", "event">>
    OBVIOUS
  <1>2. /\ Tail(<<"reset", "event">>) = <<"event">>
        /\ Tail(<<"kernel", "event">>) = <<"event">>
    OBVIOUS
  <1>3. Tail(<<"event">>) = <<>> /\ Tail(<<"copyOut">>) = <<>>
    OBVIOUS
  <1>4. QED
    <2>1. CASE q = <<"copyIn", "reset", "kernel", "event">>
      BY <1>1, <2>1
    <2>2. CASE q = <<"copyIn", "reset", "event">>
      BY <1>1, <2>2
    <2>3. CASE q = <<"reset", "kernel", "event">>
      BY <1>1, <2>3
    <2>4. CASE q = <<"reset", "event">>
      BY <1>2, <2>4
    <2>5. CASE q = <<"kernel", "event">>
      BY <1>2, <2>5
    <2>6. CASE q = <<"event">>
      BY <1>3, <2>6
    <2>7. CASE q = <<"copyOut">>
      BY <1>3, <2>7
    <2>. QED
      BY <2>1, <2>2, <2>3, <2>4, <2>5, <2>6, <2>7 DEF Idle, Running

\* The queues differ, so that one tells where the stream is.
LEMMA QueuesDiffer ==
  /\ \A q \in Running : q \notin Idle
  /\ <<>> # <<"copyOut">>
  /\ \A q \in Idle \cup Running : Len(q) <= 4
  BY DEF Idle, Running

\* stageWork, the launch and the record of the event on a stream that is done.
LEMMA StagedQueue ==
  ASSUME QueueTypes, NEW s \in Stream, queue[s] = <<>>, NEW launched \in BOOLEAN,
         Stages(s, launched)
  PROVE  queue' = [queue EXCEPT ![s] =
                     IF launched THEN <<"copyIn", "reset", "kernel", "event">>
                                 ELSE <<"copyIn", "reset", "event">>]
  <1>1. /\ <<"copyIn", "reset", "kernel", "event">> \in Seq(Operation)
        /\ <<"copyIn", "reset", "event">> \in Seq(Operation)
    BY QueuesAreSequences DEF Running
  <1>. QED
    BY <1>1, ConcatEmptySeq DEF Stages, Enqueue

-----------------------------------------------------------------------------
(* The inductive invariant.                                                *)

LEMMA StreamIdxType == 0 \in Stream /\ \A i \in Stream : (i + 1) % NumStreams \in Stream
  BY PipelineAssumption DEF Stream

LEMMA BatchNumbers ==
  /\ \A n \in 0 .. MaxTicks : n < MaxTicks => n + 1 \in Batch
  /\ NoBatch \notin Batch /\ Garbage \notin Batch /\ Garbage # NoBatch
  /\ \A b \in Batch \cup {NoBatch} : b \in 0 .. MaxTicks
  BY PipelineAssumption DEF Batch, NoBatch, Garbage

LEMMA InitInv == Init => PipelineInv
  <1>. SUFFICES ASSUME Init PROVE PipelineInv
    OBVIOUS
  <1>1. TypeOK
    BY StreamIdxType, PipelineAssumption DEF Init, TypeOK, Held
  <1>2. QueueTypes
    BY DEF Init, QueueTypes, Idle
  <1>3. HostInv
    BY DEF Init, HostInv
  <1>4. ASSUME NEW s \in Stream PROVE StreamInv(s)
    BY PipelineAssumption DEF Init, StreamInv, Idle, Ran, NoBatch, Garbage
  <1>. QED
    BY <1>1, <1>2, <1>3, <1>4 DEF PipelineInv

\* searchAsync on a busy stream.
LEMMA BusyPreserves == ASSUME PipelineInv, TickBusy PROVE PipelineInv'
  <1>1. TypeOK'
    <2>1. streamIdx' \in Stream
      BY StreamIdxType DEF PipelineInv, TypeOK, TickBusy, advanceStream
    <2>2. totalHashes' \in Nat /\ ticks' \in 0 .. MaxTicks
      BY PipelineAssumption DEF PipelineInv, TypeOK, TickBusy
    <2>. QED
      BY <2>1, <2>2 DEF PipelineInv, TypeOK, TickBusy, deviceVars, historyVars
  <1>2. QueueTypes' /\ HostInv'
    BY DEF PipelineInv, QueueTypes, HostInv, TickBusy
  <1>3. ASSUME NEW s \in Stream PROVE StreamInv(s)'
    <2>1. StreamInv(s) /\ host = "ready" /\ host' = "ready" /\ ticks' = ticks + 1
      BY DEF PipelineInv, TickBusy
    <2>2. UNCHANGED <<pendingCounts, deviceVars, staged, queue, event, historyVars>>
      BY DEF TickBusy
    <2>3. staged[s] <= ticks' /\ queue[s] # <<"copyOut">>
      BY <2>1 DEF StreamInv, PipelineInv, TypeOK, Batch, NoBatch
    <2>. QED
      BY <2>1, <2>2, <2>3 DEF StreamInv, Ran, deviceVars, historyVars
  <1>. QED
    BY <1>1, <1>2, <1>3 DEF PipelineInv, Stream

\* The first half of collectResults: on an idle stream nothing is enqueued.
LEMMA CollectsPreserves == ASSUME PipelineInv, TickCollects PROVE PipelineInv'
  <1>1. streamIdx \in Stream /\ event[streamIdx] # "recorded"
        /\ host = "ready" /\ ticks < MaxTicks
    BY DEF PipelineInv, TypeOK, TickCollects, StillRunning
  <1>2. queue[streamIdx] = <<>>
    BY <1>1 DEF PipelineInv, TypeOK, StreamInv, Idle
  <1>3. queue' = [queue EXCEPT ![streamIdx] = <<"copyOut">>]
    <2>1. <<"copyOut">> \in Seq(Operation)
      BY QueuesAreSequences DEF Idle
    <2>. QED
      BY <1>2, <2>1, ConcatEmptySeq DEF TickCollects, Enqueue
  <1>4. QueueTypes'
    BY <1>3 DEF PipelineInv, QueueTypes, Idle
  <1>5. TypeOK'
    <2>1. queue' \in [Stream -> Seq(Operation)]
      BY <1>4, QueuesAreSequences DEF QueueTypes
    <2>. QED
      BY <2>1 DEF PipelineInv, TypeOK, TickCollects, deviceVars, historyVars
  <1>6. HostInv'
    BY <1>1 DEF HostInv, TickCollects
  <1>7. ASSUME NEW s \in Stream PROVE StreamInv(s)'
    <2>1. StreamInv(s)
      BY DEF PipelineInv
    <2>2. UNCHANGED <<streamIdx, ticks, pendingCounts, staged, inputs, found, collected,
                      event, log>>
      BY DEF TickCollects, deviceVars, historyVars
    <2>3. host' = "waiting"
      BY DEF TickCollects
    <2>4. CASE s = streamIdx
      <3>1. queue'[s] = <<"copyOut">>
        BY <1>3, <2>4 DEF PipelineInv, QueueTypes
      <3>. QED
        BY <1>1, <2>1, <2>2, <2>3, <2>4, <3>1 DEF StreamInv, Ran, Idle
    <2>5. CASE s # streamIdx
      <3>1. queue'[s] = queue[s] /\ queue[s] # <<"copyOut">>
        BY <1>1, <1>3, <2>1, <2>5 DEF StreamInv, PipelineInv, QueueTypes
      <3>. QED
        BY <2>1, <2>2, <2>5, <3>1 DEF StreamInv, Ran
    <2>. QED
      BY <2>4, <2>5
  <1>. QED
    BY <1>4, <1>5, <1>6, <1>7 DEF PipelineInv, Stream

\* The sequences of the history grow by one record.
LEMMA HistoryType ==
  ASSUME TypeOK, NEW b \in Held, NEW s \in Stream
  PROVE  /\ [log EXCEPT ![s] = Append(@, [batch |-> b, job |-> currentJob])]
               \in [Stream -> Seq([batch : Held, job : Job])]
         /\ [given EXCEPT ![s] = Append(@, [batch |-> b, job |-> currentJob])]
               \in [Stream -> Seq([batch : Held, job : Job])]
  <1>1. [batch |-> b, job |-> currentJob] \in [batch : Held, job : Job]
    BY DEF TypeOK
  <1>2. /\ Append(log[s], [batch |-> b, job |-> currentJob]) \in Seq([batch : Held, job : Job])
        /\ Append(given[s], [batch |-> b, job |-> currentJob])
             \in Seq([batch : Held, job : Job])
    BY <1>1, AppendProperties DEF TypeOK
  <1>. QED
    BY <1>2 DEF TypeOK

\* The second half of runAsyncTick: the stream has been waited for and is given a new
\* batch.
LEMMA LaunchesPreserves ==
  ASSUME PipelineInv, NEW launched \in {TRUE, ~MayReject}, TickLaunches(launched)
  PROVE  PipelineInv'
  <1>. DEFINE q == IF launched THEN <<"copyIn", "reset", "kernel", "event">>
                               ELSE <<"copyIn", "reset", "event">>
  <1>1. /\ host = "waiting" /\ host' = "ready" /\ streamIdx \in Stream
        /\ queue[streamIdx] = <<>> /\ launched \in BOOLEAN
        /\ ticks \in 0 .. MaxTicks /\ ticks < MaxTicks /\ ticks' = ticks + 1
    BY PipelineAssumption
    DEF PipelineInv, TypeOK, HostInv, TickLaunches, Synchronized
  <1>2. queue' = [queue EXCEPT ![streamIdx] = q]
    BY <1>1, StagedQueue DEF TickLaunches, PipelineInv
  <1>3. q \in Running /\ (q = <<"copyIn", "reset", "event">> => MayReject)
    <2>1. <<"copyIn", "reset", "kernel", "event">> # <<"copyIn", "reset", "event">>
      OBVIOUS
    <2>. QED
      BY <1>1, <2>1, PipelineAssumption DEF Running
  <1>4. QueueTypes'
    BY <1>2, <1>3 DEF PipelineInv, QueueTypes
  <1>5. /\ staged' = [staged EXCEPT ![streamIdx] = ticks + 1]
        /\ event' = [event EXCEPT ![streamIdx] = "recorded"]
        /\ pendingCounts' = [pendingCounts EXCEPT ![streamIdx] = 1]
        /\ UNCHANGED <<currentJob, inputs, found, collected>>
    BY DEF TickLaunches, Accounts, deviceVars
  <1>6. ticks + 1 \in Batch
    BY <1>1, BatchNumbers
  <1>7. PICK b \in Held :
          log' = [log EXCEPT ![streamIdx] = Append(@, [batch |-> b, job |-> currentJob])]
    BY <1>1 DEF TickLaunches, HandsOver, PipelineInv, TypeOK, Held
  <1>8. TypeOK'
    <2>1. streamIdx' \in Stream
      BY <1>1, StreamIdxType DEF TickLaunches, advanceStream
    <2>2. totalHashes' \in Nat /\ pendingCounts' \in [Stream -> 0 .. 1]
      <3>1. totalHashes \in Nat /\ pendingCounts \in [Stream -> 0 .. 1]
        BY DEF PipelineInv, TypeOK
      <3>2. Accounts(streamIdx)
        BY DEF TickLaunches
      <3>3. totalHashes' = totalHashes + pendingCounts[streamIdx] + 1
        BY <3>2 DEF Accounts
      <3>4. pendingCounts[streamIdx] \in 0 .. 1
        BY <1>1, <3>1
      <3>5. totalHashes' \in Nat
        BY <3>1, <3>3, <3>4
      <3>6. pendingCounts' \in [Stream -> 0 .. 1]
        <4>1. 1 \in 0 .. 1
          OBVIOUS
        <4>. QED
          BY <1>5, <3>1, <4>1, Zenon
      <3>. QED
        BY <3>5, <3>6
    <2>3. staged' \in [Stream -> Batch \cup {NoBatch}]
          /\ event' \in [Stream -> {"unused", "recorded", "done"}]
          /\ ticks' \in 0 .. MaxTicks
      BY <1>1, <1>5, <1>6, PipelineAssumption DEF PipelineInv, TypeOK
    <2>4. queue' \in [Stream -> Seq(Operation)]
      BY <1>4, QueuesAreSequences DEF QueueTypes
    <2>5. given' = [given EXCEPT ![streamIdx] = Append(@, [batch |-> ticks + 1,
                                                           job |-> currentJob])]
      BY DEF TickLaunches
    <2>6. log' \in [Stream -> Seq([batch : Held, job : Job])]
          /\ given' \in [Stream -> Seq([batch : Held, job : Job])]
      <3>1. ticks + 1 \in Held
        BY <1>6 DEF Held
      <3>. QED
        BY <1>1, <1>7, <2>5, <3>1, HistoryType DEF PipelineInv
    <2>. QED
      BY <1>1, <1>5, <2>1, <2>2, <2>3, <2>4, <2>6 DEF PipelineInv, TypeOK
  <1>9. ASSUME NEW s \in Stream PROVE StreamInv(s)'
    <2>1. StreamInv(s)
      BY DEF PipelineInv
    <2>2. CASE s = streamIdx
      <3>1. queue'[s] = q /\ event'[s] = "recorded" /\ staged'[s] = ticks + 1
            /\ pendingCounts'[s] = 1
        BY <1>2, <1>5, <2>2 DEF PipelineInv, TypeOK, QueueTypes
      <3>2. ticks + 1 # NoBatch /\ ticks + 1 <= ticks'
        BY <1>1 DEF NoBatch
      <3>3. /\ q \notin {<<"reset", "kernel", "event">>, <<"kernel", "event">>}
            /\ q # <<"reset", "event">> /\ q # <<"event">> /\ q # <<"copyOut">>
        OBVIOUS
      <3>. QED
        BY <1>1, <1>3, <3>1, <3>2, <3>3 DEF StreamInv
    <2>3. CASE s # streamIdx
      <3>1. /\ queue'[s] = queue[s] /\ event'[s] = event[s] /\ staged'[s] = staged[s]
            /\ pendingCounts'[s] = pendingCounts[s] /\ log'[s] = log[s]
        BY <1>2, <1>5, <1>7, <2>3 DEF PipelineInv, TypeOK, QueueTypes
      <3>2. staged[s] <= ticks' /\ queue[s] # <<"copyOut">>
        BY <1>1, <2>1, <2>3 DEF StreamInv, PipelineInv, TypeOK, Batch, NoBatch
      <3>. QED
        BY <1>1, <1>5, <2>1, <3>1, <3>2 DEF StreamInv, Ran
    <2>. QED
      BY <2>2, <2>3
  <1>10. HostInv'
    BY <1>1 DEF HostInv
  <1>. QED
    BY <1>4, <1>8, <1>9, <1>10 DEF PipelineInv, Stream

\* The calls that leave the pipeline alone.
LEMMA OthersPreserve ==
  ASSUME PipelineInv, TickThrows \/ (\E j \in Job : setMiningJobContext(j)) \/ UNCHANGED vars
  PROVE  PipelineInv'
  <1>1. UNCHANGED <<streamIdx, pendingCounts, totalHashes, ticks, staged, inputs, found,
                    collected, queue, event, given, log>>
    BY DEF TickThrows, setMiningJobContext, vars, hostVars, deviceVars, historyVars
  <1>2. currentJob' \in Job /\ host' \in {host, "thrown"}
    BY DEF TickThrows, setMiningJobContext, vars, hostVars, PipelineInv, TypeOK
  <1>3. TypeOK'
    BY <1>1, <1>2 DEF PipelineInv, TypeOK
  <1>4. QueueTypes' /\ HostInv'
    BY <1>1, <1>2 DEF PipelineInv, QueueTypes, HostInv
  <1>5. ASSUME NEW s \in Stream PROVE StreamInv(s)'
    <2>1. StreamInv(s)
      BY DEF PipelineInv
    <2>. QED
      BY <1>1, <1>2, <2>1 DEF StreamInv, Ran
  <1>. QED
    BY <1>3, <1>4, <1>5 DEF PipelineInv, Stream

-----------------------------------------------------------------------------
(* The GPU.                                                                *)

\* An operation concerns one stream.
LEMMA PerformsOne ==
  ASSUME PipelineInv, NEW s \in Stream, NEW op, Performs(s, op)
  PROVE  /\ queue[s] \in Idle \cup Running /\ queue[s] # <<>> /\ queue[s][1] = op
         /\ queue' = [queue EXCEPT ![s] = Tail(queue[s])]
         /\ queue'[s] = Tail(queue[s])
         /\ \A r \in Stream \ {s} : queue'[r] = queue[r]
         /\ host # "thrown"
         /\ UNCHANGED <<streamIdx, pendingCounts, totalHashes, currentJob, host, ticks,
                        staged, given, log>>
  BY DEF Performs, PipelineInv, QueueTypes, hostVars, historyVars

\* What an operation has to respect: it takes one of its stream's places in the queue
\* to the next, with what the buffers then hold, and touches no other stream.
LEMMA OperationPreserves ==
  ASSUME PipelineInv, NEW s \in Stream, NEW op, Performs(s, op),
         queue'[s] \in Idle \cup Running, StreamInv(s)',
         {inputs', found', collected'} \subseteq [Stream -> Held],
         event' \in [Stream -> {"unused", "recorded", "done"}],
         event[s] # "recorded" => event'[s] # "recorded",
         \A r \in Stream \ {s} :
            /\ inputs'[r] = inputs[r] /\ found'[r] = found[r]
            /\ collected'[r] = collected[r] /\ event'[r] = event[r]
  PROVE  PipelineInv'
  <1>1. QueueTypes'
    BY PerformsOne DEF PipelineInv, QueueTypes
  <1>2. TypeOK'
    <2>1. queue' \in [Stream -> Seq(Operation)]
      BY <1>1, QueuesAreSequences DEF QueueTypes
    <2>2. UNCHANGED <<streamIdx, pendingCounts, totalHashes, currentJob, host, ticks,
                      staged, given, log>>
      BY PerformsOne
    <2>. QED
      BY <2>1, <2>2 DEF PipelineInv, TypeOK
  <1>3. HostInv'
    <2>1. UNCHANGED <<streamIdx, host, ticks>> /\ streamIdx \in Stream /\ HostInv
      BY PerformsOne DEF PipelineInv, TypeOK
    <2>. QED
      BY <2>1 DEF HostInv
  <1>4. ASSUME NEW r \in Stream, r # s PROVE StreamInv(r)'
    <2>1. StreamInv(r)
      BY DEF PipelineInv
    <2>2. /\ queue'[r] = queue[r] /\ inputs'[r] = inputs[r] /\ found'[r] = found[r]
          /\ collected'[r] = collected[r] /\ event'[r] = event[r]
          /\ UNCHANGED <<streamIdx, pendingCounts, host, ticks, staged, log>>
      BY <1>4, PerformsOne
    <2>. QED
      BY <2>1, <2>2 DEF StreamInv, Ran
  <1>. QED
    BY <1>1, <1>2, <1>3, <1>4 DEF PipelineInv, Stream

\* The copy of the pinned buffers to the device.
LEMMA CopyInPreserves ==
  ASSUME PipelineInv, NEW s \in Stream, CopyIn(s)
  PROVE  PipelineInv'
  <1>1. Performs(s, "copyIn") /\ StreamInv(s)
    BY DEF CopyIn, PipelineInv
  <1>2. \/ /\ queue[s] = <<"copyIn", "reset", "kernel", "event">>
           /\ queue'[s] = <<"reset", "kernel", "event">>
        \/ /\ queue[s] = <<"copyIn", "reset", "event">>
           /\ queue'[s] = <<"reset", "event">>
    BY <1>1, PerformsOne, AfterOperation
  <1>3. event[s] = "recorded"
    <2>1. queue[s] \in Running
      BY <1>2 DEF Running
    <2>. QED
      BY <1>1, <2>1, QueuesDiffer DEF StreamInv, PipelineInv, TypeOK
  <1>4. inputs' = [inputs EXCEPT ![s] = staged[s]] /\ UNCHANGED <<found, collected, event>>
    BY DEF CopyIn
  <1>5. StreamInv(s)'
    <2>1. inputs'[s] = staged[s]
      BY <1>4 DEF PipelineInv, TypeOK
    <2>2. /\ queue'[s] \in Running
          /\ queue'[s] # <<"event">> /\ queue'[s] # <<"copyOut">> /\ queue'[s] # <<>>
          /\ queue'[s] # <<"copyIn", "reset", "event">>
          /\ queue'[s] = <<"reset", "event">> => MayReject
      <3>1. CASE queue[s] = <<"copyIn", "reset", "kernel", "event">>
                 /\ queue'[s] = <<"reset", "kernel", "event">>
        BY <3>1 DEF Running
      <3>2. CASE queue[s] = <<"copyIn", "reset", "event">> /\ queue'[s] = <<"reset", "event">>
        <4>1. MayReject
          BY <1>1, <3>2 DEF StreamInv
        <4>. QED
          BY <3>2, <4>1 DEF Running
      <3>. QED
        BY <1>2, <3>1, <3>2
    <2>. QED
      BY <1>1, <1>3, <1>4, <2>1, <2>2, PerformsOne DEF StreamInv, Ran
  <1>6. inputs' \in [Stream -> Held]
    BY <1>4 DEF PipelineInv, TypeOK, Held
  <1>7. queue'[s] \in Idle \cup Running
    BY <1>2 DEF Running
  <1>. QED
    BY <1>1, <1>4, <1>5, <1>6, <1>7, OperationPreserves DEF PipelineInv, TypeOK

\* The reset of the counter.
LEMMA ResetPreserves ==
  ASSUME PipelineInv, NEW s \in Stream, Reset(s)
  PROVE  PipelineInv'
  <1>1. Performs(s, "reset") /\ StreamInv(s)
    BY DEF Reset, PipelineInv
  <1>2. \/ queue[s] = <<"reset", "kernel", "event">> /\ queue'[s] = <<"kernel", "event">>
        \/ queue[s] = <<"reset", "event">> /\ queue'[s] = <<"event">>
    BY <1>1, PerformsOne, AfterOperation
  <1>3. event[s] = "recorded"
    <2>1. queue[s] \in Running
      BY <1>2 DEF Running
    <2>. QED
      BY <1>1, <2>1, QueuesDiffer DEF StreamInv, PipelineInv, TypeOK
  <1>4. found' = [found EXCEPT ![s] = NoBatch] /\ UNCHANGED <<inputs, collected, event>>
    BY DEF Reset
  <1>5. StreamInv(s)'
    <2>1. found'[s] = NoBatch
      BY <1>4 DEF PipelineInv, TypeOK
    <2>2. /\ queue'[s] \in Running
          /\ queue'[s] # <<"copyOut">> /\ queue'[s] # <<>>
          /\ queue'[s] \notin {<<"copyIn", "reset", "event">>, <<"reset", "event">>}
          /\ queue'[s] # <<"reset", "kernel", "event">>
          /\ queue'[s] = <<"kernel", "event">> => inputs[s] = staged[s]
          /\ queue'[s] = <<"event">> => MayReject
      <3>1. CASE queue[s] = <<"reset", "kernel", "event">>
                 /\ queue'[s] = <<"kernel", "event">>
        <4>1. inputs[s] = staged[s]
          BY <1>1, <3>1 DEF StreamInv
        <4>. QED
          BY <3>1, <4>1 DEF Running
      <3>2. CASE queue[s] = <<"reset", "event">> /\ queue'[s] = <<"event">>
        <4>1. MayReject
          BY <1>1, <3>2 DEF StreamInv
        <4>. QED
          BY <3>2, <4>1 DEF Running
      <3>. QED
        BY <1>2, <3>1, <3>2
    <2>. QED
      BY <1>1, <1>3, <1>4, <2>1, <2>2, PerformsOne DEF StreamInv, Ran
  <1>6. found' \in [Stream -> Held]
    BY <1>4 DEF PipelineInv, TypeOK, Held
  <1>7. queue'[s] \in Idle \cup Running
    BY <1>2 DEF Running
  <1>. QED
    BY <1>1, <1>4, <1>5, <1>6, <1>7, OperationPreserves DEF PipelineInv, TypeOK

\* The search of the batch that is in the device's buffers.
LEMMA RunKernelPreserves ==
  ASSUME PipelineInv, NEW s \in Stream, RunKernel(s)
  PROVE  PipelineInv'
  <1>1. Performs(s, "kernel") /\ StreamInv(s)
    BY DEF RunKernel, PipelineInv
  <1>2. queue[s] = <<"kernel", "event">> /\ queue'[s] = <<"event">>
    BY <1>1, PerformsOne, AfterOperation
  <1>3. event[s] = "recorded"
    <2>1. queue[s] \in Running
      BY <1>2 DEF Running
    <2>. QED
      BY <1>1, <2>1, QueuesDiffer DEF StreamInv, PipelineInv, TypeOK
  <1>4. found' = [found EXCEPT ![s] = inputs[s]] /\ UNCHANGED <<inputs, collected, event>>
    BY DEF RunKernel
  <1>5. StreamInv(s)'
    <2>1. found'[s] = staged[s]
      BY <1>1, <1>2, <1>4 DEF PipelineInv, TypeOK, StreamInv
    <2>2. /\ queue'[s] \in Running
          /\ queue'[s] # <<"copyOut">> /\ queue'[s] # <<>>
          /\ queue'[s] \notin {<<"copyIn", "reset", "event">>, <<"reset", "event">>}
          /\ queue'[s] \notin {<<"reset", "kernel", "event">>, <<"kernel", "event">>}
      BY <1>2 DEF Running
    <2>. QED
      BY <1>1, <1>3, <1>4, <2>1, <2>2, PerformsOne DEF StreamInv, Ran
  <1>6. found' \in [Stream -> Held]
    BY <1>4 DEF PipelineInv, TypeOK
  <1>7. queue'[s] \in Idle \cup Running
    BY <1>2 DEF Running
  <1>. QED
    BY <1>1, <1>4, <1>5, <1>6, <1>7, OperationPreserves DEF PipelineInv, TypeOK

\* The completion of the event, after all that was enqueued before it.
LEMMA EventDonePreserves ==
  ASSUME PipelineInv, NEW s \in Stream, EventDone(s)
  PROVE  PipelineInv'
  <1>1. Performs(s, "event") /\ StreamInv(s)
    BY DEF EventDone, PipelineInv
  <1>2. queue[s] = <<"event">> /\ queue'[s] = <<>>
    BY <1>1, PerformsOne, AfterOperation
  <1>3. event[s] = "recorded"
    <2>1. queue[s] \in Running
      BY <1>2 DEF Running
    <2>. QED
      BY <1>1, <2>1, QueuesDiffer DEF StreamInv, PipelineInv, TypeOK
  <1>4. event' = [event EXCEPT ![s] = "done"] /\ UNCHANGED <<inputs, found, collected>>
    BY DEF EventDone, deviceVars
  <1>5. StreamInv(s)'
    <2>1. event'[s] = "done"
      BY <1>4 DEF PipelineInv, TypeOK
    <2>2. Ran(s) /\ ~(host = "waiting" /\ s = streamIdx)
      BY <1>1, <1>2, <1>3 DEF StreamInv, PipelineInv, HostInv
    <2>3. queue'[s] \in Idle
      BY <1>2 DEF Idle
    <2>4. /\ queue'[s] # <<"event">> /\ queue'[s] # <<"copyOut">>
          /\ queue'[s] \notin {<<"copyIn", "reset", "event">>, <<"reset", "event">>}
          /\ queue'[s] \notin {<<"reset", "kernel", "event">>, <<"kernel", "event">>}
      BY <1>2
    <2>. QED
      BY <1>1, <1>3, <1>4, <2>1, <2>2, <2>3, <2>4, PerformsOne DEF StreamInv, Ran
  <1>6. event' \in [Stream -> {"unused", "recorded", "done"}]
    BY <1>4 DEF PipelineInv, TypeOK
  <1>7. queue'[s] \in Idle \cup Running
    BY <1>2 DEF Idle
  <1>8. event'[s] # "recorded"
    BY <1>4 DEF PipelineInv, TypeOK
  <1>. QED
    BY <1>1, <1>4, <1>5, <1>6, <1>7, <1>8, OperationPreserves DEF PipelineInv, TypeOK

\* The copy of the results to the pinned buffers.
LEMMA CopyOutPreserves ==
  ASSUME PipelineInv, NEW s \in Stream, CopyOut(s)
  PROVE  PipelineInv'
  <1>1. Performs(s, "copyOut") /\ StreamInv(s)
    BY DEF CopyOut, PipelineInv
  <1>2. queue[s] = <<"copyOut">> /\ queue'[s] = <<>>
    BY <1>1, PerformsOne, AfterOperation
  <1>3. event[s] # "recorded"
    <2>1. queue[s] \in Idle
      BY <1>2 DEF Idle
    <2>. QED
      BY <1>1, <2>1, QueuesDiffer DEF StreamInv
  <1>4. collected' = [collected EXCEPT ![s] = found[s]] /\ UNCHANGED <<inputs, found, event>>
    BY DEF CopyOut
  <1>5. StreamInv(s)'
    <2>1. collected'[s] = found[s]
      BY <1>4 DEF PipelineInv, TypeOK
    <2>2. queue'[s] \in Idle
      BY <1>2 DEF Idle
    <2>3. /\ queue'[s] # <<"event">> /\ queue'[s] # <<"copyOut">>
          /\ queue'[s] \notin {<<"copyIn", "reset", "event">>, <<"reset", "event">>}
          /\ queue'[s] \notin {<<"reset", "kernel", "event">>, <<"kernel", "event">>}
      BY <1>2
    <2>. QED
      BY <1>1, <1>3, <1>4, <2>1, <2>2, <2>3, PerformsOne DEF StreamInv, Ran
  <1>6. collected' \in [Stream -> Held]
    BY <1>4 DEF PipelineInv, TypeOK
  <1>7. queue'[s] \in Idle \cup Running
    BY <1>2 DEF Idle
  <1>. QED
    BY <1>1, <1>3, <1>4, <1>5, <1>6, <1>7, OperationPreserves DEF PipelineInv, TypeOK

LEMMA NextInv == PipelineInv /\ [Next]_vars => PipelineInv'
  <1>. SUFFICES ASSUME PipelineInv, [Next]_vars PROVE PipelineInv'
    OBVIOUS
  <1>1. CASE Tick
    BY <1>1, BusyPreserves, CollectsPreserves, LaunchesPreserves DEF Tick
  <1>2. CASE \E s \in Stream : Gpu(s)
    BY <1>2, CopyInPreserves, ResetPreserves, RunKernelPreserves, EventDonePreserves,
       CopyOutPreserves DEF Gpu
  <1>3. CASE TickThrows \/ (\E j \in Job : setMiningJobContext(j)) \/ Thrown \/ UNCHANGED vars
    BY <1>3, OthersPreserve DEF Thrown
  <1>. QED
    BY <1>1, <1>2, <1>3 DEF Next

LEMMA PipelineInvariant == Spec => []PipelineInv
  BY InitInv, NextInv, PTL DEF Spec

-----------------------------------------------------------------------------
(* What follows.                                                           *)

\* The fields of the executor, the pipeline and the device manager keep their types,
\* for any number of streams (search_executor.cpp, pipeline_manager.cpp).
THEOREM TypeCorrect == Spec => []TypeOK
  BY PipelineInvariant, PTL DEF PipelineInv

\* A stream never has two batches enqueued, and the host never writes a pinned buffer
\* the GPU has still to read (search_executor.cpp runAsyncTick).
THEOREM OneBatchPerStreamHolds == Spec => []OneBatchPerStream
  <1>1. PipelineInv => OneBatchPerStream
    <2>. SUFFICES ASSUME PipelineInv, NEW s \in Stream
                  PROVE  /\ Len(queue[s]) <= 4
                         /\ event[s] # "recorded" => queue[s] \in Idle
                         /\ queue[s] = <<"copyOut">> =>
                                s = streamIdx /\ host \in {"waiting", "thrown"}
                         /\ event[s] = "recorded" => queue[s] # <<>> /\ pendingCounts[s] = 1
      BY DEF OneBatchPerStream, Idle
    <2>1. Len(queue[s]) <= 4
      BY QueuesDiffer DEF PipelineInv, QueueTypes
    <2>2. event[s] # "recorded" => queue[s] \in Idle
      BY DEF PipelineInv, TypeOK, StreamInv
    <2>3. <<>> \notin Running
      BY QueuesDiffer DEF Idle
    <2>. QED
      BY <2>1, <2>2, <2>3 DEF PipelineInv, StreamInv
  <1>. QED
    BY <1>1, PipelineInvariant, PTL

\* What was never written on the device is handed over by a stream's first collection
\* at most: what each turn finds there is of the batch before or nothing.
LEMMA CollectedBatch ==
  ASSUME PipelineInv, NEW s \in Stream, host = "waiting", s = streamIdx, Synchronized(s)
  PROVE  \/ /\ staged[s] = NoBatch /\ log[s] = <<>>
            /\ collected[s] = Garbage
         \/ /\ staged[s] \in Batch
            /\ collected[s] = staged[s] \/ (MayReject /\ collected[s] = NoBatch)
  <1>1. event[s] \in {"unused", "done"} /\ queue[s] = <<>> /\ StreamInv(s)
        /\ staged[s] \in Batch \cup {NoBatch}
    BY DEF PipelineInv, HostInv, Synchronized, TypeOK
  <1>2. collected[s] = found[s]
    BY <1>1 DEF StreamInv
  <1>3. CASE event[s] = "unused"
    BY <1>1, <1>3 DEF StreamInv
  <1>4. CASE event[s] = "done"
    BY <1>1, <1>2, <1>4 DEF StreamInv, Ran
  <1>. QED
    BY <1>1, <1>3, <1>4

\* What the second half of a tick hands over.
LEMMA HandedBatch ==
  ASSUME PipelineInv, NEW launched \in {TRUE, ~MayReject}, TickLaunches(launched)
  PROVE  \E b \in Held :
           /\ log' = [log EXCEPT ![streamIdx] = Append(@, [batch |-> b, job |-> currentJob])]
           /\ b = Garbage => log[streamIdx] = <<>>
           /\ \/ b = staged[streamIdx] /\ b \in Batch
              \/ b \in {Garbage, NoBatch} /\ (MayReject \/ staged[streamIdx] = NoBatch)
  <1>1. host = "waiting" /\ streamIdx \in Stream /\ Synchronized(streamIdx)
    BY DEF TickLaunches, PipelineInv, TypeOK
  <1>2. PICK b \in IF collected[streamIdx] = Garbage THEN {Garbage, NoBatch}
                                                  ELSE {collected[streamIdx]} :
          log' = [log EXCEPT ![streamIdx] = Append(@, [batch |-> b, job |-> currentJob])]
    BY DEF TickLaunches, HandsOver
  <1>3. CASE staged[streamIdx] = NoBatch /\ log[streamIdx] = <<>>
             /\ collected[streamIdx] = Garbage
    BY <1>2, <1>3 DEF Held
  <1>4. CASE staged[streamIdx] \in Batch /\ collected[streamIdx] = staged[streamIdx]
    <2>1. b = staged[streamIdx] /\ b \in Batch /\ b # Garbage
      BY <1>2, <1>4, BatchNumbers
    <2>. QED
      BY <1>2, <2>1 DEF Held
  <1>5. CASE MayReject /\ collected[streamIdx] = NoBatch
    <2>1. b = NoBatch /\ b # Garbage
      BY <1>2, <1>5, BatchNumbers
    <2>. QED
      BY <1>2, <1>5, <2>1 DEF Held
  <1>. QED
    BY <1>1, <1>3, <1>4, <1>5, CollectedBatch

\* Only this step appends to the history of what was handed over.
LEMMA OnlyLaunchesHandOver ==
  ASSUME [Next]_vars
  PROVE  \/ UNCHANGED <<log, staged>>
         \/ \E launched \in {TRUE, ~MayReject} : TickLaunches(launched)
  BY DEF Next, Tick, TickBusy, TickCollects, TickThrows, setMiningJobContext, Gpu, CopyIn,
         Reset, RunKernel, EventDone, CopyOut, Performs, Thrown, vars, historyVars

\* Memory that was never written reaches the caller in the first collection from a
\* stream only (search_executor.cpp:106).
THEOREM GarbageOnlyAtFirstHolds == Spec => []GarbageOnlyAtFirst
  <1>1. Init => GarbageOnlyAtFirst
    BY DEF Init, GarbageOnlyAtFirst
  <1>2. PipelineInv /\ GarbageOnlyAtFirst /\ [Next]_vars => GarbageOnlyAtFirst'
    <2>. SUFFICES ASSUME PipelineInv, GarbageOnlyAtFirst, [Next]_vars
                  PROVE  GarbageOnlyAtFirst'
      OBVIOUS
    <2>1. CASE UNCHANGED <<log, staged>>
      BY <2>1 DEF GarbageOnlyAtFirst
    <2>2. ASSUME NEW launched \in {TRUE, ~MayReject}, TickLaunches(launched)
          PROVE  GarbageOnlyAtFirst'
      <3>1. PICK b \in Held :
              /\ log' = [log EXCEPT ![streamIdx] = Append(@, [batch |-> b, job |-> currentJob])]
              /\ b = Garbage => log[streamIdx] = <<>>
        BY <2>2, HandedBatch
      <3>. SUFFICES ASSUME NEW s \in Stream, NEW i \in 2 .. Len(log'[s])
                    PROVE  log'[s][i].batch # Garbage
        BY DEF GarbageOnlyAtFirst
      <3>2. log[s] \in Seq([batch : Held, job : Job])
        BY DEF PipelineInv, TypeOK
      <3>3. CASE s # streamIdx
        <4>1. log'[s] = log[s]
          BY <3>1, <3>3 DEF PipelineInv, TypeOK
        <4>. QED
          BY <4>1 DEF GarbageOnlyAtFirst
      <3>4. CASE s = streamIdx
        <4>. DEFINE r == [batch |-> b, job |-> currentJob]
        <4>1. log'[s] = Append(log[s], r)
          BY <3>1, <3>4 DEF PipelineInv, TypeOK
        <4>2. r \in [batch : Held, job : Job] /\ r.batch = b
          BY DEF PipelineInv, TypeOK
        <4>. HIDE DEF r
        <4>3. /\ Len(log'[s]) = Len(log[s]) + 1
              /\ \A k \in 1 .. Len(log[s]) : log'[s][k] = log[s][k]
              /\ log'[s][Len(log[s]) + 1] = r
          BY <3>2, <4>1, <4>2, AppendProperties
        <4>4. CASE i = Len(log[s]) + 1
          <5>1. Len(log[s]) \in Nat /\ i >= 2
            BY <3>2
          <5>2. log[s] # <<>>
            BY <4>4, <5>1
          <5>. QED
            BY <3>1, <3>4, <4>2, <4>3, <4>4, <5>2
        <4>5. CASE i # Len(log[s]) + 1
          <5>1. i \in 2 .. Len(log[s]) /\ i \in 1 .. Len(log[s])
            BY <3>2, <4>3, <4>5
          <5>. QED
            BY <4>3, <5>1 DEF GarbageOnlyAtFirst
        <4>. QED
          BY <4>4, <4>5
      <3>. QED
        BY <3>3, <3>4
    <2>. QED
      BY <2>1, <2>2, OnlyLaunchesHandOver
  <1>. QED
    BY <1>1, <1>2, PipelineInvariant, PTL DEF Spec

-----------------------------------------------------------------------------
(* The refinement.                                                         *)

LEMMA LastHandedAppend ==
  ASSUME NEW l \in Seq([batch : Held, job : Job]), NEW r \in [batch : Held, job : Job]
  PROVE  LastHanded(Append(l, r)) = IF r.batch \in Batch THEN r.batch ELSE NoBatch
  <1>1. Len(Append(l, r)) = Len(l) + 1 /\ Append(l, r)[Len(l) + 1] = r /\ Len(l) \in Nat
    BY AppendProperties
  <1>2. Append(l, r) # <<>>
    BY <1>1, EmptySeq
  <1>. QED
    BY <1>1, <1>2 DEF LastHanded

\* The second half of a tick is a turn: the batch that was on the stream, or nothing,
\* is handed over, and a newer one takes its place.
LEMMA LaunchIsTurn ==
  ASSUME PipelineInv, NEW launched \in {TRUE, ~MayReject}, TickLaunches(launched)
  PROVE  Service!Turn(streamIdx)
  <1>. DEFINE handed == [s \in Stream |-> LastHanded(log[s])]
  <1>1. /\ streamIdx \in Stream /\ ticks + 1 \in Batch
        /\ staged' = [staged EXCEPT ![streamIdx] = ticks + 1]
    BY PipelineAssumption, BatchNumbers DEF PipelineInv, TypeOK, HostInv, TickLaunches
  <1>2. \A s \in Stream : ticks + 1 > staged[s]
    <2>. SUFFICES ASSUME NEW s \in Stream PROVE ticks + 1 > staged[s]
      OBVIOUS
    <2>1. staged[s] <= ticks /\ ticks \in Nat /\ staged[s] \in Nat
      BY PipelineAssumption DEF PipelineInv, StreamInv, TypeOK, Batch, NoBatch
    <2>. QED
      BY <2>1
  <1>3. PICK b \in Held :
          /\ log' = [log EXCEPT ![streamIdx] = Append(@, [batch |-> b, job |-> currentJob])]
          /\ \/ b = staged[streamIdx] /\ b \in Batch
             \/ b \in {Garbage, NoBatch} /\ (MayReject \/ staged[streamIdx] = NoBatch)
    BY HandedBatch
  <1>. DEFINE r == [batch |-> b, job |-> currentJob]
              h == IF b \in Batch THEN b ELSE NoBatch
  <1>4. handed' = [handed EXCEPT ![streamIdx] = h]
    <2>1. r \in [batch : Held, job : Job] /\ r.batch = b
          /\ log \in [Stream -> Seq([batch : Held, job : Job])]
      BY DEF PipelineInv, TypeOK
    <2>2. log' = [log EXCEPT ![streamIdx] = Append(log[streamIdx], r)]
      BY <1>3
    <2>. HIDE DEF r
    <2>3. LastHanded(Append(log[streamIdx], r)) = h
      BY <1>1, <2>1, LastHandedAppend
    <2>4. \A s \in Stream :
             LastHanded(log'[s]) = IF s = streamIdx THEN h ELSE LastHanded(log[s])
      BY <1>1, <2>1, <2>2, <2>3
    <2>. QED
      BY <1>1, <2>4, Zenon
  <1>5. h = staged[streamIdx] \/ (MayReject /\ h = NoBatch)
    BY <1>3, BatchNumbers
  <1>. HIDE DEF h
  <1>6. \/ handed' = [handed EXCEPT ![streamIdx] = staged[streamIdx]]
        \/ MayReject /\ handed' = [handed EXCEPT ![streamIdx] = 0]
    BY <1>4, <1>5 DEF NoBatch
  <1>7. \E n \in Batch : /\ \A s \in Stream : n > staged[s]
                         /\ staged' = [staged EXCEPT ![streamIdx] = n]
    BY <1>1, <1>2
  <1>. QED
    BY <1>6, <1>7 DEF Service!Turn

\* The pipeline implements BatchService: whatever the GPU does between two calls, the
\* solutions a stream hands over are those of the batch it was given last, and are
\* handed over once (search_executor.cpp runAsyncTick).
THEOREM PipelineImplementsService == Spec => ImplementsService
  <1>1. Init => Service!ServiceInit
    <2>. SUFFICES ASSUME Init PROVE Service!ServiceInit
      OBVIOUS
    <2>1. \A s \in Stream : log[s] = <<>> /\ LastHanded(<<>>) = NoBatch
      BY DEF Init, LastHanded
    <2>. QED
      BY <2>1 DEF Init, Service!ServiceInit, NoBatch
  <1>2. PipelineInv /\ [Next]_vars => [Service!ServiceNext]_Service!serviceVars
    <2>. SUFFICES ASSUME PipelineInv, [Next]_vars
                  PROVE  [Service!ServiceNext]_Service!serviceVars
      OBVIOUS
    <2>1. CASE UNCHANGED <<log, staged>>
      BY <2>1 DEF Service!serviceVars
    <2>2. ASSUME NEW launched \in {TRUE, ~MayReject}, TickLaunches(launched)
          PROVE  Service!ServiceNext
      <3>1. streamIdx \in Stream
        BY DEF PipelineInv, TypeOK
      <3>. QED
        BY <2>2, <3>1, LaunchIsTurn DEF Service!ServiceNext
    <2>. QED
      BY <2>1, <2>2, OnlyLaunchesHandOver
  <1>. QED
    BY <1>1, <1>2, PipelineInvariant, PTL DEF Spec, ImplementsService, Service!ServiceSpec

-----------------------------------------------------------------------------
(* The counter of hashes.                                                  *)

Pending == {s \in Stream : pendingCounts[s] = 1}
LaunchPlaces == {p \in Stream \X Batch : p[2] <= Len(given[p[1]])}

\* The hashes counted are ahead of those of the batches collected by one for each call:
\* those of the batch it launches, or was called with in vain.
CountRunsAhead == totalHashes + Cardinality(Pending) = ticks + Cardinality(LaunchPlaces)

HashInv == CountRunsAhead /\ \A s \in Stream : Len(given[s]) <= ticks

LEMMA FiniteCounts ==
  /\ IsFiniteSet(Pending) /\ Cardinality(Pending) \in Nat
  /\ IsFiniteSet(LaunchPlaces) /\ Cardinality(LaunchPlaces) \in Nat
  <1>1. IsFiniteSet(Stream) /\ IsFiniteSet(Batch)
    BY FS_Interval, PipelineAssumption DEF Stream, Batch
  <1>2. IsFiniteSet(Stream \X Batch)
    BY <1>1, FS_Product
  <1>3. Pending \subseteq Stream /\ LaunchPlaces \subseteq Stream \X Batch
    BY DEF Pending, LaunchPlaces
  <1>. QED
    BY <1>1, <1>2, <1>3, FS_Subset, FS_CardinalityType

LEMMA HashInit == Init => HashInv
  <1>. SUFFICES ASSUME Init PROVE HashInv
    OBVIOUS
  <1>1. Pending = {}
    BY DEF Init, Pending
  <1>2. \A s \in Stream : Len(given[s]) = 0
    BY DEF Init
  <1>3. LaunchPlaces = {}
    BY <1>2 DEF LaunchPlaces, Batch
  <1>4. Cardinality(Pending) = 0 /\ Cardinality(LaunchPlaces) = 0
    BY <1>1, <1>3, FS_EmptySet
  <1>5. totalHashes = 0 /\ ticks = 0
    BY DEF Init
  <1>6. CountRunsAhead
    BY <1>4, <1>5 DEF CountRunsAhead
  <1>. QED
    BY <1>2, <1>5, <1>6 DEF HashInv

\* A launch adds the hashes of the batch that is done and those of the new one.
LEMMA LaunchesCount ==
  ASSUME PipelineInv, HashInv, NEW launched \in {TRUE, ~MayReject}, TickLaunches(launched)
  PROVE  HashInv'
  <1>. DEFINE s == streamIdx
              place == <<s, Len(given[s]) + 1>>
  <1>1. /\ s \in Stream /\ ticks \in Nat /\ totalHashes \in Nat /\ ticks' = ticks + 1
        /\ pendingCounts \in [Stream -> 0 .. 1] /\ ticks < MaxTicks
        /\ given \in [Stream -> Seq([batch : Held, job : Job])]
    <2>1. host = "waiting" /\ ticks' = ticks + 1
      BY DEF TickLaunches
    <2>2. ticks < MaxTicks
      BY <2>1 DEF PipelineInv, HostInv
    <2>3. ticks \in 0 .. MaxTicks /\ totalHashes \in Nat /\ s \in Stream
      BY DEF PipelineInv, TypeOK
    <2>4. /\ pendingCounts \in [Stream -> 0 .. 1]
          /\ given \in [Stream -> Seq([batch : Held, job : Job])]
      BY DEF PipelineInv, TypeOK
    <2>5. ticks \in Nat
      BY <2>3, PipelineAssumption
    <2>. QED
      BY <2>1, <2>2, <2>3, <2>4, <2>5
  <1>2. /\ totalHashes' = totalHashes + pendingCounts[s] + 1
        /\ pendingCounts' = [pendingCounts EXCEPT ![s] = 1]
    <2>1. Accounts(streamIdx)
      BY DEF TickLaunches
    <2>. QED
      BY <2>1 DEF Accounts
  <1>3. /\ Len(given'[s]) = Len(given[s]) + 1
        /\ \A r \in Stream : r # s => given'[r] = given[r]
    <2>. DEFINE e == [batch |-> ticks + 1, job |-> currentJob]
    <2>1. given' = [given EXCEPT ![s] = Append(given[s], e)]
      BY DEF TickLaunches
    <2>2. ticks + 1 \in Held /\ currentJob \in Job
      BY BatchNumbers, <1>1, PipelineAssumption DEF PipelineInv, TypeOK, Held
    <2>3. e \in [batch : Held, job : Job]
      BY <2>2
    <2>. HIDE DEF e
    <2>4. Len(Append(given[s], e)) = Len(given[s]) + 1
      BY <1>1, <2>3, AppendProperties
    <2>. QED
      BY <1>1, <2>1, <2>4
  <1>4. Len(given[s]) \in Nat /\ Len(given[s]) <= ticks
    BY <1>1 DEF HashInv
  <1>5. LaunchPlaces' = LaunchPlaces \cup {place} /\ place \notin LaunchPlaces
    <2>1. place \in Stream \X Batch /\ place[1] = s /\ place[2] = Len(given[s]) + 1
      BY <1>1, <1>4, PipelineAssumption DEF Batch
    <2>2. place \in LaunchPlaces' /\ place \notin LaunchPlaces
      BY <1>3, <1>4, <2>1 DEF LaunchPlaces
    <2>3. ASSUME NEW p \in Stream \X Batch, p # place
          PROVE  p[2] <= Len(given'[p[1]]) <=> p[2] <= Len(given[p[1]])
      <3>1. CASE p[1] # s
        BY <1>3, <3>1
      <3>2. CASE p[1] = s
        <4>1. p = <<p[1], p[2]>> /\ p[2] \in Nat
          BY PipelineAssumption DEF Batch
        <4>2. p[2] # Len(given[s]) + 1
          BY <2>3, <3>2, <4>1
        <4>. QED
          BY <1>3, <1>4, <3>2, <4>1, <4>2
      <3>. QED
        BY <3>1, <3>2
    <2>. QED
      BY <2>2, <2>3 DEF LaunchPlaces, Stream, Batch
  <1>6. Cardinality(LaunchPlaces') = Cardinality(LaunchPlaces) + 1
    BY <1>5, FiniteCounts, FS_AddElement
  <1>7. Pending' = Pending \cup {s}
    BY <1>1, <1>2 DEF Pending, Stream
  <1>8. Cardinality(Pending') = Cardinality(Pending) + 1 - pendingCounts[s]
    <2>1. CASE pendingCounts[s] = 1
      <3>1. s \in Pending
        BY <1>1, <2>1 DEF Pending
      <3>2. Pending' = Pending
        BY <1>7, <3>1
      <3>. QED
        BY <2>1, <3>2, FiniteCounts
    <2>2. CASE pendingCounts[s] = 0
      <3>1. s \notin Pending
        BY <2>2 DEF Pending
      <3>2. Cardinality(Pending') = Cardinality(Pending) + 1
        BY <1>7, <3>1, FiniteCounts, FS_AddElement
      <3>. QED
        BY <2>2, <3>2, FiniteCounts
    <2>3. pendingCounts[s] \in 0 .. 1
      BY <1>1
    <2>. QED
      BY <2>1, <2>2, <2>3
  <1>9. totalHashes + Cardinality(Pending) = ticks + Cardinality(LaunchPlaces)
    BY DEF HashInv, CountRunsAhead
  <1>10. totalHashes' + Cardinality(Pending') = ticks' + Cardinality(LaunchPlaces')
    <2>1. pendingCounts[s] \in 0 .. 1
      BY <1>1
    <2>. HIDE DEF s
    <2>. QED
      BY <1>1, <1>2, <1>6, <1>8, <1>9, <2>1, FiniteCounts
  <1>11. CountRunsAhead'
    BY <1>10 DEF CountRunsAhead
  <1>12. ASSUME NEW r \in Stream PROVE Len(given'[r]) <= ticks'
    <2>1. Len(given[r]) \in Nat /\ Len(given[r]) <= ticks
      BY <1>1 DEF HashInv
    <2>. QED
      BY <1>1, <1>3, <2>1
  <1>. QED
    BY <1>11, <1>12 DEF HashInv, Stream

\* How wrong the hash counter is: it exceeds the hashes of the batches that were
\* launched and collected by exactly one batch's for every call of searchAsync, those
\* that met a busy stream or a refused launch included (device_manager.cu searchAsync,
\* search_executor.cpp runAsyncTick).
THEOREM CountRunsAheadHolds == Spec => []CountRunsAhead
  <1>1. PipelineInv /\ HashInv /\ [Next]_vars => HashInv'
    <2>. SUFFICES ASSUME PipelineInv, HashInv, [Next]_vars PROVE HashInv'
      OBVIOUS
    <2>1. CASE TickBusy
      <3>1. /\ totalHashes' = totalHashes + 1 /\ ticks' = ticks + 1
            /\ UNCHANGED <<pendingCounts, given>>
        BY <2>1 DEF TickBusy, historyVars
      <3>2. Pending' = Pending /\ LaunchPlaces' = LaunchPlaces
        BY <3>1 DEF Pending, LaunchPlaces
      <3>3. totalHashes \in Nat /\ ticks \in Nat
        BY PipelineAssumption DEF PipelineInv, TypeOK
      <3>4. totalHashes + Cardinality(Pending) = ticks + Cardinality(LaunchPlaces)
        BY DEF HashInv, CountRunsAhead
      <3>5. totalHashes' + Cardinality(Pending') = ticks' + Cardinality(LaunchPlaces')
        BY <3>1, <3>2, <3>3, <3>4, FiniteCounts
      <3>6. \A s \in Stream : Len(given'[s]) <= ticks'
        <4>1. \A s \in Stream : Len(given[s]) \in Nat
          BY DEF PipelineInv, TypeOK
        <4>. QED
          BY <3>1, <3>3, <4>1 DEF HashInv
      <3>. QED
        BY <3>5, <3>6
        DEF HashInv, CountRunsAhead, Pending, LaunchPlaces, Stream, Batch
    <2>2. ASSUME NEW launched \in {TRUE, ~MayReject}, TickLaunches(launched)
          PROVE  HashInv'
      BY <2>2, LaunchesCount
    <2>3. CASE UNCHANGED <<totalHashes, pendingCounts, given, ticks>>
      BY <2>3 DEF HashInv, CountRunsAhead, Pending, LaunchPlaces, Stream, Batch
    <2>4. \/ TickBusy \/ UNCHANGED <<totalHashes, pendingCounts, given, ticks>>
          \/ \E launched \in {TRUE, ~MayReject} : TickLaunches(launched)
      BY DEF Next, Tick, TickCollects, TickThrows, setMiningJobContext, Gpu, CopyIn, Reset,
             RunKernel, EventDone, CopyOut, Performs, Thrown, vars, hostVars, historyVars
    <2>. QED
      BY <2>1, <2>2, <2>3, <2>4
  <1>. QED
    BY <1>1, HashInit, PipelineInvariant, PTL DEF Spec, HashInv
=============================================================================
