---------------------------- MODULE MiningEngine -----------------------------
(***************************************************************************)
(* The miner: main, MiningEngine and, called from its one thread, the      *)
(* StratumClient, the DagGenerator and the DeviceManager.                  *)
(*                                                                         *)
(* pc says where that thread is.  A step is a piece of a handler between   *)
(* two points where something else can happen: a system call on the        *)
(* socket, a signal, a choice made by the clock.  The pool, the network    *)
(* and the user who presses Ctrl+C act between the steps.                  *)
(***************************************************************************)
EXTENDS StratumClient, DagMemory, FiniteSets

CONSTANTS
    SeedEpoch,     \* epochFromSeedHash of each job's seed, NoEpoch if it is not found
    Hits,          \* the nonces of the searched range that solve each job
    MaxSolutions,  \* capacity of the device's solution buffer (16)
    MaxFound       \* bound: solutions the device finds in one behaviour

ASSUME EngineAssumption ==
    /\ SeedEpoch \in [Job -> Epoch \cup {NoEpoch}]
    /\ Hits \in [Job -> SUBSET Nonce] /\ IsFiniteSet(Nonce)
    /\ MaxSolutions \in Nat \ {0} /\ MaxFound \in Nat

VARIABLES
    pc,             \* where the thread is
    running,        \* g_running
    hasJob, job,    \* MiningEngine::hasJob_, currentJob_
    difficulty,     \* MiningEngine::lastDifficulty_
    snapshot,       \* jobSnapshot of the current iteration
    batch,          \* solutions of the current batch not yet submitted
    sent,           \* history: the shares sent to the pool
    found,          \* number of solutions found so far
    shares          \* acceptedShares_ and rejectedShares_

engineVars == <<running, hasJob, job, difficulty, snapshot, batch, sent, found,
                shares>>
vars == <<linkVars, poolVars, clientVars, dagVars, engineVars, pc>>

PC == {"connect", "subscribe", "subscribeReply", "authorize", "authorizeReply",
       "loop", "poll", "parse", "work", "search", "submit", "submitReply",
       "stop", "exit", "done", "killed"}

Init ==
    /\ ClientInit /\ DagInit
    /\ pc = "connect"
    /\ running = TRUE
    /\ hasJob = FALSE /\ job = NoJob
    /\ difficulty = 0
    /\ snapshot = NoJob /\ batch = {} /\ sent = <<>>
    /\ found = 0
    /\ shares = [accepted |-> 0, rejected |-> 0]

\* epochFromSeedHash, and the default for a seed it does not know.
EpochOf(j) == IF SeedEpoch[j] = NoEpoch THEN 0 ELSE SeedEpoch[j]

-----------------------------------------------------------------------------
(* MiningEngine::initialize: connect, subscribe, authorize.  Any failure   *)
(* makes main return, which destroys the engine ("exit").                  *)

\* No device, an unknown host, or a refused connection.
ConnectFails ==
    /\ pc = "connect"
    /\ pc' = "exit"
    /\ UNCHANGED <<linkVars, poolVars, clientVars, dagVars, engineVars>>

ConnectSucceeds ==
    /\ pc = "connect"
    /\ Connect
    /\ pc' = "subscribe"
    /\ UNCHANGED <<dagVars, engineVars>>

\* The requests of subscribe and authorize.
Requests(type, next) ==
    /\ pc = type
    /\ \/ Send([type |-> type]) /\ pc' = next
       \/ SendFails /\ pc' = "exit"
    /\ UNCHANGED <<toMiner, poolVars, clientVars, dagVars, engineVars>>

\* receiveMessage returned an empty string.
ReplyMissing ==
    /\ pc \in {"subscribeReply", "authorizeReply"}
    /\ \/ RecvEof /\ UNCHANGED peer
       \/ RecvError /\ UNCHANGED connected
    /\ pc' = "exit"
    /\ UNCHANGED <<toMiner, toPool, poolVars, clientJob, rx, dagVars, engineVars>>

SubscribeReply(n) ==
    /\ pc = "subscribeReply"
    /\ Recv(n)
    /\ pc' = IF Grants("subscribe", Chunk(n)) THEN "authorize" ELSE "exit"
    /\ UNCHANGED <<peer, toPool, poolVars, clientVars, dagVars, engineVars>>

\* A job instead of the answer counts as success; the client keeps it, but the
\* engine's callbacks are only installed after authorize has returned.
AuthorizeReply(n) ==
    /\ pc = "authorizeReply"
    /\ Recv(n)
    /\ clientJob' = IF Announces(Chunk(n)) THEN Chunk(n)[1].msg.job ELSE clientJob
    /\ pc' = IF Announces(Chunk(n)) \/ Grants("authorize", Chunk(n))
             THEN "loop" ELSE "exit"
    /\ UNCHANGED <<peer, toPool, poolVars, connected, rx, dagVars, engineVars>>

Initialize ==
    \/ ConnectFails
    \/ ConnectSucceeds
    \/ Requests("subscribe", "subscribeReply")
    \/ Requests("authorize", "authorizeReply")
    \/ ReplyMissing
    \/ \E n \in ChunkSize : SubscribeReply(n) \/ AuthorizeReply(n)

-----------------------------------------------------------------------------
(* MiningEngine::run, the top of the loop and processMessages.             *)

LoopEnds ==
    /\ pc = "loop"
    /\ ~running \/ ~connected
    /\ pc' = "stop"
    /\ UNCHANGED <<linkVars, poolVars, clientVars, dagVars, engineVars>>

\* Faulty variant: the flag is not tested at the top of the loop.
LoopContinuesAnyway(next) ==
    /\ pc = "loop"
    /\ connected
    /\ pc' = next
    /\ UNCHANGED <<linkVars, poolVars, clientVars, dagVars, engineVars>>

\* Messages are looked for when 100 ms have passed since the last time.
LoopContinues(next) ==
    /\ pc = "loop"
    /\ running /\ connected
    /\ pc' = next
    /\ UNCHANGED <<linkVars, poolVars, clientVars, dagVars, engineVars>>

LoopPolls == LoopContinues("poll")
LoopSkipsPoll == LoopContinues("work")

PollReceives(n) ==
    /\ pc = "poll"
    /\ Recv(n)
    /\ rx' = Chunk(n)
    /\ pc' = "parse"
    /\ UNCHANGED <<peer, toPool, poolVars, connected, clientJob, dagVars, engineVars>>

\* EAGAIN, end of stream or error: processMessages returns false.
PollReceivesNothing ==
    /\ pc = "poll"
    /\ \/ toMiner = <<>> /\ peer = "open" /\ UNCHANGED <<peer, connected>>
       \/ RecvEof /\ UNCHANGED peer
       \/ RecvError /\ UNCHANGED connected
    /\ pc' = "work"
    /\ UNCHANGED <<toMiner, toPool, poolVars, clientJob, rx, dagVars, engineVars>>

ParseSkips ==
    /\ pc = "parse"
    /\ \/ SkipsTail /\ rx' = Tail(rx) /\ pc' = "parse"
       \/ DropsHead /\ rx' = <<>> /\ pc' = "work"
       \/ rx = <<>> /\ pc' = "work" /\ UNCHANGED rx
    /\ UNCHANGED <<linkVars, poolVars, connected, clientJob, dagVars, engineVars>>

\* An answer nobody is waiting for any more.
ParseAnswer ==
    /\ pc = "parse"
    /\ ParsesNext /\ rx[1].msg.type = "answer"
    /\ rx' = AfterObject
    /\ UNCHANGED <<pc, linkVars, poolVars, connected, clientJob, dagVars, engineVars>>

\* Faulty variant: off by one.
ParseDifficultyOffByOne ==
    /\ pc = "parse"
    /\ ParsesNext /\ rx[1].msg.type = "difficulty"
    /\ difficulty' = rx[1].msg.value - 1
    /\ rx' = AfterObject
    /\ UNCHANGED <<pc, linkVars, poolVars, connected, clientJob, dagVars,
                   running, hasJob, job, snapshot, batch, sent, found, shares>>

\* processNotification and onDifficultyUpdate.
ParseDifficulty ==
    /\ pc = "parse"
    /\ ParsesNext /\ rx[1].msg.type = "difficulty"
    /\ difficulty' = rx[1].msg.value
    /\ rx' = AfterObject
    /\ UNCHANGED <<pc, linkVars, poolVars, connected, clientJob, dagVars,
                   running, hasJob, job, snapshot, batch, sent, found, shares>>

\* Faulty variant: a failed initializeDag does not withdraw the job.
PreparesDagOrNot(j) ==
    \/ EpochOf(j) = dagEpoch /\ UNCHANGED dagVars /\ hasJob' = TRUE /\ pc' = "parse"
    \/ /\ EpochOf(j) # dagEpoch
       /\ InitializeDag(EpochOf(j))
       /\ hasJob' = TRUE
       /\ pc' = IF dagCall' = "threw" THEN "exit" ELSE "parse"

\* Faulty variant: the exception is caught in processNotification.
PreparesDagCatching(j) ==
    \/ EpochOf(j) = dagEpoch /\ UNCHANGED dagVars /\ hasJob' = TRUE /\ pc' = "parse"
    \/ /\ EpochOf(j) # dagEpoch
       /\ InitializeDag(EpochOf(j))
       /\ hasJob' = (dagCall' = "ok")
       /\ pc' = "parse"

\* onJobReceived: a DAG that cannot be prepared leaves the engine without a job;
\* an exception leaves the loop, the engine and main's try block.
PreparesDag(j) ==
    \/ EpochOf(j) = dagEpoch /\ UNCHANGED dagVars /\ hasJob' = TRUE /\ pc' = "parse"
    \/ /\ EpochOf(j) # dagEpoch
       /\ InitializeDag(EpochOf(j))
       /\ hasJob' = (dagCall' # "failed")
       /\ pc' = IF dagCall' = "threw" THEN "exit" ELSE "parse"

\* processNotification, with its callback onJobReceived.
ParseNotify ==
    /\ pc = "parse"
    /\ ParsesNext /\ rx[1].msg.type = "notify"
    /\ clientJob' = rx[1].msg.job
    /\ job' = rx[1].msg.job
    /\ PreparesDag(rx[1].msg.job)
    /\ rx' = AfterObject
    /\ UNCHANGED <<linkVars, poolVars, connected,
                   running, difficulty, snapshot, batch, sent, found, shares>>

ProcessMessages ==
    \/ \E n \in ChunkSize : PollReceives(n)
    \/ PollReceivesNothing
    \/ ParseSkips \/ ParseAnswer \/ ParseDifficulty \/ ParseNotify

-----------------------------------------------------------------------------
(* The rest of the iteration: wait for a job and a difficulty, or search   *)
(* one batch and submit what it found.                                     *)

Waits ==
    /\ pc = "work"
    /\ ~hasJob \/ difficulty = 0
    /\ pc' = IF running THEN "loop" ELSE "stop"
    /\ UNCHANGED <<linkVars, poolVars, clientVars, dagVars, engineVars>>

TakesSnapshot ==
    /\ pc = "work"
    /\ hasJob /\ difficulty # 0
    /\ snapshot' = job
    /\ pc' = "search"
    /\ UNCHANGED <<linkVars, poolVars, clientVars, dagVars, running, hasJob, job,
                   difficulty, batch, sent, found, shares>>

\* DeviceManager::search, which is searchSync: every batch starts at nonce 0, so
\* a job's hits are found again by each of its batches.  The order in which they
\* are reported is the order of the GPU's atomics, and so is the choice of those
\* kept when they do not fit.
Reported(j) == IF Cardinality(Hits[j]) <= MaxSolutions
               THEN Cardinality(Hits[j]) ELSE MaxSolutions

SearchResult(j) ==
    IF dev.ready /\ found + Reported(j) <= MaxFound
    THEN {S \in SUBSET Hits[j] : Cardinality(S) = Reported(j)}
    ELSE {{}}

Search ==
    /\ pc = "search"
    /\ batch' \in SearchResult(snapshot)
    /\ found' = found + Cardinality(batch')
    /\ pc' = IF batch' = {} THEN "loop" ELSE "submit"
    /\ UNCHANGED <<linkVars, poolVars, clientVars, dagVars, running, hasJob, job,
                   difficulty, snapshot, sent, shares>>

\* A CUDA error in searchSync: the exception reaches main.
SearchThrows ==
    /\ pc = "search"
    /\ pc' = "exit"
    /\ UNCHANGED <<linkVars, poolVars, clientVars, dagVars, engineVars>>

\* The verdict on a solution, and what the loop of processSolutions does with the
\* rest of the batch.
Verdict(kind, rest) ==
    /\ shares' = [shares EXCEPT ![kind] = @ + 1]
    /\ batch' = rest
    /\ pc' = IF rest = {} THEN "loop" ELSE "submit"
    /\ UNCHANGED <<running, hasJob, job, difficulty, snapshot, sent, found>>

\* submitSolution as far as sendMessage: the job id is the snapshot's, the header
\* the one of the client's current job.
ShareFor(nonce) == [type |-> "submit", id |-> snapshot, header |-> clientJob,
                    nonce |-> nonce]

SubmitSends(nonce) ==
    /\ pc = "submit" /\ nonce \in batch
    /\ connected
    /\ Send(ShareFor(nonce))
    /\ batch' = batch \ {nonce}
    /\ sent' = Append(sent, ShareFor(nonce))
    /\ pc' = "submitReply"
    /\ UNCHANGED <<toMiner, poolVars, clientVars, dagVars,
                   running, hasJob, job, difficulty, snapshot, found, shares>>

\* Faulty variant: a lost connection ends the batch without a verdict.
SubmitFailsSilently(nonce) ==
    /\ pc = "submit" /\ nonce \in batch
    /\ \/ ~connected /\ UNCHANGED <<peer, toPool>>
       \/ connected /\ SendFails
    /\ batch' = {}
    /\ pc' = "loop"
    /\ UNCHANGED <<toMiner, poolVars, clientVars, dagVars,
                   running, hasJob, job, difficulty, snapshot, sent, found, shares>>

\* Not connected any more, or an error from send: the share is never sent.
SubmitFails(nonce) ==
    /\ pc = "submit" /\ nonce \in batch
    /\ \/ ~connected /\ UNCHANGED <<peer, toPool>>
       \/ connected /\ SendFails
    /\ Verdict("rejected", batch \ {nonce})
    /\ UNCHANGED <<toMiner, poolVars, clientVars, dagVars>>

SubmitKills ==
    /\ pc = "submit"
    /\ connected /\ SendKills
    /\ pc' = "killed"
    /\ UNCHANGED <<linkVars, poolVars, clientVars, dagVars, engineVars>>

\* Faulty variant: a job that arrives instead of the answer is taken over by the
\* client at once, so that it is not lost.
SubmitReplyTakingJobs(n) ==
    /\ pc = "submitReply"
    /\ Recv(n)
    /\ Verdict(IF Grants("submit", Chunk(n)) THEN "accepted" ELSE "rejected", batch)
    /\ clientJob' = IF Announces(Chunk(n)) THEN Chunk(n)[1].msg.job ELSE clientJob
    /\ UNCHANGED <<peer, toPool, poolVars, connected, rx, dagVars>>

\* Faulty variant: such a job is passed on to the engine as well, in the middle of
\* the batch.
SubmitReplyCallingBack(n) ==
    /\ pc = "submitReply"
    /\ Recv(n)
    /\ LET next == IF Announces(Chunk(n)) THEN Chunk(n)[1].msg.job ELSE clientJob
           kind == IF Grants("submit", Chunk(n)) THEN "accepted" ELSE "rejected"
       IN  /\ clientJob' = next /\ job' = next
           /\ shares' = [shares EXCEPT ![kind] = @ + 1]
    /\ pc' = IF batch = {} THEN "loop" ELSE "submit"
    /\ UNCHANGED <<peer, toPool, poolVars, connected, rx, dagVars, running, hasJob,
                   difficulty, snapshot, sent, batch, found>>

\* receiveMessage and the test of the answer: whatever the chunk holds besides,
\* or instead of, one positive answer is discarded.
SubmitReply(n) ==
    /\ pc = "submitReply"
    /\ Recv(n)
    /\ Verdict(IF Grants("submit", Chunk(n)) THEN "accepted" ELSE "rejected", batch)
    /\ UNCHANGED <<peer, toPool, poolVars, clientVars, dagVars>>

SubmitUnanswered ==
    /\ pc = "submitReply"
    /\ \/ RecvEof /\ UNCHANGED peer
       \/ RecvError /\ UNCHANGED connected
    /\ Verdict("rejected", batch)
    /\ UNCHANGED <<toMiner, toPool, poolVars, clientJob, rx, dagVars>>

MineAndSubmit ==
    \/ Waits \/ TakesSnapshot \/ Search \/ SearchThrows
    \/ \E nonce \in batch : SubmitSends(nonce) \/ SubmitFails(nonce)
    \/ SubmitKills
    \/ \E n \in ChunkSize : SubmitReply(n)
    \/ SubmitUnanswered

-----------------------------------------------------------------------------
(* The end of the process.                                                 *)

\* stopAllMining finds no device thread to stop, and run returns.
RunReturns ==
    /\ pc = "stop"
    /\ pc' = "exit"
    /\ UNCHANGED <<linkVars, poolVars, clientVars, dagVars, engineVars>>

\* ~MiningEngine, on every way out of main: the generator, the client (whose
\* destructor disconnects) and the device manager, in this order.
DestroyEngine ==
    /\ pc = "exit"
    /\ Destroy
    /\ connected' = FALSE
    /\ pc' = "done"
    /\ UNCHANGED <<linkVars, poolVars, clientJob, rx, engineVars>>

\* SIGINT or SIGTERM.  A recv that is blocked is restarted (SA_RESTART).
Signal ==
    /\ pc \notin {"done", "killed"}
    /\ running
    /\ running' = FALSE
    /\ UNCHANGED <<linkVars, poolVars, clientVars, dagVars, hasJob, job, difficulty,
                   snapshot, batch, sent, found, shares, pc>>

Ended == pc \in {"done", "killed"}

Terminated == Ended /\ UNCHANGED vars

-----------------------------------------------------------------------------

Thread == \/ Initialize
          \/ LoopEnds \/ LoopPolls \/ LoopSkipsPoll
          \/ ProcessMessages
          \/ MineAndSubmit
          \/ RunReturns \/ DestroyEngine

PoolAnswersEither == \E ok \in BOOLEAN : PoolAnswers(ok)

Environment ==
    /\ \/ PoolAnswersEither
       \/ \E j \in Job : PoolNotifies(j)
       \/ \E d \in Difficulty : PoolSetsDifficulty(d)
       \/ PoolCloses
       \/ ConnectionReset
    /\ ~Ended
    /\ UNCHANGED <<pc, dagVars, engineVars>>

Next == Thread \/ Environment \/ Signal \/ Terminated

Spec == Init /\ [][Next]_vars

\* The operating system schedules the thread, and the 100 ms pass again and again
\* while the loop runs.  Nothing is assumed of the pool.
FairSpec == Spec /\ WF_vars(Thread) /\ SF_vars(LoopPolls)

\* The same with a pool that answers the requests it has received.
AnsweringSpec == FairSpec /\ WF_vars(PoolAnswersEither /\ Environment)

-----------------------------------------------------------------------------

\* The types of the variables.
TypeOK ==
    /\ DagTypeOK
    /\ peer \in PeerState
    /\ toMiner \in Seq(Fragment) /\ rx \in Seq(Fragment)
    /\ toPool \in Seq(Request)
    /\ pushes \in 0 .. MaxPush
    /\ latest \in Job \cup {NoJob}
    /\ oks \in [RequestType -> Nat]
    /\ connected \in BOOLEAN
    /\ clientJob \in Job \cup {NoJob}
    /\ pc \in PC
    /\ running \in BOOLEAN /\ hasJob \in BOOLEAN
    /\ job \in Job \cup {NoJob}
    /\ difficulty \in Nat
    /\ snapshot \in Job \cup {NoJob}
    /\ batch \subseteq Nonce
    /\ sent \in Seq(Share)
    /\ found \in Nat
    /\ shares \in [{"accepted", "rejected"} -> Nat]

\* A search runs on an initialised device whose DAG is still allocated and is the
\* one of the epoch of the job being searched, with the matching size, even after
\* a generation for another epoch has failed or its job been replaced
\* (mining_engine.cpp onJobReceived, run; device_manager.cu searchSync).
SearchUsesJobsDag ==
    pc = "search" =>
        /\ dev.ready
        /\ dev.dag \in Live
        /\ heap[dev.dag] = EpochOf(snapshot)
        /\ dev.size = EpochOf(snapshot)

\* A share carries the id and the header of one and the same job, and a nonce
\* that was found for that header, although the id comes from the engine's
\* snapshot and the header from the client's current job
\* (stratum_client.cpp submitSolution, mining_engine.cpp processSolutions).
SharesAreCoherent ==
    \A i \in 1 .. Len(sent) :
        /\ sent[i].header = sent[i].id
        /\ sent[i].nonce \in Hits[sent[i].id]

\* Every solution the device has reported is waiting in the batch, waiting for
\* its answer, or counted exactly once, also when the connection is lost in the
\* middle of a batch (mining_engine.cpp processSolutions).
EverySolutionIsJudged ==
    found = shares.accepted + shares.rejected + Cardinality(batch)
              + (IF pc = "submitReply" THEN 1 ELSE 0)

\* No acceptance without a positive answer of the pool: an answer is consumed
\* once, and neither a notification nor a broken chunk counts as one
\* (stratum_client.cpp submitSolution).
AcceptancesAreAnswered ==
    shares.accepted <= oks["authorize"] + oks["submit"]

\* When the miner has read everything the pool has sent it works on the last job
\* the pool has announced, or on none if its DAG could not be prepared
\* (stratum_client.cpp processMessages; comments at lines 360 and 410).
WorksOnLatestJob ==
    pc = "work" /\ peer = "open" /\ toMiner = <<>> /\ latest # NoJob => job = latest

\* Acceptances are only counted for shares the pool has accepted.
AcceptancesAreTrue == shares.accepted <= oks["submit"]

\* The engine drives the generator and the device as DagMemory says: no
\* initializeDag for an epoch it has, none after an exception, one destruction.
DrivesDagMemory == DagSpec

\* The miner takes up jobs and settles their solutions as MiningSession says: run
\* and processSolutions (mining_engine.cpp) drive submitSolution (stratum_client.cpp)
\* so that every share is of the job in hand and is judged before the next is sent.
Session == INSTANCE MiningSession WITH
    work <- job,
    pending <- pc = "submitReply",
    answers <- oks["authorize"] + oks["submit"]

KeepsSession == Session!SessionSpec

Gone == {"fin", "rst", "dead"}

\* When the pool is gone the client does not believe itself connected for ever,
\* whatever it was doing and however much unread data the pool left behind, unless
\* a send kills the process first (stratum_client.cpp receiveMessage,
\* processMessages; mining_engine.cpp run).
PoolGoneIsNoticed == (peer \in Gone) ~> (~connected \/ pc = "killed")

\* "Network errors: Reconnection with backoff" (docs/ARCHITECTURE.md:235): a loop that
\* finds the connection lost connects again, unless the user stops it.
LostThenReconnects == (pc = "loop" /\ ~connected) ~> (connected \/ ~running)

\* After Ctrl+C the miner ends (miner_main.cpp signalHandler, mining_engine.cpp
\* run: "blocks until g_running = false").
SignalThenEnds == ~running ~> Ended
=============================================================================
