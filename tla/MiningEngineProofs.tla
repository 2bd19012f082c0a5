-------------------------- MODULE MiningEngineProofs --------------------------
(***************************************************************************)
(* Proofs about MiningEngine, for any jobs, seeds, nonces and memory, any   *)
(* fragmentation and any number of notifications.                          *)
(*                                                                         *)
(* EngineInv is inductive.  It gives the types, the coherence of the       *)
(* shares, and the simulation of DagMemory; the invariants DagMemoryProofs *)
(* proves of DagMemory then hold of the engine as well, and with both      *)
(* follows what a search may rely on.                                      *)
(***************************************************************************)
EXTENDS MiningEngine, DagMemoryProofs, FiniteSetTheorems, SequenceTheorems

-----------------------------------------------------------------------------
(* The data.                                                               *)

LEMMA EpochOfType == \A j \in Job : EpochOf(j) \in Epoch
  BY EpochAssumption, EngineAssumption DEF EpochOf

LEMMA NotifyCarriesJob ==
  \A m \in Message : m.type = "notify" => m.job \in Job
  BY DEF Message

LEMMA DifficultyCarriesNumber ==
  \A m \in Message : m.type = "difficulty" => m.value \in Nat
  BY LinkAssumption DEF Message

LEMMA FragmentMessage == \A f \in Fragment : f.msg \in Message
  BY DEF Fragment

LEMMA WholeType == \A m \in Message : Whole(m) \in Seq(Fragment)
  <1>. SUFFICES ASSUME NEW m \in Message PROVE Whole(m) \in Seq(Fragment)
    OBVIOUS
  <1>1. \A i \in 1 .. Pieces : [msg |-> m, part |-> i] \in Fragment
    BY DEF Fragment
  <1>2. Pieces \in Nat
    BY LinkAssumption
  <1>. QED
    BY <1>1, <1>2 DEF Whole

\* recv takes a non-empty prefix of the stream and leaves the rest.
LEMMA RecvType ==
  ASSUME toMiner \in Seq(Fragment), NEW n \in ChunkSize
  PROVE  /\ Chunk(n) \in Seq(Fragment) /\ Chunk(n)[1] \in Fragment
         /\ Recv(n) => toMiner' \in Seq(Fragment)
  <1>1. n \in 1 .. Len(toMiner) /\ n \in Nat /\ Len(toMiner) \in Nat
    BY DEF ChunkSize
  <1>2. \A i \in 1 .. Len(toMiner) : toMiner[i] \in Fragment
    OBVIOUS
  <1>3. Chunk(n) \in Seq(Fragment) /\ Chunk(n)[1] \in Fragment
    BY <1>1, <1>2, SubSeqProperties DEF Chunk
  <1>4. SubSeq(toMiner, n + 1, Len(toMiner)) \in Seq(Fragment)
    BY <1>1, <1>2, SubSeqProperties
  <1>. QED
    BY <1>3, <1>4 DEF Recv

\* send queues the request, or fails and queues nothing.
LEMMA SendType ==
  ASSUME toPool \in Seq(Request), peer \in PeerState, NEW request \in Request,
         Send(request) \/ SendFails
  PROVE  toPool' \in Seq(Request) /\ peer' \in PeerState
  <1>1. Append(toPool, request) \in Seq(Request)
    BY AppendProperties
  <1>. QED
    BY <1>1 DEF Send, SendFails, PeerState

\* The parser's buffer keeps its type, and the object at its head is a message.
LEMMA ParseType ==
  ASSUME rx \in Seq(Fragment), rx # <<>>
  PROVE  Tail(rx) \in Seq(Fragment) /\ AfterObject \in Seq(Fragment) /\ rx[1].msg \in Message
  <1>1. Len(rx) \in Nat /\ Pieces \in Nat /\ 1 \in 1 .. Len(rx)
    BY LinkAssumption, EmptySeq
  <1>2. \A i \in 1 .. Len(rx) : rx[i] \in Fragment
    OBVIOUS
  <1>3. AfterObject \in Seq(Fragment)
    BY <1>1, <1>2, SubSeqProperties DEF AfterObject
  <1>4. rx[1].msg \in Message
    BY <1>1, <1>2, FragmentMessage
  <1>. QED
    BY <1>3, <1>4, HeadTailProperties

-----------------------------------------------------------------------------
(* The inductive invariant.                                                *)

LinkTypes ==
    /\ peer \in PeerState
    /\ toMiner \in Seq(Fragment) /\ rx \in Seq(Fragment)
    /\ toPool \in Seq(Request)
    /\ pushes \in 0 .. MaxPush
    /\ latest \in Job \cup {NoJob}
    /\ oks \in [RequestType -> Nat]
    /\ connected \in BOOLEAN
    /\ clientJob \in Job \cup {NoJob}

EngineTypes ==
    /\ pc \in PC
    /\ running \in BOOLEAN /\ hasJob \in BOOLEAN
    /\ job \in Job \cup {NoJob}
    /\ difficulty \in Nat
    /\ snapshot \in Job \cup {NoJob}
    /\ batch \subseteq Nonce
    /\ sent \in Seq(Share)
    /\ found \in Nat
    /\ shares \in [{"accepted", "rejected"} -> Nat]

\* The callbacks are installed when initialize returns: no job before.
Starting == pc \in {"connect", "subscribe", "subscribeReply", "authorize", "authorizeReply"}

\* Before the engine is being destroyed no initializeDag has thrown, and the
\* destructor runs once.
DagPhase ==
    /\ pc \notin {"exit", "done"} => dagCall \in {"none", "ok", "failed"}
    /\ pc = "exit" => dagCall # "destroyed"

\* The job in hand is the client's and has its DAG, and a batch is searched and
\* submitted while it is the job in hand.
JobInHand ==
    /\ Starting => ~hasJob
    /\ hasJob /\ pc \notin {"exit", "done", "killed"} =>
          /\ job \in Job
          /\ clientJob = job
          /\ dagEpoch = EpochOf(job)
    /\ pc \in {"search", "submit", "submitReply"} => hasJob /\ snapshot = job

\* Only while they are submitted are there solutions in the batch.
BatchInHand ==
    IF pc \in {"submit", "submitReply"} THEN batch \subseteq Hits[snapshot]
                                      ELSE pc # "killed" => batch = {}

EngineInv == /\ LinkTypes /\ EngineTypes
             /\ DagPhase /\ JobInHand /\ BatchInHand
             /\ SharesAreCoherent /\ EverySolutionIsJudged

LEMMA InitInv == Init => EngineInv
  <1>. SUFFICES ASSUME Init PROVE EngineInv
    OBVIOUS
  <1>1. LinkTypes
    <2>1. ClientInit
      BY DEF Init
    <2>2. toMiner \in Seq(Fragment) /\ rx \in Seq(Fragment) /\ toPool \in Seq(Request)
      BY <2>1, EmptySeq DEF ClientInit
    <2>3. pushes \in 0 .. MaxPush
      BY <2>1, LinkAssumption DEF ClientInit
    <2>4. oks \in [RequestType -> Nat]
      BY <2>1 DEF ClientInit
    <2>. QED
      BY <2>1, <2>2, <2>3, <2>4 DEF ClientInit, LinkTypes, PeerState
  <1>2. EngineTypes
    <2>1. [accepted |-> 0, rejected |-> 0] \in [{"accepted", "rejected"} -> Nat]
      OBVIOUS
    <2>. QED
      BY <2>1, EmptySeq DEF Init, EngineTypes, PC
  <1>3. EverySolutionIsJudged
    BY FS_EmptySet DEF Init, EverySolutionIsJudged
  <1>. QED
    BY <1>1, <1>2, <1>3 DEF Init, DagInit, EngineInv, DagPhase, Starting, JobInHand,
                            BatchInHand, SharesAreCoherent

\* A step that changes neither the history of shares nor what is in the batch
\* keeps the shares coherent and the solutions accounted for.
LEMMA SharesUntouched ==
  ASSUME SharesAreCoherent, EverySolutionIsJudged, UNCHANGED <<sent, found, shares, batch>>,
         (pc = "submitReply") = (pc' = "submitReply")
  PROVE  SharesAreCoherent' /\ EverySolutionIsJudged'
  BY DEF SharesAreCoherent, EverySolutionIsJudged

\* The pool and the network touch nothing of the engine's.
LEMMA EnvironmentInv == EngineInv /\ Environment => EngineInv'
  <1>. SUFFICES ASSUME EngineInv, Environment PROVE EngineInv'
    OBVIOUS
  <1>1. UNCHANGED <<pc, dagVars, engineVars>>
    BY DEF Environment
  <1>2. UNCHANGED clientVars
    BY DEF Environment, PoolAnswersEither, PoolAnswers, PoolNotifies, PoolSetsDifficulty,
           PoolCloses, ConnectionReset, clientVars
  <1>3. LinkTypes'
    <2>. USE LinkAssumption DEF EngineInv, LinkTypes, clientVars
    <2>1. \A m \in Message : PoolSends(m) => toMiner' \in Seq(Fragment)
      BY WholeType, ConcatProperties DEF PoolSends
    <2>2. ASSUME NEW ok \in BOOLEAN, PoolAnswers(ok) PROVE LinkTypes'
      <3>1. Head(toPool) \in Request /\ Tail(toPool) \in Seq(Request)
        BY <2>2, HeadTailProperties DEF PoolAnswers
      <3>2. [type |-> "answer", to |-> Head(toPool), ok |-> ok] \in Message
        BY <3>1 DEF Message
      <3>3. Head(toPool).type \in RequestType
        BY <3>1 DEF Request, Share, RequestType
      <3>4. oks' \in [RequestType -> Nat]
        BY <2>2, <3>3 DEF PoolAnswers
      <3>. QED
        BY <1>2, <2>1, <2>2, <3>1, <3>2, <3>4 DEF PoolAnswers
    <2>3. ASSUME NEW j \in Job, PoolNotifies(j) PROVE LinkTypes'
      <3>1. [type |-> "notify", job |-> j] \in Message
        BY DEF Message
      <3>. QED
        BY <1>2, <2>1, <2>3, <3>1 DEF PoolNotifies, MayPush
    <2>4. ASSUME NEW d \in Difficulty, PoolSetsDifficulty(d) PROVE LinkTypes'
      <3>1. [type |-> "difficulty", value |-> d] \in Message
        BY DEF Message
      <3>. QED
        BY <1>2, <2>1, <2>4, <3>1 DEF PoolSetsDifficulty, MayPush
    <2>5. CASE PoolCloses
      BY <1>2, <2>5, EmptySeq DEF PoolCloses, PeerState, poolVars
    <2>6. CASE ConnectionReset
      <3>1. PICK n \in 0 .. Len(toMiner) : toMiner' = SubSeq(toMiner, 1, n)
        BY <2>6 DEF ConnectionReset
      <3>2. \A i \in 1 .. n : toMiner[i] \in Fragment
        BY <3>1
      <3>3. toMiner' \in Seq(Fragment)
        BY <3>1, <3>2, SubSeqProperties
      <3>. QED
        BY <1>2, <2>6, <3>3, EmptySeq DEF ConnectionReset, PeerState, poolVars
    <2>. QED
      BY <2>2, <2>3, <2>4, <2>5, <2>6 DEF Environment, PoolAnswersEither
  <1>4. EngineTypes' /\ DagPhase' /\ JobInHand' /\ BatchInHand'
    BY <1>1, <1>2 DEF EngineInv, EngineTypes, DagPhase, JobInHand, BatchInHand, Starting,
                      dagVars, engineVars, clientVars
  <1>5. SharesAreCoherent' /\ EverySolutionIsJudged'
    BY <1>1, SharesUntouched DEF EngineInv, engineVars
  <1>. QED
    BY <1>3, <1>4, <1>5 DEF EngineInv

\* What is left to check of a step that leaves the batch and its verdicts alone:
\* the types it changes, where the thread goes, and the job in hand.
LEMMA QuietStep ==
  ASSUME EngineInv, LinkTypes', pc' \in PC, UNCHANGED engineVars,
         DagPhase', JobInHand',
         pc \notin {"submit", "submitReply", "killed"},
         pc' \notin {"submit", "submitReply", "killed"}
  PROVE  EngineInv'
  <1>1. EngineTypes' /\ BatchInHand'
    BY DEF EngineInv, EngineTypes, BatchInHand, engineVars
  <1>2. SharesAreCoherent' /\ EverySolutionIsJudged'
    BY SharesUntouched DEF EngineInv, engineVars
  <1>. QED
    BY <1>1, <1>2 DEF EngineInv

\* MiningEngine::initialize: there is no job yet.
LEMMA InitializeInv == EngineInv /\ Initialize => EngineInv'
  <1>. SUFFICES ASSUME EngineInv, Initialize PROVE EngineInv'
    OBVIOUS
  <1>1. /\ Starting
        /\ UNCHANGED engineVars /\ UNCHANGED dagVars
        /\ pc' \in {"subscribe", "subscribeReply", "authorize", "authorizeReply",
                    "loop", "exit"}
    BY DEF Initialize, ConnectFails, ConnectSucceeds, Requests, ReplyMissing, SubscribeReply,
           AuthorizeReply, Starting
  <1>2. LinkTypes'
    <2>. USE DEF EngineInv, LinkTypes, linkVars, poolVars, clientVars
    <2>1. CASE ConnectFails \/ ConnectSucceeds
      BY <2>1 DEF ConnectFails, ConnectSucceeds, Connect, PeerState
    <2>2. ASSUME NEW type \in {"subscribe", "authorize"}, NEW next, Requests(type, next)
          PROVE  LinkTypes'
      <3>1. [type |-> type] \in Request
        BY DEF Request
      <3>2. toPool' \in Seq(Request) /\ peer' \in PeerState
        BY <2>2, <3>1, SendType DEF Requests
      <3>. QED
        BY <2>2, <3>2 DEF Requests
    <2>3. CASE ReplyMissing
      BY <2>3 DEF ReplyMissing, RecvEof, RecvError, PeerState
    <2>4. ASSUME NEW n \in ChunkSize, SubscribeReply(n) PROVE LinkTypes'
      BY <2>4, RecvType DEF SubscribeReply
    <2>5. ASSUME NEW n \in ChunkSize, AuthorizeReply(n) PROVE LinkTypes'
      <3>1. Chunk(n)[1].msg \in Message /\ toMiner' \in Seq(Fragment)
        BY <2>5, RecvType, FragmentMessage DEF AuthorizeReply
      <3>2. clientJob' \in Job \cup {NoJob}
        BY <2>5, <3>1, NotifyCarriesJob DEF AuthorizeReply, Announces
      <3>. QED
        BY <2>5, <3>1, <3>2 DEF AuthorizeReply
    <2>. QED
      BY <2>1, <2>2, <2>3, <2>4, <2>5 DEF Initialize
  <1>3. DagPhase' /\ JobInHand'
    BY <1>1 DEF EngineInv, EngineTypes, DagPhase, JobInHand, Starting, engineVars, dagVars
  <1>. QED
    BY <1>1, <1>2, <1>3, QuietStep DEF PC, Starting

\* The steps at the top of the loop, and those that only wait or return.
LEMMA LoopInv ==
  EngineInv /\ (LoopEnds \/ LoopPolls \/ LoopSkipsPoll \/ Waits \/ SearchThrows \/ RunReturns)
    => EngineInv'
  <1>. SUFFICES ASSUME EngineInv,
                       LoopEnds \/ LoopPolls \/ LoopSkipsPoll \/ Waits \/ SearchThrows \/ RunReturns
                PROVE  EngineInv'
    OBVIOUS
  <1>1. /\ pc \in {"loop", "work", "search", "stop"}
        /\ pc' \in {"loop", "poll", "work", "stop", "exit"}
        /\ UNCHANGED <<linkVars, poolVars, clientVars, dagVars, engineVars>>
    BY DEF LoopEnds, LoopPolls, LoopSkipsPoll, LoopContinues, Waits, SearchThrows, RunReturns
  <1>2. LinkTypes'
    BY <1>1 DEF EngineInv, LinkTypes, linkVars, poolVars, clientVars
  <1>3. DagPhase' /\ JobInHand'
    BY <1>1 DEF EngineInv, DagPhase, JobInHand, Starting, engineVars, dagVars, clientVars
  <1>. QED
    BY <1>1, <1>2, <1>3, QuietStep DEF PC

\* recv, and the parts of the buffer that are not a notification.
LEMMA PollInv ==
  EngineInv /\ ((\E n \in ChunkSize : PollReceives(n)) \/ PollReceivesNothing
                 \/ ParseSkips \/ ParseAnswer) => EngineInv'
  <1>. SUFFICES ASSUME EngineInv,
                       \/ \E n \in ChunkSize : PollReceives(n)
                       \/ PollReceivesNothing \/ ParseSkips \/ ParseAnswer
                PROVE  EngineInv'
    OBVIOUS
  <1>1. /\ pc \in {"poll", "parse"} /\ pc' \in {"parse", "work"}
        /\ UNCHANGED <<clientJob, dagVars, engineVars>>
    BY DEF PollReceives, PollReceivesNothing, ParseSkips, ParseAnswer, clientVars
  <1>2. LinkTypes'
    <2>. USE DEF EngineInv, LinkTypes, linkVars, poolVars, clientVars
    <2>1. ASSUME NEW n \in ChunkSize, PollReceives(n) PROVE LinkTypes'
      BY <2>1, RecvType DEF PollReceives
    <2>2. CASE PollReceivesNothing
      BY <2>2 DEF PollReceivesNothing, RecvEof, RecvError, PeerState
    <2>3. CASE ParseSkips
      <3>1. rx' \in Seq(Fragment)
        BY <2>3, ParseType, EmptySeq DEF ParseSkips, SkipsTail
      <3>. QED
        BY <2>3, <3>1 DEF ParseSkips
    <2>4. CASE ParseAnswer
      BY <2>4, ParseType DEF ParseAnswer, ParsesNext
    <2>. QED
      BY <2>1, <2>2, <2>3, <2>4
  <1>3. DagPhase' /\ JobInHand'
    BY <1>1 DEF EngineInv, DagPhase, JobInHand, Starting, engineVars, dagVars
  <1>. QED
    BY <1>1, <1>2, <1>3, QuietStep DEF PC

\* onDifficultyUpdate.
LEMMA ParseDifficultyInv == EngineInv /\ ParseDifficulty => EngineInv'
  <1>. SUFFICES ASSUME EngineInv, ParseDifficulty PROVE EngineInv'
    OBVIOUS
  <1>1. AfterObject \in Seq(Fragment) /\ rx[1].msg.value \in Nat
    BY ParseType, DifficultyCarriesNumber
    DEF EngineInv, LinkTypes, ParseDifficulty, ParsesNext
  <1>2. LinkTypes' /\ EngineTypes'
    BY <1>1 DEF ParseDifficulty, EngineInv, LinkTypes, EngineTypes, linkVars, poolVars
  <1>3. DagPhase' /\ JobInHand' /\ BatchInHand'
    BY DEF ParseDifficulty, EngineInv, DagPhase, JobInHand, BatchInHand, Starting, dagVars
  <1>4. SharesAreCoherent' /\ EverySolutionIsJudged'
    BY SharesUntouched DEF ParseDifficulty, EngineInv
  <1>. QED
    BY <1>2, <1>3, <1>4 DEF EngineInv

\* onJobReceived: either the job in hand has its DAG, or there is no job in hand,
\* or an exception is on its way to main.
LEMMA ParseNotifyInv == EngineInv /\ ParseNotify => EngineInv'
  <1>. SUFFICES ASSUME EngineInv, ParseNotify PROVE EngineInv'
    OBVIOUS
  <1>. DEFINE j == rx[1].msg.job
  <1>1. AfterObject \in Seq(Fragment) /\ j \in Job
    BY ParseType, NotifyCarriesJob DEF EngineInv, LinkTypes, ParseNotify, ParsesNext
  <1>2. /\ pc = "parse" /\ pc' \in {"parse", "exit"}
        /\ hasJob' \in BOOLEAN
        /\ clientJob' = j /\ job' = j
    BY DEF ParseNotify, PreparesDag
  <1>3. LinkTypes' /\ EngineTypes'
    BY <1>1, <1>2 DEF ParseNotify, EngineInv, LinkTypes, EngineTypes, linkVars, poolVars, PC
  <1>4. /\ pc' = "parse" => dagCall' \in {"none", "ok", "failed"}
        /\ pc' = "exit" => dagCall' # "destroyed"
        /\ hasJob' /\ pc' = "parse" => dagEpoch' = EpochOf(j)
    BY <1>2 DEF ParseNotify, PreparesDag, EngineInv, DagPhase, InitializeDag, InitializeDagOk,
                InitializeDagFails, InitializeDagThrows, dagVars
  <1>5. DagPhase' /\ JobInHand'
    BY <1>1, <1>2, <1>4 DEF DagPhase, JobInHand, Starting
  <1>6. BatchInHand'
    BY <1>2 DEF ParseNotify, EngineInv, BatchInHand
  <1>7. SharesAreCoherent' /\ EverySolutionIsJudged'
    BY <1>2, SharesUntouched DEF ParseNotify, EngineInv
  <1>. QED
    BY <1>3, <1>5, <1>6, <1>7 DEF EngineInv

\* The snapshot of the job and of nothing else.
LEMMA TakesSnapshotInv == EngineInv /\ TakesSnapshot => EngineInv'
  <1>. SUFFICES ASSUME EngineInv, TakesSnapshot PROVE EngineInv'
    OBVIOUS
  <1>1. LinkTypes' /\ EngineTypes'
    BY DEF TakesSnapshot, EngineInv, LinkTypes, EngineTypes, linkVars, poolVars, clientVars, PC
  <1>2. DagPhase' /\ JobInHand' /\ BatchInHand'
    BY DEF TakesSnapshot, EngineInv, DagPhase, JobInHand, BatchInHand, Starting, dagVars,
           clientVars
  <1>3. SharesAreCoherent' /\ EverySolutionIsJudged'
    BY SharesUntouched DEF TakesSnapshot, EngineInv
  <1>. QED
    BY <1>1, <1>2, <1>3 DEF EngineInv

\* A batch the device reports is a finite set of hits of the snapshot.
LEMMA SearchInv == EngineInv /\ Search => EngineInv'
  <1>. SUFFICES ASSUME EngineInv, Search PROVE EngineInv'
    OBVIOUS
  <1>1. snapshot \in Job /\ batch = {} /\ pc = "search"
    BY DEF EngineInv, JobInHand, BatchInHand, Search
  <1>2. batch' \subseteq Hits[snapshot] /\ Hits[snapshot] \subseteq Nonce
    BY <1>1, EngineAssumption DEF Search, SearchResult
  <1>3. Cardinality(batch') \in Nat /\ (batch' = {} => Cardinality(batch') = 0)
    BY <1>2, EngineAssumption, FS_Subset, FS_CardinalityType, FS_EmptySet
  <1>4. /\ pc' \in {"loop", "submit"} /\ (pc' = "loop" <=> batch' = {})
        /\ UNCHANGED <<running, hasJob, job, difficulty, snapshot, sent, shares>>
        /\ found' = found + Cardinality(batch')
    BY DEF Search
  <1>5. LinkTypes'
    BY DEF Search, EngineInv, LinkTypes, linkVars, poolVars, clientVars
  <1>6. EngineTypes'
    BY <1>2, <1>3, <1>4 DEF EngineInv, EngineTypes, PC
  <1>7. DagPhase' /\ JobInHand' /\ BatchInHand'
    BY <1>1, <1>2, <1>4 DEF Search, EngineInv, DagPhase, JobInHand, BatchInHand, Starting,
                            dagVars, clientVars
  <1>8. SharesAreCoherent'
    BY <1>4 DEF EngineInv, SharesAreCoherent
  <1>9. EverySolutionIsJudged'
    <2>1. Cardinality(batch) = 0
      BY <1>1, FS_EmptySet
    <2>2. shares.accepted \in Nat /\ shares.rejected \in Nat
      BY DEF EngineInv, EngineTypes
    <2>3. found = shares.accepted + shares.rejected
      BY <1>1, <2>1, <2>2 DEF EngineInv, EverySolutionIsJudged
    <2>4. pc' # "submitReply"
      BY <1>4
    <2>. QED
      BY <1>3, <1>4, <2>2, <2>3, <2>4 DEF EngineInv, EngineTypes, EverySolutionIsJudged
  <1>. QED
    BY <1>5, <1>6, <1>7, <1>8, <1>9 DEF EngineInv

\* A verdict moves one solution from the batch, or from the share that is being
\* answered, to one of the two counters.
LEMMA VerdictInv ==
  ASSUME EngineInv, LinkTypes', NEW kind \in {"accepted", "rejected"}, NEW rest,
         Verdict(kind, rest), UNCHANGED <<clientJob, dagVars>>,
         rest \subseteq batch,
         \/ pc = "submit" /\ Cardinality(rest) = Cardinality(batch) - 1
         \/ pc = "submitReply" /\ rest = batch
  PROVE  EngineInv'
  <1>1. /\ shares' = [shares EXCEPT ![kind] = @ + 1] /\ batch' = rest
        /\ pc' \in {"loop", "submit"} /\ (pc' = "loop" <=> rest = {})
        /\ UNCHANGED <<running, hasJob, job, difficulty, snapshot, sent, found>>
    BY DEF Verdict
  <1>2. EngineTypes'
    BY <1>1 DEF EngineInv, EngineTypes, PC
  <1>3. DagPhase' /\ JobInHand' /\ BatchInHand'
    BY <1>1 DEF EngineInv, DagPhase, JobInHand, BatchInHand, Starting, dagVars
  <1>4. SharesAreCoherent'
    BY <1>1 DEF EngineInv, SharesAreCoherent
  <1>5. EverySolutionIsJudged'
    <2>1. shares'.accepted + shares'.rejected = shares.accepted + shares.rejected + 1
      BY <1>1 DEF EngineInv, EngineTypes
    <2>2. Cardinality(batch) \in Nat /\ shares.accepted \in Nat /\ shares.rejected \in Nat
      BY EngineAssumption, FS_Subset, FS_CardinalityType DEF EngineInv, EngineTypes
    <2>3. shares'.accepted \in Nat /\ shares'.rejected \in Nat
      BY <1>2 DEF EngineTypes
    <2>. QED
      BY <1>1, <2>1, <2>2, <2>3 DEF EngineInv, EverySolutionIsJudged
  <1>. QED
    BY <1>2, <1>3, <1>4, <1>5 DEF EngineInv

\* Taking a solution out of the batch leaves one fewer.
LEMMA BatchShrinks ==
  ASSUME EngineInv, NEW nonce \in batch
  PROVE  Cardinality(batch \ {nonce}) = Cardinality(batch) - 1 /\ Cardinality(batch) \in Nat
  BY EngineAssumption, FS_Subset, FS_CardinalityType, FS_RemoveElement
  DEF EngineInv, EngineTypes

\* submitSolution as far as send: the header is the client's current job's, which
\* is the snapshot's.
LEMMA SubmitSendsInv ==
  ASSUME EngineInv, NEW nonce \in batch, SubmitSends(nonce)
  PROVE  EngineInv'
  <1>1. pc = "submit" /\ snapshot \in Job /\ clientJob = snapshot /\ nonce \in Hits[snapshot]
    BY DEF EngineInv, JobInHand, BatchInHand, SubmitSends
  <1>2. nonce \in Nonce /\ ShareFor(nonce) \in Share
    BY <1>1 DEF EngineInv, EngineTypes, ShareFor, Share
  <1>3. toPool' \in Seq(Request) /\ peer' \in PeerState
    BY <1>2, SendType DEF SubmitSends, EngineInv, LinkTypes, Request
  <1>4. LinkTypes'
    BY <1>3 DEF SubmitSends, EngineInv, LinkTypes, poolVars, clientVars
  <1>5. /\ sent' \in Seq(Share) /\ Len(sent) \in Nat /\ Len(sent') = Len(sent) + 1
        /\ \A i \in 1 .. Len(sent) : sent'[i] = sent[i]
        /\ sent'[Len(sent) + 1] = ShareFor(nonce)
    BY <1>2, AppendProperties DEF SubmitSends, EngineInv, EngineTypes
  <1>6. EngineTypes'
    BY <1>5 DEF SubmitSends, EngineInv, EngineTypes, PC
  <1>7. DagPhase' /\ JobInHand' /\ BatchInHand'
    BY <1>1 DEF SubmitSends, EngineInv, DagPhase, JobInHand, BatchInHand, Starting, dagVars,
                clientVars
  <1>8. SharesAreCoherent'
    <2>1. ShareFor(nonce).header = ShareFor(nonce).id
          /\ ShareFor(nonce).nonce \in Hits[ShareFor(nonce).id]
      BY <1>1 DEF ShareFor
    <2>. QED
      BY <1>5, <2>1 DEF EngineInv, SharesAreCoherent
  <1>9. EverySolutionIsJudged'
    <2>1. /\ pc' = "submitReply" /\ batch' = batch \ {nonce}
          /\ found' = found /\ shares' = shares
      BY DEF SubmitSends
    <2>2. /\ Cardinality(batch') = Cardinality(batch) - 1 /\ Cardinality(batch) \in Nat
      BY <2>1, BatchShrinks
    <2>3. shares.accepted \in Nat /\ shares.rejected \in Nat
      BY DEF EngineInv, EngineTypes
    <2>4. found = shares.accepted + shares.rejected + Cardinality(batch)
      BY <1>1, <2>2, <2>3 DEF EngineInv, EverySolutionIsJudged
    <2>. QED
      BY <2>1, <2>2, <2>3, <2>4 DEF EverySolutionIsJudged
  <1>. QED
    BY <1>4, <1>6, <1>7, <1>8, <1>9 DEF EngineInv

\* The three ways a solution gets its verdict, and the signal that ends it all.
LEMMA SubmitEndsInv ==
  EngineInv /\ (\/ \E nonce \in batch : SubmitFails(nonce)
                \/ \E n \in ChunkSize : SubmitReply(n)
                \/ SubmitUnanswered \/ SubmitKills) => EngineInv'
  <1>. SUFFICES ASSUME EngineInv,
                       \/ \E nonce \in batch : SubmitFails(nonce)
                       \/ \E n \in ChunkSize : SubmitReply(n)
                       \/ SubmitUnanswered \/ SubmitKills
                PROVE  EngineInv'
    OBVIOUS
  <1>1. ASSUME NEW nonce \in batch, SubmitFails(nonce) PROVE EngineInv'
    <2>1. LinkTypes'
      BY <1>1 DEF SubmitFails, SendFails, EngineInv, LinkTypes, poolVars, clientVars, PeerState
    <2>. QED
      BY <1>1, <2>1, BatchShrinks, VerdictInv DEF SubmitFails, clientVars
  <1>2. ASSUME NEW n \in ChunkSize, SubmitReply(n) PROVE EngineInv'
    <2>1. LinkTypes'
      BY <1>2, RecvType DEF SubmitReply, EngineInv, LinkTypes, poolVars, clientVars
    <2>2. PICK kind \in {"accepted", "rejected"} : Verdict(kind, batch)
      BY <1>2 DEF SubmitReply
    <2>. QED
      BY <1>2, <2>1, <2>2, VerdictInv DEF SubmitReply, clientVars
  <1>3. CASE SubmitUnanswered
    <2>1. LinkTypes'
      BY <1>3 DEF SubmitUnanswered, RecvEof, RecvError, EngineInv, LinkTypes, poolVars,
                  PeerState
    <2>. QED
      BY <1>3, <2>1, VerdictInv DEF SubmitUnanswered
  <1>4. CASE SubmitKills
    <2>1. pc = "submit" /\ pc' = "killed"
          /\ UNCHANGED <<linkVars, poolVars, clientVars, dagVars, engineVars>>
      BY <1>4 DEF SubmitKills
    <2>2. LinkTypes' /\ EngineTypes'
      BY <2>1 DEF EngineInv, LinkTypes, EngineTypes, linkVars, poolVars, clientVars,
                  engineVars, PC
    <2>3. DagPhase' /\ JobInHand' /\ BatchInHand'
      BY <2>1 DEF EngineInv, DagPhase, JobInHand, BatchInHand, Starting, engineVars, dagVars
    <2>4. SharesAreCoherent' /\ EverySolutionIsJudged'
      BY <2>1, SharesUntouched DEF EngineInv, engineVars
    <2>. QED
      BY <2>2, <2>3, <2>4 DEF EngineInv
  <1>. QED
    BY <1>1, <1>2, <1>3, <1>4

\* ~MiningEngine, and the user's signal.
LEMMA DestroyEngineInv == EngineInv /\ DestroyEngine => EngineInv'
  <1>. SUFFICES ASSUME EngineInv, DestroyEngine PROVE EngineInv'
    OBVIOUS
  <1>1. pc = "exit" /\ pc' = "done" /\ UNCHANGED engineVars
    BY DEF DestroyEngine
  <1>2. LinkTypes'
    BY DEF DestroyEngine, EngineInv, LinkTypes, linkVars, poolVars
  <1>3. DagPhase' /\ JobInHand'
    BY <1>1 DEF EngineInv, DagPhase, JobInHand, Starting, engineVars
  <1>. QED
    BY <1>1, <1>2, <1>3, QuietStep DEF PC

LEMMA SignalInv == EngineInv /\ Signal => EngineInv'
  <1>. SUFFICES ASSUME EngineInv, Signal PROVE EngineInv'
    OBVIOUS
  <1>1. LinkTypes' /\ EngineTypes'
    BY DEF Signal, EngineInv, LinkTypes, EngineTypes, linkVars, poolVars, clientVars
  <1>2. DagPhase' /\ JobInHand' /\ BatchInHand'
    BY DEF Signal, EngineInv, DagPhase, JobInHand, BatchInHand, Starting, dagVars, clientVars
  <1>3. SharesAreCoherent' /\ EverySolutionIsJudged'
    BY SharesUntouched DEF Signal, EngineInv
  <1>. QED
    BY <1>1, <1>2, <1>3 DEF EngineInv

LEMMA StutterInv == EngineInv /\ UNCHANGED vars => EngineInv'
  BY DEF vars, linkVars, poolVars, clientVars, dagVars, engineVars, EngineInv, LinkTypes,
         EngineTypes, DagPhase, JobInHand, BatchInHand, Starting, SharesAreCoherent,
         EverySolutionIsJudged

\* Every step of the miner and of its environment preserves the invariant.
LEMMA NextInv == EngineInv /\ [Next]_vars => EngineInv'
  <1>. SUFFICES ASSUME EngineInv, [Next]_vars PROVE EngineInv'
    OBVIOUS
  <1>1. CASE Environment
    BY <1>1, EnvironmentInv
  <1>2. CASE Initialize
    BY <1>2, InitializeInv
  <1>3. CASE LoopEnds \/ LoopPolls \/ LoopSkipsPoll \/ RunReturns
    BY <1>3, LoopInv
  <1>4. CASE ProcessMessages
    BY <1>4, PollInv, ParseDifficultyInv, ParseNotifyInv DEF ProcessMessages
  <1>5. CASE MineAndSubmit
    BY <1>5, LoopInv, TakesSnapshotInv, SearchInv, SubmitSendsInv, SubmitEndsInv
    DEF MineAndSubmit
  <1>6. CASE DestroyEngine
    BY <1>6, DestroyEngineInv
  <1>7. CASE Signal
    BY <1>7, SignalInv
  <1>8. CASE Terminated \/ UNCHANGED vars
    BY <1>8, StutterInv DEF Terminated
  <1>. QED
    BY <1>1, <1>2, <1>3, <1>4, <1>5, <1>6, <1>7, <1>8 DEF Next, Thread

LEMMA EngineInvariant == Spec => []EngineInv
  BY InitInv, NextInv, PTL DEF Spec

-----------------------------------------------------------------------------
(* What follows.                                                           *)

\* A share carries the id and the header of one job and a nonce found for it,
\* although its parts come from the engine and from the client
\* (stratum_client.cpp submitSolution, mining_engine.cpp processSolutions).
THEOREM SharesAreCoherentHolds == Spec => []SharesAreCoherent
  BY EngineInvariant, PTL DEF EngineInv

\* Every solution the device reports is waiting or has been counted exactly once
\* (mining_engine.cpp processSolutions).
THEOREM EverySolutionIsJudgedHolds == Spec => []EverySolutionIsJudged
  BY EngineInvariant, PTL DEF EngineInv

\* Only onJobReceived and the destructors touch the DAG, and they do as
\* DagMemory says.
LEMMA NextDrivesDag == EngineInv /\ [Next]_vars => [DagNext]_dagVars
  <1>. SUFFICES ASSUME EngineInv, [Next]_vars PROVE [DagNext]_dagVars
    OBVIOUS
  <1>1. CASE ParseNotify
    <2>1. rx[1].msg.job \in Job /\ dagCall \in {"none", "ok", "failed"}
      BY <1>1, ParseType, NotifyCarriesJob
      DEF EngineInv, LinkTypes, DagPhase, ParseNotify, ParsesNext
    <2>. QED
      BY <1>1, <2>1, EpochOfType DEF ParseNotify, PreparesDag, EpochChange, DagNext
  <1>2. CASE DestroyEngine
    BY <1>2 DEF DestroyEngine, DagNext
  <1>3. CASE Environment \/ Signal \/ Terminated \/ UNCHANGED vars
    BY <1>3 DEF Environment, Signal, Terminated, vars
  <1>4. CASE Initialize
    BY <1>4 DEF Initialize, ConnectFails, ConnectSucceeds, Requests, ReplyMissing,
                SubscribeReply, AuthorizeReply
  <1>5. CASE LoopEnds \/ LoopPolls \/ LoopSkipsPoll \/ RunReturns
    BY <1>5 DEF LoopEnds, LoopPolls, LoopSkipsPoll, LoopContinues, RunReturns
  <1>6. CASE ProcessMessages /\ ~ParseNotify
    BY <1>6 DEF ProcessMessages, PollReceives, PollReceivesNothing, ParseSkips, ParseAnswer,
                ParseDifficulty
  <1>7. CASE MineAndSubmit
    BY <1>7 DEF MineAndSubmit, Waits, TakesSnapshot, Search, SearchThrows, SubmitSends,
                SubmitFails, SubmitKills, SubmitReply, SubmitUnanswered
  <1>. QED
    BY <1>1, <1>2, <1>3, <1>4, <1>5, <1>6, <1>7 DEF Next, Thread

\* The engine implements DagMemory: no initializeDag for an epoch it has, none
\* after an exception, one destruction (mining_engine.cpp onJobReceived; main).
THEOREM EngineDrivesDagMemory == Spec => DrivesDagMemory
  <1>1. Init => DagInit
    BY DEF Init
  <1>. QED
    BY <1>1, EngineInvariant, NextDrivesDag, PTL DEF Spec, DagSpec, DrivesDagMemory

LEMMA EngineDagInvariant == Spec => []DagInv
  BY EngineDrivesDagMemory, DagInvariant, PTL DEF DrivesDagMemory

\* Every variable keeps its type, for any pool and any network.
THEOREM TypeCorrect == Spec => []TypeOK
  <1>1. EngineInv /\ DagInv => TypeOK
    BY DEF EngineInv, LinkTypes, EngineTypes, DagInv, TypeOK
  <1>. QED
    BY <1>1, EngineInvariant, EngineDagInvariant, PTL

\* A search runs on the DAG of the epoch of its job, with that DAG's size, after
\* any sequence of jobs and of failed generations
\* (mining_engine.cpp onJobReceived, run; device_manager.cu searchSync).
THEOREM SearchUsesJobsDagHolds == Spec => []SearchUsesJobsDag
  <1>1. EngineInv /\ DagInv => SearchUsesJobsDag
    <2>. SUFFICES ASSUME EngineInv, DagInv, pc = "search"
                  PROVE  /\ dev.ready /\ dev.dag \in Live
                         /\ heap[dev.dag] = EpochOf(snapshot) /\ dev.size = EpochOf(snapshot)
      BY DEF SearchUsesJobsDag
    <2>1. /\ dagCall \in {"none", "ok", "failed"}
          /\ snapshot \in Job /\ dagEpoch = EpochOf(snapshot)
      BY DEF EngineInv, DagPhase, JobInHand
    <2>2. dagEpoch # NoEpoch
      BY <2>1, EpochOfType, EpochAssumption
    <2>. QED
      BY <2>1, <2>2 DEF DagInv, DeviceHoldsEngineEpoch
  <1>. QED
    BY <1>1, EngineInvariant, EngineDagInvariant, PTL
=============================================================================
