---------------------------- MODULE StratumClient ----------------------------
(***************************************************************************)
(* network::StratumClient and what it talks to: the TCP connection and the *)
(* pool.                                                                   *)
(*                                                                         *)
(* TCP delivers the pool's messages as a stream: a message is written as   *)
(* Pieces fragments and recv returns any non-empty prefix of the fragments *)
(* that have arrived, up to the size of the client's buffer.  A chunk may  *)
(* therefore hold part of a message, or several of them.                   *)
(*                                                                         *)
(* The client has one thread.  Its calls are the operators below; they are *)
(* put in order, call by call, by MiningEngine.  The pool is external: it  *)
(* answers the requests in order, and pushes jobs and difficulties when it *)
(* likes.                                                                  *)
(***************************************************************************)
EXTENDS Integers, Sequences

CONSTANTS
    Job,         \* the jobs the pool may announce, one id and one header each
    NoJob,       \* an empty MiningJob
    Nonce,       \* nonces that may solve a job
    Difficulty,  \* the values mining.set_difficulty may carry, 0 included
    Pieces,      \* fragments per message: 1 when TCP never splits a message
    RecvMax,     \* bound: fragments that fit the 4096-byte receive buffer
    EarlyPush,   \* whether the pool may push before it has answered authorize
    MaxPush      \* bound: notifications the pool sends

ASSUME LinkAssumption ==
    /\ Pieces \in Nat \ {0} /\ RecvMax \in Nat \ {0} /\ MaxPush \in Nat
    /\ EarlyPush \in BOOLEAN
    /\ Difficulty \subseteq Nat
    /\ NoJob \notin Job

VARIABLES
    peer,        \* the pool's side of the connection, as the client's kernel sees it
    toMiner,     \* fragments sent by the pool and not yet received
    toPool,      \* requests sent by the client and not yet answered
    pushes,      \* number of notifications sent so far
    latest,      \* the last job announced by the pool
    oks,         \* number of positive answers the pool has sent, per request type
    connected,   \* StratumClient::Impl::connected_
    clientJob,   \* StratumClient::Impl::currentJob_
    rx           \* the buffer of the current processMessages, not yet parsed

poolVars   == <<pushes, latest, oks>>
linkVars   == <<peer, toMiner, toPool>>
clientVars == <<connected, clientJob, rx>>

Share      == [type : {"submit"}, id : Job, header : Job \cup {NoJob}, nonce : Nonce]
Request    == [type : {"subscribe", "authorize"}] \cup Share
RequestType == {"subscribe", "authorize", "submit"}
Message    == [type : {"notify"}, job : Job]
              \cup [type : {"difficulty"}, value : Difficulty]
              \cup [type : {"answer"}, to : Request, ok : BOOLEAN]
Fragment   == [msg : Message, part : 1 .. Pieces]

\* "fin": the pool has closed; "rst": the connection was reset and the error is
\* pending on the socket; "dead": that error has been reported once, or a pool that
\* has closed has answered with a reset to what was sent to it.
PeerState  == {"none", "open", "fin", "rst", "dead"}

Whole(m) == [i \in 1 .. Pieces |-> [msg |-> m, part |-> i]]

ClientInit ==
    /\ peer = "none" /\ toMiner = <<>> /\ toPool = <<>>
    /\ pushes = 0 /\ latest = NoJob
    /\ oks = [type \in RequestType |-> 0]
    /\ connected = FALSE /\ clientJob = NoJob /\ rx = <<>>

-----------------------------------------------------------------------------
(* The pool and the network.                                               *)

PoolSends(m) ==
    /\ peer = "open"
    /\ toMiner' = toMiner \o Whole(m)

\* Requests are answered in order.  A positive answer to subscribe is an array,
\* to authorize and submit it is true; a negative one is null with an error.
PoolAnswers(ok) ==
    /\ toPool # <<>>
    /\ PoolSends([type |-> "answer", to |-> Head(toPool), ok |-> ok])
    /\ toPool' = Tail(toPool)
    /\ oks' = IF ok THEN [oks EXCEPT ![Head(toPool).type] = @ + 1] ELSE oks
    /\ UNCHANGED <<peer, pushes, latest, clientVars>>

\* Pools push once they have accepted the subscription (EarlyPush) or the
\* authorization; the latter is the connection flow of docs/STRATUM.md.
MayPush ==
    /\ pushes < MaxPush
    /\ \/ oks["authorize"] > 0
       \/ EarlyPush /\ oks["subscribe"] > 0

PoolNotifies(j) ==
    /\ MayPush
    /\ PoolSends([type |-> "notify", job |-> j])
    /\ pushes' = pushes + 1
    /\ latest' = j
    /\ UNCHANGED <<peer, toPool, oks, clientVars>>

PoolSetsDifficulty(d) ==
    /\ MayPush
    /\ PoolSends([type |-> "difficulty", value |-> d])
    /\ pushes' = pushes + 1
    /\ UNCHANGED <<peer, toPool, latest, oks, clientVars>>

PoolCloses ==
    /\ peer = "open"
    /\ peer' = "fin"
    /\ toPool' = <<>>
    /\ UNCHANGED <<toMiner, poolVars, clientVars>>

\* A reset loses what was still on its way.
ConnectionReset ==
    /\ peer = "open"
    /\ peer' = "rst"
    /\ toPool' = <<>>
    /\ \E n \in 0 .. Len(toMiner) : toMiner' = SubSeq(toMiner, 1, n)
    /\ UNCHANGED <<poolVars, clientVars>>

-----------------------------------------------------------------------------
(* connect and disconnect.                                                 *)

Connect ==
    /\ peer' = "open"
    /\ connected' = TRUE
    /\ UNCHANGED <<toMiner, toPool, poolVars, clientJob, rx>>

-----------------------------------------------------------------------------
(* sendMessage: one ::send on the blocking socket, without MSG_NOSIGNAL.   *)

\* The bytes are accepted; a pool that has closed does not read them, and may answer
\* with a reset.  That may come at any time before the next send; a recv still
\* returns what has arrived before, and end of stream.
Send(request) ==
    \/ peer = "open" /\ toPool' = Append(toPool, request) /\ UNCHANGED peer
    \/ peer = "fin" /\ peer' \in {"fin", "dead"} /\ UNCHANGED toPool

\* The pending error is returned, and cleared.
SendFails ==
    /\ peer = "rst"
    /\ peer' = "dead"
    /\ UNCHANGED toPool

\* EPIPE on a dead connection raises SIGPIPE, which the program leaves at its
\* default: the process is killed.
SendKills == peer = "dead"

-----------------------------------------------------------------------------
(* ::recv, used blocking by receiveMessage and non-blocking by             *)
(* processMessages.                                                        *)

\* recv(n): the first n fragments of the stream, no more than fit the buffer.
ChunkSize == {n \in 1 .. Len(toMiner) : n <= RecvMax}
Chunk(n)  == SubSeq(toMiner, 1, n)
Recv(n)   == toMiner' = SubSeq(toMiner, n + 1, Len(toMiner))

\* Faulty variant: end of stream is treated like "no data".
RecvEofIgnored ==
    /\ toMiner = <<>> /\ peer \in {"fin", "dead"}
    /\ UNCHANGED connected

\* Zero bytes: the client disconnects.
RecvEof ==
    /\ toMiner = <<>> /\ peer \in {"fin", "dead"}
    /\ connected' = FALSE

\* An error other than EAGAIN is logged; the client stays "connected".
RecvError ==
    /\ toMiner = <<>> /\ peer = "rst"
    /\ peer' = "dead"

-----------------------------------------------------------------------------
(* What the client makes of the bytes.                                     *)

\* Faulty variant: missing and trailing bytes are tolerated.
ParsesAnyway(chunk) == TRUE

\* json::parse of a whole chunk, as subscribe, authorize and submitSolution do:
\* it succeeds only on exactly one message, which is the chunk's first.
Parses(chunk) == chunk = Whole(chunk[1].msg)

\* An answer is recognised by its result; the id it carries is not looked at.
\* For subscribe the result is not null, for the others it is the boolean true,
\* which the array that answers a subscription is not.
PositiveFor(type, m) ==
    /\ m.type = "answer" /\ m.ok
    /\ (type = "subscribe") = (m.to.type = "subscribe")

Grants(type, chunk) == Parses(chunk) /\ PositiveFor(type, chunk[1].msg)
Announces(chunk)    == Parses(chunk) /\ chunk[1].msg.type = "notify"

\* The brace-matching loop of processMessages, one round: bytes before the next
\* opening brace are skipped, an object that does not end in the buffer is
\* abandoned together with the buffer, and a complete one is parsed.
SkipsTail   == rx # <<>> /\ rx[1].part # 1
DropsHead   == rx # <<>> /\ rx[1].part = 1 /\ Len(rx) < Pieces
ParsesNext  == rx # <<>> /\ rx[1].part = 1 /\ Len(rx) >= Pieces

\* Faulty variant: only the first object of a buffer is looked at.
AfterObjectNothing == <<>>

AfterObject == SubSeq(rx, Pieces + 1, Len(rx))
=============================================================================
