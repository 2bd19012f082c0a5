----------------------------- MODULE StreamProofs -----------------------------
(***************************************************************************)
(* What becomes of the messages of the pool.                               *)
(*                                                                         *)
(* The miner counts no acceptance the pool has not sent.  The argument is  *)
(* one of accounting: an acceptance is paid for with a positive answer     *)
(* that has been sent, and no answer pays twice, because reading a chunk   *)
(* takes the answer at its head out of the stream.                         *)
(*                                                                         *)
(* The miner works on the last job of the pool, as long as it has sent no  *)
(* share.  Every announcement that is still in the parser's buffer or in   *)
(* the stream will be taken over when its turn comes, so the last of them  *)
(* decides; reading moves announcements towards the engine, and loses none *)
(* unless a call that waits for an answer reads it.                        *)
(*                                                                         *)
(* The miner keeps the session of MiningSession: an acceptance is paid for *)
(* by the account of the first part, and a batch is settled before the     *)
(* next job is taken up, because only the thread that parses messages      *)
(* searches and submits.                                                   *)
(***************************************************************************)
EXTENDS MiningEngineProofs

\* An answer that submitSolution would take for an acceptance.
Accepting(m) == m.type = "answer" /\ m.ok /\ m.to.type \in {"authorize", "submit"}

\* Where such answers begin in a stream of fragments.
Acceptances(stream) ==
    {i \in 1 .. Len(stream) : stream[i].part = 1 /\ Accepting(stream[i].msg)}

\* Acceptances counted and acceptances still to be read have all been sent.
AccountInv ==
    shares.accepted + Cardinality(Acceptances(toMiner)) <= oks["authorize"] + oks["submit"]

-----------------------------------------------------------------------------
(* Acceptances in a stream.                                                *)

LEMMA AcceptancesFinite ==
  ASSUME NEW s \in Seq(Fragment)
  PROVE  IsFiniteSet(Acceptances(s)) /\ Cardinality(Acceptances(s)) \in Nat
  <1>1. Len(s) \in Nat
    OBVIOUS
  <1>2. IsFiniteSet(1 .. Len(s))
    BY <1>1, FS_Interval
  <1>3. Acceptances(s) \in SUBSET (1 .. Len(s))
    BY DEF Acceptances
  <1>. QED
    BY <1>2, <1>3, FS_Subset, FS_CardinalityType

\* A reset that loses the end of the stream adds none.
LEMMA PrefixHasNoMore ==
  ASSUME NEW s \in Seq(Fragment), NEW n \in 0 .. Len(s)
  PROVE  Cardinality(Acceptances(SubSeq(s, 1, n))) <= Cardinality(Acceptances(s))
  <1>1. n \in Nat /\ Len(s) \in Nat /\ \A i \in 1 .. n : s[i] \in Fragment
    OBVIOUS
  <1>2. /\ Len(SubSeq(s, 1, n)) = n
        /\ \A i \in 1 .. n : SubSeq(s, 1, n)[i] = s[i]
    BY <1>1, SubSeqProperties
  <1>3. Acceptances(SubSeq(s, 1, n)) \in SUBSET Acceptances(s)
    BY <1>1, <1>2 DEF Acceptances
  <1>. QED
    BY <1>3, AcceptancesFinite, FS_Subset

\* What is left of a stream when its first n fragments are taken.
LEMMA RestOf ==
  ASSUME NEW s \in Seq(Fragment), NEW n \in 0 .. Len(s)
  PROVE  /\ SubSeq(s, n + 1, Len(s)) \in Seq(Fragment)
         /\ Len(SubSeq(s, n + 1, Len(s))) = Len(s) - n
         /\ \A i \in 1 .. Len(s) - n : SubSeq(s, n + 1, Len(s))[i] = s[i + n]
  <1>. DEFINE rest == SubSeq(s, n + 1, Len(s))
  <1>1. n \in Nat /\ Len(s) \in Nat /\ n <= Len(s)
        /\ \A i \in n + 1 .. Len(s) : s[i] \in Fragment
    OBVIOUS
  <1>2. rest \in Seq(Fragment)
    BY <1>1, SubSeqProperties
  <1>3. Len(rest) = IF n + 1 <= Len(s) THEN Len(s) - (n + 1) + 1 ELSE 0
    BY <1>1, SubSeqProperties
  <1>4. \A i \in 1 .. Len(s) - (n + 1) + 1 : rest[i] = s[n + 1 + i - 1]
    BY <1>1, SubSeqProperties
  <1>. HIDE DEF rest
  <1>5. Len(rest) = Len(s) - n
    BY <1>1, <1>3
  <1>6. \A i \in 1 .. Len(s) - n : rest[i] = s[i + n]
    <2>1. ASSUME NEW i \in 1 .. Len(s) - n PROVE rest[i] = s[i + n]
      <3>1. i \in 1 .. Len(s) - (n + 1) + 1 /\ n + 1 + i - 1 = i + n
        BY <1>1
      <3>. QED
        BY <1>4, <3>1
    <2>. QED
      BY <2>1
  <1>. QED
    BY <1>2, <1>5, <1>6 DEF rest

\* What is left after a recv has no more, and one less if the chunk began with one.
LEMMA RecvTakesAcceptance ==
  ASSUME NEW s \in Seq(Fragment), NEW n \in 1 .. Len(s)
  PROVE  Cardinality(Acceptances(SubSeq(s, n + 1, Len(s))))
           <= Cardinality(Acceptances(s)) - (IF 1 \in Acceptances(s) THEN 1 ELSE 0)
  <1>. DEFINE rest == SubSeq(s, n + 1, Len(s))
              later == Acceptances(s) \ {1}
              f == [i \in Acceptances(rest) |-> i + n]
  <1>1. n \in Nat \ {0} /\ Len(s) \in Nat /\ n <= Len(s)
        /\ \A i \in n + 1 .. Len(s) : s[i] \in Fragment
    OBVIOUS
  <1>2. /\ Len(rest) = Len(s) - n
        /\ \A i \in 1 .. Len(s) - n : rest[i] = s[i + n]
    BY RestOf
  <1>3. \A i \in Acceptances(rest) : i \in Nat /\ i + n \in later
    BY <1>1, <1>2 DEF Acceptances
  <1>4. f \in Injection(Acceptances(rest), later)
    <2>1. f \in [Acceptances(rest) -> later]
      BY <1>3
    <2>2. \A i, j \in Acceptances(rest) : f[i] = f[j] => i = j
      BY <1>1, <1>3
    <2>. QED
      BY <2>1, <2>2 DEF Injection, IsInjective
  <1>5. /\ IsFiniteSet(later)
        /\ Cardinality(later) = IF 1 \in Acceptances(s) THEN Cardinality(Acceptances(s)) - 1
                                                        ELSE Cardinality(Acceptances(s))
    BY AcceptancesFinite, FS_RemoveElement
  <1>6. Cardinality(Acceptances(rest)) <= Cardinality(later)
    BY <1>4, <1>5, FS_Injection
  <1>. QED
    BY <1>5, <1>6, AcceptancesFinite

\* A message that is sent adds one if it is one.
LEMMA SendAddsAcceptance ==
  ASSUME NEW s \in Seq(Fragment), NEW m \in Message
  PROVE  Cardinality(Acceptances(s \o Whole(m)))
           <= Cardinality(Acceptances(s)) + (IF Accepting(m) THEN 1 ELSE 0)
  <1>. DEFINE all == s \o Whole(m)
              first == Len(s) + 1
  <1>1. Pieces \in Nat /\ Len(s) \in Nat
    BY LinkAssumption
  <1>2. Len(Whole(m)) = Pieces /\ \A i \in 1 .. Pieces : Whole(m)[i] = [msg |-> m, part |-> i]
    BY <1>1 DEF Whole
  <1>3. /\ Len(all) = Len(s) + Pieces
        /\ \A i \in 1 .. Len(s) + Pieces :
             all[i] = IF i <= Len(s) THEN s[i] ELSE Whole(m)[i - Len(s)]
    BY <1>2, WholeType, ConcatProperties
  <1>4. \A i \in Acceptances(all) : i \in Acceptances(s) \/ (i = first /\ Accepting(m))
    <2>. TAKE i \in Acceptances(all)
    <2>1. i \in 1 .. Len(s) + Pieces /\ all[i].part = 1 /\ Accepting(all[i].msg)
      BY <1>3 DEF Acceptances
    <2>2. CASE i <= Len(s)
      BY <1>1, <1>3, <2>1, <2>2 DEF Acceptances
    <2>3. CASE i > Len(s)
      <3>1. i - Len(s) \in 1 .. Pieces /\ all[i] = [msg |-> m, part |-> i - Len(s)]
        BY <1>1, <1>2, <1>3, <2>1, <2>3
      <3>. QED
        BY <1>1, <2>1, <3>1
    <2>. QED
      BY <1>1, <2>1, <2>2, <2>3
  <1>5. CASE Accepting(m)
    <2>1. /\ IsFiniteSet(Acceptances(s) \cup {first})
          /\ Cardinality(Acceptances(s) \cup {first}) <= Cardinality(Acceptances(s)) + 1
      <3>1. IsFiniteSet(Acceptances(s)) /\ Cardinality(Acceptances(s)) \in Nat
        BY AcceptancesFinite
      <3>2. /\ IsFiniteSet(Acceptances(s) \cup {first})
            /\ Cardinality(Acceptances(s) \cup {first}) =
                 IF first \in Acceptances(s) THEN Cardinality(Acceptances(s))
                                             ELSE Cardinality(Acceptances(s)) + 1
        BY <3>1, FS_AddElement
      <3>. QED
        BY <3>1, <3>2
    <2>2. Acceptances(all) \in SUBSET (Acceptances(s) \cup {first})
      BY <1>4
    <2>3. Cardinality(Acceptances(all)) <= Cardinality(Acceptances(s) \cup {first})
      BY <2>1, <2>2, FS_Subset
    <2>4. all \in Seq(Fragment)
      BY WholeType, ConcatProperties
    <2>5. /\ Cardinality(Acceptances(all)) \in Nat
          /\ Cardinality(Acceptances(s) \cup {first}) \in Nat
      BY <2>1, <2>4, AcceptancesFinite, FS_CardinalityType
    <2>. QED
      BY <1>5, <2>1, <2>3, <2>5, AcceptancesFinite
  <1>6. CASE ~Accepting(m)
    <2>1. Acceptances(all) \in SUBSET Acceptances(s)
      BY <1>4, <1>6
    <2>2. Cardinality(Acceptances(all)) <= Cardinality(Acceptances(s))
      BY <2>1, AcceptancesFinite, FS_Subset
    <2>. QED
      BY <1>6, <2>2, AcceptancesFinite
  <1>. QED
    BY <1>5, <1>6

-----------------------------------------------------------------------------
(* Every step keeps the account.                                           *)

LEMMA InitAccount == Init => AccountInv
  <1>. SUFFICES ASSUME Init PROVE AccountInv
    OBVIOUS
  <1>1. /\ toMiner = <<>> /\ shares.accepted = 0
        /\ oks["authorize"] = 0 /\ oks["submit"] = 0
    BY DEF Init, ClientInit, RequestType
  <1>2. Acceptances(toMiner) = {}
    BY <1>1 DEF Acceptances
  <1>3. Cardinality(Acceptances(toMiner)) = 0
    BY <1>2, FS_EmptySet
  <1>. QED
    BY <1>1, <1>3 DEF AccountInv

\* The numbers of the account.
LEMMA AccountNumbers ==
  ASSUME EngineInv
  PROVE  /\ toMiner \in Seq(Fragment)
         /\ shares.accepted \in Nat /\ oks["authorize"] \in Nat /\ oks["submit"] \in Nat
         /\ Cardinality(Acceptances(toMiner)) \in Nat
  <1>1. toMiner \in Seq(Fragment) /\ oks \in [RequestType -> Nat]
        /\ shares \in [{"accepted", "rejected"} -> Nat]
    BY DEF EngineInv, LinkTypes, EngineTypes
  <1>. QED
    BY <1>1, AcceptancesFinite DEF RequestType

\* An account stays balanced if as much is paid in as is drawn, or more.
LEMMA Balance ==
  \A a, c, s, b, d, t, i \in Nat :
     a + c <= s /\ b + d <= a + c + i /\ t >= s + i => b + d <= t
  OBVIOUS

\* The pool pays before it answers; nothing else it does adds an acceptance.
LEMMA EnvironmentAccount ==
  ASSUME EngineInv, EngineInv', AccountInv, Environment
  PROVE  AccountInv'
  <1>1. shares' = shares
    BY DEF Environment, engineVars
  <1>2. ASSUME NEW m \in Message, PoolSends(m)
        PROVE  Cardinality(Acceptances(toMiner'))
                 <= Cardinality(Acceptances(toMiner)) + (IF Accepting(m) THEN 1 ELSE 0)
    BY <1>2, AccountNumbers, SendAddsAcceptance DEF PoolSends
  <1>3. Cardinality(Acceptances(toMiner')) \in Nat
    BY AcceptancesFinite DEF EngineInv, LinkTypes
  <1>4. ASSUME NEW ok \in BOOLEAN, PoolAnswers(ok) PROVE AccountInv'
    <2>. DEFINE m == [type |-> "answer", to |-> Head(toPool), ok |-> ok]
    <2>1. Head(toPool) \in Request
      BY <1>4, HeadTailProperties DEF PoolAnswers, EngineInv, LinkTypes
    <2>2. m \in Message /\ Head(toPool).type \in RequestType
      BY <2>1 DEF Message, Request, Share, RequestType
    <2>3. /\ oks \in [RequestType -> Nat]
          /\ oks' = IF ok THEN [oks EXCEPT ![Head(toPool).type] = @ + 1] ELSE oks
      BY <1>4 DEF PoolAnswers, EngineInv, LinkTypes
    <2>4. oks'["authorize"] + oks'["submit"]
            >= oks["authorize"] + oks["submit"] + (IF Accepting(m) THEN 1 ELSE 0)
      <3>1. CASE Accepting(m)
        <4>1. ok /\ Head(toPool).type \in {"authorize", "submit"}
          BY <3>1 DEF Accepting
        <4>. QED
          BY <2>3, <3>1, <4>1 DEF RequestType
      <3>2. CASE ~Accepting(m)
        BY <2>2, <2>3, <3>2 DEF RequestType
      <3>. QED
        BY <3>1, <3>2
    <2>5. Cardinality(Acceptances(toMiner'))
            <= Cardinality(Acceptances(toMiner)) + (IF Accepting(m) THEN 1 ELSE 0)
      BY <1>2, <1>4, <2>2 DEF PoolAnswers
    <2>6. oks'["authorize"] \in Nat /\ oks'["submit"] \in Nat
      BY AccountNumbers, <2>2, <2>3 DEF RequestType
    <2>. DEFINE i == IF Accepting(m) THEN 1 ELSE 0
                s == oks["authorize"] + oks["submit"]
                c == Cardinality(Acceptances(toMiner))
    <2>7. i \in Nat /\ s \in Nat /\ c \in Nat /\ s' \in Nat /\ c' \in Nat
      <3>1. c \in Nat /\ c' \in Nat
        BY <1>3, AccountNumbers
      <3>2. s \in Nat
        BY AccountNumbers
      <3>3. s' \in Nat
        BY <2>6
      <3>4. i \in Nat
        OBVIOUS
      <3>. QED
        BY <3>1, <3>2, <3>3, <3>4
    <2>8. shares.accepted + c <= s /\ shares'.accepted = shares.accepted
      BY <1>1 DEF AccountInv
    <2>9. s' >= s + i /\ c' <= c + i
      BY <2>4, <2>5
    <2>. HIDE DEF m, i, s, c
    <2>10. shares'.accepted + c' <= shares.accepted + c + i
      BY <2>7, <2>8, <2>9, AccountNumbers
    <2>11. shares'.accepted + c' <= s'
      BY <2>7, <2>8, <2>9, <2>10, AccountNumbers, Balance
    <2>. QED
      BY <2>11 DEF AccountInv, s, c
  <1>5. ASSUME NEW m \in Message, PoolSends(m), m.type # "answer", oks' = oks
        PROVE  AccountInv'
    <2>1. Cardinality(Acceptances(toMiner')) <= Cardinality(Acceptances(toMiner))
      BY <1>2, <1>5, AccountNumbers DEF Accepting
    <2>. QED
      BY <1>1, <1>3, <1>5, <2>1, AccountNumbers DEF AccountInv
  <1>6. ASSUME NEW j \in Job, PoolNotifies(j) PROVE AccountInv'
    BY <1>5, <1>6 DEF PoolNotifies, Message
  <1>7. ASSUME NEW d \in Difficulty, PoolSetsDifficulty(d) PROVE AccountInv'
    BY <1>5, <1>7 DEF PoolSetsDifficulty, Message
  <1>8. CASE PoolCloses
    BY <1>1, <1>8 DEF PoolCloses, poolVars, AccountInv
  <1>9. CASE ConnectionReset
    <2>1. PICK n \in 0 .. Len(toMiner) : toMiner' = SubSeq(toMiner, 1, n)
      BY <1>9 DEF ConnectionReset
    <2>2. Cardinality(Acceptances(toMiner')) <= Cardinality(Acceptances(toMiner))
      BY <2>1, AccountNumbers, PrefixHasNoMore
    <2>3. oks' = oks
      BY <1>9 DEF ConnectionReset, poolVars
    <2>. QED
      BY <1>1, <1>3, <2>2, <2>3, AccountNumbers DEF AccountInv
  <1>. QED
    BY <1>4, <1>6, <1>7, <1>8, <1>9 DEF Environment, PoolAnswersEither

\* Reading adds nothing to the account.
LEMMA ReadingAccount ==
  ASSUME EngineInv, AccountInv, oks' = oks, shares'.accepted = shares.accepted,
         toMiner' = toMiner \/ \E n \in ChunkSize : Recv(n)
  PROVE  AccountInv'
  <1>1. CASE toMiner' = toMiner
    BY <1>1 DEF AccountInv
  <1>2. ASSUME NEW n \in ChunkSize, Recv(n) PROVE AccountInv'
    <2>1. n \in 1 .. Len(toMiner) /\ toMiner' = SubSeq(toMiner, n + 1, Len(toMiner))
      BY <1>2 DEF ChunkSize, Recv
    <2>2. Cardinality(Acceptances(toMiner'))
            <= Cardinality(Acceptances(toMiner)) - (IF 1 \in Acceptances(toMiner) THEN 1 ELSE 0)
      BY <2>1, AccountNumbers, RecvTakesAcceptance
    <2>3. toMiner' \in Seq(Fragment)
      BY <1>2, RecvType, AccountNumbers
    <2>4. Cardinality(Acceptances(toMiner')) \in Nat
      BY <2>3, AcceptancesFinite
    <2>. QED
      BY <2>2, <2>4, AccountNumbers DEF AccountInv
  <1>. QED
    BY <1>1, <1>2

\* A chunk that is counted as an acceptance is one, and it is gone afterwards.
LEMMA SubmitReplyAccount ==
  ASSUME EngineInv, AccountInv, NEW n \in ChunkSize, SubmitReply(n)
  PROVE  AccountInv'
  <1>1. /\ n \in 1 .. Len(toMiner) /\ toMiner' = SubSeq(toMiner, n + 1, Len(toMiner))
        /\ oks' = oks
    BY DEF SubmitReply, ChunkSize, Recv, poolVars
  <1>2. CASE ~Grants("submit", Chunk(n))
    <2>1. shares'.accepted = shares.accepted
      BY <1>2 DEF SubmitReply, Verdict, EngineInv, EngineTypes
    <2>. QED
      BY <1>1, <2>1, ReadingAccount DEF SubmitReply
  <1>3. CASE Grants("submit", Chunk(n))
    <2>1. shares'.accepted = shares.accepted + 1
      BY <1>3 DEF SubmitReply, Verdict, EngineInv, EngineTypes
    <2>2. Chunk(n)[1] = toMiner[1] /\ toMiner[1] \in Fragment
      <3>1. n \in Nat /\ n >= 1 /\ Len(toMiner) \in Nat
            /\ \A i \in 1 .. n : toMiner[i] \in Fragment
        BY <1>1, AccountNumbers
      <3>2. \A i \in 1 .. n - 1 + 1 : SubSeq(toMiner, 1, n)[i] = toMiner[1 + i - 1]
        BY <3>1, SubSeqProperties
      <3>. QED
        BY <3>1, <3>2 DEF Chunk
    <2>3. Accepting(toMiner[1].msg)
      <3>1. toMiner[1].msg \in Message
        BY <2>2, FragmentMessage
      <3>2. PositiveFor("submit", toMiner[1].msg)
        BY <1>3, <2>2 DEF Grants
      <3>3. toMiner[1].msg.to \in Request
        BY <3>1, <3>2 DEF PositiveFor, Message
      <3>4. toMiner[1].msg.to.type \in {"subscribe", "authorize", "submit"}
        BY <3>3 DEF Request, Share
      <3>. QED
        BY <3>2, <3>4 DEF PositiveFor, Accepting
    <2>4. toMiner[1].part = 1
      <3>1. Chunk(n) = Whole(toMiner[1].msg)
        BY <1>3, <2>2 DEF Grants, Parses
      <3>2. 1 \in 1 .. Pieces
        BY LinkAssumption
      <3>3. Whole(toMiner[1].msg)[1] = [msg |-> toMiner[1].msg, part |-> 1]
        BY <3>2 DEF Whole
      <3>4. toMiner[1] = [msg |-> toMiner[1].msg, part |-> 1]
        BY <2>2, <3>1, <3>3
      <3>. QED
        BY <3>4
    <2>5. 1 \in Acceptances(toMiner)
      BY <1>1, <2>3, <2>4, AccountNumbers DEF Acceptances
    <2>6. Cardinality(Acceptances(toMiner')) <= Cardinality(Acceptances(toMiner)) - 1
      BY <1>1, <2>5, AccountNumbers, RecvTakesAcceptance
    <2>7. toMiner' \in Seq(Fragment)
      BY RecvType, AccountNumbers DEF SubmitReply
    <2>8. Cardinality(Acceptances(toMiner')) \in Nat
      BY <2>7, AcceptancesFinite
    <2>. DEFINE s == oks["authorize"] + oks["submit"]
                c == Cardinality(Acceptances(toMiner))
    <2>9. s \in Nat /\ c \in Nat /\ c' \in Nat
      BY <2>8, AccountNumbers
    <2>10. shares.accepted + c <= s /\ s' = s
      BY <1>1 DEF AccountInv
    <2>11. c' <= c - 1 /\ shares'.accepted = shares.accepted + 1
      BY <1>1, <2>1, <2>6
    <2>. HIDE DEF s, c
    <2>12. shares'.accepted + c' <= s'
      BY <2>9, <2>10, <2>11, AccountNumbers
    <2>. QED
      BY <2>12 DEF AccountInv, s, c
  <1>. QED
    BY <1>2, <1>3

\* Every other step of the thread, and the user, at most reads.
LEMMA OthersOnlyRead ==
  ASSUME EngineInv, Thread \/ Signal \/ Terminated \/ UNCHANGED vars,
         ~\E n \in ChunkSize : SubmitReply(n)
  PROVE  /\ oks' = oks /\ shares'.accepted = shares.accepted
         /\ toMiner' = toMiner \/ \E n \in ChunkSize : Recv(n)
  <1>. USE DEF poolVars, linkVars, clientVars, engineVars
  <1>1. CASE Initialize
    BY <1>1 DEF Initialize, ConnectFails, ConnectSucceeds, Connect, Requests, ReplyMissing,
                SubscribeReply, AuthorizeReply
  <1>2. CASE LoopEnds \/ LoopPolls \/ LoopSkipsPoll \/ RunReturns \/ DestroyEngine
    BY <1>2 DEF LoopEnds, LoopPolls, LoopSkipsPoll, LoopContinues, RunReturns, DestroyEngine
  <1>3. CASE ProcessMessages
    BY <1>3 DEF ProcessMessages, PollReceives, PollReceivesNothing, ParseSkips, ParseAnswer,
                ParseDifficulty, ParseNotify
  <1>4. CASE MineAndSubmit
    <2>1. CASE (\E nonce \in batch : SubmitFails(nonce)) \/ SubmitUnanswered
      <3>1. shares'.accepted = shares.accepted
        BY <2>1 DEF SubmitFails, SubmitUnanswered, Verdict, EngineInv, EngineTypes
      <3>. QED
        BY <2>1, <3>1 DEF SubmitFails, SubmitUnanswered
    <2>2. CASE Waits \/ TakesSnapshot \/ Search \/ SearchThrows \/ SubmitKills
      BY <2>2 DEF Waits, TakesSnapshot, Search, SearchThrows, SubmitKills
    <2>3. CASE \E nonce \in batch : SubmitSends(nonce)
      BY <2>3 DEF SubmitSends
    <2>. QED
      BY <1>4, <2>1, <2>2, <2>3 DEF MineAndSubmit
  <1>5. CASE Signal \/ Terminated \/ UNCHANGED vars
    BY <1>5 DEF Signal, Terminated, vars
  <1>. QED
    BY <1>1, <1>2, <1>3, <1>4, <1>5 DEF Thread

LEMMA NextAccount == EngineInv /\ EngineInv' /\ AccountInv /\ [Next]_vars => AccountInv'
  <1>. SUFFICES ASSUME EngineInv, EngineInv', AccountInv, [Next]_vars PROVE AccountInv'
    OBVIOUS
  <1>1. CASE Environment
    BY <1>1, EnvironmentAccount
  <1>2. CASE \E n \in ChunkSize : SubmitReply(n)
    BY <1>2, SubmitReplyAccount
  <1>3. CASE /\ Thread \/ Signal \/ Terminated \/ UNCHANGED vars
             /\ ~\E n \in ChunkSize : SubmitReply(n)
    BY <1>3, OthersOnlyRead, ReadingAccount
  <1>. QED
    BY <1>1, <1>2, <1>3 DEF Next

\* The miner counts no more acceptances than the pool has sent positive answers,
\* however messages are split, merged or cut off and whatever arrives in place of an
\* answer (stratum_client.cpp submitSolution).
THEOREM AcceptancesAreAnsweredHolds == Spec => []AcceptancesAreAnswered
  <1>1. EngineInv /\ AccountInv => AcceptancesAreAnswered
    BY AccountNumbers DEF AccountInv, AcceptancesAreAnswered
  <1>. QED
    BY <1>1, InitAccount, NextAccount, EngineInvariant, PTL DEF Spec

-----------------------------------------------------------------------------
(* The job a stream leads to.                                              *)

\* The fragments are those of whole messages; the pool announces no job before it
\* has accepted the worker.
WholeMessages == Pieces = 1 /\ EarlyPush = FALSE

Quiet(f) == f.msg.type # "notify"

\* After the stream s, read from its beginning, an engine that has job "now" has
\* job j: that of the last announcement, if there is one.
LeadsTo(s, now, j) ==
    \/ now = j /\ \A i \in 1 .. Len(s) : Quiet(s[i])
    \/ \E i \in 1 .. Len(s) :
          /\ ~Quiet(s[i]) /\ s[i].msg.job = j
          /\ \A k \in 1 .. Len(s) : k > i => Quiet(s[k])

\* Fragments with nothing announced may be dropped from the front.
LEMMA DropQuiet ==
  ASSUME NEW s \in Seq(Fragment), NEW n \in 0 .. Len(s), NEW now, NEW j,
         LeadsTo(s, now, j), \A i \in 1 .. n : Quiet(s[i])
  PROVE  LeadsTo(SubSeq(s, n + 1, Len(s)), now, j)
  <1>. DEFINE rest == SubSeq(s, n + 1, Len(s))
  <1>1. n \in Nat /\ Len(s) \in Nat /\ n <= Len(s)
        /\ \A i \in n + 1 .. Len(s) : s[i] \in Fragment
    OBVIOUS
  <1>2. /\ Len(rest) = Len(s) - n
        /\ \A i \in 1 .. Len(s) - n : rest[i] = s[i + n]
    BY RestOf
  <1>. HIDE DEF rest
  <1>3. CASE \A i \in 1 .. Len(s) : Quiet(s[i])
    <2>1. now = j
      BY <1>3 DEF LeadsTo
    <2>2. \A i \in 1 .. Len(rest) : Quiet(rest[i])
      BY <1>1, <1>2, <1>3
    <2>. QED
      BY <2>1, <2>2 DEF LeadsTo, rest
  <1>4. ASSUME NEW i \in 1 .. Len(s), ~Quiet(s[i]), s[i].msg.job = j,
               \A k \in 1 .. Len(s) : k > i => Quiet(s[k])
        PROVE  LeadsTo(rest, now, j)
    <2>1. i - n \in 1 .. Len(rest) /\ rest[i - n] = s[i]
      <3>1. i > n
        BY <1>1, <1>4
      <3>. QED
        BY <1>1, <1>2, <3>1
    <2>2. \A k \in 1 .. Len(rest) : k > i - n => Quiet(rest[k])
      BY <1>1, <1>2, <1>4
    <2>. QED
      BY <1>4, <2>1, <2>2 DEF LeadsTo
  <1>. QED
    BY <1>3, <1>4 DEF LeadsTo, rest

\* A message that is sent decides if it announces a job, and changes nothing if not.
LEMMA SendLeads ==
  ASSUME WholeMessages,
         NEW s \in Seq(Fragment), NEW m \in Message, NEW now, NEW j, LeadsTo(s, now, j)
  PROVE  LeadsTo(s \o Whole(m), now, IF m.type = "notify" THEN m.job ELSE j)
  <1>. DEFINE all == s \o Whole(m)
  <1>1. /\ Len(s) \in Nat
        /\ Len(Whole(m)) = 1 /\ Whole(m)[1].msg = m
    BY DEF Whole, WholeMessages
  <1>2. /\ Len(all) = Len(s) + 1
        /\ \A i \in 1 .. Len(s) : all[i] = s[i]
        /\ all[Len(s) + 1].msg = m
    <2>1. Whole(m) \in Seq(Fragment)
      BY WholeType
    <2>2. /\ Len(all) = Len(s) + Len(Whole(m))
          /\ \A i \in 1 .. Len(s) + Len(Whole(m)) :
               all[i] = IF i <= Len(s) THEN s[i] ELSE Whole(m)[i - Len(s)]
      BY <2>1, ConcatProperties, Zenon
    <2>3. Len(s) + 1 - Len(s) = 1 /\ ~(Len(s) + 1 <= Len(s)) /\ Len(s) + 1 \in 1 .. Len(s) + 1
      BY <1>1
    <2>4. all[Len(s) + 1] = Whole(m)[1]
      BY <1>1, <2>2, <2>3
    <2>. HIDE DEF all
    <2>. QED
      BY <1>1, <2>2, <2>4
  <1>. HIDE DEF all
  <1>3. CASE m.type = "notify"
    <2>1. Len(s) + 1 \in 1 .. Len(all) /\ \A k \in 1 .. Len(all) : ~(k > Len(s) + 1)
      BY <1>1, <1>2
    <2>. QED
      BY <1>2, <1>3, <2>1 DEF LeadsTo, Quiet, all
  <1>4. CASE m.type # "notify"
    <2>1. Quiet(all[Len(s) + 1])
      BY <1>2, <1>4 DEF Quiet
    <2>2. CASE \A i \in 1 .. Len(s) : Quiet(s[i])
      <3>1. now = j
        BY <2>2 DEF LeadsTo
      <3>2. \A i \in 1 .. Len(all) : Quiet(all[i])
        BY <1>1, <1>2, <2>1, <2>2
      <3>. QED
        BY <1>4, <3>1, <3>2 DEF LeadsTo, all
    <2>3. ASSUME NEW i \in 1 .. Len(s), ~Quiet(s[i]), s[i].msg.job = j,
                 \A k \in 1 .. Len(s) : k > i => Quiet(s[k])
          PROVE  LeadsTo(all, now, j)
      <3>1. i \in 1 .. Len(all) /\ all[i] = s[i]
        BY <1>1, <1>2
      <3>2. \A k \in 1 .. Len(all) : k > i => Quiet(all[k])
        BY <1>1, <1>2, <2>1, <2>3
      <3>. QED
        BY <2>3, <3>1, <3>2 DEF LeadsTo
    <2>. QED
      BY <1>4, <2>2, <2>3 DEF LeadsTo, all
  <1>. QED
    BY <1>3, <1>4

\* Taking over the announcement at the head.
LEMMA TakeOver ==
  ASSUME NEW s \in Seq(Fragment), s # <<>>, NEW now, NEW j, LeadsTo(s, now, j), ~Quiet(s[1])
  PROVE  LeadsTo(SubSeq(s, 2, Len(s)), s[1].msg.job, j)
  <1>. DEFINE rest == SubSeq(s, 2, Len(s))
  <1>1. Len(s) \in Nat /\ Len(s) >= 1
    BY EmptySeq
  <1>2. /\ Len(rest) = Len(s) - 1
        /\ \A i \in 1 .. Len(s) - 1 : rest[i] = s[i + 1]
    <2>1. 1 \in 0 .. Len(s) /\ 1 + 1 = 2
      BY <1>1
    <2>. QED
      BY <2>1, RestOf
  <1>. HIDE DEF rest
  <1>3. PICK i \in 1 .. Len(s) : /\ ~Quiet(s[i]) /\ s[i].msg.job = j
                                 /\ \A k \in 1 .. Len(s) : k > i => Quiet(s[k])
    <2>1. 1 \in 1 .. Len(s)
      BY <1>1
    <2>. QED
      BY <2>1 DEF LeadsTo
  <1>4. CASE i = 1
    <2>1. \A k \in 1 .. Len(rest) : Quiet(rest[k])
      BY <1>1, <1>2, <1>3, <1>4
    <2>. QED
      BY <1>3, <1>4, <2>1 DEF LeadsTo, rest
  <1>5. CASE i > 1
    <2>1. i - 1 \in 1 .. Len(rest) /\ rest[i - 1] = s[i]
      BY <1>1, <1>2, <1>5
    <2>2. \A k \in 1 .. Len(rest) : k > i - 1 => Quiet(rest[k])
      BY <1>1, <1>2, <1>3
    <2>. QED
      BY <1>3, <2>1, <2>2 DEF LeadsTo, rest
  <1>. QED
    BY <1>1, <1>4, <1>5

\* What is left without the head.
LEMMA RestOfFirst ==
  ASSUME NEW s \in Seq(Fragment), 1 \in 0 .. Len(s)
  PROVE  /\ SubSeq(s, 2, Len(s)) \in Seq(Fragment)
         /\ Len(SubSeq(s, 2, Len(s))) = Len(s) - 1
         /\ \A i \in 1 .. Len(s) - 1 : SubSeq(s, 2, Len(s))[i] = s[i + 1]
  <1>1. /\ SubSeq(s, 1 + 1, Len(s)) \in Seq(Fragment)
        /\ Len(SubSeq(s, 1 + 1, Len(s))) = Len(s) - 1
        /\ \A i \in 1 .. Len(s) - 1 : SubSeq(s, 1 + 1, Len(s))[i] = s[i + 1]
    BY RestOf, Zenon
  <1>2. 1 + 1 = 2
    OBVIOUS
  <1>. QED
    BY <1>1, <1>2, Zenon

\* What follows the head of a buffer and of the stream behind it.
LEMMA RestOfBoth ==
  ASSUME NEW s \in Seq(Fragment), NEW t \in Seq(Fragment), s # <<>>
  PROVE  /\ (s \o t)[1] = s[1] /\ s \o t # <<>>
         /\ SubSeq(s \o t, 2, Len(s \o t)) = SubSeq(s, 2, Len(s)) \o t
  <1>. DEFINE both == s \o t
              rest == SubSeq(s, 2, Len(s))
  <1>1. Len(s) \in Nat /\ Len(s) >= 1 /\ Len(t) \in Nat
    BY EmptySeq
  <1>2. /\ both \in Seq(Fragment) /\ Len(both) = Len(s) + Len(t)
        /\ \A i \in 1 .. Len(s) + Len(t) : both[i] = IF i <= Len(s) THEN s[i] ELSE t[i - Len(s)]
    BY ConcatProperties
  <1>3. 1 \in 0 .. Len(s) /\ 1 \in 0 .. Len(both)
    BY <1>1, <1>2
  <1>4. /\ rest \in Seq(Fragment) /\ Len(rest) = Len(s) - 1
        /\ \A i \in 1 .. Len(s) - 1 : rest[i] = s[i + 1]
    BY <1>3, RestOfFirst, Zenon
  <1>5. /\ SubSeq(both, 2, Len(both)) \in Seq(Fragment)
        /\ Len(SubSeq(both, 2, Len(both))) = Len(both) - 1
        /\ \A i \in 1 .. Len(both) - 1 : SubSeq(both, 2, Len(both))[i] = both[i + 1]
    BY <1>2, <1>3, RestOfFirst, Zenon
  <1>6. /\ rest \o t \in Seq(Fragment) /\ Len(rest \o t) = Len(rest) + Len(t)
        /\ \A i \in 1 .. Len(rest) + Len(t) :
             (rest \o t)[i] = IF i <= Len(rest) THEN rest[i] ELSE t[i - Len(rest)]
    BY <1>4, ConcatProperties
  <1>. HIDE DEF both, rest
  <1>7. SubSeq(both, 2, Len(both)) = rest \o t
    <2>1. Len(SubSeq(both, 2, Len(both))) = Len(rest \o t)
      BY <1>1, <1>2, <1>4, <1>5, <1>6
    <2>2. ASSUME NEW i \in 1 .. Len(SubSeq(both, 2, Len(both)))
          PROVE  SubSeq(both, 2, Len(both))[i] = (rest \o t)[i]
      <3>1. i \in 1 .. Len(both) - 1 /\ SubSeq(both, 2, Len(both))[i] = both[i + 1]
        BY <1>5
      <3>2. CASE i <= Len(s) - 1
        BY <1>1, <1>2, <1>4, <1>6, <3>1, <3>2
      <3>3. CASE ~(i <= Len(s) - 1)
        <4>1. both[i + 1] = t[i + 1 - Len(s)] /\ i + 1 - Len(s) = i - Len(rest)
          BY <1>1, <1>2, <1>4, <3>1, <3>3
        <4>2. (rest \o t)[i] = t[i - Len(rest)]
          BY <1>1, <1>2, <1>4, <1>6, <3>1, <3>3
        <4>. QED
          BY <3>1, <4>1, <4>2
      <3>. QED
        BY <3>2, <3>3
    <2>. QED
      BY <1>5, <1>6, <2>1, <2>2, SeqEqual
  <1>8. both[1] = s[1] /\ both # <<>>
    <2>1. 1 \in 1 .. Len(s) + Len(t) /\ Len(both) # 0
      BY <1>1, <1>2
    <2>. QED
      BY <1>1, <1>2, <2>1, EmptySeq
  <1>. QED
    BY <1>7, <1>8 DEF both, rest

-----------------------------------------------------------------------------
(* The invariant.                                                          *)

\* The parser's buffer is empty when the parser has returned, and an answer to a
\* submission is awaited after a share.
BufferInv ==
    /\ rx # <<>> => pc \in {"parse", "exit", "done", "killed"}
    /\ pc = "submitReply" => sent # <<>>

\* Nothing is announced before the answer to authorize, which is the first thing
\* that is read when it is awaited.
StartInv ==
    /\ pc = "connect" => peer = "none"
    /\ oks["authorize"] = 0 => \A i \in 1 .. Len(toMiner) : Quiet(toMiner[i])
    /\ pc \in {"connect", "subscribe", "subscribeReply", "authorize"} =>
          /\ oks["authorize"] = 0
          /\ \A i \in 1 .. Len(toPool) : toPool[i].type # "authorize"
    /\ pc = "authorizeReply" /\ peer = "open" =>
          IF toMiner = <<>> THEN oks["authorize"] = 0 ELSE Quiet(toMiner[1])

\* The connection is intact, no share has been sent, and the engine is not ending.
Listening ==
    /\ peer = "open" \/ pc = "connect"
    /\ sent = <<>>
    /\ pc \notin {"exit", "done", "killed"}

\* What is in the buffer and in the stream leads from the engine's job to the last
\* one announced.
LatestInv == Listening => LeadsTo(rx \o toMiner, job, latest)

StreamInv == BufferInv /\ StartInv /\ LatestInv

LEMMA InitStream == Init => StreamInv
  <1>. SUFFICES ASSUME Init PROVE StreamInv
    OBVIOUS
  <1>1. /\ rx = <<>> /\ toMiner = <<>> /\ toPool = <<>> /\ peer = "none"
        /\ oks["authorize"] = 0 /\ pc = "connect" /\ job = NoJob /\ latest = NoJob
    BY DEF Init, ClientInit, RequestType
  <1>2. BufferInv /\ StartInv
    BY <1>1 DEF BufferInv, StartInv
  <1>3. LeadsTo(rx \o toMiner, job, latest)
    <2>1. rx \o toMiner = <<>>
      BY <1>1, EmptySeq, ConcatEmptySeq
    <2>. QED
      BY <1>1, <2>1 DEF LeadsTo
  <1>. QED
    BY <1>2, <1>3 DEF StreamInv, LatestInv

\* The sequences of the invariant.
LEMMA StreamTypes ==
  ASSUME EngineInv
  PROVE  /\ toMiner \in Seq(Fragment) /\ rx \in Seq(Fragment) /\ toPool \in Seq(Request)
         /\ rx \o toMiner \in Seq(Fragment)
         /\ oks["authorize"] \in Nat
  <1>1. /\ toMiner \in Seq(Fragment) /\ rx \in Seq(Fragment) /\ toPool \in Seq(Request)
        /\ oks \in [RequestType -> Nat]
    BY DEF EngineInv, LinkTypes
  <1>. QED
    BY <1>1, ConcatProperties DEF RequestType

\* A message of the pool goes to the end of the stream.
LEMMA PoolSendsStream ==
  ASSUME WholeMessages, EngineInv, NEW m \in Message, PoolSends(m), rx' = rx
  PROVE  /\ toMiner' # <<>>
         /\ toMiner # <<>> => toMiner'[1] = toMiner[1]
         /\ toMiner = <<>> => toMiner'[1].msg = m
         /\ m.type # "notify" /\ (\A i \in 1 .. Len(toMiner) : Quiet(toMiner[i])) =>
              \A i \in 1 .. Len(toMiner') : Quiet(toMiner'[i])
         /\ rx' \o toMiner' = (rx \o toMiner) \o Whole(m)
  <1>. DEFINE w == Whole(m)
  <1>1. w \in Seq(Fragment) /\ Len(w) = 1 /\ w[1].msg = m
    BY WholeType DEF Whole, WholeMessages
  <1>2. toMiner \in Seq(Fragment) /\ Len(toMiner) \in Nat /\ toMiner' = toMiner \o w
    BY StreamTypes DEF PoolSends
  <1>. HIDE DEF w
  <1>3. /\ Len(toMiner') = Len(toMiner) + 1
        /\ \A i \in 1 .. Len(toMiner) : toMiner'[i] = toMiner[i]
        /\ toMiner'[Len(toMiner) + 1] = w[1]
    <2>1. /\ Len(toMiner \o w) = Len(toMiner) + Len(w)
          /\ \A i \in 1 .. Len(toMiner) + Len(w) :
               (toMiner \o w)[i] = IF i <= Len(toMiner) THEN toMiner[i] ELSE w[i - Len(toMiner)]
      BY <1>1, <1>2, ConcatProperties
    <2>2. Len(toMiner) + 1 - Len(toMiner) = 1 /\ ~(Len(toMiner) + 1 <= Len(toMiner))
      BY <1>2
    <2>3. \A i \in 1 .. Len(toMiner) : i \in 1 .. Len(toMiner) + Len(w) /\ i <= Len(toMiner)
      BY <1>1, <1>2
    <2>4. Len(toMiner) + 1 \in 1 .. Len(toMiner) + Len(w)
      BY <1>1, <1>2
    <2>. QED
      BY <1>1, <1>2, <2>1, <2>2, <2>3, <2>4
  <1>4. toMiner' # <<>>
    BY <1>2, <1>3, EmptySeq
  <1>5. toMiner # <<>> => 1 \in 1 .. Len(toMiner)
    BY <1>2, EmptySeq
  <1>6. toMiner = <<>> => Len(toMiner) = 0
    BY EmptySeq
  <1>7. ASSUME m.type # "notify", \A i \in 1 .. Len(toMiner) : Quiet(toMiner[i]),
               NEW i \in 1 .. Len(toMiner')
        PROVE  Quiet(toMiner'[i])
    <2>1. i \in 1 .. Len(toMiner) \/ i = Len(toMiner) + 1
      BY <1>2, <1>3
    <2>. QED
      BY <1>1, <1>3, <1>7, <2>1 DEF Quiet
  <1>8. rx' \o toMiner' = (rx \o toMiner) \o w
    <2>1. (rx \o toMiner) \o w = rx \o (toMiner \o w)
      BY <1>1, StreamTypes, ConcatAssociative
    <2>. QED
      BY <1>2, <2>1
  <1>. QED
    BY <1>1, <1>3, <1>4, <1>5, <1>6, <1>7, <1>8 DEF w

\* A message that is no announcement changes nothing of the invariant.
LEMMA QuietSend ==
  ASSUME WholeMessages, EngineInv, StreamInv, NEW m \in Message, PoolSends(m), m.type # "notify",
         UNCHANGED <<pc, rx, job, sent, peer, latest>>,
         oks'["authorize"] = 0 => oks["authorize"] = 0
  PROVE  LatestInv' /\ (oks'["authorize"] = 0 => \A i \in 1 .. Len(toMiner') : Quiet(toMiner'[i]))
         /\ (pc' = "authorizeReply" => toMiner' # <<>> /\ Quiet(toMiner'[1]))
  <1>1. LatestInv'
    BY PoolSendsStream, SendLeads, StreamTypes DEF StreamInv, LatestInv, Listening
  <1>2. oks'["authorize"] = 0 => \A i \in 1 .. Len(toMiner') : Quiet(toMiner'[i])
    BY PoolSendsStream DEF StreamInv, StartInv
  <1>3. pc' = "authorizeReply" => toMiner' # <<>> /\ Quiet(toMiner'[1])
    BY PoolSendsStream DEF StreamInv, StartInv, Quiet, PoolSends
  <1>. QED
    BY <1>1, <1>2, <1>3

LEMMA EnvironmentStream ==
  ASSUME WholeMessages, EngineInv, StreamInv, Environment
  PROVE  StreamInv'
  <1>1. UNCHANGED <<pc, rx, job, sent>>
    BY DEF Environment, engineVars, PoolAnswersEither, PoolAnswers, PoolNotifies,
           PoolSetsDifficulty, PoolCloses, ConnectionReset, clientVars
  <1>2. BufferInv'
    BY <1>1 DEF StreamInv, BufferInv
  <1>3. ASSUME NEW ok \in BOOLEAN, PoolAnswers(ok) PROVE StreamInv'
    <2>. DEFINE m == [type |-> "answer", to |-> Head(toPool), ok |-> ok]
    <2>1. toPool \in Seq(Request) /\ toPool # <<>> /\ UNCHANGED <<peer, latest>>
      BY <1>3, StreamTypes DEF PoolAnswers
    <2>2. /\ Head(toPool) \in Request /\ Head(toPool) = toPool[1]
          /\ Len(Tail(toPool)) = Len(toPool) - 1 /\ 1 \in 1 .. Len(toPool)
          /\ \A i \in 1 .. Len(Tail(toPool)) : Tail(toPool)[i] = toPool[i + 1]
      BY <2>1, HeadTailProperties, EmptySeq
    <2>3. m \in Message /\ PoolSends(m) /\ m.type # "notify"
      BY <1>3, <2>2 DEF PoolAnswers, Message
    <2>4. Head(toPool).type \in RequestType
      BY <2>2 DEF Request, Share, RequestType
    <2>5. /\ oks'["authorize"] = 0 => oks["authorize"] = 0
          /\ Head(toPool).type # "authorize" => oks'["authorize"] = oks["authorize"]
      BY <1>3, <2>4, StreamTypes DEF PoolAnswers, EngineInv, LinkTypes, RequestType
    <2>6. /\ LatestInv'
          /\ oks'["authorize"] = 0 => \A i \in 1 .. Len(toMiner') : Quiet(toMiner'[i])
          /\ pc' = "authorizeReply" => toMiner' # <<>> /\ Quiet(toMiner'[1])
      BY <1>1, <2>1, <2>3, <2>5, QuietSend
    <2>7. pc' \in {"connect", "subscribe", "subscribeReply", "authorize"} =>
            /\ oks'["authorize"] = 0
            /\ \A i \in 1 .. Len(toPool') : toPool'[i].type # "authorize"
      <3>1. Len(toPool) \in Nat /\ toPool' = Tail(toPool)
        BY <1>3, <2>1 DEF PoolAnswers
      <3>. QED
        BY <1>1, <2>2, <2>5, <3>1 DEF StreamInv, StartInv
    <2>8. pc' # "connect"
      BY <1>1, <1>3 DEF StreamInv, StartInv, PoolAnswers, PoolSends
    <2>. QED
      BY <1>2, <2>6, <2>7, <2>8 DEF StreamInv, StartInv
  <1>4. ASSUME NEW j \in Job, PoolNotifies(j) PROVE StreamInv'
    <2>. DEFINE m == [type |-> "notify", job |-> j]
    <2>1. m \in Message /\ PoolSends(m) /\ m.type = "notify" /\ m.job = j
      BY <1>4 DEF PoolNotifies, Message
    <2>2. oks["authorize"] > 0 /\ oks' = oks /\ latest' = j /\ UNCHANGED <<peer, toPool>>
      BY <1>4 DEF PoolNotifies, MayPush, WholeMessages
    <2>3. LatestInv'
      BY <1>1, <2>1, <2>2, PoolSendsStream, SendLeads, StreamTypes
      DEF StreamInv, LatestInv, Listening
    <2>4. oks'["authorize"] # 0
      BY <2>2, StreamTypes
    <2>5. pc \notin {"connect", "subscribe", "subscribeReply", "authorize"}
      BY <2>2, <2>4 DEF StreamInv, StartInv
    <2>6. pc' = "authorizeReply" => toMiner' # <<>> /\ Quiet(toMiner'[1])
      BY <1>1, <2>1, <2>2, <2>4, PoolSendsStream DEF StreamInv, StartInv, PoolSends
    <2>. QED
      BY <1>1, <1>2, <2>3, <2>4, <2>5, <2>6 DEF StreamInv, StartInv
  <1>5. ASSUME NEW d \in Difficulty, PoolSetsDifficulty(d) PROVE StreamInv'
    <2>. DEFINE m == [type |-> "difficulty", value |-> d]
    <2>1. m \in Message /\ PoolSends(m) /\ m.type # "notify"
      BY <1>5 DEF PoolSetsDifficulty, Message
    <2>2. UNCHANGED <<peer, toPool, latest, oks>> /\ peer = "open"
      BY <1>5 DEF PoolSetsDifficulty, PoolSends
    <2>3. /\ LatestInv'
          /\ oks'["authorize"] = 0 => \A i \in 1 .. Len(toMiner') : Quiet(toMiner'[i])
          /\ pc' = "authorizeReply" => toMiner' # <<>> /\ Quiet(toMiner'[1])
      BY <1>1, <2>1, <2>2, QuietSend
    <2>. QED
      BY <1>1, <1>2, <2>2, <2>3 DEF StreamInv, StartInv
  <1>6. CASE PoolCloses
    <2>1. /\ peer' = "fin" /\ peer = "open" /\ toPool' = <<>>
          /\ UNCHANGED <<toMiner, oks>>
      BY <1>6 DEF PoolCloses, poolVars
    <2>2. Len(toPool') = 0
      BY <2>1, EmptySeq
    <2>. QED
      BY <1>1, <1>2, <2>1, <2>2 DEF StreamInv, StartInv, LatestInv, Listening
  <1>7. CASE ConnectionReset
    <2>1. PICK n \in 0 .. Len(toMiner) : toMiner' = SubSeq(toMiner, 1, n)
      BY <1>7 DEF ConnectionReset
    <2>2. n \in Nat /\ Len(toMiner) \in Nat /\ \A i \in 1 .. n : toMiner[i] \in Fragment
      BY StreamTypes
    <2>3. Len(toMiner') = n /\ \A i \in 1 .. n : toMiner'[i] = toMiner[i]
      BY <2>1, <2>2, SubSeqProperties
    <2>4. (\A i \in 1 .. Len(toMiner) : Quiet(toMiner[i])) =>
             \A i \in 1 .. Len(toMiner') : Quiet(toMiner'[i])
      BY <2>2, <2>3
    <2>5. /\ peer' = "rst" /\ peer = "open" /\ toPool' = <<>> /\ UNCHANGED oks
      BY <1>7 DEF ConnectionReset, poolVars
    <2>6. Len(toPool') = 0
      BY <2>5, EmptySeq
    <2>. QED
      BY <1>1, <1>2, <2>4, <2>5, <2>6 DEF StreamInv, StartInv, LatestInv, Listening
  <1>. QED
    BY <1>3, <1>4, <1>5, <1>6, <1>7 DEF Environment, PoolAnswersEither

-----------------------------------------------------------------------------
(* The thread.                                                             *)

\* What recv takes from the front and what it leaves.
LEMMA RecvStream ==
  ASSUME EngineInv, NEW n \in ChunkSize, Recv(n)
  PROVE  /\ n \in 1 .. Len(toMiner) /\ toMiner' = SubSeq(toMiner, n + 1, Len(toMiner))
         /\ toMiner # <<>> /\ Len(Chunk(n)) = n /\ Chunk(n)[1] = toMiner[1]
         /\ (\A i \in 1 .. Len(toMiner) : Quiet(toMiner[i])) =>
              \A i \in 1 .. Len(toMiner') : Quiet(toMiner'[i])
         /\ Chunk(n) \o toMiner' = toMiner
  <1>1. n \in 1 .. Len(toMiner) /\ toMiner' = SubSeq(toMiner, n + 1, Len(toMiner))
    BY DEF ChunkSize, Recv
  <1>2. /\ toMiner \in Seq(Fragment) /\ Len(toMiner) \in Nat /\ n \in Nat /\ n >= 1
        /\ n \in 0 .. Len(toMiner)
    BY <1>1, StreamTypes
  <1>3. toMiner # <<>>
    BY <1>1, <1>2, EmptySeq
  <1>4. /\ Len(toMiner') = Len(toMiner) - n
        /\ \A i \in 1 .. Len(toMiner) - n : toMiner'[i] = toMiner[i + n]
    BY <1>1, <1>2, RestOf
  <1>5. /\ Chunk(n) \in Seq(Fragment) /\ Len(Chunk(n)) = n
        /\ \A i \in 1 .. n : Chunk(n)[i] = toMiner[i]
    <2>1. \A i \in 1 .. n : toMiner[i] \in Fragment
      BY <1>1, <1>2
    <2>2. /\ SubSeq(toMiner, 1, n) \in Seq(Fragment)
          /\ Len(SubSeq(toMiner, 1, n)) = IF 1 <= n THEN n - 1 + 1 ELSE 0
          /\ \A i \in 1 .. n - 1 + 1 : SubSeq(toMiner, 1, n)[i] = toMiner[1 + i - 1]
      BY <1>2, <2>1, SubSeqProperties
    <2>3. n - 1 + 1 = n /\ \A i \in 1 .. n : 1 + i - 1 = i
      BY <1>2
    <2>. QED
      BY <1>2, <2>2, <2>3 DEF Chunk
  <1>6. ASSUME \A i \in 1 .. Len(toMiner) : Quiet(toMiner[i]), NEW i \in 1 .. Len(toMiner')
        PROVE  Quiet(toMiner'[i])
    <2>1. i \in 1 .. Len(toMiner) - n /\ i + n \in 1 .. Len(toMiner)
      BY <1>2, <1>4
    <2>. QED
      BY <1>4, <1>6, <2>1
  <1>7. Chunk(n) \o toMiner' = toMiner
    <2>1. toMiner' \in Seq(Fragment)
      BY <1>1, <1>2, RestOf
    <2>2. /\ Chunk(n) \o toMiner' \in Seq(Fragment)
          /\ Len(Chunk(n) \o toMiner') = Len(toMiner)
          /\ \A i \in 1 .. Len(toMiner) : (Chunk(n) \o toMiner')[i] =
               IF i <= n THEN Chunk(n)[i] ELSE toMiner'[i - n]
      <3>1. n + (Len(toMiner) - n) = Len(toMiner)
        BY <1>2
      <3>. QED
        BY <1>4, <1>5, <2>1, <3>1, ConcatProperties
    <2>3. ASSUME NEW i \in 1 .. Len(Chunk(n) \o toMiner')
          PROVE  (Chunk(n) \o toMiner')[i] = toMiner[i]
      <3>1. CASE i <= n
        BY <1>5, <2>2, <2>3, <3>1
      <3>2. CASE ~(i <= n)
        <4>1. i - n \in 1 .. Len(toMiner) - n /\ i - n + n = i
          BY <1>2, <2>2, <2>3, <3>2
        <4>. QED
          BY <1>4, <2>2, <2>3, <3>2, <4>1
      <3>. QED
        BY <3>1, <3>2
    <2>. QED
      BY <1>2, <2>2, <2>3, SeqEqual
  <1>8. Chunk(n)[1] = toMiner[1]
    BY <1>2, <1>5
  <1>. QED
    BY <1>1, <1>3, <1>5, <1>6, <1>7, <1>8

\* An announcement that has not been made cannot be lost.
LEMMA RecvLeads ==
  ASSUME EngineInv, StreamInv, NEW n \in ChunkSize, Recv(n), rx = <<>>, rx' = rx, Listening,
         \A i \in 1 .. n : Quiet(toMiner[i])
  PROVE  LeadsTo(rx' \o toMiner', job, latest)
  <1>1. rx \o toMiner = toMiner
    BY StreamTypes, ConcatEmptySeq
  <1>2. n \in 0 .. Len(toMiner) /\ toMiner' = SubSeq(toMiner, n + 1, Len(toMiner))
    BY RecvStream, StreamTypes
  <1>3. toMiner' \in Seq(Fragment)
    BY RecvType, StreamTypes
  <1>4. rx' \o toMiner' = toMiner'
    BY <1>3, ConcatEmptySeq
  <1>5. LeadsTo(toMiner', job, latest)
    BY <1>1, <1>2, DropQuiet, StreamTypes DEF StreamInv, LatestInv
  <1>. QED
    BY <1>4, <1>5

\* A chunk that parses is one fragment.
LEMMA ParsesOne ==
  ASSUME WholeMessages, EngineInv, NEW n \in ChunkSize, Recv(n), Parses(Chunk(n))
  PROVE  n = 1
  <1>1. Len(Chunk(n)) = n
    BY RecvStream
  <1>2. Len(Whole(Chunk(n)[1].msg)) = 1
    BY DEF Whole, WholeMessages
  <1>. QED
    BY <1>1, <1>2 DEF Parses

\* initialize: nothing is announced before authorize is answered, and then the
\* answer is the first thing to be read.
LEMMA InitializeStream ==
  ASSUME WholeMessages, EngineInv, StreamInv, Initialize
  PROVE  StreamInv'
  <1>1. UNCHANGED <<job, sent, latest, oks, rx>>
    BY DEF Initialize, ConnectFails, ConnectSucceeds, Connect, Requests, ReplyMissing,
           SubscribeReply, AuthorizeReply, poolVars, clientVars, engineVars
  <1>2. rx = <<>> /\ rx' = <<>>
    BY <1>1 DEF Initialize, ConnectFails, ConnectSucceeds, Requests, ReplyMissing,
                SubscribeReply, AuthorizeReply, StreamInv, BufferInv
  <1>3. CASE ConnectFails
    BY <1>1, <1>2, <1>3
    DEF ConnectFails, StreamInv, BufferInv, StartInv, LatestInv, Listening, linkVars
  <1>4. CASE ConnectSucceeds
    BY <1>1, <1>2, <1>4
    DEF ConnectSucceeds, Connect, StreamInv, BufferInv, StartInv, LatestInv, Listening
  <1>5. ASSUME NEW type, NEW next, Requests(type, next),
               \/ type = "subscribe" /\ next = "subscribeReply"
               \/ type = "authorize" /\ next = "authorizeReply"
        PROVE  StreamInv'
    <2>1. /\ pc = type /\ UNCHANGED <<toMiner, job, sent, latest, oks>>
          /\ pc' \in {next, "exit"}
      BY <1>1, <1>5 DEF Requests, engineVars
    <2>2. pc' = "exit" => peer' = "dead"
      BY <1>5 DEF Requests, SendFails
    <2>3. pc' # "exit" => (peer' = "open" => peer = "open")
      BY <1>5 DEF Requests, Send, SendFails
    <2>4. CASE pc' = "exit"
      BY <1>2, <2>1, <2>4 DEF StreamInv, BufferInv, StartInv, LatestInv, Listening
    <2>5. CASE pc' # "exit"
      <3>1. /\ oks["authorize"] = 0
            /\ \A i \in 1 .. Len(toPool) : toPool[i].type # "authorize"
            /\ \A i \in 1 .. Len(toMiner) : Quiet(toMiner[i])
        BY <1>5, <2>1 DEF StreamInv, StartInv
      <3>2. LatestInv'
        BY <1>1, <2>1, <2>3, <2>5, <1>5 DEF StreamInv, LatestInv, Listening
      <3>3. CASE type = "subscribe"
        <4>1. pc' = "subscribeReply" /\ toPool \in Seq(Request) /\ [type |-> type] \in Request
          BY <1>5, <2>1, <2>5, <3>3, StreamTypes DEF Request
        <4>2. toPool' \in {toPool, Append(toPool, [type |-> type])}
          BY <1>5, <2>2, <2>5 DEF Requests, Send, SendFails
        <4>3. \A i \in 1 .. Len(toPool') : toPool'[i].type # "authorize"
          BY <3>1, <3>3, <4>1, <4>2, AppendProperties
        <4>. QED
          BY <1>1, <1>2, <2>1, <3>1, <3>2, <4>1, <4>3 DEF StreamInv, BufferInv, StartInv
      <3>4. CASE type = "authorize"
        <4>1. pc' = "authorizeReply"
          BY <1>5, <2>1, <2>5, <3>4
        <4>2. toMiner # <<>> => Quiet(toMiner[1])
          BY <3>1, StreamTypes, EmptySeq
        <4>. QED
          BY <1>1, <1>2, <2>1, <3>1, <3>2, <4>1, <4>2 DEF StreamInv, BufferInv, StartInv
      <3>. QED
        BY <1>5, <3>3, <3>4
    <2>. QED
      BY <2>4, <2>5
  <1>6. CASE ReplyMissing
    <2>1. pc' = "exit" /\ toMiner' = toMiner
      BY <1>6 DEF ReplyMissing
    <2>. QED
      BY <1>1, <1>2, <2>1 DEF StreamInv, BufferInv, StartInv, LatestInv, Listening
  <1>7. ASSUME NEW n \in ChunkSize, SubscribeReply(n) PROVE StreamInv'
    <2>1. pc = "subscribeReply" /\ Recv(n) /\ pc' \in {"authorize", "exit"}
          /\ UNCHANGED <<peer, toPool>>
      BY <1>7 DEF SubscribeReply
    <2>2. /\ oks["authorize"] = 0 /\ \A i \in 1 .. Len(toMiner) : Quiet(toMiner[i])
          /\ \A i \in 1 .. Len(toPool) : toPool[i].type # "authorize"
      BY <2>1 DEF StreamInv, StartInv
    <2>3. n \in 1 .. Len(toMiner) /\ \A i \in 1 .. Len(toMiner') : Quiet(toMiner'[i])
      BY <2>1, <2>2, RecvStream
    <2>4. \A i \in 1 .. n : Quiet(toMiner[i])
      BY <2>2, <2>3, StreamTypes
    <2>5. LatestInv'
      <3>1. Listening' => Listening
        BY <1>1, <2>1 DEF Listening
      <3>. QED
        BY <1>1, <1>2, <2>1, <2>4, <3>1, RecvLeads DEF LatestInv
    <2>. QED
      BY <1>1, <1>2, <2>1, <2>2, <2>3, <2>5 DEF StreamInv, BufferInv, StartInv
  <1>8. ASSUME NEW n \in ChunkSize, AuthorizeReply(n) PROVE StreamInv'
    <2>1. pc = "authorizeReply" /\ Recv(n) /\ pc' \in {"loop", "exit"} /\ peer' = peer
      BY <1>8 DEF AuthorizeReply
    <2>2. oks'["authorize"] = 0 => \A i \in 1 .. Len(toMiner') : Quiet(toMiner'[i])
      BY <1>1, <2>1, RecvStream DEF StreamInv, StartInv
    <2>3. LatestInv'
      <3>. SUFFICES ASSUME Listening' PROVE LeadsTo(rx' \o toMiner', job, latest)
        BY <1>1 DEF LatestInv
      <3>1. Listening /\ peer = "open" /\ pc' = "loop"
        BY <1>1, <2>1 DEF Listening
      <3>2. Quiet(toMiner[1]) /\ Chunk(n)[1] = toMiner[1]
        BY <2>1, <3>1, RecvStream DEF StreamInv, StartInv
      <3>3. Parses(Chunk(n))
        BY <1>8, <3>1 DEF AuthorizeReply, Announces, Grants
      <3>4. n = 1
        BY <2>1, <3>3, ParsesOne
      <3>5. \A i \in 1 .. n : Quiet(toMiner[i])
        BY <3>2, <3>4
      <3>. QED
        BY <1>1, <1>2, <2>1, <3>1, <3>5, RecvLeads
    <2>. QED
      BY <1>2, <2>1, <2>2, <2>3 DEF StreamInv, BufferInv, StartInv
  <1>9. CASE \/ Requests("subscribe", "subscribeReply")
             \/ Requests("authorize", "authorizeReply")
    <2>1. CASE Requests("subscribe", "subscribeReply")
      BY <1>5, <2>1
    <2>2. CASE Requests("authorize", "authorizeReply")
      BY <1>5, <2>2
    <2>. QED
      BY <1>9, <2>1, <2>2
  <1>. QED
    BY <1>3, <1>4, <1>6, <1>7, <1>8, <1>9 DEF Initialize

\* A step that reads nothing and sends nothing, and starts or ends no parsing.
LEMMA UnreadStream ==
  ASSUME EngineInv, StreamInv, UNCHANGED <<toMiner, rx, job, latest, oks>>,
         ~Starting, ~Starting',
         pc \in {"parse", "exit", "done", "killed"} => pc' \in {"parse", "exit", "done", "killed"},
         pc' = "submitReply" => sent' # <<>>,
         Listening' => Listening
  PROVE  StreamInv'
  BY DEF StreamInv, BufferInv, StartInv, LatestInv, Starting

\* The parser takes the fragments of its buffer one by one; an announcement becomes
\* the engine's job.
LEMMA ParseStream ==
  ASSUME WholeMessages, EngineInv, StreamInv, ParseAnswer \/ ParseDifficulty \/ ParseNotify
  PROVE  StreamInv'
  <1>. DEFINE both == rx \o toMiner
  <1>1. /\ pc = "parse" /\ pc' \in {"parse", "exit"} /\ rx # <<>> /\ rx' = AfterObject
        /\ UNCHANGED <<toMiner, peer, sent, latest, oks>>
    BY DEF ParseAnswer, ParseDifficulty, ParseNotify, PreparesDag, ParsesNext, linkVars,
           poolVars, engineVars
  <1>2. /\ both \in Seq(Fragment) /\ both # <<>> /\ both[1] = rx[1]
        /\ rx' \o toMiner' = SubSeq(both, 2, Len(both))
    <2>1. Pieces + 1 = 2
      BY DEF WholeMessages
    <2>2. rx' = SubSeq(rx, 2, Len(rx))
      BY <1>1, <2>1 DEF AfterObject
    <2>. QED
      BY <1>1, <2>2, RestOfBoth, StreamTypes
  <1>3. IF Quiet(rx[1]) THEN job' = job ELSE job' = rx[1].msg.job
    BY DEF ParseAnswer, ParseDifficulty, ParseNotify, Quiet, engineVars
  <1>. HIDE DEF both
  <1>4. LatestInv'
    <2>. SUFFICES ASSUME Listening' PROVE LeadsTo(rx' \o toMiner', job', latest')
      BY DEF LatestInv
    <2>1. LeadsTo(both, job, latest)
      BY <1>1 DEF Listening, StreamInv, LatestInv, both
    <2>2. CASE Quiet(rx[1])
      <3>1. 1 \in 0 .. Len(both) /\ \A i \in 1 .. 1 : Quiet(both[i])
        BY <1>2, <2>2, EmptySeq
      <3>2. LeadsTo(SubSeq(both, 1 + 1, Len(both)), job, latest)
        BY <1>2, <2>1, <3>1, DropQuiet
      <3>. QED
        BY <1>1, <1>2, <1>3, <2>2, <3>2
    <2>3. CASE ~Quiet(rx[1])
      BY <1>1, <1>2, <1>3, <2>1, <2>3, TakeOver
    <2>. QED
      BY <2>2, <2>3
  <1>. QED
    BY <1>1, <1>4 DEF StreamInv, BufferInv, StartInv

\* recv moves the front of the stream to the buffer, which is empty before, and the
\* parser returns with an empty buffer.
LEMMA PollStream ==
  ASSUME WholeMessages, EngineInv, StreamInv,
         (\E n \in ChunkSize : PollReceives(n)) \/ PollReceivesNothing \/ ParseSkips
  PROVE  StreamInv'
  <1>1. ASSUME NEW n \in ChunkSize, PollReceives(n) PROVE StreamInv'
    <2>1. /\ pc = "poll" /\ pc' = "parse" /\ Recv(n) /\ rx' = Chunk(n)
          /\ UNCHANGED <<peer, job, sent, latest, oks>>
      BY <1>1 DEF PollReceives, poolVars, engineVars
    <2>2. rx = <<>>
      BY <2>1 DEF StreamInv, BufferInv
    <2>3. rx' \o toMiner' = rx \o toMiner
      BY <2>1, <2>2, RecvStream, StreamTypes, ConcatEmptySeq
    <2>4. LatestInv'
      BY <2>1, <2>3 DEF StreamInv, LatestInv, Listening
    <2>5. oks'["authorize"] = 0 => \A i \in 1 .. Len(toMiner') : Quiet(toMiner'[i])
      BY <2>1, RecvStream DEF StreamInv, StartInv
    <2>. QED
      BY <2>1, <2>4, <2>5 DEF StreamInv, BufferInv, StartInv
  <1>2. CASE PollReceivesNothing
    <2>1. /\ pc = "poll" /\ pc' = "work"
          /\ UNCHANGED <<toMiner, rx, job, sent, latest, oks>>
      BY <1>2 DEF PollReceivesNothing, poolVars, engineVars
    <2>2. peer' = peer \/ peer' = "dead"
      BY <1>2 DEF PollReceivesNothing, RecvError
    <2>. QED
      BY <2>1, <2>2, UnreadStream DEF Starting, Listening
  <1>3. CASE ParseSkips
    <2>1. rx # <<>> => rx[1].part = 1 /\ Len(rx) >= 1
      <3>1. ASSUME rx # <<>> PROVE rx[1] \in Fragment /\ Len(rx) >= 1
        BY <3>1, StreamTypes, EmptySeq
      <3>. QED
        BY <3>1 DEF Fragment, WholeMessages
    <2>2. /\ pc = "parse" /\ pc' = "work" /\ rx = <<>> /\ rx' = <<>>
          /\ UNCHANGED <<toMiner, peer, job, sent, latest, oks>>
      BY <1>3, <2>1, StreamTypes
      DEF ParseSkips, SkipsTail, DropsHead, WholeMessages, linkVars, poolVars, engineVars
    <2>. QED
      BY <2>2 DEF StreamInv, BufferInv, StartInv, LatestInv, Listening
  <1>. QED
    BY <1>1, <1>2, <1>3

\* Mining reads only when it awaits the answer to a share.
LEMMA MineStream ==
  ASSUME EngineInv, StreamInv, MineAndSubmit
  PROVE  StreamInv'
  <1>1. UNCHANGED <<rx, job, latest, oks>> /\ ~Starting /\ ~Starting'
        /\ pc \in {"work", "search", "submit", "submitReply"}
        /\ (peer' = "open" => peer = "open")
    BY DEF MineAndSubmit, Waits, TakesSnapshot, Search, SearchThrows, SubmitSends, SubmitFails,
           SubmitKills, SubmitReply, SubmitUnanswered, Verdict, Send, SendFails, RecvEof,
           RecvError, Starting, linkVars, poolVars, clientVars, engineVars
  <1>2. CASE Waits \/ TakesSnapshot \/ Search \/ SearchThrows \/ SubmitKills
    <2>1. toMiner' = toMiner /\ sent' = sent /\ pc' # "submitReply"
      BY <1>2 DEF Waits, TakesSnapshot, Search, SearchThrows, SubmitKills, linkVars, engineVars
    <2>2. Listening' => Listening
      BY <1>1, <2>1 DEF Listening, Starting
    <2>. QED
      BY <1>1, <2>1, <2>2, UnreadStream
  <1>3. ASSUME NEW nonce \in batch, SubmitSends(nonce) PROVE StreamInv'
    <2>1. toMiner' = toMiner /\ sent' = Append(sent, ShareFor(nonce))
      BY <1>3 DEF SubmitSends
    <2>2. sent' # <<>>
      <3>1. sent \in Seq(Share) /\ sent' \in Seq(Share)
        BY <1>3, SubmitSendsInv DEF EngineInv, EngineTypes
      <3>2. Len(sent') = Len(sent) + 1 /\ Len(sent) \in Nat
        BY <2>1, <3>1
      <3>. QED
        BY <3>1, <3>2, EmptySeq
    <2>. QED
      BY <1>1, <2>1, <2>2, UnreadStream DEF Listening
  <1>4. ASSUME NEW nonce \in batch, SubmitFails(nonce) PROVE StreamInv'
    <2>1. toMiner' = toMiner /\ sent' = sent /\ pc' # "submitReply"
      BY <1>4 DEF SubmitFails, Verdict
    <2>2. Listening' => Listening
      BY <1>1, <2>1 DEF Listening, Starting
    <2>. QED
      BY <1>1, <2>1, <2>2, UnreadStream
  <1>5. CASE SubmitUnanswered
    <2>1. toMiner' = toMiner /\ sent' = sent /\ pc' # "submitReply"
      BY <1>5 DEF SubmitUnanswered, Verdict
    <2>2. Listening' => Listening
      BY <1>1, <2>1 DEF Listening, Starting
    <2>. QED
      BY <1>1, <2>1, <2>2, UnreadStream
  <1>6. ASSUME NEW n \in ChunkSize, SubmitReply(n) PROVE StreamInv'
    <2>1. pc = "submitReply" /\ pc' \in {"loop", "submit"} /\ Recv(n) /\ sent' = sent
      BY <1>6 DEF SubmitReply, Verdict
    <2>2. ~Listening'
      BY <2>1 DEF StreamInv, BufferInv, Listening
    <2>3. oks'["authorize"] = 0 => \A i \in 1 .. Len(toMiner') : Quiet(toMiner'[i])
      BY <1>1, <2>1, RecvStream DEF StreamInv, StartInv
    <2>4. rx' = <<>>
      BY <1>1, <2>1 DEF StreamInv, BufferInv
    <2>. QED
      BY <2>1, <2>2, <2>3, <2>4 DEF StreamInv, BufferInv, StartInv, LatestInv
  <1>. QED
    BY <1>2, <1>3, <1>4, <1>5, <1>6 DEF MineAndSubmit

LEMMA NextStream == WholeMessages /\ EngineInv /\ StreamInv /\ [Next]_vars => StreamInv'
  <1>. SUFFICES ASSUME WholeMessages, EngineInv, StreamInv, [Next]_vars PROVE StreamInv'
    OBVIOUS
  <1>1. CASE Environment
    BY <1>1, EnvironmentStream
  <1>2. CASE Initialize
    BY <1>2, InitializeStream
  <1>3. CASE LoopEnds \/ LoopPolls \/ LoopSkipsPoll \/ RunReturns \/ DestroyEngine
    <2>1. /\ UNCHANGED <<toMiner, peer, rx, job, sent, latest, oks>>
          /\ ~Starting /\ ~Starting' /\ pc' # "submitReply"
          /\ pc \in {"parse", "exit", "done", "killed"} => pc' = "done"
      BY <1>3 DEF LoopEnds, LoopPolls, LoopSkipsPoll, LoopContinues, RunReturns, DestroyEngine,
                  Starting, linkVars, poolVars, clientVars, engineVars
    <2>2. Listening' => Listening
      BY <2>1 DEF Listening, Starting
    <2>. QED
      BY <2>1, <2>2, UnreadStream
  <1>4. CASE ProcessMessages
    BY <1>4, PollStream, ParseStream DEF ProcessMessages
  <1>5. CASE MineAndSubmit
    BY <1>5, MineStream
  <1>6. CASE Signal \/ Terminated \/ UNCHANGED vars
    <2>1. UNCHANGED <<toMiner, toPool, peer, rx, job, sent, latest, oks, pc>>
      BY <1>6 DEF Signal, Terminated, vars, linkVars, poolVars, clientVars, engineVars
    <2>. QED
      BY <2>1 DEF StreamInv, BufferInv, StartInv, LatestInv, Listening
  <1>. QED
    BY <1>1, <1>2, <1>3, <1>4, <1>5, <1>6 DEF Next, Thread

\* As long as no share has been sent: when the miner has read everything the pool has
\* sent, it works on the last job the pool has announced
\* (stratum_client.cpp processMessages; comments at lines 360 and 410).
THEOREM LatestUntilFirstShare ==
  ASSUME WholeMessages
  PROVE  Spec => [](sent = <<>> => WorksOnLatestJob)
  <1>1. EngineInv /\ StreamInv => (sent = <<>> => WorksOnLatestJob)
    <2>. SUFFICES ASSUME EngineInv, StreamInv, sent = <<>>, pc = "work", peer = "open",
                         toMiner = <<>>
                  PROVE  job = latest
      BY DEF WorksOnLatestJob
    <2>1. rx = <<>>
      BY DEF StreamInv, BufferInv
    <2>2. LeadsTo(rx \o toMiner, job, latest)
      BY DEF StreamInv, LatestInv, Listening
    <2>3. rx \o toMiner = <<>>
      BY <2>1, StreamTypes, ConcatEmptySeq
    <2>4. Len(rx \o toMiner) = 0
      BY <2>3, EmptySeq
    <2>. QED
      BY <2>2, <2>4 DEF LeadsTo
  <1>. QED
    BY <1>1, InitStream, NextStream, EngineInvariant, PTL DEF Spec

-----------------------------------------------------------------------------
(* The session.                                                            *)

\* MiningSession counts as this module does.
LEMMA SameCardinality == \A S : Session!Cardinality(S) = Cardinality(S)
  BY DEF Cardinality, Session!Cardinality

\* What the session's variables are made of, but for the wait for an answer.
sessionParts == <<job, batch, sent, shares, oks>>

\* A step that neither begins nor ends the wait for an answer, and changes nothing the
\* session is about, is hidden from it.
LEMMA HiddenStep ==
  ASSUME UNCHANGED sessionParts, pc = "submitReply" <=> pc' = "submitReply"
  PROVE  UNCHANGED Session!sessionVars
  BY DEF sessionParts, Session!sessionVars

\* Nothing is in hand but while solutions are submitted.
LEMMA EmptyHanded ==
  ASSUME EngineInv, pc \notin {"submit", "submitReply", "killed"}
  PROVE  batch = {}
  BY DEF EngineInv, BatchInHand

\* The pool gives an answer, positive or not, or does something else.
LEMMA EnvironmentSession ==
  ASSUME EngineInv, Environment
  PROVE  Session!Answer \/ UNCHANGED Session!sessionVars
  <1>1. UNCHANGED <<pc, job, batch, sent, shares>>
    BY DEF Environment, engineVars
  <1>2. CASE \E ok \in BOOLEAN : PoolAnswers(ok)
    <2>. PICK ok \in BOOLEAN : PoolAnswers(ok)
      BY <1>2
    <2>1. Head(toPool).type \in RequestType /\ oks \in [RequestType -> Nat]
      <3>1. toPool # <<>> /\ toPool \in Seq(Request)
        BY DEF PoolAnswers, EngineInv, LinkTypes
      <3>2. Head(toPool) \in Request
        BY <3>1, HeadTailProperties
      <3>. QED
        BY <3>2 DEF EngineInv, LinkTypes, Request, Share, RequestType
    <2>2. oks' = IF ok THEN [oks EXCEPT ![Head(toPool).type] = @ + 1] ELSE oks
      BY DEF PoolAnswers
    <2>3. \/ oks'["authorize"] + oks'["submit"] = oks["authorize"] + oks["submit"] + 1
          \/ oks'["authorize"] + oks'["submit"] = oks["authorize"] + oks["submit"]
      BY <2>1, <2>2 DEF RequestType
    <2>. QED
      BY <1>1, <2>3 DEF Session!Answer, Session!sessionVars
  <1>3. CASE ~\E ok \in BOOLEAN : PoolAnswers(ok)
    <2>1. UNCHANGED oks
      BY <1>3 DEF Environment, PoolAnswersEither, PoolNotifies, PoolSetsDifficulty, PoolCloses,
                  ConnectionReset, poolVars
    <2>. QED
      BY <1>1, <2>1, HiddenStep DEF sessionParts
  <1>. QED
    BY <1>2, <1>3

\* A job is only taken up when the batch of the last one is settled.
LEMMA ParseNotifySession ==
  ASSUME EngineInv, ParseNotify
  PROVE  \E j \in Job : Session!TakeUp(j)
  <1>1. /\ pc = "parse" /\ pc' \in {"parse", "exit"} /\ job' = rx[1].msg.job
        /\ UNCHANGED <<batch, sent, shares, oks>>
    BY DEF ParseNotify, PreparesDag, linkVars, poolVars
  <1>2. rx[1].msg.job \in Job
    BY ParseType, NotifyCarriesJob DEF EngineInv, LinkTypes, ParseNotify, ParsesNext
  <1>3. batch = {} /\ pc # "submitReply" /\ pc' # "submitReply"
    BY <1>1, EmptyHanded
  <1>4. Session!TakeUp(rx[1].msg.job)
    BY <1>1, <1>3 DEF Session!TakeUp
  <1>. QED
    BY <1>2, <1>4

\* A batch holds the solutions of the job that was taken up.
LEMMA SearchSession ==
  ASSUME EngineInv, Search
  PROVE  Session!SessionNext \/ UNCHANGED Session!sessionVars
  <1>1. /\ pc = "search" /\ pc' \in {"loop", "submit"} /\ batch = {}
        /\ UNCHANGED <<job, sent, shares, oks>>
    BY EmptyHanded DEF Search, poolVars
  <1>2. snapshot = job /\ job \in Job
    BY <1>1 DEF EngineInv, JobInHand
  <1>3. CASE batch' = {}
    BY <1>1, <1>3, HiddenStep DEF sessionParts
  <1>4. CASE batch' # {}
    <2>1. batch' \in SUBSET Hits[job] /\ Cardinality(batch') = Reported(job)
      BY <1>2, <1>4 DEF Search, SearchResult
    <2>2. /\ pc # "submitReply" /\ pc' # "submitReply"
      BY <1>1
    <2>3. Session!Find(batch')
      BY <1>1, <2>1, <2>2, SameCardinality DEF Session!Find, Reported
    <2>. QED
      BY <1>2, <2>1, <2>3 DEF Session!SessionNext
  <1>. QED
    BY <1>3, <1>4

\* A share is one of the job that was taken up, and is sent when the last has been
\* judged.
LEMMA SubmitSendsSession ==
  ASSUME EngineInv, NEW nonce \in batch, SubmitSends(nonce)
  PROVE  Session!Submit(nonce)
  <1>1. /\ pc = "submit" /\ pc' = "submitReply"
        /\ batch' = batch \ {nonce} /\ sent' = Append(sent, ShareFor(nonce))
        /\ UNCHANGED <<job, shares, oks>>
    BY DEF SubmitSends, poolVars
  <1>2. snapshot = job /\ clientJob = job
    BY <1>1 DEF EngineInv, JobInHand
  <1>3. sent' = Append(sent, [type |-> "submit", id |-> job, header |-> job, nonce |-> nonce])
    BY <1>1, <1>2 DEF ShareFor
  <1>. QED
    BY <1>1, <1>3 DEF Session!Submit

LEMMA SubmitFailsSession ==
  ASSUME EngineInv, NEW nonce \in batch, SubmitFails(nonce)
  PROVE  Session!GiveUp(nonce)
  <1>1. /\ pc = "submit" /\ pc' \in {"loop", "submit"}
        /\ batch' = batch \ {nonce} /\ shares' = [shares EXCEPT !["rejected"] = @ + 1]
        /\ UNCHANGED <<job, sent, oks>>
    BY DEF SubmitFails, Verdict, poolVars
  <1>. QED
    BY <1>1 DEF Session!GiveUp

\* An acceptance has been paid for by an answer.
LEMMA VerdictSession ==
  ASSUME EngineInv, AcceptancesAreAnswered',
         (\E n \in ChunkSize : SubmitReply(n)) \/ SubmitUnanswered
  PROVE  \E verdict \in {"accepted", "rejected"} : Session!Judge(verdict)
  <1>1. PICK verdict \in {"accepted", "rejected"} : pc = "submitReply" /\ Verdict(verdict, batch)
    BY DEF SubmitReply, SubmitUnanswered
  <1>2. /\ pc' \in {"loop", "submit"} /\ shares' = [shares EXCEPT ![verdict] = @ + 1]
        /\ UNCHANGED <<job, batch, sent, oks>>
    BY <1>1 DEF Verdict, SubmitReply, SubmitUnanswered, poolVars
  <1>3. verdict = "accepted" => shares.accepted < oks["authorize"] + oks["submit"]
    <2>1. shares \in [{"accepted", "rejected"} -> Nat] /\ oks \in [RequestType -> Nat]
      BY DEF EngineInv, EngineTypes, LinkTypes
    <2>2. shares'.accepted <= oks'["authorize"] + oks'["submit"]
      BY DEF AcceptancesAreAnswered
    <2>. QED
      BY <1>2, <2>1, <2>2 DEF RequestType
  <1>4. Session!Judge(verdict)
    BY <1>1, <1>2, <1>3 DEF Session!Judge
  <1>. QED
    BY <1>4

\* Whatever else the miner does.
LEMMA OtherStepsHidden ==
  ASSUME EngineInv,
         \/ Initialize \/ LoopEnds \/ LoopPolls \/ LoopSkipsPoll
         \/ (ProcessMessages /\ ~ParseNotify)
         \/ Waits \/ TakesSnapshot \/ SearchThrows \/ SubmitKills
         \/ RunReturns \/ DestroyEngine \/ Signal \/ Terminated \/ UNCHANGED vars
  PROVE  UNCHANGED Session!sessionVars
  <1>1. CASE Initialize
    <2>1. UNCHANGED sessionParts /\ pc # "submitReply" /\ pc' # "submitReply"
      BY <1>1 DEF Initialize, ConnectFails, ConnectSucceeds, Connect, Requests, ReplyMissing,
                  SubscribeReply, AuthorizeReply, sessionParts, engineVars, poolVars
    <2>. QED
      BY <2>1, HiddenStep
  <1>2. CASE \/ LoopEnds \/ LoopPolls \/ LoopSkipsPoll \/ Waits \/ TakesSnapshot
             \/ SearchThrows \/ SubmitKills \/ RunReturns \/ DestroyEngine
    <2>1. UNCHANGED sessionParts /\ pc # "submitReply" /\ pc' # "submitReply"
      BY <1>2 DEF LoopEnds, LoopPolls, LoopSkipsPoll, LoopContinues, Waits, TakesSnapshot,
                  SearchThrows, SubmitKills, RunReturns, DestroyEngine, sessionParts,
                  engineVars, poolVars
    <2>. QED
      BY <2>1, HiddenStep
  <1>3. CASE ProcessMessages /\ ~ParseNotify
    <2>1. UNCHANGED sessionParts /\ pc # "submitReply" /\ pc' # "submitReply"
      BY <1>3 DEF ProcessMessages, PollReceives, PollReceivesNothing, ParseSkips, ParseAnswer,
                  ParseDifficulty, sessionParts, engineVars, poolVars, linkVars
    <2>. QED
      BY <2>1, HiddenStep
  <1>4. CASE Signal \/ Terminated \/ UNCHANGED vars
    <2>1. UNCHANGED sessionParts /\ pc' = pc
      BY <1>4 DEF Signal, Terminated, vars, sessionParts, engineVars, poolVars
    <2>. QED
      BY <2>1, HiddenStep
  <1>. QED
    BY <1>1, <1>2, <1>3, <1>4

LEMMA NextKeepsSession ==
  EngineInv /\ AcceptancesAreAnswered' /\ [Next]_vars
    => [Session!SessionNext]_Session!sessionVars
  <1>. SUFFICES ASSUME EngineInv, AcceptancesAreAnswered', [Next]_vars
                PROVE  Session!SessionNext \/ UNCHANGED Session!sessionVars
    OBVIOUS
  <1>1. CASE Environment
    BY <1>1, EnvironmentSession DEF Session!SessionNext
  <1>2. CASE ParseNotify
    BY <1>2, ParseNotifySession DEF Session!SessionNext
  <1>3. CASE Search
    BY <1>3, SearchSession
  <1>4. ASSUME NEW nonce \in batch, SubmitSends(nonce) \/ SubmitFails(nonce)
        PROVE  Session!SessionNext
    BY <1>4, SubmitSendsSession, SubmitFailsSession DEF Session!SessionNext
  <1>5. CASE (\E n \in ChunkSize : SubmitReply(n)) \/ SubmitUnanswered
    BY <1>5, VerdictSession DEF Session!SessionNext
  <1>. QED
    BY <1>1, <1>2, <1>3, <1>4, <1>5, OtherStepsHidden
    DEF Next, Thread, ProcessMessages, MineAndSubmit

\* The engine, with client, network and pool, implements MiningSession
\* (mining_engine.cpp run, processSolutions; stratum_client.cpp submitSolution).
THEOREM KeepsSessionHolds == Spec => KeepsSession
  <1>1. Init => Session!SessionInit
    BY DEF Init, ClientInit, RequestType, Session!SessionInit
  <1>. QED
    BY <1>1, EngineInvariant, AcceptancesAreAnsweredHolds, NextKeepsSession, PTL
    DEF Spec, KeepsSession, Session!SessionSpec
=============================================================================
