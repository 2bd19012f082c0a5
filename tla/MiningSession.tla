---------------------------- MODULE MiningSession -----------------------------
(***************************************************************************)
(* What the miner promises its pool and its user.  It takes up a job, finds *)
(* solutions of it, and settles one after the other, before it takes up    *)
(* another: each is sent as a share of this very job, and judged, or given *)
(* up.  No share is accepted without a positive answer of its own.         *)
(* MiningEngine implements it.                                             *)
(***************************************************************************)
EXTENDS Naturals, Sequences, FiniteSets

CONSTANTS
    Job, NoJob,
    Hits,          \* the solutions of each job
    MaxSolutions   \* the most that are found at a time

VARIABLES
    work,          \* the job taken up
    batch,         \* its solutions that are not settled yet
    sent,          \* the shares sent so far
    pending,       \* whether the last of them is waiting to be judged
    answers,       \* the positive answers the pool has given
    shares         \* the numbers of accepted and rejected solutions

sessionVars == <<work, batch, sent, pending, answers, shares>>

SessionInit ==
    /\ work = NoJob /\ batch = {} /\ sent = <<>> /\ pending = FALSE
    /\ answers = 0
    /\ shares = [accepted |-> 0, rejected |-> 0]

Answer ==
    /\ answers' = answers + 1
    /\ UNCHANGED <<work, batch, sent, pending, shares>>

\* Nothing of the last job is left when the next is taken up.
TakeUp(j) ==
    /\ batch = {} /\ ~pending
    /\ work' = j
    /\ UNCHANGED <<batch, sent, pending, answers, shares>>

\* All solutions of the job if they fit, as many as fit if not.
Find(found) ==
    /\ batch = {} /\ ~pending
    /\ Cardinality(found) = IF Cardinality(Hits[work]) <= MaxSolutions
                            THEN Cardinality(Hits[work]) ELSE MaxSolutions
    /\ batch' = found
    /\ UNCHANGED <<work, sent, pending, answers, shares>>

Submit(nonce) ==
    /\ ~pending /\ pending' = TRUE
    /\ batch' = batch \ {nonce}
    /\ sent' = Append(sent, [type |-> "submit", id |-> work, header |-> work,
                             nonce |-> nonce])
    /\ UNCHANGED <<work, answers, shares>>

\* A solution that cannot be sent any more counts as rejected.
GiveUp(nonce) ==
    /\ ~pending
    /\ batch' = batch \ {nonce}
    /\ shares' = [shares EXCEPT !.rejected = @ + 1]
    /\ UNCHANGED <<work, sent, pending, answers>>

Judge(verdict) ==
    /\ pending /\ pending' = FALSE
    /\ verdict = "accepted" => shares.accepted < answers
    /\ shares' = [shares EXCEPT ![verdict] = @ + 1]
    /\ UNCHANGED <<work, batch, sent, answers>>

SessionNext ==
    \/ Answer
    \/ \E j \in Job : TakeUp(j)
    \/ work \in Job /\ \E found \in SUBSET Hits[work] : Find(found)
    \/ \E nonce \in batch : Submit(nonce) \/ GiveUp(nonce)
    \/ \E verdict \in {"accepted", "rejected"} : Judge(verdict)

SessionSpec == SessionInit /\ [][SessionNext]_sessionVars
===============================================================================
