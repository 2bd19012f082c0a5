--------------------------- MODULE DeviceResources ---------------------------
(***************************************************************************)
(* The CUDA resources of DeviceManager: memory, streams and events, from   *)
(* their creation to the destructor, through every failure of a creation.  *)
(*                                                                         *)
(* A resource is the number of its creation.  A call of CUDA that fails     *)
(* between two creations is the failure of the next one.  The DAG that the *)
(* generator lends is the subject of DagMemory; here it is LentDag.        *)
(***************************************************************************)
EXTENDS Integers, FiniteSets

CONSTANTS
    Members,       \* streams and events that are members of Impl (8)
    PipelineSize,  \* what PipelineManager creates, 14 for each stream
    SearchSize,    \* what searchSync creates and releases (7)
    StateSize,     \* what is created for one of several GPUs (14)
    Forgotten,     \* those of them DeviceState::cleanup does not release
    Gpu,           \* device ids for several GPUs
    MaxCalls       \* bound: calls made of one DeviceManager

ASSUME ResourceAssumption ==
    /\ {Members, PipelineSize, SearchSize, StateSize} \subseteq Nat \ {0}
    /\ Forgotten \subseteq 1 .. StateSize
    /\ MaxCalls \in Nat

VARIABLES
    made,          \* number of resources created so far
    live,          \* those that exist
    member,        \* stream_compute_ .. resultsDoneEvent_, in order of creation
    dag,           \* d_dag_
    pipeline,      \* the resources of pipelineManager_, {} until initialized_
    states,        \* deviceStates_: the resources of each entry
    host,          \* "ready", "thrown" or, after the destructor, "gone"
    several,       \* history: a call for several GPUs was made
    threw,         \* history: a call threw
    inits,         \* history: successful calls of initDevice(ZeroCopy)
    replacedDags,  \* history: DAGs of its own that d_dag_ no longer points to
    calls          \* number of calls

vars == <<made, live, member, dag, pipeline, states, host, several, threw, inits,
          replacedDags, calls>>
historyVars == <<several, threw, inits, replacedDags>>

Null == 0
LentDag == -1
Member == 1 .. Members

Init ==
    /\ made = 0 /\ live = {}
    /\ member = [m \in Member |-> Null]
    /\ dag = Null
    /\ pipeline = {}
    /\ states = [g \in Gpu |-> {}]
    /\ host = "ready"
    /\ several = FALSE /\ threw = FALSE
    /\ inits = 0 /\ replacedDags = 0 /\ calls = 0

New(n) == made + 1 .. made + n
Called == host = "ready" /\ calls < MaxCalls /\ calls' = calls + 1

-----------------------------------------------------------------------------
(* One GPU.                                                                *)

\* Faulty variant: the pipeline is built anew at every call.
PipelineAlways == PipelineSize

\* What pipelineManager_.initialize will create: nothing the second time.
PipelineMissing == IF pipeline = {} THEN PipelineSize ELSE 0

\* initDevice (copies = 1, it allocates the DAG) and initDeviceZeroCopy (0), of which
\* k creations succeed: DAG, pipeline, members.  Unless these are all, it throws.
\* The pipeline keeps what it has created only when it is complete.
InitDevice(copies, k) ==
    LET before == copies + PipelineMissing
        total == before + Members
    IN  /\ Called
        /\ k <= total
        /\ made' = made + k
        /\ live' = live \cup New(k)
        /\ dag' \in (IF k > 0 THEN {} ELSE {dag})
                     \cup (IF copies = 0 THEN {LentDag} ELSE IF k > 0 THEN {made + 1} ELSE {})
        /\ replacedDags' = replacedDags + (IF dag' # dag /\ dag > 0 THEN 1 ELSE 0)
        /\ pipeline' = IF k >= before
                       THEN pipeline \cup (made + copies + 1 .. made + before)
                       ELSE pipeline
        /\ member' = [m \in Member |-> IF before + m <= k THEN made + before + m
                                                          ELSE member[m]]
        /\ host' = IF k = total THEN "ready" ELSE "thrown"
        /\ inits' = IF k = total THEN inits + 1 ELSE inits
        /\ threw' = (k # total)
        /\ UNCHANGED <<states, several>>

\* Faulty variant: a member event is destroyed instead of the local one.
ReleasesMember(k) == {made + i : i \in 1 .. k - 1} \cup {member[Members]}

\* Faulty variant: the last resource is not released.
ReleasesButLast(k) == {made + i : i \in 1 .. k - 1}

\* The first k of the resources of searchSync.
Releases(k) == {made + i : i \in 1 .. k}

\* searchSync, which creates k resources and, when these are all, releases r.
Search(k, r) ==
    /\ Called
    /\ inits > 0
    /\ r > 0 => k = SearchSize
    /\ made' = made + k
    /\ live' = (live \cup New(k)) \ (IF r > 0 THEN Releases(r) ELSE {})
    /\ host' = IF r = SearchSize THEN "ready" ELSE "thrown"
    /\ threw' = (r # SearchSize)
    /\ UNCHANGED <<member, dag, pipeline, states, several, inits, replacedDags>>

-----------------------------------------------------------------------------
(* Several GPUs.                                                           *)

\* initDeviceWithMultiGpu, or a round of initializeAllDevices, of which k creations
\* succeed.  If these are not all, cleanup is called, and the state is dropped;
\* else the state takes the place of an older one, which is dropped without cleanup.
AddDevice(g, k) ==
    /\ Called
    /\ made' = made + k
    /\ IF k = StateSize
       THEN live' = live \cup New(k) /\ states' = [states EXCEPT ![g] = New(k)]
       ELSE live' = live \cup {made + i : i \in Forgotten \cap 1 .. k} /\ UNCHANGED states
    /\ several' = TRUE
    /\ UNCHANGED <<member, dag, pipeline, host, threw, inits, replacedDags>>

-----------------------------------------------------------------------------
(* The end.                                                                *)

\* Faulty variant: the pipeline is left to its own destructor, which does nothing.
CleanedUpMembers == {member[m] : m \in Member} \cup {dag}

\* What cleanup releases: pipelineManager_.cleanup does nothing unless complete.
CleanedUp == {member[m] : m \in Member} \cup {dag} \cup pipeline

\* The destructor, also after an exception.  isMultiGpuMode_ is never set: the
\* states are dropped without cleanup.
Destroy ==
    /\ host # "gone"
    /\ host' = "gone"
    /\ live' = live \ CleanedUp
    /\ member' = [m \in Member |-> Null] /\ dag' = Null /\ pipeline' = {}
    /\ states' = [g \in Gpu |-> {}]
    /\ UNCHANGED <<made, historyVars, calls>>

Gone == host = "gone" /\ UNCHANGED vars

Next ==
    \/ \E copies \in 0 .. 1, k \in 0 .. 1 + PipelineSize + Members : InitDevice(copies, k)
    \/ \E k, r \in 0 .. SearchSize : Search(k, r)
    \/ \E g \in Gpu, k \in 0 .. StateSize : AddDevice(g, k)
    \/ Destroy
    \/ Gone

Spec == Init /\ [][Next]_vars

-----------------------------------------------------------------------------
(* Properties.                                                             *)

Resource == 1 .. made

TypeOK ==
    /\ made \in Nat
    /\ live \subseteq Resource /\ pipeline \subseteq Resource
    /\ Cardinality(pipeline) \in {0, PipelineSize}
    /\ member \in [Member -> Resource \cup {Null}]
    /\ dag \in Resource \cup {Null, LentDag}
    /\ states \in [Gpu -> SUBSET Resource]
    /\ host \in {"ready", "thrown", "gone"}
    /\ several \in BOOLEAN /\ threw \in BOOLEAN
    /\ inits \in 0 .. MaxCalls /\ replacedDags \in 0 .. MaxCalls /\ calls \in 0 .. MaxCalls

OwnedByOne == ({member[m] : m \in Member} \cup {dag} \cup pipeline) \ {Null, LentDag}
Owned == OwnedByOne \cup UNION {states[g] : g \in Gpu}

\* A handle that is kept can be used and released: it is one of an existing resource,
\* and it is kept only once (device_manager.cu cleanup, pipeline_manager.cpp cleanup).
HandlesAreGood ==
    /\ Owned \subseteq live
    /\ \A m, n \in Member : m # n /\ member[m] = member[n] => member[m] = Null
    /\ \A m \in Member : member[m] \notin pipeline
                         /\ (member[m] = dag => dag = Null)
    /\ dag \notin pipeline
    /\ \A g \in Gpu : states[g] \cap OwnedByOne = {}
    /\ \A g, h \in Gpu : g # h => states[g] \cap states[h] = {}

Lost == live \ Owned

\* As long as nothing has failed and there is one GPU, what is lost are the members
\* of every call of initDevice(ZeroCopy) but the last and the DAGs initDevice had
\* allocated before: neither searches nor the pipeline lose anything
\* (device_manager.cu initDevice, initDeviceZeroCopy, searchSync).
LostByInitOnly ==
    host = "ready" /\ ~several =>
        Cardinality(Lost) = replacedDags + (IF inits > 0 THEN Members * (inits - 1) ELSE 0)

\* A DeviceManager of one GPU that was initialized once and did not throw leaves
\* nothing behind (device_manager.cu cleanup).
CleanWhenUsedOnce ==
    host = "gone" /\ ~threw /\ ~several /\ inits <= 1 => live = {}
=============================================================================
