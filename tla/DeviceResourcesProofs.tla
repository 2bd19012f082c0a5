------------------------ MODULE DeviceResourcesProofs ------------------------
(***************************************************************************)
(* Proofs about DeviceResources, for any numbers of members, resources,    *)
(* GPUs and calls.  A resource is younger than all that were made before   *)
(* it: this keeps the handles apart, whatever fails.                       *)
(***************************************************************************)
EXTENDS DeviceResources, FiniteSetTheorems, TLAPS

\* Everything the destructor will release or that was never made.
Counted == inits <= calls /\ replacedDags <= calls

\* A manager of one GPU, as long as nothing has failed.
Plain == ~threw /\ ~several /\ host # "gone"

PlainInv ==
    /\ host = "ready" => ~threw
    /\ Plain /\ inits = 0 => live = {} /\ pipeline = {} /\ dag = Null
    /\ Plain /\ inits <= 1 => live \subseteq CleanedUp

ResourceInv == /\ TypeOK /\ Counted /\ HandlesAreGood
               /\ PlainInv /\ CleanWhenUsedOnce

LEMMA Sizes ==
  /\ Members \in Nat /\ Members > 0 /\ PipelineSize \in Nat /\ PipelineSize > 0
  /\ SearchSize \in Nat /\ SearchSize > 0 /\ StateSize \in Nat /\ StateSize > 0
  /\ MaxCalls \in Nat
  BY ResourceAssumption

LEMMA InitInv == Init => ResourceInv
  <1>. SUFFICES ASSUME Init PROVE ResourceInv
    OBVIOUS
  <1>1. made = 0 /\ live = {} /\ pipeline = {} /\ dag = 0 /\ Cardinality({}) = 0
        /\ \A m \in Member : member[m] = 0
    BY FS_EmptySet DEF Init, Null
  <1>2. TypeOK
    <2>1. /\ Cardinality(pipeline) \in {0, PipelineSize}
          /\ live \subseteq Resource /\ pipeline \subseteq Resource
          /\ member \in [Member -> Resource \cup {Null}]
          /\ states \in [Gpu -> SUBSET Resource]
      BY <1>1 DEF Init
    <2>2. 0 \in 0 .. MaxCalls /\ inits = 0 /\ replacedDags = 0 /\ calls = 0
      BY Sizes DEF Init
    <2>3. host = "ready" /\ several = FALSE /\ threw = FALSE
      BY DEF Init
    <2>4. made \in Nat /\ dag \in Resource \cup {Null, LentDag}
      BY <1>1 DEF Null
    <2>. QED
      BY <2>1, <2>2, <2>3, <2>4 DEF TypeOK
  <1>3. Counted
    BY DEF Init, Counted
  <1>4. HandlesAreGood
    BY <1>1 DEF Init, HandlesAreGood, Owned, OwnedByOne, Null
  <1>5. PlainInv /\ CleanWhenUsedOnce
    BY <1>1 DEF Init, PlainInv, CleanWhenUsedOnce, Null
  <1>. QED
    BY <1>2, <1>3, <1>4, <1>5 DEF ResourceInv

\* What the manager keeps was made before: it is not among what is made next.
LEMMA OldResources ==
  ASSUME ResourceInv
  PROVE  /\ made \in Nat
         /\ \A r \in live : r \in 1 .. made
         /\ \A r \in pipeline : r \in live
         /\ \A m \in Member : member[m] # Null => member[m] \in live
         /\ dag \notin {Null, LentDag} => dag \in live
         /\ \A g \in Gpu : \A r \in states[g] : r \in live
  <1>1. made \in Nat /\ live \subseteq 1 .. made /\ Owned \subseteq live
    BY DEF ResourceInv, TypeOK, HandlesAreGood, Resource
  <1>2. ASSUME NEW r \in pipeline PROVE r \in Owned
    BY <1>2 DEF Owned, OwnedByOne, ResourceInv, TypeOK, Resource, Null, LentDag
  <1>3. ASSUME NEW m \in Member, member[m] # Null PROVE member[m] \in Owned
    BY <1>3 DEF Owned, OwnedByOne, ResourceInv, TypeOK, Resource, Null, LentDag
  <1>4. dag \notin {Null, LentDag} => dag \in Owned
    BY DEF Owned, OwnedByOne
  <1>5. ASSUME NEW g \in Gpu, NEW r \in states[g] PROVE r \in Owned
    BY DEF Owned
  <1>. QED
    BY <1>1, <1>2, <1>3, <1>4, <1>5

-----------------------------------------------------------------------------
(* The calls.                                                              *)

\* searchSync: whatever it leaves behind is younger than all that is kept.
LEMMA SearchPreserves ==
  ASSUME ResourceInv, NEW k \in 0 .. SearchSize, NEW r \in 0 .. SearchSize, Search(k, r)
  PROVE  ResourceInv'
  <1>1. /\ made' = made + k /\ made \in Nat /\ k \in Nat /\ r \in Nat
        /\ UNCHANGED <<member, dag, pipeline, states, several, inits, replacedDags>>
        /\ calls < MaxCalls /\ calls' = calls + 1 /\ host = "ready"
        /\ host' \in {"ready", "thrown"}
        /\ inits > 0 /\ threw' = (r # SearchSize)
        /\ r > 0 => k = SearchSize
    BY Sizes, OldResources DEF Search, Called
  <1>2. live' = (live \cup New(k)) \ (IF r > 0 THEN Releases(r) ELSE {})
    BY DEF Search
  <1>3. \A x \in New(k) : x \in 1 .. made' /\ x > made
    BY <1>1 DEF New
  <1>4. \A x \in Releases(r) : x > made
    BY <1>1 DEF Releases
  <1>5. live \subseteq live' /\ live' \subseteq 1 .. made'
    BY <1>1, <1>2, <1>3, <1>4, OldResources
  <1>6. TypeOK'
    <2>1. \A x \in 1 .. made : x \in 1 .. made'
      BY <1>1
    <2>2. /\ pipeline \subseteq 1 .. made'
          /\ member \in [Member -> (1 .. made') \cup {Null}]
          /\ dag \in (1 .. made') \cup {Null, LentDag}
          /\ states \in [Gpu -> SUBSET (1 .. made')]
      BY <2>1 DEF ResourceInv, TypeOK, Resource
    <2>3. made' \in Nat /\ calls' \in 0 .. MaxCalls
      BY <1>1, Sizes DEF ResourceInv, TypeOK
    <2>. QED
      BY <1>1, <1>5, <2>2, <2>3 DEF ResourceInv, TypeOK, Resource
  <1>7. Counted'
    BY <1>1 DEF ResourceInv, Counted, TypeOK
  <1>8. HandlesAreGood'
    <2>1. Owned' = Owned /\ OwnedByOne' = OwnedByOne
      BY <1>1 DEF Owned, OwnedByOne, Member
    <2>. QED
      BY <1>1, <1>5, <2>1 DEF ResourceInv, HandlesAreGood, Member
  <1>9. PlainInv' /\ CleanWhenUsedOnce'
    <2>1. CASE r = SearchSize
      <3>1. r > 0 /\ k = SearchSize /\ k = r
        BY <1>1, <2>1, Sizes
      <3>2. New(k) = Releases(r)
        BY <1>1, <3>1 DEF New, Releases
      <3>3. live' = live
        BY <1>2, <1>4, <1>5, <3>1, <3>2, OldResources
      <3>4. Plain' => Plain
        BY <1>1 DEF Plain, ResourceInv, PlainInv
      <3>5. ~threw' /\ host' = "ready"
        BY <1>1, <2>1 DEF Search
      <3>. QED
        BY <1>1, <3>3, <3>4, <3>5
        DEF ResourceInv, PlainInv, CleanWhenUsedOnce, CleanedUp, Plain, Member, TypeOK
    <2>2. CASE r # SearchSize
      <3>1. threw' /\ host' = "thrown"
        BY <1>1, <2>2 DEF Search
      <3>. QED
        BY <3>1 DEF PlainInv, CleanWhenUsedOnce, Plain
    <2>. QED
      BY <2>1, <2>2
  <1>. QED
    BY <1>6, <1>7, <1>8, <1>9 DEF ResourceInv

\* initDeviceWithMultiGpu and initializeAllDevices: a new state's resources are younger
\* than all that is kept, and a failed one keeps nothing.
LEMMA AddDevicePreserves ==
  ASSUME ResourceInv, NEW g \in Gpu, NEW k \in 0 .. StateSize, AddDevice(g, k)
  PROVE  ResourceInv'
  <1>1. /\ made' = made + k /\ made \in Nat /\ k \in Nat /\ several' = TRUE
        /\ UNCHANGED <<member, dag, pipeline, host, threw, inits, replacedDags>>
        /\ calls < MaxCalls /\ calls' = calls + 1 /\ host = "ready"
    BY Sizes, OldResources DEF AddDevice, Called
  <1>2. \A x \in New(k) : x \in 1 .. made' /\ x > made
    BY <1>1 DEF New
  <1>3. live \subseteq live' /\ live' \subseteq live \cup New(k)
    BY <1>1 DEF AddDevice, New
  <1>4. \/ states' = states
        \/ states' = [states EXCEPT ![g] = New(k)] /\ New(k) \subseteq live'
    BY DEF AddDevice
  <1>5. \A h \in Gpu : states'[h] = states[h] \/ (h = g /\ states'[h] = New(k)
                                                     /\ New(k) \subseteq live')
    BY <1>4 DEF ResourceInv, TypeOK
  <1>6. TypeOK'
    <2>1. \A x \in 1 .. made : x \in 1 .. made'
      BY <1>1
    <2>2. /\ live' \subseteq 1 .. made' /\ pipeline \subseteq 1 .. made'
          /\ member \in [Member -> (1 .. made') \cup {Null}]
          /\ dag \in (1 .. made') \cup {Null, LentDag}
          /\ states \in [Gpu -> SUBSET (1 .. made')]
      BY <1>2, <1>3, <2>1 DEF ResourceInv, TypeOK, Resource
    <2>3. states' \in [Gpu -> SUBSET (1 .. made')]
      BY <1>2, <1>4, <2>2
    <2>4. made' \in Nat /\ calls' \in 0 .. MaxCalls
      BY <1>1, Sizes DEF ResourceInv, TypeOK
    <2>. QED
      BY <1>1, <2>2, <2>3, <2>4 DEF ResourceInv, TypeOK, Resource
  <1>7. Counted'
    BY <1>1 DEF ResourceInv, Counted, TypeOK
  <1>8. HandlesAreGood'
    <2>1. OwnedByOne' = OwnedByOne
      BY <1>1 DEF OwnedByOne, Member
    <2>2. Owned' \subseteq live'
      <3>1. ASSUME NEW h \in Gpu, NEW x \in states'[h] PROVE x \in live'
        BY <1>3, <1>5, <3>1, OldResources
      <3>2. OwnedByOne \subseteq live
        BY DEF ResourceInv, HandlesAreGood, Owned
      <3>. QED
        BY <1>3, <2>1, <3>1, <3>2 DEF Owned
    <2>3. ASSUME NEW x \in New(k)
          PROVE  x \notin OwnedByOne /\ \A h \in Gpu : x \notin states[h]
      <3>1. x \notin live
        BY <1>2, <2>3, <1>1, OldResources
      <3>. QED
        BY <3>1, OldResources DEF ResourceInv, HandlesAreGood, Owned
    <2>4. ASSUME NEW h \in Gpu PROVE states'[h] \cap OwnedByOne = {}
      BY <1>5, <2>3, <2>4 DEF ResourceInv, HandlesAreGood
    <2>5. ASSUME NEW h \in Gpu, NEW i \in Gpu, h # i PROVE states'[h] \cap states'[i] = {}
      BY <1>5, <2>3, <2>5 DEF ResourceInv, HandlesAreGood
    <2>. QED
      BY <1>1, <2>1, <2>2, <2>4, <2>5 DEF ResourceInv, HandlesAreGood, Member
  <1>9. PlainInv' /\ CleanWhenUsedOnce'
    BY <1>1 DEF ResourceInv, PlainInv, CleanWhenUsedOnce, Plain
  <1>. QED
    BY <1>6, <1>7, <1>8, <1>9 DEF ResourceInv

\* The destructor releases what the manager of one GPU owns and forgets every handle.
LEMMA DestroyPreserves ==
  ASSUME ResourceInv, Destroy
  PROVE  ResourceInv'
  <1>1. /\ host # "gone" /\ host' = "gone" /\ live' = live \ CleanedUp
        /\ member' = [m \in Member |-> Null] /\ dag' = Null /\ pipeline' = {}
        /\ states' = [g \in Gpu |-> {}]
        /\ UNCHANGED <<made, several, threw, inits, replacedDags, calls>>
    BY DEF Destroy, historyVars
  <1>2. TypeOK'
    <2>1. Cardinality({}) = 0
      BY FS_EmptySet
    <2>. QED
      BY <1>1, <2>1 DEF ResourceInv, TypeOK, Resource
  <1>3. Counted'
    BY <1>1 DEF ResourceInv, Counted
  <1>4. HandlesAreGood'
    <2>1. \A m \in Member : member'[m] = Null
      BY <1>1
    <2>2. OwnedByOne' = {} /\ Owned' = {}
      BY <1>1, <2>1 DEF Owned, OwnedByOne, Member
    <2>. QED
      BY <1>1, <2>1, <2>2 DEF HandlesAreGood, Member
  <1>5. PlainInv' /\ CleanWhenUsedOnce'
    BY <1>1 DEF ResourceInv, PlainInv, CleanWhenUsedOnce, Plain
  <1>. QED
    BY <1>2, <1>3, <1>4, <1>5 DEF ResourceInv

\* initDevice and initDeviceZeroCopy: what is kept of the k resources they made.
LEMMA InitDeviceKeeps ==
  ASSUME ResourceInv, NEW copies \in 0 .. 1, NEW k \in 0 .. 1 + PipelineSize + Members,
         InitDevice(copies, k)
  PROVE  LET before == copies + PipelineMissing
         IN  /\ made' = made + k /\ live' = live \cup New(k)
             /\ \A x \in New(k) : x \in 1 .. made' /\ x > made
             /\ \/ dag' \in {dag, LentDag}
                \/ copies = 1 /\ k > 0 /\ dag' = made + 1 /\ dag' \in New(k)
             /\ \/ pipeline' = pipeline
                \/ /\ pipeline = {} /\ PipelineMissing = PipelineSize
                   /\ pipeline' = made + copies + 1 .. made + before
                   /\ pipeline' \subseteq New(k)
             /\ \A m \in Member :
                   \/ member'[m] = member[m]
                   \/ member'[m] = made + before + m /\ member'[m] \in New(k)
             /\ before \in Nat /\ PipelineMissing \in Nat
  <1>. DEFINE before == copies + PipelineMissing
  <1>1. made \in Nat /\ copies \in Nat /\ k \in Nat
        /\ PipelineMissing \in {0, PipelineSize} /\ PipelineMissing \in Nat /\ before \in Nat
    BY Sizes, OldResources DEF PipelineMissing
  <1>2. made' = made + k /\ live' = live \cup New(k)
    BY DEF InitDevice
  <1>3. \A x \in New(k) : x \in 1 .. made' /\ x > made
    BY <1>1, <1>2 DEF New
  <1>4. \/ dag' \in {dag, LentDag}
        \/ copies = 1 /\ k > 0 /\ dag' = made + 1 /\ dag' \in New(k)
    BY <1>1 DEF InitDevice, New
  <1>5. \/ pipeline' = pipeline
        \/ /\ pipeline = {} /\ PipelineMissing = PipelineSize
           /\ pipeline' = made + copies + 1 .. made + before
           /\ pipeline' \subseteq New(k)
    <2>1. CASE pipeline # {}
      <3>1. PipelineMissing = 0
        BY <2>1 DEF PipelineMissing
      <3>2. made + copies + 1 .. made + before = {}
        BY <1>1, <3>1
      <3>. QED
        BY <3>2 DEF InitDevice
    <2>2. CASE pipeline = {}
      <3>1. PipelineMissing = PipelineSize
        BY <2>2 DEF PipelineMissing
      <3>2. k >= before => made + copies + 1 .. made + before \subseteq New(k)
        BY <1>1 DEF New
      <3>. QED
        BY <2>2, <3>1, <3>2 DEF InitDevice
    <2>. QED
      BY <2>1, <2>2
  <1>6. ASSUME NEW m \in Member
        PROVE  \/ member'[m] = member[m]
               \/ member'[m] = made + before + m /\ member'[m] \in New(k)
    <2>1. m \in Nat /\ m > 0
      BY Sizes DEF Member
    <2>2. member'[m] = IF before + m <= k THEN made + before + m ELSE member[m]
      BY DEF InitDevice
    <2>. QED
      BY <1>1, <2>1, <2>2 DEF New
  <1>. QED
    BY <1>1, <1>2, <1>3, <1>4, <1>5, <1>6

LEMMA InitDevicePreserves ==
  ASSUME ResourceInv, NEW copies \in 0 .. 1, NEW k \in 0 .. 1 + PipelineSize + Members,
         InitDevice(copies, k)
  PROVE  ResourceInv'
  <1>. DEFINE before == copies + PipelineMissing
              total == before + Members
  <1>1. /\ made' = made + k /\ live' = live \cup New(k)
        /\ \A x \in New(k) : x \in 1 .. made' /\ x > made
    BY InitDeviceKeeps
  <1>2. \/ dag' \in {dag, LentDag}
        \/ copies = 1 /\ k > 0 /\ dag' = made + 1 /\ dag' \in New(k)
    BY InitDeviceKeeps
  <1>3. \/ pipeline' = pipeline
        \/ /\ pipeline = {} /\ PipelineMissing = PipelineSize
           /\ pipeline' = made + copies + 1 .. made + before
           /\ pipeline' \subseteq New(k)
    BY InitDeviceKeeps
  <1>4. \A m \in Member : \/ member'[m] = member[m]
                          \/ member'[m] = made + before + m /\ member'[m] \in New(k)
    BY InitDeviceKeeps
  <1>5. /\ made \in Nat /\ copies \in Nat /\ k \in Nat /\ before \in Nat
        /\ PipelineMissing \in Nat
    BY Sizes, OldResources, InitDeviceKeeps
  <1>6. /\ UNCHANGED <<states, several>> /\ host = "ready"
        /\ calls < MaxCalls /\ calls' = calls + 1
        /\ host' = IF k = total THEN "ready" ELSE "thrown"
        /\ inits' = IF k = total THEN inits + 1 ELSE inits
        /\ threw' = (k # total)
        /\ replacedDags' \in {replacedDags, replacedDags + 1}
    <2>1. replacedDags' \in {replacedDags + 1, replacedDags + 0} /\ replacedDags \in Nat
      BY Sizes DEF InitDevice, ResourceInv, TypeOK
    <2>. QED
      BY <2>1 DEF InitDevice, Called
  <1>7. Counted' /\ calls' \in 0 .. MaxCalls
    BY <1>6, Sizes DEF ResourceInv, Counted, TypeOK
  <1>8. inits' \in 0 .. MaxCalls /\ replacedDags' \in 0 .. MaxCalls
    <2>1. inits' \in Nat /\ replacedDags' \in Nat
      BY <1>6, Sizes DEF ResourceInv, TypeOK
    <2>. QED
      BY <1>7, <2>1, Sizes DEF Counted
  <1>9. TypeOK'
    <2>1. \A x \in 1 .. made : x \in 1 .. made'
      BY <1>1, <1>5
    <2>2. live' \subseteq 1 .. made' /\ made' \in Nat
      <3>1. live \subseteq 1 .. made
        BY DEF ResourceInv, TypeOK, Resource
      <3>2. made' \in Nat
        BY <1>1, <1>5
      <3>. QED
        BY <1>1, <2>1, <3>1, <3>2
    <2>3. pipeline' \subseteq 1 .. made'
      BY <1>1, <1>3, <2>1 DEF ResourceInv, TypeOK, Resource
    <2>4. dag' \in (1 .. made') \cup {Null, LentDag}
      BY <1>1, <1>2, <2>1 DEF ResourceInv, TypeOK, Resource
    <2>5. member' \in [Member -> (1 .. made') \cup {Null}]
      <3>1. \A m \in Member : member'[m] \in (1 .. made') \cup {Null}
        BY <1>1, <1>4, <2>1 DEF ResourceInv, TypeOK, Resource
      <3>2. member' = [m \in Member |-> member'[m]]
        BY DEF InitDevice
      <3>. QED
        BY <3>1, <3>2
    <2>6. states' \in [Gpu -> SUBSET (1 .. made')]
      BY <1>6, <2>1 DEF ResourceInv, TypeOK, Resource
    <2>7. Cardinality(pipeline') \in {0, PipelineSize}
      <3>1. CASE pipeline' = pipeline
        BY <3>1 DEF ResourceInv, TypeOK
      <3>2. CASE PipelineMissing = PipelineSize
                 /\ pipeline' = made + copies + 1 .. made + before
        <4>1. Cardinality(made + copies + 1 .. made + before)
                = made + before - (made + copies + 1) + 1
          BY <1>5, <3>2, Sizes, FS_Interval
        <4>. QED
          BY <1>5, <3>2, <4>1, Sizes
      <3>. QED
        BY <1>3, <3>1, <3>2
    <2>8. host' \in {"ready", "thrown", "gone"} /\ several' \in BOOLEAN /\ threw' \in BOOLEAN
      BY <1>6 DEF ResourceInv, TypeOK
    <2>. QED
      BY <1>7, <1>8, <2>2, <2>3, <2>4, <2>5, <2>6, <2>7, <2>8 DEF TypeOK, Resource
  <1>10. ASSUME NEW x \in New(k)
         PROVE  /\ x \in live' /\ x \notin {Null, LentDag} /\ x \notin pipeline /\ x # dag
                /\ \A m \in Member : x # member[m]
                /\ \A g \in Gpu : x \notin states[g]
    <2>1. x \notin live /\ x \in live' /\ x \notin {Null, LentDag}
      BY <1>1, <1>5, <1>10, OldResources DEF Null, LentDag
    <2>. QED
      BY <2>1, OldResources
  <1>11. HandlesAreGood'
    <2>1. ASSUME NEW x \in OwnedByOne' PROVE x \in OwnedByOne \/ x \in New(k)
      <3>1. x \notin {Null, LentDag}
        BY <2>1 DEF OwnedByOne
      <3>2. CASE x = dag'
        BY <1>2, <3>1, <3>2 DEF OwnedByOne
      <3>3. CASE x \in pipeline'
        BY <1>3, <3>1, <3>3 DEF OwnedByOne
      <3>4. CASE \E m \in Member : x = member'[m]
        BY <1>4, <3>1, <3>4 DEF OwnedByOne
      <3>. QED
        BY <2>1, <3>2, <3>3, <3>4 DEF OwnedByOne, Member
    <2>2. Owned' \subseteq live'
      <3>1. OwnedByOne \subseteq live /\ \A g \in Gpu : states[g] \subseteq live
        BY DEF ResourceInv, HandlesAreGood, Owned
      <3>. QED
        BY <1>1, <1>6, <2>1, <3>1 DEF Owned
    <2>3. ASSUME NEW m \in Member, NEW n \in Member, m # n, member'[m] = member'[n]
          PROVE  member'[m] = Null
      <3>1. m \in Nat /\ n \in Nat
        BY Sizes DEF Member
      <3>2. CASE member'[m] = member[m] /\ member'[n] = member[n]
        BY <2>3, <3>2 DEF ResourceInv, HandlesAreGood
      <3>3. CASE member'[m] = made + before + m /\ member'[n] = made + before + n
        <4>1. made + before + m = made + before + n
          BY <2>3, <3>3
        <4>2. m = n
          BY <1>5, <3>1, <4>1
        <4>. QED
          BY <2>3, <4>2
      <3>4. CASE member'[m] \in New(k) /\ member'[n] = member[n]
        BY <1>10, <2>3, <3>4
      <3>5. CASE member'[n] \in New(k) /\ member'[m] = member[m]
        BY <1>10, <2>3, <3>5
      <3>. QED
        BY <1>4, <3>2, <3>3, <3>4, <3>5
    <2>4. ASSUME NEW m \in Member PROVE member'[m] \notin pipeline'
      <3>1. m \in Nat /\ m > 0
        BY Sizes DEF Member
      <3>2. CASE member'[m] = member[m] /\ pipeline' = pipeline
        BY <3>2 DEF ResourceInv, HandlesAreGood
      <3>3. CASE member'[m] = member[m] /\ pipeline' \subseteq New(k)
        BY <1>10, <3>3
      <3>4. CASE member'[m] \in New(k) /\ pipeline' = pipeline
        BY <1>10, <3>4
      <3>5. CASE member'[m] = made + before + m
                 /\ pipeline' = made + copies + 1 .. made + before
        BY <1>5, <3>1, <3>5
      <3>. QED
        BY <1>3, <1>4, <3>2, <3>3, <3>4, <3>5
    <2>5. ASSUME NEW m \in Member, member'[m] = dag' PROVE dag' = Null
      <3>1. m \in Nat /\ m > 0
        BY Sizes DEF Member
      <3>2. CASE member'[m] = member[m] /\ dag' = dag
        BY <2>5, <3>2 DEF ResourceInv, HandlesAreGood
      <3>3. CASE dag' = LentDag
        <4>1. LentDag \notin (1 .. made') \cup {Null}
          BY DEF LentDag, Null
        <4>. QED
          BY <1>9, <2>5, <3>3, <4>1 DEF TypeOK, Resource
      <3>4. CASE member'[m] \in New(k) /\ dag' = dag
        BY <1>10, <2>5, <3>4
      <3>5. CASE member'[m] = member[m] /\ dag' \in New(k)
        BY <1>10, <2>5, <3>5
      <3>6. CASE member'[m] = made + before + m /\ copies = 1 /\ dag' = made + 1
        <4>1. made + before + m = made + 1 /\ copies = 1
          BY <2>5, <3>6
        <4>2. before >= 1
          BY <1>5, <4>1
        <4>. QED
          BY <1>5, <3>1, <4>1, <4>2
      <3>. QED
        BY <1>2, <1>4, <3>2, <3>3, <3>4, <3>5, <3>6
    <2>6. dag' \notin pipeline'
      <3>1. CASE dag' = dag /\ pipeline' = pipeline
        BY <3>1 DEF ResourceInv, HandlesAreGood
      <3>2. CASE dag' = LentDag
        BY <1>9, <3>2 DEF TypeOK, Resource, LentDag
      <3>3. CASE dag' = dag /\ pipeline' \subseteq New(k)
        BY <1>10, <3>3
      <3>4. CASE dag' \in New(k) /\ pipeline' = pipeline
        BY <1>10, <3>4
      <3>5. CASE copies = 1 /\ dag' = made + 1
                 /\ pipeline' = made + copies + 1 .. made + before
        BY <1>5, <3>5
      <3>. QED
        BY <1>2, <1>3, <3>1, <3>2, <3>3, <3>4, <3>5
    <2>7. ASSUME NEW g \in Gpu PROVE states'[g] \cap OwnedByOne' = {}
      BY <1>6, <1>10, <2>1 DEF ResourceInv, HandlesAreGood
    <2>. QED
      BY <1>6, <2>2, <2>3, <2>4, <2>5, <2>6, <2>7
      DEF ResourceInv, HandlesAreGood, Member
  <1>12. PlainInv' /\ CleanWhenUsedOnce'
    <2>1. CASE k # total
      BY <1>6, <2>1 DEF PlainInv, CleanWhenUsedOnce, Plain
    <2>2. CASE k = total
      <3>1. inits' = inits + 1 /\ inits \in Nat /\ host' = "ready" /\ threw' = FALSE
        <4>1. inits \in Nat
          BY Sizes DEF ResourceInv, TypeOK
        <4>. QED
          BY <1>6, <2>2, <4>1
      <3>2. ASSUME ~several, inits = 0, NEW x \in New(k) PROVE x \in CleanedUp'
        <4>1. pipeline = {}
          BY <1>6, <3>2 DEF ResourceInv, PlainInv, Plain
        <4>2. PipelineMissing = PipelineSize /\ k > 0 /\ k >= before
          BY <1>5, <2>2, <4>1, Sizes DEF PipelineMissing
        <4>3. x \in Nat /\ x >= made + 1 /\ x <= made + total
          BY <1>5, <2>2, <3>2 DEF New
        <4>4. CASE x <= made + copies
          <5>1. copies = 1 /\ x = made + 1
            BY <1>5, <4>3, <4>4
          <5>2. dag' = made + 1
            BY <4>2, <5>1 DEF InitDevice
          <5>. QED
            BY <5>1, <5>2 DEF CleanedUp
        <4>5. CASE made + copies < x /\ x <= made + before
          <5>1. x \in made + copies + 1 .. made + before
            BY <1>5, <4>3, <4>5
          <5>2. x \in pipeline'
            BY <4>2, <5>1 DEF InitDevice
          <5>. QED
            BY <5>2 DEF CleanedUp
        <4>6. CASE x > made + before
          <5>. DEFINE m == x - (made + before)
          <5>1. m \in Member /\ before + m <= k /\ made + before + m = x
            BY <1>5, <2>2, <4>3, <4>6, Sizes DEF Member
          <5>2. member'[m] = x
            BY <5>1 DEF InitDevice
          <5>. QED
            BY <5>1, <5>2 DEF CleanedUp, Member
        <4>. QED
          BY <1>5, <4>3, <4>4, <4>5, <4>6
      <3>3. ~several /\ inits = 0 => live = {}
        BY <1>6 DEF ResourceInv, PlainInv, Plain
      <3>. QED
        BY <1>1, <1>6, <3>1, <3>2, <3>3 DEF PlainInv, CleanWhenUsedOnce, Plain
    <2>. QED
      BY <2>1, <2>2
  <1>. QED
    BY <1>7, <1>9, <1>11, <1>12 DEF ResourceInv

LEMMA NextInv == ResourceInv /\ [Next]_vars => ResourceInv'
  <1>. SUFFICES ASSUME ResourceInv, [Next]_vars PROVE ResourceInv'
    OBVIOUS
  <1>1. CASE UNCHANGED vars
    BY <1>1 DEF vars, historyVars, ResourceInv, TypeOK, Resource, Counted, HandlesAreGood,
                Owned, OwnedByOne, PlainInv, Plain, CleanWhenUsedOnce, CleanedUp, Member
  <1>. QED
    BY <1>1, InitDevicePreserves, SearchPreserves, AddDevicePreserves, DestroyPreserves
    DEF Next, Gone

LEMMA ResourceInvariant == Spec => []ResourceInv
  BY InitInv, NextInv, PTL DEF Spec

-----------------------------------------------------------------------------
(* What follows.                                                           *)

\* The handles of the manager and the counters keep their types, for any numbers of
\* resources and GPUs (device_manager.cu, pipeline_manager.cpp, device_state.cpp).
THEOREM TypeCorrect == Spec => []TypeOK
  BY ResourceInvariant, PTL DEF ResourceInv

\* Whatever creation fails, every handle that is kept is one of an existing resource and
\* is kept once (device_manager.cu cleanup, pipeline_manager.cpp cleanup).
THEOREM HandlesAreGoodHolds == Spec => []HandlesAreGood
  BY ResourceInvariant, PTL DEF ResourceInv

\* A manager of one GPU that was initialized once and never threw leaves nothing behind
\* (device_manager.cu cleanup).
THEOREM CleanWhenUsedOnceHolds == Spec => []CleanWhenUsedOnce
  BY ResourceInvariant, PTL DEF ResourceInv

-----------------------------------------------------------------------------
(* What is lost.                                                           *)

\* One GPU, and nothing has failed: the members exist since the first call.
Healthy == host = "ready" /\ ~several

LostInv ==
    /\ LostByInitOnly
    /\ Healthy => /\ \A g \in Gpu : states[g] = {}
                  /\ \A m \in Member : member[m] = Null <=> inits = 0

LEMMA InitLost == Init => LostInv
  <1>. SUFFICES ASSUME Init PROVE LostInv
    OBVIOUS
  <1>1. Lost = {}
    BY DEF Init, Lost
  <1>. QED
    BY <1>1, FS_EmptySet DEF Init, LostInv, LostByInitOnly

LEMMA LostFinite ==
  ASSUME ResourceInv
  PROVE  IsFiniteSet(Lost) /\ Cardinality(Lost) \in Nat
  <1>1. live \subseteq 1 .. made /\ made \in Nat
    BY DEF ResourceInv, TypeOK, Resource
  <1>2. IsFiniteSet(1 .. made)
    BY <1>1, FS_Interval
  <1>3. Lost \in SUBSET (1 .. made)
    BY <1>1 DEF Lost
  <1>. QED
    BY <1>2, <1>3, FS_Subset, FS_CardinalityType

\* The cardinality of three sets that have nothing in common.
LEMMA ThreeDisjoint ==
  ASSUME NEW A, NEW B, NEW C, IsFiniteSet(A), IsFiniteSet(B), IsFiniteSet(C),
         A \cap B = {}, (A \cup B) \cap C = {}
  PROVE  Cardinality(A \cup B \cup C) = Cardinality(A) + Cardinality(B) + Cardinality(C)
  <1>1. /\ Cardinality(A) \in Nat /\ Cardinality(B) \in Nat /\ Cardinality(C) \in Nat
        /\ Cardinality({}) = 0
    BY FS_CardinalityType, FS_EmptySet
  <1>2. Cardinality(A \cap B) = 0 /\ Cardinality((A \cup B) \cap C) = 0
    BY <1>1, Zenon
  <1>3. /\ IsFiniteSet(A \cup B)
        /\ Cardinality(A \cup B) = Cardinality(A) + Cardinality(B) - Cardinality(A \cap B)
    BY FS_Union
  <1>4. Cardinality(A \cup B \cup C)
          = Cardinality(A \cup B) + Cardinality(C) - Cardinality((A \cup B) \cap C)
    BY <1>3, FS_Union
  <1>5. Cardinality(A \cup B) = Cardinality(A) + Cardinality(B)
    BY <1>2, <1>1, <1>3
  <1>6. Cardinality(A \cup B \cup C) = Cardinality(A \cup B) + Cardinality(C)
    BY <1>2, <1>1, <1>4, <1>5
  <1>. QED
    BY <1>5, <1>6

\* The members are as many resources as there are members.
LEMMA MembersDiffer ==
  ASSUME HandlesAreGood, \A m \in Member : member[m] # Null
  PROVE  LET old == {member[m] : m \in Member}
         IN  IsFiniteSet(old) /\ Cardinality(old) = Members
  <1>. DEFINE old == {member[m] : m \in Member}
              f == [m \in Member |-> member[m]]
  <1>1. f \in Bijection(Member, old)
    <2>1. f \in [Member -> old] /\ \A x \in old : \E m \in Member : f[m] = x
      OBVIOUS
    <2>2. \A m, n \in Member : f[m] = f[n] => m = n
      BY DEF HandlesAreGood
    <2>. QED
      BY <2>1, <2>2 DEF Bijection, Injection, IsInjective, Surjection
  <1>2. IsFiniteSet(Member) /\ Cardinality(Member) = Members
    <2>1. IsFiniteSet(1 .. Members)
          /\ Cardinality(1 .. Members) = IF 1 > Members THEN 0 ELSE Members - 1 + 1
      BY Sizes, FS_Interval
    <2>. QED
      BY <2>1, Sizes DEF Member
  <1>3. ExistsBijection(Member, old)
    BY <1>1 DEF ExistsBijection
  <1>. HIDE DEF old
  <1>4. IsFiniteSet(old) /\ Cardinality(old) = Members
    BY <1>2, <1>3, FS_Bijection
  <1>. QED
    BY <1>4 DEF old

\* A complete call of initDevice(ZeroCopy) owns all it has made.
LEMMA InitDeviceOwns ==
  ASSUME ResourceInv, NEW copies \in 0 .. 1, NEW k \in 0 .. 1 + PipelineSize + Members,
         InitDevice(copies, k), k = copies + PipelineMissing + Members
  PROVE  /\ New(k) \subseteq OwnedByOne'
         /\ \A m \in Member : member'[m] \in New(k)
         /\ pipeline \subseteq pipeline'
  <1>. DEFINE before == copies + PipelineMissing
  <1>1. /\ made \in Nat /\ copies \in Nat /\ k \in Nat /\ PipelineMissing \in Nat
        /\ k = before + Members /\ before \in Nat
    BY Sizes, OldResources, InitDeviceKeeps
  <1>2. \A m \in Member : m \in Nat /\ m > 0 /\ m <= Members /\ member'[m] = made + before + m
    <2>. TAKE m \in Member
    <2>1. m \in Nat /\ m > 0 /\ m <= Members
      BY Sizes DEF Member
    <2>2. member'[m] = IF before + m <= k THEN made + before + m ELSE member[m]
      BY DEF InitDevice
    <2>. QED
      BY <1>1, <2>1, <2>2, Sizes
  <1>3. k > 0 /\ k >= before
    BY <1>1, Sizes
  <1>4. pipeline' = pipeline \cup (made + copies + 1 .. made + before)
    BY <1>3 DEF InitDevice
  <1>5. ASSUME NEW x \in New(k) PROVE x \in OwnedByOne'
    <2>1. x \in Nat /\ x >= made + 1 /\ x <= made + k
      BY <1>1 DEF New
    <2>2. x \notin {Null, LentDag}
      BY <1>1, <2>1 DEF Null, LentDag
    <2>3. CASE x <= made + copies
      <3>1. copies = 1 /\ x = made + 1
        BY <1>1, <2>1, <2>3
      <3>2. dag' = made + 1
        BY <1>3, <3>1 DEF InitDevice
      <3>. QED
        BY <2>2, <3>1, <3>2 DEF OwnedByOne
    <2>4. CASE made + copies < x /\ x <= made + before
      <3>1. x \in made + copies + 1 .. made + before
        BY <1>1, <2>1, <2>4
      <3>. QED
        BY <1>4, <2>2, <3>1 DEF OwnedByOne
    <2>5. CASE x > made + before
      <3>. DEFINE m == x - (made + before)
      <3>1. m \in Member /\ made + before + m = x
        BY <1>1, <2>1, <2>5, Sizes DEF Member
      <3>2. member'[m] = x
        BY <1>2, <3>1
      <3>. QED
        BY <2>2, <3>1, <3>2 DEF OwnedByOne, Member
    <2>. QED
      BY <1>1, <2>1, <2>3, <2>4, <2>5
  <1>6. \A m \in Member : member'[m] \in New(k)
    <2>. TAKE m \in Member
    <2>1. m \in Nat /\ m > 0 /\ m <= Members /\ member'[m] = made + before + m
      BY <1>2
    <2>. HIDE DEF before
    <2>2. made + before + m \in made + 1 .. made + k
      BY <1>1, <2>1, Sizes
    <2>. QED
      BY <2>1, <2>2 DEF New
  <1>. QED
    BY <1>4, <1>5, <1>6

\* Such a call loses the members of the call before and a DAG of its own.
LEMMA InitDeviceLost ==
  ASSUME ResourceInv, ResourceInv', LostInv, NEW copies \in 0 .. 1,
         NEW k \in 0 .. 1 + PipelineSize + Members, InitDevice(copies, k)
  PROVE  LostInv'
  <1>. DEFINE total == copies + PipelineMissing + Members
  <1>1. CASE k # total
    <2>1. host' = "thrown"
      BY <1>1 DEF InitDevice
    <2>. QED
      BY <2>1 DEF LostInv, LostByInitOnly, Healthy
  <1>2. CASE several
    <2>1. several'
      BY <1>2 DEF InitDevice
    <2>. QED
      BY <2>1 DEF LostInv, LostByInitOnly, Healthy
  <1>3. CASE k = total /\ ~several
    <2>. DEFINE oldMembers == IF inits > 0 THEN {member[m] : m \in Member} ELSE {}
                oldDag == IF dag' # dag /\ dag > 0 THEN {dag} ELSE {}
    <2>1. /\ Healthy /\ host = "ready" /\ UNCHANGED <<states, several>>
          /\ live' = live \cup New(k)
          /\ inits' = inits + 1 /\ inits \in Nat
          /\ replacedDags \in Nat
          /\ replacedDags' = replacedDags + (IF dag' # dag /\ dag > 0 THEN 1 ELSE 0)
          /\ dag \in Int
      BY <1>3, Sizes DEF InitDevice, Called, Healthy, ResourceInv, TypeOK, Resource, Null, LentDag
    <2>2. /\ \A g \in Gpu : states[g] = {} /\ states'[g] = {}
          /\ \A m \in Member : member[m] = Null <=> inits = 0
      BY <2>1 DEF LostInv
    <2>3. /\ New(k) \subseteq OwnedByOne' /\ pipeline \subseteq pipeline'
          /\ \A m \in Member : member'[m] \in New(k)
      BY <1>3, InitDeviceOwns
    <2>4. /\ \/ pipeline' = pipeline
             \/ pipeline' \subseteq New(k) /\ pipeline = {}
          /\ dag' \in {dag, LentDag} \/ dag' \in New(k)
      BY InitDeviceKeeps
    <2>5. ASSUME NEW x \in New(k)
          PROVE  x \notin live /\ x # Null /\ x # LentDag
      <3>1. made \in Nat /\ x \in Nat /\ x > made /\ \A y \in live : y \in 1 .. made
        BY OldResources DEF New
      <3>. QED
        BY <3>1 DEF Null, LentDag
    <2>6. Owned = OwnedByOne /\ Owned' = OwnedByOne'
      BY <2>2 DEF Owned
    <2>7. ASSUME NEW x \in live
          PROVE  /\ x \in OwnedByOne' <=> x \in pipeline \/ (x = dag /\ dag' = dag)
                 /\ x \in OwnedByOne <=>
                      x \in pipeline \/ x = dag \/ \E m \in Member : x = member[m]
      <3>1. x \notin {Null, LentDag}
        BY OldResources DEF Null, LentDag
      <3>2. x \notin New(k)
        BY <2>5
      <3>3. x \in OwnedByOne' <=> x \in pipeline' \/ x = dag' \/ \E m \in Member : x = member'[m]
        BY <3>1 DEF OwnedByOne, Member
      <3>4. x = dag' <=> x = dag /\ dag' = dag
        BY <2>4, <3>1, <3>2
      <3>5. x \in pipeline' <=> x \in pipeline
        BY <2>3, <2>4, <3>2
      <3>6. ~\E m \in Member : x = member'[m]
        BY <2>3, <3>2
      <3>7. x \in OwnedByOne <=> x \in pipeline \/ x = dag \/ \E m \in Member : x = member[m]
        BY <3>1 DEF OwnedByOne
      <3>. QED
        BY <3>3, <3>4, <3>5, <3>6, <3>7
    <2>8. dag > 0 <=> dag \notin {Null, LentDag}
      BY <2>1 DEF ResourceInv, TypeOK, Resource, Null, LentDag
    <2>9. /\ \A m \in Member : inits > 0 => member[m] \in live /\ member[m] \notin pipeline
                                               /\ member[m] # dag
          /\ dag > 0 => dag \in live /\ dag \notin pipeline
      BY <2>1, <2>2, <2>8, OldResources DEF ResourceInv, HandlesAreGood
    <2>10. Lost' = Lost \cup oldMembers \cup oldDag
      <3>1. ASSUME NEW x \in Lost' PROVE x \in Lost \cup oldMembers \cup oldDag
        <4>1. x \in live /\ x \notin OwnedByOne'
          BY <2>1, <2>3, <2>6, <3>1 DEF Lost
        <4>2. x \notin pipeline /\ ~(x = dag /\ dag' = dag)
          BY <2>7, <4>1
        <4>3. x > 0 /\ x # Null
          BY <4>1, OldResources DEF Null
        <4>4. CASE \E m \in Member : x = member[m]
          BY <2>1, <2>2, <4>3, <4>4
        <4>5. CASE x = dag
          BY <4>2, <4>3, <4>5
        <4>6. CASE x # dag /\ ~\E m \in Member : x = member[m]
          BY <2>6, <2>7, <4>1, <4>2, <4>6 DEF Lost
        <4>. QED
          BY <4>4, <4>5, <4>6
      <3>2. ASSUME NEW x \in Lost PROVE x \in Lost'
        BY <2>1, <2>6, <2>7, <3>2 DEF Lost
      <3>3. ASSUME NEW x \in oldMembers PROVE x \in Lost'
        <4>1. inits > 0 /\ \E m \in Member : x = member[m]
          BY <3>3
        <4>. QED
          BY <2>1, <2>6, <2>7, <2>9, <4>1 DEF Lost
      <3>4. ASSUME NEW x \in oldDag PROVE x \in Lost'
        <4>1. x = dag /\ dag' # dag /\ dag > 0
          BY <3>4
        <4>. QED
          BY <2>1, <2>6, <2>7, <2>9, <4>1 DEF Lost
      <3>. QED
        BY <3>1, <3>2, <3>3, <3>4
    <2>11. /\ IsFiniteSet(oldMembers)
           /\ Cardinality(oldMembers) = IF inits > 0 THEN Members ELSE 0
      <3>1. CASE inits > 0
        <4>1. \A m \in Member : member[m] # Null
          BY <2>1, <2>2, <3>1
        <4>2. LET old == {member[m] : m \in Member}
              IN  IsFiniteSet(old) /\ Cardinality(old) = Members
          BY <4>1, MembersDiffer DEF ResourceInv
        <4>. QED
          BY <3>1, <4>2
      <3>2. CASE ~(inits > 0)
        BY <3>2, FS_EmptySet
      <3>. QED
        BY <3>1, <3>2
    <2>12. /\ IsFiniteSet(oldDag)
           /\ Cardinality(oldDag) = IF dag' # dag /\ dag > 0 THEN 1 ELSE 0
      BY FS_EmptySet, FS_Singleton
    <2>13. Lost \cap oldMembers = {} /\ (Lost \cup oldMembers) \cap oldDag = {}
      <3>1. ASSUME NEW x \in Lost PROVE x # dag /\ ~\E m \in Member : x = member[m]
        BY <2>6, <2>7, <3>1 DEF Lost
      <3>. QED
        BY <2>9, <3>1
    <2>. HIDE DEF oldMembers, oldDag
    <2>14. Cardinality(Lost')
             = Cardinality(Lost) + (IF inits > 0 THEN Members ELSE 0)
                 + (IF dag' # dag /\ dag > 0 THEN 1 ELSE 0)
      BY <2>10, <2>11, <2>12, <2>13, LostFinite, ThreeDisjoint
    <2>15. Cardinality(Lost) = replacedDags + (IF inits > 0 THEN Members * (inits - 1) ELSE 0)
      BY <1>3, <2>1 DEF LostInv, LostByInitOnly
    <2>16. Members * ((inits + 1) - 1)
             = (IF inits > 0 THEN Members * (inits - 1) ELSE 0) + (IF inits > 0 THEN Members ELSE 0)
      <3>1. CASE inits > 0
        BY <2>1, <3>1, Sizes
      <3>2. CASE inits = 0
        BY <2>1, <3>2, Sizes
      <3>. QED
        BY <2>1, <3>1, <3>2
    <2>17. Cardinality(Lost')
             = replacedDags' + (IF inits' > 0 THEN Members * (inits' - 1) ELSE 0)
      <3>1. inits' > 0 /\ Members * (inits' - 1) = Members * ((inits + 1) - 1)
        BY <2>1
      <3>2. (IF inits > 0 THEN Members * (inits - 1) ELSE 0) \in Int
        BY <2>1, Sizes
      <3>3. (IF inits > 0 THEN Members ELSE 0) \in Int
        BY Sizes
      <3>. QED
        BY <2>1, <2>14, <2>15, <2>16, <3>1, <3>2, <3>3
    <2>18. \A m \in Member : member'[m] # Null
      BY <2>3, <2>5
    <2>. QED
      BY <2>1, <2>2, <2>17, <2>18 DEF LostInv, LostByInitOnly
  <1>. QED
    BY <1>1, <1>2, <1>3

\* A complete search releases all it has made.
LEMMA SearchLost ==
  ASSUME ResourceInv, LostInv, NEW k \in 0 .. SearchSize, NEW r \in 0 .. SearchSize,
         Search(k, r)
  PROVE  LostInv'
  <1>1. /\ host = "ready" /\ made \in Nat
        /\ UNCHANGED <<member, dag, pipeline, states, several, inits, replacedDags>>
        /\ live' = (live \cup New(k)) \ (IF r > 0 THEN Releases(r) ELSE {})
        /\ r > 0 => k = SearchSize
        /\ host' = IF r = SearchSize THEN "ready" ELSE "thrown"
    BY OldResources DEF Search, Called
  <1>2. CASE r # SearchSize
    BY <1>1, <1>2 DEF LostInv, LostByInitOnly, Healthy
  <1>3. CASE r = SearchSize
    <2>1. r > 0 /\ k = r
      BY <1>1, <1>3, Sizes
    <2>2. New(k) = Releases(r)
      BY <1>1, <2>1, Sizes DEF New, Releases
    <2>3. \A x \in New(k) : x \notin live
      <3>1. \A x \in New(k) : x > made
        BY <1>1, <2>1, Sizes DEF New
      <3>. QED
        BY <1>1, <3>1, OldResources
    <2>4. live' = live
      BY <1>1, <2>1, <2>2, <2>3
    <2>5. Lost' = Lost
      BY <1>1, <2>4 DEF Lost, Owned, OwnedByOne, Member
    <2>. QED
      BY <1>1, <2>5 DEF LostInv, LostByInitOnly, Healthy, Member
  <1>. QED
    BY <1>2, <1>3

LEMMA NextLost == ResourceInv /\ ResourceInv' /\ LostInv /\ [Next]_vars => LostInv'
  <1>. SUFFICES ASSUME ResourceInv, ResourceInv', LostInv, [Next]_vars PROVE LostInv'
    OBVIOUS
  <1>1. ASSUME NEW g \in Gpu, NEW k \in 0 .. StateSize, AddDevice(g, k) PROVE LostInv'
    BY <1>1 DEF AddDevice, LostInv, LostByInitOnly, Healthy
  <1>2. CASE Destroy
    BY <1>2 DEF Destroy, LostInv, LostByInitOnly, Healthy
  <1>3. CASE UNCHANGED vars
    BY <1>3 DEF vars, LostInv, LostByInitOnly, Healthy, Lost, Owned, OwnedByOne, Member
  <1>. QED
    BY <1>1, <1>2, <1>3, InitDeviceLost, SearchLost DEF Next, Gone

\* With one GPU and as long as nothing has failed, what is lost are the members of every
\* call of initDevice(ZeroCopy) but the last, and replaced DAGs of its own: searches and
\* the pipeline lose nothing (device_manager.cu initDevice, initDeviceZeroCopy,
\* searchSync).
THEOREM LostByInitOnlyHolds == Spec => []LostByInitOnly
  BY InitLost, NextLost, ResourceInvariant, PTL DEF Spec, LostInv
=============================================================================
