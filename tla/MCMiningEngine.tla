--------------------------- MODULE MCMiningEngine ----------------------------
(* Instances of MiningEngine: two or three jobs of two epochs.             *)
EXTENDS MiningEngine, TLC

CONSTANTS j1, j2, j3, n1, n2, n3, a1, a2

MCEpoch == {0, 1}

MCJobs2 == {j1, j2}
MCJobs3 == {j1, j2, j3}
MCSeed2 == (j1 :> 0) @@ (j2 :> 1)
MCSeed3 == (j1 :> 0) @@ (j2 :> 1) @@ (j3 :> NoEpoch)
MCHits2 == (j1 :> {n1, n2, n3}) @@ (j2 :> {n1})
MCNoHits == [j \in Job |-> {}]
=============================================================================
