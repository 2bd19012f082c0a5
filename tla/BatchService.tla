---------------------------- MODULE BatchService -----------------------------
(***************************************************************************)
(* What the asynchronous pipeline promises: each stream holds one batch,   *)
(* and a new one is only put there when the old one's solutions, found     *)
(* with the old one's inputs, are handed over, once.                       *)
(***************************************************************************)
EXTENDS Naturals

CONSTANTS
    Stream,
    Batch,        \* numbers of batches, from 1
    MayReject     \* whether the device may refuse to run a batch

VARIABLES
    flight,       \* the batch on each stream, or 0
    handed        \* the batch whose solutions the last turn of each stream handed
                  \* over, or 0

serviceVars == <<flight, handed>>

ServiceInit == flight = [s \in Stream |-> 0] /\ handed = flight

\* A batch with a number above all others takes the place of the one on stream s.
Turn(s) ==
    /\ \E b \in Batch :
         /\ \A r \in Stream : b > flight[r]
         /\ flight' = [flight EXCEPT ![s] = b]
    /\ \/ handed' = [handed EXCEPT ![s] = flight[s]]
       \/ MayReject /\ handed' = [handed EXCEPT ![s] = 0]

ServiceNext == \E s \in Stream : Turn(s)

ServiceSpec == ServiceInit /\ [][ServiceNext]_serviceVars
=============================================================================
