-------------------------- MODULE MCJobPreparation ---------------------------
(***************************************************************************)
(* JobPreparation with binary digits and hashes of two bytes, that is of    *)
(* four digits; a fork at epoch 4; seven epochs that are scanned, of up to  *)
(* five items, in batches of three items and blocks of two threads.        *)
(***************************************************************************)
EXTENDS JobPreparation

\* A cycle through all sixteen hashes.
HashOfNumber(n) == <<n \div 4, n % 4>>
MCKeccak == [h \in [1 .. 2 -> 0 .. 3] |-> HashOfNumber((5 * (4 * h[1] + h[2]) + 3) % 16)]

Digits(n) == [i \in 1 .. 4 |-> (n \div 2 ^ (4 - i)) % 2]
Seeds == {<<0, X>> \o Digits(n) : n \in 0 .. 15}
           \cup {<<1>>, <<>>, <<1, 1, Other, 1>>, <<1, 0, 0, 0, 0>>}
Headers == {<<0, X>> \o Digits(n) : n \in {0, 5, 14}}
             \cup {<<>>, <<0>>, <<0, X>>, <<1, 1>>, <<X, 1>>, <<0, X, 1>>, <<0, X, Other>>,
                   <<1, 0, 1, 1>>, <<0, 1, Other, 1>>, <<1, 0, 0, X>>, <<0, X, 1, 0, 0, 0, 0>>}

MCNotifications == {[header |-> h, seed |-> <<0, X, 0, 0, 1, 1>>] : h \in Headers}
                     \cup {[header |-> <<0, X, 1, 0, 1, 1>>, seed |-> s] : s \in Seeds}
MCDifficulty == {1, 2}
MCDifficulties == {0, 1, 4}
MCDebugTargets == {NoTarget, 3}
=============================================================================
