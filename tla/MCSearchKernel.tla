--------------------------- MODULE MCSearchKernel ----------------------------
(***************************************************************************)
(* SearchKernel with nonces of 5 bits, words of 4 bits and blocks of two   *)
(* threads.                                                                *)
(***************************************************************************)
EXTENDS SearchKernel

MCStarts == {0, 29}
MCCounts == {0, 1, 4, 6, 7, 10}
MCSolving == {0, 1, 3}
=============================================================================
