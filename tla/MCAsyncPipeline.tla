--------------------------- MODULE MCAsyncPipeline ---------------------------
(***************************************************************************)
(* AsyncPipeline with two jobs.                                            *)
(***************************************************************************)
EXTENDS AsyncPipeline

CONSTANTS j1, j2

MCJob == {j1, j2}
=============================================================================
