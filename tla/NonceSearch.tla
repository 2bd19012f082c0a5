----------------------------- MODULE NonceSearch -----------------------------
(***************************************************************************)
(* What a search on the GPU promises its caller, in two steps: a range is   *)
(* asked for, and later some of its solutions are delivered.  SearchKernel *)
(* implements it.                                                          *)
(***************************************************************************)
EXTENDS Naturals, FiniteSets

CONSTANTS
    Nonce,       \* all nonces
    Solving,     \* those whose hash is below the target
    Capacity,    \* the most solutions a search can deliver
    MaxAsked     \* a range of at most so many nonces is searched completely

VARIABLES
    open,        \* a search is under way
    asked,       \* the nonces it was asked to test
    tested,      \* the nonces it tests
    number,      \* the number of solutions the last search returned
    result       \* the nonces in the caller's vector

searchVars == <<open, asked, tested, number, result>>

SearchInit ==
    /\ open = FALSE
    /\ asked = {} /\ tested = {} /\ result = {}
    /\ number = 0

\* A search may test more than it was asked to; less only when the range is
\* larger than MaxAsked.  The caller may hand over an emptied vector.
Ask ==
    /\ ~open
    /\ open' = TRUE
    /\ asked' \subseteq Nonce /\ tested' \subseteq Nonce
    /\ Cardinality(asked') <= MaxAsked => asked' \subseteq tested'
    /\ result' = result \/ result' = {}
    /\ UNCHANGED number

Solutions == Solving \cap tested

\* Different solutions of the tested nonces, all of them if they fit.
Deliver ==
    /\ open
    /\ open' = FALSE
    /\ number' = IF Cardinality(Solutions) <= Capacity THEN Cardinality(Solutions)
                                                       ELSE Capacity
    /\ IF number' = 0
       THEN result' = result
       ELSE result' \subseteq Solutions /\ Cardinality(result') = number'
    /\ UNCHANGED <<asked, tested>>

SearchNext == Ask \/ Deliver

SearchSpec == SearchInit /\ [][SearchNext]_searchVars
=============================================================================
