--------------------------- MODULE MCClientThreads ---------------------------
(***************************************************************************)
(* The list of clients with a few records and walkers for TLC.             *)
(***************************************************************************)
EXTENDS ClientThreads, TLC

Symmetry == Permutations(Clients) \cup Permutations(Walkers)
=============================================================================
