--------------------------- MODULE MCMPIDispatcher ---------------------------
(***************************************************************************)
(* MPIDispatcher for model checking.  The workers differ in nothing but    *)
(* their names.                                                            *)
(***************************************************************************)
EXTENDS MPIDispatcher, TLC

WorkerSymmetry == Permutations(Workers)

=============================================================================
