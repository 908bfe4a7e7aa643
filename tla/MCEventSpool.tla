---------------------------- MODULE MCEventSpool ----------------------------
(***************************************************************************)
(* Instances of EventSpool for TLC.                                        *)
(***************************************************************************)
EXTENDS EventSpool, TLC

\* Processes and batches are interchangeable.
Symmetry == Permutations(Procs) \cup Permutations(Batches)
=============================================================================
