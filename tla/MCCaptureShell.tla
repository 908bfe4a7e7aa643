--------------------------- MODULE MCCaptureShell ---------------------------
(***************************************************************************)
(* Instances of CaptureShell for TLC.                                      *)
(***************************************************************************)
EXTENDS CaptureShell, TLC

\* Captures and session tokens are interchangeable.
Symmetry == Permutations(Caps) \cup Permutations(Sessions)
=============================================================================
