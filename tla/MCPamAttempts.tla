--------------------------- MODULE MCPamAttempts ---------------------------
(***************************************************************************)
(* Instances of PamAttempts for TLC.                                       *)
(***************************************************************************)
EXTENDS PamAttempts, TLC

\* Processes are interchangeable.
ProcSymmetry == Permutations(Procs)
=============================================================================
