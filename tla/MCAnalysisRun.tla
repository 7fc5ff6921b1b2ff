---------------------------- MODULE MCAnalysisRun ----------------------------
(***************************************************************************)
(* Instances of AnalysisRun for TLC.                                       *)
(***************************************************************************)
EXTENDS AnalysisRun, TLC

\* Sound for the safety runs only: liveness is checked without symmetry.
AnalysisSymmetry == Permutations(Cases) \cup Permutations(Runs)

=============================================================================
