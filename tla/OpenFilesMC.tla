----------------------------- MODULE OpenFilesMC -----------------------------
(* The files are interchangeable.                                           *)
EXTENDS OpenFiles, TLC
Symmetry == Permutations(Files)
=============================================================================
