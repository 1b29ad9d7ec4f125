------------------------------- MODULE MCCase -------------------------------
(***************************************************************************)
(* Model checking of module Case.  Examiners differ only in what they do.  *)
(***************************************************************************)
EXTENDS Case, TLC

ExaminerSymmetry == Permutations(Examiners)
=============================================================================
