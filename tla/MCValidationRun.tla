---------------------------- MODULE MCValidationRun ----------------------------
(***************************************************************************)
(* Instances of ValidationRun for TLC.                                     *)
(***************************************************************************)
EXTENDS ValidationRun, TLC

CONSTANTS t1, t2

TwoTests == {t1, t2}

TestSymmetry == Permutations(TwoTests)
=============================================================================
