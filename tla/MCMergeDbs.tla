------------------------------ MODULE MCMergeDbs -------------------------------
(***************************************************************************)
(* Small instances of MergeDbs for TLC.                                    *)
(***************************************************************************)
EXTENDS MergeDbs, TLC

CONSTANTS here, there, run1, pass, fail

AnyVerdict == Permutations(Verdicts)
===============================================================================
