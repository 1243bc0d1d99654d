------------------------------ MODULE MCSheetRows ------------------------------
(***************************************************************************)
(* Small instances of SheetRows for TLC.                                   *)
(***************************************************************************)
EXTENDS SheetRows, TLC

CONSTANTS w1, w2, r1, r2

\* r1 is listed twice, r2 not yet.
OneTwice == <<r1, r1>>
\* Nothing is claimed of a sheet that was written to by numbers out of date.
StillClaimed == ~spoiled

AnyWriter == Permutations(Writers)
===============================================================================
