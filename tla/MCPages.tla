-------------------------------- MODULE MCPages --------------------------------
(***************************************************************************)
(* Small instances of Pages for TLC.                                       *)
(***************************************************************************)
EXTENDS Pages

CONSTANTS i1, l1, l2, s1, s2
===============================================================================
