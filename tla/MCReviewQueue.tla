---------------------------- MODULE MCReviewQueue -----------------------------
(***************************************************************************)
(* Small instances of ReviewQueue for TLC.                                 *)
(***************************************************************************)
EXTENDS ReviewQueue, TLC

CONSTANTS r1, r2, r3, q1, q2

\* r2 cannot be read; r3 has no images.
SoundLast == <<r2, r3, r1>>
OneEmpty == [r \in Runs |-> IF r = r1 THEN 3 ELSE 0]
===============================================================================
