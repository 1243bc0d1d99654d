----------------------------- MODULE MCImageCache -----------------------------
(***************************************************************************)
(* Small instances of ImageCache for TLC.                                  *)
(***************************************************************************)
EXTENDS ImageCache, TLC

CONSTANTS t1, t2, p1, p2, tar1, tar2

\* Both threads in one server process, or each in its own.
OneHome == [t \in Threads |-> p1]
OwnHome == [t \in Threads |-> IF t = t1 THEN p1 ELSE p2]

\* A re-uploaded run: its new tar has one more image, with a lower score.
TwoTars == [k \in Tars |-> IF k = tar1 THEN {2} ELSE {1, 2}]
ThreeImages == [k \in Tars |-> {1, 2, 3}]
AnyThread == Permutations(Threads)
TwoImages == [k \in Tars |-> {1, 2}]
===============================================================================
