----------------------------- MODULE MCCompletion -----------------------------
(***************************************************************************)
(* Small instances of Completion for TLC.                                  *)
(***************************************************************************)
EXTENDS Completion, TLC

CONSTANTS w1, w2, m1

\* Two workers on one machine.
OneMachine == [w \in Workers |-> m1]
AnyWorker == Permutations(Workers)
===============================================================================
