------------------------------ MODULE Selection ------------------------------
(***************************************************************************)
(* What the image cache promises the rest of the program about one run.    *)
(*                                                                         *)
(* A run's sample is a list of tar members.  Once a member is picked it    *)
(* keeps its index for good: a reviewer's verdict is stored against that   *)
(* index, so replacing the member would silently move the verdict to a     *)
(* picture nobody has looked at.  The sample only grows at its end, and    *)
(* never by a member it already holds.                                     *)
(*                                                                         *)
(* ImageCache implements this specification; Completion relies on it.    *)
(***************************************************************************)
EXTENDS Naturals

CONSTANT Members   \* the image members a tar may hold

VARIABLE sample    \* index -> member, for the indexes picked so far

\* A list without gaps and without repetition, as a function from its indexes.
IsSample(s) ==
    /\ \A i \in DOMAIN s : i \in Nat /\ 0 .. i \subseteq DOMAIN s
    /\ \A i \in DOMAIN s : s[i] \in Members
    /\ \A i, j \in DOMAIN s : s[i] = s[j] => i = j

\* The samples that extend s: every pick of s is still there, at its index.
Extends(s, longer) ==
    /\ DOMAIN s \subseteq DOMAIN longer
    /\ \A i \in DOMAIN s : longer[i] = s[i]

Init == IsSample(sample)

Extend == IsSample(sample') /\ Extends(sample, sample')

Spec == Init /\ [][Extend]_sample
===============================================================================
