---------------------------- MODULE MCAdmission -----------------------------
(* Instances of Admission for TLC: pods with one or two containers.        *)
EXTENDS Admission, TLC

OnePods == {{"app"}}
TwoPods == {{"app", "proxy"}}

Symmetry == Permutations(Requests) \cup Permutations(Digests)
=============================================================================
