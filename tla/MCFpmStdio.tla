----------------------------- MODULE MCFpmStdio -----------------------------
(* Instances of FpmStdio for TLC.                                           *)
EXTENDS FpmStdio, TLC

Symmetry == Permutations(Child)
=============================================================================
