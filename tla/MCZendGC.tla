------------------------------ MODULE MCZendGC ------------------------------
(* Instances of ZendGC for TLC.                                             *)
EXTENDS ZendGC, TLC

Symmetry == Permutations(HasDtor) \cup Permutations(Object \ HasDtor)
=============================================================================
