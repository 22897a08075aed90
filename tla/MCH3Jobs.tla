------------------------------ MODULE MCH3Jobs ------------------------------
(* H3Jobs on small instances.                                              *)
EXTENDS H3Jobs, TLC

MCSymmetry == Permutations(Workers) \cup Permutations(Procs)
=============================================================================
