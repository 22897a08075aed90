------------------------------ MODULE MCH3Pool ------------------------------
(* H3Pool on small instances.                                              *)
EXTENDS H3Pool, TLC

MCPoolSymmetry == Permutations(Deployments)
=============================================================================
