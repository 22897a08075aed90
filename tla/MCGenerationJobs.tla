-------------------------- MODULE MCGenerationJobs --------------------------
(* GenerationJobs on small instances.                                      *)
EXTENDS GenerationJobs, TLC

MCUnlimited == {Unlimited}

\* One unit fits in each window: a second hold is refused.
MCOneUnit == {[w \in Windows |-> 1]}

\* Two submits at once, one job's later life at a time: a second worker and a
\* second cancel wait until the first is over.
MCOneLifeAtATime ==
    /\ Cardinality({j \in Requests : work[j] # "idle" \/ cancel[j].pc # "idle"}) <= 1
    /\ Cardinality(seen) <= 1

\* Requests are interchangeable: nothing orders them.
MCSymmetry == Permutations(Requests) \cup Permutations(IdemKeys)
=============================================================================
