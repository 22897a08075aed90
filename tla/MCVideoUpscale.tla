--------------------------- MODULE MCVideoUpscale --------------------------
(* Five frames; cuts with a short part in the middle, at the end, and with  *)
(* an overshoot; one usual and one paid provider.                            *)
EXTENDS VideoUpscale

MCCuts == {<<0, 2, 3, 5>>, <<0, 3, 5>>, <<0, 5>>}
MCRegular == <<"seedvr2">>
MCPaid == <<"starlight26">>
MCMaxEdge == [seedvr2 |-> 2, starlight26 |-> 4]
MCRequests == {[provider |-> "auto", edge |-> 1], [provider |-> "auto", edge |-> 3],
               [provider |-> "seedvr2", edge |-> 3]}
=============================================================================
