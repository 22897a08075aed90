------------------------- MODULE MCChannelFailover -------------------------
(* ChannelFailover with two polled channels and a synchronous one between.   *)
EXTENDS ChannelFailover

MCSync == {2}
=============================================================================
