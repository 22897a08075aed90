---------------------------- MODULE MCBillingHook ----------------------------
(* BillingHook on small instances.                                         *)
EXTENDS BillingHook, TLC
=============================================================================
