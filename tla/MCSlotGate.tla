----------------------------- MODULE MCSlotGate -----------------------------
(* SlotGate on small instances.                                            *)
EXTENDS SlotGate, TLC

MCSymmetry == Permutations(Owners)

\* Every point but the two where another Redis command must still follow for
\* an entry of the ticket set to have an expiry.
MCSafeCrashes == Pcs \ (Ended \cup {"idle", "add_expiry", "reap_tickets"})
MCAnyCrash == Pcs \ (Ended \cup {"idle"})
MCNone == {}
=============================================================================
