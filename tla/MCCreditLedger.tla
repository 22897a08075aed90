--------------------------- MODULE MCCreditLedger ---------------------------
(* CreditLedger on small instances.                                        *)
EXTENDS CreditLedger, TLC

Both(platform, total) == [w \in Windows |-> IF w = "5h" THEN platform ELSE total]

\* Limits that bite: two units in five hours, three in total.
MCLimitChoices == {Unlimited, Both(2, 3), Both(1, NoLimit)}
MCFewQuotes == {-1, 2}

MCSymmetry == Permutations(Requests)
=============================================================================
