-------------------------- MODULE MCCampaignLedger --------------------------
(* Bounded instances of CampaignLedger for TLC. *)
EXTENDS CampaignLedger, TLC

CONSTANTS r1, r2

MCReceipts == {r1, r2}
ReceiptSymmetry == Permutations(MCReceipts)

\* Modal keeps one unit of three for shutdown, as LIMITS keeps $200 of $2,000.
MCTotalLimit  == [r \in Resources |-> IF r = "modal" THEN 3 ELSE 2]
MCNormalLimit == [r \in Resources |-> 2]
=============================================================================
