--------------------------- MODULE MCCampaignJobs ---------------------------
(* Bounded instances of CampaignJobs for TLC. *)
EXTENDS CampaignJobs, TLC

CONSTANTS e1, e2

MCEvidence == {e1, e2}
MCEvidenceSymmetry == Permutations(MCEvidence)
MCSettlements == {SettlementReceipt(c, j) : c \in Closures, j \in Jobs}

\* Modal keeps one unit of three for shutdown, as LIMITS keeps $200 of $2,000.
MCTotalLimit  == [r \in Resources |-> IF r = "modal" THEN 3 ELSE 2]
MCNormalLimit == [r \in Resources |-> 2]
MCGroupLimit == [desktop |-> 2, training |-> 1, research |-> 2]
=============================================================================
