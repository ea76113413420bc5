---------------------------- MODULE MCFleetClaims ----------------------------
(* A bounded instance of FleetClaims for TLC: one desktop job, which holds  *)
(* no budget, and two receipts.                                             *)
EXTENDS FleetClaims

MCSettlements == {SettlementReceipt(c, j) : c \in Closures, j \in Jobs}
MCTotalLimit  == [r \in Resources |-> 2]
MCNormalLimit == [r \in Resources |-> 1]
MCGroupLimit == [g \in JobGroups |-> 1]
=============================================================================
