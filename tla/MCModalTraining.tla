--------------------------- MODULE MCModalTraining ---------------------------
(* Bounded instances of ModalTraining for TLC: one job, its hold, and a     *)
(* provider with room for the sandbox nobody should create twice.           *)
EXTENDS ModalTraining

MCSettlements == {SettlementReceipt(c, j) : c \in Closures, j \in Jobs}
MCTotalLimit  == [r \in Resources |-> 2]
MCNormalLimit == [r \in Resources |-> 1]
MCGroupLimit == [g \in JobGroups |-> 1]
=============================================================================
