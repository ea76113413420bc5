------------------------ MODULE MCCandidatePromotion ------------------------
(* Bounded instances of CandidatePromotion for TLC. *)
EXTENDS CandidatePromotion

MCDrivers == [c \in Challengers |-> "driver"]
\* The least pilot with a joint candidate: its two components and itself.
MCJoint == [c \in Challengers |-> CASE c = 2 -> "driver" [] c = 3 -> "model" [] OTHER -> "joint"]
=============================================================================
