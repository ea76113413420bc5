-------------------------- MODULE MCDriverSessions --------------------------
(* Bounded instances of DriverSessions for TLC. *)
EXTENDS DriverSessions, TLC

CONSTANTS c1, c2, o1, o2

MCClients == {c1, c2}
MCOwners == {o1, o2}
\* Which thread serves a call, and which of the two transports opened first,
\* makes no difference to a safety property.
MCSymmetry == Permutations(MCClients) \cup Permutations(MCOwners)
=============================================================================
