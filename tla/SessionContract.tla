--------------------------- MODULE SessionContract ---------------------------
(***************************************************************************)
(* What the session registry of cua-driver promises the transports that    *)
(* share it, apart from how it keeps the promise.  A session id is unknown,*)
(* live for one transport, or ended; the transport that opened the first   *)
(* episode is the only one that can ever start another.                    *)
(***************************************************************************)
CONSTANTS Sessions, Owners, NoOwner

VARIABLES
  phase,    \* phase[s] \in {"unknown", "live", "ended"}
  holder    \* holder[s]: the transport the id belongs to

vars == <<phase, holder>>

Init ==
  /\ phase = [s \in Sessions |-> "unknown"]
  /\ holder = [s \in Sessions |-> NoOwner]

\* The first action or start_session of a transport opens the id.
Open(s, o) ==
  /\ phase[s] = "unknown"
  /\ phase' = [phase EXCEPT ![s] = "live"]
  /\ holder' = [holder EXCEPT ![s] = o]

\* Explicit, by idle timeout, by the transport closing, or by revoke-all.
End(s) ==
  /\ phase[s] = "live"
  /\ phase' = [phase EXCEPT ![s] = "ended"]
  /\ UNCHANGED holder

\* Only an explicit start_session of the same transport.
Revive(s, o) ==
  /\ phase[s] = "ended"
  /\ holder[s] = o
  /\ phase' = [phase EXCEPT ![s] = "live"]
  /\ UNCHANGED holder

Next ==
  \E s \in Sessions :
    \/ \E o \in Owners : Open(s, o) \/ Revive(s, o)
    \/ End(s)

Spec == Init /\ [][Next]_vars
=============================================================================
