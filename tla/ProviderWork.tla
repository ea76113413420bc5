----------------------------- MODULE ProviderWork -----------------------------
(***************************************************************************)
(* What a provider adapter of the campaign promises its caller for each    *)
(* job, apart from how it keeps the promise through timeouts, crashes and  *)
(* a second process: work is asked for once, exists at the provider at     *)
(* most once, its worker runs at most once and only while it exists, a     *)
(* result is that worker's, and the job is closed only over work that was  *)
(* never asked for or is gone.                                             *)
(***************************************************************************)
CONSTANT Jobs

VARIABLES
  phase,      \* phase[j] \in {"never", "asked", "live", "gone"}
  ran,        \* how often each job's worker has run
  reported,   \* jobs with a result
  closed      \* jobs whose provider cleanup is confirmed

vars == <<phase, ran, reported, closed>>

Init ==
  /\ phase = [j \in Jobs |-> "never"]
  /\ ran = [j \in Jobs |-> 0]
  /\ reported = {} /\ closed = {}

Moves(j, from, to) ==
  /\ phase[j] = from
  /\ phase' = [phase EXCEPT ![j] = to]
  /\ UNCHANGED <<ran, reported, closed>>

\* The campaign commits itself to one piece of work (begin_dispatch).
Ask(j) == j \notin closed /\ Moves(j, "never", "asked")
\* The provider creates it, whether or not anybody still waits for the answer.
Appear(j) == Moves(j, "asked", "live")
\* It is terminated, or ends by itself.
Vanish(j) == Moves(j, "live", "gone")

Work(j) ==
  /\ phase[j] = "live" /\ ran[j] = 0
  /\ ran' = [ran EXCEPT ![j] = 1]
  /\ UNCHANGED <<phase, reported, closed>>

Report(j) ==
  /\ ran[j] # 0 /\ j \notin reported \union closed
  /\ reported' = reported \union {j}
  /\ UNCHANGED <<phase, ran, closed>>

Close(j) ==
  /\ phase[j] \in {"never", "gone"} /\ j \notin closed
  /\ closed' = closed \union {j}
  /\ UNCHANGED <<phase, ran, reported>>

Next == \E j \in Jobs : Ask(j) \/ Appear(j) \/ Vanish(j) \/ Work(j) \/ Report(j) \/ Close(j)

Spec == Init /\ [][Next]_vars
=============================================================================
