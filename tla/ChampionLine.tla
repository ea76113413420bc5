----------------------------- MODULE ChampionLine -----------------------------
(***************************************************************************)
(* What the controller promises about who is champion, apart from the      *)
(* comparisons, leases and rows by which it keeps the promise.  The        *)
(* baseline founds a line.  Every other candidate has one trial in its     *)
(* life, against the champion of that moment; only one that passed is      *)
(* crowned, over that same champion; and the champion that is deposed      *)
(* gives way to the one it was crowned over, and is not tried again.       *)
(***************************************************************************)
CONSTANT Candidates

VARIABLES
  champion,   \* 0 before the line is founded
  stage,      \* how far each candidate got
  rival       \* the champion each candidate was tried against (0 is none)

vars == <<champion, stage, rival>>

Stages == {"new", "trial", "spent", "passed", "failed", "crowned", "deposed"}

Init ==
  /\ champion = 0
  /\ stage = [c \in Candidates |-> "new"]
  /\ rival = [c \in Candidates |-> 0]

Moves(c, from, to) == stage[c] = from /\ stage' = [stage EXCEPT ![c] = to]

Found(c) ==
  /\ champion = 0
  /\ Moves(c, "new", "crowned")
  /\ champion' = c
  /\ UNCHANGED rival

Try(c) ==
  /\ champion # 0
  /\ Moves(c, "new", "trial")
  /\ rival' = [rival EXCEPT ![c] = champion]
  /\ UNCHANGED champion

\* A verdict, or a trial given up without one.
EndTrial(c) ==
  /\ stage[c] = "trial"
  /\ \E end \in {"passed", "failed", "spent"} : stage' = [stage EXCEPT ![c] = end]
  /\ UNCHANGED <<champion, rival>>

Crown(c) ==
  /\ champion # 0 /\ rival[c] = champion
  /\ champion' = c
  /\ Moves(c, "passed", "crowned")
  /\ UNCHANGED rival

Depose(c) ==
  /\ champion = c /\ rival[c] # 0
  /\ Moves(c, "crowned", "deposed")
  /\ champion' = rival[c]
  /\ UNCHANGED rival

Next == \E c \in Candidates : Found(c) \/ Try(c) \/ EndTrial(c) \/ Crown(c) \/ Depose(c)

Spec == Init /\ [][Next]_vars
=============================================================================
