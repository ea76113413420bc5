------------------------ MODULE CandidatePromotion ------------------------
(***************************************************************************)
(* How a candidate becomes the champion of a campaign and ceases to be it  *)
(* (fps_bench/campaign_controller.py, under a GameWorld contract).  A      *)
(* candidate is registered against the champion, compared with it on       *)
(* public development episodes, confirmed on a protected split under a     *)
(* lease, promoted, and perhaps rolled back.  Every operation is one       *)
(* transaction; what interleaves is the operations of the coordinator, the *)
(* operator and the providers.  The lifecycle of a job is the subject of   *)
(* CampaignJobs: here an episode is absent, open (it holds its slot) or    *)
(* cleaned up with what it left behind.                                    *)
(***************************************************************************)
EXTENDS Naturals, FiniteSets

CONSTANTS
  NumCandidates,      \* the baseline and as many challengers as the pilot allows
  ClassOf,            \* the change class of each challenger the callers register
  Outcomes,           \* what an episode may leave behind
  MaxConfirmations,   \* rules.maximum_confirmations
  SealedUses,         \* rules.sealed_uses
  DesktopSlots        \* GROUP_LIMITS["desktop"]

Candidates == 1..NumCandidates
Baseline == 1
Challengers == Candidates \ {Baseline}
NumLeases == MaxConfirmations + SealedUses
Leases == 1..NumLeases

ASSUME PromotionAssumption ==
  /\ NumCandidates \in Nat \ {0} /\ MaxConfirmations \in Nat /\ SealedUses \in Nat
  /\ DesktopSlots \in Nat
  /\ ClassOf \in [Challengers -> {"driver", "model", "joint"}]
  /\ Outcomes \subseteq {"lost", "failed", "complete"}

VARIABLES
  champion,   \* controller.champion (0 is none)
  status,     \* candidates.state
  manifest,   \* candidates.manifest: class, parent and components (0 is none)
  decisions,  \* table decisions, by candidate: its two splits
  public,     \* development episodes: comparison of c, arm a
  private,    \* episodes of lease l, arm a
  leases,     \* table private_split_leases
  promotions, \* table promotions
  background, \* the other job that is not cleaned up
  admitting   \* not stopped, not frozen, deadline ahead

promotionVars ==
  <<champion, status, manifest, decisions, public, private, leases, promotions,
    background, admitting>>

CandidateStates == {"materialized", "nominated", "confirmed", "champion", "rejected",
                    "retired", "rolled_back"}
DeadStates == {"rejected", "retired", "rolled_back"}
Classes == {"baseline", "driver", "model", "joint"}
Manifest == [class: Classes, parent: {0} \union Candidates,
             driver: {0} \union Candidates, model: {0} \union Candidates]
Verdicts == {"none", "pass", "fail"}

\* What a cleaned episode left: nothing, a failure, or a complete result.
Recorded == {"failed", "complete"}
EpisodeStates == {"absent", "open", "lost"} \union Recorded
Lease == [state: {"absent", "issued", "active", "closed", "abandoned"},
          split: {"confirmation", "sealed"}, candidate: {0} \union Candidates,
          expired: BOOLEAN]
Promotion == [state: {"absent", "active", "rolled_back"}, previous: {0} \union Candidates]

(* Jobs other than episodes: work on any provider, a serving job that      *)
(* starts, one that is live for policy "serves", or one that awaits its    *)
(* bill.  One at a time: the transactions below ask only whether such a    *)
(* job exists.                                                             *)
Background == [phase: {"none", "working", "starting", "live", "billing"},
               serves: {0} \union Candidates]
Idle == [phase |-> "none", serves |-> 0]

NoManifest == [class |-> "baseline", parent |-> 0, driver |-> 0, model |-> 0]
NoLease == [state |-> "absent", split |-> "confirmation", candidate |-> 0, expired |-> FALSE]
NoEpisodes == [arm \in Candidates |-> "absent"]

PromotionInit ==
  /\ champion = 0
  /\ status = [c \in Candidates |-> "absent"]
  /\ manifest = [c \in Candidates |-> NoManifest]
  /\ decisions = [c \in Candidates |-> [development |-> "none", confirmation |-> "none"]]
  /\ public = [c \in Candidates |-> NoEpisodes]
  /\ private = [l \in Leases |-> NoEpisodes]
  /\ leases = [l \in Leases |-> NoLease]
  /\ promotions = [c \in Candidates |-> [state |-> "absent", previous |-> 0]]
  /\ background = Idle
  /\ admitting = TRUE

-----------------------------------------------------------------------------
(* Queries of the transactions.                                            *)

Open(l) == leases[l].state \in {"issued", "active"}
NoOpenLease == \A l \in Leases : ~Open(l)
Registered(c) == status[c] # "absent"
Alive(c) == Registered(c) /\ status[c] \notin DeadStates

\* Episodes a comparison consists of: a pair, or the four of a 2x2 design.
Arms(c) == {manifest[c].parent, c}
             \union IF manifest[c].class = "joint"
                    THEN {manifest[c].driver, manifest[c].model} ELSE {}
LeaseArms(l) == IF leases[l].split = "confirmation"
                THEN Arms(leases[l].candidate) ELSE {leases[l].candidate}

OpenPublic == {e \in Candidates \X Candidates : public[e[1]][e[2]] = "open"}
OpenPrivate == {e \in Leases \X Candidates : private[e[1]][e[2]] = "open"}
NoOpenEpisode == OpenPublic = {} /\ OpenPrivate = {}
DesktopFree == Cardinality(OpenPublic) + Cardinality(OpenPrivate) < DesktopSlots

\* A public episode must carry its candidate's own comparison, unless the
\* candidate is the baseline or a component of a joint comparison.
ComparisonAccepted(arm, c) ==
  \/ manifest[arm].class = "baseline"
  \/ arm = c
  \/ manifest[c].class = "joint"

\* Mutant: only provider jobs with a bill are waited for.
BillsCleaned == background = Idle
AllCleaned == NoOpenEpisode /\ background = Idle

-----------------------------------------------------------------------------
(* Candidates and their development comparison.                            *)

(* register_candidate, change class baseline: once, as the champion.       *)
RegisterBaseline ==
  /\ admitting
  /\ champion = 0
  /\ status' = [status EXCEPT ![Baseline] = "champion"]
  /\ champion' = Baseline
  /\ UNCHANGED <<manifest, decisions, public, private, leases, promotions,
                 background, admitting>>

Qualified(c, class) == /\ status[c] = "nominated"
                       /\ manifest[c].class = class
                       /\ manifest[c].parent = champion

(* register_candidate of a challenger, on the champion of this moment.     *)
(* Identities are handed out in order.                                     *)
Register(c, driver, model) ==
  /\ admitting
  /\ champion # 0
  /\ ~Registered(c) /\ \A d \in 1..(c - 1) : Registered(d)
  /\ status' = [status EXCEPT ![c] = "materialized"]
  /\ manifest' = [manifest EXCEPT ![c] = [class |-> ClassOf[c], parent |-> champion,
                                          driver |-> driver, model |-> model]]
  /\ UNCHANGED <<champion, decisions, public, private, leases, promotions,
                 background, admitting>>

RegisterIsolated(c) == ClassOf[c] # "joint" /\ Register(c, 0, 0)

(* A joint candidate needs two qualified components of the same parent.    *)
RegisterJoint(c, driver, model) ==
  /\ ClassOf[c] = "joint"
  /\ Qualified(driver, "driver") /\ Qualified(model, "model")
  /\ Register(c, driver, model)

\* Mutant: public work is admitted while a protected split is being read.
PublicAlwaysOpen == TRUE
\* Public admission pauses while a private lease is open.
PublicOpen == NoOpenLease

(* admit_job of a development episode: arm's side of the comparison of c.  *)
AdmitPublic(c, arm) ==
  /\ admitting
  /\ PublicOpen
  /\ Registered(c) /\ arm \in Arms(c) \ {0} /\ Alive(arm)
  /\ ComparisonAccepted(arm, c)
  /\ DesktopFree
  /\ public[c][arm] = "absent"
  /\ public' = [public EXCEPT ![c][arm] = "open"]
  /\ UNCHANGED <<champion, status, manifest, decisions, private, leases, promotions,
                 background, admitting>>

(* The provider's side of an episode, to its confirmed cleanup.            *)
EndPublic(c, arm, left) ==
  /\ public[c][arm] = "open"
  /\ public' = [public EXCEPT ![c][arm] = left]
  /\ UNCHANGED <<champion, status, manifest, decisions, private, leases, promotions,
                 background, admitting>>

\* Mutant: the word of the decision is written as the candidate's state.
DecisionStateAsWord(verdict) == verdict
DecisionState(verdict) == IF verdict = "pass" THEN "nominated" ELSE "rejected"

\* Mutant: a decision is taken anew from the evidence.
AlwaysUndecided(c) == TRUE
Undecided(c) == decisions[c].development = "none"

(* A comparison counts when every arm's episode is complete; missing and   *)
(* failed ones change nothing.  A decision once stored is only repeated.   *)
(* The candidate's state is not looked at.                                 *)
DecideOnDevelopment(c, verdict) ==
  /\ Registered(c)
  /\ \A arm \in Arms(c) : public[c][arm] = "complete"
  /\ Undecided(c)
  /\ decisions' = [decisions EXCEPT ![c].development = verdict]
  /\ status' = [status EXCEPT ![c] = DecisionState(verdict)]
  /\ UNCHANGED <<champion, manifest, public, private, leases, promotions,
                 background, admitting>>

(* decide_development: driver and model candidates.                        *)
DecideDevelopment(c, verdict) ==
  /\ manifest[c].parent # 0
  /\ manifest[c].class # "joint"
  /\ DecideOnDevelopment(c, verdict)

(* decide_factorial: joint candidates.                                     *)
DecideFactorial(c, verdict) ==
  /\ manifest[c].class = "joint"
  /\ DecideOnDevelopment(c, verdict)

-----------------------------------------------------------------------------
(* Private split leases.                                                   *)

Issued(split) == {l \in Leases : leases[l].state # "absent" /\ leases[l].split = split}
HasActivePromotion(c) == promotions[c].state = "active"

\* Mutant: episodes that still run do not delay a lease.
NoOtherWork == background.phase # "working"
\* Only serving jobs, and jobs that wait for their bill, may be left.
Quiet == NoOpenEpisode /\ background.phase # "working"

(* issue_private_split_lease.  Issuance consumes a use of the split.       *)
IssueLease(l, c, split) ==
  /\ admitting
  /\ leases[l].state = "absent" /\ \A k \in 1..(l - 1) : leases[k].state # "absent"
  /\ Quiet
  /\ IF split = "confirmation"
     THEN /\ status[c] = "nominated" /\ manifest[c].parent = champion
          /\ Cardinality(Issued(split)) < MaxConfirmations
     ELSE /\ c = champion /\ status[c] = "champion" /\ HasActivePromotion(c)
          /\ Cardinality(Issued(split)) < SealedUses
  /\ NoOpenLease
  /\ leases' = [leases EXCEPT ![l] = [state |-> "issued", split |-> split,
                                      candidate |-> c, expired |-> FALSE]]
  /\ UNCHANGED <<champion, status, manifest, decisions, public, private, promotions,
                 background, admitting>>

(* The clock passes the lease's expiry.                                    *)
LeaseExpires(l) ==
  /\ Open(l) /\ ~leases[l].expired
  /\ leases' = [leases EXCEPT ![l].expired = TRUE]
  /\ UNCHANGED <<champion, status, manifest, decisions, public, private, promotions,
                 background, admitting>>

(* admit_job of an episode of the lease's schedule.                        *)
AdmitPrivate(l, arm) ==
  /\ admitting
  /\ Open(l) /\ ~leases[l].expired
  /\ arm \in LeaseArms(l) /\ Alive(arm)
  /\ DesktopFree
  /\ private[l][arm] = "absent"
  /\ private' = [private EXCEPT ![l][arm] = "open"]
  /\ leases' = [leases EXCEPT ![l].state = "active"]
  /\ UNCHANGED <<champion, status, manifest, decisions, public, promotions,
                 background, admitting>>

EndPrivate(l, arm, left) ==
  /\ private[l][arm] = "open"
  /\ private' = [private EXCEPT ![l][arm] = left]
  /\ UNCHANGED <<champion, status, manifest, decisions, public, leases, promotions,
                 background, admitting>>

\* Mutant: the decision is made of the episodes that exist, as many as they are.
CompleteSoFar(l) == \A arm \in LeaseArms(l) : private[l][arm] \in {"absent"} \union Recorded
\* Exactly the expected jobs, all cleaned up and each with a result.
ScheduleComplete(l) == \A arm \in LeaseArms(l) : private[l][arm] \in Recorded

(* decide_confirmation.  A failed episode is a decision too: it rejects.   *)
(* The candidate's state is set whatever it was.                           *)
DecideConfirmation(l, verdict) ==
  LET c == leases[l].candidate
  IN /\ Open(l) /\ leases[l].split = "confirmation"
     /\ ScheduleComplete(l)
     /\ (\E arm \in LeaseArms(l) : private[l][arm] = "failed") => verdict = "fail"
     /\ decisions[c].confirmation = "none"
     /\ decisions' = [decisions EXCEPT ![c].confirmation = verdict]
     /\ status' = [status EXCEPT ![c] = IF verdict = "pass" THEN "confirmed" ELSE "rejected"]
     /\ leases' = [leases EXCEPT ![l].state = "closed"]
     /\ UNCHANGED <<champion, manifest, public, private, promotions, background, admitting>>

(* complete_sealed_evaluation: a report, no selection.                     *)
CompleteSealedEvaluation(l) ==
  /\ Open(l) /\ leases[l].split = "sealed"
  /\ ScheduleComplete(l)
  /\ leases' = [leases EXCEPT ![l].state = "closed"]
  /\ UNCHANGED <<champion, status, manifest, decisions, public, private, promotions,
                 background, admitting>>

\* Mutant: the candidate of an abandoned lease may try again.
AfterAbandonmentAgain(state) == state
AfterAbandonment(state) == IF state = "nominated" THEN "rejected" ELSE state

(* abandon_private_split_lease: with any number of its jobs admitted.      *)
AbandonLease(l) ==
  LET c == leases[l].candidate
  IN /\ Open(l)
     /\ \A arm \in LeaseArms(l) : private[l][arm] # "open"
     /\ leases' = [leases EXCEPT ![l].state = "abandoned"]
     /\ status' = IF leases[l].split = "confirmation"
                  THEN [status EXCEPT ![c] = AfterAbandonment(status[c])] ELSE status
     /\ UNCHANGED <<champion, manifest, decisions, public, private, promotions,
                    background, admitting>>

-----------------------------------------------------------------------------
(* Promotion and rollback.                                                 *)

\* The policy whose endpoint may stay live for the sealed run.
ExpectedServed(c) == CASE manifest[c].class = "joint" -> manifest[c].model
                       [] manifest[c].class = "model" -> c
                       [] OTHER -> 0

\* Mutant: the champion of the moment is not among those that retire.
RetiringChallengers == {"materialized", "nominated", "confirmed"}
Retiring == {"materialized", "nominated", "confirmed", "champion"}

(* promote_candidate.  Its refusal while some other reservation is held is  *)
(* left out: the model promotes whenever the code does, and more often.    *)
Promote(c) ==
  /\ admitting
  /\ status[c] = "confirmed" /\ manifest[c].parent = champion
  /\ decisions[c].confirmation = "pass"
  /\ NoOpenEpisode
  /\ \/ background = Idle
     \/ background = [phase |-> "live", serves |-> ExpectedServed(c)]
  /\ NoOpenLease
  /\ promotions[c].state = "absent"
  /\ status' = [d \in Candidates |->
       IF d = c THEN "champion" ELSE IF status[d] \in Retiring THEN "retired" ELSE status[d]]
  /\ champion' = c
  /\ promotions' = [promotions EXCEPT ![c] = [state |-> "active", previous |-> champion]]
  /\ UNCHANGED <<manifest, decisions, public, private, leases, background, admitting>>

\* What the loop of rollback_champion collects: the least set that holds c
\* and every candidate whose parent it holds.
Descendants(c) ==
  {d \in Candidates : \A S \in SUBSET Candidates :
     (c \in S /\ \A x \in Candidates : manifest[x].parent \in S => x \in S) => d \in S}

\* Mutant: the promotion keeps its state.
WithdrawnNot(promotion) == promotion
Withdrawn(promotion) == [promotion EXCEPT !.state = "rolled_back"]

(* rollback_champion: private leases are not looked at.                    *)
RollbackChampion ==
  /\ champion # 0 /\ HasActivePromotion(champion)
  /\ AllCleaned
  /\ LET previous == promotions[champion].previous
         down == Descendants(champion)
     IN /\ status' = [d \in Candidates |->
             IF d = previous THEN "champion"
             ELSE IF d = champion THEN "rolled_back"
             ELSE IF d \in down THEN "retired" ELSE status[d]]
        /\ champion' = previous
  /\ promotions' = [promotions EXCEPT ![champion] = Withdrawn(promotions[champion])]
  /\ UNCHANGED <<manifest, decisions, public, private, leases, background, admitting>>

-----------------------------------------------------------------------------
(* The other jobs, and admission.                                          *)

(* admit_job of a rollout, build, training or research job.                *)
AdmitWork ==
  /\ admitting /\ NoOpenLease /\ background = Idle
  /\ \E c \in Candidates : Alive(c)
  /\ background' = [phase |-> "working", serves |-> 0]
  /\ UNCHANGED <<champion, status, manifest, decisions, public, private, leases,
                 promotions, admitting>>

(* admit_job of an endpoint: for its owner's policy, or for the policy     *)
(* trained from it, which is registered once the endpoint is live.         *)
AdmitServing(owner, policy) ==
  /\ admitting /\ NoOpenLease /\ background = Idle
  /\ Alive(owner)
  /\ policy = owner \/ ~Registered(policy)
  /\ background' = [phase |-> "starting", serves |-> policy]
  /\ UNCHANGED <<champion, status, manifest, decisions, public, private, leases,
                 promotions, admitting>>

ServingLive ==
  /\ background.phase = "starting"
  /\ background' = [background EXCEPT !.phase = "live"]
  /\ UNCHANGED <<champion, status, manifest, decisions, public, private, leases,
                 promotions, admitting>>

(* Provider cleanup, with or without a bill to wait for.                   *)
WorkEnds(phase) ==
  /\ background.phase \in {"working", "starting", "live", "billing"}
  /\ background.phase = "billing" => phase = "none"
  /\ background' = [phase |-> phase, serves |-> 0]
  /\ UNCHANGED <<champion, status, manifest, decisions, public, private, leases,
                 promotions, admitting>>

(* A stop, a freeze or the deadline closes admission; the token migration  *)
(* may clear a freeze.                                                     *)
AdmissionChanges ==
  /\ admitting' = ~admitting
  /\ UNCHANGED <<champion, status, manifest, decisions, public, private, leases,
                 promotions, background>>

PromotionNext ==
  \/ RegisterBaseline
  \/ \E c \in Challengers : RegisterIsolated(c)
  \/ \E c, driver, model \in Challengers : RegisterJoint(c, driver, model)
  \/ \E c, arm \in Candidates : AdmitPublic(c, arm)
  \/ \E c, arm \in Candidates, left \in Outcomes : EndPublic(c, arm, left)
  \/ \E c \in Candidates, verdict \in {"pass", "fail"} : DecideDevelopment(c, verdict)
  \/ \E c \in Candidates, verdict \in {"pass", "fail"} : DecideFactorial(c, verdict)
  \/ \E l \in Leases, c \in Candidates, split \in {"confirmation", "sealed"} :
        IssueLease(l, c, split)
  \/ \E l \in Leases : LeaseExpires(l)
  \/ \E l \in Leases, arm \in Candidates : AdmitPrivate(l, arm)
  \/ \E l \in Leases, arm \in Candidates, left \in Outcomes :
        EndPrivate(l, arm, left)
  \/ \E l \in Leases, verdict \in {"pass", "fail"} : DecideConfirmation(l, verdict)
  \/ \E l \in Leases : CompleteSealedEvaluation(l)
  \/ \E l \in Leases : AbandonLease(l)
  \/ \E c \in Candidates : Promote(c)
  \/ RollbackChampion
  \/ AdmitWork
  \/ \E owner, policy \in Candidates : AdmitServing(owner, policy)
  \/ ServingLive
  \/ \E phase \in {"none", "billing"} : WorkEnds(phase)
  \/ AdmissionChanges

PromotionSpec == PromotionInit /\ [][PromotionNext]_promotionVars

-----------------------------------------------------------------------------
(* Properties.                                                             *)

\* The tables keep their columns' types; candidates are registered in order.
PromotionTypeOK ==
  /\ champion \in {0} \union Candidates
  /\ status \in [Candidates -> {"absent"} \union CandidateStates]
  /\ manifest \in [Candidates -> Manifest]
  /\ decisions \in [Candidates -> [development: Verdicts, confirmation: Verdicts]]
  /\ public \in [Candidates -> [Candidates -> EpisodeStates]]
  /\ private \in [Leases -> [Candidates -> EpisodeStates]]
  /\ leases \in [Leases -> Lease]
  /\ promotions \in [Candidates -> Promotion]
  /\ background \in Background /\ admitting \in BOOLEAN

\* The row in state champion and the controller's pointer name one candidate,
\* although five operations write candidates.state without reading it.
OneChampion ==
  {c \in Candidates : status[c] = "champion"} = {champion} \ {0}

\* The active promotions are the chain that leads from the baseline to the
\* champion, so rolling back one after the other ends at the baseline.
PromotionsLeadToChampion ==
  champion # 0 =>
    {c \in Candidates : HasActivePromotion(c)}
      = {c \in Candidates \ {Baseline} : champion \in Descendants(c)}

\* Whoever was promoted had complete public evidence and one closed
\* confirmation lease with all its episodes complete, both against the very
\* champion it replaced.
PromotedOnEvidence ==
  \A c \in Candidates : promotions[c].state # "absent" =>
    /\ manifest[c].parent = promotions[c].previous
    /\ \A arm \in Arms(c) : public[c][arm] = "complete"
    /\ \E l \in Leases :
         /\ leases[l].state = "closed" /\ leases[l].split = "confirmation"
         /\ leases[l].candidate = c
         /\ \A arm \in Arms(c) : private[l][arm] = "complete"

\* The protected split is used once per candidate and at most as often as the
\* contract allows; an abandoned lease, a rollback or a late decision gives
\* no second attempt.
ConfirmedOnce ==
  /\ \A c \in Candidates :
       Cardinality({l \in Issued("confirmation") : leases[l].candidate = c}) <= 1
  /\ Cardinality(Issued("confirmation")) <= MaxConfirmations
  /\ Cardinality(Issued("sealed")) <= SealedUses

\* While a lease is open, nothing but its own episodes and an endpoint runs.
PrivateRunsAlone ==
  \A l \in Leases : Open(l) =>
    /\ OpenPublic = {}
    /\ \A e \in OpenPrivate : e[1] = l
    /\ background.phase # "working"

\* No episode runs for a candidate that no longer admits work, although
\* decisions, promotions and rollbacks of others retire it.
OpenWorkIsForLiveCandidates ==
  /\ \A e \in OpenPublic : Alive(e[2])
  /\ \A e \in OpenPrivate : Alive(e[2])

\* A champion that was rolled back is out for good, whatever decision or
\* lease about it comes late.
RolledBackStaysOut ==
  [][\A c \in Candidates :
       status[c] = "rolled_back" => status'[c] \in {"rolled_back", "retired"}]_promotionVars

\* To the campaign the controller keeps a line of champions (ChampionLine),
\* whatever decisions, leases, rollbacks and registrations interleave: one trial
\* per candidate, against the champion it replaces if it passes, and a deposed
\* champion gives way to the one before it for good.
TrialsOf(c) == {l \in Issued("confirmation") : leases[l].candidate = c}
Stage(c) ==
  IF promotions[c].state = "rolled_back" THEN "deposed"
  ELSE IF promotions[c].state = "active" \/ (c = Baseline /\ champion # 0) THEN "crowned"
  ELSE IF decisions[c].confirmation = "pass" THEN "passed"
  ELSE IF decisions[c].confirmation = "fail" THEN "failed"
  ELSE IF TrialsOf(c) = {} THEN "new"
  ELSE IF \E l \in TrialsOf(c) : Open(l) THEN "trial" ELSE "spent"
Rival(c) == IF TrialsOf(c) = {} THEN 0 ELSE manifest[c].parent
Line == INSTANCE ChampionLine WITH
  stage <- [c \in Candidates |-> Stage(c)], rival <- [c \in Candidates |-> Rival(c)]
KeepsChampionLine == Line!Spec

\* The comparison of a challenger with the champion it is based on can be
\* carried out: neither side's episode is one that admission never accepts.
ComparisonsCanComplete ==
  \A c \in Candidates :
    (status[c] = "materialized" /\ manifest[c].parent = champion)
      => \A arm \in Arms(c) : ComparisonAccepted(arm, c)
=============================================================================
