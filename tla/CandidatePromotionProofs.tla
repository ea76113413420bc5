---------------------- MODULE CandidatePromotionProofs ----------------------
(***************************************************************************)
(* Theorems about CandidatePromotion, for any number of candidates, leases *)
(* and desktop slots: the tables keep their types, there is one champion,  *)
(* a champion that was rolled back stays out, the protected split is read  *)
(* at most once per candidate, and it is read alone; whoever was promoted  *)
(* was so on evidence, the active promotions lead to the champion, and no  *)
(* episode runs for a dead candidate.                                      *)
(***************************************************************************)
EXTENDS CandidatePromotion, FiniteSetTheorems, TLAPS

LEMMA BaselineIsACandidate == Baseline \in Candidates /\ 0 \notin Candidates
BY PromotionAssumption, SMT DEF Candidates, Baseline

LEMMA LeasesAreFinite == IsFiniteSet(Leases)
<1>1. 1 \in Int /\ NumLeases \in Int
  BY PromotionAssumption, SMT DEF NumLeases
<1> QED
  BY <1>1, FS_Interval DEF Leases

-----------------------------------------------------------------------------
(* Type correctness.                                                       *)

LEMMA TypeOfRegistration ==
  ASSUME PromotionTypeOK,
         \/ RegisterBaseline
         \/ \E c \in Challengers : RegisterIsolated(c)
         \/ \E c, driver, model \in Challengers : RegisterJoint(c, driver, model)
  PROVE  PromotionTypeOK'
<1>1. CASE RegisterBaseline
  BY <1>1, BaselineIsACandidate, SMT DEF RegisterBaseline, PromotionTypeOK, CandidateStates
<1>2. ASSUME NEW c \in Challengers, NEW d \in {0} \union Candidates,
             NEW m \in {0} \union Candidates, Register(c, d, m)
      PROVE  PromotionTypeOK'
  <2>1. [class |-> ClassOf[c], parent |-> champion, driver |-> d, model |-> m] \in Manifest
    BY <1>2, PromotionAssumption, SMT DEF PromotionTypeOK, Manifest, Classes
  <2>2. manifest' \in [Candidates -> Manifest]
    BY <1>2, <2>1, SMT DEF Register, PromotionTypeOK, Challengers
  <2> QED
    BY <1>2, <2>2, SMT DEF Register, PromotionTypeOK, CandidateStates
<1>3. ASSUME NEW c \in Challengers, RegisterIsolated(c) PROVE PromotionTypeOK'
  <2>1. 0 \in {0} \union Candidates
    OBVIOUS
  <2> QED
    BY <1>2, <1>3, <2>1 DEF RegisterIsolated
<1>4. ASSUME NEW c \in Challengers, NEW d \in Challengers, NEW m \in Challengers,
             RegisterJoint(c, d, m)
      PROVE  PromotionTypeOK'
  <2>1. d \in {0} \union Candidates /\ m \in {0} \union Candidates
    BY DEF Challengers
  <2> QED
    BY <1>2, <1>4, <2>1 DEF RegisterJoint
<1> QED
  BY <1>1, <1>3, <1>4

(* Moving a lease to another state, or marking it expired, keeps its type. *)
LEMMA LeaseMoved ==
  ASSUME leases \in [Leases -> Lease], NEW l \in Leases,
         NEW state \in {"absent", "issued", "active", "closed", "abandoned"}
  PROVE  /\ [leases EXCEPT ![l].state = state] \in [Leases -> Lease]
         /\ [leases EXCEPT ![l].expired = TRUE] \in [Leases -> Lease]
<1>1. leases[l] \in Lease
  OBVIOUS
<1>2. [leases[l] EXCEPT !.state = state] \in Lease
  BY <1>1, Zenon DEF Lease
<1>3. [leases[l] EXCEPT !.expired = TRUE] \in Lease
  BY <1>1, Zenon DEF Lease
<1> QED
  BY <1>2, <1>3, Zenon

LEMMA TypeOfEpisodes ==
  ASSUME PromotionTypeOK,
         \/ \E c, arm \in Candidates : AdmitPublic(c, arm)
         \/ \E c, arm \in Candidates, left \in Outcomes : EndPublic(c, arm, left)
         \/ \E l \in Leases, arm \in Candidates : AdmitPrivate(l, arm)
         \/ \E l \in Leases, arm \in Candidates, left \in Outcomes : EndPrivate(l, arm, left)
  PROVE  PromotionTypeOK'
<1>1. Outcomes \subseteq EpisodeStates /\ "open" \in EpisodeStates
  BY PromotionAssumption, SMT DEF EpisodeStates, Recorded
<1>2. ASSUME NEW c \in Candidates, NEW arm \in Candidates, NEW left \in EpisodeStates,
             public' = [public EXCEPT ![c][arm] = left]
      PROVE  PromotionTypeOK => public' \in [Candidates -> [Candidates -> EpisodeStates]]
  BY <1>2, SMT DEF PromotionTypeOK
<1>3. ASSUME NEW l \in Leases, NEW arm \in Candidates, NEW left \in EpisodeStates,
             private' = [private EXCEPT ![l][arm] = left]
      PROVE  PromotionTypeOK => private' \in [Leases -> [Candidates -> EpisodeStates]]
  BY <1>3, SMT DEF PromotionTypeOK
<1>4. ASSUME NEW c \in Candidates, NEW arm \in Candidates, AdmitPublic(c, arm)
      PROVE  PromotionTypeOK'
  BY <1>1, <1>2, <1>4, SMT DEF AdmitPublic, PromotionTypeOK
<1>5. ASSUME NEW c \in Candidates, NEW arm \in Candidates, NEW left \in Outcomes,
             EndPublic(c, arm, left)
      PROVE  PromotionTypeOK'
  BY <1>1, <1>2, <1>5, SMT DEF EndPublic, PromotionTypeOK
<1>6. ASSUME NEW l \in Leases, NEW arm \in Candidates, AdmitPrivate(l, arm)
      PROVE  PromotionTypeOK'
  <2>1. leases' \in [Leases -> Lease]
    BY <1>6, LeaseMoved DEF AdmitPrivate, PromotionTypeOK
  <2> QED
    BY <1>1, <1>3, <1>6, <2>1, SMT DEF AdmitPrivate, PromotionTypeOK
<1>7. ASSUME NEW l \in Leases, NEW arm \in Candidates, NEW left \in Outcomes,
             EndPrivate(l, arm, left)
      PROVE  PromotionTypeOK'
  BY <1>1, <1>3, <1>7, SMT DEF EndPrivate, PromotionTypeOK
<1> QED
  BY <1>4, <1>5, <1>6, <1>7

LEMMA TypeOfDecisions ==
  ASSUME PromotionTypeOK,
         NEW verdict \in {"pass", "fail"},
         \/ \E c \in Candidates : DecideOnDevelopment(c, verdict)
         \/ \E l \in Leases : DecideConfirmation(l, verdict)
  PROVE  PromotionTypeOK'
<1>1. ASSUME NEW c \in Candidates, DecideOnDevelopment(c, verdict) PROVE PromotionTypeOK'
  <2>1. [decisions[c] EXCEPT !.development = verdict]
          \in [development: Verdicts, confirmation: Verdicts]
    BY SMT DEF PromotionTypeOK, Verdicts
  <2>2. decisions' \in [Candidates -> [development: Verdicts, confirmation: Verdicts]]
    BY <1>1, <2>1, SMT DEF DecideOnDevelopment, PromotionTypeOK
  <2>3. DecisionState(verdict) \in CandidateStates
    BY DEF DecisionState, CandidateStates
  <2> QED
    BY <1>1, <2>2, <2>3, SMT DEF DecideOnDevelopment, PromotionTypeOK
<1>2. ASSUME NEW l \in Leases, DecideConfirmation(l, verdict) PROVE PromotionTypeOK'
  <2> DEFINE c == leases[l].candidate
  <2>1. c \in {0} \union Candidates
    BY DEF PromotionTypeOK, Lease
  <2>2. leases' \in [Leases -> Lease]
    BY <1>2, LeaseMoved DEF DecideConfirmation, PromotionTypeOK
  <2>3. decisions' \in [Candidates -> [development: Verdicts, confirmation: Verdicts]]
    <3>1. CASE c \in Candidates
      <4>1. ASSUME NEW row \in [development: Verdicts, confirmation: Verdicts]
            PROVE  [row EXCEPT !.confirmation = verdict]
                     \in [development: Verdicts, confirmation: Verdicts]
        BY SMT DEF Verdicts
      <4>2. decisions' = [decisions EXCEPT ![c].confirmation = verdict]
        BY <1>2 DEF DecideConfirmation
      <4> HIDE DEF c
      <4> QED
        BY <3>1, <4>1, <4>2, SMT DEF PromotionTypeOK
    <3>2. CASE c \notin Candidates
      <4>1. decisions' = [decisions EXCEPT ![c].confirmation = verdict]
        BY <1>2 DEF DecideConfirmation
      <4> HIDE DEF c
      <4> QED
        BY <3>2, <4>1, Zenon DEF PromotionTypeOK
    <3> QED
      BY <3>1, <3>2
  <2>4. status' \in [Candidates -> {"absent"} \union CandidateStates]
    <3> DEFINE state == IF verdict = "pass" THEN "confirmed" ELSE "rejected"
    <3>1. status' = [status EXCEPT ![c] = state]
      BY <1>2 DEF DecideConfirmation
    <3>2. state \in {"absent"} \union CandidateStates
      BY DEF CandidateStates
    <3> HIDE DEF c, state
    <3> QED
      BY <3>1, <3>2, Zenon DEF PromotionTypeOK
  <2> QED
    BY <1>2, <2>2, <2>3, <2>4, SMT DEF DecideConfirmation, PromotionTypeOK
<1> QED
  BY <1>1, <1>2

LEMMA TypeOfLeases ==
  ASSUME PromotionTypeOK, NEW l \in Leases,
         \/ \E c \in Candidates, split \in {"confirmation", "sealed"} : IssueLease(l, c, split)
         \/ LeaseExpires(l) \/ CompleteSealedEvaluation(l) \/ AbandonLease(l)
  PROVE  PromotionTypeOK'
<1>1. ASSUME NEW c \in Candidates, NEW split \in {"confirmation", "sealed"},
             IssueLease(l, c, split)
      PROVE  PromotionTypeOK'
  <2>1. [state |-> "issued", split |-> split, candidate |-> c, expired |-> FALSE] \in Lease
    BY DEF Lease
  <2>2. leases' \in [Leases -> Lease]
    BY <1>1, <2>1, Zenon DEF IssueLease, PromotionTypeOK
  <2> QED
    BY <1>1, <2>2, SMT DEF IssueLease, PromotionTypeOK
<1>2. CASE LeaseExpires(l)
  <2>1. leases' \in [Leases -> Lease]
    BY <1>2, LeaseMoved DEF LeaseExpires, PromotionTypeOK
  <2> QED
    BY <1>2, <2>1, SMT DEF LeaseExpires, PromotionTypeOK
<1>3. CASE CompleteSealedEvaluation(l)
  <2>1. leases' \in [Leases -> Lease]
    BY <1>3, LeaseMoved DEF CompleteSealedEvaluation, PromotionTypeOK
  <2> QED
    BY <1>3, <2>1, SMT DEF CompleteSealedEvaluation, PromotionTypeOK
<1>4. CASE AbandonLease(l)
  <2>1. leases' \in [Leases -> Lease]
    BY <1>4, LeaseMoved DEF AbandonLease, PromotionTypeOK
  <2>2. status' \in [Candidates -> {"absent"} \union CandidateStates]
    <3> DEFINE c == leases[l].candidate
    <3>1. c \in Candidates => AfterAbandonment(status[c]) \in {"absent"} \union CandidateStates
      BY DEF AfterAbandonment, PromotionTypeOK, CandidateStates
    <3>2. \/ status' = status
          \/ status' = [status EXCEPT ![c] = AfterAbandonment(status[c])]
      BY <1>4 DEF AbandonLease
    <3> HIDE DEF c
    <3> QED
      BY <3>1, <3>2, Zenon DEF PromotionTypeOK
  <2> QED
    BY <1>4, <2>1, <2>2, SMT DEF AbandonLease, PromotionTypeOK
<1> QED
  BY <1>1, <1>2, <1>3, <1>4

LEMMA TypeOfPromotions ==
  ASSUME PromotionTypeOK, (\E c \in Candidates : Promote(c)) \/ RollbackChampion
  PROVE  PromotionTypeOK'
<1>1. ASSUME NEW c \in Candidates, Promote(c) PROVE PromotionTypeOK'
  <2>1. [state |-> "active", previous |-> champion] \in Promotion
    BY DEF Promotion, PromotionTypeOK
  <2>2. promotions' \in [Candidates -> Promotion]
    BY <1>1, <2>1, Zenon DEF Promote, PromotionTypeOK
  <2>3. status' \in [Candidates -> {"absent"} \union CandidateStates]
    BY <1>1, SMT DEF Promote, PromotionTypeOK, CandidateStates
  <2> QED
    BY <1>1, <2>2, <2>3, SMT DEF Promote, PromotionTypeOK
<1>2. CASE RollbackChampion
  <2>1. champion \in Candidates
    BY <1>2 DEF RollbackChampion, PromotionTypeOK
  <2>2. Withdrawn(promotions[champion]) \in Promotion /\ promotions[champion] \in Promotion
    <3>1. ASSUME NEW row \in Promotion PROVE Withdrawn(row) \in Promotion
      BY SMT DEF Withdrawn, Promotion
    <3> QED
      BY <2>1, <3>1 DEF PromotionTypeOK
  <2>3. promotions' \in [Candidates -> Promotion]
    BY <1>2, <2>2, Zenon DEF RollbackChampion, PromotionTypeOK
  <2>4. status' \in [Candidates -> {"absent"} \union CandidateStates]
    <3> DEFINE down == Descendants(champion)
               previous == promotions[champion].previous
    <3>1. status' = [d \in Candidates |->
             IF d = previous THEN "champion"
             ELSE IF d = champion THEN "rolled_back"
             ELSE IF d \in down THEN "retired" ELSE status[d]]
      BY <1>2 DEF RollbackChampion
    <3> HIDE DEF down, previous
    <3> QED
      BY <3>1, SMT DEF PromotionTypeOK, CandidateStates
  <2>5. champion' \in {0} \union Candidates
    BY <1>2, <2>2 DEF RollbackChampion, Promotion
  <2> QED
    BY <1>2, <2>3, <2>4, <2>5, SMT DEF RollbackChampion, PromotionTypeOK
<1> QED
  BY <1>1, <1>2

LEMMA TypeOfBackground ==
  ASSUME PromotionTypeOK,
         \/ AdmitWork \/ \E owner, policy \in Candidates : AdmitServing(owner, policy)
         \/ ServingLive \/ (\E phase \in {"none", "billing"} : WorkEnds(phase))
         \/ AdmissionChanges
  PROVE  PromotionTypeOK'
<1>1. CASE AdmitWork
  BY <1>1, SMT DEF AdmitWork, PromotionTypeOK, Background
<1>2. ASSUME NEW owner \in Candidates, NEW policy \in Candidates, AdmitServing(owner, policy)
      PROVE  PromotionTypeOK'
  BY <1>2, SMT DEF AdmitServing, PromotionTypeOK, Background
<1>3. CASE ServingLive
  BY <1>3, SMT DEF ServingLive, PromotionTypeOK, Background
<1>4. ASSUME NEW phase \in {"none", "billing"}, WorkEnds(phase) PROVE PromotionTypeOK'
  BY <1>4, SMT DEF WorkEnds, PromotionTypeOK, Background
<1>5. CASE AdmissionChanges
  BY <1>5, Zenon DEF AdmissionChanges, PromotionTypeOK
<1> QED
  BY <1>1, <1>2, <1>3, <1>4, <1>5

LEMMA TypeOfStep ==
  ASSUME PromotionTypeOK, [PromotionNext]_promotionVars
  PROVE  PromotionTypeOK'
<1>1. CASE UNCHANGED promotionVars
  BY <1>1, Zenon DEF promotionVars, PromotionTypeOK
<1>2. ASSUME NEW c \in Candidates, NEW verdict \in {"pass", "fail"},
             DecideDevelopment(c, verdict) \/ DecideFactorial(c, verdict)
      PROVE  PromotionTypeOK'
  BY <1>2, TypeOfDecisions DEF DecideDevelopment, DecideFactorial
<1>3. ASSUME NEW l \in Leases, NEW verdict \in {"pass", "fail"},
             DecideConfirmation(l, verdict)
      PROVE  PromotionTypeOK'
  BY <1>3, TypeOfDecisions
<1> QED
  BY <1>1, <1>2, <1>3, TypeOfRegistration, TypeOfEpisodes, TypeOfLeases, TypeOfPromotions,
     TypeOfBackground, Zenon DEF PromotionNext

\* The candidates', leases', decisions' and promotions' tables keep their
\* types, whatever comes late.
THEOREM PromotionTypeCorrect == PromotionSpec => []PromotionTypeOK
<1>1. PromotionInit => PromotionTypeOK
  <2> SUFFICES ASSUME PromotionInit PROVE PromotionTypeOK
    OBVIOUS
  <2>1. NoManifest \in Manifest /\ NoEpisodes \in [Candidates -> EpisodeStates]
    BY DEF NoManifest, Manifest, Classes, NoEpisodes, EpisodeStates
  <2>2. [development |-> "none", confirmation |-> "none"]
          \in [development: Verdicts, confirmation: Verdicts]
    BY DEF Verdicts
  <2>3. NoLease \in Lease /\ Idle \in Background
    BY SMT DEF NoLease, Lease, Idle, Background
  <2>4. [state |-> "absent", previous |-> 0] \in Promotion
    BY DEF Promotion
  <2> QED
    BY <2>1, <2>2, <2>3, <2>4, SMT DEF PromotionInit, PromotionTypeOK
<1>2. PromotionTypeOK /\ [PromotionNext]_promotionVars => PromotionTypeOK'
  BY TypeOfStep
<1> QED
  BY <1>1, <1>2, PTL DEF PromotionSpec

-----------------------------------------------------------------------------
(* One champion.  The operations that write candidates.state without       *)
(* reading it could crown, depose or revive anyone; that they never meet a *)
(* champion rests on what the invariant keeps about the other tables:      *)
(* whoever was promoted has been decided upon (so a late development       *)
(* decision only repeats itself), a confirmation lease is never open for a *)
(* present or former champion (so its late decision meets a challenger),   *)
(* and the active promotions lead back from the champion (so a rollback    *)
(* restores a candidate that was never rolled back itself).                *)

SoleChampion == \A c \in Candidates : status[c] = "champion" <=> c = champion

BaselineFirst ==
  /\ manifest[Baseline].parent = 0 /\ manifest[Baseline].class = "baseline"
  /\ promotions[Baseline].state = "absent"
  /\ champion = 0 =>
       \A c \in Candidates : status[c] = "absent" /\ promotions[c].state = "absent"
  /\ champion # 0 => status[Baseline] # "absent"

PromotedAreDecided ==
  \A c \in Candidates :
    (promotions[c].state # "absent" \/ status[c] \in {"nominated", "confirmed"})
      => decisions[c].development # "none"

StatesMatchPromotions ==
  \A c \in Candidates :
    /\ status[c] = "champion" => c = Baseline \/ promotions[c].state = "active"
    /\ status[c] = "rolled_back" => promotions[c].state = "rolled_back"
    /\ status[c] = "nominated" => c # Baseline /\ promotions[c].state = "absent"

LeaseFits(l, c) ==
  /\ c \in Candidates /\ status[c] # "absent"
  /\ leases[l].split = "confirmation" =>
       /\ c # Baseline /\ decisions[c].development # "none"
       /\ Open(l) => promotions[c].state = "absent"
       /\ ~Open(l) => status[c] # "nominated"
LeasesAreForChallengers ==
  \A l \in Leases : leases[l].state # "absent" => LeaseFits(l, leases[l].candidate)

ActiveChain ==
  /\ \A d \in Candidates : promotions[d].state = "active" =>
       /\ promotions[d].previous \in Candidates \ {d, champion}
       /\ \/ promotions[d].previous = Baseline
          \/ promotions[promotions[d].previous].state = "active"
  /\ \A d, e \in Candidates :
       /\ promotions[d].state = "active" /\ promotions[e].state = "active"
       /\ promotions[d].previous = promotions[e].previous
       => d = e

ChampionInv ==
  /\ SoleChampion /\ BaselineFirst /\ PromotedAreDecided /\ StatesMatchPromotions
  /\ LeasesAreForChallengers /\ ActiveChain

LEMMA SoleIsOne == PromotionTypeOK /\ SoleChampion => OneChampion
BY BaselineIsACandidate, Zenon DEF PromotionTypeOK, SoleChampion, OneChampion

LEMMA ChampionInvInit == PromotionInit => ChampionInv
<1> SUFFICES ASSUME PromotionInit PROVE ChampionInv
  OBVIOUS
<1>1. SoleChampion /\ BaselineFirst
  BY BaselineIsACandidate, SMT DEF PromotionInit, SoleChampion, BaselineFirst, NoManifest
<1>2. PromotedAreDecided /\ StatesMatchPromotions /\ ActiveChain
  BY SMT DEF PromotionInit, PromotedAreDecided, StatesMatchPromotions, ActiveChain
<1>3. LeasesAreForChallengers
  BY SMT DEF PromotionInit, LeasesAreForChallengers, NoLease
<1> QED
  BY <1>1, <1>2, <1>3 DEF ChampionInv

\* Operations that touch none of the tables the invariant speaks of.
LEMMA ChampionInvElsewhere ==
  ASSUME ChampionInv,
         UNCHANGED <<champion, status, manifest, decisions, promotions, leases>>
  PROVE  ChampionInv'
<1>1. SoleChampion' /\ BaselineFirst' /\ PromotedAreDecided' /\ StatesMatchPromotions'
  BY SMT DEF ChampionInv, SoleChampion, BaselineFirst, PromotedAreDecided, StatesMatchPromotions
<1>2. LeasesAreForChallengers'
  BY SMT DEF ChampionInv, LeasesAreForChallengers, LeaseFits, Open
<1>3. ActiveChain'
  BY SMT DEF ChampionInv, ActiveChain
<1> QED
  BY <1>1, <1>2, <1>3 DEF ChampionInv

LEMMA ChampionInvRegisterBaseline ==
  ASSUME PromotionTypeOK, ChampionInv, RegisterBaseline
  PROVE  ChampionInv'
<1>1. /\ champion = 0 /\ champion' = Baseline /\ Baseline \in Candidates
      /\ \A c \in Candidates : status[c] = "absent" /\ promotions[c].state = "absent"
      /\ \A c \in Candidates : status'[c] = IF c = Baseline THEN "champion" ELSE status[c]
      /\ UNCHANGED <<manifest, decisions, promotions, leases>>
  BY BaselineIsACandidate, SMT
  DEF RegisterBaseline, ChampionInv, BaselineFirst, PromotionTypeOK
<1>2. SoleChampion' /\ BaselineFirst'
  BY <1>1, BaselineIsACandidate, SMT DEF ChampionInv, SoleChampion, BaselineFirst
<1>3. PromotedAreDecided' /\ StatesMatchPromotions'
  BY <1>1, SMT DEF ChampionInv, PromotedAreDecided, StatesMatchPromotions
<1>4. LeasesAreForChallengers'
  BY <1>1, SMT DEF ChampionInv, LeasesAreForChallengers, LeaseFits, Open
<1>5. ActiveChain'
  BY <1>1, SMT DEF ActiveChain
<1> QED
  BY <1>2, <1>3, <1>4, <1>5 DEF ChampionInv

LEMMA ChampionInvRegister ==
  ASSUME PromotionTypeOK, ChampionInv,
         NEW c \in Challengers, NEW d, NEW m, Register(c, d, m)
  PROVE  ChampionInv'
<1>1. /\ champion # 0 /\ c \in Candidates \ {Baseline} /\ status[c] = "absent"
      /\ \A e \in Candidates : status'[e] = IF e = c THEN "materialized" ELSE status[e]
      /\ manifest'[Baseline] = manifest[Baseline]
      /\ UNCHANGED <<champion, decisions, promotions, leases>>
  BY BaselineIsACandidate, SMT DEF Register, Registered, PromotionTypeOK, Challengers
<1>2. SoleChampion' /\ BaselineFirst'
  BY <1>1, BaselineIsACandidate, SMT DEF ChampionInv, SoleChampion, BaselineFirst
<1>3. PromotedAreDecided' /\ StatesMatchPromotions'
  BY <1>1, SMT DEF ChampionInv, PromotedAreDecided, StatesMatchPromotions
<1>4. LeasesAreForChallengers'
  BY <1>1, SMT DEF ChampionInv, LeasesAreForChallengers, LeaseFits, Open
<1>5. ActiveChain'
  BY <1>1, SMT DEF ChampionInv, ActiveChain
<1> QED
  BY <1>2, <1>3, <1>4, <1>5 DEF ChampionInv

LEMMA ChampionInvDecideOnDevelopment ==
  ASSUME PromotionTypeOK, ChampionInv,
         NEW c \in Candidates, NEW verdict \in {"pass", "fail"},
         DecideDevelopment(c, verdict) \/ DecideFactorial(c, verdict)
  PROVE  ChampionInv'
<1>1. /\ c # Baseline /\ status[c] # "absent" /\ decisions[c].development = "none"
      /\ \A e \in Candidates : status'[e] = IF e = c THEN DecisionState(verdict) ELSE status[e]
      /\ UNCHANGED <<champion, manifest, promotions, leases>>
  BY SMT DEF DecideDevelopment, DecideFactorial, DecideOnDevelopment, Undecided, Registered,
     ChampionInv, BaselineFirst, PromotionTypeOK
<1>2. \A e \in Candidates : decisions'[e].development = IF e = c THEN verdict
                                                         ELSE decisions[e].development
  BY Zenon DEF DecideDevelopment, DecideFactorial, DecideOnDevelopment, PromotionTypeOK
<1>3. verdict # "none" /\ DecisionState(verdict) \in {"nominated", "rejected"}
  BY DEF DecisionState
<1>4. promotions[c].state = "absent" /\ status[c] # "champion" /\ c # champion
  BY <1>1, SMT DEF ChampionInv, SoleChampion, PromotedAreDecided, StatesMatchPromotions
<1>5. SoleChampion' /\ BaselineFirst'
  BY <1>1, <1>3, <1>4, BaselineIsACandidate, SMT DEF ChampionInv, SoleChampion, BaselineFirst
<1>6. PromotedAreDecided' /\ StatesMatchPromotions'
  BY <1>1, <1>2, <1>3, <1>4, SMT DEF ChampionInv, PromotedAreDecided, StatesMatchPromotions
<1>7. LeasesAreForChallengers'
  BY <1>1, <1>2, <1>3, SMT DEF ChampionInv, LeasesAreForChallengers, LeaseFits, Open
<1>8. ActiveChain'
  BY <1>1, SMT DEF ChampionInv, ActiveChain
<1> QED
  BY <1>5, <1>6, <1>7, <1>8 DEF ChampionInv

\* A lease that is opened fits: its candidate is nominated, or the champion.
LEMMA ChampionInvIssueLease ==
  ASSUME PromotionTypeOK, ChampionInv, NEW l \in Leases, NEW c \in Candidates,
         NEW split \in {"confirmation", "sealed"}, IssueLease(l, c, split)
  PROVE  ChampionInv'
<1>1. /\ UNCHANGED <<champion, status, manifest, decisions, promotions>>
      /\ leases[l].state = "absent" /\ status[c] \in {"nominated", "champion"}
      /\ split = "confirmation" => status[c] = "nominated"
      /\ leases' = [leases EXCEPT ![l] = [state |-> "issued", split |-> split,
                                          candidate |-> c, expired |-> FALSE]]
  BY SMT DEF IssueLease
<1>2. \A k \in Leases : k # l => leases'[k] = leases[k]
  BY <1>1, Zenon DEF PromotionTypeOK
<1>3. /\ leases'[l].state = "issued" /\ leases'[l].split = split
      /\ leases'[l].candidate = c
  BY <1>1, Zenon DEF PromotionTypeOK
<1>4. SoleChampion' /\ BaselineFirst' /\ PromotedAreDecided' /\ StatesMatchPromotions'
  BY <1>1, SMT DEF ChampionInv, SoleChampion, BaselineFirst, PromotedAreDecided,
     StatesMatchPromotions
<1>5. ActiveChain'
  BY <1>1, SMT DEF ChampionInv, ActiveChain
<1>6. LeasesAreForChallengers'
  BY <1>1, <1>2, <1>3, SMT DEF ChampionInv, LeasesAreForChallengers, LeaseFits, Open,
     PromotedAreDecided, StatesMatchPromotions
<1> QED
  BY <1>4, <1>5, <1>6 DEF ChampionInv

\* What a step that keeps the lease l, or moves it on, leaves of its row.
LEMMA RowOfMovedLease ==
  ASSUME PromotionTypeOK, NEW l \in Leases,
         \/ LeaseExpires(l) \/ (\E arm \in Candidates : AdmitPrivate(l, arm))
         \/ (\E verdict \in {"pass", "fail"} : DecideConfirmation(l, verdict))
         \/ CompleteSealedEvaluation(l) \/ AbandonLease(l)
  PROVE  /\ Open(l)
         /\ \A k \in Leases : k # l => leases'[k] = leases[k]
         /\ leases'[l].split = leases[l].split
         /\ leases'[l].candidate = leases[l].candidate
<1>1. Open(l)
  BY Zenon DEF LeaseExpires, AdmitPrivate, DecideConfirmation, CompleteSealedEvaluation,
     AbandonLease
<1>2. ASSUME NEW state, leases' = [leases EXCEPT ![l].state = state]
      PROVE  /\ \A k \in Leases : k # l => leases'[k] = leases[k]
             /\ leases'[l].split = leases[l].split
             /\ leases'[l].candidate = leases[l].candidate
  BY <1>2, SMT DEF PromotionTypeOK, Lease
<1>3. ASSUME leases' = [leases EXCEPT ![l].expired = TRUE]
      PROVE  /\ \A k \in Leases : k # l => leases'[k] = leases[k]
             /\ leases'[l].split = leases[l].split
             /\ leases'[l].candidate = leases[l].candidate
  BY <1>3, SMT DEF PromotionTypeOK, Lease
<1>4. \/ leases' = [leases EXCEPT ![l].expired = TRUE]
      \/ \E state \in {"active", "closed", "abandoned"} :
           leases' = [leases EXCEPT ![l].state = state]
  BY Zenon DEF LeaseExpires, AdmitPrivate, DecideConfirmation, CompleteSealedEvaluation,
     AbandonLease
<1> QED
  BY <1>1, <1>2, <1>3, <1>4

\* Expiry, an admission and a sealed report change no candidate.
LEMMA ChampionInvLeaseMoves ==
  ASSUME PromotionTypeOK, ChampionInv, NEW l \in Leases,
         \/ LeaseExpires(l) \/ (\E arm \in Candidates : AdmitPrivate(l, arm))
         \/ CompleteSealedEvaluation(l)
  PROVE  ChampionInv'
<1>1. UNCHANGED <<champion, status, manifest, decisions, promotions>>
  BY Zenon DEF LeaseExpires, AdmitPrivate, CompleteSealedEvaluation
<1>2. /\ Open(l)
      /\ \A k \in Leases : k # l => leases'[k] = leases[k]
      /\ leases'[l].split = leases[l].split
      /\ leases'[l].candidate = leases[l].candidate
  BY RowOfMovedLease
<1>3. leases[l].split = "sealed" \/ leases'[l].state \in {"issued", "active"}
  <2>1. CASE LeaseExpires(l)
    BY <2>1, SMT DEF LeaseExpires, Open, PromotionTypeOK, Lease
  <2>2. CASE \E arm \in Candidates : AdmitPrivate(l, arm)
    BY <2>2, SMT DEF AdmitPrivate, PromotionTypeOK, Lease
  <2>3. CASE CompleteSealedEvaluation(l)
    BY <2>3 DEF CompleteSealedEvaluation
  <2> QED
    BY <2>1, <2>2, <2>3
<1>4. SoleChampion' /\ BaselineFirst' /\ PromotedAreDecided' /\ StatesMatchPromotions'
  BY <1>1, SMT DEF ChampionInv, SoleChampion, BaselineFirst, PromotedAreDecided,
     StatesMatchPromotions
<1>5. ActiveChain'
  BY <1>1, SMT DEF ChampionInv, ActiveChain
<1>6. LeasesAreForChallengers'
  BY <1>1, <1>2, <1>3, SMT DEF ChampionInv, LeasesAreForChallengers, LeaseFits, Open
<1> QED
  BY <1>4, <1>5, <1>6 DEF ChampionInv

\* A late decision, or the abandonment of the lease, meets a challenger that
\* was never promoted.
LEMMA ChampionInvLeaseEnds ==
  ASSUME PromotionTypeOK, ChampionInv, NEW l \in Leases,
         \/ \E verdict \in {"pass", "fail"} : DecideConfirmation(l, verdict)
         \/ AbandonLease(l)
  PROVE  ChampionInv'
<1> DEFINE c == leases[l].candidate
<1>1. /\ Open(l)
      /\ \A k \in Leases : k # l => leases'[k] = leases[k]
      /\ leases'[l].split = leases[l].split
      /\ leases'[l].candidate = c
  BY RowOfMovedLease
<1>2. UNCHANGED <<champion, manifest, promotions>>
  BY Zenon DEF DecideConfirmation, AbandonLease
<1>3. leases'[l].state \in {"closed", "abandoned"}
  BY SMT DEF DecideConfirmation, AbandonLease, PromotionTypeOK, Lease
<1>4. \A e \in Candidates : decisions'[e].development = decisions[e].development
  <2>1. CASE \E verdict \in {"pass", "fail"} : DecideConfirmation(l, verdict)
    <3>1. PICK verdict \in {"pass", "fail"} :
            decisions' = [decisions EXCEPT ![c].confirmation = verdict]
      BY <2>1 DEF DecideConfirmation
    <3> HIDE DEF c
    <3> QED
      BY <3>1, SMT DEF PromotionTypeOK
  <2>2. CASE AbandonLease(l)
    BY <2>2 DEF AbandonLease
  <2> QED
    BY <2>1, <2>2
<1>5. LeaseFits(l, c)
  BY <1>1, SMT DEF ChampionInv, LeasesAreForChallengers, Open
<1>6. /\ \A e \in Candidates : e # c => status'[e] = status[e]
      /\ leases[l].split = "sealed" => status' = status
      /\ leases[l].split = "confirmation" =>
           /\ status'[c] \notin {"nominated", "absent"}
           /\ status'[c] = status[c] \/ status'[c] \in {"confirmed", "rejected"}
  <2>1. c \in Candidates
    BY <1>5 DEF LeaseFits
  <2>2. CASE \E verdict \in {"pass", "fail"} : DecideConfirmation(l, verdict)
    <3>1. PICK state \in {"confirmed", "rejected"} : status' = [status EXCEPT ![c] = state]
      BY <2>2, Zenon DEF DecideConfirmation
    <3>2. leases[l].split = "confirmation"
      BY <2>2 DEF DecideConfirmation
    <3> HIDE DEF c
    <3> QED
      BY <2>1, <3>1, <3>2, SMT DEF PromotionTypeOK
  <2>3. CASE AbandonLease(l)
    <3>1. status' = IF leases[l].split = "confirmation"
                    THEN [status EXCEPT ![c] = AfterAbandonment(status[c])] ELSE status
      BY <2>3 DEF AbandonLease
    <3>2. status[c] # "absent"
      BY <1>5 DEF LeaseFits
    <3> HIDE DEF c
    <3> QED
      BY <2>1, <3>1, <3>2, SMT DEF PromotionTypeOK, AfterAbandonment
  <2> QED
    BY <2>2, <2>3
<1>7. leases[l].split \in {"confirmation", "sealed"}
  BY DEF PromotionTypeOK, Lease
<1>8. /\ c \in Candidates /\ status[c] # "absent"
      /\ leases[l].split = "confirmation" =>
           /\ c # Baseline /\ promotions[c].state = "absent"
           /\ decisions[c].development # "none"
  BY <1>1, <1>5, SMT DEF LeaseFits
<1>9. \A k \in Leases : Open(k) /\ k # l => Open(k)'
  BY <1>1 DEF Open
<1>10. ~Open(l)'
  BY <1>3 DEF Open
<1> HIDE DEF c
<1>11. leases[l].split = "confirmation" => status[c] # "champion" /\ c # champion
  BY <1>8, SMT DEF ChampionInv, SoleChampion, StatesMatchPromotions
<1>12. SoleChampion' /\ BaselineFirst'
  BY <1>2, <1>6, <1>7, <1>8, <1>11, BaselineIsACandidate, SMT
  DEF ChampionInv, SoleChampion, BaselineFirst
<1>13. PromotedAreDecided' /\ StatesMatchPromotions'
  BY <1>2, <1>4, <1>6, <1>7, <1>8, SMT
  DEF ChampionInv, PromotedAreDecided, StatesMatchPromotions
<1>14. ActiveChain'
  BY <1>2, SMT DEF ChampionInv, ActiveChain
<1>15. LeasesAreForChallengers'
  BY <1>1, <1>2, <1>3, <1>4, <1>6, <1>7, <1>8, SMT
  DEF ChampionInv, LeasesAreForChallengers, LeaseFits, Open, c
<1> QED
  BY <1>12, <1>13, <1>14, <1>15 DEF ChampionInv

\* The candidate's parent is the champion, so it is a challenger, and the
\* champion becomes the link that the promotion leads back to.
LEMMA ChampionInvPromote ==
  ASSUME PromotionTypeOK, ChampionInv, NEW c \in Candidates, Promote(c)
  PROVE  ChampionInv'
<1>1. /\ status[c] = "confirmed" /\ manifest[c].parent = champion
      /\ NoOpenLease /\ promotions[c].state = "absent"
      /\ champion' = c
      /\ UNCHANGED <<manifest, decisions, leases>>
  BY Zenon DEF Promote
<1>2. champion \in Candidates /\ status[champion] = "champion" /\ champion # c /\ c # Baseline
  BY <1>1, BaselineIsACandidate, SMT DEF PromotionTypeOK, ChampionInv, SoleChampion, BaselineFirst
<1>3. \A d \in Candidates : status'[d] =
         IF d = c THEN "champion" ELSE IF status[d] \in Retiring THEN "retired" ELSE status[d]
  BY Zenon DEF Promote
<1>4. /\ promotions'[c] = [state |-> "active", previous |-> champion]
      /\ \A d \in Candidates : d # c => promotions'[d] = promotions[d]
  BY Zenon DEF Promote, PromotionTypeOK
<1>5. promotions'[c].state = "active" /\ promotions'[c].previous = champion
  BY <1>4
<1>6. SoleChampion' /\ BaselineFirst'
  BY <1>1, <1>2, <1>3, <1>4, BaselineIsACandidate, SMT
  DEF ChampionInv, SoleChampion, BaselineFirst, Retiring
<1>7. PromotedAreDecided' /\ StatesMatchPromotions'
  BY <1>1, <1>2, <1>3, <1>4, <1>5, SMT
  DEF ChampionInv, PromotedAreDecided, StatesMatchPromotions, Retiring
<1>8. LeasesAreForChallengers'
  BY <1>1, <1>3, <1>4, SMT
  DEF ChampionInv, LeasesAreForChallengers, LeaseFits, Open, NoOpenLease, Retiring
<1>9. champion = Baseline \/ promotions[champion].state = "active"
  BY <1>2, SMT DEF ChampionInv, StatesMatchPromotions
<1>10. ActiveChain'
  BY <1>1, <1>2, <1>4, <1>5, <1>9, SMT DEF ChampionInv, ActiveChain
<1> QED
  BY <1>6, <1>7, <1>8, <1>10 DEF ChampionInv

\* The candidate that a rollback restores is not the one it withdraws, and no
\* other active promotion leads back to it.
LEMMA ChampionInvRollback ==
  ASSUME PromotionTypeOK, ChampionInv, RollbackChampion
  PROVE  ChampionInv'
<1> DEFINE previous == promotions[champion].previous
           down == Descendants(champion)
<1>1. /\ champion \in Candidates /\ promotions[champion].state = "active"
      /\ champion' = previous
      /\ UNCHANGED <<manifest, decisions, leases>>
  BY SMT DEF RollbackChampion, HasActivePromotion, PromotionTypeOK
<1>2. \A d \in Candidates : status'[d] =
         IF d = previous THEN "champion"
         ELSE IF d = champion THEN "rolled_back"
         ELSE IF d \in down THEN "retired" ELSE status[d]
  BY Zenon DEF RollbackChampion
<1>3. /\ promotions'[champion] = Withdrawn(promotions[champion])
      /\ \A d \in Candidates : d # champion => promotions'[d] = promotions[d]
  BY <1>1, Zenon DEF RollbackChampion, PromotionTypeOK
<1>4. promotions'[champion].state = "rolled_back"
  <2>1. ASSUME NEW row \in Promotion PROVE Withdrawn(row).state = "rolled_back"
    BY SMT DEF Withdrawn, Promotion
  <2> QED
    BY <1>1, <1>3, <2>1 DEF PromotionTypeOK
<1>5. /\ previous \in Candidates /\ previous # champion
      /\ previous = Baseline \/ promotions[previous].state = "active"
  BY <1>1, SMT DEF ChampionInv, ActiveChain
<1>6. \A d \in Candidates : promotions[d].state = "active" /\ d # champion
                              => promotions[d].previous # previous
  BY <1>1, SMT DEF ChampionInv, ActiveChain
<1> HIDE DEF previous, down
<1>7. SoleChampion' /\ BaselineFirst'
  BY <1>1, <1>2, <1>3, <1>5, BaselineIsACandidate, SMT
  DEF ChampionInv, SoleChampion, BaselineFirst
<1>8. PromotedAreDecided' /\ StatesMatchPromotions'
  BY <1>1, <1>2, <1>3, <1>4, <1>5, SMT
  DEF ChampionInv, SoleChampion, PromotedAreDecided, StatesMatchPromotions
<1>9. LeasesAreForChallengers'
  BY <1>1, <1>2, <1>3, SMT DEF ChampionInv, LeasesAreForChallengers, LeaseFits, Open
<1>10. ActiveChain'
  BY <1>1, <1>3, <1>4, <1>5, <1>6, SMT DEF ChampionInv, ActiveChain
<1> QED
  BY <1>7, <1>8, <1>9, <1>10 DEF ChampionInv

LEMMA ChampionInvStep ==
  ASSUME PromotionTypeOK, ChampionInv, [PromotionNext]_promotionVars
  PROVE  ChampionInv'
<1>1. CASE \/ \E c, arm \in Candidates : AdmitPublic(c, arm)
           \/ \E c, arm \in Candidates, left \in Outcomes : EndPublic(c, arm, left)
           \/ \E l \in Leases, arm \in Candidates, left \in Outcomes : EndPrivate(l, arm, left)
           \/ AdmitWork \/ (\E owner, policy \in Candidates : AdmitServing(owner, policy))
           \/ ServingLive \/ (\E phase \in {"none", "billing"} : WorkEnds(phase))
           \/ AdmissionChanges \/ UNCHANGED promotionVars
  <2>1. UNCHANGED <<champion, status, manifest, decisions, promotions, leases>>
    BY <1>1, Zenon DEF AdmitPublic, EndPublic, EndPrivate, AdmitWork, AdmitServing,
       ServingLive, WorkEnds, AdmissionChanges, promotionVars
  <2> QED
    BY <2>1, ChampionInvElsewhere
<1>2. CASE \/ \E c \in Challengers : RegisterIsolated(c)
           \/ \E c, driver, model \in Challengers : RegisterJoint(c, driver, model)
  BY <1>2, ChampionInvRegister, Zenon DEF RegisterIsolated, RegisterJoint
<1>3. CASE \/ \E l \in Leases : LeaseExpires(l)
           \/ \E l \in Leases, arm \in Candidates : AdmitPrivate(l, arm)
           \/ \E l \in Leases : CompleteSealedEvaluation(l)
  BY <1>3, ChampionInvLeaseMoves, Zenon
<1>4. CASE \/ \E l \in Leases, verdict \in {"pass", "fail"} : DecideConfirmation(l, verdict)
           \/ \E l \in Leases : AbandonLease(l)
  BY <1>4, ChampionInvLeaseEnds, Zenon
<1>5. CASE \/ \E c \in Candidates, verdict \in {"pass", "fail"} : DecideDevelopment(c, verdict)
           \/ \E c \in Candidates, verdict \in {"pass", "fail"} : DecideFactorial(c, verdict)
  BY <1>5, ChampionInvDecideOnDevelopment, Zenon
<1> QED
  BY <1>1, <1>2, <1>3, <1>4, <1>5, ChampionInvRegisterBaseline, ChampionInvIssueLease,
     ChampionInvPromote, ChampionInvRollback, Zenon DEF PromotionNext

LEMMA ChampionInvariant == PromotionSpec => []ChampionInv
<1>1. PromotionTypeOK /\ ChampionInv /\ [PromotionNext]_promotionVars => ChampionInv'
  BY ChampionInvStep
<1> QED
  BY <1>1, ChampionInvInit, PromotionTypeCorrect, PTL DEF PromotionSpec

\* The row in state champion and the controller's pointer always name the
\* same candidate, or both name none.
THEOREM ChampionIsUnique == PromotionSpec => []OneChampion
<1>1. PromotionTypeOK /\ ChampionInv => OneChampion
  BY SoleIsOne DEF ChampionInv
<1> QED
  BY <1>1, ChampionInvariant, PromotionTypeCorrect, PTL

\* No step takes a rolled back champion up again: it is neither undecided nor
\* the candidate of an open confirmation lease, nor what a rollback restores.
LEMMA RolledBackStep ==
  ASSUME PromotionTypeOK, ChampionInv, PromotionNext,
         NEW c \in Candidates, status[c] = "rolled_back"
  PROVE  status'[c] \in {"rolled_back", "retired"}
<1>1. promotions[c].state = "rolled_back" /\ c # Baseline /\ champion # 0
  BY BaselineIsACandidate, SMT DEF ChampionInv, StatesMatchPromotions, BaselineFirst
<1>2. CASE RegisterBaseline
  BY <1>1, <1>2 DEF RegisterBaseline
<1>3. CASE \/ \E e \in Challengers : RegisterIsolated(e)
           \/ \E e, driver, model \in Challengers : RegisterJoint(e, driver, model)
  <2>1. PICK e \in Challengers :
          status[e] = "absent" /\ status' = [status EXCEPT ![e] = "materialized"]
    BY <1>3, Zenon DEF RegisterIsolated, RegisterJoint, Register, Registered
  <2> QED
    BY <2>1, SMT DEF PromotionTypeOK
<1>4. CASE \/ \E e \in Candidates, verdict \in {"pass", "fail"} : DecideDevelopment(e, verdict)
           \/ \E e \in Candidates, verdict \in {"pass", "fail"} : DecideFactorial(e, verdict)
  <2>1. PICK e \in Candidates, verdict \in {"pass", "fail"} :
          /\ decisions[e].development = "none"
          /\ status' = [status EXCEPT ![e] = DecisionState(verdict)]
    BY <1>4, Zenon DEF DecideDevelopment, DecideFactorial, DecideOnDevelopment, Undecided
  <2>2. decisions[c].development # "none"
    BY <1>1, SMT DEF ChampionInv, PromotedAreDecided
  <2> QED
    BY <2>1, <2>2, SMT DEF PromotionTypeOK
<1>5. CASE \E l \in Leases, verdict \in {"pass", "fail"} : DecideConfirmation(l, verdict)
  <2>1. PICK l \in Leases, state \in {"confirmed", "rejected"} :
          /\ Open(l) /\ leases[l].split = "confirmation"
          /\ status' = [status EXCEPT ![leases[l].candidate] = state]
    BY <1>5, Zenon DEF DecideConfirmation
  <2>2. promotions[leases[l].candidate].state = "absent" /\ leases[l].candidate \in Candidates
    BY <2>1, SMT DEF ChampionInv, LeasesAreForChallengers, LeaseFits, Open
  <2> QED
    BY <1>1, <2>1, <2>2, SMT DEF PromotionTypeOK
<1>6. CASE \E l \in Leases : AbandonLease(l)
  <2>1. PICK l \in Leases :
          \/ status' = status
          \/ status' = [status EXCEPT ![leases[l].candidate] =
                                        AfterAbandonment(status[leases[l].candidate])]
    BY <1>6, Zenon DEF AbandonLease
  <2> QED
    BY <2>1, SMT DEF PromotionTypeOK, AfterAbandonment
<1>7. CASE \E d \in Candidates : Promote(d)
  BY <1>7, SMT DEF Promote, Retiring
<1>8. CASE RollbackChampion
  <2> DEFINE previous == promotions[champion].previous
             down == Descendants(champion)
  <2>1. /\ champion \in Candidates /\ promotions[champion].state = "active"
        /\ status'[c] = IF c = previous THEN "champion"
                        ELSE IF c = champion THEN "rolled_back"
                        ELSE IF c \in down THEN "retired" ELSE status[c]
    BY <1>8, Zenon DEF RollbackChampion, HasActivePromotion, PromotionTypeOK
  <2>2. previous = Baseline \/ promotions[previous].state = "active"
    BY <2>1, SMT DEF ChampionInv, ActiveChain
  <2> HIDE DEF previous, down
  <2> QED
    BY <1>1, <2>1, <2>2, SMT
<1>9. CASE UNCHANGED status
  BY <1>9
<1>10. \/ RegisterBaseline \/ RollbackChampion \/ UNCHANGED status
       \/ \E e \in Challengers : RegisterIsolated(e)
       \/ \E e, driver, model \in Challengers : RegisterJoint(e, driver, model)
       \/ \E e \in Candidates, verdict \in {"pass", "fail"} : DecideDevelopment(e, verdict)
       \/ \E e \in Candidates, verdict \in {"pass", "fail"} : DecideFactorial(e, verdict)
       \/ \E l \in Leases, verdict \in {"pass", "fail"} : DecideConfirmation(l, verdict)
       \/ \E l \in Leases : AbandonLease(l)
       \/ \E d \in Candidates : Promote(d)
  BY Zenon DEF PromotionNext, AdmitPublic, EndPublic, IssueLease, LeaseExpires, AdmitPrivate,
     EndPrivate, CompleteSealedEvaluation, AdmitWork, AdmitServing, ServingLive, WorkEnds,
     AdmissionChanges
<1> QED
  BY <1>2, <1>3, <1>4, <1>5, <1>6, <1>7, <1>8, <1>9, <1>10

\* A champion that was rolled back is never champion, confirmed or nominated
\* again, whatever decision, promotion or rollback follows.
THEOREM RolledBackIsFinal == PromotionSpec => RolledBackStaysOut
<1>1. PromotionTypeOK /\ ChampionInv /\ [PromotionNext]_promotionVars =>
        [\A c \in Candidates :
           status[c] = "rolled_back" => status'[c] \in {"rolled_back", "retired"}]_promotionVars
  BY RolledBackStep
<1> QED
  BY <1>1, ChampionInvariant, PromotionTypeCorrect, PTL DEF PromotionSpec, RolledBackStaysOut

-----------------------------------------------------------------------------
(* The protected split is read alone.  What the invariant adds to the      *)
(* property: one lease is open at a time, and an episode that runs belongs *)
(* to the schedule of the open lease, so a decision, which waits for the   *)
(* whole schedule, leaves none behind when it closes the lease.            *)

OneOpenLease == \A k, l \in Leases : Open(k) /\ Open(l) => k = l

EpisodesOfOpenLeases ==
  \A l \in Leases, arm \in Candidates :
    private[l][arm] = "open" => Open(l) /\ arm \in LeaseArms(l)

NothingElseRuns ==
  (\E l \in Leases : Open(l)) =>
    /\ \A c, arm \in Candidates : public[c][arm] # "open"
    /\ background.phase # "working"

AloneInv == OneOpenLease /\ EpisodesOfOpenLeases /\ NothingElseRuns

LEMMA AloneInvSuffices == AloneInv => PrivateRunsAlone
BY SMT DEF AloneInv, OneOpenLease, EpisodesOfOpenLeases, NothingElseRuns, PrivateRunsAlone,
   OpenPublic, OpenPrivate

LEMMA AloneInvInit == PromotionInit => AloneInv
BY SMT DEF PromotionInit, AloneInv, OneOpenLease, EpisodesOfOpenLeases, NothingElseRuns,
   Open, NoLease, NoEpisodes

\* The arms of a lease are settled when it is issued: a candidate is
\* registered, and its manifest written, before.
LEMMA ArmsStay ==
  ASSUME PromotionTypeOK, ChampionInv, NEW l \in Leases, leases[l].state # "absent",
         leases'[l].split = leases[l].split, leases'[l].candidate = leases[l].candidate,
         \A c \in Candidates : status[c] # "absent" => manifest'[c] = manifest[c]
  PROVE  LeaseArms(l)' = LeaseArms(l)
<1>1. leases[l].candidate \in Candidates /\ status[leases[l].candidate] # "absent"
  BY DEF ChampionInv, LeasesAreForChallengers, LeaseFits
<1>2. manifest'[leases[l].candidate] = manifest[leases[l].candidate]
  BY <1>1
<1> QED
  BY <1>2, Zenon DEF LeaseArms, Arms

\* Operations that change no lease and no private episode, and admit nothing
\* while a lease is open.
LEMMA AloneInvElsewhere ==
  ASSUME PromotionTypeOK, ChampionInv, AloneInv,
         UNCHANGED <<leases, private>>,
         \A c \in Candidates : status[c] # "absent" => manifest'[c] = manifest[c],
         (\E l \in Leases : Open(l)) =>
           /\ \A c, arm \in Candidates : public[c][arm] # "open" => public'[c][arm] # "open"
           /\ background.phase # "working" => background'.phase # "working"
  PROVE  AloneInv'
<1>1. \A l \in Leases : Open(l)' <=> Open(l)
  BY DEF Open
<1>2. OneOpenLease' /\ NothingElseRuns'
  BY <1>1, SMT DEF AloneInv, OneOpenLease, NothingElseRuns
<1>3. EpisodesOfOpenLeases'
  <2> SUFFICES ASSUME NEW l \in Leases, NEW arm \in Candidates, private[l][arm] = "open"
               PROVE  Open(l)' /\ (arm \in LeaseArms(l))'
    BY DEF EpisodesOfOpenLeases
  <2>1. Open(l) /\ arm \in LeaseArms(l)
    BY DEF AloneInv, EpisodesOfOpenLeases
  <2>2. LeaseArms(l)' = LeaseArms(l)
    BY <2>1, ArmsStay DEF Open
  <2> QED
    BY <1>1, <2>1, <2>2
<1> QED
  BY <1>2, <1>3 DEF AloneInv

LEMMA AloneInvIssueLease ==
  ASSUME PromotionTypeOK, ChampionInv, AloneInv, NEW l \in Leases, NEW c \in Candidates,
         NEW split \in {"confirmation", "sealed"}, IssueLease(l, c, split)
  PROVE  AloneInv'
<1>1. /\ UNCHANGED <<private, public, background>>
      /\ leases' = [leases EXCEPT ![l] = [state |-> "issued", split |-> split,
                                          candidate |-> c, expired |-> FALSE]]
      /\ NoOpenLease /\ Quiet
  BY Zenon DEF IssueLease
<1>2. \A k \in Leases : k # l => leases'[k] = leases[k]
  BY <1>1, Zenon DEF PromotionTypeOK
<1>3. \A k \in Leases : k # l => ~Open(k)'
  BY <1>1, <1>2 DEF NoOpenLease, Open
<1>4. /\ \A d, arm \in Candidates : public[d][arm] # "open"
      /\ \A k \in Leases, arm \in Candidates : private[k][arm] # "open"
      /\ background.phase # "working"
  <2>1. OpenPublic = {} /\ OpenPrivate = {} /\ background.phase # "working"
    BY <1>1 DEF Quiet, NoOpenEpisode
  <2>2. ASSUME NEW d \in Candidates, NEW arm \in Candidates PROVE public[d][arm] # "open"
    <3>1. <<d, arm>> \notin OpenPublic
      BY <2>1
    <3> QED
      BY <3>1, Zenon DEF OpenPublic
  <2>3. ASSUME NEW k \in Leases, NEW arm \in Candidates PROVE private[k][arm] # "open"
    <3>1. <<k, arm>> \notin OpenPrivate
      BY <2>1
    <3> QED
      BY <3>1, Zenon DEF OpenPrivate
  <2> QED
    BY <2>1, <2>2, <2>3
<1> QED
  BY <1>1, <1>3, <1>4, SMT DEF AloneInv, OneOpenLease, EpisodesOfOpenLeases, NothingElseRuns

LEMMA AloneInvLeaseMoves ==
  ASSUME PromotionTypeOK, ChampionInv, AloneInv, NEW l \in Leases,
         \/ LeaseExpires(l) \/ (\E arm \in Candidates : AdmitPrivate(l, arm))
         \/ (\E verdict \in {"pass", "fail"} : DecideConfirmation(l, verdict))
         \/ CompleteSealedEvaluation(l) \/ AbandonLease(l)
  PROVE  AloneInv'
<1>1. /\ Open(l)
      /\ \A k \in Leases : k # l => leases'[k] = leases[k]
      /\ leases'[l].split = leases[l].split
      /\ leases'[l].candidate = leases[l].candidate
  BY RowOfMovedLease
<1>2. UNCHANGED <<manifest, public, background>>
  BY Zenon DEF LeaseExpires, AdmitPrivate, DecideConfirmation, CompleteSealedEvaluation,
     AbandonLease
<1>3. \A k \in Leases : Open(k)' => Open(k)
  BY <1>1, SMT DEF Open
<1>4. OneOpenLease' /\ NothingElseRuns'
  BY <1>2, <1>3, SMT DEF AloneInv, OneOpenLease, NothingElseRuns
<1>5. LeaseArms(l)' = LeaseArms(l)
  BY <1>1, <1>2, ArmsStay DEF Open
<1>6. ASSUME NEW k \in Leases, k # l PROVE Open(k)' <=> Open(k)
  BY <1>1, <1>6 DEF Open
<1>7. ASSUME NEW k \in Leases, k # l PROVE LeaseArms(k)' = LeaseArms(k)
  BY <1>1, <1>2, <1>7, Zenon DEF LeaseArms, Arms
<1>8. ASSUME NEW k \in Leases, NEW arm \in Candidates, (private[k][arm] = "open")'
      PROVE  Open(k)' /\ (arm \in LeaseArms(k))'
  <2>1. CASE \E a \in Candidates : AdmitPrivate(l, a)
    <3>1. PICK a \in Candidates : AdmitPrivate(l, a)
      BY <2>1
    <3>2. a \in LeaseArms(l) /\ Open(l)'
      BY <3>1, SMT DEF AdmitPrivate, Open, PromotionTypeOK, Lease
    <3>3. private'[k][arm] = IF k = l /\ arm = a THEN "open" ELSE private[k][arm]
      BY <3>1, SMT DEF AdmitPrivate, PromotionTypeOK
    <3>4. CASE k = l /\ arm = a
      BY <3>2, <3>4, <1>5
    <3>5. CASE ~(k = l /\ arm = a)
      <4>1. Open(k) /\ arm \in LeaseArms(k)
        BY <1>8, <3>3, <3>5 DEF AloneInv, EpisodesOfOpenLeases
      <4> QED
        BY <4>1, <3>2, <1>5, <1>6, <1>7
    <3> QED
      BY <3>4, <3>5
  <2>2. CASE LeaseExpires(l)
    <3>1. private' = private /\ Open(l)'
      BY <2>2, SMT DEF LeaseExpires, Open, PromotionTypeOK, Lease
    <3>2. Open(k) /\ arm \in LeaseArms(k)
      BY <1>8, <3>1 DEF AloneInv, EpisodesOfOpenLeases
    <3> QED
      BY <3>1, <3>2, <1>5, <1>6, <1>7
  <2>3. CASE \/ \E verdict \in {"pass", "fail"} : DecideConfirmation(l, verdict)
             \/ CompleteSealedEvaluation(l) \/ AbandonLease(l)
    <3>1. /\ private' = private
          /\ \A a \in LeaseArms(l) : private[l][a] # "open"
      BY <2>3, SMT DEF DecideConfirmation, CompleteSealedEvaluation, AbandonLease,
         ScheduleComplete, Recorded
    <3>2. Open(k) /\ arm \in LeaseArms(k)
      BY <1>8, <3>1 DEF AloneInv, EpisodesOfOpenLeases
    <3>3. k # l
      BY <1>8, <3>1, <3>2
    <3> QED
      BY <3>2, <3>3, <1>6, <1>7
  <2> QED
    BY <2>1, <2>2, <2>3
<1>9. EpisodesOfOpenLeases'
  BY <1>8 DEF EpisodesOfOpenLeases
<1> QED
  BY <1>4, <1>9 DEF AloneInv

LEMMA AloneInvStep ==
  ASSUME PromotionTypeOK, ChampionInv, AloneInv, [PromotionNext]_promotionVars
  PROVE  AloneInv'
<1>1. CASE \/ \E c \in Challengers : RegisterIsolated(c)
           \/ \E c, driver, model \in Challengers : RegisterJoint(c, driver, model)
  <2>1. PICK c \in Challengers : \E d, m : Register(c, d, m)
    BY <1>1, Zenon DEF RegisterIsolated, RegisterJoint
  <2>2. \A e \in Candidates : status[e] # "absent" => manifest'[e] = manifest[e]
    BY <2>1, Zenon DEF Register, Registered, PromotionTypeOK
  <2>3. UNCHANGED <<leases, private, public, background>>
    BY <2>1 DEF Register
  <2> QED
    BY <2>2, <2>3, AloneInvElsewhere
<1>2. CASE \E c, arm \in Candidates : AdmitPublic(c, arm)
  <2>1. (\A l \in Leases : ~Open(l)) /\ UNCHANGED <<leases, private, manifest>>
    BY <1>2, Zenon DEF AdmitPublic, PublicOpen, NoOpenLease
  <2> QED
    BY <2>1, AloneInvElsewhere
<1>3. CASE \E c, arm \in Candidates, left \in Outcomes : EndPublic(c, arm, left)
  <2>1. PICK c \in Candidates, arm \in Candidates, left \in Outcomes : EndPublic(c, arm, left)
    BY <1>3
  <2>2. left # "open"
    BY PromotionAssumption
  <2>3. \A d, a \in Candidates : public[d][a] # "open" => public'[d][a] # "open"
    BY <2>1, <2>2, SMT DEF EndPublic, PromotionTypeOK
  <2>4. UNCHANGED <<leases, private, manifest, background>>
    BY <2>1 DEF EndPublic
  <2> QED
    BY <2>3, <2>4, AloneInvElsewhere
<1>4. CASE \E l \in Leases, arm \in Candidates, left \in Outcomes : EndPrivate(l, arm, left)
  <2>1. PICK l \in Leases, arm \in Candidates, left \in Outcomes : EndPrivate(l, arm, left)
    BY <1>4
  <2>2. left # "open"
    BY PromotionAssumption
  <2>3. \A k \in Leases, a \in Candidates : private'[k][a] = "open" => private[k][a] = "open"
    BY <2>1, <2>2, SMT DEF EndPrivate, PromotionTypeOK
  <2>4. UNCHANGED <<leases, manifest, public, background>>
    BY <2>1 DEF EndPrivate
  <2>5. \A k \in Leases : (Open(k)' <=> Open(k)) /\ LeaseArms(k)' = LeaseArms(k)
    BY <2>4, Zenon DEF Open, LeaseArms, Arms
  <2>6. OneOpenLease' /\ NothingElseRuns'
    BY <2>4, <2>5, SMT DEF AloneInv, OneOpenLease, NothingElseRuns
  <2>7. EpisodesOfOpenLeases'
    BY <2>3, <2>5, Zenon DEF AloneInv, EpisodesOfOpenLeases
  <2> QED
    BY <2>6, <2>7 DEF AloneInv
<1>5. CASE AdmitWork \/ \E owner, policy \in Candidates : AdmitServing(owner, policy)
  <2>1. (\A l \in Leases : ~Open(l)) /\ UNCHANGED <<leases, private, manifest>>
    BY <1>5, Zenon DEF AdmitWork, AdmitServing, NoOpenLease
  <2> QED
    BY <2>1, AloneInvElsewhere
<1>6. CASE ServingLive \/ \E phase \in {"none", "billing"} : WorkEnds(phase)
  <2>1. background'.phase # "working"
    BY <1>6, SMT DEF ServingLive, WorkEnds, PromotionTypeOK, Background
  <2>2. UNCHANGED <<leases, private, manifest, public>>
    BY <1>6, Zenon DEF ServingLive, WorkEnds
  <2> QED
    BY <2>1, <2>2, AloneInvElsewhere
<1>7. CASE \/ RegisterBaseline \/ RollbackChampion \/ AdmissionChanges
           \/ UNCHANGED promotionVars
           \/ \E c \in Candidates : Promote(c)
           \/ \E c \in Candidates, verdict \in {"pass", "fail"} : DecideDevelopment(c, verdict)
           \/ \E c \in Candidates, verdict \in {"pass", "fail"} : DecideFactorial(c, verdict)
  <2>1. UNCHANGED <<leases, private, manifest, public, background>>
    BY <1>7, Zenon DEF RegisterBaseline, RollbackChampion, AdmissionChanges, promotionVars,
       Promote, DecideDevelopment, DecideFactorial, DecideOnDevelopment
  <2> QED
    BY <2>1, AloneInvElsewhere
<1>8. CASE \/ \E l \in Leases : LeaseExpires(l)
           \/ \E l \in Leases, arm \in Candidates : AdmitPrivate(l, arm)
           \/ \E l \in Leases, verdict \in {"pass", "fail"} : DecideConfirmation(l, verdict)
           \/ \E l \in Leases : CompleteSealedEvaluation(l)
           \/ \E l \in Leases : AbandonLease(l)
  BY <1>8, AloneInvLeaseMoves, Zenon
<1> QED
  BY <1>1, <1>2, <1>3, <1>4, <1>5, <1>6, <1>7, <1>8, AloneInvIssueLease, Zenon
  DEF PromotionNext

\* While a lease on a protected split is open, no public episode runs, no
\* episode of another lease, and no rollout, build or training.
THEOREM PrivateReadAlone == PromotionSpec => []PrivateRunsAlone
<1>1. PromotionTypeOK /\ ChampionInv /\ AloneInv /\ [PromotionNext]_promotionVars => AloneInv'
  BY AloneInvStep
<1> QED
  BY <1>1, AloneInvInit, AloneInvSuffices, ChampionInvariant, PromotionTypeCorrect, PTL
  DEF PromotionSpec

-----------------------------------------------------------------------------
(* The protected split is used once per candidate.  A second confirmation  *)
(* lease would need a nominated candidate, and whoever had a lease has     *)
(* been decided upon in public already and left that state with the lease. *)

OneConfirmation ==
  \A k, l \in Issued("confirmation") : leases[k].candidate = leases[l].candidate => k = l

WithinUses ==
  /\ Cardinality(Issued("confirmation")) <= MaxConfirmations
  /\ Cardinality(Issued("sealed")) <= SealedUses

OnceInv == OneConfirmation /\ WithinUses

LEMMA OnceInvSuffices == OnceInv => ConfirmedOnce
<1> SUFFICES ASSUME OnceInv, NEW c \in Candidates
             PROVE  Cardinality({l \in Issued("confirmation") : leases[l].candidate = c}) <= 1
  BY DEF OnceInv, WithinUses, ConfirmedOnce
<1> DEFINE S == {l \in Issued("confirmation") : leases[l].candidate = c}
<1>1. CASE S = {}
  <2>1. Cardinality(S) = 0
    BY <1>1, FS_EmptySet
  <2> QED
    BY <2>1
<1>2. CASE S # {}
  <2>1. PICK l : l \in S
    BY <1>2
  <2>2. \A k \in S : k = l
    BY <2>1 DEF OnceInv, OneConfirmation
  <2>3. S = {l}
    BY <2>1, <2>2
  <2>4. Cardinality(S) = 1
    BY <2>3, FS_Singleton
  <2> QED
    BY <2>4
<1> QED
  BY <1>1, <1>2

LEMMA OnceInvInit == PromotionInit => OnceInv
<1> SUFFICES ASSUME PromotionInit PROVE OnceInv
  OBVIOUS
<1>1. Issued("confirmation") = {} /\ Issued("sealed") = {}
  BY DEF PromotionInit, Issued, NoLease
<1>2. Cardinality({}) = 0
  BY FS_EmptySet
<1> QED
  BY <1>1, <1>2, PromotionAssumption, SMT DEF OnceInv, OneConfirmation, WithinUses

LEMMA OnceInvKept ==
  ASSUME OnceInv,
         \A l \in Leases : /\ leases'[l].state # "absent" <=> leases[l].state # "absent"
                           /\ leases'[l].split = leases[l].split
                           /\ leases'[l].candidate = leases[l].candidate
  PROVE  OnceInv'
<1>1. \A split : Issued(split)' = Issued(split)
  BY Zenon DEF Issued
<1>2. WithinUses'
  BY <1>1 DEF OnceInv, WithinUses
<1>3. OneConfirmation'
  BY <1>1, SMT DEF OnceInv, OneConfirmation, Issued
<1> QED
  BY <1>2, <1>3 DEF OnceInv

LEMMA OnceInvIssueLease ==
  ASSUME PromotionTypeOK, ChampionInv, OnceInv, NEW l \in Leases, NEW c \in Candidates,
         NEW split \in {"confirmation", "sealed"}, IssueLease(l, c, split)
  PROVE  OnceInv'
<1>1. /\ leases' = [leases EXCEPT ![l] = [state |-> "issued", split |-> split,
                                          candidate |-> c, expired |-> FALSE]]
      /\ NoOpenLease /\ leases[l].state = "absent"
      /\ split = "confirmation" =>
           status[c] = "nominated" /\ Cardinality(Issued("confirmation")) < MaxConfirmations
      /\ split = "sealed" => Cardinality(Issued("sealed")) < SealedUses
  BY Zenon DEF IssueLease
<1>2. \A k \in Leases : k # l => leases'[k] = leases[k]
  BY <1>1, Zenon DEF PromotionTypeOK
<1>3. /\ leases'[l].state = "issued" /\ leases'[l].split = split
      /\ leases'[l].candidate = c
  BY <1>1, Zenon DEF PromotionTypeOK
<1>4. Issued(split)' = Issued(split) \union {l} /\ l \notin Issued(split)
  BY <1>1, <1>2, <1>3, SMT DEF Issued
<1>5. \A other : other # split => Issued(other)' = Issued(other)
  BY <1>1, <1>2, <1>3, SMT DEF Issued
<1>6. /\ IsFiniteSet(Issued(split)) /\ Cardinality(Issued(split)) \in Nat
      /\ Cardinality(Issued(split)') = Cardinality(Issued(split)) + 1
  <2>1. IsFiniteSet(Issued(split))
    <3>1. Issued(split) \subseteq Leases
      BY DEF Issued
    <3> QED
      BY <3>1, LeasesAreFinite, FS_Subset
  <2>2. Cardinality(Issued(split) \union {l}) = Cardinality(Issued(split)) + 1
    BY <1>4, <2>1, FS_AddElement, Zenon
  <2>3. Cardinality(Issued(split)) \in Nat
    BY <2>1, FS_CardinalityType
  <2> QED
    BY <1>4, <2>1, <2>2, <2>3
<1>7. WithinUses'
  <2>1. CASE split = "confirmation"
    BY <2>1, <1>1, <1>5, <1>6, PromotionAssumption, SMT DEF OnceInv, WithinUses
  <2>2. CASE split = "sealed"
    BY <2>2, <1>1, <1>5, <1>6, PromotionAssumption, SMT DEF OnceInv, WithinUses
  <2> QED
    BY <2>1, <2>2
<1>8. ASSUME split = "confirmation", NEW k \in Issued("confirmation")
      PROVE  leases[k].candidate # c
  <2>1. k \in Leases /\ leases[k].state # "absent" /\ leases[k].split = "confirmation"
    BY <1>8 DEF Issued
  <2>2. ~Open(k) /\ status[c] = "nominated"
    BY <1>1, <1>8, <2>1 DEF NoOpenLease
  <2> QED
    BY <2>1, <2>2 DEF ChampionInv, LeasesAreForChallengers, LeaseFits
<1>9. OneConfirmation'
  <2>1. CASE split = "confirmation"
    <3>1. ASSUME NEW j \in Issued("confirmation")', NEW k \in Issued("confirmation")',
                 leases'[j].candidate = leases'[k].candidate
          PROVE  j = k
      <4>1. \A i \in Issued("confirmation")' : i = l \/ i \in Issued("confirmation")
        BY <1>4, <2>1
      <4>2. \A i \in Issued("confirmation") : leases'[i] = leases[i]
        BY <1>2, <1>4, <2>1 DEF Issued
      <4>3. CASE j = l /\ k # l
        BY <1>3, <1>8, <2>1, <3>1, <4>1, <4>2, <4>3
      <4>4. CASE k = l /\ j # l
        BY <1>3, <1>8, <2>1, <3>1, <4>1, <4>2, <4>4
      <4>5. CASE j # l /\ k # l
        BY <3>1, <4>1, <4>2, <4>5 DEF OnceInv, OneConfirmation
      <4> QED
        BY <4>3, <4>4, <4>5
    <3> QED
      BY <3>1 DEF OneConfirmation
  <2>2. CASE split = "sealed"
    <3>1. Issued("confirmation")' = Issued("confirmation")
      BY <1>5, <2>2
    <3>2. \A i \in Issued("confirmation") : leases'[i] = leases[i]
      BY <1>1, <1>2 DEF Issued
    <3> QED
      BY <3>1, <3>2 DEF OnceInv, OneConfirmation
  <2> QED
    BY <2>1, <2>2
<1> QED
  BY <1>7, <1>9 DEF OnceInv

LEMMA OnceInvStep ==
  ASSUME PromotionTypeOK, ChampionInv, OnceInv, [PromotionNext]_promotionVars
  PROVE  OnceInv'
<1>1. CASE \/ \E l \in Leases : LeaseExpires(l)
           \/ \E l \in Leases, arm \in Candidates : AdmitPrivate(l, arm)
           \/ \E l \in Leases, verdict \in {"pass", "fail"} : DecideConfirmation(l, verdict)
           \/ \E l \in Leases : CompleteSealedEvaluation(l)
           \/ \E l \in Leases : AbandonLease(l)
  <2>1. PICK l \in Leases :
          \/ LeaseExpires(l) \/ (\E arm \in Candidates : AdmitPrivate(l, arm))
          \/ (\E verdict \in {"pass", "fail"} : DecideConfirmation(l, verdict))
          \/ CompleteSealedEvaluation(l) \/ AbandonLease(l)
    BY <1>1, Zenon
  <2>2. /\ Open(l)
        /\ \A k \in Leases : k # l => leases'[k] = leases[k]
        /\ leases'[l].split = leases[l].split
        /\ leases'[l].candidate = leases[l].candidate
    BY <2>1, RowOfMovedLease
  <2>3. leases'[l].state # "absent"
    <3>1. \/ leases' = [leases EXCEPT ![l].expired = TRUE]
          \/ \E state \in {"active", "closed", "abandoned"} :
               leases' = [leases EXCEPT ![l].state = state]
      BY <2>1, Zenon DEF LeaseExpires, AdmitPrivate, DecideConfirmation,
         CompleteSealedEvaluation, AbandonLease
    <3> QED
      BY <2>2, <3>1, SMT DEF PromotionTypeOK, Lease, Open
  <2> QED
    BY <2>2, <2>3, OnceInvKept DEF Open
<1>2. CASE UNCHANGED leases
  BY <1>2, OnceInvKept
<1>3. \/ UNCHANGED leases
      \/ \E l \in Leases, c \in Candidates, split \in {"confirmation", "sealed"} :
           IssueLease(l, c, split)
      \/ \E l \in Leases : LeaseExpires(l)
      \/ \E l \in Leases, arm \in Candidates : AdmitPrivate(l, arm)
      \/ \E l \in Leases, verdict \in {"pass", "fail"} : DecideConfirmation(l, verdict)
      \/ \E l \in Leases : CompleteSealedEvaluation(l)
      \/ \E l \in Leases : AbandonLease(l)
  BY Zenon DEF PromotionNext, promotionVars, RegisterBaseline, RegisterIsolated, RegisterJoint,
     Register, AdmitPublic, EndPublic, DecideDevelopment, DecideFactorial,
     DecideOnDevelopment, EndPrivate, Promote, RollbackChampion, AdmitWork, AdmitServing,
     ServingLive, WorkEnds, AdmissionChanges
<1> QED
  BY <1>1, <1>2, <1>3, OnceInvIssueLease

\* No candidate has two confirmation leases, and neither split is used more
\* often than the contract allows.
THEOREM ProtectedSplitUsedOnce == PromotionSpec => []ConfirmedOnce
<1>1. PromotionTypeOK /\ ChampionInv /\ OnceInv /\ [PromotionNext]_promotionVars => OnceInv'
  BY OnceInvStep
<1> QED
  BY <1>1, OnceInvInit, OnceInvSuffices, ChampionInvariant, PromotionTypeCorrect, PTL
  DEF PromotionSpec

-----------------------------------------------------------------------------
(* What no step takes back: a registration with its manifest, a decision,  *)
(* what an episode left, a closed lease.                                   *)

LEMMA RegistrationStays ==
  ASSUME PromotionTypeOK, ChampionInv, [PromotionNext]_promotionVars,
         NEW c \in Candidates, status[c] # "absent"
  PROVE  status'[c] # "absent" /\ manifest'[c] = manifest[c]
<1>1. CASE RegisterBaseline
  BY <1>1, SMT DEF RegisterBaseline, PromotionTypeOK
<1>2. CASE \/ \E e \in Challengers : RegisterIsolated(e)
           \/ \E e, driver, model \in Challengers : RegisterJoint(e, driver, model)
  <2>1. PICK e \in Challengers : \E d, m : Register(e, d, m)
    BY <1>2, Zenon DEF RegisterIsolated, RegisterJoint
  <2>2. status[e] = "absent" /\ status' = [status EXCEPT ![e] = "materialized"]
    BY <2>1, Zenon DEF Register, Registered
  <2>3. c # e => manifest'[c] = manifest[c]
    BY <2>1, Zenon DEF Register, PromotionTypeOK
  <2> QED
    BY <2>2, <2>3, Zenon DEF PromotionTypeOK
<1>3. CASE \/ \E e \in Candidates, verdict \in {"pass", "fail"} : DecideDevelopment(e, verdict)
           \/ \E e \in Candidates, verdict \in {"pass", "fail"} : DecideFactorial(e, verdict)
  <2>1. PICK e \in Candidates, verdict \in {"pass", "fail"} :
          manifest' = manifest /\ status' = [status EXCEPT ![e] = DecisionState(verdict)]
    BY <1>3, Zenon DEF DecideDevelopment, DecideFactorial, DecideOnDevelopment
  <2> QED
    BY <2>1, SMT DEF PromotionTypeOK, DecisionState
<1>4. CASE \E l \in Leases, verdict \in {"pass", "fail"} : DecideConfirmation(l, verdict)
  <2>1. PICK l \in Leases, state \in {"confirmed", "rejected"} :
          manifest' = manifest /\ status' = [status EXCEPT ![leases[l].candidate] = state]
    BY <1>4, Zenon DEF DecideConfirmation
  <2> QED
    BY <2>1, SMT DEF PromotionTypeOK
<1>5. CASE \E l \in Leases : AbandonLease(l)
  <2>1. PICK l \in Leases :
          /\ manifest' = manifest
          /\ \/ status' = status
             \/ status' = [status EXCEPT ![leases[l].candidate] =
                                           AfterAbandonment(status[leases[l].candidate])]
    BY <1>5, Zenon DEF AbandonLease
  <2> QED
    BY <2>1, SMT DEF PromotionTypeOK, AfterAbandonment
<1>6. CASE \E d \in Candidates : Promote(d)
  BY <1>6, SMT DEF Promote, Retiring
<1>7. CASE RollbackChampion
  <2> DEFINE previous == promotions[champion].previous
             down == Descendants(champion)
  <2>1. /\ manifest' = manifest
        /\ status'[c] = IF c = previous THEN "champion"
                        ELSE IF c = champion THEN "rolled_back"
                        ELSE IF c \in down THEN "retired" ELSE status[c]
    BY <1>7, Zenon DEF RollbackChampion
  <2> HIDE DEF previous, down
  <2> QED
    BY <2>1, SMT
<1>8. CASE UNCHANGED <<status, manifest>>
  BY <1>8
<1>9. \/ RegisterBaseline \/ RollbackChampion \/ UNCHANGED <<status, manifest>>
      \/ \E e \in Challengers : RegisterIsolated(e)
      \/ \E e, driver, model \in Challengers : RegisterJoint(e, driver, model)
      \/ \E e \in Candidates, verdict \in {"pass", "fail"} : DecideDevelopment(e, verdict)
      \/ \E e \in Candidates, verdict \in {"pass", "fail"} : DecideFactorial(e, verdict)
      \/ \E l \in Leases, verdict \in {"pass", "fail"} : DecideConfirmation(l, verdict)
      \/ \E l \in Leases : AbandonLease(l)
      \/ \E d \in Candidates : Promote(d)
  BY Zenon DEF PromotionNext, promotionVars, AdmitPublic, EndPublic, IssueLease, LeaseExpires,
     AdmitPrivate, EndPrivate, CompleteSealedEvaluation, AdmitWork, AdmitServing, ServingLive,
     WorkEnds, AdmissionChanges
<1> QED
  BY <1>1, <1>2, <1>3, <1>4, <1>5, <1>6, <1>7, <1>8, <1>9

\* A decision is taken once, on a complete comparison.
LEMMA DevelopmentDecided ==
  ASSUME PromotionTypeOK, ChampionInv, [PromotionNext]_promotionVars, NEW c \in Candidates
  PROVE  \/ decisions'[c].development = decisions[c].development
         \/ /\ decisions[c].development = "none" /\ status[c] # "absent" /\ c # Baseline
            /\ UNCHANGED <<manifest, public>>
            /\ \A arm \in Arms(c) : public[c][arm] = "complete"
<1>1. CASE \E e \in Candidates, verdict \in {"pass", "fail"} :
             DecideDevelopment(e, verdict) \/ DecideFactorial(e, verdict)
  <2>1. PICK e \in Candidates, verdict \in {"pass", "fail"} :
          DecideOnDevelopment(e, verdict) /\ e # Baseline
    BY <1>1, Zenon DEF DecideDevelopment, DecideFactorial, ChampionInv, BaselineFirst
  <2>2. CASE e = c
    BY <2>1, <2>2, Zenon DEF DecideOnDevelopment, Registered, Undecided
  <2>3. CASE e # c
    <3>1. decisions'[c] = decisions[c]
      BY <2>1, <2>3, Zenon DEF DecideOnDevelopment, PromotionTypeOK
    <3> QED
      BY <3>1
  <2> QED
    BY <2>2, <2>3
<1>2. CASE \E l \in Leases, verdict \in {"pass", "fail"} : DecideConfirmation(l, verdict)
  <2>1. PICK e, verdict : decisions' = [decisions EXCEPT ![e].confirmation = verdict]
    BY <1>2, Zenon DEF DecideConfirmation
  <2> QED
    BY <2>1, SMT DEF PromotionTypeOK
<1>3. CASE UNCHANGED decisions
  BY <1>3
<1> QED
  BY <1>1, <1>2, <1>3, Zenon DEF PromotionNext, promotionVars, RegisterBaseline,
     RegisterIsolated, RegisterJoint, Register, AdmitPublic, EndPublic, IssueLease,
     LeaseExpires, AdmitPrivate, EndPrivate, CompleteSealedEvaluation, AbandonLease, Promote,
     RollbackChampion, AdmitWork, AdmitServing, ServingLive, WorkEnds, AdmissionChanges

LEMMA ConfirmationDecided ==
  ASSUME PromotionTypeOK, [PromotionNext]_promotionVars, NEW c \in Candidates
  PROVE  \/ decisions'[c].confirmation = decisions[c].confirmation
         \/ /\ decisions[c].confirmation = "none"
            /\ \E l \in Leases :
                 DecideConfirmation(l, decisions'[c].confirmation) /\ leases[l].candidate = c
<1>1. CASE \E e \in Candidates, verdict \in {"pass", "fail"} :
             DecideDevelopment(e, verdict) \/ DecideFactorial(e, verdict)
  <2>1. PICK e, verdict : decisions' = [decisions EXCEPT ![e].development = verdict]
    BY <1>1, Zenon DEF DecideDevelopment, DecideFactorial, DecideOnDevelopment
  <2> QED
    BY <2>1, SMT DEF PromotionTypeOK
<1>2. CASE \E l \in Leases, verdict \in {"pass", "fail"} : DecideConfirmation(l, verdict)
  <2>1. PICK l \in Leases, verdict \in {"pass", "fail"} : DecideConfirmation(l, verdict)
    BY <1>2
  <2> DEFINE e == leases[l].candidate
  <2>2. /\ decisions[e].confirmation = "none"
        /\ decisions' = [decisions EXCEPT ![e].confirmation = verdict]
    BY <2>1, Zenon DEF DecideConfirmation
  <2>3. e = c => decisions'[c].confirmation = verdict
    <3> HIDE DEF e
    <3> QED
      BY <2>2, SMT DEF PromotionTypeOK
  <2>4. e # c => decisions'[c] = decisions[c]
    <3> HIDE DEF e
    <3> QED
      BY <2>2, Zenon DEF PromotionTypeOK
  <2> QED
    BY <2>1, <2>2, <2>3, <2>4
<1>3. CASE UNCHANGED decisions
  BY <1>3
<1> QED
  BY <1>1, <1>2, <1>3, Zenon DEF PromotionNext, promotionVars, RegisterBaseline,
     RegisterIsolated, RegisterJoint, Register, AdmitPublic, EndPublic, IssueLease,
     LeaseExpires, AdmitPrivate, EndPrivate, CompleteSealedEvaluation, AbandonLease, Promote,
     RollbackChampion, AdmitWork, AdmitServing, ServingLive, WorkEnds, AdmissionChanges

\* The result of an episode stays; a running one is of its own comparison.
LEMMA PublicEpisodesStay ==
  ASSUME PromotionTypeOK, [PromotionNext]_promotionVars,
         NEW c \in Candidates, NEW arm \in Candidates
  PROVE  /\ public[c][arm] = "complete" => public'[c][arm] = "complete"
         /\ public'[c][arm] = "open" => public[c][arm] = "open" \/ AdmitPublic(c, arm)
<1>1. CASE \E d, a \in Candidates : AdmitPublic(d, a)
  <2>1. PICK d \in Candidates, a \in Candidates : AdmitPublic(d, a)
    BY <1>1
  <2>2. /\ public[d][a] = "absent"
        /\ public'[c][arm] = IF c = d /\ arm = a THEN "open" ELSE public[c][arm]
    BY <2>1, SMT DEF AdmitPublic, PromotionTypeOK
  <2> QED
    BY <2>1, <2>2
<1>2. CASE \E d, a \in Candidates, left \in Outcomes : EndPublic(d, a, left)
  <2>1. PICK d \in Candidates, a \in Candidates, left \in Outcomes : EndPublic(d, a, left)
    BY <1>2
  <2>2. /\ public[d][a] = "open" /\ left # "open"
        /\ public'[c][arm] = IF c = d /\ arm = a THEN left ELSE public[c][arm]
    BY <2>1, PromotionAssumption, SMT DEF EndPublic, PromotionTypeOK
  <2> QED
    BY <2>2
<1>3. CASE UNCHANGED public
  BY <1>3
<1> QED
  BY <1>1, <1>2, <1>3, Zenon DEF PromotionNext, promotionVars, RegisterBaseline,
     RegisterIsolated, RegisterJoint, Register, DecideDevelopment, DecideFactorial,
     DecideOnDevelopment, IssueLease, LeaseExpires, AdmitPrivate, EndPrivate,
     DecideConfirmation, CompleteSealedEvaluation, AbandonLease, Promote, RollbackChampion,
     AdmitWork, AdmitServing, ServingLive, WorkEnds, AdmissionChanges

LEMMA PrivateEpisodesStay ==
  ASSUME PromotionTypeOK, [PromotionNext]_promotionVars,
         NEW l \in Leases, NEW arm \in Candidates
  PROVE  /\ private[l][arm] = "complete" => private'[l][arm] = "complete"
         /\ private'[l][arm] = "open" => private[l][arm] = "open" \/ AdmitPrivate(l, arm)
<1>1. CASE \E k \in Leases, a \in Candidates : AdmitPrivate(k, a)
  <2>1. PICK k \in Leases, a \in Candidates : AdmitPrivate(k, a)
    BY <1>1
  <2>2. /\ private[k][a] = "absent"
        /\ private'[l][arm] = IF l = k /\ arm = a THEN "open" ELSE private[l][arm]
    BY <2>1, SMT DEF AdmitPrivate, PromotionTypeOK
  <2> QED
    BY <2>1, <2>2
<1>2. CASE \E k \in Leases, a \in Candidates, left \in Outcomes : EndPrivate(k, a, left)
  <2>1. PICK k \in Leases, a \in Candidates, left \in Outcomes : EndPrivate(k, a, left)
    BY <1>2
  <2>2. /\ private[k][a] = "open" /\ left # "open"
        /\ private'[l][arm] = IF l = k /\ arm = a THEN left ELSE private[l][arm]
    BY <2>1, PromotionAssumption, SMT DEF EndPrivate, PromotionTypeOK
  <2> QED
    BY <2>2
<1>3. CASE UNCHANGED private
  BY <1>3
<1> QED
  BY <1>1, <1>2, <1>3, Zenon DEF PromotionNext, promotionVars, RegisterBaseline,
     RegisterIsolated, RegisterJoint, Register, DecideDevelopment, DecideFactorial,
     DecideOnDevelopment, AdmitPublic, EndPublic, IssueLease, LeaseExpires,
     DecideConfirmation, CompleteSealedEvaluation, AbandonLease, Promote, RollbackChampion,
     AdmitWork, AdmitServing, ServingLive, WorkEnds, AdmissionChanges

\* An issued lease keeps its split and its candidate, a closed one its row.
LEMMA LeasesStay ==
  ASSUME PromotionTypeOK, [PromotionNext]_promotionVars, NEW l \in Leases
  PROVE  /\ leases[l].state = "closed" => leases'[l] = leases[l]
         /\ leases[l].state # "absent" => /\ leases'[l].split = leases[l].split
                                          /\ leases'[l].candidate = leases[l].candidate
         /\ leases'[l].state # "absent" =>
              \/ leases[l].state # "absent"
              \/ \E c \in Candidates : IssueLease(l, c, leases'[l].split)
                                       /\ leases'[l].candidate = c
<1>1. CASE \E k \in Leases, c \in Candidates, split \in {"confirmation", "sealed"} :
             IssueLease(k, c, split)
  <2>1. PICK k \in Leases, c \in Candidates, split \in {"confirmation", "sealed"} :
          IssueLease(k, c, split)
    BY <1>1
  <2>2. /\ leases[k].state = "absent"
        /\ leases' = [leases EXCEPT ![k] = [state |-> "issued", split |-> split,
                                            candidate |-> c, expired |-> FALSE]]
    BY <2>1, Zenon DEF IssueLease
  <2>3. l # k => leases'[l] = leases[l]
    BY <2>2, Zenon DEF PromotionTypeOK
  <2>4. l = k => leases'[l].split = split /\ leases'[l].candidate = c
    BY <2>2, Zenon DEF PromotionTypeOK
  <2> QED
    BY <2>1, <2>2, <2>3, <2>4
<1>2. CASE \E k \in Leases : \/ LeaseExpires(k) \/ (\E arm \in Candidates : AdmitPrivate(k, arm))
                             \/ (\E verdict \in {"pass", "fail"} : DecideConfirmation(k, verdict))
                             \/ CompleteSealedEvaluation(k) \/ AbandonLease(k)
  <2>1. PICK k \in Leases :
          /\ Open(k)
          /\ \A j \in Leases : j # k => leases'[j] = leases[j]
          /\ leases'[k].split = leases[k].split
          /\ leases'[k].candidate = leases[k].candidate
    BY <1>2, RowOfMovedLease
  <2> QED
    BY <2>1 DEF Open
<1>3. CASE UNCHANGED leases
  BY <1>3
<1> QED
  BY <1>1, <1>2, <1>3, Zenon DEF PromotionNext, promotionVars, RegisterBaseline,
     RegisterIsolated, RegisterJoint, Register, AdmitPublic, EndPublic, DecideDevelopment,
     DecideFactorial, DecideOnDevelopment, EndPrivate, Promote, RollbackChampion, AdmitWork,
     AdmitServing, ServingLive, WorkEnds, AdmissionChanges

\* Promotions are made by Promote and withdrawn by a rollback.
LEMMA PromotionsStay ==
  ASSUME PromotionTypeOK, [PromotionNext]_promotionVars, NEW c \in Candidates
  PROVE  \/ promotions'[c] = promotions[c]
         \/ /\ Promote(c)
            /\ promotions'[c].state = "active" /\ promotions'[c].previous = champion
         \/ /\ RollbackChampion /\ c = champion /\ promotions'[c].state = "rolled_back"
            /\ promotions'[c].previous = promotions[c].previous
<1>1. CASE \E d \in Candidates : Promote(d)
  <2>1. PICK d \in Candidates : Promote(d)
    BY <1>1
  <2>2. promotions' = [promotions EXCEPT ![d] = [state |-> "active", previous |-> champion]]
    BY <2>1, Zenon DEF Promote
  <2> QED
    BY <2>1, <2>2, SMT DEF PromotionTypeOK
<1>2. CASE RollbackChampion
  <2>1. champion \in Candidates
    BY <1>2 DEF RollbackChampion, PromotionTypeOK
  <2>2. ASSUME NEW row \in Promotion
        PROVE  Withdrawn(row).state = "rolled_back" /\ Withdrawn(row).previous = row.previous
    BY SMT DEF Withdrawn, Promotion
  <2>3. promotions' = [promotions EXCEPT ![champion] = Withdrawn(promotions[champion])]
    BY <1>2, Zenon DEF RollbackChampion
  <2>4. \A d \in Candidates : promotions'[d] = IF d = champion THEN Withdrawn(promotions[d])
                                               ELSE promotions[d]
    BY <2>1, <2>3, Zenon DEF PromotionTypeOK
  <2> QED
    BY <1>2, <2>2, <2>4 DEF PromotionTypeOK
<1>3. CASE UNCHANGED promotions
  BY <1>3
<1> QED
  BY <1>1, <1>2, <1>3, Zenon DEF PromotionNext, promotionVars, RegisterBaseline,
     RegisterIsolated, RegisterJoint, Register, AdmitPublic, EndPublic, DecideDevelopment,
     DecideFactorial, DecideOnDevelopment, IssueLease, LeaseExpires, AdmitPrivate, EndPrivate,
     DecideConfirmation, CompleteSealedEvaluation, AbandonLease, AdmitWork, AdmitServing,
     ServingLive, WorkEnds, AdmissionChanges

-----------------------------------------------------------------------------
(* Who is related to whom.  Identities are registered in order, so parents *)
(* come first; an unregistered one has neither parent nor promotion; and   *)
(* whoever takes part in the comparison of another, other than the         *)
(* baseline, has been decided upon before.                                 *)

FamilyFit(c) ==
  /\ status[c] = "absent" => manifest[c] = NoManifest /\ promotions[c].state = "absent"
  /\ status[c] # "absent" => \A d \in 1..(c - 1) : status[d] # "absent"
  /\ status[c] # "absent" /\ c # Baseline => Arms(c) \subseteq Candidates
  /\ manifest[c].parent < c
  /\ \A arm \in Arms(c) \ {0, c, Baseline} : decisions[arm].development # "none"

FamilyInv == \A c \in Candidates : FamilyFit(c)

LEMMA ArmsAreCandidates ==
  ASSUME PromotionTypeOK, NEW c \in Candidates
  PROVE  Arms(c) \subseteq {0} \union Candidates
BY SMT DEF Arms, PromotionTypeOK, Manifest

LEMMA ArmsOfTheUnregistered ==
  ASSUME NEW c, manifest[c] = NoManifest
  PROVE  Arms(c) = {0, c} /\ manifest[c].parent = 0
BY DEF Arms, NoManifest

LEMMA FamilyInit == PromotionInit => FamilyInv
<1> SUFFICES ASSUME PromotionInit, NEW c \in Candidates PROVE FamilyFit(c)
  BY DEF FamilyInv
<1>1. manifest[c] = NoManifest /\ status[c] = "absent" /\ promotions[c].state = "absent"
  BY DEF PromotionInit
<1>2. c \in Nat \ {0}
  BY PromotionAssumption DEF Candidates
<1>3. Arms(c) = {0, c} /\ manifest[c].parent = 0
  BY <1>1, ArmsOfTheUnregistered
<1> QED
  BY <1>1, <1>2, <1>3 DEF FamilyFit

\* All descendants of a registered candidate are registered.
LEMMA DescendantsAreRegistered ==
  ASSUME FamilyInv, NEW c \in Candidates, status[c] # "absent", NEW d \in Descendants(c)
  PROVE  status[d] # "absent"
<1> DEFINE S == {x \in Candidates : status[x] # "absent"}
<1>1. c \in S /\ S \in SUBSET Candidates
  OBVIOUS
<1>2. ASSUME NEW x \in Candidates, manifest[x].parent \in S PROVE x \in S
  <2>1. manifest[x].parent # 0
    BY <1>2, BaselineIsACandidate
  <2>2. status[x] # "absent"
    BY <2>1 DEF FamilyInv, FamilyFit, NoManifest
  <2> QED
    BY <2>2
<1> HIDE DEF S
<1>3. d \in S
  BY <1>1, <1>2, Zenon DEF Descendants
<1> QED
  BY <1>3 DEF S

\* Registration is the only way in.
LEMMA RegistrationsMade ==
  ASSUME PromotionTypeOK, ChampionInv, FamilyInv, [PromotionNext]_promotionVars,
         NEW c \in Candidates, status[c] = "absent"
  PROVE  \/ status'[c] = "absent" /\ manifest'[c] = manifest[c]
         \/ c = Baseline /\ RegisterBaseline
         \/ c \in Challengers /\ RegisterIsolated(c)
         \/ c \in Challengers /\ \E d, m \in Challengers : RegisterJoint(c, d, m)
<1>1. CASE RegisterBaseline
  <2>1. manifest' = manifest /\ status' = [status EXCEPT ![Baseline] = "champion"]
    BY <1>1 DEF RegisterBaseline
  <2> QED
    BY <1>1, <2>1, Zenon DEF PromotionTypeOK
<1>2. ASSUME NEW e \in Challengers, NEW d, NEW m, Register(e, d, m), e # c
      PROVE  status'[c] = "absent" /\ manifest'[c] = manifest[c]
  BY <1>2, Zenon DEF Register, PromotionTypeOK
<1>3. CASE \/ \E e \in Challengers : RegisterIsolated(e)
           \/ \E e, driver, model \in Challengers : RegisterJoint(e, driver, model)
  BY <1>2, <1>3, Zenon DEF RegisterIsolated, RegisterJoint
<1>4. CASE \/ \E e \in Candidates, verdict \in {"pass", "fail"} : DecideDevelopment(e, verdict)
           \/ \E e \in Candidates, verdict \in {"pass", "fail"} : DecideFactorial(e, verdict)
  <2>1. PICK e \in Candidates, state \in CandidateStates :
          /\ manifest' = manifest /\ status' = [status EXCEPT ![e] = state]
          /\ status[e] # "absent"
    <3>1. \A verdict : DecisionState(verdict) \in CandidateStates
      BY DEF DecisionState, CandidateStates
    <3> QED
      BY <1>4, <3>1, Zenon DEF DecideDevelopment, DecideFactorial, DecideOnDevelopment, Registered
  <2> QED
    BY <2>1, Zenon DEF PromotionTypeOK
<1>5. CASE \E l \in Leases, verdict \in {"pass", "fail"} : DecideConfirmation(l, verdict)
  <2>1. PICK l \in Leases, state \in {"confirmed", "rejected"} :
          /\ Open(l)
          /\ manifest' = manifest /\ status' = [status EXCEPT ![leases[l].candidate] = state]
    BY <1>5, Zenon DEF DecideConfirmation
  <2>2. status[leases[l].candidate] # "absent"
    BY <2>1 DEF ChampionInv, LeasesAreForChallengers, LeaseFits, Open
  <2> QED
    BY <2>1, <2>2, Zenon DEF PromotionTypeOK
<1>6. CASE \E l \in Leases : AbandonLease(l)
  <2>1. PICK l \in Leases :
          /\ manifest' = manifest
          /\ \/ status' = status
             \/ status' = [status EXCEPT ![leases[l].candidate] =
                                           AfterAbandonment(status[leases[l].candidate])]
    BY <1>6, Zenon DEF AbandonLease
  <2> QED
    BY <2>1, SMT DEF PromotionTypeOK, AfterAbandonment
<1>7. CASE \E d \in Candidates : Promote(d)
  BY <1>7, SMT DEF Promote, Retiring
<1>8. CASE RollbackChampion
  <2> DEFINE previous == promotions[champion].previous
             down == Descendants(champion)
  <2>1. /\ champion \in Candidates /\ promotions[champion].state = "active"
        /\ manifest' = manifest
        /\ status'[c] = IF c = previous THEN "champion"
                        ELSE IF c = champion THEN "rolled_back"
                        ELSE IF c \in down THEN "retired" ELSE status[c]
    BY <1>8, Zenon DEF RollbackChampion, HasActivePromotion, PromotionTypeOK
  <2>2. status[champion] # "absent"
    BY <2>1 DEF ChampionInv, SoleChampion
  <2>3. c \notin down
    BY <2>1, <2>2, DescendantsAreRegistered
  <2>4. status[Baseline] # "absent"
    BY <2>1, BaselineIsACandidate DEF ChampionInv, BaselineFirst
  <2>5. promotions[c].state = "absent"
    BY DEF FamilyInv, FamilyFit
  <2>6. previous = Baseline \/ promotions[previous].state = "active"
    BY <2>1 DEF ChampionInv, ActiveChain
  <2> HIDE DEF previous, down
  <2> QED
    BY <2>1, <2>2, <2>3, <2>4, <2>5, <2>6
<1>9. CASE UNCHANGED <<status, manifest>>
  BY <1>9
<1>10. \/ RegisterBaseline \/ RollbackChampion \/ UNCHANGED <<status, manifest>>
       \/ \E e \in Challengers : RegisterIsolated(e)
       \/ \E e, driver, model \in Challengers : RegisterJoint(e, driver, model)
       \/ \E e \in Candidates, verdict \in {"pass", "fail"} : DecideDevelopment(e, verdict)
       \/ \E e \in Candidates, verdict \in {"pass", "fail"} : DecideFactorial(e, verdict)
       \/ \E l \in Leases, verdict \in {"pass", "fail"} : DecideConfirmation(l, verdict)
       \/ \E l \in Leases : AbandonLease(l)
       \/ \E d \in Candidates : Promote(d)
  BY Zenon DEF PromotionNext, promotionVars, AdmitPublic, EndPublic, IssueLease, LeaseExpires,
     AdmitPrivate, EndPrivate, CompleteSealedEvaluation, AdmitWork, AdmitServing, ServingLive,
     WorkEnds, AdmissionChanges
<1> QED
  BY <1>1, <1>3, <1>4, <1>5, <1>6, <1>7, <1>8, <1>9, <1>10

\* What a registration writes.
LEMMA RegisteredFamily ==
  ASSUME PromotionTypeOK, ChampionInv, FamilyInv, NEW c \in Challengers,
         \/ RegisterIsolated(c) \/ \E d, m \in Challengers : RegisterJoint(c, d, m)
  PROVE  /\ manifest'[c].parent = champion /\ champion \in Candidates
         /\ status'[c] # "absent"
         /\ Arms(c)' \subseteq Candidates
         /\ \A arm \in Arms(c)' \ {0, c, Baseline} : decisions[arm].development # "none"
         /\ \A d \in 1..(c - 1) : status[d] # "absent"
         /\ champion < c
         /\ UNCHANGED <<decisions, promotions, champion>>
         /\ \A d \in Candidates : d # c => manifest'[d] = manifest[d] /\ status'[d] = status[d]
<1>1. PICK d \in {0} \union Candidates, m \in {0} \union Candidates :
        /\ Register(c, d, m)
        /\ ClassOf[c] = "joint" => /\ d \in Candidates /\ m \in Candidates
                                   /\ status[d] = "nominated" /\ status[m] = "nominated"
  BY Zenon DEF RegisterIsolated, RegisterJoint, Qualified, Challengers
<1>2. /\ c \in Candidates /\ c # Baseline /\ champion \in Candidates /\ status[c] = "absent"
      /\ \A e \in 1..(c - 1) : status[e] # "absent"
      /\ UNCHANGED <<decisions, promotions, champion>>
  BY <1>1, Zenon DEF Register, Registered, PromotionTypeOK, Challengers
<1>3. manifest'[c] = [class |-> ClassOf[c], parent |-> champion, driver |-> d, model |-> m]
  BY <1>1, <1>2, Zenon DEF Register, PromotionTypeOK
<1>4. \A e \in Candidates : e # c => manifest'[e] = manifest[e] /\ status'[e] = status[e]
  BY <1>1, Zenon DEF Register, PromotionTypeOK
<1>5. status'[c] = "materialized"
  BY <1>1, <1>2, Zenon DEF Register, PromotionTypeOK
<1>6. Arms(c)' = {champion, c} \union IF ClassOf[c] = "joint" THEN {d, m} ELSE {}
  BY <1>3 DEF Arms
<1>7. status[champion] = "champion"
  BY <1>2 DEF ChampionInv, SoleChampion
<1>8. champion < c
  <2>1. champion \in Nat /\ c \in Nat
    BY <1>2, PromotionAssumption DEF Candidates
  <2>2. champion # c
    BY <1>2, <1>7
  <2>3. ASSUME c < champion PROVE FALSE
    <3>1. c \in 1..(champion - 1)
      BY <1>2, <2>1, <2>3 DEF Candidates
    <3>2. \A e \in 1..(champion - 1) : status[e] # "absent"
      BY <1>2, <1>7 DEF FamilyInv, FamilyFit
    <3> QED
      BY <1>2, <3>1, <3>2
  <2> QED
    BY <2>1, <2>2, <2>3
<1>9. champion # Baseline => decisions[champion].development # "none"
  BY <1>2, <1>7 DEF ChampionInv, StatesMatchPromotions, PromotedAreDecided
<1>10. ClassOf[c] = "joint" => /\ decisions[d].development # "none"
                               /\ decisions[m].development # "none"
  BY <1>1 DEF ChampionInv, PromotedAreDecided
<1>11. Arms(c)' \subseteq Candidates
  BY <1>1, <1>2, <1>6
<1>12. \A arm \in Arms(c)' \ {0, c, Baseline} : decisions[arm].development # "none"
  BY <1>6, <1>9, <1>10
<1>13. manifest'[c].parent = champion
  BY <1>3
<1> QED
  BY <1>2, <1>4, <1>5, <1>8, <1>11, <1>12, <1>13

LEMMA FamilyStep ==
  ASSUME PromotionTypeOK, ChampionInv, FamilyInv, [PromotionNext]_promotionVars
  PROVE  FamilyInv'
<1> SUFFICES ASSUME NEW c \in Candidates PROVE FamilyFit(c)'
  BY DEF FamilyInv
<1>1. FamilyFit(c)
  BY DEF FamilyInv
<1>2. c \in Nat \ {0}
  BY PromotionAssumption DEF Candidates
<1>3. ASSUME NEW arm \in Arms(c) \ {0, c, Baseline}
      PROVE  decisions'[arm].development # "none"
  <2>1. arm \in Candidates /\ decisions[arm].development # "none"
    BY <1>1, <1>3, ArmsAreCandidates DEF FamilyFit
  <2> QED
    BY <2>1, DevelopmentDecided
<1>4. CASE status[c] # "absent"
  <2>1. status'[c] # "absent" /\ manifest'[c] = manifest[c]
    BY <1>4, RegistrationStays
  <2>2. Arms(c)' = Arms(c)
    BY <2>1, Zenon DEF Arms
  <2>3. \A d \in 1..(c - 1) : status'[d] # "absent"
    <3> TAKE d \in 1..(c - 1)
    <3>1. status[d] # "absent"
      BY <1>1, <1>4 DEF FamilyFit
    <3>2. d \in Candidates
      BY <1>2, PromotionAssumption DEF Candidates
    <3> QED
      BY <3>1, <3>2, RegistrationStays
  <2> QED
    BY <1>1, <1>3, <1>4, <2>1, <2>2, <2>3 DEF FamilyFit
<1>5. CASE status[c] = "absent"
  <2>1. /\ manifest[c] = NoManifest /\ promotions[c].state = "absent"
        /\ Arms(c) = {0, c} /\ manifest[c].parent = 0
    BY <1>1, <1>5, ArmsOfTheUnregistered DEF FamilyFit
  <2>2. promotions'[c].state = "absent"
    BY <1>5, <2>1, PromotionsStay DEF Promote, RollbackChampion, HasActivePromotion
  <2>3. CASE status'[c] = "absent" /\ manifest'[c] = manifest[c]
    <3>1. Arms(c)' = Arms(c)
      BY <2>3, Zenon DEF Arms
    <3> QED
      BY <1>2, <2>1, <2>2, <2>3, <3>1 DEF FamilyFit
  <2>4. CASE c = Baseline /\ RegisterBaseline
    <3>1. manifest'[c] = manifest[c]
      BY <2>4 DEF RegisterBaseline
    <3>2. Arms(c)' = Arms(c)
      BY <3>1, Zenon DEF Arms
    <3>3. status'[c] = "champion"
      BY <2>4 DEF RegisterBaseline, PromotionTypeOK
    <3>4. 1..(c - 1) = {}
      BY <2>4 DEF Baseline
    <3> QED
      BY <1>2, <2>1, <2>4, <3>1, <3>2, <3>3, <3>4 DEF FamilyFit
  <2>5. CASE /\ c \in Challengers
             /\ RegisterIsolated(c) \/ \E d, m \in Challengers : RegisterJoint(c, d, m)
    <3>1. /\ manifest'[c].parent = champion /\ champion \in Candidates
          /\ status'[c] # "absent"
          /\ Arms(c)' \subseteq Candidates
          /\ \A arm \in Arms(c)' \ {0, c, Baseline} : decisions[arm].development # "none"
          /\ \A d \in 1..(c - 1) : status[d] # "absent"
          /\ champion < c
          /\ UNCHANGED <<decisions, promotions, champion>>
          /\ \A d \in Candidates : d # c => manifest'[d] = manifest[d] /\ status'[d] = status[d]
      BY <2>5, RegisteredFamily
    <3>2. \A d \in 1..(c - 1) : status'[d] # "absent"
      <4> TAKE d \in 1..(c - 1)
      <4>1. d \in Candidates /\ d # c
        BY <1>2, PromotionAssumption DEF Candidates
      <4> QED
        BY <3>1, <4>1
    <3> QED
      BY <3>1, <3>2 DEF FamilyFit
  <2> QED
    BY <1>5, <2>3, <2>4, <2>5, RegistrationsMade
<1> QED
  BY <1>4, <1>5

LEMMA FamilyInvariant == PromotionSpec => []FamilyInv
<1>1. PromotionTypeOK /\ ChampionInv /\ FamilyInv /\ [PromotionNext]_promotionVars => FamilyInv'
  BY FamilyStep
<1> QED
  BY <1>1, FamilyInit, ChampionInvariant, PromotionTypeCorrect, PTL DEF PromotionSpec

-----------------------------------------------------------------------------
(* Whoever was promoted was promoted on evidence.  The invariant follows   *)
(* the evidence from the decision that was based on it: decisions, results *)
(* and closed leases stay, and so do the manifests that name the arms.     *)

ConfirmedBy(l, c) ==
  /\ leases[l].state = "closed" /\ leases[l].split = "confirmation"
  /\ leases[l].candidate = c
  /\ \A arm \in Arms(c) : private[l][arm] = "complete"

EvidenceOf(c) ==
  /\ decisions[c].development # "none" =>
       /\ status[c] # "absent" /\ c # Baseline
       /\ \A arm \in Arms(c) : public[c][arm] = "complete"
  /\ decisions[c].confirmation = "pass" =>
       status[c] # "absent" /\ \E l \in Leases : ConfirmedBy(l, c)
  /\ promotions[c].state # "absent" =>
       /\ manifest[c].parent = promotions[c].previous
       /\ decisions[c].development # "none" /\ decisions[c].confirmation = "pass"

EvidenceInv == \A c \in Candidates : EvidenceOf(c)

LEMMA EvidenceSuffices == EvidenceInv => PromotedOnEvidence
<1> SUFFICES ASSUME EvidenceInv, NEW c \in Candidates, promotions[c].state # "absent"
             PROVE  /\ manifest[c].parent = promotions[c].previous
                    /\ \A arm \in Arms(c) : public[c][arm] = "complete"
                    /\ \E l \in Leases :
                         /\ leases[l].state = "closed" /\ leases[l].split = "confirmation"
                         /\ leases[l].candidate = c
                         /\ \A arm \in Arms(c) : private[l][arm] = "complete"
  BY Zenon DEF PromotedOnEvidence
<1>1. EvidenceOf(c)
  BY DEF EvidenceInv
<1> QED
  BY <1>1, Zenon DEF EvidenceOf, ConfirmedBy

LEMMA EvidenceInit == PromotionInit => EvidenceInv
BY SMT DEF PromotionInit, EvidenceInv, EvidenceOf

\* The decision to confirm is based on the complete results of its lease.
LEMMA ConfirmationHasEvidence ==
  ASSUME PromotionTypeOK, NEW l \in Leases, DecideConfirmation(l, "pass")
  PROVE  ConfirmedBy(l, leases[l].candidate)'
<1> DEFINE c == leases[l].candidate
<1>1. /\ leases[l].split = "confirmation" /\ ScheduleComplete(l)
      /\ ~ \E arm \in LeaseArms(l) : private[l][arm] = "failed"
      /\ leases' = [leases EXCEPT ![l].state = "closed"]
      /\ UNCHANGED <<manifest, private>>
  BY Zenon DEF DecideConfirmation
<1>2. LeaseArms(l) = Arms(c)
  BY <1>1 DEF LeaseArms
<1>3. \A arm \in Arms(c) : private[l][arm] = "complete"
  BY <1>1, <1>2 DEF ScheduleComplete, Recorded
<1>4. /\ leases'[l].state = "closed" /\ leases'[l].split = "confirmation"
      /\ leases'[l].candidate = c
  BY <1>1, SMT DEF PromotionTypeOK, Lease
<1>5. Arms(c)' = Arms(c)
  BY <1>1, <1>4, Zenon DEF Arms
<1> QED
  BY <1>1, <1>3, <1>4, <1>5 DEF ConfirmedBy

LEMMA EvidenceStep ==
  ASSUME PromotionTypeOK, ChampionInv, FamilyInv, EvidenceInv, [PromotionNext]_promotionVars
  PROVE  EvidenceInv'
<1> SUFFICES ASSUME NEW c \in Candidates PROVE EvidenceOf(c)'
  BY DEF EvidenceInv
<1>1. EvidenceOf(c) /\ FamilyFit(c)
  BY DEF EvidenceInv, FamilyInv
<1>2. ASSUME status[c] # "absent"
      PROVE  status'[c] # "absent" /\ manifest'[c] = manifest[c] /\ Arms(c)' = Arms(c)
  <2>1. status'[c] # "absent" /\ manifest'[c] = manifest[c]
    BY <1>2, RegistrationStays
  <2> QED
    BY <2>1, Zenon DEF Arms
<1>3. ASSUME status[c] # "absent", c # Baseline
      PROVE  Arms(c) \subseteq Candidates
  BY <1>1, <1>3 DEF FamilyFit
<1>4. ASSUME decisions'[c].development # "none"
      PROVE  /\ status'[c] # "absent" /\ c # Baseline
             /\ \A arm \in Arms(c)' : public'[c][arm] = "complete"
  <2>1. /\ status[c] # "absent" /\ c # Baseline
        /\ \A arm \in Arms(c) : public[c][arm] = "complete"
    BY <1>1, <1>4, DevelopmentDecided DEF EvidenceOf
  <2>2. \A arm \in Arms(c) : public'[c][arm] = "complete"
    BY <1>3, <2>1, PublicEpisodesStay
  <2> QED
    BY <1>2, <2>1, <2>2
<1>5. ASSUME decisions'[c].confirmation = "pass"
      PROVE  status'[c] # "absent" /\ \E l \in Leases : ConfirmedBy(l, c)'
  <2>1. CASE decisions[c].confirmation = "pass"
    <3>1. PICK l \in Leases : ConfirmedBy(l, c) /\ status[c] # "absent"
      BY <1>1, <2>1 DEF EvidenceOf
    <3>2. /\ leases[l].state = "closed" /\ leases[l].split = "confirmation"
          /\ leases[l].candidate = c
          /\ \A arm \in Arms(c) : private[l][arm] = "complete"
      BY <3>1 DEF ConfirmedBy
    <3>3. c # Baseline
      BY <3>2 DEF ChampionInv, LeasesAreForChallengers, LeaseFits
    <3>4. \A arm \in Arms(c) : private'[l][arm] = "complete"
      BY <1>3, <3>1, <3>2, <3>3, PrivateEpisodesStay
    <3>5. leases'[l] = leases[l]
      BY <3>2, LeasesStay
    <3>6. Arms(c)' = Arms(c) /\ status'[c] # "absent"
      BY <1>2, <3>1
    <3>7. ConfirmedBy(l, c)'
      BY <3>2, <3>4, <3>5, <3>6 DEF ConfirmedBy
    <3> QED
      BY <3>6, <3>7
  <2>2. CASE decisions[c].confirmation # "pass"
    <3>1. PICK l \in Leases : DecideConfirmation(l, "pass") /\ leases[l].candidate = c
      BY <1>5, <2>2, ConfirmationDecided
    <3>2. leases'[l].candidate = c
      <4>1. leases[l].state # "absent"
        BY <3>1 DEF DecideConfirmation, Open
      <4> QED
        BY <3>1, <4>1, LeasesStay
    <3>3. ConfirmedBy(l, c)'
      <4>1. ConfirmedBy(l, leases[l].candidate)'
        BY <3>1, ConfirmationHasEvidence
      <4> QED
        BY <3>2, <4>1
    <3>4. status[c] # "absent"
      BY <3>1 DEF DecideConfirmation, Open, ChampionInv, LeasesAreForChallengers, LeaseFits
    <3> QED
      BY <1>2, <3>3, <3>4
  <2> QED
    BY <2>1, <2>2
<1>6. ASSUME promotions'[c].state # "absent"
      PROVE  /\ manifest'[c].parent = promotions'[c].previous
             /\ decisions'[c].development # "none" /\ decisions'[c].confirmation = "pass"
  <2>1. CASE /\ promotions[c].state # "absent"
             /\ promotions'[c].previous = promotions[c].previous
    <3>1. /\ manifest[c].parent = promotions[c].previous
          /\ decisions[c].development # "none" /\ decisions[c].confirmation = "pass"
      BY <1>1, <2>1 DEF EvidenceOf
    <3>2. manifest'[c] = manifest[c]
      BY <1>1, <1>2, <2>1 DEF FamilyFit
    <3>3. decisions'[c].development # "none"
      BY <3>1, DevelopmentDecided
    <3>4. decisions'[c].confirmation = "pass"
      BY <3>1, ConfirmationDecided
    <3> QED
      BY <2>1, <3>1, <3>2, <3>3, <3>4
  <2>2. CASE Promote(c) /\ promotions'[c].previous = champion
    <3>1. /\ status[c] = "confirmed" /\ manifest[c].parent = champion
          /\ decisions[c].confirmation = "pass" /\ UNCHANGED <<manifest, decisions>>
      BY <2>2 DEF Promote
    <3>2. decisions[c].development # "none"
      BY <3>1 DEF ChampionInv, PromotedAreDecided
    <3> QED
      BY <2>2, <3>1, <3>2
  <2> QED
    BY <1>6, <2>1, <2>2, PromotionsStay DEF RollbackChampion, HasActivePromotion
<1> QED
  BY <1>4, <1>5, <1>6 DEF EvidenceOf

LEMMA EvidenceInvariant == PromotionSpec => []EvidenceInv
<1>1. PromotionTypeOK /\ ChampionInv /\ FamilyInv /\ EvidenceInv /\ [PromotionNext]_promotionVars
        => EvidenceInv'
  BY EvidenceStep
<1> QED
  BY <1>1, EvidenceInit, FamilyInvariant, ChampionInvariant, PromotionTypeCorrect, PTL
  DEF PromotionSpec

\* Whoever was promoted had complete public evidence and one closed, complete
\* confirmation lease, against the champion it replaced.
THEOREM PromotedOnlyOnEvidence == PromotionSpec => []PromotedOnEvidence
<1> QED
  BY EvidenceSuffices, EvidenceInvariant, PTL

-----------------------------------------------------------------------------
(* The active promotions are the chain from the baseline to the champion.  *)
(* Inductive is that the champion descends from every promoted candidate   *)
(* whose promotion stands; that it descends from no other follows, since   *)
(* parents of active ones are active or the baseline.                      *)

HeirsOf(S) == \A x \in Candidates : manifest[x].parent \in S => x \in S

LEMMA DescendantsMeaning ==
  ASSUME NEW c, NEW d
  PROVE  d \in Descendants(c) <=>
           d \in Candidates /\ \A S \in SUBSET Candidates : c \in S /\ HeirsOf(S) => d \in S
BY Zenon DEF Descendants, HeirsOf

AncestryInv ==
  \A d \in Candidates : promotions[d].state = "active" => champion \in Descendants(d)

LEMMA AncestrySuffices ==
  ASSUME PromotionTypeOK, ChampionInv, EvidenceInv, AncestryInv
  PROVE  PromotionsLeadToChampion
<1> SUFFICES ASSUME champion # 0, NEW d \in Candidates
             PROVE  HasActivePromotion(d) <=> d # Baseline /\ champion \in Descendants(d)
  BY Zenon DEF PromotionsLeadToChampion
<1>1. ASSUME HasActivePromotion(d) PROVE d # Baseline /\ champion \in Descendants(d)
  BY <1>1 DEF HasActivePromotion, AncestryInv, ChampionInv, BaselineFirst
<1>2. ASSUME d # Baseline, champion \in Descendants(d), ~HasActivePromotion(d) PROVE FALSE
  <2> DEFINE S == {x \in Candidates : x # Baseline /\ promotions[x].state # "active"}
  <2>1. d \in S /\ S \in SUBSET Candidates
    BY <1>2 DEF HasActivePromotion
  <2>2. HeirsOf(S)
    <3> SUFFICES ASSUME NEW x \in Candidates, manifest[x].parent \in S, x \notin S
                 PROVE  FALSE
      BY DEF HeirsOf
    <3>1. CASE x = Baseline
      BY <3>1, BaselineIsACandidate DEF ChampionInv, BaselineFirst
    <3>2. CASE promotions[x].state = "active"
      <4>1. manifest[x].parent = promotions[x].previous
        BY <3>2 DEF EvidenceInv, EvidenceOf
      <4>2. \/ promotions[x].previous = Baseline
            \/ promotions[promotions[x].previous].state = "active"
        BY <3>2 DEF ChampionInv, ActiveChain
      <4> QED
        BY <4>1, <4>2
    <3> QED
      BY <3>1, <3>2
  <2>3. champion \in S
    <3> HIDE DEF S
    <3> QED
      BY <1>2, <2>1, <2>2, DescendantsMeaning
  <2>4. champion = Baseline \/ promotions[champion].state = "active"
    BY <2>3 DEF ChampionInv, SoleChampion, StatesMatchPromotions
  <2> QED
    BY <2>3, <2>4
<1> QED
  BY <1>1, <1>2

\* Withdrawing the last promotion: whoever had it in its line of descent has
\* its parent there too, for identities only grow along a line.
LEMMA ParentOfTheLast ==
  ASSUME PromotionTypeOK, FamilyInv, NEW d \in Candidates, NEW c \in Descendants(d), d # c,
         manifest[c].parent \in Candidates
  PROVE  manifest[c].parent \in Descendants(d)
<1> DEFINE p == manifest[c].parent
<1>1. c \in Candidates
  BY DescendantsMeaning
<1>2. Candidates \subseteq Nat
  BY DEF Candidates
<1>3. \A x \in Candidates : manifest[x].parent < x /\ manifest[x].parent \in {0} \union Candidates
  BY DEF FamilyInv, FamilyFit, PromotionTypeOK, Manifest
<1> SUFFICES ASSUME NEW S \in SUBSET Candidates, d \in S, HeirsOf(S), p \notin S
             PROVE  FALSE
  BY DescendantsMeaning
<1> DEFINE T == {x \in Candidates : x # c /\ (x \in S \/ x > c)}
<1>4. d \in T /\ T \in SUBSET Candidates
  OBVIOUS
<1>5. HeirsOf(T)
  <2> SUFFICES ASSUME NEW x \in Candidates, manifest[x].parent \in T
               PROVE  x \in T
    BY DEF HeirsOf
  <2>1. PICK q \in Candidates : q = manifest[x].parent /\ q # c /\ (q \in S \/ q > c)
    OBVIOUS
  <2>2. q < x /\ q \in Nat /\ x \in Nat /\ c \in Nat
    BY <1>1, <1>2, <1>3, <2>1
  <2>3. CASE x > c
    BY <2>2, <2>3
  <2>4. CASE x < c
    <3>1. q \in S
      BY <2>1, <2>2, <2>4
    <3>2. x \in S
      BY <2>1, <3>1 DEF HeirsOf
    <3> QED
      BY <2>2, <2>4, <3>2
  <2>5. CASE x = c
    <3>1. q = p /\ q < c
      BY <2>1, <2>2, <2>5
    <3> QED
      BY <2>1, <2>2, <3>1
  <2> QED
    BY <2>2, <2>3, <2>4, <2>5
<1>6. c \in T
  <2> HIDE DEF T
  <2> QED
    BY <1>4, <1>5, DescendantsMeaning
<1> QED
  BY <1>6

LEMMA AncestryStep ==
  ASSUME PromotionTypeOK, ChampionInv, FamilyInv, EvidenceInv, AncestryInv,
         [PromotionNext]_promotionVars
  PROVE  AncestryInv'
<1>1. ASSUME UNCHANGED <<manifest, promotions, champion>> PROVE AncestryInv'
  <2>1. \A d \in Candidates : Descendants(d)' = Descendants(d)
    BY <1>1 DEF Descendants
  <2> QED
    BY <1>1, <2>1 DEF AncestryInv
<1>2. CASE RegisterBaseline
  BY <1>2 DEF RegisterBaseline, ChampionInv, BaselineFirst, AncestryInv
<1>3. CASE \/ \E c \in Challengers : RegisterIsolated(c)
           \/ \E c, d, m \in Challengers : RegisterJoint(c, d, m)
  <2>1. PICK c \in Challengers :
          RegisterIsolated(c) \/ \E d, m \in Challengers : RegisterJoint(c, d, m)
    BY <1>3, Zenon
  <2>2. /\ UNCHANGED <<promotions, champion>>
        /\ \A d \in Candidates : d # c => manifest'[d] = manifest[d]
    BY <2>1, RegisteredFamily
  <2>3. manifest[c].parent = 0
    <3>1. c \in Candidates /\ status[c] = "absent"
      BY <2>1, Zenon DEF RegisterIsolated, RegisterJoint, Register, Registered, Challengers
    <3> QED
      BY <3>1 DEF FamilyInv, FamilyFit, NoManifest
  <2>4. ASSUME NEW d \in Candidates, champion \in Descendants(d)
        PROVE  champion \in Descendants(d)'
    <3>1. ASSUME NEW S \in SUBSET Candidates, HeirsOf(S)' PROVE HeirsOf(S)
      BY <2>2, <2>3, <3>1, BaselineIsACandidate DEF HeirsOf
    <3>2. champion \in Candidates
          /\ \A S \in SUBSET Candidates : d \in S /\ HeirsOf(S) => champion \in S
      BY <2>4, DescendantsMeaning
    <3>3. \A S \in SUBSET Candidates : d \in S /\ HeirsOf(S)' => champion \in S
      BY <3>1, <3>2
    <3> QED
      BY <2>2, <3>2, <3>3, Zenon DEF Descendants, HeirsOf
  <2> QED
    BY <2>2, <2>4 DEF AncestryInv
<1>4. ASSUME NEW c \in Candidates, Promote(c) PROVE AncestryInv'
  <2>1. /\ manifest[c].parent = champion /\ champion' = c /\ manifest' = manifest
        /\ \A d \in Candidates : d # c => promotions'[d] = promotions[d]
    BY <1>4, Zenon DEF Promote, PromotionTypeOK
  <2>2. \A d \in Candidates : Descendants(d)' = Descendants(d)
    BY <2>1 DEF Descendants
  <2>3. ASSUME NEW d \in Candidates, promotions'[d].state = "active"
        PROVE  c \in Descendants(d)
    <3>1. CASE d = c
      BY <3>1, DescendantsMeaning
    <3>2. CASE d # c
      <4>1. champion \in Descendants(d)
        BY <2>1, <2>3, <3>2 DEF AncestryInv
      <4>2. \A S \in SUBSET Candidates : d \in S /\ HeirsOf(S) => c \in S
        BY <2>1, <4>1, DescendantsMeaning DEF HeirsOf
      <4> QED
        BY <4>2, DescendantsMeaning
    <3> QED
      BY <3>1, <3>2
  <2> QED
    BY <2>1, <2>2, <2>3 DEF AncestryInv
<1>5. CASE RollbackChampion
  <2>1. /\ champion \in Candidates /\ promotions[champion].state = "active"
        /\ champion' = promotions[champion].previous /\ manifest' = manifest
    BY <1>5, Zenon DEF RollbackChampion, HasActivePromotion, PromotionTypeOK
  <2>2. manifest[champion].parent = promotions[champion].previous
    BY <2>1 DEF EvidenceInv, EvidenceOf
  <2>3. champion' \in Candidates
    BY <2>1 DEF ChampionInv, ActiveChain
  <2>4. ASSUME NEW d \in Candidates, promotions'[d].state = "active"
        PROVE  champion' \in Descendants(d)
    <3>1. d # champion /\ promotions[d].state = "active"
      <4>1. /\ promotions'[champion] = Withdrawn(promotions[champion])
            /\ \A e \in Candidates : e # champion => promotions'[e] = promotions[e]
        BY <1>5, <2>1, Zenon DEF RollbackChampion, PromotionTypeOK
      <4>2. ASSUME NEW row \in Promotion PROVE Withdrawn(row).state = "rolled_back"
        BY SMT DEF Withdrawn, Promotion
      <4>3. promotions'[champion].state = "rolled_back"
        BY <2>1, <4>1, <4>2 DEF PromotionTypeOK
      <4> QED
        BY <2>4, <4>1, <4>3
    <3>2. champion \in Descendants(d)
      BY <3>1 DEF AncestryInv
    <3> QED
      BY <2>1, <2>2, <2>3, <3>1, <3>2, ParentOfTheLast
  <2>5. \A d \in Candidates : Descendants(d)' = Descendants(d)
    BY <2>1 DEF Descendants
  <2> QED
    BY <2>4, <2>5 DEF AncestryInv
<1>6. \/ RegisterBaseline \/ RollbackChampion \/ UNCHANGED <<manifest, promotions, champion>>
      \/ \E c \in Challengers : RegisterIsolated(c)
      \/ \E c, d, m \in Challengers : RegisterJoint(c, d, m)
      \/ \E c \in Candidates : Promote(c)
  BY Zenon DEF PromotionNext, promotionVars, AdmitPublic, EndPublic, DecideDevelopment,
     DecideFactorial, DecideOnDevelopment, IssueLease, LeaseExpires, AdmitPrivate, EndPrivate,
     DecideConfirmation, CompleteSealedEvaluation, AbandonLease, AdmitWork, AdmitServing,
     ServingLive, WorkEnds, AdmissionChanges
<1> QED
  BY <1>1, <1>2, <1>3, <1>4, <1>5, <1>6

\* The active promotions are the chain that leads from the baseline to the
\* champion, however often promotions and rollbacks alternate.
THEOREM PromotionsAlwaysLeadToChampion == PromotionSpec => []PromotionsLeadToChampion
<1>1. PromotionInit => AncestryInv
  BY DEF PromotionInit, AncestryInv
<1>2. PromotionTypeOK /\ ChampionInv /\ FamilyInv /\ EvidenceInv /\ AncestryInv
        /\ [PromotionNext]_promotionVars => AncestryInv'
  BY AncestryStep
<1>3. PromotionTypeOK /\ ChampionInv /\ EvidenceInv /\ AncestryInv => PromotionsLeadToChampion
  BY AncestrySuffices
<1> QED
  BY <1>1, <1>2, <1>3, EvidenceInvariant, FamilyInvariant, ChampionInvariant,
     PromotionTypeCorrect, PTL DEF PromotionSpec

-----------------------------------------------------------------------------
(* No episode runs for a dead candidate.  What kills a candidate waits for *)
(* its episodes: a decision on a comparison for those of the comparison,   *)
(* and nobody undecided, other than the baseline, takes part in another;   *)
(* a lease for its schedule, when nothing else runs; a promotion and a     *)
(* rollback for all.                                                       *)

PublicFit ==
  \A c, arm \in Candidates :
    public[c][arm] = "open" => status[c] # "absent" /\ arm \in Arms(c) /\ Alive(arm)
PrivateFit ==
  /\ \A l \in Leases, arm \in Candidates : private[l][arm] = "open" => Alive(arm)
  /\ \A l \in Leases : leases[l].state # "absent" =>
       decisions[leases[l].candidate].development # "none"
LiveInv == PublicFit /\ PrivateFit

LEMMA LiveSuffices == LiveInv => OpenWorkIsForLiveCandidates
BY Zenon DEF LiveInv, PublicFit, PrivateFit, OpenWorkIsForLiveCandidates, OpenPublic, OpenPrivate

LEMMA LiveInit == PromotionInit => LiveInv
<1> SUFFICES ASSUME PromotionInit PROVE LiveInv
  OBVIOUS
<1>1. \A c, arm \in Candidates : public[c][arm] # "open"
  BY DEF PromotionInit, NoEpisodes
<1>2. \A l \in Leases, arm \in Candidates : private[l][arm] # "open"
  BY DEF PromotionInit, NoEpisodes
<1>3. \A l \in Leases : leases[l].state = "absent"
  BY DEF PromotionInit, NoLease
<1> QED
  BY <1>1, <1>2, <1>3, Zenon DEF LiveInv, PublicFit, PrivateFit

RunsFor(arm) ==
  \/ \E c \in Candidates : public[c][arm] = "open"
  \/ \E l \in Leases : private[l][arm] = "open"

LEMMA NothingRuns ==
  ASSUME NoOpenEpisode, NEW arm \in Candidates
  PROVE  ~RunsFor(arm)
<1>1. OpenPublic = {} /\ OpenPrivate = {}
  BY DEF NoOpenEpisode
<1>2. ASSUME NEW c \in Candidates PROVE public[c][arm] # "open"
  <2>1. <<c, arm>> \notin OpenPublic
    BY <1>1
  <2> QED
    BY <2>1, Zenon DEF OpenPublic
<1>3. ASSUME NEW l \in Leases PROVE private[l][arm] # "open"
  <2>1. <<l, arm>> \notin OpenPrivate
    BY <1>1
  <2> QED
    BY <2>1, Zenon DEF OpenPrivate
<1> QED
  BY <1>2, <1>3 DEF RunsFor

\* Whoever is decided upon for the first time runs nowhere any more.
LEMMA DecidedRunsNowhere ==
  ASSUME PromotionTypeOK, ChampionInv, FamilyInv, AloneInv, LiveInv,
         NEW c \in Candidates, c # Baseline, decisions[c].development = "none",
         \A arm \in Arms(c) : public[c][arm] = "complete"
  PROVE  ~RunsFor(c)
<1>1. \A d \in Candidates \ {c} : c \notin Arms(d)
  BY BaselineIsACandidate DEF FamilyInv, FamilyFit
<1>2. public[c][c] = "complete"
  BY DEF Arms
<1>3. ASSUME NEW d \in Candidates, public[d][c] = "open" PROVE FALSE
  <2>1. c \in Arms(d)
    BY <1>3 DEF LiveInv, PublicFit
  <2> QED
    BY <1>1, <1>2, <1>3, <2>1
<1>4. ASSUME NEW l \in Leases, private[l][c] = "open" PROVE FALSE
  <2>1. Open(l) /\ c \in LeaseArms(l)
    BY <1>4 DEF AloneInv, EpisodesOfOpenLeases
  <2>2. leases[l].state # "absent"
    BY <2>1 DEF Open
  <2>3. /\ leases[l].candidate \in Candidates
        /\ decisions[leases[l].candidate].development # "none"
    BY <2>2 DEF ChampionInv, LeasesAreForChallengers, LeaseFits, LiveInv, PrivateFit
  <2>4. c \notin LeaseArms(l)
    BY <1>1, <2>3 DEF LeaseArms
  <2> QED
    BY <2>1, <2>4
<1> QED
  BY <1>3, <1>4 DEF RunsFor

\* While a lease is open, only its own episodes run.
LEMMA LeaseRunsAlone ==
  ASSUME AloneInv, NEW l \in Leases, Open(l), NEW arm \in Candidates,
         \A a \in LeaseArms(l) : private[l][a] # "open"
  PROVE  ~RunsFor(arm)
<1>1. \A c \in Candidates : public[c][arm] # "open"
  BY DEF AloneInv, NothingElseRuns
<1>2. ASSUME NEW k \in Leases, private[k][arm] = "open" PROVE FALSE
  <2>1. Open(k) /\ arm \in LeaseArms(k)
    BY <1>2 DEF AloneInv, EpisodesOfOpenLeases
  <2>2. k = l
    BY <2>1 DEF AloneInv, OneOpenLease
  <2> QED
    BY <1>2, <2>1, <2>2
<1> QED
  BY <1>1, <1>2 DEF RunsFor

LEMMA LiveStays ==
  ASSUME PromotionTypeOK, ChampionInv, FamilyInv, AloneInv, LiveInv,
         [PromotionNext]_promotionVars,
         NEW arm \in Candidates, Alive(arm), RunsFor(arm)
  PROVE  Alive(arm)'
<1>1. CASE RegisterBaseline
  <2>1. status'[arm] = status[arm] \/ status'[arm] = "champion"
    BY <1>1, Zenon DEF RegisterBaseline, PromotionTypeOK
  <2> QED
    BY <2>1 DEF Alive, Registered, DeadStates
<1>2. CASE \/ \E e \in Challengers : RegisterIsolated(e)
           \/ \E e, driver, model \in Challengers : RegisterJoint(e, driver, model)
  <2>1. PICK e \in Challengers : status' = [status EXCEPT ![e] = "materialized"]
    BY <1>2, Zenon DEF RegisterIsolated, RegisterJoint, Register
  <2>2. status'[arm] = status[arm] \/ status'[arm] = "materialized"
    BY <2>1, Zenon DEF PromotionTypeOK
  <2> QED
    BY <2>2 DEF Alive, Registered, DeadStates
<1>3. CASE \E e \in Candidates, verdict \in {"pass", "fail"} :
             DecideDevelopment(e, verdict) \/ DecideFactorial(e, verdict)
  <2>1. PICK e \in Candidates, verdict \in {"pass", "fail"} :
          DecideOnDevelopment(e, verdict) /\ e # Baseline
    BY <1>3, Zenon DEF DecideDevelopment, DecideFactorial, ChampionInv, BaselineFirst
  <2>2. /\ decisions[e].development = "none"
        /\ \A a \in Arms(e) : public[e][a] = "complete"
        /\ status' = [status EXCEPT ![e] = DecisionState(verdict)]
    BY <2>1, Zenon DEF DecideOnDevelopment, Undecided
  <2>3. e # arm
    BY <2>1, <2>2, DecidedRunsNowhere
  <2>4. status'[arm] = status[arm]
    BY <2>2, <2>3, Zenon DEF PromotionTypeOK
  <2> QED
    BY <2>4 DEF Alive, Registered
<1>4. CASE \E l \in Leases : \/ \E verdict \in {"pass", "fail"} : DecideConfirmation(l, verdict)
                             \/ AbandonLease(l)
  <2>1. PICK l \in Leases : \/ \E verdict \in {"pass", "fail"} : DecideConfirmation(l, verdict)
                            \/ AbandonLease(l)
    BY <1>4
  <2>2. Open(l) /\ \A a \in LeaseArms(l) : private[l][a] # "open"
    BY <2>1, SMT DEF DecideConfirmation, AbandonLease, ScheduleComplete, Recorded
  <2> QED
    BY <2>2, LeaseRunsAlone
<1>5. CASE RollbackChampion \/ \E c \in Candidates : Promote(c)
  <2>1. NoOpenEpisode
    BY <1>5, Zenon DEF RollbackChampion, AllCleaned, Promote
  <2> QED
    BY <2>1, NothingRuns
<1>6. CASE UNCHANGED status
  BY <1>6 DEF Alive, Registered
<1>7. \/ RegisterBaseline \/ RollbackChampion \/ UNCHANGED status
      \/ \E e \in Challengers : RegisterIsolated(e)
      \/ \E e, driver, model \in Challengers : RegisterJoint(e, driver, model)
      \/ \E e \in Candidates, verdict \in {"pass", "fail"} :
           DecideDevelopment(e, verdict) \/ DecideFactorial(e, verdict)
      \/ \E l \in Leases : \/ \E verdict \in {"pass", "fail"} : DecideConfirmation(l, verdict)
                           \/ AbandonLease(l)
      \/ \E d \in Candidates : Promote(d)
  BY Zenon DEF PromotionNext, promotionVars, AdmitPublic, EndPublic, IssueLease, LeaseExpires,
     AdmitPrivate, EndPrivate, CompleteSealedEvaluation, AdmitWork, AdmitServing, ServingLive,
     WorkEnds, AdmissionChanges
<1> QED
  BY <1>1, <1>2, <1>3, <1>4, <1>5, <1>6, <1>7

LEMMA LiveStep ==
  ASSUME PromotionTypeOK, ChampionInv, FamilyInv, AloneInv, LiveInv,
         [PromotionNext]_promotionVars
  PROVE  LiveInv'
<1>1. ASSUME NEW c \in Candidates, NEW arm \in Candidates, public'[c][arm] = "open"
      PROVE  status'[c] # "absent" /\ arm \in Arms(c)' /\ Alive(arm)'
  <2>1. CASE public[c][arm] = "open"
    <3>1. status[c] # "absent" /\ arm \in Arms(c) /\ Alive(arm) /\ RunsFor(arm)
      BY <2>1 DEF LiveInv, PublicFit, RunsFor
    <3>2. status'[c] # "absent" /\ manifest'[c] = manifest[c]
      BY <3>1, RegistrationStays
    <3>3. Arms(c)' = Arms(c)
      BY <3>2, Zenon DEF Arms
    <3> QED
      BY <3>1, <3>2, <3>3, LiveStays
  <2>2. CASE AdmitPublic(c, arm)
    <3>1. /\ status[c] # "absent" /\ arm \in Arms(c) /\ Alive(arm)
          /\ UNCHANGED <<status, manifest>>
      BY <2>2, Zenon DEF AdmitPublic, Registered
    <3> QED
      BY <3>1, Zenon DEF Arms, Alive, Registered
  <2> QED
    BY <1>1, <2>1, <2>2, PublicEpisodesStay
<1>2. ASSUME NEW l \in Leases, NEW arm \in Candidates, private'[l][arm] = "open"
      PROVE  Alive(arm)'
  <2>1. CASE private[l][arm] = "open"
    <3>1. Alive(arm) /\ RunsFor(arm)
      BY <2>1 DEF LiveInv, PrivateFit, RunsFor
    <3> QED
      BY <3>1, LiveStays
  <2>2. CASE AdmitPrivate(l, arm)
    BY <2>2, Zenon DEF AdmitPrivate, Alive, Registered
  <2> QED
    BY <1>2, <2>1, <2>2, PrivateEpisodesStay
<1>3. ASSUME NEW l \in Leases, leases'[l].state # "absent"
      PROVE  decisions'[leases'[l].candidate].development # "none"
  <2>1. CASE leases[l].state # "absent"
    <3>1. /\ leases'[l].candidate = leases[l].candidate
          /\ leases[l].candidate \in Candidates
          /\ decisions[leases[l].candidate].development # "none"
      BY <2>1, LeasesStay
      DEF ChampionInv, LeasesAreForChallengers, LeaseFits, LiveInv, PrivateFit
    <3> QED
      BY <3>1, DevelopmentDecided
  <2>2. CASE \E c \in Candidates : IssueLease(l, c, leases'[l].split)
                                   /\ leases'[l].candidate = c
    <3>1. PICK c \in Candidates : IssueLease(l, c, leases'[l].split)
                                  /\ leases'[l].candidate = c
      BY <2>2
    <3>2. (status[c] = "nominated" \/ promotions[c].state = "active") /\ decisions' = decisions
      BY <3>1, Zenon DEF IssueLease, HasActivePromotion
    <3>3. decisions[c].development # "none"
      BY <3>2 DEF ChampionInv, PromotedAreDecided
    <3> QED
      BY <3>1, <3>2, <3>3
  <2> QED
    BY <1>3, <2>1, <2>2, LeasesStay
<1> QED
  BY <1>1, <1>2, <1>3, Zenon DEF LiveInv, PublicFit, PrivateFit

\* No episode is open for a candidate that was rejected, retired or rolled
\* back, although others' decisions and promotions retire it.
THEOREM OpenWorkIsAlwaysForTheLiving == PromotionSpec => []OpenWorkIsForLiveCandidates
<1>1. PromotionTypeOK /\ ChampionInv /\ FamilyInv /\ AloneInv /\ LiveInv
        /\ [PromotionNext]_promotionVars => LiveInv'
  BY LiveStep
<1>2. PromotionTypeOK /\ ChampionInv /\ AloneInv /\ [PromotionNext]_promotionVars => AloneInv'
  BY AloneInvStep
<1> QED
  BY <1>1, <1>2, LiveInit, LiveSuffices, AloneInvInit, FamilyInvariant, ChampionInvariant,
     PromotionTypeCorrect, PTL DEF PromotionSpec

-----------------------------------------------------------------------------
(* The line of champions (ChampionLine).  Beside what is proved above, a   *)
(* candidate whose confirmation is decided has a closed lease to show.     *)

TrialFit(c) ==
  decisions[c].confirmation # "none" => \E l \in TrialsOf(c) : leases[l].state = "closed"
TrialInv == \A c \in Candidates : TrialFit(c)

LEMMA TrialInvInit == PromotionInit => TrialInv
BY SMT DEF PromotionInit, TrialInv, TrialFit

LEMMA TrialInvStep ==
  ASSUME PromotionTypeOK, TrialInv, [PromotionNext]_promotionVars
  PROVE  TrialInv'
<1> SUFFICES ASSUME NEW c \in Candidates, decisions'[c].confirmation # "none"
             PROVE  \E l \in TrialsOf(c)' : leases'[l].state = "closed"
  BY DEF TrialInv, TrialFit
<1>1. CASE decisions'[c].confirmation = decisions[c].confirmation
  <2>1. PICK l \in TrialsOf(c) : leases[l].state = "closed"
    BY <1>1 DEF TrialInv, TrialFit
  <2>2. l \in Leases /\ leases'[l] = leases[l]
    BY <2>1, LeasesStay DEF TrialsOf, Issued
  <2>3. l \in TrialsOf(c)'
    BY <2>1, <2>2 DEF TrialsOf, Issued
  <2> QED
    BY <2>1, <2>2, <2>3
<1>2. ASSUME NEW l \in Leases, NEW verdict, DecideConfirmation(l, verdict),
             leases[l].candidate = c
      PROVE  \E k \in TrialsOf(c)' : leases'[k].state = "closed"
  <2>1. leases[l].split = "confirmation" /\ leases' = [leases EXCEPT ![l].state = "closed"]
    BY <1>2 DEF DecideConfirmation
  <2>2. leases[l] \in Lease
    BY DEF PromotionTypeOK
  <2>3. /\ leases'[l].state = "closed" /\ leases'[l].split = "confirmation"
        /\ leases'[l].candidate = c
    BY <1>2, <2>1, <2>2, Zenon DEF PromotionTypeOK, Lease
  <2>4. l \in TrialsOf(c)'
    BY <2>3 DEF TrialsOf, Issued
  <2> QED
    BY <2>3, <2>4
<1> QED
  BY <1>1, <1>2, ConfirmationDecided

LEMMA TrialInvariant == PromotionSpec => []TrialInv
<1>1. PromotionTypeOK /\ TrialInv /\ [PromotionNext]_promotionVars => TrialInv'
  BY TrialInvStep
<1> QED
  BY <1>1, TrialInvInit, PromotionTypeCorrect, PTL DEF PromotionSpec

(* What of a candidate the line shows.                                     *)
SameStanding(c) == Stage(c)' = Stage(c) /\ Rival(c)' = Rival(c)
StageMoves(c, from, to) ==
  /\ Stage(c) = from /\ Stage(c)' = to
  /\ \A d \in Candidates \ {c} : SameStanding(d)

\* A step of the line concerns one candidate.
LEMMA NothingMoves ==
  ASSUME champion' = champion, \A d \in Candidates : SameStanding(d)
  PROVE  UNCHANGED Line!vars
<1>1. /\ [d \in Candidates |-> Stage(d)]' = [d \in Candidates |-> Stage(d)]
      /\ [d \in Candidates |-> Rival(d)]' = [d \in Candidates |-> Rival(d)]
  BY DEF SameStanding
<1> QED
  BY <1>1 DEF Line!vars

LEMMA OneMoves ==
  ASSUME NEW c \in Candidates, NEW from, NEW to, StageMoves(c, from, to)
  PROVE  /\ Line!Moves(c, from, to)
         /\ Rival(c)' = Rival(c) => [d \in Candidates |-> Rival(d)]' = [d \in Candidates |-> Rival(d)]
         /\ \A r : Rival(c)' = r => [d \in Candidates |-> Rival(d)]'
                                      = [[d \in Candidates |-> Rival(d)] EXCEPT ![c] = r]
<1> DEFINE stage == [d \in Candidates |-> Stage(d)]
           rival == [d \in Candidates |-> Rival(d)]
<1>1. stage[c] = from
  BY DEF StageMoves
<1>2. stage' = [stage EXCEPT ![c] = to]
  BY DEF StageMoves, SameStanding
<1>3. Rival(c)' = Rival(c) => rival' = rival
  BY DEF StageMoves, SameStanding
<1>4. ASSUME NEW r, Rival(c)' = r PROVE rival' = [rival EXCEPT ![c] = r]
  BY <1>4 DEF StageMoves, SameStanding
<1> QED
  BY <1>1, <1>2, <1>3, <1>4 DEF Line!Moves

\* A candidate stands where it stood when none of this changes.
LEMMA StandingKept ==
  ASSUME NEW c \in Candidates, promotions'[c].state = promotions[c].state,
         c # Baseline \/ (champion' # 0) = (champion # 0),
         decisions'[c].confirmation = decisions[c].confirmation,
         TrialsOf(c)' = TrialsOf(c),
         \A l \in TrialsOf(c) : Open(l)' <=> Open(l),
         TrialsOf(c) # {} => manifest'[c] = manifest[c]
  PROVE  SameStanding(c)
<1>1. Rival(c)' = Rival(c)
  BY DEF Rival
<1>2. (\E l \in TrialsOf(c)' : Open(l)') <=> (\E l \in TrialsOf(c) : Open(l))
  OBVIOUS
<1>3. Stage(c)' = Stage(c)
  BY <1>2 DEF Stage
<1> QED
  BY <1>1, <1>3 DEF SameStanding

\* The trials of a candidate are those of a registered one.
LEMMA TriedAreRegistered ==
  ASSUME PromotionTypeOK, ChampionInv, NEW c \in Candidates, TrialsOf(c) # {}
  PROVE  /\ status[c] # "absent" /\ c # Baseline /\ champion # 0
         /\ (\E l \in TrialsOf(c) : Open(l)) => promotions[c].state = "absent"
<1>1. \A l \in TrialsOf(c) : LeaseFits(l, c)
  BY DEF TrialsOf, Issued, ChampionInv, LeasesAreForChallengers
<1>2. \A l \in TrialsOf(c) : leases[l].split = "confirmation"
  BY DEF TrialsOf, Issued
<1>3. status[c] # "absent" /\ c # Baseline
  BY <1>1, <1>2 DEF LeaseFits
<1> QED
  BY <1>1, <1>2, <1>3 DEF LeaseFits, ChampionInv, BaselineFirst

LineInv == PromotionTypeOK /\ ChampionInv /\ OnceInv /\ FamilyInv /\ EvidenceInv /\ TrialInv

\* Registrations, public comparisons, the other jobs and admission do not
\* touch the line.
LEMMA ElsewhereOnTheLine ==
  ASSUME LineInv, [PromotionNext]_promotionVars,
         UNCHANGED <<champion, leases, promotions>>,
         \A c \in Candidates : decisions'[c].confirmation = decisions[c].confirmation
  PROVE  UNCHANGED Line!vars
<1>1. ASSUME NEW c \in Candidates PROVE SameStanding(c)
  <2>1. TrialsOf(c)' = TrialsOf(c) /\ \A l \in TrialsOf(c) : Open(l)' <=> Open(l)
    BY DEF TrialsOf, Issued, Open
  <2>2. TrialsOf(c) # {} => manifest'[c] = manifest[c]
    BY TriedAreRegistered, RegistrationStays DEF LineInv
  <2> QED
    BY <2>1, <2>2, StandingKept
<1> QED
  BY <1>1, NothingMoves

\* A lease that moves on stays the trial it is, or is none.
LEMMA MovedLease ==
  ASSUME LineInv, NEW l \in Leases,
         \/ LeaseExpires(l) \/ (\E arm \in Candidates : AdmitPrivate(l, arm))
         \/ (\E verdict \in {"pass", "fail"} : DecideConfirmation(l, verdict))
         \/ CompleteSealedEvaluation(l) \/ AbandonLease(l)
  PROVE  /\ \A c \in Candidates : TrialsOf(c)' = TrialsOf(c)
         /\ \A k \in Leases \ {l} : Open(k)' <=> Open(k)
         /\ Open(l) /\ UNCHANGED <<champion, manifest, promotions>>
<1>1. /\ Open(l) /\ \A k \in Leases : k # l => leases'[k] = leases[k]
      /\ leases'[l].split = leases[l].split /\ leases'[l].candidate = leases[l].candidate
  BY RowOfMovedLease DEF LineInv
<1>2. leases'[l].state # "absent"
  <2>1. \/ leases' = [leases EXCEPT ![l].expired = TRUE]
        \/ \E state \in {"active", "closed", "abandoned"} :
             leases' = [leases EXCEPT ![l].state = state]
    BY Zenon DEF LeaseExpires, AdmitPrivate, DecideConfirmation, CompleteSealedEvaluation,
       AbandonLease
  <2> QED
    BY <1>1, <2>1, SMT DEF LineInv, PromotionTypeOK, Lease, Open
<1>3. \A k \in Leases : /\ leases'[k].state # "absent" <=> leases[k].state # "absent"
                        /\ leases'[k].split = leases[k].split
                        /\ leases'[k].candidate = leases[k].candidate
  BY <1>1, <1>2 DEF Open
<1>4. \A c \in Candidates : TrialsOf(c)' = TrialsOf(c)
  BY <1>3, Zenon DEF TrialsOf, Issued
<1>5. UNCHANGED <<champion, manifest, promotions>>
  BY Zenon DEF LeaseExpires, AdmitPrivate, DecideConfirmation, CompleteSealedEvaluation,
     AbandonLease
<1> QED
  BY <1>1, <1>4, <1>5 DEF Open

LEMMA LeaseGoesOnOnTheLine ==
  ASSUME LineInv, NEW l \in Leases,
         \/ LeaseExpires(l) \/ (\E arm \in Candidates : AdmitPrivate(l, arm))
         \/ leases[l].split = "sealed" /\ (CompleteSealedEvaluation(l) \/ AbandonLease(l))
  PROVE  UNCHANGED Line!vars
<1>1. /\ \A c \in Candidates : TrialsOf(c)' = TrialsOf(c)
      /\ \A k \in Leases \ {l} : Open(k)' <=> Open(k)
      /\ Open(l) /\ UNCHANGED <<champion, manifest, promotions>>
  BY MovedLease
<1>2. UNCHANGED decisions
  BY Zenon DEF LeaseExpires, AdmitPrivate, CompleteSealedEvaluation, AbandonLease
<1>3. leases[l].split = "sealed" \/ Open(l)'
  BY <1>1, SMT DEF LeaseExpires, AdmitPrivate, Open, LineInv, PromotionTypeOK, Lease
<1>4. ASSUME NEW c \in Candidates PROVE SameStanding(c)
  <2>1. \A k \in TrialsOf(c) : k \in Leases /\ leases[k].split = "confirmation"
    BY DEF TrialsOf, Issued
  <2>2. \A k \in TrialsOf(c) : Open(k)' <=> Open(k)
    BY <1>1, <1>3, <2>1
  <2> QED
    BY <1>1, <1>2, <2>2, StandingKept
<1> QED
  BY <1>1, <1>4, NothingMoves

\* A verdict, or an abandoned lease, ends the trial of its candidate.
LEMMA TrialEndsOnTheLine ==
  ASSUME LineInv, LineInv', NEW l \in Leases, leases[l].split = "confirmation",
         (\E verdict \in {"pass", "fail"} : DecideConfirmation(l, verdict)) \/ AbandonLease(l)
  PROVE  \E c \in Candidates : Line!EndTrial(c)
<1>0. PICK c : c = leases[l].candidate
  OBVIOUS
<1>1. /\ \A d \in Candidates : TrialsOf(d)' = TrialsOf(d)
      /\ \A k \in Leases \ {l} : Open(k)' <=> Open(k)
      /\ Open(l) /\ UNCHANGED <<champion, manifest, promotions>>
  BY MovedLease
<1>2. c \in Candidates /\ c # Baseline /\ promotions[c].state = "absent"
  BY <1>0, <1>1 DEF LineInv, ChampionInv, LeasesAreForChallengers, LeaseFits, Open
<1>3. l \in TrialsOf(c) /\ \A k \in TrialsOf(c) : k = l
  BY <1>0, <1>1 DEF TrialsOf, Issued, Open, LineInv, OnceInv, OneConfirmation
<1>4. decisions[c].confirmation = "none"
  BY <1>1, <1>2, <1>3 DEF LineInv, TrialInv, TrialFit, Open
<1>5. /\ ~Open(l)'
      /\ \/ UNCHANGED decisions
         \/ \E verdict \in {"pass", "fail"} : decisions' = [decisions EXCEPT ![c].confirmation = verdict]
  <2>1. \E state \in {"closed", "abandoned"} : leases' = [leases EXCEPT ![l].state = state]
    BY Zenon DEF DecideConfirmation, AbandonLease
  <2>2. ~Open(l)'
    BY <2>1, SMT DEF LineInv, PromotionTypeOK, Lease, Open
  <2> QED
    BY <1>0, <2>2, Zenon DEF DecideConfirmation, AbandonLease
<1>6. /\ decisions'[c].confirmation \in {"none", "pass", "fail"}
      /\ \A d \in Candidates \ {c} : decisions'[d].confirmation = decisions[d].confirmation
  <2>1. \A d \in Candidates : decisions[d] \in [development: Verdicts, confirmation: Verdicts]
    BY DEF LineInv, PromotionTypeOK
  <2>2. \A d \in Candidates \ {c} : decisions'[d].confirmation = decisions[d].confirmation
    BY <1>5, Zenon DEF LineInv, PromotionTypeOK
  <2>3. decisions'[c].confirmation \in {"none", "pass", "fail"}
    BY <1>2 DEF LineInv, PromotionTypeOK, Verdicts
  <2> QED
    BY <2>2, <2>3
<1>7. \A d \in Candidates \ {c} : SameStanding(d)
  <2> TAKE d \in Candidates \ {c}
  <2>1. \A k \in TrialsOf(d) : k \in Leases /\ k # l
    BY <1>0 DEF TrialsOf, Issued
  <2> QED
    BY <1>1, <1>6, <2>1, StandingKept
<1>8. Stage(c) = "trial"
  BY <1>1, <1>2, <1>3, <1>4 DEF Stage
<1>9. Stage(c)' \in {"passed", "failed", "spent"}
  <2>1. ~ \E k \in TrialsOf(c)' : Open(k)'
    BY <1>1, <1>2, <1>3, <1>5
  <2>2. promotions'[c].state = "absent" /\ TrialsOf(c)' # {}
    BY <1>1, <1>2, <1>3
  <2> QED
    BY <1>2, <1>6, <2>1, <2>2 DEF Stage
<1>10. Rival(c)' = Rival(c)
  BY <1>1, <1>2 DEF Rival
<1>11. PICK end \in {"passed", "failed", "spent"} : Stage(c)' = end
  BY <1>9
<1>12. StageMoves(c, "trial", end)
  BY <1>7, <1>8, <1>11 DEF StageMoves
<1>13. Line!Moves(c, "trial", end)
       /\ [d \in Candidates |-> Rival(d)]' = [d \in Candidates |-> Rival(d)]
  BY <1>2, <1>10, <1>12, OneMoves
<1>14. Line!EndTrial(c)
  BY <1>1, <1>11, <1>13 DEF Line!Moves, Line!EndTrial
<1> QED
  BY <1>2, <1>14

LEMMA IssueOnTheLine ==
  ASSUME LineInv, NEW l \in Leases, NEW c \in Candidates,
         NEW split \in {"confirmation", "sealed"}, IssueLease(l, c, split)
  PROVE  UNCHANGED Line!vars \/ Line!Try(c)
<1>1. /\ leases[l].state = "absent" /\ NoOpenLease
      /\ leases' = [leases EXCEPT ![l] = [state |-> "issued", split |-> split,
                                          candidate |-> c, expired |-> FALSE]]
      /\ split = "confirmation" => status[c] = "nominated" /\ manifest[c].parent = champion
      /\ UNCHANGED <<champion, manifest, promotions, decisions>>
  BY Zenon DEF IssueLease
<1>2. /\ \A k \in Leases \ {l} : leases'[k] = leases[k]
      /\ leases'[l].state = "issued" /\ leases'[l].split = split /\ leases'[l].candidate = c
  BY <1>1, Zenon DEF LineInv, PromotionTypeOK
<1>3. ASSUME NEW d \in Candidates, d # c \/ split = "sealed" PROVE SameStanding(d)
  <2>1. TrialsOf(d)' = TrialsOf(d)
    BY <1>1, <1>2, <1>3 DEF TrialsOf, Issued
  <2>2. \A k \in TrialsOf(d) : Open(k)' <=> Open(k)
    BY <1>1, <1>2 DEF TrialsOf, Issued, Open
  <2> QED
    BY <1>1, <2>1, <2>2, StandingKept
<1>4. CASE split = "sealed"
  BY <1>1, <1>3, <1>4, NothingMoves
<1>5. CASE split = "confirmation"
  <2>1. c # Baseline /\ promotions[c].state = "absent" /\ champion # 0
    BY <1>1, <1>5 DEF LineInv, ChampionInv, StatesMatchPromotions, BaselineFirst
  <2>2. TrialsOf(c) = {}
    <3> SUFFICES ASSUME NEW k \in TrialsOf(c) PROVE FALSE
      OBVIOUS
    <3>1. k \in Leases /\ leases[k].state # "absent" /\ leases[k].split = "confirmation"
          /\ leases[k].candidate = c
      BY DEF TrialsOf, Issued
    <3>2. ~Open(k) /\ status[c] = "nominated"
      BY <1>1, <1>5, <3>1 DEF NoOpenLease
    <3> QED
      BY <3>1, <3>2 DEF LineInv, ChampionInv, LeasesAreForChallengers, LeaseFits
  <2>3. l \in TrialsOf(c)' /\ Open(l)'
    BY <1>2, <1>5 DEF TrialsOf, Issued, Open
  <2>4. decisions[c].confirmation = "none"
    BY <2>2 DEF LineInv, TrialInv, TrialFit
  <2>5. Stage(c) = "new"
    BY <2>1, <2>2, <2>4 DEF Stage
  <2>6. Stage(c)' = "trial"
    BY <1>1, <2>1, <2>3, <2>4 DEF Stage
  <2>7. Rival(c)' = champion
    BY <1>1, <1>5, <2>3 DEF Rival
  <2>8. StageMoves(c, "new", "trial")
    BY <1>3, <2>5, <2>6 DEF StageMoves
  <2>9. /\ Line!Moves(c, "new", "trial")
        /\ [d \in Candidates |-> Rival(d)]' = [[d \in Candidates |-> Rival(d)] EXCEPT ![c] = champion]
    BY <2>7, <2>8, OneMoves
  <2> QED
    BY <1>1, <2>1, <2>9 DEF Line!Try
<1> QED
  BY <1>4, <1>5

LEMMA BaselineOnTheLine ==
  ASSUME LineInv, RegisterBaseline
  PROVE  Line!Found(Baseline)
<1>1. /\ champion = 0 /\ champion' = Baseline /\ Baseline # 0 /\ Baseline \in Candidates
      /\ UNCHANGED <<manifest, decisions, leases, promotions>>
  BY BaselineIsACandidate DEF RegisterBaseline
<1>2. \A c \in Candidates : TrialsOf(c) = {} /\ TrialsOf(c)' = {}
  <2>1. \A c \in Candidates : TrialsOf(c) = {}
    BY <1>1, TriedAreRegistered DEF LineInv
  <2> QED
    BY <1>1, <2>1 DEF TrialsOf, Issued
<1>3. \A d \in Candidates \ {Baseline} : SameStanding(d)
  BY <1>1, <1>2, StandingKept
<1>4. promotions[Baseline].state = "absent" /\ decisions[Baseline].confirmation = "none"
  BY <1>1, <1>2 DEF LineInv, ChampionInv, BaselineFirst, TrialInv, TrialFit
<1>5. Stage(Baseline) = "new"
  BY <1>1, <1>2, <1>4 DEF Stage
<1>6. Stage(Baseline)' = "crowned"
  BY <1>1, <1>4 DEF Stage
<1>7. Rival(Baseline)' = Rival(Baseline)
  BY <1>1, <1>2 DEF Rival
<1>8. StageMoves(Baseline, "new", "crowned")
  BY <1>3, <1>5, <1>6 DEF StageMoves
<1>9. /\ Line!Moves(Baseline, "new", "crowned")
      /\ [d \in Candidates |-> Rival(d)]' = [d \in Candidates |-> Rival(d)]
  BY <1>1, <1>7, <1>8, OneMoves
<1> QED
  BY <1>1, <1>9 DEF Line!Found

\* A passed candidate was tried, and against its parent.
LEMMA PassedWasTried ==
  ASSUME EvidenceInv, NEW c \in Candidates, decisions[c].confirmation = "pass"
  PROVE  Rival(c) = manifest[c].parent
<1>1. PICK l \in Leases : ConfirmedBy(l, c)
  BY DEF EvidenceInv, EvidenceOf
<1>2. l \in TrialsOf(c)
  BY <1>1 DEF ConfirmedBy, TrialsOf, Issued
<1> QED
  BY <1>2 DEF Rival

LEMMA PromoteOnTheLine ==
  ASSUME LineInv, NEW c \in Candidates, Promote(c)
  PROVE  Line!Crown(c)
<1>1. /\ status[c] = "confirmed" /\ manifest[c].parent = champion
      /\ decisions[c].confirmation = "pass" /\ promotions[c].state = "absent"
      /\ champion' = c
      /\ promotions' = [promotions EXCEPT ![c] = [state |-> "active", previous |-> champion]]
      /\ UNCHANGED <<manifest, decisions, leases>>
  BY Zenon DEF Promote
<1>2. champion # 0 /\ c # 0 /\ c # Baseline
  BY <1>1, BaselineIsACandidate DEF LineInv, ChampionInv, BaselineFirst
<1>3. /\ \A d \in Candidates \ {c} : promotions'[d] = promotions[d]
      /\ promotions'[c].state = "active"
  BY <1>1, Zenon DEF LineInv, PromotionTypeOK
<1>4. \A d \in Candidates : TrialsOf(d)' = TrialsOf(d) /\ \A l \in TrialsOf(d) : Open(l)' <=> Open(l)
  BY <1>1 DEF TrialsOf, Issued, Open
<1>5. \A d \in Candidates \ {c} : SameStanding(d)
  BY <1>1, <1>2, <1>3, <1>4, StandingKept
<1>6. Stage(c) = "passed"
  BY <1>1, <1>2 DEF Stage
<1>7. Stage(c)' = "crowned"
  BY <1>3 DEF Stage
<1>8. Rival(c)' = Rival(c) /\ Rival(c) = champion
  BY <1>1, <1>4, PassedWasTried DEF Rival, LineInv
<1>9. StageMoves(c, "passed", "crowned")
  BY <1>5, <1>6, <1>7 DEF StageMoves
<1>10. /\ Line!Moves(c, "passed", "crowned")
       /\ [d \in Candidates |-> Rival(d)]' = [d \in Candidates |-> Rival(d)]
  BY <1>8, <1>9, OneMoves
<1> QED
  BY <1>1, <1>2, <1>8, <1>10 DEF Line!Crown

LEMMA RollbackOnTheLine ==
  ASSUME LineInv, RollbackChampion
  PROVE  \E c \in Candidates : Line!Depose(c)
<1>1. PICK c, previous : c = champion /\ previous = promotions[champion].previous
  OBVIOUS
<1>2. /\ c # 0 /\ promotions[c].state = "active" /\ champion' = previous
      /\ promotions' = [promotions EXCEPT ![c] = Withdrawn(promotions[c])]
      /\ UNCHANGED <<manifest, decisions, leases>>
  BY <1>1, Zenon DEF RollbackChampion, HasActivePromotion
<1>3. c \in Candidates
  BY <1>1, <1>2 DEF LineInv, PromotionTypeOK
<1>4. c # Baseline /\ previous \in Candidates /\ previous # 0
  BY <1>1, <1>2, <1>3, BaselineIsACandidate DEF LineInv, ChampionInv, BaselineFirst, ActiveChain
<1>5. /\ \A d \in Candidates \ {c} : promotions'[d] = promotions[d]
      /\ promotions'[c].state = "rolled_back"
  <2>1. PICK row : row = Withdrawn(promotions[c])
    OBVIOUS
  <2>2. row.state = "rolled_back"
    BY <1>3, <2>1 DEF Withdrawn, LineInv, PromotionTypeOK, Promotion
  <2> QED
    BY <1>2, <1>3, <2>1, <2>2 DEF LineInv, PromotionTypeOK
<1>6. \A d \in Candidates : TrialsOf(d)' = TrialsOf(d) /\ \A l \in TrialsOf(d) : Open(l)' <=> Open(l)
  BY <1>2 DEF TrialsOf, Issued, Open
<1>7. \A d \in Candidates \ {c} : SameStanding(d)
  BY <1>1, <1>2, <1>4, <1>5, <1>6, StandingKept
<1>8. Stage(c) = "crowned"
  BY <1>2 DEF Stage
<1>9. Stage(c)' = "deposed"
  BY <1>5 DEF Stage
<1>10. Rival(c)' = Rival(c) /\ Rival(c) = previous
  <2>1. manifest[c].parent = previous /\ decisions[c].confirmation = "pass"
    BY <1>1, <1>2, <1>3 DEF LineInv, EvidenceInv, EvidenceOf
  <2> QED
    BY <1>2, <1>3, <1>6, <2>1, PassedWasTried DEF Rival, LineInv
<1>11. StageMoves(c, "crowned", "deposed")
  BY <1>7, <1>8, <1>9 DEF StageMoves
<1>12. /\ Line!Moves(c, "crowned", "deposed")
       /\ [d \in Candidates |-> Rival(d)]' = [d \in Candidates |-> Rival(d)]
  BY <1>3, <1>10, <1>11, OneMoves
<1>13. Line!Depose(c)
  BY <1>1, <1>2, <1>3, <1>4, <1>10, <1>12 DEF Line!Depose
<1> QED
  BY <1>3, <1>13

LEMMA LineStep ==
  ASSUME LineInv, LineInv', [PromotionNext]_promotionVars
  PROVE  [Line!Next]_(Line!vars)
<1>1. ASSUME UNCHANGED <<champion, leases, promotions>>,
             \A c \in Candidates : decisions'[c].confirmation = decisions[c].confirmation
      PROVE  [Line!Next]_(Line!vars)
  BY <1>1, ElsewhereOnTheLine
<1>2. ASSUME NEW c \in Candidates, NEW verdict \in {"pass", "fail"},
             DecideDevelopment(c, verdict) \/ DecideFactorial(c, verdict)
      PROVE  [Line!Next]_(Line!vars)
  <2>1. /\ decisions' = [decisions EXCEPT ![c].development = verdict]
        /\ UNCHANGED <<champion, leases, promotions>>
    BY <1>2, Zenon DEF DecideDevelopment, DecideFactorial, DecideOnDevelopment
  <2>2. \A d \in Candidates : decisions[d] \in [development: Verdicts, confirmation: Verdicts]
    BY DEF LineInv, PromotionTypeOK
  <2>3. \A d \in Candidates : decisions'[d].confirmation = decisions[d].confirmation
    BY <2>1, <2>2, SMT DEF LineInv, PromotionTypeOK
  <2> QED
    BY <1>1, <2>1, <2>3
<1>3. CASE \/ UNCHANGED promotionVars
           \/ \E c \in Challengers : RegisterIsolated(c)
           \/ \E c, driver, model \in Challengers : RegisterJoint(c, driver, model)
           \/ \E c, arm \in Candidates : AdmitPublic(c, arm)
           \/ \E c, arm \in Candidates, left \in Outcomes : EndPublic(c, arm, left)
           \/ \E l \in Leases, arm \in Candidates, left \in Outcomes : EndPrivate(l, arm, left)
           \/ AdmitWork \/ (\E owner, policy \in Candidates : AdmitServing(owner, policy))
           \/ ServingLive \/ (\E phase \in {"none", "billing"} : WorkEnds(phase))
           \/ AdmissionChanges
  <2>1. UNCHANGED <<champion, leases, promotions, decisions>>
    BY <1>3, Zenon DEF promotionVars, RegisterIsolated, RegisterJoint, Register, AdmitPublic,
       EndPublic, EndPrivate, AdmitWork, AdmitServing, ServingLive, WorkEnds, AdmissionChanges
  <2> QED
    BY <1>1, <2>1
<1>4. ASSUME NEW l \in Leases,
             \/ LeaseExpires(l) \/ (\E arm \in Candidates : AdmitPrivate(l, arm))
             \/ (\E verdict \in {"pass", "fail"} : DecideConfirmation(l, verdict))
             \/ CompleteSealedEvaluation(l) \/ AbandonLease(l)
      PROVE  [Line!Next]_(Line!vars)
  <2>1. leases[l].split \in {"confirmation", "sealed"}
    BY DEF LineInv, PromotionTypeOK, Lease
  <2>2. CASE \/ LeaseExpires(l) \/ (\E arm \in Candidates : AdmitPrivate(l, arm))
             \/ leases[l].split = "sealed" /\ (CompleteSealedEvaluation(l) \/ AbandonLease(l))
    BY <2>2, LeaseGoesOnOnTheLine
  <2>3. CASE /\ leases[l].split = "confirmation"
             /\ (\E verdict \in {"pass", "fail"} : DecideConfirmation(l, verdict)) \/ AbandonLease(l)
    BY <2>3, TrialEndsOnTheLine DEF Line!Next
  <2>4. /\ CompleteSealedEvaluation(l) => leases[l].split = "sealed"
        /\ (\E verdict \in {"pass", "fail"} : DecideConfirmation(l, verdict)) =>
             leases[l].split = "confirmation"
    BY Zenon DEF CompleteSealedEvaluation, DecideConfirmation
  <2> QED
    BY <1>4, <2>1, <2>2, <2>3, <2>4
<1>5. CASE \E l \in Leases, c \in Candidates, split \in {"confirmation", "sealed"} :
             IssueLease(l, c, split)
  BY <1>5, IssueOnTheLine DEF Line!Next
<1>6. CASE RegisterBaseline
  BY <1>6, BaselineOnTheLine, BaselineIsACandidate DEF Line!Next
<1>7. CASE \E c \in Candidates : Promote(c)
  BY <1>7, PromoteOnTheLine DEF Line!Next
<1>8. CASE RollbackChampion
  BY <1>8, RollbackOnTheLine DEF Line!Next
<1> QED
  BY <1>2, <1>3, <1>4, <1>5, <1>6, <1>7, <1>8 DEF PromotionNext

LEMMA LineInvariant == PromotionSpec => []LineInv
<1>1. PromotionTypeOK /\ ChampionInv /\ OnceInv /\ [PromotionNext]_promotionVars => OnceInv'
  BY OnceInvStep
<1> QED
  BY <1>1, OnceInvInit, TrialInvariant, EvidenceInvariant, FamilyInvariant, ChampionInvariant,
     PromotionTypeCorrect, PTL DEF PromotionSpec, LineInv

\* Whatever decisions, leases, rollbacks and registrations interleave, who is
\* champion follows one line: a trial per candidate, a crown over the champion
\* it was tried against, and the way back when it is deposed.
THEOREM ControllerKeepsTheLine == PromotionSpec => KeepsChampionLine
<1>1. PromotionInit => Line!Init
  <2> SUFFICES ASSUME PromotionInit PROVE Line!Init
    OBVIOUS
  <2>1. champion = 0 /\ \A l \in Leases : leases[l].state = "absent"
    BY DEF PromotionInit, NoLease
  <2>2. \A c \in Candidates : promotions[c].state = "absent" /\ decisions[c].confirmation = "none"
    BY DEF PromotionInit
  <2>3. \A c \in Candidates : TrialsOf(c) = {}
    BY <2>1 DEF TrialsOf, Issued
  <2>4. \A c \in Candidates : Stage(c) = "new" /\ Rival(c) = 0
    BY <2>1, <2>2, <2>3 DEF Stage, Rival
  <2> QED
    BY <2>1, <2>4 DEF Line!Init
<1>2. LineInv /\ LineInv' /\ [PromotionNext]_promotionVars => [Line!Next]_(Line!vars)
  BY LineStep
<1> QED
  BY <1>1, <1>2, LineInvariant, PTL DEF PromotionSpec, KeepsChampionLine, Line!Spec

-----------------------------------------------------------------------------
(* The finding of run PromotionComparison, for every campaign.  Admission  *)
(* accepts a development episode only of the baseline, of the candidate    *)
(* itself or of a joint comparison, so whatever is decided was compared    *)
(* with the baseline.                                                      *)

ComparedFit ==
  \A c, arm \in Candidates : public[c][arm] # "absent" =>
    status[c] # "absent" /\ (arm \in {Baseline, c} \/ manifest[c].class = "joint")
ClassesFit ==
  \A c \in Candidates : status[c] # "absent" =>
    /\ manifest[c].class = "baseline" => c = Baseline
    /\ manifest[c].class = "joint" => manifest[c].parent = Baseline
DecidedAgainstBaseline ==
  \A c \in Candidates : decisions[c].development # "none" => manifest[c].parent = Baseline
GenerationInv == ComparedFit /\ ClassesFit /\ DecidedAgainstBaseline

\* Nobody is ever promoted over a promoted champion.
OneGeneration ==
  /\ DecidedAgainstBaseline
  /\ \A c \in Candidates : promotions[c].state # "absent" => promotions[c].previous = Baseline
  /\ \A c, d \in Candidates : HasActivePromotion(c) /\ HasActivePromotion(d) => c = d

LEMMA ComparedStep ==
  ASSUME PromotionTypeOK, ChampionInv, GenerationInv, [PromotionNext]_promotionVars
  PROVE  ComparedFit'
<1> SUFFICES ASSUME NEW c \in Candidates, NEW arm \in Candidates, public'[c][arm] # "absent"
             PROVE  /\ status'[c] # "absent"
                    /\ arm \in {Baseline, c} \/ manifest'[c].class = "joint"
  BY DEF ComparedFit
<1>1. CASE public[c][arm] # "absent"
  <2>1. status[c] # "absent" /\ (arm \in {Baseline, c} \/ manifest[c].class = "joint")
    BY <1>1 DEF GenerationInv, ComparedFit
  <2> QED
    BY <2>1, RegistrationStays
<1>2. CASE public[c][arm] = "absent"
  <2>1. \/ AdmitPublic(c, arm)
        \/ public'[c][arm] = public[c][arm]
    <3>1. CASE UNCHANGED public
      BY <3>1
    <3>2. ASSUME NEW d \in Candidates, NEW a \in Candidates,
                 AdmitPublic(d, a) \/ (\E left \in Outcomes : EndPublic(d, a, left))
          PROVE  AdmitPublic(c, arm) \/ public'[c][arm] = public[c][arm]
      <4>1. PICK left : public' = [public EXCEPT ![d][a] = left]
        BY <3>2, Zenon DEF AdmitPublic, EndPublic
      <4>2. CASE d = c /\ a = arm
        BY <1>2, <3>2, <4>2, Zenon DEF EndPublic
      <4>3. CASE ~(d = c /\ a = arm)
        <5>1. PICK row : row = [public[d] EXCEPT ![a] = left]
          OBVIOUS
        <5>2. public' = [public EXCEPT ![d] = row] /\ \A x \in Candidates \ {a} : row[x] = public[d][x]
          BY <4>1, <5>1 DEF PromotionTypeOK
        <5> QED
          BY <4>3, <5>2 DEF PromotionTypeOK
      <4> QED
        BY <4>2, <4>3
    <3>3. \/ UNCHANGED public
          \/ \E d, a \in Candidates : AdmitPublic(d, a) \/ \E left \in Outcomes : EndPublic(d, a, left)
      BY Zenon DEF PromotionNext, promotionVars, RegisterBaseline, RegisterIsolated, RegisterJoint,
         Register, DecideDevelopment, DecideFactorial, DecideOnDevelopment, IssueLease,
         LeaseExpires, AdmitPrivate, EndPrivate, DecideConfirmation, CompleteSealedEvaluation,
         AbandonLease, Promote, RollbackChampion, AdmitWork, AdmitServing, ServingLive, WorkEnds,
         AdmissionChanges
    <3> QED
      BY <3>1, <3>2, <3>3
  <2>2. CASE AdmitPublic(c, arm)
    <3>1. /\ status[c] # "absent" /\ status[arm] # "absent" /\ ComparisonAccepted(arm, c)
          /\ UNCHANGED <<status, manifest>>
      BY <2>2, Zenon DEF AdmitPublic, Registered, Alive
    <3> QED
      BY <3>1 DEF ComparisonAccepted, GenerationInv, ClassesFit
  <2> QED
    BY <1>2, <2>1, <2>2
<1> QED
  BY <1>1, <1>2

LEMMA ClassesStep ==
  ASSUME PromotionTypeOK, ChampionInv, FamilyInv, GenerationInv, [PromotionNext]_promotionVars
  PROVE  ClassesFit'
<1> SUFFICES ASSUME NEW c \in Candidates, status'[c] # "absent"
             PROVE  /\ manifest'[c].class = "baseline" => c = Baseline
                    /\ manifest'[c].class = "joint" => manifest'[c].parent = Baseline
  BY DEF ClassesFit
<1>1. CASE status[c] # "absent"
  BY <1>1, RegistrationStays DEF GenerationInv, ClassesFit
<1>2. CASE RegisterBaseline /\ c = Baseline
  BY <1>2, Zenon DEF RegisterBaseline, ChampionInv, BaselineFirst
<1>3. ASSUME c \in Challengers, NEW d, NEW m, Register(c, d, m)
      PROVE  manifest'[c].class = ClassOf[c] /\ manifest'[c].parent = champion
  <2>1. PICK row : row = [class |-> ClassOf[c], parent |-> champion, driver |-> d, model |-> m]
    OBVIOUS
  <2>2. manifest' = [manifest EXCEPT ![c] = row]
    BY <1>3, <2>1 DEF Register
  <2> QED
    BY <2>1, <2>2 DEF PromotionTypeOK
<1>4. c \in Challengers => ClassOf[c] \in {"driver", "model", "joint"}
  BY PromotionAssumption
<1>5. CASE c \in Challengers /\ RegisterIsolated(c)
  BY <1>3, <1>4, <1>5 DEF RegisterIsolated
<1>6. ASSUME c \in Challengers, NEW d \in Challengers, NEW m \in Challengers, RegisterJoint(c, d, m)
      PROVE  manifest'[c].class = "joint" /\ manifest'[c].parent = Baseline
  <2>1. status[d] = "nominated" /\ manifest[d].parent = champion /\ d \in Candidates
    BY <1>6 DEF RegisterJoint, Qualified, Challengers
  <2>2. manifest[d].parent = Baseline
    BY <2>1 DEF ChampionInv, PromotedAreDecided, GenerationInv, DecidedAgainstBaseline
  <2> QED
    BY <1>3, <1>6, <2>1, <2>2 DEF RegisterJoint
<1> QED
  BY <1>1, <1>2, <1>5, <1>6, RegistrationsMade

LEMMA DecidedStep ==
  ASSUME PromotionTypeOK, ChampionInv, FamilyInv, EvidenceInv, GenerationInv,
         [PromotionNext]_promotionVars
  PROVE  DecidedAgainstBaseline'
<1> SUFFICES ASSUME NEW c \in Candidates, decisions'[c].development # "none"
             PROVE  manifest'[c].parent = Baseline
  BY DEF DecidedAgainstBaseline
<1>1. CASE decisions[c].development # "none"
  BY <1>1, RegistrationStays DEF EvidenceInv, EvidenceOf, GenerationInv, DecidedAgainstBaseline
<1>2. CASE decisions[c].development = "none"
  <2>1. /\ status[c] # "absent" /\ c # Baseline /\ UNCHANGED manifest
        /\ \A arm \in Arms(c) : public[c][arm] = "complete"
    BY <1>2, DevelopmentDecided
  <2>2. manifest[c].parent \in Arms(c) /\ manifest[c].parent < c /\ manifest[c].parent \in Candidates
    BY <2>1 DEF Arms, FamilyInv, FamilyFit
  <2>3. \/ manifest[c].parent \in {Baseline, c}
        \/ manifest[c].class = "joint"
    BY <2>1, <2>2 DEF GenerationInv, ComparedFit
  <2> QED
    BY <2>1, <2>2, <2>3 DEF GenerationInv, ClassesFit, Candidates
<1> QED
  BY <1>1, <1>2

\* However many candidates a campaign has, it promotes children of the baseline
\* only: whoever is decided on was compared with the baseline, and no two
\* promotions are ever active together.
THEOREM NoSecondGeneration == PromotionSpec => []OneGeneration
<1>1. PromotionInit => GenerationInv
  <2> SUFFICES ASSUME PromotionInit PROVE GenerationInv
    OBVIOUS
  <2>1. ComparedFit
    BY DEF PromotionInit, ComparedFit, NoEpisodes
  <2>2. ClassesFit /\ DecidedAgainstBaseline
    BY DEF PromotionInit, ClassesFit, DecidedAgainstBaseline
  <2> QED
    BY <2>1, <2>2 DEF GenerationInv
<1>2. PromotionTypeOK /\ ChampionInv /\ FamilyInv /\ EvidenceInv /\ GenerationInv
        /\ [PromotionNext]_promotionVars => GenerationInv'
  BY ComparedStep, ClassesStep, DecidedStep DEF GenerationInv
<1>3. ChampionInv /\ EvidenceInv /\ GenerationInv => OneGeneration
  <2> SUFFICES ASSUME ChampionInv, EvidenceInv, GenerationInv PROVE OneGeneration
    OBVIOUS
  <2>1. \A c \in Candidates : promotions[c].state # "absent" => promotions[c].previous = Baseline
    BY DEF EvidenceInv, EvidenceOf, GenerationInv, DecidedAgainstBaseline
  <2>2. \A c, d \in Candidates : HasActivePromotion(c) /\ HasActivePromotion(d) => c = d
    BY <2>1 DEF HasActivePromotion, ChampionInv, ActiveChain
  <2> QED
    BY <2>1, <2>2 DEF OneGeneration, GenerationInv
<1> QED
  BY <1>1, <1>2, <1>3, EvidenceInvariant, FamilyInvariant, ChampionInvariant,
     PromotionTypeCorrect, PTL DEF PromotionSpec
=============================================================================
