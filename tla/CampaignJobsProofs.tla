------------------------- MODULE CampaignJobsProofs -------------------------
(* Proofs about CampaignJobs: its types, that it drives the ledger only    *)
(* through the ledger's own operations, and its safety invariants.         *)
EXTENDS CampaignJobs, CampaignLedgerProofs, FiniteSetTheorems

LEMMA JobConstants ==
  /\ Jobs \subseteq Reservations /\ Jobs \subseteq Nat
  /\ CampaignKinds \subseteq Kinds
  /\ Timeouts \subseteq Nat \ {0} /\ CleanupGrace \in Nat
  /\ CampaignDeadline \in Nat /\ CampaignDeadline <= MaxTime
  /\ Providers \subseteq Nat \ {0} /\ Results \subseteq Nat \ {0}
  /\ 0 \in Costs /\ Costs \subseteq Nat
  /\ MaxTime \in Nat
BY JobsAssumption, CountsAssumption, AmountsAssumption DEF Jobs, Reservations

LEMMA ResourceTyped ==
  ASSUME NEW kind \in Kinds, Spends(kind)
  PROVE  ResourceOf(kind) \in Resources
BY DEF Kinds, DesktopKinds, Spends, ResourceOf, Resources

LEMMA ClosuresTyped ==
  /\ \A e \in Evidence : Presented(e) \in Closures /\ Refused(e) \in Closures
  /\ \A j \in Jobs : NeverDispatched(j) \in Closures
  /\ \A g \in Groups, j \in Jobs : Retained(g, j) \in Closures
BY DEF Closures

(* A field of one job row changes: the row keeps its type.                 *)
LEMMA JobUpdates ==
  ASSUME NEW job \in JobRow, NEW st \in JobStates
  PROVE  /\ [job EXCEPT !.state = st] \in JobRow
         /\ \A p \in Providers : [job EXCEPT !.state = st, !.provider = p] \in JobRow
         /\ \A r \in Results : [job EXCEPT !.result = r, !.state = st] \in JobRow
         /\ \A c \in Closures : [job EXCEPT !.state = st, !.closure = c] \in JobRow
         /\ \A p, c \in Closures \union {NoClosure} :
              /\ [job EXCEPT !.state = st, !.closure = c, !.providerCleanup = p] \in JobRow
              /\ [job EXCEPT !.state = st, !.providerCleanup = p, !.closure = c] \in JobRow
BY DEF JobRow

(* The controller touches the ledger only through the ledger's operations. *)
LEMMA StepImplementsLedger ==
  ASSUME TypeOK, JobsTypeOK, [JobsNext]_campaignVars
  PROVE  [Next]_ledgerVars
<1>1. ASSUME NEW j \in Jobs, NEW actual \in Costs, NEW c \in Closures, SettleHold(j, actual, c)
      PROVE  [Next]_ledgerVars
  <2>1. j \in Reservations /\ SettlementReceipt(c, j) \in Receipts
    BY JobConstants, SettlementsAssumption
  <2> QED
    BY <1>1, <2>1 DEF SettleHold, Next
<1>2. ASSUME NEW j \in Jobs, NEW kind \in CampaignKinds, NEW amount \in Amounts,
             NEW timeout \in Timeouts, AdmitJob(j, kind, amount, timeout)
      PROVE  [Next]_ledgerVars
  <2>1. CASE Spends(kind)
    <3>1. Reserve(j, ResourceOf(kind), amount, now + timeout, "normal")
      BY <1>2, <2>1 DEF AdmitJob
    <3>2. /\ j \in Reservations /\ ResourceOf(kind) \in Resources /\ "normal" \in Purposes
      BY <2>1, JobConstants, ResourceTyped DEF Purposes
    <3>3. now + timeout \in 1..MaxTime
      <4>1. now \in Nat /\ timeout \in Nat \ {0}
        BY JobConstants DEF TypeOK
      <4>2. now + timeout + CleanupGrace <= CampaignDeadline
        BY <1>2 DEF AdmitJob
      <4> QED
        BY <4>1, <4>2, JobConstants
    <3> QED
      BY <3>1, <3>2, <3>3 DEF Next
  <2>2. CASE ~Spends(kind)
    BY <1>2, <2>2 DEF AdmitJob
  <2> QED
    BY <2>1, <2>2
<1>3. ASSUME NEW j \in Jobs, JobStep(j)
      PROVE  [Next]_ledgerVars
  <2>1. ASSUME NEW e \in Evidence, ProviderSubmissionRefused(j, e)
        PROVE  [Next]_ledgerVars
    BY <1>1, <2>1, JobConstants, ClosuresTyped DEF ProviderSubmissionRefused
  <2>2. ASSUME NEW actual \in Costs, NEW e \in Evidence,
               SettleJob(j, actual, e) \/ CleanupConfirmed(j, e, actual)
        PROVE  [Next]_ledgerVars
    BY <1>1, <2>2, ClosuresTyped DEF SettleJob, CleanupConfirmed
  <2>3. ASSUME CancelUndispatched(j) PROVE [Next]_ledgerVars
    BY <1>1, <2>3, JobConstants, ClosuresTyped DEF CancelUndispatched
  <2>4. BeginDispatch(j) \/ RequestCleanup(j) => UNCHANGED ledgerVars
    BY DEF BeginDispatch, RequestCleanup
  <2>5. \A p \in Providers : ProviderStarted(j, p) => UNCHANGED ledgerVars
    BY DEF ProviderStarted
  <2>6. \A result \in Results : RecordResult(j, result) => UNCHANGED ledgerVars
    BY DEF RecordResult
  <2>7. \A e \in Evidence : ProviderCleanupConfirmed(j, e) => UNCHANGED ledgerVars
    BY DEF ProviderCleanupConfirmed
  <2> QED
    BY <1>2, <1>3, <2>1, <2>2, <2>3, <2>4, <2>5, <2>6, <2>7 DEF JobStep
<1>4. ASSUME Stop PROVE [Next]_ledgerVars
  <2>1. Freeze(IncidentReason)
    BY <1>4 DEF Stop, Freeze
  <2> QED
    BY <2>1, IncidentIsReason DEF Next
<1>5. ASSUME LedgerStep PROVE [Next]_ledgerVars
  BY <1>5 DEF LedgerStep, Next, OtherHolds, Resources
<1>6. ASSUME NEW g \in Groups, NEW retained \in SUBSET Jobs, RetainReconciledJobs(g, retained)
      PROVE  [Next]_ledgerVars
  BY <1>6 DEF RetainReconciledJobs
<1>7. UNCHANGED campaignVars => UNCHANGED ledgerVars
  BY DEF campaignVars
<1> QED
  BY <1>3, <1>4, <1>5, <1>6, <1>7 DEF JobsNext

LEMMA JobsTypeStep ==
  ASSUME TypeOK, JobsTypeOK, [JobsNext]_campaignVars
  PROVE  JobsTypeOK'
<1>1. \A k \in Jobs : jobs[k] \in JobRow
  BY DEF JobsTypeOK
<1>2. /\ {"reserved", "dispatching", "running", "cleanup_pending",
          "billing_pending", "cleaned"} \subseteq JobStates
      /\ AbsentJob \in JobRow
  BY DEF JobStates, ProviderStates, AbsentJob, JobRow, Kinds, DesktopKinds
<1>3. ASSUME NEW j \in Jobs, NEW row \in JobRow, jobs' = [jobs EXCEPT ![j] = row],
             UNCHANGED stopped
      PROVE  JobsTypeOK'
  BY <1>3 DEF JobsTypeOK
<1>4. ASSUME NEW j \in Jobs, JobStep(j)
      PROVE  JobsTypeOK'
  <2>1. ASSUME NEW kind \in CampaignKinds, NEW amount \in Amounts, NEW timeout \in Timeouts,
               AdmitJob(j, kind, amount, timeout)
        PROVE  JobsTypeOK'
    <3>1. now + timeout \in Nat /\ kind \in Kinds
      BY JobConstants DEF TypeOK
    <3>2. [AbsentJob EXCEPT !.state = "reserved", !.kind = kind, !.deadline = now + timeout]
             \in JobRow
      BY <1>2, <3>1 DEF JobRow
    <3> QED
      BY <1>3, <2>1, <3>2 DEF AdmitJob
  <2>2. ASSUME NEW st \in JobStates, jobs' = [jobs EXCEPT ![j].state = st], UNCHANGED stopped
        PROVE  JobsTypeOK'
    BY <1>1, <1>3, <2>2, JobUpdates
  <2>3. ASSUME NEW c \in Closures, Close(j, c) \/ CloseAtOnce(j, c), UNCHANGED stopped
        PROVE  JobsTypeOK'
    <3>1. \/ jobs' = [jobs EXCEPT ![j] = [jobs[j] EXCEPT !.state = "cleaned", !.closure = c]]
          \/ jobs' = [jobs EXCEPT ![j] = [jobs[j] EXCEPT !.state = "cleaned", !.closure = c,
                                                         !.providerCleanup = c]]
      BY <2>3 DEF Close, CloseAtOnce
    <3> QED
      BY <1>1, <1>2, <1>3, <2>3, <3>1, JobUpdates
  <2>4. CASE BeginDispatch(j) \/ RequestCleanup(j)
    BY <1>2, <2>2, <2>4 DEF BeginDispatch, RequestCleanup
  <2>5. ASSUME NEW p \in Providers, ProviderStarted(j, p)
        PROVE  JobsTypeOK'
    <3>1. jobs' = [jobs EXCEPT ![j] = [jobs[j] EXCEPT !.state = "running", !.provider = p]]
          /\ UNCHANGED stopped
      BY <2>5 DEF ProviderStarted
    <3> QED
      BY <1>1, <1>2, <1>3, <3>1, JobUpdates
  <2>6. ASSUME NEW result \in Results, RecordResult(j, result)
        PROVE  JobsTypeOK'
    <3>1. jobs' = [jobs EXCEPT ![j] = [jobs[j] EXCEPT !.result = result,
                                                      !.state = "cleanup_pending"]]
          /\ UNCHANGED stopped
      BY <2>6 DEF RecordResult
    <3> QED
      BY <1>1, <1>2, <1>3, <3>1, JobUpdates
  <2>7. ASSUME NEW e \in Evidence, ProviderCleanupConfirmed(j, e)
        PROVE  JobsTypeOK'
    <3> DEFINE st == AfterCleanup(jobs[j].kind)
               c == IF st = "cleaned" THEN Presented(e) ELSE NoClosure
    <3>1. st \in JobStates /\ c \in Closures \union {NoClosure}
      BY <1>2, ClosuresTyped DEF AfterCleanup
    <3>2. jobs' = [jobs EXCEPT ![j] = [jobs[j] EXCEPT !.state = st,
                     !.providerCleanup = Presented(e), !.closure = c]]
      BY <2>7 DEF ProviderCleanupConfirmed
    <3>3. UNCHANGED stopped
      BY <2>7 DEF ProviderCleanupConfirmed
    <3> HIDE DEF st, c
    <3> QED
      BY <1>1, <1>3, <3>1, <3>2, <3>3, JobUpdates, ClosuresTyped
  <2>8. ASSUME NEW e \in Evidence, ProviderSubmissionRefused(j, e)
        PROVE  JobsTypeOK'
    BY <2>3, <2>8, ClosuresTyped DEF ProviderSubmissionRefused
  <2>9. ASSUME NEW actual \in Costs, NEW e \in Evidence,
               SettleJob(j, actual, e) \/ CleanupConfirmed(j, e, actual)
        PROVE  JobsTypeOK'
    BY <2>3, <2>9, ClosuresTyped DEF SettleJob, CleanupConfirmed
  <2>10. CASE CancelUndispatched(j)
    BY <2>3, <2>10, ClosuresTyped DEF CancelUndispatched
  <2> QED
    BY <1>4, <2>1, <2>4, <2>5, <2>6, <2>7, <2>8, <2>9, <2>10 DEF JobStep
<1>5. ASSUME NEW g \in Groups, NEW retained \in SUBSET Jobs, RetainReconciledJobs(g, retained)
      PROVE  JobsTypeOK'
  <2>1. \A k \in Jobs : [jobs[k] EXCEPT !.state = "cleaned", !.closure = Retained(g, k)] \in JobRow
    BY <1>1, <1>2, JobUpdates, ClosuresTyped
  <2>2. /\ jobs' = [k \in Jobs |->
              IF k \in retained THEN [jobs[k] EXCEPT !.state = "cleaned", !.closure = Retained(g, k)]
              ELSE jobs[k]]
        /\ UNCHANGED stopped
    BY <1>5 DEF RetainReconciledJobs
  <2> QED
    BY <1>1, <2>1, <2>2, Zenon DEF JobsTypeOK
<1>6. ASSUME Stop PROVE JobsTypeOK'
  BY <1>6 DEF Stop, JobsTypeOK
<1>7. ASSUME UNCHANGED jobVars PROVE JobsTypeOK'
  BY <1>7 DEF jobVars, JobsTypeOK
<1> QED
  BY <1>4, <1>5, <1>6, <1>7 DEF JobsNext, campaignVars

LEMMA JobsInitTyped ==
  ASSUME JobsInit
  PROVE  JobsTypeOK
BY DEF JobsInit, JobsTypeOK, AbsentJob, JobRow, JobStates, Kinds, DesktopKinds

-----------------------------------------------------------------------------
(* What one step may do to the row of one job.                             *)

SameWork(k) == jobs'[k].kind = jobs[k].kind /\ jobs'[k].deadline = jobs[k].deadline
SameOutcome(k) == jobs'[k].provider = jobs[k].provider /\ jobs'[k].result = jobs[k].result
CleanupProven(job) == \E e \in Evidence : job.providerCleanup = Presented(e)

Admitted(k) ==
  /\ jobs[k].state = "absent" /\ jobs'[k].state = "reserved"
  /\ jobs'[k].provider = 0 /\ jobs'[k].result = 0
  /\ jobs'[k].kind \in Kinds
  /\ Cardinality(Occupants(Group(jobs'[k].kind))) < GroupLimit[Group(jobs'[k].kind)]
  /\ \A i \in Jobs \ {k} : jobs'[i] = jobs[i]
Claimed(k) ==
  /\ jobs[k].state = "reserved" /\ jobs'[k].state = "dispatching"
  /\ SameWork(k) /\ SameOutcome(k)
Accepted(k) ==
  /\ jobs[k].state = "dispatching" /\ jobs'[k].state = "running"
  /\ SameWork(k) /\ jobs'[k].provider \in Providers /\ jobs'[k].result = jobs[k].result
Finished(k) ==
  /\ jobs[k].state = "running" /\ jobs'[k].state = "cleanup_pending"
  /\ SameWork(k) /\ jobs'[k].provider = jobs[k].provider
  /\ jobs[k].result \in {0, jobs'[k].result}
AwaitsBill(k) ==
  /\ jobs[k].state \in {"running", "cleanup_pending"} /\ jobs'[k].state = "billing_pending"
  /\ SameWork(k) /\ SameOutcome(k) /\ CleanupProven(jobs'[k])
ClosedAfterWork(k) ==
  /\ jobs[k].state \in {"running", "cleanup_pending", "billing_pending"}
  /\ jobs'[k].state = "cleaned" /\ SameWork(k) /\ SameOutcome(k)
  /\ \/ CleanupProven(jobs'[k])
     \/ jobs[k].state = "billing_pending" /\ jobs'[k].providerCleanup = jobs[k].providerCleanup
  /\ jobs'[k].closure \notin {NeverDispatched(k)} \union {Refused(e) : e \in Evidence}
ClosedUnstarted(k) ==
  /\ jobs[k].state \in {"reserved", "dispatching"}
  /\ jobs'[k].state = "cleaned" /\ SameWork(k) /\ SameOutcome(k)
  /\ jobs'[k].closure \in {NeverDispatched(k)} \union {Refused(e) : e \in Evidence}
Advance(k) ==
  \/ jobs'[k] = jobs[k]
  \/ Admitted(k) \/ Claimed(k) \/ Accepted(k) \/ Finished(k)
  \/ AwaitsBill(k) \/ ClosedAfterWork(k) \/ ClosedUnstarted(k)

LEMMA ReceiptsDiffer ==
  ASSUME NEW j, NEW k, NEW g, NEW e
  PROVE  /\ Presented(e) \notin {NeverDispatched(k)} \union {Refused(f) : f \in Evidence}
         /\ Retained(g, j) \notin {NeverDispatched(k)} \union {Refused(f) : f \in Evidence}
BY DEF Presented, NeverDispatched, Refused, Retained

LEMMA OtherJobsKept ==
  ASSUME TypeOK, JobsTypeOK, NEW j \in Jobs, JobStep(j), NEW k \in Jobs, k # j
  PROVE  jobs'[k] = jobs[k] /\ reservations'[k] = reservations[k]
<1>1. \A row : jobs' = [jobs EXCEPT ![j] = row] => jobs'[k] = jobs[k]
  BY DEF JobsTypeOK
<1>2. \A row : reservations' = [reservations EXCEPT ![j] = row] => reservations'[k] = reservations[k]
  BY JobConstants DEF TypeOK
<1>3. UNCHANGED ledgerVars => reservations'[k] = reservations[k]
  BY DEF ledgerVars
<1>4. ASSUME NEW actual, NEW c, SettleHold(j, actual, c) PROVE reservations'[k] = reservations[k]
  BY <1>2, <1>3, <1>4 DEF SettleHold, Settle
<1>5. \A c : Close(j, c) \/ CloseAtOnce(j, c) => jobs'[k] = jobs[k]
  BY <1>1 DEF Close, CloseAtOnce
<1>6. ASSUME NEW kind \in CampaignKinds, NEW amount \in Amounts, NEW timeout \in Timeouts,
             AdmitJob(j, kind, amount, timeout)
      PROVE  jobs'[k] = jobs[k] /\ reservations'[k] = reservations[k]
  BY <1>1, <1>2, <1>3, <1>6 DEF AdmitJob, Reserve
<1>7. ASSUME BeginDispatch(j) \/ RequestCleanup(j)
      PROVE  jobs'[k] = jobs[k] /\ reservations'[k] = reservations[k]
  BY <1>1, <1>3, <1>7 DEF BeginDispatch, RequestCleanup
<1>8. ASSUME NEW p \in Providers, ProviderStarted(j, p)
      PROVE  jobs'[k] = jobs[k] /\ reservations'[k] = reservations[k]
  BY <1>1, <1>3, <1>8 DEF ProviderStarted
<1>9. ASSUME NEW result \in Results, RecordResult(j, result)
      PROVE  jobs'[k] = jobs[k] /\ reservations'[k] = reservations[k]
  BY <1>1, <1>3, <1>9 DEF RecordResult
<1>10. ASSUME NEW e \in Evidence, ProviderCleanupConfirmed(j, e)
       PROVE  jobs'[k] = jobs[k] /\ reservations'[k] = reservations[k]
  BY <1>1, <1>3, <1>10 DEF ProviderCleanupConfirmed
<1>11. ASSUME NEW e \in Evidence, ProviderSubmissionRefused(j, e)
       PROVE  jobs'[k] = jobs[k] /\ reservations'[k] = reservations[k]
  BY <1>4, <1>5, <1>11 DEF ProviderSubmissionRefused
<1>12. ASSUME NEW e \in Evidence, NEW actual \in Costs,
              SettleJob(j, actual, e) \/ CleanupConfirmed(j, e, actual)
       PROVE  jobs'[k] = jobs[k] /\ reservations'[k] = reservations[k]
  BY <1>4, <1>5, <1>12 DEF SettleJob, CleanupConfirmed
<1>13. ASSUME CancelUndispatched(j)
       PROVE  jobs'[k] = jobs[k] /\ reservations'[k] = reservations[k]
  BY <1>4, <1>5, <1>13 DEF CancelUndispatched
<1> QED
  BY <1>6, <1>7, <1>8, <1>9, <1>10, <1>11, <1>12, <1>13 DEF JobStep

LEMMA JobAdvances ==
  ASSUME TypeOK, JobsTypeOK, [JobsNext]_campaignVars, NEW k \in Jobs
  PROVE  Advance(k)
<1>1. jobs[k] \in JobRow
  BY DEF JobsTypeOK
<1>2. ASSUME JobStep(k) PROVE Advance(k)
  <2>1. \A row : jobs' = [jobs EXCEPT ![k] = row] => jobs'[k] = row
    BY DEF JobsTypeOK
  <2>2. ASSUME NEW kind \in CampaignKinds, NEW amount \in Amounts, NEW timeout \in Timeouts,
               AdmitJob(k, kind, amount, timeout)
        PROVE  Advance(k)
    <3>1. jobs'[k] = [AbsentJob EXCEPT !.state = "reserved", !.kind = kind,
                                       !.deadline = now + timeout]
      BY <2>1, <2>2 DEF AdmitJob
    <3>2. /\ jobs[k].state = "absent" /\ kind \in Kinds
          /\ Cardinality(Occupants(Group(kind))) < GroupLimit[Group(kind)]
      BY <2>2, JobConstants DEF AdmitJob
    <3>3. \A i \in Jobs \ {k} : jobs'[i] = jobs[i]
      BY <1>2, OtherJobsKept
    <3>4. /\ jobs'[k].state = "reserved" /\ jobs'[k].kind = kind
          /\ jobs'[k].provider = 0 /\ jobs'[k].result = 0
      BY <3>1 DEF AbsentJob
    <3> QED
      BY <3>2, <3>3, <3>4 DEF Advance, Admitted
  <2>3. CASE BeginDispatch(k)
    <3>1. jobs'[k] = [jobs[k] EXCEPT !.state = "dispatching"] /\ jobs[k].state = "reserved"
      BY <2>1, <2>3 DEF BeginDispatch, Dispatchable
    <3> QED
      BY <1>1, <3>1 DEF JobRow, Advance, Claimed, SameWork, SameOutcome
  <2>4. ASSUME NEW p \in Providers, ProviderStarted(k, p) PROVE Advance(k)
    <3>1. jobs' = [jobs EXCEPT ![k] = [jobs[k] EXCEPT !.state = "running", !.provider = p]]
      BY <2>4 DEF ProviderStarted
    <3>2. jobs[k].state = "dispatching"
      BY <2>4 DEF ProviderStarted, AwaitsProvider
    <3>3. jobs'[k] = [jobs[k] EXCEPT !.state = "running", !.provider = p]
      BY <2>1, <3>1
    <3> QED
      BY <1>1, <3>2, <3>3 DEF JobRow, Advance, Accepted, SameWork
  <2>5. ASSUME NEW result \in Results, RecordResult(k, result) PROVE Advance(k)
    <3>1. jobs' = [jobs EXCEPT ![k] = [jobs[k] EXCEPT !.result = result,
                                                      !.state = "cleanup_pending"]]
      BY <2>5 DEF RecordResult
    <3>2. jobs[k].state = "running" /\ jobs[k].result = 0
      BY <2>5 DEF RecordResult
    <3>3. jobs'[k] = [jobs[k] EXCEPT !.result = result, !.state = "cleanup_pending"]
      BY <2>1, <3>1
    <3> QED
      BY <1>1, <3>2, <3>3 DEF JobRow, Advance, Finished, SameWork
  <2>6. CASE RequestCleanup(k)
    <3>1. jobs'[k] = [jobs[k] EXCEPT !.state = "cleanup_pending"] /\ jobs[k].state = "running"
      BY <2>1, <2>6 DEF RequestCleanup
    <3> QED
      BY <1>1, <3>1 DEF JobRow, Advance, Finished, SameWork
  <2>7. ASSUME NEW e \in Evidence, ProviderCleanupConfirmed(k, e) PROVE Advance(k)
    <3> DEFINE st == AfterCleanup(jobs[k].kind)
               c == IF st = "cleaned" THEN Presented(e) ELSE NoClosure
    <3>1. jobs' = [jobs EXCEPT ![k] = [jobs[k] EXCEPT !.state = st,
                     !.providerCleanup = Presented(e), !.closure = c]]
      BY <2>7 DEF ProviderCleanupConfirmed
    <3>3. jobs[k].state \in {"running", "cleanup_pending"}
      BY <2>7 DEF ProviderCleanupConfirmed
    <3>2. st \in {"billing_pending", "cleaned"} /\ (st = "cleaned" => c = Presented(e))
      BY DEF AfterCleanup
    <3> HIDE DEF st, c
    <3>4. jobs'[k] = [jobs[k] EXCEPT !.state = st, !.providerCleanup = Presented(e),
                                     !.closure = c]
      BY <2>1, <3>1
    <3> QED
      BY <1>1, <3>2, <3>3, <3>4, ReceiptsDiffer
      DEF JobRow, Advance, AwaitsBill, ClosedAfterWork, CleanupProven, SameWork, SameOutcome
  <2>8. ASSUME NEW e \in Evidence, ProviderSubmissionRefused(k, e) PROVE Advance(k)
    <3>1. jobs' = [jobs EXCEPT ![k] = [jobs[k] EXCEPT !.state = "cleaned",
                     !.closure = Refused(e), !.providerCleanup = Refused(e)]]
      BY <2>8 DEF ProviderSubmissionRefused, CloseAtOnce
    <3>2. jobs[k].state = "dispatching"
      BY <2>8 DEF ProviderSubmissionRefused, Unacknowledged
    <3>3. jobs'[k] = [jobs[k] EXCEPT !.state = "cleaned", !.closure = Refused(e),
                                     !.providerCleanup = Refused(e)]
      BY <2>1, <3>1
    <3> QED
      BY <1>1, <3>2, <3>3 DEF JobRow, Advance, ClosedUnstarted, SameWork, SameOutcome
  <2>9. ASSUME NEW actual \in Costs, NEW e \in Evidence, SettleJob(k, actual, e)
        PROVE  Advance(k)
    <3>1. jobs' = [jobs EXCEPT ![k] = [jobs[k] EXCEPT !.state = "cleaned",
                                                      !.closure = Presented(e)]]
      BY <2>9 DEF SettleJob, Close
    <3>2. jobs[k].state = "billing_pending"
      BY <2>9 DEF SettleJob
    <3>3. jobs'[k] = [jobs[k] EXCEPT !.state = "cleaned", !.closure = Presented(e)]
      BY <2>1, <3>1
    <3> QED
      BY <1>1, <3>2, <3>3, ReceiptsDiffer
      DEF JobRow, Advance, ClosedAfterWork, SameWork, SameOutcome
  <2>10. ASSUME NEW actual \in Costs, NEW e \in Evidence, CleanupConfirmed(k, e, actual)
         PROVE  Advance(k)
    <3>1. jobs' = [jobs EXCEPT ![k] = [jobs[k] EXCEPT !.state = "cleaned",
                     !.closure = Presented(e), !.providerCleanup = Presented(e)]]
      BY <2>10 DEF CleanupConfirmed, CloseAtOnce
    <3>2. jobs[k].state \in {"running", "cleanup_pending", "billing_pending"}
      BY <2>10 DEF CleanupConfirmed
    <3>3. jobs'[k] = [jobs[k] EXCEPT !.state = "cleaned", !.closure = Presented(e),
                                     !.providerCleanup = Presented(e)]
      BY <2>1, <3>1
    <3> QED
      BY <1>1, <3>2, <3>3, ReceiptsDiffer
      DEF JobRow, Advance, ClosedAfterWork, CleanupProven, SameWork, SameOutcome
  <2>11. CASE CancelUndispatched(k)
    <3>1. jobs' = [jobs EXCEPT ![k] = [jobs[k] EXCEPT !.state = "cleaned",
                     !.closure = NeverDispatched(k), !.providerCleanup = NeverDispatched(k)]]
      BY <2>11 DEF CancelUndispatched, CloseAtOnce
    <3>2. jobs[k].state = "reserved"
      BY <2>11 DEF CancelUndispatched, Cancellable
    <3>3. jobs'[k] = [jobs[k] EXCEPT !.state = "cleaned", !.closure = NeverDispatched(k),
                                     !.providerCleanup = NeverDispatched(k)]
      BY <2>1, <3>1
    <3> QED
      BY <1>1, <3>2, <3>3 DEF JobRow, Advance, ClosedUnstarted, SameWork, SameOutcome
  <2> QED
    BY <1>2, <2>2, <2>3, <2>4, <2>5, <2>6, <2>7, <2>8, <2>9, <2>10, <2>11 DEF JobStep
<1>3. ASSUME NEW g \in Groups, NEW retained \in SUBSET Jobs, RetainReconciledJobs(g, retained)
      PROVE  Advance(k)
  <2>1. CASE k \notin retained
    <3>1. jobs'[k] = jobs[k]
      BY <1>3, <2>1 DEF RetainReconciledJobs
    <3> QED
      BY <3>1 DEF Advance
  <2>2. CASE k \in retained
    <3>1. jobs'[k] = [jobs[k] EXCEPT !.state = "cleaned", !.closure = Retained(g, k)]
      BY <1>3, <2>2 DEF RetainReconciledJobs
    <3>2. \/ jobs[k].state = "cleaned" /\ jobs[k].closure = Retained(g, k)
          \/ jobs[k].state = "billing_pending"
      BY <1>3, <2>2 DEF RetainReconciledJobs
    <3>3. ASSUME jobs[k].state = "cleaned", jobs[k].closure = Retained(g, k)
          PROVE  jobs'[k] = jobs[k]
      BY <1>1, <3>1, <3>3, ZenonT(60) DEF JobRow
    <3> QED
      BY <1>1, <3>1, <3>2, <3>3, ReceiptsDiffer
      DEF JobRow, Advance, ClosedAfterWork, SameWork, SameOutcome
  <2> QED
    BY <2>1, <2>2
<1>4. ASSUME UNCHANGED jobs PROVE Advance(k)
  BY <1>4 DEF Advance
<1>5. Stop \/ UNCHANGED jobVars \/ UNCHANGED campaignVars => UNCHANGED jobs
  BY DEF Stop, jobVars, campaignVars
<1> QED
  BY <1>2, <1>3, <1>4, <1>5, OtherJobsKept DEF JobsNext, Advance

-----------------------------------------------------------------------------
(* The record of the work: what each state of a job says of its provider,  *)
(* its result and the receipts it carries.                                 *)
WorkRecorded ==
  \A k \in Jobs :
    /\ jobs[k].state \in {"absent", "reserved", "dispatching"}
         => jobs[k].provider = 0 /\ jobs[k].result = 0
    /\ jobs[k].state \in {"running", "cleanup_pending", "billing_pending"}
         => jobs[k].provider # 0
    /\ jobs[k].state = "billing_pending" => CleanupProven(jobs[k])

LEMMA WorkRecordedStep ==
  ASSUME TypeOK, JobsTypeOK, [JobsNext]_campaignVars,
         WorkRecorded, RefundsAreForWorkThatNeverRan
  PROVE  WorkRecorded' /\ RefundsAreForWorkThatNeverRan'
<1> SUFFICES ASSUME NEW k \in Jobs
             PROVE  /\ jobs'[k].state \in {"absent", "reserved", "dispatching"}
                         => jobs'[k].provider = 0 /\ jobs'[k].result = 0
                    /\ jobs'[k].state \in {"running", "cleanup_pending", "billing_pending"}
                         => jobs'[k].provider # 0
                    /\ jobs'[k].state = "billing_pending" => CleanupProven(jobs'[k])
                    /\ jobs'[k].state = "cleaned" =>
                         IF jobs'[k].closure \in {NeverDispatched(k)} \union {Refused(e) : e \in Evidence}
                         THEN jobs'[k].provider = 0 /\ jobs'[k].result = 0
                         ELSE jobs'[k].provider # 0 /\ CleanupProven(jobs'[k])
  BY Zenon DEF WorkRecorded, RefundsAreForWorkThatNeverRan, CleanupProven
<1>1. Advance(k)
  BY JobAdvances
<1>2. CASE jobs'[k] = jobs[k]
  BY <1>2, Zenon DEF WorkRecorded, RefundsAreForWorkThatNeverRan, CleanupProven
<1>3. CASE Admitted(k)
  BY <1>3 DEF Admitted
<1>4. CASE Claimed(k)
  BY <1>4 DEF Claimed, SameOutcome, WorkRecorded
<1>5. CASE Accepted(k)
  BY <1>5, JobConstants DEF Accepted
<1>6. CASE Finished(k)
  BY <1>6 DEF Finished, WorkRecorded
<1>7. CASE AwaitsBill(k)
  BY <1>7 DEF AwaitsBill, SameOutcome, WorkRecorded
<1>8. CASE ClosedAfterWork(k)
  <2>1. CleanupProven(jobs'[k])
    BY <1>8 DEF ClosedAfterWork, WorkRecorded, CleanupProven
  <2> QED
    BY <1>8, <2>1 DEF ClosedAfterWork, SameOutcome, WorkRecorded
<1>9. CASE ClosedUnstarted(k)
  BY <1>9 DEF ClosedUnstarted, SameOutcome, WorkRecorded
<1> QED
  BY <1>1, <1>2, <1>3, <1>4, <1>5, <1>6, <1>7, <1>8, <1>9 DEF Advance

-----------------------------------------------------------------------------
(* The theorems.                                                           *)

LEMMA TypesStep ==
  ASSUME TypeOK, JobsTypeOK, [JobsNext]_campaignVars
  PROVE  TypeOK' /\ JobsTypeOK' /\ [Next]_ledgerVars
BY StepImplementsLedger, LedgerTypeStep, JobsTypeStep

\* The controller's and the ledger's tables keep their types together.
THEOREM JobsTypeCorrect == JobsSpec => [](TypeOK /\ JobsTypeOK)
<1>1. JobsInit => TypeOK /\ JobsTypeOK
  BY LedgerInitTyped, JobsInitTyped DEF JobsInit
<1>2. TypeOK /\ JobsTypeOK /\ [JobsNext]_campaignVars => (TypeOK /\ JobsTypeOK)'
  BY TypesStep
<1> QED
  BY <1>1, <1>2, PTL DEF JobsSpec

\* The controller drives the ledger by the ledger's own operations only: every
\* behaviour of the jobs is, seen at the ledger's tables, one of the ledger's.
THEOREM JobsImplementLedger == JobsSpec => Spec
<1>1. JobsInit => Init
  BY DEF JobsInit
<1>2. TypeOK /\ JobsTypeOK /\ [JobsNext]_campaignVars => [Next]_ledgerVars
  BY TypesStep
<1> QED
  BY <1>1, <1>2, JobsTypeCorrect, PTL DEF JobsSpec, Spec

\* Whatever the jobs of a campaign do, while it admits work every allowance
\* holds what was promised of it.
THEOREM CampaignAllowanceRespected == JobsSpec => []AllowanceRespected
BY JobsImplementLedger, AllowanceAlwaysRespected, PTL

LEMMA AdvanceIsOneWay ==
  ASSUME JobsTypeOK, NEW k \in Jobs, Advance(k), WorkRecorded
  PROVE  /\ Rank[jobs'[k].state] >= Rank[jobs[k].state]
         /\ jobs[k].provider # 0 => jobs'[k].provider = jobs[k].provider
         /\ jobs[k].result # 0 => jobs'[k].result = jobs[k].result
         /\ jobs[k].state = "cleaned" => jobs'[k] = jobs[k]
<1>1. jobs[k].state \in JobStates
  BY DEF JobsTypeOK, JobRow
<1>2. \A s \in JobStates : Rank[s] \in Nat
  BY DEF Rank, JobStates, ProviderStates
<1>3. CASE jobs'[k] = jobs[k]
  BY <1>1, <1>2, <1>3
<1>4. CASE Admitted(k)
  BY <1>4 DEF Admitted, Rank, WorkRecorded
<1>5. CASE Claimed(k)
  BY <1>5 DEF Claimed, SameOutcome, Rank
<1>6. CASE Accepted(k)
  BY <1>6 DEF Accepted, Rank, WorkRecorded
<1>7. CASE Finished(k)
  BY <1>7 DEF Finished, Rank
<1>8. CASE AwaitsBill(k)
  BY <1>8 DEF AwaitsBill, SameOutcome, Rank
<1>9. CASE ClosedAfterWork(k)
  BY <1>9 DEF ClosedAfterWork, SameOutcome, Rank
<1>10. CASE ClosedUnstarted(k)
  BY <1>10 DEF ClosedUnstarted, SameOutcome, Rank
<1> QED
  BY <1>3, <1>4, <1>5, <1>6, <1>7, <1>8, <1>9, <1>10 DEF Advance

\* A full refund needs proof that nothing ran; every other closure has the
\* evidence of a provider's cleanup behind it.
THEOREM RefundsOnlyForWorkThatNeverRan == JobsSpec => []RefundsAreForWorkThatNeverRan
<1>1. JobsInit => WorkRecorded /\ RefundsAreForWorkThatNeverRan
  BY DEF JobsInit, AbsentJob, WorkRecorded, RefundsAreForWorkThatNeverRan
<1>2. /\ TypeOK /\ JobsTypeOK /\ [JobsNext]_campaignVars
      /\ WorkRecorded /\ RefundsAreForWorkThatNeverRan
      => (WorkRecorded /\ RefundsAreForWorkThatNeverRan)'
  BY WorkRecordedStep
<1> QED
  BY <1>1, <1>2, JobsTypeCorrect, PTL DEF JobsSpec

\* The lifecycle of every job runs one way.
THEOREM JobLifecycleRunsOneWay == JobsSpec => JobsOnlyAdvance
<1>1. JobsInit => WorkRecorded /\ RefundsAreForWorkThatNeverRan
  BY DEF JobsInit, AbsentJob, WorkRecorded, RefundsAreForWorkThatNeverRan
<1>2. /\ TypeOK /\ JobsTypeOK /\ [JobsNext]_campaignVars
      /\ WorkRecorded /\ RefundsAreForWorkThatNeverRan
      => (WorkRecorded /\ RefundsAreForWorkThatNeverRan)'
  BY WorkRecordedStep
<1>3. TypeOK /\ JobsTypeOK /\ WorkRecorded /\ [JobsNext]_campaignVars =>
        [\A j \in Jobs :
           /\ Rank[jobs'[j].state] >= Rank[jobs[j].state]
           /\ jobs[j].provider # 0 => jobs'[j].provider = jobs[j].provider
           /\ jobs[j].result # 0 => jobs'[j].result = jobs[j].result
           /\ jobs[j].state = "cleaned" => jobs'[j] = jobs[j]]_campaignVars
  BY JobAdvances, AdvanceIsOneWay
<1> QED
  BY <1>1, <1>2, <1>3, JobsTypeCorrect, PTL DEF JobsSpec, JobsOnlyAdvance

-----------------------------------------------------------------------------
(* Slots.                                                                  *)
LEMMA OccupantsFinite ==
  ASSUME NEW group
  PROVE  IsFiniteSet(Occupants(group)) /\ Cardinality(Occupants(group)) \in Nat
<1>1. IsFiniteSet(Jobs)
  BY JobsAssumption, FS_Interval DEF Jobs
<1>2. Occupants(group) \subseteq Jobs
  BY DEF Occupants
<1> QED
  BY <1>1, <1>2, FS_Subset, FS_CardinalityType

LEMMA SlotsStep ==
  ASSUME TypeOK, JobsTypeOK, [JobsNext]_campaignVars, SlotsRespected
  PROVE  SlotsRespected'
<1>1. \A g \in JobGroups : Cardinality(Occupants(g)) <= GroupLimit[g]
  BY DEF SlotsRespected, Occupants, Occupies
<1> SUFFICES ASSUME NEW group \in JobGroups
             PROVE  Cardinality(Occupants(group)') <= GroupLimit[group]
  BY DEF SlotsRespected, Occupants, Occupies
<1>2. GroupLimit[group] \in Nat
  BY JobsAssumption
<1>3. \A k \in Jobs : jobs'[k] # jobs[k] /\ ~Admitted(k) /\ Occupies(jobs'[k])
        => Occupies(jobs[k]) /\ jobs'[k].kind = jobs[k].kind
  <2> SUFFICES ASSUME NEW k \in Jobs, ~Admitted(k), jobs'[k] # jobs[k], Occupies(jobs'[k])
               PROVE  Occupies(jobs[k]) /\ jobs'[k].kind = jobs[k].kind
    OBVIOUS
  <2>1. Claimed(k) \/ Accepted(k) \/ Finished(k) \/ AwaitsBill(k)
          \/ ClosedAfterWork(k) \/ ClosedUnstarted(k)
    BY JobAdvances DEF Advance
  <2> QED
    BY <2>1 DEF Claimed, Accepted, Finished, AwaitsBill, ClosedAfterWork, ClosedUnstarted,
                SameWork, Occupies, ProviderStates
<1>4. CASE \A k \in Jobs : ~Admitted(k)
  <2>1. Occupants(group)' \subseteq Occupants(group)
    BY <1>3, <1>4 DEF Occupants
  <2>2. Cardinality(Occupants(group)') <= Cardinality(Occupants(group))
    BY <2>1, OccupantsFinite, FS_Subset
  <2>3. Cardinality(Occupants(group)') \in Nat
    BY <2>1, OccupantsFinite, FS_Subset, FS_CardinalityType
  <2> QED
    BY <1>1, <1>2, <2>2, <2>3, OccupantsFinite
<1>5. ASSUME NEW k \in Jobs, Admitted(k)
      PROVE  Cardinality(Occupants(group)') <= GroupLimit[group]
  <2>1. \A i \in Jobs \ {k} : jobs'[i] = jobs[i]
    BY <1>5 DEF Admitted
  <2>2. CASE group = Group(jobs'[k].kind)
    <3>1. Occupants(group)' \subseteq Occupants(group) \union {k}
      BY <2>1 DEF Occupants
    <3>2. /\ IsFiniteSet(Occupants(group) \union {k})
          /\ Cardinality(Occupants(group) \union {k}) <= Cardinality(Occupants(group)) + 1
      <4>1. IsFiniteSet(Occupants(group)) /\ Cardinality(Occupants(group)) \in Nat
        BY OccupantsFinite
      <4>2. /\ IsFiniteSet(Occupants(group) \union {k})
            /\ \/ Cardinality(Occupants(group) \union {k}) = Cardinality(Occupants(group))
               \/ Cardinality(Occupants(group) \union {k}) = Cardinality(Occupants(group)) + 1
        BY <4>1, FS_AddElement, Zenon
      <4> QED
        BY <4>1, <4>2
    <3>3. /\ Cardinality(Occupants(group)') <= Cardinality(Occupants(group) \union {k})
          /\ Cardinality(Occupants(group)') \in Nat
          /\ Cardinality(Occupants(group) \union {k}) \in Nat
      BY <3>1, <3>2, FS_Subset, FS_CardinalityType
    <3>4. Cardinality(Occupants(group)) < GroupLimit[group]
      BY <1>5, <2>2 DEF Admitted
    <3> QED
      BY <1>2, <3>2, <3>3, <3>4, OccupantsFinite
  <2>3. CASE group # Group(jobs'[k].kind)
    <3>1. Occupants(group)' \subseteq Occupants(group)
      BY <2>1, <2>3 DEF Occupants
    <3>2. /\ Cardinality(Occupants(group)') <= Cardinality(Occupants(group))
          /\ Cardinality(Occupants(group)') \in Nat
      BY <3>1, OccupantsFinite, FS_Subset, FS_CardinalityType
    <3> QED
      BY <1>1, <1>2, <3>2, OccupantsFinite
  <2> QED
    BY <2>2, <2>3
<1> QED
  BY <1>4, <1>5

\* However work is admitted, dispatched and cleaned up, a provider group never
\* holds more of it than it has slots.
THEOREM SlotsAlwaysRespected == JobsSpec => []SlotsRespected
<1>1. ASSUME JobsInit PROVE SlotsRespected
  <2>1. \A group \in JobGroups :
           {j \in Jobs : jobs[j].state \in ProviderStates /\ Group(jobs[j].kind) = group} = {}
    BY <1>1 DEF JobsInit, AbsentJob, ProviderStates
  <2>2. Cardinality({}) = 0 /\ \A group \in JobGroups : 0 <= GroupLimit[group]
    BY FS_EmptySet, JobsAssumption
  <2> QED
    BY <2>1, <2>2, Zenon DEF SlotsRespected
<1>2. TypeOK /\ JobsTypeOK /\ [JobsNext]_campaignVars /\ SlotsRespected => SlotsRespected'
  BY SlotsStep
<1> QED
  BY <1>1, <1>2, JobsTypeCorrect, PTL DEF JobsSpec

-----------------------------------------------------------------------------
(* Money follows work: what one step may do to the hold of one job.        *)
SameHold(k) == /\ reservations'[k].resource = reservations[k].resource
               /\ reservations'[k].purpose = reservations[k].purpose
               /\ reservations'[k].expires = reservations[k].expires

LEMMA HoldSettled ==
  ASSUME TypeOK, NEW k \in Jobs, NEW actual \in Costs, NEW c \in Closures,
         SettleHold(k, actual, c)
  PROVE  IF Spends(jobs[k].kind)
         THEN /\ reservations[k].state = "held" /\ reservations'[k].state = "settled"
              /\ SameHold(k)
         ELSE reservations'[k] = reservations[k]
<1>1. CASE Spends(jobs[k].kind)
  <2>1. k \in Reservations /\ reservations[k] \in ReservationRow
    BY JobConstants DEF TypeOK
  <2>2. /\ reservations[k].state = "held"
        /\ reservations' = [reservations EXCEPT ![k] = [reservations[k] EXCEPT
             !.state = "settled", !.actual = actual, !.receipt = SettlementReceipt(c, k)]]
    BY <1>1 DEF SettleHold, Settle
  <2>3. reservations'[k] = [reservations[k] EXCEPT
             !.state = "settled", !.actual = actual, !.receipt = SettlementReceipt(c, k)]
    BY <2>1, <2>2 DEF TypeOK
  <2>4. reservations'[k].state = "settled" /\ SameHold(k)
    BY <2>1, <2>3 DEF ReservationRow, SameHold
  <2> QED
    BY <1>1, <2>2, <2>4
<1>2. CASE ~Spends(jobs[k].kind)
  BY <1>2 DEF SettleHold, ledgerVars
<1> QED
  BY <1>1, <1>2

LEMMA HoldKeptByLedger ==
  ASSUME TypeOK, JobsTypeOK, LedgerStep, NEW k \in Jobs
  PROVE  \/ reservations'[k] = reservations[k]
         \/ /\ reservations[k].state = "held" /\ SameHold(k)
            /\ reservations'[k].state = "retired_token_policy"
         \/ /\ reservations[k].state = "held" /\ SameHold(k)
            /\ reservations'[k].state = "reconciled_retained"
            /\ jobs[k].state = "billing_pending"
<1>1. k \in Reservations /\ reservations[k] \in ReservationRow
  BY JobConstants DEF TypeOK
<1>2. ASSUME NEW i \in OtherHolds, NEW row, reservations' = [reservations EXCEPT ![i] = row]
      PROVE  reservations'[k] = reservations[k]
  BY <1>1, <1>2 DEF OtherHolds, TypeOK
<1>3. ASSUME NEW i \in OtherHolds, NEW amount \in Amounts, NEW expires \in 1..MaxTime,
             NEW purpose \in Purposes, Reserve(i, "modal", amount, expires, purpose)
      PROVE  reservations'[k] = reservations[k]
  BY <1>2, <1>3 DEF Reserve
<1>4. ASSUME NEW i \in OtherHolds, NEW actual \in Costs, NEW receipt \in Receipts,
             Settle(i, actual, receipt)
      PROVE  reservations'[k] = reservations[k]
  <2>1. reservations' = [reservations EXCEPT ![i] = [reservations[i] EXCEPT
           !.state = "settled", !.actual = actual, !.receipt = receipt]]
    BY <1>4 DEF Settle
  <2> QED
    BY <1>2, <2>1
<1>5. ASSUME RemoveTokenBudget
      PROVE  \/ reservations'[k] = reservations[k]
             \/ /\ reservations[k].state = "held" /\ SameHold(k)
                /\ reservations'[k].state = "retired_token_policy"
  <2>1. CASE k \in HeldTokens
    <3>1. reservations'[k] = [reservations[k] EXCEPT !.state = "retired_token_policy"]
          /\ reservations[k].state = "held"
      BY <1>1, <1>5, <2>1 DEF RemoveTokenBudget, HeldTokens
    <3> QED
      BY <1>1, <3>1 DEF ReservationRow, SameHold
  <2>2. CASE k \notin HeldTokens
    BY <1>1, <1>5, <2>2 DEF RemoveTokenBudget
  <2> QED
    BY <2>1, <2>2
<1>6. ASSUME NEW g \in Groups, NEW scope \in SUBSET Bills, NEW members \in SUBSET Reservations,
             \A i \in members \intersect Jobs : jobs[i].state = "billing_pending",
             NEW report \in Reports(scope), ReconcileNew(g, scope, members, report)
      PROVE  \/ reservations'[k] = reservations[k]
             \/ /\ reservations[k].state = "held" /\ SameHold(k)
                /\ reservations'[k].state = "reconciled_retained"
                /\ jobs[k].state = "billing_pending"
  <2>1. CASE k \in members
    <3>1. reservations'[k] = [reservations[k] EXCEPT !.state = "reconciled_retained", !.group = g]
          /\ reservations[k].state = "held"
      BY <1>1, <1>6, <2>1, Zenon DEF ReconcileNew
    <3>2. jobs[k].state = "billing_pending"
      BY <1>6, <2>1
    <3> QED
      BY <1>1, <3>1, <3>2 DEF ReservationRow, SameHold
  <2>2. CASE k \notin members
    BY <1>1, <1>6, <2>2, Zenon DEF ReconcileNew
  <2> QED
    BY <2>1, <2>2
<1>7. ASSUME NEW g \in Groups, NEW report \in Reports(groups[g].scope),
             ReconcileRevision(g, report)
      PROVE  reservations'[k] = reservations[k]
  BY <1>7 DEF ReconcileRevision
<1>8. /\ \A b \in Bills, r \in Resources, actual \in Costs :
           RecordPriorUsage(b, r, actual) => reservations'[k] = reservations[k]
      /\ \A scope \in SUBSET Bills : RegisterPriorScope(scope) => reservations'[k] = reservations[k]
      /\ \A why \in FreezeReasons : Freeze(why) => reservations'[k] = reservations[k]
      /\ Tick => reservations'[k] = reservations[k]
  BY DEF RecordPriorUsage, RegisterPriorScope, Freeze, Tick
<1> QED
  BY <1>3, <1>4, <1>5, <1>6, <1>7, <1>8 DEF LedgerStep

(* A job moves on and its hold stays; a job closes and its hold is settled.*)
LEMMA HoldStays ==
  ASSUME NEW k \in Jobs, HoldFollows(jobs[k], reservations[k]), Advance(k), ~Admitted(k),
         reservations'[k] = reservations[k],
         jobs'[k].state # "cleaned" \/ jobs[k].state = "cleaned" \/ ~Spends(jobs[k].kind)
  PROVE  HoldFollows(jobs'[k], reservations'[k])
<1>1. CASE jobs'[k] = jobs[k]
  BY <1>1
<1>2. CASE Claimed(k) \/ Accepted(k) \/ Finished(k) \/ AwaitsBill(k)
  BY <1>2 DEF Claimed, Accepted, Finished, AwaitsBill, SameWork, HoldFollows, ProviderStates
<1>3. CASE ClosedAfterWork(k) \/ ClosedUnstarted(k)
  BY <1>3 DEF ClosedAfterWork, ClosedUnstarted, SameWork, HoldFollows
<1> QED
  BY <1>1, <1>2, <1>3 DEF Advance

LEMMA HoldCloses ==
  ASSUME TypeOK, NEW k \in Jobs, HoldFollows(jobs[k], reservations[k]), Advance(k), ~Admitted(k),
         NEW actual \in Costs, NEW c \in Closures, SettleHold(k, actual, c),
         jobs'[k].state = "cleaned", jobs[k].state # "cleaned"
  PROVE  HoldFollows(jobs'[k], reservations'[k])
<1>1. ClosedAfterWork(k) \/ ClosedUnstarted(k)
  BY DEF Advance, Claimed, Accepted, Finished, AwaitsBill
<1>2. SameWork(k) /\ jobs[k].state # "absent"
  BY <1>1 DEF ClosedAfterWork, ClosedUnstarted
<1>3. CASE Spends(jobs[k].kind)
  BY <1>2, <1>3, HoldSettled DEF HoldFollows, SameWork, SameHold, ProviderStates
<1>4. CASE ~Spends(jobs[k].kind)
  BY <1>2, <1>4, HoldSettled DEF HoldFollows, SameWork
<1> QED
  BY <1>3, <1>4

LEMMA HoldsFollowOwnStep ==
  ASSUME TypeOK, JobsTypeOK, NEW k \in Jobs, HoldFollows(jobs[k], reservations[k]),
         JobStep(k)
  PROVE  HoldFollows(jobs'[k], reservations'[k])
<1>1. jobs[k] \in JobRow /\ k \in Reservations
  BY JobConstants DEF JobsTypeOK
<1>2. Advance(k)
  BY JobAdvances DEF JobsNext
<1>3. \A row : jobs' = [jobs EXCEPT ![k] = row] => jobs'[k] = row
  BY DEF JobsTypeOK
<1>4. jobs[k].state # "absent" => ~Admitted(k)
  BY DEF Admitted
<1>5. UNCHANGED ledgerVars => reservations'[k] = reservations[k]
  BY DEF ledgerVars
<1>6. ASSUME NEW c, Close(k, c) \/ CloseAtOnce(k, c) PROVE jobs'[k].state = "cleaned"
  <2>1. \/ jobs' = [jobs EXCEPT ![k] = [jobs[k] EXCEPT !.state = "cleaned", !.closure = c]]
        \/ jobs' = [jobs EXCEPT ![k] = [jobs[k] EXCEPT !.state = "cleaned", !.closure = c,
                                                       !.providerCleanup = c]]
    BY <1>6 DEF Close, CloseAtOnce
  <2>2. \/ jobs'[k] = [jobs[k] EXCEPT !.state = "cleaned", !.closure = c]
        \/ jobs'[k] = [jobs[k] EXCEPT !.state = "cleaned", !.closure = c, !.providerCleanup = c]
    BY <1>3, <2>1
  <2> QED
    BY <1>1, <2>2 DEF JobRow
<1>7. ASSUME NEW kind \in CampaignKinds, NEW amount \in Amounts, NEW timeout \in Timeouts,
             AdmitJob(k, kind, amount, timeout)
      PROVE  HoldFollows(jobs'[k], reservations'[k])
  <2>1. jobs'[k] = [AbsentJob EXCEPT !.state = "reserved", !.kind = kind,
                                     !.deadline = now + timeout]
    BY <1>3, <1>7 DEF AdmitJob
  <2>2. /\ jobs'[k].state = "reserved" /\ jobs'[k].kind = kind
        /\ jobs'[k].deadline = now + timeout
    BY <2>1 DEF AbsentJob
  <2>3. CASE Spends(kind)
    <3>1. reservations' = [reservations EXCEPT ![k] =
            [state |-> "held", resource |-> ResourceOf(kind), amount |-> amount,
             purpose |-> "normal", expires |-> now + timeout, actual |-> 0,
             receipt |-> NoReceipt, group |-> 0]]
      BY <1>7, <2>3 DEF AdmitJob, Reserve
    <3>2. reservations'[k] =
            [state |-> "held", resource |-> ResourceOf(kind), amount |-> amount,
             purpose |-> "normal", expires |-> now + timeout, actual |-> 0,
             receipt |-> NoReceipt, group |-> 0]
      BY <1>1, <3>1 DEF TypeOK
    <3> QED
      BY <2>2, <2>3, <3>2 DEF HoldFollows
  <2>4. CASE ~Spends(kind)
    <3>1. reservations'[k] = reservations[k] /\ jobs[k].state = "absent"
      BY <1>5, <1>7, <2>4 DEF AdmitJob
    <3> QED
      BY <2>2, <2>4, <3>1 DEF HoldFollows
  <2> QED
    BY <2>3, <2>4
<1>8. CASE BeginDispatch(k) \/ RequestCleanup(k)
  <2>1. /\ jobs' = [jobs EXCEPT ![k] = [jobs[k] EXCEPT !.state = "dispatching"]]
             \/ jobs' = [jobs EXCEPT ![k] = [jobs[k] EXCEPT !.state = "cleanup_pending"]]
        /\ jobs[k].state \in {"reserved", "running"} /\ UNCHANGED ledgerVars
    BY <1>8 DEF BeginDispatch, RequestCleanup, Dispatchable
  <2>2. jobs'[k].state \in {"dispatching", "cleanup_pending"}
    BY <1>1, <1>3, <2>1 DEF JobRow
  <2> QED
    BY <1>2, <1>4, <1>5, <2>1, <2>2, HoldStays
<1>9. ASSUME NEW p \in Providers, ProviderStarted(k, p)
      PROVE  HoldFollows(jobs'[k], reservations'[k])
  <2>1. jobs' = [jobs EXCEPT ![k] = [jobs[k] EXCEPT !.state = "running", !.provider = p]]
        /\ jobs[k].state = "dispatching" /\ UNCHANGED ledgerVars
    BY <1>9 DEF ProviderStarted, AwaitsProvider
  <2>2. jobs'[k] = [jobs[k] EXCEPT !.state = "running", !.provider = p]
    BY <1>3, <2>1
  <2>3. jobs'[k].state = "running"
    BY <1>1, <2>2 DEF JobRow
  <2> QED
    BY <1>2, <1>4, <1>5, <2>1, <2>3, HoldStays
<1>10. ASSUME NEW result \in Results, RecordResult(k, result)
       PROVE  HoldFollows(jobs'[k], reservations'[k])
  <2>1. jobs' = [jobs EXCEPT ![k] = [jobs[k] EXCEPT !.result = result,
                                                    !.state = "cleanup_pending"]]
        /\ jobs[k].state = "running" /\ UNCHANGED ledgerVars
    BY <1>10 DEF RecordResult
  <2>2. jobs'[k] = [jobs[k] EXCEPT !.result = result, !.state = "cleanup_pending"]
    BY <1>3, <2>1
  <2>3. jobs'[k].state = "cleanup_pending"
    BY <1>1, <2>2 DEF JobRow
  <2> QED
    BY <1>2, <1>4, <1>5, <2>1, <2>3, HoldStays
<1>11. ASSUME NEW e \in Evidence, ProviderCleanupConfirmed(k, e)
       PROVE  HoldFollows(jobs'[k], reservations'[k])
  <2> DEFINE st == AfterCleanup(jobs[k].kind)
             c == IF st = "cleaned" THEN Presented(e) ELSE NoClosure
  <2>1. jobs' = [jobs EXCEPT ![k] = [jobs[k] EXCEPT !.state = st,
                   !.providerCleanup = Presented(e), !.closure = c]]
    BY <1>11 DEF ProviderCleanupConfirmed
  <2>2. jobs[k].state \in {"running", "cleanup_pending"} /\ UNCHANGED ledgerVars
    BY <1>11 DEF ProviderCleanupConfirmed
  <2>3. st # "cleaned" \/ ~Spends(jobs[k].kind)
    BY DEF AfterCleanup
  <2> HIDE DEF st, c
  <2>4. jobs'[k] = [jobs[k] EXCEPT !.state = st, !.providerCleanup = Presented(e), !.closure = c]
    BY <1>3, <2>1
  <2>5. jobs'[k].state = st
    BY <1>1, <2>4 DEF JobRow
  <2> QED
    BY <1>2, <1>4, <1>5, <2>2, <2>3, <2>5, HoldStays
<1>12. ASSUME NEW e \in Evidence, ProviderSubmissionRefused(k, e)
       PROVE  HoldFollows(jobs'[k], reservations'[k])
  <2>1. jobs[k].state = "dispatching" /\ SettleHold(k, 0, Refused(e)) /\ jobs'[k].state = "cleaned"
    BY <1>6, <1>12 DEF ProviderSubmissionRefused, Unacknowledged
  <2> QED
    BY <1>2, <1>4, <2>1, HoldCloses, JobConstants, ClosuresTyped
<1>13. ASSUME NEW e \in Evidence, NEW actual \in Costs,
              SettleJob(k, actual, e) \/ CleanupConfirmed(k, e, actual)
       PROVE  HoldFollows(jobs'[k], reservations'[k])
  <2>1. /\ jobs[k].state \in {"running", "cleanup_pending", "billing_pending"}
        /\ SettleHold(k, actual, Presented(e)) /\ jobs'[k].state = "cleaned"
    BY <1>6, <1>13 DEF SettleJob, CleanupConfirmed
  <2> QED
    BY <1>2, <1>4, <2>1, HoldCloses, ClosuresTyped
<1>14. CASE CancelUndispatched(k)
  <2>1. jobs[k].state = "reserved" /\ SettleHold(k, 0, NeverDispatched(k))
        /\ jobs'[k].state = "cleaned"
    BY <1>6, <1>14 DEF CancelUndispatched, Cancellable
  <2> QED
    BY <1>2, <1>4, <2>1, HoldCloses, JobConstants, ClosuresTyped
<1> QED
  BY <1>7, <1>8, <1>9, <1>10, <1>11, <1>12, <1>13, <1>14 DEF JobStep

LEMMA HoldsFollowStep ==
  ASSUME TypeOK, JobsTypeOK, [JobsNext]_campaignVars, HoldsFollowJobs, NEW k \in Jobs
  PROVE  HoldFollows(jobs'[k], reservations'[k])
<1>1. HoldFollows(jobs[k], reservations[k])
  BY DEF HoldsFollowJobs
<1>2. CASE jobs'[k] = jobs[k] /\ reservations'[k] = reservations[k]
  BY <1>1, <1>2
<1>3. ASSUME NEW j \in Jobs, JobStep(j) PROVE HoldFollows(jobs'[k], reservations'[k])
  BY <1>1, <1>2, <1>3, OtherJobsKept, HoldsFollowOwnStep
<1>4. ASSUME NEW g \in Groups, NEW retained \in SUBSET Jobs, RetainReconciledJobs(g, retained)
      PROVE  HoldFollows(jobs'[k], reservations'[k])
  <2>1. reservations'[k] = reservations[k]
    BY <1>4 DEF RetainReconciledJobs, ledgerVars
  <2>2. CASE jobs'[k] = jobs[k]
    BY <1>2, <2>1, <2>2
  <2>3. CASE k \in retained /\ jobs[k].state = "billing_pending"
    <3>1. jobs'[k] = [jobs[k] EXCEPT !.state = "cleaned", !.closure = Retained(g, k)]
      BY <1>4, <2>3 DEF RetainReconciledJobs
    <3>2. jobs'[k].state = "cleaned" /\ SameWork(k)
      BY <3>1 DEF SameWork, JobsTypeOK, JobRow
    <3>3. reservations[k].state = "reconciled_retained"
      BY <1>4, <2>3 DEF RetainReconciledJobs, RetainedBy
    <3> QED
      BY <1>1, <2>1, <2>3, <3>2, <3>3 DEF HoldFollows, SameWork, ProviderStates
  <2>4. CASE k \in retained /\ jobs[k].state = "cleaned" /\ jobs[k].closure = Retained(g, k)
    <3>1. jobs'[k] = [jobs[k] EXCEPT !.state = "cleaned", !.closure = Retained(g, k)]
      BY <1>4, <2>4 DEF RetainReconciledJobs
    <3> QED
      BY <2>2, <2>4, <3>1 DEF JobsTypeOK, JobRow
  <2>5. CASE k \notin retained
    BY <1>4, <2>2, <2>5 DEF RetainReconciledJobs
  <2> QED
    BY <1>4, <2>3, <2>4, <2>5 DEF RetainReconciledJobs
<1>5. CASE LedgerStep /\ UNCHANGED jobVars
  <2>1. jobs'[k] = jobs[k]
    BY <1>5 DEF jobVars
  <2> QED
    BY <1>1, <1>5, <2>1, HoldKeptByLedger DEF HoldFollows, SameHold, ProviderStates
<1>6. Stop \/ UNCHANGED campaignVars
        => jobs'[k] = jobs[k] /\ reservations'[k] = reservations[k]
  BY DEF Stop, campaignVars, jobVars, ledgerVars
<1> QED
  BY <1>2, <1>3, <1>4, <1>5, <1>6 DEF JobsNext

\* Work that may still run or whose bill is open keeps its hold, closed work
\* holds nothing, and no hold appears without its job.
THEOREM HoldsAlwaysFollowJobs == JobsSpec => []HoldsFollowJobs
<1>1. ASSUME JobsInit PROVE HoldsFollowJobs
  <2>1. \A k \in Jobs : jobs[k].state = "absent" /\ reservations[k].state = "absent"
    BY <1>1, JobConstants DEF JobsInit, Init, AbsentJob, AbsentRow
  <2> QED
    BY <2>1 DEF HoldsFollowJobs, HoldFollows
<1>2. TypeOK /\ JobsTypeOK /\ [JobsNext]_campaignVars /\ HoldsFollowJobs => HoldsFollowJobs'
  BY HoldsFollowStep, Zenon DEF HoldsFollowJobs
<1> QED
  BY <1>1, <1>2, JobsTypeCorrect, PTL DEF JobsSpec

-----------------------------------------------------------------------------
(* What the ledger keeps, the controller keeps; and what that means for    *)
(* jobs whose hold the token migration retires.                            *)

\* However jobs are admitted, closed, retained and migrated, the campaign's
\* accounts balance, a bill counts once and nothing accounted returns.
THEOREM CampaignAccountsKept ==
  JobsSpec => [](AccountingBalances /\ BillsCountedOnce) /\ AccountedUsageIsFinal
BY JobsImplementLedger, AccountingAlwaysBalances, BillsAlwaysCountedOnce,
   AccountedUsageNeverReturns, PTL

\* A job whose hold remove_token_budget retired, while it was live.
Stranded(j) == reservations[j].state = "retired_token_policy"
NotClosed(j) == jobs[j].state \notin {"absent", "cleaned"}

\* A live research job whose hold the token migration retired is never closed
\* again: settle_job, cancel_undispatched and submission_refused find no hold to
\* settle, and a retained group only closes Modal work.
THEOREM MigratedJobsNeverClose ==
  ASSUME NEW j \in Jobs
  PROVE  JobsSpec => [](Stranded(j) => [](Stranded(j) /\ NotClosed(j)))
<1>1. HoldsFollowJobs /\ Stranded(j) => NotClosed(j)
  BY DEF HoldsFollowJobs, HoldFollows, Stranded, NotClosed
<1>2. [AccountedKept]_ledgerVars /\ Stranded(j) => Stranded(j)'
  BY JobConstants DEF AccountedKept, ledgerVars, Stranded
<1> QED
  BY <1>1, <1>2, HoldsAlwaysFollowJobs, CampaignAccountsKept, PTL DEF AccountedUsageIsFinal
=============================================================================
