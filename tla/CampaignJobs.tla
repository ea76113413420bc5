---------------------------- MODULE CampaignJobs ----------------------------
(***************************************************************************)
(* The controller's jobs (fps_bench/campaign_controller.py), each with its *)
(* hold in the campaign ledger.  The tables of both live in one database   *)
(* and every operation is one transaction over them, so an operation of    *)
(* the controller that reserves or settles conjoins the ledger's own       *)
(* action.  Job j of a kind that spends a resource owns reservation j: the *)
(* GameWorld contract gives training and serving one Modal hold, research  *)
(* one token hold and the desktop kinds none.  Which candidate a job works *)
(* for is the subject of CandidatePromotion.                               *)
(***************************************************************************)
EXTENDS CampaignLedger

CONSTANTS
  NumJobs,           \* job identities, 1..NumJobs
  CampaignKinds,     \* kinds the callers admit
  GroupLimit,        \* GROUP_LIMITS
  Timeouts,          \* timeout_seconds a caller may ask for
  CleanupGrace,      \* the 300 seconds kept after every job's deadline
  CampaignDeadline,  \* controller.deadline
  Providers,         \* provider identities (0 is none)
  Results,           \* result envelopes (0 is none)
  Evidence           \* receipts that providers and billing hand out

Jobs == 1..NumJobs
DesktopKinds == {"evaluation", "rollout", "driver_build"}
Kinds == DesktopKinds \union {"training", "serving", "research"}
JobGroups == {"desktop", "training", "research"}

Group(kind) ==
  CASE kind \in DesktopKinds -> "desktop"
    [] kind \in {"training", "serving"} -> "training"
    [] kind = "research" -> "research"
ResourceOf(kind) ==
  CASE kind \in {"training", "serving"} -> "modal"
    [] kind = "research" -> "tokens"
    [] kind \in DesktopKinds -> "none"
Spends(kind) == ResourceOf(kind) # "none"

(* Receipts of a closure: what a caller presented, or what the controller  *)
(* itself writes for work that never ran or whose billing was retained.    *)
NoClosure == <<>>
Presented(e) == <<e>>
Refused(e) == <<"refused", e>>
NeverDispatched(j) == <<"never", j>>
Retained(g, j) == <<"retained", g, j>>
Closures == {Presented(e) : e \in Evidence} \union {Refused(e) : e \in Evidence}
              \union {NeverDispatched(j) : j \in Jobs}
              \union {Retained(g, j) : g \in Groups, j \in Jobs}

\* f"{receipt}:{job}:{resource}": what the ledger stores for a job's hold.
SettlementReceipt(closure, j) == <<closure, j>>

ASSUME JobsAssumption ==
  /\ NumJobs \in Nat /\ NumJobs <= NumReservations
  /\ CampaignKinds \subseteq Kinds
  /\ GroupLimit \in [JobGroups -> Nat]
  /\ Timeouts \subseteq Nat \ {0} /\ CleanupGrace \in Nat
  /\ CampaignDeadline \in Nat /\ CampaignDeadline <= MaxTime
  /\ Providers \subseteq Nat \ {0} /\ Results \subseteq Nat \ {0}
  /\ 0 \in Costs
ASSUME SettlementsAssumption ==
  \A c \in Closures, j \in Jobs : SettlementReceipt(c, j) \in Receipts

VARIABLES
  jobs,      \* table jobs, one row per identity
  stopped    \* controller.stopped

jobVars == <<jobs, stopped>>
campaignVars == <<ledgerVars, jobVars>>

ProviderStates == {"reserved", "dispatching", "running", "cleanup_pending"}
JobStates == {"absent", "billing_pending", "cleaned"} \union ProviderStates
JobRow ==
  [state: JobStates, kind: Kinds, deadline: Nat,
   provider: {0} \union Providers, result: {0} \union Results,
   providerCleanup: {NoClosure} \union Closures, closure: {NoClosure} \union Closures]
AbsentJob ==
  [state |-> "absent", kind |-> "evaluation", deadline |-> 0, provider |-> 0,
   result |-> 0, providerCleanup |-> NoClosure, closure |-> NoClosure]

JobsInit == Init /\ jobs = [j \in Jobs |-> AbsentJob] /\ stopped = FALSE

(* _controller(admission=True)                                             *)
AdmissionOpen == ~stopped /\ ~frozen /\ now < CampaignDeadline

\* Mutant: a job that awaits cleanup no longer occupies its slot.
OccupiesUntilResult(job) == job.state \in {"reserved", "dispatching", "running"}
\* ACTIVE_PROVIDER_STATES: a slot is freed only by confirmed provider cleanup.
Occupies(job) == job.state \in ProviderStates

Occupants(group) == {j \in Jobs : Occupies(jobs[j]) /\ Group(jobs[j].kind) = group}

\* UNIQUE(cleanup_receipt)
Unused(closure) == \A j \in Jobs : jobs[j].closure # closure

(* Releasing the hold of a job, in the transaction that closes the job.    *)
SettleHold(j, actual, closure) ==
  IF Spends(jobs[j].kind)
  THEN Settle(j, actual, SettlementReceipt(closure, j))
  ELSE UNCHANGED ledgerVars

Close(j, closure) == jobs' = [jobs EXCEPT ![j].state = "cleaned", ![j].closure = closure]
CloseAtOnce(j, closure) ==
  jobs' = [jobs EXCEPT ![j].state = "cleaned", ![j].closure = closure,
                       ![j].providerCleanup = closure]

-----------------------------------------------------------------------------
(* admit_job: the slot, the deadline, the hold and the row in one step.    *)
AdmitJob(j, kind, amount, timeout) ==
  /\ jobs[j].state = "absent"
  /\ AdmissionOpen
  /\ Cardinality(Occupants(Group(kind))) < GroupLimit[Group(kind)]
  /\ now + timeout + CleanupGrace <= CampaignDeadline
  /\ IF Spends(kind)
     THEN Reserve(j, ResourceOf(kind), amount, now + timeout, "normal")
     ELSE UNCHANGED ledgerVars
  /\ jobs' = [jobs EXCEPT ![j] = [AbsentJob EXCEPT !.state = "reserved", !.kind = kind,
                                                   !.deadline = now + timeout]]
  /\ UNCHANGED stopped

Dispatchable(job) == job.state = "reserved"

(* begin_dispatch: the only permission to contact a provider.              *)
BeginDispatch(j) ==
  /\ AdmissionOpen
  /\ \A i \in Reservations : ~ExpiredHeld(reservations[i])
  /\ Dispatchable(jobs[j])
  /\ now < jobs[j].deadline
  /\ jobs' = [jobs EXCEPT ![j].state = "dispatching"]
  /\ UNCHANGED <<ledgerVars, stopped>>

\* Mutant: a late acknowledgement is taken after cleanup was requested.
AwaitsProviderOrCleanup(job) == job.state \in {"dispatching", "cleanup_pending"}
AwaitsProvider(job) == job.state = "dispatching"

(* provider_started: recorded even after a stop, so cleanup can find it.   *)
ProviderStarted(j, p) ==
  /\ AwaitsProvider(jobs[j])
  /\ jobs' = [jobs EXCEPT ![j].state = "running", ![j].provider = p]
  /\ UNCHANGED <<ledgerVars, stopped>>

\* Mutant: a running job can still be written off as refused.
UnacknowledgedOrRunning(job) == job.state \in {"dispatching", "running"}
Unacknowledged(job) == job.state = "dispatching" /\ job.provider = 0 /\ job.result = 0

(* provider_submission_refused: the provider proved it created nothing.    *)
ProviderSubmissionRefused(j, e) ==
  /\ Unacknowledged(jobs[j])
  /\ Unused(Refused(e))
  /\ SettleHold(j, 0, Refused(e))
  /\ CloseAtOnce(j, Refused(e))
  /\ UNCHANGED stopped

(* record_result: the result is kept for ever, the slot until cleanup.     *)
RecordResult(j, result) ==
  /\ jobs[j].result = 0
  /\ jobs[j].state = "running"
  /\ jobs' = [jobs EXCEPT ![j].result = result, ![j].state = "cleanup_pending"]
  /\ UNCHANGED <<ledgerVars, stopped>>

(* request_cleanup                                                         *)
RequestCleanup(j) ==
  /\ jobs[j].state = "running"
  /\ jobs' = [jobs EXCEPT ![j].state = "cleanup_pending"]
  /\ UNCHANGED <<ledgerVars, stopped>>

\* Mutant: provider cleanup closes the job without waiting for its bill.
AfterCleanupWithoutBilling(kind) == "cleaned"
\* Mutant: a job that waits for its bill takes its hold's state.
AfterCleanupAsHold(kind) == IF Spends(kind) THEN "held" ELSE "cleaned"
AfterCleanup(kind) == IF Spends(kind) THEN "billing_pending" ELSE "cleaned"

(* provider_cleanup_confirmed / _provider_cleanup_in_transaction           *)
ProviderCleanupConfirmed(j, e) ==
  LET state == AfterCleanup(jobs[j].kind)
  IN /\ jobs[j].state \in {"running", "cleanup_pending"}
     /\ state = "cleaned" => Unused(Presented(e))
     /\ jobs' = [jobs EXCEPT
          ![j].state = state, ![j].providerCleanup = Presented(e),
          ![j].closure = IF state = "cleaned" THEN Presented(e) ELSE NoClosure]
     /\ UNCHANGED <<ledgerVars, stopped>>

(* settle_job / _settle_job_in_transaction                                 *)
SettleJob(j, actual, e) ==
  /\ jobs[j].state = "billing_pending"
  /\ Unused(Presented(e))
  /\ SettleHold(j, actual, Presented(e))
  /\ Close(j, Presented(e))
  /\ UNCHANGED stopped

(* cleanup_confirmed: both confirmations in one transaction.               *)
CleanupConfirmed(j, e, actual) ==
  /\ \/ jobs[j].state \in {"running", "cleanup_pending"}
     \/ jobs[j].state = "billing_pending" /\ jobs[j].providerCleanup = Presented(e)
  /\ Unused(Presented(e))
  /\ SettleHold(j, actual, Presented(e))
  /\ CloseAtOnce(j, Presented(e))
  /\ UNCHANGED stopped

\* Mutant: billing is retained without looking at the job's own reservation.
RetainedByAny(j, g) == TRUE
RetainedBy(j, g) == /\ reservations[j].state = "reconciled_retained"
                    /\ reservations[j].group = g

(* retain_reconciled_jobs: all of the jobs or none; a job this group       *)
(* already closed is passed over.                                          *)
RetainReconciledJobs(g, retained) ==
  /\ groups[g].scope # {}
  /\ \A j \in retained :
       \/ jobs[j].state = "cleaned" /\ jobs[j].closure = Retained(g, j)
       \/ /\ jobs[j].state = "billing_pending"
          /\ ResourceOf(jobs[j].kind) = "modal"
          /\ RetainedBy(j, g)
  /\ jobs' = [j \in Jobs |->
       IF j \in retained THEN [jobs[j] EXCEPT !.state = "cleaned", !.closure = Retained(g, j)]
       ELSE jobs[j]]
  /\ UNCHANGED <<ledgerVars, stopped>>

Cancellable(job) == job.state = "reserved"

(* cancel_undispatched: the only refund without a provider's receipt.      *)
CancelUndispatched(j) ==
  /\ Cancellable(jobs[j])
  /\ SettleHold(j, 0, NeverDispatched(j))
  /\ CloseAtOnce(j, NeverDispatched(j))
  /\ UNCHANGED stopped

(* stop                                                                    *)
Stop ==
  /\ stopped' = TRUE
  /\ FreezeFor(IncidentReason)
  /\ UNCHANGED <<jobs, reservations, priorUsage, billed, groups, priorScope,
                 tokenBudgetRemoved, now>>

-----------------------------------------------------------------------------
(* The ledger's own operations.  Holds other than the jobs' belong to      *)
(* image imports and probes; a reconciliation plan (gameworld_billing)     *)
(* takes in only the holds of jobs whose provider cleanup is confirmed.    *)
OtherHolds == Reservations \ Jobs
LedgerStep ==
  \/ \E i \in OtherHolds, amount \in Amounts, expires \in 1..MaxTime, purpose \in Purposes :
        Reserve(i, "modal", amount, expires, purpose)
  \/ \E i \in OtherHolds, actual \in Costs, receipt \in Receipts : Settle(i, actual, receipt)
  \/ \E b \in Bills, r \in Resources, actual \in Costs : RecordPriorUsage(b, r, actual)
  \/ \E scope \in SUBSET Bills \ {{}} : RegisterPriorScope(scope)
  \/ \E why \in FreezeReasons : Freeze(why)
  \/ RemoveTokenBudget
  \/ \E g \in Groups, scope \in SUBSET Bills, members \in SUBSET Reservations :
        /\ \A i \in members \intersect Jobs : jobs[i].state = "billing_pending"
        /\ \E report \in Reports(scope) : ReconcileNew(g, scope, members, report)
  \/ \E g \in Groups : \E report \in Reports(groups[g].scope) : ReconcileRevision(g, report)
  \/ Tick

JobStep(j) ==
  \/ \E kind \in CampaignKinds, amount \in Amounts, timeout \in Timeouts :
        AdmitJob(j, kind, amount, timeout)
  \/ BeginDispatch(j)
  \/ \E p \in Providers : ProviderStarted(j, p)
  \/ \E e \in Evidence : ProviderSubmissionRefused(j, e)
  \/ \E result \in Results : RecordResult(j, result)
  \/ RequestCleanup(j)
  \/ \E e \in Evidence : ProviderCleanupConfirmed(j, e)
  \/ \E actual \in Costs, e \in Evidence : SettleJob(j, actual, e)
  \/ \E actual \in Costs, e \in Evidence : CleanupConfirmed(j, e, actual)
  \/ CancelUndispatched(j)

JobsNext ==
  \/ \E j \in Jobs : JobStep(j)
  \/ \E g \in Groups, retained \in SUBSET Jobs \ {{}} : RetainReconciledJobs(g, retained)
  \/ Stop
  \/ LedgerStep /\ UNCHANGED jobVars

JobsSpec == JobsInit /\ [][JobsNext]_campaignVars

-----------------------------------------------------------------------------
(* Properties.                                                             *)

\* The job table keeps its columns' types.
JobsTypeOK == jobs \in [Jobs -> JobRow] /\ stopped \in BOOLEAN

\* Money follows work.  Work that a provider may still be doing, or whose bill
\* is open, has its hold in the ledger (or a group, or the token migration,
\* keeps the whole amount); closed work holds nothing; no hold appears without
\* its job.  The job's deadline is the hold's expiry.
HoldFollows(job, row) ==
  IF job.state = "absent" \/ ~Spends(job.kind) THEN row.state = "absent"
  ELSE /\ row.resource = ResourceOf(job.kind) /\ row.purpose = "normal"
       /\ row.expires = job.deadline
       /\ row.state \in {"held", "settled", "reconciled_retained", "retired_token_policy"}
       /\ job.state = "cleaned" => row.state \in {"settled", "reconciled_retained"}
       /\ job.state # "cleaned" => row.state # "settled"
       /\ job.state \in ProviderStates => row.state # "reconciled_retained"
HoldsFollowJobs == \A j \in Jobs : HoldFollows(jobs[j], reservations[j])

\* No provider group ever runs more work than it has slots, counting work
\* whose submission is ambiguous and work whose cleanup is not confirmed.
SlotsRespected ==
  \A group \in JobGroups :
    Cardinality({j \in Jobs : jobs[j].state \in ProviderStates
                              /\ Group(jobs[j].kind) = group}) <= GroupLimit[group]

\* A refund of the whole hold needs proof that nothing ran: a job closed as
\* never dispatched or as refused has neither a provider nor a result, and
\* any other closed job had its provider's cleanup confirmed.
RefundsAreForWorkThatNeverRan ==
  \A j \in Jobs : jobs[j].state = "cleaned" =>
    IF jobs[j].closure \in {NeverDispatched(j)} \union {Refused(e) : e \in Evidence}
    THEN jobs[j].provider = 0 /\ jobs[j].result = 0
    ELSE /\ jobs[j].provider # 0
         /\ \E e \in Evidence : jobs[j].providerCleanup = Presented(e)

\* The lifecycle runs one way, whoever races whom: a dispatch is claimed once,
\* a provider identity and a result are never replaced, and a closed job stays
\* as it was closed.
Rank == [absent |-> 0, reserved |-> 1, dispatching |-> 2, running |-> 3,
         cleanup_pending |-> 4, billing_pending |-> 5, cleaned |-> 6]
JobsOnlyAdvance ==
  [][\A j \in Jobs :
       /\ Rank[jobs'[j].state] >= Rank[jobs[j].state]
       /\ jobs[j].provider # 0 => jobs'[j].provider = jobs[j].provider
       /\ jobs[j].result # 0 => jobs'[j].result = jobs[j].result
       /\ jobs[j].state = "cleaned" => jobs'[j] = jobs[j]]_campaignVars
=============================================================================
