----------------------------- MODULE FleetClaims -----------------------------
(***************************************************************************)
(* The provider side of a desktop job: FleetLifecycle                      *)
(* (fps_bench/fleet_provider.py) as two processes drive it.  The runner    *)
(* (gameworld_runner.dispatch_fleet, gameworld_fleet.execute) acquires the *)
(* job's claim, runs its worker once, collects and records the result and  *)
(* releases the claim; the watchdog releases the claims of due jobs.  They *)
(* share the database, the receipt directory and the provider and no lock. *)
(*                                                                         *)
(* A claim has a name that only its job derives, so the provider has at    *)
(* most one claim of a job at a time.  Files are written once, by          *)
(* exclusive_write, which creates before it writes: a reader in between,   *)
(* and everyone after a crash in between, finds a torn file.               *)
(***************************************************************************)
EXTENDS CampaignJobs

CONSTANT MaxCrashes    \* bound: process crashes in one behaviour

Processes == {"runner", "watchdog"}

ASSUME FleetAssumption ==
  MaxCrashes \in Nat /\ Amounts # {} /\ Evidence \subseteq Nat \ {0}

VARIABLES
  submitted,   \* create calls the provider may still carry out
  claims,      \* the provider's claim of each job, and when it was created
  files,       \* what the receipt directory has of each job
  attempts,    \* table gameworld_fleet_attempts
  runs,        \* worker runs that reached the sandbox
  collected,   \* jobs whose artifact receipt is on disk
  task,        \* what each process is doing for each job (lost in a crash)
  crashes

providerVars == <<submitted, claims, runs>>
diskVars == <<files, attempts, collected>>
fleetVars == <<campaignVars, providerVars, diskVars, task, crashes>>

Steps == {"idle", "execute", "acquire", "find", "reference", "create",
          "await", "owned", "observing", "started", "connect", "attempt", "run",
          "collect", "record", "clean", "release", "cancel", "lookup", "request",
          "stop", "poll", "receipt", "writing", "confirm"}
\* Steps that await the provider, or whose checks may refuse: they may raise
\* without any effect.
Awaits == {"find", "reference", "create", "await", "connect", "run", "collect",
           "record", "lookup", "stop", "poll"}

\* goal: what an exception leads to; adopting: whether the step after assert_owned
\* belongs to acquire; seen: the job's state when it was last read.
Task == [at: Steps, goal: {"work", "terminate"}, adopting: BOOLEAN, seen: JobStates,
         receipt: {0} \union Evidence]
Idle == [at |-> "idle", goal |-> "work", adopting |-> FALSE, seen |-> "absent", receipt |-> 0]

NoFiles == [observed |-> "none", receipt |-> "none", evidence |-> 0]
NoClaim == [state |-> "none", created |-> 0]

FleetInit ==
  /\ JobsInit
  /\ submitted = {}
  /\ claims = [j \in Jobs |-> NoClaim]
  /\ files = [j \in Jobs |-> NoFiles]
  /\ attempts = {} /\ collected = {}
  /\ runs = [j \in Jobs |-> 0]
  /\ task = [w \in Processes |-> [j \in Jobs |-> Idle]]
  /\ crashes = 0

Present(j) == claims[j].state = "present"
At(w, j, step) == task[w][j].at = step
Become(w, j, t) == task' = [task EXCEPT ![w][j] = t]
Go(w, j, step) == Become(w, j, [task[w][j] EXCEPT !.at = step])

\* An exception leaves the dispatch for _cleanup_fleet, and cleanup for the
\* caller, which records the failure and may try again.
Raise(w, j) ==
  Become(w, j, IF task[w][j].goal = "work"
               THEN [Idle EXCEPT !.at = "clean", !.goal = "terminate"] ELSE Idle)

CallFails(w, j) ==
  /\ task[w][j].at \in Awaits
  /\ Raise(w, j)
  /\ UNCHANGED <<campaignVars, providerVars, diskVars, crashes>>

-----------------------------------------------------------------------------
(* Who takes up a job.                                                     *)

RunnerPicks(j) ==
  /\ task["runner"][j] = Idle
  /\ ~stopped /\ ~frozen
  /\ Occupies(jobs[j]) /\ jobs[j].kind \in DesktopKinds
  /\ Become("runner", j, [Idle EXCEPT !.at = "execute"])
  /\ UNCHANGED <<campaignVars, providerVars, diskVars, crashes>>

\* Mutant: work that already awaits its cleanup is not looked at again.
DueUnlessPending(job) ==
  /\ job.state \in {"reserved", "dispatching", "running"}
  /\ frozen \/ stopped \/ now >= CampaignDeadline \/ now >= job.deadline
\* due_jobs
Due(job) ==
  /\ job.state \in ProviderStates
  /\ frozen \/ stopped \/ now >= CampaignDeadline \/ now >= job.deadline

\* tick / clean: acts on the state that due_jobs read.
WatchdogPicks(j) ==
  /\ task["watchdog"][j] = Idle
  /\ Due(jobs[j])
  /\ Become("watchdog", j, [Idle EXCEPT
       !.goal = "terminate",
       !.at = IF jobs[j].state = "reserved" THEN "cancel" ELSE "release"])
  /\ UNCHANGED <<campaignVars, providerVars, diskVars, crashes>>

-----------------------------------------------------------------------------
(* execute and acquire: only the runner.                                   *)

\* Work whose artifacts are already verified on disk needs no sandbox.
Execute(w, j) ==
  /\ At(w, j, "execute")
  /\ Go(w, j, IF j \in collected THEN "record" ELSE "acquire")
  /\ UNCHANGED <<campaignVars, providerVars, diskVars, crashes>>

AcquireReads(w, j) ==
  /\ At(w, j, "acquire")
  /\ Become(w, j, [task[w][j] EXCEPT !.seen = jobs[j].state, !.adopting = TRUE, !.at = "find"])
  /\ UNCHANGED <<campaignVars, providerVars, diskVars, crashes>>

(* preflight and find_claim: a reserved job must find nothing; a           *)
(* dispatched one must find its claim, and never creates again.            *)
AcquireFinds(w, j) ==
  /\ At(w, j, "find")
  /\ \/ task[w][j].seen = "reserved" /\ ~Present(j) /\ Go(w, j, "reference")
     \/ task[w][j].seen \in {"dispatching", "running"} /\ Present(j) /\ Go(w, j, "owned")
  /\ UNCHANGED <<campaignVars, providerVars, diskVars, crashes>>

(* The claim reference (a function of the job alone: only a crash while it *)
(* is written tears it, and then the job stays reserved) and begin_dispatch.*)
Dispatch(w, j) ==
  /\ At(w, j, "reference")
  /\ BeginDispatch(j)
  /\ Go(w, j, "create")
  /\ UNCHANGED <<providerVars, diskVars, crashes>>

\* backend.create_claim: the request leaves; its answer is awaited for 45 seconds.
SendCreate(w, j) ==
  /\ At(w, j, "create")
  /\ submitted' = submitted \union {j}
  /\ Go(w, j, "await")
  /\ UNCHANGED <<campaignVars, claims, runs, diskVars, crashes>>

CreateReturns(w, j) ==
  /\ At(w, j, "await")
  /\ j \notin submitted /\ Present(j)
  /\ Go(w, j, "owned")
  /\ UNCHANGED <<campaignVars, providerVars, diskVars, crashes>>

-----------------------------------------------------------------------------
(* assert_owned: both processes.                                           *)

\* The claim was created in the job's own time.
CreatedInTime(j) == claims[j].created <= jobs[j].deadline
AfterOwned(t) ==
  IF t.adopting
  THEN IF t.seen = "running" THEN "connect" ELSE "started"
  ELSE IF t.seen = "dispatching" THEN "started" ELSE "request"

\* The identity is compared with the one on disk, or written there.
AssertOwned(w, j) ==
  /\ At(w, j, "owned")
  /\ \/ /\ CreatedInTime(j) /\ files[j].observed = "none"
        /\ files' = [files EXCEPT ![j].observed = "torn"]
        /\ Go(w, j, "observing")
     \/ /\ CreatedInTime(j) /\ files[j].observed = "whole"
        /\ Go(w, j, AfterOwned(task[w][j])) /\ UNCHANGED files
     \/ /\ ~CreatedInTime(j) \/ files[j].observed = "torn"
        /\ Raise(w, j) /\ UNCHANGED files
  /\ UNCHANGED <<campaignVars, providerVars, attempts, collected, crashes>>

ObservedWritten(w, j) ==
  /\ At(w, j, "observing")
  /\ files' = [files EXCEPT ![j].observed = "whole"]
  /\ Go(w, j, AfterOwned(task[w][j]))
  /\ UNCHANGED <<campaignVars, providerVars, attempts, collected, crashes>>

\* provider_started, whose provider identity is the claim's name.
Started(w, j) ==
  LET next == IF task[w][j].adopting THEN "connect" ELSE "request"
  IN /\ At(w, j, "started")
     /\ \/ \E p \in Providers : ProviderStarted(j, p) /\ Go(w, j, next)
        \/ /\ ~AwaitsProvider(jobs[j])
           /\ IF jobs[j].state = "running" THEN Go(w, j, next) ELSE Raise(w, j)
           /\ UNCHANGED campaignVars
     /\ UNCHANGED <<providerVars, diskVars, crashes>>

-----------------------------------------------------------------------------
(* The one worker run, its artifacts and the result: only the runner.      *)

Connect(w, j) ==
  /\ At(w, j, "connect")
  /\ Present(j) /\ now < jobs[j].deadline
  /\ Go(w, j, "attempt")
  /\ UNCHANGED <<campaignVars, providerVars, diskVars, crashes>>

\* Mutant: the attempt is not recorded before the worker runs.
AttemptUnrecorded(j) == attempts
AttemptRecorded(j) == attempts \union {j}

\* Mutant: a second dispatch runs the worker again.
RunsAgain(j) == "run"
\* A second dispatch of the job only collects.
RunsOrCollects(j) == IF j \in attempts THEN "collect" ELSE "run"

\* attempt
Attempt(w, j) ==
  /\ At(w, j, "attempt")
  /\ attempts' = AttemptRecorded(j)
  /\ Go(w, j, RunsOrCollects(j))
  /\ UNCHANGED <<campaignVars, providerVars, files, collected, crashes>>

\* The worker runs; its acknowledgement may be lost.
Run(w, j) ==
  /\ At(w, j, "run")
  /\ Present(j)
  /\ runs' = [runs EXCEPT ![j] = @ + 1]
  /\ Go(w, j, "collect") \/ Raise(w, j)
  /\ UNCHANGED <<campaignVars, submitted, claims, diskVars, crashes>>

Collect(w, j) ==
  /\ At(w, j, "collect")
  /\ Present(j) /\ runs[j] > 0
  /\ collected' = collected \union {j}
  /\ Go(w, j, "record")
  /\ UNCHANGED <<campaignVars, providerVars, files, attempts, crashes>>

\* record_result, and finish_provider after it, whose cleanup of the sandbox's
\* files may fail before the release.
Record(w, j) ==
  /\ At(w, j, "record")
  /\ \/ \E result \in Results : RecordResult(j, result)
     \/ jobs[j].result # 0 /\ UNCHANGED campaignVars
  /\ Go(w, j, "release") \/ Raise(w, j)
  /\ UNCHANGED <<providerVars, diskVars, crashes>>

-----------------------------------------------------------------------------
(* _cleanup_fleet and release: both processes.                             *)

CleanReads(w, j) ==
  /\ At(w, j, "clean")
  /\ IF jobs[j].state = "cleaned" THEN Become(w, j, Idle) ELSE Go(w, j, "release")
  /\ UNCHANGED <<campaignVars, providerVars, diskVars, crashes>>

ReleaseReads(w, j) ==
  /\ At(w, j, "release")
  /\ Become(w, j, [task[w][j] EXCEPT
       !.seen = jobs[j].state, !.adopting = FALSE,
       !.at = IF jobs[j].state = "reserved" THEN "cancel" ELSE "lookup"])
  /\ UNCHANGED <<campaignVars, providerVars, diskVars, crashes>>

Cancel(w, j) ==
  /\ At(w, j, "cancel")
  /\ \/ CancelUndispatched(j) /\ Become(w, j, Idle)
     \/ jobs[j].state # "reserved" /\ Raise(w, j) /\ UNCHANGED campaignVars
  /\ UNCHANGED <<providerVars, diskVars, crashes>>

\* Mutant: a missing claim is taken as proof whatever was submitted.
AbsenceAlwaysProves(seen) == TRUE
AbsenceProves(seen) == seen # "dispatching"

(* No claim is proof only for a job whose claim was acknowledged; a claim  *)
(* of a job already cleaned is someone else's and is left alone.           *)
ReleaseLooks(w, j) ==
  /\ At(w, j, "lookup")
  /\ \/ ~Present(j) /\ AbsenceProves(task[w][j].seen) /\ Go(w, j, "poll")
     \/ Present(j) /\ task[w][j].seen # "cleaned" /\ Go(w, j, "owned")
  /\ UNCHANGED <<campaignVars, providerVars, diskVars, crashes>>

\* request_cleanup: the intent to release persists before the call.
RequestsCleanup(w, j) ==
  /\ At(w, j, "request")
  /\ \/ RequestCleanup(j) /\ Go(w, j, "stop")
     \/ /\ jobs[j].state # "running"
        /\ IF jobs[j].state = "dispatching" THEN Raise(w, j) ELSE Go(w, j, "stop")
        /\ UNCHANGED campaignVars
  /\ UNCHANGED <<providerVars, diskVars, crashes>>

Gone(j) == claims' = [claims EXCEPT ![j].state = "gone"]

\* backend.release returns, whether or not the claim is gone already.
Stops(w, j) ==
  /\ At(w, j, "stop")
  /\ Gone(j) \/ UNCHANGED claims
  /\ Go(w, j, "poll") \/ Raise(w, j)
  /\ UNCHANGED <<campaignVars, submitted, runs, diskVars, crashes>>

Polls(w, j) ==
  /\ At(w, j, "poll")
  /\ ~Present(j)
  /\ Go(w, j, "receipt")
  /\ UNCHANGED <<campaignVars, providerVars, diskVars, crashes>>

\* Mutant: a release presents the receipt it made, not the one on disk.
OwnEvidence(j, e) == e
EvidenceOnDisk(j, e) == files[j].evidence

(* A receipt on disk is the one to present; otherwise a new one is written *)
(* (each carries its own time of checking, so no two are equal).  A reader *)
(* of half a receipt raises, as does a second writer.                      *)
ReceiptFound(w, j) ==
  /\ At(w, j, "receipt")
  /\ files[j].receipt = "whole"
  /\ \E e \in Evidence \ {files[j].evidence} :
       Become(w, j, [task[w][j] EXCEPT !.receipt = EvidenceOnDisk(j, e), !.at = "confirm"])
  /\ UNCHANGED <<campaignVars, providerVars, diskVars, crashes>>

ReceiptOpened(w, j) ==
  /\ At(w, j, "receipt")
  /\ files[j].receipt = "none"
  /\ files' = [files EXCEPT ![j].receipt = "torn"]
  /\ \E e \in Evidence : Become(w, j, [task[w][j] EXCEPT !.receipt = e, !.at = "writing"])
  /\ UNCHANGED <<campaignVars, providerVars, attempts, collected, crashes>>

ReceiptTorn(w, j) ==
  /\ At(w, j, "receipt")
  /\ files[j].receipt = "torn"
  /\ Raise(w, j)
  /\ UNCHANGED <<campaignVars, providerVars, diskVars, crashes>>

ReceiptWritten(w, j) ==
  /\ At(w, j, "writing")
  /\ files' = [files EXCEPT ![j].receipt = "whole", ![j].evidence = task[w][j].receipt]
  /\ Go(w, j, "confirm")
  /\ UNCHANGED <<campaignVars, providerVars, attempts, collected, crashes>>

\* A second confirmation must present the receipt of the first.
Confirms(w, j) ==
  /\ At(w, j, "confirm")
  /\ \/ ProviderCleanupConfirmed(j, task[w][j].receipt) /\ Become(w, j, Idle)
     \/ /\ jobs[j].state \notin {"running", "cleanup_pending"}
        /\ IF /\ jobs[j].state = "cleaned"
              /\ jobs[j].providerCleanup = Presented(task[w][j].receipt)
           THEN Become(w, j, Idle) ELSE Raise(w, j)
        /\ UNCHANGED campaignVars
  /\ UNCHANGED <<providerVars, diskVars, crashes>>

-----------------------------------------------------------------------------
(* The provider, and what else happens.                                    *)

ProviderCreates(j) ==
  /\ j \in submitted /\ ~Present(j)
  /\ submitted' = submitted \ {j}
  /\ claims' = [claims EXCEPT ![j] = [state |-> "present", created |-> now]]
  /\ UNCHANGED <<campaignVars, runs, diskVars, task, crashes>>

CreateLost(j) ==
  /\ j \in submitted
  /\ submitted' = submitted \ {j}
  /\ UNCHANGED <<campaignVars, claims, runs, diskVars, task, crashes>>

\* The claim's TTL runs out, or a deletion that was asked for is carried out.
ClaimEnds(j) ==
  /\ Present(j)
  /\ Gone(j)
  /\ UNCHANGED <<campaignVars, submitted, runs, diskVars, task, crashes>>

Crash(w) ==
  /\ crashes < MaxCrashes
  /\ crashes' = crashes + 1
  /\ task' = [task EXCEPT ![w] = [j \in Jobs |-> Idle]]
  /\ UNCHANGED <<campaignVars, providerVars, diskVars>>

Campaign ==
  /\ \/ \E j \in Jobs, kind \in CampaignKinds \intersect DesktopKinds, timeout \in Timeouts :
          AdmitJob(j, kind, 0, timeout)
     \/ Stop
     \/ Tick /\ UNCHANGED jobVars
  /\ UNCHANGED <<providerVars, diskVars, task, crashes>>

RunnerStep(j) ==
  LET w == "runner"
  IN \/ RunnerPicks(j) \/ Execute(w, j) \/ AcquireReads(w, j) \/ AcquireFinds(w, j)
     \/ Dispatch(w, j) \/ SendCreate(w, j) \/ CreateReturns(w, j) \/ Connect(w, j)
     \/ Attempt(w, j) \/ Run(w, j) \/ Collect(w, j) \/ Record(w, j) \/ CleanReads(w, j)

Release(w, j) ==
  \/ AssertOwned(w, j) \/ ObservedWritten(w, j) \/ Started(w, j) \/ ReleaseReads(w, j)
  \/ Cancel(w, j) \/ ReleaseLooks(w, j) \/ RequestsCleanup(w, j) \/ Stops(w, j)
  \/ Polls(w, j) \/ ReceiptFound(w, j) \/ ReceiptOpened(w, j) \/ ReceiptTorn(w, j)
  \/ ReceiptWritten(w, j) \/ Confirms(w, j)

FleetNext ==
  \/ Campaign
  \/ \E j \in Jobs : RunnerStep(j) \/ WatchdogPicks(j)
  \/ \E w \in Processes, j \in Jobs : Release(w, j) \/ CallFails(w, j)
  \/ \E j \in Jobs : ProviderCreates(j) \/ CreateLost(j) \/ ClaimEnds(j)
  \/ \E w \in Processes : Crash(w)

FleetSpec == FleetInit /\ [][FleetNext]_fleetVars

-----------------------------------------------------------------------------
(* Fairness.  A process that lives finishes the step it is in: every call  *)
(* has a timeout, and so returns or fails.  The watchdog ticks every 15    *)
(* seconds, and a call it repeats for ever succeeds in the end; crashes    *)
(* are at most MaxCrashes.  Nothing obliges the runner to take up a job.   *)

Continues(w, j) ==
  \/ AssertOwned(w, j) \/ ObservedWritten(w, j) \/ Started(w, j)
  \/ ReleaseReads(w, j) \/ Cancel(w, j) \/ RequestsCleanup(w, j)
  \/ ReceiptFound(w, j) \/ ReceiptOpened(w, j) \/ ReceiptTorn(w, j)
  \/ ReceiptWritten(w, j) \/ Confirms(w, j) \/ CallFails(w, j)

StopSucceeds(w, j) ==
  /\ Stops(w, j)
  /\ claims'[j].state = "gone" /\ task'[w][j].at = "poll"

ReleaseFairness ==
  \A j \in Jobs :
    /\ \A w \in Processes : WF_fleetVars(Continues(w, j))
    /\ WF_fleetVars(WatchdogPicks(j))
    /\ SF_fleetVars(ReleaseLooks("watchdog", j))
    /\ SF_fleetVars(StopSucceeds("watchdog", j))
    /\ SF_fleetVars(Polls("watchdog", j))

FleetFairSpec == FleetSpec /\ ReleaseFairness

-----------------------------------------------------------------------------
(* Properties.                                                             *)

\* Rows and files are well formed: a file is written as a whole or torn, only a
\* worker that ran leaves artifacts, and only an attempt runs.
FleetTypeOK ==
  /\ submitted \subseteq Jobs
  /\ claims \in [Jobs -> [state: {"none", "present", "gone"}, created: 0..MaxTime]]
  /\ files \in [Jobs -> [observed: {"none", "torn", "whole"},
                         receipt: {"none", "torn", "whole"}, evidence: {0} \union Evidence]]
  /\ attempts \subseteq Jobs /\ collected \subseteq attempts
  /\ runs \in [Jobs -> Nat] /\ crashes \in 0..MaxCrashes
  /\ task \in [Processes -> [Jobs -> Task]]
  /\ \A j \in Jobs :
       /\ files[j].receipt = "whole" <=> files[j].evidence # 0
       /\ runs[j] > 0 => j \in attempts

\* A cleanup receipt, and a closed job, are proof: the job's claim is gone and
\* no create that was sent can still make one (fleet_provider.py: a missing
\* claim is not proof that an ambiguous create never completed).
ClaimProvedGone ==
  \A j \in Jobs : (jobs[j].state = "cleaned" \/ files[j].receipt # "none")
    => j \notin submitted /\ ~Present(j)

\* Whichever of two releases confirms a job's cleanup, and whatever crashed in
\* between, the evidence the controller keeps is the receipt on disk.
ReceiptIsTheFile ==
  \A j \in Jobs : jobs[j].state = "cleaned" /\ jobs[j].provider # 0 =>
    files[j].receipt = "whole" /\ jobs[j].providerCleanup = Presented(files[j].evidence)

\* The worker of a desktop job runs at most once, though its acknowledgement
\* may be lost and the job dispatched again after a crash.
FleetWorkerOnce == \A j \in Jobs : runs[j] <= 1

\* To its caller the adapter is a provider that is asked for work once and does
\* it once (ProviderWork): a claim appears once and only for a dispatched job,
\* the worker runs in it, a result is that worker's, and a closed job's claim is
\* gone, although nobody can tell a late create from one that was lost.
ClaimPhase(j) ==
  IF Present(j) THEN "live"
  ELSE IF claims[j].state = "gone" THEN "gone"
  ELSE IF jobs[j].state = "dispatching" THEN "asked" ELSE "never"
Provision == INSTANCE ProviderWork WITH
  phase <- [j \in Jobs |-> ClaimPhase(j)],
  ran <- [j \in Jobs |-> runs[j]],
  reported <- {j \in Jobs : jobs[j].result # 0},
  closed <- {j \in Jobs : jobs[j].state = "cleaned"}
KeepsProvision == Provision!Spec

\* A file that nobody is writing and that never became whole: every later
\* reader of it fails.
Torn(j) ==
  \/ files[j].observed = "torn" /\ \A w \in Processes : ~At(w, j, "observing")
  \/ files[j].receipt = "torn" /\ \A w \in Processes : ~At(w, j, "writing")

\* Work that is due and that the provider acknowledged is released and its slot
\* freed, by the watchdog alone, whatever the runner does meanwhile; the one
\* exception is a crash inside exclusive_write.
AcknowledgedClaimsAreReleased ==
  \A j \in Jobs :
    (Due(jobs[j]) /\ jobs[j].state \in {"reserved", "running", "cleanup_pending"})
      ~> (jobs[j].state = "cleaned" \/ Torn(j))
=============================================================================
