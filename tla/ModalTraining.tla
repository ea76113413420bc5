---------------------------- MODULE ModalTraining ----------------------------
(***************************************************************************)
(* The provider side of a training job: ModalTrainingLifecycle             *)
(* (fps_bench/modal_training.py) as two processes drive it.  The runner    *)
(* (gameworld_runner.dispatch_training) prepares, starts, stages, runs and *)
(* exports, and terminates in its finally block; the watchdog              *)
(* (campaign_watchdog.py) terminates work that is due.  They share the     *)
(* database and the provider and no lock, so every transaction and every   *)
(* awaited provider call is a step of its own, between which the other     *)
(* process runs, a call fails, or the process crashes.                     *)
(***************************************************************************)
EXTENDS CampaignJobs

CONSTANT MaxCrashes    \* bound: process crashes in one behaviour

Processes == {"runner", "watchdog"}

ASSUME TrainingAssumption ==
  /\ MaxCrashes \in Nat
  /\ "training" \in CampaignKinds
  /\ Evidence \subseteq Nat \ {0}

VARIABLES
  launches,    \* table modal_training_launches
  work,        \* tables modal_training_transfers and modal_training_attempts
  task,        \* what each process is doing for each job (lost in a crash)
  creating,    \* create calls the provider may still carry out
  sandboxes,   \* the provider's sandboxes; a name belongs to one job
  execs,       \* worker executions the provider carried out
  crashes

trainingVars == <<launches, work, task, creating, sandboxes, execs, crashes>>
modalVars == <<campaignVars, trainingVars>>
providerVars == <<creating, sandboxes, execs>>

Steps == {"idle", "prepare", "start", "look", "inspect", "dispatch", "create", "await",
          "ack", "store", "started", "stage", "upload", "worker", "exec", "export", "record",
          "clean", "cancel", "term", "lookup", "request", "stop", "receipt", "confirm"}
\* Steps that await the provider, or whose checks may refuse: they may raise without
\* any effect.
Awaits == {"prepare", "look", "inspect", "dispatch", "create", "await", "stage", "upload",
           "worker", "exec", "export", "lookup", "stop", "receipt"}

\* seen: the job's state when it was last read; observed: the sandbox in hand.
Task == [at: Steps, goal: {"work", "terminate"}, seen: JobStates,
         observed: {0} \union Providers, receipt: {0} \union Evidence]
Idle == [at |-> "idle", goal |-> "work", seen |-> "absent", observed |-> 0, receipt |-> 0]

NoLaunch == [prepared |-> FALSE, sandbox |-> 0, receipt |-> 0]
NoWork == [transfer |-> "none", attempted |-> FALSE, exported |-> FALSE]

ModalInit ==
  /\ JobsInit
  /\ launches = [j \in Jobs |-> NoLaunch]
  /\ work = [j \in Jobs |-> NoWork]
  /\ task = [w \in Processes |-> [j \in Jobs |-> Idle]]
  /\ creating = {}
  /\ sandboxes = [p \in Providers |-> [job |-> 0, state |-> "none"]]
  /\ execs = [j \in Jobs |-> 0]
  /\ crashes = 0

Running(p) == sandboxes[p].state = "running"
\* backend.lookup: a sandbox is found by its name while it runs.
Named(j) == {p \in Providers : sandboxes[p].job = j /\ Running(p)}

At(w, j, step) == task[w][j].at = step
Become(w, j, t) == task' = [task EXCEPT ![w][j] = t]
Go(w, j, step) == Become(w, j, [task[w][j] EXCEPT !.at = step])

\* Mutant: a create that timed out is sent again.
AfterFailureResend(t) ==
  IF t.at = "await" THEN [t EXCEPT !.at = "create"]
  ELSE IF t.goal = "work" THEN [t EXCEPT !.at = "clean", !.goal = "terminate"] ELSE Idle
\* An exception leaves the dispatch for its finally block, and cleanup for the
\* caller, which records the failure and may try again.
AfterFailure(t) ==
  IF t.goal = "work" THEN [t EXCEPT !.at = "clean", !.goal = "terminate"] ELSE Idle
Raise(w, j) == Become(w, j, AfterFailure(task[w][j]))

CallFails(w, j) ==
  /\ task[w][j].at \in Awaits
  /\ Raise(w, j)
  /\ UNCHANGED <<campaignVars, launches, work, providerVars, crashes>>

-----------------------------------------------------------------------------
(* Who takes up a job.                                                     *)

\* run_once: rows that are runnable, unless admission was blocked when it looked.
RunnerPicks(j) ==
  /\ task["runner"][j] = Idle
  /\ ~stopped /\ ~frozen
  /\ Occupies(jobs[j]) /\ jobs[j].kind = "training"
  /\ Become("runner", j, [Idle EXCEPT !.at = "prepare"])
  /\ UNCHANGED <<campaignVars, launches, work, providerVars, crashes>>

\* Mutant: work that already awaits its cleanup is not looked at again.
DueUnlessPending(job) ==
  /\ job.state \in {"reserved", "dispatching", "running"}
  /\ frozen \/ stopped \/ now >= CampaignDeadline \/ now >= job.deadline
\* due_jobs
Due(job) ==
  /\ job.state \in ProviderStates
  /\ frozen \/ stopped \/ now >= CampaignDeadline \/ now >= job.deadline

\* tick / clean: acts on the state that due_jobs read.
WatchdogPicks(j) ==
  /\ task["watchdog"][j] = Idle
  /\ Due(jobs[j])
  /\ Become("watchdog", j, [Idle EXCEPT
       !.goal = "terminate",
       !.at = IF jobs[j].state = "reserved" THEN "cancel" ELSE "term"])
  /\ UNCHANGED <<campaignVars, launches, work, providerVars, crashes>>

-----------------------------------------------------------------------------
(* prepare and start: only the runner.                                     *)

Prepare(w, j) ==
  /\ At(w, j, "prepare")
  /\ AdmissionOpen
  /\ launches[j].prepared \/ jobs[j].state = "reserved"
  /\ launches' = [launches EXCEPT ![j].prepared = TRUE]
  /\ Go(w, j, "start")
  /\ UNCHANGED <<campaignVars, work, providerVars, crashes>>

StartReads(w, j) ==
  /\ At(w, j, "start")
  /\ IF jobs[j].state \in {"reserved", "dispatching", "running"}
     THEN Become(w, j, [task[w][j] EXCEPT
            !.seen = jobs[j].state, !.observed = launches[j].sandbox,
            !.at = IF launches[j].sandbox = 0 THEN "look" ELSE "inspect"])
     ELSE Raise(w, j)
  /\ UNCHANGED <<campaignVars, launches, work, providerVars, crashes>>

(* A reserved job must find nothing and is dispatched; a dispatched one    *)
(* must find its sandbox, and is never created again.                      *)
StartLooks(w, j) ==
  /\ At(w, j, "look")
  /\ \/ task[w][j].seen = "reserved" /\ Named(j) = {} /\ Go(w, j, "dispatch")
     \/ /\ task[w][j].seen # "reserved"
        /\ \E p \in Named(j) : Become(w, j, [task[w][j] EXCEPT !.observed = p, !.at = "ack"])
     \/ /\ (task[w][j].seen = "reserved") # (Named(j) = {})
        /\ Raise(w, j)
  /\ UNCHANGED <<campaignVars, launches, work, providerVars, crashes>>

StartInspects(w, j) ==
  /\ At(w, j, "inspect")
  /\ Go(w, j, "ack")
  /\ UNCHANGED <<campaignVars, launches, work, providerVars, crashes>>

Dispatch(w, j) ==
  /\ At(w, j, "dispatch")
  /\ BeginDispatch(j)
  /\ Go(w, j, "create")
  /\ UNCHANGED <<launches, work, providerVars, crashes>>

\* backend.create: the request leaves; its answer is awaited for 120 seconds.
SendCreate(w, j) ==
  /\ At(w, j, "create")
  /\ creating' = creating \union {j}
  /\ Go(w, j, "await")
  /\ UNCHANGED <<campaignVars, launches, work, sandboxes, execs, crashes>>

CreateReturns(w, j) ==
  /\ At(w, j, "await")
  /\ \E p \in Providers :
       /\ sandboxes[p].job = j
       /\ Become(w, j, [task[w][j] EXCEPT !.observed = p, !.at = "ack"])
  /\ UNCHANGED <<campaignVars, launches, work, providerVars, crashes>>

-----------------------------------------------------------------------------
(* acknowledge: read, then record the sandbox, then start the job.  The    *)
(* last two are separate transactions.                                     *)

SameSandbox(w, j) == launches[j].sandbox \in {0, task[w][j].observed}
Acknowledged(t) == IF t.goal = "work" THEN "stage" ELSE "request"

AckReads(w, j) ==
  /\ At(w, j, "ack")
  /\ IF SameSandbox(w, j)
     THEN Become(w, j, [task[w][j] EXCEPT !.seen = jobs[j].state, !.at = "store"])
     ELSE Raise(w, j)
  /\ UNCHANGED <<campaignVars, launches, work, providerVars, crashes>>

\* Mutant: the sandbox is journalled and the job is not started.
AfterStoreUnstarted(t) == Acknowledged(t)
AfterStore(t) == IF t.seen = "dispatching" THEN "started" ELSE Acknowledged(t)

\* Mutant: the acknowledgement starts the job and is not journalled.
Unjournalled(launch, p) == launch
Journalled(launch, p) == [launch EXCEPT !.sandbox = p]

AckStores(w, j) ==
  /\ At(w, j, "store")
  /\ IF SameSandbox(w, j)
     THEN /\ launches' = [launches EXCEPT ![j] = Journalled(launches[j], task[w][j].observed)]
          /\ Go(w, j, AfterStore(task[w][j]))
     ELSE UNCHANGED launches /\ Raise(w, j)
  /\ UNCHANGED <<campaignVars, work, providerVars, crashes>>

AckStarts(w, j) ==
  /\ At(w, j, "started")
  /\ \/ /\ ProviderStarted(j, task[w][j].observed)
        /\ Go(w, j, Acknowledged(task[w][j]))
     \/ /\ jobs[j].state # "dispatching"
        /\ IF jobs[j].state = "running" /\ jobs[j].provider = task[w][j].observed
           THEN Go(w, j, Acknowledged(task[w][j])) ELSE Raise(w, j)
        /\ UNCHANGED campaignVars
  /\ UNCHANGED <<launches, work, providerVars, crashes>>

-----------------------------------------------------------------------------
(* Staging, the one worker execution, the export and the result            *)
(* (GameWorldTrainingArtifacts, run_worker): only the runner.              *)

StageClaims(w, j) ==
  /\ At(w, j, "stage")
  /\ \/ work[j].transfer = "staged" /\ Go(w, j, "upload") /\ UNCHANGED work
     \/ /\ work[j].transfer = "none" /\ AdmissionOpen
        /\ jobs[j].state = "running" /\ ~work[j].attempted
        /\ work' = [work EXCEPT ![j].transfer = "uploading"]
        /\ Go(w, j, "upload")
  /\ UNCHANGED <<campaignVars, launches, providerVars, crashes>>

\* The upload is read back (reconcile_stage) before it counts.
Upload(w, j) ==
  /\ At(w, j, "upload")
  /\ Running(launches[j].sandbox)
  /\ IF jobs[j].state = "running"
     THEN /\ work' = [work EXCEPT ![j].transfer = "staged"]
          /\ Go(w, j, IF work[j].attempted THEN "export" ELSE "worker")
     ELSE UNCHANGED work /\ Raise(w, j)
  /\ UNCHANGED <<campaignVars, launches, providerVars, crashes>>

\* Mutant: the attempt is not recorded before the exec call.
AttemptUnrecorded(row) == row
AttemptRecorded(row) == [row EXCEPT !.attempted = TRUE]

WorkerClaims(w, j) ==
  /\ At(w, j, "worker")
  /\ AdmissionOpen /\ jobs[j].state = "running"
  /\ work[j].transfer = "staged" /\ ~work[j].attempted
  /\ work' = [work EXCEPT ![j] = AttemptRecorded(work[j])]
  /\ Go(w, j, "exec")
  /\ UNCHANGED <<campaignVars, launches, providerVars, crashes>>

\* The worker runs; its acknowledgement may be lost.
Execute(w, j) ==
  /\ At(w, j, "exec")
  /\ Running(launches[j].sandbox)
  /\ execs' = [execs EXCEPT ![j] = @ + 1]
  /\ Go(w, j, "export") \/ Raise(w, j)
  /\ UNCHANGED <<campaignVars, launches, work, creating, sandboxes, crashes>>

Export(w, j) ==
  /\ At(w, j, "export")
  /\ \/ work[j].exported /\ UNCHANGED work
     \/ /\ jobs[j].state \in {"running", "cleanup_pending"}
        /\ Running(launches[j].sandbox) /\ execs[j] > 0
        /\ work' = [work EXCEPT ![j].exported = TRUE]
  /\ Go(w, j, "record")
  /\ UNCHANGED <<campaignVars, launches, providerVars, crashes>>

\* reconcile_export, and the finally block after it.
Record(w, j) ==
  /\ At(w, j, "record")
  /\ \/ \E result \in Results : RecordResult(j, result)
     \/ /\ jobs[j].result # 0 \/ jobs[j].state # "running"
        /\ UNCHANGED campaignVars
  /\ Raise(w, j)
  /\ UNCHANGED <<launches, work, providerVars, crashes>>

-----------------------------------------------------------------------------
(* cleanup_training and terminate: both processes.                         *)

CleanReads(w, j) ==
  /\ At(w, j, "clean")
  /\ IF ~Occupies(jobs[j]) THEN Become(w, j, Idle)
     ELSE Go(w, j, IF jobs[j].state = "reserved" THEN "cancel" ELSE "term")
  /\ UNCHANGED <<campaignVars, launches, work, providerVars, crashes>>

Cancel(w, j) ==
  /\ At(w, j, "cancel")
  /\ \/ CancelUndispatched(j)
     \/ jobs[j].state # "reserved" /\ UNCHANGED campaignVars
  /\ Become(w, j, Idle)
  /\ UNCHANGED <<launches, work, providerVars, crashes>>

TerminateReads(w, j) ==
  /\ At(w, j, "term")
  /\ IF ~launches[j].prepared THEN Raise(w, j)
     ELSE IF launches[j].receipt # 0
     THEN Become(w, j, [task[w][j] EXCEPT !.receipt = launches[j].receipt, !.at = "confirm"])
     ELSE IF launches[j].sandbox # 0
     THEN Become(w, j, [task[w][j] EXCEPT !.observed = launches[j].sandbox, !.at = "request"])
     ELSE IF jobs[j].state = "reserved" THEN Raise(w, j) ELSE Go(w, j, "lookup")
  /\ UNCHANGED <<campaignVars, launches, work, providerVars, crashes>>

\* Absence of the sandbox is no proof that it was not, or will not be, created.
TerminateLooks(w, j) ==
  /\ At(w, j, "lookup")
  /\ \E p \in Named(j) : Become(w, j, [task[w][j] EXCEPT !.observed = p, !.at = "ack"])
  /\ UNCHANGED <<campaignVars, launches, work, providerVars, crashes>>

\* request_cleanup: the intent to terminate persists before the call.
TerminateRequests(w, j) ==
  /\ At(w, j, "request")
  /\ \/ RequestCleanup(j) /\ Go(w, j, "stop")
     \/ /\ jobs[j].state \in {"cleanup_pending", "billing_pending", "cleaned"}
        /\ Go(w, j, "stop") /\ UNCHANGED campaignVars
     \/ jobs[j].state \in {"reserved", "dispatching"} /\ Raise(w, j) /\ UNCHANGED campaignVars
  /\ UNCHANGED <<launches, work, providerVars, crashes>>

Ended(p) == sandboxes' = [sandboxes EXCEPT ![p].state = "ended"]

\* backend.terminate returns, whether or not the sandbox has ended.
TerminateStops(w, j) ==
  /\ At(w, j, "stop")
  /\ Ended(task[w][j].observed) \/ UNCHANGED sandboxes
  /\ Go(w, j, "receipt") \/ Raise(w, j)
  /\ UNCHANGED <<campaignVars, launches, work, creating, execs, crashes>>

\* Mutant: the receipt is written without the provider's exit code.
TerminationAssumed(p) == TRUE
\* The last inspect: an exit code is required.
TerminationConfirmed(p) == sandboxes[p].state = "ended"

\* Every receipt carries its own time of checking, so no two are equal.
TerminateRecords(w, j) ==
  /\ At(w, j, "receipt")
  /\ TerminationConfirmed(task[w][j].observed)
  /\ \E e \in Evidence \ {launches[j].receipt} :
       /\ launches' = [launches EXCEPT ![j].receipt = e]
       /\ Become(w, j, [task[w][j] EXCEPT !.receipt = e, !.at = "confirm"])
  /\ UNCHANGED <<campaignVars, work, providerVars, crashes>>

TerminateConfirms(w, j) ==
  /\ At(w, j, "confirm")
  /\ \/ ProviderCleanupConfirmed(j, task[w][j].receipt)
     \/ ~Occupies(jobs[j]) /\ UNCHANGED campaignVars
  /\ Become(w, j, Idle)
  /\ UNCHANGED <<launches, work, providerVars, crashes>>

-----------------------------------------------------------------------------
(* The provider, and what else happens.                                    *)

ProviderCreates(j, p) ==
  /\ j \in creating /\ sandboxes[p].state = "none"
  /\ creating' = creating \ {j}
  /\ sandboxes' = [sandboxes EXCEPT ![p] = [job |-> j, state |-> "running"]]
  /\ UNCHANGED <<campaignVars, launches, work, task, execs, crashes>>

CreateLost(j) ==
  /\ j \in creating
  /\ creating' = creating \ {j}
  /\ UNCHANGED <<campaignVars, launches, work, task, sandboxes, execs, crashes>>

\* The provider's own timeout, or the sandbox's main process exits.
SandboxEnds(p) ==
  /\ Running(p)
  /\ Ended(p)
  /\ UNCHANGED <<campaignVars, launches, work, task, creating, execs, crashes>>

Crash(w) ==
  /\ crashes < MaxCrashes
  /\ crashes' = crashes + 1
  /\ task' = [task EXCEPT ![w] = [j \in Jobs |-> Idle]]
  /\ UNCHANGED <<campaignVars, launches, work, providerVars>>

Campaign ==
  /\ \/ \E j \in Jobs, amount \in Amounts, timeout \in Timeouts :
          AdmitJob(j, "training", amount, timeout)
     \/ Stop
     \/ Tick /\ UNCHANGED jobVars
  /\ UNCHANGED trainingVars

RunnerStep(j) ==
  LET w == "runner"
  IN \/ RunnerPicks(j) \/ Prepare(w, j) \/ StartReads(w, j) \/ StartLooks(w, j)
     \/ StartInspects(w, j) \/ Dispatch(w, j) \/ SendCreate(w, j) \/ CreateReturns(w, j)
     \/ StageClaims(w, j) \/ Upload(w, j) \/ WorkerClaims(w, j) \/ Execute(w, j)
     \/ Export(w, j) \/ Record(w, j) \/ CleanReads(w, j)

Cleanup(w, j) ==
  \/ AckReads(w, j) \/ AckStores(w, j) \/ AckStarts(w, j)
  \/ Cancel(w, j) \/ TerminateReads(w, j) \/ TerminateLooks(w, j) \/ TerminateRequests(w, j)
  \/ TerminateStops(w, j) \/ TerminateRecords(w, j) \/ TerminateConfirms(w, j)

ModalNext ==
  \/ Campaign
  \/ \E j \in Jobs : RunnerStep(j) \/ WatchdogPicks(j)
  \/ \E w \in Processes, j \in Jobs : Cleanup(w, j) \/ CallFails(w, j)
  \/ \E j \in Jobs : CreateLost(j) \/ \E p \in Providers : ProviderCreates(j, p)
  \/ \E p \in Providers : SandboxEnds(p)
  \/ \E w \in Processes : Crash(w)

ModalSpec == ModalInit /\ [][ModalNext]_modalVars

-----------------------------------------------------------------------------
(* Fairness.  A process that lives finishes the step it is in: every call  *)
(* has a timeout, and so returns or fails.  The watchdog ticks every 15    *)
(* seconds, and a call it repeats for ever succeeds in the end; crashes    *)
(* are at most MaxCrashes.  Nothing obliges the runner to take up a job:   *)
(* it never does again once the campaign is stopped or frozen.             *)

Continues(w, j) ==
  \/ Cancel(w, j) \/ TerminateReads(w, j) \/ TerminateRequests(w, j)
  \/ AckReads(w, j) \/ AckStores(w, j) \/ AckStarts(w, j) \/ TerminateConfirms(w, j)
  \/ CallFails(w, j)

StopSucceeds(w, j) ==
  /\ TerminateStops(w, j)
  /\ sandboxes'[task[w][j].observed].state = "ended" /\ task'[w][j].at = "receipt"

TerminationFairness ==
  \A j \in Jobs :
    /\ \A w \in Processes : WF_modalVars(Continues(w, j))
    /\ WF_modalVars(WatchdogPicks(j))
    /\ SF_modalVars(TerminateLooks("watchdog", j))
    /\ SF_modalVars(StopSucceeds("watchdog", j))
    /\ SF_modalVars(TerminateRecords("watchdog", j))

ModalFairSpec == ModalSpec /\ TerminationFairness

-----------------------------------------------------------------------------
(* Properties.                                                             *)

\* Rows are well formed: a receipt belongs to a recorded sandbox, the worker
\* is attempted on verified inputs, and only an attempt is exported.
ModalTypeOK ==
  /\ launches \in [Jobs -> [prepared: BOOLEAN, sandbox: {0} \union Providers,
                            receipt: {0} \union Evidence]]
  /\ work \in [Jobs -> [transfer: {"none", "uploading", "staged"}, attempted: BOOLEAN,
                         exported: BOOLEAN]]
  /\ task \in [Processes -> [Jobs -> Task]]
  /\ creating \subseteq Jobs
  /\ sandboxes \in [Providers -> [job: {0} \union Jobs, state: {"none", "running", "ended"}]]
  /\ execs \in [Jobs -> Nat] /\ crashes \in 0..MaxCrashes
  /\ \A j \in Jobs :
       /\ launches[j].receipt # 0 => launches[j].sandbox # 0
       /\ work[j].attempted => work[j].transfer = "staged"
       /\ work[j].exported => work[j].attempted

Owned(j) == {p \in Providers : sandboxes[p].job = j}

\* However its submission fails, times out, is acknowledged twice or is taken
\* up again after a crash, a job never pays for two sandboxes: those that
\* exist and those the provider may still create are at most one.
OneSandbox ==
  \A j \in Jobs : Cardinality(Owned(j)) + (IF j \in creating THEN 1 ELSE 0) <= 1

\* A confirmed provider cleanup, and a refund, are proof: nothing of the job
\* runs, and nothing that was sent can still start, at the provider.
CleanupIsProof ==
  \A j \in Jobs : jobs[j].state \in {"billing_pending", "cleaned"} =>
    j \notin creating /\ \A p \in Owned(j) : sandboxes[p].state = "ended"

\* The training worker runs at most once per job, though its acknowledgement
\* may be lost and the dispatch repeated after a crash.
WorkerOnce == \A j \in Jobs : execs[j] <= 1

\* Launch, job and provider speak of one sandbox, and a receipt of an ended one.
JournalsMatch ==
  \A j \in Jobs :
    /\ jobs[j].state \in {"running", "cleanup_pending", "billing_pending"} =>
         /\ launches[j].sandbox # 0 /\ launches[j].sandbox = jobs[j].provider
         /\ sandboxes[launches[j].sandbox].job = j
    /\ launches[j].receipt # 0 => sandboxes[launches[j].sandbox].state = "ended"

\* The two transactions of an acknowledgement come apart only in a crash: in
\* every race and failure of the two processes, a sandbox in the journal is a
\* started job's, or a living process is just starting the job.
AcknowledgedUnlessCrashed ==
  crashes = 0 => \A j \in Jobs :
    launches[j].sandbox # 0 /\ jobs[j].state = "dispatching" =>
      \E w \in Processes : At(w, j, "started")

\* The launch journal, the job and the provider name the same sandbox once the
\* job is acknowledged, whichever process recorded it; a termination receipt is
\* never written for a sandbox that still runs; and only a crash leaves an
\* acknowledgement half done.
JournalsAgree ==
  /\ JournalsMatch
  /\ AcknowledgedUnlessCrashed

\* To its caller the adapter is a provider that is asked for work once and does
\* it once (ProviderWork), whatever its two processes, lost answers and crashes
\* do: a sandbox appears once and only for a dispatched job, the worker runs in
\* it, a result is that worker's, and a closed job's sandbox is gone.
SandboxPhase(j) ==
  IF Named(j) # {} THEN "live"
  ELSE IF Owned(j) # {} THEN "gone"
  ELSE IF jobs[j].state = "dispatching" THEN "asked" ELSE "never"
Provision == INSTANCE ProviderWork WITH
  phase <- [j \in Jobs |-> SandboxPhase(j)],
  ran <- [j \in Jobs |-> execs[j]],
  reported <- {j \in Jobs : jobs[j].result # 0},
  closed <- {j \in Jobs : jobs[j].state \in {"billing_pending", "cleaned"}}
KeepsProvision == Provision!Spec

\* Work that is due and that the provider acknowledged is terminated and its
\* slot freed, by the watchdog alone, whatever the runner does meanwhile.
AcknowledgedWorkIsCleaned ==
  \A j \in Jobs :
    (Due(jobs[j]) /\ jobs[j].state \in {"reserved", "running", "cleanup_pending"})
      ~> jobs[j].state \in {"billing_pending", "cleaned"}

\* docs/CAMPAIGN_WATCHDOG.md: the watchdog "terminates expired/stopped provider
\* work", also "after a controller crash", from "persisted sandbox identity".
\* The code breaks this when the crash falls between acknowledge's two
\* transactions.
RecordedSandboxIsCleaned ==
  \A j \in Jobs :
    (Due(jobs[j]) /\ launches[j].sandbox # 0) ~> jobs[j].state \in {"billing_pending", "cleaned"}
=============================================================================
