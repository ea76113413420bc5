------------------------ MODULE ModalTrainingProofs -------------------------
(***************************************************************************)
(* Proofs about ModalTraining, for every number of jobs, sandboxes and     *)
(* crashes: that the two processes drive the controller only through its   *)
(* own operations, and what they may rely on between two steps.            *)
(***************************************************************************)
EXTENDS ModalTraining, CampaignJobsProofs

(* The steps only the runner takes, those that hold the sandbox they found *)
(* or were given, and those that follow the journalling of the sandbox.    *)
RunnerSteps == {"prepare", "start", "look", "inspect", "dispatch", "create", "await",
                "stage", "upload", "worker", "exec", "export", "record", "clean"}
HoldingSteps == {"inspect", "ack", "store", "started", "request", "stop", "receipt"}
JournalledSteps == {"started", "request", "stop", "receipt", "confirm"}

(* What a process at work on a job may rely on.                            *)
FitTask(w, j, t) ==
  /\ w = "watchdog" => t.at \notin RunnerSteps /\ (t.at # "idle" => t.goal = "terminate")
  /\ t.at = "create" => jobs[j].state = "dispatching" /\ Owned(j) = {} /\ j \notin creating
  /\ t.at \in HoldingSteps => t.observed \in Owned(j)
  /\ t.at \in JournalledSteps => launches[j].sandbox # 0
  /\ t.at = "confirm" => launches[j].receipt # 0 /\ t.receipt \in Evidence
  /\ t.at = "exec" => work[j].attempted /\ execs[j] = 0
  /\ t.at = "record" => execs[j] > 0
TasksFit == \A w \in Processes, j \in Jobs : FitTask(w, j, task[w][j])

(* What the rows of a job and the provider agree on.                       *)
SandboxFit(j) ==
  /\ jobs[j].state \in {"absent", "reserved"} => Owned(j) = {} /\ j \notin creating
  /\ j \in creating => Owned(j) = {}
  /\ \A p, q \in Owned(j) : p = q
JournalFit(j) ==
  /\ launches[j].sandbox # 0 => launches[j].sandbox \in Owned(j)
  /\ launches[j].receipt # 0 => /\ launches[j].sandbox # 0
                                /\ sandboxes[launches[j].sandbox].state = "ended"
  /\ jobs[j].state \in {"running", "cleanup_pending", "billing_pending"} =>
       launches[j].sandbox # 0 /\ launches[j].sandbox = jobs[j].provider
  /\ jobs[j].state \in {"billing_pending", "cleaned"} =>
       j \notin creating /\ \A p \in Owned(j) : sandboxes[p].state = "ended"
WorkerFit(j) ==
  /\ execs[j] <= 1 /\ (execs[j] > 0 => work[j].attempted)
  /\ work[j].attempted => work[j].transfer = "staged"
  /\ work[j].exported => work[j].attempted /\ execs[j] > 0
  /\ jobs[j].result # 0 => execs[j] > 0
  /\ work[j].attempted => launches[j].sandbox # 0
RowsFit == \A j \in Jobs : SandboxFit(j) /\ JournalFit(j) /\ WorkerFit(j)
PoolFit == \A p \in Providers : sandboxes[p].state = "none" => sandboxes[p].job = 0

ModalTyped ==
  /\ TypeOK /\ JobsTypeOK
  /\ launches \in [Jobs -> [prepared: BOOLEAN, sandbox: {0} \union Providers,
                            receipt: {0} \union Evidence]]
  /\ work \in [Jobs -> [transfer: {"none", "uploading", "staged"}, attempted: BOOLEAN,
                         exported: BOOLEAN]]
  /\ task \in [Processes -> [Jobs -> Task]]
  /\ creating \subseteq Jobs
  /\ sandboxes \in [Providers -> [job: {0} \union Jobs, state: {"none", "running", "ended"}]]
  /\ execs \in [Jobs -> Nat] /\ crashes \in 0..MaxCrashes

(* The inductive invariant: what a process relies on between two of its    *)
(* steps holds whatever the other one, the provider and crashes do.        *)
TrainingInv == ModalTyped /\ TasksFit /\ RowsFit /\ PoolFit

LEMMA TrainingConstants ==
  /\ 0 \notin Jobs /\ 0 \notin Providers /\ 0 \notin Evidence
  /\ "runner" \in Processes /\ "watchdog" \in Processes
  /\ \A w \in Processes : w = "runner" \/ w = "watchdog"
BY JobsAssumption, TrainingAssumption DEF Jobs, Processes

-----------------------------------------------------------------------------
(* Tasks.                                                                  *)

\* Going to another step changes nothing else of a task.
LEMMA GoneTask ==
  ASSUME NEW t \in Task, NEW step \in Steps, NEW c, c = [t EXCEPT !.at = step]
  PROVE  /\ c \in Task /\ c.at = step /\ c.goal = t.goal /\ c.seen = t.seen
         /\ c.observed = t.observed /\ c.receipt = t.receipt
BY DEF Task

\* After a failure the dispatch goes to its finally block, cleanup is over.
LEMMA FailedTask ==
  ASSUME NEW t \in Task, NEW c, c = AfterFailure(t)
  PROVE  /\ c \in Task /\ c.at \in {"clean", "idle"}
         /\ c.at = "clean" => t.goal = "work"
BY DEF Task, AfterFailure, Idle, Steps, JobStates

LEMMA IdleTask == Idle \in Task /\ Idle.at = "idle"
BY DEF Task, Idle, Steps, JobStates

\* One task changes.
LEMMA TaskSet ==
  ASSUME ModalTyped, NEW w \in Processes, NEW j \in Jobs, NEW c \in Task,
         task' = [task EXCEPT ![w][j] = c]
  PROVE  /\ task' \in [Processes -> [Jobs -> Task]]
         /\ \A v \in Processes, k \in Jobs :
              task'[v][k] = IF v = w /\ k = j THEN c ELSE task[v][k]
<1>1. task \in [Processes -> [Jobs -> Task]]
  BY DEF ModalTyped
<1>2. PICK row : row = [task[w] EXCEPT ![j] = c]
  OBVIOUS
<1>3. task' = [task EXCEPT ![w] = row] /\ row \in [Jobs -> Task]
  BY <1>1, <1>2
<1>4. \A k \in Jobs : row[k] = IF k = j THEN c ELSE task[w][k]
  BY <1>1, <1>2
<1> QED BY <1>1, <1>3, <1>4

\* A task is idle or fits where it is.
LEMMA IdleFits ==
  ASSUME NEW w, NEW j
  PROVE  FitTask(w, j, Idle)
BY DEF FitTask, Idle, RunnerSteps, HoldingSteps, JournalledSteps

\* What fits depends on what it reads.
LEMMA FitKept ==
  ASSUME NEW w, NEW j, NEW t, FitTask(w, j, t),
         jobs'[j].state = jobs[j].state, launches'[j] = launches[j],
         work'[j].attempted = work[j].attempted, execs'[j] = execs[j],
         Owned(j)' = Owned(j), j \in creating' => j \in creating
  PROVE  FitTask(w, j, t)'
BY DEF FitTask

\* A step that only moves one task to a place where it fits.
LEMMA TaskMoves ==
  ASSUME TrainingInv, TypeOK', JobsTypeOK', NEW w \in Processes, NEW j \in Jobs, NEW c \in Task,
         task' = [task EXCEPT ![w][j] = c], FitTask(w, j, c),
         UNCHANGED <<jobs, launches, work, providerVars, crashes>>
  PROVE  TrainingInv'
<1>1. /\ task' \in [Processes -> [Jobs -> Task]]
      /\ \A v \in Processes, k \in Jobs :
           task'[v][k] = IF v = w /\ k = j THEN c ELSE task[v][k]
  BY TaskSet DEF TrainingInv
<1>2. ModalTyped'
  BY <1>1 DEF TrainingInv, ModalTyped, providerVars
<1>3. \A k \in Jobs : Owned(k)' = Owned(k)
  BY DEF Owned, providerVars
<1>4. \A v \in Processes, k \in Jobs : FitTask(v, k, task'[v][k])
  BY <1>1 DEF TrainingInv, TasksFit
<1>5. ASSUME NEW v \in Processes, NEW k \in Jobs PROVE FitTask(v, k, task[v][k])'
  <2>1. PICK t : t = task'[v][k]
    OBVIOUS
  <2>2. FitTask(v, k, t)'
    BY <1>3, <1>4, <2>1, FitKept DEF providerVars
  <2> QED BY <2>1, <2>2 DEF FitTask
<1>6. RowsFit'
  BY <1>3 DEF TrainingInv, RowsFit, SandboxFit, JournalFit, WorkerFit, providerVars
<1>7. PoolFit'
  BY DEF TrainingInv, PoolFit, providerVars
<1> QED BY <1>2, <1>5, <1>6, <1>7 DEF TrainingInv, TasksFit

(* What a step leaves alone when it concerns one job: everything of the    *)
(* other jobs; their sandboxes stay theirs, and ended ones stay ended.     *)
OthersKept(j) ==
  \A k \in Jobs \ {j} :
    /\ jobs'[k] = jobs[k] /\ launches'[k] = launches[k] /\ work'[k] = work[k]
    /\ execs'[k] = execs[k] /\ (k \in creating' <=> k \in creating)
    /\ Owned(k)' = Owned(k)
    /\ \A p \in Owned(k) : sandboxes[p].state = "ended" => sandboxes'[p].state = "ended"
    /\ \A w \in Processes : task'[w][k] = task[w][k]

\* A step of one job keeps the invariant when it keeps that job's part.
LEMMA OneJob ==
  ASSUME TrainingInv, ModalTyped', NEW j \in Jobs, OthersKept(j), PoolFit',
         SandboxFit(j)', JournalFit(j)', WorkerFit(j)',
         \A w \in Processes : FitTask(w, j, task[w][j])'
  PROVE  TrainingInv'
<1>1. ASSUME NEW k \in Jobs, k # j
      PROVE  /\ SandboxFit(k)' /\ JournalFit(k)' /\ WorkerFit(k)'
             /\ \A w \in Processes : FitTask(w, k, task[w][k])'
  <2>1. /\ jobs'[k] = jobs[k] /\ launches'[k] = launches[k] /\ work'[k] = work[k]
        /\ execs'[k] = execs[k] /\ (k \in creating' <=> k \in creating)
        /\ Owned(k)' = Owned(k)
        /\ \A p \in Owned(k) : sandboxes[p].state = "ended" => sandboxes'[p].state = "ended"
        /\ \A w \in Processes : task'[w][k] = task[w][k]
    BY <1>1 DEF OthersKept
  <2>2. SandboxFit(k) /\ JournalFit(k) /\ WorkerFit(k)
        /\ \A w \in Processes : FitTask(w, k, task[w][k])
    BY DEF TrainingInv, RowsFit, TasksFit
  <2>3. SandboxFit(k)'
    BY <2>1, <2>2 DEF SandboxFit
  <2>4. JournalFit(k)'
    BY <2>1, <2>2 DEF JournalFit
  <2>5. WorkerFit(k)'
    BY <2>1, <2>2 DEF WorkerFit
  <2>6. ASSUME NEW w \in Processes PROVE FitTask(w, k, task[w][k])'
    BY <2>1, <2>2 DEF FitTask
  <2> QED BY <2>3, <2>4, <2>5, <2>6
<1>2. RowsFit' /\ TasksFit'
  BY <1>1 DEF RowsFit, TasksFit
<1> QED BY <1>2 DEF TrainingInv

-----------------------------------------------------------------------------
(* The controller's operations, as a process of this module uses them.     *)

LEMMA JobEffects ==
  ASSUME JobsTypeOK, NEW j \in Jobs
  PROVE  /\ BeginDispatch(j) => /\ jobs[j].state = "reserved" /\ jobs'[j].state = "dispatching"
                                /\ jobs'[j].result = jobs[j].result
         /\ \A p : ProviderStarted(j, p) =>
              /\ jobs[j].state = "dispatching"
              /\ jobs'[j].state = "running" /\ jobs'[j].provider = p
              /\ jobs'[j].result = jobs[j].result
         /\ \A r : RecordResult(j, r) =>
              /\ jobs[j].state = "running" /\ jobs'[j].state = "cleanup_pending"
              /\ jobs'[j].provider = jobs[j].provider
         /\ RequestCleanup(j) =>
              /\ jobs[j].state = "running" /\ jobs'[j].state = "cleanup_pending"
              /\ jobs'[j].provider = jobs[j].provider /\ jobs'[j].result = jobs[j].result
         /\ CancelUndispatched(j) => /\ jobs[j].state = "reserved" /\ jobs'[j].state = "cleaned"
                                     /\ jobs'[j].result = jobs[j].result
<1>1. jobs \in [Jobs -> JobRow] /\ jobs[j] \in JobRow
  BY DEF JobsTypeOK
<1>2. ASSUME BeginDispatch(j)
      PROVE  /\ jobs[j].state = "reserved" /\ jobs'[j].state = "dispatching"
             /\ jobs'[j].result = jobs[j].result
  BY <1>1, <1>2 DEF BeginDispatch, Dispatchable, JobRow
<1>3. ASSUME NEW p, ProviderStarted(j, p)
      PROVE  /\ jobs[j].state = "dispatching"
             /\ jobs'[j].state = "running" /\ jobs'[j].provider = p
             /\ jobs'[j].result = jobs[j].result
  BY <1>1, <1>3 DEF ProviderStarted, AwaitsProvider, JobRow
<1>4. ASSUME NEW r, RecordResult(j, r)
      PROVE  /\ jobs[j].state = "running" /\ jobs'[j].state = "cleanup_pending"
             /\ jobs'[j].provider = jobs[j].provider
  BY <1>1, <1>4 DEF RecordResult, JobRow
<1>5. ASSUME RequestCleanup(j)
      PROVE  /\ jobs[j].state = "running" /\ jobs'[j].state = "cleanup_pending"
             /\ jobs'[j].provider = jobs[j].provider /\ jobs'[j].result = jobs[j].result
  BY <1>1, <1>5 DEF RequestCleanup, JobRow
<1>6. ASSUME CancelUndispatched(j)
      PROVE  /\ jobs[j].state = "reserved" /\ jobs'[j].state = "cleaned"
             /\ jobs'[j].result = jobs[j].result
  <2>1. jobs[j].state = "reserved"
    BY <1>6 DEF CancelUndispatched, Cancellable
  <2>2. jobs' = [jobs EXCEPT ![j] = [jobs[j] EXCEPT !.state = "cleaned",
                   !.closure = NeverDispatched(j), !.providerCleanup = NeverDispatched(j)]]
    BY <1>6 DEF CancelUndispatched, CloseAtOnce
  <2> QED BY <1>1, <2>1, <2>2 DEF JobRow
<1> QED BY <1>2, <1>3, <1>4, <1>5, <1>6

LEMMA CleanupEffect ==
  ASSUME JobsTypeOK, NEW j \in Jobs, NEW e, ProviderCleanupConfirmed(j, e)
  PROVE  /\ jobs[j].state \in {"running", "cleanup_pending"}
         /\ jobs'[j].state \in {"billing_pending", "cleaned"}
         /\ jobs'[j].provider = jobs[j].provider /\ jobs'[j].result = jobs[j].result
<1> DEFINE state == AfterCleanup(jobs[j].kind)
<1>1. jobs \in [Jobs -> JobRow] /\ jobs[j] \in JobRow
  BY DEF JobsTypeOK
<1>2. state \in {"billing_pending", "cleaned"}
  BY DEF AfterCleanup
<1>3. PICK c : jobs' = [jobs EXCEPT ![j] = [jobs[j] EXCEPT !.state = state,
                 !.providerCleanup = Presented(e), !.closure = c]]
  BY DEF ProviderCleanupConfirmed
<1>4. jobs[j].state \in {"running", "cleanup_pending"}
  BY DEF ProviderCleanupConfirmed
<1> HIDE DEF state
<1> QED BY <1>1, <1>2, <1>3, <1>4 DEF JobRow

\* Where a process is when it calls the controller, its arguments are in order.
LEMMA JobCalls ==
  ASSUME TrainingInv, NEW w \in Processes, NEW j \in Jobs
  PROVE  /\ At(w, j, "started") => task[w][j].observed \in Providers
         /\ At(w, j, "confirm") => task[w][j].receipt \in Evidence
<1>1. FitTask(w, j, task[w][j])
  BY DEF TrainingInv, TasksFit
<1> QED BY <1>1 DEF FitTask, At, HoldingSteps, Owned

\* The two processes touch the jobs through the controller's operations only.
LEMMA TrainingStepsJobs ==
  ASSUME TrainingInv, [ModalNext]_modalVars
  PROVE  [JobsNext]_campaignVars
<1>1. ASSUME NEW j \in Jobs, JobStep(j) PROVE [JobsNext]_campaignVars
  BY <1>1 DEF JobsNext
<1>2. CASE Campaign
  <2>1. ASSUME NEW j \in Jobs, NEW amount \in Amounts, NEW timeout \in Timeouts,
               AdmitJob(j, "training", amount, timeout)
        PROVE  [JobsNext]_campaignVars
    BY <1>1, <2>1, TrainingAssumption DEF JobStep
  <2>2. Stop \/ (Tick /\ UNCHANGED jobVars) => [JobsNext]_campaignVars
    BY DEF JobsNext, LedgerStep
  <2> QED BY <1>2, <2>1, <2>2 DEF Campaign
<1>3. ASSUME NEW w \in Processes, NEW j \in Jobs,
             \/ Dispatch(w, j) \/ Record(w, j) \/ Cancel(w, j) \/ AckStarts(w, j)
             \/ TerminateRequests(w, j) \/ TerminateConfirms(w, j)
      PROVE  [JobsNext]_campaignVars
  <2>1. Dispatch(w, j) => JobStep(j)
    BY DEF Dispatch, JobStep
  <2>2. Record(w, j) => JobStep(j) \/ UNCHANGED campaignVars
    BY DEF Record, JobStep
  <2>3. Cancel(w, j) => JobStep(j) \/ UNCHANGED campaignVars
    BY DEF Cancel, JobStep
  <2>4. AckStarts(w, j) => JobStep(j) \/ UNCHANGED campaignVars
    BY JobCalls DEF AckStarts, JobStep
  <2>5. TerminateRequests(w, j) => JobStep(j) \/ UNCHANGED campaignVars
    BY DEF TerminateRequests, JobStep
  <2>6. TerminateConfirms(w, j) => JobStep(j) \/ UNCHANGED campaignVars
    BY JobCalls DEF TerminateConfirms, JobStep
  <2> QED BY <1>1, <1>3, <2>1, <2>2, <2>3, <2>4, <2>5, <2>6
<1>4. ASSUME NEW w \in Processes, NEW j \in Jobs,
             \/ RunnerPicks(j) \/ Prepare(w, j) \/ StartReads(w, j) \/ StartLooks(w, j)
             \/ StartInspects(w, j) \/ SendCreate(w, j) \/ CreateReturns(w, j)
             \/ StageClaims(w, j) \/ Upload(w, j) \/ WorkerClaims(w, j) \/ Execute(w, j)
             \/ Export(w, j) \/ CleanReads(w, j)
      PROVE  UNCHANGED campaignVars
  BY <1>4 DEF RunnerPicks, Prepare, StartReads, StartLooks, StartInspects, SendCreate,
       CreateReturns, StageClaims, Upload, WorkerClaims, Execute, Export, CleanReads
<1>5. ASSUME NEW w \in Processes, NEW j \in Jobs,
             \/ WatchdogPicks(j) \/ AckReads(w, j) \/ AckStores(w, j) \/ TerminateReads(w, j)
             \/ TerminateLooks(w, j) \/ TerminateStops(w, j) \/ TerminateRecords(w, j)
             \/ CallFails(w, j) \/ CreateLost(j)
      PROVE  UNCHANGED campaignVars
  BY <1>5 DEF WatchdogPicks, AckReads, AckStores, TerminateReads, TerminateLooks,
       TerminateStops, TerminateRecords, CallFails, CreateLost
<1>6. ASSUME \/ \E j \in Jobs, p \in Providers : ProviderCreates(j, p)
             \/ \E p \in Providers : SandboxEnds(p)
             \/ \E w \in Processes : Crash(w)
      PROVE  UNCHANGED campaignVars
  BY <1>6 DEF ProviderCreates, SandboxEnds, Crash
<1>7. ASSUME NEW j \in Jobs, RunnerStep(j) PROVE [JobsNext]_campaignVars
  BY <1>3, <1>4, <1>7, TrainingConstants DEF RunnerStep
<1>8. ASSUME NEW w \in Processes, NEW j \in Jobs, Cleanup(w, j) PROVE [JobsNext]_campaignVars
  BY <1>3, <1>5, <1>8 DEF Cleanup
<1>9. UNCHANGED modalVars => UNCHANGED campaignVars
  BY DEF modalVars
<1> QED BY <1>2, <1>5, <1>6, <1>7, <1>8, <1>9, TrainingConstants DEF ModalNext

\* The controller's and the ledger's tables keep their types at every step.
LEMMA CampaignTyped ==
  ASSUME TrainingInv, [ModalNext]_modalVars
  PROVE  TypeOK' /\ JobsTypeOK'
BY TrainingStepsJobs, TypesStep DEF TrainingInv, ModalTyped

\* An operation on one job leaves the rows of the others.
LEMMA OtherRowsKept ==
  ASSUME TrainingInv, NEW j \in Jobs, JobStep(j) \/ UNCHANGED campaignVars
  PROVE  \A k \in Jobs \ {j} : jobs'[k] = jobs[k]
BY OtherJobsKept DEF TrainingInv, ModalTyped, campaignVars, jobVars

-----------------------------------------------------------------------------
(* A step of one process on one job.                                       *)

\* What a process relies on is not taken away: sandboxes and journal entries
\* stay, and only the runner itself submits a job or executes its worker.
NothingLost(w, j) ==
  /\ Owned(j) \subseteq Owned(j)'
  /\ launches[j].sandbox # 0 => launches'[j].sandbox # 0
  /\ launches[j].receipt # 0 => launches'[j].receipt # 0
  /\ work[j].attempted => work'[j].attempted
  /\ w = "watchdog" =>
       /\ UNCHANGED <<work, execs, creating>> /\ Owned(j)' = Owned(j)
       /\ jobs[j].state = "dispatching" /\ Owned(j) = {} => jobs'[j].state = "dispatching"

LEMMA OtherTaskFits ==
  ASSUME NEW w \in Processes, NEW v \in Processes, v # w, NEW j \in Jobs, NEW t,
         FitTask(v, j, t), NothingLost(w, j)
  PROVE  FitTask(v, j, t)'
<1>1. CASE w = "watchdog"
  BY <1>1 DEF FitTask, NothingLost
<1>2. CASE w = "runner"
  <2>1. v = "watchdog"
    BY <1>2, TrainingConstants
  <2>2. {"create", "exec", "record"} \subseteq RunnerSteps
    BY DEF RunnerSteps
  <2> QED BY <2>1, <2>2 DEF FitTask, NothingLost
<1> QED BY <1>1, <1>2, TrainingConstants

RowsKept(j) ==
  \A k \in Jobs \ {j} :
    /\ jobs'[k] = jobs[k] /\ launches'[k] = launches[k] /\ work'[k] = work[k]
    /\ execs'[k] = execs[k] /\ (k \in creating' <=> k \in creating)
    /\ Owned(k)' = Owned(k)
    /\ \A p \in Owned(k) : sandboxes[p].state = "ended" => sandboxes'[p].state = "ended"

RowsTyped ==
  /\ launches \in [Jobs -> [prepared: BOOLEAN, sandbox: {0} \union Providers,
                            receipt: {0} \union Evidence]]
  /\ work \in [Jobs -> [transfer: {"none", "uploading", "staged"}, attempted: BOOLEAN,
                         exported: BOOLEAN]]
  /\ creating \subseteq Jobs
  /\ sandboxes \in [Providers -> [job: {0} \union Jobs, state: {"none", "running", "ended"}]]
  /\ execs \in [Jobs -> Nat]

LEMMA OneTask ==
  ASSUME TrainingInv, TypeOK', JobsTypeOK', RowsTyped', UNCHANGED crashes,
         NEW w \in Processes, NEW j \in Jobs, NEW c \in Task,
         task' = [task EXCEPT ![w][j] = c],
         RowsKept(j), NothingLost(w, j), PoolFit',
         SandboxFit(j)', JournalFit(j)', WorkerFit(j)', FitTask(w, j, c)'
  PROVE  TrainingInv'
<1>1. /\ task' \in [Processes -> [Jobs -> Task]]
      /\ \A v \in Processes, k \in Jobs :
           task'[v][k] = IF v = w /\ k = j THEN c ELSE task[v][k]
  BY TaskSet DEF TrainingInv
<1>2. ModalTyped'
  BY <1>1 DEF TrainingInv, ModalTyped, RowsTyped
<1>3. OthersKept(j)
  BY <1>1, Zenon DEF OthersKept, RowsKept
<1>4. ASSUME NEW v \in Processes PROVE FitTask(v, j, task[v][j])'
  <2>1. CASE v = w
    <3>1. task'[v][j] = c
      BY <1>1, <2>1
    <3> QED BY <2>1, <3>1 DEF FitTask
  <2>2. CASE v # w
    <3>1. PICK t : t = task[v][j]
      OBVIOUS
    <3>2. FitTask(v, j, t)
      BY <3>1 DEF TrainingInv, TasksFit
    <3>3. FitTask(v, j, t)'
      BY <2>2, <3>2, OtherTaskFits
    <3>4. task'[v][j] = t
      BY <1>1, <2>2, <3>1
    <3> QED BY <3>3, <3>4 DEF FitTask
  <2> QED BY <2>1, <2>2
<1> QED BY <1>2, <1>3, <1>4, OneJob

-----------------------------------------------------------------------------
(* Steps that only read, and what they found.                              *)

\* A process that moves on to step keeps what it may rely on there.
LEMMA FitGone ==
  ASSUME NEW w, NEW j, NEW t \in Task, NEW step \in Steps, NEW c, c = [t EXCEPT !.at = step],
         FitTask(w, j, t), w = "watchdog" => step \notin RunnerSteps,
         t.at # "idle", step \notin {"create", "exec", "record"},
         step \in HoldingSteps => t.observed \in Owned(j),
         step \in JournalledSteps => launches[j].sandbox # 0,
         step = "confirm" => launches[j].receipt # 0 /\ t.receipt \in Evidence
  PROVE  FitTask(w, j, c) /\ c \in Task
BY GoneTask DEF FitTask

LEMMA FailureFits ==
  ASSUME NEW w \in Processes, NEW j, NEW t \in Task, FitTask(w, j, t), t.at # "idle"
  PROVE  FitTask(w, j, AfterFailure(t)) /\ AfterFailure(t) \in Task
<1>1. PICK c : c = AfterFailure(t)
  OBVIOUS
<1>2. c \in Task /\ c.at \in {"clean", "idle"} /\ (c.at = "clean" => t.goal = "work")
  BY <1>1, FailedTask
<1>3. w = "watchdog" => c.at = "idle"
  BY <1>2 DEF FitTask
<1>4. FitTask(w, j, c)
  BY <1>2, <1>3 DEF FitTask, RunnerSteps, HoldingSteps, JournalledSteps
<1> QED BY <1>1, <1>2, <1>4

\* The task of a process, before a step of it.
LEMMA TaskAt ==
  ASSUME TrainingInv, NEW w \in Processes, NEW j \in Jobs
  PROVE  task[w][j] \in Task /\ FitTask(w, j, task[w][j])
BY DEF TrainingInv, ModalTyped, TasksFit

LEMMA RaiseKeeps ==
  ASSUME TrainingInv, TypeOK', JobsTypeOK', NEW w \in Processes, NEW j \in Jobs,
         task[w][j].at # "idle", Raise(w, j),
         UNCHANGED <<jobs, launches, work, providerVars, crashes>>
  PROVE  TrainingInv'
<1>1. PICK t : t = task[w][j]
  OBVIOUS
<1>2. FitTask(w, j, AfterFailure(t)) /\ AfterFailure(t) \in Task
  BY <1>1, TaskAt, FailureFits
<1> QED BY <1>1, <1>2, TaskMoves DEF Raise, Become

\* A step that takes the process from one place to another.
LEMMA GoKeeps ==
  ASSUME TrainingInv, TypeOK', JobsTypeOK', NEW w \in Processes, NEW j \in Jobs,
         NEW step \in Steps \ {"create", "exec", "record"}, Go(w, j, step), task[w][j].at # "idle",
         w = "watchdog" => step \notin RunnerSteps,
         step \in HoldingSteps => task[w][j].observed \in Owned(j),
         step \in JournalledSteps => launches[j].sandbox # 0,
         step # "confirm",
         UNCHANGED <<jobs, launches, work, providerVars, crashes>>
  PROVE  TrainingInv'
<1>1. PICK c : c = [task[w][j] EXCEPT !.at = step]
  OBVIOUS
<1>2. FitTask(w, j, c) /\ c \in Task
  BY <1>1, TaskAt, FitGone
<1> QED BY <1>1, <1>2, TaskMoves DEF Go, Become

\* A step that takes a sandbox of the job in hand.
LEMMA ObservesKeeps ==
  ASSUME TrainingInv, TypeOK', JobsTypeOK', NEW w \in Processes, NEW j \in Jobs,
         NEW p \in Owned(j), NEW step \in {"ack", "request"}, task[w][j].at # "idle",
         Become(w, j, [task[w][j] EXCEPT !.observed = p, !.at = step]),
         step = "request" => launches[j].sandbox # 0,
         UNCHANGED <<jobs, launches, work, providerVars, crashes>>
  PROVE  TrainingInv'
<1>1. PICK c : c = [task[w][j] EXCEPT !.observed = p, !.at = step]
  OBVIOUS
<1>2. c \in Task /\ c.at = step /\ c.observed = p /\ c.goal = task[w][j].goal
  <2>1. step \in Steps /\ p \in {0} \union Providers
    BY DEF Steps, Owned
  <2>2. task[w][j] \in Task
    BY TaskAt
  <2> QED BY <1>1, <2>1, <2>2 DEF Task
<1>3. FitTask(w, j, c)
  BY <1>2, TaskAt DEF FitTask, RunnerSteps, HoldingSteps, JournalledSteps
<1> QED BY <1>1, <1>2, <1>3, TaskMoves DEF Become

\* What a job's journal and rows tell.
LEMMA RowsAt ==
  ASSUME TrainingInv, NEW j \in Jobs
  PROVE  /\ SandboxFit(j) /\ JournalFit(j) /\ WorkerFit(j)
         /\ launches[j].sandbox \in {0} \union Providers
         /\ launches[j].receipt \in {0} \union Evidence
         /\ jobs[j].state \in JobStates
BY DEF TrainingInv, RowsFit, ModalTyped, JobsTypeOK, JobRow

LEMMA PicksKeep ==
  ASSUME TrainingInv, TypeOK', JobsTypeOK', NEW j \in Jobs,
         RunnerPicks(j) \/ WatchdogPicks(j)
  PROVE  TrainingInv'
<1>1. CASE RunnerPicks(j)
  <2>1. PICK c : c = [Idle EXCEPT !.at = "prepare"]
    OBVIOUS
  <2>2. c \in Task /\ c.at = "prepare"
    BY <2>1, IdleTask, GoneTask DEF Steps
  <2>3. FitTask("runner", j, c)
    BY <2>2 DEF FitTask, HoldingSteps, JournalledSteps
  <2> QED
    BY <1>1, <2>1, <2>2, <2>3, TaskMoves, TrainingConstants
       DEF RunnerPicks, Become, campaignVars, jobVars
<1>2. CASE WatchdogPicks(j)
  <2>1. PICK c : c = [Idle EXCEPT !.goal = "terminate",
                        !.at = IF jobs[j].state = "reserved" THEN "cancel" ELSE "term"]
    OBVIOUS
  <2>2. c \in Task /\ c.at \in {"cancel", "term"} /\ c.goal = "terminate"
    BY <2>1, IdleTask DEF Task, Idle, Steps
  <2>3. FitTask("watchdog", j, c)
    BY <2>2 DEF FitTask, RunnerSteps, HoldingSteps, JournalledSteps
  <2> QED
    BY <1>2, <2>1, <2>2, <2>3, TaskMoves, TrainingConstants
       DEF WatchdogPicks, Become, campaignVars, jobVars
<1> QED BY <1>1, <1>2

LEMMA RunnerReadsKeep ==
  ASSUME TrainingInv, TypeOK', JobsTypeOK', NEW j \in Jobs, NEW w \in Processes, w = "runner",
         \/ StartReads(w, j) \/ StartLooks(w, j) \/ StartInspects(w, j)
         \/ CreateReturns(w, j) \/ CleanReads(w, j)
  PROVE  TrainingInv'
<1>1. w # "watchdog"
  OBVIOUS
<1>2. UNCHANGED <<jobs, launches, work, providerVars, crashes>>
  BY DEF StartReads, StartLooks, StartInspects, CreateReturns, CleanReads, campaignVars, jobVars
<1>3. task[w][j].at # "idle"
  BY DEF StartReads, StartLooks, StartInspects, CreateReturns, CleanReads, At
<1>4. {"look", "inspect", "dispatch", "ack", "cancel", "term"} \subseteq Steps \ {"create", "exec"}
      /\ "look" \notin HoldingSteps /\ "dispatch" \notin HoldingSteps
      /\ "cancel" \notin HoldingSteps /\ "term" \notin HoldingSteps /\ "ack" \in HoldingSteps
      /\ "inspect" \in HoldingSteps
      /\ \A s \in {"look", "inspect", "dispatch", "ack", "cancel", "term"} :
           s \notin JournalledSteps
  BY DEF Steps, HoldingSteps, JournalledSteps
<1>5. CASE StartReads(w, j)
  <2>1. CASE Raise(w, j)
    BY <1>2, <1>3, <2>1, RaiseKeeps
  <2>2. CASE ~Raise(w, j)
    <3>1. PICK c : c = [task[w][j] EXCEPT
            !.seen = jobs[j].state, !.observed = launches[j].sandbox,
            !.at = IF launches[j].sandbox = 0 THEN "look" ELSE "inspect"]
      OBVIOUS
    <3>2. task' = [task EXCEPT ![w][j] = c]
      BY <1>5, <2>2, <3>1 DEF StartReads, Become
    <3>3. /\ c \in Task /\ c.observed = launches[j].sandbox
          /\ c.at = IF launches[j].sandbox = 0 THEN "look" ELSE "inspect"
      BY <3>1, TaskAt, RowsAt DEF Task, Steps
    <3>4. FitTask(w, j, c)
      BY <1>1, <1>4, <3>3, RowsAt DEF FitTask, JournalFit
    <3> QED BY <1>2, <3>2, <3>3, <3>4, TaskMoves
  <2> QED BY <2>1, <2>2
<1>6. CASE StartLooks(w, j)
  <2>1. \A p \in Named(j) : p \in Owned(j)
    BY DEF Named, Owned
  <2> QED
    BY <1>1, <1>2, <1>3, <1>4, <1>6, <2>1, GoKeeps, ObservesKeeps, RaiseKeeps DEF StartLooks
<1>7. CASE StartInspects(w, j)
  <2>1. task[w][j].observed \in Owned(j)
    BY <1>4, <1>7, TaskAt DEF StartInspects, At, FitTask
  <2> QED BY <1>1, <1>2, <1>3, <1>4, <1>7, <2>1, GoKeeps DEF StartInspects
<1>8. CASE CreateReturns(w, j)
  BY <1>2, <1>3, <1>8, ObservesKeeps DEF CreateReturns, Owned
<1>9. CASE CleanReads(w, j)
  <2>1. CASE Become(w, j, Idle)
    BY <1>2, <2>1, IdleFits, IdleTask, TaskMoves DEF Become
  <2>2. CASE ~Become(w, j, Idle)
    BY <1>1, <1>2, <1>3, <1>4, <1>9, <2>2, GoKeeps DEF CleanReads
  <2> QED BY <2>1, <2>2
<1> QED BY <1>5, <1>6, <1>7, <1>8, <1>9

LEMMA CleanupReadsKeep ==
  ASSUME TrainingInv, TypeOK', JobsTypeOK', NEW j \in Jobs, NEW w \in Processes,
         AckReads(w, j) \/ TerminateReads(w, j) \/ TerminateLooks(w, j) \/ CallFails(w, j)
  PROVE  TrainingInv'
<1>1. UNCHANGED <<jobs, launches, work, providerVars, crashes>>
  BY DEF AckReads, TerminateReads, TerminateLooks, CallFails, campaignVars, jobVars
<1>2. task[w][j].at # "idle"
  BY DEF AckReads, TerminateReads, TerminateLooks, CallFails, At, Awaits
<1>3. {"store", "request", "lookup", "confirm", "ack"} \subseteq Steps \ {"create", "exec"}
      /\ \A s \in {"store", "request", "lookup", "confirm", "ack"} : s \notin RunnerSteps
      /\ "lookup" \notin HoldingSteps /\ "confirm" \notin HoldingSteps
      /\ "store" \notin JournalledSteps /\ "lookup" \notin JournalledSteps
      /\ "ack" \in HoldingSteps
  BY DEF Steps, RunnerSteps, HoldingSteps, JournalledSteps
<1>4. CASE Raise(w, j)
  BY <1>1, <1>2, <1>4, RaiseKeeps
<1>5. CASE AckReads(w, j) /\ ~Raise(w, j)
  <2>1. PICK c : c = [task[w][j] EXCEPT !.seen = jobs[j].state, !.at = "store"]
    OBVIOUS
  <2>2. task' = [task EXCEPT ![w][j] = c]
    BY <1>5, <2>1 DEF AckReads, Become
  <2>3. /\ c \in Task /\ c.at = "store" /\ c.goal = task[w][j].goal
        /\ c.observed = task[w][j].observed
    BY <2>1, TaskAt, RowsAt DEF Task, Steps
  <2>4. task[w][j].observed \in Owned(j)
    BY <1>3, <1>5, TaskAt DEF AckReads, At, FitTask
  <2>5. FitTask(w, j, c)
    BY <1>2, <1>3, <2>3, <2>4, TaskAt DEF FitTask
  <2> QED BY <1>1, <2>2, <2>3, <2>5, TaskMoves
<1>6. CASE TerminateReads(w, j) /\ ~Raise(w, j)
  <2>1. CASE launches[j].receipt # 0
    <3>1. PICK c : c = [task[w][j] EXCEPT !.receipt = launches[j].receipt, !.at = "confirm"]
      OBVIOUS
    <3>2. task' = [task EXCEPT ![w][j] = c]
      BY <1>6, <2>1, <3>1 DEF TerminateReads, Become
    <3>3. /\ c \in Task /\ c.at = "confirm" /\ c.goal = task[w][j].goal
          /\ c.receipt = launches[j].receipt /\ c.receipt \in Evidence
      BY <2>1, <3>1, TaskAt, RowsAt DEF Task, Steps
    <3>4. FitTask(w, j, c)
      BY <1>2, <1>3, <2>1, <3>3, TaskAt, RowsAt DEF FitTask, JournalFit
    <3> QED BY <1>1, <3>2, <3>3, <3>4, TaskMoves
  <2>2. CASE launches[j].receipt = 0 /\ launches[j].sandbox # 0
    <3>1. launches[j].sandbox \in Owned(j)
      BY <2>2, RowsAt DEF JournalFit
    <3> QED BY <1>1, <1>2, <1>6, <2>2, <3>1, ObservesKeeps DEF TerminateReads
  <2>3. CASE launches[j].receipt = 0 /\ launches[j].sandbox = 0
    BY <1>1, <1>2, <1>3, <1>6, <2>3, GoKeeps DEF TerminateReads
  <2> QED BY <2>1, <2>2, <2>3
<1>7. CASE TerminateLooks(w, j)
  BY <1>1, <1>2, <1>7, ObservesKeeps DEF TerminateLooks, Named, Owned
<1>8. CallFails(w, j) => Raise(w, j)
  BY DEF CallFails
<1> QED BY <1>4, <1>5, <1>6, <1>7, <1>8

-----------------------------------------------------------------------------
(* Staging, the worker and the export.                                     *)

WorkRow == [transfer: {"none", "uploading", "staged"}, attempted: BOOLEAN, exported: BOOLEAN]

LEMMA WorkStep ==
  ASSUME TrainingInv, TypeOK', JobsTypeOK', NEW w \in Processes, w = "runner", NEW j \in Jobs,
         NEW c \in Task, task' = [task EXCEPT ![w][j] = c],
         c.at \in {"upload", "worker", "exec", "export", "record"},
         NEW row \in WorkRow, work' = [work EXCEPT ![j] = row],
         work[j].attempted => row.attempted,
         row.attempted => row.transfer = "staged",
         row.exported => row.attempted /\ execs[j] > 0,
         row.attempted => launches[j].sandbox # 0,
         c.at = "exec" => row.attempted /\ execs[j] = 0,
         c.at = "record" => execs[j] > 0,
         UNCHANGED <<jobs, launches, providerVars, crashes>>
  PROVE  TrainingInv'
<1>1. /\ work \in [Jobs -> WorkRow]
      /\ RowsTyped /\ PoolFit
  BY DEF TrainingInv, ModalTyped, WorkRow, RowsTyped
<1>2. work' \in [Jobs -> WorkRow] /\ work'[j] = row /\ \A k \in Jobs \ {j} : work'[k] = work[k]
  BY <1>1
<1>3. \A k \in Jobs : Owned(k)' = Owned(k)
  BY DEF Owned, providerVars
<1>4. RowsTyped' /\ PoolFit'
  BY <1>1, <1>2 DEF RowsTyped, PoolFit, WorkRow, providerVars
<1>5. RowsKept(j)
  BY <1>2, <1>3 DEF RowsKept, providerVars
<1>6. NothingLost(w, j)
  BY <1>2, <1>3, TrainingConstants DEF NothingLost
<1>7. SandboxFit(j)' /\ JournalFit(j)'
  BY <1>3, RowsAt DEF SandboxFit, JournalFit, providerVars
<1>8. WorkerFit(j)'
  BY <1>2, RowsAt DEF WorkerFit, providerVars
<1>9. FitTask(w, j, c)'
  BY <1>2 DEF FitTask, HoldingSteps, JournalledSteps, providerVars
<1> QED BY <1>4, <1>5, <1>6, <1>7, <1>8, <1>9, OneTask

LEMMA WorkKeeps ==
  ASSUME TrainingInv, TypeOK', JobsTypeOK', NEW w \in Processes, w = "runner", NEW j \in Jobs,
         StageClaims(w, j) \/ Upload(w, j) \/ WorkerClaims(w, j) \/ Export(w, j)
  PROVE  TrainingInv'
<1>1. UNCHANGED <<jobs, launches, providerVars, crashes>>
  BY DEF StageClaims, Upload, WorkerClaims, Export, campaignVars, jobVars
<1>2. task[w][j].at # "idle"
  BY DEF StageClaims, Upload, WorkerClaims, Export, At
<1>3. work \in [Jobs -> WorkRow] /\ work[j] \in WorkRow /\ execs[j] \in Nat
  BY DEF TrainingInv, ModalTyped, WorkRow
<1>4. ASSUME NEW step \in {"upload", "worker", "exec", "export", "record"}, Go(w, j, step)
      PROVE  \E c \in Task : c.at = step /\ task' = [task EXCEPT ![w][j] = c]
  <2>1. PICK c : c = [task[w][j] EXCEPT !.at = step]
    OBVIOUS
  <2>2. c \in Task /\ c.at = step
    BY <2>1, TaskAt, GoneTask DEF Steps
  <2> QED BY <1>4, <2>1, <2>2 DEF Go, Become
<1>5. ASSUME UNCHANGED work,
             Raise(w, j) \/ \E step \in {"upload", "worker", "export"} : Go(w, j, step)
      PROVE  TrainingInv'
  <2>1. \A s \in {"upload", "worker", "export"} :
          s \in Steps \ {"create", "exec", "record"} /\ s \notin HoldingSteps /\ s \notin JournalledSteps
    BY DEF Steps, HoldingSteps, JournalledSteps
  <2> QED BY <1>1, <1>2, <1>5, <2>1, GoKeeps, RaiseKeeps
<1>6. WorkerFit(j)
  BY RowsAt
<1>7. CASE StageClaims(w, j) /\ ~UNCHANGED work
  <2>1. PICK row : row = [work[j] EXCEPT !.transfer = "uploading"]
    OBVIOUS
  <2>2. /\ ~work[j].attempted /\ Go(w, j, "upload")
        /\ work' = [work EXCEPT ![j].transfer = "uploading"]
    BY <1>7 DEF StageClaims
  <2>3. work' = [work EXCEPT ![j] = row]
    BY <2>1, <2>2
  <2>4. row \in WorkRow /\ ~row.attempted /\ ~row.exported
    BY <1>3, <1>6, <2>1, <2>2 DEF WorkRow, WorkerFit
  <2>5. PICK c \in Task : c.at = "upload" /\ task' = [task EXCEPT ![w][j] = c]
    BY <1>4, <2>2
  <2> QED BY <1>1, <2>2, <2>3, <2>4, <2>5, WorkStep
<1>8. CASE Upload(w, j) /\ ~UNCHANGED work
  <2>1. PICK row : row = [work[j] EXCEPT !.transfer = "staged"]
    OBVIOUS
  <2>2. PICK step \in {"export", "worker"} : Go(w, j, step)
    BY <1>8 DEF Upload
  <2>3. work' = [work EXCEPT ![j] = row]
    BY <1>8, <2>1 DEF Upload
  <2>4. /\ row \in WorkRow /\ row.transfer = "staged"
        /\ row.attempted = work[j].attempted /\ row.exported = work[j].exported
    BY <1>3, <2>1 DEF WorkRow
  <2> QED BY <1>1, <1>4, <1>6, <2>2, <2>3, <2>4, WorkStep DEF WorkerFit
<1>9. CASE WorkerClaims(w, j)
  <2>1. PICK row : row = [work[j] EXCEPT !.attempted = TRUE]
    OBVIOUS
  <2>2. /\ work[j].transfer = "staged" /\ ~work[j].attempted /\ Go(w, j, "exec")
        /\ work' = [work EXCEPT ![j] = row] /\ jobs[j].state = "running"
    BY <1>9, <2>1 DEF WorkerClaims, AttemptRecorded
  <2>3. /\ row \in WorkRow /\ row.transfer = "staged" /\ row.attempted
    BY <1>3, <2>1, <2>2 DEF WorkRow
  <2>4. execs[j] = 0 /\ ~row.exported
    BY <1>3, <1>6, <2>1, <2>2 DEF WorkerFit, WorkRow
  <2>5. launches[j].sandbox # 0
    BY <2>2, RowsAt DEF JournalFit
  <2> QED BY <1>1, <1>4, <2>2, <2>3, <2>4, <2>5, WorkStep
<1>10. CASE Export(w, j) /\ ~UNCHANGED work
  <2>1. PICK row : row = [work[j] EXCEPT !.exported = TRUE]
    OBVIOUS
  <2>2. /\ execs[j] > 0 /\ Go(w, j, "record")
        /\ work' = [work EXCEPT ![j] = row]
    BY <1>10, <2>1 DEF Export
  <2>3. work[j].attempted /\ work[j].transfer = "staged" /\ launches[j].sandbox # 0
    BY <1>6, <2>2 DEF WorkerFit
  <2>4. /\ row \in WorkRow /\ row.transfer = "staged" /\ row.attempted
    BY <1>3, <2>1, <2>3 DEF WorkRow
  <2> QED BY <1>1, <1>4, <2>2, <2>3, <2>4, WorkStep
<1>11. ASSUME UNCHANGED work, StageClaims(w, j) \/ Upload(w, j)
       PROVE  TrainingInv'
  <2>1. StageClaims(w, j) => Go(w, j, "upload")
    BY DEF StageClaims
  <2>2. Upload(w, j) => Raise(w, j) \/ Go(w, j, "export") \/ Go(w, j, "worker")
    BY DEF Upload
  <2> QED BY <1>5, <1>11, <2>1, <2>2
<1>12. CASE UNCHANGED work /\ Export(w, j)
  <2>1. PICK c \in Task : c.at = "record" /\ task' = [task EXCEPT ![w][j] = c]
    BY <1>4, <1>12 DEF Export
  <2>2. work' = [work EXCEPT ![j] = work[j]]
    BY <1>3, <1>12
  <2>3. execs[j] > 0
    BY <1>6, <1>12 DEF Export, WorkerFit
  <2> QED BY <1>1, <1>3, <1>6, <2>1, <2>2, <2>3, WorkStep DEF WorkerFit
<1> QED BY <1>7, <1>8, <1>9, <1>10, <1>11, <1>12

-----------------------------------------------------------------------------
(* The launch journal: prepared, the sandbox, the receipt.                 *)

LaunchRow == [prepared: BOOLEAN, sandbox: {0} \union Providers, receipt: {0} \union Evidence]

LEMMA LaunchStep ==
  ASSUME TrainingInv, TypeOK', JobsTypeOK', NEW w \in Processes, NEW j \in Jobs,
         NEW c \in Task, task' = [task EXCEPT ![w][j] = c],
         NEW row \in LaunchRow, launches' = [launches EXCEPT ![j] = row],
         launches[j].sandbox # 0 => row.sandbox = launches[j].sandbox,
         row.sandbox # 0 => row.sandbox \in Owned(j),
         launches[j].receipt # 0 => row.receipt # 0,
         row.receipt # 0 => row.sandbox # 0 /\ sandboxes[row.sandbox].state = "ended",
         c.at \notin {"create", "exec", "record"},
         w = "watchdog" => c.at \notin RunnerSteps /\ (c.at # "idle" => c.goal = "terminate"),
         c.at \in HoldingSteps => c.observed \in Owned(j),
         c.at \in JournalledSteps => row.sandbox # 0,
         c.at = "confirm" => row.receipt # 0 /\ c.receipt \in Evidence,
         UNCHANGED <<jobs, work, providerVars, crashes>>
  PROVE  TrainingInv'
<1>1. /\ launches \in [Jobs -> LaunchRow]
      /\ RowsTyped /\ PoolFit
  BY DEF TrainingInv, ModalTyped, LaunchRow, RowsTyped
<1>2. /\ launches' \in [Jobs -> LaunchRow] /\ launches'[j] = row
      /\ \A k \in Jobs \ {j} : launches'[k] = launches[k]
  BY <1>1
<1>3. \A k \in Jobs : Owned(k)' = Owned(k)
  BY DEF Owned, providerVars
<1>4. RowsTyped' /\ PoolFit'
  BY <1>1, <1>2 DEF RowsTyped, PoolFit, LaunchRow, providerVars
<1>5. RowsKept(j)
  BY <1>2, <1>3 DEF RowsKept, providerVars
<1>6. NothingLost(w, j)
  BY <1>2, <1>3 DEF NothingLost, providerVars
<1>7. SandboxFit(j)' /\ WorkerFit(j)'
  BY <1>3, RowsAt DEF SandboxFit, WorkerFit, providerVars
<1>8. JournalFit(j)'
  BY <1>2, <1>3, RowsAt DEF JournalFit, providerVars
<1>9. FitTask(w, j, c)'
  BY <1>2, <1>3 DEF FitTask, providerVars
<1> QED BY <1>4, <1>5, <1>6, <1>7, <1>8, <1>9, OneTask

LEMMA JournalKeeps ==
  ASSUME TrainingInv, TypeOK', JobsTypeOK', NEW w \in Processes, NEW j \in Jobs,
         \/ w = "runner" /\ Prepare(w, j)
         \/ AckStores(w, j) \/ TerminateRecords(w, j)
  PROVE  TrainingInv'
<1>1. UNCHANGED <<jobs, work, providerVars, crashes>>
  BY DEF Prepare, AckStores, TerminateRecords, campaignVars, jobVars
<1>2. task[w][j].at # "idle"
  BY DEF Prepare, AckStores, TerminateRecords, At
<1>3. launches \in [Jobs -> LaunchRow] /\ launches[j] \in LaunchRow
  BY DEF TrainingInv, ModalTyped, LaunchRow
<1>4. JournalFit(j) /\ SandboxFit(j)
  BY RowsAt
<1>5. task[w][j] \in Task /\ FitTask(w, j, task[w][j])
  BY TaskAt
<1>6. CASE w = "runner" /\ Prepare(w, j)
  <2>1. PICK row : row = [launches[j] EXCEPT !.prepared = TRUE]
    OBVIOUS
  <2>2. PICK c : c = [task[w][j] EXCEPT !.at = "start"]
    OBVIOUS
  <2>3. /\ row \in LaunchRow /\ row.sandbox = launches[j].sandbox
        /\ row.receipt = launches[j].receipt
    BY <1>3, <2>1 DEF LaunchRow
  <2>4. launches' = [launches EXCEPT ![j] = row] /\ task' = [task EXCEPT ![w][j] = c]
    BY <1>6, <2>1, <2>2 DEF Prepare, Go, Become
  <2>5. c \in Task /\ c.at = "start"
    BY <1>5, <2>2, GoneTask DEF Steps
  <2>6. "start" \notin HoldingSteps /\ "start" \notin JournalledSteps
    BY DEF HoldingSteps, JournalledSteps
  <2> QED BY <1>1, <1>4, <1>6, <2>3, <2>4, <2>5, <2>6, LaunchStep DEF JournalFit
<1>7. CASE AckStores(w, j)
  <2>1. task[w][j].observed \in Owned(j)
    BY <1>5, <1>7 DEF AckStores, At, FitTask, HoldingSteps
  <2>2. PICK p : p = task[w][j].observed
    OBVIOUS
  <2>3. p \in Owned(j) /\ p \in Providers /\ p # 0
    BY <2>1, <2>2, TrainingConstants DEF Owned
  <2>4. CASE Raise(w, j) /\ UNCHANGED launches
    BY <1>1, <1>2, <2>4, RaiseKeeps
  <2>5. CASE SameSandbox(w, j)
    <3>1. PICK row : row = [launches[j] EXCEPT !.sandbox = p]
      OBVIOUS
    <3>2. PICK step \in {"started", "stage", "request"} :
            Go(w, j, step) /\ (step = "stage" => task[w][j].goal = "work")
      BY <1>7, <2>5 DEF AckStores, AfterStore, Acknowledged
    <3>3. PICK c : c = [task[w][j] EXCEPT !.at = step]
      OBVIOUS
    <3>4. /\ c \in Task /\ c.at = step /\ c.goal = task[w][j].goal
          /\ c.observed = p
      BY <1>5, <2>2, <3>3, GoneTask DEF Steps
    <3>5. launches' = [launches EXCEPT ![j] = row] /\ task' = [task EXCEPT ![w][j] = c]
      BY <1>7, <2>2, <2>5, <3>1, <3>2, <3>3 DEF AckStores, Journalled, Go, Become
    <3>6. /\ row \in LaunchRow /\ row.sandbox = p /\ row.receipt = launches[j].receipt
          /\ launches[j].sandbox \in {0, p}
      BY <1>3, <2>2, <2>3, <2>5, <3>1 DEF LaunchRow, SameSandbox
    <3>7. row.receipt # 0 => row.sandbox # 0 /\ sandboxes[row.sandbox].state = "ended"
      BY <1>4, <2>3, <3>6 DEF JournalFit
    <3>8. c.at \notin {"create", "exec"} /\ c.at # "confirm"
      BY <3>4
    <3>9. w = "watchdog" => c.at \notin RunnerSteps /\ (c.at # "idle" => c.goal = "terminate")
      BY <1>2, <1>5, <3>2, <3>4 DEF FitTask, RunnerSteps
    <3> QED BY <1>1, <2>3, <3>4, <3>5, <3>6, <3>7, <3>8, <3>9, LaunchStep
  <2> QED BY <1>7, <2>4, <2>5 DEF AckStores
<1>8. CASE TerminateRecords(w, j)
  <2>1. task[w][j].observed \in Owned(j) /\ launches[j].sandbox # 0
    BY <1>5, <1>8 DEF TerminateRecords, At, FitTask, HoldingSteps, JournalledSteps
  <2>2. launches[j].sandbox \in Owned(j) /\ sandboxes[launches[j].sandbox].state = "ended"
    BY <1>4, <1>8, <2>1 DEF TerminateRecords, TerminationConfirmed, JournalFit, SandboxFit
  <2>3. PICK e \in Evidence :
          /\ launches' = [launches EXCEPT ![j].receipt = e]
          /\ Become(w, j, [task[w][j] EXCEPT !.receipt = e, !.at = "confirm"])
    BY <1>8 DEF TerminateRecords
  <2>4. PICK row : row = [launches[j] EXCEPT !.receipt = e]
    OBVIOUS
  <2>5. PICK c : c = [task[w][j] EXCEPT !.receipt = e, !.at = "confirm"]
    OBVIOUS
  <2>6. /\ row \in LaunchRow /\ row.sandbox = launches[j].sandbox /\ row.receipt = e
    BY <1>3, <2>4 DEF LaunchRow
  <2>7. c \in Task /\ c.at = "confirm" /\ c.goal = task[w][j].goal /\ c.receipt = e
    BY <1>5, <2>5 DEF Task, Steps
  <2>8. launches' = [launches EXCEPT ![j] = row] /\ task' = [task EXCEPT ![w][j] = c]
    BY <2>3, <2>4, <2>5 DEF Become
  <2>9. e # 0
    BY TrainingConstants
  <2>10. w = "watchdog" => c.at \notin RunnerSteps /\ (c.at # "idle" => c.goal = "terminate")
    BY <1>2, <1>5, <2>7 DEF FitTask, RunnerSteps
  <2>11. c.at \notin HoldingSteps
    BY <2>7 DEF HoldingSteps
  <2> QED BY <1>1, <2>1, <2>2, <2>6, <2>7, <2>8, <2>9, <2>10, <2>11, LaunchStep
<1> QED BY <1>6, <1>7, <1>8

-----------------------------------------------------------------------------
(* The job's row.                                                          *)

LEMMA RowStep ==
  ASSUME TrainingInv, TypeOK', JobsTypeOK', NEW w \in Processes, NEW j \in Jobs,
         NEW c \in Task, task' = [task EXCEPT ![w][j] = c],
         JobStep(j), UNCHANGED <<launches, work, providerVars, crashes>>,
         w = "watchdog" => ~(jobs[j].state = "dispatching" /\ Owned(j) = {}),
         execs[j] > 0 \/ jobs'[j].result = jobs[j].result,
         SandboxFit(j)', JournalFit(j)', FitTask(w, j, c)'
  PROVE  TrainingInv'
<1>1. RowsTyped /\ PoolFit
  BY DEF TrainingInv, ModalTyped, RowsTyped
<1>2. \A k \in Jobs \ {j} : jobs'[k] = jobs[k]
  BY OtherRowsKept
<1>3. \A k \in Jobs : Owned(k)' = Owned(k)
  BY DEF Owned, providerVars
<1>4. RowsTyped' /\ PoolFit'
  BY <1>1 DEF RowsTyped, PoolFit, providerVars
<1>5. RowsKept(j)
  BY <1>2, <1>3 DEF RowsKept, providerVars
<1>6. NothingLost(w, j)
  BY <1>3 DEF NothingLost, providerVars
<1>7. WorkerFit(j)'
  BY RowsAt DEF WorkerFit, providerVars
<1> QED BY <1>4, <1>5, <1>6, <1>7, OneTask

\* Places where nothing is relied on.
LEMMA FreeFit ==
  ASSUME NEW w \in Processes, NEW j \in Jobs, NEW c \in Task,
         c.at \in {"idle"} \/ (w = "runner" /\ c.at \in {"clean", "stage"})
  PROVE  FitTask(w, j, c)'
BY DEF FitTask, RunnerSteps, HoldingSteps, JournalledSteps

LEMMA DispatchKeeps ==
  ASSUME TrainingInv, TypeOK', JobsTypeOK', NEW w \in Processes, NEW j \in Jobs,
         w = "runner", Dispatch(w, j)
  PROVE  TrainingInv'
<1>1. UNCHANGED <<launches, work, providerVars, crashes>> /\ BeginDispatch(j)
  BY DEF Dispatch
<1>2. /\ jobs[j].state = "reserved" /\ jobs'[j].state = "dispatching"
      /\ jobs'[j].result = jobs[j].result
  BY <1>1, JobEffects DEF TrainingInv, ModalTyped
<1>3. JobStep(j)
  BY <1>1 DEF JobStep
<1>4. Owned(j) = {} /\ j \notin creating /\ Owned(j)' = Owned(j) /\ UNCHANGED <<creating, launches>>
  BY <1>1, <1>2, RowsAt DEF SandboxFit, Owned, providerVars
<1>5. launches[j].sandbox = 0 /\ launches[j].receipt = 0
  BY <1>4, RowsAt DEF JournalFit
<1>6. SandboxFit(j)' /\ JournalFit(j)'
  BY <1>2, <1>4, <1>5 DEF SandboxFit, JournalFit
<1>7. PICK c : c = [task[w][j] EXCEPT !.at = "create"]
  OBVIOUS
<1>8. c \in Task /\ c.at = "create" /\ task' = [task EXCEPT ![w][j] = c]
  BY <1>7, TaskAt, GoneTask DEF Dispatch, Go, Become, Steps
<1>9. FitTask(w, j, c)'
  BY <1>2, <1>4, <1>8 DEF FitTask, HoldingSteps, JournalledSteps
<1> QED BY <1>1, <1>2, <1>3, <1>6, <1>8, <1>9, RowStep

LEMMA RecordKeeps ==
  ASSUME TrainingInv, TypeOK', JobsTypeOK', NEW w \in Processes, NEW j \in Jobs, Record(w, j)
  PROVE  TrainingInv'
<1>1. UNCHANGED <<launches, work, providerVars, crashes>> /\ Raise(w, j) /\ task[w][j].at = "record"
  BY DEF Record, At
<1>2. CASE UNCHANGED campaignVars
  BY <1>1, <1>2, RaiseKeeps DEF campaignVars, jobVars
<1>3. ASSUME NEW r \in Results, RecordResult(j, r) PROVE TrainingInv'
  <2>1. /\ jobs[j].state = "running" /\ jobs'[j].state = "cleanup_pending"
        /\ jobs'[j].provider = jobs[j].provider
    BY <1>3, JobEffects DEF TrainingInv, ModalTyped
  <2>2. JobStep(j)
    BY <1>3 DEF JobStep
  <2>3. Owned(j)' = Owned(j)
    BY <1>1 DEF Owned, providerVars
  <2>4. SandboxFit(j)' /\ JournalFit(j)'
    BY <1>1, <2>1, <2>3, RowsAt DEF SandboxFit, JournalFit, providerVars
  <2>5. PICK c : c = AfterFailure(task[w][j])
    OBVIOUS
  <2>6. c \in Task /\ c.at \in {"clean", "idle"} /\ task' = [task EXCEPT ![w][j] = c]
    BY <1>1, <2>5, TaskAt, FailedTask DEF Raise, Become
  <2>7. w = "runner"
    BY <1>1, TaskAt, TrainingConstants DEF FitTask, RunnerSteps
  <2>8. FitTask(w, j, c)'
    BY <2>6, <2>7, FreeFit
  <2>9. w # "watchdog" /\ execs[j] > 0
    BY <1>1, <2>7, TaskAt DEF FitTask
  <2> QED BY <1>1, <2>2, <2>4, <2>6, <2>8, <2>9, RowStep
<1> QED BY <1>2, <1>3 DEF Record

\* A process that goes idle, and whose job moved or stayed.
LEMMA DoneKeeps ==
  ASSUME TrainingInv, TypeOK', JobsTypeOK', NEW w \in Processes, NEW j \in Jobs,
         Become(w, j, Idle), UNCHANGED <<launches, work, providerVars, crashes>>,
         \/ UNCHANGED campaignVars
         \/ /\ JobStep(j) /\ jobs[j].state # "dispatching" /\ jobs'[j].result = jobs[j].result
            /\ SandboxFit(j)' /\ JournalFit(j)'
  PROVE  TrainingInv'
<1>1. PICK c : c = Idle
  OBVIOUS
<1>2. c \in Task /\ c.at = "idle" /\ task' = [task EXCEPT ![w][j] = c]
  BY <1>1, IdleTask DEF Become
<1>3. FitTask(w, j, c) /\ FitTask(w, j, c)'
  BY <1>1, <1>2, IdleFits, FreeFit
<1>4. CASE UNCHANGED campaignVars
  BY <1>2, <1>3, <1>4, TaskMoves DEF campaignVars, jobVars
<1>5. CASE /\ JobStep(j) /\ jobs[j].state # "dispatching" /\ jobs'[j].result = jobs[j].result
           /\ SandboxFit(j)' /\ JournalFit(j)'
  BY <1>2, <1>3, <1>5, RowStep
<1> QED BY <1>4, <1>5

LEMMA CancelKeeps ==
  ASSUME TrainingInv, TypeOK', JobsTypeOK', NEW w \in Processes, NEW j \in Jobs, Cancel(w, j)
  PROVE  TrainingInv'
<1>1. UNCHANGED <<launches, work, providerVars, crashes>> /\ Become(w, j, Idle)
  BY DEF Cancel
<1>2. ASSUME CancelUndispatched(j)
      PROVE  /\ JobStep(j) /\ jobs[j].state # "dispatching" /\ jobs'[j].result = jobs[j].result
             /\ SandboxFit(j)' /\ JournalFit(j)'
  <2>1. /\ jobs[j].state = "reserved" /\ jobs'[j].state = "cleaned"
        /\ jobs'[j].result = jobs[j].result
    BY <1>2, JobEffects DEF TrainingInv, ModalTyped
  <2>2. /\ Owned(j) = {} /\ j \notin creating
        /\ Owned(j)' = Owned(j) /\ UNCHANGED <<creating, launches>>
    BY <1>1, <2>1, RowsAt DEF SandboxFit, Owned, providerVars
  <2>3. launches[j].sandbox = 0 /\ launches[j].receipt = 0
    BY <2>2, RowsAt DEF JournalFit
  <2> QED BY <1>2, <2>1, <2>2, <2>3 DEF JobStep, SandboxFit, JournalFit
<1> QED BY <1>1, <1>2, DoneKeeps DEF Cancel

LEMMA ConfirmKeeps ==
  ASSUME TrainingInv, TypeOK', JobsTypeOK', NEW w \in Processes, NEW j \in Jobs,
         TerminateConfirms(w, j)
  PROVE  TrainingInv'
<1>1. /\ UNCHANGED <<launches, work, providerVars, crashes>> /\ Become(w, j, Idle)
      /\ task[w][j].at = "confirm"
  BY DEF TerminateConfirms, At
<1>2. launches[j].receipt # 0 /\ task[w][j].receipt \in Evidence
  BY <1>1, TaskAt DEF FitTask
<1>3. PICK e \in Evidence : e = task[w][j].receipt
  BY <1>2
<1>4. ASSUME ProviderCleanupConfirmed(j, e)
      PROVE  /\ JobStep(j) /\ jobs[j].state # "dispatching" /\ jobs'[j].result = jobs[j].result
             /\ SandboxFit(j)' /\ JournalFit(j)'
  <2>1. /\ jobs[j].state \in {"running", "cleanup_pending"}
        /\ jobs'[j].state \in {"billing_pending", "cleaned"}
        /\ jobs'[j].provider = jobs[j].provider /\ jobs'[j].result = jobs[j].result
    BY <1>4, CleanupEffect DEF TrainingInv, ModalTyped
  <2>2. launches[j].sandbox \in Owned(j) /\ sandboxes[launches[j].sandbox].state = "ended"
    BY <1>2, RowsAt DEF JournalFit
  <2>3. j \notin creating /\ \A p \in Owned(j) : sandboxes[p].state = "ended"
    BY <2>2, RowsAt DEF SandboxFit
  <2>4. Owned(j)' = Owned(j) /\ UNCHANGED <<creating, launches, sandboxes>>
    BY <1>1 DEF Owned, providerVars
  <2>5. JobStep(j)
    BY <1>4 DEF JobStep
  <2>6. SandboxFit(j)'
    BY <2>1, <2>4, RowsAt DEF SandboxFit
  <2>7. JournalFit(j)'
    BY <2>1, <2>2, <2>3, <2>4, RowsAt DEF JournalFit
  <2> QED BY <2>1, <2>5, <2>6, <2>7
<1> QED BY <1>1, <1>3, <1>4, DoneKeeps DEF TerminateConfirms

LEMMA RequestKeeps ==
  ASSUME TrainingInv, TypeOK', JobsTypeOK', NEW w \in Processes, NEW j \in Jobs,
         TerminateRequests(w, j)
  PROVE  TrainingInv'
<1>1. UNCHANGED <<launches, work, providerVars, crashes>> /\ task[w][j].at = "request"
  BY DEF TerminateRequests, At
<1>2. task[w][j].observed \in Owned(j) /\ launches[j].sandbox # 0
  BY <1>1, TaskAt DEF FitTask, HoldingSteps, JournalledSteps
<1>3. /\ "stop" \in Steps \ {"create", "exec", "record"} /\ "stop" \notin RunnerSteps
      /\ "stop" \in HoldingSteps /\ "stop" \in JournalledSteps
  BY DEF Steps, RunnerSteps, HoldingSteps, JournalledSteps
<1>4. CASE UNCHANGED campaignVars
  BY <1>1, <1>2, <1>3, <1>4, GoKeeps, RaiseKeeps DEF TerminateRequests, campaignVars, jobVars
<1>5. CASE RequestCleanup(j) /\ Go(w, j, "stop")
  <2>1. /\ jobs[j].state = "running" /\ jobs'[j].state = "cleanup_pending"
        /\ jobs'[j].provider = jobs[j].provider /\ jobs'[j].result = jobs[j].result
    BY <1>5, JobEffects DEF TrainingInv, ModalTyped
  <2>2. JobStep(j)
    BY <1>5 DEF JobStep
  <2>3. Owned(j)' = Owned(j) /\ UNCHANGED launches
    BY <1>1 DEF Owned, providerVars
  <2>4. SandboxFit(j)' /\ JournalFit(j)'
    BY <1>1, <2>1, <2>3, RowsAt DEF SandboxFit, JournalFit, providerVars
  <2>5. PICK c : c = [task[w][j] EXCEPT !.at = "stop"]
    OBVIOUS
  <2>6. /\ c \in Task /\ c.at = "stop" /\ c.observed = task[w][j].observed
        /\ c.goal = task[w][j].goal /\ task' = [task EXCEPT ![w][j] = c]
    BY <1>5, <2>5, TaskAt, GoneTask DEF Go, Become, Steps
  <2>7. FitTask(w, j, c)'
    BY <1>1, <1>2, <1>3, <2>3, <2>6, TaskAt DEF FitTask
  <2> QED BY <1>1, <2>1, <2>2, <2>4, <2>6, <2>7, RowStep
<1> QED BY <1>4, <1>5 DEF TerminateRequests

LEMMA AckStartsKeeps ==
  ASSUME TrainingInv, TypeOK', JobsTypeOK', NEW w \in Processes, NEW j \in Jobs,
         AckStarts(w, j)
  PROVE  TrainingInv'
<1>1. UNCHANGED <<launches, work, providerVars, crashes>> /\ task[w][j].at = "started"
  BY DEF AckStarts, At
<1>2. PICK p : p = task[w][j].observed
  OBVIOUS
<1>3. p \in Owned(j) /\ launches[j].sandbox # 0 /\ launches[j].sandbox \in Owned(j)
  BY <1>1, <1>2, TaskAt, RowsAt DEF FitTask, HoldingSteps, JournalledSteps, JournalFit
<1>4. launches[j].sandbox = p
  BY <1>3, RowsAt DEF SandboxFit
<1>5. PICK step \in {"stage", "request"} :
        step = Acknowledged(task[w][j]) /\ (step = "stage" => task[w][j].goal = "work")
  BY DEF Acknowledged
<1>6. /\ step \in Steps \ {"create", "exec", "record"} /\ step # "confirm"
      /\ "stage" \notin HoldingSteps /\ "stage" \notin JournalledSteps
      /\ "request" \notin RunnerSteps
  BY <1>5 DEF Steps, HoldingSteps, JournalledSteps, RunnerSteps
<1>7. w = "watchdog" => step \notin RunnerSteps
  BY <1>1, <1>5, <1>6, TaskAt DEF FitTask
<1>8. CASE UNCHANGED campaignVars /\ (Go(w, j, step) \/ Raise(w, j))
  BY <1>1, <1>2, <1>3, <1>5, <1>6, <1>7, <1>8, GoKeeps, RaiseKeeps DEF campaignVars, jobVars
<1>9. CASE ProviderStarted(j, p) /\ Go(w, j, step)
  <2>1. /\ jobs[j].state = "dispatching"
        /\ jobs'[j].state = "running" /\ jobs'[j].provider = p
        /\ jobs'[j].result = jobs[j].result
    BY <1>9, JobEffects DEF TrainingInv, ModalTyped
  <2>2. JobStep(j)
    BY <1>3, <1>9 DEF JobStep, Owned
  <2>3. Owned(j)' = Owned(j) /\ UNCHANGED launches
    BY <1>1 DEF Owned, providerVars
  <2>4. SandboxFit(j)'
    BY <1>1, <2>1, <2>3, RowsAt DEF SandboxFit, providerVars
  <2>5. JournalFit(j)'
    BY <1>1, <1>3, <1>4, <2>1, <2>3, RowsAt DEF JournalFit, providerVars
  <2>6. PICK c : c = [task[w][j] EXCEPT !.at = step]
    OBVIOUS
  <2>7. /\ c \in Task /\ c.at = step /\ c.observed = p
        /\ c.goal = task[w][j].goal /\ task' = [task EXCEPT ![w][j] = c]
    BY <1>2, <1>6, <1>9, <2>6, TaskAt, GoneTask DEF Go, Become
  <2>8. FitTask(w, j, c)'
    BY <1>1, <1>3, <1>6, <1>7, <2>3, <2>7, TaskAt DEF FitTask
  <2> QED BY <1>1, <1>3, <2>1, <2>2, <2>4, <2>5, <2>7, <2>8, RowStep
<1> QED BY <1>2, <1>5, <1>8, <1>9 DEF AckStarts

-----------------------------------------------------------------------------
(* The provider.                                                           *)

LEMMA SubmitKeeps ==
  ASSUME TrainingInv, TypeOK', JobsTypeOK', NEW w \in Processes, NEW j \in Jobs,
         w = "runner", SendCreate(w, j)
  PROVE  TrainingInv'
<1>1. /\ UNCHANGED <<jobs, launches, work, sandboxes, execs, crashes>>
      /\ creating' = creating \union {j} /\ task[w][j].at = "create"
  BY DEF SendCreate, At, campaignVars, jobVars
<1>2. jobs[j].state = "dispatching" /\ Owned(j) = {}
  BY <1>1, TaskAt DEF FitTask
<1>3. PICK c : c = [task[w][j] EXCEPT !.at = "await"]
  OBVIOUS
<1>4. c \in Task /\ c.at = "await" /\ task' = [task EXCEPT ![w][j] = c]
  BY <1>3, TaskAt, GoneTask DEF SendCreate, Go, Become, Steps
<1>5. \A k \in Jobs : Owned(k)' = Owned(k)
  BY <1>1 DEF Owned
<1>6. RowsTyped' /\ PoolFit'
  BY <1>1 DEF TrainingInv, ModalTyped, RowsTyped, PoolFit
<1>7. RowsKept(j)
  BY <1>1, <1>5 DEF RowsKept
<1>8. NothingLost(w, j)
  BY <1>1, <1>5, TrainingConstants DEF NothingLost
<1>9. SandboxFit(j)' /\ JournalFit(j)' /\ WorkerFit(j)'
  BY <1>1, <1>2, <1>5, RowsAt DEF SandboxFit, JournalFit, WorkerFit
<1>10. FitTask(w, j, c)'
  BY <1>4 DEF FitTask, HoldingSteps, JournalledSteps
<1> QED BY <1>1, <1>4, <1>6, <1>7, <1>8, <1>9, <1>10, OneTask

LEMMA ExecuteKeeps ==
  ASSUME TrainingInv, TypeOK', JobsTypeOK', NEW w \in Processes, NEW j \in Jobs,
         w = "runner", Execute(w, j)
  PROVE  TrainingInv'
<1>1. /\ UNCHANGED <<jobs, launches, work, creating, sandboxes, crashes>>
      /\ execs' = [execs EXCEPT ![j] = @ + 1] /\ task[w][j].at = "exec"
      /\ Go(w, j, "export") \/ Raise(w, j)
  BY DEF Execute, At, campaignVars, jobVars
<1>2. work[j].attempted /\ execs[j] = 0
  BY <1>1, TaskAt DEF FitTask
<1>3. execs \in [Jobs -> Nat]
  BY DEF TrainingInv, ModalTyped
<1>4. execs' \in [Jobs -> Nat] /\ execs'[j] = 1 /\ \A k \in Jobs \ {j} : execs'[k] = execs[k]
  BY <1>1, <1>2, <1>3
<1>5. PICK c : c \in Task /\ c.at \in {"export", "clean", "idle"}
                          /\ task' = [task EXCEPT ![w][j] = c]
  <2>1. CASE Go(w, j, "export")
    <3>1. PICK c : c = [task[w][j] EXCEPT !.at = "export"]
      OBVIOUS
    <3>2. c \in Task /\ c.at = "export"
      BY <3>1, TaskAt, GoneTask DEF Steps
    <3> QED BY <2>1, <3>1, <3>2 DEF Go, Become
  <2>2. CASE Raise(w, j)
    BY <2>2, TaskAt, FailedTask DEF Raise, Become
  <2> QED BY <1>1, <2>1, <2>2
<1>6. \A k \in Jobs : Owned(k)' = Owned(k)
  BY <1>1 DEF Owned
<1>7. RowsTyped' /\ PoolFit'
  BY <1>1, <1>4 DEF TrainingInv, ModalTyped, RowsTyped, PoolFit
<1>8. RowsKept(j)
  BY <1>1, <1>4, <1>6 DEF RowsKept
<1>9. NothingLost(w, j)
  BY <1>1, <1>6, TrainingConstants DEF NothingLost
<1>10. SandboxFit(j)' /\ JournalFit(j)'
  BY <1>1, <1>6, RowsAt DEF SandboxFit, JournalFit
<1>11. WorkerFit(j)'
  BY <1>1, <1>2, <1>4, RowsAt DEF WorkerFit
<1>12. FitTask(w, j, c)'
  BY <1>5, TrainingConstants DEF FitTask, HoldingSteps, JournalledSteps
<1> QED BY <1>1, <1>5, <1>7, <1>8, <1>9, <1>10, <1>11, <1>12, OneTask

\* Ending a sandbox leaves it to its job.
LEMMA EndedSandbox ==
  ASSUME TrainingInv, NEW p \in Providers, Ended(p) \/ UNCHANGED sandboxes
  PROVE  /\ sandboxes' \in [Providers ->
                           [job: {0} \union Jobs, state: {"none", "running", "ended"}]]
         /\ \A q \in Providers : /\ sandboxes'[q].job = sandboxes[q].job
                                 /\ sandboxes'[q].state \in {sandboxes[q].state, "ended"}
         /\ \A q \in Providers \ {p} : sandboxes'[q] = sandboxes[q]
         /\ \A k \in Jobs : Owned(k)' = Owned(k)
<1>1. sandboxes \in [Providers -> [job: {0} \union Jobs, state: {"none", "running", "ended"}]]
  BY DEF TrainingInv, ModalTyped
<1>2. PICK row : row = [sandboxes[p] EXCEPT !.state = "ended"]
  OBVIOUS
<1>3. /\ row \in [job: {0} \union Jobs, state: {"none", "running", "ended"}]
      /\ row.job = sandboxes[p].job /\ row.state = "ended"
  BY <1>1, <1>2
<1>4. sandboxes' = [sandboxes EXCEPT ![p] = row] \/ UNCHANGED sandboxes
  BY <1>2 DEF Ended
<1>5. /\ sandboxes' \in [Providers -> [job: {0} \union Jobs, state: {"none", "running", "ended"}]]
      /\ \A q \in Providers : /\ sandboxes'[q].job = sandboxes[q].job
                              /\ sandboxes'[q].state \in {sandboxes[q].state, "ended"}
      /\ \A q \in Providers \ {p} : sandboxes'[q] = sandboxes[q]
  BY <1>1, <1>3, <1>4
<1> QED BY <1>5 DEF Owned

LEMMA StopsKeeps ==
  ASSUME TrainingInv, TypeOK', JobsTypeOK', NEW w \in Processes, NEW j \in Jobs,
         TerminateStops(w, j)
  PROVE  TrainingInv'
<1>1. /\ UNCHANGED <<jobs, launches, work, creating, execs, crashes>>
      /\ task[w][j].at = "stop" /\ (Go(w, j, "receipt") \/ Raise(w, j))
      /\ Ended(task[w][j].observed) \/ UNCHANGED sandboxes
  BY DEF TerminateStops, At, campaignVars, jobVars
<1>2. task[w][j].observed \in Owned(j) /\ launches[j].sandbox # 0
  BY <1>1, TaskAt DEF FitTask, HoldingSteps, JournalledSteps
<1>3. PICK p \in Providers : p = task[w][j].observed
  BY <1>2 DEF Owned
<1>4. /\ sandboxes' \in [Providers -> [job: {0} \union Jobs, state: {"none", "running", "ended"}]]
      /\ \A q \in Providers : /\ sandboxes'[q].job = sandboxes[q].job
                              /\ sandboxes'[q].state \in {sandboxes[q].state, "ended"}
      /\ \A k \in Jobs : Owned(k)' = Owned(k)
  BY <1>1, <1>3, EndedSandbox
<1>5. PICK c : c \in Task /\ c.at \in {"receipt", "clean", "idle"}
               /\ task' = [task EXCEPT ![w][j] = c]
               /\ (c.at = "receipt" => c.observed = p /\ c.goal = task[w][j].goal)
               /\ (c.at = "clean" => w # "watchdog")
  <2>1. CASE Go(w, j, "receipt")
    <3>1. PICK c : c = [task[w][j] EXCEPT !.at = "receipt"]
      OBVIOUS
    <3>2. c \in Task /\ c.at = "receipt" /\ c.observed = p /\ c.goal = task[w][j].goal
      BY <1>3, <3>1, TaskAt, GoneTask DEF Steps
    <3> QED BY <2>1, <3>1, <3>2 DEF Go, Become
  <2>2. CASE Raise(w, j)
    <3>1. PICK c : c = AfterFailure(task[w][j])
      OBVIOUS
    <3>2. c \in Task /\ c.at \in {"clean", "idle"} /\ (c.at = "clean" => task[w][j].goal = "work")
      BY <3>1, TaskAt, FailedTask
    <3>3. c.at = "clean" => w # "watchdog"
      BY <1>1, <3>2, TaskAt DEF FitTask
    <3> QED BY <2>2, <3>1, <3>2, <3>3 DEF Raise, Become
  <2> QED BY <1>1, <2>1, <2>2
<1>6. RowsTyped'
  BY <1>1, <1>4 DEF TrainingInv, ModalTyped, RowsTyped
<1>7. PoolFit'
  BY <1>4 DEF TrainingInv, PoolFit
<1>8. RowsKept(j)
  <2>1. \A k \in Jobs, q \in Providers :
          sandboxes[q].state = "ended" => sandboxes'[q].state = "ended"
    BY <1>4
  <2> QED BY <1>1, <1>4, <2>1 DEF RowsKept, Owned
<1>9. NothingLost(w, j)
  BY <1>1, <1>4 DEF NothingLost
<1>10. SandboxFit(j)' /\ WorkerFit(j)'
  BY <1>1, <1>4, RowsAt DEF SandboxFit, WorkerFit
<1>11. JournalFit(j)'
  BY <1>1, <1>4, RowsAt DEF JournalFit, Owned
<1>12. FitTask(w, j, c)'
  <2>1. "receipt" \notin RunnerSteps /\ "receipt" \notin {"create", "exec", "record", "confirm"}
        /\ "clean" \notin HoldingSteps /\ "clean" \notin JournalledSteps
        /\ "idle" \notin HoldingSteps /\ "idle" \notin JournalledSteps /\ "idle" \notin RunnerSteps
    BY DEF RunnerSteps, HoldingSteps, JournalledSteps
  <2> QED BY <1>1, <1>2, <1>3, <1>4, <1>5, <2>1, TaskAt DEF FitTask
<1> QED BY <1>1, <1>5, <1>6, <1>7, <1>8, <1>9, <1>10, <1>11, <1>12, OneTask

LEMMA CreatesKeeps ==
  ASSUME TrainingInv, TypeOK', JobsTypeOK', NEW j \in Jobs, NEW p \in Providers,
         ProviderCreates(j, p)
  PROVE  TrainingInv'
<1>1. /\ UNCHANGED <<jobs, launches, work, task, execs, crashes>>
      /\ j \in creating /\ creating' = creating \ {j} /\ sandboxes[p].state = "none"
  BY DEF ProviderCreates, campaignVars, jobVars
<1>2. PICK row : row = [job |-> j, state |-> "running"]
  OBVIOUS
<1>3. /\ sandboxes \in [Providers -> [job: {0} \union Jobs, state: {"none", "running", "ended"}]]
      /\ row \in [job: {0} \union Jobs, state: {"none", "running", "ended"}]
      /\ row.job = j /\ row.state = "running"
  BY <1>2 DEF TrainingInv, ModalTyped
<1>4. /\ sandboxes' \in [Providers -> [job: {0} \union Jobs, state: {"none", "running", "ended"}]]
      /\ sandboxes'[p] = row
      /\ \A q \in Providers \ {p} : sandboxes'[q] = sandboxes[q]
  BY <1>2, <1>3 DEF ProviderCreates
<1>5. sandboxes[p].job = 0 /\ \A k \in Jobs : p \notin Owned(k)
  BY <1>1, TrainingConstants DEF TrainingInv, PoolFit, Owned
<1>6. Owned(j) = {}
  BY <1>1, RowsAt DEF SandboxFit
<1>7. Owned(j)' = {p} /\ \A k \in Jobs \ {j} : Owned(k)' = Owned(k)
  BY <1>3, <1>4, <1>5, <1>6 DEF Owned
<1>8. jobs[j].state \notin {"absent", "reserved", "billing_pending", "cleaned"}
  BY <1>1, RowsAt DEF SandboxFit, JournalFit
<1>9. launches[j].sandbox = 0
  BY <1>6, RowsAt DEF JournalFit
<1>10. ModalTyped'
  BY <1>1, <1>4 DEF TrainingInv, ModalTyped
<1>11. PoolFit'
  BY <1>3, <1>4 DEF TrainingInv, PoolFit
<1>12. OthersKept(j)
  BY <1>1, <1>4, <1>5, <1>7 DEF OthersKept, Owned
<1>13. SandboxFit(j)'
  BY <1>1, <1>7, <1>8 DEF SandboxFit
<1>14. JournalFit(j)' /\ WorkerFit(j)'
  BY <1>1, <1>8, <1>9, RowsAt DEF JournalFit, WorkerFit
<1>15. ASSUME NEW w \in Processes PROVE FitTask(w, j, task[w][j])'
  BY <1>1, <1>6, TaskAt DEF FitTask
<1> QED BY <1>10, <1>11, <1>12, <1>13, <1>14, <1>15, OneJob

\* What a failure outside the two processes may do: a submission is lost, a
\* sandbox ends, a process forgets its task.  Nothing is relied on that it
\* could take away.
LEMMA FailuresKeep ==
  ASSUME TrainingInv, TypeOK', JobsTypeOK', UNCHANGED <<jobs, launches, work, execs>>,
         creating' \subseteq creating, crashes' \in 0..MaxCrashes,
         sandboxes' \in [Providers -> [job: {0} \union Jobs, state: {"none", "running", "ended"}]],
         \A q \in Providers : /\ sandboxes'[q].job = sandboxes[q].job
                              /\ sandboxes'[q].state \in {sandboxes[q].state, "ended"},
         \A k \in Jobs : Owned(k)' = Owned(k),
         task' \in [Processes -> [Jobs -> Task]],
         \A w \in Processes, j \in Jobs : task'[w][j] \in {task[w][j], Idle}
  PROVE  TrainingInv'
<1>1. ModalTyped' /\ PoolFit'
  BY DEF TrainingInv, ModalTyped, PoolFit
<1>2. ASSUME NEW k \in Jobs PROVE SandboxFit(k)' /\ JournalFit(k)' /\ WorkerFit(k)'
  <2>1. SandboxFit(k)' /\ WorkerFit(k)'
    BY RowsAt DEF SandboxFit, WorkerFit
  <2>2. JournalFit(k)'
    BY RowsAt DEF JournalFit, Owned
  <2> QED BY <2>1, <2>2
<1>3. ASSUME NEW w \in Processes, NEW j \in Jobs PROVE FitTask(w, j, task[w][j])'
  <2>1. PICK t : t = task'[w][j]
    OBVIOUS
  <2>2. FitTask(w, j, t)
    BY <2>1, TaskAt, IdleFits
  <2>3. FitTask(w, j, t)'
    BY <2>2, FitKept
  <2> QED BY <2>1, <2>3 DEF FitTask
<1> QED BY <1>1, <1>2, <1>3 DEF TrainingInv, RowsFit, TasksFit

LEMMA EnvironmentKeeps ==
  ASSUME TrainingInv, TypeOK', JobsTypeOK',
         \/ \E j \in Jobs : CreateLost(j)
         \/ \E p \in Providers : SandboxEnds(p)
         \/ \E w \in Processes : Crash(w)
  PROVE  TrainingInv'
<1>1. /\ task \in [Processes -> [Jobs -> Task]] /\ crashes \in 0..MaxCrashes /\ MaxCrashes \in Nat
      /\ sandboxes \in [Providers -> [job: {0} \union Jobs, state: {"none", "running", "ended"}]]
  BY TrainingAssumption DEF TrainingInv, ModalTyped
<1>2. UNCHANGED sandboxes => \A k \in Jobs : Owned(k)' = Owned(k)
  BY DEF Owned
<1>3. ASSUME NEW j \in Jobs, CreateLost(j) PROVE TrainingInv'
  BY <1>1, <1>2, <1>3, FailuresKeep DEF CreateLost, campaignVars, jobVars
<1>4. ASSUME NEW p \in Providers, SandboxEnds(p) PROVE TrainingInv'
  <2>1. UNCHANGED <<jobs, launches, work, task, creating, execs, crashes>> /\ Ended(p)
    BY <1>4 DEF SandboxEnds, campaignVars, jobVars
  <2> QED BY <1>1, <2>1, EndedSandbox, FailuresKeep
<1>5. ASSUME NEW w \in Processes, Crash(w) PROVE TrainingInv'
  <2>1. /\ UNCHANGED <<jobs, launches, work, creating, sandboxes, execs>>
        /\ crashes < MaxCrashes /\ crashes' = crashes + 1
        /\ task' = [task EXCEPT ![w] = [j \in Jobs |-> Idle]]
    BY <1>5 DEF Crash, campaignVars, jobVars, providerVars
  <2>2. crashes' \in 0..MaxCrashes
    BY <1>1, <2>1
  <2>3. [j \in Jobs |-> Idle] \in [Jobs -> Task]
    BY IdleTask
  <2>4. /\ task' \in [Processes -> [Jobs -> Task]]
        /\ \A v \in Processes, j \in Jobs : task'[v][j] \in {task[v][j], Idle}
    BY <1>1, <2>1, <2>3
  <2> QED BY <1>1, <1>2, <2>1, <2>2, <2>4, FailuresKeep
<1> QED BY <1>3, <1>4, <1>5

LEMMA CampaignKeeps ==
  ASSUME TrainingInv, TypeOK', JobsTypeOK', Campaign
  PROVE  TrainingInv'
<1>1. UNCHANGED <<launches, work, task, creating, sandboxes, execs, crashes>>
  BY DEF Campaign, trainingVars
<1>2. \A k \in Jobs : Owned(k)' = Owned(k)
  BY <1>1 DEF Owned
<1>3. ModalTyped' /\ PoolFit'
  BY <1>1 DEF TrainingInv, ModalTyped, PoolFit
<1>4. CASE UNCHANGED jobs
  BY <1>1, <1>2, <1>4, FailuresKeep DEF TrainingInv, ModalTyped
<1>5. ASSUME NEW j \in Jobs, NEW amount \in Amounts, NEW timeout \in Timeouts,
             AdmitJob(j, "training", amount, timeout)
      PROVE  TrainingInv'
  <2>1. jobs[j].state = "absent" /\ jobs'[j].state = "reserved" /\ jobs'[j].result = 0
    <3>1. jobs \in [Jobs -> JobRow]
      BY DEF TrainingInv, ModalTyped, JobsTypeOK
    <3> QED BY <1>5, <3>1 DEF AdmitJob, AbsentJob
  <2>2. JobStep(j)
    BY <1>5, TrainingAssumption DEF JobStep
  <2>3. \A k \in Jobs \ {j} : jobs'[k] = jobs[k]
    BY <2>2, OtherRowsKept
  <2>4. OthersKept(j)
    BY <1>1, <1>2, <2>3 DEF OthersKept
  <2>5. SandboxFit(j)' /\ JournalFit(j)' /\ WorkerFit(j)'
    BY <1>1, <1>2, <2>1, RowsAt DEF SandboxFit, JournalFit, WorkerFit
  <2>6. ASSUME NEW w \in Processes PROVE FitTask(w, j, task[w][j])'
    BY <1>1, <1>2, <2>1, TaskAt DEF FitTask
  <2> QED BY <1>3, <2>4, <2>5, <2>6, OneJob
<1>6. Stop \/ (Tick /\ UNCHANGED jobVars) => UNCHANGED jobs
  BY DEF Stop, jobVars
<1> QED BY <1>4, <1>5, <1>6 DEF Campaign

-----------------------------------------------------------------------------
(* Every step.                                                             *)

LEMMA TrainingStep ==
  ASSUME TrainingInv, [ModalNext]_modalVars
  PROVE  TrainingInv'
<1>1. TypeOK' /\ JobsTypeOK'
  BY CampaignTyped
<1>2. ASSUME NEW j \in Jobs, RunnerStep(j) PROVE TrainingInv'
  <2>1. PICK w \in Processes : w = "runner"
    BY TrainingConstants
  <2>2. \/ RunnerPicks(j) \/ Prepare(w, j) \/ StartReads(w, j) \/ StartLooks(w, j)
        \/ StartInspects(w, j) \/ Dispatch(w, j) \/ SendCreate(w, j) \/ CreateReturns(w, j)
        \/ StageClaims(w, j) \/ Upload(w, j) \/ WorkerClaims(w, j) \/ Execute(w, j)
        \/ Export(w, j) \/ Record(w, j) \/ CleanReads(w, j)
    BY <1>2, <2>1 DEF RunnerStep
  <2>3. RunnerPicks(j) => TrainingInv'
    BY <1>1, PicksKeep
  <2>4. Prepare(w, j) => TrainingInv'
    BY <1>1, <2>1, JournalKeeps
  <2>5. StartReads(w, j) \/ StartLooks(w, j) \/ StartInspects(w, j) \/ CreateReturns(w, j)
          \/ CleanReads(w, j) => TrainingInv'
    BY <1>1, <2>1, RunnerReadsKeep
  <2>6. Dispatch(w, j) => TrainingInv'
    BY <1>1, <2>1, DispatchKeeps
  <2>7. SendCreate(w, j) => TrainingInv'
    BY <1>1, <2>1, SubmitKeeps
  <2>8. StageClaims(w, j) \/ Upload(w, j) \/ WorkerClaims(w, j) \/ Export(w, j) => TrainingInv'
    BY <1>1, <2>1, WorkKeeps
  <2>9. Execute(w, j) => TrainingInv'
    BY <1>1, <2>1, ExecuteKeeps
  <2>10. Record(w, j) => TrainingInv'
    BY <1>1, RecordKeeps
  <2> QED BY <2>2, <2>3, <2>4, <2>5, <2>6, <2>7, <2>8, <2>9, <2>10
<1>3. ASSUME NEW w \in Processes, NEW j \in Jobs, Cleanup(w, j) \/ CallFails(w, j)
      PROVE  TrainingInv'
  <2>1. AckReads(w, j) \/ TerminateReads(w, j) \/ TerminateLooks(w, j) \/ CallFails(w, j)
          => TrainingInv'
    BY <1>1, CleanupReadsKeep
  <2>2. AckStores(w, j) \/ TerminateRecords(w, j) => TrainingInv'
    BY <1>1, JournalKeeps
  <2>3. AckStarts(w, j) => TrainingInv'
    BY <1>1, AckStartsKeeps
  <2>4. Cancel(w, j) => TrainingInv'
    BY <1>1, CancelKeeps
  <2>5. TerminateRequests(w, j) => TrainingInv'
    BY <1>1, RequestKeeps
  <2>6. TerminateStops(w, j) => TrainingInv'
    BY <1>1, StopsKeeps
  <2>7. TerminateConfirms(w, j) => TrainingInv'
    BY <1>1, ConfirmKeeps
  <2> QED BY <1>3, <2>1, <2>2, <2>3, <2>4, <2>5, <2>6, <2>7 DEF Cleanup
<1>4. CASE Campaign
  BY <1>1, <1>4, CampaignKeeps
<1>5. ASSUME NEW j \in Jobs, WatchdogPicks(j) PROVE TrainingInv'
  BY <1>1, <1>5, PicksKeep
<1>6. ASSUME NEW j \in Jobs, NEW p \in Providers, ProviderCreates(j, p) PROVE TrainingInv'
  BY <1>1, <1>6, CreatesKeeps
<1>7. ASSUME \/ \E j \in Jobs : CreateLost(j)
             \/ \E p \in Providers : SandboxEnds(p)
             \/ \E w \in Processes : Crash(w)
      PROVE  TrainingInv'
  BY <1>1, <1>7, EnvironmentKeeps
<1>8. CASE UNCHANGED modalVars
  <2>1. /\ UNCHANGED <<jobs, launches, work, task, creating, sandboxes, execs, crashes>>
        /\ \A k \in Jobs : Owned(k)' = Owned(k)
    BY <1>8 DEF modalVars, campaignVars, jobVars, trainingVars, Owned
  <2> QED BY <1>1, <2>1, FailuresKeep DEF TrainingInv, ModalTyped
<1> QED BY <1>2, <1>3, <1>4, <1>5, <1>6, <1>7, <1>8 DEF ModalNext

LEMMA TrainingStarts ==
  ASSUME ModalInit
  PROVE  TrainingInv
<1>1. TypeOK /\ JobsTypeOK
  BY LedgerInitTyped, JobsInitTyped DEF ModalInit, JobsInit
<1>2. ModalTyped
  <2>1. [j \in Jobs |-> Idle] \in [Jobs -> Task]
    BY IdleTask
  <2>2. task \in [Processes -> [Jobs -> Task]] /\ 0 \in 0..MaxCrashes
    BY <2>1, TrainingAssumption DEF ModalInit
  <2> QED BY <1>1, <2>2 DEF ModalInit, ModalTyped, NoLaunch, NoWork
<1>3. \A j \in Jobs : Owned(j) = {} /\ launches[j] = NoLaunch /\ work[j] = NoWork
                      /\ jobs[j].state = "absent" /\ jobs[j].result = 0 /\ execs[j] = 0
  BY TrainingConstants DEF ModalInit, JobsInit, Owned, AbsentJob
<1>4. RowsFit
  BY <1>3 DEF RowsFit, SandboxFit, JournalFit, WorkerFit, NoLaunch, NoWork, ModalInit
<1>5. TasksFit
  BY IdleFits DEF TasksFit, ModalInit
<1>6. PoolFit
  BY DEF PoolFit, ModalInit
<1> QED BY <1>2, <1>4, <1>5, <1>6 DEF TrainingInv

\* What a process reads before it waits for the provider, or another process,
\* still holds when it acts on it, at every step of every behaviour.
THEOREM TrainingIsSound == ModalSpec => []TrainingInv
<1>1. TrainingInv /\ [ModalNext]_modalVars => TrainingInv'
  BY TrainingStep
<1> QED BY <1>1, TrainingStarts, PTL DEF ModalSpec

\* The runner and the watchdog drive a campaign through the controller's own
\* operations: every behaviour of the two is one of the campaign's jobs, so
\* whatever is proved of those holds of it.
THEOREM TrainingImplementsJobs == ModalSpec => JobsSpec
<1>1. ModalInit => JobsInit
  BY DEF ModalInit
<1>2. TrainingInv /\ [ModalNext]_modalVars => [JobsNext]_campaignVars
  BY TrainingStepsJobs
<1> QED BY <1>1, <1>2, TrainingIsSound, PTL DEF ModalSpec, JobsSpec

\* Crashes, retries and the two processes' races never promise more of an
\* allowance than it holds, nor more work than a provider group has slots.
THEOREM TrainingRespectsCampaign == ModalSpec => [](AllowanceRespected /\ SlotsRespected)
BY TrainingImplementsJobs, CampaignAllowanceRespected, SlotsAlwaysRespected, PTL

\* Nor do they lose money out of sight: the accounts balance, bills count once,
\* every hold is in the state its job's lifecycle requires, only work that never
\* ran is refunded whole, and neither accounts nor jobs go back.
THEOREM TrainingKeepsAccounts ==
  ModalSpec => /\ [](AccountingBalances /\ BillsCountedOnce)
               /\ [](HoldsFollowJobs /\ RefundsAreForWorkThatNeverRan)
               /\ AccountedUsageIsFinal /\ JobsOnlyAdvance
BY TrainingImplementsJobs, CampaignAccountsKept, HoldsAlwaysFollowJobs,
   RefundsOnlyForWorkThatNeverRan, JobLifecycleRunsOneWay, PTL

\* The rows of the launch, of the transfer and of the provider stay well formed.
THEOREM TrainingTypeCorrect == ModalSpec => []ModalTypeOK
<1>1. TrainingInv => ModalTypeOK
  BY DEF TrainingInv, ModalTyped, RowsFit, JournalFit, WorkerFit, ModalTypeOK
<1> QED BY <1>1, TrainingIsSound, PTL

\* A job never pays for two sandboxes, those it may still be given included,
\* though start may be repeated after a crash and its create call may time out.
THEOREM OneSandboxPerJob == ModalSpec => []OneSandbox
<1>1. ASSUME TrainingInv PROVE OneSandbox
  <2>1. ASSUME NEW j \in Jobs
        PROVE  Cardinality(Owned(j)) + (IF j \in creating THEN 1 ELSE 0) <= 1
    <3>1. SandboxFit(j)
      BY <1>1, RowsAt
    <3>2. CASE Owned(j) = {}
      BY <3>2, FS_EmptySet
    <3>3. CASE Owned(j) # {}
      <4>1. PICK p : p \in Owned(j)
        BY <3>3
      <4>2. Owned(j) = {p}
        BY <3>1, <4>1 DEF SandboxFit
      <4>3. Cardinality(Owned(j)) = 1
        BY <4>2, FS_Singleton
      <4>4. j \notin creating
        BY <3>1, <3>3 DEF SandboxFit
      <4> QED BY <4>3, <4>4
    <3> QED BY <3>2, <3>3
  <2> QED BY <2>1 DEF OneSandbox
<1> QED BY <1>1, TrainingIsSound, PTL

\* After a confirmed cleanup (terminate), and after a refund
\* (cancel_undispatched), nothing of the job runs or can still start.
THEOREM CleanupIsAlwaysProof == ModalSpec => []CleanupIsProof
<1>1. TrainingInv => CleanupIsProof
  BY DEF TrainingInv, RowsFit, JournalFit, CleanupIsProof
<1> QED BY <1>1, TrainingIsSound, PTL

\* The worker of a job (run_worker) is executed at most once, though its
\* acknowledgement may be lost and the dispatch repeated.
THEOREM WorkerRunsOnce == ModalSpec => []WorkerOnce
<1>1. TrainingInv => WorkerOnce
  BY DEF TrainingInv, RowsFit, WorkerFit, WorkerOnce
<1> QED BY <1>1, TrainingIsSound, PTL

-----------------------------------------------------------------------------
(* The promise to the caller (ProviderWork).                               *)

Closed(job) == job.state \in {"billing_pending", "cleaned"}

(* What of the promise's state is said of job k.                           *)
SameProvision(k) ==
  /\ SandboxPhase(k)' = SandboxPhase(k)
  /\ execs'[k] = execs[k]
  /\ jobs'[k].result # 0 <=> jobs[k].result # 0
  /\ Closed(jobs'[k]) <=> Closed(jobs[k])
PhaseMoves(j, from, to) ==
  /\ SandboxPhase(j) = from /\ SandboxPhase(j)' = to
  /\ execs'[j] = execs[j]
  /\ jobs'[j].result # 0 <=> jobs[j].result # 0
  /\ Closed(jobs'[j]) <=> Closed(jobs[j])
Works(j) ==
  /\ SandboxPhase(j) = "live" /\ SandboxPhase(j)' = SandboxPhase(j)
  /\ execs[j] = 0 /\ execs'[j] = 1
  /\ jobs'[j].result # 0 <=> jobs[j].result # 0
  /\ Closed(jobs'[j]) <=> Closed(jobs[j])
ReportsResult(j) ==
  /\ SandboxPhase(j)' = SandboxPhase(j) /\ execs[j] > 0 /\ execs'[j] = execs[j]
  /\ jobs[j].result = 0 /\ jobs'[j].result # 0
  /\ ~Closed(jobs[j]) /\ ~Closed(jobs'[j])
Closes(j) ==
  /\ SandboxPhase(j) \in {"never", "gone"} /\ SandboxPhase(j)' = SandboxPhase(j)
  /\ execs'[j] = execs[j]
  /\ jobs'[j].result # 0 <=> jobs[j].result # 0
  /\ ~Closed(jobs[j]) /\ Closed(jobs'[j])
Provides(j) ==
  \/ SameProvision(j)
  \/ PhaseMoves(j, "never", "asked") /\ ~Closed(jobs[j])
  \/ PhaseMoves(j, "asked", "live") \/ PhaseMoves(j, "live", "gone")
  \/ Works(j) \/ ReportsResult(j) \/ Closes(j)

\* A step that concerns one job, and of which the promise allows that job's part.
LEMMA OneJobProvides ==
  ASSUME NEW j \in Jobs, Provides(j), \A k \in Jobs \ {j} : SameProvision(k)
  PROVE  [Provision!Next]_(Provision!vars)
<1> DEFINE phase == [k \in Jobs |-> SandboxPhase(k)]
           ran == [k \in Jobs |-> execs[k]]
           reported == {k \in Jobs : jobs[k].result # 0}
           closed == {k \in Jobs : jobs[k].state \in {"billing_pending", "cleaned"}}
<1>1. ASSUME NEW from, NEW to, PhaseMoves(j, from, to)
      PROVE  Provision!Moves(j, from, to)
  <2>1. phase[j] = from
    BY <1>1 DEF PhaseMoves
  <2>2. phase' = [phase EXCEPT ![j] = to]
    BY <1>1 DEF PhaseMoves, SameProvision
  <2>3. ran' = ran /\ reported' = reported /\ closed' = closed
    BY <1>1 DEF PhaseMoves, SameProvision, Closed
  <2> QED BY <2>1, <2>2, <2>3 DEF Provision!Moves
<1>2. phase' = phase \/ ~(SandboxPhase(j)' = SandboxPhase(j))
  BY DEF SameProvision
<1>3. CASE SameProvision(j)
  <2>1. phase' = phase /\ ran' = ran /\ reported' = reported /\ closed' = closed
    BY <1>3 DEF SameProvision, Closed
  <2> QED BY <2>1 DEF Provision!vars
<1>4. CASE PhaseMoves(j, "never", "asked") /\ ~Closed(jobs[j])
  BY <1>1, <1>4 DEF Closed, Provision!Ask, Provision!Next
<1>5. CASE PhaseMoves(j, "asked", "live") \/ PhaseMoves(j, "live", "gone")
  BY <1>1, <1>5 DEF Provision!Appear, Provision!Vanish, Provision!Next
<1>6. CASE Works(j)
  <2>1. phase' = phase /\ phase[j] = "live" /\ ran[j] = 0
    BY <1>2, <1>6 DEF Works
  <2>2. ran' = [ran EXCEPT ![j] = 1]
    BY <1>6 DEF Works, SameProvision
  <2>3. reported' = reported /\ closed' = closed
    BY <1>6 DEF Works, SameProvision, Closed
  <2>4. Provision!Work(j)
    BY <2>1, <2>2, <2>3 DEF Provision!Work
  <2> QED BY <2>4 DEF Provision!Next
<1>7. CASE ReportsResult(j)
  <2>1. phase' = phase /\ ran[j] # 0 /\ j \notin reported /\ j \notin closed
    BY <1>2, <1>7 DEF ReportsResult, Closed
  <2>2. reported' = reported \union {j}
    BY <1>7 DEF ReportsResult, SameProvision
  <2>3. ran' = ran /\ closed' = closed
    BY <1>7 DEF ReportsResult, SameProvision, Closed
  <2>4. Provision!Report(j)
    BY <2>1, <2>2, <2>3 DEF Provision!Report
  <2> QED BY <2>4 DEF Provision!Next
<1>8. CASE Closes(j)
  <2>1. phase' = phase /\ phase[j] \in {"never", "gone"} /\ j \notin closed
    BY <1>2, <1>8 DEF Closes, Closed
  <2>2. closed' = closed \union {j}
    BY <1>8 DEF Closes, SameProvision, Closed
  <2>3. ran' = ran /\ reported' = reported
    BY <1>8 DEF Closes, SameProvision
  <2>4. Provision!Close(j)
    BY <2>1, <2>2, <2>3 DEF Provision!Close
  <2> QED BY <2>4 DEF Provision!Next
<1> QED BY <1>3, <1>4, <1>5, <1>6, <1>7, <1>8 DEF Provides

\* What the phase of a job says and is said by.
LEMMA PhaseMeans ==
  ASSUME TrainingInv, NEW j \in Jobs
  PROVE  /\ Owned(j) = {} => Named(j) = {}
         /\ jobs[j].state \in {"absent", "reserved"} => SandboxPhase(j) = "never"
         /\ jobs[j].state \in {"running", "cleanup_pending", "billing_pending"} =>
              Owned(j) # {}
         /\ Closed(jobs[j]) => Named(j) = {}
<1>1. Owned(j) = {} => Named(j) = {}
  BY DEF Owned, Named
<1>2. jobs[j].state \in {"absent", "reserved"} => SandboxPhase(j) = "never"
  BY <1>1, RowsAt DEF SandboxFit, SandboxPhase
<1>3. jobs[j].state \in {"running", "cleanup_pending", "billing_pending"} => Owned(j) # {}
  BY RowsAt DEF JournalFit
<1>4. Closed(jobs[j]) => Named(j) = {}
  BY RowsAt DEF JournalFit, Closed, Named, Owned, Running
<1> QED BY <1>1, <1>2, <1>3, <1>4

\* While the provider and the workers rest, a job's own row moves as promised.
LEMMA RowProvides ==
  ASSUME TrainingInv, TrainingInv', WorkRecorded, NEW k \in Jobs, Advance(k),
         UNCHANGED <<sandboxes, execs>>,
         ~(jobs[k].state = "dispatching" /\ jobs'[k].state = "cleaned")
  PROVE  Provides(k) /\ (jobs'[k] = jobs[k] => SameProvision(k))
<1>1. Owned(k)' = Owned(k) /\ Named(k)' = Named(k)
  BY DEF Owned, Named, Running
<1>2. execs'[k] = execs[k]
  OBVIOUS
<1>3. SandboxPhase(k)' = IF Named(k) # {} THEN "live" ELSE IF Owned(k) # {} THEN "gone"
                         ELSE IF jobs'[k].state = "dispatching" THEN "asked" ELSE "never"
  BY <1>1 DEF SandboxPhase
<1>4. /\ jobs'[k].state \in {"running", "cleanup_pending", "billing_pending"} => Owned(k) # {}
      /\ Closed(jobs'[k]) => Named(k) = {}
  <2>1. /\ (jobs[k].state \in {"running", "cleanup_pending", "billing_pending"} => Owned(k) # {})'
        /\ (Closed(jobs[k]) => Named(k) = {})'
    <3>1. \A i \in Jobs : JournalFit(i)'
      BY DEF TrainingInv, RowsFit
    <3>2. JournalFit(k)'
      BY <3>1
    <3> QED BY <3>2 DEF JournalFit, Closed, Named, Owned, Running
  <2> QED BY <1>1, <2>1 DEF Closed
<1>5. CASE jobs'[k] = jobs[k]
  <2>1. SandboxPhase(k)' = SandboxPhase(k)
    BY <1>3, <1>5 DEF SandboxPhase
  <2> QED BY <1>2, <1>5, <2>1 DEF Provides, SameProvision, Closed
<1>6. CASE Admitted(k)
  <2>1. SandboxPhase(k)' = SandboxPhase(k)
    BY <1>3, <1>6 DEF Admitted, SandboxPhase
  <2>2. jobs[k].result = 0
    BY <1>6 DEF Admitted, WorkRecorded
  <2> QED BY <1>2, <1>6, <2>1, <2>2 DEF Provides, SameProvision, Admitted, Closed
<1>7. CASE Claimed(k)
  <2>1. Owned(k) = {} /\ Named(k) = {}
    BY <1>7, RowsAt, PhaseMeans DEF Claimed, SandboxFit
  <2>2. SandboxPhase(k) = "never" /\ SandboxPhase(k)' = "asked"
    BY <1>3, <1>7, <2>1 DEF Claimed, SandboxPhase
  <2> QED BY <1>2, <1>7, <2>2 DEF Provides, PhaseMoves, Claimed, SameOutcome, Closed
<1>8. CASE Accepted(k)
  <2>1. SandboxPhase(k)' = SandboxPhase(k)
    BY <1>3, <1>4, <1>8 DEF Accepted, SandboxPhase
  <2> QED BY <1>2, <1>8, <2>1 DEF Provides, SameProvision, Accepted, Closed
<1>9. CASE Finished(k)
  <2>1. SandboxPhase(k)' = SandboxPhase(k)
    BY <1>3, <1>9 DEF Finished, SandboxPhase
  <2>2. CASE jobs[k].result = jobs'[k].result
    BY <1>2, <1>9, <2>1, <2>2 DEF Provides, SameProvision, Finished, Closed
  <2>3. CASE jobs[k].result # jobs'[k].result
    <3>1. jobs[k].result = 0 /\ jobs'[k].result # 0
      BY <1>9, <2>3 DEF Finished
    <3>2. execs'[k] > 0
      <4>1. \A i \in Jobs : WorkerFit(i)'
        BY DEF TrainingInv, RowsFit
      <4> QED BY <3>1, <4>1 DEF WorkerFit
    <3> QED BY <1>2, <1>9, <2>1, <3>1, <3>2 DEF Provides, ReportsResult, Finished, Closed
  <2> QED BY <2>2, <2>3
<1>10. CASE AwaitsBill(k) \/ ClosedAfterWork(k)
  <2>1. jobs[k].state \in {"running", "cleanup_pending", "billing_pending"}
        /\ Closed(jobs'[k]) /\ jobs'[k].result = jobs[k].result
    BY <1>10 DEF AwaitsBill, ClosedAfterWork, SameOutcome, Closed
  <2>2. Owned(k) # {} /\ Named(k) = {}
    BY <1>4, <2>1, PhaseMeans
  <2>3. SandboxPhase(k) = "gone" /\ SandboxPhase(k)' = "gone"
    BY <1>3, <2>2 DEF SandboxPhase
  <2> QED BY <1>2, <2>1, <2>3 DEF Provides, SameProvision, Closes
<1>11. CASE ClosedUnstarted(k)
  <2>1. jobs[k].state = "reserved" /\ Closed(jobs'[k]) /\ jobs'[k].result = jobs[k].result
        /\ jobs'[k].state = "cleaned"
    BY <1>11 DEF ClosedUnstarted, SameOutcome, Closed
  <2>2. Owned(k) = {} /\ Named(k) = {}
    BY <2>1, RowsAt, PhaseMeans DEF SandboxFit
  <2>3. SandboxPhase(k) = "never" /\ SandboxPhase(k)' = "never"
    BY <1>3, <2>1, <2>2 DEF SandboxPhase
  <2> QED BY <1>2, <2>1, <2>3 DEF Provides, Closes, Closed
<1> QED BY <1>5, <1>6, <1>7, <1>8, <1>9, <1>10, <1>11 DEF Advance

\* A sandbox that ends, or stays, while no row moves.
LEMMA EndingProvides ==
  ASSUME TrainingInv, NEW p \in Providers, Ended(p) \/ UNCHANGED sandboxes,
         UNCHANGED <<jobs, execs>>
  PROVE  \/ \A k \in Jobs : SameProvision(k)
         \/ \E j \in Jobs : Provides(j) /\ \A k \in Jobs \ {j} : SameProvision(k)
<1>1. /\ \A q \in Providers : /\ sandboxes'[q].job = sandboxes[q].job
                              /\ sandboxes'[q].state \in {sandboxes[q].state, "ended"}
      /\ \A q \in Providers \ {p} : sandboxes'[q] = sandboxes[q]
      /\ \A k \in Jobs : Owned(k)' = Owned(k)
  BY EndedSandbox
<1>2. ASSUME NEW k \in Jobs, sandboxes[p].job # k PROVE SameProvision(k)
  <2>1. Named(k)' = Named(k)
    BY <1>1, <1>2 DEF Named, Running
  <2>2. SandboxPhase(k)' = SandboxPhase(k)
    BY <1>1, <2>1 DEF SandboxPhase
  <2> QED BY <2>2 DEF SameProvision
<1>3. ASSUME NEW j \in Jobs, sandboxes[p].job = j PROVE Provides(j)
  <2>1. Owned(j) = {p}
    BY <1>3, RowsAt DEF SandboxFit, Owned
  <2>2. Named(j) \in {{p}, {}} /\ Named(j)' \in {Named(j), {}}
    BY <1>1, <2>1 DEF Named, Owned, Running
  <2>3. CASE Named(j)' = Named(j)
    <3>1. SandboxPhase(j)' = SandboxPhase(j)
      BY <1>1, <2>3 DEF SandboxPhase
    <3> QED BY <3>1 DEF Provides, SameProvision
  <2>4. CASE Named(j)' # Named(j)
    <3>1. Named(j) # {} /\ Named(j)' = {}
      BY <2>2, <2>4
    <3>2. SandboxPhase(j) = "live" /\ SandboxPhase(j)' = "gone"
      BY <1>1, <2>1, <3>1 DEF SandboxPhase
    <3> QED BY <3>2 DEF Provides, PhaseMoves
  <2> QED BY <2>3, <2>4
<1> QED BY <1>2, <1>3

\* The provider carries a submission out.
LEMMA CreationProvides ==
  ASSUME TrainingInv, NEW j \in Jobs, NEW p \in Providers, ProviderCreates(j, p)
  PROVE  Provides(j) /\ \A k \in Jobs \ {j} : SameProvision(k)
<1>1. /\ UNCHANGED <<jobs, execs>> /\ j \in creating /\ sandboxes[p].state = "none"
      /\ sandboxes' = [sandboxes EXCEPT ![p] = [job |-> j, state |-> "running"]]
  BY DEF ProviderCreates, campaignVars, jobVars
<1>2. PICK row : row = [job |-> j, state |-> "running"]
  OBVIOUS
<1>3. sandboxes'[p] = row /\ \A q \in Providers \ {p} : sandboxes'[q] = sandboxes[q]
  BY <1>1, <1>2 DEF TrainingInv, ModalTyped
<1>4. row.job = j /\ row.state = "running"
  BY <1>2
<1>5. sandboxes[p].job = 0
  BY <1>1 DEF TrainingInv, PoolFit
<1>6. Owned(j) = {} /\ Named(j) = {}
  BY <1>1, RowsAt, PhaseMeans DEF SandboxFit
<1>7. jobs[j].state = "dispatching"
  <2>1. jobs[j].state \in JobStates
    BY DEF TrainingInv, ModalTyped, JobsTypeOK, JobRow
  <2> QED BY <1>1, <1>6, <2>1, RowsAt, PhaseMeans
          DEF SandboxFit, JournalFit, JobStates, ProviderStates
<1>8. p \in Named(j)'
  BY <1>3, <1>4 DEF Named, Running
<1>9. SandboxPhase(j) = "asked" /\ SandboxPhase(j)' = "live"
  BY <1>6, <1>7, <1>8 DEF SandboxPhase
<1>10. ASSUME NEW k \in Jobs \ {j} PROVE SameProvision(k)
  <2>1. Named(k)' = Named(k) /\ Owned(k)' = Owned(k)
    BY <1>3, <1>4, <1>5, TrainingConstants DEF Named, Owned, Running
  <2>2. SandboxPhase(k)' = SandboxPhase(k)
    BY <1>1, <2>1 DEF SandboxPhase
  <2> QED BY <1>1, <2>2 DEF SameProvision
<1> QED BY <1>1, <1>9, <1>10 DEF Provides, PhaseMoves

\* The worker runs where its inputs are, in the job's sandbox.
LEMMA ExecutionProvides ==
  ASSUME TrainingInv, NEW w \in Processes, NEW j \in Jobs, Execute(w, j)
  PROVE  Provides(j) /\ \A k \in Jobs \ {j} : SameProvision(k)
<1>1. /\ UNCHANGED <<jobs, sandboxes>> /\ task[w][j].at = "exec"
      /\ Running(launches[j].sandbox) /\ execs' = [execs EXCEPT ![j] = execs[j] + 1]
  BY DEF Execute, At, campaignVars, jobVars
<1>2. execs[j] = 0 /\ work[j].attempted
  BY <1>1, TaskAt DEF FitTask
<1>3. launches[j].sandbox \in Named(j)
  BY <1>1, <1>2, RowsAt DEF WorkerFit, JournalFit, Owned, Named
<1>4. execs'[j] = 1 /\ \A k \in Jobs \ {j} : execs'[k] = execs[k]
  BY <1>1, <1>2 DEF TrainingInv, ModalTyped
<1>5. \A k \in Jobs : SandboxPhase(k)' = SandboxPhase(k)
  BY <1>1 DEF SandboxPhase, Named, Owned, Running
<1>6. SandboxPhase(j) = "live"
  BY <1>3 DEF SandboxPhase
<1> QED BY <1>1, <1>2, <1>4, <1>5, <1>6 DEF Provides, Works, SameProvision

\* A step of which nothing is seen from outside.
LEMMA NothingProvided ==
  ASSUME \A k \in Jobs : SameProvision(k)
  PROVE  UNCHANGED Provision!vars
<1>1. /\ [k \in Jobs |-> SandboxPhase(k)]' = [k \in Jobs |-> SandboxPhase(k)]
      /\ [k \in Jobs |-> execs[k]]' = [k \in Jobs |-> execs[k]]
      /\ {k \in Jobs : jobs[k].result # 0}' = {k \in Jobs : jobs[k].result # 0}
      /\ {k \in Jobs : jobs[k].state \in {"billing_pending", "cleaned"}}'
           = {k \in Jobs : jobs[k].state \in {"billing_pending", "cleaned"}}
  BY DEF SameProvision, Closed
<1> QED BY <1>1 DEF Provision!vars

LEMMA RestProvides ==
  ASSUME UNCHANGED <<jobs, sandboxes, execs>>
  PROVE  [Provision!Next]_(Provision!vars)
<1>1. \A k \in Jobs : SandboxPhase(k)' = SandboxPhase(k)
  BY DEF SandboxPhase, Named, Owned, Running
<1>2. \A k \in Jobs : SameProvision(k)
  BY <1>1 DEF SameProvision
<1> QED BY <1>2, NothingProvided

\* A call of the controller, which never closes a job over a submission that
\* the provider may still carry out.
LEMMA CallProvides ==
  ASSUME TrainingInv, TrainingInv', WorkRecorded, NEW j \in Jobs, JobStep(j),
         UNCHANGED <<sandboxes, execs>>,
         ~(jobs[j].state = "dispatching" /\ jobs'[j].state = "cleaned")
  PROVE  [Provision!Next]_(Provision!vars)
<1>1. TypeOK /\ JobsTypeOK /\ [JobsNext]_campaignVars
  BY DEF TrainingInv, ModalTyped, JobsNext
<1>2. ASSUME NEW k \in Jobs PROVE Advance(k)
  BY <1>1, JobAdvances
<1>3. Provides(j)
  BY <1>2, RowProvides
<1>4. ASSUME NEW k \in Jobs \ {j} PROVE SameProvision(k)
  <2>1. jobs'[k] = jobs[k]
    BY <1>1, <1>4, OtherJobsKept
  <2>2. Advance(k) /\ ~(jobs[k].state = "dispatching" /\ jobs'[k].state = "cleaned")
    BY <1>2, <2>1
  <2> QED BY <2>1, <2>2, RowProvides
<1> QED BY <1>3, <1>4, OneJobProvides

LEMMA CampaignProvides ==
  ASSUME TrainingInv, TrainingInv', WorkRecorded, Campaign
  PROVE  [Provision!Next]_(Provision!vars)
<1>1. UNCHANGED <<sandboxes, execs>>
  BY DEF Campaign, trainingVars
<1>2. ASSUME NEW j \in Jobs, NEW amount \in Amounts, NEW timeout \in Timeouts,
             AdmitJob(j, "training", amount, timeout)
      PROVE  [Provision!Next]_(Provision!vars)
  <2>1. jobs[j].state # "dispatching"
    BY <1>2 DEF AdmitJob
  <2>2. JobStep(j)
    BY <1>2, TrainingAssumption DEF JobStep
  <2> QED BY <1>1, <2>1, <2>2, CallProvides
<1>3. Stop \/ (Tick /\ UNCHANGED jobVars) => UNCHANGED jobs
  BY DEF Stop, jobVars
<1> QED BY <1>1, <1>2, <1>3, RestProvides DEF Campaign

LEMMA CallsProvide ==
  ASSUME TrainingInv, TrainingInv', WorkRecorded, NEW w \in Processes, NEW j \in Jobs,
         \/ Dispatch(w, j) \/ Record(w, j) \/ Cancel(w, j) \/ AckStarts(w, j)
         \/ TerminateRequests(w, j) \/ TerminateConfirms(w, j)
  PROVE  [Provision!Next]_(Provision!vars)
<1>1. JobsTypeOK
  BY DEF TrainingInv, ModalTyped
<1>2. UNCHANGED <<sandboxes, execs>>
  BY DEF Dispatch, Record, Cancel, AckStarts, TerminateRequests, TerminateConfirms, providerVars
<1>3. UNCHANGED campaignVars => UNCHANGED jobs
  BY DEF campaignVars, jobVars
<1>4. CASE Dispatch(w, j)
  <2>1. JobStep(j) /\ jobs[j].state # "dispatching"
    BY <1>1, <1>4, JobEffects DEF Dispatch, JobStep
  <2> QED BY <1>2, <2>1, CallProvides
<1>5. CASE Record(w, j)
  <2>1. (JobStep(j) /\ jobs[j].state # "dispatching") \/ UNCHANGED jobs
    BY <1>1, <1>3, <1>5, JobEffects DEF Record, JobStep
  <2> QED BY <1>2, <2>1, CallProvides, RestProvides
<1>6. CASE Cancel(w, j)
  <2>1. (JobStep(j) /\ jobs[j].state # "dispatching") \/ UNCHANGED jobs
    BY <1>1, <1>3, <1>6, JobEffects DEF Cancel, JobStep
  <2> QED BY <1>2, <2>1, CallProvides, RestProvides
<1>7. CASE AckStarts(w, j)
  <2>1. (JobStep(j) /\ jobs'[j].state # "cleaned") \/ UNCHANGED jobs
    BY <1>1, <1>3, <1>7, JobEffects, JobCalls DEF AckStarts, JobStep
  <2> QED BY <1>2, <2>1, CallProvides, RestProvides
<1>8. CASE TerminateRequests(w, j)
  <2>1. (JobStep(j) /\ jobs[j].state # "dispatching") \/ UNCHANGED jobs
    BY <1>1, <1>3, <1>8, JobEffects DEF TerminateRequests, JobStep
  <2> QED BY <1>2, <2>1, CallProvides, RestProvides
<1>9. CASE TerminateConfirms(w, j)
  <2>1. (JobStep(j) /\ jobs[j].state # "dispatching") \/ UNCHANGED jobs
    BY <1>1, <1>3, <1>9, CleanupEffect, JobCalls DEF TerminateConfirms, JobStep
  <2> QED BY <1>2, <2>1, CallProvides, RestProvides
<1> QED BY <1>4, <1>5, <1>6, <1>7, <1>8, <1>9

LEMMA SandboxesProvide ==
  ASSUME TrainingInv,
         \/ \E w \in Processes, j \in Jobs : TerminateStops(w, j) \/ Execute(w, j)
         \/ \E j \in Jobs, p \in Providers : ProviderCreates(j, p)
         \/ \E p \in Providers : SandboxEnds(p)
  PROVE  [Provision!Next]_(Provision!vars)
<1>1. ASSUME NEW p \in Providers, Ended(p) \/ UNCHANGED sandboxes, UNCHANGED <<jobs, execs>>
      PROVE  [Provision!Next]_(Provision!vars)
  BY <1>1, EndingProvides, OneJobProvides, NothingProvided
<1>2. ASSUME NEW w \in Processes, NEW j \in Jobs, TerminateStops(w, j)
      PROVE  [Provision!Next]_(Provision!vars)
  <2>1. task[w][j].observed \in Providers
    BY <1>2, TaskAt DEF TerminateStops, At, FitTask, HoldingSteps, Owned
  <2> QED BY <1>1, <1>2, <2>1 DEF TerminateStops, campaignVars, jobVars
<1>3. ASSUME NEW w \in Processes, NEW j \in Jobs, Execute(w, j)
      PROVE  [Provision!Next]_(Provision!vars)
  BY <1>3, ExecutionProvides, OneJobProvides
<1>4. ASSUME NEW j \in Jobs, NEW p \in Providers, ProviderCreates(j, p)
      PROVE  [Provision!Next]_(Provision!vars)
  BY <1>4, CreationProvides, OneJobProvides
<1>5. ASSUME NEW p \in Providers, SandboxEnds(p) PROVE [Provision!Next]_(Provision!vars)
  BY <1>1, <1>5 DEF SandboxEnds, campaignVars, jobVars
<1> QED BY <1>2, <1>3, <1>4, <1>5

LEMMA StepProvides ==
  ASSUME TrainingInv, TrainingInv', WorkRecorded, [ModalNext]_modalVars
  PROVE  [Provision!Next]_(Provision!vars)
<1> DEFINE Promised == [Provision!Next]_(Provision!vars)
<1>1. Campaign => Promised
  BY CampaignProvides
<1>2. ASSUME NEW w \in Processes, NEW j \in Jobs,
             \/ Dispatch(w, j) \/ Record(w, j) \/ Cancel(w, j) \/ AckStarts(w, j)
             \/ TerminateRequests(w, j) \/ TerminateConfirms(w, j)
      PROVE  Promised
  BY <1>2, CallsProvide
<1>3. ASSUME NEW w \in Processes, NEW j \in Jobs, TerminateStops(w, j) \/ Execute(w, j)
      PROVE  Promised
  BY <1>3, SandboxesProvide
<1>4. ASSUME NEW w \in Processes, NEW j \in Jobs,
             \/ RunnerPicks(j) \/ Prepare(w, j) \/ StartReads(w, j) \/ StartLooks(w, j)
             \/ StartInspects(w, j) \/ SendCreate(w, j) \/ CreateReturns(w, j)
             \/ StageClaims(w, j) \/ Upload(w, j) \/ WorkerClaims(w, j)
             \/ Export(w, j) \/ CleanReads(w, j)
      PROVE  Promised
  <2>1. UNCHANGED <<jobs, sandboxes, execs>>
    BY <1>4 DEF RunnerPicks, Prepare, StartReads, StartLooks, StartInspects, SendCreate,
         CreateReturns, StageClaims, Upload, WorkerClaims, Export, CleanReads,
         campaignVars, jobVars, providerVars
  <2> QED BY <2>1, RestProvides
<1>5. ASSUME NEW w \in Processes, NEW j \in Jobs,
             \/ WatchdogPicks(j) \/ AckReads(w, j) \/ AckStores(w, j) \/ TerminateReads(w, j)
             \/ TerminateLooks(w, j) \/ TerminateRecords(w, j) \/ CallFails(w, j)
             \/ CreateLost(j)
      PROVE  Promised
  <2>1. UNCHANGED <<jobs, sandboxes, execs>>
    BY <1>5 DEF WatchdogPicks, AckReads, AckStores, TerminateReads, TerminateLooks,
         TerminateRecords, CallFails, CreateLost, campaignVars, jobVars, providerVars
  <2> QED BY <2>1, RestProvides
<1>6. (\E j \in Jobs, p \in Providers : ProviderCreates(j, p)) \/ (\E p \in Providers : SandboxEnds(p))
        => Promised
  BY SandboxesProvide
<1>7. UNCHANGED modalVars => Promised
  BY RestProvides DEF modalVars, campaignVars, jobVars, trainingVars
<1> HIDE DEF Promised
<1>8. ASSUME NEW j \in Jobs, RunnerStep(j) PROVE Promised
  BY <1>2, <1>3, <1>4, <1>8, TrainingConstants DEF RunnerStep
<1>9. ASSUME NEW w \in Processes, NEW j \in Jobs, Cleanup(w, j) PROVE Promised
  BY <1>2, <1>3, <1>5, <1>9 DEF Cleanup
<1>10. ASSUME NEW j \in Jobs, WatchdogPicks(j) \/ CreateLost(j) PROVE Promised
  BY <1>5, <1>10, TrainingConstants
<1>11. (\E w \in Processes : Crash(w)) => Promised
  BY RestProvides DEF Crash, campaignVars, jobVars, providerVars, Promised
<1>12. Promised
  BY <1>1, <1>5, <1>6, <1>7, <1>8, <1>9, <1>10, <1>11 DEF ModalNext
<1> QED BY <1>12 DEF Promised

\* To its caller the adapter does a job's work once, in one sandbox, reports
\* only what that worker did and closes the job only when the sandbox is gone
\* or never was: start, run_worker and terminate, with their crashes, lost
\* answers and the race of the two processes, implement ProviderWork.
THEOREM TrainingKeepsProvision == ModalSpec => KeepsProvision
<1>1. ModalInit => Provision!Init
  <2> SUFFICES ASSUME ModalInit PROVE Provision!Init
    OBVIOUS
  <2>1. \A k \in Jobs : /\ Owned(k) = {} /\ Named(k) = {} /\ jobs[k].state = "absent"
                        /\ jobs[k].result = 0 /\ execs[k] = 0
    BY TrainingConstants DEF ModalInit, JobsInit, Owned, Named, AbsentJob
  <2>2. \A k \in Jobs : SandboxPhase(k) = "never"
    BY <2>1 DEF SandboxPhase
  <2> QED BY <2>1, <2>2 DEF Provision!Init
<1>2. ModalInit => WorkRecorded /\ RefundsAreForWorkThatNeverRan
  BY DEF ModalInit, JobsInit, AbsentJob, WorkRecorded, RefundsAreForWorkThatNeverRan
<1>3. /\ TrainingInv /\ [ModalNext]_modalVars /\ WorkRecorded /\ RefundsAreForWorkThatNeverRan
      => (WorkRecorded /\ RefundsAreForWorkThatNeverRan)'
  BY TrainingStepsJobs, WorkRecordedStep DEF TrainingInv, ModalTyped
<1>4. TrainingInv /\ TrainingInv' /\ WorkRecorded /\ [ModalNext]_modalVars
        => [Provision!Next]_(Provision!vars)
  BY StepProvides
<1>5. ModalSpec => [](WorkRecorded /\ RefundsAreForWorkThatNeverRan)
  BY <1>2, <1>3, TrainingIsSound, PTL DEF ModalSpec
<1> QED BY <1>1, <1>4, <1>5, TrainingIsSound, PTL DEF ModalSpec, KeepsProvision, Provision!Spec

-----------------------------------------------------------------------------
(* The two transactions of an acknowledgement.                             *)

(* A process about to record the sandbox of a job that it did not find     *)
(* dispatching knows a job that is past dispatching.                       *)
PastDispatch(j) == jobs[j].state \notin {"absent", "reserved", "dispatching"}
StoresSeen ==
  \A w \in Processes, j \in Jobs :
    At(w, j, "store") /\ task[w][j].seen # "dispatching" => PastDispatch(j)
AckInv == StoresSeen /\ AcknowledgedUnlessCrashed

\* No process leaves its second transaction, or arrives before its first.
Elsewhere ==
  \A v \in Processes, k \in Jobs :
    \/ task'[v][k] = task[v][k]
    \/ task[v][k].at # "started" /\ task'[v][k].at # "store"
SameSandboxes == \A k \in Jobs : launches'[k].sandbox = launches[k].sandbox

LEMMA BecomesElsewhere ==
  ASSUME TrainingInv, NEW w \in Processes, NEW j \in Jobs, NEW c, Become(w, j, c),
         task[w][j].at # "started", c.at # "store"
  PROVE  Elsewhere
<1>1. task \in [Processes -> [Jobs -> Task]]
  BY DEF TrainingInv, ModalTyped
<1>2. PICK row : row = [task[w] EXCEPT ![j] = c]
  OBVIOUS
<1>3. /\ task' = [task EXCEPT ![w] = row]
      /\ row[j] = c /\ \A k \in Jobs \ {j} : row[k] = task[w][k]
  BY <1>1, <1>2 DEF Become
<1>4. task'[w] = row /\ \A v \in Processes \ {w} : task'[v] = task[v]
  BY <1>1, <1>3
<1> QED BY <1>3, <1>4 DEF Elsewhere

LEMMA GoesElsewhere ==
  ASSUME TrainingInv, NEW w \in Processes, NEW j \in Jobs, NEW step \in Steps, Go(w, j, step),
         task[w][j].at # "started", step # "store"
  PROVE  Elsewhere
<1>1. PICK c : c = [task[w][j] EXCEPT !.at = step]
  OBVIOUS
<1>2. c.at = step
  BY <1>1, TaskAt, GoneTask
<1> QED BY <1>1, <1>2, BecomesElsewhere DEF Go

LEMMA RaisesElsewhere ==
  ASSUME TrainingInv, NEW w \in Processes, NEW j \in Jobs, Raise(w, j),
         task[w][j].at # "started"
  PROVE  Elsewhere
<1>1. PICK c : c = AfterFailure(task[w][j])
  OBVIOUS
<1>2. c.at # "store"
  BY <1>1, TaskAt, FailedTask
<1> QED BY <1>1, <1>2, BecomesElsewhere DEF Raise

\* A job goes on, and none whose sandbox is recorded goes back to dispatching.
LEMMA JobsGoOn ==
  ASSUME TrainingInv, [ModalNext]_modalVars, NEW k \in Jobs
  PROVE  /\ PastDispatch(k) => PastDispatch(k)'
         /\ launches[k].sandbox # 0 /\ jobs'[k].state = "dispatching" =>
              jobs[k].state = "dispatching"
<1>1. Advance(k)
  BY TrainingStepsJobs, JobAdvances DEF TrainingInv, ModalTyped
<1>2. launches[k].sandbox # 0 => jobs[k].state \notin {"absent", "reserved"}
  BY RowsAt DEF SandboxFit, JournalFit
<1> QED
  BY <1>1, <1>2 DEF Advance, Admitted, Claimed, Accepted, Finished, AwaitsBill,
     ClosedAfterWork, ClosedUnstarted, PastDispatch

LEMMA ElsewhereKeeps ==
  ASSUME TrainingInv, [ModalNext]_modalVars, AckInv, Elsewhere, SameSandboxes, UNCHANGED crashes
  PROVE  AckInv'
<1>1. ASSUME NEW v \in Processes, NEW k \in Jobs,
             task'[v][k].at = "store", task'[v][k].seen # "dispatching"
      PROVE  PastDispatch(k)'
  <2>1. task'[v][k] = task[v][k]
    BY <1>1 DEF Elsewhere
  <2>2. PastDispatch(k)
    BY <1>1, <2>1 DEF AckInv, StoresSeen, At
  <2> QED BY <2>2, JobsGoOn
<1>2. ASSUME crashes' = 0, NEW k \in Jobs,
             launches'[k].sandbox # 0, jobs'[k].state = "dispatching"
      PROVE  \E v \in Processes : task'[v][k].at = "started"
  <2>1. crashes = 0 /\ launches[k].sandbox # 0 /\ jobs[k].state = "dispatching"
    BY <1>2, JobsGoOn DEF SameSandboxes
  <2>2. PICK v \in Processes : task[v][k].at = "started"
    BY <2>1 DEF AckInv, AcknowledgedUnlessCrashed, At
  <2>3. task'[v][k] = task[v][k]
    BY <2>2 DEF Elsewhere
  <2> QED BY <2>2, <2>3
<1> QED BY <1>1, <1>2 DEF AckInv, StoresSeen, AcknowledgedUnlessCrashed, At

\* Reading the job of a sandbox in hand.
LEMMA AckReadsKeep ==
  ASSUME TrainingInv, [ModalNext]_modalVars, AckInv, NEW w \in Processes, NEW j \in Jobs,
         AckReads(w, j)
  PROVE  AckInv'
<1>1. task[w][j].at = "ack" /\ UNCHANGED <<jobs, launches, crashes>>
  BY DEF AckReads, At, campaignVars, jobVars
<1>2. task[w][j] \in Task /\ jobs[j].state \in JobStates /\ jobs[j].state \notin {"absent", "reserved"}
  BY <1>1, TaskAt, RowsAt DEF FitTask, HoldingSteps, SandboxFit
<1>3. CASE Raise(w, j)
  BY <1>1, <1>3, RaisesElsewhere, ElsewhereKeeps DEF SameSandboxes
<1>4. ASSUME NEW c, c = [task[w][j] EXCEPT !.seen = jobs[j].state, !.at = "store"],
             task' = [task EXCEPT ![w][j] = c]
      PROVE  AckInv'
  <2>1. c.at = "store" /\ c.seen = jobs[j].state /\ c \in Task
    BY <1>2, <1>4 DEF Task, Steps
  <2>2. \A v \in Processes, k \in Jobs :
          task'[v][k] = IF v = w /\ k = j THEN c ELSE task[v][k]
    BY <1>4, <2>1, TaskSet DEF TrainingInv
  <2>3. ASSUME NEW v \in Processes, NEW k \in Jobs,
               task'[v][k].at = "store", task'[v][k].seen # "dispatching"
        PROVE  PastDispatch(k)'
    <3>1. CASE v = w /\ k = j
      BY <1>1, <1>2, <2>1, <2>2, <2>3, <3>1 DEF PastDispatch
    <3>2. CASE ~(v = w /\ k = j)
      BY <1>1, <2>2, <2>3, <3>2 DEF AckInv, StoresSeen, At, PastDispatch
    <3> QED BY <3>1, <3>2
  <2>4. \A v \in Processes, k \in Jobs : task[v][k].at = "started" => task'[v][k] = task[v][k]
    BY <1>1, <2>2
  <2>5. AcknowledgedUnlessCrashed'
    BY <1>1, <2>4 DEF AckInv, AcknowledgedUnlessCrashed, At
  <2> QED BY <2>3, <2>5 DEF AckInv, StoresSeen, At
<1> QED BY <1>3, <1>4 DEF AckReads, Become

\* The first transaction leads to the second, or the job needs none.
LEMMA AckStoresKeep ==
  ASSUME TrainingInv, [ModalNext]_modalVars, AckInv, NEW w \in Processes, NEW j \in Jobs,
         AckStores(w, j)
  PROVE  AckInv'
<1>1. task[w][j].at = "store" /\ UNCHANGED <<jobs, crashes>>
  BY DEF AckStores, At, campaignVars, jobVars
<1>2. CASE UNCHANGED launches /\ Raise(w, j)
  BY <1>1, <1>2, RaisesElsewhere, ElsewhereKeeps DEF SameSandboxes
<1>3. CASE /\ launches' = [launches EXCEPT ![j] = Journalled(launches[j], task[w][j].observed)]
           /\ Go(w, j, AfterStore(task[w][j]))
  <2>1. PICK step : step = AfterStore(task[w][j])
    OBVIOUS
  <2>2. PICK c : c = [task[w][j] EXCEPT !.at = step]
    OBVIOUS
  <2>3. step \in {"started", "stage", "request"}
        /\ (task[w][j].seen = "dispatching" => step = "started")
    BY <2>1 DEF AfterStore, Acknowledged
  <2>4. c.at = step /\ c \in Task
    BY <2>2, <2>3, TaskAt, GoneTask DEF Steps
  <2>5. \A v \in Processes, k \in Jobs :
          task'[v][k] = IF v = w /\ k = j THEN c ELSE task[v][k]
    BY <1>3, <2>1, <2>2, <2>4, TaskSet DEF TrainingInv, Go, Become
  <2>6. PICK row : row = Journalled(launches[j], task[w][j].observed)
    OBVIOUS
  <2>7. \A k \in Jobs \ {j} : launches'[k] = launches[k]
    BY <1>3, <2>6 DEF TrainingInv, ModalTyped
  <2>8. StoresSeen'
    BY <1>1, <2>3, <2>4, <2>5 DEF AckInv, StoresSeen, At, PastDispatch
  <2>9. ASSUME crashes' = 0, NEW k \in Jobs,
               launches'[k].sandbox # 0, jobs'[k].state = "dispatching"
        PROVE  \E v \in Processes : task'[v][k].at = "started"
    <3>1. CASE k = j
      <4>1. task[w][j].seen = "dispatching"
        BY <1>1, <2>9, <3>1 DEF AckInv, StoresSeen, At, PastDispatch
      <4> QED BY <2>3, <2>4, <2>5, <3>1, <4>1
    <3>2. CASE k # j
      BY <1>1, <2>5, <2>7, <2>9, <3>2 DEF AckInv, AcknowledgedUnlessCrashed, At
    <3> QED BY <3>1, <3>2
  <2> QED BY <2>8, <2>9 DEF AckInv, AcknowledgedUnlessCrashed, At
<1> QED BY <1>2, <1>3 DEF AckStores

\* The second transaction is left only with the job started.
LEMMA AckStartsKeep ==
  ASSUME TrainingInv, [ModalNext]_modalVars, AckInv, NEW w \in Processes, NEW j \in Jobs,
         AckStarts(w, j)
  PROVE  AckInv'
<1>1. task[w][j].at = "started" /\ UNCHANGED <<launches, crashes>>
  BY DEF AckStarts, At
<1>2. JobsTypeOK
  BY DEF TrainingInv, ModalTyped
<1>3. jobs'[j].state # "dispatching"
  BY <1>1, <1>2, JobEffects DEF AckStarts, campaignVars, jobVars
<1>4. PICK c : task' = [task EXCEPT ![w][j] = c] /\ c \in Task /\ c.at # "store"
  <2>1. AfterFailure(task[w][j]) \in Task /\ AfterFailure(task[w][j]).at # "store"
    <3>1. PICK c : c = AfterFailure(task[w][j])
      OBVIOUS
    <3> QED BY <3>1, TaskAt, FailedTask
  <2>2. PICK step \in {"stage", "request"} : step = Acknowledged(task[w][j])
    BY DEF Acknowledged
  <2>3. PICK c : c = [task[w][j] EXCEPT !.at = step]
    OBVIOUS
  <2>4. c \in Task /\ c.at # "store"
    BY <2>2, <2>3, TaskAt, GoneTask DEF Steps
  <2> QED BY <2>1, <2>2, <2>3, <2>4 DEF AckStarts, Go, Raise, Become
<1>5. \A v \in Processes, k \in Jobs :
        task'[v][k] = IF v = w /\ k = j THEN c ELSE task[v][k]
  BY <1>4, TaskSet DEF TrainingInv
<1>6. ASSUME NEW v \in Processes, NEW k \in Jobs,
             task'[v][k].at = "store", task'[v][k].seen # "dispatching"
      PROVE  PastDispatch(k)'
  <2>1. task'[v][k] = task[v][k]
    BY <1>4, <1>5, <1>6
  <2> QED BY <1>6, <2>1, JobsGoOn DEF AckInv, StoresSeen, At
<1>7. ASSUME crashes' = 0, NEW k \in Jobs,
             launches'[k].sandbox # 0, jobs'[k].state = "dispatching"
      PROVE  \E v \in Processes : task'[v][k].at = "started"
  <2>1. k # j
    BY <1>3, <1>7
  <2>2. launches[k].sandbox # 0 /\ jobs[k].state = "dispatching" /\ crashes = 0
    BY <1>1, <1>7, JobsGoOn
  <2> QED BY <1>5, <2>1, <2>2 DEF AckInv, AcknowledgedUnlessCrashed, At
<1> QED BY <1>6, <1>7 DEF AckInv, StoresSeen, AcknowledgedUnlessCrashed, At

\* Every other step of a process leaves acknowledgements as they are.
LEMMA OthersElsewhere ==
  ASSUME TrainingInv, NEW w \in Processes, NEW j \in Jobs,
         \/ Prepare(w, j) \/ StartReads(w, j) \/ StartLooks(w, j) \/ StartInspects(w, j)
         \/ Dispatch(w, j) \/ SendCreate(w, j) \/ CreateReturns(w, j) \/ StageClaims(w, j)
         \/ Upload(w, j) \/ WorkerClaims(w, j) \/ Execute(w, j) \/ Export(w, j)
         \/ Record(w, j) \/ CleanReads(w, j) \/ Cancel(w, j) \/ TerminateReads(w, j)
         \/ TerminateLooks(w, j) \/ TerminateRequests(w, j) \/ TerminateStops(w, j)
         \/ TerminateRecords(w, j) \/ TerminateConfirms(w, j) \/ CallFails(w, j)
  PROVE  Elsewhere /\ UNCHANGED crashes
<1>1. task[w][j].at # "started"
  BY DEF Prepare, StartReads, StartLooks, StartInspects, Dispatch, SendCreate, CreateReturns,
     StageClaims, Upload, WorkerClaims, Execute, Export, Record, CleanReads, Cancel,
     TerminateReads, TerminateLooks, TerminateRequests, TerminateStops, TerminateRecords,
     TerminateConfirms, CallFails, At, Awaits
<1>2. UNCHANGED crashes
  BY DEF Prepare, StartReads, StartLooks, StartInspects, Dispatch, SendCreate, CreateReturns,
     StageClaims, Upload, WorkerClaims, Execute, Export, Record, CleanReads, Cancel,
     TerminateReads, TerminateLooks, TerminateRequests, TerminateStops, TerminateRecords,
     TerminateConfirms, CallFails
<1>3. task[w][j] \in Task
  BY TaskAt
<1>4. ASSUME NEW seen, NEW p, NEW e, NEW step \in Steps \ {"store"}, NEW c,
             \/ c = [task[w][j] EXCEPT !.seen = seen, !.observed = p, !.at = step]
             \/ c = [task[w][j] EXCEPT !.observed = p, !.at = step]
             \/ c = [task[w][j] EXCEPT !.receipt = e, !.at = step],
             Become(w, j, c)
      PROVE  Elsewhere
  <2>1. c.at = step
    BY <1>3, <1>4 DEF Task
  <2> QED BY <1>1, <1>4, <2>1, BecomesElsewhere
<1>5. ASSUME NEW step \in {"start", "dispatch", "ack", "create", "await", "upload", "worker",
                           "exec", "export", "record", "cancel", "term", "lookup", "stop", "receipt"},
             Go(w, j, step)
      PROVE  Elsewhere
  BY <1>1, <1>5, GoesElsewhere DEF Steps
<1>6. Raise(w, j) \/ Become(w, j, Idle) => Elsewhere
  BY <1>1, RaisesElsewhere, BecomesElsewhere, IdleTask
<1>7. {"look", "inspect", "ack", "confirm", "request"} \subseteq Steps \ {"store"}
  BY DEF Steps
<1>8. CASE Prepare(w, j) \/ StartInspects(w, j) \/ Dispatch(w, j) \/ SendCreate(w, j)
           \/ StageClaims(w, j) \/ Upload(w, j) \/ WorkerClaims(w, j) \/ Execute(w, j)
           \/ Export(w, j) \/ Record(w, j) \/ CleanReads(w, j) \/ Cancel(w, j)
           \/ TerminateRequests(w, j) \/ TerminateStops(w, j) \/ TerminateConfirms(w, j)
           \/ CallFails(w, j)
  BY <1>2, <1>5, <1>6, <1>8 DEF Prepare, StartInspects, Dispatch, SendCreate, StageClaims,
     Upload, WorkerClaims, Execute, Export, Record, CleanReads, Cancel, TerminateRequests,
     TerminateStops, TerminateConfirms, CallFails
<1>9. CASE StartReads(w, j)
  <2>1. PICK step \in {"look", "inspect"} :
          step = IF launches[j].sandbox = 0 THEN "look" ELSE "inspect"
    OBVIOUS
  <2> QED BY <1>2, <1>4, <1>6, <1>7, <1>9, <2>1 DEF StartReads
<1>10. CASE StartLooks(w, j) \/ CreateReturns(w, j) \/ TerminateLooks(w, j)
  BY <1>2, <1>4, <1>5, <1>6, <1>7, <1>10 DEF StartLooks, CreateReturns, TerminateLooks
<1>11. CASE TerminateReads(w, j) \/ TerminateRecords(w, j)
  BY <1>2, <1>4, <1>5, <1>6, <1>7, <1>11 DEF TerminateReads, TerminateRecords
<1> QED BY <1>8, <1>9, <1>10, <1>11

\* Only an acknowledgement records a sandbox.
LEMMA SandboxesRecorded ==
  ASSUME TrainingInv, NEW w \in Processes, NEW j \in Jobs,
         \/ Prepare(w, j) \/ TerminateRecords(w, j) \/ UNCHANGED launches
  PROVE  SameSandboxes
<1>1. launches \in [Jobs -> LaunchRow]
  BY DEF TrainingInv, ModalTyped, LaunchRow
<1>2. CASE Prepare(w, j)
  <2>1. PICK row : row = [launches[j] EXCEPT !.prepared = TRUE]
    OBVIOUS
  <2>2. launches' = [launches EXCEPT ![j] = row] /\ row.sandbox = launches[j].sandbox
    BY <1>1, <1>2, <2>1 DEF Prepare, LaunchRow
  <2> QED BY <1>1, <2>2 DEF SameSandboxes
<1>3. CASE TerminateRecords(w, j)
  <2>1. PICK e : launches' = [launches EXCEPT ![j].receipt = e]
    BY <1>3 DEF TerminateRecords
  <2>2. PICK row : row = [launches[j] EXCEPT !.receipt = e]
    OBVIOUS
  <2>3. launches' = [launches EXCEPT ![j] = row] /\ row.sandbox = launches[j].sandbox
    BY <1>1, <2>1, <2>2 DEF LaunchRow
  <2> QED BY <1>1, <2>3 DEF SameSandboxes
<1>4. CASE UNCHANGED launches
  BY <1>4 DEF SameSandboxes
<1> QED BY <1>2, <1>3, <1>4

LEMMA AckStep ==
  ASSUME TrainingInv, [ModalNext]_modalVars, AckInv
  PROVE  AckInv'
<1>1. ASSUME NEW w \in Processes, NEW j \in Jobs,
             \/ Prepare(w, j) \/ StartReads(w, j) \/ StartLooks(w, j) \/ StartInspects(w, j)
             \/ Dispatch(w, j) \/ SendCreate(w, j) \/ CreateReturns(w, j) \/ StageClaims(w, j)
             \/ Upload(w, j) \/ WorkerClaims(w, j) \/ Execute(w, j) \/ Export(w, j)
             \/ Record(w, j) \/ CleanReads(w, j) \/ Cancel(w, j) \/ TerminateReads(w, j)
             \/ TerminateLooks(w, j) \/ TerminateRequests(w, j) \/ TerminateStops(w, j)
             \/ TerminateRecords(w, j) \/ TerminateConfirms(w, j) \/ CallFails(w, j)
      PROVE  AckInv'
  <2>1. Elsewhere /\ UNCHANGED crashes
    BY <1>1, OthersElsewhere
  <2>2. Prepare(w, j) \/ TerminateRecords(w, j) \/ UNCHANGED launches
    BY <1>1 DEF StartReads, StartLooks, StartInspects, Dispatch, SendCreate, CreateReturns,
       StageClaims, Upload, WorkerClaims, Execute, Export, Record, CleanReads, Cancel,
       TerminateReads, TerminateLooks, TerminateRequests, TerminateStops, TerminateConfirms,
       CallFails
  <2> QED BY <2>1, <2>2, SandboxesRecorded, ElsewhereKeeps
<1>2. ASSUME NEW w \in Processes, NEW j \in Jobs, AckReads(w, j) \/ AckStores(w, j) \/ AckStarts(w, j)
      PROVE  AckInv'
  BY <1>2, AckReadsKeep, AckStoresKeep, AckStartsKeep
<1>3. ASSUME NEW j \in Jobs, RunnerPicks(j) \/ WatchdogPicks(j) PROVE AckInv'
  <2>1. /\ \E w \in Processes, step \in {"prepare", "cancel", "term"} :
             /\ task[w][j].at = "idle"
             /\ \/ Become(w, j, [Idle EXCEPT !.at = step])
                \/ Become(w, j, [Idle EXCEPT !.goal = "terminate", !.at = step])
        /\ UNCHANGED <<launches, crashes>>
    BY <1>3, TrainingConstants, IdleTask DEF RunnerPicks, WatchdogPicks
  <2>2. PICK w \in Processes, step \in {"prepare", "cancel", "term"} :
             /\ task[w][j].at = "idle"
             /\ \/ Become(w, j, [Idle EXCEPT !.at = step])
                \/ Become(w, j, [Idle EXCEPT !.goal = "terminate", !.at = step])
    BY <2>1
  <2>3. PICK c1, c2 : c1 = [Idle EXCEPT !.at = step] /\ c2 = [Idle EXCEPT !.goal = "terminate", !.at = step]
    OBVIOUS
  <2>4. c1.at = step /\ c2.at = step
    BY <2>3, Zenon DEF Idle
  <2>5. Become(w, j, c1) \/ Become(w, j, c2)
    BY <2>2, <2>3
  <2>6. task[w][j].at # "started" /\ step \in Steps \ {"store"}
    BY <2>2 DEF Steps
  <2>7. Elsewhere
    BY <2>4, <2>5, <2>6, BecomesElsewhere
  <2> QED BY <2>1, <2>7, ElsewhereKeeps DEF SameSandboxes
<1>4. ASSUME UNCHANGED <<launches, task, crashes>> PROVE AckInv'
  BY <1>4, ElsewhereKeeps DEF Elsewhere, SameSandboxes
<1>5. ASSUME NEW w \in Processes, Crash(w) PROVE AckInv'
  <2>1. /\ UNCHANGED jobs /\ crashes' = crashes + 1 /\ crashes \in Nat
        /\ task' = [task EXCEPT ![w] = [j \in Jobs |-> Idle]]
    BY <1>5, TrainingAssumption DEF Crash, campaignVars, jobVars, TrainingInv, ModalTyped
  <2>2. \A v \in Processes, k \in Jobs : task'[v][k] \in {task[v][k], Idle}
    BY <2>1 DEF TrainingInv, ModalTyped
  <2>3. StoresSeen'
    BY <2>1, <2>2, IdleTask DEF AckInv, StoresSeen, At, PastDispatch
  <2>4. crashes' # 0
    BY <2>1
  <2> QED BY <2>3, <2>4 DEF AckInv, AcknowledgedUnlessCrashed
<1>6. UNCHANGED modalVars \/ Campaign \/ (\E j \in Jobs : CreateLost(j))
        \/ (\E j \in Jobs, p \in Providers : ProviderCreates(j, p)) \/ (\E p \in Providers : SandboxEnds(p))
      => UNCHANGED <<launches, task, crashes>>
  BY DEF modalVars, Campaign, trainingVars, CreateLost, ProviderCreates, SandboxEnds
<1>7. ASSUME NEW j \in Jobs, RunnerStep(j) PROVE AckInv'
  BY <1>1, <1>3, <1>7, TrainingConstants DEF RunnerStep
<1>8. ASSUME NEW w \in Processes, NEW j \in Jobs, Cleanup(w, j) PROVE AckInv'
  BY <1>1, <1>2, <1>8 DEF Cleanup
<1> QED BY <1>1, <1>3, <1>4, <1>5, <1>6, <1>7, <1>8 DEF ModalNext

\* Whatever the two processes, lost answers and the provider do, the journal
\* and the job of an acknowledged sandbox come apart only in a crash between
\* acknowledge's two transactions.
THEOREM AcknowledgementsCompleteUnlessCrashed == ModalSpec => []AcknowledgedUnlessCrashed
<1>1. ModalInit => AckInv
  <2> SUFFICES ASSUME ModalInit PROVE AckInv
    OBVIOUS
  <2>1. \A w \in Processes, j \in Jobs : task[w][j].at = "idle"
    BY IdleTask DEF ModalInit
  <2>2. \A j \in Jobs : launches[j].sandbox = 0
    BY DEF ModalInit, NoLaunch
  <2> QED BY <2>1, <2>2 DEF AckInv, StoresSeen, AcknowledgedUnlessCrashed, At
<1>2. TrainingInv /\ [ModalNext]_modalVars /\ AckInv => AckInv'
  BY AckStep
<1>3. AckInv => AcknowledgedUnlessCrashed
  BY DEF AckInv
<1> QED BY <1>1, <1>2, <1>3, TrainingIsSound, PTL DEF ModalSpec

\* The launch journal, the job and the provider name the same sandbox, though
\* acknowledge records it in two transactions and both processes may race.
THEOREM JournalsAlwaysAgree == ModalSpec => []JournalsAgree
<1>1. TrainingInv => JournalsMatch
  BY DEF TrainingInv, RowsFit, JournalFit, JournalsMatch, Owned
<1>2. TrainingInv /\ AcknowledgedUnlessCrashed => JournalsAgree
  BY <1>1 DEF JournalsAgree
<1> QED BY <1>2, TrainingIsSound, AcknowledgementsCompleteUnlessCrashed, PTL

-----------------------------------------------------------------------------
(* What a crash between acknowledge's two transactions leaves behind.      *)

\* The steps from which a process may still start the job of the sandbox it
\* knows, or may still come to know one.
Escapes == {"start", "look", "inspect", "await", "lookup", "ack", "store", "started"}
Outside(j) == \A w \in Processes : task[w][j].at \notin Escapes
\* A journalled sandbox whose job no process is about to start any more, in a
\* campaign that was stopped.
Orphaned(j) ==
  /\ stopped /\ jobs[j].state = "dispatching" /\ launches[j].sandbox # 0
  /\ Outside(j)

LEMMA BecomesOutside ==
  ASSUME TrainingInv, NEW j \in Jobs, Outside(j), NEW w \in Processes, NEW k \in Jobs, NEW c,
         Become(w, k, c), k # j \/ c.at \notin Escapes
  PROVE  Outside(j)'
<1>1. task \in [Processes -> [Jobs -> Task]]
  BY DEF TrainingInv, ModalTyped
<1>2. PICK row : row = [task[w] EXCEPT ![k] = c]
  OBVIOUS
<1>3. /\ task' = [task EXCEPT ![w] = row]
      /\ row[k] = c /\ \A i \in Jobs \ {k} : row[i] = task[w][i]
  BY <1>1, <1>2 DEF Become
<1>4. task'[w] = row /\ \A v \in Processes \ {w} : task'[v] = task[v]
  BY <1>1, <1>3
<1> QED BY <1>3, <1>4 DEF Outside

LEMMA GoesOutside ==
  ASSUME TrainingInv, NEW j \in Jobs, Outside(j), NEW w \in Processes, NEW k \in Jobs,
         NEW step \in Steps, Go(w, k, step), k # j \/ step \notin Escapes
  PROVE  Outside(j)'
<1>1. PICK c : c = [task[w][k] EXCEPT !.at = step]
  OBVIOUS
<1>2. c.at = step
  BY <1>1, TaskAt, GoneTask
<1> QED BY <1>1, <1>2, BecomesOutside DEF Go

LEMMA RaisesOutside ==
  ASSUME TrainingInv, NEW j \in Jobs, Outside(j), NEW w \in Processes, NEW k \in Jobs, Raise(w, k)
  PROVE  Outside(j)'
<1>1. PICK c : c = AfterFailure(task[w][k])
  OBVIOUS
<1>2. c.at \notin Escapes
  BY <1>1, TaskAt, FailedTask DEF Escapes
<1> QED BY <1>1, <1>2, BecomesOutside DEF Raise

\* A process at work on another job leaves this one where it is.
LEMMA OthersOutside ==
  ASSUME TrainingInv, NEW j \in Jobs, Outside(j), NEW w \in Processes, NEW k \in Jobs, k # j,
         \/ w = "runner" /\ RunnerStep(k)
         \/ w = "watchdog" /\ WatchdogPicks(k)
         \/ Cleanup(w, k) \/ CallFails(w, k)
  PROVE  Outside(j)'
<1>1. (\E c : Become(w, k, c)) => Outside(j)'
  BY BecomesOutside
<1>2. (\E step : Go(w, k, step)) => Outside(j)'
  BY <1>1 DEF Go
<1>3. Raise(w, k) => Outside(j)'
  BY RaisesOutside
<1>4. CASE w = "runner" /\ RunnerStep(k)
  BY <1>1, <1>2, <1>3, <1>4 DEF RunnerStep, RunnerPicks, Prepare, StartReads, StartLooks,
     StartInspects, Dispatch, SendCreate, CreateReturns, StageClaims, Upload, WorkerClaims,
     Execute, Export, Record, CleanReads
<1>5. CASE w = "watchdog" /\ WatchdogPicks(k)
  BY <1>1, <1>5 DEF WatchdogPicks
<1>6. CASE Cleanup(w, k) \/ CallFails(w, k)
  BY <1>1, <1>2, <1>3, <1>6 DEF Cleanup, AckReads, AckStores, AckStarts, Cancel, TerminateReads,
     TerminateLooks, TerminateRequests, TerminateStops, TerminateRecords, TerminateConfirms,
     CallFails
<1> QED BY <1>4, <1>5, <1>6

\* At the orphan itself: the runner is refused admission, and cleanup finds the
\* sandbox in the journal, a job it may not ask to clean up, and gives up.
LEMMA OrphanStaysOutside ==
  ASSUME TrainingInv, NEW j \in Jobs, Orphaned(j), NEW w \in Processes,
         \/ w = "runner" /\ RunnerStep(j)
         \/ w = "watchdog" /\ WatchdogPicks(j)
         \/ Cleanup(w, j) \/ CallFails(w, j)
  PROVE  /\ Outside(j)'
         /\ ~(\/ AckReads(w, j) \/ AckStores(w, j) \/ AckStarts(w, j) \/ Dispatch(w, j)
              \/ RunnerPicks(j) \/ Prepare(w, j))
<1>1. /\ task[w][j].at \notin Escapes /\ Outside(j) /\ ~AdmissionOpen
      /\ jobs[j].state = "dispatching" /\ launches[j].sandbox # 0 /\ stopped
  BY DEF Orphaned, Outside, AdmissionOpen
<1>2. Owned(j) # {}
  BY <1>1, RowsAt DEF JournalFit
<1>3. task[w][j].at # "create"
  BY <1>2, TaskAt DEF FitTask
<1>4. ~(\/ AckReads(w, j) \/ AckStores(w, j) \/ AckStarts(w, j) \/ Dispatch(w, j)
        \/ RunnerPicks(j) \/ Prepare(w, j))
  BY <1>1 DEF AckReads, AckStores, AckStarts, Dispatch, RunnerPicks, Prepare, BeginDispatch,
     At, Escapes
<1>5. ASSUME NEW step \in {"upload", "worker", "exec", "export", "record", "cancel", "term",
                           "stop", "receipt"},
             Go(w, j, step)
      PROVE  Outside(j)'
  BY <1>1, <1>5, GoesOutside DEF Steps, Escapes
<1>6. Raise(w, j) \/ Become(w, j, Idle) => Outside(j)'
  BY <1>1, RaisesOutside, BecomesOutside, IdleTask DEF Escapes
<1>7. SUFFICES Outside(j)'
  BY <1>4
<1>8. CASE w = "runner" /\ RunnerStep(j)
  <2>1. ~(\/ StartReads(w, j) \/ StartLooks(w, j) \/ StartInspects(w, j) \/ SendCreate(w, j)
          \/ CreateReturns(w, j))
    BY <1>1, <1>3 DEF StartReads, StartLooks, StartInspects, SendCreate, CreateReturns, At, Escapes
  <2>2. CASE StageClaims(w, j) \/ Upload(w, j) \/ WorkerClaims(w, j) \/ Execute(w, j)
             \/ Export(w, j) \/ Record(w, j)
    BY <1>1, <1>5, <1>6, <2>2 DEF StageClaims, Upload, WorkerClaims, Execute, Export,
       Record
  <2>3. CASE CleanReads(w, j)
    <3>1. PICK step : step = IF jobs[j].state = "reserved" THEN "cancel" ELSE "term"
      OBVIOUS
    <3>2. Become(w, j, Idle) \/ Go(w, j, step)
      BY <2>3, <3>1 DEF CleanReads
    <3> QED BY <1>5, <1>6, <3>1, <3>2
  <2> QED BY <1>4, <1>8, <2>1, <2>2, <2>3 DEF RunnerStep
<1>9. CASE w = "watchdog" /\ WatchdogPicks(j)
  <2>1. PICK step : step = IF jobs[j].state = "reserved" THEN "cancel" ELSE "term"
    OBVIOUS
  <2>2. PICK c : c = [Idle EXCEPT !.goal = "terminate", !.at = step]
    OBVIOUS
  <2>3. Become(w, j, c)
    BY <1>9, <2>1, <2>2 DEF WatchdogPicks
  <2>4. c.at = step /\ step \notin Escapes
    BY <2>1, <2>2 DEF Idle, Escapes
  <2> QED BY <1>1, <2>3, <2>4, BecomesOutside
<1>10. CASE Cancel(w, j) \/ TerminateLooks(w, j) \/ TerminateRequests(w, j)
            \/ TerminateStops(w, j) \/ TerminateConfirms(w, j) \/ CallFails(w, j)
  BY <1>1, <1>5, <1>6, <1>10 DEF Cancel, TerminateLooks, TerminateRequests,
     TerminateStops, TerminateConfirms, CallFails, RequestCleanup, At, Escapes
<1>11. CASE TerminateReads(w, j) \/ TerminateRecords(w, j)
  <2>1. ASSUME NEW p, NEW e, NEW step \in {"request", "confirm"}, NEW c,
               \/ c = [task[w][j] EXCEPT !.observed = p, !.at = step]
               \/ c = [task[w][j] EXCEPT !.receipt = e, !.at = step],
               Become(w, j, c)
        PROVE  Outside(j)'
    <3>1. c.at = step
      BY <2>1, TaskAt DEF Task
    <3> QED BY <1>1, <2>1, <3>1, BecomesOutside DEF Escapes
  <2>2. CASE TerminateRecords(w, j)
    BY <2>1, <2>2 DEF TerminateRecords
  <2>3. CASE TerminateReads(w, j)
    <3>1. \/ Raise(w, j)
          \/ Become(w, j, [task[w][j] EXCEPT !.receipt = launches[j].receipt, !.at = "confirm"])
          \/ Become(w, j, [task[w][j] EXCEPT !.observed = launches[j].sandbox, !.at = "request"])
      BY <1>1, <2>3 DEF TerminateReads
    <3> QED BY <1>6, <2>1, <3>1
  <2> QED BY <1>11, <2>2, <2>3
<1> QED BY <1>4, <1>8, <1>9, <1>10, <1>11 DEF Cleanup

\* A stop is for good.
LEMMA StopIsForGood ==
  ASSUME [JobsNext]_campaignVars, stopped
  PROVE  stopped'
<1>1. ASSUME NEW j \in Jobs, JobStep(j) PROVE UNCHANGED stopped
  BY <1>1 DEF JobStep, AdmitJob, BeginDispatch, ProviderStarted, ProviderSubmissionRefused,
     RecordResult, RequestCleanup, ProviderCleanupConfirmed, SettleJob, CleanupConfirmed,
     CancelUndispatched
<1> QED BY <1>1 DEF JobsNext, RetainReconciledJobs, Stop, campaignVars, jobVars

\* At the orphan no call of the controller moves the job.
LEMMA OrphanStaysDispatching ==
  ASSUME TrainingInv, [ModalNext]_modalVars, NEW j \in Jobs, Orphaned(j)
  PROVE  jobs'[j].state = "dispatching"
<1>1. jobs[j].state = "dispatching" /\ JobsTypeOK
  BY DEF Orphaned, TrainingInv, ModalTyped
<1>2. ASSUME NEW k \in Jobs, JobStep(k) \/ UNCHANGED campaignVars, k # j
      PROVE  jobs'[j].state = "dispatching"
  BY <1>1, <1>2, OtherRowsKept
<1>3. CASE UNCHANGED campaignVars
  BY <1>1, <1>3 DEF campaignVars, jobVars
<1>4. CASE Campaign
  <2>1. ASSUME NEW k \in Jobs, NEW amount \in Amounts, NEW timeout \in Timeouts,
               AdmitJob(k, "training", amount, timeout)
        PROVE  jobs'[j].state = "dispatching"
    <3>1. k # j
      BY <1>1, <2>1 DEF AdmitJob
    <3>2. JobStep(k)
      BY <2>1, TrainingAssumption DEF JobStep
    <3> QED BY <1>2, <3>1, <3>2
  <2>2. Stop \/ (Tick /\ UNCHANGED jobVars) => UNCHANGED jobs
    BY DEF Stop, jobVars
  <2> QED BY <1>1, <1>4, <2>1, <2>2 DEF Campaign
<1>5. ASSUME NEW w \in Processes, NEW k \in Jobs,
             \/ w = "runner" /\ RunnerStep(k)
             \/ w = "watchdog" /\ WatchdogPicks(k)
             \/ Cleanup(w, k) \/ CallFails(w, k)
      PROVE  jobs'[j].state = "dispatching"
  <2>1. CASE Dispatch(w, k)
    <3>1. k # j
      BY <1>1, <2>1 DEF Dispatch, BeginDispatch, Dispatchable
    <3> QED BY <1>2, <2>1, <3>1 DEF Dispatch, JobStep
  <2>2. CASE Record(w, k)
    <3>1. k # j \/ UNCHANGED campaignVars
      BY <1>1, <2>2 DEF Record, RecordResult
    <3>2. JobStep(k) \/ UNCHANGED campaignVars
      BY <2>2 DEF Record, JobStep
    <3> QED BY <1>2, <1>3, <3>1, <3>2
  <2>3. CASE Cancel(w, k)
    <3>1. k # j \/ UNCHANGED campaignVars
      BY <1>1, <2>3 DEF Cancel, CancelUndispatched, Cancellable
    <3>2. JobStep(k) \/ UNCHANGED campaignVars
      BY <2>3 DEF Cancel, JobStep
    <3> QED BY <1>2, <1>3, <3>1, <3>2
  <2>4. CASE AckStarts(w, k)
    <3>1. k # j
      BY <2>4 DEF AckStarts, At, Orphaned, Outside, Escapes
    <3>2. JobStep(k) \/ UNCHANGED campaignVars
      BY <2>4, JobCalls DEF AckStarts, JobStep
    <3> QED BY <1>2, <3>1, <3>2
  <2>5. CASE TerminateRequests(w, k)
    <3>1. k # j \/ UNCHANGED campaignVars
      BY <1>1, <2>5 DEF TerminateRequests, RequestCleanup
    <3>2. JobStep(k) \/ UNCHANGED campaignVars
      BY <2>5 DEF TerminateRequests, JobStep
    <3> QED BY <1>2, <1>3, <3>1, <3>2
  <2>6. CASE TerminateConfirms(w, k)
    <3>1. k # j \/ UNCHANGED campaignVars
      BY <1>1, <2>6 DEF TerminateConfirms, ProviderCleanupConfirmed
    <3>2. JobStep(k) \/ UNCHANGED campaignVars
      BY <2>6, JobCalls DEF TerminateConfirms, JobStep
    <3> QED BY <1>2, <1>3, <3>1, <3>2
  <2>7. CASE \/ RunnerPicks(k) \/ Prepare(w, k) \/ StartReads(w, k) \/ StartLooks(w, k)
             \/ StartInspects(w, k) \/ SendCreate(w, k) \/ CreateReturns(w, k)
             \/ StageClaims(w, k) \/ Upload(w, k) \/ WorkerClaims(w, k) \/ Execute(w, k)
             \/ Export(w, k) \/ CleanReads(w, k)
    BY <1>3, <2>7 DEF RunnerPicks, Prepare, StartReads, StartLooks, StartInspects, SendCreate,
       CreateReturns, StageClaims, Upload, WorkerClaims, Execute, Export, CleanReads
  <2>8. CASE \/ WatchdogPicks(k) \/ AckReads(w, k) \/ AckStores(w, k) \/ TerminateReads(w, k)
             \/ TerminateLooks(w, k) \/ TerminateStops(w, k) \/ TerminateRecords(w, k)
             \/ CallFails(w, k)
    BY <1>3, <2>8 DEF WatchdogPicks, AckReads, AckStores, TerminateReads, TerminateLooks,
       TerminateStops, TerminateRecords, CallFails
  <2>9. CASE w = "runner" /\ RunnerStep(k)
    BY <2>1, <2>2, <2>7, <2>9 DEF RunnerStep
  <2>10. CASE Cleanup(w, k)
    BY <2>3, <2>4, <2>5, <2>6, <2>8, <2>10 DEF Cleanup
  <2> QED BY <1>5, <2>8, <2>9, <2>10
<1>6. ASSUME \/ \E k \in Jobs : CreateLost(k)
             \/ \E k \in Jobs, p \in Providers : ProviderCreates(k, p)
             \/ \E p \in Providers : SandboxEnds(p)
             \/ \E w \in Processes : Crash(w)
      PROVE  UNCHANGED campaignVars
  BY <1>6 DEF CreateLost, ProviderCreates, SandboxEnds, Crash
<1>7. UNCHANGED modalVars => UNCHANGED campaignVars
  BY DEF modalVars
<1> QED BY <1>3, <1>4, <1>5, <1>6, <1>7, TrainingConstants DEF ModalNext

LEMMA OrphanStep ==
  ASSUME TrainingInv, [ModalNext]_modalVars, NEW j \in Jobs, Orphaned(j)
  PROVE  Orphaned(j)'
<1>1. stopped' /\ jobs'[j].state = "dispatching"
  BY TrainingStepsJobs, StopIsForGood, OrphanStaysDispatching DEF Orphaned
<1>2. launches[j].sandbox # 0 /\ Outside(j)
  BY DEF Orphaned
<1>3. SUFFICES launches'[j].sandbox # 0 /\ Outside(j)'
  BY <1>1 DEF Orphaned
<1>4. CASE UNCHANGED <<launches, task>>
  BY <1>2, <1>4 DEF Outside
<1>5. ASSUME NEW w \in Processes, Crash(w) PROVE launches'[j].sandbox # 0 /\ Outside(j)'
  <2>1. UNCHANGED launches /\ task' = [task EXCEPT ![w] = [k \in Jobs |-> Idle]]
    BY <1>5 DEF Crash
  <2>2. \A v \in Processes : task'[v][j] \in {task[v][j], Idle}
    BY <2>1 DEF TrainingInv, ModalTyped
  <2> QED BY <1>2, <2>1, <2>2, IdleTask DEF Outside, Escapes
<1>6. ASSUME NEW w \in Processes, NEW k \in Jobs,
             \/ w = "runner" /\ RunnerStep(k)
             \/ w = "watchdog" /\ WatchdogPicks(k)
             \/ Cleanup(w, k) \/ CallFails(w, k)
      PROVE  launches'[j].sandbox # 0 /\ Outside(j)'
  <2>1. Outside(j)'
    BY <1>2, <1>6, OthersOutside, OrphanStaysOutside
  <2>2. CASE AckStores(w, k)
    <3>1. k # j
      BY <1>2, <2>2 DEF AckStores, At, Outside, Escapes
    <3>2. PICK row : launches' = [launches EXCEPT ![k] = row]
      BY <2>2 DEF AckStores, TrainingInv, ModalTyped
    <3> QED BY <1>2, <2>1, <3>1, <3>2 DEF TrainingInv, ModalTyped
  <2>3. CASE Prepare(w, k) \/ TerminateRecords(w, k) \/ UNCHANGED launches
    BY <1>2, <2>1, <2>3, SandboxesRecorded DEF SameSandboxes
  <2>4. CASE w = "runner" /\ RunnerStep(k)
    BY <2>3, <2>4 DEF RunnerStep, RunnerPicks, StartReads, StartLooks, StartInspects, Dispatch,
       SendCreate, CreateReturns, StageClaims, Upload, WorkerClaims, Execute, Export, Record,
       CleanReads
  <2>5. CASE Cleanup(w, k) \/ CallFails(w, k) \/ WatchdogPicks(k)
    BY <2>2, <2>3, <2>5 DEF Cleanup, AckReads, AckStarts, Cancel, TerminateReads,
       TerminateLooks, TerminateRequests, TerminateStops, TerminateConfirms, CallFails,
       WatchdogPicks
  <2> QED BY <1>6, <2>4, <2>5
<1>7. UNCHANGED modalVars \/ Campaign \/ (\E k \in Jobs : CreateLost(k))
        \/ (\E k \in Jobs, p \in Providers : ProviderCreates(k, p)) \/ (\E p \in Providers : SandboxEnds(p))
      => UNCHANGED <<launches, task>>
  BY DEF modalVars, Campaign, trainingVars, CreateLost, ProviderCreates, SandboxEnds
<1> QED BY <1>4, <1>5, <1>6, <1>7, TrainingConstants DEF ModalNext

\* Once the campaign is stopped, a crash between acknowledge's two transactions
\* is never made good: the job stays in dispatching, its slot and its hold
\* taken, whatever the runner and the watchdog do afterwards.
THEOREM OrphansStay ==
  ASSUME NEW j \in Jobs
  PROVE  ModalSpec => [](Orphaned(j) => []Orphaned(j))
<1>1. TrainingInv /\ [ModalNext]_modalVars /\ Orphaned(j) => Orphaned(j)'
  BY OrphanStep
<1> QED BY <1>1, TrainingIsSound, PTL DEF ModalSpec
=============================================================================
