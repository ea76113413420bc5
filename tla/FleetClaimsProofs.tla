-------------------------- MODULE FleetClaimsProofs --------------------------
(***************************************************************************)
(* Proofs about FleetClaims, for every number of jobs and crashes: that    *)
(* the two processes drive the controller only through its own operations, *)
(* and what they may rely on between two steps.                            *)
(***************************************************************************)
EXTENDS FleetClaims, CampaignJobsProofs

(* The steps only the runner takes, those after a claim was seen, and      *)
(* those after it was seen to be gone.                                     *)
RunnerSteps == {"execute", "acquire", "find", "reference", "create", "await", "connect",
                "attempt", "run", "collect", "record", "clean"}
ClaimedSteps == {"owned", "observing", "started", "request", "stop"}
GoneSteps == {"receipt", "writing", "confirm"}

EverClaimed(j) == claims[j].state # "none"
\* The job has no claim and can get none any more.
Over(j) == j \notin submitted /\ ~Present(j) /\ (EverClaimed(j) \/ jobs[j].state = "cleaned")

(* What a process at work on a job may rely on.                            *)
RunnerFit(j, t) ==
  /\ t.at = "create" => jobs[j].state = "dispatching" /\ ~EverClaimed(j) /\ j \notin submitted
  /\ t.at = "run" => j \in attempts /\ runs[j] = 0
  /\ t.at = "record" => runs[j] > 0
ReleaseFit(j, t) ==
  /\ t.at \in ClaimedSteps => EverClaimed(j)
  /\ t.at = "lookup" => /\ t.seen \notin {"absent", "reserved"}
                        /\ t.seen # "dispatching" => EverClaimed(j) \/ jobs[j].state = "cleaned"
  /\ t.at = "poll" => EverClaimed(j) \/ jobs[j].state = "cleaned"
  /\ t.at \in GoneSteps => Over(j)
  /\ t.at = "writing" => files[j].receipt = "torn" /\ t.receipt \in Evidence
  /\ t.at = "confirm" => files[j].receipt = "whole" /\ t.receipt = files[j].evidence
FitTask(w, j, t) ==
  /\ t.at # "idle" => jobs[j].state # "absent"
  /\ w = "watchdog" => t.at \notin RunnerSteps /\ ~t.adopting
                       /\ (t.at # "idle" => t.goal = "terminate")
  /\ RunnerFit(j, t) /\ ReleaseFit(j, t)
TasksFit == \A w \in Processes, j \in Jobs : FitTask(w, j, task[w][j])
OneWriter ==
  \A j \in Jobs, v, w \in Processes : At(v, j, "writing") /\ At(w, j, "writing") => v = w

(* What the rows of a job, its files and the provider agree on.            *)
ClaimFit(j) ==
  /\ jobs[j].state \in {"absent", "reserved"} =>
       ~EverClaimed(j) /\ j \notin submitted /\ jobs[j].provider = 0
  /\ j \in submitted => ~EverClaimed(j)
  /\ jobs[j].state \in {"running", "cleanup_pending", "billing_pending"} => EverClaimed(j)
  /\ jobs[j].state = "cleaned" => Over(j)
ReceiptFit(j) ==
  /\ files[j].receipt # "none" => Over(j)
  /\ files[j].receipt = "whole" <=> files[j].evidence # 0
  /\ jobs[j].state = "cleaned" /\ jobs[j].provider # 0 =>
       files[j].receipt = "whole" /\ jobs[j].providerCleanup = Presented(files[j].evidence)
WorkerFit(j) ==
  /\ runs[j] <= 1 /\ (runs[j] > 0 => j \in attempts)
  /\ j \in collected => j \in attempts /\ runs[j] > 0
  /\ jobs[j].result # 0 => runs[j] > 0
RowsFit == \A j \in Jobs : ClaimFit(j) /\ ReceiptFit(j) /\ WorkerFit(j)

FilesTyped ==
  /\ submitted \subseteq Jobs
  /\ claims \in [Jobs -> [state: {"none", "present", "gone"}, created: 0..MaxTime]]
  /\ files \in [Jobs -> [observed: {"none", "torn", "whole"},
                         receipt: {"none", "torn", "whole"}, evidence: {0} \union Evidence]]
  /\ attempts \subseteq Jobs /\ collected \subseteq Jobs /\ runs \in [Jobs -> Nat]
FleetTyped ==
  /\ TypeOK /\ JobsTypeOK /\ FilesTyped
  /\ task \in [Processes -> [Jobs -> Task]]
  /\ crashes \in 0..MaxCrashes /\ now \in 0..MaxTime

(* The inductive invariant: what a process relies on between two of its    *)
(* steps holds whatever the other one, the provider and crashes do.        *)
FleetInv == FleetTyped /\ TasksFit /\ OneWriter /\ RowsFit

LEMMA FleetConstants ==
  /\ 0 \notin Jobs /\ 0 \notin Evidence /\ MaxTime \in Nat /\ MaxCrashes \in Nat
  /\ \E amount : amount \in Amounts
  /\ "runner" \in Processes /\ "watchdog" \in Processes
  /\ \A w \in Processes : w = "runner" \/ w = "watchdog"
BY JobsAssumption, FleetAssumption, CountsAssumption DEF Jobs, Processes

-----------------------------------------------------------------------------
(* Tasks.                                                                  *)

\* Going to another step changes nothing else of a task.
LEMMA GoneTask ==
  ASSUME NEW t \in Task, NEW step \in Steps, NEW c, c = [t EXCEPT !.at = step]
  PROVE  /\ c \in Task /\ c.at = step /\ c.goal = t.goal /\ c.adopting = t.adopting
         /\ c.seen = t.seen /\ c.receipt = t.receipt
BY DEF Task

LEMMA IdleTask ==
  Idle \in Task /\ Idle.at = "idle" /\ Idle.goal = "work" /\ ~Idle.adopting
BY DEF Task, Idle, Steps, JobStates

\* The other fields of a task change with its step.
Reading(t, state, b, step) == [t EXCEPT !.seen = state, !.adopting = b, !.at = step]
LEMMA ReadTask ==
  ASSUME NEW t \in Task, NEW step \in Steps, NEW state \in JobStates, NEW b \in BOOLEAN,
         NEW c, c = Reading(t, state, b, step)
  PROVE  /\ c \in Task /\ c.at = step /\ c.goal = t.goal /\ c.adopting = b /\ c.seen = state
BY DEF Task, Reading

Holding(t, e, step) == [t EXCEPT !.receipt = e, !.at = step]
LEMMA ReceiptTask ==
  ASSUME NEW t \in Task, NEW step \in Steps, NEW e \in Evidence,
         NEW c, c = Holding(t, e, step)
  PROVE  /\ c \in Task /\ c.at = step /\ c.goal = t.goal /\ c.adopting = t.adopting
         /\ c.receipt = e
BY DEF Task, Holding

\* One task changes.
LEMMA TaskSet ==
  ASSUME FleetTyped, NEW w \in Processes, NEW j \in Jobs, NEW c \in Task,
         task' = [task EXCEPT ![w][j] = c]
  PROVE  /\ task' \in [Processes -> [Jobs -> Task]]
         /\ \A v \in Processes, k \in Jobs :
              task'[v][k] = IF v = w /\ k = j THEN c ELSE task[v][k]
<1>1. task \in [Processes -> [Jobs -> Task]]
  BY DEF FleetTyped
<1>2. PICK row : row = [task[w] EXCEPT ![j] = c]
  OBVIOUS
<1>3. task' = [task EXCEPT ![w] = row] /\ row \in [Jobs -> Task]
  BY <1>1, <1>2
<1>4. \A k \in Jobs : row[k] = IF k = j THEN c ELSE task[w][k]
  BY <1>1, <1>2
<1> QED BY <1>1, <1>3, <1>4

\* A process that does nothing relies on nothing.
LEMMA IdleFits ==
  ASSUME NEW w, NEW j
  PROVE  FitTask(w, j, Idle)
BY DEF FitTask, RunnerFit, ReleaseFit, Idle, RunnerSteps, ClaimedSteps, GoneSteps

LEMMA TaskAt ==
  ASSUME FleetInv, NEW w \in Processes, NEW j \in Jobs
  PROVE  task[w][j] \in Task /\ FitTask(w, j, task[w][j])
BY DEF FleetInv, FleetTyped, TasksFit

LEMMA RowsAt ==
  ASSUME FleetInv, NEW j \in Jobs
  PROVE  /\ ClaimFit(j) /\ ReceiptFit(j) /\ WorkerFit(j)
         /\ jobs[j].state \in JobStates
         /\ files[j].evidence \in {0} \union Evidence
         /\ claims[j].state \in {"none", "present", "gone"}
BY DEF FleetInv, RowsFit, FleetTyped, FilesTyped, JobsTypeOK, JobRow

-----------------------------------------------------------------------------
(* A step of one process on one job.                                       *)

RowsKept(j) ==
  \A k \in Jobs \ {j} :
    /\ jobs'[k] = jobs[k] /\ claims'[k] = claims[k] /\ files'[k] = files[k]
    /\ runs'[k] = runs[k] /\ (k \in submitted' <=> k \in submitted)
    /\ (k \in attempts' <=> k \in attempts) /\ (k \in collected' <=> k \in collected)

\* A row that is kept fits as before, and so do the tasks on it.
LEMMA KeptFits ==
  ASSUME NEW k, ClaimFit(k) /\ ReceiptFit(k) /\ WorkerFit(k),
         jobs'[k] = jobs[k], claims'[k] = claims[k],
         files'[k].receipt = files[k].receipt, files'[k].evidence = files[k].evidence,
         runs'[k] = runs[k], k \in submitted' <=> k \in submitted,
         k \in attempts' <=> k \in attempts, k \in collected' <=> k \in collected
  PROVE  /\ ClaimFit(k)' /\ ReceiptFit(k)' /\ WorkerFit(k)'
         /\ \A w, t : FitTask(w, k, t) => FitTask(w, k, t)'
<1>1. (EverClaimed(k)' <=> EverClaimed(k)) /\ (Over(k)' <=> Over(k))
  BY DEF EverClaimed, Over, Present
<1>2. ClaimFit(k)'
  BY <1>1 DEF ClaimFit
<1>3. ReceiptFit(k)'
  BY <1>1 DEF ReceiptFit
<1>4. WorkerFit(k)'
  BY DEF WorkerFit
<1>5. ASSUME NEW w, NEW t, FitTask(w, k, t) PROVE FitTask(w, k, t)'
  <2>1. RunnerFit(k, t)'
    BY <1>1, <1>5 DEF FitTask, RunnerFit
  <2>2. ReleaseFit(k, t)'
    BY <1>1, <1>5 DEF FitTask, ReleaseFit
  <2> QED BY <1>5, <2>1, <2>2 DEF FitTask
<1> QED BY <1>2, <1>3, <1>4, <1>5

\* What a process relies on is not taken away: a claim that was made, a closed
\* job and a whole receipt stay, and only the runner itself submits or runs.
NothingLost(w, j) ==
  /\ jobs[j].state # "absent" => jobs'[j].state # "absent"
  /\ jobs[j].state = "cleaned" => jobs'[j].state = "cleaned"
  /\ EverClaimed(j) => EverClaimed(j)'
  /\ Over(j) => Over(j)'
  /\ runs[j] > 0 => runs'[j] > 0
  /\ files[j].receipt = "whole" =>
       files'[j].receipt = "whole" /\ files'[j].evidence = files[j].evidence
  /\ files[j].receipt = "torn" /\ ~At(w, j, "writing") => files'[j].receipt = "torn"
  /\ w = "watchdog" =>
       /\ UNCHANGED <<attempts, runs, submitted>>
       /\ jobs[j].state = "dispatching" /\ ~EverClaimed(j) =>
            jobs'[j].state = "dispatching" /\ ~EverClaimed(j)'

LEMMA OtherTaskFits ==
  ASSUME NEW w \in Processes, NEW v \in Processes, v # w, NEW j \in Jobs, NEW t,
         FitTask(v, j, t), NothingLost(w, j), t.at = "writing" => ~At(w, j, "writing")
  PROVE  FitTask(v, j, t)'
<1>1. ReleaseFit(j, t)'
  BY DEF FitTask, ReleaseFit, NothingLost
<1>2. RunnerFit(j, t)'
  <2>1. CASE w = "watchdog"
    BY <2>1 DEF FitTask, RunnerFit, NothingLost
  <2>2. CASE w = "runner"
    <3>1. v = "watchdog"
      BY <2>2, FleetConstants
    <3>2. {"create", "run", "record"} \subseteq RunnerSteps
      BY DEF RunnerSteps
    <3> QED BY <3>1, <3>2 DEF FitTask, RunnerFit
  <2> QED BY <2>1, <2>2, FleetConstants
<1> QED BY <1>1, <1>2 DEF FitTask, NothingLost

LEMMA OneTask ==
  ASSUME FleetInv, TypeOK', JobsTypeOK', FilesTyped', UNCHANGED <<crashes, now>>,
         NEW w \in Processes, NEW j \in Jobs, NEW c \in Task,
         task' = [task EXCEPT ![w][j] = c],
         c.at = "writing" => files[j].receipt # "torn",
         RowsKept(j), NothingLost(w, j),
         ClaimFit(j)', ReceiptFit(j)', WorkerFit(j)', FitTask(w, j, c)'
  PROVE  FleetInv'
<1>1. /\ task' \in [Processes -> [Jobs -> Task]]
      /\ \A v \in Processes, k \in Jobs :
           task'[v][k] = IF v = w /\ k = j THEN c ELSE task[v][k]
  BY TaskSet DEF FleetInv
<1>2. FleetTyped'
  BY <1>1 DEF FleetInv, FleetTyped
<1>3. ASSUME NEW k \in Jobs, k # j
      PROVE  /\ ClaimFit(k)' /\ ReceiptFit(k)' /\ WorkerFit(k)'
             /\ \A v \in Processes : FitTask(v, k, task[v][k])'
  <2>1. /\ ClaimFit(k)' /\ ReceiptFit(k)' /\ WorkerFit(k)'
        /\ \A v, t : FitTask(v, k, t) => FitTask(v, k, t)'
    BY <1>3, RowsAt, KeptFits DEF RowsKept
  <2>2. ASSUME NEW v \in Processes PROVE FitTask(v, k, task[v][k])'
    <3>1. PICK t : t = task[v][k]
      OBVIOUS
    <3>2. FitTask(v, k, t)'
      BY <2>1, <3>1, TaskAt
    <3>3. task'[v][k] = t
      BY <1>1, <1>3, <3>1
    <3> QED BY <3>2, <3>3 DEF FitTask
  <2> QED BY <2>1, <2>2
<1>4. ASSUME NEW v \in Processes PROVE FitTask(v, j, task[v][j])'
  <2>1. CASE v = w
    <3>1. task'[v][j] = c
      BY <1>1, <2>1
    <3> QED BY <2>1, <3>1 DEF FitTask
  <2>2. CASE v # w
    <3>1. PICK t : t = task[v][j]
      OBVIOUS
    <3>2. FitTask(v, j, t) /\ (t.at = "writing" => ~At(w, j, "writing"))
      BY <2>2, <3>1, TaskAt DEF FleetInv, OneWriter, At
    <3>3. FitTask(v, j, t)'
      BY <2>2, <3>2, OtherTaskFits
    <3>4. task'[v][j] = t
      BY <1>1, <2>2, <3>1
    <3> QED BY <3>3, <3>4 DEF FitTask
  <2> QED BY <2>1, <2>2
<1>5. OneWriter'
  <2>1. \A v \in Processes \ {w} : At(v, j, "writing") => files[j].receipt = "torn"
    BY TaskAt DEF At, FitTask, ReleaseFit
  <2>2. \A v \in Processes, k \in Jobs :
          (At(v, k, "writing"))' <=>
            IF v = w /\ k = j THEN c.at = "writing" ELSE At(v, k, "writing")
    BY <1>1 DEF At
  <2> QED BY <2>1, <2>2 DEF FleetInv, OneWriter
<1>6. RowsFit' /\ TasksFit'
  BY <1>3, <1>4 DEF RowsFit, TasksFit
<1> QED BY <1>2, <1>5, <1>6 DEF FleetInv

-----------------------------------------------------------------------------
(* The controller's operations, as a process of this module uses them.     *)

LEMMA JobEffects ==
  ASSUME JobsTypeOK, NEW j \in Jobs
  PROVE  /\ BeginDispatch(j) =>
              /\ jobs[j].state = "reserved" /\ jobs'[j].state = "dispatching"
              /\ jobs'[j].provider = jobs[j].provider /\ jobs'[j].result = jobs[j].result
         /\ \A p : ProviderStarted(j, p) =>
              /\ jobs[j].state = "dispatching" /\ jobs'[j].state = "running"
              /\ jobs'[j].result = jobs[j].result
         /\ \A r : RecordResult(j, r) =>
              jobs[j].state = "running" /\ jobs'[j].state = "cleanup_pending"
         /\ RequestCleanup(j) =>
              /\ jobs[j].state = "running" /\ jobs'[j].state = "cleanup_pending"
              /\ jobs'[j].result = jobs[j].result
<1>1. jobs \in [Jobs -> JobRow] /\ jobs[j] \in JobRow
  BY DEF JobsTypeOK
<1>2. ASSUME BeginDispatch(j)
      PROVE  /\ jobs[j].state = "reserved" /\ jobs'[j].state = "dispatching"
             /\ jobs'[j].provider = jobs[j].provider /\ jobs'[j].result = jobs[j].result
  BY <1>1, <1>2 DEF BeginDispatch, Dispatchable, JobRow
<1>3. ASSUME NEW p, ProviderStarted(j, p)
      PROVE  /\ jobs[j].state = "dispatching" /\ jobs'[j].state = "running"
             /\ jobs'[j].result = jobs[j].result
  BY <1>1, <1>3 DEF ProviderStarted, AwaitsProvider, JobRow
<1>4. ASSUME NEW r, RecordResult(j, r)
      PROVE  jobs[j].state = "running" /\ jobs'[j].state = "cleanup_pending"
  BY <1>1, <1>4 DEF RecordResult, JobRow
<1>5. ASSUME RequestCleanup(j)
      PROVE  /\ jobs[j].state = "running" /\ jobs'[j].state = "cleanup_pending"
             /\ jobs'[j].result = jobs[j].result
  BY <1>1, <1>5 DEF RequestCleanup, JobRow
<1> QED BY <1>2, <1>3, <1>4, <1>5

LEMMA CancelEffect ==
  ASSUME JobsTypeOK, NEW j \in Jobs, CancelUndispatched(j)
  PROVE  /\ jobs[j].state = "reserved" /\ jobs'[j].state = "cleaned"
         /\ jobs'[j].provider = jobs[j].provider /\ jobs'[j].result = jobs[j].result
         /\ UNCHANGED now
<1>1. jobs \in [Jobs -> JobRow] /\ jobs[j] \in JobRow
  BY DEF JobsTypeOK
<1>2. jobs[j].state = "reserved"
  BY DEF CancelUndispatched, Cancellable
<1>3. jobs' = [jobs EXCEPT ![j] = [jobs[j] EXCEPT !.state = "cleaned",
                 !.closure = NeverDispatched(j), !.providerCleanup = NeverDispatched(j)]]
  BY DEF CancelUndispatched, CloseAtOnce
<1>4. UNCHANGED now
  BY DEF CancelUndispatched, SettleHold, Settle, ledgerVars
<1> QED BY <1>1, <1>2, <1>3, <1>4 DEF JobRow

\* A confirmed cleanup keeps the receipt it was presented.
LEMMA CleanupEffect ==
  ASSUME JobsTypeOK, NEW j \in Jobs, NEW e, ProviderCleanupConfirmed(j, e)
  PROVE  /\ jobs[j].state \in {"running", "cleanup_pending"}
         /\ jobs'[j].state \in {"billing_pending", "cleaned"}
         /\ jobs'[j].providerCleanup = Presented(e) /\ jobs'[j].result = jobs[j].result
<1> DEFINE state == AfterCleanup(jobs[j].kind)
<1>1. jobs \in [Jobs -> JobRow] /\ jobs[j] \in JobRow
  BY DEF JobsTypeOK
<1>2. state \in {"billing_pending", "cleaned"}
  BY DEF AfterCleanup
<1>3. PICK c : jobs' = [jobs EXCEPT ![j] = [jobs[j] EXCEPT !.state = state,
                 !.providerCleanup = Presented(e), !.closure = c]]
  BY DEF ProviderCleanupConfirmed
<1>4. jobs[j].state \in {"running", "cleanup_pending"}
  BY DEF ProviderCleanupConfirmed
<1> HIDE DEF state
<1> QED BY <1>1, <1>2, <1>3, <1>4 DEF JobRow

\* A desktop job holds no budget, whatever amount its caller names.
LEMMA DesktopAdmission ==
  ASSUME NEW j \in Jobs, NEW kind \in CampaignKinds \intersect DesktopKinds,
         NEW timeout \in Timeouts, AdmitJob(j, kind, 0, timeout)
  PROVE  JobStep(j) /\ UNCHANGED now
<1>1. ~Spends(kind)
  BY DEF Spends, ResourceOf, DesktopKinds
<1>2. PICK amount \in Amounts : TRUE
  BY FleetConstants
<1>3. AdmitJob(j, kind, amount, timeout)
  BY <1>1 DEF AdmitJob
<1>4. UNCHANGED now
  BY <1>1 DEF AdmitJob, ledgerVars
<1> QED BY <1>3, <1>4 DEF JobStep

\* The receipt in hand when a cleanup is confirmed.
LEMMA ReceiptInHand ==
  ASSUME FleetInv, NEW w \in Processes, NEW j \in Jobs, At(w, j, "confirm")
  PROVE  /\ task[w][j].receipt \in Evidence /\ task[w][j].receipt = files[j].evidence
         /\ files[j].receipt = "whole" /\ Over(j)
BY TaskAt, RowsAt, FleetConstants DEF FitTask, ReleaseFit, ReceiptFit, GoneSteps, At

\* The two processes touch the jobs through the controller's operations only.
LEMMA FleetStepsJobs ==
  ASSUME FleetInv, [FleetNext]_fleetVars
  PROVE  [JobsNext]_campaignVars
<1>1. ASSUME NEW j \in Jobs, JobStep(j) PROVE [JobsNext]_campaignVars
  BY <1>1 DEF JobsNext
<1>2. CASE Campaign
  <2>1. ASSUME NEW j \in Jobs, NEW kind \in CampaignKinds \intersect DesktopKinds,
               NEW timeout \in Timeouts, AdmitJob(j, kind, 0, timeout)
        PROVE  [JobsNext]_campaignVars
    BY <1>1, <2>1, DesktopAdmission
  <2>2. Stop \/ (Tick /\ UNCHANGED jobVars) => [JobsNext]_campaignVars
    BY DEF JobsNext, LedgerStep
  <2> QED BY <1>2, <2>1, <2>2 DEF Campaign
<1>3. ASSUME NEW w \in Processes, NEW j \in Jobs,
             \/ Dispatch(w, j) \/ Record(w, j) \/ Cancel(w, j) \/ Started(w, j)
             \/ RequestsCleanup(w, j) \/ Confirms(w, j)
      PROVE  [JobsNext]_campaignVars
  <2>1. Dispatch(w, j) => JobStep(j)
    BY DEF Dispatch, JobStep
  <2>2. Record(w, j) => JobStep(j) \/ UNCHANGED campaignVars
    BY DEF Record, JobStep
  <2>3. Cancel(w, j) => JobStep(j) \/ UNCHANGED campaignVars
    BY DEF Cancel, JobStep
  <2>4. Started(w, j) => JobStep(j) \/ UNCHANGED campaignVars
    BY DEF Started, JobStep
  <2>5. RequestsCleanup(w, j) => JobStep(j) \/ UNCHANGED campaignVars
    BY DEF RequestsCleanup, JobStep
  <2>6. Confirms(w, j) => JobStep(j) \/ UNCHANGED campaignVars
    BY ReceiptInHand DEF Confirms, JobStep
  <2> QED BY <1>1, <1>3, <2>1, <2>2, <2>3, <2>4, <2>5, <2>6
<1>4. ASSUME NEW w \in Processes, NEW j \in Jobs,
             \/ RunnerPicks(j) \/ Execute(w, j) \/ AcquireReads(w, j) \/ AcquireFinds(w, j)
             \/ SendCreate(w, j) \/ CreateReturns(w, j) \/ Connect(w, j)
             \/ Attempt(w, j) \/ Run(w, j) \/ Collect(w, j) \/ CleanReads(w, j)
      PROVE  UNCHANGED campaignVars
  BY <1>4 DEF RunnerPicks, Execute, AcquireReads, AcquireFinds, SendCreate, CreateReturns,
       Connect, Attempt, Run, Collect, CleanReads
<1>5. ASSUME NEW w \in Processes, NEW j \in Jobs,
             \/ WatchdogPicks(j) \/ AssertOwned(w, j) \/ ObservedWritten(w, j)
             \/ ReleaseReads(w, j) \/ ReleaseLooks(w, j) \/ Stops(w, j) \/ Polls(w, j)
             \/ ReceiptFound(w, j) \/ ReceiptOpened(w, j) \/ ReceiptTorn(w, j)
             \/ ReceiptWritten(w, j) \/ CallFails(w, j)
      PROVE  UNCHANGED campaignVars
  BY <1>5 DEF WatchdogPicks, AssertOwned, ObservedWritten, ReleaseReads, ReleaseLooks, Stops,
       Polls, ReceiptFound, ReceiptOpened, ReceiptTorn, ReceiptWritten, CallFails
<1>6. ASSUME \/ \E j \in Jobs : ProviderCreates(j) \/ CreateLost(j) \/ ClaimEnds(j)
             \/ \E w \in Processes : Crash(w)
      PROVE  UNCHANGED campaignVars
  BY <1>6 DEF ProviderCreates, CreateLost, ClaimEnds, Crash
<1>7. ASSUME NEW j \in Jobs, RunnerStep(j) PROVE [JobsNext]_campaignVars
  BY <1>3, <1>4, <1>7, FleetConstants DEF RunnerStep
<1>8. ASSUME NEW w \in Processes, NEW j \in Jobs, Release(w, j) PROVE [JobsNext]_campaignVars
  BY <1>3, <1>5, <1>8 DEF Release
<1>9. UNCHANGED fleetVars => UNCHANGED campaignVars
  BY DEF fleetVars
<1> QED BY <1>2, <1>5, <1>6, <1>7, <1>8, <1>9, FleetConstants DEF FleetNext

\* The controller's and the ledger's tables keep their types at every step.
LEMMA CampaignTyped ==
  ASSUME FleetInv, [FleetNext]_fleetVars
  PROVE  TypeOK' /\ JobsTypeOK'
BY FleetStepsJobs, TypesStep DEF FleetInv, FleetTyped

\* An operation on one job leaves the rows of the others.
LEMMA OtherRowsKept ==
  ASSUME FleetInv, NEW j \in Jobs, JobStep(j) \/ UNCHANGED campaignVars
  PROVE  \A k \in Jobs \ {j} : jobs'[k] = jobs[k]
BY OtherJobsKept DEF FleetInv, FleetTyped, campaignVars, jobVars

-----------------------------------------------------------------------------
(* Steps that only read, and what they found.                              *)

\* The step leaves the job, its files and the provider alone.
Quiet == UNCHANGED <<jobs, now, providerVars, diskVars, crashes>>

LEMMA TaskMoves ==
  ASSUME FleetInv, TypeOK', JobsTypeOK', NEW w \in Processes, NEW j \in Jobs, NEW c \in Task,
         task' = [task EXCEPT ![w][j] = c], c.at # "writing", FitTask(w, j, c), Quiet
  PROVE  FleetInv'
<1>1. FilesTyped'
  BY DEF FleetInv, FleetTyped, FilesTyped, Quiet, providerVars, diskVars
<1>2. RowsKept(j)
  BY DEF RowsKept, Quiet, providerVars, diskVars
<1>3. (EverClaimed(j)' <=> EverClaimed(j)) /\ (Over(j)' <=> Over(j))
  BY DEF EverClaimed, Over, Present, Quiet, providerVars
<1>4. NothingLost(w, j)
  BY <1>3 DEF NothingLost, Quiet, providerVars, diskVars
<1>5. /\ ClaimFit(j)' /\ ReceiptFit(j)' /\ WorkerFit(j)'
      /\ \A v, t : FitTask(v, j, t) => FitTask(v, j, t)'
  BY RowsAt, KeptFits DEF Quiet, providerVars, diskVars
<1>6. UNCHANGED <<crashes, now>>
  BY DEF Quiet
<1> QED BY <1>1, <1>2, <1>4, <1>5, <1>6, OneTask

\* Where a process may always go.
LEMMA FreeFit ==
  ASSUME NEW w \in Processes, NEW j \in Jobs, NEW c \in Task, jobs[j].state # "absent",
         \/ c.at = "idle" /\ ~c.adopting
         \/ w = "runner" /\ c.at \in {"execute", "acquire", "find", "reference", "await", "connect",
                                      "attempt", "collect", "clean", "release", "cancel"}
         \/ c.goal = "terminate" /\ ~c.adopting /\ c.at \in {"release", "cancel"}
  PROVE  FitTask(w, j, c)
BY FleetConstants DEF FitTask, RunnerFit, ReleaseFit, RunnerSteps, ClaimedSteps, GoneSteps

RaisedTask(t) ==
  IF t.goal = "work" THEN [Idle EXCEPT !.at = "clean", !.goal = "terminate"] ELSE Idle

\* After a failure the dispatch goes to its finally block, cleanup is over.
LEMMA FailureFits ==
  ASSUME NEW w \in Processes, NEW j \in Jobs, NEW t \in Task, FitTask(w, j, t), t.at # "idle",
         NEW c, c = RaisedTask(t)
  PROVE  /\ c \in Task /\ c.at \in {"clean", "idle"} /\ ~c.adopting
         /\ c.at = "clean" => w = "runner"
<1>1. c \in Task /\ c.at \in {"clean", "idle"} /\ ~c.adopting
      /\ (c.at = "clean" => t.goal = "work")
  BY DEF RaisedTask, Task, Idle, Steps, JobStates
<1> QED BY <1>1, FleetConstants DEF FitTask

LEMMA FailureTask ==
  ASSUME FleetInv, NEW w \in Processes, NEW j \in Jobs, task[w][j].at # "idle", Raise(w, j)
  PROVE  \E c \in Task : /\ task' = [task EXCEPT ![w][j] = c]
                         /\ c.at \in {"clean", "idle"} /\ ~c.adopting
                         /\ c.at = "clean" => w = "runner"
<1>1. PICK t : t = task[w][j]
  OBVIOUS
<1>2. PICK c : c = RaisedTask(t)
  OBVIOUS
<1>3. t \in Task /\ FitTask(w, j, t) /\ t.at # "idle"
  BY <1>1, TaskAt
<1>4. /\ c \in Task /\ c.at \in {"clean", "idle"} /\ ~c.adopting
      /\ c.at = "clean" => w = "runner"
  BY <1>2, <1>3, FailureFits
<1>5. task' = [task EXCEPT ![w][j] = c]
  BY <1>1, <1>2 DEF Raise, Become, RaisedTask
<1> QED BY <1>4, <1>5

\* Whoever is at work works on a job that was admitted.
LEMMA AtWork ==
  ASSUME FleetInv, NEW w \in Processes, NEW j \in Jobs, task[w][j].at # "idle"
  PROVE  jobs[j].state # "absent"
BY TaskAt DEF FitTask

LEMMA RaiseKeeps ==
  ASSUME FleetInv, TypeOK', JobsTypeOK', NEW w \in Processes, NEW j \in Jobs,
         task[w][j].at # "idle", Raise(w, j), Quiet
  PROVE  FleetInv'
<1>1. PICK c \in Task : /\ task' = [task EXCEPT ![w][j] = c]
                        /\ c.at \in {"clean", "idle"} /\ ~c.adopting
                        /\ c.at = "clean" => w = "runner"
  BY FailureTask
<1>2. FitTask(w, j, c)
  BY <1>1, AtWork, FreeFit
<1> QED BY <1>1, <1>2, TaskMoves

LEMMA IdleKeeps ==
  ASSUME FleetInv, TypeOK', JobsTypeOK', NEW w \in Processes, NEW j \in Jobs,
         Become(w, j, Idle), Quiet
  PROVE  FleetInv'
BY IdleTask, IdleFits, TaskMoves DEF Become

\* What a step relies on that neither submits, runs nor writes a receipt.
Reached(w, j, step) ==
  /\ w = "watchdog" => step \notin RunnerSteps
  /\ step \in ClaimedSteps => EverClaimed(j)
  /\ step = "poll" => EverClaimed(j) \/ jobs[j].state = "cleaned"
  /\ step = "receipt" => Over(j)
  /\ step = "record" => runs[j] > 0
PlainSteps == Steps \ {"idle", "create", "run", "lookup", "writing", "confirm"}

LEMMA FitGone ==
  ASSUME NEW w \in Processes, NEW j \in Jobs, NEW t \in Task, NEW step \in PlainSteps,
         NEW c, c = [t EXCEPT !.at = step],
         FitTask(w, j, t), t.at # "idle", Reached(w, j, step)
  PROVE  FitTask(w, j, c) /\ c \in Task /\ c.at = step
<1>1. /\ c \in Task /\ c.at = step /\ c.goal = t.goal /\ c.adopting = t.adopting
      /\ c.seen = t.seen /\ c.receipt = t.receipt
  BY GoneTask DEF PlainSteps
<1>2. RunnerFit(j, c) /\ ReleaseFit(j, c)
  BY <1>1 DEF RunnerFit, ReleaseFit, Reached, PlainSteps, GoneSteps
<1> QED BY <1>1, <1>2 DEF FitTask, Reached

LEMMA GoKeeps ==
  ASSUME FleetInv, TypeOK', JobsTypeOK', NEW w \in Processes, NEW j \in Jobs,
         NEW step \in PlainSteps, Go(w, j, step), task[w][j].at # "idle",
         Reached(w, j, step), Quiet
  PROVE  FleetInv'
<1>1. PICK c : c = [task[w][j] EXCEPT !.at = step]
  OBVIOUS
<1>2. FitTask(w, j, c) /\ c \in Task /\ c.at = step
  BY <1>1, TaskAt, FitGone
<1>3. c.at # "writing"
  BY <1>2 DEF PlainSteps
<1> QED BY <1>1, <1>2, <1>3, TaskMoves DEF Go, Become

LEMMA PicksKeep ==
  ASSUME FleetInv, TypeOK', JobsTypeOK', NEW j \in Jobs, RunnerPicks(j) \/ WatchdogPicks(j)
  PROVE  FleetInv'
<1>1. CASE RunnerPicks(j)
  <2>1. PICK c : c = [Idle EXCEPT !.at = "execute"]
    OBVIOUS
  <2>2. c \in Task /\ c.at = "execute"
    BY <2>1, IdleTask, GoneTask DEF Steps
  <2>3. jobs[j].state # "absent" /\ Quiet /\ task' = [task EXCEPT !["runner"][j] = c]
    BY <1>1, <2>1 DEF RunnerPicks, Become, Occupies, ProviderStates, Quiet, campaignVars,
         jobVars, ledgerVars
  <2>4. FitTask("runner", j, c)
    BY <2>2, <2>3, FreeFit, FleetConstants
  <2> QED BY <2>2, <2>3, <2>4, TaskMoves, FleetConstants
<1>2. CASE WatchdogPicks(j)
  <2>1. PICK c : c = [Idle EXCEPT !.goal = "terminate",
                        !.at = IF jobs[j].state = "reserved" THEN "cancel" ELSE "release"]
    OBVIOUS
  <2>2. c \in Task /\ c.at \in {"cancel", "release"} /\ c.goal = "terminate" /\ ~c.adopting
    BY <2>1, IdleTask DEF Task, Idle, Steps
  <2>3. jobs[j].state # "absent" /\ Quiet /\ task' = [task EXCEPT !["watchdog"][j] = c]
    BY <1>2, <2>1 DEF WatchdogPicks, Become, Due, ProviderStates, Quiet, campaignVars,
         jobVars, ledgerVars
  <2>4. FitTask("watchdog", j, c)
    BY <2>2, <2>3, FreeFit, FleetConstants
  <2> QED BY <2>2, <2>3, <2>4, TaskMoves, FleetConstants
<1> QED BY <1>1, <1>2

\* A claim that is present was made; one that was made and is not present, or
\* that a cancelled job never had, is gone for good.
LEMMA ClaimSeen ==
  ASSUME FleetInv, NEW j \in Jobs
  PROVE  /\ Present(j) => EverClaimed(j)
         /\ ~Present(j) /\ (EverClaimed(j) \/ jobs[j].state = "cleaned") => Over(j)
BY RowsAt DEF Present, EverClaimed, Over, ClaimFit

LEMMA RunnerReadsKeep ==
  ASSUME FleetInv, TypeOK', JobsTypeOK', NEW j \in Jobs, NEW w \in Processes, w = "runner",
         \/ Execute(w, j) \/ AcquireReads(w, j) \/ AcquireFinds(w, j)
         \/ CreateReturns(w, j) \/ Connect(w, j) \/ CleanReads(w, j)
  PROVE  FleetInv'
<1>1. Quiet
  BY DEF Execute, AcquireReads, AcquireFinds, CreateReturns, Connect, CleanReads, Quiet,
       campaignVars, jobVars, ledgerVars
<1>2. task[w][j].at # "idle" /\ jobs[j].state # "absent"
  BY AtWork DEF Execute, AcquireReads, AcquireFinds, CreateReturns, Connect, CleanReads, At
<1>3. \A step \in {"acquire", "reference", "attempt", "release"} :
        step \in PlainSteps /\ Reached(w, j, step)
  BY DEF PlainSteps, Steps, Reached, ClaimedSteps
<1>4. /\ "owned" \in PlainSteps /\ (EverClaimed(j) => Reached(w, j, "owned"))
      /\ "record" \in PlainSteps /\ (runs[j] > 0 => Reached(w, j, "record"))
  BY DEF PlainSteps, Steps, Reached, ClaimedSteps
<1>5. CASE AcquireReads(w, j)
  <2>1. PICK t \in Task, state \in JobStates : t = task[w][j] /\ state = jobs[j].state
    BY TaskAt, RowsAt
  <2>2. PICK b \in BOOLEAN : b = TRUE
    OBVIOUS
  <2>3. PICK c : c = Reading(t, state, b, "find")
    OBVIOUS
  <2>4. "find" \in Steps
    BY DEF Steps
  <2>5. c \in Task /\ c.at = "find"
    BY <2>3, <2>4, ReadTask
  <2>6. FitTask(w, j, c)
    BY <1>2, <2>5, FreeFit
  <2>7. task' = [task EXCEPT ![w][j] = c] /\ c.at # "writing"
    BY <1>5, <2>1, <2>2, <2>3, <2>5 DEF AcquireReads, Become, Reading
  <2> QED BY <1>1, <2>5, <2>6, <2>7, TaskMoves
<1>6. Execute(w, j) => (runs[j] > 0 /\ Go(w, j, "record")) \/ Go(w, j, "acquire")
  BY RowsAt DEF Execute, WorkerFit
<1>7. AcquireFinds(w, j) => Go(w, j, "reference") \/ (EverClaimed(j) /\ Go(w, j, "owned"))
  BY ClaimSeen DEF AcquireFinds
<1>8. CreateReturns(w, j) => EverClaimed(j) /\ Go(w, j, "owned")
  BY ClaimSeen DEF CreateReturns
<1>9. Connect(w, j) => Go(w, j, "attempt")
  BY DEF Connect
<1>10. CleanReads(w, j) => Become(w, j, Idle) \/ Go(w, j, "release")
  BY DEF CleanReads
<1> QED BY <1>1, <1>2, <1>3, <1>4, <1>5, <1>6, <1>7, <1>8, <1>9, <1>10, GoKeeps, IdleKeeps

LEMMA ReleaseReadsKeep ==
  ASSUME FleetInv, TypeOK', JobsTypeOK', NEW j \in Jobs, NEW w \in Processes,
         ReleaseReads(w, j)
  PROVE  FleetInv'
<1>1. Quiet
  BY DEF ReleaseReads, Quiet, campaignVars, jobVars, ledgerVars
<1>2. task[w][j].at # "idle" /\ jobs[j].state # "absent"
  BY AtWork DEF ReleaseReads, At
<1>3. PICK step \in {"cancel", "lookup"} :
        step = IF jobs[j].state = "reserved" THEN "cancel" ELSE "lookup"
  OBVIOUS
<1>4. PICK t \in Task, state \in JobStates : t = task[w][j] /\ state = jobs[j].state
  BY TaskAt, RowsAt
<1>5. PICK b \in BOOLEAN : b = FALSE
  OBVIOUS
<1>6. PICK c : c = Reading(t, state, b, step)
  OBVIOUS
<1>7. step \in Steps
  BY DEF Steps
<1>8. /\ c \in Task /\ c.at = step /\ c.goal = task[w][j].goal
      /\ ~c.adopting /\ c.seen = jobs[j].state
  BY <1>4, <1>5, <1>6, <1>7, ReadTask
<1>9. task' = [task EXCEPT ![w][j] = c]
  BY <1>3, <1>4, <1>5, <1>6 DEF ReleaseReads, Become, Reading
<1>10. step = "lookup" => /\ c.seen \notin {"absent", "reserved"}
                          /\ c.seen # "dispatching" => EverClaimed(j) \/ jobs[j].state = "cleaned"
  BY <1>2, <1>3, <1>8, RowsAt DEF ClaimFit, JobStates, ProviderStates
<1>11. RunnerFit(j, c) /\ ReleaseFit(j, c)
  BY <1>8, <1>10 DEF RunnerFit, ReleaseFit, ClaimedSteps, GoneSteps
<1>12. FitTask(w, j, c)
  BY <1>2, <1>8, <1>11, TaskAt DEF FitTask, RunnerSteps
<1>13. c.at # "writing"
  BY <1>8
<1> QED BY <1>1, <1>8, <1>9, <1>12, <1>13, TaskMoves

LEMMA ReceiptFoundKeeps ==
  ASSUME FleetInv, TypeOK', JobsTypeOK', NEW j \in Jobs, NEW w \in Processes,
         ReceiptFound(w, j)
  PROVE  FleetInv'
<1>1. Quiet
  BY DEF ReceiptFound, Quiet, campaignVars, jobVars, ledgerVars
<1>2. /\ task[w][j].at = "receipt" /\ jobs[j].state # "absent" /\ files[j].receipt = "whole"
      /\ files[j].evidence \in Evidence /\ Over(j)
  BY AtWork, TaskAt, RowsAt DEF ReceiptFound, At, ReceiptFit, FitTask, ReleaseFit, GoneSteps
<1>3. PICK t \in Task, e \in Evidence : t = task[w][j] /\ e = files[j].evidence
  BY <1>2, TaskAt
<1>4. PICK c : c = Holding(t, e, "confirm")
  OBVIOUS
<1>5. "confirm" \in Steps
  BY DEF Steps
<1>6. /\ c \in Task /\ c.at = "confirm" /\ c.goal = task[w][j].goal
      /\ c.adopting = task[w][j].adopting /\ c.receipt = files[j].evidence
  BY <1>3, <1>4, <1>5, ReceiptTask
<1>7. task' = [task EXCEPT ![w][j] = c]
  BY <1>3, <1>4 DEF ReceiptFound, EvidenceOnDisk, Become, Holding
<1>8. RunnerFit(j, c) /\ ReleaseFit(j, c)
  BY <1>2, <1>6 DEF RunnerFit, ReleaseFit, ClaimedSteps
<1>9. FitTask(w, j, c)
  BY <1>2, <1>6, <1>8, TaskAt DEF FitTask, RunnerSteps
<1>10. c.at # "writing"
  BY <1>6
<1> QED BY <1>1, <1>6, <1>7, <1>9, <1>10, TaskMoves

LEMMA SharedReadsKeep ==
  ASSUME FleetInv, TypeOK', JobsTypeOK', NEW j \in Jobs, NEW w \in Processes,
         ReleaseLooks(w, j) \/ Polls(w, j) \/ ReceiptTorn(w, j) \/ CallFails(w, j)
  PROVE  FleetInv'
<1>1. Quiet
  BY DEF ReleaseLooks, Polls, ReceiptTorn, CallFails, Quiet, campaignVars, jobVars, ledgerVars
<1>2. task[w][j].at # "idle"
  BY DEF ReleaseLooks, Polls, ReceiptTorn, CallFails, At, Awaits
<1>3. /\ {"poll", "owned", "receipt"} \subseteq PlainSteps
      /\ EverClaimed(j) \/ jobs[j].state = "cleaned" => Reached(w, j, "poll")
      /\ EverClaimed(j) => Reached(w, j, "owned")
      /\ Over(j) => Reached(w, j, "receipt")
  BY DEF PlainSteps, Steps, Reached, RunnerSteps, ClaimedSteps
<1>4. CASE ReleaseLooks(w, j)
  <2>1. task[w][j].seen # "dispatching" => EverClaimed(j) \/ jobs[j].state = "cleaned"
    BY <1>4, TaskAt DEF ReleaseLooks, At, FitTask, ReleaseFit
  <2> QED BY <1>1, <1>2, <1>3, <1>4, <2>1, ClaimSeen, GoKeeps DEF ReleaseLooks, AbsenceProves
<1>5. CASE Polls(w, j)
  <2>1. Over(j)
    BY <1>5, TaskAt, ClaimSeen DEF Polls, At, FitTask, ReleaseFit
  <2> QED BY <1>1, <1>2, <1>3, <1>5, <2>1, GoKeeps DEF Polls
<1>6. CASE ReceiptTorn(w, j) \/ CallFails(w, j)
  BY <1>1, <1>2, <1>6, RaiseKeeps DEF ReceiptTorn, CallFails
<1> QED BY <1>4, <1>5, <1>6

-----------------------------------------------------------------------------
(* Steps that write.                                                       *)

\* What is left of the other steps: a process goes on, fails or is done.
Moves(w, j) ==
  \/ Raise(w, j) \/ Become(w, j, Idle)
  \/ \E step \in PlainSteps : Reached(w, j, step) /\ Go(w, j, step)

LEMMA PlainFitKept ==
  ASSUME NEW w \in Processes, NEW j \in Jobs, NEW c \in Task,
         c.at \in PlainSteps \union {"idle"}, FitTask(w, j, c), NothingLost(w, j)
  PROVE  FitTask(w, j, c)'
<1>1. RunnerFit(j, c)'
  BY DEF FitTask, RunnerFit, NothingLost, PlainSteps
<1>2. ReleaseFit(j, c)'
  BY DEF FitTask, ReleaseFit, NothingLost, PlainSteps, ClaimedSteps
<1> QED BY <1>1, <1>2 DEF FitTask, NothingLost

LEMMA MovesTo ==
  ASSUME FleetInv, NEW w \in Processes, NEW j \in Jobs, task[w][j].at # "idle", Moves(w, j)
  PROVE  \E c \in Task : /\ task' = [task EXCEPT ![w][j] = c]
                         /\ c.at \in PlainSteps \union {"idle"} /\ FitTask(w, j, c)
<1>1. CASE Raise(w, j)
  <2>1. PICK c \in Task : /\ task' = [task EXCEPT ![w][j] = c]
                          /\ c.at \in {"clean", "idle"} /\ ~c.adopting
                          /\ c.at = "clean" => w = "runner"
    BY <1>1, FailureTask
  <2>2. FitTask(w, j, c)
    BY <2>1, AtWork, FreeFit
  <2>3. c.at \in PlainSteps \union {"idle"}
    BY <2>1 DEF PlainSteps, Steps
  <2> QED BY <2>1, <2>2, <2>3
<1>2. CASE Become(w, j, Idle)
  BY <1>2, IdleTask, IdleFits DEF Become
<1>3. CASE \E step \in PlainSteps : Reached(w, j, step) /\ Go(w, j, step)
  <2>1. PICK step \in PlainSteps : Reached(w, j, step) /\ Go(w, j, step)
    BY <1>3
  <2>2. PICK c : c = [task[w][j] EXCEPT !.at = step]
    OBVIOUS
  <2>3. FitTask(w, j, c) /\ c \in Task /\ c.at = step
    BY <2>1, <2>2, TaskAt, FitGone
  <2>4. task' = [task EXCEPT ![w][j] = c]
    BY <2>1, <2>2 DEF Go, Become
  <2> QED BY <2>3, <2>4
<1> QED BY <1>1, <1>2, <1>3 DEF Moves

LEMMA MovesKeep ==
  ASSUME FleetInv, TypeOK', JobsTypeOK', FilesTyped', UNCHANGED <<crashes, now>>,
         NEW w \in Processes, NEW j \in Jobs, task[w][j].at # "idle", Moves(w, j),
         RowsKept(j), NothingLost(w, j), ClaimFit(j)', ReceiptFit(j)', WorkerFit(j)'
  PROVE  FleetInv'
<1>1. PICK c \in Task : /\ task' = [task EXCEPT ![w][j] = c]
                        /\ c.at \in PlainSteps \union {"idle"} /\ FitTask(w, j, c)
  BY MovesTo
<1>2. FitTask(w, j, c)'
  BY <1>1, PlainFitKept
<1>3. c.at # "writing"
  BY <1>1 DEF PlainSteps
<1> QED BY <1>1, <1>2, <1>3, OneTask

\* The step writes no row of the controller.
LEMMA CampaignAtRest ==
  ASSUME UNCHANGED campaignVars PROVE UNCHANGED <<jobs, now>>
BY DEF campaignVars, jobVars, ledgerVars

\* A step that leaves the claims and the jobs' rows.
LEMMA ClaimsKept ==
  ASSUME NEW j, UNCHANGED <<jobs, claims, submitted>>
  PROVE  /\ EverClaimed(j)' <=> EverClaimed(j)
         /\ Over(j)' <=> Over(j)
         /\ Present(j)' <=> Present(j)
         /\ ClaimFit(j) => ClaimFit(j)'
<1>1. (EverClaimed(j)' <=> EverClaimed(j)) /\ (Over(j)' <=> Over(j)) /\ (Present(j)' <=> Present(j))
  BY DEF EverClaimed, Over, Present
<1> QED BY <1>1 DEF ClaimFit

\* The identity of the claim is compared or written.
LEMMA IdentityKeeps ==
  ASSUME FleetInv, TypeOK', JobsTypeOK', NEW w \in Processes, NEW j \in Jobs,
         task[w][j].at # "idle", Moves(w, j), NEW o \in {"none", "torn", "whole"},
         files' = [files EXCEPT ![j].observed = o],
         UNCHANGED <<campaignVars, providerVars, attempts, collected, crashes>>
  PROVE  FleetInv'
<1>1. UNCHANGED <<jobs, now, claims, submitted, runs, attempts, collected, crashes>>
  BY CampaignAtRest DEF providerVars
<1>2. files \in [Jobs -> [observed: {"none", "torn", "whole"},
                         receipt: {"none", "torn", "whole"}, evidence: {0} \union Evidence]]
  BY DEF FleetInv, FleetTyped, FilesTyped
<1>3. /\ files' \in [Jobs -> [observed: {"none", "torn", "whole"},
                              receipt: {"none", "torn", "whole"}, evidence: {0} \union Evidence]]
      /\ files'[j].receipt = files[j].receipt /\ files'[j].evidence = files[j].evidence
      /\ \A k \in Jobs \ {j} : files'[k] = files[k]
  BY <1>2
<1>4. FilesTyped'
  BY <1>1, <1>3 DEF FleetInv, FleetTyped, FilesTyped
<1>5. RowsKept(j)
  BY <1>1, <1>3 DEF RowsKept
<1>6. NothingLost(w, j)
  BY <1>1, <1>3, ClaimsKept DEF NothingLost
<1>7. ClaimFit(j)' /\ ReceiptFit(j)' /\ WorkerFit(j)'
  BY <1>1, <1>3, RowsAt, KeptFits
<1> QED BY <1>1, <1>4, <1>5, <1>6, <1>7, MovesKeep

\* Where assert_owned and provider_started lead.
LEMMA OwnedLeadsOn ==
  ASSUME FleetInv, NEW w \in Processes, NEW j \in Jobs, task[w][j].at \in ClaimedSteps
  PROVE  /\ EverClaimed(j) /\ task[w][j].at # "idle"
         /\ w = "watchdog" => ~task[w][j].adopting
         /\ \A step \in {"observing", "started", "request", "stop", "poll"} :
              step \in PlainSteps /\ Reached(w, j, step)
         /\ "connect" \in PlainSteps
         /\ w # "watchdog" => Reached(w, j, "connect")
<1>1. EverClaimed(j) /\ task[w][j].at # "idle" /\ (w = "watchdog" => ~task[w][j].adopting)
  BY TaskAt DEF FitTask, ReleaseFit, ClaimedSteps
<1> QED BY <1>1 DEF PlainSteps, Steps, Reached, RunnerSteps, ClaimedSteps

LEMMA AssertOwnedKeeps ==
  ASSUME FleetInv, TypeOK', JobsTypeOK', NEW w \in Processes, NEW j \in Jobs,
         AssertOwned(w, j) \/ ObservedWritten(w, j)
  PROVE  FleetInv'
<1>1. task[w][j].at \in ClaimedSteps
  BY DEF AssertOwned, ObservedWritten, At, ClaimedSteps
<1>2. PICK next : next = AfterOwned(task[w][j])
  OBVIOUS
<1>3. next \in PlainSteps /\ Reached(w, j, next)
  BY <1>1, <1>2, OwnedLeadsOn, FleetConstants DEF AfterOwned
<1>4. Go(w, j, next) => Moves(w, j)
  BY <1>3 DEF Moves
<1>5. Go(w, j, "observing") => Moves(w, j)
  BY <1>1, OwnedLeadsOn DEF Moves
<1>6. CASE files' = [files EXCEPT ![j].observed = "torn"] /\ Go(w, j, "observing")
  BY <1>1, <1>5, <1>6, OwnedLeadsOn, IdentityKeeps DEF AssertOwned, ObservedWritten
<1>7. CASE files' = [files EXCEPT ![j].observed = "whole"] /\ Go(w, j, next)
  BY <1>1, <1>4, <1>7, OwnedLeadsOn, IdentityKeeps DEF AssertOwned, ObservedWritten
<1>8. CASE UNCHANGED files /\ (Go(w, j, next) \/ Raise(w, j)) /\ AssertOwned(w, j)
  <2>1. Quiet
    BY <1>8, CampaignAtRest DEF AssertOwned, Quiet, diskVars
  <2> QED BY <1>1, <1>3, <1>8, <2>1, OwnedLeadsOn, GoKeeps, RaiseKeeps
<1>9. AssertOwned(w, j) =>
        \/ files' = [files EXCEPT ![j].observed = "torn"] /\ Go(w, j, "observing")
        \/ UNCHANGED files /\ (Go(w, j, next) \/ Raise(w, j))
  BY <1>2 DEF AssertOwned
<1>10. ObservedWritten(w, j) =>
         files' = [files EXCEPT ![j].observed = "whole"] /\ Go(w, j, next)
  BY <1>2 DEF ObservedWritten
<1> QED BY <1>6, <1>7, <1>8, <1>9, <1>10

\* The attempt is on record before the worker may run.
LEMMA AttemptKeeps ==
  ASSUME FleetInv, TypeOK', JobsTypeOK', NEW w \in Processes, w = "runner", NEW j \in Jobs,
         Attempt(w, j)
  PROVE  FleetInv'
<1>1. UNCHANGED <<jobs, now, claims, submitted, runs, files, collected, crashes>>
  BY CampaignAtRest DEF Attempt, providerVars
<1>2. attempts' = attempts \union {j}
  BY DEF Attempt, AttemptRecorded
<1>3. FilesTyped'
  BY <1>1, <1>2 DEF FleetInv, FleetTyped, FilesTyped
<1>4. RowsKept(j)
  BY <1>1, <1>2 DEF RowsKept
<1>5. NothingLost(w, j)
  BY <1>1, <1>2, ClaimsKept, FleetConstants DEF NothingLost
<1>6. ClaimFit(j)'
  BY <1>1, RowsAt, ClaimsKept
<1>7. ReceiptFit(j)'
  BY <1>1, RowsAt, ClaimsKept DEF ReceiptFit
<1>8. WorkerFit(j)'
  BY <1>1, <1>2, RowsAt DEF WorkerFit
<1>9. task[w][j].at # "idle" /\ jobs[j].state # "absent"
  BY AtWork DEF Attempt, At
<1>10. PICK step \in {"collect", "run"} : step = RunsOrCollects(j)
  BY DEF RunsOrCollects
<1>11. PICK c : c = [task[w][j] EXCEPT !.at = step]
  OBVIOUS
<1>12. step \in Steps
  BY DEF Steps
<1>13. c \in Task /\ c.at = step /\ c.goal = task[w][j].goal /\ c.adopting = task[w][j].adopting
  BY <1>11, <1>12, TaskAt, GoneTask
<1>14. task' = [task EXCEPT ![w][j] = c]
  BY <1>10, <1>11 DEF Attempt, Go, Become
<1>15. step = "run" => j \in attempts' /\ runs'[j] = 0
  <2>1. runs[j] \in Nat /\ (runs[j] > 0 => j \in attempts)
    BY RowsAt DEF FleetInv, FleetTyped, FilesTyped, WorkerFit
  <2> QED BY <1>1, <1>2, <1>10, <2>1 DEF RunsOrCollects
<1>16. FitTask(w, j, c)'
  <2>1. jobs'[j].state # "absent" /\ w # "watchdog"
    BY <1>1, <1>9
  <2>2. RunnerFit(j, c)'
    BY <1>13, <1>15 DEF RunnerFit
  <2>3. ReleaseFit(j, c)'
    BY <1>13 DEF ReleaseFit, ClaimedSteps, GoneSteps
  <2> QED BY <2>1, <2>2, <2>3 DEF FitTask
<1> QED BY <1>1, <1>3, <1>4, <1>5, <1>6, <1>7, <1>8, <1>13, <1>14, <1>16, OneTask

\* The worker runs only in the attempt that recorded it.
LEMMA RunKeeps ==
  ASSUME FleetInv, TypeOK', JobsTypeOK', NEW w \in Processes, w = "runner", NEW j \in Jobs,
         Run(w, j) \/ Collect(w, j)
  PROVE  FleetInv'
<1>1. UNCHANGED <<jobs, now, claims, submitted, files, attempts, crashes>>
  BY CampaignAtRest DEF Run, Collect, diskVars, providerVars
<1>2. runs[j] \in Nat /\ runs \in [Jobs -> Nat] /\ (runs[j] > 0 => j \in attempts)
  BY RowsAt DEF FleetInv, FleetTyped, FilesTyped, WorkerFit
<1>3. Run(w, j) => j \in attempts /\ runs[j] = 0
  BY TaskAt DEF Run, At, FitTask, RunnerFit
<1>4. \/ runs' = [runs EXCEPT ![j] = runs[j] + 1] /\ UNCHANGED collected /\ Run(w, j)
      \/ collected' = collected \union {j} /\ UNCHANGED runs /\ runs[j] > 0
  BY DEF Run, Collect, diskVars, providerVars
<1>5. /\ FilesTyped' /\ WorkerFit(j)' /\ RowsKept(j)
  <2>1. CASE runs' = [runs EXCEPT ![j] = runs[j] + 1] /\ UNCHANGED collected /\ Run(w, j)
    <3>1. runs' \in [Jobs -> Nat] /\ runs'[j] = 1 /\ \A k \in Jobs \ {j} : runs'[k] = runs[k]
      BY <1>2, <1>3, <2>1
    <3> QED BY <1>1, <1>3, <2>1, <3>1, RowsAt DEF FleetInv, FleetTyped, FilesTyped,
              WorkerFit, RowsKept
  <2>2. CASE collected' = collected \union {j} /\ UNCHANGED runs /\ runs[j] > 0
    <3>1. WorkerFit(j)'
      BY <1>1, <1>2, <2>2, RowsAt DEF WorkerFit
    <3>2. FilesTyped' /\ RowsKept(j)
      BY <1>1, <2>2 DEF FleetInv, FleetTyped, FilesTyped, RowsKept
    <3> QED BY <3>1, <3>2
  <2> QED BY <1>4, <2>1, <2>2
<1>6. NothingLost(w, j)
  <2>1. runs[j] > 0 => runs'[j] > 0
    BY <1>2, <1>4
  <2> QED BY <1>1, <2>1, ClaimsKept, FleetConstants DEF NothingLost
<1>7. ClaimFit(j)' /\ ReceiptFit(j)'
  BY <1>1, RowsAt, ClaimsKept DEF ReceiptFit
<1>8. task[w][j].at # "idle"
  BY DEF Run, Collect, At
<1>9. Moves(w, j)
  <2>1. Raise(w, j) \/ Go(w, j, "collect") \/ (runs[j] > 0 /\ Go(w, j, "record"))
    BY DEF Run, Collect
  <2>2. /\ "collect" \in PlainSteps /\ Reached(w, j, "collect")
        /\ "record" \in PlainSteps /\ (runs[j] > 0 => Reached(w, j, "record"))
    BY DEF PlainSteps, Steps, Reached, ClaimedSteps
  <2> QED BY <2>1, <2>2 DEF Moves
<1> QED BY <1>1, <1>5, <1>6, <1>7, <1>8, <1>9, MovesKeep

\* The one create of a job leaves while the job still awaits its provider.
LEMMA SendCreateKeeps ==
  ASSUME FleetInv, TypeOK', JobsTypeOK', NEW w \in Processes, w = "runner", NEW j \in Jobs,
         SendCreate(w, j)
  PROVE  FleetInv'
<1>1. UNCHANGED <<jobs, now, claims, runs, files, attempts, collected, crashes>>
  BY CampaignAtRest DEF SendCreate, diskVars
<1>2. submitted' = submitted \union {j}
  BY DEF SendCreate
<1>3. jobs[j].state = "dispatching" /\ ~EverClaimed(j) /\ task[w][j].at # "idle"
  BY TaskAt DEF SendCreate, At, FitTask, RunnerFit
<1>4. ~Over(j) /\ (EverClaimed(j)' <=> EverClaimed(j))
  BY <1>1, <1>3 DEF Over, EverClaimed
<1>5. FilesTyped' /\ RowsKept(j)
  BY <1>1, <1>2 DEF FleetInv, FleetTyped, FilesTyped, RowsKept
<1>6. NothingLost(w, j)
  BY <1>1, <1>4, FleetConstants DEF NothingLost
<1>7. ClaimFit(j)'
  BY <1>1, <1>3, <1>4 DEF ClaimFit
<1>8. ReceiptFit(j)' /\ WorkerFit(j)'
  BY <1>1, <1>3, <1>4, RowsAt DEF ReceiptFit, WorkerFit
<1>9. Moves(w, j)
  <2>1. "await" \in PlainSteps /\ Reached(w, j, "await") /\ Go(w, j, "await")
    BY DEF SendCreate, PlainSteps, Steps, Reached, ClaimedSteps
  <2> QED BY <2>1 DEF Moves
<1> QED BY <1>1, <1>3, <1>5, <1>6, <1>7, <1>8, <1>9, MovesKeep

\* A claim that ends stays ended.
LEMMA ClaimGoes ==
  ASSUME FleetInv, NEW j \in Jobs, EverClaimed(j), Gone(j) \/ UNCHANGED claims,
         UNCHANGED <<jobs, submitted, runs, files, attempts, collected>>
  PROVE  /\ FilesTyped' /\ RowsKept(j) /\ EverClaimed(j)' /\ (Over(j) => Over(j)')
         /\ ClaimFit(j)' /\ ReceiptFit(j)' /\ WorkerFit(j)'
<1>1. claims \in [Jobs -> [state: {"none", "present", "gone"}, created: 0..MaxTime]]
  BY DEF FleetInv, FleetTyped, FilesTyped
<1>2. /\ claims' \in [Jobs -> [state: {"none", "present", "gone"}, created: 0..MaxTime]]
      /\ \A k \in Jobs \ {j} : claims'[k] = claims[k]
      /\ claims'[j].state = claims[j].state \/ claims'[j].state = "gone"
  BY <1>1 DEF Gone
<1>3. EverClaimed(j)' /\ (Over(j) => Over(j)')
  BY <1>2 DEF EverClaimed, Over, Present
<1>4. FilesTyped' /\ RowsKept(j)
  BY <1>2 DEF FleetInv, FleetTyped, FilesTyped, RowsKept
<1>5. ClaimFit(j)'
  BY <1>3, RowsAt DEF ClaimFit
<1>6. ReceiptFit(j)' /\ WorkerFit(j)'
  BY <1>3, RowsAt DEF ReceiptFit, WorkerFit
<1> QED BY <1>3, <1>4, <1>5, <1>6

LEMMA StopsKeeps ==
  ASSUME FleetInv, TypeOK', JobsTypeOK', NEW w \in Processes, NEW j \in Jobs, Stops(w, j)
  PROVE  FleetInv'
<1>1. UNCHANGED <<jobs, now, submitted, runs, files, attempts, collected, crashes>>
  BY CampaignAtRest DEF Stops, diskVars
<1>2. task[w][j].at \in ClaimedSteps
  BY DEF Stops, At, ClaimedSteps
<1>3. EverClaimed(j) /\ task[w][j].at # "idle" /\ Moves(w, j)
  BY <1>2, OwnedLeadsOn DEF Stops, Moves
<1>4. /\ FilesTyped' /\ RowsKept(j) /\ EverClaimed(j)' /\ (Over(j) => Over(j)')
      /\ ClaimFit(j)' /\ ReceiptFit(j)' /\ WorkerFit(j)'
  BY <1>1, <1>3, ClaimGoes DEF Stops
<1>5. NothingLost(w, j)
  BY <1>1, <1>3, <1>4 DEF NothingLost
<1> QED BY <1>1, <1>3, <1>4, <1>5, MovesKeep

\* The receipt file changes, and the job is over.
LEMMA ReceiptChanges ==
  ASSUME FleetInv, NEW j \in Jobs, NEW r \in {"torn", "whole"}, NEW e \in {0} \union Evidence,
         files' = [files EXCEPT ![j] = [files[j] EXCEPT !.receipt = r, !.evidence = e]],
         r = "whole" <=> e # 0, Over(j), files[j].receipt # "whole",
         UNCHANGED <<jobs, claims, submitted, runs, attempts, collected>>
  PROVE  /\ FilesTyped' /\ RowsKept(j) /\ (Over(j)' <=> Over(j))
         /\ (EverClaimed(j)' <=> EverClaimed(j))
         /\ files'[j].receipt = r /\ files'[j].evidence = e
         /\ ClaimFit(j)' /\ ReceiptFit(j)' /\ WorkerFit(j)'
<1>1. files \in [Jobs -> [observed: {"none", "torn", "whole"},
                         receipt: {"none", "torn", "whole"}, evidence: {0} \union Evidence]]
  BY DEF FleetInv, FleetTyped, FilesTyped
<1>2. PICK f : f = [files[j] EXCEPT !.receipt = r, !.evidence = e]
  OBVIOUS
<1>3. /\ f \in [observed: {"none", "torn", "whole"},
                receipt: {"none", "torn", "whole"}, evidence: {0} \union Evidence]
      /\ f.receipt = r /\ f.evidence = e
  BY <1>1, <1>2
<1>4. /\ files' \in [Jobs -> [observed: {"none", "torn", "whole"},
                              receipt: {"none", "torn", "whole"}, evidence: {0} \union Evidence]]
      /\ files'[j] = f
      /\ \A k \in Jobs \ {j} : files'[k] = files[k]
  BY <1>1, <1>2, <1>3
<1>5. FilesTyped' /\ RowsKept(j)
  BY <1>4 DEF FleetInv, FleetTyped, FilesTyped, RowsKept
<1>6. /\ (Over(j)' <=> Over(j)) /\ (EverClaimed(j)' <=> EverClaimed(j)) /\ ClaimFit(j)'
  BY RowsAt, ClaimsKept
<1>7. ReceiptFit(j)' /\ WorkerFit(j)'
  BY <1>3, <1>4, <1>6, RowsAt DEF ReceiptFit, WorkerFit
<1> QED BY <1>3, <1>4, <1>5, <1>6, <1>7

LEMMA ReceiptOpenedKeeps ==
  ASSUME FleetInv, TypeOK', JobsTypeOK', NEW w \in Processes, NEW j \in Jobs,
         ReceiptOpened(w, j)
  PROVE  FleetInv'
<1>1. UNCHANGED <<jobs, now, claims, submitted, runs, attempts, collected, crashes>>
  BY CampaignAtRest DEF ReceiptOpened, providerVars
<1>2. /\ task[w][j].at = "receipt" /\ jobs[j].state # "absent" /\ Over(j)
      /\ files[j].receipt = "none" /\ files[j].evidence = 0
  BY AtWork, TaskAt, RowsAt DEF ReceiptOpened, At, FitTask, ReleaseFit, GoneSteps, ReceiptFit
<1>3. files' = [files EXCEPT ![j] = [files[j] EXCEPT !.receipt = "torn", !.evidence = 0]]
  <2>1. files \in [Jobs -> [observed: {"none", "torn", "whole"},
                         receipt: {"none", "torn", "whole"}, evidence: {0} \union Evidence]]
    BY DEF FleetInv, FleetTyped, FilesTyped
  <2>2. [files[j] EXCEPT !.receipt = "torn"] = [files[j] EXCEPT !.receipt = "torn", !.evidence = 0]
    BY <1>2, <2>1
  <2> QED BY <2>2 DEF ReceiptOpened
<1>4. /\ FilesTyped' /\ RowsKept(j) /\ (Over(j)' <=> Over(j))
      /\ (EverClaimed(j)' <=> EverClaimed(j))
      /\ files'[j].receipt = "torn"
      /\ ClaimFit(j)' /\ ReceiptFit(j)' /\ WorkerFit(j)'
  BY <1>1, <1>2, <1>3, ReceiptChanges
<1>5. NothingLost(w, j)
  BY <1>1, <1>2, <1>4 DEF NothingLost
<1>6. PICK t \in Task, e \in Evidence :
        /\ t = task[w][j]
        /\ task' = [task EXCEPT ![w][j] = Holding(t, e, "writing")]
  BY TaskAt DEF ReceiptOpened, Become, Holding
<1>7. PICK c : c = Holding(t, e, "writing")
  OBVIOUS
<1>8. "writing" \in Steps
  BY DEF Steps
<1>9. c \in Task /\ c.at = "writing" /\ c.goal = t.goal /\ c.adopting = t.adopting /\ c.receipt = e
  BY <1>7, <1>8, ReceiptTask
<1>10. FitTask(w, j, c)'
  <2>1. RunnerFit(j, c)'
    BY <1>9 DEF RunnerFit
  <2>2. ReleaseFit(j, c)'
    BY <1>2, <1>4, <1>9 DEF ReleaseFit, ClaimedSteps
  <2>3. FitTask(w, j, t) /\ t.at = "receipt" /\ jobs'[j].state # "absent"
    BY <1>1, <1>2, <1>6, TaskAt
  <2> QED BY <1>9, <2>1, <2>2, <2>3 DEF FitTask, RunnerSteps
<1> QED BY <1>1, <1>2, <1>4, <1>5, <1>6, <1>7, <1>9, <1>10, OneTask

LEMMA ReceiptWrittenKeeps ==
  ASSUME FleetInv, TypeOK', JobsTypeOK', NEW w \in Processes, NEW j \in Jobs,
         ReceiptWritten(w, j)
  PROVE  FleetInv'
<1>1. UNCHANGED <<jobs, now, claims, submitted, runs, attempts, collected, crashes>>
  BY CampaignAtRest DEF ReceiptWritten, providerVars
<1>2. PICK t \in Task : t = task[w][j]
  BY TaskAt
<1>3. PICK e : e = t.receipt
  OBVIOUS
<1>4. /\ t.at = "writing" /\ FitTask(w, j, t) /\ jobs[j].state # "absent" /\ Over(j)
      /\ files[j].receipt = "torn" /\ e \in Evidence /\ e # 0
  BY <1>2, <1>3, TaskAt, FleetConstants DEF ReceiptWritten, At, FitTask, ReleaseFit, GoneSteps
<1>5. files' = [files EXCEPT ![j] = [files[j] EXCEPT !.receipt = "whole", !.evidence = e]]
  <2>1. files \in [Jobs -> [observed: {"none", "torn", "whole"},
                         receipt: {"none", "torn", "whole"}, evidence: {0} \union Evidence]]
    BY DEF FleetInv, FleetTyped, FilesTyped
  <2>2. files' = [files EXCEPT ![j].receipt = "whole", ![j].evidence = e]
    BY <1>2, <1>3 DEF ReceiptWritten
  <2> QED BY <2>1, <2>2
<1>6. /\ FilesTyped' /\ RowsKept(j) /\ (Over(j)' <=> Over(j))
      /\ (EverClaimed(j)' <=> EverClaimed(j))
      /\ files'[j].receipt = "whole" /\ files'[j].evidence = e
      /\ ClaimFit(j)' /\ ReceiptFit(j)' /\ WorkerFit(j)'
  BY <1>1, <1>4, <1>5, ReceiptChanges
<1>7. NothingLost(w, j)
  BY <1>1, <1>2, <1>4, <1>6 DEF NothingLost, At
<1>8. PICK c : c = [t EXCEPT !.at = "confirm"]
  OBVIOUS
<1>9. "confirm" \in Steps
  BY DEF Steps
<1>10. c \in Task /\ c.at = "confirm" /\ c.goal = t.goal /\ c.adopting = t.adopting /\ c.receipt = e
  BY <1>3, <1>8, <1>9, GoneTask
<1>11. task' = [task EXCEPT ![w][j] = c]
  BY <1>2, <1>8 DEF ReceiptWritten, Go, Become
<1>12. FitTask(w, j, c)'
  <2>1. RunnerFit(j, c)'
    BY <1>10 DEF RunnerFit
  <2>2. ReleaseFit(j, c)'
    BY <1>4, <1>6, <1>10 DEF ReleaseFit, ClaimedSteps
  <2>3. jobs'[j].state # "absent"
    BY <1>1, <1>4
  <2> QED BY <1>4, <1>10, <2>1, <2>2, <2>3 DEF FitTask, RunnerSteps
<1>13. c.at # "writing"
  BY <1>10
<1> QED BY <1>1, <1>6, <1>7, <1>10, <1>11, <1>12, <1>13, OneTask

-----------------------------------------------------------------------------
(* Steps that call the controller.                                         *)

\* The files, the provider and the other rows stay.
OnlyJob(j) ==
  /\ \A k \in Jobs \ {j} : jobs'[k] = jobs[k]
  /\ UNCHANGED <<now, providerVars, diskVars, crashes>>

\* A result is the one the job had, or its worker's.
ResultEarned(j) == jobs'[j].result # 0 => jobs[j].result # 0 \/ runs[j] > 0

LEMMA OnlyJobKeeps ==
  ASSUME FleetInv, NEW w \in Processes, NEW j \in Jobs, OnlyJob(j), ResultEarned(j)
  PROVE  /\ UNCHANGED <<now, claims, submitted, runs, files, attempts, collected, crashes>>
         /\ FilesTyped' /\ RowsKept(j) /\ WorkerFit(j)'
         /\ EverClaimed(j)' <=> EverClaimed(j)
         /\ jobs[j].state # "cleaned" /\ Over(j) => Over(j)'
<1>1. UNCHANGED <<now, claims, submitted, runs, files, attempts, collected, crashes>>
  BY DEF OnlyJob, providerVars, diskVars
<1>2. FilesTyped' /\ RowsKept(j)
  BY <1>1 DEF FleetInv, FleetTyped, FilesTyped, RowsKept, OnlyJob
<1>3. EverClaimed(j)' <=> EverClaimed(j)
  BY <1>1 DEF EverClaimed
<1>4. jobs[j].state # "cleaned" /\ Over(j) => Over(j)'
  BY <1>1, <1>3 DEF Over, Present
<1>5. WorkerFit(j)'
  BY <1>1, RowsAt DEF WorkerFit, ResultEarned
<1> QED BY <1>1, <1>2, <1>3, <1>4, <1>5

\* A job whose claim was made goes on towards its cleanup.
LEMMA ClaimedJobAdvances ==
  ASSUME FleetInv, TypeOK', JobsTypeOK', NEW w \in Processes, NEW j \in Jobs, OnlyJob(j),
         ResultEarned(j), task[w][j].at # "idle", Moves(w, j), EverClaimed(j),
         jobs[j].state \notin {"absent", "reserved", "cleaned"},
         jobs'[j].state \in {"running", "cleanup_pending"}
  PROVE  FleetInv'
<1>1. /\ UNCHANGED <<now, claims, submitted, runs, files, attempts, collected, crashes>>
      /\ FilesTyped' /\ RowsKept(j) /\ WorkerFit(j)'
      /\ EverClaimed(j)' /\ (Over(j) => Over(j)')
  BY OnlyJobKeeps
<1>2. NothingLost(w, j)
  BY <1>1 DEF NothingLost
<1>3. ClaimFit(j)'
  BY <1>1, RowsAt DEF ClaimFit
<1>4. ReceiptFit(j)'
  BY <1>1, RowsAt DEF ReceiptFit
<1> QED BY <1>1, <1>2, <1>3, <1>4, MovesKeep

LEMMA DispatchKeeps ==
  ASSUME FleetInv, TypeOK', JobsTypeOK', NEW w \in Processes, w = "runner", NEW j \in Jobs,
         Dispatch(w, j)
  PROVE  FleetInv'
<1>1. /\ jobs[j].state = "reserved" /\ jobs'[j].state = "dispatching"
      /\ jobs'[j].provider = jobs[j].provider /\ ResultEarned(j)
  BY JobEffects DEF Dispatch, FleetInv, FleetTyped, ResultEarned
<1>2. OnlyJob(j)
  BY OtherRowsKept DEF OnlyJob, Dispatch, JobStep, BeginDispatch, ledgerVars
<1>3. /\ UNCHANGED <<now, claims, submitted, runs, files, attempts, collected, crashes>>
      /\ FilesTyped' /\ RowsKept(j) /\ WorkerFit(j)'
      /\ (EverClaimed(j)' <=> EverClaimed(j)) /\ (Over(j) => Over(j)')
  BY <1>1, <1>2, OnlyJobKeeps
<1>4. ~EverClaimed(j) /\ j \notin submitted /\ jobs[j].provider = 0
  BY <1>1, RowsAt DEF ClaimFit
<1>5. NothingLost(w, j)
  BY <1>1, <1>3, FleetConstants DEF NothingLost
<1>6. ClaimFit(j)'
  BY <1>1, <1>3, <1>4 DEF ClaimFit
<1>7. ReceiptFit(j)'
  BY <1>1, <1>3, RowsAt DEF ReceiptFit
<1>8. PICK c : c = [task[w][j] EXCEPT !.at = "create"]
  OBVIOUS
<1>9. "create" \in Steps
  BY DEF Steps
<1>10. c \in Task /\ c.at = "create"
  BY <1>8, <1>9, TaskAt, GoneTask
<1>11. task' = [task EXCEPT ![w][j] = c]
  BY <1>8 DEF Dispatch, Go, Become
<1>12. FitTask(w, j, c)'
  BY <1>1, <1>3, <1>4, <1>10 DEF FitTask, RunnerFit, ReleaseFit, ClaimedSteps, GoneSteps
<1>13. c.at # "writing"
  BY <1>10
<1> QED BY <1>3, <1>5, <1>6, <1>7, <1>10, <1>11, <1>12, <1>13, OneTask

LEMMA StartedKeeps ==
  ASSUME FleetInv, TypeOK', JobsTypeOK', NEW w \in Processes, NEW j \in Jobs, Started(w, j)
  PROVE  FleetInv'
<1>1. task[w][j].at \in ClaimedSteps
  BY DEF Started, At, ClaimedSteps
<1>2. PICK next \in {"connect", "request"} :
        next = IF task[w][j].adopting THEN "connect" ELSE "request"
  OBVIOUS
<1>3. /\ EverClaimed(j) /\ task[w][j].at # "idle"
      /\ next \in PlainSteps /\ Reached(w, j, next)
  BY <1>1, <1>2, OwnedLeadsOn, FleetConstants
<1>4. UNCHANGED <<providerVars, diskVars, crashes>>
  BY DEF Started
<1>5. ASSUME NEW p \in Providers, ProviderStarted(j, p), Go(w, j, next) PROVE FleetInv'
  <2>1. jobs[j].state = "dispatching" /\ jobs'[j].state = "running" /\ ResultEarned(j)
    BY <1>5, JobEffects DEF FleetInv, FleetTyped, ResultEarned
  <2>2. JobStep(j) /\ UNCHANGED now
    BY <1>5 DEF JobStep, ProviderStarted, ledgerVars
  <2>3. OnlyJob(j)
    BY <1>4, <2>2, OtherRowsKept DEF OnlyJob
  <2>4. Moves(w, j)
    BY <1>3, <1>5 DEF Moves
  <2> QED BY <1>3, <2>1, <2>3, <2>4, ClaimedJobAdvances
<1>6. CASE UNCHANGED campaignVars /\ (Go(w, j, next) \/ Raise(w, j))
  <2>1. Quiet
    BY <1>4, <1>6, CampaignAtRest DEF Quiet
  <2> QED BY <1>3, <1>6, <2>1, GoKeeps, RaiseKeeps
<1>7. \/ \E p \in Providers : ProviderStarted(j, p) /\ Go(w, j, next)
      \/ UNCHANGED campaignVars /\ (Go(w, j, next) \/ Raise(w, j))
  BY <1>2 DEF Started
<1> QED BY <1>5, <1>6, <1>7

LEMMA RecordKeeps ==
  ASSUME FleetInv, TypeOK', JobsTypeOK', NEW w \in Processes, w = "runner", NEW j \in Jobs,
         Record(w, j)
  PROVE  FleetInv'
<1>1. task[w][j].at # "idle" /\ (Raise(w, j) \/ Go(w, j, "release"))
  BY DEF Record, At
<1>2. "release" \in PlainSteps /\ Reached(w, j, "release")
  BY DEF PlainSteps, Steps, Reached, ClaimedSteps
<1>3. UNCHANGED <<providerVars, diskVars, crashes>>
  BY DEF Record
<1>4. ASSUME NEW result \in Results, RecordResult(j, result) PROVE FleetInv'
  <2>1. jobs[j].state = "running" /\ jobs'[j].state = "cleanup_pending"
    BY <1>4, JobEffects DEF FleetInv, FleetTyped
  <2>2. JobStep(j) /\ UNCHANGED now
    BY <1>4 DEF JobStep, RecordResult, ledgerVars
  <2>3. OnlyJob(j)
    BY <1>3, <2>2, OtherRowsKept DEF OnlyJob
  <2>4. Moves(w, j)
    BY <1>1, <1>2 DEF Moves
  <2>5. EverClaimed(j)
    BY <2>1, RowsAt DEF ClaimFit
  <2>6. ResultEarned(j)
    BY TaskAt DEF Record, At, FitTask, RunnerFit, ResultEarned
  <2> QED BY <1>1, <2>1, <2>3, <2>4, <2>5, <2>6, ClaimedJobAdvances
<1>5. CASE UNCHANGED campaignVars
  <2>1. Quiet
    BY <1>3, <1>5, CampaignAtRest DEF Quiet
  <2> QED BY <1>1, <1>2, <2>1, GoKeeps, RaiseKeeps
<1> QED BY <1>4, <1>5 DEF Record

LEMMA RequestsCleanupKeeps ==
  ASSUME FleetInv, TypeOK', JobsTypeOK', NEW w \in Processes, NEW j \in Jobs,
         RequestsCleanup(w, j)
  PROVE  FleetInv'
<1>1. task[w][j].at \in ClaimedSteps
  BY DEF RequestsCleanup, At, ClaimedSteps
<1>2. /\ EverClaimed(j) /\ task[w][j].at # "idle"
      /\ "stop" \in PlainSteps /\ Reached(w, j, "stop")
  BY <1>1, OwnedLeadsOn
<1>3. UNCHANGED <<providerVars, diskVars, crashes>>
  BY DEF RequestsCleanup
<1>4. CASE RequestCleanup(j) /\ Go(w, j, "stop")
  <2>1. jobs[j].state = "running" /\ jobs'[j].state = "cleanup_pending" /\ ResultEarned(j)
    BY <1>4, JobEffects DEF FleetInv, FleetTyped, ResultEarned
  <2>2. JobStep(j) /\ UNCHANGED now
    BY <1>4 DEF JobStep, RequestCleanup, ledgerVars
  <2>3. OnlyJob(j)
    BY <1>3, <2>2, OtherRowsKept DEF OnlyJob
  <2>4. Moves(w, j)
    BY <1>2, <1>4 DEF Moves
  <2> QED BY <1>2, <2>1, <2>3, <2>4, ClaimedJobAdvances
<1>5. CASE UNCHANGED campaignVars /\ (Go(w, j, "stop") \/ Raise(w, j))
  <2>1. Quiet
    BY <1>3, <1>5, CampaignAtRest DEF Quiet
  <2> QED BY <1>2, <1>5, <2>1, GoKeeps, RaiseKeeps
<1>6. \/ RequestCleanup(j) /\ Go(w, j, "stop")
      \/ UNCHANGED campaignVars /\ (Go(w, j, "stop") \/ Raise(w, j))
  BY DEF RequestsCleanup
<1> QED BY <1>4, <1>5, <1>6

\* A reserved job never had a claim, so it is over when it is cancelled.
LEMMA CancelKeeps ==
  ASSUME FleetInv, TypeOK', JobsTypeOK', NEW w \in Processes, NEW j \in Jobs, Cancel(w, j)
  PROVE  FleetInv'
<1>1. task[w][j].at # "idle"
  BY DEF Cancel, At
<1>2. UNCHANGED <<providerVars, diskVars, crashes>>
  BY DEF Cancel
<1>3. CASE CancelUndispatched(j) /\ Become(w, j, Idle)
  <2>1. /\ jobs[j].state = "reserved" /\ jobs'[j].state = "cleaned"
        /\ jobs'[j].provider = jobs[j].provider /\ UNCHANGED now /\ ResultEarned(j)
    BY <1>3, CancelEffect DEF FleetInv, FleetTyped, ResultEarned
  <2>2. JobStep(j)
    BY <1>3 DEF JobStep
  <2>3. OnlyJob(j)
    BY <1>2, <2>1, <2>2, OtherRowsKept DEF OnlyJob
  <2>4. /\ UNCHANGED <<now, claims, submitted, runs, files, attempts, collected, crashes>>
        /\ FilesTyped' /\ RowsKept(j) /\ WorkerFit(j)'
        /\ (EverClaimed(j)' <=> EverClaimed(j)) /\ (Over(j) => Over(j)')
    BY <2>1, <2>3, OnlyJobKeeps
  <2>5. ~EverClaimed(j) /\ j \notin submitted /\ jobs[j].provider = 0
    BY <2>1, RowsAt DEF ClaimFit
  <2>6. NothingLost(w, j)
    BY <2>1, <2>4 DEF NothingLost
  <2>7. Over(j)'
    BY <2>1, <2>4, <2>5 DEF Over, Present, EverClaimed
  <2>8. ClaimFit(j)'
    BY <2>1, <2>4, <2>5, <2>7 DEF ClaimFit
  <2>9. ReceiptFit(j)'
    BY <2>1, <2>4, <2>5, <2>7, RowsAt DEF ReceiptFit
  <2>10. Moves(w, j)
    BY <1>3 DEF Moves
  <2> QED BY <1>1, <2>4, <2>6, <2>8, <2>9, <2>10, MovesKeep
<1>4. CASE UNCHANGED campaignVars /\ Raise(w, j)
  <2>1. Quiet
    BY <1>2, <1>4, CampaignAtRest DEF Quiet
  <2> QED BY <1>1, <1>4, <2>1, RaiseKeeps
<1> QED BY <1>3, <1>4 DEF Cancel

\* The receipt in hand is the file, so the evidence kept is the file's.
LEMMA ConfirmsKeeps ==
  ASSUME FleetInv, TypeOK', JobsTypeOK', NEW w \in Processes, NEW j \in Jobs, Confirms(w, j)
  PROVE  FleetInv'
<1>1. task[w][j].at # "idle"
  BY DEF Confirms, At
<1>2. UNCHANGED <<providerVars, diskVars, crashes>>
  BY DEF Confirms
<1>3. CASE ProviderCleanupConfirmed(j, task[w][j].receipt) /\ Become(w, j, Idle)
  <2>1. PICK e \in Evidence : /\ e = task[w][j].receipt /\ e = files[j].evidence
                              /\ files[j].receipt = "whole" /\ Over(j)
    BY ReceiptInHand DEF Confirms
  <2>2. /\ jobs[j].state \in {"running", "cleanup_pending"}
        /\ jobs'[j].state \in {"billing_pending", "cleaned"}
        /\ jobs'[j].providerCleanup = Presented(e) /\ ResultEarned(j)
    BY <1>3, <2>1, CleanupEffect DEF FleetInv, FleetTyped, ResultEarned
  <2>3. JobStep(j) /\ UNCHANGED now
    BY <1>3, <2>1 DEF JobStep, ProviderCleanupConfirmed, ledgerVars
  <2>4. OnlyJob(j)
    BY <1>2, <2>3, OtherRowsKept DEF OnlyJob
  <2>5. /\ UNCHANGED <<now, claims, submitted, runs, files, attempts, collected, crashes>>
        /\ FilesTyped' /\ RowsKept(j) /\ WorkerFit(j)'
        /\ (EverClaimed(j)' <=> EverClaimed(j)) /\ Over(j)'
    BY <2>1, <2>2, <2>4, OnlyJobKeeps
  <2>6. NothingLost(w, j)
    BY <2>2, <2>5 DEF NothingLost
  <2>7. EverClaimed(j)
    BY <2>2, RowsAt DEF ClaimFit
  <2>8. ClaimFit(j)'
    BY <2>2, <2>5, <2>7, RowsAt DEF ClaimFit
  <2>9. ReceiptFit(j)'
    BY <2>1, <2>2, <2>5, RowsAt DEF ReceiptFit
  <2>10. Moves(w, j)
    BY <1>3 DEF Moves
  <2> QED BY <1>1, <2>5, <2>6, <2>8, <2>9, <2>10, MovesKeep
<1>4. CASE UNCHANGED campaignVars /\ (Become(w, j, Idle) \/ Raise(w, j))
  <2>1. Quiet
    BY <1>2, <1>4, CampaignAtRest DEF Quiet
  <2> QED BY <1>1, <1>4, <2>1, IdleKeeps, RaiseKeeps
<1>5. \/ ProviderCleanupConfirmed(j, task[w][j].receipt) /\ Become(w, j, Idle)
      \/ UNCHANGED campaignVars /\ (Become(w, j, Idle) \/ Raise(w, j))
  BY DEF Confirms
<1> QED BY <1>3, <1>4, <1>5

-----------------------------------------------------------------------------
(* The provider, crashes and the rest of the campaign.                     *)

\* No process takes a step: the tasks fit the new row.
LEMMA TasksStay ==
  ASSUME FleetInv, TypeOK', JobsTypeOK', FilesTyped', UNCHANGED <<task, crashes>>,
         now' \in 0..MaxTime, NEW j \in Jobs, RowsKept(j),
         ClaimFit(j)', ReceiptFit(j)', WorkerFit(j)',
         \A w \in Processes : FitTask(w, j, task[w][j])'
  PROVE  FleetInv'
<1>1. FleetTyped'
  BY DEF FleetInv, FleetTyped
<1>2. ASSUME NEW k \in Jobs, k # j
      PROVE  /\ ClaimFit(k)' /\ ReceiptFit(k)' /\ WorkerFit(k)'
             /\ \A w \in Processes : FitTask(w, k, task[w][k])'
  <2>1. /\ ClaimFit(k)' /\ ReceiptFit(k)' /\ WorkerFit(k)'
        /\ \A w, t : FitTask(w, k, t) => FitTask(w, k, t)'
    BY <1>2, RowsAt, KeptFits DEF RowsKept
  <2>2. ASSUME NEW w \in Processes PROVE FitTask(w, k, task[w][k])'
    <3>1. PICK t : t = task[w][k] /\ t = task'[w][k]
      OBVIOUS
    <3>2. FitTask(w, k, t)'
      BY <2>1, <3>1, TaskAt
    <3> QED BY <3>1, <3>2 DEF FitTask
  <2> QED BY <2>1, <2>2
<1>3. RowsFit' /\ TasksFit'
  BY <1>2 DEF RowsFit, TasksFit
<1>4. OneWriter'
  BY DEF FleetInv, OneWriter, At
<1> QED BY <1>1, <1>3, <1>4 DEF FleetInv

\* Of a job that was submitted or had its claim, every process keeps what it has.
LEMMA ProviderFits ==
  ASSUME NEW j \in Jobs, NEW w \in Processes, NEW t, FitTask(w, j, t),
         j \in submitted \/ EverClaimed(j), EverClaimed(j) => EverClaimed(j)',
         Over(j) => Over(j)', UNCHANGED <<jobs, files, attempts, runs>>
  PROVE  FitTask(w, j, t)'
<1>1. RunnerFit(j, t)'
  BY DEF FitTask, RunnerFit
<1>2. ReleaseFit(j, t)'
  BY DEF FitTask, ReleaseFit
<1> QED BY <1>1, <1>2 DEF FitTask

LEMMA ProviderStepKeeps ==
  ASSUME FleetInv, TypeOK', JobsTypeOK', FilesTyped',
         UNCHANGED <<task, crashes, jobs, now, files, attempts, runs, collected>>,
         NEW j \in Jobs, RowsKept(j), ClaimFit(j)',
         j \in submitted \/ EverClaimed(j), EverClaimed(j) => EverClaimed(j)',
         Over(j) => Over(j)'
  PROVE  FleetInv'
<1>1. ReceiptFit(j)' /\ WorkerFit(j)'
  BY RowsAt DEF ReceiptFit, WorkerFit
<1>2. ASSUME NEW w \in Processes PROVE FitTask(w, j, task[w][j])'
  <2>1. PICK t : t = task[w][j] /\ t = task'[w][j]
    OBVIOUS
  <2>2. FitTask(w, j, t)'
    BY <2>1, TaskAt, ProviderFits
  <2> QED BY <2>1, <2>2 DEF FitTask
<1>3. now' \in 0..MaxTime
  BY DEF FleetInv, FleetTyped
<1> QED BY <1>1, <1>2, <1>3, TasksStay

LEMMA ProviderKeeps ==
  ASSUME FleetInv, TypeOK', JobsTypeOK', NEW j \in Jobs,
         ProviderCreates(j) \/ CreateLost(j) \/ ClaimEnds(j)
  PROVE  FleetInv'
<1>1. UNCHANGED <<task, crashes, jobs, now, files, attempts, runs, collected>>
  BY CampaignAtRest DEF ProviderCreates, CreateLost, ClaimEnds, diskVars
<1>2. claims \in [Jobs -> [state: {"none", "present", "gone"}, created: 0..MaxTime]]
  BY DEF FleetInv, FleetTyped, FilesTyped
<1>3. CASE ProviderCreates(j)
  <2>1. j \in submitted /\ submitted' = submitted \ {j}
    BY <1>3 DEF ProviderCreates
  <2>2. PICK c : c = [state |-> "present", created |-> now]
    OBVIOUS
  <2>3. c \in [state: {"none", "present", "gone"}, created: 0..MaxTime] /\ c.state = "present"
    BY <2>2 DEF FleetInv, FleetTyped
  <2>4. claims' = [claims EXCEPT ![j] = c]
    BY <1>3, <2>2 DEF ProviderCreates
  <2>5. /\ claims' \in [Jobs -> [state: {"none", "present", "gone"}, created: 0..MaxTime]]
        /\ claims'[j] = c /\ \A k \in Jobs \ {j} : claims'[k] = claims[k]
    BY <1>2, <2>3, <2>4
  <2>6. FilesTyped' /\ RowsKept(j)
    BY <1>1, <2>1, <2>5 DEF FleetInv, FleetTyped, FilesTyped, RowsKept
  <2>7. EverClaimed(j)' /\ ~Over(j)
    BY <2>1, <2>3, <2>5 DEF EverClaimed, Over
  <2>8. ClaimFit(j)'
    BY <1>1, <2>1, <2>7, RowsAt DEF ClaimFit
  <2> QED BY <1>1, <2>1, <2>6, <2>7, <2>8, ProviderStepKeeps
<1>4. CASE CreateLost(j)
  <2>1. j \in submitted /\ submitted' = submitted \ {j} /\ UNCHANGED claims
    BY <1>4 DEF CreateLost
  <2>2. FilesTyped' /\ RowsKept(j)
    BY <1>1, <2>1 DEF FleetInv, FleetTyped, FilesTyped, RowsKept
  <2>3. (EverClaimed(j)' <=> EverClaimed(j)) /\ ~Over(j)
    BY <2>1 DEF EverClaimed, Over
  <2>4. ClaimFit(j)'
    BY <1>1, <2>1, <2>3, RowsAt DEF ClaimFit
  <2> QED BY <1>1, <2>1, <2>2, <2>3, <2>4, ProviderStepKeeps
<1>5. CASE ClaimEnds(j)
  <2>1. EverClaimed(j) /\ Gone(j) /\ UNCHANGED submitted
    BY <1>5, ClaimSeen DEF ClaimEnds
  <2>2. /\ FilesTyped' /\ RowsKept(j) /\ EverClaimed(j)' /\ (Over(j) => Over(j)') /\ ClaimFit(j)'
    BY <1>1, <2>1, ClaimGoes
  <2> QED BY <1>1, <2>1, <2>2, ProviderStepKeeps
<1> QED BY <1>3, <1>4, <1>5

\* What a crash forgets nobody relies on.
LEMMA CrashKeeps ==
  ASSUME FleetInv, TypeOK', JobsTypeOK', NEW w \in Processes, Crash(w)
  PROVE  FleetInv'
<1>1. UNCHANGED <<jobs, now, claims, submitted, runs, files, attempts, collected>>
  BY CampaignAtRest DEF Crash, providerVars, diskVars
<1>2. PICK row : row = [k \in Jobs |-> Idle]
  OBVIOUS
<1>3. row \in [Jobs -> Task] /\ \A k \in Jobs : row[k] = Idle
  BY <1>2, IdleTask
<1>4. task' = [task EXCEPT ![w] = row]
  BY <1>2 DEF Crash
<1>5. /\ task' \in [Processes -> [Jobs -> Task]]
      /\ \A v \in Processes, k \in Jobs : task'[v][k] = IF v = w THEN Idle ELSE task[v][k]
  BY <1>3, <1>4 DEF FleetInv, FleetTyped
<1>6. FleetTyped'
  <2>1. crashes' \in 0..MaxCrashes
    BY FleetConstants DEF FleetInv, FleetTyped, Crash
  <2> QED BY <1>1, <1>5, <2>1 DEF FleetInv, FleetTyped, FilesTyped
<1>7. ASSUME NEW k \in Jobs
      PROVE  /\ ClaimFit(k)' /\ ReceiptFit(k)' /\ WorkerFit(k)'
             /\ \A v, t : FitTask(v, k, t) => FitTask(v, k, t)'
  BY <1>1, RowsAt, KeptFits
<1>8. ASSUME NEW v \in Processes, NEW k \in Jobs PROVE FitTask(v, k, task[v][k])'
  <2>1. PICK t : t = task'[v][k]
    OBVIOUS
  <2>2. FitTask(v, k, t)
    BY <1>5, <2>1, IdleFits, TaskAt
  <2>3. FitTask(v, k, t)'
    BY <1>7, <2>2
  <2> QED BY <2>1, <2>3 DEF FitTask
<1>9. RowsFit' /\ TasksFit'
  BY <1>7, <1>8 DEF RowsFit, TasksFit
<1>10. OneWriter'
  <2>1. \A v \in Processes, k \in Jobs : At(v, k, "writing")' => At(v, k, "writing")
    BY <1>5, IdleTask DEF At
  <2> QED BY <2>1 DEF FleetInv, OneWriter
<1> QED BY <1>6, <1>9, <1>10 DEF FleetInv

\* Nobody works on a job before it is admitted.
LEMMA CampaignKeeps ==
  ASSUME FleetInv, TypeOK', JobsTypeOK', Campaign
  PROVE  FleetInv'
<1>1. UNCHANGED <<providerVars, diskVars, task, crashes>>
  BY DEF Campaign
<1>2. UNCHANGED <<claims, submitted, runs, files, attempts, collected, task, crashes>>
  BY <1>1 DEF providerVars, diskVars
<1>3. ASSUME NEW j \in Jobs, NEW kind \in CampaignKinds \intersect DesktopKinds,
             NEW timeout \in Timeouts, AdmitJob(j, kind, 0, timeout)
      PROVE  FleetInv'
  <2>1. JobStep(j) /\ UNCHANGED now
    BY <1>3, DesktopAdmission
  <2>2. OnlyJob(j)
    BY <1>1, <2>1, OtherRowsKept DEF OnlyJob
  <2>3. /\ jobs[j].state = "absent" /\ jobs'[j].state = "reserved"
        /\ jobs'[j].provider = 0 /\ jobs'[j].result = 0
    BY <1>3 DEF AdmitJob, AbsentJob, FleetInv, FleetTyped, JobsTypeOK
  <2>4. /\ FilesTyped' /\ RowsKept(j) /\ WorkerFit(j)'
        /\ (EverClaimed(j)' <=> EverClaimed(j))
        /\ (jobs[j].state # "cleaned" /\ Over(j) => Over(j)')
    BY <2>2, <2>3, FleetConstants, OnlyJobKeeps DEF ResultEarned
  <2>5. ~EverClaimed(j) /\ j \notin submitted
    BY <2>3, RowsAt DEF ClaimFit
  <2>6. ClaimFit(j)'
    BY <1>2, <2>4, <2>3, <2>5 DEF ClaimFit
  <2>7. ReceiptFit(j)'
    BY <1>2, <2>4, <2>3, RowsAt DEF ReceiptFit
  <2>8. ASSUME NEW w \in Processes PROVE FitTask(w, j, task[w][j])'
    <3>1. PICK t : t = task[w][j] /\ t = task'[w][j]
      BY <1>2
    <3>2. t.at = "idle" /\ FitTask(w, j, t)
      BY <2>3, <3>1, TaskAt DEF FitTask
    <3>3. FitTask(w, j, t)'
      BY <3>2 DEF FitTask, RunnerFit, ReleaseFit, ClaimedSteps, GoneSteps
    <3> QED BY <3>1, <3>3 DEF FitTask
  <2>9. now' \in 0..MaxTime
    BY <2>1 DEF FleetInv, FleetTyped
  <2> QED BY <1>2, <2>4, <2>6, <2>7, <2>8, <2>9, TasksStay
<1>4. CASE Stop \/ (Tick /\ UNCHANGED jobVars)
  <2>1. UNCHANGED jobs /\ now' \in 0..MaxTime
    BY <1>4, FleetConstants DEF Stop, Tick, jobVars, FleetInv, FleetTyped
  <2>2. ASSUME NEW k \in Jobs
        PROVE  /\ ClaimFit(k)' /\ ReceiptFit(k)' /\ WorkerFit(k)'
               /\ \A v, t : FitTask(v, k, t) => FitTask(v, k, t)'
    BY <1>2, <2>1, RowsAt, KeptFits
  <2>3. ASSUME NEW v \in Processes, NEW k \in Jobs PROVE FitTask(v, k, task[v][k])'
    <3>1. PICK t : t = task[v][k] /\ t = task'[v][k]
      BY <1>2
    <3>2. FitTask(v, k, t)'
      BY <2>2, <3>1, TaskAt
    <3> QED BY <3>1, <3>2 DEF FitTask
  <2>4. RowsFit' /\ TasksFit'
    BY <2>2, <2>3 DEF RowsFit, TasksFit
  <2>5. OneWriter' /\ FleetTyped'
    BY <1>2, <2>1 DEF FleetInv, OneWriter, At, FleetTyped, FilesTyped
  <2> QED BY <2>4, <2>5 DEF FleetInv
<1> QED BY <1>3, <1>4 DEF Campaign

-----------------------------------------------------------------------------
(* The invariant holds at the start and at every step.                     *)

LEMMA FleetStarts ==
  ASSUME FleetInit
  PROVE  FleetInv
<1>1. TypeOK /\ JobsTypeOK /\ now = 0
  BY LedgerInitTyped, JobsInitTyped DEF FleetInit, JobsInit, Init
<1>2. /\ submitted = {} /\ claims = [j \in Jobs |-> NoClaim] /\ files = [j \in Jobs |-> NoFiles]
      /\ attempts = {} /\ collected = {} /\ runs = [j \in Jobs |-> 0]
      /\ task = [w \in Processes |-> [j \in Jobs |-> Idle]] /\ crashes = 0
  BY DEF FleetInit
<1>3. FilesTyped
  BY <1>2, FleetConstants DEF FilesTyped, NoClaim, NoFiles
<1>4. \A w \in Processes, j \in Jobs : task[w][j] = Idle
  BY <1>2
<1>5. FleetTyped
  BY <1>1, <1>2, <1>3, IdleTask, FleetConstants DEF FleetTyped
<1>6. TasksFit /\ OneWriter
  BY <1>4, IdleTask, IdleFits DEF TasksFit, OneWriter, At
<1>7. RowsFit
  <2>1. ASSUME NEW j \in Jobs PROVE ClaimFit(j) /\ ReceiptFit(j) /\ WorkerFit(j)
    <3>1. jobs[j].state = "absent" /\ jobs[j].provider = 0 /\ jobs[j].result = 0
      BY DEF FleetInit, JobsInit, AbsentJob
    <3>2. claims[j].state = "none" /\ files[j].receipt = "none" /\ files[j].evidence = 0
      BY <1>2 DEF NoClaim, NoFiles
    <3>3. ClaimFit(j)
      BY <1>2, <3>1, <3>2 DEF ClaimFit, EverClaimed
    <3>4. ReceiptFit(j)
      BY <3>1, <3>2 DEF ReceiptFit
    <3>5. WorkerFit(j)
      BY <1>2, <3>1 DEF WorkerFit
    <3> QED BY <3>3, <3>4, <3>5
  <2> QED BY <2>1 DEF RowsFit
<1> QED BY <1>5, <1>6, <1>7 DEF FleetInv

LEMMA FleetStep ==
  ASSUME FleetInv, [FleetNext]_fleetVars
  PROVE  FleetInv'
<1>1. TypeOK' /\ JobsTypeOK'
  BY CampaignTyped
<1>2. CASE Campaign
  BY <1>1, <1>2, CampaignKeeps
<1>3. ASSUME NEW j \in Jobs, RunnerStep(j) PROVE FleetInv'
  BY <1>1, <1>3, FleetConstants, PicksKeep, RunnerReadsKeep, DispatchKeeps, SendCreateKeeps,
     AttemptKeeps, RunKeeps, RecordKeeps DEF RunnerStep
<1>4. ASSUME NEW j \in Jobs, WatchdogPicks(j) PROVE FleetInv'
  BY <1>1, <1>4, PicksKeep
<1>5. ASSUME NEW w \in Processes, NEW j \in Jobs, Release(w, j) PROVE FleetInv'
  <2>1. CASE AssertOwned(w, j) \/ ObservedWritten(w, j)
    BY <1>1, <2>1, AssertOwnedKeeps
  <2>2. CASE Started(w, j) \/ Cancel(w, j) \/ RequestsCleanup(w, j) \/ Confirms(w, j)
    BY <1>1, <2>2, StartedKeeps, CancelKeeps, RequestsCleanupKeeps, ConfirmsKeeps
  <2>3. CASE ReleaseReads(w, j) \/ ReleaseLooks(w, j) \/ Polls(w, j) \/ ReceiptTorn(w, j)
    BY <1>1, <2>3, ReleaseReadsKeep, SharedReadsKeep
  <2>4. CASE Stops(w, j) \/ ReceiptFound(w, j) \/ ReceiptOpened(w, j) \/ ReceiptWritten(w, j)
    BY <1>1, <2>4, StopsKeeps, ReceiptFoundKeeps, ReceiptOpenedKeeps, ReceiptWrittenKeeps
  <2> QED BY <1>5, <2>1, <2>2, <2>3, <2>4 DEF Release
<1>6. ASSUME NEW w \in Processes, NEW j \in Jobs, CallFails(w, j) PROVE FleetInv'
  BY <1>1, <1>6, SharedReadsKeep
<1>7. ASSUME NEW j \in Jobs, ProviderCreates(j) \/ CreateLost(j) \/ ClaimEnds(j) PROVE FleetInv'
  BY <1>1, <1>7, ProviderKeeps
<1>8. ASSUME NEW w \in Processes, Crash(w) PROVE FleetInv'
  BY <1>1, <1>8, CrashKeeps
<1>9. CASE UNCHANGED fleetVars
  <2>1. Quiet /\ UNCHANGED task
    BY <1>9, CampaignAtRest DEF fleetVars, Quiet
  <2>2. UNCHANGED <<jobs, now, claims, submitted, runs, files, attempts, collected, task, crashes>>
    BY <2>1 DEF Quiet, providerVars, diskVars
  <2>3. FleetTyped' /\ OneWriter'
    BY <1>1, <2>2 DEF FleetInv, FleetTyped, FilesTyped, OneWriter, At
  <2>4. ASSUME NEW k \in Jobs
        PROVE  /\ ClaimFit(k)' /\ ReceiptFit(k)' /\ WorkerFit(k)'
               /\ \A v, t : FitTask(v, k, t) => FitTask(v, k, t)'
    BY <2>2, RowsAt, KeptFits
  <2>5. ASSUME NEW v \in Processes, NEW k \in Jobs PROVE FitTask(v, k, task[v][k])'
    <3>1. PICK t : t = task[v][k] /\ t = task'[v][k]
      BY <2>2
    <3>2. FitTask(v, k, t)'
      BY <2>4, <3>1, TaskAt
    <3> QED BY <3>1, <3>2 DEF FitTask
  <2> QED BY <2>3, <2>4, <2>5 DEF FleetInv, RowsFit, TasksFit
<1> QED BY <1>2, <1>3, <1>4, <1>5, <1>6, <1>7, <1>8, <1>9 DEF FleetNext

\* Whatever the other process, the provider and crashes do between two steps of
\* a process, what it read before still holds when it acts on it.
THEOREM FleetIsSound == FleetSpec => []FleetInv
<1>1. FleetInv /\ [FleetNext]_fleetVars => FleetInv'
  BY FleetStep
<1> QED BY <1>1, FleetStarts, PTL DEF FleetSpec

\* The runner and the watchdog drive a desktop job through the controller's own
\* operations (campaign_control.py): every behaviour of theirs is one of the
\* campaign's jobs.
THEOREM FleetImplementsJobs == FleetSpec => JobsSpec
<1>1. FleetInit => JobsInit
  BY DEF FleetInit
<1>2. FleetInv /\ [FleetNext]_fleetVars => [JobsNext]_campaignVars
  BY FleetStepsJobs
<1> QED BY <1>1, <1>2, FleetIsSound, PTL DEF FleetSpec, JobsSpec

\* However the two processes race and crash, the desktops' slots are not
\* exceeded (admit_job) and a job's row only moves forward.
THEOREM FleetRespectsCampaign == FleetSpec => []SlotsRespected /\ JobsOnlyAdvance
BY FleetImplementsJobs, SlotsAlwaysRespected, JobLifecycleRunsOneWay, PTL

\* Allowances hold while the campaign admits work, the accounts balance, bills
\* count once, every hold is in the state its job's lifecycle requires, and only
\* work that never ran is refunded whole.
THEOREM FleetKeepsAccounts ==
  FleetSpec => /\ [](AllowanceRespected /\ AccountingBalances /\ BillsCountedOnce)
               /\ [](HoldsFollowJobs /\ RefundsAreForWorkThatNeverRan)
               /\ AccountedUsageIsFinal
BY FleetImplementsJobs, CampaignAllowanceRespected, CampaignAccountsKept,
   HoldsAlwaysFollowJobs, RefundsOnlyForWorkThatNeverRan, PTL

\* Rows and files stay well formed: no worker ran without a recorded attempt
\* (gameworld_fleet_attempts), and no artifacts were collected without one.
THEOREM FleetTypeCorrect == FleetSpec => []FleetTypeOK
<1>1. FleetInv => FleetTypeOK
  BY DEF FleetInv, FleetTyped, FilesTyped, RowsFit, ReceiptFit, WorkerFit, FleetTypeOK
<1> QED BY <1>1, FleetIsSound, PTL

\* A receipt on disk, even a torn one, and a closed job are proof that the claim
\* is gone and that no create can still make one (fleet_provider.release).
THEOREM ClaimIsProvedGone == FleetSpec => []ClaimProvedGone
<1>1. FleetInv => ClaimProvedGone
  BY DEF FleetInv, RowsFit, ClaimFit, ReceiptFit, Over, ClaimProvedGone
<1> QED BY <1>1, FleetIsSound, PTL

\* Whichever of two releases confirms the cleanup, the evidence the controller
\* keeps is the receipt file (provider_cleanup_confirmed).
THEOREM ReceiptIsAlwaysTheFile == FleetSpec => []ReceiptIsTheFile
<1>1. FleetInv => ReceiptIsTheFile
  BY DEF FleetInv, RowsFit, ReceiptFit, ReceiptIsTheFile
<1> QED BY <1>1, FleetIsSound, PTL

\* The worker of a desktop job runs at most once (attempt), though the job may
\* be dispatched again after a crash or a lost acknowledgement.
THEOREM FleetWorkerRunsOnce == FleetSpec => []FleetWorkerOnce
<1>1. FleetInv => FleetWorkerOnce
  BY DEF FleetInv, RowsFit, WorkerFit, FleetWorkerOnce
<1> QED BY <1>1, FleetIsSound, PTL

-----------------------------------------------------------------------------
(* The promise to the caller (ProviderWork).                               *)

Closed(job) == job.state = "cleaned"

(* What of the promise's state is said of job k.                           *)
SameProvision(k) ==
  /\ ClaimPhase(k)' = ClaimPhase(k)
  /\ runs'[k] = runs[k]
  /\ jobs'[k].result # 0 <=> jobs[k].result # 0
  /\ Closed(jobs'[k]) <=> Closed(jobs[k])
PhaseMoves(j, from, to) ==
  /\ ClaimPhase(j) = from /\ ClaimPhase(j)' = to
  /\ runs'[j] = runs[j]
  /\ jobs'[j].result # 0 <=> jobs[j].result # 0
  /\ Closed(jobs'[j]) <=> Closed(jobs[j])
Works(j) ==
  /\ ClaimPhase(j) = "live" /\ ClaimPhase(j)' = ClaimPhase(j)
  /\ runs[j] = 0 /\ runs'[j] = 1
  /\ jobs'[j].result # 0 <=> jobs[j].result # 0
  /\ Closed(jobs'[j]) <=> Closed(jobs[j])
ReportsResult(j) ==
  /\ ClaimPhase(j)' = ClaimPhase(j) /\ runs[j] > 0 /\ runs'[j] = runs[j]
  /\ jobs[j].result = 0 /\ jobs'[j].result # 0
  /\ ~Closed(jobs[j]) /\ ~Closed(jobs'[j])
Closes(j) ==
  /\ ClaimPhase(j) \in {"never", "gone"} /\ ClaimPhase(j)' = ClaimPhase(j)
  /\ runs'[j] = runs[j]
  /\ jobs'[j].result # 0 <=> jobs[j].result # 0
  /\ ~Closed(jobs[j]) /\ Closed(jobs'[j])
Provides(j) ==
  \/ SameProvision(j)
  \/ PhaseMoves(j, "never", "asked") /\ ~Closed(jobs[j])
  \/ PhaseMoves(j, "asked", "live") \/ PhaseMoves(j, "live", "gone")
  \/ Works(j) \/ ReportsResult(j) \/ Closes(j)

\* A step that concerns one job, and of which the promise allows that job's part.
LEMMA OneJobProvides ==
  ASSUME NEW j \in Jobs, Provides(j), \A k \in Jobs \ {j} : SameProvision(k)
  PROVE  [Provision!Next]_(Provision!vars)
<1> DEFINE phase == [k \in Jobs |-> ClaimPhase(k)]
           ran == [k \in Jobs |-> runs[k]]
           reported == {k \in Jobs : jobs[k].result # 0}
           closed == {k \in Jobs : jobs[k].state = "cleaned"}
<1>1. ASSUME NEW from, NEW to, PhaseMoves(j, from, to)
      PROVE  Provision!Moves(j, from, to)
  <2>1. phase[j] = from
    BY <1>1 DEF PhaseMoves
  <2>2. phase' = [phase EXCEPT ![j] = to]
    BY <1>1 DEF PhaseMoves, SameProvision
  <2>3. ran' = ran /\ reported' = reported /\ closed' = closed
    BY <1>1 DEF PhaseMoves, SameProvision, Closed
  <2> QED BY <2>1, <2>2, <2>3 DEF Provision!Moves
<1>2. phase' = phase \/ ~(ClaimPhase(j)' = ClaimPhase(j))
  BY DEF SameProvision
<1>3. CASE SameProvision(j)
  <2>1. phase' = phase /\ ran' = ran /\ reported' = reported /\ closed' = closed
    BY <1>3 DEF SameProvision, Closed
  <2> QED BY <2>1 DEF Provision!vars
<1>4. CASE PhaseMoves(j, "never", "asked") /\ ~Closed(jobs[j])
  BY <1>1, <1>4 DEF Closed, Provision!Ask, Provision!Next
<1>5. CASE PhaseMoves(j, "asked", "live") \/ PhaseMoves(j, "live", "gone")
  BY <1>1, <1>5 DEF Provision!Appear, Provision!Vanish, Provision!Next
<1>6. CASE Works(j)
  <2>1. phase' = phase /\ phase[j] = "live" /\ ran[j] = 0
    BY <1>2, <1>6 DEF Works
  <2>2. ran' = [ran EXCEPT ![j] = 1]
    BY <1>6 DEF Works, SameProvision
  <2>3. reported' = reported /\ closed' = closed
    BY <1>6 DEF Works, SameProvision, Closed
  <2>4. Provision!Work(j)
    BY <2>1, <2>2, <2>3 DEF Provision!Work
  <2> QED BY <2>4 DEF Provision!Next
<1>7. CASE ReportsResult(j)
  <2>1. phase' = phase /\ ran[j] # 0 /\ j \notin reported /\ j \notin closed
    BY <1>2, <1>7 DEF ReportsResult, Closed
  <2>2. reported' = reported \union {j}
    BY <1>7 DEF ReportsResult, SameProvision
  <2>3. ran' = ran /\ closed' = closed
    BY <1>7 DEF ReportsResult, SameProvision, Closed
  <2>4. Provision!Report(j)
    BY <2>1, <2>2, <2>3 DEF Provision!Report
  <2> QED BY <2>4 DEF Provision!Next
<1>8. CASE Closes(j)
  <2>1. phase' = phase /\ phase[j] \in {"never", "gone"} /\ j \notin closed
    BY <1>2, <1>8 DEF Closes, Closed
  <2>2. closed' = closed \union {j}
    BY <1>8 DEF Closes, SameProvision, Closed
  <2>3. ran' = ran /\ reported' = reported
    BY <1>8 DEF Closes, SameProvision
  <2>4. Provision!Close(j)
    BY <2>1, <2>2, <2>3 DEF Provision!Close
  <2> QED BY <2>4 DEF Provision!Next
<1> QED BY <1>3, <1>4, <1>5, <1>6, <1>7, <1>8 DEF Provides

\* While the provider and the workers rest, a job's own row moves as promised.
LEMMA RowProvides ==
  ASSUME FleetInv, FleetInv', WorkRecorded, NEW k \in Jobs, Advance(k),
         UNCHANGED <<claims, runs>>,
         ~(jobs[k].state = "dispatching" /\ jobs'[k].state = "cleaned")
  PROVE  Provides(k) /\ (jobs'[k] = jobs[k] => SameProvision(k))
<1>1. /\ Present(k)' <=> Present(k)
      /\ EverClaimed(k)' <=> EverClaimed(k)
      /\ Present(k) => EverClaimed(k)
      /\ claims[k].state = "gone" <=> EverClaimed(k) /\ ~Present(k)
  BY RowsAt DEF Present, EverClaimed
<1>2. runs'[k] = runs[k]
  OBVIOUS
<1>3. ClaimPhase(k)' = IF Present(k) THEN "live" ELSE IF EverClaimed(k) THEN "gone"
                       ELSE IF jobs'[k].state = "dispatching" THEN "asked" ELSE "never"
  BY <1>1 DEF ClaimPhase
<1>4. ClaimPhase(k) = IF Present(k) THEN "live" ELSE IF EverClaimed(k) THEN "gone"
                      ELSE IF jobs[k].state = "dispatching" THEN "asked" ELSE "never"
  BY <1>1 DEF ClaimPhase
<1>5. /\ jobs'[k].state \in {"running", "cleanup_pending", "billing_pending"} => EverClaimed(k)
      /\ jobs'[k].state = "cleaned" => ~Present(k)
      /\ jobs'[k].result # 0 => runs'[k] > 0
  <2>1. \A i \in Jobs : ClaimFit(i)' /\ WorkerFit(i)'
    BY DEF FleetInv, RowsFit
  <2>2. ClaimFit(k)' /\ WorkerFit(k)'
    BY <2>1
  <2> QED BY <1>1, <2>2 DEF ClaimFit, WorkerFit, Over
<1>6. CASE jobs'[k] = jobs[k]
  BY <1>2, <1>3, <1>4, <1>6 DEF Provides, SameProvision, Closed
<1>7. CASE Admitted(k)
  <2>1. jobs[k].result = 0
    BY <1>7 DEF Admitted, WorkRecorded
  <2> QED BY <1>2, <1>3, <1>4, <1>7, <2>1 DEF Provides, SameProvision, Admitted, Closed
<1>8. CASE Claimed(k)
  <2>1. ~EverClaimed(k) /\ ~Present(k)
    BY <1>1, <1>8, RowsAt DEF Claimed, ClaimFit
  <2>2. ClaimPhase(k) = "never" /\ ClaimPhase(k)' = "asked"
    BY <1>3, <1>4, <1>8, <2>1 DEF Claimed
  <2> QED BY <1>2, <1>8, <2>2 DEF Provides, PhaseMoves, Claimed, SameOutcome, Closed
<1>9. CASE Accepted(k) \/ AwaitsBill(k)
  <2>1. EverClaimed(k) /\ jobs'[k].result = jobs[k].result
        /\ ~Closed(jobs[k]) /\ ~Closed(jobs'[k])
    BY <1>5, <1>9 DEF Accepted, AwaitsBill, SameOutcome, Closed
  <2> QED BY <1>2, <1>3, <1>4, <2>1 DEF Provides, SameProvision
<1>10. CASE Finished(k)
  <2>1. ClaimPhase(k)' = ClaimPhase(k)
    BY <1>3, <1>4, <1>10 DEF Finished
  <2>2. CASE jobs[k].result = jobs'[k].result
    BY <1>2, <1>10, <2>1, <2>2 DEF Provides, SameProvision, Finished, Closed
  <2>3. CASE jobs[k].result # jobs'[k].result
    <3>1. jobs[k].result = 0 /\ jobs'[k].result # 0
      BY <1>10, <2>3 DEF Finished
    <3> QED BY <1>2, <1>5, <1>10, <2>1, <3>1 DEF Provides, ReportsResult, Finished, Closed
  <2> QED BY <2>2, <2>3
<1>11. CASE ClosedAfterWork(k) \/ ClosedUnstarted(k)
  <2>1. /\ ~Closed(jobs[k]) /\ Closed(jobs'[k]) /\ jobs'[k].result = jobs[k].result
        /\ jobs[k].state # "dispatching" /\ jobs'[k].state # "dispatching" /\ ~Present(k)
    BY <1>5, <1>11 DEF ClosedAfterWork, ClosedUnstarted, SameOutcome, Closed
  <2>2. ClaimPhase(k) \in {"never", "gone"} /\ ClaimPhase(k)' = ClaimPhase(k)
    BY <1>3, <1>4, <2>1
  <2> QED BY <1>2, <2>1, <2>2 DEF Provides, Closes
<1> QED BY <1>6, <1>7, <1>8, <1>9, <1>10, <1>11 DEF Advance

\* The provider makes the claim, or it goes.
LEMMA ClaimProvides ==
  ASSUME FleetInv, NEW j \in Jobs,
         \/ ProviderCreates(j)
         \/ EverClaimed(j) /\ (Gone(j) \/ UNCHANGED claims) /\ UNCHANGED <<jobs, runs>>
  PROVE  Provides(j) /\ \A k \in Jobs \ {j} : SameProvision(k)
<1>1. UNCHANGED <<jobs, runs>>
  BY DEF ProviderCreates, campaignVars, jobVars
<1>2. claims \in [Jobs -> [state: {"none", "present", "gone"}, created: 0..MaxTime]]
  BY DEF FleetInv, FleetTyped, FilesTyped
<1>3. \A k \in Jobs \ {j} : claims'[k] = claims[k]
  BY <1>2 DEF ProviderCreates, Gone
<1>4. ASSUME NEW k \in Jobs \ {j} PROVE SameProvision(k)
  <2>1. ClaimPhase(k)' = ClaimPhase(k)
    BY <1>1, <1>3 DEF ClaimPhase, Present
  <2> QED BY <1>1, <2>1 DEF SameProvision
<1>5. CASE ProviderCreates(j)
  <2>1. ~EverClaimed(j) /\ jobs[j].state = "dispatching"
    BY <1>5, RowsAt DEF ProviderCreates, ClaimFit, Over, JobStates, ProviderStates
  <2>2. claims'[j].state = "present"
    BY <1>2, <1>5 DEF ProviderCreates
  <2>3. ClaimPhase(j) = "asked" /\ ClaimPhase(j)' = "live"
    BY <2>1, <2>2 DEF ClaimPhase, Present, EverClaimed
  <2> QED BY <1>1, <1>4, <2>3 DEF Provides, PhaseMoves
<1>6. CASE EverClaimed(j) /\ (Gone(j) \/ UNCHANGED claims)
  <2>1. claims[j].state \in {"present", "gone"} /\ claims'[j].state \in {claims[j].state, "gone"}
    BY <1>2, <1>6 DEF EverClaimed, Gone
  <2>2. \/ ClaimPhase(j)' = ClaimPhase(j)
        \/ ClaimPhase(j) = "live" /\ ClaimPhase(j)' = "gone"
    BY <2>1 DEF ClaimPhase, Present
  <2> QED BY <1>1, <1>4, <2>2 DEF Provides, PhaseMoves, SameProvision
<1> QED BY <1>5, <1>6

\* The worker runs where its claim is present, and once.
LEMMA RunProvides ==
  ASSUME FleetInv, NEW w \in Processes, NEW j \in Jobs, Run(w, j)
  PROVE  Provides(j) /\ \A k \in Jobs \ {j} : SameProvision(k)
<1>1. /\ UNCHANGED <<jobs, claims>> /\ Present(j)
      /\ task[w][j].at = "run" /\ runs' = [runs EXCEPT ![j] = runs[j] + 1]
  BY DEF Run, At, campaignVars, jobVars
<1>2. runs[j] = 0
  BY <1>1, TaskAt DEF FitTask, RunnerFit
<1>3. runs'[j] = 1 /\ \A k \in Jobs \ {j} : runs'[k] = runs[k]
  BY <1>1, <1>2 DEF FleetInv, FleetTyped, FilesTyped
<1>4. \A k \in Jobs : ClaimPhase(k)' = ClaimPhase(k)
  BY <1>1 DEF ClaimPhase, Present
<1>5. ClaimPhase(j) = "live"
  BY <1>1 DEF ClaimPhase
<1> QED BY <1>1, <1>2, <1>3, <1>4, <1>5 DEF Provides, Works, SameProvision

\* A step of which nothing is seen from outside.
LEMMA RestProvides ==
  ASSUME UNCHANGED <<jobs, claims, runs>>
  PROVE  [Provision!Next]_(Provision!vars)
<1>1. \A k \in Jobs : ClaimPhase(k)' = ClaimPhase(k)
  BY DEF ClaimPhase, Present
<1>2. /\ [k \in Jobs |-> ClaimPhase(k)]' = [k \in Jobs |-> ClaimPhase(k)]
      /\ [k \in Jobs |-> runs[k]]' = [k \in Jobs |-> runs[k]]
      /\ {k \in Jobs : jobs[k].result # 0}' = {k \in Jobs : jobs[k].result # 0}
      /\ {k \in Jobs : jobs[k].state = "cleaned"}' = {k \in Jobs : jobs[k].state = "cleaned"}
  BY <1>1
<1> QED BY <1>2 DEF Provision!vars

\* A call of the controller, which never closes a job over a submission that
\* the provider may still carry out.
LEMMA CallProvides ==
  ASSUME FleetInv, FleetInv', WorkRecorded, NEW j \in Jobs, JobStep(j),
         UNCHANGED <<claims, runs>>,
         ~(jobs[j].state = "dispatching" /\ jobs'[j].state = "cleaned")
  PROVE  [Provision!Next]_(Provision!vars)
<1>1. TypeOK /\ JobsTypeOK /\ [JobsNext]_campaignVars
  BY DEF FleetInv, FleetTyped, JobsNext
<1>2. ASSUME NEW k \in Jobs PROVE Advance(k)
  BY <1>1, JobAdvances
<1>3. Provides(j)
  BY <1>2, RowProvides
<1>4. ASSUME NEW k \in Jobs \ {j} PROVE SameProvision(k)
  <2>1. jobs'[k] = jobs[k]
    BY <1>1, <1>4, OtherJobsKept
  <2>2. Advance(k) /\ ~(jobs[k].state = "dispatching" /\ jobs'[k].state = "cleaned")
    BY <1>2, <2>1
  <2> QED BY <2>1, <2>2, RowProvides
<1> QED BY <1>3, <1>4, OneJobProvides

LEMMA CampaignProvides ==
  ASSUME FleetInv, FleetInv', WorkRecorded, Campaign
  PROVE  [Provision!Next]_(Provision!vars)
<1>1. UNCHANGED <<claims, runs>>
  BY DEF Campaign, providerVars
<1>2. ASSUME NEW j \in Jobs, NEW kind \in CampaignKinds \intersect DesktopKinds,
             NEW timeout \in Timeouts, AdmitJob(j, kind, 0, timeout)
      PROVE  [Provision!Next]_(Provision!vars)
  <2>1. jobs[j].state # "dispatching"
    BY <1>2 DEF AdmitJob
  <2>2. JobStep(j)
    BY <1>2, DesktopAdmission
  <2> QED BY <1>1, <2>1, <2>2, CallProvides
<1>3. Stop \/ (Tick /\ UNCHANGED jobVars) => UNCHANGED jobs
  BY DEF Stop, jobVars
<1> QED BY <1>1, <1>2, <1>3, RestProvides DEF Campaign

LEMMA CallsProvide ==
  ASSUME FleetInv, FleetInv', WorkRecorded, NEW w \in Processes, NEW j \in Jobs,
         \/ Dispatch(w, j) \/ Record(w, j) \/ Cancel(w, j) \/ Started(w, j)
         \/ RequestsCleanup(w, j) \/ Confirms(w, j)
  PROVE  [Provision!Next]_(Provision!vars)
<1>1. JobsTypeOK
  BY DEF FleetInv, FleetTyped
<1>2. UNCHANGED <<claims, runs>>
  BY DEF Dispatch, Record, Cancel, Started, RequestsCleanup, Confirms, providerVars
<1>3. UNCHANGED campaignVars => UNCHANGED jobs
  BY DEF campaignVars, jobVars
<1> DEFINE Calls == /\ JobStep(j)
                    /\ ~(jobs[j].state = "dispatching" /\ jobs'[j].state = "cleaned")
<1>4. Dispatch(w, j) => Calls
  BY <1>1, JobEffects DEF Dispatch, JobStep
<1>5. Record(w, j) => Calls \/ UNCHANGED jobs
  BY <1>1, <1>3, JobEffects DEF Record, JobStep
<1>6. Cancel(w, j) => Calls \/ UNCHANGED jobs
  BY <1>1, <1>3, CancelEffect DEF Cancel, JobStep
<1>7. Started(w, j) => Calls \/ UNCHANGED jobs
  BY <1>1, <1>3, JobEffects DEF Started, JobStep
<1>8. RequestsCleanup(w, j) => Calls \/ UNCHANGED jobs
  BY <1>1, <1>3, JobEffects DEF RequestsCleanup, JobStep
<1>9. Confirms(w, j) => Calls \/ UNCHANGED jobs
  BY <1>1, <1>3, CleanupEffect, ReceiptInHand DEF Confirms, JobStep
<1>10. Calls \/ UNCHANGED jobs
  BY <1>4, <1>5, <1>6, <1>7, <1>8, <1>9
<1> QED BY <1>2, <1>10, CallProvides, RestProvides

LEMMA StepProvides ==
  ASSUME FleetInv, FleetInv', WorkRecorded, [FleetNext]_fleetVars
  PROVE  [Provision!Next]_(Provision!vars)
<1> DEFINE Promised == [Provision!Next]_(Provision!vars)
<1>1. Campaign => Promised
  BY CampaignProvides
<1>2. ASSUME NEW w \in Processes, NEW j \in Jobs,
             \/ Dispatch(w, j) \/ Record(w, j) \/ Cancel(w, j) \/ Started(w, j)
             \/ RequestsCleanup(w, j) \/ Confirms(w, j)
      PROVE  Promised
  BY <1>2, CallsProvide
<1>3. ASSUME NEW w \in Processes, NEW j \in Jobs, Run(w, j) PROVE Promised
  BY <1>3, RunProvides, OneJobProvides
<1>4. ASSUME NEW w \in Processes, NEW j \in Jobs, Stops(w, j) PROVE Promised
  <2>1. EverClaimed(j)
    BY <1>4, TaskAt DEF Stops, At, FitTask, ReleaseFit, ClaimedSteps
  <2> QED BY <1>4, <2>1, ClaimProvides, OneJobProvides DEF Stops, campaignVars, jobVars
<1>5. ASSUME NEW j \in Jobs, ProviderCreates(j) \/ ClaimEnds(j) PROVE Promised
  <2>1. ClaimEnds(j) => EverClaimed(j) /\ Gone(j) /\ UNCHANGED <<jobs, runs>>
    BY ClaimSeen DEF ClaimEnds, campaignVars, jobVars
  <2> QED BY <1>5, <2>1, ClaimProvides, OneJobProvides
<1>6. ASSUME NEW w \in Processes, NEW j \in Jobs,
             \/ RunnerPicks(j) \/ Execute(w, j) \/ AcquireReads(w, j) \/ AcquireFinds(w, j)
             \/ SendCreate(w, j) \/ CreateReturns(w, j) \/ Connect(w, j)
             \/ Attempt(w, j) \/ Collect(w, j) \/ CleanReads(w, j)
      PROVE  Promised
  <2>1. UNCHANGED <<jobs, claims, runs>>
    BY <1>6 DEF RunnerPicks, Execute, AcquireReads, AcquireFinds, SendCreate, CreateReturns,
         Connect, Attempt, Collect, CleanReads, campaignVars, jobVars, providerVars
  <2> QED BY <2>1, RestProvides
<1>7. ASSUME NEW w \in Processes, NEW j \in Jobs,
             \/ WatchdogPicks(j) \/ AssertOwned(w, j) \/ ObservedWritten(w, j)
             \/ ReleaseReads(w, j) \/ ReleaseLooks(w, j) \/ Polls(w, j)
             \/ ReceiptFound(w, j) \/ ReceiptOpened(w, j) \/ ReceiptTorn(w, j)
             \/ ReceiptWritten(w, j) \/ CallFails(w, j) \/ CreateLost(j)
      PROVE  Promised
  <2>1. UNCHANGED <<jobs, claims, runs>>
    BY <1>7 DEF WatchdogPicks, AssertOwned, ObservedWritten, ReleaseReads, ReleaseLooks,
         Polls, ReceiptFound, ReceiptOpened, ReceiptTorn, ReceiptWritten, CallFails,
         CreateLost, campaignVars, jobVars, providerVars
  <2> QED BY <2>1, RestProvides
<1>8. UNCHANGED fleetVars \/ (\E w \in Processes : Crash(w)) => Promised
  BY RestProvides DEF Crash, fleetVars, campaignVars, jobVars, providerVars
<1> HIDE DEF Promised
<1>9. ASSUME NEW j \in Jobs, RunnerStep(j) PROVE Promised
  BY <1>2, <1>3, <1>6, <1>9, FleetConstants DEF RunnerStep
<1>10. ASSUME NEW w \in Processes, NEW j \in Jobs, Release(w, j) PROVE Promised
  BY <1>2, <1>4, <1>7, <1>10 DEF Release
<1>11. ASSUME NEW j \in Jobs, WatchdogPicks(j) \/ CreateLost(j) PROVE Promised
  BY <1>7, <1>11, FleetConstants
<1>12. Promised
  BY <1>1, <1>5, <1>7, <1>8, <1>9, <1>10, <1>11 DEF FleetNext
<1> QED BY <1>12 DEF Promised

\* To its caller the adapter does a job's work once, in one claim, reports only
\* what that worker did and closes the job only when the claim is gone or never
\* was: acquire, execute and release, with their crashes, torn files, lost
\* answers and the race of the two processes, implement ProviderWork.
THEOREM FleetKeepsProvision == FleetSpec => KeepsProvision
<1>1. FleetInit => Provision!Init
  <2> SUFFICES ASSUME FleetInit PROVE Provision!Init
    OBVIOUS
  <2>1. \A k \in Jobs : /\ claims[k].state = "none" /\ jobs[k].state = "absent"
                        /\ jobs[k].result = 0 /\ runs[k] = 0
    BY DEF FleetInit, JobsInit, AbsentJob, NoClaim
  <2>2. \A k \in Jobs : ClaimPhase(k) = "never"
    BY <2>1 DEF ClaimPhase, Present
  <2> QED BY <2>1, <2>2 DEF Provision!Init
<1>2. FleetInit => WorkRecorded /\ RefundsAreForWorkThatNeverRan
  BY DEF FleetInit, JobsInit, AbsentJob, WorkRecorded, RefundsAreForWorkThatNeverRan
<1>3. /\ FleetInv /\ [FleetNext]_fleetVars /\ WorkRecorded /\ RefundsAreForWorkThatNeverRan
      => (WorkRecorded /\ RefundsAreForWorkThatNeverRan)'
  BY FleetStepsJobs, WorkRecordedStep DEF FleetInv, FleetTyped
<1>4. FleetInv /\ FleetInv' /\ WorkRecorded /\ [FleetNext]_fleetVars
        => [Provision!Next]_(Provision!vars)
  BY StepProvides
<1>5. FleetSpec => [](WorkRecorded /\ RefundsAreForWorkThatNeverRan)
  BY <1>2, <1>3, FleetIsSound, PTL DEF FleetSpec
<1> QED BY <1>1, <1>4, <1>5, FleetIsSound, PTL DEF FleetSpec, KeepsProvision, Provision!Spec

-----------------------------------------------------------------------------
(* What a crash inside exclusive_write leaves behind.                      *)

(* The receipt file was created and nobody is writing it, while the job    *)
(* still occupies its slot.                                                *)
Unwritten(j) == \A w \in Processes : ~At(w, j, "writing")
HalfWritten(j) == files[j].receipt = "torn" /\ Unwritten(j) /\ Occupies(jobs[j])

LEMMA BecomesUnwritten ==
  ASSUME FleetInv, NEW j \in Jobs, Unwritten(j), NEW w \in Processes, NEW k \in Jobs, NEW c,
         Become(w, k, c), k # j \/ c.at # "writing"
  PROVE  Unwritten(j)'
<1>1. task \in [Processes -> [Jobs -> Task]]
  BY DEF FleetInv, FleetTyped
<1>2. PICK row : row = [task[w] EXCEPT ![k] = c]
  OBVIOUS
<1>3. /\ task' = [task EXCEPT ![w] = row]
      /\ row[k] = c /\ \A i \in Jobs \ {k} : row[i] = task[w][i]
  BY <1>1, <1>2 DEF Become
<1>4. task'[w] = row /\ \A v \in Processes \ {w} : task'[v] = task[v]
  BY <1>1, <1>3
<1> QED BY <1>3, <1>4 DEF Unwritten, At

LEMMA GoesUnwritten ==
  ASSUME FleetInv, NEW j \in Jobs, Unwritten(j), NEW w \in Processes, NEW k \in Jobs
  PROVE  /\ \A step \in Steps \ {"writing"} : Go(w, k, step) => Unwritten(j)'
         /\ Raise(w, k) => Unwritten(j)'
         /\ Become(w, k, Idle) => Unwritten(j)'
<1>1. task[w][k] \in Task
  BY TaskAt
<1>2. ASSUME NEW step \in Steps \ {"writing"}, Go(w, k, step) PROVE Unwritten(j)'
  <2>1. PICK c : c = [task[w][k] EXCEPT !.at = step]
    OBVIOUS
  <2>2. c.at = step
    BY <1>1, <2>1, GoneTask
  <2> QED BY <1>2, <2>1, <2>2, BecomesUnwritten DEF Go
<1>3. ASSUME Raise(w, k) PROVE Unwritten(j)'
  <2>1. PICK c : c = RaisedTask(task[w][k])
    OBVIOUS
  <2>2. c.at # "writing"
    BY <2>1 DEF RaisedTask, Idle
  <2> QED BY <1>3, <2>1, <2>2, BecomesUnwritten DEF Raise, RaisedTask
<1>4. ASSUME Become(w, k, Idle) PROVE Unwritten(j)'
  BY <1>4, BecomesUnwritten DEF Idle
<1> QED BY <1>2, <1>3, <1>4

LEMMA CallUnwritten ==
  ASSUME FleetInv, NEW j \in Jobs, HalfWritten(j), NEW w \in Processes, NEW k \in Jobs,
         \/ w = "runner" /\ RunnerStep(k)
         \/ w = "watchdog" /\ WatchdogPicks(k)
         \/ Release(w, k) \/ CallFails(w, k)
  PROVE  Unwritten(j)'
<1>0. Unwritten(j) /\ files[j].receipt = "torn" /\ task[w][k] \in Task
  BY TaskAt DEF HalfWritten
<1>1. Steps \ {"writing"} =
        {"idle", "execute", "acquire", "find", "reference", "create",
         "await", "owned", "observing", "started", "connect", "attempt", "run",
         "collect", "record", "clean", "release", "cancel", "lookup", "request",
         "stop", "poll", "receipt", "confirm"}
  BY DEF Steps
<1>2. CASE CallFails(w, k) \/ ReceiptTorn(w, k)
  BY <1>0, <1>2, GoesUnwritten DEF CallFails, ReceiptTorn
<1>3. CASE (w = "runner" /\ RunnerPicks(k)) \/ (w = "watchdog" /\ WatchdogPicks(k))
  <2>1. PICK picked : picked = [Idle EXCEPT !.at = "execute"]
    OBVIOUS
  <2>2. PICK due : due = [Idle EXCEPT
           !.goal = "terminate",
           !.at = IF jobs[k].state = "reserved" THEN "cancel" ELSE "release"]
    OBVIOUS
  <2>3. picked.at # "writing" /\ due.at # "writing"
    BY <2>1, <2>2 DEF Idle
  <2>4. Become(w, k, picked) \/ Become(w, k, due)
    BY <1>3, <2>1, <2>2 DEF RunnerPicks, WatchdogPicks
  <2> QED BY <1>0, <2>3, <2>4, BecomesUnwritten
<1>4. CASE AcquireReads(w, k)
  <2>1. PICK c : c = [task[w][k] EXCEPT !.seen = jobs[k].state, !.adopting = TRUE, !.at = "find"]
    OBVIOUS
  <2>2. c.at = "find"
    BY <1>0, <2>1 DEF Task
  <2>3. Become(w, k, c)
    BY <1>4, <2>1, Zenon DEF AcquireReads
  <2> QED BY <1>0, <2>2, <2>3, BecomesUnwritten
<1>5. CASE ReceiptFound(w, k)
  <2>1. PICK c : c = [task[w][k] EXCEPT !.receipt = files[k].evidence, !.at = "confirm"]
    OBVIOUS
  <2>2. c.at = "confirm"
    BY <1>0, <2>1 DEF Task
  <2>3. Become(w, k, c)
    BY <1>5, <2>1, Zenon DEF ReceiptFound, EvidenceOnDisk
  <2> QED BY <1>0, <2>2, <2>3, BecomesUnwritten
<1>11. CASE ReleaseReads(w, k)
  <2>1. PICK step : step = IF jobs[k].state = "reserved" THEN "cancel" ELSE "lookup"
    OBVIOUS
  <2>2. PICK c : c = [task[w][k] EXCEPT !.seen = jobs[k].state, !.adopting = FALSE, !.at = step]
    OBVIOUS
  <2>3. c.at # "writing"
    BY <1>0, <2>1, <2>2 DEF Task
  <2>4. Become(w, k, c)
    BY <1>11, <2>1, <2>2, Zenon DEF ReleaseReads
  <2> QED BY <1>0, <2>3, <2>4, BecomesUnwritten
<1>6. CASE ReceiptOpened(w, k)
  <2>1. k # j
    BY <1>0, <1>6 DEF ReceiptOpened
  <2>2. PICK c : Become(w, k, c)
    BY <1>6 DEF ReceiptOpened
  <2> QED BY <1>0, <2>1, <2>2, BecomesUnwritten
<1>7. CASE \/ Execute(w, k) \/ AcquireFinds(w, k) \/ Dispatch(w, k) \/ SendCreate(w, k)
           \/ CreateReturns(w, k) \/ Connect(w, k)
  BY <1>0, <1>1, <1>7, GoesUnwritten
     DEF Execute, AcquireFinds, Dispatch, SendCreate, CreateReturns, Connect
<1>8. CASE Attempt(w, k) \/ Run(w, k) \/ Collect(w, k) \/ Record(w, k) \/ CleanReads(w, k)
  BY <1>0, <1>1, <1>8, GoesUnwritten
     DEF Attempt, RunsOrCollects, Run, Collect, Record, CleanReads
<1>9. CASE AssertOwned(w, k) \/ ObservedWritten(w, k) \/ Started(w, k)
  BY <1>0, <1>1, <1>9, GoesUnwritten DEF AssertOwned, ObservedWritten, AfterOwned, Started
<1>10. CASE \/ Cancel(w, k) \/ ReleaseLooks(w, k) \/ RequestsCleanup(w, k) \/ Stops(w, k)
            \/ Polls(w, k) \/ ReceiptWritten(w, k) \/ Confirms(w, k)
  BY <1>0, <1>1, <1>10, GoesUnwritten
     DEF Cancel, ReleaseLooks, RequestsCleanup, Stops, Polls, ReceiptWritten, Confirms
<1> QED BY <1>2, <1>3, <1>4, <1>5, <1>6, <1>7, <1>8, <1>9, <1>10, <1>11 DEF RunnerStep, Release

\* Nobody completes a receipt that nobody is writing.
LEMMA CallStaysTorn ==
  ASSUME FleetInv, NEW j \in Jobs, HalfWritten(j), NEW w \in Processes, NEW k \in Jobs,
         \/ w = "runner" /\ RunnerStep(k)
         \/ w = "watchdog" /\ WatchdogPicks(k)
         \/ Release(w, k) \/ CallFails(w, k)
  PROVE  files'[j].receipt = "torn"
<1>0. /\ Unwritten(j) /\ files[j].receipt = "torn"
      /\ files \in [Jobs -> [observed: {"none", "torn", "whole"},
                             receipt: {"none", "torn", "whole"}, evidence: {0} \union Evidence]]
  BY DEF HalfWritten, FleetInv, FleetTyped, FilesTyped
<1>1. CASE AssertOwned(w, k) \/ ObservedWritten(w, k)
  <2>1. \/ UNCHANGED files
        \/ \E o : files' = [files EXCEPT ![k].observed = o]
    BY <1>1 DEF AssertOwned, ObservedWritten
  <2> QED BY <1>0, <2>1
<1>2. CASE ReceiptOpened(w, k) \/ ReceiptWritten(w, k)
  <2>1. k # j
    <3>1. ReceiptOpened(w, k) => k # j
      BY <1>0 DEF ReceiptOpened
    <3>2. ReceiptWritten(w, k) => k # j
      BY <1>0 DEF ReceiptWritten, Unwritten
    <3> QED BY <1>2, <3>1, <3>2
  <2>2. PICK row : files' = [files EXCEPT ![k] = row]
    <3>1. ReceiptOpened(w, k) => files' = [files EXCEPT ![k] = [files[k] EXCEPT !.receipt = "torn"]]
      BY <1>0 DEF ReceiptOpened
    <3>2. ReceiptWritten(w, k) =>
            files' = [files EXCEPT ![k] = [files[k] EXCEPT !.receipt = "whole",
                                                           !.evidence = task[w][k].receipt]]
      BY <1>0, Zenon DEF ReceiptWritten
    <3> QED BY <1>2, <3>1, <3>2
  <2> QED BY <1>0, <2>1, <2>2
<1>3. CASE w = "runner" /\ RunnerStep(k)
  <2>1. UNCHANGED files
    BY <1>3 DEF RunnerStep, RunnerPicks, Execute, AcquireReads, AcquireFinds, Dispatch, SendCreate,
       CreateReturns, Connect, Attempt, Run, Collect, Record, CleanReads, diskVars
  <2> QED BY <1>0, <2>1
<1>4. CASE \/ WatchdogPicks(k) \/ CallFails(w, k) \/ Started(w, k) \/ ReleaseReads(w, k)
           \/ Cancel(w, k) \/ ReleaseLooks(w, k) \/ RequestsCleanup(w, k) \/ Stops(w, k)
           \/ Polls(w, k) \/ ReceiptFound(w, k) \/ ReceiptTorn(w, k) \/ Confirms(w, k)
  <2>1. \/ WatchdogPicks(k) \/ CallFails(w, k) \/ Started(w, k) \/ ReleaseReads(w, k)
        \/ Cancel(w, k) \/ ReleaseLooks(w, k)
        => UNCHANGED files
    BY DEF WatchdogPicks, CallFails, Started, ReleaseReads, Cancel, ReleaseLooks, diskVars
  <2>2. \/ RequestsCleanup(w, k) \/ Stops(w, k) \/ Polls(w, k) \/ ReceiptFound(w, k)
        \/ ReceiptTorn(w, k) \/ Confirms(w, k)
        => UNCHANGED files
    BY Zenon DEF RequestsCleanup, Stops, Polls, ReceiptFound, ReceiptTorn, Confirms, diskVars
  <2> QED BY <1>0, <1>4, <2>1, <2>2
<1> QED BY <1>1, <1>2, <1>3, <1>4 DEF Release

\* No call of the controller frees the slot: the job was dispatched, so it
\* cannot be cancelled, and nobody has a receipt to confirm.
LEMMA CallStaysOccupied ==
  ASSUME FleetInv, NEW j \in Jobs, HalfWritten(j), NEW w \in Processes, NEW k \in Jobs,
         \/ w = "runner" /\ RunnerStep(k)
         \/ w = "watchdog" /\ WatchdogPicks(k)
         \/ Release(w, k) \/ CallFails(w, k)
  PROVE  Occupies(jobs'[j])
<1>0. Occupies(jobs[j]) /\ files[j].receipt = "torn" /\ JobsTypeOK
  BY DEF HalfWritten, FleetInv, FleetTyped
<1>1. jobs[j].state # "reserved"
  BY <1>0, RowsAt DEF ReceiptFit, ClaimFit, Over, Occupies, ProviderStates
<1>2. ASSUME JobStep(k) \/ UNCHANGED campaignVars, k # j
      PROVE  Occupies(jobs'[j])
  BY <1>0, <1>2, OtherRowsKept DEF Occupies
<1>3. CASE UNCHANGED campaignVars
  BY <1>0, <1>3 DEF campaignVars, jobVars, Occupies
<1>4. ASSUME k = j,
             \/ BeginDispatch(k) \/ RequestCleanup(k) \/ (\E p \in Providers : ProviderStarted(k, p))
             \/ \E r \in Results : RecordResult(k, r)
      PROVE  Occupies(jobs'[j])
  BY <1>0, <1>4, JobEffects DEF Occupies, ProviderStates
<1>5. CASE Dispatch(w, k) \/ Record(w, k) \/ Started(w, k) \/ RequestsCleanup(w, k)
  <2>1. \/ BeginDispatch(k) \/ RequestCleanup(k) \/ (\E p \in Providers : ProviderStarted(k, p))
        \/ (\E r \in Results : RecordResult(k, r))
        \/ UNCHANGED campaignVars
    BY <1>5 DEF Dispatch, Record, Started, RequestsCleanup
  <2>2. JobStep(k) \/ UNCHANGED campaignVars
    BY <2>1 DEF JobStep
  <2> QED BY <1>2, <1>3, <1>4, <2>1, <2>2
<1>6. CASE Cancel(w, k)
  <2>1. k # j \/ UNCHANGED campaignVars
    BY <1>1, <1>6 DEF Cancel, CancelUndispatched, Cancellable
  <2>2. JobStep(k) \/ UNCHANGED campaignVars
    BY <1>6 DEF Cancel, JobStep
  <2> QED BY <1>2, <1>3, <2>1, <2>2
<1>7. CASE Confirms(w, k)
  <2>1. k # j
    BY <1>0, <1>7, ReceiptInHand DEF Confirms
  <2>2. JobStep(k) \/ UNCHANGED campaignVars
    BY <1>7, ReceiptInHand DEF Confirms, JobStep
  <2> QED BY <1>2, <2>1, <2>2
<1>8. CASE \/ RunnerPicks(k) \/ Execute(w, k) \/ AcquireReads(w, k) \/ AcquireFinds(w, k)
           \/ SendCreate(w, k) \/ CreateReturns(w, k) \/ Connect(w, k)
           \/ Attempt(w, k) \/ Run(w, k) \/ Collect(w, k) \/ CleanReads(w, k)
  BY <1>3, <1>8 DEF RunnerPicks, Execute, AcquireReads, AcquireFinds, SendCreate, CreateReturns,
       Connect, Attempt, Run, Collect, CleanReads
<1>9. CASE \/ WatchdogPicks(k) \/ AssertOwned(w, k) \/ ObservedWritten(w, k)
           \/ ReleaseReads(w, k) \/ ReleaseLooks(w, k) \/ Stops(w, k) \/ Polls(w, k)
           \/ ReceiptFound(w, k) \/ ReceiptOpened(w, k) \/ ReceiptTorn(w, k)
           \/ ReceiptWritten(w, k) \/ CallFails(w, k)
  <2>1. \/ WatchdogPicks(k) \/ AssertOwned(w, k) \/ ObservedWritten(w, k)
        \/ ReleaseReads(w, k) \/ ReleaseLooks(w, k) \/ Stops(w, k) \/ Polls(w, k)
        => UNCHANGED campaignVars
    BY Zenon DEF WatchdogPicks, AssertOwned, ObservedWritten, ReleaseReads, ReleaseLooks, Stops,
       Polls
  <2>2. \/ ReceiptFound(w, k) \/ ReceiptOpened(w, k) \/ ReceiptTorn(w, k)
        \/ ReceiptWritten(w, k) \/ CallFails(w, k)
        => UNCHANGED campaignVars
    BY Zenon DEF ReceiptFound, ReceiptOpened, ReceiptTorn, ReceiptWritten, CallFails
  <2> QED BY <1>3, <1>9, <2>1, <2>2
<1> QED BY <1>5, <1>6, <1>7, <1>8, <1>9 DEF RunnerStep, Release

LEMMA HalfWrittenStep ==
  ASSUME FleetInv, [FleetNext]_fleetVars, NEW j \in Jobs, HalfWritten(j)
  PROVE  HalfWritten(j)'
<1>1. files[j].receipt = "torn" /\ Unwritten(j) /\ Occupies(jobs[j])
  BY DEF HalfWritten
<1>2. ASSUME NEW w \in Processes, NEW k \in Jobs,
             \/ w = "runner" /\ RunnerStep(k)
             \/ w = "watchdog" /\ WatchdogPicks(k)
             \/ Release(w, k) \/ CallFails(w, k)
      PROVE  HalfWritten(j)'
  BY <1>2, CallUnwritten, CallStaysTorn, CallStaysOccupied DEF HalfWritten, Occupies
<1>3. ASSUME NEW w \in Processes, Crash(w) PROVE HalfWritten(j)'
  <2>1. UNCHANGED <<jobs, files>> /\ task' = [task EXCEPT ![w] = [k \in Jobs |-> Idle]]
    BY <1>3 DEF Crash, campaignVars, jobVars, diskVars
  <2>2. \A v \in Processes : task'[v][j] \in {task[v][j], Idle}
    BY <2>1 DEF FleetInv, FleetTyped
  <2>3. Unwritten(j)'
    BY <1>1, <2>2 DEF Unwritten, At, Idle
  <2> QED BY <1>1, <2>1, <2>3 DEF HalfWritten, Occupies
<1>4. ASSUME \/ UNCHANGED fleetVars
             \/ \E k \in Jobs : ProviderCreates(k) \/ CreateLost(k) \/ ClaimEnds(k)
      PROVE  HalfWritten(j)'
  <2>1. UNCHANGED <<jobs, files, task>>
    BY <1>4 DEF fleetVars, ProviderCreates, CreateLost, ClaimEnds, campaignVars, jobVars, diskVars
  <2> QED BY <1>1, <2>1 DEF HalfWritten, Unwritten, At, Occupies
<1>5. CASE Campaign
  <2>1. UNCHANGED <<files, task>>
    BY <1>5 DEF Campaign, diskVars
  <2>2. jobs'[j] = jobs[j]
    <3>1. ASSUME NEW k \in Jobs, NEW kind \in CampaignKinds \intersect DesktopKinds,
                 NEW timeout \in Timeouts, AdmitJob(k, kind, 0, timeout)
          PROVE  jobs'[j] = jobs[j]
      <4>1. k # j
        BY <1>1, <3>1 DEF AdmitJob, Occupies, ProviderStates
      <4>2. JobStep(k)
        BY <3>1, DesktopAdmission
      <4> QED BY <4>1, <4>2, OtherRowsKept
    <3>2. Stop \/ (Tick /\ UNCHANGED jobVars) => UNCHANGED jobs
      BY DEF Stop, jobVars
    <3> QED BY <1>5, <3>1, <3>2 DEF Campaign
  <2> QED BY <1>1, <2>1, <2>2 DEF HalfWritten, Unwritten, At, Occupies
<1> QED BY <1>2, <1>3, <1>4, <1>5, FleetConstants DEF FleetNext

\* A receipt file that a crash left half written is never completed, replaced or
\* passed over: every release of the claim raises on it, and the job occupies
\* its slot for ever, although its claim is gone (ClaimIsProvedGone).
THEOREM TornReceiptsStay ==
  ASSUME NEW j \in Jobs
  PROVE  FleetSpec => [](HalfWritten(j) => []HalfWritten(j))
<1>1. FleetInv /\ [FleetNext]_fleetVars /\ HalfWritten(j) => HalfWritten(j)'
  BY HalfWrittenStep
<1> QED BY <1>1, FleetIsSound, PTL DEF FleetSpec
=============================================================================
