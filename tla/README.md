# TLA+ models of GameWorld autoresearch and its desktop driver

This directory specifies two parts of the repository. The control plane, the Python
package `fps_bench`, spends a fixed budget on model training, serving and desktop
episodes for one research campaign, and must neither overspend nor lose track of work it
started at a provider. `cua-driver`, the vendored Rust driver through which every
episode acts on its desktop, keeps a registry of sessions and of element tokens that
many threads share. The models are written from the code; `PROJECT.json`
maps every definition to the lines it stands for.

```
cd tla
tlc -workers 2 -config JobsLifecycle.cfg MCCampaignJobs.tla    # a run
tlapm CampaignJobsProofs.tla                                   # the proofs
```

## 1. Inventory

The Python part keeps its state in one SQLite file that every trusted process of the
host opens. Each operation is one `BEGIN IMMEDIATE` transaction, so an operation is
atomic, and what interleaves is operations, awaited provider calls and crashes between
them. The Rust part, `cua-driver`, is one process with many threads; what is atomic there
is a critical section of one mutex, and what interleaves is everything between two.

| component | state | operations | hard part | what makes it correct |
|---|---|---|---|---|
| **Campaign ledger** (`campaign_ledger.py`, `modal_reconciliation.py`, `modal_billing.py`) | `reservations`, `prior_usage`, `modal_reconciliation_groups/rows`, `campaign.frozen/reason`, `token_budget_removal` | reserve, settle, record_prior_usage, import_report, freeze, remove_token_budget, reconcile | late, revised and overlapping bills; two limits and a shutdown reserve; states that keep a whole hold | allowances hold while not frozen; a row is charged once; nothing accounted returns |
| **Controller: jobs** (`campaign_controller.py`) | `jobs`, `controller.stopped` | admit, begin_dispatch, provider_started, submission_refused, record_result, request_cleanup, provider_cleanup_confirmed, settle_job, cleanup_confirmed, retain_reconciled_jobs, cancel_undispatched, stop | late and duplicate answers, five ways to close a job, slots that stay taken while a submission is ambiguous | slots; one-way lifecycle; money follows work; refunds only for work that never ran |
| **Controller: candidates** (same file) | `candidates`, `decisions`, `private_split_leases`, `promotions`, `controller.champion` | register, decide_development/factorial/confirmation, issue/abandon lease, complete_sealed_evaluation, promote, rollback | decisions arriving after a promotion or rollback; protected splits with a fixed number of uses | one champion, promotion only on a passing confirmation against it, one open lease |
| **Modal training** (`modal_training.py`, `gameworld_modal.py`) | `modal_training_launches/transfers/attempts`; the provider's sandboxes | prepare, start, acknowledge, stage, run_worker, export, terminate | create calls that time out and land later, crashes between a provider call and its record, the runner and the watchdog on one job | one sandbox, one worker execution, cleanup is proof |
| **Modal serving** (`gameworld_serving.py`) | the same journal, plus refused submissions | prepare, start, terminate | as above, and a live endpoint that outlives its workflow | as above |
| **Watchdog** (`campaign_watchdog.py`) | none (a file lock) | due_jobs, clean, tick | acts on a stale read; must finish what a crash left | acknowledged due work is cleaned in the end |
| **Fleet claims** (`fleet_provider.py`, `gameworld_fleet.py`) | claim reference, observation and receipt files, `gameworld_fleet_attempts`, artifact receipts; the provider's claims | acquire, assert_owned, attempt, execute, collect, release | lost and late creates, TTL, runner and watchdog releasing one claim, torn files | a missing claim is no proof of an ambiguous create; one receipt; one worker run |
| **Coordinator** (`gameworld_coordinator.py`) | workflows and queued items | start, advance, admit_ready, confirm, promote, seal, rollback | several transactions per transition, a crash between them | every workflow ends |
| **Runner** (`gameworld_runner.py`) | none | run_once: advance, admit, dispatch, clean up; failure gate | dispatch in parallel with the watchdog | three failures stop the campaign |
| **Billing reconciler** (`gameworld_billing.py`) | attempts | plan, run_once, close_recovered | crash between reconciliation and retention | no job closed by another's bill |
| **Evaluation contract** (`evaluation_contract.py`) | none | paired_decision, factorial_decision | missing and failed episodes, bootstrap bounds | incomplete evidence never nominates |
| **Research supervisor, gateway** (`gameworld_research*.py`, `research_gateway.py`, `autoresearch.py`) | dispatch journal, proposals | dispatch, materialize | freeze checked before the call it guards | one dispatch per journal entry |
| **cua-driver sessions** (`cua-driver-core/src/session.rs`, `capture_scope.rs`, `session_tools.rs`) | process-global maps, each behind its own mutex: lifecycle records, tombstones, activity, cleanup progress, capture policies | dispatch guards, start/revive, end (explicit, deferred, idle, transport close, revoke-all), cleanup retries, escalation | threads interleave between the locks; an end meets calls in flight; cleanup hooks run outside every lock | an id is live for one transport or ended; deferred ends happen; hooks succeed once |
| **cua-driver element tokens** (`element_token.rs`, `element_cache.rs`, `platform-windows/src/uia/cache.rs`, `tools/impl_.rs`) | snapshot counter, token lanes per runtime and pid, element cache per runtime, COM references | get_window_state, click, shutdown | two locks that no lock covers; two sessions on one window; an action that fails while it owns a reference twice | a token names one snapshot; an element lives while it is held |
| **cua-driver, the rest** | policies, recordings, OS handles | authorization, recording, input, capture, CLI | OS I/O | |

How they interact: the coordinator decides what to run and admits jobs through the
controller, which takes slots and reserves their money in the ledger in one
transaction; the runner dispatches admitted jobs through the Modal and Fleet
adapters, which call back `begin_dispatch`, `provider_started`, `record_result` and
`provider_cleanup_confirmed`; the watchdog calls the same adapters' `terminate` for
work that is due; the billing reconciler closes the jobs the adapters left
`billing_pending`. Inside a desktop claim the episode's agent calls cua-driver's tools:
each call passes the session registry (a dispatch guard), `get_window_state` fills the
element cache and hands out tokens, and `click` turns one back into an element.

## 2. Modules

| module | what it is | EXTENDS |
|---|---|---|
| `TableSums` | SQL sums over numbered rows | |
| `CampaignLedger` | the ledger: every transaction, its properties | `TableSums` |
| `CampaignJobs` | the job lifecycle; its operations conjoin the ledger's | `CampaignLedger` |
| `ProviderWork` | what an adapter promises for each job: an abstract specification | |
| `ModalTraining` | the training adapter, the runner and the watchdog as processes, the provider, crashes; implements `ProviderWork` | `CampaignJobs`, INSTANCE `ProviderWork` |
| `FleetClaims` | the desktop adapter, the same two processes, files, the provider, crashes; implements `ProviderWork` | `CampaignJobs`, INSTANCE `ProviderWork` |
| `ChampionLine` | who is champion, and who may become it: an abstract specification | |
| `CandidatePromotion` | candidates, leases, decisions, promotion, rollback; jobs abstracted; implements `ChampionLine` | INSTANCE `ChampionLine` |
| `SessionContract` | what the session registry promises a transport: an abstract specification | |
| `DriverSessions` | the registry with its threads and locks; implements `SessionContract` | INSTANCE `SessionContract` |
| `ElementTokens` | token registry, element cache and references | |
| `MC*` | bounded instances | |
| `TableSumProofs`, `CampaignLedgerProofs`, `CampaignJobsProofs`, `ModalTrainingProofs`, `FleetClaimsProofs`, `CandidatePromotionProofs`, `DriverSessionsProofs`, `ElementTokensProofs` | theorems and proofs | |

### CampaignLedger

One action per transaction. A row that does not exist has state `absent`. An
operation that raises is a disabled action, since the transaction rolls back; one
that finds its work already done (same key, same content) is a stuttering step.
Amounts are small numbers; identities are row numbers; a freeze reason is what the
code later reads of it, namely whether it names an ambiguous token dispatch and
which. Sums are definitions over the rows, as in the code, not counters. Not
modelled: event rows, JSON of reports, hours and time zones of a billing window (a
window is a set of bills; windows of two groups are disjoint as `overlap` demands).

### CampaignJobs

`JobStep(j)` has one disjunct per controller operation, and `LedgerStep` is every
ledger operation another caller makes. Job `j` of a kind that spends (training,
serving: Modal; research: tokens) owns reservation `j`; this is the GameWorld
contract's rule that a job reserves exactly its provider's resource. `admit_job`'s
guards about candidates and leases are left out (they are in `CandidatePromotion`): the
model admits whatever the code admits and more, so the safety properties shown here do
not depend on them. Two
conventions of the callers are kept as guards: the ledger's own settle is not called
on a job's hold, and a reconciliation plan takes only holds of `billing_pending`
jobs (`gameworld_billing.plan`).

### ProviderWork

What a caller of either adapter may rely on. A job's work is `never` asked for, `asked`
(a create may be on its way), `live` or `gone`, in this order; its worker runs at most
once, and only while the work is live; only work that ran has a result; and a job is
`closed`, its cleanup confirmed, only over work that was never asked for or is gone.
`ModalTraining` maps the phases to the job's row and its sandboxes (`SandboxPhase`),
`FleetClaims` to the row and the claim (`ClaimPhase`); both count executions of the worker
at the provider and read `reported` and `closed` off the row. Two adapters with different
evidence, a sandbox's exit code and an absent claim, implement one promise.

### ModalTraining

The unit of interleaving is one transaction or one provider call. `task[w][j]` is
the program counter and the local variables of process `w` for job `j`: what it
read before an await and uses after it. It is lost in a crash; the tables
`launches`, `work` and the controller's are not. `creating` holds create requests
the provider may still carry out after the caller gave up. `AfterFailure` is where
an exception goes: from a dispatch into its `finally` block, from a cleanup to the
caller, which records the failure and may come back. `CallFails` may happen wherever
the code awaits a provider or may refuse. Prices, scopes, plans and digests only
decide whether a step raises, and so are part of `CallFails`. `AckStores` and
`AckStarts` are the two transactions of `acknowledge`.

### ChampionLine

The promise behind promotion. A candidate is `new`, in its one `trial` (a confirmation
lease is open), then `passed`, `failed` or `spent` (given up without a verdict), then
perhaps `crowned` and perhaps `deposed`. Its `rival` is the champion of the moment at
which the trial began: it is crowned only while that one still is champion, and deposing it
makes that one champion again. `Stage` and `Rival` of `CandidatePromotion` read both off
leases, decisions, promotions and manifests.

### CandidatePromotion

A candidate is a number, given out in the order of registration; 1 is the baseline.
One episode stands for all that an arm (a side of a comparison) has on a split:
`public[c][a]` is arm `a` in the comparison of `c`, `private[l][a]` the same under lease
`l`. An episode is absent, open, or cleaned up and `lost` (no result), `failed` or
`complete`; its own lifecycle is `CampaignJobs`. All other jobs are one `background`
job, because the transactions here ask only whether such a job exists, of which of
three sorts, and which policy a live endpoint serves. The verdict of
`paired_decision`/`factorial_decision` on complete evidence is a free choice, made once
(the code recomputes it from rows that no longer change). The number of leases is not a
bound of the model but the contract's own. Refusals because a reservation is held or
expired are left out: they depend on the ledger and only remove behaviours. The module
stands beside `CampaignJobs` rather than above it, since the product of the two is out
of TLC's reach.

### FleetClaims

The same two processes and the same unit of interleaving as in `ModalTraining`, over the
desktop adapter, which keeps its evidence in files. `exclusive_write` is two steps, create
and write, so a reader in between, and everyone after a crash in between, finds a torn
file. A job has at most one claim at a time because its name is a function of the job;
the claim reference file is one too, and so its content is not modelled. Receipts carry
their own time of checking: no two are equal, which is what makes the second release's
choice of receipt matter.

### SessionContract and DriverSessions

A thread of `DriverSessions` is a program counter and its locals; each action is one
critical section or one callback outside every lock. Clients run tool calls and
start/end tools, keepers the idle sweep, `end_sessions_for_owner` and revoke-all. Where
the code takes a second mutex inside the first (tombstones, then records) both accesses
are one action; where it drops the first, they are two (`ForgetActivity`/`Mark`,
`SweepRecords`/`SweepActivity`, `Bind`/`BindInsert` with the scope mutex held across).
Sessions are the runtime-private ids the dispatcher derives; `"default"` and labels are
left out. Activity is fresh or stale, since the code compares it with one TTL. `torn` and
`recycled` are history for the properties. `SessionContract` knows only phases and
holders: an id is unknown, live for one transport, or ended, and only the same transport
may start it again. The refinement maps a live record to `live`, a tombstone to `ended`.

### ElementTokens

A walk of an accessibility tree is a number that stands for the elements it found.
`caches` says which walk is cached for a window and `refs` is, for each element, the
balance of its AddRefs and Releases, so that "freed while in use" is a balance below one
while somebody holds it. A click gives back what it took (`InvokeAndRelease`: the patterns
of a plain click, an expansion that succeeds or fails as such, an MSAA element), with one
exception: action `"expand"` on an element without ExpandCollapsePattern returns between
`from_raw` and `mem::forget` and releases twice (`ExpandUnavailable`, impl_.rs 3271-3285).
`overdrawn` is history: how often that has happened to an element. An element whose balance
reaches zero is destroyed and any further use of it undefined; the model does not stop there
but goes on counting calls, so that a balance may be negative, and claims nothing of such an
element. A click that looks its element up a second time for the point at which it is
posted (`resolve_onscreen_point_with_scroll`) retains and releases once more; that is what
another click would do. The
registry and the cache have a lock each: `UpdateCache`, `MintSnapshot` and
`RegisterSnapshot` are three steps of one `get_window_state`, and `Click`, `Aim` and
`RetainElement` three of one click. One application is modelled, since lanes and caches of
two applications share only the counter, as those of two runtimes do. The id counter has
`IdSpace` values and a behaviour ends before it wraps (the code's has 2^32).

## 3. Runs

| run | properties | what it shows |
|---|---|---|
| `LedgerLifecycle` | `TypeOK`, `LedgerSound`, `AccountingBalances`, `BillsCountedOnce`, `AccountedUsageIsFinal` | two holds, two bills, two groups: allowances hold or the campaign is frozen; a bill counts once; the report adds up; accounted usage never returns and only a settlement refunds |
| `JobsLifecycle` | `JobsTypeOK`, `SlotsRespected`, `HoldsFollowJobs`, `RefundsAreForWorkThatNeverRan`, `JobsOnlyAdvance` | two jobs of three kinds with a bill, a group and the token migration |
| `ModalLifecycle` | `ModalTypeOK`, `OneSandbox`, `JournalsAgree`, `KeepsProvision`, `AcknowledgedWorkIsCleaned` | one job, two processes, two crashes |
| `ModalCrash` | `RecordedSandboxIsCleaned` (violated) | finding 1 |
| `FleetLifecycle` | `FleetTypeOK`, `ClaimProvedGone`, `ReceiptIsTheFile`, `KeepsProvision`, `AcknowledgedClaimsAreReleased` | one desktop job, two processes, two crashes, torn files |
| `PromotionLifecycle` | `PromotionTypeOK`, `OneChampion`, `PromotionsLeadToChampion`, `PromotedOnEvidence`, `ConfirmedOnce`, `PrivateRunsAlone`, `RolledBackStaysOut`, `KeepsChampionLine` | a baseline, two challengers, two confirmations, one sealed use |
| `PromotionJoint` | `OpenWorkIsForLiveCandidates` | a driver, a model and their joint candidate |
| `PromotionComparison` | `ComparisonsCanComplete` (violated) | finding 2 |
| `SessionsLifecycle` | `SessionsTypeOK`, `DeferredEndHasAGuard`, `RunningIsRun`, `PolicyEndsWithSession`, `FirstCleanupExact`, `KeepsContract` | one id, two transports, two clients and a keeper at every lock |
| `SessionsLiveness` | `DeferredEndHappens` | a deferred end is carried out |
| `TokensLifecycle` | `TokensTypeOK`, `TokenNamesItsSnapshot`, `OnlyExpandsOverdraw`, `ShutdownForgets` | two callers, two runtimes, two windows, a lane of one, two unavailable expansions: an element loses no reference of a holder but to one of those |
| `TokensStale` | `TokenHitsItsSnapshot` (violated) | finding 3 |

`KeepsProvision`, `KeepsContract` and `KeepsChampionLine` are refinements, with the
abstract specification as the property. `KeepsProvision` contains what `WorkerOnce`,
`CleanupIsProof` and `FleetWorkerOnce` say of a single state; these are no longer checked
by a run, and stay as definitions with a theorem each.

**Bounds.** *Ledger*: limits are 3 in total and 2 for normal work, amounts 1 and 2, costs 0
and 3: a cost may fall below and exceed its hold, two holds exhaust the allowance and a
third does not fit. `MaxTime` lets a hold expire and the campaign end. Two groups over two
bills suffice for every overlap between groups and history. *Jobs*: two jobs with one
training slot make an admission that must wait and a retention that must tell the group's
jobs from another. *Modal, Fleet*: one job, since jobs share nothing there but the slot and
the allowance, which the jobs' run covers; room for two sandboxes, so that a second one
could be created; two receipts, so that two releases differ. `MaxCrashes` is 2: one crash
to be recovered from and one during that recovery. *Promotion*: two challengers let one be
retired by the other's promotion, be its child, or follow it after a rollback; the joint
run needs three, one desktop slot, and episodes that complete (the pairs' run has the
failing ones). *Sessions*: every lock is per map and every operation looks at one id, so
one id shows their interleavings; two transports, so that a foreign one can interfere; two
clients and a keeper, for an end racing a start racing a call; one hook, which may fail.
*Tokens*: two callers race, a third call finds what they left; three walks give an old, a
replaced and a new snapshot; a lane of one evicts at once. A walk finds one element or
none, since every step touches one index of a walk or all of them alike. `MaxOverdraws` is 2
in `TokensLifecycle`, so that one element can lose the cache's reference and a click's, or
two elements one each; 0 in `TokensStale`, whose finding needs none. Deadlock is checked where
nothing may stop (sessions) and not where a system rests when its clock, rows or walks
are used up.

**Fairness** (`TerminationFairness` and `ReleaseFairness`, for `AcknowledgedWorkIsCleaned`,
`AcknowledgedClaimsAreReleased` and `RecordedSandboxIsCleaned`). Weak fairness on what a
living process does next, since every provider call has a timeout (`asyncio.wait_for`) and a
coroutine otherwise runs to its end; weak fairness on the watchdog's picking up of due work,
which it polls every 15 seconds and after a restart; strong fairness on the success of the
calls the watchdog repeats (lookup, terminate, inspect): a provider that never answers again
is no statement about this code. The runner need not take up anything. Crashes are finite by
`MaxCrashes`, and a crashed process may be restarted at any time.
`AcknowledgedClaimsAreReleased` makes one exception: a crash inside `exclusive_write` leaves
a torn receipt that every later release raises on (`TornReceiptsStay`). `Fairness` of
`DriverSessions`, for `DeferredEndHappens`, is weak fairness of every thread that has begun
something: threads are scheduled, and a guard is dropped because platform calls return and
`Drop` runs on every way out. Nobody is obliged to begin a call, a sweep or a revocation.

## 4. Findings

With a run that TLC refutes:

1. *A crash inside `acknowledge` defeats the watchdog* (`ModalCrash`). The sandbox is
   recorded, the job is still `dispatching`; `terminate` neither looks it up again nor
   may request its cleanup, so the sandbox runs until the provider's own timeout and
   the slot is never freed. `OrphansStay` proves the last for every number of jobs and
   crashes once the campaign is stopped, and `AcknowledgementsCompleteUnlessCrashed` that
   only a crash brings a job there.
2. *A promoted champion cannot be challenged* (`PromotionComparison`). Admission refuses
   the champion's side of every later comparison, so no second generation is ever
   nominated. `NoSecondGeneration` proves it of every campaign: whoever is decided upon has
   the baseline as parent, and no two promotions are active together, although
   `PromotionsLeadToChampion` is stated for chains of any length.
3. *A click may hit an element of a newer snapshot* (`TokensStale`). The element cache is
   replaced before the window's older tokens are invalidated, and a click looks its index
   up again after the pointer's glide; the comments of `element_token.rs` promise that
   such a token is stale. `SpacedClicksHit` proves where this ends: while no two calls meet
   on one window of a runtime, every click hits what its client was shown.

Seen while modelling, in behaviours the models contain, without a run of their own:

- *An expansion that is not available releases its element twice.* The error path of
  click's action `"expand"` (impl_.rs 3278-3280) drops both the retained element and the
  second owner made of it before `forget` (3285), two Releases for one AddRef: the reference
  that goes is the cached snapshot's (`ExpandUnavailable`). `uia/cache.rs` (21-26, 40)
  promises that a retained element stays alive even if its snapshot is replaced; when
  another click holds the element and its window is walked again, nothing keeps it. Without
  a second click the cached element is destroyed at once and the next use of its token
  reads freed memory. `ExpandsAloneOverdraw` proves that references are lost in no other
  way the model has, one to each such expansion, and `UnexpandedStayAlive` that an element
  on which none was tried stays alive while it is held. Two tools outside the model have
  the same fault: `scroll` (uia/scroll.rs 138-161: `scroll_element` returns before `forget`
  when the pattern, the direction or the scrolling fails) and `set_value` (impl_.rs
  5627-5665: a RangeValuePattern whose value does not parse or whose SetValue fails). The
  other users of `get_element_retained` (type_text, focus, the double click of WinUI)
  forget on every path.
- *A second freeze hides an incident.* `freeze` overwrites the reason
  (campaign_ledger.py:281); `remove_token_budget` then takes it for a token-only freeze
  and clears it, although docs/CAMPAIGN_ACCOUNTING.md says Modal incidents stay frozen.
- *The token migration strands live research jobs.* `remove_token_budget` retires their
  hold (campaign_ledger.py:153), after which no operation can close them: their slot is
  taken for good (`MigratedJobsNeverClose`).
- *Two terminations disagree on the receipt.* The second write replaces the journal's
  receipt (modal_training.py:267), which then differs from the one the job was closed
  with, and later calls of `terminate` raise.
- *A late decision revives a retired candidate.* The decisions write `candidates.state`
  without reading it (campaign_controller.py:997, 1034, 565).
- *A revival may run beside another thread's cleanup.* A start that read the tombstone
  just after it was set finds no cleanup progress, takes that for complete (session.rs:1195)
  and revives the id; the ending thread then clears its policy and runs its hooks on the
  live session, although the doc of session.rs:590-597 has cleanup finish first. This is
  why `FirstCleanupExact` speaks of an id's first life.
- *Idle eviction may take a session whose call was just admitted.* The decision of
  `end_session_with_reason` is made under the records' lock and carried out after it
  (session.rs:1453-1466), although the doc of the guard (375-376) says eviction cannot end
  the session while it is alive.

## 5. Proofs

`tlapm` proves, for every number of jobs, reservations, bills and groups and every
limit, and every number of candidates and leases, from the named assumptions on the
constants (`PromotionAssumption`, `CountsAssumption`,
`AmountsAssumption`, `LimitsAssumption`, `ReceiptsAssumption`, `JobsAssumption`,
`SettlementsAssumption`; `TrainingAssumption`, that training is among the admitted kinds
and receipts are numbers other than 0; `FleetAssumption`, that receipts are numbers other
than 0 and that there is an amount to reserve; `DriverConstants` for any number of sessions, transports,
threads and hooks; `TokenConstants` for finitely many callers, runtimes and windows and
any number of elements, walks and ids):

- `TableSumProofs`: a sum of naturals is natural, is monotone, splits, and changes with
  one row by that row's change. Sums are recursive functions on `0..n`; the induction is
  over sets of row numbers (`SetInduction`, from the well-foundedness of `<` on the
  naturals).
- `CampaignLedgerProofs`: `LedgerTypeOK`; `LedgerIsSound`, the inductive invariant. That
  an unfrozen campaign is within its limits is not inductive by itself: settling and
  reconciling must know that no unfrozen row was overrun (`NoUnfrozenOverrun`), and the
  token migration, which may unfreeze, needs to know that shutdown holds were capped
  even while frozen (`ShutdownHoldsCapped`). From it `AllowanceAlwaysRespected` and
  `ShutdownReserveAlwaysKept`. The second invariant, `BillingIsSound`, says that a group's
  observed cost is the sum of its rows, that its excess follows from it, and that the floors
  of all groups together are what the reconciled holds still charge (`GroupFit`,
  `RetainedFit`; a first reconciliation moves the same amounts from rows to floor). From it
  `BillsAlwaysCountedOnce`; `AccountingAlwaysBalances`, row by row and group by group and
  then summed; and `AccountedUsageNeverReturns`, since no operation but a settlement lets a
  row charge less (`UsageOnlyGrows`), and a group's greatest costs, hence its excess, only
  rise.
- `CampaignJobsProofs`: `JobsTypeCorrect`; `JobsImplementLedger`, that the controller
  implements the ledger's specification (every operation maps to one ledger transaction
  or a stutter), whence `CampaignAllowanceRespected`; `JobLifecycleRunsOneWay`;
  `SlotsAlwaysRespected`, by counting a group's occupants before and after admission;
  `RefundsOnlyForWorkThatNeverRan`, strengthened with what each state records of its
  work; `HoldsAlwaysFollowJobs`. By the refinement the ledger's other theorems hold of the
  controller too (`CampaignAccountsKept`). `MigratedJobsNeverClose` joins two of these
  results: a retired hold stays retired (accounted usage is final), and no job with such a
  hold is closed (holds follow jobs).
- `ModalTrainingProofs`: `TrainingImplementsJobs`, the refinement of `CampaignJobs` by the
  two processes, whence `TrainingRespectsCampaign` (allowances and slots hold whatever they
  do); `OneSandboxPerJob`, `CleanupIsAlwaysProof`, `WorkerRunsOnce`, `JournalsAlwaysAgree`
  and `TrainingTypeCorrect`, for any number of jobs, sandboxes and crashes. All rest on
  `TrainingInv`. Its core is what a process may rely on between two of its steps
  (`FitTask`): a process that holds a sandbox holds the job's own, one past the journalling
  finds it journalled, and the one about to send a create knows that none was sent and none
  exists. `OtherTaskFits` shows that no step of the other process, of the provider or of a
  crash takes that away (`NothingLost`): only the runner submits and executes, sandboxes
  never change owner, and journal entries are never removed. The rest relates a job's rows
  to the provider: a job not yet dispatched has no sandbox and no open create, an open
  create means no sandbox yet (`SandboxFit`), and a receipt is for a recorded sandbox that
  ended (`JournalFit`). The refinement needs it too, since a provider identity taken from
  memory must be a real one when it reaches `provider_started`. `TrainingKeepsAccounts`
  carries the controller's and the ledger's results over to the two processes.
  `TrainingKeepsProvision` is the refinement of `ProviderWork`: every step changes what the
  abstraction shows of at most one job (`OneJobProvides`; `SameProvision` for the others),
  and for that job it is one abstract action (`Provides`), action by action.
  `AcknowledgementsCompleteUnlessCrashed` is inductive with one more fact: a process about
  to record the sandbox of a job it did not find dispatching knows a job already past it
  (`AckInv`). `OrphansStay` shows that no process outside the steps of a dispatch
  (`Escapes`) comes back into them for a stopped campaign's recorded sandbox.
- `FleetClaimsProofs`: `FleetImplementsJobs`, the same refinement for desktop jobs, whence
  `FleetRespectsCampaign`; `ClaimIsProvedGone`, `ReceiptIsAlwaysTheFile`,
  `FleetWorkerRunsOnce` and `FleetTypeCorrect`, all from `FleetInv`. What makes an absent
  claim proof is that each job sends one create, from `dispatching` and before it has a
  claim (`RunnerFit`), so a claim that was ever made and is gone cannot come back (`Over`);
  that is why `release` may take absence as proof for every state but `dispatching`
  (`ReleaseFit`). A torn receipt already means `Over`, since it is opened only after the
  claim was seen to be gone. That two releases agree needs one writer of a receipt at a
  time (`OneWriter`, from the exclusive creation of the file), and that a whole receipt
  never changes; whoever is about to confirm then has the file's evidence in hand, and the
  refinement needs just that (`ReceiptInHand`). `FleetKeepsAccounts` and
  `FleetKeepsProvision` are what their namesakes are for training; here a claim's absence
  maps to `gone` only because `FleetInv` knows that no create is left that could make it.
  `TornReceiptsStay`: no process comes to write a receipt that exists, so one that nobody
  is writing stays torn, nobody reaches `confirm` with it, and the job keeps its slot.
- `CandidatePromotionProofs`: `PromotionTypeCorrect`; `ChampionIsUnique` and
  `RolledBackIsFinal` from the invariant `ChampionInv`. Decisions, leases, promotions and
  rollbacks write a candidate's state without reading it, so that none of them meets the
  champion, or a former one, must come from elsewhere: whoever was promoted has been
  decided upon (a late decision only repeats itself); an open confirmation lease is for a
  challenger that was never promoted; no two active promotions lead back to the same
  candidate and none to the present champion (a rollback restores one that is in no other
  promotion's way). `PrivateReadAlone`, because one lease is open at a time and its running
  episodes lie in its own schedule, which a decision waits for. `ProtectedSplitUsedOnce`,
  because a candidate whose lease is no longer open is not nominated.
  `PromotedOnlyOnEvidence` follows the evidence from the decision that was based on it
  (`EvidenceOf`): decisions, complete results, closed leases and the manifests that name the
  arms all stay. `PromotionsAlwaysLeadToChampion` needs that identities grow along a line of
  descent (`FamilyFit`, from registration in order): a set of candidates closed under
  children that holds a promoted one and not the champion's parent could then be made to
  miss the champion too (`ParentOfTheLast`), which is the step a rollback takes.
  `OpenWorkIsAlwaysForTheLiving`: what kills a candidate waits for the episodes it may still
  have, because nobody undecided but the baseline is an arm of another's comparison.
  `ControllerKeepsTheLine` is the refinement of `ChampionLine`. It rests on all of the above
  (`LineInv`) and on a decided confirmation's having a closed lease (`TrialInv`); most
  operations leave every candidate's standing alone (`StandingKept`), and that the rest move
  one candidate by one abstract action is shown operation by operation. A promotion crowns
  only over the rival of the trial, since the parent named by the manifest was champion when
  the lease was issued and must still be. `NoSecondGeneration` follows from what admission
  lets into a comparison (`GenerationInv`): arms are the baseline and the candidate itself,
  or belong to a joint comparison, whose parent is the baseline (`ComparedFit`,
  `ClassesFit`), so a decision, which needs both sides complete, is about a child of the
  baseline (`DecidedAgainstBaseline`).

- `DriverSessionsProofs`: `RegistryKeepsContract`, the refinement of `SessionContract`,
  with `LiveXorEnded`, `PolicyIsCleared`, `RunningHasARunner`, `DeferredEndIsGuarded`,
  `FirstCleanupIsExact` and `SessionsTypeCorrect`. The contract alone is not inductive: a
  tombstone's owner must be the transport of the record it replaced, and a thread past an
  owner match must still match (`BuriedFit`, `KnownFit`, `Opened`). `PolicyIsCleared` rests
  on the scope mutex (`MutexFit`: whoever holds it is between reading the tombstone and
  writing, and the clearing waits for it; `ClearAhead`: an ended id with a policy has a
  thread on its way to clear it). `DeferredEndIsGuarded` counts: `in_flight` is the number
  of guards of a live record (`CountFit`), for which the proof follows a finite set of
  threads through insertion and removal. `FirstCleanupIsExact` needs, per id, who installs
  the progress, who runs hooks and what has been torn (`CleanupFit`).

- `ElementTokensProofs`: `ExpandsAloneOverdraw` counts, for each element, the calls and
  the caches that hold it (`RefsFit`): balance and overdrawn releases together are never
  below that number, since a step that adds a holder adds a reference and an unavailable
  expansion takes one from the balance and records it. `UnexpandedStayAlive` follows.
  It needs of the types that a held element is one its walk found (`Typed`). In
  `TokensTypeCorrect` the bound of a lane is proved of the eviction itself: whatever is kept
  is newer than its oldest kept entry, and fewer than the cap are (`EvictionBounds`).
  `TokensNameOneSnapshot` needs ids to be unique among tokens, entries and the calls between
  minting and replying, and all below the counter (`IdsFit`). `ShutdownIsFinal` is inductive
  as it stands. `SpacedClicksHit` assumes `[]OneCallPerWindow`, which the code does not
  enforce: it says what a client gets that waits for its answers and shares its windows with
  nobody. Under it registry and cache agree on every window except while one call is between
  the two (`Fresh`), and that call is then the only one there.

The theorems about `KeepsProvision`, `KeepsContract` and `KeepsChampionLine` are safety
refinements: the abstract specifications state no fairness.

Only model-checked: the three liveness properties (`AcknowledgedWorkIsCleaned`,
`AcknowledgedClaimsAreReleased`, `DeferredEndHappens`), since liveness under fairness is out
of the prover's reach. Every safety and action property of a passing run is proved.

## 6. Not modelled

- The **coordinator's** workflow states, the runner's cycle with its failure gate, the
  **research supervisor**: each step reads results, files and prices to decide what to
  admit next. The models let the environment choose instead, so what is shown of jobs,
  candidates and money does not depend on them; that every workflow ends is not shown.
- **Modal serving**: the same create/terminate protocol as training, with refused
  submissions added. The **billing reconciler's** attempts and retries; what they commit is
  modelled.
- The **evaluation statistics**, training code, registries, images, telemetry: numbers and
  files without control state of their own.
- Of **Fleet claims**: pool preflight and `wait_zero`, which only read and refuse; a crash
  while the claim reference is written (before dispatch, so the job is cancelled).
- Of **cua-driver**: destroying a runtime (its tombstones are forgotten with it),
  authorization policies, recording, consent, history, the platform crates, the command
  line and the transports. The models admit a call whenever these would. The element tokens
  are those of Windows, used by `click`; `type_text`, `set_value` and `scroll` resolve and
  retain as it does and are left out, with two error paths of theirs that section 4 names.
  Raw `element_index` arguments are not covered by any promise.
