--------------------------- MODULE DriverSessions ---------------------------
(***************************************************************************)
(* The session lifecycle of cua-driver (cua-driver-core/src/session.rs with *)
(* the capture policy of capture_scope.rs and the tools that call them).   *)
(*                                                                         *)
(* The registry is a handful of process-global maps, each behind a mutex of*)
(* its own, used by many threads.  A thread is a program counter and a few *)
(* locals; one action is one critical section, or one callback run outside *)
(* every lock.  What happens between two actions of a thread is what the   *)
(* code leaves to the scheduler.                                           *)
(***************************************************************************)
EXTENDS Naturals, FiniteSets

CONSTANTS
  Sessions,      \* runtime-private session ids
  Owners,        \* authenticated transports
  NoOwner,
  Clients,       \* threads that run tool calls
  Keepers,       \* threads that sweep, close transports and revoke
  Policies,      \* capture policies a start may ask for; "auto" is the one to escalate
  Hooks          \* registered cleanup hooks

Threads == Clients \cup Keepers
Reasons == {"explicit", "idle", "exit"}

\* No hook unregisters while sessions run; a thread is one or the other.
ASSUME DriverConstants ==
  /\ IsFiniteSet(Clients) /\ Clients \cap Keepers = {}
  /\ NoOwner \notin Owners
  /\ Policies \subseteq {"window", "auto", "desktop"}

VARIABLES
  owner,        \* LIFECYCLE_RECORDS: the transport of the live record, or NoOwner
  inFlight,     \* its in_flight count
  pendingEnd,   \* its pending_end, or "none"
  tombstones,   \* ENDED_SESSIONS: the ended ids ...
  buriedFor,    \* ... and the owner each tombstone keeps
  activity,     \* SESSION_ACTIVITY: "none", "fresh", or older than the idle TTL
  progress,     \* SESSION_CLEANUP_PROGRESS: ids with cleanup still to do ...
  completed,    \* ... the hooks that succeeded ...
  running,      \* ... and the ids some thread is running hooks for
  scope,        \* SESSION_SCOPES: the capture policy, "unlocked" after escalation
  scopeLock,    \* the thread that holds the scope mutex across two steps
  suspended,    \* SUSPENDED_RUNTIME_SCOPES holds this runtime
  torn,         \* torn[s]: hooks whose subsystem has torn the session down
  recycled,     \* history: ids whose tombstone was ever cleared
  pc, sess,     \* per thread: where it is, and in which session
  via,          \* ... the transport a client's call came through, or NoOwner
  aim,          \* ... what for: "dispatch", "start", "revive" or an end reason
  asks,         \* ... the policy a start asks for, or "none"
  work, won,    \* ... the hooks left to run, and those that succeeded
  batch         \* ... the ids a keeper has still to end

recordVars == <<owner, inFlight, pendingEnd>>
tombVars == <<tombstones, buriedFor>>
cleanupVars == <<progress, completed, running>>
scopeVars == <<scope, scopeLock>>
purpose == <<via, aim, asks>>
localVars == <<work, won, batch>>
vars == <<recordVars, tombVars, activity, cleanupVars, scopeVars, suspended,
          torn, recycled, pc, sess, purpose, localVars>>

PCs == {"idle", "admitted", "touch", "working", "escalate", "returning",
        "activate", "bind", "insert", "announce", "matchTombstone", "decide",
        "forget", "mark", "clear", "install", "retry", "hooks",
        "sweep", "revoke", "batch"}

-----------------------------------------------------------------------------
Live(s) == owner[s] # NoOwner
Ended(s) == s \in tombstones
\* A dispatch guard of s is alive in thread t.
Guarded(t, s) ==
  sess[t] = s /\ \/ pc[t] \in {"working", "escalate", "returning"}
                 \/ pc[t] = "touch" /\ aim[t] = "dispatch"
\* The owner match that lets transport o start the ended id s again.
OwnsTombstone(o, s) == buriedFor[s] = o \/ (buriedFor[s] = NoOwner /\ o = s)

GoTo(t, label) == pc' = [pc EXCEPT ![t] = label]
GoOn(t, label) == GoTo(t, label) /\ UNCHANGED purpose
\* A thread that is through with one id takes the next one of its batch.
Finish(t) ==
  /\ GoTo(t, IF batch[t] = {} THEN "idle" ELSE "batch")
  /\ via' = [via EXCEPT ![t] = NoOwner]
  /\ aim' = [aim EXCEPT ![t] = IF batch[t] = {} THEN "explicit" ELSE @]
  /\ asks' = [asks EXCEPT ![t] = "none"]

\* What scope[s] and a requested policy must be to name the same policy.
SamePolicy(held, requested) ==
  held = requested \/ (held = "unlocked" /\ requested = "auto")

Init ==
  /\ owner = [s \in Sessions |-> NoOwner]
  /\ inFlight = [s \in Sessions |-> 0]
  /\ pendingEnd = [s \in Sessions |-> "none"]
  /\ tombstones = {}
  /\ buriedFor = [s \in Sessions |-> NoOwner]
  /\ activity = [s \in Sessions |-> "none"]
  /\ progress = {}
  /\ completed = [s \in Sessions |-> {}]
  /\ running = {}
  /\ scope = [s \in Sessions |-> "none"]
  /\ scopeLock = {}
  /\ suspended = FALSE
  /\ torn = [s \in Sessions |-> {}]
  /\ recycled = {}
  /\ pc = [t \in Threads |-> "idle"]
  /\ sess \in [Threads -> Sessions]
  /\ via = [t \in Threads |-> NoOwner]
  /\ aim = [t \in Threads |-> "explicit"]
  /\ asks = [t \in Threads |-> "none"]
  /\ work = [t \in Threads |-> {}]
  /\ won = [t \in Threads |-> {}]
  /\ batch = [t \in Threads |-> {}]

-----------------------------------------------------------------------------
(* A tool call that needs a session: invoke_authorized.                    *)

\* The early refusals, then consent and grants, which may await the user.
Admit(t, o, s) ==
  /\ pc[t] = "idle"
  /\ ~suspended
  /\ ~Ended(s)
  /\ GoTo(t, "admitted")
  /\ sess' = [sess EXCEPT ![t] = s]
  /\ via' = [via EXCEPT ![t] = o]
  /\ aim' = [aim EXCEPT ![t] = "dispatch"]
  /\ UNCHANGED asks
  /\ UNCHANGED <<recordVars, tombVars, activity, cleanupVars, scopeVars,
                 suspended, torn, recycled, localVars>>

\* Mutant: only the record is looked at.
BeginWithoutTombstone(t) ==
  LET s == sess[t]
      o == via[t]
      refused == owner[s] \notin {o, NoOwner} \/ pendingEnd[s] # "none"
  IN
  /\ pc[t] = "admitted"
  /\ \/ /\ refused
        /\ Finish(t)
        /\ UNCHANGED <<owner, inFlight>>
     \/ /\ ~refused
        /\ owner' = [owner EXCEPT ![s] = o]
        /\ inFlight' = [inFlight EXCEPT ![s] = @ + 1]
        /\ GoOn(t, "touch")
  /\ UNCHANGED <<pendingEnd, tombVars, activity, cleanupVars, scopeVars,
                 suspended, torn, recycled, sess, localVars>>

\* Mutant: calls are admitted to a session that was asked to end.
BeginDespitePendingEnd(t) ==
  LET s == sess[t]
      o == via[t]
      refused == Ended(s) \/ owner[s] \notin {o, NoOwner}
  IN
  /\ pc[t] = "admitted"
  /\ \/ /\ refused
        /\ Finish(t)
        /\ UNCHANGED <<owner, inFlight>>
     \/ /\ ~refused
        /\ owner' = [owner EXCEPT ![s] = o]
        /\ inFlight' = [inFlight EXCEPT ![s] = @ + 1]
        /\ GoOn(t, "touch")
  /\ UNCHANGED <<pendingEnd, tombVars, activity, cleanupVars, scopeVars,
                 suspended, torn, recycled, sess, localVars>>

\* begin_session_dispatch: the tombstone and the record under one lock order.
Begin(t) ==
  LET s == sess[t]
      o == via[t]
      refused == Ended(s) \/ owner[s] \notin {o, NoOwner} \/ pendingEnd[s] # "none"
  IN
  /\ pc[t] = "admitted"
  /\ \/ /\ refused
        /\ Finish(t)
        /\ UNCHANGED <<owner, inFlight>>
     \/ /\ ~refused
        /\ owner' = [owner EXCEPT ![s] = o]
        /\ inFlight' = [inFlight EXCEPT ![s] = @ + 1]
        /\ GoOn(t, "touch")
  /\ UNCHANGED <<pendingEnd, tombVars, activity, cleanupVars, scopeVars,
                 suspended, torn, recycled, sess, localVars>>

\* The activity map has a lock of its own, taken after the record's.
Touch(t) ==
  /\ pc[t] = "touch"
  /\ activity' = [activity EXCEPT ![sess[t]] = "fresh"]
  /\ GoTo(t, IF aim[t] = "dispatch" THEN "working" ELSE "bind")
  /\ UNCHANGED <<recordVars, tombVars, cleanupVars, scopeVars, suspended, torn,
                 recycled, sess, purpose, localVars>>

\* The escalate_session tool, inside its own dispatch.  The tombstone is read
\* while the scope mutex is held.
Escalate(t) ==
  LET s == sess[t] IN
  /\ pc[t] = "working"
  /\ owner[s] = via[t]
  /\ scopeLock = {}
  /\ ~Ended(s)
  /\ scope[s] = "auto"
  /\ scopeLock' = {t}
  /\ GoTo(t, "escalate")
  /\ UNCHANGED <<recordVars, tombVars, activity, cleanupVars, scope, suspended,
                 torn, recycled, sess, purpose, localVars>>

Unlock(t) ==
  /\ pc[t] = "escalate"
  /\ scope' = [scope EXCEPT ![sess[t]] = "unlocked"]
  /\ scopeLock' = {}
  /\ GoTo(t, "returning")
  /\ UNCHANGED <<recordVars, tombVars, activity, cleanupVars, suspended, torn,
                 recycled, sess, purpose, localVars>>

\* Mutant: the count is decremented without saturating.
DropGuardUnsaturated(t) ==
  LET s == sess[t]
      left == inFlight[s] - 1
      ends == left = 0 /\ pendingEnd[s] # "none"
  IN
  /\ pc[t] \in {"working", "returning"}
  /\ \/ /\ ~Live(s)
        /\ Finish(t)
        /\ UNCHANGED <<inFlight, pendingEnd, activity>>
     \/ /\ Live(s)
        /\ inFlight' = [inFlight EXCEPT ![s] = left]
        /\ activity' = [activity EXCEPT ![s] = "fresh"]
        /\ \/ /\ ends
              /\ pendingEnd' = [pendingEnd EXCEPT ![s] = "none"]
              /\ GoTo(t, "forget")
              /\ aim' = [aim EXCEPT ![t] = pendingEnd[s]]
              /\ UNCHANGED <<via, asks>>
           \/ /\ ~ends
              /\ Finish(t)
              /\ UNCHANGED pendingEnd
  /\ UNCHANGED <<owner, tombVars, cleanupVars, scopeVars, suspended, torn,
                 recycled, sess, localVars>>

\* SessionDispatchGuard::drop: the last guard carries out a deferred end.
DropGuard(t) ==
  LET s == sess[t]
      left == IF inFlight[s] = 0 THEN 0 ELSE inFlight[s] - 1
      ends == left = 0 /\ pendingEnd[s] # "none"
  IN
  /\ pc[t] \in {"working", "returning"}
  /\ \/ /\ ~Live(s)
        /\ Finish(t)
        /\ UNCHANGED <<inFlight, pendingEnd, activity>>
     \/ /\ Live(s)
        /\ inFlight' = [inFlight EXCEPT ![s] = left]
        /\ activity' = [activity EXCEPT ![s] = "fresh"]
        /\ \/ /\ ends
              /\ pendingEnd' = [pendingEnd EXCEPT ![s] = "none"]
              /\ GoTo(t, "forget")
              /\ aim' = [aim EXCEPT ![t] = pendingEnd[s]]
              /\ UNCHANGED <<via, asks>>
           \/ /\ ~ends
              /\ Finish(t)
              /\ UNCHANGED pendingEnd
  /\ UNCHANGED <<owner, tombVars, cleanupVars, scopeVars, suspended, torn,
                 recycled, sess, localVars>>

-----------------------------------------------------------------------------
(* start_session: activate_or_revive_session_for_owner and bind_session.   *)

\* A policy the session does not have is refused at once, and so is a foreign
\* tombstone; an ended id first needs its cleanup.
Start(t, o, s, requested) ==
  /\ pc[t] = "idle"
  /\ ~suspended
  /\ "none" \in {requested, scope[s]} \/ SamePolicy(scope[s], requested)
  /\ Ended(s) => OwnsTombstone(o, s)
  /\ GoTo(t, IF Ended(s) THEN "retry" ELSE "activate")
  /\ sess' = [sess EXCEPT ![t] = s]
  /\ via' = [via EXCEPT ![t] = o]
  /\ aim' = [aim EXCEPT ![t] = "start"]
  /\ asks' = [asks EXCEPT ![t] = requested]
  /\ UNCHANGED <<recordVars, tombVars, activity, cleanupVars, scopeVars,
                 suspended, torn, recycled, work, won, batch>>

\* Mutant: the owner is trusted from the check before the cleanup.
ActivateUnmatched(t) ==
  LET s == sess[t]
      o == via[t]
      refused == \/ owner[s] \notin {o, NoOwner}
                 \/ pendingEnd[s] # "none"
  IN
  /\ pc[t] = "activate"
  /\ \/ /\ refused
        /\ Finish(t)
        /\ UNCHANGED <<owner, tombVars, recycled>>
     \/ /\ ~refused
        /\ owner' = [owner EXCEPT ![s] = o]
        /\ tombstones' = tombstones \ {s}
        /\ buriedFor' = [buriedFor EXCEPT ![s] = NoOwner]
        /\ recycled' = IF Ended(s) THEN recycled \cup {s} ELSE recycled
        /\ aim' = [aim EXCEPT ![t] = IF Ended(s) THEN "revive" ELSE "start"]
        /\ GoTo(t, "touch")
        /\ UNCHANGED <<via, asks>>
  /\ UNCHANGED <<inFlight, pendingEnd, activity, cleanupVars, scopeVars,
                 suspended, torn, sess, localVars>>

\* The owner again, then the record and the tombstone under one lock order.
Activate(t) ==
  LET s == sess[t]
      o == via[t]
      refused == \/ Ended(s) /\ ~OwnsTombstone(o, s)
                 \/ owner[s] \notin {o, NoOwner}
                 \/ pendingEnd[s] # "none"
  IN
  /\ pc[t] = "activate"
  /\ \/ /\ refused
        /\ Finish(t)
        /\ UNCHANGED <<owner, tombVars, recycled>>
     \/ /\ ~refused
        /\ owner' = [owner EXCEPT ![s] = o]
        /\ tombstones' = tombstones \ {s}
        /\ buriedFor' = [buriedFor EXCEPT ![s] = NoOwner]
        /\ recycled' = IF Ended(s) THEN recycled \cup {s} ELSE recycled
        /\ aim' = [aim EXCEPT ![t] = IF Ended(s) THEN "revive" ELSE "start"]
        /\ GoTo(t, "touch")
        /\ UNCHANGED <<via, asks>>
  /\ UNCHANGED <<inFlight, pendingEnd, activity, cleanupVars, scopeVars,
                 suspended, torn, sess, localVars>>

\* Where a start goes once its capture policy is settled.
Bound(t) ==
  \/ /\ aim[t] = "revive"
     /\ GoOn(t, "announce")
  \/ /\ aim[t] = "start"
     /\ Finish(t)

\* Mutant: the tombstone is not read under the mutex.
BindUnchecked(t) ==
  LET s == sess[t]
      keeps == asks[t] = "none" \/ (~Ended(s) /\ SamePolicy(scope[s], asks[t]))
      adds == scope[s] = "none"
  IN
  /\ pc[t] = "bind"
  /\ asks[t] = "none" \/ scopeLock = {}
  /\ \/ keeps /\ Bound(t) /\ UNCHANGED scopeLock
     \/ /\ ~keeps /\ adds
        /\ scopeLock' = {t}
        /\ GoOn(t, "insert")
     \/ ~keeps /\ ~adds /\ Finish(t) /\ UNCHANGED scopeLock
  /\ UNCHANGED <<recordVars, tombVars, activity, cleanupVars, scope, suspended,
                 torn, recycled, sess, localVars>>

\* bind_session up to the insertion, which it makes still holding the mutex; a
\* start that asks for no policy leaves the session's alone.
Bind(t) ==
  LET s == sess[t]
      keeps == asks[t] = "none" \/ (~Ended(s) /\ SamePolicy(scope[s], asks[t]))
      adds == ~Ended(s) /\ scope[s] = "none"
  IN
  /\ pc[t] = "bind"
  /\ asks[t] = "none" \/ scopeLock = {}
  /\ \/ keeps /\ Bound(t) /\ UNCHANGED scopeLock
     \/ /\ ~keeps /\ adds
        /\ scopeLock' = {t}
        /\ GoOn(t, "insert")
     \/ ~keeps /\ ~adds /\ Finish(t) /\ UNCHANGED scopeLock
  /\ UNCHANGED <<recordVars, tombVars, activity, cleanupVars, scope, suspended,
                 torn, recycled, sess, localVars>>

BindInsert(t) ==
  /\ pc[t] = "insert"
  /\ scope' = [scope EXCEPT ![sess[t]] = asks[t]]
  /\ scopeLock' = {}
  /\ Bound(t)
  /\ UNCHANGED <<recordVars, tombVars, activity, cleanupVars, suspended, torn,
                 recycled, sess, localVars>>

\* fire_session_revive_for_owner: the subsystems drop their own tombstones,
\* only while the revived episode is live, under the tombstone lock.
Announce(t) ==
  LET s == sess[t]
      stands == ~Ended(s) /\ owner[s] = via[t] /\ pendingEnd[s] = "none"
  IN
  /\ pc[t] = "announce"
  /\ torn' = IF stands THEN [torn EXCEPT ![s] = {}] ELSE torn
  /\ Finish(t)
  /\ UNCHANGED <<recordVars, tombVars, activity, cleanupVars, scopeVars,
                 suspended, recycled, sess, localVars>>

-----------------------------------------------------------------------------
(* Ending: end_session_with_reason and finish_session_end.                 *)

\* The end_session tool: session_owner_matches reads the record ...
EndTool(t, o, s) ==
  /\ pc[t] = "idle"
  /\ ~suspended
  /\ GoTo(t, IF owner[s] = o THEN "decide" ELSE "matchTombstone")
  /\ sess' = [sess EXCEPT ![t] = s]
  /\ via' = [via EXCEPT ![t] = o]
  /\ UNCHANGED <<recordVars, tombVars, activity, cleanupVars, scopeVars,
                 suspended, torn, recycled, aim, asks, localVars>>

\* ... and, when that is not its own, the tombstone under the other lock.
MatchTombstone(t) ==
  /\ pc[t] = "matchTombstone"
  /\ \/ /\ Ended(sess[t]) /\ buriedFor[sess[t]] = via[t]
        /\ GoOn(t, "decide")
     \/ /\ ~(Ended(sess[t]) /\ buriedFor[sess[t]] = via[t])
        /\ Finish(t)
  /\ UNCHANGED <<recordVars, tombVars, activity, cleanupVars, scopeVars,
                 suspended, torn, recycled, sess, localVars>>

\* Mutant: any live session defers its end.
DecideByRecord(t) ==
  LET s == sess[t] IN
  /\ pc[t] = "decide"
  /\ \/ /\ Live(s)
        /\ pendingEnd' = [pendingEnd EXCEPT ![s] = IF @ = "none" THEN aim[t] ELSE @]
        /\ Finish(t)
     \/ /\ ~(Live(s))
        /\ GoOn(t, "forget")
        /\ UNCHANGED pendingEnd
  /\ UNCHANGED <<owner, inFlight, tombVars, activity, cleanupVars, scopeVars,
                 suspended, torn, recycled, sess, localVars>>

\* A session with calls in flight is only asked to end; the first reason stays.
Decide(t) ==
  LET s == sess[t] IN
  /\ pc[t] = "decide"
  /\ \/ /\ Live(s) /\ inFlight[s] > 0
        /\ pendingEnd' = [pendingEnd EXCEPT ![s] = IF @ = "none" THEN aim[t] ELSE @]
        /\ Finish(t)
     \/ /\ ~(Live(s) /\ inFlight[s] > 0)
        /\ GoOn(t, "forget")
        /\ UNCHANGED pendingEnd
  /\ UNCHANGED <<owner, inFlight, tombVars, activity, cleanupVars, scopeVars,
                 suspended, torn, recycled, sess, localVars>>

\* mark_session_ended: the activity entry under its own lock ...
ForgetActivity(t) ==
  /\ pc[t] = "forget"
  /\ activity' = [activity EXCEPT ![sess[t]] = "none"]
  /\ GoTo(t, "mark")
  /\ UNCHANGED <<recordVars, tombVars, cleanupVars, scopeVars, suspended, torn,
                 recycled, sess, purpose, localVars>>

\* ... then the record out and the tombstone in.  Only the first end goes on to
\* set up the cleanup; a repeated one goes straight to the retry.
Mark(t) ==
  LET s == sess[t] IN
  /\ pc[t] = "mark"
  /\ owner' = [owner EXCEPT ![s] = NoOwner]
  /\ inFlight' = [inFlight EXCEPT ![s] = 0]
  /\ pendingEnd' = [pendingEnd EXCEPT ![s] = "none"]
  /\ tombstones' = tombstones \cup {s}
  /\ buriedFor' = [buriedFor EXCEPT ![s] = IF Ended(s) THEN @ ELSE owner[s]]
  /\ GoTo(t, IF Ended(s) THEN "retry" ELSE "clear")
  /\ UNCHANGED <<activity, cleanupVars, scopeVars, suspended, torn, recycled,
                 sess, purpose, localVars>>

\* initialize_session_cleanup: the capture policy goes ...
ClearScope(t) ==
  /\ pc[t] = "clear"
  /\ scopeLock = {}
  /\ scope' = [scope EXCEPT ![sess[t]] = "none"]
  /\ GoTo(t, "install")
  /\ UNCHANGED <<recordVars, tombVars, activity, cleanupVars, scopeLock,
                 suspended, torn, recycled, sess, purpose, localVars>>

\* ... and every registered hook is listed as still to run.
InstallProgress(t) ==
  LET s == sess[t] IN
  /\ pc[t] = "install"
  /\ progress' = progress \cup {s}
  /\ completed' = [completed EXCEPT ![s] = {}]
  /\ running' = running \ {s}
  /\ GoTo(t, "retry")
  /\ UNCHANGED <<recordVars, tombVars, activity, scopeVars, suspended, torn,
                 recycled, sess, purpose, localVars>>

\* What a retry reports decides a start; an end is over either way.
Report(t, complete) ==
  \/ /\ aim[t] = "start" /\ complete
     /\ GoOn(t, "activate")
  \/ /\ ~(aim[t] = "start" /\ complete)
     /\ Finish(t)

\* Mutant: a cleanup that is running is joined.
RetryBeginTogether(t) ==
  LET s == sess[t] IN
  /\ pc[t] = "retry"
  /\ \/ /\ s \notin progress
        /\ Report(t, TRUE)
        /\ UNCHANGED <<running, work, won>>
     \/ /\ s \in progress
        /\ running' = running \cup {s}
        /\ work' = [work EXCEPT ![t] = Hooks \ completed[s]]
        /\ won' = [won EXCEPT ![t] = {}]
        /\ GoOn(t, "hooks")
  /\ UNCHANGED <<recordVars, tombVars, activity, progress, completed, scopeVars,
                 suspended, torn, recycled, sess, batch>>

\* retry_session_cleanup up to the unlock: nothing to do, already running, or
\* this thread takes the hooks that have not succeeded yet.
RetryBegin(t) ==
  LET s == sess[t] IN
  /\ pc[t] = "retry"
  /\ \/ /\ s \notin progress
        /\ Report(t, TRUE)
        /\ UNCHANGED <<running, work, won>>
     \/ /\ s \in progress /\ s \in running
        /\ Report(t, FALSE)
        /\ UNCHANGED <<running, work, won>>
     \/ /\ s \in progress /\ s \notin running
        /\ running' = running \cup {s}
        /\ work' = [work EXCEPT ![t] = Hooks \ completed[s]]
        /\ won' = [won EXCEPT ![t] = {}]
        /\ GoOn(t, "hooks")
  /\ UNCHANGED <<recordVars, tombVars, activity, progress, completed, scopeVars,
                 suspended, torn, recycled, sess, batch>>

\* One hook, outside every lock.  It may fail or panic.
RunHook(t, h, succeeds) ==
  /\ pc[t] = "hooks"
  /\ h \in work[t]
  /\ work' = [work EXCEPT ![t] = @ \ {h}]
  /\ won' = [won EXCEPT ![t] = IF succeeds THEN @ \cup {h} ELSE @]
  /\ torn' = [torn EXCEPT ![sess[t]] = IF succeeds THEN @ \cup {h} ELSE @]
  /\ UNCHANGED <<recordVars, tombVars, activity, cleanupVars, scopeVars,
                 suspended, recycled, pc, sess, purpose, batch>>

\* Mutant: a cleanup with a failed hook stays marked as running.
RetryEndStillRunning(t) ==
  LET s == sess[t]
      all == completed[s] \cup won[t]
      complete == s \notin progress \/ all = Hooks
  IN
  /\ pc[t] = "hooks"
  /\ work[t] = {}
  /\ running' = IF complete THEN running \ {s} ELSE running
  /\ progress' = IF complete THEN progress \ {s} ELSE progress
  /\ completed' = [completed EXCEPT ![s] = IF complete THEN {} ELSE all]
  /\ won' = [won EXCEPT ![t] = {}]
  /\ Report(t, complete)
  /\ UNCHANGED <<recordVars, tombVars, activity, scopeVars, suspended, torn,
                 recycled, sess, work, batch>>

\* The results under the lock again; a complete cleanup is forgotten.
RetryEnd(t) ==
  LET s == sess[t]
      all == completed[s] \cup won[t]
      complete == s \notin progress \/ all = Hooks
  IN
  /\ pc[t] = "hooks"
  /\ work[t] = {}
  /\ running' = running \ {s}
  /\ progress' = IF complete THEN progress \ {s} ELSE progress
  /\ completed' = [completed EXCEPT ![s] = IF complete THEN {} ELSE all]
  /\ won' = [won EXCEPT ![t] = {}]
  /\ Report(t, complete)
  /\ UNCHANGED <<recordVars, tombVars, activity, scopeVars, suspended, torn,
                 recycled, sess, work, batch>>

-----------------------------------------------------------------------------
(* The keepers: idle sweep, transport close, revoke-all.                   *)

\* evict_idle: a copy of the records' counts ...
SweepRecords(t) ==
  /\ pc[t] = "idle"
  /\ batch' = [batch EXCEPT ![t] = {s \in Sessions : inFlight[s] = 0}]
  /\ GoTo(t, "sweep")
  /\ UNCHANGED <<recordVars, tombVars, activity, cleanupVars, scopeVars,
                 suspended, torn, recycled, sess, purpose, work, won>>

\* ... then, under the other lock, the ids idle for the TTL and uncounted there.
SweepActivity(t) ==
  LET stale == {s \in batch[t] : activity[s] = "stale"} IN
  /\ pc[t] = "sweep"
  /\ batch' = [batch EXCEPT ![t] = stale]
  /\ GoTo(t, IF stale = {} THEN "idle" ELSE "batch")
  /\ aim' = [aim EXCEPT ![t] = IF stale = {} THEN "explicit" ELSE "idle"]
  /\ UNCHANGED <<via, asks>>
  /\ UNCHANGED <<recordVars, tombVars, activity, cleanupVars, scopeVars,
                 suspended, torn, recycled, sess, work, won>>

\* end_sessions_for_owner: a connection reached its end of file.
CloseTransport(t, o) ==
  /\ pc[t] = "idle"
  /\ \E s \in Sessions : owner[s] = o
  /\ batch' = [batch EXCEPT ![t] = {s \in Sessions : owner[s] = o}]
  /\ GoTo(t, "batch")
  /\ aim' = [aim EXCEPT ![t] = "exit"]
  /\ UNCHANGED <<via, asks>>
  /\ UNCHANGED <<recordVars, tombVars, activity, cleanupVars, scopeVars,
                 suspended, torn, recycled, sess, work, won>>

\* revoke_all_sessions: the latch first, then the ids with an activity entry.
RevokeAll(t) ==
  /\ pc[t] = "idle"
  /\ suspended' = TRUE
  /\ GoTo(t, "revoke")
  /\ UNCHANGED <<recordVars, tombVars, activity, cleanupVars, scopeVars, torn,
                 recycled, sess, purpose, localVars>>

RevokeSnapshot(t) ==
  LET known == {s \in Sessions : activity[s] # "none"} IN
  /\ pc[t] = "revoke"
  /\ batch' = [batch EXCEPT ![t] = known]
  /\ GoTo(t, IF known = {} THEN "idle" ELSE "batch")
  /\ UNCHANGED <<recordVars, tombVars, activity, cleanupVars, scopeVars,
                 suspended, torn, recycled, sess, purpose, work, won>>

NextInBatch(t) ==
  /\ pc[t] = "batch"
  /\ \E s \in batch[t] :
       /\ sess' = [sess EXCEPT ![t] = s]
       /\ batch' = [batch EXCEPT ![t] = @ \ {s}]
  /\ GoTo(t, "decide")
  /\ UNCHANGED <<recordVars, tombVars, activity, cleanupVars, scopeVars,
                 suspended, torn, recycled, purpose, work, won>>

\* The idle TTL passes over a session nobody touches.
Idle(s) ==
  /\ activity[s] = "fresh"
  /\ activity' = [activity EXCEPT ![s] = "stale"]
  /\ UNCHANGED <<recordVars, tombVars, cleanupVars, scopeVars, suspended, torn,
                 recycled, pc, sess, purpose, localVars>>

-----------------------------------------------------------------------------
\* What a thread that has begun something does next.
Call(t) ==
  \/ Begin(t) \/ Escalate(t) \/ Unlock(t) \/ DropGuard(t)
  \/ Activate(t) \/ Bind(t) \/ BindInsert(t) \/ Announce(t) \/ MatchTombstone(t)
Keep(t) == SweepActivity(t) \/ RevokeSnapshot(t) \/ NextInBatch(t)
EndStep(t) ==
  \/ Decide(t) \/ ForgetActivity(t) \/ Mark(t) \/ ClearScope(t)
  \/ InstallProgress(t) \/ RetryBegin(t) \/ RetryEnd(t) \/ Touch(t)
  \/ \E h \in Hooks, succeeds \in BOOLEAN : RunHook(t, h, succeeds)

Next ==
  \/ \E t \in Clients :
       \/ \E o \in Owners, s \in Sessions :
            \/ Admit(t, o, s) \/ EndTool(t, o, s)
            \/ \E p \in Policies \cup {"none"} : Start(t, o, s, p)
       \/ Call(t)
  \/ \E t \in Keepers :
       \/ SweepRecords(t) \/ RevokeAll(t) \/ Keep(t)
       \/ \E o \in Owners : CloseTransport(t, o)
  \/ \E t \in Threads : EndStep(t)
  \/ \E s \in Sessions : Idle(s)

Spec == Init /\ [][Next]_vars
\* Threads are scheduled, platform calls return and hooks return.
Fairness ==
  /\ \A t \in Clients : WF_vars(Call(t))
  /\ \A t \in Keepers : WF_vars(Keep(t))
  /\ \A t \in Threads : WF_vars(EndStep(t))
FairSpec == Spec /\ Fairness

-----------------------------------------------------------------------------
(* Properties.                                                             *)

\* The types of the registry, of the cleanup tables and of the threads.
SessionsTypeOK ==
  /\ owner \in [Sessions -> Owners \cup {NoOwner}]
  /\ inFlight \in [Sessions -> Nat]
  /\ pendingEnd \in [Sessions -> Reasons \cup {"none"}]
  /\ tombstones \subseteq Sessions
  /\ buriedFor \in [Sessions -> Owners \cup {NoOwner}]
  /\ activity \in [Sessions -> {"none", "fresh", "stale"}]
  /\ progress \subseteq Sessions
  /\ completed \in [Sessions -> SUBSET Hooks]
  /\ running \subseteq Sessions
  /\ scope \in [Sessions -> Policies \cup {"none", "unlocked"}]
  /\ scopeLock \subseteq Threads
  /\ suspended \in BOOLEAN
  /\ torn \in [Sessions -> SUBSET Hooks]
  /\ recycled \subseteq Sessions
  /\ pc \in [Threads -> PCs]
  /\ sess \in [Threads -> Sessions]
  /\ via \in [Threads -> Owners \cup {NoOwner}]
  /\ aim \in [Threads -> Reasons \cup {"dispatch", "start", "revive"}]
  /\ asks \in [Threads -> Policies \cup {"none"}]
  /\ work \in [Threads -> SUBSET Hooks]
  /\ won \in [Threads -> SUBSET Hooks]
  /\ batch \in [Threads -> SUBSET Sessions]

\* The registry keeps what SessionContract promises, whatever the threads do:
\* no id is live and ended at once (session.rs:464, "one critical section"),
\* and an id never passes to another transport, alive, ended or in between.
Contract == INSTANCE SessionContract WITH
  phase <- [s \in Sessions |-> IF Live(s) THEN "live"
                               ELSE IF Ended(s) THEN "ended" ELSE "unknown"],
  holder <- [s \in Sessions |-> IF Live(s) THEN owner[s] ELSE buriedFor[s]]
KeepsContract == Contract!Spec
NeverLiveAndEnded == \A s \in Sessions : ~(Live(s) /\ Ended(s))

\* A session that was asked to end while calls were in flight still has a
\* call in flight, whose guard will end it; nothing else would.
DeferredEndHasAGuard ==
  \A s \in Sessions : pendingEnd[s] # "none" =>
    Live(s) /\ \E t \in Clients : Guarded(t, s)

\* So a deferred end happens.
DeferredEndHappens ==
  \A s \in Sessions : pendingEnd[s] # "none" ~> pendingEnd[s] = "none"

\* A cleanup marked as running is being run: no end or start is told "in
\* progress" for ever by a thread that has left.
RunningIsRun ==
  \A s \in running : \E t \in Threads : pc[t] = "hooks" /\ sess[t] = s

\* A session's capture policy, unlocked or not, does not survive its end: once
\* the thread that ended it is past clear_session nothing can write it back
\* (capture_scope.rs:131, "a late action can never resurrect").
PolicyEndsWithSession ==
  \A s \in tombstones :
    (\A t \in Threads : ~(pc[t] = "clear" /\ sess[t] = s)) => scope[s] = "none"

\* Cleanup of an id in its first life: the hooks run only when it is ended, a
\* hook that succeeded is not run again, and once nothing is left to retry
\* every hook has succeeded.
FirstCleanupExact ==
  \A s \in Sessions \ recycled :
    /\ \A t \in Threads : pc[t] = "hooks" /\ sess[t] = s =>
         Ended(s) /\ work[t] \cap torn[s] = {}
    /\ Ended(s) /\ s \notin progress =>
         \/ torn[s] = Hooks
         \/ \E t \in Threads : pc[t] \in {"clear", "install"} /\ sess[t] = s
=============================================================================
